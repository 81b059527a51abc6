----------------------------- MODULE PopupProofs -----------------------------
(***************************************************************************)
(* Proofs about the popup composed with the runner: the answer to          *)
(* RUN_BENCHMARK reaches only the popup instance that awaits it, and the   *)
(* benchmark a popup tracks was registered by the worker.  The argument    *)
(* follows an open popup through the phases of handleRunBenchmark: idle,   *)
(* asking (exactly one message of this instance is queued), answered       *)
(* (sendResponse reached it) and told (currentBenchmarkId is set).  Older  *)
(* instances' messages carry smaller numbers, so their answers are never   *)
(* delivered.                                                              *)
(***************************************************************************)
EXTENDS Popup, BenchmarkRunnerProofs

\* What the proofs need of the popup's constants: the bound on openings is
\* a number, and "no answer" is not a benchmark id.
PopupConstantsOK == MaxPopupOpens \in Nat /\ NoReply \notin Benchmarks

\* The positions of the open instance's messages in the worker's queue.
Asked == {i \in 1..Len(inbox) : inbox[i] = popupGen}

\* The phases of an open popup.
PopupIdle ==
    /\ ~isRunning /\ ~awaiting /\ reply = NoReply /\ currentBenchmarkId = NoId
    /\ Asked = {}
Asking ==
    /\ isRunning /\ awaiting /\ reply = NoReply /\ currentBenchmarkId = NoId
    /\ Asked # {} /\ \A i, j \in Asked : i = j
Answered ==
    /\ isRunning /\ awaiting /\ reply # NoReply /\ currentBenchmarkId = NoId
    /\ Asked = {}
Told ==
    /\ isRunning /\ ~awaiting /\ reply = NoReply /\ Asked = {}

PopupInductive ==
    /\ PopupTypeOK
    /\ \A i \in 1..Len(inbox) : inbox[i] <= popupGen
    /\ popupOpen => popupGen >= 1
    /\ ~popupOpen => ~isRunning /\ ~awaiting /\ reply = NoReply
                     /\ currentBenchmarkId = NoId
    /\ popupOpen => PopupIdle \/ Asking \/ Answered \/ Told
    /\ reply # NoReply => pc[reply] # "idle"
    /\ currentBenchmarkId # NoId => pc[currentBenchmarkId] # "idle"

-----------------------------------------------------------------------------
(***************************************************************************)
(* A benchmark id the worker has registered is never idle again: every    *)
(* handler step moves its own benchmark between non-idle points.           *)
(***************************************************************************)
LEMMA StartedStaysStarted ==
    ASSUME TypeOK, [Next]_vars
    PROVE  \A c \in Benchmarks : pc[c] # "idle" => pc'[c] # "idle"
<1> SUFFICES ASSUME NEW c \in Benchmarks, pc[c] # "idle"
             PROVE  pc'[c] # "idle"
    OBVIOUS
<1>1. ASSUME NEW b \in Benchmarks, RunBenchmark(b) PROVE pc'[c] # "idle"
    BY <1>1 DEF RunBenchmark, TypeOK
<1>2. ASSUME NEW b \in Benchmarks,
             \/ ProgressTick(b) \/ FinishSimulation(b) \/ SaveLoad(b)
             \/ SaveReadSettings(b) \/ SaveWrite(b)
      PROVE  pc'[c] # "idle"
    BY <1>2 DEF ProgressTick, FinishSimulation, SaveLoad, SaveReadSettings,
                SaveWrite, TypeOK
<1>3. ASSUME NEW b \in Benchmarks, SaveFailsAndRetries(b) \/ SaveFailsInRunCatch(b)
      PROVE  pc'[c] # "idle"
    BY <1>3 DEF SaveFailsAndRetries, SaveFailsInRunCatch, TypeOK
<1>4. CASE \/ BroadcastToTabs \/ ClearResults \/ ResetSettings \/ ClearSyncStorage
           \/ \E v \in MaxStoredChoices : SaveSettings(v)
    BY <1>4 DEF BroadcastToTabs, ClearResults, ResetSettings, ClearSyncStorage,
                SaveSettings
<1>5. CASE UNCHANGED vars
    BY <1>5 DEF vars
<1>. QED
    BY <1>1, <1>2, <1>3, <1>4, <1>5 DEF Next, Proceed

LEMMA PopupInitInv ==
    ASSUME PopupConstantsOK
    PROVE  PopupInit => PopupInductive
<1> SUFFICES ASSUME PopupInit PROVE PopupInductive
    OBVIOUS
<1>1. TypeOK
    BY TypeInit DEF PopupInit
<1>2. Asked = {}
    BY DEF PopupInit, Asked
<1>3. PopupTypeOK
    <2>1. inbox \in Seq(1..MaxPopupOpens) /\ popupGen \in 0..MaxPopupOpens
        BY DEF PopupConstantsOK, PopupInit
    <2>2. reply \in Benchmarks \cup {NoReply} /\ currentBenchmarkId \in Benchmarks \cup {NoId}
        BY DEF PopupInit
    <2>. QED
        BY <1>1, <2>1, <2>2, Zenon DEF PopupInit, PopupTypeOK
<1>. QED
    BY <1>2, <1>3 DEF PopupInit, PopupInductive

\* A runner step that the popup does not take part in keeps the invariant.
LEMMA RunnerOnlyStep ==
    ASSUME PopupInductive, [Next]_vars, UNCHANGED popupVars
    PROVE  PopupInductive'
<1>1. TypeOK'
    BY TypeStep DEF PopupInductive, PopupTypeOK
<1>2. \A c \in Benchmarks : pc[c] # "idle" => pc'[c] # "idle"
    BY StartedStaysStarted DEF PopupInductive, PopupTypeOK
<1>3. Asked' = Asked
    BY DEF popupVars, Asked
<1>4. PopupTypeOK'
    BY <1>1 DEF PopupInductive, PopupTypeOK, popupVars
<1>5. (reply # NoReply => pc[reply] # "idle")'
      /\ (currentBenchmarkId # NoId => pc[currentBenchmarkId] # "idle")'
    BY <1>2 DEF PopupInductive, PopupTypeOK, popupVars
<1>6. (popupOpen => PopupIdle \/ Asking \/ Answered \/ Told)'
    BY <1>3 DEF PopupInductive, popupVars, PopupIdle, Asking, Answered, Told
<1>. QED
    BY <1>4, <1>5, <1>6 DEF PopupInductive, popupVars

\* A popup step that leaves the runner alone keeps what the invariant says
\* of the runner's state.
LEMMA RunnerUntouched ==
    ASSUME PopupInductive, UNCHANGED vars,
           reply' \in {reply, NoReply},
           \/ currentBenchmarkId' \in {currentBenchmarkId, NoId}
           \/ currentBenchmarkId' = reply /\ reply # NoReply
    PROVE  /\ TypeOK'
           /\ (reply # NoReply => pc[reply] # "idle")'
           /\ (currentBenchmarkId # NoId => pc[currentBenchmarkId] # "idle")'
<1>1. TypeOK'
    BY DEF PopupInductive, PopupTypeOK, TypeOK, vars
<1>2. pc' = pc
    BY DEF vars
<1>3. (reply # NoReply => pc[reply] # "idle")'
    BY <1>2 DEF PopupInductive
<1>4. (currentBenchmarkId # NoId => pc[currentBenchmarkId] # "idle")'
    BY <1>2 DEF PopupInductive
<1>. QED
    BY <1>1, <1>3, <1>4

\* Opening the popup mounts a fresh instance with a new number, which no
\* queued message carries.
LEMMA OpenPopupStep ==
    ASSUME PopupConstantsOK, PopupInductive, OpenPopup
    PROVE  PopupInductive'
<1>1. /\ TypeOK'
      /\ (reply # NoReply => pc[reply] # "idle")'
      /\ (currentBenchmarkId # NoId => pc[currentBenchmarkId] # "idle")'
    BY RunnerUntouched DEF OpenPopup, FreshPopup
<1>2. popupGen \in Nat /\ popupGen' = popupGen + 1 /\ popupGen' \in 1..MaxPopupOpens
    BY DEF PopupConstantsOK, PopupInductive, PopupTypeOK, OpenPopup
<1>0. inbox' = inbox /\ inbox \in Seq(1..MaxPopupOpens)
    BY DEF OpenPopup, PopupInductive, PopupTypeOK
<1>3. PopupTypeOK'
    <2>1. /\ popupOpen' \in BOOLEAN /\ isRunning' \in BOOLEAN /\ awaiting' \in BOOLEAN
          /\ currentBenchmarkId' \in Benchmarks \cup {NoId}
          /\ reply' \in Benchmarks \cup {NoReply}
        BY DEF OpenPopup, FreshPopup
    <2>. QED
        BY <1>0, <1>1, <1>2, <2>1 DEF PopupTypeOK
<1>4. \A i \in 1..Len(inbox') : inbox'[i] <= popupGen'
    <2> SUFFICES ASSUME NEW i \in 1..Len(inbox) PROVE inbox[i] <= popupGen + 1
        BY <1>0, <1>2
    <2>1. inbox[i] \in 1..MaxPopupOpens
        BY <1>0, ElementOfSeq
    <2>2. inbox[i] <= popupGen
        BY DEF PopupInductive
    <2>. QED
        BY <1>2, <2>1, <2>2
<1>5. Asked' = {}
    BY <1>0, <1>2 DEF PopupInductive, Asked
<1>6. PopupIdle'
    BY <1>5 DEF OpenPopup, FreshPopup, PopupIdle
<1>. QED
    BY <1>1, <1>2, <1>3, <1>4, <1>6 DEF PopupInductive, OpenPopup

\* Closing the popup discards its state; its messages stay queued.
LEMMA ClosePopupStep ==
    ASSUME PopupInductive, ClosePopup
    PROVE  PopupInductive'
<1>1. /\ TypeOK'
      /\ (reply # NoReply => pc[reply] # "idle")'
      /\ (currentBenchmarkId # NoId => pc[currentBenchmarkId] # "idle")'
    BY RunnerUntouched DEF ClosePopup, FreshPopup
<1>2. PopupTypeOK'
    BY <1>1 DEF PopupInductive, PopupTypeOK, ClosePopup, FreshPopup
<1>. QED
    BY <1>1, <1>2 DEF PopupInductive, ClosePopup, FreshPopup

\* Run is clicked in an idle popup: its one message is queued.
LEMMA HandleRunStep ==
    ASSUME PopupInductive, HandleRunBenchmark
    PROVE  PopupInductive'
<1>1. /\ TypeOK'
      /\ (reply # NoReply => pc[reply] # "idle")'
      /\ (currentBenchmarkId # NoId => pc[currentBenchmarkId] # "idle")'
    BY RunnerUntouched DEF HandleRunBenchmark
<1>2. PopupIdle
    BY DEF PopupInductive, HandleRunBenchmark, Asking, Answered, Told
<1>3. popupGen \in 1..MaxPopupOpens /\ inbox \in Seq(1..MaxPopupOpens)
    BY DEF PopupInductive, PopupTypeOK, HandleRunBenchmark
<1>4. /\ inbox' \in Seq(1..MaxPopupOpens)
      /\ Len(inbox') = Len(inbox) + 1
      /\ \A i \in 1..Len(inbox) : inbox'[i] = inbox[i]
      /\ inbox'[Len(inbox) + 1] = popupGen
    BY <1>3, AppendProperties DEF HandleRunBenchmark
<1>5. Asked' = {Len(inbox) + 1}
    BY <1>2, <1>4 DEF PopupIdle, Asked, HandleRunBenchmark
<1>6. \A i \in 1..Len(inbox') : inbox'[i] <= popupGen'
    BY <1>3, <1>4 DEF PopupInductive, HandleRunBenchmark
<1>7. PopupTypeOK'
    BY <1>1, <1>4 DEF PopupInductive, PopupTypeOK, HandleRunBenchmark
<1>8. Asking'
    BY <1>2, <1>5 DEF PopupIdle, Asking, HandleRunBenchmark
<1>. QED
    BY <1>1, <1>6, <1>7, <1>8 DEF PopupInductive, HandleRunBenchmark

\* The awaited answer is read: the popup tracks the benchmark it was given.
LEMMA ReceiveReplyStep ==
    ASSUME PopupInductive, ReceiveReply
    PROVE  PopupInductive'
<1>1. popupOpen /\ Answered
    BY DEF PopupInductive, ReceiveReply, PopupIdle, Asking, Told
<1>2. /\ TypeOK'
      /\ (reply # NoReply => pc[reply] # "idle")'
      /\ (currentBenchmarkId # NoId => pc[currentBenchmarkId] # "idle")'
    BY RunnerUntouched DEF ReceiveReply
<1>3. PopupTypeOK'
    BY <1>2 DEF PopupInductive, PopupTypeOK, ReceiveReply
<1>4. Told'
    BY <1>1 DEF Answered, Told, ReceiveReply, Asked
<1>. QED
    BY <1>1, <1>2, <1>3, <1>4 DEF PopupInductive, ReceiveReply

(***************************************************************************)
(* The worker serves the oldest queued message.  If it is the open         *)
(* instance's one, that instance was asking and is now answered; any      *)
(* other message is an older instance's, whose answer goes nowhere, and    *)
(* the open instance's messages only move up the queue.                    *)
(***************************************************************************)
LEMMA ServeRunStep ==
    ASSUME PopupConstantsOK, PopupInductive, NEW b \in Benchmarks, ServeRun(b)
    PROVE  PopupInductive'
<1>0. /\ inbox \in Seq(1..MaxPopupOpens) /\ inbox # << >>
      /\ inbox' \in Seq(1..MaxPopupOpens)
      /\ Len(inbox') = Len(inbox) - 1
      /\ \A i \in 1..Len(inbox') : inbox'[i] = inbox[i + 1]
      /\ Head(inbox) = inbox[1]
    <2>1. inbox \in Seq(1..MaxPopupOpens) /\ inbox # << >>
        BY DEF PopupInductive, PopupTypeOK, ServeRun
    <2>. QED
        BY <2>1, HeadTailProperties DEF ServeRun
<1>1. TypeOK'
    <2>1. Next
        BY DEF ServeRun, Next
    <2>. QED
        BY <2>1, TypeStep DEF PopupInductive, PopupTypeOK
<1>2. \A c \in Benchmarks : pc[c] # "idle" => pc'[c] # "idle"
    BY StartedStaysStarted DEF Next, ServeRun, PopupInductive, PopupTypeOK
<1>3. UNCHANGED <<popupOpen, popupGen, isRunning, currentBenchmarkId, awaiting>>
    BY DEF ServeRun
<1>4. \A i \in 1..Len(inbox') : inbox'[i] <= popupGen'
    BY <1>0, <1>3 DEF PopupInductive
<1>5. \A i \in 1..Len(inbox') : i \in Asked' <=> i + 1 \in Asked
    BY <1>0, <1>3 DEF Asked
<1>6. \A i \in Asked' : i \in 1..Len(inbox')
    BY DEF Asked
<1>7. (currentBenchmarkId # NoId => pc[currentBenchmarkId] # "idle")'
    BY <1>2, <1>3 DEF PopupInductive, PopupTypeOK
<1>8. CASE popupOpen /\ Head(inbox) = popupGen
    <2>1. 1 \in Asked
        BY <1>0, <1>8 DEF Asked
    <2>2. Asking
        BY <1>8, <2>1 DEF PopupInductive, PopupIdle, Answered, Told
    <2>3. Asked' = {}
        BY <1>5, <1>6, <2>1, <2>2 DEF Asking
    <2>4. reply' = b /\ b # NoReply /\ pc'[b] = "sim"
        BY <1>8 DEF ServeRun, PopupConstantsOK
    <2>5. Answered'
        BY <1>3, <2>2, <2>3, <2>4 DEF Asking, Answered
    <2>6. PopupTypeOK'
        BY <1>0, <1>1, <1>3, <2>4 DEF PopupInductive, PopupTypeOK
    <2>. QED
        BY <1>3, <1>4, <1>7, <1>8, <2>4, <2>5, <2>6 DEF PopupInductive
<1>9. CASE ~(popupOpen /\ Head(inbox) = popupGen)
    <2>1. reply' = reply
        BY <1>9 DEF ServeRun
    <2>2. (reply # NoReply => pc[reply] # "idle")'
        BY <1>2, <2>1 DEF PopupInductive, PopupTypeOK
    <2>3. PopupTypeOK'
        BY <1>0, <1>1, <1>3, <2>1 DEF PopupInductive, PopupTypeOK
    <2>4. popupOpen => 1 \notin Asked
        BY <1>0, <1>9 DEF Asked
    <2>5. Asked = {} => Asked' = {}
        BY <1>5, <1>6
    <2>6. Asked # {} /\ (\A i, j \in Asked : i = j) /\ popupOpen
          => Asked' # {} /\ \A i, j \in Asked' : i = j
        <3> SUFFICES ASSUME Asked # {}, \A i, j \in Asked : i = j, popupOpen
                     PROVE  Asked' # {} /\ \A i, j \in Asked' : i = j
            OBVIOUS
        <3>1. PICK k \in Asked : TRUE
            OBVIOUS
        <3>2. k - 1 \in Asked'
            <4>1. k \in 2..Len(inbox)
                BY <2>4 DEF Asked
            <4>. QED
                BY <1>0, <1>5, <4>1
        <3>3. \A i, j \in Asked' : i = j
            BY <1>5, <1>6
        <3>. QED
            BY <3>2, <3>3
    <2>7. (popupOpen => PopupIdle \/ Asking \/ Answered \/ Told)'
        BY <1>3, <2>1, <2>5, <2>6
        DEF PopupInductive, PopupIdle, Asking, Answered, Told
    <2>. QED
        BY <1>3, <1>4, <1>7, <2>1, <2>2, <2>3, <2>7 DEF PopupInductive
<1>. QED
    BY <1>8, <1>9

LEMMA PopupStep ==
    ASSUME PopupConstantsOK
    PROVE  PopupInductive /\ [PopupNext]_allVars => PopupInductive'
<1> SUFFICES ASSUME PopupInductive, [PopupNext]_allVars PROVE PopupInductive'
    OBVIOUS
<1>1. ASSUME NEW b \in Benchmarks, SidebarRun(b) PROVE PopupInductive'
    BY <1>1, RunnerOnlyStep DEF SidebarRun, Next
<1>2. CASE RunnerStep
    <2>1. Next /\ UNCHANGED popupVars
        BY <1>2 DEF RunnerStep, Next
    <2>. QED
        BY <2>1, RunnerOnlyStep
<1>3. CASE OpenPopup
    BY <1>3, OpenPopupStep
<1>4. CASE ClosePopup
    BY <1>4, ClosePopupStep
<1>5. CASE HandleRunBenchmark
    BY <1>5, HandleRunStep
<1>6. ASSUME NEW b \in Benchmarks, ServeRun(b) PROVE PopupInductive'
    BY <1>6, ServeRunStep
<1>7. CASE ReceiveReply
    BY <1>7, ReceiveReplyStep
<1>8. CASE UNCHANGED allVars
    BY <1>8, RunnerOnlyStep DEF allVars
<1>. QED
    BY <1>1, <1>2, <1>3, <1>4, <1>5, <1>6, <1>7, <1>8 DEF PopupNext

-----------------------------------------------------------------------------
(***************************************************************************)
(* The phases of handleRunBenchmark hold in every state of the popup and   *)
(* runner together, for any number of benchmarks and popup openings.       *)
(***************************************************************************)
THEOREM PopupInvariant ==
    ASSUME PopupConstantsOK
    PROVE  PopupSpec => []PopupInductive
BY PopupInitInv, PopupStep, PTL DEF PopupSpec

(***************************************************************************)
(* The worker's sendResponse reaches only the popup instance awaiting it   *)
(* (never one reopened after the asker closed), with a benchmark the      *)
(* worker registered, and the popup tracks that benchmark only while it    *)
(* shows the run.                                                          *)
(***************************************************************************)
THEOREM AnswerReachesAsker ==
    ASSUME PopupConstantsOK
    PROVE  PopupSpec => []AnswerToAsker
<1>1. PopupInductive => AnswerToAsker
    <2> SUFFICES ASSUME PopupInductive PROVE AnswerToAsker
        OBVIOUS
    <2>1. reply # NoReply => awaiting
        BY DEF PopupInductive, PopupIdle, Asking, Answered, Told
    <2>2. currentBenchmarkId # NoId => isRunning
        BY DEF PopupInductive, PopupIdle, Asking, Answered, Told
    <2>. QED
        BY <2>1, <2>2 DEF PopupInductive, AnswerToAsker
<1>. QED
    BY <1>1, PopupInvariant, PTL
=============================================================================

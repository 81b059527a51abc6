------------------------------- MODULE Popup -------------------------------
(***************************************************************************)
(* The popup (src/popup/popup.tsx) composed with the service worker's      *)
(* runner.  The popup sends RUN_BENCHMARK with chrome.runtime.sendMessage  *)
(* and awaits the answer; runBenchmark registers the benchmark and answers *)
(* synchronously, before its first await.  A popup is a page that lives    *)
(* only while it is open: closing it discards its state, and an answer to *)
(* a closed popup goes nowhere.  Every popup opened is a new instance,     *)
(* numbered by popupGen.  Benchmarks are also started from the sidebar,    *)
(* whose request carries no answer the model needs (RunBenchmark alone).   *)
(*                                                                         *)
(* The service worker announces progress and completion with               *)
(* chrome.tabs.sendMessage only, which reaches content scripts in tabs and *)
(* never the popup's chrome.runtime.onMessage listener: no step of the     *)
(* runner changes the popup's state.                                       *)
(***************************************************************************)
EXTENDS BenchmarkRunner

CONSTANTS
    NoId,           \* currentBenchmarkId === null, not a benchmark id
    NoReply,        \* the popup has no answer to read, not a benchmark id
    MaxPopupOpens   \* how many times the user opens the popup in a behaviour

VARIABLES
    popupOpen,          \* the popup page exists
    popupGen,           \* the number of popup instances opened so far
    isRunning,          \* the popup's isRunning
    currentBenchmarkId, \* the popup's currentBenchmarkId
    awaiting,           \* handleRunBenchmark is suspended at its sendMessage
    inbox,              \* RUN_BENCHMARK messages of popups the worker has not
                        \* handled yet: the instance that sent each one
    reply               \* the answer delivered to the open popup, or NoReply

popupVars == <<popupOpen, popupGen, isRunning, currentBenchmarkId, awaiting,
               inbox, reply>>

allVars == <<vars, popupVars>>

PopupTypeOK ==
    /\ TypeOK
    /\ popupOpen \in BOOLEAN
    /\ popupGen \in 0..MaxPopupOpens
    /\ isRunning \in BOOLEAN
    /\ currentBenchmarkId \in Benchmarks \cup {NoId}
    /\ awaiting \in BOOLEAN
    /\ inbox \in Seq(1..MaxPopupOpens)
    /\ reply \in Benchmarks \cup {NoReply}

\* The state a popup instance starts in (useState initial values).
FreshPopup ==
    /\ isRunning' = FALSE
    /\ currentBenchmarkId' = NoId
    /\ awaiting' = FALSE
    /\ reply' = NoReply

PopupInit ==
    /\ Init
    /\ popupOpen = FALSE
    /\ popupGen = 0
    /\ isRunning = FALSE
    /\ currentBenchmarkId = NoId
    /\ awaiting = FALSE
    /\ inbox = <<>>
    /\ reply = NoReply

(***************************************************************************)
(* The user opens the popup: a new PopupApp mounts with its initial state. *)
(***************************************************************************)
OpenPopup ==
    /\ ~popupOpen
    /\ popupGen < MaxPopupOpens
    /\ popupOpen' = TRUE
    /\ popupGen' = popupGen + 1
    /\ FreshPopup
    /\ UNCHANGED <<vars, inbox>>

(***************************************************************************)
(* The popup loses focus and closes; what it held is gone.  Messages it    *)
(* already sent stay with the worker.                                      *)
(***************************************************************************)
ClosePopup ==
    /\ popupOpen
    /\ popupOpen' = FALSE
    /\ FreshPopup
    /\ UNCHANGED <<vars, popupGen, inbox>>

(***************************************************************************)
(* handleRunBenchmark, up to its await: isRunning is set and the message   *)
(* is sent.  The Run button is disabled while isRunning, and while the     *)
(* form has validation errors, so only a valid config is sent.             *)
(***************************************************************************)
HandleRunBenchmark ==
    /\ popupOpen
    /\ ~isRunning
    /\ isRunning' = TRUE
    /\ awaiting' = TRUE
    /\ inbox' = Append(inbox, popupGen)
    /\ UNCHANGED <<vars, popupOpen, popupGen, currentBenchmarkId, reply>>

(***************************************************************************)
(* The worker's onMessage listener runs handleMessage for the oldest popup *)
(* message: runBenchmark accepts the valid config, registers benchmark b   *)
(* and calls sendResponse, which reaches the popup only if the instance    *)
(* that sent the message is still the open one.                            *)
(***************************************************************************)
ServeRun(b) ==
    /\ inbox # <<>>
    /\ RunBenchmark(b)
    /\ pc'[b] = "sim"
    /\ inbox' = Tail(inbox)
    /\ reply' = IF popupOpen /\ Head(inbox) = popupGen THEN b ELSE reply
    /\ UNCHANGED <<popupOpen, popupGen, isRunning, currentBenchmarkId, awaiting>>

(***************************************************************************)
(* The awaited sendMessage resolves with { success: true, benchmarkId }:   *)
(* currentBenchmarkId is set and isRunning stays set.                      *)
(***************************************************************************)
ReceiveReply ==
    /\ awaiting
    /\ reply # NoReply
    /\ currentBenchmarkId' = reply
    /\ awaiting' = FALSE
    /\ reply' = NoReply
    /\ UNCHANGED <<vars, popupOpen, popupGen, isRunning, inbox>>

(***************************************************************************)
(* The sidebar's Run button posts RUN_BENCHMARK to the content script,     *)
(* which forwards it with chrome.runtime.sendMessage and ignores the       *)
(* answer: the worker runs runBenchmark for it and no popup hears of it.   *)
(***************************************************************************)
SidebarRun(b) ==
    /\ RunBenchmark(b)
    /\ UNCHANGED popupVars

\* Any other step of the runner; none of them reaches the popup.
RunnerStep ==
    /\ \/ \E b \in Benchmarks : Proceed(b)
       \/ \E b \in Benchmarks : SaveFailsAndRetries(b)
       \/ \E b \in Benchmarks : SaveFailsInRunCatch(b)
       \/ BroadcastToTabs
       \/ ClearResults
       \/ \E v \in MaxStoredChoices : SaveSettings(v)
       \/ ResetSettings
       \/ ClearSyncStorage
    /\ UNCHANGED popupVars

PopupNext ==
    \/ \E b \in Benchmarks : SidebarRun(b)
    \/ RunnerStep
    \/ OpenPopup
    \/ ClosePopup
    \/ HandleRunBenchmark
    \/ \E b \in Benchmarks : ServeRun(b)
    \/ ReceiveReply

PopupSpec == PopupInit /\ [][PopupNext]_allVars

(***************************************************************************)
(* The event loop runs what it is handed: the runner's timers, storage     *)
(* callbacks and tabs.query callbacks, the worker's message handler and    *)
(* the resolution of the popup's sendMessage.  The user is free to open    *)
(* and close the popup and to click Run, or not.                           *)
(***************************************************************************)
PopupFairSpec ==
    /\ PopupSpec
    /\ \A b \in Benchmarks : WF_allVars(Proceed(b) /\ UNCHANGED popupVars)
    /\ WF_allVars(BroadcastToTabs /\ UNCHANGED popupVars)
    /\ WF_allVars(\E b \in Benchmarks : ServeRun(b))
    /\ WF_allVars(ReceiveReply)

-----------------------------------------------------------------------------
(***************************************************************************)
(* The answer to RUN_BENCHMARK reaches only the popup instance awaiting    *)
(* it: a popup closed before the worker answered, and then reopened, is    *)
(* never handed the old answer.  The benchmark the popup tracks as         *)
(* currentBenchmarkId, or is being told of, was registered by the worker,  *)
(* and it is tracked only while the popup shows the run.                   *)
(***************************************************************************)
AnswerToAsker ==
    /\ reply # NoReply => awaiting /\ pc[reply] # "idle"
    /\ currentBenchmarkId # NoId => isRunning /\ pc[currentBenchmarkId] # "idle"

(***************************************************************************)
(* "Running..." in the popup ends: once the benchmark the open popup       *)
(* started has been saved and its final status broadcast, the popup's Run *)
(* button is eventually enabled again, unless the popup is closed.         *)
(***************************************************************************)
PopupRunEnds ==
    \A b \in Benchmarks :
        (popupOpen /\ currentBenchmarkId = b /\ pc[b] = "done"
         /\ lastSent[b] \in Terminal)
        ~> (~popupOpen \/ ~isRunning)

=============================================================================

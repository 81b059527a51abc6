---------------------------- MODULE BroadcastProofs ----------------------------
(***************************************************************************)
(* Proofs about what the tabs hear from broadcastBenchmarkUpdate, for every *)
(* value of BenchmarkRunner's constants.  A tabs.query callback reads the   *)
(* shared result object when it runs, so a callback queued during the       *)
(* progress loop may send a status set later.  What keeps the stream sane:  *)
(* a status, once final, stays final (only runBenchmark sets it to running, *)
(* and only for an idle benchmark), and no idle benchmark has a callback    *)
(* queued or has been heard of.                                             *)
(***************************************************************************)
EXTENDS BenchmarkRunnerProofs

\* The three conjuncts of SentFinalOnlyIfFinal, with the type invariant.
Inv == TypeOK /\ SentFinalOnlyIfFinal

\* Appending a benchmark that is not idle keeps every queued one non-idle.
LEMMA AppendNotIdle ==
    ASSUME NEW q \in Seq(Benchmarks), NEW b \in Benchmarks,
           NEW p \in [Benchmarks -> Pcs],
           \A i \in 1..Len(q) : p[q[i]] # "idle",
           p[b] # "idle"
    PROVE  \A i \in 1..Len(Append(q, b)) : p[Append(q, b)[i]] # "idle"
BY AppendProperties

\* Dropping the head keeps every remaining queued benchmark non-idle.
LEMMA TailNotIdle ==
    ASSUME NEW q \in Seq(Benchmarks), q # << >>,
           NEW p \in [Benchmarks -> Pcs],
           \A i \in 1..Len(q) : p[q[i]] # "idle"
    PROVE  \A i \in 1..Len(Tail(q)) : p[Tail(q)[i]] # "idle"
BY HeadTailProperties

-----------------------------------------------------------------------------
LEMMA BroadcastInit == Init => Inv
BY TypeInit, EmptySeq DEF Init, Inv, SentFinalOnlyIfFinal

(***************************************************************************)
(* Every step keeps the invariant.  No action sets pc back to idle, so the *)
(* third conjunct only needs the queue's own changes; the first conjunct   *)
(* is disturbed only by the status changes and by the callback.            *)
(***************************************************************************)
(* A step of one benchmark's handler that leaves it non-idle, queues at    *)
(* most a callback for it, sends nothing and never turns a final status    *)
(* back keeps the invariant.                                               *)
(***************************************************************************)
LEMMA HandlerStep ==
    ASSUME TypeOK, SentFinalOnlyIfFinal, NEW b \in Benchmarks,
           pc' \in [Benchmarks -> Pcs], pc'[b] # "idle",
           \A c \in Benchmarks \ {b} : pc'[c] = pc[c],
           pendingQuery' = pendingQuery \/ pendingQuery' = Append(pendingQuery, b),
           lastSent' = lastSent,
           \A c \in Benchmarks : status[c] \in Terminal => status'[c] \in Terminal
    PROVE  SentFinalOnlyIfFinal'
<1>1. \A c \in Benchmarks : pc'[c] = "idle" => pc[c] = "idle"
    <2> SUFFICES ASSUME NEW c \in Benchmarks, pc'[c] = "idle" PROVE pc[c] = "idle"
        OBVIOUS
    <2>1. c # b
        OBVIOUS
    <2>. QED
        BY <2>1
<1>2. \A c \in Benchmarks : lastSent'[c] \in Terminal => status'[c] \in Terminal
    BY DEF SentFinalOnlyIfFinal
<1>3. \A c \in Benchmarks : pc'[c] = "idle" => lastSent'[c] = "none"
    BY <1>1 DEF SentFinalOnlyIfFinal
<1>4. \A i \in 1..Len(pendingQuery) : pc'[pendingQuery[i]] # "idle"
    <2> SUFFICES ASSUME NEW i \in 1..Len(pendingQuery)
                 PROVE  pc'[pendingQuery[i]] # "idle"
        OBVIOUS
    <2>1. pendingQuery[i] \in Benchmarks
        BY ElementOfSeq DEF TypeOK
    <2>2. pc[pendingQuery[i]] # "idle"
        BY DEF SentFinalOnlyIfFinal
    <2>. QED
        BY <1>1, <2>1, <2>2
<1>5. \A i \in 1..Len(pendingQuery') : pc'[pendingQuery'[i]] # "idle"
    <2>1. CASE pendingQuery' = pendingQuery
        BY <1>4, <2>1
    <2>2. CASE pendingQuery' = Append(pendingQuery, b)
        BY <1>4, <2>2, AppendNotIdle DEF TypeOK
    <2>. QED
        BY <2>1, <2>2
<1>. QED
    BY <1>2, <1>3, <1>5 DEF SentFinalOnlyIfFinal

(***************************************************************************)
(* Every step keeps the invariant: runBenchmark sets a status to running   *)
(* only for an idle benchmark, which no tab has heard of and no callback   *)
(* names; the handler steps go through HandlerStep; the callback sends the *)
(* status the result holds.                                                *)
(***************************************************************************)
LEMMA BroadcastStep == Inv /\ [Next]_vars => Inv'
<1> SUFFICES ASSUME TypeOK, SentFinalOnlyIfFinal, [Next]_vars
             PROVE  TypeOK' /\ SentFinalOnlyIfFinal'
    BY DEF Inv
<1>0. TypeOK'
    BY TypeStep
<1>. USE DEF Terminal
<1>1. ASSUME NEW b \in Benchmarks, RunBenchmark(b) PROVE SentFinalOnlyIfFinal'
    <2>1. pc[b] = "idle" /\ lastSent[b] = "none"
        BY <1>1 DEF RunBenchmark, SentFinalOnlyIfFinal
    <2>2. \A c \in Benchmarks : lastSent'[c] \in Terminal => status'[c] \in Terminal
        BY <1>1, <2>1 DEF RunBenchmark, SentFinalOnlyIfFinal, TypeOK
    <2>3. \A c \in Benchmarks : pc'[c] = "idle" => lastSent'[c] = "none"
        BY <1>1 DEF RunBenchmark, SentFinalOnlyIfFinal, TypeOK
    <2>4. \A i \in 1..Len(pendingQuery') : pc'[pendingQuery'[i]] # "idle"
        <3>1. \A c \in Benchmarks : pc'[c] = "idle" => pc[c] = "idle"
            BY <1>1 DEF RunBenchmark, TypeOK
        <3>2. pendingQuery' = pendingQuery
            BY <1>1 DEF RunBenchmark
        <3>3. \A i \in 1..Len(pendingQuery) : pendingQuery[i] \in Benchmarks
            BY DEF TypeOK
        <3>. QED
            BY <3>1, <3>2, <3>3 DEF SentFinalOnlyIfFinal
    <2>. QED
        BY <2>2, <2>3, <2>4 DEF SentFinalOnlyIfFinal
<1>2. ASSUME NEW b \in Benchmarks,
             ProgressTick(b) \/ FinishSimulation(b) \/ SaveWrite(b)
      PROVE  SentFinalOnlyIfFinal'
    <2>1. pc' \in [Benchmarks -> Pcs]
        BY <1>0 DEF TypeOK
    <2>2. pc'[b] # "idle" /\ \A c \in Benchmarks \ {b} : pc'[c] = pc[c]
        BY <1>2 DEF ProgressTick, FinishSimulation, SaveWrite, TypeOK
    <2>3. pendingQuery' = Append(pendingQuery, b) /\ lastSent' = lastSent
        BY <1>2 DEF ProgressTick, FinishSimulation, SaveWrite
    <2>4. \A c \in Benchmarks : status[c] \in Terminal => status'[c] \in Terminal
        BY <1>2 DEF ProgressTick, FinishSimulation, SaveWrite, TypeOK
    <2>. QED
        BY <2>1, <2>2, <2>3, <2>4, HandlerStep
<1>3. ASSUME NEW b \in Benchmarks,
             SaveLoad(b) \/ SaveReadSettings(b) \/ SaveFailsAndRetries(b)
             \/ SaveFailsInRunCatch(b)
      PROVE  SentFinalOnlyIfFinal'
    <2>1. pc' \in [Benchmarks -> Pcs]
        BY <1>0 DEF TypeOK
    <2>2. pc'[b] # "idle" /\ \A c \in Benchmarks \ {b} : pc'[c] = pc[c]
        BY <1>3 DEF SaveLoad, SaveReadSettings, SaveFailsAndRetries,
                    SaveFailsInRunCatch, TypeOK
    <2>3. pendingQuery' = pendingQuery /\ lastSent' = lastSent
        BY <1>3 DEF SaveLoad, SaveReadSettings, SaveFailsAndRetries,
                    SaveFailsInRunCatch
    <2>4. \A c \in Benchmarks : status[c] \in Terminal => status'[c] \in Terminal
        BY <1>3 DEF SaveLoad, SaveReadSettings, SaveFailsAndRetries,
                    SaveFailsInRunCatch, TypeOK
    <2>. QED
        BY <2>1, <2>2, <2>3, <2>4, HandlerStep
<1>4. CASE BroadcastToTabs
    <2>1. \A i \in 1..Len(pendingQuery') : pc'[pendingQuery'[i]] # "idle"
        BY <1>4, TailNotIdle DEF BroadcastToTabs, SentFinalOnlyIfFinal, TypeOK
    <2>2. Head(pendingQuery) \in Benchmarks /\ pc[Head(pendingQuery)] # "idle"
        BY <1>4, HeadTailProperties DEF BroadcastToTabs, SentFinalOnlyIfFinal, TypeOK
    <2>3. \A c \in Benchmarks : lastSent'[c] \in Terminal => status'[c] \in Terminal
        BY <1>4 DEF BroadcastToTabs, SentFinalOnlyIfFinal, TypeOK
    <2>4. \A c \in Benchmarks : pc'[c] = "idle" => lastSent'[c] = "none"
        BY <1>4, <2>2 DEF BroadcastToTabs, SentFinalOnlyIfFinal, TypeOK
    <2>. QED
        BY <1>0, <2>1, <2>3, <2>4 DEF SentFinalOnlyIfFinal
<1>5. CASE UNCHANGED <<pc, status, pendingQuery, lastSent>>
    BY <1>0, <1>5 DEF SentFinalOnlyIfFinal
<1>. QED
    BY <1>0, <1>1, <1>2, <1>3, <1>4, <1>5
       DEF Next, Proceed, ClearResults, SaveSettings, ResetSettings,
           ClearSyncStorage, vars

-----------------------------------------------------------------------------
(***************************************************************************)
(* The shared result object the tabs.query callbacks read is final before  *)
(* any tab hears a final status, and an idle benchmark has no callback     *)
(* queued: for every set of benchmarks and every step count.               *)
(***************************************************************************)
THEOREM SentFinalInvariant == Spec => []SentFinalOnlyIfFinal
<1>1. Inv => SentFinalOnlyIfFinal
    BY DEF Inv
<1>. QED
    BY <1>1, BroadcastInit, BroadcastStep, PTL DEF Spec

(***************************************************************************)
(* No tab is told that a benchmark runs again after it was told the        *)
(* benchmark's final status (broadcastBenchmarkUpdate's deferred callback  *)
(* in service-worker.ts), whatever the interleaving of progress timers,    *)
(* saves and callbacks.                                                    *)
(***************************************************************************)
THEOREM FinalStatusSticksProved == Spec => FinalStatusSticks
<1>1. Inv /\ [Next]_vars
      => [\A b \in Benchmarks : lastSent[b] \in Terminal => lastSent'[b] \in Terminal]_vars
    <2> SUFFICES ASSUME Inv, [Next]_vars, NEW b \in Benchmarks,
                        lastSent[b] \in Terminal
                 PROVE  lastSent'[b] \in Terminal
        BY DEF vars
    <2>1. status[b] \in Terminal
        BY DEF Inv, SentFinalOnlyIfFinal
    <2>2. CASE BroadcastToTabs
        BY <2>1, <2>2 DEF BroadcastToTabs, Inv, TypeOK
    <2>3. CASE ~BroadcastToTabs
        BY <2>3 DEF Next, Proceed, RunBenchmark, ProgressTick, FinishSimulation,
           SaveLoad, SaveReadSettings, SaveWrite, SaveFailsAndRetries,
           SaveFailsInRunCatch, ClearResults, SaveSettings, ResetSettings,
           ClearSyncStorage, vars
    <2>. QED
        BY <2>2, <2>3
<1>. QED
    BY <1>1, BroadcastInit, BroadcastStep, PTL DEF Spec, FinalStatusSticks
=============================================================================

------------------------ MODULE BenchmarkRunnerProofs ------------------------
(***************************************************************************)
(* Proofs about BenchmarkRunner for every value of its constants: the type *)
(* invariant, and that the result history stays ordered newest first       *)
(* whatever the interleaving of concurrent saves, trims and clears.        *)
(***************************************************************************)
EXTENDS BenchmarkRunner, SequenceTheorems, TLAPS

-----------------------------------------------------------------------------
(***************************************************************************)
(* results.slice(0, k) of a list is a prefix of it, for every integer k.   *)
(***************************************************************************)
LEMMA SliceIsPrefix ==
    ASSUME NEW S, NEW s \in Seq(S), NEW k \in Int
    PROVE  /\ SliceEnd(Len(s), k) \in 0..Len(s)
           /\ Slice(s, k) \in Seq(S)
           /\ Len(Slice(s, k)) = SliceEnd(Len(s), k)
           /\ \A i \in 1..Len(Slice(s, k)) : Slice(s, k)[i] = s[i]
<1>1. SliceEnd(Len(s), k) \in 0..Len(s)
    BY DEF SliceEnd
<1>2. \A i \in 1..SliceEnd(Len(s), k) : s[i] \in S
    BY <1>1
<1>. QED
    BY <1>1, <1>2, SubSeqProperties DEF Slice

(***************************************************************************)
(* unshift: the element comes first, the list follows it.                  *)
(***************************************************************************)
LEMMA ConsProperties ==
    ASSUME NEW S, NEW s \in Seq(S), NEW e \in S
    PROVE  /\ Cons(e, s) \in Seq(S)
           /\ Len(Cons(e, s)) = Len(s) + 1
           /\ Cons(e, s)[1] = e
           /\ \A i \in 2..Len(s) + 1 : Cons(e, s)[i] = s[i - 1]
BY ConcatProperties DEF Cons

-----------------------------------------------------------------------------
(***************************************************************************)
(* Every step keeps every variable in its type.                            *)
(***************************************************************************)
LEMMA TypeStep == TypeOK /\ [Next]_vars => TypeOK'
<1> SUFFICES ASSUME TypeOK, [Next]_vars PROVE TypeOK'
    OBVIOUS
<1>. USE DEF TypeOK, Status, Terminal
<1>1. ASSUME NEW b \in Benchmarks, RunBenchmark(b) PROVE TypeOK'
    BY <1>1 DEF RunBenchmark, Pcs
<1>2. ASSUME NEW b \in Benchmarks, ProgressTick(b) PROVE TypeOK'
    <2>1. step' \in [Benchmarks -> 0..TotalSteps]
        BY <1>2, TotalStepsAssumption DEF ProgressTick
    <2>2. pendingQuery' \in Seq(Benchmarks)
        BY <1>2, AppendProperties DEF ProgressTick
    <2>. QED
        BY <1>2, <2>1, <2>2 DEF ProgressTick
<1>3. ASSUME NEW b \in Benchmarks, FinishSimulation(b) PROVE TypeOK'
    <2>1. step' \in [Benchmarks -> 0..TotalSteps]
        BY <1>3, TotalStepsAssumption DEF FinishSimulation
    <2>2. pendingQuery' \in Seq(Benchmarks)
        BY <1>3, AppendProperties DEF FinishSimulation
    <2>3. /\ status' \in [Benchmarks -> Status]
          /\ pc' \in [Benchmarks -> Pcs]
        BY <1>3 DEF FinishSimulation, Pcs
    <2>. QED
        BY <1>3, <2>1, <2>2, <2>3 DEF FinishSimulation
<1>4. ASSUME NEW b \in Benchmarks, SaveLoad(b) PROVE TypeOK'
    <2>1. snap' \in [Benchmarks -> Seq(Benchmarks)]
        BY <1>4, ConsProperties DEF SaveLoad
    <2>2. /\ loadedAt' \in [Benchmarks -> Nat]
          /\ clock' \in Nat
          /\ pc' \in [Benchmarks -> Pcs]
        BY <1>4 DEF SaveLoad, Pcs
    <2>. QED
        BY <1>4, <2>1, <2>2 DEF SaveLoad
<1>5. ASSUME NEW b \in Benchmarks, SaveReadSettings(b) PROVE TypeOK'
    <2>1. EffectiveMax(maxSetting) \in Int
        BY DefaultMaxStoredAssumption DEF EffectiveMax
    <2>. QED
        BY <1>5, <2>1 DEF SaveReadSettings, Pcs
<1>6. ASSUME NEW b \in Benchmarks, SaveWrite(b) PROVE TypeOK'
    <2>1. Slice(snap[b], maxRead[b]) \in Seq(Benchmarks)
        BY SliceIsPrefix
    <2>. QED
        BY <1>6, <2>1, AppendProperties DEF SaveWrite, Pcs
<1>7. ASSUME NEW b \in Benchmarks, SaveFailsAndRetries(b) PROVE TypeOK'
    <2>1. /\ handler' \in [Benchmarks -> Handlers]
          /\ status' \in [Benchmarks -> Status]
          /\ pc' \in [Benchmarks -> Pcs]
        BY <1>7 DEF SaveFailsAndRetries, Pcs, Handlers
    <2>2. failures' \in 0..MaxStorageFailures
        BY <1>7, MaxStorageFailuresAssumption DEF SaveFailsAndRetries
    <2>. QED
        BY <1>7, <2>1, <2>2 DEF SaveFailsAndRetries
<1>8. ASSUME NEW b \in Benchmarks, SaveFailsInRunCatch(b) PROVE TypeOK'
    <2>1. /\ pc' \in [Benchmarks -> Pcs]
          /\ failures' \in 0..MaxStorageFailures
        BY <1>8, MaxStorageFailuresAssumption DEF SaveFailsInRunCatch, Pcs
    <2>. QED
        BY <1>8, <2>1 DEF SaveFailsInRunCatch
<1>9. CASE BroadcastToTabs
    <2> DEFINE h == Head(pendingQuery)
    <2>1. h \in Benchmarks /\ Tail(pendingQuery) \in Seq(Benchmarks)
        BY <1>9, HeadTailProperties DEF BroadcastToTabs
    <2>2. lastSent' = [lastSent EXCEPT ![h] = status[h]]
        BY <1>9 DEF BroadcastToTabs
    <2>3. termMsgs' = [termMsgs EXCEPT ![h] =
                         IF status[h] \in Terminal THEN termMsgs[h] + 1
                         ELSE termMsgs[h]]
        BY <1>9 DEF BroadcastToTabs
    <2>4. lastSent' \in [Benchmarks -> Status]
        BY <2>1, <2>2
    <2>5. termMsgs' \in [Benchmarks -> Nat]
        <3>1. termMsgs[h] \in Nat
            BY <2>1
        <3>2. (IF status[h] \in Terminal THEN termMsgs[h] + 1
               ELSE termMsgs[h]) \in Nat
            BY <3>1
        <3>. QED
            BY <2>3, <3>2
    <2>. QED
        BY <1>9, <2>1, <2>4, <2>5 DEF BroadcastToTabs
<1>10. CASE ClearResults
    BY <1>10, EmptySeq DEF ClearResults
<1>11. ASSUME NEW v \in MaxStoredChoices, SaveSettings(v) PROVE TypeOK'
    BY <1>11, MaxStoredChoicesAssumption DEF SaveSettings
<1>12. CASE UNCHANGED vars
    BY <1>12 DEF vars
<1>13. CASE ResetSettings
    BY <1>13, DefaultMaxStoredAssumption DEF ResetSettings, SaveSettings
<1>14. CASE ClearSyncStorage
    BY <1>14, DefaultMaxStoredAssumption DEF ClearSyncStorage
<1>. QED
    BY <1>1, <1>2, <1>3, <1>4, <1>5, <1>6, <1>7, <1>8, <1>9, <1>10,
       <1>11, <1>12, <1>13, <1>14 DEF Next, Proceed

(***************************************************************************)
(* The initial state is well typed.                                       *)
(***************************************************************************)
LEMMA TypeInit == Init => TypeOK
<1> SUFFICES ASSUME Init PROVE TypeOK
    OBVIOUS
<1>1. /\ pc \in [Benchmarks -> Pcs]
      /\ handler \in [Benchmarks -> Handlers]
      /\ status \in [Benchmarks -> Status]
      /\ lastSent \in [Benchmarks -> Status]
    BY DEF Init, Pcs, Handlers, Status, Terminal
<1>2. /\ step \in [Benchmarks -> 0..TotalSteps]
      /\ maxRead \in [Benchmarks -> Int]
      /\ loadedAt \in [Benchmarks -> Nat]
      /\ termMsgs \in [Benchmarks -> Nat]
      /\ clock \in Nat
      /\ maxSetting \in Int
      /\ failures \in 0..MaxStorageFailures
    BY TotalStepsAssumption, DefaultMaxStoredAssumption,
       MaxStorageFailuresAssumption DEF Init
<1>3. /\ snap \in [Benchmarks -> Seq(Benchmarks)]
      /\ stored \in Seq(Benchmarks)
      /\ pendingQuery \in Seq(Benchmarks)
      /\ running \subseteq Benchmarks
    BY EmptySeq DEF Init
<1>. QED
    BY <1>1, <1>2, <1>3 DEF TypeOK

(***************************************************************************)
(* The type invariant holds in every state of every behaviour.            *)
(***************************************************************************)
THEOREM TypeCorrect == Spec => []TypeOK
<1>1. Init => TypeOK
    BY TypeInit
<1>2. TypeOK /\ [Next]_vars => TypeOK'
    BY TypeStep
<1>. QED
    BY <1>1, <1>2, PTL DEF Spec
-----------------------------------------------------------------------------
(***************************************************************************)
(* Trimming with results.slice(0, maxResults) keeps a newest-first list    *)
(* newest first.                                                           *)
(***************************************************************************)
LEMMA SliceKeepsOrder ==
    ASSUME NEW s \in Seq(Benchmarks), NEW k \in Int, NewestFirst(s)
    PROVE  NewestFirst(Slice(s, k))
<1> DEFINE t == Slice(s, k)
<1>1. /\ Len(t) \in 0..Len(s)
      /\ \A i \in 1..Len(t) : t[i] = s[i]
    BY SliceIsPrefix
<1>. QED
    BY <1>1 DEF NewestFirst

(***************************************************************************)
(* A step that moves one handler between two states other than "done", and *)
(* enters a save's settings/write stage only from that stage, touches      *)
(* nothing the order of the history rests on.                              *)
(***************************************************************************)
LEMMA OrderUnderPcStep ==
    ASSUME HistoryInductive, TypeOK',
           NEW b \in Benchmarks, NEW p \in Pcs,
           pc[b] # "done", p # "done",
           p \in {"settings", "write"} => SaveInFlight(b),
           pc' = [pc EXCEPT ![b] = p],
           UNCHANGED <<stored, snap, loadedAt, clock>>
    PROVE  HistoryInductive'
<1>1. \A c \in Benchmarks : pc[c] = "done" => pc'[c] = "done"
    BY DEF TypeOK
<1>2. LoadedBeforeNow'
    BY DEF HistoryInductive, LoadedBeforeNow
<1>3. StoredDone'
    <2>1. stored \in Seq(Benchmarks) /\ stored' = stored
        BY DEF HistoryInductive, TypeOK
    <2>2. \A i \in 1..Len(stored) : pc[stored[i]] = "done"
        BY DEF HistoryInductive, StoredDone
    <2>. QED
        BY <1>1, <2>1, <2>2 DEF StoredDone
<1>4. ASSUME NEW c \in Benchmarks, SaveInFlight(c)' PROVE SnapshotSound(c)'
    <2>1. SaveInFlight(c)
        BY <1>4 DEF SaveInFlight
    <2>2. SnapshotSound(c) /\ snap[c] \in Seq(Benchmarks)
        BY <2>1 DEF HistoryInductive, TypeOK
    <2>. QED
        BY <1>1, <2>2 DEF SnapshotSound, NewestFirst
<1>5. StoredNewestFirst'
    BY DEF HistoryInductive, StoredNewestFirst, NewestFirst
<1>. QED
    BY <1>2, <1>3, <1>4, <1>5 DEF HistoryInductive
(***************************************************************************)
(* loadBenchmarkResults then unshift: the new list starts with the loading *)
(* result, which now has the latest load time, and the results behind it   *)
(* are finished saves whose load times do not change.                      *)
(***************************************************************************)
LEMMA OrderUnderSaveLoad ==
    ASSUME HistoryInductive, TypeOK', NEW b \in Benchmarks, SaveLoad(b)
    PROVE  HistoryInductive'
<1>1. /\ stored \in Seq(Benchmarks)
      /\ pc \in [Benchmarks -> Pcs]
      /\ loadedAt \in [Benchmarks -> Nat]
      /\ snap \in [Benchmarks -> Seq(Benchmarks)]
      /\ clock \in Nat
    BY DEF HistoryInductive, TypeOK
<1>2. /\ pc' = [pc EXCEPT ![b] = "settings"]
      /\ snap' = [snap EXCEPT ![b] = Cons(b, stored)]
      /\ loadedAt' = [loadedAt EXCEPT ![b] = clock]
      /\ clock' = clock + 1
      /\ stored' = stored
      /\ pc[b] = "load"
    BY DEF SaveLoad
<1>3. \A c \in Benchmarks : pc[c] = "done" => /\ c # b
                                             /\ pc'[c] = "done"
                                             /\ loadedAt'[c] = loadedAt[c]
    BY <1>1, <1>2
<1>4. LoadedBeforeNow'
    BY <1>1, <1>2 DEF HistoryInductive, LoadedBeforeNow
<1>5. StoredDone'
    BY <1>1, <1>2, <1>3 DEF HistoryInductive, StoredDone
<1>6. StoredNewestFirst'
    <2>1. \A i \in 1..Len(stored) : loadedAt'[stored[i]] = loadedAt[stored[i]]
        BY <1>1, <1>3 DEF HistoryInductive, StoredDone
    <2>. QED
        BY <1>2, <2>1 DEF HistoryInductive, StoredNewestFirst, NewestFirst
<1>7. SnapshotSound(b)'
    <2> DEFINE t == Cons(b, stored)
    <2>1. /\ t \in Seq(Benchmarks)
          /\ Len(t) = Len(stored) + 1
          /\ t[1] = b
          /\ \A i \in 2..Len(stored) + 1 : t[i] = stored[i - 1]
        <3>1. stored \in Seq(Benchmarks) /\ b \in Benchmarks
            BY <1>1
        <3>. QED
            BY <3>1, ConsProperties DEF Cons
    <2>2. snap'[b] = t
        BY <1>1, <1>2
    <2>3. \A i \in 1..Len(stored) : /\ pc'[stored[i]] = "done"
                                    /\ loadedAt'[stored[i]] = loadedAt[stored[i]]
                                    /\ loadedAt[stored[i]] < clock
        BY <1>1, <1>3 DEF HistoryInductive, StoredDone, LoadedBeforeNow
    <2>4. loadedAt'[b] = clock
        BY <1>1, <1>2
    <2>5. \A i \in 2..Len(t) : pc'[t[i]] = "done"
        BY <2>1, <2>3
    <2>6. \A i, j \in 1..Len(t) : i < j => loadedAt'[t[i]] > loadedAt'[t[j]]
        <3> SUFFICES ASSUME NEW i \in 1..Len(t), NEW j \in 1..Len(t), i < j
                     PROVE  loadedAt'[t[i]] > loadedAt'[t[j]]
            OBVIOUS
        <3>1. j - 1 \in 1..Len(stored) /\ t[j] = stored[j - 1]
            BY <2>1
        <3>2. loadedAt'[t[j]] = loadedAt[stored[j - 1]]
              /\ loadedAt[stored[j - 1]] < clock
            BY <3>1, <2>3
        <3>3. CASE i = 1
            BY <2>1, <2>4, <3>2, <3>3, <1>1
        <3>4. CASE i # 1
            <4>1. i - 1 \in 1..Len(stored) /\ t[i] = stored[i - 1]
                BY <2>1, <3>4
            <4>2. loadedAt[stored[i - 1]] > loadedAt[stored[j - 1]]
                BY <4>1, <3>1 DEF HistoryInductive, StoredNewestFirst, NewestFirst
            <4>3. loadedAt'[t[i]] = loadedAt[stored[i - 1]]
                BY <4>1, <2>3
            <4>. QED
                BY <3>2, <4>2, <4>3
        <3>. QED
            BY <3>3, <3>4
    <2>7. Len(snap'[b]) >= 1 /\ snap'[b][1] = b
        <3>1. Len(stored) \in Nat
            BY <1>1 DEF HistoryInductive, TypeOK
        <3>. QED
            BY <2>1, <2>2, <3>1
    <2>8. (\A i \in 2..Len(snap[b]) : pc[snap[b][i]] = "done")'
        BY <2>2, <2>5
    <2>9. NewestFirst(snap[b])'
        BY <2>2, <2>6 DEF NewestFirst
    <2>. QED
        BY <2>7, <2>8, <2>9 DEF SnapshotSound
<1>8. ASSUME NEW c \in Benchmarks, SaveInFlight(c)', c # b
      PROVE  SnapshotSound(c)'
    <2>1. SnapshotSound(c) /\ snap[c] \in Seq(Benchmarks)
        BY <1>1, <1>2, <1>8 DEF HistoryInductive, SaveInFlight
    <2>2. /\ snap'[c] = snap[c] /\ pc'[c] = pc[c]
          /\ loadedAt'[c] = loadedAt[c]
        BY <1>1, <1>2, <1>8
    <2>3. \A i \in 1..Len(snap[c]) : loadedAt'[snap[c][i]] = loadedAt[snap[c][i]]
        <3> SUFFICES ASSUME NEW i \in 1..Len(snap[c])
                     PROVE  loadedAt'[snap[c][i]] = loadedAt[snap[c][i]]
            OBVIOUS
        <3>1. CASE i = 1
            BY <2>1, <2>2, <3>1 DEF SnapshotSound
        <3>2. CASE i # 1
            BY <1>3, <2>1, <3>2 DEF SnapshotSound
        <3>. QED
            BY <3>1, <3>2
    <2>4. \A i \in 2..Len(snap[c]) : pc'[snap[c][i]] = "done"
        BY <1>3, <2>1 DEF SnapshotSound
    <2>. QED
        BY <2>1, <2>2, <2>3, <2>4 DEF SnapshotSound, NewestFirst
<1>. QED
    BY <1>4, <1>5, <1>6, <1>7, <1>8 DEF HistoryInductive
(***************************************************************************)
(* The trimmed write: the history becomes a prefix of the list this save   *)
(* loaded, which was ordered and held only finished saves and itself.      *)
(***************************************************************************)
LEMMA OrderUnderSaveWrite ==
    ASSUME HistoryInductive, TypeOK', NEW b \in Benchmarks, SaveWrite(b)
    PROVE  HistoryInductive'
<1>1. /\ pc \in [Benchmarks -> Pcs]
      /\ snap \in [Benchmarks -> Seq(Benchmarks)]
      /\ maxRead \in [Benchmarks -> Int]
    BY DEF HistoryInductive, TypeOK
<1>2. /\ pc' = [pc EXCEPT ![b] = "done"]
      /\ stored' = Slice(snap[b], maxRead[b])
      /\ UNCHANGED <<snap, loadedAt, clock>>
      /\ pc[b] = "write"
    BY DEF SaveWrite
<1>3. SnapshotSound(b)
    BY <1>2 DEF HistoryInductive, SaveInFlight
<1>4. \A c \in Benchmarks : pc[c] = "done" => pc'[c] = "done"
    BY <1>1, <1>2
<1>5. \A i \in 1..Len(snap[b]) : pc'[snap[b][i]] = "done"
    <2> SUFFICES ASSUME NEW i \in 1..Len(snap[b])
                 PROVE  pc'[snap[b][i]] = "done"
        OBVIOUS
    <2>1. CASE i = 1
        BY <1>1, <1>2, <1>3, <2>1 DEF SnapshotSound
    <2>2. CASE i # 1
        <3>1. i \in 2..Len(snap[b])
            BY <2>2
        <3>2. pc[snap[b][i]] = "done" /\ snap[b][i] \in Benchmarks
            BY <1>1, <1>3, <3>1 DEF SnapshotSound
        <3>. QED
            BY <1>4, <3>2
    <2>. QED
        BY <2>1, <2>2
<1>6. /\ Len(stored') \in 0..Len(snap[b])
      /\ \A i \in 1..Len(stored') : stored'[i] = snap[b][i]
    <2>1. snap[b] \in Seq(Benchmarks) /\ maxRead[b] \in Int
        BY <1>1
    <2>2. /\ Len(Slice(snap[b], maxRead[b])) \in 0..Len(snap[b])
          /\ \A i \in 1..Len(Slice(snap[b], maxRead[b])) :
                Slice(snap[b], maxRead[b])[i] = snap[b][i]
        BY <2>1, SliceIsPrefix
    <2>. QED
        BY <1>2, <2>2
<1>7. LoadedBeforeNow'
    BY <1>2 DEF HistoryInductive, LoadedBeforeNow
<1>8. StoredDone'
    BY <1>5, <1>6 DEF StoredDone
<1>9. StoredNewestFirst'
    <2>1. NewestFirst(Slice(snap[b], maxRead[b]))
        BY <1>1, <1>3, SliceKeepsOrder DEF SnapshotSound
    <2>. QED
        BY <1>2, <2>1 DEF StoredNewestFirst, NewestFirst
<1>10. ASSUME NEW c \in Benchmarks, SaveInFlight(c)' PROVE SnapshotSound(c)'
    <2>1. c # b /\ pc'[c] = pc[c]
        BY <1>1, <1>2, <1>10 DEF SaveInFlight
    <2>2. SnapshotSound(c) /\ snap[c] \in Seq(Benchmarks)
        BY <1>1, <1>10, <2>1 DEF HistoryInductive, SaveInFlight
    <2>. QED
        BY <1>2, <1>4, <2>1, <2>2 DEF SnapshotSound, NewestFirst
<1>. QED
    BY <1>7, <1>8, <1>9, <1>10 DEF HistoryInductive

(***************************************************************************)
(* Every step keeps the strengthened invariant.                            *)
(***************************************************************************)
LEMMA HistoryStep == HistoryInductive /\ [Next]_vars => HistoryInductive'
<1> SUFFICES ASSUME HistoryInductive, [Next]_vars PROVE HistoryInductive'
    OBVIOUS
<1>0. TypeOK'
    BY TypeStep DEF HistoryInductive
<1>1. TypeOK
    BY DEF HistoryInductive
<1>2. ASSUME NEW b \in Benchmarks, RunBenchmark(b) PROVE HistoryInductive'
    <2>1. CASE pc' = [pc EXCEPT ![b] = "rejected"]
        BY <1>0, <1>2, <2>1, OrderUnderPcStep DEF RunBenchmark, Pcs
    <2>2. CASE pc' = [pc EXCEPT ![b] = "sim"]
        BY <1>0, <1>2, <2>2, OrderUnderPcStep DEF RunBenchmark, Pcs
    <2>. QED
        BY <1>2, <2>1, <2>2 DEF RunBenchmark
<1>3. ASSUME NEW b \in Benchmarks, FinishSimulation(b) PROVE HistoryInductive'
    BY <1>0, <1>3, OrderUnderPcStep DEF FinishSimulation, Pcs
<1>4. ASSUME NEW b \in Benchmarks, SaveReadSettings(b) PROVE HistoryInductive'
    BY <1>0, <1>4, OrderUnderPcStep DEF SaveReadSettings, Pcs, SaveInFlight
<1>5. ASSUME NEW b \in Benchmarks, SaveFailsAndRetries(b) PROVE HistoryInductive'
    BY <1>0, <1>5, OrderUnderPcStep DEF SaveFailsAndRetries, Pcs
<1>6. ASSUME NEW b \in Benchmarks, SaveFailsInRunCatch(b) PROVE HistoryInductive'
    BY <1>0, <1>6, OrderUnderPcStep DEF SaveFailsInRunCatch, Pcs
<1>7. ASSUME NEW b \in Benchmarks, SaveLoad(b) PROVE HistoryInductive'
    BY <1>0, <1>7, OrderUnderSaveLoad
<1>8. ASSUME NEW b \in Benchmarks, SaveWrite(b) PROVE HistoryInductive'
    BY <1>0, <1>8, OrderUnderSaveWrite
<1>9. CASE UNCHANGED <<pc, stored, snap, loadedAt, clock>>
    BY <1>0, <1>9 DEF HistoryInductive, LoadedBeforeNow, StoredDone,
                      SnapshotSound, SaveInFlight, StoredNewestFirst, NewestFirst
<1>10. CASE ClearResults
    BY <1>0, <1>10, EmptySeq DEF ClearResults, HistoryInductive, LoadedBeforeNow,
       StoredDone, SnapshotSound, SaveInFlight, StoredNewestFirst, NewestFirst
<1>11. ASSUME NEW b \in Benchmarks, ProgressTick(b) PROVE HistoryInductive'
    BY <1>9, <1>11 DEF ProgressTick
<1>. QED
    BY <1>2, <1>3, <1>4, <1>5, <1>6, <1>7, <1>8, <1>9, <1>10, <1>11
       DEF Next, Proceed, BroadcastToTabs, SaveSettings, ResetSettings,
           ClearSyncStorage, vars

\* The initial state, with an empty history and no save begun, satisfies it.
LEMMA HistoryInit == Init => HistoryInductive
<1> SUFFICES ASSUME Init PROVE HistoryInductive
    OBVIOUS
<1>1. TypeOK
    BY TypeInit
<1>. QED
    BY <1>1, EmptySeq DEF Init, HistoryInductive, LoadedBeforeNow, StoredDone,
       SnapshotSound, SaveInFlight, StoredNewestFirst, NewestFirst

(***************************************************************************)
(* The strengthening holds in every reachable state: every stored result   *)
(* and every result in a list a save has loaded but not written belongs to *)
(* a finished save, and every such list is ordered and starts with its own *)
(* result (the state saveBenchmarkResult keeps across its two awaits).     *)
(***************************************************************************)
THEOREM HistoryInvariant == Spec => []HistoryInductive
BY HistoryInit, HistoryStep, PTL DEF Spec

(***************************************************************************)
(* saveBenchmarkResult's "adds to beginning" holds in every reachable      *)
(* state: the stored history is ordered by load time, newest first, for    *)
(* any number of concurrent benchmarks, trims and clears.                  *)
(***************************************************************************)
THEOREM StoreOrdered == Spec => []StoredNewestFirst
<1>1. HistoryInductive => StoredNewestFirst
    BY DEF HistoryInductive
<1>. QED
    BY <1>1, HistoryInvariant, PTL

-----------------------------------------------------------------------------
(***************************************************************************)
(* A step of the handler of benchmark b that moves it from one pc to the   *)
(* next keeps the bookkeeping of every other benchmark as it was, so each  *)
(* action only has to be checked for b itself.                             *)
(***************************************************************************)
BookkeepingOf(b) ==
    /\ b \in running <=> pc[b] \in Unfinished
    /\ status[b] = "running" <=> pc[b] = "sim"
    /\ pc[b] \in (Unfinished \ {"sim"}) \cup {"done"} => status[b] \in Terminal
    /\ pc[b] \in {"idle", "rejected"} => status[b] = "none"

LEMMA BookkeepingOthers ==
    ASSUME TypeOK, RunningBookkeeping, NEW b \in Benchmarks,
           pc' = [pc EXCEPT ![b] = pc'[b]],
           status' \in {status, [status EXCEPT ![b] = status'[b]]},
           running' \in {running, running \cup {b}, running \ {b}},
           BookkeepingOf(b)'
    PROVE  RunningBookkeeping'
<1> SUFFICES ASSUME NEW c \in Benchmarks PROVE BookkeepingOf(c)'
    BY DEF RunningBookkeeping, BookkeepingOf
<1>1. CASE c = b
    BY <1>1
<1>2. CASE c # b
    <2>1. pc'[c] = pc[c] /\ status'[c] = status[c]
        BY <1>2 DEF TypeOK
    <2>2. (c \in running') = (c \in running)
        BY <1>2
    <2>. QED
        BY <2>1, <2>2 DEF RunningBookkeeping, BookkeepingOf
<1>. QED
    BY <1>1, <1>2

(***************************************************************************)
(* Every step keeps runningBenchmarks and result.status in line with the   *)
(* handlers' progress.                                                     *)
(***************************************************************************)
LEMMA BookkeepingStep ==
    TypeOK /\ RunningBookkeeping /\ [Next]_vars => RunningBookkeeping'
<1> SUFFICES ASSUME TypeOK, RunningBookkeeping, [Next]_vars
             PROVE  RunningBookkeeping'
    OBVIOUS
<1>. USE DEF TypeOK, Terminal, Unfinished, Pcs
<1>1. ASSUME NEW b \in Benchmarks, RunBenchmark(b) PROVE RunningBookkeeping'
    <2>1. pc[b] = "idle" /\ b \notin running /\ status[b] = "none"
        BY <1>1 DEF RunBenchmark, RunningBookkeeping
    <2>2. CASE pc' = [pc EXCEPT ![b] = "rejected"]
        BY <1>1, <2>1, <2>2, BookkeepingOthers DEF RunBenchmark, BookkeepingOf
    <2>3. CASE pc' = [pc EXCEPT ![b] = "sim"]
        BY <1>1, <2>1, <2>3, BookkeepingOthers DEF RunBenchmark, BookkeepingOf
    <2>. QED
        BY <1>1, <2>2, <2>3 DEF RunBenchmark
<1>2. ASSUME NEW b \in Benchmarks, FinishSimulation(b) PROVE RunningBookkeeping'
    <2>1. b \in running
        BY <1>2 DEF FinishSimulation, RunningBookkeeping
    <2>. QED
        BY <1>2, <2>1, BookkeepingOthers DEF FinishSimulation, BookkeepingOf
<1>3. ASSUME NEW b \in Benchmarks, SaveLoad(b) PROVE RunningBookkeeping'
    <2>1. b \in running /\ status[b] \in Terminal
        BY <1>3 DEF SaveLoad, RunningBookkeeping
    <2>. QED
        BY <1>3, <2>1, BookkeepingOthers DEF SaveLoad, BookkeepingOf
<1>4. ASSUME NEW b \in Benchmarks, SaveReadSettings(b) PROVE RunningBookkeeping'
    <2>1. b \in running /\ status[b] \in Terminal
        BY <1>4 DEF SaveReadSettings, RunningBookkeeping
    <2>. QED
        BY <1>4, <2>1, BookkeepingOthers DEF SaveReadSettings, BookkeepingOf
<1>5. ASSUME NEW b \in Benchmarks, SaveWrite(b) PROVE RunningBookkeeping'
    <2>1. status[b] \in Terminal
        BY <1>5 DEF SaveWrite, RunningBookkeeping
    <2>. QED
        BY <1>5, <2>1, BookkeepingOthers DEF SaveWrite, BookkeepingOf
<1>6. ASSUME NEW b \in Benchmarks, SaveFailsAndRetries(b) PROVE RunningBookkeeping'
    <2>1. b \in running
        BY <1>6 DEF SaveFailsAndRetries, RunningBookkeeping
    <2>. QED
        BY <1>6, <2>1, BookkeepingOthers DEF SaveFailsAndRetries, BookkeepingOf
<1>7. ASSUME NEW b \in Benchmarks, SaveFailsInRunCatch(b) PROVE RunningBookkeeping'
    <2>1. b \in running /\ status[b] \in Terminal
        BY <1>7 DEF SaveFailsInRunCatch, RunningBookkeeping
    <2>. QED
        BY <1>7, <2>1, BookkeepingOthers DEF SaveFailsInRunCatch, BookkeepingOf
<1>8. CASE UNCHANGED <<pc, status, running>>
    BY <1>8 DEF RunningBookkeeping
<1>9. ASSUME NEW b \in Benchmarks, ProgressTick(b) PROVE RunningBookkeeping'
    BY <1>8, <1>9 DEF ProgressTick
<1>. QED
    BY <1>1, <1>2, <1>3, <1>4, <1>5, <1>6, <1>7, <1>8, <1>9
       DEF Next, Proceed, BroadcastToTabs, ClearResults, SaveSettings,
           ResetSettings, ClearSyncStorage, vars

(***************************************************************************)
(* In every reachable state a benchmark is in runningBenchmarks exactly    *)
(* while its handler has not written its final save, or is stuck after a   *)
(* set rejected in runBenchmark's catch block (the entry then leaks), and  *)
(* result.status is "running" exactly during the simulation and final     *)
(* after it, whatever the interleaving of benchmarks and failed saves.     *)
(***************************************************************************)
THEOREM BookkeepingInvariant == Spec => []RunningBookkeeping
<1>1. Init => RunningBookkeeping
    BY DEF Init, RunningBookkeeping, Unfinished
<1>2. TypeOK /\ RunningBookkeeping /\ [Next]_vars => RunningBookkeeping'
    BY BookkeepingStep
<1>. QED
    BY <1>1, <1>2, TypeCorrect, PTL DEF Spec

=============================================================================

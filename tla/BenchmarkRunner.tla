--------------------------- MODULE BenchmarkRunner ---------------------------
(***************************************************************************)
(* The background service worker's benchmark runner (class BenchmarkRunner *)
(* in src/background/service-worker.ts) together with the part of          *)
(* StorageManager (src/shared/storage.ts) that keeps the result history    *)
(* in chrome.storage.local and reads maxStoredResults from the settings in *)
(* chrome.storage.sync.                                                    *)
(*                                                                         *)
(* Every benchmark started by a RUN_BENCHMARK message runs its own async   *)
(* handler.  The handler yields at each await (a progress timer, a storage *)
(* get, a storage set), so the handlers of different benchmarks, the       *)
(* options page and the popup interleave at exactly those points.  A       *)
(* broadcast does not send at once: chrome.tabs.query calls back later and *)
(* the message carries the result object as it is when the callback runs.  *)
(* Config contents, output text and statistics are abstracted away: a      *)
(* result is its id, its status and its place in the history.              *)
(***************************************************************************)
EXTENDS Integers, Sequences, SequencesExt

CONSTANTS
    Benchmarks,         \* the ids generateId() hands out, one per run
    TotalSteps,         \* totalSteps of simulateBenchmarkExecution (10)
    DefaultMaxStored,   \* the fallback in settings.maxStoredResults || 50
    MaxStoredChoices,   \* values the options page may store as maxStoredResults
    MaxStorageFailures  \* how many chrome.storage set calls may reject in a run

ASSUME TotalStepsAssumption == TotalSteps \in Nat \ {0}
ASSUME DefaultMaxStoredAssumption == DefaultMaxStored \in Nat \ {0}
ASSUME MaxStoredChoicesAssumption == MaxStoredChoices \subseteq Int
ASSUME MaxStorageFailuresAssumption == MaxStorageFailures \in Nat

VARIABLES
    pc,           \* pc[b]: where the handler of benchmark b is suspended
    handler,      \* handler[b]: which try/catch block runs b's save
    step,         \* step[b]: the loop counter of simulateBenchmarkExecution
    status,       \* status[b]: result.status of b's in-memory result
    snap,         \* snap[b]: the list b's save loaded, with b unshifted
    maxRead,      \* maxRead[b]: the maxResults b's save computed
    loadedAt,     \* loadedAt[b]: logical time b's last save loaded the list
    clock,        \* the logical clock loadedAt is read from
    running,      \* the keys of this.runningBenchmarks
    stored,       \* chrome.storage.local benchmarkResults (ids, newest first)
    maxSetting,   \* extensionSettings.maxStoredResults in chrome.storage.sync
    failures,     \* number of storage set calls that rejected so far
    pendingQuery, \* chrome.tabs.query callbacks not yet run, in call order
    lastSent,     \* lastSent[b]: the status the last message about b carried
    termMsgs      \* termMsgs[b]: messages sent about b with a final status

vars == <<pc, handler, step, status, snap, maxRead, loadedAt, clock, running,
          stored, maxSetting, failures, pendingQuery, lastSent, termMsgs>>

Terminal == {"completed", "failed"}
Status == {"none", "running"} \cup Terminal
Pcs == {"idle", "rejected", "sim", "load", "settings", "write", "done", "stuck"}
Handlers == {"simulate", "simulateCatch", "runCatch"}

(***************************************************************************)
(* loadSettings overlays the stored settings on defaults that hold         *)
(* maxStoredResults 50, and the save takes maxStoredResults || 50: a       *)
(* stored 0 (or NaN, which JSON keeps as null) falls back to the default.  *)
(***************************************************************************)
EffectiveMax(v) == IF v = 0 THEN DefaultMaxStored ELSE v

(***************************************************************************)
(* results.slice(0, k): a negative end counts back from the end of the     *)
(* list, an end past the length is clamped to it.                          *)
(***************************************************************************)
SliceEnd(n, k) == IF k < 0 THEN (IF n + k > 0 THEN n + k ELSE 0)
                  ELSE (IF k < n THEN k ELSE n)
Slice(s, k) == SubSeq(s, 1, SliceEnd(Len(s), k))

TypeOK ==
    /\ pc \in [Benchmarks -> Pcs]
    /\ handler \in [Benchmarks -> Handlers]
    /\ step \in [Benchmarks -> 0..TotalSteps]
    /\ status \in [Benchmarks -> Status]
    /\ snap \in [Benchmarks -> Seq(Benchmarks)]
    /\ maxRead \in [Benchmarks -> Int]
    /\ loadedAt \in [Benchmarks -> Nat]
    /\ clock \in Nat
    /\ running \subseteq Benchmarks
    /\ stored \in Seq(Benchmarks)
    /\ maxSetting \in Int
    /\ failures \in 0..MaxStorageFailures
    /\ pendingQuery \in Seq(Benchmarks)
    /\ lastSent \in [Benchmarks -> Status]
    /\ termMsgs \in [Benchmarks -> Nat]

Init ==
    /\ pc = [b \in Benchmarks |-> "idle"]
    /\ handler = [b \in Benchmarks |-> "simulate"]
    /\ step = [b \in Benchmarks |-> 0]
    /\ status = [b \in Benchmarks |-> "none"]
    /\ snap = [b \in Benchmarks |-> <<>>]
    /\ maxRead = [b \in Benchmarks |-> 0]
    /\ loadedAt = [b \in Benchmarks |-> 0]
    /\ clock = 1
    /\ running = {}
    /\ stored = <<>>
    /\ maxSetting = DefaultMaxStored
    /\ failures = 0
    /\ pendingQuery = <<>>
    /\ lastSent = [b \in Benchmarks |-> "none"]
    /\ termMsgs = [b \in Benchmarks |-> 0]

-----------------------------------------------------------------------------
\* Mutant: a result id that is handed out again restarts a finished run.
RunBenchmarkReusedId(b) ==
    /\ pc[b] \in {"idle", "done"}
    /\ \/ /\ pc' = [pc EXCEPT ![b] = "rejected"]
          /\ UNCHANGED <<status, running>>
       \/ /\ pc' = [pc EXCEPT ![b] = "sim"]
          /\ status' = [status EXCEPT ![b] = "running"]
          /\ running' = running \cup {b}
    /\ UNCHANGED <<handler, step, snap, maxRead, loadedAt, clock, stored,
                   maxSetting, failures, pendingQuery, lastSent, termMsgs>>

(***************************************************************************)
(* RUN_BENCHMARK reaches runBenchmark.  A config that validateConfig       *)
(* rejects is answered with an error.  Otherwise the result is registered  *)
(* as running, the caller is answered, and simulateBenchmarkExecution runs *)
(* synchronously up to its first await, the one-second progress timer.     *)
(***************************************************************************)
RunBenchmark(b) ==
    /\ pc[b] = "idle"
    /\ \/ /\ pc' = [pc EXCEPT ![b] = "rejected"]
          /\ UNCHANGED <<status, running>>
       \/ /\ pc' = [pc EXCEPT ![b] = "sim"]
          /\ status' = [status EXCEPT ![b] = "running"]
          /\ running' = running \cup {b}
    /\ UNCHANGED <<handler, step, snap, maxRead, loadedAt, clock, stored,
                   maxSetting, failures, pendingQuery, lastSent, termMsgs>>

\* Mutant: the loop bound written as step <= totalSteps.
ProgressTickPastEnd(b) ==
    /\ pc[b] = "sim"
    /\ step[b] <= TotalSteps
    /\ step' = [step EXCEPT ![b] = @ + 1]
    /\ pendingQuery' = Append(pendingQuery, b)
    /\ UNCHANGED <<pc, handler, status, snap, maxRead, loadedAt, clock,
                   running, stored, maxSetting, failures, lastSent, termMsgs>>

(***************************************************************************)
(* The progress timer fires before the last step: the output grows, an     *)
(* update is broadcast and the loop awaits the next timer.                 *)
(***************************************************************************)
ProgressTick(b) ==
    /\ pc[b] = "sim"
    /\ step[b] + 1 < TotalSteps
    /\ step' = [step EXCEPT ![b] = @ + 1]
    /\ pendingQuery' = Append(pendingQuery, b)
    /\ UNCHANGED <<pc, handler, status, snap, maxRead, loadedAt, clock,
                   running, stored, maxSetting, failures, lastSent, termMsgs>>

(***************************************************************************)
(* The last timer fires: the final progress update is broadcast, the       *)
(* result is marked completed (before the query callback of that broadcast *)
(* can run) and saveBenchmarkResult starts with its storage get.           *)
(***************************************************************************)
FinishSimulation(b) ==
    /\ pc[b] = "sim"
    /\ step[b] + 1 = TotalSteps
    /\ step' = [step EXCEPT ![b] = @ + 1]
    /\ pendingQuery' = Append(pendingQuery, b)
    /\ status' = [status EXCEPT ![b] = "completed"]
    /\ pc' = [pc EXCEPT ![b] = "load"]
    /\ UNCHANGED <<handler, snap, maxRead, loadedAt, clock, running, stored,
                   maxSetting, failures, lastSent, termMsgs>>

\* Mutant: results.push(result) in place of results.unshift(result).
SaveLoadAppend(b) ==
    /\ pc[b] = "load"
    /\ snap' = [snap EXCEPT ![b] = Append(stored, b)]
    /\ loadedAt' = [loadedAt EXCEPT ![b] = clock]
    /\ clock' = clock + 1
    /\ pc' = [pc EXCEPT ![b] = "settings"]
    /\ UNCHANGED <<handler, step, status, maxRead, running, stored,
                   maxSetting, failures, pendingQuery, lastSent, termMsgs>>

(***************************************************************************)
(* saveBenchmarkResult, first await: loadBenchmarkResults returns the      *)
(* stored list and the result is unshifted onto it.                        *)
(***************************************************************************)
SaveLoad(b) ==
    /\ pc[b] = "load"
    /\ snap' = [snap EXCEPT ![b] = Cons(b, stored)]
    /\ loadedAt' = [loadedAt EXCEPT ![b] = clock]
    /\ clock' = clock + 1
    /\ pc' = [pc EXCEPT ![b] = "settings"]
    /\ UNCHANGED <<handler, step, status, maxRead, running, stored,
                   maxSetting, failures, pendingQuery, lastSent, termMsgs>>

(***************************************************************************)
(* saveBenchmarkResult, second await: loadSettings, then maxResults.       *)
(***************************************************************************)
SaveReadSettings(b) ==
    /\ pc[b] = "settings"
    /\ maxRead' = [maxRead EXCEPT ![b] = EffectiveMax(maxSetting)]
    /\ pc' = [pc EXCEPT ![b] = "write"]
    /\ UNCHANGED <<handler, step, status, snap, loadedAt, clock, running,
                   stored, maxSetting, failures, pendingQuery, lastSent,
                   termMsgs>>

\* Mutant: the clean-up this.runningBenchmarks.delete(benchmarkId) left out.
SaveWriteKeepsRunning(b) ==
    /\ pc[b] = "write"
    /\ stored' = Slice(snap[b], maxRead[b])
    /\ pendingQuery' = Append(pendingQuery, b)
    /\ pc' = [pc EXCEPT ![b] = "done"]
    /\ UNCHANGED <<handler, step, status, snap, maxRead, loadedAt, clock,
                   maxSetting, failures, lastSent, termMsgs, running>>

(***************************************************************************)
(* saveBenchmarkResult, third await: the trimmed list is written.  The     *)
(* catch block that called it (or the try block) then deletes the entry   *)
(* from runningBenchmarks and broadcasts the final result.                 *)
(***************************************************************************)
SaveWrite(b) ==
    /\ pc[b] = "write"
    /\ stored' = Slice(snap[b], maxRead[b])
    /\ running' = running \ {b}
    /\ pendingQuery' = Append(pendingQuery, b)
    /\ pc' = [pc EXCEPT ![b] = "done"]
    /\ UNCHANGED <<handler, step, status, snap, maxRead, loadedAt, clock,
                   maxSetting, failures, lastSent, termMsgs>>

(***************************************************************************)
(* The storage set rejects (quota, write rate) inside the try block of     *)
(* simulateBenchmarkExecution or its catch block: the next enclosing catch *)
(* marks the result failed and calls saveBenchmarkResult again.            *)
(***************************************************************************)
SaveFailsAndRetries(b) ==
    /\ pc[b] = "write"
    /\ handler[b] # "runCatch"
    /\ failures < MaxStorageFailures
    /\ failures' = failures + 1
    /\ handler' = [handler EXCEPT ![b] =
                     IF @ = "simulate" THEN "simulateCatch" ELSE "runCatch"]
    /\ status' = [status EXCEPT ![b] = "failed"]
    /\ pc' = [pc EXCEPT ![b] = "load"]
    /\ UNCHANGED <<step, snap, maxRead, loadedAt, clock, running, stored,
                   maxSetting, pendingQuery, lastSent, termMsgs>>

(***************************************************************************)
(* The set rejects inside runBenchmark's catch block: the error reaches    *)
(* handleMessage's catch, which only answers the (already answered)        *)
(* caller.  The entry stays in runningBenchmarks and nothing is broadcast. *)
(***************************************************************************)
SaveFailsInRunCatch(b) ==
    /\ pc[b] = "write"
    /\ handler[b] = "runCatch"
    /\ failures < MaxStorageFailures
    /\ failures' = failures + 1
    /\ pc' = [pc EXCEPT ![b] = "stuck"]
    /\ UNCHANGED <<handler, step, status, snap, maxRead, loadedAt, clock,
                   running, stored, maxSetting, pendingQuery, lastSent,
                   termMsgs>>

(***************************************************************************)
(* The chrome.tabs.query callback of the oldest pending broadcast runs and *)
(* sends BENCHMARK_STATUS with the result as it is now.                    *)
(***************************************************************************)
BroadcastToTabs ==
    /\ pendingQuery # <<>>
    /\ LET b == Head(pendingQuery) IN
       /\ lastSent' = [lastSent EXCEPT ![b] = status[b]]
       /\ termMsgs' = [termMsgs EXCEPT ![b] =
                         IF status[b] \in Terminal THEN @ + 1 ELSE @]
    /\ pendingQuery' = Tail(pendingQuery)
    /\ UNCHANGED <<pc, handler, step, status, snap, maxRead, loadedAt, clock,
                   running, stored, maxSetting, failures>>

(***************************************************************************)
(* clearBenchmarkResults (popup "Clear All", options "Clear all data").    *)
(***************************************************************************)
ClearResults ==
    /\ stored' = <<>>
    /\ UNCHANGED <<pc, handler, step, status, snap, maxRead, loadedAt, clock,
                   running, maxSetting, failures, pendingQuery, lastSent,
                   termMsgs>>

(***************************************************************************)
(* The options page saves settings with a new maxStoredResults.            *)
(***************************************************************************)
SaveSettings(v) ==
    /\ maxSetting' = v
    /\ UNCHANGED <<pc, handler, step, status, snap, maxRead, loadedAt, clock,
                   running, stored, failures, pendingQuery, lastSent,
                   termMsgs>>

(***************************************************************************)
(* The options page's "Reset to Defaults": the default settings, with      *)
(* maxStoredResults 50, are saved over the stored ones.                    *)
(***************************************************************************)
ResetSettings == SaveSettings(DefaultMaxStored)

(***************************************************************************)
(* The options page's "Clear all data" awaits clearBenchmarkResults, then  *)
(* chrome.storage.sync.clear(), then chrome.storage.local.clear(): the two *)
(* local steps are ClearResults, and the sync step drops the settings, so  *)
(* the next loadSettings falls back to maxStoredResults 50.                *)
(***************************************************************************)
ClearSyncStorage ==
    /\ maxSetting' = DefaultMaxStored
    /\ UNCHANGED <<pc, handler, step, status, snap, maxRead, loadedAt, clock,
                   running, stored, failures, pendingQuery, lastSent,
                   termMsgs>>

(***************************************************************************)
(* The steps the runtime takes by itself once a handler waits on them.     *)
(***************************************************************************)
Proceed(b) ==
    \/ ProgressTick(b)
    \/ FinishSimulation(b)
    \/ SaveLoad(b)
    \/ SaveReadSettings(b)
    \/ SaveWrite(b)

Next ==
    \/ \E b \in Benchmarks :
          \/ RunBenchmark(b)
          \/ Proceed(b)
          \/ SaveFailsAndRetries(b)
          \/ SaveFailsInRunCatch(b)
    \/ BroadcastToTabs
    \/ ClearResults
    \/ \E v \in MaxStoredChoices : SaveSettings(v)
    \/ ResetSettings
    \/ ClearSyncStorage

Spec == Init /\ [][Next]_vars

(***************************************************************************)
(* A fired timer, a settled storage promise and a queued tabs.query        *)
(* callback are all run by the event loop eventually.                      *)
(***************************************************************************)
FairSpec ==
    /\ Spec
    /\ \A b \in Benchmarks : WF_vars(Proceed(b))
    /\ WF_vars(BroadcastToTabs)

-----------------------------------------------------------------------------
(***************************************************************************)
(* saveBenchmarkResult "adds to beginning": the history is ordered newest  *)
(* first, by the moment each save read the list, even when the saves of   *)
(* concurrent benchmarks interleave and trim with different maxima.        *)
(***************************************************************************)
NewestFirst(s) ==
    \A i, j \in 1..Len(s) : i < j => loadedAt[s[i]] > loadedAt[s[j]]

StoredNewestFirst == NewestFirst(stored)

(***************************************************************************)
(* Why the order survives concurrent saves: every list a save has loaded   *)
(* and not yet written is itself ordered, starts with the saving result    *)
(* (which loaded last), and holds only results whose save has finished, so *)
(* a later load by another benchmark cannot move them in the order.        *)
(***************************************************************************)
SaveInFlight(b) == pc[b] \in {"settings", "write"}

LoadedBeforeNow == \A b \in Benchmarks : loadedAt[b] < clock

StoredDone == \A i \in 1..Len(stored) : pc[stored[i]] = "done"

SnapshotSound(b) ==
    /\ Len(snap[b]) >= 1
    /\ snap[b][1] = b
    /\ \A i \in 2..Len(snap[b]) : pc[snap[b][i]] = "done"
    /\ NewestFirst(snap[b])

HistoryInductive ==
    /\ TypeOK
    /\ LoadedBeforeNow
    /\ StoredDone
    /\ \A b \in Benchmarks : SaveInFlight(b) => SnapshotSound(b)
    /\ StoredNewestFirst

(***************************************************************************)
(* runningBenchmarks and result.status agree with how far each handler    *)
(* got: a benchmark is in runningBenchmarks from runBenchmark until the    *)
(* save that ends its handler is written, and the only way to stay in it   *)
(* after the handler has ended is a set that rejects in runBenchmark's     *)
(* catch block; the status is "running" exactly while the simulation runs  *)
(* and final from then on, through every retry of the save.                *)
(***************************************************************************)
Unfinished == {"sim", "load", "settings", "write", "stuck"}

RunningBookkeeping ==
    \A b \in Benchmarks :
        /\ b \in running <=> pc[b] \in Unfinished
        /\ status[b] = "running" <=> pc[b] = "sim"
        /\ pc[b] \in (Unfinished \ {"sim"}) \cup {"done"} => status[b] \in Terminal
        /\ pc[b] \in {"idle", "rejected"} => status[b] = "none"

(***************************************************************************)
(* Every benchmark that starts is eventually removed from                  *)
(* runningBenchmarks, and the last status broadcast to the tabs about it   *)
(* is its final one (the UIs stop showing it as running).                  *)
(***************************************************************************)
EveryBenchmarkSettles ==
    \A b \in Benchmarks :
        pc[b] = "sim" ~> (b \notin running /\ lastSent[b] \in Terminal
                          /\ lastSent[b] = status[b])

(***************************************************************************)
(* The history as saveBenchmarkResult and clearBenchmarkResults present it *)
(* to the rest of the extension: each save puts its result in front and    *)
(* trims to the maxStoredResults in force, each clear empties it, as if    *)
(* each were one atomic operation on chrome.storage.local.                 *)
(***************************************************************************)
History == INSTANCE ResultHistory
               WITH history <- stored, Ids <- Benchmarks,
                    Limits <- {EffectiveMax(v) : v \in MaxStoredChoices \cup {DefaultMaxStored}}

(***************************************************************************)
(* "Save the completed result": saves and clears of the history behave as *)
(* atomic operations, so none of them undoes another.                      *)
(***************************************************************************)
SavesAreAtomic == History!Spec

(***************************************************************************)
(* The content script shows one notification per BENCHMARK_STATUS message  *)
(* with a final status: each benchmark should produce at most one.         *)
(***************************************************************************)
OneFinalNotice == \A b \in Benchmarks : termMsgs[b] <= 1

(***************************************************************************)
(* Once a tab has been told a benchmark's final status, it is never told   *)
(* that the benchmark runs again, although every tabs.query callback reads *)
(* the shared result object as it is when it runs, not when it was queued. *)
(* The sidebar page relies on it: a final status clears its isRunning.     *)
(***************************************************************************)
FinalStatusSticks ==
    [][\A b \in Benchmarks : lastSent[b] \in Terminal => lastSent'[b] \in Terminal]_vars

(***************************************************************************)
(* Why: a tab hears a final status only once the result holds one, and a   *)
(* benchmark with a queued callback has left the idle state, in which      *)
(* alone runBenchmark can set its status back to running.                  *)
(***************************************************************************)
SentFinalOnlyIfFinal ==
    /\ \A b \in Benchmarks : lastSent[b] \in Terminal => status[b] \in Terminal
    /\ \A b \in Benchmarks : pc[b] = "idle" => lastSent[b] = "none"
    /\ \A i \in 1..Len(pendingQuery) : pc[pendingQuery[i]] # "idle"
=============================================================================

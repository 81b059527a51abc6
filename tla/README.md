# TLA+ models of the memtier_benchmark browser extension

This directory holds TLA+ specifications of the extension under
`src/memtier-benchmark-extension/src`, TLC configurations that model-check
them on small instances, and TLAPS proofs of their main invariants.

## The system

The extension has one background context and several pages:

* **Service worker** (`src/background/service-worker.ts`, class
  `BenchmarkRunner`). It receives `RUN_BENCHMARK` messages. For each one it
  validates the config, registers the result in `runningBenchmarks` and
  answers the caller. It then runs a simulated benchmark: ten one-second
  timers, each followed by a progress broadcast. At the end it marks the
  result completed, saves it, deletes it from `runningBenchmarks` and
  broadcasts the final result. A storage failure is handled by two nested
  catch blocks that mark the result failed and try to save again.
* **StorageManager** (`src/shared/storage.ts`). It is a thin layer over
  `chrome.storage`. The result history lives in `chrome.storage.local`.
  `saveBenchmarkResult` is a read-modify-write over three awaits: load the
  list, load the settings, write the trimmed list. The settings
  (`maxStoredResults`) live in `chrome.storage.sync`.
* **Content script** (`src/content/content-script.ts`). It receives the
  broadcasts, shows a notification for each final status, and relays the
  messages to the sidebar iframe it may have opened.
* **Popup, sidebar and options pages** (`src/popup`, `src/sidebar`,
  `src/options`). These are React views. They edit the current config with
  `ConfigForm`, start benchmarks, list results, and set `maxStoredResults`.
* **Config codec and result parser** (`src/shared/benchmark-config.ts`,
  `src/shared/utils.ts`). These are pure functions. `configToArgs` turns a
  config into memtier command-line arguments, and `validateConfig` checks
  it. `parseBenchmarkOutput` extracts statistics from report text.

The concurrency is JavaScript's. Each handler runs to its next `await`, timer
or callback. The handlers of different benchmarks, the options page and the
popup interleave at exactly those points. `chrome.tabs.query` runs its
callback later, and that callback reads the *shared* result object as it is
then.

## Modules

| Module | Models | Source |
|---|---|---|
| `BenchmarkRunner` | the runner's handlers and the result-history part of StorageManager, one action per await-delimited step | service-worker.ts, storage.ts, types.ts |
| `MCBenchmarkRunner` | TLC instance: two benchmarks, two progress steps, history limit 2, symmetry | |
| `BenchmarkRunnerProofs` | TLAPS proofs of the type invariant, of the history order and of the `runningBenchmarks` bookkeeping | |
| `BroadcastProofs` | TLAPS proofs that the tabs hear a final status only after the run ended, and never a running status after it | |
| `ConfigCodec` | `configToArgs`, `validateConfig`, `mergeWithDefaults`, `DEFAULT_CONFIG`, plus a reference decoder of memtier command lines | benchmark-config.ts, types.ts |
| `ConfigForm` | the edited config: input changes, Reset, loading a preset | ConfigForm.tsx, popup.tsx |
| `MCConfigForm` | TLC instance: a few values per visible field, one imported preset | |
| `ResultParser` | `parseBenchmarkOutput`, line by line, and `generateSimulatedOutput`; the parser contract of the specification as reference | utils.ts, service-worker.ts |
| `MCResultParser` | TLC instance: all reports of up to three lines from nine typical and trap lines; two simulated outputs | |
| `ResultParserProofs` | TLAPS proofs of the parser's type invariant, of `FieldsFromReport` and of the refinement `ParseIsLastMatch` | |
| `ContentSidebar` | the content script's sidebar iframe, overlay, close timers and status relay; the sidebar page's `isRunning` | content-script.ts, sidebar.tsx |
| `MCContentSidebar` | TLC instance: two benchmarks, three sidebars opened in turn, two pending close timers | |
| `ContentSidebarProofs` | TLAPS proof of the sidebar invariants | |
| `Popup` | the popup's run state composed with `BenchmarkRunner`: opening and closing the popup, `handleRunBenchmark` and its awaited answer, the sidebar's relayed run requests | popup.tsx, service-worker.ts, content-script.ts |
| `MCPopup` | TLC instance of `Popup` on `MCBenchmarkRunner`'s constants | |
| `PopupProofs` | TLAPS proofs that the popup's run state is consistent and that the worker's answer reaches only the popup awaiting it | |
| `ResultHistory` | abstract history: atomic saves (prepend and trim) and clears | none (an abstract specification) |
| `ParseContract` | abstract parser call: one step returns `Parse(report)` | none (an abstract specification) |

### BenchmarkRunner: state and actions

A result is represented by its id, a member of the constant `Benchmarks`,
which stands for what `generateId` returns. Output text, config contents and
statistics are left out, because no property here depends on them.

| Variable | Code |
|---|---|
| `pc[b]` | where benchmark b's async handler is suspended (`sim` = in the progress loop; `load`/`settings`/`write` = at the three awaits of `saveBenchmarkResult`; `done`; `stuck` = its last exception escaped) |
| `handler[b]` | which block runs the save: the try of `simulateBenchmarkExecution`, its catch, or `runBenchmark`'s catch |
| `step[b]` | the loop counter `step` |
| `status[b]` | `result.status` of the shared result object |
| `snap[b]`, `maxRead[b]` | the local `results` list after `unshift`, and `maxResults` |
| `running` | the keys of `runningBenchmarks` |
| `stored` | `benchmarkResults` in `chrome.storage.local`, as ids |
| `maxSetting` | `extensionSettings.maxStoredResults` (0 also stands for a stored NaN/null) |
| `pendingQuery` | `chrome.tabs.query` callbacks not yet run, in call order |
| `lastSent[b]`, `termMsgs[b]` | what the content script last heard about b, and how many final-status messages it got |
| `failures` | how many storage writes rejected (bounded by `MaxStorageFailures`) |
| `loadedAt`, `clock` | history variables: when each save read the list, and a logical clock |

Each of the following actions models one step of the code, from one await to
the next:

* `RunBenchmark`: `runBenchmark` up to the first timer. Rejection by
  `validateConfig` is a nondeterministic choice.
* `ProgressTick`: one loop iteration of `simulateBenchmarkExecution`.
* `FinishSimulation`: the last iteration. Its broadcast is queued just
  before `result.status = 'completed'`.
* `SaveLoad`, `SaveReadSettings`, `SaveWrite`: the three awaits of
  `saveBenchmarkResult`. `SaveWrite` also does the caller's
  `runningBenchmarks.delete` and final broadcast.
* `SaveFailsAndRetries`: a rejected write inside the try block or the first
  catch. The enclosing catch marks the result failed and saves again.
* `SaveFailsInRunCatch`: a rejected write in `runBenchmark`'s catch. The
  exception reaches `handleMessage`, which only logs it.
* `BroadcastToTabs`: the oldest pending `tabs.query` callback sends the
  result's current status.
* `ClearResults`: `clearBenchmarkResults` (popup and options).
* `SaveSettings`: the options page stores a new `maxStoredResults`.
* `ResetSettings`: the options page's Reset to Defaults, which saves
  `maxStoredResults` 50 (`DefaultMaxStored`).
* `ClearSyncStorage`: the `chrome.storage.sync.clear()` step of Clear All
  Data. The next `loadSettings` falls back to the default limit. The
  handler's two `chrome.storage.local` steps both empty the history, so they
  are `ClearResults`.

`History` instantiates `ResultHistory` with `stored` as its history.
`SavesAreAtomic` is `History!Spec`. It says that every change of the stored
list is an atomic prepend-and-trim of one result or a clear. The runner
changes `stored` only in `SaveWrite` and `ClearResults`. A rejected write
leaves it unchanged. The mapping therefore needs no auxiliary variables, and every
other step is a stutter of the abstract history.

Two properties are about the broadcasts the tabs receive.
`SentFinalOnlyIfFinal` says that a final status reaches the tabs only after
the result's status is final, and that an idle benchmark has neither
broadcasts nor queued callbacks. `FinalStatusSticks` is an action property:
once the tabs heard a final status for a benchmark, every later broadcast
for it is final too. The content script and the sidebar rely on this. They
show a completion notification and clear their running state on the first
final status they hear.

`RunningBookkeeping` relates `runningBenchmarks`, `result.status` and the
handler's progress. A benchmark is in `runningBenchmarks` exactly while its
handler has not written its final save, or after a write rejected in
`runBenchmark`'s catch (`stuck`). That second case is the leak: nothing
removes the entry afterwards. The status is `running` exactly during the
simulation, and final through every retry of the save. Dropping the
`runningBenchmarks.delete` after a save (mutant `SaveWriteKeepsRunning`)
breaks it.

### ConfigCodec and ConfigForm

A config is a function from the `MemtierConfig` field names to values. An
optional field that is not set holds the model value `Absent`, a `requests`
of `'allkeys'` holds `AllKeys`, and a ratio string is a record
`[set, get]` whose parts are numbers, or `BadText` when the text does not
match `/^\d+:\d+$/`. Strings other than ratios stay short strings.

`configToArgs` is modelled as a table `OptionRules` with one rule per
`if` statement of the code, in the code's order. Each rule records the field,
the test the code makes and the literal it compares with:

* `!== default`;
* truthiness;
* `> 0`;
* `!== undefined`;
* `&& !==`.

`GroupArgs` turns the table into the argument sequence, and `CommandArgs`
adds the `--command` arguments of the arbitrary commands.
`validateConfig` is the list of its checks filtered by `Violates`.

The module also holds a reference decoder, which is not mapped to code.
It says what a command line means to memtier:

* the last occurrence of a flag wins;
* an absent flag means memtier's default, which is the `DEFAULT_CONFIG`
  value;
* a switch is on when its flag is present.

`ArgsMean(args, c)` holds when the decoded config agrees with `c` on every
field. An optional field that is unset on both sides counts as agreeing,
whether it is unset as `Absent`, `0` or `''`.

`ConfigForm` has one variable, `config`. `InputChange(f, raw)` is
`renderInput`'s `onChange` followed by `handleInputChange` and the popup's
`handleConfigChange`. A number input that was emptied delivers the model value
`EmptyInput`, and the handler stores `0` for it. `Reset` is `handleReset`.
`LoadPreset` is `handleLoadPreset`, and it also stands for loading a stored
current config.

### ResultParser

A report is a sequence of lines, and a line is a sequence of tokens that
stand for the whitespace-separated words of the text:

* A number is `Num(whole, frac)`. Its `frac` is `NoFrac`, or the single digit
  after its decimal point.
* A word is `W(text)`. The words the regexes look for are kept as they are,
  and every other word is `W(Other)`.

Each regex is modelled by what it captures at its leftmost match (`Capture`):

* `(\d+)\s+requests` takes the digits just before the space. For `5000.5`
  those are the `5` after the point (`TrailingDigits`).
* `([\d.]+)` takes the whole number (`Decimal`).

Values are in tenths. `ParseLine` is one iteration of the loop, and every
matching pattern overwrites its field. `Return` is the truthiness test and the
`|| 0` defaults.

The module assumes three things about its constants:

* `ReportsAssumption`: a report is a sequence of lines of numbers and words.
* `AbsentAssumption`: the undefined field is not a number.
* `WholeErrorCounts`: memtier prints its error count as an integer.

With a decimal point, `(\d+)\s+errors` would read only the digits after it,
as the requests pattern does. `FieldsFromReport` is proved under that last
assumption.

`SimulatedOutput` is the text `generateSimulatedOutput` produces, line for
line. The second half of the module states the parser contract of the
specification as a reference: which values a report gives each field,
wherever a line carries them.

`Contract` instantiates `ParseContract` with `Parse <- LastMatchResult`.
`LastMatchResult` applies the rule of the specification, "each line is
matched against every pattern, the last match wins", to the whole report at
once. `ParseIsLastMatch` (`Contract!Spec`) says that the loop refines that
atomic call. The loop steps are stutters, and `Return` maps to the
contract's `Return`.

### ContentSidebar

The variables are:

* `sidebar`: the content script's `this.sidebar`;
* `page`: the sidebar iframes in the DOM;
* `overlays`: the number of overlay divs in the DOM;
* `timers`: the pending `closeSidebar` timers;
* the sidebar page's state: `ready` (its listener is mounted),
  `viewRunning` and `heard`;
* `sent`: the service worker's broadcast stream per benchmark. It is
  running statuses followed by final ones. A final status may repeat (the
  notice run shows a duplicated `completed`), and a `completed` may be
  followed by `failed` when the save after completion is rejected.

A timer reads `this.sidebar` when it fires, not when it was set, so the
timers are only counted. `OpenSidebar` creates a fresh iframe numbered
`nextFrame`. `Broadcast` is the service worker's broadcast together with the
content script's `handleBenchmarkStatus`. That handler relays the status to
the iframe, and a page that has not mounted yet drops it. The history
variable `asked` records close requests. `heard[b]` is the page's entry for
b in its results list, the last status of b it received.

`SidebarNotStale` relates the sidebar page to the service worker across the
relay. While a sidebar is on the page, its entry for each benchmark is
either empty or the status the worker last broadcast. It shows a run only
while the worker's last broadcast about some benchmark said `running`.
Breaking it takes several steps of several actors: broadcasts dropped
before the page mounts, closes whose timer has not fired, and a reopen.
A `handleBenchmarkStatus` that never clears `isRunning` (mutant
`ViewStatusKeepsRunning`) breaks it. The converse does not hold, and no run
checks it: a sidebar opened during a run shows nothing running, and with
two benchmarks one's final status clears `isRunning` while the other runs.

### Popup

`Popup` extends `BenchmarkRunner` and adds the popup page:

* `popupOpen` and `popupGen` record whether a popup is open and how many
  have been opened. Each opening mounts a new `PopupApp`.
* `isRunning`, `currentBenchmarkId` and `awaiting` are the popup's state.
  `awaiting` holds while `handleRunBenchmark` is suspended at its
  `sendMessage`.
* `inbox` holds the `RUN_BENCHMARK` messages that the worker has not
  handled. Each entry is the number of the popup that sent it.
* `reply` holds an answer delivered to the open popup.

The actions are:

* `OpenPopup`: mounts a popup with the `useState` initial values
  (`FreshPopup`).
* `ClosePopup`: discards the popup's state.
* `HandleRunBenchmark`: sets `isRunning` and sends the message. The Run
  button is disabled while `isRunning` is set.
* `ServeRun(b)`: the worker's `runBenchmark` for the oldest message. Its
  `sendResponse` reaches only the popup that sent it, and only if that popup
  is still open.
* `ReceiveReply`: stores the answer's `benchmarkId`.
* `SidebarRun(b)`: a run started from the sidebar and relayed by the
  content script. Its answer is ignored.
* `RunnerStep`: every other step of the runner.

No runner step changes the popup's state. The worker broadcasts with
`chrome.tabs.sendMessage`, which never reaches the popup's
`chrome.runtime.onMessage` listener. So the popup's listener, with its stale
`currentBenchmarkId === null` comparison, never runs in the model. That is
faithful to the code.

`AnswerToAsker` states that the answer to `RUN_BENCHMARK` is handed only to
the popup instance awaiting it. A popup closed before the worker answered,
and then reopened, is never handed the old answer. It also states that the
benchmark the popup tracks was registered by the worker, and is tracked
only while the popup shows the run. `ServeRun` checks that the sender's
popup number is the open one. Dropping that check breaks the property.
No run holds it, because the project keeps twelve runs. TLC checked it
during development with two benchmarks, three popup openings and
`PopupSpec`, on 287,172 distinct states. It is proved for every instance
(see `PopupProofs`).

## Runs

| Run | Expect | Checks | Shows |
|---|---|---|---|
| order | pass | `TypeOK`, `StoredNewestFirst`, `HistoryInductive`, `SentFinalOnlyIfFinal`, `FinalStatusSticks`, `RunningBookkeeping` | Concurrent saves, clears and limit changes keep the history ordered newest first. The tabs hear a final status only after the run ended, and never a running status after it. A benchmark stays in `runningBenchmarks` after its handler ends only when its last save failed in `runBenchmark`'s catch. |
| settle | pass | `EveryBenchmarkSettles` (under `FairSpec`) | With at most two write failures, every benchmark leaves `runningBenchmarks` and its last broadcast is final. |
| lost | violation | `SavesAreAtomic` | Two concurrent saves, or a save and a clear, change the history in a way no sequence of atomic saves and clears can. |
| popupstuck | violation | `PopupRunEnds` (under `PopupFairSpec`) | The benchmark the popup started completes and is broadcast, yet the popup shows "Running..." until it is closed. |
| notice | violation | `OneFinalNotice` | The deferred callback of the last progress broadcast already sees `completed`, so the content script shows two completion notifications. |
| roundtrip | pass | `TypeOK`, `CommandMeansConfig` | Every config that `validateConfig` accepts is encoded into a command line that means exactly that config. This covers every config reachable by edits, resets and presets with every number input cleared except the data size. The cleared run covers that one. |
| cleared | violation | `CommandMeansConfig` | An emptied data size input becomes 0. Validation accepts 0, and `configToArgs` leaves it out, so memtier runs with 32 bytes. |
| parse | pass | `TypeOK`, `FieldsFromReport`, `ParseIsLastMatch` | Every throughput, latency, error and time field comes from the line that labels it, or is 0. The loop refines the atomic "last match wins" parse. |
| decimal | violation | `CountFromReport` | The line `5000.5 requests/sec` is read as a count of 5. TLC's trace is that line alone, which gives `totalRequests` 5 where the report states no count. In the specification's example the line follows `10000 requests`, and the same match turns 10000 into 5. |
| simulated | violation | `SimulatedOutputParsed` | The simulated output is parsed as no result, so every completed run has `stats = null`. |
| sidebar | pass | `TypeOK`, `OverlayWithSidebar`, `SidebarNotStale` | No orphaned overlay and no second sidebar. A sidebar on the page never shows a status the worker has since replaced. |
| reopen | violation | `SidebarRemovedOnlyWhenClosed` | Close, close, reopen: the second timer removes the new sidebar. |

The BenchmarkRunner runs above all use two benchmarks and `TotalSteps = 2`.
Two steps are enough for a progress broadcast, the final broadcast, and the
reordering of both with the status change. `DefaultMaxStored = 2` lets a
third save trim the history.
The order run allows three rejected writes, so that all three blocks of the
catch chain save. The other passing run allows two. The lost run uses two
benchmarks with limits that never trim and no failures. The popupstuck
run uses one benchmark, one popup opening and no failures. That is the
smallest instance in which the popup starts a run that then completes.

The ConfigForm runs give each of ten visible fields two or three input values.
These include an emptied number input, the default, and a non-default value
that is valid. One of those values fails validation, and one ratio text is
malformed. They also include an imported preset with arbitrary commands and
with the fields the form does not show (`selectDb` 0, `multiKeyGet`,
`testTime`, `numSlaves`, `requests` = allkeys). That is 8640 configs. Every
rule kind of the table is exercised, with both a default and a non-default
value.

The parser runs cover 820 reports: every report of up to three lines drawn
from nine lines. These include the specification's example lines, `p99:` next
to `p99.9:`, a zero count, a line with three labels, an error and time line,
and a line no pattern reads. The parse run therefore meets every pattern,
every overwrite order and both outcomes of the null test. The run stops when
the call returns, so deadlock is not checked there.

The ContentSidebar runs bound the number of opened sidebars to three and
pending timers to two (`MCBound`). The reopen sequence needs three
sidebars: open, close, close, the first timer fires, reopen, the second timer
fires.

The BenchmarkRunner runs that check safety use symmetry over `Benchmarks`, which is sound
because no action or property names a particular benchmark. The liveness runs
do not use symmetry.

### Fairness

`FairSpec` assumes weak fairness of each benchmark's `Proceed` steps and of
`BroadcastToTabs`. A fired timer, a settled storage promise and a queued
`tabs.query` callback are all run by the event loop eventually. Storage
failures, clears, settings changes and new benchmarks are the environment's
choice and get no fairness.

`PopupFairSpec` adds weak fairness of the worker's handling of a queued
`RUN_BENCHMARK` (`ServeRun`) and of the resolution of the popup's awaited
`sendMessage` (`ReceiveReply`). Both are event-loop tasks. The user's
actions (opening, closing, clicking Run) and sidebar runs get no fairness.

### Hazards with no run of their own

Three further disagreements are present in the models but have no run. The
project keeps one run per question, and its twelve runs are at the cap.
A fourth, a third rejected write in `runBenchmark`'s catch, leaves the
benchmark in `runningBenchmarks` forever. `RunningBookkeeping` in the order
run (three failures) states exactly when that happens. The settle run checks
two failures, where every benchmark settles.
* A negative `maxStoredResults` makes a save drop its own result.
  `options.tsx` does not enforce the input's `min`. The order run still
  covers negative limits.
* A report whose only count is `0 requests` is parsed as no result, while
  the specification says it should be a record of zeros.
* With two benchmarks, the final status of one clears the sidebar's
  `isRunning` while the other still runs. `Broadcast` sets `viewRunning`
  from the last status of any benchmark.

## Proofs

Every theorem below is proved by TLAPS for every value of the constants.
Each one follows the same plan. An inductive invariant `I` satisfies
`Init => I` and `I /\ [Next]_vars => I'`, and it implies the property.
TLC first checked `I` on the run's instance. The temporal conclusion then
follows by `PTL`.

### `BenchmarkRunnerProofs`

* `TypeCorrect`: `Spec => []TypeOK`.
* `HistoryInvariant`: `Spec => []HistoryInductive`.
* `StoreOrdered`: `Spec => []StoredNewestFirst`.

`StoredNewestFirst` is not inductive by itself. A save that has loaded the
list holds a private copy that it will write back later, so the invariant
must also speak about those copies. The strengthening is `HistoryInductive`,
which TLC also checks in the order run. It requires:

* every load time is in the past (`LoadedBeforeNow`);
* every stored result's save has finished (`StoredDone`);
* the copy held by every save between load and write starts with its own
  result, holds only finished results after it, and is ordered
  (`SnapshotSound`).

A later load by another benchmark changes only that benchmark's own load
time. That benchmark has not finished, so its result is in no stored list or
copy. The write stores a prefix of an ordered copy (lemma
`SliceKeepsOrder`, which holds for every integer limit, negative ones
included).

* `BookkeepingInvariant`: `Spec => []RunningBookkeeping`.

`RunningBookkeeping` is inductive as it stands, given `TypeOK`. Lemma
`BookkeepingOthers` reduces each handler step of benchmark b to b's own
entry, since the step leaves every other benchmark's `pc`, status and
membership alone. Each handler action is then checked for b alone.

### `BroadcastProofs`

* `SentFinalInvariant`: `Spec => []SentFinalOnlyIfFinal`.
* `FinalStatusSticksProved`: `Spec => FinalStatusSticks`.

The inductive invariant is `TypeOK /\ SentFinalOnlyIfFinal`. Its last two
conjuncts are needed for induction:

* an idle benchmark has heard nothing;
* no queued `tabs.query` callback belongs to an idle benchmark.

`RunBenchmark` sets an idle benchmark's status to `running`. Without the
first of these conjuncts, a final status heard earlier would then break the
invariant. Without the second, a queued callback of that benchmark could
later send a status the invariant knows nothing about.

The step proof has one case per action. Lemma `HandlerStep` covers the seven
handler steps at once. Each of them:

* keeps its benchmark busy;
* queues at most its own callback;
* leaves `lastSent` alone;
* keeps a final status final.

`BroadcastToTabs` sends the current status, which is final if the sent one
is. The settings and clear actions change none of the variables involved. The action property follows from the same invariant. A benchmark that
heard a final status has a final status, and a broadcast for it sends that
status.

### `ResultParserProofs`

* `ParserTypeCorrect`: `Spec => []TypeOK`.
* `FieldsFromReportProved`: `Spec => []FieldsFromReport`.
* `StatsSoundInvariant`: `Spec => []StatsSound`.
* `ParseRefinesContract`: `Spec => ParseIsLastMatch`.

These hold for every report of numbers and words with integer error counts.
The induction runs over the loop's steps, not over the data, which is why
the provers manage it.

`StatsSound` is the strengthening of `FieldsFromReport`. A field set so far
holds a value of the report, and a field still unset has no labelled value
in the lines read so far. Lemma `CaptureSound` is the core. Each regex's
capture is a value the specification's contract reads from the same line:

* the leftmost match exists by `NatSetHasLeast`, from `WellFoundedInduction`;
* `p99:` is not `p99.9:`;
* for `errors`, `TrailingDigits` equals `Decimal` on an integer.

The refinement uses a second invariant, `StatsAreLastMatch`. After lines
1..i-1, each field holds the capture of the last of them that matches it,
or is Absent. When line i matches, lemma `LastOfGreatest` makes it the new
last match. When it does not, the set of matching lines is unchanged. At
`Return`, `stats` is therefore the record of `LastCapture`s. The
implementation's `Return` is then the contract's `Return`, and the loop
steps are stutters.

### `ContentSidebarProofs`

* `SidebarInvariants`:
  `Spec => [](TypeOK /\ OverlayWithSidebar /\ SidebarNotStale)`.
* `SidebarNotStaleProved` and `SidebarTypeCorrect`: corollaries of it.
  Each is stated separately because the sidebar run checks it as an
  invariant.

These hold for every set of benchmarks and every number of toggles. They
rest on the assumption `NoneAssumption`, that the null sidebar is not a
frame number.

The close timer only removes the iframe that `this.sidebar` names. So
`OverlayWithSidebar` needs only the lemma `OverlayCount`, which rewrites "at
most one iframe, and as many overlays as iframes" as "nothing, or the held
iframe with one overlay".

`SidebarNotStale` is not inductive as it stands. A broadcast that is not
relayed changes `sent` and leaves the page's entries alone. The
strengthening adds three facts:

* `ViewFromHeard`: `isRunning` is set only by a running status the page
  heard.
* `UnmountedFresh`: a page that has not mounted its listener has heard
  nothing.
* `Synced`: the first half of the property.

A broadcast that is not relayed then has either no sidebar or an unmounted
page, whose entries are empty. A relayed one sets the entry and `sent` to
the same status. The close timer always leaves `this.sidebar` null. The step
proof has one case per action.

### `PopupProofs`

* `PopupInvariant`: `PopupSpec => []PopupInductive`.
* `AnswerReachesAsker`: `PopupSpec => []AnswerToAsker`.

Both are stated under the hypothesis `PopupConstantsOK`:
`MaxPopupOpens` is a natural number and the null answer is not a
benchmark id. It is a hypothesis of the theorems, not an `ASSUME` of
`Popup`, since no passing run extends `Popup`.

`AnswerToAsker` is not inductive alone. A reopened popup could otherwise
find a message of its predecessor still queued, and the worker's answer to
it would reach the new instance. The strengthening `PopupInductive` says:

* every queued message carries a popup number no greater than `popupGen`;
* a closed popup holds the `useState` initial values;
* an open popup is in exactly one phase:
  * idle;
  * asking, with exactly one message of its own number queued;
  * answered;
  * told the benchmark id.

Opening a popup increments `popupGen`, so the new instance has no message
queued. `ServeRun` removes the head of the queue. Lemma `ServeRunStep`
shifts the positions of the popup's own messages by one. A registered
benchmark never returns to idle (lemma `StartedStaysStarted`). The runner's
own steps leave the popup's state alone (lemma `RunnerUntouched`).

## Not proved, only model-checked

* **Liveness** (`EveryBenchmarkSettles`, `PopupRunEnds`). TLAPS does not
  handle `ENABLED` and fairness here.
* **`SavesAreAtomic`**. It is violated, so there is nothing to prove.
* **ConfigForm's `TypeOK`**. Every text default must be a member of
  `STRING`, and neither SMT nor Zenon proves `"localhost" \in STRING`.
* **`CommandMeansConfig`**. It is a statement about what `FlattenSeq`,
  `SetToSortSeq` and `Max` compute on the whole argument list, which is
  induction over data. The provers cannot instantiate the library's
  induction theorems for that.
* **`OneFinalNotice`**, `CountFromReport`, `SimulatedOutputParsed` and
  `SidebarRemovedOnlyWhenClosed`. All four are violated.

## Not modelled

See `components` in `PROJECT.json`. The parts left out are:

* The popup's results tab, its preset save and delete, and export and
  import. The popup's listener also updates its results list, but that list
  is display only.
* The error answers to `RUN_BENCHMARK`. The popup sends only configs that
  its form validated, and `runBenchmark` answers those with success before
  its first await.
* StorageManager's preset read-modify-writes and `importData`.
* Layout, notification styling and formatting helpers. These are
  presentation only.
* Service-worker termination. The worker keeps running while its timers
  are pending.

## Plan

Next, in this order:

1. Model `saveConfigPreset` and `deleteConfigPreset`, and check them against
   an atomic preset list, as `SavesAreAtomic` does for results.
2. Model `importData` overwriting the history while saves are in flight.
3. Give the runner a serialized save variant that satisfies
   `SavesAreAtomic`.

The project is at the cap of twelve runs. New questions must replace or
merge existing runs.

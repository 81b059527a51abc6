----------------------------- MODULE ResultParser -----------------------------
(***************************************************************************)
(* parseBenchmarkOutput (src/shared/utils.ts) and the report the service   *)
(* worker feeds it (generateSimulatedOutput).  A report is a sequence of   *)
(* lines and a line a sequence of whitespace-separated tokens: a number    *)
(* [whole, frac] (frac = NoFrac for a number without a decimal point, a    *)
(* digit otherwise), or a word W(text).  The words the regexes look for   *)
(* are kept; every other word is W(Other).  Decimal values are in tenths.  *)
(***************************************************************************)
EXTENDS Integers, Sequences, FiniteSets

CONSTANTS
    Reports,  \* the texts the parser may be given
    NoFrac,   \* the fraction of a number written without a decimal point
    Absent,   \* a stats field no line has set (undefined)
    NoResult, \* parseBenchmarkOutput returned null
    Pending,  \* the call has not returned yet
    Other     \* any word none of the regexes looks for

Tenths == 10

Num(w, f) == [kind |-> "num", whole |-> w, frac |-> f]
W(text) == [kind |-> "word", text |-> text]
IsNum(t) == t.kind = "num"

\* The tokens a report is split into: numbers with at most one decimal
\* digit, and words.
Number == [kind : {"num"}, whole : Nat, frac : (0..9) \cup {NoFrac}]
Word == [kind : {"word"}, text : STRING \cup {Other}]

ASSUME ReportsAssumption == Reports \subseteq Seq(Seq(Number \cup Word))

\* An undefined field is not a number.
ASSUME AbsentAssumption == Absent \notin Nat

(***************************************************************************)
(* memtier prints its error count as an integer.  (With a decimal point,   *)
(* "(\d+)\s+errors" would read the digits after it, as for requests.)     *)
(***************************************************************************)
ASSUME WholeErrorCounts ==
    \A rep \in Reports : \A n \in 1..Len(rep) : \A k \in 1..Len(rep[n]) - 1 :
        IsNum(rep[n][k]) /\ rep[n][k + 1] = W("errors") => rep[n][k].frac = NoFrac

\* parseFloat of the [\d.]+ capture: the whole number, in tenths.
Decimal(t) == Tenths * t.whole + (IF t.frac = NoFrac THEN 0 ELSE t.frac)

\* parseInt of the (\d+) capture: the digits just before the whitespace,
\* which are those after the decimal point when there is one.
TrailingDigits(t) == Tenths * (IF t.frac = NoFrac THEN t.whole ELSE t.frac)

StatFields == {"totalRequests", "requestsPerSecond", "avgLatency", "p50Latency",
               "p90Latency", "p95Latency", "p99Latency", "p999Latency",
               "errors", "totalTime"}

\* Mutant: the p95 pattern copied from the p90 line unchanged.
LabelOfCopyPaste ==
    [avgLatency |-> "avg:", p50Latency |-> "p50:", p90Latency |-> "p90:",
     p95Latency |-> "p90:", p99Latency |-> "p99:", p999Latency |-> "p99.9:"]

\* Label tokens of the patterns "<label>:\s*([\d.]+)".
LabelOf == [avgLatency |-> "avg:", p50Latency |-> "p50:", p90Latency |-> "p90:",
            p95Latency |-> "p95:", p99Latency |-> "p99:", p999Latency |-> "p99.9:"]

FirstOf(S) == CHOOSE k \in S : \A j \in S : k <= j

\* "(\d+)\s+<word>" or "([\d.]+)\s+<word>": the number before the leftmost
\* word of `words` (the regex also matches a word that only starts with it).
NumBefore(line, words) ==
    {k \in 1..Len(line) - 1 : IsNum(line[k]) /\ line[k + 1] \in words}

\* "<label>\s*([\d.]+)": the number after the leftmost label.
NumAfter(line, label) == {k \in 2..Len(line) : IsNum(line[k]) /\ line[k - 1] = W(label)}

\* "in\s+([\d.]+)\s+seconds"
NumBetween(line) ==
    {k \in 2..Len(line) - 1 : IsNum(line[k]) /\ line[k - 1] = W("in")
                                /\ line[k + 1] = W("seconds")}

\* The words "requests" is a prefix of.
RequestsWords == {W("requests"), W("requests/sec"), W("requests:")}

\* What line.match(...) captures for field f, converted; Absent if no match.
Capture(f, line) ==
    LET At(S, Conv(_)) == IF S = {} THEN Absent ELSE Conv(line[FirstOf(S)])
    IN  CASE f = "totalRequests" ->
               At(NumBefore(line, RequestsWords), TrailingDigits)
          [] f = "requestsPerSecond" -> At(NumBefore(line, {W("requests/sec")}), Decimal)
          [] f = "errors"    -> At(NumBefore(line, {W("errors")}), TrailingDigits)
          [] f = "totalTime" -> At(NumBetween(line), Decimal)
          [] OTHER           -> At(NumAfter(line, LabelOf[f]), Decimal)

\* Mutant: a field keeps the first value a line gave it.
ParseLineStatsFirstWins(stats, line) ==
    [f \in StatFields |-> IF stats[f] = Absent THEN Capture(f, line)
                          ELSE stats[f]]

\* The loop body: every pattern that matches overwrites its field.
ParseLineStats(stats, line) ==
    [f \in StatFields |-> IF Capture(f, line) # Absent THEN Capture(f, line)
                          ELSE stats[f]]

\* Mutant: an undefined field counted as set (the `|| 0` default lost).
TruthyNoDefault(v) == v # 0

Truthy(v) == v # Absent /\ v # 0

\* The return after the loop: null unless a count or a throughput is truthy,
\* otherwise every field with `|| 0`.
StatsResult(stats) ==
    IF Truthy(stats.totalRequests) \/ Truthy(stats.requestsPerSecond)
    THEN [f \in StatFields |-> IF Truthy(stats[f]) THEN stats[f] ELSE 0]
    ELSE NoResult

VARIABLES
    report, \* the output text, split('\n')
    i,      \* the loop's position in the lines
    stats,  \* the Partial<BenchmarkStats> being filled
    result  \* what the call returned

vars == <<report, i, stats, result>>

TypeOK ==
    /\ report \in Reports
    /\ i \in 1..Len(report) + 1
    /\ stats \in [StatFields -> Nat \cup {Absent}]
    /\ result \in [StatFields -> Nat] \cup {NoResult, Pending}

Init ==
    /\ report \in Reports
    /\ i = 1
    /\ stats = [f \in StatFields |-> Absent]
    /\ result = Pending

ParseLine ==
    /\ i <= Len(report)
    /\ stats' = ParseLineStats(stats, report[i])
    /\ i' = i + 1
    /\ UNCHANGED <<report, result>>

Return ==
    /\ i > Len(report)
    /\ result = Pending
    /\ result' = StatsResult(stats)
    /\ UNCHANGED <<report, i, stats>>

Next == ParseLine \/ Return

Spec == Init /\ [][Next]_vars

(***************************************************************************)
(* generateSimulatedOutput: the report a simulated run ends with, for the  *)
(* request count, the time in seconds, the throughput and a latency (the   *)
(* percentile lines carry multiples of it; which ones does not matter to   *)
(* the parser).                                                            *)
(***************************************************************************)
SimulatedOutput(requests, seconds, rps, latency) ==
    << << >>,
       << W(Other), W(Other), W(Other) >>,                   \* ===== Results =====
       << W(Other), W("requests:"), Num(requests, NoFrac) >>, \* Total requests: N
       << W(Other), W(Other), seconds, W("seconds") >>,       \* Total time: T seconds
       << W(Other), W(Other), W(Other), Num(rps, NoFrac) >>,  \* Requests per second: R
       << W(Other), W(Other), latency, W(Other) >>,           \* Average latency: A ms
       << >>,
       << W(Other), W(Other) >>,                              \* Latency percentiles:
       << W("p50:"), latency, W(Other) >>,
       << W("p90:"), latency, W(Other) >>,
       << W("p95:"), latency, W(Other) >>,
       << W("p99:"), latency, W(Other) >>,
       << W("p99.9:"), latency, W(Other) >>,
       << >>,
       << W(Other), Num(0, NoFrac) >>,                        \* Errors: 0
       << W(Other) >>,
       << >> >>

\* The report is one generateSimulatedOutput produced (its parameters read
\* back from the lines that carry them).
IsSimulated(rep) ==
    /\ Len(rep) = 17
    /\ Len(rep[3]) = 3 /\ Len(rep[4]) = 4 /\ Len(rep[5]) = 4 /\ Len(rep[6]) = 4
    /\ rep = SimulatedOutput(rep[3][3].whole, rep[4][3], rep[5][4].whole, rep[6][3])

(***************************************************************************)
(* A simulated run's output, which runBenchmark parses into result.stats   *)
(* for the results view, is read as a report, not as "no result".          *)
(***************************************************************************)
SimulatedOutputParsed ==
    result # Pending /\ IsSimulated(report) => result # NoResult

-----------------------------------------------------------------------------
(***************************************************************************)
(* The parser's contract in the specification of the result text parser:  *)
(* the values each field can be read from, wherever a line carries it.     *)
(* "<number> requests" is the count, "<number> requests/sec" the           *)
(* throughput, "avg:"/"pNN:" followed by a number a latency, "<number>     *)
(* errors" the errors and "in <number> seconds" the time.                  *)
(***************************************************************************)
SpecLabel == [avgLatency |-> "avg:", p50Latency |-> "p50:", p90Latency |-> "p90:",
              p95Latency |-> "p95:", p99Latency |-> "p99:", p999Latency |-> "p99.9:"]

SpecPositions(line, f) ==
    CASE f = "totalRequests"     -> NumBefore(line, {W("requests")})
      [] f = "requestsPerSecond" -> NumBefore(line, {W("requests/sec")})
      [] f = "errors"            -> NumBefore(line, {W("errors")})
      [] f = "totalTime"         -> NumBetween(line)
      [] OTHER                   -> NumAfter(line, SpecLabel[f])

SpecValues(rep, f) ==
    UNION {{Decimal(rep[n][k]) : k \in SpecPositions(rep[n], f)} : n \in 1..Len(rep)}

\* A returned field holds a value the report gives it, or 0 when none does.
FromReport(f) ==
    result[f] \in IF SpecValues(report, f) = {} THEN {0} ELSE SpecValues(report, f)

Returned == result \notin {Pending, NoResult}

(***************************************************************************)
(* Every latency, throughput, error and time field of a parsed report was  *)
(* read from the line that labels it: no pattern picks up another field's  *)
(* number (p99 and p99.9, requests and requests/sec), and a field no line  *)
(* mentions is 0.                                                          *)
(***************************************************************************)
FieldsFromReport ==
    Returned => \A f \in StatFields \ {"totalRequests"} : FromReport(f)

(***************************************************************************)
(* The request count of a parsed report is the number written before      *)
(* "requests" (the specification's example: "10000 requests" and          *)
(* "5000.5 requests/sec" give totalRequests = 10000).                      *)
(***************************************************************************)
CountFromReport == Returned => FromReport("totalRequests")
-----------------------------------------------------------------------------
(***************************************************************************)
(* The specification of the parser: "each line is matched independently   *)
(* against every pattern ... the LAST match wins".  For each field, the    *)
(* capture of the last line whose pattern matches, or Absent; the result   *)
(* is then decided from those fields as the code's return does.            *)
(***************************************************************************)
LastOf(S) == CHOOSE k \in S : \A j \in S : j <= k

LastCapture(rep, f) ==
    LET hits == {n \in 1..Len(rep) : Capture(f, rep[n]) # Absent}
    IN  IF hits = {} THEN Absent ELSE Capture(f, rep[LastOf(hits)])

LastMatchResult(rep) ==
    StatsResult([f \in StatFields |-> LastCapture(rep, f)])

Contract == INSTANCE ParseContract WITH Parse <- LastMatchResult

(***************************************************************************)
(* The line-by-line loop of parseBenchmarkOutput implements an atomic      *)
(* parse in which every field is taken from the last line that matches    *)
(* its pattern: the loop's steps are invisible to the caller and its       *)
(* overwrites add up to "last match wins", whatever order the lines come   *)
(* in.                                                                     *)
(***************************************************************************)
ParseIsLastMatch == Contract!Spec
====

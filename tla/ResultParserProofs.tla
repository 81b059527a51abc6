-------------------------- MODULE ResultParserProofs --------------------------
(***************************************************************************)
(* Proofs about parseBenchmarkOutput for every report whose lines are      *)
(* sequences of numbers and words, not only the reports TLC enumerates:    *)
(* the type invariant, and that every throughput, latency, error and time  *)
(* field of a parsed report holds a value a line labels for it, or 0 when  *)
(* no line does.  The loop's state is what makes it inductive: a field set *)
(* so far holds a value of the report, and a field still unset has no     *)
(* labelled value in the lines read so far.  Last, the loop implements   *)
(* the specification's atomic "last match wins" parse (ParseContract).     *)
(***************************************************************************)
EXTENDS ResultParser, SequenceTheorems, WellFoundedInduction, TLAPS

\* The fields whose patterns the specification's contract names exactly.
Checked == StatFields \ {"totalRequests"}

-----------------------------------------------------------------------------
(***************************************************************************)
(* String.match returns the leftmost match: a nonempty set of positions    *)
(* has a least one, which FirstOf picks.                                   *)
(***************************************************************************)
LEMMA NatSetHasLeast ==
    ASSUME NEW S \in SUBSET Nat, S # {}
    PROVE  FirstOf(S) \in S /\ \A j \in S : FirstOf(S) <= j
<1>1. \E x \in S : \A y \in S : ~(<<y, x>> \in OpToRel(<, Nat))
    BY NatLessThanWellFounded, WFMin
<1>2. \E x \in S : \A y \in S : ~(y < x)
    <2>1. \A x, y \in Nat : y < x => <<y, x>> \in OpToRel(<, Nat)
        BY Zenon DEF OpToRel
    <2>. QED
        BY <1>1, <2>1
<1>3. \E x \in S : \A y \in S : x <= y
    BY <1>2
<1>. QED
    BY <1>3 DEF FirstOf

\* A token of a line that is a number is a Number, whose value is natural.
LEMMA NumberValues ==
    ASSUME NEW t \in Number \cup Word, IsNum(t)
    PROVE  /\ t \in Number
           /\ Decimal(t) \in Nat
           /\ TrailingDigits(t) \in Nat
<1>1. t \in Number
    BY DEF IsNum, Number, Word
<1>. QED
    BY <1>1 DEF Number, Decimal, TrailingDigits, Tenths

(***************************************************************************)
(* What the match of one pattern yields: Absent when no position matches,  *)
(* otherwise the value at one of the matching positions.                   *)
(***************************************************************************)
LEMMA AtSound ==
    ASSUME NEW S \in SUBSET Nat, NEW line, NEW c,
           \A k \in S : Decimal(line[k]) \in Nat,
           c = IF S = {} THEN Absent ELSE Decimal(line[FirstOf(S)])
    PROVE  /\ c \in Nat \cup {Absent}
           /\ c # Absent => \E k \in S : c = Decimal(line[k])
           /\ c = Absent => S = {}
<1>1. CASE S = {}
    BY <1>1
<1>2. CASE S # {}
    <2>1. FirstOf(S) \in S
        BY <1>2, NatSetHasLeast
    <2>. QED
        BY <1>2, <2>1, AbsentAssumption
<1>. QED
    BY <1>1, <1>2

-----------------------------------------------------------------------------
(***************************************************************************)
(* One line, one field: the pattern the code uses for f finds exactly the  *)
(* positions the contract names for f, and yields the value at one of     *)
(* them, converted as the contract converts it (an error count has no      *)
(* decimal point, so parseInt of its digits is its value).                 *)
(***************************************************************************)
LEMMA CaptureSound ==
    ASSUME NEW line \in Seq(Number \cup Word), NEW f \in Checked,
           \A k \in 1..Len(line) - 1 :
               IsNum(line[k]) /\ line[k + 1] = W("errors") => line[k].frac = NoFrac
    PROVE  /\ Capture(f, line) \in Nat \cup {Absent}
           /\ Capture(f, line) # Absent
                  => \E k \in SpecPositions(line, f) : Capture(f, line) = Decimal(line[k])
           /\ Capture(f, line) = Absent => SpecPositions(line, f) = {}
<1> DEFINE S == SpecPositions(line, f)
<1>1. S \in SUBSET Nat /\ \A k \in S : IsNum(line[k]) /\ k \in 1..Len(line)
    BY DEF SpecPositions, NumBefore, NumAfter, NumBetween, Checked, StatFields
<1>2. \A k \in S : Decimal(line[k]) \in Nat
    BY <1>1, NumberValues, ElementOfSeq
<1>3. Capture(f, line) = IF S = {} THEN Absent ELSE Decimal(line[FirstOf(S)])
    <2>1. CASE f = "requestsPerSecond"
        BY <2>1 DEF Capture, SpecPositions
    <2>2. CASE f = "totalTime"
        BY <2>2 DEF Capture, SpecPositions
    <2>3. CASE f = "errors"
        <3>1. S = NumBefore(line, {W("errors")})
            BY <2>3 DEF SpecPositions
        <3>2. \A k \in S : line[k].frac = NoFrac
            BY <1>1, <3>1 DEF NumBefore
        <3>3. S # {} => FirstOf(S) \in S
            BY <1>1, NatSetHasLeast
        <3>4. Capture(f, line) = IF S = {} THEN Absent
                                 ELSE TrailingDigits(line[FirstOf(S)])
            BY <2>3, <3>1 DEF Capture
        <3>5. CASE S = {}
            BY <3>4, <3>5
        <3>6. CASE S # {}
            <4>1. line[FirstOf(S)].frac = NoFrac
                BY <3>2, <3>3, <3>6
            <4>2. line[FirstOf(S)] \in Number
                BY <1>1, <3>3, <3>6, NumberValues, ElementOfSeq
            <4>3. line[FirstOf(S)].whole \in Nat
                BY <4>2 DEF Number
            <4>. QED
                BY <3>4, <3>6, <4>1, <4>3 DEF TrailingDigits, Decimal, Tenths
        <3>. QED
            BY <3>5, <3>6
    <2>4. CASE f \in {"avgLatency", "p50Latency", "p90Latency", "p95Latency",
                      "p99Latency", "p999Latency"}
        <3>1. LabelOf[f] = SpecLabel[f]
            BY <2>4 DEF LabelOf, SpecLabel
        <3>. QED
            BY <2>4, <3>1 DEF Capture, SpecPositions
    <2>. QED
        BY <2>1, <2>2, <2>3, <2>4 DEF Checked, StatFields
<1>4. /\ Capture(f, line) \in Nat \cup {Absent}
      /\ Capture(f, line) # Absent => \E k \in S : Capture(f, line) = Decimal(line[k])
      /\ Capture(f, line) = Absent => S = {}
    BY <1>1, <1>2, <1>3, AtSound
<1>. QED
    BY <1>4

(***************************************************************************)
(* Every pattern, the count's included, yields a natural number or Absent. *)
(***************************************************************************)
LEMMA CaptureType ==
    ASSUME NEW line \in Seq(Number \cup Word), NEW f \in StatFields
    PROVE  Capture(f, line) \in Nat \cup {Absent}
<1>1. \A k \in NumBefore(line, RequestsWords) : TrailingDigits(line[k]) \in Nat
    BY NumberValues, ElementOfSeq DEF NumBefore
<1>2. \A k \in NumBefore(line, {W("requests/sec")}) : Decimal(line[k]) \in Nat
    BY NumberValues, ElementOfSeq DEF NumBefore
<1>3. \A k \in NumBefore(line, {W("errors")}) : TrailingDigits(line[k]) \in Nat
    BY NumberValues, ElementOfSeq DEF NumBefore
<1>4. \A k \in NumBetween(line) : Decimal(line[k]) \in Nat
    BY NumberValues, ElementOfSeq DEF NumBetween
<1>5. \A g \in DOMAIN LabelOf :
          \A k \in NumAfter(line, LabelOf[g]) : Decimal(line[k]) \in Nat
    BY NumberValues, ElementOfSeq DEF NumAfter
<1>6. \A T \in SUBSET (1..Len(line)) : T # {} => FirstOf(T) \in T
    BY NatSetHasLeast
<1>7. /\ NumBefore(line, RequestsWords) \subseteq 1..Len(line)
      /\ NumBefore(line, {W("requests/sec")}) \subseteq 1..Len(line)
      /\ NumBefore(line, {W("errors")}) \subseteq 1..Len(line)
      /\ NumBetween(line) \subseteq 1..Len(line)
      /\ \A g \in DOMAIN LabelOf : NumAfter(line, LabelOf[g]) \subseteq 1..Len(line)
    BY DEF NumBefore, NumBetween, NumAfter
<1>8. DOMAIN LabelOf = StatFields \ {"totalRequests", "requestsPerSecond",
                                     "errors", "totalTime"}
    BY DEF LabelOf, StatFields
<1>. QED
    BY <1>1, <1>2, <1>3, <1>4, <1>5, <1>6, <1>7, <1>8 DEF Capture
-----------------------------------------------------------------------------
(***************************************************************************)
(* The loop's state: a field set so far holds a value the report labels    *)
(* for it, and a field still unset has no labelled value in the lines     *)
(* read so far.                                                            *)
(***************************************************************************)
StatsSound ==
    \A f \in Checked :
        /\ stats[f] # Absent => stats[f] \in SpecValues(report, f)
        /\ stats[f] = Absent => \A n \in 1..i - 1 : SpecPositions(report[n], f) = {}

Inv == TypeOK /\ StatsSound /\ FieldsFromReport

\* A line of a report the parser is given, with what the assumptions say of it.
LEMMA LineFacts ==
    ASSUME TypeOK, NEW n \in 1..Len(report)
    PROVE  /\ report[n] \in Seq(Number \cup Word)
           /\ \A k \in 1..Len(report[n]) - 1 :
                  IsNum(report[n][k]) /\ report[n][k + 1] = W("errors")
                  => report[n][k].frac = NoFrac
<1>1. report \in Seq(Seq(Number \cup Word))
    BY ReportsAssumption DEF TypeOK
<1>. QED
    BY <1>1, ElementOfSeq, WholeErrorCounts DEF TypeOK

\* A value at a position the contract names on some line is a value of the report.
LEMMA InSpecValues ==
    ASSUME NEW rep, NEW n \in 1..Len(rep), NEW f, NEW k \in SpecPositions(rep[n], f)
    PROVE  Decimal(rep[n][k]) \in SpecValues(rep, f)
BY DEF SpecValues

\* A report none of whose lines labels a value for f gives f no value.
LEMMA NoSpecValues ==
    ASSUME NEW rep, NEW f, \A n \in 1..Len(rep) : SpecPositions(rep[n], f) = {}
    PROVE  SpecValues(rep, f) = {}
BY DEF SpecValues

LEMMA ParserInit == Init => Inv
<1> SUFFICES ASSUME Init PROVE Inv
    OBVIOUS
<1>1. report \in Seq(Seq(Number \cup Word))
    BY ReportsAssumption DEF Init
<1>2. TypeOK
    BY <1>1 DEF Init, TypeOK
<1>3. StatsSound
    <2>1. \A f \in Checked : stats[f] = Absent
        BY DEF Init, Checked
    <2>2. 1..i - 1 = {}
        BY DEF Init
    <2>. QED
        BY <2>1, <2>2 DEF StatsSound
<1>4. FieldsFromReport
    BY DEF Init, FieldsFromReport, Returned
<1>. QED
    BY <1>2, <1>3, <1>4 DEF Inv

(***************************************************************************)
(* Every step keeps the invariant: a loop iteration sets a field only to   *)
(* a value its line labels for it and leaves it unset only when the line   *)
(* labels none; the return keeps a set field (or 0 for a falsy one) and    *)
(* gives an unset field 0, which is then what the contract asks.           *)
(***************************************************************************)
LEMMA ParserStep == Inv /\ [Next]_vars => Inv'
<1> SUFFICES ASSUME TypeOK, StatsSound, FieldsFromReport, [Next]_vars
             PROVE  Inv'
    BY DEF Inv
<1>1. CASE ParseLine
    <2>1. i \in 1..Len(report)
        BY <1>1 DEF ParseLine, TypeOK
    <2>2. /\ report[i] \in Seq(Number \cup Word)
          /\ \A k \in 1..Len(report[i]) - 1 :
                 IsNum(report[i][k]) /\ report[i][k + 1] = W("errors")
                 => report[i][k].frac = NoFrac
        BY <2>1, LineFacts
    <2>3. TypeOK'
        <3>1. stats' \in [StatFields -> Nat \cup {Absent}]
            BY <1>1, <2>2, CaptureType DEF ParseLine, ParseLineStats, TypeOK
        <3>. QED
            BY <1>1, <2>1, <3>1 DEF ParseLine, TypeOK
    <2>4. StatsSound'
        <3> SUFFICES ASSUME NEW f \in Checked
                     PROVE  /\ stats'[f] # Absent => stats'[f] \in SpecValues(report, f)
                            /\ stats'[f] = Absent
                                   => \A n \in 1..i : SpecPositions(report[n], f) = {}
            BY <1>1, <2>1 DEF StatsSound, ParseLine
        <3>1. stats'[f] = IF Capture(f, report[i]) # Absent THEN Capture(f, report[i])
                          ELSE stats[f]
            BY <1>1 DEF ParseLine, ParseLineStats, Checked
        <3>2. CASE Capture(f, report[i]) # Absent
            <4>1. PICK k \in SpecPositions(report[i], f) :
                      Capture(f, report[i]) = Decimal(report[i][k])
                BY <2>2, <3>2, CaptureSound
            <4>2. Decimal(report[i][k]) \in SpecValues(report, f)
                BY <2>1, InSpecValues
            <4>. QED
                BY <3>1, <3>2, <4>1, <4>2
        <3>3. CASE Capture(f, report[i]) = Absent
            <4>1. SpecPositions(report[i], f) = {}
                BY <2>2, <3>3, CaptureSound
            <4>2. stats'[f] = stats[f]
                BY <3>1, <3>3
            <4>3. \A n \in 1..i : n \in 1..i - 1 \/ n = i
                BY <2>1
            <4>. QED
                BY <4>1, <4>2, <4>3 DEF StatsSound
        <3>. QED
            BY <3>2, <3>3
    <2>5. FieldsFromReport'
        BY <1>1 DEF ParseLine, FieldsFromReport, Returned, FromReport
    <2>. QED
        BY <2>3, <2>4, <2>5 DEF Inv
<1>2. CASE Return
    <2>1. i = Len(report) + 1
        BY <1>2 DEF Return, TypeOK
    <2>2. TypeOK'
        <3>1. StatsResult(stats) \in [StatFields -> Nat] \cup {NoResult}
            BY AbsentAssumption DEF StatsResult, Truthy, TypeOK
        <3>. QED
            BY <1>2, <3>1 DEF Return, TypeOK
    <2>3. StatsSound'
        BY <1>2 DEF Return, StatsSound
    <2>4. FieldsFromReport'
        <3> SUFFICES ASSUME result' \notin {Pending, NoResult}, NEW f \in Checked
                     PROVE  result'[f] \in IF SpecValues(report, f) = {} THEN {0}
                                           ELSE SpecValues(report, f)
            BY <1>2 DEF FieldsFromReport, Returned, FromReport, Return, Checked
        <3>1. result'[f] = IF Truthy(stats[f]) THEN stats[f] ELSE 0
            BY <1>2 DEF Return, StatsResult, Checked
        <3>2. CASE stats[f] = Absent
            <4>1. SpecValues(report, f) = {}
                BY <2>1, <3>2, NoSpecValues DEF StatsSound
            <4>2. result'[f] = 0
                BY <3>1, <3>2 DEF Truthy
            <4>. QED
                BY <4>1, <4>2
        <3>3. CASE stats[f] # Absent
            <4>1. stats[f] \in SpecValues(report, f)
                BY <3>3 DEF StatsSound
            <4>2. result'[f] = stats[f] \/ (result'[f] = 0 /\ stats[f] = 0)
                BY <3>1, <3>3 DEF Truthy
            <4>. QED
                BY <4>1, <4>2
        <3>. QED
            BY <3>2, <3>3
    <2>. QED
        BY <2>2, <2>3, <2>4 DEF Inv
<1>3. CASE UNCHANGED vars
    BY <1>3 DEF vars, Inv, TypeOK, StatsSound, FieldsFromReport, Returned, FromReport
<1>. QED
    BY <1>1, <1>2, <1>3 DEF Next

-----------------------------------------------------------------------------
(***************************************************************************)
(* parseBenchmarkOutput's loop keeps its position within the lines and     *)
(* every field a natural number or undefined, and the call returns a       *)
(* record of natural numbers or null, for every report of numbers and      *)
(* words.                                                                  *)
(***************************************************************************)
THEOREM ParserTypeCorrect == Spec => []TypeOK
<1>1. Inv => TypeOK
    BY DEF Inv
<1>. QED
    BY <1>1, ParserInit, ParserStep, PTL DEF Spec

(***************************************************************************)
(* For every report (of integer error counts), every throughput, latency,  *)
(* error and time field parseBenchmarkOutput returns was read from a line  *)
(* that labels it, or is 0 when no line does: no pattern picks up the     *)
(* number of another label, p99 next to p99.9 and requests/sec included.   *)
(***************************************************************************)
THEOREM FieldsFromReportProved == Spec => []FieldsFromReport
<1>1. Inv => FieldsFromReport
    BY DEF Inv
<1>. QED
    BY <1>1, ParserInit, ParserStep, PTL DEF Spec
(***************************************************************************)
(* At every point of parseBenchmarkOutput's loop, a set field holds a      *)
(* value that a line of the report labels for it, and a field still        *)
(* undefined has no label in any line read so far: the partial stats      *)
(* never hold another field's number.                                      *)
(***************************************************************************)
THEOREM StatsSoundInvariant == Spec => []StatsSound
<1>1. Inv => StatsSound
    BY DEF Inv
<1>. QED
    BY <1>1, ParserInit, ParserStep, PTL DEF Spec

-----------------------------------------------------------------------------
(***************************************************************************)
(* Refinement of the parser's contract.  After the loop has read lines     *)
(* 1..i-1, each field holds the capture of the last of those lines whose   *)
(* pattern matches it, or Absent when none does: the overwrite in the loop *)
(* body makes line i the new last match whenever it matches.              *)
(***************************************************************************)
Hits(f, m) == {n \in 1..m : Capture(f, report[n]) # Absent}

StatsAreLastMatch ==
    \A f \in StatFields :
        stats[f] = IF Hits(f, i - 1) = {} THEN Absent
                   ELSE Capture(f, report[LastOf(Hits(f, i - 1))])

\* The last element of a set of numbers is its greatest one.
LEMMA LastOfGreatest ==
    ASSUME NEW S \in SUBSET Int, NEW m \in S, \A j \in S : j <= m
    PROVE  LastOf(S) = m
<1>1. /\ LastOf(S) \in S
      /\ \A j \in S : j <= LastOf(S)
    BY DEF LastOf
<1>2. LastOf(S) \in Int /\ LastOf(S) <= m /\ m <= LastOf(S)
    BY <1>1
<1>. QED
    BY <1>2

LEMMA LastMatchInit == Init => StatsAreLastMatch
BY DEF Init, StatsAreLastMatch, Hits

LEMMA LastMatchStep ==
    TypeOK /\ StatsAreLastMatch /\ [Next]_vars => StatsAreLastMatch'
<1> SUFFICES ASSUME TypeOK, StatsAreLastMatch, [Next]_vars
             PROVE  StatsAreLastMatch'
    OBVIOUS
<1>1. CASE ParseLine
    <2>1. i \in 1..Len(report) /\ i' = i + 1 /\ report' = report
        BY <1>1 DEF ParseLine, TypeOK
    <2> SUFFICES ASSUME NEW f \in StatFields
                 PROVE  stats'[f] = IF Hits(f, i) = {} THEN Absent
                                    ELSE Capture(f, report[LastOf(Hits(f, i))])
        BY <2>1 DEF StatsAreLastMatch, Hits
    <2>2. stats'[f] = IF Capture(f, report[i]) # Absent THEN Capture(f, report[i])
                      ELSE stats[f]
        BY <1>1 DEF ParseLine, ParseLineStats
    <2>3. CASE Capture(f, report[i]) # Absent
        <3>1. i \in Hits(f, i) /\ \A j \in Hits(f, i) : j <= i
            BY <2>1, <2>3 DEF Hits
        <3>2. LastOf(Hits(f, i)) = i
            BY <3>1, LastOfGreatest DEF Hits
        <3>. QED
            BY <2>2, <2>3, <3>1, <3>2
    <2>4. CASE Capture(f, report[i]) = Absent
        <3>1. Hits(f, i) = Hits(f, i - 1)
            BY <2>1, <2>4 DEF Hits
        <3>. QED
            BY <2>2, <2>4, <3>1 DEF StatsAreLastMatch
    <2>. QED
        BY <2>3, <2>4
<1>2. CASE Return
    BY <1>2 DEF Return, StatsAreLastMatch, Hits
<1>3. CASE UNCHANGED vars
    BY <1>3 DEF vars, StatsAreLastMatch, Hits
<1>. QED
    BY <1>1, <1>2, <1>3 DEF Next

(***************************************************************************)
(* parseBenchmarkOutput implements its contract: its loop's steps are      *)
(* stutters of the atomic parse, and its return gives, for every report,   *)
(* the value of the specification's "last match wins" reading of it.      *)
(***************************************************************************)
THEOREM ParseRefinesContract == Spec => ParseIsLastMatch
<1> DEFINE RInv == Inv /\ StatsAreLastMatch
<1>1. Init => RInv
    BY ParserInit, LastMatchInit DEF Inv
<1>2. RInv /\ [Next]_vars => RInv'
    BY ParserStep, LastMatchStep DEF Inv
<1>3. Init => Contract!Init
    BY DEF Init, Contract!Init
<1>4. RInv /\ [Next]_vars => [Contract!Return]_<<report, result>>
    <2> SUFFICES ASSUME RInv, [Next]_vars
                 PROVE  [Contract!Return]_<<report, result>>
        OBVIOUS
    <2>1. CASE ParseLine
        BY <2>1 DEF ParseLine
    <2>2. CASE Return
        <3>1. i - 1 = Len(report)
            BY <2>2 DEF Return, Inv, TypeOK
        <3>2. stats = [f \in StatFields |-> LastCapture(report, f)]
            BY <3>1 DEF Inv, TypeOK, StatsAreLastMatch, Hits, LastCapture
        <3>. QED
            BY <2>2, <3>2 DEF Return, Contract!Return, LastMatchResult
    <2>3. CASE UNCHANGED vars
        BY <2>3 DEF vars
    <2>. QED
        BY <2>1, <2>2, <2>3 DEF Next
<1>. QED
    BY <1>1, <1>2, <1>3, <1>4, PTL DEF Spec, ParseIsLastMatch, Contract!Spec
=============================================================================

---------------------------- MODULE ParseContract ----------------------------
(***************************************************************************)
(* What parseBenchmarkOutput promises its callers: given a report, it      *)
(* returns once, in one step, the value Parse gives the whole report.  No  *)
(* caller can see a partly filled record.  The operator Parse is supplied  *)
(* by the instantiating module.                                            *)
(***************************************************************************)
CONSTANTS
    Reports,    \* the texts the parser may be given
    Pending,    \* the call has not returned yet
    Parse(_)    \* the value the call returns for a report

VARIABLES
    report,     \* the text given to the call
    result      \* what the call returned, or Pending

Init ==
    /\ report \in Reports
    /\ result = Pending

Return ==
    /\ result = Pending
    /\ result' = Parse(report)
    /\ UNCHANGED report

Spec == Init /\ [][Return]_<<report, result>>
=============================================================================

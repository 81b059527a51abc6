---------------------------- MODULE ResultHistory ----------------------------
(***************************************************************************)
(* What the result history promises: a list of result ids, newest first,   *)
(* changed only by atomic operations.  Saving a result puts it in front    *)
(* and keeps at most a configured number of entries; clearing empties the *)
(* list.  Whatever else happens between two saves, neither loses what the  *)
(* other one did.                                                          *)
(***************************************************************************)
EXTENDS Naturals, Sequences

CONSTANTS
    Ids,        \* the result ids
    Limits      \* the maxima a save may trim the list to (positive)

VARIABLE history

\* The first m entries of s, or all of them when there are fewer.
KeepFirst(s, m) == SubSeq(s, 1, IF m < Len(s) THEN m ELSE Len(s))

Init == history = << >>

Save(id, m) == history' = KeepFirst(<<id>> \o history, m)

Clear == history' = << >>

Next ==
    \/ \E id \in Ids, m \in Limits : Save(id, m)
    \/ Clear

Spec == Init /\ [][Next]_history
=============================================================================

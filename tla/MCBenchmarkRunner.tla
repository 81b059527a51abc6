------------------------- MODULE MCBenchmarkRunner -------------------------
(***************************************************************************)
(* Small instances of BenchmarkRunner for TLC.  The benchmark ids are      *)
(* model values fixed in the .cfg files; the other constants are set here. *)
(***************************************************************************)
EXTENDS BenchmarkRunner, TLC

\* The ids are interchangeable: nothing in the runner orders them.
BenchmarkSymmetry == Permutations(Benchmarks)

\* Two progress steps stand for the ten of the code: the first broadcasts a
\* running status, the last one races the completion.
MCTotalSteps == 2

\* A default of 2 lets three saves trim the history.
MCDefaultMaxStored == 2

\* 0 stands for a cleared input (NaN, stored as null); 1 trims to one entry.
MCMaxStoredChoices == {0, 1}

\* With a negative value typed into the options page.
MCMaxStoredChoicesNegative == {-1}

\* No value that trims below the number of benchmarks.
MCMaxStoredChoicesNoTrim == {0}
=============================================================================

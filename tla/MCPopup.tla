------------------------------- MODULE MCPopup -------------------------------
(***************************************************************************)
(* Small instances of Popup for TLC, with the runner's constants of       *)
(* MCBenchmarkRunner; the sentinels and the popup bound are set in the   *)
(* cfg.                                                                    *)
(***************************************************************************)
EXTENDS Popup, MCBenchmarkRunner
=============================================================================

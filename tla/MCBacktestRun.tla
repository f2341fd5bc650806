---------------------------- MODULE MCBacktestRun ----------------------------
(***************************************************************************)
(* BacktestRun with data that is filled in while the run is stopped.       *)
(***************************************************************************)
EXTENDS BacktestRun

EnterAndExit == {[carried |-> "stay", enter |-> "win"]}
=============================================================================

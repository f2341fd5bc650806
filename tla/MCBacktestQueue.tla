--------------------------- MODULE MCBacktestQueue ---------------------------
(***************************************************************************)
(* The backtests: the slot with its requests (BacktestQueue), and what the *)
(* task in the slot does (BacktestRun).  view, which never changes, says   *)
(* which of them a behaviour is about; the other is parked.                *)
(*                                                                         *)
(* BacktestQueue: two requests under way are enough for one to overtake    *)
(* the other or the task between its look and its act; two rows are the    *)
(* run that holds the slot and the one that waits.  Runs may be resumed    *)
(* and handed the slot any number of times.                                *)
(*                                                                         *)
(* BacktestRun: four kinds of a day are enough for a trade that rides one  *)
(* night or two and ends in a win, a loss or off the frame, and for days   *)
(* that enter and exit; the last day may have rows that pass the preflight *)
(* and give no frame.                                                      *)
(***************************************************************************)
EXTENDS BacktestQueue

CONSTANTS LastDay, Scripts, ThinDays, CarryPauses, Faults, MaxStops \* of BacktestRun

VARIABLES view, data, script, carryPause, row, days, trades, task, stops

Run == INSTANCE BacktestRun WITH status <- row

runVars == <<data, script, carryPause, row, days, trades, task, stops>>

FourKinds ==
    {[carried |-> "loss", enter |-> "open"], [carried |-> "win",  enter |-> "win"],
     [carried |-> "stay", enter |-> "loss"], [carried |-> "off",  enter |-> "none"]}

RunParked ==
    /\ Run!Init
    /\ script = [d \in Run!Days |-> [carried |-> "off", enter |-> "none"]]
    /\ data = [d \in Run!Days |-> "none"]

MCInit ==
    \/ view = "queue" /\ Init /\ RunParked
    \/ view = "run" /\ Init /\ Run!Init

MCNext ==
    /\ UNCHANGED view
    /\ \/ view = "queue" /\ Next /\ UNCHANGED runVars
       \/ view = "run" /\ Run!Next /\ UNCHANGED vars

MCSpec == MCInit /\ [][MCNext]_<<view, vars, runVars>> /\ Fairness

ResumedIsUninterrupted == Run!ResumedIsUninterrupted
=============================================================================

--------------------------- MODULE MCOrchestrator ---------------------------
(***************************************************************************)
(* Two machines that look after a trade, one run: view, which never        *)
(* changes, says which of them a behaviour is about; the other one rests.  *)
(*                                                                         *)
(* Orchestrator, in two views: two ledger rows are the trade at hand and   *)
(* the one before or after it.  In "twins", shadow mode is on and the      *)
(* engine is not restarted: a restart forgets which row is a twin, and     *)
(* adopts it.                                                              *)
(*                                                                         *)
(* UmpEngine: one zone of sixteen points, 8 to 24, whose lines are 8, 10   *)
(* and 12 and whose upper end begins at 20.  The prices are one below      *)
(* base, one in each part of the zone, one above its upper half (past the  *)
(* bottom of the next zone too) and the next level itself, so that every   *)
(* kind of entry and of exit happens.                                      *)
(***************************************************************************)
EXTENDS Orchestrator

\* Of UmpEngine.
CONSTANTS UmpPrices, LevelSets, Medians, Half, Stop, Tf, Timeout, Enabled, EntryHigh, OneWick

VARIABLES view, eng

Twins == INSTANCE Orchestrator WITH Shadow <- TRUE, Faults <- {"db"}

Ump == INSTANCE UmpEngine WITH Prices <- UmpPrices

MCInit ==
    /\ Init
    /\ \/ view \in {"restarts", "twins"} /\ eng = [pos |-> [open |-> FALSE]]
       \/ /\ view = "engine" /\ Ump!Init
          /\ side = "BUY" /\ cfg = [mode |-> "paper", kill |-> FALSE]

MCNext ==
    /\ UNCHANGED view
    /\ \/ view = "restarts" /\ Next /\ UNCHANGED eng
       \/ view = "twins" /\ Twins!Next /\ UNCHANGED eng
       \/ view = "engine" /\ Ump!Next /\ UNCHANGED vars

MCSpec == MCInit /\ [][MCNext]_<<view, eng, vars>>

ExitEndsCandle == Ump!ExitEndsCandle
TrailIsHonest  == Ump!TrailIsHonest
NoCloseIsLost  == Ump!NoCloseIsLost
=============================================================================

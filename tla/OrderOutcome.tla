---------------------------- MODULE OrderOutcome ----------------------------
(***************************************************************************)
(* What the orchestrator may rely on when it routes one LIVE order: the    *)
(* contract of execute_entry / execute_exit                                *)
(* (backend/app/algo/broker/execution.py), without the gateway, the        *)
(* session and the polling behind it.                                      *)
(*                                                                         *)
(* A call sends at most one order.  While the order is "open" it can still *)
(* execute, also after the call has returned: "assumed" and "unknown" say  *)
(* exactly that.  What a caller may conclude from the result is narrow:    *)
(* "filled" means executed, and a refused BUY means nothing was, or ever   *)
(* will be, bought.  A refused SELL says nothing: the caller keeps the     *)
(* position and retries.                                                   *)
(***************************************************************************)
EXTENDS Integers

CONSTANT MaxOpen    \* bound: unsettled orders per side; one lot more is held

VARIABLES
    phase,      \* "idle" | "busy": is a call running?
    side,       \* "BUY" | "SELL": the side of the latest call
    fate,       \* "open" | "executed" | "void": the latest call's order
    result,     \* what the latest call returned, "none" while it runs
    holding,    \* the broker's net quantity of our contract, in lots
    late        \* orders of EARLIER calls that can still execute, per side

vars == <<phase, side, fate, result, holding, late>>

Sides   == {"BUY", "SELL"}
Results == {"filled", "assumed", "refused", "unknown"}

\* The broker's holding after one order of side s executed.
Executed(s) == IF s = "BUY" THEN holding + 1 ELSE holding - 1

\* External: a sell beyond what is held is rejected by the broker, as the
\* comment in execute_exit states.
Executable(s) == s = "BUY" \/ holding > 0

Init ==
    /\ phase = "idle"
    /\ side = "BUY"
    /\ fate = "void"
    /\ result = "none"
    /\ holding = 0
    /\ late = [s \in Sides |-> 0]

Begin(s) ==
    /\ phase = "idle"
    /\ fate = "open" => late[side] < MaxOpen
    /\ s = "BUY" => holding + late["BUY"] <= MaxOpen
    /\ phase' = "busy"
    /\ side' = s
    /\ fate' = "open"
    /\ result' = "none"
    /\ late' = IF fate = "open" THEN [late EXCEPT ![side] = @ + 1] ELSE late
    /\ UNCHANGED holding

Execute ==
    /\ fate = "open"
    /\ Executable(side)
    /\ fate' = "executed"
    /\ holding' = Executed(side)
    /\ UNCHANGED <<phase, side, result, late>>

Void ==
    /\ fate = "open"
    /\ fate' = "void"
    /\ UNCHANGED <<phase, side, result, holding, late>>

ExecuteLate(s) ==
    /\ late[s] > 0
    /\ Executable(s)
    /\ late' = [late EXCEPT ![s] = @ - 1]
    /\ holding' = Executed(s)
    /\ UNCHANGED <<phase, side, fate, result>>

VoidLate(s) ==
    /\ late[s] > 0
    /\ late' = [late EXCEPT ![s] = @ - 1]
    /\ UNCHANGED <<phase, side, fate, result, holding>>

\* A call may return an order that was never placed: its fate turns void.
Return(r) ==
    /\ phase = "busy"
    /\ phase' = "idle"
    /\ result' = r
    /\ \/ fate' = fate
       \/ fate = "open" /\ fate' = "void"
    /\ r = "filled" => fate = "executed"
    /\ r = "refused" /\ side = "BUY" => fate' = "void"
    /\ r = "unknown" => side = "BUY"
    /\ UNCHANGED <<side, holding, late>>

\* The caller's process dies: nobody receives the result, and an order that
\* had not been placed never will be.
Abandon ==
    /\ phase' = "idle"
    /\ result' = "none"
    /\ \/ fate' = fate
       \/ fate = "open" /\ phase = "busy" /\ fate' = "void"
    /\ UNCHANGED <<side, holding, late>>

Next ==
    \/ \E s \in Sides : Begin(s) \/ ExecuteLate(s) \/ VoidLate(s)
    \/ Execute
    \/ Void
    \/ \E r \in Results : Return(r)
    \/ Abandon

Spec == Init /\ [][Next]_vars
=============================================================================

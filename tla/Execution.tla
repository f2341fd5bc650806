----------------------------- MODULE Execution ------------------------------
(***************************************************************************)
(* One LIVE order through execute_entry / execute_exit                     *)
(* (backend/app/algo/broker/execution.py) and the XTS Interactive client   *)
(* (backend/app/algo/broker/xts_interactive.py): resolve the instrument,   *)
(* place the market order, recover a missing order id from the book, poll  *)
(* for the fill.  Each REST request can be lost, can be rejected for its   *)
(* token (ONE re-login, then once more), or can be answered with an error. *)
(*                                                                         *)
(* Calls do not overlap: the orchestrator's _pass_lock holds the caller.   *)
(* The broker works concurrently: a placed order fills or is rejected at   *)
(* any moment, also after the call has returned.                           *)
(***************************************************************************)
EXTENDS Integers

CONSTANTS
    PollAttempts,   \* _ORDER_POLL_ATTEMPTS, status reads before giving up
    StatusErrors,   \* may the gateway answer a STATUS request with an error
                    \* (HTTP error, error body, refused re-login)?
    MaxOpen         \* bound: unsettled orders per side; one lot more is held

ASSUME PollAttemptsAssumption == PollAttempts \in Nat \ {0}
ASSUME StatusErrorsAssumption == StatusErrors \in BOOLEAN
ASSUME MaxOpenAssumption      == MaxOpen \in Nat

VARIABLES
    pc,         \* "idle" | "resolve" | "login" | "send"
    side,       \* "BUY" (execute_entry) | "SELL" (execute_exit)
    req,        \* the request _authed is working on: "order"|"book"|"status"
    relogins,   \* re-logins this request has used, at most one
    token,      \* the client's token: "none", "live", or "dead" at the gateway
    polls,      \* status reads of this call
    order,      \* this call's order at the broker
    placed,     \* orders of this call that reached the broker
    result,     \* what the latest call returned, "none" while it runs
    holding,    \* the broker's net quantity of our contract, in lots
    late        \* orders of EARLIER calls the broker still works on, per side

vars == <<pc, side, req, relogins, token, polls, order, placed, result,
          holding, late>>
callVars   == <<side, polls, placed>>
brokerVars == <<holding, late>>

Sides == {"BUY", "SELL"}

TypeOK ==
    /\ pc \in {"idle", "resolve", "login", "send"}
    /\ side \in Sides
    /\ req \in {"order", "book", "status"}
    /\ relogins \in 0 .. 1
    /\ token \in {"none", "live", "dead"}
    /\ polls \in 0 .. PollAttempts
    /\ order \in {"none", "pending", "filled", "rejected"}
    /\ placed \in Nat
    /\ result \in {"none", "filled", "assumed", "refused", "unknown"}
    /\ holding \in Int
    /\ late \in [Sides -> Nat]

Init ==
    /\ pc = "idle"
    /\ side = "BUY"
    /\ req = "order"
    /\ relogins = 0
    /\ token = "none"
    /\ polls = 0
    /\ order = "none"
    /\ placed = 0
    /\ result = "none"
    /\ holding = 0
    /\ late = [s \in Sides |-> 0]

-----------------------------------------------------------------------------
(* How a request's failure becomes the call's result. *)

\* XtsInteractiveError, raised from the request at hand.
OnError == IF req = "book" THEN (IF side = "BUY" THEN "unknown" ELSE "refused")
                           ELSE "refused"

\* Mutant of OnTransport: an unanswered placement counts as a refusal, the
\* behaviour the comment in _default_transport says was fixed.
TransportIsRefusal == IF req = "status" THEN "assumed" ELSE "refused"

\* XtsTransportError: an unanswered placement pauses an entry and is retried
\* for an exit; an unanswered status read is taken for a fill.
OnTransport == IF req = "status" THEN "assumed"
               ELSE IF side = "BUY" THEN "unknown"
               ELSE "refused"

Return(r) ==
    /\ pc' = "idle"
    /\ result' = r

\* An error answer is always possible for a placement; for a status read it
\* is the environment assumption the constant names.
ErrorPossible == req = "status" => StatusErrors

-----------------------------------------------------------------------------
(* The call *)

Begin(s) ==
    /\ pc = "idle"
    /\ order = "pending" => late[side] < MaxOpen
    /\ s = "BUY" => holding + late["BUY"] <= MaxOpen
    /\ pc' = "resolve"
    /\ side' = s
    /\ req' = "order"
    /\ relogins' = 0
    /\ polls' = 0
    /\ order' = "none"
    /\ placed' = 0
    /\ result' = "none"
    /\ late' = IF order = "pending" THEN [late EXCEPT ![side] = @ + 1] ELSE late
    /\ UNCHANGED <<token, holding>>

\* The instrument resolves, or (also: the client is not configured) the call
\* ends before anything was sent.
Resolve ==
    /\ pc = "resolve"
    /\ \/ pc' = "send" /\ UNCHANGED result
       \/ Return("refused")
    /\ UNCHANGED <<req, relogins, token, order, callVars, brokerVars>>

\* _authed logs in first when it holds no token.
NeedsLogin ==
    /\ pc = "send"
    /\ token = "none"
    /\ pc' = "login"
    /\ UNCHANGED <<req, relogins, token, order, result, callVars, brokerVars>>

Login ==
    /\ pc = "login"
    /\ \/ pc' = "send" /\ token' = "live" /\ UNCHANGED result
       \/ ErrorPossible /\ Return(OnError) /\ UNCHANGED token
       \/ Return(OnTransport) /\ UNCHANGED token
    /\ UNCHANGED <<req, relogins, order, callVars, brokerVars>>

\* Mutant of TokenRejected: every rejection re-logs in, with no bound.
RelogsWithoutBound ==
    /\ pc = "send"
    /\ token = "dead"
    /\ token' = "none"
    /\ pc' = "login"
    /\ UNCHANGED <<relogins, req, order, result, callVars, brokerVars>>

\* A dead token is rejected before the request is executed: one re-login.
TokenRejected ==
    /\ pc = "send"
    /\ token = "dead"
    /\ \/ /\ relogins = 0
          /\ relogins' = 1
          /\ token' = "none"
          /\ pc' = "login"
          /\ UNCHANGED result
       \/ /\ relogins = 1
          /\ ErrorPossible
          /\ Return(OnError)
          /\ UNCHANGED <<token, relogins>>
    /\ UNCHANGED <<req, order, callVars, brokerVars>>

\* A request that gets no answer and had no effect at the broker.
RequestLost ==
    /\ pc = "send"
    /\ token # "none"
    /\ Return(OnTransport)
    /\ UNCHANGED <<req, relogins, token, order, callVars, brokerVars>>

\* A definitive error answer.
RequestRefused ==
    /\ pc = "send"
    /\ token = "live"
    /\ ErrorPossible
    /\ Return(OnError)
    /\ UNCHANGED <<req, relogins, token, order, callVars, brokerVars>>

\* Mutant of PlaceOrder: a placement whose answer is lost is sent again.
ResendsLostPlacement ==
    /\ pc = "send"
    /\ token = "live"
    /\ req = "order"
    /\ order' = "pending"
    /\ placed' = IF placed = 2 THEN 2 ELSE placed + 1
    /\ req' \in {"status", "order"}
    /\ relogins' = 0
    /\ UNCHANGED <<pc, result, side, token, polls, brokerVars>>

\* The order reaches the broker; the answer carries its id, carries none, or
\* is lost on the way back.
PlaceOrder ==
    /\ pc = "send"
    /\ token = "live"
    /\ req = "order"
    /\ order' = "pending"
    /\ placed' = placed + 1
    /\ \/ /\ req' \in {"status", "book"}
          /\ relogins' = 0
          /\ UNCHANGED <<pc, result>>
       \/ /\ Return(OnTransport)
          /\ UNCHANGED <<req, relogins>>
    /\ UNCHANGED <<side, token, polls, brokerVars>>

\* The order book knows the order by the unique tag it was sent with, or not.
LookUpOrder ==
    /\ pc = "send"
    /\ token = "live"
    /\ req = "book"
    /\ \/ req' = "status" /\ relogins' = 0 /\ UNCHANGED <<pc, result>>
       \/ Return(OnError) /\ UNCHANGED <<req, relogins>>
    /\ UNCHANGED <<token, order, callVars, brokerVars>>

\* Mutant of PollStatus: an order still pending at the end counts as filled.
PendingIsFilled ==
    /\ pc = "send"
    /\ token = "live"
    /\ req = "status"
    /\ polls' = polls + 1
    /\ \/ order = "filled"   /\ Return("filled")
       \/ order = "rejected" /\ Return("refused")
       \/ /\ order = "pending"
          /\ IF polls' = PollAttempts THEN Return("filled")
                                      ELSE UNCHANGED <<pc, result>>
    /\ relogins' = 0
    /\ UNCHANGED <<side, req, token, order, placed, brokerVars>>

\* await_fill reads the order's state; a still pending order is polled again
\* until the attempts are spent, then assumed to fill.
PollStatus ==
    /\ pc = "send"
    /\ token = "live"
    /\ req = "status"
    /\ polls' = polls + 1
    /\ \/ order = "filled"   /\ Return("filled")
       \/ order = "rejected" /\ Return("refused")
       \/ /\ order = "pending"
          /\ IF polls' = PollAttempts THEN Return("assumed")
                                      ELSE UNCHANGED <<pc, result>>
    /\ relogins' = 0
    /\ UNCHANGED <<side, req, token, order, placed, brokerVars>>

\* The backend process dies and restarts: the call and the client's token are
\* gone, the order is not.
Crash ==
    /\ pc' = "idle"
    /\ token' = "none"
    /\ result' = "none"
    /\ UNCHANGED <<req, relogins, order, callVars, brokerVars>>

-----------------------------------------------------------------------------
(* The gateway and the broker (external) *)

TokenDies ==
    /\ token = "live"
    /\ token' = "dead"
    /\ UNCHANGED <<pc, req, relogins, order, result, callVars, brokerVars>>

After(s) == IF s = "BUY" THEN holding + 1 ELSE holding - 1

\* A sell beyond what is held is rejected (the comment in execute_exit).
Executable(s) == s = "BUY" \/ holding > 0

BrokerFills ==
    /\ order = "pending"
    /\ Executable(side)
    /\ order' = "filled"
    /\ holding' = After(side)
    /\ UNCHANGED <<pc, req, relogins, token, result, late, callVars>>

BrokerRejects ==
    /\ order = "pending"
    /\ order' = "rejected"
    /\ UNCHANGED <<pc, req, relogins, token, result, callVars, brokerVars>>

BrokerFillsLate(s) ==
    /\ late[s] > 0
    /\ Executable(s)
    /\ late' = [late EXCEPT ![s] = @ - 1]
    /\ holding' = After(s)
    /\ UNCHANGED <<pc, req, relogins, token, order, result, callVars>>

BrokerRejectsLate(s) ==
    /\ late[s] > 0
    /\ late' = [late EXCEPT ![s] = @ - 1]
    /\ UNCHANGED <<pc, req, relogins, token, order, result, holding, callVars>>

-----------------------------------------------------------------------------
CallStep ==
    \/ Resolve \/ NeedsLogin \/ Login \/ TokenRejected
    \/ RequestLost \/ RequestRefused
    \/ PlaceOrder \/ LookUpOrder \/ PollStatus

Next ==
    \/ \E s \in Sides : Begin(s) \/ BrokerFillsLate(s) \/ BrokerRejectsLate(s)
    \/ CallStep
    \/ Crash
    \/ TokenDies \/ BrokerFills \/ BrokerRejects

Spec == Init /\ [][Next]_vars

\* Every request carries a timeout, so a running call always takes its next
\* step.  Nothing is assumed of the broker.
FairSpec == Spec /\ WF_vars(CallStep)

-----------------------------------------------------------------------------
(* What the caller builds on *)

\* "None = refused": a refused BUY did not and will not execute, whatever
\* happened between the placement and the answer.  The orchestrator buys
\* again next minute on the strength of it.
RefusedBuyIsFlat ==
    pc = "idle" /\ side = "BUY" /\ result = "refused" =>
        order \notin {"pending", "filled"}

\* A call sends at most one order, however often the session is re-opened
\* and the request repeated on the way.
OneOrderPerCall == placed <= 1

\* The results and the broker's holding are those of the contract the
\* orchestrator is written against.
Contract == INSTANCE OrderOutcome WITH
    phase <- IF pc = "idle" THEN "idle" ELSE "busy",
    fate  <- CASE order = "filled" -> "executed"
               [] order = "rejected" \/ (pc = "idle" /\ order = "none") -> "void"
               [] OTHER -> "open"

MeetsContract == Contract!Spec

\* A call ends: however often the token dies, the one re-login per request
\* and the poll budget bound it.
CallReturns == pc # "idle" ~> pc = "idle"
=============================================================================

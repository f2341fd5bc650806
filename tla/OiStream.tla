------------------------------ MODULE OiStream -------------------------------
(***************************************************************************)
(* The dashboard's stream of one client: the hub that recomputes and fans  *)
(* out on every flush (ws/hub.py), the route that sends the first          *)
(* snapshot, answers "set:" in place and drains the client's queue         *)
(* (ws/oi_stream.py), and the reads of the two engines they share          *)
(* (services/oi_change.py, services/option_chain_full.py).  The worker     *)
(* that calls the hub, one flush at a time and the newest first, is        *)
(* Publish of TickStore.                                                   *)
(*                                                                         *)
(* A filter is a symbol and a timeframe.  A message is what it was         *)
(* computed for, the newest row it is of, and the symbol its spot is of.   *)
(***************************************************************************)
EXTENDS Integers, Sequences

CONSTANTS
    Symbols,    \* two symbols or more
    Timeframes, \* timeframes that are asked for
    QMax,       \* maxsize of Subscriber.queue
    MaxRows,    \* bound: buckets written per symbol
    MaxSets,    \* bound: "set:" messages
    MaxSwitches \* bound: switches of the active symbol, and reads that fail

VARIABLES
    active,  \* rt.active_symbol, whose rows and spot are live
    rows,    \* the newest bucket of each symbol in the database
    pending, \* a flush waits for the hub
    sub,     \* the subscriber's filter
    queue,   \* and its queue
    hub,     \* the hub's pass over the subscribers
    route,   \* the client's route
    shown,   \* what the client shows of each kind
    sets,
    switches

vars == <<active, rows, pending, sub, queue, hub, route, shown, sets, switches>>

Kinds == {"oi", "chain"}
Filters == [sym : Symbols, tf : Timeframes]
Messages == [f : Filters, v : -1 .. MaxRows, spot : Symbols]
Calls == [at : {"idle", "others", "first", "called", "reading"}, kind : Kinds, f : Filters,
          v : 0 .. MaxRows, spot : Symbols, direct : BOOLEAN]

NoCall == [at |-> "idle", kind |-> "oi", f |-> CHOOSE f \in Filters : TRUE, v |-> 0,
           spot |-> CHOOSE s \in Symbols : TRUE, direct |-> FALSE]
Message(c) == [f |-> c.f, v |-> c.v, spot |-> c.spot]
Blank == [Message(NoCall) EXCEPT !.v = -1]

TypeOK ==
    /\ active \in Symbols /\ rows \in [Symbols -> 0 .. MaxRows] /\ pending \in BOOLEAN
    /\ sub \in Filters /\ Len(queue) <= QMax
    /\ \A i \in DOMAIN queue : queue[i].kind \in Kinds /\ queue[i].msg \in Messages
    /\ {hub, route} \subseteq Calls /\ shown \in [Kinds -> Messages]
    /\ sets \in 0 .. MaxSets /\ switches \in 0 .. MaxSwitches

\* The route has subscribed and asks for the first snapshot.
Init ==
    /\ active \in Symbols /\ rows = [s \in Symbols |-> 0] /\ pending = FALSE
    /\ sub \in Filters /\ queue = <<>>
    /\ hub = NoCall /\ route = [NoCall EXCEPT !.at = "first"]
    /\ shown = [k \in Kinds |-> Blank] /\ sets = 0 /\ switches = 0

-----------------------------------------------------------------------------
(* The engines.                                                             *)

\* Without a live spot, the spot is that of the rows, or the one a call before left in the
\* cache of the engine.
Spots(live) == IF live THEN {active} ELSE Symbols

\* A call takes its arguments now and its rows when it has the engine's lock.
Call(c, k, live) ==
    {[c EXCEPT !.at = "called", !.kind = k, !.f = sub, !.spot = s] : s \in Spots(live)}

Enter(c, other) ==
    c.at = "called" /\ ~(other.at = "reading" /\ other.kind = c.kind)

\* Mutant of HasRead: the cached payload is served whatever the newest row is.
HasReadCached(c) == [c EXCEPT !.at = "reading"]

\* The read, or the cached payload of the same newest row.
HasRead(c) == [c EXCEPT !.at = "reading", !.v = rows[c.f.sym]]

\* A full queue drops its oldest message, of whatever kind.
Offer(q, m) == Append(IF Len(q) < QMax THEN q ELSE Tail(q), m)

-----------------------------------------------------------------------------
(* The hub.                                                                 *)

Flush ==
    /\ rows' = [rows EXCEPT ![active] = IF @ < MaxRows THEN @ + 1 ELSE @]
    /\ pending' = TRUE
    /\ UNCHANGED <<active, sub, queue, hub, route, shown, sets, switches>>

\* publish_flush reads the active symbol, then works through its subscribers.
Publish ==
    /\ hub.at = "idle" /\ pending /\ pending' = FALSE
    /\ hub' = [NoCall EXCEPT !.at = "others", !.spot = active]
    /\ UNCHANGED <<active, rows, sub, queue, route, shown, sets, switches>>

\* This subscriber's turn: only the symbol that was active is followed.
Turn ==
    /\ hub.at = "others"
    /\ hub' \in IF sub.sym # hub.spot THEN {NoCall} ELSE Call(NoCall, "oi", TRUE)
    /\ UNCHANGED <<active, rows, pending, sub, queue, route, shown, sets, switches>>

HubEnters ==
    /\ Enter(hub, route) /\ hub' = HasRead(hub)
    /\ UNCHANGED <<active, rows, pending, sub, queue, route, shown, sets, switches>>

\* What follows a message: the chain with the filter and the spot of this moment.
AfterHub == IF hub.kind = "oi" THEN Call(NoCall, "chain", TRUE) ELSE {NoCall}

HubOffers ==
    /\ hub.at = "reading"
    /\ \/ queue' = Offer(queue, [kind |-> hub.kind, msg |-> Message(hub)])
          /\ hub' \in AfterHub /\ UNCHANGED switches
       \/ /\ switches < MaxSwitches /\ switches' = switches + 1
          /\ hub' = NoCall /\ UNCHANGED queue
    /\ UNCHANGED <<active, rows, pending, sub, route, shown, sets>>

-----------------------------------------------------------------------------
(* The client's route.                                                      *)

\* The first snapshot is sent by the route itself, past the queue.
First ==
    /\ route.at = "first"
    /\ route' \in Call([NoCall EXCEPT !.direct = TRUE], "oi", sub.sym = active)
    /\ UNCHANGED <<active, rows, pending, sub, queue, hub, shown, sets, switches>>

\* _handle_set: the filter is changed in place, then both kinds are computed for it.
Set ==
    /\ route.at = "idle" /\ sets < MaxSets /\ sets' = sets + 1
    /\ sub' \in Filters \ {sub}
    /\ route' \in {[NoCall EXCEPT !.at = "called", !.f = sub', !.spot = s] :
                     s \in Spots(sub'.sym = active)}
    /\ UNCHANGED <<active, rows, pending, queue, hub, shown, switches>>

RouteEnters ==
    /\ Enter(route, hub) /\ route' = HasRead(route)
    /\ UNCHANGED <<active, rows, pending, sub, queue, hub, shown, sets, switches>>

\* The chain follows: of a set, with the spot that was read for both; of the first
\* snapshot, with a spot of its own.
AfterRoute ==
    IF route.kind = "chain" THEN {NoCall}
    ELSE IF route.direct THEN Call(route, "chain", sub.sym = active)
    ELSE {[route EXCEPT !.at = "called", !.kind = "chain"]}

\* A read that fails skips its kind at first, and the rest of a set.
RouteAnswers ==
    /\ route.at = "reading"
    /\ \/ /\ IF route.direct
             THEN shown' = [shown EXCEPT ![route.kind] = Message(route)] /\ UNCHANGED queue
             ELSE /\ queue' = Offer(queue, [kind |-> route.kind, msg |-> Message(route)])
                  /\ UNCHANGED shown
          /\ route' \in AfterRoute /\ UNCHANGED switches
       \/ /\ switches < MaxSwitches /\ switches' = switches + 1
          /\ route' \in IF route.direct THEN AfterRoute ELSE {NoCall}
          /\ UNCHANGED <<queue, shown>>
    /\ UNCHANGED <<active, rows, pending, sub, hub, sets>>

\* _sender
Send ==
    /\ queue # <<>> /\ queue' = Tail(queue)
    /\ shown' = [shown EXCEPT ![Head(queue).kind] = Head(queue).msg]
    /\ UNCHANGED <<active, rows, pending, sub, hub, route, sets, switches>>

\* symbol_controller.py (SymbolSwitch)
Switch ==
    /\ switches < MaxSwitches /\ switches' = switches + 1
    /\ active' \in Symbols \ {active}
    /\ UNCHANGED <<rows, pending, sub, queue, hub, route, shown, sets>>

-----------------------------------------------------------------------------
HubGoesOn == Turn \/ HubEnters \/ HubOffers
RouteGoesOn == First \/ RouteEnters \/ RouteAnswers

Next == Flush \/ Publish \/ HubGoesOn \/ RouteGoesOn \/ Set \/ Send \/ Switch

\* The feed goes on flushing, and every task that can go on does.
Fairness ==
    /\ WF_vars(Flush) /\ WF_vars(Publish) /\ WF_vars(HubGoesOn) /\ WF_vars(RouteGoesOn)
    /\ WF_vars(Send)

Spec == Init /\ [][Next]_vars /\ Fairness

-----------------------------------------------------------------------------
(* Properties.                                                              *)

\* A client of the active symbol ends up with both panels computed for what it last asked,
\* from the newest bucket and with the spot of its own symbol, whatever was in flight or in
\* its queue when it asked, if its queue runs empty again and again.  (One that takes a
\* single message per flush may be sent one kind only, for the queue drops the oldest of
\* either kind; one that follows another symbol may keep a message computed before its last
\* "set:", for no flush corrects it.)
PanelSettles ==
    []<>(queue = <<>>) =>
        <>[](sub.sym = active =>
               \A k \in Kinds : shown[k] = [f |-> sub, v |-> rows[active], spot |-> active])
=============================================================================

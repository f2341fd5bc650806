------------------------------ MODULE MCEdges -------------------------------
(***************************************************************************)
(* The edges of the system in one run: an order at the broker's gateway    *)
(* (Execution), ticks on their way to a follower (TdRelay), and the frames *)
(* of the two streams to a browser (OiStream, AlgoStream).  edge, which    *)
(* never changes, says which of them a behaviour is about.  The others are *)
(* parked: at a place no fair action starts from, so the fairness of all   *)
(* can be asked for at once.                                               *)
(*                                                                         *)
(* Execution: two polls stand for the six of _ORDER_POLL_ATTEMPTS: the     *)
(* last one, after which the fill is assumed, and one before it.  With     *)
(* MaxOpen = 1 an order of an earlier call per side can still be open, so  *)
(* a late execution meets the next call; the number of calls is not        *)
(* bounded.  Streams: which symbol is active, or watched, at first makes   *)
(* no difference and is fixed.                                             *)
(***************************************************************************)
EXTENDS Execution

CONSTANTS Symbols, Scopes,
          FollowerQueue, HeartbeatStale, LineFaults, \* of TdRelay
          MaxTicks, MaxFaults                        \* its bounds

VARIABLES edge,
          made, since, outbox, wire, link, fol, stranded, faults,
          active, rows, pending, sub, queue, hub, route, shown, sets, switches,
          config, cache, watched, backlog, producer, client, strip, asked, failures

Relay == INSTANCE TdRelay WITH
    QMax <- FollowerQueue, Stale <- HeartbeatStale, Faults <- LineFaults
Oi == INSTANCE OiStream WITH
    Timeframes <- {5}, QMax <- 2, MaxRows <- 1, MaxSets <- 1, MaxSwitches <- 1
Algo == INSTANCE AlgoStream WITH
    QMax <- 1, MaxSaves <- 1, MaxSets <- 1, MaxFaults <- 1

relayVars  == <<made, since, outbox, wire, link, fol, stranded, faults>>
oiVars     == <<active, rows, pending, sub, queue, hub, route, shown, sets, switches>>
algoVars   == <<config, cache, watched, backlog, producer, client, strip, asked, failures>>

OrderParked ==
    /\ pc = "idle" /\ side = "BUY" /\ req = "order" /\ relogins = 0 /\ token = "none"
    /\ polls = 0 /\ order = "none" /\ placed = 0 /\ result = "none" /\ holding = 0
    /\ late = [s \in Sides |-> 0]

RelayParked ==
    /\ made = 0 /\ since = 0 /\ outbox = <<>> /\ wire = <<>> /\ link = "none"
    /\ fol = [Relay!NewFollower EXCEPT !.at = "parked"] /\ stranded = TRUE /\ faults = 0

OiParked ==
    /\ sub \in {CHOOSE f \in Oi!Filters : TRUE}
    /\ active \in {CHOOSE s \in Symbols : s # sub.sym}
    /\ rows = [s \in Symbols |-> 1] /\ pending = TRUE /\ queue = <<>>
    /\ hub = [Oi!NoCall EXCEPT !.at = "parked"] /\ route = hub
    /\ shown = [k \in Oi!Kinds |-> Oi!Blank] /\ sets = 1 /\ switches = 1

AlgoParked ==
    /\ config = 1 /\ cache = [s \in Scopes |-> Algo!NewCache]
    /\ watched = Algo!Blank.scope /\ backlog = <<>>
    /\ producer = Algo!Idle("parked") /\ client = Algo!Idle("parked")
    /\ strip = [scope |-> watched, cfg |-> 1, read |-> 1, pick |-> 1]
    /\ asked = 1 /\ failures = 0

MCInit ==
    \/ /\ edge = "order" /\ Init
       /\ RelayParked /\ OiParked /\ AlgoParked
    \/ /\ edge = "relay" /\ Relay!Init
       /\ OrderParked /\ OiParked /\ AlgoParked
    \/ /\ edge = "oi" /\ Oi!Init /\ active = Oi!NoCall.spot
       /\ OrderParked /\ RelayParked /\ AlgoParked
    \/ /\ edge = "algo" /\ Algo!Init /\ watched = Algo!Blank.scope
       /\ OrderParked /\ RelayParked /\ OiParked

MCNext ==
    /\ UNCHANGED edge
    /\ \/ edge = "order" /\ Next /\ UNCHANGED <<relayVars, oiVars, algoVars>>
       \/ edge = "relay" /\ Relay!Next /\ UNCHANGED <<vars, oiVars, algoVars>>
       \/ edge = "oi" /\ Oi!Next /\ UNCHANGED <<vars, relayVars, algoVars>>
       \/ edge = "algo" /\ Algo!Next /\ UNCHANGED <<vars, relayVars, oiVars>>

MCSpec ==
    /\ MCInit /\ [][MCNext]_<<edge, vars, relayVars, oiVars, algoVars>>
    /\ WF_vars(CallStep) /\ Relay!Fairness /\ Oi!Fairness /\ Algo!Fairness

NewestSurvives  == Relay!NewestSurvives
FollowerReturns == Relay!FollowerReturns
PanelSettles    == Oi!PanelSettles
StripSettles    == Algo!StripSettles
=============================================================================

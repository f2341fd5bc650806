------------------------------- MODULE TdRelay -------------------------------
(***************************************************************************)
(* The relay of TrueData ticks: the owner's tee and hub (ws/td_relay.py)   *)
(* and one follower, which dials the owner, watches the heartbeat of its   *)
(* socket and redials (ingest/td_relay_feed.py).  A tick is its number.    *)
(*                                                                         *)
(* A socket is live, or mute: it is open and nothing comes out of it, as   *)
(* behind a proxy whose backend hangs.  The keepalive of the library is    *)
(* off (ping_interval=None), so only the follower's watchdog can tell.     *)
(***************************************************************************)
EXTENDS Integers, Sequences, SequencesExt

CONSTANTS
    QMax,     \* CLIENT_QUEUE_MAX
    Stale,    \* HEARTBEAT_STALE_S, in clock ticks
    MaxTicks, \* bound: ticks of the vendor
    Faults,   \* which of "mute", "close", "refuse" and "nudge" happen
    MaxFaults \* bound: how many of them

VARIABLES
    made,     \* the vendor's newest tick
    since,    \* the newest tick when the follower was subscribed
    outbox,      \* the owner's queue for the follower
    wire,     \* frames on their way
    link,     \* the socket: "none", "live" or "mute"
    fol,      \* the follower
    stranded, \* history: its socket was not connected when it fell silent, or was nudged then
    faults

vars == <<made, since, outbox, wire, link, fol, stranded, faults>>

\* Frames that are no tick.
Hello == 0
Ping == -1

TypeOK ==
    /\ made \in 0 .. MaxTicks /\ since \in 0 .. made
    /\ outbox \in SeqOf(1 .. MaxTicks, QMax) /\ Len(wire) <= MaxTicks + 2
    /\ ToSet(wire) \subseteq -1 .. MaxTicks /\ link \in {"none", "live", "mute"}
    /\ fol \in [at : {"dial", "open", "closing", "sleep"}, connected : BOOLEAN, kick : BOOLEAN,
                watch : BOOLEAN, age : 0 .. Stale + 1, got : 0 .. MaxTicks]
    /\ stranded \in BOOLEAN /\ faults \in 0 .. MaxFaults

NewFollower == [at |-> "dial", connected |-> FALSE, kick |-> FALSE, watch |-> FALSE,
                age |-> 0, got |-> 0]

Init ==
    /\ made = 0 /\ since = 0 /\ outbox = <<>> /\ wire = <<>> /\ link = "none"
    /\ fol = NewFollower /\ stranded = FALSE /\ faults = 0

Fault(f) == f \in Faults /\ faults < MaxFaults /\ faults' = faults + 1

-----------------------------------------------------------------------------
(* The owner.                                                               *)

\* Mutant of Offered: a full queue keeps what it has.
OfferedIfRoom(q, t) == IF Len(q) < QMax THEN Append(q, t) ELSE q

\* A full queue of a follower loses its oldest frame.
Offered(q, t) == Append(IF Len(q) < QMax THEN q ELSE Tail(q), t)

\* TeeQueue: the tick goes to the followers also when the owner's own queue refuses it.
Vendor ==
    /\ made < MaxTicks /\ made' = made + 1
    /\ outbox' = IF link = "none" THEN outbox ELSE Offered(outbox, made + 1)
    /\ UNCHANGED <<since, wire, link, fol, stranded, faults>>

Sends ==
    /\ link = "live" /\ outbox # <<>>
    /\ wire' = Append(wire, Head(outbox)) /\ outbox' = Tail(outbox)
    /\ UNCHANGED <<made, since, link, fol, stranded, faults>>

Pings ==
    /\ link = "live" /\ ~Contains(wire, Ping) /\ wire' = Append(wire, Ping)
    /\ UNCHANGED <<made, since, outbox, link, fol, stranded, faults>>

-----------------------------------------------------------------------------
(* The follower's supervisor.                                               *)

\* The route accepts, subscribes and says hello before its sender starts; the follower's
\* heartbeat starts with the open socket, and so does its watchdog.
Opens ==
    /\ fol.at = "dial"
    /\ outbox' = <<>> /\ since' = made
    /\ fol' = [fol EXCEPT !.at = "open", !.age = 0, !.watch = TRUE]
    /\ \/ link' = "live" /\ wire' = <<Hello>> /\ stranded' = FALSE /\ UNCHANGED faults
       \/ Fault("mute") /\ link' = "mute" /\ wire' = <<>> /\ stranded' = TRUE
    /\ UNCHANGED made

\* _run_once is over: the watchdog is cancelled, and _sleep_or_kick clears the kick.
Ended(f) == [f EXCEPT !.at = "sleep", !.connected = FALSE, !.kick = FALSE, !.watch = FALSE]

Ends(f) ==
    /\ link' = "none" /\ outbox' = <<>> /\ wire' = <<>> /\ stranded' = FALSE
    /\ fol' = Ended(f)

\* The owner is down, the relay is disabled or the key is wrong.
Refused ==
    /\ fol.at = "dial" /\ Fault("refuse") /\ fol' = Ended(fol)
    /\ UNCHANGED <<made, since, outbox, wire, link, stranded>>

\* The backoff ends, or a kick ends it: the kick stays set and drops the next socket.
Wakes ==
    /\ fol.at = "sleep" /\ fol' = [fol EXCEPT !.at = "dial"]
    /\ UNCHANGED <<made, since, outbox, wire, link, stranded, faults>>

\* Every frame is a heartbeat; hello and a tick make the socket connected.
Heard(f) ==
    [fol EXCEPT !.age = 0, !.connected = @ \/ f # Ping, !.got = IF f > 0 THEN f ELSE @]

\* A kick is looked at after a frame.
Receives ==
    /\ fol.at \in {"open", "closing"} /\ wire # <<>>
    /\ LET heard == Heard(Head(wire))
       IN  IF fol.kick THEN Ends(heard)
           ELSE fol' = heard /\ wire' = Tail(wire) /\ UNCHANGED <<outbox, link, stranded>>
    /\ UNCHANGED <<made, since, faults>>

\* Mutant of Watched: the watchdog leaves the socket to the kick.
WatchedOpen ==
    [fol EXCEPT !.connected = FALSE, !.kick = TRUE, !.watch = FALSE]

\* _heartbeat_watch: a nudge, then the close of the socket; the watchdog is done.
Watched ==
    [fol EXCEPT !.at = "closing", !.connected = FALSE, !.kick = TRUE, !.watch = FALSE]

WatchDue == fol.at = "open" /\ fol.watch /\ fol.age > Stale /\ fol.connected

Watches ==
    /\ WatchDue /\ fol' = Watched
    /\ UNCHANGED <<made, since, outbox, wire, link, stranded, faults>>

Closes ==
    /\ fol.at = "closing" /\ Ends(fol)
    /\ UNCHANGED <<made, since, faults>>

\* nudge_reconnect, which a login calls through ensure_live_ingestion.
Nudge ==
    /\ Fault("nudge") /\ fol' = [fol EXCEPT !.connected = FALSE, !.kick = TRUE]
    /\ stranded' = (stranded \/ link = "mute")
    /\ UNCHANGED <<made, since, outbox, wire, link>>

-----------------------------------------------------------------------------
(* The line.                                                                *)

FallsMute ==
    /\ link = "live" /\ Fault("mute") /\ link' = "mute" /\ wire' = <<>>
    /\ stranded' = ~fol.connected
    /\ UNCHANGED <<made, since, outbox, fol>>

OwnerCloses ==
    /\ link = "live" /\ Fault("close") /\ Ends(fol)
    /\ UNCHANGED <<made, since>>

\* The watchdog looks every five seconds.
Clock ==
    /\ fol.at = "open" /\ ~WatchDue /\ fol.age <= Stale
    /\ fol' = [fol EXCEPT !.age = @ + 1]
    /\ UNCHANGED <<made, since, outbox, wire, link, stranded, faults>>

Next ==
    \/ Vendor \/ Sends \/ Pings \/ Opens \/ Refused \/ Wakes \/ Receives
    \/ Watches \/ Closes \/ Nudge \/ FallsMute \/ OwnerCloses \/ Clock

\* Tasks that can go on do, and the owner's line is up whenever it is not broken.
Fairness ==
    /\ WF_vars(Sends) /\ WF_vars(Pings) /\ WF_vars(Opens) /\ WF_vars(Wakes) /\ WF_vars(Receives)
    /\ WF_vars(Watches) /\ WF_vars(Closes) /\ WF_vars(Clock)

Spec == Init /\ [][Next]_vars /\ Fairness

-----------------------------------------------------------------------------
(* Properties.                                                              *)

Ordered(frames) ==
    \A i, j \in DOMAIN frames : i < j /\ frames[i] > 0 /\ frames[j] > 0 => frames[i] < frames[j]

OnTheWay == (ToSet(wire) \cup ToSet(outbox)) \ {Hello, Ping}

\* Ticks reach the follower in their order, and the newest one is never the one that a full
\* queue gives up ("drop the OLDEST frame, keep the newest").
NewestSurvives ==
    link = "live" =>
        /\ Ordered(wire \o outbox)
        /\ \A t \in OnTheWay : fol.got < t /\ t <= made
        /\ IF OnTheWay = {} THEN made \in {fol.got, since} ELSE made \in OnTheWay

\* The follower has no steward: it comes back on its own from every fault of the line that
\* its watchdog can see.  The exception is a socket that was not connected when it fell
\* silent (it never said hello, or a nudge had cleared the flag).
FollowerReturns == []<>((fol.connected /\ link = "live") \/ stranded)
=============================================================================

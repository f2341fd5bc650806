----------------------------- MODULE AlgoStream ------------------------------
(***************************************************************************)
(* The algo page's live strip: the hub and its scopes (ws/algo_hub.py),    *)
(* the route of one client (ws/algo_stream.py) and the producer with the   *)
(* cache it keeps per scope (algo/live_stream.py).  A frame is computed in *)
(* steps, by the producer and by the route at once, while the slow lane    *)
(* recomputes the readings of a scope in a task of its own.                *)
(*                                                                         *)
(* What a frame shows is told by the configuration it stems from: the one  *)
(* it names the rule of (cfg), the one its readings were combined under    *)
(* (read) and the one whose premium band its strike was picked in (pick).  *)
(* 0 is none yet.                                                          *)
(***************************************************************************)
EXTENDS Integers, Sequences

CONSTANTS
    Scopes,   \* what can be watched
    QMax,     \* maxsize of AlgoSubscriber.queue
    MaxSaves, \* bound: configurations saved
    MaxSets,  \* bound: "set:" messages
    MaxFaults \* bound: refreshes and picks that fail

VARIABLES
    config,   \* the live configuration
    cache,    \* _ScopeCache of each scope
    watched,  \* the subscriber's scope
    backlog,  \* and its queue
    producer, \* the producer's frame under way
    client,   \* the route's first frame, or its "set:"
    strip,    \* what the client shows
    asked,
    failures

vars == <<config, cache, watched, backlog, producer, client, strip, asked, failures>>

Configs == 0 .. MaxSaves + 1
Frames == [scope : Scopes, cfg : Configs, read : Configs, pick : Configs]

\* task: the configuration the refresh under way was started with, 0 if there is none.
NewCache == [task |-> 0, read |-> 0, pick |-> 0]

Work == [at : {"idle", "config", "strike", "frame", "status", "set", "serving"},
         frame : Frames]
Blank == [scope |-> CHOOSE s \in Scopes : TRUE, cfg |-> 0, read |-> 0, pick |-> 0]
Started(s) == [at |-> "config", frame |-> [Blank EXCEPT !.scope = s]]
Idle(at) == [at |-> at, frame |-> Blank]

TypeOK ==
    /\ config \in Configs \ {0} /\ watched \in Scopes
    /\ cache \in [Scopes -> [task : Configs, read : Configs, pick : Configs]]
    /\ Len(backlog) <= QMax /\ \A i \in DOMAIN backlog : backlog[i] \in Frames
    /\ {producer, client} \subseteq Work /\ strip \in Frames
    /\ asked \in 0 .. MaxSets /\ failures \in 0 .. MaxFaults

\* The client has connected and is subscribed; its first frame is computed by the route.
Init ==
    /\ config = 1 /\ cache = [s \in Scopes |-> NewCache]
    /\ watched \in Scopes /\ backlog = <<>>
    /\ producer = Idle("idle") /\ client = Started(watched) /\ strip = Blank
    /\ asked = 0 /\ failures = 0

-----------------------------------------------------------------------------
(* compute_frame, by whoever holds work w; each step ends at an await.      *)

\* After the feed mode: the live configuration, whose rule the frame will name.
ReadsConfig(w) == [w EXCEPT !.at = "strike", !.frame.cfg = config]

\* Mutant of MustPick: a strike once picked is kept.
NeverRepicks(s, minute) == cache[s].pick = 0

\* The pick of a minute is kept, unless there was none.
MustPick(s, minute) == minute \/ cache[s].pick = 0

\* _resolve_strike, with the band of the frame's configuration; minute: a new one has begun.
Picks(w, minute) ==
    IF MustPick(w.frame.scope, minute)
    THEN [cache EXCEPT ![w.frame.scope].pick = w.frame.cfg] ELSE cache

\* The slot of the slow lane is claimed before anything is awaited, when the interval since
\* the last claim or landing is over (due) and no refresh of the scope is under way.
Claims(w, due) ==
    IF due /\ cache[w.frame.scope].task = 0
    THEN [cache EXCEPT ![w.frame.scope].task = w.frame.cfg] ELSE cache

\* The frame takes the readings that are there.
Fills(w) == [w EXCEPT !.at = "status", !.frame.read = cache[w.frame.scope].read]

\* One step of compute_frame for w, whose next value is w2.
Computes(w, w2, minute, due) ==
    \/ w.at = "config" /\ w2 = ReadsConfig(w) /\ UNCHANGED <<cache, failures>>
    \/ /\ w.at = "strike"
       /\ \/ cache' = Picks(w, minute) /\ UNCHANGED failures
          \/ failures < MaxFaults /\ failures' = failures + 1 /\ UNCHANGED cache
       /\ w2 = [w EXCEPT !.at = "frame", !.frame.pick = cache'[w.frame.scope].pick]
    \/ w.at = "frame" /\ w2 = Fills(w) /\ cache' = Claims(w, due) /\ UNCHANGED failures

\* _refresh_oi_readings lands, with the rule it was started under, or raises.
Lands(s) ==
    /\ cache[s].task # 0
    /\ \/ cache' = [cache EXCEPT ![s].read = cache[s].task, ![s].task = 0]
          /\ UNCHANGED failures
       \/ /\ failures < MaxFaults /\ failures' = failures + 1
          /\ cache' = [cache EXCEPT ![s].task = 0]
    /\ UNCHANGED <<config, watched, backlog, producer, client, strip, asked>>

-----------------------------------------------------------------------------
(* The producer.                                                            *)

\* Drop-oldest: frames supersede each other.
Offer(q, f) == Append(IF Len(q) < QMax THEN q ELSE Tail(q), f)

LoopStarts ==
    /\ producer.at = "idle" /\ producer' = Started(watched)
    /\ UNCHANGED <<config, cache, watched, backlog, client, strip, asked, failures>>

LoopComputes ==
    /\ \E minute, due \in BOOLEAN : Computes(producer, producer', minute, due)
    /\ UNCHANGED <<config, watched, backlog, client, strip, asked>>

\* publish: who watches this scope now.
Targets(scope) == watched = scope

LoopPublishes ==
    /\ producer.at = "status" /\ producer' = Idle("idle")
    /\ backlog' = IF Targets(producer.frame.scope) THEN Offer(backlog, producer.frame)
                  ELSE backlog
    /\ UNCHANGED <<config, cache, watched, client, strip, asked, failures>>

-----------------------------------------------------------------------------
(* The client's route.                                                      *)

RouteComputes ==
    /\ \E minute, due \in BOOLEAN : Computes(client, client', minute, due)
    /\ UNCHANGED <<config, watched, backlog, producer, strip, asked>>

\* The first frame is sent by the route itself, past the queue.
RouteSends ==
    /\ client.at = "status" /\ strip' = client.frame /\ client' = Idle("serving")
    /\ UNCHANGED <<config, cache, watched, backlog, producer, asked, failures>>

Asks ==
    /\ client.at = "serving" /\ asked < MaxSets /\ asked' = asked + 1
    /\ \E s \in Scopes : client' = [at |-> "set", frame |-> [Blank EXCEPT !.scope = s]]
    /\ UNCHANGED <<config, cache, watched, backlog, producer, strip, failures>>

\* _handle_set has resolved the scope: retarget, and no frame of its own.
Retargets ==
    /\ client.at = "set" /\ watched' = client.frame.scope /\ client' = Idle("serving")
    /\ UNCHANGED <<config, cache, backlog, producer, strip, asked, failures>>

Sends ==
    /\ backlog # <<>> /\ strip' = Head(backlog) /\ backlog' = Tail(backlog)
    /\ UNCHANGED <<config, cache, watched, producer, client, asked, failures>>

\* config_store.save (ConfigControl)
Save ==
    /\ config <= MaxSaves /\ config' = config + 1
    /\ UNCHANGED <<cache, watched, backlog, producer, client, strip, asked, failures>>

-----------------------------------------------------------------------------
LoopGoesOn == LoopStarts \/ LoopComputes \/ LoopPublishes
RouteGoesOn == RouteComputes \/ RouteSends \/ Retargets

Next ==
    \/ LoopGoesOn \/ RouteGoesOn \/ Asks \/ Sends \/ Save \/ \E s \in Scopes : Lands(s)

\* A new minute, or the end of an interval, meets the producer's frame.
LoopPicks ==
    /\ producer.at = "strike" /\ Computes(producer, producer', TRUE, TRUE)
    /\ cache'[producer.frame.scope].pick = producer.frame.cfg
    /\ UNCHANGED <<config, watched, backlog, client, strip, asked>>
LoopClaims ==
    /\ producer.at = "frame" /\ Computes(producer, producer', TRUE, TRUE)
    /\ UNCHANGED <<config, watched, backlog, client, strip, asked>>

\* The loop ticks, tasks end, minutes and refresh intervals pass, the client reads.
Fairness ==
    /\ WF_vars(LoopGoesOn) /\ WF_vars(RouteGoesOn) /\ WF_vars(Sends)
    /\ SF_vars(LoopPicks) /\ SF_vars(LoopClaims) /\ \A s \in Scopes : WF_vars(Lands(s))

Spec == Init /\ [][Next]_vars /\ Fairness

-----------------------------------------------------------------------------
(* Properties.                                                              *)

\* Once nobody saves or changes the scope any more, the strip ends up, and stays, with the
\* scope that was asked for last, its strike, its readings and the rule it names all of the
\* live configuration, although frames, picks and readings of older ones were in flight.
StripSettles ==
    <>[](strip = [scope |-> watched, cfg |-> config, read |-> config, pick |-> config])
=============================================================================

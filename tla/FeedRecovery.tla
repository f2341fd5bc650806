----------------------------- MODULE FeedRecovery -----------------------------
(***************************************************************************)
(* Who brings the live feed back: the session steward                      *)
(* (backend/app/ingest/session_steward.py), the feed client's supervisor   *)
(* (ingest/ws_client.py), the feed factory (ingest/feed_factory.py) and    *)
(* the login endpoint (api/auth.py), around runtime.feed_client.           *)
(*                                                                         *)
(* The steward judges the feed by the age of its rows and climbs a ladder: *)
(* kick, rotate the token, refresh the universe, rebuild the client; at    *)
(* the end it leaves the process.  Everybody else may only ask.  The       *)
(* session is seen through its contract (MarketSession has the policy): a  *)
(* login mints, reuses, fails, or is parked by an open circuit.            *)
(*                                                                         *)
(* Time is counted in ticks, one per check interval of the steward.        *)
(***************************************************************************)
EXTENDS Integers

CONSTANTS
    Stale,          \* STALE_AFTER_S
    Gap,            \* ESCALATE_MIN_INTERVAL_S
    VerifyIn,       \* VERIFY_IN_SESSION_S
    VerifyOff,      \* VERIFY_OFF_SESSION_S
    Extension,      \* what a connected feed adds to a verification
    DeathWindow,    \* POST_VERIFY_DEATH_WINDOW_S
    MaxDeaths,      \* SECOND_CLIENT_DEATHS
    SuicideAfter,   \* SUICIDE_AFTER_S
    RejectAfter,    \* AUTH_RECOVERY_REQUESTS_BEFORE_REJECTED
    MaxFeeds,       \* bound: the feed clients there can be at once
    Faults,         \* what may go wrong
    MaxFaults       \* bound: how often, in all

ASSUME TimesAssumption ==
    {Stale, Gap, VerifyIn, VerifyOff, Extension, DeathWindow, MaxDeaths, SuicideAfter,
     RejectAfter, MaxFaults} \subseteq Nat
ASSUME FeedsAssumption == MaxFeeds \in Nat \ {0}
ASSUME FaultsAssumption ==
    Faults \subseteq {"stolen", "cycle", "rejected", "expired", "death", "network",
                      "universe", "login", "outage", "human", "day"}

VARIABLES
    phase,      \* the market: "closed" | "preopen" (and warm-up) | "session"
    age,        \* since rows of a socket were flushed, Stale + 1 at most
    session,    \* the session manager: authed, open (circuit), old (past the TTL),
                \* fresh (inside the floor); token: "good", "mute",
                \* "dead", or "out": nobody gets a token any more
    feed,       \* the feed clients: where the supervisor is, the token of its socket,
                \* its unanswered requests
    rt,         \* runtime.feed_client, 0 for None
    pc,         \* where the steward stands
    st,         \* what the steward remembers
    rot,        \* the rotation under way
    asked,      \* _recovery_requested: "no", "yes", or "cooling": answered this tick
    boot,       \* the login endpoint's bootstrap
    faults,     \* bound: how many there have been
    tried       \* history, since the episode opened: "no", "replaced" a dead supervisor out
                \* of turn, or tried a "rotation"

vars == <<phase, age, session, feed, rt, pc, st, rot, asked, boot, faults, tried>>
steward == <<pc, st, rot, tried>>

Feeds == 1 .. MaxFeeds
Phases == {"closed", "preopen", "session"}
NoFeed == [at |-> "none", tok |-> "old", asks |-> 0]
NewFeed == [at |-> "down", tok |-> "old", asks |-> 0]
NoRun == [why |-> "ladder", left |-> 0, insession |-> FALSE, landed |-> FALSE,
          extended |-> FALSE]
\* down, since: -1 for None.
NewSteward == [step |-> 0, down |-> -1, rebuilt |-> FALSE, gap |-> Gap, since |-> -1,
               deaths |-> 0, woken |-> FALSE, rotated |-> FALSE]

TypeOK ==
    /\ phase \in Phases
    /\ age \in 0 .. Stale + 1
    /\ session \in [authed : BOOLEAN, open : BOOLEAN, old : BOOLEAN, fresh : BOOLEAN,
                    token : {"good", "mute", "dead", "out"}]
    /\ feed \in [Feeds -> [at : {"none", "down", "handshake", "subscribe", "up", "dead"},
                           tok : {"cur", "old"}, asks : 0 .. RejectAfter]]
    /\ rt \in Feeds \cup {0}
    /\ pc \in {"sleep", "run", "login", "verify", "universe", "start", "exited"}
    /\ st \in [step : 0 .. 3, down : -1 .. SuicideAfter, rebuilt : BOOLEAN,
               gap : 0 .. Gap, since : -1 .. DeathWindow + 1, deaths : 0 .. MaxDeaths,
               woken : BOOLEAN, rotated : BOOLEAN]
    /\ rot \in [why : {"ladder", "schedule", "dead"}, left : 0 .. VerifyIn + VerifyOff + Extension,
                insession : BOOLEAN, landed : BOOLEAN, extended : BOOLEAN]
    /\ asked \in {"no", "yes", "cooling"}
    /\ boot \in {"idle", "fresh", "build"}
    /\ faults \in 0 .. MaxFaults
    /\ tried \in {"no", "replaced", "rotation"}

\* After the lifespan has restored or minted a session and started the feed.
Booted ==
    /\ age' = Stale + 1
    /\ feed' = [[f \in Feeds |-> NoFeed] EXCEPT ![1] = NewFeed] /\ rt' = 1
    /\ pc' = "sleep" /\ st' = NewSteward /\ rot' = NoRun
    /\ asked' = "no" /\ boot' = "idle" /\ tried' = "no"

Init ==
    /\ phase = "preopen"
    /\ age = Stale + 1
    /\ session = [authed |-> TRUE, open |-> FALSE, old |-> FALSE, fresh |-> FALSE,
                  token |-> "good"]
    /\ feed = [[f \in Feeds |-> NoFeed] EXCEPT ![1] = NewFeed] /\ rt = 1
    /\ pc = "sleep" /\ st = NewSteward /\ rot = NoRun
    /\ asked = "no" /\ boot = "idle"
    /\ faults = 0 /\ tried = "no"

Running == pc # "exited"
Strikes(fault) ==
    fault \in Faults /\ Running /\ faults < MaxFaults /\ faults' = faults + 1

-----------------------------------------------------------------------------
(* The feed client: _supervisor and _connect_once.  A backoff has no        *)
(* duration of its own here: a nudge cuts it short.                         *)

\* nudge_reconnect: a live socket is dropped; a connection under way goes on.
Nudged(fs, f) ==
    IF f # 0 /\ fs[f].at = "up" THEN [fs EXCEPT ![f].at = "down"] ELSE fs

\* _request_auth_recovery, feed being fs: inside the cool-down nothing; else ask
\* (asked changes once in a tick); a request too many flags the session rejected.
RequestRecovery(f, fs) ==
    \/ feed' = fs /\ UNCHANGED <<asked, session>>
    \/ /\ asked = "no" /\ asked' = "yes"
       /\ LET asks == IF fs[f].asks < RejectAfter THEN fs[f].asks + 1 ELSE RejectAfter
          IN  /\ feed' = [fs EXCEPT ![f].asks = asks]
              /\ session' = [session EXCEPT !.authed = @ /\ asks < RejectAfter]

Connect(f) ==
    /\ Running /\ feed[f].at = "down" /\ session.authed
    /\ feed' = [feed EXCEPT ![f].at = "handshake", ![f].tok = "cur"]
    /\ UNCHANGED <<phase, age, session, rt, steward, asked, boot, faults>>

\* Not authenticated, or no option to subscribe: ask and back off.
CannotConnect(f) ==
    /\ Running /\ feed[f].at = "down"
    /\ (~session.authed /\ UNCHANGED faults) \/ Strikes("universe")
    /\ RequestRecovery(f, feed)
    /\ UNCHANGED <<phase, age, rt, steward, boot>>

Handshake(f) ==
    /\ Running /\ feed[f].at = "handshake"
    /\ feed[f].tok = "cur" /\ session.token \in {"good", "mute"}
    /\ feed' = [feed EXCEPT ![f].at = "subscribe"]
    /\ UNCHANGED <<phase, age, session, rt, steward, asked, boot, faults>>

HandshakeFails(f) ==
    /\ Running /\ feed[f].at = "handshake"
    /\ \/ (feed[f].tok = "old" \/ session.token \in {"dead", "out"}) /\ UNCHANGED faults
       \/ Strikes("network")
    /\ RequestRecovery(f, [feed EXCEPT ![f].at = "down"])
    /\ UNCHANGED <<phase, age, rt, steward, boot>>

\* _subscribe_all sends the session's token, not the socket's.  Clean, it is
\* proof that the token works.  Rejected, already subscribed after a gateway
\* cycle, or out of its budget: the socket is connected all the same.
Subscribe(f) ==
    /\ Running /\ feed[f].at = "subscribe"
    /\ \/ /\ session.token = "good"
          /\ feed' = [feed EXCEPT ![f].at = "up", ![f].asks = 0]
          /\ session' = [session EXCEPT !.authed = TRUE]
          /\ UNCHANGED <<asked, faults>>
       \/ /\ (session.token # "good" /\ UNCHANGED faults) \/ Strikes("network")
          /\ RequestRecovery(f, [feed EXCEPT ![f].at = "up"])
    /\ UNCHANGED <<phase, age, rt, steward, boot>>

Delivers(f) == feed[f].at = "up" /\ feed[f].tok = "cur" /\ session.token = "good"

\* disconnect, or _heartbeat_watch when nothing has come for too long.
Drops(f) ==
    /\ Running /\ feed[f].at = "up"
    /\ (~Delivers(f) /\ UNCHANGED faults) \/ Strikes("network")
    /\ feed' = [feed EXCEPT ![f].at = "down"]
    /\ UNCHANGED <<phase, age, session, rt, steward, asked, boot>>

\* The gateway cycles the socket; its broadcast comes back with a new login only.
GatewayCycle(f) ==
    /\ feed[f].at = "up" /\ Strikes("cycle")
    /\ feed' = [feed EXCEPT ![f].at = "down"]
    /\ session' = [session EXCEPT !.token = IF @ = "good" THEN "mute" ELSE @]
    /\ UNCHANGED <<phase, age, rt, steward, asked, boot>>

\* The supervisor task dies.  (Once: the bound of this fault.)
SupervisorDies(f) ==
    /\ Strikes("death")
    /\ feed[f].at \in {"down", "handshake", "subscribe", "up"}
    /\ feed' = [feed EXCEPT ![f].at = "dead"]
    /\ UNCHANGED <<phase, age, session, rt, steward, asked, boot>>

\* on_flush with rows of a socket.  A socket just dropped may have left some in
\* the aggregator: they come within the tick of its last flush.
Flush ==
    /\ Running /\ phase = "session"
    /\ age = 0 \/ \E f \in Feeds : Delivers(f)
    /\ age' = 0
    /\ rot' = IF pc = "verify" THEN [rot EXCEPT !.landed = TRUE] ELSE rot
    /\ UNCHANGED <<phase, session, feed, rt, pc, st, tried, asked, boot, faults>>

-----------------------------------------------------------------------------
(* The world around.                                                        *)

\* A second client logs in with the same key.
Steal ==
    /\ Strikes("stolen") /\ session.token # "out"
    /\ session' = [session EXCEPT !.token = "dead"]
    /\ UNCHANGED <<phase, age, feed, rt, steward, asked, boot>>

\* The broker goes away and does not come back.
Outage ==
    /\ Strikes("outage") /\ session' = [session EXCEPT !.token = "out"]
    /\ UNCHANGED <<phase, age, feed, rt, steward, asked, boot>>

\* The token outlives TOKEN_ROTATE_AFTER_H.
Ages ==
    /\ Strikes("expired") /\ session' = [session EXCEPT !.old = TRUE]
    /\ UNCHANGED <<phase, age, feed, rt, steward, asked, boot>>

\* Another part asks: subscription trouble, an operator's login.
Asks ==
    /\ Strikes("rejected") /\ asked = "no" /\ asked' = "yes"
    /\ UNCHANGED <<phase, age, session, feed, rt, steward, boot>>

PhaseStep ==
    /\ Running
    /\ (phase # "session" /\ UNCHANGED faults) \/ (phase = "session" /\ Strikes("day"))
    /\ phase' = CASE phase = "closed" -> "preopen"
                  [] phase = "preopen" -> "session"
                  [] phase = "session" -> "closed"
    /\ st' = IF phase = "closed" THEN [st EXCEPT !.rotated = FALSE] ELSE st
    /\ UNCHANGED <<age, session, feed, rt, pc, rot, tried, asked, boot>>

\* When nothing goes wrong, a connection with a good token is up within the
\* spacing of the ladder (budgets of 25 s and 60 s against 90 s), and rows that
\* are delivered are flushed.
Prompt ==
    /\ (session.authed /\ session.token = "good") =>
           \A f \in Feeds : feed[f].at \notin {"down", "handshake", "subscribe"}
    /\ (phase = "session" /\ \E f \in Feeds : Delivers(f)) => age = 0

\* A check interval passes; what the steward does without awaiting takes no time.
Tick ==
    /\ pc \in {"sleep", "login", "verify", "universe", "start"}
    /\ pc = "sleep" => asked # "yes"
    /\ asked' = IF asked = "cooling" THEN "no" ELSE asked
    /\ session' = [session EXCEPT !.fresh = FALSE]
    /\ pc = "verify" => rot.left > 0
    /\ Prompt
    /\ age' = IF age <= Stale THEN age + 1 ELSE age
    /\ rot' = IF pc = "verify" THEN [rot EXCEPT !.left = @ - 1] ELSE rot
    /\ LET Up(n, top) == IF n = -1 \/ n = top THEN n ELSE n + 1
       IN  st' = [st EXCEPT !.down = Up(@, SuicideAfter), !.gap = Up(@, Gap),
                            !.since = Up(@, DeathWindow + 1), !.woken = FALSE]
    /\ pc' = IF pc = "sleep" THEN "run" ELSE pc
    /\ UNCHANGED <<phase, feed, rt, tried, boot, faults>>

-----------------------------------------------------------------------------
(* The steward: run.                                                        *)

\* _sleep_or_request, woken by a request; a full interval is Tick.
Woken ==
    /\ pc = "sleep" /\ asked = "yes"
    /\ asked' = "cooling" /\ st' = [st EXCEPT !.woken = TRUE] /\ pc' = "run"
    /\ UNCHANGED <<phase, age, session, feed, rt, rot, tried, boot, faults>>

\* Below, s, sess and tr are st, session and tried as the run has left them.

Reset(s) == [s EXCEPT !.down = -1, !.step = 0, !.rebuilt = FALSE]
Episode(s) == IF s.down = -1 THEN [Reset(s) EXCEPT !.down = 0] ELSE s

\* _should_exit, then sleep again or _do_exit.
ShouldExit(s, sess) ==
    s.down >= SuicideAfter /\ s.rebuilt /\ ~sess.open /\ phase = "session"

Judged(s, sess, tr) ==
    /\ pc' = IF ShouldExit(s, sess) THEN "exited" ELSE "sleep"
    /\ st' = s /\ session' = sess /\ tried' = tr /\ rot' = NoRun

\* start_feed: a new client in a free slot, published.
StartFeed ==
    LET free == {f \in Feeds : feed[f].at = "none"}
        new == CHOOSE f \in free : \A g \in free : f <= g
    IN  free # {} /\ feed' = [feed EXCEPT ![new] = NewFeed] /\ rt' = new

\* rebuild_feed_client: forget the feed, then stop it.
Rebuild(why) ==
    /\ pc' = "start" /\ rot' = [NoRun EXCEPT !.why = why]
    /\ feed' = IF rt = 0 THEN feed ELSE [feed EXCEPT ![rt] = NoFeed]
    /\ rt' = 0

\* Mutant of Rung: a session that says it is authenticated is not rotated.
RungSkipped(s, sess) == IF s.step = 1 /\ sess.authed THEN 2 ELSE s.step

\* _escalate: closed by the gate, or the next rung.
Rung(s, sess) == IF s.step = 0 /\ ~sess.authed THEN 1 ELSE s.step
Escalate(s, sess, tr, forced) ==
    LET t == [s EXCEPT !.gap = 0]
        At(place) == pc' = place /\ st' = t /\ session' = sess /\ tried' = tr
    IN  IF ~forced /\ s.gap < Gap
        THEN Judged(s, sess, tr) /\ UNCHANGED <<feed, rt>>
        ELSE CASE Rung(s, sess) = 0 -> /\ Judged([t EXCEPT !.step = 1], sess, tr)
                                       /\ feed' = Nudged(feed, rt) /\ UNCHANGED rt
               [] Rung(s, sess) = 1 -> At("login") /\ rot' = NoRun /\ UNCHANGED <<feed, rt>>
               [] Rung(s, sess) = 2 -> At("universe") /\ rot' = NoRun /\ UNCHANGED <<feed, rt>>
               [] OTHER -> At("start") /\ Rebuild("ladder")

SupervisorDead == rt # 0 /\ feed[rt].at = "dead"

\* _healthy_verdict
Healthy(sess) ==
    IF phase = "preopen" THEN rt # 0 /\ sess.authed ELSE age <= Stale

\* _note_possible_post_verify_death: what it remembers, and whether it parks.
Deaths(s) == IF s.since = -1 THEN s.deaths ELSE IF s.since <= DeathWindow THEN s.deaths + 1 ELSE 0
Parks(s) == s.since # -1 /\ Deaths(s) >= MaxDeaths
Noted(s) == [s EXCEPT !.since = -1, !.deaths = IF Parks(s) THEN 0 ELSE Deaths(s)]

\* run, from the dead supervisor on: nothing interleaves until something awaits.
Jump(s) == s.woken /\ phase # "preopen"

\* An episode that opens has tried nothing.
Carried(s, tr) == IF s.down = -1 THEN "no" ELSE tr

Check(s, sess, tr) ==
    /\ UNCHANGED <<phase, age, asked, boot>>
    /\ \/ /\ SupervisorDead
          /\ Rebuild("dead")
          /\ st' = [Episode(s) EXCEPT !.step = 3, !.gap = 0]
          /\ session' = sess /\ tried' = IF Carried(s, tr) = "no" THEN "replaced" ELSE tr
       \/ /\ ~SupervisorDead /\ phase = "closed"
          /\ Judged(Reset(s), sess, "no") /\ UNCHANGED <<feed, rt>>
       \/ /\ ~SupervisorDead /\ phase # "closed" /\ Healthy(sess) /\ ~Jump(s)
          /\ Judged(Reset(s), [sess EXCEPT !.open = FALSE], "no") /\ UNCHANGED <<feed, rt>>
       \/ /\ ~SupervisorDead /\ phase # "closed" /\ (~Healthy(sess) \/ Jump(s))
          /\ LET e == Episode(Noted(s))
             IN  Escalate(IF Jump(s) /\ e.step = 0 THEN [e EXCEPT !.step = 1] ELSE e,
                          [sess EXCEPT !.open = @ \/ Parks(s)], Carried(s, tr), Jump(s))

\* _maybe_scheduled_rotation, then the check.
Run ==
    /\ pc = "run"
    /\ IF (phase = "preopen" /\ ~st.rotated) \/ session.old
       THEN /\ pc' = "login" /\ rot' = [NoRun EXCEPT !.why = "schedule"]
            /\ UNCHANGED <<phase, age, session, feed, rt, st, tried, asked, boot, faults>>
       ELSE Check(st, session, tried) /\ UNCHANGED faults

\* The rungs that awaited go on.  get_scripmaster, refreshed or not, then the nudge.
Universe ==
    /\ pc = "universe"
    /\ feed' = Nudged(feed, rt)
    /\ Judged([st EXCEPT !.step = 3], session, tried)
    /\ UNCHANGED <<phase, age, rt, asked, boot, faults>>

\* Mutant of Start: the rebuild is not recorded.
StartsUnrecorded ==
    /\ pc = "start"
    /\ StartFeed
    /\ Judged([st EXCEPT !.step = 1], session, tried)
    /\ UNCHANGED <<phase, age, asked, boot, faults>>

\* The old feed has stopped.  A rebuild for a dead supervisor skips the exit check.
Start ==
    /\ pc = "start"
    /\ StartFeed
    /\ LET s == [st EXCEPT !.step = 1, !.rebuilt = TRUE]
       IN  IF rot.why = "dead"
           THEN pc' = "sleep" /\ st' = s /\ rot' = NoRun /\ UNCHANGED <<session, tried>>
           ELSE Judged(s, session, tried)
    /\ UNCHANGED <<phase, age, asked, boot, faults>>

\* _rotate has returned: a scheduled rotation goes on to the check, with the rung
\* as it was; the ladder's goes on to the next rung unless it was parked.
Rotated(s, sess, parked) ==
    IF rot.why = "schedule"
    THEN Check(s, sess, "rotation")
    ELSE /\ Judged(IF parked THEN s ELSE [s EXCEPT !.step = 2], sess, "rotation")
         /\ UNCHANGED <<phase, age, feed, rt, asked, boot>>

\* MarketDataSession.login answers: the circuit is open and this is no probe.
Parked ==
    /\ pc = "login" /\ ~session.fresh /\ session.open
    /\ Rotated(st, session, TRUE) /\ UNCHANGED faults

\* The call fails; its mint may have happened, which kills the token we know.
LoginFails ==
    /\ pc = "login" /\ ~session.fresh /\ Strikes("login")
    /\ session.token # "out"
    /\ \E token \in {session.token, "dead"} :
         Rotated(st, [session EXCEPT !.token = token], FALSE)

LoginRefused ==
    /\ pc = "login" /\ ~session.fresh /\ session.token = "out"
    /\ Rotated(st, session, FALSE) /\ UNCHANGED faults

Minted(s) == [s EXCEPT !.authed = TRUE, !.token = "good", !.old = FALSE, !.fresh = TRUE]
\* Every socket keeps the token it was opened with.
Outdated == [f \in Feeds |-> [feed[f] EXCEPT !.tok = "old"]]

Verify ==
    /\ pc' = "verify"
    /\ LET in == phase = "session"
       IN  rot' = [rot EXCEPT !.insession = in, !.left = IF in THEN VerifyIn ELSE VerifyOff]
    /\ tried' = "rotation"

\* Minted, within the budget or as the circuit's probe; one too many opens it.
LoginMints ==
    /\ pc = "login" /\ ~session.fresh /\ session.token # "out"
    /\ \E open \in {session.open, TRUE} :
         session' = [Minted(session) EXCEPT !.open = open]
    /\ feed' = Nudged(Outdated, rt)
    /\ Verify
    /\ UNCHANGED <<phase, age, rt, st, asked, boot, faults>>

\* Inside the floor: the token there is, usable by its clock, and no nudge.
LoginReuses ==
    /\ pc = "login" /\ session.fresh
    /\ Verify
    /\ UNCHANGED <<phase, age, session, feed, rt, st, asked, boot, faults>>

Verified == IF rot.insession THEN rot.landed ELSE rt # 0 /\ feed[rt].at = "up"

VerifyOk ==
    /\ pc = "verify" /\ Verified
    /\ Rotated([st EXCEPT !.rotated = TRUE, !.since = 0], [session EXCEPT !.open = FALSE], FALSE)
    /\ UNCHANGED faults

VerifyExtends ==
    /\ pc = "verify" /\ ~Verified /\ rot.insession /\ ~rot.extended
    /\ rot.left = 1 /\ rt # 0 /\ feed[rt].at = "up"
    /\ rot' = [rot EXCEPT !.extended = TRUE, !.left = @ + Extension]
    /\ UNCHANGED <<phase, age, session, feed, rt, pc, st, tried, asked, boot, faults>>

VerifyEnds ==
    /\ pc = "verify" /\ ~Verified /\ rot.left = 0
    /\ Rotated(st, session, FALSE) /\ UNCHANGED faults

\* Docker restarts the process: the token is restored from the database, or
\* minted, or neither; a storm before it opens the circuit.
Restart ==
    /\ pc = "exited"
    /\ \E open \in BOOLEAN :
         \/ /\ session.token \in {"good", "mute"}
            /\ session' = [session EXCEPT !.authed = TRUE, !.open = open, !.fresh = FALSE]
         \/ /\ session.token # "out"
            /\ session' = [Minted(session) EXCEPT !.open = open]
         \/ session' = [session EXCEPT !.authed = FALSE, !.open = open, !.fresh = FALSE]
    /\ Booted
    /\ UNCHANGED <<phase, faults>>

-----------------------------------------------------------------------------
(* The login endpoint: an operator forces a new token, and the bootstrap     *)
(* (ensure_live_ingestion) reconnects the feed, or builds one if there is    *)
(* none, in a task of its own.  (Bound: it is the last fault.)               *)

ForceLogin ==
    /\ boot = "idle" /\ Running /\ session.token # "out"
    /\ "human" \in Faults /\ faults < MaxFaults /\ faults' = MaxFaults
    /\ \E open \in {session.open, TRUE} : session' = [Minted(session) EXCEPT !.open = open]
    /\ feed' = Outdated
    /\ boot' = "fresh"
    /\ UNCHANGED <<phase, age, rt, steward, asked>>

Bootstrap ==
    /\ Running /\ boot = "fresh"
    /\ IF rt = 0 THEN boot' = "build" /\ UNCHANGED feed
                 ELSE boot' = "idle" /\ feed' = Nudged(feed, rt)
    /\ UNCHANGED <<phase, age, session, rt, steward, asked, faults>>

\* start_feed, when build_feed_client has returned.
BootstrapStart ==
    /\ Running /\ boot = "build"
    /\ StartFeed
    /\ boot' = "idle"
    /\ UNCHANGED <<phase, age, session, steward, asked, faults>>

-----------------------------------------------------------------------------
FeedStep(f) == Connect(f) \/ CannotConnect(f) \/ Handshake(f) \/ HandshakeFails(f)
               \/ Subscribe(f)
Fault == \/ \E f \in Feeds : GatewayCycle(f) \/ SupervisorDies(f)
         \/ Steal \/ Outage \/ Ages \/ Asks \/ PhaseStep
Steward == \/ Woken \/ Run \/ Universe \/ Start \/ Parked \/ LoginRefused \/ LoginReuses
           \/ VerifyOk \/ VerifyExtends \/ VerifyEnds
Bootstraps == Bootstrap \/ BootstrapStart

Next == \/ \E f \in Feeds : FeedStep(f) \/ Drops(f)
        \/ Fault \/ Flush \/ Tick \/ Steward \/ LoginFails \/ LoginMints \/ Restart
        \/ ForceLogin \/ Bootstraps

\* Every task is scheduled and time passes; after the faults a login that is
\* made again and again, past floor and circuit, mints at last; a broker that
\* delivers goes on delivering.
Spec == /\ Init /\ [][Next]_vars
        /\ SF_vars(Tick) /\ WF_vars(Flush) /\ WF_vars(Steward) /\ WF_vars(Restart)
        /\ WF_vars(Bootstraps) /\ SF_vars(LoginMints)
        /\ \A f \in Feeds : WF_vars(FeedStep(f)) /\ WF_vars(Drops(f))
-----------------------------------------------------------------------------
(* Properties.                                                              *)

\* The process is left only after this episode has tried a rotation, even when it began
\* with a jump or with the flag of an earlier rebuild; or after a dead supervisor made it
\* rebuild out of turn (_should_exit's docstring, session_steward.py:520-523).
ExitAfterLadder == pc = "exited" => tried # "no"

\* In the session, rows that stay away end in an exit unless the circuit stays
\* open: no rung, failed rotation or verification holds the ladder up for ever.
DeadFeedEndsInExit ==
    <>[](phase = "session" /\ ~session.open /\ age > Stale) => []<>(pc = "exited")

\* The rung that was "mathematically unreachable" in the second outage
\* (session_steward.py:9-14): while rows stay away, parked or not, a login is
\* asked for again and again.
LadderKeepsRotating ==
    <>[](phase = "session" /\ age > Stale) => []<>(pc \in {"login", "exited"})

Orphan == \E f \in Feeds \ {rt} : feed[f].at # "none"

\* Whatever the faults have left behind, once they are over the published feed
\* delivers, for good; unless a bootstrap that came upon a rebuild has left a
\* second client, whose rows the steward takes for the published one's.
Recovers ==
    <>[](phase = "session" /\ session.token # "out" /\ ~Orphan) =>
        <>[](rt # 0 /\ Delivers(rt) /\ age <= Stale)

\* The comment at the exit: "in-process recovery exhausted (kick/rotate/universe/
\* rebuild all failed ...)" (session_steward.py:536-537).
ExitWhenExhausted == pc = "exited" => age > Stale
===============================================================================

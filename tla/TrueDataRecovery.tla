--------------------------- MODULE TrueDataRecovery ---------------------------
(***************************************************************************)
(* Who brings the TrueData feed back: the supervisor of the feed client    *)
(* (backend/app/ingest/truedata_feed.py), the session's state machine      *)
(* (auth/td_session.py), the steward (ingest/truedata_steward.py), the     *)
(* proxy probe (core/proxy_health.py) and the boot of the process          *)
(* (main.py), around a vendor that admits one session per user.            *)
(*                                                                         *)
(* Where FeedRecovery's broker kills the old session at a new login, this  *)
(* vendor refuses the new login while an old session is held, and forgets  *)
(* a session it was not logged out of after a minute without attempts.     *)
(*                                                                         *)
(* No clock: an interval is over when its action is taken.                 *)
(***************************************************************************)
EXTENDS Integers

CONSTANTS
    ToWedged,   \* REJECTIONS_TO_WEDGED
    Patience,   \* SUICIDE_AFTER_S, in intervals of the ladder
    Faults,     \* what may go wrong
    MaxFaults   \* bound: how often, in all

ASSUME WedgedAssumption == ToWedged \in Nat \ {0} /\ {Patience, MaxFaults} \subseteq Nat
ASSUME FaultsAssumption ==
    Faults \subseteq {"line", "network", "mute", "raise", "logout", "ask", "build",
                      "crash", "deploy", "bootcut"}

VARIABLES
    line,       \* the proxy: up, and what proxy_health last saw
    vendor,     \* who holds the session: "free"; "ours", the socket _ws refers to;
                \* "leak", a socket of ours _ws no longer refers to; "locked", nobody
    sess,       \* TrueDataSession: _state, consecutive_rejections (up to ToWedged), and
                \* whether a logout was fired within LOGOUT_MIN_INTERVAL_S
    feed,       \* runtime.feed_client: where its supervisor is, _ws, the login reply
                \* under way, _connected, _stopping, and whether _connect_started_at is
                \* more than STUCK_IN_CONNECT_S ago
    stw,        \* the steward: where it is, its rung, and the length of the outage: 0
                \* none, 1 noted, then one for every interval
    gate,       \* ESCALATE_MIN_INTERVAL_S: "closed", "tried" (an attempt has ended
                \* since), "open"
    asked,      \* _explicit_request
    fresh,      \* rows of the socket were flushed within STALE_AFTER_S
    warm,       \* the warm-up before the open, and its grace
    first,      \* history: since a boot that had its cool-down no login was answered, and
                \* the ladder has ended none
    faults

vars == <<line, vendor, sess, feed, stw, gate, asked, fresh, warm, first, faults>>

NewFeed == [at |-> "sleep", ws |-> FALSE, reply |-> "none", connected |-> FALSE,
            stopping |-> FALSE, long |-> FALSE]
NoFeed == [NewFeed EXCEPT !.at = "none"]

Sessions == [st : {"disconnected", "connecting", "live", "wedged", "cooldown"},
             rej : 0 .. ToWedged, limited : BOOLEAN]
Clients == [at : {"none", "sleep", "dial", "login", "subscribe", "hold"}, ws : BOOLEAN,
            reply : {"none", "yes", "no"}, connected : BOOLEAN, stopping : BOOLEAN,
            long : BOOLEAN]
Stewards == [at : {"idle", "logout", "rebuild", "exit", "gone", "boot"}, step : 0 .. 2,
             down : 0 .. Patience + 1]

\* What _ws, the reply and the vendor say of one another.
SocketsAgree ==
    /\ vendor = "ours" => feed.ws
    /\ feed.reply # "none" <=> feed.at = "login"
    /\ feed.at \in {"login", "subscribe", "hold"} => feed.ws

TypeOK ==
    /\ line \in [up : BOOLEAN, known : BOOLEAN]
    /\ vendor \in {"free", "ours", "leak", "locked"}
    /\ sess \in Sessions /\ feed \in Clients /\ stw \in Stewards
    /\ gate \in {"closed", "tried", "open"}
    /\ asked \in BOOLEAN /\ fresh \in BOOLEAN /\ warm \in BOOLEAN /\ first \in BOOLEAN
    /\ faults \in 0 .. MaxFaults
    /\ SocketsAgree

\* The process starts: the boot's logout is about to go out.
Init ==
    /\ line \in [up : {TRUE}, known : {TRUE}]
    /\ vendor \in {"free", "locked"}
    /\ sess = [st |-> "disconnected", rej |-> 0, limited |-> TRUE]
    /\ feed = NoFeed
    /\ stw = [at |-> "boot", step |-> 0, down |-> 0]
    /\ gate = "open" /\ asked = FALSE /\ fresh = FALSE /\ warm \in BOOLEAN
    /\ first = TRUE /\ faults = 0

Running == stw.at \notin {"gone", "boot"}
Strikes(fault) == fault \in Faults /\ faults < MaxFaults /\ faults' = faults + 1
Calm == UNCHANGED faults
Streaming == feed.at = "hold" /\ feed.connected /\ vendor = "ours" /\ line.up

-----------------------------------------------------------------------------
(* td_session.py: the transitions, as functions of the session.             *)

MarkConnecting(s) == [s EXCEPT !.st = "connecting"]

\* Mutant of MarkLive: the count of rejections is kept.
MarkLiveCounted(s) == [s EXCEPT !.st = "live"]

MarkLive(s) == [s EXCEPT !.st = "live", !.rej = 0]

\* A refusal overwrites the state whatever it is.
MarkRejected(s) ==
    LET n == IF s.rej < ToWedged THEN s.rej + 1 ELSE s.rej
    IN  [s EXCEPT !.rej = n, !.st = IF n = ToWedged THEN "wedged" ELSE "disconnected"]

MarkDisconnected(s) ==
    IF s.st \in {"cooldown", "wedged"} THEN s ELSE [s EXCEPT !.st = "disconnected"]

\* The cool-down is over, found by whoever reads the state next.  It is longer than an
\* attempt and than the silence of a connection cut off, and an attempt inside it
\* overwrites the state: the vendor had its minute.
CooldownEnds ==
    /\ sess.st = "cooldown" /\ stw.at # "gone"
    /\ feed.at \in {"none", "sleep"} \/ vendor = "ours"
    /\ sess' = [sess EXCEPT !.st = "disconnected"]
    /\ vendor' = IF vendor = "locked" THEN "free" ELSE vendor
    /\ UNCHANGED <<line, feed, stw, gate, asked, fresh, warm, first, faults>>

LimitEnds ==
    /\ sess.limited /\ sess' = [sess EXCEPT !.limited = FALSE]
    /\ UNCHANGED <<line, vendor, feed, stw, gate, asked, fresh, warm, first, faults>>

-----------------------------------------------------------------------------
(* The feed client: _supervisor and _connect_once.                          *)

Tried == gate' = IF gate = "closed" THEN "tried" ELSE gate

\* Mutant of MayConnect: a cool-down is no reason to wait.
ConnectsAnyway == TRUE

\* mark_connecting raises in a cool-down, and the supervisor sleeps again.
MayConnect == sess.st # "cooldown"

\* Out of its backoff, by time or by a kick.
Dial ==
    /\ feed.at = "sleep" /\ ~feed.stopping /\ MayConnect
    /\ feed' = [feed EXCEPT !.at = "dial", !.long = FALSE]
    /\ sess' = MarkConnecting(sess)
    /\ UNCHANGED <<line, vendor, stw, gate, asked, fresh, warm, first, faults>>

\* websockets.connect fails, or takes longer than CONNECT_TIMEOUT_S.  No teardown.
DialFails ==
    /\ feed.at = "dial"
    /\ (~line.up /\ Calm) \/ Strikes("network")
    /\ feed' = [feed EXCEPT !.at = "sleep"] /\ Tried
    /\ UNCHANGED <<line, vendor, sess, stw, asked, fresh, warm, first>>

\* The socket is open and replaces whatever _ws was; the vendor judges the login.
Opens ==
    /\ feed.at = "dial" /\ line.up
    /\ feed' = [feed EXCEPT !.at = "login", !.ws = TRUE,
                            !.reply = IF vendor = "free" THEN "yes" ELSE "no"]
    /\ vendor' = CASE vendor = "free" -> "ours"
                   [] vendor = "ours" -> "leak"
                   [] OTHER -> vendor
    /\ UNCHANGED <<line, sess, stw, gate, asked, fresh, warm, first, faults>>

\* No reply within LOGIN_TIMEOUT_S, or the socket closes: the exception leaves _ws
\* as it is, and the vendor may have admitted it.
LoginTimesOut ==
    /\ feed.at = "login"
    /\ (~line.up /\ Calm) \/ Strikes("mute")
    /\ vendor' \in {vendor, IF vendor = "ours" THEN "locked" ELSE vendor}
    /\ feed' = [feed EXCEPT !.at = "sleep", !.reply = "none"] /\ Tried /\ first' = FALSE
    /\ UNCHANGED <<line, sess, stw, asked, fresh, warm>>

Refused ==
    /\ feed.at = "login" /\ feed.reply = "no"
    /\ sess' = MarkRejected(sess)
    /\ feed' = [feed EXCEPT !.at = "sleep", !.reply = "none", !.ws = FALSE, !.connected = FALSE]
    /\ Tried /\ first' = FALSE
    /\ UNCHANGED <<line, vendor, stw, asked, fresh, warm, faults>>

\* The connect lock is released; the tasks of the connection are started.
Accepted ==
    /\ feed.at = "login" /\ feed.reply = "yes"
    /\ sess' = MarkLive(sess)
    /\ feed' = [feed EXCEPT !.at = "subscribe", !.reply = "none", !.connected = TRUE]
    /\ Tried /\ first' = FALSE
    /\ UNCHANGED <<line, vendor, stw, asked, fresh, warm, faults>>

\* _resubscribe_all; without contracts the connection is dropped again.
Subscribes ==
    /\ feed.at = "subscribe"
    /\ \/ feed' = [feed EXCEPT !.at = "hold"] /\ UNCHANGED sess /\ Calm
       \/ /\ feed' = [feed EXCEPT !.at = "hold", !.connected = FALSE]
          /\ sess' = MarkDisconnected(sess) /\ Strikes("network")
    /\ UNCHANGED <<line, vendor, stw, gate, asked, fresh, warm, first>>

\* Its provider raises: the supervisor backs off and leaves the connection behind.
SubscribeRaises ==
    /\ feed.at = "subscribe" /\ Strikes("raise")
    /\ feed' = [feed EXCEPT !.at = "sleep"]
    /\ UNCHANGED <<line, vendor, sess, stw, gate, asked, fresh, warm, first>>

\* The socket closes under the reader, the one of a forgotten connection too: each
\* clears the one _connected there is.
ReaderEnds ==
    /\ vendor \in {"ours", "leak"} /\ feed.reply # "yes" /\ Running /\ Strikes("network")
    /\ vendor' = "locked"
    /\ feed' = [feed EXCEPT !.connected = FALSE]
    /\ UNCHANGED <<line, sess, stw, gate, asked, fresh, warm, first>>

\* _heartbeat_watch: nothing decoded for HEARTBEAT_TIMEOUT_S.
GoesSilent ==
    /\ feed.connected /\ (~line.up \/ vendor # "ours")
    /\ feed' = [feed EXCEPT !.connected = FALSE] /\ sess' = MarkDisconnected(sess)
    /\ UNCHANGED <<line, vendor, stw, gate, asked, fresh, warm, first, faults>>

\* A close the vendor is not told of leaves the session held for a minute; what a
\* clean close without a logout does is not documented.
Closed == IF vendor # "ours" THEN {vendor} ELSE IF line.up THEN {"free", "locked"} ELSE {"locked"}

\* The connection has been held; _teardown, and a backoff.
Teardown ==
    /\ feed.at = "hold" /\ (~feed.connected \/ feed.stopping)
    /\ vendor' \in Closed
    /\ feed' = [feed EXCEPT !.at = "sleep", !.ws = FALSE, !.connected = FALSE]
    /\ UNCHANGED <<line, sess, stw, gate, asked, fresh, warm, first, faults>>

\* The connection lasts: _connect_started_at is not reset when it ends.
Lasts ==
    /\ feed.at = "hold" /\ feed.connected /\ feed' = [feed EXCEPT !.long = TRUE]
    /\ UNCHANGED <<line, vendor, sess, stw, gate, asked, fresh, warm, first, faults>>

\* stuck_in_connect_s > STUCK_IN_CONNECT_S
Stuck == ~feed.connected /\ feed.long

-----------------------------------------------------------------------------
(* The world around.                                                        *)

LineFails ==
    /\ line.up /\ Strikes("line") /\ line' = [line EXCEPT !.up = FALSE]
    /\ UNCHANGED <<vendor, sess, feed, stw, gate, asked, fresh, warm, first>>

LineBack ==
    /\ ~line.up /\ line' = [line EXCEPT !.up = TRUE]
    /\ UNCHANGED <<vendor, sess, feed, stw, gate, asked, fresh, warm, first, faults>>

Probe ==
    /\ Running /\ line.known # line.up /\ line' = [line EXCEPT !.known = line.up]
    /\ UNCHANGED <<vendor, sess, feed, stw, gate, asked, fresh, warm, first, faults>>

\* A minute without an attempt; a backoff may last as long.
VendorForgets ==
    /\ vendor = "locked" /\ feed.at \in {"none", "sleep"} /\ vendor' = "free"
    /\ UNCHANGED <<line, sess, feed, stw, gate, asked, fresh, warm, first, faults>>

\* on_flush with rows of the socket, and their ageing.
Flush ==
    /\ fresh # Streaming /\ Running /\ fresh' = Streaming
    /\ UNCHANGED <<line, vendor, sess, feed, stw, gate, asked, warm, first, faults>>

\* The open, and its grace.
MarketOpens ==
    /\ warm /\ warm' = FALSE
    /\ UNCHANGED <<line, vendor, sess, feed, stw, gate, asked, fresh, first, faults>>

\* The login endpoint or a symbol switch asks.
Asks ==
    /\ Running /\ ~asked /\ Strikes("ask") /\ asked' = TRUE
    /\ UNCHANGED <<line, vendor, sess, feed, stw, gate, fresh, warm, first>>

Longer(s) == IF s.down \in 1 .. Patience THEN [s EXCEPT !.down = @ + 1] ELSE s

\* The outage goes on while the ladder is parked.
Drags ==
    /\ Running /\ ~line.known /\ stw' = Longer(stw)
    /\ UNCHANGED <<line, vendor, sess, feed, gate, asked, fresh, warm, first, faults>>

\* An interval fits an attempt (20 + 20 s against 90 s), or a cool-down and an
\* attempt, and the first rows of a new connection.
GateOpens ==
    /\ stw.at = "idle"
    /\ gate = "tried" \/ (gate = "closed" /\ (feed.at = "none" \/ Streaming))
    /\ feed.at # "subscribe"
    /\ Streaming => fresh
    /\ gate' = "open" /\ stw' = Longer(stw)
    /\ UNCHANGED <<line, vendor, sess, feed, asked, fresh, warm, first, faults>>

-----------------------------------------------------------------------------
(* The steward: _tick.                                                      *)

Healthy ==
    IF warm THEN feed.at # "none" /\ sess.st \in {"live", "connecting"}
    ELSE fresh /\ ~Stuck

Signature == sess.st = "wedged" \/ sess.rej >= 1 \/ (feed.at # "none" /\ Stuck)

\* _escalate, past its gate; s is the steward with the outage noted.
Rung(s) ==
    CASE s.step = 0 ->
           /\ stw' = [s EXCEPT !.step = IF Signature THEN 1 ELSE 2]
           /\ feed' = [feed EXCEPT !.connected = FALSE]
           /\ UNCHANGED <<vendor, sess>>
      [] s.step = 1 /\ sess.limited ->
           stw' = [s EXCEPT !.step = 2] /\ UNCHANGED <<vendor, sess, feed>>
      [] s.step = 1 /\ ~sess.limited ->
           /\ stw' = [s EXCEPT !.at = "logout"]
           /\ sess' = [sess EXCEPT !.limited = TRUE]
           /\ UNCHANGED <<vendor, feed>>
      \* rebuild_feed_client: stop, which logs out on the socket there is
      [] s.step = 2 ->
           /\ stw' = [s EXCEPT !.at = "rebuild"]
           /\ feed' = [feed EXCEPT !.stopping = TRUE]
           /\ vendor' = IF vendor = "ours" /\ line.up /\ feed.at # "login" THEN "free" ELSE vendor
           /\ UNCHANGED sess

Escalate(s, forced) ==
    IF (~forced /\ gate # "open") \/ sess.st = "cooldown" \/ ~line.known
    THEN stw' = s /\ UNCHANGED <<vendor, sess, feed, gate>>
    ELSE gate' = "closed" /\ Rung(s)

ShouldExit == stw.down > Patience /\ sess.st # "cooldown"

Tick ==
    /\ stw.at = "idle"
    /\ IF Healthy
       THEN /\ stw' = [at |-> "idle", step |-> 0, down |-> 0] /\ asked' = FALSE
            /\ UNCHANGED <<vendor, sess, feed, gate>>
       ELSE LET s == [stw EXCEPT !.down = IF @ = 0 THEN 1 ELSE @]
            IN  /\ asked' = FALSE
                /\ CASE asked -> Escalate(s, TRUE)
                     [] ~asked /\ ShouldExit -> /\ stw' = [s EXCEPT !.at = "exit"]
                                                /\ sess' = [sess EXCEPT !.limited = TRUE]
                                                /\ UNCHANGED <<vendor, feed, gate>>
                     [] OTHER -> Escalate(s, FALSE)
    /\ UNCHANGED <<line, fresh, warm, first, faults>>

\* logoutRequest at the vendor: the session ends, whoever holds it.
LoggedOut == IF vendor = "free" THEN "free" ELSE "locked"

\* The cool-down begins whether or not the call succeeded, over whatever state the
\* supervisor has reached meanwhile.
Cools(s) == [s EXCEPT !.st = "cooldown"]

\* What a process that ends leaves behind: the vendor is told only of a logout.
Ended == [feed |-> NoFeed, vendor |-> IF vendor = "free" THEN "free" ELSE "locked"]

\* logout_request returns: to the ladder, to _do_exit, which leaves the process, or
\* to the lifespan, which starts the feed.
LogoutAnswers ==
    /\ stw.at \in {"logout", "exit", "boot"}
    /\ \E ok \in BOOLEAN :
         /\ IF ok THEN line.up /\ Calm ELSE (~line.up /\ Calm) \/ Strikes("logout")
         /\ sess' = Cools(sess)
         /\ CASE stw.at = "boot" -> vendor' = (IF ok THEN LoggedOut ELSE vendor) /\ feed' = NewFeed
              [] stw.at = "exit" -> vendor' = Ended.vendor /\ feed' = Ended.feed
              [] stw.at = "logout" ->
                   /\ vendor' = IF ok THEN LoggedOut ELSE vendor
                   /\ feed' = IF ok /\ feed.reply = "yes" THEN [feed EXCEPT !.reply = "no"] ELSE feed
    /\ stw' = CASE stw.at = "logout" -> [stw EXCEPT !.at = "idle", !.step = 2]
                [] stw.at = "exit" -> [stw EXCEPT !.at = "gone"]
                [] stw.at = "boot" -> [stw EXCEPT !.at = "idle"]
    /\ first' = (first /\ stw.at = "boot")
    /\ UNCHANGED <<line, gate, asked, fresh, warm>>

\* The boot's call is cut off by its own timeout: no cool-down.
BootCut ==
    /\ stw.at = "boot" /\ Strikes("bootcut")
    /\ stw' = [stw EXCEPT !.at = "idle"] /\ feed' = NewFeed /\ first' = FALSE
    /\ UNCHANGED <<line, vendor, sess, gate, asked, fresh, warm>>

\* The old client is stopped, its socket closed, its tasks cancelled; start_feed.
\* The ladder goes back to the rung of the logout, whatever the evidence.
Rebuilds ==
    /\ stw.at = "rebuild"
    /\ vendor' \in Closed
    /\ \/ feed' = NewFeed /\ Calm
       \/ feed' = NoFeed /\ Strikes("build")
    /\ stw' = [stw EXCEPT !.at = "idle", !.step = 1] /\ first' = FALSE
    /\ UNCHANGED <<line, sess, gate, asked, fresh, warm>>

\* The process ends without a word, or by the lifespan's own shutdown, which logs
\* out on the socket.
Crash ==
    /\ Running /\ Strikes("crash")
    /\ stw' = [stw EXCEPT !.at = "gone"]
    /\ vendor' = Ended.vendor /\ feed' = Ended.feed
    /\ UNCHANGED <<line, sess, gate, asked, fresh, warm, first>>

Deploy ==
    /\ stw.at = "idle" /\ Strikes("deploy")
    /\ stw' = [stw EXCEPT !.at = "gone"]
    /\ vendor' = IF vendor = "ours" /\ line.up /\ feed.at # "login" THEN "free" ELSE Ended.vendor
    /\ feed' = Ended.feed
    /\ UNCHANGED <<line, sess, gate, asked, fresh, warm, first>>

\* Docker starts it again: a new session object, a probe, a forced logout.
Boot ==
    /\ stw.at = "gone"
    /\ stw' = [at |-> "boot", step |-> 0, down |-> 0]
    /\ sess' = [st |-> "disconnected", rej |-> 0, limited |-> TRUE]
    /\ line' = [line EXCEPT !.known = line.up]
    /\ gate' = "open" /\ asked' = FALSE /\ fresh' = FALSE /\ first' = TRUE
    /\ UNCHANGED <<vendor, feed, warm, faults>>

-----------------------------------------------------------------------------
Supervise == Dial \/ DialFails \/ Opens \/ LoginTimesOut \/ Refused \/ Accepted
             \/ Subscribes \/ SubscribeRaises \/ ReaderEnds \/ GoesSilent \/ Teardown \/ Lasts
World == LineFails \/ LineBack \/ Probe \/ VendorForgets \/ Flush \/ MarketOpens \/ Asks
         \/ Drags \/ GateOpens
Process == BootCut \/ Rebuilds \/ Crash \/ Deploy \/ Boot

Next == Supervise \/ World \/ CooldownEnds \/ LimitEnds \/ Tick \/ LogoutAnswers \/ Process

\* The tasks are scheduled, the calls are answered within their timeouts, the market
\* opens.  An attempt or the first rows of a connection take a second or two, of the
\* fifteen between two ticks and the ninety between two rungs: not every logout of the
\* ladder meets an attempt, and not every connection is nudged before its first rows.
Attempting == feed.at \in {"dial", "login"}

Fairness ==
    /\ WF_vars(Dial) /\ WF_vars(Opens) /\ WF_vars(Refused) /\ WF_vars(Accepted)
    /\ WF_vars(Subscribes) /\ WF_vars(GoesSilent) /\ WF_vars(Teardown)
    /\ WF_vars(Probe) /\ WF_vars(Flush) /\ WF_vars(MarketOpens) /\ WF_vars(GateOpens)
    /\ WF_vars(CooldownEnds) /\ WF_vars(LimitEnds)
    /\ WF_vars(Tick) /\ WF_vars(LogoutAnswers) /\ WF_vars(Rebuilds) /\ WF_vars(Boot)
    /\ SF_vars(~Attempting /\ stw.step = 1 /\ Tick)
    /\ SF_vars(~Attempting /\ stw.at = "logout" /\ LogoutAnswers)
    /\ SF_vars(feed.connected /\ ~feed.stopping /\ vendor = "ours" /\ Subscribes)
    /\ SF_vars(Streaming /\ Flush)

Spec == Init /\ [][Next]_vars /\ Fairness

-----------------------------------------------------------------------------
\* Main.py:56-65: the boot assumes a dirty exit, and the cool-down it enters lets
\* the vendor forget the process before: the first login of a boot is accepted.
FirstLoginAccepted == first /\ feed.at = "login" => feed.reply = "yes"

\* A socket the vendor has admitted clears the evidence against the session: a feed
\* that is connected never looks wedged to the steward.
ConnectedClearsWedge ==
    feed.connected /\ feed.at \in {"subscribe", "hold"} => sess.st # "wedged" /\ sess.rej = 0

\* Whatever has happened to the socket, the session, the ladder or the process, once
\* the proxy stays up the feed streams again and again.
Recovers == <>[]line.up => []<>Streaming

\* truedata_steward.py:26: "the rule that it fires ONLY on the wedge signature".
WedgeRungOnSignature ==
    [][stw.at = "idle" /\ stw'.at = "logout" => Signature]_vars
=============================================================================

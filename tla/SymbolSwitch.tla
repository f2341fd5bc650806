----------------------------- MODULE SymbolSwitch -----------------------------
(***************************************************************************)
(* Which symbol the live feed streams: the symbol controller               *)
(* (backend/app/ingest/symbol_controller.py), called by the dashboard and  *)
(* by the ATM drift watch (ingest/atm_drift_watch.py), the XTS client's    *)
(* swap, connect and subscribe (ingest/ws_client.py), the provider and the *)
(* spot refresher (ingest/feed_factory.py), all around one runtime.        *)
(*                                                                         *)
(* A price, a universe and an instrument are the symbol they belong to.    *)
(* Every await is a step boundary.  Symbols are F&O symbols.               *)
(***************************************************************************)
EXTENDS Naturals

CONSTANTS
    Symbols,
    None,           \* no symbol: nothing known, an empty universe
    MaxAsks,        \* bound: the dashboard's switches
    MaxFaults,      \* bound: failing lookups and calls, and rebuilds
    Cycles          \* TRUE: the gateway cycles the socket now and then

Assumptions ==
    None \notin Symbols /\ MaxAsks \in Nat /\ MaxFaults \in Nat /\ Cycles \in BOOLEAN

VARIABLES
    rt,         \* runtime: active, tokens, spot, and gen, the feed client's (0: None)
    feed,       \* the client: where it is, _token_meta, _index_token,
                \* _latest_underlying, _sub_groups
    prov,       \* the locals of its connect: the provider's, the groups to subscribe
    broker,     \* the instruments subscribed on the appKey, socket or no socket
    wait,       \* who is inside switch_active_symbol, with which argument
    body,       \* the one that holds _switch_lock
    watch,      \* the drift watch has a last_sub_spot
    asks, faults,
    wanted,     \* history: the last switch the dashboard was told is done
    met, clean  \* history: did this (the last) switch meet a connect or a rebuild?

vars == <<rt, feed, prov, broker, wait, body, watch, asks, faults, wanted, met, clean>>

Maybe == Symbols \cup {None}
Insts == {"opt", "idx"} \X Symbols
\* _build_subscription_groups
Groups(meta, index) == {<<"opt", s>> : s \in Symbols \cap {meta}} \cup {<<"idx", index>>}
Connecting == {"spot", "resolve", "handshake", "subscribe"}
NoSwitch == [at |-> "idle", by |-> "user", sym |-> None, spot |-> None, gen |-> 0,
             token |-> FALSE, tokens |-> None, old |-> {}]
NoConnect == [sym |-> None, spot |-> None, again |-> FALSE, groups |-> {}]

Runtimes == [active : Symbols, tokens : Maybe, spot : Maybe, gen : 0 .. MaxFaults + 1]
Clients  == [at : {"none", "down", "up"} \cup Connecting, meta : Maybe, index : Symbols,
             spot : Maybe, groups : SUBSET Insts]
Connects == [sym : Maybe, spot : Maybe, again : BOOLEAN, groups : SUBSET Insts]
Switches == [at : {"idle", "spot", "universe", "unsub", "sub"}, by : {"user", "watch"},
             sym : Maybe, spot : Maybe, gen : 0 .. MaxFaults + 1, token : BOOLEAN,
             tokens : Maybe, old : SUBSET Insts]

TypeOK ==
    /\ rt \in Runtimes /\ feed \in Clients /\ prov \in Connects /\ body \in Switches
    /\ broker \subseteq Insts
    /\ wait \in [{"user", "watch"} -> Maybe]
    /\ body.at # "idle" => body.sym = wait[body.by] /\ body.sym # None
    /\ watch \in BOOLEAN
    /\ asks \in 0 .. MaxAsks /\ faults \in 0 .. MaxFaults
    /\ wanted \in Symbols /\ met \in BOOLEAN /\ clean \in BOOLEAN

Client(index) == [at |-> "down", meta |-> None, index |-> index, spot |-> None, groups |-> {}]

\* Started on s by the factory.
Init ==
    \E s \in Symbols :
        /\ rt = [active |-> s, tokens |-> None, spot |-> None, gen |-> 1]
        /\ feed = Client(s) /\ prov = NoConnect /\ broker = {}
        /\ wait = [c \in {"user", "watch"} |-> None] /\ body = NoSwitch
        /\ watch = FALSE
        /\ asks = 0 /\ faults = 0
        /\ wanted = s /\ met = FALSE /\ clean = TRUE

Strikes == faults < MaxFaults /\ faults' = faults + 1
\* A lookup of s that may fail.
Looked(s, found) == (found = s /\ UNCHANGED faults) \/ (found = None /\ Strikes)

-----------------------------------------------------------------------------
(* The connect: _connect_once and _resubscribe_provider.                    *)

\* The spot there is, whosever it is, or a quote for the active symbol.
Connect ==
    /\ feed.at = "down"
    /\ IF rt.spot # None
       THEN /\ feed' = [feed EXCEPT !.at = "resolve"]
            /\ prov' = [NoConnect EXCEPT !.sym = rt.active, !.spot = rt.spot]
       ELSE /\ feed' = [feed EXCEPT !.at = "spot"]
            /\ prov' = [NoConnect EXCEPT !.sym = rt.active]
    /\ UNCHANGED <<rt, broker, wait, body, watch, asks, faults, wanted>>

\* _initial_spot: the quote; when it fails the database, for the symbol active by
\* then; or no spot and another try.
InitialSpot ==
    /\ feed.at = "spot"
    /\ \E spot \in Maybe :
         /\ Looked(prov.sym, spot) \/ (spot = rt.active /\ Strikes)
         /\ feed' = [feed EXCEPT !.at = IF spot = None THEN "down" ELSE "resolve"]
         /\ prov' = [prov EXCEPT !.sym = rt.active, !.spot = spot]
    /\ UNCHANGED <<rt, broker, wait, body, watch, asks, wanted>>

\* A window around another symbol's price is empty: quote the active symbol and
\* try once more, then keep what there is.
EmptyUniverse ==
    /\ feed.at = "resolve"
    /\ (prov.spot # prov.sym /\ UNCHANGED faults) \/ Strikes
    /\ feed' = [feed EXCEPT !.at = IF prov.again THEN "down" ELSE "spot"]
    /\ prov' = [prov EXCEPT !.again = TRUE, !.sym = rt.active]
    /\ UNCHANGED <<rt, broker, wait, body, watch, asks, wanted>>

\* Mutant of Resolved: the universe resolved first is kept over reconnects.
ResolvedOnce ==
    /\ feed.at = "resolve" /\ prov.spot = prov.sym
    /\ rt' = [rt EXCEPT !.tokens = prov.sym, !.spot = prov.spot]
    /\ feed' = [feed EXCEPT !.at = "handshake", !.spot = prov.spot,
                            !.meta = IF @ = None THEN prov.sym ELSE @]
    /\ UNCHANGED <<prov, broker, wait, body, watch, asks, faults, wanted>>

\* The provider publishes and returns; the client takes what it returned.
Resolved ==
    /\ feed.at = "resolve" /\ prov.spot = prov.sym
    /\ rt' = [rt EXCEPT !.tokens = prov.sym, !.spot = prov.spot]
    /\ feed' = [feed EXCEPT !.at = "handshake", !.meta = prov.sym, !.spot = prov.spot]
    /\ UNCHANGED <<prov, broker, wait, body, watch, asks, faults, wanted>>

Handshake ==
    /\ feed.at = "handshake"
    /\ \/ /\ feed' = [feed EXCEPT !.at = "subscribe"]
          /\ prov' = [prov EXCEPT !.groups = Groups(feed.meta, feed.index)]
          /\ UNCHANGED faults
       \/ Strikes /\ feed' = [feed EXCEPT !.at = "down"] /\ UNCHANGED prov
    /\ UNCHANGED <<rt, broker, wait, body, watch, asks, wanted>>

\* _subscribe_all; when it fails the socket is connected all the same.
Subscribe ==
    /\ feed.at = "subscribe"
    /\ \/ /\ broker' = broker \cup prov.groups
          /\ feed' = [feed EXCEPT !.at = "up", !.groups = prov.groups]
          /\ UNCHANGED faults
       \/ Strikes /\ feed' = [feed EXCEPT !.at = "up"] /\ UNCHANGED broker
    /\ prov' = NoConnect
    /\ UNCHANGED <<rt, wait, body, watch, asks, wanted>>

\* The gateway's cycle, the heartbeat, a nudge of the steward or the open watch.
Drop ==
    /\ Cycles /\ feed.at = "up"
    /\ feed' = [feed EXCEPT !.at = "down"]
    /\ UNCHANGED <<rt, prov, broker, wait, body, watch, asks, faults, wanted>>

\* rebuild_feed_client: the old client is stopped, then a new one is built for
\* the symbol active at that time.
Stop ==
    /\ feed.at # "none" /\ Strikes
    /\ rt' = [rt EXCEPT !.gen = 0]
    /\ feed' = [feed EXCEPT !.at = "none"] /\ prov' = NoConnect
    /\ UNCHANGED <<broker, wait, body, watch, asks, wanted>>

Build ==
    /\ feed.at = "none"
    /\ feed' = Client(rt.active)
    /\ rt' = [rt EXCEPT !.gen = faults + 1]
    /\ UNCHANGED <<prov, broker, wait, body, watch, asks, faults, wanted>>

\* _handle_touchline, for the index.
IndexTick ==
    /\ feed.at \in {"subscribe", "up"} /\ <<"idx", feed.index>> \in broker
    /\ feed.spot # feed.index
    /\ feed' = [feed EXCEPT !.spot = feed.index]
    /\ UNCHANGED <<rt, prov, broker, wait, body, watch, asks, faults, wanted>>

\* _spot_refresher
Refresh ==
    /\ rt.gen # 0 /\ feed.spot \notin {None, rt.spot}
    /\ rt' = [rt EXCEPT !.spot = feed.spot]
    /\ UNCHANGED <<feed, prov, broker, wait, body, watch, asks, faults, wanted>>

-----------------------------------------------------------------------------
(* switch_active_symbol: the dashboard's, and the drift watch's.            *)

Ask(s) ==
    /\ wait["user"] = None /\ asks < MaxAsks
    /\ wait' = [wait EXCEPT !["user"] = s] /\ asks' = asks + 1
    /\ UNCHANGED <<rt, feed, prov, broker, body, watch, faults, wanted>>

\* The drift watch has a spot and its window: the first one is noted; later ones
\* may have drifted, and another symbol's price has.
WatchDecides ==
    /\ wait["watch"] = None /\ rt.spot # None
    /\ IF ~watch THEN watch' = TRUE /\ UNCHANGED wait
       ELSE wait' = [wait EXCEPT !["watch"] = rt.active] /\ UNCHANGED watch
    /\ UNCHANGED <<rt, feed, prov, broker, body, asks, faults, wanted>>

Acquire(c) ==
    /\ body.at = "idle" /\ wait[c] # None
    /\ body' = [NoSwitch EXCEPT !.at = "spot", !.by = c, !.sym = wait[c]]
    /\ UNCHANGED <<rt, feed, prov, broker, wait, watch, asks, faults, wanted>>

\* _resolve_spot_token and _fetch_spot_ltp have answered; the client is the one
\* published now.
SpotAnswers ==
    /\ body.at = "spot"
    /\ \E token \in BOOLEAN, spot \in Maybe :
         /\ ~token => spot = None
         /\ Looked(body.sym, spot)
         /\ body' = [body EXCEPT !.at = "universe", !.spot = spot, !.token = token,
                                 !.gen = rt.gen]
    /\ UNCHANGED <<rt, feed, prov, broker, wait, watch, asks, wanted>>

\* The end of the switch, b being its locals.
Finish(b) ==
    /\ rt' = [rt EXCEPT !.active = b.sym, !.tokens = b.tokens,
                        !.spot = b.spot]
    /\ body' = NoSwitch
    /\ wait' = [wait EXCEPT ![b.by] = None]
    /\ wanted' = IF b.by = "user" THEN b.sym ELSE wanted

\* Mutant of Swapped: the price of the old index is kept.
SwappedSpotKept(b) == [feed EXCEPT !.meta = b.tokens, !.index = b.sym]

\* What swap_subscription sets at once.
Swapped(b) == [feed EXCEPT !.meta = b.tokens, !.index = b.sym, !.spot = None]

\* The window: the quote, the database's price, or the runtime's if it is this
\* symbol's.  Then the swap: on the client looked up before, if it still lives;
\* deferred when it is not connected.
UniverseAnswers ==
    /\ body.at = "universe"
    /\ \E stored \in Maybe, tokens \in Maybe :
         LET same == IF rt.active = body.sym THEN rt.spot ELSE None
             window == IF body.spot # None THEN body.spot
                       ELSE IF stored # None THEN stored ELSE same
             b == [body EXCEPT !.tokens = tokens, !.spot = window]
         IN  /\ stored \in {None, body.sym}
             /\ Looked(IF window = body.sym THEN body.sym ELSE None, tokens)
             /\ IF ~b.token \/ b.gen = 0 \/ b.gen # rt.gen
                THEN Finish(b) /\ UNCHANGED feed
                ELSE /\ feed' = Swapped(b)
                     /\ IF feed.at = "up"
                        THEN /\ body' = [b EXCEPT !.at = "unsub", !.old = feed.groups]
                             /\ UNCHANGED <<rt, wait, wanted>>
                        ELSE Finish(b)
    /\ UNCHANGED <<prov, broker, watch, asks>>

\* The old instruments are unsubscribed; an error ends the swap, not the switch.
Unsubscribed ==
    /\ body.at = "unsub"
    /\ \/ /\ broker' = broker \ body.old
          /\ body' = [body EXCEPT !.at = "sub"]
          /\ UNCHANGED <<rt, wait, wanted, faults>>
       \/ Strikes /\ Finish(body) /\ UNCHANGED broker
    /\ UNCHANGED <<feed, prov, watch, asks>>

Subscribed ==
    /\ body.at = "sub"
    /\ \/ /\ broker' = broker \cup Groups(body.tokens, body.sym)
          /\ feed' = IF body.gen = rt.gen
                     THEN [feed EXCEPT !.groups = Groups(body.tokens, body.sym)] ELSE feed
          /\ UNCHANGED faults
       \/ Strikes /\ UNCHANGED <<broker, feed>>
    /\ Finish(body)
    /\ UNCHANGED <<prov, watch, asks>>

-----------------------------------------------------------------------------
FeedStep == Connect \/ InitialSpot \/ EmptyUniverse \/ Resolved \/ Handshake \/ Subscribe
            \/ Build
SwitchStep == (\E c \in DOMAIN wait : Acquire(c))
              \/ SpotAnswers \/ UniverseAnswers \/ Unsubscribed \/ Subscribed
Step == FeedStep \/ SwitchStep \/ Drop \/ Stop \/ IndexTick \/ Refresh
        \/ (\E s \in Symbols : Ask(s)) \/ WatchDecides

\* The history: a switch is clean when no connect was under way, no client was
\* replaced or missing and no lookup failed while it ran.
Follows ==
    LET meets == feed'.at \in Connecting \cup {"none"} \/ rt'.gen # rt.gen \/ faults' # faults
    IN  /\ met' = (body'.at # "idle" /\ ((body.at # "idle" /\ met) \/ meets))
        /\ clean' = IF body.at # "idle" /\ body'.at = "idle"
                    THEN ~met /\ ~meets /\ body.token ELSE clean

Next == Step /\ Follows

\* The calls are bounded by their timeouts and every task is scheduled; the
\* gateway cycles the socket every 67 s (ws_client.py:595).
Fairness ==
    /\ WF_vars(FeedStep /\ Follows) /\ WF_vars(SwitchStep /\ Follows)
    /\ SF_vars(Drop /\ Follows)

Spec == Init /\ [][Next]_vars /\ Fairness

-----------------------------------------------------------------------------
(* Properties.                                                              *)

\* After a switch that met no connect, no rebuild and no failed lookup, and over
\* all reconnects until the next switch, everybody speaks of the active symbol:
\* the chain, the index that prices its rows, and the published spot.
CleanSwitchAgrees ==
    clean /\ body.at = "idle" =>
        /\ feed.meta \in {None, rt.active} /\ feed.spot \in {None, rt.active}
        /\ rt.gen # 0 => feed.index = rt.active
        /\ rt.spot \in {None, rt.active} /\ rt.tokens \in {None, rt.active}

\* Whatever met whatever: when the dashboard asks no more, the cycles of the
\* gateway bring the chain of the active symbol.
ChainFollows == <>[](feed.at = "up" => feed.meta = rt.active)

\* "the ATM-drift watcher re-centres by calling this for the CURRENT symbol"
\* (symbol_controller.py:197-198): it moves nobody to another symbol, so the
\* switch the dashboard was told of stands.
SwitchStands == wait["user"] = None /\ body.at = "idle" => rt.active = wanted
===============================================================================

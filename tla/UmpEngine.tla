------------------------------ MODULE UmpEngine ------------------------------
(***************************************************************************)
(* The Ultra Master Pro engine (algo/engines/ump/engine.py): one-minute    *)
(* bars of a premium, the entry candle they build up, the trigger and test *)
(* candles, the retest entries, and a trade with its trailing stops and    *)
(* exits.  A minute may be missing; the candle whose last minute never     *)
(* came is closed when the next one begins.                                *)
(*                                                                         *)
(* Prices are integers.  A zone is Half wide on each side of its middle    *)
(* line, Stop is what an entry may lose, both in points instead of         *)
(* percent; neighbouring levels are a multiple of four apart.  Times are   *)
(* relative to the candle in progress: a latch of the code that holds the  *)
(* start of a candle is here whether that candle is this one.  0 is None   *)
(* for a price.                                                            *)
(***************************************************************************)
EXTENDS Integers, FiniteSetsExt

CONSTANTS
    Prices,     \* prices of a bar
    LevelSets,  \* what a build of the levels may yield
    Medians,    \* levels of type MEDIAN
    Half, Stop,
    Tf,         \* minutes of an entry candle
    Timeout,    \* trigger_timeout_bars
    Enabled,    \* entry kinds that are switched on
    EntryHigh,  \* trail_counts_entry_candle_high
    OneWick     \* bound: a minute has a wick on one side at most

VARIABLE eng

Kinds == {"S1A", "S1B", "S1C", "S2A", "S2B", "S3A", "S3B", "S3C", "R1", "R2"}
Retests == {"R1", "R2"}

NoTrigger == [on |-> FALSE, age |-> 0, scen |-> 0, b |-> 0]
NoFresh == [on |-> FALSE, o |-> 0, h |-> 0, l |-> 0]

\* here: entered in the candle in progress; now: in its newest minute.  seed, sbSeed: the
\* trail was set in this candle.  peak, under: history, see Properties.
NoTrade == [open |-> FALSE, sub |-> "R1", b |-> 0, eb |-> 0, msl |-> 0, here |-> FALSE,
            now |-> FALSE, trail |-> 0, high |-> 0, low |-> 0, seed |-> FALSE,
            sb |-> 0, sbLow |-> 0, sbSeed |-> FALSE, peak |-> 0, under |-> FALSE]

NewEngine ==
    [phase |-> -1, o |-> 0, h |-> 0, l |-> 0, c |-> 0, mh |-> 0, ml |-> 0, closed |-> TRUE,
     prev |-> 0, was |-> 0, pending |-> FALSE, fresh |-> NoFresh,
     levels |-> {}, trig |-> NoTrigger, pos |-> NoTrade, exited |-> FALSE, began |-> FALSE]

Candles == [on : BOOLEAN, o : Nat, h : Nat, l : Nat]
Triggers == [on : BOOLEAN, age : Nat, scen : 0 .. 3, b : Nat]
Trades ==
    [open : BOOLEAN, sub : Kinds, b : Nat, eb : Nat, msl : Int, here : BOOLEAN, now : BOOLEAN,
     trail : Nat, high : Nat, low : Nat, seed : BOOLEAN, sb : Int, sbLow : Nat,
     sbSeed : BOOLEAN, peak : Nat, under : BOOLEAN]
Engines ==
    [phase : -1 .. Tf - 1, o : Nat, h : Nat, l : Nat, c : Nat, mh : Nat, ml : Nat,
     closed : BOOLEAN, prev : Nat, was : Nat, pending : BOOLEAN, fresh : Candles,
     levels : SUBSET Nat, trig : Triggers, pos : Trades, exited : BOOLEAN, began : BOOLEAN]

TypeOK == eng \in Engines

Init == eng = NewEngine

-----------------------------------------------------------------------------
(* Geometry.                                                                *)

Upper(b) == b + Half
Top(b)   == b + 2 * Half

Above(L, p) == LET A == {b \in L : b > p} IN IF A = {} THEN 0 ELSE Min(A)

\* f_findZone: the scenario of a candle that opened below base and closed above it, and how
\* far its close is from the line the scenario goes by.
Scenario(b, c) == IF c > Top(b) THEN 1 ELSE IF c < Upper(b) THEN 2 ELSE 3
Distance(b, c) == CASE Scenario(b, c) = 1 -> c - Top(b)
                    [] Scenario(b, c) = 2 -> c - b
                    [] OTHER              -> c - Upper(b)
Origins(e, o) == {b \in e.levels : o < b /\ e.c > b}
Nearest(e, o) ==
    LET D(b) == Distance(b, e.c)
    IN  Min({b \in Origins(e, o) : \A a \in Origins(e, o) : D(b) <= D(a)})

\* What the rules read of the candle: inside the candle of the signal, what came after it.
View(e) == IF e.fresh.on THEN e.fresh ELSE [NoFresh EXCEPT !.o = e.o, !.h = e.h, !.l = e.l]

-----------------------------------------------------------------------------
(* Entries.                                                                 *)

\* _enter, unless the kind is switched off or the guard declines.
Enters(e, price, b, sub, guard) ==
    IF sub \notin Enabled \/ ~guard THEN e
    ELSE [e EXCEPT !.trig.on = FALSE,
                   !.pos = [NoTrade EXCEPT !.open = TRUE, !.sub = sub, !.b = b,
                                           !.eb = IF sub \in Retests THEN b ELSE 0,
                                           !.msl = price - Stop, !.here = TRUE, !.now = TRUE,
                                           !.peak = e.c]]

\* Step 1, on a confirmed green close.
Triggered(e, new5m) ==
    LET o == View(e).o
    IN  IF new5m /\ ~e.pos.open /\ ~e.trig.on /\ e.c > o /\ Origins(e, o) # {}
        THEN LET b == Nearest(e, o)
             IN  [e EXCEPT !.trig = [on |-> TRUE, age |-> 0, scen |-> Scenario(b, e.c), b |-> b]]
        ELSE e

\* Step 2: what a test candle may do, the first that fits.  price 0: nothing.
Tested(e) ==
    LET b == e.trig.b
        v == View(e)
        touches(p) == v.l <= p /\ v.h >= p
        base == <<"S1A", "S2A", "S3A">>
        upper == <<"S1B", "S2B", "S3B">>
    IN  CASE touches(b) -> [sub |-> base[e.trig.scen], price |-> b]
          [] v.l > b /\ v.l <= Upper(b) -> [sub |-> upper[e.trig.scen], price |-> Upper(b)]
          [] e.trig.scen = 1 /\ v.l > Upper(b) /\ v.l <= Top(b)
               -> [sub |-> "S1C", price |-> Top(b)]
          [] e.trig.scen = 3 /\ (v.l > Upper(b) \/ v.h < b) /\ e.c > Top(b) /\ v.o < Top(b)
               -> [sub |-> "S3C", price |-> Top(b)]
          [] OTHER -> [sub |-> "none", price |-> 0]

TestEntered(e, guard) ==
    IF ~e.trig.on \/ e.pos.open \/ e.exited \/ e.trig.age = 0 THEN e
    ELSE IF e.trig.age > Timeout THEN [e EXCEPT !.trig = NoTrigger]
    ELSE Enters(e, Tested(e).price, e.trig.b, Tested(e).sub, guard)

\* The retests of base and of the upper median.
Retest(e, b) ==
    LET v == View(e)
    IN  IF v.o > b /\ v.l <= b /\ e.c > b THEN "R1"
        ELSE IF v.o > Upper(b) /\ v.l <= Upper(b) /\ v.l > b /\ e.c > Upper(b) THEN "R2"
        ELSE "none"

\* Mutant of RetestEntered: the candle of an exit is no bar to it.
RetestEnteredAgain(e, guard) ==
    LET R == {b \in e.levels \ Medians : Retest(e, b) \in Enabled}
    IN  IF e.pos.open \/ e.trig.on \/ R = {} THEN e
        ELSE LET b == Min(R)
             IN  Enters(e, IF Retest(e, b) = "R1" THEN Upper(b) ELSE Top(b), b,
                        Retest(e, b), guard)

\* The lowest level, no MEDIAN, that is retested in a way that is switched on.
RetestEntered(e, guard) ==
    LET R == {b \in e.levels \ Medians : Retest(e, b) \in Enabled}
    IN  IF e.pos.open \/ e.exited \/ e.trig.on \/ R = {} THEN e
        ELSE LET b == Min(R)
             IN  Enters(e, IF Retest(e, b) = "R1" THEN Upper(b) ELSE Top(b), b,
                        Retest(e, b), guard)

-----------------------------------------------------------------------------
(* Trade management.                                                        *)

\* Mutant of Peaked: the entry candle counts like any other.
PeakedWhole(e) ==
    [e EXCEPT !.pos.high = IF @ = 0 THEN View(e).h ELSE Max({@, View(e).h})]

\* ERROR-1: in the entry candle the post-entry high is the running close, or counts the
\* highs of its later minutes.
Peaked(e) ==
    LET p == e.pos
        floor == IF p.high = 0 THEN e.c ELSE p.high
        high == IF p.here
                THEN IF EntryHigh /\ ~p.now THEN Max({floor, e.mh, e.c}) ELSE e.c
                ELSE IF p.high = 0 THEN e.c ELSE Max({p.high, View(e).h})
    IN  [e EXCEPT !.pos.high = high]

\* The rungs of the ladder above base b, and what the high must reach for each.
Rungs(b, nb, retest) ==
    LET q == (nb - b) \div 4
    IN  {<<b, b + q>>, <<b + q, b + 2 * q>>, <<b + 2 * q, b + 3 * q>>}
          \cup (IF retest THEN {<<b + 3 * q, nb>>} ELSE {})

\* The trail goes to the highest rung earned, never down; a retest trade moves its base on.
Trailed(e) ==
    LET p == e.pos
        nb == Above(e.levels, p.b)
        earned == {r[1] : r \in {x \in Rungs(p.b, nb, p.sub \in Retests) : p.high >= x[2]}}
        trail == Max(earned \cup {p.trail})
    IN  IF nb = 0 THEN e
        ELSE [e EXCEPT !.pos.trail = trail,
                       !.pos.seed = @ \/ trail # p.trail,
                       !.pos.b = IF p.sub \in Retests /\ p.high >= nb /\ e.c > nb THEN nb ELSE @]

\* ERROR-3: in the candle that set or raised the trail only the running close counts.
Watched(e) ==
    IF e.pos.trail = 0 THEN e
    ELSE [e EXCEPT !.pos.low = IF e.pos.seed \/ @ = 0 THEN e.c ELSE Min({@, View(e).l})]

\* System B: one step per candle, from none to the bottom of the next zone and to its middle.
SystemB(e, nb) ==
    LET p == e.pos
        bottom == nb - 2 * Half
        step == IF p.sbSeed THEN 0
                ELSE IF p.sb = 0 THEN IF p.high >= bottom THEN bottom ELSE 0
                ELSE IF p.sb < nb - Half /\ p.high >= nb - Half THEN nb - Half ELSE 0
        sb == IF p.sub \in Retests \/ nb = 0 \/ step = 0 THEN p.sb ELSE step
        seed == p.sbSeed \/ sb # p.sb
    IN  [e EXCEPT !.pos.sb = sb, !.pos.sbSeed = seed,
                  !.pos.sbLow = IF sb = 0 THEN @
                                ELSE IF seed \/ @ = 0 THEN e.c ELSE Min({@, View(e).l})]

\* P1 to P4, the first that fires; nb and b are those of the tick's beginning.
ExitReason(e, new5m, b, nb) ==
    LET p == e.pos
        v == View(e)
        base == IF p.sub \in Retests THEN p.eb ELSE b
    IN  CASE e.exited -> "none"
          [] ~e.exited /\ v.l <= p.msl -> "MAX_SL"
          [] OTHER ->
             IF p.trail # 0 /\ p.low <= p.trail THEN "TRAIL_EXIT"
             ELSE IF p.sub \notin Retests /\ p.sb # 0 /\ p.sbLow <= p.sb THEN "SB_EXIT"
             ELSE IF p.sub \notin Retests /\ nb # 0 /\ v.h >= nb THEN "TARGET"
             ELSE IF new5m /\ e.c < base /\ p.trail <= base THEN "BASE_SL"
             ELSE "none"

\* History, for TrailIsHonest: the highest price after the entry, and whether one after the
\* last raise of the trail was at or under it.
Lived(e, m) ==
    LET p == m.pos
    IN  [m EXCEPT !.pos.peak = Max({@, m.c, IF p.here /\ (p.now \/ ~EntryHigh) THEN 0 ELSE m.mh}),
                  !.pos.under = \/ @ /\ p.trail = e.pos.trail
                                \/ /\ p.trail # 0
                                   /\ m.c <= p.trail \/ (~p.seed /\ m.ml <= p.trail)]

\* _exit
Exited(e, reason) ==
    IF reason = "none" THEN e
    ELSE [e EXCEPT !.pos = NoTrade, !.exited = TRUE, !.trig = NoTrigger]

Managed(e, new5m) ==
    IF ~e.pos.open THEN e
    ELSE LET b == e.pos.b
             nb == Above(e.levels, b)
             m == Lived(e, SystemB(Watched(Trailed(Peaked(e))), nb))
         IN  Exited(m, ExitReason(m, new5m, b, nb))

-----------------------------------------------------------------------------
(* Ticks.                                                                   *)

\* _tick; L: the levels a build yields, which the trade freezes.
Tick(e, new5m, guard, L) ==
    LET built == [e EXCEPT !.levels = IF ~e.pos.open /\ (new5m \/ @ = {}) THEN L ELSE @]
    IN  Managed(RetestEntered(TestEntered(Triggered(built, new5m), guard), guard), new5m)

\* A close equal to the one before is no new close.
ConfirmedClose(e, guard, L) ==
    Tick([e EXCEPT !.prev = e.c, !.closed = TRUE], e.c # e.prev, guard, L)

\* Mutant of Deferred: a candle without its last minute is never closed.
NeverClosed(e, guard, L) == e

\* The candle whose last minute never came closes now, on what it had.
Deferred(e, guard, L) ==
    IF e.phase = -1 \/ e.closed THEN e ELSE ConfirmedClose(e, guard, L)

\* The candle after n others begins: what happened in an earlier one is not of this one.
Begins(e, n) ==
    [e EXCEPT !.trig.age = IF e.trig.on THEN Min({@ + n, Timeout + 1}) ELSE 0, !.was = e.prev,
              !.closed = FALSE, !.began = TRUE, !.exited = FALSE, !.fresh = NoFresh,
              !.pos = [@ EXCEPT !.here = FALSE, !.now = FALSE, !.seed = FALSE, !.sbSeed = FALSE]]

\* The bar m joins the candle, and the part of it that is fresh.
Joined(e, m, n) ==
    LET f == e.fresh
        first == n > 0 \/ e.phase = -1
    IN  [e EXCEPT !.o = IF first THEN m.o ELSE @, !.h = IF first THEN m.h ELSE Max({@, m.h}),
                  !.l = IF first THEN m.l ELSE Min({@, m.l}), !.c = m.c,
                  !.mh = m.h, !.ml = m.l, !.pos.now = FALSE, !.pending = FALSE,
                  !.fresh = IF e.pending THEN [on |-> TRUE, o |-> m.o, h |-> m.h, l |-> m.l]
                            ELSE IF f.on THEN [f EXCEPT !.h = Max({@, m.h}), !.l = Min({@, m.l})]
                            ELSE f]

Bars == {m \in [o : Prices, h : Prices, l : Prices, c : Prices] :
           /\ m.l <= Min({m.o, m.c}) /\ m.h >= Max({m.o, m.c})
           /\ OneWick => m.l = Min({m.o, m.c}) \/ m.h = Max({m.o, m.c})}

\* process_minute: the bar of minute p of the candle that is n after this one.
Minute(n, p, m) ==
    \E guard \in BOOLEAN, L1, L2 \in LevelSets :
      LET e0 == [eng EXCEPT !.began = FALSE]
          e1 == IF n > 0 THEN Begins(Deferred(e0, guard, L1), n) ELSE e0
          e2 == [Joined(e1, m, n) EXCEPT !.phase = p]
      IN  eng' = IF p = Tf - 1 THEN ConfirmedClose(e2, guard, L2)
                 ELSE Tick(e2, FALSE, guard, L2)

MinuteComes ==
    \E n \in 0 .. Timeout + 1, p \in 0 .. Tf - 1, m \in Bars :
        /\ n = 0 => p > eng.phase
        /\ eng.phase = -1 => n = 1
        /\ eng.c # 0 => m.o = eng.c
        /\ Minute(n, p, m)

\* start_entry_cycle, for the hunt of a new signal.
StartEntryCycle ==
    /\ ~eng.pos.open /\ eng.phase # -1
    /\ eng' = [eng EXCEPT !.trig = NoTrigger, !.pending = TRUE, !.began = FALSE,
                          !.fresh = NoFresh]

\* lock_candle: a position on the contract has just been closed by another engine.
LockCandle ==
    /\ ~eng.pos.open /\ eng.phase # -1 /\ ~eng.exited
    /\ eng' = [eng EXCEPT !.exited = TRUE, !.began = FALSE]

Next == MinuteComes \/ StartEntryCycle \/ LockCandle

Spec == Init /\ [][Next]_eng

-----------------------------------------------------------------------------
(* Properties.                                                              *)

\* The candle in which a trade ended takes no other one: a position that stands was not
\* entered in the candle of an exit, whoever locked it.
ExitEndsCandle == ~(eng.pos.open /\ eng.pos.here /\ eng.exited)

\* The trail is a rung of a ladder above a level, or above the base of the trade (the level of
\* its trigger, which a later build may have dropped), and a price after the entry reached what
\* the rung asks for.
Earned(e) ==
    \E b \in e.levels \cup {e.pos.b} :
        /\ Above(e.levels, b) # 0
        /\ \E r \in Rungs(b, Above(e.levels, b), TRUE) : r[1] = e.pos.trail /\ e.pos.peak >= r[2]

\* What the trail does is earned by prices after the entry, and what it stops is never missed:
\* it is a quarter of a zone below the highest of them, it never falls, and once a price after
\* the raise is at or under it (a close, or from the next candle on a low) the trade is over.
TrailIsHonest == eng.pos.open /\ eng.pos.trail # 0 => ~eng.pos.under /\ Earned(eng)

\* A candle that closed below base ends a trade that had not climbed above base, also when
\* its last minute never came: as the next candle begins it is over, unless it closed at the
\* price of the close before.
NoCloseIsLost ==
    [][eng.pos.open /\ eng'.pos.open /\ eng'.began /\ ~eng'.pos.here =>
          LET base == IF eng.pos.sub \in Retests THEN eng.pos.eb ELSE eng.pos.b
          IN  eng.c >= base \/ eng.pos.trail > base \/ eng.c = eng.was]_eng

\* "nothing that happened before the signal can influence this cycle's entry": with the first
\* minute after the signal, what is armed was armed by it and what was entered was entered
\* then.
FreshCycle ==
    [][eng.pending /\ ~eng'.pending =>
          /\ eng'.trig.on => eng'.trig.age = 0
          /\ eng'.pos.open => eng'.pos.now]_eng
=============================================================================

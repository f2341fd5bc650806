---------------------------- MODULE Orchestrator ----------------------------
(***************************************************************************)
(* The life of a trade in ZoneOrchestrator                                 *)
(* (backend/app/algo/orchestrator.py) and in the ledger behind it          *)
(* (backend/app/algo/trade_store.py).                                      *)
(*                                                                         *)
(* Five operations take turns at the _pass_lock: the per-minute pass, the  *)
(* admin's test entry, square-off and Resume, and the square-off a saved   *)
(* kill switch asks for.  Each is split at the awaits where something else *)
(* can happen: the broker answers or executes an order, a config is saved, *)
(* the database refuses a statement, the process dies.  Adoption at boot   *)
(* and the paper reset do NOT take the lock.                               *)
(*                                                                         *)
(* Orders go through OrderOutcome, the contract that Execution implements. *)
(* One contract and one lot are enough: the engine never holds two         *)
(* positions, and what can go wrong is that it comes to.                   *)
(***************************************************************************)
EXTENDS Integers, FiniteSets

CONSTANTS
    Faults,     \* what may go wrong beside the broker, see FaultKinds
    Shadow,     \* cfg.global_.paper.shadow_mode
    Kills,      \* the positions the kill switches are put in
    MaxLosses,  \* day_cfg.max_consec_losses
    MaxRows,    \* bound: ledger rows of a behaviour
    MaxOpen     \* bound of OrderOutcome

\* "db"        a statement on the ledger or a read of the market data fails
\* "restart"   the process restarts while no operation holds the lock, and
\*             not while an UNKNOWN order keeps it paused
\* "forget"    it restarts while an UNKNOWN order keeps it paused
\* "midcrash"  it dies in the middle of an operation
\* "adoption"  the ledger read at boot fails
\* "bootrace"  a test entry arrives while adoption is still working
\* "balance"   the balance read after an exit fails
\* "unfilled"  an order assumed to fill was or is rejected, or takes minutes
\* "operator"  the operator resumes or trades without checking the broker
\* "reset"     a paper reset races with an entry or with adoption, or follows
\*             a Resume on the paper ledger
FaultKinds == {"db", "restart", "forget", "midcrash", "adoption", "bootrace",
               "balance", "unfilled", "operator", "reset"}

ASSUME FaultsAssumption    == Faults \subseteq FaultKinds
ASSUME ShadowAssumption    == Shadow \in BOOLEAN
ASSUME KillsAssumption     == Kills \subseteq BOOLEAN /\ Kills # {}
ASSUME MaxLossesAssumption == MaxLosses \in Nat \ {0}
ASSUME MaxRowsAssumption   == MaxRows \in Nat
ASSUME MaxOpenAssumption   == MaxOpen \in Nat

VARIABLES
    boot,       \* "down" | "adopting" | "binding" | "running"
    found,      \* the ledger row adoption found, 0 for none
    pc,         \* where the holder of the lock stands, "free" when none holds it
    run,        \* its local state: which operation, its config, its risk gate
    cfg,        \* the live config: paper or live, a kill switch on or off
    pos,        \* self.position
    paused,     \* self.paused_reason: "no" | "losses" | "unknown"
    rows,       \* algo_trades, by id
    ckpt,       \* the Resume checkpoint (kept in the audit log)
    killAsked,  \* is a kill_square_off waiting for the lock?
    unknown,    \* history: an UNKNOWN BUY no human has cleared yet
    streak,     \* history: losses in a row per ledger since Resume or reset
    ledgerPaged,\* history: a human was paged to patch the ledger
    phase, side, fate, result, holding, late    \* of OrderOutcome

Broker == INSTANCE OrderOutcome

brokerVars == <<phase, side, fate, result, holding, late>>
lockVars   == <<pc, run>>
bootVars   == <<boot, found>>
askVars    == <<cfg, killAsked>>
riskVars   == <<paused, ckpt, unknown, streak>>
ledgerVars == <<rows, ledgerPaged>>
vars == <<bootVars, lockVars, askVars, pos, riskVars, ledgerVars, brokerVars>>

Ledgers == {"paper", "live"}
Ids     == 1 .. MaxRows
Configs == [mode : Ledgers, kill : Kills]
Run     == [op : {"none", "pass", "test", "square"}, mode : Ledgers,
            kill : BOOLEAN, blocked : BOOLEAN]
Row     == [ledger : Ledgers, twin : BOOLEAN,
            state : {"unused", "open", "win", "loss", "deleted"}]

NoRun      == [op |-> "none", mode |-> "paper", kill |-> FALSE, blocked |-> FALSE]
NoRow      == [ledger |-> "paper", twin |-> FALSE, state |-> "unused"]
NoPosition == [ledger |-> "none", row |-> 0, twin |-> 0, latched |-> FALSE]

Opened(l)  == [NoPosition EXCEPT !.ledger = l]
Position   == [ledger : Ledgers \cup {"none"}, row : Ids \cup {0},
               twin : Ids \cup {0}, latched : BOOLEAN]

TypeOK ==
    /\ boot \in {"down", "adopting", "binding", "running"}
    /\ found \in Ids \cup {0}
    /\ pc \in {"free", "count", "manage", "sell", "balance", "close",
               "closeTwin", "recount", "hunt", "buy", "insert", "insertTwin"}
    /\ cfg \in Configs
    /\ run \in Run
    /\ pos \in Position
    /\ paused \in {"no", "losses", "unknown"}
    /\ rows \in [Ids -> Row]
    /\ ckpt \in [ledger : Ledgers \cup {"none"}, count : Nat]
    /\ killAsked \in BOOLEAN
    /\ unknown \in BOOLEAN
    /\ streak \in [Ledgers -> Nat]
    /\ ledgerPaged \in BOOLEAN
    /\ phase \in {"idle", "busy"}
    /\ side \in Broker!Sides
    /\ fate \in {"open", "executed", "void"}
    /\ result \in Broker!Results \cup {"none"}
    /\ holding \in Int
    /\ late \in [Broker!Sides -> Nat]

Init ==
    /\ boot = "running"
    /\ found = 0
    /\ pc = "free"
    /\ run = NoRun
    /\ cfg \in Configs
    /\ pos = NoPosition
    /\ paused = "no"
    /\ rows = [i \in Ids |-> NoRow]
    /\ ckpt = [ledger |-> "none", count |-> 0]
    /\ killAsked = FALSE
    /\ unknown = FALSE
    /\ streak = [l \in Ledgers |-> 0]
    /\ ledgerPaged = FALSE
    /\ Broker!Init

-----------------------------------------------------------------------------
(* The lock *)

\* An operation takes the lock and reads the config it will work with.
Take(op, at) ==
    /\ pc = "free"
    /\ pc' = at
    /\ run' = [op |-> op, mode |-> cfg.mode, kill |-> cfg.kill, blocked |-> FALSE]

Goto(at) == pc' = at /\ UNCHANGED run
Done     == pc' = "free" /\ run' = NoRun

-----------------------------------------------------------------------------
(* The ledger *)

OpenRows(l)   == {i \in Ids : rows[i].ledger = l /\ rows[i].state = "open"}
ClosedRows(l) == {i \in Ids : rows[i].ledger = l /\ rows[i].state \in {"win", "loss"}}

\* Rows get ascending ids; the trade being closed is the newest of its
\* ledger, so ids are in exit order too.
FreshRow(i) == rows[i].state = "unused" /\ \A j \in 1 .. i - 1 : rows[j].state # "unused"

\* today_closed minus the trades the Resume checkpoint has already counted:
\* closed[n:], on the checkpoint's ledger only.
Counted(l) ==
    LET n == IF ckpt.ledger = l THEN ckpt.count ELSE 0
    IN  {i \in ClosedRows(l) : Cardinality({j \in ClosedRows(l) : j <= i}) > n}

\* _risk_gate's loss streak reaches max_consec_losses.
LossStreak(l) ==
    Cardinality({i \in Counted(l) :
                    \A j \in Counted(l) : j >= i => rows[j].state = "loss"}) >= MaxLosses

RoomForTrade(mode) ==
    Cardinality({i \in Ids : rows[i].state = "unused"})
        >= IF Shadow /\ mode = "live" THEN 2 ELSE 1

\* A market order reported as assumed filled is terminal before the next
\* order is sent, a minute later.
Settled == fate = "open" /\ result = "assumed" => "unfilled" \in Faults

Answer(r) ==
    /\ Broker!Return(r)
    /\ r = "assumed" /\ fate' = "void" => "unfilled" \in Faults

-----------------------------------------------------------------------------
(* Entries: _feed_hunt and manual_test_entry *)

\* The order goes out: a simulated fill takes ownership at once, a real one
\* when the broker has answered.
RouteEntry(mode) ==
    IF mode = "paper"
    THEN pos' = Opened("paper") /\ UNCHANGED brokerVars
    ELSE Settled /\ Broker!Begin("BUY") /\ UNCHANGED pos

EntryAt(mode) == IF mode = "paper" THEN "insert" ELSE "buy"

\* Mutant of BuyReturns: an UNKNOWN entry is a refusal like any other.
UnknownIsRefusal(r) ==
    /\ pc = "buy"
    /\ Answer(r)
    /\ IF r \in {"filled", "assumed"}
       THEN Goto("insert") /\ pos' = Opened("live")
       ELSE Done /\ UNCHANGED pos
    /\ unknown' = (unknown \/ r = "unknown")
    /\ UNCHANGED <<bootVars, askVars, paused, ckpt, streak, ledgerVars>>

\* Mutant of BuyReturns: a fill that is only assumed is not taken over.
AssumedIsRefusal(r) ==
    /\ pc = "buy"
    /\ Answer(r)
    /\ IF r = "filled"
       THEN Goto("insert") /\ pos' = Opened("live")
       ELSE Done /\ UNCHANGED pos
    /\ paused' = IF r = "unknown" THEN "unknown" ELSE paused
    /\ unknown' = (unknown \/ r = "unknown")
    /\ UNCHANGED <<bootVars, askVars, ckpt, streak, ledgerVars>>

\* "filled" and "assumed" alike take ownership in memory before anything that
\* can fail; "unknown" pauses the engine and pages a human.
BuyReturns(r) ==
    /\ pc = "buy"
    /\ Answer(r)
    /\ IF r \in {"filled", "assumed"}
       THEN Goto("insert") /\ pos' = Opened("live")
       ELSE Done /\ UNCHANGED pos
    /\ paused' = IF r = "unknown" THEN "unknown" ELSE paused
    /\ unknown' = (unknown \/ r = "unknown")
    /\ UNCHANGED <<bootVars, askVars, ckpt, streak, ledgerVars>>

AddRow(i, l, twin) ==
    rows' = [rows EXCEPT ![i] = [ledger |-> l, twin |-> twin, state |-> "open"]]

\* insert_trade: recorded; failed; or committed with the answer lost, which
\* the engine also takes for "never recorded" (trade_id = -1).  A page asks a
\* human to patch the ledger.
InsertTrade(i) ==
    /\ pc = "insert"
    /\ FreshRow(i)
    /\ \/ /\ AddRow(i, pos.ledger, FALSE)
          /\ pos' = [pos EXCEPT !.row = i]
          /\ UNCHANGED ledgerPaged
       \/ /\ "db" \in Faults
          /\ rows' = rows \/ AddRow(i, pos.ledger, FALSE)
          /\ ledgerPaged' = TRUE
          /\ UNCHANGED pos
    /\ IF run.op = "pass" /\ pos.ledger = "live" /\ Shadow THEN Goto("insertTwin") ELSE Done
    /\ UNCHANGED <<bootVars, askVars, riskVars, brokerVars>>

\* Shadow mode mirrors a live entry into the paper ledger, best effort.
InsertTwin(i) ==
    /\ pc = "insertTwin"
    /\ FreshRow(i)
    /\ \/ AddRow(i, "paper", TRUE) /\ pos' = [pos EXCEPT !.twin = i]
       \/ "db" \in Faults /\ UNCHANGED <<rows, pos>>
    /\ Done
    /\ UNCHANGED <<bootVars, askVars, riskVars, ledgerPaged, brokerVars>>

-----------------------------------------------------------------------------
(* Exits: _manage_position *)

\* The exit is routed: a simulated fill at once, a real one as a SELL.
RouteExit ==
    IF pos.ledger = "paper"
    THEN Goto("balance") /\ UNCHANGED brokerVars
    ELSE Goto("sell") /\ Settled /\ Broker!Begin("SELL")

\* Mutant of ManageMinute: no backstop, a kill switch acts only when saved.
IgnoresKill(engineExit, timedExit, priced) ==
    LET latched == pos.latched \/ engineExit
    IN  /\ pc = "manage"
        /\ pos' = [pos EXCEPT !.latched = latched]
        /\ IF latched \/ (priced /\ timedExit) THEN RouteExit ELSE Done /\ UNCHANGED brokerVars
        /\ UNCHANGED <<bootVars, askVars, riskVars, ledgerVars>>

\* One managed minute: the engine may decide to exit (latched for good), the
\* expiry or zone-end close may be due, a kill switch may cover the position.
\* The latter two close at the bar or the engine's last close and wait a
\* minute if there is neither.
ManageMinute(engineExit, timedExit, priced) ==
    LET latched == pos.latched \/ engineExit
        exit    == latched \/ (priced /\ (timedExit \/ run.kill))
    IN  /\ pc = "manage"
        /\ pos' = [pos EXCEPT !.latched = latched]
        /\ IF exit THEN RouteExit ELSE Done /\ UNCHANGED brokerVars
        /\ UNCHANGED <<bootVars, askVars, riskVars, ledgerVars>>

Manage == \E engineExit, timedExit, priced \in BOOLEAN :
              ManageMinute(engineExit, timedExit, priced)

\* The minute's bar cannot be read: the exception ends the operation before
\* the engine is fed.
MinuteUnread ==
    /\ pc = "manage"
    /\ "db" \in Faults
    /\ Done
    /\ UNCHANGED <<bootVars, askVars, pos, riskVars, ledgerVars, brokerVars>>

\* Mutant of SellReturns: an exit not seen to fill is sent again.
RetriesAssumedSell(r) ==
    /\ pc = "sell"
    /\ Answer(r)
    /\ IF r = "filled" THEN Goto("balance") ELSE Done
    /\ UNCHANGED <<bootVars, askVars, pos, riskVars, ledgerVars>>

\* Mutant of SellReturns: a refused exit is decided anew by the engine, the
\* defect the comment on the latch says was found.
RefusedSellUnlatches(r) ==
    /\ pc = "sell"
    /\ Answer(r)
    /\ IF r = "refused" THEN Done /\ pos' = [pos EXCEPT !.latched = FALSE]
                        ELSE Goto("balance") /\ UNCHANGED pos
    /\ UNCHANGED <<bootVars, askVars, riskVars, ledgerVars>>

\* A refused sell leaves the position under management: retried next minute.
SellReturns(r) ==
    /\ pc = "sell"
    /\ Answer(r)
    /\ IF r = "refused" THEN Done ELSE Goto("balance")
    /\ UNCHANGED <<bootVars, askVars, pos, riskVars, ledgerVars>>

\* current_balance reads the paper ledger in paper mode, whatever ledger the
\* position is on; nothing catches its failure.
ReadBalance ==
    /\ pc = "balance"
    /\ \/ Goto("close")
       \/ "balance" \in Faults /\ run.mode = "paper" /\ Done
    /\ UNCHANGED <<bootVars, askVars, pos, riskVars, ledgerVars, brokerVars>>

\* Mutant of GiveUpPosition: the pass goes on with the counters it read before
\* the exit.
SkipsRecount ==
    /\ pos' = NoPosition
    /\ IF run.op = "pass" THEN Goto("hunt") ELSE Done

GiveUpPosition ==
    /\ pos' = NoPosition
    /\ IF run.op = "pass" THEN Goto("recount") ELSE Done

\* UPDATE ... WHERE id = ... AND exit_ts IS NULL, with the row's P&L.
CloseRow(i, pnl) ==
    /\ rows' = [rows EXCEPT ![i].state = IF @ = "open" THEN pnl ELSE @]
    /\ streak' = IF rows[i].state # "open" THEN streak
                 ELSE [streak EXCEPT ![rows[i].ledger] = IF pnl = "win" THEN 0 ELSE @ + 1]

\* Mutant of CloseTrade: a failed update goes unnoticed.
SwallowsFailedClose(pnl) ==
    /\ pc = "close"
    /\ \/ pos.row # 0 /\ CloseRow(pos.row, pnl)
       \/ (pos.row = 0 \/ "db" \in Faults) /\ UNCHANGED <<rows, streak>>
    /\ UNCHANGED ledgerPaged
    /\ IF pos.twin # 0
       THEN Goto("closeTwin") /\ UNCHANGED pos
       ELSE GiveUpPosition
    /\ UNCHANGED <<bootVars, askVars, paused, ckpt, unknown, brokerVars>>

\* A failed close_trade pages and still gives the position up: it is sold.
CloseTrade(pnl) ==
    /\ pc = "close"
    /\ \/ /\ pos.row # 0
          /\ CloseRow(pos.row, pnl)
          /\ UNCHANGED ledgerPaged
       \/ /\ pos.row = 0 \/ "db" \in Faults
          /\ ledgerPaged' = TRUE
          /\ UNCHANGED <<rows, streak>>
    /\ IF pos.twin # 0
       THEN Goto("closeTwin") /\ UNCHANGED pos
       ELSE GiveUpPosition
    /\ UNCHANGED <<bootVars, askVars, paused, ckpt, unknown, brokerVars>>

CloseTwin(pnl) ==
    /\ pc = "closeTwin"
    /\ \/ CloseRow(pos.twin, pnl)
       \/ "db" \in Faults /\ UNCHANGED <<rows, streak>>
    /\ GiveUpPosition
    /\ UNCHANGED <<bootVars, askVars, paused, ckpt, unknown,
                   ledgerPaged, brokerVars>>

-----------------------------------------------------------------------------
(* The per-minute pass: evaluate_minute *)

StartPass ==
    /\ boot = "running"
    /\ Take("pass", "count")
    /\ UNCHANGED <<bootVars, askVars, pos, riskVars, ledgerVars, brokerVars>>

\* Mutant of CountRisk: the recount sets the pause, and also lifts it.
RecountLiftsPause ==
    /\ pc \in {"count", "recount"}
    /\ \E blocked \in BOOLEAN : run' = [run EXCEPT !.blocked = blocked]
    /\ paused' = IF LossStreak(run.mode) THEN "losses" ELSE "no"
    /\ pc' = IF pos # NoPosition THEN "manage" ELSE "hunt"
    /\ UNCHANGED <<bootVars, askVars, pos, ckpt, unknown, streak, ledgerVars, brokerVars>>

\* The risk counters, read from the ledger and recounted after an exit in the
\* same pass.  The rupee limits (max loss, profit lock) may or may not block;
\* an unreadable ledger blocks.
CountRisk ==
    /\ pc \in {"count", "recount"}
    /\ \E blocked \in BOOLEAN :
        /\ run' = [run EXCEPT !.blocked = blocked]
        /\ \/ paused' = IF paused = "no" /\ LossStreak(run.mode) THEN "losses" ELSE paused
           \/ "db" \in Faults /\ blocked /\ UNCHANGED paused
    /\ pc' = IF pos # NoPosition THEN "manage" ELSE "hunt"
    /\ UNCHANGED <<bootVars, askVars, pos, ckpt, unknown, streak, ledgerVars, brokerVars>>

\* Every other gate, no direction, no candidate, or no engine that fires.
NoEntry ==
    /\ pc = "hunt"
    /\ Done
    /\ UNCHANGED <<bootVars, askVars, pos, riskVars, ledgerVars, brokerVars>>

\* A hunting engine fires.
Enter ==
    /\ pc = "hunt"
    /\ ~run.kill
    /\ ~run.blocked
    /\ paused = "no"
    /\ RoomForTrade(run.mode)
    /\ RouteEntry(run.mode)
    /\ Goto(EntryAt(run.mode))
    /\ UNCHANGED <<bootVars, askVars, riskVars, ledgerVars>>

-----------------------------------------------------------------------------
(* What the admin does *)

\* Not gated by a kill switch, a pause or a risk limit: it tests the order
\* path.  The page after an UNKNOWN order asks the operator to check the
\* broker first.
TestEntry ==
    /\ boot = "running" \/ (boot # "down" /\ "bootrace" \in Faults)
    /\ pos = NoPosition
    /\ unknown => "operator" \in Faults
    /\ RoomForTrade(cfg.mode)
    /\ RouteEntry(cfg.mode)
    /\ Take("test", EntryAt(cfg.mode))
    /\ UNCHANGED <<bootVars, askVars, riskVars, ledgerVars>>

\* _square_off_now: latch the exit, then one run of _manage_position.
StartSquareOff ==
    /\ pos # NoPosition
    /\ Take("square", "manage")
    /\ pos' = [pos EXCEPT !.latched = TRUE]

SquareOff ==
    /\ StartSquareOff
    /\ UNCHANGED <<bootVars, askVars, riskVars, ledgerVars, brokerVars>>

\* Save or Restore; the position is looked at without the lock.
SaveConfig(c) ==
    /\ boot # "down"
    /\ c # cfg
    /\ cfg' = c
    /\ killAsked' = (killAsked \/ pos # NoPosition)
    /\ UNCHANGED <<bootVars, lockVars, pos, riskVars, ledgerVars, brokerVars>>

KillSquareOff ==
    /\ killAsked
    /\ pc = "free"
    /\ killAsked' = FALSE
    /\ IF pos # NoPosition /\ cfg.kill
       THEN StartSquareOff
       ELSE UNCHANGED <<lockVars, pos>>
    /\ UNCHANGED <<bootVars, cfg, riskVars, ledgerVars, brokerVars>>

\* What the page asks for: no order of ours is open and the broker holds what
\* the engine manages.
BrokerChecked ==
    /\ fate # "open"
    /\ \A s \in Broker!Sides : late[s] = 0
    /\ holding = IF pos.ledger = "live" THEN 1 ELSE 0

\* Resume lifts the pause and restarts the streak from the trades closed so
\* far; the checkpoint goes to the audit log.
Resume ==
    /\ boot = "running"
    /\ pc = "free"
    /\ unknown => BrokerChecked \/ "operator" \in Faults
    /\ paused' = "no"
    /\ unknown' = FALSE
    /\ ckpt' = [ledger |-> cfg.mode, count |-> Cardinality(ClosedRows(cfg.mode))]
    /\ streak' = [streak EXCEPT ![cfg.mode] = 0]
    /\ UNCHANGED <<bootVars, lockVars, askVars, pos, ledgerVars, brokerVars>>

\* The human side of that page: a lot the engine does not manage is sold in
\* the broker's app.
HumanSells ==
    /\ unknown
    /\ pc = "free"
    /\ pos = NoPosition
    /\ holding > 0
    /\ holding' = holding - 1
    /\ UNCHANGED <<bootVars, lockVars, askVars, pos, riskVars, ledgerVars,
                   phase, side, fate, result, late>>

\* paper_reset deletes the paper rows, refused while a paper position is open.
\* The check precedes the DELETE without the lock, so a position can be
\* adopted or opened in between.
PaperReset ==
    /\ boot # "down"
    /\ \/ boot = "running" /\ pos.ledger # "paper" /\ ~(ckpt.ledger = "paper" /\ ckpt.count > 0)
       \/ "reset" \in Faults
    /\ rows' = [i \in Ids |-> IF rows[i].ledger = "paper" /\ rows[i].state # "unused"
                              THEN [rows[i] EXCEPT !.state = "deleted"] ELSE rows[i]]
    /\ streak' = [streak EXCEPT !["paper"] = 0]
    /\ UNCHANGED <<bootVars, lockVars, askVars, pos, paused, ckpt, unknown,
                   ledgerPaged, brokerVars>>

-----------------------------------------------------------------------------
(* Restart: adopt_open_trade runs once, before the first pass *)

Restart ==
    /\ boot # "down"
    /\ \/ pc = "free" /\ paused # "unknown" /\ "restart" \in Faults
       \/ pc = "free" /\ paused = "unknown" /\ "forget" \in Faults
       \/ pc # "free" /\ "midcrash" \in Faults
    /\ boot' = "down"
    /\ found' = 0
    /\ Done
    /\ pos' = NoPosition
    /\ paused' = "no"
    /\ killAsked' = FALSE
    /\ IF phase = "busy" THEN Broker!Abandon ELSE UNCHANGED brokerVars
    /\ UNCHANGED <<cfg, ckpt, unknown, streak, ledgerVars>>

Boot ==
    /\ boot = "down"
    /\ boot' = "adopting"
    /\ UNCHANGED <<found, lockVars, askVars, pos, riskVars, ledgerVars, brokerVars>>

\* The newest open row of the live ledger, else of the paper one; the twin of
\* a live trade is a paper row like any other.  A failure is only logged.
AdoptRead ==
    /\ boot = "adopting"
    /\ \/ /\ \E l \in Ledgers :
                /\ l = "paper" => OpenRows("live") = {}
                /\ found' \in OpenRows(l)
                /\ \A j \in OpenRows(l) : j <= found'
          /\ boot' = "binding"
       \/ /\ OpenRows("live") \cup OpenRows("paper") = {} \/ "adoption" \in Faults
          /\ boot' = "running"
          /\ UNCHANGED found
    /\ UNCHANGED <<lockVars, askVars, pos, riskVars, ledgerVars, brokerVars>>

\* The position is taken over after the engine's replay, without a second
\* look at self.position.
AdoptBind ==
    /\ boot = "binding"
    /\ boot' = "running"
    /\ found' = 0
    /\ pos' = [Opened(rows[found].ledger) EXCEPT !.row = found]
    /\ UNCHANGED <<lockVars, askVars, riskVars, ledgerVars, brokerVars>>

-----------------------------------------------------------------------------
(* The broker (external) works whatever the engine does. *)

BrokerActs ==
    /\ \/ Broker!Execute
       \/ Broker!Void /\ (result = "assumed" => "unfilled" \in Faults)
       \/ \E s \in Broker!Sides : Broker!ExecuteLate(s) \/ Broker!VoidLate(s)
    /\ UNCHANGED <<bootVars, lockVars, askVars, pos, riskVars, ledgerVars>>

-----------------------------------------------------------------------------
InOperation ==
    \/ \E r \in Broker!Results : BuyReturns(r) \/ SellReturns(r)
    \/ \E i \in Ids : InsertTrade(i) \/ InsertTwin(i)
    \/ \E pnl \in {"win", "loss"} : CloseTrade(pnl) \/ CloseTwin(pnl)
    \/ Manage \/ MinuteUnread \/ ReadBalance \/ CountRisk \/ NoEntry \/ Enter

Next ==
    \/ InOperation
    \/ StartPass \/ TestEntry \/ SquareOff \/ KillSquareOff \/ Resume
    \/ \E c \in Configs : SaveConfig(c)
    \/ HumanSells \/ PaperReset
    \/ Restart \/ Boot \/ AdoptRead \/ AdoptBind
    \/ BrokerActs

Spec == Init /\ [][Next]_vars

\* An operation that holds the lock goes on: every await in it is bounded by
\* a timeout.
Progress == WF_vars(InOperation)

\* asyncio.Lock wakes its waiters in order, so the loop's next pass and a
\* waiting square-off each get their turn.
Turns == SF_vars(StartPass) /\ SF_vars(KillSquareOff)

\* Of the market: while a kill switch is on, a minute with a price comes.
PricedMinute ==
    run.kill /\ \E engineExit, timedExit \in BOOLEAN : ManageMinute(engineExit, timedExit, TRUE)
Prices == SF_vars(PricedMinute)

\* Of the broker: no order stays open for ever, and of the sells it is sent
\* again and again one executes.
OrderEnds == BrokerActs /\ (late' # late \/ result = "assumed")
SellExecutes == BrokerActs /\ pc = "sell" /\ holding' < holding
BrokerServes == WF_vars(OrderEnds) /\ SF_vars(SellExecutes)

LiveSpec == Spec /\ Progress /\ Turns /\ Prices /\ BrokerServes

-----------------------------------------------------------------------------
(* What the subsystem promises *)

\* The lots the broker may hold for us if every open BUY executes.
Exposure == holding + late["BUY"] + (IF fate = "open" /\ side = "BUY" THEN 1 ELSE 0)

\* Sequencing rule: one open trade suppresses every further entry.  Through
\* retries, UNKNOWN orders, restarts and failed ledger writes the broker never
\* comes to hold two lots, unless a human was asked to patch the ledger.
OneExposure == Exposure <= 1 \/ ledgerPaged

\* Between two operations every lot at the broker is accounted for: managed by
\* the engine, or sold by an order that is about to fill, or paged as UNKNOWN.
NoOrphan ==
    boot = "running" /\ pc = "free" =>
        \/ Exposure = 0
        \/ pos.ledger = "live"
        \/ side = "SELL" /\ fate = "open" /\ result = "assumed"
        \/ unknown
        \/ ledgerPaged

\* Between two operations the ledger's open trades (twins aside) are exactly
\* the managed position: what adoption would find after a restart.
LedgerMatches ==
    boot = "running" /\ pc = "free" =>
        \/ {i \in Ids : rows[i].state = "open" /\ ~rows[i].twin}
              = {pos.row} \ {0}
        \/ ledgerPaged

\* "never retry a second sell on top of a probably-executed one": no SELL
\* follows a SELL that was reported as executed or assumed so.
NoSecondSell ==
    [][phase = "idle" /\ phase' = "busy" /\ side' = "SELL" =>
          ~(side = "SELL" /\ result \in {"filled", "assumed"}) \/ ledgerPaged]_vars

EngineEnters == pc = "hunt" /\ pc' \in {"buy", "insert"}

\* After an UNKNOWN BUY the engine does not buy again until a human resumed it.
UnknownStopsEngine == [][EngineEnters => ~unknown]_vars

\* A latched exit is never lost: it is retried until the paper position is
\* closed, or the broker holds nothing of a live one.
ExitGoesThrough ==
    /\ pos.latched /\ pos.ledger = "paper" ~> pos = NoPosition
    /\ pos.latched /\ pos.ledger = "live" ~> holding = 0

\* A kill switch that stays on ends the open trade, also one whose entry was
\* in flight when it was saved, or whose immediate square-off failed.
KillEndsTrade ==
    cfg.kill /\ pos # NoPosition ~>
        \/ ~cfg.kill
        \/ pos = NoPosition
        \/ pos.ledger = "live" /\ holding = 0

\* After max_consec_losses losses in a row on a ledger the engine takes no
\* entry there until Resume, also in the minute the last of them is booked,
\* after a restart, and with earlier Resumes on either ledger.
LossStreakStopsEngine ==
    [][EngineEnters => streak[run.mode] < MaxLosses \/ ledgerPaged]_vars
=============================================================================

---------------------------- MODULE BacktestRun ----------------------------
(***************************************************************************)
(* One backtest run, day by day, with its stops and resumes                *)
(* (backend/app/algo/backtest/runner.py, store.py, deps.py, preflight.py). *)
(*                                                                         *)
(* What lasts is in the run's tables: its status, a row per day, its       *)
(* trades.  What the task holds (the in-memory ledger, the equity, the     *)
(* loss pause) dies with it.  Every store call is a transaction of its     *)
(* own, so a run can stop between any two of them; a resumed run must end  *)
(* as one that never stopped.                                              *)
(*                                                                         *)
(* A minute loop is a function of the day's data and of what it finds in   *)
(* the ledger: the balance, which sizes the lots, and the open trade.      *)
(*                                                                         *)
(* The in-memory ledger is a list in the order of seq (ORDER BY seq when   *)
(* it is filled, and insert gives the next one), so a set of trades, each  *)
(* with its seq, says the same.                                            *)
(***************************************************************************)
EXTENDS Integers, FiniteSetsExt

CONSTANTS
    LastDay,        \* the weekdays of the range are 1 .. LastDay
    Scripts,        \* what a day's market can do, see Script
    ThinDays,       \* days that may have rows for the preflight and none for the frame
    CarryPauses,    \* values of settings.carry_pause
    Faults,         \* subset of {"stop", "cancel", "backfill"}
    MaxStops        \* bound: stops and cancels of the run

VARIABLES
    data,           \* "none", "thin" or "full", by day
    script,         \* the market, by day
    carryPause,     \* settings.carry_pause, frozen at creation
    status,         \* algo_backtest_runs.status
    days,           \* algo_backtest_days: status and detail.equity_after
    trades,         \* algo_backtest_trades
    task,           \* the runner task
    stops

inputs == <<script, carryPause>>
vars   == <<data, inputs, status, days, trades, task, stops>>

Days == 1 .. LastDay

\* A carried trade stays, exits with a win or a loss, or is found off the
\* day's frame; then at most one trade is entered, and rides on or exits.
Script == [carried : {"stay", "win", "loss", "off"}, enter : {"none", "win", "loss", "open"}]

\* exit is the day of exit_ts, 0 while it is NULL.
Trade == [seq : Nat \ {0}, day : Days, lots : {1, 2}, exit : Days \cup {0}, pnl : -2 .. 2]

NoTask == [at |-> "none", day |-> 0, plan |-> {}, ledger |-> {}, equity |-> 0,
           paused |-> FALSE, cancel |-> FALSE]

TypeOK ==
    /\ data \in [Days -> {"none", "thin", "full"}]
    /\ script \in [Days -> Script] /\ carryPause \in BOOLEAN
    /\ status \in {"queued", "running", "error", "cancelled", "done"}
    /\ \A d \in Days : /\ days[d].status \in {"none", "planned", "skipped", "done"}
                       /\ days[d].equity \in Int
    /\ trades \subseteq Trade
    /\ task.at \in {"none", "plan", "seed", "days", "minutes", "insert", "book", "mark"}
    /\ task.plan \subseteq Days /\ task.day \in Days \cup {0} /\ task.ledger \subseteq Trade

Init ==
    /\ data \in {f \in [Days -> {"none", "thin", "full"}] :
                    \A d \in Days : f[d] = "thin" => d \in ThinDays}
    /\ script \in [Days -> Scripts] /\ carryPause \in CarryPauses
    /\ status = "queued" /\ days = [d \in Days |-> [status |-> "none", equity |-> 0]]
    /\ trades = {} /\ task = NoTask /\ stops = 0

-----------------------------------------------------------------------------
(* The ledger *)

\* InMemoryLedger.balance_for, compounding: what every closed trade realised.
Realized(ledger) == MapThenSumSet(LAMBDA t : IF t.exit = 0 THEN 0 ELSE t.pnl, ledger)

\* insert: the next seq, after the largest one seeded.
NextSeq(ledger) == 1 + Max({0} \cup {t.seq : t \in ledger})

Pnl(outcome, lots) ==
    CASE outcome = "win"  -> lots
      [] outcome = "loss" -> 0 - lots
      [] OTHER            -> 0

-----------------------------------------------------------------------------
(* A simulated day: adoption, the minute loop, the end of the day *)

\* open_trade: the first row without an exit.
Held(ledger) == {t \in ledger :
    t.exit = 0 /\ \A u \in ledger : u.exit = 0 => t.seq <= u.seq}

\* The carried trade is adopted and perhaps closed: by the exit ladder, or at
\* the first boundary when its contract is off today's frame.
Carried(d, ledger) ==
    IF script[d].carried = "stay" THEN ledger
    ELSE (ledger \ Held(ledger)) \cup
         {[t EXCEPT !.exit = d, !.pnl = Pnl(script[d].carried, t.lots)] : t \in Held(ledger)}

\* A loss pauses the engine; a paused engine manages what it holds and enters
\* nothing.
CarriedLoss(d, ledger) == Held(ledger) # {} /\ script[d].carried = "loss"

Enters(d, ledger, paused) ==
    /\ script[d].enter # "none" /\ ~paused
    /\ Held(Carried(d, ledger)) = {} /\ ~CarriedLoss(d, ledger)

Entered(d, ledger) ==
    LET lots == IF Realized(ledger) > 0 THEN 2 ELSE 1
        rides == script[d].enter = "open"
    IN  [seq |-> NextSeq(ledger), day |-> d, lots |-> lots,
         exit |-> IF rides THEN 0 ELSE d, pnl |-> Pnl(script[d].enter, lots)]

\* The ledger and the pause after the day; a position still held rides the
\* night as an open row (overnight_carry).
Played(d, ledger, paused) ==
    LET after == Carried(d, ledger)
        in    == Enters(d, ledger, paused)
    IN  [ledger |-> IF in THEN after \cup {Entered(d, after)} ELSE after,
         paused |-> \/ paused \/ CarriedLoss(d, ledger)
                    \/ (in /\ script[d].enter = "loss")]

-----------------------------------------------------------------------------
(* The task *)

\* start_run: a queued run, or a resumed one; its job is new.
Start ==
    /\ task.at = "none" /\ status \in {"queued", "error", "cancelled"}
    /\ status' = "running" /\ task' = [NoTask EXCEPT !.at = "plan"]
    /\ UNCHANGED <<data, inputs, days, trades, stops>>

\* run_preflight: the weekdays that have enough stored minutes.  (Holidays,
\* exclusions and the symbol filter are frozen: such a day is not in Days.)
Covered == {d \in Days : data[d] # "none"}

\* load_day_frame: None without a row inside the session.
HasFrame(d) == data[d] = "full"

\* upsert_day.
DayRow(state, equity) == [status |-> state, equity |-> equity]

\* The preflight is run again, and the rows of all days that are not done are
\* written from it.
Plan ==
    /\ task.at = "plan"
    /\ LET planned == {d \in Covered : days[d].status # "done"} IN
       /\ days' = [d \in Days |->
             IF days[d].status = "done" THEN days[d]
             ELSE DayRow(IF d \in planned THEN "planned" ELSE "skipped", 0)]
       /\ task' = [task EXCEPT !.at = "seed", !.plan = planned]
    /\ UNCHANGED <<data, inputs, status, trades, stops>>

\* delete_day_outputs: the day's own rows go, and the exits it booked on rows
\* of earlier days are taken back.
DayDeleted(d) ==
    {IF t.exit = d THEN [t EXCEPT !.exit = 0, !.pnl = 0] ELSE t : t \in {u \in trades : u.day # d}}

\* Mutant of DayDeleted: only the day's own rows.
OwnRowsDeleted(d) == {t \in trades : t.day # d}

SeededFrom(stored) ==
    task' = [task EXCEPT !.at = "days", !.ledger = stored, !.equity = Realized(stored)]

\* Mutant of Seed: the ledger is filled before the day's outputs are dropped.
SeedFirst ==
    /\ task.at = "seed"
    /\ trades' = IF task.plan = {} THEN trades ELSE DayDeleted(Min(task.plan))
    /\ SeededFrom(trades)
    /\ UNCHANGED <<data, inputs, status, days, stops>>

\* The first pending day is cleared before the ledger and the equity are
\* filled from what is stored.
Seed ==
    /\ task.at = "seed"
    /\ trades' = IF task.plan = {} THEN trades ELSE DayDeleted(Min(task.plan))
    /\ SeededFrom(trades')
    /\ UNCHANGED <<data, inputs, status, days, stops>>

\* The next planned day: its cancel check, its outputs cleared, and its frame.
\* A frame without a row in the session skips the day.
NextDay ==
    /\ task.at = "days"
    /\ LET left == {d \in task.plan : d > task.day}
           d    == Min(left)
       IN  /\ left # {} /\ ~task.cancel
           /\ trades' = DayDeleted(d)
           /\ IF HasFrame(d)
              THEN /\ task' = [task EXCEPT !.at = "minutes", !.day = d]
                   /\ UNCHANGED days
              ELSE /\ task' = [task EXCEPT !.day = d]
                   /\ days' = [days EXCEPT ![d] = DayRow("skipped", 0)]
    /\ UNCHANGED <<data, inputs, status, stops>>

\* A fresh orchestrator steps through the day; nothing is stored yet.
Minutes ==
    /\ task.at = "minutes"
    /\ LET p == Played(task.day, task.ledger, carryPause /\ task.paused) IN
       task' = [task EXCEPT !.at = "insert", !.ledger = p.ledger, !.paused = p.paused]
    /\ UNCHANGED <<data, inputs, status, days, trades, stops>>

\* rows_for_day, and bulk_insert_trades.
EnteredOn(d) == {t \in task.ledger : t.day = d}
Inserted(new) == trades \cup new

\* update_trade_exit: the exit half of the stored row with the trade's seq.
Booked(closed) ==
    {IF \E t \in closed : t.seq = r.seq THEN CHOOSE t \in closed : t.seq = r.seq ELSE r :
        r \in trades}

\* The flush, one transaction each: the trades entered today,
Insert ==
    /\ task.at = "insert"
    /\ trades' = Inserted(EnteredOn(task.day))
    /\ task' = [task EXCEPT !.at = "book"]
    /\ UNCHANGED <<data, inputs, status, days, stops>>

\* the exits of trades entered before,
Book ==
    /\ task.at = "book"
    /\ LET closed == {t \in task.ledger : t.exit = task.day} IN
       /\ trades' = Booked(closed \ EnteredOn(task.day))
       /\ task' = [task EXCEPT !.at = "mark",
                      !.equity = @ + Realized(closed)]
    /\ UNCHANGED <<data, inputs, status, days, stops>>

\* and the day is done.  (Signals and decisions are stored in between.)
Mark ==
    /\ task.at = "mark"
    /\ days' = [days EXCEPT ![task.day] = DayRow("done", task.equity)]
    /\ task' = [task EXCEPT !.at = "days"]
    /\ UNCHANGED <<data, inputs, status, trades, stops>>

\* No planned day is left.
Finish ==
    /\ task.at = "days" /\ \A d \in task.plan : d <= task.day
    /\ status' = "done" /\ task' = NoTask
    /\ UNCHANGED <<data, inputs, days, trades, stops>>

\* A requested cancel is seen before a day.
Cancelled ==
    /\ task.at = "days" /\ task.cancel /\ \E d \in task.plan : d > task.day
    /\ status' = "cancelled" /\ task' = NoTask
    /\ UNCHANGED <<data, inputs, days, trades, stops>>

-----------------------------------------------------------------------------
(* What happens to it *)

\* cancel_run.
Cancel ==
    /\ "cancel" \in Faults /\ stops < MaxStops
    /\ task.at # "none" /\ ~task.cancel
    /\ task' = [task EXCEPT !.cancel = TRUE] /\ stops' = stops + 1
    /\ UNCHANGED <<data, inputs, status, days, trades>>

\* A store call or a day raises, or the process dies and the next one marks
\* the row: the run can be resumed.
Stop ==
    /\ "stop" \in Faults /\ stops < MaxStops
    /\ task.at # "none"
    /\ status' = "error" /\ task' = NoTask /\ stops' = stops + 1
    /\ UNCHANGED <<data, inputs, days, trades>>

\* The gap fill or a re-indexing makes a day whole while the run is stopped.
Backfill(d) ==
    /\ "backfill" \in Faults
    /\ task.at = "none" /\ data[d] # "full"
    /\ data' = [data EXCEPT ![d] = "full"]
    /\ UNCHANGED <<inputs, status, days, trades, task, stops>>

\* A run that is done is not started again.
Rest == status = "done" /\ UNCHANGED vars

Next ==
    \/ Start \/ Plan \/ Seed \/ NextDay \/ Minutes \/ Insert \/ Book \/ Mark
    \/ Finish \/ Cancelled
    \/ Cancel \/ Stop \/ \E d \in Days : Backfill(d)
    \/ Rest

Spec == Init /\ [][Next]_vars

-----------------------------------------------------------------------------
(* Properties *)

\* What a run that never stops makes of the days that are done, up to day d.
Unstopped[d \in Days \cup {0}] ==
    IF d = 0 THEN [ledger |-> {}, paused |-> FALSE]
    ELSE IF days[d].status = "done"
         THEN Played(d, Unstopped[d - 1].ledger, carryPause /\ Unstopped[d - 1].paused)
         ELSE Unstopped[d - 1]

\* Stopped and resumed anywhere, between two days or between two transactions
\* of one day's flush, a run ends with the trades and the equity of a run that
\* was never stopped: no trade lost, none twice, none sized by a balance that
\* counts a day that is run again (delete_day_outputs before seed_closed).
ResumedIsUninterrupted ==
    status = "done" =>
        /\ trades = Unstopped[LastDay].ledger
        /\ \A d \in Days : days[d].status = "done" =>
              days[d].equity = Realized(Unstopped[d].ledger)

\* A run that is done has each of its trades once: at most one per day here,
\* where a day enters at most one (runner.py:105 on resume owning recovery so
\* that nothing double-writes rows).
NoDoubleWrite == status = "done" => \A r, s \in trades : r.day = s.day => r = s
=============================================================================

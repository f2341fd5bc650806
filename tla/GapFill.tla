------------------------------- MODULE GapFill -------------------------------
(***************************************************************************)
(* Bringing back the minutes the live feed has missed: the scheduler of    *)
(* the gap fill (backend/app/ingest/gapfill.py), the puller it runs as a   *)
(* child process (scripts/truedata_backfill.py) with its ledger of units,  *)
(* and the day index both are judged by (services/data_health.py).         *)
(*                                                                         *)
(* One symbol with one chain.  A minute of a day has a row in the live     *)
(* table or not, and a bar in the archive or not.  The unit <<"day", d>>   *)
(* is the session d (pull --day), <<"chain", 0>> the pull over all the     *)
(* days; the daily series, which fills no minute, is left out.             *)
(***************************************************************************)
EXTENDS Integers, Sequences, FiniteSetsExt

CONSTANTS
    Days,        \* bound: the trading days 1 .. Days
    Close,       \* the session has the minutes 1 .. Close
    Delay,       \* GAPFILL_POST_CLOSE_DELAY_MIN
    Lag,         \* a catch-up looks at minutes that are this long over
    MinMissing,  \* GAPFILL_CATCHUP_MIN_MISSING
    MinMinutes,  \* GAPFILL_MIN_MINUTES
    MaxFaults    \* bound: outages, crashes, failing calls

ASSUME ClockAssumption == {Days, Close} \subseteq Nat \ {0} /\ {Delay, Lag} \subseteq Nat
ASSUME RoomAssumption ==
    {MinMissing, MinMinutes, MaxFaults} \subseteq Nat

VARIABLES
    clock,    \* the day, and the minute that is forming: 0 before the open
    up,       \* the feed delivers
    live,     \* option_oi_snapshots: "none", "live", or "restored" (src = 1)
    arch,     \* oi_archive_bars: "none", "part" of a minute that was forming, "bar"
    ledger,   \* oi_backfill_progress
    index,    \* oi_day_stats, as of its last refresh
    event,    \* _catchup_event
    deferred, \* _deferred_until: the day, at its close and Delay; 0 none
    done,     \* _historical_done_for; 0 none
    last,     \* last_hist: its day, and whether it was after the close
    todo,     \* what this pass of the loop has still to run
    job,      \* the run under way: its place, the units it has still to pull
    pull,     \* its puller: the bars fetched, the one that was forming, was the session over
    faults

vars == <<clock, up, live, arch, ledger, index, event, deferred, done, last, todo, job, pull,
          faults>>
store == <<live, arch, ledger, index>>
loop == <<event, deferred, done, last, todo>>

Day == 1 .. Days
Minutes == 1 .. Close
End == Close + Delay                \* the last minute of a day that matters
LastInstant == [day |-> Days, min |-> End]
Today == clock.day
SinceClose == [clock EXCEPT !.min = IF @ = End THEN End ELSE 0]
InSession == clock.min \in Minutes
Units == ({"day"} \X Day) \cup {<<"chain", 0>>}
Idle == [at |-> "idle", queue |-> <<>>, upper |-> 0, day |-> 0]
NoPull == [bars |-> {}, part |-> {}, whole |-> FALSE]
Strikes == faults < MaxFaults /\ faults' = faults + 1
CatchingUp == "catchup" \in todo

Rows(d) == Cardinality({m \in Minutes : live[d][m] # "none"})
Bars(d) == Cardinality({m \in Minutes : arch[d][m] # "none"})
Usable(d) == Max({index[d].rows, index[d].bars})   \* usable_minutes
Stats == [d \in Day |-> [rows |-> Rows(d), bars |-> Bars(d)]]

Clocks == [day : Day, min : 0 .. End]
Jobs == [at : {"down", "boot", "idle", "fetch", "write", "mark", "reset", "promote", "close"},
         queue : Seq(Units), upper : 0 .. Close, day : Day \cup {0}]
Pulls == [bars : SUBSET (Day \X Minutes), part : SUBSET (Day \X Minutes), whole : BOOLEAN]
Known(d, m) == d < Today \/ (d = Today /\ m <= clock.min)

TypeOK ==
    /\ clock \in Clocks /\ job \in Jobs /\ pull \in Pulls
    /\ up \in BOOLEAN /\ event \in BOOLEAN
    /\ live \in [Day -> [Minutes -> {"none", "live", "restored"}]]
    /\ arch \in [Day -> [Minutes -> {"none", "part", "bar"}]]
    /\ ledger \in [Units -> {"none", "partial", "error", "done"}]
    /\ index \in [Day -> [rows : 0 .. Close, bars : 0 .. Close]]
    /\ {deferred, done} \subseteq Day \cup {0} /\ last \in [day : Day, min : {0, End}]
    /\ todo \subseteq {"catchup", "history"}
    \* nothing is known of the future
    /\ \A d \in Day, m \in Minutes : ~Known(d, m) => live[d][m] = "none" /\ arch[d][m] = "none"
    /\ faults \in 0 .. MaxFaults

\* A fresh install, or one whose chain has been pulled before.
Init ==
    /\ clock = [day |-> 1, min |-> 0] /\ up = FALSE
    /\ live = [d \in Day |-> [m \in Minutes |-> "none"]]
    /\ arch = [d \in Day |-> [m \in Minutes |-> "none"]]
    /\ \E chain \in {"none", "done"} :
         ledger = [u \in Units |-> IF u[1] = "chain" THEN chain ELSE "none"]
    /\ index = [d \in Day |-> [rows |-> 0, bars |-> 0]]
    /\ event = FALSE /\ deferred = 0 /\ done = 0 /\ last = [day |-> 1, min |-> 0]
    /\ todo = {} /\ job = [Idle EXCEPT !.at = "down"] /\ pull = NoPull
    /\ faults = 0

-----------------------------------------------------------------------------
(* The world.                                                               *)

\* A minute begins; the one that forms has a row when the feed delivers.
TimePasses ==
    /\ clock # LastInstant
    /\ clock' = IF clock.min < End THEN [clock EXCEPT !.min = @ + 1]
                ELSE [day |-> Today + 1, min |-> 0]
    /\ live' = IF up /\ clock'.min \in Minutes
               THEN [live EXCEPT ![clock'.day][clock'.min] = "live"] ELSE live
    /\ UNCHANGED <<up, arch, ledger, index, loop, job, pull, faults>>

\* The feed dies; it comes back, and the steward asks for a catch-up when that took an
\* episode of its own.
FeedFails ==
    /\ up /\ Strikes /\ up' = FALSE
    /\ UNCHANGED <<clock, store, loop, job, pull>>

FeedRecovers ==
    /\ ~up /\ job.at # "down" /\ up' = TRUE
    /\ event' \in {event, TRUE}
    /\ UNCHANGED <<clock, store, deferred, done, last, todo, job, pull, faults>>

\* The refresh of its own loop, before the open and after the close.
HealthRefresh ==
    /\ job.at # "down" /\ clock.min \in {0, End} /\ index # Stats /\ index' = Stats
    /\ UNCHANGED <<clock, up, live, arch, ledger, loop, job, pull, faults>>

-----------------------------------------------------------------------------
(* The puller: one unit of a job at a time.                                 *)

Unit == Head(job.queue)

\* What it asks for: the minutes of its session that are over, or everything.
Window(unit) ==
    IF unit[1] = "day"
    THEN {<<unit[2], m>> : m \in {k \in Minutes : unit[2] < Today \/ k < clock.min}}
    ELSE {dm \in Day \X Minutes : dm[1] < Today \/ (dm[1] = Today /\ dm[2] <= clock.min)}

\* Where the window of a session ends; its unit is whole when that is the close.
WindowEnd(unit) ==
    IF unit[1] = "day" /\ unit[2] = Today /\ clock.min <= Close THEN clock.min ELSE Close + 1

Forming == IF InSession THEN {<<Today, clock.min>>} ELSE {}

\* The vendor may add the minute that is forming to the answer.
Answers(unit) ==
    {Window(unit)} \cup (IF unit = <<"day", Today>> THEN {Window(unit) \cup Forming} ELSE {})

\* What follows a unit: the next one, after a chain's ledger has been re-opened, or the
\* end of the run; of a catch-up, the promotion.
Ended ==
    /\ pull' = NoPull
    /\ LET rest == Tail(job.queue)
       IN  job' = [job EXCEPT !.queue = IF CatchingUp THEN @ ELSE rest,
                     !.at = CASE CatchingUp -> "promote"
                              [] ~CatchingUp /\ rest = <<>> -> "close"
                              [] OTHER -> IF Head(rest)[1] = "chain" THEN "reset" ELSE "fetch"]

\* _fetch_unit: a unit that is done is not fetched again; an error (of a quota too, after
\* five attempts) is marked, and nothing is written.
Fetch ==
    /\ job.at = "fetch"
    /\ \/ ledger[Unit] = "done" /\ Ended /\ UNCHANGED <<ledger, faults>>
       \/ /\ ledger[Unit] # "done"
          /\ \E bars \in Answers(Unit) :
               pull' = [bars |-> bars, part |-> bars \cap Forming,
                        whole |-> WindowEnd(Unit) > Close]
          /\ job' = [job EXCEPT !.at = "write"]
          /\ UNCHANGED <<ledger, faults>>
       \/ /\ ledger[Unit] # "done" /\ Strikes
          /\ ledger' = [ledger EXCEPT ![Unit] = "error"]
          /\ Ended
    /\ UNCHANGED <<clock, up, live, arch, index, loop>>

\* _write: in day mode the bars before the end of a window that is computed anew.
Kept == IF Unit[1] = "day" THEN {dm \in pull.bars : dm[2] < WindowEnd(Unit)} ELSE pull.bars

Write ==
    /\ job.at = "write"
    /\ arch' = [d \in Day |-> [m \in Minutes |->
                  IF <<d, m>> \notin Kept THEN arch[d][m]
                  ELSE IF <<d, m>> \in pull.part THEN "part" ELSE "bar"]]
    /\ job' = [job EXCEPT !.at = "mark"]
    /\ UNCHANGED <<clock, up, live, ledger, index, loop, pull, faults>>

\* Mutant of UnitStatus: a session is done once it has been fetched.
AlwaysDone(unit) == "done"

\* _unit_status: a session is partial until its close has been fetched.
UnitStatus(unit) == IF unit[1] = "day" /\ ~pull.whole THEN "partial" ELSE "done"

Mark ==
    /\ job.at = "mark"
    /\ ledger' = [ledger EXCEPT ![Unit] = UnitStatus(Unit)]
    /\ Ended
    /\ UNCHANGED <<clock, up, live, arch, index, loop, faults>>

\* The child ends with another code than 0 or 2: a catch-up promotes nothing, a
\* historical run goes on with its next command.
PullerDies ==
    /\ job.at \in {"fetch", "write", "mark"} /\ Strikes
    /\ IF CatchingUp
       THEN job' = Idle /\ todo' = todo \ {"catchup"} /\ pull' = NoPull
       ELSE Ended /\ UNCHANGED todo
    /\ UNCHANGED <<clock, up, store, event, deferred, done, last>>

-----------------------------------------------------------------------------
(* The session catch-up.                                                    *)

\* missing_session_minutes
Holes == {m \in Minutes : m < clock.min - Lag /\ live[Today][m] = "none"}

\* session_catchup up to its pull: too few holes are complete, and the scan may fail.  The
\* promotion will reach to the last hole; without any it raises, and promotes nothing.
Scan ==
    /\ job.at = "idle" /\ CatchingUp
    /\ \/ /\ Cardinality(Holes) >= MinMissing
          /\ \E top \in Holes \cup {0} :
               /\ \A m \in Holes : m <= top
               /\ job' = [job EXCEPT !.at = "fetch", !.queue = << <<"day", Today>> >>,
                                     !.upper = top]
          /\ UNCHANGED <<todo, faults>>
       \/ /\ Cardinality(Holes) < MinMissing
          /\ todo' = todo \ {"catchup"} /\ UNCHANGED <<job, faults>>
       \/ Strikes /\ todo' = todo \ {"catchup"} /\ UNCHANGED job
    /\ UNCHANGED <<clock, up, store, event, deferred, done, last, pull>>

Promoted(d, m) == d = Unit[2] /\ m <= job.upper /\ live[d][m] = "none" /\ arch[d][m] # "none"

\* _promote_restored_minutes, and the refresh when a row landed; either may fail.
Promote ==
    /\ job.at = "promote"
    /\ \/ /\ live' = [d \in Day |-> [m \in Minutes |->
                         IF Promoted(d, m) THEN "restored" ELSE live[d][m]]]
          /\ index' = IF live' = live THEN index
                      ELSE [d \in Day |-> [rows |-> Cardinality({m \in Minutes : live'[d][m] # "none"}),
                                           bars |-> Bars(d)]]
          /\ UNCHANGED faults
       \/ Strikes /\ UNCHANGED <<live, index>>
    /\ todo' = todo \ {"catchup"} /\ job' = [Idle EXCEPT !.day = job.day]
    /\ UNCHANGED <<clock, up, arch, ledger, event, deferred, done, last, pull>>

-----------------------------------------------------------------------------
(* The historical run.                                                      *)

Past == {d \in Day : d < Today}
Gaps == {d \in Past : Usable(d) < MinMinutes}                             \* missing_days
Shorts == {d \in Past : index[d].bars < MinMinutes /\ index[d].rows >= MinMinutes}
SomeUsable == \E d \in Past \cup {Today} : Usable(d) >= MinMinutes

\* historical_allowed
Allowed == clock.min \notin 1 .. End - 1 \/ ~SomeUsable

\* The commands of the run: the sessions that are short, in their order, then the chain.
Wanted == ({"day"} \X Shorts) \cup (IF Gaps = {} THEN {} ELSE {<<"chain", 0>>})
Before(u, v) == u[1] = "day" /\ (v[1] = "chain" \/ u[2] < v[2])
Commands ==
    {q \in [1 .. Cardinality(Wanted) -> Wanted] :
        \A i, j \in DOMAIN q : i < j => Before(q[i], q[j])}

\* run_gapfill_once up to its first command.  A run that is deferred, finds nothing or
\* cannot scan is over: done for its day, except at boot.
HistoryScan ==
    /\ job.at = "idle" /\ todo = {"history"}
    /\ \/ /\ Gaps \cup Shorts # {} /\ Allowed
          /\ \E q \in Commands :
               job' = [job EXCEPT !.queue = q,
                         !.at = IF Head(q)[1] = "chain" THEN "reset" ELSE "fetch"]
          /\ UNCHANGED <<todo, deferred, done, faults>>
       \/ /\ Gaps \cup Shorts = {} \/ ~Allowed
          /\ deferred' = IF Gaps \cup Shorts = {} THEN deferred ELSE Today
          /\ todo' = {} /\ job' = Idle /\ done' = IF job.day = 0 THEN done ELSE job.day
          /\ UNCHANGED faults
       \/ /\ Strikes /\ todo' = {} /\ job' = Idle /\ UNCHANGED deferred
          /\ done' = IF job.day = 0 THEN done ELSE job.day
    /\ UNCHANGED <<clock, up, store, event, last, pull>>

\* Mutant of Reopened: only what failed is asked for again.
ErrorsReopened == [u \in Units |-> IF ledger[u] = "error" THEN "none" ELSE ledger[u]]

\* _reset_recent_ledger: every unit of the lookback.
Reopened == [u \in Units |-> "none"]

Reset ==
    /\ job.at = "reset" /\ job' = [job EXCEPT !.at = "fetch"]
    /\ \/ ledger' = Reopened /\ UNCHANGED faults
       \/ Strikes /\ UNCHANGED ledger
    /\ UNCHANGED <<clock, up, live, arch, index, loop, pull>>

\* The end of a run: the index is refreshed or not, and the day is done.
HistoryEnds ==
    /\ job.at = "close"
    /\ \/ index' = Stats /\ UNCHANGED faults
       \/ Strikes /\ UNCHANGED index
    /\ done' = IF job.day = 0 THEN Today ELSE job.day
    /\ todo' = {} /\ job' = Idle
    /\ UNCHANGED <<clock, up, live, arch, ledger, event, deferred, last, pull>>

-----------------------------------------------------------------------------
(* run_gapfill_loop.                                                        *)

Starts ==
    /\ job.at = "down" /\ job' = [job EXCEPT !.at = "boot"]
    /\ UNCHANGED <<clock, up, store, loop, pull, faults>>

\* The index first, then a catch-up in the session, then the historical run.
Boot ==
    /\ job.at = "boot" /\ job' = Idle
    /\ \/ index' = Stats /\ UNCHANGED faults
       \/ Strikes /\ UNCHANGED index
    /\ todo' = IF InSession THEN {"catchup", "history"} ELSE {"history"}
    /\ last' = SinceClose
    /\ UNCHANGED <<clock, up, live, arch, ledger, event, deferred, done, pull>>

PostClose == clock.min = End /\ done # Today
DeferredDue == deferred # 0 /\ (Today > deferred \/ (Today = deferred /\ clock.min = End))
\* The clock stops at the last instant of the model; the hours after it go on.
FallbackDue == Today > last.day \/ clock = LastInstant

\* A pass of the loop decides what it runs: the event's catch-up or the scheduled one,
\* and the historical run.
Wake ==
    /\ job.at = "idle" /\ todo = {}
    /\ \E due \in SUBSET {"catchup", "history"} :
         /\ due # {} \/ event
         /\ "catchup" \in due => InSession
         /\ event /\ InSession => "catchup" \in due
         /\ "history" \in due <=> PostClose \/ DeferredDue \/ FallbackDue
         /\ todo' = due
         /\ last' = IF "history" \in due THEN SinceClose ELSE last
    /\ event' = FALSE /\ job' = [job EXCEPT !.day = Today]
    /\ UNCHANGED <<clock, up, store, deferred, done, pull, faults>>

\* The process is killed, its puller and its feed with it.
Crash ==
    /\ job.at # "down" /\ Strikes
    /\ up' = FALSE /\ event' = FALSE /\ deferred' = 0 /\ done' = 0 /\ todo' = {}
    /\ job' = [Idle EXCEPT !.at = "down"] /\ pull' = NoPull
    /\ last' = [day |-> 1, min |-> 0]
    /\ UNCHANGED <<clock, store>>

Next ==
    \/ TimePasses \/ FeedFails \/ FeedRecovers \/ HealthRefresh
    \/ Fetch \/ Write \/ Mark \/ PullerDies
    \/ Scan \/ Promote
    \/ HistoryScan \/ Reset \/ HistoryEnds
    \/ Starts \/ Boot \/ Wake \/ Crash

\* The process is restarted, its loop goes on, and time passes.
Fairness ==
    /\ WF_vars(TimePasses) /\ WF_vars(Starts) /\ WF_vars(Boot) /\ WF_vars(Wake)
    /\ WF_vars(Scan) /\ WF_vars(Promote) /\ WF_vars(HistoryScan) /\ WF_vars(Reset)
    /\ WF_vars(HistoryEnds) /\ WF_vars(Fetch) /\ WF_vars(Write) /\ WF_vars(Mark)

Spec == Init /\ [][Next]_vars /\ Fairness

-----------------------------------------------------------------------------
(* Properties.                                                              *)

\* A session the ledger calls done (and no later run fetches again) is whole in the
\* archive: every minute up to the close, none of them cut while it formed
\* (_unit_status, _window, _write).
DoneIsWhole ==
    \A d \in Day : ledger[<<"day", d>>] = "done" => \A m \in Minutes : arch[d][m] = "bar"

\* However the feed, the puller, the index and the process fail, every past session is
\* usable in the end: the gap is seen, its ledger re-opened, and the vendor's bars
\* counted (missing_days, _reset_recent_ledger, refresh_data_health).
PastIsRestored == <>[](\A d \in Day : d < Days => Usable(d) >= MinMinutes)

\* The historical pull runs once after the close: a day that is done, by a run that was
\* started since the close, has no other (run_gapfill_loop's docstring).  It is not so:
\* _deferred_until stays due once a run has been deferred.
HistoryOnce ==
    [][todo = {} /\ "history" \in todo' /\ last = SinceClose /\ clock.min = End
       /\ clock # LastInstant => done # Today]_vars
=============================================================================

---------------------------- MODULE BacktestQueue ----------------------------
(***************************************************************************)
(* The one slot of the backtest runner                                     *)
(* (backend/app/algo/backtest/runner.py) and the requests of               *)
(* backend/app/api/algo_backtest.py that compete for it.                   *)
(*                                                                         *)
(* A run is a row with a status; the process works on at most one, in a    *)
(* task.  Whatever way a task ends, it hands the slot to the oldest queued *)
(* row.  Requests create, cancel, resume, delete and list runs, and list   *)
(* marks rows left "running" by a dead process.  Nothing is locked: each   *)
(* request looks at a row or at the slot, awaits the database, and acts on *)
(* what it saw.  Every action below ends at such an await.                 *)
(***************************************************************************)
EXTENDS Integers

CONSTANTS
    Clients,    \* requests under way at the same time
    MaxRuns,    \* bound: rows created
    Restarts    \* may the process restart?

ASSUME MaxRunsAssumption  == MaxRuns \in Nat
ASSUME RestartsAssumption == Restarts \in BOOLEAN

VARIABLES
    status,     \* algo_backtest_runs.status, by run id
    tasks,      \* the live runner tasks
    job,        \* _jobs: the task of a run, NoJob, or Ended (entries stay)
    cancel,     \* cancel_requested of the run's job
    client,     \* the requests
    died        \* history: runs whose task the process died with, until resumed

runnerVars == <<tasks, job, cancel>>
vars == <<status, runnerVars, client, died>>

Ids   == 1 .. MaxRuns
\* A task ends in the step that starts the next one, so two can be seen.
Tasks == 1 .. 2
NoJob == 0
Ended == -1

NoTask      == [at |-> "none", run |-> 0, next |-> 0]
\* A request: where it awaits, the run it is about, and what it has seen.
Asking(at, r, saw, ids) == [at |-> at, run |-> r, saw |-> saw, ids |-> ids]
NoRequest   == Asking("idle", 0, FALSE, {})
Ends        == {"done", "error", "cancelled"}

Statuses == {"none", "queued", "running", "deleted"} \cup Ends
Task     == [at : {"none", "start", "days", "over", "next"},
             run : Ids \cup {0}, next : Ids \cup {0}]
Request  == [at : {"idle", "insert", "start", "cancel", "flip", "resume", "requeue",
                   "delete", "drop", "list", "mark"},
             run : Ids \cup {0}, saw : BOOLEAN, ids : SUBSET Ids]

TypeOK ==
    /\ status \in [Ids -> Statuses]
    /\ tasks \in [Tasks -> Task]
    /\ job \in [Ids -> Tasks \cup {NoJob, Ended}]
    /\ cancel \in [Ids -> BOOLEAN]
    /\ client \in [Clients -> Request]
    /\ died \subseteq Ids

Init ==
    /\ status = [r \in Ids |-> "none"]
    /\ tasks = [t \in Tasks |-> NoTask]
    /\ job = [r \in Ids |-> NoJob]
    /\ cancel = [r \in Ids |-> FALSE]
    /\ client = [c \in Clients |-> NoRequest]
    /\ died = {}

-----------------------------------------------------------------------------
(* The slot *)

Live(t) == tasks[t].at # "none"

\* active_run_id(exclude): the runs with a live task.
Active(exclude) == {r \in Ids \ {exclude} : job[r] \in Tasks /\ Live(job[r])}

\* UPDATE ... WHERE id = ...: a deleted row stays deleted.
SetStatus(r, s) ==
    status' = [status EXCEPT ![r] = IF @ = "deleted" THEN @ ELSE s]

FreeTask == CHOOSE t \in Tasks : ~Live(t)

\* A task in place of none, for a new job of the run.
Spawn(r, others, jobs) ==
    /\ tasks' = [others EXCEPT ![FreeTask] = [at |-> "start", run |-> r, next |-> 0]]
    /\ job' = [jobs EXCEPT ![r] = FreeTask]
    /\ cancel' = [cancel EXCEPT ![r] = FALSE]

\* Mutant of StartRun: the request has looked at the slot before.
StartUnchecked(r) == Spawn(r, tasks, job)

\* start_run: single-flight, or a RuntimeError the request answers with 409.
StartRun(r) ==
    IF Active(0) = {} THEN Spawn(r, tasks, job) ELSE UNCHANGED runnerVars

-----------------------------------------------------------------------------
(* The task: _run *)

Goto(t, at) == tasks' = [tasks EXCEPT ![t].at = at]

\* The row becomes "running"; a row that is gone ends the run at once.
Begin(t) ==
    /\ tasks[t].at = "start"
    /\ Goto(t, IF status[tasks[t].run] = "deleted" THEN "over" ELSE "days")
    /\ SetStatus(tasks[t].run, "running")
    /\ died' = died \ {tasks[t].run}
    /\ UNCHANGED <<job, cancel, client>>

\* Mutant of EndRun: a cancelled run just returns.
CancelUnrecorded(t, end) ==
    /\ tasks[t].at = "days"
    /\ end = "cancelled" => cancel[tasks[t].run]
    /\ Goto(t, "over")
    /\ IF end = "cancelled" THEN UNCHANGED status ELSE SetStatus(tasks[t].run, end)
    /\ UNCHANGED <<job, cancel, client, died>>

\* The days are done, one of them fails, or a requested cancel is seen before
\* the next of them.
EndRun(t, end) ==
    /\ tasks[t].at = "days"
    /\ end = "cancelled" => cancel[tasks[t].run]
    /\ Goto(t, "over")
    /\ SetStatus(tasks[t].run, end)
    /\ UNCHANGED <<job, cancel, client, died>>

Queued == {r \in Ids : status[r] = "queued"}

TaskEnded(t) == [tasks EXCEPT ![t] = NoTask]
JobEnded(t) ==
    [r \in Ids |-> IF job[r] = t THEN Ended ELSE job[r]]

\* Mutant of FindNext: the run that is finishing still counts as active.
FindsItselfActive(t) ==
    /\ tasks[t].at = "over"
    /\ IF Active(0) # {} \/ Queued = {}
       THEN tasks' = [tasks EXCEPT ![t].at = "next", ![t].next = 0]
       ELSE \E r \in Queued :
                /\ \A q \in Queued : r <= q
                /\ tasks' = [tasks EXCEPT ![t].at = "next", ![t].next = r]
    /\ UNCHANGED <<status, job, cancel, client, died>>

\* _start_next_queued: the oldest queued row, if no other run is active.
FindNext(t) ==
    /\ tasks[t].at = "over"
    /\ IF Active(tasks[t].run) # {} \/ Queued = {}
       THEN tasks' = [tasks EXCEPT ![t].at = "next", ![t].next = 0]
       ELSE \E r \in Queued :
                /\ \A q \in Queued : r <= q
                /\ tasks' = [tasks EXCEPT ![t].at = "next", ![t].next = r]
    /\ UNCHANGED <<status, job, cancel, client, died>>

\* start_run(next, _finishing), without a second look at the row; the task ends.
HandOver(t) ==
    /\ tasks[t].at = "next"
    /\ IF tasks[t].next # 0 /\ Active(tasks[t].run) = {}
       THEN Spawn(tasks[t].next, TaskEnded(t), JobEnded(t))
       ELSE tasks' = TaskEnded(t) /\ job' = JobEnded(t) /\ UNCHANGED cancel
    /\ UNCHANGED <<status, client, died>>

TaskStep(t) ==
    \/ Begin(t) \/ FindNext(t) \/ HandOver(t)
    \/ \E end \in Ends : EndRun(t, end)

-----------------------------------------------------------------------------
(* The requests *)

Ask(c, request)  == client[c].at = "idle" /\ client' = [client EXCEPT ![c] = request]
Await(c, at)     == client' = [client EXCEPT ![c].at = at]
Answered(c)      == client' = [client EXCEPT ![c] = NoRequest]
About(r, at)     == Asking(at, r, FALSE, {})

\* create_run: the slot is looked at; busy without queue:true answers 409.
Create(c) ==
    /\ Ask(c, Asking("insert", 0, Active(0) # {}, {}))
    /\ UNCHANGED <<status, runnerVars, died>>

FreshRun(r) == status[r] = "none" /\ \A q \in 1 .. r - 1 : status[q] # "none"

\* The row is inserted.  Behind a busy slot that is all: "the runner
\* auto-starts it when the slot frees".
Insert(c) ==
    /\ client[c].at = "insert"
    /\ \E r \in Ids :
        /\ FreshRun(r)
        /\ status' = [status EXCEPT ![r] = "queued"]
        /\ IF client[c].saw
           THEN Answered(c)
           ELSE client' = [client EXCEPT ![c] = About(r, "start")]
    /\ UNCHANGED <<runnerVars, died>>

\* After create_run's audit entry, or resume_run's UPDATE.
Start(c) ==
    /\ client[c].at = "start"
    /\ StartRun(client[c].run)
    /\ Answered(c)
    /\ UNCHANGED <<status, died>>

\* cancel_run: of a queued or running row.
Cancel(c, r) ==
    /\ status[r] \in {"queued", "running"}
    /\ Ask(c, About(r, "cancel"))
    /\ UNCHANGED <<status, runnerVars, died>>

\* A run with a job is asked to stop; the row of one without is flipped.
CancelJob(c) ==
    /\ client[c].at = "cancel"
    /\ IF job[client[c].run] = NoJob
       THEN Await(c, "flip") /\ UNCHANGED cancel
       ELSE Answered(c) /\ cancel' = [cancel EXCEPT ![client[c].run] = TRUE]
    /\ UNCHANGED <<status, tasks, job, died>>

FlipCancelled(c) ==
    /\ client[c].at = "flip"
    /\ SetStatus(client[c].run, "cancelled")
    /\ Answered(c)
    /\ UNCHANGED <<runnerVars, died>>

\* resume_run: of a failed or cancelled row.
Resume(c, r) ==
    /\ status[r] \in {"error", "cancelled"}
    /\ Ask(c, About(r, "resume"))
    /\ UNCHANGED <<status, runnerVars, died>>

ResumeFree(c) ==
    /\ client[c].at = "resume"
    /\ IF Active(0) = {} THEN Await(c, "requeue") ELSE Answered(c)
    /\ UNCHANGED <<status, runnerVars, died>>

Requeue(c) ==
    /\ client[c].at = "requeue"
    /\ SetStatus(client[c].run, "queued")
    /\ Await(c, "start")
    /\ UNCHANGED <<runnerVars, died>>

\* delete_run: refused for a queued or running row that has a job.
Delete(c, r) ==
    /\ status[r] \notin {"none", "deleted"}
    /\ Ask(c, Asking("delete", r, status[r] \in {"queued", "running"}, {}))
    /\ UNCHANGED <<status, runnerVars, died>>

DeleteFree(c) ==
    /\ client[c].at = "delete"
    /\ IF client[c].saw /\ job[client[c].run] # NoJob THEN Answered(c) ELSE Await(c, "drop")
    /\ UNCHANGED <<status, runnerVars, died>>

Drop(c) ==
    /\ client[c].at = "drop"
    /\ SetStatus(client[c].run, "deleted")
    /\ Answered(c)
    /\ UNCHANGED <<runnerVars, died>>

\* list_runs: the live run, the rows that say "running", then
\* fail_orphaned_runs marks the difference row by row.
List(c) ==
    /\ Ask(c, Asking("list", 0, FALSE, Active(0)))
    /\ UNCHANGED <<status, runnerVars, died>>

FindOrphans(c) ==
    /\ client[c].at = "list"
    /\ LET orphaned == {r \in Ids : status[r] = "running"} \ client[c].ids
       IN  IF orphaned = {}
           THEN Answered(c)
           ELSE client' = [client EXCEPT ![c] = Asking("mark", 0, FALSE, orphaned)]
    /\ UNCHANGED <<status, runnerVars, died>>

MarkOrphan(c) ==
    /\ client[c].at = "mark"
    /\ \E r \in client[c].ids :
        /\ SetStatus(r, "error")
        /\ IF client[c].ids = {r}
           THEN Answered(c)
           ELSE client' = [client EXCEPT ![c].ids = @ \ {r}]
    /\ UNCHANGED <<runnerVars, died>>

ClientStep(c) ==
    \/ Create(c) \/ Insert(c) \/ Start(c)
    \/ CancelJob(c) \/ FlipCancelled(c)
    \/ ResumeFree(c) \/ Requeue(c)
    \/ DeleteFree(c) \/ Drop(c)
    \/ List(c) \/ FindOrphans(c) \/ MarkOrphan(c)
    \/ \E r \in Ids : Cancel(c, r) \/ Resume(c, r) \/ Delete(c, r)

\* The process restarts.  Killed, it leaves the rows as they are; shut down, it
\* cancels its tasks: one that was working records that and hands the slot
\* over, to a task that dies with the process.
Restart ==
    /\ Restarts
    /\ \E said \in SUBSET {r \in Ids : \E t \in Tasks : tasks[t].run = r /\ tasks[t].at = "days"},
          begun \in SUBSET Queued :
        /\ begun # {} => said # {} /\ \E r \in begun : begun = {r} /\ \A q \in Queued : r <= q
        /\ status' = [r \in Ids |-> CASE r \in begun -> "running"
                                     [] r \in said \ begun /\ status[r] # "deleted" -> "cancelled"
                                     [] OTHER -> status[r]]
        /\ died' = died \cup begun \cup {tasks[t].run : t \in {u \in Tasks : Live(u)}}
    /\ tasks' = [t \in Tasks |-> NoTask]
    /\ job' = [r \in Ids |-> NoJob]
    /\ cancel' = [r \in Ids |-> FALSE]
    /\ client' = [c \in Clients |-> NoRequest]

-----------------------------------------------------------------------------
Next ==
    \/ \E t \in Tasks : TaskStep(t)
    \/ \E c \in Clients : ClientStep(c)
    \/ Restart

Spec == Init /\ [][Next]_vars

\* A run replays finitely many days and the event loop runs every task.
Fairness == \A t \in Tasks : WF_vars(TaskStep(t))
FairSpec == Spec /\ Fairness

-----------------------------------------------------------------------------
(* What the runner promises *)

\* "Single-flight: one run process-wide": two tasks never live at once, of two
\* runs or of the same one.
SingleFlight == \A t, u \in Tasks : Live(t) /\ Live(u) => t = u

\* "A 'running' row with no in-process job means the process died mid-run."
RunningHasTask ==
    \A r \in Ids : status[r] = "running" =>
        \/ \E t \in Tasks : tasks[t].run = r /\ tasks[t].at = "days"
        \/ r \in died

Working == \E t \in Tasks : tasks[t].at \in {"start", "days"}

\* A run queued behind one that is working leaves the queue, however many
\* others are created, cancelled, resumed and deleted, unless the process dies.
QueueMoves ==
    \A r \in Ids :
        status[r] = "queued" /\ Working ~> status[r] # "queued" \/ died # {}

\* "the runner auto-starts it when the slot frees": with no request and no
\* task under way, nothing is queued.
QueuedIsServed ==
    (\A c \in Clients : client[c].at = "idle") /\ (\A t \in Tasks : ~Live(t)) => Queued = {}
=============================================================================

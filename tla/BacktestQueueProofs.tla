------------------------ MODULE BacktestQueueProofs ------------------------
(***************************************************************************)
(* Proofs about the backtests, for any number of requests, of runs and of  *)
(* days.                                                                   *)
(*                                                                         *)
(* BacktestQueue: one task at a time, and what a row that says "running"   *)
(* means.                                                                  *)
(*                                                                         *)
(* BacktestRun (the instance Run of MCBacktestQueue): a run that is        *)
(* stopped and resumed ends as one that never was.  The reference is the   *)
(* ledger Led(n) of a run that goes through every day with a frame.  One   *)
(* day adds to it at most an exit and a trade (OneDay), so that clearing   *)
(* the day gives back the night before (DayCleared), and the three         *)
(* transactions of its flush lead to its own ledger (DayBooked,            *)
(* DayRealizes).  The invariant (RunInv) says of every point of the task   *)
(* which of these ledgers is stored and which is held.                     *)
(***************************************************************************)
EXTENDS MCBacktestQueue, FiniteSetTheorems, WellFoundedInduction, TLAPS

\* Nothing works on a run that active_run_id does not see.
LiveHasJob == \A t \in Tasks : Live(t) => tasks[t].run \in Ids /\ job[tasks[t].run] = t

\* A request that will act on a run knows which.
RequestHasRun ==
    \A c \in Clients :
        client[c].at \in {"start", "cancel", "flip", "resume", "requeue", "delete", "drop"}
            => client[c].run \in Ids

IInv == TypeOK /\ RequestHasRun /\ LiveHasJob /\ SingleFlight /\ RunningHasTask

LEMMA InitIInv == Init => IInv
<1> SUFFICES ASSUME Init PROVE IInv
    OBVIOUS
<1> USE DEF Init, NoTask, NoRequest, Asking, NoJob, Tasks
<1>1. TypeOK
    BY DEF TypeOK, Statuses, Task, Request
<1>2. RequestHasRun /\ LiveHasJob /\ SingleFlight
    BY DEF RequestHasRun, LiveHasJob, SingleFlight, Live
<1>3. RunningHasTask
    BY DEF RunningHasTask
<1> QED  BY <1>1, <1>2, <1>3 DEF IInv

-----------------------------------------------------------------------------
(* Types *)

\* An UPDATE of the row's status, and a task that goes on.
LEMMA StatusType ==
    ASSUME TypeOK, NEW r, NEW s \in Statuses, SetStatus(r, s)
    PROVE  /\ status' \in [Ids -> Statuses]
           /\ \A q \in Ids : status'[q] = "running" =>
                 \/ status[q] = "running" /\ (q # r \/ s = "running")
                 \/ q = r /\ s = "running"
    BY DEF SetStatus, TypeOK, Statuses

LEMMA TaskType ==
    ASSUME TypeOK, NEW t \in Tasks, NEW at \in {"none", "start", "days", "over", "next"},
           NEW n \in Ids \cup {0}, tasks' = [tasks EXCEPT ![t].at = at, ![t].next = n]
    PROVE  tasks' \in [Tasks -> Task]
    BY DEF TypeOK, Task

LEMMA GotoType ==
    ASSUME TypeOK, NEW t \in Tasks, NEW at \in {"none", "start", "days", "over", "next"},
           Goto(t, at)
    PROVE  tasks' \in [Tasks -> Task]
    BY DEF TypeOK, Task, Goto

-----------------------------------------------------------------------------
(* Starting a task *)

\* With no other task live than the one that ends (or none), the task that
\* starts is the only one, and its run's job.
LEMMA SpawnIsAlone ==
    ASSUME TypeOK, NEW r \in Ids, NEW others, NEW jobs,
           others \in [Tasks -> Task],
           jobs \in [Ids -> Tasks \cup {NoJob, Ended}],
           \A t \in Tasks : others[t].at = "none",
           \E t \in Tasks : ~Live(t),
           Spawn(r, others, jobs)
    PROVE  /\ tasks' \in [Tasks -> Task]
           /\ job' \in [Ids -> Tasks \cup {NoJob, Ended}]
           /\ cancel' \in [Ids -> BOOLEAN]
           /\ LiveHasJob' /\ SingleFlight'
           /\ \A t \in Tasks : tasks'[t].at # "days"
<1> DEFINE new == [at |-> "start", run |-> r, next |-> 0]
<1>1. FreeTask \in Tasks
    BY DEF FreeTask
<1>2. tasks' = [others EXCEPT ![FreeTask] = new]
    BY DEF Spawn
<1>3. job' = [jobs EXCEPT ![r] = FreeTask]
    BY DEF Spawn
<1>4. cancel' \in [Ids -> BOOLEAN]
    BY DEF Spawn, TypeOK
<1>5. \A t \in Tasks : tasks'[t].at # "none" => t = FreeTask /\ tasks'[t].run = r
    BY <1>1, <1>2
<1>6. LiveHasJob' /\ SingleFlight'
    BY <1>1, <1>3, <1>5 DEF LiveHasJob, SingleFlight, Live
<1>7. \A t \in Tasks : tasks'[t].at # "days"
    BY <1>1, <1>2
<1>8. new \in Task
    BY DEF Task
<1>9. tasks' \in [Tasks -> Task]
    BY <1>1, <1>2, <1>8
<1>10. job' \in [Ids -> Tasks \cup {NoJob, Ended}]
    BY <1>1, <1>3
<1> QED  BY <1>4, <1>6, <1>7, <1>9, <1>10

\* active_run_id sees every live task.
LEMMA NobodyActive ==
    ASSUME TypeOK, LiveHasJob, Active(0) = {}
    PROVE  \A t \in Tasks : tasks[t].at = "none"
<1>1. SUFFICES ASSUME NEW t \in Tasks, Live(t) PROVE FALSE
    BY DEF Live
<1>2. tasks[t].run \in Ids /\ job[tasks[t].run] = t
    BY <1>1 DEF LiveHasJob
<1>3. 0 \notin Ids
    BY MaxRunsAssumption DEF Ids
<1> QED  BY <1>1, <1>2, <1>3 DEF Active

-----------------------------------------------------------------------------
(* The steps of the task *)

LEMMA TaskKeepsIInv ==
    ASSUME IInv, NEW t \in Tasks, TaskStep(t)
    PROVE  IInv'
<1> USE DEF IInv
<1>1. CASE Begin(t)
    <2>1. TypeOK'
        <3>1. "running" \in Statuses
            BY DEF Statuses
        <3>2. status' \in [Ids -> Statuses]
            BY <1>1, <3>1, StatusType DEF Begin
        <3>3. tasks' \in [Tasks -> Task]
            BY <1>1, GotoType DEF Begin
        <3> QED  BY <1>1, <3>2, <3>3 DEF Begin, TypeOK
    <2>2. RequestHasRun' /\ LiveHasJob' /\ SingleFlight'
        BY <1>1 DEF Begin, Goto, RequestHasRun, LiveHasJob, SingleFlight, Live, TypeOK
    <2>3. RunningHasTask'
        BY <1>1 DEF Begin, Goto, SetStatus, RunningHasTask, LiveHasJob, Live, TypeOK
    <2> QED  BY <2>1, <2>2, <2>3
<1>2. ASSUME NEW end \in Ends, EndRun(t, end)
      PROVE  IInv'
    <2>1. TypeOK'
        <3>1. end \in Statuses
            BY DEF Statuses
        <3>2. status' \in [Ids -> Statuses]
            BY <1>2, <3>1, StatusType DEF EndRun
        <3>3. tasks' \in [Tasks -> Task]
            BY <1>2, GotoType DEF EndRun
        <3> QED  BY <1>2, <3>2, <3>3 DEF EndRun, TypeOK
    <2>2. RequestHasRun' /\ LiveHasJob' /\ SingleFlight'
        BY <1>2 DEF EndRun, Goto, RequestHasRun, LiveHasJob, SingleFlight, Live, TypeOK
    <2>3. RunningHasTask'
        BY <1>2 DEF EndRun, Ends, Goto, SetStatus, RunningHasTask, LiveHasJob, Live, TypeOK
    <2> QED  BY <2>1, <2>2, <2>3
<1>3. CASE FindNext(t)
    <2>1. PICK n \in Ids \cup {0} : tasks' = [tasks EXCEPT ![t].at = "next", ![t].next = n]
        BY <1>3 DEF FindNext, Queued
    <2>2. TypeOK'
        <3>1. tasks' \in [Tasks -> Task]
            BY <2>1, TaskType
        <3> QED  BY <1>3, <3>1 DEF FindNext, TypeOK
    <2>3. RequestHasRun' /\ LiveHasJob' /\ SingleFlight'
        <3>1. /\ \A u \in Tasks : tasks'[u].run = tasks[u].run
              /\ \A u \in Tasks : tasks'[u].at # "none" => tasks[u].at # "none"
            BY <1>3, <2>1 DEF FindNext, TypeOK, Task
        <3> QED  BY <1>3, <3>1 DEF FindNext, RequestHasRun, LiveHasJob, SingleFlight, Live
    <2>4. RunningHasTask'
        BY <1>3, <2>1 DEF FindNext, RunningHasTask, TypeOK
    <2> QED  BY <2>2, <2>3, <2>4
<1>4. CASE HandOver(t)
    <2> DEFINE rest == TaskEnded(t)
               jobs == JobEnded(t)
    <2>1. \A u \in Tasks : u # t => ~Live(u)
        BY <1>4 DEF HandOver, SingleFlight, Live
    <2>2. rest \in [Tasks -> Task]
        BY DEF TaskEnded, NoTask, TypeOK, Task
    <2>3. jobs \in [Ids -> Tasks \cup {NoJob, Ended}]
        BY DEF JobEnded, TypeOK
    <2>4. \A u \in Tasks : rest[u].at = "none"
        BY <2>1 DEF TaskEnded, NoTask, Live, TypeOK
    <2>5. \A u \in Tasks : tasks[u].at # "days"
        BY <1>4, <2>1 DEF HandOver, Live
    <2>6. \E u \in Tasks : ~Live(u)
        BY <2>1 DEF Tasks
    <2>7. /\ tasks' \in [Tasks -> Task]
          /\ job' \in [Ids -> Tasks \cup {NoJob, Ended}]
          /\ cancel' \in [Ids -> BOOLEAN]
          /\ LiveHasJob' /\ SingleFlight'
        <3>1. CASE tasks[t].next # 0 /\ Active(tasks[t].run) = {}
            <4>1. tasks[t].next \in Ids
                BY <3>1 DEF TypeOK, Task
            <4>2. Spawn(tasks[t].next, rest, jobs)
                BY <1>4, <3>1 DEF HandOver
            <4> HIDE DEF rest, jobs
            <4> QED  BY <2>2, <2>3, <2>4, <2>6, <4>1, <4>2, SpawnIsAlone
        <3>2. CASE ~(tasks[t].next # 0 /\ Active(tasks[t].run) = {})
            <4>1. tasks' = rest /\ job' = jobs /\ cancel' = cancel
                BY <1>4, <3>2 DEF HandOver
            <4>2. LiveHasJob' /\ SingleFlight'
                BY <2>4, <4>1 DEF LiveHasJob, SingleFlight, Live
            <4>3. cancel' \in [Ids -> BOOLEAN]
                BY <4>1 DEF TypeOK
            <4> QED  BY <2>2, <2>3, <4>1, <4>2, <4>3
        <3> QED  BY <3>1, <3>2
    <2>8. UNCHANGED <<status, client, died>>
        BY <1>4 DEF HandOver
    <2>9. TypeOK'
        BY <2>7, <2>8 DEF TypeOK
    <2>10. RequestHasRun' /\ RunningHasTask'
        BY <2>5, <2>8 DEF RequestHasRun, RunningHasTask
    <2> QED  BY <2>7, <2>9, <2>10
<1> QED  BY <1>1, <1>2, <1>3, <1>4 DEF TaskStep

-----------------------------------------------------------------------------
(* The steps of the requests *)

\* What every request but Start leaves alone, and how it moves the rest.
LEMMA RequestIsQuiet ==
    ASSUME IInv, UNCHANGED <<tasks, job, died>>,
           cancel' \in [Ids -> BOOLEAN],
           status' \in [Ids -> Statuses],
           \A r \in Ids : status'[r] = "running" => status[r] = "running",
           client' \in [Clients -> Request],
           RequestHasRun'
    PROVE  IInv'
<1> USE DEF IInv
<1>1. TypeOK'
    BY DEF TypeOK
<1>2. LiveHasJob' /\ SingleFlight'
    BY DEF LiveHasJob, SingleFlight, Live
<1>3. RunningHasTask'
    BY DEF RunningHasTask
<1> QED  BY <1>1, <1>2, <1>3

\* One request moves on, is answered, or comes in.
LEMMA OneRequest ==
    ASSUME IInv, NEW c \in Clients, NEW q \in Request,
           client' = [client EXCEPT ![c] = q],
           q.at \in {"start", "cancel", "flip", "resume", "requeue", "delete", "drop"}
               => q.run \in Ids
    PROVE  client' \in [Clients -> Request] /\ RequestHasRun'
    BY DEF IInv, TypeOK, RequestHasRun

LEMMA RequestMoves ==
    ASSUME IInv, NEW c \in Clients,
           NEW at \in {"cancel", "flip", "resume", "requeue", "delete", "drop", "start"},
           client[c].run \in Ids, Await(c, at)
    PROVE  client' \in [Clients -> Request] /\ RequestHasRun'
    BY DEF Await, Request, IInv, TypeOK, RequestHasRun

LEMMA RequestAnswered ==
    ASSUME IInv, NEW c \in Clients, Answered(c)
    PROVE  client' \in [Clients -> Request] /\ RequestHasRun'
<1>1. NoRequest \in Request /\ NoRequest.at = "idle"
    BY DEF NoRequest, Asking, Request
<1> QED  BY <1>1, OneRequest DEF Answered

LEMMA RequestAsked ==
    ASSUME IInv, NEW c \in Clients, NEW r \in Ids \cup {0}, NEW saw \in BOOLEAN,
           NEW ids \in SUBSET Ids,
           NEW at \in {"idle", "insert", "start", "cancel", "flip", "resume", "requeue",
                       "delete", "drop", "list", "mark"},
           at \in {"start", "cancel", "flip", "resume", "requeue", "delete", "drop"}
               => r \in Ids,
           client' = [client EXCEPT ![c] = Asking(at, r, saw, ids)]
    PROVE  client' \in [Clients -> Request] /\ RequestHasRun'
<1>1. Asking(at, r, saw, ids) \in Request /\ Asking(at, r, saw, ids).at = at
      /\ Asking(at, r, saw, ids).run = r
    BY DEF Asking, Request
<1> QED  BY <1>1, OneRequest

\* Which requests know their run.
LEMMA RunKnown ==
    ASSUME IInv, NEW c \in Clients,
           client[c].at \in {"start", "cancel", "flip", "resume", "requeue", "delete", "drop"}
    PROVE  client[c].run \in Ids
    BY DEF IInv, RequestHasRun

LEMMA RequestKeepsIInv ==
    ASSUME IInv, NEW c \in Clients, ClientStep(c)
    PROVE  IInv'
<1> DEFINE Quiet == /\ UNCHANGED <<tasks, job, died>>
                    /\ cancel' \in [Ids -> BOOLEAN]
                    /\ status' \in [Ids -> Statuses]
                    /\ \A r \in Ids : status'[r] = "running" => status[r] = "running"
           Moved == client' \in [Clients -> Request] /\ RequestHasRun'
<1>1. SUFFICES (Quiet /\ Moved) \/ IInv'
    BY RequestIsQuiet
<1>2. UNCHANGED <<status, runnerVars, died>> => Quiet
    BY DEF IInv, TypeOK, runnerVars
<1>3. ASSUME NEW r, NEW s \in Statuses \ {"running"}, SetStatus(r, s),
             UNCHANGED <<runnerVars, died>>
      PROVE  Quiet
    BY <1>3, StatusType DEF IInv, TypeOK, runnerVars
<1>4. CASE Create(c)
    <2>1. client' = [client EXCEPT ![c] = Asking("insert", 0, Active(0) # {}, {})]
        BY <1>4 DEF Create, Ask
    <2>2. (Active(0) # {}) \in BOOLEAN
        OBVIOUS
    <2>3. Moved
        BY <2>1, <2>2, RequestAsked
    <2> QED  BY <1>2, <1>4, <2>3 DEF Create
<1>5. CASE Insert(c)
    <2>1. PICK r \in Ids :
            /\ FreshRun(r)
            /\ status' = [status EXCEPT ![r] = "queued"]
            /\ IF client[c].saw
               THEN Answered(c)
               ELSE client' = [client EXCEPT ![c] = About(r, "start")]
        BY <1>5 DEF Insert
    <2>2. Quiet
        BY <1>5, <2>1 DEF Insert, IInv, TypeOK, runnerVars, Statuses
    <2>3. Moved
        <3>1. CASE client[c].saw
            BY <2>1, <3>1, RequestAnswered
        <3>2. CASE ~client[c].saw
            <4>1. client' = [client EXCEPT ![c] = Asking("start", r, FALSE, {})]
                BY <2>1, <3>2 DEF About
            <4> QED  BY <4>1, RequestAsked
        <3> QED  BY <3>1, <3>2
    <2> QED  BY <2>2, <2>3
<1>6. CASE Start(c)
    <2>1. client[c].run \in Ids
        BY <1>6, RunKnown DEF Start
    <2>2. Moved
        BY <1>6, RequestAnswered DEF Start
    <2>3. CASE Active(0) = {}
        <3>1. \A t \in Tasks : tasks[t].at = "none"
            BY <2>3, NobodyActive DEF IInv
        <3>2. \E t \in Tasks : ~Live(t)
            BY <3>1 DEF Live, Tasks
        <3>3. Spawn(client[c].run, tasks, job)
            BY <1>6, <2>3 DEF Start, StartRun
        <3>4. /\ tasks' \in [Tasks -> Task]
              /\ job' \in [Ids -> Tasks \cup {NoJob, Ended}]
              /\ cancel' \in [Ids -> BOOLEAN]
              /\ LiveHasJob' /\ SingleFlight'
            BY <2>1, <3>1, <3>2, <3>3, SpawnIsAlone DEF IInv, TypeOK
        <3>5. TypeOK'
            BY <1>6, <2>2, <3>4 DEF Start, IInv, TypeOK
        <3>6. RunningHasTask'
            BY <1>6, <3>1 DEF Start, IInv, RunningHasTask
        <3> QED  BY <2>2, <3>4, <3>5, <3>6 DEF IInv
    <2>4. CASE Active(0) # {}
        BY <1>2, <1>6, <2>2, <2>4 DEF Start, StartRun
    <2> QED  BY <2>3, <2>4
<1>7. ASSUME NEW r \in Ids, Cancel(c, r) \/ Resume(c, r)
      PROVE  Quiet /\ Moved
    <2>1. PICK at \in {"cancel", "resume"} :
             client' = [client EXCEPT ![c] = Asking(at, r, FALSE, {})]
        BY <1>7 DEF Cancel, Resume, Ask, About
    <2>2. Moved
        BY <2>1, RequestAsked
    <2> QED  BY <1>2, <1>7, <2>2 DEF Cancel, Resume
<1>8. ASSUME NEW r \in Ids, Delete(c, r)
      PROVE  Quiet /\ Moved
    <2> DEFINE saw == status[r] \in {"queued", "running"}
    <2>1. client' = [client EXCEPT ![c] = Asking("delete", r, saw, {})]
        BY <1>8 DEF Delete, Ask
    <2>2. Moved
        <3>1. saw \in BOOLEAN
            OBVIOUS
        <3> HIDE DEF saw
        <3> QED  BY <2>1, <3>1, RequestAsked
    <2> QED  BY <1>2, <1>8, <2>2 DEF Delete
<1>9. CASE CancelJob(c)
    <2>1. Quiet
        BY <1>9 DEF CancelJob, IInv, TypeOK
    <2>2. client[c].run \in Ids
        BY <1>9, RunKnown DEF CancelJob
    <2>3. Moved
        BY <1>9, <2>2, RequestMoves, RequestAnswered DEF CancelJob
    <2> QED  BY <2>1, <2>3
<1>10. CASE FlipCancelled(c)
    <2>1. "cancelled" \in Statuses \ {"running"}
        BY DEF Statuses, Ends
    <2> QED  BY <1>3, <1>10, <2>1, RequestAnswered DEF FlipCancelled
<1>11. CASE ResumeFree(c)
    <2>1. client[c].run \in Ids
        BY <1>11, RunKnown DEF ResumeFree
    <2> QED  BY <1>2, <1>11, <2>1, RequestMoves, RequestAnswered DEF ResumeFree
<1>12. CASE Requeue(c)
    <2>1. client[c].run \in Ids
        BY <1>12, RunKnown DEF Requeue
    <2>2. "queued" \in Statuses \ {"running"}
        BY DEF Statuses
    <2> QED  BY <1>3, <1>12, <2>1, <2>2, RequestMoves DEF Requeue
<1>13. CASE DeleteFree(c)
    <2>1. client[c].run \in Ids
        BY <1>13, RunKnown DEF DeleteFree
    <2> QED  BY <1>2, <1>13, <2>1, RequestMoves, RequestAnswered DEF DeleteFree
<1>14. CASE Drop(c)
    <2>1. "deleted" \in Statuses \ {"running"}
        BY DEF Statuses
    <2> QED  BY <1>3, <1>14, <2>1, RequestAnswered DEF Drop
<1>15. CASE List(c)
    <2>1. client' = [client EXCEPT ![c] = Asking("list", 0, FALSE, Active(0))]
        BY <1>15 DEF List, Ask
    <2>2. Active(0) \in SUBSET Ids
        BY DEF Active
    <2>3. Moved
        BY <2>1, <2>2, RequestAsked
    <2> QED  BY <1>2, <1>15, <2>3 DEF List
<1>16. CASE FindOrphans(c)
    <2>1. CASE Answered(c)
        BY <1>2, <1>16, <2>1, RequestAnswered DEF FindOrphans
    <2>2. CASE ~Answered(c)
        <3>1. PICK ids \in SUBSET Ids :
                client' = [client EXCEPT ![c] = Asking("mark", 0, FALSE, ids)]
            BY <1>16, <2>2 DEF FindOrphans
        <3>2. Moved
            BY <3>1, RequestAsked
        <3> QED  BY <1>2, <1>16, <3>2 DEF FindOrphans
    <2> QED  BY <2>1, <2>2
<1>17. CASE MarkOrphan(c)
    <2>1. PICK r \in client[c].ids :
            /\ SetStatus(r, "error")
            /\ IF client[c].ids = {r}
               THEN Answered(c)
               ELSE client' = [client EXCEPT ![c].ids = @ \ {r}]
        BY <1>17 DEF MarkOrphan
    <2>2. "error" \in Statuses \ {"running"}
        BY DEF Statuses, Ends
    <2>3. Quiet
        BY <1>3, <1>17, <2>1, <2>2 DEF MarkOrphan
    <2>4. CASE Answered(c)
        BY <2>3, <2>4, RequestAnswered
    <2>5. CASE client' = [client EXCEPT ![c].ids = @ \ {r}]
        <3>1. Moved
            BY <2>5 DEF IInv, TypeOK, Request, RequestHasRun
        <3> QED  BY <2>3, <3>1
    <2> QED  BY <2>1, <2>4, <2>5
<1> QED
    BY <1>4, <1>5, <1>6, <1>7, <1>8, <1>9, <1>10, <1>11, <1>12, <1>13, <1>14,
       <1>15, <1>16, <1>17
    DEF ClientStep

-----------------------------------------------------------------------------
(* A restart *)

\* Memory is gone; a row that still says "running" says so of a run that died.
LEMMA RestartKeepsIInv ==
    ASSUME IInv, Restart
    PROVE  IInv'
<1> USE DEF IInv
<1>1. PICK said \in SUBSET {r \in Ids : \E t \in Tasks : tasks[t].run = r /\ tasks[t].at = "days"},
           begun \in SUBSET Queued :
        /\ status' = [r \in Ids |-> CASE r \in begun -> "running"
                                     [] r \in said \ begun /\ status[r] # "deleted" -> "cancelled"
                                     [] OTHER -> status[r]]
        /\ died' = died \cup begun \cup {tasks[t].run : t \in {u \in Tasks : Live(u)}}
    BY DEF Restart
<1>2. /\ tasks' = [t \in Tasks |-> NoTask]
      /\ job' = [r \in Ids |-> NoJob]
      /\ cancel' = [r \in Ids |-> FALSE]
      /\ client' = [c \in Clients |-> NoRequest]
    BY DEF Restart
<1>3. NoTask \in Task /\ NoTask.at = "none" /\ NoRequest \in Request /\ NoRequest.at = "idle"
    BY DEF NoTask, Task, NoRequest, Asking, Request
<1>4. status' \in [Ids -> Statuses]
    BY <1>1 DEF TypeOK, Statuses, Ends
<1>5. died' \subseteq Ids
    BY <1>1 DEF Queued, LiveHasJob, TypeOK
<1>6. TypeOK'
    BY <1>2, <1>3, <1>4, <1>5 DEF TypeOK
<1>7. RequestHasRun' /\ LiveHasJob' /\ SingleFlight'
    BY <1>2, <1>3 DEF RequestHasRun, LiveHasJob, SingleFlight, Live
<1>8. RunningHasTask'
    <2>1. ASSUME NEW r \in Ids, status'[r] = "running"
          PROVE  r \in died'
        <3>1. r \in begun \/ status[r] = "running"
            BY <1>1, <2>1
        <3>2. CASE \E t \in Tasks : tasks[t].run = r /\ tasks[t].at = "days"
            BY <1>1, <3>2 DEF Live
        <3> QED  BY <1>1, <3>1, <3>2 DEF RunningHasTask
    <2> QED  BY <2>1 DEF RunningHasTask
<1> QED  BY <1>6, <1>7, <1>8

-----------------------------------------------------------------------------
(* The theorems *)

LEMMA IInvStep == IInv /\ [Next]_vars => IInv'
<1> SUFFICES ASSUME IInv, [Next]_vars PROVE IInv'
    OBVIOUS
<1>1. CASE UNCHANGED vars
    BY <1>1 DEF IInv, TypeOK, RequestHasRun, LiveHasJob, SingleFlight, RunningHasTask,
                Live, vars, runnerVars
<1> QED
    BY <1>1, TaskKeepsIInv, RequestKeepsIInv, RestartKeepsIInv DEF Next

LEMMA IInvHolds == Spec => []IInv
    BY InitIInv, IInvStep, PTL DEF Spec

\* Rows, tasks, jobs and requests keep their types.
THEOREM BacktestQueueTypeCorrect == Spec => []TypeOK
<1>1. IInv => TypeOK
    BY DEF IInv
<1> QED  BY <1>1, IInvHolds, PTL

\* One run process-wide (the runner's docstring): however requests overtake
\* each other and the hand-over, start_run never makes a second live task.
THEOREM SingleFlightHolds == Spec => []SingleFlight
<1>1. IInv => SingleFlight
    BY DEF IInv
<1> QED  BY <1>1, IInvHolds, PTL

\* What fail_orphaned_runs takes for granted: a running row without a task is
\* one the process died on.
THEOREM RunningHasTaskHolds == Spec => []RunningHasTask
<1>1. IInv => RunningHasTask
    BY DEF IInv
<1> QED  BY <1>1, IInvHolds, PTL

-----------------------------------------------------------------------------
(* Induction, and what the trades of a ledger realised *)

LEMMA NatMin ==
    ASSUME NEW T, T \subseteq Nat, T # {}
    PROVE  \E d \in T : \A e \in T : d <= e
  <1> DEFINE R == {p \in Nat \X Nat : p[1] < p[2]}
  <1>1. OpToRel(<, Nat) = R
    BY Zenon DEF OpToRel
  <1>2. IsWellFoundedOn(R, Nat)
    BY <1>1, NatLessThanWellFounded, Zenon
  <1>3. PICK d \in T : \A e \in T : ~(<<e, d>> \in R)
    <2> HIDE DEF R
    <2> QED BY <1>2, WFMin, Zenon
  <1>4. \A e \in T : d <= e
    <2> TAKE e \in T
    <2>1. <<e, d>> \in Nat \X Nat /\ <<e, d>>[1] = e /\ <<e, d>>[2] = d
      OBVIOUS
    <2>2. ~(e < d)
      BY <2>1, <1>3
    <2> QED BY <2>2
  <1> QED
    BY <1>4

LEMMA NatInduct ==
    ASSUME NEW T, 0 \in T, \A n \in Nat : n \in T => n + 1 \in T
    PROVE  Nat \subseteq T
  <1> SUFFICES ASSUME Nat \ T # {}
               PROVE  FALSE
    OBVIOUS
  <1>1. PICK n \in Nat \ T : \A m \in Nat \ T : n <= m
    BY NatMin
  <1>2. n # 0
    OBVIOUS
  <1>3. n - 1 \in Nat /\ ~(n <= n - 1) /\ (n - 1) + 1 = n
    BY <1>2
  <1>4. n - 1 \in T
    BY <1>1, <1>3
  <1> QED
    BY <1>3, <1>4

\* What holds of a set if it holds of the set without any one element.
LEMMA SubsetInduct ==
    ASSUME NEW S, IsFiniteSet(S), NEW T,
           \A s \in SUBSET S : (\A x \in s : s \ {x} \in T) => s \in T
    PROVE  S \in T
  <1> SUFFICES ASSUME S \notin T
               PROVE  FALSE
    OBVIOUS
  <1> DEFINE Sizes == {Cardinality(s) : s \in (SUBSET S) \ T}
  <1>1. \A s \in SUBSET S : IsFiniteSet(s) /\ Cardinality(s) \in Nat
    BY FS_Subset, FS_CardinalityType
  <1>2. PICK n \in Sizes : \A m \in Sizes : n <= m
    <2>1. Sizes \subseteq Nat /\ Sizes # {}
      BY <1>1
    <2> HIDE DEF Sizes
    <2> QED
      BY <2>1, NatMin
  <1>3. PICK s \in (SUBSET S) \ T : n = Cardinality(s)
    BY <1>2
  <1>4. PICK x \in s : s \ {x} \notin T
    BY <1>3
  <1>5. Cardinality(s \ {x}) = Cardinality(s) - 1
    BY <1>1, <1>3, <1>4, FS_RemoveElement
  <1>6. Cardinality(s \ {x}) \in Sizes
    BY <1>3, <1>4
  <1>7. n <= Cardinality(s \ {x})
    <2> HIDE DEF Sizes
    <2> QED
      BY <1>2, <1>6
  <1>8. Cardinality(s) \in Nat
    BY <1>1, <1>3
  <1> QED
    BY <1>3, <1>5, <1>7, <1>8

\* What a trade adds, the trade a sum takes next, and the sums of the subsets of S.
Value(t) == IF t.exit = 0 THEN 0 ELSE t.pnl
Picked(s) == CHOOSE x \in s : TRUE
Sums(D, f) == f = [s \in D |-> IF s = {} THEN 0 ELSE Value(Picked(s)) + f[s \ {Picked(s)}]]
SumOf(S) == CHOOSE f : Sums(SUBSET S, f)

LEMMA RealizedIsSum ==
    ASSUME NEW S
    PROVE  Run!Realized(S) = SumOf(S)[S]
  BY DEF Run!Realized, Run!MapThenSumSet, Run!MapThenFoldSet, SumOf, Sums, Picked, Value

LEMMA SumsExist ==
    ASSUME NEW S, IsFiniteSet(S)
    PROVE  Sums(SUBSET S, SumOf(S))
  <1> DEFINE Upto(n) == {s \in SUBSET S : Cardinality(s) <= n}
             T == {n \in Nat : \E f : Sums(Upto(n), f)}
  <1>1. \A s \in SUBSET S : IsFiniteSet(s) /\ Cardinality(s) \in Nat
    BY FS_Subset, FS_CardinalityType
  <1>2. \A n \in Nat : \A s \in Upto(n + 1) : s # {} => s \ {Picked(s)} \in Upto(n)
    <2> SUFFICES ASSUME NEW n \in Nat, NEW s \in Upto(n + 1), s # {}
                 PROVE  s \ {Picked(s)} \in Upto(n)
      OBVIOUS
    <2>1. Picked(s) \in s
      BY DEF Picked
    <2>2. Cardinality(s \ {Picked(s)}) = Cardinality(s) - 1
      BY <1>1, <2>1, FS_RemoveElement
    <2> QED
      BY <1>1, <2>2
  <1>3. \A s \in Upto(0) : s = {}
    BY <1>1, FS_EmptySet
  <1>4. {} \in Upto(0) /\ \A n \in Nat : Upto(n) \subseteq Upto(n + 1)
    BY <1>1, FS_EmptySet
  <1> HIDE DEF Upto
  <1>5. 0 \in T
    <2> DEFINE f == [s \in Upto(0) |-> 0]
    <2>1. f = [s \in Upto(0) |-> IF s = {} THEN 0 ELSE Value(Picked(s)) + f[s \ {Picked(s)}]]
      BY <1>3
    <2> HIDE DEF f
    <2>2. Sums(Upto(0), f)
      BY <2>1 DEF Sums
    <2> QED
      BY <2>2
  <1>6. ASSUME NEW n \in Nat, n \in T
        PROVE  n + 1 \in T
    <2>1. PICK g : Sums(Upto(n), g)
      BY <1>6
    <2> DEFINE f == [s \in Upto(n + 1) |->
                        IF s = {} THEN 0 ELSE Value(Picked(s)) + g[s \ {Picked(s)}]]
    <2>2. \A s \in Upto(n) : f[s] = g[s]
      BY <1>4, <2>1 DEF Sums
    <2>3. f = [s \in Upto(n + 1) |->
                  IF s = {} THEN 0 ELSE Value(Picked(s)) + f[s \ {Picked(s)}]]
      BY <1>2, <2>2
    <2> HIDE DEF f
    <2>4. Sums(Upto(n + 1), f)
      BY <2>3 DEF Sums
    <2> QED
      BY <2>4
  <1>7. Nat \subseteq T
    <2> HIDE DEF T
    <2> QED
      BY <1>5, <1>6, NatInduct
  <1>8. Cardinality(S) \in Nat /\ Upto(Cardinality(S)) = SUBSET S
    BY <1>1, FS_Subset DEF Upto
  <1>9. \E f : Sums(SUBSET S, f)
    BY <1>7, <1>8
  <1> QED
    BY <1>9 DEF SumOf

\* The sum over a set does not depend on where it is taken.
LEMMA SumsAgree ==
    ASSUME NEW S, IsFiniteSet(S), NEW R, IsFiniteSet(R), S \subseteq R
    PROVE  SumOf(S)[S] = SumOf(R)[S]
  <1> DEFINE T == {s \in SUBSET S : SumOf(S)[s] = SumOf(R)[s]}
  <1>1. Sums(SUBSET S, SumOf(S)) /\ Sums(SUBSET R, SumOf(R))
    BY SumsExist
  <1>2. ASSUME NEW s \in SUBSET S, \A x \in s : s \ {x} \in T
        PROVE  s \in T
    <2>1. SumOf(S)[s] = IF s = {} THEN 0 ELSE Value(Picked(s)) + SumOf(S)[s \ {Picked(s)}]
      BY <1>1 DEF Sums
    <2>2. SumOf(R)[s] = IF s = {} THEN 0 ELSE Value(Picked(s)) + SumOf(R)[s \ {Picked(s)}]
      BY <1>1 DEF Sums
    <2>3. s # {} => SumOf(S)[s \ {Picked(s)}] = SumOf(R)[s \ {Picked(s)}]
      BY <1>2 DEF Picked
    <2> QED
      BY <2>1, <2>2, <2>3
  <1>3. S \in T
    <2> HIDE DEF T
    <2> QED
      BY <1>2, SubsetInduct
  <1> QED
    BY <1>3

LEMMA RealizedUnfolds ==
    ASSUME NEW S, IsFiniteSet(S)
    PROVE  Run!Realized(S) = IF S = {} THEN 0
                             ELSE Value(Picked(S)) + Run!Realized(S \ {Picked(S)})
  <1>1. Sums(SUBSET S, SumOf(S))
    BY SumsExist
  <1>2. SumOf(S)[S] = IF S = {} THEN 0 ELSE Value(Picked(S)) + SumOf(S)[S \ {Picked(S)}]
    BY <1>1 DEF Sums
  <1> DEFINE Q == S \ {Picked(S)}
  <1>3. IsFiniteSet(Q) /\ Q \subseteq S
    BY FS_Subset
  <1>4. SumOf(Q)[Q] = SumOf(S)[Q]
    <2> HIDE DEF Q
    <2> QED
      BY <1>3, SumsAgree
  <1>5. Run!Realized(S) = SumOf(S)[S] /\ Run!Realized(Q) = SumOf(Q)[Q]
    BY RealizedIsSum
  <1> QED
    BY <1>2, <1>4, <1>5

\* A ledger's trades are worth integers.
Valued(S) == IsFiniteSet(S) /\ \A t \in S : Value(t) \in Int

LEMMA RealizedType ==
    ASSUME NEW S, Valued(S)
    PROVE  Run!Realized(S) \in Int
  <1> DEFINE T == {s \in SUBSET S : Run!Realized(s) \in Int}
  <1>1. ASSUME NEW s \in SUBSET S, \A x \in s : s \ {x} \in T
        PROVE  s \in T
    <2>1. IsFiniteSet(s) /\ \A t \in s : Value(t) \in Int
      BY FS_Subset DEF Valued
    <2>2. s # {} => Picked(s) \in s
      BY DEF Picked
    <2>3. Run!Realized(s) = IF s = {} THEN 0
                            ELSE Value(Picked(s)) + Run!Realized(s \ {Picked(s)})
      BY <2>1, RealizedUnfolds
    <2>4. s # {} => Run!Realized(s \ {Picked(s)}) \in Int
      BY <1>1, <2>2
    <2> QED
      BY <2>1, <2>2, <2>3, <2>4
  <1>2. S \in T
    <2> HIDE DEF T
    <2> QED
      BY <1>1, SubsetInduct DEF Valued
  <1> QED
    BY <1>2

\* Any trade may be taken first.
LEMMA RealizedTakes ==
    ASSUME NEW S, Valued(S), NEW x \in S
    PROVE  Run!Realized(S) = Value(x) + Run!Realized(S \ {x})
  <1> DEFINE T == {s \in SUBSET S :
                      \A y \in s : Run!Realized(s) = Value(y) + Run!Realized(s \ {y})}
  <1>0. \A s \in SUBSET S : Valued(s) /\ IsFiniteSet(s) /\ Run!Realized(s) \in Int
    BY FS_Subset, RealizedType DEF Valued
  <1>1. ASSUME NEW s \in SUBSET S, \A y \in s : s \ {y} \in T
        PROVE  s \in T
    <2> SUFFICES ASSUME NEW y \in s
                 PROVE  Run!Realized(s) = Value(y) + Run!Realized(s \ {y})
      OBVIOUS
    <2> DEFINE c == Picked(s)
    <2>1. c \in s
      BY DEF Picked
    <2>2. Run!Realized(s) = Value(c) + Run!Realized(s \ {c})
      BY <1>0, <2>1, RealizedUnfolds
    <2>3. CASE c = y
      BY <2>2, <2>3
    <2>4. CASE c # y
      <3> HIDE DEF c
      <3>1. Run!Realized(s \ {c}) = Value(y) + Run!Realized((s \ {c}) \ {y})
        BY <1>1, <2>1, <2>4
      <3>2. Run!Realized(s \ {y}) = Value(c) + Run!Realized((s \ {y}) \ {c})
        BY <1>1, <2>1, <2>4
      <3>3. (s \ {c}) \ {y} = (s \ {y}) \ {c}
        OBVIOUS
      <3>4. Value(c) \in Int /\ Value(y) \in Int /\ Run!Realized((s \ {c}) \ {y}) \in Int
        BY <1>0, <2>1 DEF Valued
      <3> DEFINE rest == Run!Realized((s \ {c}) \ {y})
      <3>5. /\ Run!Realized(s) = Value(c) + Run!Realized(s \ {c})
            /\ Run!Realized(s \ {c}) = Value(y) + rest
            /\ Run!Realized(s \ {y}) = Value(c) + rest
            /\ rest \in Int
        BY <2>2, <3>1, <3>2, <3>3, <3>4 DEF c
      <3> HIDE DEF rest, T
      <3> QED
        BY <3>4, <3>5
    <2> QED
      BY <2>3, <2>4
  <1>2. S \in T
    <2> HIDE DEF T
    <2> QED
      BY <1>1, SubsetInduct DEF Valued
  <1> QED
    BY <1>2

-----------------------------------------------------------------------------
(* The ledger of a run that never stops *)

\* Any number of days, any market, any number of stops and cancels.  Three things are left
\* out because the code does not keep the promise with them (runs of BacktestRun refute it):
\* a day made whole while the run is stopped, settings.carry_pause, and a day before the last
\* that passes the preflight and has no frame.
RunSettings ==
    /\ LastDay \in Nat /\ Scripts \subseteq Run!Script
    /\ Faults \subseteq {"stop", "cancel"} /\ CarryPauses \subseteq {FALSE}
    /\ ThinDays \subseteq {LastDay}

\* The ledger and the pause after each day, of a run that does every day with a frame.
Straight(f) ==
    f = [d \in 0 .. LastDay |->
            IF d = 0 THEN [ledger |-> {}, paused |-> FALSE]
            ELSE IF Run!HasFrame(d)
                 THEN Run!Played(d, f[d - 1].ledger, carryPause /\ f[d - 1].paused)
                 ELSE f[d - 1]]
Ideal == CHOOSE f : Straight(f)

LEMMA IdealExists ==
    ASSUME LastDay \in Nat
    PROVE  Straight(Ideal)
  <1> DEFINE Upto(n, f) ==
               f = [d \in 0 .. n |->
                       IF d = 0 THEN [ledger |-> {}, paused |-> FALSE]
                       ELSE IF Run!HasFrame(d)
                            THEN Run!Played(d, f[d - 1].ledger, carryPause /\ f[d - 1].paused)
                            ELSE f[d - 1]]
             T == {n \in Nat : \E f : Upto(n, f)}
  <1>1. 0 \in T
    <2> DEFINE f == [d \in 0 .. 0 |-> [ledger |-> {}, paused |-> FALSE]]
    <2>1. Upto(0, f)
      BY \A d \in 0 .. 0 : d = 0
    <2> HIDE DEF f, Upto
    <2> QED
      BY <2>1
  <1>2. ASSUME NEW n \in Nat, n \in T
        PROVE  n + 1 \in T
    <2>1. PICK g : Upto(n, g)
      BY <1>2
    <2> DEFINE f == [d \in 0 .. n + 1 |->
                       IF d = 0 THEN [ledger |-> {}, paused |-> FALSE]
                       ELSE IF Run!HasFrame(d)
                            THEN Run!Played(d, g[d - 1].ledger, carryPause /\ g[d - 1].paused)
                            ELSE g[d - 1]]
    <2>2. \A d \in 0 .. n : d \in 0 .. n + 1 /\ f[d] = g[d]
      <3> TAKE d \in 0 .. n
      <3>1. d \in 0 .. n + 1
        OBVIOUS
      <3>2. g[d] = IF d = 0 THEN [ledger |-> {}, paused |-> FALSE]
                   ELSE IF Run!HasFrame(d)
                        THEN Run!Played(d, g[d - 1].ledger, carryPause /\ g[d - 1].paused)
                        ELSE g[d - 1]
        BY <2>1, Zenon
      <3>3. f[d] = IF d = 0 THEN [ledger |-> {}, paused |-> FALSE]
                   ELSE IF Run!HasFrame(d)
                        THEN Run!Played(d, g[d - 1].ledger, carryPause /\ g[d - 1].paused)
                        ELSE g[d - 1]
        BY <3>1, Zenon
      <3> QED
        BY <3>1, <3>2, <3>3
    <2>3. \A d \in 0 .. n + 1 : d = 0 \/ d - 1 \in 0 .. n
      OBVIOUS
    <2>4. \A d \in 0 .. n + 1 : d # 0 => f[d - 1] = g[d - 1]
      BY <2>2, <2>3
    <2>5. f = [d \in 0 .. n + 1 |->
                 IF d = 0 THEN [ledger |-> {}, paused |-> FALSE]
                 ELSE IF Run!HasFrame(d)
                      THEN Run!Played(d, f[d - 1].ledger, carryPause /\ f[d - 1].paused)
                      ELSE f[d - 1]]
      BY <2>4
    <2>6. Upto(n + 1, f)
      BY <2>5
    <2> HIDE DEF f, Upto
    <2> QED
      BY <2>6
  <1>3. LastDay \in T
    <2> HIDE DEF T
    <2> QED
      BY <1>1, <1>2, NatInduct
  <1>4. \E f : Straight(f)
    BY <1>3 DEF Straight
  <1> QED
    BY <1>4 DEF Ideal

Led(d) == Ideal[d].ledger

\* Without a pause that is carried, a day is a function of the ledger.
LEMMA IdealSteps ==
    ASSUME LastDay \in Nat, carryPause = FALSE
    PROVE  /\ Led(0) = {}
           /\ \A d \in 1 .. LastDay :
                 Led(d) = IF Run!HasFrame(d) THEN Run!Played(d, Led(d - 1), FALSE).ledger
                          ELSE Led(d - 1)
  <1>1. Straight(Ideal)
    BY IdealExists
  <1>2. Ideal[0] = [ledger |-> {}, paused |-> FALSE]
    BY <1>1, 0 \in 0 .. LastDay DEF Straight
  <1>3. ASSUME NEW d \in 1 .. LastDay
        PROVE  Ideal[d] = IF Run!HasFrame(d)
                          THEN Run!Played(d, Ideal[d - 1].ledger, FALSE)
                          ELSE Ideal[d - 1]
    <2>1. d \in 0 .. LastDay /\ d # 0
      OBVIOUS
    <2>2. Ideal[d] = IF d = 0 THEN [ledger |-> {}, paused |-> FALSE]
                     ELSE IF Run!HasFrame(d)
                          THEN Run!Played(d, Ideal[d - 1].ledger,
                                          carryPause /\ Ideal[d - 1].paused)
                          ELSE Ideal[d - 1]
      BY <1>1, <2>1, Zenon DEF Straight
    <2>3. (carryPause /\ Ideal[d - 1].paused) = FALSE
      OBVIOUS
    <2> QED
      BY <2>1, <2>2, <2>3
  <1>4. ASSUME NEW d \in 1 .. LastDay
        PROVE  Led(d) = IF Run!HasFrame(d) THEN Run!Played(d, Led(d - 1), FALSE).ledger
                        ELSE Led(d - 1)
    <2>1. CASE Run!HasFrame(d)
      BY <1>3, <2>1 DEF Led
    <2>2. CASE ~Run!HasFrame(d)
      BY <1>3, <2>2 DEF Led
    <2> QED
      BY <2>1, <2>2
  <1>5. Led(0) = {}
    BY <1>2 DEF Led
  <1> QED
    BY <1>4, <1>5

\* What the runs compare with, once every day with a frame is done.
LEMMA UnstoppedIsIdeal ==
    ASSUME LastDay \in Nat,
           \A d \in 1 .. LastDay : days[d].status = "done" <=> Run!HasFrame(d)
    PROVE  \A d \in 0 .. LastDay : Run!Unstopped[d].ledger = Led(d)
  <1> DEFINE Rule(f) ==
               f = [d \in Run!Days \cup {0} |->
                       IF d = 0 THEN [ledger |-> {}, paused |-> FALSE]
                       ELSE IF days[d].status = "done"
                            THEN Run!Played(d, f[d - 1].ledger, carryPause /\ f[d - 1].paused)
                            ELSE f[d - 1]]
  <1>1. Run!Unstopped = CHOOSE f : Rule(f)
    BY DEF Run!Unstopped
  <1>2. Run!Days \cup {0} = 0 .. LastDay /\ \A d \in 0 .. LastDay : d = 0 \/ d \in 1 .. LastDay
    BY DEF Run!Days
  <1>3. Straight(Ideal)
    BY IdealExists
  <1>4. Rule(Ideal)
    BY <1>2, <1>3 DEF Straight
  <1>5. Rule(Run!Unstopped)
    <2> HIDE DEF Rule
    <2> QED
      BY <1>1, <1>4
  <1> DEFINE T == {n \in Nat : n \in 0 .. LastDay => Run!Unstopped[n] = Ideal[n]}
  <1>6. 0 \in T
    BY <1>4, <1>5
  <1>7. ASSUME NEW n \in Nat, n \in T
        PROVE  n + 1 \in T
    <2> SUFFICES ASSUME n + 1 \in 0 .. LastDay
                 PROVE  Run!Unstopped[n + 1] = Ideal[n + 1]
      OBVIOUS
    <2>1. n + 1 \in Run!Days \cup {0} /\ n + 1 # 0 /\ (n + 1) - 1 = n /\ n \in 0 .. LastDay
      BY <1>2
    <2>2. Run!Unstopped[n] = Ideal[n]
      BY <1>7, <2>1
    <2> DEFINE After(f) == IF days[n + 1].status = "done"
                           THEN Run!Played(n + 1, f[n].ledger, carryPause /\ f[n].paused)
                           ELSE f[n]
    <2>3. Run!Unstopped[n + 1] = After(Run!Unstopped)
      BY <1>5, <2>1
    <2>4. Ideal[n + 1] = After(Ideal)
      BY <1>4, <2>1
    <2> QED
      BY <2>2, <2>3, <2>4
  <1>8. Nat \subseteq T
    <2> HIDE DEF T
    <2> QED
      BY <1>6, <1>7, NatInduct
  <1> QED
    BY <1>8 DEF Led

-----------------------------------------------------------------------------
(* One day of a ledger *)

\* The ledger at the end of day d: its trades are numbered from 1, were entered and closed on
\* days with a frame, one at most is open, and an open one has realised nothing.
Numbered(L) ==
    /\ \E n \in Nat : {t.seq : t \in L} = 1 .. n
    /\ \A t, u \in L : t.seq = u.seq => t = u
Dated(L, d) ==
    \A t \in L :
        /\ t.day \in 1 .. d /\ Run!HasFrame(t.day)
        /\ \/ t.exit = 0 /\ t.pnl = 0
           \/ t.exit \in 1 .. d /\ Run!HasFrame(t.exit)
OneOpen(L) == \A t, u \in L : t.exit = 0 /\ u.exit = 0 => t = u
LedgerOK(L, d) ==
    L \subseteq Run!Trade /\ IsFiniteSet(L) /\ Numbered(L) /\ Dated(L, d) /\ OneOpen(L)

\* The carried trade closes on day d, or nothing does.
Closes(L, C, d, h, g) ==
    \/ C = L
    \/ /\ h \in L /\ h.exit = 0 /\ g \in Run!Trade
       /\ g.seq = h.seq /\ g.day = h.day /\ g.lots = h.lots /\ g.exit = d
       /\ C = (L \ {h}) \cup {g}

\* A trade is entered on day d, with nothing open, or none is.
Enters(C, P, d, e) ==
    \/ P = C
    \/ /\ e \in Run!Trade /\ e.seq = Run!NextSeq(C) /\ e.day = d
       /\ e.exit = d \/ (e.exit = 0 /\ e.pnl = 0)
       /\ \A t \in C : t.exit # 0
       /\ P = C \cup {e}

LEMMA NextSeqIs ==
    ASSUME NEW L, NEW n \in Nat, {t.seq : t \in L} = 1 .. n
    PROVE  Run!NextSeq(L) = n + 1
  <1> DEFINE S == {0} \cup {t.seq : t \in L}
  <1>1. S = 0 .. n
    OBVIOUS
  <1> HIDE DEF S
  <1>2. n \in S /\ \A x \in S : n >= x
    BY <1>1
  <1>3. \A m \in S : (\A x \in S : m >= x) => m = n
    BY <1>1
  <1>4. Run!Max(S) = n
    BY <1>2, <1>3 DEF Run!Max
  <1> QED
    BY <1>4 DEF Run!NextSeq, S

LEMMA ClosedOK ==
    ASSUME NEW d \in Nat \ {0}, NEW L, LedgerOK(L, d - 1), Run!HasFrame(d),
           NEW C, NEW h, NEW g, Closes(L, C, d, h, g)
    PROVE  LedgerOK(C, d)
  <1> USE DEF LedgerOK
  <1>1. \A i \in 1 .. d - 1 : i \in 1 .. d
    OBVIOUS
  <1>2. CASE C = L
    BY <1>1, <1>2 DEF Dated
  <1>3. CASE C # L
    <2>1. /\ h \in L /\ h.exit = 0 /\ g \in Run!Trade
          /\ g.seq = h.seq /\ g.day = h.day /\ g.exit = d
          /\ C = (L \ {h}) \cup {g}
      BY <1>3 DEF Closes
    <2>2. C \subseteq Run!Trade
      BY <2>1
    <2>3. IsFiniteSet(C)
      <3>1. IsFiniteSet(L \ {h}) /\ IsFiniteSet({g})
        BY FS_Subset, FS_Singleton
      <3> QED
        BY <2>1, <3>1, FS_Union
    <2>4. Numbered(C)
      <3>1. {t.seq : t \in C} = {t.seq : t \in L}
        BY <2>1
      <3>2. \A t, u \in C : t.seq = u.seq => t = u
        BY <2>1 DEF Numbered
      <3> QED
        BY <3>1, <3>2 DEF Numbered
    <2>5. Dated(C, d)
      <3>1. \A t \in L \ {h} : /\ t.day \in 1 .. d /\ Run!HasFrame(t.day)
                               /\ \/ t.exit = 0 /\ t.pnl = 0
                                  \/ t.exit \in 1 .. d /\ Run!HasFrame(t.exit)
        BY <1>1 DEF Dated
      <3>2. g.day \in 1 .. d /\ Run!HasFrame(g.day) /\ g.exit \in 1 .. d /\ Run!HasFrame(g.exit)
        BY <1>1, <2>1 DEF Dated
      <3> QED
        BY <2>1, <3>1, <3>2 DEF Dated
    <2>6. OneOpen(C)
      BY <2>1 DEF OneOpen
    <2> QED
      BY <2>2, <2>3, <2>4, <2>5, <2>6
  <1> QED
    BY <1>2, <1>3

LEMMA EnteredOK ==
    ASSUME NEW d \in Nat \ {0}, NEW C, LedgerOK(C, d), Run!HasFrame(d),
           NEW P, NEW e, Enters(C, P, d, e)
    PROVE  LedgerOK(P, d)
  <1> USE DEF LedgerOK
  <1>1. CASE P = C
    BY <1>1
  <1>2. CASE P # C
    <2>1. /\ e \in Run!Trade /\ e.seq = Run!NextSeq(C) /\ e.day = d
          /\ e.exit = d \/ (e.exit = 0 /\ e.pnl = 0)
          /\ \A t \in C : t.exit # 0
          /\ P = C \cup {e}
      BY <1>2 DEF Enters
    <2>2. P \subseteq Run!Trade /\ IsFiniteSet(P)
      BY <2>1, FS_AddElement
    <2>3. Numbered(P)
      <3>1. PICK n \in Nat : {t.seq : t \in C} = 1 .. n
        BY DEF Numbered
      <3>2. e.seq = n + 1
        BY <2>1, <3>1, NextSeqIs
      <3>3. \A t \in C : t.seq \in 1 .. n
        BY <3>1
      <3>4. {t.seq : t \in P} = {t.seq : t \in C} \cup {e.seq}
        BY <2>1
      <3>5. (1 .. n) \cup {n + 1} = 1 .. n + 1
        OBVIOUS
      <3>6. {t.seq : t \in P} = 1 .. n + 1 /\ n + 1 \in Nat
        BY <3>1, <3>2, <3>4, <3>5
      <3>7. \A t \in C : t.seq # e.seq
        BY <3>2, <3>3
      <3>8. \A t, u \in P : t.seq = u.seq => t = u
        BY <2>1, <3>7 DEF Numbered
      <3> QED
        BY <3>6, <3>8 DEF Numbered
    <2>4. Dated(P, d)
      <3>1. e.day \in 1 .. d /\ Run!HasFrame(e.day)
        BY <2>1
      <3>2. \/ e.exit = 0 /\ e.pnl = 0
            \/ e.exit \in 1 .. d /\ Run!HasFrame(e.exit)
        BY <2>1
      <3> QED
        BY <2>1, <3>1, <3>2 DEF Dated
    <2>5. OneOpen(P)
      BY <2>1 DEF OneOpen
    <2> QED
      BY <2>2, <2>3, <2>4, <2>5
  <1> QED
    BY <1>1, <1>2

\* A day of the orchestrator closes and then enters.
LEMMA PlayedIs ==
    ASSUME NEW d \in Run!Days, LastDay \in Nat, script[d] \in Run!Script,
           NEW L, LedgerOK(L, d - 1)
    PROVE  \E C, h, g, e : /\ Closes(L, C, d, h, g)
                           /\ Enters(C, Run!Played(d, L, FALSE).ledger, d, e)
  <1> DEFINE C == Run!Carried(d, L)
             P == Run!Played(d, L, FALSE).ledger
             e == Run!Entered(d, C)
  <1>0. d \in Nat \ {0}
    BY DEF Run!Days
  <1>1. P = IF Run!Enters(d, L, FALSE) THEN C \cup {e} ELSE C
    BY DEF Run!Played
  <1>2. \A t, u \in Run!Held(L) : t = u
    BY DEF LedgerOK, OneOpen, Run!Held
  <1>3. \A t \in L : t.exit = 0 => t \in Run!Held(L)
    <2> SUFFICES ASSUME NEW t \in L, t.exit = 0
                 PROVE  t \in Run!Held(L)
      OBVIOUS
    <2>1. t.seq <= t.seq
      BY DEF LedgerOK, Run!Trade
    <2> QED
      BY <2>1 DEF LedgerOK, OneOpen, Run!Held
  <1>4. \E h, g : Closes(L, C, d, h, g)
    <2>1. CASE script[d].carried = "stay" \/ Run!Held(L) = {}
      <3>1. C = L
        BY <2>1 DEF Run!Carried
      <3> QED
        BY <3>1 DEF Closes
    <2>2. CASE script[d].carried # "stay" /\ Run!Held(L) # {}
      <3>1. PICK h \in Run!Held(L) : TRUE
        BY <2>2
      <3>2. Run!Held(L) = {h} /\ h \in L /\ h.exit = 0 /\ h \in Run!Trade
        BY <1>2, <3>1 DEF Run!Held, LedgerOK
      <3> DEFINE g == [h EXCEPT !.exit = d, !.pnl = Run!Pnl(script[d].carried, h.lots)]
      <3>3. C = (L \ {h}) \cup {g}
        BY <2>2, <3>2 DEF Run!Carried
      <3>4. Run!Pnl(script[d].carried, h.lots) \in -2 .. 2
        BY <3>2 DEF Run!Pnl, Run!Trade
      <3>5. /\ g \in Run!Trade /\ g.seq = h.seq /\ g.day = h.day /\ g.lots = h.lots
            /\ g.exit = d
        BY <3>2, <3>4 DEF Run!Trade
      <3> HIDE DEF C, g
      <3>6. Closes(L, C, d, h, g)
        BY <3>2, <3>3, <3>5 DEF Closes
      <3> QED
        BY <3>6
    <2> QED
      BY <2>1, <2>2
  <1>5. Enters(C, P, d, e)
    <2>1. CASE ~Run!Enters(d, L, FALSE)
      BY <1>1, <2>1 DEF Enters
    <2>2. CASE Run!Enters(d, L, FALSE)
      <3>1. Run!Held(C) = {} /\ script[d].enter # "none"
        BY <2>2 DEF Run!Enters
      <3>2. \A t \in C : t.exit # 0
        \* Carried closes what is held, or leaves nothing open
        <4>1. PICK h, g : Closes(L, C, d, h, g)
          BY <1>4
        <4>2. CASE C = L
          BY <1>3, <3>1, <4>2
        <4>3. CASE C # L
          BY <1>0, <4>1, <4>3 DEF Closes, LedgerOK, OneOpen
        <4> QED
          BY <4>2, <4>3
      <3>3. e.seq = Run!NextSeq(C) /\ e.day = d
        BY DEF Run!Entered
      <3>4. e.exit = d \/ (e.exit = 0 /\ e.pnl = 0)
        BY DEF Run!Entered, Run!Pnl
      <3>5. e \in Run!Trade
        <4>1. PICK h, g : Closes(L, C, d, h, g)
          BY <1>4
        <4>2. PICK n \in Nat : {t.seq : t \in C} = 1 .. n
          <5>1. {t.seq : t \in C} = {t.seq : t \in L}
            BY <4>1 DEF Closes
          <5> QED
            BY <5>1 DEF LedgerOK, Numbered
        <4>3. Run!NextSeq(C) \in Nat \ {0}
          BY <4>2, NextSeqIs
        <4>4. e.lots \in {1, 2} /\ e.exit \in Run!Days \cup {0} /\ e.pnl \in -2 .. 2
          BY <1>0 DEF Run!Entered, Run!Pnl
        <4>5. e = [seq |-> e.seq, day |-> e.day, lots |-> e.lots, exit |-> e.exit, pnl |-> e.pnl]
          BY DEF Run!Entered
        <4> HIDE DEF C, e
        <4> QED
          BY <3>3, <4>3, <4>4, <4>5 DEF Run!Trade
      <3> QED
        BY <1>1, <2>2, <3>2, <3>3, <3>4, <3>5 DEF Enters
    <2> QED
      BY <2>1, <2>2
  <1> QED
    <2> HIDE DEF C, P, e
    <2> QED
      BY <1>4, <1>5 DEF P

-----------------------------------------------------------------------------
(* The transactions of a day *)

\* Of any stored rows S and any ledger P: delete_day_outputs, the trades entered on the day,
\* those closed on it, and update_trade_exit for a set of exits.
Cleared(S, d) ==
    {IF t.exit = d THEN [t EXCEPT !.exit = 0, !.pnl = 0] ELSE t : t \in {u \in S : u.day # d}}
NewOf(P, d)    == {t \in P : t.day = d}
ClosedOf(P, d) == {t \in P : t.exit = d}
Booking(S, X)  ==
    {IF \E t \in X : t.seq = r.seq THEN CHOOSE t \in X : t.seq = r.seq ELSE r : r \in S}

\* What a day's outputs are does not reach back, and a day without a frame has none.
LEMMA ClearedSame ==
    ASSUME NEW n \in Nat, NEW L, LedgerOK(L, n), NEW d \in Nat \ {0},
           d > n \/ ~Run!HasFrame(d)
    PROVE  Cleared(L, d) = L
  <1>1. \A t \in L : t.day # d /\ t.exit # d
    BY DEF LedgerOK, Dated
  <1> QED
    BY <1>1 DEF Cleared

\* One day with a frame, from L to P: the carried trade h closes as g or stays, and e is
\* entered or nothing is.
OneDay(L, P, d) ==
    /\ d \in Nat \ {0} /\ Run!HasFrame(d) /\ LedgerOK(L, d - 1)
    /\ \E C, h, g, e : Closes(L, C, d, h, g) /\ Enters(C, P, d, e)

Closing(L, C, d, h, g) ==
    \/ C = L /\ ClosedOf(C, d) = {}
    \/ /\ h \in L /\ h.exit = 0 /\ h.pnl = 0 /\ g \in Run!Trade
       /\ g.seq = h.seq /\ g.day = h.day /\ g.lots = h.lots /\ g.exit = d
       /\ C = (L \ {h}) \cup {g} /\ ClosedOf(C, d) = {g}
Entering(C, P, d, e) ==
    \/ P = C /\ NewOf(P, d) = {}
    \/ /\ e \in Run!Trade /\ e.day = d /\ \A t \in C : t.seq # e.seq
       /\ e.exit = d \/ (e.exit = 0 /\ e.pnl = 0)
       /\ P = C \cup {e} /\ NewOf(P, d) = {e}

LEMMA ThatDay ==
    ASSUME NEW L, NEW P, NEW d, OneDay(L, P, d)
    PROVE  /\ \A t \in L : t.day # d /\ t.exit # d /\ t \in Run!Trade
           /\ \E C, h, g, e : Closing(L, C, d, h, g) /\ Entering(C, P, d, e)
  <1>0. d \in Nat \ {0} /\ Run!HasFrame(d) /\ LedgerOK(L, d - 1)
    BY DEF OneDay
  <1>1. \A t \in L : t.day # d /\ t.exit # d /\ t \in Run!Trade
    BY <1>0 DEF LedgerOK, Dated
  <1>2. PICK C, h, g, e : Closes(L, C, d, h, g) /\ Enters(C, P, d, e)
    BY DEF OneDay
  <1> USE DEF Closing, Entering
  <1>3. Closing(L, C, d, h, g)
    <2>1. CASE C = L
      BY <1>1, <2>1 DEF ClosedOf
    <2>2. CASE C # L
      <3>1. /\ h \in L /\ h.exit = 0 /\ g \in Run!Trade
            /\ g.seq = h.seq /\ g.day = h.day /\ g.lots = h.lots /\ g.exit = d
            /\ C = (L \ {h}) \cup {g}
        BY <1>2, <2>2 DEF Closes
      <3>2. h.pnl = 0
        BY <1>0, <3>1 DEF LedgerOK, Dated
      <3>3. ClosedOf(C, d) = {g}
        BY <1>1, <3>1 DEF ClosedOf
      <3> QED
        BY <3>1, <3>2, <3>3
    <2> QED
      BY <2>1, <2>2
  <1>4. \A t \in C : t.day # d
    BY <1>1, <1>3
  <1>5. LedgerOK(C, d)
    BY <1>0, <1>2, ClosedOK
  <1>6. Entering(C, P, d, e)
    <2>1. CASE P = C
      BY <1>4, <2>1 DEF NewOf
    <2>2. CASE P # C
      <3>1. /\ e \in Run!Trade /\ e.seq = Run!NextSeq(C) /\ e.day = d
            /\ e.exit = d \/ (e.exit = 0 /\ e.pnl = 0)
            /\ P = C \cup {e}
        BY <1>2, <2>2 DEF Enters
      <3>2. PICK n \in Nat : {t.seq : t \in C} = 1 .. n
        BY <1>5 DEF LedgerOK, Numbered
      <3>3. e.seq = n + 1
        BY <3>1, <3>2, NextSeqIs
      <3>4. \A t \in C : t.seq \in 1 .. n
        BY <3>2
      <3>5. \A t \in C : t.seq # e.seq
        BY <3>3, <3>4
      <3>6. NewOf(P, d) = {e}
        BY <1>4, <3>1 DEF NewOf
      <3> QED
        BY <3>1, <3>5, <3>6
    <2> QED
      BY <2>1, <2>2
  <1> QED
    BY <1>1, <1>3, <1>6

LEMMA DayOK ==
    ASSUME NEW L, NEW P, NEW d, OneDay(L, P, d)
    PROVE  LedgerOK(P, d)
  <1>1. PICK C, h, g, e : Closes(L, C, d, h, g) /\ Enters(C, P, d, e)
    BY DEF OneDay
  <1>2. d \in Nat \ {0} /\ Run!HasFrame(d) /\ LedgerOK(L, d - 1)
    BY DEF OneDay
  <1>3. LedgerOK(C, d)
    BY <1>1, <1>2, ClosedOK
  <1> QED
    BY <1>1, <1>2, <1>3, EnteredOK

\* Clearing the day gives back the ledger of the night before, whichever of the day's
\* transactions had been written.
LEMMA DayCleared ==
    ASSUME NEW L, NEW P, NEW d, OneDay(L, P, d)
    PROVE  Cleared(L \cup NewOf(P, d), d) = L /\ Cleared(P, d) = L
  <1>0. \A t \in L : t.day # d /\ t.exit # d /\ t \in Run!Trade
    BY ThatDay
  <1>1. PICK C, h, g, e : Closing(L, C, d, h, g) /\ Entering(C, P, d, e)
    BY ThatDay
  <1> USE DEF Closing, Entering
  <1>2. {u \in L \cup NewOf(P, d) : u.day # d} = L
    BY <1>0 DEF NewOf
  <1>3. Cleared(L \cup NewOf(P, d), d) = L
    BY <1>0, <1>2 DEF Cleared
  <1>4. {u \in P : u.day # d} = C
    <2>1. \A t \in C : t.day # d
      BY <1>0, <1>1
    <2> QED
      BY <1>1, <2>1
  <1>5. Cleared(P, d) = L
    <2> DEFINE Back(t) == IF t.exit = d THEN [t EXCEPT !.exit = 0, !.pnl = 0] ELSE t
    <2>1. Cleared(P, d) = {Back(t) : t \in C}
      BY <1>4 DEF Cleared
    <2>2. \A t \in L : Back(t) = t
      BY <1>0
    <2>3. CASE C = L
      BY <2>1, <2>2, <2>3
    <2>4. CASE C # L
      <3>1. /\ h \in L /\ h.exit = 0 /\ h.pnl = 0 /\ g \in Run!Trade /\ h \in Run!Trade
            /\ g.seq = h.seq /\ g.day = h.day /\ g.lots = h.lots /\ g.exit = d
            /\ C = (L \ {h}) \cup {g}
        BY <1>0, <1>1, <2>4
      <3>2. Back(g) = h
        BY <3>1 DEF Run!Trade
      <3> HIDE DEF Back
      <3> QED
        BY <2>1, <2>2, <3>1, <3>2
    <2> QED
      BY <2>3, <2>4
  <1> QED
    BY <1>3, <1>5

\* The exits booked on the stored rows make them the ledger.
LEMMA DayBooked ==
    ASSUME NEW L, NEW P, NEW d, OneDay(L, P, d)
    PROVE  Booking(L \cup NewOf(P, d), ClosedOf(P, d) \ NewOf(P, d)) = P
  <1>0. /\ \A t \in L : t.day # d /\ t.exit # d /\ t \in Run!Trade
        /\ \A t, u \in L : t.seq = u.seq => t = u
    <2>1. \A t \in L : t.day # d /\ t.exit # d /\ t \in Run!Trade
      BY ThatDay
    <2>2. Numbered(L)
      BY DEF OneDay, LedgerOK
    <2> QED
      BY <2>1, <2>2 DEF Numbered
  <1>1. PICK C, h, g, e : Closing(L, C, d, h, g) /\ Entering(C, P, d, e)
    BY ThatDay
  <1> USE DEF Closing, Entering
  <1> DEFINE N == NewOf(P, d)
             X == ClosedOf(P, d) \ N
             Book(r) == IF \E t \in X : t.seq = r.seq THEN CHOOSE t \in X : t.seq = r.seq ELSE r
  <1>2. Booking(L \cup N, X) = {Book(r) : r \in L \cup N}
    BY DEF Booking
  <1>3. P = C \cup N
    BY <1>1
  <1>4. X = ClosedOf(C, d)
    <2>1. \A t \in C : t \notin N
      BY <1>0, <1>1 DEF NewOf
    <2> QED
      BY <1>3, <2>1 DEF ClosedOf
  <1>5. CASE C = L
    <2>1. X = {}
      BY <1>0, <1>4, <1>5 DEF ClosedOf
    <2>2. \A r : Book(r) = r
      BY <2>1
    <2> HIDE DEF Book, X, N
    <2> QED
      BY <1>2, <1>3, <1>5, <2>2 DEF X, N
  <1>6. CASE C # L
    <2>1. /\ h \in L /\ g.seq = h.seq /\ C = (L \ {h}) \cup {g} /\ ClosedOf(C, d) = {g}
      BY <1>1, <1>6
    <2>2. X = {g}
      BY <1>4, <2>1
    <2> HIDE DEF X
    <2>3. \A r : Book(r) = IF r.seq = g.seq THEN g ELSE r
      BY <2>2
    <2>4. Book(h) = g /\ \A r \in L \ {h} : Book(r) = r
      BY <1>0, <2>1, <2>3
    <2>5. \A r \in N : Book(r) = r
      <3>1. \A r \in N : r.seq # g.seq
        BY <1>1, <2>1
      <3> QED
        BY <2>3, <3>1
    <2>6. {Book(r) : r \in L \cup N} = (L \ {h}) \cup {g} \cup N
      <3> HIDE DEF Book, N
      <3> QED
        BY <2>1, <2>4, <2>5
    <2> QED
      BY <1>2, <1>3, <2>1, <2>6 DEF X
  <1> QED
    BY <1>5, <1>6

LEMMA OKIsValued ==
    ASSUME NEW d, NEW L, LedgerOK(L, d), NEW s \in SUBSET L
    PROVE  Valued(s) /\ Run!Realized(s) \in Int
  <1>1. \A t \in L : Value(t) \in Int
    BY DEF LedgerOK, Run!Trade, Value
  <1>2. Valued(s)
    BY <1>1, FS_Subset DEF Valued, LedgerOK
  <1> QED
    BY <1>2, RealizedType

LEMMA RealizedOne ==
    ASSUME NEW t, Value(t) \in Int
    PROVE  Run!Realized({t}) = Value(t) /\ Run!Realized({}) = 0
  <1>1. IsFiniteSet({}) /\ IsFiniteSet({t}) /\ {t} \ {t} = {}
    BY FS_EmptySet, FS_Singleton
  <1>4. Valued({t}) /\ t \in {t}
    BY <1>1 DEF Valued
  <1>2. Run!Realized({}) = 0
    BY <1>1, RealizedUnfolds
  <1>3. Run!Realized({t}) = Value(t) + Run!Realized({t} \ {t})
    BY <1>4, RealizedTakes
  <1>5. Run!Realized({t}) = Value(t) + 0
    BY <1>1, <1>2, <1>3
  <1>6. Value(t) + 0 = Value(t)
    OBVIOUS
  <1> QED
    BY <1>2, <1>5, <1>6

LEMMA RealizedAdds ==
    ASSUME NEW S, NEW t, Valued(S \cup {t}), t \notin S
    PROVE  Run!Realized(S \cup {t}) = Value(t) + Run!Realized(S)
  <1>1. Run!Realized(S \cup {t}) = Value(t) + Run!Realized((S \cup {t}) \ {t})
    BY RealizedTakes
  <1>2. (S \cup {t}) \ {t} = S
    OBVIOUS
  <1> QED
    BY <1>1, <1>2

\* The equity grows by what the trades closed on the day realised.
LEMMA DayRealizes ==
    ASSUME NEW L, NEW P, NEW d, OneDay(L, P, d)
    PROVE  Run!Realized(P) = Run!Realized(L) + Run!Realized(ClosedOf(P, d))
  <1>0. /\ d \in Nat \ {0} /\ LedgerOK(L, d - 1)
        /\ \A t \in L : t.day # d /\ t.exit # d /\ t \in Run!Trade
    BY ThatDay DEF OneDay
  <1>1. PICK C, h, g, e : Closing(L, C, d, h, g) /\ Entering(C, P, d, e)
    BY ThatDay
  <1> USE DEF Closing, Entering
  <1>2. \A s \in SUBSET P : Valued(s) /\ Run!Realized(s) \in Int
    BY DayOK, OKIsValued
  <1>3. \A s \in SUBSET L : Valued(s) /\ Run!Realized(s) \in Int
    BY <1>0, OKIsValued
  <1>4. C \subseteq P
    BY <1>1
  <1>5. /\ Run!Realized(C) = Run!Realized(L) + Run!Realized(ClosedOf(C, d))
        /\ Run!Realized({}) = 0
    <2>0. Run!Realized({}) = 0
      BY FS_EmptySet, RealizedUnfolds
    <2>1. CASE C = L
      <3>1. ClosedOf(C, d) = {}
        BY <1>0, <2>1 DEF ClosedOf
      <3>2. Run!Realized(L) \in Int
        BY <1>3
      <3>3. Run!Realized(L) = Run!Realized(L) + 0
        BY <3>2
      <3> QED
        BY <2>0, <2>1, <3>1, <3>3
    <2>2. CASE C # L
      <3>1. /\ h \in L /\ h.exit = 0 /\ g \in C /\ g.exit = d
            /\ C = (L \ {h}) \cup {g} /\ ClosedOf(C, d) = {g}
        BY <1>1, <2>2
      <3>2. g \notin L
        BY <1>0, <3>1
      <3>3. Valued(C) /\ Valued(L) /\ Value(g) \in Int /\ Value(h) = 0
        BY <1>2, <1>3, <1>4, <3>1 DEF Valued, Value
      <3>4. Run!Realized(C) = Value(g) + Run!Realized(L \ {h})
        <4>1. g \notin L \ {h} /\ Valued((L \ {h}) \cup {g})
          BY <3>1, <3>2, <3>3
        <4> QED
          BY <3>1, <4>1, RealizedAdds
      <3>5. Run!Realized(L) = Value(h) + Run!Realized(L \ {h})
        BY <3>1, <3>3, RealizedTakes
      <3>6. Run!Realized({g}) = Value(g)
        BY <3>3, RealizedOne
      <3>7. Run!Realized(L \ {h}) \in Int
        BY <1>3
      <3>8. Run!Realized(C) = Run!Realized(L) + Run!Realized({g})
        BY <3>3, <3>4, <3>5, <3>6, <3>7
      <3> QED
        BY <2>0, <3>1, <3>8
    <2> QED
      BY <2>1, <2>2
  <1>6. CASE P = C
    BY <1>5, <1>6
  <1>7. CASE P # C
    <2>1. /\ e.exit = d \/ (e.exit = 0 /\ e.pnl = 0)
          /\ P = C \cup {e} /\ e \notin C /\ e \in P
      BY <1>1, <1>7
    <2>2. Value(e) \in Int /\ Valued(P)
      BY <1>2, <2>1 DEF Valued
    <2>3. Run!Realized(P) = Value(e) + Run!Realized(C)
      BY <2>1, <2>2, RealizedAdds
    <2>4. Run!Realized(C) \in Int /\ Run!Realized(L) \in Int
          /\ Run!Realized(ClosedOf(C, d)) \in Int
      BY <1>2, <1>3, <1>4 DEF ClosedOf
    <2>5. CASE e.exit = d
      <3>1. ClosedOf(P, d) = ClosedOf(C, d) \cup {e} /\ e \notin ClosedOf(C, d)
        BY <2>1, <2>5 DEF ClosedOf
      <3>2. ClosedOf(P, d) \subseteq P
        BY DEF ClosedOf
      <3>3. Run!Realized(ClosedOf(P, d)) = Value(e) + Run!Realized(ClosedOf(C, d))
        BY <1>2, <3>1, <3>2, RealizedAdds
      <3> QED
        BY <1>5, <2>2, <2>3, <2>4, <3>3
    <2>6. CASE e.exit # d
      <3>1. ClosedOf(P, d) = ClosedOf(C, d) /\ Value(e) = 0
        BY <2>1, <2>6 DEF ClosedOf, Value
      <3> QED
        BY <1>5, <2>3, <2>4, <3>1
    <2> QED
      BY <2>5, <2>6
  <1> QED
    BY <1>6, <1>7

-----------------------------------------------------------------------------
(* The ledgers of a run that never stops *)

\* What the run was created with.
Inputs ==
    /\ script \in [Run!Days -> Run!Script] /\ carryPause = FALSE
    /\ data \in [Run!Days -> {"none", "thin", "full"}]
    /\ \A d \in Run!Days : data[d] = "thin" => d = LastDay

LEMMA FirstDay == LedgerOK({}, 0)
  <1>1. {t.seq : t \in {}} = 1 .. 0
    OBVIOUS
  <1>2. Numbered({})
    BY <1>1, 0 \in Nat DEF Numbered
  <1> QED
    BY <1>2, FS_EmptySet DEF LedgerOK, Dated, OneOpen

\* Every ledger is in order, and a day with a frame takes the one of the night before to its
\* own.
LEMMA LedOK ==
    ASSUME LastDay \in Nat, Inputs
    PROVE  \A n \in 0 .. LastDay : LedgerOK(Led(n), n)
  <1> DEFINE T == {n \in Nat : n \in 0 .. LastDay => LedgerOK(Led(n), n)}
  <1>0. /\ Led(0) = {}
        /\ \A d \in 1 .. LastDay :
              Led(d) = IF Run!HasFrame(d) THEN Run!Played(d, Led(d - 1), FALSE).ledger
                       ELSE Led(d - 1)
    BY IdealSteps DEF Inputs
  <1>1. 0 \in T
    BY <1>0, FirstDay
  <1>2. ASSUME NEW n \in Nat, n \in T
        PROVE  n + 1 \in T
    <2> SUFFICES ASSUME n + 1 \in 0 .. LastDay
                 PROVE  LedgerOK(Led(n + 1), n + 1)
      OBVIOUS
    <2>1. n + 1 \in 1 .. LastDay /\ (n + 1) - 1 = n /\ n \in 0 .. LastDay
      OBVIOUS
    <2>2. LedgerOK(Led(n), n)
      BY <1>2, <2>1
    <2>3. CASE Run!HasFrame(n + 1)
      <3>1. n + 1 \in Run!Days /\ script[n + 1] \in Run!Script
        BY <2>1 DEF Inputs, Run!Days
      <3>2. LedgerOK(Led(n), (n + 1) - 1)
        BY <2>1, <2>2
      <3>3. Led(n + 1) = Run!Played(n + 1, Led(n), FALSE).ledger
        BY <1>0, <2>1, <2>3
      <3>4. \E C, h, g, e :
               /\ Closes(Led(n), C, n + 1, h, g)
               /\ Enters(C, Run!Played(n + 1, Led(n), FALSE).ledger, n + 1, e)
        BY <3>1, <3>2, PlayedIs
      <3>5. PICK C, h, g, e : /\ Closes(Led(n), C, n + 1, h, g)
                              /\ Enters(C, Run!Played(n + 1, Led(n), FALSE).ledger, n + 1, e)
        BY <3>4
      <3>6. Enters(C, Led(n + 1), n + 1, e)
        BY <3>3, <3>5
      <3>7. OneDay(Led(n), Led(n + 1), n + 1)
        BY <2>3, <3>2, <3>5, <3>6 DEF OneDay
      <3> QED
        BY <3>7, DayOK
    <2>4. CASE ~Run!HasFrame(n + 1)
      <3>1. Led(n + 1) = Led(n)
        BY <1>0, <2>1, <2>4
      <3>2. \A i \in 1 .. n : i \in 1 .. n + 1
        OBVIOUS
      <3>3. Dated(Led(n), n + 1)
        BY <2>2, <3>2 DEF LedgerOK, Dated
      <3> QED
        BY <2>2, <3>1, <3>3 DEF LedgerOK
    <2> QED
      BY <2>3, <2>4
  <1>3. Nat \subseteq T
    <2> HIDE DEF T
    <2> QED
      BY <1>1, <1>2, NatInduct
  <1> QED
    BY <1>3

LEMMA LedDay ==
    ASSUME LastDay \in Nat, Inputs, NEW d \in Run!Days, Run!HasFrame(d)
    PROVE  /\ Led(d) = Run!Played(d, Led(d - 1), FALSE).ledger
           /\ OneDay(Led(d - 1), Led(d), d)
  <1>1. d \in 1 .. LastDay /\ d - 1 \in 0 .. LastDay /\ script[d] \in Run!Script
    BY DEF Run!Days, Inputs
  <1>2. Led(d) = Run!Played(d, Led(d - 1), FALSE).ledger
    BY <1>1, IdealSteps DEF Inputs
  <1>3. LedgerOK(Led(d - 1), d - 1)
    BY <1>1, LedOK
  <1>4. \E C, h, g, e :
           /\ Closes(Led(d - 1), C, d, h, g)
           /\ Enters(C, Run!Played(d, Led(d - 1), FALSE).ledger, d, e)
    BY <1>1, <1>3, PlayedIs
  <1>5. PICK C, h, g, e : /\ Closes(Led(d - 1), C, d, h, g)
                          /\ Enters(C, Run!Played(d, Led(d - 1), FALSE).ledger, d, e)
    BY <1>4
  <1>6. Enters(C, Led(d), d, e)
    BY <1>2, <1>5
  <1>7. d \in Nat \ {0}
    BY DEF Run!Days
  <1>8. OneDay(Led(d - 1), Led(d), d)
    BY <1>3, <1>5, <1>6, <1>7 DEF OneDay
  <1> QED
    BY <1>2, <1>8

\* Days without a frame leave the ledger as it is.
LEMMA LedSkips ==
    ASSUME LastDay \in Nat, Inputs, NEW n \in 0 .. LastDay, NEW m \in n .. LastDay,
           \A e \in n + 1 .. m : ~Run!HasFrame(e)
    PROVE  Led(m) = Led(n)
  <1> DEFINE T == {k \in Nat : n + k \in n .. m => Led(n + k) = Led(n)}
  <1>1. 0 \in T
    OBVIOUS
  <1>2. ASSUME NEW k \in Nat, k \in T
        PROVE  k + 1 \in T
    <2> SUFFICES ASSUME n + (k + 1) \in n .. m
                 PROVE  Led(n + (k + 1)) = Led(n)
      OBVIOUS
    <2>1. /\ n + k \in n .. m /\ n + (k + 1) \in n + 1 .. m /\ n + (k + 1) \in 1 .. LastDay
          /\ (n + (k + 1)) - 1 = n + k
      OBVIOUS
    <2>2. Led(n + k) = Led(n)
      BY <1>2, <2>1
    <2>3. ~Run!HasFrame(n + (k + 1))
      BY <2>1
    <2>4. Led(n + (k + 1)) = Led((n + (k + 1)) - 1)
      BY <2>1, <2>3, IdealSteps DEF Inputs
    <2> QED
      BY <2>1, <2>2, <2>4
  <1>3. Nat \subseteq T
    <2> HIDE DEF T
    <2> QED
      BY <1>1, <1>2, NatInduct
  <1>4. m - n \in T /\ n + (m - n) = m
    BY <1>3
  <1> QED
    BY <1>4

-----------------------------------------------------------------------------
(* Where a run stands *)

\* The days with a frame are done up to day n, each with the equity of its night.
DoneTo(n) == \A d \in Run!Days : days[d].status = "done" <=> Run!HasFrame(d) /\ d <= n
Equities  == \A d \in Run!Days : days[d].status = "done" => days[d].equity = Run!Realized(Led(d))

\* Between two tasks: the trades are those of a day n, or the day after it was cut between two
\* of its transactions.
Cut(n) ==
    /\ n + 1 \in Run!Days /\ Run!HasFrame(n + 1)
    /\ \/ trades = Led(n) \cup NewOf(Led(n + 1), n + 1)
       \/ trades = Led(n + 1)
Stored == \E n \in 0 .. LastDay : DoneTo(n) /\ (trades = Led(n) \/ Cut(n))

\* The task is between two days.
Between(n) ==
    /\ DoneTo(n)
    /\ trades = Led(n) /\ task.ledger = Led(n) /\ task.equity = Run!Realized(Led(n))
    /\ \A d \in Run!Days : Run!HasFrame(d) =>
          /\ d <= n /\ d \in task.plan => d <= task.day
          /\ d > n => d \in task.plan /\ d > task.day

\* The task is in day d.
Stage(d) ==
    \/ /\ task.at = "minutes" /\ task.ledger = Led(d - 1) /\ trades = Led(d - 1)
       /\ task.equity = Run!Realized(Led(d - 1))
    \/ /\ task.at = "insert" /\ task.ledger = Led(d) /\ trades = Led(d - 1)
       /\ task.equity = Run!Realized(Led(d - 1))
    \/ /\ task.at = "book" /\ task.ledger = Led(d) /\ trades = Led(d - 1) \cup NewOf(Led(d), d)
       /\ task.equity = Run!Realized(Led(d - 1))
    \/ /\ task.at = "mark" /\ task.ledger = Led(d) /\ trades = Led(d)
       /\ task.equity = Run!Realized(Led(d))
Within(d) ==
    /\ d \in Run!Days /\ Run!HasFrame(d) /\ DoneTo(d - 1)
    /\ \A e \in Run!Days : Run!HasFrame(e) /\ e > d => e \in task.plan
    /\ Stage(d)

Stands ==
    \/ task.at \in {"none", "plan", "seed"} /\ Stored
    \/ task.at = "days" /\ \E n \in 0 .. LastDay : Between(n)
    \/ Within(task.day)

Tables ==
    /\ days = [d \in Run!Days |-> days[d]]
    /\ task = [at |-> task.at, day |-> task.day, plan |-> task.plan, ledger |-> task.ledger,
               equity |-> task.equity, paused |-> task.paused, cancel |-> task.cancel]
    /\ task.plan \subseteq Run!Covered /\ task.day \in Nat
    /\ task.at \in {"plan", "seed"} => task.day = 0
    /\ task.at = "seed" => task.plan = {d \in Run!Covered : days[d].status # "done"}

RunInv ==
    /\ Inputs /\ Tables /\ Equities /\ Stands
    /\ task.at # "none" => row = "running"
    /\ row = "done" => DoneTo(LastDay) /\ trades = Led(LastDay)

LEMMA Frozen ==
    ASSUME UNCHANGED <<data, script, carryPause>>
    PROVE  /\ Ideal' = Ideal
           /\ \A d : Led(d)' = Led(d)
           /\ \A d : Run!HasFrame(d)' <=> Run!HasFrame(d)
           /\ Inputs' <=> Inputs
  <1>1. Ideal' = Ideal
    BY DEF Ideal, Straight, Run!HasFrame, Run!Played, Run!Carried, Run!CarriedLoss,
           Run!Enters, Run!Entered
  <1> QED
    BY <1>1 DEF Led, Run!HasFrame, Inputs

LEMMA InitInv ==
    ASSUME RunSettings, Run!Init
    PROVE  RunInv
  <1>1. /\ task = [at |-> "none", day |-> 0, plan |-> {}, ledger |-> {}, equity |-> 0,
                   paused |-> FALSE, cancel |-> FALSE]
        /\ trades = {} /\ row = "queued"
        /\ days = [d \in Run!Days |-> [status |-> "none", equity |-> 0]]
    BY DEF Run!Init, Run!NoTask
  <1>2. Inputs
    <2>1. /\ script \in [Run!Days -> Run!Script] /\ carryPause = FALSE
          /\ data \in [Run!Days -> {"none", "thin", "full"}]
      BY DEF Run!Init, RunSettings
    <2>2. \A d \in Run!Days : data[d] = "thin" => d = LastDay
      BY DEF Run!Init, RunSettings
    <2> QED
      BY <2>1, <2>2 DEF Inputs
  <1>3. \A d \in Run!Days : days[d].status = "none"
    BY <1>1
  <1>4. Led(0) = {}
    BY <1>2, IdealSteps DEF Inputs, RunSettings
  <1>5. DoneTo(0)
    BY <1>3 DEF DoneTo, Run!Days
  <1>6. Stored
    BY <1>1, <1>4, <1>5, 0 \in 0 .. LastDay DEF Stored, RunSettings
  <1>7. Tables
    <2>1. days = [d \in Run!Days |-> days[d]]
      BY <1>1
    <2> QED
      BY <1>1, <2>1 DEF Tables
  <1>8. Equities
    BY <1>3 DEF Equities
  <1> QED
    BY <1>1, <1>2, <1>6, <1>7, <1>8 DEF RunInv, Stands

\* Wherever a task is cut, what is stored is that of a day, or of a day cut between two of its
\* transactions.
LEMMA CutAnywhere ==
    ASSUME LastDay \in Nat, Stands
    PROVE  Stored
  <1>1. CASE \E n \in 0 .. LastDay : Between(n)
    BY <1>1 DEF Between, Stored
  <1>2. CASE Within(task.day)
    <2>1. /\ task.day \in Run!Days /\ Run!HasFrame(task.day) /\ DoneTo(task.day - 1)
          /\ \/ trades = Led(task.day - 1)
             \/ trades = Led(task.day - 1) \cup NewOf(Led(task.day), task.day)
             \/ trades = Led(task.day)
      BY <1>2 DEF Within, Stage
    <2>2. task.day - 1 \in 0 .. LastDay /\ (task.day - 1) + 1 = task.day
      BY <2>1 DEF Run!Days
    <2>3. trades = Led(task.day - 1) \/ Cut(task.day - 1)
      BY <2>1, <2>2 DEF Cut
    <2> QED
      BY <2>1, <2>2, <2>3 DEF Stored
  <1> QED
    BY <1>1, <1>2 DEF Stands

\* Between two tasks nothing is stored: what is stored stays in order.
LEMMA StoredStays ==
    ASSUME Stored, Equities, UNCHANGED <<data, script, carryPause, trades>>,
           \A d \in Run!Days : \/ days'[d] = days[d]
                               \/ days[d].status # "done" /\ days'[d].status # "done"
    PROVE  Stored' /\ Equities' /\ \A n : DoneTo(n) => DoneTo(n)'
  <1>1. /\ \A d : Led(d)' = Led(d)
        /\ \A d : Run!HasFrame(d)' <=> Run!HasFrame(d)
    BY Frozen
  <1>2. \A d \in Run!Days : days'[d].status = "done" <=> days[d].status = "done"
    OBVIOUS
  <1>3. \A n : DoneTo(n) => DoneTo(n)'
    BY <1>1, <1>2 DEF DoneTo
  <1>4. \A n : Cut(n) => Cut(n)'
    BY <1>1 DEF Cut
  <1>5. Stored'
    BY <1>1, <1>3, <1>4 DEF Stored
  <1>6. Equities'
    BY <1>1, <1>2 DEF Equities
  <1> QED
    BY <1>3, <1>5, <1>6

LEMMA StartInv ==
    ASSUME LastDay \in Nat, RunInv, Run!Start
    PROVE  RunInv'
  <1>1. /\ UNCHANGED <<data, script, carryPause, days, trades>> /\ row' = "running"
        /\ task' = [at |-> "plan", day |-> 0, plan |-> {}, ledger |-> {}, equity |-> 0,
                    paused |-> FALSE, cancel |-> FALSE]
    BY DEF Run!Start, Run!NoTask, Run!inputs
  <1>2. Stored
    BY CutAnywhere DEF RunInv
  <1>7. \A d \in Run!Days : days'[d] = days[d]
    BY <1>1
  <1>8. Equities
    BY DEF RunInv
  <1>3. Stored' /\ Equities'
    BY <1>1, <1>2, <1>7, <1>8, StoredStays
  <1>4. Inputs'
    BY <1>1, Frozen DEF RunInv
  <1>5. Tables'
    BY <1>1 DEF RunInv, Tables
  <1>6. Stands'
    BY <1>1, <1>3 DEF Stands
  <1> QED
    BY <1>1, <1>3, <1>4, <1>5, <1>6 DEF RunInv

\* A task that ends with its run not done.
LEMMA EndedInv ==
    ASSUME LastDay \in Nat, RunInv, UNCHANGED <<data, script, carryPause, days, trades>>,
           task' = Run!NoTask, row' # "done"
    PROVE  RunInv'
  <1>1. task' = [at |-> "none", day |-> 0, plan |-> {}, ledger |-> {}, equity |-> 0,
                 paused |-> FALSE, cancel |-> FALSE]
    BY DEF Run!NoTask
  <1>2. Stored
    BY CutAnywhere DEF RunInv
  <1>7. \A d \in Run!Days : days'[d] = days[d]
    OBVIOUS
  <1>8. Equities
    BY DEF RunInv
  <1>3. Stored' /\ Equities'
    BY <1>2, <1>7, <1>8, StoredStays
  <1>4. Inputs'
    BY Frozen DEF RunInv
  <1>5. Tables'
    BY <1>1 DEF RunInv, Tables
  <1>6. Stands'
    BY <1>1, <1>3 DEF Stands
  <1> QED
    BY <1>1, <1>3, <1>4, <1>5, <1>6 DEF RunInv

LEMMA PlanInv ==
    ASSUME LastDay \in Nat, RunInv, Run!Plan
    PROVE  RunInv'
  <1> DEFINE planned == {d \in Run!Covered : days[d].status # "done"}
  <1>1. /\ UNCHANGED <<data, script, carryPause, row, trades>> /\ task.at = "plan"
        /\ task' = [task EXCEPT !.at = "seed", !.plan = planned]
        /\ days' = [d \in Run!Days |->
                      IF days[d].status = "done" THEN days[d]
                      ELSE Run!DayRow(IF d \in planned THEN "planned" ELSE "skipped", 0)]
    BY DEF Run!Plan, Run!inputs
  <1>2. \A d \in Run!Days : \/ days'[d] = days[d]
                            \/ days[d].status # "done" /\ days'[d].status # "done"
    <2> TAKE d \in Run!Days
    <2>1. days'[d] = IF days[d].status = "done" THEN days[d]
                     ELSE Run!DayRow(IF d \in planned THEN "planned" ELSE "skipped", 0)
      BY <1>1, Zenon
    <2> HIDE DEF planned
    <2> QED
      BY <2>1 DEF Run!DayRow
  <1>3. Stored
    BY CutAnywhere DEF RunInv
  <1>4. Stored' /\ Equities'
    BY <1>1, <1>2, <1>3, StoredStays DEF RunInv
  <1>5. Inputs'
    BY <1>1, Frozen DEF RunInv
  <1>6. /\ task' = [at |-> "seed", day |-> task.day, plan |-> planned, ledger |-> task.ledger,
                    equity |-> task.equity, paused |-> task.paused, cancel |-> task.cancel]
    BY <1>1 DEF RunInv, Tables
  <1>7. Tables'
    <2>1. days' = [d \in Run!Days |-> days'[d]]
      BY <1>1
    <2>2. Run!Covered' = Run!Covered
      BY <1>1 DEF Run!Covered
    <2>3. planned = {d \in Run!Covered : days'[d].status # "done"}
      BY <1>2 DEF Run!Covered
    <2>4. planned \subseteq Run!Covered
      OBVIOUS
    <2>5. task.day = 0 /\ 0 \in Nat
      BY <1>1 DEF RunInv, Tables
    <2> HIDE DEF planned
    <2> QED
      BY <1>6, <2>1, <2>2, <2>3, <2>4, <2>5 DEF Tables
  <1>8. Stands'
    BY <1>4, <1>6 DEF Stands
  <1> QED
    BY <1>1, <1>4, <1>5, <1>6, <1>7, <1>8 DEF RunInv

LEMMA MinIs ==
    ASSUME NEW S \in SUBSET Run!Days, S # {}
    PROVE  Run!Min(S) \in S /\ \A e \in S : Run!Min(S) <= e
  <1>1. S \subseteq Nat
    BY DEF Run!Days
  <1>2. \E d \in S : \A e \in S : d <= e
    BY <1>1, NatMin
  <1> QED
    BY <1>2 DEF Run!Min

\* The first pending day is cleared: what is stored is then that of a whole day.
LEMMA SeedInv ==
    ASSUME RunSettings, RunInv, Run!Seed
    PROVE  RunInv'
  <1>0. LastDay \in Nat
    BY DEF RunSettings
  <1> DEFINE plan == {d \in Run!Covered : days[d].status # "done"}
             m == Run!Min(plan)
  <1>1. /\ UNCHANGED <<data, script, carryPause, row, days>> /\ task.at = "seed"
        /\ trades' = IF task.plan = {} THEN trades ELSE Run!DayDeleted(Run!Min(task.plan))
        /\ task' = [task EXCEPT !.at = "days", !.ledger = trades',
                                !.equity = Run!Realized(trades')]
    BY DEF Run!Seed, Run!SeededFrom, Run!inputs
  <1>2. /\ Inputs /\ Tables /\ Equities /\ Stored /\ row = "running"
    BY <1>0, <1>1, CutAnywhere DEF RunInv
  <1>3. task.plan = plan
    BY <1>1, <1>2 DEF Tables
  <1>4. /\ \A d : Led(d)' = Led(d)
        /\ \A d : Run!HasFrame(d)' <=> Run!HasFrame(d)
        /\ Inputs'
    BY <1>1, <1>2, Frozen
  <1>5. PICK n \in 0 .. LastDay : DoneTo(n) /\ (trades = Led(n) \/ Cut(n))
    BY <1>2 DEF Stored
  <1>6. LedgerOK(Led(n), n) /\ n \in Nat
    BY <1>0, <1>2, LedOK
  <1>7. plan \in SUBSET Run!Days
    BY DEF Run!Covered
  <1>8. \A d \in Run!Days : d \in plan => d > n \/ ~Run!HasFrame(d)
    BY <1>5 DEF DoneTo, Run!Days
  <1>9. \A d \in Run!Days : Run!HasFrame(d) /\ d > n => d \in plan
    BY <1>5 DEF DoneTo, Run!Covered, Run!HasFrame, Run!Days
  <1>10. plan # {} => m \in plan /\ m \in Run!Days /\ \A e \in plan : m <= e
    BY <1>7, MinIs
  <1>11. trades' = Led(n)
    <2>1. CASE trades = Led(n) /\ plan = {}
      BY <1>1, <1>3, <2>1
    <2>2. CASE trades = Led(n) /\ plan # {}
      <3>1. m \in Nat \ {0} /\ (m > n \/ ~Run!HasFrame(m))
        BY <1>8, <1>10, <2>2 DEF Run!Days
      <3>2. Cleared(Led(n), m) = Led(n)
        BY <1>6, <3>1, ClearedSame
      <3>3. Run!DayDeleted(m) = Cleared(Led(n), m)
        BY <2>2 DEF Run!DayDeleted, Cleared
      <3> QED
        BY <1>1, <1>3, <2>2, <3>2, <3>3
    <2>3. CASE Cut(n)
      <3>1. /\ n + 1 \in Run!Days /\ Run!HasFrame(n + 1)
            /\ \/ trades = Led(n) \cup NewOf(Led(n + 1), n + 1)
               \/ trades = Led(n + 1)
        BY <2>3 DEF Cut
      <3>2. n + 1 > n /\ n + 1 \in plan
        BY <1>6, <1>9, <3>1
      <3>3. m = n + 1
        <4>1. \A d \in plan : d >= n + 1
          <5>1. SUFFICES ASSUME NEW d \in plan, d <= n
                         PROVE  FALSE
            BY <1>6, <1>7 DEF Run!Days
          <5>2. d \in Run!Days /\ ~Run!HasFrame(d) /\ data[d] # "none"
            BY <1>6, <1>7, <1>8, <5>1 DEF Run!Days, Run!Covered
          <5> QED
            BY <1>2, <1>6, <3>1, <5>1, <5>2 DEF Inputs, Run!HasFrame, Run!Days
        <4> HIDE DEF plan, m
        <4> QED
          BY <1>6, <1>10, <3>2, <4>1 DEF Run!Days
      <3>4. OneDay(Led(n), Led(n + 1), n + 1)
        <4>1. OneDay(Led((n + 1) - 1), Led(n + 1), n + 1)
          BY <1>0, <1>2, <3>1, LedDay
        <4>2. (n + 1) - 1 = n
          BY <1>6
        <4> QED
          BY <4>1, <4>2
      <3>5. Cleared(trades, n + 1) = Led(n)
        BY <3>1, <3>4, DayCleared
      <3>6. Run!DayDeleted(m) = Cleared(trades, n + 1)
        BY <3>3 DEF Run!DayDeleted, Cleared
      <3>7. plan # {}
        BY <3>2
      <3> QED
        BY <1>1, <1>3, <3>5, <3>6, <3>7
    <2> QED
      BY <1>5, <2>1, <2>2, <2>3
  <1>12. task' = [at |-> "days", day |-> task.day, plan |-> plan, ledger |-> Led(n),
                  equity |-> Run!Realized(Led(n)), paused |-> task.paused,
                  cancel |-> task.cancel]
    <2>1. PICK l, q : l = Led(n) /\ q = Run!Realized(Led(n))
      OBVIOUS
    <2>2. task' = [task EXCEPT !.at = "days", !.ledger = l, !.equity = q]
      BY <1>1, <1>11, <2>1
    <2> HIDE DEF plan
    <2> QED
      BY <1>2, <1>3, <2>1, <2>2 DEF Tables
  <1> HIDE DEF plan, m
  <1>13. Tables'
    <2>1. days' = [d \in Run!Days |-> days'[d]]
      BY <1>1, <1>2 DEF Tables
    <2>2. Run!Covered' = Run!Covered
      BY <1>1 DEF Run!Covered
    <2>3. plan \subseteq Run!Covered /\ task.day \in Nat
      BY <1>2 DEF plan, Tables
    <2> QED
      BY <1>12, <2>1, <2>2, <2>3 DEF Tables
  <1>14. DoneTo(n)' /\ Equities'
    BY <1>1, <1>2, <1>4, <1>5 DEF DoneTo, Equities
  <1>15. task.day = 0
    BY <1>1, <1>2 DEF Tables
  <1>16. \A d \in Run!Days : Run!HasFrame(d)' =>
           /\ d <= n /\ d \in plan => d <= 0
           /\ d > n => d \in plan /\ d > 0
    BY <1>4, <1>6, <1>8, <1>9 DEF Run!Days
  <1>17. Between(n)'
    BY <1>4, <1>11, <1>12, <1>14, <1>15, <1>16 DEF Between
  <1>18. Stands'
    BY <1>12, <1>17 DEF Stands
  <1> QED
    BY <1>1, <1>2, <1>4, <1>13, <1>14, <1>18 DEF RunInv

\* The next day is a whole one, with the ledger of the night before, or has no frame and
\* leaves things as they are.
LEMMA NextDayInv ==
    ASSUME LastDay \in Nat, RunInv, Run!NextDay
    PROVE  RunInv'
  <1> DEFINE left == {d \in task.plan : d > task.day}
  <1>0. PICK m : m = Run!Min(left)
    OBVIOUS
  <1>1. /\ UNCHANGED <<data, script, carryPause, row>> /\ task.at = "days" /\ left # {}
        /\ trades' = Run!DayDeleted(m)
        /\ IF Run!HasFrame(m)
           THEN task' = [task EXCEPT !.at = "minutes", !.day = m] /\ days' = days
           ELSE /\ task' = [task EXCEPT !.day = m]
                /\ days' = [days EXCEPT ![m] = Run!DayRow("skipped", 0)]
    BY <1>0 DEF Run!NextDay, Run!inputs
  <1>2. /\ Inputs /\ Tables /\ Equities /\ Stands /\ row = "running"
    BY <1>1 DEF RunInv
  <1>3. PICK n \in 0 .. LastDay : Between(n)
    BY <1>1, <1>2 DEF Stands, Within, Stage
  <1>4. /\ \A d : Led(d)' = Led(d)
        /\ \A d : Run!HasFrame(d)' <=> Run!HasFrame(d)
        /\ Inputs' /\ Run!Covered' = Run!Covered
    BY <1>1, <1>2, Frozen DEF Run!Covered
  <1>5. task.plan \subseteq Run!Covered /\ Run!Covered \subseteq Run!Days
    BY <1>2 DEF Tables, Run!Covered
  <1>6. m \in left /\ \A e \in left : m <= e
    BY <1>0, <1>1, <1>5, MinIs
  <1>7. m \in task.plan /\ m > task.day /\ m \in Run!Days /\ m \in Nat \ {0}
    <2>1. m \in task.plan /\ m > task.day
      BY <1>6
    <2>2. m \in Run!Days
      BY <1>5, <2>1
    <2>3. m \in Nat \ {0}
      BY <2>2 DEF Run!Days
    <2> QED
      BY <2>1, <2>2, <2>3
  <1>8. /\ DoneTo(n) /\ trades = Led(n) /\ task.ledger = Led(n)
        /\ task.equity = Run!Realized(Led(n))
    BY <1>3 DEF Between
  <1>9. \A d \in Run!Days : Run!HasFrame(d) =>
          /\ d <= n /\ d \in task.plan => d <= task.day
          /\ d > n => d \in task.plan /\ d > task.day
    BY <1>3 DEF Between
  <1>10. \A d \in Run!Days : Run!HasFrame(d) /\ d > n => m <= d
    BY <1>6, <1>9
  <1>11. Run!DayDeleted(m) = Cleared(trades, m)
    BY DEF Run!DayDeleted, Cleared
  <1>12. n \in Nat /\ LedgerOK(Led(n), n)
    BY <1>2, LedOK
  <1>13. CASE Run!HasFrame(m)
    <2>1. m > n
      <3>1. ~(m <= task.day)
        BY <1>2, <1>7 DEF Tables
      <3> QED
        BY <1>7, <1>9, <1>12, <1>13, <3>1
    <2>2. m - 1 \in n .. LastDay /\ m - 1 \in 0 .. LastDay
      BY <1>7, <1>12, <2>1 DEF Run!Days
    <2>3. \A e \in n + 1 .. m - 1 : e \in Run!Days /\ e > n /\ ~(m <= e)
      BY <1>7, <1>12, <2>1 DEF Run!Days
    <2>4. \A e \in n + 1 .. m - 1 : ~Run!HasFrame(e)
      BY <1>10, <2>3
    <2>5. Led(m - 1) = Led(n)
      BY <1>2, <2>2, <2>4, LedSkips
    <2>6. DoneTo(m - 1)
      <3>1. \A d \in Run!Days : Run!HasFrame(d) => (d <= n <=> d <= m - 1)
        BY <1>7, <1>10, <1>12, <2>1 DEF Run!Days
      <3> QED
        BY <1>8, <3>1 DEF DoneTo
    <2>7. LedgerOK(Led(m - 1), m - 1) /\ m - 1 \in Nat
      BY <1>2, <2>2, LedOK
    <2>8. trades' = Led(m - 1)
      <3>1. Cleared(Led(m - 1), m) = Led(m - 1)
        BY <1>7, <2>7, ClearedSame
      <3> QED
        BY <1>1, <1>8, <1>11, <2>5, <3>1
    <2>9. /\ task' = [task EXCEPT !.at = "minutes", !.day = m] /\ days' = days
      BY <1>1, <1>13
    <2>10. task' = [at |-> "minutes", day |-> m, plan |-> task.plan, ledger |-> task.ledger,
                    equity |-> task.equity, paused |-> task.paused, cancel |-> task.cancel]
      BY <1>2, <2>9 DEF Tables
    <2>11. Tables'
      <3>1. days' = [d \in Run!Days |-> days'[d]]
        BY <1>2, <2>9 DEF Tables
      <3> QED
        BY <1>4, <1>5, <1>7, <2>10, <3>1 DEF Tables
    <2>12. DoneTo(m - 1)' /\ Equities'
      BY <1>2, <1>4, <2>6, <2>9 DEF DoneTo, Equities
    <2>13. Stage(m)'
      BY <1>4, <1>8, <2>5, <2>8, <2>10 DEF Stage
    <2>14. \A e \in Run!Days : Run!HasFrame(e) /\ e > m => e \in task.plan
      BY <1>7, <1>9, <1>12, <2>1 DEF Run!Days
    <2>15. Within(m)'
      BY <1>4, <1>7, <1>13, <2>10, <2>12, <2>13, <2>14 DEF Within
    <2>16. Stands'
      BY <2>10, <2>15 DEF Stands
    <2> QED
      BY <1>1, <1>2, <1>4, <2>11, <2>12, <2>16 DEF RunInv
  <1>14. CASE ~Run!HasFrame(m)
    <2>1. Cleared(Led(n), m) = Led(n)
      BY <1>7, <1>12, <1>14, ClearedSame
    <2>2. trades' = Led(n)
      BY <1>1, <1>8, <1>11, <2>1
    <2>3. /\ task' = [task EXCEPT !.day = m]
          /\ days' = [days EXCEPT ![m] = Run!DayRow("skipped", 0)]
      BY <1>1, <1>14
    <2>4. task' = [at |-> "days", day |-> m, plan |-> task.plan, ledger |-> task.ledger,
                   equity |-> task.equity, paused |-> task.paused, cancel |-> task.cancel]
      BY <1>1, <1>2, <2>3 DEF Tables
    <2>5. days[m].status # "done"
      BY <1>7, <1>8, <1>14 DEF DoneTo
    <2>6. /\ days' = [d \in Run!Days |-> days'[d]]
          /\ \A d \in Run!Days : d # m => days'[d] = days[d]
          /\ days'[m].status # "done"
      BY <1>2, <1>7, <2>3 DEF Tables, Run!DayRow
    <2>7. Tables'
      BY <1>4, <1>5, <1>7, <2>4, <2>6 DEF Tables
    <2>8. DoneTo(n)'
      BY <1>4, <1>8, <2>5, <2>6 DEF DoneTo
    <2>9. Equities'
      BY <1>2, <1>4, <2>5, <2>6 DEF Equities
    <2>10. \A d \in Run!Days : Run!HasFrame(d) =>
             /\ d <= n /\ d \in task.plan => d <= m
             /\ d > n => d \in task.plan /\ d > m
      <3> TAKE d \in Run!Days
      <3> HAVE Run!HasFrame(d)
      <3>1. ASSUME d <= n, d \in task.plan
            PROVE  d <= m
        BY <1>2, <1>7, <1>9, <3>1 DEF Run!Days, Tables
      <3>2. d # m
        BY <1>14
      <3>3. d > n => d \in task.plan /\ d > m
        BY <1>7, <1>9, <1>10, <3>2 DEF Run!Days
      <3> QED
        BY <3>1, <3>3
    <2>11. Between(n)'
      BY <1>4, <1>8, <2>2, <2>4, <2>8, <2>10 DEF Between
    <2>12. Stands'
      BY <2>4, <2>11 DEF Stands
    <2> QED
      BY <1>1, <1>2, <1>4, <2>7, <2>9, <2>12 DEF RunInv
  <1> QED
    BY <1>13, <1>14

\* A step inside day d that leaves the days' rows alone.
LEMMA InsideInv ==
    ASSUME LastDay \in Nat, RunInv, UNCHANGED <<data, script, carryPause, row, days>>,
           NEW d, d = task.day, Within(d), NEW l, NEW q, NEW p,
           NEW a \in {"insert", "book", "mark"}, Stage(d)',
           task' = [at |-> a, day |-> d, plan |-> task.plan, ledger |-> l,
                    equity |-> q, paused |-> p, cancel |-> task.cancel]
    PROVE  RunInv'
  <1>1. /\ \A e : Led(e)' = Led(e)
        /\ \A e : Run!HasFrame(e)' <=> Run!HasFrame(e)
        /\ Inputs' /\ Run!Covered' = Run!Covered
    BY Frozen DEF RunInv, Run!Covered
  <1>2. /\ Tables /\ Equities /\ DoneTo(d - 1) /\ row = "running"
    BY DEF RunInv, Within, Stage
  <1>3. Tables'
    <2>1. days' = [e \in Run!Days |-> days'[e]]
      BY <1>2 DEF Tables
    <2>2. task.plan \subseteq Run!Covered /\ task.day \in Nat
      BY <1>2 DEF Tables
    <2> QED
      BY <1>1, <2>1, <2>2 DEF Tables
  <1>4. DoneTo(d - 1)' /\ Equities'
    BY <1>1, <1>2 DEF DoneTo, Equities
  <1>5. Within(d)'
    BY <1>1, <1>4 DEF Within
  <1>6. Stands'
    BY <1>5 DEF Stands
  <1> QED
    BY <1>1, <1>2, <1>3, <1>4, <1>6 DEF RunInv

LEMMA MinutesInv ==
    ASSUME LastDay \in Nat, RunInv, Run!Minutes
    PROVE  RunInv'
  <1>1. PICK d : d = task.day
    OBVIOUS
  <1>2. PICK p : p = Run!Played(d, task.ledger, carryPause /\ task.paused)
    OBVIOUS
  <1>3. /\ UNCHANGED <<data, script, carryPause, row, days, trades>> /\ task.at = "minutes"
        /\ task' = [task EXCEPT !.at = "insert", !.ledger = p.ledger, !.paused = p.paused]
    BY <1>1, <1>2 DEF Run!Minutes, Run!inputs
  <1>4. Inputs /\ Tables /\ Within(d)
    BY <1>1, <1>3 DEF RunInv, Stands
  <1>5. /\ d \in Run!Days /\ Run!HasFrame(d)
        /\ task.ledger = Led(d - 1) /\ trades = Led(d - 1)
        /\ task.equity = Run!Realized(Led(d - 1))
    BY <1>3, <1>4 DEF Within, Stage
  <1>6. (carryPause /\ task.paused) = FALSE
    BY <1>4 DEF Inputs
  <1>7. p.ledger = Led(d)
    BY <1>2, <1>4, <1>5, <1>6, LedDay
  <1>8. task' = [at |-> "insert", day |-> d, plan |-> task.plan, ledger |-> p.ledger,
                 equity |-> task.equity, paused |-> p.paused, cancel |-> task.cancel]
    <2>1. PICK l, q : l = p.ledger /\ q = p.paused
      OBVIOUS
    <2>2. task' = [task EXCEPT !.at = "insert", !.ledger = l, !.paused = q]
      BY <1>3, <2>1
    <2> QED
      BY <1>1, <1>4, <2>1, <2>2 DEF Tables
  <1>9. \A e : Led(e)' = Led(e)
    BY <1>3, Frozen
  <1>10. Stage(d)'
    BY <1>3, <1>5, <1>7, <1>8, <1>9 DEF Stage
  <1> QED
    BY <1>1, <1>3, <1>4, <1>8, <1>10, InsideInv

LEMMA InsertInv ==
    ASSUME LastDay \in Nat, RunInv, Run!Insert
    PROVE  RunInv'
  <1>1. PICK d : d = task.day
    OBVIOUS
  <1>2. /\ UNCHANGED <<data, script, carryPause, row, days>> /\ task.at = "insert"
        /\ trades' = trades \cup NewOf(task.ledger, d)
        /\ task' = [task EXCEPT !.at = "book"]
    BY <1>1 DEF Run!Insert, Run!inputs, Run!Inserted, Run!EnteredOn, NewOf
  <1>3. Inputs /\ Tables /\ Within(d)
    BY <1>1, <1>2 DEF RunInv, Stands
  <1>4. /\ task.ledger = Led(d) /\ trades = Led(d - 1)
        /\ task.equity = Run!Realized(Led(d - 1))
    BY <1>2, <1>3 DEF Within, Stage
  <1>5. task' = [at |-> "book", day |-> d, plan |-> task.plan, ledger |-> task.ledger,
                 equity |-> task.equity, paused |-> task.paused, cancel |-> task.cancel]
    BY <1>1, <1>2, <1>3 DEF Tables
  <1>6. \A e : Led(e)' = Led(e)
    BY <1>2, Frozen
  <1>7. trades' = Led(d - 1) \cup NewOf(Led(d), d)
    BY <1>2, <1>4
  <1>8. Stage(d)'
    <2>1. (Led(d - 1) \cup NewOf(Led(d), d))' = Led(d - 1) \cup NewOf(Led(d), d)
      BY <1>6 DEF NewOf
    <2> QED
      BY <1>4, <1>5, <1>6, <1>7, <2>1 DEF Stage
  <1> QED
    BY <1>1, <1>2, <1>3, <1>5, <1>8, InsideInv

\* The exits make the rows those of the day, and the equity grows by what they realised.
LEMMA BookInv ==
    ASSUME LastDay \in Nat, RunInv, Run!Book
    PROVE  RunInv'
  <1>1. PICK d : d = task.day
    OBVIOUS
  <1>2. PICK q : q = task.equity + Run!Realized(ClosedOf(task.ledger, d))
    OBVIOUS
  <1>3. /\ UNCHANGED <<data, script, carryPause, row, days>> /\ task.at = "book"
        /\ trades' = Run!Booked(ClosedOf(task.ledger, d) \ NewOf(task.ledger, d))
        /\ task' = [task EXCEPT !.at = "mark", !.equity = q]
    BY <1>1, <1>2 DEF Run!Book, Run!inputs, Run!EnteredOn, NewOf, ClosedOf
  <1>4. Inputs /\ Tables /\ Within(d)
    BY <1>1, <1>3 DEF RunInv, Stands
  <1>5. /\ d \in Run!Days /\ Run!HasFrame(d) /\ task.ledger = Led(d)
        /\ trades = Led(d - 1) \cup NewOf(Led(d), d)
        /\ task.equity = Run!Realized(Led(d - 1))
    BY <1>3, <1>4 DEF Within, Stage
  <1>6. OneDay(Led(d - 1), Led(d), d)
    BY <1>4, <1>5, LedDay
  <1>7. trades' = Led(d)
    <2>1. trades' = Booking(trades, ClosedOf(Led(d), d) \ NewOf(Led(d), d))
      BY <1>3, <1>5 DEF Run!Booked, Booking
    <2> QED
      BY <1>5, <1>6, <2>1, DayBooked
  <1>8. q = Run!Realized(Led(d))
    BY <1>2, <1>5, <1>6, DayRealizes
  <1>9. task' = [at |-> "mark", day |-> d, plan |-> task.plan, ledger |-> task.ledger,
                 equity |-> q, paused |-> task.paused, cancel |-> task.cancel]
    BY <1>1, <1>3, <1>4 DEF Tables
  <1>10. \A e : Led(e)' = Led(e)
    BY <1>3, Frozen
  <1>11. Stage(d)'
    BY <1>5, <1>7, <1>8, <1>9, <1>10 DEF Stage
  <1> QED
    BY <1>1, <1>3, <1>4, <1>9, <1>11, InsideInv

LEMMA MarkInv ==
    ASSUME LastDay \in Nat, RunInv, Run!Mark
    PROVE  RunInv'
  <1>1. PICK d : d = task.day
    OBVIOUS
  <1>2. /\ UNCHANGED <<data, script, carryPause, row, trades>> /\ task.at = "mark"
        /\ days' = [days EXCEPT ![d] = Run!DayRow("done", task.equity)]
        /\ task' = [task EXCEPT !.at = "days"]
    BY <1>1 DEF Run!Mark, Run!inputs
  <1>3. Inputs /\ Tables /\ Equities /\ Within(d) /\ row = "running"
    BY <1>1, <1>2 DEF RunInv, Stands
  <1>4. /\ d \in Run!Days /\ Run!HasFrame(d) /\ DoneTo(d - 1)
        /\ task.ledger = Led(d) /\ trades = Led(d) /\ task.equity = Run!Realized(Led(d))
        /\ \A e \in Run!Days : Run!HasFrame(e) /\ e > d => e \in task.plan
    BY <1>2, <1>3 DEF Within, Stage
  <1>5. /\ \A e : Led(e)' = Led(e)
        /\ \A e : Run!HasFrame(e)' <=> Run!HasFrame(e)
        /\ Inputs' /\ Run!Covered' = Run!Covered
    BY <1>2, <1>3, Frozen DEF Run!Covered
  <1>6. task' = [at |-> "days", day |-> d, plan |-> task.plan, ledger |-> task.ledger,
                 equity |-> task.equity, paused |-> task.paused, cancel |-> task.cancel]
    BY <1>1, <1>2, <1>3 DEF Tables
  <1>7. /\ days' = [e \in Run!Days |-> days'[e]]
        /\ \A e \in Run!Days : e # d => days'[e] = days[e]
        /\ days'[d] = Run!DayRow("done", task.equity)
    BY <1>2, <1>3, <1>4 DEF Tables
  <1>8. days'[d].status = "done" /\ days'[d].equity = Run!Realized(Led(d))
    BY <1>4, <1>7 DEF Run!DayRow
  <1>9. DoneTo(d)'
    <2>1. \A e \in Run!Days : e # d => (e <= d - 1 <=> e <= d)
      BY <1>4 DEF Run!Days
    <2>2. d <= d
      BY <1>4 DEF Run!Days
    <2> QED
      BY <1>4, <1>5, <1>7, <1>8, <2>1, <2>2 DEF DoneTo
  <1>10. Equities'
    BY <1>3, <1>5, <1>7, <1>8 DEF Equities
  <1>11. d \in 0 .. LastDay /\ d \in Nat
    BY <1>4 DEF Run!Days
  <1>12. \A e \in Run!Days : Run!HasFrame(e) =>
            /\ e <= d /\ e \in task.plan => e <= d
            /\ e > d => e \in task.plan /\ e > d
    BY <1>4
  <1>13. Between(d)'
    BY <1>4, <1>5, <1>2, <1>6, <1>9, <1>12 DEF Between
  <1>14. Stands'
    BY <1>6, <1>11, <1>13 DEF Stands
  <1>15. Tables'
    <2>1. task.plan \subseteq Run!Covered
      BY <1>3 DEF Tables
    <2> QED
      BY <1>5, <1>6, <1>7, <1>11, <2>1 DEF Tables
  <1> QED
    BY <1>2, <1>3, <1>5, <1>10, <1>14, <1>15 DEF RunInv

\* No planned day is left: every day with a frame is done.
LEMMA FinishInv ==
    ASSUME LastDay \in Nat, RunInv, Run!Finish
    PROVE  RunInv'
  <1>1. /\ UNCHANGED <<data, script, carryPause, days, trades>> /\ task.at = "days"
        /\ \A d \in task.plan : d <= task.day
        /\ row' = "done"
        /\ task' = [at |-> "none", day |-> 0, plan |-> {}, ledger |-> {}, equity |-> 0,
                    paused |-> FALSE, cancel |-> FALSE]
    BY DEF Run!Finish, Run!inputs, Run!NoTask
  <1>2. Inputs /\ Tables /\ Equities /\ Stands
    BY DEF RunInv
  <1>3. PICK n \in 0 .. LastDay : Between(n)
    BY <1>1, <1>2 DEF Stands, Within, Stage
  <1>4. \A d \in Run!Days : d > n => ~Run!HasFrame(d)
    <2>1. SUFFICES ASSUME NEW d \in Run!Days, d > n, Run!HasFrame(d)
                   PROVE  FALSE
      OBVIOUS
    <2>2. d \in task.plan /\ d > task.day
      BY <1>3, <2>1 DEF Between
    <2>3. d <= task.day
      BY <1>1, <2>2
    <2> QED
      BY <1>2, <2>2, <2>3 DEF Tables, Run!Days
  <1>5. Led(LastDay) = Led(n)
    <2>1. LastDay \in n .. LastDay /\ \A e \in n + 1 .. LastDay : e \in Run!Days /\ e > n
      BY DEF Run!Days
    <2>2. \A e \in n + 1 .. LastDay : ~Run!HasFrame(e)
      BY <1>4, <2>1
    <2> QED
      BY <1>2, <2>1, <2>2, LedSkips
  <1>6. DoneTo(LastDay)
    <2>1. DoneTo(n)
      BY <1>3 DEF Between
    <2>2. \A d \in Run!Days : Run!HasFrame(d) => d <= n /\ d <= LastDay
      BY <1>4 DEF Run!Days
    <2> QED
      BY <2>1, <2>2 DEF DoneTo
  <1>7. trades = Led(LastDay)
    BY <1>3, <1>5 DEF Between
  <1>8. \A e : Led(e)' = Led(e)
    BY <1>1, Frozen
  <1>9. DoneTo(LastDay)' /\ trades' = Led(LastDay)'
    BY <1>1, <1>6, <1>7, <1>8, Frozen DEF DoneTo
  <1>10. Stored'
    BY <1>9, LastDay \in 0 .. LastDay DEF Stored
  <1>11. Inputs' /\ Equities'
    BY <1>1, <1>2, <1>8, Frozen DEF Equities
  <1>12. Tables'
    BY <1>1, <1>2 DEF Tables
  <1>13. Stands'
    BY <1>1, <1>10 DEF Stands
  <1> QED
    BY <1>1, <1>9, <1>11, <1>12, <1>13 DEF RunInv

LEMMA CancelInv ==
    ASSUME LastDay \in Nat, RunInv, Run!Cancel
    PROVE  RunInv'
  <1>1. /\ UNCHANGED <<data, script, carryPause, row, days, trades>> /\ task.at # "none"
        /\ task' = [task EXCEPT !.cancel = TRUE]
    BY DEF Run!Cancel, Run!inputs
  <1>2. Inputs /\ Tables /\ Equities /\ Stands /\ row = "running"
    BY <1>1 DEF RunInv
  <1>3. task' = [at |-> task.at, day |-> task.day, plan |-> task.plan, ledger |-> task.ledger,
                 equity |-> task.equity, paused |-> task.paused, cancel |-> TRUE]
    BY <1>1, <1>2 DEF Tables
  <1>4. /\ \A e : Led(e)' = Led(e)
        /\ \A e : Run!HasFrame(e)' <=> Run!HasFrame(e)
        /\ Inputs' /\ Run!Covered' = Run!Covered
    BY <1>1, <1>2, Frozen DEF Run!Covered
  <1>5. Tables'
    <2>1. days' = [e \in Run!Days |-> days'[e]]
      BY <1>1, <1>2 DEF Tables
    <2>2. /\ task.plan \subseteq Run!Covered /\ task.day \in Nat
          /\ task.at \in {"plan", "seed"} => task.day = 0
          /\ task.at = "seed" => task.plan = {d \in Run!Covered : days[d].status # "done"}
      BY <1>2 DEF Tables
    <2> QED
      BY <1>1, <1>3, <1>4, <2>1, <2>2 DEF Tables
  <1>6. Equities' /\ \A n : DoneTo(n) => DoneTo(n)'
    BY <1>1, <1>2, <1>4 DEF DoneTo, Equities
  <1>7. Stands'
    <2>1. CASE task.at \in {"none", "plan", "seed"} /\ Stored
      <3>1. \A n : Cut(n) => Cut(n)'
        BY <1>1, <1>4 DEF Cut, NewOf
      <3>2. Stored'
        BY <1>1, <1>4, <1>6, <2>1, <3>1 DEF Stored
      <3> QED
        BY <1>3, <2>1, <3>2 DEF Stands
    <2>2. CASE task.at = "days" /\ \E n \in 0 .. LastDay : Between(n)
      <3>1. PICK n \in 0 .. LastDay : Between(n)
        BY <2>2
      <3>2. Between(n)'
        BY <1>1, <1>3, <1>4, <1>6, <3>1 DEF Between
      <3> QED
        BY <1>3, <2>2, <3>2 DEF Stands
    <2>3. CASE Within(task.day)
      <3>1. PICK d : d = task.day
        OBVIOUS
      <3>2. Stage(d)'
        BY <1>1, <1>3, <1>4, <2>3, <3>1 DEF Within, Stage, NewOf
      <3>3. Within(d)'
        BY <1>1, <1>3, <1>4, <1>6, <2>3, <3>1, <3>2 DEF Within
      <3> QED
        BY <1>3, <3>1, <3>3 DEF Stands
    <2> QED
      BY <1>2, <2>1, <2>2, <2>3 DEF Stands
  <1> QED
    BY <1>1, <1>2, <1>4, <1>5, <1>6, <1>7 DEF RunInv

LEMMA RunStep ==
    ASSUME RunSettings, RunInv, [Run!Next]_(Run!vars)
    PROVE  RunInv'
  <1>0. LastDay \in Nat
    BY DEF RunSettings
  <1>1. CASE Run!Start
    BY <1>0, <1>1, StartInv
  <1>2. CASE Run!Plan
    BY <1>0, <1>2, PlanInv
  <1>3. CASE Run!Seed
    BY <1>3, SeedInv
  <1>4. CASE Run!NextDay
    BY <1>0, <1>4, NextDayInv
  <1>5. CASE Run!Minutes
    BY <1>0, <1>5, MinutesInv
  <1>6. CASE Run!Insert
    BY <1>0, <1>6, InsertInv
  <1>7. CASE Run!Book
    BY <1>0, <1>7, BookInv
  <1>8. CASE Run!Mark
    BY <1>0, <1>8, MarkInv
  <1>9. CASE Run!Finish
    BY <1>0, <1>9, FinishInv
  <1>10. CASE Run!Cancelled \/ Run!Stop
    <2>1. /\ UNCHANGED <<data, script, carryPause, days, trades>>
          /\ task' = Run!NoTask /\ row' # "done"
      BY <1>10 DEF Run!Cancelled, Run!Stop, Run!inputs
    <2> QED
      BY <1>0, <2>1, EndedInv
  <1>11. CASE Run!Cancel
    BY <1>0, <1>11, CancelInv
  <1>12. CASE \E d \in Run!Days : Run!Backfill(d)
    BY <1>12 DEF Run!Backfill, RunSettings
  <1>13. CASE UNCHANGED Run!vars
    <2>1. UNCHANGED <<data, script, carryPause, row, days, trades, task>>
      BY <1>13 DEF Run!vars, Run!inputs
    <2>2. /\ \A e : Led(e)' = Led(e)
          /\ \A e : Run!HasFrame(e)' <=> Run!HasFrame(e)
          /\ (Inputs' <=> Inputs) /\ Run!Covered' = Run!Covered
      BY <2>1, Frozen DEF Run!Covered
    <2>3. Tables' <=> Tables
      BY <2>1, <2>2 DEF Tables
    <2>4. (\A n : DoneTo(n)' <=> DoneTo(n)) /\ (Equities' <=> Equities)
      BY <2>1, <2>2 DEF DoneTo, Equities
    <2>5. \A n : Cut(n)' <=> Cut(n)
      BY <2>1, <2>2 DEF Cut, NewOf
    <2>6. \A n : Between(n)' <=> Between(n)
      BY <2>1, <2>2, <2>4 DEF Between
    <2>7. \A n : Stage(n)' <=> Stage(n)
      BY <2>1, <2>2 DEF Stage, NewOf
    <2>8. Stored' <=> Stored
      BY <2>1, <2>2, <2>4, <2>5 DEF Stored
    <2>9. Within(task.day)' <=> Within(task.day)
      BY <2>1, <2>2, <2>4, <2>7 DEF Within
    <2>10. Stands' <=> Stands
      BY <2>1, <2>6, <2>8, <2>9 DEF Stands
    <2> QED
      BY <2>1, <2>2, <2>3, <2>4, <2>10 DEF RunInv
  <1>14. CASE Run!Rest
    BY <1>13, <1>14 DEF Run!Rest
  <1> QED
    BY <1>1, <1>2, <1>3, <1>4, <1>5, <1>6, <1>7, <1>8, <1>9, <1>10, <1>11, <1>12, <1>13, <1>14
       DEF Run!Next

LEMMA RunHolds ==
    ASSUME RunSettings, RunInv
    PROVE  ResumedIsUninterrupted
  <1> SUFFICES ASSUME row = "done"
               PROVE  /\ trades = Run!Unstopped[LastDay].ledger
                      /\ \A d \in Run!Days : days[d].status = "done" =>
                            days[d].equity = Run!Realized(Run!Unstopped[d].ledger)
    BY DEF ResumedIsUninterrupted, Run!ResumedIsUninterrupted
  <1>0. LastDay \in Nat
    BY DEF RunSettings
  <1>1. DoneTo(LastDay) /\ trades = Led(LastDay) /\ Equities
    BY DEF RunInv
  <1>2. \A d \in 1 .. LastDay : days[d].status = "done" <=> Run!HasFrame(d)
    BY <1>0, <1>1 DEF DoneTo, Run!Days
  <1>3. \A d \in 0 .. LastDay : Run!Unstopped[d].ledger = Led(d)
    BY <1>0, <1>2, UnstoppedIsIdeal
  <1>4. LastDay \in 0 .. LastDay /\ \A d \in Run!Days : d \in 0 .. LastDay
    BY <1>0 DEF Run!Days
  <1> QED
    BY <1>1, <1>3, <1>4 DEF Equities

\* Stopped or cancelled anywhere, also between two transactions of one day's flush, and
\* resumed any number of times, a run (runner.py's _run_body, store.py) ends with the trades
\* and the equity of a run that was never stopped: delete_day_outputs before seed_closed and
\* before each day takes back all of a cut day, and nothing of the days before it.
THEOREM ResumedAlwaysUninterrupted ==
    ASSUME RunSettings
    PROVE  Run!Spec => []ResumedIsUninterrupted
  <1>1. Run!Init => RunInv
    BY InitInv
  <1>2. RunInv /\ [Run!Next]_(Run!vars) => RunInv'
    BY RunStep
  <1>3. RunInv => ResumedIsUninterrupted
    BY RunHolds
  <1> QED
    BY <1>1, <1>2, <1>3, PTL DEF Run!Spec
=============================================================================

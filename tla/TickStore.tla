------------------------------ MODULE TickStore ------------------------------
(***************************************************************************)
(* From a tick to a row and a frame: the queue of the runtime, the         *)
(* aggregator (backend/app/ingest/aggregator.py), the flush hook           *)
(* (ingest/feed_factory.py) and the REST pollers that cover for a dead     *)
(* socket (ingest/universe_poller.py, ingest/td_failover_poller.py).       *)
(*                                                                         *)
(* One contract; a tick is its origin, its time stamp and whether it       *)
(* carries a price.  Time counts seconds, a bucket lasts Len of them.      *)
(***************************************************************************)
EXTENDS Integers, Sequences, FiniteSetsExt

CONSTANTS
    BucketLen,  \* PERSIST_BUCKET in seconds
    MaxTime,    \* bound: the last second
    QMax,       \* the queue's capacity (runtime.py:18)
    MaxOpen,    \* MAX_OPEN_BUCKETS
    Kept,       \* what an overflow leaves: 90 % of it
    MaxFaults   \* bound: failing flushes and sweeps of an outage

VARIABLES
    now,
    sweep,      \* a poller is between its gate and its ticks
    queue,
    agg,        \* where _run is, and the cutoff of its last flush (last_bucket)
    open,       \* _open_buckets
    flushed,    \* _last_flushed
    stored,     \* option_oi_snapshots
    hub,        \* _pub's pending flush, the one its worker publishes, the last one sent
    stopping, faults,
    heard       \* history: the newest socket tick absorbed for a bucket, as long as
                \* the cap did not drop it

vars == <<now, sweep, queue, agg, open, flushed, stored, hub, stopping, faults, heard>>

Nothing == -1
BucketOf(t) == t \div BucketLen                     \* _floor_to_bucket
Buckets == 0 .. BucketOf(MaxTime)
Times == 0 .. MaxTime
Ticks == [origin : {"ws", "poller"}, ts : Times, px : BOOLEAN]
NoTick == [origin |-> "none", ts |-> Nothing, px |-> FALSE]

TypeOK ==
    /\ now \in Times
    /\ sweep \in BOOLEAN
    /\ queue \in Seq(Ticks) /\ Len(queue) <= QMax
    /\ agg \in [at : {"loop", "flush", "drain", "final", "done"}, cutoff : 0 .. MaxTime + 1]
    /\ open \in [Buckets -> Ticks \cup {NoTick}]
    /\ flushed \in Buckets \cup {Nothing}
    /\ stored \in [Buckets -> Ticks \cup {NoTick}]
    /\ hub \in [pending : Buckets \cup {Nothing}, item : Buckets \cup {Nothing},
                sent : Buckets \cup {Nothing}]
    /\ stopping \in BOOLEAN /\ faults \in 0 .. MaxFaults
    /\ heard \in [Buckets -> Times \cup {Nothing}]

Init ==
    /\ now = 0
    /\ sweep = FALSE
    /\ queue = <<>>
    /\ agg = [at |-> "loop", cutoff |-> 0]
    /\ open = [b \in Buckets |-> NoTick] /\ flushed = Nothing
    /\ stored = [b \in Buckets |-> NoTick]
    /\ hub = [pending |-> Nothing, item |-> Nothing, sent |-> Nothing]
    /\ stopping = FALSE /\ faults = 0
    /\ heard = [b \in Buckets |-> Nothing]

Strikes == faults < MaxFaults /\ faults' = faults + 1

Clock ==
    /\ now < MaxTime /\ now' = now + 1
    /\ UNCHANGED <<sweep, queue, agg, open, flushed, stored, hub, stopping, faults, heard>>

-----------------------------------------------------------------------------
(* The producers.                                                           *)

\* put_nowait, and nobody is told when the queue is full.  The drain at shutdown
\* awaits nothing, so no producer runs between two of its steps.
Put(tick) ==
    /\ agg.at # "drain"
    /\ queue' = IF Len(queue) < QMax THEN Append(queue, tick) ELSE queue

\* _emit: the socket's row is stamped now; a price may be unknown.
Emit ==
    /\ ~stopping
    /\ \E px \in BOOLEAN : Put([origin |-> "ws", ts |-> now, px |-> px])
    /\ UNCHANGED <<now, sweep, agg, open, flushed, stored, hub, stopping, faults, heard>>

\* The steward has found the socket silent, or it has come back and the failover
\* lingers: a sweep begins, and its quotes are awaited.
SweepStarts ==
    /\ ~sweep /\ ~stopping /\ Strikes /\ sweep' = TRUE
    /\ UNCHANGED <<now, queue, agg, open, flushed, stored, hub, stopping, heard>>

\* _batch_quote gives up: a stale token, a throttle that lasts, a stop.
SweepFails ==
    /\ sweep /\ sweep' = FALSE
    /\ UNCHANGED <<now, queue, agg, open, flushed, stored, hub, stopping, faults, heard>>

Bars == {ts \in {(BucketOf(now) - 1) * BucketLen, BucketOf(now) * BucketLen} : ts >= 0}
\* The XTS poller stamps its rows now, TrueData's with the bar's own minute.
XtsStamps == {now}
TdStamps == Bars

\* A missed price, or one too old to be carried, goes out as unknown.
SweepAnswers ==
    /\ sweep /\ sweep' = FALSE
    /\ \E px \in BOOLEAN, ts \in XtsStamps \cup TdStamps :
         Put([origin |-> "poller", ts |-> ts, px |-> px])
    /\ UNCHANGED <<now, agg, open, flushed, stored, hub, stopping, faults, heard>>

\* The segment sweeper asks for the minute before, whatever the socket does.
SegmentSweep ==
    /\ ~stopping /\ BucketOf(now) > 0 /\ Strikes
    /\ Put([origin |-> "poller", ts |-> (BucketOf(now) - 1) * BucketLen, px |-> TRUE])
    /\ UNCHANGED <<now, sweep, agg, open, flushed, stored, hub, stopping, heard>>

-----------------------------------------------------------------------------
(* The aggregator.                                                          *)

Held(o) == {b \in Buckets : o[b] # NoTick}

\* The newest tick of a bucket wins, and a poller's never over the socket's.
Wins(tick, prev) ==
    /\ ~(prev.origin = "ws" /\ tick.origin # "ws")
    /\ prev = NoTick \/ tick.ts >= prev.ts \/ (prev.origin # "ws" /\ tick.origin = "ws")

\* Mutant of Late: a tick for a row already written is taken.
NeverLate(tick) == FALSE

\* _absorb: late for a row already written?
Late(tick) == BucketOf(tick.ts) < flushed

\* Beyond the cap the oldest buckets go.
Trimmed(o) ==
    IF Cardinality(Held(o)) <= MaxOpen THEN {}
    ELSE CHOOSE S \in SUBSET Held(o) :
           /\ Cardinality(S) = Cardinality(Held(o)) - Kept
           /\ \A b \in S, c \in Held(o) \ S : b < c

\* _absorb as a function of the open buckets and of what was heard.
Absorbed(s, tick) ==
    LET b == BucketOf(tick.ts)
        taken == ~Late(tick) /\ Wins(tick, s.open[b])
        put == IF taken THEN [s.open EXCEPT ![b] = tick] ELSE s.open
        new == IF taken /\ tick.origin = "ws" THEN [s.heard EXCEPT ![b] = tick.ts] ELSE s.heard
        gone == Trimmed(put)
    IN  [open |-> [c \in Buckets |-> IF c \in gone THEN NoTick ELSE put[c]],
         heard |-> [c \in Buckets |-> IF c \in gone THEN Nothing ELSE new[c]]]

Closed(o, cutoff) == {b \in Held(o) : (b + 1) * BucketLen <= cutoff}

\* One turn of _run: a tick or a timeout, then a flush if the clock has crossed a
\* boundary since the last one.
Turn ==
    /\ agg.at = "loop" /\ ~stopping
    /\ LET was == [open |-> open, heard |-> heard]
           s == IF queue = <<>> THEN was ELSE Absorbed(was, Head(queue))
           cutoff == BucketOf(now) * BucketLen
           flush == cutoff # agg.cutoff /\ Closed(s.open, cutoff) # {}
       IN  /\ queue' = IF queue = <<>> THEN queue ELSE Tail(queue)
           /\ open' = s.open /\ heard' = s.heard
           /\ agg' = [at |-> IF flush THEN "flush" ELSE "loop", cutoff |-> cutoff]
    /\ UNCHANGED <<now, sweep, flushed, stored, hub, stopping, faults>>

\* ON CONFLICT DO UPDATE: a known price is not erased.
Upsert(row, tick) == [tick EXCEPT !.px = tick.px \/ row.px]

Batch == Closed(open, agg.cutoff)

\* Mutant of Popped: a batch is given up when its insert fails.
PoppedAnyway(ok) == [b \in Buckets |-> IF b \in Batch THEN NoTick ELSE open[b]]

\* Written buckets are closed; the others wait for the next flush.
Popped(ok) == [b \in Buckets |-> IF ok /\ b \in Batch THEN NoTick ELSE open[b]]

\* The batch is inserted, all of it or none; on_flush hands it to the hub's worker.
Flush ==
    /\ agg.at \in {"flush", "final"}
    /\ agg' = [agg EXCEPT !.at = IF @ = "final" THEN "done" ELSE "loop"]
    /\ \/ /\ stored' = [b \in Buckets |->
                        IF b \in Batch THEN Upsert(stored[b], open[b]) ELSE stored[b]]
          /\ flushed' = Max(Batch \cup {flushed})
          /\ open' = Popped(TRUE)
          /\ hub' = [hub EXCEPT !.pending = Max(Batch)]
          /\ UNCHANGED faults
       \/ Strikes /\ open' = Popped(FALSE) /\ UNCHANGED <<stored, flushed, hub>>
    /\ UNCHANGED <<now, sweep, queue, stopping, heard>>

\* stop()
Stop ==
    /\ ~stopping /\ stopping' = TRUE
    /\ UNCHANGED <<now, sweep, queue, agg, open, flushed, stored, hub, faults, heard>>

Ending == agg.at = "drain" \/ (agg.at = "loop" /\ stopping)

\* The loop has ended: what is queued is absorbed.
Drain ==
    /\ Ending /\ queue # <<>>
    /\ LET s == Absorbed([open |-> open, heard |-> heard], Head(queue))
       IN  open' = s.open /\ heard' = s.heard
    /\ queue' = Tail(queue)
    /\ agg' = [agg EXCEPT !.at = "drain"]
    /\ UNCHANGED <<now, sweep, flushed, stored, hub, stopping, faults>>

\* Then everything is flushed up to one second from now.
FinalFlush ==
    /\ Ending /\ queue = <<>>
    /\ agg' = [at |-> IF Closed(open, now + 1) = {} THEN "done" ELSE "final", cutoff |-> now + 1]
    /\ UNCHANGED <<now, sweep, queue, open, flushed, stored, hub, stopping, faults, heard>>

-----------------------------------------------------------------------------
(* The publication, one worker at a time.                                   *)

\* _publish_worker takes the newest flush and empties the slot.
Take ==
    /\ hub.item = Nothing /\ hub.pending # Nothing
    /\ hub' = [hub EXCEPT !.item = hub.pending, !.pending = Nothing]
    /\ UNCHANGED <<now, sweep, queue, agg, open, flushed, stored, stopping, faults, heard>>

\* Mutant of Publish: the slot is emptied when the hub has got the frame.
PublishEmpties ==
    /\ hub.item # Nothing
    /\ hub' = [hub EXCEPT !.sent = hub.item, !.item = Nothing, !.pending = Nothing]
    /\ UNCHANGED <<now, sweep, queue, agg, open, flushed, stored, stopping, faults, heard>>

\* publish_flush returns, or fails: the next flush is tried all the same.
Publish ==
    /\ hub.item # Nothing
    /\ hub' = [hub EXCEPT !.sent = hub.item, !.item = Nothing]
    /\ UNCHANGED <<now, sweep, queue, agg, open, flushed, stored, stopping, faults, heard>>

-----------------------------------------------------------------------------
Next ==
    \/ Clock \/ Emit \/ SweepStarts \/ SweepFails \/ SweepAnswers \/ SegmentSweep
    \/ Turn \/ Flush \/ Stop \/ Drain \/ FinalFlush \/ Take \/ Publish

Fairness == WF_vars(Take) /\ WF_vars(Publish)

Spec == Init /\ [][Next]_vars /\ Fairness

-----------------------------------------------------------------------------
(* Properties.                                                              *)

\* A socket's tick that was absorbed is in its open bucket, in its row (or the row
\* has moved on), unless the cap dropped it: failing flushes and retries lose nothing
\* (aggregator.py:275-297).
NothingLost ==
    \A b \in Buckets : heard[b] # Nothing =>
        \/ open[b].origin = "ws" /\ open[b].ts = heard[b]
        \/ stored[b].ts >= heard[b] \/ stored[b].origin = "poller"

\* A row is final once a later one is written, however late a sweep, a retry or a
\* backlog brings its ticks, and before that a known price is never erased
\* (aggregator.py:88-96, 266-268).
RowsSettle ==
    [][\A b \in Buckets :
         /\ (\E c \in Buckets : c > b /\ stored[c] # NoTick) => stored'[b] = stored[b]
         /\ stored[b].px => stored'[b].px]_vars

\* The newest flush is with the hub, on its way or next in the slot, whatever comes
\* while the worker publishes: the coalescing never drops it (feed_factory.py:350-356).
NewestIsPublished == flushed \in {hub.sent, hub.item, hub.pending}

\* "a REST-poller tick may never displace a live WS tick" (aggregator.py:185-189).
PollerNeverDisplaces ==
    [][\A b \in Buckets : stored[b].origin = "ws" => stored'[b].origin = "ws"]_vars

\* A graceful stop whose last flush goes through persists "everything including
\* the in-progress bucket" (aggregator.py:150-151).
StopPersists == agg.at = "done" /\ faults = 0 => \A b \in Buckets : open[b] = NoTick
===============================================================================

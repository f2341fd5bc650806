--------------------------- MODULE MCMarketSession ---------------------------
(***************************************************************************)
(* Two components whose properties are about safety alone: the logins of   *)
(* the market-data session, and the ticks on their way to a row.  view,    *)
(* which never changes, says which of them a behaviour is about; the other *)
(* stays where it starts.                                                  *)
(*                                                                         *)
(* MarketSession: the settings are scaled down; a request may take one     *)
(* tick, shorter than every interval, and the bounds leave time for a      *)
(* storm, its first probe and the next one, or for a session, a restart    *)
(* and the login that could kill it too early.  The view says what may go  *)
(* wrong: the process dies and a second client logs in ("stolen"); the     *)
(* broker's answer or the row of a session is lost ("lossy"), up to the    *)
(* second session, for a login the book does not hold is not in the burst  *)
(* budget either; the rows cannot be read at the boot ("unread"), up to    *)
(* the first session, for the floor is what that read restores and a later *)
(* login would break it.                                                   *)
(*                                                                         *)
(* TickStore ("ticks"): two buckets of two seconds and the start of a      *)
(* third, room for two open buckets and two queued ticks, one failure.     *)
(***************************************************************************)
EXTENDS MarketSession

\* Of TickStore.
CONSTANTS BucketLen, TickTime, QMax, MaxOpen, Kept, MaxFaults

VARIABLES view,
          sweep, queue, agg, open, flushed, stored, hub, stopping, faults, heard

Lossy == INSTANCE MarketSession WITH
    Faults <- {"answer", "insert", "crash"}, MaxMints <- 2, MaxTime <- 4
Unread == INSTANCE MarketSession WITH Faults <- {"seed"}, MaxMints <- 1, MaxTime <- 4

Ticks == INSTANCE TickStore WITH MaxTime <- TickTime

sessionVars == <<up, pc, call, procVars, rows, stolen, histVars>>
tickVars    == <<sweep, queue, agg, open, flushed, stored, hub, stopping, faults, heard>>

MCInit == view \in {"stolen", "lossy", "unread", "ticks"} /\ Init /\ Ticks!Init

MCNext ==
    /\ UNCHANGED view
    /\ \/ view = "stolen" /\ Next /\ UNCHANGED tickVars
       \/ view = "lossy" /\ Lossy!Next /\ UNCHANGED tickVars
       \/ view = "unread" /\ Unread!Next /\ UNCHANGED tickVars
       \/ view = "ticks" /\ Ticks!Next /\ UNCHANGED sessionVars

MCSpec == MCInit /\ [][MCNext]_<<view, vars, tickVars>>

NothingLost       == Ticks!NothingLost
NewestIsPublished == Ticks!NewestIsPublished
=============================================================================

---------------------------- MODULE ConfigControl ----------------------------
(***************************************************************************)
(* The algo's configuration and the orders that depend on it, as requests  *)
(* that overlap: the versioned store with its cached live document         *)
(* (algo/config_store.py), the save, restore, paper-reset and manual-entry *)
(* endpoints (api/algo_config.py, api/algo_trades.py), and the minute pass *)
(* of the orchestrator.  Every await of a handler is a step of its own;    *)
(* a cache hit does not suspend.  The session is open throughout.          *)
(*                                                                         *)
(* A document is four switches: kill (a kill switch that covers the        *)
(* trade), live (Paper Mode off), lock (Config Lock) and rest (all else).  *)
(***************************************************************************)
EXTENDS Integers, Sequences, FiniteSets

CONSTANTS
    Thrown,      \* bound: the switches that drafts throw
    TTL,         \* _CACHE_TTL_S, in ticks
    MaxVersions, \* bound: versions that are saved
    MaxRequests, \* bound: requests of the clients
    MaxFaults    \* bound: exits that do not go through

ASSUME BoundsAssumption ==
    /\ Thrown \subseteq {"kill", "live", "lock", "rest"}
    /\ {MaxRequests, MaxFaults} \subseteq Nat
    /\ {TTL, MaxVersions} \subseteq Nat \ {0}

VARIABLES
    db,    \* algo_config_versions: the document, the version its draft was made from (0: none),
           \* and the time since its save returned
    cache, \* _cached and the time since _cached_at; v = 0: none
    pc,    \* what each task is about, and the read its get_live has under way
    lock,  \* _pass_lock: its holder
    trade, \* the position, and whether it is the broker's
    asked, \* requests so far
    faults

vars == <<db, cache, pc, lock, trade, asked, faults>>

Clients == {"admin", "editor"}
Actors == Clients \cup {"engine"}
Switches == {"kill", "live", "lock", "rest"}
Docs == [Switches -> BOOLEAN]
Default == [s \in Switches |-> FALSE]
Flip(doc, s) == [doc EXCEPT ![s] = ~@]

Idle == [at |-> "idle", doc |-> Default, base |-> 0, seen |-> 0, read |-> -1, age |-> 0,
         confirmed |-> FALSE]
At(stage) == [Idle EXCEPT !.at = stage]
NoTrade == [open |-> FALSE, live |-> FALSE]
Late == TTL + 1
Older(age) == IF age < Late THEN age + 1 ELSE age
Last == db[Len(db)].doc

\* The stages that call get_live.
Wanting == {"enforce", "previous", "stamp", "test", "order", "square", "pass"}
Stages == Wanting \cup {"idle", "check", "insert", "ack", "exit", "wait", "delete", "queue",
                        "fill", "row"}

Versions == [doc : Docs, base : Nat, back : -1 .. Late]
Tasks == [at : Stages, doc : Docs, base : Nat, seen : Nat, read : Nat \cup {-1},
          age : 0 .. Late, confirmed : BOOLEAN]

TypeOK ==
    /\ db \in Seq(Versions)
    /\ cache \in [v : 0 .. Len(db), age : 0 .. Late]
    /\ pc \in [Actors -> Tasks]
    /\ \A a \in Actors : pc[a].read <= Len(db)
    /\ lock \in Actors \cup {"free"}
    /\ lock # "free" => pc[lock].at \in {"order", "square", "pass", "fill", "row"}
    /\ trade \in [open : BOOLEAN, live : BOOLEAN]
    /\ asked \in 0 .. MaxRequests /\ faults \in 0 .. MaxFaults

\* A virgin database, or one that has been seeded.
Init ==
    /\ db \in {<<>>, << [doc |-> Default, base |-> 0, back |-> Late] >>}
    /\ cache = [v |-> 0, age |-> 0]
    /\ pc = [a \in Actors |-> Idle] /\ lock = "free" /\ trade = NoTrade
    /\ asked = 0 /\ faults = 0

-----------------------------------------------------------------------------
(* The store's reads.                                                       *)

\* Mutant of Fresh: only a save invalidates the cache.
FreshForever == cache.v # 0

Fresh == cache.v # 0 /\ cache.age < TTL

Goes(a, record) == pc' = [pc EXCEPT ![a] = record]
To(a, stage) == [pc[a] EXCEPT !.at = stage, !.read = -1, !.age = 0]

\* The save's comparison of versions comes before its get_live.
Conflicts(a) == pc[a].at = "previous" /\ pc[a].base # 0 /\ pc[a].seen # pc[a].base

\* get_live, a miss: the time is taken, then the live row is read.
Ask(a) ==
    /\ pc[a].at \in Wanting /\ pc[a].read = -1 /\ ~Fresh /\ ~Conflicts(a)
    /\ pc[a].at = "order" => ~trade.open
    /\ pc[a].at = "square" => trade.open
    /\ Goes(a, [pc[a] EXCEPT !.read = Len(db), !.age = 0])
    /\ UNCHANGED <<db, cache, lock, trade, asked, faults>>

\* _seed_default, when there was no row.
Seed(a) ==
    /\ pc[a].read = 0
    /\ db' = Append(db, [doc |-> Default, base |-> 0, back |-> 0])
    /\ Goes(a, [pc[a] EXCEPT !.read = Len(db'), !.age = 0])
    /\ UNCHANGED <<cache, lock, trade, asked, faults>>

\* Mutant of Filled: the cache is as old as the moment it is filled.
FilledNow(a) == [v |-> pc[a].read, age |-> 0]

Filled(a) == [v |-> pc[a].read, age |-> pc[a].age]

\* get_live returns version v: a hit, or the row that was read, which fills the cache.
Gets(a, v) ==
    \/ pc[a].read = -1 /\ Fresh /\ v = cache.v /\ UNCHANGED cache
    \/ pc[a].read > 0 /\ v = pc[a].read /\ cache' = Filled(a)

-----------------------------------------------------------------------------
(* Saves and restores.                                                      *)

Asks(a) == pc[a].at = "idle" /\ asked < MaxRequests /\ asked' = asked + 1
Room == Len(db) < MaxVersions

\* A draft is made from a version its client has seen, with one switch thrown.
Save(a) ==
    /\ Asks(a) /\ Room
    /\ \E b \in 1 .. Len(db), s \in Thrown :
         Goes(a, [Idle EXCEPT !.doc = Flip(db[b].doc, s), !.base = b,
                              !.at = IF a = "editor" THEN "enforce" ELSE "check"])
    /\ UNCHANGED <<db, cache, lock, trade, faults>>

Restore(a) ==
    /\ Asks(a) /\ Room
    /\ \E v \in 1 .. Len(db) :
         Goes(a, [Idle EXCEPT !.doc = db[v].doc,
                              !.at = IF a = "editor" THEN "enforce" ELSE "previous"])
    /\ UNCHANGED <<db, cache, lock, trade, faults>>

\* _enforce_kill_authority
Enforce(a) ==
    /\ pc[a].at = "enforce"
    /\ \E v \in 1 .. Len(db) :
         /\ Gets(a, v)
         /\ IF \E s \in {"kill", "live"} : pc[a].doc[s] # db[v].doc[s]
            THEN Goes(a, Idle)
            ELSE Goes(a, To(a, IF pc[a].base = 0 THEN "previous" ELSE "check"))
    /\ UNCHANGED <<db, lock, trade, asked, faults>>

\* _live_version_now
Check(a) ==
    /\ pc[a].at = "check"
    /\ Goes(a, [To(a, "previous") EXCEPT !.seen = Len(db)])
    /\ UNCHANGED <<db, cache, lock, trade, asked, faults>>

Refused(a) ==
    /\ Conflicts(a) /\ Goes(a, Idle)
    /\ UNCHANGED <<db, cache, lock, trade, asked, faults>>

\* save: what is live decides whether the Config Lock refuses.
Previous(a) ==
    /\ pc[a].at = "previous" /\ ~Conflicts(a)
    /\ \E v \in 1 .. Len(db) :
         /\ Gets(a, v)
         /\ Goes(a, IF /\ db[v].doc["lock"]
                       /\ \E s \in Switches \ {"lock"} : pc[a].doc[s] # db[v].doc[s]
                    THEN Idle ELSE [To(a, "insert") EXCEPT !.seen = 0])
    /\ UNCHANGED <<db, lock, trade, asked, faults>>

Insert(a) ==
    /\ pc[a].at = "insert"
    /\ db' = Append(db, [doc |-> pc[a].doc, base |-> pc[a].base, back |-> -1])
    /\ Goes(a, [At("ack") EXCEPT !.seen = Len(db'), !.confirmed = pc[a].confirmed])
    /\ UNCHANGED <<cache, lock, trade, asked, faults>>

\* The commit has returned: the cache is set, and the save goes on to its kill exit; a
\* paper reset ends here.
Ack(a) ==
    /\ pc[a].at = "ack"
    /\ cache' = [v |-> pc[a].seen, age |-> 0]
    /\ db' = [db EXCEPT ![pc[a].seen].back = 0]
    /\ Goes(a, IF pc[a].confirmed THEN Idle ELSE At("exit"))
    /\ UNCHANGED <<lock, trade, asked, faults>>

-----------------------------------------------------------------------------
(* The kill exit of a save, and the minute pass.                            *)

\* _kill_exit_now: nothing to do without a position; else it waits for the pass lock.
Exit(a) ==
    /\ pc[a].at = "exit"
    /\ Goes(a, IF trade.open THEN At("wait") ELSE Idle)
    /\ UNCHANGED <<db, cache, lock, trade, asked, faults>>

Take(a, from, to) ==
    /\ pc[a].at = from /\ lock = "free" /\ lock' = a /\ Goes(a, To(a, to))
    /\ UNCHANGED <<db, cache, trade, asked, faults>>

Release(a) == lock' = "free" /\ Goes(a, Idle)

\* An exit that is sent goes through, or fails and leaves the position.
Sells ==
    \/ trade' = NoTrade /\ UNCHANGED faults
    \/ faults < MaxFaults /\ faults' = faults + 1 /\ UNCHANGED trade

\* kill_square_off: exits when a kill of the live document covers the position.
Square(a) ==
    /\ pc[a].at = "square" /\ Release(a)
    /\ \/ ~trade.open /\ pc[a].read = -1 /\ UNCHANGED <<cache, trade, faults>>
       \/ /\ trade.open
          /\ \E v \in 1 .. Len(db) :
               /\ Gets(a, v)
               /\ IF db[v].doc["kill"] THEN Sells ELSE UNCHANGED <<trade, faults>>
    /\ UNCHANGED <<db, asked>>

\* The minute of an open position: a kill exits it, and so may its own rules.
Managed(doc) ==
    IF doc["kill"] THEN Sells
    ELSE UNCHANGED faults /\ trade' \in {trade, NoTrade}

\* A pass whose exit has closed the position goes on to the entry, like one without.
Pass ==
    /\ pc["engine"].at = "pass"
    /\ \E v \in 1 .. Len(db) :
         /\ Gets("engine", v)
         /\ LET doc == db[v].doc
            IN  \/ trade.open /\ Managed(doc) /\ Release("engine")
                \/ ~trade.open /\ Release("engine") /\ UNCHANGED <<trade, faults>>
                \/ /\ ~doc["kill"] /\ trade' = NoTrade
                   /\ Goes("engine", [To("engine", "fill") EXCEPT !.doc = doc])
                   /\ UNCHANGED <<lock, faults>>
    /\ UNCHANGED <<db, asked>>

-----------------------------------------------------------------------------
(* The paper reset and the manual test entry, which are the admin's.        *)

Reset(a) ==
    /\ a = "admin" /\ Asks(a) /\ Room
    /\ ~(trade.open /\ ~trade.live)
    /\ Goes(a, [Idle EXCEPT !.at = "delete", !.confirmed = TRUE])
    /\ UNCHANGED <<db, cache, lock, trade, faults>>

\* reset_paper_ledger: the paper rows go, of which no document tells.
Delete(a) ==
    /\ pc[a].at = "delete" /\ Goes(a, To(a, "stamp"))
    /\ UNCHANGED <<db, cache, lock, trade, asked, faults>>

\* The new session's date goes into a copy of the live document.
Stamp(a) ==
    /\ pc[a].at = "stamp"
    /\ \E v \in 1 .. Len(db) :
         /\ Gets(a, v)
         /\ Goes(a, [To(a, "previous") EXCEPT !.doc = Flip(db[v].doc, "rest")])
    /\ UNCHANGED <<db, lock, trade, asked, faults>>

TestEntry(a) ==
    /\ a = "admin" /\ Asks(a)
    /\ \E confirm \in BOOLEAN : Goes(a, [Idle EXCEPT !.at = "test", !.confirmed = confirm])
    /\ UNCHANGED <<db, cache, lock, trade, faults>>

\* manual_test_entry of the endpoint: a real order asks for a confirmation.
Test(a) ==
    /\ pc[a].at = "test"
    /\ \E v \in 1 .. Len(db) :
         /\ Gets(a, v)
         /\ Goes(a, IF db[v].doc["live"] /\ ~pc[a].confirmed THEN Idle ELSE To(a, "queue"))
    /\ UNCHANGED <<db, lock, trade, asked, faults>>

\* manual_test_entry of the orchestrator, under the lock: the document is read again.
Order(a) ==
    /\ pc[a].at = "order"
    /\ \/ /\ trade.open /\ pc[a].read = -1 /\ Release(a) /\ UNCHANGED cache
       \/ /\ ~trade.open
          /\ \E v \in 1 .. Len(db) :
               Gets(a, v) /\ Goes(a, [To(a, "fill") EXCEPT !.doc = db[v].doc])
          /\ UNCHANGED lock
    /\ UNCHANGED <<db, trade, asked, faults>>

\* The entry is filled, and the position is under management before its row is awaited;
\* or it is refused.
Fill(a) ==
    /\ pc[a].at = "fill"
    /\ \/ /\ trade' = [open |-> TRUE, live |-> pc[a].doc["live"]]
          /\ Goes(a, At("row")) /\ UNCHANGED lock
       \/ Release(a) /\ UNCHANGED trade
    /\ UNCHANGED <<db, cache, asked, faults>>

Row(a) ==
    /\ pc[a].at = "row" /\ Release(a)
    /\ UNCHANGED <<db, cache, trade, asked, faults>>

-----------------------------------------------------------------------------
\* A commit returns within a tick; a read may take longer.
Tick ==
    /\ \A a \in Actors : pc[a].at # "ack"
    /\ cache' = [cache EXCEPT !.age = Older(@)]
    /\ db' = [v \in DOMAIN db |-> [db[v] EXCEPT !.back = IF @ = -1 THEN @ ELSE Older(@)]]
    /\ pc' = [a \in Actors |-> [pc[a] EXCEPT !.age = IF pc[a].read = -1 THEN @ ELSE Older(@)]]
    /\ UNCHANGED <<lock, trade, asked, faults>>

Requests(a) == Save(a) \/ Restore(a) \/ Reset(a) \/ TestEntry(a)

\* The steps a handler takes without waiting for the lock.
Handles(a) ==
    \/ Ask(a) \/ Seed(a)
    \/ Enforce(a) \/ Check(a) \/ Refused(a) \/ Previous(a) \/ Insert(a) \/ Ack(a)
    \/ Exit(a) \/ Square(a) \/ Delete(a) \/ Stamp(a) \/ Test(a) \/ Order(a)
    \/ Fill(a) \/ Row(a)

Waits(a) == Take(a, "wait", "square") \/ Take(a, "queue", "order")
Minute == Take("engine", "idle", "pass")

Next ==
    \/ \E a \in Clients : Requests(a) \/ Waits(a)
    \/ \E a \in Actors : Handles(a)
    \/ Minute \/ Pass \/ Tick

\* Every handler goes on, the minute pass comes again, and time passes.
Fairness ==
    /\ \A a \in Actors : WF_vars(Handles(a))
    /\ WF_vars(Pass) /\ SF_vars(Minute) /\ WF_vars(Tick)

Spec == Init /\ [][Next]_vars /\ Fairness

-----------------------------------------------------------------------------
(* Properties.                                                              *)

\* Whatever reads and saves overlap, get_live never serves a document that was replaced by
\* a save that returned longer ago than the TTL (get_live stamps its cache with the time
\* before its read; a save stamps it when it returns).
StaleAtMostTTL ==
    Fresh => \A v \in cache.v + 1 .. Len(db) : db[v].back < TTL

\* A kill switch that stays on ends flat, even if its own exit found no position yet, read
\* a stale document or failed (the minute pass is the backstop of _kill_exit_now).
KilledEndsFlat == <>[](db # <<>> /\ Last["kill"] => ~trade.open)

\* A draft replaces the very version it was made from: base_version is refused when the
\* live version has moved on.  It is not so: it is compared before the insert's
\* transaction, and every await in between lets another save in.
DraftReplacesItsBase == \A v \in DOMAIN db : db[v].base # 0 => v = db[v].base + 1
=============================================================================

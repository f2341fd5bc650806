--------------------------- MODULE TdSubscriptions ---------------------------
(***************************************************************************)
(* What the TrueData socket is subscribed to: the slot allocator           *)
(* (backend/app/ingest/subscription_budget.py), the swaps, the pinned      *)
(* chains and the reconciliation of the feed client                        *)
(* (ingest/truedata_feed.py), and the vendor behind the wire.              *)
(*                                                                         *)
(* A slot is a chain's reference instrument, <<c, 0>>, or a contract,      *)
(* <<c, k>>, its strike k counted in steps.  Three tasks reconcile: the    *)
(* connection's own replay, a symbol switch, the pinned watcher.           *)
(***************************************************************************)
EXTENDS Integers, SequencesExt

CONSTANTS
    Chains,      \* the symbols that may be viewed
    Trading,     \* TRUEDATA_PINNED_SYMBOLS
    Spots,       \* where an index may stand, in strike steps
    Window,      \* strikes on each side of the money
    MaxSymbols,  \* what the login reply declares, and the vendor enforces
    Margin,      \* TRUEDATA_BUDGET_SAFETY_MARGIN
    LateAcks,    \* may an acknowledgement be parsed after the teardown's reset?
    MaxSwitches, \* bound: symbol switches and moves of an index
    MaxDrops     \* bound: connections lost

Assumptions ==
    /\ Trading \subseteq Chains /\ Spots \subseteq Nat \ {0}
    /\ {Window, MaxSymbols, Margin, MaxSwitches, MaxDrops} \subseteq Nat
    /\ LateAcks \in BOOLEAN

VARIABLES
    active,     \* _active_symbol
    chosen,     \* _active_tokens: whose contracts, and centred where (0: none)
    pinned,     \* _pinned_tokens and _pinned_centre: None, or the centre
    spot,       \* _spot_by_symbol
    desired,    \* _budget._desired
    live,       \* _budget._live
    capacity,   \* _budget._capacity, 0 before the first login
    link,       \* _connected, and whether _ws is there
    task,       \* where each task stands
    job,        \* what the holder of _reconcile_lock is sending
    wire,       \* requests on their way to the vendor
    acks,       \* symbollist replies on their way back
    subs,       \* the vendor: what the connection is subscribed to
    refused,    \* the vendor has answered "symbol limit reached"
    switches, drops

vars == <<active, chosen, pinned, spot, desired, live, capacity, link, task, job, wire, acks,
          subs, refused, switches, drops>>

Tasks == {"replay", "switch", "watch"}
None == -1
Contracts(c, centre) ==
    IF centre = 0 THEN {} ELSE {<<c, k>> : k \in (centre - Window) .. (centre + Window)}
Reference(c) == <<c, 0>>
AllSlots == {Reference(c) : c \in Chains}
            \cup UNION {Contracts(c, s) : c \in Chains, s \in Spots}
\* set_capacity: nothing held back below zero, and a capacity of zero limits nothing.
Usable == IF MaxSymbols > Margin THEN MaxSymbols - Margin ELSE 0
NoJob == [of |-> "none", rem |-> {}, add |-> {}]

TypeOK ==
    /\ active \in Chains
    /\ chosen \in [of : Chains, centre : Spots \cup {0}]
    /\ pinned \in [Trading -> Spots \cup {None, 0}]
    /\ spot \in [Chains -> Spots \cup {0}]
    /\ desired \subseteq AllSlots /\ live \subseteq AllSlots /\ subs \subseteq AllSlots
    /\ capacity \in {0, Usable}
    /\ link.connected /\ task["replay"] = "idle" /\ capacity > 0 =>
         Cardinality(desired) <= capacity
    /\ link \in [connected : BOOLEAN, ws : BOOLEAN]
    /\ task \in [Tasks -> {"idle", "provide", "refresh", "lock", "send"}]
    /\ job \in [of : Tasks \cup {"none"}, rem : SUBSET AllSlots, add : SUBSET AllSlots]
    /\ job.of = "none" <=> \A t \in Tasks : task[t] # "send"
    /\ wire \in Seq([add : BOOLEAN, slots : SUBSET AllSlots])
    /\ acks \in Seq(SUBSET AllSlots)
    /\ refused \in BOOLEAN
    /\ switches \in 0 .. MaxSwitches /\ drops \in 0 .. MaxDrops

Init ==
    /\ active \in Chains \ Trading
    /\ chosen = [of |-> active, centre |-> 0]
    /\ pinned = [c \in Trading |-> None] /\ spot = [c \in Chains |-> 0]
    /\ desired = {} /\ live = {} /\ subs = {} /\ capacity = 0
    /\ link = [connected |-> FALSE, ws |-> FALSE]
    /\ task = [t \in Tasks |-> "idle"] /\ job = NoJob
    /\ wire = <<>> /\ acks = <<>> /\ refused = FALSE
    /\ switches = 0 /\ drops = 0

At(t, place) == task' = [task EXCEPT ![t] = place]

-----------------------------------------------------------------------------
(* The allocator.                                                           *)

\* Strikes from the money; with no spot every strike ranks alike.
Rank(slot) ==
    LET s == spot[slot[1]]
    IN  IF s = 0 THEN 0 ELSE IF slot[2] > s THEN slot[2] - s ELSE s - slot[2]

\* The innermost n of a group that is too large: a choice only between equal ranks.
Innermost(S, n) ==
    IF Cardinality(S) <= n THEN {S}
    ELSE {T \in SUBSET S : /\ Cardinality(T) = n
                           /\ \A x \in T, y \in S \ T : Rank(x) <= Rank(y)}

\* Mutant of Elastic: the viewed chain ranks with the trading ones.
NeverElastic(c) == FALSE

\* A chain that is only viewed takes what the trading ones leave.
Elastic(c) == Trading # {} /\ c \notin Trading

Pinned == {c \in Trading : pinned[c] # None /\ c # active}

\* _slots_for, by priority: 0 the references, 1 the trading chains, 2 the viewed one.
Wish(priority) ==
    CASE priority = 0 -> {Reference(c) : c \in {active} \cup Pinned}
      [] priority = 1 -> (IF Elastic(active) THEN {} ELSE Contracts(chosen.of, chosen.centre))
                         \cup UNION {Contracts(c, pinned[c]) : c \in Pinned}
      [] priority = 2 -> IF Elastic(active) THEN Contracts(chosen.of, chosen.centre) ELSE {}

\* What is left of the capacity once S is taken.
Room(S) == IF capacity > Cardinality(S) THEN capacity - Cardinality(S) ELSE 0

\* _allocate: the sets that plan may make of the wishes.
Plans ==
    IF capacity = 0 THEN {Wish(0) \cup Wish(1) \cup Wish(2)}
    ELSE UNION {UNION {{x \cup y \cup z : z \in Innermost(Wish(2), Room(x \cup y))} :
                       y \in Innermost(Wish(1), Room(x))} :
                x \in Innermost(Wish(0), capacity)}

-----------------------------------------------------------------------------
(* The connection.                                                          *)

\* A login: the ceiling is adopted, and _resubscribe_all begins.
Connects ==
    /\ ~link.connected /\ ~link.ws /\ task["replay"] = "idle"
    /\ LateAcks \/ acks = <<>>
    /\ link' = [connected |-> TRUE, ws |-> TRUE]
    /\ capacity' = Usable
    /\ At("replay", "provide")
    /\ UNCHANGED <<active, chosen, pinned, spot, desired, live, job, wire, acks, subs, refused,
                   switches, drops>>

\* The socket dies, or a nudge drops it: what was on the wire is gone.
Drops ==
    /\ link.connected /\ drops < MaxDrops /\ drops' = drops + 1
    /\ link' = [link EXCEPT !.connected = FALSE]
    /\ wire' = <<>> /\ subs' = {}
    /\ UNCHANGED <<active, chosen, pinned, spot, desired, live, capacity, task, job, acks,
                   refused, switches>>

\* Mutant of Forgets: the acknowledgements outlive the connection.
Remembers == live

\* reset_live
Forgets == {}

\* The supervisor, out of its hold loop: _teardown.
Teardown ==
    /\ link.ws /\ ~link.connected /\ task["replay"] = "idle"
    /\ LateAcks \/ acks = <<>>
    /\ link' = [link EXCEPT !.ws = FALSE]
    /\ live' = Forgets
    /\ UNCHANGED <<active, chosen, pinned, spot, desired, capacity, task, job, wire, acks, subs,
                   refused, switches, drops>>

\* _on_symbollist: a contract that is still desired is live; a reference is bound to
\* its id and never counted.
Acknowledged(S) == {s \in S : s \in desired /\ s[2] # 0}

Parse ==
    /\ acks # <<>> /\ acks' = Tail(acks)
    /\ live' = live \cup Acknowledged(Head(acks))
    /\ UNCHANGED <<active, chosen, pinned, spot, desired, capacity, link, task, job, wire, subs,
                   refused, switches, drops>>

\* The vendor: an addition over the ceiling is refused.
Serve ==
    /\ wire # <<>> /\ wire' = Tail(wire)
    /\ LET m == Head(wire)
           fits == Cardinality(subs \cup m.slots) <= MaxSymbols
       IN  CASE ~m.add -> subs' = subs \ m.slots /\ UNCHANGED <<acks, refused>>
             [] m.add /\ fits -> /\ subs' = subs \cup m.slots /\ acks' = Append(acks, m.slots)
                                 /\ UNCHANGED refused
             [] m.add /\ ~fits -> refused' = TRUE /\ UNCHANGED <<subs, acks>>
    /\ UNCHANGED <<active, chosen, pinned, spot, desired, live, capacity, link, task, job,
                   switches, drops>>

\* An index moves, seen while its reference is subscribed.
SpotMoves ==
    /\ switches < MaxSwitches /\ switches' = switches + 1
    /\ \E c \in Chains, s \in Spots :
         Reference(c) \in subs /\ spot[c] # s /\ spot' = [spot EXCEPT ![c] = s]
    /\ UNCHANGED <<active, chosen, pinned, desired, live, capacity, link, task, job, wire, acks,
                   subs, refused, drops>>

-----------------------------------------------------------------------------
(* The three tasks.                                                         *)

\* swap_subscription, up to its first await.
Swap(t, c, tokens, s) ==
    /\ active' = c /\ chosen' = tokens
    /\ spot' = [spot EXCEPT ![c] = IF s = 0 THEN @ ELSE s]
    /\ At(t, "refresh")

\* The provider answers for the dashboard's symbol, at a spot of its own; the swap is
\* told the client's symbol of now.  Nothing resolved drops the connection.
Provided ==
    /\ task["replay"] = "provide"
    /\ \/ /\ \E s \in Spots : Swap("replay", active, [of |-> active, centre |-> s], s)
          /\ UNCHANGED <<link, wire, subs, drops>>
       \/ /\ drops < MaxDrops /\ drops' = drops + 1
          /\ link' = [link EXCEPT !.connected = FALSE] /\ wire' = <<>> /\ subs' = {}
          /\ At("replay", "idle") /\ UNCHANGED <<active, chosen, spot>>
    /\ UNCHANGED <<pinned, desired, live, capacity, job, acks, refused, switches>>

\* The symbol controller switches the dashboard or re-centres its chain.
Switches ==
    /\ task["switch"] = "idle" /\ switches < MaxSwitches /\ switches' = switches + 1
    /\ \E c \in Chains, s \in Spots : Swap("switch", c, [of |-> c, centre |-> s], s)
    /\ UNCHANGED <<pinned, desired, live, capacity, link, job, wire, acks, subs, refused, drops>>

\* _pinned_watch wakes up.
Watches ==
    /\ task["watch"] = "idle" /\ link.connected
    /\ \E c \in Trading \ {active} : pinned[c] = None \/ (spot[c] # 0 /\ spot[c] # pinned[c])
    /\ At("watch", "refresh")
    /\ UNCHANGED <<active, chosen, pinned, spot, desired, live, capacity, link, job, wire, acks,
                   subs, refused, switches, drops>>

\* _refresh_pinned: the active chain is not also pinned; the others are centred on
\* their own spot, or hold their reference alone until one is known.
Refreshed ==
    [c \in Trading |-> IF c = active THEN None
                       ELSE IF spot[c] # 0 THEN spot[c]
                       ELSE IF pinned[c] = None THEN 0 ELSE pinned[c]]

\* Resolving a chain may fail: the pinned one stays as it was.
Refresh(t) ==
    /\ task[t] = "refresh"
    /\ pinned' \in {Refreshed, [c \in Trading |-> IF c = active THEN None ELSE pinned[c]]}
    /\ At(t, IF t = "watch" /\ pinned' = pinned THEN "idle" ELSE "lock")
    /\ UNCHANGED <<active, chosen, spot, desired, live, capacity, link, job, wire, acks, subs,
                   refused, switches, drops>>

Send(add, slots) ==
    IF slots = {} \/ ~link.ws \/ ~link.connected THEN wire
    ELSE Append(wire, [add |-> add, slots |-> slots])

\* _reconcile_locked, up to the first send: plan, and the difference to what is live.
Reconcile(t) ==
    /\ task[t] = "lock" /\ job.of = "none"
    /\ \E plan \in Plans :
         /\ desired' = plan
         /\ IF link.connected
            THEN /\ job' = [of |-> t, rem |-> live \ plan, add |-> plan \ live]
                 /\ wire' = Send(FALSE, live \ plan)
                 /\ At(t, "send")
            ELSE UNCHANGED <<job, wire>> /\ At(t, "idle")
    /\ UNCHANGED <<active, chosen, pinned, spot, live, capacity, link, acks, subs, refused,
                   switches, drops>>

\* The removal is out: mark_dropped, then the additions, on the socket of now; the
\* lock is released.
SendsAdditions(t) ==
    /\ task[t] = "send"
    /\ live' = live \ job.rem
    /\ wire' = Send(TRUE, job.add)
    /\ job' = NoJob /\ At(t, "idle")
    /\ UNCHANGED <<active, chosen, pinned, spot, desired, capacity, link, acks, subs, refused,
                   switches, drops>>

Steps(t) == Refresh(t) \/ Reconcile(t) \/ SendsAdditions(t)

Next ==
    \/ Connects \/ Drops \/ Teardown \/ Parse \/ Serve \/ SpotMoves
    \/ Provided \/ Switches \/ Watches \/ \E t \in Tasks : Steps(t)

Spec == Init /\ [][Next]_vars

-----------------------------------------------------------------------------
\* truedata_feed.py:941-951: a trading chain never starves for a chain that is only
\* viewed, and no wing is amputated for the other.
SqueezeIsFair ==
    LET shed == (Wish(0) \cup Wish(1) \cup Wish(2)) \ desired
        planned == capacity > 0 /\ desired \in Plans
    IN  planned =>
          /\ \A x \in shed, y \in desired : y[1] \notin Trading /\ y[2] # 0 => x[1] \notin Trading
          /\ \A x \in shed, y \in desired :
               x[1] = y[1] /\ x[2] # 0 /\ y[2] # 0 => Rank(y) <= Rank(x)

\* Whenever every task is idle and nothing is on the wire, the socket carries the whole
\* plan and the reference of the dashboard's chain: no drop, switch, replay or re-centring
\* in between leaves a contract planned and unsubscribed until somebody switches again.
Quiet == link.connected /\ wire = <<>> /\ acks = <<>> /\ \A t \in Tasks : task[t] = "idle"
PlanIsCarried == Quiet => desired \subseteq subs /\ Reference(active) \in desired

\* truedata_feed.py:555: the budget never asks for more than maxsymbols.
LimitNeverReached == ~refused
=============================================================================

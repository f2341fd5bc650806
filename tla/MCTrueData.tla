----------------------------- MODULE MCTrueData -----------------------------
(***************************************************************************)
(* TrueDataRecovery under its fairness, and beside it TdSubscriptions,     *)
(* whose properties need none: side, which never changes, says which of    *)
(* the two a behaviour is about, and the other one stays where it starts.  *)
(* The wedge is at two rejections, and two faults of any kind may strike.  *)
(* There are two trading chains and one that is only viewed, one strike    *)
(* on each side of the money.                                              *)
(***************************************************************************)
EXTENDS TrueDataRecovery

\* Of TdSubscriptions.
CONSTANTS Chains, Trading, Spots, Window, MaxSymbols, Margin, LateAcks, MaxSwitches, MaxDrops

VARIABLES side, active, chosen, pinned, spot, desired, live, capacity, link, task, job,
          wire, acks, subs, refused, switches, drops

Subs == INSTANCE TdSubscriptions

ASSUME SubscriptionsAssumption == Subs!Assumptions

subsVars == <<active, chosen, pinned, spot, desired, live, capacity, link, task, job, wire,
              acks, subs, refused, switches, drops>>

AllFaults == {"line", "network", "mute", "raise", "logout", "ask", "build", "crash",
              "deploy", "bootcut"}

MCInit ==
    /\ Init /\ Subs!Init
    /\ \/ side = "recovery"
       \/ side = "subscriptions" /\ vendor = "free" /\ warm

MCNext ==
    /\ UNCHANGED side
    /\ \/ side = "recovery" /\ Next /\ UNCHANGED subsVars
       \/ side = "subscriptions" /\ Subs!Next /\ UNCHANGED vars

MCSpec == MCInit /\ [][MCNext]_<<side, vars, subsVars>> /\ Fairness

SqueezeIsFair == Subs!SqueezeIsFair
PlanIsCarried == Subs!PlanIsCarried
=============================================================================

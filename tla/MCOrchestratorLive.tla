------------------------- MODULE MCOrchestratorLive -------------------------
(***************************************************************************)
(* The trade lifecycle under the fairness of the lock, the market and the  *)
(* broker, with shadow mode off and on: shadow, which never changes.  Its  *)
(* twins put two ledger writes more between an exit and its end.           *)
(***************************************************************************)
EXTENDS Orchestrator

VARIABLE shadow

Twins == INSTANCE Orchestrator WITH Shadow <- TRUE, MaxRows <- 2, Kills <- {FALSE}

MCInit ==
    \/ shadow = FALSE /\ Init
    \/ shadow = TRUE /\ Twins!Init

MCNext ==
    /\ UNCHANGED shadow
    /\ \/ ~shadow /\ Next
       \/ shadow /\ Twins!Next

\* The fairness of LiveSpec, in either mode.
Either(alone, twinned) == (~shadow /\ alone) \/ (shadow /\ twinned)

MCSpec ==
    /\ MCInit /\ [][MCNext]_<<shadow, vars>>
    /\ WF_vars(Either(InOperation, Twins!InOperation))
    /\ SF_vars(Either(StartPass, Twins!StartPass))
    /\ SF_vars(Either(KillSquareOff, Twins!KillSquareOff))
    /\ SF_vars(Either(PricedMinute, Twins!PricedMinute))
    /\ WF_vars(OrderEnds) /\ SF_vars(SellExecutes)
=============================================================================

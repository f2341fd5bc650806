---------------------------- MODULE MCMarketData ----------------------------
(***************************************************************************)
(* GapFill and SymbolSwitch in one run: side, which never changes, says    *)
(* which of the two a behaviour is about.  The other one is parked: at a   *)
(* place no action starts from, so the fairness of both can be asked for   *)
(* at once.  (They share the name faults and nothing else.)                *)
(***************************************************************************)
EXTENDS GapFill

CONSTANTS Symbols, None, MaxAsks, Cycles

VARIABLES side, rt, feed, prov, broker, wait, body, watch, asks, wanted, met, clean

Switch == INSTANCE SymbolSwitch

ASSUME SwitchAssumption == Switch!Assumptions

gapVars    == <<clock, up, store, loop, job, pull>>
switchVars == <<rt, feed, prov, broker, wait, body, watch, asks, wanted, met, clean>>

GapParked ==
    /\ clock = LastInstant /\ up = FALSE /\ event = FALSE /\ deferred = 0 /\ done = 0
    /\ live = [d \in Day |-> [m \in Minutes |-> "live"]] /\ arch = live
    /\ ledger = [u \in Units |-> "none"] /\ index = Stats /\ last = [day |-> 1, min |-> 0]
    /\ todo = {} /\ job = [Idle EXCEPT !.at = "parked"] /\ pull = NoPull

SwitchParked ==
    \E s \in {CHOOSE s \in Symbols : TRUE} :
        /\ rt = [active |-> s, tokens |-> None, spot |-> None, gen |-> 1]
        /\ feed = [Switch!Client(s) EXCEPT !.at = "parked"]
        /\ prov = Switch!NoConnect /\ broker = {}
        /\ wait = [c \in {"user", "watch"} |-> None] /\ body = Switch!NoSwitch
        /\ watch = FALSE /\ asks = 0 /\ wanted = s /\ met = FALSE /\ clean = TRUE

MCInit ==
    \/ side = "gap" /\ Init /\ SwitchParked
    \/ side = "switch" /\ Switch!Init /\ GapParked

MCNext ==
    /\ UNCHANGED side
    /\ \/ side = "gap" /\ Next /\ UNCHANGED switchVars
       \/ side = "switch" /\ Switch!Next /\ UNCHANGED gapVars

MCSpec ==
    /\ MCInit /\ [][MCNext]_<<side, gapVars, switchVars, faults>>
    /\ Fairness /\ Switch!Fairness

CleanSwitchAgrees == Switch!CleanSwitchAgrees
ChainFollows      == Switch!ChainFollows
=============================================================================

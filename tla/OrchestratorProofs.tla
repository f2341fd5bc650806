------------------------- MODULE OrchestratorProofs -------------------------
(***************************************************************************)
(* Proofs about the two components of MCOrchestrator, each under its own   *)
(* specification; they share no state.                                     *)
(*                                                                         *)
(* Orchestrator, for any ledger size, loss limit and set of kill switches, *)
(* with shadow mode on or off.  The faults allowed are a failing ledger    *)
(* and restarts between two operations; the runs with the other faults     *)
(* show what each of them breaks.  The last part is about the loss streak. *)
(*                                                                         *)
(* UmpEngine (instance Ump), for any prices, any levels a build may yield  *)
(* and any length of a candle: its types, that the candle of an exit takes *)
(* no other trade, that the trail is earned and never missed, and that no  *)
(* close below base is lost.                                               *)
(***************************************************************************)
EXTENDS MCOrchestrator, FiniteSetTheorems, WellFoundedInduction, TLAPS

FaultsAllowed == Faults \subseteq {"db", "restart"}

-----------------------------------------------------------------------------
(* The inductive invariant *)

\* Where the holder of the lock stands tells what it manages and whether an
\* order of its own is under way.
Stages ==
    /\ boot # "running" => pc = "free" /\ pos = NoPosition
    /\ pc \in {"buy", "recount", "hunt"} => pos = NoPosition
    /\ pc \in {"insert", "insertTwin", "manage", "sell", "balance", "close", "closeTwin"}
          => pos.ledger # "none"
    /\ pos = NoPosition \/ pos.ledger # "none"
    /\ pc = "closeTwin" => pos.twin # 0
    /\ pc = "buy"  => phase = "busy" /\ side = "BUY"
    /\ pc = "sell" => phase = "busy" /\ side = "SELL" /\ pos.ledger = "live"
    /\ phase = "busy" => pc \in {"buy", "sell"} /\ result = "none"

\* An UNKNOWN entry stays paused, flat and up until a human resumes it.
UnknownWaits ==
    unknown => paused = "unknown" /\ pos = NoPosition /\ boot = "running" /\ pc # "buy"

\* An order that is still open after its call was reported so.
OpenIsReported ==
    phase = "idle" /\ fate = "open" /\ side = "BUY" => result = "assumed" \/ unknown

\* Until its row is closed, a sold position's SELL has executed or will.
SoldIsSettling ==
    pc \in {"balance", "close", "closeTwin"} /\ pos.ledger = "live" =>
        /\ phase = "idle" /\ side = "SELL"
        /\ \/ result = "filled" /\ fate = "executed"
           \/ result = "assumed" /\ fate \in {"open", "executed"}

\* Adoption found a live row if there is one, and it is open.
FoundLive ==
    boot = "binding" =>
        /\ found \in Ids
        /\ rows[found].ledger = "live" => rows[found].state = "open"
        /\ OpenRows("live") # {} => rows[found].ledger = "live"

\* At most one lot, and no BUY on top of one.
OneLot ==
    /\ late["BUY"] = 0
    /\ holding \in {0, 1}
    /\ fate = "open" /\ side = "BUY" => holding = 0
    /\ side = "SELL" /\ fate = "executed" => holding = 0
    /\ pc = "buy" /\ fate # "executed" => holding = 0

\* Every lot is accounted for.
Covered ==
    \/ holding = 0 /\ ~(fate = "open" /\ side = "BUY")
    \/ pos.ledger = "live"
    \/ unknown
    \/ pc = "buy"
    \/ side = "SELL" /\ fate = "open" /\ result = "assumed"
    \/ boot # "running" /\ OpenRows("live") # {}

Sold == side = "SELL" /\ result \in {"filled", "assumed"}

\* A managed live position has its open row, and no other live row is open.
LiveRow ==
    /\ pos.ledger = "live" /\ pc \notin {"insert", "closeTwin"} =>
          pos.row \in OpenRows("live")
    /\ boot = "running" => OpenRows("live") \subseteq {pos.row} /\
                           (pos.ledger # "live" => OpenRows("live") = {})
    /\ boot # "running" => \A i, j \in OpenRows("live") : i = j
    /\ boot # "running" /\ OpenRows("live") # {} => ~Sold
    /\ pc \in {"insert", "closeTwin"} => OpenRows("live") = {}

\* A live position whose exit executed is not sold again.
SoldOnce == pos.ledger = "live" /\ pc \notin {"balance", "close", "closeTwin"} => ~Sold

Accounted == OneLot /\ Covered /\ LiveRow /\ SoldOnce

IInv ==
    /\ TypeOK /\ Stages /\ UnknownWaits /\ OpenIsReported /\ SoldIsSettling /\ FoundLive
    /\ ledgerPaged \/ Accounted

-----------------------------------------------------------------------------
(* Types *)

BrokerTypes ==
    /\ phase \in {"idle", "busy"}
    /\ side \in Broker!Sides
    /\ fate \in {"open", "executed", "void"}
    /\ result \in Broker!Results \cup {"none"}
    /\ holding \in Int
    /\ late \in [Broker!Sides -> Nat]

FlagTypes == killAsked \in BOOLEAN /\ unknown \in BOOLEAN /\ ledgerPaged \in BOOLEAN

EngineTypes ==
    /\ boot \in {"down", "adopting", "binding", "running"}
    /\ found \in Ids \cup {0}
    /\ pc \in {"free", "count", "manage", "sell", "balance", "close",
               "closeTwin", "recount", "hunt", "buy", "insert", "insertTwin"}
    /\ cfg \in Configs
    /\ run \in Run
    /\ pos \in Position
    /\ paused \in {"no", "losses", "unknown"}
    /\ rows \in [Ids -> Row]
    /\ ckpt \in [ledger : Ledgers \cup {"none"}, count : Nat]
    /\ streak \in [Ledgers -> Nat]

LEMMA TypeParts == TypeOK <=> BrokerTypes /\ FlagTypes /\ EngineTypes
  BY Zenon DEF TypeOK, BrokerTypes, FlagTypes, EngineTypes

LEMMA ClosedRowsFinite ==
    ASSUME NEW l
    PROVE  Cardinality(ClosedRows(l)) \in Nat
  <1>1. IsFiniteSet(Ids)
    BY FS_Interval, MaxRowsAssumption DEF Ids
  <1>2. ClosedRows(l) \subseteq Ids
    BY DEF ClosedRows
  <1> QED
    BY <1>1, <1>2, FS_Subset, FS_CardinalityType

LEMMA PositionTypes ==
    /\ NoPosition \in Position
    /\ \A l \in Ledgers : Opened(l) \in Position
  BY DEF NoPosition, Opened, Position, Ledgers

\* What the engine does with the broker is a step of the contract; only a
\* human sells beside it.
LEMMA BrokerTypesStep == TypeOK /\ [Next]_vars => BrokerTypes'
  <1> SUFFICES ASSUME BrokerTypes, [Next]_vars
               PROVE  BrokerTypes'
    BY TypeParts
  <1> USE DEF BrokerTypes, Broker!Sides, Broker!Results
  <1>1. ASSUME UNCHANGED brokerVars
        PROVE  BrokerTypes'
    BY <1>1 DEF brokerVars
  <1>2. ASSUME NEW s \in Broker!Sides, Broker!Begin(s)
        PROVE  BrokerTypes'
    BY <1>2 DEF Broker!Begin
  <1>3. ASSUME NEW r \in Broker!Results, Answer(r)
        PROVE  BrokerTypes'
    BY <1>3 DEF Answer, Broker!Return
  <1>4. ASSUME Broker!Abandon
        PROVE  BrokerTypes'
    BY <1>4 DEF Broker!Abandon
  <1>5. ASSUME BrokerActs
        PROVE  BrokerTypes'
    BY <1>5
    DEF BrokerActs, Broker!Execute, Broker!Void, Broker!ExecuteLate, Broker!VoidLate,
        Broker!Executed
  <1>6. ASSUME HumanSells
        PROVE  BrokerTypes'
    BY <1>6 DEF HumanSells
  <1>7. ASSUME NEW mode, RouteEntry(mode)
        PROVE  BrokerTypes'
    BY <1>1, <1>2, <1>7 DEF RouteEntry
  <1>8. ASSUME RouteExit
        PROVE  BrokerTypes'
    BY <1>1, <1>2, <1>8 DEF RouteExit
  <1>9. CASE InOperation
    BY <1>1, <1>3, <1>7, <1>8, <1>9
    DEF InOperation, BuyReturns, SellReturns, InsertTrade, InsertTwin, CloseTrade, CloseTwin,
        Manage, ManageMinute, ReadBalance, CountRisk, NoEntry, MinuteUnread, Enter
  <1>10. CASE StartPass \/ TestEntry \/ SquareOff \/ KillSquareOff \/ Resume
    BY <1>1, <1>7, <1>10 DEF StartPass, TestEntry, SquareOff, KillSquareOff, Resume
  <1>11. CASE PaperReset \/ Restart \/ Boot \/ AdoptRead \/ AdoptBind
    BY <1>1, <1>4, <1>11 DEF PaperReset, Restart, Boot, AdoptRead, AdoptBind
  <1>12. ASSUME NEW c \in Configs, SaveConfig(c)
         PROVE  BrokerTypes'
    BY <1>1, <1>12 DEF SaveConfig
  <1>13. CASE UNCHANGED vars
    BY <1>1, <1>13 DEF vars, brokerVars
  <1> QED
    BY <1>5, <1>6, <1>9, <1>10, <1>11, <1>12, <1>13 DEF Next

\* The flags are set, cleared or left alone.
LEMMA FlagTypesStep == TypeOK /\ [Next]_vars => FlagTypes'
  <1> SUFFICES ASSUME FlagTypes, [Next]_vars
               PROVE  FlagTypes'
    BY TypeParts
  <1> USE DEF FlagTypes, askVars, riskVars, ledgerVars
  <1>1. CASE InOperation
    BY <1>1, Zenon
    DEF InOperation, BuyReturns, SellReturns, InsertTrade, InsertTwin, CloseTrade, CloseTwin,
        Manage, ManageMinute, ReadBalance, CountRisk, NoEntry, MinuteUnread, Enter
  <1>2. CASE StartPass \/ TestEntry \/ SquareOff \/ KillSquareOff \/ Resume
    BY <1>2, Zenon DEF StartPass, TestEntry, SquareOff, KillSquareOff, Resume
  <1>3. CASE HumanSells \/ PaperReset \/ Restart \/ Boot \/ AdoptRead \/ AdoptBind \/ BrokerActs
    BY <1>3, Zenon DEF HumanSells, PaperReset, Restart, Boot, AdoptRead, AdoptBind, BrokerActs
  <1>4. ASSUME NEW c \in Configs, SaveConfig(c)
        PROVE  FlagTypes'
    BY <1>4, Zenon DEF SaveConfig
  <1>5. CASE UNCHANGED vars
    BY <1>5, Zenon DEF vars
  <1> QED
    BY <1>1, <1>2, <1>3, <1>4, <1>5, Zenon DEF Next

\* The engine's own state, with the stage telling that a row or a position
\* that is written exists.
LEMMA EngineTypesStep ==
    TypeOK /\ Stages /\ FoundLive /\ [Next]_vars => EngineTypes'
  <1> SUFFICES ASSUME TypeOK, Stages, FoundLive, [Next]_vars
               PROVE  EngineTypes'
    OBVIOUS
  <1>0. EngineTypes
    BY TypeParts
  <1>d. ASSUME Done
        PROVE  pc' = "free" /\ run' \in Run
    BY <1>d DEF Done, Run, NoRun, Ledgers
  <1>g. ASSUME NEW at, Goto(at)
        PROVE  pc' = at /\ run' = run
    BY <1>g DEF Goto
  <1> USE <1>0, <1>d, <1>g, PositionTypes
      DEF EngineTypes, bootVars, lockVars, askVars, riskVars, ledgerVars, vars, Ledgers
  <1>1. ASSUME NEW op \in {"pass", "test", "square"},
               NEW at \in {"count", "manage", "buy", "insert"}, Take(op, at)
        PROVE  pc' \in {"count", "manage", "buy", "insert"} /\ run' \in Run
    BY <1>1, KillsAssumption DEF Take, Configs, Run
  <1>r. run.mode \in Ledgers /\ cfg.mode \in Ledgers
    BY DEF Run, Configs
  <1>2. ASSUME NEW mode \in Ledgers, RouteEntry(mode)
        PROVE  pos' \in Position /\ EntryAt(mode) \in {"buy", "insert"}
    BY <1>2 DEF RouteEntry, EntryAt
  <1>3. ASSUME NEW i \in Ids, NEW l \in Ledgers, NEW twin \in BOOLEAN, AddRow(i, l, twin)
        PROVE  rows' \in [Ids -> Row]
    BY <1>3 DEF AddRow, Row
  <1>4. ASSUME NEW i \in Ids, NEW pnl \in {"win", "loss"}, CloseRow(i, pnl)
        PROVE  rows' \in [Ids -> Row] /\ streak' \in [Ledgers -> Nat]
    BY <1>4 DEF CloseRow, Row
  <1>5. ASSUME GiveUpPosition
        PROVE  /\ pos' \in Position /\ pc' \in {"recount", "free"}
               /\ run' \in Run
    BY <1>5 DEF GiveUpPosition
  <1>6. ASSUME pos # NoPosition, pos.ledger # "none"
        PROVE  pos.ledger \in Ledgers
    BY <1>6 DEF Position
  <1>11. ASSUME NEW r \in Broker!Results, BuyReturns(r)
         PROVE  EngineTypes'
    BY <1>11 DEF BuyReturns
  <1>12. ASSUME NEW i \in Ids, InsertTrade(i)
         PROVE  EngineTypes'
    <2>1. pos.ledger \in Ledgers
      BY <1>12 DEF InsertTrade, Stages, Position
    <2>2. rows' \in [Ids -> Row]
      BY <1>3, <1>12, <2>1 DEF InsertTrade
    <2>3. pos' \in Position
      BY <1>12 DEF InsertTrade, Position
    <2> QED
      BY <1>12, <2>2, <2>3 DEF InsertTrade
  <1>13. ASSUME NEW i \in Ids, InsertTwin(i)
         PROVE  EngineTypes'
    <2>1. rows' \in [Ids -> Row]
      BY <1>3, <1>13 DEF InsertTwin
    <2>2. pos' \in Position
      BY <1>13 DEF InsertTwin, Position
    <2> QED
      BY <1>13, <2>1, <2>2 DEF InsertTwin
  <1>14. CASE Manage
    <2>1. PICK engineExit, timedExit, priced \in BOOLEAN :
              ManageMinute(engineExit, timedExit, priced)
      BY <1>14 DEF Manage
    <2>2. pos' \in Position
      BY <2>1 DEF ManageMinute, Position
    <2> QED
      BY <2>1, <2>2 DEF ManageMinute, RouteExit
  <1>15. ASSUME NEW r \in Broker!Results, SellReturns(r)
         PROVE  EngineTypes'
    BY <1>15 DEF SellReturns
  <1>16. CASE ReadBalance
    BY <1>16 DEF ReadBalance
  <1>17. ASSUME NEW pnl \in {"win", "loss"}, CloseTrade(pnl)
         PROVE  EngineTypes'
    <2>1. rows' \in [Ids -> Row] /\ streak' \in [Ledgers -> Nat]
      BY <1>4, <1>17 DEF CloseTrade, Position
    <2> QED
      BY <1>5, <1>17, <2>1 DEF CloseTrade
  <1>18. ASSUME NEW pnl \in {"win", "loss"}, CloseTwin(pnl)
         PROVE  EngineTypes'
    <2>1. rows' \in [Ids -> Row] /\ streak' \in [Ledgers -> Nat]
      BY <1>4, <1>18 DEF CloseTwin, Position, Stages
    <2> QED
      BY <1>5, <1>18, <2>1 DEF CloseTwin
  <1>19. CASE CountRisk
    <2>1. run' \in Run
      BY <1>19 DEF CountRisk, Run
    <2> QED
      BY <1>19, <2>1 DEF CountRisk
  <1>20. CASE NoEntry \/ MinuteUnread
    BY <1>20 DEF NoEntry, MinuteUnread
  <1>21. CASE Enter
    BY <1>r, <1>2, <1>21 DEF Enter
  <1>22. CASE StartPass
    BY <1>1, <1>22 DEF StartPass
  <1>23. CASE TestEntry
    BY <1>r, <1>1, <1>2, <1>23 DEF TestEntry
  <1>24. ASSUME StartSquareOff
         PROVE  pos' \in Position /\ run' \in Run /\ pc' = "manage"
    <2>1. pos' \in Position
      BY <1>24 DEF StartSquareOff, Position
    <2>2. Take("square", "manage")
      BY <1>24 DEF StartSquareOff
    <2> QED
      BY <1>1, <2>1, <2>2 DEF Take
  <1>25. CASE SquareOff
    BY <1>24, <1>25 DEF SquareOff
  <1>26. CASE KillSquareOff
    BY <1>24, <1>26 DEF KillSquareOff
  <1>27. CASE Resume
    BY <1>r, <1>27, ClosedRowsFinite DEF Resume
  <1>28. ASSUME NEW c \in Configs, SaveConfig(c)
         PROVE  EngineTypes'
    BY <1>28 DEF SaveConfig
  <1>29. CASE HumanSells
    BY <1>29 DEF HumanSells
  <1>30. CASE PaperReset
    <2>1. rows' \in [Ids -> Row]
      BY <1>30 DEF PaperReset, Row
    <2> QED
      BY <1>30, <2>1 DEF PaperReset
  <1>31. CASE Restart
    BY <1>31 DEF Restart
  <1>32. CASE Boot
    BY <1>32 DEF Boot
  <1>33. CASE AdoptRead
    BY <1>33 DEF AdoptRead, OpenRows
  <1>34. CASE AdoptBind
    <2>1. Opened(rows[found].ledger) \in Position
      BY <1>34 DEF AdoptBind, FoundLive, Row
    <2>2. pos' \in Position
      BY <1>34, <2>1 DEF AdoptBind, Position
    <2> QED
      BY <1>34, <2>2 DEF AdoptBind
  <1>35. CASE BrokerActs
    BY <1>35 DEF BrokerActs
  <1>36. CASE UNCHANGED vars
    BY <1>36
  <1> QED
    BY <1>11, <1>12, <1>13, <1>14, <1>15, <1>16, <1>17, <1>18, <1>19, <1>20, <1>21, <1>22,
       <1>23, <1>25, <1>26, <1>27, <1>28, <1>29, <1>30, <1>31, <1>32, <1>33, <1>34, <1>35, <1>36
    DEF Next, InOperation

-----------------------------------------------------------------------------
(* Which stage the lock is at *)

Facts == TypeOK /\ Stages /\ UnknownWaits /\ OpenIsReported /\ SoldIsSettling /\ FoundLive

LEMMA StagesStep ==
    ASSUME FaultsAllowed
    PROVE  Facts /\ [Next]_vars => Stages'
  <1> SUFFICES ASSUME Facts, [Next]_vars
               PROVE  Stages'
    OBVIOUS
  <1>t. /\ pos \in Position
        /\ pc \in {"free", "count", "manage", "sell", "balance", "close",
                   "closeTwin", "recount", "hunt", "buy", "insert", "insertTwin"}
        /\ phase \in {"idle", "busy"}
        /\ boot \in {"down", "adopting", "binding", "running"}
    BY Zenon DEF Facts, TypeOK
  <1>s. Stages
    BY DEF Facts
  <1>f. "bootrace" \notin Faults /\ "midcrash" \notin Faults
    BY DEF FaultsAllowed
  <1>p. /\ NoPosition.ledger = "none"
        /\ \A l : Opened(l).ledger = l
        /\ pos.ledger # "none" => pos # NoPosition
    BY DEF NoPosition, Opened
  <1>x. \A l \in Ledgers : Opened(l) # NoPosition
    BY DEF Opened, NoPosition, Ledgers
  <1> USE <1>t, <1>s, <1>f, <1>p
      DEF Stages, bootVars, lockVars, askVars, riskVars, ledgerVars, brokerVars,
          vars, Goto, Done
  <1>11. ASSUME NEW r \in Broker!Results, BuyReturns(r)
         PROVE  Stages'
    BY <1>11 DEF BuyReturns, Answer, Broker!Return
  <1>12. ASSUME NEW i \in Ids, InsertTrade(i)
         PROVE  Stages'
    <2>1. pos'.ledger = pos.ledger
      BY <1>12 DEF InsertTrade, Position
    <2> QED
      BY <1>12, <2>1 DEF InsertTrade
  <1>13. ASSUME NEW i \in Ids, InsertTwin(i)
         PROVE  Stages'
    <2>1. pos'.ledger = pos.ledger
      BY <1>13 DEF InsertTwin, Position
    <2> QED
      BY <1>13, <2>1 DEF InsertTwin
  <1>14. CASE Manage
    <2>1. PICK engineExit, timedExit, priced \in BOOLEAN :
              ManageMinute(engineExit, timedExit, priced)
      BY <1>14 DEF Manage
    <2>2. pos'.ledger = pos.ledger
      BY <2>1 DEF ManageMinute, Position
    <2>3. CASE RouteExit
      BY <2>1, <2>2, <2>3 DEF ManageMinute, RouteExit, Broker!Begin, Position, Ledgers
    <2>4. CASE Done /\ UNCHANGED brokerVars
      BY <2>1, <2>2, <2>4 DEF ManageMinute
    <2> QED
      BY <2>1, <2>3, <2>4 DEF ManageMinute
  <1>15. ASSUME NEW r \in Broker!Results, SellReturns(r)
         PROVE  Stages'
    BY <1>15 DEF SellReturns, Answer, Broker!Return
  <1>16. CASE ReadBalance
    BY <1>16 DEF ReadBalance
  <1>17. ASSUME NEW pnl \in {"win", "loss"}, CloseTrade(pnl)
         PROVE  Stages'
    BY <1>17 DEF CloseTrade, GiveUpPosition
  <1>18. ASSUME NEW pnl \in {"win", "loss"}, CloseTwin(pnl)
         PROVE  Stages'
    BY <1>18 DEF CloseTwin, GiveUpPosition
  <1>19. CASE CountRisk
    BY <1>19 DEF CountRisk
  <1>20. CASE NoEntry \/ MinuteUnread
    BY <1>20 DEF NoEntry, MinuteUnread
  <1>e. ASSUME NEW mode \in Ledgers, pc' = EntryAt(mode), RouteEntry(mode),
               pos = NoPosition, boot = "running", boot' = boot, pc \in {"free", "hunt"}
        PROVE  Stages'
    BY <1>e, <1>x DEF EntryAt, RouteEntry, Broker!Begin, Ledgers
  <1>21. CASE Enter
    BY <1>e, <1>21 DEF Enter, Facts, TypeOK, Run
  <1>22. CASE StartPass
    BY <1>22 DEF StartPass, Take
  <1>23. CASE TestEntry
    BY <1>e, <1>23 DEF TestEntry, Take, Facts, TypeOK, Configs
  <1>24. ASSUME StartSquareOff, UNCHANGED <<bootVars, brokerVars>>
         PROVE  Stages'
    <2>1. pos'.ledger = pos.ledger
      BY <1>24 DEF StartSquareOff, Position
    <2> QED
      BY <1>24, <2>1 DEF StartSquareOff, Take
  <1>25. CASE SquareOff
    BY <1>24, <1>25 DEF SquareOff
  <1>26. CASE KillSquareOff
    BY <1>24, <1>26 DEF KillSquareOff
  <1>27. CASE Resume
    BY <1>27 DEF Resume
  <1>28. ASSUME NEW c \in Configs, SaveConfig(c)
         PROVE  Stages'
    BY <1>28 DEF SaveConfig
  <1>29. CASE HumanSells
    BY <1>29 DEF HumanSells
  <1>30. CASE PaperReset
    BY <1>30 DEF PaperReset
  <1>31. CASE Restart
    BY <1>31 DEF Restart
  <1>32. CASE Boot
    BY <1>32 DEF Boot
  <1>33. CASE AdoptRead
    BY <1>33 DEF AdoptRead
  <1>34. CASE AdoptBind
    <2>1. pos'.ledger \in Ledgers
      BY <1>34 DEF AdoptBind, Facts, FoundLive, TypeOK, Row, Opened, NoPosition
    <2> QED
      BY <1>34, <2>1 DEF AdoptBind, Ledgers
  <1>35. CASE BrokerActs
    BY <1>35 DEF BrokerActs, Broker!Execute, Broker!Void, Broker!ExecuteLate, Broker!VoidLate
  <1>36. CASE UNCHANGED vars
    BY <1>36
  <1> QED
    BY <1>11, <1>12, <1>13, <1>14, <1>15, <1>16, <1>17, <1>18, <1>19, <1>20, <1>21, <1>22,
       <1>23, <1>25, <1>26, <1>27, <1>28, <1>29, <1>30, <1>31, <1>32, <1>33, <1>34, <1>35, <1>36
    DEF Next, InOperation

-----------------------------------------------------------------------------
(* UNKNOWN entries, open orders and sold positions *)

LEMMA UnknownWaitsStep ==
    ASSUME FaultsAllowed
    PROVE  Facts /\ [Next]_vars => UnknownWaits'
  <1> SUFFICES ASSUME Facts, [Next]_vars, unknown'
               PROVE  /\ paused' = "unknown" /\ pos' = NoPosition
                      /\ boot' = "running" /\ pc' # "buy"
    BY DEF UnknownWaits
  <1>f. /\ "bootrace" \notin Faults /\ "midcrash" \notin Faults
        /\ "forget" \notin Faults /\ "operator" \notin Faults
    BY DEF FaultsAllowed
  <1>s. Stages /\ UnknownWaits
    BY DEF Facts
  <1>1. CASE unknown
    <2>1. pos = NoPosition /\ pos.ledger = "none"
      BY <1>s, <1>1 DEF UnknownWaits, NoPosition
    <2>2. pc \in {"free", "count", "recount", "hunt"}
      BY <1>s, <1>1, <2>1 DEF Stages, UnknownWaits, Facts, TypeOK
    <2> USE <1>f, <1>s, <1>1, <2>1, <2>2
        DEF UnknownWaits, bootVars, lockVars, askVars, riskVars, ledgerVars, vars,
            Goto, Done, Take
    <2>3. CASE InOperation
      BY <2>3
      DEF InOperation, BuyReturns, SellReturns, InsertTrade, InsertTwin, Manage, ManageMinute,
          ReadBalance, CloseTrade, CloseTwin, CountRisk, NoEntry, MinuteUnread, Enter
    <2>4. CASE StartPass \/ SquareOff \/ KillSquareOff
      BY <2>4 DEF StartPass, SquareOff, StartSquareOff, KillSquareOff
    <2>5. ~TestEntry
      BY DEF TestEntry
    <2>6. CASE Resume
      BY <2>6 DEF Resume
    <2>7. CASE HumanSells \/ PaperReset \/ Restart \/ Boot \/ AdoptRead \/ AdoptBind \/ BrokerActs
      BY <2>7 DEF HumanSells, PaperReset, Restart, Boot, AdoptRead, AdoptBind, BrokerActs
    <2>8. ASSUME NEW c \in Configs, SaveConfig(c)
          PROVE  UnknownWaits'
      BY <2>8 DEF SaveConfig
    <2>9. CASE UNCHANGED vars
      BY <2>9
    <2> QED
      BY <2>3, <2>4, <2>5, <2>6, <2>7, <2>8, <2>9 DEF Next
  <1>2. CASE ~unknown
    <2>1. PICK r \in Broker!Results : BuyReturns(r)
      BY <1>2
      DEF Next, InOperation, SellReturns, InsertTrade, InsertTwin, Manage, ManageMinute,
          ReadBalance, CloseTrade, CloseTwin, CountRisk, NoEntry, MinuteUnread, Enter,
          StartPass, TestEntry, SquareOff, KillSquareOff, Resume, SaveConfig, HumanSells,
          PaperReset, Restart, Boot, AdoptRead, AdoptBind, BrokerActs, vars, riskVars
    <2>2. r = "unknown"
      BY <1>2, <2>1 DEF BuyReturns
    <2>3. boot = "running"
      BY <1>s, <2>1 DEF BuyReturns, Stages
    <2> QED
      BY <1>s, <2>1, <2>2, <2>3 DEF BuyReturns, Stages, bootVars, Done
  <1> QED
    BY <1>1, <1>2

LEMMA OpenIsReportedStep ==
    ASSUME FaultsAllowed
    PROVE  Facts /\ [Next]_vars => OpenIsReported'
  <1> SUFFICES ASSUME Facts, [Next]_vars
               PROVE  OpenIsReported'
    OBVIOUS
  <1>f. "midcrash" \notin Faults /\ "operator" \notin Faults
    BY DEF FaultsAllowed
  <1>s. Stages /\ OpenIsReported /\ phase \in {"idle", "busy"}
    BY DEF Facts, TypeOK
  <1> USE <1>f, <1>s DEF OpenIsReported, bootVars, lockVars, askVars, riskVars,
              ledgerVars, brokerVars, vars
  <1>1. ASSUME UNCHANGED <<brokerVars, unknown>>
        PROVE  OpenIsReported'
    BY <1>1
  <1>2. ASSUME NEW s, Broker!Begin(s)
        PROVE  OpenIsReported'
    BY <1>2 DEF Broker!Begin
  <1>3. ASSUME NEW r \in Broker!Results, BuyReturns(r)
        PROVE  OpenIsReported'
    BY <1>3 DEF BuyReturns, Answer, Broker!Return, Broker!Results, Stages
  <1>4. ASSUME NEW r \in Broker!Results, SellReturns(r)
        PROVE  OpenIsReported'
    BY <1>4 DEF SellReturns, Answer, Broker!Return, Stages
  <1>5. ASSUME InOperation,
               \A r \in Broker!Results : ~BuyReturns(r) /\ ~SellReturns(r)
        PROVE  OpenIsReported'
    BY <1>1, <1>2, <1>5
    DEF InOperation, InsertTrade, InsertTwin, CloseTrade, CloseTwin, Manage, ManageMinute,
        RouteExit, ReadBalance, CountRisk, NoEntry, MinuteUnread, Enter, RouteEntry
  <1>6. CASE StartPass \/ TestEntry \/ SquareOff \/ KillSquareOff
    BY <1>1, <1>2, <1>6 DEF StartPass, TestEntry, RouteEntry, SquareOff, KillSquareOff
  <1>7. CASE Resume
    BY <1>7 DEF Resume, BrokerChecked
  <1>8. CASE PaperReset \/ Restart \/ Boot \/ AdoptRead \/ AdoptBind
    BY <1>1, <1>8 DEF PaperReset, Restart, Boot, AdoptRead, AdoptBind, Stages
  <1>9. CASE HumanSells
    BY <1>9 DEF HumanSells
  <1>10. CASE BrokerActs
    BY <1>10 DEF BrokerActs, Broker!Execute, Broker!Void, Broker!ExecuteLate, Broker!VoidLate
  <1>11. ASSUME NEW c \in Configs, SaveConfig(c)
         PROVE  OpenIsReported'
    BY <1>1, <1>11 DEF SaveConfig
  <1>12. CASE UNCHANGED vars
    BY <1>1, <1>12
  <1> QED
    BY <1>3, <1>4, <1>5, <1>6, <1>7, <1>8, <1>9, <1>10, <1>11, <1>12 DEF Next, InOperation

LEMMA SoldIsSettlingStep ==
    ASSUME FaultsAllowed
    PROVE  Facts /\ [Next]_vars => SoldIsSettling'
  <1> SUFFICES ASSUME Facts, [Next]_vars
               PROVE  SoldIsSettling'
    OBVIOUS
  <1>f. "midcrash" \notin Faults /\ "unfilled" \notin Faults
    BY DEF FaultsAllowed
  <1>s. /\ Stages /\ SoldIsSettling
        /\ fate \in {"open", "executed", "void"} /\ phase \in {"idle", "busy"}
        /\ pos \in Position
    BY DEF Facts, TypeOK
  <1> USE <1>f, <1>s DEF SoldIsSettling, bootVars, lockVars, askVars, riskVars,
              ledgerVars, brokerVars, vars, Goto, Done
  <1>1. ASSUME pc' \notin {"balance", "close", "closeTwin"}
        PROVE  SoldIsSettling'
    BY <1>1
  <1>2. ASSUME NEW r \in Broker!Results, SellReturns(r)
        PROVE  SoldIsSettling'
    BY <1>2 DEF SellReturns, Answer, Broker!Return, Broker!Results, Stages
  <1>3. CASE Manage
    <2>1. PICK engineExit, timedExit, priced \in BOOLEAN :
              ManageMinute(engineExit, timedExit, priced)
      BY <1>3 DEF Manage
    <2>2. pos'.ledger = pos.ledger
      BY <2>1 DEF ManageMinute, Position
    <2> QED
      BY <2>1, <2>2 DEF ManageMinute, RouteExit
  <1>4. CASE ReadBalance
    BY <1>4 DEF ReadBalance
  <1>5. ASSUME NEW pnl \in {"win", "loss"}, CloseTrade(pnl) \/ CloseTwin(pnl)
        PROVE  SoldIsSettling'
    BY <1>5 DEF CloseTrade, CloseTwin, GiveUpPosition
  <1>6. ASSUME InOperation, ~Manage, ~ReadBalance,
               \A r \in Broker!Results : ~SellReturns(r),
               \A pnl \in {"win", "loss"} : ~CloseTrade(pnl) /\ ~CloseTwin(pnl)
        PROVE  pc' \in {"free", "insert", "insertTwin", "manage", "hunt", "buy"}
    BY <1>6
    DEF InOperation, BuyReturns, InsertTrade, InsertTwin, CountRisk, NoEntry, MinuteUnread,
        Enter, EntryAt
  <1>7. CASE StartPass \/ TestEntry \/ SquareOff \/ KillSquareOff \/ Resume
    BY <1>7
    DEF StartPass, TestEntry, EntryAt, SquareOff, KillSquareOff, StartSquareOff, Take, Resume
  <1>8. CASE HumanSells \/ Restart \/ Boot \/ AdoptRead \/ AdoptBind
    BY <1>8 DEF HumanSells, Restart, Boot, AdoptRead, AdoptBind, Stages
  <1>9. CASE PaperReset
    BY <1>9 DEF PaperReset
  <1>10. CASE BrokerActs
    BY <1>10 DEF BrokerActs, Broker!Execute, Broker!Void, Broker!ExecuteLate, Broker!VoidLate
  <1>11. ASSUME NEW c \in Configs, SaveConfig(c)
         PROVE  SoldIsSettling'
    BY <1>11 DEF SaveConfig
  <1>12. CASE UNCHANGED vars
    BY <1>12
  <1> QED
    BY <1>1, <1>2, <1>3, <1>4, <1>5, <1>6, <1>7, <1>8, <1>9, <1>10, <1>11, <1>12
    DEF Next, InOperation

\* No live row is opened or closed during the boot, so what adoption found
\* stays what it was.
LEMMA FoundLiveStep ==
    ASSUME FaultsAllowed
    PROVE  Facts /\ [Next]_vars => FoundLive'
  <1> SUFFICES ASSUME Facts, [Next]_vars, boot' = "binding"
               PROVE  FoundLive'
    BY DEF FoundLive
  <1>s. Stages /\ FoundLive /\ rows \in [Ids -> Row]
    BY DEF Facts, TypeOK
  <1> USE <1>s DEF FoundLive, OpenRows, bootVars, ledgerVars, vars
  <1>1. CASE AdoptRead
    BY <1>1 DEF AdoptRead, Ledgers
  <1>2. CASE ~AdoptRead /\ UNCHANGED <<bootVars, rows>>
    BY <1>2
  <1>3. CASE PaperReset
    BY <1>3 DEF PaperReset
  <1>4. CASE InOperation
    BY <1>4
    DEF InOperation, BuyReturns, SellReturns, InsertTrade, InsertTwin, CloseTrade, CloseTwin,
        Manage, ManageMinute, ReadBalance, CountRisk, NoEntry, MinuteUnread, Enter, Stages
  <1>5. CASE StartPass \/ TestEntry \/ SquareOff \/ KillSquareOff \/ Resume
    BY <1>2, <1>5 DEF StartPass, TestEntry, SquareOff, KillSquareOff, Resume
  <1>6. CASE HumanSells \/ Restart \/ Boot \/ AdoptBind \/ BrokerActs
    BY <1>2, <1>6 DEF HumanSells, Restart, Boot, AdoptBind, BrokerActs
  <1>7. ASSUME NEW c \in Configs, SaveConfig(c)
        PROVE  FoundLive'
    BY <1>2, <1>7 DEF SaveConfig
  <1>8. CASE UNCHANGED vars
    BY <1>8
  <1> QED
    BY <1>1, <1>3, <1>4, <1>5, <1>6, <1>7, <1>8 DEF Next

LEMMA FactsStep ==
    ASSUME FaultsAllowed
    PROVE  Facts /\ [Next]_vars => Facts'
  <1>1. Facts /\ [Next]_vars => TypeOK'
    BY BrokerTypesStep, FlagTypesStep, EngineTypesStep, Zenon
    DEF Facts, TypeOK, BrokerTypes, FlagTypes, EngineTypes
  <1> QED
    BY <1>1, StagesStep, UnknownWaitsStep, OpenIsReportedStep, SoldIsSettlingStep, FoundLiveStep
    DEF Facts

-----------------------------------------------------------------------------
(* Every lot is accounted for *)

\* What an entry may rely on when it sends its BUY: the broker holds nothing
\* and no BUY is open.
LEMMA FlatBeforeEntry ==
    ASSUME FaultsAllowed, Facts, Accounted,
           pos = NoPosition, boot = "running", ~unknown, pc # "buy", Settled
    PROVE  holding = 0 /\ ~(fate = "open" /\ side = "BUY")
  <1>1. "unfilled" \notin Faults /\ pos.ledger # "live"
    BY DEF FaultsAllowed, NoPosition
  <1> QED
    BY <1>1 DEF Accounted, Covered, Settled

\* When an exit is routed, no BUY is open: the position was taken over with
\* its order executed, or assumed and settled since.
LEMMA NoOpenBuyBeforeExit ==
    ASSUME FaultsAllowed, Facts, phase = "idle", pos # NoPosition, Settled
    PROVE  ~(fate = "open" /\ side = "BUY")
  <1>1. "unfilled" \notin Faults
    BY DEF FaultsAllowed
  <1> QED
    BY <1>1 DEF Facts, UnknownWaits, OpenIsReported, Settled

LEMMA OneLotStep ==
    ASSUME FaultsAllowed, Facts, Accounted, [Next]_vars
    PROVE  OneLot'
  <1>f. "midcrash" \notin Faults /\ "operator" \notin Faults
    BY DEF FaultsAllowed
  <1>s. /\ Stages /\ OneLot
        /\ fate \in {"open", "executed", "void"} /\ phase \in {"idle", "busy"}
        /\ side \in Broker!Sides /\ late \in [Broker!Sides -> Nat]
    BY DEF Facts, TypeOK, Accounted
  <1> USE <1>f, <1>s DEF OneLot, Broker!Sides, bootVars, lockVars, askVars, riskVars,
              ledgerVars, brokerVars, vars, Goto, Done
  <1>1. ASSUME UNCHANGED brokerVars, pc' # "buy" \/ pc' = pc
        PROVE  OneLot'
    BY <1>1
  <1>b. ASSUME Broker!Begin("BUY"), pos = NoPosition, boot = "running", ~unknown,
               pc # "buy", Settled
        PROVE  OneLot'
    BY <1>b, FlatBeforeEntry DEF Broker!Begin
  <1>2. ASSUME NEW r \in Broker!Results, BuyReturns(r) \/ SellReturns(r)
        PROVE  OneLot'
    BY <1>2 DEF BuyReturns, SellReturns, Answer, Broker!Return, Stages
  <1>3. CASE Manage
    <2>1. PICK engineExit, timedExit, priced \in BOOLEAN :
              ManageMinute(engineExit, timedExit, priced)
      BY <1>3 DEF Manage
    <2>2. pos # NoPosition /\ phase = "idle"
      BY <2>1 DEF ManageMinute, Stages, NoPosition
    <2>3. CASE RouteExit /\ pos.ledger # "paper"
      BY <2>2, <2>3, NoOpenBuyBeforeExit DEF RouteExit, Broker!Begin
    <2>4. CASE UNCHANGED brokerVars /\ pc' # "buy"
      BY <1>1, <2>4
    <2> QED
      BY <2>1, <2>3, <2>4 DEF ManageMinute, RouteExit
  <1>4. CASE Enter
    <2>1. pos = NoPosition /\ boot = "running" /\ ~unknown /\ pc # "buy"
      BY <1>4 DEF Enter, Stages, Facts, UnknownWaits
    <2> QED
      BY <1>1, <1>b, <1>4, <2>1 DEF Enter, RouteEntry, EntryAt
  <1>5. CASE TestEntry
    <2>1. pos = NoPosition /\ boot = "running" /\ ~unknown /\ pc # "buy"
      BY <1>5 DEF TestEntry, FaultsAllowed, Take
    <2> QED
      BY <1>1, <1>b, <1>5, <2>1 DEF TestEntry, RouteEntry, EntryAt, Take
  <1>6. ASSUME InOperation, ~Manage, ~Enter,
               \A r \in Broker!Results : ~BuyReturns(r) /\ ~SellReturns(r)
        PROVE  OneLot'
    BY <1>1, <1>6
    DEF InOperation, InsertTrade, InsertTwin, CloseTrade, CloseTwin, GiveUpPosition,
        ReadBalance, CountRisk, NoEntry, MinuteUnread
  <1>7. CASE StartPass \/ SquareOff \/ KillSquareOff \/ Resume
    BY <1>1, <1>7 DEF StartPass, SquareOff, KillSquareOff, StartSquareOff, Take, Resume
  <1>8. CASE PaperReset \/ Restart \/ Boot \/ AdoptRead \/ AdoptBind
    BY <1>1, <1>8 DEF PaperReset, Restart, Boot, AdoptRead, AdoptBind, Stages
  <1>9. CASE HumanSells
    BY <1>9 DEF HumanSells
  <1>10. CASE BrokerActs
    <2>1. CASE Broker!Execute
      BY <1>10, <2>1 DEF BrokerActs, Broker!Execute, Broker!Executable, Broker!Executed
    <2>2. CASE Broker!Void
      BY <1>10, <2>2 DEF BrokerActs, Broker!Void
    <2>3. ASSUME NEW z \in Broker!Sides, Broker!ExecuteLate(z)
          PROVE  OneLot'
      BY <1>10, <2>3 DEF BrokerActs, Broker!ExecuteLate, Broker!Executable, Broker!Executed
    <2>4. ASSUME NEW z \in Broker!Sides, Broker!VoidLate(z)
          PROVE  OneLot'
      BY <1>10, <2>4 DEF BrokerActs, Broker!VoidLate
    <2> QED
      BY <1>10, <2>1, <2>2, <2>3, <2>4 DEF BrokerActs
  <1>11. ASSUME NEW c \in Configs, SaveConfig(c)
         PROVE  OneLot'
    BY <1>1, <1>11 DEF SaveConfig
  <1>12. CASE UNCHANGED vars
    BY <1>1, <1>12
  <1> QED
    BY <1>2, <1>3, <1>4, <1>5, <1>6, <1>7, <1>8, <1>9, <1>10, <1>11, <1>12 DEF Next, InOperation

LEMMA PaperResetKeepsLive ==
    ASSUME TypeOK, PaperReset
    PROVE  OpenRows("live")' = OpenRows("live")
  BY DEF PaperReset, OpenRows, TypeOK, Row

LEMMA CoveredStep ==
    ASSUME FaultsAllowed, Facts, Accounted, [Next]_vars
    PROVE  Covered'
  <1>f. /\ "midcrash" \notin Faults /\ "operator" \notin Faults /\ "unfilled" \notin Faults
        /\ "adoption" \notin Faults /\ "forget" \notin Faults
    BY DEF FaultsAllowed
  <1>s. /\ Stages /\ OneLot /\ Covered /\ LiveRow /\ UnknownWaits /\ SoldIsSettling
        /\ fate \in {"open", "executed", "void"} /\ phase \in {"idle", "busy"}
        /\ side \in Broker!Sides /\ late \in [Broker!Sides -> Nat] /\ pos \in Position
    BY DEF Facts, TypeOK, Accounted
  <1>p. NoPosition.ledger = "none" /\ \A l : Opened(l).ledger = l
    BY DEF NoPosition, Opened
  <1> USE <1>f, <1>s, <1>p DEF Covered, Broker!Sides, bootVars, lockVars, askVars,
              riskVars, ledgerVars, brokerVars, vars, Goto, Done
  <1>1. ASSUME UNCHANGED <<brokerVars, unknown, boot>>, pos'.ledger = pos.ledger,
               pc = "buy" => pc' = "buy",
               boot # "running" => OpenRows("live")' = OpenRows("live")
        PROVE  Covered'
    BY <1>1
  <1>2. ASSUME UNCHANGED <<brokerVars, unknown>>, boot = "running",
               pos = NoPosition, pc # "buy"
        PROVE  Covered'
    BY <1>2
  <1>3. ASSUME NEW r \in Broker!Results, BuyReturns(r)
        PROVE  Covered'
    BY <1>3 DEF BuyReturns, Answer, Broker!Return, Broker!Results, Stages, OneLot
  <1>4. ASSUME NEW r \in Broker!Results, SellReturns(r)
        PROVE  Covered'
    BY <1>4 DEF SellReturns, Stages
  <1>5. ASSUME NEW i \in Ids, InsertTrade(i) \/ InsertTwin(i)
        PROVE  Covered'
    <2>1. pos'.ledger = pos.ledger
      BY <1>5 DEF InsertTrade, InsertTwin, Position
    <2>2. boot = "running"
      BY <1>5 DEF InsertTrade, InsertTwin, Stages
    <2> QED
      BY <1>1, <1>5, <2>1, <2>2 DEF InsertTrade, InsertTwin
  <1>6. CASE Manage
    <2>1. PICK engineExit, timedExit, priced \in BOOLEAN :
              ManageMinute(engineExit, timedExit, priced)
      BY <1>6 DEF Manage
    <2>2. pos'.ledger = pos.ledger /\ pos.ledger # "none" /\ boot = "running"
      BY <2>1 DEF ManageMinute, Position, Stages
    <2>3. CASE pos.ledger = "live"
      BY <2>2, <2>3
    <2>4. CASE pos.ledger = "paper"
      BY <1>1, <2>1, <2>2, <2>4 DEF ManageMinute, RouteExit
    <2> QED
      BY <2>2, <2>3, <2>4 DEF Position, Ledgers
  <1>7. ASSUME GiveUpPosition, pc \in {"close", "closeTwin"},
               UNCHANGED <<brokerVars, unknown, boot>>
        PROVE  Covered'
    <2>1. CASE pos.ledger = "live"
      BY <1>7, <2>1 DEF SoldIsSettling, OneLot
    <2>2. CASE pos.ledger # "live"
      BY <1>7, <2>2 DEF Stages
    <2> QED
      BY <2>1, <2>2
  <1>8. ASSUME NEW pnl \in {"win", "loss"}, CloseTrade(pnl) \/ CloseTwin(pnl)
        PROVE  Covered'
    <2>1. boot = "running"
      BY <1>8 DEF CloseTrade, CloseTwin, Stages
    <2> QED
      BY <1>1, <1>7, <1>8, <2>1 DEF CloseTrade, CloseTwin
  <1>9. CASE ReadBalance \/ CountRisk \/ NoEntry \/ MinuteUnread
    BY <1>1, <1>9 DEF ReadBalance, CountRisk, NoEntry, MinuteUnread, OpenRows
  <1>10. CASE Enter \/ TestEntry
    <2>1. boot = "running" /\ pos = NoPosition /\ pc # "buy"
      BY <1>10 DEF Enter, TestEntry, Take, Stages, FaultsAllowed
    <2>2. UNCHANGED brokerVars \/ pc' = "buy"
      BY <1>10 DEF Enter, TestEntry, Take, RouteEntry, EntryAt
    <2> QED
      BY <1>2, <1>10, <2>1, <2>2 DEF Enter, TestEntry
  <1>11. ASSUME StartSquareOff, UNCHANGED <<brokerVars, unknown, boot, rows>>
         PROVE  Covered'
    <2>1. pos'.ledger = pos.ledger
      BY <1>11 DEF StartSquareOff, Position
    <2> QED
      BY <1>1, <1>11, <2>1 DEF StartSquareOff, Take, OpenRows
  <1>12. CASE StartPass \/ SquareOff \/ KillSquareOff
    BY <1>1, <1>11, <1>12 DEF StartPass, SquareOff, KillSquareOff, Take, OpenRows
  <1>13. CASE Resume
    BY <1>13 DEF Resume, BrokerChecked, UnknownWaits, OpenRows
  <1>14. CASE HumanSells
    BY <1>14 DEF HumanSells
  <1>15. CASE PaperReset
    BY <1>1, <1>15, PaperResetKeepsLive DEF PaperReset, Facts
  <1>16. CASE Restart
    <2>1. pc = "free" /\ ~unknown
      BY <1>16 DEF Restart, UnknownWaits
    <2>2. UNCHANGED brokerVars
      BY <1>16, <2>1 DEF Restart, Stages
    <2>3. CASE pos.ledger = "live"
      BY <1>16, <2>1, <2>2, <2>3 DEF Restart, LiveRow, OpenRows
    <2>4. CASE pos.ledger # "live"
      BY <1>16, <2>1, <2>2, <2>4 DEF Restart, OpenRows
    <2> QED
      BY <2>3, <2>4
  <1>17. CASE Boot \/ AdoptRead
    BY <1>17 DEF Boot, AdoptRead, OpenRows
  <1>18. CASE AdoptBind
    <2>1. pos'.ledger = rows[found].ledger /\ boot = "binding" /\ pos = NoPosition
      BY <1>18 DEF AdoptBind, Opened, NoPosition, Stages
    <2> QED
      BY <1>18, <2>1 DEF AdoptBind, FoundLive, Facts
  <1>19. CASE BrokerActs
    <2>1. CASE Broker!Execute
      BY <1>19, <2>1
      DEF BrokerActs, Broker!Execute, Broker!Executable, Broker!Executed, OpenRows, OneLot
    <2>2. CASE Broker!Void /\ result # "assumed"
      BY <1>19, <2>2 DEF BrokerActs, Broker!Void, OpenRows
    <2>3. ASSUME NEW z \in Broker!Sides, Broker!ExecuteLate(z)
          PROVE  Covered'
      BY <1>19, <2>3
      DEF BrokerActs, Broker!ExecuteLate, Broker!Executable, Broker!Executed, OneLot
    <2>4. ASSUME NEW z \in Broker!Sides, Broker!VoidLate(z)
          PROVE  Covered'
      BY <1>19, <2>4 DEF BrokerActs, Broker!VoidLate, OpenRows
    <2> QED
      BY <1>19, <2>1, <2>2, <2>3, <2>4 DEF BrokerActs
  <1>20. ASSUME NEW c \in Configs, SaveConfig(c)
         PROVE  Covered'
    BY <1>20 DEF SaveConfig, OpenRows
  <1>21. CASE UNCHANGED vars
    BY <1>21 DEF OpenRows
  <1> QED
    BY <1>3, <1>4, <1>5, <1>6, <1>8, <1>9, <1>10, <1>12, <1>13, <1>14, <1>15, <1>16, <1>17,
       <1>18, <1>19, <1>20, <1>21
    DEF Next, InOperation

\* Rows open and close with the position they belong to.
LEMMA LiveRowStep ==
    ASSUME FaultsAllowed, Facts, Accounted, [Next]_vars, ~ledgerPaged'
    PROVE  LiveRow'
  <1>f. /\ "midcrash" \notin Faults /\ "adoption" \notin Faults
        /\ "bootrace" \notin Faults
    BY DEF FaultsAllowed
  <1>s. /\ Stages /\ LiveRow /\ SoldOnce /\ FoundLive /\ TypeOK
        /\ rows \in [Ids -> Row] /\ pos \in Position
    BY DEF Facts, TypeOK, Accounted
  <1>p. NoPosition.ledger = "none" /\ \A l : Opened(l).ledger = l
    BY DEF NoPosition, Opened
  <1> USE <1>f, <1>s, <1>p DEF LiveRow, bootVars, lockVars, askVars, riskVars,
              ledgerVars, vars, Goto, Done
  <1>1. ASSUME UNCHANGED boot, boot = "running", OpenRows("live")' = OpenRows("live"),
               pos'.ledger = pos.ledger, pos'.row = pos.row,
               pc' \in {"insert", "closeTwin"} => pc' = pc,
               pc \in {"insert", "closeTwin"} => pc' = pc
        PROVE  LiveRow'
    BY <1>1
  <1>2. ASSUME UNCHANGED boot, boot = "running", OpenRows("live")' = {},
               pos'.ledger = "live" => pc' \in {"insert", "closeTwin"}
        PROVE  LiveRow'
    BY <1>2
  <1>3. ASSUME boot # "running", UNCHANGED <<pc, pos, side, result>>,
               boot' # "running", OpenRows("live")' = OpenRows("live")
        PROVE  LiveRow'
    BY <1>3 DEF Sold, Stages
  <1>u. ASSUME UNCHANGED rows
        PROVE  OpenRows("live")' = OpenRows("live")
    BY <1>u DEF OpenRows
  <1>11. ASSUME NEW r \in Broker!Results, BuyReturns(r)
         PROVE  LiveRow'
    <2>1. boot = "running" /\ OpenRows("live") = {} /\ pos.ledger = "none"
      BY <1>11 DEF BuyReturns, Stages
    <2> QED
      BY <1>u, <1>2, <1>11, <2>1 DEF BuyReturns
  <1>12. ASSUME NEW i \in Ids, InsertTrade(i)
         PROVE  LiveRow'
    <2>1. boot = "running" /\ OpenRows("live") = {} /\ pos.ledger \in Ledgers
      BY <1>12 DEF InsertTrade, Stages, Position
    <2>2. AddRow(i, pos.ledger, FALSE) /\ pos' = [pos EXCEPT !.row = i]
      BY <1>12 DEF InsertTrade
    <2>3. OpenRows("live")' = IF pos.ledger = "live" THEN {i} ELSE {}
      BY <2>1, <2>2 DEF AddRow, OpenRows, Row
    <2>4. pos'.row = i /\ pos'.ledger = pos.ledger
      BY <2>2 DEF Position
    <2> QED
      BY <1>12, <2>1, <2>3, <2>4 DEF InsertTrade
  <1>13. ASSUME NEW i \in Ids, InsertTwin(i)
         PROVE  LiveRow'
    <2>1. boot = "running" /\ UNCHANGED boot /\ pc = "insertTwin" /\ pc' = "free"
      BY <1>13 DEF InsertTwin, Stages
    <2>2. pos'.row = pos.row /\ pos'.ledger = pos.ledger
      BY <1>13 DEF InsertTwin, Position
    <2>3. OpenRows("live")' = OpenRows("live")
      BY <1>13 DEF InsertTwin, AddRow, FreshRow, OpenRows, Row
    <2> QED
      BY <1>1, <2>1, <2>2, <2>3
  <1>14. CASE Manage
    <2>1. PICK engineExit, timedExit, priced \in BOOLEAN :
              ManageMinute(engineExit, timedExit, priced)
      BY <1>14 DEF Manage
    <2>2. pos'.ledger = pos.ledger /\ pos'.row = pos.row
      BY <2>1 DEF ManageMinute, Position
    <2>3. /\ boot = "running" /\ UNCHANGED <<boot, rows>>
          /\ pc = "manage" /\ pc' \in {"free", "balance", "sell"}
      BY <2>1 DEF ManageMinute, RouteExit, Stages
    <2> QED
      BY <1>1, <1>u, <2>2, <2>3
  <1>15. ASSUME NEW r \in Broker!Results, SellReturns(r)
         PROVE  LiveRow'
    BY <1>1, <1>u, <1>15 DEF SellReturns, Stages
  <1>16. CASE ReadBalance \/ CountRisk \/ NoEntry \/ MinuteUnread
    <2>1. boot = "running"
      BY <1>16 DEF ReadBalance, CountRisk, NoEntry, MinuteUnread, Stages
    <2> QED
      BY <1>1, <1>u, <1>16, <2>1 DEF ReadBalance, CountRisk, NoEntry, MinuteUnread
  <1>17. ASSUME NEW pnl \in {"win", "loss"}, CloseTrade(pnl)
         PROVE  LiveRow'
    <2>1. CloseRow(pos.row, pnl) /\ boot = "running" /\ UNCHANGED boot
      BY <1>17 DEF CloseTrade, Stages
    <2>2. OpenRows("live")' = {}
      BY <2>1 DEF CloseRow, OpenRows, Row
    <2>3. pc' = "closeTwin" \/ pos' = NoPosition
      BY <1>17 DEF CloseTrade, GiveUpPosition
    <2> QED
      BY <1>2, <2>1, <2>2, <2>3
  <1>18. ASSUME NEW pnl \in {"win", "loss"}, CloseTwin(pnl)
         PROVE  LiveRow'
    <2>1. boot = "running" /\ UNCHANGED boot /\ pos' = NoPosition
      BY <1>18 DEF CloseTwin, GiveUpPosition, Stages
    <2>2. OpenRows("live")' = {}
      BY <1>18 DEF CloseTwin, CloseRow, OpenRows, Row
    <2> QED
      BY <1>2, <2>1, <2>2
  <1>19. CASE Enter \/ TestEntry
    <2>1. /\ boot = "running" /\ pos = NoPosition /\ OpenRows("live") = {}
          /\ UNCHANGED <<boot, rows>>
      BY <1>19 DEF Enter, TestEntry, Stages
    <2>2. pos' = NoPosition \/ pos' = Opened("paper")
      BY <1>19, <2>1 DEF Enter, TestEntry, RouteEntry
    <2> QED
      BY <1>2, <1>u, <2>1, <2>2
  <1>20. CASE StartPass
    BY <1>1, <1>u, <1>20 DEF StartPass, Take
  <1>21. ASSUME StartSquareOff, UNCHANGED <<boot, rows>>
         PROVE  LiveRow'
    <2>1. pos'.ledger = pos.ledger /\ pos'.row = pos.row
      BY <1>21 DEF StartSquareOff, Position
    <2>2. boot = "running" /\ pc = "free" /\ pc' = "manage"
      BY <1>21 DEF StartSquareOff, Take, Stages
    <2> QED
      BY <1>1, <1>u, <1>21, <2>1, <2>2
  <1>o. ASSUME UNCHANGED <<pc, pos, rows, boot, side, result>>
        PROVE  LiveRow'
    BY <1>1, <1>3, <1>u, <1>o
  <1>22. CASE SquareOff \/ KillSquareOff
    BY <1>21, <1>22, <1>o DEF SquareOff, KillSquareOff, brokerVars
  <1>23. CASE Resume \/ HumanSells
    BY <1>o, <1>23 DEF Resume, HumanSells, brokerVars
  <1>24. CASE BrokerActs
    BY <1>o, <1>24
    DEF BrokerActs, Broker!Execute, Broker!Void, Broker!ExecuteLate, Broker!VoidLate
  <1>25. CASE PaperReset
    <2>1. OpenRows("live")' = OpenRows("live")
      BY <1>25, PaperResetKeepsLive
    <2> QED
      BY <1>1, <1>3, <1>25, <2>1 DEF PaperReset, brokerVars
  <1>26. CASE Restart
    <2>1. pc = "free" /\ UNCHANGED <<brokerVars, rows>> /\ boot' = "down" /\ pc' = "free"
      BY <1>26 DEF Restart, Stages
    <2>2. pos'.ledger = "none"
      BY <1>26 DEF Restart
    <2>3. CASE boot = "running"
      BY <1>u, <2>1, <2>2, <2>3 DEF SoldOnce, Sold, brokerVars
    <2>4. CASE boot # "running"
      BY <1>u, <2>1, <2>2, <2>4 DEF Sold, brokerVars
    <2> QED
      BY <2>3, <2>4
  <1>27. CASE Boot
    BY <1>3, <1>u, <1>27 DEF Boot, brokerVars
  <1>28. CASE AdoptRead
    <2>1. CASE boot' = "binding"
      BY <1>3, <1>u, <1>28, <2>1 DEF AdoptRead, brokerVars
    <2>2. CASE boot' # "binding"
      BY <1>u, <1>28, <2>2 DEF AdoptRead, Stages
    <2> QED
      BY <2>1, <2>2
  <1>29. CASE AdoptBind
    <2>1. /\ pos'.ledger = rows[found].ledger /\ pos'.row = found
          /\ boot = "binding" /\ boot' = "running" /\ pc' = "free"
      BY <1>29 DEF AdoptBind, Opened, NoPosition, Stages
    <2>2. rows[found].ledger = "live" => found \in OpenRows("live")
      BY <2>1 DEF FoundLive, OpenRows
    <2>3. rows[found].ledger # "live" => OpenRows("live") = {}
      BY <2>1 DEF FoundLive
    <2> QED
      BY <1>u, <1>29, <2>1, <2>2, <2>3 DEF AdoptBind
  <1>30. ASSUME NEW c \in Configs, SaveConfig(c)
         PROVE  LiveRow'
    BY <1>o, <1>30 DEF SaveConfig, brokerVars
  <1>31. CASE UNCHANGED vars
    BY <1>o, <1>31 DEF brokerVars
  <1> QED
    BY <1>11, <1>12, <1>13, <1>14, <1>15, <1>16, <1>17, <1>18, <1>19, <1>20, <1>22, <1>23,
       <1>24, <1>25, <1>26, <1>27, <1>28, <1>29, <1>30, <1>31
    DEF Next, InOperation

LEMMA SoldOnceStep ==
    ASSUME FaultsAllowed, Facts, Accounted, [Next]_vars
    PROVE  SoldOnce'
  <1>f. /\ "midcrash" \notin Faults /\ "balance" \notin Faults
    BY DEF FaultsAllowed
  <1>s. /\ Stages /\ SoldOnce /\ LiveRow /\ FoundLive /\ pos \in Position
    BY DEF Facts, TypeOK, Accounted
  <1>p. NoPosition.ledger = "none" /\ \A l : Opened(l).ledger = l
    BY DEF NoPosition, Opened
  <1> USE <1>f, <1>s, <1>p DEF SoldOnce, Sold, bootVars, lockVars, askVars, riskVars,
              ledgerVars, brokerVars, vars, Goto, Done
  <1>1. ASSUME pos'.ledger = pos.ledger, UNCHANGED <<side, result>>,
               pc \in {"balance", "close", "closeTwin"} =>
                   pc' \in {"balance", "close", "closeTwin"}
        PROVE  SoldOnce'
    BY <1>1
  <1>11. ASSUME NEW r \in Broker!Results, BuyReturns(r)
         PROVE  SoldOnce'
    BY <1>11 DEF BuyReturns, Answer, Broker!Return, Stages
  <1>12. ASSUME NEW i \in Ids, InsertTrade(i) \/ InsertTwin(i)
         PROVE  SoldOnce'
    <2>1. pos'.ledger = pos.ledger
      BY <1>12 DEF InsertTrade, InsertTwin, Position
    <2> QED
      BY <1>1, <1>12, <2>1 DEF InsertTrade, InsertTwin
  <1>13. CASE Manage
    <2>1. PICK engineExit, timedExit, priced \in BOOLEAN :
              ManageMinute(engineExit, timedExit, priced)
      BY <1>13 DEF Manage
    <2>2. pos'.ledger = pos.ledger
      BY <2>1 DEF ManageMinute, Position
    <2>3. CASE UNCHANGED brokerVars
      BY <1>1, <2>1, <2>2, <2>3 DEF ManageMinute
    <2>4. CASE Broker!Begin("SELL")
      BY <2>4 DEF Broker!Begin
    <2> QED
      BY <2>1, <2>3, <2>4 DEF ManageMinute, RouteExit
  <1>14. ASSUME NEW r \in Broker!Results, SellReturns(r)
         PROVE  SoldOnce'
    BY <1>14 DEF SellReturns, Answer, Broker!Return
  <1>15. CASE ReadBalance \/ CountRisk \/ NoEntry \/ MinuteUnread
    BY <1>1, <1>15 DEF ReadBalance, CountRisk, NoEntry, MinuteUnread
  <1>16. ASSUME NEW pnl \in {"win", "loss"}, CloseTrade(pnl) \/ CloseTwin(pnl)
         PROVE  SoldOnce'
    BY <1>1, <1>16 DEF CloseTrade, CloseTwin, GiveUpPosition
  <1>17. CASE Enter \/ TestEntry
    BY <1>17 DEF Enter, TestEntry, RouteEntry, Stages
  <1>18. CASE StartPass
    BY <1>1, <1>18 DEF StartPass, Take
  <1>19. ASSUME StartSquareOff, UNCHANGED brokerVars
         PROVE  SoldOnce'
    <2>1. pos'.ledger = pos.ledger
      BY <1>19 DEF StartSquareOff, Position
    <2> QED
      BY <1>1, <1>19, <2>1 DEF StartSquareOff, Take
  <1>20. CASE SquareOff \/ KillSquareOff
    BY <1>1, <1>19, <1>20 DEF SquareOff, KillSquareOff
  <1>21. CASE Resume \/ HumanSells \/ PaperReset
    BY <1>1, <1>21 DEF Resume, HumanSells, PaperReset
  <1>22. CASE BrokerActs
    BY <1>1, <1>22
    DEF BrokerActs, Broker!Execute, Broker!Void, Broker!ExecuteLate, Broker!VoidLate
  <1>23. CASE Restart
    BY <1>23 DEF Restart
  <1>24. CASE Boot \/ AdoptRead
    BY <1>1, <1>24 DEF Boot, AdoptRead
  <1>25. CASE AdoptBind
    <2>1. pos'.ledger = rows[found].ledger /\ boot = "binding"
      BY <1>25 DEF AdoptBind, Opened, NoPosition
    <2>2. rows[found].ledger = "live" => OpenRows("live") # {}
      BY <2>1 DEF FoundLive, OpenRows
    <2> QED
      BY <1>25, <2>1, <2>2 DEF AdoptBind, LiveRow
  <1>26. ASSUME NEW c \in Configs, SaveConfig(c)
         PROVE  SoldOnce'
    BY <1>1, <1>26 DEF SaveConfig
  <1>27. CASE UNCHANGED vars
    BY <1>1, <1>27
  <1> QED
    BY <1>11, <1>12, <1>13, <1>14, <1>15, <1>16, <1>17, <1>18, <1>20, <1>21, <1>22, <1>23,
       <1>24, <1>25, <1>26, <1>27
    DEF Next, InOperation

LEMMA PagedStays == ledgerPaged /\ [Next]_vars => ledgerPaged'
  BY DEF Next, InOperation, BuyReturns, SellReturns, InsertTrade, InsertTwin, CloseTrade,
     CloseTwin, Manage, ManageMinute, ReadBalance, CountRisk, NoEntry, MinuteUnread, Enter,
     StartPass, TestEntry, SquareOff, KillSquareOff, Resume, SaveConfig, HumanSells, PaperReset,
     Restart, Boot, AdoptRead, AdoptBind, BrokerActs, ledgerVars, vars

-----------------------------------------------------------------------------
(* The ledger tells what is open.  A restart forgets which row is a twin, so *)
(* this is proved without restarts or without shadow mode.                   *)

TwinsAreKept == ~Shadow \/ "restart" \notin Faults

\* The open trades of the ledger, twins aside.
OpenTrades == {i \in Ids : rows[i].state = "open" /\ ~rows[i].twin}

NoTwins == pos.twin = 0 /\ pc # "insertTwin" /\ \A i \in Ids : ~rows[i].twin

TwinsKnown == IF Shadow THEN boot = "running" ELSE NoTwins

\* The managed position has the only open row, from its insert to its close;
\* after a restart that row is what adoption finds.
Recorded ==
    /\ boot = "running" => OpenTrades = IF pc = "closeTwin" THEN {} ELSE {pos.row} \ {0}
    /\ pos.row # 0 <=> pos.ledger # "none" /\ pc # "insert"
    /\ boot # "running" => \A i, j \in OpenTrades : i = j
    /\ boot = "binding" => found \in OpenTrades

LInv == IInv /\ TwinsKnown /\ (ledgerPaged \/ Recorded)

LEMMA NoTwinsStep ==
    ASSUME ~Shadow, Facts, NoTwins, [Next]_vars
    PROVE  NoTwins'
  <1>t. rows \in [Ids -> Row] /\ pos \in Position
    BY DEF Facts, TypeOK
  <1>p. NoPosition.twin = 0 /\ \A l : Opened(l).twin = 0
    BY DEF NoPosition, Opened
  <1> USE <1>t, <1>p DEF NoTwins, bootVars, lockVars, askVars, riskVars, ledgerVars, vars,
                         Goto, Done
  <1>1. ASSUME UNCHANGED <<pos, rows>>, pc' # "insertTwin"
        PROVE  NoTwins'
    BY <1>1
  <1>2. ASSUME NEW r \in Broker!Results, BuyReturns(r) \/ SellReturns(r)
        PROVE  NoTwins'
    BY <1>2 DEF BuyReturns, SellReturns
  <1>3. ASSUME NEW i \in Ids, InsertTrade(i)
        PROVE  NoTwins'
    <2>1. pos'.twin = 0
      BY <1>3 DEF InsertTrade, Position
    <2>2. \A j \in Ids : ~rows'[j].twin
      BY <1>3 DEF InsertTrade, AddRow, Row
    <2> QED
      BY <1>3, <2>1, <2>2 DEF InsertTrade
  <1>4. ASSUME NEW i \in Ids, NEW pnl \in {"win", "loss"}, CloseRow(i, pnl)
        PROVE  \A j \in Ids : ~rows'[j].twin
    BY <1>4 DEF CloseRow, Row
  <1>5. ASSUME NEW pnl \in {"win", "loss"}, CloseTrade(pnl)
        PROVE  NoTwins'
    <2>1. \A j \in Ids : ~rows'[j].twin
      BY <1>4, <1>5 DEF CloseTrade, Position
    <2> QED
      BY <1>5, <2>1 DEF CloseTrade, GiveUpPosition
  <1>6. ASSUME NEW pnl \in {"win", "loss"}, CloseTwin(pnl)
        PROVE  NoTwins'
    BY <1>6 DEF CloseTwin, Facts, Stages
  <1>7. CASE Manage
    <2>1. PICK engineExit, timedExit, priced \in BOOLEAN :
              ManageMinute(engineExit, timedExit, priced)
      BY <1>7 DEF Manage
    <2>2. pos'.twin = 0
      BY <2>1 DEF ManageMinute, Position
    <2> QED
      BY <2>1, <2>2 DEF ManageMinute, RouteExit
  <1>8. CASE ReadBalance \/ CountRisk \/ NoEntry \/ MinuteUnread
    BY <1>8 DEF ReadBalance, CountRisk, NoEntry, MinuteUnread
  <1>9. ASSUME NEW mode, RouteEntry(mode)
        PROVE  pos'.twin = 0
    BY <1>9 DEF RouteEntry
  <1>10. CASE Enter \/ TestEntry
    BY <1>9, <1>10 DEF Enter, TestEntry, EntryAt, Take
  <1>11. CASE StartPass
    BY <1>11 DEF StartPass, Take
  <1>12. ASSUME StartSquareOff, UNCHANGED rows
         PROVE  NoTwins'
    <2>1. pos'.twin = 0
      BY <1>12 DEF StartSquareOff, Position
    <2> QED
      BY <1>12, <2>1 DEF StartSquareOff, Take
  <1>13. CASE SquareOff \/ KillSquareOff
    BY <1>1, <1>12, <1>13 DEF SquareOff, KillSquareOff
  <1>14. CASE PaperReset
    <2>1. \A j \in Ids : ~rows'[j].twin
      BY <1>14 DEF PaperReset, Row
    <2> QED
      BY <1>14, <2>1 DEF PaperReset
  <1>15. CASE Resume \/ HumanSells \/ Boot \/ AdoptRead \/ BrokerActs
    BY <1>1, <1>15 DEF Resume, HumanSells, Boot, AdoptRead, BrokerActs
  <1>16. CASE Restart
    BY <1>16 DEF Restart
  <1>17. CASE AdoptBind
    <2>1. pos'.twin = 0
      BY <1>17 DEF AdoptBind, Opened, NoPosition
    <2> QED
      BY <1>17, <2>1 DEF AdoptBind
  <1>18. ASSUME NEW c \in Configs, SaveConfig(c)
         PROVE  NoTwins'
    BY <1>1, <1>18 DEF SaveConfig
  <1>19. CASE UNCHANGED vars
    BY <1>1, <1>19
  <1>20. ~ \E i \in Ids : InsertTwin(i)
    BY DEF InsertTwin
  <1> QED
    BY <1>2, <1>3, <1>5, <1>6, <1>7, <1>8, <1>10, <1>11, <1>13, <1>14, <1>15, <1>16, <1>17,
       <1>18, <1>19, <1>20
    DEF Next, InOperation

\* Without restarts the process that knows the twins keeps running.
LEMMA TwinsKnownStep ==
    ASSUME FaultsAllowed, TwinsAreKept, Facts, TwinsKnown, [Next]_vars
    PROVE  TwinsKnown'
  <1>1. CASE ~Shadow
    BY <1>1, NoTwinsStep DEF TwinsKnown
  <1>2. CASE Shadow
    <2>1. boot = "running" /\ ~Restart
      BY <1>2 DEF TwinsKnown, TwinsAreKept, FaultsAllowed, Restart
    <2> SUFFICES boot' = "running"
      BY <1>2 DEF TwinsKnown
    <2> USE <2>1 DEF bootVars, vars
    <2>2. CASE InOperation
      BY <2>2
      DEF InOperation, BuyReturns, SellReturns, InsertTrade, InsertTwin, CloseTrade, CloseTwin,
          Manage, ManageMinute, ReadBalance, CountRisk, NoEntry, MinuteUnread, Enter
    <2>3. CASE StartPass \/ TestEntry \/ SquareOff \/ KillSquareOff \/ Resume \/ HumanSells
               \/ PaperReset \/ Boot \/ AdoptRead \/ AdoptBind \/ BrokerActs
      BY <2>3
      DEF StartPass, TestEntry, SquareOff, KillSquareOff, Resume, HumanSells, PaperReset, Boot,
          AdoptRead, AdoptBind, BrokerActs
    <2>4. ASSUME NEW c \in Configs, SaveConfig(c)
          PROVE  boot' = "running"
      BY <2>4 DEF SaveConfig
    <2>5. CASE UNCHANGED vars
      BY <2>5
    <2> QED
      BY <2>2, <2>3, <2>4, <2>5 DEF Next
  <1> QED
    BY <1>1, <1>2 DEF TwinsAreKept

LEMMA RecordedStep ==
    ASSUME FaultsAllowed, Facts, Facts', LiveRow, TwinsKnown, Recorded, [Next]_vars, ~ledgerPaged'
    PROVE  Recorded'
  <1>f. {"bootrace", "midcrash", "adoption", "reset"} \cap Faults = {}
    BY DEF FaultsAllowed
  <1>t. /\ rows \in [Ids -> Row] /\ pos \in Position
        /\ Stages /\ FoundLive /\ Ids \subseteq Nat \ {0}
    BY MaxRowsAssumption DEF Facts, TypeOK, Ids
  <1>p. /\ NoPosition.ledger = "none" /\ NoPosition.row = 0
        /\ \A l : Opened(l).ledger = l /\ Opened(l).row = 0
    BY DEF NoPosition, Opened
  <1> USE <1>f, <1>t, <1>p DEF Recorded, bootVars, lockVars, askVars, riskVars, ledgerVars,
                               vars, Goto, Done
  <1>o. ASSUME UNCHANGED <<rows, boot, found>>, pos'.row = pos.row, pos'.ledger = pos.ledger,
               (pc = "closeTwin" /\ pc' = pc) \/ (pc' # "closeTwin" /\ pc # "closeTwin"),
               (pc = "insert" /\ pc' = pc) \/ (pc' # "insert" /\ pc # "insert")
        PROVE  Recorded'
    BY <1>o DEF OpenTrades
  <1>1. ASSUME NEW r \in Broker!Results, BuyReturns(r)
        PROVE  Recorded'
    <2>1. pos = NoPosition /\ boot = "running" /\ pc = "buy" /\ UNCHANGED <<boot, rows>>
      BY <1>1 DEF BuyReturns, Stages
    <2> QED
      BY <1>1, <2>1 DEF BuyReturns, OpenTrades
  <1>2. ASSUME NEW i \in Ids, InsertTrade(i)
        PROVE  Recorded'
    <2>1. /\ boot = "running" /\ boot' = boot /\ pos.row = 0 /\ pos.ledger # "none"
          /\ OpenTrades = {} /\ pc' \in {"free", "insertTwin"}
      BY <1>2 DEF InsertTrade, Stages
    <2>2. AddRow(i, pos.ledger, FALSE) /\ pos' = [pos EXCEPT !.row = i]
      BY <1>2 DEF InsertTrade
    <2>3. OpenTrades' = {i}
      BY <2>1, <2>2 DEF OpenTrades, AddRow, Row
    <2>4. pos'.row = i /\ pos'.ledger = pos.ledger
      BY <2>2 DEF Position
    <2> QED
      BY <2>1, <2>3, <2>4
  <1>3. ASSUME NEW i \in Ids, InsertTwin(i)
        PROVE  Recorded'
    <2>1. /\ boot = "running" /\ boot' = boot /\ pc = "insertTwin" /\ pc' = "free"
          /\ pos'.row = pos.row /\ pos'.ledger = pos.ledger
      BY <1>3 DEF InsertTwin, Stages, Position
    <2>2. OpenTrades' = OpenTrades
      BY <1>3 DEF InsertTwin, AddRow, FreshRow, OpenTrades, Row
    <2> QED
      BY <2>1, <2>2
  <1>4. ASSUME NEW r \in Broker!Results, SellReturns(r)
        PROVE  Recorded'
    BY <1>o, <1>4 DEF SellReturns
  <1>5. CASE Manage
    <2>1. PICK engineExit, timedExit, priced \in BOOLEAN :
              ManageMinute(engineExit, timedExit, priced)
      BY <1>5 DEF Manage
    <2>2. pos'.ledger = pos.ledger /\ pos'.row = pos.row
      BY <2>1 DEF ManageMinute, Position
    <2> QED
      BY <1>o, <2>1, <2>2 DEF ManageMinute, RouteExit
  <1>6. CASE ReadBalance \/ NoEntry \/ MinuteUnread \/ CountRisk
    BY <1>o, <1>6 DEF ReadBalance, NoEntry, MinuteUnread, CountRisk
  <1>7. ASSUME NEW pnl \in {"win", "loss"}, CloseTrade(pnl)
        PROVE  Recorded'
    <2>1. boot = "running" /\ boot' = boot /\ pc = "close" /\ CloseRow(pos.row, pnl)
      BY <1>7 DEF CloseTrade, Stages
    <2>2. OpenTrades' = {}
      <3>1. OpenTrades = {pos.row} \ {0}
        BY <2>1
      <3> QED
        BY <2>1, <3>1 DEF CloseRow, OpenTrades, Row
    <2>3. \/ pc' = "closeTwin" /\ pos' = pos
          \/ pc' \in {"free", "recount"} /\ pos' = NoPosition
      BY <1>7 DEF CloseTrade, GiveUpPosition
    <2> QED
      BY <2>1, <2>2, <2>3
  <1>8. ASSUME NEW pnl \in {"win", "loss"}, CloseTwin(pnl)
        PROVE  Recorded'
    <2>1. /\ boot = "running" /\ boot' = boot /\ pc = "closeTwin" /\ OpenTrades = {}
          /\ pc' \in {"free", "recount"} /\ pos' = NoPosition
      BY <1>8 DEF CloseTwin, GiveUpPosition, Stages
    <2>2. OpenTrades' = {}
      BY <1>8, <2>1 DEF CloseTwin, CloseRow, OpenTrades, Row
    <2> QED
      BY <2>1, <2>2
  <1>9. CASE Enter \/ TestEntry
    <2>1. /\ boot = "running" /\ pos = NoPosition /\ UNCHANGED <<boot, rows>>
          /\ pc \in {"free", "hunt"} /\ pc' \in {"buy", "insert"}
      BY <1>9 DEF Enter, TestEntry, Take, EntryAt, Stages
    <2>2. \/ pos' = NoPosition /\ pc' = "buy"
          \/ pos' = Opened("paper") /\ pc' = "insert"
      BY <1>9, <2>1 DEF Enter, TestEntry, Take, RouteEntry, EntryAt
    <2> QED
      BY <2>1, <2>2 DEF OpenTrades
  <1>10. CASE StartPass
    BY <1>o, <1>10 DEF StartPass, Take
  <1>11. ASSUME StartSquareOff, UNCHANGED <<boot, found, rows>>
         PROVE  Recorded'
    <2>1. pos'.ledger = pos.ledger /\ pos'.row = pos.row
      BY <1>11 DEF StartSquareOff, Position
    <2> QED
      BY <1>o, <1>11, <2>1 DEF StartSquareOff, Take
  <1>s. ASSUME UNCHANGED <<rows, boot, found, pos, pc>>
        PROVE  Recorded'
    BY <1>s DEF OpenTrades
  <1>12. CASE SquareOff \/ KillSquareOff
    BY <1>s, <1>11, <1>12 DEF SquareOff, KillSquareOff
  <1>13. CASE PaperReset
    <2>1. boot = "running" /\ pos.ledger # "paper" /\ UNCHANGED <<pos, pc, boot, found>>
      BY <1>13 DEF PaperReset
    <2>2. OpenTrades' \subseteq OpenTrades
      BY <1>13 DEF PaperReset, OpenTrades, Row
    <2>3. \A i \in OpenTrades : rows[i].ledger = "live" => i \in OpenTrades'
      BY <1>13 DEF PaperReset, OpenTrades, Row
    <2>4. OpenTrades' = OpenTrades
      <3>1. CASE pos.ledger = "live" /\ pc \notin {"insert", "closeTwin"}
        <4>1. pos.row \in OpenRows("live") /\ OpenTrades = {pos.row} \ {0}
          BY <2>1, <3>1 DEF LiveRow
        <4> QED
          BY <2>2, <2>3, <4>1 DEF OpenRows
      <3>2. CASE ~(pos.ledger = "live" /\ pc \notin {"insert", "closeTwin"})
        <4>1. OpenTrades = {}
          BY <2>1, <3>2 DEF Position, Ledgers
        <4> QED
          BY <2>2, <4>1
      <3> QED
        BY <3>1, <3>2
    <2> QED
      BY <2>1, <2>4
  <1>14. CASE Restart
    <2>1. /\ boot' = "down" /\ pos' = NoPosition /\ pc = "free" /\ pc' = "free"
          /\ UNCHANGED rows
      BY <1>14 DEF Restart
    <2>2. \A i, j \in OpenTrades : i = j
      BY <2>1 DEF Stages
    <2> QED
      BY <2>1, <2>2 DEF OpenTrades
  <1>15. CASE Boot
    BY <1>15 DEF Boot, OpenTrades
  <1>16. CASE AdoptRead
    <2>1. /\ boot = "adopting" /\ pc = "free" /\ pos = NoPosition
          /\ UNCHANGED <<pc, pos, rows>>
      BY <1>16 DEF AdoptRead, Stages
    <2>2. NoTwins
      BY <2>1 DEF TwinsKnown
    <2>3. OpenTrades = OpenRows("live") \cup OpenRows("paper")
      BY <2>2 DEF NoTwins, OpenTrades, OpenRows, Row, Ledgers
    <2>4. OpenTrades' = OpenTrades
      BY <2>1 DEF OpenTrades
    <2>5. CASE boot' = "binding"
      <3>1. found' \in OpenTrades
        BY <1>16, <2>3, <2>5 DEF AdoptRead, Ledgers
      <3> QED
        BY <2>1, <2>4, <2>5, <3>1
    <2>6. CASE boot' = "running"
      <3>1. OpenTrades = {}
        BY <1>16, <2>3, <2>6 DEF AdoptRead
      <3> QED
        BY <2>1, <2>4, <2>6, <3>1
    <2> QED
      BY <1>16, <2>5, <2>6 DEF AdoptRead
  <1>17. CASE AdoptBind
    <2>1. /\ boot = "binding" /\ boot' = "running" /\ pc = "free" /\ UNCHANGED <<pc, rows>>
          /\ pos'.row = found /\ pos'.ledger = rows[found].ledger
      BY <1>17 DEF AdoptBind, Stages, Opened, NoPosition
    <2>2. found \in Ids /\ rows[found].ledger # "none" /\ found # 0
      BY <2>1 DEF FoundLive, Row, Ledgers
    <2>3. OpenTrades = {found}
      BY <2>1
    <2>4. OpenTrades' = OpenTrades
      BY <2>1 DEF OpenTrades
    <2> QED
      BY <2>1, <2>2, <2>3, <2>4
  <1>18. CASE Resume \/ HumanSells \/ BrokerActs
    BY <1>s, <1>18 DEF Resume, HumanSells, BrokerActs
  <1>19. ASSUME NEW c \in Configs, SaveConfig(c)
         PROVE  Recorded'
    BY <1>s, <1>19 DEF SaveConfig
  <1>20. CASE UNCHANGED vars
    BY <1>s, <1>20
  <1> QED
    BY <1>1, <1>2, <1>3, <1>4, <1>5, <1>6, <1>7, <1>8, <1>9, <1>10, <1>12, <1>13, <1>14, <1>15,
       <1>16, <1>17, <1>18, <1>19, <1>20
    DEF Next, InOperation

-----------------------------------------------------------------------------
(* The theorems *)

LEMMA IInvInit == Init => IInv
  <1> SUFFICES ASSUME Init
               PROVE  IInv
    OBVIOUS
  <1> USE DEF Init, Broker!Init, Broker!Sides
  <1>1. BrokerTypes
    BY DEF BrokerTypes, Broker!Results
  <1>2. FlagTypes
    BY Zenon DEF FlagTypes
  <1>3. NoRow \in Row /\ NoRun \in Run
    BY DEF NoRow, Row, NoRun, Run, Ledgers
  <1>4. EngineTypes
    BY <1>3, PositionTypes DEF EngineTypes, Ledgers
  <1>5. pos = NoPosition /\ pos.ledger = "none" /\ phase = "idle" /\ ~unknown
    BY DEF NoPosition
  <1>6. OpenRows("live") = {}
    BY DEF OpenRows, NoRow
  <1>7. Stages /\ UnknownWaits /\ OpenIsReported /\ SoldIsSettling /\ FoundLive
    BY <1>5 DEF Stages, UnknownWaits, OpenIsReported, SoldIsSettling, FoundLive
  <1>8. OneLot /\ Covered /\ LiveRow /\ SoldOnce
    BY <1>5, <1>6 DEF OneLot, Covered, LiveRow, SoldOnce, Sold
  <1> QED
    BY <1>1, <1>2, <1>4, <1>7, <1>8, TypeParts DEF IInv, Accounted

LEMMA IInvStep ==
    ASSUME FaultsAllowed
    PROVE  IInv /\ [Next]_vars => IInv'
  <1> SUFFICES ASSUME IInv, [Next]_vars
               PROVE  IInv'
    OBVIOUS
  <1>1. Facts /\ Facts'
    BY FactsStep DEF IInv, Facts
  <1>2. CASE ledgerPaged'
    BY <1>1, <1>2 DEF IInv, Facts
  <1>3. CASE ~ledgerPaged'
    <2>1. Accounted
      BY <1>3, PagedStays DEF IInv
    <2>2. OneLot' /\ Covered' /\ LiveRow' /\ SoldOnce'
      BY <1>1, <1>3, <2>1, OneLotStep, CoveredStep, LiveRowStep, SoldOnceStep
    <2> QED
      BY <1>1, <2>2 DEF IInv, Facts, Accounted
  <1> QED
    BY <1>2, <1>3

LEMMA IInvHolds ==
    ASSUME FaultsAllowed
    PROVE  Spec => []IInv
  BY IInvInit, IInvStep, PTL DEF Spec

\* Every variable keeps its type: no operation works on a row or a position
\* that is not there.
THEOREM OrchestratorTypeCorrect ==
    ASSUME FaultsAllowed
    PROVE  Spec => []TypeOK
  BY IInvHolds, PTL DEF IInv

\* Sequencing rule: whatever the broker answers and executes, and however
\* often the ledger fails or the process restarts between operations, the
\* broker never comes to hold two lots before a human was asked to patch the
\* ledger.
THEOREM OneExposureHolds ==
    ASSUME FaultsAllowed
    PROVE  Spec => []OneExposure
  <1>1. IInv => OneExposure
    BY DEF IInv, Accounted, OneLot, OneExposure, Exposure
  <1> QED
    BY <1>1, IInvHolds, PTL

\* Between two operations every lot is managed, is being sold, or was paged.
THEOREM NoOrphanHolds ==
    ASSUME FaultsAllowed
    PROVE  Spec => []NoOrphan
  <1>1. IInv => NoOrphan
    BY DEF IInv, Accounted, OneLot, Covered, NoOrphan, Exposure
  <1> QED
    BY <1>1, IInvHolds, PTL

\* No SELL follows one that executed or probably executed.
THEOREM NoSecondSellHolds ==
    ASSUME FaultsAllowed
    PROVE  Spec => NoSecondSell
  <1>1. IInv /\ [Next]_vars =>
          (phase = "idle" /\ phase' = "busy" /\ side' = "SELL" =>
              ~(side = "SELL" /\ result \in {"filled", "assumed"}) \/ ledgerPaged)
    <2> SUFFICES ASSUME IInv, Accounted, [Next]_vars,
                        phase = "idle", phase' = "busy", side' = "SELL"
                 PROVE  ~Sold
      BY DEF IInv, Sold
    <2>1. "midcrash" \notin Faults
      BY DEF FaultsAllowed
    <2>2. CASE Manage
      <3>1. pc = "manage" /\ pos.ledger \in Ledgers /\ pos.ledger # "paper"
        BY <2>2 DEF Manage, ManageMinute, RouteExit, IInv, TypeOK, Stages, Position, brokerVars
      <3> QED
        BY <3>1 DEF Accounted, SoldOnce, Ledgers
    <2>3. ASSUME NEW r, Answer(r)
          PROVE  FALSE
      BY <2>3 DEF Answer, Broker!Return
    <2>4. ASSUME NEW mode, RouteEntry(mode)
          PROVE  FALSE
      BY <2>4 DEF RouteEntry, Broker!Begin, brokerVars
    <2>5. ~UNCHANGED brokerVars
      BY DEF brokerVars
    <2>6. CASE InOperation
      BY <2>2, <2>3, <2>4, <2>5, <2>6
      DEF InOperation, BuyReturns, SellReturns, InsertTrade, InsertTwin, CloseTrade, CloseTwin,
          ReadBalance, CountRisk, NoEntry, MinuteUnread, Enter
    <2>7. ASSUME BrokerActs \/ HumanSells
          PROVE  FALSE
      BY <2>7
      DEF BrokerActs, HumanSells, Broker!Execute, Broker!Void, Broker!ExecuteLate,
          Broker!VoidLate
    <2>8. ASSUME StartPass \/ TestEntry \/ SquareOff \/ KillSquareOff \/ Resume \/ PaperReset
                 \/ Restart \/ Boot \/ AdoptRead \/ AdoptBind
          PROVE  FALSE
      BY <2>4, <2>5, <2>8
      DEF StartPass, TestEntry, SquareOff, KillSquareOff, Resume, PaperReset, Restart,
          Broker!Abandon, Boot, AdoptRead, AdoptBind
    <2>9. ASSUME NEW c \in Configs, SaveConfig(c)
          PROVE  FALSE
      BY <2>5, <2>9 DEF SaveConfig
    <2>10. ~UNCHANGED vars
      BY <2>5 DEF vars, brokerVars
    <2> QED
      BY <2>6, <2>7, <2>8, <2>9, <2>10 DEF Next
  <1> QED
    BY <1>1, IInvHolds, PTL DEF Spec, NoSecondSell

LEMMA OnlyEnterEnters == EngineEnters /\ [Next]_vars => Enter
  <1> SUFFICES ASSUME pc = "hunt", pc' \in {"buy", "insert"}, [Next]_vars
               PROVE  Enter
    BY DEF EngineEnters
  <1>1. CASE InOperation
    BY <1>1
    DEF InOperation, BuyReturns, SellReturns, InsertTrade, InsertTwin, Manage, ManageMinute,
        ReadBalance, CloseTrade, CloseTwin, CountRisk, NoEntry, MinuteUnread, Done
  <1>2. CASE StartPass \/ TestEntry \/ SquareOff \/ KillSquareOff \/ Resume \/ HumanSells
             \/ PaperReset \/ Restart \/ Boot \/ AdoptRead \/ AdoptBind \/ BrokerActs
    BY <1>2
    DEF StartPass, TestEntry, SquareOff, StartSquareOff, KillSquareOff, Take, Resume,
        HumanSells, PaperReset, Restart, Boot, AdoptRead, AdoptBind, BrokerActs, lockVars, Done
  <1>3. ASSUME NEW c \in Configs, SaveConfig(c)
        PROVE  Enter
    BY <1>3 DEF SaveConfig, lockVars
  <1>4. CASE UNCHANGED vars
    BY <1>4 DEF vars, lockVars
  <1> QED
    BY <1>1, <1>2, <1>3, <1>4 DEF Next

\* The engine does not buy while an UNKNOWN order waits for a human.
THEOREM UnknownStopsEngineHolds ==
    ASSUME FaultsAllowed
    PROVE  Spec => UnknownStopsEngine
  <1>1. IInv /\ [Next]_vars => (EngineEnters => ~unknown)
    BY OnlyEnterEnters DEF Enter, IInv, UnknownWaits
  <1> QED
    BY <1>1, IInvHolds, PTL DEF Spec, UnknownStopsEngine

LEMMA LInvInit == Init => LInv
  <1> SUFFICES ASSUME Init
               PROVE  LInv
    OBVIOUS
  <1>1. /\ boot = "running" /\ pc = "free" /\ pos.row = 0 /\ pos.twin = 0
        /\ pos.ledger = "none"
    BY DEF Init, NoPosition
  <1>2. \A i \in Ids : rows[i].state = "unused" /\ ~rows[i].twin
    BY DEF Init, NoRow
  <1> QED
    BY <1>1, <1>2, IInvInit DEF LInv, TwinsKnown, NoTwins, Recorded, OpenTrades

LEMMA LInvStep ==
    ASSUME FaultsAllowed, TwinsAreKept
    PROVE  LInv /\ [Next]_vars => LInv'
  <1> SUFFICES ASSUME LInv, [Next]_vars
               PROVE  LInv'
    OBVIOUS
  <1>1. IInv /\ IInv' /\ Facts /\ Facts'
    BY IInvStep DEF LInv, IInv, Facts
  <1>2. TwinsKnown'
    BY <1>1, TwinsKnownStep DEF LInv
  <1>3. CASE ~ledgerPaged'
    <2>1. LiveRow /\ Recorded
      BY <1>3, PagedStays DEF LInv, IInv, Accounted
    <2> QED
      BY <1>1, <1>2, <1>3, <2>1, RecordedStep DEF LInv
  <1> QED
    BY <1>1, <1>2, <1>3 DEF LInv

\* Between two operations the ledger's open trades, twins aside, are the managed
\* position, paper or live, through failing ledgers and paper resets, and through
\* restarts when no twins are kept: adoption takes over what was managed
\* (adopt_open_trade, orchestrator.py:1757).
THEOREM LedgerMatchesHolds ==
    ASSUME FaultsAllowed, TwinsAreKept
    PROVE  Spec => []LedgerMatches
  <1>1. LInv => LedgerMatches
    BY DEF LInv, Recorded, LedgerMatches, OpenTrades
  <1> QED
    BY <1>1, LInvInit, LInvStep, PTL DEF Spec

-----------------------------------------------------------------------------
(* The loss streak.  _risk_gate counts the losses at the end of closed[n:];  *)
(* the history of the property counts them as they are booked.               *)

\* The members of C after the first n, and those at their end that are in L.
Numbered(C, n) == {i \in C : Cardinality({j \in C : j <= i}) > n}

LastLosses(C, n, L) ==
    {i \in Numbered(C, n) : \A j \in Numbered(C, n) : j >= i => j \in L}

\* What the Resume checkpoint has already counted on a ledger.
Skipped(l) == IF ckpt.ledger = l THEN ckpt.count ELSE 0

Losses      == {i \in Ids : rows[i].state = "loss"}
Trailing(l) == LastLosses(ClosedRows(l), Skipped(l), Losses)

\* Ids are handed out in order.
RowsInOrder ==
    \A i, j \in Ids : i < j /\ rows[i].state = "unused" => rows[j].state = "unused"

\* No trade of its ledger was closed since the row was opened.
IsNewest(i) == \A j \in ClosedRows(rows[i].ledger) : j < i

\* What is closed is the newest trade of its ledger, the twin in the paper one.
TwinIsNewest ==
    pos.twin # 0 =>
        /\ pos.ledger = "live" /\ rows[pos.twin].ledger = "paper"
        /\ rows[pos.twin].twin /\ rows[pos.twin].state # "unused"
        /\ rows[pos.twin].state = "open" => IsNewest(pos.twin)

ClosesNewest == TwinIsNewest /\ \A i \in OpenTrades : IsNewest(i)

\* Only a live trade is mirrored.
TwinOfLive == pc = "insertTwin" => pos.ledger = "live"

\* The gate counts every loss in a row, and what Resume skips is closed.
StreakIsCounted ==
    \A l \in Ledgers :
        /\ Skipped(l) <= Cardinality(ClosedRows(l))
        /\ streak[l] <= Cardinality(Trailing(l))

\* The hunt rests on a gate computed after the last close.
GateIsFresh == pc = "hunt" /\ paused = "no" /\ ~run.blocked => streak[run.mode] < MaxLosses

SInv ==
    /\ LInv /\ RowsInOrder /\ TwinOfLive
    /\ ledgerPaged \/ (ClosesNewest /\ StreakIsCounted /\ GateIsFresh)

\* A loss after all others lengthens the streak by one.
LEMMA OneLossMore ==
    ASSUME NEW C, IsFiniteSet(C), C \subseteq Nat, NEW n \in Nat, n <= Cardinality(C), NEW L,
           NEW i \in Nat, \A j \in C : j < i,
           NEW M, i \in M, \A j \in C : j \in L <=> j \in M
    PROVE  Cardinality(LastLosses(C \cup {i}, n, M)) = Cardinality(LastLosses(C, n, L)) + 1
  <1> DEFINE D == C \cup {i}
             Upto(S, k) == {j \in S : j <= k}
  <1>1. i \notin C /\ \A j \in C : j \in Nat /\ j < i
    OBVIOUS
  <1>2. Upto(D, i) = D /\ Cardinality(D) = Cardinality(C) + 1 /\ Cardinality(C) \in Nat
    <2>1. \A j \in D : j <= i
      BY <1>1
    <2>2. Upto(D, i) = D
      BY <2>1
    <2> QED
      BY <1>1, <2>2, FS_AddElement, FS_CardinalityType
  <1>3. \A j \in C : Upto(D, j) = Upto(C, j)
    BY <1>1
  <1>4. Numbered(D, n) = Numbered(C, n) \cup {i}
    <2>1. Cardinality({j \in D : j <= i}) > n
      BY <1>2
    <2>2. \A k \in C : {j \in D : j <= k} = {j \in C : j <= k}
      BY <1>3
    <2> QED
      BY <2>1, <2>2 DEF Numbered
  <1>5. LastLosses(D, n, M) = LastLosses(C, n, L) \cup {i}
    <2>1. Numbered(C, n) \subseteq C
      BY DEF Numbered
    <2> DEFINE N == Numbered(C, n)
    <2>0. \A j \in N : j \in C
      BY <2>1
    <2> HIDE DEF N
    <2>2. ASSUME NEW k \in N
          PROVE  (\A j \in N \cup {i} : j >= k => j \in M) <=> (\A j \in N : j >= k => j \in L)
      BY <1>1, <2>0, <2>2
    <2>3. ASSUME NEW j \in N \cup {i}, j >= i
          PROVE  j \in M
      <3>1. CASE j \in N
        <4>1. j \in Nat /\ j < i
          BY <1>1, <2>0, <3>1
        <4> QED
          BY <2>3, <4>1
      <3> QED
        BY <3>1
    <2> QED
      BY <1>4, <2>2, <2>3 DEF LastLosses, N
  <1>6. i \notin LastLosses(C, n, L) /\ IsFiniteSet(LastLosses(C, n, L))
    BY <1>1, FS_Subset DEF LastLosses, Numbered
  <1> QED
    BY <1>5, <1>6, FS_AddElement

\* Forgetting a checkpoint can only lengthen the streak.
LEMMA NothingSkipped ==
    ASSUME NEW C, IsFiniteSet(C), C \subseteq Nat, NEW n \in Nat, NEW L
    PROVE  Cardinality(LastLosses(C, n, L)) <= Cardinality(LastLosses(C, 0, L))
  <1> DEFINE Upto(k) == {j \in C : j <= k}
  <1>1. \A k \in C : IsFiniteSet(Upto(k)) /\ Cardinality(Upto(k)) \in Nat
    BY FS_Subset, FS_CardinalityType
  <1>2. \A k \in C : Cardinality(Upto(k)) > 0
    BY <1>1, FS_EmptySet
  <1>3. Numbered(C, 0) = C
    BY <1>2 DEF Numbered
  <1>4. \A k, m \in C : k <= m => Cardinality(Upto(k)) <= Cardinality(Upto(m))
    <2> TAKE k, m \in C
    <2> HAVE k <= m
    <2>1. \A j \in C : j <= k => j <= m
      OBVIOUS
    <2>2. Upto(k) \subseteq Upto(m)
      BY <2>1
    <2> QED
      BY <1>1, <2>2, FS_Subset
  <1>5. ASSUME NEW k \in LastLosses(C, n, L)
        PROVE  k \in LastLosses(C, 0, L)
    <2>1. k \in C /\ Cardinality(Upto(k)) > n /\ \A j \in Numbered(C, n) : j >= k => j \in L
      BY <1>5 DEF LastLosses, Numbered
    <2>2. ASSUME NEW j \in C, j >= k
          PROVE  j \in L
      <3>1. Cardinality(Upto(j)) > n
        BY <1>1, <1>4, <2>1, <2>2
      <3> QED
        BY <2>1, <2>2, <3>1 DEF Numbered
    <2> QED
      BY <1>3, <2>1, <2>2 DEF LastLosses
  <1>6. IsFiniteSet(LastLosses(C, 0, L))
    BY FS_Subset DEF LastLosses, Numbered
  <1> QED
    BY <1>5, <1>6, FS_Subset

\* The gate's streak is the trailing losses.
LEMMA GateCountsTrailing ==
    ASSUME NEW l
    PROVE  LossStreak(l) <=> Cardinality(Trailing(l)) >= MaxLosses
  <1>1. Counted(l) = Numbered(ClosedRows(l), Skipped(l))
    BY DEF Counted, Numbered, Skipped
  <1>2. Numbered(ClosedRows(l), Skipped(l)) \subseteq Ids
    BY DEF Numbered, ClosedRows
  <1> QED
    BY <1>1, <1>2 DEF LossStreak, Trailing, LastLosses, Losses

LEMMA TrailingIsFinite ==
    ASSUME NEW l
    PROVE  /\ IsFiniteSet(ClosedRows(l)) /\ ClosedRows(l) \subseteq Nat /\ ClosedRows(l) \subseteq Ids
           /\ Cardinality(ClosedRows(l)) \in Nat /\ Cardinality(Trailing(l)) \in Nat
  <1>1. IsFiniteSet(Ids) /\ Ids \subseteq Nat
    BY FS_Interval, MaxRowsAssumption DEF Ids
  <1>2. ClosedRows(l) \subseteq Ids /\ Trailing(l) \subseteq Ids
    BY DEF ClosedRows, Trailing, LastLosses, Numbered
  <1> QED
    BY <1>1, <1>2, FS_Subset, FS_CardinalityType

LEMMA TrailingIsFiniteThen ==
    ASSUME NEW l
    PROVE  /\ IsFiniteSet(ClosedRows(l)') /\ Cardinality(ClosedRows(l)') \in Nat
           /\ Cardinality(Trailing(l)') \in Nat
  <1>1. IsFiniteSet(Ids) /\ Ids \subseteq Nat
    BY FS_Interval, MaxRowsAssumption DEF Ids
  <1>2. ClosedRows(l)' \subseteq Ids /\ Trailing(l)' \subseteq Ids
    BY DEF ClosedRows, Trailing, LastLosses, Numbered
  <1> QED
    BY <1>1, <1>2, FS_Subset, FS_CardinalityType

\* Only these steps write a row, the checkpoint or the streak.
LEMMA LedgerMoves ==
    ASSUME [Next]_vars
    PROVE  \/ UNCHANGED <<rows, streak, ckpt>>
           \/ \E i \in Ids : InsertTrade(i) \/ InsertTwin(i)
           \/ \E pnl \in {"win", "loss"} : CloseTrade(pnl) \/ CloseTwin(pnl)
           \/ Resume \/ PaperReset
  <1> USE DEF riskVars, ledgerVars, vars
  <1>1. CASE InOperation
    BY <1>1
    DEF InOperation, BuyReturns, SellReturns, Manage, ManageMinute, ReadBalance, CountRisk,
        NoEntry, MinuteUnread, Enter
  <1>2. CASE StartPass \/ TestEntry \/ SquareOff \/ KillSquareOff \/ HumanSells
             \/ Restart \/ Boot \/ AdoptRead \/ AdoptBind \/ BrokerActs
    BY <1>2
    DEF StartPass, TestEntry, SquareOff, KillSquareOff, HumanSells, Restart, Boot, AdoptRead,
        AdoptBind, BrokerActs
  <1>3. ASSUME NEW c \in Configs, SaveConfig(c)
        PROVE  UNCHANGED <<rows, streak, ckpt>>
    BY <1>3 DEF SaveConfig
  <1> QED
    BY <1>1, <1>2, <1>3 DEF Next

\* A step keeps the twin of the position, or gives it up, or books one.
LEMMA TwinMoves ==
    ASSUME pos \in Position, [Next]_vars
    PROVE  \/ pos'.twin = pos.twin /\ (pos.twin # 0 => pos'.ledger = pos.ledger)
           \/ pos'.twin = 0
           \/ \E i \in Ids : InsertTwin(i)
  <1> USE DEF vars
  <1>p. NoPosition.twin = 0 /\ \A l : Opened(l).twin = 0
    BY DEF NoPosition, Opened
  <1>1. ASSUME pos' \in {pos, NoPosition, Opened("paper"), Opened("live")}
        PROVE  pos'.twin = 0 \/ pos' = pos
    BY <1>p, <1>1
  <1>2. ASSUME NEW i \in Ids, InsertTrade(i)
        PROVE  pos'.twin = pos.twin /\ pos'.ledger = pos.ledger
    BY <1>2 DEF InsertTrade, Position
  <1>3. CASE Manage
    <2>1. PICK engineExit, timedExit, priced \in BOOLEAN :
              ManageMinute(engineExit, timedExit, priced)
      BY <1>3 DEF Manage
    <2> QED
      BY <2>1 DEF ManageMinute, Position
  <1>4. CASE InOperation /\ ~Manage
    BY <1>1, <1>2, <1>4
    DEF InOperation, BuyReturns, SellReturns, ReadBalance, CountRisk, CloseTrade, CloseTwin,
        GiveUpPosition, NoEntry, MinuteUnread, Enter, RouteEntry
  <1>5. ASSUME StartSquareOff
        PROVE  pos'.twin = pos.twin /\ pos'.ledger = pos.ledger
    BY <1>5 DEF StartSquareOff, Position
  <1>6. CASE SquareOff \/ KillSquareOff
    BY <1>5, <1>6 DEF SquareOff, KillSquareOff
  <1>7. CASE StartPass \/ TestEntry \/ Resume \/ HumanSells \/ PaperReset \/ Restart \/ Boot
             \/ AdoptRead \/ BrokerActs
    BY <1>1, <1>7
    DEF StartPass, TestEntry, RouteEntry, Resume, HumanSells, PaperReset, Restart, Boot,
        AdoptRead, BrokerActs
  <1>8. CASE AdoptBind
    <2>1. pos'.twin = 0
      BY <1>8 DEF AdoptBind, Opened, NoPosition
    <2> QED
      BY <2>1
  <1>9. ASSUME NEW c \in Configs, SaveConfig(c)
        PROVE  pos' = pos
    BY <1>9 DEF SaveConfig
  <1> QED
    BY <1>3, <1>4, <1>6, <1>7, <1>8, <1>9 DEF Next

LEMMA AddRowMakes ==
    ASSUME rows \in [Ids -> Row], NEW i \in Ids, NEW l \in Ledgers, NEW twin \in BOOLEAN,
           AddRow(i, l, twin)
    PROVE  /\ rows'[i] = [ledger |-> l, twin |-> twin, state |-> "open"]
           /\ \A j \in Ids \ {i} : rows'[j] = rows[j]
  BY DEF AddRow

LEMMA CloseRowMakes ==
    ASSUME rows \in [Ids -> Row], NEW i \in Ids, NEW pnl, CloseRow(i, pnl)
    PROVE  \A j \in Ids :
              /\ rows'[j].ledger = rows[j].ledger /\ rows'[j].twin = rows[j].twin
              /\ rows'[j].state = IF j = i /\ rows[i].state = "open" THEN pnl ELSE rows[j].state
  BY DEF CloseRow, Row

LEMMA PaperResetMakes ==
    ASSUME rows \in [Ids -> Row], PaperReset
    PROVE  \A j \in Ids :
              /\ rows'[j].ledger = rows[j].ledger /\ rows'[j].twin = rows[j].twin
              /\ rows'[j].state = IF rows[j].ledger = "paper" /\ rows[j].state # "unused"
                                  THEN "deleted" ELSE rows[j].state
  BY DEF PaperReset, Row

LEMMA RowsInOrderStep ==
    ASSUME TypeOK, RowsInOrder, Stages, [Next]_vars
    PROVE  RowsInOrder'
  <1>t. rows \in [Ids -> Row] /\ pos \in Position /\ Ids \subseteq Nat
    BY DEF TypeOK, Ids
  <1>1. ASSUME NEW i \in Ids, NEW l \in Ledgers, NEW twin \in BOOLEAN, FreshRow(i),
               AddRow(i, l, twin)
        PROVE  RowsInOrder'
    <2>r. /\ rows'[i].state = "open"
          /\ \A j \in Ids \ {i} : rows'[j] = rows[j]
      BY <1>1, <1>t DEF AddRow
    <2> SUFFICES ASSUME NEW j \in Ids, NEW k \in Ids, j < k, rows'[j].state = "unused"
                 PROVE  rows'[k].state = "unused"
      BY DEF RowsInOrder
    <2>1. j # i /\ rows[j].state = "unused"
      BY <2>r
    <2>2. k # i
      BY <1>1, <1>t, <2>1 DEF FreshRow, Ids
    <2> QED
      BY <2>r, <2>1, <2>2 DEF RowsInOrder
  <1>2. ASSUME \A j \in Ids : rows'[j].state = "unused" <=> rows[j].state = "unused"
        PROVE  RowsInOrder'
    BY <1>2 DEF RowsInOrder
  <1>3. ASSUME NEW i \in Ids, InsertTrade(i)
        PROVE  RowsInOrder'
    <2>1. pos.ledger \in Ledgers
      BY <1>3, <1>t DEF InsertTrade, Stages, Position
    <2> QED
      BY <1>1, <1>2, <1>3, <2>1 DEF InsertTrade
  <1>4. ASSUME NEW i \in Ids, InsertTwin(i)
        PROVE  RowsInOrder'
    BY <1>1, <1>2, <1>4 DEF InsertTwin, Ledgers
  <1>5. ASSUME NEW i \in Ids, NEW pnl \in {"win", "loss"}, CloseRow(i, pnl)
        PROVE  RowsInOrder'
    BY <1>2, <1>5, <1>t, CloseRowMakes
  <1>6. ASSUME NEW pnl \in {"win", "loss"}, CloseTrade(pnl)
        PROVE  RowsInOrder'
    BY <1>2, <1>5, <1>6, <1>t DEF CloseTrade, Position
  <1>7. ASSUME NEW pnl \in {"win", "loss"}, CloseTwin(pnl)
        PROVE  RowsInOrder'
    BY <1>2, <1>5, <1>7, <1>t DEF CloseTwin, Position, Stages
  <1>8. CASE PaperReset
    BY <1>2, <1>8, <1>t, PaperResetMakes
  <1>9. CASE Resume \/ UNCHANGED rows
    BY <1>2, <1>9 DEF Resume, ledgerVars
  <1> QED
    BY <1>3, <1>4, <1>6, <1>7, <1>8, <1>9, LedgerMoves

\* No row is as late as a fresh one.
LEMMA FreshIsLast ==
    ASSUME TypeOK, RowsInOrder, NEW i \in Ids, FreshRow(i), NEW j \in Ids,
           rows[j].state # "unused"
    PROVE  j < i
  BY DEF FreshRow, RowsInOrder, Ids, TypeOK

LEMMA TwinOfLiveStep ==
    ASSUME TypeOK, Stages, TwinOfLive, [Next]_vars
    PROVE  TwinOfLive'
  <1> USE DEF TwinOfLive, bootVars, lockVars, Goto, Done, vars
  <1>t. pos \in Position
    BY DEF TypeOK
  <1>1. ASSUME NEW i \in Ids, InsertTrade(i)
        PROVE  TwinOfLive'
    BY <1>1, <1>t DEF InsertTrade, Position
  <1>2. CASE InOperation /\ ~ \E i \in Ids : InsertTrade(i)
    BY <1>2
    DEF InOperation, BuyReturns, SellReturns, InsertTwin, Manage, ManageMinute, RouteExit,
        ReadBalance, CloseTrade, CloseTwin, GiveUpPosition, CountRisk, NoEntry, MinuteUnread,
        Enter, EntryAt
  <1>3. CASE StartPass \/ TestEntry \/ SquareOff \/ KillSquareOff \/ Restart
    BY <1>3 DEF StartPass, TestEntry, EntryAt, Take, SquareOff, KillSquareOff, StartSquareOff,
                Restart
  <1>4. CASE Resume \/ HumanSells \/ PaperReset \/ Boot \/ AdoptRead \/ BrokerActs
    BY <1>4 DEF Resume, HumanSells, PaperReset, Boot, AdoptRead, BrokerActs
  <1>5. CASE AdoptBind
    BY <1>5 DEF AdoptBind, Stages
  <1>6. ASSUME NEW c \in Configs, SaveConfig(c)
        PROVE  TwinOfLive'
    BY <1>6 DEF SaveConfig
  <1>7. CASE UNCHANGED vars
    BY <1>7
  <1> QED
    BY <1>1, <1>2, <1>3, <1>4, <1>5, <1>6, <1>7 DEF Next

LEMMA ClosesNewestStep ==
    ASSUME TypeOK, Stages, LiveRow, TwinOfLive, Recorded', RowsInOrder, ClosesNewest, [Next]_vars,
           ~ledgerPaged'
    PROVE  ClosesNewest'
  <1>t. rows \in [Ids -> Row] /\ pos \in Position /\ Ids \subseteq Nat \ {0}
    BY DEF TypeOK, Ids
  <1>p. NoPosition.twin = 0 /\ NoPosition.row = 0
    BY DEF NoPosition
  <1> DEFINE SameTwin == pos'.twin = pos.twin /\ (pos.twin # 0 => pos'.ledger = pos.ledger)
  \* What is open stays so or ends, and nothing of its ledger was closed.
  <1>n. ASSUME NEW i \in Ids, IsNewest(i), rows'[i].ledger = rows[i].ledger,
               ClosedRows(rows[i].ledger)' \subseteq ClosedRows(rows[i].ledger)
        PROVE  IsNewest(i)'
    BY <1>n DEF IsNewest
  <1>w. ASSUME SameTwin \/ pos'.twin = 0, rows' = rows
        PROVE  ClosesNewest'
    BY <1>w DEF ClosesNewest, TwinIsNewest, OpenTrades, IsNewest, ClosedRows
  <1>m. SameTwin \/ pos'.twin = 0 \/ \E i \in Ids : InsertTwin(i)
    BY <1>t, TwinMoves
  <1>a. ASSUME NEW i \in Ids, FreshRow(i), NEW l \in Ledgers, NEW twin \in BOOLEAN,
               AddRow(i, l, twin)
        PROVE  /\ rows'[i] = [ledger |-> l, twin |-> twin, state |-> "open"]
               /\ \A j \in Ids \ {i} : rows'[j] = rows[j]
               /\ \A k : ClosedRows(k)' = ClosedRows(k)
               /\ IsNewest(i)'
               /\ \A j \in Ids \ {i} : IsNewest(j) => IsNewest(j)'
               /\ rows[i].state = "unused"
    <2>1. /\ rows'[i] = [ledger |-> l, twin |-> twin, state |-> "open"]
          /\ \A j \in Ids \ {i} : rows'[j] = rows[j]
          /\ rows[i].state = "unused"
      BY <1>a, <1>t DEF AddRow, FreshRow
    <2>2. \A k : ClosedRows(k)' = ClosedRows(k)
      BY <2>1 DEF ClosedRows
    <2>3. \A k, j : j \in ClosedRows(k) => j < i
      BY <1>a, FreshIsLast DEF ClosedRows
    <2>4. IsNewest(i)'
      BY <2>1, <2>2, <2>3 DEF IsNewest
    <2>5. \A j \in Ids \ {i} : IsNewest(j) => IsNewest(j)'
      BY <2>1, <2>2 DEF IsNewest
    <2> QED
      BY <2>1, <2>2, <2>4, <2>5
  <1>1. ASSUME NEW i \in Ids, InsertTrade(i)
        PROVE  ClosesNewest'
    <2>1. FreshRow(i) /\ AddRow(i, pos.ledger, FALSE) /\ pos' = [pos EXCEPT !.row = i]
      BY <1>1 DEF InsertTrade
    <2>2. pos.ledger \in Ledgers /\ pos'.twin = pos.twin /\ pos'.ledger = pos.ledger
      BY <1>1, <1>t, <2>1 DEF InsertTrade, Stages, Position
    <2>3. OpenTrades' \subseteq OpenTrades \cup {i}
      BY <1>a, <2>1, <2>2 DEF OpenTrades
    <2>4. \A j \in OpenTrades' : IsNewest(j)'
      BY <1>a, <2>1, <2>2, <2>3 DEF ClosesNewest, OpenTrades
    <2>5. TwinIsNewest'
      <3> SUFFICES ASSUME pos.twin # 0
                   PROVE  TwinIsNewest'
        BY <2>2 DEF TwinIsNewest
      <3>1. pos.twin \in Ids /\ pos.twin # i
        BY <1>a, <1>t, <2>1, <2>2 DEF ClosesNewest, TwinIsNewest, Position
      <3>2. rows'[pos.twin] = rows[pos.twin] /\ (IsNewest(pos.twin) => IsNewest(pos.twin)')
        BY <1>a, <2>1, <2>2, <3>1
      <3> QED
        BY <2>2, <3>2 DEF ClosesNewest, TwinIsNewest
    <2> QED
      BY <2>4, <2>5 DEF ClosesNewest
  <1>2. ASSUME NEW i \in Ids, InsertTwin(i)
        PROVE  ClosesNewest'
    <2>1. CASE UNCHANGED <<rows, pos>>
      BY <1>w, <2>1
    <2>2. CASE AddRow(i, "paper", TRUE) /\ pos' = [pos EXCEPT !.twin = i]
      <3>1. FreshRow(i)
        BY <1>2 DEF InsertTwin
      <3>2. /\ rows'[i] = [ledger |-> "paper", twin |-> TRUE, state |-> "open"]
            /\ IsNewest(i)' /\ rows[i].state = "unused"
            /\ \A j \in Ids \ {i} : rows'[j] = rows[j] /\ (IsNewest(j) => IsNewest(j)')
        BY <1>a, <2>2, <3>1 DEF Ledgers
      <3>3. OpenTrades' = OpenTrades /\ i \notin OpenTrades
        BY <3>2 DEF OpenTrades
      <3>4. pos'.twin = i /\ pos'.ledger = pos.ledger /\ pos.ledger = "live"
        BY <1>2, <1>t, <2>2 DEF Position, InsertTwin, TwinOfLive
      <3> QED
        BY <3>2, <3>3, <3>4 DEF ClosesNewest, TwinIsNewest, OpenTrades
    <2> QED
      BY <1>2, <2>1, <2>2 DEF InsertTwin
  <1>3. ASSUME NEW pnl \in {"win", "loss"}, CloseTrade(pnl)
        PROVE  ClosesNewest'
    <2>1. /\ boot = "running" /\ boot' = boot /\ pc = "close" /\ CloseRow(pos.row, pnl)
          /\ pos.row \in Ids
      BY <1>3, <1>t DEF CloseTrade, Stages, bootVars, Position
    <2>2. \/ pc' = "closeTwin" /\ pos' = pos
          \/ pos' = NoPosition
      BY <1>3 DEF CloseTrade, GiveUpPosition, Goto
    <2>3. OpenTrades' = {}
      BY <1>p, <2>1, <2>2, <1>3 DEF Recorded, CloseTrade, GiveUpPosition, Goto, Done
    <2>4. TwinIsNewest'
      <3> SUFFICES ASSUME pos' = pos, pos.twin # 0
                   PROVE  TwinIsNewest'
        BY <1>p, <2>2 DEF TwinIsNewest
      <3>1. /\ pos.twin \in Ids /\ rows[pos.twin].ledger = "paper" /\ rows[pos.row].ledger = "live"
        BY <1>t, <2>1 DEF ClosesNewest, TwinIsNewest, Position, LiveRow, OpenRows
      <3>2. \A j \in Ids :
               /\ rows'[j].ledger = rows[j].ledger /\ rows'[j].twin = rows[j].twin
               /\ j # pos.row => rows'[j].state = rows[j].state
        BY <1>t, <2>1, CloseRowMakes
      <3>3. pos.twin # pos.row /\ \A j \in Ids : rows[j].ledger = "paper" => j # pos.row
        BY <3>1
      <3>4. ClosedRows("paper")' = ClosedRows("paper")
        BY <3>2, <3>3 DEF ClosedRows
      <3>5. /\ rows'[pos.twin].ledger = "paper" /\ rows'[pos.twin].twin = rows[pos.twin].twin
            /\ rows'[pos.twin].state = rows[pos.twin].state
        BY <3>1, <3>2, <3>3
      <3>6. IsNewest(pos.twin) => IsNewest(pos.twin)'
        BY <3>1, <3>4, <3>5 DEF IsNewest
      <3> QED
        BY <3>5, <3>6 DEF ClosesNewest, TwinIsNewest
    <2> QED
      BY <2>3, <2>4 DEF ClosesNewest
  <1>4. ASSUME NEW pnl \in {"win", "loss"}, CloseTwin(pnl)
        PROVE  ClosesNewest'
    <2>1. boot = "running" /\ boot' = boot /\ pos' = NoPosition /\ pc' # "closeTwin"
      BY <1>4 DEF CloseTwin, Stages, bootVars, GiveUpPosition, Goto, Done
    <2>2. OpenTrades' = {}
      BY <1>p, <2>1 DEF Recorded
    <2> QED
      BY <1>p, <2>1, <2>2 DEF ClosesNewest, TwinIsNewest
  <1>5. CASE PaperReset
    <2>1. \A j \in Ids :
             /\ rows'[j].ledger = rows[j].ledger /\ rows'[j].twin = rows[j].twin
             /\ rows'[j].state = rows[j].state \/ rows'[j].state = "deleted"
      BY <1>5, <1>t, PaperResetMakes
    <2>2. \A l : ClosedRows(l)' \subseteq ClosedRows(l)
      BY <2>1 DEF ClosedRows
    <2>3. OpenTrades' \subseteq OpenTrades /\ OpenTrades \subseteq Ids
      BY <2>1 DEF OpenTrades
    <2>4. \A i \in OpenTrades' : IsNewest(i)'
      BY <1>n, <2>1, <2>2, <2>3 DEF ClosesNewest
    <2>5. pos' = pos
      BY <1>5 DEF PaperReset
    <2>6. TwinIsNewest'
      <3> SUFFICES ASSUME pos.twin # 0
                   PROVE  TwinIsNewest'
        BY <2>5 DEF TwinIsNewest
      <3>1. pos.twin \in Ids
        BY <1>t DEF Position
      <3> QED
        BY <1>n, <2>1, <2>2, <2>5, <3>1 DEF ClosesNewest, TwinIsNewest
    <2> QED
      BY <2>4, <2>6 DEF ClosesNewest
  <1>6. ASSUME rows' = rows, ~ \E i \in Ids : InsertTwin(i)
        PROVE  ClosesNewest'
    BY <1>6, <1>m, <1>w
  <1>7. CASE Resume
    BY <1>7, <1>2, <1>6 DEF Resume, ledgerVars
  <1> QED
    BY <1>1, <1>2, <1>3, <1>4, <1>5, <1>6, <1>7, LedgerMoves

LEMMA StreakOfClose ==
    ASSUME TypeOK, StreakIsCounted, NEW i \in Ids, NEW pnl \in {"win", "loss"}, CloseRow(i, pnl),
           ckpt' = ckpt, rows[i].state = "open" => IsNewest(i)
    PROVE  StreakIsCounted'
  <1>t. /\ rows \in [Ids -> Row] /\ streak \in [Ledgers -> Nat] /\ Ids \subseteq Nat
        /\ \A l : Skipped(l) \in Nat /\ Skipped(l)' = Skipped(l)
    BY DEF TypeOK, Ids, Skipped
  <1>r. \A j \in Ids :
           /\ rows'[j].ledger = rows[j].ledger
           /\ rows'[j].state = IF j = i /\ rows[i].state = "open" THEN pnl ELSE rows[j].state
    BY <1>t, CloseRowMakes
  <1> SUFFICES ASSUME NEW l \in Ledgers
               PROVE  /\ Skipped(l)' <= Cardinality(ClosedRows(l)')
                      /\ streak'[l] <= Cardinality(Trailing(l)')
    BY DEF StreakIsCounted
  <1>s. Skipped(l) <= Cardinality(ClosedRows(l)) /\ streak[l] <= Cardinality(Trailing(l))
    BY DEF StreakIsCounted
  <1>f. /\ IsFiniteSet(ClosedRows(l)) /\ ClosedRows(l) \subseteq Nat /\ ClosedRows(l) \subseteq Ids
        /\ Cardinality(ClosedRows(l)) \in Nat /\ Cardinality(Trailing(l)) \in Nat
        /\ Cardinality(Trailing(l)') \in Nat
    BY TrailingIsFinite, TrailingIsFiniteThen
  <1>1. CASE rows[i].state # "open" \/ rows[i].ledger # l
    <2>1. ClosedRows(l)' = ClosedRows(l)
      BY <1>1, <1>r DEF ClosedRows
    <2>2. \A j \in ClosedRows(l) : j \in Losses' <=> j \in Losses
      BY <1>1, <1>r DEF ClosedRows, Losses
    <2>3. Trailing(l)' = Trailing(l)
      BY <1>t, <2>1, <2>2 DEF Trailing, LastLosses, Numbered
    <2>4. streak'[l] = streak[l]
      <3>1. CASE rows[i].state # "open"
        BY <3>1 DEF CloseRow
      <3>2. CASE rows[i].ledger # l
        BY <1>t, <3>2 DEF CloseRow
      <3> QED
        BY <1>1, <3>1, <3>2
    <2> QED
      BY <1>s, <1>t, <2>1, <2>3, <2>4
  <1>2. CASE rows[i].state = "open" /\ rows[i].ledger = l
    <2>1. ClosedRows(l)' = ClosedRows(l) \cup {i} /\ i \notin ClosedRows(l)
      BY <1>2, <1>r DEF ClosedRows
    <2>2. Cardinality(ClosedRows(l)') = Cardinality(ClosedRows(l)) + 1
      BY <1>f, <2>1, FS_AddElement
    <2>3. Skipped(l)' <= Cardinality(ClosedRows(l)')
      BY <1>f, <1>s, <1>t, <2>2
    <2>4. CASE pnl = "win"
      <3>1. streak'[l] = 0
        BY <1>2, <1>t, <2>4 DEF CloseRow
      <3> QED
        BY <1>f, <2>3, <3>1
    <2>5. CASE pnl = "loss"
      <3>1. streak'[l] = streak[l] + 1
        BY <1>2, <1>t, <2>5 DEF CloseRow
      <3>2. i \in Losses' /\ \A j \in ClosedRows(l) : j \in Losses <=> j \in Losses'
        BY <1>r, <1>2, <2>1, <2>5 DEF Losses, ClosedRows
      <3>3. \A j \in ClosedRows(l) : j < i
        BY <1>2 DEF IsNewest
      <3>4. Cardinality(LastLosses(ClosedRows(l) \cup {i}, Skipped(l), Losses'))
               = Cardinality(LastLosses(ClosedRows(l), Skipped(l), Losses)) + 1
        BY <1>f, <1>s, <1>t, <3>2, <3>3, OneLossMore
      <3>5. Trailing(l)' = LastLosses(ClosedRows(l) \cup {i}, Skipped(l), Losses')
        BY <1>t, <2>1 DEF Trailing, LastLosses, Numbered
      <3> QED
        BY <1>f, <1>s, <1>t, <2>3, <3>1, <3>4, <3>5 DEF Trailing
    <2> QED
      BY <2>4, <2>5
  <1> QED
    BY <1>1, <1>2

LEMMA StreakIsCountedStep ==
    ASSUME FaultsAllowed, TypeOK, Stages, Recorded, ClosesNewest, StreakIsCounted,
           [Next]_vars, ~ledgerPaged'
    PROVE  StreakIsCounted'
  <1>t. /\ rows \in [Ids -> Row] /\ pos \in Position /\ cfg.mode \in Ledgers
        /\ streak \in [Ledgers -> Nat] /\ ckpt.count \in Nat
    BY DEF TypeOK, Configs
  <1>k. \A l : Skipped(l) \in Nat
    BY <1>t DEF Skipped
  <1>e. \A l \in Ledgers : /\ Skipped(l) <= Cardinality(ClosedRows(l))
                           /\ streak[l] <= Cardinality(Trailing(l))
    BY DEF StreakIsCounted
  <1>1. ASSUME UNCHANGED <<streak, ckpt>>,
               \A j \in Ids :
                  rows'[j] = rows[j] \/ (rows[j].state = "unused" /\ rows'[j].state = "open")
        PROVE  StreakIsCounted'
    <2>1. \A l : ClosedRows(l)' = ClosedRows(l)
      BY <1>1 DEF ClosedRows
    <2>2. Losses' = Losses
      BY <1>1 DEF Losses
    <2>3. \A l : Skipped(l)' = Skipped(l)
      BY <1>1 DEF Skipped
    <2>4. \A l : Trailing(l)' = Trailing(l)
      BY <2>1, <2>2, <2>3 DEF Trailing, LastLosses, Numbered
    <2> QED
      BY <1>1, <1>e, <2>1, <2>3, <2>4 DEF StreakIsCounted
  <1>2. ASSUME NEW i \in Ids, InsertTrade(i) \/ InsertTwin(i)
        PROVE  StreakIsCounted'
    <2>1. UNCHANGED <<streak, ckpt>> /\ rows[i].state = "unused"
      BY <1>2 DEF InsertTrade, InsertTwin, FreshRow, riskVars
    <2>2. rows' = rows \/ \E l, twin : AddRow(i, l, twin)
      BY <1>2 DEF InsertTrade, InsertTwin
    <2>3. \A j \in Ids :
             rows'[j] = rows[j] \/ (rows[j].state = "unused" /\ rows'[j].state = "open")
      BY <1>t, <2>1, <2>2 DEF AddRow
    <2> QED
      BY <1>1, <2>1, <2>3
  <1>3. ASSUME NEW pnl \in {"win", "loss"}, CloseTrade(pnl)
        PROVE  StreakIsCounted'
    <2>1. /\ boot = "running" /\ pc = "close" /\ CloseRow(pos.row, pnl) /\ pos.row \in Ids
          /\ ckpt' = ckpt
      BY <1>3, <1>t DEF CloseTrade, Stages, Position
    <2>2. OpenTrades = {pos.row}
      BY <2>1 DEF Recorded, Ids
    <2> QED
      BY <2>1, <2>2, StreakOfClose DEF ClosesNewest
  <1>4. ASSUME NEW pnl \in {"win", "loss"}, CloseTwin(pnl)
        PROVE  StreakIsCounted'
    <2>1. pos.twin # 0 /\ pos.twin \in Ids /\ ckpt' = ckpt
      BY <1>4, <1>t DEF CloseTwin, Stages, Position
    <2>2. CASE CloseRow(pos.twin, pnl)
      BY <2>1, <2>2, StreakOfClose DEF ClosesNewest, TwinIsNewest
    <2>3. CASE UNCHANGED <<rows, streak>>
      BY <1>1, <2>1, <2>3
    <2> QED
      BY <1>4, <2>2, <2>3 DEF CloseTwin
  <1>5. CASE Resume
    <2>1. /\ rows' = rows /\ streak' = [streak EXCEPT ![cfg.mode] = 0]
          /\ ckpt' = [ledger |-> cfg.mode, count |-> Cardinality(ClosedRows(cfg.mode))]
      BY <1>5 DEF Resume, ledgerVars
    <2>2. \A l : ClosedRows(l)' = ClosedRows(l) /\ Losses' = Losses
      BY <2>1 DEF ClosedRows, Losses
    <2> SUFFICES ASSUME NEW l \in Ledgers
                 PROVE  /\ Skipped(l)' <= Cardinality(ClosedRows(l)')
                        /\ streak'[l] <= Cardinality(Trailing(l)')
      BY DEF StreakIsCounted
    <2>3. /\ IsFiniteSet(ClosedRows(l)) /\ ClosedRows(l) \subseteq Nat
          /\ Cardinality(ClosedRows(l)) \in Nat /\ Cardinality(Trailing(l)) \in Nat
          /\ Cardinality(Trailing(l)') \in Nat
      BY TrailingIsFinite, TrailingIsFiniteThen
    <2>4. CASE l = cfg.mode
      <3>1. Skipped(l)' = Cardinality(ClosedRows(l)) /\ streak'[l] = 0
        BY <1>t, <2>1, <2>4 DEF Skipped
      <3> QED
        BY <2>2, <2>3, <3>1
    <2>5. CASE l # cfg.mode
      <3>1. Skipped(l)' = 0 /\ streak'[l] = streak[l]
        BY <1>t, <2>1, <2>5 DEF Skipped
      <3>2. Trailing(l)' = LastLosses(ClosedRows(l), 0, Losses)
        BY <2>2, <3>1 DEF Trailing, LastLosses, Numbered
      <3>3. Cardinality(Trailing(l)) <= Cardinality(LastLosses(ClosedRows(l), 0, Losses))
        BY <1>k, <2>3, NothingSkipped DEF Trailing
      <3> QED
        BY <1>e, <1>t, <2>2, <2>3, <3>1, <3>2, <3>3
    <2> QED
      BY <2>4, <2>5
  <1>6. CASE PaperReset
    <2>1. \A j \in Ids :
             /\ rows'[j].ledger = rows[j].ledger
             /\ rows'[j].state = IF rows[j].ledger = "paper" /\ rows[j].state # "unused"
                                 THEN "deleted" ELSE rows[j].state
      BY <1>6, <1>t, PaperResetMakes
    <2>2. /\ streak' = [streak EXCEPT !["paper"] = 0] /\ ckpt' = ckpt
          /\ ~(ckpt.ledger = "paper" /\ ckpt.count > 0)
      BY <1>6 DEF PaperReset, FaultsAllowed
    <2>3. \A l : Skipped(l)' = Skipped(l)
      BY <2>2 DEF Skipped
    <2>4. /\ Skipped("live")' <= Cardinality(ClosedRows("live")')
          /\ streak'["live"] <= Cardinality(Trailing("live")')
      <3>1. ClosedRows("live")' = ClosedRows("live")
        BY <2>1 DEF ClosedRows
      <3>2. \A j \in ClosedRows("live") : j \in Losses' <=> j \in Losses
        BY <2>1 DEF ClosedRows, Losses
      <3>3. Trailing("live")' = Trailing("live")
        BY <2>3, <3>1, <3>2 DEF Trailing, LastLosses, Numbered
      <3>4. streak'["live"] = streak["live"]
        BY <1>t, <2>2
      <3> QED
        BY <1>e, <2>3, <3>1, <3>3, <3>4 DEF Ledgers
    <2>5. /\ Skipped("paper")' <= Cardinality(ClosedRows("paper")')
          /\ streak'["paper"] <= Cardinality(Trailing("paper")')
      <3>1. Cardinality(ClosedRows("paper")') \in Nat /\ Cardinality(Trailing("paper")') \in Nat
        BY TrailingIsFiniteThen
      <3>2. Skipped("paper")' = 0
        BY <1>t, <2>2, <2>3 DEF Skipped
      <3>3. streak'["paper"] = 0
        BY <1>t, <2>2 DEF Ledgers
      <3> QED
        BY <3>1, <3>2, <3>3
    <2> QED
      BY <2>4, <2>5 DEF StreakIsCounted, Ledgers
  <1>7. CASE UNCHANGED <<rows, streak, ckpt>>
    BY <1>1, <1>7
  <1> QED
    BY <1>2, <1>3, <1>4, <1>5, <1>6, <1>7, LedgerMoves

\* After the last close of a minute the counters are read again; until the hunt only a paper
\* reset touches the ledger, and it ends the streak.
LEMMA GateIsFreshStep ==
    ASSUME TypeOK, StreakIsCounted, GateIsFresh, [Next]_vars
    PROVE  GateIsFresh'
  <1> USE DEF GateIsFresh, lockVars, riskVars, Goto, Done, vars
  <1>t. run \in Run /\ streak \in [Ledgers -> Nat] /\ MaxLosses \in Nat \ {0}
    BY MaxLossesAssumption DEF TypeOK
  <1>1. CASE CountRisk
    <2> SUFFICES ASSUME pc' = "hunt", paused' = "no", ~run'.blocked
                 PROVE  streak'[run'.mode] < MaxLosses
      OBVIOUS
    <2>1. PICK blocked \in BOOLEAN :
             /\ run' = [run EXCEPT !.blocked = blocked]
             /\ \/ paused' = IF paused = "no" /\ LossStreak(run.mode) THEN "losses" ELSE paused
                \/ "db" \in Faults /\ blocked /\ UNCHANGED paused
      BY <1>1 DEF CountRisk
    <2>2. run'.mode = run.mode /\ run.mode \in Ledgers /\ run'.blocked = blocked
      BY <1>t, <2>1 DEF Run
    <2>3. ~LossStreak(run.mode)
      BY <2>1, <2>2
    <2>4. ~(Cardinality(Trailing(run.mode)) >= MaxLosses)
      BY <2>3, GateCountsTrailing
    <2>5. streak[run.mode] <= Cardinality(Trailing(run.mode))
      BY <2>2 DEF StreakIsCounted
    <2>6. Cardinality(Trailing(run.mode)) \in Nat /\ streak[run.mode] \in Nat
      BY <1>t, <2>2, TrailingIsFinite
    <2>7. streak' = streak
      BY <1>1 DEF CountRisk
    <2> QED
      BY <1>t, <2>2, <2>4, <2>5, <2>6, <2>7
  <1>2. CASE PaperReset
    <2>1. UNCHANGED <<pc, run, paused>> /\ streak' = [streak EXCEPT !["paper"] = 0]
      BY <1>2 DEF PaperReset
    <2>2. \A l \in Ledgers : streak'[l] <= streak[l] /\ streak'[l] \in Nat
      BY <1>t, <2>1 DEF Ledgers
    <2>3. run.mode \in Ledgers
      BY <1>t DEF Run
    <2> QED
      BY <1>t, <2>1, <2>2, <2>3
  <1>3. ASSUME pc' # "hunt"
        PROVE  GateIsFresh'
    BY <1>3
  <1>4. ASSUME UNCHANGED <<pc, run, paused, streak>>
        PROVE  GateIsFresh'
    BY <1>4
  <1>5. CASE InOperation /\ ~CountRisk
    BY <1>3, <1>5
    DEF InOperation, BuyReturns, SellReturns, InsertTrade, InsertTwin, Manage, ManageMinute,
        RouteExit, ReadBalance, CloseTrade, CloseTwin, GiveUpPosition, NoEntry, MinuteUnread,
        Enter, EntryAt
  <1>6. CASE StartPass \/ TestEntry \/ SquareOff \/ Restart
    BY <1>3, <1>6 DEF StartPass, TestEntry, EntryAt, Take, SquareOff, StartSquareOff, Restart
  <1>7. CASE KillSquareOff \/ Resume
    BY <1>3, <1>4, <1>7 DEF KillSquareOff, Take, StartSquareOff, Resume
  <1>8. CASE HumanSells \/ Boot \/ AdoptRead \/ AdoptBind \/ BrokerActs
    BY <1>4, <1>8 DEF HumanSells, Boot, AdoptRead, AdoptBind, BrokerActs
  <1>9. ASSUME NEW c \in Configs, SaveConfig(c)
        PROVE  GateIsFresh'
    BY <1>4, <1>9 DEF SaveConfig
  <1>10. CASE UNCHANGED vars
    BY <1>4, <1>10
  <1> QED
    BY <1>1, <1>2, <1>5, <1>6, <1>7, <1>8, <1>9, <1>10 DEF Next

LEMMA SInvInit == Init => SInv
  <1> SUFFICES ASSUME Init
               PROVE  SInv
    OBVIOUS
  <1>1. /\ pc = "free" /\ pos.twin = 0 /\ \A i \in Ids : rows[i].state = "unused"
        /\ ckpt.ledger = "none" /\ \A l \in Ledgers : streak[l] = 0
    BY DEF Init, NoPosition, NoRow
  <1>2. RowsInOrder /\ TwinOfLive /\ GateIsFresh
    BY <1>1 DEF RowsInOrder, TwinOfLive, GateIsFresh
  <1>3. ClosesNewest
    BY <1>1 DEF ClosesNewest, TwinIsNewest, OpenTrades
  <1>4. StreakIsCounted
    BY <1>1, TrailingIsFinite DEF StreakIsCounted, Skipped, Ledgers
  <1> QED
    BY <1>2, <1>3, <1>4, LInvInit DEF SInv

LEMMA SInvStep ==
    ASSUME FaultsAllowed, TwinsAreKept
    PROVE  SInv /\ [Next]_vars => SInv'
  <1> SUFFICES ASSUME SInv, [Next]_vars
               PROVE  SInv'
    OBVIOUS
  <1>1. LInv /\ LInv' /\ TypeOK /\ Stages
    BY LInvStep DEF SInv, LInv, IInv
  <1>2. RowsInOrder' /\ TwinOfLive'
    BY <1>1, RowsInOrderStep, TwinOfLiveStep DEF SInv
  <1>3. CASE ~ledgerPaged'
    <2>1. LiveRow /\ Recorded /\ Recorded' /\ ClosesNewest /\ StreakIsCounted /\ GateIsFresh
      BY <1>1, <1>3, PagedStays DEF SInv, LInv, IInv, Accounted
    <2>2. ClosesNewest'
      BY <1>1, <1>3, <2>1, ClosesNewestStep DEF SInv
    <2>3. StreakIsCounted'
      BY <1>1, <1>3, <2>1, StreakIsCountedStep
    <2>4. GateIsFresh'
      BY <1>1, <2>1, GateIsFreshStep
    <2> QED
      BY <1>1, <1>2, <2>2, <2>3, <2>4 DEF SInv
  <1> QED
    BY <1>1, <1>2, <1>3 DEF SInv

\* max_consec_losses: after that many losses in a row on a ledger the engine takes no entry
\* there until Resume, also in the minute that books the last of them, after restarts, paper
\* resets and Resumes on either ledger.  The gate counts what the ledger tells, so a page to
\* patch it ends the promise (_risk_gate, orchestrator.py:1732).
THEOREM LossStreakStopsEngineHolds ==
    ASSUME FaultsAllowed, TwinsAreKept
    PROVE  Spec => LossStreakStopsEngine
  <1>1. SInv /\ [Next]_vars => (EngineEnters => streak[run.mode] < MaxLosses \/ ledgerPaged)
    <2> SUFFICES ASSUME SInv, ~ledgerPaged, [Next]_vars, EngineEnters
                 PROVE  streak[run.mode] < MaxLosses
      OBVIOUS
    <2>1. Enter
      BY OnlyEnterEnters
    <2> QED
      BY <2>1 DEF Enter, SInv, GateIsFresh
  <1> QED
    BY <1>1, SInvInit, SInvStep, PTL DEF Spec, LossStreakStopsEngine

-----------------------------------------------------------------------------
(* UmpEngine                                                               *)

\* Prices and levels are positive (0 is None; a level at or under 0 is skipped); what is
\* switched on are kinds of entries.
UmpSettings ==
    /\ UmpPrices \subseteq Nat \ {0} /\ LevelSets \subseteq SUBSET Nat
    /\ Half \in Nat /\ Stop \in Nat /\ Tf \in Nat \ {0} /\ Timeout \in Nat
    /\ Enabled \subseteq Ump!Kinds

\* The newest minute and the candle the rules read agree on how low it was.
Quoted(e) ==
    /\ e.c > 0 /\ e.l > 0 /\ e.l <= e.ml /\ e.ml <= e.c
    /\ e.fresh.on => e.fresh.l > 0 /\ e.fresh.l <= e.ml

\* A trade that stands: its high was a price after the entry, a retest trade's base is a
\* level, and what the trail has seen lies above it.
Stands(e) ==
    /\ e.phase # -1 /\ ~e.exited /\ ~e.pos.under /\ e.pos.high <= e.pos.peak
    /\ e.pos.sub \in Ump!Retests => e.pos.b \in e.levels
    /\ e.pos.trail # 0 => e.pos.trail < e.pos.low /\ Ump!Earned(e)

Sound(e) ==
    /\ e \in Ump!Engines
    /\ e.trig.on => e.trig.scen # 0
    /\ e.phase # -1 => Quoted(e)
    /\ e.pos.open => Stands(e)

\* After the entry candle, the candle so far has been counted; before a tick its newest
\* minute may not have been.
CandleCounted(e) == e.pos.open /\ ~e.pos.here => Ump!View(e).h <= e.pos.peak
Reached(e) == e.pos.open /\ ~e.pos.here => Ump!View(e).h <= e.pos.peak \/ Ump!View(e).h <= e.mh

EngineInv == Sound(eng) /\ CandleCounted(eng)

-----------------------------------------------------------------------------
(* Smallest and largest.                                                    *)

LEMMA NatMin ==
    ASSUME NEW T, T \subseteq Nat, T # {}
    PROVE  \E d \in T : \A e \in T : d <= e
  <1> DEFINE R == {p \in Nat \X Nat : p[1] < p[2]}
  <1>1. OpToRel(<, Nat) = R
    BY Zenon DEF OpToRel
  <1>2. IsWellFoundedOn(R, Nat)
    BY <1>1, NatLessThanWellFounded, Zenon
  <1>3. PICK d \in T : \A e \in T : ~(<<e, d>> \in R)
    <2> HIDE DEF R
    <2> QED BY <1>2, WFMin, Zenon
  <1>4. \A e \in T : d <= e
    <2> TAKE e \in T
    <2>1. <<e, d>> \in Nat \X Nat /\ <<e, d>>[1] = e /\ <<e, d>>[2] = d
      OBVIOUS
    <2>2. ~(e < d)
      BY <2>1, <1>3
    <2> QED BY <2>2
  <1> QED
    BY <1>4

LEMMA MinIsLeast ==
    ASSUME NEW S, S \subseteq Nat, S # {}
    PROVE  Ump!Min(S) \in S /\ \A x \in S : Ump!Min(S) <= x
  <1>1. PICK d \in S : \A x \in S : d <= x
    BY NatMin
  <1> QED
    BY <1>1 DEF Ump!Min

LEMMA MaxIsMost ==
    ASSUME NEW n \in Nat, NEW S, S \subseteq 0 .. n, S # {}
    PROVE  Ump!Max(S) \in S /\ \A x \in S : x <= Ump!Max(S)
  <1>0. n \in Int /\ \A x \in S : x \in Int /\ x <= n
    OBVIOUS
  <1> DEFINE T == {n - x : x \in S}
  <1>1. T \subseteq Nat /\ T # {}
    <2>1. \A x \in S : n - x \in Nat
      BY <1>0
    <2>2. PICK x \in S : TRUE
      OBVIOUS
    <2>3. n - x \in T
      OBVIOUS
    <2> QED
      BY <2>1, <2>3
  <1>2. PICK d \in T : \A e \in T : d <= e
    <2> HIDE DEF T
    <2> QED BY <1>1, NatMin
  <1>3. PICK m \in S : d = n - m
    BY <1>2, Zenon
  <1>4. \A x \in S : m >= x
    <2> TAKE x \in S
    <2>1. n - x \in T
      OBVIOUS
    <2>2. d <= n - x
      BY <2>1, <1>2
    <2> QED BY <2>2, <1>3, <1>0
  <1> QED
    BY <1>4 DEF Ump!Max

LEMMA MinOfTwo ==
    ASSUME NEW a \in Nat, NEW b \in Nat
    PROVE  Ump!Min({a, b}) \in {a, b} /\ Ump!Min({a, b}) <= a /\ Ump!Min({a, b}) <= b
  BY MinIsLeast

LEMMA MaxOfThree ==
    ASSUME NEW a \in Nat, NEW b \in Nat, NEW c \in Nat
    PROVE  LET m == Ump!Max({a, b, c})
           IN  m \in {a, b, c} /\ a <= m /\ b <= m /\ c <= m
  <1>1. a + b + c \in Nat /\ {a, b, c} \subseteq 0 .. (a + b + c)
    OBVIOUS
  <1> QED
    BY <1>1, MaxIsMost

LEMMA MaxOfTwo ==
    ASSUME NEW a \in Nat, NEW b \in Nat
    PROVE  LET m == Ump!Max({a, b})
           IN  m \in {a, b} /\ a <= m /\ b <= m
  <1>1. a + b \in Nat /\ {a, b} \subseteq 0 .. (a + b)
    OBVIOUS
  <1> QED
    BY <1>1, MaxIsMost

-----------------------------------------------------------------------------
(* Geometry.                                                                *)

\* The next level above p is one, or there is none.
LEMMA AboveIsNext ==
    ASSUME NEW L, L \subseteq Nat, NEW p \in Nat
    PROVE  /\ Ump!Above(L, p) \in Nat
           /\ Ump!Above(L, p) # 0 => Ump!Above(L, p) \in L /\ Ump!Above(L, p) > p
  <1> DEFINE A == {b \in L : b > p}
  <1>1. CASE A = {}
    BY <1>1 DEF Ump!Above
  <1>2. CASE A # {}
    <2>1. A \subseteq Nat
      OBVIOUS
    <2>2. Ump!Min(A) \in A
      <3> HIDE DEF A
      <3> QED
        BY <1>2, <2>1, MinIsLeast
    <2>3. Ump!Above(L, p) = Ump!Min(A)
      BY <1>2 DEF Ump!Above
    <2> QED
      BY <2>2, <2>3
  <1> QED
    BY <1>1, <1>2

\* The rungs above b are whole numbers from b up to the next level.
LEMMA RungsAreNumbers ==
    ASSUME NEW b \in Nat, NEW nb \in Nat, nb > b, NEW retest \in BOOLEAN,
           NEW r \in Ump!Rungs(b, nb, retest)
    PROVE  r[1] \in Nat /\ r[2] \in Nat /\ r[1] <= nb /\ r \in Ump!Rungs(b, nb, TRUE)
  <1>1. (nb - b) \div 4 \in Nat /\ 4 * ((nb - b) \div 4) <= nb - b
    OBVIOUS
  <1> DEFINE q == (nb - b) \div 4
  <1>2. \/ r = <<b, b + q>> \/ r = <<b + q, b + 2 * q>> \/ r = <<b + 2 * q, b + 3 * q>>
        \/ r = <<b + 3 * q, nb>>
    BY DEF Ump!Rungs
  <1>3. r \in Ump!Rungs(b, nb, TRUE)
    BY DEF Ump!Rungs
  <1> HIDE DEF q
  <1>4. q \in Nat /\ 4 * q <= nb - b
    BY <1>1 DEF q
  <1>5. /\ b + q \in Nat /\ b + 2 * q \in Nat /\ b + 3 * q \in Nat
        /\ b + q <= nb /\ b + 2 * q <= nb /\ b + 3 * q <= nb
    BY <1>4
  <1>6. r[1] \in Nat /\ r[2] \in Nat /\ r[1] <= nb
    <2>1. CASE r = <<b, b + q>>
      BY <2>1, <1>5
    <2>2. CASE r = <<b + q, b + 2 * q>>
      BY <2>2, <1>5
    <2>3. CASE r = <<b + 2 * q, b + 3 * q>>
      BY <2>3, <1>5
    <2>4. CASE r = <<b + 3 * q, nb>>
      BY <2>4, <1>5
    <2> QED
      BY <1>2, <2>1, <2>2, <2>3, <2>4
  <1> QED
    BY <1>3, <1>6

\* The level a candle is said to come from is one.
LEMMA NearestIsLevel ==
    ASSUME UmpSettings, NEW e \in Ump!Engines, NEW o \in Nat, Ump!Origins(e, o) # {}
    PROVE  /\ Ump!Nearest(e, o) \in e.levels /\ Ump!Nearest(e, o) \in Nat
           /\ Ump!Scenario(Ump!Nearest(e, o), e.c) \in 1 .. 3
  <1> DEFINE D(b) == Ump!Distance(b, e.c)
             O == Ump!Origins(e, o)
             T == {D(b) : b \in O}
             N == {b \in O : \A a \in O : D(b) <= D(a)}
  <1>1. e.levels \subseteq Nat /\ e.c \in Nat /\ O \subseteq e.levels /\ \A b \in O : e.c > b
    BY DEF Ump!Engines, Ump!Origins
  <1>2. \A b \in O : D(b) \in Nat
    BY <1>1 DEF Ump!Distance, Ump!Scenario, Ump!Top, Ump!Upper, UmpSettings
  <1>3. PICK d \in T : \A x \in T : d <= x
    <2>1. T \subseteq Nat /\ T # {}
      BY <1>2
    <2> HIDE DEF T
    <2> QED
      BY <2>1, NatMin
  <1>4. N \subseteq Nat /\ N # {}
    <2> HIDE DEF D, O
    <2>1. PICK b \in O : d = D(b)
      BY <1>3
    <2>2. \A a \in O : D(a) \in T
      OBVIOUS
    <2>3. b \in N
      BY <2>1, <2>2, <1>3
    <2> QED
      BY <2>3, <1>1
  <1>5. Ump!Nearest(e, o) = Ump!Min(N)
    BY DEF Ump!Nearest
  <1>6. Ump!Min(N) \in N
    <2> HIDE DEF N
    <2> QED
      BY <1>4, MinIsLeast
  <1>7. \A b \in O : Ump!Scenario(b, e.c) \in 1 .. 3
    BY DEF Ump!Scenario
  <1> HIDE DEF D, O
  <1> QED
    BY <1>1, <1>5, <1>6, <1>7

-----------------------------------------------------------------------------
(* The stages a trade goes through on a tick, each as what it makes of it.  *)

Swap(e, t) == [e EXCEPT !.pos = t]

LEMMA Swapped ==
    ASSUME NEW e \in Ump!Engines, NEW t \in Ump!Trades
    PROVE  /\ Swap(e, t) \in Ump!Engines /\ Swap(e, t).pos = t
           /\ Swap(e, t).c = e.c /\ Swap(e, t).l = e.l /\ Swap(e, t).h = e.h
           /\ Swap(e, t).ml = e.ml /\ Swap(e, t).mh = e.mh /\ Swap(e, t).fresh = e.fresh
           /\ Swap(e, t).levels = e.levels /\ Swap(e, t).phase = e.phase
           /\ Swap(e, t).trig = e.trig /\ Swap(e, t).exited = e.exited
           /\ Ump!View(Swap(e, t)) = Ump!View(e)
           /\ \A u \in Ump!Trades : Swap(Swap(e, t), u) = Swap(e, u)
  <1>1. /\ Swap(e, t) \in Ump!Engines /\ Swap(e, t).pos = t
        /\ Swap(e, t).c = e.c /\ Swap(e, t).l = e.l /\ Swap(e, t).h = e.h
        /\ Swap(e, t).ml = e.ml /\ Swap(e, t).mh = e.mh /\ Swap(e, t).fresh = e.fresh
        /\ Swap(e, t).levels = e.levels /\ Swap(e, t).phase = e.phase
        /\ Swap(e, t).trig = e.trig /\ Swap(e, t).exited = e.exited /\ Swap(e, t).o = e.o
    BY DEF Swap, Ump!Engines
  <1>2. Ump!View(Swap(e, t)) = Ump!View(e)
    BY <1>1 DEF Ump!View
  <1>3. \A u \in Ump!Trades : Swap(Swap(e, t), u) = Swap(e, u)
    BY DEF Swap, Ump!Engines
  <1> QED
    BY <1>1, <1>2, <1>3

\* The numbers of an engine.
LEMMA EngineNumbers ==
    ASSUME NEW e \in Ump!Engines
    PROVE  /\ e.c \in Nat /\ e.h \in Nat /\ e.l \in Nat /\ e.o \in Nat
           /\ e.mh \in Nat /\ e.ml \in Nat
           /\ Ump!View(e) \in Ump!Candles
           /\ Ump!View(e).h \in Nat /\ Ump!View(e).l \in Nat /\ Ump!View(e).o \in Nat
           /\ e.levels \subseteq Nat /\ e.pos \in Ump!Trades /\ e.trig \in Ump!Triggers
           /\ e.pos.high \in Nat /\ e.pos.low \in Nat /\ e.pos.trail \in Nat
           /\ e.pos.peak \in Nat /\ e.pos.b \in Nat
  <1>1. /\ e.c \in Nat /\ e.h \in Nat /\ e.l \in Nat /\ e.o \in Nat
        /\ e.mh \in Nat /\ e.ml \in Nat /\ e.fresh \in Ump!Candles
        /\ e.levels \subseteq Nat /\ e.pos \in Ump!Trades /\ e.trig \in Ump!Triggers
    BY DEF Ump!Engines
  <1>2. Ump!View(e) \in Ump!Candles
    BY <1>1 DEF Ump!View, Ump!NoFresh, Ump!Candles
  <1> QED
    BY <1>1, <1>2 DEF Ump!Candles, Ump!Trades

LEMMA PeakedMakes ==
    ASSUME NEW e \in Ump!Engines
    PROVE  \E hi \in Nat :
             /\ [e.pos EXCEPT !.high = hi] \in Ump!Trades
             /\ Ump!Peaked(e) = Swap(e, [e.pos EXCEPT !.high = hi])
             /\ \/ hi = e.c \/ hi = e.pos.high
                \/ ~e.pos.here /\ hi = Ump!View(e).h
                \/ e.pos.here /\ EntryHigh /\ ~e.pos.now /\ hi = e.mh
  <1> DEFINE p == e.pos
             floor == IF p.high = 0 THEN e.c ELSE p.high
             hi == IF p.here
                   THEN IF EntryHigh /\ ~p.now THEN Ump!Max({floor, e.mh, e.c}) ELSE e.c
                   ELSE IF p.high = 0 THEN e.c ELSE Ump!Max({p.high, Ump!View(e).h})
  <1>1. Ump!Peaked(e) = Swap(e, [e.pos EXCEPT !.high = hi])
    BY DEF Ump!Peaked, Swap
  <1>2. floor \in Nat /\ p.high \in Nat /\ e.c \in Nat /\ e.mh \in Nat /\ Ump!View(e).h \in Nat
    BY EngineNumbers
  <1>3. Ump!Max({floor, e.mh, e.c}) \in {floor, e.mh, e.c}
    <2> HIDE DEF floor
    <2> QED
      BY <1>2, MaxOfThree
  <1>4. Ump!Max({p.high, Ump!View(e).h}) \in {p.high, Ump!View(e).h}
    BY <1>2, MaxOfTwo
  <1>5. /\ hi \in Nat
        /\ \/ hi = e.c \/ hi = e.pos.high
           \/ ~e.pos.here /\ hi = Ump!View(e).h
           \/ e.pos.here /\ EntryHigh /\ ~e.pos.now /\ hi = e.mh
    BY <1>2, <1>3, <1>4
  <1> HIDE DEF hi
  <1>6. [e.pos EXCEPT !.high = hi] \in Ump!Trades
    BY <1>5, EngineNumbers DEF Ump!Trades
  <1> QED
    BY <1>1, <1>5, <1>6

\* A trail that has moved is a rung the high has reached, and is set in this candle; a base
\* that has moved is a level, and that of a retest trade.
LEMMA TrailedMakes ==
    ASSUME NEW e \in Ump!Engines
    PROVE  \E t \in Ump!Trades :
             /\ Ump!Trailed(e) = Swap(e, t)
             /\ t = [e.pos EXCEPT !.trail = t.trail, !.seed = t.seed, !.b = t.b]
             /\ t.trail = e.pos.trail => (t.seed <=> e.pos.seed)
             /\ t.trail # e.pos.trail =>
                  /\ t.seed /\ Ump!Above(e.levels, e.pos.b) # 0
                  /\ \E r \in Ump!Rungs(e.pos.b, Ump!Above(e.levels, e.pos.b), TRUE) :
                       r[1] = t.trail /\ e.pos.high >= r[2]
             /\ t.b # e.pos.b => e.pos.sub \in Ump!Retests /\ t.b \in e.levels
  <1> DEFINE p == e.pos
             nb == Ump!Above(e.levels, p.b)
             RR == {x \in Ump!Rungs(p.b, nb, p.sub \in Ump!Retests) : p.high >= x[2]}
             earned == {r[1] : r \in RR}
             trail == Ump!Max(earned \cup {p.trail})
             seed == p.seed \/ trail # p.trail
             base == IF p.sub \in Ump!Retests /\ p.high >= nb /\ e.c > nb THEN nb ELSE p.b
  <1>1. /\ p \in Ump!Trades /\ p.b \in Nat /\ p.trail \in Nat /\ p.high \in Nat /\ p.seed \in BOOLEAN
        /\ e.levels \subseteq Nat
    BY EngineNumbers DEF Ump!Trades
  <1>2. nb \in Nat /\ (nb # 0 => nb \in e.levels /\ nb > p.b)
    BY <1>1, AboveIsNext
  <1>3. CASE nb = 0
    <2>1. Ump!Trailed(e) = e
      BY <1>3 DEF Ump!Trailed
    <2>2. [p EXCEPT !.trail = p.trail, !.seed = p.seed, !.b = p.b] = p
      BY <1>1 DEF Ump!Trades
    <2>3. Swap(e, p) = e
      BY DEF Swap, Ump!Engines
    <2> HIDE DEF p
    <2>4. Ump!Trailed(e) = Swap(e, p) /\ p \in Ump!Trades /\ p = e.pos
      BY <1>1, <2>1, <2>3 DEF p
    <2> QED
      BY <2>2, <2>4
  <1>4. CASE nb # 0
    <2>1. Ump!Trailed(e) = Swap(e, [p EXCEPT !.trail = trail, !.seed = seed, !.b = base])
      BY <1>4 DEF Ump!Trailed, Swap
    <2>2. \A r \in RR : r[1] \in Nat /\ r[1] <= nb /\ r \in Ump!Rungs(p.b, nb, TRUE)
                        /\ p.high >= r[2]
      <3> HIDE DEF nb
      <3> TAKE r \in RR
      <3>1. (p.sub \in Ump!Retests) \in BOOLEAN
        OBVIOUS
      <3>2. r \in Ump!Rungs(p.b, nb, p.sub \in Ump!Retests) /\ p.high >= r[2]
        OBVIOUS
      <3> QED
        BY <1>1, <1>2, <1>4, <3>1, <3>2, RungsAreNumbers
    <2>3. trail \in earned \cup {p.trail}
      <3> DEFINE S == earned \cup {p.trail}
      <3>1. \A x \in S : x \in 0 .. (nb + p.trail)
        <4> HIDE DEF RR, nb
        <4> TAKE x \in S
        <4>1. CASE x = p.trail
          BY <4>1, <1>1, <1>2
        <4>2. CASE x \in earned
          <5>1. PICK r \in RR : x = r[1]
            BY <4>2
          <5>2. r[1] \in Nat /\ r[1] <= nb
            BY <2>2, Zenon
          <5>3. \A y \in Nat : y <= nb => y \in 0 .. (nb + p.trail)
            BY <1>1, <1>2
          <5> QED
            BY <5>1, <5>2, <5>3, Zenon
        <4> QED
          BY <4>1, <4>2
      <3>2. nb + p.trail \in Nat /\ S # {} /\ S \subseteq 0 .. (nb + p.trail)
        <4> HIDE DEF nb, RR
        <4> QED
          BY <3>1, <1>1, <1>2
      <3>3. Ump!Max(S) \in S
        <4> HIDE DEF S
        <4> QED
          BY <3>2, MaxIsMost
      <3> QED
        BY <3>3
    <2>4. trail \in Nat /\ (trail # p.trail => \E r \in RR : r[1] = trail)
      <3> HIDE DEF trail, RR
      <3> QED
        BY <2>2, <2>3, <1>1
    <2>5. base \in Nat /\ (base # p.b => p.sub \in Ump!Retests /\ base \in e.levels)
      BY <1>1, <1>2, <1>4
    <2>6. seed \in BOOLEAN /\ (trail = p.trail => seed = p.seed)
                           /\ (trail # p.trail => seed = TRUE)
      BY <1>1
    <2> HIDE DEF trail, seed, base, RR, nb
    <2>7. [p EXCEPT !.trail = trail, !.seed = seed, !.b = base] \in Ump!Trades
      BY <1>1, <2>4, <2>5, <2>6 DEF Ump!Trades
    <2>8. trail # p.trail => \E r \in Ump!Rungs(p.b, nb, TRUE) : r[1] = trail /\ p.high >= r[2]
      BY <2>2, <2>4
    <2> DEFINE t == [p EXCEPT !.trail = trail, !.seed = seed, !.b = base]
    <2>9. t \in Ump!Trades /\ t.trail = trail /\ (t.seed <=> seed) /\ t.b = base
          /\ t = [p EXCEPT !.trail = t.trail, !.seed = t.seed, !.b = t.b]
      BY <1>1, <2>4, <2>5, <2>6, <2>7 DEF Ump!Trades
    <2>10. Ump!Trailed(e) = Swap(e, t)
      BY <2>1
    <2> HIDE DEF t
    <2> QED
      BY <1>4, <2>4, <2>5, <2>6, <2>8, <2>9, <2>10 DEF nb
  <1> QED
    BY <1>3, <1>4

LEMMA WatchedMakes ==
    ASSUME NEW e \in Ump!Engines
    PROVE  \E lo \in Nat :
             /\ [e.pos EXCEPT !.low = lo] \in Ump!Trades
             /\ Ump!Watched(e) = Swap(e, [e.pos EXCEPT !.low = lo])
             /\ e.pos.trail # 0 =>
                  IF e.pos.seed \/ e.pos.low = 0 THEN lo = e.c ELSE lo <= Ump!View(e).l
  <1>1. e.pos \in Ump!Trades /\ e.pos.low \in Nat /\ e.c \in Nat /\ Ump!View(e).l \in Nat
    BY EngineNumbers
  <1>2. \A lo \in Nat : [e.pos EXCEPT !.low = lo] \in Ump!Trades
    BY <1>1 DEF Ump!Trades
  <1>3. CASE e.pos.trail = 0
    <2>1. Ump!Watched(e) = Swap(e, [e.pos EXCEPT !.low = e.pos.low])
      BY <1>1, <1>3 DEF Ump!Watched, Swap, Ump!Engines, Ump!Trades
    <2> QED
      BY <1>1, <1>2, <1>3, <2>1
  <1>4. CASE e.pos.trail # 0
    <2> DEFINE lo == IF e.pos.seed \/ e.pos.low = 0 THEN e.c ELSE Ump!Min({e.pos.low, Ump!View(e).l})
    <2>1. Ump!Watched(e) = Swap(e, [e.pos EXCEPT !.low = lo])
      BY <1>4 DEF Ump!Watched, Swap
    <2>2. /\ Ump!Min({e.pos.low, Ump!View(e).l}) \in Nat
          /\ Ump!Min({e.pos.low, Ump!View(e).l}) <= Ump!View(e).l
      BY <1>1, MinOfTwo
    <2>3. lo \in Nat /\ IF e.pos.seed \/ e.pos.low = 0 THEN lo = e.c ELSE lo <= Ump!View(e).l
      BY <1>1, <2>2
    <2> HIDE DEF lo
    <2> QED
      BY <1>2, <2>1, <2>3
  <1> QED
    BY <1>3, <1>4

LEMMA SystemBMakes ==
    ASSUME UmpSettings, NEW e \in Ump!Engines, NEW nb \in Nat
    PROVE  \E sb \in Int, sd \in BOOLEAN, lo \in Nat :
             /\ [e.pos EXCEPT !.sb = sb, !.sbSeed = sd, !.sbLow = lo] \in Ump!Trades
             /\ Ump!SystemB(e, nb) = Swap(e, [e.pos EXCEPT !.sb = sb, !.sbSeed = sd, !.sbLow = lo])
  <1> DEFINE p == e.pos
             bottom == nb - 2 * Half
             step == IF p.sbSeed THEN 0
                     ELSE IF p.sb = 0 THEN IF p.high >= bottom THEN bottom ELSE 0
                     ELSE IF p.sb < nb - Half /\ p.high >= nb - Half THEN nb - Half ELSE 0
             sb == IF p.sub \in Ump!Retests \/ nb = 0 \/ step = 0 THEN p.sb ELSE step
             seed == p.sbSeed \/ sb # p.sb
             low == IF sb = 0 THEN p.sbLow
                    ELSE IF seed \/ p.sbLow = 0 THEN e.c ELSE Ump!Min({p.sbLow, Ump!View(e).l})
  <1>1. /\ p \in Ump!Trades /\ p.sb \in Int /\ p.sbSeed \in BOOLEAN /\ p.sbLow \in Nat
        /\ e.c \in Nat /\ Ump!View(e).l \in Nat
    BY EngineNumbers DEF Ump!Trades
  <1>2. Ump!SystemB(e, nb) = Swap(e, [p EXCEPT !.sb = sb, !.sbSeed = seed, !.sbLow = low])
    BY DEF Ump!SystemB, Swap
  <1>3. sb \in Int
    BY <1>1 DEF UmpSettings
  <1>4. seed \in BOOLEAN
    BY <1>1
  <1>5. low \in Nat
    <2> HIDE DEF sb, seed
    <2> QED
      BY <1>1, MinOfTwo
  <1> HIDE DEF sb, seed, low
  <1>6. [p EXCEPT !.sb = sb, !.sbSeed = seed, !.sbLow = low] \in Ump!Trades
    BY <1>1, <1>3, <1>4, <1>5 DEF Ump!Trades
  <1> QED
    BY <1>2, <1>3, <1>4, <1>5, <1>6

\* Of the history: the peak counts the close, and the newest high unless the entry may have
\* come after it; nothing is missed but a price at or under the trail.
LEMMA LivedMakes ==
    ASSUME NEW e \in Ump!Engines, NEW m \in Ump!Engines
    PROVE  \E pk \in Nat, un \in BOOLEAN :
             /\ [m.pos EXCEPT !.peak = pk, !.under = un] \in Ump!Trades
             /\ Ump!Lived(e, m) = Swap(m, [m.pos EXCEPT !.peak = pk, !.under = un])
             /\ pk >= m.pos.peak /\ pk >= m.c
             /\ ~(m.pos.here /\ (m.pos.now \/ ~EntryHigh)) => pk >= m.mh
             /\ un => \/ m.pos.under
                      \/ /\ m.pos.trail # 0
                         /\ m.c <= m.pos.trail \/ (~m.pos.seed /\ m.ml <= m.pos.trail)
  <1> DEFINE p == m.pos
             last == IF p.here /\ (p.now \/ ~EntryHigh) THEN 0 ELSE m.mh
             pk == Ump!Max({p.peak, m.c, last})
             un == \/ p.under /\ p.trail = e.pos.trail
                   \/ /\ p.trail # 0
                      /\ m.c <= p.trail \/ (~p.seed /\ m.ml <= p.trail)
  <1>1. p \in Ump!Trades /\ p.peak \in Nat /\ m.c \in Nat /\ m.mh \in Nat /\ p.under \in BOOLEAN
    BY EngineNumbers DEF Ump!Trades
  <1>2. Ump!Lived(e, m) = Swap(m, [p EXCEPT !.peak = pk, !.under = un])
    BY DEF Ump!Lived, Swap
  <1>3. last \in Nat
    BY <1>1
  <1>4. pk \in Nat /\ pk >= p.peak /\ pk >= m.c /\ pk >= last
    <2> HIDE DEF last
    <2> QED
      BY <1>1, <1>3, MaxOfThree
  <1>5. ~(p.here /\ (p.now \/ ~EntryHigh)) => last = m.mh
    OBVIOUS
  <1>6. un \in BOOLEAN
    OBVIOUS
  <1>7. un => \/ p.under
              \/ /\ p.trail # 0
                 /\ m.c <= p.trail \/ (~p.seed /\ m.ml <= p.trail)
    OBVIOUS
  <1> HIDE DEF pk, un, last
  <1>8. [p EXCEPT !.peak = pk, !.under = un] \in Ump!Trades
    BY <1>1, <1>4, <1>6 DEF Ump!Trades
  <1> QED
    BY <1>2, <1>4, <1>5, <1>6, <1>7, <1>8

\* What a tick makes of the trade before it looks for an exit.
LEMMA StagesMake ==
    ASSUME UmpSettings, NEW e \in Ump!Engines, NEW nb \in Nat
    PROVE  \E t \in Ump!Trades :
             /\ Ump!Lived(e, Ump!SystemB(Ump!Watched(Ump!Trailed(Ump!Peaked(e))), nb)) = Swap(e, t)
             /\ (t.open <=> e.pos.open) /\ (t.here <=> e.pos.here) /\ t.sub = e.pos.sub
             /\ \/ t.high = e.c \/ t.high = e.pos.high
                \/ ~e.pos.here /\ t.high = Ump!View(e).h
                \/ e.pos.here /\ EntryHigh /\ ~e.pos.now /\ t.high = e.mh
             /\ t.trail # e.pos.trail =>
                  /\ t.seed /\ Ump!Above(e.levels, e.pos.b) # 0
                  /\ \E r \in Ump!Rungs(e.pos.b, Ump!Above(e.levels, e.pos.b), TRUE) :
                       r[1] = t.trail /\ t.high >= r[2]
             /\ t.b # e.pos.b => e.pos.sub \in Ump!Retests /\ t.b \in e.levels
             /\ t.trail # 0 =>
                  IF t.seed \/ e.pos.low = 0 THEN t.low = e.c ELSE t.low <= Ump!View(e).l
             /\ t.peak >= e.pos.peak /\ t.peak >= e.c
             /\ ~(e.pos.here /\ (e.pos.now \/ ~EntryHigh)) => t.peak >= e.mh
             /\ t.under => \/ e.pos.under
                           \/ /\ t.trail # 0
                              /\ e.c <= t.trail \/ (~t.seed /\ e.ml <= t.trail)
  <1> DEFINE p == e.pos
  <1>0. p \in Ump!Trades
    BY EngineNumbers
  <1>1. PICK hi \in Nat :
          /\ [p EXCEPT !.high = hi] \in Ump!Trades
          /\ Ump!Peaked(e) = Swap(e, [p EXCEPT !.high = hi])
          /\ \/ hi = e.c \/ hi = p.high
             \/ ~p.here /\ hi = Ump!View(e).h
             \/ p.here /\ EntryHigh /\ ~p.now /\ hi = e.mh
    BY PeakedMakes
  <1> DEFINE t1 == [p EXCEPT !.high = hi]
             e1 == Swap(e, t1)
  <1>2. /\ t1 \in Ump!Trades /\ t1.high = hi /\ (t1.open <=> p.open) /\ (t1.here <=> p.here)
        /\ t1.sub = p.sub /\ (t1.now <=> p.now) /\ t1.b = p.b /\ t1.trail = p.trail
        /\ t1.low = p.low /\ t1.peak = p.peak /\ (t1.under <=> p.under)
    BY <1>0, <1>1 DEF Ump!Trades
  <1> HIDE DEF t1
  <1>3. /\ e1 \in Ump!Engines /\ e1.pos = t1 /\ e1.levels = e.levels /\ e1.c = e.c
        /\ \A u \in Ump!Trades : Swap(e1, u) = Swap(e, u)
    BY <1>2, Swapped
  <1>4. PICK t2 \in Ump!Trades :
          /\ Ump!Trailed(e1) = Swap(e1, t2)
          /\ t2 = [t1 EXCEPT !.trail = t2.trail, !.seed = t2.seed, !.b = t2.b]
          /\ t2.trail # t1.trail =>
               /\ t2.seed /\ Ump!Above(e.levels, p.b) # 0
               /\ \E r \in Ump!Rungs(p.b, Ump!Above(e.levels, p.b), TRUE) :
                    r[1] = t2.trail /\ hi >= r[2]
          /\ t2.b # t1.b => p.sub \in Ump!Retests /\ t2.b \in e.levels
    <2> HIDE DEF e1
    <2> QED
      BY <1>2, <1>3, TrailedMakes
  <1>5. /\ t2.high = hi /\ (t2.open <=> p.open) /\ (t2.here <=> p.here)
        /\ t2.sub = p.sub /\ (t2.now <=> p.now)
        /\ t2.low = p.low /\ t2.peak = p.peak /\ (t2.under <=> p.under)
    <2> DEFINE F(x, y, z) == [t1 EXCEPT !.trail = x, !.seed = y, !.b = z]
    <2>1. \A x, y, z : /\ F(x, y, z).high = t1.high /\ F(x, y, z).open = t1.open
                      /\ F(x, y, z).here = t1.here /\ F(x, y, z).sub = t1.sub
                      /\ F(x, y, z).now = t1.now /\ F(x, y, z).low = t1.low
                      /\ F(x, y, z).peak = t1.peak /\ F(x, y, z).under = t1.under
      BY <1>2 DEF Ump!Trades
    <2>2. t2 = F(t2.trail, t2.seed, t2.b)
      BY <1>4
    <2> HIDE DEF F
    <2>3. /\ t2.high = t1.high /\ t2.open = t1.open /\ t2.here = t1.here
          /\ t2.sub = t1.sub /\ t2.now = t1.now /\ t2.low = t1.low
          /\ t2.peak = t1.peak /\ t2.under = t1.under
      BY <2>1, <2>2
    <2> QED
      BY <1>2, <2>3
  <1> DEFINE e2 == Swap(e, t2)
  <1>6. /\ e2 \in Ump!Engines /\ e2.pos = t2 /\ e2.c = e.c /\ Ump!View(e2) = Ump!View(e)
        /\ \A u \in Ump!Trades : Swap(e2, u) = Swap(e, u)
    BY Swapped
  <1>7. PICK lo \in Nat :
          /\ [t2 EXCEPT !.low = lo] \in Ump!Trades
          /\ Ump!Watched(e2) = Swap(e2, [t2 EXCEPT !.low = lo])
          /\ t2.trail # 0 => IF t2.seed \/ t2.low = 0 THEN lo = e.c ELSE lo <= Ump!View(e).l
    <2> HIDE DEF e2
    <2>1. e2.pos = t2 /\ e2.c = e.c /\ Ump!View(e2) = Ump!View(e)
      BY <1>6
    <2> QED
      BY <1>6, <2>1, WatchedMakes
  <1> DEFINE t3 == [t2 EXCEPT !.low = lo]
             e3 == Swap(e, t3)
  <1>8. /\ t3 \in Ump!Trades /\ t3.low = lo /\ t3.high = hi /\ (t3.open <=> p.open)
        /\ (t3.here <=> p.here) /\ t3.sub = p.sub /\ (t3.now <=> p.now) /\ t3.b = t2.b
        /\ t3.trail = t2.trail /\ (t3.seed <=> t2.seed) /\ t3.peak = p.peak
        /\ (t3.under <=> p.under)
    BY <1>5, <1>7 DEF Ump!Trades
  <1> HIDE DEF t3
  <1>9. /\ e3 \in Ump!Engines /\ e3.pos = t3 /\ \A u \in Ump!Trades : Swap(e3, u) = Swap(e, u)
    BY <1>8, Swapped
  <1>10. PICK sb \in Int, sd \in BOOLEAN, sl \in Nat :
           /\ [e3.pos EXCEPT !.sb = sb, !.sbSeed = sd, !.sbLow = sl] \in Ump!Trades
           /\ Ump!SystemB(e3, nb)
                = Swap(e3, [e3.pos EXCEPT !.sb = sb, !.sbSeed = sd, !.sbLow = sl])
    <2> HIDE DEF e3
    <2> QED
      BY <1>9, SystemBMakes, Zenon
  <1> DEFINE t4 == [e3.pos EXCEPT !.sb = sb, !.sbSeed = sd, !.sbLow = sl]
             e4 == Swap(e, t4)
  <1>11. /\ t4 \in Ump!Trades /\ t4.low = lo /\ t4.high = hi /\ (t4.open <=> p.open)
         /\ (t4.here <=> p.here) /\ t4.sub = p.sub /\ (t4.now <=> p.now) /\ t4.b = t2.b
         /\ t4.trail = t2.trail /\ (t4.seed <=> t2.seed) /\ t4.peak = p.peak
         /\ (t4.under <=> p.under)
    <2>1. e3.pos = t3
      BY <1>9
    <2> HIDE DEF e3
    <2> QED
      BY <1>8, <1>10, <2>1 DEF Ump!Trades
  <1> HIDE DEF t4
  <1>12. /\ e4 \in Ump!Engines /\ e4.pos = t4 /\ e4.c = e.c /\ e4.mh = e.mh /\ e4.ml = e.ml
         /\ \A u \in Ump!Trades : Swap(e4, u) = Swap(e, u)
    BY <1>11, Swapped
  <1>13. PICK pk \in Nat, un \in BOOLEAN :
           /\ [t4 EXCEPT !.peak = pk, !.under = un] \in Ump!Trades
           /\ Ump!Lived(e, e4) = Swap(e4, [t4 EXCEPT !.peak = pk, !.under = un])
           /\ pk >= t4.peak /\ pk >= e.c
           /\ ~(t4.here /\ (t4.now \/ ~EntryHigh)) => pk >= e.mh
           /\ un => \/ t4.under
                    \/ /\ t4.trail # 0
                       /\ e.c <= t4.trail \/ (~t4.seed /\ e.ml <= t4.trail)
    <2> HIDE DEF e4
    <2>1. e4.pos = t4 /\ e4.c = e.c /\ e4.mh = e.mh /\ e4.ml = e.ml
      BY <1>12
    <2> QED
      BY <1>12, <2>1, LivedMakes
  <1> DEFINE t5 == [t4 EXCEPT !.peak = pk, !.under = un]
  <1>14. /\ t5 \in Ump!Trades /\ t5.low = lo /\ t5.high = hi /\ (t5.open <=> p.open)
         /\ (t5.here <=> p.here) /\ t5.sub = p.sub /\ t5.b = t2.b
         /\ t5.trail = t2.trail /\ (t5.seed <=> t2.seed) /\ t5.peak = pk
         /\ (t5.under <=> un)
    BY <1>11, <1>13 DEF Ump!Trades
  <1>15. Ump!Lived(e, Ump!SystemB(Ump!Watched(Ump!Trailed(Ump!Peaked(e))), nb)) = Swap(e, t5)
    <2>1. Ump!Peaked(e) = e1
      BY <1>1 DEF t1
    <2>2. Ump!Trailed(e1) = e2
      BY <1>3, <1>4
    <2>3. Ump!Watched(e2) = e3
      BY <1>6, <1>7, <1>8 DEF t3
    <2>4. Ump!SystemB(e3, nb) = e4
      BY <1>9, <1>10, <1>11 DEF t4
    <2>5. Ump!Lived(e, e4) = Swap(e, t5)
      BY <1>12, <1>13, <1>14
    <2> HIDE DEF e1, e2, e3, e4, t5
    <2> QED
      BY <2>1, <2>2, <2>3, <2>4, <2>5
  <1> HIDE DEF t5
  <1>16. \/ t5.high = e.c \/ t5.high = p.high
         \/ ~p.here /\ t5.high = Ump!View(e).h
         \/ p.here /\ EntryHigh /\ ~p.now /\ t5.high = e.mh
    BY <1>1, <1>14
  <1>17. t5.trail # p.trail =>
           /\ t5.seed /\ Ump!Above(e.levels, p.b) # 0
           /\ \E r \in Ump!Rungs(p.b, Ump!Above(e.levels, p.b), TRUE) : r[1] = t5.trail /\ t5.high >= r[2]
    BY <1>2, <1>4, <1>14
  <1>18. t5.b # p.b => p.sub \in Ump!Retests /\ t5.b \in e.levels
    BY <1>2, <1>4, <1>14
  <1>19. t5.trail # 0 => IF t5.seed \/ p.low = 0 THEN t5.low = e.c ELSE t5.low <= Ump!View(e).l
    BY <1>5, <1>7, <1>14
  <1>20. /\ t5.peak >= p.peak /\ t5.peak >= e.c
         /\ ~(p.here /\ (p.now \/ ~EntryHigh)) => t5.peak >= e.mh
    BY <1>11, <1>13, <1>14
  <1>21. t5.under => \/ p.under
                     \/ /\ t5.trail # 0
                        /\ e.c <= t5.trail \/ (~t5.seed /\ e.ml <= t5.trail)
    BY <1>11, <1>13, <1>14
  <1> QED
    BY <1>14, <1>15, <1>16, <1>17, <1>18, <1>19, <1>20, <1>21

\* The candle and its newest minute do not depend on the trade.
LEMMA QuotedSwap ==
    ASSUME NEW e \in Ump!Engines, NEW t \in Ump!Trades, Quoted(e)
    PROVE  Quoted(Swap(e, t))
  BY Swapped DEF Quoted

\* Where the candle the rules read lies.
LEMMA ViewIsQuoted ==
    ASSUME NEW e \in Ump!Engines, Quoted(e)
    PROVE  Ump!View(e).l <= e.ml
  BY DEF Quoted, Ump!View

\* Managing a trade leaves it sound, or over.
LEMMA ManagedKeeps ==
    ASSUME UmpSettings, NEW e, Sound(e), Reached(e), e.phase # -1, NEW new5m \in BOOLEAN
    PROVE  Sound(Ump!Managed(e, new5m)) /\ CandleCounted(Ump!Managed(e, new5m))
           /\ Ump!Managed(e, new5m).phase = e.phase
  <1>1. e \in Ump!Engines /\ Quoted(e) /\ e.pos \in Ump!Trades
    BY EngineNumbers DEF Sound
  <1>2. CASE ~e.pos.open
    BY <1>2 DEF Ump!Managed, CandleCounted
  <1>3. CASE e.pos.open
    <2> DEFINE b == e.pos.b
               nb == Ump!Above(e.levels, b)
               m == Ump!Lived(e, Ump!SystemB(Ump!Watched(Ump!Trailed(Ump!Peaked(e))), nb))
               reason == Ump!ExitReason(m, new5m, b, nb)
    <2>1. Stands(e)
      BY <1>3 DEF Sound
    <2>2. b \in Nat /\ e.levels \subseteq Nat /\ nb \in Nat
      BY <1>1, EngineNumbers, AboveIsNext
    <2>3. PICK t \in Ump!Trades :
            /\ m = Swap(e, t)
            /\ (t.open <=> e.pos.open) /\ (t.here <=> e.pos.here) /\ t.sub = e.pos.sub
            /\ \/ t.high = e.c \/ t.high = e.pos.high
               \/ ~e.pos.here /\ t.high = Ump!View(e).h
               \/ e.pos.here /\ EntryHigh /\ ~e.pos.now /\ t.high = e.mh
            /\ t.trail # e.pos.trail =>
                 /\ t.seed /\ nb # 0
                 /\ \E r \in Ump!Rungs(b, nb, TRUE) : r[1] = t.trail /\ t.high >= r[2]
            /\ t.b # b => e.pos.sub \in Ump!Retests /\ t.b \in e.levels
            /\ t.trail # 0 =>
                 IF t.seed \/ e.pos.low = 0 THEN t.low = e.c ELSE t.low <= Ump!View(e).l
            /\ t.peak >= e.pos.peak /\ t.peak >= e.c
            /\ ~(e.pos.here /\ (e.pos.now \/ ~EntryHigh)) => t.peak >= e.mh
            /\ t.under => \/ e.pos.under
                          \/ /\ t.trail # 0
                             /\ e.c <= t.trail \/ (~t.seed /\ e.ml <= t.trail)
      <3> HIDE DEF m
      <3> QED
        BY <1>1, <2>2, StagesMake DEF m
    <2>4. Ump!Managed(e, new5m) = Ump!Exited(m, reason)
      BY <1>3 DEF Ump!Managed
    <2> HIDE DEF m, nb
    <2>5. /\ m \in Ump!Engines /\ m.pos = t /\ m.c = e.c /\ m.ml = e.ml /\ m.mh = e.mh
          /\ m.levels = e.levels /\ m.phase = e.phase /\ m.trig = e.trig
          /\ (m.exited <=> e.exited) /\ Ump!View(m) = Ump!View(e) /\ Quoted(m)
      BY <1>1, <2>3, Swapped, QuotedSwap
    <2>6. CASE reason # "none"
      <3> DEFINE x == [m EXCEPT !.pos = Ump!NoTrade, !.exited = TRUE, !.trig = Ump!NoTrigger]
      <3>1. Ump!Managed(e, new5m) = x
        BY <2>4, <2>6 DEF Ump!Exited
      <3>2. Ump!NoTrade \in Ump!Trades /\ Ump!NoTrigger \in Ump!Triggers
        BY DEF Ump!NoTrade, Ump!Trades, Ump!NoTrigger, Ump!Triggers, Ump!Kinds
      <3>3. /\ x \in Ump!Engines /\ x.pos = Ump!NoTrade /\ x.trig = Ump!NoTrigger /\ x.phase = e.phase
            /\ x.c = m.c /\ x.l = m.l /\ x.ml = m.ml /\ x.fresh = m.fresh
        BY <2>5, <3>2 DEF Ump!Engines
      <3>4. Quoted(x)
        BY <2>5, <3>3 DEF Quoted
      <3>5. ~x.pos.open /\ ~x.trig.on
        BY <3>3 DEF Ump!NoTrade, Ump!NoTrigger
      <3> HIDE DEF x
      <3> QED
        BY <3>1, <3>3, <3>4, <3>5 DEF Sound, CandleCounted
    <2>7. CASE reason = "none"
      <3>1. Ump!Managed(e, new5m) = m
        BY <2>4, <2>7 DEF Ump!Exited
      <3>2. /\ e.c \in Nat /\ e.ml \in Nat /\ e.mh \in Nat /\ Ump!View(e).l \in Nat
            /\ Ump!View(e).h \in Nat /\ t.low \in Nat /\ t.trail \in Nat /\ t.high \in Nat
            /\ t.peak \in Nat /\ e.pos.low \in Nat /\ e.pos.trail \in Nat /\ e.pos.peak \in Nat
            /\ e.pos.high \in Nat /\ t.b \in Nat
        BY <1>1, EngineNumbers DEF Ump!Trades
      <3>3. t.trail # 0 => t.trail < t.low
        <4>1. ~(t.trail # 0 /\ t.low <= t.trail)
          <5> SUFFICES ASSUME t.trail # 0 /\ t.low <= t.trail
                       PROVE  reason # "none"
            BY <2>7
          <5>1. ~m.exited
            BY <2>1, <2>5 DEF Stands
          <5> QED
            BY <2>5, <5>1 DEF Ump!ExitReason
        <4> QED
          BY <4>1, <3>2
      <3>4. ~t.under
        <4> SUFFICES ASSUME t.under PROVE FALSE
          OBVIOUS
        <4>1. /\ t.trail # 0 /\ t.trail < t.low
              /\ e.c <= t.trail \/ (~t.seed /\ e.ml <= t.trail)
          BY <2>1, <2>3, <3>3 DEF Stands
        <4>2. Ump!View(e).l <= e.ml /\ e.ml <= e.c
          BY <1>1, ViewIsQuoted DEF Quoted
        <4>3. CASE t.seed
          BY <2>3, <3>2, <4>1, <4>3
        <4>4. CASE ~t.seed
          <5>1. t.trail = e.pos.trail
            BY <2>3, <4>4
          <5>2. e.pos.low # 0
            BY <2>1, <3>2, <4>1, <5>1 DEF Stands
          <5>3. t.low <= Ump!View(e).l
            BY <2>3, <4>1, <4>4, <5>2
          <5> QED
            BY <3>2, <4>1, <4>2, <5>3
        <4> QED
          BY <4>3, <4>4
      <3>5. ~e.pos.here => Ump!View(e).h <= t.peak
        <4> SUFFICES ASSUME ~e.pos.here PROVE Ump!View(e).h <= t.peak
          OBVIOUS
        <4>1. Ump!View(e).h <= e.pos.peak \/ Ump!View(e).h <= e.mh
          BY <1>3 DEF Reached
        <4>2. t.peak >= e.mh /\ t.peak >= e.pos.peak
          BY <2>3
        <4> QED
          BY <3>2, <4>1, <4>2
      <3>6. t.high <= t.peak
        <4>1. CASE t.high = e.c
          BY <2>3, <3>2, <4>1
        <4>2. CASE t.high = e.pos.high
          <5>1. e.pos.high <= e.pos.peak /\ e.pos.peak <= t.peak
            BY <2>1, <2>3, <3>2 DEF Stands
          <5> QED
            BY <3>2, <4>2, <5>1
        <4>3. CASE ~e.pos.here /\ t.high = Ump!View(e).h
          BY <3>5, <4>3
        <4>4. CASE e.pos.here /\ EntryHigh /\ ~e.pos.now /\ t.high = e.mh
          BY <2>3, <3>2, <4>4
        <4> QED
          BY <2>3, <4>1, <4>2, <4>3, <4>4
      <3>7. e.pos.sub \in Ump!Retests => t.b \in e.levels
        BY <2>1, <2>3 DEF Stands
      <3>8. t.trail # 0 => Ump!Earned(m)
        <4> SUFFICES ASSUME t.trail # 0 PROVE Ump!Earned(m)
          OBVIOUS
        <4>1. CASE t.trail # e.pos.trail
          <5>1. b \in e.levels \cup {t.b}
            BY <2>1, <2>3 DEF Stands
          <5>2. nb # 0 /\ nb > b
            BY <2>2, <2>3, <4>1, AboveIsNext DEF nb
          <5>3. PICK r \in Ump!Rungs(b, nb, TRUE) : r[1] = t.trail /\ t.high >= r[2]
            BY <2>3, <4>1
          <5>4. r[2] \in Nat
            <6>1. TRUE \in BOOLEAN
              OBVIOUS
            <6> QED
              BY <2>2, <5>2, <6>1, RungsAreNumbers
          <5>5. t.peak >= r[2]
            BY <3>2, <3>6, <5>3, <5>4
          <5> HIDE DEF b
          <5> QED
            BY <2>5, <5>1, <5>2, <5>3, <5>5 DEF Ump!Earned, nb
        <4>2. CASE t.trail = e.pos.trail
          <5>1. Ump!Earned(e)
            BY <2>1, <4>2 DEF Stands
          <5>2. PICK w \in e.levels \cup {b} :
                  /\ Ump!Above(e.levels, w) # 0
                  /\ \E r \in Ump!Rungs(w, Ump!Above(e.levels, w), TRUE) :
                       r[1] = e.pos.trail /\ e.pos.peak >= r[2]
            BY <5>1 DEF Ump!Earned
          <5>3. w \in Nat
            BY <2>2
          <5>4. Ump!Above(e.levels, w) \in Nat /\ Ump!Above(e.levels, w) > w
            BY <2>2, <5>2, <5>3, AboveIsNext
          <5>5. PICK r \in Ump!Rungs(w, Ump!Above(e.levels, w), TRUE) :
                  r[1] = e.pos.trail /\ e.pos.peak >= r[2]
            BY <5>2
          <5>6. r[2] \in Nat
            <6>1. TRUE \in BOOLEAN
              OBVIOUS
            <6> QED
              BY <5>3, <5>4, <6>1, RungsAreNumbers
          <5>7. t.peak >= r[2]
            BY <2>3, <3>2, <5>5, <5>6
          <5>8. w \in m.levels \cup {m.pos.b}
            BY <2>1, <2>3, <2>5 DEF Stands
          <5> HIDE DEF b
          <5> QED
            BY <2>5, <4>2, <5>2, <5>5, <5>7, <5>8 DEF Ump!Earned
        <4> QED
          BY <4>1, <4>2
      <3>9. Stands(m)
        BY <2>1, <2>3, <2>5, <3>3, <3>4, <3>6, <3>7, <3>8 DEF Stands
      <3>10. Sound(m)
        BY <2>5, <3>9, <1>1 DEF Sound
      <3>11. CandleCounted(m)
        BY <2>3, <2>5, <3>5 DEF CandleCounted
      <3> QED
        BY <2>5, <3>1, <3>10, <3>11
    <2> QED
      BY <2>6, <2>7
  <1> QED
    BY <1>2, <1>3

-----------------------------------------------------------------------------
(* Entries.                                                                 *)

\* What the invariant does not read may change.
LEMMA AlikeIsSound ==
    ASSUME NEW e, NEW f \in Ump!Engines,
           f.c = e.c, f.l = e.l, f.h = e.h, f.o = e.o, f.ml = e.ml, f.mh = e.mh,
           f.fresh = e.fresh, f.levels = e.levels, f.pos = e.pos, f.phase = e.phase,
           f.exited = e.exited, f.trig.on => f.trig.scen # 0
    PROVE  /\ Sound(e) => Sound(f)
           /\ Reached(e) => Reached(f)
           /\ CandleCounted(e) => CandleCounted(f)
  <1>1. Ump!View(f) = Ump!View(e)
    BY DEF Ump!View
  <1>2. Quoted(e) => Quoted(f)
    BY DEF Quoted
  <1>3. Stands(e) => Stands(f)
    BY DEF Stands, Ump!Earned
  <1> QED
    BY <1>1, <1>2, <1>3 DEF Sound, Reached, CandleCounted

LEMMA EntersKeeps ==
    ASSUME UmpSettings, NEW e, Sound(e), Reached(e), e.phase # -1, ~e.exited, NEW guard \in BOOLEAN
    PROVE  \A price \in Nat, b \in Nat : \A sub :
             (sub \in Ump!Retests => b \in e.levels) =>
               /\ Sound(Ump!Enters(e, price, b, sub, guard))
               /\ Reached(Ump!Enters(e, price, b, sub, guard))
               /\ Ump!Enters(e, price, b, sub, guard).phase = e.phase
  <1> SUFFICES ASSUME NEW price \in Nat, NEW b \in Nat, NEW sub, sub \in Ump!Retests => b \in e.levels
               PROVE  /\ Sound(Ump!Enters(e, price, b, sub, guard))
                      /\ Reached(Ump!Enters(e, price, b, sub, guard))
                      /\ Ump!Enters(e, price, b, sub, guard).phase = e.phase
    BY Zenon
  <1>1. CASE sub \notin Enabled \/ ~guard
    BY <1>1 DEF Ump!Enters
  <1>2. CASE sub \in Enabled /\ guard
    <2> DEFINE t == [Ump!NoTrade EXCEPT !.open = TRUE, !.sub = sub, !.b = b,
                                    !.eb = IF sub \in Ump!Retests THEN b ELSE 0,
                                    !.msl = price - Stop, !.here = TRUE, !.now = TRUE,
                                    !.peak = e.c]
               f == [e EXCEPT !.trig.on = FALSE, !.pos = t]
    <2>1. Ump!Enters(e, price, b, sub, guard) = f
      BY <1>2 DEF Ump!Enters
    <2>2. e \in Ump!Engines /\ e.c \in Nat /\ e.trig \in Ump!Triggers /\ Quoted(e)
      BY EngineNumbers DEF Sound
    <2>3. t \in Ump!Trades
      <3>1. sub \in Ump!Kinds /\ price - Stop \in Int /\ (IF sub \in Ump!Retests THEN b ELSE 0) \in Nat
        BY <1>2 DEF UmpSettings
      <3>2. Ump!NoTrade \in Ump!Trades
        BY DEF Ump!NoTrade, Ump!Trades, Ump!Kinds
      <3> QED
        BY <2>2, <3>1, <3>2 DEF Ump!Trades
    <2>4. /\ t.open /\ t.sub = sub /\ t.b = b /\ t.trail = 0 /\ t.high = 0 /\ t.peak = e.c
          /\ ~t.under /\ t.here
      BY DEF Ump!NoTrade
    <2> HIDE DEF t
    <2>5. [e.trig EXCEPT !.on = FALSE] \in Ump!Triggers /\ ~[e.trig EXCEPT !.on = FALSE].on
      BY <2>2 DEF Ump!Triggers
    <2>6. /\ f \in Ump!Engines /\ f.pos = t /\ f.phase = e.phase /\ f.levels = e.levels
          /\ (f.exited <=> e.exited) /\ ~f.trig.on
          /\ f.c = e.c /\ f.l = e.l /\ f.ml = e.ml /\ f.fresh = e.fresh
      BY <2>2, <2>3, <2>5 DEF Ump!Engines
    <2> HIDE DEF f
    <2>7. Quoted(f)
      BY <2>2, <2>6 DEF Quoted
    <2>8. Stands(f)
      BY <2>2, <2>4, <2>6 DEF Stands
    <2> QED
      BY <2>1, <2>4, <2>6, <2>7, <2>8 DEF Sound, Reached
  <1> QED
    BY <1>1, <1>2

\* A trigger that is armed names a scenario.
LEMMA TriggeredKeeps ==
    ASSUME UmpSettings, NEW e, Sound(e), Reached(e), e.phase # -1, NEW new5m \in BOOLEAN
    PROVE  /\ Sound(Ump!Triggered(e, new5m)) /\ Reached(Ump!Triggered(e, new5m))
           /\ Ump!Triggered(e, new5m).phase = e.phase
  <1> DEFINE o == Ump!View(e).o
             armed == new5m /\ ~e.pos.open /\ ~e.trig.on /\ e.c > o /\ Ump!Origins(e, o) # {}
             b == Ump!Nearest(e, o)
             g == [on |-> TRUE, age |-> 0, scen |-> Ump!Scenario(b, e.c), b |-> b]
             f == [e EXCEPT !.trig = g]
  <1>1. e \in Ump!Engines /\ o \in Nat
    BY EngineNumbers DEF Sound
  <1>2. CASE ~armed
    BY <1>2 DEF Ump!Triggered
  <1>3. CASE armed
    <2>1. Ump!Triggered(e, new5m) = f
      BY <1>3 DEF Ump!Triggered
    <2>2. b \in Nat /\ Ump!Scenario(b, e.c) \in 1 .. 3
      <3> HIDE DEF o
      <3>1. Ump!Origins(e, o) # {}
        BY <1>3
      <3> QED
        BY <1>1, <3>1, NearestIsLevel
    <2> HIDE DEF b
    <2>3. g \in Ump!Triggers /\ g.scen # 0
      BY <2>2 DEF Ump!Triggers
    <2> HIDE DEF g
    <2>4. /\ f \in Ump!Engines /\ f.trig = g /\ f.c = e.c /\ f.l = e.l /\ f.h = e.h /\ f.o = e.o
          /\ f.ml = e.ml /\ f.mh = e.mh /\ f.fresh = e.fresh /\ f.levels = e.levels
          /\ f.pos = e.pos /\ f.phase = e.phase /\ f.exited = e.exited
      BY <1>1, <2>3 DEF Ump!Engines
    <2> HIDE DEF f
    <2> QED
      BY <2>1, <2>3, <2>4, AlikeIsSound
  <1> QED
    BY <1>2, <1>3

\* A test candle enters at a price, and in no way of a retest.
LEMMA TestedMakes ==
    ASSUME UmpSettings, NEW e \in Ump!Engines, e.trig.scen \in 1 .. 3
    PROVE  Ump!Tested(e).price \in Nat /\ Ump!Tested(e).sub \notin Ump!Retests
  <1> DEFINE b == e.trig.b
             s == e.trig.scen
  <1>1. b \in Nat /\ Ump!Upper(b) \in Nat /\ Ump!Top(b) \in Nat /\ 0 \in Nat
    BY EngineNumbers DEF Ump!Triggers, Ump!Upper, Ump!Top, UmpSettings
  <1>2. s = 1 \/ s = 2 \/ s = 3
    OBVIOUS
  <1>3. /\ <<"S1A", "S2A", "S3A">>[s] \notin Ump!Retests
        /\ <<"S1B", "S2B", "S3B">>[s] \notin Ump!Retests
    BY <1>2 DEF Ump!Retests
  <1>4. "S1C" \notin Ump!Retests /\ "S3C" \notin Ump!Retests /\ "none" \notin Ump!Retests
    BY DEF Ump!Retests
  <1>5. \/ Ump!Tested(e) = [sub |-> <<"S1A", "S2A", "S3A">>[s], price |-> b]
        \/ Ump!Tested(e) = [sub |-> <<"S1B", "S2B", "S3B">>[s], price |-> Ump!Upper(b)]
        \/ Ump!Tested(e) = [sub |-> "S1C", price |-> Ump!Top(b)]
        \/ Ump!Tested(e) = [sub |-> "S3C", price |-> Ump!Top(b)]
        \/ Ump!Tested(e) = [sub |-> "none", price |-> 0]
    <2> DEFINE v == Ump!View(e)
               c1 == v.l <= b /\ v.h >= b
               c2 == v.l > b /\ v.l <= Ump!Upper(b)
               c3 == s = 1 /\ v.l > Ump!Upper(b) /\ v.l <= Ump!Top(b)
               c4 == s = 3 /\ (v.l > Ump!Upper(b) \/ v.h < b) /\ e.c > Ump!Top(b) /\ v.o < Ump!Top(b)
    <2>1. CASE c1
      BY <2>1 DEF Ump!Tested
    <2>2. CASE ~c1 /\ c2
      BY <2>2 DEF Ump!Tested
    <2>3. CASE ~c1 /\ ~c2 /\ c3
      BY <2>3 DEF Ump!Tested
    <2>4. CASE ~c1 /\ ~c2 /\ ~c3 /\ c4
      BY <2>4, Zenon DEF Ump!Tested
    <2>5. CASE ~c1 /\ ~c2 /\ ~c3 /\ ~c4
      BY <2>5, Zenon DEF Ump!Tested
    <2> QED
      BY <2>1, <2>2, <2>3, <2>4, <2>5
  <1> HIDE DEF s, b
  <1> QED
    BY <1>1, <1>3, <1>4, <1>5

LEMMA TestEnteredKeeps ==
    ASSUME UmpSettings, NEW e, Sound(e), Reached(e), e.phase # -1, NEW guard \in BOOLEAN
    PROVE  /\ Sound(Ump!TestEntered(e, guard)) /\ Reached(Ump!TestEntered(e, guard))
           /\ Ump!TestEntered(e, guard).phase = e.phase
  <1>1. e \in Ump!Engines /\ e.trig \in Ump!Triggers
    BY EngineNumbers DEF Sound
  <1>2. CASE ~e.trig.on \/ e.pos.open \/ e.exited \/ e.trig.age = 0
    BY <1>2 DEF Ump!TestEntered
  <1>3. CASE ~(~e.trig.on \/ e.pos.open \/ e.exited \/ e.trig.age = 0) /\ e.trig.age > Timeout
    <2> DEFINE f == [e EXCEPT !.trig = Ump!NoTrigger]
    <2>1. Ump!TestEntered(e, guard) = f
      BY <1>3 DEF Ump!TestEntered
    <2>2. Ump!NoTrigger \in Ump!Triggers /\ ~Ump!NoTrigger.on
      BY DEF Ump!NoTrigger, Ump!Triggers
    <2>3. /\ f \in Ump!Engines /\ f.trig = Ump!NoTrigger /\ f.c = e.c /\ f.l = e.l /\ f.h = e.h
          /\ f.o = e.o /\ f.ml = e.ml /\ f.mh = e.mh /\ f.fresh = e.fresh
          /\ f.levels = e.levels /\ f.pos = e.pos /\ f.phase = e.phase /\ f.exited = e.exited
      BY <1>1, <2>2 DEF Ump!Engines
    <2> HIDE DEF f
    <2> QED
      BY <2>1, <2>2, <2>3, AlikeIsSound
  <1>4. CASE ~(~e.trig.on \/ e.pos.open \/ e.exited \/ e.trig.age = 0) /\ ~(e.trig.age > Timeout)
    <2> DEFINE price == Ump!Tested(e).price
               sub == Ump!Tested(e).sub
               b == e.trig.b
    <2>1. Ump!TestEntered(e, guard) = Ump!Enters(e, price, b, sub, guard)
      BY <1>4 DEF Ump!TestEntered
    <2>2. e.trig.scen \in 1 .. 3 /\ b \in Nat
      BY <1>1, <1>4 DEF Sound, Ump!Triggers
    <2>3. price \in Nat /\ sub \notin Ump!Retests
      BY <1>1, <2>2, TestedMakes
    <2>4. ~e.exited
      BY <1>4
    <2>5. \A q \in Nat, x \in Nat : \A s :
             (s \in Ump!Retests => x \in e.levels) =>
               /\ Sound(Ump!Enters(e, q, x, s, guard)) /\ Reached(Ump!Enters(e, q, x, s, guard))
               /\ Ump!Enters(e, q, x, s, guard).phase = e.phase
      BY <2>4, EntersKeeps
    <2> HIDE DEF price, sub, b
    <2> QED
      BY <2>1, <2>2, <2>3, <2>5, Zenon
  <1> QED
    BY <1>2, <1>3, <1>4

LEMMA RetestEnteredKeeps ==
    ASSUME UmpSettings, NEW e, Sound(e), Reached(e), e.phase # -1, NEW guard \in BOOLEAN
    PROVE  /\ Sound(Ump!RetestEntered(e, guard)) /\ Reached(Ump!RetestEntered(e, guard))
           /\ Ump!RetestEntered(e, guard).phase = e.phase
  <1> DEFINE R == {x \in e.levels \ Medians : Ump!Retest(e, x) \in Enabled}
             b == Ump!Min(R)
             price == IF Ump!Retest(e, b) = "R1" THEN Ump!Upper(b) ELSE Ump!Top(b)
  <1>1. CASE e.pos.open \/ e.exited \/ e.trig.on \/ R = {}
    BY <1>1 DEF Ump!RetestEntered
  <1>2. CASE ~(e.pos.open \/ e.exited \/ e.trig.on \/ R = {})
    <2>1. Ump!RetestEntered(e, guard) = Ump!Enters(e, price, b, Ump!Retest(e, b), guard)
      BY <1>2 DEF Ump!RetestEntered
    <2>2. R \subseteq Nat /\ R \subseteq e.levels /\ R # {}
      BY <1>2, EngineNumbers DEF Sound
    <2>3. b \in R
      <3> HIDE DEF R
      <3> QED
        BY <2>2, MinIsLeast
    <2>4. b \in Nat /\ b \in e.levels
      BY <2>2, <2>3
    <2> HIDE DEF b
    <2>5. price \in Nat
      BY <2>4 DEF Ump!Upper, Ump!Top, UmpSettings
    <2>6. ~e.exited
      BY <1>2
    <2>7. \A q \in Nat, x \in Nat : \A s :
             (s \in Ump!Retests => x \in e.levels) =>
               /\ Sound(Ump!Enters(e, q, x, s, guard)) /\ Reached(Ump!Enters(e, q, x, s, guard))
               /\ Ump!Enters(e, q, x, s, guard).phase = e.phase
      BY <2>6, EntersKeeps
    <2> HIDE DEF price, R
    <2> QED
      BY <2>1, <2>4, <2>5, <2>7, Zenon
  <1> QED
    BY <1>1, <1>2

-----------------------------------------------------------------------------
(* Ticks.                                                                   *)

\* The levels are built before a trade, and frozen under it.
LEMMA BuiltKeeps ==
    ASSUME UmpSettings, NEW e, Sound(e), Reached(e), NEW new5m \in BOOLEAN, NEW L \in LevelSets
    PROVE  LET f == [e EXCEPT !.levels = IF ~e.pos.open /\ (new5m \/ @ = {}) THEN L ELSE @]
           IN  Sound(f) /\ Reached(f) /\ f.phase = e.phase
  <1> DEFINE f == [e EXCEPT !.levels = IF ~e.pos.open /\ (new5m \/ @ = {}) THEN L ELSE @]
  <1>1. e \in Ump!Engines /\ L \subseteq Nat
    BY DEF Sound, UmpSettings
  <1>2. CASE e.pos.open
    <2>1. f = e
      BY <1>1, <1>2 DEF Ump!Engines
    <2> HIDE DEF f
    <2>2. Sound(f) /\ Reached(f) /\ f.phase = e.phase
      BY <2>1
    <2> QED
      BY <2>2 DEF f
  <1>3. CASE ~e.pos.open
    <2> DEFINE N == IF new5m \/ e.levels = {} THEN L ELSE e.levels
    <2>1. f = [e EXCEPT !.levels = N] /\ N \subseteq Nat
      BY <1>1, <1>3 DEF Ump!Engines
    <2> HIDE DEF N
    <2>2. /\ f \in Ump!Engines /\ f.pos = e.pos /\ f.phase = e.phase /\ f.trig = e.trig
          /\ f.c = e.c /\ f.l = e.l /\ f.ml = e.ml /\ f.fresh = e.fresh
      BY <1>1, <2>1 DEF Ump!Engines
    <2> HIDE DEF f
    <2>3. Quoted(e) => Quoted(f)
      BY <2>2 DEF Quoted
    <2>4. Sound(f) /\ Reached(f) /\ f.phase = e.phase
      BY <1>3, <2>2, <2>3 DEF Sound, Reached
    <2> QED
      BY <2>4 DEF f
  <1> QED
    BY <1>2, <1>3

LEMMA TickKeeps ==
    ASSUME UmpSettings, NEW e, Sound(e), Reached(e), e.phase # -1, NEW new5m \in BOOLEAN,
           NEW guard \in BOOLEAN, NEW L \in LevelSets
    PROVE  /\ Sound(Ump!Tick(e, new5m, guard, L)) /\ CandleCounted(Ump!Tick(e, new5m, guard, L))
           /\ Ump!Tick(e, new5m, guard, L).phase = e.phase
  <1> DEFINE e1 == [e EXCEPT !.levels = IF ~e.pos.open /\ (new5m \/ @ = {}) THEN L ELSE @]
             e2 == Ump!Triggered(e1, new5m)
             e3 == Ump!TestEntered(e2, guard)
             e4 == Ump!RetestEntered(e3, guard)
  <1>1. Sound(e1) /\ Reached(e1) /\ e1.phase = e.phase
    BY BuiltKeeps
  <1> HIDE DEF e1
  <1>2. Sound(e2) /\ Reached(e2) /\ e2.phase = e.phase
    BY <1>1, TriggeredKeeps
  <1> HIDE DEF e2
  <1>3. Sound(e3) /\ Reached(e3) /\ e3.phase = e.phase
    BY <1>2, TestEnteredKeeps
  <1> HIDE DEF e3
  <1>4. Sound(e4) /\ Reached(e4) /\ e4.phase = e.phase
    BY <1>3, RetestEnteredKeeps
  <1> HIDE DEF e4
  <1>5. Ump!Tick(e, new5m, guard, L) = Ump!Managed(e4, new5m)
    BY DEF Ump!Tick, e1, e2, e3, e4
  <1> QED
    BY <1>4, <1>5, ManagedKeeps

LEMMA ConfirmedCloseKeeps ==
    ASSUME UmpSettings, NEW e, Sound(e), Reached(e), e.phase # -1,
           NEW guard \in BOOLEAN, NEW L \in LevelSets
    PROVE  /\ Sound(Ump!ConfirmedClose(e, guard, L)) /\ CandleCounted(Ump!ConfirmedClose(e, guard, L))
           /\ Ump!ConfirmedClose(e, guard, L).phase = e.phase
  <1> DEFINE f == [e EXCEPT !.prev = e.c, !.closed = TRUE]
             new5m == e.c # e.prev
  <1>1. Ump!ConfirmedClose(e, guard, L) = Ump!Tick(f, new5m, guard, L)
    BY DEF Ump!ConfirmedClose
  <1>2. e \in Ump!Engines /\ e.c \in Nat /\ (e.trig.on => e.trig.scen # 0)
    BY EngineNumbers DEF Sound
  <1>3. /\ f \in Ump!Engines /\ f.c = e.c /\ f.l = e.l /\ f.h = e.h /\ f.o = e.o
        /\ f.ml = e.ml /\ f.mh = e.mh /\ f.fresh = e.fresh /\ f.levels = e.levels
        /\ f.pos = e.pos /\ f.phase = e.phase /\ f.exited = e.exited /\ f.trig = e.trig
    BY <1>2 DEF Ump!Engines
  <1>4. new5m \in BOOLEAN
    OBVIOUS
  <1> HIDE DEF f, new5m
  <1>5. Sound(f) /\ Reached(f)
    BY <1>2, <1>3, AlikeIsSound
  <1>6. /\ Sound(Ump!Tick(f, new5m, guard, L)) /\ CandleCounted(Ump!Tick(f, new5m, guard, L))
        /\ Ump!Tick(f, new5m, guard, L).phase = f.phase
    BY <1>3, <1>4, <1>5, TickKeeps
  <1> QED
    BY <1>1, <1>3, <1>6

LEMMA DeferredKeeps ==
    ASSUME UmpSettings, NEW e, Sound(e), CandleCounted(e),
           NEW guard \in BOOLEAN, NEW L \in LevelSets
    PROVE  Sound(Ump!Deferred(e, guard, L))
  <1>1. CASE e.phase = -1 \/ e.closed
    BY <1>1 DEF Ump!Deferred
  <1>2. CASE ~(e.phase = -1 \/ e.closed)
    <2>1. Reached(e)
      BY DEF CandleCounted, Reached
    <2>2. Ump!Deferred(e, guard, L) = Ump!ConfirmedClose(e, guard, L)
      BY <1>2 DEF Ump!Deferred
    <2> QED
      BY <1>2, <2>1, <2>2, ConfirmedCloseKeeps
  <1> QED
    BY <1>1, <1>2

\* What a new candle forgets.
LEMMA BeginsKeeps ==
    ASSUME UmpSettings, NEW e, Sound(e), NEW n \in Nat
    PROVE  Sound(Ump!Begins(e, n)) /\ ~Ump!Begins(e, n).fresh.on
  <1> DEFINE age == IF e.trig.on THEN Ump!Min({e.trig.age + n, Timeout + 1}) ELSE 0
             g == [e.trig EXCEPT !.age = age]
             t == [e.pos EXCEPT !.here = FALSE, !.now = FALSE, !.seed = FALSE, !.sbSeed = FALSE]
             f == [e EXCEPT !.trig = g, !.was = e.prev, !.closed = FALSE, !.began = TRUE,
                            !.exited = FALSE, !.fresh = Ump!NoFresh, !.pos = t]
  <1>1. e \in Ump!Engines /\ e.trig \in Ump!Triggers /\ e.pos \in Ump!Trades /\ e.prev \in Nat
    BY EngineNumbers DEF Sound, Ump!Engines
  <1>2. Ump!Begins(e, n) = f
    BY <1>1 DEF Ump!Begins, Ump!Engines, Ump!Triggers, Ump!Trades
  <1>3. age \in Nat
    <2>1. e.trig.age + n \in Nat /\ Timeout + 1 \in Nat
      BY <1>1 DEF Ump!Triggers, UmpSettings
    <2> QED
      BY <2>1, MinOfTwo
  <1> HIDE DEF age
  <1>4. g \in Ump!Triggers /\ (g.on <=> e.trig.on) /\ g.scen = e.trig.scen
    BY <1>1, <1>3 DEF Ump!Triggers
  <1> HIDE DEF g
  <1>5. /\ t \in Ump!Trades /\ (t.open <=> e.pos.open) /\ (t.under <=> e.pos.under)
        /\ t.high = e.pos.high /\ t.peak = e.pos.peak /\ t.sub = e.pos.sub /\ t.b = e.pos.b
        /\ t.trail = e.pos.trail /\ t.low = e.pos.low
    BY <1>1 DEF Ump!Trades
  <1> HIDE DEF t
  <1>6. Ump!NoFresh \in Ump!Candles /\ ~Ump!NoFresh.on
    BY DEF Ump!NoFresh, Ump!Candles
  <1>7. /\ f \in Ump!Engines /\ f.trig = g /\ f.pos = t /\ ~f.exited /\ f.fresh = Ump!NoFresh
        /\ f.phase = e.phase /\ f.levels = e.levels
        /\ f.c = e.c /\ f.l = e.l /\ f.ml = e.ml
    BY <1>1, <1>4, <1>5, <1>6 DEF Ump!Engines
  <1> HIDE DEF f
  <1>8. Quoted(e) => Quoted(f)
    BY <1>6, <1>7 DEF Quoted
  <1>9. Stands(e) => Stands(f)
    BY <1>5, <1>7 DEF Stands, Ump!Earned
  <1> QED
    BY <1>2, <1>4, <1>5, <1>6, <1>7, <1>8, <1>9 DEF Sound

\* A bar that joins the candle: the rules have not counted it yet.
LEMMA JoinedKeeps ==
    ASSUME UmpSettings, NEW e, Sound(e), NEW n \in Nat, NEW m \in Ump!Bars, NEW p \in 0 .. Tf - 1,
           n = 0 => e.phase # -1 /\ CandleCounted(e), n > 0 => ~e.fresh.on
    PROVE  LET f == [Ump!Joined(e, m, n) EXCEPT !.phase = p]
           IN  Sound(f) /\ Reached(f) /\ f.phase = p
  <1> DEFINE first == n > 0 \/ e.phase = -1
             o == IF first THEN m.o ELSE e.o
             h == IF first THEN m.h ELSE Ump!Max({e.h, m.h})
             l == IF first THEN m.l ELSE Ump!Min({e.l, m.l})
             r == IF e.pending THEN [on |-> TRUE, o |-> m.o, h |-> m.h, l |-> m.l]
                  ELSE IF e.fresh.on
                       THEN [e.fresh EXCEPT !.h = Ump!Max({@, m.h}), !.l = Ump!Min({@, m.l})]
                       ELSE e.fresh
             t == [e.pos EXCEPT !.now = FALSE]
             f == [e EXCEPT !.o = o, !.h = h, !.l = l, !.c = m.c, !.mh = m.h, !.ml = m.l,
                            !.pos = t, !.pending = FALSE, !.fresh = r, !.phase = p]
  <1>1. /\ e \in Ump!Engines /\ e.pos \in Ump!Trades /\ e.fresh \in Ump!Candles
        /\ e.o \in Nat /\ e.h \in Nat /\ e.l \in Nat
        /\ e.fresh.h \in Nat /\ e.fresh.l \in Nat
    BY EngineNumbers DEF Sound, Ump!Engines, Ump!Candles
  <1>2. /\ m.o \in Nat /\ m.h \in Nat /\ m.l \in Nat /\ m.c \in Nat
        /\ m.l > 0 /\ m.c > 0 /\ m.l <= m.c
    <2>1. /\ m.o \in Nat \ {0} /\ m.h \in Nat \ {0} /\ m.l \in Nat \ {0} /\ m.c \in Nat \ {0}
          /\ m.l <= Ump!Min({m.o, m.c})
      BY DEF Ump!Bars, UmpSettings
    <2>2. Ump!Min({m.o, m.c}) \in Nat /\ Ump!Min({m.o, m.c}) <= m.c
      BY <2>1, MinOfTwo
    <2> QED
      BY <2>1, <2>2
  <1>3. [Ump!Joined(e, m, n) EXCEPT !.phase = p] = f
    BY <1>1 DEF Ump!Joined, Ump!Engines, Ump!Trades
  <1>4. /\ Ump!Max({e.h, m.h}) \in {e.h, m.h} /\ Ump!Max({e.fresh.h, m.h}) \in {e.fresh.h, m.h}
        /\ Ump!Min({e.l, m.l}) \in {e.l, m.l} /\ Ump!Min({e.l, m.l}) <= m.l
        /\ Ump!Min({e.fresh.l, m.l}) \in {e.fresh.l, m.l} /\ Ump!Min({e.fresh.l, m.l}) <= m.l
    BY <1>1, <1>2, MaxOfTwo, MinOfTwo
  <1>5. e.phase # -1 => Quoted(e)
    BY DEF Sound
  <1>6. o \in Nat /\ h \in Nat /\ l \in Nat /\ l > 0 /\ l <= m.l
    <2>1. ~first => e.l > 0
      BY <1>5 DEF Quoted
    <2> QED
      BY <1>1, <1>2, <1>4, <2>1
  <1>7. ~first => h \in {e.h, m.h}
    BY <1>4
  <1>8. first => h = m.h
    OBVIOUS
  <1>9. /\ r \in Ump!Candles
        /\ r.on => r.l > 0 /\ r.l <= m.l
        /\ r.on => \/ r.h = m.h
                   \/ e.fresh.on /\ r.h = e.fresh.h
    <2>1. CASE e.pending
      BY <1>2, <2>1 DEF Ump!Candles
    <2>2. CASE ~e.pending /\ e.fresh.on
      <3> DEFINE x == Ump!Max({e.fresh.h, m.h})
                 y == Ump!Min({e.fresh.l, m.l})
      <3>1. r = [e.fresh EXCEPT !.h = x, !.l = y]
        BY <2>2
      <3>2. e.phase # -1
        BY <2>2
      <3>3. e.fresh.l > 0
        BY <1>5, <2>2, <3>2 DEF Quoted
      <3>4. x \in Nat /\ y \in Nat /\ y > 0 /\ y <= m.l /\ x \in {e.fresh.h, m.h}
        BY <1>1, <1>2, <1>4, <3>3
      <3> HIDE DEF x, y, r
      <3>5. r \in Ump!Candles /\ r.h = x /\ r.l = y
        BY <1>1, <3>1, <3>4 DEF Ump!Candles
      <3> QED
        BY <2>2, <3>4, <3>5
    <2>3. CASE ~e.pending /\ ~e.fresh.on
      BY <1>1, <2>3
    <2> QED
      BY <2>1, <2>2, <2>3
  <1>10. ~r.on => ~e.fresh.on
    BY <1>1 DEF Ump!Candles
  <1> HIDE DEF o, h, l, r
  <1>11. /\ t \in Ump!Trades /\ (t.open <=> e.pos.open) /\ (t.under <=> e.pos.under)
         /\ (t.here <=> e.pos.here) /\ t.high = e.pos.high /\ t.peak = e.pos.peak
         /\ t.sub = e.pos.sub /\ t.b = e.pos.b /\ t.trail = e.pos.trail /\ t.low = e.pos.low
    BY <1>1 DEF Ump!Trades
  <1> HIDE DEF t
  <1>12. /\ f \in Ump!Engines /\ f.pos = t /\ f.phase = p /\ f.levels = e.levels
         /\ f.trig = e.trig /\ (f.exited <=> e.exited)
         /\ f.c = m.c /\ f.l = l /\ f.h = h /\ f.o = o /\ f.ml = m.l /\ f.mh = m.h /\ f.fresh = r
    <2>1. p \in -1 .. Tf - 1
      BY DEF UmpSettings
    <2>2. r \in Ump!Candles
      BY <1>9
    <2>3. f \in Ump!Engines
      BY <1>1, <1>2, <1>6, <1>11, <2>1, <2>2 DEF Ump!Engines
    <2>4. /\ f.pos = t /\ f.phase = p /\ f.levels = e.levels
          /\ f.trig = e.trig /\ (f.exited <=> e.exited)
          /\ f.c = m.c /\ f.l = l /\ f.h = h /\ f.o = o /\ f.ml = m.l /\ f.mh = m.h
          /\ f.fresh = r
      BY <1>1 DEF Ump!Engines
    <2> QED
      BY <2>3, <2>4
  <1> HIDE DEF f
  <1>13. Quoted(f)
    <2>1. f.c = m.c /\ f.l = l /\ f.ml = m.l /\ f.fresh = r
      BY <1>12
    <2>2. r.on => r.l > 0 /\ r.l <= m.l
      BY <1>9
    <2> QED
      BY <1>2, <1>6, <2>1, <2>2 DEF Quoted
  <1>14. Stands(e) => Stands(f)
    <2>1. p # -1
      OBVIOUS
    <2> QED
      BY <1>11, <1>12, <2>1 DEF Stands, Ump!Earned
  <1>15. Sound(f)
    BY <1>11, <1>12, <1>13, <1>14 DEF Sound
  <1>16. Reached(f)
    <2> SUFFICES ASSUME f.pos.open, ~f.pos.here
                 PROVE  Ump!View(f).h <= f.pos.peak \/ Ump!View(f).h <= f.mh
      BY DEF Reached
    <2>1. ~first => Ump!View(e).h <= e.pos.peak
      BY <1>11, <1>12 DEF CandleCounted
    <2>2. CASE r.on
      <3>1. Ump!View(f).h = r.h
        BY <1>12, <2>2 DEF Ump!View
      <3>2. CASE r.h = m.h
        BY <1>2, <1>12, <3>1, <3>2
      <3>3. CASE e.fresh.on /\ r.h = e.fresh.h
        <4>1. ~first
          BY <3>3
        <4>2. Ump!View(e).h = e.fresh.h
          BY <3>3 DEF Ump!View
        <4> QED
          BY <1>11, <1>12, <2>1, <3>1, <3>3, <4>1, <4>2
      <3> QED
        BY <1>9, <2>2, <3>2, <3>3
    <2>3. CASE ~r.on
      <3>1. Ump!View(f).h = h
        BY <1>12, <2>3 DEF Ump!View, Ump!NoFresh
      <3>2. CASE h = m.h
        BY <1>2, <1>12, <3>1, <3>2
      <3>3. CASE ~first /\ h = e.h
        <4>1. Ump!View(e).h = e.h
          BY <1>10, <2>3 DEF Ump!View, Ump!NoFresh
        <4> QED
          BY <1>11, <1>12, <2>1, <3>1, <3>3, <4>1
      <3> QED
        BY <1>7, <1>8, <3>2, <3>3
    <2> QED
      BY <2>2, <2>3
  <1> QED
    BY <1>3, <1>12, <1>15, <1>16

-----------------------------------------------------------------------------
(* The actions.                                                             *)

LEMMA InitKeeps ==
    ASSUME UmpSettings, Ump!Init
    PROVE  EngineInv
  <1>1. eng = Ump!NewEngine
    BY DEF Ump!Init
  <1>2. Ump!NoFresh \in Ump!Candles /\ Ump!NoTrigger \in Ump!Triggers /\ Ump!NoTrade \in Ump!Trades
    BY DEF Ump!NoFresh, Ump!Candles, Ump!NoTrigger, Ump!Triggers, Ump!NoTrade, Ump!Trades,
       Ump!Kinds
  <1>3. -1 \in -1 .. Tf - 1 /\ {} \in SUBSET Nat /\ 0 \in Nat
    BY DEF UmpSettings
  <1>4. eng \in Ump!Engines
    BY <1>1, <1>2, <1>3 DEF Ump!NewEngine, Ump!Engines
  <1>5. eng.phase = -1 /\ eng.trig = Ump!NoTrigger /\ eng.pos = Ump!NoTrade
    BY <1>1 DEF Ump!NewEngine
  <1>6. ~Ump!NoTrigger.on /\ ~Ump!NoTrade.open
    BY DEF Ump!NoTrigger, Ump!NoTrade
  <1> QED
    BY <1>4, <1>5, <1>6 DEF EngineInv, Sound, CandleCounted

\* What process_minute makes of the engine before its tick.
Begun(n, guard, L) ==
    LET e0 == [eng EXCEPT !.began = FALSE]
    IN  IF n > 0 THEN Ump!Begins(Ump!Deferred(e0, guard, L), n) ELSE e0
WithBar(n, p, m, guard, L) == [Ump!Joined(Begun(n, guard, L), m, n) EXCEPT !.phase = p]

LEMMA UnbegunKeeps ==
    ASSUME EngineInv
    PROVE  LET e0 == [eng EXCEPT !.began = FALSE]
           IN  Sound(e0) /\ CandleCounted(e0)
  <1> DEFINE e0 == [eng EXCEPT !.began = FALSE]
  <1>1. eng \in Ump!Engines /\ (eng.trig.on => eng.trig.scen # 0)
    BY DEF EngineInv, Sound
  <1>2. /\ e0 \in Ump!Engines /\ e0.c = eng.c /\ e0.l = eng.l /\ e0.h = eng.h /\ e0.o = eng.o
        /\ e0.ml = eng.ml /\ e0.mh = eng.mh /\ e0.fresh = eng.fresh
        /\ e0.levels = eng.levels /\ e0.pos = eng.pos /\ e0.phase = eng.phase
        /\ e0.exited = eng.exited /\ e0.trig = eng.trig
    BY <1>1 DEF Ump!Engines
  <1> HIDE DEF e0
  <1>3. Sound(e0) /\ CandleCounted(e0)
    BY <1>1, <1>2, AlikeIsSound DEF EngineInv
  <1> QED
    BY <1>3 DEF e0

LEMMA MinuteStages ==
    ASSUME UmpSettings, EngineInv, Ump!MinuteComes
    PROVE  \E n \in 0 .. Timeout + 1, p \in 0 .. Tf - 1, m \in Ump!Bars, guard \in BOOLEAN,
              L1, L2 \in LevelSets :
             /\ n = 0 => p > eng.phase
             /\ eng.phase = -1 => n = 1
             /\ Sound(Begun(n, guard, L1)) /\ Sound(WithBar(n, p, m, guard, L1))
             /\ Reached(WithBar(n, p, m, guard, L1)) /\ WithBar(n, p, m, guard, L1).phase = p
             /\ eng' = IF p = Tf - 1 THEN Ump!ConfirmedClose(WithBar(n, p, m, guard, L1), guard, L2)
                       ELSE Ump!Tick(WithBar(n, p, m, guard, L1), FALSE, guard, L2)
  <1>1. PICK n \in 0 .. Timeout + 1, p \in 0 .. Tf - 1, m \in Ump!Bars :
          /\ n = 0 => p > eng.phase
          /\ eng.phase = -1 => n = 1
          /\ Ump!Minute(n, p, m)
    BY DEF Ump!MinuteComes
  <1>2. PICK guard \in BOOLEAN, L1 \in LevelSets, L2 \in LevelSets :
          eng' = IF p = Tf - 1 THEN Ump!ConfirmedClose(WithBar(n, p, m, guard, L1), guard, L2)
                 ELSE Ump!Tick(WithBar(n, p, m, guard, L1), FALSE, guard, L2)
    BY <1>1, Zenon DEF Ump!Minute, WithBar, Begun
  <1> DEFINE e0 == [eng EXCEPT !.began = FALSE]
             f1 == Begun(n, guard, L1)
             f2 == WithBar(n, p, m, guard, L1)
  <1>3. n \in Nat /\ p # -1
    BY DEF UmpSettings
  <1>4. Sound(e0) /\ CandleCounted(e0) /\ e0.phase = eng.phase
    <2>1. e0.phase = eng.phase
      BY DEF EngineInv, Sound, Ump!Engines
    <2> QED
      BY <2>1, UnbegunKeeps
  <1>5. /\ Sound(f1)
        /\ n = 0 => f1.phase # -1 /\ CandleCounted(f1)
        /\ n > 0 => ~f1.fresh.on
    <2> HIDE DEF e0
    <2>1. CASE n > 0
      <3>1. Sound(Ump!Deferred(e0, guard, L1))
        BY <1>4, DeferredKeeps
      <3>2. f1 = Ump!Begins(Ump!Deferred(e0, guard, L1), n)
        BY <2>1 DEF Begun, e0
      <3> HIDE DEF f1
      <3>3. Sound(f1) /\ ~f1.fresh.on
        BY <1>3, <3>1, <3>2, BeginsKeeps
      <3> QED
        BY <2>1, <3>3
    <2>2. CASE ~(n > 0)
      <3>1. n = 0 /\ f1 = e0
        BY <1>3, <2>2 DEF Begun, e0
      <3> QED
        BY <1>1, <1>4, <3>1
    <2> QED
      BY <2>1, <2>2
  <1>6. f2 = [Ump!Joined(f1, m, n) EXCEPT !.phase = p]
    BY DEF WithBar
  <1> HIDE DEF f1, f2
  <1>7. Sound(f2) /\ Reached(f2) /\ f2.phase = p
    BY <1>3, <1>5, <1>6, JoinedKeeps
  <1> QED
    BY <1>1, <1>2, <1>5, <1>7 DEF f1, f2

LEMMA MinuteComesKeeps ==
    ASSUME UmpSettings, EngineInv, Ump!MinuteComes
    PROVE  EngineInv'
  <1>1. PICK n \in 0 .. Timeout + 1, p \in 0 .. Tf - 1, m \in Ump!Bars, guard \in BOOLEAN,
             L1, L2 \in LevelSets :
          /\ n = 0 => p > eng.phase
          /\ eng.phase = -1 => n = 1
          /\ Sound(Begun(n, guard, L1)) /\ Sound(WithBar(n, p, m, guard, L1))
          /\ Reached(WithBar(n, p, m, guard, L1)) /\ WithBar(n, p, m, guard, L1).phase = p
          /\ eng' = IF p = Tf - 1 THEN Ump!ConfirmedClose(WithBar(n, p, m, guard, L1), guard, L2)
                    ELSE Ump!Tick(WithBar(n, p, m, guard, L1), FALSE, guard, L2)
    BY MinuteStages, Zenon
  <1> DEFINE f == WithBar(n, p, m, guard, L1)
  <1>2. p # -1
    BY DEF UmpSettings
  <1> HIDE DEF f
  <1>3. Sound(f) /\ Reached(f) /\ f.phase # -1
    BY <1>1, <1>2 DEF f
  <1>4. Sound(Ump!ConfirmedClose(f, guard, L2)) /\ CandleCounted(Ump!ConfirmedClose(f, guard, L2))
    BY <1>3, ConfirmedCloseKeeps
  <1>5. Sound(Ump!Tick(f, FALSE, guard, L2)) /\ CandleCounted(Ump!Tick(f, FALSE, guard, L2))
    BY <1>3, TickKeeps
  <1>6. Sound(eng') /\ CandleCounted(eng')
    BY <1>1, <1>4, <1>5 DEF f
  <1> QED
    BY <1>6 DEF EngineInv, Sound, CandleCounted, Stands, Ump!Earned, Quoted

LEMMA StartEntryCycleKeeps ==
    ASSUME UmpSettings, EngineInv, Ump!StartEntryCycle
    PROVE  EngineInv'
  <1> DEFINE f == [eng EXCEPT !.trig = Ump!NoTrigger, !.pending = TRUE, !.began = FALSE,
                              !.fresh = Ump!NoFresh]
  <1>1. ~eng.pos.open /\ eng' = f
    BY DEF Ump!StartEntryCycle
  <1>2. eng \in Ump!Engines /\ (eng.phase # -1 => Quoted(eng))
    BY DEF EngineInv, Sound
  <1>3. /\ Ump!NoFresh \in Ump!Candles
        /\ Ump!NoTrigger \in Ump!Triggers
        /\ ~Ump!NoFresh.on
        /\ ~Ump!NoTrigger.on
    BY DEF Ump!NoFresh, Ump!Candles, Ump!NoTrigger, Ump!Triggers
  <1>4. /\ f \in Ump!Engines /\ f.trig = Ump!NoTrigger /\ f.fresh = Ump!NoFresh /\ f.pos = eng.pos
        /\ f.phase = eng.phase /\ f.c = eng.c /\ f.l = eng.l /\ f.ml = eng.ml
    BY <1>2, <1>3 DEF Ump!Engines
  <1> HIDE DEF f
  <1>5. Quoted(eng) => Quoted(f)
    BY <1>3, <1>4 DEF Quoted
  <1>6. Sound(f) /\ CandleCounted(f)
    BY <1>1, <1>2, <1>3, <1>4, <1>5 DEF Sound, CandleCounted
  <1> QED
    BY <1>1, <1>6 DEF EngineInv, Sound, CandleCounted, Stands, Ump!Earned, Quoted

LEMMA LockCandleKeeps ==
    ASSUME UmpSettings, EngineInv, Ump!LockCandle
    PROVE  EngineInv'
  <1> DEFINE f == [eng EXCEPT !.exited = TRUE, !.began = FALSE]
  <1>1. ~eng.pos.open /\ eng' = f
    BY DEF Ump!LockCandle
  <1>2. eng \in Ump!Engines /\ (eng.phase # -1 => Quoted(eng)) /\ (eng.trig.on => eng.trig.scen # 0)
    BY DEF EngineInv, Sound
  <1>3. /\ f \in Ump!Engines /\ f.trig = eng.trig /\ f.fresh = eng.fresh /\ f.pos = eng.pos
        /\ f.phase = eng.phase /\ f.c = eng.c /\ f.l = eng.l /\ f.ml = eng.ml
    BY <1>2 DEF Ump!Engines
  <1> HIDE DEF f
  <1>4. Quoted(eng) => Quoted(f)
    BY <1>3 DEF Quoted
  <1>5. Sound(f) /\ CandleCounted(f)
    BY <1>1, <1>2, <1>3, <1>4 DEF Sound, CandleCounted
  <1> QED
    BY <1>1, <1>5 DEF EngineInv, Sound, CandleCounted, Stands, Ump!Earned, Quoted

\* The engine keeps its invariant, whatever bars and levels come.
LEMMA EngineInvHolds ==
    ASSUME UmpSettings
    PROVE  Ump!Spec => []EngineInv
  <1>1. Ump!Init => EngineInv
    BY InitKeeps
  <1>2. EngineInv /\ [Ump!Next]_eng => EngineInv'
    <2> SUFFICES ASSUME EngineInv, [Ump!Next]_eng PROVE EngineInv'
      OBVIOUS
    <2>1. CASE Ump!MinuteComes
      BY <2>1, MinuteComesKeeps
    <2>2. CASE Ump!StartEntryCycle
      BY <2>2, StartEntryCycleKeeps
    <2>3. CASE Ump!LockCandle
      BY <2>3, LockCandleKeeps
    <2>4. CASE UNCHANGED eng
      BY <2>4 DEF EngineInv, Sound, CandleCounted, Stands, Ump!Earned, Quoted
    <2> QED
      BY <2>1, <2>2, <2>3, <2>4 DEF Ump!Next
  <1> QED
    BY <1>1, <1>2, PTL DEF Ump!Spec

-----------------------------------------------------------------------------
(* No close is lost: the trail a tick leaves is the one it would find again.*)

\* The high and the trail a tick makes of a trade.
Peak(e, p) ==
    LET floor == IF p.high = 0 THEN e.c ELSE p.high
    IN  IF p.here THEN IF EntryHigh /\ ~p.now THEN Ump!Max({floor, e.mh, e.c}) ELSE e.c
        ELSE IF p.high = 0 THEN e.c ELSE Ump!Max({p.high, Ump!View(e).h})

EarnedBy(L, b, sub, high) ==
    {r[1] : r \in {x \in Ump!Rungs(b, Ump!Above(L, b), sub \in Ump!Retests) : high >= x[2]}}

Climb(L, b, sub, high, trail) ==
    IF Ump!Above(L, b) = 0 THEN trail ELSE Ump!Max(EarnedBy(L, b, sub, high) \cup {trail})

LEMMA PeakIsNat ==
    ASSUME NEW e \in Ump!Engines
    PROVE  Peak(e, e.pos) \in Nat
  <1> DEFINE floor == IF e.pos.high = 0 THEN e.c ELSE e.pos.high
  <1>1. floor \in Nat /\ e.pos.high \in Nat /\ e.c \in Nat /\ e.mh \in Nat /\ Ump!View(e).h \in Nat
    BY EngineNumbers
  <1>2. Ump!Max({floor, e.mh, e.c}) \in {floor, e.mh, e.c}
    <2> HIDE DEF floor
    <2> QED
      BY <1>1, MaxOfThree
  <1>3. Ump!Max({e.pos.high, Ump!View(e).h}) \in {e.pos.high, Ump!View(e).h}
    BY <1>1, MaxOfTwo
  <1>4. Peak(e, e.pos) \in {Ump!Max({floor, e.mh, e.c}), e.c, Ump!Max({e.pos.high, Ump!View(e).h})}
    BY DEF Peak
  <1> QED
    BY <1>1, <1>2, <1>3, <1>4

\* A high once taken is taken again.
LEMMA PeakTwice ==
    ASSUME NEW e \in Ump!Engines, NEW m \in Ump!Engines, e.c # 0, e.pos.high # 0 \/ e.pos.here,
           m.c = e.c, m.mh = e.mh, Ump!View(m).h = Ump!View(e).h,
           m.pos.here <=> e.pos.here, m.pos.now <=> e.pos.now, m.pos.high = Peak(e, e.pos)
    PROVE  Peak(m, m.pos) = Peak(e, e.pos) /\ Peak(e, e.pos) # 0
  <1> DEFINE p == e.pos
             h == Ump!View(e).h
             k == Peak(e, p)
             floor == IF p.high = 0 THEN e.c ELSE p.high
  <1>1. /\ floor \in Nat /\ p.high \in Nat /\ e.c \in Nat /\ e.mh \in Nat /\ h \in Nat /\ k \in Nat
    BY EngineNumbers, PeakIsNat
  <1>2. CASE p.here /\ EntryHigh /\ ~p.now
    <2>1. k = Ump!Max({floor, e.mh, e.c})
      BY <1>2 DEF Peak
    <2>2. k >= e.mh /\ k >= e.c
      <3> HIDE DEF floor, k
      <3> QED
        BY <1>1, <2>1, MaxOfThree
    <2>3. k # 0
      <3> HIDE DEF k
      <3> QED
        BY <1>1, <2>2
    <2>4. Peak(m, m.pos) = Ump!Max({k, e.mh, e.c})
      BY <1>2, <2>3 DEF Peak
    <2>5. Ump!Max({k, e.mh, e.c}) = k
      <3> HIDE DEF k
      <3>1. LET x == Ump!Max({k, e.mh, e.c})
            IN  x \in {k, e.mh, e.c} /\ k <= x
        BY <1>1, MaxOfThree
      <3> QED
        BY <1>1, <2>2, <3>1
    <2> QED
      BY <2>3, <2>4, <2>5
  <1>3. CASE p.here /\ ~(EntryHigh /\ ~p.now)
    BY <1>3 DEF Peak
  <1>4. CASE ~p.here
    <2>1. k = Ump!Max({p.high, h}) /\ p.high # 0
      BY <1>4 DEF Peak
    <2>2. k >= p.high /\ k >= h
      <3> HIDE DEF p, h, k
      <3> QED
        BY <1>1, <2>1, MaxOfTwo
    <2>3. k # 0
      <3> HIDE DEF p, h, k
      <3> QED
        BY <1>1, <2>1, <2>2
    <2>4. Peak(m, m.pos) = Ump!Max({k, h})
      BY <1>4, <2>3 DEF Peak
    <2>5. Ump!Max({k, h}) = k
      <3> HIDE DEF k, h
      <3>1. LET x == Ump!Max({k, h})
            IN  x \in {k, h} /\ k <= x
        BY <1>1, MaxOfTwo
      <3> QED
        BY <1>1, <2>2, <3>1
    <2> QED
      BY <2>3, <2>4, <2>5
  <1> QED
    BY <1>2, <1>3, <1>4

\* The trail is the highest of its rungs and itself.
LEMMA ClimbIsMost ==
    ASSUME NEW L, L \subseteq Nat, NEW b \in Nat, NEW sub, NEW high \in Nat, NEW trail \in Nat
    PROVE  /\ Climb(L, b, sub, high, trail) \in Nat
           /\ Ump!Above(L, b) # 0 =>
                LET S == EarnedBy(L, b, sub, high) \cup {trail}
                IN  /\ Climb(L, b, sub, high, trail) \in S
                    /\ \A x \in S : x \in Nat /\ x <= Climb(L, b, sub, high, trail)
  <1> DEFINE nb == Ump!Above(L, b)
             S == EarnedBy(L, b, sub, high) \cup {trail}
  <1>1. nb \in Nat /\ (nb # 0 => nb > b)
    BY AboveIsNext
  <1>2. CASE nb = 0
    BY <1>2 DEF Climb
  <1>3. CASE nb # 0
    <2>1. \A x \in EarnedBy(L, b, sub, high) : x \in Nat /\ x <= nb
      <3> HIDE DEF nb
      <3> TAKE x \in EarnedBy(L, b, sub, high)
      <3>1. PICK r \in Ump!Rungs(b, nb, sub \in Ump!Retests) : x = r[1]
        BY DEF EarnedBy, nb
      <3>2. (sub \in Ump!Retests) \in BOOLEAN
        OBVIOUS
      <3> QED
        BY <1>1, <1>3, <3>1, <3>2, RungsAreNumbers
    <2>2. Climb(L, b, sub, high, trail) = Ump!Max(S)
      BY <1>3 DEF Climb
    <2> HIDE DEF nb
    <2>3. nb + trail \in Nat /\ S # {} /\ S \subseteq 0 .. (nb + trail)
      BY <1>1, <2>1
    <2> HIDE DEF S
    <2>4. Ump!Max(S) \in S /\ \A x \in S : x <= Ump!Max(S)
      BY <2>3, MaxIsMost
    <2>5. \A x \in S : x \in Nat
      BY <2>3
    <2>6. Climb(L, b, sub, high, trail) \in S /\ \A x \in S : x \in Nat /\ x <= Climb(L, b, sub, high, trail)
      BY <2>2, <2>4, <2>5
    <2> QED
      BY <2>5, <2>6 DEF S
  <1> QED
    BY <1>2, <1>3

\* A trail once climbed to is climbed to again.
LEMMA ClimbTwice ==
    ASSUME NEW L, L \subseteq Nat, NEW b \in Nat, NEW sub, NEW high \in Nat, NEW trail \in Nat
    PROVE  Climb(L, b, sub, high, Climb(L, b, sub, high, trail)) = Climb(L, b, sub, high, trail)
  <1> DEFINE t == Climb(L, b, sub, high, trail)
             u == Climb(L, b, sub, high, t)
             E == EarnedBy(L, b, sub, high)
  <1>1. CASE Ump!Above(L, b) = 0
    BY <1>1 DEF Climb
  <1>2. CASE Ump!Above(L, b) # 0
    <2>1. t \in Nat /\ \A x \in E : x \in Nat /\ x <= t
      <3> HIDE DEF t
      <3> QED
        BY <1>2, ClimbIsMost DEF t
    <2>2. u \in E \cup {t} /\ u \in Nat /\ t <= u
      <3> HIDE DEF t
      <3> QED
        BY <1>2, <2>1, ClimbIsMost
    <2> HIDE DEF t, u, E
    <2>3. u = t
      BY <2>1, <2>2
    <2> QED
      BY <2>3 DEF t, u
  <1> QED
    BY <1>1, <1>2

\* What the first two stages make of the trade.
LEMMA PeakedAndTrailed ==
    ASSUME NEW e \in Ump!Engines
    PROVE  \E t \in Ump!Trades :
             /\ Ump!Trailed(Ump!Peaked(e)) = Swap(e, t)
             /\ (t.open <=> e.pos.open) /\ (t.here <=> e.pos.here) /\ (t.now <=> e.pos.now)
             /\ t.sub = e.pos.sub /\ t.eb = e.pos.eb
             /\ t.high = Peak(e, e.pos)
             /\ t.trail = Climb(e.levels, e.pos.b, e.pos.sub, t.high, e.pos.trail)
             /\ t.b # e.pos.b => e.pos.sub \in Ump!Retests /\ t.b > e.pos.b /\ e.c > t.b
  <1> DEFINE p == e.pos
             k == Peak(e, p)
             t1 == [p EXCEPT !.high = k]
             e1 == Swap(e, t1)
             nb == Ump!Above(e.levels, p.b)
  <1>1. /\ p \in Ump!Trades /\ p.b \in Nat /\ p.trail \in Nat /\ p.seed \in BOOLEAN /\ k \in Nat
        /\ e.levels \subseteq Nat /\ e.c \in Nat
    BY EngineNumbers, PeakIsNat DEF Ump!Trades
  <1>2. Ump!Peaked(e) = e1
    BY DEF Ump!Peaked, Swap, Peak
  <1> HIDE DEF k
  <1>3. /\ t1 \in Ump!Trades /\ t1.high = k /\ t1.open = p.open /\ t1.here = p.here
        /\ t1.now = p.now /\ t1.sub = p.sub /\ t1.eb = p.eb /\ t1.b = p.b /\ t1.trail = p.trail
        /\ t1.seed = p.seed
    BY <1>1 DEF Ump!Trades
  <1> HIDE DEF t1
  <1>4. /\ e1 \in Ump!Engines /\ e1.pos = t1 /\ e1.levels = e.levels /\ e1.c = e.c
        /\ \A u \in Ump!Trades : Swap(e1, u) = Swap(e, u)
    BY <1>3, Swapped
  <1> HIDE DEF e1
  <1>5. nb \in Nat /\ (nb # 0 => nb > p.b)
    BY <1>1, AboveIsNext
  <1>6. CASE nb = 0
    <2>1. Ump!Trailed(e1) = e1
      BY <1>3, <1>4, <1>6 DEF Ump!Trailed
    <2>2. p.trail = Climb(e.levels, p.b, p.sub, k, p.trail)
      BY <1>6 DEF Climb
    <2> HIDE DEF nb
    <2>3. e1 = Swap(e, t1)
      BY DEF e1
    <2> QED
      BY <1>2, <1>3, <2>1, <2>2, <2>3 DEF k
  <1>7. CASE nb # 0
    <2> DEFINE trail == Climb(e.levels, p.b, p.sub, k, p.trail)
               seed == p.seed \/ trail # p.trail
               base == IF p.sub \in Ump!Retests /\ k >= nb /\ e.c > nb THEN nb ELSE p.b
               t == [t1 EXCEPT !.trail = trail, !.seed = seed, !.b = base]
    <2>1. trail = Ump!Max({r[1] : r \in {x \in Ump!Rungs(p.b, nb, p.sub \in Ump!Retests) : k >= x[2]}}
                          \cup {p.trail})
      BY <1>7 DEF Climb, EarnedBy
    <2>2. trail \in Nat
      BY <1>1, ClimbIsMost
    <2> HIDE DEF trail
    <2>3. Ump!Trailed(e1) = Swap(e1, t)
      <3> DEFINE mb == Ump!Above(e1.levels, e1.pos.b)
                 mt == Ump!Max({r[1] : r \in {x \in Ump!Rungs(e1.pos.b, mb, e1.pos.sub \in Ump!Retests) :
                                                e1.pos.high >= x[2]}} \cup {e1.pos.trail})
      <3>1. mb = nb /\ mt = trail
        BY <1>3, <1>4, <2>1
      <3>2. mb # 0 => Ump!Trailed(e1) =
              [e1 EXCEPT !.pos.trail = mt, !.pos.seed = @ \/ mt # e1.pos.trail,
                         !.pos.b = IF e1.pos.sub \in Ump!Retests /\ e1.pos.high >= mb /\ e1.c > mb
                                   THEN mb ELSE @]
        BY Zenon DEF Ump!Trailed
      <3> HIDE DEF mb, mt, nb
      <3>3. Ump!Trailed(e1) =
              [e1 EXCEPT !.pos.trail = trail, !.pos.seed = @ \/ trail # e1.pos.trail,
                         !.pos.b = IF e1.pos.sub \in Ump!Retests /\ e1.pos.high >= nb /\ e1.c > nb
                                   THEN nb ELSE @]
        BY <1>7, <3>1, <3>2
      <3> QED
        BY <1>3, <1>4, <3>3 DEF Swap
    <2>4. base \in Nat /\ (base # p.b => p.sub \in Ump!Retests /\ base > p.b /\ e.c > base)
      BY <1>1, <1>5, <1>7
    <2>5. seed \in BOOLEAN
      BY <1>1
    <2> HIDE DEF base, seed
    <2>6. /\ t \in Ump!Trades /\ t.high = k /\ t.open = p.open /\ t.here = p.here
          /\ t.now = p.now /\ t.sub = p.sub /\ t.eb = p.eb /\ t.b = base /\ t.trail = trail
      BY <1>3, <2>2, <2>4, <2>5 DEF Ump!Trades
    <2> HIDE DEF t
    <2>7. Ump!Trailed(e1) = Swap(e, t)
      BY <1>4, <2>3, <2>6
    <2> QED
      BY <1>2, <2>4, <2>6, <2>7 DEF k, trail
  <1> QED
    BY <1>6, <1>7

\* The other stages leave all that alone.
LEMMA LaterStagesKeep ==
    ASSUME UmpSettings, NEW e \in Ump!Engines, NEW f \in Ump!Engines, NEW nb \in Nat
    PROVE  \E t \in Ump!Trades :
             /\ Ump!Lived(e, Ump!SystemB(Ump!Watched(f), nb)) = Swap(f, t)
             /\ (t.open <=> f.pos.open) /\ (t.here <=> f.pos.here) /\ (t.now <=> f.pos.now)
             /\ t.sub = f.pos.sub /\ t.eb = f.pos.eb /\ t.b = f.pos.b
             /\ t.high = f.pos.high /\ t.trail = f.pos.trail
  <1> DEFINE p == f.pos
             Same(t) == /\ t \in Ump!Trades
                        /\ t.open = p.open /\ t.here = p.here /\ t.now = p.now
                        /\ t.sub = p.sub /\ t.eb = p.eb /\ t.b = p.b
                        /\ t.high = p.high /\ t.trail = p.trail
  <1>0. p \in Ump!Trades
    BY EngineNumbers
  <1>1. PICK t1 : Same(t1) /\ Ump!Watched(f) = Swap(f, t1)
    <2>1. PICK lo \in Nat : /\ [p EXCEPT !.low = lo] \in Ump!Trades
                            /\ Ump!Watched(f) = Swap(f, [p EXCEPT !.low = lo])
      BY WatchedMakes
    <2>2. Same([p EXCEPT !.low = lo])
      BY <1>0, <2>1 DEF Ump!Trades
    <2> HIDE DEF Same
    <2> QED
      BY <2>1, <2>2
  <1> DEFINE e1 == Swap(f, t1)
  <1>2. e1 \in Ump!Engines /\ e1.pos = t1 /\ \A u \in Ump!Trades : Swap(e1, u) = Swap(f, u)
    BY <1>1, Swapped
  <1> HIDE DEF e1
  <1>3. PICK t2 : Same(t2) /\ Ump!SystemB(e1, nb) = Swap(f, t2)
    <2>1. PICK sb \in Int, sd \in BOOLEAN, lo \in Nat :
            /\ [e1.pos EXCEPT !.sb = sb, !.sbSeed = sd, !.sbLow = lo] \in Ump!Trades
            /\ Ump!SystemB(e1, nb)
                 = Swap(e1, [e1.pos EXCEPT !.sb = sb, !.sbSeed = sd, !.sbLow = lo])
      BY <1>2, SystemBMakes, Zenon
    <2> DEFINE t == [t1 EXCEPT !.sb = sb, !.sbSeed = sd, !.sbLow = lo]
    <2>2. Same(t)
      BY <1>1, <1>2, <2>1 DEF Ump!Trades
    <2>3. Ump!SystemB(e1, nb) = Swap(f, t)
      BY <1>2, <2>1
    <2> HIDE DEF Same, t
    <2> QED
      BY <2>2, <2>3
  <1> DEFINE e2 == Swap(f, t2)
  <1>4. e2 \in Ump!Engines /\ e2.pos = t2 /\ \A u \in Ump!Trades : Swap(e2, u) = Swap(f, u)
    BY <1>3, Swapped
  <1>5. Ump!SystemB(Ump!Watched(f), nb) = e2
    BY <1>1, <1>3 DEF e1
  <1> HIDE DEF e2
  <1>6. PICK t3 : Same(t3) /\ Ump!Lived(e, e2) = Swap(f, t3)
    <2>1. PICK pk \in Nat, un \in BOOLEAN :
            /\ [e2.pos EXCEPT !.peak = pk, !.under = un] \in Ump!Trades
            /\ Ump!Lived(e, e2) = Swap(e2, [e2.pos EXCEPT !.peak = pk, !.under = un])
      <3>1. e \in Ump!Engines /\ e2 \in Ump!Engines
        BY <1>4
      <3>2. \E pk \in Nat, un \in BOOLEAN :
              /\ [e2.pos EXCEPT !.peak = pk, !.under = un] \in Ump!Trades
              /\ Ump!Lived(e, e2) = Swap(e2, [e2.pos EXCEPT !.peak = pk, !.under = un])
              /\ pk >= e2.pos.peak /\ pk >= e2.c
              /\ ~(e2.pos.here /\ (e2.pos.now \/ ~EntryHigh)) => pk >= e2.mh
              /\ un => \/ e2.pos.under
                       \/ /\ e2.pos.trail # 0
                          /\ e2.c <= e2.pos.trail \/ (~e2.pos.seed /\ e2.ml <= e2.pos.trail)
        BY <3>1, LivedMakes, Zenon
      <3> QED
        BY <3>2, Zenon
    <2> DEFINE t == [t2 EXCEPT !.peak = pk, !.under = un]
    <2>2. Same(t)
      BY <1>3, <1>4, <2>1 DEF Ump!Trades
    <2>3. Ump!Lived(e, e2) = Swap(f, t)
      BY <1>4, <2>1
    <2> HIDE DEF Same, t
    <2> QED
      BY <2>2, <2>3
  <1> QED
    BY <1>5, <1>6

\* The base whose break ends a trade, and a close that does not break it.
BaseOf(e) == IF e.pos.sub \in Ump!Retests THEN e.pos.eb ELSE e.pos.b
Spared(e) == e.c >= BaseOf(e) \/ e.pos.trail > BaseOf(e)

\* Unless the candle stands above base, another tick on it would find the same trail.
TrailAtRest(e) == e.c >= BaseOf(e) \/ Ump!Trailed(Ump!Peaked(e)).pos.trail = e.pos.trail

\* A retest's base only moves up; the high is known from the first tick on.
BaseClimbs(e) == e.pos.sub \in Ump!Retests => e.pos.eb <= e.pos.b
Ready(e) == e.pos.open => BaseClimbs(e) /\ (e.pos.high # 0 \/ e.pos.here)
Rests(e) == e.pos.open => BaseClimbs(e) /\ e.pos.high # 0 /\ TrailAtRest(e)

\* The times of candles move in ConfirmedClose and Begins only.
SameClock(f, e) ==
    /\ f.c = e.c /\ f.prev = e.prev /\ f.was = e.was /\ f.phase = e.phase
    /\ (f.closed <=> e.closed) /\ (f.began <=> e.began)

\* A tick leaves the trail at rest, and a new close below base is no end of the trade only if
\* the trail is above base.
LEMMA ManagedSettles ==
    ASSUME UmpSettings, NEW e, Sound(e), Ready(e), e.phase # -1, NEW new5m \in BOOLEAN
    PROVE  LET r == Ump!Managed(e, new5m)
           IN  /\ SameClock(r, e)
               /\ Rests(r)
               /\ r.pos.open => /\ e.pos.open /\ (r.pos.here <=> e.pos.here)
                                /\ BaseOf(r) = BaseOf(e)
                                /\ r.pos.trail = Ump!Trailed(Ump!Peaked(e)).pos.trail
                                /\ new5m => Spared(r)
  <1>1. e \in Ump!Engines /\ e.pos \in Ump!Trades
    BY EngineNumbers DEF Sound
  <1>2. CASE ~e.pos.open
    BY <1>2 DEF Ump!Managed, Rests, SameClock
  <1>3. CASE e.pos.open
    <2> DEFINE p == e.pos
               b == p.b
               nb == Ump!Above(e.levels, b)
               f == Ump!Trailed(Ump!Peaked(e))
               m == Ump!Lived(e, Ump!SystemB(Ump!Watched(f), nb))
               reason == Ump!ExitReason(m, new5m, b, nb)
    <2>1. Stands(e) /\ e.c # 0 /\ BaseClimbs(e) /\ (p.high # 0 \/ p.here)
      BY <1>3 DEF Sound, Quoted, Ready
    <2>2. /\ b \in Nat /\ p.trail \in Nat /\ p.eb \in Nat /\ e.levels \subseteq Nat /\ nb \in Nat
          /\ e.c \in Nat /\ e.closed \in BOOLEAN /\ e.began \in BOOLEAN
      BY <1>1, EngineNumbers, AboveIsNext DEF Ump!Trades, Ump!Engines
    <2>3. PICK u \in Ump!Trades :
            /\ f = Swap(e, u)
            /\ (u.open <=> p.open) /\ (u.here <=> p.here) /\ (u.now <=> p.now)
            /\ u.sub = p.sub /\ u.eb = p.eb /\ u.high = Peak(e, p)
            /\ u.trail = Climb(e.levels, b, p.sub, u.high, p.trail)
            /\ u.b # b => p.sub \in Ump!Retests /\ u.b > b /\ e.c > u.b
      BY <1>1, PeakedAndTrailed
    <2>4. f \in Ump!Engines /\ f.pos = u /\ \A v \in Ump!Trades : Swap(f, v) = Swap(e, v)
      BY <1>1, <2>3, Swapped
    <2> HIDE DEF f
    <2>5. PICK t \in Ump!Trades :
            /\ m = Swap(f, t)
            /\ (t.open <=> f.pos.open) /\ (t.here <=> f.pos.here) /\ (t.now <=> f.pos.now)
            /\ t.sub = f.pos.sub /\ t.eb = f.pos.eb /\ t.b = f.pos.b
            /\ t.high = f.pos.high /\ t.trail = f.pos.trail
      <3> HIDE DEF nb
      <3> QED
        BY <1>1, <2>2, <2>4, LaterStagesKeep
    <2>6. Ump!Managed(e, new5m) = Ump!Exited(m, reason)
      BY <1>3 DEF Ump!Managed, f
    <2>7. m = Swap(e, t)
      BY <2>4, <2>5
    <2> HIDE DEF m, nb
    <2>8. /\ m \in Ump!Engines /\ m.pos = t /\ m.c = e.c /\ m.mh = e.mh /\ m.levels = e.levels
          /\ m.phase = e.phase /\ Ump!View(m) = Ump!View(e) /\ (m.exited <=> e.exited)
      BY <1>1, <2>7, Swapped
    <2>9. SameClock(m, e)
      BY <1>1, <2>7 DEF SameClock, Swap, Ump!Engines
    <2>10. CASE reason # "none"
      <3> DEFINE x == [m EXCEPT !.pos = Ump!NoTrade, !.exited = TRUE, !.trig = Ump!NoTrigger]
      <3>1. Ump!Managed(e, new5m) = x
        BY <2>6, <2>10 DEF Ump!Exited
      <3>2. x.pos = Ump!NoTrade /\ SameClock(x, m)
        BY <2>8 DEF Ump!Engines, SameClock
      <3>3. ~x.pos.open
        BY <3>2 DEF Ump!NoTrade
      <3>4. SameClock(x, e)
        BY <2>9, <3>2 DEF SameClock
      <3> HIDE DEF x
      <3> QED
        BY <3>1, <3>3, <3>4 DEF Rests
    <2>11. CASE reason = "none"
      <3>1. Ump!Managed(e, new5m) = m
        BY <2>6, <2>11 DEF Ump!Exited
      <3>2. /\ (t.here <=> p.here) /\ (t.now <=> p.now) /\ t.sub = p.sub /\ t.eb = p.eb
            /\ t.high = Peak(e, p) /\ t.trail = Climb(e.levels, b, p.sub, t.high, p.trail)
            /\ t.b # b => p.sub \in Ump!Retests /\ t.b > b /\ e.c > t.b
            /\ t.trail = f.pos.trail
        BY <2>3, <2>4, <2>5
      <3>3. t.b \in Nat /\ t.trail \in Nat /\ t.eb \in Nat
        BY DEF Ump!Trades
      <3>4. BaseOf(m) = BaseOf(e) /\ BaseOf(e) \in Nat
        BY <2>2, <2>8, <3>2 DEF BaseOf
      <3>5. BaseClimbs(m)
        BY <2>1, <2>2, <2>8, <3>2, <3>3 DEF BaseClimbs
      <3>6. Peak(m, m.pos) = t.high /\ t.high # 0
        BY <1>1, <2>1, <2>8, <3>2, PeakTwice
      <3>7. TrailAtRest(m)
        <4>1. CASE t.b # b
          <5>1. p.eb <= b /\ BaseOf(m) = p.eb
            BY <2>1, <3>2, <3>4, <4>1 DEF BaseClimbs, BaseOf
          <5> QED
            BY <2>2, <2>8, <3>2, <3>3, <4>1, <5>1 DEF TrailAtRest
        <4>2. CASE t.b = b
          <5>1. PICK w \in Ump!Trades :
                  /\ Ump!Trailed(Ump!Peaked(m)) = Swap(m, w)
                  /\ w.high = Peak(m, m.pos)
                  /\ w.trail = Climb(m.levels, m.pos.b, m.pos.sub, w.high, m.pos.trail)
            BY <2>8, PeakedAndTrailed
          <5>2. w.trail = Climb(e.levels, b, p.sub, t.high, t.trail)
            BY <2>8, <3>2, <3>6, <4>2, <5>1
          <5>3. t.high \in Nat
            BY DEF Ump!Trades
          <5>4. w.trail = t.trail
            <6>1. Climb(e.levels, b, p.sub, t.high, Climb(e.levels, b, p.sub, t.high, p.trail))
                    = Climb(e.levels, b, p.sub, t.high, p.trail)
              BY <2>2, <5>3, ClimbTwice
            <6> QED
              BY <3>2, <5>2, <6>1
          <5>5. Ump!Trailed(Ump!Peaked(m)).pos = w
            BY <2>8, <5>1, Swapped
          <5> QED
            BY <2>8, <5>4, <5>5 DEF TrailAtRest
        <4> QED
          BY <4>1, <4>2
      <3>8. new5m => Spared(m)
        <4> SUFFICES ASSUME new5m PROVE Spared(m)
          OBVIOUS
        <4>1. ~m.exited
          BY <2>1, <2>8 DEF Stands
        <4>2. ~(m.c < BaseOf(m) /\ m.pos.trail <= BaseOf(m))
          <5> SUFFICES ASSUME m.c < BaseOf(m) /\ m.pos.trail <= BaseOf(m)
                       PROVE  reason # "none"
            BY <2>11
          <5>1. (IF m.pos.sub \in Ump!Retests THEN m.pos.eb ELSE b) = BaseOf(m)
            BY <2>8, <3>2, <3>4 DEF BaseOf
          <5> QED
            BY <4>1, <5>1 DEF Ump!ExitReason
        <4> QED
          BY <2>2, <2>8, <3>3, <3>4, <4>2 DEF Spared
      <3>9. Rests(m)
        BY <2>8, <3>5, <3>6, <3>7 DEF Rests
      <3> QED
        BY <1>3, <2>8, <2>9, <3>1, <3>2, <3>4, <3>8, <3>9 DEF f
    <2> QED
      BY <2>10, <2>11
  <1> QED
    BY <1>2, <1>3

\* What comes before the management of the trade leaves it alone, or enters one.
Passes(f, e) ==
    /\ SameClock(f, e)
    /\ f.pos = e.pos \/ (f.pos.here /\ BaseClimbs(f) /\ ~e.pos.open)

LEMMA PassesOn ==
    ASSUME NEW e, NEW f, Passes(f, e), Ready(e)
    PROVE  Ready(f)
  BY DEF Passes, Ready, BaseClimbs

LEMMA EntersPasses ==
    ASSUME UmpSettings, NEW e \in Ump!Engines, ~e.pos.open, NEW price, NEW b \in Nat, NEW sub,
           NEW guard \in BOOLEAN
    PROVE  Passes(Ump!Enters(e, price, b, sub, guard), e)
  <1>1. CASE sub \notin Enabled \/ ~guard
    BY <1>1 DEF Ump!Enters, Passes, SameClock
  <1>2. CASE sub \in Enabled /\ guard
    <2> DEFINE t == [Ump!NoTrade EXCEPT !.open = TRUE, !.sub = sub, !.b = b,
                                    !.eb = IF sub \in Ump!Retests THEN b ELSE 0,
                                    !.msl = price - Stop, !.here = TRUE, !.now = TRUE,
                                    !.peak = e.c]
               f == [e EXCEPT !.trig.on = FALSE, !.pos = t]
    <2>1. Ump!Enters(e, price, b, sub, guard) = f
      BY <1>2 DEF Ump!Enters
    <2>2. t.here /\ t.sub = sub /\ t.b = b /\ t.eb = IF sub \in Ump!Retests THEN b ELSE 0
      BY DEF Ump!NoTrade
    <2> HIDE DEF t
    <2>3. f.pos = t /\ SameClock(f, e)
      BY DEF Ump!Engines, SameClock
    <2> HIDE DEF f
    <2>4. BaseClimbs(f)
      BY <2>2, <2>3 DEF BaseClimbs
    <2> QED
      BY <2>1, <2>2, <2>3, <2>4 DEF Passes
  <1> QED
    BY <1>1, <1>2

LEMMA StagesPass ==
    ASSUME UmpSettings, NEW e, Sound(e), NEW new5m \in BOOLEAN, NEW guard \in BOOLEAN
    PROVE  /\ Passes(Ump!Triggered(e, new5m), e)
           /\ Passes(Ump!TestEntered(e, guard), e)
           /\ Passes(Ump!RetestEntered(e, guard), e)
  <1>1. e \in Ump!Engines /\ e.trig \in Ump!Triggers /\ e.trig.b \in Nat /\ e.levels \subseteq Nat
    BY EngineNumbers DEF Sound, Ump!Triggers
  <1>2. Passes(e, e)
    BY DEF Passes, SameClock
  <1>3. \A g : Passes([e EXCEPT !.trig = g], e)
    BY <1>1 DEF Passes, SameClock, Ump!Engines
  <1>4. Passes(Ump!Triggered(e, new5m), e)
    BY <1>2, <1>3 DEF Ump!Triggered
  <1>5. Passes(Ump!TestEntered(e, guard), e)
    <2>1. CASE e.pos.open
      BY <1>2, <2>1 DEF Ump!TestEntered
    <2>2. CASE ~e.pos.open
      <3>1. Passes(Ump!Enters(e, Ump!Tested(e).price, e.trig.b, Ump!Tested(e).sub, guard), e)
        BY <1>1, <2>2, EntersPasses
      <3> QED
        BY <1>2, <1>3, <3>1 DEF Ump!TestEntered
    <2> QED
      BY <2>1, <2>2
  <1>6. Passes(Ump!RetestEntered(e, guard), e)
    <2> DEFINE R == {x \in e.levels \ Medians : Ump!Retest(e, x) \in Enabled}
               b == Ump!Min(R)
               price == IF Ump!Retest(e, b) = "R1" THEN Ump!Upper(b) ELSE Ump!Top(b)
    <2>1. CASE e.pos.open \/ e.exited \/ e.trig.on \/ R = {}
      BY <1>2, <2>1 DEF Ump!RetestEntered
    <2>2. CASE ~(e.pos.open \/ e.exited \/ e.trig.on \/ R = {})
      <3>1. Ump!RetestEntered(e, guard) = Ump!Enters(e, price, b, Ump!Retest(e, b), guard)
        BY <2>2 DEF Ump!RetestEntered
      <3>2. R \subseteq Nat /\ R # {}
        BY <1>1, <2>2
      <3>3. b \in Nat
        <4> HIDE DEF R
        <4> QED
          BY <3>2, MinIsLeast
      <3> HIDE DEF b, price, R
      <3> QED
        BY <1>1, <2>2, <3>1, <3>3, EntersPasses
    <2> QED
      BY <2>1, <2>2
  <1> QED
    BY <1>4, <1>5, <1>6

\* A tick on a trade that stands only manages it.
LEMMA TickManages ==
    ASSUME NEW e \in Ump!Engines, e.pos.open, NEW new5m, NEW guard, NEW L
    PROVE  Ump!Tick(e, new5m, guard, L) = Ump!Managed(e, new5m)
  <1> DEFINE e1 == [e EXCEPT !.levels = IF ~e.pos.open /\ (new5m \/ @ = {}) THEN L ELSE @]
  <1>1. e1 = e
    BY DEF Ump!Engines
  <1> HIDE DEF e1
  <1>2. Ump!Triggered(e1, new5m) = e
    BY <1>1 DEF Ump!Triggered
  <1>3. Ump!TestEntered(e, guard) = e /\ Ump!RetestEntered(e, guard) = e
    BY DEF Ump!TestEntered, Ump!RetestEntered
  <1>4. Ump!Tick(e, new5m, guard, L)
          = Ump!Managed(Ump!RetestEntered(Ump!TestEntered(Ump!Triggered(e1, new5m), guard), guard), new5m)
    BY DEF Ump!Tick, e1
  <1> QED
    BY <1>2, <1>3, <1>4

\* After a tick the trade is at rest, and a trade that was not there is of this candle.
LEMMA TickSettles ==
    ASSUME UmpSettings, NEW e, Sound(e), Reached(e), Ready(e), e.phase # -1, NEW new5m \in BOOLEAN,
           NEW guard \in BOOLEAN, NEW L \in LevelSets
    PROVE  LET r == Ump!Tick(e, new5m, guard, L)
           IN  /\ SameClock(r, e) /\ Rests(r)
               /\ r.pos.open => e.pos.open \/ r.pos.here
               /\ r.pos.open /\ new5m => Spared(r)
  <1> DEFINE e1 == [e EXCEPT !.levels = IF ~e.pos.open /\ (new5m \/ @ = {}) THEN L ELSE @]
             e2 == Ump!Triggered(e1, new5m)
             e3 == Ump!TestEntered(e2, guard)
             e4 == Ump!RetestEntered(e3, guard)
  <1>1. e \in Ump!Engines
    BY DEF Sound
  <1>2. Sound(e1) /\ Reached(e1) /\ e1.phase = e.phase
    BY BuiltKeeps
  <1>3. Passes(e1, e)
    BY <1>1 DEF Passes, SameClock, Ump!Engines
  <1> HIDE DEF e1
  <1>4. Sound(e2) /\ Reached(e2) /\ e2.phase = e.phase /\ Passes(e2, e1)
    BY <1>2, TriggeredKeeps, StagesPass
  <1> HIDE DEF e2
  <1>5. Sound(e3) /\ Reached(e3) /\ e3.phase = e.phase /\ Passes(e3, e2)
    BY <1>4, TestEnteredKeeps, StagesPass
  <1> HIDE DEF e3
  <1>6. Sound(e4) /\ Reached(e4) /\ e4.phase = e.phase /\ Passes(e4, e3)
    BY <1>5, RetestEnteredKeeps, StagesPass
  <1> HIDE DEF e4
  <1>7. Ready(e4)
    BY <1>3, <1>4, <1>5, <1>6, PassesOn
  <1>8. SameClock(e4, e) /\ (e4.pos = e.pos \/ e4.pos.here)
    BY <1>3, <1>4, <1>5, <1>6 DEF Passes, SameClock
  <1>9. Ump!Tick(e, new5m, guard, L) = Ump!Managed(e4, new5m)
    BY DEF Ump!Tick, e1, e2, e3, e4
  <1> DEFINE r == Ump!Managed(e4, new5m)
  <1>10. /\ SameClock(r, e4) /\ Rests(r)
         /\ r.pos.open => e4.pos.open /\ (r.pos.here <=> e4.pos.here) /\ (new5m => Spared(r))
    BY <1>6, <1>7, ManagedSettles
  <1> HIDE DEF r
  <1>11. SameClock(r, e)
    BY <1>8, <1>10 DEF SameClock
  <1>12. r.pos.open => e.pos.open \/ r.pos.here
    BY <1>8, <1>10
  <1> QED
    BY <1>9, <1>10, <1>11, <1>12 DEF r

-----------------------------------------------------------------------------
(* Two candles.                                                             *)

\* A close is confirmed with the last minute, or as the next candle begins; until then
\* prev_close is the close before.
Clocked(e) ==
    /\ e.closed => e.phase \in {-1, Tf - 1}
    /\ ~e.closed => e.prev = e.was

\* A confirmed close has ended the trade, unless it is spared or no new close.
CloseIsKept(e) == e.pos.open /\ e.closed => Spared(e) \/ e.c = e.was

CloseInv == Clocked(eng) /\ Rests(eng) /\ CloseIsKept(eng)

\* The climb depends on the candle and the trade only.
LEMMA TrailAlike ==
    ASSUME NEW e \in Ump!Engines, NEW f \in Ump!Engines,
           f.c = e.c, f.mh = e.mh, f.l = e.l, f.h = e.h, f.o = e.o, f.fresh = e.fresh,
           f.levels = e.levels, f.pos = e.pos
    PROVE  Ump!Trailed(Ump!Peaked(f)).pos.trail = Ump!Trailed(Ump!Peaked(e)).pos.trail
  <1>1. \A x \in Ump!Engines :
          Ump!Trailed(Ump!Peaked(x)).pos.trail
            = Climb(x.levels, x.pos.b, x.pos.sub, Peak(x, x.pos), x.pos.trail)
    <2> TAKE x \in Ump!Engines
    <2>1. PICK t \in Ump!Trades :
            /\ Ump!Trailed(Ump!Peaked(x)) = Swap(x, t)
            /\ t.high = Peak(x, x.pos)
            /\ t.trail = Climb(x.levels, x.pos.b, x.pos.sub, t.high, x.pos.trail)
      BY PeakedAndTrailed
    <2> QED
      BY <2>1, Swapped
  <1>2. Peak(f, f.pos) = Peak(e, e.pos)
    BY DEF Peak, Ump!View
  <1> QED
    BY <1>1, <1>2

\* ConfirmedClose as a tick.
LEMMA ConfirmedCloseSettles ==
    ASSUME UmpSettings, NEW e, Sound(e), Reached(e), Ready(e), e.phase # -1,
           NEW guard \in BOOLEAN, NEW L \in LevelSets
    PROVE  LET r == Ump!ConfirmedClose(e, guard, L)
           IN  /\ r.c = e.c /\ r.prev = e.c /\ r.was = e.was /\ r.phase = e.phase /\ r.closed
               /\ (r.began <=> e.began) /\ Rests(r)
               /\ r.pos.open => e.pos.open \/ r.pos.here
               /\ r.pos.open /\ e.c # e.prev => Spared(r)
               /\ r.pos.open /\ e.pos.open =>
                    /\ BaseOf(r) = BaseOf(e)
                    /\ r.pos.trail = Ump!Trailed(Ump!Peaked(e)).pos.trail
  <1> DEFINE f == [e EXCEPT !.prev = e.c, !.closed = TRUE]
             new5m == e.c # e.prev
             r == Ump!Tick(f, new5m, guard, L)
  <1>1. Ump!ConfirmedClose(e, guard, L) = r
    BY DEF Ump!ConfirmedClose
  <1>2. e \in Ump!Engines /\ e.c \in Nat /\ (e.trig.on => e.trig.scen # 0)
    BY EngineNumbers DEF Sound
  <1>3. /\ f \in Ump!Engines /\ f.c = e.c /\ f.l = e.l /\ f.h = e.h /\ f.o = e.o
        /\ f.ml = e.ml /\ f.mh = e.mh /\ f.fresh = e.fresh /\ f.levels = e.levels
        /\ f.pos = e.pos /\ f.phase = e.phase /\ f.exited = e.exited /\ f.trig = e.trig
        /\ f.prev = e.c /\ f.closed /\ f.was = e.was /\ f.began = e.began
    BY <1>2 DEF Ump!Engines
  <1>4. new5m \in BOOLEAN
    OBVIOUS
  <1> HIDE DEF f, new5m, r
  <1>5. Sound(f) /\ Reached(f)
    BY <1>2, <1>3, AlikeIsSound
  <1>6. Ready(f)
    BY <1>3 DEF Ready, BaseClimbs
  <1>7. /\ SameClock(r, f) /\ Rests(r)
        /\ r.pos.open => f.pos.open \/ r.pos.here
        /\ r.pos.open /\ new5m => Spared(r)
    BY <1>3, <1>4, <1>5, <1>6, TickSettles DEF r
  <1>8. ASSUME r.pos.open, e.pos.open
        PROVE  BaseOf(r) = BaseOf(e) /\ r.pos.trail = Ump!Trailed(Ump!Peaked(e)).pos.trail
    <2>1. r = Ump!Managed(f, new5m)
      BY <1>3, <1>8, TickManages DEF r
    <2>2. BaseOf(r) = BaseOf(f) /\ r.pos.trail = Ump!Trailed(Ump!Peaked(f)).pos.trail
      BY <1>3, <1>4, <1>5, <1>6, <1>8, <2>1, ManagedSettles
    <2>3. BaseOf(f) = BaseOf(e)
      BY <1>3 DEF BaseOf
    <2> QED
      BY <1>2, <1>3, <2>2, <2>3, TrailAlike
  <1>9. r.c = e.c /\ r.prev = e.c /\ r.was = e.was /\ r.phase = e.phase /\ r.closed
        /\ (r.began <=> e.began)
    BY <1>3, <1>7 DEF SameClock
  <1> QED
    BY <1>1, <1>3, <1>7, <1>8, <1>9 DEF new5m

\* The close that was deferred is judged as the next candle begins.
LEMMA DeferredSettles ==
    ASSUME UmpSettings, NEW e, Sound(e), CandleCounted(e), Clocked(e), Rests(e), CloseIsKept(e),
           NEW guard \in BOOLEAN, NEW L \in LevelSets
    PROVE  LET d == Ump!Deferred(e, guard, L)
           IN  /\ Rests(d)
               /\ d.pos.open /\ e.pos.open => Spared(e) \/ e.c = e.was
  <1>1. CASE e.closed \/ e.phase = -1
    <2>1. Ump!Deferred(e, guard, L) = e
      BY <1>1 DEF Ump!Deferred
    <2>2. e.pos.open => e.closed
      BY <1>1 DEF Sound, Stands
    <2> QED
      BY <2>1, <2>2 DEF CloseIsKept
  <1>2. CASE ~(e.closed \/ e.phase = -1)
    <2> DEFINE d == Ump!ConfirmedClose(e, guard, L)
    <2>1. Ump!Deferred(e, guard, L) = d
      BY <1>2 DEF Ump!Deferred
    <2>2. Reached(e) /\ Ready(e)
      BY DEF CandleCounted, Reached, Rests, Ready
    <2>3. /\ d.c = e.c /\ Rests(d)
          /\ d.pos.open /\ e.c # e.prev => Spared(d)
          /\ d.pos.open /\ e.pos.open =>
               /\ BaseOf(d) = BaseOf(e)
               /\ d.pos.trail = Ump!Trailed(Ump!Peaked(e)).pos.trail
      BY <1>2, <2>2, ConfirmedCloseSettles
    <2> HIDE DEF d
    <2>4. ASSUME d.pos.open, e.pos.open
          PROVE  Spared(e) \/ e.c = e.was
      <3>1. e.c # e.was => Spared(d)
        BY <1>2, <2>3, <2>4 DEF Clocked
      <3>2. Spared(d) => Spared(e)
        BY <2>3, <2>4 DEF Spared, Rests, TrailAtRest
      <3> QED
        BY <3>1, <3>2
    <2> QED
      BY <2>1, <2>3, <2>4
  <1> QED
    BY <1>1, <1>2

\* A new candle has no confirmed close, and its trade is not of it.
LEMMA BeginsSettles ==
    ASSUME NEW e \in Ump!Engines, Rests(e), NEW n
    PROVE  LET f == Ump!Begins(e, n)
           IN  /\ ~f.closed /\ f.prev = f.was /\ Ready(f)
               /\ f.pos.open => e.pos.open
  <1> DEFINE t == [e.pos EXCEPT !.here = FALSE, !.now = FALSE, !.seed = FALSE, !.sbSeed = FALSE]
             f == Ump!Begins(e, n)
  <1>1. e.pos \in Ump!Trades
    BY EngineNumbers
  <1>2. f.pos = t /\ ~f.closed /\ f.prev = e.prev /\ f.was = e.prev
    BY DEF Ump!Begins, Ump!Engines
  <1>3. /\ (t.open <=> e.pos.open) /\ t.high = e.pos.high /\ t.sub = e.pos.sub
        /\ t.b = e.pos.b /\ t.eb = e.pos.eb
    BY <1>1 DEF Ump!Trades
  <1> HIDE DEF t, f
  <1>4. Ready(f)
    BY <1>2, <1>3 DEF Ready, Rests, BaseClimbs
  <1> QED
    BY <1>2, <1>3, <1>4 DEF f

LEMMA JoinedSettles ==
    ASSUME NEW e \in Ump!Engines, Ready(e), NEW m, NEW n, NEW p
    PROVE  LET f == [Ump!Joined(e, m, n) EXCEPT !.phase = p]
           IN  /\ f.prev = e.prev /\ f.was = e.was /\ (f.closed <=> e.closed)
               /\ (f.began <=> e.began) /\ Ready(f)
               /\ f.pos.open => e.pos.open
  <1> DEFINE t == [e.pos EXCEPT !.now = FALSE]
             f == [Ump!Joined(e, m, n) EXCEPT !.phase = p]
  <1>1. e.pos \in Ump!Trades
    BY EngineNumbers
  <1>2. /\ f.pos = t /\ f.prev = e.prev /\ f.was = e.was /\ f.closed = e.closed
        /\ f.began = e.began
    BY DEF Ump!Joined, Ump!Engines
  <1>3. /\ (t.open <=> e.pos.open) /\ t.high = e.pos.high /\ t.sub = e.pos.sub
        /\ t.b = e.pos.b /\ t.eb = e.pos.eb /\ (t.here <=> e.pos.here)
    BY <1>1 DEF Ump!Trades
  <1> HIDE DEF t, f
  <1>4. Ready(f)
    BY <1>2, <1>3 DEF Ready, BaseClimbs
  <1> QED
    BY <1>2, <1>3, <1>4 DEF f

\* A minute, of this candle or of one that begins.
LEMMA MinuteComesSettles ==
    ASSUME UmpSettings, EngineInv, CloseInv, Ump!MinuteComes
    PROVE  /\ CloseInv'
           /\ eng.pos.open /\ eng'.pos.open /\ eng'.began /\ ~eng'.pos.here =>
                Spared(eng) \/ eng.c = eng.was
  <1>1. PICK n \in 0 .. Timeout + 1, p \in 0 .. Tf - 1, m \in Ump!Bars, guard \in BOOLEAN,
             L1, L2 \in LevelSets :
          /\ n = 0 => p > eng.phase
          /\ eng.phase = -1 => n = 1
          /\ Sound(Begun(n, guard, L1)) /\ Sound(WithBar(n, p, m, guard, L1))
          /\ Reached(WithBar(n, p, m, guard, L1)) /\ WithBar(n, p, m, guard, L1).phase = p
          /\ eng' = IF p = Tf - 1 THEN Ump!ConfirmedClose(WithBar(n, p, m, guard, L1), guard, L2)
                    ELSE Ump!Tick(WithBar(n, p, m, guard, L1), FALSE, guard, L2)
    BY MinuteStages, Zenon
  <1> DEFINE e0 == [eng EXCEPT !.began = FALSE]
             d == Ump!Deferred(e0, guard, L1)
             f1 == Begun(n, guard, L1)
             f2 == WithBar(n, p, m, guard, L1)
  <1>2. n \in Nat /\ p # -1 /\ Tf - 1 # -1
    BY DEF UmpSettings
  <1>3. eng \in Ump!Engines /\ eng.phase \in -1 .. Tf - 1 /\ (eng.pos.open => eng.phase # -1)
    BY DEF EngineInv, Sound, Stands, Ump!Engines
  <1>4. Sound(e0) /\ CandleCounted(e0) /\ e0 \in Ump!Engines
    BY UnbegunKeeps DEF Sound
  <1>5. /\ e0.c = eng.c /\ e0.mh = eng.mh /\ e0.l = eng.l /\ e0.h = eng.h /\ e0.o = eng.o
        /\ e0.fresh = eng.fresh /\ e0.levels = eng.levels /\ e0.pos = eng.pos
        /\ e0.phase = eng.phase /\ e0.closed = eng.closed /\ e0.prev = eng.prev
        /\ e0.was = eng.was /\ ~e0.began
    BY <1>3 DEF Ump!Engines
  <1>6. n > 0 => f1 = Ump!Begins(d, n)
    BY DEF Begun
  <1>7. n = 0 => f1 = e0
    BY DEF Begun
  <1>8. f2 = [Ump!Joined(f1, m, n) EXCEPT !.phase = p]
    BY DEF WithBar
  <1>9. Clocked(e0) /\ Rests(e0) /\ CloseIsKept(e0) /\ (Spared(e0) <=> Spared(eng))
    <2> HIDE DEF e0
    <2>1. Ump!Trailed(Ump!Peaked(e0)).pos.trail = Ump!Trailed(Ump!Peaked(eng)).pos.trail
      BY <1>3, <1>4, <1>5, TrailAlike
    <2>2. BaseOf(e0) = BaseOf(eng)
      BY <1>5 DEF BaseOf
    <2>3. (TrailAtRest(e0) <=> TrailAtRest(eng)) /\ (Spared(e0) <=> Spared(eng))
      BY <1>5, <2>1, <2>2 DEF TrailAtRest, Spared
    <2> QED
      BY <1>5, <2>3 DEF CloseInv, Clocked, Rests, CloseIsKept, BaseClimbs
  <1> HIDE DEF e0
  <1>10. Sound(d) /\ Rests(d) /\ (d.pos.open /\ eng.pos.open => Spared(eng) \/ eng.c = eng.was)
    BY <1>4, <1>5, <1>9, DeferredKeeps, DeferredSettles
  <1> HIDE DEF d
  <1>11. /\ ~f1.closed /\ f1.prev = f1.was /\ Ready(f1)
         /\ f1.began => n > 0
         /\ n > 0 /\ f1.pos.open => d.pos.open
    <2>1. CASE n > 0
      <3>1. d \in Ump!Engines
        BY <1>10 DEF Sound
      <3> QED
        BY <1>6, <1>10, <2>1, <3>1, BeginsSettles
    <2>2. CASE n = 0
      <3>1. ~eng.closed
        BY <1>1, <1>2, <1>3, <2>2 DEF CloseInv, Clocked
      <3>2. Ready(e0)
        BY <1>9 DEF Rests, Ready
      <3> QED
        BY <1>5, <1>7, <1>9, <2>2, <3>1, <3>2 DEF Clocked
    <2> QED
      BY <1>2, <2>1, <2>2
  <1> HIDE DEF f1
  <1>12. Sound(f1) /\ f1 \in Ump!Engines
    BY <1>1 DEF f1, Sound
  <1> HIDE DEF f2
  <1>13. /\ f2.prev = f2.was /\ ~f2.closed /\ (f2.began <=> f1.began) /\ Ready(f2)
         /\ f2.pos.open => f1.pos.open
    <2> DEFINE g == [Ump!Joined(f1, m, n) EXCEPT !.phase = p]
    <2>1. /\ g.prev = f1.prev /\ g.was = f1.was /\ (g.closed <=> f1.closed)
          /\ (g.began <=> f1.began) /\ Ready(g)
          /\ g.pos.open => f1.pos.open
      BY <1>11, <1>12, JoinedSettles, Zenon
    <2>2. f2 = g
      BY <1>8
    <2> HIDE DEF g
    <2> QED
      BY <1>11, <2>1, <2>2
  <1>14. Sound(f2) /\ Reached(f2) /\ f2.phase = p /\ f2.phase # -1
    BY <1>1, <1>2 DEF f2
  <1>15. /\ Clocked(eng') /\ Rests(eng') /\ CloseIsKept(eng') /\ (eng'.began <=> f2.began)
         /\ eng'.pos.open => f2.pos.open \/ eng'.pos.here
    <2>1. CASE p = Tf - 1
      <3> DEFINE r == Ump!ConfirmedClose(f2, guard, L2)
      <3>1. eng' = r
        BY <1>1, <2>1 DEF f2
      <3>2. /\ r.c = f2.c /\ r.prev = f2.c /\ r.was = f2.was /\ r.phase = f2.phase /\ r.closed
            /\ (r.began <=> f2.began) /\ Rests(r)
            /\ r.pos.open => f2.pos.open \/ r.pos.here
            /\ r.pos.open /\ f2.c # f2.prev => Spared(r)
        BY <1>13, <1>14, ConfirmedCloseSettles
      <3> HIDE DEF r
      <3> QED
        BY <1>13, <1>14, <2>1, <3>1, <3>2 DEF Clocked, CloseIsKept
    <2>2. CASE p # Tf - 1
      <3> DEFINE r == Ump!Tick(f2, FALSE, guard, L2)
      <3>1. eng' = r
        BY <1>1, <2>2 DEF f2
      <3>2. /\ SameClock(r, f2) /\ Rests(r)
            /\ r.pos.open => f2.pos.open \/ r.pos.here
        BY <1>13, <1>14, TickSettles
      <3> HIDE DEF r
      <3> QED
        BY <1>13, <3>1, <3>2 DEF Clocked, CloseIsKept, SameClock
    <2> QED
      BY <2>1, <2>2
  <1>16. CloseInv'
    BY <1>15 DEF CloseInv, Clocked, Rests, CloseIsKept, Spared, TrailAtRest, BaseOf, BaseClimbs
  <1>17. eng.pos.open /\ eng'.pos.open /\ eng'.began /\ ~eng'.pos.here =>
           Spared(eng) \/ eng.c = eng.was
    BY <1>10, <1>11, <1>13, <1>15
  <1> QED
    BY <1>16, <1>17

LEMMA CloseInvStep ==
    ASSUME UmpSettings
    PROVE  EngineInv /\ CloseInv /\ [Ump!Next]_eng =>
             /\ CloseInv'
             /\ eng.pos.open /\ eng'.pos.open /\ eng'.began /\ ~eng'.pos.here =>
                  Spared(eng) \/ eng.c = eng.was \/ UNCHANGED eng
  <1> SUFFICES ASSUME EngineInv, CloseInv, [Ump!Next]_eng
               PROVE  /\ CloseInv'
                      /\ eng.pos.open /\ eng'.pos.open /\ eng'.began /\ ~eng'.pos.here =>
                           Spared(eng) \/ eng.c = eng.was \/ UNCHANGED eng
    OBVIOUS
  <1>1. CASE Ump!MinuteComes
    BY <1>1, MinuteComesSettles
  <1>2. CASE Ump!StartEntryCycle \/ Ump!LockCandle
    <2>1. eng \in Ump!Engines
      BY DEF EngineInv, Sound
    <2>2. /\ ~eng.pos.open /\ eng'.pos = eng.pos /\ eng'.phase = eng.phase
          /\ eng'.closed = eng.closed /\ eng'.prev = eng.prev /\ eng'.was = eng.was
      BY <1>2, <2>1 DEF Ump!StartEntryCycle, Ump!LockCandle, Ump!Engines
    <2>3. Clocked(eng') /\ Rests(eng') /\ CloseIsKept(eng')
      BY <2>2 DEF CloseInv, Clocked, Rests, CloseIsKept
    <2> QED
      BY <2>2, <2>3 DEF CloseInv, Clocked, Rests, CloseIsKept, Spared, TrailAtRest, BaseOf, BaseClimbs
  <1>3. CASE UNCHANGED eng
    BY <1>3 DEF CloseInv, Clocked, Rests, CloseIsKept, Spared, TrailAtRest, BaseOf, BaseClimbs
  <1> QED
    BY <1>1, <1>2, <1>3 DEF Ump!Next

-----------------------------------------------------------------------------
(* Theorems.                                                                *)

\* What process_minute, start_entry_cycle and lock_candle make of the engine (engine.py
\* 316-345, 599-1020) is always an engine: prices stay prices through every stage of a tick,
\* what is entered is a kind of entry that is switched on, on a base that is a level.
THEOREM UmpEngineTypeCorrect ==
    ASSUME UmpSettings
    PROVE  Ump!Spec => []Ump!TypeOK
  <1>1. EngineInv => Ump!TypeOK
    BY DEF EngineInv, Sound, Ump!TypeOK
  <1> QED
    BY <1>1, EngineInvHolds, PTL

\* No position stands in the candle of an exit (exit_candle, engine.py 710-773): not one
\* entered again by the tick that exits, nor by a later minute of the candle, nor after another
\* engine's exit locked it (lock_candle, 316-324).
THEOREM ExitEndsCandleHolds ==
    ASSUME UmpSettings
    PROVE  Ump!Spec => []ExitEndsCandle
  <1>1. EngineInv => ExitEndsCandle
    BY DEF EngineInv, Sound, Stands, ExitEndsCandle, Ump!ExitEndsCandle
  <1> QED
    BY <1>1, EngineInvHolds, PTL

\* The trail of a trade that stands is a rung a price after the entry earned, and no price
\* after its last raise came down to it (engine.py 791-945, with ERROR-1 and ERROR-3: what
\* the high and the low of the entry candle and of the raising candle may count).
THEOREM TrailIsAlwaysHonest ==
    ASSUME UmpSettings
    PROVE  Ump!Spec => []TrailIsHonest
  <1>1. EngineInv => TrailIsHonest
    BY DEF EngineInv, Sound, Stands, TrailIsHonest, Ump!TrailIsHonest
  <1> QED
    BY <1>1, EngineInvHolds, PTL

\* A candle that closes below base ends a trade that has not climbed above it, also when its
\* last minute never came (process_minute and _confirmed_close_tick, engine.py 485-497 and
\* 599-663; BASE_SL, 913-945): the deferred close finds the trail where the candle's last tick
\* left it, so what it judges is what stood.
THEOREM NoCloseIsEverLost ==
    ASSUME UmpSettings
    PROVE  Ump!Spec => NoCloseIsLost
  <1>1. Ump!Init => CloseInv
    <2> SUFFICES ASSUME Ump!Init PROVE CloseInv
      OBVIOUS
    <2>1. eng.phase = -1 /\ eng.closed /\ ~eng.pos.open
      BY DEF Ump!Init, Ump!NewEngine, Ump!NoTrade
    <2> QED
      BY <2>1 DEF CloseInv, Clocked, Rests, CloseIsKept
  <1>2. EngineInv /\ CloseInv /\ [Ump!Next]_eng => CloseInv'
    BY CloseInvStep
  <1>3. EngineInv /\ CloseInv /\ [Ump!Next]_eng =>
          [eng.pos.open /\ eng'.pos.open /\ eng'.began /\ ~eng'.pos.here =>
             LET base == IF eng.pos.sub \in Ump!Retests THEN eng.pos.eb ELSE eng.pos.b
             IN  eng.c >= base \/ eng.pos.trail > base \/ eng.c = eng.was]_eng
    BY CloseInvStep DEF Spared, BaseOf
  <1> QED
    BY <1>1, <1>2, <1>3, EngineInvHolds, PTL DEF Ump!Spec, NoCloseIsLost, Ump!NoCloseIsLost
=============================================================================

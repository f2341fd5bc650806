-------------------------- MODULE ExecutionProofs ---------------------------
(***************************************************************************)
(* Proofs about Execution, for any poll budget and any number of open      *)
(* orders.  The results about refused orders assume that the gateway never *)
(* answers a STATUS request with an error; the run with StatusErrors shows *)
(* that they fail without that.                                            *)
(*                                                                         *)
(* Then TdRelay, the other edge with a safety invariant: for any queue that *)
(* holds something, any staleness limit and any faults of the line.        *)
(***************************************************************************)
EXTENDS MCEdges, SequenceTheorems, TLAPS

\* A call under way still has a poll left: the loop returns with its last one.
PollLeft == pc \in {"resolve", "login", "send"} => polls < PollAttempts

\* Until the placement request is over, nothing of this call is at the broker.
NothingPlacedYet ==
    pc \in {"resolve", "login", "send"} /\ req = "order" => placed = 0 /\ order = "none"

StartsWithOrder == pc = "resolve" => req = "order"

CallInv == TypeOK /\ PollLeft /\ NothingPlacedYet /\ StartsWithOrder /\ OneOrderPerCall

LEMMA CallInvInit == Init => CallInv
  BY PollAttemptsAssumption
  DEF Init, CallInv, TypeOK, PollLeft, NothingPlacedYet, StartsWithOrder,
      OneOrderPerCall, Sides

\* The token, the polls and the order of one call move together: every step
\* keeps the poll budget and the single placement.
LEMMA CallInvStep == CallInv /\ [Next]_vars => CallInv'
  <1> SUFFICES ASSUME CallInv, [Next]_vars
               PROVE  CallInv'
    OBVIOUS
  <1> USE PollAttemptsAssumption, MaxOpenAssumption
      DEF CallInv, TypeOK, PollLeft, NothingPlacedYet, StartsWithOrder,
          OneOrderPerCall, Sides, callVars, brokerVars
  <1>1. ASSUME NEW s \in Sides, Begin(s)
        PROVE  CallInv'
    BY <1>1 DEF Begin
  <1>2. CASE Resolve
    BY <1>2 DEF Resolve, Return
  <1>3. CASE NeedsLogin
    BY <1>3 DEF NeedsLogin
  <1>4. CASE Login
    BY <1>4 DEF Login, Return, OnError, OnTransport
  <1>5. CASE TokenRejected
    BY <1>5 DEF TokenRejected, Return, OnError
  <1>6. CASE RequestLost
    BY <1>6 DEF RequestLost, Return, OnTransport
  <1>7. CASE RequestRefused
    BY <1>7 DEF RequestRefused, Return, OnError
  <1>8. CASE PlaceOrder
    BY <1>8 DEF PlaceOrder, Return, OnTransport
  <1>9. CASE LookUpOrder
    BY <1>9 DEF LookUpOrder, Return, OnError
  <1>10. CASE PollStatus
    BY <1>10 DEF PollStatus, Return
  <1>11. CASE Crash
    BY <1>11 DEF Crash
  <1>12. CASE TokenDies
    BY <1>12 DEF TokenDies
  <1>13. CASE BrokerFills
    BY <1>13 DEF BrokerFills, After
  <1>14. CASE BrokerRejects
    BY <1>14 DEF BrokerRejects
  <1>15. ASSUME NEW s \in Sides, BrokerFillsLate(s) \/ BrokerRejectsLate(s)
         PROVE  CallInv'
    BY <1>15 DEF BrokerFillsLate, BrokerRejectsLate, After
  <1>16. CASE UNCHANGED vars
    BY <1>16 DEF vars
  <1> QED
    BY <1>1, <1>2, <1>3, <1>4, <1>5, <1>6, <1>7, <1>8, <1>9, <1>10, <1>11,
       <1>12, <1>13, <1>14, <1>15, <1>16 DEF Next, CallStep

LEMMA CallInvHolds == Spec => []CallInv
  BY CallInvInit, CallInvStep, PTL DEF Spec

\* Every variable keeps its type, the poll budget included.
THEOREM ExecutionTypeCorrect == Spec => []TypeOK
  BY CallInvHolds, PTL DEF CallInv

\* No re-login, repeated request, crash or lost answer makes one call place
\* two orders.
THEOREM OneOrder == Spec => []OneOrderPerCall
  BY CallInvHolds, PTL DEF CallInv

-----------------------------------------------------------------------------
(* What a result says about the order *)

StatusAlwaysAnswered == StatusErrors = FALSE

\* A refused BUY: rejected by the broker, or never placed.
LEMMA RefusedStep ==
    ASSUME StatusAlwaysAnswered
    PROVE  CallInv /\ RefusedBuyIsFlat /\ [Next]_vars => RefusedBuyIsFlat'
  <1> SUFFICES ASSUME CallInv, RefusedBuyIsFlat, [Next]_vars
               PROVE  RefusedBuyIsFlat'
    OBVIOUS
  <1> USE DEF CallInv, NothingPlacedYet, StartsWithOrder, RefusedBuyIsFlat,
              callVars, brokerVars, Return
  <1>1. ASSUME NEW s \in Sides, Begin(s)
        PROVE  RefusedBuyIsFlat'
    BY <1>1 DEF Begin
  <1>2. CASE Resolve
    BY <1>2 DEF Resolve
  <1>3. CASE NeedsLogin
    BY <1>3 DEF NeedsLogin
  <1>4. CASE Login
    BY <1>4 DEF Login, OnError, OnTransport, ErrorPossible, StatusAlwaysAnswered, TypeOK
  <1>5. CASE TokenRejected
    BY <1>5 DEF TokenRejected, OnError, ErrorPossible, StatusAlwaysAnswered, TypeOK
  <1>6. CASE RequestLost
    BY <1>6 DEF RequestLost, OnTransport, TypeOK
  <1>7. CASE RequestRefused
    BY <1>7 DEF RequestRefused, OnError, ErrorPossible, StatusAlwaysAnswered, TypeOK
  <1>8. CASE PlaceOrder
    BY <1>8 DEF PlaceOrder, OnTransport
  <1>9. CASE LookUpOrder
    BY <1>9 DEF LookUpOrder, OnError
  <1>10. CASE PollStatus
    BY <1>10 DEF PollStatus
  <1>11. CASE Crash
    BY <1>11 DEF Crash
  <1>12. CASE TokenDies
    BY <1>12 DEF TokenDies
  <1>13. CASE BrokerFills
    BY <1>13 DEF BrokerFills
  <1>14. CASE BrokerRejects
    BY <1>14 DEF BrokerRejects
  <1>15. ASSUME NEW s \in Sides, BrokerFillsLate(s) \/ BrokerRejectsLate(s)
         PROVE  RefusedBuyIsFlat'
    BY <1>15 DEF BrokerFillsLate, BrokerRejectsLate
  <1>16. CASE UNCHANGED vars
    BY <1>16 DEF vars
  <1> QED
    BY <1>1, <1>2, <1>3, <1>4, <1>5, <1>6, <1>7, <1>8, <1>9, <1>10, <1>11,
       <1>12, <1>13, <1>14, <1>15, <1>16 DEF Next, CallStep

\* While every status request is answered without an error, None from
\* execute_entry means that nothing was bought and nothing will be.
THEOREM RefusedBuyFlat ==
    ASSUME StatusAlwaysAnswered
    PROVE  Spec => []RefusedBuyIsFlat
  <1>1. Init => RefusedBuyIsFlat
    BY DEF Init, RefusedBuyIsFlat
  <1> QED
    BY <1>1, CallInvHolds, RefusedStep, PTL DEF Spec

-----------------------------------------------------------------------------
(* The refinement of OrderOutcome *)

\* A call that returns r keeps the order's fate, or was given up before the
\* order existed.
LEMMA ReturnsMeetContract ==
    ASSUME CallInv, pc \in {"resolve", "login", "send"},
           NEW r \in {"filled", "assumed", "refused", "unknown"}, Return(r),
           UNCHANGED <<side, holding, late>>,
           order' = order \/ (order = "none" /\ order' = "pending"),
           r = "filled" => order = "filled",
           r = "refused" /\ side = "BUY" => order' \in {"none", "rejected"},
           r = "unknown" => side = "BUY"
    PROVE  Contract!Return(r)
  BY DEF Return, Contract!Return, CallInv, TypeOK

LEMMA StepMeetsContract ==
    ASSUME StatusAlwaysAnswered
    PROVE  CallInv /\ [Next]_vars => [Contract!Next]_Contract!vars
  <1> SUFFICES ASSUME CallInv, [Next]_vars
               PROVE  Contract!Next \/ UNCHANGED Contract!vars
    OBVIOUS
  <1> USE DEF CallInv, TypeOK, NothingPlacedYet, StartsWithOrder, Sides,
              Contract!Sides, Contract!Results, Contract!vars, callVars, brokerVars
  <1>1. ASSUME NEW s \in Sides, Begin(s)
        PROVE  Contract!Begin(s)
    BY <1>1 DEF Begin, Contract!Begin
  <1>2. CASE Resolve
    <2>1. CASE pc' = "send" /\ UNCHANGED result
      BY <1>2, <2>1 DEF Resolve
    <2>2. CASE Return("refused")
      BY <1>2, <2>2, ReturnsMeetContract DEF Resolve, Contract!Next
    <2> QED
      BY <1>2, <2>1, <2>2 DEF Resolve
  <1>3. CASE NeedsLogin
    BY <1>3 DEF NeedsLogin
  <1>4. CASE Login
    <2>1. CASE pc' = "send" /\ UNCHANGED result
      BY <1>4, <2>1 DEF Login
    <2>2. CASE ErrorPossible /\ Return(OnError)
      BY <1>4, <2>2, ReturnsMeetContract
         DEF Login, OnError, ErrorPossible, StatusAlwaysAnswered, Contract!Next
    <2>3. CASE Return(OnTransport)
      BY <1>4, <2>3, ReturnsMeetContract DEF Login, OnTransport, Contract!Next
    <2> QED
      BY <1>4, <2>1, <2>2, <2>3 DEF Login
  <1>5. CASE TokenRejected
    <2>1. CASE pc' = "login" /\ UNCHANGED result
      BY <1>5, <2>1 DEF TokenRejected
    <2>2. CASE ErrorPossible /\ Return(OnError)
      BY <1>5, <2>2, ReturnsMeetContract
         DEF TokenRejected, OnError, ErrorPossible, StatusAlwaysAnswered, Contract!Next
    <2> QED
      BY <1>5, <2>1, <2>2 DEF TokenRejected
  <1>6. CASE RequestLost
    BY <1>6, ReturnsMeetContract DEF RequestLost, OnTransport, Contract!Next
  <1>7. CASE RequestRefused
    BY <1>7, ReturnsMeetContract
       DEF RequestRefused, OnError, ErrorPossible, StatusAlwaysAnswered, Contract!Next
  <1>8. CASE PlaceOrder
    <2>1. CASE UNCHANGED <<pc, result>>
      BY <1>8, <2>1 DEF PlaceOrder
    <2>2. CASE Return(OnTransport)
      BY <1>8, <2>2, ReturnsMeetContract DEF PlaceOrder, OnTransport, Contract!Next
    <2> QED
      BY <1>8, <2>1, <2>2 DEF PlaceOrder
  <1>9. CASE LookUpOrder
    <2>1. CASE UNCHANGED <<pc, result>>
      BY <1>9, <2>1 DEF LookUpOrder
    <2>2. CASE Return(OnError)
      BY <1>9, <2>2, ReturnsMeetContract DEF LookUpOrder, OnError, Contract!Next
    <2> QED
      BY <1>9, <2>1, <2>2 DEF LookUpOrder
  <1>10. CASE PollStatus
    <2>1. CASE UNCHANGED <<pc, result>>
      BY <1>10, <2>1 DEF PollStatus
    <2>2. ASSUME NEW r \in {"filled", "assumed", "refused"}, Return(r),
                 r = "filled" => order = "filled", r = "refused" => order = "rejected"
          PROVE  Contract!Next
      BY <1>10, <2>2, ReturnsMeetContract DEF PollStatus, Contract!Next
    <2>3. CASE order = "filled" /\ Return("filled")
      BY <2>2, <2>3
    <2>4. CASE order = "rejected" /\ Return("refused")
      BY <2>2, <2>4
    <2>5. CASE Return("assumed")
      BY <2>2, <2>5
    <2> QED
      BY <1>10, <2>1, <2>3, <2>4, <2>5 DEF PollStatus
  <1>11. CASE Crash
    BY <1>11 DEF Crash, Contract!Abandon, Contract!Next
  <1>12. CASE TokenDies
    BY <1>12 DEF TokenDies
  <1>13. CASE BrokerFills
    <2>1. Contract!Execute
      BY <1>13 DEF BrokerFills, Executable, After, Contract!Execute,
                   Contract!Executable, Contract!Executed
    <2> QED
      BY <2>1 DEF Contract!Next
  <1>14. CASE BrokerRejects
    BY <1>14 DEF BrokerRejects, Contract!Void, Contract!Next
  <1>15. ASSUME NEW s \in Sides, BrokerFillsLate(s)
         PROVE  Contract!ExecuteLate(s)
    BY <1>15 DEF BrokerFillsLate, Executable, After, Contract!ExecuteLate,
                 Contract!Executable, Contract!Executed
  <1>16. ASSUME NEW s \in Sides, BrokerRejectsLate(s)
         PROVE  Contract!VoidLate(s)
    BY <1>16 DEF BrokerRejectsLate, Contract!VoidLate
  <1>17. CASE UNCHANGED vars
    BY <1>17 DEF vars
  <1> QED
    BY <1>1, <1>2, <1>3, <1>4, <1>5, <1>6, <1>7, <1>8, <1>9, <1>10, <1>11,
       <1>12, <1>13, <1>14, <1>15, <1>16, <1>17 DEF Next, CallStep, Contract!Next

\* With every status request answered, the client, its re-logins and its
\* polling implement the contract the orchestrator is written against.
THEOREM ImplementsContract ==
    ASSUME StatusAlwaysAnswered
    PROVE  Spec => MeetsContract
  <1>1. Init => Contract!Init
    BY DEF Init, Contract!Init, Sides, Contract!Sides
  <1> QED
    BY <1>1, CallInvHolds, StepMeetsContract, PTL DEF Spec, MeetsContract, Contract!Spec

-----------------------------------------------------------------------------
(* TdRelay                                                                 *)

\* A queue for a follower holds something (CLIENT_QUEUE_MAX is positive).
RelaySettings == FollowerQueue \in Nat \ {0}

Followers ==
    [at : {"dial", "open", "closing", "sleep"}, connected : BOOLEAN, kick : BOOLEAN,
     watch : BOOLEAN, age : Int, got : Nat]

RelayTypes ==
    /\ made \in Nat /\ since \in Nat /\ fol \in Followers
    /\ outbox \in Seq(Nat \ {0}) /\ wire \in Seq(Nat \cup {-1})

\* Nothing is newer than the vendor's newest tick.
Behind ==
    /\ fol.got <= made
    /\ \A i \in 1 .. Len(wire) : wire[i] <= made
    /\ \A j \in 1 .. Len(outbox) : outbox[j] <= made

\* The line and then the queue hold what came after the tick the follower got last, in order.
InOrder ==
    /\ \A i, j \in 1 .. Len(wire) : i < j /\ wire[i] > 0 /\ wire[j] > 0 => wire[i] < wire[j]
    /\ \A i, j \in 1 .. Len(outbox) : i < j => outbox[i] < outbox[j]
    /\ \A i \in 1 .. Len(wire), j \in 1 .. Len(outbox) : wire[i] < outbox[j]
    /\ \A i \in 1 .. Len(wire) : wire[i] > 0 => fol.got < wire[i]
    /\ \A j \in 1 .. Len(outbox) : fol.got < outbox[j]

\* The newest tick is queued, on the line or there, unless it came before the subscription.
NewestIsThere ==
    \/ \E i \in 1 .. Len(wire) : wire[i] = made /\ made > 0
    \/ \E j \in 1 .. Len(outbox) : outbox[j] = made
    \/ /\ \A i \in 1 .. Len(wire) : wire[i] <= 0
       /\ outbox = <<>> /\ made \in {fol.got, since}

RelayInv == RelayTypes /\ Behind /\ InOrder /\ (link = "live" => NewestIsThere)

LEMMA RelayInvInit == Relay!Init => RelayInv
  BY DEF Relay!Init, Relay!NewFollower, RelayInv, RelayTypes, Followers, Behind, InOrder

\* What the supervisor does to its own flags does not matter.
LEMMA FlagsOnly ==
    ASSUME RelayInv, fol' \in Followers, fol'.got = fol.got,
           UNCHANGED <<made, since, outbox, wire, link>>
    PROVE  RelayInv'
  BY DEF RelayInv, RelayTypes, Behind, InOrder, NewestIsThere

\* A socket that is gone, or has come and is mute, carries nothing.
LEMMA LineEmpties ==
    ASSUME RelayInv, fol' \in Followers, fol'.got <= made, link' # "live", made' = made,
           since' \in Nat, outbox' = <<>>, wire' = <<>>
    PROVE  RelayInv'
  BY DEF RelayInv, RelayTypes, Behind, InOrder

\* A queue that is offered a tick ends with it, and keeps the others but perhaps the first.
LEMMA OfferedMakes ==
    ASSUME RelaySettings, NEW q \in Seq(Nat \ {0}), NEW t \in Nat \ {0}
    PROVE  LET o == Relay!Offered(q, t)
           IN  /\ o \in Seq(Nat \ {0})
               /\ \E d \in {0, 1} :
                    /\ Len(q) >= d /\ Len(o) = Len(q) - d + 1 /\ o[Len(q) - d + 1] = t
                    /\ \A j \in 1 .. Len(q) - d : o[j] = q[j + d]
  <1> DEFINE o == Relay!Offered(q, t)
  <1>1. CASE Len(q) < FollowerQueue
    <2>1. o = Append(q, t)
      BY <1>1 DEF Relay!Offered
    <2>2. o \in Seq(Nat \ {0}) /\ Len(o) = Len(q) + 1 /\ o[Len(q) + 1] = t
          /\ \A j \in 1 .. Len(q) : o[j] = q[j]
      BY <2>1
    <2> HIDE DEF o
    <2>3. \A j \in 1 .. Len(q) - 0 : o[j] = q[j + 0]
      BY <2>2
    <2>4. Len(q) >= 0 /\ Len(o) = Len(q) - 0 + 1 /\ o[Len(q) - 0 + 1] = t
      BY <2>2
    <2> QED
      BY <2>2, <2>3, <2>4 DEF o
  <1>2. CASE ~(Len(q) < FollowerQueue)
    <2>1. o = Append(Tail(q), t)
      BY <1>2 DEF Relay!Offered
    <2>2. q # <<>> /\ Len(q) >= 1
      BY <1>2 DEF RelaySettings
    <2>3. /\ Tail(q) \in Seq(Nat \ {0}) /\ Len(Tail(q)) = Len(q) - 1
          /\ \A j \in 1 .. Len(q) - 1 : Tail(q)[j] = q[j + 1]
      BY <2>2
    <2>4. o \in Seq(Nat \ {0}) /\ Len(o) = Len(q) - 1 + 1 /\ o[Len(q) - 1 + 1] = t
          /\ \A j \in 1 .. Len(q) - 1 : o[j] = q[j + 1]
      BY <2>1, <2>3
    <2> HIDE DEF o
    <2> QED
      BY <2>2, <2>4 DEF o
  <1> QED
    BY <1>1, <1>2

LEMMA VendorKeeps ==
    ASSUME RelaySettings, RelayInv, Relay!Vendor
    PROVE  RelayInv'
  <1> USE DEF RelayInv, RelayTypes
  <1>1. made' = made + 1 /\ UNCHANGED <<since, wire, link, fol>>
    BY DEF Relay!Vendor
  <1>0. /\ fol.got \in Nat /\ \A i \in 1 .. Len(wire) : wire[i] \in Int
        /\ \A j \in 1 .. Len(outbox) : outbox[j] \in Nat
    BY DEF Followers
  <1>2. CASE link = "none"
    <2>1. outbox' = outbox
      BY <1>2 DEF Relay!Vendor
    <2>2. Behind'
      BY <1>0, <1>1, <2>1 DEF Behind
    <2>3. InOrder'
      BY <1>1, <2>1 DEF InOrder
    <2> QED
      BY <1>1, <1>2, <2>1, <2>2, <2>3
  <1>3. CASE link # "none"
    <2> DEFINE o == Relay!Offered(outbox, made + 1)
    <2>1. outbox' = o
      BY <1>3 DEF Relay!Vendor
    <2>2. o \in Seq(Nat \ {0})
          /\ \E d \in {0, 1} :
               /\ Len(outbox) >= d /\ Len(o) = Len(outbox) - d + 1
               /\ o[Len(outbox) - d + 1] = made + 1
               /\ \A j \in 1 .. Len(outbox) - d : o[j] = outbox[j + d]
      <3>1. made + 1 \in Nat \ {0}
        OBVIOUS
      <3> QED
        BY <3>1, OfferedMakes
    <2>3. PICK d \in {0, 1} :
            /\ Len(outbox) >= d /\ Len(o) = Len(outbox) - d + 1
            /\ o[Len(outbox) - d + 1] = made + 1
            /\ \A j \in 1 .. Len(outbox) - d : o[j] = outbox[j + d]
      BY <2>2
    <2> HIDE DEF o
    <2> DEFINE n == Len(outbox) - d
    <2>4. n \in Nat /\ Len(o) = n + 1 /\ o[n + 1] = made + 1
          /\ \A j \in 1 .. n : j + d \in 1 .. Len(outbox) /\ o[j] = outbox[j + d]
      BY <2>3
    <2>5. \A j \in 1 .. n : o[j] <= made /\ fol.got < o[j]
      BY <2>4 DEF Behind, InOrder
    <2>6. \A i \in 1 .. Len(wire), j \in 1 .. n : wire[i] < o[j]
      BY <2>4 DEF InOrder
    <2>7. \A i, j \in 1 .. n : i < j => o[i] < o[j]
      BY <2>4 DEF InOrder
    <2>8. \A j \in 1 .. n + 1 : o[j] \in Nat
      BY <2>2, <2>4
    <2> HIDE DEF n
    <2>9. \A i \in 1 .. Len(wire) : wire[i] \in Int
      OBVIOUS
    <2>10. \A j \in 1 .. n + 1 : j \in 1 .. n \/ j = n + 1
      BY <2>4
    <2>11. Behind'
      BY <1>1, <2>1, <2>4, <2>5, <2>8, <2>9, <2>10 DEF Behind, Followers
    <2>12. InOrder'
      <3>1. \A i, j \in 1 .. Len(outbox') : i < j => outbox'[i] < outbox'[j]
        <4>1. \A i \in 1 .. n : o[i] < o[n + 1]
          BY <2>4, <2>5, <2>8
        <4>2. \A i, j \in 1 .. n + 1 : i < j => i \in 1 .. n
          BY <2>4
        <4> QED
          BY <2>1, <2>4, <2>7, <2>10, <4>1, <4>2
      <3>2. \A i \in 1 .. Len(wire), j \in 1 .. Len(outbox') : wire[i] < outbox'[j]
        BY <2>1, <2>4, <2>6, <2>9, <2>10 DEF Behind
      <3>3. \A j \in 1 .. Len(outbox') : fol.got < outbox'[j]
        <4>1. fol.got < made + 1
          BY <1>0 DEF Behind
        <4>2. \A j \in 1 .. n + 1 : fol.got < o[j]
          BY <2>4, <2>5, <2>10, <4>1
        <4> QED
          BY <2>1, <2>4, <4>2
      <3> QED
        BY <1>1, <3>1, <3>2, <3>3 DEF InOrder
    <2>13. NewestIsThere'
      BY <1>1, <2>1, <2>4 DEF NewestIsThere
    <2> QED
      BY <1>1, <2>1, <2>2, <2>11, <2>12, <2>13
  <1> QED
    BY <1>2, <1>3

\* The queue gives its oldest tick to the line.
LEMMA SendsKeeps ==
    ASSUME RelayInv, Relay!Sends
    PROVE  RelayInv'
  <1> USE DEF RelayInv, RelayTypes
  <1> DEFINE n == Len(wire)
             k == Len(outbox)
             w == Append(wire, Head(outbox))
             o == Tail(outbox)
  <1>1. /\ wire' = w /\ outbox' = o /\ outbox # <<>>
        /\ UNCHANGED <<made, since, link, fol>>
    BY DEF Relay!Sends
  <1>2. n \in Nat /\ k \in Nat /\ k >= 1
    BY <1>1
  <1>3. /\ outbox[1] \in Nat \ {0} /\ w \in Seq(Nat \cup {-1}) /\ Len(w) = n + 1
        /\ w[n + 1] = outbox[1] /\ \A i \in 1 .. n : w[i] = wire[i]
    BY <1>1
  <1>4. /\ o \in Seq(Nat \ {0}) /\ Len(o) = k - 1
        /\ \A j \in 1 .. k - 1 : o[j] = outbox[j + 1] /\ j + 1 \in 1 .. k
    BY <1>1, <1>2
  <1>5. /\ \A i \in 1 .. n : wire[i] \in Int
        /\ \A j \in 1 .. k : outbox[j] \in Nat \ {0}
        /\ 1 \in 1 .. k /\ (outbox = <<>> <=> k = 0)
    BY <1>2
  <1>6. \A i \in 1 .. n + 1 : i \in 1 .. n \/ i = n + 1
    BY <1>2
  <1> HIDE DEF n, k, w, o
  <1>7. Behind'
    <2>1. \A i \in 1 .. Len(wire') : wire'[i] <= made
      BY <1>1, <1>3, <1>5, <1>6 DEF Behind, n, k
    <2>2. \A j \in 1 .. Len(outbox') : outbox'[j] <= made
      BY <1>1, <1>4 DEF Behind, k
    <2> QED
      BY <1>1, <2>1, <2>2 DEF Behind
  <1>8. InOrder'
    <2>1. \A i, j \in 1 .. n + 1 : i < j => i \in 1 .. n
      BY <1>2
    <2>2. \A i, j \in 1 .. n + 1 : i < j /\ w[i] > 0 /\ w[j] > 0 => w[i] < w[j]
      <3>1. \A i \in 1 .. n : wire[i] < outbox[1]
        BY <1>5 DEF InOrder, n, k
      <3>2. \A i, j \in 1 .. n : i < j /\ w[i] > 0 /\ w[j] > 0 => w[i] < w[j]
        BY <1>3 DEF InOrder, n
      <3>3. \A i \in 1 .. n : w[i] < w[n + 1]
        BY <1>3, <3>1
      <3> QED
        BY <1>6, <2>1, <3>2, <3>3
    <2>3. \A i, j \in 1 .. k - 1 : i < j => o[i] < o[j]
      <3>1. \A i, j \in 1 .. k - 1 : i < j => i + 1 < j + 1
        OBVIOUS
      <3> QED
        BY <1>4, <3>1 DEF InOrder, k
    <2>4. \A i \in 1 .. n + 1, j \in 1 .. k - 1 : w[i] < o[j]
      <3>1. \A j \in 1 .. k - 1 : 1 < j + 1
        BY <1>2
      <3>2. \A j \in 1 .. k - 1 : outbox[1] < outbox[j + 1]
        BY <1>4, <1>5, <3>1 DEF InOrder, k
      <3> QED
        BY <1>3, <1>4, <1>6, <3>2 DEF InOrder, n, k
    <2>5. \A i \in 1 .. n + 1 : w[i] > 0 => fol.got < w[i]
      BY <1>3, <1>5, <1>6 DEF InOrder, n, k
    <2>6. \A j \in 1 .. k - 1 : fol.got < o[j]
      BY <1>4 DEF InOrder, k
    <2> QED
      BY <1>1, <1>3, <1>4, <2>2, <2>3, <2>4, <2>5, <2>6 DEF InOrder
  <1>9. NewestIsThere => NewestIsThere'
    <2>1. CASE \E i \in 1 .. n : wire[i] = made /\ made > 0
      <3>1. \A i \in 1 .. n : i \in 1 .. n + 1
        BY <1>2
      <3> QED
        BY <1>1, <1>3, <2>1, <3>1 DEF NewestIsThere
    <2>2. CASE \E j \in 1 .. k : outbox[j] = made
      <3>1. PICK j \in 1 .. k : outbox[j] = made
        BY <2>2
      <3>2. CASE j = 1
        <4>1. n + 1 \in 1 .. n + 1 /\ w[n + 1] = made /\ made > 0
          BY <1>2, <1>3, <1>5, <3>1, <3>2
        <4> QED
          BY <1>1, <1>3, <4>1 DEF NewestIsThere
      <3>3. CASE j # 1
        <4>1. j - 1 \in 1 .. k - 1 /\ o[j - 1] = made
          <5>1. j - 1 \in 1 .. k - 1 /\ (j - 1) + 1 = j
            BY <1>2, <3>3
          <5> QED
            BY <1>4, <3>1, <5>1
        <4> QED
          BY <1>1, <1>4, <4>1 DEF NewestIsThere
      <3> QED
        BY <3>2, <3>3
    <2> QED
      BY <1>1, <2>1, <2>2 DEF NewestIsThere, n, k
  <1> QED
    BY <1>1, <1>3, <1>4, <1>7, <1>8, <1>9

\* A heartbeat is no tick.
LEMMA PingsKeep ==
    ASSUME RelayInv, Relay!Pings
    PROVE  RelayInv'
  <1> USE DEF RelayInv, RelayTypes
  <1> DEFINE n == Len(wire)
             w == Append(wire, -1)
  <1>1. wire' = w /\ UNCHANGED <<made, since, outbox, link, fol>>
    BY DEF Relay!Pings, Relay!Ping
  <1>2. /\ n \in Nat /\ w \in Seq(Nat \cup {-1}) /\ Len(w) = n + 1 /\ w[n + 1] = -1
        /\ \A i \in 1 .. n : w[i] = wire[i] /\ wire[i] \in Int
        /\ \A j \in 1 .. Len(outbox) : outbox[j] \in Nat
    OBVIOUS
  <1>3. \A i \in 1 .. n + 1 : i \in 1 .. n \/ i = n + 1
    BY <1>2
  <1>4. \A i \in 1 .. n : i \in 1 .. n + 1
    BY <1>2
  <1> HIDE DEF n, w
  <1>5. Behind'
    <2>1. \A i \in 1 .. n : w[i] <= made
      BY <1>2 DEF Behind, n
    <2>2. w[n + 1] <= made
      BY <1>2
    <2>3. \A i \in 1 .. n + 1 : w[i] <= made
      BY <1>3, <2>1, <2>2
    <2> QED
      BY <1>1, <1>2, <2>3 DEF Behind
  <1>6. InOrder'
    <2>1. \A i \in 1 .. n + 1 : w[i] > 0 => i \in 1 .. n
      BY <1>2, <1>3
    <2>2. \A i, j \in 1 .. n + 1 : i < j /\ w[i] > 0 /\ w[j] > 0 => w[i] < w[j]
      BY <1>2, <2>1 DEF InOrder, n
    <2>3. \A i \in 1 .. n + 1, j \in 1 .. Len(outbox) : w[i] < outbox[j]
      BY <1>2, <1>3 DEF InOrder, n
    <2>4. \A i \in 1 .. n + 1 : w[i] > 0 => fol.got < w[i]
      BY <1>2, <2>1 DEF InOrder, n
    <2> QED
      BY <1>1, <1>2, <2>2, <2>3, <2>4 DEF InOrder
  <1>7. NewestIsThere => NewestIsThere'
    <2>1. CASE \E i \in 1 .. n : wire[i] = made /\ made > 0
      BY <1>1, <1>2, <1>4, <2>1 DEF NewestIsThere
    <2>2. CASE \E j \in 1 .. Len(outbox) : outbox[j] = made
      BY <1>1, <2>2 DEF NewestIsThere
    <2>3. CASE /\ \A i \in 1 .. n : wire[i] <= 0
               /\ outbox = <<>> /\ made \in {fol.got, since}
      <3>1. \A i \in 1 .. n + 1 : w[i] <= 0
        BY <1>2, <1>3, <2>3
      <3> QED
        BY <1>1, <1>2, <2>3, <3>1 DEF NewestIsThere
    <2> QED
      BY <2>1, <2>2, <2>3 DEF NewestIsThere, n
  <1> QED
    BY <1>1, <1>2, <1>5, <1>6, <1>7

\* The follower on a new socket.
LEMMA FollowerOpens ==
    ASSUME NEW f \in Followers, NEW b \in BOOLEAN, NEW c \in Int, NEW g,
           g = [f EXCEPT !.at = "open", !.age = c, !.watch = b]
    PROVE  g \in Followers /\ g.got = f.got
  BY DEF Followers

\* A new socket starts with nothing queued, or is mute.
LEMMA OpensKeeps ==
    ASSUME RelayInv, Relay!Opens
    PROVE  RelayInv'
  <1>1. /\ fol' = [fol EXCEPT !.at = "open", !.age = 0, !.watch = TRUE]
        /\ outbox' = <<>> /\ since' = made /\ made' = made
    BY DEF Relay!Opens
  <1>0. fol \in Followers /\ made \in Nat
    BY DEF RelayInv, RelayTypes
  <1>2. fol' \in Followers /\ fol'.got = fol.got /\ fol.got \in Nat /\ made \in Nat
    <2>1. PICK c \in Int : c = 0
      OBVIOUS
    <2>2. fol' = [fol EXCEPT !.at = "open", !.age = c, !.watch = TRUE]
      BY <1>1, <2>1
    <2> QED
      BY <1>0, <2>2, FollowerOpens DEF Followers
  <1>3. CASE link' = "live" /\ wire' = <<0>>
    <2>1. wire' \in Seq(Nat \cup {-1}) /\ Len(wire') = 1 /\ wire'[1] = 0
      BY <1>3
    <2>2. \A i \in 1 .. Len(wire') : wire'[i] = 0
      BY <2>1
    <2>3. RelayTypes'
      BY <1>1, <1>2, <2>1 DEF RelayTypes
    <2>4. Behind'
      BY <1>1, <1>2, <2>2 DEF Behind, RelayInv
    <2>5. InOrder'
      BY <1>1, <2>2 DEF InOrder
    <2>6. NewestIsThere'
      BY <1>1, <2>2 DEF NewestIsThere
    <2> QED
      BY <2>3, <2>4, <2>5, <2>6 DEF RelayInv
  <1>4. CASE link' = "mute" /\ wire' = <<>>
    BY <1>1, <1>2, <1>4, LineEmpties DEF RelayInv, RelayTypes, Behind
  <1> QED
    BY <1>3, <1>4 DEF Relay!Opens, Relay!Hello

\* A socket that ends carries nothing, whoever ended it.
LEMMA EndsKeeps ==
    ASSUME RelayInv, NEW f \in Followers, f.got <= made, Relay!Ends(f),
           UNCHANGED <<made, since>>
    PROVE  RelayInv'
  <1>1. fol' \in Followers /\ fol'.got = f.got
    BY DEF Relay!Ends, Relay!Ended, Followers
  <1> QED
    BY <1>1, LineEmpties DEF Relay!Ends, RelayInv, RelayTypes

\* The follower takes the next frame of the line, and that is the newest tick it has had.
LEMMA ReceivesKeeps ==
    ASSUME RelayInv, Relay!Receives
    PROVE  RelayInv'
  <1> USE DEF RelayInv, RelayTypes
  <1> DEFINE n == Len(wire)
             w == Tail(wire)
             h == wire[1]
             f == Relay!Heard(h)
  <1>1. wire # <<>> /\ UNCHANGED <<made, since>>
    BY DEF Relay!Receives
  <1>2. n \in Nat /\ n >= 1 /\ 1 \in 1 .. n /\ h \in Nat \cup {-1} /\ Head(wire) = h
    BY <1>1
  <1>3. /\ w \in Seq(Nat \cup {-1}) /\ Len(w) = n - 1
        /\ \A i \in 1 .. n - 1 : w[i] = wire[i + 1] /\ i + 1 \in 1 .. n
    BY <1>1, <1>2
  <1>4. /\ \A i \in 1 .. n : wire[i] \in Int
        /\ \A j \in 1 .. Len(outbox) : outbox[j] \in Nat \ {0}
        /\ made \in Nat /\ since \in Nat /\ fol.got \in Nat /\ Len(outbox) \in Nat
        /\ (outbox = <<>> <=> Len(outbox) = 0)
    BY DEF Followers
  <1>5. f \in Followers /\ f.got = IF h > 0 THEN h ELSE fol.got
    <2>1. fol \in Followers /\ h \in Nat \cup {-1}
      BY <1>2
    <2>2. PICK g \in Nat : g = IF h > 0 THEN h ELSE fol.got
      BY <1>2, <1>4
    <2>3. PICK c \in BOOLEAN : c = (fol.connected \/ h # Relay!Ping)
      OBVIOUS
    <2>4. PICK a \in Int : a = 0
      OBVIOUS
    <2>5. f = [fol EXCEPT !.age = a, !.connected = c, !.got = g]
      BY <2>2, <2>3, <2>4 DEF Relay!Heard
    <2> HIDE DEF h, f
    <2>6. f \in Followers /\ f.got = g
      <3> HIDE DEF RelayInv, RelayTypes
      <3> QED
        BY <2>1, <2>5 DEF Followers
    <2> QED
      BY <2>2, <2>6
  <1> HIDE DEF n, w, h, f
  <1>6. f.got \in Nat /\ f.got <= made
    BY <1>2, <1>4, <1>5 DEF Behind, h, n
  <1>7. CASE fol.kick
    BY <1>1, <1>2, <1>5, <1>6, <1>7, EndsKeeps DEF Relay!Receives, f
  <1>8. CASE ~fol.kick
    <2>1. fol' = f /\ wire' = w /\ UNCHANGED <<outbox, link>>
      BY <1>2, <1>8 DEF Relay!Receives, f, w
    <2>2. Behind'
      <3>1. \A i \in 1 .. n - 1 : w[i] <= made
        BY <1>3 DEF Behind, n
      <3> QED
        BY <1>1, <1>3, <1>6, <2>1, <3>1 DEF Behind
    <2>3. \A i \in 1 .. n - 1 : 1 < i + 1
      BY <1>2
    <2>4. \A i \in 1 .. n - 1 : w[i] > 0 => f.got < w[i]
      <3>1. \A i \in 1 .. n - 1 : w[i] > 0 /\ h > 0 => h < w[i]
        BY <1>2, <1>3, <2>3 DEF InOrder, h, n
      <3>2. \A i \in 1 .. n - 1 : w[i] > 0 => fol.got < w[i]
        BY <1>3 DEF InOrder, n
      <3> QED
        BY <1>5, <3>1, <3>2
    <2>5. \A j \in 1 .. Len(outbox) : f.got < outbox[j]
      <3>1. \A j \in 1 .. Len(outbox) : h < outbox[j] /\ fol.got < outbox[j]
        BY <1>2 DEF InOrder, h, n
      <3> QED
        BY <1>5, <3>1
    <2>6. InOrder'
      <3>1. \A i, j \in 1 .. n - 1 : i < j /\ w[i] > 0 /\ w[j] > 0 => w[i] < w[j]
        <4>1. \A i, j \in 1 .. n - 1 : i < j => i + 1 < j + 1
          OBVIOUS
        <4> QED
          BY <1>3, <4>1 DEF InOrder, n
      <3>2. \A i \in 1 .. n - 1, j \in 1 .. Len(outbox) : w[i] < outbox[j]
        BY <1>3 DEF InOrder, n
      <3>3. \A i, j \in 1 .. Len(outbox) : i < j => outbox[i] < outbox[j]
        BY DEF InOrder
      <3> QED
        BY <1>3, <2>1, <2>4, <2>5, <3>1, <3>2, <3>3 DEF InOrder
    <2>7. NewestIsThere => NewestIsThere'
      <3>1. CASE h > 0 /\ h = made
        <4>1. \A i \in 1 .. n - 1 : w[i] <= 0
          <5>1. \A i \in 1 .. n - 1 : w[i] \in Int /\ w[i] <= made
            BY <1>3, <1>4 DEF Behind, n
          <5> QED
            BY <1>4, <1>5, <2>4, <3>1, <5>1
        <4>2. Len(outbox) = 0
          <5>1. \A j \in 1 .. Len(outbox) : FALSE
            BY <1>4, <1>5, <2>5, <3>1 DEF Behind
          <5> QED
            BY <1>4, <5>1
        <4> QED
          BY <1>1, <1>3, <1>4, <1>5, <2>1, <3>1, <4>1, <4>2 DEF NewestIsThere
      <3>2. CASE ~(h > 0 /\ h = made)
        <4>1. ASSUME NEW i \in 1 .. n, wire[i] = made, made > 0
              PROVE  NewestIsThere'
          <5>1. i # 1
            BY <3>2, <4>1 DEF h
          <5>2. i - 1 \in 1 .. n - 1 /\ (i - 1) + 1 = i
            BY <1>2, <5>1
          <5>3. w[i - 1] = made
            BY <1>3, <4>1, <5>2
          <5> QED
            BY <1>1, <1>3, <2>1, <4>1, <5>2, <5>3 DEF NewestIsThere
        <4>2. ASSUME NEW j \in 1 .. Len(outbox), outbox[j] = made
              PROVE  NewestIsThere'
          BY <1>1, <2>1, <4>2 DEF NewestIsThere
        <4>3. ASSUME \A i \in 1 .. n : wire[i] <= 0, outbox = <<>>, made \in {fol.got, since}
              PROVE  NewestIsThere'
          <5>1. \A i \in 1 .. n - 1 : w[i] <= 0
            BY <1>3, <4>3
          <5>2. f.got = fol.got
            <6>1. h <= 0
              BY <1>2, <4>3 DEF h
            <6> QED
              BY <1>2, <1>5, <6>1
          <5> QED
            BY <1>1, <1>3, <2>1, <4>3, <5>1, <5>2 DEF NewestIsThere
        <4> QED
          BY <4>1, <4>2, <4>3 DEF NewestIsThere, n
      <3> QED
        BY <3>1, <3>2
    <2> QED
      BY <1>1, <1>3, <1>5, <2>1, <2>2, <2>6, <2>7
  <1> QED
    BY <1>7, <1>8

\* A socket that falls mute loses what was on the line; what is queued stays in order.
LEMMA FallsMuteKeeps ==
    ASSUME RelayInv, Relay!FallsMute
    PROVE  RelayInv'
  BY DEF RelayInv, RelayTypes, Behind, InOrder, Relay!FallsMute

\* The supervisor and its watchdog change what the follower is about, not what it has.
LEMMA SupervisorKeeps ==
    ASSUME RelayInv,
           Relay!Refused \/ Relay!Wakes \/ Relay!Watches \/ Relay!Nudge \/ Relay!Clock
    PROVE  RelayInv'
  <1>0. fol \in Followers
    BY DEF RelayInv, RelayTypes
  <1>1. CASE Relay!Refused
    BY <1>0, <1>1, FlagsOnly DEF Relay!Refused, Relay!Ended, Followers
  <1>2. CASE Relay!Wakes
    BY <1>0, <1>2, FlagsOnly DEF Relay!Wakes, Followers
  <1>3. CASE Relay!Watches
    BY <1>0, <1>3, FlagsOnly DEF Relay!Watches, Relay!Watched, Followers
  <1>4. CASE Relay!Nudge
    BY <1>0, <1>4, FlagsOnly DEF Relay!Nudge, Followers
  <1>5. CASE Relay!Clock
    BY <1>0, <1>5, FlagsOnly DEF Relay!Clock, Followers
  <1> QED
    BY <1>1, <1>2, <1>3, <1>4, <1>5

LEMMA RelayInvStep ==
    ASSUME RelaySettings, RelayInv, [Relay!Next]_(Relay!vars)
    PROVE  RelayInv'
  <1>0. fol \in Followers /\ fol.got <= made
    BY DEF RelayInv, RelayTypes, Behind
  <1>1. CASE Relay!Vendor
    BY <1>1, VendorKeeps
  <1>2. CASE Relay!Sends
    BY <1>2, SendsKeeps
  <1>3. CASE Relay!Pings
    BY <1>3, PingsKeep
  <1>4. CASE Relay!Opens
    BY <1>4, OpensKeeps
  <1>5. CASE Relay!Receives
    BY <1>5, ReceivesKeeps
  <1>6. CASE Relay!Closes
    BY <1>0, <1>6, EndsKeeps DEF Relay!Closes
  <1>7. CASE Relay!OwnerCloses
    BY <1>0, <1>7, EndsKeeps DEF Relay!OwnerCloses
  <1>8. CASE Relay!FallsMute
    BY <1>8, FallsMuteKeeps
  <1>9. CASE Relay!Refused \/ Relay!Wakes \/ Relay!Watches \/ Relay!Nudge \/ Relay!Clock
    BY <1>9, SupervisorKeeps
  <1>10. CASE UNCHANGED Relay!vars
    BY <1>0, <1>10, FlagsOnly DEF Relay!vars
  <1> QED
    BY <1>1, <1>2, <1>3, <1>4, <1>5, <1>6, <1>7, <1>8, <1>9, <1>10 DEF Relay!Next

LEMMA RelayInvHolds ==
    ASSUME RelaySettings
    PROVE  Relay!Spec => []RelayInv
  <1>1. RelayInv /\ [Relay!Next]_(Relay!vars) => RelayInv'
    BY RelayInvStep
  <1> QED
    BY <1>1, RelayInvInit, PTL DEF Relay!Spec

\* What the property says, from the invariant: the frames in one row.
LEMMA NewestFollows ==
    ASSUME RelayInv
    PROVE  NewestSurvives
  <1> USE DEF RelayInv, RelayTypes
  <1> DEFINE n == Len(wire)
             k == Len(outbox)
             f == wire \o outbox
             W == Relay!OnTheWay
  <1>1. /\ n \in Nat /\ k \in Nat /\ DOMAIN f = 1 .. n + k
        /\ \A i \in 1 .. n : f[i] = wire[i] /\ wire[i] \in Nat \cup {-1}
        /\ \A i \in 1 .. n + k : i > n => f[i] = outbox[i - n] /\ i - n \in 1 .. k
        /\ \A j \in 1 .. k : outbox[j] \in Nat \ {0}
        /\ DOMAIN wire = 1 .. n /\ DOMAIN outbox = 1 .. k
    OBVIOUS
  <1>2. \A t : t \in W <=> \/ \E i \in 1 .. n : t = wire[i] /\ wire[i] > 0
                           \/ \E j \in 1 .. k : t = outbox[j]
    <2>1. \A t : t \in Relay!ToSet(wire) <=> \E i \in 1 .. n : t = wire[i]
      BY <1>1 DEF Relay!ToSet
    <2>2. \A t : t \in Relay!ToSet(outbox) <=> \E j \in 1 .. k : t = outbox[j]
      BY <1>1 DEF Relay!ToSet
    <2>3. \A i \in 1 .. n : wire[i] > 0 <=> wire[i] \notin {0, -1}
      BY <1>1
    <2>4. \A j \in 1 .. k : outbox[j] \notin {0, -1}
      BY <1>1
    <2>5. \A t : t \in W <=> /\ t \in Relay!ToSet(wire) \/ t \in Relay!ToSet(outbox)
                           /\ t \notin {0, -1}
      BY DEF Relay!OnTheWay, Relay!Hello, Relay!Ping
    <2> HIDE DEF n, k, W
    <2> QED
      BY <2>1, <2>2, <2>3, <2>4, <2>5
  <1> HIDE DEF n, k, f, W
  <1>3. Relay!Ordered(f)
    <2>1. ASSUME NEW i \in 1 .. n + k, NEW j \in 1 .. n + k, i < j, f[i] > 0, f[j] > 0
          PROVE  f[i] < f[j]
      <3>1. CASE j <= n
        <4>1. i \in 1 .. n /\ j \in 1 .. n
          BY <1>1, <2>1, <3>1
        <4> QED
          BY <1>1, <2>1, <4>1 DEF InOrder, n
      <3>2. CASE i <= n /\ j > n
        <4>1. i \in 1 .. n /\ j - n \in 1 .. k /\ f[i] = wire[i] /\ f[j] = outbox[j - n]
          BY <1>1, <2>1, <3>2
        <4> QED
          BY <4>1 DEF InOrder, n, k
      <3>3. CASE i > n
        <4>1. /\ i - n \in 1 .. k /\ j - n \in 1 .. k /\ i - n < j - n
              /\ f[i] = outbox[i - n] /\ f[j] = outbox[j - n]
          BY <1>1, <2>1, <3>3
        <4> QED
          BY <4>1 DEF InOrder, k
      <3> QED
        BY <1>1, <3>1, <3>2, <3>3
    <2> QED
      BY <1>1, <2>1 DEF Relay!Ordered
  <1>4. \A t \in W : fol.got < t /\ t <= made
    BY <1>2 DEF Behind, InOrder, n, k
  <1>5. ASSUME link = "live"
        PROVE  IF W = {} THEN made \in {fol.got, since} ELSE made \in W
    <2>1. CASE (\E i \in 1 .. n : wire[i] = made /\ made > 0) \/ \E j \in 1 .. k : outbox[j] = made
      BY <1>2, <2>1
    <2>2. CASE /\ \A i \in 1 .. n : wire[i] <= 0
               /\ outbox = <<>> /\ made \in {fol.got, since}
      <3>1. k = 0
        BY <2>2 DEF k
      <3>2. \A t : t \notin W
        BY <1>1, <1>2, <2>2, <3>1
      <3> QED
        BY <2>2, <3>2
    <2> QED
      BY <1>5, <2>1, <2>2 DEF NewestIsThere, n, k
  <1> QED
    BY <1>3, <1>4, <1>5 DEF NewestSurvives, Relay!NewestSurvives, f, W

\* While the socket is live, the ticks queued for the follower and those on the line are newer
\* than what it has and in the vendor's order, and the vendor's newest is among them or there
\* (or it came before the subscription): the queue of td_relay.py gives up its oldest, and the
\* follower of td_relay_feed.py takes no frame over from a socket that ended.
THEOREM NewestAlwaysSurvives ==
    ASSUME RelaySettings
    PROVE  Relay!Spec => []NewestSurvives
  <1>1. RelayInv => NewestSurvives
    BY NewestFollows
  <1> QED
    BY <1>1, RelayInvHolds, PTL
=============================================================================

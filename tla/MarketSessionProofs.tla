------------------------ MODULE MarketSessionProofs ------------------------
(***************************************************************************)
(* Proofs about the two components of MCMarketSession, each under its own  *)
(* specification; they share the clock and nothing else.                   *)
(*                                                                         *)
(* MarketSession, for any throttle settings and any interleaving of        *)
(* logins, restarts and a second client.  Answers and INSERTs may be lost  *)
(* and the process may die in a login; that the boot query of              *)
(* auth_sessions is answered is assumed for the floor (SeedAnswered),      *)
(* because without it a restored token has no login time and the floor     *)
(* does not apply to it; that no session minted is lost to the process is  *)
(* assumed for the budget and the storm (MintsAreKept), because what is    *)
(* lost is not counted.                                                    *)
(*                                                                         *)
(* TickStore (instance Ticks), for any bucket length, any horizon, any     *)
(* queue and any cap: no tick that was absorbed is lost between the socket *)
(* and the table, and the newest flush reaches the hub.                    *)
(***************************************************************************)
EXTENDS MCMarketSession, FiniteSetTheorems, WellFoundedInduction, SequenceTheorems, TLAPS

SeedAnswered == "seed" \notin Faults

-----------------------------------------------------------------------------
(* The newest recorded session *)

\* A set of sessions of which n were minted has a newest one: the row that
\* ORDER BY issued_at DESC LIMIT 1 and MAX(issued_at) read.
LEMMA NewestIsAMember ==
    ASSUME NEW n \in Nat, NEW ids \in SUBSET (1 .. n), ids # {}
    PROVE  Newest(ids) \in ids
<1> DEFINE ages == {n - i : i \in ids}
<1>1. ages \subseteq Nat /\ ages # {}
    <2>1. \A i \in ids : n - i \in Nat
        OBVIOUS
    <2>2. PICK i \in ids : TRUE
        OBVIOUS
    <2> QED  BY <2>1, <2>2
<1>2. PICK x \in ages : \A y \in ages : ~ (<<y, x>> \in OpToRel(<, Nat))
    <2> HIDE DEF ages
    <2> QED  BY <1>1, WFMin, NatLessThanWellFounded, Zenon
<1>3. \A y \in ages : ~ (y < x)
    BY <1>1, <1>2 DEF OpToRel
<1>4. PICK i \in ids : x = n - i
    BY <1>2
<1>5. \A j \in ids : j <= i
    BY <1>3, <1>4
<1> QED  BY <1>5 DEF Newest

-----------------------------------------------------------------------------
(* The inductive invariant *)

\* Nothing is minted before the restore has ended, and the token comes from it.
BootOrder ==
    /\ up # "running" => pc = "free" /\ token = 0
    /\ up = "seeding" => lastLogin = Never

\* The clock runs past every mint and every request.
InThePast ==
    /\ \A i \in Sessions : mints[i].at <= now
    /\ pc = "persist" => call.id \in Sessions

\* The newest recorded session anchors the floor before it is restored, and
\* the floor counts from no earlier than the mint of the token in memory.
Anchored ==
    /\ up = "restoring" /\ rows # {} => lastLogin = mints[Newest(rows)].at
    /\ token # 0 => lastLogin # Never /\ mints[token].at <= lastLogin

\* A login under way has found no younger token, and no token comes meanwhile.
Cleared ==
    pc = "mint" /\ call.by = "auto" /\ Usable => now - mints[token].at >= Floor

IInv == TypeOK /\ BootOrder /\ InThePast /\ Anchored /\ Cleared

-----------------------------------------------------------------------------
(* The steps *)

LEMMA InitIInv == Init => IInv
<1> SUFFICES ASSUME Init PROVE IInv
    OBVIOUS
<1>1. mints = <<>> /\ Sessions = {} /\ Len(mints) = 0
    BY DEF Init, Sessions
<1>2. mints \in Seq([by : Callers, asked : Nat, at : Nat])
    BY DEF Init
<1>3. call \in [by : Callers, asked : Nat, id : Nat]
    BY DEF Init, NoCall, Callers
<1>5. logins \subseteq [id : Sessions, at : 0 .. now] /\ rows \subseteq Sessions
    BY DEF Init, Fresh
<1>6. lastLogin \in Times /\ lastLogin <= now /\ probe \in Times /\ probe <= now
    BY DEF Init, Fresh, Times, Never
<1>7. born \in 0 .. Len(mints)  /\ quiet \in 0 .. Len(mints)
    BY <1>1 DEF Init
<1>8. /\ now \in Nat
      /\ rotations \in Nat
      /\ circuit \in BOOLEAN
      /\ stolen \in BOOLEAN
      /\ token \in Sessions \cup {0}
    BY  DEF Init, Fresh
<1>9. up \in {"seeding", "restoring", "running"} /\ pc \in {"free", "mint", "persist"}
    BY  DEF Init, Fresh
<1>4. TypeOK
    BY <1>1, <1>2, <1>3, <1>5, <1>6, <1>7, <1>8, <1>9 DEF TypeOK
<1> QED
    BY <1>1, <1>4 DEF Init, IInv, BootOrder, InThePast, Anchored, Cleared, Fresh, Never

\* Only Mint adds a session, at the end and at the present; only Tick moves
\* the clock, forward.
LEMMA History ==
    ASSUME TypeOK, [Next]_vars
    PROVE  /\ mints' \in Seq([by : Callers, asked : Nat, at : Nat])
           /\ Len(mints) \in Nat /\ Len(mints') \in Nat /\ Len(mints) <= Len(mints')
           /\ Sessions = 1 .. Len(mints) /\ Sessions' = 1 .. Len(mints')
           /\ \A i \in Sessions : mints'[i] = mints[i] /\ mints[i].at \in Nat
           /\ \A i \in Sessions' \ Sessions : mints'[i].at = now
           /\ now \in Nat /\ now' \in Nat /\ now <= now'
<1>1. /\ mints \in Seq([by : Callers, asked : Nat, at : Nat])
      /\ now \in Nat
      /\ call \in [by : Callers, asked : Nat, id : Nat]
    BY DEF TypeOK
<1>4. /\ Len(mints) \in Nat /\ DOMAIN mints = 1 .. Len(mints)
      /\ \A i \in 1 .. Len(mints) : mints[i].at \in Nat
    <2>1. Len(mints) \in Nat /\ DOMAIN mints = 1 .. Len(mints)
        BY <1>1
    <2>2. ASSUME NEW i \in 1 .. Len(mints) PROVE mints[i].at \in Nat
        <3>1. mints[i] \in [by : Callers, asked : Nat, at : Nat]
            BY <1>1, <2>1, ElementOfSeq
        <3> QED  BY <3>1
    <2> QED  BY <2>1, <2>2
<1>2. CASE Mint
    <2> DEFINE m == [by |-> call.by, asked |-> call.asked, at |-> now]
    <2>1. mints' = Append(mints, m) /\ now' = now
        BY <1>2 DEF Mint
    <2>2. m \in [by : Callers, asked : Nat, at : Nat] /\ m.at = now
        BY <1>1
    <2> HIDE DEF m
    <2>3. /\ mints' \in Seq([by : Callers, asked : Nat, at : Nat])
          /\ Len(mints') = Len(mints) + 1 /\ Len(mints) \in Nat
          /\ DOMAIN mints = 1 .. Len(mints) /\ DOMAIN mints' = 1 .. Len(mints) + 1
          /\ \A i \in 1 .. Len(mints) : mints'[i] = mints[i]
          /\ mints'[Len(mints) + 1] = m
        BY <1>1, <2>1, <2>2
    <2> QED  BY <1>1, <1>4, <2>1, <2>2, <2>3 DEF Sessions
<1>3. CASE ~Mint
    <2>1. mints' = mints
        BY <1>3
        DEF Next, vars, histVars, procVars, SeedFloor, RestoreSession, Attempt, AttemptManual,
            MintFails, Persist, PersistFails, MarkFeedHealthy, ParkRotations, Restart,
            SecondClient, Tick
    <2>2. now' = now \/ now' = now + 1
        BY <1>3
        DEF Next, vars, SeedFloor, RestoreSession, Attempt, AttemptManual, MintFails, Persist,
            PersistFails, MarkFeedHealthy, ParkRotations, Restart, SecondClient, Tick
    <2> QED  BY <1>1, <1>4, <2>1, <2>2 DEF Sessions
<1> QED  BY <1>2, <1>3

\* The recorded sessions are sessions, the newest of them too.
LEMMA NewestRow ==
    ASSUME TypeOK, rows # {}
    PROVE  Newest(rows) \in Sessions /\ Newest(rows) \in Nat \ {0}
<1>1. Len(mints) \in Nat /\ Sessions = 1 .. Len(mints)
    BY DEF TypeOK, Sessions
<1>2. rows \in SUBSET (1 .. Len(mints))
    BY <1>1 DEF TypeOK
<1>3. Newest(rows) \in rows
    BY <1>1, <1>2, NewestIsAMember
<1>4. Newest(rows) \in 1 .. Len(mints)
    BY <1>2, <1>3
<1> QED  BY <1>1, <1>4

LEMMA StepPast ==
    ASSUME TypeOK, BootOrder, InThePast, [Next]_vars
    PROVE  InThePast'
<1>1. \A i \in Sessions' : mints'[i].at <= now'
    BY History DEF InThePast
<1>2. ASSUME pc' = "persist" PROVE call'.id \in Sessions'
    <2>1. CASE pc = "persist" /\ call' = call
        BY <2>1, History DEF InThePast
    <2>2. CASE ~(pc = "persist" /\ call' = call)
        <3>1. Mint /\ call'.id = Len(mints) + 1 /\ Len(mints') = Len(mints) + 1
            BY <1>2, <2>2, History
            DEF TypeOK, Next, vars, SeedFloor, RestoreSession, Attempt, AttemptManual, Mint,
                MintFails, Persist, PersistFails, MarkFeedHealthy, ParkRotations, Restart,
                SecondClient, Tick
        <3> QED  BY <3>1, History
    <2> QED  BY <2>1, <2>2
<1> QED  BY <1>1, <1>2 DEF InThePast

\* What a step may assign to each variable that refers to a session or a time.
LEMMA Assigned ==
    ASSUME [Next]_vars
    PROVE  /\ \/ token' = token \/ token' = 0
              \/ rows # {} /\ token' = Newest(rows)
              \/ pc = "persist" /\ token' = call.id
           /\ \/ lastLogin' = lastLogin \/ lastLogin' = Never
              \/ rows # {} /\ lastLogin' = mints[Newest(rows)].at
              \/ pc = "persist" /\ lastLogin' = mints[call.id].at
           /\ \/ logins' = logins \/ logins' = {} \/ logins' = Recent
              \/ pc = "persist" /\ logins' = logins \cup {[id |-> call.id, at |-> now]}
           /\ rows' = rows \/ (pc = "persist" /\ rows' = rows \cup {call.id})
           /\ \/ call' = call \/ call' = NoCall
              \/ call' = [call EXCEPT !.id = Len(mints) + 1]
              \/ \E by \in Callers : call' = [by |-> by, asked |-> now, id |-> 0]
           /\ probe' = probe \/ probe' = now \/ probe' = Never
           /\ born' = born \/ born' = Len(mints)
           /\ quiet' = quiet \/ quiet' = Len(mints)
           /\ rotations' = rotations \/ rotations' = 0 \/ rotations' = rotations + 1
<1> USE DEF Next, vars, procVars, histVars, SeedFloor, RestoreSession, Restorable,
        Attempt, AttemptManual, Mint, MintFails, Persist, PersistFails,
        MarkFeedHealthy, ParkRotations, Restart, SecondClient, Tick
<1>1. \/ token' = token \/ token' = 0
      \/ rows # {} /\ token' = Newest(rows)
      \/ pc = "persist" /\ token' = call.id
    OBVIOUS
<1>2. \/ lastLogin' = lastLogin \/ lastLogin' = Never
      \/ rows # {} /\ lastLogin' = mints[Newest(rows)].at
      \/ pc = "persist" /\ lastLogin' = mints[call.id].at
    OBVIOUS
<1>3. \/ logins' = logins \/ logins' = {} \/ logins' = Recent
      \/ pc = "persist" /\ logins' = logins \cup {[id |-> call.id, at |-> now]}
    OBVIOUS
<1>4. rows' = rows \/ (pc = "persist" /\ rows' = rows \cup {call.id})
    OBVIOUS
<1>5. \/ call' = call \/ call' = NoCall
      \/ call' = [call EXCEPT !.id = Len(mints) + 1]
      \/ \E by \in Callers : call' = [by |-> by, asked |-> now, id |-> 0]
    BY DEF Callers
<1>6. probe' = probe \/ probe' = now \/ probe' = Never
    OBVIOUS
<1>7. born' = born \/ born' = Len(mints)
    OBVIOUS
<1>8. quiet' = quiet \/ quiet' = Len(mints)
    OBVIOUS
<1>9. rotations' = rotations \/ rotations' = 0 \/ rotations' = rotations + 1
    OBVIOUS
<1> QED  BY <1>1, <1>2, <1>3, <1>4, <1>5, <1>6, <1>7, <1>8, <1>9

LEMMA StepTypes ==
    ASSUME TypeOK, InThePast, [Next]_vars
    PROVE  TypeOK'
<1>1. Sessions \subseteq Sessions' /\ 0 .. now \subseteq 0 .. now' /\ now \in 0 .. now'
    BY History
<1>2. pc = "persist" => call.id \in Sessions
    BY DEF InThePast
<1>3. rows # {} => Newest(rows) \in Sessions
    BY NewestRow
<1>4. token' \in Sessions' \cup {0}
    BY <1>1, <1>2, <1>3, Assigned DEF TypeOK
<1>5. lastLogin' \in Times /\ lastLogin' <= now'
    <2>1. \A i \in Sessions : mints[i].at \in Nat /\ mints[i].at <= now
        BY History DEF InThePast
    <2>2. /\ now \in Nat /\ now' \in Nat /\ now <= now'
          /\ lastLogin \in Times /\ lastLogin <= now
        BY History DEF TypeOK
    <2>3. \/ lastLogin' = lastLogin \/ lastLogin' = Never
          \/ \E i \in Sessions : lastLogin' = mints[i].at
        BY <1>2, <1>3, Assigned
    <2> QED  BY <2>1, <2>2, <2>3 DEF Times, Never
<1>6. logins' \subseteq [id : Sessions', at : 0 .. now']
    <2>1. logins \subseteq [id : Sessions', at : 0 .. now']
        BY <1>1 DEF TypeOK
    <2>2. Recent \subseteq logins
        BY DEF Recent
    <2>3. pc = "persist" => [id |-> call.id, at |-> now] \in [id : Sessions', at : 0 .. now']
        BY <1>1, <1>2
    <2> QED  BY <2>1, <2>2, <2>3, Assigned
<1>7. rows' \subseteq Sessions'
    BY <1>1, <1>2, Assigned DEF TypeOK
<1>8. call' \in [by : Callers, asked : Nat, id : Nat]
    <2>1. call \in [by : Callers, asked : Nat, id : Nat] /\ now \in Nat /\ Len(mints) + 1 \in Nat
        BY History DEF TypeOK
    <2> QED  BY <2>1, Assigned DEF NoCall, Callers
<1>9. probe' \in Times /\ probe' <= now'
    <2>1. /\ now \in Nat /\ now' \in Nat /\ now <= now'
          /\ probe \in Times /\ probe <= now
        BY History DEF TypeOK
    <2>2. probe' = probe \/ probe' = now \/ probe' = Never
        BY Assigned
    <2> QED  BY <2>1, <2>2 DEF Times, Never
<1>10. born' \in 0 .. Len(mints') /\ quiet' \in 0 .. Len(mints')
    <2>1. /\ Len(mints) \in Nat /\ Len(mints') \in Nat /\ Len(mints) <= Len(mints')
          /\ born \in 0 .. Len(mints) /\ quiet \in 0 .. Len(mints)
        BY History DEF TypeOK
    <2>2. (born' = born \/ born' = Len(mints)) /\ (quiet' = quiet \/ quiet' = Len(mints))
        BY Assigned
    <2> QED  BY <2>1, <2>2
<1>11. rotations' \in Nat
    BY Assigned DEF TypeOK
<1>12. /\ up' \in {"seeding", "restoring", "running"}
       /\ pc' \in {"free", "mint", "persist"}
       /\ circuit' \in BOOLEAN
       /\ stolen' \in BOOLEAN
    <2> USE DEF Next, vars, procVars, SeedFloor, RestoreSession, Attempt, AttemptManual,
        Mint, MintFails, Persist, PersistFails, MarkFeedHealthy, ParkRotations,
        Restart, SecondClient, Tick
    <2>1. up' = up \/ up' \in {"seeding", "restoring", "running"}
        OBVIOUS
    <2>2. pc' = pc \/ pc' \in {"free", "mint", "persist"}
        OBVIOUS
    <2>3. circuit' = circuit \/ circuit' \in BOOLEAN
        <3>1. CASE SeedFloor
            <4> DEFINE many == Cardinality({i \in rows : now - mints[i].at < BootWindow}) >= BootRows
            <4>1. circuit' = many \/ circuit' = circuit
                BY <3>1, Zenon
            <4>2. many \in BOOLEAN
                OBVIOUS
            <4> QED  BY <4>1, <4>2
        <3>2. CASE Persist
            BY <3>2 DEF TypeOK
        <3> QED  BY <3>1, <3>2, Zenon
    <2>4. stolen \in BOOLEAN => stolen' \in BOOLEAN
        OBVIOUS
    <2> QED  BY <2>1, <2>2, <2>3, <2>4 DEF TypeOK
<1> QED
    BY <1>4, <1>5, <1>6, <1>7, <1>8, <1>9, <1>10, <1>11, <1>12, History DEF TypeOK

LEMMA StepBootOrder ==
    ASSUME BootOrder, [Next]_vars
    PROVE  BootOrder'
BY DEF BootOrder, Next, vars, procVars, SeedFloor, RestoreSession, Attempt, AttemptManual, Mint,
   MintFails, Persist, PersistFails, MarkFeedHealthy, ParkRotations, Restart, SecondClient, Tick

\* The floor's anchor is read before the token it covers, and both move
\* together when a login succeeds.
LEMMA StepAnchored ==
    ASSUME IInv, SeedAnswered, [Next]_vars
    PROVE  Anchored'
<1>1. ASSUME up' = "restoring", rows' # {}
      PROVE  lastLogin' = mints'[Newest(rows')].at
    <2>1. mints' = mints /\ rows' = rows /\ lastLogin' = mints[Newest(rows)].at
        BY <1>1
        DEF IInv, BootOrder, Anchored, SeedAnswered, Next, vars, procVars, histVars, SeedFloor,
            RestoreSession, Attempt, AttemptManual, Mint, MintFails, Persist, PersistFails,
            MarkFeedHealthy, ParkRotations, Restart, SecondClient, Tick
    <2> QED  BY <2>1
<1>2. ASSUME token' # 0
      PROVE  lastLogin' # Never /\ mints'[token'].at <= lastLogin'
    <2>1. \A i \in Sessions : mints'[i] = mints[i] /\ mints[i].at \in Nat
        BY History DEF IInv
    <2>2. CASE RestoreSession
        <3>1. rows # {} /\ token' = Newest(rows) /\ lastLogin' = mints[Newest(rows)].at
            BY <1>2, <2>2 DEF IInv, Anchored, RestoreSession, Restorable
        <3>2. Newest(rows) \in Sessions
            BY <3>1, NewestRow DEF IInv
        <3> QED  BY <2>1, <3>1, <3>2 DEF Never
    <2>3. CASE Persist
        <3>1. token' = call.id /\ lastLogin' = mints[call.id].at /\ call.id \in Sessions
            BY <2>3 DEF IInv, InThePast, Persist
        <3> QED  BY <2>1, <3>1 DEF Never
    <2>4. CASE ~RestoreSession /\ ~Persist
        <3>1. token' = token /\ (token # 0 => lastLogin' = lastLogin)
            BY <1>2, <2>4
            DEF IInv, BootOrder, Next, vars, procVars, SeedFloor, Attempt, AttemptManual, Mint,
                MintFails, PersistFails, MarkFeedHealthy, ParkRotations, Restart, SecondClient,
                Tick
        <3>2. token \in Sessions
            BY <1>2, <3>1 DEF IInv, TypeOK
        <3> QED  BY <1>2, <2>1, <3>1, <3>2 DEF IInv, Anchored
    <2> QED  BY <2>2, <2>3, <2>4
<1> QED  BY <1>1, <1>2 DEF Anchored

\* A request that passed the floor still passes it when the session is minted:
\* the lock keeps the token, and time only makes it older.
LEMMA StepCleared ==
    ASSUME IInv, [Next]_vars
    PROVE  Cleared'
<1> SUFFICES ASSUME pc' = "mint", call'.by = "auto", Usable'
             PROVE  now' - mints'[token'].at >= Floor
    BY DEF Cleared
<1>1. Floor \in Nat /\ Lifetime \in Nat
    BY TimesAssumption
<1>2. /\ \A i \in Sessions : mints'[i] = mints[i] /\ mints[i].at \in Nat
      /\ now \in Nat /\ now' \in Nat /\ now <= now'
    BY History DEF IInv
<1>3. CASE pc = "mint"
    <2>1. token' = token /\ call' = call
        BY <1>3
        DEF IInv, BootOrder, Next, vars, procVars, SeedFloor, RestoreSession, Attempt,
            AttemptManual, Mint, MintFails, Persist, PersistFails, MarkFeedHealthy,
            ParkRotations, Restart, SecondClient, Tick
    <2>2. token \in Sessions
        BY <2>1 DEF IInv, TypeOK, Usable
    <2>3. Usable
        BY <1>1, <1>2, <2>1, <2>2 DEF Usable
    <2> QED  BY <1>1, <1>2, <1>3, <2>1, <2>2, <2>3 DEF IInv, Cleared
<1>4. CASE pc # "mint"
    <2>1. Attempt /\ token' = token /\ mints' = mints /\ now' = now
        BY <1>4
        DEF IInv, BootOrder, Next, vars, procVars, histVars, SeedFloor, RestoreSession, Attempt,
            AttemptManual, Mint, MintFails, Persist, PersistFails, MarkFeedHealthy,
            ParkRotations, Restart, SecondClient, Tick
    <2>2. Usable /\ token \in Sessions
        BY <2>1 DEF IInv, TypeOK, Usable
    <2>3. lastLogin # Never /\ mints[token].at <= lastLogin
        BY <2>2 DEF IInv, Anchored, Usable
    <2>4. ~ (now - lastLogin < Floor)
        BY <2>1, <2>2, <2>3 DEF Attempt, Floored
    <2>5. lastLogin \in Nat
        BY <2>3 DEF IInv, TypeOK, Times
    <2> QED  BY <1>1, <1>2, <2>1, <2>2, <2>3, <2>4, <2>5
<1> QED  BY <1>3, <1>4

-----------------------------------------------------------------------------
(* The theorems *)

\* Every variable keeps its type: no session is referred to that was never
\* minted, and no remembered login lies in the future, whatever is lost.
THEOREM MarketSessionTypeCorrect == Spec => []TypeOK
<1> DEFINE Inv == TypeOK /\ BootOrder /\ InThePast
<1>1. Init => Inv
    BY InitIInv DEF IInv
<1>2. Inv /\ [Next]_vars => Inv'
    BY StepTypes, StepBootOrder, StepPast
<1> QED  BY <1>1, <1>2, PTL DEF Spec

\* The invariant behind the floor.
THEOREM SessionIsAnchored ==
    ASSUME SeedAnswered
    PROVE  Spec => []IInv
<1>1. Init => IInv
    BY InitIInv
<1>2. IInv /\ [Next]_vars => IInv'
    BY StepTypes, StepBootOrder, StepPast, StepAnchored, StepCleared DEF IInv
<1> QED  BY <1>1, <1>2, PTL DEF Spec

\* No login but a manual one kills a usable session younger than the floor, in
\* this process or the next, whichever answers and INSERTs are lost and
\* whenever the process dies.
THEOREM FloorAlwaysHolds ==
    ASSUME SeedAnswered
    PROVE  Spec => FloorHolds
<1>1. IInv => [AutoMint /\ Usable => now - mints[token].at >= Floor]_vars
    BY DEF IInv, Cleared, AutoMint, Mint
<1> QED  BY <1>1, SessionIsAnchored, PTL DEF FloorHolds

-----------------------------------------------------------------------------
(* The budget and the storm *)

\* No session is minted without the process that asked for it hearing of it and keeping it.
MintsAreKept == "answer" \notin Faults /\ "insert" \notin Faults

\* Since when the rotations count: the start, or the last time the feed was healthy.
Since == IF born < quiet THEN quiet ELSE born

\* _login_times holds every login of this process that the window still shows.
LoginsAreCounted ==
    \A i \in Sessions :
        \/ i <= born
        \/ now - mints[i].at > Window
        \/ pc = "persist" /\ call.id = i
        \/ \E l \in logins : l.id = i /\ mints[i].at <= l.at

\* A login under way has found room in the budget, and nothing is minted meanwhile.
RoomWasFound ==
    pc = "mint" /\ call.by = "auto" =>
        Cardinality({i \in Sessions : i > born /\ now - mints[i].at <= Window}) < BurstMax

\* _rotations_since_healthy has counted every session since then but the one in hand.
RotationsAreCounted ==
    /\ rotations + (IF pc = "persist" THEN 1 ELSE 0) >= Len(mints) - Since
    /\ rotations > StormLimit => circuit
    /\ up # "running" => rotations = 0

\* In a storm every automatic login is a probe's, the last of them at the newest.
ProbesAreStamped ==
    /\ \A i \in Probes : probe # Never /\ mints[i].asked <= probe
    /\ pc = "mint" /\ call.by = "auto" /\ Len(mints) - Since > StormLimit =>
          /\ probe = call.asked
          /\ \A i \in Probes : call.asked - mints[i].asked >= Probe

StormInv ==
    /\ TypeOK /\ BootOrder /\ InThePast
    /\ IsFiniteSet(logins) /\ LoginsAreCounted /\ RoomWasFound
    /\ RotationsAreCounted /\ ProbesAreStamped

LEMMA SinceFacts ==
    ASSUME TypeOK
    PROVE  /\ Since \in 0 .. Len(mints) /\ Len(mints) \in Nat /\ Sessions = 1 .. Len(mints)
           /\ Unproductive = (Since + 1) .. Len(mints)
           /\ Cardinality(Unproductive) = Len(mints) - Since
           /\ \A i \in Unproductive :
                 Cardinality({j \in Unproductive : j < i}) = i - 1 - Since
           /\ \A i \in Sessions : mints[i].asked \in Nat /\ mints[i].at \in Nat
<1>1. /\ mints \in Seq([by : Callers, asked : Nat, at : Nat])
      /\ born \in 0 .. Len(mints) /\ quiet \in 0 .. Len(mints)
    BY DEF TypeOK
<1>2. Len(mints) \in Nat /\ Sessions = 1 .. Len(mints)
    BY <1>1 DEF Sessions
<1>3. Since \in 0 .. Len(mints)
    BY <1>1, <1>2 DEF Since
<1>4. Unproductive = (Since + 1) .. Len(mints)
    BY <1>1, <1>2 DEF Unproductive, Since
<1>9. ASSUME NEW a \in Int, NEW b \in Int, a <= b + 1
      PROVE  Cardinality(a .. b) = b + 1 - a
    <2>1. Cardinality(a .. b) = IF a > b THEN 0 ELSE b - a + 1
        BY FS_Interval
    <2> QED  BY <1>9, <2>1
<1>5. Cardinality(Unproductive) = Len(mints) - Since
    <2>1. /\ Since + 1 \in Int /\ Len(mints) \in Int /\ Since \in Int
          /\ Since + 1 <= Len(mints) + 1
        BY <1>2, <1>3
    <2>2. Cardinality((Since + 1) .. Len(mints)) = Len(mints) + 1 - (Since + 1)
        BY <1>9, <2>1
    <2> QED  BY <1>4, <2>1, <2>2
<1>6. ASSUME NEW i \in Unproductive
      PROVE  Cardinality({j \in Unproductive : j < i}) = i - 1 - Since
    <2>1. {j \in Unproductive : j < i} = (Since + 1) .. (i - 1)
        BY <1>2, <1>3, <1>4
    <2>2. i \in Int /\ i >= Since + 1 /\ Since \in Int
        BY <1>2, <1>3, <1>4
    <2>3. Since + 1 \in Int /\ i - 1 \in Int /\ Since + 1 <= (i - 1) + 1
        BY <2>2
    <2>4. Cardinality((Since + 1) .. (i - 1)) = (i - 1) + 1 - (Since + 1)
        BY <1>9, <2>3
    <2>5. (i - 1) + 1 - (Since + 1) = i - 1 - Since
        BY <2>2
    <2> QED  BY <2>1, <2>4, <2>5
<1>7. \A i \in Sessions : mints[i] \in [by : Callers, asked : Nat, at : Nat]
    BY <1>1, <1>2, ElementOfSeq
<1>8. \A i \in Sessions : mints[i].asked \in Nat /\ mints[i].at \in Nat
    BY <1>7
<1> QED  BY <1>2, <1>3, <1>4, <1>5, <1>6, <1>8

\* The probes of a storm, by their numbers.
ProbesAreNumbered ==
    \A i : i \in Probes <=>
              /\ i \in Int /\ Since + 1 <= i /\ i <= Len(mints)
              /\ mints[i].by = "auto" /\ i - 1 - Since > StormLimit

LEMMA ProbeFacts == TypeOK => ProbesAreNumbered
<1> SUFFICES ASSUME TypeOK, NEW i
             PROVE  i \in Probes <=>
                       /\ i \in Int /\ Since + 1 <= i /\ i <= Len(mints)
                       /\ mints[i].by = "auto" /\ i - 1 - Since > StormLimit
    BY DEF ProbesAreNumbered
<1>1. i \in Probes <=> /\ i \in Unproductive /\ mints[i].by = "auto"
                       /\ i - 1 - Since > StormLimit
    BY SinceFacts DEF Probes
<1> QED  BY <1>1, SinceFacts

LEMMA ProbeFactsThen == TypeOK' => ProbesAreNumbered'
BY ProbeFacts, PTL

\* At most as many sessions are in the window as logins are remembered there.
LEMMA RecentBounds ==
    ASSUME TypeOK, IsFiniteSet(logins), LoginsAreCounted, pc = "free"
    PROVE  Cardinality({i \in Sessions : i > born /\ now - mints[i].at <= Window})
              <= Cardinality(Recent)
<1> DEFINE I == {i \in Sessions : i > born /\ now - mints[i].at <= Window}
           f == [l \in Recent |-> l.id]
           J == {f[l] : l \in Recent}
<1>1. IsFiniteSet(Recent)
    BY FS_Subset DEF Recent
<1>2. f \in Surjection(Recent, J)
    BY DEF Surjection
<1>3. IsFiniteSet(J) /\ Cardinality(J) <= Cardinality(Recent)
    <2> HIDE DEF f, J
    <2> QED  BY <1>1, <1>2, FS_Surjection
<1>4. I \subseteq J
    <2> SUFFICES ASSUME NEW i \in I
                 PROVE  \E l \in Recent : l.id = i
        OBVIOUS
    <2>5. i \in Sessions /\ i > born /\ now - mints[i].at <= Window
        OBVIOUS
    <2>6. i \in Nat /\ mints[i].at \in Nat
        BY <2>5, SinceFacts
    <2>7. now \in Nat /\ born \in 0 .. Len(mints) /\ Len(mints) \in Nat
        BY SinceFacts DEF TypeOK
    <2>1. /\ now \in Nat /\ Window \in Nat /\ born \in Nat /\ i \in Nat /\ mints[i].at \in Nat
          /\ i > born /\ now - mints[i].at <= Window
        BY <2>5, <2>6, <2>7, TimesAssumption
    <2>2. PICK l \in logins : l.id = i /\ mints[i].at <= l.at
        BY <2>1, <2>5 DEF LoginsAreCounted
    <2>3. l.at \in Nat
        BY DEF TypeOK
    <2>4. now - l.at <= Window
        BY <2>1, <2>2, <2>3
    <2> QED  BY <2>2, <2>4 DEF Recent
<1>5. IsFiniteSet(I) /\ Cardinality(I) <= Cardinality(J)
    <2> HIDE DEF I, J
    <2> QED  BY <1>3, <1>4, FS_Subset
<1>6. Cardinality(I) \in Nat /\ Cardinality(J) \in Nat /\ Cardinality(Recent) \in Nat
    <2> HIDE DEF I, J
    <2> QED  BY <1>1, <1>3, <1>5, FS_CardinalityType
<1> HIDE DEF I, J
<1>7. Cardinality(I) <= Cardinality(Recent)
    BY <1>3, <1>5, <1>6
<1> QED  BY <1>7 DEF I

LEMMA StepLogins ==
    ASSUME StormInv, MintsAreKept, [Next]_vars
    PROVE  IsFiniteSet(logins') /\ LoginsAreCounted'
<1>1. IsFiniteSet(logins')
    <2>1. IsFiniteSet(logins) /\ IsFiniteSet({})
        BY FS_EmptySet DEF StormInv
    <2>2. IsFiniteSet(Recent)
        BY <2>1, FS_Subset DEF Recent
    <2>3. IsFiniteSet(logins \cup {[id |-> call.id, at |-> now]})
        BY <2>1, FS_AddElement
    <2> QED  BY <2>1, <2>2, <2>3, Assigned
<1>2. TypeOK /\ InThePast
    BY DEF StormInv
<1>3. /\ now \in Nat /\ Window \in Nat /\ Len(mints) \in Nat /\ born \in 0 .. Len(mints)
      /\ Sessions = 1 .. Len(mints) /\ \A i \in Sessions : mints[i].at \in Nat
      /\ \A l \in logins : l.at \in Nat
    <2>1. /\ now \in Nat /\ born \in 0 .. Len(mints)
          /\ logins \subseteq [id : Sessions, at : 0 .. now]
        BY <1>2 DEF TypeOK
    <2>2. \A l \in logins : l.at \in Nat
        BY <2>1
    <2> QED  BY <1>2, <2>1, <2>2, SinceFacts, TimesAssumption
<1>4. SUFFICES ASSUME NEW i \in Sessions'
               PROVE  \/ i <= born'
                      \/ now' - mints'[i].at > Window
                      \/ pc' = "persist" /\ call'.id = i
                      \/ \E l \in logins' : l.id = i /\ mints'[i].at <= l.at
    BY <1>1 DEF LoginsAreCounted
<1>5. i \in Sessions =>
          /\ mints'[i] = mints[i]
          /\ \/ i <= born
             \/ now - mints[i].at > Window
             \/ pc = "persist" /\ call.id = i
             \/ \E l \in logins : l.id = i /\ mints[i].at <= l.at
    BY <1>2, History DEF StormInv, LoginsAreCounted
<1>6. CASE Mint
    <2>1. /\ pc = "mint" /\ pc' = "persist" /\ call'.id = Len(mints) + 1
          /\ UNCHANGED <<now, born, logins>> /\ Len(mints') = Len(mints) + 1
        <3>1. call \in [by : Callers, asked : Nat, id : Nat]
            BY <1>2 DEF TypeOK
        <3>2. Len(mints') = Len(mints) + 1
            BY <1>2, <1>6 DEF Mint, TypeOK
        <3> QED  BY <1>6, <3>1, <3>2 DEF Mint, MintsAreKept, procVars
    <2>2. i \in Sessions \/ i = Len(mints) + 1
        BY <1>2, <1>3, <2>1, History
    <2> QED  BY <1>5, <2>1, <2>2
<1>7. CASE ~Mint
    <2>1. UNCHANGED mints /\ i \in Sessions
        <3>1. UNCHANGED mints
            BY <1>7
            DEF Next, vars, histVars, procVars, SeedFloor, RestoreSession, Attempt,
                AttemptManual, MintFails, Persist, PersistFails, MarkFeedHealthy,
                ParkRotations, Restart, SecondClient, Tick
        <3> QED  BY <3>1 DEF Sessions
    <2>2. CASE Persist
        <3>1. /\ UNCHANGED <<now, born>>
              /\ logins' = logins \cup {[id |-> call.id, at |-> now]}
            BY <2>2 DEF Persist, histVars
        <3>2. mints[i].at <= now
            BY <1>2, <2>1 DEF InThePast
        <3>3. CASE i = call.id
            <4> DEFINE l == [id |-> call.id, at |-> now]
            <4>1. l \in logins' /\ l.id = i /\ mints'[i].at <= l.at
                BY <2>1, <3>1, <3>2, <3>3
            <4> QED  BY <4>1
        <3>4. CASE i # call.id
            BY <1>5, <2>1, <3>1, <3>4
        <3> QED  BY <3>3, <3>4
    <2>3. CASE Attempt
        <3>1. pc = "free" /\ UNCHANGED <<now, born>> /\ logins' = Recent
            BY <2>3 DEF Attempt, histVars
        <3>2. ASSUME NEW l \in logins, l.id = i, mints[i].at <= l.at
              PROVE  l \in Recent \/ now - mints[i].at > Window
            BY <1>3, <2>1, <3>2 DEF Recent
        <3> QED  BY <1>5, <2>1, <3>1, <3>2
    <2>4. CASE Restart
        BY <1>3, <2>1, <2>4 DEF Restart
    <2>5. CASE Tick
        <3>1. now' = now + 1 /\ UNCHANGED <<born, pc, call, logins>>
            BY <2>5 DEF Tick, procVars, histVars
        <3> QED  BY <1>3, <1>5, <2>1, <3>1
    <2>6. CASE UNCHANGED <<now, born, logins>> /\ (pc = "persist" => UNCHANGED <<pc, call>>)
        BY <1>5, <2>1, <2>6
    <2>7. CASE SeedFloor \/ RestoreSession \/ AttemptManual \/ MintFails \/ PersistFails
               \/ MarkFeedHealthy \/ ParkRotations \/ SecondClient \/ UNCHANGED vars
        BY <2>6, <2>7
        DEF MintsAreKept, SeedFloor, RestoreSession, AttemptManual, MintFails, PersistFails,
            MarkFeedHealthy, ParkRotations, SecondClient, vars, procVars, histVars
    <2> QED  BY <1>7, <2>2, <2>3, <2>4, <2>5, <2>7 DEF Next
<1> QED  BY <1>6, <1>7

LEMMA StepRoom ==
    ASSUME StormInv, [Next]_vars
    PROVE  RoomWasFound'
<1> SUFFICES ASSUME pc' = "mint", call'.by = "auto"
             PROVE  Cardinality({i \in Sessions : i > born /\ now - mints[i].at <= Window}')
                        < BurstMax
    BY DEF RoomWasFound
<1> DEFINE I == {i \in Sessions : i > born /\ now - mints[i].at <= Window}
<1>1. TypeOK /\ BootOrder
    BY DEF StormInv
<1>2. /\ now \in Nat /\ Window \in Nat /\ BurstMax \in Nat /\ IsFiniteSet(I)
      /\ \A i \in Sessions : mints[i].at \in Nat
    <2>1. Sessions = 1 .. Len(mints) /\ Len(mints) \in Nat
        BY <1>1, SinceFacts
    <2>2. IsFiniteSet(Sessions)
        BY <2>1, FS_Interval
    <2>3. IsFiniteSet(I)
        BY <2>2, FS_Subset
    <2> QED  BY <1>1, <2>3, SinceFacts, TimesAssumption, CountsAssumption DEF TypeOK
<1>3. CASE pc = "mint"
    <2>1. /\ UNCHANGED <<mints, call, born>>
          /\ now' = now \/ now' = now + 1
        BY <1>1, <1>3
        DEF BootOrder, Next, vars, histVars, procVars, SeedFloor, RestoreSession, Attempt,
            AttemptManual, Mint, MintFails, Persist, PersistFails, MarkFeedHealthy,
            ParkRotations, Restart, SecondClient, Tick
    <2>2. I' \subseteq I
        BY <1>2, <2>1 DEF Sessions
    <2>3. Cardinality(I') <= Cardinality(I) /\ Cardinality(I') \in Nat /\ Cardinality(I) \in Nat
        <3> HIDE DEF I
        <3> QED  BY <1>2, <2>2, FS_Subset, FS_CardinalityType
    <2>4. Cardinality(I) < BurstMax
        BY <1>3, <2>1 DEF StormInv, RoomWasFound
    <2> QED  BY <1>2, <2>3, <2>4
<1>4. CASE pc # "mint"
    <2>1. /\ pc = "free" /\ UNCHANGED <<mints, born, now>>
          /\ ~(Cardinality(Recent) >= BurstMax)
        <3>1. Attempt
            BY <1>4
            DEF Next, vars, histVars, procVars, SeedFloor, RestoreSession, Attempt,
                AttemptManual, Mint, MintFails, Persist, PersistFails, MarkFeedHealthy,
                ParkRotations, Restart, SecondClient, Tick
        <3> QED  BY <1>4, <3>1 DEF Attempt, histVars
    <2>2. I' = I
        BY <2>1 DEF Sessions
    <2>3. Cardinality(I) <= Cardinality(Recent)
        BY <1>1, <2>1, RecentBounds DEF StormInv
    <2>4. Cardinality(I) \in Nat /\ Cardinality(Recent) \in Nat
        <3>1. IsFiniteSet(Recent)
            BY FS_Subset DEF StormInv, Recent
        <3> HIDE DEF I
        <3> QED  BY <1>2, <3>1, FS_CardinalityType
    <2> HIDE DEF I
    <2>5. Cardinality(I') < BurstMax
        BY <1>2, <2>1, <2>2, <2>3, <2>4
    <2> QED  BY <2>5 DEF I
<1> QED  BY <1>3, <1>4

LEMMA StepRotations ==
    ASSUME StormInv, MintsAreKept, [Next]_vars
    PROVE  RotationsAreCounted'
<1>1. TypeOK /\ BootOrder /\ RotationsAreCounted
    BY DEF StormInv
<1>2. /\ Since \in 0 .. Len(mints) /\ Len(mints) \in Nat /\ StormLimit \in Nat
      /\ rotations \in Nat /\ circuit \in BOOLEAN
      /\ born \in 0 .. Len(mints) /\ quiet \in 0 .. Len(mints)
    BY <1>1, SinceFacts, CountsAssumption DEF TypeOK
<1>3. CASE UNCHANGED <<mints, born, quiet>>
    <2>1. Since' = Since /\ Len(mints') = Len(mints)
        BY <1>3 DEF Since
    <2>2. CASE Persist
        <3>1. /\ pc = "persist" /\ pc' = "free" /\ up' = up /\ up = "running"
              /\ rotations' = rotations + 1
              /\ circuit' = (circuit \/ rotations + 1 > StormLimit)
            BY <1>1, <2>2 DEF Persist, BootOrder
        <3>2. rotations + 1 >= Len(mints) - Since
            BY <1>1, <3>1 DEF RotationsAreCounted
        <3>3. rotations' + 0 >= Len(mints') - Since'
            BY <1>2, <2>1, <3>1, <3>2
        <3>4. rotations' > StormLimit => circuit'
            BY <3>1
        <3> QED  BY <3>1, <3>3, <3>4 DEF RotationsAreCounted
    <2>3. CASE SeedFloor
        BY <1>1, <1>2, <2>1, <2>3 DEF SeedFloor, RotationsAreCounted
    <2>4. CASE UNCHANGED rotations /\ (circuit => circuit')
               /\ (pc = "persist" => pc' = "persist")
               /\ (up' # "running" => up # "running")
        BY <1>1, <1>2, <2>1, <2>4 DEF RotationsAreCounted
    <2>5. CASE ~Persist /\ ~SeedFloor /\ ~MarkFeedHealthy /\ ~Restart
        <3>1. UNCHANGED rotations /\ (circuit => circuit')
            BY <1>1, <2>5
            DEF Next, vars, procVars, RestoreSession, Attempt, AttemptManual, Mint, MintFails,
                PersistFails, ParkRotations, SecondClient, Tick
        <3>2. pc = "persist" => pc' = "persist"
            BY <1>1, <2>5
            DEF BootOrder, MintsAreKept, Next, vars, RestoreSession, Attempt, AttemptManual,
                Mint, MintFails, PersistFails, ParkRotations, SecondClient, Tick
        <3>3. up' # "running" => up # "running"
            BY <1>1, <2>5
            DEF Next, vars, RestoreSession, Attempt, AttemptManual, Mint, MintFails,
                PersistFails, ParkRotations, SecondClient, Tick
        <3> QED  BY <2>4, <3>1, <3>2, <3>3
    <2>6. CASE MarkFeedHealthy \/ Restart
        <3>1. rotations' = 0 /\ quiet' = Len(mints) /\ circuit' = FALSE
            BY <2>6 DEF MarkFeedHealthy, Restart
        <3>2. Since' = Len(mints')
            BY <1>2, <1>3, <3>1 DEF Since
        <3> QED  BY <1>2, <2>1, <3>1, <3>2 DEF RotationsAreCounted
    <2> QED  BY <2>2, <2>3, <2>5, <2>6
<1>4. CASE Mint
    <2>1. /\ pc = "mint" /\ pc' = "persist" /\ UNCHANGED <<born, quiet, rotations, circuit, up>>
        BY <1>4 DEF Mint, MintsAreKept, procVars
    <2>2. Len(mints') = Len(mints) + 1 /\ Since' = Since
        BY <1>1, <1>4, <2>1 DEF Mint, TypeOK, Since
    <2> QED  BY <1>1, <1>2, <2>1, <2>2 DEF RotationsAreCounted
<1>5. CASE MarkFeedHealthy \/ Restart
    <2>1. /\ rotations' = 0 /\ quiet' = Len(mints) /\ mints' = mints
          /\ born' \in {born, Len(mints)}
        BY <1>5 DEF MarkFeedHealthy, Restart
    <2>2. Since' = Len(mints)
        BY <1>2, <2>1 DEF Since
    <2> QED  BY <1>2, <2>1, <2>2 DEF RotationsAreCounted
<1>6. CASE ~Mint /\ ~MarkFeedHealthy /\ ~Restart
    BY <1>3, <1>6
    DEF Next, vars, histVars, procVars, SeedFloor, RestoreSession, Attempt, AttemptManual,
        MintFails, Persist, PersistFails, ParkRotations, SecondClient, Tick
<1> QED  BY <1>4, <1>5, <1>6

LEMMA StepProbes ==
    ASSUME StormInv, MintsAreKept, TypeOK', [Next]_vars
    PROVE  ProbesAreStamped'
<1>1. /\ TypeOK /\ BootOrder /\ RotationsAreCounted /\ ProbesAreStamped
      /\ ProbesAreNumbered /\ ProbesAreNumbered'
    BY ProbeFacts, ProbeFactsThen DEF StormInv
<1>2. /\ Since \in 0 .. Len(mints) /\ Len(mints) \in Nat /\ StormLimit \in Nat
      /\ born \in 0 .. Len(mints) /\ quiet \in 0 .. Len(mints) /\ now \in Nat
      /\ probe \in Nat \cup {Never} /\ probe <= now /\ Probe \in Nat
      /\ call \in [by : Callers, asked : Nat, id : Nat]
      /\ \A i \in Sessions : mints[i].asked \in Nat
      /\ Sessions = 1 .. Len(mints)
    BY <1>1, SinceFacts, CountsAssumption, TimesAssumption DEF TypeOK, Times
<1>3. Probes \subseteq Sessions
    BY DEF Probes, Unproductive
<1>4. CASE Mint
    <2>1. /\ pc = "mint" /\ pc' = "persist" /\ UNCHANGED <<born, quiet, probe>>
          /\ mints' = Append(mints, [by |-> call.by, asked |-> call.asked, at |-> now])
        BY <1>4 DEF Mint, MintsAreKept, procVars
    <2>2. /\ Len(mints') = Len(mints) + 1 /\ Since' = Since
          /\ \A i \in 1 .. Len(mints) : mints'[i] = mints[i]
          /\ mints'[Len(mints) + 1].by = call.by
          /\ mints'[Len(mints) + 1].asked = call.asked
        BY <1>1, <2>1 DEF TypeOK, Since
    <2>3. ASSUME NEW i \in Probes'
          PROVE  probe' # Never /\ mints'[i].asked <= probe'
        <3>1. /\ i \in Int /\ Since + 1 <= i /\ i <= Len(mints) + 1
              /\ mints'[i].by = "auto" /\ i - 1 - Since > StormLimit
            BY <1>1, <2>2 DEF ProbesAreNumbered
        <3>2. CASE i = Len(mints) + 1
            <4>1. call.by = "auto" /\ Len(mints) - Since > StormLimit
                BY <1>2, <2>2, <3>1, <3>2
            <4>2. probe = call.asked
                BY <1>1, <2>1, <4>1 DEF ProbesAreStamped
            <4> QED  BY <1>2, <2>1, <2>2, <3>2, <4>2 DEF Never
        <3>3. CASE i # Len(mints) + 1
            <4>1. i \in 1 .. Len(mints) /\ mints'[i] = mints[i]
                BY <1>2, <2>2, <3>1, <3>3
            <4>2. i \in Probes
                BY <1>1, <1>2, <3>1, <4>1 DEF ProbesAreNumbered
            <4> QED  BY <1>1, <2>1, <4>1, <4>2 DEF ProbesAreStamped
        <3> QED  BY <3>2, <3>3
    <2> QED  BY <2>1, <2>3 DEF ProbesAreStamped
<1>5. CASE MarkFeedHealthy \/ Restart
    <2>1. /\ quiet' = Len(mints) /\ mints' = mints
          /\ born' \in {born, Len(mints)}
        BY <1>5 DEF MarkFeedHealthy, Restart
    <2>2. Since' = Len(mints)
        BY <1>2, <2>1 DEF Since
    <2>3. Probes' = {}
        BY <1>1, <1>2, <2>1, <2>2 DEF ProbesAreNumbered
    <2> QED  BY <1>2, <2>1, <2>2, <2>3 DEF ProbesAreStamped
<1>6. CASE UNCHANGED <<mints, born, quiet>>
    <2>1. Sessions' = Sessions /\ Since' = Since /\ Probes' = Probes
        BY <1>6 DEF Sessions, Since, Probes, Unproductive
    <2>2. CASE UNCHANGED probe /\ (pc' # "mint" \/ UNCHANGED <<pc, call>> \/ call'.by = "manual")
        BY <1>1, <1>6, <2>1, <2>2 DEF ProbesAreStamped
    <2>3. CASE Attempt
        <3>1. /\ pc = "free" /\ (circuit => ProbeDue) /\ UNCHANGED now
              /\ probe' = IF circuit THEN now ELSE probe
              /\ pc' = "mint" => call'.asked = now
            BY <2>3 DEF Attempt
        <3>2. \A i \in Probes : probe' # Never /\ mints[i].asked <= probe'
            BY <1>1, <1>2, <1>3, <3>1 DEF ProbesAreStamped, Never
        <3>3. ASSUME pc' = "mint", Len(mints) - Since > StormLimit
              PROVE  /\ probe' = call'.asked
                     /\ \A i \in Probes : call'.asked - mints[i].asked >= Probe
            <4>1. circuit
                BY <1>1, <1>2, <3>1, <3>3 DEF RotationsAreCounted, TypeOK
            <4>2. probe' = now /\ call'.asked = now
                BY <3>1, <3>3, <4>1
            <4>3. ASSUME NEW i \in Probes
                  PROVE  now - mints[i].asked >= Probe
                <5>1. probe # Never /\ mints[i].asked <= probe /\ mints[i].asked \in Nat
                    BY <1>1, <1>2, <1>3 DEF ProbesAreStamped
                <5>2. now - probe >= Probe
                    BY <3>1, <4>1, <5>1 DEF ProbeDue
                <5> QED  BY <1>2, <5>1, <5>2
            <4> QED  BY <4>2, <4>3
        <3> QED  BY <1>6, <2>1, <3>2, <3>3 DEF ProbesAreStamped
    <2>4. CASE ~Attempt /\ ~Mint /\ ~MarkFeedHealthy /\ ~Restart
        BY <1>1, <2>2, <2>4
        DEF BootOrder, Next, vars, procVars, SeedFloor, RestoreSession, AttemptManual,
            MintFails, Persist, PersistFails, ParkRotations, SecondClient, Tick
    <2> QED  BY <1>4, <1>5, <2>3, <2>4
<1>7. CASE ~Mint /\ ~MarkFeedHealthy /\ ~Restart
    BY <1>6, <1>7
    DEF Next, vars, histVars, procVars, SeedFloor, RestoreSession, Attempt, AttemptManual,
        MintFails, Persist, PersistFails, ParkRotations, SecondClient, Tick
<1> QED  BY <1>4, <1>5, <1>7

LEMMA StormStep == MintsAreKept /\ StormInv /\ [Next]_vars => StormInv'
<1> SUFFICES ASSUME MintsAreKept, StormInv, [Next]_vars
             PROVE  StormInv'
    OBVIOUS
<1>1. TypeOK' /\ BootOrder' /\ InThePast'
    BY StepTypes, StepBootOrder, StepPast DEF StormInv
<1> QED  BY <1>1, StepLogins, StepRoom, StepRotations, StepProbes DEF StormInv

LEMMA StormStart == Init => StormInv
<1> SUFFICES ASSUME Init
             PROVE  StormInv
    OBVIOUS
<1>1. TypeOK /\ BootOrder /\ InThePast
    BY InitIInv DEF IInv
<1>2. /\ logins = {} /\ mints = <<>> /\ Sessions = {} /\ pc = "free" /\ rotations = 0
      /\ born = 0 /\ quiet = 0 /\ Len(mints) = 0
    BY DEF Init, Fresh, Sessions
<1>3. IsFiniteSet(logins) /\ LoginsAreCounted /\ RoomWasFound
    BY <1>2, FS_EmptySet DEF LoginsAreCounted, RoomWasFound
<1>4. RotationsAreCounted
    BY <1>2, CountsAssumption DEF RotationsAreCounted, Since
<1>5. ProbesAreStamped
    BY <1>2 DEF ProbesAreStamped, Probes, Unproductive
<1> QED  BY <1>1, <1>3, <1>4, <1>5 DEF StormInv

LEMMA StormHolds ==
    ASSUME MintsAreKept
    PROVE  Spec => []StormInv
<1>1. Init => StormInv
    BY StormStart
<1>2. StormInv /\ [Next]_vars => StormInv'
    BY StormStep
<1> QED  BY <1>1, <1>2, PTL DEF Spec

\* _login_times: as long as every session minted is also kept, a process mints fewer than
\* the budget's number in any window before a login that is not manual, whoever calls and
\* however long a login waits for its answer.
THEOREM BurstAlwaysHolds ==
    ASSUME MintsAreKept
    PROVE  Spec => BurstHolds
<1>1. StormInv =>
          [AutoMint =>
              Cardinality({i \in Sessions : i > born /\ now - mints[i].at <= Window})
                  < BurstMax]_vars
    BY DEF StormInv, RoomWasFound, AutoMint, Mint
<1> QED  BY <1>1, StormHolds, PTL DEF BurstHolds

\* _rotations_since_healthy and the circuit: under the same condition, the automatic logins
\* of a storm are asked for at least a probe interval apart.
THEOREM StormIsAlwaysParked ==
    ASSUME MintsAreKept
    PROVE  Spec => StormIsParked
<1>1. StormInv =>
          [AutoMint /\ Cardinality(Unproductive) > StormLimit =>
              \A i \in Probes : call.asked - mints[i].asked >= Probe]_vars
    BY SinceFacts DEF StormInv, ProbesAreStamped, AutoMint, Mint
<1> QED  BY <1>1, StormHolds, PTL DEF StormIsParked

-----------------------------------------------------------------------------
(* TickStore                                                               *)

\* A bucket lasts at least a second (PERSIST_BUCKET is parsed by _bucket_size,
\* aggregator.py:32-43); the bounds count something.
Sized ==
    /\ BucketLen \in Nat \ {0} /\ TickTime \in Nat
    /\ QMax \in Nat /\ MaxFaults \in Nat

\* No open bucket is older than the last one written: what _absorb refuses as late.
OpenIsLater == \A b \in Ticks!Held(open) : b >= flushed

\* A flush under way has something to write.
FlushHasRows == agg.at \in {"flush", "final"} => Ticks!Batch # {}

\* An open bucket that holds a tick of the socket holds the newest.
OpenIsNewest == \A b \in Ticks!Buckets : open[b].origin = "ws" => heard[b] = open[b].ts

\* The last flush is where the publication stands: next in the slot, with the worker
\* or sent.
HubIsCurrent ==
    flushed = IF hub.pending # Ticks!Nothing THEN hub.pending
              ELSE IF hub.item # Ticks!Nothing THEN hub.item ELSE hub.sent

TickInv ==
    /\ Ticks!TypeOK
    /\ OpenIsLater /\ FlushHasRows /\ OpenIsNewest
    /\ HubIsCurrent /\ Ticks!NothingLost

-----------------------------------------------------------------------------
(* The largest element of a bounded set.                                    *)

LEMMA NatMin ==
    ASSUME NEW T, T \subseteq Nat, T # {}
    PROVE  \E d \in T : \A e \in T : d <= e
  <1> DEFINE R == {p \in Nat \X Nat : p[1] < p[2]}
  <1>1. OpToRel(<, Nat) = R
    BY Zenon DEF OpToRel
  <1>2. IsWellFoundedOn(R, Nat)
    BY <1>1, NatLessThanWellFounded, Zenon
  <1>3. PICK d \in T : \A e \in T : ~(<<e, d>> \in R)
    <2> HIDE DEF R
    <2> QED BY <1>2, WFMin, Zenon
  <1>4. \A e \in T : d <= e
    <2> TAKE e \in T
    <2>1. <<e, d>> \in Nat \X Nat /\ <<e, d>>[1] = e /\ <<e, d>>[2] = d
      OBVIOUS
    <2>2. ~(e < d)
      BY <2>1, <1>3
    <2> QED BY <2>2
  <1> QED
    BY <1>4

LEMMA MaxExists ==
    ASSUME NEW lo \in Int, NEW hi \in Int, NEW S, S \subseteq lo .. hi, S # {}
    PROVE  Ticks!Max(S) \in S /\ \A x \in S : x <= Ticks!Max(S)
  <1> DEFINE T == {hi - x : x \in S}
  <1>1. T \subseteq Nat /\ T # {}
    OBVIOUS
  <1>2. PICK d \in T : \A e \in T : d <= e
    <2> HIDE DEF T
    <2> QED BY <1>1, NatMin
  <1>3. PICK m \in S : d = hi - m
    OBVIOUS
  <1>4. \A x \in S : m >= x
    <2> TAKE x \in S
    <2>1. hi - x \in T
      OBVIOUS
    <2>2. d <= hi - x
      BY <2>1, <1>2
    <2> QED BY <2>2, <1>3
  <1> QED
    BY <1>4 DEF Ticks!Max

-----------------------------------------------------------------------------
(* Seconds and buckets.                                                     *)

LEMMA DivFacts ==
    ASSUME NEW L \in Nat \ {0}, NEW a \in Nat, NEW c \in Nat, a <= c
    PROVE  a \div L \in Nat /\ a \div L <= c \div L /\ (a \div L) * L <= a
  OBVIOUS

LEMMA BucketFacts ==
    ASSUME Sized
    PROVE  /\ Ticks!BucketOf(TickTime) \in Nat
           /\ Ticks!Buckets \subseteq Nat
           /\ \A t \in Ticks!Times : /\ Ticks!BucketOf(t) \in Ticks!Buckets
                               /\ Ticks!BucketOf(t) * BucketLen \in Ticks!Times
                               /\ Ticks!BucketOf(t) * BucketLen <= t
  <1> USE DEF Sized
  <1>1. Ticks!BucketOf(TickTime) \in Nat /\ Ticks!Buckets \subseteq Nat
    BY DivFacts DEF Ticks!BucketOf, Ticks!Buckets
  <1>2. ASSUME NEW t \in Ticks!Times
        PROVE  /\ Ticks!BucketOf(t) \in Ticks!Buckets
               /\ Ticks!BucketOf(t) * BucketLen \in Ticks!Times
               /\ Ticks!BucketOf(t) * BucketLen <= t
    <2>1. t \in Nat /\ t <= TickTime
      BY DEF Ticks!Times
    <2>2. /\ t \div BucketLen \in Nat
          /\ t \div BucketLen <= TickTime \div BucketLen
          /\ (t \div BucketLen) * BucketLen <= t
      BY <2>1, DivFacts
    <2>3. (t \div BucketLen) * BucketLen \in Nat
      BY <2>2
    <2> QED
      BY <2>1, <2>2, <2>3 DEF Ticks!BucketOf, Ticks!Buckets, Ticks!Times
  <1> QED
    BY <1>1, <1>2

\* A closed bucket comes before one that is not.
LEMMA ClosedFirst ==
    ASSUME NEW L \in Nat \ {0}, NEW k \in Nat, NEW a \in Nat, NEW c \in Nat,
           (a + 1) * L <= k, ~((c + 1) * L <= k)
    PROVE  a < c
  OBVIOUS

-----------------------------------------------------------------------------
(* What _absorb does to each bucket.                                        *)

OpenType  == [Ticks!Buckets -> Ticks!Ticks \cup {Ticks!NoTick}]
HeardType == [Ticks!Buckets -> Ticks!Times \cup {Ticks!Nothing}]
Store     == [open |-> open, heard |-> heard]

\* A bucket is dropped by the cap, left as it is, or taken by the tick.
Dropped(o, h, c) == o[c] = Ticks!NoTick /\ h[c] = Ticks!Nothing
Unmoved(o, h, c) == o[c] = open[c] /\ h[c] = heard[c]
Taken(o, h, c, tick) ==
    /\ c = Ticks!BucketOf(tick.ts) /\ c >= flushed
    /\ Ticks!Wins(tick, open[c])
    /\ o[c] = tick
    /\ h[c] = IF tick.origin = "ws" THEN tick.ts ELSE heard[c]

Absorbs(o, h, tick) ==
    \A c \in Ticks!Buckets : Dropped(o, h, c) \/ Unmoved(o, h, c) \/ Taken(o, h, c, tick)

LEMMA TickFacts ==
    ASSUME Sized, NEW tick \in Ticks!Ticks
    PROVE  /\ tick.ts \in Ticks!Times /\ tick.origin \in {"ws", "poller"} /\ tick.px \in BOOLEAN
           /\ tick # Ticks!NoTick /\ Ticks!NoTick.origin = "none" /\ Ticks!NoTick.ts = Ticks!Nothing
           /\ Ticks!BucketOf(tick.ts) \in Ticks!Buckets
  <1>1. tick.ts \in Ticks!Times /\ tick.origin \in {"ws", "poller"} /\ tick.px \in BOOLEAN
    BY DEF Ticks!Ticks
  <1>2. Ticks!NoTick.origin = "none" /\ Ticks!NoTick.ts = Ticks!Nothing
    BY DEF Ticks!NoTick
  <1> QED
    BY <1>1, <1>2, BucketFacts

LEMMA NoTickIsNone == Ticks!NoTick.origin = "none" /\ Ticks!NoTick.ts = Ticks!Nothing
  BY DEF Ticks!NoTick

LEMMA AbsorbedFacts ==
    ASSUME Sized, Ticks!TypeOK, NEW tick \in Ticks!Ticks, NEW s, s = Ticks!Absorbed(Store, tick)
    PROVE  /\ s.open \in OpenType /\ s.heard \in HeardType
           /\ Absorbs(s.open, s.heard, tick)
  <1> DEFINE b == Ticks!BucketOf(tick.ts)
             taken == ~Ticks!Late(tick) /\ Ticks!Wins(tick, open[b])
             put == IF taken THEN [open EXCEPT ![b] = tick] ELSE open
             new == IF taken /\ tick.origin = "ws" THEN [heard EXCEPT ![b] = tick.ts] ELSE heard
             gone == Ticks!Trimmed(put)
  <1>1. /\ s.open = [c \in Ticks!Buckets |-> IF c \in gone THEN Ticks!NoTick ELSE put[c]]
        /\ s.heard = [c \in Ticks!Buckets |-> IF c \in gone THEN Ticks!Nothing ELSE new[c]]
    BY DEF Ticks!Absorbed, Store
  <1>2. b \in Ticks!Buckets /\ tick.ts \in Ticks!Times
    BY TickFacts
  <1>3. open \in OpenType /\ heard \in HeardType
    BY DEF Ticks!TypeOK, OpenType, HeardType
  <1>4. put \in OpenType /\ new \in HeardType
    BY <1>2, <1>3 DEF OpenType, HeardType
  <1>5. \A c \in Ticks!Buckets :
          \/ put[c] = open[c] /\ new[c] = heard[c]
          \/ Taken(put, new, c, tick)
    <2> TAKE c \in Ticks!Buckets
    <2>1. CASE ~taken
      BY <2>1
    <2>2. CASE taken /\ c # b
      BY <2>2, <1>2, <1>3 DEF OpenType, HeardType
    <2>3. CASE taken /\ c = b
      <3>1. put[c] = tick
        BY <2>3, <1>2, <1>3 DEF OpenType
      <3>2. new[c] = IF tick.origin = "ws" THEN tick.ts ELSE heard[c]
        BY <2>3, <1>2, <1>3 DEF HeardType
      <3>3. c >= flushed
        <4>1. flushed \in Int /\ c \in Int /\ ~(c < flushed)
          BY <2>3, BucketFacts DEF Ticks!Late, Ticks!TypeOK, Ticks!Nothing
        <4> QED BY <4>1
      <3> QED
        BY <2>3, <3>1, <3>2, <3>3 DEF Taken
    <2> QED
      BY <2>1, <2>2, <2>3
  <1> HIDE DEF put, new, gone
  <1>6. s.open \in OpenType /\ s.heard \in HeardType
    BY <1>1, <1>4 DEF OpenType, HeardType
  <1>7. Absorbs(s.open, s.heard, tick)
    <2> SUFFICES ASSUME NEW c \in Ticks!Buckets
                 PROVE  \/ Dropped(s.open, s.heard, c) \/ Unmoved(s.open, s.heard, c)
                        \/ Taken(s.open, s.heard, c, tick)
      BY DEF Absorbs
    <2>1. CASE c \in gone
      BY <2>1, <1>1 DEF Dropped
    <2>2. CASE c \notin gone
      <3>1. s.open[c] = put[c] /\ s.heard[c] = new[c]
        BY <2>2, <1>1
      <3> QED
        BY <3>1, <1>5 DEF Unmoved, Taken
    <2> QED BY <2>1, <2>2
  <1> QED
    BY <1>6, <1>7

-----------------------------------------------------------------------------
(* What an absorbed tick keeps of the invariant.                            *)

LEMMA AbsorbKeeps ==
    ASSUME Sized, TickInv, NEW tick \in Ticks!Ticks, Absorbs(open', heard', tick),
           open' \in OpenType, heard' \in HeardType, UNCHANGED <<flushed, stored>>
    PROVE  OpenIsLater' /\ OpenIsNewest' /\ Ticks!NothingLost'
  <1> USE DEF TickInv
  <1>1. \A c \in Ticks!Buckets : \/ Dropped(open', heard', c) \/ Unmoved(open', heard', c)
                           \/ Taken(open', heard', c, tick)
    BY DEF Absorbs
  <1>2. OpenIsLater'
    BY <1>1, TickFacts DEF OpenIsLater, Ticks!Held, Dropped, Unmoved, Taken
  <1>3. OpenIsNewest'
    BY <1>1, TickFacts DEF OpenIsNewest, Dropped, Unmoved, Taken
  <1>4. Ticks!NothingLost'
    <2> SUFFICES ASSUME NEW c \in Ticks!Buckets, heard'[c] # Ticks!Nothing
                 PROVE  \/ open'[c].origin = "ws" /\ open'[c].ts = heard'[c]
                        \/ stored[c].ts >= heard'[c] \/ stored[c].origin = "poller"
      BY DEF Ticks!NothingLost
    <2>1. CASE Unmoved(open', heard', c)
      BY <2>1 DEF Unmoved, Ticks!NothingLost
    <2>2. CASE Taken(open', heard', c, tick) /\ tick.origin = "ws"
      BY <2>2 DEF Taken
    <2>3. CASE Taken(open', heard', c, tick) /\ tick.origin # "ws"
      BY <2>3 DEF Taken, Ticks!Wins, Ticks!NothingLost
    <2> QED
      BY <1>1, <2>1, <2>2, <2>3, TickFacts DEF Dropped
  <1> QED
    BY <1>2, <1>3, <1>4

-----------------------------------------------------------------------------
(* The queue.                                                               *)

LEMMA PutType ==
    ASSUME Sized, Ticks!TypeOK, NEW tick \in Ticks!Ticks, Ticks!Put(tick)
    PROVE  queue' \in Seq(Ticks!Ticks) /\ Len(queue') <= QMax
  <1>1. queue \in Seq(Ticks!Ticks) /\ Len(queue) \in Nat /\ Len(queue) <= QMax /\ QMax \in Nat
    BY DEF Ticks!TypeOK, Sized
  <1>2. CASE Len(queue) < QMax
    <2>1. queue' = Append(queue, tick)
      BY <1>2 DEF Ticks!Put
    <2> QED
      BY <1>1, <1>2, <2>1, AppendProperties
  <1>3. CASE ~(Len(queue) < QMax)
    BY <1>1, <1>3 DEF Ticks!Put
  <1> QED
    BY <1>2, <1>3

LEMMA BarsAreTimes ==
    ASSUME Sized, Ticks!TypeOK
    PROVE  Ticks!Bars \subseteq Ticks!Times /\ now \in Ticks!Times
  <1>1. /\ now \in Ticks!Times /\ now \in Nat
        /\ Ticks!BucketOf(now) \in Nat /\ Ticks!BucketOf(now) * BucketLen \in Ticks!Times
    BY BucketFacts DEF Ticks!TypeOK, Ticks!Times
  <1>2. /\ (Ticks!BucketOf(now) - 1) * BucketLen <= Ticks!BucketOf(now) * BucketLen
        /\ (Ticks!BucketOf(now) - 1) * BucketLen \in Int
    BY <1>1 DEF Sized
  <1> QED
    BY <1>1, <1>2 DEF Ticks!Bars, Ticks!Times, Sized

LEMMA TailType ==
    ASSUME Ticks!TypeOK, QMax \in Nat, queue # <<>>
    PROVE  Head(queue) \in Ticks!Ticks /\ Tail(queue) \in Seq(Ticks!Ticks) /\ Len(Tail(queue)) <= QMax
  BY HeadTailProperties DEF Ticks!TypeOK

-----------------------------------------------------------------------------
(* The steps that leave the store as it is.                                 *)

LEMMA ProducersStep ==
    ASSUME Sized, TickInv,
           \/ Ticks!Clock
           \/ Ticks!Emit
           \/ Ticks!SweepStarts
           \/ Ticks!SweepFails
           \/ Ticks!SweepAnswers
           \/ Ticks!SegmentSweep
           \/ Ticks!Stop
    PROVE  TickInv'
  <1> USE DEF TickInv
  <1>1. UNCHANGED <<agg, open, flushed, stored, hub, heard>>
    BY DEF Ticks!Clock, Ticks!Emit, Ticks!SweepStarts, Ticks!SweepFails, Ticks!SweepAnswers,
       Ticks!SegmentSweep, Ticks!Stop
  <1>2. now' \in Ticks!Times
    BY DEF Ticks!TypeOK, Ticks!Times, Sized, Ticks!Clock, Ticks!Emit, Ticks!SweepStarts,
       Ticks!SweepFails, Ticks!SweepAnswers, Ticks!SegmentSweep, Ticks!Stop
  <1>3. sweep' \in BOOLEAN /\ stopping' \in BOOLEAN
    BY DEF Ticks!TypeOK, Ticks!Clock, Ticks!Emit, Ticks!SweepStarts, Ticks!SweepFails,
       Ticks!SweepAnswers, Ticks!SegmentSweep, Ticks!Stop
  <1>4. faults' \in 0 .. MaxFaults
    BY DEF Ticks!TypeOK, Ticks!Strikes, Sized, Ticks!Clock, Ticks!Emit, Ticks!SweepStarts,
       Ticks!SweepFails, Ticks!SweepAnswers, Ticks!SegmentSweep, Ticks!Stop
  <1>5. queue' \in Seq(Ticks!Ticks) /\ Len(queue') <= QMax
    <2>1. CASE Ticks!Clock \/ Ticks!SweepStarts \/ Ticks!SweepFails \/ Ticks!Stop
      BY <2>1 DEF Ticks!TypeOK, Ticks!Clock, Ticks!SweepStarts, Ticks!SweepFails, Ticks!Stop
    <2>2. CASE Ticks!Emit
      <3>1. PICK px \in BOOLEAN : Ticks!Put([origin |-> "ws", ts |-> now, px |-> px])
        BY <2>2 DEF Ticks!Emit
      <3>2. [origin |-> "ws", ts |-> now, px |-> px] \in Ticks!Ticks
        BY BarsAreTimes DEF Ticks!Ticks
      <3> QED
        BY <3>1, <3>2, PutType
    <2>3. CASE Ticks!SweepAnswers
      <3>1. PICK px \in BOOLEAN, ts \in Ticks!XtsStamps \cup Ticks!TdStamps :
               Ticks!Put([origin |-> "poller", ts |-> ts, px |-> px])
        BY <2>3 DEF Ticks!SweepAnswers
      <3>2. [origin |-> "poller", ts |-> ts, px |-> px] \in Ticks!Ticks
        BY BarsAreTimes DEF Ticks!Ticks, Ticks!XtsStamps, Ticks!TdStamps
      <3> QED
        BY <3>1, <3>2, PutType
    <2>4. CASE Ticks!SegmentSweep
      <3> DEFINE ts == (Ticks!BucketOf(now) - 1) * BucketLen
                 tick == [origin |-> "poller", ts |-> ts, px |-> TRUE]
      <3>1. Ticks!BucketOf(now) > 0 /\ Ticks!Put(tick)
        BY <2>4 DEF Ticks!SegmentSweep
      <3>2. (Ticks!BucketOf(now) - 1) * BucketLen >= 0
        BY <3>1, BucketFacts, BarsAreTimes DEF Sized
      <3>3. tick \in Ticks!Ticks
        BY <3>2, BarsAreTimes DEF Ticks!Ticks, Ticks!Bars
      <3> QED
        BY <3>1, <3>3, PutType
    <2> QED
      BY <2>1, <2>2, <2>3, <2>4
  <1>6. Ticks!TypeOK'
    BY <1>1, <1>2, <1>3, <1>4, <1>5 DEF Ticks!TypeOK
  <1>7. /\ OpenIsLater' /\ FlushHasRows' /\ OpenIsNewest'
        /\ HubIsCurrent' /\ Ticks!NothingLost'
    BY <1>1
    DEF OpenIsLater, FlushHasRows, OpenIsNewest, HubIsCurrent, Ticks!NothingLost, Ticks!Batch,
        Ticks!Closed, Ticks!Held
  <1> QED
    BY <1>6, <1>7

\* The worker moves the newest flush along; it drops none, for the slot is empty when
\* nothing newer came.
LEMMA PublicationStep ==
    ASSUME Sized, TickInv, Ticks!Take \/ Ticks!Publish
    PROVE  TickInv'
  <1> USE DEF TickInv
  <1>1. UNCHANGED <<now, sweep, queue, agg, open, flushed, stored, stopping, faults, heard>>
    BY DEF Ticks!Take, Ticks!Publish
  <1>2. Ticks!TypeOK'
    BY <1>1 DEF Ticks!TypeOK, Ticks!Take, Ticks!Publish
  <1>3. HubIsCurrent'
    BY <1>1 DEF Ticks!TypeOK, HubIsCurrent, Ticks!Take, Ticks!Publish
  <1>4. OpenIsLater' /\ FlushHasRows' /\ OpenIsNewest' /\ Ticks!NothingLost'
    BY <1>1
    DEF OpenIsLater, FlushHasRows, OpenIsNewest, Ticks!NothingLost, Ticks!Batch, Ticks!Closed,
        Ticks!Held
  <1> QED
    BY <1>2, <1>3, <1>4

-----------------------------------------------------------------------------
(* The aggregator's steps.                                                  *)

LEMMA CutoffType ==
    ASSUME Sized, Ticks!TypeOK
    PROVE  Ticks!BucketOf(now) * BucketLen \in 0 .. TickTime + 1 /\ now + 1 \in 0 .. TickTime + 1
  <1>1. now \in Ticks!Times /\ TickTime \in Nat
    BY DEF Ticks!TypeOK, Sized
  <1>2. Ticks!BucketOf(now) * BucketLen \in Ticks!Times
    BY <1>1, BucketFacts
  <1> QED
    BY <1>1, <1>2 DEF Ticks!Times

LEMMA TurnStep ==
    ASSUME Sized, TickInv, Ticks!Turn
    PROVE  TickInv'
  <1> USE DEF TickInv
  <1> DEFINE s == IF queue = <<>> THEN Store ELSE Ticks!Absorbed(Store, Head(queue))
             cutoff == Ticks!BucketOf(now) * BucketLen
             flush == cutoff # agg.cutoff /\ Ticks!Closed(s.open, cutoff) # {}
  <1>1. /\ queue' = IF queue = <<>> THEN queue ELSE Tail(queue)
        /\ open' = s.open /\ heard' = s.heard
        /\ agg' = [at |-> IF flush THEN "flush" ELSE "loop", cutoff |-> cutoff]
        /\ UNCHANGED <<now, sweep, flushed, stored, hub, stopping, faults>>
    BY DEF Ticks!Turn, Store
  <1>2. /\ open' \in OpenType /\ heard' \in HeardType
        /\ OpenIsLater' /\ OpenIsNewest' /\ Ticks!NothingLost'
    <2>1. CASE queue = <<>>
      <3>1. open' = open /\ heard' = heard
        BY <2>1, <1>1 DEF Store
      <3> QED
        BY <3>1, <1>1
        DEF Ticks!TypeOK, OpenType, HeardType, OpenIsLater, OpenIsNewest, Ticks!NothingLost,
            Ticks!Held
    <2>2. CASE queue # <<>>
      <3>1. Head(queue) \in Ticks!Ticks
        BY <2>2, TailType DEF Sized
      <3>2. s = Ticks!Absorbed(Store, Head(queue))
        BY <2>2
      <3> HIDE DEF s
      <3>3. /\ s.open \in OpenType /\ s.heard \in HeardType
            /\ Absorbs(s.open, s.heard, Head(queue))
        BY <3>1, <3>2, AbsorbedFacts
      <3> QED
        BY <1>1, <3>1, <3>3, AbsorbKeeps
    <2> QED BY <2>1, <2>2
  <1>3. queue' \in Seq(Ticks!Ticks) /\ Len(queue') <= QMax
    BY <1>1, TailType DEF Ticks!TypeOK, Sized
  <1>4. agg' \in [at : {"loop", "flush", "drain", "final", "done"}, cutoff : 0 .. TickTime + 1]
    <2> HIDE DEF flush
    <2> QED BY <1>1, CutoffType
  <1>5. Ticks!TypeOK'
    BY <1>1, <1>2, <1>3, <1>4 DEF Ticks!TypeOK, OpenType, HeardType
  <1>6. FlushHasRows'
    <2> HIDE DEF s, cutoff
    <2>1. agg'.at = "flush" => Ticks!Closed(s.open, cutoff) # {}
      BY <1>1
    <2>2. agg'.at # "final" /\ agg'.cutoff = cutoff
      BY <1>1
    <2> QED
      BY <1>1, <2>1, <2>2 DEF FlushHasRows, Ticks!Batch, Ticks!Closed, Ticks!Held
  <1>7. HubIsCurrent'
    BY <1>1 DEF HubIsCurrent
  <1> QED
    BY <1>2, <1>5, <1>6, <1>7

LEMMA DrainStep ==
    ASSUME Sized, TickInv, Ticks!Drain
    PROVE  TickInv'
  <1> USE DEF TickInv
  <1>1. PICK s : /\ s = Ticks!Absorbed(Store, Head(queue))
                 /\ open' = s.open /\ heard' = s.heard
    BY DEF Ticks!Drain, Store
  <1>2. /\ queue # <<>> /\ queue' = Tail(queue)
        /\ agg' = [agg EXCEPT !.at = "drain"]
        /\ UNCHANGED <<now, sweep, flushed, stored, hub, stopping, faults>>
    BY DEF Ticks!Drain
  <1>3. Head(queue) \in Ticks!Ticks /\ queue' \in Seq(Ticks!Ticks) /\ Len(queue') <= QMax
    BY <1>2, TailType DEF Sized
  <1>4. /\ open' \in OpenType /\ heard' \in HeardType
        /\ Absorbs(open', heard', Head(queue))
    BY <1>1, <1>3, AbsorbedFacts
  <1>5. OpenIsLater' /\ OpenIsNewest' /\ Ticks!NothingLost'
    BY <1>2, <1>3, <1>4, AbsorbKeeps
  <1>6. Ticks!TypeOK'
    BY <1>2, <1>3, <1>4 DEF Ticks!TypeOK, OpenType, HeardType
  <1>7. FlushHasRows' /\ HubIsCurrent'
    BY <1>2 DEF FlushHasRows, HubIsCurrent, Ticks!TypeOK
  <1> QED
    BY <1>5, <1>6, <1>7

LEMMA FinalFlushStep ==
    ASSUME Sized, TickInv, Ticks!FinalFlush
    PROVE  TickInv'
  <1> USE DEF TickInv
  <1>1. UNCHANGED <<now, sweep, queue, open, flushed, stored, hub, stopping, faults, heard>>
    BY DEF Ticks!FinalFlush
  <1>2. agg' = [at |-> IF Ticks!Closed(open, now + 1) = {} THEN "done" ELSE "final",
                cutoff |-> now + 1]
    BY DEF Ticks!FinalFlush
  <1>3. Ticks!TypeOK'
    BY <1>1, <1>2, CutoffType DEF Ticks!TypeOK
  <1>4. FlushHasRows'
    <2>1. agg'.at # "flush" /\ agg'.cutoff = now + 1
      BY <1>2
    <2>2. agg'.at = "final" => Ticks!Closed(open, now + 1) # {}
      BY <1>2
    <2> QED
      BY <1>1, <2>1, <2>2 DEF FlushHasRows, Ticks!Batch, Ticks!Closed, Ticks!Held
  <1>5. OpenIsLater' /\ OpenIsNewest' /\ HubIsCurrent' /\ Ticks!NothingLost'
    BY <1>1 DEF OpenIsLater, OpenIsNewest, HubIsCurrent, Ticks!NothingLost, Ticks!Held
  <1> QED
    BY <1>3, <1>4, <1>5

\* The newest bucket of a batch is the last one flushed: none of the batch is older than
\* the flush before.
LEMMA BatchIsNewer ==
    ASSUME Sized, Ticks!TypeOK, OpenIsLater, Ticks!Batch # {}
    PROVE  /\ Ticks!Batch \subseteq Ticks!Buckets /\ Ticks!Max(Ticks!Batch) \in Ticks!Batch
           /\ Ticks!Max(Ticks!Batch \cup {flushed}) = Ticks!Max(Ticks!Batch)
           /\ \A b \in Ticks!Batch : b <= Ticks!Max(Ticks!Batch)
  <1>1. /\ Ticks!Batch \subseteq 0 .. Ticks!BucketOf(TickTime)
        /\ flushed \in -1 .. Ticks!BucketOf(TickTime)
    BY BucketFacts
    DEF Ticks!Batch, Ticks!Closed, Ticks!Held, Ticks!Buckets, Ticks!TypeOK, Ticks!Nothing
  <1>int. Ticks!BucketOf(TickTime) \in Int /\ 0 \in Int /\ -1 \in Int
    BY BucketFacts
  <1>2. Ticks!Max(Ticks!Batch) \in Ticks!Batch /\ \A b \in Ticks!Batch : b <= Ticks!Max(Ticks!Batch)
    BY <1>1, <1>int, MaxExists
  <1> DEFINE both == Ticks!Batch \cup {flushed}
  <1>3. Ticks!Max(both) \in both /\ \A b \in both : b <= Ticks!Max(both)
    <2>1. both \subseteq -1 .. Ticks!BucketOf(TickTime) /\ both # {} /\ -1 \in Int
      BY <1>1
    <2> HIDE DEF both
    <2> QED
      BY <2>1, <1>int, MaxExists
  <1>4. Ticks!Max(Ticks!Batch) >= flushed
    BY <1>2 DEF OpenIsLater, Ticks!Batch, Ticks!Closed
  <1>5. Ticks!Max(both) = Ticks!Max(Ticks!Batch)
    <2>1. Ticks!Max(Ticks!Batch) \in Int /\ flushed \in Int /\ Ticks!Max(both) \in Int
      <3>1. both \subseteq Int
        BY <1>1
      <3>2. Ticks!Max(Ticks!Batch) \in both /\ flushed \in both
        BY <1>2
      <3> HIDE DEF both
      <3> QED BY <1>3, <3>1, <3>2
    <2>2. Ticks!Max(Ticks!Batch) <= Ticks!Max(both)
      BY <1>2, <1>3
    <2>3. Ticks!Max(both) <= Ticks!Max(Ticks!Batch)
      BY <1>2, <1>3, <1>4
    <2> QED
      BY <2>1, <2>2, <2>3
  <1> QED
    BY <1>1, <1>2, <1>5 DEF Ticks!Buckets

LEMMA UpsertType ==
    ASSUME NEW tick \in Ticks!Ticks, NEW row \in Ticks!Ticks \cup {Ticks!NoTick}
    PROVE  /\ Ticks!Upsert(row, tick) \in Ticks!Ticks
           /\ Ticks!Upsert(row, tick).ts = tick.ts /\ Ticks!Upsert(row, tick).origin = tick.origin
  <1>1. tick.px \in BOOLEAN /\ row.px \in BOOLEAN
    <2>1. CASE row = Ticks!NoTick
      BY <2>1 DEF Ticks!Ticks, Ticks!NoTick
    <2>2. CASE row \in Ticks!Ticks
      BY <2>2 DEF Ticks!Ticks
    <2> QED BY <2>1, <2>2
  <1>2. (tick.px \/ row.px) \in BOOLEAN
    OBVIOUS
  <1> QED
    BY <1>2 DEF Ticks!Upsert, Ticks!Ticks

\* A batch that was written: what waited is now in the rows.
LEMMA FlushWrites ==
    ASSUME Sized, TickInv, Ticks!Flush, UNCHANGED faults, open' = Ticks!Popped(TRUE),
           stored' = [b \in Ticks!Buckets |->
                        IF b \in Ticks!Batch THEN Ticks!Upsert(stored[b], open[b]) ELSE stored[b]],
           flushed' = Ticks!Max(Ticks!Batch \cup {flushed}),
           hub' = [hub EXCEPT !.pending = Ticks!Max(Ticks!Batch)]
    PROVE  TickInv'
  <1> USE DEF TickInv
  <1>1. /\ agg' = [agg EXCEPT !.at = IF @ = "final" THEN "done" ELSE "loop"]
        /\ UNCHANGED <<now, sweep, queue, stopping, heard>> /\ Ticks!Batch # {}
    BY DEF Ticks!Flush, FlushHasRows
  <1>2. /\ Ticks!Batch \subseteq Ticks!Buckets /\ Ticks!Max(Ticks!Batch) \in Ticks!Batch
        /\ flushed' = Ticks!Max(Ticks!Batch) /\ \A b \in Ticks!Batch : b <= Ticks!Max(Ticks!Batch)
    BY <1>1, BatchIsNewer
  <1>3. /\ open' = [b \in Ticks!Buckets |-> IF b \in Ticks!Batch THEN Ticks!NoTick ELSE open[b]]
    BY DEF Ticks!Popped
  <1>4. \A b \in Ticks!Batch : open[b] \in Ticks!Ticks
    BY DEF Ticks!Batch, Ticks!Closed, Ticks!Held, Ticks!TypeOK
  <1>5. \A b \in Ticks!Batch : /\ stored'[b] \in Ticks!Ticks
                         /\ stored'[b].ts = open[b].ts /\ stored'[b].origin = open[b].origin
    <2> TAKE b \in Ticks!Batch
    <2>1. stored'[b] = Ticks!Upsert(stored[b], open[b]) /\ stored[b] \in Ticks!Ticks \cup {Ticks!NoTick}
      BY <1>2 DEF Ticks!TypeOK
    <2> QED
      BY <2>1, <1>4, UpsertType
  <1>6. Ticks!TypeOK'
    <2>1. stored' \in [Ticks!Buckets -> Ticks!Ticks \cup {Ticks!NoTick}]
      BY <1>5 DEF Ticks!TypeOK
    <2>2. open' \in [Ticks!Buckets -> Ticks!Ticks \cup {Ticks!NoTick}]
      BY <1>3 DEF Ticks!TypeOK
    <2>3. /\ flushed' \in Ticks!Buckets \cup {Ticks!Nothing}
          /\ Ticks!Max(Ticks!Batch) \in Ticks!Buckets \cup {Ticks!Nothing}
      BY <1>2
    <2>4. hub' \in [pending : Ticks!Buckets \cup {Ticks!Nothing},
                    item : Ticks!Buckets \cup {Ticks!Nothing},
                    sent : Ticks!Buckets \cup {Ticks!Nothing}]
      BY <2>3 DEF Ticks!TypeOK
    <2> QED
      BY <1>1, <2>1, <2>2, <2>3, <2>4 DEF Ticks!TypeOK
  <1>7. OpenIsLater'
    <2> SUFFICES ASSUME NEW b \in Ticks!Buckets, open'[b] # Ticks!NoTick
                 PROVE  b >= Ticks!Max(Ticks!Batch)
      BY <1>2 DEF OpenIsLater, Ticks!Held
    <2>1. b \notin Ticks!Batch /\ b \in Ticks!Held(open) /\ Ticks!Max(Ticks!Batch) \in Ticks!Buckets
      BY <1>2, <1>3 DEF Ticks!Held
    <2>2. (Ticks!Max(Ticks!Batch) + 1) * BucketLen <= agg.cutoff
      BY <1>2 DEF Ticks!Batch, Ticks!Closed
    <2>3. ~((b + 1) * BucketLen <= agg.cutoff)
      BY <2>1 DEF Ticks!Batch, Ticks!Closed
    <2>4. Ticks!Max(Ticks!Batch) < b
      BY <2>1, <2>2, <2>3, ClosedFirst, BucketFacts DEF Sized, Ticks!TypeOK
    <2> QED
      BY <2>1, <2>4, BucketFacts
  <1>8. OpenIsNewest'
    BY <1>1, <1>3, NoTickIsNone DEF OpenIsNewest
  <1>9. HubIsCurrent'
    <2>1. Ticks!Max(Ticks!Batch) # Ticks!Nothing
      BY <1>2, BucketFacts DEF Ticks!Nothing
    <2>2. hub'.pending = Ticks!Max(Ticks!Batch)
      BY DEF Ticks!TypeOK
    <2> QED
      BY <1>2, <2>1, <2>2 DEF HubIsCurrent
  <1>10. Ticks!NothingLost'
    <2> SUFFICES ASSUME NEW b \in Ticks!Buckets, heard[b] # Ticks!Nothing
                 PROVE  \/ open'[b].origin = "ws" /\ open'[b].ts = heard[b]
                        \/ stored'[b].ts >= heard[b] \/ stored'[b].origin = "poller"
      BY <1>1 DEF Ticks!NothingLost
    <2>1. CASE b \notin Ticks!Batch
      <3>1. open'[b] = open[b] /\ stored'[b] = stored[b]
        BY <2>1, <1>3
      <3> QED
        BY <3>1 DEF Ticks!NothingLost
    <2>2. CASE b \in Ticks!Batch /\ open[b].origin = "ws"
      <3>1. heard[b] = open[b].ts /\ heard[b] \in Int
        BY <2>2, BarsAreTimes DEF OpenIsNewest, Ticks!TypeOK, Ticks!Times, Ticks!Nothing
      <3> QED
        <4>1. stored'[b].ts = heard[b]
          BY <2>2, <3>1, <1>5
        <4>2. \A x \in Int : \A y : y = x => y >= x
          OBVIOUS
        <4>3. stored'[b].ts >= heard[b]
          BY <4>1, <4>2, <3>1, Zenon
        <4> QED BY <4>3
    <2>3. CASE b \in Ticks!Batch /\ open[b].origin # "ws"
      BY <2>3, <1>4, <1>5, TickFacts
    <2> QED
      BY <2>1, <2>2, <2>3
  <1>11. FlushHasRows'
    BY <1>1 DEF FlushHasRows, Ticks!TypeOK
  <1> QED
    BY <1>6, <1>7, <1>8, <1>9, <1>10, <1>11

LEMMA FlushStep ==
    ASSUME Sized, TickInv, Ticks!Flush
    PROVE  TickInv'
  <1>1. CASE /\ stored' = [b \in Ticks!Buckets |->
                             IF b \in Ticks!Batch THEN Ticks!Upsert(stored[b], open[b]) ELSE stored[b]]
             /\ flushed' = Ticks!Max(Ticks!Batch \cup {flushed})
             /\ open' = Ticks!Popped(TRUE)
             /\ hub' = [hub EXCEPT !.pending = Ticks!Max(Ticks!Batch)]
             /\ UNCHANGED faults
    BY <1>1, FlushWrites
  <1>2. CASE Ticks!Strikes /\ open' = Ticks!Popped(FALSE) /\ UNCHANGED <<stored, flushed, hub>>
    <2> USE DEF TickInv
    <2>1. open' = open
      BY <1>2 DEF Ticks!Popped, Ticks!TypeOK
    <2>2. /\ agg' = [agg EXCEPT !.at = IF @ = "final" THEN "done" ELSE "loop"]
          /\ UNCHANGED <<now, sweep, queue, stopping, heard>>
      BY DEF Ticks!Flush
    <2>3. Ticks!TypeOK'
      <3>1. faults' \in 0 .. MaxFaults
        BY <1>2 DEF Ticks!Strikes, Ticks!TypeOK, Sized
      <3> QED
        BY <1>2, <2>1, <2>2, <3>1 DEF Ticks!TypeOK
    <2>4. FlushHasRows'
      BY <2>2 DEF FlushHasRows, Ticks!TypeOK
    <2>5. OpenIsLater' /\ OpenIsNewest' /\ HubIsCurrent' /\ Ticks!NothingLost'
      BY <1>2, <2>1, <2>2
      DEF OpenIsLater, OpenIsNewest, HubIsCurrent, Ticks!NothingLost, Ticks!Held
    <2> QED
      BY <2>3, <2>4, <2>5
  <1> QED
    BY <1>1, <1>2 DEF Ticks!Flush

-----------------------------------------------------------------------------
(* The theorems.                                                            *)

LEMMA TickInvInit ==
    ASSUME Sized, Ticks!Init
    PROVE  TickInv
  <1> USE DEF Ticks!Init
  <1>1. Ticks!TypeOK
    <2>1. queue \in Seq(Ticks!Ticks) /\ Len(queue) = 0
      BY DEF Ticks!Init
    <2>2. 0 \in Ticks!Times /\ 0 \in 0 .. TickTime + 1 /\ 0 \in 0 .. MaxFaults /\ 0 <= QMax
      BY DEF Ticks!Times, Sized
    <2>3. /\ Ticks!NoTick \in Ticks!Ticks \cup {Ticks!NoTick}
          /\ Ticks!Nothing \in Ticks!Times \cup {Ticks!Nothing}
      OBVIOUS
    <2> HIDE DEF Ticks!Init
    <2> QED
      BY <2>1, <2>2, <2>3 DEF Ticks!TypeOK, Ticks!Init
  <1>2. OpenIsLater /\ FlushHasRows /\ OpenIsNewest /\ HubIsCurrent /\ Ticks!NothingLost
    BY NoTickIsNone
    DEF OpenIsLater, FlushHasRows, OpenIsNewest, HubIsCurrent, Ticks!NothingLost, Ticks!Held
  <1> QED
    BY <1>1, <1>2 DEF TickInv

LEMMA TickInvStep ==
    ASSUME Sized, TickInv, [Ticks!Next]_Ticks!vars
    PROVE  TickInv'
  <1>1. CASE \/ Ticks!Clock
             \/ Ticks!Emit
             \/ Ticks!SweepStarts
             \/ Ticks!SweepFails
             \/ Ticks!SweepAnswers
             \/ Ticks!SegmentSweep
             \/ Ticks!Stop
    BY <1>1, ProducersStep
  <1>2. CASE Ticks!Turn
    BY <1>2, TurnStep
  <1>3. CASE Ticks!Flush
    BY <1>3, FlushStep
  <1>4. CASE Ticks!Drain
    BY <1>4, DrainStep
  <1>5. CASE Ticks!FinalFlush
    BY <1>5, FinalFlushStep
  <1>6. CASE Ticks!Take \/ Ticks!Publish
    BY <1>6, PublicationStep
  <1>7. CASE UNCHANGED Ticks!vars
    BY <1>7
    DEF Ticks!vars, TickInv, Ticks!TypeOK, OpenIsLater, FlushHasRows, OpenIsNewest,
        HubIsCurrent, Ticks!NothingLost, Ticks!Batch, Ticks!Closed, Ticks!Held
  <1> QED
    BY <1>1, <1>2, <1>3, <1>4, <1>5, <1>6, <1>7 DEF Ticks!Next

LEMMA TickInvHolds == ASSUME Sized PROVE Ticks!Spec => []TickInv
  <1>1. Ticks!Init => TickInv
    BY TickInvInit
  <1>2. TickInv /\ [Ticks!Next]_Ticks!vars => TickInv'
    BY TickInvStep
  <1> QED
    BY <1>1, <1>2, PTL DEF Ticks!Spec

\* The variables keep their types: a full queue takes no more, a batch is never empty
\* and its newest bucket is one (aggregator.py:209-220, ws_client.py:894-897).
THEOREM TickStoreTypeCorrect == ASSUME Sized PROVE Ticks!Spec => []Ticks!TypeOK
  <1>1. TickInv => Ticks!TypeOK
    BY DEF TickInv
  <1> QED
    BY <1>1, TickInvHolds, PTL

\* A socket's tick that _absorb took is in its open bucket, or its row holds it or has
\* moved on, whatever flush fails, unless the cap dropped it (aggregator.py:169-297).
THEOREM NothingIsLost == ASSUME Sized PROVE Ticks!Spec => []NothingLost
  <1>1. TickInv => NothingLost
    BY DEF TickInv, NothingLost
  <1> QED
    BY <1>1, TickInvHolds, PTL

\* The newest flush is sent, with the worker or next in its slot: coalescing drops older
\* ones only (feed_factory.py:350-385).
THEOREM NewestFlushIsPublished == ASSUME Sized PROVE Ticks!Spec => []NewestIsPublished
  <1>1. TickInv => NewestIsPublished
    BY DEF TickInv, HubIsCurrent, NewestIsPublished, Ticks!NewestIsPublished
  <1> QED
    BY <1>1, TickInvHolds, PTL

-----------------------------------------------------------------------------
(* A row is final once a later one is written.                              *)

\* No row is later than the last flush.
RowsAreFlushed == \A c \in Ticks!Buckets : stored[c] # Ticks!NoTick => c <= flushed

\* What a step may write: nothing, or the batch.
LEMMA WritesBatch ==
    ASSUME Ticks!Next
    PROVE  \/ UNCHANGED <<stored, flushed>>
           \/ /\ Ticks!Flush
              /\ stored' = [b \in Ticks!Buckets |->
                              IF b \in Ticks!Batch THEN Ticks!Upsert(stored[b], open[b]) ELSE stored[b]]
              /\ flushed' = Ticks!Max(Ticks!Batch \cup {flushed})
  BY DEF Ticks!Next, Ticks!Clock, Ticks!Emit, Ticks!SweepStarts, Ticks!SweepFails,
     Ticks!SweepAnswers, Ticks!SegmentSweep, Ticks!Turn, Ticks!Flush, Ticks!Stop, Ticks!Drain,
     Ticks!FinalFlush, Ticks!Take, Ticks!Publish

LEMMA RowsAreFlushedStep ==
    ASSUME Sized, TickInv, RowsAreFlushed, [Ticks!Next]_Ticks!vars
    PROVE  RowsAreFlushed'
  <1>1. CASE UNCHANGED <<stored, flushed>>
    BY <1>1 DEF RowsAreFlushed
  <1>2. CASE /\ Ticks!Flush
             /\ stored' = [b \in Ticks!Buckets |->
                              IF b \in Ticks!Batch THEN Ticks!Upsert(stored[b], open[b]) ELSE stored[b]]
             /\ flushed' = Ticks!Max(Ticks!Batch \cup {flushed})
    <2>1. Ticks!Batch # {}
      BY <1>2 DEF TickInv, FlushHasRows, Ticks!Flush
    <2>2. /\ /\ Ticks!Batch \subseteq Ticks!Buckets
          /\ Ticks!Max(Ticks!Batch) \in Ticks!Batch
          /\ flushed' = Ticks!Max(Ticks!Batch)
          /\ \A b \in Ticks!Batch : b <= Ticks!Max(Ticks!Batch)
      BY <1>2, <2>1, BatchIsNewer DEF TickInv
    <2>3. flushed \in Int /\ Ticks!Max(Ticks!Batch) \in Int /\ Ticks!Buckets \subseteq Int
      BY <2>2, BucketFacts DEF TickInv, Ticks!TypeOK, Ticks!Nothing
    <2>4. flushed <= Ticks!Max(Ticks!Batch)
      BY <2>2, <2>3 DEF TickInv, OpenIsLater, Ticks!Batch, Ticks!Closed
    <2> SUFFICES ASSUME NEW c \in Ticks!Buckets, stored'[c] # Ticks!NoTick
                 PROVE  c <= Ticks!Max(Ticks!Batch)
      BY <2>2 DEF RowsAreFlushed
    <2>5. CASE c \in Ticks!Batch
      BY <2>2, <2>5
    <2>6. CASE c \notin Ticks!Batch
      <3>1. stored[c] # Ticks!NoTick
        BY <1>2, <2>6
      <3>2. c <= flushed
        BY <3>1 DEF RowsAreFlushed
      <3> QED
        BY <2>3, <2>4, <3>2
    <2> QED
      BY <2>5, <2>6
  <1> QED
    BY <1>1, <1>2, WritesBatch DEF Ticks!vars

LEMMA SettleStep ==
    ASSUME Sized, TickInv, RowsAreFlushed, [Ticks!Next]_Ticks!vars, NEW b \in Ticks!Buckets
    PROVE  /\ (\E c \in Ticks!Buckets : c > b /\ stored[c] # Ticks!NoTick) => stored'[b] = stored[b]
           /\ stored[b].px => stored'[b].px
  <1>1. CASE UNCHANGED <<stored, flushed>>
    BY <1>1
  <1>2. CASE stored' = [d \in Ticks!Buckets |->
                          IF d \in Ticks!Batch THEN Ticks!Upsert(stored[d], open[d]) ELSE stored[d]]
    <2>1. ASSUME NEW c \in Ticks!Buckets, c > b, stored[c] # Ticks!NoTick
          PROVE  b \notin Ticks!Batch
      <3>1. b \in Int /\ c \in Int /\ flushed \in Int
        BY BucketFacts DEF TickInv, Ticks!TypeOK, Ticks!Nothing
      <3>2. b < flushed
        BY <2>1, <3>1 DEF RowsAreFlushed
      <3> QED
        BY <3>1, <3>2 DEF TickInv, OpenIsLater, Ticks!Batch, Ticks!Closed
    <2>2. stored[b].px => stored'[b].px
      <3>1. CASE b \in Ticks!Batch
        <4>1. open[b] \in Ticks!Ticks
          BY <3>1 DEF Ticks!Batch, Ticks!Closed, Ticks!Held, TickInv, Ticks!TypeOK
        <4>2. Ticks!Upsert(stored[b], open[b]).px = (open[b].px \/ stored[b].px)
          BY <4>1 DEF Ticks!Upsert, Ticks!Ticks
        <4> QED
          BY <1>2, <3>1, <4>2
      <3>2. CASE b \notin Ticks!Batch
        BY <1>2, <3>2
      <3> QED BY <3>1, <3>2
    <2> QED
      BY <1>2, <2>1, <2>2
  <1> QED
    BY <1>1, <1>2, WritesBatch DEF Ticks!vars

\* A row is final once a later one is written, however late a sweep, a retry or a backlog
\* brings its ticks, and a known price is never erased (aggregator.py:88-96, 266-268).
THEOREM RowsSettleForGood == ASSUME Sized PROVE Ticks!Spec => Ticks!RowsSettle
  <1>1. Ticks!Init => RowsAreFlushed
    BY DEF Ticks!Init, RowsAreFlushed
  <1>2. TickInv /\ RowsAreFlushed /\ [Ticks!Next]_Ticks!vars => RowsAreFlushed'
    BY RowsAreFlushedStep
  <1> DEFINE Settles ==
        \A b \in Ticks!Buckets :
          /\ (\E c \in Ticks!Buckets : c > b /\ stored[c] # Ticks!NoTick) => stored'[b] = stored[b]
          /\ stored[b].px => stored'[b].px
  <1>3. TickInv /\ RowsAreFlushed /\ [Ticks!Next]_Ticks!vars => [Settles]_Ticks!vars
    BY SettleStep
  <1>4. Ticks!RowsSettle <=> [][Settles]_Ticks!vars
    BY DEF Ticks!RowsSettle
  <1> HIDE DEF Settles
  <1> QED
    BY <1>1, <1>2, <1>3, <1>4, TickInvHolds, PTL DEF Ticks!Spec
=============================================================================

------------------------- MODULE ConfigControlProofs -------------------------
(***************************************************************************)
(* Proofs about ConfigControl for any TTL and any number of requests: how  *)
(* old the document can be that get_live serves from its cache, and that   *)
(* entries take turns.                                                     *)
(***************************************************************************)
EXTENDS ConfigControl, SequenceTheorems, TLAPS

\* No version of the log after v was saved longer ago than age; one whose commit has not
\* returned counts as not saved.
NoneOlder(log, v, age) == \A w \in v + 1 .. Len(log) : log[w].back <= age

\* The cache is as old as what it may have missed.
CacheIsDated == cache.v # 0 => NoneOlder(db, cache.v, cache.age)

\* So is a read under way, since the time it will give the cache was taken
\* before the row was read.
ReadsAreDated == \A a \in Actors : pc[a].read # -1 => NoneOlder(db, pc[a].read, pc[a].age)

\* A commit that returns finds nothing newer that returned in an earlier tick.
AcksAreDated ==
    \A a \in Actors : pc[a].at = "ack" => pc[a].seen \in 1 .. Len(db) /\ NoneOlder(db, pc[a].seen, 0)

\* The types of what get_live works with, and of the rest.
StoreTypes ==
    /\ db \in Seq(Versions)
    /\ cache \in [v : 0 .. Len(db), age : 0 .. Late]
    /\ pc \in [Actors -> Tasks]
    /\ \A a \in Actors : pc[a].read <= Len(db)

Held == {"order", "square", "pass", "fill", "row"}

RestTypes ==
    /\ lock \in Actors \cup {"free"}
    /\ lock # "free" => pc[lock].at \in Held
    /\ trade \in [open : BOOLEAN, live : BOOLEAN]
    /\ asked \in 0 .. MaxRequests /\ faults \in 0 .. MaxFaults

Store == StoreTypes /\ CacheIsDated /\ ReadsAreDated /\ AcksAreDated

IInv == TypeOK /\ CacheIsDated /\ ReadsAreDated /\ AcksAreDated

LEMMA IInvParts == IInv <=> Store /\ RestTypes
  BY DEF IInv, Store, TypeOK, StoreTypes, RestTypes, Held

-----------------------------------------------------------------------------
(* Types of the records *)

LEMMA LateType == Late \in Nat /\ TTL < Late /\ Late # 0
  BY BoundsAssumption DEF Late

LEMMA FlipType ==
    ASSUME NEW doc \in Docs, NEW s
    PROVE  Flip(doc, s) \in Docs
  <1>1. doc \in [Switches -> BOOLEAN]
    BY DEF Docs
  <1>2. \A t \in Switches : Flip(doc, s)[t] \in BOOLEAN
    BY <1>1, Zenon DEF Flip
  <1>3. DOMAIN Flip(doc, s) = Switches /\ Flip(doc, s) = [t \in Switches |-> Flip(doc, s)[t]]
    BY <1>1, Zenon DEF Flip
  <1> QED
    BY <1>2, <1>3, Zenon DEF Docs

LEMMA DefaultType == Default \in Docs
  BY DEF Default, Docs

LEMMA IdleType ==
    /\ Idle \in Tasks /\ Idle.read = -1 /\ Idle.at = "idle"
    /\ \A s \in Stages : At(s) \in Tasks /\ At(s).read = -1 /\ At(s).at = s
  <1>1. -1 \in Nat \cup {-1} /\ 0 \in 0 .. Late /\ "idle" \in Stages
    BY LateType DEF Stages
  <1>2. Idle \in Tasks /\ Idle.read = -1 /\ Idle.at = "idle"
    BY <1>1, DefaultType DEF Idle, Tasks
  <1>3. ASSUME NEW s \in Stages
        PROVE  At(s) \in Tasks /\ At(s).read = -1 /\ At(s).at = s
    <2>1. At(s) \in Tasks
      BY <1>2 DEF At, Tasks
    <2>2. At(s).read = -1 /\ At(s).at = s
      BY DEF At, Idle
    <2> QED
      BY <2>1, <2>2
  <1> QED
    BY <1>2, <1>3

LEMMA ToType ==
    ASSUME NEW a \in Actors, pc \in [Actors -> Tasks], NEW s \in Stages
    PROVE  /\ To(a, s) \in Tasks /\ To(a, s).read = -1 /\ To(a, s).at = s
           /\ To(a, s).doc = pc[a].doc /\ To(a, s).base = pc[a].base
  <1>1. pc[a] \in Tasks
    OBVIOUS
  <1>2. -1 \in Nat \cup {-1} /\ 0 \in 0 .. Late
    BY LateType
  <1>3. To(a, s) \in Tasks
    BY <1>1, <1>2 DEF To, Tasks
  <1> QED
    BY <1>1, <1>3 DEF To, Tasks

LEMMA ReadType ==
    ASSUME NEW t \in Tasks, NEW n \in Nat
    PROVE  LET r == [t EXCEPT !.read = n, !.age = 0]
           IN  r \in Tasks /\ r.read = n /\ r.age = 0 /\ r.at = t.at /\ r.seen = t.seen
  <1>1. n \in Nat \cup {-1} /\ 0 \in 0 .. Late
    BY LateType
  <1> QED
    BY <1>1 DEF Tasks

LEMMA OlderType ==
    /\ \A n \in 0 .. Late : Older(n) \in 0 .. Late /\ n <= Older(n)
    /\ \A m, n \in 0 .. Late : m <= n => Older(m) <= Older(n)
  BY LateType DEF Older

LEMMA ThrownAreSwitches == Thrown \subseteq Switches
  BY BoundsAssumption DEF Switches

-----------------------------------------------------------------------------
(* What a step does to the store and its reads *)

LEMMA GoesType ==
    ASSUME StoreTypes, NEW a \in Actors, NEW r \in Tasks, Goes(a, r)
    PROVE  /\ pc' \in [Actors -> Tasks] /\ pc'[a] = r
           /\ \A b \in Actors \ {a} : pc'[b] = pc[b]
  BY DEF StoreTypes, Goes

\* A task goes on without a read under way, and without a commit to return.  It may
\* have filled the cache with what it has read.
LEMMA GoesOn ==
    ASSUME Store, NEW a \in Actors, NEW r \in Tasks, Goes(a, r), r.read = -1, r.at # "ack",
           UNCHANGED db, UNCHANGED cache \/ (pc[a].read > 0 /\ cache' = Filled(a))
    PROVE  Store'
  <1>1. StoreTypes
    BY DEF Store
  <1>2. /\ pc' \in [Actors -> Tasks] /\ pc'[a] = r
        /\ \A b \in Actors \ {a} : pc'[b] = pc[b]
    BY <1>1, GoesType
  <1>3. Len(db) \in Nat /\ Len(db') = Len(db)
    BY <1>1 DEF StoreTypes
  <1>4. /\ cache' \in [v : 0 .. Len(db), age : 0 .. Late]
        /\ cache'.v # 0 => NoneOlder(db, cache'.v, cache'.age)
    <2>1. CASE UNCHANGED cache
      BY <1>1, <2>1 DEF StoreTypes, Store, CacheIsDated
    <2>2. CASE pc[a].read > 0 /\ cache' = Filled(a)
      <3>1. pc[a] \in Tasks /\ pc[a].read \in 1 .. Len(db)
        BY <1>1, <1>3, <2>2 DEF StoreTypes, Tasks
      <3>2. NoneOlder(db, pc[a].read, pc[a].age)
        BY <3>1 DEF Store, ReadsAreDated
      <3> QED
        BY <2>2, <3>1, <3>2 DEF Filled, Tasks
    <2> QED
      BY <2>1, <2>2
  <1>5. StoreTypes'
    BY <1>1, <1>2, <1>3, <1>4 DEF StoreTypes
  <1>6. CacheIsDated'
    BY <1>4 DEF CacheIsDated, NoneOlder
  <1>7. ReadsAreDated' /\ AcksAreDated'
    BY <1>2 DEF Store, ReadsAreDated, AcksAreDated, NoneOlder
  <1> QED
    BY <1>5, <1>6, <1>7 DEF Store

\* A version is added: no cache and no read is older than it is.
LEMMA Appended ==
    ASSUME Store, NEW x \in Versions, x.back \in {-1, 0}, db' = Append(db, x)
    PROVE  /\ db' \in Seq(Versions) /\ Len(db') = Len(db) + 1 /\ Len(db) \in Nat
           /\ \A v \in Nat, age \in Nat : NoneOlder(db, v, age) => NoneOlder(db', v, age)
  <1>1. db \in Seq(Versions)
    BY DEF Store, StoreTypes
  <1>2. /\ db' \in Seq(Versions) /\ Len(db') = Len(db) + 1 /\ Len(db) \in Nat
        /\ \A w \in 1 .. Len(db) : db'[w] = db[w]
        /\ db'[Len(db) + 1] = x
    BY <1>1, AppendProperties
  <1>3. ASSUME NEW v \in Nat, NEW age \in Nat, NoneOlder(db, v, age), NEW w \in v + 1 .. Len(db')
        PROVE  db'[w].back <= age
    <2>1. CASE w \in 1 .. Len(db)
      BY <1>2, <1>3, <2>1 DEF NoneOlder
    <2>2. CASE w = Len(db) + 1
      BY <1>2, <2>2
    <2> QED
      BY <1>2, <1>3, <2>1, <2>2
  <1> QED
    BY <1>2, <1>3 DEF NoneOlder

\* The actor that added a version has it read, or waits for the commit to return.
LEMMA AppendedKeeps ==
    ASSUME Store, NEW a \in Actors, NEW r \in Tasks, UNCHANGED cache,
           db' \in Seq(Versions), Len(db') = Len(db) + 1, Len(db) \in Nat,
           \A v \in Nat, age \in Nat : NoneOlder(db, v, age) => NoneOlder(db', v, age),
           pc' \in [Actors -> Tasks], pc'[a] = r, \A b \in Actors \ {a} : pc'[b] = pc[b],
           r.read \in {-1, Len(db')},
           r.at = "ack" => r.seen \in {Len(db'), pc[a].seen} /\ (r.seen # Len(db') => pc[a].at = "ack")
    PROVE  Store'
  <1>1. StoreTypes
    BY DEF Store
  <1>2. \A age : NoneOlder(db', Len(db'), age)
    <2>1. Len(db') \in Nat
      OBVIOUS
    <2> QED
      BY <2>1 DEF NoneOlder
  <1>3. StoreTypes'
    <2>1. cache' \in [v : 0 .. Len(db'), age : 0 .. Late]
      BY <1>1 DEF StoreTypes
    <2>2. ASSUME NEW b \in Actors
          PROVE  pc'[b].read <= Len(db')
      <3>1. pc[b] \in Tasks /\ pc[b].read <= Len(db)
        BY <1>1 DEF StoreTypes
      <3>2. pc[b].read \in Nat \cup {-1}
        BY <3>1 DEF Tasks
      <3> QED
        BY <3>1, <3>2
    <2> QED
      BY <2>1, <2>2 DEF StoreTypes
  <1>4. CacheIsDated'
    <2>1. cache.v \in Nat /\ cache.age \in Nat
      BY <1>1, LateType DEF StoreTypes
    <2> QED
      BY <2>1 DEF Store, CacheIsDated
  <1>5. ASSUME NEW b \in Actors, pc'[b].read # -1
        PROVE  NoneOlder(db', pc'[b].read, pc'[b].age)
    <2>1. CASE b = a
      BY <1>2, <1>5, <2>1
    <2>2. CASE b # a
      <3>1. pc[b].read \in Nat /\ pc[b].age \in Nat
        BY <1>1, <1>5, <2>2, LateType DEF StoreTypes, Tasks
      <3> QED
        BY <1>5, <2>2, <3>1 DEF Store, ReadsAreDated
    <2> QED
      BY <2>1, <2>2
  <1>6. ASSUME NEW b \in Actors, pc'[b].at = "ack"
        PROVE  pc'[b].seen \in 1 .. Len(db') /\ NoneOlder(db', pc'[b].seen, 0)
    <2>1. CASE b = a /\ r.seen = Len(db')
      BY <1>2, <1>6, <2>1
    <2>2. CASE b # a \/ r.seen # Len(db')
      <3>1. pc[b].seen \in 1 .. Len(db) /\ NoneOlder(db, pc[b].seen, 0)
        BY <1>6, <2>2 DEF Store, AcksAreDated
      <3>2. pc'[b].seen = pc[b].seen
        BY <1>6, <2>2
      <3> QED
        BY <3>1, <3>2
    <2> QED
      BY <2>1, <2>2
  <1> QED
    BY <1>3, <1>4, <1>5, <1>6 DEF Store, ReadsAreDated, AcksAreDated

LEMMA AskStep ==
    ASSUME Store, NEW a \in Actors, Ask(a)
    PROVE  Store'
  <1> DEFINE r == [pc[a] EXCEPT !.read = Len(db), !.age = 0]
  <1>1. StoreTypes /\ Len(db) \in Nat /\ pc[a] \in Tasks
    BY DEF Store, StoreTypes
  <1>2. r \in Tasks /\ r.read = Len(db) /\ r.age = 0 /\ r.at # "ack"
    <2>1. r \in Tasks /\ r.read = Len(db) /\ r.age = 0 /\ r.at = pc[a].at
      BY <1>1, ReadType
    <2> QED
      BY <2>1 DEF Ask, Wanting
  <1>3. Goes(a, r) /\ UNCHANGED <<db, cache>>
    BY DEF Ask
  <1>4. /\ pc' \in [Actors -> Tasks] /\ pc'[a] = r
        /\ \A b \in Actors \ {a} : pc'[b] = pc[b]
    BY <1>1, <1>2, <1>3, GoesType
  <1> HIDE DEF r
  <1>5. StoreTypes'
    BY <1>1, <1>2, <1>3, <1>4 DEF StoreTypes
  <1>6. CacheIsDated' /\ ReadsAreDated' /\ AcksAreDated'
    BY <1>1, <1>2, <1>3, <1>4 DEF Store, CacheIsDated, ReadsAreDated, AcksAreDated, NoneOlder
  <1> QED
    BY <1>5, <1>6 DEF Store

LEMMA SeedStep ==
    ASSUME Store, NEW a \in Actors, Seed(a)
    PROVE  Store'
  <1> DEFINE r == [pc[a] EXCEPT !.read = Len(db'), !.age = 0]
             x == [doc |-> Default, base |-> 0, back |-> 0]
  <1>1. StoreTypes /\ pc[a] \in Tasks /\ 0 \in 0 .. Late /\ 0 \in -1 .. Late
    BY LateType DEF Store, StoreTypes
  <1>2. x \in Versions /\ x.back \in {-1, 0}
    BY <1>1, DefaultType DEF Versions
  <1>3. db' = Append(db, x) /\ Goes(a, r) /\ UNCHANGED cache
    BY DEF Seed
  <1>4. /\ db' \in Seq(Versions) /\ Len(db') = Len(db) + 1 /\ Len(db) \in Nat
        /\ \A v \in Nat, age \in Nat : NoneOlder(db, v, age) => NoneOlder(db', v, age)
    BY <1>2, <1>3, Appended
  <1>5. r \in Tasks /\ r.read = Len(db') /\ r.at = pc[a].at /\ r.seen = pc[a].seen
    <2>1. Len(db') \in Nat
      BY <1>4
    <2> QED
      BY <1>1, <2>1, ReadType
  <1>6. /\ pc' \in [Actors -> Tasks] /\ pc'[a] = r
        /\ \A b \in Actors \ {a} : pc'[b] = pc[b]
    BY <1>1, <1>3, <1>5, GoesType
  <1> HIDE DEF r, x
  <1> QED
    BY <1>1, <1>3, <1>4, <1>5, <1>6, AppendedKeeps

LEMMA InsertStep ==
    ASSUME Store, NEW a \in Actors, Insert(a)
    PROVE  Store'
  <1> DEFINE x == [doc |-> pc[a].doc, base |-> pc[a].base, back |-> -1]
             r == [At("ack") EXCEPT !.seen = Len(db'), !.confirmed = pc[a].confirmed]
  <1>1. StoreTypes /\ pc[a] \in Tasks /\ -1 \in -1 .. Late
    BY LateType DEF Store, StoreTypes
  <1>2. x \in Versions /\ x.back \in {-1, 0}
    BY <1>1 DEF Versions, Tasks
  <1>3. db' = Append(db, x) /\ Goes(a, r) /\ UNCHANGED cache
    BY DEF Insert
  <1>4. /\ db' \in Seq(Versions) /\ Len(db') = Len(db) + 1 /\ Len(db) \in Nat
        /\ \A v \in Nat, age \in Nat : NoneOlder(db, v, age) => NoneOlder(db', v, age)
    BY <1>2, <1>3, Appended
  <1>5. r \in Tasks /\ r.read = -1 /\ r.seen = Len(db')
    <2>1. At("ack") \in Tasks /\ At("ack").read = -1
      BY IdleType DEF Stages
    <2>2. Len(db') \in Nat
      BY <1>4
    <2> HIDE DEF x
    <2> QED
      BY <1>1, <2>1, <2>2 DEF Tasks
  <1>6. /\ pc' \in [Actors -> Tasks] /\ pc'[a] = r
        /\ \A b \in Actors \ {a} : pc'[b] = pc[b]
    BY <1>1, <1>3, <1>5, GoesType
  <1> HIDE DEF r, x
  <1> QED
    BY <1>1, <1>3, <1>4, <1>5, <1>6, AppendedKeeps

\* While a commit waits to return no tick passes, so what is newer is as new as it.
LEMMA AckStep ==
    ASSUME Store, NEW a \in Actors, Ack(a)
    PROVE  Store'
  <1> DEFINE s == pc[a].seen
             x == [db[s] EXCEPT !.back = 0]
             r == IF pc[a].confirmed THEN Idle ELSE At("exit")
  <1>1. StoreTypes /\ s \in 1 .. Len(db) /\ NoneOlder(db, s, 0)
    BY DEF Store, Ack, AcksAreDated
  <1>2. Len(db) \in Nat /\ db[s] \in Versions
    BY <1>1, ElementOfSeq DEF StoreTypes
  <1>3. x \in Versions /\ x.back = 0
    BY <1>2, LateType DEF Versions
  <1>4. db' = [db EXCEPT ![s] = x]
    BY DEF Ack
  <1>5. /\ db' \in Seq(Versions) /\ Len(db') = Len(db)
        /\ \A w \in 1 .. Len(db) : db'[w] = IF w = s THEN x ELSE db[w]
    BY <1>1, <1>3, <1>4, ExceptSeq DEF StoreTypes
  <1>6. r \in Tasks /\ r.read = -1 /\ r.at # "ack"
    BY IdleType DEF Stages
  <1>7. /\ pc' \in [Actors -> Tasks] /\ pc'[a] = r
        /\ \A b \in Actors \ {a} : pc'[b] = pc[b]
    BY <1>1, <1>6, GoesType DEF Ack
  <1> HIDE DEF r, x
  <1>8. cache'.v = s /\ cache'.age = 0 /\ cache' \in [v : 0 .. Len(db), age : 0 .. Late]
    BY <1>1, <1>2, LateType DEF Ack
  <1>9. ASSUME NEW v \in Nat, NEW age \in Nat, NoneOlder(db, v, age)
        PROVE  NoneOlder(db', v, age)
    BY <1>2, <1>3, <1>5, <1>9 DEF NoneOlder
  <1>10. StoreTypes'
    BY <1>1, <1>5, <1>6, <1>7, <1>8 DEF StoreTypes
  <1>11. CacheIsDated'
    BY <1>1, <1>2, <1>8, <1>9 DEF CacheIsDated
  <1>12. ASSUME NEW b \in Actors, b # a, pc'[b].read # -1
         PROVE  NoneOlder(db', pc'[b].read, pc'[b].age)
    <2>1. pc[b].read \in Nat /\ pc[b].age \in Nat
      BY <1>1, <1>7, <1>12, LateType DEF StoreTypes, Tasks
    <2> QED
      BY <1>7, <1>9, <1>12, <2>1 DEF Store, ReadsAreDated
  <1>13. ASSUME NEW b \in Actors, b # a, pc'[b].at = "ack"
         PROVE  pc'[b].seen \in 1 .. Len(db') /\ NoneOlder(db', pc'[b].seen, 0)
    <2>1. pc[b].seen \in 1 .. Len(db) /\ NoneOlder(db, pc[b].seen, 0)
      BY <1>7, <1>13 DEF Store, AcksAreDated
    <2> QED
      BY <1>2, <1>5, <1>7, <1>9, <1>13, <2>1
  <1> QED
    BY <1>6, <1>7, <1>10, <1>11, <1>12, <1>13 DEF Store, ReadsAreDated, AcksAreDated

\* What is as old as it was stays so: everything ages alike, up to the same bound.
LEMMA TickStep ==
    ASSUME Store, Tick
    PROVE  Store'
  <1>1. StoreTypes /\ Len(db) \in Nat /\ DOMAIN db = 1 .. Len(db)
    BY LenProperties DEF Store, StoreTypes
  <1>2. ASSUME NEW w \in 1 .. Len(db)
        PROVE  /\ db'[w] \in Versions
               /\ db[w].back \in -1 .. Late
               /\ db'[w].back = IF db[w].back = -1 THEN -1 ELSE Older(db[w].back)
    <2>1. db[w] \in Versions
      BY <1>1, ElementOfSeq DEF StoreTypes
    <2>2. db'[w] = [db[w] EXCEPT !.back = IF @ = -1 THEN @ ELSE Older(@)]
      BY <1>1 DEF Tick
    <2>3. db[w].back \in -1 .. Late
      BY <2>1 DEF Versions
    <2>4. (IF db[w].back = -1 THEN -1 ELSE Older(db[w].back)) \in -1 .. Late
      BY <2>3, LateType DEF Older
    <2> QED
      BY <2>1, <2>2, <2>3, <2>4 DEF Versions
  <1>3. db' \in Seq(Versions) /\ Len(db') = Len(db)
    <2>1. DOMAIN db' = 1 .. Len(db)
      BY <1>1 DEF Tick
    <2>2. db' \in [1 .. Len(db) -> Versions]
      BY <1>1, <1>2, <2>1 DEF Tick
    <2>3. db' \in Seq(Versions)
      BY <1>1, <2>2, SeqDef
    <2> QED
      BY <1>1, <2>1, <2>3, LenProperties
  <1>4. cache' \in [v : 0 .. Len(db), age : 0 .. Late] /\ cache'.v = cache.v
        /\ cache'.age = Older(cache.age)
    BY <1>1, OlderType DEF Tick, StoreTypes
  <1>5. ASSUME NEW a \in Actors
        PROVE  /\ pc'[a] \in Tasks /\ pc'[a].read = pc[a].read /\ pc'[a].at = pc[a].at
               /\ pc[a].read # -1 => pc'[a].age = Older(pc[a].age)
    <2>1. pc[a] \in Tasks
      BY <1>1 DEF StoreTypes
    <2>2. pc'[a] = [pc[a] EXCEPT !.age = IF pc[a].read = -1 THEN @ ELSE Older(@)]
      BY DEF Tick
    <2>3. pc[a].age \in 0 .. Late /\ Older(pc[a].age) \in 0 .. Late
      BY <2>1, OlderType DEF Tasks
    <2> QED
      BY <2>1, <2>2, <2>3 DEF Tasks
  <1>6. ASSUME NEW v \in Nat, NEW age \in 0 .. Late, NoneOlder(db, v, age)
        PROVE  NoneOlder(db', v, Older(age))
    <2> SUFFICES ASSUME NEW w \in v + 1 .. Len(db')
                 PROVE  db'[w].back <= Older(age)
      BY DEF NoneOlder
    <2>1. w \in 1 .. Len(db) /\ db[w].back <= age
      BY <1>1, <1>3, <1>6 DEF NoneOlder
    <2>2. age <= Older(age) /\ Older(age) \in Nat
      BY OlderType, LateType
    <2>3. CASE db[w].back = -1
      BY <1>2, <2>1, <2>2, <2>3
    <2>4. CASE db[w].back # -1
      <3>1. db[w].back \in 0 .. Late
        BY <1>2, <2>1, <2>4, LateType
      <3> QED
        BY <1>2, <2>1, <2>4, <3>1, OlderType
    <2> QED
      BY <2>3, <2>4
  <1>7. StoreTypes'
    <2>1. pc' \in [Actors -> Tasks]
      <3>1. DOMAIN pc' = Actors /\ pc' = [a \in Actors |-> pc'[a]]
        BY DEF Tick
      <3> QED
        BY <1>5, <3>1
    <2> QED
      BY <1>1, <1>3, <1>4, <1>5, <2>1 DEF StoreTypes
  <1>8. CacheIsDated'
    <2>1. cache.v \in Nat /\ cache.age \in 0 .. Late
      BY <1>1 DEF StoreTypes
    <2> QED
      BY <1>4, <1>6, <2>1 DEF Store, CacheIsDated
  <1>9. ReadsAreDated'
    <2> SUFFICES ASSUME NEW a \in Actors, pc'[a].read # -1
                 PROVE  NoneOlder(db', pc'[a].read, pc'[a].age)
      BY DEF ReadsAreDated
    <2>1. pc[a].read \in Nat /\ pc[a].age \in 0 .. Late
      BY <1>1, <1>5 DEF StoreTypes, Tasks
    <2> QED
      BY <1>5, <1>6, <2>1 DEF Store, ReadsAreDated
  <1>10. AcksAreDated'
    BY <1>5 DEF Tick, AcksAreDated
  <1> QED
    BY <1>7, <1>8, <1>9, <1>10 DEF Store

LEMMA GetsFills ==
    ASSUME NEW a, NEW v, Gets(a, v)
    PROVE  UNCHANGED cache \/ (pc[a].read > 0 /\ cache' = Filled(a))
  BY DEF Gets

\* Every other step of a handler goes on, with what get_live returned or without.
LEMMA HandlerStep ==
    ASSUME Store, NEW a \in Actors,
           \/ Save(a) \/ Restore(a) \/ Reset(a) \/ TestEntry(a)
           \/ Enforce(a) \/ Check(a) \/ Refused(a) \/ Previous(a) \/ Exit(a) \/ Square(a)
           \/ Delete(a) \/ Stamp(a) \/ Test(a) \/ Order(a) \/ Fill(a) \/ Row(a)
           \/ Waits(a) \/ (a = "engine" /\ (Minute \/ Pass))
    PROVE  Store'
  <1>t. /\ pc \in [Actors -> Tasks] /\ pc[a] \in Tasks
        /\ db \in Seq(Versions) /\ \A v \in 1 .. Len(db) : db[v].doc \in Docs
    <2>1. StoreTypes
      BY DEF Store
    <2>2. \A v \in 1 .. Len(db) : db[v] \in Versions
      BY <2>1, ElementOfSeq DEF StoreTypes
    <2> QED
      BY <2>1, <2>2 DEF StoreTypes, Versions
  <1>g. ASSUME NEW r \in Tasks, Goes(a, r), r.read = -1, r.at # "ack", UNCHANGED db,
               UNCHANGED cache \/ (pc[a].read > 0 /\ cache' = Filled(a))
        PROVE  Store'
    BY <1>g, GoesOn
  <1>i. ASSUME Goes(a, Idle), UNCHANGED db,
               UNCHANGED cache \/ (pc[a].read > 0 /\ cache' = Filled(a))
        PROVE  Store'
    BY <1>i, <1>g, IdleType
  <1>a. ASSUME NEW s \in Stages \ {"ack"}, Goes(a, At(s)), UNCHANGED <<db, cache>>
        PROVE  Store'
    <2>1. At(s) \in Tasks /\ At(s).read = -1 /\ At(s).at # "ack"
      BY IdleType
    <2> QED
      BY <1>a, <1>g, <2>1
  <1>o. ASSUME NEW s \in Stages \ {"ack"}, Goes(a, To(a, s)), UNCHANGED db,
               UNCHANGED cache \/ (pc[a].read > 0 /\ cache' = Filled(a))
        PROVE  Store'
    <2>1. To(a, s) \in Tasks /\ To(a, s).read = -1 /\ To(a, s).at # "ack"
      BY <1>t, ToType
    <2> HIDE DEF To
    <2> QED
      BY <1>o, <1>g, <2>1
  <1>d. ASSUME NEW s \in Stages \ {"ack"}, NEW doc \in Docs,
               Goes(a, [To(a, s) EXCEPT !.doc = doc]), UNCHANGED db,
               UNCHANGED cache \/ (pc[a].read > 0 /\ cache' = Filled(a))
        PROVE  Store'
    <2>1. To(a, s) \in Tasks /\ To(a, s).read = -1 /\ To(a, s).at # "ack"
      BY <1>t, ToType
    <2>2. [To(a, s) EXCEPT !.doc = doc] \in Tasks
      BY <2>1 DEF Tasks
    <2>3. /\ [To(a, s) EXCEPT !.doc = doc].read = -1
          /\ [To(a, s) EXCEPT !.doc = doc].at # "ack"
      BY <2>1 DEF Tasks
    <2> QED
      BY <1>d, <1>g, <2>2, <2>3
  <1>n. ASSUME NEW s \in Stages \ {"ack"}, NEW n \in Nat,
               Goes(a, [To(a, s) EXCEPT !.seen = n]), UNCHANGED db,
               UNCHANGED cache \/ (pc[a].read > 0 /\ cache' = Filled(a))
        PROVE  Store'
    <2>1. To(a, s) \in Tasks /\ To(a, s).read = -1 /\ To(a, s).at # "ack"
      BY <1>t, ToType
    <2>2. [To(a, s) EXCEPT !.seen = n] \in Tasks
      BY <2>1 DEF Tasks
    <2>3. /\ [To(a, s) EXCEPT !.seen = n].read = -1
          /\ [To(a, s) EXCEPT !.seen = n].at # "ack"
      BY <2>1 DEF Tasks
    <2> QED
      BY <1>n, <1>g, <2>2, <2>3
  <1>1. CASE Save(a)
    <2>1. PICK b \in 1 .. Len(db), s \in Thrown :
             Goes(a, [Idle EXCEPT !.doc = Flip(db[b].doc, s), !.base = b,
                                  !.at = IF a = "editor" THEN "enforce" ELSE "check"])
      BY <1>1 DEF Save
    <2> DEFINE r == [Idle EXCEPT !.doc = Flip(db[b].doc, s), !.base = b,
                                 !.at = IF a = "editor" THEN "enforce" ELSE "check"]
    <2>2. Flip(db[b].doc, s) \in Docs /\ b \in Nat
      BY <1>t, FlipType
    <2>3. (IF a = "editor" THEN "enforce" ELSE "check") \in Stages \ {"ack"}
      BY DEF Stages, Wanting
    <2>4. r \in Tasks /\ r.read = -1 /\ r.at # "ack"
      BY <2>2, <2>3, IdleType DEF Tasks
    <2> HIDE DEF r
    <2> QED
      BY <1>1, <1>g, <2>1, <2>4 DEF Save, r
  <1>2. CASE Restore(a)
    <2>1. PICK v \in 1 .. Len(db) :
             Goes(a, [Idle EXCEPT !.doc = db[v].doc,
                                  !.at = IF a = "editor" THEN "enforce" ELSE "previous"])
      BY <1>2 DEF Restore
    <2> DEFINE r == [Idle EXCEPT !.doc = db[v].doc,
                                 !.at = IF a = "editor" THEN "enforce" ELSE "previous"]
    <2>2. (IF a = "editor" THEN "enforce" ELSE "previous") \in Stages \ {"ack"}
      BY DEF Stages, Wanting
    <2>3. r \in Tasks /\ r.read = -1 /\ r.at # "ack"
      BY <1>t, <2>2, IdleType DEF Tasks
    <2> QED
      BY <1>2, <1>g, <2>1, <2>3 DEF Restore
  <1>3. CASE Reset(a) \/ TestEntry(a)
    <2>1. PICK s \in {"delete", "test"}, c \in BOOLEAN :
             Goes(a, [Idle EXCEPT !.at = s, !.confirmed = c]) /\ UNCHANGED <<db, cache>>
      BY <1>3 DEF Reset, TestEntry
    <2> DEFINE r == [Idle EXCEPT !.at = s, !.confirmed = c]
    <2>2. s \in Stages \ {"ack"}
      BY DEF Stages, Wanting
    <2>3. r \in Tasks /\ r.read = -1 /\ r.at # "ack"
      BY <2>2, IdleType DEF Tasks
    <2> QED
      BY <1>g, <2>1, <2>3
  <1>4. CASE Enforce(a)
    BY <1>4, <1>i, <1>o, GetsFills DEF Enforce, Stages, Wanting
  <1>5. CASE Check(a)
    <2>1. "previous" \in Stages \ {"ack"} /\ Len(db) \in Nat
      BY <1>t DEF Stages, Wanting
    <2> QED
      BY <1>5, <1>n, <2>1 DEF Check
  <1>6. CASE Refused(a)
    BY <1>6, <1>i DEF Refused
  <1>7. CASE Previous(a)
    <2>1. "insert" \in Stages \ {"ack"} /\ 0 \in Nat
      BY DEF Stages
    <2>2. \/ Goes(a, Idle)
          \/ Goes(a, [To(a, "insert") EXCEPT !.seen = 0])
      BY <1>7 DEF Previous
    <2> QED
      BY <1>7, <1>i, <1>n, <2>1, <2>2, GetsFills DEF Previous
  <1>8. CASE Exit(a)
    BY <1>8, <1>i, <1>a DEF Exit, Stages
  <1>9. CASE Square(a)
    BY <1>9, <1>i, GetsFills DEF Square, Release
  <1>10. CASE Delete(a)
    BY <1>10, <1>o DEF Delete, Stages, Wanting
  <1>11. CASE Stamp(a)
    <2>1. PICK v \in 1 .. Len(db) :
             Gets(a, v) /\ Goes(a, [To(a, "previous") EXCEPT !.doc = Flip(db[v].doc, "rest")])
      BY <1>11 DEF Stamp
    <2>2. Flip(db[v].doc, "rest") \in Docs /\ "previous" \in Stages \ {"ack"}
      BY <1>t, FlipType DEF Stages, Wanting
    <2> QED
      BY <1>11, <1>d, <2>1, <2>2, GetsFills DEF Stamp
  <1>12. CASE Test(a)
    BY <1>12, <1>i, <1>o, GetsFills DEF Test, Stages
  <1>13. CASE Order(a)
    <2>1. CASE Release(a) /\ UNCHANGED cache
      BY <1>13, <1>i, <2>1 DEF Order, Release
    <2>2. ASSUME NEW v \in 1 .. Len(db), Gets(a, v),
                 Goes(a, [To(a, "fill") EXCEPT !.doc = db[v].doc])
          PROVE  Store'
      BY <1>13, <1>t, <1>d, <2>2, GetsFills DEF Order, Stages
    <2> QED
      BY <1>13, <2>1, <2>2 DEF Order
  <1>14. CASE Fill(a) \/ Row(a)
    BY <1>14, <1>i, <1>a DEF Fill, Row, Release, Stages
  <1>15. CASE Waits(a) \/ (a = "engine" /\ Minute)
    BY <1>15, <1>o DEF Waits, Minute, Take, Stages, Wanting
  <1>16. CASE a = "engine" /\ Pass
    <2>1. PICK v \in 1 .. Len(db) :
             /\ Gets(a, v)
             /\ \/ Release(a)
                \/ Goes(a, [To(a, "fill") EXCEPT !.doc = db[v].doc])
      BY <1>16 DEF Pass
    <2>2. "fill" \in Stages \ {"ack"} /\ db[v].doc \in Docs
      BY <1>t DEF Stages
    <2> QED
      BY <1>16, <1>d, <1>i, <2>1, <2>2, GetsFills DEF Pass, Release
  <1> QED
    BY <1>1, <1>2, <1>3, <1>4, <1>5, <1>6, <1>7, <1>8, <1>9, <1>10, <1>11, <1>12, <1>13,
       <1>14, <1>15, <1>16

LEMMA StoreStep ==
    ASSUME Store, RestTypes, [Next]_vars
    PROVE  Store'
  <1>1. CASE UNCHANGED vars
    BY <1>1 DEF vars, Store, StoreTypes, CacheIsDated, ReadsAreDated, AcksAreDated, NoneOlder
  <1>2. ASSUME NEW a \in Clients, Requests(a) \/ Waits(a)
        PROVE  Store'
    BY <1>2, HandlerStep DEF Requests, Actors
  <1>3. ASSUME NEW a \in Actors, Handles(a)
        PROVE  Store'
    BY <1>3, HandlerStep, AskStep, SeedStep, InsertStep, AckStep DEF Handles
  <1>4. CASE Minute \/ Pass
    BY <1>4, HandlerStep DEF Actors
  <1> QED
    BY <1>1, <1>2, <1>3, <1>4, TickStep DEF Next

-----------------------------------------------------------------------------
(* The lock, the position and the counters *)

\* Whoever holds the lock stands where it is needed, until it releases it.
LEMMA RestStep ==
    ASSUME Store, RestTypes, [Next]_vars
    PROVE  RestTypes'
  <1>t. pc \in [Actors -> Tasks] /\ {MaxRequests, MaxFaults} \subseteq Nat
    BY BoundsAssumption DEF Store, StoreTypes
  <1>g. ASSUME NEW a \in Actors, NEW r, Goes(a, r)
        PROVE  pc'[a] = r /\ \A b \in Actors \ {a} : pc'[b] = pc[b]
    BY <1>t, <1>g DEF Goes
  <1>h. ASSUME NEW a \in Actors, NEW r, Goes(a, r), UNCHANGED lock,
               pc[a].at \in Held => r.at \in Held
        PROVE  lock' \in Actors \cup {"free"} /\ (lock' # "free" => pc'[lock'].at \in Held)
    BY <1>g, <1>h DEF RestTypes
  <1>r. ASSUME NEW a \in Actors, Release(a)
        PROVE  lock' \in Actors \cup {"free"} /\ (lock' # "free" => pc'[lock'].at \in Held)
    BY <1>r DEF Release
  <1>o. \A a \in Actors, s \in Stages : To(a, s).at = s
    BY <1>t, ToType
  <1>n. NoTrade \in [open : BOOLEAN, live : BOOLEAN]
    BY DEF NoTrade
  <1>s. ASSUME Sells
        PROVE  trade' \in [open : BOOLEAN, live : BOOLEAN] /\ faults' \in 0 .. MaxFaults
    <2>1. faults' \in 0 .. MaxFaults
      BY <1>s, <1>t DEF Sells, RestTypes
    <2>2. trade' \in [open : BOOLEAN, live : BOOLEAN]
      BY <1>s, <1>n DEF Sells, RestTypes
    <2> QED
      BY <2>1, <2>2
  <1>1. CASE UNCHANGED vars
    BY <1>1 DEF vars, RestTypes
  <1>2. ASSUME NEW a \in Clients, Requests(a)
        PROVE  RestTypes'
    <2>1. PICK r : Goes(a, r)
      BY <1>2 DEF Requests, Save, Restore, Reset, TestEntry
    <2>2. /\ pc[a].at = "idle" /\ asked' = asked + 1 /\ asked < MaxRequests
          /\ UNCHANGED <<lock, trade, faults>>
      BY <1>2 DEF Requests, Save, Restore, Reset, TestEntry, Asks
    <2>3. pc[a].at \notin Held /\ a \in Actors
      BY <2>2 DEF Held, Actors
    <2>4. lock' \in Actors \cup {"free"} /\ (lock' # "free" => pc'[lock'].at \in Held)
      BY <1>h, <2>1, <2>2, <2>3
    <2> QED
      BY <1>t, <2>2, <2>4 DEF RestTypes
  <1>3. ASSUME NEW a \in Actors, Waits(a) \/ (a = "engine" /\ Minute)
        PROVE  RestTypes'
    <2>1. PICK s \in Held : /\ lock' = a /\ Goes(a, To(a, s))
                            /\ UNCHANGED <<trade, asked, faults>>
      BY <1>3 DEF Waits, Minute, Take, Held
    <2>2. pc'[a].at = s
      BY <1>g, <1>o, <2>1 DEF Stages, Held, Wanting
    <2> QED
      BY <2>1, <2>2 DEF RestTypes
  <1>4. ASSUME NEW a \in Actors,
               \/ Ask(a) \/ Seed(a) \/ Enforce(a) \/ Check(a) \/ Refused(a) \/ Previous(a)
               \/ Insert(a) \/ Ack(a) \/ Exit(a) \/ Delete(a) \/ Stamp(a) \/ Test(a)
        PROVE  RestTypes'
    <2>1. UNCHANGED <<lock, trade, asked, faults>>
      BY <1>4 DEF Ask, Seed, Enforce, Check, Refused, Previous, Insert, Ack, Exit, Delete,
                  Stamp, Test
    <2>2. CASE Ask(a) \/ Seed(a)
      <3>1. PICK n : Goes(a, [pc[a] EXCEPT !.read = n, !.age = 0])
        BY <2>2 DEF Ask, Seed
      <3>2. [pc[a] EXCEPT !.read = n, !.age = 0].at = pc[a].at
        BY <1>t DEF Tasks
      <3> QED
        BY <1>h, <2>1, <3>1, <3>2 DEF RestTypes
    <2>3. CASE ~Ask(a) /\ ~Seed(a)
      <3>1. pc[a].at \notin Held
        BY <1>4, <2>3 DEF Enforce, Check, Refused, Conflicts, Previous, Insert, Ack, Exit,
           Delete,
                          Stamp, Test, Held
      <3>2. PICK r : Goes(a, r)
        BY <1>4, <2>3 DEF Enforce, Check, Refused, Previous, Insert, Ack, Exit, Delete,
           Stamp, Test
      <3> QED
        BY <1>h, <2>1, <3>1, <3>2 DEF RestTypes
    <2> QED
      BY <2>2, <2>3
  <1>5. ASSUME NEW a \in Actors, Square(a)
        PROVE  RestTypes'
    BY <1>5, <1>r, <1>s DEF Square, RestTypes
  <1>6. ASSUME NEW a \in Actors, Order(a)
        PROVE  RestTypes'
    <2>1. ASSUME NEW v, Goes(a, [To(a, "fill") EXCEPT !.doc = db[v].doc]), UNCHANGED lock
          PROVE  lock' \in Actors \cup {"free"} /\ (lock' # "free" => pc'[lock'].at \in Held)
      <3>1. [To(a, "fill") EXCEPT !.doc = db[v].doc].at = "fill"
        BY <1>t, ToType DEF Stages, Tasks
      <3> QED
        BY <1>h, <2>1, <3>1 DEF Held
    <2> QED
      BY <1>6, <1>r, <2>1 DEF Order, RestTypes
  <1>7. ASSUME NEW a \in Actors, Fill(a) \/ Row(a)
        PROVE  RestTypes'
    <2>1. At("row").at \in Held
      BY IdleType DEF Stages, Held
    <2>2. lock' \in Actors \cup {"free"} /\ (lock' # "free" => pc'[lock'].at \in Held)
      BY <1>7, <1>h, <1>r, <2>1 DEF Fill, Row
    <2>3. pc[a].doc["live"] \in BOOLEAN
      BY <1>t DEF Tasks, Docs, Switches
    <2>4. trade' \in [open : BOOLEAN, live : BOOLEAN]
      <3>1. [open |-> TRUE, live |-> pc[a].doc["live"]] \in [open : BOOLEAN, live : BOOLEAN]
        BY <2>3
      <3> QED
        BY <1>7, <3>1 DEF Fill, Row, RestTypes
    <2> QED
      BY <1>7, <2>2, <2>4 DEF Fill, Row, RestTypes
  <1>8. CASE Pass
    <2>1. "engine" \in Actors
      BY DEF Actors
    <2>2. lock' \in Actors \cup {"free"} /\ (lock' # "free" => pc'[lock'].at \in Held)
      <3>1. ASSUME NEW doc, Goes("engine", [To("engine", "fill") EXCEPT !.doc = doc]),
                   UNCHANGED lock
            PROVE  lock' \in Actors \cup {"free"} /\ (lock' # "free" => pc'[lock'].at \in Held)
        <4>1. [To("engine", "fill") EXCEPT !.doc = doc].at = "fill"
          BY <1>t, <2>1, ToType DEF Stages, Tasks
        <4> QED
          BY <1>h, <2>1, <3>1, <4>1 DEF Held
      <3> QED
        BY <1>8, <1>r, <2>1, <3>1 DEF Pass
    <2>3. trade' \in [open : BOOLEAN, live : BOOLEAN] /\ faults' \in 0 .. MaxFaults
      BY <1>8, <1>s, <1>n DEF Pass, Managed, RestTypes
    <2> QED
      BY <1>8, <2>2, <2>3 DEF Pass, RestTypes
  <1>9. CASE Tick
    <2>1. \A a \in Actors : pc'[a].at = pc[a].at
      BY <1>t, <1>9 DEF Tick, Tasks
    <2> QED
      BY <1>9, <2>1 DEF Tick, RestTypes
  <1> QED
    BY <1>1, <1>2, <1>3, <1>4, <1>5, <1>6, <1>7, <1>8, <1>9 DEF Next, Handles, Actors

-----------------------------------------------------------------------------
(* The theorems *)

LEMMA InitIInv == Init => IInv
  <1> SUFFICES ASSUME Init
               PROVE  IInv
    OBVIOUS
  <1>1. db \in Seq(Versions) /\ Len(db) \in Nat
    <2>1. [doc |-> Default, base |-> 0, back |-> Late] \in Versions
      BY DefaultType, LateType DEF Versions
    <2>2. << [doc |-> Default, base |-> 0, back |-> Late] >> \in Seq(Versions)
      BY <2>1
    <2>3. << >> \in Seq(Versions)
      OBVIOUS
    <2>4. db \in Seq(Versions)
      BY <2>2, <2>3 DEF Init
    <2> QED
      BY <2>4
  <1>2. cache = [v |-> 0, age |-> 0] /\ cache \in [v : 0 .. Len(db), age : 0 .. Late]
    BY <1>1, LateType DEF Init
  <1>3. pc \in [Actors -> Tasks] /\ \A a \in Actors : pc[a].read = -1 /\ pc[a].at = "idle"
    BY IdleType DEF Init
  <1>4. Store
    BY <1>1, <1>2, <1>3 DEF Store, StoreTypes, CacheIsDated, ReadsAreDated, AcksAreDated
  <1>5. RestTypes
    BY BoundsAssumption DEF Init, RestTypes, NoTrade
  <1> QED
    BY <1>4, <1>5, IInvParts

LEMMA IInvStep == IInv /\ [Next]_vars => IInv'
  <1> SUFFICES ASSUME IInv, [Next]_vars
               PROVE  IInv'
    OBVIOUS
  <1>1. Store' /\ RestTypes'
    BY StoreStep, RestStep, IInvParts
  <1> QED
    BY <1>1 DEF IInv, Store, TypeOK, StoreTypes, RestTypes, Held

LEMMA IInvHolds == Spec => []IInv
  BY InitIInv, IInvStep, PTL DEF Spec

\* Every read names a version there is, and the lock has a holder that needs it.
THEOREM ConfigControlTypeCorrect == Spec => []TypeOK
  <1>1. IInv => TypeOK
    BY DEF IInv
  <1> QED
    BY <1>1, IInvHolds, PTL

\* Whatever reads, saves, seeds and resets overlap, get_live serves no document that a
\* save replaced longer ago than the TTL (config_store.py:116-131).
THEOREM ServedDocumentIsRecent == Spec => []StaleAtMostTTL
  <1>1. IInv => StaleAtMostTTL
    <2> SUFFICES ASSUME IInv, Fresh, NEW v \in cache.v + 1 .. Len(db)
                 PROVE  db[v].back < TTL
      BY DEF StaleAtMostTTL
    <2>1. db[v].back <= cache.age /\ cache.age < TTL
      BY DEF IInv, Fresh, CacheIsDated, NoneOlder
    <2>2. cache.age \in Nat /\ TTL \in Nat /\ db[v].back \in Int
      <3>1. v \in 1 .. Len(db) /\ Len(db) \in Nat
        BY DEF IInv, TypeOK
      <3>2. db[v] \in Versions
        BY <3>1, ElementOfSeq DEF IInv, TypeOK
      <3>3. db[v].back \in Int
        BY <3>2, LateType DEF Versions
      <3>4. cache.age \in Nat /\ TTL \in Nat
        BY LateType, BoundsAssumption DEF IInv, TypeOK
      <3> QED
        BY <3>3, <3>4
    <2> QED
      BY <2>1, <2>2
  <1> QED
    BY <1>1, IInvHolds, PTL

-----------------------------------------------------------------------------
(* Entries: the engine's and the admin's test orders share the pass lock *)

\* Who is at a stage of the pass lock holds it.
LockIsHeld == \A a \in Actors : pc[a].at \in Held => lock = a

\* What the engine does: its minute, and the entry it decides on.
EngineStages == pc["engine"].at \in {"idle", "pass", "fill", "row"}

FillsFlat == \A a \in Actors : pc[a].at = "fill" => ~trade.open

EngineUnkilled == pc["engine"].at = "fill" => ~pc["engine"].doc["kill"]

EntriesInv == LockIsHeld /\ EngineStages /\ FillsFlat /\ EngineUnkilled

\* Whoever is about to fill an entry finds no position, and nobody else is at work under
\* the lock, where positions are opened and closed; the engine's entry was decided on a
\* document without a kill.
OneEntry ==
    \A a \in Actors :
        pc[a].at = "fill" =>
            /\ ~trade.open
            /\ \A b \in Actors \ {a} : pc[b].at \notin Held
            /\ a = "engine" => ~pc[a].doc["kill"]

\* A position that is open is never replaced by another: it ends first.
PositionEndsFirst == [][trade.open /\ trade'.open => trade' = trade]_vars

\* A task goes on outside the lock.
LEMMA LeavesEntries ==
    ASSUME pc \in [Actors -> Tasks], EntriesInv, NEW a \in Actors \ {"engine"}, NEW r,
           Goes(a, r), r.at \notin Held, UNCHANGED <<lock, trade>>
    PROVE  EntriesInv'
  <1>1. pc'[a] = r /\ \A b \in Actors \ {a} : pc'[b] = pc[b]
    BY DEF Goes
  <1>2. "engine" \in Actors \ {a}
    BY DEF Actors
  <1>3. LockIsHeld'
    BY <1>1 DEF EntriesInv, LockIsHeld
  <1>4. FillsFlat'
    BY <1>1 DEF EntriesInv, FillsFlat, Held
  <1> QED
    BY <1>1, <1>2, <1>3, <1>4 DEF EntriesInv, EngineStages, EngineUnkilled

\* The holder of the lock is done with it.
LEMMA ReleasesEntries ==
    ASSUME pc \in [Actors -> Tasks], EntriesInv, NEW a \in Actors, pc[a].at \in Held, Release(a)
    PROVE  EntriesInv'
  <1>1. pc'[a] = Idle /\ \A b \in Actors \ {a} : pc'[b] = pc[b]
    BY DEF Release, Goes
  <1>2. Idle.at = "idle" /\ "idle" \notin Held /\ "fill" \in Held /\ "engine" \in Actors
    BY IdleType DEF Held, Actors
  <1>3. \A b \in Actors \ {a} : pc[b].at \notin Held
    BY DEF EntriesInv, LockIsHeld
  <1>4. \A b \in Actors : pc'[b].at \notin Held
    BY <1>1, <1>2, <1>3
  <1>5. EngineStages'
    BY <1>1, <1>2 DEF EntriesInv, EngineStages
  <1> QED
    BY <1>2, <1>4, <1>5 DEF EntriesInv, LockIsHeld, FillsFlat, EngineUnkilled

\* The holder of the lock goes on under it.
LEMMA KeepsEntries ==
    ASSUME pc \in [Actors -> Tasks], EntriesInv, NEW a \in Actors, NEW r, Goes(a, r),
           pc[a].at \in Held, UNCHANGED lock,
           r.at = "fill" => ~trade'.open,
           a = "engine" => /\ r.at \in {"pass", "fill", "row"}
                           /\ r.at = "fill" => ~r.doc["kill"]
    PROVE  EntriesInv'
  <1>1. pc'[a] = r /\ \A b \in Actors \ {a} : pc'[b] = pc[b]
    BY DEF Goes
  <1>2. lock = a /\ \A b \in Actors \ {a} : pc[b].at \notin Held
    BY DEF EntriesInv, LockIsHeld
  <1>3. "fill" \in Held /\ "engine" \in Actors
    BY DEF Held, Actors
  <1>4. LockIsHeld'
    BY <1>1, <1>2 DEF LockIsHeld
  <1>5. FillsFlat'
    BY <1>1, <1>2, <1>3 DEF FillsFlat
  <1>6. EngineStages' /\ EngineUnkilled'
    BY <1>1, <1>2, <1>3 DEF EntriesInv, EngineStages, EngineUnkilled
  <1> QED
    BY <1>4, <1>5, <1>6 DEF EntriesInv

\* A read of the live document leaves a task where it is.
LEMMA ReadsEntries ==
    ASSUME pc \in [Actors -> Tasks], EntriesInv, NEW a \in Actors, NEW n,
           Goes(a, [pc[a] EXCEPT !.read = n, !.age = 0]), UNCHANGED <<lock, trade>>
    PROVE  EntriesInv'
  <1>1. \A b \in Actors : pc'[b].at = pc[b].at /\ pc'[b].doc = pc[b].doc
    BY DEF Goes, Tasks
  <1>2. "engine" \in Actors
    BY DEF Actors
  <1> QED
    BY <1>1, <1>2 DEF EntriesInv, LockIsHeld, EngineStages, FillsFlat, EngineUnkilled

LEMMA InitEntries == Init => EntriesInv
  <1> SUFFICES ASSUME Init
               PROVE  EntriesInv
    OBVIOUS
  <1>1. \A a \in Actors : pc[a].at = "idle"
    BY IdleType DEF Init
  <1>2. "engine" \in Actors
    BY DEF Actors
  <1> QED
    BY <1>1, <1>2 DEF EntriesInv, LockIsHeld, EngineStages, FillsFlat, EngineUnkilled, Held

LEMMA EntriesStep ==
    ASSUME IInv, EntriesInv, [Next]_vars
    PROVE  EntriesInv' /\ (trade.open /\ trade'.open => trade' = trade)
  <1> DEFINE Good == EntriesInv' /\ (trade.open /\ trade'.open => trade' = trade)
  <1>t. pc \in [Actors -> Tasks] /\ \A a \in Actors : pc[a] \in Tasks
    BY DEF IInv, TypeOK
  <1>o. \A a \in Actors, s \in Stages : To(a, s).at = s /\ At(s).at = s
    BY <1>t, ToType, IdleType
  <1>e. "engine" \in Actors /\ pc["engine"].at \in {"idle", "pass", "fill", "row"}
    BY DEF Actors, EntriesInv, EngineStages
  <1>f. \A a \in Actors : pc[a].at = "fill" => ~trade.open
    BY DEF EntriesInv, FillsFlat
  <1>s. ASSUME Sells
        PROVE  trade.open /\ trade'.open => trade' = trade
    BY <1>s DEF Sells, NoTrade
  <1>1. CASE UNCHANGED vars
    BY <1>1 DEF vars, EntriesInv, LockIsHeld, EngineStages, FillsFlat, EngineUnkilled
  <1>2. ASSUME NEW a \in Clients, Requests(a)
        PROVE  Good
    <2>1. a \in Actors \ {"engine"} /\ UNCHANGED <<lock, trade>>
      BY <1>2 DEF Clients, Actors, Requests, Save, Restore, Reset, TestEntry
    <2>2. PICK r : Goes(a, r) /\ r.at \notin Held
      <3>1. {"enforce", "check", "previous", "delete", "test"} \cap Held = {}
        BY DEF Held
      <3>2. CASE Save(a)
        <4> DEFINE stage == IF a = "editor" THEN "enforce" ELSE "check"
        <4>1. PICK b \in 1 .. Len(db), s \in Thrown :
                Goes(a, [Idle EXCEPT !.doc = Flip(db[b].doc, s), !.base = b, !.at = stage])
          BY <3>2 DEF Save
        <4>2. [Idle EXCEPT !.doc = Flip(db[b].doc, s), !.base = b, !.at = stage].at = stage
          BY IdleType DEF Tasks
        <4>3. stage \notin Held
          BY <3>1
        <4> QED
          BY <4>1, <4>2, <4>3
      <3>3. CASE Restore(a)
        <4> DEFINE stage == IF a = "editor" THEN "enforce" ELSE "previous"
        <4>1. PICK v \in 1 .. Len(db) : Goes(a, [Idle EXCEPT !.doc = db[v].doc, !.at = stage])
          BY <3>3 DEF Restore
        <4>2. [Idle EXCEPT !.doc = db[v].doc, !.at = stage].at = stage
          BY IdleType DEF Tasks
        <4>3. stage \notin Held
          BY <3>1
        <4> QED
          BY <4>1, <4>2, <4>3
      <3>4. CASE Reset(a)
        <4>1. Goes(a, [Idle EXCEPT !.at = "delete", !.confirmed = TRUE])
          BY <3>4 DEF Reset
        <4>2. [Idle EXCEPT !.at = "delete", !.confirmed = TRUE].at = "delete"
          BY IdleType DEF Tasks
        <4> QED
          BY <3>1, <4>1, <4>2
      <3>5. CASE TestEntry(a)
        <4>1. PICK c \in BOOLEAN : Goes(a, [Idle EXCEPT !.at = "test", !.confirmed = c])
          BY <3>5 DEF TestEntry
        <4>2. [Idle EXCEPT !.at = "test", !.confirmed = c].at = "test"
          BY IdleType DEF Tasks
        <4> QED
          BY <3>1, <4>1, <4>2
      <3> QED
        BY <1>2, <3>2, <3>3, <3>4, <3>5 DEF Requests
    <2> QED
      BY <1>t, <2>1, <2>2, LeavesEntries
  <1>3. ASSUME NEW a \in Actors, Waits(a) \/ (a = "engine" /\ Minute)
        PROVE  Good
    <2>1. PICK s \in {"square", "order", "pass"} :
             /\ lock = "free" /\ lock' = a /\ Goes(a, To(a, s)) /\ UNCHANGED trade
             /\ a = "engine" => s = "pass"
      BY <1>3, <1>e DEF Waits, Minute, Take
    <2>2. pc'[a].at = s /\ \A b \in Actors \ {a} : pc'[b] = pc[b]
      BY <1>t, <1>o, <2>1 DEF Goes, Stages, Wanting
    <2>3. \A b \in Actors : pc[b].at \notin Held
      BY <2>1 DEF EntriesInv, LockIsHeld, Actors, Clients
    <2>4. LockIsHeld' /\ FillsFlat'
      BY <2>1, <2>2, <2>3 DEF LockIsHeld, FillsFlat, Held
    <2>5. EngineStages' /\ EngineUnkilled'
      BY <1>e, <2>1, <2>2, <2>3 DEF EngineStages, EngineUnkilled, Held
    <2> QED
      BY <2>1, <2>4, <2>5 DEF EntriesInv
  <1>4. ASSUME NEW a \in Actors, Ask(a) \/ Seed(a)
        PROVE  Good
    <2>1. PICK n : Goes(a, [pc[a] EXCEPT !.read = n, !.age = 0])
      BY <1>4 DEF Ask, Seed
    <2>2. UNCHANGED <<lock, trade>>
      BY <1>4 DEF Ask, Seed
    <2> QED
      BY <1>t, <2>1, <2>2, ReadsEntries
  <1>5. ASSUME NEW a \in Actors,
               \/ Enforce(a) \/ Check(a) \/ Refused(a) \/ Previous(a)
               \/ Insert(a) \/ Ack(a) \/ Exit(a) \/ Delete(a) \/ Stamp(a) \/ Test(a)
        PROVE  Good
    <2>1. UNCHANGED <<lock, trade>>
      BY <1>5 DEF Enforce, Check, Refused, Previous, Insert, Ack, Exit, Delete, Stamp, Test
    <2>2. a # "engine"
      BY <1>5, <1>e DEF Enforce, Check, Refused, Conflicts, Previous, Insert, Ack, Exit,
                        Delete, Stamp, Test
    <2>3. PICK r : Goes(a, r) /\ r.at \notin Held
      <3> DEFINE Out == {"idle", "check", "previous", "insert", "ack", "exit", "wait", "stamp",
                         "queue"}
      <3>1. Out \subseteq Stages \ Held
        BY DEF Stages, Wanting, Held
      <3>2. \A s \in Out : To(a, s).at = s /\ At(s).at = s /\ s \notin Held
        BY <1>o, <3>1
      <3>3. Idle.at = "idle" /\ "idle" \notin Held
        BY IdleType DEF Held
      <3>4. CASE Enforce(a)
        BY <3>2, <3>3, <3>4 DEF Enforce
      <3>5. CASE Check(a)
        <4>1. Goes(a, [To(a, "previous") EXCEPT !.seen = Len(db)])
          BY <3>5 DEF Check
        <4>2. [To(a, "previous") EXCEPT !.seen = Len(db)].at = To(a, "previous").at
          BY <1>t, ToType, <3>1 DEF Tasks
        <4> QED
          BY <3>2, <4>1, <4>2
      <3>6. CASE Refused(a)
        BY <3>3, <3>6 DEF Refused
      <3>7. CASE Previous(a)
        <4>1. Goes(a, Idle) \/ Goes(a, [To(a, "insert") EXCEPT !.seen = 0])
          BY <3>7 DEF Previous
        <4>2. [To(a, "insert") EXCEPT !.seen = 0].at = To(a, "insert").at
          BY <1>t, ToType, <3>1 DEF Tasks
        <4> QED
          BY <3>2, <3>3, <4>1, <4>2
      <3>8. CASE Insert(a)
        <4>1. Goes(a, [At("ack") EXCEPT !.seen = Len(db'), !.confirmed = pc[a].confirmed])
          BY <3>8 DEF Insert
        <4>2. [At("ack") EXCEPT !.seen = Len(db'), !.confirmed = pc[a].confirmed].at
                = At("ack").at
          BY IdleType, <3>1 DEF Tasks
        <4> QED
          BY <3>2, <4>1, <4>2
      <3>9. CASE Ack(a)
        BY <3>2, <3>3, <3>9 DEF Ack
      <3>10. CASE Exit(a)
        BY <3>2, <3>3, <3>10 DEF Exit
      <3>11. CASE Delete(a)
        BY <3>2, <3>11 DEF Delete
      <3>12. CASE Stamp(a)
        <4>1. PICK v \in 1 .. Len(db) :
                Goes(a, [To(a, "previous") EXCEPT !.doc = Flip(db[v].doc, "rest")])
          BY <3>12 DEF Stamp
        <4>2. [To(a, "previous") EXCEPT !.doc = Flip(db[v].doc, "rest")].at
                = To(a, "previous").at
          BY <1>t, ToType, <3>1 DEF Tasks
        <4> QED
          BY <3>2, <4>1, <4>2
      <3>13. CASE Test(a)
        BY <3>2, <3>3, <3>13 DEF Test
      <3> QED
        BY <1>5, <3>4, <3>5, <3>6, <3>7, <3>8, <3>9, <3>10, <3>11, <3>12, <3>13
    <2> QED
      BY <1>t, <2>1, <2>2, <2>3, LeavesEntries
  <1>6. ASSUME NEW a \in Actors, Square(a)
        PROVE  Good
    <2>1. pc[a].at \in Held /\ Release(a)
      BY <1>6 DEF Square, Held
    <2>2. trade.open /\ trade'.open => trade' = trade
      BY <1>6, <1>s DEF Square
    <2> QED
      BY <1>t, <2>1, <2>2, ReleasesEntries
  <1>7. ASSUME NEW a \in Actors, Order(a)
        PROVE  Good
    <2>1. pc[a].at = "order" /\ pc[a].at \in Held /\ UNCHANGED trade /\ a # "engine"
      BY <1>7, <1>e DEF Order, Held
    <2>2. CASE Release(a)
      BY <1>t, <2>1, <2>2, ReleasesEntries
    <2>3. CASE ~trade.open /\ UNCHANGED lock /\ \E v \in 1 .. Len(db) :
                 Goes(a, [To(a, "fill") EXCEPT !.doc = db[v].doc])
      BY <1>t, <2>1, <2>3, KeepsEntries
    <2> QED
      BY <1>7, <2>2, <2>3 DEF Order
  <1>8. ASSUME NEW a \in Actors, Fill(a)
        PROVE  Good
    <2>1. pc[a].at = "fill" /\ pc[a].at \in Held /\ ~trade.open
      BY <1>8, <1>f DEF Fill, Held
    <2>2. CASE Goes(a, At("row")) /\ UNCHANGED lock
      <3>1. At("row").at = "row"
        BY <1>o DEF Stages
      <3> QED
        BY <1>t, <2>1, <2>2, <3>1, KeepsEntries
    <2>3. CASE Release(a)
      BY <1>t, <2>1, <2>3, ReleasesEntries
    <2> QED
      BY <1>8, <2>2, <2>3 DEF Fill
  <1>9. ASSUME NEW a \in Actors, Row(a)
        PROVE  Good
    <2>1. pc[a].at \in Held /\ Release(a) /\ UNCHANGED trade
      BY <1>9 DEF Row, Held
    <2> QED
      BY <1>t, <2>1, ReleasesEntries
  <1>10. CASE Pass
    <2>1. pc["engine"].at \in Held
      BY <1>10 DEF Pass, Held
    <2>2. CASE Release("engine")
      <3>1. trade.open /\ trade'.open => trade' = trade
        BY <1>10, <1>s DEF Pass, Managed, NoTrade
      <3> QED
        BY <1>t, <1>e, <2>1, <2>2, <3>1, ReleasesEntries
    <2>3. ASSUME NEW doc, ~doc["kill"], trade' = NoTrade, UNCHANGED lock,
                 Goes("engine", [To("engine", "fill") EXCEPT !.doc = doc])
          PROVE  Good
      <3>1. To("engine", "fill") \in Tasks /\ To("engine", "fill").at = "fill"
        BY <1>t, <1>e, ToType DEF Stages
      <3>2. /\ [To("engine", "fill") EXCEPT !.doc = doc].at = "fill"
            /\ [To("engine", "fill") EXCEPT !.doc = doc].doc = doc
        BY <3>1 DEF Tasks
      <3> QED
        BY <1>t, <1>e, <2>1, <2>3, <3>2, KeepsEntries DEF NoTrade
    <2> QED
      BY <1>10, <2>2, <2>3 DEF Pass
  <1>11. CASE Tick
    <2>1. \A a \in Actors : pc'[a].at = pc[a].at /\ pc'[a].doc = pc[a].doc
      BY <1>t, <1>11 DEF Tick, Tasks
    <2>2. UNCHANGED <<lock, trade>>
      BY <1>11 DEF Tick
    <2> QED
      BY <1>e, <2>1, <2>2
      DEF EntriesInv, LockIsHeld, EngineStages, FillsFlat, EngineUnkilled
  <1> QED
    BY <1>1, <1>2, <1>3, <1>4, <1>5, <1>6, <1>7, <1>8, <1>9, <1>10, <1>11
    DEF Next, Handles, Actors, Clients

LEMMA EntriesHold == Spec => []EntriesInv
  BY IInvHolds, InitEntries, EntriesStep, PTL DEF Spec

\* The minute pass and the manual test entry take turns under _pass_lock: whoever is about
\* to fill finds no position and nobody else at work, and the engine was not told to stop
\* by the document it decided on (orchestrator.py:374-384, 416-459, 804-834).
THEOREM OneEntryAtATime == Spec => []OneEntry
  <1>1. EntriesInv => OneEntry
    BY DEF EntriesInv, LockIsHeld, FillsFlat, EngineUnkilled, OneEntry, Held
  <1> QED
    BY <1>1, EntriesHold, PTL

\* Whatever requests and minutes overlap, no entry replaces a position that is open: the
\* engine manages one trade, and a second fill would leave the first without a manager.
THEOREM PositionsDoNotOverlap == Spec => PositionEndsFirst
  <1>1. IInv /\ EntriesInv /\ [Next]_vars => [trade.open /\ trade'.open => trade' = trade]_vars
    BY EntriesStep
  <1> QED
    BY <1>1, IInvHolds, EntriesHold, PTL DEF Spec, PositionEndsFirst
=============================================================================

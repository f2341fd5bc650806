-------------------------- MODULE MarketDataProofs --------------------------
(***************************************************************************)
(* Proofs about the two components of MCMarketData, each under its own     *)
(* specification: the gap fill (GapFill) for any number of days and        *)
(* minutes, and the change of a symbol (SymbolSwitch, instance Switch) for *)
(* any symbols and any number of switches.  They share no state.           *)
(***************************************************************************)
EXTENDS MCMarketData, FiniteSetTheorems, SequenceTheorems, TLAPS

-----------------------------------------------------------------------------
(* GapFill.                                                                *)

\* ClockAssumption and RoomAssumption of GapFill.
FillSettings ==
    {Days, Close} \subseteq Nat \ {0} /\ {Delay, Lag, MinMissing, MinMinutes, MaxFaults} \subseteq Nat

LEMMA FillSettingsHold == FillSettings
  BY ClockAssumption, RoomAssumption DEF FillSettings

Pulling == job.at \in {"reset", "fetch", "write", "mark"}

\* The session d is over.
Over(d) == d < clock.day \/ (d = clock.day /\ clock.min > Close)

\* A run pulls no session of the future.
QueueIsPast ==
    Pulling =>
        job.queue # <<>> /\ \A i \in DOMAIN job.queue : job.queue[i][2] <= clock.day

DoneIsOver == \A d \in Day : ledger[<<"day", d>>] = "done" => Over(d)

PulledIsKnown == \A dm \in pull.bars : Known(dm[1], dm[2])

\* What was cut while it formed is of a session that is not done; what was fetched of a
\* session after its close is all of it.
PartIsOpen ==
    job.at \in {"write", "mark"} =>
        /\ \A dm \in pull.part : ledger[<<"day", dm[1]>>] # "done"
        /\ Unit[1] = "day" /\ pull.whole =>
              /\ Over(Unit[2])
              /\ pull.bars = {Unit[2]} \X Minutes /\ pull.part = {}

WrittenIsWhole ==
    job.at = "mark" /\ Unit[1] = "day" /\ pull.whole =>
        \A m \in Minutes : arch[Unit[2]][m] = "bar"

FillParts ==
    /\ QueueIsPast /\ DoneIsOver /\ PulledIsKnown /\ PartIsOpen /\ WrittenIsWhole
    /\ DoneIsWhole

FillInv == TypeOK /\ FillParts

LEMMA FillNumbers ==
    ASSUME FillSettings
    PROVE  /\ Days \in Nat /\ Close \in Nat /\ Days >= 1 /\ Close >= 1 /\ Delay \in Nat
           /\ MaxFaults \in Nat /\ End \in Nat /\ End >= Close
           /\ 1 \in Day /\ 0 \in 0 .. End /\ 0 \in 0 .. MaxFaults /\ 0 \in 0 .. Close
  BY DEF FillSettings, End, Day

LEMMA FillUnits ==
    ASSUME NEW u \in Units
    PROVE  \/ u[1] = "day" /\ u[2] \in Day /\ u = <<"day", u[2]>>
           \/ u = <<"chain", 0>> /\ u[1] = "chain" /\ u[2] = 0
  <1>1. CASE u \in {"day"} \X Day
    BY <1>1
  <1>2. CASE u = <<"chain", 0>>
    BY <1>2
  <1> QED
    BY <1>1, <1>2 DEF Units

\* The days of the ledger are units; a chain is none of them.
LEMMA FillDays ==
    ASSUME NEW d \in Day
    PROVE  <<"day", d>> \in Units /\ <<"day", d>> # <<"chain", 0>>
  BY DEF Units

LEMMA FillCount ==
    ASSUME FillSettings, NEW S \in SUBSET Minutes
    PROVE  Cardinality(S) \in 0 .. Close
  <1>1. IsFiniteSet(Minutes) /\ Cardinality(Minutes) = Close
    BY FillNumbers, FS_Interval DEF Minutes
  <1>2. IsFiniteSet(S) /\ Cardinality(S) <= Cardinality(Minutes) /\ Cardinality(S) \in Nat
    BY <1>1, FS_Subset, FS_CardinalityType
  <1> QED
    BY <1>1, <1>2, FillNumbers

LEMMA FillStats ==
    ASSUME FillSettings
    PROVE  Stats \in [Day -> [rows : 0 .. Close, bars : 0 .. Close]]
  <1>1. \A d \in Day : Rows(d) \in 0 .. Close /\ Bars(d) \in 0 .. Close
    <2> TAKE d \in Day
    <2>1. /\ {m \in Minutes : live[d][m] # "none"} \in SUBSET Minutes
          /\ {m \in Minutes : arch[d][m] # "none"} \in SUBSET Minutes
      OBVIOUS
    <2> QED
      BY <2>1, FillCount DEF Rows, Bars
  <1> QED
    BY <1>1 DEF Stats

\* The commands of a historical run are units of the past, and there is one.
LEMMA FillCommands ==
    ASSUME FillSettings, TypeOK, Gaps \cup Shorts # {}, NEW q \in Commands
    PROVE  /\ q \in Seq(Units) /\ q # <<>>
           /\ \A i \in DOMAIN q : q[i][2] <= clock.day
  <1> DEFINE W == Wanted
  <1>1. clock.day \in Nat /\ Shorts \subseteq Day /\ Gaps \subseteq Day
        /\ \A d \in Shorts : d < clock.day
    <2>1. clock.day \in Nat
      BY FillNumbers DEF TypeOK, Clocks, Day
    <2> QED
      BY <2>1 DEF Shorts, Gaps, Past, Today
  <1>2. W \subseteq Units /\ W # {} /\ \A u \in W : u[2] <= clock.day
    <2> DEFINE C == IF Gaps = {} THEN {} ELSE {<<"chain", 0>>}
    <2>1. C \subseteq {<<"chain", 0>>} /\ W = ({"day"} \X Shorts) \cup C
      BY DEF Wanted
    <2>2. W # {}
      <3>1. CASE Gaps = {}
        <4>1. PICK d \in Shorts : TRUE
          BY <3>1
        <4>2. <<"day", d>> \in W
          BY <4>1, <2>1
        <4> QED
          BY <4>2
      <3>2. CASE Gaps # {}
        BY <3>2, <2>1
      <3> QED
        BY <3>1, <3>2
    <2>3. \A u \in {"day"} \X Shorts : u \in {"day"} \X Day /\ u[2] <= clock.day
      <3> TAKE u \in {"day"} \X Shorts
      <3>1. u[2] \in Shorts /\ u \in {"day"} \X Day
        BY <1>1
      <3>2. u[2] \in Nat /\ u[2] < clock.day
        BY <3>1, <1>1 DEF Day
      <3> QED
        BY <3>1, <3>2, <1>1
    <2>4. \A u \in {<<"chain", 0>>} : u[2] <= clock.day
      BY <1>1
    <2> HIDE DEF W, C
    <2> QED
      BY <2>1, <2>2, <2>3, <2>4 DEF Units
  <1>3. IsFiniteSet(W)
    <2>1. IsFiniteSet(Day)
      BY FillNumbers, FS_Interval DEF Day
    <2>2. IsFiniteSet({"day"} \X Day) /\ IsFiniteSet({<<"chain", 0>>})
      BY <2>1, FS_Product, FS_Singleton
    <2>3. IsFiniteSet(Units)
      BY <2>2, FS_Union DEF Units
    <2> QED
      BY <1>2, <2>3, FS_Subset
  <1>4. Cardinality(W) \in Nat /\ Cardinality(W) >= 1
    BY <1>2, <1>3, FS_CardinalityType, FS_EmptySet
  <1>5. q \in [1 .. Cardinality(W) -> W]
    <2>1. q \in [1 .. Cardinality(W) -> W]
      BY DEF Commands
    <2> QED
      BY <2>1
  <1> HIDE DEF W
  <1>6. q \in Seq(W) /\ Len(q) = Cardinality(W)
    BY <1>4, <1>5
  <1>7. q \in Seq(Units)
    BY <1>2, <1>5, <1>4
  <1> QED
    BY <1>2, <1>4, <1>5, <1>6, <1>7

\* What the numbers of a state are.
LEMMA FillTypes ==
    ASSUME FillSettings, TypeOK
    PROVE  /\ clock.day \in Day /\ clock.day \in Nat /\ clock.day <= Days
           /\ clock.min \in 0 .. End /\ clock.min \in Nat
           /\ clock = [day |-> clock.day, min |-> clock.min]
           /\ job.queue \in Seq(Units)
           /\ job.upper \in 0 .. Close /\ job.day \in Day \cup {0}
           /\ Idle \in Jobs /\ NoPull \in Pulls
           /\ SinceClose \in [day : Day, min : {0, End}]
  <1>1. clock \in [day : Day, min : 0 .. End] /\ job \in Jobs
    BY DEF TypeOK, Clocks
  <1>2. Idle \in Jobs
    BY FillNumbers, <1>1 DEF Idle, Jobs
  <1>3. NoPull \in Pulls
    BY DEF NoPull, Pulls
  <1>4. SinceClose \in [day : Day, min : {0, End}]
    BY <1>1 DEF SinceClose
  <1> QED
    BY <1>1, <1>2, <1>3, <1>4, FillNumbers DEF Jobs, Day

\* The unit that is pulled is the first of the queue, and no unit of the future.
LEMMA FillUnit ==
    ASSUME FillSettings, TypeOK, QueueIsPast, Pulling
    PROVE  /\ Unit \in Units /\ Unit[2] <= clock.day
           /\ Unit[1] = "day" => Unit[2] \in Day
  <1>1. job.queue \in Seq(Units) /\ job.queue # <<>>
    BY FillTypes DEF QueueIsPast
  <1>2. 1 \in DOMAIN job.queue /\ job.queue[1] \in Units /\ Unit = job.queue[1]
    BY <1>1 DEF Unit
  <1>3. Unit[2] <= clock.day
    BY <1>2 DEF QueueIsPast
  <1> QED
    BY <1>2, <1>3, FillUnits

\* After a unit nothing is held, and what is left of the queue is still of the past.
LEMMA FillEnded ==
    ASSUME FillSettings, TypeOK, QueueIsPast, Pulling, Ended, UNCHANGED clock
    PROVE  /\ job' \in Jobs /\ pull' = NoPull /\ QueueIsPast'
           /\ job'.at \notin {"write", "mark"}
  <1> DEFINE rest == Tail(job.queue)
             next == IF rest = <<>> THEN "close"
                     ELSE IF Head(rest)[1] = "chain" THEN "reset" ELSE "fetch"
  <1>1. job \in Jobs /\ job.queue \in Seq(Units) /\ job.queue # <<>>
    BY FillTypes DEF TypeOK, QueueIsPast
  <1>2. /\ rest \in Seq(Units)
        /\ \A i \in DOMAIN rest : i + 1 \in DOMAIN job.queue /\ rest[i] = job.queue[i + 1]
    BY <1>1
  <1>3. CASE CatchingUp
    <2>1. job' = [job EXCEPT !.queue = job.queue, !.at = "promote"]
      BY <1>3 DEF Ended
    <2>2. job' \in Jobs /\ job'.at = "promote"
      BY <2>1, <1>1 DEF Jobs
    <2> QED
      BY <2>2 DEF Ended, QueueIsPast, Pulling
  <1>4. CASE ~CatchingUp
    <2>1. job' = [job EXCEPT !.queue = rest, !.at = next]
      BY <1>4 DEF Ended
    <2>2. next \in {"close", "reset", "fetch"} /\ (next # "close" => rest # <<>>)
      OBVIOUS
    <2> HIDE DEF next
    <2>3. job' \in Jobs /\ job'.at = next /\ job'.queue = rest
      BY <2>1, <2>2, <1>1, <1>2 DEF Jobs
    <2> HIDE DEF rest
    <2>4. \A i \in DOMAIN rest : rest[i][2] <= clock.day
      BY <1>2 DEF QueueIsPast
    <2>5. QueueIsPast'
      BY <2>2, <2>3, <2>4 DEF QueueIsPast, Pulling
    <2> QED
      BY <2>2, <2>3, <2>5 DEF Ended
  <1> QED
    BY <1>3, <1>4

-----------------------------------------------------------------------------
(* GapFill: each part of the invariant after the steps that leave the       *)
(* archive and the clock alone.                                             *)

LEMMA FillRests ==
    ASSUME FillSettings, FillInv, UNCHANGED <<clock, arch>>, QueueIsPast',
           pull' \in {pull, NoPull}, job'.at \notin {"write", "mark"},
           \A d \in Day : ledger'[<<"day", d>>] = "done" => ledger[<<"day", d>>] = "done"
    PROVE  FillParts'
  <1>1. PulledIsKnown'
    BY DEF FillInv, FillParts, PulledIsKnown, Known, Today, NoPull
  <1>2. DoneIsOver'
    BY DEF FillInv, FillParts, DoneIsOver, Over
  <1>3. PartIsOpen' /\ WrittenIsWhole'
    BY DEF PartIsOpen, WrittenIsWhole
  <1>4. DoneIsWhole'
    BY DEF FillInv, FillParts, DoneIsWhole
  <1> QED
    BY <1>1, <1>2, <1>3, <1>4 DEF FillParts

\* A state that differs in nothing the parts are about.
LEMMA FillStill ==
    ASSUME FillParts, UNCHANGED <<clock, arch, ledger, job, pull>>
    PROVE  FillParts'
  BY DEF FillParts, QueueIsPast, Pulling, DoneIsOver, Over, PulledIsKnown, PartIsOpen,
         WrittenIsWhole, DoneIsWhole, Known, Today, Unit

LEMMA FillTimeParts ==
    ASSUME FillSettings, FillInv, TimePasses
    PROVE  /\ clock' \in Clocks /\ FillParts'
           /\ \A d \in Day, m \in Minutes : Known(d, m) => Known(d, m)'
           /\ \A d \in Day, m \in Minutes :
                d = clock'.day /\ m = clock'.min => Known(d, m)'
  <1>1. clock \in [day : Day, min : 0 .. End] /\ clock # LastInstant
    BY DEF FillInv, TypeOK, Clocks, TimePasses
  <1>2. \/ clock.min < End /\ clock' = [clock EXCEPT !.min = clock.min + 1]
        \/ /\ clock.min = End /\ clock.day < Days
           /\ clock' = [day |-> clock.day + 1, min |-> 0]
    <2>1. CASE clock.min < End
      BY <2>1 DEF TimePasses
    <2>2. CASE ~(clock.min < End)
      <3>1. clock.min = End
        BY <2>2, <1>1, FillNumbers
      <3>2. clock = [day |-> clock.day, min |-> clock.min]
        BY <1>1
      <3>3. clock.day # Days
        BY <3>1, <3>2, <1>1 DEF LastInstant
      <3> QED
        BY <3>1, <3>3, <1>1, <2>2, FillNumbers DEF TimePasses, Today, Day
    <2> QED
      BY <2>1, <2>2
  <1>3. /\ clock.day \in Nat /\ clock.min \in Nat /\ clock'.day \in Nat /\ clock'.min \in Nat
        /\ \/ clock'.day = clock.day /\ clock'.min = clock.min + 1
           \/ clock'.day = clock.day + 1 /\ clock'.min = 0
    BY <1>1, <1>2, FillNumbers DEF Day
  <1>4. clock' \in Clocks
    BY <1>1, <1>2, FillNumbers DEF Day, Clocks
  <1>5. \A d \in Nat : Over(d) => Over(d)'
    BY <1>3, FillNumbers DEF Over
  <1>6. \A d \in Day, m \in Minutes : Known(d, m) => Known(d, m)'
    BY <1>3 DEF Known, Today, Day, Minutes
  <1>7. UNCHANGED <<arch, ledger, job, pull>>
    BY DEF TimePasses
  <1>8. QueueIsPast'
    <2>1. \A i \in DOMAIN job.queue : job.queue[i][2] \in Nat
      <3>1. \A i \in DOMAIN job.queue : job.queue[i] \in Units
        BY FillTypes DEF FillInv
      <3> QED
        BY <3>1, FillUnits DEF Day
    <2>2. \A i \in DOMAIN job.queue :
            job.queue[i][2] <= clock.day => job.queue[i][2] <= clock'.day
      BY <2>1, <1>3
    <2> QED
      BY <2>2, <1>7 DEF QueueIsPast, Pulling, FillInv, FillParts
  <1>9. DoneIsOver'
    BY <1>5, <1>7 DEF DoneIsOver, FillInv, FillParts, Day
  <1>10. PulledIsKnown'
    <2>1. \A dm \in pull.bars : dm[1] \in Day /\ dm[2] \in Minutes
      BY DEF FillInv, TypeOK, Pulls
    <2> QED
      BY <2>1, <1>6, <1>7 DEF PulledIsKnown, FillInv, FillParts
  <1>11. PartIsOpen'
    <2>1. job.at \in {"write", "mark"} /\ Unit[1] = "day" => Unit[2] \in Nat
      BY FillUnit DEF FillInv, FillParts, Pulling, Day
    <2> QED
      BY <2>1, <1>5, <1>7 DEF PartIsOpen, FillInv, FillParts, Unit
  <1>12. WrittenIsWhole' /\ DoneIsWhole'
    BY <1>7 DEF WrittenIsWhole, FillInv, FillParts, Unit, DoneIsWhole
  <1>13. \A d \in Day, m \in Minutes :
           d = clock'.day /\ m = clock'.min => Known(d, m)'
    BY <1>3 DEF Known, Today, Minutes
  <1> QED
    BY <1>4, <1>6, <1>8, <1>9, <1>10, <1>11, <1>12, <1>13 DEF FillParts

-----------------------------------------------------------------------------
(* GapFill: the steps of the puller.                                        *)

LEMMA FillFetched ==
    ASSUME FillSettings, FillInv, job.at = "fetch", UNCHANGED <<clock, arch, ledger>>,
           NEW bars \in Answers(Unit),
           pull' = [bars |-> bars, part |-> bars \cap Forming,
                    whole |-> WindowEnd(Unit) > Close],
           job' = [job EXCEPT !.at = "write"]
    PROVE  job' \in Jobs /\ pull' \in Pulls /\ FillParts'
  <1> DEFINE u == Unit
  <1>1. /\ u \in Units /\ u[2] <= clock.day /\ Pulling
        /\ u[1] = "day" => u[2] \in Day
        /\ u = <<"day", u[2]>> \/ u[1] = "chain"
    BY FillUnit, FillUnits DEF FillInv, FillParts, Pulling
  <1>2. clock.day \in Nat /\ clock.min \in Nat /\ clock.day \in Day /\ Close \in Nat
    BY FillTypes, FillNumbers DEF FillInv
  <1>3. job \in Jobs
    BY DEF FillInv, TypeOK
  <1>4. job' \in Jobs /\ job'.at = "write" /\ job'.queue = job.queue /\ u' = u
    BY <1>3 DEF Jobs, Unit
  <1>5. Forming \subseteq Day \X Minutes
    BY <1>2 DEF Forming, InSession, Today
  <1>6. Window(u) \subseteq Day \X Minutes
    BY <1>1 DEF Window
  <1>7. /\ bars \subseteq Window(u) \cup Forming
        /\ u # <<"day", clock.day>> => bars = Window(u)
        /\ Forming = {} => bars = Window(u)
    BY DEF Answers, Today
  <1>8. pull' \in Pulls
    BY <1>5, <1>6, <1>7 DEF Pulls
  <1>9. PulledIsKnown'
    <2>1. \A dm \in Window(u) : Known(dm[1], dm[2])
      <3> TAKE dm \in Window(u)
      <3>1. CASE u[1] = "day"
        <4>1. PICK k \in Minutes : dm = <<u[2], k>> /\ (u[2] < clock.day \/ k < clock.min)
          BY <3>1 DEF Window, Today
        <4> QED
          BY <4>1, <3>1, <1>1, <1>2 DEF Known, Today, Day, Minutes
      <3>2. CASE u[1] # "day"
        BY <3>2 DEF Window, Known
      <3> QED
        BY <3>1, <3>2
    <2>2. \A dm \in Forming : Known(dm[1], dm[2])
      BY <1>2 DEF Forming, Known, Today
    <2>3. \A dm \in bars : Known(dm[1], dm[2])
      BY <2>1, <2>2, <1>7
    <2> QED
      BY <2>3 DEF PulledIsKnown, Known, Today
  <1>10. PartIsOpen'
    <2>1. \A dm \in Forming : ledger[<<"day", dm[1]>>] # "done"
      <3> SUFFICES ASSUME InSession
                   PROVE  ledger[<<"day", clock.day>>] # "done"
        BY DEF Forming, Today
      <3>1. ~Over(clock.day)
        BY <1>2 DEF Over, InSession, Minutes
      <3> QED
        BY <3>1, <1>2 DEF FillInv, FillParts, DoneIsOver
    <2>2. ASSUME u[1] = "day", WindowEnd(u) > Close
          PROVE  /\ Over(u[2]) /\ bars = {u[2]} \X Minutes
                 /\ bars \cap Forming = {}
      <3>1. u[2] \in Nat /\ ~(u[2] = clock.day /\ clock.min <= Close)
        BY <2>2, <1>1, <1>2 DEF WindowEnd, Today, Day
      <3>2. Over(u[2]) /\ (u[2] < clock.day \/ clock.min > Close)
        BY <3>1, <1>1, <1>2 DEF Over
      <3>3. {k \in Minutes : u[2] < clock.day \/ k < clock.min} = Minutes
        BY <3>2, <1>2 DEF Minutes
      <3>4. Window(u) = {<<u[2], k>> : k \in Minutes}
        BY <3>3, <2>2 DEF Window, Today
      <3>5. Window(u) = {u[2]} \X Minutes
        BY <3>4
      <3>6. CASE u[2] < clock.day
        <4>1. u # <<"day", clock.day>>
          BY <3>6, <3>1, <1>2
        <4>2. bars = {u[2]} \X Minutes
          BY <4>1, <1>7, <3>5
        <4>3. \A dm \in bars \cap Forming : dm[1] = u[2] /\ dm[1] = clock.day
          BY <4>2 DEF Forming, Today
        <4> QED
          BY <4>2, <4>3, <3>2, <3>6, <3>1, <1>2
      <3>7. CASE clock.min > Close
        <4>1. Forming = {}
          BY <3>7, <1>2 DEF Forming, InSession, Minutes
        <4> QED
          BY <4>1, <1>7, <3>5, <3>2
      <3> QED
        BY <3>2, <3>6, <3>7
    <2>3. /\ pull'.bars = bars /\ pull'.part = bars \cap Forming
          /\ pull'.whole => WindowEnd(u) > Close
      OBVIOUS
    <2>4. \A dm \in pull'.part : ledger'[<<"day", dm[1]>>] # "done"
      BY <2>1, <2>3
    <2>5. u[1] = "day" /\ pull'.whole =>
            Over(u[2]) /\ pull'.bars = {u[2]} \X Minutes /\ pull'.part = {}
      BY <2>2, <2>3
    <2> HIDE DEF u
    <2> QED
      BY <2>4, <2>5, <1>4 DEF PartIsOpen, Over, u
  <1>11. QueueIsPast'
    BY <1>1, <1>4 DEF FillInv, FillParts, QueueIsPast
  <1>12. DoneIsOver' /\ DoneIsWhole'
    BY DEF FillInv, FillParts, DoneIsOver, Over, DoneIsWhole
  <1>13. WrittenIsWhole'
    BY <1>4 DEF WrittenIsWhole
  <1> QED
    BY <1>4, <1>8, <1>9, <1>10, <1>11, <1>12, <1>13 DEF FillParts

\* What is written is a minute that is known; the minute that was forming is of a session
\* that is not done; a session that is whole is kept whole.
LEMMA FillWritten ==
    ASSUME FillSettings, FillInv, Write
    PROVE  /\ arch' \in [Day -> [Minutes -> {"none", "part", "bar"}]]
           /\ \A d \in Day, m \in Minutes :
                arch'[d][m] # "none" => arch[d][m] # "none" \/ Known(d, m)
           /\ job' \in Jobs /\ FillParts'
  <1> DEFINE u == Unit
             A == [d \in Day |-> [m \in Minutes |->
                     IF <<d, m>> \notin Kept THEN arch[d][m]
                     ELSE IF <<d, m>> \in pull.part THEN "part" ELSE "bar"]]
  <1>1. /\ arch' = A /\ job.at = "write" /\ job' = [job EXCEPT !.at = "mark"]
        /\ UNCHANGED <<clock, ledger, pull>>
    BY DEF Write
  <1>2. /\ arch \in [Day -> [Minutes -> {"none", "part", "bar"}]] /\ job \in Jobs
        /\ pull \in Pulls
    BY DEF FillInv, TypeOK
  <1>3. job' \in Jobs /\ job'.at = "mark" /\ job'.queue = job.queue /\ u' = u
    BY <1>1, <1>2 DEF Jobs, Unit
  <1>4. arch' \in [Day -> [Minutes -> {"none", "part", "bar"}]]
    BY <1>1, <1>2
  <1>5. Kept \subseteq pull.bars
    BY DEF Kept
  <1>6. \A d \in Day, m \in Minutes :
          /\ arch'[d][m] # arch[d][m] => <<d, m>> \in pull.bars
          /\ arch'[d][m] = arch[d][m] \/ arch'[d][m] = "bar" \/ <<d, m>> \in pull.part
          /\ <<d, m>> \in Kept /\ <<d, m>> \notin pull.part => arch'[d][m] = "bar"
    BY <1>1, <1>5
  <1>7. \A d \in Day, m \in Minutes :
          arch'[d][m] # "none" => arch[d][m] # "none" \/ Known(d, m)
    BY <1>6 DEF FillInv, FillParts, PulledIsKnown
  <1>8. DoneIsWhole'
    <2>1. \A d \in Day, m \in Minutes :
            ledger[<<"day", d>>] = "done" => <<d, m>> \notin pull.part
      BY <1>1 DEF FillInv, FillParts, PartIsOpen
    <2> QED
      BY <2>1, <1>6, <1>1 DEF FillInv, FillParts, DoneIsWhole
  <1>9. WrittenIsWhole'
    <2> SUFFICES ASSUME u[1] = "day", pull.whole, NEW m \in Minutes
                 PROVE  arch'[u[2]][m] = "bar"
      BY <1>3, <1>1 DEF WrittenIsWhole
    <2>1. /\ Over(u[2]) /\ pull.bars = {u[2]} \X Minutes /\ pull.part = {}
      BY <1>1 DEF FillInv, FillParts, PartIsOpen
    <2>2. u[2] \in Day /\ u[2] \in Nat
      BY <1>1, FillUnit DEF FillInv, FillParts, Pulling, Day
    <2>3. clock.day \in Nat /\ clock.min \in Nat /\ Close \in Nat /\ m \in Nat /\ m <= Close
      BY FillTypes, FillNumbers DEF FillInv, Minutes
    <2>4. WindowEnd(u) = Close + 1
      BY <2>1, <2>2, <2>3 DEF WindowEnd, Over, Today
    <2>5. <<u[2], m>> \in Kept
      BY <2>1, <2>3, <2>4 DEF Kept
    <2> QED
      BY <2>1, <2>2, <2>5, <1>6
  <1>10. PartIsOpen'
    BY <1>1, <1>3 DEF FillInv, FillParts, PartIsOpen, Over
  <1>11. QueueIsPast' /\ DoneIsOver' /\ PulledIsKnown'
    BY <1>1, <1>3 DEF FillInv, FillParts, QueueIsPast, Pulling, DoneIsOver, Over,
                      PulledIsKnown, Known, Today
  <1> QED
    BY <1>3, <1>4, <1>7, <1>8, <1>9, <1>10, <1>11 DEF FillParts

\* A session is marked done when all of it has been written, after its close.
LEMMA FillMarked ==
    ASSUME FillSettings, FillInv, Mark
    PROVE  /\ ledger' \in [Units -> {"none", "partial", "error", "done"}]
           /\ job' \in Jobs /\ pull' \in Pulls /\ FillParts'
  <1> DEFINE u == Unit
  <1>1. /\ ledger' = [ledger EXCEPT ![u] = UnitStatus(u)] /\ Pulling /\ Ended
        /\ UNCHANGED <<clock, arch>> /\ job.at = "mark"
    BY DEF Mark, Pulling
  <1>2. ledger \in [Units -> {"none", "partial", "error", "done"}]
    BY DEF FillInv, TypeOK
  <1>3. UnitStatus(u) \in {"partial", "done"}
    BY DEF UnitStatus
  <1>4. ledger' \in [Units -> {"none", "partial", "error", "done"}]
    BY <1>1, <1>2, <1>3
  <1>5. /\ job' \in Jobs /\ pull' = NoPull /\ QueueIsPast'
        /\ job'.at \notin {"write", "mark"}
    BY <1>1, FillEnded DEF FillInv, FillParts
  <1>6. pull' \in Pulls
    BY <1>5, FillTypes DEF FillInv
  <1>7. \A d \in Day : ledger'[<<"day", d>>] = "done" =>
          \/ ledger[<<"day", d>>] = "done"
          \/ u = <<"day", d>> /\ pull.whole
    BY <1>1, <1>2, FillDays DEF UnitStatus
  <1>8. \A d \in Day : u = <<"day", d>> /\ pull.whole =>
          Over(d) /\ \A m \in Minutes : arch[d][m] = "bar"
    BY <1>1 DEF FillInv, FillParts, PartIsOpen, WrittenIsWhole
  <1>9. DoneIsOver' /\ DoneIsWhole'
    BY <1>1, <1>7, <1>8 DEF FillInv, FillParts, DoneIsOver, Over, DoneIsWhole
  <1>10. PulledIsKnown' /\ PartIsOpen' /\ WrittenIsWhole'
    BY <1>5 DEF PulledIsKnown, NoPull, PartIsOpen, WrittenIsWhole
  <1> QED
    BY <1>4, <1>5, <1>6, <1>9, <1>10 DEF FillParts

LEMMA FillFetch ==
    ASSUME FillSettings, FillInv, Fetch
    PROVE  /\ ledger' \in [Units -> {"none", "partial", "error", "done"}]
           /\ faults' \in 0 .. MaxFaults
           /\ job' \in Jobs /\ pull' \in Pulls /\ FillParts'
  <1>1. /\ job.at = "fetch" /\ Pulling /\ UNCHANGED <<clock, arch>>
        /\ ledger \in [Units -> {"none", "partial", "error", "done"}]
        /\ faults \in 0 .. MaxFaults /\ MaxFaults \in Nat
    BY FillNumbers DEF Fetch, Pulling, FillInv, TypeOK
  <1>2. ASSUME Ended,
               \/ UNCHANGED <<ledger, faults>>
               \/ Strikes /\ ledger' = [ledger EXCEPT ![Unit] = "error"]
        PROVE  /\ ledger' \in [Units -> {"none", "partial", "error", "done"}]
               /\ faults' \in 0 .. MaxFaults
               /\ job' \in Jobs /\ pull' \in Pulls /\ FillParts'
    <2>1. /\ job' \in Jobs /\ pull' = NoPull /\ QueueIsPast'
          /\ job'.at \notin {"write", "mark"}
      BY <1>1, <1>2, FillEnded DEF FillInv, FillParts
    <2>2. pull' \in Pulls
      BY <2>1, FillTypes DEF FillInv
    <2>3. /\ ledger' \in [Units -> {"none", "partial", "error", "done"}]
          /\ faults' \in 0 .. MaxFaults
      BY <1>1, <1>2 DEF Strikes
    <2>4. \A d \in Day : ledger'[<<"day", d>>] = "done" => ledger[<<"day", d>>] = "done"
      BY <1>1, <1>2, FillDays
    <2> QED
      BY <1>1, <2>1, <2>2, <2>3, <2>4, FillRests
  <1>3. CASE ledger[Unit] = "done" /\ Ended /\ UNCHANGED <<ledger, faults>>
    BY <1>2, <1>3
  <1>4. ASSUME NEW bars \in Answers(Unit),
               pull' = [bars |-> bars, part |-> bars \cap Forming,
                        whole |-> WindowEnd(Unit) > Close],
               job' = [job EXCEPT !.at = "write"], UNCHANGED <<ledger, faults>>
        PROVE  /\ ledger' \in [Units -> {"none", "partial", "error", "done"}]
               /\ faults' \in 0 .. MaxFaults
               /\ job' \in Jobs /\ pull' \in Pulls /\ FillParts'
    BY <1>1, <1>4, FillFetched
  <1>5. CASE /\ Strikes /\ ledger' = [ledger EXCEPT ![Unit] = "error"]
             /\ Ended
    BY <1>2, <1>5
  <1> QED
    BY <1>3, <1>4, <1>5 DEF Fetch

LEMMA FillDies ==
    ASSUME FillSettings, FillInv, PullerDies
    PROVE  /\ todo' \subseteq {"catchup", "history"}
           /\ job' \in Jobs /\ pull' \in Pulls /\ FillParts'
  <1>1. Pulling /\ UNCHANGED <<clock, arch, ledger>> /\ todo \subseteq {"catchup", "history"}
    BY DEF PullerDies, Pulling, store, FillInv, TypeOK
  <1>2. CASE CatchingUp
    <2>1. /\ job' = Idle /\ pull' = NoPull /\ todo' = todo \ {"catchup"}
      BY <1>2 DEF PullerDies
    <2>2. QueueIsPast' /\ job'.at \notin {"write", "mark"}
      BY <2>1 DEF QueueIsPast, Pulling, Idle
    <2> QED
      BY <1>1, <2>1, <2>2, FillTypes, FillRests DEF FillInv
  <1>3. CASE ~CatchingUp
    <2>1. Ended /\ UNCHANGED todo
      BY <1>3 DEF PullerDies
    <2>2. /\ job' \in Jobs /\ pull' = NoPull /\ QueueIsPast'
          /\ job'.at \notin {"write", "mark"}
      BY <1>1, <2>1, FillEnded DEF FillInv, FillParts
    <2> QED
      BY <1>1, <2>1, <2>2, FillTypes, FillRests DEF FillInv
  <1> QED
    BY <1>2, <1>3

-----------------------------------------------------------------------------
(* GapFill: the scheduler.                                                  *)

\* The steps of the scheduler leave the archive alone, take nothing from the ledger but
\* its marks, and hand the puller units of the past.
LEMMA FillScan ==
    ASSUME FillSettings, FillInv, Scan
    PROVE  job' \in Jobs /\ FillParts'
  <1>1. /\ UNCHANGED <<clock, arch, ledger, pull>> /\ job.at = "idle" /\ job \in Jobs
    BY DEF Scan, store, FillInv, TypeOK
  <1>2. ASSUME NEW top \in Holes \cup {0},
               job' = [job EXCEPT !.at = "fetch", !.queue = << <<"day", Today>> >>,
                                  !.upper = top]
        PROVE  job' \in Jobs /\ QueueIsPast' /\ job'.at \notin {"write", "mark"}
    <2>1. clock.day \in Day /\ clock.day \in Nat
      BY FillTypes DEF FillInv
    <2>2. top \in 0 .. Close
      BY FillNumbers DEF Holes, Minutes
    <2>3. <<"day", clock.day>> \in Units
      BY <2>1, FillDays
    <2>4. << <<"day", clock.day>> >> \in Seq(Units)
      BY <2>3
    <2>5. job' \in Jobs /\ job'.queue = << <<"day", clock.day>> >> /\ job'.at = "fetch"
      BY <1>1, <1>2, <2>2, <2>4 DEF Jobs, Today
    <2> QED
      BY <2>1, <2>5, <1>1 DEF QueueIsPast
  <1>3. CASE UNCHANGED job
    BY <1>1, <1>3, FillStill DEF FillInv
  <1>4. CASE \E top \in Holes \cup {0} :
               job' = [job EXCEPT !.at = "fetch", !.queue = << <<"day", Today>> >>,
                                  !.upper = top]
    BY <1>1, <1>2, <1>4, FillRests
  <1> QED
    BY <1>3, <1>4, <1>1 DEF Scan

LEMMA FillHistory ==
    ASSUME FillSettings, FillInv, HistoryScan
    PROVE  /\ {deferred', done'} \subseteq Day \cup {0}
           /\ todo' \subseteq {"catchup", "history"} /\ faults' \in 0 .. MaxFaults
           /\ job' \in Jobs /\ FillParts'
  <1>1. /\ UNCHANGED <<clock, arch, ledger, pull>> /\ job.at = "idle" /\ job \in Jobs
        /\ todo \subseteq {"catchup", "history"} /\ {deferred, done} \subseteq Day \cup {0}
        /\ faults \in 0 .. MaxFaults /\ MaxFaults \in Nat
    BY FillNumbers DEF HistoryScan, store, FillInv, TypeOK
  <1>2. clock.day \in Day /\ job.day \in Day \cup {0} /\ Idle \in Jobs
    BY FillTypes DEF FillInv
  <1>3. \/ /\ Gaps \cup Shorts # {}
           /\ \E q \in Commands :
                job' = [job EXCEPT !.queue = q,
                          !.at = IF Head(q)[1] = "chain" THEN "reset" ELSE "fetch"]
        \/ job' = Idle
    BY DEF HistoryScan
  <1>4. job' \in Jobs /\ QueueIsPast' /\ job'.at \notin {"write", "mark"}
    <2>1. CASE job' = Idle
      BY <2>1, <1>2 DEF QueueIsPast, Pulling, Idle
    <2>2. ASSUME Gaps \cup Shorts # {}, NEW q \in Commands,
                 NEW a \in {"reset", "fetch"},
                 job' = [job EXCEPT !.queue = q, !.at = a]
          PROVE  job' \in Jobs /\ QueueIsPast' /\ job'.at \notin {"write", "mark"}
      <3>1. /\ q \in Seq(Units) /\ q # <<>>
            /\ \A i \in DOMAIN q : q[i][2] <= clock.day
        BY <2>2, FillCommands DEF FillInv
      <3>2. job' \in Jobs /\ job'.queue = q /\ job'.at = a
        BY <3>1, <2>2, <1>1 DEF Jobs
      <3> QED
        BY <3>1, <3>2, <1>1 DEF QueueIsPast
    <2> QED
      BY <2>1, <2>2, <1>3
  <1>5. /\ {deferred', done'} \subseteq Day \cup {0}
        /\ todo' \subseteq {"catchup", "history"}
    BY <1>1, <1>2 DEF HistoryScan, Today
  <1>6. faults' \in 0 .. MaxFaults
    <2>1. UNCHANGED faults \/ Strikes
      BY DEF HistoryScan
    <2> QED
      BY <2>1, <1>1 DEF Strikes
  <1> QED
    BY <1>1, <1>4, <1>5, <1>6, FillRests

LEMMA FillReset ==
    ASSUME FillSettings, FillInv, Reset
    PROVE  /\ ledger' \in [Units -> {"none", "partial", "error", "done"}]
           /\ job' \in Jobs /\ FillParts'
  <1>1. /\ UNCHANGED <<clock, arch, pull>> /\ job.at = "reset" /\ job \in Jobs
        /\ job' = [job EXCEPT !.at = "fetch"]
        /\ ledger \in [Units -> {"none", "partial", "error", "done"}]
        /\ ledger' = ledger \/ ledger' = Reopened
    BY DEF Reset, FillInv, TypeOK
  <1>2. /\ ledger' \in [Units -> {"none", "partial", "error", "done"}]
        /\ \A d \in Day : ledger'[<<"day", d>>] = "done" => ledger[<<"day", d>>] = "done"
    BY <1>1, FillDays DEF Reopened
  <1>3. job' \in Jobs /\ QueueIsPast' /\ job'.at \notin {"write", "mark"}
    BY <1>1 DEF Jobs, QueueIsPast, Pulling, FillInv, FillParts
  <1> QED
    BY <1>1, <1>2, <1>3, FillRests

\* The steps that leave the puller with nothing to do.
LEMMA FillRested ==
    ASSUME FillSettings, FillInv, UNCHANGED <<clock, arch, ledger>>,
           pull' \in {pull, NoPull}, job'.at \in {"down", "boot", "idle"}
    PROVE  FillParts'
  <1>1. QueueIsPast'
    BY DEF QueueIsPast, Pulling
  <1> QED
    BY <1>1, FillRests

LEMMA FillStarts ==
    ASSUME FillSettings, FillInv, Starts
    PROVE  FillInv'
  <1>1. /\ UNCHANGED <<clock, arch, ledger, pull>> /\ job \in Jobs
        /\ job' = [job EXCEPT !.at = "boot"]
    BY DEF Starts, store, FillInv, TypeOK
  <1>2. job' \in Jobs /\ job'.at = "boot"
    BY <1>1 DEF Jobs
  <1>3. FillParts'
    BY <1>1, <1>2, FillRested
  <1> QED
    BY <1>1, <1>2, <1>3
    DEF Starts, store, loop, FillInv, TypeOK, Known, Today

LEMMA FillWake ==
    ASSUME FillSettings, FillInv, Wake
    PROVE  FillInv'
  <1>1. /\ UNCHANGED <<clock, arch, ledger, pull, up, live, index, deferred, done, faults>>
        /\ job \in Jobs
        /\ job.at = "idle" /\ job' = [job EXCEPT !.day = Today] /\ event' = FALSE
    BY DEF Wake, store, FillInv, TypeOK
  <1>2. clock.day \in Day /\ SinceClose \in [day : Day, min : {0, End}]
    BY FillTypes DEF FillInv
  <1>3. job' \in Jobs /\ job'.at = "idle"
    BY <1>1, <1>2 DEF Jobs, Today
  <1>4. FillParts'
    BY <1>1, <1>3, FillRested
  <1>5. /\ todo' \subseteq {"catchup", "history"}
        /\ last' \in [day : Day, min : {0, End}]
    <2>1. last \in [day : Day, min : {0, End}]
      BY DEF FillInv, TypeOK
    <2>2. todo' \in SUBSET {"catchup", "history"} /\ last' \in {last, SinceClose}
      BY DEF Wake
    <2> QED
      BY <2>1, <2>2, <1>2
  <1> QED
    BY <1>1, <1>3, <1>4, <1>5 DEF FillInv, TypeOK, Known, Today

LEMMA FillPromote ==
    ASSUME FillSettings, FillInv, Promote
    PROVE  FillInv'
  <1>1. /\ UNCHANGED <<clock, up, arch, ledger, event, deferred, done, last, pull>>
        /\ job' = [Idle EXCEPT !.day = job.day] /\ todo' = todo \ {"catchup"}
        /\ job.day \in Day \cup {0} /\ Idle \in Jobs
    BY FillTypes DEF Promote, FillInv
  <1>2. job' \in Jobs /\ job'.at = "idle"
    BY <1>1 DEF Idle, Jobs
  <1>3. FillParts'
    BY <1>1, <1>2, FillRested
  <1>4. /\ live \in [Day -> [Minutes -> {"none", "live", "restored"}]]
        /\ index \in [Day -> [rows : 0 .. Close, bars : 0 .. Close]]
        /\ faults \in 0 .. MaxFaults /\ MaxFaults \in Nat
        /\ \A d \in Day, m \in Minutes : ~Known(d, m) => live[d][m] = "none"
        /\ \A d \in Day, m \in Minutes : ~Known(d, m) => arch[d][m] = "none"
    BY FillNumbers DEF FillInv, TypeOK
  <1>5. /\ live' \in [Day -> [Minutes -> {"none", "live", "restored"}]]
        /\ \A d \in Day, m \in Minutes : ~Known(d, m) => live'[d][m] = "none"
    <2>1. CASE live' = [d \in Day |-> [m \in Minutes |->
                          IF Promoted(d, m) THEN "restored" ELSE live[d][m]]]
      BY <2>1, <1>4 DEF Promoted
    <2>2. CASE UNCHANGED live
      BY <2>2, <1>4
    <2> QED
      BY <2>1, <2>2 DEF Promote
  <1>6. index' \in [Day -> [rows : 0 .. Close, bars : 0 .. Close]]
    <2> DEFINE R == [d \in Day |->
                       Cardinality({m \in Minutes : live'[d][m] # "none"})]
    <2>1. R \in [Day -> 0 .. Close]
      <3> SUFFICES ASSUME NEW d \in Day
                   PROVE  Cardinality({m \in Minutes : live'[d][m] # "none"})
                            \in 0 .. Close
        OBVIOUS
      <3>1. {m \in Minutes : live'[d][m] # "none"} \in SUBSET Minutes
        OBVIOUS
      <3> QED
        BY <3>1, FillCount
    <2>2. \A d \in Day : Bars(d) \in 0 .. Close
      <3> TAKE d \in Day
      <3>1. {m \in Minutes : arch[d][m] # "none"} \in SUBSET Minutes
        OBVIOUS
      <3> QED
        BY <3>1, FillCount DEF Bars
    <2>3. UNCHANGED index
          \/ index' = [d \in Day |-> [rows |-> R[d], bars |-> Bars(d)]]
      BY DEF Promote
    <2> HIDE DEF R
    <2> QED
      BY <2>1, <2>2, <2>3, <1>4
  <1>7. faults' \in 0 .. MaxFaults
    <2>1. UNCHANGED faults \/ Strikes
      BY DEF Promote
    <2> QED
      BY <2>1, <1>4 DEF Strikes
  <1> QED
    BY <1>1, <1>2, <1>3, <1>4, <1>5, <1>6, <1>7
    DEF FillInv, TypeOK, Known, Today

\* Every step of the gap fill preserves its invariant.
LEMMA FillStep ==
    ASSUME FillSettings, FillInv, Next
    PROVE  FillInv'
  <1>1. TypeOK /\ FillParts /\ faults \in 0 .. MaxFaults /\ MaxFaults \in Nat
    BY FillNumbers DEF FillInv, TypeOK
  <1>2. Strikes => faults' \in 0 .. MaxFaults
    BY <1>1 DEF Strikes
  <1>3. ASSUME TimePasses
        PROVE  FillInv'
    <2>1. UNCHANGED <<up, arch, ledger, index, event, deferred, done, last, todo, job, pull,
                      faults>>
      BY <1>3 DEF TimePasses, loop
    <2>2. /\ live \in [Day -> [Minutes -> {"none", "live", "restored"}]]
          /\ \A d \in Day, m \in Minutes :
               ~Known(d, m) => live[d][m] = "none" /\ arch[d][m] = "none"
      BY <1>1 DEF TypeOK
    <2>3. /\ clock' \in Clocks /\ FillParts'
          /\ \A d \in Day, m \in Minutes : Known(d, m) => Known(d, m)'
          /\ \A d \in Day, m \in Minutes :
                d = clock'.day /\ m = clock'.min => Known(d, m)'
      BY <1>3, FillTimeParts
    <2>4. \/ UNCHANGED live
          \/ live' = [live EXCEPT ![clock'.day][clock'.min] = "live"]
      BY <1>3 DEF TimePasses
    <2>5. live' \in [Day -> [Minutes -> {"none", "live", "restored"}]]
      BY <2>2, <2>4
    <2>6. \A d \in Day, m \in Minutes :
            live'[d][m] = live[d][m] \/ (d = clock'.day /\ m = clock'.min)
      BY <2>2, <2>4
    <2>7. \A d \in Day, m \in Minutes :
            ~Known(d, m)' => live'[d][m] = "none" /\ arch'[d][m] = "none"
      BY <2>1, <2>2, <2>3, <2>6
    <2> QED
      BY <1>1, <2>1, <2>3, <2>5, <2>7 DEF FillInv, TypeOK
  <1>4. ASSUME FeedFails \/ FeedRecovers
        PROVE  FillInv'
    <2>1. /\ UNCHANGED <<clock, live, arch, ledger, index, deferred, done, last, todo, job, pull>>
          /\ up' \in BOOLEAN /\ event' \in BOOLEAN /\ faults' \in 0 .. MaxFaults
      BY <1>1, <1>2, <1>4
      DEF FeedFails, FeedRecovers, store, loop, TypeOK
    <2>2. FillParts'
      BY <1>1, <2>1, FillStill
    <2> QED
      BY <1>1, <2>1, <2>2 DEF FillInv, TypeOK, Known, Today
  <1>5. ASSUME HealthRefresh
        PROVE  FillInv'
    <2>1. /\ UNCHANGED <<clock, up, live, arch, ledger, event, deferred, done, last, todo, job,
                         pull, faults>>
          /\ index' = Stats
      BY <1>5 DEF HealthRefresh, loop
    <2>2. FillParts' /\ index' \in [Day -> [rows : 0 .. Close, bars : 0 .. Close]]
      BY <1>1, <2>1, FillStill, FillStats
    <2> QED
      BY <1>1, <2>1, <2>2 DEF FillInv, TypeOK, Known, Today
  <1>6. ASSUME Fetch
        PROVE  FillInv'
    <2>1. UNCHANGED <<clock, up, live, arch, index, event, deferred, done, last, todo>>
      BY <1>6 DEF Fetch, loop
    <2> QED
      BY <1>1, <1>6, <2>1, FillFetch DEF FillInv, TypeOK, Known, Today
  <1>7. ASSUME Write
        PROVE  FillInv'
    <2>1. UNCHANGED <<clock, up, live, ledger, index, event, deferred, done, last, todo, pull,
                      faults>>
      BY <1>7 DEF Write, loop
    <2>2. \A d \in Day, m \in Minutes :
            ~Known(d, m) => live[d][m] = "none" /\ arch[d][m] = "none"
      BY <1>1 DEF TypeOK
    <2>3. \A d \in Day, m \in Minutes :
            ~Known(d, m)' => live'[d][m] = "none" /\ arch'[d][m] = "none"
      BY <1>7, <2>1, <2>2, FillWritten DEF Known, Today
    <2> QED
      BY <1>1, <1>7, <2>1, <2>3, FillWritten DEF FillInv, TypeOK
  <1>8. ASSUME Mark
        PROVE  FillInv'
    <2>1. UNCHANGED <<clock, up, live, arch, index, event, deferred, done, last, todo, faults>>
      BY <1>8 DEF Mark, loop
    <2> QED
      BY <1>1, <1>8, <2>1, FillMarked DEF FillInv, TypeOK, Known, Today
  <1>9. ASSUME PullerDies
        PROVE  FillInv'
    <2>1. /\ UNCHANGED <<clock, up, live, arch, ledger, index, event, deferred, done, last>>
          /\ faults' \in 0 .. MaxFaults
      BY <1>2, <1>9 DEF PullerDies, store
    <2> QED
      BY <1>1, <1>9, <2>1, FillDies DEF FillInv, TypeOK, Known, Today
  <1>10. ASSUME Scan
         PROVE  FillInv'
    <2>1. /\ UNCHANGED <<clock, up, live, arch, ledger, index, event, deferred, done, last, pull>>
          /\ todo' \subseteq todo
      BY <1>10 DEF Scan, store
    <2>2. UNCHANGED faults \/ Strikes
      BY <1>10 DEF Scan
    <2>3. faults' \in 0 .. MaxFaults
      BY <2>2, <1>1, <1>2
    <2> QED
      BY <1>1, <1>10, <2>1, <2>3, FillScan DEF FillInv, TypeOK, Known, Today
  <1>11. ASSUME Promote
         PROVE  FillInv'
    BY <1>11, FillPromote
  <1>12. ASSUME HistoryScan
         PROVE  FillInv'
    <2>1. UNCHANGED <<clock, up, live, arch, ledger, index, event, last, pull>>
      BY <1>12 DEF HistoryScan, store
    <2> QED
      BY <1>1, <1>12, <2>1, FillHistory DEF FillInv, TypeOK, Known, Today
  <1>13. ASSUME Reset
         PROVE  FillInv'
    <2>1. /\ UNCHANGED <<clock, up, live, arch, index, event, deferred, done, last, todo, pull>>
          /\ faults' \in 0 .. MaxFaults
      BY <1>1, <1>2, <1>13 DEF Reset, loop
    <2> QED
      BY <1>1, <1>13, <2>1, FillReset DEF FillInv, TypeOK, Known, Today
  <1>14. ASSUME HistoryEnds
         PROVE  FillInv'
    <2>1. /\ UNCHANGED <<clock, up, live, arch, ledger, event, deferred, last, pull>>
          /\ job' = Idle /\ todo' = {}
          /\ index' = index \/ index' = Stats
          /\ faults' \in 0 .. MaxFaults
          /\ done' = clock.day \/ done' = job.day
      BY <1>1, <1>2, <1>14 DEF HistoryEnds, Today
    <2>2. clock.day \in Day /\ job.day \in Day \cup {0}
      BY <1>1, FillTypes
    <2>3. job' \in Jobs /\ job'.at = "idle"
      BY <1>1, <2>1, FillTypes DEF Idle
    <2>4. FillParts'
      BY <2>1, <2>3, FillRested
    <2>5. index' \in [Day -> [rows : 0 .. Close, bars : 0 .. Close]]
      BY <1>1, <2>1, FillStats DEF TypeOK
    <2> QED
      BY <1>1, <2>1, <2>2, <2>3, <2>4, <2>5 DEF FillInv, TypeOK, Known, Today
  <1>15. ASSUME Starts
         PROVE  FillInv'
    BY <1>15, FillStarts
  <1>16. ASSUME Boot
         PROVE  FillInv'
    <2>1. /\ UNCHANGED <<clock, up, live, arch, ledger, event, deferred, done, pull>>
          /\ job' = Idle /\ todo' \subseteq {"catchup", "history"}
          /\ index' = index \/ index' = Stats
          /\ faults' \in 0 .. MaxFaults
          /\ last' = SinceClose
      BY <1>1, <1>2, <1>16 DEF Boot
    <2>2. SinceClose \in [day : Day, min : {0, End}]
      BY <1>1, FillTypes
    <2>3. job' \in Jobs /\ job'.at = "idle"
      BY <1>1, <2>1, FillTypes DEF Idle
    <2>4. FillParts'
      BY <2>1, <2>3, FillRested
    <2>5. index' \in [Day -> [rows : 0 .. Close, bars : 0 .. Close]]
      BY <1>1, <2>1, FillStats DEF TypeOK
    <2> QED
      BY <1>1, <2>1, <2>2, <2>3, <2>4, <2>5 DEF FillInv, TypeOK, Known, Today
  <1>17. ASSUME Wake
         PROVE  FillInv'
    BY <1>17, FillWake
  <1>18. ASSUME Crash
         PROVE  FillInv'
    <2>1. /\ UNCHANGED <<clock, live, arch, ledger, index>>
          /\ up' = FALSE /\ event' = FALSE /\ deferred' = 0 /\ done' = 0 /\ todo' = {}
          /\ job' = [Idle EXCEPT !.at = "down"] /\ pull' = NoPull
          /\ last' = [day |-> 1, min |-> 0] /\ faults' \in 0 .. MaxFaults
      BY <1>1, <1>2, <1>18 DEF Crash, store
    <2>2. job' \in Jobs /\ job'.at = "down"
      BY <1>1, <2>1, FillTypes DEF Jobs
    <2>3. 0 \in Day \cup {0} /\ FillParts'
      BY <2>1, <2>2, FillRested
    <2>4. last' \in [day : Day, min : {0, End}] /\ pull' \in Pulls
      BY <1>1, <2>1, FillNumbers, FillTypes
    <2> QED
      BY <1>1, <2>1, <2>2, <2>3, <2>4 DEF FillInv, TypeOK, Known, Today
  <1> QED
    BY <1>3, <1>4, <1>5, <1>6, <1>7, <1>8, <1>9, <1>10, <1>11, <1>12, <1>13, <1>14, <1>15,
       <1>16, <1>17, <1>18 DEF Next

LEMMA FillStarted ==
    ASSUME FillSettings, Init
    PROVE  FillInv
  <1>1. Idle \in Jobs /\ NoPull \in Pulls
    BY FillNumbers DEF Idle, NoPull, Jobs, Pulls
  <1>2. job \in Jobs /\ job.at = "down" /\ pull = NoPull
    BY <1>1 DEF Init, Jobs
  <1>3. /\ ledger \in [Units -> {"none", "partial", "error", "done"}]
        /\ \A d \in Day : ledger[<<"day", d>>] = "none"
    BY FillDays DEF Init
  <1>4. /\ clock \in Clocks /\ last \in [day : Day, min : {0, End}]
        /\ index \in [Day -> [rows : 0 .. Close, bars : 0 .. Close]]
        /\ faults \in 0 .. MaxFaults
    BY FillNumbers DEF Init, Clocks
  <1>5. TypeOK
    BY <1>1, <1>2, <1>3, <1>4 DEF Init, TypeOK
  <1>6. FillParts
    BY <1>2, <1>3 DEF FillParts, QueueIsPast, Pulling, DoneIsOver, PulledIsKnown, PartIsOpen,
                      WrittenIsWhole, DoneIsWhole, NoPull
  <1> QED
    BY <1>5, <1>6 DEF FillInv

LEMMA FillHolds ==
    ASSUME FillSettings
    PROVE  Spec => []FillInv
  <1>1. Init => FillInv
    BY FillStarted
  <1>2. FillInv /\ UNCHANGED vars => FillInv'
    <2> SUFFICES ASSUME FillInv, UNCHANGED vars
                 PROVE  FillInv'
      OBVIOUS
    <2>1. FillParts'
      BY FillStill DEF FillInv, vars
    <2> QED
      BY <2>1 DEF FillInv, TypeOK, vars, Known, Today
  <1>3. FillInv /\ [Next]_vars => FillInv'
    BY <1>2, FillStep
  <1> QED
    BY <1>1, <1>3, PTL DEF Spec

\* The clock, the archive, the ledger, the index and the puller keep their shape, and no
\* minute of the future has a row or a bar.
THEOREM GapFillTypeCorrect == Spec => []TypeOK
  <1>1. FillInv => TypeOK
    BY DEF FillInv
  <1> QED
    BY <1>1, FillHolds, FillSettingsHold, PTL

\* A session the ledger calls done is whole in the archive, none of its minutes cut while
\* it formed, however the puller, the process and the vendor's answers interleave with the
\* close (_unit_status, _window, _write of truedata_backfill.py).
THEOREM DoneIsAlwaysWhole == Spec => []DoneIsWhole
  <1>1. FillInv => DoneIsWhole
    BY DEF FillInv, FillParts
  <1> QED
    BY <1>1, FillHolds, FillSettingsHold, PTL


-----------------------------------------------------------------------------
(* SymbolSwitch.                                                           *)

\* A published client has a number, and only a published one.
GenIsPublished == rt.gen = 0 <=> feed.at = "none"

\* CleanSwitchAgrees, and the connect under way speaks of the active symbol too.
AllAgree ==
    clean /\ body.at = "idle" =>
        /\ feed.meta \in {None, rt.active} /\ feed.spot \in {None, rt.active}
        /\ rt.gen # 0 => feed.index = rt.active
        /\ rt.spot \in {None, rt.active} /\ rt.tokens \in {None, rt.active}
        /\ feed.at \in {"spot", "resolve"} => prov.sym = rt.active
        /\ feed.at = "resolve" => prov.spot = rt.active

\* What a switch that has met nothing has done up to where it is.
UnmetIsComplete ==
    body.at # "idle" /\ ~met =>
        /\ feed.at \in {"down", "up"}
        /\ body.at # "spot" => body.token /\ body.spot = body.sym /\ body.gen = rt.gen
        /\ body.at \in {"unsub", "sub"} =>
              /\ body.tokens = body.sym /\ feed.meta = body.sym /\ feed.index = body.sym
              /\ feed.spot \in {None, body.sym}

SwitchInv == Switch!TypeOK /\ GenIsPublished /\ AllAgree /\ UnmetIsComplete

LEMMA SwitchGroups ==
    ASSUME NEW m, NEW i \in Symbols
    PROVE  Switch!Groups(m, i) \subseteq Switch!Insts
  BY DEF Switch!Groups, Switch!Insts

LEMMA SwitchClient ==
    ASSUME NEW i \in Symbols
    PROVE  Switch!Client(i) \in Switch!Clients
  BY DEF Switch!Client, Switch!Clients, Switch!Maybe

LEMMA SwitchIdle ==
    ASSUME Switch!Assumptions
    PROVE  Switch!NoSwitch \in Switch!Switches /\ Switch!NoConnect \in Switch!Connects
  <1>1. 0 \in 0 .. MaxFaults + 1
    BY DEF Switch!Assumptions
  <1> QED
    BY <1>1 DEF Switch!NoSwitch, Switch!Switches, Switch!NoConnect, Switch!Connects,
       Switch!Maybe

LEMMA SwitchFaults ==
    ASSUME Switch!Assumptions, Switch!TypeOK
    PROVE  /\ Switch!Strikes => faults' \in 0 .. MaxFaults /\ faults' = faults + 1 /\ faults' # faults
           /\ \A s, found : Switch!Looked(s, found) =>
                 /\ faults' \in 0 .. MaxFaults
                 /\ found \in {s, None}
                 /\ found = s \/ faults' # faults
  BY DEF Switch!Assumptions, Switch!TypeOK, Switch!Strikes, Switch!Looked

\* Where the window and the swap take a switch: b is the switch with its spot and tokens.
LEMMA SwitchUniverse ==
    ASSUME Switch!Assumptions, Switch!TypeOK, Switch!UniverseAnswers
    PROVE  \E b \in Switch!Switches :
              /\ b.at = "universe" /\ b.by = body.by /\ b.sym = body.sym
              /\ b.token = body.token /\ b.gen = body.gen
              /\ body.spot = body.sym /\ faults' = faults =>
                    b.spot = body.sym /\ b.tokens = body.sym
              /\ \/ /\ ~b.token \/ b.gen = 0 \/ b.gen # rt.gen
                    /\ Switch!Finish(b) /\ UNCHANGED feed
                 \/ feed.at # "up" /\ feed' = Switch!Swapped(b) /\ Switch!Finish(b)
                 \/ /\ feed.at = "up" /\ feed' = Switch!Swapped(b)
                    /\ body' = [b EXCEPT !.at = "unsub", !.old = feed.groups]
                    /\ UNCHANGED <<rt, wait, wanted>>
  <1> DEFINE same == IF rt.active = body.sym THEN rt.spot ELSE None
             window(stored) == IF body.spot # None THEN body.spot
                               ELSE IF stored # None THEN stored ELSE same
             bb(stored, tokens) == [body EXCEPT !.tokens = tokens, !.spot = window(stored)]
  <1>1. PICK stored \in Switch!Maybe, tokens \in Switch!Maybe :
           /\ stored \in {None, body.sym}
           /\ Switch!Looked(IF window(stored) = body.sym THEN body.sym ELSE None, tokens)
           /\ IF ~bb(stored, tokens).token \/ bb(stored, tokens).gen = 0 \/ bb(stored, tokens).gen # rt.gen
              THEN Switch!Finish(bb(stored, tokens)) /\ UNCHANGED feed
              ELSE /\ feed' = Switch!Swapped(bb(stored, tokens))
                   /\ IF feed.at = "up"
                      THEN /\ body' = [bb(stored, tokens) EXCEPT !.at = "unsub", !.old = feed.groups]
                           /\ UNCHANGED <<rt, wait, wanted>>
                      ELSE Switch!Finish(bb(stored, tokens))
    BY DEF Switch!UniverseAnswers
  <1> DEFINE b == bb(stored, tokens)
  <1>2. window(stored) \in Switch!Maybe
    BY <1>1 DEF Switch!TypeOK, Switch!Switches, Switch!Runtimes, Switch!Maybe
  <1>3. /\ b \in Switch!Switches /\ b.at = body.at /\ b.by = body.by /\ b.sym = body.sym
        /\ b.token = body.token /\ b.gen = body.gen /\ b.spot = window(stored) /\ b.tokens = tokens
    <2> HIDE DEF window
    <2> QED
      BY <1>2 DEF Switch!TypeOK, Switch!Switches
  <1>4. body.at = "universe" /\ body.sym # None
    BY DEF Switch!UniverseAnswers, Switch!TypeOK
  <1>5. body.spot = body.sym /\ faults' = faults => b.spot = body.sym /\ b.tokens = body.sym
    <2> SUFFICES ASSUME body.spot = body.sym, faults' = faults
                 PROVE  b.spot = body.sym /\ b.tokens = body.sym
      OBVIOUS
    <2>1. window(stored) = body.sym
      BY <1>4
    <2>2. Switch!Looked(body.sym, tokens)
      BY <1>1, <2>1
    <2> QED
      BY <1>3, <2>1, <2>2, SwitchFaults
  <1>6. \/ (~b.token \/ b.gen = 0 \/ b.gen # rt.gen) /\ Switch!Finish(b) /\ UNCHANGED feed
        \/ feed.at # "up" /\ feed' = Switch!Swapped(b) /\ Switch!Finish(b)
        \/ /\ feed.at = "up" /\ feed' = Switch!Swapped(b)
           /\ body' = [b EXCEPT !.at = "unsub", !.old = feed.groups]
           /\ UNCHANGED <<rt, wait, wanted>>
    BY <1>1
  <1> HIDE DEF b
  <1> QED
    BY <1>3, <1>4, <1>5, <1>6

LEMMA SwitchCounters ==
    ASSUME Switch!Assumptions, Switch!TypeOK, Switch!Next
    PROVE  faults' \in 0 .. MaxFaults /\ asks' \in 0 .. MaxAsks /\ watch' \in BOOLEAN
  <1> USE SwitchFaults DEF Switch!TypeOK
  <1>1. CASE Switch!Connect \/ Switch!InitialSpot \/ Switch!EmptyUniverse \/ Switch!Resolved
    BY <1>1 DEF Switch!Connect, Switch!InitialSpot, Switch!EmptyUniverse, Switch!Resolved
  <1>2. CASE Switch!Handshake \/ Switch!Subscribe \/ Switch!Build \/ Switch!Drop
            \/ Switch!Stop \/ Switch!IndexTick \/ Switch!Refresh
    BY <1>2 DEF Switch!Handshake, Switch!Subscribe, Switch!Build, Switch!Drop, Switch!Stop,
        Switch!IndexTick, Switch!Refresh
  <1>3. CASE Switch!SpotAnswers
    BY <1>3 DEF Switch!SpotAnswers
  <1>4. CASE Switch!UniverseAnswers
    BY <1>4 DEF Switch!UniverseAnswers, Switch!Finish
  <1>5. CASE Switch!Unsubscribed \/ Switch!Subscribed
    BY <1>5 DEF Switch!Unsubscribed, Switch!Subscribed, Switch!Finish
  <1>6. CASE Switch!WatchDecides \/ (\E c \in DOMAIN wait : Switch!Acquire(c))
    BY <1>6 DEF Switch!WatchDecides, Switch!Acquire
  <1>7. CASE \E s \in Symbols : Switch!Ask(s)
    BY <1>7 DEF Switch!Ask, Switch!Assumptions
  <1> QED
    BY <1>1, <1>2, <1>3, <1>4, <1>5, <1>6, <1>7
    DEF Switch!Next, Switch!Step, Switch!FeedStep, Switch!SwitchStep

LEMMA SwitchFeed ==
    ASSUME Switch!Assumptions, Switch!TypeOK, Switch!Next
    PROVE  feed' \in Switch!Clients
  <1> USE DEF Switch!TypeOK
  <1>1. CASE Switch!Connect \/ Switch!InitialSpot \/ Switch!EmptyUniverse \/ Switch!Resolved
    BY <1>1 DEF Switch!Connect, Switch!InitialSpot, Switch!EmptyUniverse, Switch!Resolved,
        Switch!Connecting, Switch!Maybe, Switch!Clients, Switch!Connects
  <1>2. CASE Switch!Handshake
    BY <1>2 DEF Switch!Handshake, Switch!Connecting, Switch!Maybe, Switch!Clients
  <1>3. CASE Switch!Drop \/ Switch!Stop
    BY <1>3 DEF Switch!Drop, Switch!Stop, Switch!Connecting, Switch!Maybe, Switch!Clients
  <1>4. CASE Switch!Subscribe
    BY <1>4 DEF Switch!Subscribe, Switch!Connects, Switch!Connecting, Switch!Maybe,
        Switch!Clients
  <1>5. CASE Switch!Build
    BY <1>5, SwitchClient DEF Switch!Build, Switch!Runtimes
  <1>6. CASE Switch!IndexTick
    BY <1>6 DEF Switch!IndexTick, Switch!Connecting, Switch!Maybe, Switch!Clients
  <1>7. CASE Switch!UniverseAnswers
    <2>1. PICK b \in Switch!Switches : b.sym = body.sym /\ (UNCHANGED feed \/ feed' = Switch!Swapped(b))
      BY <1>7, SwitchUniverse
    <2>2. b.sym \in Symbols
      BY <1>7, <2>1 DEF Switch!UniverseAnswers, Switch!Switches, Switch!Maybe
    <2> QED
      BY <2>1, <2>2 DEF Switch!Swapped, Switch!Switches, Switch!Clients, Switch!Maybe
  <1>8. CASE Switch!Unsubscribed
    BY <1>8 DEF Switch!Unsubscribed, Switch!Finish
  <1>9. CASE Switch!Subscribed
    BY <1>9, SwitchGroups DEF Switch!Subscribed, Switch!Switches, Switch!Connecting,
        Switch!Maybe, Switch!Clients
  <1>10. CASE UNCHANGED feed
    BY <1>10
  <1> QED
    BY <1>1, <1>2, <1>3, <1>4, <1>5, <1>6, <1>7, <1>8, <1>9, <1>10
    DEF Switch!Next, Switch!Step, Switch!FeedStep, Switch!SwitchStep, Switch!SpotAnswers,
        Switch!Refresh, Switch!WatchDecides, Switch!Acquire, Switch!Ask

LEMMA SwitchProv ==
    ASSUME Switch!Assumptions, Switch!TypeOK, Switch!Next
    PROVE  prov' \in Switch!Connects /\ broker' \subseteq Switch!Insts
  <1> USE SwitchIdle, SwitchGroups DEF Switch!TypeOK
  <1>1. CASE Switch!Connect
    BY <1>1 DEF Switch!Connect, Switch!Connects, Switch!Runtimes, Switch!Maybe
  <1>2. CASE Switch!InitialSpot \/ Switch!EmptyUniverse
    BY <1>2 DEF Switch!InitialSpot, Switch!EmptyUniverse, Switch!Connects, Switch!Runtimes,
        Switch!Maybe
  <1>3. CASE Switch!Resolved \/ Switch!Stop
    BY <1>3 DEF Switch!Resolved, Switch!Stop
  <1>4. CASE Switch!Handshake
    BY <1>4 DEF Switch!Handshake, Switch!Connects, Switch!Clients
  <1>5. CASE Switch!Subscribe
    BY <1>5 DEF Switch!Subscribe, Switch!Connects
  <1>6. CASE Switch!Unsubscribed
    BY <1>6 DEF Switch!Unsubscribed
  <1>7. CASE Switch!Subscribed
    BY <1>7 DEF Switch!Subscribed, Switch!Switches, Switch!Maybe
  <1>8. CASE UNCHANGED <<prov, broker>>
    BY <1>8
  <1> QED
    BY <1>1, <1>2, <1>3, <1>4, <1>5, <1>6, <1>7, <1>8
    DEF Switch!Next, Switch!Step, Switch!FeedStep, Switch!SwitchStep, Switch!Build,
        Switch!SpotAnswers, Switch!UniverseAnswers, Switch!Drop, Switch!IndexTick,
        Switch!Refresh, Switch!WatchDecides, Switch!Acquire, Switch!Ask

LEMMA SwitchRuntime ==
    ASSUME Switch!Assumptions, Switch!TypeOK, Switch!Next
    PROVE  rt' \in Switch!Runtimes /\ wanted' \in Symbols
  <1> USE DEF Switch!TypeOK
  <1>1. CASE Switch!Resolved
    BY <1>1 DEF Switch!Resolved, Switch!Connects, Switch!Runtimes, Switch!Maybe
  <1>2. CASE Switch!Stop
    <2>1. 0 \in 0 .. MaxFaults + 1
      BY DEF Switch!Assumptions
    <2> QED
      BY <1>2, <2>1 DEF Switch!Stop, Switch!Runtimes
  <1>3. CASE Switch!Build
    <2>1. faults + 1 \in 0 .. MaxFaults + 1
      BY DEF Switch!Assumptions
    <2> QED
      BY <1>3, <2>1 DEF Switch!Build, Switch!Runtimes
  <1>4. CASE Switch!Refresh
    BY <1>4 DEF Switch!Refresh, Switch!Runtimes, Switch!Clients
  <1>5. CASE Switch!UniverseAnswers
    <2>1. PICK b \in Switch!Switches :
             /\ b.sym = body.sym /\ b.by = body.by
             /\ \/ Switch!Finish(b)
                \/ /\ body' = [b EXCEPT !.at = "unsub", !.old = feed.groups]
                   /\ UNCHANGED <<rt, wait, wanted>>
      BY <1>5, SwitchUniverse
    <2>2. b.sym \in Symbols
      BY <1>5, <2>1 DEF Switch!UniverseAnswers, Switch!Switches, Switch!Maybe
    <2> QED
      BY <2>1, <2>2 DEF Switch!Finish, Switch!Switches, Switch!Runtimes
  <1>6. CASE Switch!Unsubscribed \/ Switch!Subscribed
    BY <1>6 DEF Switch!Unsubscribed, Switch!Subscribed, Switch!Finish, Switch!Switches,
        Switch!Runtimes, Switch!Maybe
  <1>7. CASE UNCHANGED <<rt, wanted>>
    BY <1>7
  <1> QED
    BY <1>1, <1>2, <1>3, <1>4, <1>5, <1>6, <1>7
    DEF Switch!Next, Switch!Step, Switch!FeedStep, Switch!SwitchStep, Switch!Connect,
        Switch!InitialSpot, Switch!EmptyUniverse, Switch!Handshake, Switch!Subscribe,
        Switch!SpotAnswers, Switch!Drop, Switch!IndexTick, Switch!WatchDecides,
        Switch!Acquire, Switch!Ask

LEMMA SwitchWait ==
    ASSUME Switch!Assumptions, Switch!TypeOK, Switch!Next
    PROVE  wait' \in [{"user", "watch"} -> Switch!Maybe]
  <1> USE DEF Switch!TypeOK
  <1>1. CASE Switch!UniverseAnswers
    <2>1. PICK b \in Switch!Switches :
             /\ b.sym = body.sym /\ b.by = body.by
             /\ \/ Switch!Finish(b)
                \/ /\ body' = [b EXCEPT !.at = "unsub", !.old = feed.groups]
                   /\ UNCHANGED <<rt, wait, wanted>>
      BY <1>1, SwitchUniverse
    <2>2. b.sym \in Symbols
      BY <1>1, <2>1 DEF Switch!UniverseAnswers, Switch!Switches, Switch!Maybe
    <2> QED
      BY <2>1, <2>2 DEF Switch!Finish, Switch!Maybe
  <1>2. CASE Switch!Unsubscribed \/ Switch!Subscribed
    BY <1>2 DEF Switch!Unsubscribed, Switch!Subscribed, Switch!Finish, Switch!Maybe
  <1>3. CASE \E s \in Symbols : Switch!Ask(s)
    BY <1>3 DEF Switch!Ask, Switch!Maybe
  <1>4. CASE Switch!WatchDecides
    BY <1>4 DEF Switch!WatchDecides, Switch!Runtimes, Switch!Maybe
  <1>5. CASE UNCHANGED wait
    BY <1>5
  <1> QED
    BY <1>1, <1>2, <1>3, <1>4, <1>5
    DEF Switch!Next, Switch!Step, Switch!FeedStep, Switch!SwitchStep, Switch!Connect,
        Switch!InitialSpot, Switch!EmptyUniverse, Switch!Resolved, Switch!Handshake,
        Switch!Subscribe, Switch!Build, Switch!SpotAnswers, Switch!Drop, Switch!Stop,
        Switch!IndexTick, Switch!Refresh, Switch!Acquire

LEMMA SwitchBody ==
    ASSUME Switch!Assumptions, Switch!TypeOK, Switch!Next
    PROVE  /\ body' \in Switch!Switches
           /\ body'.at # "idle" => body'.sym = wait'[body'.by] /\ body'.sym # None
  <1> USE DEF Switch!TypeOK
  <1>1. CASE \E c \in DOMAIN wait : Switch!Acquire(c)
    <2>1. PICK c \in {"user", "watch"} : Switch!Acquire(c)
      BY <1>1
    <2>2. body' \in Switch!Switches
      BY <2>1, SwitchIdle DEF Switch!Acquire, Switch!Switches
    <2> QED
      BY <2>1, <2>2, SwitchIdle DEF Switch!Acquire, Switch!Switches
  <1>2. CASE Switch!SpotAnswers
    <2>1. PICK token \in BOOLEAN, spot \in Switch!Maybe :
             body' = [body EXCEPT !.at = "universe", !.spot = spot, !.token = token, !.gen = rt.gen]
      BY <1>2 DEF Switch!SpotAnswers
    <2> QED
      BY <1>2, <2>1 DEF Switch!SpotAnswers, Switch!Switches, Switch!Runtimes
  <1>3. CASE Switch!UniverseAnswers
    <2>1. PICK b \in Switch!Switches :
             /\ b.sym = body.sym /\ b.by = body.by
             /\ \/ Switch!Finish(b)
                \/ /\ body' = [b EXCEPT !.at = "unsub", !.old = feed.groups]
                   /\ UNCHANGED <<rt, wait, wanted>>
      BY <1>3, SwitchUniverse
    <2>2. b.sym \in Symbols
      BY <1>3, <2>1 DEF Switch!UniverseAnswers, Switch!Switches, Switch!Maybe
    <2>3. CASE Switch!Finish(b)
      BY <2>3, SwitchIdle DEF Switch!Finish, Switch!NoSwitch
    <2>4. CASE body' = [b EXCEPT !.at = "unsub", !.old = feed.groups] /\ UNCHANGED <<rt, wait, wanted>>
      BY <1>3, <2>1, <2>2, <2>4 DEF Switch!UniverseAnswers, Switch!Switches, Switch!Clients
    <2> QED
      BY <2>1, <2>3, <2>4
  <1>4. CASE Switch!Unsubscribed
    <2>1. CASE body' = [body EXCEPT !.at = "sub"] /\ UNCHANGED wait
      BY <1>4, <2>1 DEF Switch!Unsubscribed, Switch!Switches
    <2>2. CASE Switch!Finish(body)
      BY <2>2, SwitchIdle DEF Switch!Finish, Switch!NoSwitch
    <2> QED
      BY <1>4, <2>1, <2>2 DEF Switch!Unsubscribed
  <1>5. CASE Switch!Subscribed
    BY <1>5, SwitchIdle DEF Switch!Subscribed, Switch!Finish, Switch!NoSwitch
  <1>6. CASE \E s \in Symbols : Switch!Ask(s)
    <2>1. PICK s \in Symbols : Switch!Ask(s)
      BY <1>6
    <2> QED
      BY <2>1 DEF Switch!Ask, Switch!Switches
  <1>7. CASE Switch!WatchDecides
    BY <1>7 DEF Switch!WatchDecides, Switch!Switches
  <1>8. CASE UNCHANGED <<body, wait>>
    BY <1>8
  <1> QED
    BY <1>1, <1>2, <1>3, <1>4, <1>5, <1>6, <1>7, <1>8
    DEF Switch!Next, Switch!Step, Switch!FeedStep, Switch!SwitchStep, Switch!Connect,
        Switch!InitialSpot, Switch!EmptyUniverse, Switch!Resolved, Switch!Handshake,
        Switch!Subscribe, Switch!Build, Switch!Drop, Switch!Stop, Switch!IndexTick,
        Switch!Refresh

LEMMA SwitchTypeStep ==
    ASSUME Switch!Assumptions, Switch!TypeOK, Switch!Next
    PROVE  Switch!TypeOK'
  <1>1. met' \in BOOLEAN /\ clean' \in BOOLEAN
    BY DEF Switch!Next, Switch!Follows, Switch!TypeOK
  <1> QED
    BY <1>1, SwitchCounters, SwitchFeed, SwitchProv, SwitchRuntime, SwitchWait, SwitchBody
    DEF Switch!TypeOK

LEMMA SwitchGenStep ==
    ASSUME Switch!Assumptions, Switch!TypeOK, Switch!Next, GenIsPublished
    PROVE  GenIsPublished'
  <1> USE DEF Switch!TypeOK, GenIsPublished, Switch!Clients, Switch!Runtimes, Switch!Connecting
  <1>1. CASE Switch!Connect \/ Switch!InitialSpot \/ Switch!EmptyUniverse \/ Switch!Resolved
    BY <1>1 DEF Switch!Connect, Switch!InitialSpot, Switch!EmptyUniverse, Switch!Resolved
  <1>2. CASE Switch!Handshake \/ Switch!Subscribe \/ Switch!Drop \/ Switch!Stop
    BY <1>2 DEF Switch!Handshake, Switch!Subscribe, Switch!Drop, Switch!Stop
  <1>3. CASE Switch!Build
    BY <1>3, SwitchFaults DEF Switch!Build, Switch!Client, Switch!Assumptions
  <1>4. CASE Switch!IndexTick \/ Switch!Refresh
    BY <1>4 DEF Switch!IndexTick, Switch!Refresh
  <1>5. CASE Switch!UniverseAnswers
    <2>1. UNCHANGED <<rt, feed>> \/ (rt'.gen = rt.gen /\ feed'.at = feed.at)
      BY <1>5, SwitchUniverse DEF Switch!Finish, Switch!Swapped
    <2> QED
      BY <2>1
  <1>6. CASE Switch!Unsubscribed \/ Switch!Subscribed
    BY <1>6 DEF Switch!Unsubscribed, Switch!Subscribed, Switch!Finish
  <1>7. CASE UNCHANGED <<rt, feed>>
    BY <1>7
  <1> QED
    BY <1>1, <1>2, <1>3, <1>4, <1>5, <1>6, <1>7
    DEF Switch!Next, Switch!Step, Switch!FeedStep, Switch!SwitchStep, Switch!SpotAnswers,
        Switch!WatchDecides, Switch!Acquire, Switch!Ask

\* The history, read forwards: a switch that goes on unmet met nothing in this step either;
\* one that ends clean met nothing at all.
LEMMA SwitchHistory ==
    ASSUME Switch!TypeOK, Switch!Next
    PROVE  /\ body'.at # "idle" /\ ~met' =>
                 /\ feed'.at \notin Switch!Connecting \cup {"none"}
                 /\ rt'.gen = rt.gen /\ faults' = faults
                 /\ body.at # "idle" => ~met
           /\ clean' /\ body.at # "idle" /\ body'.at = "idle" =>
                 /\ feed'.at \notin Switch!Connecting \cup {"none"}
                 /\ rt'.gen = rt.gen /\ faults' = faults /\ ~met /\ body.token
           /\ ~(body.at # "idle" /\ body'.at = "idle") => clean' = clean
  BY DEF Switch!Next, Switch!Follows, Switch!TypeOK

LEMMA SwitchUnmetStep ==
    ASSUME Switch!Assumptions, SwitchInv, Switch!Next
    PROVE  UnmetIsComplete'
  <1> SUFFICES ASSUME body'.at # "idle", ~met'
               PROVE  /\ feed'.at \in {"down", "up"}
                      /\ body'.at # "spot" =>
                            body'.token /\ body'.spot = body'.sym /\ body'.gen = rt'.gen
                      /\ body'.at \in {"unsub", "sub"} =>
                            /\ body'.tokens = body'.sym /\ feed'.meta = body'.sym
                            /\ feed'.index = body'.sym /\ feed'.spot \in {None, body'.sym}
    BY DEF UnmetIsComplete
  <1>1. Switch!TypeOK /\ Switch!TypeOK'
    BY SwitchTypeStep DEF SwitchInv
  <1>2. feed'.at \in {"down", "up"} /\ rt'.gen = rt.gen /\ faults' = faults
    BY <1>1, SwitchHistory DEF Switch!Clients, Switch!Connecting, Switch!TypeOK
  <1>3. body.at # "idle" =>
           /\ feed.at \in {"down", "up"}
           /\ body.at # "spot" => body.token /\ body.spot = body.sym /\ body.gen = rt.gen
           /\ body.at \in {"unsub", "sub"} =>
                 /\ body.tokens = body.sym /\ feed.meta = body.sym /\ feed.index = body.sym
                 /\ feed.spot \in {None, body.sym}
    BY <1>1, SwitchHistory DEF SwitchInv, UnmetIsComplete
  <1>4. rt \in Switch!Runtimes /\ feed \in Switch!Clients /\ body \in Switch!Switches
    BY <1>1 DEF Switch!TypeOK
  <1>5. CASE Switch!Connect \/ Switch!InitialSpot \/ Switch!EmptyUniverse
    BY <1>5, <1>2, <1>3, <1>4 DEF Switch!Connect, Switch!InitialSpot, Switch!EmptyUniverse,
        Switch!Clients, Switch!Connecting
  <1>6. CASE Switch!Resolved \/ Switch!Handshake \/ Switch!Subscribe \/ Switch!Build
    BY <1>6, <1>2, <1>3, <1>4 DEF Switch!Resolved, Switch!Handshake, Switch!Subscribe,
        Switch!Build, Switch!Clients, Switch!Client
  <1>7. CASE Switch!Drop \/ Switch!Stop \/ Switch!IndexTick \/ Switch!Refresh
    BY <1>7, <1>2, <1>3, <1>4 DEF Switch!Drop, Switch!Stop, Switch!IndexTick, Switch!Refresh,
        Switch!Clients, Switch!Runtimes
  <1>8. CASE \E s \in Symbols : Switch!Ask(s)
    <2>1. UNCHANGED <<rt, feed, body>>
      BY <1>8 DEF Switch!Ask
    <2> QED
      BY <2>1, <1>3
  <1>9. CASE Switch!WatchDecides
    BY <1>9, <1>3 DEF Switch!WatchDecides
  <1>10. CASE \E c \in DOMAIN wait : Switch!Acquire(c)
    <2>1. UNCHANGED feed /\ body'.at = "spot"
      BY <1>10 DEF Switch!Acquire, Switch!NoSwitch
    <2> QED
      BY <2>1, <1>2
  <1>11. CASE Switch!SpotAnswers
    <2>1. PICK token \in BOOLEAN, spot \in Switch!Maybe :
             /\ ~token => spot = None
             /\ Switch!Looked(body.sym, spot)
             /\ body' = [body EXCEPT !.at = "universe", !.spot = spot, !.token = token, !.gen = rt.gen]
             /\ body.at = "spot"
      BY <1>11 DEF Switch!SpotAnswers
    <2>2. spot = body.sym /\ body.sym # None
      BY <1>1, <1>2, <2>1, SwitchFaults DEF Switch!TypeOK
    <2> QED
      BY <1>2, <1>4, <2>1, <2>2 DEF Switch!Switches
  <1>12. CASE Switch!UniverseAnswers
    <2>1. PICK b \in Switch!Switches :
             /\ b.sym = body.sym /\ b.gen = body.gen /\ b.token = body.token
             /\ body.spot = body.sym => b.spot = body.sym /\ b.tokens = body.sym
             /\ feed' = Switch!Swapped(b)
             /\ body' = [b EXCEPT !.at = "unsub", !.old = feed.groups]
      <3>1. \A b : ~Switch!Finish(b)
        BY DEF Switch!Finish, Switch!NoSwitch
      <3> QED
        BY <1>12, <1>1, <1>2, <3>1, SwitchUniverse
    <2>2. body.at = "universe"
      BY <1>12 DEF Switch!UniverseAnswers
    <2> QED
      BY <1>2, <1>3, <1>4, <2>1, <2>2 DEF Switch!Switches, Switch!Swapped, Switch!Clients
  <1>13. CASE Switch!Unsubscribed
    <2>1. body' = [body EXCEPT !.at = "sub"] /\ UNCHANGED feed /\ body.at = "unsub"
      BY <1>13 DEF Switch!Unsubscribed, Switch!Finish, Switch!NoSwitch
    <2> QED
      BY <1>2, <1>3, <1>4, <2>1 DEF Switch!Switches
  <1>14. CASE Switch!Subscribed
    BY <1>14 DEF Switch!Subscribed, Switch!Finish, Switch!NoSwitch
  <1> QED
    BY <1>5, <1>6, <1>7, <1>8, <1>9, <1>10, <1>11, <1>12, <1>13, <1>14
    DEF Switch!Next, Switch!Step, Switch!FeedStep, Switch!SwitchStep

LEMMA SwitchAgreeStep ==
    ASSUME Switch!Assumptions, SwitchInv, Switch!Next
    PROVE  AllAgree'
  <1> SUFFICES ASSUME clean', body'.at = "idle"
               PROVE  /\ feed'.meta \in {None, rt'.active} /\ feed'.spot \in {None, rt'.active}
                      /\ rt'.gen # 0 => feed'.index = rt'.active
                      /\ rt'.spot \in {None, rt'.active} /\ rt'.tokens \in {None, rt'.active}
                      /\ feed'.at \in {"spot", "resolve"} => prov'.sym = rt'.active
                      /\ feed'.at = "resolve" => prov'.spot = rt'.active
    BY DEF AllAgree
  <1>1. /\ rt \in Switch!Runtimes /\ feed \in Switch!Clients /\ body \in Switch!Switches
        /\ prov \in Switch!Connects
    BY DEF SwitchInv, Switch!TypeOK
  <1>2. body.at = "idle" =>
           /\ feed.meta \in {None, rt.active} /\ feed.spot \in {None, rt.active}
           /\ rt.gen # 0 => feed.index = rt.active
           /\ rt.spot \in {None, rt.active} /\ rt.tokens \in {None, rt.active}
           /\ feed.at \in {"spot", "resolve"} => prov.sym = rt.active
           /\ feed.at = "resolve" => prov.spot = rt.active
           /\ rt.gen = 0 <=> feed.at = "none"
    BY SwitchHistory DEF SwitchInv, AllAgree, GenIsPublished
  <1>3. body.at # "idle" =>
           /\ feed'.at \notin {"spot", "resolve"}
           /\ rt'.gen = rt.gen /\ faults' = faults
           /\ body.at # "spot" => body.token /\ body.spot = body.sym /\ body.gen = rt.gen
           /\ feed.at # "none" /\ rt.gen # 0
           /\ body.at \in {"unsub", "sub"} =>
                 /\ body.tokens = body.sym /\ feed.meta = body.sym /\ feed.index = body.sym
                 /\ feed.spot \in {None, body.sym}
    BY SwitchHistory DEF SwitchInv, UnmetIsComplete, GenIsPublished, Switch!Connecting
  <1>4. CASE Switch!Connect
    BY <1>4, <1>1, <1>2 DEF Switch!Connect, Switch!NoConnect, Switch!Clients,
        Switch!Runtimes, Switch!Connects
  <1>5. CASE Switch!InitialSpot
    <2>1. PICK spot \in Switch!Maybe :
             /\ Switch!Looked(prov.sym, spot) \/ (spot = rt.active /\ Switch!Strikes)
             /\ feed' = [feed EXCEPT !.at = IF spot = None THEN "down" ELSE "resolve"]
             /\ prov' = [prov EXCEPT !.sym = rt.active, !.spot = spot]
             /\ UNCHANGED <<rt, body>> /\ feed.at = "spot"
      BY <1>5 DEF Switch!InitialSpot
    <2>2. spot \in {None, rt.active}
      BY <1>2, <2>1, SwitchFaults DEF SwitchInv
    <2> QED
      BY <1>1, <1>2, <2>1, <2>2 DEF Switch!Clients, Switch!Connects
  <1>6. CASE Switch!EmptyUniverse \/ Switch!Resolved
    BY <1>6, <1>1, <1>2 DEF Switch!EmptyUniverse, Switch!Resolved, Switch!Clients,
        Switch!Runtimes, Switch!Connects
  <1>7. CASE Switch!Handshake
    BY <1>7, <1>1, <1>2 DEF Switch!Handshake, Switch!Clients, Switch!Runtimes,
        Switch!Connects
  <1>8. CASE Switch!Subscribe
    BY <1>8, <1>1, <1>2 DEF Switch!Subscribe, Switch!Clients, Switch!Runtimes,
        Switch!Connects
  <1>9. CASE Switch!Drop \/ Switch!Stop
    BY <1>9, <1>1, <1>2 DEF Switch!Drop, Switch!Stop, Switch!Clients, Switch!Runtimes,
        Switch!Connects
  <1>10. CASE Switch!Build
    BY <1>10, <1>1, <1>2 DEF Switch!Build, Switch!Client, Switch!Clients, Switch!Runtimes,
        Switch!Connects
  <1>11. CASE Switch!IndexTick \/ Switch!Refresh
    BY <1>11, <1>1, <1>2 DEF Switch!IndexTick, Switch!Refresh, Switch!Clients,
        Switch!Runtimes, Switch!Connects
  <1>12. CASE (\E c \in DOMAIN wait : Switch!Acquire(c)) \/ Switch!SpotAnswers
    BY <1>12, <1>1 DEF Switch!Acquire, Switch!SpotAnswers, Switch!NoSwitch, Switch!Switches
  <1>13. CASE \E s \in Symbols : Switch!Ask(s)
    <2>1. UNCHANGED <<rt, feed, prov, body>>
      BY <1>13 DEF Switch!Ask
    <2> QED
      BY <2>1, <1>2
  <1>14. CASE Switch!WatchDecides
    BY <1>14, <1>2 DEF Switch!WatchDecides
  <1>15. CASE Switch!UniverseAnswers
    <2>1. PICK b \in Switch!Switches :
             /\ b.sym = body.sym /\ b.gen = body.gen /\ b.token = body.token
             /\ body.spot = body.sym => b.spot = body.sym /\ b.tokens = body.sym
             /\ feed' = Switch!Swapped(b) \/ ~b.token \/ b.gen = 0 \/ b.gen # rt.gen
             /\ Switch!Finish(b)
      BY <1>15, <1>1, <1>3, SwitchUniverse DEF SwitchInv, Switch!UniverseAnswers,
         Switch!Switches
    <2>2. body.at = "universe"
      BY <1>15 DEF Switch!UniverseAnswers
    <2> QED
      BY <1>1, <1>3, <2>1, <2>2 DEF Switch!Switches, Switch!Swapped, Switch!Clients,
         Switch!Runtimes,
         Switch!Finish
  <1>16. CASE Switch!Unsubscribed
    <2>1. Switch!Strikes /\ body.at = "unsub"
      BY <1>16, <1>1 DEF Switch!Unsubscribed, Switch!Switches
    <2> QED
      BY <1>3, <2>1, SwitchFaults DEF SwitchInv
  <1>17. CASE Switch!Subscribed
    <2>1. /\ Switch!Finish(body) /\ body.at = "sub" /\ feed'.meta = feed.meta
          /\ feed'.index = feed.index /\ feed'.spot = feed.spot /\ feed'.at = feed.at
      BY <1>17, <1>1 DEF Switch!Subscribed, Switch!Clients
    <2>2. body.spot = body.sym /\ body.tokens = body.sym
      BY <1>3, <2>1
    <2> QED
      BY <1>1, <1>3, <2>1, <2>2 DEF Switch!Finish, Switch!Runtimes
  <1> QED
    BY <1>4, <1>5, <1>6, <1>7, <1>8, <1>9, <1>10, <1>11, <1>12, <1>13, <1>14, <1>15, <1>16,
       <1>17
    DEF Switch!Next, Switch!Step, Switch!FeedStep, Switch!SwitchStep

LEMMA SwitchInvInit ==
    ASSUME Switch!Assumptions, Switch!Init
    PROVE  SwitchInv
  <1>1. PICK s \in Symbols :
           /\ rt = [active |-> s, tokens |-> None, spot |-> None, gen |-> 1]
           /\ feed = Switch!Client(s) /\ wanted = s
    BY DEF Switch!Init
  <1>2. {0, 1} \subseteq 0 .. MaxFaults + 1 /\ 0 \in 0 .. MaxAsks /\ 0 \in 0 .. MaxFaults
    BY DEF Switch!Assumptions
  <1>3. rt \in Switch!Runtimes
    BY <1>1, <1>2 DEF Switch!Runtimes, Switch!Maybe
  <1>4. Switch!TypeOK
    <2>1. feed \in Switch!Clients /\ prov \in Switch!Connects /\ body \in Switch!Switches
      BY <1>1, SwitchClient, SwitchIdle DEF Switch!Init
    <2>2. wait \in [{"user", "watch"} -> Switch!Maybe] /\ broker = {} /\ body.at = "idle"
      BY DEF Switch!Init, Switch!Maybe, Switch!NoSwitch
    <2> QED
      BY <1>1, <1>2, <1>3, <2>1, <2>2 DEF Switch!Init, Switch!TypeOK
  <1> QED
    BY <1>1, <1>4 DEF Switch!Init, SwitchInv, GenIsPublished, AllAgree, UnmetIsComplete,
       Switch!Client, Switch!NoSwitch

LEMMA SwitchInvHolds ==
    ASSUME Switch!Assumptions
    PROVE  Switch!Spec => []SwitchInv
  <1>1. Switch!Init => SwitchInv
    BY SwitchInvInit
  <1>2. SwitchInv /\ [Switch!Next]_Switch!vars => SwitchInv'
    <2> SUFFICES ASSUME SwitchInv, [Switch!Next]_Switch!vars
                 PROVE  SwitchInv'
      OBVIOUS
    <2>1. CASE Switch!Next
      BY <2>1, SwitchTypeStep, SwitchGenStep, SwitchAgreeStep, SwitchUnmetStep DEF SwitchInv
    <2>2. CASE UNCHANGED Switch!vars
      BY <2>2 DEF Switch!vars, SwitchInv, Switch!TypeOK, GenIsPublished, AllAgree,
         UnmetIsComplete
    <2> QED
      BY <2>1, <2>2
  <1> QED
    BY <1>1, <1>2, PTL DEF Switch!Spec

\* What runs, what is asked for, what is held and what is waited for keep their shape
\* through every interleaving of a switch, its retries and the pollers.
THEOREM SwitchTypeCorrect == Switch!Spec => []Switch!TypeOK
  <1>1. SwitchInv => Switch!TypeOK
    BY DEF SwitchInv
  <1> QED
    BY <1>1, SwitchInvHolds, SwitchAssumption, PTL

\* symbol_controller.py:211-333, ws_client.py:367-407, feed_factory.py:118-200: for any
\* symbols, any number of switches, faults and rebuilds, a switch that met nothing leaves
\* the chain, the index and the spot with the active symbol, over every later reconnect.
THEOREM CleanSwitchAlwaysAgrees == Switch!Spec => []CleanSwitchAgrees
  <1>1. SwitchInv => CleanSwitchAgrees
    BY DEF SwitchInv, AllAgree, CleanSwitchAgrees, Switch!CleanSwitchAgrees
  <1> QED
    BY <1>1, SwitchInvHolds, SwitchAssumption, PTL
=============================================================================

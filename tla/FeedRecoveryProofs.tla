------------------------- MODULE FeedRecoveryProofs -------------------------
(***************************************************************************)
(* Proofs about FeedRecovery: the session steward leaves the process only  *)
(* after its ladder, for any times, any thresholds and any faults.         *)
(***************************************************************************)
EXTENDS FeedRecovery, TLAPS

\* TimesAssumption of FeedRecovery, of the times the proof looks at.
LadderSettings == {SuicideAfter, Gap} \subseteq Nat

LEMMA LadderSettingsHold == LadderSettings
  BY TimesAssumption DEF LadderSettings

\* What the steward may remember, without the bounds of the times.
Memories == [step : {0, 1, 2, 3}, down : Nat \cup {-1}, rebuilt : BOOLEAN, gap : Int, since : Int,
             deaths : Int, woken : BOOLEAN, rotated : BOOLEAN]
Tries == {"no", "replaced", "rotation"}

\* A memory of an episode that is past the rotation's rung, or has rebuilt, has tried.
Backed(s, tr) == s.down # -1 /\ (s.step \in {2, 3} \/ s.rebuilt) => tr # "no"

LadderInv ==
    /\ st \in Memories /\ tried \in Tries
    /\ Backed(st, tried)
    /\ pc \in {"universe", "start", "exited"} => tried # "no"

LEMMA LadderJudged ==
    ASSUME LadderSettings, NEW s \in Memories, NEW sess, NEW tr \in Tries, Backed(s, tr),
           Judged(s, sess, tr)
    PROVE  LadderInv'
  <1>1. pc' \in {"exited", "sleep"} /\ st' = s /\ tried' = tr
    BY DEF Judged
  <1>2. pc' = "exited" => s.down # -1 /\ s.rebuilt
    BY DEF Judged, ShouldExit, LadderSettings, Memories
  <1> QED
    BY <1>1, <1>2 DEF LadderInv, Backed

LEMMA LadderEscalate ==
    ASSUME LadderSettings, NEW s \in Memories, NEW sess, NEW tr \in Tries, NEW forced \in BOOLEAN,
           Backed(s, tr), s.down # -1, Escalate(s, sess, tr, forced)
    PROVE  LadderInv'
  <1> DEFINE t == [s EXCEPT !.gap = 0]
  <1>1. t \in Memories /\ t.down = s.down /\ t.step = s.step /\ t.rebuilt = s.rebuilt
    BY DEF Memories
  <1>2. Backed(t, tr)
    BY <1>1 DEF Backed
  <1>3. CASE Judged(s, sess, tr)
    BY <1>3, LadderJudged
  <1>4. CASE Rung(s, sess) = 0 /\ Judged([t EXCEPT !.step = 1], sess, tr)
    <2>1. [t EXCEPT !.step = 1] \in Memories /\ Backed([t EXCEPT !.step = 1], tr)
      <3>1. \A m \in Memories : /\ [m EXCEPT !.step = 1] \in Memories
                                /\ Backed(m, tr) => Backed([m EXCEPT !.step = 1], tr)
        BY DEF Memories, Backed
      <3> HIDE DEF t
      <3> QED
        BY <1>1, <1>2, <3>1
    <2> QED
      BY <1>4, <2>1, LadderJudged
  <1>5. CASE pc' = "login" /\ st' = t /\ tried' = tr
    BY <1>1, <1>2, <1>5 DEF LadderInv
  <1>6. CASE /\ Rung(s, sess) \in {2, 3} /\ pc' \in {"universe", "start"}
             /\ st' = t /\ tried' = tr
    <2>1. s.step \in {2, 3}
      BY <1>6 DEF Rung
    <2> QED
      BY <1>1, <1>2, <1>6, <2>1 DEF LadderInv, Backed
  <1>7. Rung(s, sess) \in {0, 1, 2, 3}
    BY DEF Rung, Memories
  <1> QED
    BY <1>3, <1>4, <1>5, <1>6, <1>7 DEF Escalate, Rebuild

LEMMA LadderMemories ==
    ASSUME NEW s \in Memories, NEW tr \in Tries, Backed(s, tr)
    PROVE  /\ Reset(s) \in Memories /\ Reset(s).down = -1
           /\ Episode(s) \in Memories /\ Episode(s).down # -1
           /\ Carried(s, tr) \in Tries
           /\ Backed(Episode(s), Carried(s, tr))
           /\ Noted(s) \in Memories /\ Noted(s).down = s.down
           /\ Noted(s).step = s.step /\ Noted(s).rebuilt = s.rebuilt
  <1>1. Reset(s) \in Memories /\ Reset(s).down = -1 /\ Reset(s).step = 0
        /\ ~Reset(s).rebuilt
    BY DEF Reset, Memories
  <1>2. /\ Episode(s) \in Memories /\ Episode(s).down # -1
        /\ s.down = -1 => Episode(s).step = 0 /\ ~Episode(s).rebuilt
        /\ s.down # -1 => Episode(s) = s
    BY <1>1 DEF Episode, Memories
  <1>3. Carried(s, tr) \in Tries /\ Backed(Episode(s), Carried(s, tr))
    BY <1>2 DEF Carried, Backed, Tries
  <1>4. Deaths(s) \in Int
    BY DEF Deaths, Memories
  <1>5. /\ Noted(s) \in Memories /\ Noted(s).down = s.down
        /\ Noted(s).step = s.step /\ Noted(s).rebuilt = s.rebuilt
    <2> DEFINE n == IF Parks(s) THEN 0 ELSE Deaths(s)
    <2>1. n \in Int /\ -1 \in Int
      BY <1>4
    <2>2. Noted(s) = [s EXCEPT !.since = -1, !.deaths = n]
      BY DEF Noted
    <2> HIDE DEF n
    <2> QED
      BY <2>1, <2>2 DEF Memories
  <1> QED
    BY <1>1, <1>2, <1>3, <1>5

LEMMA LadderCheck ==
    ASSUME LadderSettings, NEW s \in Memories, NEW sess, NEW tr \in Tries, Backed(s, tr),
           Check(s, sess, tr)
    PROVE  LadderInv'
  <1>1. CASE SupervisorDead
    <2>1. /\ st' = [Episode(s) EXCEPT !.step = 3, !.gap = 0]
          /\ tried' = IF Carried(s, tr) = "no" THEN "replaced" ELSE tr
      BY <1>1 DEF Check
    <2>2. st' \in Memories
      <3>1. ASSUME NEW m \in Memories
            PROVE  [m EXCEPT !.step = 3, !.gap = 0] \in Memories
        <4>1. 0 \in Int /\ 3 \in {0, 1, 2, 3}
          OBVIOUS
        <4> QED
          BY <4>1 DEF Memories
      <3> QED
        BY <2>1, <3>1, LadderMemories
    <2>3. tried' \in Tries /\ tried' # "no"
      BY <2>1 DEF Carried, Tries
    <2> QED
      BY <2>2, <2>3 DEF LadderInv, Backed
  <1>2. ASSUME NEW x, Judged(Reset(s), x, "no")
        PROVE  LadderInv'
    <2>1. Backed(Reset(s), "no") /\ Reset(s) \in Memories /\ "no" \in Tries
      BY LadderMemories DEF Backed, Tries
    <2> QED
      BY <1>2, <2>1, LadderJudged
  <1>3. CASE ~SupervisorDead /\ phase # "closed" /\ (~Healthy(sess) \/ Jump(s))
    <2> DEFINE e == Episode(Noted(s))
               f == IF Jump(s) /\ e.step = 0 THEN [e EXCEPT !.step = 1] ELSE e
               x == [sess EXCEPT !.open = @ \/ Parks(s)]
    <2>1. Noted(s) \in Memories /\ Backed(Noted(s), tr)
      BY LadderMemories DEF Backed
    <2>2. Carried(Noted(s), tr) = Carried(s, tr)
      BY LadderMemories DEF Carried
    <2>3. e \in Memories /\ e.down # -1 /\ Backed(e, Carried(s, tr))
      BY <2>1, <2>2, LadderMemories
    <2>4. f \in Memories /\ f.down # -1 /\ Backed(f, Carried(s, tr))
      <3> HIDE DEF e
      <3> QED
        BY <2>3 DEF Memories, Backed
    <2>5. Escalate(f, x, Carried(s, tr), Jump(s))
      BY <1>3 DEF Check
    <2>6. Jump(s) \in BOOLEAN /\ Carried(s, tr) \in Tries
      BY LadderMemories DEF Jump
    <2> HIDE DEF f, x
    <2> QED
      BY <2>4, <2>5, <2>6, LadderEscalate
  <1> QED
    BY <1>1, <1>2, <1>3 DEF Check

LEMMA LadderRotated ==
    ASSUME LadderSettings, NEW s \in Memories, NEW sess, NEW parked \in BOOLEAN,
           Rotated(s, sess, parked)
    PROVE  LadderInv'
  <1>1. \A r \in Memories : Backed(r, "rotation")
    BY DEF Backed
  <1>2. [s EXCEPT !.step = 2] \in Memories /\ "rotation" \in Tries
    BY DEF Memories, Tries
  <1> QED
    BY <1>1, <1>2, LadderCheck, LadderJudged DEF Rotated

\* Whatever else may change, a step that leaves the steward's memory alone leaves LadderInv.
LEMMA LadderStill ==
    ASSUME LadderInv, UNCHANGED <<pc, st, tried>>
    PROVE  LadderInv'
  BY DEF LadderInv, Backed

LEMMA LadderNewSteward ==
    ASSUME LadderSettings
    PROVE  NewSteward \in Memories /\ \A tr : Backed(NewSteward, tr)
  <1>1. Gap \in Int /\ -1 \in Int /\ 0 \in Int
    BY DEF LadderSettings
  <1> QED
    BY <1>1 DEF NewSteward, Memories, Backed

LEMMA LadderTick ==
    ASSUME LadderInv, Tick
    PROVE  LadderInv'
  <1> DEFINE Up(n, top) == IF n = -1 \/ n = top THEN n ELSE n + 1
  <1>1. /\ st' = [st EXCEPT !.down = Up(@, SuicideAfter), !.gap = Up(@, Gap),
                            !.since = Up(@, DeathWindow + 1), !.woken = FALSE]
        /\ UNCHANGED tried /\ pc' \in {"run", pc} /\ pc # "exited"
    BY DEF Tick
  <1>2. /\ Up(st.down, SuicideAfter) \in Nat \cup {-1}
        /\ Up(st.down, SuicideAfter) = -1 <=> st.down = -1
    BY DEF LadderInv, Memories
  <1>3. Up(st.gap, Gap) \in Int /\ Up(st.since, DeathWindow + 1) \in Int
    BY DEF LadderInv, Memories
  <1>4. /\ st' \in Memories /\ st'.step = st.step /\ st'.rebuilt = st.rebuilt
        /\ st'.down = -1 <=> st.down = -1
    <2> HIDE DEF Up
    <2> QED
      BY <1>1, <1>2, <1>3 DEF LadderInv, Memories
  <1> QED
    BY <1>1, <1>4 DEF LadderInv, Backed

LEMMA LadderStart ==
    ASSUME LadderSettings, LadderInv, Start
    PROVE  LadderInv'
  <1> DEFINE s == [st EXCEPT !.step = 1, !.rebuilt = TRUE]
  <1>1. s \in Memories /\ tried # "no" /\ tried \in Tries /\ Backed(s, tried)
    BY DEF LadderInv, Memories, Backed, Start
  <1>2. CASE rot.why = "dead"
    BY <1>1, <1>2 DEF Start, LadderInv
  <1>3. CASE rot.why # "dead"
    <2>1. Judged(s, session, tried)
      BY <1>3 DEF Start
    <2> HIDE DEF s
    <2> QED
      BY <1>1, <2>1, LadderJudged
  <1> QED
    BY <1>2, <1>3

LEMMA LadderStep ==
    ASSUME LadderSettings, LadderInv, Next
    PROVE  LadderInv'
  <1> USE LadderStill
  <1>1. ASSUME NEW f \in Feeds, FeedStep(f) \/ Drops(f)
        PROVE  LadderInv'
    BY <1>1 DEF FeedStep, Connect, CannotConnect, Handshake,
        HandshakeFails, Subscribe, Drops, steward
  <1>2. CASE Fault
    <2>1. CASE PhaseStep
      <3>1. st' \in Memories /\ st'.down = st.down /\ st'.step = st.step /\ st'.rebuilt = st.rebuilt
        BY <2>1 DEF PhaseStep, LadderInv, Memories
      <3>2. UNCHANGED <<pc, tried>>
        BY <2>1 DEF PhaseStep
      <3> QED
        BY <3>1, <3>2 DEF LadderInv, Backed
    <2> QED
      BY <1>2, <2>1 DEF Fault, GatewayCycle, SupervisorDies, Steal,
          Outage, Ages, Asks, steward
  <1>3. CASE Flush \/ ForceLogin \/ Bootstraps
    BY <1>3 DEF Flush, ForceLogin, Bootstraps, Bootstrap,
        BootstrapStart, steward
  <1>4. CASE Tick
    BY <1>4, LadderTick
  <1>5. CASE Woken \/ VerifyExtends
    <2>1. st' \in Memories /\ st'.down = st.down /\ st'.step = st.step /\ st'.rebuilt = st.rebuilt
      BY <1>5 DEF Woken, VerifyExtends, LadderInv, Memories
    <2> QED
      BY <1>5, <2>1 DEF Woken, VerifyExtends, LadderInv, Backed
  <1>6. CASE Run
    <2>1. CASE pc' = "login" /\ UNCHANGED <<st, tried>>
      BY <2>1 DEF LadderInv, Backed
    <2>2. CASE Check(st, session, tried)
      BY <2>2, LadderCheck DEF LadderInv
    <2> QED
      BY <1>6, <2>1, <2>2 DEF Run
  <1>7. CASE Universe
    <2>1. [st EXCEPT !.step = 3] \in Memories
      BY DEF LadderInv, Memories
    <2>2. Judged([st EXCEPT !.step = 3], session, tried) /\ tried # "no" /\ tried \in Tries
      BY <1>7 DEF Universe, LadderInv
    <2> QED
      BY <2>1, <2>2, LadderJudged DEF Backed
  <1>8. CASE Start
    BY <1>8, LadderStart
  <1>9. CASE Parked \/ LoginRefused \/ LoginFails \/ VerifyEnds
    BY <1>9, LadderRotated
    DEF Parked, LoginRefused, LoginFails, VerifyEnds, LadderInv
  <1>10. CASE VerifyOk
    <2>1. [st EXCEPT !.rotated = TRUE, !.since = 0] \in Memories
      <3>1. 0 \in Int /\ TRUE \in BOOLEAN
        OBVIOUS
      <3> QED
        BY <3>1 DEF LadderInv, Memories
    <2> QED
      BY <1>10, <2>1, LadderRotated DEF VerifyOk
  <1>11. CASE LoginMints \/ LoginReuses
    BY <1>11 DEF LoginMints, LoginReuses, Verify, LadderInv, Backed, Tries
  <1>12. CASE Restart
    <2>1. pc' = "sleep" /\ st' = NewSteward /\ tried' = "no"
      BY <1>12 DEF Restart, Booted
    <2> QED
      BY <2>1, LadderNewSteward DEF LadderInv, Tries
  <1> QED
    BY <1>1, <1>2, <1>3, <1>4, <1>5, <1>6, <1>7, <1>8, <1>9, <1>10, <1>11, <1>12
    DEF Next, Steward

\* session_steward.py:206-316, 359-413, 520-531: whatever strikes, in whatever order, and
\* however often, the steward leaves the process only after its episode has tried a
\* rotation or replaced a dead supervisor.
THEOREM ExitComesAfterLadder == Spec => []ExitAfterLadder
  <1>1. Init => LadderInv
    BY LadderNewSteward, LadderSettingsHold DEF Init, LadderInv, Tries
  <1>2. LadderInv /\ [Next]_vars => LadderInv'
    BY LadderStep, LadderStill, LadderSettingsHold DEF vars
  <1>3. LadderInv => ExitAfterLadder
    BY DEF LadderInv, ExitAfterLadder
  <1> QED
    BY <1>1, <1>2, <1>3, PTL DEF Spec
=============================================================================

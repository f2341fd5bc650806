--------------------------- MODULE TrueDataProofs ---------------------------
(***************************************************************************)
(* Proofs about the two components of MCTrueData, each under its own       *)
(* specification.  TrueDataRecovery, for any wedge threshold, any patience *)
(* and any set of faults: its types, that a connected feed never looks     *)
(* wedged, and that a boot which cooled down is accepted at its first      *)
(* login.  TdSubscriptions (instance Subs), for any chains, spots, window  *)
(* and ceiling: its types, that a squeeze is fair, and that the plan is    *)
(* carried.                                                                *)
(***************************************************************************)
EXTENDS MCTrueData, FiniteSetTheorems, SequenceTheorems, TLAPS

\* WedgedAssumption of TrueDataRecovery.
TdSettings == ToWedged \in Nat \ {0} /\ Patience \in Nat /\ MaxFaults \in Nat

LEMMA TdSettingsHold == TdSettings
  BY WedgedAssumption DEF TdSettings

\* A login that was refused is not that of the session the vendor holds for us.
RefusedIsNotOurs == feed.reply = "no" => vendor # "ours"

Down == stw.at \in {"gone", "boot"}

\* A process that is down, or booting, has no feed.
DownHasNoFeed ==
    Down => feed.at = "none" /\ ~feed.ws /\ ~feed.connected /\ vendor # "leak"

\* From the boot's cool-down to the first answer the vendor is free for us, or will be when
\* the cool-down ends.
FirstIsFree ==
    first /\ ~Down =>
        /\ feed.at \notin {"subscribe", "hold"}
        /\ feed.at = "login" => feed.reply = "yes" /\ vendor = "ours"
        /\ feed.at # "login" => vendor \in {"free", "locked"}
        /\ feed.at # "login" /\ (sess.st # "cooldown" \/ feed.at = "dial") => vendor = "free"

TdInv ==
    /\ TypeOK
    /\ RefusedIsNotOurs /\ DownHasNoFeed /\ FirstIsFree
    /\ ConnectedClearsWedge

LEMMA TdSessionTypes ==
    ASSUME TdSettings, NEW s \in Sessions
    PROVE  /\ MarkConnecting(s) \in Sessions /\ MarkLive(s) \in Sessions
           /\ MarkRejected(s) \in Sessions /\ MarkDisconnected(s) \in Sessions
           /\ Cools(s) \in Sessions
           /\ \A b \in BOOLEAN : [s EXCEPT !.limited = b] \in Sessions
  <1>1. s.rej \in 0 .. ToWedged /\ ToWedged \in Nat
    BY DEF Sessions, TdSettings
  <1> DEFINE n == IF s.rej < ToWedged THEN s.rej + 1 ELSE s.rej
  <1>2. n \in 0 .. ToWedged
    BY <1>1
  <1>3. MarkRejected(s) \in Sessions
    <2> HIDE DEF n
    <2> QED BY <1>2 DEF MarkRejected, Sessions, n
  <1>4. 0 \in 0 .. ToWedged
    BY <1>1
  <1> QED
    BY <1>3, <1>4 DEF Sessions, MarkConnecting, MarkLive, MarkDisconnected, Cools

LEMMA TdNewFeedIsClient == NewFeed \in Clients /\ NoFeed \in Clients
  <1>1. NewFeed \in Clients
    BY DEF NewFeed, Clients
  <1> QED
    BY <1>1 DEF NoFeed, Clients

\* The outage noted leaves the steward a steward.
LEMMA TdNoted ==
    ASSUME TdSettings, stw \in Stewards
    PROVE  [stw EXCEPT !.down = IF @ = 0 THEN 1 ELSE @] \in Stewards
  <1>1. stw.down \in 0 .. Patience + 1 /\ 1 \in 0 .. Patience + 1
    BY DEF TdSettings, Stewards
  <1>2. (IF stw.down = 0 THEN 1 ELSE stw.down) \in 0 .. Patience + 1
    BY <1>1
  <1> QED
    BY <1>2 DEF Stewards

\* What a rung does: to the client nothing, a kick or a stop; to the vendor nothing, or
\* a logout on our own socket; to the session at most the note that a logout went out.
LEMMA TdRungMoves ==
    ASSUME NEW s \in Stewards, Rung(s)
    PROVE  /\ \/ UNCHANGED feed
              \/ feed' = [feed EXCEPT !.connected = FALSE]
              \/ feed' = [feed EXCEPT !.stopping = TRUE]
           /\ UNCHANGED vendor \/ (vendor = "ours" /\ feed.at # "login" /\ vendor' = "free")
           /\ UNCHANGED sess \/ sess' = [sess EXCEPT !.limited = TRUE]
           /\ \/ stw' \in {[s EXCEPT !.step = 1], [s EXCEPT !.step = 2]}
              \/ stw' \in {[s EXCEPT !.at = "logout"], [s EXCEPT !.at = "rebuild"]}
  <1>1. s.step \in {0, 1, 2}
    BY DEF Stewards
  <1>2. CASE s.step = 0
    BY <1>2 DEF Rung
  <1>3. CASE s.step = 1
    BY <1>3 DEF Rung
  <1>4. CASE s.step = 2
    BY <1>4 DEF Rung
  <1> QED
    BY <1>1, <1>2, <1>3, <1>4

\* What a tick of the steward does.
LEMMA TdTickMoves ==
    ASSUME TdSettings, stw \in Stewards, Tick
    PROVE  /\ \/ UNCHANGED feed
              \/ feed' = [feed EXCEPT !.connected = FALSE]
              \/ feed' = [feed EXCEPT !.stopping = TRUE]
           /\ UNCHANGED vendor \/ (vendor = "ours" /\ feed.at # "login" /\ vendor' = "free")
           /\ UNCHANGED sess \/ sess' = [sess EXCEPT !.limited = TRUE]
           /\ stw' \in Stewards /\ stw'.at \notin {"gone", "boot"} /\ gate' \in {gate, "closed"}
           /\ asked' = FALSE /\ UNCHANGED <<line, fresh, warm, first, faults>>
  <1> DEFINE s == [stw EXCEPT !.down = IF @ = 0 THEN 1 ELSE @]
  <1>1. s \in Stewards /\ s.at = "idle" /\ [at |-> "idle", step |-> 0, down |-> 0] \in Stewards
    <2>1. s \in Stewards
      BY TdNoted
    <2>2. s.at = "idle"
      BY DEF Tick, Stewards
    <2>3. 0 \in 0 .. Patience + 1 /\ 0 \in 0 .. 2
      BY DEF TdSettings
    <2> QED
      BY <2>1, <2>2, <2>3 DEF Stewards
  <1>2. CASE Healthy
    BY <1>1, <1>2 DEF Tick
  <1> HIDE DEF s
  <1>3. ASSUME NEW forced \in BOOLEAN, ~Healthy, Escalate(s, forced)
        PROVE  /\ \/ UNCHANGED feed
                  \/ feed' = [feed EXCEPT !.connected = FALSE]
                  \/ feed' = [feed EXCEPT !.stopping = TRUE]
               /\ UNCHANGED vendor \/ (vendor = "ours" /\ feed.at # "login" /\ vendor' = "free")
               /\ UNCHANGED sess \/ sess' = [sess EXCEPT !.limited = TRUE]
               /\ stw' \in Stewards /\ stw'.at \notin {"gone", "boot"}
               /\ gate' \in {gate, "closed"}
    <2>1. CASE (~forced /\ gate # "open") \/ sess.st = "cooldown" \/ ~line.known
      BY <2>1, <1>1, <1>3 DEF Escalate
    <2>2. CASE ~((~forced /\ gate # "open") \/ sess.st = "cooldown" \/ ~line.known)
      <3>1. gate' = "closed" /\ Rung(s)
        BY <2>2, <1>3 DEF Escalate
      <3>2. stw' \in Stewards /\ stw'.at \notin {"gone", "boot"}
        BY <3>1, <1>1, TdRungMoves DEF Stewards
      <3> QED
        BY <3>1, <3>2, <1>1, TdRungMoves
    <2> QED
      BY <2>1, <2>2
  <1>4. CASE ~Healthy
    <2>1. CASE asked
      BY <1>3, <1>4, <2>1 DEF Tick, s
    <2>2. CASE ~asked /\ ShouldExit
      <3>1. stw' = [s EXCEPT !.at = "exit"]
        BY <1>4, <2>2 DEF Tick, s
      <3>2. stw' \in Stewards /\ stw'.at = "exit"
        BY <3>1, <1>1 DEF Stewards
      <3> QED
        BY <3>2, <1>4, <2>2 DEF Tick
    <2>3. CASE ~asked /\ ~ShouldExit
      BY <1>3, <1>4, <2>3 DEF Tick, s
    <2> QED
      BY <2>1, <2>2, <2>3
  <1> QED
    BY <1>2, <1>4

\* The answer to a logout: of the boot, of a rung, of an exit.
LEMMA TdLogoutMoves ==
    ASSUME stw \in Stewards, LogoutAnswers
    PROVE  /\ sess' = Cools(sess) /\ first' = (first /\ stw.at = "boot")
           /\ \/ /\ stw.at = "boot" /\ stw'.at = "idle" /\ feed' = NewFeed
                 /\ vendor' \in {vendor, IF vendor = "free" THEN "free" ELSE "locked"}
              \/ /\ stw.at = "exit" /\ stw'.at = "gone" /\ feed' = NoFeed
                 /\ vendor' = IF vendor = "free" THEN "free" ELSE "locked"
              \/ /\ stw.at = "logout" /\ stw'.at = "idle"
                 /\ \/ UNCHANGED <<vendor, feed>>
                    \/ /\ vendor' = IF vendor = "free" THEN "free" ELSE "locked"
                       /\ feed' = IF feed.reply = "yes" THEN [feed EXCEPT !.reply = "no"] ELSE feed
  <1>1. sess' = Cools(sess) /\ first' = (first /\ stw.at = "boot")
    BY DEF LogoutAnswers
  <1>2. CASE stw.at = "boot"
    BY <1>1, <1>2 DEF LogoutAnswers, LoggedOut, Stewards
  <1>3. CASE stw.at = "exit"
    BY <1>1, <1>3 DEF LogoutAnswers, Ended, Stewards
  <1>4. CASE stw.at = "logout"
    BY <1>1, <1>4 DEF LogoutAnswers, LoggedOut, Stewards
  <1> QED
    BY <1>2, <1>3, <1>4 DEF LogoutAnswers

LEMMA TdFeedIsClient ==
    ASSUME TdSettings, stw \in Stewards, feed \in Clients, Next
    PROVE  feed' \in Clients
  <1>1. CASE Dial \/ DialFails
    BY <1>1 DEF Dial, DialFails, Clients
  <1>2. CASE Opens
    BY <1>2 DEF Opens, Clients
  <1>3. CASE LoginTimesOut \/ Refused \/ Accepted
    BY <1>3 DEF LoginTimesOut, Refused, Accepted, Clients
  <1>4. CASE Subscribes \/ SubscribeRaises
    BY <1>4 DEF Subscribes, SubscribeRaises, Clients
  <1>5. CASE ReaderEnds \/ GoesSilent
    BY <1>5 DEF ReaderEnds, GoesSilent, Clients
  <1>6. CASE Teardown \/ Lasts
    BY <1>6 DEF Teardown, Lasts, Clients
  <1>7. CASE Tick
    BY <1>7, TdTickMoves DEF Clients
  <1>8. CASE LogoutAnswers
    BY <1>8, TdLogoutMoves, TdNewFeedIsClient DEF Clients
  <1>9. CASE BootCut \/ Rebuilds
    BY <1>9, TdNewFeedIsClient DEF BootCut, Rebuilds
  <1>10. CASE Crash \/ Deploy
    BY <1>10, TdNewFeedIsClient DEF Crash, Deploy, Ended
  <1>11. CASE UNCHANGED feed
    BY <1>11
  <1> QED
    BY <1>1, <1>2, <1>3, <1>4, <1>5, <1>6, <1>7, <1>8, <1>9, <1>10, <1>11
    DEF Next, Supervise, World, Process, LineFails, LineBack, Probe, VendorForgets, Flush,
        MarketOpens, Asks, Drags, GateOpens, CooldownEnds, LimitEnds, Boot

LEMMA TdSessIsSession ==
    ASSUME TdSettings, stw \in Stewards, sess \in Sessions, Next
    PROVE  sess' \in Sessions
  <1>1. CASE Dial
    BY <1>1, TdSessionTypes DEF Dial
  <1>2. CASE Refused \/ Accepted
    BY <1>2, TdSessionTypes DEF Refused, Accepted
  <1>3. CASE Subscribes \/ GoesSilent
    BY <1>3, TdSessionTypes DEF Subscribes, GoesSilent
  <1>4. CASE Tick
    BY <1>4, TdTickMoves, TdSessionTypes DEF Tick
  <1>5. CASE LogoutAnswers
    BY <1>5, TdSessionTypes DEF LogoutAnswers
  <1>6. CASE CooldownEnds \/ LimitEnds
    BY <1>6 DEF CooldownEnds, LimitEnds, Sessions
  <1>7. CASE Boot
    <2>1. 0 \in 0 .. ToWedged
      BY DEF TdSettings
    <2> QED
      BY <1>7, <2>1 DEF Boot, Sessions
  <1>8. CASE UNCHANGED sess
    BY <1>8
  <1> QED
    BY <1>1, <1>2, <1>3, <1>4, <1>5, <1>6, <1>7, <1>8
    DEF Next, Supervise, World, Process, DialFails, Opens, LoginTimesOut, SubscribeRaises,
        ReaderEnds, Teardown, Lasts, LineFails, LineBack, Probe, VendorForgets, Flush,
        MarketOpens, Asks, Drags, GateOpens, BootCut, Rebuilds, Crash, Deploy

LEMMA TdStewardIsSteward ==
    ASSUME TdSettings, stw \in Stewards, Next
    PROVE  stw' \in Stewards
  <1>1. Longer(stw) \in Stewards
    <2>1. stw.down \in 0 .. Patience + 1
      BY DEF Stewards
    <2>2. CASE stw.down \in 1 .. Patience
      <3>1. stw.down + 1 \in 0 .. Patience + 1
        BY <2>2 DEF TdSettings
      <3> QED
        BY <2>2, <3>1 DEF Longer, Stewards
    <2> QED
      BY <2>2 DEF Longer
  <1>2. 0 \in 0 .. Patience + 1 /\ {0, 1, 2} \subseteq 0 .. 2
    BY DEF TdSettings
  <1>3. CASE Drags \/ GateOpens
    BY <1>3, <1>1 DEF Drags, GateOpens
  <1>4. CASE Tick
    BY <1>4, TdTickMoves DEF Tick
  <1>5. CASE LogoutAnswers
    BY <1>5, <1>2 DEF LogoutAnswers, Stewards
  <1>6. CASE BootCut \/ Rebuilds
    BY <1>6, <1>2 DEF BootCut, Rebuilds, Stewards
  <1>7. CASE Crash \/ Deploy
    BY <1>7 DEF Crash, Deploy, Stewards
  <1>8. CASE Boot
    BY <1>8, <1>2 DEF Boot, Stewards
  <1>9. CASE UNCHANGED stw
    BY <1>9
  <1> QED
    BY <1>3, <1>4, <1>5, <1>6, <1>7, <1>8, <1>9
    DEF Next, Supervise, World, Process, Dial, DialFails, Opens, LoginTimesOut, Refused,
        Accepted, Subscribes, SubscribeRaises, ReaderEnds, GoesSilent, Teardown, Lasts,
        LineFails, LineBack, Probe, VendorForgets, Flush, MarketOpens, Asks, CooldownEnds,
        LimitEnds

LEMMA TdOthers ==
    ASSUME TdSettings, TypeOK, Next
    PROVE  /\ line' \in [up : BOOLEAN, known : BOOLEAN]
           /\ gate' \in {"closed", "tried", "open"}
           /\ {asked', fresh', warm', first'} \subseteq BOOLEAN
           /\ faults' \in 0 .. MaxFaults
  <1> USE DEF TypeOK, Calm, Tried
  <1>1. ASSUME NEW fault, Strikes(fault)
        PROVE  faults' \in 0 .. MaxFaults
    BY <1>1 DEF Strikes, TdSettings
  <1>2. CASE Dial \/ DialFails \/ Opens \/ LoginTimesOut
    BY <1>2, <1>1 DEF Dial, DialFails, Opens, LoginTimesOut
  <1>3. CASE Refused \/ Accepted \/ Subscribes \/ SubscribeRaises
    BY <1>3, <1>1 DEF Refused, Accepted, Subscribes, SubscribeRaises
  <1>4. CASE ReaderEnds \/ GoesSilent \/ Teardown \/ Lasts
    BY <1>4, <1>1 DEF ReaderEnds, GoesSilent, Teardown, Lasts
  <1>5. CASE LineFails \/ LineBack \/ Probe \/ VendorForgets
    BY <1>5, <1>1 DEF LineFails, LineBack, Probe, VendorForgets
  <1>6. CASE Flush \/ MarketOpens \/ Asks \/ Drags \/ GateOpens
            \/ CooldownEnds \/ LimitEnds
    BY <1>6, <1>1
    DEF Flush, MarketOpens, Asks, Drags, GateOpens, CooldownEnds, LimitEnds, Streaming
  <1>7. CASE Tick
    BY <1>7, TdTickMoves DEF Tick
  <1>8. CASE LogoutAnswers
    BY <1>8, <1>1 DEF LogoutAnswers
  <1>9. CASE BootCut \/ Rebuilds \/ Crash \/ Deploy \/ Boot
    BY <1>9, <1>1 DEF BootCut, Rebuilds, Crash, Deploy, Boot
  <1> QED
    BY <1>2, <1>3, <1>4, <1>5, <1>6, <1>7, <1>8, <1>9 DEF Next, Supervise, World, Process

\* Sockets, replies and the vendor go on agreeing.
LEMMA TdVendorStep ==
    ASSUME TdSettings, TypeOK, RefusedIsNotOurs, DownHasNoFeed, Next
    PROVE  /\ vendor' \in {"free", "ours", "leak", "locked"} /\ SocketsAgree'
           /\ RefusedIsNotOurs' /\ DownHasNoFeed'
  <1> USE DEF TypeOK, SocketsAgree, RefusedIsNotOurs, DownHasNoFeed, Down, Clients
  <1>1. Longer(stw).at = stw.at
    BY DEF Longer, Stewards
  <1>2. CASE Dial \/ DialFails
    BY <1>2 DEF Dial, DialFails
  <1>3. CASE Opens
    BY <1>3 DEF Opens
  <1>4. CASE LoginTimesOut
    BY <1>4 DEF LoginTimesOut
  <1>5. CASE Refused
    BY <1>5 DEF Refused
  <1>6. CASE Accepted
    BY <1>6 DEF Accepted
  <1>7. CASE Subscribes
    BY <1>7 DEF Subscribes
  <1>8. CASE SubscribeRaises
    BY <1>8 DEF SubscribeRaises
  <1>9. CASE ReaderEnds \/ GoesSilent \/ Lasts
    BY <1>9 DEF ReaderEnds, GoesSilent, Lasts, Running
  <1>10. CASE Teardown
    BY <1>10 DEF Teardown, Closed
  <1>11. CASE LineFails \/ LineBack \/ Probe \/ VendorForgets
    BY <1>11 DEF LineFails, LineBack, Probe, VendorForgets
  <1>12. CASE Flush \/ MarketOpens \/ Asks
    BY <1>12 DEF Flush, MarketOpens, Asks
  <1>13. CASE Drags \/ GateOpens
    BY <1>13, <1>1 DEF Drags, GateOpens
  <1>14. CASE CooldownEnds \/ LimitEnds
    BY <1>14 DEF CooldownEnds, LimitEnds
  <1>15. CASE Tick
    BY <1>15, TdTickMoves DEF Tick
  <1>16. CASE LogoutAnswers
    <2>1. CASE stw.at = "boot"
      BY <1>16, <2>1, TdLogoutMoves DEF NewFeed
    <2>2. CASE stw.at = "exit"
      BY <1>16, <2>2, TdLogoutMoves DEF NewFeed, NoFeed
    <2>3. CASE stw.at = "logout" /\ UNCHANGED <<vendor, feed>>
      BY <1>16, <2>3, TdLogoutMoves
    <2>4. CASE stw.at = "logout" /\ ~UNCHANGED <<vendor, feed>>
      <3>1. /\ vendor' = IF vendor = "free" THEN "free" ELSE "locked"
            /\ feed' = IF feed.reply = "yes" THEN [feed EXCEPT !.reply = "no"] ELSE feed
            /\ stw'.at = "idle"
        BY <1>16, <2>4, TdLogoutMoves
      <3> QED
        BY <3>1
    <2> QED
      BY <1>16, <2>1, <2>2, <2>3, <2>4, TdLogoutMoves
  <1>17. CASE BootCut
    BY <1>17 DEF BootCut, NewFeed, NoFeed
  <1>18. CASE Rebuilds
    BY <1>18 DEF Rebuilds, NewFeed, NoFeed, Closed
  <1>19. CASE Crash \/ Deploy
    BY <1>19 DEF Crash, Deploy, NewFeed, NoFeed, Ended
  <1>20. CASE Boot
    BY <1>20 DEF Boot
  <1> QED
    BY <1>2, <1>3, <1>4, <1>5, <1>6, <1>7, <1>8, <1>9, <1>10, <1>11, <1>12, <1>13, <1>14, <1>15,
       <1>16, <1>17, <1>18, <1>19, <1>20
    DEF Next, Supervise, World, Process

LEMMA TdFirstStep ==
    ASSUME TdSettings, TdInv, Next
    PROVE  FirstIsFree'
  <1> USE DEF TdInv, TypeOK, SocketsAgree, RefusedIsNotOurs, DownHasNoFeed, Down, FirstIsFree
  <1>1. Longer(stw).at = stw.at
    BY DEF Longer, Stewards
  <1>2. CASE Dial
    BY <1>2 DEF Dial, MarkConnecting, MayConnect, Clients, Sessions
  <1>3. CASE DialFails
    BY <1>3 DEF DialFails, Clients
  <1>4. CASE Opens
    BY <1>4 DEF Opens, Clients
  <1>5. CASE LoginTimesOut \/ Refused \/ Accepted \/ Rebuilds \/ BootCut
    BY <1>5 DEF LoginTimesOut, Refused, Accepted, Rebuilds, BootCut
  <1>6. CASE Subscribes \/ SubscribeRaises
    BY <1>6 DEF Subscribes, SubscribeRaises
  <1>7. CASE ReaderEnds
    BY <1>7 DEF ReaderEnds, Running
  <1>8. CASE GoesSilent
    BY <1>8 DEF GoesSilent, MarkDisconnected, Clients, Sessions
  <1>9. CASE Lasts \/ Teardown
    BY <1>9 DEF Lasts, Teardown
  <1>10. CASE LineFails \/ LineBack \/ Probe \/ VendorForgets
    BY <1>10 DEF LineFails, LineBack, Probe, VendorForgets
  <1>11. CASE Flush \/ MarketOpens \/ Asks
    BY <1>11 DEF Flush, MarketOpens, Asks
  <1>12. CASE Drags \/ GateOpens
    BY <1>12, <1>1 DEF Drags, GateOpens
  <1>13. CASE CooldownEnds \/ LimitEnds
    BY <1>13 DEF CooldownEnds, LimitEnds, Sessions
  <1>14. CASE Tick
    BY <1>14, TdTickMoves DEF Tick, Clients, Sessions
  <1>15. CASE LogoutAnswers
    <2>1. /\ first' = (first /\ stw.at = "boot") /\ sess' = [sess EXCEPT !.st = "cooldown"]
          /\ sess'.st = "cooldown" /\ sess'.rej = sess.rej
      BY <1>15, TdLogoutMoves DEF Cools, Sessions
    <2>2. CASE stw.at = "boot"
      BY <1>15, <2>1, <2>2, TdLogoutMoves DEF NewFeed
    <2>3. CASE stw.at = "exit"
      BY <1>15, <2>1, <2>3, TdLogoutMoves DEF NewFeed, NoFeed
    <2>4. CASE stw.at = "logout"
      BY <1>15, <2>1, <2>4, TdLogoutMoves
    <2> QED
      BY <1>15, <2>2, <2>3, <2>4, TdLogoutMoves
  <1>16. CASE Crash \/ Deploy
    BY <1>16 DEF Crash, Deploy, Stewards
  <1>17. CASE Boot
    BY <1>17 DEF Boot
  <1> QED
    BY <1>2, <1>3, <1>4, <1>5, <1>6, <1>7, <1>8, <1>9, <1>10, <1>11, <1>12, <1>13, <1>14, <1>15,
       <1>16, <1>17
    DEF Next, Supervise, World, Process

LEMMA TdWedgeStep ==
    ASSUME TdSettings, TdInv, Next
    PROVE  ConnectedClearsWedge'
  <1> USE DEF TdInv, TypeOK, DownHasNoFeed, Down, ConnectedClearsWedge, Clients
  <1>1. CASE Dial \/ DialFails \/ Opens \/ LoginTimesOut \/ Refused
            \/ Teardown
    <2>1. feed'.at \in {"sleep", "dial", "login"}
      BY <1>1 DEF Dial, DialFails, Opens, LoginTimesOut, Refused, Teardown
    <2> QED
      BY <2>1
  <1>2. CASE Accepted
    BY <1>2 DEF Accepted, MarkLive, Sessions
  <1>3. CASE Subscribes \/ GoesSilent
    BY <1>3 DEF Subscribes, GoesSilent, MarkDisconnected, Sessions
  <1>4. CASE SubscribeRaises \/ ReaderEnds \/ Lasts
    BY <1>4 DEF SubscribeRaises, ReaderEnds, Lasts
  <1>5. CASE CooldownEnds \/ LimitEnds
    BY <1>5 DEF CooldownEnds, LimitEnds, Sessions
  <1>6. CASE Tick
    BY <1>6, TdTickMoves DEF Tick, Sessions
  <1>7. CASE LogoutAnswers
    <2>1. /\ first' = (first /\ stw.at = "boot") /\ sess' = [sess EXCEPT !.st = "cooldown"]
          /\ sess'.st = "cooldown" /\ sess'.rej = sess.rej
      BY <1>7, TdLogoutMoves DEF Cools, Sessions
    <2>2. CASE stw.at = "boot"
      BY <1>7, <2>1, <2>2, TdLogoutMoves DEF NewFeed
    <2>3. CASE stw.at = "exit"
      BY <1>7, <2>1, <2>3, TdLogoutMoves DEF NewFeed, NoFeed
    <2>4. CASE stw.at = "logout"
      BY <1>7, <2>1, <2>4, TdLogoutMoves
    <2> QED
      BY <1>7, <2>2, <2>3, <2>4, TdLogoutMoves
  <1>8. CASE BootCut \/ Rebuilds \/ Crash \/ Deploy \/ Boot
    BY <1>8 DEF BootCut, Rebuilds, Crash, Deploy, Boot, Ended, NewFeed, NoFeed
  <1>9. CASE UNCHANGED <<feed, sess>>
    BY <1>9
  <1> QED
    BY <1>1, <1>2, <1>3, <1>4, <1>5, <1>6, <1>7, <1>8, <1>9
    DEF Next, Supervise, World, Process, LineFails, LineBack, Probe, VendorForgets, Flush,
        MarketOpens, Asks, Drags, GateOpens

LEMMA TdInvInit ==
    ASSUME TdSettings, Init
    PROVE  TdInv
  <1>1. 0 \in 0 .. ToWedged /\ 0 \in 0 .. Patience + 1 /\ 0 \in 0 .. MaxFaults
    BY DEF TdSettings
  <1>2. TypeOK
    <2>1. sess \in Sessions
      BY <1>1 DEF Init, Sessions
    <2>2. stw \in Stewards
      BY <1>1 DEF Init, Stewards
    <2>3. feed \in Clients
      BY TdNewFeedIsClient DEF Init
    <2>4. SocketsAgree
      BY DEF Init, SocketsAgree, NewFeed, NoFeed
    <2> QED
      BY <1>1, <2>1, <2>2, <2>3, <2>4 DEF Init, TypeOK
  <1> QED
    BY <1>2
    DEF Init, TdInv, RefusedIsNotOurs, DownHasNoFeed, Down, FirstIsFree, ConnectedClearsWedge,
        NewFeed, NoFeed

LEMMA TdInvStep == TdSettings /\ TdInv /\ [Next]_vars => TdInv'
  <1> SUFFICES ASSUME TdSettings, TdInv, [Next]_vars
               PROVE  TdInv'
    OBVIOUS
  <1>1. CASE Next
    <2>1. TypeOK'
      BY <1>1, TdSessIsSession, TdStewardIsSteward, TdFeedIsClient, TdOthers, TdVendorStep
      DEF TdInv, TypeOK
    <2> QED
      BY <1>1, <2>1, TdVendorStep, TdFirstStep, TdWedgeStep DEF TdInv
  <1>2. CASE UNCHANGED vars
    BY <1>2
    DEF vars, TdInv, TypeOK, SocketsAgree, Sessions, Clients, Stewards, RefusedIsNotOurs,
        DownHasNoFeed, Down, FirstIsFree, ConnectedClearsWedge
  <1> QED
    BY <1>1, <1>2

LEMMA TdInvHolds ==
    ASSUME TdSettings
    PROVE  Spec => []TdInv
  <1>1. Init => TdInv
    BY TdInvInit
  <1>2. TdInv /\ [Next]_vars => TdInv'
    BY TdInvStep
  <1> QED
    BY <1>1, <1>2, PTL DEF Spec

\* The session, the client, the steward and the vendor keep their types, and the vendor
\* holds a session for us only while _ws refers to its socket (td_session.py,
\* truedata_feed.py, truedata_steward.py).
THEOREM TrueDataTypeCorrect == Spec => []TypeOK
  <1>1. TdInv => TypeOK
    BY DEF TdInv
  <1> QED
    BY <1>1, TdInvHolds, TdSettingsHold, PTL

\* truedata_feed.py:466-474, mark_live of td_session.py: for any threshold and any faults,
\* a connected feed never looks wedged to the steward, whoever else moves the session.
THEOREM ConnectedNeverWedged == Spec => []ConnectedClearsWedge
  <1>1. TdInv => ConnectedClearsWedge
    BY DEF TdInv
  <1> QED
    BY <1>1, TdInvHolds, TdSettingsHold, PTL

\* main.py:56-65: a boot that had its cool-down is never refused at its first login, and
\* so a crash loop never climbs to the wedge by itself.
THEOREM FirstLoginIsAccepted == Spec => []FirstLoginAccepted
  <1>1. TdInv => FirstLoginAccepted
    BY DEF TdInv, FirstIsFree, DownHasNoFeed, FirstLoginAccepted
  <1> QED
    BY <1>1, TdInvHolds, TdSettingsHold, PTL

-----------------------------------------------------------------------------
(* TdSubscriptions: the allocator.                                          *)

\* Assumptions of TdSubscriptions (SubscriptionsAssumption), with finitely many chains and
\* spots, strikes that are no references, and room for the references: those of the trading
\* chains and of the one that is viewed.
SubsSettings ==
    /\ Subs!Assumptions
    /\ IsFiniteSet(Chains) /\ IsFiniteSet(Spots)
    /\ \A s \in Spots : s > Window
    /\ Cardinality(Trading) < Subs!Usable

LEMMA SubsCount == \A S : Subs!Cardinality(S) = Cardinality(S)
  BY DEF Subs!Cardinality, Cardinality

LEMMA SubsCeiling ==
    ASSUME SubsSettings
    PROVE  /\ IsFiniteSet(Trading) /\ Cardinality(Trading) \in Nat
           /\ Subs!Usable \in Nat \ {0} /\ Cardinality(Trading) + 1 <= Subs!Usable
  <1>1. IsFiniteSet(Trading) /\ Cardinality(Trading) \in Nat
    BY FS_Subset, FS_CardinalityType DEF SubsSettings, Subs!Assumptions
  <1> QED
    BY <1>1 DEF SubsSettings, Subs!Assumptions, Subs!Usable

\* A contract names its chain, and its strike is never that of a reference.
LEMMA SubsContract ==
    ASSUME SubsSettings, NEW c, NEW s \in Spots \cup {0}, NEW x \in Subs!Contracts(c, s)
    PROVE  /\ x[1] = c /\ x[2] \in Nat \ {0}
           /\ s \in Spots
           /\ c \in Chains => x \in Subs!AllSlots
  <1>1. s \in Spots /\ s \in Nat \ {0} /\ Window \in Nat /\ s > Window
    BY DEF Subs!Contracts, SubsSettings, Subs!Assumptions
  <1>2. PICK k \in (s - Window) .. (s + Window) : x = <<c, k>>
    BY <1>1 DEF Subs!Contracts
  <1> QED
    BY <1>1, <1>2 DEF Subs!AllSlots

LEMMA SubsSlotsFinite ==
    ASSUME SubsSettings
    PROVE  IsFiniteSet(Subs!AllSlots)
  <1> DEFINE f == [s \in Spots |-> (s - Window) .. (s + Window)]
             Around == {f[s] : s \in Spots}
             Numbers == {0} \cup UNION Around
  <1>1. \A s \in Spots : s \in Nat /\ Window \in Nat
    BY DEF SubsSettings, Subs!Assumptions
  <1>2. IsFiniteSet(Around)
    <2>1. f \in Surjection(Spots, Around)
      BY DEF Surjection
    <2> QED
      BY <2>1, FS_Surjection DEF SubsSettings
  <1>3. \A T \in Around : IsFiniteSet(T)
    <2> TAKE T \in Around
    <2>1. PICK s \in Spots : T = (s - Window) .. (s + Window)
      OBVIOUS
    <2>2. s - Window \in Int /\ s + Window \in Int
      BY <1>1
    <2> QED
      BY <2>1, <2>2, FS_Interval
  <1>4. IsFiniteSet(UNION Around)
    <2> HIDE DEF Around
    <2> QED BY <1>2, <1>3, FS_UNION
  <1>5. IsFiniteSet(Numbers)
    <2> HIDE DEF Around
    <2> QED BY <1>4, FS_Singleton, FS_Union
  <1>6. IsFiniteSet(Chains \X Numbers)
    <2> HIDE DEF Numbers
    <2> QED BY <1>5, FS_Product DEF SubsSettings
  <1>7. Subs!AllSlots \subseteq Chains \X Numbers
    <2> SUFFICES ASSUME NEW x \in Subs!AllSlots PROVE x \in Chains \X Numbers
      OBVIOUS
    <2>1. CASE x \in {Subs!Reference(c) : c \in Chains}
      BY <2>1 DEF Subs!Reference
    <2>2. CASE x \in UNION {Subs!Contracts(c, s) : c \in Chains, s \in Spots}
      <3>1. PICK c \in Chains, s \in Spots : x \in Subs!Contracts(c, s)
        BY <2>2
      <3>2. PICK k \in (s - Window) .. (s + Window) : x = <<c, k>>
        BY <3>1, <1>1 DEF Subs!Contracts
      <3>3. k \in UNION Around
        BY <3>2
      <3> QED
        BY <3>2, <3>3
    <2> QED
      BY <2>1, <2>2 DEF Subs!AllSlots
  <1> HIDE DEF Numbers
  <1> QED
    BY <1>6, <1>7, FS_Subset

\* The innermost n: never more than n, all of the group when it fits, and otherwise n
\* slots none of which ranks behind one left out.
LEMMA SubsInnermost ==
    ASSUME NEW S, IsFiniteSet(S), NEW n \in Nat, NEW T \in Subs!Innermost(S, n)
    PROVE  /\ T \subseteq S /\ IsFiniteSet(T) /\ Cardinality(T) \in Nat /\ Cardinality(T) <= n
           /\ Cardinality(S) <= n => T = S
           /\ T # S => /\ Cardinality(T) = n
                       /\ \A x \in T, y \in S \ T : Subs!Rank(x) <= Subs!Rank(y)
  <1>1. CASE Cardinality(S) <= n
    BY <1>1, SubsCount, FS_CardinalityType DEF Subs!Innermost
  <1>2. CASE ~(Cardinality(S) <= n)
    <2>1. /\ T \in SUBSET S /\ Cardinality(T) = n
          /\ \A x \in T, y \in S \ T : Subs!Rank(x) <= Subs!Rank(y)
      BY <1>2, SubsCount DEF Subs!Innermost
    <2>2. IsFiniteSet(T)
      BY <2>1, FS_Subset
    <2> QED
      BY <1>2, <2>1, <2>2
  <1> QED
    BY <1>1, <1>2

\* _refresh_pinned and _active_tokens: what the types say of the state of the plan.
PlanTypes ==
    /\ active \in Chains
    /\ chosen \in [of : Chains, centre : Spots \cup {0}] /\ chosen.of = active
    /\ pinned \in [Trading -> Spots \cup {Subs!None, 0}]
    /\ spot \in [Chains -> Spots \cup {0}]
    /\ capacity \in {0, Subs!Usable}

\* The wishes: references first; then the strikes of the trading chains; then those of the
\* viewed chain, which is no trading one.
LEMMA SubsWishes ==
    ASSUME SubsSettings, PlanTypes
    PROVE  /\ Subs!Wish(0) \subseteq Subs!AllSlots /\ \A x \in Subs!Wish(0) : x[2] = 0
           /\ Subs!Wish(1) \subseteq Subs!AllSlots
           /\ \A x \in Subs!Wish(1) : /\ x[2] \in Nat \ {0}
                                      /\ \/ x[1] \in Subs!Pinned
                                         \/ x[1] = active /\ ~Subs!Elastic(active)
           /\ Subs!Wish(2) \subseteq Subs!AllSlots
           /\ \A x \in Subs!Wish(2) : x[2] \in Nat \ {0} /\ x[1] = active /\ Subs!Elastic(active)
           /\ Subs!Reference(active) \in Subs!Wish(0)
           /\ Subs!Pinned \subseteq Trading \ {active} /\ Subs!Pinned \subseteq Chains
  <1>1. Subs!Pinned \subseteq Trading \ {active} /\ Trading \subseteq Chains
    BY DEF Subs!Pinned, SubsSettings, Subs!Assumptions
  <1>2. /\ Subs!Wish(0) = {Subs!Reference(c) : c \in {active} \cup Subs!Pinned}
        /\ Subs!Wish(1) = (IF Subs!Elastic(active) THEN {}
                           ELSE Subs!Contracts(chosen.of, chosen.centre))
                          \cup UNION {Subs!Contracts(c, pinned[c]) : c \in Subs!Pinned}
        /\ Subs!Wish(2) = IF Subs!Elastic(active) THEN Subs!Contracts(chosen.of, chosen.centre)
                          ELSE {}
    BY DEF Subs!Wish
  <1>3. Subs!Wish(0) \subseteq Subs!AllSlots /\ Subs!Reference(active) \in Subs!Wish(0)
    <2>1. \A c \in Chains : Subs!Reference(c) \in Subs!AllSlots
      BY DEF Subs!AllSlots
    <2> QED
      BY <1>1, <1>2, <2>1 DEF PlanTypes
  <1>4. \A x \in Subs!Wish(0) : x[2] = 0
    BY <1>2 DEF Subs!Reference
  <1>5. \A x \in Subs!Contracts(chosen.of, chosen.centre) :
           x[1] = active /\ x[2] \in Nat \ {0} /\ x \in Subs!AllSlots
    <2>1. chosen.centre \in Spots \cup {0}
      BY DEF PlanTypes
    <2> QED
      BY <2>1, SubsContract DEF PlanTypes
  <1>6. \A c \in Subs!Pinned : \A x \in Subs!Contracts(c, pinned[c]) :
           x[1] = c /\ x[2] \in Nat \ {0} /\ x \in Subs!AllSlots
    <2> TAKE c \in Subs!Pinned
    <2>1. c \in Chains /\ pinned[c] \in Spots \cup {0}
      BY <1>1 DEF Subs!Pinned, PlanTypes
    <2> QED
      BY <2>1, SubsContract
  <1>7. \A x \in Subs!Wish(1) : /\ x \in Subs!AllSlots /\ x[2] \in Nat \ {0}
                                /\ x[1] \in Subs!Pinned \/ (x[1] = active /\ ~Subs!Elastic(active))
    <2> TAKE x \in Subs!Wish(1)
    <2>1. CASE ~Subs!Elastic(active) /\ x \in Subs!Contracts(chosen.of, chosen.centre)
      BY <2>1, <1>5
    <2>2. CASE \E c \in Subs!Pinned : x \in Subs!Contracts(c, pinned[c])
      BY <2>2, <1>6
    <2> QED
      BY <1>2, <2>1, <2>2
  <1> QED
    BY <1>1, <1>2, <1>3, <1>4, <1>5, <1>7

LEMMA SubsReferences ==
    ASSUME SubsSettings, PlanTypes
    PROVE  IsFiniteSet(Subs!Wish(0)) /\ Cardinality(Subs!Wish(0)) <= Subs!Usable
  <1> DEFINE U == {active} \cup Subs!Pinned
             f == [c \in U |-> Subs!Reference(c)]
  <1>1. Subs!Pinned \subseteq Trading
    BY DEF Subs!Pinned
  <1>2. /\ IsFiniteSet(Subs!Pinned) /\ Cardinality(Subs!Pinned) \in Nat
        /\ Cardinality(Subs!Pinned) <= Cardinality(Trading)
    BY <1>1, SubsCeiling, FS_Subset, FS_CardinalityType
  <1>3. /\ IsFiniteSet(U) /\ Cardinality(U) \in Nat
        /\ Cardinality(U) <= Cardinality(Subs!Pinned) + 1
    <2>1. U = Subs!Pinned \cup {active}
      OBVIOUS
    <2> HIDE DEF U
    <2>2. /\ IsFiniteSet(U)
          /\ Cardinality(U) = IF active \in Subs!Pinned THEN Cardinality(Subs!Pinned)
                              ELSE Cardinality(Subs!Pinned) + 1
      BY <2>1, <1>2, FS_AddElement
    <2> QED
      BY <2>2, <1>2
  <1>4. Subs!Wish(0) = {Subs!Reference(c) : c \in U}
    BY DEF Subs!Wish
  <1>5. f \in Surjection(U, Subs!Wish(0))
    <2>1. f \in [U -> Subs!Wish(0)]
      BY <1>4
    <2>2. \A x \in Subs!Wish(0) : \E c \in U : f[c] = x
      BY <1>4
    <2> QED
      BY <2>1, <2>2 DEF Surjection
  <1>6. IsFiniteSet(Subs!Wish(0)) /\ Cardinality(Subs!Wish(0)) <= Cardinality(U)
    <2> HIDE DEF f, U
    <2> QED BY <1>3, <1>5, FS_Surjection
  <1>7. Cardinality(Subs!Wish(0)) \in Nat
    BY <1>6, FS_CardinalityType
  <1> HIDE DEF U
  <1> QED
    BY <1>2, <1>3, <1>6, <1>7, SubsCeiling

\* _allocate, taken apart: what each priority keeps of its wishes.
LEMMA SubsPlan ==
    ASSUME SubsSettings, PlanTypes, capacity > 0, NEW plan \in Subs!Plans
    PROVE  \E a \in SUBSET Subs!Wish(0), b \in SUBSET Subs!Wish(1), c \in SUBSET Subs!Wish(2) :
             /\ plan = a \cup b \cup c
             /\ a \in Subs!Innermost(Subs!Wish(0), capacity)
             /\ b \in Subs!Innermost(Subs!Wish(1), Subs!Room(a))
             /\ c \in Subs!Innermost(Subs!Wish(2), Subs!Room(a \cup b))
  <1>1. capacity # 0
    OBVIOUS
  <1>2. PICK a \in Subs!Innermost(Subs!Wish(0), capacity) :
           plan \in UNION {{a \cup y \cup z :
                               z \in Subs!Innermost(Subs!Wish(2), Subs!Room(a \cup y))} :
                             y \in Subs!Innermost(Subs!Wish(1), Subs!Room(a))}
    BY <1>1 DEF Subs!Plans
  <1>3. PICK b \in Subs!Innermost(Subs!Wish(1), Subs!Room(a)) :
           plan \in {a \cup b \cup z : z \in Subs!Innermost(Subs!Wish(2), Subs!Room(a \cup b))}
    BY <1>2
  <1>4. PICK c \in Subs!Innermost(Subs!Wish(2), Subs!Room(a \cup b)) : plan = a \cup b \cup c
    BY <1>3
  <1>5. \A S, n : \A T \in Subs!Innermost(S, n) : T \subseteq S
    BY DEF Subs!Innermost
  <1> QED
    BY <1>2, <1>3, <1>4, <1>5

\* A plan holds every reference, nothing but slots, and no more of them than the capacity.
LEMMA SubsPlanKeeps ==
    ASSUME SubsSettings, PlanTypes, NEW plan \in Subs!Plans
    PROVE  /\ plan \subseteq Subs!AllSlots
           /\ Subs!Reference(active) \in plan
           /\ capacity > 0 => Cardinality(plan) <= capacity
  <1>1. capacity \in Nat
    BY SubsCeiling DEF PlanTypes
  <1>2. CASE capacity = 0
    BY <1>2, SubsWishes DEF Subs!Plans
  <1>3. CASE capacity > 0
    <2>1. PICK a \in SUBSET Subs!Wish(0), b \in SUBSET Subs!Wish(1), c \in SUBSET Subs!Wish(2) :
             /\ plan = a \cup b \cup c
             /\ a \in Subs!Innermost(Subs!Wish(0), capacity)
             /\ b \in Subs!Innermost(Subs!Wish(1), Subs!Room(a))
             /\ c \in Subs!Innermost(Subs!Wish(2), Subs!Room(a \cup b))
      BY <1>3, SubsPlan
    <2>2. IsFiniteSet(Subs!Wish(0)) /\ IsFiniteSet(Subs!Wish(1)) /\ IsFiniteSet(Subs!Wish(2))
      BY SubsWishes, SubsSlotsFinite, FS_Subset
    <2>3. capacity = Subs!Usable
      BY <1>3 DEF PlanTypes
    <2>4. a = Subs!Wish(0) /\ IsFiniteSet(a) /\ Cardinality(a) \in Nat /\ Cardinality(a) <= capacity
      BY <1>1, <2>1, <2>2, <2>3, SubsReferences, SubsInnermost
    <2>5. Subs!Room(a) \in Nat /\ Subs!Room(a) = capacity - Cardinality(a)
      BY <1>1, <2>4, SubsCount DEF Subs!Room
    <2>6. IsFiniteSet(b) /\ Cardinality(b) \in Nat /\ Cardinality(b) <= Subs!Room(a)
      BY <2>1, <2>2, <2>5, SubsInnermost
    <2>7. /\ IsFiniteSet(a \cup b) /\ Cardinality(a \cup b) \in Nat
          /\ Cardinality(a \cup b) <= capacity
      <3>1. Cardinality(a \cup b) = Cardinality(a) + Cardinality(b) - Cardinality(a \cap b)
        BY <2>4, <2>6, FS_Union
      <3>2. IsFiniteSet(a \cup b) /\ IsFiniteSet(a \cap b)
        BY <2>4, <2>6, FS_Union, FS_Intersection
      <3>3. Cardinality(a \cup b) \in Nat /\ Cardinality(a \cap b) \in Nat
        BY <3>2, FS_CardinalityType
      <3> QED
        BY <1>1, <2>4, <2>5, <2>6, <3>1, <3>2, <3>3
    <2>8. Subs!Room(a \cup b) \in Nat /\ Subs!Room(a \cup b) = capacity - Cardinality(a \cup b)
      BY <1>1, <2>7, SubsCount DEF Subs!Room
    <2>9. IsFiniteSet(c) /\ Cardinality(c) \in Nat /\ Cardinality(c) <= Subs!Room(a \cup b)
      BY <2>1, <2>2, <2>8, SubsInnermost
    <2>10. Cardinality(plan) <= capacity
      <3> DEFINE d == a \cup b
      <3>1. Cardinality(d \cup c) = Cardinality(d) + Cardinality(c) - Cardinality(d \cap c)
        BY <2>7, <2>9, FS_Union
      <3>2. IsFiniteSet(d \cup c) /\ IsFiniteSet(d \cap c)
        BY <2>7, <2>9, FS_Union, FS_Intersection
      <3>3. Cardinality(d \cup c) \in Nat /\ Cardinality(d \cap c) \in Nat
        BY <3>2, FS_CardinalityType
      <3>4. plan = d \cup c
        BY <2>1
      <3> QED
        BY <1>1, <2>7, <2>8, <2>9, <3>1, <3>3, <3>4
    <2> QED
      BY <2>1, <2>4, <2>10, SubsWishes
  <1> QED
    BY <1>1, <1>2, <1>3

\* Priorities: when one of them is cut, nothing of a later one is taken; and within one
\* that is cut no slot ranks behind a slot left out.
LEMMA SubsPriorities ==
    ASSUME SubsSettings, PlanTypes, capacity > 0, NEW plan \in Subs!Plans
    PROVE  \E a \in SUBSET Subs!Wish(0), b \in SUBSET Subs!Wish(1), c \in SUBSET Subs!Wish(2) :
             /\ plan = a \cup b \cup c /\ a = Subs!Wish(0)
             /\ b # Subs!Wish(1) => c = {}
             /\ \A x \in b, y \in Subs!Wish(1) \ b : Subs!Rank(x) <= Subs!Rank(y)
             /\ \A x \in c, y \in Subs!Wish(2) \ c : Subs!Rank(x) <= Subs!Rank(y)
  <1>1. capacity \in Nat
    BY SubsCeiling DEF PlanTypes
  <1>2. PICK a \in SUBSET Subs!Wish(0), b \in SUBSET Subs!Wish(1), c \in SUBSET Subs!Wish(2) :
           /\ plan = a \cup b \cup c
           /\ a \in Subs!Innermost(Subs!Wish(0), capacity)
           /\ b \in Subs!Innermost(Subs!Wish(1), Subs!Room(a))
           /\ c \in Subs!Innermost(Subs!Wish(2), Subs!Room(a \cup b))
    BY SubsPlan
  <1>3. IsFiniteSet(Subs!Wish(0)) /\ IsFiniteSet(Subs!Wish(1)) /\ IsFiniteSet(Subs!Wish(2))
    BY SubsWishes, SubsSlotsFinite, FS_Subset
  <1>4. capacity = Subs!Usable
    BY DEF PlanTypes
  <1>5. a = Subs!Wish(0) /\ IsFiniteSet(a) /\ Cardinality(a) \in Nat /\ Cardinality(a) <= capacity
    BY <1>1, <1>2, <1>3, <1>4, SubsReferences, SubsInnermost
  <1>6. Subs!Room(a) \in Nat /\ Subs!Room(a) = capacity - Cardinality(a)
    BY <1>1, <1>5, SubsCount DEF Subs!Room
  <1>7. /\ IsFiniteSet(b) /\ Cardinality(b) \in Nat
        /\ b # Subs!Wish(1) => /\ Cardinality(b) = Subs!Room(a)
                               /\ \A x \in b, y \in Subs!Wish(1) \ b : Subs!Rank(x) <= Subs!Rank(y)
    BY <1>2, <1>3, <1>6, SubsInnermost
  <1>8. a \cap b = {}
    BY <1>5, SubsWishes
  <1>9. IsFiniteSet(a \cup b) /\ Cardinality(a \cup b) = Cardinality(a) + Cardinality(b)
    <2>1. /\ IsFiniteSet(a \cup b)
          /\ Cardinality(a \cup b) = Cardinality(a) + Cardinality(b) - Cardinality(a \cap b)
      BY <1>5, <1>7, FS_Union
    <2>2. Cardinality(a \cap b) = 0
      BY <1>8, FS_EmptySet
    <2> QED
      BY <1>5, <1>7, <2>1, <2>2
  <1>10. Subs!Room(a \cup b) \in Nat /\ (b # Subs!Wish(1) => Subs!Room(a \cup b) = 0)
    <2>1. Cardinality(a \cup b) \in Nat
      BY <1>9, FS_CardinalityType
    <2> QED
      BY <1>1, <1>5, <1>6, <1>7, <1>9, <2>1, SubsCount DEF Subs!Room
  <1>11. /\ IsFiniteSet(c) /\ Cardinality(c) \in Nat /\ Cardinality(c) <= Subs!Room(a \cup b)
         /\ c # Subs!Wish(2) => \A x \in c, y \in Subs!Wish(2) \ c : Subs!Rank(x) <= Subs!Rank(y)
    BY <1>2, <1>3, <1>10, SubsInnermost
  <1>12. b # Subs!Wish(1) => c = {}
    BY <1>10, <1>11, FS_EmptySet
  <1> QED
    BY <1>2, <1>5, <1>7, <1>11, <1>12

LEMMA SubsSqueeze ==
    ASSUME SubsSettings, PlanTypes
    PROVE  Subs!SqueezeIsFair
  <1> DEFINE shed == (Subs!Wish(0) \cup Subs!Wish(1) \cup Subs!Wish(2)) \ desired
  <1> SUFFICES ASSUME capacity > 0, desired \in Subs!Plans
               PROVE  /\ \A x \in shed, y \in desired :
                            y[1] \notin Trading /\ y[2] # 0 => x[1] \notin Trading
                      /\ \A x \in shed, y \in desired :
                            x[1] = y[1] /\ x[2] # 0 /\ y[2] # 0 => Subs!Rank(y) <= Subs!Rank(x)
    BY DEF Subs!SqueezeIsFair
  <1>1. PICK a \in SUBSET Subs!Wish(0), b \in SUBSET Subs!Wish(1), c \in SUBSET Subs!Wish(2) :
           /\ desired = a \cup b \cup c /\ a = Subs!Wish(0)
           /\ b # Subs!Wish(1) => c = {}
           /\ \A x \in b, y \in Subs!Wish(1) \ b : Subs!Rank(x) <= Subs!Rank(y)
           /\ \A x \in c, y \in Subs!Wish(2) \ c : Subs!Rank(x) <= Subs!Rank(y)
    BY SubsPriorities
  <1>2. /\ \A x \in Subs!Wish(0) : x[2] = 0
        /\ \A x \in Subs!Wish(1) : x[1] \in Subs!Pinned \/ (x[1] = active /\ ~Subs!Elastic(active))
        /\ \A x \in Subs!Wish(2) : x[1] = active /\ Subs!Elastic(active)
        /\ Subs!Pinned \subseteq Trading \ {active}
    BY SubsWishes
  <1>3. \A x \in shed : x \in Subs!Wish(1) \ b \/ x \in Subs!Wish(2) \ c
    BY <1>1
  <1>4. ASSUME NEW x \in shed, NEW y \in desired, y[1] \notin Trading, y[2] # 0
        PROVE  x[1] \notin Trading
    <2>1. Subs!Elastic(active) => active \notin Trading
      BY DEF Subs!Elastic
    <2>2. CASE Trading = {}
      BY <2>2
    <2>3. CASE Trading # {}
      <3>1. y \in c
        BY <1>1, <1>2, <1>4, <2>3 DEF Subs!Elastic
      <3>2. x \in Subs!Wish(2)
        BY <1>1, <1>3, <3>1
      <3> QED
        BY <1>2, <2>1, <3>2
    <2> QED
      BY <2>2, <2>3
  <1>5. ASSUME NEW x \in shed, NEW y \in desired, x[1] = y[1], x[2] # 0, y[2] # 0
        PROVE  Subs!Rank(y) <= Subs!Rank(x)
    <2>1. y \in b \/ y \in c
      BY <1>1, <1>2, <1>5
    <2>2. CASE x \in Subs!Wish(1) \ b
      <3>1. y \notin Subs!Wish(2)
        BY <1>2, <1>5, <2>2 DEF Subs!Elastic
      <3> QED
        BY <1>1, <2>1, <2>2, <3>1
    <2>3. CASE x \in Subs!Wish(2) \ c
      <3>1. y \notin Subs!Wish(1)
        BY <1>2, <1>5, <2>3 DEF Subs!Elastic
      <3> QED
        BY <1>1, <2>1, <2>3, <3>1
    <2> QED
      BY <1>3, <2>2, <2>3
  <1> QED
    BY <1>4, <1>5

-----------------------------------------------------------------------------
(* TdSubscriptions: the invariant.                                          *)

Requests == [add : BOOLEAN, slots : SUBSET Subs!AllSlots]
Places == {"idle", "provide", "refresh", "lock", "send"}

SubsTypes ==
    /\ PlanTypes
    /\ desired \subseteq Subs!AllSlots /\ live \subseteq Subs!AllSlots
    /\ subs \subseteq Subs!AllSlots
    /\ link \in [connected : BOOLEAN, ws : BOOLEAN]
    /\ task \in [Subs!Tasks -> Places]
    /\ job \in [of : Subs!Tasks \cup {"none"},
                rem : SUBSET Subs!AllSlots, add : SUBSET Subs!AllSlots]
    /\ wire \in Seq(Requests) /\ acks \in Seq(SUBSET Subs!AllSlots)
    /\ refused \in BOOLEAN
    /\ switches \in 0 .. MaxSwitches /\ drops \in 0 .. MaxDrops

\* _reconcile_lock: one task at a time is sending, and the job is its own.
SubsLock ==
    /\ \A t \in Subs!Tasks : task[t] = "send" <=> job.of = t
    /\ job.of = "none" => job = Subs!NoJob
    /\ task["switch"] # "provide" /\ task["watch"] # "provide"

\* A connection has a socket and its ceiling; one that is lost carries nothing.
SubsLink ==
    /\ link.connected => link.ws /\ capacity = Subs!Usable
    /\ ~link.connected => wire = <<>> /\ subs = {}

\* A socket torn down has nothing acknowledged.
SubsSilent == ~link.ws => acks = <<>> /\ live = {}

\* Since the login the connection's own replay has been planned.
Replayed == link.connected /\ task["replay"] \in {"idle", "send"}

SubsPlanned ==
    /\ Replayed => Cardinality(desired) <= capacity
    /\ Replayed /\ task["switch"] \in {"idle", "send"} => Subs!Reference(active) \in desired

\* The vendor will hold s once it has served the wire.
Holds(w, S, s) ==
    \/ \E i \in DOMAIN w : /\ w[i].add /\ s \in w[i].slots
                           /\ \A j \in DOMAIN w : j > i /\ s \in w[j].slots => w[j].add
    \/ s \in S /\ \A i \in DOMAIN w : s \in w[i].slots => w[i].add

Coming(s) == Holds(wire, subs, s) \/ s \in job.add

Asked(s) ==
    \/ \E i \in DOMAIN acks : s \in acks[i]
    \/ \E i \in DOMAIN wire : wire[i].add /\ s \in wire[i].slots

LiveComes  == link.connected => \A s \in live \ job.rem : Coming(s)
AskedComes == link.connected => \A s \in desired : Asked(s) => Coming(s)
PlanComes  == Replayed => \A s \in desired : Coming(s)

SubsBase == SubsTypes /\ SubsLock /\ SubsLink /\ SubsPlanned

SubsCarried == SubsSilent /\ (refused \/ (LiveComes /\ AskedComes /\ PlanComes))

\* What is to be held stays so when the vendor serves one request more.
LEMMA HoldsServed ==
    ASSUME NEW w \in Seq(Requests), w # <<>>, NEW S, NEW s, Holds(w, S, s)
    PROVE  Holds(Tail(w), IF Head(w).add THEN S \cup Head(w).slots ELSE S \ Head(w).slots, s)
  <1> DEFINE u == Tail(w)
             R == IF w[1].add THEN S \cup w[1].slots ELSE S \ w[1].slots
  <1>1. /\ Len(w) \in Nat \ {0} /\ DOMAIN w = 1 .. Len(w) /\ Head(w) = w[1]
        /\ u \in Seq(Requests) /\ Len(u) = Len(w) - 1 /\ DOMAIN u = 1 .. (Len(w) - 1)
        /\ \A i \in 1 .. (Len(w) - 1) : u[i] = w[i + 1]
    BY HeadTailProperties, EmptySeq, LenProperties
  <1>2. ASSUME \A j \in 2 .. Len(w) : s \in w[j].slots => w[j].add
        PROVE  \A i \in DOMAIN u : s \in u[i].slots => u[i].add
    BY <1>1, <1>2
  <1>3. ASSUME NEW i \in DOMAIN w, w[i].add, s \in w[i].slots,
               \A j \in DOMAIN w : j > i /\ s \in w[j].slots => w[j].add
        PROVE  Holds(u, R, s)
    <2>1. CASE i = 1
      <3>1. s \in R
        BY <1>3, <2>1
      <3>2. \A j \in 2 .. Len(w) : s \in w[j].slots => w[j].add
        BY <1>1, <1>3, <2>1
      <3> QED
        BY <1>2, <3>1, <3>2 DEF Holds
    <2>2. CASE i # 1
      <3>1. i - 1 \in DOMAIN u /\ u[i - 1] = w[i]
        BY <1>1, <2>2
      <3>2. \A j \in DOMAIN u : j > i - 1 /\ s \in u[j].slots => u[j].add
        BY <1>1, <1>3
      <3> QED
        BY <1>3, <3>1, <3>2 DEF Holds
    <2> QED
      BY <2>1, <2>2
  <1>4. ASSUME s \in S, \A i \in DOMAIN w : s \in w[i].slots => w[i].add
        PROVE  Holds(u, R, s)
    <2>1. s \in R
      BY <1>1, <1>4
    <2>2. \A j \in 2 .. Len(w) : s \in w[j].slots => w[j].add
      BY <1>1, <1>4
    <2> QED
      BY <1>2, <2>1, <2>2 DEF Holds
  <1>5. Holds(u, R, s)
    BY <1>3, <1>4 DEF Holds
  <1> QED
    BY <1>1, <1>5

\* An addition sent holds its slots, and a removal costs nothing but its own.
LEMMA HoldsAppended ==
    ASSUME NEW w \in Seq(Requests), NEW S, NEW m \in Requests, NEW s
    PROVE  /\ m.add /\ (s \in m.slots \/ Holds(w, S, s)) => Holds(Append(w, m), S, s)
           /\ s \notin m.slots /\ Holds(w, S, s) => Holds(Append(w, m), S, s)
  <1> DEFINE u == Append(w, m)
  <1>1. /\ Len(w) \in Nat /\ DOMAIN w = 1 .. Len(w) /\ DOMAIN u = 1 .. (Len(w) + 1)
        /\ \A i \in 1 .. Len(w) : u[i] = w[i]
        /\ u[Len(w) + 1] = m
    BY AppendProperties, LenProperties
  <1> HIDE DEF u
  <1>2. ASSUME m.add, s \in m.slots
        PROVE  Holds(u, S, s)
    <2>1. Len(w) + 1 \in DOMAIN u /\ \A j \in DOMAIN u : ~(j > Len(w) + 1)
      BY <1>1
    <2> QED
      BY <1>1, <1>2, <2>1 DEF Holds
  <1>3. ASSUME Holds(w, S, s), m.add \/ s \notin m.slots
        PROVE  Holds(u, S, s)
    <2>1. ASSUME NEW i \in DOMAIN w, w[i].add, s \in w[i].slots,
                 \A j \in DOMAIN w : j > i /\ s \in w[j].slots => w[j].add
          PROVE  Holds(u, S, s)
      <3>1. i \in DOMAIN u /\ u[i] = w[i]
        BY <1>1
      <3>2. \A j \in DOMAIN u : j > i /\ s \in u[j].slots => u[j].add
        BY <1>1, <1>3, <2>1
      <3> QED
        BY <2>1, <3>1, <3>2 DEF Holds
    <2>2. ASSUME s \in S, \A i \in DOMAIN w : s \in w[i].slots => w[i].add
          PROVE  Holds(u, S, s)
      <3>1. \A i \in DOMAIN u : s \in u[i].slots => u[i].add
        BY <1>1, <1>3, <2>2
      <3> QED
        BY <2>2, <3>1 DEF Holds
    <2> QED
      BY <1>3, <2>1, <2>2 DEF Holds
  <1>4. QED
    BY <1>2, <1>3 DEF u

-----------------------------------------------------------------------------
(* TdSubscriptions: types, places and the budget.                           *)

\* swap_subscription leaves the types of the plan as they are.
LEMMA SubsSwapped ==
    ASSUME SubsSettings, PlanTypes, NEW t \in Subs!Tasks, NEW c \in Chains, NEW s \in Spots,
           Subs!Swap(t, c, [of |-> c, centre |-> s], s), UNCHANGED <<pinned, capacity>>
    PROVE  PlanTypes'
  <1>1. active' = c /\ chosen' = [of |-> c, centre |-> s] /\ chosen'.of = active'
    BY DEF Subs!Swap
  <1>2. chosen' \in [of : Chains, centre : Spots \cup {0}]
    BY <1>1
  <1>3. spot' \in [Chains -> Spots \cup {0}]
    BY DEF Subs!Swap, PlanTypes
  <1> QED
    BY <1>1, <1>2, <1>3 DEF PlanTypes

LEMMA SubsPlanTypesStep ==
    ASSUME SubsSettings, PlanTypes, [Subs!Next]_Subs!vars
    PROVE  PlanTypes'
  <1>1. CASE UNCHANGED <<active, chosen, pinned, spot, capacity>>
    BY <1>1 DEF PlanTypes
  <1>2. CASE Subs!Connects
    BY <1>2 DEF Subs!Connects, PlanTypes
  <1>3. CASE Subs!SpotMoves
    <2>1. spot' \in [Chains -> Spots \cup {0}]
      BY <1>3 DEF Subs!SpotMoves, PlanTypes
    <2> QED
      BY <1>3, <2>1 DEF Subs!SpotMoves, PlanTypes
  <1>4. CASE Subs!Provided
    <2>1. CASE \E s \in Spots : Subs!Swap("replay", active, [of |-> active, centre |-> s], s)
      <3>1. PICK s \in Spots : Subs!Swap("replay", active, [of |-> active, centre |-> s], s)
        BY <2>1
      <3>2. UNCHANGED <<pinned, capacity>>
        BY <1>4 DEF Subs!Provided
      <3>3. active \in Chains /\ "replay" \in Subs!Tasks
        BY DEF PlanTypes, Subs!Tasks
      <3> QED
        BY <3>1, <3>2, <3>3, SubsSwapped
    <2>2. CASE UNCHANGED <<active, chosen, spot>>
      BY <1>1, <1>4, <2>2 DEF Subs!Provided
    <2> QED
      BY <1>4, <2>1, <2>2 DEF Subs!Provided
  <1>5. CASE Subs!Switches
    <2>1. PICK c \in Chains, s \in Spots : Subs!Swap("switch", c, [of |-> c, centre |-> s], s)
      BY <1>5 DEF Subs!Switches
    <2>2. UNCHANGED <<pinned, capacity>> /\ "switch" \in Subs!Tasks
      BY <1>5 DEF Subs!Switches, Subs!Tasks
    <2> QED
      BY <2>1, <2>2, SubsSwapped
  <1>6. ASSUME NEW t \in Subs!Tasks, Subs!Refresh(t)
        PROVE  PlanTypes'
    <2>1. Trading \subseteq Chains
      BY DEF SubsSettings, Subs!Assumptions
    <2>2. Subs!Refreshed \in [Trading -> Spots \cup {Subs!None, 0}]
      BY <2>1 DEF Subs!Refreshed, PlanTypes
    <2>3. [c \in Trading |-> IF c = active THEN Subs!None ELSE pinned[c]]
             \in [Trading -> Spots \cup {Subs!None, 0}]
      BY DEF PlanTypes
    <2> QED
      BY <1>6, <2>2, <2>3 DEF Subs!Refresh, PlanTypes
  <1>7. ASSUME NEW t \in Subs!Tasks, Subs!Reconcile(t) \/ Subs!SendsAdditions(t)
        PROVE  PlanTypes'
    BY <1>1, <1>7 DEF Subs!Reconcile, Subs!SendsAdditions
  <1>8. CASE Subs!Drops \/ Subs!Teardown \/ Subs!Parse \/ Subs!Serve \/ Subs!Watches
    BY <1>1, <1>8 DEF Subs!Drops, Subs!Teardown, Subs!Parse, Subs!Serve, Subs!Watches
  <1>9. CASE UNCHANGED Subs!vars
    BY <1>1, <1>9 DEF Subs!vars
  <1> QED
    BY <1>2, <1>3, <1>4, <1>5, <1>6, <1>7, <1>8, <1>9 DEF Subs!Next, Subs!Steps

LEMMA SubsSends ==
    ASSUME wire \in Seq(Requests), NEW add \in BOOLEAN, NEW S \in SUBSET Subs!AllSlots
    PROVE  Subs!Send(add, S) \in Seq(Requests)
  <1>1. [add |-> add, slots |-> S] \in Requests
    BY DEF Requests
  <1> QED
    BY <1>1, AppendProperties DEF Subs!Send

LEMMA SubsCountersStep ==
    ASSUME SubsSettings, SubsTypes, [Subs!Next]_Subs!vars
    PROVE  /\ switches' \in 0 .. MaxSwitches /\ drops' \in 0 .. MaxDrops
           /\ refused' \in BOOLEAN
  <1>1. /\ MaxSwitches \in Nat /\ switches \in 0 .. MaxSwitches
        /\ MaxDrops \in Nat /\ drops \in 0 .. MaxDrops /\ refused \in BOOLEAN
    BY DEF SubsSettings, Subs!Assumptions, SubsTypes
  <1>2. switches' = switches \/ (switches < MaxSwitches /\ switches' = switches + 1)
    BY DEF Subs!vars, Subs!Next, Subs!Steps, Subs!Connects, Subs!Drops, Subs!Teardown,
       Subs!Parse, Subs!Serve, Subs!SpotMoves, Subs!Provided, Subs!Switches, Subs!Watches,
       Subs!Refresh, Subs!Reconcile, Subs!SendsAdditions
  <1>3. drops' = drops \/ (drops < MaxDrops /\ drops' = drops + 1)
    BY DEF Subs!vars, Subs!Next, Subs!Steps, Subs!Connects, Subs!Drops, Subs!Teardown,
       Subs!Parse, Subs!Serve, Subs!SpotMoves, Subs!Provided, Subs!Switches, Subs!Watches,
       Subs!Refresh, Subs!Reconcile, Subs!SendsAdditions
  <1>4. refused' = refused \/ refused' = TRUE
    BY DEF Subs!vars, Subs!Next, Subs!Steps, Subs!Connects, Subs!Drops, Subs!Teardown,
       Subs!Parse, Subs!Serve, Subs!SpotMoves, Subs!Provided, Subs!Switches, Subs!Watches,
       Subs!Refresh, Subs!Reconcile, Subs!SendsAdditions
  <1>5. switches' \in 0 .. MaxSwitches
    BY <1>1, <1>2
  <1>6. drops' \in 0 .. MaxDrops
    BY <1>1, <1>3
  <1> QED
    BY <1>1, <1>4, <1>5, <1>6

LEMMA SubsTasksStep ==
    ASSUME SubsTypes, SubsLock, [Subs!Next]_Subs!vars
    PROVE  /\ task' \in [Subs!Tasks -> Places] /\ link' \in [connected : BOOLEAN, ws : BOOLEAN]
           /\ SubsLock'
  <1>1. task \in [Subs!Tasks -> Places] /\ link \in [connected : BOOLEAN, ws : BOOLEAN]
    BY DEF SubsTypes
  <1>2. CASE Subs!Connects
    BY <1>1, <1>2 DEF Subs!Connects, Subs!At, Places, Subs!Tasks, SubsLock
  <1>7. CASE Subs!Drops \/ Subs!Teardown
    BY <1>1, <1>7 DEF Subs!Drops, Subs!Teardown, SubsLock
  <1>8. CASE UNCHANGED <<task, link, job>>
    BY <1>1, <1>8 DEF SubsLock
  <1>9. CASE Subs!Parse \/ Subs!Serve \/ Subs!SpotMoves \/ UNCHANGED Subs!vars
    BY <1>8, <1>9 DEF Subs!Parse, Subs!Serve, Subs!SpotMoves, Subs!vars
  <1>3. CASE Subs!Provided \/ Subs!Switches \/ Subs!Watches
    <2>1. CASE Subs!Provided
      BY <1>1, <1>3, <2>1 DEF Subs!Provided, Subs!Swap, Subs!At, Places, Subs!Tasks, SubsLock
    <2>2. CASE Subs!Switches
      BY <1>1, <1>3, <2>2 DEF Subs!Switches, Subs!Swap, Subs!At, Places, Subs!Tasks, SubsLock
    <2>3. CASE Subs!Watches
      BY <1>1, <1>3, <2>3 DEF Subs!Watches, Subs!At, Places, Subs!Tasks, SubsLock
    <2> QED
      BY <1>3, <2>1, <2>2, <2>3
  <1>4. ASSUME NEW t \in Subs!Tasks, Subs!Refresh(t)
        PROVE  task' \in [Subs!Tasks -> Places] /\ UNCHANGED link /\ SubsLock'
    BY <1>1, <1>4 DEF Subs!Refresh, Subs!At, Places, Subs!Tasks, SubsLock
  <1>5. ASSUME NEW t \in Subs!Tasks, Subs!Reconcile(t)
        PROVE  task' \in [Subs!Tasks -> Places] /\ UNCHANGED link /\ SubsLock'
    <2>1. task[t] = "lock" /\ job.of = "none" /\ UNCHANGED link
      BY <1>5 DEF Subs!Reconcile
    <2>2. CASE job'.of = t /\ Subs!At(t, "send")
      BY <1>1, <2>1, <2>2 DEF Subs!At, Places, Subs!Tasks, SubsLock
    <2>3. CASE job' = job /\ Subs!At(t, "idle")
      BY <1>1, <2>1, <2>3 DEF Subs!At, Places, Subs!Tasks, SubsLock
    <2>4. CASE link.connected
      <3>1. PICK plan \in Subs!Plans :
               /\ job' = [of |-> t, rem |-> live \ plan, add |-> plan \ live]
               /\ Subs!At(t, "send")
        BY <1>5, <2>4 DEF Subs!Reconcile
      <3> QED
        BY <2>1, <2>2, <3>1
    <2>5. CASE ~link.connected
      BY <1>5, <2>1, <2>3, <2>5 DEF Subs!Reconcile
    <2> QED
      BY <2>4, <2>5
  <1>6. ASSUME NEW t \in Subs!Tasks, Subs!SendsAdditions(t)
        PROVE  task' \in [Subs!Tasks -> Places] /\ UNCHANGED link /\ SubsLock'
    BY <1>1, <1>6 DEF Subs!SendsAdditions, Subs!At, Places, Subs!Tasks, SubsLock, Subs!NoJob
  <1> QED
    BY <1>1, <1>2, <1>3, <1>4, <1>5, <1>6, <1>7, <1>9 DEF Subs!Next, Subs!Steps

LEMMA SubsSetsStep ==
    ASSUME SubsSettings, SubsTypes, [Subs!Next]_Subs!vars
    PROVE  /\ desired' \subseteq Subs!AllSlots /\ live' \subseteq Subs!AllSlots
           /\ subs' \subseteq Subs!AllSlots
           /\ job' \in [of : Subs!Tasks \cup {"none"},
                        rem : SUBSET Subs!AllSlots, add : SUBSET Subs!AllSlots]
           /\ wire' \in Seq(Requests) /\ acks' \in Seq(SUBSET Subs!AllSlots)
  <1> DEFINE Jobs == [of : Subs!Tasks \cup {"none"},
                      rem : SUBSET Subs!AllSlots, add : SUBSET Subs!AllSlots]
             Good == /\ desired' \subseteq Subs!AllSlots /\ live' \subseteq Subs!AllSlots
                     /\ subs' \subseteq Subs!AllSlots /\ job' \in Jobs
                     /\ wire' \in Seq(Requests) /\ acks' \in Seq(SUBSET Subs!AllSlots)
  <1>1. /\ desired \subseteq Subs!AllSlots /\ live \subseteq Subs!AllSlots
        /\ subs \subseteq Subs!AllSlots /\ job \in Jobs
        /\ wire \in Seq(Requests) /\ acks \in Seq(SUBSET Subs!AllSlots)
    BY DEF SubsTypes
  <1>2. <<>> \in Seq(Requests)
    BY EmptySeq
  <1>3. CASE UNCHANGED <<desired, live, subs, job, wire, acks>>
    BY <1>1, <1>3
  <1>4. CASE Subs!Connects \/ Subs!SpotMoves \/ Subs!Switches \/ Subs!Watches \/ UNCHANGED Subs!vars
    BY <1>3, <1>4 DEF Subs!Connects, Subs!SpotMoves, Subs!Switches, Subs!Watches, Subs!vars
  <1>5. CASE Subs!Drops \/ Subs!Provided
    BY <1>1, <1>2, <1>5 DEF Subs!Drops, Subs!Provided
  <1>6. CASE Subs!Teardown
    BY <1>1, <1>6 DEF Subs!Teardown, Subs!Forgets
  <1>7. CASE Subs!Parse
    <2>1. Head(acks) \subseteq Subs!AllSlots /\ Tail(acks) \in Seq(SUBSET Subs!AllSlots)
      BY <1>1, <1>7, HeadTailProperties DEF Subs!Parse
    <2>2. Subs!Acknowledged(Head(acks)) \subseteq Subs!AllSlots
      BY <2>1 DEF Subs!Acknowledged
    <2> QED
      BY <1>1, <1>7, <2>1, <2>2 DEF Subs!Parse
  <1>8. CASE Subs!Serve
    <2>1. Head(wire) \in Requests /\ Tail(wire) \in Seq(Requests)
      BY <1>1, <1>8, HeadTailProperties DEF Subs!Serve
    <2>2. Head(wire).slots \subseteq Subs!AllSlots /\ Head(wire).add \in BOOLEAN
      BY <2>1 DEF Requests
    <2>3. Append(acks, Head(wire).slots) \in Seq(SUBSET Subs!AllSlots)
      BY <1>1, <2>2, AppendProperties
    <2>4. subs' \subseteq Subs!AllSlots /\ acks' \in Seq(SUBSET Subs!AllSlots)
      BY <1>1, <1>8, <2>2, <2>3 DEF Subs!Serve
    <2> QED
      BY <1>1, <1>8, <2>1, <2>4 DEF Subs!Serve
  <1>9. ASSUME NEW t \in Subs!Tasks, Subs!Refresh(t)
        PROVE  Good
    BY <1>3, <1>9 DEF Subs!Refresh
  <1>10. ASSUME NEW t \in Subs!Tasks, Subs!Reconcile(t)
         PROVE  Good
    <2>1. PICK plan \in Subs!Plans :
             /\ desired' = plan
             /\ IF link.connected
                THEN /\ job' = [of |-> t, rem |-> live \ plan, add |-> plan \ live]
                     /\ wire' = Subs!Send(FALSE, live \ plan)
                ELSE UNCHANGED <<job, wire>>
      BY <1>10 DEF Subs!Reconcile
    <2>2. plan \subseteq Subs!AllSlots
      BY SubsPlanKeeps DEF SubsTypes
    <2>3. [of |-> t, rem |-> live \ plan, add |-> plan \ live] \in Jobs
      BY <1>1, <2>2
    <2>4. Subs!Send(FALSE, live \ plan) \in Seq(Requests)
      BY <1>1, SubsSends
    <2> QED
      BY <1>1, <1>10, <2>1, <2>2, <2>3, <2>4 DEF Subs!Reconcile
  <1>11. ASSUME NEW t \in Subs!Tasks, Subs!SendsAdditions(t)
         PROVE  Good
    <2>1. Subs!Send(TRUE, job.add) \in Seq(Requests)
      BY <1>1, SubsSends
    <2>2. Subs!NoJob \in Jobs
      BY DEF Subs!NoJob
    <2> QED
      BY <1>1, <1>11, <2>1, <2>2 DEF Subs!SendsAdditions
  <1> QED
    BY <1>4, <1>5, <1>6, <1>7, <1>8, <1>9, <1>10, <1>11 DEF Subs!Next, Subs!Steps

LEMMA SubsLinkStep ==
    ASSUME SubsSettings, SubsTypes, SubsLink, [Subs!Next]_Subs!vars
    PROVE  SubsLink'
  <1>1. link \in [connected : BOOLEAN, ws : BOOLEAN]
    BY DEF SubsTypes
  <1>2. CASE UNCHANGED <<link, capacity, wire, subs>>
    BY <1>2 DEF SubsLink
  <1>3. CASE Subs!Connects
    BY <1>3 DEF Subs!Connects, SubsLink
  <1>4. CASE Subs!Drops \/ Subs!Provided
    BY <1>1, <1>4 DEF Subs!Drops, Subs!Provided, SubsLink
  <1>5. CASE Subs!Teardown
    BY <1>1, <1>5 DEF Subs!Teardown, SubsLink
  <1>6. CASE Subs!Serve
    BY <1>6 DEF Subs!Serve, SubsLink
  <1>7. ASSUME NEW t \in Subs!Tasks, Subs!Reconcile(t)
        PROVE  SubsLink'
    <2>1. CASE link.connected
      BY <1>7, <2>1 DEF Subs!Reconcile, SubsLink
    <2>2. CASE ~link.connected
      BY <1>2, <1>7, <2>2 DEF Subs!Reconcile
    <2> QED
      BY <2>1, <2>2
  <1>8. ASSUME NEW t \in Subs!Tasks, Subs!SendsAdditions(t)
        PROVE  SubsLink'
    BY <1>8 DEF Subs!SendsAdditions, SubsLink, Subs!Send
  <1>9. ASSUME NEW t \in Subs!Tasks, Subs!Refresh(t)
        PROVE  SubsLink'
    BY <1>2, <1>9 DEF Subs!Refresh
  <1>10. CASE Subs!Parse \/ Subs!SpotMoves \/ Subs!Switches \/ Subs!Watches \/ UNCHANGED Subs!vars
    BY <1>2, <1>10 DEF Subs!Parse, Subs!SpotMoves, Subs!Switches, Subs!Watches, Subs!vars
  <1> QED
    BY <1>3, <1>4, <1>5, <1>6, <1>7, <1>8, <1>9, <1>10 DEF Subs!Next, Subs!Steps

LEMMA SubsPlannedStep ==
    ASSUME SubsSettings, SubsTypes, SubsLock, SubsLink, SubsPlanned, [Subs!Next]_Subs!vars
    PROVE  SubsPlanned'
  <1>1. /\ link \in [connected : BOOLEAN, ws : BOOLEAN]
        /\ task \in [Subs!Tasks -> Places] /\ {"replay", "switch", "watch"} = Subs!Tasks
    BY DEF SubsTypes, Subs!Tasks
  <1>2. CASE UNCHANGED <<link, task, desired, capacity, active>>
    BY <1>2 DEF SubsPlanned, Replayed
  <1>3. CASE Subs!Connects
    BY <1>1, <1>3 DEF Subs!Connects, Subs!At, SubsPlanned, Replayed
  <1>4. CASE Subs!Drops \/ Subs!Teardown
    BY <1>1, <1>4 DEF Subs!Drops, Subs!Teardown, SubsPlanned, Replayed
  <1>5. CASE Subs!Provided
    BY <1>1, <1>5 DEF Subs!Provided, Subs!Swap, Subs!At, SubsPlanned, Replayed
  <1>6. CASE Subs!Switches \/ Subs!Watches
    BY <1>1, <1>6 DEF Subs!Switches, Subs!Watches, Subs!Swap, Subs!At, SubsPlanned, Replayed
  <1>7. ASSUME NEW t \in Subs!Tasks, Subs!Refresh(t)
        PROVE  SubsPlanned'
    <2>1. task' = [task EXCEPT ![t] = task'[t]] /\ task'[t] \in {"lock", "idle"}
          /\ (t # "watch" => task'[t] = "lock")
      BY <1>1, <1>7 DEF Subs!Refresh, Subs!At
    <2> QED
      BY <1>1, <1>7, <2>1 DEF Subs!Refresh, SubsPlanned, Replayed
  <1>8. ASSUME NEW t \in Subs!Tasks, Subs!Reconcile(t)
        PROVE  SubsPlanned'
    <2>1. CASE link.connected
      <3>1. capacity = Subs!Usable /\ capacity > 0
        BY <2>1, SubsCeiling DEF SubsLink
      <3>2. desired' \in Subs!Plans
        BY <1>8 DEF Subs!Reconcile
      <3>3. Cardinality(desired') <= capacity /\ Subs!Reference(active) \in desired'
        BY <3>1, <3>2, SubsPlanKeeps DEF SubsTypes
      <3> QED
        BY <1>8, <3>3 DEF Subs!Reconcile, SubsPlanned, Replayed
    <2>2. CASE ~link.connected
      BY <1>8, <2>2 DEF Subs!Reconcile, SubsPlanned, Replayed
    <2> QED
      BY <2>1, <2>2
  <1>9. ASSUME NEW t \in Subs!Tasks, Subs!SendsAdditions(t)
        PROVE  SubsPlanned'
    BY <1>1, <1>9 DEF Subs!SendsAdditions, Subs!At, SubsPlanned, Replayed
  <1>10. CASE Subs!Parse \/ Subs!Serve \/ Subs!SpotMoves \/ UNCHANGED Subs!vars
    BY <1>2, <1>10 DEF Subs!Parse, Subs!Serve, Subs!SpotMoves, Subs!vars
  <1> QED
    BY <1>3, <1>4, <1>5, <1>6, <1>7, <1>8, <1>9, <1>10 DEF Subs!Next, Subs!Steps

LEMMA SubsBaseStep == SubsSettings /\ SubsBase /\ [Subs!Next]_Subs!vars => SubsBase'
  <1> SUFFICES ASSUME SubsSettings, SubsBase, [Subs!Next]_Subs!vars
               PROVE  SubsBase'
    OBVIOUS
  <1>1. SubsTypes /\ SubsLock /\ SubsLink /\ SubsPlanned /\ PlanTypes
    BY DEF SubsBase, SubsTypes
  <1>2. SubsTypes'
    BY <1>1, SubsPlanTypesStep, SubsCountersStep, SubsTasksStep, SubsSetsStep DEF SubsTypes
  <1>3. SubsLock' /\ SubsLink' /\ SubsPlanned'
    BY <1>1, SubsTasksStep, SubsLinkStep, SubsPlannedStep
  <1> QED
    BY <1>2, <1>3 DEF SubsBase

LEMMA SubsBaseInit == SubsSettings /\ Subs!Init => SubsBase
  <1> SUFFICES ASSUME SubsSettings, Subs!Init
               PROVE  SubsBase
    OBVIOUS
  <1>1. PlanTypes
    BY DEF Subs!Init, PlanTypes, Subs!None
  <1>2. Subs!NoJob \in [of : Subs!Tasks \cup {"none"},
                        rem : SUBSET Subs!AllSlots, add : SUBSET Subs!AllSlots]
    BY DEF Subs!NoJob
  <1>3. <<>> \in Seq(Requests) /\ <<>> \in Seq(SUBSET Subs!AllSlots)
    BY EmptySeq
  <1>4. 0 \in 0 .. MaxSwitches /\ 0 \in 0 .. MaxDrops
    BY DEF SubsSettings, Subs!Assumptions
  <1>5. SubsTypes
    BY <1>1, <1>2, <1>3, <1>4 DEF Subs!Init, SubsTypes, Places
  <1>6. SubsLock
    BY DEF Subs!Init, SubsLock, Subs!NoJob, Subs!Tasks
  <1>7. SubsLink /\ SubsPlanned
    BY DEF Subs!Init, SubsLink, SubsPlanned, Replayed
  <1> QED
    BY <1>5, <1>6, <1>7 DEF SubsBase

LEMMA SubsTypeHolds == SubsBase => Subs!TypeOK
  <1> SUFFICES ASSUME SubsBase
               PROVE  Subs!TypeOK
    OBVIOUS
  <1>1. SubsTypes /\ SubsLock /\ SubsPlanned /\ PlanTypes
    BY DEF SubsBase, SubsTypes
  <1>2. job.of = "none" <=> \A t \in Subs!Tasks : task[t] # "send"
    <2>1. job.of \in Subs!Tasks \cup {"none"} /\ "none" \notin Subs!Tasks
      BY <1>1 DEF SubsTypes, Subs!Tasks
    <2> QED
      BY <1>1, <2>1 DEF SubsLock
  <1>3. link.connected /\ task["replay"] = "idle" /\ capacity > 0 =>
           Cardinality(desired) <= capacity
    BY <1>1 DEF SubsPlanned, Replayed
  <1> QED
    BY <1>1, <1>2, <1>3, SubsCount
    DEF SubsTypes, PlanTypes, Subs!TypeOK, Requests, Places

-----------------------------------------------------------------------------
(* TdSubscriptions: nothing planned is left out.                            *)

LEMMA SubsSilentStep ==
    ASSUME ~LateAcks, SubsTypes, SubsLink, SubsSilent, [Subs!Next]_Subs!vars
    PROVE  SubsSilent'
  <1>1. link \in [connected : BOOLEAN, ws : BOOLEAN]
    BY DEF SubsTypes
  <1>2. CASE UNCHANGED <<link, acks, live>>
    BY <1>2 DEF SubsSilent
  <1>3. CASE Subs!Connects
    BY <1>3 DEF Subs!Connects, SubsSilent
  <1>4. CASE Subs!Drops \/ Subs!Provided
    BY <1>1, <1>4 DEF Subs!Drops, Subs!Provided, SubsSilent
  <1>5. CASE Subs!Teardown
    BY <1>1, <1>5 DEF Subs!Teardown, Subs!Forgets, SubsSilent
  <1>6. CASE Subs!Parse
    BY <1>6 DEF Subs!Parse, SubsSilent
  <1>7. CASE Subs!Serve
    BY <1>7 DEF Subs!Serve, SubsLink, SubsSilent
  <1>8. ASSUME NEW t \in Subs!Tasks, Subs!SendsAdditions(t)
        PROVE  SubsSilent'
    BY <1>8 DEF Subs!SendsAdditions, SubsSilent
  <1>9. ASSUME NEW t \in Subs!Tasks, Subs!Refresh(t) \/ Subs!Reconcile(t)
        PROVE  SubsSilent'
    BY <1>2, <1>9 DEF Subs!Refresh, Subs!Reconcile
  <1>10. CASE Subs!SpotMoves \/ Subs!Switches \/ Subs!Watches \/ UNCHANGED Subs!vars
    BY <1>2, <1>10 DEF Subs!SpotMoves, Subs!Switches, Subs!Watches, Subs!vars
  <1> QED
    BY <1>3, <1>4, <1>5, <1>6, <1>7, <1>8, <1>9, <1>10 DEF Subs!Next, Subs!Steps

Comes == LiveComes /\ AskedComes /\ PlanComes

\* Without a connection nothing is promised.
LEMMA SubsNothingComes == ~link.connected => Comes
  BY DEF Comes, LiveComes, AskedComes, PlanComes, Replayed

LEMMA SubsParseStep ==
    ASSUME SubsTypes, Comes, Subs!Parse
    PROVE  Comes'
  <1>1. /\ acks \in Seq(SUBSET Subs!AllSlots) /\ acks # <<>>
        /\ UNCHANGED <<link, task, desired, job, wire, subs>>
        /\ acks' = Tail(acks) /\ live' = live \cup Subs!Acknowledged(Head(acks))
    BY DEF SubsTypes, Subs!Parse
  <1>2. \A s : Coming(s)' <=> Coming(s)
    BY <1>1 DEF Coming, Holds
  <1>3. /\ Len(acks) \in Nat \ {0} /\ DOMAIN acks = 1 .. Len(acks) /\ Head(acks) = acks[1]
        /\ DOMAIN Tail(acks) = 1 .. (Len(acks) - 1)
        /\ \A i \in 1 .. (Len(acks) - 1) : Tail(acks)[i] = acks[i + 1]
    BY <1>1, HeadTailProperties, EmptySeq, LenProperties
  <1>4. \A s : Asked(s)' => Asked(s)
    <2>1. \A i \in DOMAIN Tail(acks) : i + 1 \in DOMAIN acks /\ Tail(acks)[i] = acks[i + 1]
      BY <1>3
    <2> QED
      BY <1>1, <2>1 DEF Asked
  <1>5. \A s \in Subs!Acknowledged(Head(acks)) : s \in desired /\ Asked(s)
    BY <1>3 DEF Subs!Acknowledged, Asked
  <1>6. LiveComes'
    BY <1>1, <1>2, <1>5 DEF Comes, LiveComes, AskedComes
  <1>7. AskedComes'
    BY <1>1, <1>2, <1>4 DEF Comes, AskedComes
  <1>8. PlanComes'
    BY <1>1, <1>2 DEF Comes, PlanComes, Replayed
  <1> QED
    BY <1>6, <1>7, <1>8 DEF Comes

LEMMA SubsServeStep ==
    ASSUME SubsTypes, Comes, Subs!Serve, ~refused'
    PROVE  Comes'
  <1> DEFINE m == Head(wire)
             R == IF m.add THEN subs \cup m.slots ELSE subs \ m.slots
  <1>1. /\ wire \in Seq(Requests) /\ wire # <<>> /\ acks \in Seq(SUBSET Subs!AllSlots)
        /\ UNCHANGED <<link, task, desired, job, live>> /\ wire' = Tail(wire)
    BY DEF SubsTypes, Subs!Serve
  <1>2. /\ Len(wire) \in Nat \ {0} /\ DOMAIN wire = 1 .. Len(wire) /\ m = wire[1]
        /\ DOMAIN Tail(wire) = 1 .. (Len(wire) - 1)
        /\ \A i \in 1 .. (Len(wire) - 1) : Tail(wire)[i] = wire[i + 1]
        /\ m \in Requests
    BY <1>1, HeadTailProperties, EmptySeq, LenProperties
  <1>3. subs' = R
    BY DEF Subs!Serve
  <1>4. acks' = acks \/ (m.add /\ acks' = Append(acks, m.slots))
    BY DEF Subs!Serve
  <1>5. \A s : Holds(wire, subs, s) => Holds(wire, subs, s)'
    BY <1>1, <1>3, HoldsServed DEF Holds
  <1>6. \A s : Coming(s) => Coming(s)'
    BY <1>1, <1>5 DEF Coming
  <1>7. \A s : Asked(s)' => Asked(s)
    <2>1. \A i \in DOMAIN Tail(wire) : i + 1 \in DOMAIN wire /\ Tail(wire)[i] = wire[i + 1]
      BY <1>2
    <2>2. 1 \in DOMAIN wire
      BY <1>2
    <2>3. CASE acks' = acks
      BY <1>1, <2>1, <2>3 DEF Asked
    <2>4. CASE m.add /\ acks' = Append(acks, m.slots)
      <3>1. \A s : (\E i \in DOMAIN acks' : s \in acks'[i]) =>
                      s \in m.slots \/ \E i \in DOMAIN acks : s \in acks[i]
        <4>1. m.slots \in SUBSET Subs!AllSlots
          BY <1>2 DEF Requests
        <4>2. /\ DOMAIN acks' = 1 .. (Len(acks) + 1) /\ DOMAIN acks = 1 .. Len(acks)
              /\ Len(acks) \in Nat
              /\ \A i \in 1 .. Len(acks) : acks'[i] = acks[i]
              /\ acks'[Len(acks) + 1] = m.slots
          BY <1>1, <2>4, <4>1, AppendProperties, LenProperties
        <4>3. \A i \in DOMAIN acks' : i = Len(acks) + 1 \/ i \in DOMAIN acks
          BY <4>2
        <4> QED
          BY <4>2, <4>3
      <3> QED
        BY <1>1, <1>2, <2>1, <2>2, <2>4, <3>1 DEF Asked
    <2> QED
      BY <1>4, <2>3, <2>4
  <1>8. LiveComes'
    BY <1>1, <1>6 DEF Comes, LiveComes
  <1>9. AskedComes'
    BY <1>1, <1>6, <1>7 DEF Comes, AskedComes
  <1>10. PlanComes'
    BY <1>1, <1>6 DEF Comes, PlanComes, Replayed
  <1> QED
    BY <1>8, <1>9, <1>10 DEF Comes

LEMMA SubsReconcileStep ==
    ASSUME SubsSettings, SubsBase, Comes, NEW t \in Subs!Tasks, Subs!Reconcile(t), link.connected
    PROVE  Comes'
  <1>1. /\ wire \in Seq(Requests) /\ link.ws /\ job = Subs!NoJob /\ live \subseteq Subs!AllSlots
        /\ PlanTypes /\ SubsTypes
    BY DEF SubsBase, SubsTypes, SubsLink, SubsLock, Subs!Reconcile
  <1>2. PICK plan \in Subs!Plans :
           /\ desired' = plan
           /\ job' = [of |-> t, rem |-> live \ plan, add |-> plan \ live]
           /\ wire' = Subs!Send(FALSE, live \ plan)
    BY DEF Subs!Reconcile
  <1>3. UNCHANGED <<link, live, subs, acks>>
    BY DEF Subs!Reconcile
  <1>4. \A s : s \notin live \ plan /\ Holds(wire, subs, s) => Holds(wire, subs, s)'
    <2>1. CASE wire' = wire
      BY <1>3, <2>1 DEF Holds
    <2>2. CASE wire' = Append(wire, [add |-> FALSE, slots |-> live \ plan])
      <3>1. [add |-> FALSE, slots |-> live \ plan] \in Requests
        BY <1>1 DEF Requests
      <3>2. \A s : s \notin live \ plan /\ Holds(wire, subs, s) => Holds(wire', subs, s)
        BY <1>1, <2>2, <3>1, HoldsAppended
      <3> QED
        BY <1>3, <3>2 DEF Holds
    <2> QED
      BY <1>2, <2>1, <2>2 DEF Subs!Send
  <1>5. \A s \in live \cap plan : Coming(s)'
    <2>1. \A s \in live : Holds(wire, subs, s)
      BY <1>1 DEF Comes, LiveComes, Coming, Subs!NoJob
    <2> QED
      BY <1>4, <2>1 DEF Coming
  <1>6. \A s \in plan \ live : Coming(s)'
    BY <1>2 DEF Coming
  <1>7. \A s \in desired' : Coming(s)'
    BY <1>2, <1>5, <1>6
  <1>8. LiveComes'
    BY <1>2, <1>3, <1>5 DEF LiveComes
  <1>9. AskedComes' /\ PlanComes'
    BY <1>7 DEF AskedComes, PlanComes
  <1> QED
    BY <1>8, <1>9 DEF Comes

LEMMA SubsAdditionsStep ==
    ASSUME SubsBase, Comes, NEW t \in Subs!Tasks, Subs!SendsAdditions(t), link.connected
    PROVE  Comes'
  <1>1. /\ wire \in Seq(Requests) /\ link.ws /\ task \in [Subs!Tasks -> Places]
        /\ job.add \subseteq Subs!AllSlots /\ acks \in Seq(SUBSET Subs!AllSlots)
    BY DEF SubsBase, SubsTypes, SubsLink
  <1>2. /\ task[t] = "send" /\ live' = live \ job.rem /\ job' = Subs!NoJob
        /\ wire' = Subs!Send(TRUE, job.add) /\ task' = [task EXCEPT ![t] = "idle"]
        /\ UNCHANGED <<link, desired, acks, subs>>
    BY DEF Subs!SendsAdditions, Subs!At
  <1> DEFINE m == [add |-> TRUE, slots |-> job.add]
  <1>3. m \in Requests /\ m.add /\ m.slots = job.add
    BY <1>1 DEF Requests
  <1>4. (job.add = {} /\ wire' = wire) \/ wire' = Append(wire, m)
    BY <1>1, <1>2 DEF Subs!Send
  <1>5. \A s : Coming(s) => Coming(s)'
    <2>1. \A s : s \in job.add \/ Holds(wire, subs, s) => Holds(wire', subs, s)
      BY <1>1, <1>3, <1>4, HoldsAppended
    <2> QED
      BY <1>2, <2>1 DEF Coming, Holds
  <1>6. \A s : Asked(s)' => Asked(s) \/ s \in job.add
    <2>1. CASE wire' = wire
      BY <1>2, <2>1 DEF Asked
    <2>2. CASE wire' = Append(wire, m)
      <3> HIDE DEF m
      <3>1. /\ DOMAIN wire' = 1 .. (Len(wire) + 1) /\ DOMAIN wire = 1 .. Len(wire)
            /\ Len(wire) \in Nat
            /\ \A i \in 1 .. Len(wire) : wire'[i] = wire[i]
            /\ wire'[Len(wire) + 1] = m
        BY <1>1, <1>3, <2>2, AppendProperties, LenProperties
      <3>2. \A i \in DOMAIN wire' : wire'[i] = m \/ (i \in DOMAIN wire /\ wire'[i] = wire[i])
        BY <3>1
      <3> QED
        BY <1>2, <1>3, <3>2 DEF Asked
    <2> QED
      BY <1>4, <2>1, <2>2
  <1>7. LiveComes'
    BY <1>2, <1>5 DEF Comes, LiveComes, Subs!NoJob
  <1>8. AskedComes'
    BY <1>2, <1>5, <1>6 DEF Comes, AskedComes, Coming
  <1>9. PlanComes'
    <2>1. Replayed' => Replayed
      BY <1>1, <1>2 DEF Replayed
    <2> QED
      BY <1>2, <1>5, <2>1 DEF Comes, PlanComes
  <1> QED
    BY <1>7, <1>8, <1>9 DEF Comes

LEMMA SubsCarriedStep ==
    SubsSettings /\ ~LateAcks /\ SubsBase /\ SubsCarried /\ [Subs!Next]_Subs!vars => SubsCarried'
  <1> SUFFICES ASSUME SubsSettings, ~LateAcks, SubsBase, SubsCarried, [Subs!Next]_Subs!vars
               PROVE  SubsCarried'
    OBVIOUS
  <1>1. SubsTypes /\ SubsLock /\ SubsLink /\ SubsSilent
    BY DEF SubsBase, SubsCarried
  <1>2. link \in [connected : BOOLEAN, ws : BOOLEAN] /\ task \in [Subs!Tasks -> Places]
    BY <1>1 DEF SubsTypes
  <1>3. SubsSilent'
    BY <1>1, SubsSilentStep
  <1>4. SUFFICES ASSUME ~refused'
                 PROVE  Comes'
    BY <1>3 DEF SubsCarried, Comes
  <1>5. ~refused
    BY <1>4
    DEF Subs!vars, Subs!Next, Subs!Steps, Subs!Connects, Subs!Drops, Subs!Teardown, Subs!Parse,
        Subs!Serve, Subs!SpotMoves, Subs!Provided, Subs!Switches, Subs!Watches, Subs!Refresh,
        Subs!Reconcile, Subs!SendsAdditions
  <1>6. Comes
    BY <1>5 DEF SubsCarried, Comes
  <1>7. CASE ~link.connected'
    BY <1>7, SubsNothingComes, PTL
  <1>8. CASE UNCHANGED <<link, desired, live, job, wire, acks, subs>> /\ (Replayed' => Replayed)
    <2>1. \A s : (Coming(s)' <=> Coming(s)) /\ (Asked(s)' <=> Asked(s))
      BY <1>8 DEF Coming, Holds, Asked
    <2> QED
      BY <1>6, <1>8, <2>1 DEF Comes, LiveComes, AskedComes, PlanComes
  <1>9. CASE Subs!Connects
    <2>1. live = {} /\ acks = <<>> /\ wire = <<>>
      BY <1>1, <1>9 DEF Subs!Connects, SubsSilent, SubsLink
    <2>2. UNCHANGED <<live, acks, wire, job>> /\ ~Replayed'
      BY <1>2, <1>9 DEF Subs!Connects, Subs!At, Subs!Tasks, Replayed
    <2> QED
      BY <2>1, <2>2 DEF Comes, LiveComes, AskedComes, PlanComes, Asked
  <1>10. CASE Subs!Drops \/ Subs!Teardown
    <2>1. ~link.connected'
      BY <1>2, <1>10 DEF Subs!Drops, Subs!Teardown
    <2> QED
      BY <1>7, <2>1
  <1>11. CASE Subs!Provided
    <2>1. CASE UNCHANGED <<link, wire, subs>>
      BY <1>2, <1>8, <1>11, <2>1 DEF Subs!Provided, Subs!Swap, Subs!At, Subs!Tasks, Replayed
    <2>2. CASE ~link.connected'
      BY <1>7, <2>2
    <2> QED
      BY <1>2, <1>11, <2>1, <2>2 DEF Subs!Provided
  <1>12. CASE Subs!Switches \/ Subs!Watches
    BY <1>2, <1>8, <1>12
    DEF Subs!Switches, Subs!Watches, Subs!Swap, Subs!At, Subs!Tasks, Replayed
  <1>13. CASE Subs!SpotMoves \/ UNCHANGED Subs!vars
    BY <1>8, <1>13 DEF Subs!SpotMoves, Subs!vars, Replayed
  <1>14. ASSUME NEW t \in Subs!Tasks, Subs!Refresh(t)
         PROVE  Comes'
    <2>1. UNCHANGED <<link, desired, live, job, wire, acks, subs>>
      BY <1>14 DEF Subs!Refresh
    <2>2. Replayed' => Replayed
      BY <1>2, <1>14 DEF Subs!Refresh, Subs!At, Subs!Tasks, Replayed
    <2> QED
      BY <1>8, <2>1, <2>2
  <1>15. ASSUME NEW t \in Subs!Tasks, Subs!Reconcile(t) \/ Subs!SendsAdditions(t)
         PROVE  Comes'
    <2>1. UNCHANGED link
      BY <1>15 DEF Subs!Reconcile, Subs!SendsAdditions
    <2>2. CASE link.connected
      BY <1>6, <1>15, <2>2, SubsReconcileStep, SubsAdditionsStep
    <2>3. CASE ~link.connected
      BY <1>7, <2>1, <2>3
    <2> QED
      BY <2>2, <2>3
  <1>16. CASE Subs!Parse
    BY <1>1, <1>6, <1>16, SubsParseStep
  <1>17. CASE Subs!Serve
    BY <1>1, <1>4, <1>6, <1>17, SubsServeStep
  <1> QED
    BY <1>9, <1>10, <1>11, <1>12, <1>13, <1>14, <1>15, <1>16, <1>17 DEF Subs!Next, Subs!Steps

LEMMA SubsCarriedInit == SubsSettings /\ Subs!Init => SubsCarried
  BY DEF Subs!Init, SubsCarried, SubsSilent, LiveComes, AskedComes, PlanComes, Replayed

LEMMA SubsPlanHolds ==
    ASSUME SubsBase, SubsCarried, ~refused
    PROVE  Subs!PlanIsCarried
  <1> SUFFICES ASSUME Subs!Quiet
               PROVE  desired \subseteq subs /\ Subs!Reference(active) \in desired
    BY DEF Subs!PlanIsCarried
  <1>1. /\ link.connected /\ wire = <<>> /\ \A t \in Subs!Tasks : task[t] = "idle"
        /\ SubsTypes /\ SubsLock /\ SubsPlanned /\ PlanComes
    BY DEF Subs!Quiet, SubsBase, SubsCarried
  <1>2. task["replay"] = "idle" /\ task["switch"] = "idle" /\ Replayed
    BY <1>1 DEF Subs!Tasks, Replayed
  <1>3. job = Subs!NoJob
    <2>1. job.of \in Subs!Tasks \cup {"none"}
      BY <1>1 DEF SubsTypes
    <2> QED
      BY <1>1, <2>1 DEF SubsLock
  <1>4. DOMAIN wire = {}
    BY <1>1
  <1>5. \A s \in desired : s \in subs
    BY <1>1, <1>2, <1>3, <1>4 DEF PlanComes, Coming, Holds, Subs!NoJob
  <1> QED
    BY <1>1, <1>2, <1>5 DEF SubsPlanned

-----------------------------------------------------------------------------
(* TdSubscriptions: the theorems.                                           *)

LEMMA SubsBaseHolds == SubsSettings => (Subs!Spec => []SubsBase)
  <1> SUFFICES ASSUME SubsSettings
               PROVE  Subs!Spec => []SubsBase
    OBVIOUS
  <1>1. Subs!Init => SubsBase
    BY SubsBaseInit
  <1>2. SubsBase /\ [Subs!Next]_Subs!vars => SubsBase'
    BY SubsBaseStep
  <1> QED
    BY <1>1, <1>2, PTL DEF Subs!Spec

\* The plan, the ledger, the jobs, the wire and the vendor keep their types; a connected
\* client never plans past the usable ceiling once its replay is planned, and one task at a
\* time is sending (subscription_budget.py:131-196, truedata_feed.py:857-894).
THEOREM SubscriptionsTypeCorrect == SubsSettings => (Subs!Spec => []Subs!TypeOK)
  <1> SUFFICES ASSUME SubsSettings
               PROVE  Subs!Spec => []Subs!TypeOK
    OBVIOUS
  <1>1. Subs!Spec => []SubsBase
    BY SubsBaseHolds
  <1> QED
    BY <1>1, SubsTypeHolds, PTL

\* truedata_feed.py:941-951, _allocate of subscription_budget.py: for any chains, spots,
\* window and ceiling that has room for the references, whatever is planned sheds the
\* viewed chain before a trading one, and the far strikes of a chain before its near ones.
THEOREM SqueezeStaysFair == SubsSettings => (Subs!Spec => []SqueezeIsFair)
  <1> SUFFICES ASSUME SubsSettings
               PROVE  Subs!Spec => []SqueezeIsFair
    OBVIOUS
  <1>1. Subs!Spec => []SubsBase
    BY SubsBaseHolds
  <1>2. SubsBase => SqueezeIsFair
    BY SubsSqueeze DEF SqueezeIsFair, SubsBase, SubsTypes
  <1> QED
    BY <1>1, <1>2, PTL

\* _reconcile_locked, _resubscribe_all, _teardown: as long as the vendor has refused nothing
\* and no reply outlives its socket, a client at rest is subscribed to its whole plan and to
\* the reference of the dashboard's chain, however many drops, switches and re-centrings
\* interleaved.
THEOREM PlanStaysCarried ==
    SubsSettings /\ ~LateAcks => (Subs!Spec => [](refused \/ PlanIsCarried))
  <1> SUFFICES ASSUME SubsSettings, ~LateAcks
               PROVE  Subs!Spec => [](refused \/ PlanIsCarried)
    OBVIOUS
  <1>1. Subs!Init => SubsBase /\ SubsCarried
    BY SubsBaseInit, SubsCarriedInit
  <1>2. SubsBase /\ SubsCarried /\ [Subs!Next]_Subs!vars => (SubsBase /\ SubsCarried)'
    BY SubsBaseStep, SubsCarriedStep
  <1>3. SubsBase /\ SubsCarried => refused \/ PlanIsCarried
    BY SubsPlanHolds DEF PlanIsCarried
  <1> QED
    BY <1>1, <1>2, <1>3, PTL DEF Subs!Spec

\* Serve: with room for every slot no addition is refused.
LEMMA SubsNeverRefused ==
    ASSUME SubsSettings, Cardinality(Subs!AllSlots) <= MaxSymbols, SubsBase, ~refused,
           [Subs!Next]_Subs!vars
    PROVE  ~refused'
  <1>1. CASE Subs!Serve
    <2>1. /\ wire \in Seq(Requests) /\ wire # <<>> /\ subs \subseteq Subs!AllSlots
      BY <1>1 DEF Subs!Serve, SubsBase, SubsTypes
    <2>2. Head(wire).slots \subseteq Subs!AllSlots
      <3>1. Head(wire) \in Requests
        BY <2>1, HeadTailProperties
      <3> QED
        BY <3>1 DEF Requests
    <2>3. IsFiniteSet(Subs!AllSlots) /\ Cardinality(Subs!AllSlots) \in Nat
      BY SubsSlotsFinite, FS_CardinalityType
    <2>4. /\ Cardinality(subs \cup Head(wire).slots) <= Cardinality(Subs!AllSlots)
          /\ Cardinality(subs \cup Head(wire).slots) \in Nat
      BY <2>1, <2>2, <2>3, FS_Subset, FS_CardinalityType
    <2>5. MaxSymbols \in Nat
      BY DEF SubsSettings, Subs!Assumptions
    <2>6. Cardinality(subs \cup Head(wire).slots) <= MaxSymbols
      BY <2>3, <2>4, <2>5
    <2> QED
      BY <1>1, <2>6, SubsCount DEF Subs!Serve
  <1>2. CASE ~Subs!Serve
    BY <1>2
    DEF Subs!vars, Subs!Next, Subs!Steps, Subs!Connects, Subs!Drops, Subs!Teardown, Subs!Parse,
        Subs!SpotMoves, Subs!Provided, Subs!Switches, Subs!Watches, Subs!Refresh,
        Subs!Reconcile, Subs!SendsAdditions
  <1> QED
    BY <1>1, <1>2

\* And where the vendor's limit has room for every slot there is, nothing is refused, and the
\* plan is carried whatever the usable ceiling cuts.
THEOREM PlanIsCarriedInRoom ==
    SubsSettings /\ ~LateAcks /\ Cardinality(Subs!AllSlots) <= MaxSymbols =>
        (Subs!Spec => []PlanIsCarried)
  <1> SUFFICES ASSUME SubsSettings, ~LateAcks, Cardinality(Subs!AllSlots) <= MaxSymbols
               PROVE  Subs!Spec => []PlanIsCarried
    OBVIOUS
  <1>1. Subs!Init => SubsBase /\ SubsCarried /\ ~refused
    BY SubsBaseInit, SubsCarriedInit DEF Subs!Init
  <1>2. SubsBase /\ SubsCarried /\ ~refused /\ [Subs!Next]_Subs!vars =>
           (SubsBase /\ SubsCarried /\ ~refused)'
    BY SubsBaseStep, SubsCarriedStep, SubsNeverRefused
  <1>3. SubsBase /\ SubsCarried /\ ~refused => PlanIsCarried
    BY SubsPlanHolds DEF PlanIsCarried
  <1> QED
    BY <1>1, <1>2, <1>3, PTL DEF Subs!Spec
=============================================================================

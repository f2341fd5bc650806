---------------------------- MODULE MarketSession ----------------------------
(***************************************************************************)
(* The rotation policy of MarketDataSession                                *)
(* (backend/app/auth/market_session.py).                                   *)
(*                                                                         *)
(* The broker keeps ONE market-data session per application key: every     *)
(* login mints a new one and kills the one before it.  login() therefore   *)
(* throttles itself: a floor between logins, a budget per window, and a    *)
(* circuit that parks rotations but for one probe per interval.  What it   *)
(* remembers of past logins is in memory, and one row of auth_sessions per *)
(* login; a restart reads the floor and the signs of a storm back.         *)
(*                                                                         *)
(* _login_lock admits one login at a time, split at its two awaits: the    *)
(* request to the broker and the INSERT.  Time is counted in ticks.        *)
(***************************************************************************)
EXTENDS Integers, Sequences, FiniteSets

CONSTANTS
    Floor,          \* LOGIN_FLOOR_S
    BurstMax,       \* LOGIN_BURST_MAX
    Window,         \* LOGIN_BURST_WINDOW_S
    Probe,          \* LOGIN_PROBE_INTERVAL_S
    StormLimit,     \* STORM_ROTATIONS_LIMIT
    BootRows,       \* BOOT_STORM_ROWS
    BootWindow,     \* the 30 minutes those rows are counted over
    Lifetime,       \* TOKEN_TTL
    Faults,         \* what may go wrong, see FaultKinds
    MaxDelay,       \* bound: a login's requests time out
    MaxTime,        \* bound: the clock
    MaxMints        \* bound: sessions minted

\* "answer"  a login's answer is lost (or the caller's wait_for cancels it)
\*           after the broker minted the session
\* "insert"  the INSERT fails, or is cancelled
\* "seed"    the boot query of auth_sessions fails
\* "crash"   the process dies while a login is under way
\* "stolen"  a second client logs in with the same application key
FaultKinds == {"answer", "insert", "seed", "crash", "stolen"}

ASSUME FaultsAssumption == Faults \subseteq FaultKinds
ASSUME TimesAssumption  ==
    {Floor, Window, Probe, BootWindow, Lifetime, MaxDelay, MaxTime, MaxMints}
        \subseteq Nat
ASSUME CountsAssumption == {BurstMax, StormLimit, BootRows} \subseteq Nat

VARIABLES
    now,        \* the clock
    up,         \* "seeding" | "restoring" | "running"
    pc,         \* the login holding _login_lock: "free" | "mint" | "persist"
    call,       \* its caller, when it was asked, and the session it minted
    token,      \* _tokens: the session in memory, 0 for none
    lastLogin,  \* _last_login_wall, Never if unknown
    logins,     \* _login_times
    rotations,  \* _rotations_since_healthy
    circuit,    \* is the circuit open?
    probe,      \* _last_probe_mono, Never if there was none
    rows,       \* auth_sessions: the sessions recorded there
    stolen,     \* at the broker: is the newest session a second client's?
    mints,      \* history: every session the broker minted for us
    born,       \* history: how many there were when the process started
    quiet       \* history: how many there were when the feed was last healthy

procVars == <<token, lastLogin, logins, rotations, circuit, probe>>
histVars == <<mints, born, quiet>>
vars == <<now, up, pc, call, procVars, rows, stolen, histVars>>

Never   == -1
Times   == Nat \cup {Never}
Callers == {"auto", "manual"}
NoCall  == [by |-> "auto", asked |-> 0, id |-> 0]
Sessions == DOMAIN mints
Newest(ids) == CHOOSE i \in ids : \A j \in ids : j <= i

TypeOK ==
    /\ now \in Nat
    /\ up \in {"seeding", "restoring", "running"}
    /\ pc \in {"free", "mint", "persist"}
    /\ call \in [by : Callers, asked : Nat, id : Nat]
    /\ token \in Sessions \cup {0}
    /\ lastLogin \in Times /\ lastLogin <= now
    /\ logins \subseteq [id : Sessions, at : 0 .. now]
    /\ rotations \in Nat
    /\ circuit \in BOOLEAN
    /\ probe \in Times /\ probe <= now
    /\ rows \subseteq Sessions
    /\ stolen \in BOOLEAN
    /\ mints \in Seq([by : Callers, asked : Nat, at : Nat])
    /\ born \in 0 .. Len(mints)
    /\ quiet \in 0 .. Len(mints)

Fresh ==
    /\ token = 0
    /\ lastLogin = Never
    /\ logins = {}
    /\ rotations = 0
    /\ circuit = FALSE
    /\ probe = Never

Init ==
    /\ now = 0
    /\ up = "seeding"
    /\ pc = "free"
    /\ call = NoCall
    /\ Fresh
    /\ rows = {}
    /\ stolen = FALSE
    /\ mints = <<>>
    /\ born = 0
    /\ quiet = 0

-----------------------------------------------------------------------------
(* Start: try_restore_session_from_db *)

\* Mutant of SeedFloor: only the boot-storm heuristic looks at the rows.
SeedsNoFloor ==
    /\ up = "seeding"
    /\ up' = "restoring"
    /\ circuit' = (Cardinality({i \in rows : now - mints[i].at < BootWindow}) >= BootRows)
    /\ UNCHANGED <<now, pc, call, token, lastLogin, logins, rotations, probe,
                   rows, stolen, histVars>>

\* _seed_floor_from_db_once: the newest recorded login anchors the floor, and
\* many recent ones mean the process before this one died in a storm.
SeedFloor ==
    /\ up = "seeding"
    /\ up' = "restoring"
    /\ \/ /\ lastLogin' = IF rows = {} THEN Never ELSE mints[Newest(rows)].at
          /\ circuit' = (Cardinality({i \in rows : now - mints[i].at < BootWindow})
                            >= BootRows)
       \/ "seed" \in Faults /\ UNCHANGED <<lastLogin, circuit>>
    /\ UNCHANGED <<now, pc, call, token, logins, rotations, probe, rows,
                   stolen, histVars>>

Restorable == rows # {} /\ now < mints[Newest(rows)].at + Lifetime

\* The newest session is taken over unless it is past its lifetime, or the
\* broker answers that it is dead.  No answer keeps it.
RestoreSession ==
    /\ up = "restoring"
    /\ up' = "running"
    /\ \/ Restorable /\ token' = Newest(rows)
       \/ /\ Restorable => stolen \/ Newest(rows) # Len(mints) \/ "seed" \in Faults
          /\ token' = 0
    /\ UNCHANGED <<now, pc, call, lastLogin, logins, rotations, circuit, probe,
                   rows, stolen, histVars>>

-----------------------------------------------------------------------------
(* login() *)

Usable == token # 0 /\ now < mints[token].at + Lifetime

Floored == Usable /\ lastLogin # Never /\ now - lastLogin < Floor

ProbeDue == probe = Never \/ now - probe >= Probe

\* _prune_login_times
Recent == {l \in logins : now - l.at <= Window}

\* Mutant of Attempt: the budget is checked before the login it would exceed.
BudgetOffByOne ==
    /\ up = "running"
    /\ pc = "free"
    /\ ~Floored
    /\ circuit => ProbeDue
    /\ probe' = IF circuit THEN now ELSE probe
    /\ logins' = Recent
    /\ IF Cardinality(Recent) > BurstMax
       THEN circuit' = TRUE /\ UNCHANGED <<pc, call>>
       ELSE /\ pc' = "mint"
            /\ call' = [by |-> "auto", asked |-> now, id |-> 0]
            /\ UNCHANGED circuit
    /\ UNCHANGED <<now, up, token, lastLogin, rotations, rows, stolen, histVars>>

\* Mutant of Attempt: only a probe that succeeds would count as one.
ProbeUnstamped ==
    /\ up = "running"
    /\ pc = "free"
    /\ ~Floored
    /\ circuit => ProbeDue
    /\ logins' = Recent
    /\ IF Cardinality(Recent) >= BurstMax
       THEN circuit' = TRUE /\ UNCHANGED <<pc, call>>
       ELSE /\ pc' = "mint"
            /\ call' = [by |-> "auto", asked |-> now, id |-> 0]
            /\ UNCHANGED circuit
    /\ UNCHANGED <<now, up, token, lastLogin, rotations, probe, rows,
                   stolen, histVars>>

\* A call that is not manual.  Within the floor it returns the token it has,
\* and with the circuit open, between two probes, it raises; a spent budget
\* opens the circuit.  force=True makes no difference.
Attempt ==
    /\ up = "running"
    /\ pc = "free"
    /\ ~Floored
    /\ circuit => ProbeDue
    /\ probe' = IF circuit THEN now ELSE probe
    /\ logins' = Recent
    /\ IF Cardinality(Recent) >= BurstMax
       THEN circuit' = TRUE /\ UNCHANGED <<pc, call>>
       ELSE /\ pc' = "mint"
            /\ call' = [by |-> "auto", asked |-> now, id |-> 0]
            /\ UNCHANGED circuit
    /\ UNCHANGED <<now, up, token, lastLogin, rotations, rows, stolen, histVars>>

\* A human forces a new session.
AttemptManual ==
    /\ up = "running"
    /\ pc = "free"
    /\ pc' = "mint"
    /\ call' = [by |-> "manual", asked |-> now, id |-> 0]
    /\ UNCHANGED <<now, up, procVars, rows, stolen, histVars>>

\* xts_client.login: the broker mints a session.
Mint ==
    /\ pc = "mint"
    /\ Len(mints) < MaxMints
    /\ mints' = Append(mints, [by |-> call.by, asked |-> call.asked, at |-> now])
    /\ \/ pc' = "persist" /\ call' = [call EXCEPT !.id = Len(mints) + 1]
       \/ "answer" \in Faults /\ pc' = "free" /\ call' = NoCall
    /\ stolen' = FALSE
    /\ UNCHANGED <<now, up, procVars, rows, born, quiet>>

MintFails ==
    /\ pc = "mint"
    /\ pc' = "free"
    /\ call' = NoCall
    /\ UNCHANGED <<now, up, procVars, rows, stolen, histVars>>

\* _persist succeeds: the session is taken over and counted, and too many
\* rotations without a healthy feed open the circuit.
Persist ==
    /\ pc = "persist"
    /\ pc' = "free"
    /\ call' = NoCall
    /\ rows' = rows \cup {call.id}
    /\ token' = call.id
    /\ lastLogin' = mints[call.id].at
    /\ logins' = logins \cup {[id |-> call.id, at |-> now]}
    /\ rotations' = rotations + 1
    /\ circuit' = (circuit \/ rotations + 1 > StormLimit)
    /\ UNCHANGED <<now, up, probe, stolen, histVars>>

\* The exception leaves login(): nothing of the new session is kept.
PersistFails ==
    /\ pc = "persist"
    /\ "insert" \in Faults
    /\ pc' = "free"
    /\ call' = NoCall
    /\ rows' \in {rows, rows \cup {call.id}}
    /\ UNCHANGED <<now, up, procVars, stolen, histVars>>

-----------------------------------------------------------------------------
(* The steward, the world *)

MarkFeedHealthy ==
    /\ up = "running"
    /\ rotations' = 0
    /\ circuit' = FALSE
    /\ quiet' = Len(mints)
    /\ UNCHANGED <<now, up, pc, call, token, lastLogin, logins, probe, rows,
                   stolen, mints, born>>

ParkRotations ==
    /\ up = "running"
    /\ circuit' = TRUE
    /\ UNCHANGED <<now, up, pc, call, token, lastLogin, logins, rotations, probe,
                   rows, stolen, histVars>>

\* The process dies and starts again: memory is gone, the rows are not.
Restart ==
    /\ pc # "free" => "crash" \in Faults
    /\ up' = "seeding"
    /\ pc' = "free"
    /\ call' = NoCall
    /\ token' = 0
    /\ lastLogin' = Never
    /\ logins' = {}
    /\ rotations' = 0
    /\ circuit' = FALSE
    /\ probe' = Never
    /\ born' = Len(mints)
    /\ quiet' = Len(mints)
    /\ UNCHANGED <<now, rows, stolen, mints>>

\* External: somebody else logs in with our application key.
SecondClient ==
    /\ "stolen" \in Faults
    /\ stolen' = TRUE
    /\ UNCHANGED <<now, up, pc, call, procVars, rows, histVars>>

Tick ==
    /\ now < MaxTime
    /\ pc # "free" => now - call.asked < MaxDelay
    /\ now' = now + 1
    /\ UNCHANGED <<up, pc, call, procVars, rows, stolen, histVars>>

Next ==
    \/ SeedFloor \/ RestoreSession
    \/ Attempt \/ AttemptManual \/ Mint \/ MintFails \/ Persist \/ PersistFails
    \/ MarkFeedHealthy \/ ParkRotations
    \/ Restart \/ SecondClient \/ Tick

Spec == Init /\ [][Next]_vars

-----------------------------------------------------------------------------
(* The policy the docstring of login() states *)

AutoMint == Mint /\ call.by = "auto"

\* No login but a manual one kills a usable session of ours that is younger
\* than the floor, whichever process minted it ("survives restarts").
FloorHolds ==
    [][AutoMint /\ Usable => now - mints[token].at >= Floor]_vars

\* However the logins are spread over callers, a process has minted fewer than
\* BurstMax sessions in the window before a login that is not manual.
BurstHolds ==
    [][AutoMint =>
        Cardinality({i \in Sessions : i > born /\ now - mints[i].at <= Window})
            < BurstMax]_vars

\* The sessions minted since the process started or the feed was healthy.
Unproductive == {i \in Sessions : i > born /\ i > quiet}

\* The logins among them that only an open circuit's probe lets through.
Probes == {i \in Unproductive :
              /\ mints[i].by = "auto"
              /\ Cardinality({j \in Unproductive : j < i}) > StormLimit}

\* In a storm, with more than StormLimit sessions minted and the feed never
\* healthy, logins that are not manual are asked for Probe apart.
StormIsParked ==
    [][AutoMint /\ Cardinality(Unproductive) > StormLimit =>
        \A i \in Probes : call.asked - mints[i].asked >= Probe]_vars
=============================================================================

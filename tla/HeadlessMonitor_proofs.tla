------------------------ MODULE HeadlessMonitor_proofs ------------------------
(***************************************************************************)
(* What holds of HeadlessMonitor for every set of centres, slots and       *)
(* monitors and for every bound.                                           *)
(***************************************************************************)
EXTENDS HeadlessMonitor, TLAPS

-----------------------------------------------------------------------------
(* Type correctness *)

\* The locals of a process that has not started are locals.
LEMMA NoRunType == NoRun \in RunLocals
BY BoundsAssumption DEF NoRun, RunLocals, Login, Counter, NoStatus

\* A process moved to a label is still at a label.
LEMMA GotoType ==
  ASSUME pc \in [Monitors -> PCs], NEW p \in Monitors, NEW label \in PCs,
         Goto(p, label)
  PROVE  pc' \in [Monitors -> PCs]
BY DEF Goto

\* Locals replaced by locals are locals.
LEMMA SetType ==
  ASSUME run \in [Monitors -> RunLocals], NEW p \in Monitors,
         NEW l \in RunLocals, Set(p, l)
  PROVE  run' \in [Monitors -> RunLocals]
BY DEF Set

\* A run that ends leaves well-typed processes and witnesses.
LEMMA FinishType ==
  ASSUME TypeOK, NEW p \in Monitors, Finish(p)
  PROVE  /\ pc' \in [Monitors -> PCs]
         /\ run' \in [Monitors -> RunLocals]
         /\ witness' \in [Monitors -> [present: SUBSET Keys, absent: SUBSET Keys]]
<1>1. "idle" \in PCs
  BY DEF PCs
<1>2. NoWitness \in [present: SUBSET Keys, absent: SUBSET Keys]
  BY DEF NoWitness
<1> QED
  BY <1>1, <1>2, NoRunType, GotoType, SetType DEF Finish, TypeOK

\* Every update the actions make to a process's locals yields locals.
LEMMA LocalsExcept ==
  ASSUME NEW l \in RunLocals
  PROVE
    /\ \A login \in Login, jar \in Counter :
         [l EXCEPT !.login = login, !.jar = jar, !.last = jar] \in RunLocals
    /\ \A jar \in Counter, todo \in SUBSET Centres :
         [l EXCEPT !.jar = jar, !.todo = todo] \in RunLocals
    /\ \A jar \in Counter, kinds \in SUBSET Kinds :
         [l EXCEPT !.jar = jar, !.kinds = kinds] \in RunLocals
    /\ \A slots \in SUBSET Keys : [l EXCEPT !.slots = slots] \in RunLocals
    /\ \A kinds \in SUBSET Kinds : [l EXCEPT !.kinds = kinds] \in RunLocals
    /\ \A event \in Statuses \cup {NoStatus} :
         [l EXCEPT !.event = event] \in RunLocals
    /\ \A added, removed \in SUBSET Keys, baselined \in SUBSET Centres :
         [l EXCEPT !.added = added, !.removed = removed,
                   !.baselined = baselined] \in RunLocals
    /\ \A r \in WriteResults : PersisterAfter(l, r) \in RunLocals
<1> USE DEF RunLocals
<1>1. \A login \in Login, jar \in Counter :
         [l EXCEPT !.login = login, !.jar = jar, !.last = jar] \in RunLocals
  OBVIOUS
<1>2. \A jar \in Counter, todo \in SUBSET Centres :
         [l EXCEPT !.jar = jar, !.todo = todo] \in RunLocals
  OBVIOUS
<1>3. \A jar \in Counter, kinds \in SUBSET Kinds :
         [l EXCEPT !.jar = jar, !.kinds = kinds] \in RunLocals
  OBVIOUS
<1>4. \A slots \in SUBSET Keys : [l EXCEPT !.slots = slots] \in RunLocals
  OBVIOUS
<1>5. \A kinds \in SUBSET Kinds : [l EXCEPT !.kinds = kinds] \in RunLocals
  OBVIOUS
<1>6. \A event \in Statuses \cup {NoStatus} :
         [l EXCEPT !.event = event] \in RunLocals
  OBVIOUS
<1>7. \A added, removed \in SUBSET Keys, baselined \in SUBSET Centres :
         [l EXCEPT !.added = added, !.removed = removed,
                   !.baselined = baselined] \in RunLocals
  OBVIOUS
<1>8. \A r \in WriteResults : PersisterAfter(l, r) \in RunLocals
  BY DEF PersisterAfter
<1> QED
  BY <1>1, <1>2, <1>3, <1>4, <1>5, <1>6, <1>7, <1>8

\* Every action keeps the documents, the processes and the observers in their
\* types.
LEMMA TypeInductive == TypeOK /\ [Next]_vars => TypeOK'
<1> SUFFICES ASSUME TypeOK, [Next]_vars
             PROVE  TypeOK'
  OBVIOUS
<1> USE BoundsAssumption, SwitchesAssumption
        DEF documents, refreshing, environment, observed
<1>a. \A p \in Monitors : run[p] \in RunLocals
  BY DEF TypeOK
<1>b. \A status \in Statuses : StateOf(status) \in StateDoc
  BY DEF StateOf, StateDoc
<1>c. \A kinds : Classify(kinds) \in Statuses
  BY DEF Classify, Statuses
<1>d. \A prev, status, r : status \in Statuses
        => EventOf(prev, status, r) \in Statuses \cup {NoStatus}
  BY DEF EventOf
<1>e. \A status : ObserveStatus(status) => alert' \in Statuses \cup {NoStatus}
  BY DEF ObserveStatus, TypeOK
<1>f. WriteOutcomes \subseteq WriteResults
  BY DEF WriteOutcomes, WriteResults
<1>g. \A p \in Monitors : Jars(run[p]) \subseteq Counter
  BY <1>a DEF Jars, Counter, RunLocals
<1>1. ASSUME NEW p \in Monitors, LoadState(p) PROVE TypeOK'
  <2>0. Asks \subseteq SUBSET Centres
    BY DEF Asks, TypeOK
  <2>1. PICK asked \in Asks \ {{}} :
          Set(p, [NoRun EXCEPT !.prev = state.status, !.asked = asked])
    BY <1>1 DEF LoadState
  <2>2. [NoRun EXCEPT !.prev = state.status, !.asked = asked] \in RunLocals
    BY <2>0, NoRunType DEF TypeOK, RunLocals, StateDoc
  <2>3. run' \in [Monitors -> RunLocals]
    BY <2>1, <2>2, SetType DEF TypeOK
  <2>4. pc' \in [Monitors -> PCs]
    BY <1>1, GotoType DEF TypeOK, LoadState, PCs
  <2> QED
    BY <1>1, <2>3, <2>4 DEF TypeOK, LoadState
<1>2. ASSUME NEW p \in Monitors, LoadSession(p) PROVE TypeOK'
  <2>1. session.login \in Login /\ session.jar \in Counter
    BY DEF TypeOK, SessionDoc
  <2>2. [run[p] EXCEPT !.login = session.login,
                       !.jar = session.jar, !.last = session.jar] \in RunLocals
    BY <1>a, <2>1, LocalsExcept
  <2>3. run' \in [Monitors -> RunLocals]
    BY <1>2, <2>2, SetType DEF TypeOK, LoadSession
  <2>4. pc' \in [Monitors -> PCs]
    BY <1>2, GotoType DEF TypeOK, LoadSession, PCs
  <2>5. witness' \in [Monitors -> [present: SUBSET Keys, absent: SUBSET Keys]]
    BY <1>2 DEF TypeOK, LoadSession
  <2> QED
    BY <1>2, <2>3, <2>4, <2>5 DEF TypeOK, LoadSession
<1>3. ASSUME NEW p \in Monitors, RecordAuthRequired(p) PROVE TypeOK'
  <2>1. PICK r \in WriteOutcomes :
          /\ IF Applied(r)
                THEN /\ state' = StateOf("AUTH_REQUIRED")
                     /\ ObserveStatus("AUTH_REQUIRED")
                ELSE UNCHANGED <<state, alert>>
          /\ Set(p, [run[p] EXCEPT
                        !.event = EventOf(run[p].prev, "AUTH_REQUIRED", r)])
    BY <1>3 DEF RecordAuthRequired
  <2>2. "AUTH_REQUIRED" \in Statuses
    BY DEF Statuses
  <2>3. state' \in StateDoc /\ alert' \in Statuses \cup {NoStatus}
    BY <1>b, <1>e, <2>1, <2>2 DEF TypeOK
  <2>4. run' \in [Monitors -> RunLocals]
    BY <1>a, <1>d, <2>1, <2>2, LocalsExcept, SetType DEF TypeOK
  <2>5. pc' \in [Monitors -> PCs]
    BY <1>3, GotoType DEF TypeOK, RecordAuthRequired, PCs
  <2> QED
    BY <1>3, <2>3, <2>4, <2>5 DEF TypeOK, RecordAuthRequired
<1>4. ASSUME NEW p \in Monitors, ReadDepartments(p) PROVE TypeOK'
  <2>1. PICK jar \in Jars(run[p]) :
          \/ Set(p, [run[p] EXCEPT !.jar = jar, !.todo = run[p].asked])
          \/ \E kind \in Kinds :
                Set(p, [run[p] EXCEPT !.jar = jar, !.kinds = {kind}])
    BY <1>4 DEF ReadDepartments
  <2>2. jar \in Counter /\ run[p].asked \in SUBSET Centres
    BY <1>a, <1>g, <2>1 DEF RunLocals
  <2>3. run' \in [Monitors -> RunLocals]
    BY <1>a, <2>1, <2>2, LocalsExcept, SetType DEF TypeOK
  <2>4. pc' \in [Monitors -> PCs]
    BY <1>4, GotoType DEF TypeOK, ReadDepartments, PCs
  <2> QED
    BY <1>4, <2>3, <2>4 DEF TypeOK, ReadDepartments
<1>5. ASSUME NEW p \in Monitors, ReadCentre(p) PROVE TypeOK'
  <2> DEFINE Left(c, jar) ==
               [run[p] EXCEPT !.jar = jar, !.todo = run[p].todo \ {c}]
  <2>1. PICK centre \in run[p].todo, jar \in Jars(run[p]) :
          \/ Set(p, [Left(centre, jar) EXCEPT !.slots =
                       Left(centre, jar).slots \cup (avail \cap Of({centre}))])
          \/ \E kinds \in Failures :
               Set(p, [Left(centre, jar) EXCEPT !.kinds =
                         Left(centre, jar).kinds \cup kinds])
    BY <1>5 DEF ReadCentre
  <2>2. jar \in Counter /\ run[p].todo \ {centre} \in SUBSET Centres
    BY <1>a, <1>g, <2>1 DEF RunLocals
  <2>3. PICK l \in RunLocals : l = Left(centre, jar)
    BY <1>a, <2>2, LocalsExcept
  <2> HIDE DEF Left
  <2>4. l.slots \cup (avail \cap Of({centre})) \in SUBSET Keys
    BY DEF TypeOK, RunLocals
  <2>5. \A kinds \in Failures : l.kinds \cup kinds \in SUBSET Kinds
    BY DEF Failures, RunLocals
  <2>6. run' \in [Monitors -> RunLocals]
    BY <2>1, <2>3, <2>4, <2>5, LocalsExcept, SetType DEF TypeOK
  <2>7. pc' \in [Monitors -> PCs]
    BY <1>5, GotoType DEF TypeOK, ReadCentre, PCs
  <2> QED
    BY <1>5, <2>6, <2>7 DEF TypeOK, ReadCentre
<1>6. ASSUME NEW p \in Monitors, PersistJar(p) PROVE TypeOK'
  <2>1. run' \in [Monitors -> RunLocals]
    BY <1>6, <1>a, <1>f, LocalsExcept, SetType DEF TypeOK, PersistJar
  <2>2. session' \in SessionDoc
    <3>1. run[p].login \in Login /\ run[p].jar \in Counter
      BY <1>a DEF RunLocals
    <3>2. Sealed(run[p].login, run[p].jar) \in SessionDoc
      BY <3>1 DEF Sealed, SessionDoc
    <3>3. session' = session \/ session' = Sealed(run[p].login, run[p].jar)
      BY <1>6 DEF PersistJar
    <3> QED
      BY <3>2, <3>3 DEF TypeOK
  <2>3. pc' \in [Monitors -> PCs]
    BY <1>6, GotoType DEF TypeOK, PersistJar, PCs
  <2> QED
    BY <1>6, <2>1, <2>2, <2>3 DEF TypeOK, PersistJar
<1>7. ASSUME NEW p \in Monitors, RecordScan(p) PROVE TypeOK'
  <2> DEFINE status == Classify(run[p].kinds)
  <2>1. PICK r \in WriteOutcomes :
          /\ IF Applied(r)
                THEN /\ state' = StateOf(status)
                     /\ ObserveStatus(status)
                     /\ spent' = IF "auth" \in run[p].kinds
                                    THEN spent \cup {run[p].login} ELSE spent
                ELSE UNCHANGED <<state, alert, spent>>
          /\ Set(p, [run[p] EXCEPT !.event = EventOf(run[p].prev, status, r)])
    BY <1>7 DEF RecordScan
  <2>2. status \in Statuses
    BY <1>c
  <2> HIDE DEF status
  <2>3. state' \in StateDoc /\ alert' \in Statuses \cup {NoStatus}
    BY <1>b, <1>e, <2>1, <2>2 DEF TypeOK
  <2>4. spent' \in SUBSET Login
    BY <1>a, <2>1 DEF TypeOK, RunLocals
  <2>5. run' \in [Monitors -> RunLocals]
    BY <1>a, <1>d, <2>1, <2>2, LocalsExcept, SetType DEF TypeOK
  <2>6. pc' \in [Monitors -> PCs]
    BY <1>7, GotoType DEF TypeOK, RecordScan, PCs
  <2>7. witness' \in [Monitors -> [present: SUBSET Keys, absent: SUBSET Keys]]
    BY <1>7 DEF TypeOK, RecordScan, NoWitness
  <2> QED
    BY <1>7, <2>3, <2>4, <2>5, <2>6, <2>7 DEF TypeOK, RecordScan
<1>8. ASSUME NEW p \in Monitors, LoadSnapshot(p) PROVE TypeOK'
  <2>1. /\ Added(snapshot, run[p].asked, run[p].slots) \in SUBSET Keys
        /\ Removed(snapshot, run[p].asked, run[p].slots) \in SUBSET Keys
        /\ run[p].asked \ snapshot.centres \in SUBSET Centres
    BY <1>a DEF TypeOK, SnapshotDoc, RunLocals, Added, Removed
  <2>2. run' \in [Monitors -> RunLocals]
    BY <1>8, <1>a, <2>1, LocalsExcept, SetType DEF TypeOK, LoadSnapshot
  <2>3. pc' \in [Monitors -> PCs]
    BY <1>8, GotoType DEF TypeOK, LoadSnapshot, PCs
  <2> QED
    BY <1>8, <2>2, <2>3 DEF TypeOK, LoadSnapshot
<1>9. ASSUME NEW p \in Monitors, SaveSnapshot(p) PROVE TypeOK'
  <2>1. PICK r \in WriteOutcomes :
          /\ Set(p, [run[p] EXCEPT
                       !.added = AnnounceIfSaved(run[p].added, r),
                       !.removed = AnnounceIfSaved(run[p].removed, r),
                       !.baselined = AnnounceIfSaved(run[p].baselined, r)])
          /\ IF Applied(r)
                THEN /\ snapshot' = SnapshotOf(run[p].asked, run[p].slots)
                     /\ told' = told \cap run[p].slots
                     /\ untold' = (untold \cap run[p].slots)
                                     \cup (run[p].added \ told)
                     /\ known' = (known \cup run[p].asked) \cap enabled
                ELSE UNCHANGED <<snapshot, told, untold, known>>
    BY <1>9 DEF SaveSnapshot
  <2>2. /\ AnnounceIfSaved(run[p].added, r) \in SUBSET Keys
        /\ AnnounceIfSaved(run[p].removed, r) \in SUBSET Keys
        /\ AnnounceIfSaved(run[p].baselined, r) \in SUBSET Centres
    BY <1>a DEF AnnounceIfSaved, RunLocals
  <2>3. run' \in [Monitors -> RunLocals]
    BY <1>a, <2>1, <2>2, LocalsExcept, SetType DEF TypeOK
  <2>4. pc' \in [Monitors -> PCs]
    BY <1>9, GotoType DEF TypeOK, SaveSnapshot, PCs
  <2>5. /\ snapshot' \in SnapshotDoc
        /\ told' \in SUBSET Keys /\ untold' \in SUBSET Keys
        /\ known' \in SUBSET Centres
    BY <1>a, <2>1 DEF TypeOK, SnapshotOf, SnapshotDoc, RunLocals
  <2> QED
    BY <1>9, <2>3, <2>4, <2>5 DEF TypeOK, SaveSnapshot
<1>10. ASSUME NEW p \in Monitors, Notify(p) PROVE TypeOK'
  <2>1. told' \in SUBSET Keys /\ untold' \in SUBSET Keys
    BY <1>10, <1>a DEF TypeOK, Notify, RunLocals
  <2>2. alert' \in Statuses \cup {NoStatus}
    BY <1>10, <1>a DEF TypeOK, Notify, RunLocals
  <2> QED
    BY <1>10, <2>1, <2>2, FinishType DEF TypeOK, Notify
<1>11. ASSUME NEW p \in Monitors, Failure(p) PROVE TypeOK'
  <2>1. CASE RunBlocked(p)
    BY <2>1 DEF TypeOK, RunBlocked, vars
  <2>2. CASE LoadSessionFails(p)
    BY <2>2, FinishType DEF TypeOK, LoadSessionFails
  <2>3. CASE LoadSnapshotFails(p)
    <3>1. pc' \in [Monitors -> PCs]
      BY <2>3, GotoType DEF TypeOK, LoadSnapshotFails, PCs
    <3> QED
      BY <2>3, <3>1 DEF TypeOK, LoadSnapshotFails
  <2>4. CASE Crash(p)
    BY <2>4, FinishType DEF TypeOK, Crash
  <2> QED
    BY <1>11, <2>1, <2>2, <2>3, <2>4 DEF Failure
<1>12. CASE StartRefresh
  BY <1>12 DEF TypeOK, StartRefresh, Login
<1>13. CASE RefreshSave
  BY <1>13 DEF TypeOK, RefreshSave, EndRefresh, Sealed, SessionDoc, Login, Counter
<1>14. CASE RefreshReady
  <2>1. "READY" \in Statuses
    BY DEF Statuses
  <2>2. state' \in StateDoc /\ alert' \in Statuses \cup {NoStatus}
    BY <1>14, <1>b, <1>e, <2>1 DEF TypeOK, RefreshReady
  <2> QED
    BY <1>14, <2>2 DEF TypeOK, RefreshReady, EndRefresh, Login
<1>15. CASE RefreshCrash
  BY <1>15 DEF TypeOK, RefreshCrash, EndRefresh, Login
<1>16. CASE ChangeAvailability
  <2>1. avail' \in SUBSET Keys
    BY <1>16 DEF TypeOK, ChangeAvailability
  <2>2. witness' \in [Monitors -> [present: SUBSET Keys, absent: SUBSET Keys]]
    BY <1>16, <2>1 DEF TypeOK, ChangeAvailability
  <2> QED
    BY <1>16, <2>1, <2>2 DEF TypeOK, ChangeAvailability
<1>17. CASE SessionExpires
  BY <1>17 DEF TypeOK, SessionExpires, SessionDoc
<1>18. CASE Tick
  BY <1>18 DEF TypeOK, Tick, StateDoc
<1>19. CASE Stabilise
  BY <1>19 DEF TypeOK, Stabilise
<1>20. CASE UNCHANGED vars
  BY <1>20 DEF TypeOK, vars
<1>21. CASE EditCentres
  BY <1>21 DEF TypeOK, EditCentres
<1> QED
  BY <1>1, <1>2, <1>3, <1>4, <1>5, <1>6, <1>7, <1>8, <1>9, <1>10, <1>11,
     <1>12, <1>13, <1>14, <1>15, <1>16, <1>17, <1>18, <1>19, <1>20, <1>21
     DEF Next, Step, RefreshStep

\* The types hold in every reachable state.
THEOREM TypeCorrect == Spec => []TypeOK
<1>1. Init => TypeOK
  <2> SUFFICES ASSUME Init PROVE TypeOK
    OBVIOUS
  <2>1. session \in SessionDoc
    BY BoundsAssumption DEF Init, SessionDoc, Login, Counter
  <2>2. state \in StateDoc /\ snapshot \in SnapshotDoc
    BY BoundsAssumption DEF Init, StateDoc, SnapshotDoc
  <2>3. /\ pc \in [Monitors -> PCs]
        /\ run \in [Monitors -> RunLocals]
        /\ witness \in [Monitors -> [present: SUBSET Keys, absent: SUBSET Keys]]
    BY NoRunType DEF Init, PCs, NoWitness
  <2>4. refresh \in [pc: {"idle", "save", "ready"}, login: Login]
        /\ logins \in Login
    BY BoundsAssumption DEF Init, Login
  <2> QED
    BY <2>1, <2>2, <2>3, <2>4 DEF Init, TypeOK
<1> QED
  BY <1>1, TypeInductive, PTL DEF Spec

-----------------------------------------------------------------------------
(* The gate.  With one monitor run at a time, whoever has passed the gate and *)
(* has not yet written its verdict finds the gate still open: only a verdict  *)
(* closes it, and the only verdict to come is its own.                        *)

OneRun ==
    \A p, q \in Monitors : p # q => pc[p] = "idle" \/ pc[q] = "idle"

BeforeVerdict ==
    {"session", "expired", "departments", "read", "persist", "record"}

GateInv ==
    /\ OneRun
    /\ \A p \in Monitors : pc[p] \in BeforeVerdict =>
          /\ state.status # "AUTH_REQUIRED"
          /\ state.status = "RATE_LIMITED" => state.window = 0

\* A process starts only when every other one is idle, and the others only move
\* on or end.
LEMMA OneRunInductive ==
  ASSUME ConcurrencyGroup, TypeOK, OneRun, [Next]_vars
  PROVE  OneRun'
<1> USE DEF OneRun, TypeOK, Goto, Finish
<1>1. ASSUME NEW p \in Monitors, LoadState(p) PROVE OneRun'
  BY <1>1 DEF LoadState, Idle
<1>2. ASSUME NEW p \in Monitors, Step(p), ~LoadState(p) PROVE OneRun'
  <2>1. pc[p] # "idle"
    BY <1>2 DEF Step, LoadSession, RecordAuthRequired, ReadDepartments,
       ReadCentre, PersistJar, RecordScan, LoadSnapshot, SaveSnapshot, Notify
  <2>2. \E label : pc' = [pc EXCEPT ![p] = label]
    BY <1>2 DEF Step, LoadSession, RecordAuthRequired, ReadDepartments,
       ReadCentre, PersistJar, RecordScan, LoadSnapshot, SaveSnapshot, Notify
  <2> QED
    BY <2>1, <2>2
<1>3. ASSUME NEW p \in Monitors, Failure(p) PROVE OneRun'
  BY <1>3 DEF Failure, RunBlocked, LoadSessionFails, LoadSnapshotFails, Crash, vars
<1>4. ASSUME UNCHANGED pc PROVE OneRun'
  BY <1>4
<1> QED
  BY <1>1, <1>2, <1>3, <1>4 DEF Next, RefreshStep, StartRefresh, RefreshSave,
     RefreshReady, RefreshCrash, ChangeAvailability, EditCentres, SessionExpires, Tick,
     Stabilise, vars

\* The inductive step of the gate.
LEMMA GateInductive ==
  ASSUME ConcurrencyGroup, TypeOK, GateInv, [Next]_vars
  PROVE  GateInv'
<1>0. OneRun'
  BY OneRunInductive DEF GateInv
<1> USE DEF GateInv, TypeOK, Goto, Finish, OneRun, BeforeVerdict
<1>1. ASSUME NEW p \in Monitors, LoadState(p) PROVE GateInv'
  BY <1>0, <1>1 DEF LoadState, Idle, Blocked, documents, StateDoc
<1>2. ASSUME NEW p \in Monitors,
             \/ LoadSession(p) \/ ReadDepartments(p) \/ ReadCentre(p)
             \/ PersistJar(p) \/ LoadSnapshot(p) \/ SaveSnapshot(p) \/ Notify(p)
             \/ Failure(p)
      PROVE GateInv'
  <2>1. UNCHANGED state
    BY <1>2 DEF LoadSession, ReadDepartments, ReadCentre, PersistJar,
       LoadSnapshot, SaveSnapshot, Notify, Failure, RunBlocked,
       LoadSessionFails, LoadSnapshotFails, Crash, documents, vars
  <2>2. \A q \in Monitors : pc'[q] \in BeforeVerdict => pc[q] \in BeforeVerdict
    BY <1>2 DEF LoadSession, ReadDepartments, ReadCentre, PersistJar,
       LoadSnapshot, SaveSnapshot, Notify, Failure, RunBlocked,
       LoadSessionFails, LoadSnapshotFails, Crash, vars
  <2> QED
    BY <1>0, <2>1, <2>2
<1>3. ASSUME NEW p \in Monitors, RecordAuthRequired(p) \/ RecordScan(p)
      PROVE GateInv'
  <2>1. pc[p] # "idle" /\ pc'[p] \in {"compare", "notify"}
    BY <1>3 DEF RecordAuthRequired, RecordScan
  <2>2. \A q \in Monitors \ {p} : pc[q] = "idle" /\ pc'[q] = "idle"
    BY <1>3, <2>1 DEF RecordAuthRequired, RecordScan
  <2> QED
    BY <1>0, <2>1, <2>2
<1>4. CASE RefreshReady
  BY <1>0, <1>4 DEF RefreshReady, StateOf
<1>5. CASE Tick
  <2>1. state'.status = state.status
    BY <1>5 DEF Tick, StateDoc
  <2>2. state.window = 0 => FALSE
    BY <1>5 DEF Tick
  <2> QED
    BY <1>0, <1>5, <2>1, <2>2 DEF Tick
<1>6. ASSUME UNCHANGED <<pc, state>> PROVE GateInv'
  BY <1>0, <1>6
<1> QED
  BY <1>1, <1>2, <1>3, <1>4, <1>5, <1>6 DEF Next, Step, RefreshStep,
     StartRefresh, RefreshSave, RefreshCrash, ChangeAvailability, EditCentres,
     SessionExpires, Stabilise, documents, vars

\* The gate's invariant holds in every reachable state.
LEMMA GateCorrect ==
  ASSUME ConcurrencyGroup
  PROVE  Spec => [](TypeOK /\ GateInv)
<1>1. Init => GateInv
  BY DEF Init, GateInv, OneRun, BeforeVerdict
<1>2. TypeOK /\ GateInv /\ [Next]_vars => GateInv'
  BY GateInductive
<1> QED
  BY <1>1, <1>2, TypeCorrect, PTL DEF Spec

\* One monitor run at a time never sends a request the persisted state forbids,
\* however refresh-session, the clock and failures interleave with it.
THEOREM GateHolds ==
  ASSUME ConcurrencyGroup
  PROVE  Spec => []NoRequestWhileBlocked
<1>1. GateInv => NoRequestWhileBlocked
  BY DEF GateInv, NoRequestWhileBlocked, Requesting, BeforeVerdict
<1> QED
  BY <1>1, GateCorrect, PTL

\* With one monitor run at a time AUTH_REQUIRED is left by refresh-session only.
THEOREM AuthIsSticky ==
  ASSUME ConcurrencyGroup
  PROVE  Spec => AuthStickyUntilRefresh
<1>1. ASSUME TypeOK, GateInv, [Next]_vars,
             state.status = "AUTH_REQUIRED", state'.status # "AUTH_REQUIRED"
      PROVE  refresh.pc = "ready"
  <2> USE <1>1 DEF TypeOK, GateInv, BeforeVerdict
  <2>1. ASSUME NEW p \in Monitors, RecordAuthRequired(p) \/ RecordScan(p)
        PROVE FALSE
    BY <2>1 DEF RecordAuthRequired, RecordScan
  <2>2. CASE Tick
    BY <2>2 DEF Tick, StateDoc
  <2>3. CASE RefreshReady
    BY <2>3 DEF RefreshReady
  <2>4. CASE UNCHANGED state
    BY <2>4
  <2> QED
    BY <2>1, <2>2, <2>3, <2>4 DEF Next, Step, Failure, RefreshStep,
       LoadState, LoadSession, ReadDepartments, ReadCentre, PersistJar,
       LoadSnapshot, SaveSnapshot, Notify, RunBlocked, LoadSessionFails,
       LoadSnapshotFails, Crash, StartRefresh, RefreshSave, RefreshCrash,
       ChangeAvailability, EditCentres, SessionExpires, Stabilise, documents, vars
<1>2. TypeOK /\ GateInv /\ [Next]_vars
        => [(state.status = "AUTH_REQUIRED" /\ state'.status # "AUTH_REQUIRED")
               => refresh.pc = "ready"]_vars
  BY <1>1
<1> QED
  BY <1>2, GateCorrect, PTL DEF Spec, AuthStickyUntilRefresh

-----------------------------------------------------------------------------
(* Real changes.  The argument follows one scan: while it reads, whatever is  *)
(* free or not free is witnessed; a centre done with and not failed was read  *)
(* at one of those moments; and only a scan without a failure is compared.    *)

AfterFirstAnswer == {"read", "persist", "record", "compare", "save"}

ScanOf(p) ==
    /\ pc[p] \in Reading => /\ avail \subseteq witness[p].present
                            /\ Keys \ avail \subseteq witness[p].absent
    /\ pc[p] \notin {"save", "notify"}
          => run[p].added = {} /\ run[p].removed = {}
    /\ pc[p] \in {"session", "departments"}
          => run[p].slots = {} /\ run[p].todo = {}
    /\ pc[p] \in AfterFirstAnswer =>
          /\ run[p].slots \subseteq witness[p].present
          /\ run[p].kinds = {} =>
                Of(run[p].asked \ run[p].todo) \ run[p].slots
                    \subseteq witness[p].absent
    /\ pc[p] = "record" => run[p].todo = {}
    /\ pc[p] \in {"compare", "save"} => run[p].kinds = {} /\ run[p].todo = {}
    /\ pc[p] \in {"save", "notify"} =>
          /\ run[p].added \subseteq witness[p].present
          /\ run[p].removed \subseteq witness[p].absent

ScanInv == \A p \in Monitors : ScanOf(p)

\* What a scan gathers, of a process's locals; and what each update of the
\* locals leaves of it.
Gathered(l) == <<l.asked, l.todo, l.slots, l.kinds, l.added, l.removed>>

\* The jar and the login are not gathered.
LEMMA LoginKeeps ==
  \A l \in RunLocals : \A login, jar :
     Gathered([l EXCEPT !.login = login, !.jar = jar, !.last = jar]) = Gathered(l)
BY DEF RunLocals, Gathered

\* What is left to read.
LEMMA TodoKeeps ==
  \A l \in RunLocals : \A jar, todo :
     Gathered([l EXCEPT !.jar = jar, !.todo = todo])
       = <<l.asked, todo, l.slots, l.kinds, l.added, l.removed>>
BY DEF RunLocals, Gathered

\* A failure of the first request.
LEMMA JarKindsKeeps ==
  \A l \in RunLocals : \A jar, kinds :
     Gathered([l EXCEPT !.jar = jar, !.kinds = kinds])
       = <<l.asked, l.todo, l.slots, kinds, l.added, l.removed>>
BY DEF RunLocals, Gathered

\* The slots of a centre.
LEMMA SlotsKeeps ==
  \A l \in RunLocals : \A slots :
     Gathered([l EXCEPT !.slots = slots])
       = <<l.asked, l.todo, slots, l.kinds, l.added, l.removed>>
BY DEF RunLocals, Gathered

\* A failure of a centre.
LEMMA KindsKeeps ==
  \A l \in RunLocals : \A kinds :
     Gathered([l EXCEPT !.kinds = kinds])
       = <<l.asked, l.todo, l.slots, kinds, l.added, l.removed>>
BY DEF RunLocals, Gathered

\* The bookkeeping of the jar's writes.
LEMMA PersisterKeeps ==
  \A l \in RunLocals : \A r : Gathered(PersisterAfter(l, r)) = Gathered(l)
BY DEF RunLocals, Gathered, PersisterAfter

\* What each request, and the write after it, adds to what a scan gathers.
LEMMA LoadSessionGathers ==
  ASSUME TypeOK, NEW p \in Monitors, LoadSession(p)
  PROVE  Gathered(run'[p]) = Gathered(run[p])
<1>1. run[p] \in RunLocals
  BY DEF TypeOK
<1>2. \/ run'[p] = run[p]
      \/ run'[p] = [run[p] EXCEPT !.login = session.login,
                      !.jar = session.jar, !.last = session.jar]
  BY DEF LoadSession, Set, TypeOK
<1>3. CASE run'[p] = run[p]
  BY <1>3, Zenon
<1>4. CASE run'[p] = [run[p] EXCEPT !.login = session.login,
                        !.jar = session.jar, !.last = session.jar]
  <2>1. Gathered([run[p] EXCEPT !.login = session.login,
                    !.jar = session.jar, !.last = session.jar])
          = Gathered(run[p])
    BY <1>1, LoginKeeps, Zenon
  <2> QED
    BY <1>4, <2>1, Zenon
<1> QED
  BY <1>2, <1>3, <1>4, Zenon

\* Either every centre is left to read, or the scan has failed.
LEMMA ReadDepartmentsGathers ==
  ASSUME TypeOK, NEW p \in Monitors, ReadDepartments(p)
  PROVE
    \/ Gathered(run'[p]) = <<run[p].asked, run[p].asked, run[p].slots,
                            run[p].kinds, run[p].added, run[p].removed>>
    \/ \E kind : Gathered(run'[p]) =
         <<run[p].asked, run[p].todo, run[p].slots,
           {kind}, run[p].added, run[p].removed>>
<1>1. run[p] \in RunLocals
  BY DEF TypeOK
<1>2. PICK jar \in Jars(run[p]) :
        \/ run'[p] = [run[p] EXCEPT !.jar = jar, !.todo = run[p].asked]
        \/ \E kind : run'[p] = [run[p] EXCEPT !.jar = jar, !.kinds = {kind}]
  <2>1. run \in [Monitors -> RunLocals]
    BY DEF TypeOK
  <2> QED
    BY <2>1 DEF ReadDepartments, Set
<1>3. CASE run'[p] = [run[p] EXCEPT !.jar = jar, !.todo = run[p].asked]
  <2>1. Gathered([run[p] EXCEPT !.jar = jar, !.todo = run[p].asked])
          = <<run[p].asked, run[p].asked, run[p].slots,
              run[p].kinds, run[p].added, run[p].removed>>
    BY <1>1, TodoKeeps, Zenon
  <2> QED
    BY <1>3, <2>1, Zenon
<1>4. ASSUME NEW kind, run'[p] = [run[p] EXCEPT !.jar = jar, !.kinds = {kind}]
      PROVE  Gathered(run'[p]) = <<run[p].asked, run[p].todo, run[p].slots,
                                   {kind}, run[p].added, run[p].removed>>
  <2>1. Gathered([run[p] EXCEPT !.jar = jar, !.kinds = {kind}])
          = <<run[p].asked, run[p].todo, run[p].slots,
              {kind}, run[p].added, run[p].removed>>
    BY <1>1, JarKindsKeeps, Zenon
  <2> QED
    BY <1>4, <2>1, Zenon
<1> QED
  BY <1>2, <1>3, <1>4, Zenon

\* Either the free slots of one centre are added, or the scan has failed.
LEMMA ReadCentreGathers ==
  ASSUME TypeOK, NEW p \in Monitors, ReadCentre(p)
  PROVE  \E centre \in run[p].todo :
           /\ run'[p].todo = run[p].todo \ {centre}
           /\ run'[p].asked = run[p].asked
           /\ run'[p].added = run[p].added /\ run'[p].removed = run[p].removed
           /\ \/ /\ run'[p].slots = run[p].slots \cup (avail \cap Of({centre}))
                 /\ run'[p].kinds = run[p].kinds
              \/ /\ run'[p].slots = run[p].slots
                 /\ run'[p].kinds # {}
<1>1. run[p] \in RunLocals
  BY DEF TypeOK
<1>2. PICK centre \in run[p].todo, jar \in Jars(run[p]) :
        LET l == [run[p] EXCEPT !.jar = jar, !.todo = @ \ {centre}] IN
        \/ Set(p, [l EXCEPT !.slots = @ \cup (avail \cap Of({centre}))])
        \/ \E kinds \in Failures : Set(p, [l EXCEPT !.kinds = @ \cup kinds])
  BY DEF ReadCentre
<1> DEFINE l == [run[p] EXCEPT !.jar = jar, !.todo = run[p].todo \ {centre}]
<1>3. l \in RunLocals
  <2>1. jar \in Counter
    BY <1>1, BoundsAssumption DEF Jars, Counter, RunLocals
  <2>2. run[p].todo \ {centre} \in SUBSET Centres
    BY <1>1 DEF RunLocals
  <2> QED
    BY <1>1, <2>1, <2>2, LocalsExcept
<1>4. Gathered(l) = <<run[p].asked, run[p].todo \ {centre}, run[p].slots,
                      run[p].kinds, run[p].added, run[p].removed>>
  BY <1>1, TodoKeeps, Zenon
<1>5. \/ run'[p] = [l EXCEPT !.slots = l.slots \cup (avail \cap Of({centre}))]
      \/ \E kinds \in Failures : run'[p] = [l EXCEPT !.kinds = l.kinds \cup kinds]
  BY <1>2 DEF Set, TypeOK
<1> HIDE DEF l
<1>6. /\ l.asked = run[p].asked /\ l.todo = run[p].todo \ {centre}
      /\ l.slots = run[p].slots /\ l.kinds = run[p].kinds
      /\ l.added = run[p].added /\ l.removed = run[p].removed
  BY <1>4 DEF Gathered
<1>7. CASE run'[p] = [l EXCEPT !.slots = l.slots \cup (avail \cap Of({centre}))]
  <2>1. Gathered(run'[p]) = <<l.asked, l.todo,
                              l.slots \cup (avail \cap Of({centre})),
                              l.kinds, l.added, l.removed>>
    BY <1>3, <1>7, SlotsKeeps, Zenon
  <2> QED
    BY <1>6, <2>1 DEF Gathered
<1>8. ASSUME NEW kinds \in Failures,
             run'[p] = [l EXCEPT !.kinds = l.kinds \cup kinds]
      PROVE  /\ run'[p].todo = l.todo /\ run'[p].asked = l.asked
             /\ run'[p].added = l.added /\ run'[p].removed = l.removed
             /\ run'[p].slots = l.slots /\ run'[p].kinds # {}
  <2>1. Gathered(run'[p]) = <<l.asked, l.todo, l.slots, l.kinds \cup kinds,
                              l.added, l.removed>>
    BY <1>3, <1>8, KindsKeeps, Zenon
  <2>2. l.kinds \cup kinds # {}
    BY DEF Failures
  <2> QED
    BY <2>1, <2>2 DEF Gathered
<1> QED
  BY <1>5, <1>6, <1>7, <1>8

\* Writing the jar back gathers nothing.
LEMMA PersistJarGathers ==
  ASSUME TypeOK, NEW p \in Monitors, PersistJar(p)
  PROVE  Gathered(run'[p]) = Gathered(run[p])
<1>1. run[p] \in RunLocals
  BY DEF TypeOK
<1>2. run' = run \/ \E r : run'[p] = PersisterAfter(run[p], r)
  BY DEF PersistJar, Set, TypeOK
<1> QED
  BY <1>1, <1>2, PersisterKeeps, Zenon

\* Only a scan nothing failed in is READY.
LEMMA ReadyMeansComplete ==
  ASSUME NEW kinds \in SUBSET Kinds, Classify(kinds) = "READY"
  PROVE  kinds = {}
BY DEF Classify, Kinds

\* The inductive step of a scan.
LEMMA ScanInductive ==
  ASSUME TypeOK, ScanInv, [Next]_vars
  PROVE  ScanInv'
<1> USE DEF Goto, Set, Finish, NoRun, Reading, AfterFirstAnswer, Of, Keys
<1>a. /\ pc \in [Monitors -> PCs]
      /\ run \in [Monitors -> RunLocals]
      /\ witness \in [Monitors -> [present: SUBSET Keys, absent: SUBSET Keys]]
      /\ avail \in SUBSET Keys
  BY DEF TypeOK
<1>b. ASSUME NEW p \in Monitors, ScanOf(p)', UNCHANGED avail,
             \A q \in Monitors \ {p} : UNCHANGED <<pc[q], run[q], witness[q]>>
      PROVE  ScanInv'
  BY <1>b DEF ScanInv, ScanOf
<1>1. ASSUME NEW p \in Monitors, LoadState(p) PROVE ScanInv'
  BY <1>1, <1>a DEF ScanInv, ScanOf, LoadState, environment
<1>2. ASSUME NEW p \in Monitors, LoadSession(p) PROVE ScanInv'
  <2>1. Gathered(run'[p]) = Gathered(run[p])
    BY <1>2, LoadSessionGathers
  <2>2. \/ pc'[p] = "expired"
        \/ /\ pc'[p] = "departments"
           /\ witness'[p] = [present |-> avail, absent |-> Keys \ avail]
    BY <1>2, <1>a DEF LoadSession
  <2>3. ScanOf(p)'
    BY <1>2, <2>1, <2>2 DEF ScanInv, ScanOf, LoadSession, environment, Gathered
  <2> QED
    BY <1>2, <1>a, <1>b, <2>3 DEF LoadSession, environment
<1>3. ASSUME NEW p \in Monitors, RecordAuthRequired(p) PROVE ScanInv'
  BY <1>3, <1>a DEF ScanInv, ScanOf, RecordAuthRequired, environment, RunLocals
<1>4. ASSUME NEW p \in Monitors, ReadDepartments(p) PROVE ScanInv'
  <2>1. \/ Gathered(run'[p]) = <<run[p].asked, run[p].asked, run[p].slots,
                                run[p].kinds, run[p].added, run[p].removed>>
        \/ \E kind : Gathered(run'[p]) =
             <<run[p].asked, run[p].todo, run[p].slots,
               {kind}, run[p].added, run[p].removed>>
    BY <1>4, ReadDepartmentsGathers
  <2>2. pc'[p] = "persist"
    BY <1>4, <1>a DEF ReadDepartments
  <2>3. ScanOf(p)'
    BY <1>4, <2>1, <2>2 DEF ScanInv, ScanOf, ReadDepartments, environment, Gathered
  <2> QED
    BY <1>4, <1>a, <1>b, <2>3 DEF ReadDepartments, environment
<1>5. ASSUME NEW p \in Monitors, ReadCentre(p) PROVE ScanInv'
  <2>1. PICK centre \in run[p].todo :
          /\ run'[p].todo = run[p].todo \ {centre}
          /\ run'[p].asked = run[p].asked
          /\ run'[p].added = run[p].added /\ run'[p].removed = run[p].removed
          /\ \/ /\ run'[p].slots = run[p].slots \cup (avail \cap Of({centre}))
                /\ run'[p].kinds = run[p].kinds
             \/ /\ run'[p].slots = run[p].slots
                /\ run'[p].kinds # {}
    BY <1>5, ReadCentreGathers
  <2>2. pc[p] = "read" /\ pc'[p] = "persist" /\ UNCHANGED <<avail, witness>>
    BY <1>5, <1>a DEF ReadCentre, environment
  <2>3. ScanOf(p)
    BY DEF ScanInv
  <2>4. run'[p].slots \subseteq witness[p].present
    BY <2>1, <2>2, <2>3 DEF ScanOf
  <2>5. ASSUME run'[p].kinds = {}
        PROVE  Of(run'[p].asked \ run'[p].todo) \ run'[p].slots
                   \subseteq witness[p].absent
    <3>1. /\ run'[p].slots = run[p].slots \cup (avail \cap Of({centre}))
          /\ run[p].kinds = {}
      BY <2>1, <2>5
    <3>2. /\ Of(run[p].asked \ run[p].todo) \ run[p].slots \subseteq witness[p].absent
          /\ (Centres \X Slots) \ avail \subseteq witness[p].absent
      BY <3>1, <2>2, <2>3 DEF ScanOf
    <3>3. centre \in Centres
      BY <1>a DEF RunLocals
    <3>4. SUFFICES ASSUME NEW c \in run[p].asked \ (run[p].todo \ {centre}),
                          NEW s \in Slots,
                          <<c, s>> \notin run[p].slots \cup (avail \cap Of({centre}))
                   PROVE  <<c, s>> \in witness[p].absent
      BY <2>1, <3>1
    <3>5. CASE c = centre
      BY <3>2, <3>3, <3>4, <3>5
    <3>6. CASE c # centre
      BY <3>2, <3>4, <3>6
    <3> QED
      BY <3>5, <3>6
  <2>6. ScanOf(p)'
    BY <2>1, <2>2, <2>3, <2>4, <2>5 DEF ScanOf
  <2> QED
    BY <1>5, <1>a, <1>b, <2>2, <2>6 DEF ReadCentre
<1>6. ASSUME NEW p \in Monitors, PersistJar(p) PROVE ScanInv'
  <2>1. Gathered(run'[p]) = Gathered(run[p])
    BY <1>6, PersistJarGathers
  <2>2. pc'[p] = IF run[p].todo = {} THEN "record" ELSE "read"
    BY <1>6, <1>a DEF PersistJar
  <2>3. ScanOf(p)'
    BY <1>6, <2>1, <2>2 DEF ScanInv, ScanOf, PersistJar, environment, Gathered
  <2> QED
    BY <1>6, <1>a, <1>b, <2>3 DEF PersistJar, environment
<1>7. ASSUME NEW p \in Monitors, RecordScan(p) PROVE ScanInv'
  BY <1>7, <1>a, ReadyMeansComplete DEF ScanInv, ScanOf, RecordScan, environment, RunLocals
<1>8. ASSUME NEW p \in Monitors, LoadSnapshot(p) PROVE ScanInv'
  BY <1>8, <1>a DEF ScanInv, ScanOf, LoadSnapshot, environment, RunLocals, Added, Removed, Comparable
<1>9. ASSUME NEW p \in Monitors, SaveSnapshot(p) PROVE ScanInv'
  BY <1>9, <1>a DEF ScanInv, ScanOf, SaveSnapshot, AnnounceIfSaved, environment, RunLocals
<1>10. ASSUME NEW p \in Monitors, Notify(p) PROVE ScanInv'
  BY <1>10, <1>a DEF ScanInv, ScanOf, Notify, environment
<1>11. ASSUME NEW p \in Monitors, Failure(p) PROVE ScanInv'
  BY <1>11, <1>a DEF ScanInv, ScanOf, Failure, RunBlocked, LoadSessionFails, LoadSnapshotFails, Crash, environment, vars
<1>12. CASE ChangeAvailability
  BY <1>12, <1>a DEF ScanInv, ScanOf, ChangeAvailability
<1>13. ASSUME UNCHANGED <<pc, run, witness, avail>> PROVE ScanInv'
  BY <1>13 DEF ScanInv, ScanOf
<1> QED
  BY <1>1, <1>2, <1>3, <1>4, <1>5, <1>6, <1>7, <1>8, <1>9, <1>10, <1>11,
     <1>12, <1>13 DEF Next, Step, RefreshStep, StartRefresh, RefreshSave,
     RefreshReady, RefreshCrash, EditCentres, SessionExpires, Tick, Stabilise,
     environment, vars

\* Every slot announced as new was free, and every slot announced as gone was
\* not, at some moment of the very scan that says so.
THEOREM ChangesAreReal == Spec => []AnnouncedChangesWereReal
<1>1. Init => ScanInv
  BY DEF Init, ScanInv, ScanOf, NoRun, Reading, AfterFirstAnswer
<1>2. TypeOK /\ ScanInv /\ [Next]_vars => ScanInv'
  BY ScanInductive
<1>3. ScanInv => AnnouncedChangesWereReal
  BY DEF ScanInv, ScanOf, AnnouncedChangesWereReal
<1> QED
  BY <1>1, <1>2, <1>3, TypeCorrect, PTL DEF Spec

-----------------------------------------------------------------------------
(* Nothing is told twice.  What has been told is in the stored snapshot, so a *)
(* diff against that snapshot has none of it; and with one run at a time no   *)
(* other run saves or announces between the comparison and the announcement.  *)

ToldOf(p) ==
    /\ pc[p] \notin {"save", "notify"} => run[p].added = {}
    /\ pc[p] = "save" => /\ run[p].added \subseteq run[p].slots
                         /\ run[p].added \cap snapshot.slots = {}
    /\ pc[p] = "notify" => /\ run[p].added \subseteq snapshot.slots
                           /\ run[p].added \cap told = {}

ToldInv ==
    /\ OneRun
    /\ told \subseteq snapshot.slots
    /\ \A p \in Monitors : ToldOf(p)

\* The inductive step of what has been told.
LEMMA ToldInductive ==
  ASSUME ConcurrencyGroup, TypeOK, ToldInv, [Next]_vars
  PROVE  ToldInv'
<1>0. OneRun'
  BY OneRunInductive DEF ToldInv
<1> USE DEF Goto, Set, Finish, NoRun
<1>a. /\ pc \in [Monitors -> PCs]
      /\ run \in [Monitors -> RunLocals]
  BY DEF TypeOK
\* A step that writes no snapshot, announces nothing and compares nothing.
<1>b. ASSUME NEW p \in Monitors, UNCHANGED <<snapshot, told>>,
             pc'[p] \notin {"save", "notify"}, run'[p].added = {},
             \A q \in Monitors \ {p} : UNCHANGED <<pc[q], run[q]>>
      PROVE  ToldInv'
  BY <1>0, <1>b DEF ToldInv, ToldOf
<1>1. ASSUME NEW p \in Monitors, LoadState(p) PROVE ToldInv'
  BY <1>0, <1>1, <1>a DEF ToldInv, ToldOf, LoadState, documents, observed
<1>2. ASSUME NEW p \in Monitors,
             \/ LoadSession(p) \/ ReadDepartments(p)
             \/ ReadCentre(p) \/ PersistJar(p)
      PROVE  ToldInv'
  <2>1. pc[p] \in {"session", "departments", "read", "persist"}
    BY <1>2 DEF LoadSession, ReadDepartments, ReadCentre, PersistJar
  <2>2. run[p].added = {}
    BY <2>1 DEF ToldInv, ToldOf
  <2>3. run'[p].added = run[p].added
    BY <1>2, LoadSessionGathers, ReadDepartmentsGathers, ReadCentreGathers,
       PersistJarGathers DEF Gathered
  <2>4. pc'[p] \in {"expired", "departments", "persist", "record", "read"}
    BY <1>2, <1>a DEF LoadSession, ReadDepartments, ReadCentre, PersistJar
  <2>5. /\ UNCHANGED <<snapshot, told>>
        /\ \A q \in Monitors \ {p} : UNCHANGED <<pc[q], run[q]>>
    BY <1>2, <1>a DEF LoadSession, ReadDepartments, ReadCentre, PersistJar,
       documents, observed
  <2> QED
    BY <1>b, <2>2, <2>3, <2>4, <2>5
<1>3. ASSUME NEW p \in Monitors, RecordAuthRequired(p) \/ RecordScan(p)
      PROVE  ToldInv'
  <2>1. pc[p] \in {"expired", "record"} /\ UNCHANGED <<snapshot, told>>
    BY <1>3 DEF RecordAuthRequired, RecordScan
  <2>2. run'[p].added = run[p].added
    BY <1>3, <1>a DEF RecordAuthRequired, RecordScan, RunLocals
  <2>3. \A q \in Monitors \ {p} : UNCHANGED <<pc[q], run[q]>>
    BY <1>3, <1>a DEF RecordAuthRequired, RecordScan
  <2>4. pc'[p] \in {"compare", "notify"}
    BY <1>3, <1>a DEF RecordAuthRequired, RecordScan
  <2> QED
    BY <1>0, <2>1, <2>2, <2>3, <2>4 DEF ToldInv, ToldOf
<1>4. ASSUME NEW p \in Monitors, LoadSnapshot(p) PROVE ToldInv'
  BY <1>0, <1>4, <1>a DEF ToldInv, ToldOf, LoadSnapshot, documents, observed,
     RunLocals, Added
<1>5. ASSUME NEW p \in Monitors, SaveSnapshot(p) PROVE ToldInv'
  <2>1. /\ pc[p] = "save" /\ pc'[p] = "notify"
        /\ \A q \in Monitors \ {p} : UNCHANGED <<pc[q], run[q]>>
    BY <1>5, <1>a DEF SaveSnapshot
  <2>2. \A q \in Monitors \ {p} : pc[q] = "idle"
    BY <2>1 DEF ToldInv, OneRun
  <2>3. PICK r \in WriteOutcomes :
          /\ run'[p].added = AnnounceIfSaved(run[p].added, r)
          /\ IF Applied(r)
                THEN snapshot'.slots = run[p].slots /\ told' = told \cap run[p].slots
                ELSE UNCHANGED <<snapshot, told>>
    BY <1>5, <1>a DEF SaveSnapshot, SnapshotOf, RunLocals
  <2>4. run'[p].added = {} \/ /\ run'[p].added = run[p].added
                              /\ Applied(r)
    BY <2>3 DEF AnnounceIfSaved, Applied
  <2>5. told' \subseteq snapshot'.slots
    BY <2>3 DEF ToldInv
  <2>6. ToldOf(p)'
    BY <2>1, <2>3, <2>4 DEF ToldInv, ToldOf
  <2> QED
    BY <1>0, <2>1, <2>2, <2>5, <2>6 DEF ToldInv, ToldOf
<1>6. ASSUME NEW p \in Monitors, Notify(p) PROVE ToldInv'
  <2>1. /\ pc[p] = "notify" /\ pc'[p] = "idle" /\ run'[p].added = {}
        /\ \A q \in Monitors \ {p} : UNCHANGED <<pc[q], run[q]>>
    BY <1>6, <1>a DEF Notify
  <2>2. \A q \in Monitors \ {p} : pc[q] = "idle"
    BY <2>1 DEF ToldInv, OneRun
  <2>3. UNCHANGED snapshot /\ told' \subseteq told \cup run[p].added
    BY <1>6 DEF Notify, documents
  <2> QED
    BY <1>0, <2>1, <2>2, <2>3 DEF ToldInv, ToldOf
<1>7. ASSUME NEW p \in Monitors, Failure(p) PROVE ToldInv'
  <2>1. CASE RunBlocked(p)
    BY <1>0, <2>1 DEF ToldInv, ToldOf, RunBlocked, vars, documents, observed
  <2>2. CASE LoadSessionFails(p) \/ Crash(p)
    BY <1>b, <2>2, <1>a DEF LoadSessionFails, Crash, documents, observed
  <2>3. CASE LoadSnapshotFails(p)
    BY <1>0, <2>3, <1>a DEF ToldInv, ToldOf, LoadSnapshotFails, documents, observed
  <2> QED
    BY <1>7, <2>1, <2>2, <2>3 DEF Failure
<1>8. ASSUME UNCHANGED <<pc, run, snapshot, told>> PROVE ToldInv'
  BY <1>0, <1>8 DEF ToldInv, ToldOf
<1> QED
  BY <1>1, <1>2, <1>3, <1>4, <1>5, <1>6, <1>7, <1>8 DEF Next, Step, RefreshStep,
     StartRefresh, RefreshSave, RefreshReady, RefreshCrash, ChangeAvailability, EditCentres,
     SessionExpires, Tick, Stabilise, documents, observed, vars

\* ToldInv holds in every reachable state.
LEMMA ToldCorrect ==
  ASSUME ConcurrencyGroup
  PROVE  Spec => []ToldInv
<1>1. Init => ToldInv
  BY DEF Init, ToldInv, ToldOf, OneRun, NoRun
<1>2. TypeOK /\ ToldInv /\ [Next]_vars => ToldInv'
  BY ToldInductive
<1> QED
  BY <1>1, <1>2, TypeCorrect, PTL DEF Spec

\* With one monitor run at a time, what is about to be announced as new has not
\* been announced since it was last absent from the stored snapshot.
THEOREM ToldOnce ==
  ASSUME ConcurrencyGroup
  PROVE  Spec => []NothingToldTwice
<1>1. ToldInv => NothingToldTwice
  BY DEF ToldInv, ToldOf, NothingToldTwice
<1> QED
  BY <1>1, ToldCorrect, PTL

-----------------------------------------------------------------------------
(* A refused login is not used again.  AUTH_REQUIRED is written together with *)
(* the refusal, and the gate keeps the login shut away until refresh-session  *)
(* has stored a younger one; this needs that refresh-session is not run       *)
(* beside a monitor run, or the run would write its jar over the new login.   *)

Using == {"departments", "read", "persist", "record"}

RefreshAlone ==
    refresh.pc # "idle" => /\ Idle
                           /\ refresh.login = logins
                           /\ refresh.login \notin spent

LoginsAreOld == session.login <= logins /\ \A g \in spent : g <= logins

RefusedIsShutAway ==
    /\ session.login \in spent => state.status = "AUTH_REQUIRED"
    /\ refresh.pc = "ready" => session.login = refresh.login

RunsUseTheStored ==
    \A p \in Monitors :
        /\ pc[p] \in Using \cup {"session"} => session.login \notin spent
        /\ pc[p] \in Using => run[p].login = session.login

RefusedInv ==
    OneRun /\ RefreshAlone /\ LoginsAreOld /\ RefusedIsShutAway /\ RunsUseTheStored

\* A run that goes on to use the stored session takes over its login.
LEMMA LoginTaken ==
  ASSUME TypeOK, NEW p \in Monitors, LoadSession(p)
  PROVE  pc'[p] = "departments" => run'[p].login = session.login
<1>1. run[p] \in RunLocals
  BY DEF TypeOK
<1>2. \A l \in RunLocals : \A login, jar :
         [l EXCEPT !.login = login, !.jar = jar, !.last = jar].login = login
  BY DEF RunLocals
<1>3. CASE Goto(p, "expired")
  BY <1>3 DEF Goto, TypeOK
<1>4. CASE Set(p, [run[p] EXCEPT !.login = session.login,
                     !.jar = session.jar, !.last = session.jar])
  <2>1. run'[p] = [run[p] EXCEPT !.login = session.login,
                     !.jar = session.jar, !.last = session.jar]
    BY <1>4 DEF Set, TypeOK
  <2>2. [run[p] EXCEPT !.login = session.login,
           !.jar = session.jar, !.last = session.jar].login = session.login
    BY <1>1, <1>2, Zenon
  <2> QED
    BY <2>1, <2>2, Zenon
<1> QED
  BY <1>3, <1>4 DEF LoadSession

\* Requests and the writes after them leave the run's login alone.
LEMMA LoginStays ==
  ASSUME TypeOK, NEW p \in Monitors,
         ReadDepartments(p) \/ ReadCentre(p) \/ PersistJar(p)
  PROVE  run'[p].login = run[p].login
<1>a. run \in [Monitors -> RunLocals] /\ run[p] \in RunLocals
  BY DEF TypeOK
<1>1. CASE ReadDepartments(p)
  <2>1. PICK jar \in Jars(run[p]) :
          \/ run'[p] = [run[p] EXCEPT !.jar = jar, !.todo = run[p].asked]
          \/ \E kind : run'[p] = [run[p] EXCEPT !.jar = jar, !.kinds = {kind}]
    BY <1>a, <1>1 DEF ReadDepartments, Set
  <2> QED
    BY <1>a, <2>1 DEF RunLocals
<1>2. CASE ReadCentre(p)
  <2>1. PICK centre \in run[p].todo, jar \in Jars(run[p]) :
          LET l == [run[p] EXCEPT !.jar = jar, !.todo = @ \ {centre}] IN
          \/ Set(p, [l EXCEPT !.slots = @ \cup (avail \cap Of({centre}))])
          \/ \E kinds \in Failures : Set(p, [l EXCEPT !.kinds = @ \cup kinds])
    BY <1>2 DEF ReadCentre
  <2> DEFINE l == [run[p] EXCEPT !.jar = jar, !.todo = run[p].todo \ {centre}]
  <2>2. l.login = run[p].login /\ DOMAIN l = DOMAIN run[p]
    BY <1>a DEF RunLocals
  <2>3. \/ run'[p] = [l EXCEPT !.slots = l.slots \cup (avail \cap Of({centre}))]
        \/ \E kinds \in Failures : run'[p] = [l EXCEPT !.kinds = l.kinds \cup kinds]
    BY <1>a, <2>1 DEF Set
  <2>4. "login" \in DOMAIN run[p]
    BY <1>a DEF RunLocals
  <2> HIDE DEF l
  <2> QED
    BY <2>2, <2>3, <2>4
<1>3. CASE PersistJar(p)
  <2>1. run' = run \/ \E r : run'[p] = PersisterAfter(run[p], r)
    BY <1>3, <1>a DEF PersistJar, Set
  <2> QED
    BY <1>a, <2>1 DEF PersisterAfter, RunLocals
<1> QED
  BY <1>1, <1>2, <1>3

\* The inductive step of the refused logins.
LEMMA RefusedInductive ==
  ASSUME ConcurrencyGroup, ~RefreshOverlaps, TypeOK, RefusedInv, [Next]_vars
  PROVE  RefusedInv'
<1>0. OneRun'
  BY OneRunInductive DEF RefusedInv
<1> USE DEF Goto, Set, Finish, Idle, Using, RefusedInv, RefreshAlone,
            LoginsAreOld, RefusedIsShutAway, RunsUseTheStored
<1>a. /\ pc \in [Monitors -> PCs]
      /\ run \in [Monitors -> RunLocals]
      /\ logins \in Nat /\ session.login \in Nat /\ spent \subseteq Nat
      /\ session \in SessionDoc /\ state \in StateDoc
  BY BoundsAssumption DEF TypeOK, Login, SessionDoc
<1>1. ASSUME NEW p \in Monitors, LoadState(p) PROVE RefusedInv'
  <2>1. /\ UNCHANGED <<session, state, refresh, logins, spent>>
        /\ Idle /\ refresh.pc = "idle" /\ state.status # "AUTH_REQUIRED"
    BY <1>1 DEF LoadState, Blocked, documents, refreshing, observed
  <2>2. /\ pc'[p] = "session"
        /\ \A q \in Monitors \ {p} : UNCHANGED <<pc[q], run[q]>>
    BY <1>1, <1>a DEF LoadState
  <2> QED
    BY <1>0, <2>1, <2>2
<1>2. ASSUME NEW p \in Monitors, LoadSession(p) PROVE RefusedInv'
  <2>1. pc'[p] = "departments" => run'[p].login = session.login
    BY <1>2, LoginTaken
  <2>2. /\ pc[p] = "session" /\ pc'[p] \in {"expired", "departments"}
        /\ \A q \in Monitors \ {p} : UNCHANGED <<pc[q], run[q]>>
    BY <1>2, <1>a DEF LoadSession
  <2> QED
    BY <1>0, <1>2, <2>1, <2>2 DEF LoadSession, documents, refreshing, observed
<1>3. ASSUME NEW p \in Monitors,
             ReadDepartments(p) \/ ReadCentre(p) \/ PersistJar(p)
      PROVE  RefusedInv'
  <2>1. run'[p].login = run[p].login
    BY <1>3, LoginStays
  <2>2. pc[p] \in Using /\ pc'[p] \in Using
    BY <1>3, <1>a DEF ReadDepartments, ReadCentre, PersistJar
  <2>3. session'.login = session.login
    <3>1. session' = session \/ session' = Sealed(run[p].login, run[p].jar)
      BY <1>3 DEF ReadDepartments, ReadCentre, PersistJar, documents
    <3>2. Sealed(run[p].login, run[p].jar).login = run[p].login
      BY DEF Sealed
    <3> QED
      BY <2>2, <3>1, <3>2
  <2>4. /\ UNCHANGED <<state, refresh, logins, spent>>
        /\ \A q \in Monitors \ {p} : UNCHANGED <<pc[q], run[q]>>
    BY <1>3, <1>a DEF ReadDepartments, ReadCentre, PersistJar, documents,
       refreshing, observed
  <2>5. refresh.pc = "idle"
    BY <2>2
  <2> QED
    BY <1>0, <2>1, <2>2, <2>3, <2>4, <2>5
<1>4. ASSUME NEW p \in Monitors, RecordAuthRequired(p) PROVE RefusedInv'
  <2>1. UNCHANGED state \/ state'.status = "AUTH_REQUIRED"
    BY <1>4 DEF RecordAuthRequired, StateOf
  <2>2. /\ UNCHANGED <<session, refresh, logins, spent>>
        /\ pc[p] = "expired" /\ pc'[p] = "notify"
        /\ \A q \in Monitors \ {p} : UNCHANGED <<pc[q], run[q]>>
    BY <1>4, <1>a DEF RecordAuthRequired, refreshing
  <2> QED
    BY <1>0, <2>1, <2>2
<1>5. ASSUME NEW p \in Monitors, RecordScan(p) PROVE RefusedInv'
  <2>1. /\ UNCHANGED <<session, refresh, logins>>
        /\ pc[p] = "record" /\ pc'[p] \in {"compare", "notify"}
        /\ \A q \in Monitors \ {p} : UNCHANGED <<pc[q], run[q]>>
    BY <1>5, <1>a DEF RecordScan, refreshing
  <2>2. \/ spent' = spent
        \/ /\ spent' = spent \cup {run[p].login}
           /\ state'.status = "AUTH_REQUIRED"
    <3>1. "auth" \in run[p].kinds => Classify(run[p].kinds) = "AUTH_REQUIRED"
      BY DEF Classify
    <3>2. \/ UNCHANGED spent
          \/ /\ state' = StateOf(Classify(run[p].kinds))
             /\ spent' = IF "auth" \in run[p].kinds
                            THEN spent \cup {run[p].login} ELSE spent
      BY <1>5 DEF RecordScan
    <3> QED
      BY <3>1, <3>2 DEF StateOf
  <2>3. /\ run[p].login = session.login /\ session.login \notin spent
        /\ refresh.pc = "idle"
        /\ \A q \in Monitors \ {p} : pc[q] = "idle"
    BY <2>1 DEF OneRun
  <2> QED
    BY <1>0, <2>1, <2>2, <2>3
<1>6. ASSUME NEW p \in Monitors,
             LoadSnapshot(p) \/ SaveSnapshot(p) \/ Notify(p) \/ Failure(p)
      PROVE  RefusedInv'
  <2>1. UNCHANGED <<session, state, refresh, logins, spent>>
    BY <1>6 DEF LoadSnapshot, SaveSnapshot, Notify, Failure, RunBlocked,
       LoadSessionFails, LoadSnapshotFails, Crash, documents, refreshing,
       observed, vars
  <2>2. /\ \A q \in Monitors \ {p} : UNCHANGED <<pc[q], run[q]>>
        /\ \/ UNCHANGED <<pc, run>>
           \/ pc[p] # "idle" /\ pc'[p] \notin Using \cup {"session"}
    BY <1>6, <1>a DEF LoadSnapshot, SaveSnapshot, Notify, Failure, RunBlocked,
       LoadSessionFails, LoadSnapshotFails, Crash, vars
  <2> QED
    BY <1>0, <2>1, <2>2
<1>7. CASE StartRefresh
  BY <1>0, <1>7, <1>a DEF StartRefresh, documents, observed
<1>8. CASE RefreshSave
  <2>1. refresh.pc = "save" /\ UNCHANGED <<state, pc, run, logins, spent>>
    BY <1>8 DEF RefreshSave, observed
  <2>2. PICK r \in WriteOutcomes :
          /\ session' = IF Applied(r) THEN Sealed(refresh.login, 0) ELSE session
          /\ IF r = "ok" THEN refresh' = [refresh EXCEPT !.pc = "ready"]
                         ELSE EndRefresh
    BY <1>8 DEF RefreshSave
  <2>3. session'.login = session.login \/ session'.login = refresh.login
    BY <2>2 DEF Sealed
  <2>4. \/ refresh'.pc = "idle"
        \/ /\ refresh'.pc = "ready" /\ refresh'.login = refresh.login
           /\ session'.login = refresh.login
    BY <2>2 DEF Sealed, Applied, EndRefresh, TypeOK
  <2> QED
    BY <1>0, <1>a, <2>1, <2>3, <2>4
<1>9. CASE RefreshReady
  <2>1. /\ refresh.pc = "ready" /\ refresh'.pc = "idle"
        /\ UNCHANGED <<session, pc, run, logins, spent>>
    BY <1>9 DEF RefreshReady, EndRefresh
  <2> QED
    BY <1>0, <2>1
<1>10. CASE RefreshCrash
  <2>1. /\ refresh'.pc = "idle"
        /\ UNCHANGED <<session, state, pc, run, logins, spent>>
    BY <1>10 DEF RefreshCrash, EndRefresh, documents, observed
  <2> QED
    BY <1>0, <2>1
<1>11. ASSUME UNCHANGED <<pc, run, refresh, logins, spent>>,
              session'.login = session.login, state'.status = state.status
       PROVE  RefusedInv'
  BY <1>0, <1>11
<1>12. CASE SessionExpires
  BY <1>11, <1>12, <1>a DEF SessionExpires, SessionDoc, refreshing, observed
<1>13. CASE Tick
  BY <1>11, <1>13, <1>a DEF Tick, StateDoc, refreshing, observed
<1>14. CASE ChangeAvailability \/ EditCentres \/ Stabilise \/ UNCHANGED vars
  BY <1>11, <1>14 DEF ChangeAvailability, EditCentres, Stabilise, documents, refreshing,
     observed, vars
<1> QED
  BY <1>1, <1>2, <1>3, <1>4, <1>5, <1>6, <1>7, <1>8, <1>9, <1>10, <1>12, <1>13,
     <1>14 DEF Next, Step, RefreshStep

\* A login HSC has refused, in a run that wrote a state, is never used for
\* another request: when neither runs nor refresh-session overlap.
THEOREM RefusedLoginStaysUnused ==
  ASSUME ConcurrencyGroup, ~RefreshOverlaps
  PROVE  Spec => []RefusedLoginNotReused
<1>1. Init => RefusedInv
  BY DEF Init, RefusedInv, OneRun, RefreshAlone, LoginsAreOld,
     RefusedIsShutAway, RunsUseTheStored, Using
<1>2. TypeOK /\ RefusedInv /\ [Next]_vars => RefusedInv'
  BY RefusedInductive
<1>3. RefusedInv => RefusedLoginNotReused
  BY DEF RefusedInv, RunsUseTheStored, RefusedLoginNotReused, Using
<1> QED
  BY <1>1, <1>2, <1>3, TypeCorrect, PTL DEF Spec

-----------------------------------------------------------------------------
(* A quiet scan was written back.  SessionPersister remembers the jar it last *)
(* wrote; while it is not degraded that is the jar in the store, provided     *)
(* nobody else writes one: neither a second run nor a refresh-session.        *)

Holding == {"departments", "persist", "read", "record", "compare", "save"}
Written == {"read", "record", "compare", "save"}

JarOf(p) ==
    pc[p] \in Holding =>
        /\ run[p].login = session.login
        /\ ~run[p].degraded => session.jar = run[p].last
        /\ pc[p] \in Written /\ ~run[p].degraded => run[p].jar = run[p].last

JarInv == \A p \in Monitors : JarOf(p)

\* What a process holds of the session, and of the states it has seen.
Kept(l) == <<l.login, l.last, l.degraded, l.prev>>

\* No request changes what is known of the store.
LEMMA RequestKeeps ==
  ASSUME TypeOK, NEW p \in Monitors, ReadDepartments(p) \/ ReadCentre(p)
  PROVE  Kept(run'[p]) = Kept(run[p])
<1>1. run \in [Monitors -> RunLocals] /\ run[p] \in RunLocals
  BY DEF TypeOK
<1>2. CASE ReadDepartments(p)
  <2>1. PICK jar \in Jars(run[p]) :
          \/ run'[p] = [run[p] EXCEPT !.jar = jar, !.todo = run[p].asked]
          \/ \E kind : run'[p] = [run[p] EXCEPT !.jar = jar, !.kinds = {kind}]
    BY <1>1, <1>2 DEF ReadDepartments, Set
  <2> QED
    BY <1>1, <2>1 DEF RunLocals, Kept
<1>3. CASE ReadCentre(p)
  <2>1. PICK centre \in run[p].todo, jar \in Jars(run[p]) :
          LET l == [run[p] EXCEPT !.jar = jar, !.todo = @ \ {centre}] IN
          \/ Set(p, [l EXCEPT !.slots = @ \cup (avail \cap Of({centre}))])
          \/ \E kinds \in Failures : Set(p, [l EXCEPT !.kinds = @ \cup kinds])
    BY <1>3 DEF ReadCentre
  <2> DEFINE l == [run[p] EXCEPT !.jar = jar, !.todo = run[p].todo \ {centre}]
  <2>2. Kept(l) = Kept(run[p]) /\ DOMAIN l = DOMAIN run[p]
    BY <1>1 DEF RunLocals, Kept
  <2>3. {"login", "last", "degraded", "prev"} \subseteq DOMAIN run[p]
    BY <1>1 DEF RunLocals
  <2>4. \/ run'[p] = [l EXCEPT !.slots = l.slots \cup (avail \cap Of({centre}))]
        \/ \E kinds \in Failures : run'[p] = [l EXCEPT !.kinds = l.kinds \cup kinds]
    BY <1>1, <2>1 DEF Set
  <2> HIDE DEF l
  <2>5. Kept(run'[p]) = Kept(l)
    BY <2>2, <2>3, <2>4 DEF Kept
  <2> QED
    BY <2>2, <2>5
<1> QED
  BY <1>2, <1>3

\* What the write of the jar makes of it.
LEMMA PersistJarIs ==
  ASSUME TypeOK, NEW p \in Monitors, PersistJar(p)
  PROVE  /\ run'[p].login = run[p].login /\ run'[p].jar = run[p].jar
         /\ run'[p].prev = run[p].prev
         /\ \/ /\ UNCHANGED session /\ run'[p] = run[p] /\ run[p].jar = run[p].last
            \/ /\ session' = Sealed(run[p].login, run[p].jar)
               /\ run'[p].last = run[p].jar /\ ~run'[p].degraded
            \/ /\ session' \in {session, Sealed(run[p].login, run[p].jar)}
               /\ run'[p].degraded
<1>1. run \in [Monitors -> RunLocals] /\ run[p] \in RunLocals
  BY DEF TypeOK
<1>2. CASE run[p].jar = run[p].last /\ UNCHANGED <<session, run>>
  BY <1>2
<1>3. CASE \E r \in WriteOutcomes :
             /\ session' = IF Applied(r) THEN Sealed(run[p].login, run[p].jar) ELSE session
             /\ Set(p, PersisterAfter(run[p], r))
  <2>1. PICK r \in WriteOutcomes :
          /\ session' = IF Applied(r) THEN Sealed(run[p].login, run[p].jar) ELSE session
          /\ run'[p] = PersisterAfter(run[p], r)
    BY <1>1, <1>3 DEF Set
  <2>2. CASE r = "ok"
    BY <1>1, <2>1, <2>2 DEF PersisterAfter, Applied, RunLocals
  <2>3. CASE r # "ok"
    BY <1>1, <2>1, <2>3 DEF PersisterAfter, RunLocals
  <2> QED
    BY <2>2, <2>3
<1> QED
  BY <1>2, <1>3 DEF PersistJar

\* A run that goes on to use the stored session has its jar.
LEMMA JarTaken ==
  ASSUME TypeOK, NEW p \in Monitors, LoadSession(p)
  PROVE  /\ run'[p].prev = run[p].prev
         /\ pc'[p] = "departments" => /\ run'[p].login = session.login
                                      /\ run'[p].jar = session.jar
                                      /\ run'[p].last = session.jar
<1>1. run \in [Monitors -> RunLocals] /\ run[p] \in RunLocals
  BY DEF TypeOK
<1>2. CASE Goto(p, "expired") /\ UNCHANGED run
  BY <1>2 DEF Goto, TypeOK
<1>3. CASE Set(p, [run[p] EXCEPT !.login = session.login,
                     !.jar = session.jar, !.last = session.jar])
  <2>1. run'[p] = [run[p] EXCEPT !.login = session.login,
                     !.jar = session.jar, !.last = session.jar]
    BY <1>1, <1>3 DEF Set
  <2> QED
    BY <1>1, <2>1 DEF RunLocals
<1> QED
  BY <1>2, <1>3 DEF LoadSession

\* What the later steps of a run leave of its locals.
LEMMA VerdictKeeps ==
  ASSUME TypeOK, NEW p \in Monitors,
         RecordScan(p) \/ LoadSnapshot(p) \/ SaveSnapshot(p) \/ LoadSnapshotFails(p)
  PROVE  /\ Kept(run'[p]) = Kept(run[p]) /\ run'[p].jar = run[p].jar
         /\ ~RecordScan(p) => run'[p].event = run[p].event
<1>1. run \in [Monitors -> RunLocals] /\ run[p] \in RunLocals
  BY DEF TypeOK
<1>2. CASE RecordScan(p)
  <2>1. \E event : run'[p] = [run[p] EXCEPT !.event = event]
    BY <1>1, <1>2 DEF RecordScan, Set
  <2> QED
    BY <1>1, <1>2, <2>1 DEF RunLocals, Kept
<1>3. CASE LoadSnapshot(p)
  <2>1. \E added, removed, baselined :
           run'[p] = [run[p] EXCEPT !.added = added, !.removed = removed,
                                    !.baselined = baselined]
    BY <1>1, <1>3 DEF LoadSnapshot, Set
  <2> QED
    BY <1>1, <2>1 DEF RunLocals, Kept
<1>4. CASE SaveSnapshot(p)
  <2>1. PICK r \in WriteOutcomes :
           run'[p] = [run[p] EXCEPT
                        !.added = AnnounceIfSaved(run[p].added, r),
                        !.removed = AnnounceIfSaved(run[p].removed, r),
                        !.baselined = AnnounceIfSaved(run[p].baselined, r)]
    BY <1>1, <1>4 DEF SaveSnapshot, Set
  <2> QED
    BY <1>1, <2>1 DEF RunLocals, Kept
<1>5. CASE LoadSnapshotFails(p)
  BY <1>5 DEF LoadSnapshotFails
<1> QED
  BY <1>2, <1>3, <1>4, <1>5

LEMMA JarInductive ==
  ASSUME ConcurrencyGroup, ~RefreshOverlaps, TypeOK, RefusedInv, JarInv, [Next]_vars
  PROVE  JarInv'
<1> USE DEF Holding, Written
<1>0. pc \in [Monitors -> PCs] /\ run \in [Monitors -> RunLocals] /\ session \in SessionDoc
  BY DEF TypeOK
\* With one run at a time it is enough to look at the one that moves.
<1>a. ASSUME NEW p \in Monitors, JarOf(p)', pc[p] # "idle",
             \A q \in Monitors \ {p} : UNCHANGED <<pc[q], run[q]>>
      PROVE  JarInv'
  <2>1. \A q \in Monitors \ {p} : pc'[q] = "idle"
    BY <1>a DEF RefusedInv, OneRun
  <2>2. \A q \in Monitors \ {p} : JarOf(q)'
    BY <2>1 DEF JarOf
  <2> QED
    BY <1>a, <2>2 DEF JarInv
<1>b. ASSUME NEW p \in Monitors, pc'[p] \notin Holding, UNCHANGED session,
             \A q \in Monitors \ {p} : UNCHANGED <<pc[q], run[q]>>
      PROVE  JarInv'
  BY <1>b DEF JarInv, JarOf
<1>1. ASSUME NEW p \in Monitors, LoadState(p) PROVE JarInv'
  BY <1>0, <1>1, <1>b DEF LoadState, Goto, Set, documents
<1>2. ASSUME NEW p \in Monitors, LoadSession(p) PROVE JarInv'
  <2>1. /\ pc[p] = "session" /\ pc'[p] \in {"expired", "departments"} /\ UNCHANGED session
        /\ \A q \in Monitors \ {p} : UNCHANGED <<pc[q], run[q]>>
    BY <1>0, <1>2 DEF LoadSession, Goto, Set, documents
  <2>2. JarOf(p)'
    BY <1>2, <2>1, JarTaken DEF JarOf
  <2> QED
    BY <1>a, <2>1, <2>2
<1>3. ASSUME NEW p \in Monitors, RecordAuthRequired(p) PROVE JarInv'
  BY <1>0, <1>3, <1>b DEF RecordAuthRequired, Goto, Set
<1>4. ASSUME NEW p \in Monitors, ReadDepartments(p) \/ ReadCentre(p) PROVE JarInv'
  <2>1. /\ pc[p] \in {"departments", "read"} /\ pc'[p] = "persist" /\ UNCHANGED session
        /\ \A q \in Monitors \ {p} : UNCHANGED <<pc[q], run[q]>>
    BY <1>0, <1>4 DEF ReadDepartments, ReadCentre, Goto, Set, documents
  <2>2. /\ run'[p].login = run[p].login /\ run'[p].last = run[p].last
        /\ run'[p].degraded = run[p].degraded
    BY <1>4, RequestKeeps DEF Kept
  <2>3. JarOf(p)'
    BY <2>1, <2>2 DEF JarInv, JarOf
  <2> QED
    BY <1>a, <2>1, <2>3
<1>5. ASSUME NEW p \in Monitors, PersistJar(p) PROVE JarInv'
  <2>1. /\ pc[p] = "persist" /\ pc'[p] \in {"record", "read"}
        /\ \A q \in Monitors \ {p} : UNCHANGED <<pc[q], run[q]>>
    BY <1>0, <1>5 DEF PersistJar, Goto, Set
  <2>2. /\ Sealed(run[p].login, run[p].jar).login = run[p].login
        /\ Sealed(run[p].login, run[p].jar).jar = run[p].jar
    BY DEF Sealed
  <2>3. JarOf(p)'
    BY <1>5, <2>1, <2>2, PersistJarIs DEF JarInv, JarOf
  <2> QED
    BY <1>a, <2>1, <2>3
<1>6. ASSUME NEW p \in Monitors, RecordScan(p) \/ LoadSnapshot(p) PROVE JarInv'
  <2>1. /\ pc[p] \in {"record", "compare"} /\ pc'[p] \in {"compare", "notify", "save"}
        /\ UNCHANGED session
        /\ \A q \in Monitors \ {p} : UNCHANGED <<pc[q], run[q]>>
    BY <1>0, <1>6 DEF RecordScan, LoadSnapshot, Goto, Set, documents
  <2>2. /\ run'[p].login = run[p].login /\ run'[p].last = run[p].last
        /\ run'[p].degraded = run[p].degraded /\ run'[p].jar = run[p].jar
    BY <1>6, VerdictKeeps DEF Kept
  <2>3. JarOf(p)'
    BY <2>1, <2>2 DEF JarInv, JarOf
  <2> QED
    BY <1>a, <2>1, <2>3
<1>7. ASSUME NEW p \in Monitors, SaveSnapshot(p) \/ Notify(p) \/ Failure(p) PROVE JarInv'
  <2>1. CASE RunBlocked(p)
    BY <2>1 DEF RunBlocked, vars, documents, JarInv, JarOf
  <2>2. CASE ~RunBlocked(p)
    <3>1. /\ pc'[p] \in {"notify", "idle"} /\ UNCHANGED session
          /\ \A q \in Monitors \ {p} : UNCHANGED <<pc[q], run[q]>>
      BY <1>0, <1>7, <2>2 DEF SaveSnapshot, Notify, Failure, LoadSessionFails,
         LoadSnapshotFails, Crash, Finish, Goto, Set, documents
    <3> QED
      BY <1>b, <3>1
  <2> QED
    BY <2>1, <2>2
\* A refresh-session writes only when no run holds a session.
<1>8. CASE RefreshSave
  <2>1. UNCHANGED <<pc, run>> /\ \A p \in Monitors : pc[p] = "idle"
    BY <1>8 DEF RefreshSave, RefusedInv, RefreshAlone, Idle
  <2> QED
    BY <2>1 DEF JarInv, JarOf
<1>9. ASSUME UNCHANGED <<pc, run>>, session'.login = session.login, session'.jar = session.jar
      PROVE  JarInv'
  BY <1>9 DEF JarInv, JarOf
<1>10. CASE SessionExpires
  BY <1>0, <1>9, <1>10 DEF SessionExpires, SessionDoc
<1>11. CASE \/ StartRefresh \/ RefreshReady \/ RefreshCrash \/ ChangeAvailability
            \/ EditCentres \/ Tick
            \/ Stabilise \/ UNCHANGED vars
  BY <1>9, <1>11 DEF StartRefresh, RefreshReady, RefreshCrash, ChangeAvailability, EditCentres, Tick,
     Stabilise, documents, vars
<1> QED
  BY <1>1, <1>2, <1>3, <1>4, <1>5, <1>6, <1>7, <1>8, <1>10, <1>11
     DEF Next, Step, RefreshStep

\* When a scan ends without the note that its session could not be written
\* back, the stored session is the very jar the scan ended with, through every
\* rotation and every lost or unanswered write: when neither runs nor
\* refresh-session overlap.
THEOREM QuietIsWrittenBack ==
  ASSUME ConcurrencyGroup, ~RefreshOverlaps
  PROVE  Spec => []QuietMeansWrittenBack
<1>1. Init => RefusedInv /\ JarInv
  BY DEF Init, RefusedInv, OneRun, RefreshAlone, LoginsAreOld,
     RefusedIsShutAway, RunsUseTheStored, Using, JarInv, JarOf, Holding
<1>2. TypeOK /\ RefusedInv /\ [Next]_vars => RefusedInv'
  BY RefusedInductive
<1>3. TypeOK /\ RefusedInv /\ JarInv /\ [Next]_vars => JarInv'
  BY JarInductive
<1>4. JarInv => QuietMeansWrittenBack
  BY DEF JarInv, JarOf, QuietMeansWrittenBack, Holding, Written
<1> QED
  BY <1>1, <1>2, <1>3, <1>4, TypeCorrect, PTL DEF Spec

-----------------------------------------------------------------------------
(* A status is notified once.  The status last notified, for as long as it is *)
(* persisted, is the stored one, so a run that starts now reads it at the     *)
(* gate; and what ends it in the meantime can only make the news newer.       *)

AlertOf(p) ==
    /\ pc[p] \in BeforeVerdict => alert \in {NoStatus, run[p].prev}
    /\ pc[p] \in {"compare", "save", "notify"} /\ run[p].event \notin {NoStatus, "READY"} =>
          run[p].event # alert

AlertInv ==
    /\ OneRun
    /\ alert \in {NoStatus, state.status}
    /\ \A p \in Monitors : AlertOf(p)

\* The event of a verdict is news to whoever has read the state at the gate.
LEMMA EventIsNews ==
  ASSUME NEW status \in Statuses, NEW prev, alert \in {NoStatus, prev},
         ObserveStatus(status) \/ UNCHANGED alert, NEW r
  PROVE  EventOf(prev, status, r) \notin {NoStatus, "READY"} =>
            EventOf(prev, status, r) # alert'
BY DEF EventOf, ObserveStatus, Statuses, NoStatus

LEMMA AlertInductive ==
  ASSUME ConcurrencyGroup, TypeOK, AlertInv, [Next]_vars
  PROVE  AlertInv'
<1> USE DEF BeforeVerdict
<1>0. OneRun' /\ pc \in [Monitors -> PCs] /\ run \in [Monitors -> RunLocals]
  BY OneRunInductive DEF AlertInv, TypeOK
<1>a. ASSUME NEW p \in Monitors, AlertOf(p)', pc[p] # "idle",
             \A q \in Monitors \ {p} : UNCHANGED <<pc[q], run[q]>>,
             alert' \in {NoStatus, state'.status}
      PROVE  AlertInv'
  <2>1. \A q \in Monitors \ {p} : pc'[q] = "idle"
    BY <1>a DEF AlertInv, OneRun
  <2>2. \A q \in Monitors \ {p} : AlertOf(q)'
    BY <2>1 DEF AlertOf
  <2> QED
    BY <1>0, <1>a, <2>2 DEF AlertInv
<1>1. ASSUME NEW p \in Monitors, LoadState(p) PROVE AlertInv'
  <2>1. /\ pc'[p] = "session" /\ UNCHANGED <<state, alert>>
        /\ \A q \in Monitors \ {p} : UNCHANGED <<pc[q], run[q]>>
    BY <1>0, <1>1 DEF LoadState, Goto, Set, documents, observed
  <2>2. run'[p].prev = state.status
    BY <1>0, <1>1 DEF LoadState, Set, NoRun
  <2>3. AlertOf(p)'
    BY <2>1, <2>2 DEF AlertInv, AlertOf
  <2>4. \A q \in Monitors \ {p} : AlertOf(q)'
    BY <2>1 DEF AlertInv, AlertOf
  <2> QED
    BY <1>0, <2>1, <2>3, <2>4 DEF AlertInv
<1>2. ASSUME NEW p \in Monitors,
             LoadSession(p) \/ ReadDepartments(p) \/ ReadCentre(p) \/ PersistJar(p)
      PROVE  AlertInv'
  <2>1. /\ pc[p] \in BeforeVerdict /\ pc'[p] \in BeforeVerdict /\ UNCHANGED <<state, alert>>
        /\ \A q \in Monitors \ {p} : UNCHANGED <<pc[q], run[q]>>
    BY <1>0, <1>2 DEF LoadSession, ReadDepartments, ReadCentre, PersistJar, Goto, Set,
       documents, observed
  <2>2. run'[p].prev = run[p].prev
    BY <1>2, JarTaken, RequestKeeps, PersistJarIs DEF Kept
  <2>3. AlertOf(p)'
    BY <2>1, <2>2 DEF AlertInv, AlertOf
  <2> QED
    BY <1>a, <2>1, <2>3 DEF AlertInv
<1>3. ASSUME NEW p \in Monitors, RecordAuthRequired(p) \/ RecordScan(p) PROVE AlertInv'
  <2>1. /\ pc[p] \in {"expired", "record"} /\ pc'[p] \in {"compare", "notify"}
        /\ \A q \in Monitors \ {p} : UNCHANGED <<pc[q], run[q]>>
    BY <1>0, <1>3 DEF RecordAuthRequired, RecordScan, Goto, Set
  <2>2. PICK status \in Statuses, r \in WriteOutcomes :
          /\ \/ state' = StateOf(status) /\ ObserveStatus(status)
             \/ UNCHANGED <<state, alert>>
          /\ run'[p] = [run[p] EXCEPT !.event = EventOf(run[p].prev, status, r)]
    <3>1. "AUTH_REQUIRED" \in Statuses /\ Classify(run[p].kinds) \in Statuses
      BY DEF Statuses, Classify
    <3>2. CASE RecordAuthRequired(p)
      BY <1>0, <3>1, <3>2 DEF RecordAuthRequired, Set
    <3>3. CASE RecordScan(p)
      BY <1>0, <3>1, <3>3 DEF RecordScan, Set
    <3> QED
      BY <1>3, <3>2, <3>3
  <2>3. run'[p].event = EventOf(run[p].prev, status, r)
    BY <1>0, <2>2 DEF RunLocals
  <2>4. alert \in {NoStatus, run[p].prev}
    BY <2>1 DEF AlertInv, AlertOf
  <2>5. AlertOf(p)'
    <3>1. run'[p].event \notin {NoStatus, "READY"} => run'[p].event # alert'
      BY <2>2, <2>3, <2>4, EventIsNews
    <3> QED
      BY <2>1, <3>1 DEF AlertOf
  <2>6. alert' \in {NoStatus, state'.status}
    BY <2>2 DEF AlertInv, ObserveStatus, StateOf
  <2> QED
    BY <1>a, <2>1, <2>5, <2>6
<1>4. ASSUME NEW p \in Monitors, LoadSnapshot(p) \/ SaveSnapshot(p) \/ LoadSnapshotFails(p)
      PROVE  AlertInv'
  <2>1. /\ pc[p] \in {"compare", "save"} /\ pc'[p] \in {"save", "notify"}
        /\ UNCHANGED <<state, alert>>
        /\ \A q \in Monitors \ {p} : UNCHANGED <<pc[q], run[q]>>
    BY <1>0, <1>4 DEF LoadSnapshot, SaveSnapshot, LoadSnapshotFails, Goto, Set, documents,
       observed
  <2>2. run'[p].event = run[p].event
    <3>1. ~RecordScan(p)
      BY <2>1, <1>4 DEF RecordScan, LoadSnapshot, SaveSnapshot, LoadSnapshotFails, Goto
    <3> QED
      BY <1>4, <3>1, VerdictKeeps
  <2>3. AlertOf(p)'
    BY <2>1, <2>2 DEF AlertInv, AlertOf
  <2> QED
    BY <1>a, <2>1, <2>3 DEF AlertInv
<1>5. ASSUME NEW p \in Monitors, Notify(p) PROVE AlertInv'
  <2>1. /\ pc[p] = "notify" /\ pc'[p] = "idle" /\ UNCHANGED state
        /\ \A q \in Monitors \ {p} : UNCHANGED <<pc[q], run[q]>>
    BY <1>0, <1>5 DEF Notify, Finish, Goto, Set, documents
  <2>2. alert' = alert \/ alert' = state.status
    BY <1>5 DEF Notify
  <2>3. AlertOf(p)'
    BY <2>1 DEF AlertOf
  <2> QED
    BY <1>a, <2>1, <2>2, <2>3 DEF AlertInv
<1>6. ASSUME NEW p \in Monitors, RunBlocked(p) \/ LoadSessionFails(p) \/ Crash(p)
      PROVE  AlertInv'
  <2>1. CASE RunBlocked(p)
    BY <1>0, <2>1 DEF RunBlocked, vars, documents, observed, AlertInv, AlertOf
  <2>2. CASE LoadSessionFails(p) \/ Crash(p)
    <3>1. /\ pc[p] # "idle" /\ pc'[p] = "idle" /\ UNCHANGED <<state, alert>>
          /\ \A q \in Monitors \ {p} : UNCHANGED <<pc[q], run[q]>>
      BY <1>0, <2>2 DEF LoadSessionFails, Crash, Finish, Goto, Set, documents, observed
    <3>2. AlertOf(p)'
      BY <3>1 DEF AlertOf
    <3> QED
      BY <1>a, <3>1, <3>2 DEF AlertInv
  <2> QED
    BY <1>6, <2>1, <2>2
\* A refresh-session that ends beside a run ends what was notified.
<1>7. ASSUME UNCHANGED <<pc, run>>, alert' \in {NoStatus, alert},
             alert' \in {NoStatus, state'.status}
      PROVE  AlertInv'
  BY <1>0, <1>7 DEF AlertInv, AlertOf, NoStatus
<1>8. CASE RefreshReady
  BY <1>7, <1>8 DEF RefreshReady, ObserveStatus, StateOf, AlertInv
<1>9. CASE Tick
  <2>1. state'.status = state.status
    BY <1>9 DEF Tick, TypeOK, StateDoc
  <2> QED
    BY <1>7, <1>9, <2>1 DEF Tick, observed, AlertInv
<1>10. CASE \/ StartRefresh \/ RefreshSave \/ RefreshCrash \/ ChangeAvailability \/ EditCentres
            \/ SessionExpires \/ Stabilise \/ UNCHANGED vars
  BY <1>7, <1>10 DEF StartRefresh, RefreshSave, RefreshCrash, ChangeAvailability, EditCentres,
     SessionExpires, Stabilise, documents, observed, vars, AlertInv
<1> QED
  BY <1>1, <1>2, <1>3, <1>4, <1>5, <1>6, <1>8, <1>9, <1>10
     DEF Next, Step, Failure, RefreshStep

\* A status is notified once for as long as it stays persisted, with one
\* monitor run at a time and whatever refresh-session writes beside it.
THEOREM AlertedOnce ==
  ASSUME ConcurrencyGroup
  PROVE  Spec => []AlertNotRepeated
<1>1. Init => AlertInv
  BY DEF Init, AlertInv, AlertOf, OneRun, BeforeVerdict
<1>2. TypeOK /\ AlertInv /\ [Next]_vars => AlertInv'
  BY AlertInductive
<1>3. AlertInv => AlertNotRepeated
  BY DEF AlertInv, AlertOf, AlertNotRepeated
<1> QED
  BY <1>1, <1>2, <1>3, TypeCorrect, PTL DEF Spec

-----------------------------------------------------------------------------
(* Baselines.  A snapshot replaces the one before it whole, so what one run   *)
(* is not for is forgotten, and a baseline again for the next.  A run is for  *)
(* the centres enabled when it starts, and while it reads nobody else         *)
(* replaces the snapshot: then the centres that stay enabled are in every     *)
(* snapshot from their first one on.  A run for centres named with --center,  *)
(* or a second run started under another configuration, would drop them.      *)

BaselineInv ==
    /\ OneRun
    /\ known \subseteq snapshot.centres
    /\ known \subseteq enabled
    /\ \A p \in Monitors : pc[p] # "idle" => known \subseteq run[p].asked

\* A run is asked for the same centres from its start to its end.
LEMMA AskedStays ==
  ASSUME TypeOK, NEW p \in Monitors, Step(p), ~LoadState(p), ~Notify(p)
  PROVE  run'[p].asked = run[p].asked
<1>1. run \in [Monitors -> RunLocals] /\ run[p] \in RunLocals
  BY DEF TypeOK
<1>2. CASE LoadSession(p) \/ ReadDepartments(p) \/ ReadCentre(p) \/ PersistJar(p)
  BY <1>2, LoadSessionGathers, ReadDepartmentsGathers, ReadCentreGathers,
     PersistJarGathers DEF Gathered
<1>3. CASE RecordAuthRequired(p) \/ RecordScan(p)
  <2>1. \E event : run'[p] = [run[p] EXCEPT !.event = event]
    BY <1>1, <1>3 DEF RecordAuthRequired, RecordScan, Set
  <2> QED
    BY <1>1, <2>1 DEF RunLocals
<1>4. CASE LoadSnapshot(p)
  BY <1>1, <1>4 DEF LoadSnapshot, Set, RunLocals
<1>5. CASE SaveSnapshot(p)
  <2>1. PICK r \in WriteOutcomes :
           run'[p] = [run[p] EXCEPT
                        !.added = AnnounceIfSaved(run[p].added, r),
                        !.removed = AnnounceIfSaved(run[p].removed, r),
                        !.baselined = AnnounceIfSaved(run[p].baselined, r)]
    BY <1>1, <1>5 DEF SaveSnapshot, Set
  <2> QED
    BY <1>1, <2>1 DEF RunLocals
<1> QED
  BY <1>2, <1>3, <1>4, <1>5 DEF Step

\* A step of one run leaves the others where they are.
LEMMA OthersStay ==
  ASSUME TypeOK, NEW p \in Monitors, Step(p)
  PROVE  \A q \in Monitors \ {p} : UNCHANGED <<pc[q], run[q]>>
BY DEF TypeOK, Step, LoadState, LoadSession, RecordAuthRequired, ReadDepartments,
   ReadCentre, PersistJar, RecordScan, LoadSnapshot, SaveSnapshot, Notify, Finish,
   Goto, Set

\* Only SaveSnapshot replaces the snapshot, and then it is of what was asked.
LEMMA SnapshotStep ==
  ASSUME NEW p \in Monitors, Step(p)
  PROVE  \/ UNCHANGED <<snapshot, known>>
         \/ /\ snapshot'.centres = run[p].asked
            /\ known' = (known \cup run[p].asked) \cap enabled
<1>1. CASE SaveSnapshot(p)
  <2>1. \/ UNCHANGED <<snapshot, known>>
        \/ /\ snapshot' = SnapshotOf(run[p].asked, run[p].slots)
           /\ known' = (known \cup run[p].asked) \cap enabled
    BY <1>1 DEF SaveSnapshot
  <2> QED
    BY <2>1 DEF SnapshotOf
<1>2. CASE ~SaveSnapshot(p)
  BY <1>2 DEF Step, LoadState, LoadSession, RecordAuthRequired, ReadDepartments,
     ReadCentre, PersistJar, RecordScan, LoadSnapshot, Notify, documents, observed
<1> QED
  BY <1>1, <1>2

\* Nothing but the operator changes what is enabled.
LEMMA EnabledStays ==
  ASSUME NEW p \in Monitors, Step(p) \/ Failure(p)
  PROVE  UNCHANGED enabled
BY DEF Step, LoadState, LoadSession, RecordAuthRequired, ReadDepartments, ReadCentre,
   PersistJar, RecordScan, LoadSnapshot, SaveSnapshot, Notify, Failure, RunBlocked,
   LoadSessionFails, LoadSnapshotFails, Crash, environment, vars

\* The baseline invariant is preserved when runs are one at a time and none is
\* for centres named with --center.
LEMMA BaselineInductive ==
  ASSUME ConcurrencyGroup, ~NamedCentres, TypeOK, BaselineInv, [Next]_vars
  PROVE  BaselineInv'
<1>0. pc \in [Monitors -> PCs] /\ run \in [Monitors -> RunLocals] /\ OneRun
  BY DEF TypeOK, BaselineInv
<1>a. OneRun'
  BY <1>0, OneRunInductive
<1>1. ASSUME NEW p \in Monitors, LoadState(p) PROVE BaselineInv'
  <2>1. run' = [run EXCEPT ![p] =
                   [NoRun EXCEPT !.prev = state.status, !.asked = enabled]]
    BY <1>1 DEF LoadState, Set, Asks
  <2>2. run'[p].asked = enabled
    BY <1>0, <2>1 DEF NoRun
  <2>3. \A q \in Monitors \ {p} : pc'[q] = "idle"
    BY <1>0, <1>1 DEF LoadState, Goto, Idle
  <2>4. UNCHANGED <<snapshot, known, enabled>>
    BY <1>1 DEF LoadState, documents, observed, environment
  <2> QED
    BY <1>a, <2>2, <2>3, <2>4 DEF BaselineInv
<1>2. ASSUME NEW p \in Monitors, Step(p), ~LoadState(p), ~Notify(p) PROVE BaselineInv'
  <2>1. pc[p] # "idle"
    BY <1>2 DEF Step, LoadSession, RecordAuthRequired, ReadDepartments, ReadCentre,
       PersistJar, RecordScan, LoadSnapshot, SaveSnapshot
  <2>2. run'[p].asked = run[p].asked /\ UNCHANGED enabled
    BY <1>2, AskedStays, EnabledStays
  <2>3. \A q \in Monitors \ {p} : pc'[q] = "idle"
    BY <1>0, <1>2, <2>1, OthersStay DEF OneRun
  <2>4. \/ UNCHANGED <<snapshot, known>>
        \/ /\ snapshot'.centres = run[p].asked
           /\ known' = (known \cup run[p].asked) \cap enabled
    BY <1>2, SnapshotStep
  <2>5. known' \subseteq snapshot'.centres /\ known' \subseteq enabled'
        /\ known' \subseteq run'[p].asked
    BY <2>1, <2>2, <2>4 DEF BaselineInv
  <2> QED
    BY <1>a, <2>3, <2>5 DEF BaselineInv
<1>3. ASSUME NEW p \in Monitors, Notify(p) \/ Failure(p) PROVE BaselineInv'
  <2>1. UNCHANGED <<snapshot, known>>
    BY <1>3 DEF Notify, Failure, RunBlocked, LoadSessionFails, LoadSnapshotFails, Crash,
       documents, observed, vars
  <2>2. UNCHANGED enabled
    BY <1>3, EnabledStays DEF Step
  <2>3. \/ UNCHANGED <<pc, run>>
        \/ LoadSnapshotFails(p)
        \/ /\ pc'[p] = "idle" /\ \A q \in Monitors \ {p} : UNCHANGED <<pc[q], run[q]>>
    BY <1>0, <1>3 DEF Notify, Failure, RunBlocked, LoadSessionFails, Crash, Finish, Goto,
       Set, vars
  <2>4. CASE LoadSnapshotFails(p)
    BY <1>0, <1>a, <2>1, <2>2, <2>4 DEF LoadSnapshotFails, Goto, BaselineInv
  <2> QED
    BY <1>a, <2>1, <2>2, <2>3, <2>4 DEF BaselineInv
<1>4. ASSUME UNCHANGED <<pc, run, snapshot>>, known' \subseteq known,
             known' \subseteq enabled'
      PROVE  BaselineInv'
  BY <1>a, <1>4 DEF BaselineInv
<1>5. CASE EditCentres
  BY <1>4, <1>5 DEF EditCentres, documents, BaselineInv
<1>6. CASE ~EditCentres /\ UNCHANGED <<pc, run, snapshot, known, enabled>>
  BY <1>4, <1>6 DEF BaselineInv
<1> QED
  BY <1>1, <1>2, <1>3, <1>5, <1>6 DEF Next, RefreshStep, StartRefresh, RefreshSave,
     RefreshReady, RefreshCrash, ChangeAvailability, SessionExpires, Tick,
     Stabilise, documents, observed, environment, vars

\* One run at a time, each for the centres enabled when it starts: only a centre
\* no persisted snapshot has held since it was enabled is a silent baseline,
\* whatever fails, dies or is lost and however the configuration is edited,
\* beside centres that are known and in the middle of a run too.
THEOREM BaselinedAtFirstSight ==
  ASSUME ConcurrencyGroup, ~NamedCentres
  PROVE  Spec => BaselineOnlyAtFirstSight
<1>1. Init => BaselineInv
  BY DEF Init, BaselineInv, OneRun
<1>2. TypeOK /\ BaselineInv /\ [Next]_vars => BaselineInv'
  BY BaselineInductive
<1>3. ASSUME TypeOK, BaselineInv, [Next]_vars, NEW p \in Monitors,
             pc[p] = "compare", pc'[p] = "save"
      PROVE  run'[p].baselined \cap known = {}
  <2>1. pc \in [Monitors -> PCs] /\ run \in [Monitors -> RunLocals]
    BY <1>3 DEF TypeOK
  <2>2. LoadSnapshot(p)
    <3>1. ASSUME NEW q \in Monitors, Step(q) \/ Failure(q), q # p PROVE FALSE
      BY <1>3, <2>1, <3>1 DEF Step, Failure, LoadState, LoadSession, RecordAuthRequired,
         ReadDepartments, ReadCentre, PersistJar, RecordScan, LoadSnapshot, SaveSnapshot,
         Notify, RunBlocked, LoadSessionFails, LoadSnapshotFails, Crash, Finish, Goto, vars
    <3>2. CASE Step(p) \/ Failure(p)
      BY <1>3, <2>1, <3>2 DEF Step, Failure, LoadState, LoadSession, RecordAuthRequired,
         ReadDepartments, ReadCentre, PersistJar, RecordScan, SaveSnapshot,
         Notify, RunBlocked, LoadSessionFails, LoadSnapshotFails, Crash, Finish, Goto, vars
    <3>3. ASSUME UNCHANGED pc PROVE FALSE
      BY <1>3, <3>3
    <3> QED
      BY <1>3, <3>1, <3>2, <3>3 DEF Next, RefreshStep, StartRefresh, RefreshSave,
         RefreshReady, RefreshCrash, ChangeAvailability, EditCentres, SessionExpires, Tick,
         Stabilise, vars
  <2>3. run'[p].baselined = run[p].asked \ snapshot.centres
    BY <2>1, <2>2 DEF LoadSnapshot, Set, RunLocals
  <2> QED
    BY <1>3, <2>3 DEF BaselineInv
<1>4. TypeOK /\ BaselineInv /\ [Next]_vars =>
         [\A p \in Monitors : pc[p] = "compare" /\ pc'[p] = "save"
             => run'[p].baselined \cap known = {}]_vars
  BY <1>3
<1> QED
  BY <1>1, <1>2, <1>4, TypeCorrect, PTL DEF Spec, BaselineOnlyAtFirstSight

=============================================================================

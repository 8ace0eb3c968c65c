--------------------------- MODULE HeadlessMonitor ---------------------------
(***************************************************************************)
(* The headless half of the program and the hand-off it lives on: three    *)
(* MongoDB documents (the HSC session, the monitor state, the availability *)
(* snapshot), the monitor runs that read and replace them                  *)
(* (api/headless_monitor.py, called by `monitor-once` and by the `monitor` *)
(* loop in cli.py), and the local `refresh-session` that writes two of     *)
(* them (cli.py).  Every document is replaced whole, by its id, with no    *)
(* compare-and-set; every run is a process of its own that keeps what it   *)
(* read in local variables until it writes.                                *)
(*                                                                         *)
(* HSC, MongoDB and the recipients are the environment: a request may be   *)
(* refused, rate limited or fail, a database call may fail, with the write *)
(* applied or not, a message may be lost, and a run may be killed between  *)
(* any two steps (a crash, SIGTERM, the 15-minute limit of the job).       *)
(***************************************************************************)
EXTENDS Naturals

CONSTANTS
    Centres,          \* service centres of config/service_centers.yaml
    Slots,            \* (date, start time) pairs a centre may have free
    Monitors,         \* monitor processes that may exist
    RetryWindow,      \* ticks of the window a rate limit writes
    MaxLogins,        \* bound: how many times somebody runs refresh-session
    MaxJar,           \* bound: how many times HSC rotates one login's jar
    ConcurrencyGroup, \* TRUE: one monitor run at a time, as in hsc-monitor.yml
    RefreshOverlaps,  \* TRUE: refresh-session may run beside a monitor run
    NamedCentres      \* TRUE: a run may be for centres named with --center

ASSUME BoundsAssumption ==
    /\ RetryWindow \in Nat \ {0}
    /\ MaxLogins \in Nat
    /\ MaxJar \in Nat

ASSUME SwitchesAssumption ==
    /\ ConcurrencyGroup \in BOOLEAN
    /\ RefreshOverlaps \in BOOLEAN
    /\ NamedCentres \in BOOLEAN

VARIABLES
    session,    \* document hsc-api-session: which login (0: no document),
                \* which state of its jar, whether its expiry has passed
    state,      \* document hsc-monitor-state: status, ticks left of its window
    snapshot,   \* document hsc-availability-snapshot: centres, slots
    pc,         \* where each monitor process is
    run,        \* the local variables of each monitor process
    refresh,    \* the refresh-session process: where it is, the login it holds
    logins,     \* how many logins have been minted
    enabled,    \* centres enabled in the configuration the next run loads
    avail,      \* what is really free at HSC
    stable,     \* TRUE once nothing fails and nothing changes any more
    told,       \* observer: slots announced as new, persisted ever since
    untold,     \* observer: slots persisted as new and not announced
    alert,      \* observer: the status last notified, persisted ever since
    spent,      \* observer: logins HSC refused in a run that wrote a state
    known,      \* observer: centres a persisted snapshot has held since they
                \* were last enabled
    witness     \* observer: what was free, and not free, during each scan

documents == <<session, state, snapshot>>
refreshing == <<refresh, logins>>
environment == <<enabled, avail, stable>>
observed == <<told, untold, alert, spent, known>>
vars == <<documents, pc, run, refreshing, environment, observed, witness>>

-----------------------------------------------------------------------------
(* Values *)

Keys == Centres \X Slots
Of(asked) == asked \X Slots

Statuses == {"READY", "AUTH_REQUIRED", "RATE_LIMITED", "SERVICE_UNAVAILABLE"}
NoStatus == "NONE"

\* What can keep a centre from being read completely: a 401 or 403, a 429 that
\* outlived the retries, anything else (5xx, timeout, redirect, bad schema).
Kinds == {"auth", "limited", "other"}

\* How a replace_one ends.  The client may report a failure for a write the
\* server has applied (the answer was lost), so "failed" is two outcomes.
WriteResults == {"ok", "lost", "applied"}
Applied(r) == r # "lost"

Counter == 0 .. MaxJar
Login == 0 .. MaxLogins

SessionDoc == [login: Login, jar: Counter, expired: BOOLEAN]
StateDoc == [status: Statuses \cup {NoStatus}, window: 0 .. RetryWindow]
SnapshotDoc == [centres: SUBSET Centres, slots: SUBSET Keys]

PCs == {"idle", "session", "expired", "departments", "read", "persist",
        "record", "compare", "save", "notify"}

RunLocals ==
    [prev: Statuses \cup {NoStatus},     \* the state read at the gate
     login: Login, jar: Counter,         \* the requests.Session of the client
     last: Counter, degraded: BOOLEAN,   \* the SessionPersister
     asked: SUBSET Centres, todo: SUBSET Centres,
     slots: SUBSET Keys, kinds: SUBSET Kinds,
     event: Statuses \cup {NoStatus},    \* the transition to notify
     added: SUBSET Keys, removed: SUBSET Keys, baselined: SUBSET Centres]

NoRun ==
    [prev |-> NoStatus, login |-> 0, jar |-> 0, last |-> 0, degraded |-> FALSE,
     asked |-> {}, todo |-> {}, slots |-> {}, kinds |-> {}, event |-> NoStatus,
     added |-> {}, removed |-> {}, baselined |-> {}]

\* A session as it is saved: its queue cookie has just been issued.
Sealed(login, jar) == [login |-> login, jar |-> jar, expired |-> FALSE]

NoWitness == [present |-> {}, absent |-> {}]

TypeOK ==
    /\ session \in SessionDoc
    /\ state \in StateDoc
    /\ snapshot \in SnapshotDoc
    /\ pc \in [Monitors -> PCs]
    /\ run \in [Monitors -> RunLocals]
    /\ refresh \in [pc: {"idle", "save", "ready"}, login: Login]
    /\ logins \in Login
    /\ enabled \in SUBSET Centres
    /\ avail \in SUBSET Keys
    /\ stable \in BOOLEAN
    /\ told \in SUBSET Keys
    /\ untold \in SUBSET Keys
    /\ alert \in Statuses \cup {NoStatus}
    /\ spent \in SUBSET Login
    /\ known \in SUBSET Centres
    /\ witness \in [Monitors -> [present: SUBSET Keys, absent: SUBSET Keys]]

Init ==
    /\ session = [login |-> 0, jar |-> 0, expired |-> FALSE]
    /\ state = [status |-> NoStatus, window |-> 0]
    /\ snapshot = [centres |-> {}, slots |-> {}]
    /\ pc = [p \in Monitors |-> "idle"]
    /\ run = [p \in Monitors |-> NoRun]
    /\ refresh = [pc |-> "idle", login |-> 0]
    /\ logins = 0
    /\ enabled \in SUBSET Centres
    /\ avail \in SUBSET Keys
    /\ stable = FALSE
    /\ told = {} /\ untold = {}
    /\ alert = NoStatus
    /\ spent = {}
    /\ known = {}
    /\ witness = [p \in Monitors |-> NoWitness]

-----------------------------------------------------------------------------
(* The decisions of the code, each with the slips it could have been         *)
(* written with beside it.                                                   *)

\* _blocked: what the persisted state forbids before anything is sent.
BlockedByWindowOnly(s) == s.status = "RATE_LIMITED" /\ s.window > 0
BlockedByAuthOnly(s) == s.status = "AUTH_REQUIRED"
BlockedForever(s) == s.status \in {"AUTH_REQUIRED", "RATE_LIMITED"}
Blocked(s) ==
    \/ s.status = "AUTH_REQUIRED"
    \/ s.status = "RATE_LIMITED" /\ s.window > 0

\* classify: the priority of the evidence a scan ended with.
ClassifyLimitFirst(kinds) ==
    IF "limited" \in kinds THEN "RATE_LIMITED"
    ELSE IF "auth" \in kinds THEN "AUTH_REQUIRED"
    ELSE IF "other" \in kinds THEN "SERVICE_UNAVAILABLE" ELSE "READY"
ClassifyPartialReady(kinds) ==
    IF "auth" \in kinds THEN "AUTH_REQUIRED"
    ELSE IF "limited" \in kinds THEN "RATE_LIMITED" ELSE "READY"
Classify(kinds) ==
    IF "auth" \in kinds THEN "AUTH_REQUIRED"
    ELSE IF "limited" \in kinds THEN "RATE_LIMITED"
    ELSE IF "other" \in kinds THEN "SERVICE_UNAVAILABLE" ELSE "READY"

\* transition_to and _retry_after_at: the document a status is written as.
StateOfPadded(status) ==
    [status |-> status,
     window |-> IF status = "RATE_LIMITED" THEN RetryWindow + 1 ELSE 0]
StateOf(status) ==
    [status |-> status,
     window |-> IF status = "RATE_LIMITED" THEN RetryWindow ELSE 0]

\* record and MonitorStateTransition.changed: the event a notifier is given,
\* none when the write raised.
EventOfEveryRun(prev, status, r) == IF r = "ok" THEN status ELSE NoStatus
EventOf(prev, status, r) ==
    IF r = "ok" /\ prev # status THEN status ELSE NoStatus

\* SessionPersister.__call__: its fields after a write of the jar ended.
PersisterNeverDegraded(l, r) ==
    IF r = "ok" THEN [l EXCEPT !.last = l.jar] ELSE l
PersisterAfter(l, r) ==
    IF r = "ok" THEN [l EXCEPT !.last = l.jar, !.degraded = FALSE]
                ELSE [l EXCEPT !.degraded = TRUE]

\* snapshot_of: every centre read is present, a centre with nothing free too.
SnapshotOfNonEmpty(asked, slots) ==
    [centres |-> {k[1] : k \in slots}, slots |-> slots]
SnapshotOf(asked, slots) == [centres |-> asked, slots |-> slots]

\* diff_snapshots, over the centres both snapshots hold.
Comparable(prev, asked) == asked \cap prev.centres
Added(prev, asked, slots) ==
    (slots \ prev.slots) \cap Of(Comparable(prev, asked))
Removed(prev, asked, slots) ==
    (prev.slots \ slots) \cap Of(Comparable(prev, asked))

\* _compare after snapshots.save: a diff that was not persisted is dropped.
AnnounceUnsaved(diff, r) == diff
AnnounceIfSaved(diff, r) == IF r = "ok" THEN diff ELSE {}

-----------------------------------------------------------------------------
(* One monitor run: run_headless_scan, then the dispatcher.                  *)

Idle == \A p \in Monitors : pc[p] = "idle"

\* A call to MongoDB may fail until the environment is stable; so may a write,
\* with its effect lost or applied.
MayFail == ~stable
WriteOutcomes == IF stable THEN {"ok"} ELSE WriteResults

Goto(p, label) == pc' = [pc EXCEPT ![p] = label]
Set(p, locals) == run' = [run EXCEPT ![p] = locals]

\* The process ends: whatever it held in memory is gone.
Finish(p) ==
    /\ Goto(p, "idle")
    /\ Set(p, NoRun)
    /\ witness' = [witness EXCEPT ![p] = NoWitness]

\* Observer: a status written over the one last notified ends it.
ObserveStatus(status) ==
    alert' = IF status = alert THEN alert ELSE NoStatus

\* centers_to_scan: the enabled centres, or those named with --center, whether
\* they are enabled or not.  A run for none is refused before it starts.
Asks == {enabled} \cup IF NamedCentres THEN SUBSET Centres ELSE {}

\* The gate is closed, the state could not be read, or there is no centre to
\* scan: the run exits having sent nothing and changed nothing.
RunBlocked(p) ==
    /\ pc[p] = "idle"
    /\ Blocked(state) \/ MayFail \/ Asks = {{}}
    /\ UNCHANGED vars

\* The gate is open: states.load(), _blocked(...) is None.
LoadState(p) ==
    /\ pc[p] = "idle"
    /\ ConcurrencyGroup => Idle
    /\ RefreshOverlaps \/ refresh.pc = "idle"
    /\ ~Blocked(state)
    /\ \E asked \in Asks \ {{}} :
          Set(p, [NoRun EXCEPT !.prev = state.status, !.asked = asked])
    /\ Goto(p, "session")
    /\ UNCHANGED <<documents, refreshing, environment, observed, witness>>

\* store.load() raises: EXIT_PERSISTENCE.
LoadSessionFails(p) ==
    /\ pc[p] = "session"
    /\ MayFail
    /\ Finish(p)
    /\ UNCHANGED <<documents, refreshing, environment, observed>>

\* store.load(): no document, or one past its queue cookie's expiry, leads to
\* AUTH_REQUIRED; anything else to a client and a persister that remembers the
\* jar it started from.
LoadSession(p) ==
    /\ pc[p] = "session"
    /\ \/ /\ session.login = 0 \/ session.expired
          /\ Goto(p, "expired")
          /\ UNCHANGED <<run, witness>>
       \/ /\ session.login # 0 /\ ~session.expired
          /\ Goto(p, "departments")
          /\ Set(p, [run[p] EXCEPT !.login = session.login,
                                   !.jar = session.jar, !.last = session.jar])
          /\ witness' = [witness EXCEPT ![p] = [present |-> avail,
                                                absent |-> Keys \ avail]]
    /\ UNCHANGED <<documents, refreshing, environment, observed>>

\* No usable session: AUTH_REQUIRED is recorded without a request.
RecordAuthRequired(p) ==
    /\ pc[p] = "expired"
    /\ \E r \in WriteOutcomes :
          /\ IF Applied(r)
                THEN /\ state' = StateOf("AUTH_REQUIRED")
                     /\ ObserveStatus("AUTH_REQUIRED")
                ELSE UNCHANGED <<state, alert>>
          /\ Set(p, [run[p] EXCEPT
                        !.event = EventOf(run[p].prev, "AUTH_REQUIRED", r)])
    /\ Goto(p, "notify")
    /\ UNCHANGED <<session, snapshot, refreshing, environment, witness,
                   told, untold, spent, known>>

\* HSC may rotate the jar on any response, a failed one included.
Jars(l) == {l.jar, IF l.jar < MaxJar THEN l.jar + 1 ELSE l.jar}

Failures == IF stable THEN {} ELSE (SUBSET Kinds) \ {{}}

\* read_centres: departments once; without it every centre is incomplete.
ReadDepartments(p) ==
    /\ pc[p] = "departments"
    /\ \E jar \in Jars(run[p]) :
          \/ Set(p, [run[p] EXCEPT !.jar = jar, !.todo = run[p].asked])
          \/ \E kind \in Kinds :
                /\ {kind} \in Failures
                /\ Set(p, [run[p] EXCEPT !.jar = jar, !.kinds = {kind}])
    /\ Goto(p, "persist")
    /\ UNCHANGED <<documents, refreshing, environment, observed, witness>>

\* _read_centre: days and slots of one centre, completely or not.  The next
\* centre is read whatever this one answered.
ReadCentre(p) ==
    /\ pc[p] = "read"
    /\ \E centre \in run[p].todo, jar \in Jars(run[p]) :
          LET l == [run[p] EXCEPT !.jar = jar, !.todo = @ \ {centre}] IN
          \/ Set(p, [l EXCEPT !.slots = @ \cup (avail \cap Of({centre}))])
          \/ \E kinds \in Failures : Set(p, [l EXCEPT !.kinds = @ \cup kinds])
    /\ Goto(p, "persist")
    /\ UNCHANGED <<documents, refreshing, environment, observed, witness>>

\* SessionPersister.__call__, after every response: the jar replaces the stored
\* session, if it is not the jar last persisted.
PersistJar(p) ==
    /\ pc[p] = "persist"
    /\ \/ /\ run[p].jar = run[p].last
          /\ UNCHANGED <<session, run>>
       \/ /\ run[p].jar # run[p].last
          /\ \E r \in WriteOutcomes :
                /\ session' = IF Applied(r)
                                 THEN Sealed(run[p].login, run[p].jar)
                                 ELSE session
                /\ Set(p, PersisterAfter(run[p], r))
    /\ Goto(p, IF run[p].todo = {} THEN "record" ELSE "read")
    /\ UNCHANGED <<state, snapshot, refreshing, environment, observed, witness>>

\* classify and record: the verdict is written over whatever the state document
\* holds by now.  Only READY goes on to compare.
RecordScan(p) ==
    LET status == Classify(run[p].kinds) IN
    /\ pc[p] = "record"
    /\ \E r \in WriteOutcomes :
          /\ IF Applied(r)
                THEN /\ state' = StateOf(status)
                     /\ ObserveStatus(status)
                     /\ spent' = IF "auth" \in run[p].kinds
                                    THEN spent \cup {run[p].login} ELSE spent
                ELSE UNCHANGED <<state, alert, spent>>
          /\ Set(p, [run[p] EXCEPT !.event = EventOf(run[p].prev, status, r)])
    /\ IF status = "READY"
          THEN Goto(p, "compare") /\ UNCHANGED witness
          ELSE Goto(p, "notify") /\ witness' = [witness EXCEPT ![p] = NoWitness]
    /\ UNCHANGED <<session, snapshot, refreshing, environment,
                   told, untold, known>>

\* snapshots.load() and diff_snapshots.
LoadSnapshot(p) ==
    /\ pc[p] = "compare"
    /\ Set(p, [run[p] EXCEPT
          !.added = Added(snapshot, run[p].asked, run[p].slots),
          !.removed = Removed(snapshot, run[p].asked, run[p].slots),
          !.baselined = run[p].asked \ snapshot.centres])
    /\ Goto(p, "save")
    /\ UNCHANGED <<documents, refreshing, environment, observed, witness>>

\* snapshots.load() raises: nothing is compared; the transition is notified.
LoadSnapshotFails(p) ==
    /\ pc[p] = "compare"
    /\ MayFail
    /\ Goto(p, "notify")
    /\ UNCHANGED <<documents, run, refreshing, environment, observed, witness>>

\* snapshots.save(current): persisted before it is announced, dropped if the
\* write raised.
SaveSnapshot(p) ==
    LET l == run[p] IN
    /\ pc[p] = "save"
    /\ \E r \in WriteOutcomes :
          /\ Set(p, [l EXCEPT !.added = AnnounceIfSaved(@, r),
                              !.removed = AnnounceIfSaved(@, r),
                              !.baselined = AnnounceIfSaved(@, r)])
          /\ IF Applied(r)
                THEN /\ snapshot' = SnapshotOf(l.asked, l.slots)
                     /\ told' = told \cap l.slots
                     /\ untold' = (untold \cap l.slots) \cup (l.added \ told)
                     /\ known' = (known \cup l.asked) \cap enabled
                ELSE UNCHANGED <<snapshot, told, untold, known>>
    /\ Goto(p, "notify")
    /\ UNCHANGED <<session, state, refreshing, environment, witness,
                   alert, spent>>

\* NotificationDispatcher.notify_scan, the last thing a run does: the diff, then
\* the transition.  A message that is not delivered is logged and forgotten.
Notify(p) ==
    LET l == run[p]
        Delivered == IF stable THEN {TRUE} ELSE BOOLEAN IN
    /\ pc[p] = "notify"
    /\ \E diff \in Delivered, status \in Delivered :
          /\ IF diff THEN /\ told' = told \cup l.added
                          /\ untold' = untold \ l.added
                     ELSE UNCHANGED <<told, untold>>
          /\ alert' = IF /\ status
                         /\ l.event \notin {NoStatus, "READY"}
                         /\ state.status = l.event
                      THEN l.event ELSE alert
    /\ Finish(p)
    /\ UNCHANGED <<documents, refreshing, environment, spent, known>>

\* The process dies between two steps, or an unexpected exception ends it.
Crash(p) ==
    /\ MayFail
    /\ pc[p] # "idle"
    /\ Finish(p)
    /\ UNCHANGED <<documents, refreshing, environment, observed>>

Step(p) ==
    \/ LoadState(p) \/ LoadSession(p) \/ RecordAuthRequired(p)
    \/ ReadDepartments(p) \/ ReadCentre(p) \/ PersistJar(p)
    \/ RecordScan(p) \/ LoadSnapshot(p) \/ SaveSnapshot(p) \/ Notify(p)

Failure(p) ==
    RunBlocked(p) \/ LoadSessionFails(p) \/ LoadSnapshotFails(p) \/ Crash(p)

-----------------------------------------------------------------------------
(* refresh-session: run_refresh_session.                                     *)

\* The browser authenticates and mints a new login (a run that fails before
\* this point writes nothing).
StartRefresh ==
    /\ refresh.pc = "idle"
    /\ RefreshOverlaps \/ Idle
    /\ logins < MaxLogins
    /\ logins' = logins + 1
    /\ refresh' = [pc |-> "save", login |-> logins + 1]
    /\ UNCHANGED <<documents, pc, run, environment, observed, witness>>

EndRefresh == refresh' = [pc |-> "idle", login |-> 0]

\* session_store.save: first the session ...
RefreshSave ==
    /\ refresh.pc = "save"
    /\ \E r \in WriteOutcomes :
          /\ session' = IF Applied(r) THEN Sealed(refresh.login, 0)
                                      ELSE session
          /\ IF r = "ok" THEN refresh' = [refresh EXCEPT !.pc = "ready"]
                         ELSE EndRefresh
    /\ UNCHANGED <<state, snapshot, pc, run, logins, environment, observed,
                   witness>>

\* ... only then record(states, previous, READY).
RefreshReady ==
    /\ refresh.pc = "ready"
    /\ \E r \in WriteOutcomes :
          IF Applied(r) THEN state' = StateOf("READY") /\ ObserveStatus("READY")
                        ELSE UNCHANGED <<state, alert>>
    /\ EndRefresh
    /\ UNCHANGED <<session, snapshot, pc, run, logins, environment, witness,
                   told, untold, spent, known>>

\* The operator interrupts it, or its process dies.
RefreshCrash ==
    /\ MayFail
    /\ refresh.pc # "idle"
    /\ EndRefresh
    /\ UNCHANGED <<documents, pc, run, logins, environment, observed, witness>>

RefreshStep == RefreshSave \/ RefreshReady

-----------------------------------------------------------------------------
(* The world. *)

\* A slot is freed or taken while nobody, or somebody, is reading.
Reading == {"departments", "read", "persist"}

ChangeAvailability ==
    /\ ~stable
    /\ \E k \in Keys :
          avail' = IF k \in avail THEN avail \ {k} ELSE avail \cup {k}
    /\ witness' = [p \in Monitors |->
                      IF pc[p] \notin Reading THEN witness[p]
                      ELSE [present |-> witness[p].present \cup avail',
                            absent |-> witness[p].absent \cup (Keys \ avail')]]
    /\ UNCHANGED <<documents, pc, run, refreshing, enabled, stable, observed>>

\* The operator enables or disables a centre.  A run in progress keeps the
\* centres it was started with, and so does the `monitor` loop: there the edit
\* is the moment the loop is started again.
EditCentres ==
    /\ ~stable
    /\ \E centre \in Centres :
          enabled' = IF centre \in enabled THEN enabled \ {centre}
                                          ELSE enabled \cup {centre}
    /\ known' = known \cap enabled'
    /\ UNCHANGED <<documents, pc, run, refreshing, avail, stable, told, untold,
                   alert, spent, witness>>

\* Time passes: the stored queue cookie outlives its own expiry.
SessionExpires ==
    /\ ~stable
    /\ session.login # 0 /\ ~session.expired
    /\ session' = [session EXCEPT !.expired = TRUE]
    /\ UNCHANGED <<state, snapshot, pc, run, refreshing, environment, observed,
                   witness>>

\* Time passes: the window of a rate limit closes.
Tick ==
    /\ state.window > 0
    /\ state' = [state EXCEPT !.window = @ - 1]
    /\ UNCHANGED <<session, snapshot, pc, run, refreshing, environment,
                   observed, witness>>

\* From some moment on nothing fails and nothing changes.
Stabilise ==
    /\ ~stable
    /\ stable' = TRUE
    /\ UNCHANGED <<documents, pc, run, refreshing, enabled, avail, observed,
                   witness>>

Next ==
    \/ \E p \in Monitors : Step(p) \/ Failure(p)
    \/ StartRefresh \/ RefreshStep \/ RefreshCrash
    \/ ChangeAvailability \/ EditCentres \/ SessionExpires \/ Tick \/ Stabilise

Spec == Init /\ [][Next]_vars

\* A process that was started is scheduled until it ends, the loop starts the
\* next run, and time passes.  Nobody is obliged to run refresh-session.
Fairness ==
    /\ \A p \in Monitors : WF_vars(Step(p))
    /\ WF_vars(RefreshStep)
    /\ WF_vars(Tick)

FairSpec == Spec /\ Fairness

-----------------------------------------------------------------------------
(* Safety *)

Requesting == {"session", "departments", "read"}

\* The gate is still open whenever a run is about to send something: no other
\* step closes it behind the run's back (headless_monitor.py:281).
NoRequestWhileBlocked ==
    \A p \in Monitors : pc[p] \in Requesting =>
        /\ state.status # "AUTH_REQUIRED"
        /\ state.status = "RATE_LIMITED" => state.window = 0

\* AUTH_REQUIRED is sticky: the only step that takes the document out of it is
\* the last write of a refresh-session (monitor_state.py:17-21).
AuthStickyUntilRefresh ==
    [][(state.status = "AUTH_REQUIRED" /\ state'.status # "AUTH_REQUIRED")
          => refresh.pc = "ready"]_vars

\* A login HSC has refused, in a run that managed to write down a state, is
\* never used for another request (README.md:180-182: a bad session is never used to
\* knock repeatedly).
RefusedLoginNotReused ==
    \A p \in Monitors : pc[p] \in {"departments", "read"} =>
        run[p].login \notin spent

\* When a scan ends without the "could not be written back" note, the stored
\* session is the very jar the scan ended with (headless_monitor.py:349).
QuietMeansWrittenBack ==
    \A p \in Monitors :
        pc[p] \in {"record", "compare", "save"} /\ ~run[p].degraded
            => /\ session.login = run[p].login
               /\ session.jar = run[p].jar

\* A slot announced as new was free, and one announced as gone was not free, at
\* some moment of the very scan that says so: a failed read is never mistaken
\* for a disappearance (availability_snapshot.py:10-13).
AnnouncedChangesWereReal ==
    \A p \in Monitors : pc[p] = "notify" =>
        /\ run[p].added \subseteq witness[p].present
        /\ run[p].removed \subseteq witness[p].absent

\* What is about to be announced as new has not been announced since it was
\* last absent from the stored snapshot (headless_monitor.py:382-387: a change
\* announced twice never stops).
NothingToldTwice ==
    \A p \in Monitors : pc[p] = "notify" => run[p].added \cap told = {}

\* A status is notified once for as long as it stays persisted: the second
\* consecutive AUTH_REQUIRED or RATE_LIMITED is not news
\* (monitor_state.py:104-106).
AlertNotRepeated ==
    \A p \in Monitors :
        pc[p] = "notify" /\ run[p].event \notin {NoStatus, "READY"}
            => run[p].event # alert

\* Only a centre no persisted snapshot has held since it was enabled is a silent
\* baseline: whatever the operator enables or disables beside it, and whatever
\* fails, a centre that stays enabled is compared from its second complete scan
\* on ("the first run of all, and equally a centre the operator has just
\* enabled", availability_snapshot.py:15-18).  With --center (NamedCentres) it does
\* not hold (README.md): the snapshot of such a run replaces that of the centres
\* it was not for.
BaselineOnlyAtFirstSight ==
    [][\A p \in Monitors : pc[p] = "compare" /\ pc'[p] = "save"
          => run'[p].baselined \cap known = {}]_vars

-----------------------------------------------------------------------------
(* Two statements of the docstrings that do not hold; see README.md *)

\* The stored session never goes back to an older login: what refresh-session
\* saved is what the next run picks up (headless_monitor.py:22-24).
LoginNeverReverts == [][session'.login >= session.login]_vars

\* A change that was persisted and whose message was lost is in the diff of the
\* next run that announces (headless_monitor.py:385-387).
MissedChangeShowsUpNext ==
    \A p \in Monitors : pc[p] = "notify" => untold \subseteq run[p].added

-----------------------------------------------------------------------------
(* Liveness *)

\* Once nothing fails or changes any more, the stored snapshot settles for good
\* on what is really free at the enabled centres, unless the monitor waits for a
\* person, and a rate limit is waited out (monitor_state.py:23-25): a partial
\* scan, a lost write or a closed window never leaves it stuck.
Settles ==
    (stable /\ enabled # {})
        ~> [](/\ \/ state.status = "AUTH_REQUIRED"
                 \/ snapshot = SnapshotOf(enabled, avail \cap Of(enabled))
              /\ state.status # "RATE_LIMITED")
=============================================================================

------------------------------ MODULE ApiMonitor ------------------------------
(***************************************************************************)
(* The local api-monitor (ApiMonitor of api/monitor.py, run_api_monitor of *)
(* cli.py): one process that picks up a stored HSC session or opens the    *)
(* browser for one, polls the centres in cycles, keeps in memory what it   *)
(* last read of each, and answers a 403 with one recovery through the      *)
(* browser.  It shares the session document with the headless monitor and  *)
(* knows nothing of the monitor state.                                     *)
(*                                                                         *)
(* The browser, HSC and MongoDB are the environment: minting a login, a    *)
(* request and a database call may fail, and the process may die between   *)
(* any two steps and be started again.                                     *)
(***************************************************************************)
EXTENDS Naturals

CONSTANTS
    Centres,    \* the one to five centres watched
    Slots,      \* (date, start time) pairs a centre may have free
    MaxLogins,  \* bound: how many logins the browser may mint
    MaxJar      \* bound: how many times HSC rotates one login's jar

ASSUME BoundsAssumption == MaxLogins \in Nat /\ MaxJar \in Nat

VARIABLES
    session,   \* document hsc-api-session: login (0: no document), jar, expired
    mongo,     \* whether the process's MongoClient is open
    pc,        \* where the process is
    client,    \* the HTTP client: its login (0: None) and the jar it holds
    persister, \* SessionPersister: the jar last persisted, degraded
    cycle,     \* what the present cycle has read, and whether it recovered
    memory,    \* _state: the centres seen, and their slots
    diff,      \* the CentreDiffs of the last report
    logins,    \* how many logins have been minted
    avail,     \* what is really free at HSC
    witness,   \* observer: what was free, and not free, during the last read
    browsers,  \* observer: browsers opened for the present cycle
    dbFailed   \* observer: a database call failed since the last good write

process == <<mongo, pc, client, persister, cycle, memory, diff>>
world == <<logins, avail>>
observed == <<browsers, dbFailed>>
vars == <<session, process, world, witness, observed>>

-----------------------------------------------------------------------------
(* Values *)

Keys == Centres \X Slots
Of(centres) == centres \X Slots

Login == 0 .. MaxLogins
Jar == [login: Login, jar: 0 .. MaxJar]
NoJar == [login |-> 0, jar |-> 0]

NoDoc == [login |-> 0, jar |-> 0, expired |-> FALSE]
Sealed(jar) == [login |-> jar.login, jar |-> jar.jar, expired |-> FALSE]

PCs == {"down", "load", "start", "adopted", "departments", "read", "persist",
        "decide", "recover", "mint", "failed", "report", "sleep", "raised"}

NoRead == [todo |-> {}, whole |-> {}, slots |-> {}, forbidden |-> FALSE]
NewCycle == [read |-> NoRead, recovered |-> FALSE]

NoMemory == [seen |-> {}, slots |-> {}]
NoDiff == [added |-> {}, removed |-> {}]
NoWitness == [present |-> {}, absent |-> {}]

SessionDocuments == [login: Login, jar: 0 .. MaxJar, expired: BOOLEAN]
Persisters == [last: Jar, degraded: BOOLEAN]
Readings == [todo: SUBSET Centres, whole: SUBSET Centres, slots: SUBSET Keys,
             forbidden: BOOLEAN]

TypeOK ==
    /\ session \in SessionDocuments
    /\ mongo \in BOOLEAN
    /\ pc \in PCs
    /\ client \in Jar
    /\ persister \in Persisters
    /\ cycle \in [read: Readings, recovered: BOOLEAN]
    /\ memory \in [seen: SUBSET Centres, slots: SUBSET Keys]
    /\ memory.slots \subseteq Of(memory.seen)
    /\ diff \in [added: SUBSET Keys, removed: SUBSET Keys]
    /\ logins \in Login
    /\ avail \in SUBSET Keys
    /\ witness \in [present: SUBSET Keys, absent: SUBSET Keys]
    /\ browsers \in Nat
    /\ dbFailed \in BOOLEAN

Init ==
    /\ session = NoDoc
    /\ mongo = FALSE
    /\ pc = "down"
    /\ client = NoJar
    /\ persister = [last |-> NoJar, degraded |-> FALSE]
    /\ cycle = NewCycle
    /\ memory = NoMemory
    /\ diff = NoDiff
    /\ logins = 0
    /\ avail \in SUBSET Keys
    /\ witness = NoWitness
    /\ browsers = 0
    /\ dbFailed = FALSE

-----------------------------------------------------------------------------
(* The decisions of the code, each with the slips it could have been         *)
(* written with beside it.                                                   *)

\* cycle: whether this cycle may still recover.
RecoversEveryTime(c) == c.read.forbidden
NeedsRecovery(c) == c.read.forbidden /\ ~c.recovered

\* SessionPersister.__call__: its fields after a write of this jar ended.
PersisterNeverDegraded(jar, ok) ==
    IF ok THEN [last |-> jar, degraded |-> FALSE] ELSE persister
PersisterAfter(jar, ok) ==
    IF ok THEN [last |-> jar, degraded |-> FALSE]
          ELSE [persister EXCEPT !.degraded = TRUE]

\* _apply: the centres whose memory is replaced, and those seen by then.
AppliesToAll(read) == Centres
Replaced(read) == read.whole
SeenAfter(read) == memory.seen \cup read.whole

-----------------------------------------------------------------------------
(* The database *)

\* How a call ends: done, or reported failed with or without its effect.  After
\* close() a MongoClient refuses every call.
CallResults == IF mongo THEN {"ok", "lost", "applied"} ELSE {"lost"}
Applied(r) == r # "lost"

\* Observer: the database, not the closed client, failed a call.
Failed(r) == mongo /\ r # "ok"

-----------------------------------------------------------------------------
(* Starting *)

StartProcess ==
    /\ pc = "down"
    /\ pc' = "load"
    /\ mongo' = TRUE
    /\ client' = NoJar
    /\ persister' = [last |-> NoJar, degraded |-> FALSE]
    /\ cycle' = NewCycle
    /\ memory' = NoMemory
    /\ diff' = NoDiff
    /\ browsers' = 0
    /\ dbFailed' = FALSE
    /\ UNCHANGED <<session, world, witness>>

\* _load_persisted returns nothing: no document, or the database would not say.
NothingPersisted ==
    /\ pc = "load"
    /\ \/ session.login = 0 /\ UNCHANGED dbFailed
       \/ dbFailed' = TRUE
    /\ pc' = "start"
    /\ UNCHANGED <<session, mongo, client, persister, cycle, memory, diff,
                   world, witness, browsers>>

\* An expired document is deleted, if the database lets it.
PersistedExpired ==
    /\ pc = "load"
    /\ session.login # 0 /\ session.expired
    /\ \E r \in CallResults :
          /\ session' = IF Applied(r) THEN NoDoc ELSE session
          /\ dbFailed' = (dbFailed \/ Failed(r))
    /\ pc' = "start"
    /\ UNCHANGED <<mongo, client, persister, cycle, memory, diff, world,
                   witness, browsers>>

\* restore_api_session: the stored jar is tried, never trusted.
Restore ==
    /\ pc = "load"
    /\ session.login # 0 /\ ~session.expired
    /\ client' = [login |-> session.login, jar |-> session.jar]
    /\ persister' = [persister EXCEPT !.last = client']
    /\ pc' = "sleep"
    /\ UNCHANGED <<session, mongo, cycle, memory, diff, world, witness,
                   observed>>

\* create_api_session: the browser is opened, mints a login, is closed again;
\* the new jar is adopted and must be written.
CreateSession ==
    /\ pc \in {"start", "mint"}
    /\ logins < MaxLogins
    /\ logins' = logins + 1
    /\ client' = [login |-> logins + 1, jar |-> 0]
    /\ persister' = [persister EXCEPT !.last = NoJar]
    /\ pc' = "adopted"
    /\ browsers' = IF pc = "mint" THEN browsers + 1 ELSE browsers
    /\ UNCHANGED <<session, mongo, cycle, memory, diff, avail, witness,
                   dbFailed>>

\* It raises: at the start the command ends with it, in a recovery the cycle is
\* reported as failed.
CreateSessionFails ==
    /\ pc \in {"start", "mint"}
    /\ pc' = IF pc = "start" THEN "down" ELSE "failed"
    /\ browsers' = IF pc = "mint" THEN browsers + 1 ELSE browsers
    /\ UNCHANGED <<session, mongo, client, persister, cycle, memory, diff,
                   world, witness, dbFailed>>

-----------------------------------------------------------------------------
(* Reading: read_centres, with the persister called after every response.    *)

Writes(jar, next) ==
    /\ \E r \in CallResults :
          /\ session' = IF Applied(r) THEN Sealed(jar) ELSE session
          /\ persister' = PersisterAfter(jar, r = "ok")
          /\ dbFailed' = (r # "ok" /\ (dbFailed \/ Failed(r)))
    /\ pc' = next
    /\ UNCHANGED <<mongo, client, cycle, memory, diff, world, browsers>>

\* _adopt: whatever was stored is stale, so this always writes.
PersistAdopted ==
    /\ pc = "adopted"
    /\ Writes(client, IF cycle.recovered THEN "departments" ELSE "sleep")
    /\ witness' = [present |-> avail, absent |-> Keys \ avail]

Rotated == {client, [client EXCEPT !.jar = IF @ < MaxJar THEN @ + 1 ELSE @]}

\* One departments call: without it every centre is incomplete.
ReadDepartments ==
    /\ pc = "departments"
    /\ client' \in Rotated
    /\ \/ cycle' = [cycle EXCEPT !.read = [NoRead EXCEPT !.todo = Centres]]
       \/ \E forbidden \in BOOLEAN :
             cycle' = [cycle EXCEPT !.read = [NoRead EXCEPT
                                                 !.forbidden = forbidden]]
    /\ pc' = "persist"
    /\ UNCHANGED <<session, mongo, persister, memory, diff, world, witness,
                   observed>>

\* One centre, whole or not; a 403 anywhere asks for a recovery.
ReadCentre ==
    /\ pc = "read"
    /\ client' \in Rotated
    /\ \E centre \in cycle.read.todo :
          LET read == [cycle.read EXCEPT !.todo = @ \ {centre}] IN
          cycle' \in
             {[cycle EXCEPT !.read = [read EXCEPT
                  !.whole = @ \cup {centre},
                  !.slots = @ \cup (avail \cap Of({centre}))]]}
             \cup {[cycle EXCEPT !.read = [read EXCEPT
                       !.forbidden = @ \/ forbidden]] : forbidden \in BOOLEAN}
    /\ pc' = "persist"
    /\ UNCHANGED <<session, mongo, persister, memory, diff, world, witness,
                   observed>>

AfterResponse == IF cycle.read.todo = {} THEN "decide" ELSE "read"

JarUnchanged ==
    /\ pc = "persist"
    /\ client = persister.last
    /\ pc' = AfterResponse
    /\ UNCHANGED <<session, mongo, client, persister, cycle, memory, diff,
                   world, witness, observed>>

PersistJar ==
    /\ pc = "persist"
    /\ client # persister.last
    /\ Writes(client, AfterResponse)
    /\ UNCHANGED witness

-----------------------------------------------------------------------------
(* Recovering and reporting *)

\* _recover: the refused session is deleted from the database, forgotten by the
\* persister and closed -- and with it, by close(), the store.
Recover ==
    /\ pc = "decide"
    /\ NeedsRecovery(cycle)
    /\ \E r \in CallResults :
          /\ session' = IF Applied(r) THEN NoDoc ELSE session
          /\ dbFailed' = (dbFailed \/ Failed(r))
    /\ persister' = [persister EXCEPT !.last = NoJar]
    /\ client' = NoJar
    /\ mongo' = FALSE
    /\ cycle' = [cycle EXCEPT !.recovered = TRUE]
    /\ pc' = "mint"
    /\ UNCHANGED <<memory, diff, world, witness, browsers>>

\* _apply: diff and remember, only for the centres read completely; the first
\* sight of a centre is a baseline.
Apply ==
    LET read == cycle.read
        known == Of(Replaced(read) \cap memory.seen) IN
    /\ pc = "decide"
    /\ ~NeedsRecovery(cycle)
    /\ memory' = [seen |-> SeenAfter(read),
                  slots |-> (memory.slots \ Of(Replaced(read))) \cup read.slots]
    /\ diff' = [added |-> (read.slots \ memory.slots) \cap known,
                removed |-> (memory.slots \ read.slots) \cap known]
    /\ pc' = "report"
    /\ UNCHANGED <<session, mongo, client, persister, cycle, world, witness,
                   observed>>

\* run: the report is printed and the process sleeps until the next scan start.
Report ==
    /\ pc \in {"report", "failed"}
    /\ pc' = "sleep"
    /\ diff' = NoDiff
    /\ UNCHANGED <<session, mongo, client, persister, cycle, memory, world,
                   witness, observed>>

\* cycle: the next scan; without a client _read raises instead.
StartCycle ==
    /\ pc = "sleep"
    /\ pc' = IF client.login = 0 THEN "raised" ELSE "departments"
    /\ cycle' = NewCycle
    /\ browsers' = 0
    /\ witness' = [present |-> avail, absent |-> Keys \ avail]
    /\ UNCHANGED <<session, mongo, client, persister, memory, diff, world,
                   dbFailed>>

\* The process ends: Ctrl+C, --once, what run() raised, or a crash.
Stop ==
    /\ pc # "down"
    /\ pc' = "down"
    /\ UNCHANGED <<session, mongo, client, persister, cycle, memory, diff,
                   world, witness, observed>>

-----------------------------------------------------------------------------
(* The world. *)

Reading == {"departments", "read", "persist"}

ChangeAvailability ==
    /\ \E k \in Keys :
          avail' = IF k \in avail THEN avail \ {k} ELSE avail \cup {k}
    /\ witness' = IF pc \notin Reading THEN witness
                  ELSE [present |-> witness.present \cup avail',
                        absent |-> witness.absent \cup (Keys \ avail')]
    /\ UNCHANGED <<session, process, logins, observed>>

SessionExpires ==
    /\ session.login # 0 /\ ~session.expired
    /\ session' = [session EXCEPT !.expired = TRUE]
    /\ UNCHANGED <<process, world, witness, observed>>

Next ==
    \/ StartProcess \/ NothingPersisted \/ PersistedExpired \/ Restore
    \/ CreateSession \/ CreateSessionFails
    \/ PersistAdopted \/ ReadDepartments \/ ReadCentre
    \/ JarUnchanged \/ PersistJar
    \/ Recover \/ Apply \/ Report \/ StartCycle \/ Stop
    \/ ChangeAvailability \/ SessionExpires

Spec == Init /\ [][Next]_vars

-----------------------------------------------------------------------------
(* Safety *)

\* A slot reported as new or as gone really was free, or not free, during the
\* very read that says so -- the second one, when the cycle recovered: a failure
\* is never a disappearance (monitor.py:12-16).
ChangesWereReal ==
    /\ diff.added \subseteq witness.present
    /\ diff.removed \subseteq witness.absent

\* One recovery per cycle, never a loop (monitor.py:18-20).
OneBrowserPerCycle == browsers <= 1

\* A report without the "persistence is degraded" line means the stored session
\* is the jar in use (monitor.py:274-276).
QuietMeansStored ==
    pc = "report" /\ ~persister.degraded =>
        session.login = client.login /\ session.jar = client.jar

\* Does not hold (README.md): a cycle whose recovery failed is followed by another
\* cycle (monitor.py:18-21).
LoopOutlivesFailedRecovery == pc # "raised"

\* Degraded is what the database did, not what the monitor did to its own
\* connection (monitor.py:274-276).
DegradedByTheDatabase == persister.degraded => dbFailed
=============================================================================

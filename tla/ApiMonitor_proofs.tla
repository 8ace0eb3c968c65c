--------------------------- MODULE ApiMonitor_proofs ---------------------------
(***************************************************************************)
(* What holds of the local monitor for every set of centres and slots, and *)
(* however many logins are minted and jars rotated: what it reports was    *)
(* there to be seen, it opens one browser in a cycle, and a report without *)
(* the degraded line means the jar in use is the one that is stored.       *)
(***************************************************************************)
EXTENDS ApiMonitor, TLAPS

-----------------------------------------------------------------------------
(* Values *)

LEMMA Values ==
  /\ NoJar \in Jar /\ NoDoc \in SessionDocuments /\ NoRead \in Readings
  /\ \A j \in Jar : Sealed(j) \in SessionDocuments
  /\ 0 \in Login
<1>1. 0 \in Login /\ 0 \in 0 .. MaxJar
  BY BoundsAssumption DEF Login
<1>2. NoJar \in Jar /\ NoDoc \in SessionDocuments
  BY <1>1 DEF NoJar, Jar, NoDoc, SessionDocuments
<1>3. NoRead \in Readings
  BY DEF NoRead, Readings
<1>4. \A j \in Jar : Sealed(j) \in SessionDocuments
  BY DEF Jar, Sealed, SessionDocuments
<1> QED
  BY <1>1, <1>2, <1>3, <1>4

\* Rotating a jar gives a jar of the same login.
LEMMA RotatedType ==
  ASSUME TypeOK, NEW jar \in Rotated
  PROVE  jar \in Jar /\ jar.login = client.login
<1>1. client.jar < MaxJar => client.jar + 1 \in 0 .. MaxJar
  BY BoundsAssumption DEF TypeOK, Jar
<1> QED
  BY <1>1 DEF TypeOK, Rotated, Jar

\* What a write leaves of the document and of the persister.
LEMMA WritesIs ==
  ASSUME TypeOK, NEW next \in PCs, Writes(client, next)
  PROVE  /\ session' \in SessionDocuments /\ persister' \in Persisters /\ dbFailed' \in BOOLEAN
         /\ pc' = next
         /\ ~persister'.degraded => persister'.last = client /\ session' = Sealed(client)
         /\ UNCHANGED <<mongo, client, cycle, memory, diff, world, browsers>>
<1>1. PICK r \in CallResults :
         /\ session' = IF Applied(r) THEN Sealed(client) ELSE session
         /\ persister' = PersisterAfter(client, r = "ok")
         /\ dbFailed' = (r # "ok" /\ (dbFailed \/ Failed(r)))
  BY DEF Writes
<1>2. client \in Jar /\ session \in SessionDocuments /\ persister \in Persisters
  BY DEF TypeOK
<1>3. session' \in SessionDocuments
  BY <1>1, <1>2, Values
<1>4. dbFailed' \in BOOLEAN
  BY <1>1
<1>5. /\ persister' \in Persisters
      /\ ~persister'.degraded => persister'.last = client /\ r = "ok"
  <2>1. CASE r = "ok"
    BY <1>1, <1>2, <2>1 DEF PersisterAfter, Persisters
  <2>2. CASE r # "ok"
    BY <1>1, <1>2, <2>2 DEF PersisterAfter, Persisters
  <2> QED
    BY <2>1, <2>2
<1>6. ~persister'.degraded => session' = Sealed(client)
  <2>1. r = "ok" => session' = Sealed(client)
    BY <1>1 DEF Applied
  <2> QED
    BY <1>5, <2>1
<1>7. pc' = next /\ UNCHANGED <<mongo, client, cycle, memory, diff, world, browsers>>
  BY Zenon DEF Writes
<1> QED
  BY <1>3, <1>4, <1>5, <1>6, <1>7

\* What the departments call leaves to read.
LEMMA ReadDepartmentsIs ==
  ASSUME TypeOK, ReadDepartments
  PROVE  /\ cycle' \in [read: Readings, recovered: BOOLEAN]
         /\ cycle'.recovered = cycle.recovered
         /\ cycle'.read.whole = {} /\ cycle'.read.slots = {}
<1>1. PICK read \in Readings : /\ read.whole = {} /\ read.slots = {}
                               /\ cycle' = [cycle EXCEPT !.read = read]
  <2>1. [NoRead EXCEPT !.todo = Centres] \in Readings
        /\ \A forbidden \in BOOLEAN : [NoRead EXCEPT !.forbidden = forbidden] \in Readings
    BY DEF NoRead, Readings
  <2>2. CASE cycle' = [cycle EXCEPT !.read = [NoRead EXCEPT !.todo = Centres]]
    BY <2>1, <2>2 DEF NoRead
  <2>3. ASSUME NEW forbidden \in BOOLEAN,
               cycle' = [cycle EXCEPT !.read = [NoRead EXCEPT !.forbidden = forbidden]]
        PROVE  \E read \in Readings : /\ read.whole = {} /\ read.slots = {}
                                      /\ cycle' = [cycle EXCEPT !.read = read]
    BY <2>1, <2>3 DEF NoRead
  <2> QED
    BY <2>2, <2>3 DEF ReadDepartments
<1> QED
  BY <1>1 DEF TypeOK

\* What one centre's read adds: the whole of what is free there, or nothing.
LEMMA ReadCentreIs ==
  ASSUME TypeOK, ReadCentre
  PROVE  /\ cycle' \in [read: Readings, recovered: BOOLEAN]
         /\ cycle'.recovered = cycle.recovered
         /\ \/ UNCHANGED <<cycle.read.whole, cycle.read.slots>>
            \/ \E centre \in Centres :
                  /\ cycle'.read.whole = cycle.read.whole \cup {centre}
                  /\ cycle'.read.slots = cycle.read.slots \cup (avail \cap Of({centre}))
<1>1. PICK centre \in cycle.read.todo :
         LET read == [cycle.read EXCEPT !.todo = @ \ {centre}] IN
         \/ cycle' = [cycle EXCEPT !.read = [read EXCEPT
                         !.whole = @ \cup {centre},
                         !.slots = @ \cup (avail \cap Of({centre}))]]
         \/ \E forbidden \in BOOLEAN :
               cycle' = [cycle EXCEPT !.read = [read EXCEPT
                            !.forbidden = @ \/ forbidden]]
  BY DEF ReadCentre
<1> DEFINE read == [cycle.read EXCEPT !.todo = @ \ {centre}]
<1>2. cycle.read \in Readings /\ centre \in Centres /\ avail \subseteq Keys
  BY DEF TypeOK, Readings
<1>3. read \in Readings /\ read.whole = cycle.read.whole /\ read.slots = cycle.read.slots
  BY <1>2 DEF Readings
<1>4. CASE cycle' = [cycle EXCEPT !.read = [read EXCEPT
                        !.whole = @ \cup {centre},
                        !.slots = @ \cup (avail \cap Of({centre}))]]
  <2> DEFINE after == [read EXCEPT !.whole = @ \cup {centre},
                                   !.slots = @ \cup (avail \cap Of({centre}))]
  <2>1. /\ after \in Readings
        /\ after.whole = cycle.read.whole \cup {centre}
        /\ after.slots = cycle.read.slots \cup (avail \cap Of({centre}))
    <3> HIDE DEF read
    <3> QED
      BY <1>2, <1>3 DEF Readings
  <2>2. cycle' = [cycle EXCEPT !.read = after]
    BY <1>4
  <2> QED
    <3> HIDE DEF after, read
    <3> QED
      BY <1>2, <2>1, <2>2 DEF TypeOK
<1>5. ASSUME NEW forbidden \in BOOLEAN,
             cycle' = [cycle EXCEPT !.read = [read EXCEPT !.forbidden = @ \/ forbidden]]
      PROVE  /\ cycle' \in [read: Readings, recovered: BOOLEAN]
             /\ cycle'.recovered = cycle.recovered
             /\ UNCHANGED <<cycle.read.whole, cycle.read.slots>>
  <2> DEFINE after == [read EXCEPT !.forbidden = @ \/ forbidden]
  <2>1. /\ after \in Readings
        /\ after.whole = cycle.read.whole /\ after.slots = cycle.read.slots
    <3> HIDE DEF read
    <3> QED
      BY <1>2, <1>3 DEF Readings
  <2>2. cycle' = [cycle EXCEPT !.read = after]
    BY <1>5
  <2> QED
    <3> HIDE DEF after, read
    <3> QED
      BY <2>1, <2>2 DEF TypeOK
<1> QED
  BY <1>1, <1>2, <1>4, <1>5

-----------------------------------------------------------------------------
(* Type correctness *)

\* A slot is read only with its centre: this keeps the memory one of the
\* centres that were seen.
ReadWithTheirCentres == cycle.read.slots \subseteq Of(cycle.read.whole)

LEMMA OfGrows ==
  /\ Of({}) = {}
  /\ \A a, b : Of(a \cup b) = Of(a) \cup Of(b) /\ (a \subseteq b => Of(a) \subseteq Of(b))
  /\ \A a : a \subseteq Centres => Of(a) \subseteq Keys
BY DEF Of, Keys

\* Every step of the process, of the database and of HSC keeps the types.
LEMMA TypeInductive ==
  TypeOK /\ ReadWithTheirCentres /\ [Next]_vars => TypeOK' /\ ReadWithTheirCentres'
<1> SUFFICES ASSUME TypeOK, ReadWithTheirCentres, [Next]_vars
             PROVE  TypeOK' /\ ReadWithTheirCentres'
  OBVIOUS
<1> USE DEF ReadWithTheirCentres, world, observed, process
<1>1. CASE StartProcess
  <2>1. NewCycle \in [read: Readings, recovered: BOOLEAN] /\ NewCycle.read.slots = {}
    BY Values DEF NewCycle, NoRead
  <2>2. [last |-> NoJar, degraded |-> FALSE] \in Persisters
    BY Values DEF Persisters
  <2>3. NoMemory \in [seen: SUBSET Centres, slots: SUBSET Keys] /\ NoMemory.slots = {}
        /\ NoDiff \in [added: SUBSET Keys, removed: SUBSET Keys]
    BY DEF NoMemory, NoDiff
  <2> QED
    BY <1>1, <2>1, <2>2, <2>3, Values DEF StartProcess, TypeOK, PCs
<1>2. CASE NothingPersisted
  BY <1>2 DEF NothingPersisted, TypeOK, PCs
<1>3. CASE PersistedExpired
  <2>1. session' \in SessionDocuments
    BY <1>3, Values DEF PersistedExpired, TypeOK
  <2>2. dbFailed' \in BOOLEAN
    BY <1>3 DEF PersistedExpired
  <2> QED
    BY <1>3, <2>1, <2>2 DEF PersistedExpired, TypeOK, PCs
<1>4. CASE Restore
  <2>1. client' \in Jar
    BY <1>4 DEF Restore, TypeOK, SessionDocuments, Jar
  <2>2. persister' \in Persisters
    BY <1>4, <2>1 DEF Restore, TypeOK, Persisters
  <2> QED
    BY <1>4, <2>1, <2>2 DEF Restore, TypeOK, PCs
<1>5. CASE CreateSession
  <2>1. logins' \in Login /\ client' \in Jar
    BY <1>5, BoundsAssumption DEF CreateSession, TypeOK, Login, Jar
  <2>2. persister' \in Persisters
    BY <1>5, Values DEF CreateSession, TypeOK, Persisters
  <2>3. browsers' \in Nat
    BY <1>5 DEF CreateSession, TypeOK
  <2> QED
    BY <1>5, <2>1, <2>2, <2>3 DEF CreateSession, TypeOK, PCs
<1>6. CASE CreateSessionFails
  <2>1. browsers' \in Nat
    BY <1>6 DEF CreateSessionFails, TypeOK
  <2> QED
    BY <1>6, <2>1 DEF CreateSessionFails, TypeOK, PCs
<1>7. CASE PersistAdopted
  <2>1. Writes(client, "departments") \/ Writes(client, "sleep")
    BY <1>7 DEF PersistAdopted
  <2>2. witness' \in [present: SUBSET Keys, absent: SUBSET Keys]
    BY <1>7 DEF PersistAdopted, TypeOK
  <2> QED
    BY <2>1, <2>2, WritesIs DEF TypeOK, PCs
<1>8. CASE ReadDepartments
  <2>1. client' \in Jar
    BY <1>8, RotatedType DEF ReadDepartments
  <2> QED
    BY <1>8, <2>1, ReadDepartmentsIs DEF ReadDepartments, TypeOK, PCs
<1>9. CASE ReadCentre
  <2>1. client' \in Jar
    BY <1>9, RotatedType DEF ReadCentre
  <2>2. cycle' \in [read: Readings, recovered: BOOLEAN]
    BY <1>9, ReadCentreIs
  <2>3. ReadWithTheirCentres'
    <3>1. CASE UNCHANGED <<cycle.read.whole, cycle.read.slots>>
      BY <3>1
    <3>2. ASSUME NEW centre \in Centres,
                 cycle'.read.whole = cycle.read.whole \cup {centre},
                 cycle'.read.slots = cycle.read.slots \cup (avail \cap Of({centre}))
          PROVE  ReadWithTheirCentres'
      <4>1. Of(cycle'.read.whole) = Of(cycle.read.whole) \cup Of({centre})
        BY <3>2, OfGrows
      <4> QED
        BY <3>2, <4>1
    <3> QED
      BY <1>9, <3>1, <3>2, ReadCentreIs
  <2> QED
    BY <1>9, <2>1, <2>2, <2>3 DEF ReadCentre, TypeOK, PCs
<1>10. CASE JarUnchanged
  BY <1>10 DEF JarUnchanged, TypeOK, PCs, AfterResponse
<1>11. CASE PersistJar
  <2>1. Writes(client, AfterResponse) /\ witness' = witness
    BY <1>11 DEF PersistJar
  <2>2. AfterResponse \in PCs
    BY DEF AfterResponse, PCs
  <2> QED
    BY <2>1, <2>2, WritesIs DEF TypeOK
<1>12. CASE Recover
  <2>1. session' \in SessionDocuments
    BY <1>12, Values DEF Recover, TypeOK
  <2>2. dbFailed' \in BOOLEAN
    BY <1>12 DEF Recover
  <2>3. persister' \in Persisters
    BY <1>12, Values DEF Recover, TypeOK, Persisters
  <2>4. cycle' \in [read: Readings, recovered: BOOLEAN] /\ cycle'.read = cycle.read
    BY <1>12 DEF Recover, TypeOK
  <2> QED
    BY <1>12, <2>1, <2>2, <2>3, <2>4, Values DEF Recover, TypeOK, PCs
<1>13. CASE Apply
  <2>1. /\ cycle.read.whole \subseteq Centres /\ cycle.read.slots \subseteq Keys
        /\ memory.seen \subseteq Centres /\ memory.slots \subseteq Keys
        /\ memory.slots \subseteq Of(memory.seen)
    BY DEF TypeOK, Readings
  <2>2. /\ memory'.seen = memory.seen \cup cycle.read.whole
        /\ memory'.slots = (memory.slots \ Of(cycle.read.whole)) \cup cycle.read.slots
        /\ memory' = [seen |-> memory'.seen, slots |-> memory'.slots]
    BY <1>13 DEF Apply, SeenAfter, Replaced
  <2>3. memory'.slots \subseteq Of(memory'.seen)
    BY <2>1, <2>2, OfGrows
  <2>4. memory' \in [seen: SUBSET Centres, slots: SUBSET Keys]
    BY <2>1, <2>2
  <2>5. diff' \in [added: SUBSET Keys, removed: SUBSET Keys]
    BY <1>13, <2>1 DEF Apply
  <2> QED
    BY <1>13, <2>3, <2>4, <2>5 DEF Apply, TypeOK, PCs
<1>14. CASE Report
  BY <1>14 DEF Report, TypeOK, PCs, NoDiff
<1>15. CASE StartCycle
  <2>1. NewCycle \in [read: Readings, recovered: BOOLEAN] /\ NewCycle.read.slots = {}
    BY Values DEF NewCycle, NoRead
  <2>2. witness' \in [present: SUBSET Keys, absent: SUBSET Keys]
    BY <1>15 DEF StartCycle, TypeOK
  <2> QED
    BY <1>15, <2>1, <2>2 DEF StartCycle, TypeOK, PCs
<1>16. CASE Stop
  BY <1>16 DEF Stop, TypeOK, PCs
<1>17. CASE ChangeAvailability
  <2>1. avail' \subseteq Keys
    BY <1>17 DEF ChangeAvailability, TypeOK
  <2>2. witness' \in [present: SUBSET Keys, absent: SUBSET Keys]
    BY <1>17, <2>1 DEF ChangeAvailability, TypeOK
  <2> QED
    BY <1>17, <2>1, <2>2 DEF ChangeAvailability, TypeOK
<1>18. CASE SessionExpires
  <2>1. session' \in SessionDocuments
    BY <1>18 DEF SessionExpires, TypeOK, SessionDocuments
  <2> QED
    BY <1>18, <2>1 DEF SessionExpires, TypeOK
<1>19. CASE UNCHANGED vars
  BY <1>19 DEF vars, TypeOK
<1> QED
  BY <1>1, <1>2, <1>3, <1>4, <1>5, <1>6, <1>7, <1>8, <1>9, <1>10, <1>11, <1>12, <1>13,
     <1>14, <1>15, <1>16, <1>17, <1>18, <1>19 DEF Next

\* Whatever HSC, the browser and the database do, the memory holds slots of
\* centres that were seen, and a cycle's reading slots of the centres it read.
THEOREM TypeCorrect == Spec => [](TypeOK /\ ReadWithTheirCentres)
<1>1. Init => TypeOK /\ ReadWithTheirCentres
  <2> SUFFICES ASSUME Init PROVE TypeOK /\ ReadWithTheirCentres
    OBVIOUS
  <2>1. NewCycle \in [read: Readings, recovered: BOOLEAN] /\ NewCycle.read.slots = {}
    BY Values DEF NewCycle, NoRead
  <2>2. [last |-> NoJar, degraded |-> FALSE] \in Persisters
    BY Values DEF Persisters
  <2>3. NoMemory \in [seen: SUBSET Centres, slots: SUBSET Keys] /\ NoMemory.slots = {}
        /\ NoDiff \in [added: SUBSET Keys, removed: SUBSET Keys]
        /\ NoWitness \in [present: SUBSET Keys, absent: SUBSET Keys]
    BY DEF NoMemory, NoDiff, NoWitness
  <2>4. pc \in PCs /\ mongo \in BOOLEAN /\ dbFailed \in BOOLEAN /\ browsers \in Nat
    BY DEF Init, PCs
  <2> QED
    BY <2>1, <2>2, <2>3, <2>4, Values DEF Init, TypeOK, ReadWithTheirCentres
<1> QED
  BY <1>1, TypeInductive, PTL DEF Spec

-----------------------------------------------------------------------------
(* One browser *)

\* A cycle that has not recovered has opened no browser, and one that is about
\* to has spent its recovery.
OneBrowserInv ==
    /\ OneBrowserPerCycle
    /\ ~cycle.recovered => browsers = 0
    /\ pc = "mint" => cycle.recovered /\ browsers = 0

LEMMA OneBrowserInductive == TypeOK /\ OneBrowserInv /\ [Next]_vars => OneBrowserInv'
<1> SUFFICES ASSUME TypeOK, OneBrowserInv, [Next]_vars
             PROVE  OneBrowserInv'
  OBVIOUS
<1>0. /\ browsers <= 1 /\ browsers \in Nat
      /\ ~cycle.recovered => browsers = 0
      /\ pc = "mint" => cycle.recovered /\ browsers = 0
  BY DEF OneBrowserInv, OneBrowserPerCycle, TypeOK
<1> USE DEF OneBrowserInv, OneBrowserPerCycle, world, observed, process
<1>1. CASE StartProcess
  BY <1>1 DEF StartProcess, NewCycle
<1>2. CASE NothingPersisted
  BY <1>0, <1>2 DEF NothingPersisted
<1>3. CASE PersistedExpired
  BY <1>0, <1>3 DEF PersistedExpired
<1>4. CASE Restore
  BY <1>0, <1>4 DEF Restore
<1>5. CASE CreateSession
  BY <1>0, <1>5 DEF CreateSession
<1>6. CASE CreateSessionFails
  BY <1>0, <1>6 DEF CreateSessionFails
<1>7. CASE PersistAdopted
  <2>1. Writes(client, "departments") \/ Writes(client, "sleep")
    BY <1>7 DEF PersistAdopted
  <2>2. pc' \in {"departments", "sleep"} /\ UNCHANGED <<cycle, browsers>>
    BY <2>1 DEF Writes
  <2> QED
    BY <1>0, <2>2
<1>8. CASE ReadDepartments
  BY <1>0, <1>8, ReadDepartmentsIs DEF ReadDepartments
<1>9. CASE ReadCentre
  BY <1>0, <1>9, ReadCentreIs DEF ReadCentre
<1>10. CASE JarUnchanged
  BY <1>0, <1>10 DEF JarUnchanged, AfterResponse
<1>11. CASE PersistJar
  <2>1. pc' \in {"decide", "read"} /\ UNCHANGED <<cycle, browsers>>
    BY <1>11 DEF PersistJar, Writes, AfterResponse
  <2> QED
    BY <1>0, <2>1
<1>12. CASE Recover
  <2>1. ~cycle.recovered /\ cycle'.recovered /\ browsers' = browsers
    BY <1>12 DEF Recover, NeedsRecovery, TypeOK
  <2> QED
    BY <1>0, <2>1
<1>13. CASE Apply
  BY <1>0, <1>13 DEF Apply
<1>14. CASE Report
  BY <1>0, <1>14 DEF Report
<1>15. CASE StartCycle
  BY <1>0, <1>15 DEF StartCycle, NewCycle
<1>16. CASE Stop
  BY <1>0, <1>16 DEF Stop
<1>17. CASE ChangeAvailability
  BY <1>0, <1>17 DEF ChangeAvailability
<1>18. CASE SessionExpires
  BY <1>0, <1>18 DEF SessionExpires
<1>19. CASE UNCHANGED vars
  BY <1>0, <1>19 DEF vars
<1> QED
  BY <1>1, <1>2, <1>3, <1>4, <1>5, <1>6, <1>7, <1>8, <1>9, <1>10, <1>11, <1>12, <1>13,
     <1>14, <1>15, <1>16, <1>17, <1>18, <1>19 DEF Next

\* One cycle opens at most one browser, however often HSC refuses the session
\* it has just been given.
THEOREM OneRecovery == Spec => []OneBrowserPerCycle
<1>1. Init => OneBrowserInv
  BY DEF Init, OneBrowserInv, OneBrowserPerCycle, NewCycle
<1>2. OneBrowserInv => OneBrowserPerCycle
  BY DEF OneBrowserInv
<1> QED
  BY <1>1, <1>2, OneBrowserInductive, TypeCorrect, PTL DEF Spec

-----------------------------------------------------------------------------
(* What a quiet report means *)

\* The jar the persister last wrote is the one in the document, unless a write
\* has failed since; after the last response of a cycle it is the jar in use.
StoredInv ==
    /\ persister.last.login # 0 /\ ~persister.degraded =>
          session.login = persister.last.login /\ session.jar = persister.last.jar
    /\ pc \in {"decide", "report"} /\ ~persister.degraded => persister.last = client
    /\ pc = "load" => persister.last = NoJar
    /\ pc \in {"adopted", "departments", "read", "persist", "decide", "report"} =>
          client.login # 0

LEMMA StoredInductive == TypeOK /\ StoredInv /\ [Next]_vars => StoredInv'
<1> SUFFICES ASSUME TypeOK, StoredInv, [Next]_vars
             PROVE  StoredInv'
  OBVIOUS
<1>0. /\ persister.last.login # 0 /\ ~persister.degraded =>
            session.login = persister.last.login /\ session.jar = persister.last.jar
      /\ pc \in {"decide", "report"} /\ ~persister.degraded => persister.last = client
      /\ pc = "load" => persister.last = NoJar
      /\ pc \in {"adopted", "departments", "read", "persist", "decide", "report"} =>
            client.login # 0
  BY DEF StoredInv
<1>01. NoJar.login = 0
  BY DEF NoJar
<1> USE DEF StoredInv, world, observed, process
<1>1. CASE StartProcess
  BY <1>01, <1>1 DEF StartProcess
<1>2. CASE NothingPersisted
  BY <1>0, <1>2 DEF NothingPersisted
<1>3. CASE PersistedExpired
  <2>1. pc = "load" /\ pc' = "start" /\ UNCHANGED <<client, persister>>
    BY <1>3 DEF PersistedExpired
  <2> QED
    BY <1>0, <1>01, <2>1
<1>4. CASE Restore
  <2>1. pc' = "sleep" /\ UNCHANGED session
    BY <1>4 DEF Restore
  <2>2. persister'.last.login = session.login /\ persister'.last.jar = session.jar
    BY <1>4 DEF Restore, TypeOK, Persisters
  <2> QED
    BY <2>1, <2>2
<1>5. CASE CreateSession
  <2>1. persister'.last = NoJar /\ pc' = "adopted"
    BY <1>5 DEF CreateSession, TypeOK, Persisters
  <2>2. client'.login # 0
    BY <1>5 DEF CreateSession, TypeOK, Login
  <2> QED
    BY <1>01, <2>1, <2>2
<1>6. CASE CreateSessionFails
  BY <1>0, <1>6 DEF CreateSessionFails
<1>7. CASE PersistAdopted
  <2>1. pc = "adopted" /\ (Writes(client, "departments") \/ Writes(client, "sleep"))
    BY <1>7 DEF PersistAdopted
  <2>2. /\ pc' \in {"departments", "sleep"} /\ client' = client
        /\ ~persister'.degraded => persister'.last = client /\ session' = Sealed(client)
    BY <2>1, WritesIs DEF PCs
  <2>3. Sealed(client).login = client.login /\ Sealed(client).jar = client.jar
    BY DEF Sealed
  <2> QED
    BY <1>0, <2>1, <2>2, <2>3
<1>8. CASE ReadDepartments
  <2>1. client'.login = client.login
    BY <1>8, RotatedType DEF ReadDepartments
  <2> QED
    BY <1>0, <1>8, <2>1 DEF ReadDepartments
<1>9. CASE ReadCentre
  <2>1. client'.login = client.login
    BY <1>9, RotatedType DEF ReadCentre
  <2> QED
    BY <1>0, <1>9, <2>1 DEF ReadCentre
<1>10. CASE JarUnchanged
  BY <1>0, <1>10 DEF JarUnchanged, AfterResponse
<1>11. CASE PersistJar
  <2>1. pc = "persist" /\ Writes(client, AfterResponse)
    BY <1>11 DEF PersistJar
  <2>2. AfterResponse \in {"decide", "read"} /\ AfterResponse \in PCs
    BY DEF AfterResponse, PCs
  <2>3. /\ pc' \in {"decide", "read"} /\ client' = client
        /\ ~persister'.degraded => persister'.last = client /\ session' = Sealed(client)
    BY <2>1, <2>2, WritesIs
  <2>4. Sealed(client).login = client.login /\ Sealed(client).jar = client.jar
    BY DEF Sealed
  <2> QED
    BY <1>0, <2>1, <2>3, <2>4
<1>12. CASE Recover
  <2>1. persister'.last = NoJar /\ pc' = "mint"
    BY <1>12 DEF Recover, TypeOK, Persisters
  <2> QED
    BY <1>01, <2>1
<1>13. CASE Apply
  BY <1>0, <1>13 DEF Apply
<1>14. CASE Report
  BY <1>0, <1>14 DEF Report
<1>15. CASE StartCycle
  BY <1>0, <1>15 DEF StartCycle
<1>16. CASE Stop
  BY <1>0, <1>16 DEF Stop
<1>17. CASE ChangeAvailability
  BY <1>0, <1>17 DEF ChangeAvailability
<1>18. CASE SessionExpires
  <2>1. session'.login = session.login /\ session'.jar = session.jar
    BY <1>18 DEF SessionExpires, TypeOK, SessionDocuments
  <2> QED
    BY <1>0, <1>18, <2>1 DEF SessionExpires
<1>19. CASE UNCHANGED vars
  BY <1>0, <1>19 DEF vars
<1> QED
  BY <1>1, <1>2, <1>3, <1>4, <1>5, <1>6, <1>7, <1>8, <1>9, <1>10, <1>11, <1>12, <1>13,
     <1>14, <1>15, <1>16, <1>17, <1>18, <1>19 DEF Next

\* A report without the degraded line means the next run can pick up the very
\* session this one is using, after a recovery as well as without one.
THEOREM QuietIsStored == Spec => []QuietMeansStored
<1>1. Init => StoredInv
  BY DEF Init, StoredInv, NoJar
<1>2. StoredInv => QuietMeansStored
  BY DEF StoredInv, QuietMeansStored
<1> QED
  BY <1>1, <1>2, StoredInductive, TypeCorrect, PTL DEF Spec

-----------------------------------------------------------------------------
(* What is reported was there *)

\* The observer has seen what is free for as long as a read goes on; what the
\* read holds, and what it says is absent, the observer has seen; and there is
\* something to report only where it is reported.
WitnessInv ==
    /\ pc \in Reading => avail \subseteq witness.present /\ Keys \ avail \subseteq witness.absent
    /\ pc \in {"read", "persist", "decide"} =>
          /\ cycle.read.slots \subseteq witness.present
          /\ Of(cycle.read.whole) \ cycle.read.slots \subseteq witness.absent
    /\ pc \notin {"report", "down"} => diff = NoDiff
    /\ ChangesWereReal

LEMMA WitnessInductive == TypeOK /\ WitnessInv /\ [Next]_vars => WitnessInv'
<1> SUFFICES ASSUME TypeOK, WitnessInv, [Next]_vars
             PROVE  WitnessInv'
  OBVIOUS
<1>0. /\ pc \in Reading =>
            avail \subseteq witness.present /\ Keys \ avail \subseteq witness.absent
      /\ pc \in {"read", "persist", "decide"} =>
            /\ cycle.read.slots \subseteq witness.present
            /\ Of(cycle.read.whole) \ cycle.read.slots \subseteq witness.absent
      /\ pc \notin {"report", "down"} => diff = NoDiff
      /\ diff.added \subseteq witness.present /\ diff.removed \subseteq witness.absent
  BY DEF WitnessInv, ChangesWereReal
<1>01. NoDiff.added = {} /\ NoDiff.removed = {} /\ NoDiff = [added |-> {}, removed |-> {}]
  BY DEF NoDiff
<1> USE DEF WitnessInv, ChangesWereReal, Reading, world, observed, process
<1>1. CASE StartProcess
  BY <1>01, <1>1 DEF StartProcess
<1>2. CASE NothingPersisted
  BY <1>0, <1>2 DEF NothingPersisted
<1>3. CASE PersistedExpired
  BY <1>0, <1>3 DEF PersistedExpired
<1>4. CASE Restore
  BY <1>0, <1>4 DEF Restore
<1>5. CASE CreateSession
  BY <1>0, <1>5 DEF CreateSession
<1>6. CASE CreateSessionFails
  BY <1>0, <1>6 DEF CreateSessionFails
<1>7. CASE PersistAdopted
  <2>1. pc = "adopted" /\ (Writes(client, "departments") \/ Writes(client, "sleep"))
        /\ witness' = [present |-> avail, absent |-> Keys \ avail]
    BY <1>7 DEF PersistAdopted
  <2>2. pc' \in {"departments", "sleep"} /\ UNCHANGED <<diff, avail>>
    BY <2>1, WritesIs DEF PCs
  <2> QED
    BY <1>0, <1>01, <2>1, <2>2
<1>8. CASE ReadDepartments
  <2>1. /\ pc = "departments" /\ pc' = "persist" /\ UNCHANGED <<diff, avail, witness>>
    BY <1>8 DEF ReadDepartments
  <2>2. cycle'.read.slots = {} /\ Of(cycle'.read.whole) = {}
    BY <1>8, ReadDepartmentsIs, OfGrows
  <2> QED
    BY <1>0, <1>01, <2>1, <2>2
<1>9. CASE ReadCentre
  <2>1. pc = "read" /\ pc' = "persist" /\ UNCHANGED <<diff, avail, witness>>
    BY <1>9 DEF ReadCentre
  <2>2. CASE UNCHANGED <<cycle.read.whole, cycle.read.slots>>
    BY <1>0, <2>1, <2>2
  <2>3. ASSUME NEW centre \in Centres,
               cycle'.read.whole = cycle.read.whole \cup {centre},
               cycle'.read.slots = cycle.read.slots \cup (avail \cap Of({centre}))
        PROVE  WitnessInv'
    <3>1. Of(cycle'.read.whole) = Of(cycle.read.whole) \cup Of({centre})
          /\ Of({centre}) \subseteq Keys
      BY <2>3, OfGrows
    <3>2. cycle'.read.slots \subseteq witness.present
          /\ Of(cycle'.read.whole) \ cycle'.read.slots \subseteq witness.absent
      BY <1>0, <2>1, <2>3, <3>1
    <3> QED
      BY <1>0, <2>1, <3>2
  <2> QED
    BY <1>9, <2>2, <2>3, ReadCentreIs
<1>10. CASE JarUnchanged
  BY <1>0, <1>10 DEF JarUnchanged, AfterResponse
<1>11. CASE PersistJar
  <2>1. pc = "persist" /\ Writes(client, AfterResponse) /\ witness' = witness
    BY <1>11 DEF PersistJar
  <2>2. AfterResponse \in {"decide", "read"} /\ AfterResponse \in PCs
    BY DEF AfterResponse, PCs
  <2>3. pc' \in {"decide", "read"} /\ UNCHANGED <<cycle, diff, avail>>
    BY <2>1, <2>2, WritesIs
  <2> QED
    BY <1>0, <2>1, <2>3
<1>12. CASE Recover
  BY <1>0, <1>12 DEF Recover
<1>13. CASE Apply
  <2>1. pc = "decide" /\ pc' = "report" /\ witness' = witness
    BY <1>13 DEF Apply
  <2>2. /\ diff'.added \subseteq cycle.read.slots
        /\ diff'.removed \subseteq Of(cycle.read.whole \cap memory.seen) \ cycle.read.slots
    BY <1>13 DEF Apply, Replaced
  <2>3. Of(cycle.read.whole \cap memory.seen) \subseteq Of(cycle.read.whole)
    BY DEF Of
  <2> QED
    BY <1>0, <2>1, <2>2, <2>3
<1>14. CASE Report
  BY <1>0, <1>01, <1>14 DEF Report
<1>15. CASE StartCycle
  BY <1>0, <1>01, <1>15 DEF StartCycle
<1>16. CASE Stop
  BY <1>0, <1>16 DEF Stop
<1>17. CASE ChangeAvailability
  <2>1. UNCHANGED <<pc, cycle, diff>>
    BY <1>17 DEF ChangeAvailability
  <2>2. CASE pc \notin Reading
    BY <1>0, <1>17, <2>1, <2>2 DEF ChangeAvailability
  <2>3. CASE pc \in Reading
    <3>1. /\ witness'.present = witness.present \cup avail'
          /\ witness'.absent = witness.absent \cup (Keys \ avail')
      BY <1>17, <2>3 DEF ChangeAvailability
    <3> QED
      BY <1>0, <1>01, <2>1, <2>3, <3>1
  <2> QED
    BY <2>2, <2>3
<1>18. CASE SessionExpires
  BY <1>0, <1>18 DEF SessionExpires
<1>19. CASE UNCHANGED vars
  BY <1>0, <1>19 DEF vars
<1> QED
  BY <1>1, <1>2, <1>3, <1>4, <1>5, <1>6, <1>7, <1>8, <1>9, <1>10, <1>11, <1>12, <1>13,
     <1>14, <1>15, <1>16, <1>17, <1>18, <1>19 DEF Next

\* A slot reported as new or as gone was free, or not free, during the read
\* that says so: a centre that was not read whole reports nothing, and a second
\* read after a recovery is compared with what it has itself seen.
THEOREM ReportsAreReal == Spec => []ChangesWereReal
<1>1. Init => WitnessInv
  BY DEF Init, WitnessInv, ChangesWereReal, Reading, NoDiff
<1>2. WitnessInv => ChangesWereReal
  BY DEF WitnessInv
<1> QED
  BY <1>1, <1>2, WitnessInductive, TypeCorrect, PTL DEF Spec

=============================================================================

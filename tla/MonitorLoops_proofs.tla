-------------------------- MODULE MonitorLoops_proofs --------------------------
(***************************************************************************)
(* What holds of the two monitors that run until they are stopped.  Of the *)
(* browser monitor, for every number of centres and slots, every cooldown  *)
(* and every retention that is no shorter: the memory neither silences a   *)
(* free slot for longer than the cooldown nor lets one be alerted twice    *)
(* within it.  Of the process around the headless scan, for every          *)
(* configuration and everything a scan may find: why it stops, what its    *)
(* exit code says, and what the recipients of a report have been sent.     *)
(***************************************************************************)
EXTENDS BrowserMonitor, MonitorLoop, TLAPS

-----------------------------------------------------------------------------
(* Ages *)

\* The age of a memory, after a tick: it grows until it is beyond Retention.
LEMMA OlderIs ==
  ASSUME NEW memory \in [Keys -> Ages]
  PROVE  /\ Older(memory) \in [Keys -> Ages]
         /\ \A k \in Keys : \/ memory[k] < Oldest /\ Older(memory)[k] = memory[k] + 1
                            \/ memory[k] >= Oldest /\ Older(memory)[k] = memory[k]
<1>1. ASSUME NEW k \in Keys
      PROVE  /\ Older(memory)[k] \in Ages
             /\ \/ memory[k] < Oldest /\ Older(memory)[k] = memory[k] + 1
                \/ memory[k] >= Oldest /\ Older(memory)[k] = memory[k]
  <2>1. memory[k] \in Ages
    OBVIOUS
  <2>2. Older(memory)[k] = IF memory[k] < Oldest THEN memory[k] + 1 ELSE memory[k]
    BY DEF Older
  <2> QED
    BY <2>1, <2>2, MonitorAssumption DEF Ages, Oldest, Never
<1>2. Older(memory) = [k \in Keys |-> Older(memory)[k]]
  BY DEF Older
<1> QED
  BY <1>1, <1>2

LEMMA MarkedIs ==
  ASSUME seen \in [Keys -> Ages], NEW keys
  PROVE  /\ Marked(keys) \in [Keys -> Ages]
         /\ \A k \in keys \cap Keys : Marked(keys)[k] = 0
         /\ \A k \in Keys \ keys : Marked(keys)[k] = IF seen[k] = Oldest THEN Never ELSE seen[k]
<1>1. 0 \in Ages /\ Never \in Ages
  BY MonitorAssumption DEF Ages, Oldest, Never
<1> QED
  BY <1>1 DEF Marked

-----------------------------------------------------------------------------
(* Type correctness *)

\* A centre is reported and saved only while it is one of them: this is why the
\* next one may be counted up to.
Within == monitor.at \in {"reporting", "saving"} => monitor.centre <= Centres

LEMMA GoesTo ==
  ASSUME TypeOK, NEW place \in Places, Go(place)
  PROVE  monitor' \in Monitors /\ monitor'.at = place /\ monitor'.centre = monitor.centre
         /\ monitor'.dryRun = monitor.dryRun
BY DEF TypeOK, Monitors, Go

LEMMA GoesOn ==
  ASSUME TypeOK, monitor.centre <= Centres, NextCentre
  PROVE  monitor' \in Monitors /\ monitor'.at = "centre" /\ monitor'.dryRun = monitor.dryRun
<1>1. monitor.centre + 1 \in 1 .. Centres + 1
  BY MonitorAssumption DEF TypeOK, Monitors
<1> QED
  BY <1>1 DEF TypeOK, Monitors, NextCentre, Places

LEMMA IsCut ==
  ASSUME TypeOK, CutShort
  PROVE  monitor' \in Monitors /\ monitor'.at = "pausing" /\ monitor'.dryRun = monitor.dryRun
BY DEF TypeOK, Monitors, CutShort, Places

LEMMA StartsOver ==
  ASSUME TypeOK, NEW place \in Places,
         monitor' = [monitor EXCEPT !.at = place, !.centre = 1, !.cut = FALSE]
  PROVE  monitor' \in Monitors /\ monitor'.at = place /\ monitor'.dryRun = monitor.dryRun
<1>1. 1 \in 1 .. Centres + 1
  BY MonitorAssumption
<1> QED
  BY <1>1 DEF TypeOK, Monitors

\* Where each action leaves the monitor.
LEMMA Moves ==
  ASSUME TypeOK, Within
  PROVE  /\ Load => monitor.at = "starting" /\ monitor'.at = "login"
         /\ FirstLogin => monitor.at = "login" /\ monitor'.at \in {"centre", "ended"}
         /\ CentreFails => monitor.at = "centre" /\ monitor'.at \in {"centre", "pausing"}
         /\ \A slots : CentreRead(slots) =>
               monitor.at = "centre" /\ monitor.centre <= Centres
               /\ IF SelectNew(slots) = {} THEN monitor'.at = "centre"
                  ELSE monitor'.at = "reporting" /\ monitor'.centre = monitor.centre
         /\ Record => monitor.at = "reporting"
               /\ IF monitor.dryRun THEN monitor'.at = "centre"
                  ELSE monitor'.at = "saving" /\ monitor'.centre = monitor.centre
         /\ Save => monitor.at = "saving" /\ monitor'.at \in {"centre", "pausing"}
         /\ AllVisited => monitor.at = "centre" /\ monitor'.at = "pausing"
         /\ Pause => monitor.at = "pausing" /\ monitor'.at \in {"centre", "ended"}
         /\ Die => monitor'.at = "dead"
         /\ Restart => monitor.at = "dead" /\ monitor'.at = "starting"
<1> USE DEF At, InCentre, Within, Places
<1>1. Load => monitor.at = "starting" /\ monitor'.at = "login"
  BY GoesTo DEF Load
<1>2. FirstLogin => monitor.at = "login" /\ monitor'.at \in {"centre", "ended"}
  BY GoesTo DEF FirstLogin
<1>3. CentreFails => monitor.at = "centre" /\ monitor'.at \in {"centre", "pausing"}
  BY GoesOn, IsCut DEF CentreFails
<1>4. ASSUME NEW slots, CentreRead(slots)
      PROVE  monitor.at = "centre" /\ monitor.centre <= Centres
             /\ IF SelectNew(slots) = {} THEN monitor'.at = "centre"
                ELSE monitor'.at = "reporting" /\ monitor'.centre = monitor.centre
  BY <1>4, GoesTo, GoesOn DEF CentreRead
<1>5. Record => monitor.at = "reporting"
               /\ IF monitor.dryRun THEN monitor'.at = "centre"
                  ELSE monitor'.at = "saving" /\ monitor'.centre = monitor.centre
  BY GoesTo, GoesOn DEF Record
<1>6. Save => monitor.at = "saving" /\ monitor'.at \in {"centre", "pausing"}
  BY GoesOn, IsCut DEF Save
<1>7. AllVisited => monitor.at = "centre" /\ monitor'.at = "pausing"
  BY GoesTo DEF AllVisited
<1>8. Pause => monitor.at = "pausing" /\ monitor'.at \in {"centre", "ended"}
  BY GoesTo, StartsOver DEF Pause
<1>9. Die => monitor'.at = "dead"
  BY GoesTo DEF Die
<1>10. Restart => monitor.at = "dead" /\ monitor'.at = "starting"
  BY StartsOver DEF Restart
<1> QED
  BY <1>1, <1>2, <1>3, <1>4, <1>5, <1>6, <1>7, <1>8, <1>9, <1>10

\* The monitor stays a monitor, and a dry run a dry run.
LEMMA MonitorType ==
  ASSUME TypeOK, Within, [Next]_vars
  PROVE  monitor' \in Monitors /\ monitor'.dryRun = monitor.dryRun
<1> USE DEF At, InCentre, Within, Places
<1>1. CASE Load
  BY <1>1, GoesTo DEF Load
<1>2. CASE FirstLogin
  BY <1>2, GoesTo DEF FirstLogin
<1>3. CASE CentreFails
  BY <1>3, GoesOn, IsCut DEF CentreFails
<1>4. ASSUME NEW slots, CentreRead(slots)
      PROVE  monitor' \in Monitors /\ monitor'.dryRun = monitor.dryRun
  BY <1>4, GoesTo, GoesOn DEF CentreRead
<1>5. CASE Send
  BY <1>5 DEF Send, TypeOK
<1>6. CASE Record
  BY <1>6, GoesTo, GoesOn DEF Record
<1>7. CASE Save
  BY <1>7, GoesOn, IsCut DEF Save
<1>8. CASE AllVisited
  BY <1>8, GoesTo DEF AllVisited
<1>9. CASE Pause
  BY <1>9, GoesTo, StartsOver DEF Pause
<1>10. CASE Die
  BY <1>10, GoesTo DEF Die
<1>11. CASE Restart
  BY <1>11, StartsOver DEF Restart
<1>12. CASE UNCHANGED vars
  BY <1>12 DEF vars, TypeOK
<1> QED
  BY <1>1, <1>2, <1>3, <1>4, <1>5, <1>6, <1>7, <1>8, <1>9, <1>10, <1>11, <1>12 DEF Next, Works

\* Every operation of the monitor, its death and its restart keep the types.
LEMMA TypeInductive == TypeOK /\ Within /\ [Next]_vars => TypeOK' /\ Within'
<1> SUFFICES ASSUME TypeOK, Within, [Next]_vars
             PROVE  TypeOK' /\ Within'
  OBVIOUS
<1>0. monitor' \in Monitors /\ monitor'.dryRun = monitor.dryRun
  BY MonitorType
<1> USE DEF Within
<1>1. CASE Load
  BY <1>0, <1>1, Moves DEF Load, TypeOK
<1>2. CASE FirstLogin
  BY <1>0, <1>2, Moves DEF FirstLogin, TypeOK
<1>3. CASE CentreFails
  BY <1>0, <1>3, Moves DEF CentreFails, TypeOK
<1>4. ASSUME NEW slots \in SUBSET KeysOf(monitor.centre), CentreRead(slots)
      PROVE  TypeOK' /\ Within'
  <2>1. slots \subseteq Keys /\ SelectNew(slots) \subseteq Keys
    BY DEF KeysOf, SelectNew
  <2>2. fresh' \in [keys: SUBSET Keys, left: SUBSET Notifiers]
    BY <1>4, <2>1 DEF CentreRead, TypeOK
  <2>3. Within'
    BY <1>4, Moves
  <2> QED
    BY <1>0, <1>4, <2>1, <2>2, <2>3 DEF CentreRead, TypeOK
<1>5. CASE Send
  <2>1. fresh' \in [keys: SUBSET Keys, left: SUBSET Notifiers]
    BY <1>5 DEF Send, TypeOK, Notifiers
  <2>2. 0 \in Ages
    BY MonitorAssumption DEF Ages, Never, Oldest
  <2>3. alerted' \in [Keys -> Ages]
    BY <1>5, <2>2 DEF Send, TypeOK
  <2> QED
    BY <1>0, <1>5, <2>1, <2>3 DEF Send, TypeOK
<1>6. CASE Record
  <2>1. seen' \in [Keys -> Ages]
    BY <1>6, MarkedIs DEF Record, TypeOK
  <2>2. Within'
    BY <1>6, Moves
  <2> QED
    BY <1>0, <1>6, <2>1, <2>2 DEF Record, TypeOK
<1>7. CASE Save
  <2>1. Within'
    BY <1>7, Moves
  <2> QED
    BY <1>0, <1>7, <2>1 DEF Save, TypeOK
<1>8. CASE AllVisited
  BY <1>0, <1>8, Moves DEF AllVisited, TypeOK
<1>9. CASE Pause
  <2>1. /\ seen' \in [Keys -> Ages] /\ file' \in [Keys -> Ages]
        /\ alerted' \in [Keys -> Ages]
    BY <1>9, OlderIs DEF Pause, Age, TypeOK
  <2>2. Within'
    BY <1>9, Moves
  <2>3. fresh' \in [keys: SUBSET Keys, left: SUBSET Notifiers]
    BY <1>9 DEF Pause
  <2> QED
    BY <1>0, <1>9, <2>1, <2>2, <2>3 DEF Pause, TypeOK
<1>10. CASE Die
  <2>1. Within' /\ lost' \subseteq Keys
    BY <1>10, Moves DEF Die, TypeOK
  <2> QED
    BY <1>0, <1>10, <2>1 DEF Die, TypeOK
<1>11. CASE Restart
  <2>1. /\ seen' \in [Keys -> Ages] /\ file' \in [Keys -> Ages]
        /\ alerted' \in [Keys -> Ages]
    BY <1>11, OlderIs DEF Restart, Age, TypeOK
  <2>2. Within'
    BY <1>11, Moves
  <2>3. fresh' \in [keys: SUBSET Keys, left: SUBSET Notifiers]
    BY <1>11 DEF Restart
  <2> QED
    BY <1>0, <1>11, <2>1, <2>2, <2>3 DEF Restart, TypeOK
<1>12. CASE UNCHANGED vars
  BY <1>12 DEF vars, TypeOK
<1> QED
  BY <1>1, <1>2, <1>3, <1>4, <1>5, <1>6, <1>7, <1>8, <1>9, <1>10, <1>11, <1>12 DEF Next, Works

\* Every age the monitor remembers stays within the retention, and it reports
\* and saves only while it stands at a centre.
THEOREM TypeCorrect == Spec => [](TypeOK /\ Within)
<1>1. Init => TypeOK /\ Within
  <2> SUFFICES ASSUME Init PROVE TypeOK /\ Within
    OBVIOUS
  <2>1. {0, Cooldown, Never} \subseteq Ages
    BY MonitorAssumption DEF Ages, Never, Oldest
  <2>2. Nothing \in [Keys -> Ages] /\ alerted \in [Keys -> Ages]
    BY <2>1 DEF Init, Nothing
  <2>3. monitor \in Monitors /\ monitor.at = "starting"
    <3>1. 1 \in 1 .. Centres + 1 /\ "starting" \in Places
      BY MonitorAssumption DEF Places
    <3>2. monitor \in [at: {"starting"}, centre: {1}, cut: {FALSE},
                       dryRun: BOOLEAN, once: BOOLEAN]
      BY DEF Init
    <3> QED
      BY <3>1, <3>2 DEF Monitors
  <2>4. seen \in [Keys -> Ages] /\ file \in [Keys -> Ages] /\ lost \subseteq Keys
    BY <2>2 DEF Init
  <2>5. fresh \in [keys: SUBSET Keys, left: SUBSET Notifiers] /\ free \subseteq Keys
    BY DEF Init
  <2> QED
    BY <2>2, <2>3, <2>4, <2>5 DEF TypeOK, Within
<1> QED
  BY <1>1, TypeInductive, PTL DEF Spec

-----------------------------------------------------------------------------
(* A free slot was announced *)

\* The memory and the file never make an alert younger than it is.
NeverYounger == \A k \in Keys : alerted[k] <= seen[k] /\ alerted[k] <= file[k]

\* The slots being reported: those of the calendar whose memory is too old or
\* pruned; once every notifier has been asked they were alerted just now.
Reporting ==
    /\ At("reporting") => fresh.keys = SelectNew(free)
    /\ (At("reporting") /\ fresh.left # Notifiers) \/ At("saving") =>
          \A k \in fresh.keys : alerted[k] = 0
    /\ At("reporting") \/ At("saving") =>
          \A k \in free : k \in fresh.keys \/ alerted[k] < Cooldown
    /\ At("starting") \/ At("login") => free = {}

AnnouncedInv == NeverYounger /\ Reporting /\ FreeSlotWasAnnounced

\* A tick ages the alert, the memory and the file alike.
LEMMA AgeInductive == TypeOK /\ NeverYounger /\ Age => NeverYounger'
<1> SUFFICES ASSUME TypeOK, NeverYounger, Age, NEW k \in Keys
             PROVE  alerted'[k] <= seen'[k] /\ alerted'[k] <= file'[k]
  BY DEF NeverYounger
<1>1. alerted[k] \in Ages /\ seen[k] \in Ages /\ file[k] \in Ages
  BY DEF TypeOK
<1>2. alerted[k] <= seen[k] /\ alerted[k] <= file[k]
  BY DEF NeverYounger
<1>3. alerted' = Older(alerted) /\ seen' = Older(seen) /\ file' = Older(file)
  BY DEF Age
<1>4. \/ alerted[k] < Oldest /\ alerted'[k] = alerted[k] + 1
      \/ alerted[k] >= Oldest /\ alerted'[k] = alerted[k]
  BY <1>3, OlderIs DEF TypeOK
<1>5. \/ seen[k] < Oldest /\ seen'[k] = seen[k] + 1
      \/ seen[k] >= Oldest /\ seen'[k] = seen[k]
  BY <1>3, OlderIs DEF TypeOK
<1>6. \/ file[k] < Oldest /\ file'[k] = file[k] + 1
      \/ file[k] >= Oldest /\ file'[k] = file[k]
  BY <1>3, OlderIs DEF TypeOK
<1> QED
  BY <1>1, <1>2, <1>4, <1>5, <1>6, MonitorAssumption DEF Ages, Oldest, Never

\* Zero is younger than a cooldown, unless there is none.
LEMMA AnnouncedInductive ==
  TypeOK /\ Within /\ AnnouncedInv /\ [Next]_vars => AnnouncedInv'
<1> SUFFICES ASSUME TypeOK, Within, AnnouncedInv, [Next]_vars, TypeOK'
             PROVE  AnnouncedInv'
  BY TypeInductive
<1>0. NeverYounger /\ Reporting /\ FreeSlotWasAnnounced
  BY DEF AnnouncedInv
<1>01. /\ alerted \in [Keys -> Ages] /\ seen \in [Keys -> Ages] /\ file \in [Keys -> Ages]
       /\ free \subseteq Keys /\ fresh.keys \subseteq Keys /\ fresh.left \subseteq Notifiers
       /\ Ages \subseteq Nat /\ Cooldown \in Nat
  BY MonitorAssumption DEF TypeOK, Ages, Never, Oldest
<1> USE DEF AnnouncedInv
<1>1. CASE Load
  BY <1>0, <1>1, Moves DEF Load, NeverYounger, Reporting, FreeSlotWasAnnounced, At
<1>2. CASE FirstLogin
  BY <1>0, <1>2, Moves DEF FirstLogin, NeverYounger, Reporting, FreeSlotWasAnnounced, At
<1>3. CASE CentreFails
  BY <1>0, <1>3, Moves DEF CentreFails, NeverYounger, Reporting, FreeSlotWasAnnounced, At
<1>4. ASSUME NEW slots \in SUBSET KeysOf(monitor.centre), CentreRead(slots)
      PROVE  AnnouncedInv'
  <2>1. free' = slots /\ UNCHANGED <<seen, file, alerted, lost>>
    BY <1>4 DEF CentreRead
  <2>2. ASSUME NEW k \in slots, k \notin SelectNew(slots)
        PROVE  alerted[k] < Cooldown
    <3>1. k \in Keys /\ ~(seen[k] >= Cooldown)
      BY <2>2 DEF SelectNew, IsNew, KeysOf
    <3>2. seen[k] \in Nat /\ alerted[k] \in Nat
      BY <1>01, <3>1
    <3>3. alerted[k] <= seen[k]
      BY <1>0, <3>1 DEF NeverYounger
    <3> QED
      BY <1>01, <3>1, <3>2, <3>3
  <2>3. CASE SelectNew(slots) = {}
    BY <1>0, <1>4, <2>1, <2>2, <2>3, Moves DEF NeverYounger, Reporting, FreeSlotWasAnnounced, At
  <2>4. CASE SelectNew(slots) # {}
    <3>1. monitor'.at = "reporting"
      BY <1>4, <2>4, Moves
    <3>2. fresh'.keys = SelectNew(slots) /\ fresh'.left = Notifiers
      BY <1>4, <2>4 DEF CentreRead
    <3>3. SelectNew(free)' = SelectNew(slots)
      BY <2>1 DEF SelectNew, IsNew
    <3> QED
      BY <1>0, <2>1, <2>2, <3>1, <3>2, <3>3 DEF NeverYounger, Reporting, FreeSlotWasAnnounced, At
  <2> QED
    BY <2>3, <2>4
<1>5. CASE Send
  <2>1. /\ monitor' = monitor /\ monitor.at = "reporting"
        /\ UNCHANGED <<seen, file, free, lost>> /\ fresh'.keys = fresh.keys
    BY <1>5 DEF Send, At, TypeOK
  <2>2. \A k \in Keys : alerted'[k] = 0 \/ (k \notin fresh.keys /\ alerted'[k] = alerted[k])
    BY <1>5 DEF Send
  <2>3. \A k \in fresh.keys : alerted'[k] = 0
    BY <1>01, <1>5 DEF Send
  <2>4. NeverYounger'
    <3>1. ASSUME NEW k \in Keys PROVE alerted'[k] <= seen[k] /\ alerted'[k] <= file[k]
      <4>1. seen[k] \in Nat /\ file[k] \in Nat
        BY <1>01
      <4> QED
        BY <1>0, <2>2, <4>1 DEF NeverYounger
    <3> QED
      BY <2>1, <3>1 DEF NeverYounger
  <2>5. SelectNew(free)' = SelectNew(free)
    BY <2>1 DEF SelectNew, IsNew
  <2>6. \A k \in free : k \in fresh.keys \/ alerted'[k] < Cooldown
    <3>1. \A k \in free : k \in fresh.keys \/ alerted[k] < Cooldown
      BY <1>0, <2>1 DEF Reporting, At
    <3>2. \A k \in free : k \in fresh.keys \/ alerted'[k] = alerted[k]
      BY <1>01, <1>5 DEF Send
    <3> QED
      BY <3>1, <3>2
  <2> QED
    BY <1>0, <2>1, <2>3, <2>4, <2>5, <2>6 DEF Reporting, FreeSlotWasAnnounced, At
<1>6. CASE Record
  <2>1. /\ monitor.at = "reporting" /\ fresh.left = {}
        /\ UNCHANGED <<file, fresh, free, alerted, lost>>
        /\ monitor'.at \in {"centre", "saving"}
    BY <1>6, Moves DEF Record
  <2>2. \A k \in fresh.keys : alerted[k] = 0
    BY <1>0, <2>1 DEF Reporting, At, Notifiers
  <2>3. seen' = seen \/ seen' = Marked(fresh.keys)
    BY <1>6 DEF Record
  <2>4. ASSUME NEW k \in Keys PROVE alerted[k] <= seen'[k]
    <3>1. CASE seen' = seen
      BY <1>0, <3>1 DEF NeverYounger
    <3>2. CASE seen' = Marked(fresh.keys) /\ k \in fresh.keys
      BY <1>01, <2>2, <3>2, MarkedIs
    <3>3. CASE seen' = Marked(fresh.keys) /\ k \notin fresh.keys
      <4>1. seen'[k] = IF seen[k] = Oldest THEN Never ELSE seen[k]
        BY <1>01, <3>3, MarkedIs
      <4>2. alerted[k] \in Ages /\ alerted[k] <= seen[k]
        BY <1>0, <1>01 DEF NeverYounger
      <4> QED
        BY <4>1, <4>2, MonitorAssumption DEF Ages, Oldest, Never
    <3> QED
      BY <2>3, <3>1, <3>2, <3>3
  <2>5. NeverYounger'
    BY <1>0, <2>1, <2>4 DEF NeverYounger
  <2>6. \A k \in free : alerted[k] < Cooldown \/ Cooldown = 0
    BY <1>0, <1>01, <2>1, <2>2 DEF Reporting, At
  <2>7. FreeSlotWasAnnounced'
    BY <2>1, <2>6 DEF FreeSlotWasAnnounced, At
  <2>8. Reporting'
    BY <1>0, <2>1, <2>2 DEF Reporting, At
  <2> QED
    BY <2>5, <2>7, <2>8
<1>7. CASE Save
  <2>1. /\ monitor.at = "saving" /\ monitor'.at \in {"centre", "pausing"}
        /\ UNCHANGED <<seen, fresh, free, alerted>> /\ (file' = file \/ file' = seen)
    BY <1>7, Moves DEF Save
  <2>2. \A k \in free : alerted[k] < Cooldown \/ Cooldown = 0
    BY <1>0, <1>01, <2>1 DEF Reporting, At
  <2> QED
    BY <1>0, <2>1, <2>2 DEF NeverYounger, Reporting, FreeSlotWasAnnounced, At
<1>8. CASE AllVisited
  BY <1>0, <1>8, Moves DEF AllVisited, NeverYounger, Reporting, FreeSlotWasAnnounced, At
<1>9. CASE Pause
  <2>1. NeverYounger'
    BY <1>0, <1>9, AgeInductive DEF Pause, NeverYounger
  <2>2. monitor'.at \in {"centre", "ended"} /\ free' = {}
    BY <1>9, Moves DEF Pause
  <2> QED
    BY <2>1, <2>2 DEF Reporting, FreeSlotWasAnnounced, At
<1>10. CASE Die
  BY <1>0, <1>10, Moves DEF Die, NeverYounger, Reporting, FreeSlotWasAnnounced, At
<1>11. CASE Restart
  <2>1. NeverYounger'
    BY <1>0, <1>11, AgeInductive DEF Restart, NeverYounger
  <2>2. monitor'.at = "starting" /\ free' = {}
    BY <1>11, Moves DEF Restart
  <2> QED
    BY <2>1, <2>2 DEF Reporting, FreeSlotWasAnnounced, At
<1>12. CASE UNCHANGED vars
  BY <1>0, <1>12 DEF vars, NeverYounger, Reporting, FreeSlotWasAnnounced, At, SelectNew, IsNew
<1> QED
  BY <1>1, <1>2, <1>3, <1>4, <1>5, <1>6, <1>7, <1>8, <1>9, <1>10, <1>11, <1>12 DEF Next, Works

\* A slot that is free and stays unmentioned was alerted less than a cooldown
\* ago, whatever the retention prunes and whatever of the file is lost.
THEOREM FreeSlotsAnnounced == Spec => []FreeSlotWasAnnounced
<1>1. Init => AnnouncedInv
  <2> SUFFICES ASSUME Init PROVE AnnouncedInv
    OBVIOUS
  <2>1. \A k \in Keys : alerted[k] \in 0 .. Never
    BY MonitorAssumption DEF Init, Never, Oldest
  <2>2. NeverYounger
    BY <2>1, MonitorAssumption DEF Init, NeverYounger, Nothing, Never, Oldest
  <2> QED
    BY <2>2 DEF Init, AnnouncedInv, Reporting, FreeSlotWasAnnounced, At
<1>2. AnnouncedInv => FreeSlotWasAnnounced
  BY DEF AnnouncedInv
<1> QED
  BY <1>1, <1>2, AnnouncedInductive, TypeCorrect, PTL DEF Spec

-----------------------------------------------------------------------------
(* The cooldown *)

\* Where an alert that still counts is remembered: in the file while no process
\* has loaded it, in the process's own memory from then on, and for a moment
\* only in what the process is about to record.
Remembered(k) ==
    IF At("dead") \/ At("starting") THEN file[k] = alerted[k]
    ELSE \/ seen[k] = alerted[k]
         \/ At("reporting") /\ fresh.left # Notifiers /\ k \in fresh.keys

RememberedInv ==
    /\ ~monitor.dryRun => \A k \in Keys : alerted[k] < Cooldown /\ k \notin lost => Remembered(k)
    /\ At("saving") => \A k \in fresh.keys : seen[k] = 0

\* A tick leaves an alert that still counts as old as its memory.
LEMMA AgeKeeps ==
  ASSUME TypeOK, Age, NEW k \in Keys, alerted'[k] < Cooldown
  PROVE  /\ alerted[k] < Cooldown
         /\ seen[k] = alerted[k] => seen'[k] = alerted'[k]
         /\ file[k] = alerted[k] => file'[k] = alerted'[k]
<1>1. alerted' = Older(alerted) /\ seen' = Older(seen) /\ file' = Older(file)
  BY DEF Age
<1>2. \/ alerted[k] < Oldest /\ alerted'[k] = alerted[k] + 1
      \/ alerted[k] >= Oldest /\ alerted'[k] = alerted[k]
  BY <1>1, OlderIs DEF TypeOK
<1>3. alerted[k] \in Nat
  BY MonitorAssumption DEF TypeOK, Ages, Never, Oldest
<1>4. alerted[k] < Cooldown
  BY <1>2, <1>3, MonitorAssumption
<1>5. seen[k] = alerted[k] => seen'[k] = alerted'[k]
  BY <1>1 DEF Older
<1>6. file[k] = alerted[k] => file'[k] = alerted'[k]
  BY <1>1 DEF Older
<1> QED
  BY <1>4, <1>5, <1>6

LEMMA RememberedInductive ==
  TypeOK /\ Within /\ AnnouncedInv /\ RememberedInv /\ [Next]_vars => RememberedInv'
<1> SUFFICES ASSUME TypeOK, Within, AnnouncedInv, RememberedInv, [Next]_vars
             PROVE  RememberedInv'
  OBVIOUS
<1>0. /\ monitor'.dryRun = monitor.dryRun
      /\ fresh.keys \subseteq Keys /\ fresh.left \subseteq Notifiers
  BY MonitorType DEF TypeOK
<1> USE DEF RememberedInv, Remembered, At
<1>1. CASE Load
  BY <1>0, <1>1, Moves DEF Load
<1>2. CASE FirstLogin
  BY <1>0, <1>2, Moves DEF FirstLogin
<1>3. CASE CentreFails
  BY <1>0, <1>3, Moves DEF CentreFails
<1>4. ASSUME NEW slots \in SUBSET KeysOf(monitor.centre), CentreRead(slots)
      PROVE  RememberedInv'
  <2>1. monitor.at = "centre" /\ monitor'.at \in {"centre", "reporting"}
    BY <1>4, Moves
  <2> QED
    BY <1>0, <1>4, <2>1 DEF CentreRead
<1>5. CASE Send
  <2>1. /\ monitor' = monitor /\ monitor.at = "reporting"
        /\ UNCHANGED <<seen, file, lost>> /\ fresh'.keys = fresh.keys
        /\ fresh'.left \in {{"telegram"}, {}}
    BY <1>5 DEF Send, At, TypeOK
  <2>2. fresh'.left # Notifiers
    BY <2>1 DEF Notifiers
  <2>3. \A k \in Keys \ fresh.keys : alerted'[k] = alerted[k]
    BY <1>5 DEF Send
  <2> QED
    BY <2>1, <2>2, <2>3
<1>6. CASE Record
  <2>1. /\ monitor.at = "reporting" /\ fresh.left = {}
        /\ UNCHANGED <<file, fresh, free, alerted, lost>>
        /\ monitor'.at = IF monitor.dryRun THEN "centre" ELSE "saving"
        /\ ~monitor.dryRun => seen' = Marked(fresh.keys)
    BY <1>6, Moves DEF Record
  <2>2. CASE monitor.dryRun
    BY <1>0, <2>1, <2>2
  <2>3. CASE ~monitor.dryRun
    <3>1. \A k \in fresh.keys : alerted[k] = 0 /\ seen'[k] = 0
      BY <1>0, <2>1, <2>3, MarkedIs DEF TypeOK, AnnouncedInv, Reporting, Notifiers
    <3>2. ASSUME NEW k \in Keys \ fresh.keys, alerted[k] < Cooldown, k \notin lost
          PROVE  seen'[k] = alerted[k]
      <4>1. seen[k] = alerted[k]
        BY <2>1, <2>3, <3>2
      <4>2. seen'[k] = IF seen[k] = Oldest THEN Never ELSE seen[k]
        BY <2>1, <2>3, MarkedIs DEF TypeOK
      <4>3. alerted[k] # Oldest
        BY <3>2, MonitorAssumption DEF Oldest
      <4> QED
        BY <4>1, <4>2, <4>3
    <3> QED
      BY <1>0, <2>1, <2>3, <3>1, <3>2
  <2> QED
    BY <2>2, <2>3
<1>7. CASE Save
  <2>1. /\ monitor.at = "saving" /\ monitor'.at \in {"centre", "pausing"}
        /\ UNCHANGED <<seen, fresh, free, alerted>>
        /\ lost' = lost \/ lost' = lost \ fresh.keys
    BY <1>7, Moves DEF Save
  <2>2. \A k \in fresh.keys : seen[k] = alerted[k]
    BY <2>1 DEF AnnouncedInv, Reporting
  <2> QED
    BY <1>0, <2>1, <2>2
<1>8. CASE AllVisited
  BY <1>0, <1>8, Moves DEF AllVisited
<1>9. CASE Pause
  <2>1. monitor.at = "pausing" /\ monitor'.at \in {"centre", "ended"} /\ lost' = lost
    BY <1>9, Moves DEF Pause
  <2>2. Age \/ UNCHANGED <<seen, alerted, file>>
    BY <1>9 DEF Pause
  <2> QED
    BY <1>0, <2>1, <2>2, AgeKeeps
<1>10. CASE Die
  <2>1. /\ monitor'.at = "dead" /\ UNCHANGED <<file, alerted>>
        /\ lost' = lost \cup {k \in Keys : alerted[k] < Cooldown /\ file[k] # alerted[k]}
    BY <1>10, Moves DEF Die
  <2> QED
    BY <2>1
<1>11. CASE Restart
  <2>1. monitor.at = "dead" /\ monitor'.at = "starting" /\ lost' = lost
    BY <1>11, Moves DEF Restart
  <2>2. Age \/ UNCHANGED <<seen, alerted, file>>
    BY <1>11 DEF Restart
  <2> QED
    BY <1>0, <2>1, <2>2, AgeKeeps
<1>12. CASE UNCHANGED vars
  BY <1>12 DEF vars
<1> QED
  BY <1>1, <1>2, <1>3, <1>4, <1>5, <1>6, <1>7, <1>8, <1>9, <1>10, <1>11, <1>12 DEF Next, Works

\* What is new to a monitor that has not told anyone yet was not alerted within
\* the cooldown, unless a death cut the alert off from its record.
LEMMA NewIsCold ==
  ASSUME TypeOK, AnnouncedInv, RememberedInv, NEW k \in Keys,
         At("reporting"), fresh.left = Notifiers, k \in fresh.keys, ~monitor.dryRun
  PROVE  alerted[k] >= Cooldown \/ k \in lost
<1> SUFFICES ASSUME ~(alerted[k] >= Cooldown), k \notin lost
             PROVE  FALSE
  OBVIOUS
<1>1. alerted[k] \in Nat /\ Cooldown \in Nat
  BY MonitorAssumption DEF TypeOK, Ages, Never, Oldest
<1>2. seen[k] = alerted[k] /\ alerted[k] < Cooldown
  BY <1>1 DEF RememberedInv, Remembered, At
<1>3. seen[k] = Never \/ seen[k] >= Cooldown
  BY DEF AnnouncedInv, Reporting, SelectNew, IsNew
<1> QED
  BY <1>1, <1>2, <1>3, MonitorAssumption DEF Never, Oldest

\* No slot is alerted again before its cooldown is over, through restarts and
\* failed writes, unless the process died between the alert and its record.
THEOREM CooldownKept == Spec => CooldownHeld
<1>1. Init => AnnouncedInv /\ RememberedInv
  <2> SUFFICES ASSUME Init PROVE AnnouncedInv /\ RememberedInv
    OBVIOUS
  <2>1. \A k \in Keys : alerted[k] \in 0 .. Never
    BY MonitorAssumption DEF Init, Never, Oldest
  <2>2. NeverYounger
    BY <2>1, MonitorAssumption DEF Init, NeverYounger, Nothing, Never, Oldest
  <2>3. monitor.at = "starting"
    BY DEF Init
  <2> QED
    BY <2>2, <2>3 DEF Init, AnnouncedInv, Reporting, FreeSlotWasAnnounced, At, RememberedInv,
                      Remembered
<1>2. TypeOK /\ AnnouncedInv /\ RememberedInv /\ [Next]_vars =>
      [\A k \in Keys :
          /\ At("reporting") /\ fresh.left = Notifiers /\ alerted'[k] = 0
          /\ k \in fresh.keys /\ ~monitor.dryRun
          => alerted[k] >= Cooldown \/ k \in lost]_vars
  BY NewIsCold
<1> QED
  BY <1>1, <1>2, AnnouncedInductive, RememberedInductive, TypeCorrect, PTL
     DEF Spec, CooldownHeld

-----------------------------------------------------------------------------
(* The process around the scan *)

\* Where a step of the process leads, and that it changes nothing else of it.
LEMMA ProcessMoves ==
  ASSUME run \in Processes
  PROVE  /\ \A place : RunGoesTo(place) =>
               /\ run'.at = place /\ run'.command = run.command
               /\ run'.settings = run.settings /\ run'.interrupted = run.interrupted
               /\ run'.code = run.code
         /\ \A code : End(code) =>
               /\ run'.at = "ended" /\ run'.command = run.command
               /\ run'.settings = run.settings /\ run'.interrupted = run.interrupted
               /\ run'.code = code
BY DEF Processes, RunGoesTo, End

\* Every step leaves the process one.
LEMMA ProcessType == run \in Processes /\ [LoopNext]_loopVars => run' \in Processes
<1> SUFFICES ASSUME run \in Processes, [LoopNext]_loopVars
             PROVE  run' \in Processes
  OBVIOUS
<1>1. ASSUME NEW place \in {"starting", "building", "scanning", "telling", "closing",
                            "waiting", "ended"}, RunGoesTo(place)
      PROVE  run' \in Processes
  BY <1>1 DEF RunGoesTo, Processes
<1>2. ASSUME NEW code \in {EXIT_OK, EXIT_RUNTIME, EXIT_CONFIG, EXIT_PERSISTENCE,
                           EXIT_INTERRUPTED, Running}, End(code)
      PROVE  run' \in Processes
  BY <1>2 DEF End, Processes
<1>3. CASE Begin
  BY <1>1, <1>2, <1>3 DEF Begin
<1>4. CASE RefusesRun \/ RefusesTest \/ StoreRefused
  BY <1>2, <1>4 DEF RefusesRun, RefusesTest, StoreRefused
<1>5. CASE StartsScan \/ StartsTest \/ Waited
  BY <1>1, <1>5 DEF StartsScan, StartsTest, Waited
<1>6. CASE \E scan \in Scans \cup {RaisedScan} : ScanEnds(scan)
  BY <1>1, <1>6 DEF ScanEnds
<1>7. CASE \E answer \in {200, 403, 0}, arrived \in BOOLEAN :
              (arrived => answer # 403) /\ Post(answer, arrived)
  BY <1>7 DEF Post
<1>8. CASE NextMessage \/ UNCHANGED loopVars
  BY <1>8 DEF NextMessage, loopVars
<1>9. CASE AllTold
  BY <1>1, <1>2, <1>9 DEF AllTold, TestCode
<1>10. CASE Close
  BY <1>1, <1>2, <1>10 DEF Close
<1>11. CASE Interrupt
  BY <1>11 DEF Interrupt, InterruptedCode, Processes
<1> QED
  BY <1>3, <1>4, <1>5, <1>6, <1>7, <1>8, <1>9, <1>10, <1>11
     DEF LoopNext, ProcessWorks

IsAProcess == run \in Processes

LEMMA ProcessAlways == LoopSpec => []IsAProcess
<1>1. LoopInit => IsAProcess
  BY DEF LoopInit, Processes, IsAProcess
<1>2. IsAProcess /\ [LoopNext]_loopVars => IsAProcess'
  BY ProcessType DEF IsAProcess
<1> QED
  BY <1>1, <1>2, PTL DEF LoopSpec

\* The loop stops because it was asked to or could not build what it needs:
\* for any configuration, and whatever its scans raise and Telegram answers.
THEOREM StopsForAReason == LoopSpec => StopsOnlyForAReason
<1>1. IsAProcess /\ [LoopNext]_loopVars =>
         [RunIsAt("ended")' =>
            \/ run'.interrupted
            \/ run.command # "monitor"
            \/ RunIsAt("starting") \/ RunIsAt("building")]_loopVars
  <2> SUFFICES ASSUME run \in Processes, LoopNext, run'.at = "ended"
               PROVE  \/ run'.interrupted
                      \/ run.command # "monitor"
                      \/ run.at \in {"starting", "building"}
    BY DEF RunIsAt, IsAProcess
  <2>1. CASE Begin \/ RefusesRun \/ RefusesTest \/ StoreRefused \/ StartsScan \/ StartsTest
    BY <2>1 DEF Begin, RefusesRun, RefusesTest, StoreRefused, StartsScan, StartsTest,
       RunIsAt
  <2>2. CASE \E scan \in Scans \cup {RaisedScan} : ScanEnds(scan)
    BY <2>2, ProcessMoves DEF ScanEnds
  <2>3. CASE \E answer \in {200, 403, 0}, arrived \in BOOLEAN :
                (arrived => answer # 403) /\ Post(answer, arrived)
    BY <2>3 DEF Post, RunIsAt
  <2>4. CASE NextMessage
    BY <2>4 DEF NextMessage, RunIsAt
  <2>5. CASE AllTold
    BY <2>5, ProcessMoves DEF AllTold, Scanning
  <2>6. CASE Close
    BY <2>6, ProcessMoves DEF Close
  <2>7. CASE Waited
    BY <2>7, ProcessMoves DEF Waited
  <2>8. CASE Interrupt
    BY <2>8 DEF Interrupt, Processes
  <2> QED
    BY <2>1, <2>2, <2>3, <2>4, <2>5, <2>6, <2>7, <2>8 DEF LoopNext, ProcessWorks
<1> QED
  BY <1>1, ProcessAlways, PTL DEF LoopSpec, StopsOnlyForAReason

\* A test that has ended uninterrupted has counted what its requests came to; it
\* has no scan and no client, so nothing of a run follows its report.
TestInv ==
    /\ run \in Processes
    /\ RunIsAt("scanning") \/ RunIsAt("closing") \/ RunIsAt("waiting") => Scanning
    /\ TestExitIsTrue

LEMMA TestInductive == TestInv /\ [LoopNext]_loopVars => TestInv'
<1> SUFFICES ASSUME TestInv, [LoopNext]_loopVars
             PROVE  /\ (RunIsAt("scanning") \/ RunIsAt("closing") \/ RunIsAt("waiting") => Scanning)'
                    /\ TestExitIsTrue'
  BY ProcessType DEF TestInv
<1> USE DEF TestInv, TestExitIsTrue, RunIsAt, Scanning, NothingSent, EXIT_OK, EXIT_RUNTIME,
            EXIT_CONFIG, EXIT_PERSISTENCE
<1>1. CASE Begin \/ RefusesTest
  BY <1>1, ProcessMoves DEF Begin, RefusesTest
<1>2. CASE RefusesRun \/ StoreRefused \/ StartsScan \/ StartsTest
  BY <1>2, ProcessMoves DEF RefusesRun, StoreRefused, StartsScan, StartsTest
<1>3. CASE \E scan \in Scans \cup {RaisedScan} : ScanEnds(scan)
  BY <1>3, ProcessMoves DEF ScanEnds
<1>4. CASE \E answer \in {200, 403, 0}, arrived \in BOOLEAN :
              (arrived => answer # 403) /\ Post(answer, arrived)
  BY <1>4 DEF Post
<1>5. CASE NextMessage \/ UNCHANGED loopVars
  BY <1>5 DEF NextMessage, loopVars
<1>6. CASE AllTold
  BY <1>6, ProcessMoves DEF AllTold, TestCode
<1>7. CASE Close \/ Waited
  <2>1. CASE Close
    BY <2>1, ProcessMoves DEF Close
  <2>2. CASE Waited
    BY <2>2, ProcessMoves DEF Waited
  <2> QED
    BY <1>7, <2>1, <2>2
<1>8. CASE Interrupt
  BY <1>8 DEF Interrupt, Processes
<1> QED
  BY <1>1, <1>2, <1>3, <1>4, <1>5, <1>6, <1>7, <1>8 DEF LoopNext, ProcessWorks

THEOREM TestIsTrue == LoopSpec => []TestExitIsTrue
<1>1. LoopInit => TestInv
  BY DEF LoopInit, Processes, TestInv, TestExitIsTrue, RunIsAt
<1>2. TestInv => TestExitIsTrue
  BY DEF TestInv
<1> QED
  BY <1>1, <1>2, TestInductive, PTL DEF LoopSpec

-----------------------------------------------------------------------------
(* Delivery *)

\* The report that is being sent, or that has been sent.
Reported ==
    IF ~Scanning THEN <<TestMessage>>
    ELSE IF HasNotifier(run.settings.env) THEN Warrants(told) ELSE <<>>

UnderWay == RunIsAt("telling") \/ (RunIsAt("closing") /\ ~run.interrupted)

\* How many messages have had their turn with everyone, and with the j-th.
Done == Len(Reported) - Len(outbox)
Due(j) == IF j < next THEN Done + 1 ELSE Done

\* Whoever missed nothing has heard all that was due, the others a part of it.
HeardWhatWasDue(j) ==
    LET r == Recipients[j]
    IN  /\ Len(heard[r]) <= Due(j)
        /\ r \notin missed => heard[r] = [i \in 1 .. Due(j) |-> Reported[i]]
        /\ \E choice \in Selections(Len(heard[r]), Due(j)) : heard[r] = Part(Reported, choice)

DeliveryInv ==
    /\ run \in Processes
    /\ told \in Scans \cup {RaisedScan}
    /\ RunIsAt("closing") /\ ~run.interrupted => outbox = <<>>
    /\ UnderWay =>
          /\ outbox \in Seq(ToSet(Reported)) /\ Len(outbox) <= Len(Reported)
          /\ \A i \in DOMAIN outbox : outbox[i] = Reported[Done + i]
          /\ next \in 1 .. Len(Recipients) + 1 /\ (outbox = <<>> => next = 1)
          /\ missed \subseteq Everyone
          /\ heard \in [Everyone -> Seq(ToSet(Reported))]
          /\ \A j \in 1 .. Len(Recipients) : HeardWhatWasDue(j)

\* One message more leaves whoever gets it with one more of the report, and
\* whoever does not with what they had.
LEMMA PartGrows ==
  ASSUME NEW S, NEW report \in Seq(S), NEW got \in Seq(S), NEW due \in Nat,
         due < Len(report), Len(got) <= due,
         NEW choice \in Selections(Len(got), due), got = Part(report, choice)
  PROVE  /\ \E more \in Selections(Len(got) + 1, due + 1) :
               Append(got, report[due + 1]) = Part(report, more)
         /\ \E same \in Selections(Len(got), due + 1) : got = Part(report, same)
<1> DEFINE n == Len(got)
           more == [i \in 1 .. n + 1 |-> IF i = n + 1 THEN due + 1 ELSE choice[i]]
<1>1. n \in Nat /\ choice \in [1 .. n -> 1 .. due]
      /\ \A i, j \in 1 .. n : i < j => choice[i] < choice[j]
  BY DEF Selections
<1>2. more \in Selections(n + 1, due + 1)
  <2>1. more \in [1 .. n + 1 -> 1 .. due + 1]
    BY <1>1
  <2>2. ASSUME NEW i \in 1 .. n + 1, NEW j \in 1 .. n + 1, i < j
        PROVE  more[i] < more[j]
    <3>1. i \in 1 .. n /\ more[i] = choice[i] /\ choice[i] \in 1 .. due
      BY <1>1, <2>2
    <3>2. CASE j = n + 1
      BY <3>1, <3>2
    <3>3. CASE j # n + 1
      BY <1>1, <2>2, <3>1, <3>3
    <3> QED
      BY <3>2, <3>3
  <2> QED
    BY <2>1, <2>2 DEF Selections
<1>3. Append(got, report[due + 1]) = Part(report, more)
  <2>1. \A i \in 1 .. n : got[i] = report[choice[i]]
    BY <1>1 DEF Part
  <2>2. DOMAIN more = 1 .. n + 1
    OBVIOUS
  <2>3. Part(report, more) = [i \in 1 .. n + 1 |-> report[more[i]]]
    BY <2>2 DEF Part
  <2>4. report[due + 1] \in S
    OBVIOUS
  <2>5. \A i \in 1 .. n + 1 : Append(got, report[due + 1])[i] = report[more[i]]
    BY <1>1, <2>1, <2>4
  <2>6. Append(got, report[due + 1]) = [i \in 1 .. n + 1 |-> Append(got, report[due + 1])[i]]
    BY <2>4
  <2> QED
    BY <2>3, <2>5, <2>6
<1>4. choice \in Selections(n, due + 1)
  BY <1>1 DEF Selections
<1> QED
  BY <1>2, <1>3, <1>4

LEMMA ReportIsASeq ==
  ASSUME \A scan \in Scans : SaysWhatWasFound(scan)
  PROVE  /\ \A scan \in Scans \cup {RaisedScan} :
               Warrants(scan) \in Seq(ToSet(Warrants(scan)))
         /\ <<TestMessage>> \in Seq(ToSet(<<TestMessage>>))
         /\ <<>> \in Seq(ToSet(<<>>))
<1>1. ASSUME NEW line PROVE <<line>> \in Seq(ToSet(<<line>>))
  BY DEF ToSet
<1>2. <<>> \in Seq(ToSet(<<>>))
  BY DEF ToSet
<1>3. ASSUME NEW scan \in Scans PROVE Warrants(scan) \in Seq(ToSet(Warrants(scan)))
  BY DEF SaysWhatWasFound
<1>4. Warrants(RaisedScan) = <<Notice("unexpected error")>>
  BY DEF Warrants, RaisedScan
<1> QED
  BY <1>1, <1>2, <1>3, <1>4

\* A report that begins is due to nobody.
LEMMA ReportBegins ==
  ASSUME \A scan \in Scans : SaysWhatWasFound(scan),
         \A s \in Configured : ListsEachOnce(TelegramUsers(s.env.users)),
         DeliveryInv, run' \in Processes, run'.at = "telling",
         run'.command = run.command, run'.settings = run.settings,
         NEW scan \in Scans \cup {RaisedScan}, NEW messages, Report(scan, messages),
         messages = Reported'
  PROVE  DeliveryInv'
<1>1. told' = scan /\ outbox' = Reported' /\ next' = 1
      /\ heard' = [r \in Everyone |-> <<>>] /\ missed' = {}
  BY DEF Report
<1>2. Recipients' = Recipients /\ Everyone' = Everyone
  BY DEF Recipients, Everyone
<1>3. Reported' \in Seq(ToSet(Reported'))
  BY <1>1, ReportIsASeq DEF Reported
<1>4. Recipients \in Seq(ToSet(Recipients))
  BY DEF Recipients, ListsEachOnce, DeliveryInv, Processes
<1>5. Done' = 0
  BY <1>1, <1>3 DEF Done
<1>6. heard' \in [Everyone' -> Seq(ToSet(Reported'))]
  BY <1>1, <1>2
<1>7. ASSUME NEW j \in 1 .. Len(Recipients')
      PROVE  HeardWhatWasDue(j)'
  <2>1. Recipients'[j] \in Everyone /\ heard'[Recipients'[j]] = <<>>
    BY <1>1, <1>2, <1>4 DEF Everyone, ToSet
  <2>2. Due(j)' = 0
    BY <1>1, <1>2, <1>4, <1>5 DEF Due
  <2>3. <<>> \in Selections(0, 0) /\ Part(Reported', <<>>) = <<>>
    BY DEF Selections, Part
  <2> QED
    BY <2>1, <2>2, <2>3 DEF HeardWhatWasDue
<1>8. ASSUME NEW i \in DOMAIN outbox' PROVE outbox'[i] = Reported'[Done' + i]
  BY <1>1, <1>3, <1>5
<1>9. next' \in 1 .. Len(Recipients') + 1
  BY <1>1, <1>2, <1>4
<1> QED
  BY <1>1, <1>3, <1>6, <1>7, <1>8, <1>9 DEF DeliveryInv, RunIsAt

\* Whoever a request leaves alone has still heard what was due to them, and so
\* has the one it was for.
LEMMA PostDelivers ==
  ASSUME \A s \in Configured : ListsEachOnce(TelegramUsers(s.env.users)),
         \A scan \in Scans : SaysWhatWasFound(scan), DeliveryInv,
         NEW answer \in {200, 403, 0}, NEW arrived \in BOOLEAN, Post(answer, arrived)
  PROVE  DeliveryInv'
<1>1. /\ run.at = "telling" /\ outbox # <<>> /\ next <= Len(Recipients)
      /\ run' = run /\ told' = told /\ outbox' = outbox /\ next' = next + 1
      /\ heard' = IF ~arrived THEN heard
                  ELSE [heard EXCEPT ![Recipients[next]] = Append(@, Head(outbox))]
      /\ missed' = IF answer = 200 THEN missed ELSE missed \cup {Recipients[next]}
      /\ answer = 200 => arrived
  BY DEF Post, RunIsAt
<1>2. /\ outbox \in Seq(ToSet(Reported)) /\ Len(outbox) <= Len(Reported)
      /\ \A i \in DOMAIN outbox : outbox[i] = Reported[Done + i]
      /\ next \in 1 .. Len(Recipients) + 1
      /\ missed \subseteq Everyone
      /\ heard \in [Everyone -> Seq(ToSet(Reported))]
      /\ \A j \in 1 .. Len(Recipients) : HeardWhatWasDue(j)
  BY <1>1 DEF DeliveryInv, UnderWay, RunIsAt
<1>3. Reported \in Seq(ToSet(Reported))
  BY ReportIsASeq DEF Reported, DeliveryInv
<1>4. Recipients \in Seq(ToSet(Recipients)) /\ IsInjective(Recipients)
  BY DEF Recipients, ListsEachOnce, DeliveryInv, Processes
<1>5. /\ Recipients' = Recipients /\ Everyone' = Everyone /\ Reported' = Reported
      /\ Done' = Done
  BY <1>1 DEF Recipients, Everyone, Reported, Scanning, Done
<1>6. Done \in Nat /\ Done + 1 <= Len(Reported) /\ Head(outbox) = Reported[Done + 1]
  BY <1>1, <1>2, <1>3 DEF Done
<1>7. Head(outbox) \in ToSet(Reported)
  BY <1>1, <1>2
<1>8. Recipients[next] \in Everyone
  BY <1>1, <1>2, <1>4 DEF Everyone, ToSet
<1>9. heard' \in [Everyone -> Seq(ToSet(Reported))]
  BY <1>1, <1>2, <1>7, <1>8
<1>10. ASSUME NEW j \in 1 .. Len(Recipients), j # next
       PROVE  HeardWhatWasDue(j)'
  <2>1. Recipients[j] # Recipients[next] /\ Recipients[j] \in Everyone
    BY <1>1, <1>2, <1>4, <1>10 DEF IsInjective, Everyone, ToSet
  <2>2. heard'[Recipients[j]] = heard[Recipients[j]]
        /\ (Recipients[j] \in missed' <=> Recipients[j] \in missed)
    BY <1>1, <1>2, <2>1
  <2>3. Due(j)' = Due(j)
    BY <1>1, <1>2, <1>4, <1>5, <1>10 DEF Due
  <2> QED
    BY <1>2, <1>5, <2>2, <2>3 DEF HeardWhatWasDue
<1>11. ASSUME NEW j \in 1 .. Len(Recipients), j = next
       PROVE  HeardWhatWasDue(j)'
  <2> DEFINE r == Recipients[j]
             got == heard[r]
  <2>1. /\ Len(got) <= Done
        /\ r \notin missed => got = [i \in 1 .. Done |-> Reported[i]]
        /\ \E choice \in Selections(Len(got), Done) : got = Part(Reported, choice)
    <3>1. HeardWhatWasDue(j)
      BY <1>2
    <3>2. Due(j) = Done
      BY <1>2, <1>11 DEF Due
    <3> QED
      BY <3>1, <3>2 DEF HeardWhatWasDue
  <2>2. got \in Seq(ToSet(Reported))
    BY <1>2, <1>8, <1>11
  <2>3. /\ \E more \in Selections(Len(got) + 1, Done + 1) :
              Append(got, Reported[Done + 1]) = Part(Reported, more)
        /\ \E same \in Selections(Len(got), Done + 1) : got = Part(Reported, same)
    <3>1. PICK choice \in Selections(Len(got), Done) : got = Part(Reported, choice)
      BY <2>1
    <3> QED
      BY <1>3, <1>6, <2>1, <2>2, <3>1, PartGrows
  <2>4. heard'[r] = IF arrived THEN Append(got, Reported[Done + 1]) ELSE got
    BY <1>1, <1>2, <1>6, <1>8, <1>11
  <2>5. Len(heard'[r]) = IF arrived THEN Len(got) + 1 ELSE Len(got)
    BY <1>6, <1>7, <2>2, <2>4
  <2>6. ASSUME r \notin missed'
        PROVE  heard'[r] = [i \in 1 .. Done + 1 |-> Reported[i]]
    <3>1. arrived /\ r \notin missed
      BY <1>1, <1>11, <2>6
    <3>2. got = [i \in 1 .. Done |-> Reported[i]] /\ Len(got) = Done
      BY <1>6, <2>1, <2>2, <3>1
    <3>3. Append(got, Reported[Done + 1]) \in Seq(ToSet(Reported))
          /\ Len(Append(got, Reported[Done + 1])) = Done + 1
          /\ \A i \in 1 .. Done + 1 : Append(got, Reported[Done + 1])[i] = Reported[i]
      BY <1>6, <1>7, <2>2, <3>2
    <3> QED
      BY <1>6, <2>4, <3>1, <3>3
  <2>7. Len(heard'[r]) <= Done + 1
    BY <1>6, <2>1, <2>2, <2>5
  <2>8. \E choice \in Selections(Len(heard'[r]), Done + 1) :
           heard'[r] = Part(Reported, choice)
    BY <2>3, <2>4, <2>5
  <2>9. Due(j)' = Done + 1
    BY <1>1, <1>2, <1>5, <1>11 DEF Due
  <2> QED
    BY <1>5, <2>6, <2>7, <2>8, <2>9 DEF HeardWhatWasDue
<1>12. missed' \subseteq Everyone'
  BY <1>1, <1>2, <1>5, <1>8
<1>13. run' \in Processes /\ told' \in Scans \cup {RaisedScan} /\ next' \in 1 .. Len(Recipients') + 1
  BY <1>1, <1>2, <1>4, <1>5 DEF DeliveryInv
<1>14. \A j \in 1 .. Len(Recipients') : HeardWhatWasDue(j)'
  BY <1>5, <1>10, <1>11
<1> QED
  BY <1>1, <1>2, <1>5, <1>9, <1>12, <1>13, <1>14 DEF DeliveryInv, RunIsAt

LEMMA NextMessageDelivers ==
  ASSUME \A scan \in Scans : SaysWhatWasFound(scan), DeliveryInv, NextMessage,
         Recipients \in Seq(ToSet(Recipients))
  PROVE  DeliveryInv'
<1>1. /\ run.at = "telling" /\ outbox # <<>> /\ next > Len(Recipients)
      /\ outbox' = Tail(outbox) /\ next' = 1
      /\ run' = run /\ told' = told /\ heard' = heard /\ missed' = missed
  BY DEF NextMessage, RunIsAt
<1>2. /\ outbox \in Seq(ToSet(Reported)) /\ Len(outbox) <= Len(Reported)
      /\ \A i \in DOMAIN outbox : outbox[i] = Reported[Done + i]
      /\ next \in 1 .. Len(Recipients) + 1
      /\ missed \subseteq Everyone
      /\ heard \in [Everyone -> Seq(ToSet(Reported))]
      /\ \A j \in 1 .. Len(Recipients) : HeardWhatWasDue(j)
  BY <1>1 DEF DeliveryInv, UnderWay, RunIsAt
<1>3. Reported \in Seq(ToSet(Reported))
  BY ReportIsASeq DEF Reported, DeliveryInv
<1>4. Recipients' = Recipients /\ Everyone' = Everyone /\ Reported' = Reported
  BY <1>1 DEF Recipients, Everyone, Reported, Scanning
<1>5. /\ Tail(outbox) \in Seq(ToSet(Reported)) /\ Len(Tail(outbox)) = Len(outbox) - 1
      /\ \A i \in DOMAIN Tail(outbox) : Tail(outbox)[i] = outbox[i + 1] /\ i + 1 \in DOMAIN outbox
  BY <1>1, <1>2
<1>6. Done' = Done + 1
  BY <1>1, <1>2, <1>3, <1>4, <1>5 DEF Done
<1>7. ASSUME NEW i \in DOMAIN Tail(outbox)
      PROVE  Tail(outbox)[i] = Reported[Done' + i]
  <2>1. Tail(outbox)[i] = Reported[Done + (i + 1)]
    BY <1>2, <1>5
  <2>2. i \in Nat /\ Done \in Int
    BY <1>2, <1>3, <1>5 DEF Done
  <2> QED
    BY <1>6, <2>1, <2>2
<1>8. ASSUME NEW j \in 1 .. Len(Recipients)
      PROVE  HeardWhatWasDue(j)'
  <2>1. Due(j)' = Due(j)
    BY <1>1, <1>2, <1>4, <1>6 DEF Due
  <2> QED
    BY <1>1, <1>2, <1>4, <2>1 DEF HeardWhatWasDue
<1> QED
  <2>1. Len(outbox') <= Len(Reported')
    BY <1>1, <1>2, <1>3, <1>4, <1>5
  <2>2. next' \in 1 .. Len(Recipients') + 1
    BY <1>1, <1>4
  <2>3. run' \in Processes /\ told' \in Scans \cup {RaisedScan}
    BY <1>1 DEF DeliveryInv
  <2> QED
    BY <1>1, <1>2, <1>4, <1>5, <1>7, <1>8, <2>1, <2>2, <2>3 DEF DeliveryInv, RunIsAt

\* What a step of the process leaves alone of a report under way.
LEMMA ReportKept ==
  ASSUME DeliveryInv, NothingSent, run' \in Processes,
         run'.command = run.command, run'.settings = run.settings,
         UnderWay' => UnderWay, UnderWay' /\ run'.at = "closing" => outbox = <<>>
  PROVE  DeliveryInv'
<1>1. /\ told' = told /\ outbox' = outbox /\ next' = next
      /\ heard' = heard /\ missed' = missed
  BY DEF NothingSent
<1>2. /\ Recipients' = Recipients /\ Everyone' = Everyone /\ Reported' = Reported
      /\ Done' = Done
  BY <1>1 DEF Recipients, Everyone, Reported, Scanning, Done
<1>3. \A j : HeardWhatWasDue(j) => HeardWhatWasDue(j)'
  BY <1>1, <1>2 DEF HeardWhatWasDue, Due
<1> QED
  BY <1>1, <1>2, <1>3 DEF DeliveryInv, UnderWay, RunIsAt

LEMMA DeliveryInductive ==
  ASSUME \A s \in Configured : ListsEachOnce(TelegramUsers(s.env.users)),
         \A scan \in Scans : SaysWhatWasFound(scan)
  PROVE  DeliveryInv /\ TestInv /\ [LoopNext]_loopVars => DeliveryInv'
<1> SUFFICES ASSUME DeliveryInv, TestInv, [LoopNext]_loopVars
             PROVE  DeliveryInv'
  OBVIOUS
<1>1. run \in Processes /\ run' \in Processes
  BY ProcessType DEF DeliveryInv
<1>2. CASE UNCHANGED loopVars
  BY <1>1, <1>2, ReportKept DEF loopVars, NothingSent, UnderWay, RunIsAt, DeliveryInv
<1>3. CASE Begin \/ RefusesRun \/ RefusesTest \/ StoreRefused \/ StartsScan
  <2>1. NothingSent /\ run'.at \in {"ended", "building", "scanning"}
        /\ run'.command = run.command /\ run'.settings = run.settings
    BY <1>1, <1>3, ProcessMoves
       DEF Begin, RefusesRun, RefusesTest, StoreRefused, StartsScan
  <2> QED
    BY <1>1, <2>1, ReportKept DEF UnderWay, RunIsAt
<1>4. CASE StartsTest
  <2>1. /\ run'.at = "telling" /\ run'.command = run.command /\ run'.settings = run.settings
        /\ Report(NoScan, <<TestMessage>>)
    BY <1>1, <1>4, ProcessMoves DEF StartsTest
  <2>2. <<TestMessage>> = Reported'
    BY <1>4, <2>1 DEF StartsTest, Reported, Scanning
  <2>3. NoScan \in Scans
    BY DEF NoScan, Scans
  <2> QED
    BY <1>1, <2>1, <2>2, <2>3, ReportBegins
<1>5. CASE \E scan \in Scans \cup {RaisedScan} : ScanEnds(scan)
  <2>1. PICK scan \in Scans \cup {RaisedScan} : ScanEnds(scan)
    BY <1>5
  <2> DEFINE messages == IF HasNotifier(run.settings.env) THEN Warrants(scan) ELSE <<>>
  <2>2. /\ run'.at = "telling" /\ run'.command = run.command /\ run'.settings = run.settings
        /\ Report(scan, messages)
    BY <1>1, <2>1, ProcessMoves DEF ScanEnds
  <2>3. told' = scan
    BY <2>2 DEF Report
  <2>4. Scanning
    BY <2>1 DEF TestInv, ScanEnds
  <2>5. messages = Reported'
    BY <2>2, <2>3, <2>4 DEF Reported, Scanning
  <2> QED
    BY <1>1, <2>2, <2>5, ReportBegins
<1>6. CASE \E answer \in {200, 403, 0}, arrived \in BOOLEAN :
              (arrived => answer # 403) /\ Post(answer, arrived)
  <2>1. PICK answer \in {200, 403, 0}, arrived \in BOOLEAN : Post(answer, arrived)
    BY <1>6
  <2> QED
    BY <2>1, PostDelivers
<1>7. CASE NextMessage
  <2>1. Recipients \in Seq(ToSet(Recipients))
    BY <1>1 DEF Recipients, ListsEachOnce, Processes
  <2> QED
    BY <1>7, <2>1, NextMessageDelivers
<1>8. CASE AllTold
  <2>1. NothingSent /\ run.at = "telling" /\ outbox = <<>>
        /\ run'.command = run.command /\ run'.settings = run.settings
    BY <1>1, <1>8, ProcessMoves DEF AllTold, RunIsAt
  <2> QED
    BY <1>1, <2>1, ReportKept DEF UnderWay, RunIsAt
<1>9. CASE Close
  <2>1. NothingSent /\ run'.at \in {"ended", "waiting"}
        /\ run'.command = run.command /\ run'.settings = run.settings
    BY <1>1, <1>9, ProcessMoves DEF Close
  <2> QED
    BY <1>1, <2>1, ReportKept DEF UnderWay, RunIsAt
<1>10. CASE Waited
  <2>1. run'.at = "building" /\ told' = NoScan
    BY <1>1, <1>10, ProcessMoves DEF Waited, Report
  <2>2. NoScan \in Scans
    BY DEF NoScan, Scans
  <2> QED
    BY <1>1, <2>1, <2>2 DEF DeliveryInv, UnderWay, RunIsAt
<1>11. CASE Interrupt
  <2>1. NothingSent /\ (run'.at = "ended" \/ (run'.at = "closing" /\ run'.interrupted))
        /\ run'.command = run.command /\ run'.settings = run.settings
    BY <1>1, <1>11 DEF Interrupt, Processes
  <2> QED
    BY <1>1, <2>1, ReportKept DEF UnderWay, RunIsAt
<1> QED
  BY <1>2, <1>3, <1>4, <1>5, <1>6, <1>7, <1>8, <1>9, <1>10, <1>11
     DEF LoopNext, ProcessWorks

LEMMA DeliveryAlways ==
  ASSUME \A s \in Configured : ListsEachOnce(TelegramUsers(s.env.users)),
         \A scan \in Scans : SaysWhatWasFound(scan)
  PROVE  LoopSpec => [](DeliveryInv /\ TestInv)
<1>1. LoopInit => DeliveryInv
  <2>1. NoScan \in Scans
    BY DEF NoScan, Scans
  <2> QED
    BY <2>1 DEF LoopInit, Processes, DeliveryInv, UnderWay, RunIsAt
<1>2. LoopInit => TestInv
  BY DEF LoopInit, Processes, TestInv, TestExitIsTrue, RunIsAt
<1>3. DeliveryInv /\ TestInv /\ [LoopNext]_loopVars => DeliveryInv'
  BY DeliveryInductive
<1> QED
  BY <1>1, <1>2, <1>3, TestInductive, PTL DEF LoopSpec

\* Whoever all the messages of a scan got through to has its report whole and in
\* order, and everyone else a part of it in order: however the requests went.  So
\* they have read the change, if nobody is listed twice and the report says it.
THEOREM EveryReaderLearns ==
  ASSUME \A s \in Configured : ListsEachOnce(TelegramUsers(s.env.users)),
         \A scan \in Scans : SaysWhatWasFound(scan)
  PROVE  LoopSpec => []EveryReaderLearnsTheChange
<1>1. DeliveryInv /\ TestInv => EveryReaderLearnsTheChange
  <2> SUFFICES ASSUME DeliveryInv, TestInv, Told
               PROVE  /\ \A r \in Everyone \ missed :
                            TellsTheChange(heard[r], TrueChange(told.found))
                      /\ \A r \in missed :
                            TellsSomeOfTheChange(heard[r], TrueChange(told.found))
    BY DEF EveryReaderLearnsTheChange
  <2>1. /\ run.at = "closing" /\ ~run.interrupted /\ HasNotifier(run.settings.env)
        /\ Scanning /\ told \in Scans /\ outbox = <<>>
    BY DEF Told, TestInv, DeliveryInv, RunIsAt, RaisedScan
  <2>2. Reported = Warrants(told)
    BY <2>1 DEF Reported
  <2>3. /\ Reported \in Seq(ToSet(Reported))
        /\ TellsTheChange(Reported, TrueChange(told.found))
        /\ \A n \in 0 .. Len(Reported) : \A choice \in Selections(n, Len(Reported)) :
              TellsSomeOfTheChange(Part(Reported, choice), TrueChange(told.found))
    BY <2>1, <2>2 DEF SaysWhatWasFound
  <2>4. /\ next = 1 /\ missed \subseteq Everyone
        /\ heard \in [Everyone -> Seq(ToSet(Reported))]
        /\ \A j \in 1 .. Len(Recipients) : HeardWhatWasDue(j)
    BY <2>1 DEF DeliveryInv, UnderWay, RunIsAt
  <2>5. \A j \in 1 .. Len(Recipients) : Due(j) = Len(Reported)
    BY <2>1, <2>3, <2>4 DEF Due, Done
  <2>6. ASSUME NEW r \in Everyone
        PROVE  /\ Len(heard[r]) \in 0 .. Len(Reported)
               /\ r \notin missed => heard[r] = [i \in 1 .. Len(Reported) |-> Reported[i]]
               /\ \E choice \in Selections(Len(heard[r]), Len(Reported)) :
                     heard[r] = Part(Reported, choice)
    <3>1. Recipients \in Seq(ToSet(Recipients))
      BY DEF Recipients, ListsEachOnce, DeliveryInv, Processes
    <3>2. PICK j \in 1 .. Len(Recipients) : r = Recipients[j]
      BY <3>1 DEF Everyone, ToSet
    <3> QED
      BY <2>3, <2>4, <2>5, <3>2 DEF HeardWhatWasDue
  <2>7. [i \in 1 .. Len(Reported) |-> Reported[i]] = Reported
    BY <2>3
  <2> QED
    BY <2>3, <2>4, <2>6, <2>7
<1>2. LoopSpec => [](DeliveryInv /\ TestInv)
  BY DeliveryAlways
<1> QED
  BY <1>1, <1>2, PTL
=============================================================================

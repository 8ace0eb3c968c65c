---------------------------- MODULE BrowserMonitor ----------------------------
(***************************************************************************)
(* The older monitor, which polls by driving the browser (browser-monitor; *)
(* monitor/monitor.py, monitor/state.py, notification/).  Walking one      *)
(* centre's wizard is one step here, with every way it can end; the walk   *)
(* itself is BrowserScan's subject.                                        *)
(*                                                                         *)
(* What has been reported is remembered in a dict and in a file.  Time     *)
(* passes as the ages of those memories: an age stops at Retention + 1,    *)
(* beyond which no comparison changes.  The process may die at any point   *)
(* and be started again.                                                   *)
(***************************************************************************)
EXTENDS Naturals, Sequences, FiniteSets

CONSTANTS
    Centres,     \* how many are enabled, visited in order
    Keys,        \* the slot keys there can be, <<centre, slot>>
    Cooldown,    \* notify_cooldown_seconds, in ticks
    Retention    \* RETENTION, in ticks

ASSUME MonitorAssumption ==
    /\ Centres \in Nat \ {0}
    /\ \A k \in Keys : k[1] \in 1 .. Centres
    /\ Cooldown \in Nat /\ Retention \in Nat /\ Retention >= Cooldown

VARIABLES
    monitor,  \* where the process is
    seen,     \* its _seen: key -> age of the last notification
    file,     \* what load() makes of the state file; nothing if it is not readable
    fresh,    \* the keys being reported, and the notifiers still to be called
    free,     \* the slots read off the current centre's calendar
    alerted,  \* key -> age of the last alert a notifier was asked to send
    lost      \* keys alerted by a process that died before they were on file

vars == <<monitor, seen, file, fresh, free, alerted, lost>>

KeysOf(centre) == {k \in Keys : k[1] = centre}
Oldest == Retention + 1
Never == Oldest + 1
Ages == 0 .. Never

Nothing == [k \in Keys |-> Never]

Notifiers == {"console", "telegram"}

Places == {"starting", "login", "centre", "reporting", "saving", "pausing", "dead", "ended"}

Monitors ==
    [at: Places, centre: 1 .. Centres + 1, cut: BOOLEAN, dryRun: BOOLEAN, once: BOOLEAN]

TypeOK ==
    /\ monitor \in Monitors
    /\ seen \in [Keys -> Ages]
    /\ file \in [Keys -> Ages]
    /\ fresh \in [keys: SUBSET Keys, left: SUBSET Notifiers]
    /\ free \subseteq Keys
    /\ alerted \in [Keys -> Ages]
    /\ lost \subseteq Keys

\* What an earlier run left: a file that says what was alerted, or none, or
\* one that cannot be read.
Init ==
    /\ monitor \in [at: {"starting"}, centre: {1}, cut: {FALSE},
                    dryRun: BOOLEAN, once: BOOLEAN]
    /\ seen = Nothing
    /\ alerted \in [Keys -> {0, Cooldown, Never}]
    /\ \/ file = alerted /\ lost = {}
       \/ file = Nothing /\ lost = {k \in Keys : alerted[k] < Cooldown}
    /\ fresh = [keys |-> {}, left |-> {}]
    /\ free = {}

At(place) == monitor.at = place
Go(place) == monitor' = [monitor EXCEPT !.at = place]
NextCentre == monitor' = [monitor EXCEPT !.at = "centre", !.centre = @ + 1]
\* An exception that is no HscMonitorError leaves check_all where it is.
CutShort == monitor' = [monitor EXCEPT !.at = "pausing", !.cut = TRUE]

-----------------------------------------------------------------------------
(* StateStore *)

\* load(): a file that is missing, or no JSON, is nothing known.
Load ==
    /\ At("starting")
    /\ seen' = file
    /\ Go("login")
    /\ UNCHANGED <<file, fresh, free, alerted, lost>>

IsNew(k) == seen[k] = Never \/ seen[k] >= Cooldown

SelectNew(slots) == {k \in slots : IsNew(k)}

\* mark_notified with the time the report began at, then prune.
Marked(keys) ==
    [k \in Keys |-> IF k \in keys THEN 0
                    ELSE IF seen[k] = Oldest THEN Never ELSE seen[k]]

-----------------------------------------------------------------------------
(* Monitor *)

\* run(): the first sign-in is outside the try.
FirstLogin ==
    /\ At("login")
    /\ \E ok \in BOOLEAN : IF ok THEN Go("centre") ELSE Go("ended")
    /\ UNCHANGED <<seen, file, fresh, free, alerted, lost>>

InCentre == At("centre") /\ monitor.centre <= Centres

\* check_center: ensure_logged_in, PER_CENTER_STEPS, and last_slots.
CentreFails ==
    /\ InCentre /\ (NextCentre \/ CutShort) /\ free' = {}
    /\ UNCHANGED <<seen, file, fresh, alerted, lost>>

\* report(): what was read, and what of it has not been said lately.
CentreRead(slots) ==
    /\ InCentre
    /\ free' = slots
    /\ IF SelectNew(slots) = {}
       THEN NextCentre /\ UNCHANGED fresh
       ELSE Go("reporting") /\ fresh' = [keys |-> SelectNew(slots), left |-> Notifiers]
    /\ UNCHANGED <<seen, file, alerted, lost>>

\* notifier.send: whatever it raises, the next one is called.  A dry run has
\* the console only.
Send ==
    /\ At("reporting") /\ fresh.left # {}
    /\ fresh' = [fresh EXCEPT !.left = IF "console" \in @ /\ ~monitor.dryRun
                                       THEN {"telegram"} ELSE {}]
    /\ alerted' = [k \in Keys |-> IF k \in fresh.keys THEN 0 ELSE alerted[k]]
    /\ UNCHANGED <<monitor, seen, file, free, lost>>

RecordUnmarked ==
    /\ At("reporting") /\ fresh.left = {}
    /\ IF monitor.dryRun THEN NextCentre ELSE Go("saving")
    /\ UNCHANGED <<seen, file, fresh, free, alerted, lost>>
RecordEverything ==
    /\ At("reporting") /\ fresh.left = {}
    /\ IF monitor.dryRun THEN NextCentre /\ UNCHANGED seen
       ELSE Go("saving") /\ seen' = [k \in Keys |-> 0]
    /\ UNCHANGED <<file, fresh, free, alerted, lost>>
Record ==
    /\ At("reporting") /\ fresh.left = {}
    /\ IF monitor.dryRun THEN NextCentre /\ UNCHANGED seen
       ELSE Go("saving") /\ seen' = Marked(fresh.keys)
    /\ UNCHANGED <<file, fresh, free, alerted, lost>>

\* save(): the temporary file is complete before it takes the name.  A write
\* that fails leaves the old file, and the rest of the centres unvisited.
Save ==
    /\ At("saving")
    /\ \/ file' = seen /\ lost' = lost \ fresh.keys /\ NextCentre
       \/ CutShort /\ UNCHANGED <<file, lost>>
    /\ UNCHANGED <<seen, fresh, free, alerted>>

AllVisited ==
    /\ At("centre") /\ monitor.centre > Centres
    /\ Go("pausing")
    /\ UNCHANGED <<seen, file, fresh, free, alerted, lost>>

\* A tick: the pause is the only time that counts against a cooldown.
OlderForever(memory) == [k \in Keys |-> memory[k] + 1]
Older(memory) ==
    [k \in Keys |-> IF memory[k] < Oldest THEN memory[k] + 1 ELSE memory[k]]
Age ==
    /\ seen' = Older(seen) /\ alerted' = Older(alerted)
    /\ file' = Older(file)

Pause ==
    /\ At("pausing")
    /\ IF monitor.once THEN Go("ended") /\ UNCHANGED <<seen, alerted, file>>
       ELSE /\ Age
            /\ monitor' = [monitor EXCEPT !.at = "centre", !.centre = 1, !.cut = FALSE]
    /\ fresh' = [keys |-> {}, left |-> {}] /\ free' = {}
    /\ UNCHANGED lost

-----------------------------------------------------------------------------
(* The process dies, time passes, it is started again *)

Die ==
    /\ monitor.at \notin {"dead", "ended"}
    /\ Go("dead")
    /\ lost' = lost \cup {k \in Keys : alerted[k] < Cooldown /\ file[k] # alerted[k]}
    /\ UNCHANGED <<seen, file, fresh, free, alerted>>

Restart ==
    /\ At("dead")
    /\ monitor' = [monitor EXCEPT !.at = "starting", !.centre = 1, !.cut = FALSE]
    /\ fresh' = [keys |-> {}, left |-> {}] /\ free' = {}
    /\ (Age \/ UNCHANGED <<seen, file, alerted>>)
    /\ UNCHANGED lost

-----------------------------------------------------------------------------
(* The specification *)

Works ==
    \/ Load \/ FirstLogin \/ CentreFails \/ Send \/ Record \/ Save \/ AllVisited \/ Pause
    \/ \E slots \in SUBSET KeysOf(monitor.centre) : CentreRead(slots)

Next == Works \/ Die \/ Restart

Spec == Init /\ [][Next]_vars

-----------------------------------------------------------------------------
(* Properties *)

\* No slot is alerted again before its cooldown is over, across restarts too,
\* unless the process died between an alert and the file that records it (a
\* failed write followed by a death included), or it is a dry run, which
\* records nothing.
CooldownHeld ==
    [][\A k \in Keys :
          /\ At("reporting") /\ fresh.left = Notifiers /\ alerted'[k] = 0
          /\ k \in fresh.keys /\ ~monitor.dryRun
          => alerted[k] >= Cooldown \/ k \in lost]_vars

\* A slot that is free and stays unmentioned was alerted less than a cooldown
\* ago: the memory, the file and the pruning never silence one longer, and
\* never one that no notifier was asked to report.
FreeSlotWasAnnounced ==
    At("centre") => \A k \in free : alerted[k] < Cooldown \/ Cooldown = 0

=============================================================================

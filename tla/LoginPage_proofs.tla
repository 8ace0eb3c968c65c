---------------------------- MODULE LoginPage_proofs ----------------------------
(***************************************************************************)
(* What holds of the two places where the login page waits for somebody    *)
(* else: AppKit, when the key is handed over (FilePicker), and ID.GOV.UA,  *)
(* when it has been submitted (CallbackWatch).                             *)
(*                                                                         *)
(* The watch: for every number of polls, every deadline and every stall,   *)
(* the two verdicts that are counted out in polls are never spoken over a  *)
(* page that only passed by.  The picker: in every interleaving of the     *)
(* selector, AppKit and the person at the machine, the events are sent     *)
(* once and in their order, and the page gets the file of the row that was *)
(* found or nothing, unless the person overrules the last check.  Neither  *)
(* assumes anything of the folders.                                        *)
(***************************************************************************)
EXTENDS CallbackWatch, FilePicker, TLAPS

-----------------------------------------------------------------------------
(* Type correctness *)

\* The observer's counters stay numbers, whatever a poll has found.
LEMMA FoundType ==
  ASSUME TypeOK, NEW finding, Found(finding)
  PROVE  streak' \in [clickable: Nat, still: Nat, unknown: Nat]
<1>1. /\ AtMost(streak.clickable + 1, FormPolls) \in Nat
      /\ AtMost(streak.still + 1, FormPolls) \in Nat
      /\ AtMost(streak.unknown + 1, ScreenPolls) \in Nat
  BY WatchAssumption DEF TypeOK, AtMost
<1> QED
  BY <1>1 DEF TypeOK, Found

\* A watch that goes on has not yet counted a reset out: this is why the next
\* poll may count one more.
BelowLimit == pc \in Probes => polls.form < FormPolls

\* Every probe, and every move of the page, keeps the types.
LEMMA TypeInductive == TypeOK /\ BelowLimit /\ [Next]_vars => TypeOK' /\ BelowLimit'
<1> SUFFICES ASSUME TypeOK, BelowLimit, [Next]_vars
             PROVE  TypeOK' /\ BelowLimit'
  OBVIOUS
<1> USE WatchAssumption DEF locals, observed, world, BelowLimit
<1>1. CASE ReadUrl
  <2>1. CASE screen = "hsc"
    BY <1>1, <2>1 DEF ReadUrl, TypeOK, Probes
  <2>2. CASE screen # "hsc"
    <3>1. streak' \in [clickable: Nat, still: Nat, unknown: Nat]
      BY <1>1, <2>2, FoundType DEF ReadUrl, TypeOK
    <3>2. url' \in {"idgov", "away"}
      BY <1>1, <2>2 DEF ReadUrl, HostOf, TypeOK
    <3>3. polls' \in [form: 0 .. FormPolls, other: 0 .. ScreenPolls]
          /\ polls'.form < FormPolls
      BY <1>1, <2>2 DEF ReadUrl, TypeOK, Reset, Probes
    <3>4. textNew' \in BOOLEAN /\ changed' \in BOOLEAN
      BY <1>1, <2>2 DEF ReadUrl, TypeOK
    <3>5. pc' = "busy"
          /\ UNCHANGED <<screen, markers, started, confirmed, clock, waited, read>>
      BY <1>1, <2>2 DEF ReadUrl
    <3> QED
      BY <3>1, <3>2, <3>3, <3>4, <3>5 DEF TypeOK, Probes
  <2> QED
    BY <2>1, <2>2
<1>2. CASE Busy
  <2>1. streak' \in [clickable: Nat, still: Nat, unknown: Nat]
    BY <1>2, FoundType DEF Busy
  <2>2. Reset(polls) \in [form: 0 .. FormPolls, other: 0 .. ScreenPolls]
        /\ Reset(polls).form < FormPolls
    BY DEF Reset
  <2>3. pc' \in Probes \cup Failures
    BY <1>2 DEF Busy, Probes, Failures
  <2>4. started' \in BOOLEAN /\ read' \in BOOLEAN
    BY <1>2 DEF Busy
  <2> QED
    BY <1>2, <2>1, <2>2, <2>3, <2>4 DEF Busy, TypeOK
<1>3. CASE NotBusy
  BY <1>3 DEF NotBusy, TypeOK, Probes
<1>4. CASE ProbeError
  BY <1>4 DEF ProbeError, TypeOK, Probes, Failures
<1>5. CASE ProbeUserData
  <2>1. streak' \in [clickable: Nat, still: Nat, unknown: Nat]
    BY <1>5, FoundType DEF ProbeUserData, TypeOK
  <2>2. polls' \in [form: 0 .. FormPolls, other: 0 .. ScreenPolls]
        /\ polls'.form < FormPolls
    BY <1>5 DEF ProbeUserData, TypeOK, Reset, Probes
  <2>3. pc' \in Probes /\ confirmed' \in BOOLEAN
    BY <1>5 DEF ProbeUserData, TypeOK, Probes
  <2> QED
    BY <1>5, <2>1, <2>2, <2>3 DEF ProbeUserData, TypeOK
<1>6. CASE ConfirmUserData
  BY <1>6 DEF ConfirmUserData, TypeOK, Probes, Failures
<1>7. CASE ProbeForm
  <2>1. streak' \in [clickable: Nat, still: Nat, unknown: Nat]
    BY <1>7, FoundType DEF ProbeForm, TypeOK
  <2>2. AtMost(polls.other + 1, ScreenPolls) \in 0 .. ScreenPolls
    BY DEF TypeOK, AtMost
  <2>3. polls' \in [form: 0 .. FormPolls, other: 0 .. ScreenPolls]
        /\ polls'.form <= polls.form
    BY <1>7, <2>2 DEF ProbeForm, TypeOK, FormSeen, UnknownSeen
  <2>4. pc' \in Probes \cup Failures /\ changed' \in BOOLEAN
    BY <1>7 DEF ProbeForm, TypeOK, Probes, Failures
  <2>5. polls'.form < FormPolls
    BY <1>7, <2>3 DEF ProbeForm, TypeOK, Probes
  <2> QED
    BY <1>7, <2>1, <2>3, <2>4, <2>5 DEF ProbeForm, TypeOK
<1>8. CASE ProbeSubmit
  <2>1. streak' \in [clickable: Nat, still: Nat, unknown: Nat]
    BY <1>8, FoundType DEF ProbeSubmit
  <2>2. polls.form + 1 \in 0 .. FormPolls
    BY <1>8 DEF ProbeSubmit, TypeOK, Probes
  <2> QED
    BY <1>8, <2>1, <2>2 DEF ProbeSubmit, TypeOK, Enough, Probes, Failures
<1>9. CASE SubmitGone
  <2>1. streak' \in [clickable: Nat, still: Nat, unknown: Nat]
    BY <1>9, FoundType DEF SubmitGone, TypeOK
  <2>2. AtMost(clock + 1, Deadline + Stall) \in 0 .. Deadline + Stall
    BY DEF TypeOK, AtMost
  <2> QED
    BY <1>9, <2>1, <2>2 DEF SubmitGone, TypeOK, Probes
<1>10. CASE TimeIsUp
  BY <1>10 DEF TimeIsUp, TypeOK, Probes, Failures
<1>11. CASE Sleep
  <2>1. AtMost(clock + 1, Deadline + Stall) \in 0 .. Deadline + Stall
    BY DEF TypeOK, AtMost
  <2> QED
    BY <1>11, <2>1 DEF Sleep, TypeOK, Probes
<1>12. CASE PageMoves
  BY <1>12 DEF PageMoves, TypeOK
<1>13. CASE UNCHANGED vars
  BY <1>13 DEF vars, TypeOK
<1> QED
  BY <1>1, <1>2, <1>3, <1>4, <1>5, <1>6, <1>7, <1>8, <1>9, <1>10, <1>11, <1>12,
     <1>13 DEF Next, Look

\* Every reachable state is well typed: no counter of the loop passes the
\* number it is compared with, however the page moves under the probes.
THEOREM TypeCorrect == Spec => [](TypeOK /\ BelowLimit)
<1>1. Init => TypeOK /\ BelowLimit
  <2> SUFFICES ASSUME Init PROVE TypeOK /\ BelowLimit
    OBVIOUS
  <2>1. polls = [form |-> 0, other |-> 0] /\ clock = 0 /\ waited = 0
        /\ streak = [clickable |-> 0, still |-> 0, unknown |-> 0]
    BY DEF Init
  <2>2. /\ polls \in [form: 0 .. FormPolls, other: 0 .. ScreenPolls]
        /\ polls.form < FormPolls
        /\ clock \in 0 .. Deadline + Stall /\ waited \in 0 .. Stall
        /\ streak \in [clickable: Nat, still: Nat, unknown: Nat]
    BY <2>1, WatchAssumption
  <2>3. pc \in Probes /\ screen \in Screens /\ markers \subseteq {"processing", "error"}
    BY DEF Init, Probes, Screens
  <2> QED
    BY <2>2, <2>3 DEF Init, TypeOK, BelowLimit
<1> QED
  BY <1>1, TypeInductive, PTL DEF Spec

-----------------------------------------------------------------------------
(* The verdicts *)

\* The code's two counters never run ahead of what the polls really found one
\* after the other, whatever reset them in between.
CountersAreFindings ==
    /\ polls.form <= streak.still
    /\ polls.other <= streak.unknown

\* Between the form and its button nothing unknown is remembered: what resets
\* the observer's count there finds the code's at zero.
FormForgetsUnknown == pc = "submit" => polls.other = 0

\* What allows a reset: the overlay was on screen, where it can be told.
OverlayWasSeen ==
    /\ started => read
    /\ pc \in {"submit", "reset"} /\ "processing" \in markers => started

\* A verdict is spoken with its counter full.
CountedOut ==
    /\ pc = "reset" => polls.form >= FormPolls
    /\ pc = "intermediate" => polls.other >= ScreenPolls

VerdictInv ==
    /\ CountersAreFindings
    /\ FormForgetsUnknown
    /\ OverlayWasSeen
    /\ CountedOut

\* Every probe keeps the counters behind the findings.
LEMMA VerdictInductive ==
  TypeOK /\ BelowLimit /\ VerdictInv /\ [Next]_vars => VerdictInv'
<1> SUFFICES ASSUME TypeOK, BelowLimit, VerdictInv, [Next]_vars
             PROVE  VerdictInv'
  OBVIOUS
<1> USE WatchAssumption DEF locals, observed, world, VerdictInv,
        CountersAreFindings, FormForgetsUnknown, OverlayWasSeen, CountedOut
<1>1. CASE ReadUrl
  BY <1>1 DEF ReadUrl, TypeOK, Reset, Found
<1>2. CASE Busy
  BY <1>2 DEF Busy, TypeOK, Reset, Found
<1>3. CASE NotBusy
  BY <1>3 DEF NotBusy
<1>4. CASE ProbeError
  BY <1>4 DEF ProbeError
<1>5. CASE ProbeUserData
  BY <1>5 DEF ProbeUserData, TypeOK, Reset, Found
<1>6. CASE ConfirmUserData
  BY <1>6 DEF ConfirmUserData
<1>7. CASE ProbeForm
  <2>1. CASE screen \in FormScreens
    BY <1>7, <2>1 DEF ProbeForm, TypeOK, FormSeen, Found, ResetPossible
  <2>2. CASE screen \notin FormScreens
    <3>1. /\ polls' = [form |-> 0, other |-> AtMost(polls.other + 1, ScreenPolls)]
          /\ streak'.unknown = AtMost(streak.unknown + 1, ScreenPolls)
          /\ streak'.still = 0
          /\ pc' \in {"intermediate", "time"}
          /\ pc' = "intermediate" => polls'.other >= ScreenPolls
          /\ UNCHANGED <<started, read, markers>>
      BY <1>7, <2>2 DEF ProbeForm, UnknownSeen, Found
    <3>2. AtMost(polls.other + 1, ScreenPolls)
             <= AtMost(streak.unknown + 1, ScreenPolls)
      BY DEF AtMost, TypeOK
    <3> QED
      BY <3>1, <3>2
  <2> QED
    BY <2>1, <2>2
<1>8. CASE ProbeSubmit
  <2>1. CASE screen = "greyed"
    BY <1>8, <2>1 DEF ProbeSubmit, TypeOK, Found
  <2>2. CASE screen # "greyed"
    <3>1. /\ polls' = [polls EXCEPT !.form = @ + 1]
          /\ streak'.still = AtMost(streak.still + 1, FormPolls)
          /\ streak'.unknown = 0
          /\ pc' = IF Enough(polls') THEN "reset" ELSE "time"
          /\ UNCHANGED <<started, read, markers>>
      BY <1>8, <2>2 DEF ProbeSubmit, Found
    <3>2. polls.form < FormPolls /\ polls.other = 0
      BY <1>8 DEF ProbeSubmit, Probes, BelowLimit
    <3>3. polls.form + 1 <= AtMost(streak.still + 1, FormPolls)
      BY <3>2 DEF AtMost, TypeOK
    <3>4. polls'.form = polls.form + 1 /\ polls'.other = 0
      BY <3>1, <3>2 DEF TypeOK
    <3>5. CountersAreFindings' /\ FormForgetsUnknown'
      BY <3>1, <3>3, <3>4
    <3>6. OverlayWasSeen'
      BY <1>8, <3>1 DEF ProbeSubmit
    <3>7. CountedOut'
      BY <3>1 DEF Enough
    <3> QED
      BY <3>5, <3>6, <3>7
  <2> QED
    BY <2>1, <2>2
<1>9. CASE SubmitGone
  BY <1>9 DEF SubmitGone, TypeOK, Found
<1>10. CASE TimeIsUp
  BY <1>10 DEF TimeIsUp
<1>11. CASE Sleep
  BY <1>11 DEF Sleep
<1>12. CASE PageMoves
  BY <1>12 DEF PageMoves
<1>13. CASE UNCHANGED vars
  BY <1>13 DEF vars
<1> QED
  BY <1>1, <1>2, <1>3, <1>4, <1>5, <1>6, <1>7, <1>8, <1>9, <1>10, <1>11, <1>12,
     <1>13 DEF Next, Look

\* The invariant of the verdicts holds from the first poll on.
LEMMA VerdictsAreCounted == Spec => []VerdictInv
<1>1. Init => VerdictInv
  BY WatchAssumption DEF Init, VerdictInv, CountersAreFindings, FormForgetsUnknown,
     OverlayWasSeen, CountedOut
<1> QED
  BY <1>1, VerdictInductive, TypeCorrect, PTL DEF Spec

\* However the page moves between two probes, a reset is called only after the
\* overlay was seen (where it is configured) and after FormPolls polls found the
\* form clickable with nothing but the form between them.
THEOREM ResetWasHandedBack == Spec => []ResetOnlyWhenHandedBack
<1>1. TypeOK /\ VerdictInv => ResetOnlyWhenHandedBack
  BY WatchAssumption DEF TypeOK, VerdictInv, CountersAreFindings, OverlayWasSeen,
     CountedOut, ResetOnlyWhenHandedBack
<1> QED
  BY <1>1, TypeCorrect, VerdictsAreCounted, PTL

\* A screen is called a destination only after ScreenPolls polls in a row that
\* found nothing known on it.
THEOREM DestinationHeldStill == Spec => []ScreenHeldStill
<1>1. TypeOK /\ VerdictInv => ScreenHeldStill
  BY WatchAssumption DEF TypeOK, VerdictInv, CountersAreFindings, CountedOut,
     ScreenHeldStill
<1> QED
  BY <1>1, TypeCorrect, VerdictsAreCounted, PTL

-----------------------------------------------------------------------------
(* How far the selector has come, and what it has sent by then *)

BeforeChord == {"panel", "chord"}
BeforeReturn == {"field", "write", "focus", "return"}
BeforePress == {"gotoClosed", "row", "select", "commit"}

\* The events sent are those of the steps done; a selector that has given up
\* may have stopped anywhere.
SentSoFar ==
    /\ picker \in BeforeChord => sent = [chord |-> 0, enter |-> 0, press |-> 0]
    /\ picker \in BeforeReturn => sent = [chord |-> 1, enter |-> 0, press |-> 0]
    /\ picker \in BeforePress => sent = [chord |-> 1, enter |-> 1, press |-> 0]
    /\ picker = "panelClosed" => sent = [chord |-> 1, enter |-> 1, press |-> 1]
    /\ sent.press <= sent.enter /\ sent.enter <= sent.chord

\* Every step of the selector and of its surroundings keeps the types, and the
\* order of what is sent.
SentInv == PickerTypeOK /\ SentSoFar

LEMMA SentInductive == SentInv /\ [PickerNext]_pickerVars => SentInv'
<1> SUFFICES ASSUME SentInv, [PickerNext]_pickerVars
             PROVE  SentInv'
  OBVIOUS
<1>o. overruled' \in BOOLEAN
  BY DEF SentInv, PickerTypeOK, PickerNext, SelectFile, Outside, PersonDismisses,
     PersonSelects, Over, pickerVars
<1> USE <1>o DEF SentInv, SentSoFar, BeforeChord, BeforeReturn, BeforePress
<1>a. ASSUME Fail
      PROVE  SentInv'
  BY <1>a DEF Fail, PickerTypeOK, Steps, Ended
<1>b. ASSUME NEW step \in Steps, JustLook(step)
      PROVE  PickerTypeOK'
  BY <1>b DEF JustLook, PickerTypeOK
<1>c. ASSUME Commits
      PROVE  os' \in Windows /\ handed' \in Files \cup {"none"}
  BY <1>c DEF Commits, PickerTypeOK, Windows
<1>1. CASE AwaitPanel
  BY <1>1, <1>a, <1>b DEF AwaitPanel, At, JustLook, Steps
<1>2. CASE OpenGotoSheet
  <2>1. CASE Fail
    BY <1>a, <2>1
  <2>2. CASE ~Fail
    <3>1. /\ picker = "chord" /\ picker' = "field" /\ UNCHANGED <<row, handed>>
          /\ sent' = [sent EXCEPT !.chord = @ + 1]
          /\ os' = os \/ os' = [os EXCEPT !.sheet = "opening"]
      BY <1>2, <2>2 DEF OpenGotoSheet, At, Then
    <3>2. sent' = [chord |-> 1, enter |-> 0, press |-> 0]
      BY <3>1
    <3>3. os' \in Windows
      BY <3>1 DEF PickerTypeOK, Windows
    <3> QED
      BY <3>1, <3>2, <3>3 DEF PickerTypeOK, Steps, Waits
  <2> QED
    BY <2>1, <2>2
<1>3. CASE AwaitPathField
  BY <1>3, <1>a, <1>b DEF AwaitPathField, At, JustLook, Steps
<1>4. CASE WritePath
  <2>1. CASE Fail
    BY <1>a, <2>1
  <2>2. CASE ~Fail
    <3>1. /\ picker = "write" /\ picker' \in {"focus", "failed"}
          /\ \E text \in {"partial", "path"} : os' = [os EXCEPT !.text = text]
          /\ UNCHANGED <<sent, row, handed>>
      BY <1>4, <2>2 DEF WritePath, At, Then
    <3> QED
      BY <3>1 DEF PickerTypeOK, Windows, Steps, Ended
  <2> QED
    BY <2>1, <2>2
<1>5. CASE RequireFocused
  BY <1>5, <1>a DEF RequireFocused, At, Then, PickerTypeOK,
     Windows, Steps
<1>6. CASE PostReturn
  <2>1. CASE Fail
    BY <1>a, <2>1
  <2>2. CASE ~Fail
    <3>1. /\ picker = "return" /\ picker' = "gotoClosed"
          /\ sent' = [sent EXCEPT !.enter = @ + 1] /\ row' = row
          /\ \/ os' = [os EXCEPT !.sheet = "committed"] /\ handed' = handed
             \/ Commits
      BY <1>6, <2>2 DEF PostReturn, At, Then
    <3>2. sent' = [chord |-> 1, enter |-> 1, press |-> 0]
      BY <3>1
    <3>3. os' \in Windows /\ handed' \in Files \cup {"none"}
      BY <1>c, <3>1 DEF PickerTypeOK, Windows
    <3> QED
      BY <3>1, <3>2, <3>3 DEF PickerTypeOK, Steps, Waits
  <2> QED
    BY <2>1, <2>2
<1>7. CASE AwaitGotoClosed
  BY <1>7, <1>a, <1>b DEF AwaitGotoClosed, At, JustLook, Steps
<1>8. CASE FindFileRow
  <2>1. RowFile \in Named \cup {"none"}
    BY DEF RowFile, Named
  <2> QED
    BY <1>8, <1>a, <2>1 DEF FindFileRow, At, Then, PickerTypeOK, Steps
<1>9. CASE SelectRow
  <2>1. CASE Fail
    BY <1>a, <2>1
  <2>2. CASE ~Fail
    <3>1. /\ picker = "select" /\ picker' \in {"commit", "failed"}
          /\ \E selected \in {row, os.picked, "other", "none"} :
                os' = [os EXCEPT !.picked = selected]
          /\ UNCHANGED <<sent, row, handed>>
      BY <1>9, <2>2 DEF SelectRow, At, Then
    <3>2. os' \in Windows
      BY <3>1 DEF PickerTypeOK, Windows, Files
    <3> QED
      BY <3>1, <3>2 DEF PickerTypeOK, Steps, Ended
  <2> QED
    BY <2>1, <2>2
<1>10. CASE OpenSelectedFile
  <2>1. CASE Fail
    BY <1>a, <2>1
  <2>2. CASE NotSeen
    BY <1>10, <2>2 DEF OpenSelectedFile, NotSeen, At,
       JustLook, PickerTypeOK, Steps, Ended
  <2>3. CASE ~Fail /\ ~NotSeen
    <3>1. /\ picker = "commit" /\ picker' = "panelClosed" /\ Commits
          /\ sent' = [sent EXCEPT !.press = @ + 1] /\ row' = row
      BY <1>10, <2>3 DEF OpenSelectedFile, At, Then
    <3>2. sent' = [chord |-> 1, enter |-> 1, press |-> 1]
      BY <3>1
    <3> QED
      BY <3>1, <3>2, <1>c DEF PickerTypeOK, Steps, Waits
  <2> QED
    BY <2>1, <2>2, <2>3
<1>11. CASE AwaitPanelClosed
  BY <1>11, <1>a DEF AwaitPanelClosed, NotSeen, At,
     JustLook, PickerTypeOK, Steps, Ended
<1>12. CASE Outside
  <2>1. UNCHANGED <<sent, picker, row, handed>>
    BY <1>12 DEF Outside
  <2>2. os' \in Windows
    <3>1. os \in Windows
      BY DEF PickerTypeOK
    <3>2. CASE PanelAppears \/ SheetGrows \/ SheetShuts
      BY <3>1, <3>2 DEF PanelAppears, SheetGrows, SheetShuts,
         Windows
    <3>3. CASE ListReloads \/ PanelCloses
      BY <3>1, <3>3 DEF ListReloads, PanelCloses, Windows
    <3>4. CASE PersonDismisses \/ PersonSelects \/ PersonSwitches
      BY <3>1, <3>4 DEF PersonDismisses, PersonSelects, PersonSwitches, Windows, Files
    <3> QED
      BY <1>12, <3>2, <3>3, <3>4 DEF Outside
  <2> QED
    BY <2>1, <2>2 DEF PickerTypeOK
<1>13. CASE Over \/ UNCHANGED pickerVars
  BY <1>13 DEF Over, pickerVars, PickerTypeOK
<1> QED
  BY <1>1, <1>2, <1>3, <1>4, <1>5, <1>6, <1>7, <1>8, <1>9, <1>10, <1>11, <1>12,
     <1>13 DEF PickerNext, SelectFile

\* Every reachable state is well typed, and no event is sent out of its turn
\* or twice, wherever the selector gives up.
THEOREM EventsInTurn == PickerSpec => []SentInv
<1>1. PickerInit => SentInv
  <2> SUFFICES ASSUME PickerInit PROVE SentInv
    OBVIOUS
  <2>1. os \in Windows
    BY DEF PickerInit, Windows, Files
  <2>2. /\ sent = [chord |-> 0, enter |-> 0, press |-> 0] /\ picker = "panel"
        /\ row = "none" /\ handed = "none"
    BY DEF PickerInit
  <2>3. overruled \in BOOLEAN
    BY DEF PickerInit
  <2> QED
    BY <2>1, <2>2, <2>3 DEF SentInv, PickerTypeOK, SentSoFar, BeforeChord, BeforeReturn,
       BeforePress, Steps, Waits
<1> QED
  BY <1>1, SentInductive, PTL DEF PickerSpec

-----------------------------------------------------------------------------
(* What the events acted on *)

\* From the moment the whole path has been read back to the Return, the sheet
\* that holds it either waits or is gone; after the Return no sheet takes text.
\* This is what keeps a sheet that AppKit draws late from emptying the field.
PathIsKept ==
    /\ picker \in {"focus", "return"} =>
          os.text = "path" /\ os.sheet \in {"ready", "shut"}
    /\ sent.enter = 1 => os.text = "path" /\ os.sheet \in {"committed", "shut"}

\* While the Return is due, the sheet is there to take it, the panel is gone, or
\* the person has come in between; while the press is due, nothing is selected
\* but the row the list has confirmed.
NothingInBetween ==
    ~overruled =>
        /\ picker = "return" => os.sheet = "ready" \/ os.panel \in {"closing", "closed"}
        /\ picker = "commit" => os.picked \in {"none", row}

PickInv == PathIsKept /\ NothingInBetween /\ OnlyTheRowFound

\* Every step keeps the path in the field and the selection on the row found.
LEMMA PickInductive == SentInv /\ PickInv /\ [PickerNext]_pickerVars => PickInv'
<1> SUFFICES ASSUME SentInv, PickInv, [PickerNext]_pickerVars
             PROVE  PickInv'
  OBVIOUS
<1> USE DEF PickInv, PathIsKept, NothingInBetween, OnlyTheRowFound
<1>a. /\ os \in Windows /\ PickerTypeOK
      /\ picker \in BeforeChord \cup BeforeReturn => sent.enter = 0 /\ sent.press = 0
      /\ picker \in BeforePress => sent.press = 0
  BY DEF SentInv, SentSoFar, PickerTypeOK, BeforeChord, BeforeReturn, BeforePress
<1>b. ASSUME Fail, UNCHANGED overruled
      PROVE  PickInv'
  BY <1>a, <1>b DEF Fail
<1>c. ASSUME SelectFile
      PROVE  UNCHANGED overruled
  BY <1>c DEF SelectFile
<1>1. CASE AwaitPanel /\ UNCHANGED overruled
  BY <1>1, <1>b DEF AwaitPanel, At, JustLook
<1>2. CASE OpenGotoSheet /\ UNCHANGED overruled
  BY <1>2, <1>a, <1>b DEF OpenGotoSheet, At, Then, BeforeChord,
     PickerTypeOK, Windows
<1>3. CASE AwaitPathField /\ UNCHANGED overruled
  BY <1>3, <1>b DEF AwaitPathField, At, JustLook
<1>4. CASE WritePath /\ UNCHANGED overruled
  BY <1>4, <1>a, <1>b DEF WritePath, Accepts, At, Then,
     BeforeReturn, Windows
<1>5. CASE RequireFocused /\ UNCHANGED overruled
  BY <1>5, <1>a, <1>b DEF RequireFocused, At, Then,
     BeforeReturn, Windows
<1>6. CASE PostReturn /\ UNCHANGED overruled
  <2>1. CASE Fail
    BY <1>6, <1>b, <2>1
  <2>2. CASE ~Fail
    <3>1. /\ picker = "return" /\ picker' = "gotoClosed" /\ row' = row
          /\ sent' = [sent EXCEPT !.enter = @ + 1]
          /\ IF os.sheet = "ready"
             THEN os' = [os EXCEPT !.sheet = "committed"] /\ handed' = handed
             ELSE Commits
      BY <1>6, <2>2 DEF PostReturn, At, Then
    <3>2. \/ os' = [os EXCEPT !.sheet = "committed"] /\ os.sheet = "ready"
          \/ os.sheet = "shut" /\ \E panel : os' = [os EXCEPT !.panel = panel]
          \/ os.sheet = "shut" /\ os' = os
      BY <3>1 DEF Commits
    <3>3. os'.text = "path" /\ os'.sheet \in {"committed", "shut"}
      BY <1>a, <3>1, <3>2 DEF Windows
    <3>4. ~overruled => handed' = handed
      BY <3>1 DEF Commits
    <3>5. ~overruled => handed = "none"
      BY <1>a, <3>1 DEF BeforeReturn
    <3> QED
      BY <1>6, <3>1, <3>3, <3>4, <3>5
  <2> QED
    BY <2>1, <2>2
<1>7. CASE AwaitGotoClosed /\ UNCHANGED overruled
  BY <1>7, <1>b DEF AwaitGotoClosed, At, JustLook
<1>8. CASE FindFileRow /\ UNCHANGED overruled
  BY <1>8, <1>a, <1>b DEF FindFileRow, At, Then, BeforePress
<1>9. CASE SelectRow /\ UNCHANGED overruled
  <2>1. CASE Fail
    BY <1>9, <1>b, <2>1
  <2>2. CASE ~Fail
    <3>1. PICK selected \in {row, os.picked, "other", "none"} :
                /\ os' = [os EXCEPT !.picked = selected]
                /\ picker' = IF Confirmed(selected) THEN "commit" ELSE "failed"
      BY <1>9, <2>2 DEF SelectRow, Then
    <3>2. /\ picker = "select" /\ UNCHANGED <<sent, row, handed>>
      BY <1>9, <2>2 DEF SelectRow, At
    <3>3. os'.picked = selected /\ os'.text = os.text /\ os'.sheet = os.sheet
      BY <1>a, <3>1 DEF Windows
    <3>4. picker' = "commit" => os'.picked = row
      BY <3>1, <3>3 DEF Confirmed
    <3> QED
      BY <1>9, <1>a, <3>1, <3>2, <3>3, <3>4 DEF BeforePress
  <2> QED
    BY <2>1, <2>2
<1>10. CASE OpenSelectedFile /\ UNCHANGED overruled
  <2>1. CASE Fail
    BY <1>10, <1>b, <2>1
  <2>2. CASE NotSeen
    BY <1>10, <2>2 DEF OpenSelectedFile, NotSeen, At, JustLook
  <2>3. CASE ~Fail /\ ~NotSeen
    <3>1. /\ picker = "commit" /\ picker' = "panelClosed" /\ Commits
          /\ sent' = [sent EXCEPT !.press = @ + 1] /\ row' = row
      BY <1>10, <2>3 DEF OpenSelectedFile, At, Then
    <3>2. os'.text = os.text /\ os'.sheet = os.sheet
      BY <1>a, <3>1 DEF Commits, Windows
    <3>3. sent'.press = 1 /\ sent'.enter = sent.enter
      BY <1>a, <3>1 DEF BeforePress, PickerTypeOK
    <3>4. ~overruled => handed' \in {"none", row}
      BY <1>a, <3>1 DEF Commits, BeforePress
    <3> QED
      BY <1>10, <3>1, <3>2, <3>3, <3>4
  <2> QED
    BY <2>1, <2>2, <2>3
<1>11. CASE AwaitPanelClosed /\ UNCHANGED overruled
  BY <1>11, <1>b DEF AwaitPanelClosed, NotSeen, At, JustLook
<1>12. CASE Outside
  <2>1. UNCHANGED <<sent, picker, row, handed>>
    BY <1>12 DEF Outside
  <2>o. overruled => overruled'
    BY <1>12, Zenon DEF Outside, PersonDismisses, PersonSelects
  <2>2. ASSUME PanelAppears \/ SheetGrows \/ SheetShuts \/ ListReloads
                  \/ PanelCloses \/ PersonSwitches, UNCHANGED overruled
        PROVE  PickInv'
    <3>1. /\ os'.picked \in {os.picked, "none"}
          /\ os.sheet = "shut" => os'.sheet = "shut" /\ os'.text = os.text
          /\ os.sheet = "ready" /\ os.panel # "closing" =>
                os'.sheet = "ready" /\ os'.text = os.text
          /\ os.sheet = "ready" /\ os.panel = "closing" =>
                os'.sheet \in {"ready", "shut"} /\ os'.text = os.text
          /\ os.sheet = "committed" =>
                os'.sheet \in {"committed", "shut"} /\ os'.text = os.text
          /\ os.panel \in {"closing", "closed"} => os'.panel \in {"closing", "closed"}
      BY <1>a, <2>2 DEF PanelAppears, SheetGrows, SheetShuts, ListReloads,
         PanelCloses, PersonSwitches, Windows
    <3>2. PathIsKept'
      BY <2>1, <3>1
    <3>3. NothingInBetween'
      BY <2>1, <2>2, <3>1
    <3> QED
      BY <2>1, <2>2, <3>2, <3>3
  <2>3. CASE PersonDismisses
    <3>1. /\ os'.sheet = "shut" /\ os'.text = os.text /\ os'.picked = os.picked
          /\ os'.panel \in {"closed", os.panel}
          /\ ~overruled' /\ picker = "return" => os'.panel = "closed"
      BY <1>a, <2>3 DEF PersonDismisses, Windows
    <3> QED
      BY <2>1, <2>o, <3>1
  <2>4. CASE PersonSelects
    BY <1>a, <2>1, <2>o, <2>4 DEF PersonSelects, Windows
  <2> QED
    BY <1>12, <2>2, <2>3, <2>4 DEF Outside
<1>13. CASE Over \/ UNCHANGED pickerVars
  BY <1>13 DEF Over, pickerVars
<1> QED
  BY <1>c, <1>1, <1>2, <1>3, <1>4, <1>5, <1>6, <1>7, <1>8, <1>9, <1>10, <1>11,
     <1>12, <1>13 DEF PickerNext, SelectFile

\* The path is kept and nothing comes in between, in every reachable state.
LEMMA PickCorrect == PickerSpec => []PickInv
<1>1. PickerInit => PickInv
  <2> SUFFICES ASSUME PickerInit PROVE PickInv
    OBVIOUS
  <2>1. /\ sent = [chord |-> 0, enter |-> 0, press |-> 0] /\ picker = "panel"
        /\ handed = "none"
    BY DEF PickerInit
  <2> QED
    BY <2>1 DEF PickInv, PathIsKept, NothingInBetween, OnlyTheRowFound
<1>2. PickerSpec => []SentInv
  BY EventsInTurn
<1> QED
  BY <1>1, <1>2, PickInductive, PTL DEF PickerSpec

\* The page is given the file of the row found, by the one press, or nothing:
\* whatever AppKit, the person before the last check and the reads that fail do,
\* and whatever the folders hold.
THEOREM PageGetsTheRowFound == PickerSpec => []OnlyTheRowFound
<1>1. PickInv => OnlyTheRowFound
  BY DEF PickInv
<1> QED
  BY <1>1, PickCorrect, PTL

\* Each event is sent once at most and in its order, and Return only on the
\* whole path, wherever the selector gives up.
THEOREM EventsOnceAndInOrder == PickerSpec => []SentOnceAndInOrder
<1>1. SentInv /\ PickInv => SentOnceAndInOrder
  BY DEF SentInv, SentSoFar, PickerTypeOK, PickInv, PathIsKept, SentOnceAndInOrder
<1>2. PickerSpec => []SentInv
  BY EventsInTurn
<1> QED
  BY <1>1, <1>2, PickCorrect, PTL
=============================================================================

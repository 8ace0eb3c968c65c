------------------------------ MODULE FilePicker ------------------------------
(***************************************************************************)
(* Handing the key file to the site through the macOS Open panel           *)
(* (MacOSFileSelector.select_file over the Accessibility API).             *)
(*                                                                         *)
(* The other parties are AppKit, which opens, fills, closes and reloads    *)
(* its windows in its own time, the person at the machine, who may dismiss *)
(* a window, select a row or bring another application to the front, and   *)
(* the Accessibility API itself, whose failed reads look like an element   *)
(* that is not there (PyObjCAxApi.attribute_value).  Every step of the     *)
(* selector reads the panel again, but for the row it found; between two   *)
(* steps anything may have happened.                                       *)
(*                                                                         *)
(* One panel: the services of other applications are the "idle leftovers"  *)
(* find_open_panel takes them for.                                         *)
(*                                                                         *)
(* The names of the specification carry a prefix: LoginPage_proofs extends *)
(* this module together with CallbackWatch.                                *)
(***************************************************************************)
EXTENDS Naturals

VARIABLES
    os,        \* the Open panel, its Go to Folder sheet and its file list
    sent,      \* the events sent: ⌘⇧G, Return, presses of the commit button
    picker,    \* where select_file is
    row,       \* the file whose row _find_file_row has found
    handed,    \* what the page was given
    overruled  \* observer: the person has acted between a check and its event

pickerVars == <<os, sent, picker, row, handed, overruled>>

-----------------------------------------------------------------------------
(* Values *)

\* The key, a file of the same name in the folder the panel came up in, another.
Named == {"key", "namesake"}
Files == Named \cup {"other"}
Waits == {"panel", "field", "gotoClosed", "panelClosed"}
Ended == {"returned", "failed"}
Steps == Waits \cup {"chord", "write", "focus", "return", "row", "select", "commit"}
         \cup Ended

Windows ==
    [panel: {"absent", "open", "closing", "closed"},
     front: BOOLEAN,      \* the browser is the frontmost application
     sheet: {"shut", "opening", "open", "ready", "committed"},
     text: {"empty", "partial", "path"},
     focus: BOOLEAN,      \* the path field holds the focus
     list: {"start", "target"}, moving: BOOLEAN,
     keyThere: BOOLEAN, namesake: BOOLEAN,
     picked: Files \cup {"none"}]

PickerTypeOK ==
    /\ os \in Windows
    /\ sent \in [chord: 0 .. 1, enter: 0 .. 1, press: 0 .. 1]
    /\ picker \in Steps
    /\ row \in Named \cup {"none"}
    /\ handed \in Files \cup {"none"}
    /\ overruled \in BOOLEAN

\* The panel comes up in the folder it was last used in, the key's or another,
\* and perhaps with something selected.
PickerInit ==
    /\ os \in [panel: {"absent"}, front: BOOLEAN, sheet: {"shut"}, text: {"empty"},
               focus: {FALSE}, list: {"start", "target"}, moving: {FALSE},
               keyThere: BOOLEAN, namesake: BOOLEAN, picked: {"none", "other"}]
    /\ sent = [chord |-> 0, enter |-> 0, press |-> 0]
    /\ picker = "panel"
    /\ row = "none"
    /\ handed = "none"
    /\ overruled = FALSE

-----------------------------------------------------------------------------
(* AppKit, and the person *)

OnScreen == os.panel \in {"open", "closing"}

\* The click on the upload control shows the panel, sooner or later or never.
PanelAppears == os.panel = "absent" /\ os' = [os EXCEPT !.panel = "open"]

\* The sheet is drawn before its field is.
SheetGrows ==
    /\ os.panel = "open"
    /\ \/ /\ os.sheet = "opening"
          /\ os' = [os EXCEPT !.sheet = "open"]
       \/ /\ os.sheet = "open"
          /\ \E focused \in BOOLEAN :
                os' = [os EXCEPT !.sheet = "ready", !.text = "empty", !.focus = focused]

\* A committed path closes the sheet, and the list moves some time after it.
SheetShuts ==
    /\ os.sheet = "committed"
    /\ os' = [os EXCEPT !.sheet = "shut", !.focus = FALSE, !.moving = TRUE]

\* The list is read again: in the folder gone to, or where it is; what was
\* selected in it is not any more.
ListReloads ==
    /\ os.panel = "open"
    /\ os' = [os EXCEPT !.list = IF os.moving THEN "target" ELSE @,
                        !.moving = FALSE, !.picked = "none"]

PanelCloses == os.panel = "closing" /\ os' = [os EXCEPT !.panel = "closed", !.sheet = "shut"]

\* The sheet dismissed after it was last looked at lets Return through to the
\* panel.
PersonDismisses ==
    \/ /\ os.panel = "open"
       /\ os' = [os EXCEPT !.panel = "closed", !.sheet = "shut"]
       /\ UNCHANGED overruled
    \/ /\ os.sheet \in {"open", "ready"}
       /\ os' = [os EXCEPT !.sheet = "shut", !.focus = FALSE]
       /\ overruled' = (overruled \/ picker = "return")

\* A row selected after the list has confirmed another is what gets opened.
PersonSelects ==
    /\ os.panel = "open" /\ os.picked # "other"
    /\ os' = [os EXCEPT !.picked = "other"]
    /\ overruled' = (overruled \/ picker = "commit")

PersonSwitches == os' = [os EXCEPT !.front = ~@]

Outside ==
    /\ \/ /\ \/ PanelAppears \/ SheetGrows \/ SheetShuts \/ ListReloads
             \/ PanelCloses \/ PersonSwitches
          /\ UNCHANGED overruled
       \/ PersonDismisses \/ PersonSelects
    /\ UNCHANGED <<sent, picker, row, handed>>

\* The button is pressed, or Return reaches the panel instead of the sheet:
\* the page gets what the list has selected, if anything.
Commits ==
    IF os.panel = "open" /\ os.picked # "none"
    THEN handed' = os.picked /\ os' = [os EXCEPT !.panel = "closing"]
    ELSE UNCHANGED <<os, handed>>

-----------------------------------------------------------------------------
(* The selector *)

At(step) == picker = step
Then(step) == picker' = step

\* NativeFileDialogError out of select_file: nothing more is done.
Fail == picker' = "failed" /\ UNCHANGED <<os, sent, row, handed>>
JustLook(step) == picker' = step /\ UNCHANGED <<os, sent, row, handed>>

\* _await_panel, or its timeout.
AwaitPanel == At("panel") /\ ((OnScreen /\ JustLook("chord")) \/ Fail)

\* _open_goto_sheet: the chord goes to whatever application is in front.
OpenGotoSheet ==
    /\ At("chord")
    /\ \/ /\ sent' = [sent EXCEPT !.chord = @ + 1]
          /\ os' = IF os.panel = "open" /\ os.front /\ os.sheet = "shut"
                   THEN [os EXCEPT !.sheet = "opening"] ELSE os
          /\ Then("field")
          /\ UNCHANGED <<row, handed>>
       \/ Fail

AwaitPathField == At("field") /\ ((os.sheet = "ready" /\ JustLook("write")) \/ Fail)

\* What _write_path makes of reading the field back.
AcceptsAnyText(text) == TRUE
Accepts(text) == text = "path"

\* _require_writable and _write_path: refused, taken whole, or not whole.
WritePath ==
    /\ At("write")
    /\ \/ /\ os.sheet = "ready"
          /\ \E text \in {"partial", "path"} :
                /\ os' = [os EXCEPT !.text = text]
                /\ Then(IF Accepts(text) THEN "focus" ELSE "failed")
          /\ UNCHANGED <<sent, row, handed>>
       \/ Fail

\* _require_focused: focused already, or made to be, or nothing is sent.
RequireFocused ==
    /\ At("focus")
    /\ \/ /\ os.sheet = "ready"
          /\ os' = [os EXCEPT !.focus = TRUE]
          /\ Then("return")
          /\ UNCHANGED <<sent, row, handed>>
       \/ Fail

\* _post_return: to the panel's process, whichever of its windows listens.
PostReturn ==
    /\ At("return")
    /\ \/ /\ sent' = [sent EXCEPT !.enter = @ + 1]
          /\ Then("gotoClosed")
          /\ IF os.sheet = "ready"
             THEN os' = [os EXCEPT !.sheet = "committed"] /\ UNCHANGED handed
             ELSE Commits
          /\ UNCHANGED row
       \/ Fail

\* _await_goto_sheet_closed: a sheet that cannot be read counts as closed.
AwaitGotoClosed == At("gotoClosed") /\ (JustLook("row") \/ Fail)

\* The file of the row that bears the key's name in the folder on show.
RowFile ==
    CASE os.list = "target" /\ os.keyThere -> "key"
      [] os.list = "start" /\ os.namesake  -> "namesake"
      [] OTHER -> "none"

\* _find_file_row: names are compared, and the handle is kept.
FindFileRow ==
    /\ At("row")
    /\ \/ /\ OnScreen /\ RowFile # "none"
          /\ row' = RowFile
          /\ Then("select")
          /\ UNCHANGED <<os, sent, handed>>
       \/ Fail

\* The list itself has to agree that this row is what is selected.  (One row at
\* most is, in the panel of an upload of one file.)
ConfirmedByRow(selected) == TRUE
Confirmed(selected) == selected = row

\* _select_row: the write may be refused and leave what is selected, or select
\* nothing or another row.  The handle of a list that has moved is dead.
SelectRow ==
    /\ At("select")
    /\ \/ /\ os.panel = "open" /\ RowFile = row
          /\ \E selected \in {row, os.picked, "other", "none"} :
                /\ os' = [os EXCEPT !.picked = selected]
                /\ Then(IF Confirmed(selected) THEN "commit" ELSE "failed")
          /\ UNCHANGED <<sent, row, handed>>
       \/ Fail

\* A panel that is not seen any more has nothing left to press.
NotSeen == JustLook("returned")

\* _open_selected_file: no usable button, a refused press, or one press.
OpenSelectedFile ==
    /\ At("commit")
    /\ \/ NotSeen
       \/ /\ OnScreen
          /\ sent' = [sent EXCEPT !.press = @ + 1]
          /\ Then("panelClosed")
          /\ Commits
          /\ UNCHANGED row
       \/ Fail

\* _await_panel_closed: not seen is closed.
AwaitPanelClosed == At("panelClosed") /\ (NotSeen \/ Fail)

SelectFile ==
    /\ \/ AwaitPanel \/ OpenGotoSheet \/ AwaitPathField \/ WritePath
       \/ RequireFocused \/ PostReturn \/ AwaitGotoClosed \/ FindFileRow
       \/ SelectRow \/ OpenSelectedFile \/ AwaitPanelClosed
    /\ UNCHANGED overruled

Over == picker \in Ended /\ UNCHANGED pickerVars

PickerNext == SelectFile \/ Outside \/ Over

PickerSpec == PickerInit /\ [][PickerNext]_pickerVars

-----------------------------------------------------------------------------
(* Correctness *)

\* What the page is given is the file of the row that bears the key's name, by
\* the one press: not another row, not what the panel came up with or a refused
\* write left selected ("the panel would act on whatever it thinks is selected",
\* native_files.py:575), whatever AppKit, lost reads and the person do - but for
\* a row selected, or a sheet dismissed, between the last check and its event.
OnlyTheRowFound ==
    handed # "none" /\ ~overruled => handed = row /\ sent.press = 1

\* A key or a press is never sent twice, Return only once the field has read
\* back the whole path, and the press only after the sheet's Return: "repeating
\* a keystroke that did nothing" would act on whatever is on screen by then.
SentOnceAndInOrder ==
    /\ sent.press <= sent.enter /\ sent.enter <= sent.chord /\ sent.chord <= 1
    /\ sent.enter = 1 => os.text = "path"

\* Does not hold (README.md): select_file chooses "*path*" (native_files.py:215).
\* The list moves some time after the sheet has closed, and until then the row
\* of the key's name may be that of a namesake in the folder left.
OnlyTheKey == handed # "none" /\ ~overruled => handed = "key"

\* Does not hold (README.md): "Succeeds only when the panel actually closes", and raises when "the
\* selection cannot be made": it "never returns having 'probably' worked"
\* (select_file, NativeFileSelector).
ReturnedMeansHandedOver == picker = "returned" => handed = "key"
=============================================================================

# hsc-parser: a TLA+ model of the appointment monitor

`hsc_queue_monitor` watches the queue of the Ukrainian service centres (HSC)
and tells people when an appointment becomes free. A browser, driven on a
person's machine, signs in with a MasterKey file and leaves an HTTP session in
MongoDB; a headless run reads availability with that session, compares it with the
last complete reading and sends what changed over Telegram. It is started by hand
from the GitHub workflow (whose five-minute cron is commented out) or by the
`monitor` loop on a machine. This directory holds the TLA+ modules that model it, the TLC
configurations that check them and the TLAPS proofs.

Paths below are relative to `src/hsc_queue_monitor/` unless they start with
`src/`.

## The system

| Part | Source | State it keeps | Operations | Model |
|---|---|---|---|---|
| Headless monitor | `api/headless_monitor.py` | the locals of one run | gate, load session, read, write back, record, compare, announce | `HeadlessMonitor` |
| Monitor state | `api/monitor_state.py` | document `hsc-monitor-state` | `load`, `save`, `transition_to`, `record` | `HeadlessMonitor`, `Documents` |
| Session store, persister | `api/session_store.py` | document `hsc-api-session`; fingerprint of the jar last written | `load`, `save`, `delete`, `close`, `__call__` after every response | `HeadlessMonitor`, `ApiMonitor`, `Documents` |
| Availability snapshot | `api/availability_snapshot.py` | document `hsc-availability-snapshot` | `snapshot_of`, `diff_snapshots`, `load`, `save` | `Snapshots`, `HeadlessMonitor` |
| `refresh-session` | `cli.py` | none of its own | mint a login in the browser, save the session, record READY | `HeadlessMonitor` |
| `monitor-once`, `monitor`, `telegram-test` | `cli.py`, the workflow file | none | read the settings, build store and bot, run, report, wait, exit | `MonitorLoop`, `HeadlessMonitor` |
| Dispatcher | `notifications/dispatcher.py` | none | a diff, a transition and an error each become messages | `MonitorLoop`, `HeadlessMonitor` (`Notify`) |
| Telegram transport, templates | `notifications/telegram.py`, `templates_uk.py`, `selftest.py` | none | render, cut into messages, send to every recipient | `Messages`, `MonitorLoop` |
| Centre scan | `api/availability.py`, `api/monitor.py` | locals of a scan, the `Pacer` | departments, days, slots of every date; the parsers | `CentreScan`, `CentreReads`, `Shapes` |
| HTTP client, retry | `api/client.py`, `api/retry.py` | attempts of a request | `_get`, `wait_for` | `CentreScan` |
| Local API monitor | `api/monitor.py`, `cli.py` | client, memory of each centre | start, cycle, one recovery per cycle, apply | `ApiMonitor` |
| `init-config` | `api/config_init.py`, `cli.py` | `config/service_centers.yaml` | read departments, merge, write, rename | `ConfigInit` |
| Browser monitor | `monitor/`, `notification/` | file of seen slots | visit centres, alert once per cooldown | `BrowserMonitor` |
| Browser scan | `flow/availability.py`, `flow/engine.py`, `pages/` | the live page, the readings | centre, calendar, times of each date, and back | `BrowserScan` |
| Authentication | `flow/auth.py` | the lock of `AuthManager` | `ensure_authenticated`: check, sign in once, verify | `SignIn` |
| Login page | `pages/login_page.py` | the live page; locals of the watch | the screens up to the submit; `_wait_for_callback` | `SignIn`, `CallbackWatch` |
| Native file picker | `browser/native_files.py`, `browser/macos_ax.py` | the Open panel | find, type the path, select the row, press Open | `FilePicker`, `ElementSearch` |
| Configuration | `config.py` | none | parse and validate, choose centres, store and bot | `Settings` (in part) |
| Browser, observers, diagnostics | `browser/manager.py`, `diagnostics.py`, `api/probe.py`, `observer.py`, `session_dump.py`, `bootstrap.py` | none | start Chromium, print what was observed | not modelled |
| Models, logging, command line | `models.py`, `logging_config.py`, `cli.py` | none | value classes, redaction, arguments | not modelled |
| Scripts | `src/scripts/` | none | manual macOS tools | not modelled |

### How the parts interact

The two halves of the program share no process. They meet in three MongoDB
documents, each replaced whole by its `_id` with no compare-and-set:

* the **session**, written by `refresh-session`, by `init-config`, by the local
  API monitor, and by every headless run after each response that rotated the
  jar (`SessionPersister` is the client's `on_response` callback);
* the **monitor state**, read once at the gate of a headless run and written at
  its end; `refresh-session` writes READY over it;
* the **snapshot**, read and replaced by a headless run whose reading was
  complete.

### What is hard in it

* *Interleavings.* The workflow's concurrency group keeps its runs apart,
  but not `refresh-session`, nor the `monitor` loop on somebody's machine. A
  run decides with what it read minutes before.
* *Failure between two writes.* `refresh-session` writes two documents; a run
  writes the session several times, then the state, then the snapshot, then
  speaks. It may be killed (the job has a 15-minute limit) between any two.
* *A write reported failed that was applied.*
* *Partial answers.* Every request may be refused, limited, time out or come
  back unreadable. A failed read must never look like slots that were taken.
* *A page that moves.* Between two probes of the live site it may render, be
  redirected, show an overlay or hand the form back, and what an attempt that failed
  has left on it is there for the next.
* *Time.* A rate-limit window, backoff, `Retry-After` and pacing; a queue cookie
  that outlives its expiry.
* *Other people's windows.* The Open panel belongs to AppKit and to the person at
  the machine; so does the file of centres that `init-config` rewrites.
* *Limits.* Attempts per request, requests per scan, one recovery per cycle, the
  length of a message.

`PROJECT.json` lists each of these hazards at its line, with the properties
about it, or the reason there is none.

## What makes each part correct

* **Headless monitor.** It asks HSC nothing while the gate is closed; a session
  HSC refused is not used again; what it announces was really so during the
  scan that says so; no change is announced twice; a run that says nothing about
  the session has written it back; once the world calms down the snapshot is
  what is free.
* **Monitor state.** AUTH_REQUIRED is left only through `refresh-session`; a
  status is notified once for as long as it stays.
* **Session.** What is loaded is what was stored; whatever value HSC changes is
  written back.
* **Snapshot.** Only a centre not seen since it was enabled is a silent baseline; the
  diff is what changed at HSC.
* **Scan.** A complete reading is whole; the verdict says what was heard; dates
  are paced; requests are bounded; a response is read whole or not at all.
* **Messages and loop.** Everybody who can be reached reads the whole change, once
  and unambiguously; the loop stops only for a reason and scans again.
* **Local API monitor.** Its reports were real; one browser per cycle; silence
  means the jar is stored.
* **`init-config`.** What a person decided stays; running it again changes nothing.
* **Browser monitor.** A slot is neither repeated within its cooldown nor silenced
  beyond it.
* **Browser scan.** A reading belongs to the centre and the date it is filed under;
  nothing read is lost.
* **Authentication.** A live session is left alone; what is submitted is what was
  configured, each field after the one it depends on; a call that returns has the signed-in cabinet on screen; every call
  ends, and the next one recovers.
* **The watch after the submit.** No verdict on a passing frame; the watch ends.
* **File picker.** The page gets the file of the row that was found, or nothing; no
  event goes twice or out of its turn.

## The modules

### HeadlessMonitor

The variables `session`, `state` and `snapshot` are the three documents; `pc[p]`
and `run[p]` are where monitor process `p` is and its local variables: the
state it read at the gate (`prev`), the client's session (`login`, `jar`), the
persister (`last`, `degraded`), the readings (`todo`, `slots`, `kinds`) and what
it will announce (`event`, `added`, `removed`, `baselined`). `refresh` is the
`refresh-session` process. One action per step between which another process
can write or a crash can fall:

| Action | Code |
|---|---|
| `RunBlocked`, `LoadState` | `run_headless_scan` up to the gate, `_blocked` |
| `LoadSession`, `LoadSessionFails`, `RecordAuthRequired` | the stored session, missing or expired |
| `ReadDepartments`, `ReadCentre` | `read_centres`, `_read_centre` |
| `PersistJar` | `SessionPersister.__call__` |
| `RecordScan` | `classify`, `record` |
| `LoadSnapshot`, `LoadSnapshotFails`, `SaveSnapshot` | `_compare` |
| `Notify` | `NotificationDispatcher.notify_scan` |
| `Crash` | an exception, SIGTERM, the job's limit |
| `StartRefresh`, `RefreshSave`, `RefreshReady`, `RefreshCrash` | `run_refresh_session` |
| `EditCentres` | the operator edits `enabled` in `service_centers.yaml` |
| `ChangeAvailability`, `SessionExpires`, `Tick`, `Stabilise` | the world |

Abstractions. A login is a number; its jar is how many times HSC has rotated
it. The persister runs once per centre rather than once per response, and a
centre is read in one step: `CentreScan` has the requests. A rotation and its
write may then be missed between two responses of one centre, which only other
writers of the session could see (`LoginNeverReverts`, below). A slot seen free during a long read of a centre is one seen at a single moment,
so `AnnouncedChangesWereReal` is stated over the whole scan (`witness`). A 401
and a 403 are one kind, as in `AUTH_REQUIRED_KINDS`. `window` counts ticks.
Writes have three outcomes: done, failed, and failed but applied. The variables
`told`, `untold`, `alert`, `spent`, `known` and `witness` only observe; `known` is
the centres that stored snapshots have held since they were last enabled.

A run is for the centres that are `enabled` when it starts (`Asks`), whatever the
operator enables or disables after that; the next one reads the file again. Three
constants say what may happen: `ConcurrencyGroup` (one monitor run at a time,
`src/.github/workflows/hsc-monitor.yml:44-49`), `RefreshOverlaps` (`refresh-session`
beside it) and `NamedCentres` (runs with `--center`, for any centres).

### CentreScan and CentreReads

`CentreScan` is one scan, request by request: `scan` holds the phase, the centre
and the locals of `scan_department`; `client` the attempts and the last answer of
`_get`; `pacer` the time since `Pacer.mark`; `readings` the `CentreReading`s.
`Ask`, `AskSlots` and `AskAgain` put a request on the wire with its wait before
it; the other actions consume a final answer. An answer is one of eight classes
that the code tells apart (`Answers`); JSON of an unknown shape is its own class
because it is recorded as JSON. Which shapes are recognised is `Shapes`; the text of
a reading's `detail` is not modelled.

`CentreReads` is what the scan promises its caller: no departments, nothing
read; else each centre once, whole or with a reason. It is the reading loop of
`HeadlessMonitor`, and the property `ReadsAsPromised` says `CentreScan`
implements it under a refinement mapping.

### Documents

The two small documents and the jar as data, without state: how a jar restored
from MongoDB or bridged from the browser is put together, its fingerprint, its
queue cookie's expiry, what `save`, `load` and the persister make of it; the
monitor's state from verdict to verdict. `HeadlessMonitor` and `ApiMonitor` count
rotations instead of comparing cookies; `MCApiMonitor` assumes, and TLC evaluates,
what that rests on, for every jar of up to three cookies: `RestoredIsUnmoved`,
`RotationsAreWritten`, `BrowserBringsOnlyItsHscCookies`, `OnlyItsKeyOpensIt`,
`StateSurvives`. A cipher is a key that fits or does not.

### Snapshots, Settings, Messages and MonitorLoop

`Snapshots` is `availability_snapshot.py` over slots with a centre, a day, a start
and an end in seconds: the key (without the end), the diff, the document with its
entries in whole minutes, and what reading it drops. `Settings` is what `config.py`
and the builders in `cli.py` make of the environment, of `app.yaml` and of the list
of centres. `Messages` is `render_availability` and `_chunked` line by line, and a
reader who sees one message at a time. A line counts one towards `MaxText`; the
code counts characters (`MAX_TELEGRAM_TEXT` is 3900 and no line of a change comes near it), so
both cut between whole lines and carry the context over, at different places.

`MonitorLoop` is the process around the scan: `Begin` is `AppConfig.load`, the
`Refuses...` actions the early returns of `run_monitor_once` and
`run_telegram_test` in their order, `ScanEnds` hands over what a scan found,
`Post` is one request of `_send_one`, `NextMessage` the next chunk, `Close` the
`finally`, `Waited` the pause of `run_monitor_loop`. `Interrupt` raises
`KeyboardInterrupt` at any of these points. What a scan finds is a history (what
was free at the last complete scan and what is now), put through
`Snapshots` and `Messages` as the code does; `EveryReaderLearnsTheChange` compares
what each recipient has read with `TrueChange`, which is defined from the history
alone. So a fault in the key, the document, the diff, the rendering, the cutting or
the fan-out shows.

### Shapes

The parsers of `api/availability.py` over values that are a date, a time of day, both
or neither. `MCCentreScan` assumes that slots are read all or nothing, that a
measured start is never another field's time, that every date is there, and that
the retry policies `Settings` accepts really back off.

### ApiMonitor

The local monitor as one process: `client`, `persister` and `memory` are its
fields, `cycle` the readings and whether the cycle has recovered, `mongo` whether
its `MongoClient` is still open. `Restore`, `NothingPersisted`, `PersistedExpired`
and `CreateSession` are `start`; `Recover` is `_recover` up to the browser; `Apply`
is `_apply`; `StartCycle` is the next scan, which raises when there is no client.
The browser is one step that mints a login or raises. That a closed `MongoClient`
refuses every call is external behaviour (pymongo 4, required by
`src/pyproject.toml`).

### ConfigInit

`init-config` run after run: `Begin`, `LoadSession`, `Refused` or `Answered`,
`Discover`, `ReadExisting`, the merge, `WriteTemporary` and `Rename`, each followed by a possible death.
`Edits` is the person, who may save at any moment; `wish` remembers what they last
said of a centre and `raced` the edits that fell between a read and a rename, which
the code cannot keep. An entry has a name, `enabled` and one field discovery does
not know.

### BrowserMonitor

`Monitor` and its `StateStore`: `seen` is the dict, `file` what `load` would make of
the file, both as ages; `alerted` and `lost` observe. The walk through a centre's
wizard is one step with every way it can end. `Older` lets time pass.

### BrowserScan

`AvailabilityScanner` step by step against a page whose screens come up late, under
a spinner, or not at all: `page.screen` is the mounted screen, `page.pending` the one a
click has asked for. Readings carry the screen they were taken from, which is what
`ReadingsAreTheirOwn` looks at. `config` says which of the selectors that
`selectors.yaml` leaves as TODO are filled in (the Back control, the empty states);
what holds must hold with and without them. A wait is a step that sees the screen or
gives up; clicks on a covered control raise Playwright's own error.

### FilePicker and ElementSearch

`MacOSFileSelector.select_file` against AppKit, the person, and reads of the
Accessibility API that fail and look like an absent element. `os` is the panel, its
sheet, its list and what is selected; `sent` the events that were sent, which happen
once or not at all; `row` the file whose row was found by its name, which may be that
of another file of that name in a folder the list has not left yet. `overruled` marks
the two moments at which nothing can be checked any more and the person may still act:
a row selected between the list's confirmation and the press, a sheet dismissed between
the look at its focus and the Return. The handle of a row stands for its file for as
long as the list is in that folder, and is dead after; one row at most is selected, so
that "the selected rows contain it" (`_select_row`) is "it is the selected row".
`ElementSearch` is `find_where`, `ancestors_of`, the file row and
the commit button over an arbitrary graph of elements; `MCFilePicker` assumes that
the search finds a nearest match, ends in circles, and never presses Cancel.

### SignIn

`ensure_authenticated`, called again and again: one call after the other as the
program does today, or several at once as its lock allows for ("sequential today; this
keeps it correct if it ever stops being", `flow/auth.py:48-50`). `queue` is that
`asyncio.Lock` (first come, first served), `page` the one page all page objects share,
reduced to where it is, whether the cabinet's marker is rendered, and what the key form
holds; `pc[c]` is the step of a call. A key that was handed over is `"given"` until the
page has read it (`KeyIsRead`), with the provider chosen by then, and a password is
bound to the key that was read when it was typed, or to none: so the form says in which
order it was filled. `Where` to `Secrets` are the decisions of
`_ensure_authenticated`, `AcceptTerms` to `Submit` the screens of
`authenticate_with_master_key`, `Verify` and `Verified` are `_verify_cabinet`.
Every wait may end in an exception (`StepFails`), after which the lock is free
and the page stays as it is. `Renders` and `SessionExpires` are the site. What
follows the submit is one step here. The fail-fast checks of a screen (missing
signing component, a dropdown that is no dropdown) are the failure of its step.
The consent on the entry page is kept when the page is left and comes back: it
is the worse case for a click that toggles.

### CallbackWatch

`_wait_for_callback` probe by probe: `pc` is the next probe of the poll, `screen`
what the browser shows, which `PageMoves` changes between any two probes. `url`
is what the poll has read first, `polls` are the two counters, `started`,
`changed` and `confirmed` the flags of the loop. Both optional markers may be
missing. `streak` and `read` observe what the polls found, so that the verdicts
can be held against it. The time of a click that confirms the user data is not
counted; the stall of `resolve(timeout=0)` is (`SubmitGone`).

## The runs

| Run | Asks | Shows |
|---|---|---|
| `scheduled` | one run at a time over two centres, one enabled and disabled beside the other; two logins, rotating jars | refused logins, write-back, changes real and told once, baselines |
| `overlap` | `refresh-session` beside a run, in a world that may calm down | the gate, stickiness, alerts once; the snapshot settles or a person is waited for |
| `scan` | a scan of two centres, two dates each, all of them or at most one asked for | complete is whole, verdict, pacing, bound; implements `CentreReads`, its end included |
| `monitor_loop` | the three commands from every configuration, refused and lost requests, interrupts | every reader learns the change; the exit codes; the loop stops for a reason and scans again |
| `api_monitor` | the local monitor with refusals and restarts | reports real, one browser per cycle, write-back |
| `init_config` | run after run beside a person's edits, with deaths | decisions kept, a second run changes nothing |
| `browser_monitor` | cycles, failures, deaths and restarts over the seen-slot file | cooldown held, nothing silenced |
| `browser_scan` | two centres and two dates over a page that lags, with and without the TODO selectors | readings are their own, none is lost |
| `sign_in` | two calls, in turn or at once, over one page that may fail at any moment | what is submitted and in which order it was filled in, who may say signed in; calls end and recover |
| `callback` | the page moving between any two probes | no verdict on a passing frame, the watch ends |
| `picker` | the Open panel, AppKit and the person in any order, any folders | the row found or nothing; events once and in order |
| `closed_store` | a recovery of the local monitor | violated: the recovery closes the store it then writes to (the finding in `PROJECT.json`) |

## Known limits

These statements, most of them made by the program's own words, do not hold.
Each named definition stands in its module with a comment; adding it to the
module's configuration as an INVARIANT or PROPERTY makes TLC print the behaviour.

* `HeadlessMonitor!LoginNeverReverts` (with `RefreshOverlaps`): a run that loaded
  the session before `refresh-session` saved a new one writes its own jar over it at
  the next rotated cookie, although "the next scheduled run picks it up on its own"
  (`api/headless_monitor.py:22-24`).
* `HeadlessMonitor!MissedChangeShowsUpNext`: the snapshot is saved before the change
  is announced, so a change whose message is lost is in no later diff; "a missed
  change shows up in the next run's diff" (`api/headless_monitor.py:386-387`).
* `HeadlessMonitor!BaselineOnlyAtFirstSight` with `NamedCentres` set to TRUE in
  `scheduled.cfg`: the snapshot of a run is of the centres it was asked for and replaces
  the whole document, so that after `monitor-once --center` the other centres are silent
  baselines again, although they have been seen and have stayed enabled; "That covers the
  first run of all, and equally a centre the operator has just enabled"
  (`api/availability_snapshot.py:15-16`).
* `CentreScan!RequestsApart`: the `Pacer` is marked before a request that may be
  retried, so a date answered at its second attempt is followed by the next one after
  one second with the shipped values; "HSC answered 429 to two such requests one
  second apart" (`src/config/app.yaml:39`).
* `ApiMonitor!LoopOutlivesFailedRecovery`: the cycle after a failed recovery finds no
  client and raises; "the cycle is reported as failed and the monitor waits for the
  next one" (`api/monitor.py:20-21`).
* `CallbackWatch!ResetWasStable`: a poll that finds the form greyed out neither counts
  nor resets, so the polls of a reset need not be "consecutive"
  (`pages/login_page.py:51`).
* `BrowserScan!SiteFailureIsAResult`: a click on a control under a spinner raises
  Playwright's own error, which `except HscMonitorError` lets pass, and the whole scan
  ends; "A site failure becomes a result rather than an exception, so one bad centre
  does not cost the others" (`flow/availability.py:85-86`).
* `FilePicker!ReturnedMeansHandedOver`: a panel that the person dismisses after the
  press has also closed; "It never returns having \"probably\" worked"
  (`browser/native_files.py:134-135`).
* `FilePicker!OnlyTheKey`: `_find_file_row` compares names only and looks as soon as the
  Go to Folder sheet has closed; the list moves some time after. A file of the key's name
  in the folder the panel came up in is found, selected and opened; `select_file` is to
  "Choose *path*" and "The panel is in the right directory"
  (`browser/native_files.py:215`, `505`). `OnlyTheRowFound` holds all the same.
* `MonitorLoop!StoppedBetweenScans`: an interrupt in a scan or between two messages
  stops the loop there; "stop it cleanly between scans" (`src/README.md:507`). What
  the scan has saved and not told stays untold.

Others follow from the models without a definition of their own:

* A start with seconds is stored in whole minutes and compared with them, so that
  slot is announced as new, and a slot that never was as gone, in every scan
  (`SecondsComeBack` in `MCMonitorLoop`). HSC's measured starts are whole minutes.
* Two windows of one start on one day are one slot (the key has no end); one
  `--center NAME` takes the first entry of that name.
* A new expiry alone is not written back (`RotationsAreWritten` in `MCApiMonitor`).
* Two centres of one name share the browser monitor's memory, and so do slots whose
  date could not be read; a slot whose alert no notifier delivered is remembered as
  reported all the same; a cooldown longer than the 30 days of `RETENTION` ends
  with it.
* An edit saved between the read and the rename of an `init-config` is lost.
* `app.yaml:24` counts the interval of `monitor-once` "between the START of one" scan
  and the next; the loop waits after its end (`cli.py:1913-1914`).
* A bot that is half configured is refused after the store was opened, which is then
  not closed (`cli.py:1736-1739`).
* `AuthStickyUntilRefresh` and `NoRequestWhileBlocked` need the concurrency group: with
  two monitor processes the verdict of one overwrites the AUTH_REQUIRED of the other.
  Setting `ConcurrencyGroup` to FALSE with two processes shows it; no property covers it.
* `run_monitor_once` says that "All operational outcomes return exit code 0"
  (`cli.py:1704`). A store that cannot be built returns `EXIT_PERSISTENCE`
  (`cli.py:1719-1721`), be it for one failed DNS lookup of MongoDB's name, and the
  `monitor` loop ends with it. `StopsOnlyForAReason` counts it as a reason to stop.

Some properties say less than their names may suggest. `DatesPaced` is about the first
request of each date, `ScanBounded` about requests and not about the job's 15 minutes,
`WatchEnds` says nothing of how late, `StopsOnlyForAReason` takes any interrupt for a
reason. `QuietMeansWrittenBack` and `QuietMeansStored` are about the persister's flag:
an AUTH_REQUIRED verdict returns before the note that shows it
(`api/headless_monitor.py:337-346`), and a local monitor without a store
(`cli.py:2009-2013`) and reports of a failed recovery are outside the second.
`ReturnsSignedIn` needs the cabinet's marker to be configured, and `LiveSessionLeftAlone`
that the site never sends a live session to another page of its own host (`Landings`).

### Bounds

`HeadlessMonitor`: two centres are what it takes to read one while the other fails and
to baseline one while the other is compared. In `scheduled` one of them may have a free
slot and is enabled and disabled, at any moment, beside the other, which has none and
stays (`OneCentreChanges`): every property is about one slot, one centre, or one login
and its successor, hence `MaxLogins` 2; the theorems are about any. One rotation of a
jar (`MaxJar` 1) tells a written jar from an unwritten one. A window of one tick is
open, then closed. `overlap` takes one centre, enabled or not, and no rotation: its
properties compare neither centres nor jars. One monitor process,
which starts again after each run, and `refresh-session` beside it are all the
writers the concurrency group allows.

`CentreScan`: two centres, two dates (a first and a last one), two attempts (one
that is repeated and one that is not). A tick is a second: interval 3, backoff 2
and an answer of at most one tick are the shipped values; `Retry-After` is 0 or
above its cap. Clocks stop at the interval.

`ApiMonitor`: two centres, two logins (one refused, one fresh), one rotation.

`SignIn`: two callers, one to find the page and the lock as the other leaves
them. Nothing else is bounded.

`CallbackWatch`: 2 polls for a form and 3 for an unknown screen stand for 3 and
8, a deadline of 5 polls for 480, a stall of 2 for 60: more than one poll for
each verdict, more for the screen than for the form, room for both before the
deadline and a stall that can cross it.

`MonitorLoop`: a message holds 8 lines, one more than a single slot under two
headings needs, so that changes of one, two and more messages occur and every kind of
line comes first in a continued one; two recipients, one of them listed twice; one
configuration that works and eleven that differ from it in one setting; six histories
(one time, a centre against half of another, the same day of both, one time against the
other, a first sight, only an end). The loop itself is not bounded. `MCMonitorLoop`
renders every change of two centres, two days and two times, 6561 of them.

`ConfigInit`: two centres and four catalogues: both, the first gone, one number twice
with a new name, no number at all. `BrowserMonitor`: three keys, so that one centre has
two slots; a cooldown of two ticks and a retention of three keep "younger", "older",
"kept" and "pruned" apart. `BrowserScan`: two centres, two dates: a first and a last of
each, and one to be mistaken for the other. `FilePicker` has no constants: one panel,
two folders (the one it comes up in, which may be the key's, and the key's) and three
files: the key, another of its name, any other.

`Shapes`: lists of up to two items over seven values and two unmeasured fields, which is
where two records can disagree. `ElementSearch`: every graph of three elements.

### Fairness

`overlap` assumes weak fairness of the steps of a run, of the steps of a started
`refresh-session`, and of time. `run_monitor_loop` (`cli.py:1892-1958`) starts a run
again after each one (so would the workflow's cron, which is commented out), a started
process is scheduled until it ends, and a window is a point in time. Nobody is obliged to run
`refresh-session`, so `Settles` allows a monitor that waits for a person.
`stable` marks the moment from which nothing fails and nothing changes: without
such a moment no monitor settles. `scan` assumes weak fairness of the one
thread that scans; every request has a timeout.

`sign_in` assumes weak fairness of every call: each of its waits has a timeout
and the lock is handed on in order; and of the page, which renders, redirects, and
reads the key it was given.
`RecoversWhenCalm` speaks of the time when nothing fails any more (`calm`).
`callback` assumes that the loop goes on polling, and nothing about the page.
`monitor_loop` assumes that the process takes its next step, since every request
has a timeout; nobody has to press Ctrl+C. The other runs check safety only.

## The proofs

A module `M_proofs` proves about `M` what its run shows on a small instance, for every
value of the constants; `LoginPage_proofs` does so for `CallbackWatch` and `FilePicker`
at once, `MonitorLoops_proofs` for `BrowserMonitor` and `MonitorLoop`. `Assumes` lists
hypotheses beyond the assumptions the modules themselves make of their constants, which
say that they are numbers and sets of the right kind.

| Module | Theorem | States | Assumes |
|---|---|---|---|
| `HeadlessMonitor_proofs` | `TypeCorrect` | `TypeOK` | |
| | `ChangesAreReal` | `AnnouncedChangesWereReal` | |
| | `GateHolds` | `NoRequestWhileBlocked` | `ConcurrencyGroup` |
| | `AuthIsSticky` | `AuthStickyUntilRefresh` | `ConcurrencyGroup` |
| | `ToldOnce` | `NothingToldTwice` | `ConcurrencyGroup` |
| | `AlertedOnce` | `AlertNotRepeated` | `ConcurrencyGroup` |
| | `RefusedLoginStaysUnused` | `RefusedLoginNotReused` | `ConcurrencyGroup`, no overlap |
| | `QuietIsWrittenBack` | `QuietMeansWrittenBack` | `ConcurrencyGroup`, no overlap |
| | `BaselinedAtFirstSight` | `BaselineOnlyAtFirstSight` | `ConcurrencyGroup`, no `--center` |
| `CentreScan_proofs` | `TypeCorrect` | its `TypeOK` | |
| | `CompleteReadingsAreWhole` | `CompleteIsWhole` | |
| | `VerdictIsWhatWasHeard` | `VerdictSaysWhatWasHeard` | |
| | `DatesArePaced` | `DatesPaced` | |
| | `RequestsAreBounded` | `ScanBounded` | |
| | `ReadsTheCentres` | `Spec => Reads!Spec` (`CentreReads`) | |
| `ApiMonitor_proofs` | `TypeCorrect` | its `TypeOK` | |
| | `ReportsAreReal` | `ChangesWereReal` | |
| | `OneRecovery` | `OneBrowserPerCycle` | |
| | `QuietIsStored` | `QuietMeansStored` | |
| `SignIn_proofs` | `TypeCorrect` | its `TypeOK`, and `JourneyInv` | |
| | `LiveSessionStays` | `LiveSessionLeftAlone` | |
| | `SubmitsOnceAsConfigured` | `SubmitAsConfigured` | |
| | `ReturnsToTheCabinet` | `ReturnsSignedIn` | |
| `LoginPage_proofs` | `TypeCorrect` | `TypeOK` of the watch | |
| | `ResetWasHandedBack` | `ResetOnlyWhenHandedBack` | |
| | `DestinationHeldStill` | `ScreenHeldStill` | |
| | `EventsInTurn` | `PickerTypeOK` and the order of the events | |
| | `PageGetsTheRowFound` | `OnlyTheRowFound` | |
| | `EventsOnceAndInOrder` | `SentOnceAndInOrder` | |
| `BrowserScan_proofs` | `TypeCorrect` | its `TypeOK`, and `ScanInv` | |
| | `ReadingsNeverMix` | `ReadingsAreTheirOwn` | |
| | `ReadingsAreKept` | `NothingReadIsLost` | |
| `MonitorLoops_proofs` | `TypeCorrect` | `TypeOK` of the browser monitor | |
| | `FreeSlotsAnnounced` | `FreeSlotWasAnnounced` | |
| | `CooldownKept` | `CooldownHeld` | |
| | `StopsForAReason` | `StopsOnlyForAReason` | |
| | `TestIsTrue` | `TestExitIsTrue` | |
| | `EveryReaderLearns` | `EveryReaderLearnsTheChange` | reports say what was found, lists without repetition |
| `ConfigInit_proofs` | `TypeCorrect` | `TypeOK` | |
| | `SecondRunIdle` | `RunAgainChangesNothing` | |
| | `DecisionsKept` | `WishesKept` | |

The hypotheses are facts of the deployment, and each is needed:

* `ConcurrencyGroup`: the workflow runs one monitor at a time. Two runs beside each
  other pass the gate together and tell a change twice.
* no overlap (`~RefreshOverlaps`): nobody runs `refresh-session` while a monitor runs.
  Otherwise a run writes the login it began with over the new one (known limits).
* no `--center` (`~NamedCentres`): runs are for the enabled centres, whichever those
  are by then. A run for a named centre replaces the snapshot and forgets the others
  (known limits).
* reports that say what was found (`SaysWhatWasFound`): of every scan the report tells
  the change whole, and whatever is left of it after some messages are lost tells a part
  of it. Lists without repetition (`ListsEachOnce`): `TELEGRAM_USERS` comes to a sequence
  that names nobody twice. Both are about folds over lists, which is induction over
  data; `MCMonitorLoop` evaluates them over every scan and configuration of its
  instance (`ReportsSayWhatWasFound`, `PeopleListedOnce`), and the rendering over every
  change of two centres, days and times.
* `BackoffAssumption` of `CentreScan` says that a backoff is a natural number; it
  follows from the others, by an induction over powers the provers cannot do.

### The arguments

None of the properties is inductive alone. In each module the last step of a theorem
puts together an inductive invariant, one lemma that every action keeps it, and the
fact that it implies the property.

**Headless monitor.**

* *The gate.* What keeps it open between the check and the requests is that nobody else
  writes a closing status: `OneRun` (at most one process is not idle) is carried along,
  and `GateInv` says the gate is open at every point of a run before its own verdict.
  Stickiness is an action property over the same invariant: the only writers of a status
  are the run itself, which passed the gate, and `refresh-session`.
* *Real changes.* `ScanInv` follows the evidence: the slots read so far were seen during
  the scan, and if nothing has failed the slots not read, of centres no longer to do,
  were absent at some moment of it. No assumption on the processes is needed: all of it
  is local to a run.
* *Told once.* `ToldInv`: what was told is in the stored snapshot (or was just removed
  by its own write), so a slot that is not in the snapshot a run loaded has not been
  told. One run at a time keeps the loaded snapshot current. `AlertInv` is the same for
  the status: what was announced last is nothing or the stored status, so the run that
  reads the stored one at the gate knows.
* *Refused logins.* `RefusedInv`: while the stored login is one that was refused, the
  state document holds AUTH_REQUIRED, or a newer login is about to be saved; so a run
  that passed the gate holds a login nobody refused.
* *Written back.* `JarInv`: the run's login is the stored one, and until the persister
  is degraded the jar it last wrote is the stored one; after the answers are written it
  is also the jar in use.
* *Baselines.* `BaselineInv`: a centre that is known is in the stored snapshot, is still
  enabled, and is asked for by the run under way: it was enabled when that run started,
  or it would not be known. So no run can replace the snapshot by one without it.

**Centre scan.** `CallInv` (an attempt that was made has an answer, a date is asked for
only while one is wanted) makes the types inductive. `Progress`: the centres behind the
present one have their readings and the others none. On top of it, `WholeInv`: until a
date has failed, those taken are the first ones, one by one; `HeardInv`: a refusal and a
429 are on record exactly when they were heard; `PacerInv`: the pacer counts from the
last first attempt, whatever was waited since; `BoundInv`: the requests sent so far are at
most `MaxAttempts` for each that is over, and the attempts of the present one. The
refinement of `CentreReads` is proved step by step: the answer about the departments is
`Departments` or `NoDepartments`, the step that leaves a centre is `ReadCentre`, and
every request, retry and wait in between is a stutter.
`Reads!Spec` has no fairness; that the scan ends is left to the run.

**Local monitor.** `OneBrowserInv`: a cycle that has not recovered has opened no browser,
and the one about to has spent its recovery. `StoredInv`: unless the persister is degraded
the jar it last wrote is the stored one. `WitnessInv`: what was read was free, and what
was not read of the centres read whole was not, at some moment of this read.

**Sign-in.** `LockInv`: whoever is past the lock is first in the queue, and the queue
holds each caller once. So there is one such call, and `OwnOf` can say of it alone what it
has done (`BudgetOf`: no second restart, no second submit), what the form on the page
holds at each step (`FormOf`: whatever the calls before it left there has been replaced by
then), and what it has seen of the session (`SeenBy`).

**The login page.** The watch: `VerdictInv` says the loop's own counters never run ahead
of what the polls really found, and that the overlay was seen before the flag was set. The
picker: `SentSoFar` ties the events sent to the step; `PathIsKept` says that after the
read-back the sheet with the path waits or is gone, so that one AppKit draws late can no
longer empty the field; `NothingInBetween` that, unless the person has overruled the last
check, the Return finds its sheet or no panel at all, and the press finds the row found
still selected, or nothing after a reload. Nothing is assumed of the folders: which file
the row is of is another question (`OnlyTheKey`, known limits).

**Browser scan.** `ScanInv`: a click waits for nothing, so a screen may arrive when the
scanner is elsewhere. `PageAt` says which screens can be on the page or on their way at
each step: never one of another centre while dates are read, never one of another date
while times are. `LocalsAt` and `CountAt` say what has been collected by then.

**Browser monitor.** `AnnouncedInv`: the memory and the file never make an alert younger
than it is, so nothing is silenced beyond the cooldown. `RememberedInv`: an alert within
the cooldown is in the memory, in the file if the process is down, or about to be
recorded, unless it is among the lost.

**Monitor loop.** `TestInv`: a test never scans, closes or waits, so nothing that is
counted after its report is another command's. `DeliveryInv`: while a report is under
way, what is left to send is its end, and each recipient's turn (`Due`) is one message
ahead for those before `next`; whoever is not among the missed has heard exactly the
messages due to them, and everyone a selection of them in order (`PartGrows`). Nobody is
listed twice, so that a request concerns one recipient's turn only. Between two reports
nothing of it holds, and nothing needs to.

**`init-config`.** `AgainInv`: what is about to be renamed is the merge of what was read
with what was found, and merging the same answer again changes nothing (`MergeTwice`).
`WishInv`: while
a run is between read and rename, what it read holds what the person wanted, except where
the person has saved an edit since.

### Only model-checked

* Liveness: `Settles`, `EveryCallEnds`, `RecoversWhenCalm`, `WatchEnds`, `ScansAgain`,
  and the fair part of `ReadsAsPromised`. The prover does no liveness.
* What a report makes of a change (`SaysWhatWasFound`), and the settings: folds over
  lists of lines, which is induction over data.
* The assumptions of the MC modules, for the same reason: they evaluate recursive or
  folded definitions over every small input.
* The runs that show a violation, and the statements under known limits.

## What is not modelled, and why

* The cipher beyond the key that fits, `safe_detail`, `redact_mongo_uri` and the
  redaction of logs: text.
* Wording, console output and the fields of a log line; of the templates only the one
  that is cut into messages has a structure to get wrong.
* How page objects find elements: a control is there or it is not. The manual
  experiments of the login page (`confirm_manual_*`) are not modelled either.
* The screens before the service centres, and the single steps of a scenario: the scan
  replays them as one step that arrives or fails.
* `check-center`, `api-probe`, `api-observe`, `api-availability`, `inspect` and the other
  diagnostics, which print what one call or one page shows; the manual scripts.
* Of `config.py`: paths, selectors, `flow.yaml`, the sections of the browser commands.
* Between components: several writers of the session at once are in `HeadlessMonitor`
  (a run and `refresh-session`); the local monitor and `init-config` are alone in theirs.
  Nothing in the code keeps them apart, and nothing it promises speaks of them together.

## The plan

The model is complete as far as the list above goes, and the safety properties the runs
check are proved. What is left:

1. That the scan `HeadlessMonitor` takes in a few steps is the one `CentreReads`
   promises, which `CentreScan` is proved to implement.
2. That `HeadlessMonitor` and `MonitorLoop` hand over the same report: the first knows
   what a scan found and whether it was told, the second each message of it.
3. For small data, what the folds of `Settings` and `Messages` compute: `ListsEachOnce`
   and `SaysWhatWasFound` are hypotheses of a theorem and only evaluated.

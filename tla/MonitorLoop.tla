----------------------------- MODULE MonitorLoop -----------------------------
(***************************************************************************)
(* The process around the headless scan (cli.py): `monitor-once` is one    *)
(* scan and its report, `monitor` repeats that with a pause in between,    *)
(* and `telegram-test` is the report alone.  The scan itself is            *)
(* HeadlessMonitor; here it ends with what it hands to the dispatcher.     *)
(*                                                                         *)
(* Telegram answers, refuses, or leaves a request unanswered that it may   *)
(* have carried out.  SIGINT and SIGTERM arrive at any point: both raise   *)
(* KeyboardInterrupt where the process happens to be.                      *)
(***************************************************************************)
EXTENDS Messages, Settings

CONSTANTS
    Configured,   \* the configurations it may be started with
    Histories     \* what a complete scan may find: [stored, read, asked], the
                  \* readings the last snapshot was made of, its own, its centres

ASSUME LoopAssumption ==
    /\ \A s \in Configured :
          /\ s.env.uri \in BOOLEAN /\ s.env.key \in BOOLEAN
          /\ s.env.token \in BOOLEAN /\ s.env.enabled \in BOOLEAN
    /\ \A h \in Histories : h.asked \subseteq DOMAIN h.read

VARIABLES
    run,     \* the command, its configuration, where it is and its exit code
    store,   \* the MongoDB client this iteration built: "none", "open", "closed"
    told,    \* what the finished scan gave the dispatcher
    outbox,  \* the messages to send, of which the first is being sent
    next,    \* the recipient that message goes to now
    heard,   \* per recipient, the messages of this scan that arrived
    missed   \* the recipients one of whose requests failed

loopVars == <<run, store, told, outbox, next, heard, missed>>

\* TELEGRAM_USERS: each listed person once, in the order first listed.
Recipients == TelegramUsers(run.settings.env.users)
Everyone == ToSet(Recipients)

EXIT_OK == 0
EXIT_RUNTIME == 1
EXIT_CONFIG == 2
EXIT_PERSISTENCE == 4
EXIT_INTERRUPTED == 130   \* main(): KeyboardInterrupt that reached it
Running == 999            \* no exit code yet

-----------------------------------------------------------------------------
(* What a scan hands over *)

NoReadings == [stored |-> <<>>, read |-> <<>>, asked |-> {}]

Transitions == {"none", "READY", "AUTH_REQUIRED", "RATE_LIMITED", "SERVICE_UNAVAILABLE"}

\* A complete scan is READY and has found something out; no other has.
Scans ==
    [found: Histories \cup {NoReadings}, transition: {"none", "READY"}, raised: {FALSE}]
    \cup [found: {NoReadings}, transition: Transitions, raised: {FALSE}]

RaisedScan == [found |-> NoReadings, transition |-> "none", raised |-> TRUE]
NoScan == [found |-> NoReadings, transition |-> "none", raised |-> FALSE]

\* The difference between what the last complete scan stored and this one read.
DiffOf(h) == DiffSnapshots(Stored(SnapshotOf(h.stored)), SnapshotOf(h.read), h.asked)

Notice(text) == <<Line("heading", text)>>
TestMessage == Notice("test")

\* notify_scan, notify_unexpected_error: the messages, in the order sent.
Warrants(scan) ==
    IF scan.raised THEN <<Notice("unexpected error")>>
    ELSE RenderAvailability(DiffOf(scan.found))
         \o (IF scan.transition \in {"none", "READY"} THEN <<>>
             ELSE <<Notice(scan.transition)>>)

-----------------------------------------------------------------------------

Commands == {"monitor", "monitor-once", "telegram-test"}

Processes ==
    [command: Commands,
     settings: Configured,
     at: {"starting", "building", "scanning", "telling", "closing", "waiting", "ended"},
     interrupted: BOOLEAN,
     code: {EXIT_OK, EXIT_RUNTIME, EXIT_CONFIG, EXIT_PERSISTENCE, EXIT_INTERRUPTED,
            Running}]

LoopTypeOK ==
    /\ run \in Processes
    /\ store \in {"none", "open", "closed"}
    /\ told \in Scans \cup {RaisedScan}
    /\ \A i \in DOMAIN outbox : Len(outbox[i]) \in 1 .. MaxText
    /\ next \in 1 .. Len(Recipients) + 1
    /\ \A r \in Everyone : \A i \in DOMAIN heard[r] : Len(heard[r][i]) \in 1 .. MaxText
    /\ missed \subseteq Everyone

LoopInit ==
    /\ run \in [command: Commands,
                settings: Configured, at: {"starting"}, interrupted: {FALSE}, code: {Running}]
    /\ store = "none"
    /\ told = NoScan
    /\ outbox = <<>> /\ next = 1
    /\ heard = [r \in Everyone |-> <<>>] /\ missed = {}

RunIsAt(place) == run.at = place
RunGoesTo(place) == run' = [run EXCEPT !.at = place]
End(code) == run' = [run EXCEPT !.at = "ended", !.code = code]

NothingSent == UNCHANGED <<told, outbox, next, heard, missed>>

\* A new report: nobody has heard or missed anything of it yet.
Report(scan, messages) ==
    /\ told' = scan /\ outbox' = messages /\ next' = 1
    /\ heard' = [r \in Everyone |-> <<>>] /\ missed' = {}

-----------------------------------------------------------------------------
(* run_monitor_once, run_telegram_test *)

\* load_config, before the command itself begins.
Begin ==
    /\ RunIsAt("starting")
    /\ IF RefusesLoading(run.settings) THEN End(EXIT_CONFIG) ELSE RunGoesTo("building")
    /\ UNCHANGED store /\ NothingSent

Scanning == run.command # "telegram-test"

Unset == [is |-> "unset", of |-> 0]   \* no --slot-interval

\* The centres and the pacing, before anything is connected to.
RefusesRequest(settings) ==
    \/ RefusesCentres(settings.centres, settings.overrides)
    \/ settings.pace # Unset /\ ~SlotInterval(settings.pace)

\* Both commands that scan: centres, pacing, the store, then the notifier.  A
\* command that scans without a database is refused like one with half of it.
RefusesRun ==
    LET env == run.settings.env
    IN  /\ RunIsAt("building") /\ Scanning
        /\ RefusesRequest(run.settings) \/ ~HasStore(env) \/ RefusesNotifier(env)
        /\ End(EXIT_CONFIG)
        /\ store' = IF ~RefusesRequest(run.settings) /\ HasStore(env)
                    THEN "open" ELSE "none"   \* build_notifier returns past the close
        /\ NothingSent

RefusesTest ==
    /\ RunIsAt("building") /\ ~Scanning
    /\ ~HasNotifier(run.settings.env)
    /\ End(EXIT_CONFIG) /\ UNCHANGED store /\ NothingSent

\* MongoClient raises, as it does when the cluster's name does not resolve.
StoreRefused ==
    /\ RunIsAt("building") /\ Scanning
    /\ ~RefusesRequest(run.settings) /\ HasStore(run.settings.env)
    /\ End(EXIT_PERSISTENCE) /\ store' = "none" /\ NothingSent

StartsScan ==
    /\ RunIsAt("building") /\ Scanning
    /\ ~RefusesRequest(run.settings) /\ HasStore(run.settings.env)
    /\ ~RefusesNotifier(run.settings.env)
    /\ store' = "open" /\ RunGoesTo("scanning") /\ NothingSent

StartsTest ==
    /\ RunIsAt("building") /\ ~Scanning /\ HasNotifier(run.settings.env)
    /\ RunGoesTo("telling") /\ Report(NoScan, <<TestMessage>>) /\ UNCHANGED store

ScanEnds(scan) ==
    /\ RunIsAt("scanning") /\ RunGoesTo("telling") /\ UNCHANGED store
    /\ Report(scan, IF HasNotifier(run.settings.env) THEN Warrants(scan) ELSE <<>>)

PostUntilRefused(answer, arrived) ==
    /\ RunIsAt("telling") /\ outbox # <<>> /\ next <= Len(Recipients)
    /\ answer = 200 => arrived
    /\ heard' = IF ~arrived THEN heard
              ELSE [heard EXCEPT ![Recipients[next]] = Append(@, Head(outbox))]
    /\ missed' = IF answer = 200 THEN missed ELSE missed \cup {Recipients[next]}
    /\ next' = IF answer = 403 THEN Len(Recipients) + 1 ELSE next + 1
    /\ UNCHANGED <<run, store, told, outbox>>
\* One request to one recipient; whatever comes of it, the next one follows.
Post(answer, arrived) ==
    /\ RunIsAt("telling") /\ outbox # <<>> /\ next <= Len(Recipients)
    /\ answer = 200 => arrived
    /\ heard' = IF ~arrived THEN heard
              ELSE [heard EXCEPT ![Recipients[next]] = Append(@, Head(outbox))]
    /\ missed' = IF answer = 200 THEN missed ELSE missed \cup {Recipients[next]}
    /\ next' = next + 1
    /\ UNCHANGED <<run, store, told, outbox>>

NextMessage ==
    /\ RunIsAt("telling") /\ outbox # <<>> /\ next > Len(Recipients)
    /\ outbox' = Tail(outbox) /\ next' = 1
    /\ UNCHANGED <<run, store, told, heard, missed>>

\* send_test_message counts what was delivered; nothing else does.
TestCodeOfSome == IF missed # Everyone THEN EXIT_OK ELSE EXIT_RUNTIME
TestCode == IF missed = {} THEN EXIT_OK ELSE EXIT_RUNTIME

AllToldUnlessRaised ==
    /\ RunIsAt("telling") /\ outbox = <<>>
    /\ IF ~Scanning THEN End(TestCode)
       ELSE IF told.raised THEN End(EXIT_RUNTIME) ELSE RunGoesTo("closing")
    /\ UNCHANGED store /\ NothingSent
AllToldToEveryone ==
    /\ RunIsAt("telling") /\ outbox = <<>> /\ missed = {}
    /\ IF ~Scanning THEN End(TestCode) ELSE RunGoesTo("closing")
    /\ UNCHANGED store /\ NothingSent
AllTold ==
    /\ RunIsAt("telling") /\ outbox = <<>>
    /\ IF ~Scanning THEN End(TestCode) ELSE RunGoesTo("closing")
    /\ UNCHANGED store /\ NothingSent

\* finally: session_store.close(), on the way on or on the way out.
Close ==
    /\ RunIsAt("closing") /\ store' = "closed"
    /\ IF run.interrupted
       THEN End(IF run.command = "monitor" THEN EXIT_OK ELSE EXIT_INTERRUPTED)
       ELSE IF run.command = "monitor" THEN RunGoesTo("waiting") ELSE End(EXIT_OK)
    /\ NothingSent

\* sleep(interval), counted from the end of the iteration.
Waited ==
    /\ RunIsAt("waiting") /\ RunGoesTo("building") /\ store' = "none" /\ Report(NoScan, <<>>)

-----------------------------------------------------------------------------
(* SIGINT, and SIGTERM in the loop *)

\* run_monitor_loop catches it once its `try` is entered; main() otherwise.
InterruptedCode ==
    IF run.command = "monitor" /\ ~RunIsAt("starting") THEN EXIT_OK ELSE EXIT_INTERRUPTED

Interrupt ==
    /\ ~RunIsAt("ended") /\ ~run.interrupted
    /\ IF (RunIsAt("scanning") \/ RunIsAt("telling")) /\ Scanning
       THEN run' = [run EXCEPT !.at = "closing", !.interrupted = TRUE]
       ELSE run' = [run EXCEPT !.at = "ended", !.code = InterruptedCode, !.interrupted = TRUE]
    /\ UNCHANGED store /\ NothingSent

-----------------------------------------------------------------------------
(* The specification *)

ProcessWorks ==
    \/ Begin \/ RefusesRun \/ RefusesTest \/ StoreRefused \/ StartsScan \/ StartsTest
    \/ \E scan \in Scans \cup {RaisedScan} : ScanEnds(scan)
    \/ \E answer \in {200, 403, 0}, arrived \in BOOLEAN :
          (arrived => answer # 403) /\ Post(answer, arrived)
    \/ NextMessage \/ AllTold \/ Close \/ Waited

LoopNext == ProcessWorks \/ Interrupt

LoopSpec == LoopInit /\ [][LoopNext]_loopVars

\* Every request has a timeout, and so has the scan; nothing makes anyone
\* press Ctrl+C.
FairLoopSpec == LoopSpec /\ WF_loopVars(ProcessWorks)

-----------------------------------------------------------------------------
(* Properties *)

\* What changed at HSC between two complete scans, in the centres both read
\* and this one was asked for: the times that are free now and were not, and
\* the other way round, whatever became of their ends.
FreeOn(readings, centre, day) ==
    IF day \in DOMAIN readings[centre] THEN readings[centre][day] ELSE {}
Appeared(h, from, to) ==
    UNION {UNION {{[centre |-> c, day |-> d, start |-> t.start, end |-> t.end] :
                      t \in {u \in to[c][d] :
                                \A v \in FreeOn(from, c, d) : v.start # u.start}} :
                  d \in DOMAIN to[c]} :
           c \in h.asked \cap DOMAIN h.stored \cap DOMAIN h.read}
TrueChange(h) ==
    [added |-> Appeared(h, h.stored, h.read), removed |-> Appeared(h, h.read, h.stored)]

Told == RunIsAt("closing") /\ ~run.interrupted /\ HasNotifier(run.settings.env) /\ ~told.raised

\* Some of the messages, in the order they were sent.
Selections(n, m) == {c \in [1 .. n -> 1 .. m] : \A i, j \in 1 .. n : i < j => c[i] < c[j]}
Part(messages, choice) == [i \in DOMAIN choice |-> messages[choice[i]]]

\* A report says what the scan has found, and its parts say nothing else.
SaysWhatWasFound(scan) ==
    LET messages == Warrants(scan)
        change == TrueChange(scan.found)
    IN  /\ messages \in Seq(ToSet(messages))
        /\ TellsTheChange(messages, change)
        /\ \A n \in 0 .. Len(messages) : \A choice \in Selections(n, Len(messages)) :
              TellsSomeOfTheChange(Part(messages, choice), change)

ListsEachOnce(people) == people \in Seq(ToSet(people)) /\ IsInjective(people)

\* A recipient all of whose requests were answered has, after a scan, read
\* every time that became free at HSC or was taken since the scan before, each
\* once and each under its own centre, day and section in the message it stood
\* in: whatever the document in between makes of it, however it was cut into
\* messages, and whatever became of the other recipients' requests.  The others
\* have read some of it, none of it wrong and none of it twice, even if a
\* request was carried out and never answered, or a person is listed twice.
EveryReaderLearnsTheChange ==
    Told => /\ \A r \in Everyone \ missed : TellsTheChange(heard[r], TrueChange(told.found))
            /\ \A r \in missed : TellsSomeOfTheChange(heard[r], TrueChange(told.found))

\* A stopped loop was asked to stop, or could not build what it needs: no
\* scan, whatever it raised, and no failed delivery ends it.
StopsOnlyForAReason ==
    [][RunIsAt("ended")' =>
          \/ run'.interrupted
          \/ run.command # "monitor"
          \/ RunIsAt("starting") \/ RunIsAt("building")]_loopVars

\* After every scan of the loop another one starts, unless it was asked to
\* stop or the next store could not be built.
ScansAgain ==
    (RunIsAt("scanning") /\ run.command = "monitor") ~> (RunIsAt("building") \/ RunIsAt("ended"))

\* telegram-test exits 0 exactly if every recipient's request was answered 200.
TestExitIsTrue ==
    ~Scanning /\ RunIsAt("ended") /\ ~run.interrupted /\ run.code \in {EXIT_OK, EXIT_RUNTIME} =>
        (run.code = EXIT_OK <=> missed = {})

\* Does not hold (README.md): "Ctrl+C/SIGTERM stop it cleanly between scans"
\* (src/README.md:507): a loop that was stopped had told what its last scan found.
StoppedBetweenScans ==
    RunIsAt("ended") /\ run.command = "monitor" /\ run.code = EXIT_OK => outbox = <<>>

=============================================================================

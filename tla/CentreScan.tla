------------------------------ MODULE CentreScan ------------------------------
(***************************************************************************)
(* One scan over the HTTP API: departments once, then for every centre its *)
(* days and, one after the other, the slots of each date                   *)
(* (read_centres, _read_centre and scan_department), every request through *)
(* the one retry there is (HscApiClient._get and retry.py) and the slots   *)
(* requests through one Pacer.  The scan is sequential; what is hard in it *)
(* is time (pacing, backoff and Retry-After together) and what each kind   *)
(* of answer, at each level, leaves in the readings the verdict is made    *)
(* from.  HeadlessMonitor reads a centre in one step; CentreReads is that  *)
(* reading loop, and this module implements it.                            *)
(*                                                                         *)
(* A centre is its position in centre_ids, a date its position in the days *)
(* response.  Clocks count ticks and stop at Interval: nothing in the scan *)
(* tells longer times apart.                                               *)
(***************************************************************************)
EXTENDS Naturals, FiniteSets

CONSTANTS
    NumCentres,      \* how many centres the scan is asked for
    MaxOffered,      \* bound: dates a days response may list
    DateCaps,        \* what --max-dates may be: 0 for all
    MaxAttempts,     \* api.retry.max_attempts
    InitialBackoff, Multiplier, MaxBackoff,  \* api.retry, in ticks
    RetryAfters,     \* bound: Retry-After values HSC may send with a 429
    MaxRetryAfter,   \* api.retry.max_retry_after_seconds
    Interval,        \* api.slot_request_interval_seconds
    MaxAnswer        \* bound: ticks a request may take

ASSUME ScanAssumption ==
    /\ NumCentres \in Nat \ {0}
    /\ MaxOffered \in Nat
    /\ DateCaps \subseteq Nat

ASSUME RetryAssumption ==
    /\ MaxAttempts \in Nat \ {0}
    /\ InitialBackoff \in Nat /\ Multiplier \in Nat \ {0} /\ MaxBackoff \in Nat
    /\ RetryAfters \subseteq Nat
    /\ MaxRetryAfter \in Nat

ASSUME PacingAssumption == Interval \in Nat /\ MaxAnswer \in Nat

VARIABLES
    maxDates,  \* the --max-dates of this run
    scan,      \* where the scan is, and the locals of scan_department
    client,    \* the request _get is making: attempts made, the last answer
    pacer,     \* ticks since Pacer.mark, Interval before the first one
    readings,  \* the CentreReading of each centre
    offered,   \* observer: dates the days response listed
    answered,  \* observer: dates whose slots came back readable
    heard,     \* observer: the final answers of the scan
    since,     \* observer: ticks since a slots request began (first, any)
    spacing,   \* observer: the same, when the present date was first asked
    sent       \* observer: requests put on the wire

code == <<maxDates, scan, client, pacer, readings>>
seen == <<offered, answered, heard>>
clocks == <<since, spacing>>
vars == <<code, seen, clocks, sent>>

-----------------------------------------------------------------------------
(* Values *)

Centres == 1 .. NumCentres
Dates == 1 .. MaxOffered
Time == 0 .. Interval
Phases == {"departments", "days", "slots", "done"}

\* What a request may come back as: JSON that can be read, JSON of an unknown
\* shape, a refusal (401, 403), a 429, a redirect, a 5xx, no answer at all, or
\* a body that is no JSON (204, HTML, another 4xx).
Answers == {"json", "odd", "refused", "limited", "redirect", "server",
            "timeout", "unreadable"}

\* is_retryable: asking again could produce a different answer.
Retryable == {"limited", "server", "timeout"}

\* STOP_KINDS: after these the next date of the centre is not asked for.
StopKinds == {"limited", "refused", "redirect", "timeout"}

\* ApiCall.ok: an unknown shape is JSON all the same.
Ok(answer) == answer \in {"json", "odd"}
\* The kind an outcome is recorded as: nothing tells the shape of the JSON.
KindOf(answer) == IF answer = "odd" THEN "json" ELSE answer

AtMost(n, cap) == IF n <= cap THEN n ELSE cap

Unread == [read |-> FALSE, complete |-> FALSE, kinds |-> {}, state |-> {}]
Reading(complete, kinds, state) ==
    [read |-> TRUE, complete |-> complete, kinds |-> kinds, state |-> state]

Statuses == {"READY", "AUTH_REQUIRED", "RATE_LIMITED", "SERVICE_UNAVAILABLE"}

Scans == [phase: Phases, centre: Centres, dates: 0 .. MaxOffered, day: 0 .. MaxOffered,
          good: SUBSET Dates, failed: BOOLEAN, kinds: SUBSET Answers]
Calls == [attempt: 0 .. MaxAttempts, answer: Answers \cup {"none"}]
Readings == [read: BOOLEAN, complete: BOOLEAN, kinds: SUBSET Answers, state: SUBSET Dates]

TypeOK ==
    /\ maxDates \in DateCaps
    /\ scan \in Scans
    /\ scan.day <= scan.dates
    /\ client \in Calls
    /\ pacer \in Time
    /\ readings \in [Centres -> Readings]
    /\ offered \in [Centres -> 0 .. MaxOffered]
    /\ answered \in [Centres -> SUBSET Dates]
    /\ heard \in SUBSET Answers
    /\ since \in [first: Time, any: Time]
    /\ spacing \in [first: Time, any: Time]
    /\ sent \in Nat

-----------------------------------------------------------------------------
(* The decisions of the code, each with the slips it could have been         *)
(* written with beside it.                                                   *)

\* backoff_for: the wait after the attempt-th attempt.
BackoffFor(attempt) ==
    AtMost(InitialBackoff * Multiplier ^ (attempt - 1), MaxBackoff)

\* Arithmetic, said here because the provers know nothing of powers.
ASSUME BackoffAssumption == \A attempt \in 1 .. MaxAttempts : BackoffFor(attempt) \in Nat

\* wait_for: a usable Retry-After is honoured up to its cap, anything else
\* waits out the backoff.
WaitsFor(answer, attempt) ==
    {BackoffFor(attempt)} \cup
        IF answer = "limited"
            THEN {AtMost(asked, MaxRetryAfter) : asked \in RetryAfters} ELSE {}

\* _get: whether one more attempt is made.
AsksAgain(attempt, answer) ==
    attempt < MaxAttempts /\ answer \in Retryable

\* The number of the next attempt.
ForgetsAttempts(attempt) == 1
NextAttempt(attempt) == attempt + 1

\* wanted: the dates that will be asked for.
Wanted(dates) == IF maxDates = 0 THEN dates ELSE AtMost(dates, maxDates)

\* ApiScan.skipped_dates: what was offered and never asked about.
SkippedOfWanted(dates, day) == Wanted(dates) - day
Skipped(dates, day) == dates - day

\* Whether the answer for a date ends the centre: a refusal, a transport that
\* is broken, or a shape every other date would have too.
Stops(answer) == answer \in StopKinds \cup {"odd"}

\* The Pacer the next centre is read with: the one the scan began with.
PacerOfItsOwn(elapsed) == Interval
SharedPacer(elapsed) == elapsed

\* read_centres without a departments response: nothing was read anywhere, and
\* every reading says why.
EmptyWithoutDepartments(answer) == Reading(TRUE, {KindOf(answer)}, {})
SilentWithoutDepartments(answer) == Reading(FALSE, {}, {})
WithoutDepartments(answer) == Reading(FALSE, {KindOf(answer)}, {})

\* classify: the verdict over the readings of a scan.
Verdict(rs) ==
    IF \E i \in Centres : "refused" \in rs[i].kinds THEN "AUTH_REQUIRED"
    ELSE IF \E i \in Centres : "limited" \in rs[i].kinds THEN "RATE_LIMITED"
    ELSE IF \E i \in Centres : ~rs[i].complete THEN "SERVICE_UNAVAILABLE"
    ELSE "READY"

-----------------------------------------------------------------------------
(* Time *)

Later(elapsed, t) == AtMost(elapsed + t, Interval)
LaterBoth(s, t) == [first |-> Later(s.first, t), any |-> Later(s.any, t)]

-----------------------------------------------------------------------------
(* The scan *)

NoCall == [attempt |-> 0, answer |-> "none"]

AtCentre(i, phase) ==
    [phase |-> phase, centre |-> i, dates |-> 0, day |-> 0, good |-> {},
     failed |-> FALSE, kinds |-> {}]

Init ==
    /\ maxDates \in DateCaps
    /\ scan = AtCentre(1, "departments")
    /\ client = NoCall
    /\ pacer = Interval
    /\ readings = [i \in Centres |-> Unread]
    /\ offered = [i \in Centres |-> 0]
    /\ answered = [i \in Centres |-> {}]
    /\ heard = {}
    /\ since = [first |-> Interval, any |-> Interval]
    /\ spacing = [first |-> Interval, any |-> Interval]
    /\ sent = 0

\* Most requests a scan can make, each tried MaxAttempts times.
Budget == MaxAttempts * (1 + NumCentres * (1 + MaxOffered))
\* The observer stops counting one above what it is compared with.
Count == sent' = AtMost(sent + 1, Budget + 1)

\* departments(), days(): the first attempt, as soon as it is wanted.
Ask ==
    /\ scan.phase \in {"departments", "days"}
    /\ client.attempt = 0
    /\ \E answer \in Answers, t \in 0 .. MaxAnswer :
          /\ client' = [attempt |-> 1, answer |-> answer]
          /\ pacer' = Later(pacer, t)
          /\ since' = LaterBoth(since, t)
    /\ Count
    /\ UNCHANGED <<scan, readings, seen, spacing>>

\* slots(): pacer.wait, pacer.mark, the first attempt.
AskSlots ==
    /\ scan.phase = "slots"
    /\ scan.day < Wanted(scan.dates)
    /\ client.attempt = 0
    /\ spacing' = LaterBoth(since, Interval - pacer)
    /\ \E answer \in Answers, t \in 0 .. MaxAnswer :
          /\ client' = [attempt |-> 1, answer |-> answer]
          /\ pacer' = Later(0, t)
          /\ since' = [first |-> Later(0, t), any |-> Later(0, t)]
    /\ Count
    /\ UNCHANGED <<scan, readings, seen>>

\* _get: a transient answer is slept on and asked again; the Pacer is not told.
AskAgain ==
    /\ client.attempt > 0
    /\ AsksAgain(client.attempt, client.answer)
    /\ \E wait \in WaitsFor(client.answer, client.attempt),
          answer \in Answers, t \in 0 .. MaxAnswer :
          /\ client' = [attempt |-> NextAttempt(client.attempt),
                        answer |-> answer]
          /\ pacer' = Later(pacer, wait + t)
          /\ since' = IF scan.phase = "slots"
                         THEN [first |-> Later(since.first, wait + t),
                               any |-> Later(0, t)]
                         ELSE LaterBoth(since, wait + t)
    /\ Count
    /\ UNCHANGED <<scan, readings, seen, spacing>>

\* _get returns: nothing more to ask.
Answered(phase) ==
    /\ scan.phase = phase
    /\ client.attempt > 0
    /\ ~AsksAgain(client.attempt, client.answer)
    /\ client' = NoCall
    /\ heard' = heard \cup {client.answer}

\* The next centre of centre_ids, whatever this one answered.
Leave(reading) ==
    /\ readings' = [readings EXCEPT ![scan.centre] = reading]
    /\ IF scan.centre = NumCentres
          THEN scan' = AtCentre(scan.centre, "done") /\ UNCHANGED pacer
          ELSE /\ scan' = AtCentre(scan.centre + 1, "days")
               /\ pacer' = SharedPacer(pacer)

\* No departments response: the scan is over.
NoDepartments ==
    /\ Answered("departments")
    /\ ~Ok(client.answer)
    /\ readings' = [i \in Centres |-> WithoutDepartments(client.answer)]
    /\ scan' = AtCentre(1, "done")
    /\ UNCHANGED <<pacer, offered, answered, clocks, sent>>

GotDepartments ==
    /\ Answered("departments")
    /\ Ok(client.answer)
    /\ IF client.answer = "json"
          THEN scan' = AtCentre(1, "days") /\ UNCHANGED readings
          \* parse_departments fails for every centre alike.
          ELSE /\ scan' = AtCentre(1, "done")
               /\ readings' = [i \in Centres |-> Reading(FALSE, {}, {})]
    /\ UNCHANGED <<pacer, offered, answered, clocks, sent>>

\* DepartmentUnresolved: no department carries the centre's number, or several
\* do.  The centre is left before its first request.
Unresolved ==
    /\ scan.phase = "days"
    /\ client.attempt = 0
    /\ Leave(Reading(FALSE, {}, {}))
    /\ UNCHANGED <<client, seen, clocks, sent>>

\* require(days) or parse_days raises.
NoDays ==
    /\ Answered("days")
    /\ client.answer # "json"
    /\ Leave(Reading(FALSE, IF Ok(client.answer) THEN {}
                                                 ELSE {client.answer}, {}))
    /\ UNCHANGED <<offered, answered, clocks, sent>>

GotDays ==
    /\ Answered("days")
    /\ client.answer = "json"
    /\ \E n \in 0 .. MaxOffered :
          /\ offered' = [offered EXCEPT ![scan.centre] = n]
          /\ scan' = [scan EXCEPT !.phase = "slots", !.dates = n,
                                  !.kinds = {"json"}]
    /\ UNCHANGED <<readings, pacer, answered, clocks, sent>>

\* The end of scan_department: _read_centre makes its reading.
ReadingOf(s) ==
    LET complete == ~s.failed /\ Skipped(s.dates, s.day) = 0 IN
    Reading(complete, s.kinds, IF complete THEN s.good ELSE {})

\* One date, answered for good: kept, or recorded as failed, never missing.
TakeSlots ==
    LET s == [scan EXCEPT
                 !.day = @ + 1,
                 !.kinds = @ \cup {KindOf(client.answer)},
                 !.good = IF client.answer = "json" THEN @ \cup {scan.day + 1}
                                                    ELSE @,
                 !.failed = @ \/ client.answer # "json"] IN
    /\ Answered("slots")
    /\ answered' = [answered EXCEPT ![scan.centre] = s.good]
    /\ IF Stops(client.answer)
          THEN Leave(ReadingOf(s))
          ELSE scan' = s /\ UNCHANGED <<readings, pacer>>
    /\ UNCHANGED <<offered, clocks, sent>>

\* Every wanted date has been asked for.
EndOfDates ==
    /\ scan.phase = "slots"
    /\ client.attempt = 0
    /\ scan.day = Wanted(scan.dates)
    /\ Leave(ReadingOf(scan))
    /\ UNCHANGED <<client, seen, clocks, sent>>

\* Another run, with a client and a Pacer of its own.
NextRun ==
    /\ scan.phase = "done"
    /\ maxDates' \in DateCaps
    /\ scan' = AtCentre(1, "departments")
    /\ client' = NoCall
    /\ pacer' = Interval
    /\ readings' = [i \in Centres |-> Unread]
    /\ offered' = [i \in Centres |-> 0]
    /\ answered' = [i \in Centres |-> {}]
    /\ heard' = {}
    /\ since' = [first |-> Interval, any |-> Interval]
    /\ spacing' = [first |-> Interval, any |-> Interval]
    /\ sent' = 0

\* One step of a scan, made with the options it was started with.
Step ==
    /\ \/ Ask \/ AskSlots \/ AskAgain
       \/ NoDepartments \/ GotDepartments \/ Unresolved \/ NoDays \/ GotDays
       \/ TakeSlots \/ EndOfDates
    /\ UNCHANGED maxDates

Next == Step \/ NextRun

Spec == Init /\ [][Next]_vars

\* The scan is one thread that never waits for anything but time and HSC, and
\* every request has a timeout.
FairSpec == Spec /\ WF_vars(Next)

-----------------------------------------------------------------------------
(* Safety *)

\* A reading called complete holds the slots of every date HSC offered, each
\* read from an answer that could be read (monitor.py:104-107): a date that
\* failed, was capped away or was never reached leaves the centre incomplete.
CompleteIsWhole ==
    \A i \in Centres : readings[i].complete =>
        /\ readings[i].state = 1 .. offered[i]
        /\ answered[i] = 1 .. offered[i]

\* The verdict says what was heard, at whatever level it was heard: a refusal
\* anywhere is AUTH_REQUIRED and nothing else is; a 429 that outlived the
\* retries is RATE_LIMITED; READY means every centre was read whole
\* (headless_monitor.py:223-236).
VerdictSaysWhatWasHeard ==
    scan.phase = "done" =>
        /\ Verdict(readings) = "AUTH_REQUIRED" <=> "refused" \in heard
        /\ Verdict(readings) = "RATE_LIMITED" <=>
              "limited" \in heard /\ "refused" \notin heard
        /\ Verdict(readings) = "READY" => heard = {"json"}

\* Two dates are never first asked for closer than the interval, across the
\* border between two centres too: "the interval belongs to the server, not to
\* one centre's turn" (availability.py:612-613).
DatesPaced == spacing.first = Interval

\* However HSC answers, one scan puts a bounded number of requests on the wire:
\* a retry is never retried by a layer above it (retry.py:3-7).
ScanBounded == sent <= Budget

\* Does not hold with the shipped intervals (README.md): the present date was
\* first asked for at least the interval after the last request for
\* another date (app.yaml:38-40).
RequestsApart == spacing.any = Interval

-----------------------------------------------------------------------------
(* What the scan promises to its caller *)

\* The evidence a reading leaves, as HeadlessMonitor tells it apart.
EvidenceOf(r) ==
    IF ~r.read \/ r.complete THEN {}
    ELSE IF r.kinds \cap {"refused", "limited"} = {} THEN {"other"}
    ELSE {IF kind = "refused" THEN "auth" ELSE "limited" :
             kind \in r.kinds \cap {"refused", "limited"}}

Reads == INSTANCE CentreReads WITH
    stage <- IF scan.phase \in {"days", "slots"} THEN "reading" ELSE scan.phase,
    todo <- IF scan.phase \in {"days", "slots"}
               THEN {i \in Centres : ~readings[i].read} ELSE {},
    whole <- {i \in Centres : readings[i].complete},
    kinds <- UNION {EvidenceOf(readings[i]) : i \in Centres}

\* The scan with its retries, pacing and early ends is the reading loop the
\* headless monitor is modelled with: every centre once and in one step, whole
\* or with a reason (monitor.py:140-176); and it ends, whatever HSC answers.
ReadsAsPromised == Reads!Promise
=============================================================================

--------------------------- MODULE CentreScan_proofs ---------------------------
(***************************************************************************)
(* What holds of a scan for every number of centres and dates, every retry *)
(* policy and every interval: a reading called complete is whole, the      *)
(* verdict says what was heard, dates are paced, the requests are bounded, *)
(* and step by step the scan is the reading loop CentreReads promises.     *)
(***************************************************************************)
EXTENDS CentreScan, TLAPS

-----------------------------------------------------------------------------
(* Values *)

LEMMA Values ==
  /\ NoCall \in Calls /\ Unread \in Readings
  /\ Interval \in Time /\ 0 \in Time /\ 1 \in Centres /\ NumCentres \in Centres
  /\ \A i \in Centres, phase \in Phases : AtCentre(i, phase) \in Scans
  /\ \A complete \in BOOLEAN, ks \in SUBSET Answers, state \in SUBSET Dates :
        Reading(complete, ks, state) \in Readings
<1>1. 0 \in 0 .. MaxAttempts /\ 0 \in 0 .. MaxOffered
  BY RetryAssumption, ScanAssumption
<1>2. NoCall \in Calls
  BY <1>1 DEF NoCall, Calls
<1>3. Unread \in Readings
  BY DEF Unread, Readings
<1>4. Interval \in Time /\ 0 \in Time
  BY PacingAssumption DEF Time
<1>5. 1 \in Centres /\ NumCentres \in Centres
  BY ScanAssumption DEF Centres
<1>6. \A i \in Centres, phase \in Phases : AtCentre(i, phase) \in Scans
  BY <1>1 DEF AtCentre, Scans
<1>7. \A complete \in BOOLEAN, ks \in SUBSET Answers, state \in SUBSET Dates :
         Reading(complete, ks, state) \in Readings
  BY DEF Reading, Readings
<1> QED
  BY <1>2, <1>3, <1>4, <1>5, <1>6, <1>7

\* Time goes on and stops at the interval.
LEMMA LaterType ==
  ASSUME NEW elapsed \in Time, NEW t \in Nat
  PROVE  Later(elapsed, t) \in Time
BY PacingAssumption DEF Later, AtMost, Time

LEMMA LaterBothType ==
  ASSUME NEW s \in [first: Time, any: Time], NEW t \in Nat
  PROVE  LaterBoth(s, t) \in [first: Time, any: Time]
BY LaterType DEF LaterBoth

LEMMA WaitType ==
  ASSUME NEW attempt \in 1 .. MaxAttempts, NEW answer, NEW wait \in WaitsFor(answer, attempt)
  PROVE  wait \in Nat
<1>1. BackoffFor(attempt) \in Nat
  BY BackoffAssumption
<1>2. \A asked \in RetryAfters : AtMost(asked, MaxRetryAfter) \in Nat
  BY RetryAssumption DEF AtMost
<1> QED
  BY <1>1, <1>2 DEF WaitsFor

\* What may be asked for is no more than what was offered.
LEMMA WantedType ==
  ASSUME TypeOK
  PROVE  Wanted(scan.dates) \in 0 .. scan.dates
<1>1. maxDates \in Nat /\ scan.dates \in Nat
  BY ScanAssumption DEF TypeOK, Scans
<1> QED
  BY <1>1 DEF Wanted, AtMost

-----------------------------------------------------------------------------
(* Leaving a centre *)

\* The centre that is left has its reading; the scan goes to the next one, or
\* is done after the last.
LEMMA LeaveIs ==
  ASSUME TypeOK, NEW reading \in Readings, Leave(reading)
  PROVE  /\ readings' \in [Centres -> Readings]
         /\ readings'[scan.centre] = reading
         /\ \A i \in Centres : i # scan.centre => readings'[i] = readings[i]
         /\ pacer' = pacer
         /\ scan' \in Scans /\ scan'.day = 0 /\ scan'.dates = 0
         /\ scan'.good = {} /\ scan'.kinds = {} /\ ~scan'.failed
         /\ IF scan.centre = NumCentres
               THEN scan'.phase = "done" /\ scan'.centre = scan.centre
               ELSE scan'.phase = "days" /\ scan'.centre = scan.centre + 1
<1>1. scan.centre \in Centres /\ (scan.centre # NumCentres => scan.centre + 1 \in Centres)
  BY ScanAssumption DEF TypeOK, Scans, Centres
<1>2. /\ readings' \in [Centres -> Readings]
      /\ readings'[scan.centre] = reading
      /\ \A i \in Centres : i # scan.centre => readings'[i] = readings[i]
  BY <1>1 DEF Leave, TypeOK
<1>3. pacer' = pacer
  BY DEF Leave, SharedPacer
<1>4. CASE scan.centre = NumCentres
  <2>1. scan' = AtCentre(scan.centre, "done")
    BY <1>4 DEF Leave
  <2>2. scan' \in Scans
    BY <1>1, <2>1, Values DEF Phases
  <2> QED
    BY <1>2, <1>3, <1>4, <2>1, <2>2 DEF AtCentre
<1>5. CASE scan.centre # NumCentres
  <2>1. scan' = AtCentre(scan.centre + 1, "days")
    BY <1>5 DEF Leave
  <2>2. scan' \in Scans
    BY <1>1, <1>5, <2>1, Values DEF Phases
  <2> QED
    BY <1>2, <1>3, <1>5, <2>1, <2>2 DEF AtCentre
<1> QED
  BY <1>4, <1>5

\* The scan after one more date has been answered for good.
Taken ==
    [scan EXCEPT
        !.day = @ + 1,
        !.kinds = @ \cup {KindOf(client.answer)},
        !.good = IF client.answer = "json" THEN @ \cup {scan.day + 1} ELSE @,
        !.failed = @ \/ client.answer # "json"]

\* A date is asked for only while one is wanted: at an answer there is one
\* more offered than have been taken.
AskedIsOffered == scan.phase = "slots" /\ client.attempt > 0 => scan.day < scan.dates

LEMMA TakenIs ==
  ASSUME TypeOK, AskedIsOffered, scan.phase = "slots", client.attempt > 0,
         client.answer \in Answers
  PROVE  /\ Taken \in Scans
         /\ Taken.day = scan.day + 1 /\ Taken.day <= Taken.dates
         /\ Taken.phase = "slots" /\ Taken.centre = scan.centre /\ Taken.dates = scan.dates
         /\ Taken.kinds = scan.kinds \cup {KindOf(client.answer)}
         /\ Taken.good = IF client.answer = "json" THEN scan.good \cup {scan.day + 1}
                         ELSE scan.good
         /\ Taken.failed = (scan.failed \/ client.answer # "json")
<1>1. scan.day + 1 \in 0 .. MaxOffered /\ scan.day + 1 \in Dates /\ scan.day + 1 <= scan.dates
  BY ScanAssumption DEF TypeOK, Scans, AskedIsOffered, Dates
<1>2. KindOf(client.answer) \in Answers
  BY DEF KindOf, Answers
<1>3. scan \in Scans
  BY DEF TypeOK
<1> DEFINE good == IF client.answer = "json" THEN scan.good \cup {scan.day + 1} ELSE scan.good
           failed == scan.failed \/ client.answer # "json"
<1>4. good \in SUBSET Dates /\ failed \in BOOLEAN
  BY <1>1, <1>3 DEF Scans
<1>5. Taken = [scan EXCEPT !.day = scan.day + 1,
                           !.kinds = scan.kinds \cup {KindOf(client.answer)},
                           !.good = good, !.failed = failed]
  BY DEF Taken
<1> QED
  <2> HIDE DEF good, failed
  <2>1. /\ Taken \in Scans
        /\ Taken.day = scan.day + 1
        /\ Taken.phase = scan.phase /\ Taken.centre = scan.centre /\ Taken.dates = scan.dates
        /\ Taken.kinds = scan.kinds \cup {KindOf(client.answer)}
        /\ Taken.good = good /\ Taken.failed = failed
    BY <1>1, <1>2, <1>3, <1>4, <1>5 DEF Scans
  <2> QED
    BY <1>1, <2>1 DEF good, failed

\* A centre that is read to its end leaves a reading.
LEMMA ReadingOfType ==
  ASSUME NEW s \in Scans
  PROVE  /\ ReadingOf(s) \in Readings /\ ReadingOf(s).read /\ ReadingOf(s).kinds = s.kinds
         /\ ReadingOf(s).complete => /\ ~s.failed /\ s.day = s.dates
                                     /\ ReadingOf(s).state = s.good
<1> DEFINE complete == ~s.failed /\ Skipped(s.dates, s.day) = 0
           state == IF complete THEN s.good ELSE {}
<1>1. complete \in BOOLEAN /\ state \in SUBSET Dates /\ s.kinds \in SUBSET Answers
  BY DEF Scans
<1>2. ReadingOf(s) = Reading(complete, s.kinds, state)
  BY DEF ReadingOf
<1>3. complete => ~s.failed /\ s.day = s.dates
  BY ScanAssumption DEF Scans, Skipped
<1>4. ReadingOf(s) \in Readings
  <2> HIDE DEF complete, state
  <2> QED
    BY <1>1, <1>2, Values
<1>5. /\ ReadingOf(s).read /\ ReadingOf(s).kinds = s.kinds
      /\ ReadingOf(s).complete = complete /\ ReadingOf(s).state = state
  BY <1>2 DEF Reading
<1> QED
  BY <1>3, <1>4, <1>5

-----------------------------------------------------------------------------
(* Type correctness *)

\* An attempt that was made has an answer.
CallsAreAnswered == client.attempt > 0 => client.answer \in Answers

\* Until a centre has its days nothing is known of its dates.
NothingYet ==
    scan.phase # "slots" =>
        scan.day = 0 /\ scan.good = {} /\ scan.kinds = {} /\ ~scan.failed

CallInv == AskedIsOffered /\ CallsAreAnswered /\ NothingYet

LEMMA BudgetType == Budget \in Nat
<1>1. 1 + MaxOffered \in Nat /\ NumCentres \in Nat /\ MaxAttempts \in Nat
  BY ScanAssumption, RetryAssumption
<1>2. NumCentres * (1 + MaxOffered) \in Nat
  BY <1>1
<1>3. 1 + NumCentres * (1 + MaxOffered) \in Nat
  BY <1>2
<1> QED
  BY <1>1, <1>3 DEF Budget

LEMMA CountType == TypeOK /\ Count => sent' \in Nat
BY BudgetType DEF TypeOK, Count, AtMost

\* The three ways a request is put on the wire.
LEMMA AskType == TypeOK /\ CallInv /\ Ask /\ UNCHANGED maxDates => TypeOK' /\ CallInv'
<1> SUFFICES ASSUME TypeOK, CallInv, Ask, UNCHANGED maxDates
             PROVE  TypeOK' /\ CallInv'
  OBVIOUS
<1>1. PICK answer \in Answers, t \in 0 .. MaxAnswer :
         /\ client' = [attempt |-> 1, answer |-> answer]
         /\ pacer' = Later(pacer, t)
         /\ since' = LaterBoth(since, t)
  BY DEF Ask
<1>2. t \in Nat /\ 1 \in 0 .. MaxAttempts
  BY PacingAssumption, RetryAssumption
<1>3. client' \in Calls /\ client'.attempt = 1 /\ client'.answer \in Answers
  BY <1>1, <1>2 DEF Calls
<1>4. pacer' \in Time /\ since' \in [first: Time, any: Time]
  BY <1>1, <1>2, LaterType, LaterBothType DEF TypeOK
<1>5. /\ UNCHANGED <<scan, readings, offered, answered, heard, spacing, maxDates>>
      /\ scan.phase # "slots" /\ sent' \in Nat
  BY CountType DEF Ask, seen
<1> QED
  BY <1>3, <1>4, <1>5 DEF TypeOK, CallInv, AskedIsOffered, CallsAreAnswered, NothingYet

LEMMA AskSlotsType == TypeOK /\ CallInv /\ AskSlots /\ UNCHANGED maxDates => TypeOK' /\ CallInv'
<1> SUFFICES ASSUME TypeOK, CallInv, AskSlots, UNCHANGED maxDates
             PROVE  TypeOK' /\ CallInv'
  OBVIOUS
<1>1. PICK answer \in Answers, t \in 0 .. MaxAnswer :
         /\ client' = [attempt |-> 1, answer |-> answer]
         /\ pacer' = Later(0, t)
         /\ since' = [first |-> Later(0, t), any |-> Later(0, t)]
  BY DEF AskSlots
<1>2. t \in Nat /\ 1 \in 0 .. MaxAttempts
  BY PacingAssumption, RetryAssumption
<1>3. client' \in Calls /\ client'.attempt = 1 /\ client'.answer \in Answers
  BY <1>1, <1>2 DEF Calls
<1>4. pacer' \in Time /\ since' \in [first: Time, any: Time]
  BY <1>1, <1>2, LaterType, Values
<1>5. Interval - pacer \in Nat
  BY PacingAssumption DEF TypeOK, Time
<1>6. spacing' \in [first: Time, any: Time]
  BY <1>5, LaterBothType DEF AskSlots, TypeOK
<1>7. /\ UNCHANGED <<scan, readings, offered, answered, heard, maxDates>> /\ sent' \in Nat
  BY CountType DEF AskSlots, seen
<1>8. scan.day < scan.dates
  <2>1. scan.day < Wanted(scan.dates)
    BY DEF AskSlots
  <2> QED
    BY <2>1, WantedType DEF TypeOK, Scans
<1> QED
  BY <1>3, <1>4, <1>6, <1>7, <1>8 DEF TypeOK, CallInv, AskedIsOffered, CallsAreAnswered, NothingYet

LEMMA AskAgainType == TypeOK /\ CallInv /\ AskAgain /\ UNCHANGED maxDates => TypeOK' /\ CallInv'
<1> SUFFICES ASSUME TypeOK, CallInv, AskAgain, UNCHANGED maxDates
             PROVE  TypeOK' /\ CallInv'
  OBVIOUS
<1>1. PICK wait \in WaitsFor(client.answer, client.attempt),
           answer \in Answers, t \in 0 .. MaxAnswer :
         /\ client' = [attempt |-> NextAttempt(client.attempt), answer |-> answer]
         /\ pacer' = Later(pacer, wait + t)
         /\ since' = IF scan.phase = "slots"
                        THEN [first |-> Later(since.first, wait + t), any |-> Later(0, t)]
                        ELSE LaterBoth(since, wait + t)
  BY DEF AskAgain
<1>2. client.attempt \in 1 .. MaxAttempts /\ client.attempt + 1 \in 0 .. MaxAttempts
  BY RetryAssumption DEF AskAgain, AsksAgain, TypeOK, Calls
<1>3. wait + t \in Nat /\ t \in Nat
  BY <1>2, WaitType, PacingAssumption
<1>4. client' \in Calls /\ client'.answer \in Answers
  BY <1>1, <1>2 DEF Calls, NextAttempt
<1>5. pacer' \in Time
  BY <1>1, <1>3, LaterType DEF TypeOK
<1>6. since' \in [first: Time, any: Time]
  <2>1. since.first \in Time
    BY DEF TypeOK
  <2>2. Later(since.first, wait + t) \in Time /\ Later(0, t) \in Time
    BY <1>3, <2>1, LaterType, Values
  <2>3. LaterBoth(since, wait + t) \in [first: Time, any: Time]
    BY <1>3, LaterBothType DEF TypeOK
  <2> QED
    BY <1>1, <2>2, <2>3
<1>7. /\ UNCHANGED <<scan, readings, offered, answered, heard, spacing, maxDates>>
      /\ sent' \in Nat /\ client.attempt > 0
  BY CountType DEF AskAgain, seen
<1> QED
  BY <1>4, <1>5, <1>6, <1>7 DEF TypeOK, CallInv, AskedIsOffered, CallsAreAnswered, NothingYet

\* What holds after a final answer, of the call and of what was heard.
LEMMA AnsweredIs ==
  ASSUME TypeOK, CallInv, NEW phase, Answered(phase)
  PROVE  /\ client' \in Calls /\ client'.attempt = 0 /\ client.answer \in Answers
         /\ scan.phase = phase /\ client.attempt > 0
         /\ heard' = heard \cup {client.answer} /\ heard' \in SUBSET Answers
<1>1. client' = NoCall /\ NoCall.attempt = 0
  BY DEF Answered, NoCall
<1>2. client.answer \in Answers
  BY DEF Answered, CallInv, CallsAreAnswered
<1> QED
  BY <1>1, <1>2, Values DEF Answered, TypeOK

\* The readings of a scan whose departments did not come.
LEMMA DepartmentsType ==
  ASSUME TypeOK, CallInv, NoDepartments \/ GotDepartments, UNCHANGED maxDates
  PROVE  TypeOK' /\ CallInv'
<1>1. Answered("departments")
  BY DEF NoDepartments, GotDepartments
<1>2. /\ client' \in Calls /\ client'.attempt = 0 /\ client.answer \in Answers
      /\ heard' \in SUBSET Answers
  BY <1>1, AnsweredIs
<1>3. KindOf(client.answer) \in Answers
  BY <1>2 DEF KindOf, Answers
<1>4. \A ks \in SUBSET Answers : [i \in Centres |-> Reading(FALSE, ks, {})] \in [Centres -> Readings]
  BY Values
<1>5. readings' \in [Centres -> Readings]
  <2>1. CASE NoDepartments
    BY <1>3, <1>4, <2>1 DEF NoDepartments, WithoutDepartments
  <2>2. CASE GotDepartments
    BY <1>4, <2>2 DEF GotDepartments, TypeOK
  <2> QED
    BY <2>1, <2>2
<1>6. /\ scan' \in Scans /\ scan'.day = 0 /\ scan'.dates = 0 /\ scan'.phase # "slots"
      /\ scan'.good = {} /\ scan'.kinds = {} /\ ~scan'.failed
  <2>1. PICK phase \in {"done", "days"} : scan' = AtCentre(1, phase)
    BY DEF NoDepartments, GotDepartments
  <2>2. scan' \in Scans
    BY <2>1, Values DEF Phases
  <2> QED
    BY <2>1, <2>2 DEF AtCentre
<1>7. UNCHANGED <<pacer, offered, answered, since, spacing, sent, maxDates>>
  BY DEF NoDepartments, GotDepartments, clocks
<1> QED
  BY <1>2, <1>5, <1>6, <1>7 DEF TypeOK, CallInv, AskedIsOffered, CallsAreAnswered, NothingYet

\* Every end of a centre.
LEMMA LeftType ==
  ASSUME TypeOK, CallInv, NEW reading \in Readings, Leave(reading), UNCHANGED maxDates,
         client' \in Calls, client'.attempt = 0, heard' \in SUBSET Answers,
         answered' \in [Centres -> SUBSET Dates],
         UNCHANGED <<offered, since, spacing, sent>>
  PROVE  TypeOK' /\ CallInv'
<1>1. /\ readings' \in [Centres -> Readings] /\ pacer' = pacer
      /\ scan' \in Scans /\ scan'.day = 0 /\ scan'.dates = 0
      /\ scan'.good = {} /\ scan'.kinds = {} /\ ~scan'.failed
  BY LeaveIs
<1> QED
  BY <1>1 DEF TypeOK, CallInv, AskedIsOffered, CallsAreAnswered, NothingYet

LEMMA UnresolvedType ==
  ASSUME TypeOK, CallInv, Unresolved, UNCHANGED maxDates
  PROVE  TypeOK' /\ CallInv'
<1>1. Reading(FALSE, {}, {}) \in Readings /\ Leave(Reading(FALSE, {}, {}))
  BY Values DEF Unresolved
<1>2. UNCHANGED <<client, offered, answered, heard, since, spacing, sent>> /\ client.attempt = 0
  BY DEF Unresolved, seen, clocks
<1> QED
  BY <1>1, <1>2, LeftType DEF TypeOK

LEMMA NoDaysType ==
  ASSUME TypeOK, CallInv, NoDays, UNCHANGED maxDates
  PROVE  TypeOK' /\ CallInv'
<1> DEFINE ks == IF Ok(client.answer) THEN {} ELSE {client.answer}
<1>1. Answered("days") /\ Leave(Reading(FALSE, ks, {}))
  BY DEF NoDays
<1>2. /\ client' \in Calls /\ client'.attempt = 0 /\ client.answer \in Answers
      /\ heard' \in SUBSET Answers
  BY <1>1, AnsweredIs
<1>3. Reading(FALSE, ks, {}) \in Readings
  BY <1>2, Values
<1>4. UNCHANGED <<offered, answered, since, spacing, sent>>
  BY DEF NoDays, clocks
<1> QED
  <2> HIDE DEF ks
  <2> QED
    BY <1>1, <1>2, <1>3, <1>4, LeftType DEF TypeOK

LEMMA GotDaysType ==
  ASSUME TypeOK, CallInv, GotDays, UNCHANGED maxDates
  PROVE  TypeOK' /\ CallInv'
<1>1. Answered("days")
  BY DEF GotDays
<1>2. /\ client' \in Calls /\ client'.attempt = 0 /\ heard' \in SUBSET Answers
  BY <1>1, AnsweredIs
<1>3. PICK n \in 0 .. MaxOffered :
         /\ offered' = [offered EXCEPT ![scan.centre] = n]
         /\ scan' = [scan EXCEPT !.phase = "slots", !.dates = n, !.kinds = {"json"}]
  BY DEF GotDays
<1>4. offered' \in [Centres -> 0 .. MaxOffered]
  BY <1>3 DEF TypeOK
<1>5. scan' \in Scans /\ scan'.dates = n /\ scan'.day = scan.day /\ scan'.phase = "slots"
  BY <1>3 DEF TypeOK, Scans, Phases, Answers
<1>7. scan.day = 0
  BY <1>1, AnsweredIs DEF CallInv, NothingYet
<1>6. UNCHANGED <<readings, pacer, answered, since, spacing, sent>>
  BY DEF GotDays, clocks
<1> QED
  BY <1>2, <1>4, <1>5, <1>6, <1>7 DEF TypeOK, CallInv, AskedIsOffered, CallsAreAnswered, NothingYet

LEMMA TakeSlotsType ==
  ASSUME TypeOK, CallInv, TakeSlots, UNCHANGED maxDates
  PROVE  TypeOK' /\ CallInv'
<1>1. Answered("slots")
  BY DEF TakeSlots
<1>2. /\ client' \in Calls /\ client'.attempt = 0 /\ client.answer \in Answers
      /\ heard' \in SUBSET Answers /\ scan.phase = "slots" /\ client.attempt > 0
  BY <1>1, AnsweredIs
<1>3. /\ Taken \in Scans /\ Taken.day <= Taken.dates /\ Taken.phase = "slots"
  BY <1>2, TakenIs DEF CallInv
<1>4. /\ answered' = [answered EXCEPT ![scan.centre] = Taken.good]
      /\ IF Stops(client.answer) THEN Leave(ReadingOf(Taken))
         ELSE scan' = Taken /\ UNCHANGED <<readings, pacer>>
      /\ UNCHANGED <<offered, since, spacing, sent>>
  BY DEF TakeSlots, Taken, clocks
<1>5. answered' \in [Centres -> SUBSET Dates]
  BY <1>3, <1>4 DEF TypeOK, Scans
<1>6. CASE Stops(client.answer)
  BY <1>2, <1>3, <1>4, <1>5, <1>6, ReadingOfType, LeftType
<1>7. CASE ~Stops(client.answer)
  BY <1>2, <1>3, <1>4, <1>5, <1>7
     DEF TypeOK, CallInv, AskedIsOffered, CallsAreAnswered, NothingYet
<1> QED
  BY <1>6, <1>7

LEMMA EndOfDatesType ==
  ASSUME TypeOK, CallInv, EndOfDates, UNCHANGED maxDates
  PROVE  TypeOK' /\ CallInv'
<1>1. /\ ReadingOf(scan) \in Readings /\ Leave(ReadingOf(scan)) /\ client.attempt = 0
      /\ UNCHANGED <<client, offered, answered, heard, since, spacing, sent>>
  BY ReadingOfType DEF EndOfDates, TypeOK, seen, clocks
<1> QED
  BY <1>1, LeftType DEF TypeOK

\* A run begins with nothing read, nothing heard and nothing sent.
Fresh ==
    /\ maxDates \in DateCaps
    /\ scan = AtCentre(1, "departments") /\ client = NoCall
    /\ pacer = Interval
    /\ readings = [i \in Centres |-> Unread]
    /\ offered = [i \in Centres |-> 0] /\ answered = [i \in Centres |-> {}]
    /\ heard = {}
    /\ since = [first |-> Interval, any |-> Interval]
    /\ spacing = [first |-> Interval, any |-> Interval]
    /\ sent = 0

LEMMA FreshRuns == (Init => Fresh) /\ (NextRun => Fresh')
BY Zenon DEF Init, NextRun, Fresh

LEMMA FreshType == Fresh => TypeOK /\ CallInv
<1> SUFFICES ASSUME Fresh PROVE TypeOK /\ CallInv
  OBVIOUS
<1>1. scan \in Scans /\ client \in Calls /\ pacer \in Time
  BY Values DEF Fresh, Phases
<1>2. /\ scan.day = 0 /\ scan.dates = 0 /\ scan.phase = "departments" /\ client.attempt = 0
      /\ scan.good = {} /\ scan.kinds = {} /\ ~scan.failed
  BY DEF Fresh, AtCentre, NoCall
<1>3. readings \in [Centres -> Readings] /\ offered \in [Centres -> 0 .. MaxOffered]
      /\ answered \in [Centres -> SUBSET Dates]
  BY Values, ScanAssumption DEF Fresh
<1>4. since \in [first: Time, any: Time] /\ spacing \in [first: Time, any: Time]
  BY Values DEF Fresh
<1> QED
  BY <1>1, <1>2, <1>3, <1>4
     DEF Fresh, TypeOK, CallInv, AskedIsOffered, CallsAreAnswered, NothingYet

LEMMA TypeInductive == TypeOK /\ CallInv /\ [Next]_vars => TypeOK' /\ CallInv'
<1> SUFFICES ASSUME TypeOK, CallInv, [Next]_vars
             PROVE  TypeOK' /\ CallInv'
  OBVIOUS
<1>1. CASE Step
  BY <1>1, AskType, AskSlotsType, AskAgainType, DepartmentsType, UnresolvedType, NoDaysType,
     GotDaysType, TakeSlotsType, EndOfDatesType DEF Step
<1>2. CASE NextRun
  <2>1. Fresh'
    BY <1>2, FreshRuns
  <2>2. Fresh' => TypeOK' /\ CallInv'
    BY FreshType, PTL
  <2> QED
    BY <2>1, <2>2
<1>3. CASE UNCHANGED vars
  BY <1>3 DEF vars, code, seen, clocks, TypeOK, CallInv, AskedIsOffered, CallsAreAnswered,
              NothingYet
<1> QED
  BY <1>1, <1>2, <1>3 DEF Next

\* A scan never asks for a date that was not offered, keeps every count in its
\* range and, whatever is answered, the clocks within the interval.
THEOREM TypeCorrect == Spec => [](TypeOK /\ CallInv)
<1>1. Init => TypeOK /\ CallInv
  BY FreshRuns, FreshType
<1> QED
  BY <1>1, TypeInductive, PTL DEF Spec

-----------------------------------------------------------------------------
(* How far the scan is *)

\* The centres behind the present one have their readings and the others none.
Progress ==
    /\ scan.phase = "departments" => \A i \in Centres : readings[i] = Unread
    /\ scan.phase \in {"days", "slots"} => \A i \in Centres :
          IF i < scan.centre THEN readings[i].read ELSE readings[i] = Unread
    /\ scan.phase = "done" => \A i \in Centres : readings[i].read

LEMMA PresentIsUnread ==
  ASSUME TypeOK, Progress, scan.phase \in {"days", "slots"}
  PROVE  readings[scan.centre] = Unread
<1>1. scan.centre \in Centres /\ ~(scan.centre < scan.centre)
  BY DEF TypeOK, Scans, Centres
<1> QED
  BY <1>1 DEF Progress

\* Asking changes neither the scan nor what has been read and heard.
LEMMA AskKeeps ==
  Ask \/ AskSlots \/ AskAgain => UNCHANGED <<scan, readings, offered, answered, heard>>
BY DEF Ask, AskSlots, AskAgain, seen

LEMMA LeftProgress ==
  ASSUME TypeOK, Progress, scan.phase \in {"days", "slots"},
         NEW reading \in Readings, reading.read, Leave(reading)
  PROVE  Progress'
<1>1. /\ readings'[scan.centre] = reading
      /\ \A i \in Centres : i # scan.centre => readings'[i] = readings[i]
      /\ IF scan.centre = NumCentres
            THEN scan'.phase = "done" /\ scan'.centre = scan.centre
            ELSE scan'.phase = "days" /\ scan'.centre = scan.centre + 1
  BY LeaveIs
<1>2. \A i \in Centres : i \in Nat /\ i <= NumCentres
  BY ScanAssumption DEF Centres
<1>3. scan.centre \in Centres
  BY DEF TypeOK, Scans
<1>4. \A i \in Centres : IF i < scan.centre THEN readings[i].read ELSE readings[i] = Unread
  BY DEF Progress
<1>5. CASE scan.centre = NumCentres
  <2>1. \A i \in Centres : readings'[i].read
    BY <1>1, <1>2, <1>3, <1>4, <1>5
  <2> QED
    BY <1>1, <1>5, <2>1 DEF Progress
<1>6. CASE scan.centre # NumCentres
  <2>1. \A i \in Centres : i < scan.centre + 1 => i = scan.centre \/ i < scan.centre
    BY <1>2, <1>3
  <2>2. \A i \in Centres : ~(i < scan.centre + 1) => i # scan.centre /\ ~(i < scan.centre)
    BY <1>2, <1>3
  <2>3. \A i \in Centres : IF i < scan.centre + 1 THEN readings'[i].read ELSE readings'[i] = Unread
    BY <1>1, <1>4, <2>1, <2>2
  <2> QED
    BY <1>1, <1>6, <2>3 DEF Progress
<1> QED
  BY <1>5, <1>6

\* What leaves a centre, with which reading.
LEMMA Leavers ==
  ASSUME TypeOK, CallInv
  PROVE  /\ Unresolved => /\ scan.phase = "days" /\ Leave(Reading(FALSE, {}, {}))
                          /\ UNCHANGED <<offered, answered, heard>>
         /\ NoDays => /\ scan.phase = "days" /\ client.answer # "json"
                      /\ client.answer \in Answers
                      /\ Leave(Reading(FALSE, IF Ok(client.answer) THEN {}
                                              ELSE {client.answer}, {}))
                      /\ UNCHANGED <<offered, answered>>
                      /\ heard' = heard \cup {client.answer}
         /\ TakeSlots => /\ scan.phase = "slots" /\ client.attempt > 0
                         /\ client.answer \in Answers
                         /\ IF Stops(client.answer) THEN Leave(ReadingOf(Taken))
                            ELSE scan' = Taken /\ UNCHANGED readings
                         /\ answered' = [answered EXCEPT ![scan.centre] = Taken.good]
                         /\ UNCHANGED offered /\ heard' = heard \cup {client.answer}
         /\ EndOfDates => /\ scan.phase = "slots" /\ Leave(ReadingOf(scan))
                          /\ UNCHANGED <<offered, answered, heard>>
<1>1. \A phase : Answered(phase) => /\ scan.phase = phase /\ client.attempt > 0
                                    /\ client.answer \in Answers
                                    /\ heard' = heard \cup {client.answer}
  BY AnsweredIs
<1>2. Unresolved => /\ scan.phase = "days" /\ Leave(Reading(FALSE, {}, {}))
                    /\ UNCHANGED <<offered, answered, heard>>
  BY DEF Unresolved, seen
<1>3. NoDays => /\ Answered("days") /\ client.answer # "json"
                /\ Leave(Reading(FALSE, IF Ok(client.answer) THEN {} ELSE {client.answer}, {}))
                /\ UNCHANGED <<offered, answered>>
  BY DEF NoDays
<1>4. TakeSlots => /\ Answered("slots")
                   /\ IF Stops(client.answer) THEN Leave(ReadingOf(Taken))
                      ELSE scan' = Taken /\ UNCHANGED readings
                   /\ answered' = [answered EXCEPT ![scan.centre] = Taken.good]
                   /\ UNCHANGED offered
  BY DEF TakeSlots, Taken
<1>5. EndOfDates => /\ scan.phase = "slots" /\ Leave(ReadingOf(scan))
                    /\ UNCHANGED <<offered, answered, heard>>
  BY DEF EndOfDates, seen
<1> QED
  BY <1>1, <1>2, <1>3, <1>4, <1>5

LEMMA NotReadReading ==
  \A ks \in SUBSET Answers :
     /\ Reading(FALSE, ks, {}) \in Readings /\ Reading(FALSE, ks, {}).read
     /\ ~Reading(FALSE, ks, {}).complete /\ Reading(FALSE, ks, {}).kinds = ks
BY DEF Reading, Readings

LEMMA NoDaysKinds ==
  ASSUME client.answer \in Answers
  PROVE  (IF Ok(client.answer) THEN {} ELSE {client.answer}) \in SUBSET Answers
BY DEF Answers

LEMMA TakenOf ==
  ASSUME TypeOK, CallInv, TakeSlots
  PROVE  /\ Taken \in Scans
         /\ Taken.day = scan.day + 1 /\ Taken.day <= Taken.dates
         /\ Taken.phase = "slots" /\ Taken.centre = scan.centre /\ Taken.dates = scan.dates
         /\ Taken.kinds = scan.kinds \cup {KindOf(client.answer)}
         /\ Taken.good = IF client.answer = "json" THEN scan.good \cup {scan.day + 1}
                         ELSE scan.good
         /\ Taken.failed = (scan.failed \/ client.answer # "json")
BY Leavers, TakenIs DEF CallInv

LEMMA ProgressInductive == TypeOK /\ CallInv /\ Progress /\ [Next]_vars => Progress'
<1> SUFFICES ASSUME TypeOK, CallInv, Progress, [Next]_vars
             PROVE  Progress'
  OBVIOUS
<1>1. CASE Ask \/ AskSlots \/ AskAgain
  BY <1>1, AskKeeps DEF Progress
<1>2. CASE NoDepartments \/ GotDepartments
  <2>1. scan.phase = "departments"
    BY <1>2 DEF NoDepartments, GotDepartments, Answered
  <2>2. \/ scan' = AtCentre(1, "days") /\ UNCHANGED readings
        \/ scan' = AtCentre(1, "done") /\ \A i \in Centres : readings'[i].read
    BY <1>2 DEF NoDepartments, GotDepartments, WithoutDepartments, Reading
  <2>3. \A i \in Centres : ~(i < 1)
    BY DEF Centres
  <2> QED
    BY <2>1, <2>2, <2>3 DEF Progress, AtCentre
<1>3. CASE Unresolved
  BY <1>3, Leavers, NotReadReading, LeftProgress
<1>4. CASE NoDays
  BY <1>4, Leavers, NotReadReading, NoDaysKinds, LeftProgress
<1>5. CASE GotDays
  <2>1. scan.phase = "days" /\ scan'.phase = "slots" /\ scan'.centre = scan.centre
        /\ UNCHANGED readings
    BY <1>5 DEF GotDays, Answered, TypeOK, Scans
  <2> QED
    BY <2>1 DEF Progress
<1>6. CASE TakeSlots
  <2>1. CASE Stops(client.answer)
    BY <1>6, <2>1, Leavers, TakenOf, ReadingOfType, LeftProgress
  <2>2. CASE ~Stops(client.answer)
    BY <1>6, <2>2, Leavers, TakenOf DEF Progress
  <2> QED
    BY <2>1, <2>2
<1>7. CASE EndOfDates
  BY <1>7, Leavers, ReadingOfType, LeftProgress DEF TypeOK
<1>8. CASE NextRun
  BY <1>8 DEF NextRun, Progress, AtCentre
<1>9. CASE UNCHANGED vars
  BY <1>9 DEF vars, code, Progress
<1> QED
  BY <1>1, <1>2, <1>3, <1>4, <1>5, <1>6, <1>7, <1>8, <1>9 DEF Next, Step

-----------------------------------------------------------------------------
(* A complete reading is whole *)

\* Nothing has been answered yet of what is ahead; and unless a date of the
\* present centre has failed, those taken are the first ones, one by one.
WholeInv ==
    /\ CompleteIsWhole
    /\ \A i \in Centres :
          \/ scan.phase = "departments"
          \/ scan.phase = "days" /\ i >= scan.centre
          \/ scan.phase = "slots" /\ i > scan.centre
          => answered[i] = {}
    /\ scan.phase = "slots" =>
          /\ offered[scan.centre] = scan.dates
          /\ answered[scan.centre] = scan.good
          /\ ~scan.failed => scan.good = 1 .. scan.day

LEMMA LeftWhole ==
  ASSUME TypeOK, WholeInv, scan.phase \in {"days", "slots"},
         NEW reading \in Readings, Leave(reading), UNCHANGED offered,
         \A i \in Centres : i # scan.centre => answered'[i] = answered[i],
         reading.complete => /\ reading.state = 1 .. offered[scan.centre]
                             /\ answered'[scan.centre] = 1 .. offered[scan.centre]
  PROVE  WholeInv'
<1>1. /\ readings'[scan.centre] = reading
      /\ \A i \in Centres : i # scan.centre => readings'[i] = readings[i]
      /\ IF scan.centre = NumCentres
            THEN scan'.phase = "done" /\ scan'.centre = scan.centre
            ELSE scan'.phase = "days" /\ scan'.centre = scan.centre + 1
  BY LeaveIs
<1>2. CompleteIsWhole'
  BY <1>1 DEF WholeInv, CompleteIsWhole
<1>3. ASSUME NEW i \in Centres, scan'.phase = "days", i >= scan'.centre
      PROVE  answered'[i] = {}
  <2>1. scan'.centre = scan.centre + 1 /\ scan.centre \in Nat /\ i \in Nat
    BY <1>1, <1>3 DEF TypeOK, Scans, Centres
  <2>2. i > scan.centre /\ i >= scan.centre /\ i # scan.centre
    BY <1>3, <2>1
  <2> QED
    BY <2>2 DEF WholeInv
<1> QED
  BY <1>1, <1>2, <1>3 DEF WholeInv

LEMMA WholeInductive == TypeOK /\ CallInv /\ Progress /\ WholeInv /\ [Next]_vars => WholeInv'
<1> SUFFICES ASSUME TypeOK, CallInv, Progress, WholeInv, [Next]_vars
             PROVE  WholeInv'
  OBVIOUS
<1>0. scan.centre \in Centres /\ scan \in Scans /\ Centres \subseteq Nat
      /\ answered \in [Centres -> SUBSET Dates] /\ offered \in [Centres -> 0 .. MaxOffered]
  BY DEF TypeOK, Scans, Centres
<1>1. CASE Ask \/ AskSlots \/ AskAgain
  BY <1>1, AskKeeps DEF WholeInv, CompleteIsWhole
<1>2. CASE NoDepartments \/ GotDepartments
  <2>1. scan.phase = "departments" /\ UNCHANGED <<offered, answered>>
    BY <1>2 DEF NoDepartments, GotDepartments, Answered
  <2>2. \/ scan' = AtCentre(1, "days") /\ UNCHANGED readings
        \/ scan' = AtCentre(1, "done") /\ \A i \in Centres : ~readings'[i].complete
    BY <1>2 DEF NoDepartments, GotDepartments, WithoutDepartments, Reading
  <2> QED
    BY <2>1, <2>2 DEF WholeInv, CompleteIsWhole, AtCentre
<1>3. CASE Unresolved
  <2>1. ~Reading(FALSE, {}, {}).complete /\ Reading(FALSE, {}, {}) \in Readings
    BY NotReadReading
  <2> QED
    BY <1>3, <2>1, Leavers, LeftWhole
<1>4. CASE NoDays
  <2> DEFINE reading == Reading(FALSE, IF Ok(client.answer) THEN {} ELSE {client.answer}, {})
  <2>1. ~reading.complete /\ reading \in Readings
    BY <1>4, Leavers, NoDaysKinds, NotReadReading
  <2>2. Leave(reading) /\ scan.phase = "days" /\ UNCHANGED <<offered, answered>>
    BY <1>4, Leavers
  <2> QED
    <3> HIDE DEF reading
    <3> QED
      BY <2>1, <2>2, LeftWhole
<1>5. CASE GotDays
  <2>1. scan.phase = "days" /\ UNCHANGED <<readings, answered>>
    BY <1>5 DEF GotDays, Answered
  <2>2. PICK n \in 0 .. MaxOffered :
           /\ offered' = [offered EXCEPT ![scan.centre] = n]
           /\ scan' = [scan EXCEPT !.phase = "slots", !.dates = n, !.kinds = {"json"}]
    BY <1>5 DEF GotDays
  <2>3. /\ scan'.phase = "slots" /\ scan'.centre = scan.centre /\ scan'.dates = n
        /\ scan'.good = {} /\ scan'.day = 0
    BY <1>0, <2>1, <2>2 DEF CallInv, NothingYet, Scans
  <2>4. offered'[scan.centre] = n /\ \A i \in Centres : i # scan.centre => offered'[i] = offered[i]
    BY <1>0, <2>2
  <2>5. ~readings[scan.centre].complete
    BY <2>1, PresentIsUnread DEF Unread
  <2>6. CompleteIsWhole'
    BY <2>1, <2>4, <2>5 DEF WholeInv, CompleteIsWhole
  <2>7. answered[scan.centre] = {} /\ \A i \in Centres : i > scan.centre => answered[i] = {}
    <3>1. scan.centre \in Nat
      BY <1>0
    <3>2. scan.centre >= scan.centre /\ \A i \in Nat : i > scan.centre => i >= scan.centre
      BY <3>1
    <3> QED
      BY <1>0, <2>1, <3>2 DEF WholeInv
  <2> QED
    BY <2>1, <2>3, <2>4, <2>6, <2>7 DEF WholeInv
<1>6. CASE TakeSlots
  <2>1. /\ scan.phase = "slots" /\ UNCHANGED offered
        /\ answered'[scan.centre] = Taken.good
        /\ \A i \in Centres : i # scan.centre => answered'[i] = answered[i]
    BY <1>0, <1>6, Leavers
  <2>2. Taken \in Scans /\ Taken.dates = scan.dates /\ Taken.day = scan.day + 1
        /\ Taken.centre = scan.centre /\ Taken.phase = "slots"
    BY <1>6, TakenOf
  <2>3. ~Taken.failed => Taken.good = 1 .. Taken.day
    <3>1. Taken.failed = (scan.failed \/ client.answer # "json")
          /\ Taken.good = IF client.answer = "json" THEN scan.good \cup {scan.day + 1}
                          ELSE scan.good
      BY <1>6, TakenOf
    <3>2. scan.day \in Nat /\ (1 .. scan.day) \cup {scan.day + 1} = 1 .. scan.day + 1
      BY <1>0 DEF Scans
    <3> QED
      BY <2>1, <2>2, <3>1, <3>2 DEF WholeInv
  <2>4. CASE Stops(client.answer)
    <3>1. ReadingOf(Taken) \in Readings
          /\ (ReadingOf(Taken).complete => ~Taken.failed /\ Taken.day = Taken.dates
                                           /\ ReadingOf(Taken).state = Taken.good)
      BY <2>2, ReadingOfType
    <3>2. offered[scan.centre] = scan.dates
      BY <2>1 DEF WholeInv
    <3>3. Leave(ReadingOf(Taken))
      BY <1>6, <2>4, Leavers
    <3> QED
      BY <2>1, <2>2, <2>3, <3>1, <3>2, <3>3, LeftWhole
  <2>5. CASE ~Stops(client.answer)
    <3>1. scan' = Taken /\ UNCHANGED readings
      BY <1>6, <2>5, Leavers
    <3>2. ~readings[scan.centre].complete
      BY <2>1, PresentIsUnread DEF Unread
    <3>3. CompleteIsWhole'
      BY <2>1, <3>1, <3>2 DEF WholeInv, CompleteIsWhole
    <3>4. \A i \in Centres : i > scan.centre => i # scan.centre
      BY <1>0
    <3> QED
      BY <2>1, <2>2, <2>3, <3>1, <3>3, <3>4 DEF WholeInv
  <2> QED
    BY <2>4, <2>5
<1>7. CASE EndOfDates
  <2>1. /\ scan.phase = "slots" /\ Leave(ReadingOf(scan)) /\ UNCHANGED <<offered, answered>>
    BY <1>7, Leavers
  <2>2. ReadingOf(scan) \in Readings
        /\ (ReadingOf(scan).complete => ~scan.failed /\ scan.day = scan.dates
                                        /\ ReadingOf(scan).state = scan.good)
    BY <1>0, ReadingOfType
  <2>3. /\ offered[scan.centre] = scan.dates /\ answered[scan.centre] = scan.good
        /\ ~scan.failed => scan.good = 1 .. scan.day
    BY <2>1 DEF WholeInv
  <2> QED
    BY <2>1, <2>2, <2>3, LeftWhole
<1>8. CASE NextRun
  BY <1>8 DEF NextRun, WholeInv, CompleteIsWhole, AtCentre, Unread
<1>9. CASE UNCHANGED vars
  BY <1>9 DEF vars, code, seen, WholeInv, CompleteIsWhole
<1> QED
  BY <1>1, <1>2, <1>3, <1>4, <1>5, <1>6, <1>7, <1>8, <1>9 DEF Next, Step

\* A reading called complete holds the slots of every date HSC offered, each
\* read from an answer that could be read, whatever the answers and the retries
\* were and however many dates the run asked for at most.
THEOREM CompleteReadingsAreWhole == Spec => []CompleteIsWhole
<1>1. Init => Progress /\ WholeInv
  BY DEF Init, Progress, WholeInv, CompleteIsWhole, AtCentre, Unread
<1>2. WholeInv => CompleteIsWhole
  BY DEF WholeInv
<1> QED
  BY <1>1, <1>2, ProgressInductive, WholeInductive, TypeCorrect, PTL DEF Spec

-----------------------------------------------------------------------------
(* The verdict says what was heard *)

\* What is on record of a kind of answer: in a reading, or in the centre that is
\* being read.
OnRecord(kind) == kind \in scan.kinds \/ \E i \in Centres : kind \in readings[i].kinds

\* A refusal and a 429 are on record when they were heard and only then; and
\* while nothing has failed nothing but readable answers was heard.
HeardInv ==
    /\ \A kind \in {"refused", "limited"} : kind \in heard <=> OnRecord(kind)
    /\ scan.phase = "departments" => heard = {}
    /\ /\ scan.phase \in {"days", "slots"} /\ ~scan.failed
       /\ \A i \in Centres : i < scan.centre => readings[i].complete
       => heard = {"json"}
    /\ scan.phase = "done" /\ (\A i \in Centres : readings[i].complete) => heard = {"json"}

LEMMA LeftHeard ==
  ASSUME TypeOK, Progress, HeardInv, scan.phase \in {"days", "slots"},
         NEW reading \in Readings, Leave(reading),
         \A kind \in {"refused", "limited"} :
            kind \in heard' <=> kind \in reading.kinds
                                \/ \E i \in Centres : kind \in readings[i].kinds,
         (\A i \in Centres : i < scan.centre => readings[i].complete) /\ reading.complete =>
            heard' = {"json"}
  PROVE  HeardInv'
<1>1. /\ readings'[scan.centre] = reading
      /\ \A i \in Centres : i # scan.centre => readings'[i] = readings[i]
      /\ scan'.kinds = {} /\ ~scan'.failed
      /\ IF scan.centre = NumCentres
            THEN scan'.phase = "done" /\ scan'.centre = scan.centre
            ELSE scan'.phase = "days" /\ scan'.centre = scan.centre + 1
  BY LeaveIs
<1>2. scan.centre \in Centres /\ \A i \in Centres : i \in Nat
  BY DEF TypeOK, Scans, Centres
<1>3. readings[scan.centre].kinds = {}
  BY PresentIsUnread DEF Unread
<1>4. ASSUME NEW kind \in {"refused", "limited"}
      PROVE  kind \in heard' <=> OnRecord(kind)'
  <2>1. (\E i \in Centres : kind \in readings'[i].kinds) <=>
           kind \in reading.kinds \/ \E i \in Centres : kind \in readings[i].kinds
    BY <1>1, <1>2, <1>3
  <2> QED
    BY <1>1, <2>1 DEF OnRecord
<1>5. \A i \in Centres : i < scan.centre => i # scan.centre /\ i < scan.centre + 1
  BY <1>2
<1>6. scan.centre < scan.centre + 1
  BY <1>2
<1>7. CASE scan.centre = NumCentres
  <2>1. ASSUME \A i \in Centres : readings'[i].complete
        PROVE  heard' = {"json"}
    BY <1>1, <1>2, <1>5, <2>1
  <2> QED
    BY <1>1, <1>4, <1>7, <2>1 DEF HeardInv
<1>8. CASE scan.centre # NumCentres
  <2>1. ASSUME \A i \in Centres : i < scan.centre + 1 => readings'[i].complete
        PROVE  heard' = {"json"}
    BY <1>1, <1>2, <1>5, <1>6, <2>1
  <2> QED
    BY <1>1, <1>4, <1>8, <2>1 DEF HeardInv
<1> QED
  BY <1>7, <1>8

LEMMA HeardInductive == TypeOK /\ CallInv /\ Progress /\ HeardInv /\ [Next]_vars => HeardInv'
<1> SUFFICES ASSUME TypeOK, CallInv, Progress, HeardInv, [Next]_vars
             PROVE  HeardInv'
  OBVIOUS
<1>0. /\ scan.centre \in Centres /\ scan \in Scans /\ \A i \in Centres : i \in Nat
      /\ \A kind \in {"refused", "limited"} : kind \in heard <=> OnRecord(kind)
  BY DEF TypeOK, Scans, Centres, HeardInv
<1>1. CASE Ask \/ AskSlots \/ AskAgain
  BY <1>1, AskKeeps DEF HeardInv, OnRecord
<1>2. CASE NoDepartments \/ GotDepartments
  <2>0. /\ scan.phase = "departments" /\ client.answer \in Answers
        /\ heard' = heard \cup {client.answer}
    <3>1. Answered("departments")
      BY <1>2 DEF NoDepartments, GotDepartments
    <3> QED
      BY <3>1, AnsweredIs
  <2>1. /\ scan.phase = "departments" /\ client.answer \in Answers
        /\ heard' = {client.answer} /\ \A i \in Centres : readings[i].kinds = {}
    BY <2>0 DEF HeardInv, Progress, Unread
  <2>2. 1 \in Centres /\ \A i \in Centres : ~(i < 1)
    BY Values DEF Centres
  <2>3. CASE NoDepartments
    <3>1. /\ scan'.phase = "done" /\ scan'.kinds = {}
          /\ \A i \in Centres : readings'[i] = Reading(FALSE, {client.answer}, {})
      BY <2>3 DEF NoDepartments, AtCentre, WithoutDepartments, KindOf, Ok
    <3> QED
      BY <2>1, <2>2, <3>1 DEF HeardInv, OnRecord, Reading
  <2>4. CASE GotDepartments /\ client.answer = "json"
    <3>1. scan'.phase = "days" /\ scan'.kinds = {} /\ UNCHANGED readings
      BY <2>4 DEF GotDepartments, AtCentre
    <3> QED
      BY <2>1, <2>4, <3>1 DEF HeardInv, OnRecord
  <2>5. CASE GotDepartments /\ client.answer # "json"
    <3>1. /\ scan'.phase = "done" /\ scan'.kinds = {} /\ client.answer = "odd"
          /\ \A i \in Centres : readings'[i] = Reading(FALSE, {}, {})
      <4>1. client.answer = "odd"
        BY <2>5 DEF GotDepartments, Ok
      <4>2. /\ scan' = AtCentre(1, "done")
            /\ readings' = [i \in Centres |-> Reading(FALSE, {}, {})]
        BY <2>5 DEF GotDepartments
      <4> QED
        BY <4>1, <4>2 DEF AtCentre
    <3> QED
      BY <2>1, <2>2, <3>1 DEF HeardInv, OnRecord, Reading
  <2> QED
    BY <1>2, <2>3, <2>4, <2>5
<1>3. CASE Unresolved
  <2>1. /\ scan.phase = "days" /\ Leave(Reading(FALSE, {}, {})) /\ UNCHANGED heard
        /\ scan.kinds = {}
    BY <1>3, Leavers DEF CallInv, NothingYet
  <2>2. /\ Reading(FALSE, {}, {}) \in Readings /\ ~Reading(FALSE, {}, {}).complete
        /\ Reading(FALSE, {}, {}).kinds = {}
    BY NotReadReading
  <2> QED
    BY <1>0, <2>1, <2>2, LeftHeard DEF OnRecord
<1>4. CASE NoDays
  <2> DEFINE ks == IF Ok(client.answer) THEN {} ELSE {client.answer}
             reading == Reading(FALSE, ks, {})
  <2>1. /\ scan.phase = "days" /\ Leave(reading) /\ scan.kinds = {}
        /\ heard' = heard \cup {client.answer}
    BY <1>4, Leavers DEF CallInv, NothingYet
  <2>2. reading \in Readings /\ ~reading.complete /\ reading.kinds = ks
    BY <1>4, Leavers, NoDaysKinds, NotReadReading
  <2>3. \A kind \in {"refused", "limited"} : kind \in ks <=> kind = client.answer
    BY DEF Ok
  <2>4. \A kind \in {"refused", "limited"} :
           kind \in heard' <=> kind \in reading.kinds
                               \/ \E i \in Centres : kind \in readings[i].kinds
    BY <1>0, <2>1, <2>2, <2>3 DEF OnRecord
  <2> QED
    <3> HIDE DEF reading
    <3> QED
      BY <2>1, <2>2, <2>4, LeftHeard
<1>5. CASE GotDays
  <2>1. /\ scan.phase = "days" /\ UNCHANGED readings /\ heard' = heard \cup {"json"}
        /\ scan.kinds = {}
    BY <1>5 DEF GotDays, Answered, CallInv, NothingYet
  <2>2. /\ scan'.phase = "slots" /\ scan'.centre = scan.centre /\ scan'.failed = scan.failed
        /\ scan'.kinds = {"json"}
    BY <1>0, <1>5 DEF GotDays, Scans
  <2> QED
    BY <1>0, <2>1, <2>2 DEF HeardInv, OnRecord
<1>6. CASE TakeSlots
  <2>1. /\ scan.phase = "slots" /\ heard' = heard \cup {client.answer}
    BY <1>6, Leavers
  <2>2. /\ Taken \in Scans /\ Taken.kinds = scan.kinds \cup {KindOf(client.answer)}
        /\ Taken.failed = (scan.failed \/ client.answer # "json")
        /\ Taken.centre = scan.centre /\ Taken.phase = "slots"
    BY <1>6, TakenOf
  <2>3. \A kind \in {"refused", "limited"} : kind = KindOf(client.answer) <=> kind = client.answer
    BY DEF KindOf
  <2>4. \A kind \in {"refused", "limited"} :
           kind \in heard' <=> kind \in Taken.kinds
                               \/ \E i \in Centres : kind \in readings[i].kinds
    BY <1>0, <2>1, <2>2, <2>3 DEF OnRecord
  <2>5. (\A i \in Centres : i < scan.centre => readings[i].complete) /\ ~Taken.failed =>
           heard' = {"json"}
    <3>1. ~Taken.failed => ~scan.failed /\ client.answer = "json"
      BY <2>2
    <3> QED
      BY <2>1, <3>1 DEF HeardInv
  <2>6. CASE Stops(client.answer)
    <3>1. ReadingOf(Taken) \in Readings /\ ReadingOf(Taken).kinds = Taken.kinds
          /\ (ReadingOf(Taken).complete => ~Taken.failed)
      BY <2>2, ReadingOfType
    <3>2. Leave(ReadingOf(Taken))
      BY <1>6, <2>6, Leavers
    <3> QED
      BY <2>1, <2>4, <2>5, <3>1, <3>2, LeftHeard
  <2>7. CASE ~Stops(client.answer)
    <3>1. scan' = Taken /\ UNCHANGED readings
      BY <1>6, <2>7, Leavers
    <3> QED
      BY <2>2, <2>4, <2>5, <3>1 DEF HeardInv, OnRecord
  <2> QED
    BY <2>6, <2>7
<1>7. CASE EndOfDates
  <2>1. /\ scan.phase = "slots" /\ Leave(ReadingOf(scan)) /\ UNCHANGED heard
    BY <1>7, Leavers
  <2>2. ReadingOf(scan) \in Readings /\ ReadingOf(scan).kinds = scan.kinds
        /\ (ReadingOf(scan).complete => ~scan.failed)
    BY <1>0, ReadingOfType
  <2>3. (\A i \in Centres : i < scan.centre => readings[i].complete) /\ ~scan.failed =>
           heard = {"json"}
    BY <2>1 DEF HeardInv
  <2> QED
    BY <1>0, <2>1, <2>2, <2>3, LeftHeard DEF OnRecord
<1>8. CASE NextRun
  BY <1>8 DEF NextRun, HeardInv, OnRecord, AtCentre, Unread
<1>9. CASE UNCHANGED vars
  BY <1>9 DEF vars, code, seen, HeardInv, OnRecord
<1> QED
  BY <1>1, <1>2, <1>3, <1>4, <1>5, <1>6, <1>7, <1>8, <1>9 DEF Next, Step

\* The verdict of a run is what was heard at any level of it: a refusal or a
\* 429 is neither swallowed by what came after it nor made up, and READY means
\* that nothing else than readable answers came.
THEOREM VerdictIsWhatWasHeard == Spec => []VerdictSaysWhatWasHeard
<1>1. Init => Progress /\ HeardInv
  BY DEF Init, Progress, HeardInv, OnRecord, AtCentre, Unread
<1>2. TypeOK /\ CallInv /\ HeardInv => VerdictSaysWhatWasHeard
  <2> SUFFICES ASSUME CallInv, HeardInv, scan.phase = "done"
               PROVE  /\ Verdict(readings) = "AUTH_REQUIRED" <=> "refused" \in heard
                      /\ Verdict(readings) = "RATE_LIMITED" <=>
                            "limited" \in heard /\ "refused" \notin heard
                      /\ Verdict(readings) = "READY" => heard = {"json"}
    BY DEF VerdictSaysWhatWasHeard
  <2>1. scan.kinds = {}
    BY DEF CallInv, NothingYet
  <2>2. \A kind \in {"refused", "limited"} :
           kind \in heard <=> \E i \in Centres : kind \in readings[i].kinds
    BY <2>1 DEF HeardInv, OnRecord
  <2>3. (\A i \in Centres : readings[i].complete) => heard = {"json"}
    BY DEF HeardInv
  <2> QED
    BY <2>2, <2>3 DEF Verdict
<1> QED
  BY <1>1, <1>2, ProgressInductive, HeardInductive, TypeCorrect, PTL DEF Spec

-----------------------------------------------------------------------------
(* Pacing *)

\* The Pacer measures just the time since a date was last asked for the first
\* time, through retries, through the days of the next centre and whatever the
\* order of waits: nothing sets it back or forgets it.
PacerInv == pacer = since.first /\ DatesPaced

LEMMA PacerInductive == TypeOK /\ PacerInv /\ [Next]_vars => PacerInv'
<1> SUFFICES ASSUME TypeOK, PacerInv, [Next]_vars
             PROVE  PacerInv'
  OBVIOUS
<1> USE DEF PacerInv, DatesPaced
<1>1. CASE Ask
  BY <1>1 DEF Ask, LaterBoth
<1>2. CASE AskSlots
  <2>1. pacer' = since'.first
    BY <1>2 DEF AskSlots
  <2>2. spacing'.first = Later(pacer, Interval - pacer)
    BY <1>2 DEF AskSlots, LaterBoth
  <2>3. Later(pacer, Interval - pacer) = Interval
    BY PacingAssumption DEF Later, AtMost, TypeOK, Time
  <2> QED
    BY <2>1, <2>2, <2>3
<1>3. CASE AskAgain
  <2>1. PICK wait \in WaitsFor(client.answer, client.attempt), t \in 0 .. MaxAnswer :
           /\ pacer' = Later(pacer, wait + t)
           /\ since' = IF scan.phase = "slots"
                          THEN [first |-> Later(since.first, wait + t), any |-> Later(0, t)]
                          ELSE LaterBoth(since, wait + t)
    BY <1>3 DEF AskAgain
  <2>2. since'.first = Later(since.first, wait + t)
    BY <2>1 DEF LaterBoth
  <2> QED
    BY <1>3, <2>1, <2>2 DEF AskAgain
<1>4. CASE NoDepartments \/ GotDepartments \/ GotDays
  BY <1>4 DEF NoDepartments, GotDepartments, GotDays, clocks
<1>5. CASE Unresolved \/ NoDays \/ EndOfDates
  BY <1>5 DEF Unresolved, NoDays, EndOfDates, clocks, Leave, SharedPacer
<1>6. CASE TakeSlots
  BY <1>6 DEF TakeSlots, clocks, Leave, SharedPacer
<1>7. CASE NextRun
  BY <1>7 DEF NextRun
<1>8. CASE UNCHANGED vars
  BY <1>8 DEF vars, code, clocks
<1> QED
  BY <1>1, <1>2, <1>3, <1>4, <1>5, <1>6, <1>7, <1>8 DEF Next, Step

\* Two dates are never first asked for closer than the interval, whatever the
\* backoffs and the Retry-After between them and across the border between two
\* centres too.
THEOREM DatesArePaced == Spec => []DatesPaced
<1>1. Init => PacerInv
  BY DEF Init, PacerInv, DatesPaced
<1>2. PacerInv => DatesPaced
  BY DEF PacerInv
<1> QED
  BY <1>1, <1>2, PacerInductive, TypeCorrect, PTL DEF Spec

-----------------------------------------------------------------------------
(* The number of requests *)

\* The most requests, retries apart, that the centres before the i-th take,
\* and that are over when the scan is where it is.
Before(i) == (i - 1) * (1 + MaxOffered)
Over ==
    CASE scan.phase = "departments" -> 0
      [] scan.phase = "days" -> 1 + Before(scan.centre)
      [] scan.phase = "slots" -> 1 + Before(scan.centre) + 1 + scan.day
      [] scan.phase = "done" -> 1 + NumCentres * (1 + MaxOffered)

\* Each request that is over was tried MaxAttempts times at the most, and the
\* present one as often as _get says.
BoundInv == sent <= MaxAttempts * Over + client.attempt /\ (scan.phase = "done" => client.attempt = 0)

LEMMA TimesType == ASSUME NEW m \in Nat, NEW n \in Nat PROVE m * n \in Nat
OBVIOUS

LEMMA OneMore == ASSUME NEW k \in Nat, NEW m \in Nat PROVE (k + 1) * m = k * m + m
OBVIOUS

LEMMA Attempted ==
  ASSUME NEW m \in Nat, NEW k \in Nat, NEW n \in Nat, k <= n
  PROVE  m * k \in Nat /\ m * n \in Nat /\ m * k <= m * n
<1>1. PICK d \in Nat : n = k + d
  <2>1. n - k \in Nat /\ n = k + (n - k)
    OBVIOUS
  <2> QED
    BY <2>1
<1>2. m * k \in Nat /\ m * d \in Nat /\ m * (k + d) = m * k + m * d
  OBVIOUS
<1> QED
  BY <1>1, <1>2

LEMMA BeforeIs ==
  /\ Before(1) = 0
  /\ \A i \in Centres : /\ Before(i) \in Nat
                        /\ Before(i + 1) = Before(i) + 1 + MaxOffered
                        /\ Before(i + 1) = i * (1 + MaxOffered)
<1>1. 1 + MaxOffered \in Nat /\ MaxOffered \in Nat
  BY ScanAssumption
<1>2. Before(1) = 0
  BY <1>1 DEF Before
<1>3. ASSUME NEW i \in Centres
      PROVE  /\ Before(i) \in Nat
             /\ Before(i + 1) = Before(i) + 1 + MaxOffered
             /\ Before(i + 1) = i * (1 + MaxOffered)
  <2>1. i - 1 \in Nat /\ i \in Nat /\ (i + 1) - 1 = i /\ (i - 1) + 1 = i
    BY DEF Centres
  <2>2. (i - 1) * (1 + MaxOffered) \in Nat
    BY <1>1, <2>1, TimesType
  <2>3. i * (1 + MaxOffered) = (i - 1) * (1 + MaxOffered) + (1 + MaxOffered)
    <3> DEFINE k == i - 1
               m == 1 + MaxOffered
    <3>1. (k + 1) * m = k * m + m
      <4> HIDE DEF k, m
      <4> QED
        BY <1>1, <2>1, OneMore DEF k, m
    <3> QED
      BY <2>1, <3>1
  <2> QED
    BY <1>1, <2>1, <2>2, <2>3 DEF Before
<1> QED
  BY <1>2, <1>3

OverIsCount == Over \in Nat

LEMMA OverType == TypeOK => OverIsCount
<1> SUFFICES ASSUME TypeOK PROVE OverIsCount
  OBVIOUS
<1>1. Before(scan.centre) \in Nat /\ scan.day \in Nat /\ scan.phase \in Phases
  BY BeforeIs DEF TypeOK, Scans
<1>2. NumCentres * (1 + MaxOffered) \in Nat
  BY ScanAssumption, TimesType
<1> QED
  BY <1>1, <1>2 DEF OverIsCount, Over, Phases

\* What a request took is paid for by its being over.
LEMMA Paid ==
  ASSUME NEW s \in Nat, NEW m \in Nat, NEW a \in 0 .. m, NEW k \in Nat, NEW n \in Nat,
         s <= m * k + a, k + 1 <= n \/ (a = 0 /\ k <= n)
  PROVE  s <= m * n
<1>1. CASE k + 1 <= n
  <2>1. m * (k + 1) <= m * n /\ m * n \in Nat
    <3>1. k + 1 \in Nat
      OBVIOUS
    <3> QED
      BY <1>1, <3>1, Attempted
  <2>2. m * (k + 1) = m * k + m /\ m * k \in Nat
    OBVIOUS
  <2>3. s <= m * k + m
    BY <2>2
  <2> QED
    BY <2>1, <2>2, <2>3
<1>2. CASE a = 0 /\ k <= n
  <2>1. m * k <= m * n /\ m * k \in Nat /\ m * n \in Nat
    BY <1>2, Attempted
  <2> QED
    BY <1>2, <2>1
<1> QED
  BY <1>1, <1>2

\* A final answer, and the end of a centre, are paid for by what is over.
LEMMA Settled ==
  ASSUME TypeOK, TypeOK', BoundInv, client'.attempt = 0, UNCHANGED sent,
         \/ Over + 1 <= Over'
         \/ client.attempt = 0 /\ Over <= Over'
  PROVE  BoundInv'
<1>1. /\ MaxAttempts \in Nat /\ sent \in Nat /\ sent' = sent
      /\ client.attempt \in 0 .. MaxAttempts
  BY RetryAssumption DEF TypeOK, Calls
<1>2. OverIsCount /\ OverIsCount'
  <2>1. TypeOK' => OverIsCount'
    BY OverType, PTL
  <2> QED
    BY <2>1, OverType
<1>3. sent <= MaxAttempts * Over + client.attempt
  BY DEF BoundInv
<1> DEFINE k == Over
           n == Over'
<1>4. /\ k \in Nat /\ n \in Nat /\ sent <= MaxAttempts * k + client.attempt
      /\ k + 1 <= n \/ (client.attempt = 0 /\ k <= n)
  BY <1>2, <1>3 DEF OverIsCount
<1>5. sent <= MaxAttempts * n /\ MaxAttempts * n \in Nat
  <2> HIDE DEF k, n
  <2> QED
    BY <1>1, <1>4, Paid, TimesType
<1>6. sent <= MaxAttempts * n + 0
  <2> HIDE DEF n
  <2> QED
    BY <1>1, <1>5
<1> QED
  BY <1>1, <1>6 DEF BoundInv

\* A centre that is left has taken no more than its share.
LEMMA LeftOver ==
  ASSUME TypeOK, NEW reading \in Readings, Leave(reading)
  PROVE  Over' = 1 + Before(scan.centre) + 1 + MaxOffered
<1>1. scan.centre \in Centres
  BY DEF TypeOK, Scans
<1>2. IF scan.centre = NumCentres
         THEN scan'.phase = "done" /\ scan'.centre = scan.centre
         ELSE scan'.phase = "days" /\ scan'.centre = scan.centre + 1
  BY LeaveIs
<1>3. /\ Before(scan.centre) \in Nat
      /\ Before(scan.centre + 1) = Before(scan.centre) + 1 + MaxOffered
      /\ Before(scan.centre + 1) = scan.centre * (1 + MaxOffered)
  BY <1>1, BeforeIs
<1>4. MaxOffered \in Nat
  BY ScanAssumption
<1>5. CASE scan.centre = NumCentres
  <2>1. Over' = 1 + NumCentres * (1 + MaxOffered)
    BY <1>2, <1>5 DEF Over
  <2> QED
    BY <1>3, <1>4, <1>5, <2>1
<1>6. CASE scan.centre # NumCentres
  <2>1. Over' = 1 + Before(scan.centre + 1)
    BY <1>2, <1>6 DEF Over, Before
  <2> QED
    BY <1>3, <1>4, <2>1
<1> QED
  BY <1>5, <1>6

LEMMA Asked ==
  ASSUME TypeOK, BoundInv, Count, UNCHANGED scan,
         client'.attempt = client.attempt + 1, scan.phase # "done"
  PROVE  BoundInv'
<1>1. sent' <= sent + 1 /\ sent \in Nat /\ sent' \in Nat
  BY BudgetType, CountType DEF Count, AtMost, TypeOK
<1>2. Over' = Over /\ MaxAttempts * Over \in Nat /\ client.attempt \in Nat
  <2>1. Over' = Over
    BY DEF Over
  <2>2. MaxAttempts * Over \in Nat
    BY OverType, RetryAssumption, TimesType DEF OverIsCount
  <2> QED
    BY <2>1, <2>2 DEF TypeOK, Calls
<1> QED
  BY <1>1, <1>2 DEF BoundInv

LEMMA BoundInductive ==
  TypeOK /\ TypeOK' /\ CallInv /\ BoundInv /\ [Next]_vars => BoundInv'
<1> SUFFICES ASSUME TypeOK, TypeOK', CallInv, BoundInv, [Next]_vars
             PROVE  BoundInv'
  OBVIOUS
<1>0. /\ scan.centre \in Centres /\ scan \in Scans /\ scan.day \in Nat /\ MaxOffered \in Nat
      /\ Before(scan.centre) \in Nat /\ scan.dates <= MaxOffered /\ scan.dates \in Nat
      /\ scan.day <= scan.dates
  BY BeforeIs, ScanAssumption DEF TypeOK, Scans
<1>1. CASE Ask
  <2>1. client.attempt = 0 /\ client'.attempt = 1 /\ Count /\ UNCHANGED scan
        /\ scan.phase # "done"
    BY <1>1 DEF Ask
  <2> QED
    BY <2>1, Asked
<1>2. CASE AskSlots
  <2>1. client.attempt = 0 /\ client'.attempt = 1 /\ Count /\ UNCHANGED scan
        /\ scan.phase # "done"
    BY <1>2 DEF AskSlots
  <2> QED
    BY <2>1, Asked
<1>3. CASE AskAgain
  <2>1. client'.attempt = client.attempt + 1 /\ Count /\ UNCHANGED scan /\ client.attempt > 0
    BY <1>3 DEF AskAgain, NextAttempt
  <2>2. scan.phase # "done"
    BY <2>1 DEF BoundInv
  <2> QED
    BY <2>1, <2>2, Asked
<1>4. CASE NoDepartments \/ GotDepartments
  <2>1. scan.phase = "departments" /\ client' = NoCall /\ UNCHANGED sent
    BY <1>4 DEF NoDepartments, GotDepartments, Answered
  <2>2. scan' = AtCentre(1, "days") \/ scan' = AtCentre(1, "done")
    BY <1>4 DEF NoDepartments, GotDepartments
  <2>3. Over = 0
    BY <2>1 DEF Over
  <2>4. Over' >= 1
    <3>1. CASE scan' = AtCentre(1, "days")
      <4>1. Over' = 1 + Before(1)
        BY <3>1 DEF Over, AtCentre, Before
      <4> QED
        BY <4>1, BeforeIs
    <3>2. CASE scan' = AtCentre(1, "done")
      <4>1. Over' = 1 + NumCentres * (1 + MaxOffered)
        BY <3>2 DEF Over, AtCentre
      <4>2. NumCentres * (1 + MaxOffered) \in Nat
        BY ScanAssumption, TimesType
      <4> QED
        BY <4>1, <4>2
    <3> QED
      BY <2>2, <3>1, <3>2
  <2>5. client'.attempt = 0 /\ Over + 1 <= Over'
    BY <2>1, <2>3, <2>4 DEF NoCall
  <2> QED
    BY <2>1, <2>5, Settled
<1>5. CASE Unresolved
  <2>1. /\ scan.phase = "days" /\ Leave(Reading(FALSE, {}, {}))
        /\ client.attempt = 0 /\ client'.attempt = 0 /\ UNCHANGED sent
    BY <1>5 DEF Unresolved
  <2>2. Over' = 1 + Before(scan.centre) + 1 + MaxOffered
    BY <2>1, NotReadReading, LeftOver
  <2>3. Over = 1 + Before(scan.centre)
    BY <2>1 DEF Over
  <2>4. Over <= Over'
    BY <1>0, <2>2, <2>3
  <2> QED
    BY <2>1, <2>4, Settled
<1>6. CASE NoDays
  <2> DEFINE reading == Reading(FALSE, IF Ok(client.answer) THEN {} ELSE {client.answer}, {})
  <2>1. scan.phase = "days" /\ Leave(reading) /\ reading \in Readings
    BY <1>6, Leavers, NoDaysKinds, NotReadReading
  <2>2. client'.attempt = 0 /\ UNCHANGED sent
    BY <1>6 DEF NoDays, Answered, NoCall
  <2> HIDE DEF reading
  <2>3. Over' = 1 + Before(scan.centre) + 1 + MaxOffered
    BY <2>1, LeftOver
  <2>4. Over = 1 + Before(scan.centre)
    BY <2>1 DEF Over
  <2>5. Over + 1 <= Over'
    BY <1>0, <2>3, <2>4
  <2> QED
    BY <2>2, <2>5, Settled
<1>7. CASE GotDays
  <2>1. /\ scan.phase = "days" /\ client'.attempt = 0 /\ UNCHANGED sent
        /\ scan'.phase = "slots" /\ scan'.centre = scan.centre /\ scan'.day = scan.day
    BY <1>0, <1>7 DEF GotDays, Answered, NoCall, Scans
  <2>2. Over = 1 + Before(scan.centre) /\ Over' = 1 + Before(scan.centre) + 1 + scan.day
    BY <2>1 DEF Over, Before
  <2>3. Over + 1 <= Over'
    BY <1>0, <2>2
  <2> QED
    BY <2>1, <2>3, Settled
<1>8. CASE TakeSlots
  <2>1. scan.phase = "slots" /\ client'.attempt = 0 /\ UNCHANGED sent
    BY <1>8 DEF TakeSlots, Answered, NoCall
  <2>2. /\ Taken \in Scans /\ Taken.day = scan.day + 1 /\ Taken.day <= Taken.dates
        /\ Taken.phase = "slots" /\ Taken.centre = scan.centre /\ Taken.dates = scan.dates
    BY <1>8, TakenOf
  <2>3. Over = 1 + Before(scan.centre) + 1 + scan.day
    BY <2>1 DEF Over
  <2>4. Over + 1 <= Over'
    <3>1. CASE Stops(client.answer)
      <4>1. Leave(ReadingOf(Taken)) /\ ReadingOf(Taken) \in Readings
        BY <1>8, <2>2, <3>1, Leavers, ReadingOfType
      <4>2. Over' = 1 + Before(scan.centre) + 1 + MaxOffered
        BY <4>1, LeftOver
      <4> QED
        BY <1>0, <2>2, <2>3, <4>2
    <3>2. CASE ~Stops(client.answer)
      <4>1. scan' = Taken
        BY <1>8, <3>2, Leavers
      <4>2. Over' = 1 + Before(scan.centre) + 1 + Taken.day
        BY <2>2, <4>1 DEF Over, Before
      <4> QED
        BY <1>0, <2>2, <2>3, <4>2
    <3> QED
      BY <3>1, <3>2
  <2> QED
    BY <2>1, <2>4, Settled
<1>9. CASE EndOfDates
  <2>1. /\ scan.phase = "slots" /\ Leave(ReadingOf(scan)) /\ client.attempt = 0
        /\ client'.attempt = 0 /\ UNCHANGED sent
    BY <1>9 DEF EndOfDates
  <2>2. Over' = 1 + Before(scan.centre) + 1 + MaxOffered
    BY <1>0, <2>1, ReadingOfType, LeftOver
  <2>3. Over = 1 + Before(scan.centre) + 1 + scan.day
    BY <2>1 DEF Over
  <2>4. Over <= Over'
    BY <1>0, <2>2, <2>3
  <2> QED
    BY <2>1, <2>4, Settled
<1>10. CASE NextRun
  <2>1. sent' = 0 /\ client'.attempt = 0 /\ scan'.phase = "departments"
    BY <1>10 DEF NextRun, NoCall, AtCentre
  <2>2. Over' = 0
    BY <2>1 DEF Over
  <2> QED
    BY <2>1, <2>2, RetryAssumption DEF BoundInv
<1>11. CASE UNCHANGED vars
  BY <1>11 DEF vars, code, BoundInv, Over, Before
<1> QED
  BY <1>1, <1>2, <1>3, <1>4, <1>5, <1>6, <1>7, <1>8, <1>9, <1>10, <1>11 DEF Next, Step

LEMMA OverWithin ==
  ASSUME TypeOK, CallInv, BoundInv
  PROVE  /\ Over <= 1 + NumCentres * (1 + MaxOffered)
         /\ client.attempt > 0 => Over + 1 <= 1 + NumCentres * (1 + MaxOffered)
<1>1. /\ scan.centre \in Centres /\ scan.centre \in Nat /\ scan.centre <= NumCentres
      /\ scan.day \in Nat /\ scan.dates \in Nat /\ scan.day <= scan.dates
      /\ scan.dates <= MaxOffered /\ scan.phase \in Phases
      /\ MaxOffered \in Nat /\ NumCentres \in Nat /\ 1 + MaxOffered \in Nat
  BY ScanAssumption DEF TypeOK, Scans, Centres
<1>2. /\ Before(scan.centre) \in Nat
      /\ Before(scan.centre) + 1 + MaxOffered = scan.centre * (1 + MaxOffered)
  BY <1>1, BeforeIs
<1>3. (1 + MaxOffered) * scan.centre <= (1 + MaxOffered) * NumCentres
  BY <1>1, Attempted
<1>4. /\ (1 + MaxOffered) * scan.centre = scan.centre * (1 + MaxOffered)
      /\ (1 + MaxOffered) * NumCentres = NumCentres * (1 + MaxOffered)
      /\ NumCentres * (1 + MaxOffered) \in Nat
  BY <1>1
<1> DEFINE rest == NumCentres * (1 + MaxOffered)
<1>5. Before(scan.centre) + 1 + MaxOffered <= rest /\ rest \in Nat
  BY <1>2, <1>3, <1>4
<1> HIDE DEF rest
<1>6. CASE scan.phase = "departments"
  <2>1. Over = 0
    BY <1>6 DEF Over
  <2> QED
    BY <1>5, <2>1 DEF rest
<1>7. CASE scan.phase = "days"
  <2>1. Over = 1 + Before(scan.centre)
    BY <1>7 DEF Over
  <2>2. Over + 1 <= 1 + rest /\ Over <= 1 + rest
    BY <1>1, <1>2, <1>5, <2>1
  <2> QED
    BY <2>2 DEF rest
<1>8. CASE scan.phase = "slots"
  <2>1. Over = 1 + Before(scan.centre) + 1 + scan.day
    BY <1>8 DEF Over
  <2>2. client.attempt > 0 => scan.day < scan.dates
    BY <1>8 DEF CallInv, AskedIsOffered
  <2>3. Over <= 1 + rest /\ (client.attempt > 0 => Over + 1 <= 1 + rest)
    BY <1>1, <1>2, <1>5, <2>1, <2>2
  <2> QED
    BY <2>3 DEF rest
<1>9. CASE scan.phase = "done"
  <2>1. Over = 1 + rest /\ client.attempt = 0
    BY <1>9 DEF Over, BoundInv, rest
  <2> QED
    BY <1>5, <2>1 DEF rest
<1> QED
  BY <1>1, <1>6, <1>7, <1>8, <1>9 DEF Phases

\* However HSC answers, a scan puts no more requests on the wire than one for
\* the departments and, for each centre, one for its days and one for each of
\* its dates, each tried as often as the retry policy says and no more.
THEOREM RequestsAreBounded == Spec => []ScanBounded
<1>1. Init => BoundInv
  <2> SUFFICES ASSUME Init PROVE BoundInv
    OBVIOUS
  <2>1. sent = 0 /\ client.attempt = 0 /\ Over = 0 /\ scan.phase = "departments"
    BY DEF Init, NoCall, AtCentre, Over
  <2> QED
    BY <2>1, RetryAssumption DEF BoundInv
<1>2. TypeOK /\ CallInv /\ BoundInv => ScanBounded
  <2> SUFFICES ASSUME TypeOK, CallInv, BoundInv PROVE sent <= Budget
    BY DEF ScanBounded
  <2> DEFINE all == 1 + NumCentres * (1 + MaxOffered)
  <2>1. /\ Over \in Nat /\ all \in Nat /\ MaxAttempts \in Nat
        /\ client.attempt \in 0 .. MaxAttempts /\ sent \in Nat
    BY OverType, ScanAssumption, RetryAssumption, TimesType DEF TypeOK, Calls, OverIsCount
  <2>2. Budget = MaxAttempts * all
    BY DEF Budget
  <2>3. Over <= all /\ (client.attempt > 0 => Over + 1 <= all)
    BY OverWithin
  <2> HIDE DEF all
  <2>4. CASE client.attempt = 0
    <3>1. MaxAttempts * Over <= MaxAttempts * all /\ MaxAttempts * Over \in Nat
          /\ MaxAttempts * all \in Nat
      BY <2>1, <2>3, Attempted
    <3> QED
      BY <2>1, <2>2, <2>4, <3>1 DEF BoundInv
  <2>5. CASE client.attempt > 0
    <3>1. MaxAttempts * (Over + 1) <= MaxAttempts * all /\ MaxAttempts * all \in Nat
      BY <2>1, <2>3, <2>5, Attempted
    <3>2. MaxAttempts * (Over + 1) = MaxAttempts * Over + MaxAttempts /\ MaxAttempts * Over \in Nat
      BY <2>1
    <3> QED
      BY <2>1, <2>2, <3>1, <3>2 DEF BoundInv
  <2> QED
    BY <2>1, <2>4, <2>5
<1> QED
  BY <1>1, <1>2, BoundInductive, TypeCorrect, PTL DEF Spec

-----------------------------------------------------------------------------
(* The scan is the reading loop it promises to be *)

\* What the caller sees of a scan: the refinement mapping, part by part.
Stage == IF scan.phase \in {"days", "slots"} THEN "reading" ELSE scan.phase
Todo == IF scan.phase \in {"days", "slots"} THEN {i \in Centres : ~readings[i].read} ELSE {}
Whole == {i \in Centres : readings[i].complete}
Why == UNION {EvidenceOf(readings[i]) : i \in Centres}

LEMMA EvidenceIs ==
  /\ EvidenceOf(Unread) = {}
  /\ \A r \in Readings : r.complete => EvidenceOf(r) = {}
  /\ \A r \in Readings : r.read /\ ~r.complete =>
        EvidenceOf(r) \in (SUBSET Reads!Kinds) \ {{}}
  /\ EvidenceOf(Reading(FALSE, {}, {})) = {"other"}
  /\ \A answer \in Answers : \E kind \in Reads!Kinds :
        EvidenceOf(Reading(FALSE, {KindOf(answer)}, {})) = {kind}
<1>1. EvidenceOf(Unread) = {} /\ \A r \in Readings : r.complete => EvidenceOf(r) = {}
  BY DEF EvidenceOf, Unread
<1>2. ASSUME NEW r \in Readings, r.read, ~r.complete
      PROVE  EvidenceOf(r) \in (SUBSET Reads!Kinds) \ {{}}
  <2>1. CASE r.kinds \cap {"refused", "limited"} = {}
    BY <1>2, <2>1 DEF EvidenceOf, Reads!Kinds
  <2>2. CASE r.kinds \cap {"refused", "limited"} # {}
    BY <1>2, <2>2 DEF EvidenceOf, Reads!Kinds
  <2> QED
    BY <2>1, <2>2
<1>3. EvidenceOf(Reading(FALSE, {}, {})) = {"other"}
  BY DEF EvidenceOf, Reading
<1>4. ASSUME NEW answer \in Answers
      PROVE  \E kind \in Reads!Kinds : EvidenceOf(Reading(FALSE, {KindOf(answer)}, {})) = {kind}
  <2>1. CASE answer = "refused"
    <3>1. EvidenceOf(Reading(FALSE, {KindOf(answer)}, {})) = {"auth"}
      BY <2>1 DEF EvidenceOf, Reading, KindOf
    <3> QED
      BY <3>1 DEF Reads!Kinds
  <2>2. CASE answer = "limited"
    <3>1. EvidenceOf(Reading(FALSE, {KindOf(answer)}, {})) = {"limited"}
      BY <2>2 DEF EvidenceOf, Reading, KindOf
    <3> QED
      BY <3>1 DEF Reads!Kinds
  <2>3. CASE answer \notin {"refused", "limited"}
    <3>1. EvidenceOf(Reading(FALSE, {KindOf(answer)}, {})) = {"other"}
      BY <2>3 DEF EvidenceOf, Reading, KindOf
    <3> QED
      BY <3>1 DEF Reads!Kinds
  <2> QED
    BY <2>1, <2>2, <2>3
<1> QED
  BY <1>1, <1>2, <1>3, <1>4

LEMMA WhyIs == \A kind : kind \in Why <=> \E i \in Centres : kind \in EvidenceOf(readings[i])
BY DEF Why

\* Reading a centre to its end, whichever end that is, is one step of the loop.
LEMMA LeftRefines ==
  ASSUME TypeOK, Progress, scan.phase \in {"days", "slots"},
         NEW reading \in Readings, reading.read, Leave(reading)
  PROVE  Reads!ReadCentre
<1>1. /\ readings'[scan.centre] = reading
      /\ \A i \in Centres : i # scan.centre => readings'[i] = readings[i]
      /\ IF scan.centre = NumCentres
            THEN scan'.phase = "done" /\ scan'.centre = scan.centre
            ELSE scan'.phase = "days" /\ scan'.centre = scan.centre + 1
  BY LeaveIs
<1>2. /\ scan.centre \in Centres /\ scan.centre \in Nat
      /\ \A i \in Centres : i \in Nat /\ 1 <= i /\ i <= NumCentres
  BY ScanAssumption DEF TypeOK, Scans, Centres
<1>3. readings[scan.centre] = Unread
  BY PresentIsUnread
<1>4. \A i \in Centres : IF i < scan.centre THEN readings[i].read ELSE readings[i] = Unread
  BY DEF Progress
<1>5. ~Unread.read /\ ~Unread.complete
  BY DEF Unread
<1>6. Stage = "reading" /\ scan.centre \in Todo
  BY <1>2, <1>3, <1>5 DEF Stage, Todo
<1>7. Todo' = Todo \ {scan.centre} /\ Stage' = IF Todo' = {} THEN "done" ELSE "reading"
  <2>1. CASE scan.centre = NumCentres
    <3>1. \A i \in Centres : i # scan.centre => readings[i].read
      BY <1>2, <1>4, <2>1
    <3>2. Todo \ {scan.centre} = {}
      BY <1>6, <3>1 DEF Todo, Stage
    <3>3. Todo' = {} /\ Stage' = "done"
      BY <1>1, <2>1 DEF Todo, Stage
    <3> QED
      BY <3>2, <3>3
  <2>2. CASE scan.centre # NumCentres
    <3>1. scan'.phase = "days"
      BY <1>1, <2>2
    <3>2. Todo' = {i \in Centres : ~readings'[i].read} /\ Stage' = "reading"
      BY <3>1 DEF Todo, Stage
    <3>3. Todo = {i \in Centres : ~readings[i].read}
      BY DEF Todo
    <3>4. Todo' = Todo \ {scan.centre}
      BY <1>1, <1>2, <3>2, <3>3
    <3>5. scan.centre + 1 \in Centres /\ ~(scan.centre + 1 < scan.centre)
          /\ scan.centre + 1 # scan.centre
      BY <1>2, <2>2, ScanAssumption DEF Centres
    <3>6. scan.centre + 1 \in Todo'
      BY <1>1, <1>4, <1>5, <3>2, <3>5
    <3> QED
      BY <3>2, <3>4, <3>6
  <2> QED
    BY <2>1, <2>2
<1>8. \A kind : kind \in Why' <=> kind \in Why \/ kind \in EvidenceOf(reading)
  <2>1. \A kind : kind \in Why' <=> \E i \in Centres : kind \in EvidenceOf(readings'[i])
    BY DEF Why
  <2>2. EvidenceOf(readings[scan.centre]) = {}
    BY <1>3, EvidenceIs
  <2> QED
    BY <1>1, <1>2, <2>1, <2>2, WhyIs
<1>9. Why' = Why \cup EvidenceOf(reading)
  BY <1>8
<1>10. \/ Whole' = Whole \cup {scan.centre} /\ Why' = Why
       \/ /\ \E why \in (SUBSET Reads!Kinds) \ {{}} : Why' = Why \cup why
          /\ Whole' = Whole
  <2>1. CASE reading.complete
    <3>1. Whole' = Whole \cup {scan.centre}
      BY <1>1, <1>2, <2>1 DEF Whole
    <3>2. EvidenceOf(reading) = {}
      BY <2>1, EvidenceIs
    <3> QED
      BY <1>9, <3>1, <3>2
  <2>2. CASE ~reading.complete
    <3>1. Whole' = Whole
      BY <1>1, <1>2, <1>3, <1>5, <2>2 DEF Whole
    <3>2. EvidenceOf(reading) \in (SUBSET Reads!Kinds) \ {{}}
      BY <2>2, EvidenceIs
    <3> QED
      BY <1>9, <3>1, <3>2
  <2> QED
    BY <2>1, <2>2
<1> QED
  BY <1>6, <1>7, <1>10 DEF Reads!ReadCentre, Stage, Todo, Whole, Why

\* Whatever ends a scan before its first centre ends the loop with one reason.
LEMMA NoneRefines ==
  ASSUME Progress, scan.phase = "departments", scan'.phase = "done",
         NEW reading \in Readings, ~reading.complete,
         NEW kind \in Reads!Kinds, EvidenceOf(reading) = {kind},
         \A i \in Centres : readings'[i] = reading
  PROVE  Reads!NoDepartments
<1>1. 1 \in Centres /\ \A i \in Centres : readings[i] = Unread /\ ~Unread.complete
  BY Values DEF Progress, Unread
<1>2. Stage = "departments" /\ Stage' = "done" /\ Todo' = Todo
  BY DEF Stage, Todo
<1>3. Whole' = Whole
  BY <1>1 DEF Whole
<1>4. Why' = {kind}
  <2>1. \A k : k \in Why' <=> \E i \in Centres : k \in EvidenceOf(readings'[i])
    BY DEF Why
  <2>2. \A k : k \in Why' <=> k \in {kind}
    BY <1>1, <2>1
  <2> QED
    BY <2>2
<1> QED
  BY <1>2, <1>3, <1>4 DEF Reads!NoDepartments, Stage, Todo, Whole, Why

\* A step that leaves no centre is none the caller can see.
LEMMA StutterRefines ==
  ASSUME Stage' = Stage, scan'.phase \in {"days", "slots"} <=> scan.phase \in {"days", "slots"},
         UNCHANGED readings
  PROVE  UNCHANGED Reads!vars
BY DEF Stage, Reads!vars

\* A scan starts with nothing read.
LEMMA FreshRefines == Fresh => Stage = "departments" /\ Todo = {} /\ Whole = {} /\ Why = {}
<1> SUFFICES ASSUME Fresh PROVE Stage = "departments" /\ Todo = {} /\ Whole = {} /\ Why = {}
  OBVIOUS
<1>1. scan.phase = "departments" /\ \A i \in Centres : readings[i] = Unread
  BY DEF Fresh, AtCentre
<1>2. Whole = {}
  BY <1>1 DEF Whole, Unread
<1>3. \A kind : kind \notin Why
  BY <1>1, WhyIs, EvidenceIs
<1> QED
  BY <1>1, <1>2, <1>3 DEF Stage, Todo

LEMMA StepRefines ==
  TypeOK /\ CallInv /\ Progress /\ [Next]_vars => [Reads!Next]_Reads!vars
<1> SUFFICES ASSUME TypeOK, CallInv, Progress, [Next]_vars
             PROVE  Reads!Next \/ UNCHANGED Reads!vars
  OBVIOUS
<1>0. scan \in Scans
  BY DEF TypeOK
<1>1. CASE Ask \/ AskSlots \/ AskAgain
  <2>1. UNCHANGED <<scan, readings>>
    BY <1>1, AskKeeps
  <2> QED
    BY <2>1, StutterRefines DEF Stage
<1>2. CASE NoDepartments \/ GotDepartments
  <2>1. scan.phase = "departments" /\ client.answer \in Answers
    <3>1. Answered("departments")
      BY <1>2 DEF NoDepartments, GotDepartments
    <3> QED
      BY <3>1, AnsweredIs
  <2>2. CASE NoDepartments
    <3> DEFINE reading == Reading(FALSE, {KindOf(client.answer)}, {})
    <3>1. scan'.phase = "done" /\ \A i \in Centres : readings'[i] = reading
      BY <2>2 DEF NoDepartments, AtCentre, WithoutDepartments
    <3>2. {KindOf(client.answer)} \in SUBSET Answers
      BY <2>1 DEF KindOf, Answers
    <3>3. reading \in Readings /\ ~reading.complete
      BY <3>2, NotReadReading
    <3>4. PICK kind \in Reads!Kinds : EvidenceOf(reading) = {kind}
      BY <2>1, EvidenceIs
    <3>5. Reads!NoDepartments
      <4> HIDE DEF reading
      <4> QED
        BY <2>1, <3>1, <3>3, <3>4, NoneRefines
    <3> QED
      BY <3>5 DEF Reads!Next
  <2>3. CASE GotDepartments /\ client.answer # "json"
    <3>1. /\ scan' = AtCentre(1, "done")
          /\ readings' = [i \in Centres |-> Reading(FALSE, {}, {})]
      BY <2>3 DEF GotDepartments
    <3>2. scan'.phase = "done" /\ \A i \in Centres : readings'[i] = Reading(FALSE, {}, {})
      BY <3>1 DEF AtCentre
    <3>3. /\ Reading(FALSE, {}, {}) \in Readings /\ ~Reading(FALSE, {}, {}).complete
          /\ "other" \in Reads!Kinds /\ EvidenceOf(Reading(FALSE, {}, {})) = {"other"}
      BY NotReadReading, EvidenceIs DEF Reads!Kinds
    <3>4. Reads!NoDepartments
      BY <2>1, <3>2, <3>3, NoneRefines
    <3> QED
      BY <3>4 DEF Reads!Next
  <2>4. CASE GotDepartments /\ client.answer = "json"
    <3>1. scan' = AtCentre(1, "days") /\ UNCHANGED readings
      BY <2>4 DEF GotDepartments
    <3>2. \A i \in Centres : readings[i] = Unread /\ ~Unread.read
      BY <2>1 DEF Progress, Unread
    <3>3. Stage = "departments" /\ Stage' = "reading" /\ Todo' = Centres
      BY <2>1, <3>1, <3>2 DEF Stage, Todo, AtCentre
    <3>4. Whole' = Whole /\ Why' = Why
      BY <3>1 DEF Whole, Why
    <3>5. Reads!Departments
      BY <3>3, <3>4 DEF Reads!Departments, Stage, Todo, Whole, Why
    <3> QED
      BY <3>5 DEF Reads!Next
  <2> QED
    BY <1>2, <2>2, <2>3, <2>4
<1>3. CASE Unresolved
  <2>1. Reads!ReadCentre
    BY <1>3, Leavers, NotReadReading, LeftRefines
  <2> QED
    BY <2>1 DEF Reads!Next
<1>4. CASE NoDays
  <2>1. Reads!ReadCentre
    BY <1>4, Leavers, NotReadReading, NoDaysKinds, LeftRefines
  <2> QED
    BY <2>1 DEF Reads!Next
<1>5. CASE GotDays
  <2>1. scan.phase = "days" /\ scan'.phase = "slots" /\ UNCHANGED readings
    BY <1>0, <1>5 DEF GotDays, Answered, Scans
  <2> QED
    BY <2>1, StutterRefines DEF Stage
<1>6. CASE TakeSlots
  <2>1. CASE Stops(client.answer)
    <3>1. Reads!ReadCentre
      BY <1>6, <2>1, Leavers, TakenOf, ReadingOfType, LeftRefines
    <3> QED
      BY <3>1 DEF Reads!Next
  <2>2. CASE ~Stops(client.answer)
    <3>1. scan' = Taken /\ UNCHANGED readings /\ scan.phase = "slots" /\ Taken.phase = "slots"
      BY <1>6, <2>2, Leavers, TakenOf
    <3> QED
      BY <3>1, StutterRefines DEF Stage
  <2> QED
    BY <2>1, <2>2
<1>7. CASE EndOfDates
  <2>1. Reads!ReadCentre
    BY <1>0, <1>7, Leavers, ReadingOfType, LeftRefines
  <2> QED
    BY <2>1 DEF Reads!Next
<1>8. CASE NextRun
  <2>1. Fresh'
    BY <1>8, FreshRuns
  <2>2. Fresh' => (Stage = "departments" /\ Todo = {} /\ Whole = {} /\ Why = {})'
    BY FreshRefines, PTL
  <2>3. Stage' = "departments" /\ Todo' = {} /\ Whole' = {} /\ Why' = {}
    BY <2>1, <2>2
  <2>4. Stage = "done"
    BY <1>8 DEF NextRun, Stage
  <2>5. Reads!NextRun
    BY <2>3, <2>4 DEF Reads!NextRun, Stage, Todo, Whole, Why
  <2> QED
    BY <2>5 DEF Reads!Next
<1>9. CASE UNCHANGED vars
  <2>1. UNCHANGED <<scan, readings>>
    BY <1>9 DEF vars, code
  <2> QED
    BY <2>1, StutterRefines DEF Stage
<1> QED
  BY <1>1, <1>2, <1>3, <1>4, <1>5, <1>6, <1>7, <1>8, <1>9 DEF Next, Step

\* The scan, with its retries, its pacing and its early ends, is the reading
\* loop HeadlessMonitor is modelled with: every centre is read once and leaves
\* either its state or a reason, for every number of centres and dates.
THEOREM ReadsTheCentres == Spec => Reads!Spec
<1>1. Init => Reads!Init
  <2> SUFFICES ASSUME Init PROVE Reads!Init
    OBVIOUS
  <2>1. Stage = "departments" /\ Todo = {} /\ Whole = {} /\ Why = {}
    BY FreshRuns, FreshRefines
  <2> QED
    BY <2>1 DEF Reads!Init, Stage, Todo, Whole, Why
<1>2. Init => Progress
  BY DEF Init, Progress, AtCentre
<1> QED
  BY <1>1, <1>2, StepRefines, ProgressInductive, TypeCorrect, PTL DEF Spec, Reads!Spec

=============================================================================

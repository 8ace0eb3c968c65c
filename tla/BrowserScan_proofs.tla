--------------------------- MODULE BrowserScan_proofs ---------------------------
(***************************************************************************)
(* What holds of a scan through the wizard for any number of centres and   *)
(* dates, whenever a screen comes up and whatever fails on the way.        *)
(*                                                                         *)
(* A click waits for nothing, so a screen may arrive after the scanner has *)
(* gone on to something else.  What saves the readings is that such a      *)
(* screen is never one of another centre while dates are read, nor one of  *)
(* another date while times are.                                           *)
(***************************************************************************)
EXTENDS BrowserScan, SequenceTheorems, TLAPS

-----------------------------------------------------------------------------
(* What the scanner takes for granted at each of its steps *)

\* The screens to which Back and a late click may lead from those of a centre.
Around(c) ==
    {Elsewhere, Category, CentreList, Calendar(c)} \cup {Times(c, d) : d \in Dates}

\* What is on screen, and on its way there.
PageAt(step) ==
    LET c == scanner.centre
    IN  /\ step = "calendarReady" => /\ page.screen \in {CentreList, Calendar(c)}
                                     /\ page.pending \in {Settled, Calendar(c)}
        /\ step = "dates" => /\ page.screen = Calendar(c)
                             /\ page.pending \in {Settled, Calendar(c)}
        /\ step \in {"pick"} \cup BackSteps => /\ page.screen \in Around(c)
                                               /\ page.pending \in Around(c) \cup {Settled}
        /\ step = "timeReady" => /\ page.screen \in {Calendar(c), Times(c, Date)}
                                 /\ page.pending \in {Settled, Times(c, Date)}
        /\ step = "slots" => /\ page.screen = Times(c, Date)
                             /\ page.pending \in {Settled, Times(c, Date)}

\* What has been read of the centre, and how its calendar is held on to.
LocalsAt(step) ==
    /\ step \in {"auth", "reach", "card", "dates"} => scanner.goal = "centre"
    /\ step \in {"auth"} \cup OpenSteps /\ scanner.goal = "centre" => days = <<>>
    /\ step \in OpenSteps /\ scanner.goal = "calendar" => days # <<>>
    /\ step \in BackSteps => days # <<>>
    /\ \/ step \in DateSteps \cup BackSteps
       \/ step \in OpenSteps /\ scanner.goal = "calendar"
       => scanner.from = Calendar(scanner.centre)
    /\ step \in {"timeReady", "slots"} => Date <= scanner.offered

\* How many centres have their result.
CountAt(step) ==
    /\ step \in LeaveSteps \cup {"done"} => Len(results) = scanner.centre
    /\ step \notin LeaveSteps \cup Ended => Len(results) = scanner.centre - 1
    /\ Len(results) <= scanner.centre

ScanInv ==
    /\ TypeOK
    /\ PageAt(scanner.pc)
    /\ LocalsAt(scanner.pc)
    /\ CountAt(scanner.pc)
    /\ ReadingsAreTheirOwn

-----------------------------------------------------------------------------
(* Screens *)

LEMMA ScreenKinds ==
  /\ Elsewhere.at = "elsewhere" /\ Category.at = "category" /\ CentreList.at = "centres"
  /\ \A c \in Centres : Calendar(c).at = "calendar" /\ Calendar(c).centre = c
  /\ \A c \in Centres, d \in Dates :
        Times(c, d).at = "time" /\ Times(c, d).centre = c /\ Times(c, d).date = d
BY DEF Elsewhere, Category, CentreList, Calendar, Times, Screen

LEMMA ScreensAround ==
  ASSUME NEW c \in Centres
  PROVE  /\ Around(c) \subseteq Screens
         /\ {Elsewhere, Category, CentreList, Calendar(c)} \subseteq Screens
         /\ \A d \in Dates : Times(c, d) \in Screens
BY DEF Around, Screens

LEMMA PreviousIsAScreen ==
  ASSUME NEW s \in Screens
  PROVE  Previous(s) \in Screens
<1>1. CASE s \in {Elsewhere, Category, CentreList}
  BY <1>1, ScreenKinds DEF Previous, Screens
<1>2. ASSUME NEW c \in Centres, s = Calendar(c)
      PROVE  Previous(s) \in Screens
  BY <1>2, ScreenKinds DEF Previous, Screens
<1>3. ASSUME NEW c \in Centres, NEW d \in Dates, s = Times(c, d)
      PROVE  Previous(s) \in Screens
  BY <1>3, ScreenKinds DEF Previous, Screens
<1> QED
  BY <1>1, <1>2, <1>3 DEF Screens

\* Back never leads to another centre, and the only calendar around is its own.
LEMMA BackStaysAround ==
  ASSUME NEW c \in Centres, NEW s \in Around(c)
  PROVE  /\ Previous(s) \in Around(c)
         /\ s.at = "calendar" => s = Calendar(c)
<1>1. CASE s \in {Elsewhere, Category, CentreList}
  BY <1>1, ScreenKinds DEF Previous, Around
<1>2. CASE s = Calendar(c)
  BY <1>2, ScreenKinds DEF Previous, Around
<1>3. ASSUME NEW d \in Dates, s = Times(c, d)
      PROVE  Previous(s) = Calendar(c) /\ s.at = "time"
  BY <1>3, ScreenKinds DEF Previous
<1> QED
  BY <1>1, <1>2, <1>3 DEF Around

\* The date that is next, as long as the calendar offered one.
LEMMA NextDate ==
  ASSUME ScanInv, Date <= scanner.offered
  PROVE  Date \in Dates
<1>1. scanner.offered \in 0 .. MaxDates /\ days \in Seq(DatesRead)
  BY DEF ScanInv, TypeOK, Scanners
<1>2. Len(days) \in Nat
  BY <1>1, LenProperties
<1> QED
  BY <1>1, <1>2, BrowserScanAssumption DEF Date, Dates

-----------------------------------------------------------------------------
(* The ways a step ends *)

LEMMA GotoKeeps ==
  ASSUME ScanInv, NEW step \in Steps, Goto(step), UNCHANGED <<config, days, results>>,
         page' \in Pages, PageAt(step)', LocalsAt(step), CountAt(step)
  PROVE  ScanInv'
<1>1. /\ scanner' \in Scanners /\ scanner'.pc = step
      /\ scanner'.centre = scanner.centre /\ scanner'.goal = scanner.goal
      /\ scanner'.from = scanner.from /\ scanner'.offered = scanner.offered
  BY DEF ScanInv, TypeOK, Scanners, Goto
<1>2. TypeOK'
  BY <1>1 DEF ScanInv, TypeOK
<1>3. LocalsAt(step)'
  BY <1>1 DEF LocalsAt, Date
<1>4. CountAt(step)'
  BY <1>1 DEF CountAt
<1>5. ReadingsAreTheirOwn'
  BY <1>1 DEF ScanInv, ReadingsAreTheirOwn
<1> QED
  BY <1>1, <1>2, <1>3, <1>4, <1>5 DEF ScanInv

LEMMA RaiseKeeps ==
  ASSUME ScanInv, NEW why \in {"auth", "selector", "playwright"}, Raise(why),
         scanner.pc \notin Ended, UNCHANGED config
  PROVE  ScanInv'
<1>1. /\ scanner' \in Scanners /\ scanner'.pc = "raised"
      /\ scanner'.centre = scanner.centre /\ scanner'.offered = scanner.offered
      /\ UNCHANGED <<page, days, results>>
  BY DEF ScanInv, TypeOK, Scanners, Raise, Steps, Ended
<1>2. TypeOK'
  BY <1>1 DEF ScanInv, TypeOK
<1>3. PageAt("raised")' /\ LocalsAt("raised")'
  BY DEF PageAt, LocalsAt, OpenSteps, DateSteps, BackSteps
<1>4. CountAt("raised")'
  BY <1>1 DEF ScanInv, CountAt, LeaveSteps, Ended
<1>5. ReadingsAreTheirOwn'
  BY <1>1 DEF ScanInv, ReadingsAreTheirOwn
<1> QED
  BY <1>1, <1>2, <1>3, <1>4, <1>5 DEF ScanInv

\* A result lists what the caller vouches for; the screen no longer matters.
LEMMA FinishKeeps ==
  ASSUME ScanInv, scanner.pc \notin LeaveSteps \cup Ended, page' \in Pages, UNCHANGED config,
         NEW status \in {"missing", "unavailable", "error", "read"},
         NEW read \in Seq(DatesRead), Finish(status, read),
         TakenWhere(scanner.centre, read),
         status = "read" => scanner.from = Calendar(scanner.centre)
  PROVE  ScanInv'
<1> DEFINE c == scanner.centre
           new == Result(status, scanner.from, scanner.offered, read)
<1>0. c \in Centres /\ results \in Seq(Results) /\ scanner \in Scanners
  BY DEF ScanInv, TypeOK, Scanners
<1>1. /\ scanner' \in Scanners /\ scanner'.pc = "leave"
      /\ scanner'.centre = c /\ scanner'.offered = scanner.offered
      /\ results' = Append(results, new) /\ days' = days
  BY <1>0 DEF Finish, Goto, Scanners, Steps, LeaveSteps
<1>2. /\ new \in Results
      /\ new.status = status /\ new.from = scanner.from /\ new.days = read
  BY <1>0 DEF Result, Results, Scanners
<1>3. Len(results) = c - 1 /\ c \in Nat \ {0} /\ c <= NumCentres
  BY <1>0, BrowserScanAssumption DEF ScanInv, CountAt, Centres
<1>4. /\ results' \in Seq(Results) /\ Len(results') = c
      /\ results'[c] = new
      /\ \A i \in DOMAIN results : results'[i] = results[i]
      /\ DOMAIN results' = DOMAIN results \cup {c}
  BY <1>0, <1>1, <1>2, <1>3, AppendProperties, LenProperties
<1>5. TypeOK'
  BY <1>1, <1>3, <1>4 DEF ScanInv, TypeOK
<1>6. PageAt("leave")' /\ LocalsAt("leave")'
  BY DEF PageAt, LocalsAt, OpenSteps, DateSteps, BackSteps
<1>7. CountAt("leave")'
  BY <1>1, <1>3, <1>4 DEF CountAt, LeaveSteps, Ended
<1>8. ReadingsAreTheirOwn'
  BY <1>1, <1>2, <1>4 DEF ScanInv, ReadingsAreTheirOwn
<1> QED
  BY <1>1, <1>5, <1>6, <1>7, <1>8 DEF ScanInv

\* One more date is read, or given up, and the calendar is gone back to.
LEMMA DayKeeps ==
  ASSUME ScanInv, scanner.pc \in DateSteps, Date <= scanner.offered,
         NEW new \in DatesRead, days' = Append(days, new), Goto("back"),
         UNCHANGED <<config, page, results>>,
         TakenFrom(scanner.centre, new),
         page.screen \in Around(scanner.centre),
         page.pending \in Around(scanner.centre) \cup {Settled}
  PROVE  ScanInv'
<1> DEFINE c == scanner.centre
<1>0. /\ scanner \in Scanners /\ days \in Seq(DatesRead) /\ Len(days) \in Nat
      /\ TakenWhere(c, days) /\ scanner.from = Calendar(c)
  BY DEF ScanInv, TypeOK, ReadingsAreTheirOwn, LocalsAt
<1>1. /\ scanner' \in Scanners /\ scanner'.pc = "back"
      /\ scanner'.centre = c /\ scanner'.goal = scanner.goal
      /\ scanner'.from = scanner.from /\ scanner'.offered = scanner.offered
  BY <1>0 DEF Scanners, Goto, Steps, BackSteps
<1>2. /\ days' \in Seq(DatesRead) /\ Len(days') = Len(days) + 1
      /\ days'[Len(days) + 1] = new /\ days' # <<>>
      /\ \A i \in 1 .. Len(days) : days'[i] = days[i]
      /\ DOMAIN days' = 1 .. Len(days) + 1 /\ DOMAIN days = 1 .. Len(days)
  BY <1>0, AppendProperties, LenProperties
<1>3. TypeOK'
  BY <1>0, <1>1, <1>2 DEF ScanInv, TypeOK, Date, Scanners
<1>4. PageAt("back")'
  BY <1>1 DEF PageAt, BackSteps
<1>5. LocalsAt("back")'
  BY <1>0, <1>1, <1>2 DEF LocalsAt, OpenSteps, DateSteps, BackSteps
<1>6. CountAt("back")'
  BY <1>1 DEF ScanInv, CountAt, DateSteps, BackSteps, LeaveSteps, Ended
<1>7. TakenWhere(c, days')
  <2>1. \A i \in 1 .. Len(days) : TakenFrom(c, days[i])
    BY <1>0, <1>2 DEF TakenWhere
  <2>2. \A i \in DOMAIN days' : i \in 1 .. Len(days) \/ i = Len(days) + 1
    BY <1>0, <1>2
  <2> QED
    BY <1>2, <2>1, <2>2 DEF TakenWhere
<1>8. ReadingsAreTheirOwn'
  BY <1>1, <1>7 DEF ScanInv, ReadingsAreTheirOwn
<1> QED
  BY <1>1, <1>3, <1>4, <1>5, <1>6, <1>8 DEF ScanInv

LEMMA FailsKeeps ==
  ASSUME ScanInv, scanner.pc \in OpenSteps \cup {"pick", "timeReady"} \cup BackSteps,
         FailsOf, UNCHANGED config, page' \in Pages,
         scanner.pc \in {"pick", "timeReady"} => page' = page /\ Date <= scanner.offered
  PROVE  ScanInv'
<1> DEFINE c == scanner.centre
<1>0. /\ scanner \in Scanners /\ c \in Centres
      /\ days \in Seq(DatesRead) /\ Len(days) \in Nat
  <2>1. scanner \in Scanners /\ days \in Seq(DatesRead)
    BY DEF ScanInv, TypeOK
  <2> QED
    BY <2>1, LenProperties DEF Scanners
<1>t. TakenWhere(c, days)
  BY DEF ScanInv, ReadingsAreTheirOwn
<1>1. LocalsAt(scanner.pc) /\ PageAt(scanner.pc) /\ CountAt(scanner.pc)
  BY DEF ScanInv
<1>2. /\ scanner.pc \notin LeaveSteps \cup Ended
      /\ scanner.goal \in {"centre", "calendar"}
  BY <1>0 DEF OpenSteps, BackSteps, LeaveSteps, Ended, Scanners
<1>d. DOMAIN days = 1 .. Len(days)
  BY <1>0, LenProperties
<1>3. CASE scanner.pc \in OpenSteps /\ scanner.goal = "centre"
  <2>1. Finish("error", <<>>)
    BY <1>3 DEF FailsOf, OpenSteps, DateSteps, BackSteps
  <2>2. <<>> \in Seq(DatesRead) /\ TakenWhere(c, <<>>)
    BY DEF TakenWhere
  <2> QED
    BY <1>2, <2>1, <2>2, FinishKeeps
<1>4. CASE scanner.pc \in OpenSteps /\ scanner.goal = "calendar"
  <2> DEFINE read == [days EXCEPT ![Len(days)].error = "return"]
  <2>1. Finish("read", read)
    BY <1>4 DEF FailsOf, ReturnFails, OpenSteps, DateSteps, BackSteps
  <2>2. scanner.from = Calendar(c) /\ days # <<>>
    BY <1>1, <1>4 DEF LocalsAt
  <2>3. Len(days) \in 1 .. Len(days)
    BY <1>0, <2>2, EmptySeq
  <2>4. days[Len(days)] \in DatesRead
    BY <1>0, <2>3, ElementOfSeq
  <2>5. [days[Len(days)] EXCEPT !.error = "return"] \in DatesRead
    BY <2>4 DEF DatesRead
  <2>6. read = [days EXCEPT ![Len(days)] = [days[Len(days)] EXCEPT !.error = "return"]]
    OBVIOUS
  <2>7. /\ read \in Seq(DatesRead) /\ Len(read) = Len(days)
        /\ \A i \in 1 .. Len(days) :
              read[i] = IF i = Len(days)
                        THEN [days[Len(days)] EXCEPT !.error = "return"] ELSE days[i]
    <3> DEFINE last == [days[Len(days)] EXCEPT !.error = "return"]
    <3>1. last \in DatesRead
      BY <2>5
    <3> HIDE DEF last
    <3>2. [days EXCEPT ![Len(days)] = last] \in Seq(DatesRead)
          /\ Len([days EXCEPT ![Len(days)] = last]) = Len(days)
          /\ \A i \in 1 .. Len(days) :
                [days EXCEPT ![Len(days)] = last][i] = IF i = Len(days) THEN last ELSE days[i]
      BY <1>0, <2>3, <3>1, ExceptSeq
    <3> QED
      BY <2>6, <3>2, Zenon DEF last
  <2>8. DOMAIN read = DOMAIN days
    OBVIOUS
  <2>9. ASSUME NEW i \in DOMAIN days
        PROVE  /\ read[i].from = days[i].from /\ read[i].date = days[i].date
               /\ read[i].error \in {"return", days[i].error}
    <3>1. days[i] \in DatesRead /\ i \in 1 .. Len(days)
      BY <1>0, <1>d, ElementOfSeq
    <3> QED
      BY <2>7, <3>1 DEF DatesRead
  <2>10. TakenWhere(c, read)
    BY <1>t, <2>8, <2>9 DEF TakenWhere, TakenFrom
  <2>11. Finish("read", read) /\ read \in Seq(DatesRead) /\ TakenWhere(c, read)
    BY <2>1, <2>7, <2>10
  <2> HIDE DEF read
  <2> QED
    BY <1>2, <2>2, <2>11, FinishKeeps
<1>5. CASE scanner.pc \in {"pick", "timeReady"}
  <2> DEFINE new == Day(Date, Elsewhere, "times")
  <2>1. days' = Append(days, new) /\ Goto("back") /\ UNCHANGED <<results, page>>
    BY <1>5 DEF FailsOf, OpenSteps, DateSteps, BackSteps
  <2>2. Date \in Dates
    BY <1>5, NextDate
  <2>3. new \in DatesRead /\ TakenFrom(c, new)
    BY <1>0, <2>2, ScreensAround DEF Day, DatesRead, TakenFrom
  <2>4. page.screen \in Around(c) /\ page.pending \in Around(c) \cup {Settled}
    BY <1>1, <1>5, <2>2 DEF PageAt, Around
  <2> QED
    BY <1>5, <2>1, <2>3, <2>4, DayKeeps DEF DateSteps
<1>6. CASE scanner.pc \in BackSteps
  <2>1. /\ scanner' = [scanner EXCEPT !.pc = "replay", !.goal = "calendar"]
        /\ UNCHANGED <<days, results>>
    BY <1>6 DEF FailsOf, OpenSteps, DateSteps, BackSteps
  <2>2. /\ scanner' \in Scanners /\ scanner'.pc = "replay"
        /\ scanner'.centre = c /\ scanner'.goal = "calendar"
        /\ scanner'.from = scanner.from /\ scanner'.offered = scanner.offered
    BY <1>0, <2>1 DEF Scanners, Steps, OpenSteps
  <2>3. scanner.from = Calendar(c) /\ days # <<>>
    BY <1>1, <1>6 DEF LocalsAt
  <2>4. TypeOK'
    BY <2>1, <2>2 DEF ScanInv, TypeOK
  <2>5. PageAt("replay")' /\ LocalsAt("replay")'
    BY <2>1, <2>2, <2>3 DEF PageAt, LocalsAt, OpenSteps, DateSteps, BackSteps
  <2>6. CountAt("replay")'
    BY <1>1, <1>2, <2>1, <2>2 DEF CountAt, OpenSteps, LeaveSteps, Ended
  <2>7. ReadingsAreTheirOwn'
    BY <2>1, <2>2 DEF ScanInv, ReadingsAreTheirOwn
  <2> QED
    BY <2>2, <2>4, <2>5, <2>6, <2>7 DEF ScanInv
<1> QED
  BY <1>3, <1>4, <1>5, <1>6, <1>2

-----------------------------------------------------------------------------
(* The steps *)

\* The types that every step starts from.
LEMMA Typed ==
  ASSUME ScanInv
  PROVE  /\ page \in Pages /\ scanner \in Scanners /\ scanner.pc \in Steps
         /\ scanner.centre \in Centres /\ scanner.goal \in {"centre", "calendar"}
         /\ page.screen \in Screens /\ page.pending \in Screens \cup {Settled}
BY DEF ScanInv, TypeOK, Pages, Scanners

\* A click that is taken leaves the screen up, with the next one on its way.
LEMMA ClickTaken ==
  ASSUME ScanInv, NEW to \in Screens, Click(to)
  PROVE  page' \in Pages /\ page'.screen = page.screen /\ page'.pending = to
BY Typed DEF Click, Pages

\* Between the centres nothing is expected of the page.
LEMMA LooseStepsKeep ==
  ASSUME ScanInv, UNCHANGED config, Authenticate \/ Reach \/ CentresReady
  PROVE  ScanInv'
<1>0. /\ page \in Pages /\ scanner.goal \in {"centre", "calendar"}
      /\ LocalsAt(scanner.pc) /\ CountAt(scanner.pc)
  BY Typed DEF ScanInv
<1>1. CASE Authenticate
  <2>1. CASE Raise("auth")
    BY <1>1, <2>1, RaiseKeeps DEF Authenticate, At, Ended
  <2>2. CASE Goto("reach") /\ UNCHANGED <<page, days, results>>
    <3>1. scanner.pc = "auth"
      BY <1>1 DEF Authenticate, At
    <3>2. LocalsAt("reach") /\ PageAt("reach")' /\ CountAt("reach")
      BY <1>0, <3>1 DEF LocalsAt, PageAt, CountAt, OpenSteps, DateSteps, BackSteps,
         LeaveSteps, Ended
    <3> QED
      BY <1>0, <2>2, <3>2, GotoKeeps DEF Steps, OpenSteps
  <2> QED
    BY <1>1, <2>1, <2>2 DEF Authenticate
<1>2. CASE Reach
  <2>1. PICK step \in {"search", "replay"} :
           Goto(step) /\ UNCHANGED <<page, days, results>> /\ scanner.pc = "reach"
    BY <1>2 DEF Reach, At
  <2>2. LocalsAt(step) /\ PageAt(step)' /\ CountAt(step)
    BY <1>0, <2>1 DEF LocalsAt, PageAt, CountAt, OpenSteps, DateSteps, BackSteps,
       LeaveSteps, Ended
  <2> QED
    BY <1>0, <2>1, <2>2, GotoKeeps DEF Steps, OpenSteps
<1>3. CASE CentresReady
  <2>1. scanner.pc = "centresReady"
    BY <1>3 DEF CentresReady, At
  <2>2. CASE Fails
    BY <1>0, <2>1, <2>2, FailsKeeps DEF Fails, OpenSteps
  <2>3. CASE Goto("search") /\ UNCHANGED <<page, days, results>>
    <3>1. LocalsAt("search") /\ PageAt("search")' /\ CountAt("search")
      BY <1>0, <2>1 DEF LocalsAt, PageAt, CountAt, OpenSteps, DateSteps, BackSteps,
         LeaveSteps, Ended
    <3> QED
      BY <1>0, <2>3, <3>1, GotoKeeps DEF Steps, OpenSteps
  <2> QED
    BY <1>3, <2>2, <2>3 DEF CentresReady, WaitFor
<1> QED
  BY <1>1, <1>2, <1>3

LEMMA ReplayKeeps ==
  ASSUME ScanInv, UNCHANGED config, ReplayWizard
  PROVE  ScanInv'
<1>0. /\ page \in Pages /\ scanner.goal \in {"centre", "calendar"}
      /\ LocalsAt(scanner.pc) /\ CountAt(scanner.pc) /\ scanner.pc = "replay"
  BY Typed DEF ScanInv, ReplayWizard, At
<1>1. {Elsewhere, Category, CentreList} \subseteq Screens
  BY DEF Screens
<1>2. CASE /\ page' = [screen |-> Category, pending |-> CentreList, filter |-> 0]
           /\ Goto("centresReady") /\ UNCHANGED <<days, results>>
  <2>1. page' \in Pages
    BY <1>1, <1>2, BrowserScanAssumption DEF Pages
  <2>2. LocalsAt("centresReady") /\ PageAt("centresReady")' /\ CountAt("centresReady")
    BY <1>0 DEF LocalsAt, PageAt, CountAt, OpenSteps, DateSteps, BackSteps,
       LeaveSteps, Ended
  <2> QED
    BY <1>2, <2>1, <2>2, GotoKeeps DEF Steps, OpenSteps
<1>3. CASE page' = [screen |-> Elsewhere, pending |-> Settled, filter |-> 0] /\ FailsOf
  <2>1. page' \in Pages
    BY <1>1, <1>3, BrowserScanAssumption DEF Pages
  <2> QED
    BY <1>0, <1>3, <2>1, FailsKeeps DEF OpenSteps
<1>4. CASE Raise("playwright")
  BY <1>0, <1>4, RaiseKeeps DEF Ended
<1> QED
  BY <1>2, <1>3, <1>4 DEF ReplayWizard

LEMMA SearchKeeps ==
  ASSUME ScanInv, UNCHANGED config, Search
  PROVE  ScanInv'
<1>0. /\ page \in Pages /\ scanner.goal \in {"centre", "calendar"}
      /\ scanner.centre \in Centres
      /\ LocalsAt(scanner.pc) /\ CountAt(scanner.pc) /\ scanner.pc = "search"
  BY Typed DEF ScanInv, Search, At
<1>1. CASE Fails
  BY <1>0, <1>1, FailsKeeps DEF Fails, OpenSteps
<1>2. CASE ~Fails
  <2>1. /\ page' = [page EXCEPT !.filter = scanner.centre]
        /\ Goto(IF scanner.goal = "centre" THEN "card" ELSE "select")
        /\ UNCHANGED <<days, results>>
    BY <1>2 DEF Search
  <2>2. page' \in Pages
    BY <1>0, <2>1, BrowserScanAssumption DEF Pages, Centres
  <2>3. CASE scanner.goal = "centre"
    <3>1. LocalsAt("card") /\ PageAt("card")' /\ CountAt("card")
      BY <1>0, <2>3 DEF LocalsAt, PageAt, CountAt, OpenSteps, DateSteps, BackSteps,
         LeaveSteps, Ended
    <3> QED
      BY <2>1, <2>2, <2>3, <3>1, GotoKeeps DEF Steps, OpenSteps
  <2>4. CASE scanner.goal = "calendar"
    <3>1. LocalsAt("select") /\ PageAt("select")' /\ CountAt("select")
      BY <1>0, <2>4 DEF LocalsAt, PageAt, CountAt, OpenSteps, DateSteps, BackSteps,
         LeaveSteps, Ended
    <3> QED
      BY <2>1, <2>2, <2>4, <3>1, GotoKeeps DEF Steps, OpenSteps
  <2> QED
    BY <1>0, <2>3, <2>4
<1> QED
  BY <1>1, <1>2

LEMMA CardKeeps ==
  ASSUME ScanInv, UNCHANGED config, ReadCard
  PROVE  ScanInv'
<1>0. /\ page \in Pages /\ LocalsAt(scanner.pc) /\ CountAt(scanner.pc)
      /\ scanner.pc = "card"
  BY Typed DEF ScanInv, ReadCard, At
<1>1. CASE Fails
  BY <1>0, <1>1, FailsKeeps DEF Fails, OpenSteps
<1>2. CASE Goto("select") /\ UNCHANGED <<page, days, results>>
  <2>1. LocalsAt("select") /\ PageAt("select")' /\ CountAt("select")
    BY <1>0 DEF LocalsAt, PageAt, CountAt, OpenSteps, DateSteps, BackSteps,
       LeaveSteps, Ended
  <2> QED
    BY <1>0, <1>2, <2>1, GotoKeeps DEF Steps, OpenSteps
<1>3. ASSUME NEW status \in {"unavailable", "missing"},
             Finish(status, <<>>), UNCHANGED page
      PROVE  ScanInv'
  <2>1. <<>> \in Seq(DatesRead) /\ TakenWhere(scanner.centre, <<>>)
    BY DEF TakenWhere
  <2> QED
    BY <1>0, <1>3, <2>1, FinishKeeps DEF LeaveSteps, Ended
<1> QED
  BY <1>1, <1>2, <1>3 DEF ReadCard

LEMMA SelectKeeps ==
  ASSUME ScanInv, UNCHANGED config, Select
  PROVE  ScanInv'
<1> DEFINE c == scanner.centre
<1>0. /\ page \in Pages /\ c \in Centres
      /\ LocalsAt(scanner.pc) /\ CountAt(scanner.pc)
      /\ scanner.pc = "select" /\ ClickOn(CardShown, Calendar(c), "calendarReady")
  BY Typed DEF ScanInv, Select, At
<1>1. CASE CardShown /\ Click(Calendar(c)) /\ Goto("calendarReady")
           /\ UNCHANGED <<days, results>>
  <2>1. /\ page' \in Pages /\ page'.screen = CentreList
        /\ page'.pending = Calendar(c)
    BY <1>0, <1>1, ClickTaken, ScreensAround DEF CardShown
  <2>2. scanner'.centre = c
    BY <1>1 DEF Goto
  <2>3. PageAt("calendarReady")'
    BY <2>1, <2>2 DEF PageAt, BackSteps
  <2>4. LocalsAt("calendarReady") /\ CountAt("calendarReady")
    BY <1>0 DEF LocalsAt, CountAt, OpenSteps, DateSteps, BackSteps, LeaveSteps, Ended
  <2> QED
    BY <1>1, <2>1, <2>3, <2>4, GotoKeeps DEF Steps, OpenSteps
<1>2. CASE Raise("playwright")
  BY <1>0, <1>2, RaiseKeeps DEF Ended
<1>3. CASE Fails
  BY <1>0, <1>3, FailsKeeps DEF Fails, OpenSteps
<1> QED
  BY <1>0, <1>1, <1>2, <1>3 DEF ClickOn

LEMMA CalendarReadyKeeps ==
  ASSUME ScanInv, UNCHANGED config, CalendarReady
  PROVE  ScanInv'
<1> DEFINE c == scanner.centre
<1>0. /\ page \in Pages /\ c \in Centres /\ scanner.goal \in {"centre", "calendar"}
      /\ LocalsAt(scanner.pc) /\ CountAt(scanner.pc) /\ PageAt(scanner.pc)
      /\ scanner.pc = "calendarReady"
  BY Typed DEF ScanInv, CalendarReady, At
<1>1. CASE Fails
  BY <1>0, <1>1, FailsKeeps DEF Fails, OpenSteps
<1>2. CASE ~Fails
  <2>1. /\ Goto(IF scanner.goal = "centre" THEN "dates" ELSE "pick")
        /\ UNCHANGED <<page, days, results>> /\ page.screen.at = "calendar"
    BY <1>2 DEF CalendarReady, WaitFor
  <2>2. page.screen = Calendar(c) /\ page.pending \in {Settled, Calendar(c)}
    BY <1>0, <2>1, ScreenKinds DEF PageAt
  <2>3. scanner'.centre = c
    BY <2>1 DEF Goto
  <2>4. CASE scanner.goal = "centre"
    <3>1. PageAt("dates")'
      BY <2>1, <2>2, <2>3 DEF PageAt, BackSteps
    <3>2. LocalsAt("dates") /\ CountAt("dates")
      BY <1>0, <2>4 DEF LocalsAt, CountAt, OpenSteps, DateSteps, BackSteps,
         LeaveSteps, Ended
    <3> QED
      BY <1>0, <2>1, <2>4, <3>1, <3>2, GotoKeeps DEF Steps, OpenSteps
  <2>5. CASE scanner.goal = "calendar"
    <3>1. PageAt("pick")'
      BY <2>1, <2>2, <2>3 DEF PageAt, BackSteps, Around
    <3>2. LocalsAt("pick") /\ CountAt("pick")
      BY <1>0, <2>5 DEF LocalsAt, CountAt, OpenSteps, DateSteps, BackSteps,
         LeaveSteps, Ended
    <3> QED
      BY <1>0, <2>1, <2>5, <3>1, <3>2, GotoKeeps DEF Steps, DateSteps
  <2> QED
    BY <1>0, <2>4, <2>5
<1> QED
  BY <1>1, <1>2

LEMMA DatesKeeps ==
  ASSUME ScanInv, UNCHANGED config, ReadDates
  PROVE  ScanInv'
<1> DEFINE c == scanner.centre
<1>0. /\ page \in Pages /\ scanner \in Scanners /\ c \in Centres
      /\ scanner.pc = "dates" /\ scanner.goal = "centre"
      /\ LocalsAt(scanner.pc) /\ CountAt(scanner.pc) /\ PageAt(scanner.pc)
  BY Typed DEF ScanInv, ReadDates, At, LocalsAt
<1>1. CASE Raise("selector")
  BY <1>0, <1>1, RaiseKeeps DEF Ended
<1>2. CASE ~Raise("selector")
  <2>1. PICK n \in 0 .. MaxDates :
               /\ scanner' = [scanner EXCEPT !.from = page.screen, !.offered = n,
                                             !.pc = "pick"]
               /\ UNCHANGED <<page, days, results>>
    BY <1>2 DEF ReadDates
  <2>2. page.screen = Calendar(c) /\ page.pending \in {Settled, Calendar(c)}
    BY <1>0 DEF PageAt
  <2>3. days = <<>> /\ Len(days) = 0
    BY <1>0 DEF LocalsAt, OpenSteps
  <2>4. /\ scanner' \in Scanners /\ scanner'.pc = "pick"
        /\ scanner'.centre = c /\ scanner'.goal = "centre"
        /\ scanner'.from = Calendar(c) /\ scanner'.offered = n
    BY <1>0, <2>1, <2>2, ScreensAround DEF Scanners, Steps, DateSteps
  <2>5. TypeOK'
    BY <2>1, <2>3, <2>4 DEF ScanInv, TypeOK
  <2>6. PageAt("pick")'
    BY <2>1, <2>2, <2>4 DEF PageAt, Around, BackSteps
  <2>7. LocalsAt("pick")' /\ CountAt("pick")'
    BY <1>0, <2>1, <2>4 DEF LocalsAt, CountAt, OpenSteps, DateSteps, BackSteps,
       LeaveSteps, Ended
  <2>8. ReadingsAreTheirOwn'
    BY <2>1, <2>4 DEF ScanInv, ReadingsAreTheirOwn
  <2> QED
    BY <2>4, <2>5, <2>6, <2>7, <2>8 DEF ScanInv
<1> QED
  BY <1>1, <1>2

LEMMA PickKeeps ==
  ASSUME ScanInv, UNCHANGED config, Pick
  PROVE  ScanInv'
<1> DEFINE c == scanner.centre
<1>0. /\ page \in Pages /\ scanner \in Scanners /\ c \in Centres
      /\ scanner.pc = "pick" /\ Date <= scanner.offered
      /\ LocalsAt(scanner.pc) /\ CountAt(scanner.pc) /\ PageAt(scanner.pc)
      /\ ClickOn(page.screen.at = "calendar", Times(page.screen.centre, Date), "timeReady")
  BY Typed DEF ScanInv, Pick, At
<1>1. CASE /\ page.screen.at = "calendar" /\ Click(Times(page.screen.centre, Date))
           /\ Goto("timeReady") /\ UNCHANGED <<days, results>>
  <2>1. page.screen = Calendar(c)
    BY <1>0, <1>1, BackStaysAround DEF PageAt
  <2>2. page.screen.centre = c
    BY <1>0, <2>1, ScreenKinds
  <2>3. Date \in Dates
    BY <1>0, NextDate
  <2>4. /\ page' \in Pages /\ page'.screen = Calendar(c)
        /\ page'.pending = Times(c, Date)
    BY <1>0, <1>1, <2>1, <2>2, <2>3, ClickTaken, ScreensAround
  <2>5. scanner'.centre = c /\ Date' = Date
    BY <1>1 DEF Goto, Date
  <2>6. PageAt("timeReady")'
    BY <2>4, <2>5 DEF PageAt, BackSteps
  <2>7. LocalsAt("timeReady") /\ CountAt("timeReady")
    BY <1>0 DEF LocalsAt, CountAt, OpenSteps, DateSteps, BackSteps, LeaveSteps, Ended
  <2> QED
    BY <1>1, <2>4, <2>6, <2>7, GotoKeeps DEF Steps, DateSteps
<1>2. CASE Raise("playwright")
  BY <1>0, <1>2, RaiseKeeps DEF Ended
<1>3. CASE Fails
  BY <1>0, <1>3, FailsKeeps DEF Fails
<1> QED
  BY <1>0, <1>1, <1>2, <1>3 DEF ClickOn

LEMMA DatesDoneKeeps ==
  ASSUME ScanInv, UNCHANGED config, DatesDone
  PROVE  ScanInv'
<1>1. /\ scanner.pc = "pick" /\ Finish("read", days) /\ page' = page
      /\ page \in Pages /\ days \in Seq(DatesRead)
  BY Typed DEF DatesDone, At, ScanInv, TypeOK
<1>2. TakenWhere(scanner.centre, days)
  BY DEF ScanInv, ReadingsAreTheirOwn
<1>3. scanner.from = Calendar(scanner.centre)
  BY <1>1 DEF ScanInv, LocalsAt, DateSteps
<1> QED
  BY <1>1, <1>2, <1>3, FinishKeeps DEF LeaveSteps, Ended

LEMMA TimesKeep ==
  ASSUME ScanInv, UNCHANGED config, TimeReady \/ ReadSlots
  PROVE  ScanInv'
<1> DEFINE c == scanner.centre
<1>0. /\ page \in Pages /\ scanner \in Scanners /\ c \in Centres
      /\ scanner.pc \in {"timeReady", "slots"} /\ Date <= scanner.offered
      /\ LocalsAt(scanner.pc) /\ CountAt(scanner.pc) /\ PageAt(scanner.pc)
  BY Typed DEF ScanInv, TimeReady, ReadSlots, At, LocalsAt
<1>1. Date \in Dates
  BY <1>0, NextDate
<1>2. CASE TimeReady
  <2>1. scanner.pc = "timeReady"
    BY <1>2 DEF TimeReady, At
  <2>2. CASE Fails
    BY <1>0, <2>1, <2>2, FailsKeeps DEF Fails
  <2>3. CASE ~Fails
    <3>1. /\ page.screen.at = "time" /\ Goto("slots")
          /\ UNCHANGED <<page, days, results>>
      BY <1>2, <2>3 DEF TimeReady, TimeShown, WaitFor
    <3>2. page.screen = Times(c, Date) /\ page.pending \in {Settled, Times(c, Date)}
      BY <1>0, <2>1, <3>1, ScreenKinds DEF PageAt
    <3>3. scanner'.centre = c /\ Date' = Date
      BY <3>1 DEF Goto, Date
    <3>4. PageAt("slots")'
      BY <3>1, <3>2, <3>3 DEF PageAt, BackSteps
    <3>5. LocalsAt("slots") /\ CountAt("slots")
      BY <1>0, <2>1 DEF LocalsAt, CountAt, OpenSteps, DateSteps, BackSteps,
         LeaveSteps, Ended
    <3> QED
      BY <1>0, <3>1, <3>4, <3>5, GotoKeeps DEF Steps, DateSteps
  <2> QED
    BY <2>2, <2>3
<1>3. CASE ReadSlots
  <2> DEFINE new == Day(Date, page.screen, "")
  <2>1. /\ scanner.pc = "slots" /\ days' = Append(days, new) /\ Goto("back")
        /\ UNCHANGED <<page, results>>
    BY <1>3 DEF ReadSlots, At
  <2>2. page.screen = Times(c, Date) /\ page.pending \in {Settled, Times(c, Date)}
    BY <1>0, <2>1 DEF PageAt
  <2>3. page.screen # Elsewhere
    BY <1>0, <1>1, <2>2, ScreenKinds
  <2>4. new \in DatesRead /\ TakenFrom(c, new)
    BY <1>0, <1>1, <2>2, <2>3, ScreensAround DEF Day, DatesRead, TakenFrom
  <2>5. page.screen \in Around(c) /\ page.pending \in Around(c) \cup {Settled}
    BY <1>1, <2>2 DEF Around
  <2> QED
    BY <1>0, <2>1, <2>4, <2>5, DayKeeps DEF DateSteps
<1> QED
  BY <1>2, <1>3

LEMMA BackKeeps ==
  ASSUME ScanInv, UNCHANGED config, Back \/ BackReady
  PROVE  ScanInv'
<1> DEFINE c == scanner.centre
<1>0. /\ page \in Pages /\ c \in Centres /\ scanner.pc \in BackSteps
      /\ LocalsAt(scanner.pc) /\ CountAt(scanner.pc)
      /\ page.screen \in Around(c) /\ page.pending \in Around(c) \cup {Settled}
  BY Typed DEF ScanInv, Back, BackReady, At, PageAt, BackSteps
<1>1. CASE Fails
  BY <1>0, <1>1, FailsKeeps DEF Fails, BackSteps
<1>2. CASE Raise("playwright")
  BY <1>0, <1>2, RaiseKeeps DEF BackSteps, Ended
<1>3. ASSUME NEW step \in {"backReady", "pick"}, Goto(step),
             UNCHANGED <<days, results>>, page' \in Pages,
             page'.screen \in Around(c), page'.pending \in Around(c) \cup {Settled}
      PROVE  ScanInv'
  <2>1. scanner'.centre = c
    BY <1>3 DEF Goto
  <2>2. PageAt(step)'
    BY <1>3, <2>1 DEF PageAt, BackSteps
  <2>3. LocalsAt(step) /\ CountAt(step)
    BY <1>0, <1>3 DEF LocalsAt, CountAt, OpenSteps, DateSteps, BackSteps,
       LeaveSteps, Ended
  <2> QED
    BY <1>3, <2>2, <2>3, GotoKeeps DEF Steps, DateSteps, BackSteps
<1>4. CASE Back /\ ~Fails /\ ~Raise("playwright")
  <2>1. /\ Click(Previous(page.screen)) /\ Goto("backReady")
        /\ UNCHANGED <<days, results>>
    BY <1>4 DEF Back, ClickOn
  <2>2. Previous(page.screen) \in Around(c) /\ Previous(page.screen) \in Screens
    BY <1>0, BackStaysAround, ScreensAround
  <2>3. /\ page' \in Pages /\ page'.screen = page.screen
        /\ page'.pending = Previous(page.screen)
    BY <2>1, <2>2, ClickTaken
  <2> QED
    BY <1>0, <1>3, <2>1, <2>2, <2>3
<1>5. CASE BackReady /\ ~Fails
  <2>1. Goto("pick") /\ UNCHANGED <<page, days, results>>
    BY <1>5 DEF BackReady, WaitFor
  <2> QED
    BY <1>0, <1>3, <2>1
<1> QED
  BY <1>1, <1>2, <1>4, <1>5

LEMMA NextCentreKeeps ==
  ASSUME ScanInv, scanner.pc \in LeaveSteps, NextCentre, UNCHANGED config
  PROVE  ScanInv'
<1> DEFINE c == scanner.centre
<1>0. /\ page \in Pages /\ scanner \in Scanners /\ c \in Centres
      /\ Len(results) = c /\ c \in Nat /\ results \in Seq(Results)
  <2>1. page \in Pages /\ scanner \in Scanners /\ c \in Centres
    BY Typed
  <2> QED
    BY <2>1, BrowserScanAssumption DEF ScanInv, CountAt, TypeOK, Centres
<1>1. days' = <<>> /\ Len(days') = 0 /\ UNCHANGED <<page, results>>
  BY DEF NextCentre
<1>2. CASE c = NumCentres
  <2>1. /\ scanner' \in Scanners /\ scanner'.pc = "done" /\ scanner'.centre = c
        /\ scanner'.offered = scanner.offered /\ scanner.offered \in Nat
    <3>1. scanner' = [scanner EXCEPT !.pc = "done"]
      BY <1>2 DEF NextCentre
    <3>2. scanner.offered \in Nat
      <4>1. scanner.offered \in 0 .. MaxDates
        BY <1>0 DEF Scanners
      <4> QED
        BY <4>1, BrowserScanAssumption
    <3> QED
      BY <1>0, <3>1, <3>2 DEF Scanners, Steps, Ended
  <2>2. TypeOK'
    BY <1>1, <2>1 DEF ScanInv, TypeOK
  <2>3. PageAt("done")' /\ LocalsAt("done")'
    BY DEF PageAt, LocalsAt, OpenSteps, DateSteps, BackSteps
  <2>4. CountAt("done")'
    BY <1>0, <1>1, <2>1 DEF CountAt, LeaveSteps, Ended
  <2>5. ReadingsAreTheirOwn'
    BY <1>1 DEF ScanInv, ReadingsAreTheirOwn, TakenWhere
  <2> QED
    BY <2>1, <2>2, <2>3, <2>4, <2>5 DEF ScanInv
<1>3. CASE c # NumCentres
  <2>1. c + 1 \in Centres
    BY <1>0, <1>3, BrowserScanAssumption DEF Centres
  <2>2. scanner' = [scanner EXCEPT !.pc = "reach", !.goal = "centre",
                                   !.from = Elsewhere, !.offered = 0,
                                   !.centre = c + 1]
    BY <1>3 DEF NextCentre
  <2>3. /\ scanner' \in Scanners /\ scanner'.pc = "reach" /\ scanner'.centre = c + 1
        /\ scanner'.offered = 0 /\ scanner'.goal = "centre"
    <3>1. Elsewhere \in Screens /\ 0 \in 0 .. MaxDates /\ "reach" \in Steps
      BY BrowserScanAssumption DEF Screens, Steps, OpenSteps
    <3> QED
      BY <1>0, <2>1, <2>2, <3>1 DEF Scanners
  <2>4. TypeOK'
    BY <1>1, <2>3 DEF ScanInv, TypeOK
  <2>5. PageAt("reach")' /\ LocalsAt("reach")'
    BY <1>1, <2>3 DEF PageAt, LocalsAt, OpenSteps, DateSteps, BackSteps
  <2>6. CountAt("reach")'
    BY <1>0, <1>1, <2>3 DEF CountAt, LeaveSteps, Ended
  <2>7. ReadingsAreTheirOwn'
    BY <1>1 DEF ScanInv, ReadingsAreTheirOwn, TakenWhere
  <2> QED
    BY <2>3, <2>4, <2>5, <2>6, <2>7 DEF ScanInv
<1> QED
  BY <1>2, <1>3

LEMMA LeavingKeeps ==
  ASSUME ScanInv, UNCHANGED config, Leave \/ LeaveBack \/ LeaveReady
  PROVE  ScanInv'
<1>0. /\ page \in Pages /\ page.screen \in Screens /\ CountAt(scanner.pc)
      /\ scanner.pc \in LeaveSteps
  BY Typed DEF ScanInv, Leave, LeaveBack, LeaveReady, At, LeaveSteps
<1>1. CASE NextCentre
  BY <1>0, <1>1, NextCentreKeeps
<1>2. CASE Raise("playwright")
  BY <1>0, <1>2, RaiseKeeps DEF LeaveSteps, Ended
<1>3. ASSUME NEW step \in {"leaveBack", "leaveReady"}, Goto(step),
             UNCHANGED <<days, results>>, page' \in Pages
      PROVE  ScanInv'
  <2>1. LocalsAt(step) /\ PageAt(step)' /\ CountAt(step)
    BY <1>0, <1>3 DEF LocalsAt, PageAt, CountAt, OpenSteps, DateSteps, BackSteps,
       LeaveSteps, Ended
  <2> QED
    BY <1>3, <2>1, GotoKeeps DEF Steps, LeaveSteps
<1>4. CASE Leave /\ ~NextCentre
  BY <1>0, <1>3, <1>4 DEF Leave
<1>5. CASE LeaveBack /\ ~NextCentre /\ ~Raise("playwright")
  <2>1. /\ Click(Previous(page.screen)) /\ Goto("leaveReady")
        /\ UNCHANGED <<days, results>>
    BY <1>5 DEF LeaveBack
  <2>2. page' \in Pages
    BY <1>0, <2>1, ClickTaken, PreviousIsAScreen
  <2> QED
    BY <1>3, <2>1, <2>2
<1>6. CASE LeaveReady
  BY <1>1, <1>6 DEF LeaveReady
<1> QED
  BY <1>1, <1>2, <1>4, <1>5, <1>6

-----------------------------------------------------------------------------
(* The page, and the invariant *)

\* Whatever comes up or stays away while a step is awaited was expected there.
LEMMA PageKeeps ==
  ASSUME ScanInv, Arrive \/ Stall
  PROVE  ScanInv'
<1> DEFINE c == scanner.centre
<1>0. /\ page \in Pages /\ UNCHANGED <<config, scanner, days, results>>
      /\ PageAt(scanner.pc)
  BY Typed DEF ScanInv, Arrive, Stall
<1>1. /\ page' \in Pages
      /\ \/ page'.screen = page.screen /\ page'.pending = Settled
         \/ page'.screen = page.pending /\ page'.pending = Settled
            /\ page.pending # Settled
  <2>1. 0 \in 0 .. NumCentres
    BY BrowserScanAssumption
  <2>2. CASE Arrive
    BY <1>0, <2>1, <2>2 DEF Arrive, Pages
  <2>3. CASE Stall
    BY <1>0, <2>3 DEF Stall, Pages
  <2> QED
    BY <2>2, <2>3
<1>2. Date' = Date /\ Around(c)' = Around(c)
  BY <1>0 DEF Date, Around
<1>3. PageAt(scanner.pc)'
  BY <1>0, <1>1, <1>2 DEF PageAt
<1>4. TypeOK' /\ LocalsAt(scanner.pc)' /\ CountAt(scanner.pc)' /\ ReadingsAreTheirOwn'
  BY <1>0, <1>1 DEF ScanInv, TypeOK, LocalsAt, Date, CountAt, ReadingsAreTheirOwn
<1> QED
  BY <1>3, <1>4 DEF ScanInv

LEMMA ScanInit == Init => ScanInv
<1> SUFFICES ASSUME Init
             PROVE  ScanInv
  OBVIOUS
<1>1. Elsewhere \in Screens /\ 1 \in Centres /\ 0 \in 0 .. MaxDates /\ 0 \in 0 .. NumCentres
  BY BrowserScanAssumption DEF Screens, Centres
<1>2. /\ page \in Pages /\ scanner \in Scanners
      /\ scanner.pc = "auth" /\ scanner.goal = "centre" /\ scanner.centre = 1
      /\ scanner.offered = 0
  BY <1>1 DEF Init, Pages, Scanners, Steps
<1>3. /\ days = <<>> /\ results = <<>> /\ Len(days) = 0 /\ Len(results) = 0
      /\ days \in Seq(DatesRead) /\ results \in Seq(Results)
  BY EmptySeq DEF Init
<1>4. TypeOK
  <2>1. 0 <= NumCentres
    BY BrowserScanAssumption
  <2>2. config \in [back: BOOLEAN, month: BOOLEAN]
    BY DEF Init
  <2> QED
    BY <1>2, <1>3, <2>1, <2>2 DEF TypeOK
<1>5. PageAt("auth") /\ LocalsAt("auth") /\ CountAt("auth")
  BY <1>2, <1>3 DEF PageAt, LocalsAt, CountAt, OpenSteps, DateSteps, BackSteps,
     LeaveSteps, Ended
<1>6. ReadingsAreTheirOwn
  BY <1>3 DEF ReadingsAreTheirOwn, TakenWhere
<1> QED
  BY <1>2, <1>4, <1>5, <1>6 DEF ScanInv

LEMMA ScanInductive == ScanInv /\ [Next]_vars => ScanInv'
<1> SUFFICES ASSUME ScanInv, [Next]_vars
             PROVE  ScanInv'
  OBVIOUS
<1>1. CASE ScanStep
  BY <1>1, LooseStepsKeep, ReplayKeeps, SearchKeeps, CardKeeps, SelectKeeps,
     CalendarReadyKeeps, DatesKeeps, PickKeeps, DatesDoneKeeps, TimesKeep,
     BackKeeps, LeavingKeeps DEF ScanStep
<1>2. CASE Arrive \/ Stall
  BY <1>2, PageKeeps
<1>3. CASE UNCHANGED vars
  BY <1>3 DEF vars, ScanInv, TypeOK, PageAt, LocalsAt, CountAt, Date, Around,
     ReadingsAreTheirOwn
<1> QED
  BY <1>1, <1>2, <1>3 DEF Next, Over

\* The scanner, the page and what was collected keep their types, and the scan
\* never collects more dates than the calendar offered, nor more results than
\* it was asked for (AvailabilityScanner.scan).
THEOREM TypeCorrect == Spec => [](TypeOK /\ ScanInv)
<1>1. ScanInv => TypeOK
  BY DEF ScanInv
<1> QED
  BY <1>1, ScanInit, ScanInductive, PTL DEF Spec

\* However late a screen comes up, no date is reported with the times of
\* another, and no centre with the calendar of another (scan_centre,
\* _return_to_calendar, _reach_service_centre_screen).
THEOREM ReadingsNeverMix == Spec => []ReadingsAreTheirOwn
<1>1. ScanInv => ReadingsAreTheirOwn
  BY DEF ScanInv
<1> QED
  BY <1>1, TypeCorrect, PTL

-----------------------------------------------------------------------------
(* Nothing is lost *)

\* A result takes all that was collected, or there was nothing.
LEMMA FinishTakesTheDays ==
  ASSUME ScanInv, NEW status, NEW read, Finish(status, read)
  PROVE  /\ Len(results') = Len(results) + 1 /\ results'[Len(results')].days = read
         /\ days' = days
<1>1. /\ results' = Append(results, Result(status, scanner.from, scanner.offered, read))
      /\ days' = days /\ Len(results) \in Nat
  BY DEF Finish, ScanInv, TypeOK
<1> QED
  BY <1>1 DEF Result

LEMMA NoResultNoLoss ==
  ASSUME ScanInv, results' = results,
         \/ days' = days
         \/ \E new \in DatesRead : days' = Append(days, new)
         \/ Len(results) = scanner.centre
  PROVE  KeepsTheDays
<1>1. Len(results) \in Nat /\ Len(days) \in Nat /\ days \in Seq(DatesRead)
  BY LenProperties DEF ScanInv, TypeOK
<1>2. ASSUME NEW new \in DatesRead, days' = Append(days, new)
      PROVE  Len(days') = Len(days) + 1
  BY <1>1, <1>2, AppendProperties
<1> QED
  BY <1>1, <1>2 DEF KeepsTheDays

LEMMA FinishKeepsTheDays ==
  ASSUME ScanInv, NEW status, NEW read, Finish(status, read),
         days = <<>> \/ /\ DOMAIN read = DOMAIN days
                        /\ \A i \in DOMAIN days : read[i].from = days[i].from
                        /\ Len(read) < scanner.offered => read[Len(read)].error = "return"
  PROVE  KeepsTheDays
<1>1. Len(days) \in Nat
  BY LenProperties DEF ScanInv, TypeOK
<1> QED
  BY <1>1, FinishTakesTheDays DEF KeepsTheDays

LEMMA FailsKeepsTheDays ==
  ASSUME ScanInv, scanner.pc \in OpenSteps \cup {"pick", "timeReady"} \cup BackSteps,
         FailsOf, scanner.pc \in {"pick", "timeReady"} => Date <= scanner.offered
  PROVE  KeepsTheDays
<1> DEFINE c == scanner.centre
<1>0. /\ scanner \in Scanners /\ days \in Seq(DatesRead) /\ Len(days) \in Nat
      /\ scanner.goal \in {"centre", "calendar"} /\ DOMAIN days = 1 .. Len(days)
      /\ LocalsAt(scanner.pc)
  BY Typed, LenProperties DEF ScanInv, TypeOK
<1>1. CASE scanner.pc \in OpenSteps /\ scanner.goal = "centre"
  <2>1. Finish("error", <<>>) /\ days = <<>>
    BY <1>0, <1>1 DEF FailsOf, OpenSteps, DateSteps, BackSteps, LocalsAt
  <2> QED
    BY <2>1, FinishKeepsTheDays
<1>2. CASE scanner.pc \in OpenSteps /\ scanner.goal = "calendar"
  <2> DEFINE read == [days EXCEPT ![Len(days)].error = "return"]
  <2>1. Finish("read", read) /\ days # <<>>
    BY <1>0, <1>2 DEF FailsOf, ReturnFails, OpenSteps, DateSteps, BackSteps, LocalsAt
  <2>2. Len(days) \in DOMAIN days
    BY <1>0, <2>1, EmptySeq
  <2>3. DOMAIN read = DOMAIN days
    OBVIOUS
  <2>4. \A i \in DOMAIN days : days[i] \in DatesRead
    BY <1>0, ElementOfSeq
  <2>5. \A i \in DOMAIN days : read[i].from = days[i].from
    BY <2>4 DEF DatesRead
  <2>6. read[Len(days)].error = "return"
    BY <2>2, <2>4 DEF DatesRead
  <2>7. Len(read) = Len(days)
    OBVIOUS
  <2>8. /\ Finish("read", read) /\ DOMAIN read = DOMAIN days
        /\ \A i \in DOMAIN days : read[i].from = days[i].from
        /\ read[Len(read)].error = "return"
    BY <2>1, <2>3, <2>5, <2>6, <2>7
  <2> HIDE DEF read
  <2> QED
    BY <2>8, FinishKeepsTheDays
<1>3. CASE scanner.pc \in {"pick", "timeReady"}
  <2> DEFINE new == Day(Date, Elsewhere, "times")
  <2>1. days' = Append(days, new) /\ results' = results
    BY <1>3 DEF FailsOf, OpenSteps, DateSteps, BackSteps
  <2>3. Date \in Dates
    BY <1>3, NextDate
  <2>4. new \in DatesRead
    BY <2>3 DEF Day, DatesRead, Screens
  <2> QED
    BY <2>1, <2>4, NoResultNoLoss
<1>4. CASE scanner.pc \in BackSteps
  <2>1. UNCHANGED <<days, results>>
    BY <1>4 DEF FailsOf, OpenSteps, DateSteps, BackSteps
  <2> QED
    BY <2>1, NoResultNoLoss
<1> QED
  BY <1>0, <1>1, <1>2, <1>3, <1>4

LEMMA StepsKeepTheDays ==
  ASSUME ScanInv, ScanStep
  PROVE  KeepsTheDays
<1>0. /\ LocalsAt(scanner.pc) /\ CountAt(scanner.pc) /\ days \in Seq(DatesRead)
      /\ Len(days) \in Nat /\ DOMAIN days = 1 .. Len(days)
  BY LenProperties DEF ScanInv, TypeOK
<1>1. CASE UNCHANGED <<days, results>>
  BY <1>1, NoResultNoLoss
<1>2. ASSUME NEW why, Raise(why)
      PROVE  KeepsTheDays
  BY <1>1, <1>2 DEF Raise
<1>3. CASE Authenticate \/ Reach \/ Leave \/ LeaveBack \/ LeaveReady
  <2>1. CASE Authenticate \/ Reach
    BY <1>1, <1>2, <2>1 DEF Authenticate, Reach
  <2>2. CASE Leave \/ LeaveBack \/ LeaveReady
    <3>1. Len(results) = scanner.centre
      BY <1>0, <2>2 DEF CountAt, Leave, LeaveBack, LeaveReady, At, LeaveSteps
    <3>2. results' = results
      BY <2>2 DEF Leave, LeaveBack, LeaveReady, NextCentre, Raise
    <3> QED
      BY <3>1, <3>2, NoResultNoLoss
  <2> QED
    BY <1>3, <2>1, <2>2
<1>4. CASE ReplayWizard
  BY <1>1, <1>2, <1>4, FailsKeepsTheDays DEF ReplayWizard, At, OpenSteps
<1>5. CASE CentresReady \/ Search \/ CalendarReady
  BY <1>1, <1>5, FailsKeepsTheDays
     DEF CentresReady, Search, CalendarReady, WaitFor, Fails, At, OpenSteps
<1>6. CASE ReadCard
  <2>1. scanner.pc = "card" /\ days = <<>>
    BY <1>0, <1>6 DEF ReadCard, At, LocalsAt, OpenSteps
  <2>2. CASE Finish("unavailable", <<>>) \/ Finish("missing", <<>>)
    BY <2>1, <2>2, FinishKeepsTheDays
  <2> QED
    BY <1>1, <1>6, <2>1, <2>2, FailsKeepsTheDays DEF ReadCard, Fails, OpenSteps
<1>7. CASE Select
  BY <1>1, <1>2, <1>7, FailsKeepsTheDays DEF Select, ClickOn, Fails, At, OpenSteps
<1>8. CASE ReadDates
  BY <1>1, <1>2, <1>8 DEF ReadDates
<1>9. CASE Pick
  BY <1>1, <1>2, <1>9, FailsKeepsTheDays DEF Pick, ClickOn, Fails, At
<1>10. CASE DatesDone
  <2>1. Finish("read", days) /\ Len(days) + 1 > scanner.offered
    BY <1>10 DEF DatesDone, Date
  <2>2. scanner.offered \in Nat
    <3>1. scanner.offered \in 0 .. MaxDates
      BY Typed DEF Scanners
    <3> QED
      BY <3>1, BrowserScanAssumption
  <2>3. ~(Len(days) < scanner.offered)
    BY <1>0, <2>1, <2>2
  <2> QED
    BY <2>1, <2>3, FinishKeepsTheDays
<1>11. CASE TimeReady
  <2>1. scanner.pc = "timeReady" /\ Date <= scanner.offered
    BY <1>0, <1>11 DEF TimeReady, At, LocalsAt
  <2> QED
    BY <1>1, <1>11, <2>1, FailsKeepsTheDays DEF TimeReady, WaitFor, Fails
<1>12. CASE ReadSlots
  <2>1. /\ scanner.pc = "slots" /\ days' = Append(days, Day(Date, page.screen, ""))
        /\ results' = results /\ Date <= scanner.offered
    BY <1>0, <1>12 DEF ReadSlots, At, LocalsAt
  <2>2. page.screen \in Screens
    BY Typed
  <2>3. Date \in Dates
    BY <2>1, NextDate
  <2>4. Day(Date, page.screen, "") \in DatesRead
    BY <2>2, <2>3 DEF Day, DatesRead
  <2> QED
    BY <2>1, <2>4, NoResultNoLoss
<1>13. CASE Back \/ BackReady
  BY <1>1, <1>2, <1>13, FailsKeepsTheDays
     DEF Back, BackReady, ClickOn, WaitFor, Fails, At, BackSteps
<1> QED
  BY <1>3, <1>4, <1>5, <1>6, <1>7, <1>8, <1>9, <1>10, <1>11, <1>12, <1>13 DEF ScanStep

\* Every date that was read stays with its centre until the centre has its
\* result, the result lists them all, and one that lists fewer than the calendar
\* offered says that the way back failed (_scan_dates, _return_to_calendar).
THEOREM ReadingsAreKept == Spec => NothingReadIsLost
<1>1. ScanInv /\ [Next]_vars => [KeepsTheDays]_vars
  <2> SUFFICES ASSUME ScanInv, Next
               PROVE  KeepsTheDays
    BY DEF vars
  <2>1. CASE ScanStep
    BY <2>1, StepsKeepTheDays
  <2>2. CASE ~ScanStep
    <3>1. UNCHANGED <<days, results>>
      BY <2>2 DEF Next, Arrive, Stall, Over, vars
    <3> QED
      BY <3>1, NoResultNoLoss
  <2> QED
    BY <2>1, <2>2
<1> QED
  BY <1>1, TypeCorrect, PTL DEF Spec, NothingReadIsLost
=============================================================================

------------------------------ MODULE BrowserScan ------------------------------
(***************************************************************************)
(* One scan through the wizard in a browser (AvailabilityScanner, the      *)
(* start of FlowEngine.prepare and the page objects it reads with):        *)
(* service centres, the calendar of each, the times of each date.          *)
(*                                                                         *)
(* The other party is the page.  A click returns while the screen it was   *)
(* made on is still mounted under a spinner; the screen it leads to comes  *)
(* up later, after the scanner has given up waiting for it, or not at all. *)
(* The spinner takes the clicks (Playwright waits and then raises an error *)
(* of its own, no HscMonitorError), but what is under it is still seen     *)
(* and its search box can still be typed into.                             *)
(*                                                                         *)
(* A centre is its position in the list asked for, a date its position in  *)
(* the calendar.  Readings carry the screen they were taken from.          *)
(***************************************************************************)
EXTENDS Naturals, Sequences

CONSTANTS
    NumCentres,  \* centres the scan is asked for
    MaxDates     \* bound: enabled days a calendar may show

ASSUME BrowserScanAssumption ==
    NumCentres \in Nat \ {0} /\ MaxDates \in Nat \ {0}

VARIABLES
    config,   \* which of the TODO selectors are filled in
    page,     \* the browser: its screen, and the screen a click has asked for
    scanner,  \* where the scan is, and its locals
    days,     \* _scan_dates.collected
    results   \* scan.results

vars == <<config, page, scanner, days, results>>

-----------------------------------------------------------------------------
(* Values *)

Centres == 1 .. NumCentres
Dates == 1 .. MaxDates

\* A screen, with the centre and the date it is about (0: none).  "category"
\* is the screen category A is clicked on, "elsewhere" anything before it.
Screen(at, centre, date) == [at |-> at, centre |-> centre, date |-> date]
Elsewhere == Screen("elsewhere", 0, 0)
Category == Screen("category", 0, 0)
CentreList == Screen("centres", 0, 0)
Calendar(c) == Screen("calendar", c, 0)
Times(c, d) == Screen("time", c, d)
Screens == {Elsewhere, Category, CentreList} \cup {Calendar(c) : c \in Centres}
           \cup {Times(c, d) : c \in Centres, d \in Dates}
\* No click is on its way.
Settled == Screen("settled", 0, 0)

\* What wizard.back leads to.
Previous(screen) ==
    CASE screen.at = "time"     -> Calendar(screen.centre)
      [] screen.at = "calendar" -> CentreList
      [] OTHER                  -> Category

\* DateAvailability, with the screen the times were read from.
Day(date, from, error) == [date |-> date, from |-> from, error |-> error]
\* CentreAvailability, with the screen its dates were read from and how many
\* there were.
Result(status, from, offered, read) ==
    [status |-> status, from |-> from, offered |-> offered, days |-> read]

\* The steps that open a centre or bring its calendar back, those that read
\* one date, the return to the calendar, and the way out of a centre.
OpenSteps == {"reach", "replay", "centresReady", "search", "card", "select",
              "calendarReady", "dates"}
DateSteps == {"pick", "timeReady", "slots"}
BackSteps == {"back", "backReady"}
LeaveSteps == {"leave", "leaveBack", "leaveReady"}
Ended == {"done", "raised"}
Steps == {"auth"} \cup OpenSteps \cup DateSteps \cup BackSteps \cup LeaveSteps
         \cup Ended

Pages == [screen: Screens, pending: Screens \cup {Settled}, filter: 0 .. NumCentres]
Scanners == [pc: Steps, centre: Centres, goal: {"centre", "calendar"}, from: Screens,
             offered: 0 .. MaxDates, why: {"", "auth", "selector", "playwright"}]
DatesRead == [date: Dates, from: Screens, error: {"", "times", "return"}]
Results == [status: {"missing", "unavailable", "error", "read"}, from: Screens,
            offered: 0 .. MaxDates, days: Seq(DatesRead)]

TypeOK ==
    /\ config \in [back: BOOLEAN, month: BOOLEAN]
    /\ page \in Pages
    /\ scanner \in Scanners
    /\ days \in Seq(DatesRead) /\ Len(days) <= scanner.offered
    /\ results \in Seq(Results) /\ Len(results) <= NumCentres

Init ==
    /\ config \in [back: BOOLEAN, month: BOOLEAN]
    /\ page = [screen |-> Elsewhere, pending |-> Settled, filter |-> 0]
    /\ scanner = [pc |-> "auth", centre |-> 1, goal |-> "centre",
                  from |-> Elsewhere, offered |-> 0, why |-> ""]
    /\ days = <<>>
    /\ results = <<>>

-----------------------------------------------------------------------------
(* The page *)

\* The screen a click asked for comes up, however long nobody waits for it.
Arrive ==
    /\ page.pending # Settled
    /\ page' = [page EXCEPT !.screen = page.pending, !.pending = Settled, !.filter = 0]
    /\ UNCHANGED <<config, scanner, days, results>>

\* The transition fails: the spinner goes and the screen under it stays.
Stall ==
    /\ page.pending # Settled
    /\ page' = [page EXCEPT !.pending = Settled]
    /\ UNCHANGED <<config, scanner, days, results>>

\* A click that is taken: the old screen stays up under the spinner.
Click(to) == page.pending = Settled /\ page' = [page EXCEPT !.pending = to]

Covered == page.pending # Settled

-----------------------------------------------------------------------------
(* Where the scan goes on, and where an error takes it *)

At(step) == scanner.pc = step
Date == Len(days) + 1

Goto(step) == scanner' = [scanner EXCEPT !.pc = step]

\* raise out of scan: an error of Playwright's own is caught nowhere.
Raise(why) ==
    /\ scanner' = [scanner EXCEPT !.pc = "raised", !.why = why]
    /\ UNCHANGED <<page, days, results>>

\* scan_centre returns a result; its `finally` leaves the centre.
Finish(status, read) ==
    /\ results' = Append(results, Result(status, scanner.from, scanner.offered, read))
    /\ Goto("leave")
    /\ UNCHANGED days

\* _scan_dates could not return: the last date says so, the others are kept.
ReturnFailsDiscarding == Finish("error", <<>>)
ReturnFails == Finish("read", [days EXCEPT ![Len(days)].error = "return"])

\* Where an HscMonitorError of each step is caught.
FailsOf ==
    CASE scanner.pc \in OpenSteps /\ scanner.goal = "centre" -> Finish("error", <<>>)
      [] scanner.pc \in OpenSteps /\ scanner.goal = "calendar" -> ReturnFails
      [] scanner.pc \in DateSteps ->
            /\ days' = Append(days, Day(Date, Elsewhere, "times"))
            /\ Goto("back")
            /\ UNCHANGED results
      [] scanner.pc \in BackSteps ->
            /\ scanner' = [scanner EXCEPT !.pc = "replay", !.goal = "calendar"]
            /\ UNCHANGED <<days, results>>
Fails == FailsOf /\ UNCHANGED page

\* The next centre, or the end of scan; also where _leave_centre swallows.
NextCentre ==
    /\ scanner' = IF scanner.centre = NumCentres
                  THEN [scanner EXCEPT !.pc = "done"]
                  ELSE [scanner EXCEPT !.pc = "reach", !.goal = "centre",
                                       !.from = Elsewhere, !.offered = 0,
                                       !.centre = scanner.centre + 1]
    /\ days' = <<>>
    /\ UNCHANGED <<page, results>>

\* A click on a control: taken; covered by the spinner until Playwright gives
\* up; or the control is not on the screen (LocatorNotFound, or a card or day
\* that is gone or disabled by now).
ClickOn(shown, to, then) ==
    \/ shown /\ Click(to) /\ Goto(then) /\ UNCHANGED <<days, results>>
    \/ shown /\ Covered /\ Raise("playwright")
    \/ Fails

\* wait_for_screen: the marker is seen, or the wait times out.
WaitFor(up, then) ==
    IF up THEN Goto(then) /\ UNCHANGED <<page, days, results>> ELSE Fails

-----------------------------------------------------------------------------
(* The scan *)

\* ensure_authenticated, once.
Authenticate ==
    /\ At("auth")
    /\ \/ Goto("reach") /\ UNCHANGED <<page, days, results>>
       \/ Raise("auth")

\* _reach_service_centre_screen: SEARCH on screen now, spinner or not.
Reach ==
    /\ At("reach")
    /\ Goto(IF page.screen = CentreList THEN "search" ELSE "replay")
    /\ UNCHANGED <<page, days, results>>

\* prepare: the guard opens the cabinet (a navigation, which drops whatever
\* was on its way), then the chain is clicked, category A last.
ReplayWizard ==
    /\ At("replay")
    /\ \/ /\ page' = [screen |-> Category, pending |-> CentreList, filter |-> 0]
          /\ Goto("centresReady")
          /\ UNCHANGED <<days, results>>
       \/ page' = [screen |-> Elsewhere, pending |-> Settled, filter |-> 0] /\ FailsOf
       \/ Raise("playwright")

CentresReady == At("centresReady") /\ WaitFor(page.screen = CentreList, "search")

\* search_department: clear, type, and wait for a card; a list without one is
\* no error.  _replay_to_calendar goes straight on to the card.
Search ==
    /\ At("search")
    /\ \/ /\ page.screen = CentreList
          /\ page' = [page EXCEPT !.filter = scanner.centre]
          /\ Goto(IF scanner.goal = "centre" THEN "card" ELSE "select")
          /\ UNCHANGED <<days, results>>
       \/ page.screen # CentreList /\ Fails

\* get_department_availability: the card is enabled, disabled, not there (or
\* not yet), or there twice.
ReadCard ==
    /\ At("card")
    /\ \/ /\ page.screen = CentreList /\ page.filter = scanner.centre
          /\ \/ Goto("select") /\ UNCHANGED <<page, days, results>>
             \/ Finish("unavailable", <<>>) /\ UNCHANGED page
             \/ Fails
       \/ Finish("missing", <<>>) /\ UNCHANGED page

CardShown == page.screen = CentreList /\ page.filter = scanner.centre

Select == At("select") /\ ClickOn(CardShown, Calendar(scanner.centre), "calendarReady")

CalendarReady ==
    /\ At("calendarReady")
    /\ WaitFor(page.screen.at = "calendar",
               IF scanner.goal = "centre" THEN "dates" ELSE "pick")

ReadDates ==
    /\ At("dates")
    /\ \/ /\ ~config.month
          /\ Raise("selector")
       \/ /\ config.month
          /\ \E n \in 0 .. MaxDates :
                /\ page.screen.at # "calendar" => n = 0
                /\ scanner' = [scanner EXCEPT !.from = page.screen, !.offered = n,
                                           !.pc = "pick"]
          /\ UNCHANGED <<page, days, results>>

\* select_date: inside the month of its own date, one enabled button or none.
Pick ==
    /\ At("pick") /\ Date <= scanner.offered
    /\ ClickOn(page.screen.at = "calendar", Times(page.screen.centre, Date), "timeReady")

\* No date left: the centre is read.
DatesDone ==
    At("pick") /\ Date > scanner.offered /\ Finish("read", days) /\ UNCHANGED page

TimeShownUnwaited == TRUE
TimeShown == page.screen.at = "time"
TimeReady == At("timeReady") /\ WaitFor(TimeShown, "slots")

\* available_slots: the times on the screen, none of them being an answer too.
ReadSlots ==
    /\ At("slots")
    /\ days' = Append(days, Day(Date, page.screen, ""))
    /\ Goto("back")
    /\ UNCHANGED <<page, results>>

\* _click_back, from the times.
Back ==
    /\ At("back")
    /\ IF config.back
       THEN ClickOn(page.screen # Elsewhere, Previous(page.screen), "backReady")
       ELSE Fails

BackReady == At("backReady") /\ WaitFor(page.screen.at = "calendar", "pick")

\* _leave_centre: stay on the centres, or press Back if there is one.
Leave ==
    /\ At("leave")
    /\ IF page.screen = CentreList \/ ~config.back
       THEN NextCentre
       ELSE Goto("leaveBack") /\ UNCHANGED <<page, days, results>>

LeaveBack ==
    /\ At("leaveBack")
    /\ \/ /\ page.screen # Elsewhere
          /\ Click(Previous(page.screen))
          /\ Goto("leaveReady")
          /\ UNCHANGED <<days, results>>
       \/ page.screen # Elsewhere /\ Covered /\ Raise("playwright")
       \/ NextCentre

\* The wait ends with the centres on screen or with its error swallowed.
LeaveReady == At("leaveReady") /\ NextCentre

ScanStep ==
    /\ \/ Authenticate \/ Reach \/ ReplayWizard \/ CentresReady \/ Search
       \/ ReadCard \/ Select \/ CalendarReady \/ ReadDates \/ Pick \/ DatesDone
       \/ TimeReady \/ ReadSlots \/ Back \/ BackReady
       \/ Leave \/ LeaveBack \/ LeaveReady
    /\ UNCHANGED config

Over == scanner.pc \in Ended /\ UNCHANGED vars

Next == ScanStep \/ Arrive \/ Stall \/ Over

Spec == Init /\ [][Next]_vars

-----------------------------------------------------------------------------
(* Correctness *)

TakenFrom(centre, day) ==
    /\ day.from \in {Elsewhere, Times(centre, day.date)}
    /\ day.error = "" => day.from # Elsewhere
TakenWhere(centre, read) == \A i \in DOMAIN read : TakenFrom(centre, read[i])

\* Every date a result lists was on the calendar of that very centre, and
\* every answer about its times, "no available times" included, was read off
\* the time screen of that centre and that date: no late transition, reused
\* screen or replay lends one date the screen of another (scan_centre,
\* _return_to_calendar, _reach_service_centre_screen).
ReadingsAreTheirOwn ==
    /\ \A c \in DOMAIN results :
          /\ results[c].status = "read" => results[c].from = Calendar(c)
          /\ TakenWhere(c, results[c].days)
    /\ TakenWhere(scanner.centre, days)

\* What any one step does with the dates collected.
KeepsTheDays ==
    /\ Len(results') > Len(results) /\ days # <<>> =>
          LET kept == results'[Len(results')].days IN
          /\ [i \in DOMAIN kept |-> kept[i].from] = [i \in DOMAIN days |-> days[i].from]
          /\ Len(kept) < scanner.offered => kept[Len(kept)].error = "return"
    /\ Len(days') < Len(days) => Len(results) = scanner.centre

\* As long as scan returns at all, a date that was read is reported: whatever
\* happens on the way back to the calendar or out of the centre, the dates
\* collected stay with their centre, and a centre that reports fewer dates
\* than its calendar showed says so on the last one.
NothingReadIsLost == [][KeepsTheDays]_vars

\* Does not hold (README.md): "A site failure becomes a result rather than an exception, so one bad
\* centre does not cost the others" (scan_centre).
SiteFailureIsAResult == scanner.pc = "raised" => scanner.why # "playwright"
=============================================================================

----------------------------- MODULE CallbackWatch -----------------------------
(***************************************************************************)
(* What comes of a submitted key (LoginPage._wait_for_callback): a loop    *)
(* that looks at the page four times a second until it is handed back to   *)
(* HSC, or until what it saw amounts to one of five failures.  Each look   *)
(* is a series of probes with an await between them, and the page moves on *)
(* between any two.                                                        *)
(*                                                                         *)
(* A tick is one poll; the controls that make up one screen are probed as  *)
(* one.  The key form stays mounted under the overlay, so only the overlay *)
(* tells a form that is being read from one handed back.                   *)
(***************************************************************************)
EXTENDS Naturals

CONSTANTS
    FormPolls,     \* _STABLE_POLLS_FORM_RETURNED
    ScreenPolls,   \* _STABLE_POLLS_NEW_SCREEN
    Deadline,      \* timeouts.authentication, in polls
    Stall          \* the default timeout of a locator, in polls

ASSUME WatchAssumption ==
    /\ FormPolls \in Nat \ {0} /\ ScreenPolls \in Nat \ {0}
    /\ Deadline \in Nat /\ Stall \in Nat \ {0}

VARIABLES
    pc,         \* the next probe of the loop, or what it ended in
    screen,     \* what the browser shows
    textNew,    \* its text is not the one captured last
    markers,    \* which optional markers are configured
    url,        \* the URL as this poll read it
    started,    \* processing_started
    changed,    \* screen_changed
    polls,      \* form_back_polls and other_screen_polls
    confirmed,  \* user_data_confirmed
    clock,      \* polls since the submit
    waited,     \* polls spent in resolve() of the present probe
    read,       \* observer: the overlay was seen
    streak      \* observer: what the last polls found, one after the other

locals == <<url, started, changed, polls, confirmed, waited>>
observed == <<read, streak>>
vars == <<pc, screen, textNew, markers, locals, clock, observed>>

-----------------------------------------------------------------------------
(* Values *)

\* "form" and "greyed" are the key form with its button enabled or not,
\* "overlay" the form under the dimmer, "data" the user-data confirmation,
\* "other" a screen of ID.GOV.UA nobody has seen, "away" any third host.
Screens == {"form", "greyed", "overlay", "data", "error", "other", "away", "hsc"}
FormScreens == {"form", "greyed", "overlay"}
Failures == {"reset", "intermediate", "rejected", "stuck", "late", "raised"}
Probes == {"url", "busy", "error", "data", "confirm", "form", "submit", "time",
           "sleep"}

HostOf(s) == IF s \in {"away", "hsc"} THEN s ELSE "idgov"

AtMost(n, cap) == IF n <= cap THEN n ELSE cap

TypeOK ==
    /\ pc \in Probes \cup Failures \cup {"callback"}
    /\ screen \in Screens
    /\ textNew \in BOOLEAN
    /\ markers \subseteq {"processing", "error"}
    /\ url \in {"idgov", "away"}
    /\ started \in BOOLEAN /\ changed \in BOOLEAN /\ confirmed \in BOOLEAN
    /\ polls \in [form: 0 .. FormPolls, other: 0 .. ScreenPolls]
    /\ clock \in 0 .. Deadline + Stall
    /\ waited \in 0 .. Stall
    /\ read \in BOOLEAN
    /\ streak \in [clickable: Nat, still: Nat, unknown: Nat]

-----------------------------------------------------------------------------
(* The decisions of the code, each with the slips it could have been         *)
(* written with beside it.                                                   *)

\* _reset_is_possible: with the overlay configured it must have been seen.
ResetOnAnyChange == changed
ResetPossible == IF "processing" \in markers THEN started ELSE changed

\* Whether time is up.  The overlay has a check of its own, for nothing after
\* it runs while it is up.
ExpiredWhenIdle(busy) == ~busy /\ clock >= Deadline
Expired(busy) == clock >= Deadline

\* The counters after a poll that found the overlay, the user-data screen or
\* another text.
Keep(ps) == ps
Reset(ps) == [form |-> 0, other |-> 0]

\* The counters after a poll that found the key form, or nothing known.
FormSeen(ps) == [ps EXCEPT !.other = 0]
UnknownKeepsForm(ps) == [ps EXCEPT !.other = AtMost(@ + 1, ScreenPolls)]
UnknownSeen(ps) == [form |-> 0, other |-> AtMost(ps.other + 1, ScreenPolls)]

\* The form has been back for long enough.
Enough(ps) == ps.form >= FormPolls

\* The user-data screen is confirmed once.
Confirms(done) == ~done

-----------------------------------------------------------------------------
(* The loop *)

Init ==
    /\ pc = "url"
    /\ screen \in {"form", "greyed", "overlay"}
    /\ textNew \in BOOLEAN
    /\ markers \in SUBSET {"processing", "error"}
    /\ url = "idgov"
    /\ started = FALSE /\ changed = FALSE /\ confirmed = FALSE
    /\ polls = [form |-> 0, other |-> 0]
    /\ clock = 0 /\ waited = 0
    /\ read = FALSE
    /\ streak = [clickable |-> 0, still |-> 0, unknown |-> 0]

world == <<screen, markers>>

\* Observer: what a poll found.  "still" counts the polls that found a
\* clickable form since anything else than a form was last on screen.
Found(finding) ==
    streak' =
        [clickable |-> IF finding = "clickable"
                          THEN AtMost(streak.clickable + 1, FormPolls) ELSE 0,
         still |-> CASE finding = "clickable" ->
                           AtMost(streak.still + 1, FormPolls)
                     [] finding = "form" -> streak.still
                     [] OTHER -> 0,
         unknown |-> IF finding = "unknown"
                        THEN AtMost(streak.unknown + 1, ScreenPolls) ELSE 0]

\* The callback outranks everything; else the text is compared.  A text that
\* cannot be captured changes nothing.
ReadUrl ==
    /\ pc = "url"
    /\ IF screen = "hsc"
          THEN pc' = "callback" /\ UNCHANGED <<textNew, locals, streak>>
          ELSE /\ pc' = "busy"
               /\ url' = HostOf(screen)
               /\ \/ /\ textNew /\ textNew' = FALSE
                     /\ changed' = TRUE
                     /\ polls' = Reset(polls)
                     /\ Found("text")
                  \/ UNCHANGED <<textNew, changed, polls, streak>>
               /\ UNCHANGED <<started, confirmed, waited>>
    /\ UNCHANGED <<world, clock, read>>

\* Nothing is classified while the overlay is up.
Busy ==
    /\ pc = "busy" /\ "processing" \in markers /\ screen = "overlay"
    /\ started' = TRUE /\ read' = TRUE
    /\ polls' = Reset(polls)
    /\ Found("busy")
    /\ pc' = IF Expired(TRUE) THEN "stuck" ELSE "sleep"
    /\ UNCHANGED <<world, textNew, url, changed, confirmed, waited, clock>>

NotBusy ==
    /\ pc = "busy" /\ ~("processing" \in markers /\ screen = "overlay")
    /\ pc' = "error"
    /\ UNCHANGED <<world, textNew, locals, clock, observed>>

ProbeError ==
    /\ pc = "error"
    /\ pc' = IF "error" \in markers /\ url = "idgov" /\ screen = "error"
                THEN "rejected" ELSE "data"
    /\ UNCHANGED <<world, textNew, locals, clock, observed>>

ProbeUserData ==
    /\ pc = "data"
    /\ IF screen = "data"
          THEN /\ polls' = Reset(polls)
               /\ Found("data")
               /\ confirmed' = TRUE
               /\ pc' = IF Confirms(confirmed) THEN "confirm" ELSE "time"
          ELSE pc' = "form" /\ UNCHANGED <<polls, confirmed, streak>>
    /\ UNCHANGED <<world, textNew, url, started, changed, waited, clock, read>>

\* _confirm_user_data: the button is resolved again, and waited for.
ConfirmUserData ==
    /\ pc = "confirm"
    /\ \/ screen = "data" /\ pc' = "time"
       \/ pc' = "raised"
    /\ UNCHANGED <<world, textNew, locals, clock, read, streak>>

\* _key_form_present: all three controls.
ProbeForm ==
    /\ pc = "form"
    /\ IF screen \in FormScreens
          THEN /\ polls' = FormSeen(polls)
               /\ UNCHANGED changed
               /\ IF ResetPossible
                     THEN pc' = "submit" /\ UNCHANGED streak
                     ELSE pc' = "time" /\ Found("form")
          ELSE /\ polls' = UnknownSeen(polls)
               /\ changed' = TRUE
               /\ Found("unknown")
               /\ pc' = IF url = "idgov" /\ polls'.other >= ScreenPolls
                           THEN "intermediate" ELSE "time"
    /\ UNCHANGED <<world, textNew, url, started, confirmed, waited, clock, read>>

\* _submit_is_enabled, the button being there.
ProbeSubmit ==
    /\ pc = "submit" /\ screen \in FormScreens
    /\ waited' = 0
    /\ IF screen = "greyed"
          THEN pc' = "time" /\ Found("form") /\ UNCHANGED polls
          ELSE /\ polls' = [polls EXCEPT !.form = @ + 1]
               /\ Found("clickable")
               /\ pc' = IF Enough(polls') THEN "reset" ELSE "time"
    /\ UNCHANGED <<world, textNew, url, started, changed, confirmed, clock, read>>

\* The button has gone since the form was probed: resolve() takes a timeout of
\* zero for none given, and waits for it as long as for any locator.
SubmitGone ==
    /\ pc = "submit" /\ screen \notin FormScreens
    /\ IF waited < Stall
          THEN /\ waited' = waited + 1 /\ clock' = AtMost(clock + 1, Deadline + Stall)
               /\ UNCHANGED <<pc, streak>>
          ELSE /\ waited' = 0 /\ pc' = "time" /\ Found("form")
               /\ UNCHANGED clock
    /\ UNCHANGED <<world, textNew, url, started, changed, polls, confirmed, read>>

TimeIsUp ==
    /\ pc = "time"
    /\ pc' = IF Expired(FALSE) THEN "late" ELSE "sleep"
    /\ UNCHANGED <<world, textNew, locals, clock, observed>>

Sleep ==
    /\ pc = "sleep"
    /\ pc' = "url"
    /\ clock' = AtMost(clock + 1, Deadline + Stall)
    /\ UNCHANGED <<world, textNew, locals, observed>>

Look ==
    \/ ReadUrl \/ Busy \/ NotBusy \/ ProbeError \/ ProbeUserData
    \/ ConfirmUserData \/ ProbeForm \/ ProbeSubmit \/ SubmitGone
    \/ TimeIsUp \/ Sleep

\* ID.GOV.UA, HSC and whoever sits at the browser.  A callback is not undone.
PageMoves ==
    /\ pc \in Probes /\ screen # "hsc"
    /\ screen' \in Screens
    /\ textNew' \in {textNew, TRUE}
    /\ UNCHANGED <<pc, markers, locals, clock, observed>>

Next == Look \/ PageMoves

Spec == Init /\ [][Next]_vars

\* The loop polls and sleeps; none of its probes waits for ever.
FairSpec == Spec /\ WF_vars(Look)

-----------------------------------------------------------------------------
(* Safety *)

\* A sign-in is called reset only after the site began to read the key (where
\* that can be told), and after the form was found clickable in enough polls
\* with nothing but the same form seen in between (login_page.py:842-850).
ResetOnlyWhenHandedBack ==
    pc = "reset" =>
        /\ streak.still >= FormPolls
        /\ "processing" \in markers => read

\* A screen is called a destination only after so many polls in a row that found
\* nothing known on it: no form, no overlay, no user-data screen, no new text
\* (login_page.py:56-58).
ScreenHeldStill == pc = "intermediate" => streak.unknown >= ScreenPolls

\* Does not hold (README.md): the key form is back, unchanged and clickable, in consecutive polls before
\* the attempt is called reset (login_page.py:51-54).
ResetWasStable == pc = "reset" => streak.clickable >= FormPolls

-----------------------------------------------------------------------------
(* Liveness *)

\* The watch ends, whatever the page does and however long the overlay stays.
WatchEnds == <>(pc \in Failures \cup {"callback"})
=============================================================================

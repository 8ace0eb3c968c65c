-------------------------------- MODULE SignIn --------------------------------
(***************************************************************************)
(* The one authentication path of the browser (flow/auth.py) with the      *)
(* journey it drives over the signed-out page and ID.GOV.UA                *)
(* (pages/login_page.py up to the submit): open the cabinet, judge where   *)
(* the page landed, sign in at most once, and open the cabinet again to    *)
(* see whether it took.                                                    *)
(*                                                                         *)
(* The page is an actor of its own: between two probes it may render, be   *)
(* bounced to the sign-in page or show what nobody expected, and the       *)
(* session may expire at any moment.  What happens after the submit is     *)
(* CallbackWatch; here it is one step.                                     *)
(***************************************************************************)
EXTENDS Naturals, Sequences, FiniteSets

CONSTANT Callers    \* who calls ensure_authenticated: one after the other today
                    \* (auth.py:48-50), at the same time as the lock allows for

ASSUME CallersAssumption == IsFiniteSet(Callers)

VARIABLES
    pc,       \* where each call is
    queue,    \* AuthManager._lock: who asked, in order; the first one holds it
    page,     \* the one page all page objects share
    terms,    \* whether the consent on the sign-in page is ticked
    session,  \* HSC's own view of the browser profile: live or not
    config,   \* what the operator configured: the secrets, the cabinet marker
    calm,     \* nothing fails and nothing expires any more
    call      \* observer: what each call has been through

vars == <<pc, queue, page, terms, session, config, calm, call>>

-----------------------------------------------------------------------------
(* Values *)

Places == {"blank", "cabinet", "entry", "idgov", "elsewhere"}
Providers == {"default", "ours"}

\* The file-key form: the provider chosen; the key (a file handed over is "given"
\* until the page has read it, by the provider chosen then); and the key the
\* password field was bound to when the password was typed, if to any.
Form == [provider: Providers, key: {"none", "given"} \cup Providers,
         password: {"none", "unbound"} \cup Providers]
EmptyForm == [provider |-> "default", key |-> "none", password |-> "none"]
FullForm == [provider |-> "ours", key |-> "ours", password |-> "ours"]

Page(at, marker) == [at |-> at, marker |-> marker, form |-> EmptyForm]
Cabinet == Page("cabinet", TRUE)
\* A cabinet URL without its marker: still rendering, or on its way out.
Shell == Page("cabinet", FALSE)

Steps == {"check", "where", "restart", "restarted", "secrets", "challenge",
          "terms", "handover", "medium", "provider", "file", "loaded",
          "password", "submit", "callback", "verify", "verified"}
Resting == {"idle", "ok", "raised"}

Pages == [at: Places, marker: BOOLEAN, form: Form]
Calls == [lived: BOOLEAN, expired: BOOLEAN, submits: 0 .. 2, restarts: 0 .. 2]
Configs == [secrets: BOOLEAN, marker: BOOLEAN]

TypeOK ==
    /\ pc \in [Callers -> Resting \cup {"waiting"} \cup Steps]
    /\ queue \in Seq(Callers)
    /\ Len(queue) = Cardinality({c \in Callers : pc[c] \notin Resting})
    /\ page \in Pages
    /\ terms \in BOOLEAN
    /\ session \in {"live", "expired"}
    /\ config \in Configs
    /\ calm \in BOOLEAN
    /\ call \in [Callers -> Calls]

-----------------------------------------------------------------------------
(* The decisions of the code, each with the slips it could have been         *)
(* written with beside it.                                                   *)

\* `async with self._lock`.
MayEnter(c) == Head(queue) = c

\* The lock is left with whatever the call ends in: to whoever asked next.
KeptOnFailure(how) == IF how = "raised" THEN queue ELSE Tail(queue)
LeftBehind(how) == Tail(queue)

\* is_authenticated: the URL and, when it is configured, the marker.
AuthenticatedByUrl(p) == p.at = "cabinet"
Authenticated(p) == p.at = "cabinet" /\ (config.marker => p.marker)

\* _ensure_authenticated: what an unauthenticated page calls for.
SignsInAnywhere(p) == IF p.at = "idgov" THEN "restart" ELSE "secrets"
Remedy(p) ==
    IF p.at = "idgov" THEN "restart"
    ELSE IF p.at = "entry" THEN "secrets" ELSE "fail"

\* accept_service_terms: the checkbox is clicked unless the button says it is
\* ticked already.
ClickedAnyway(ticked) == ~ticked
TickedOnce(ticked) == TRUE

\* authenticate_with_master_key, submit_master_key: the order of the screens.
UploadFirst(step) ==
    [challenge |-> "terms", terms |-> "handover", handover |-> "medium",
     medium |-> "file", file |-> "loaded", loaded |-> "provider",
     provider |-> "password", password |-> "submit", submit |-> "callback",
     callback |-> "verify"][step]
TypesAtOnce(step) ==
    [challenge |-> "terms", terms |-> "handover", handover |-> "medium",
     medium |-> "provider", provider |-> "file", file |-> "password",
     loaded |-> "submit", password |-> "loaded", submit |-> "callback",
     callback |-> "verify"][step]
After(step) ==
    [challenge |-> "terms", terms |-> "handover", handover |-> "medium",
     medium |-> "provider", provider |-> "file", file |-> "loaded",
     loaded |-> "password", password |-> "submit", submit |-> "callback",
     callback |-> "verify"][step]

\* _verify_cabinet: a sign-in that did not take is a failure.
SignsInAgain(p) == IF Authenticated(p) THEN "ok" ELSE "challenge"
Verdict(p) == IF Authenticated(p) THEN "ok" ELSE "fail"

\* queue.open: wherever the browser is, the cabinet is asked for again; where
\* that leads is up to the session.
Landings(p) ==
    (IF session = "live" THEN {Cabinet, Shell}
                         ELSE {Shell, Page("entry", FALSE), Page("idgov", FALSE)})
        \cup IF calm THEN {} ELSE {Page("elsewhere", FALSE)}

-----------------------------------------------------------------------------
(* A call of ensure_authenticated *)

Init ==
    /\ pc = [c \in Callers |-> "idle"]
    /\ queue = <<>>
    /\ page = Page("blank", FALSE)
    /\ terms \in BOOLEAN
    /\ session \in {"live", "expired"}
    /\ config \in [secrets: BOOLEAN, marker: BOOLEAN]
    /\ calm = FALSE
    /\ call = [c \in Callers |-> [lived |-> FALSE, expired |-> FALSE,
                                  submits |-> 0, restarts |-> 0]]

world == <<session, config, calm>>

At(c, step) == pc[c] = step
GoTo(c, step) == pc' = [pc EXCEPT ![c] = step] /\ UNCHANGED queue
Leave(c, how) ==
    /\ pc' = [pc EXCEPT ![c] = how]
    /\ queue' = LeftBehind(how)
\* A decision either names the next step or ends the call.
Decide(c, next) ==
    IF next = "ok" THEN Leave(c, "ok")
    ELSE IF next = "fail" THEN Leave(c, "raised") ELSE GoTo(c, next)

Ask(c) ==
    /\ pc[c] \in Resting
    /\ queue' = Append(queue, c)
    /\ pc' = [pc EXCEPT ![c] = "waiting"]
    /\ UNCHANGED <<page, terms, world, call>>

\* The lock is taken and the cabinet opened.
OpenCabinet(c) ==
    /\ At(c, "waiting") /\ MayEnter(c)
    /\ page' \in Landings(page)
    /\ call' = [call EXCEPT ![c] = [lived |-> session = "live",
                                    expired |-> session = "expired",
                                    submits |-> 0, restarts |-> 0]]
    /\ GoTo(c, "check")
    /\ UNCHANGED <<terms, world>>

\* The marker is waited for as long as a locator may take; once nothing fails
\* any more that is long enough for a page to render or to be bounced.
Settled == calm => page # Shell

Check(c) ==
    /\ At(c, "check") /\ Settled
    /\ Decide(c, IF Authenticated(page) THEN "ok" ELSE "where")
    /\ UNCHANGED <<page, terms, world, call>>

\* The URL is read again, after the marker was waited for.
Where(c) ==
    /\ At(c, "where")
    /\ Decide(c, Remedy(page))
    /\ UNCHANGED <<page, terms, world, call>>

\* _restart_from_entry_page.
Restart(c) ==
    /\ At(c, "restart")
    /\ page' \in {Page("entry", FALSE)}
                 \cup IF calm THEN {} ELSE {Page("idgov", FALSE),
                                            Page("elsewhere", FALSE)}
    /\ call' = [call EXCEPT ![c].restarts = @ + 1]
    /\ GoTo(c, "restarted")
    /\ UNCHANGED <<terms, world>>

Restarted(c) ==
    /\ At(c, "restarted")
    /\ Decide(c, IF page.at = "entry" THEN "secrets" ELSE "fail")
    /\ UNCHANGED <<page, terms, world, call>>

\* Everything that can be decided without the browser is decided before it is
\* sent to ID.GOV.UA.
Secrets(c) ==
    /\ At(c, "secrets")
    /\ Decide(c, IF config.secrets THEN "challenge" ELSE "fail")
    /\ UNCHANGED <<page, terms, world, call>>

Challenge(c) ==
    /\ At(c, "challenge")
    /\ GoTo(c, After("challenge"))
    /\ UNCHANGED <<page, terms, world, call>>

AcceptTerms(c) ==
    /\ At(c, "terms") /\ page.at = "entry"
    /\ terms' = TickedOnce(terms)
    /\ GoTo(c, After("terms"))
    /\ UNCHANGED <<page, world, call>>

\* go_to_idgov: the button can only be clicked with the consent given.
HandOver(c) ==
    /\ At(c, "handover") /\ page.at = "entry" /\ terms
    /\ page' = Page("idgov", FALSE)
    /\ GoTo(c, After("handover"))
    /\ UNCHANGED <<terms, world, call>>

OnForm(c, step) == At(c, step) /\ page.at = "idgov"

\* select_electronic_signature, select_file_key.
SelectMedium(c) ==
    /\ OnForm(c, "medium")
    /\ GoTo(c, After("medium"))
    /\ UNCHANGED <<page, terms, world, call>>

SelectProvider(c) ==
    /\ OnForm(c, "provider")
    /\ page' = [page EXCEPT !.form.provider = "ours"]
    /\ GoTo(c, After("provider"))
    /\ UNCHANGED <<terms, world, call>>

\* choose_key_file: the file is handed over; the page reads it later (KeyIsRead).
\* The system's dialog may be closed with nothing handed over.
ChooseKey(c) ==
    /\ OnForm(c, "file")
    /\ \/ page' = [page EXCEPT !.form.key = "given"]
       \/ ~calm /\ UNCHANGED page
    /\ GoTo(c, After("file"))
    /\ UNCHANGED <<terms, world, call>>

WaitForKey(c) ==
    /\ OnForm(c, "loaded") /\ page.form.key \in Providers
    /\ GoTo(c, After("loaded"))
    /\ UNCHANGED <<page, terms, world, call>>

FillPassword(c) ==
    /\ OnForm(c, "password")
    /\ page' = [page EXCEPT !.form.password =
                    IF page.form.key \in Providers THEN page.form.key
                                                   ELSE "unbound"]
    /\ GoTo(c, After("password"))
    /\ UNCHANGED <<terms, world, call>>

Submit(c) ==
    /\ OnForm(c, "submit")
    /\ call' = [call EXCEPT ![c].submits = @ + 1]
    /\ GoTo(c, After("submit"))
    /\ UNCHANGED <<page, terms, world>>

\* The browser is handed back to HSC, signed in or not.
Callback(c) ==
    /\ OnForm(c, "callback")
    /\ page' = Page("entry", FALSE)
    /\ \/ page.form = FullForm /\ session' = "live"
          /\ call' = [d \in Callers |-> [call[d] EXCEPT !.lived = TRUE]]
       \/ ~calm /\ UNCHANGED <<session, call>>
    /\ GoTo(c, After("callback"))
    /\ UNCHANGED <<terms, config, calm>>

\* _verify_cabinet.
Verify(c) ==
    /\ At(c, "verify")
    /\ page' \in Landings(page)
    /\ GoTo(c, "verified")
    /\ UNCHANGED <<terms, world, call>>

Verified(c) ==
    /\ At(c, "verified") /\ Settled
    /\ Decide(c, Verdict(page))
    /\ UNCHANGED <<page, terms, world, call>>

\* Whether the step before the call finds the page it needs.
CanGoOn(c) ==
    /\ pc[c] \in {"terms", "handover"} => page.at = "entry"
    /\ At(c, "handover") => terms
    /\ pc[c] \in {"medium", "provider", "file", "loaded", "password", "submit",
                  "callback"} => page.at = "idgov"
    /\ At(c, "loaded") => page.form.key # "none"
    /\ At(c, "callback") => page.form = FullForm

\* A navigation, a locator, the signing component, the challenge, the dialog,
\* the callback: each is waited for, and raises.
StepFails(c) ==
    /\ pc[c] \in Steps \ {"where", "restarted", "secrets"}
    /\ calm => ~CanGoOn(c)
    /\ Leave(c, "raised")
    /\ UNCHANGED <<page, terms, world, call>>

Step(c) ==
    \/ OpenCabinet(c) \/ Check(c) \/ Where(c) \/ Restart(c) \/ Restarted(c)
    \/ Secrets(c) \/ Challenge(c) \/ AcceptTerms(c) \/ HandOver(c)
    \/ SelectMedium(c) \/ SelectProvider(c) \/ ChooseKey(c) \/ WaitForKey(c)
    \/ FillPassword(c) \/ Submit(c) \/ Callback(c) \/ Verify(c) \/ Verified(c)
    \/ StepFails(c)

-----------------------------------------------------------------------------
(* HSC and the page *)

SessionExpires ==
    /\ ~calm /\ session = "live"
    /\ session' = "expired"
    /\ call' = [c \in Callers |-> [call[c] EXCEPT !.expired = TRUE]]
    /\ UNCHANGED <<pc, queue, page, terms, config, calm>>

\* A cabinet URL without a session is redirected away; with one it is rendered.
Renders ==
    /\ page = Shell
    /\ page' = IF session = "live" THEN Cabinet ELSE Page("entry", FALSE)
    /\ UNCHANGED <<pc, queue, terms, world, call>>

\* The page has read the key it was given.
KeyIsRead ==
    /\ page.form.key = "given"
    /\ page' = [page EXCEPT !.form.key = page.form.provider]
    /\ UNCHANGED <<pc, queue, terms, world, call>>

CalmDown ==
    /\ ~calm /\ calm' = TRUE
    /\ UNCHANGED <<pc, queue, page, terms, session, config, call>>

Next ==
    \/ \E c \in Callers : Ask(c) \/ Step(c)
    \/ SessionExpires \/ Renders \/ KeyIsRead \/ CalmDown

Spec == Init /\ [][Next]_vars

\* Every wait of a call has a timeout, and a page renders, redirects or reads the
\* key it was given in time.
FairSpec ==
    /\ Spec
    /\ \A c \in Callers : WF_vars(Step(c))
    /\ WF_vars(Renders) /\ WF_vars(KeyIsRead)

-----------------------------------------------------------------------------
(* Safety *)

\* A call restarts and submits once at most (auth.py:12), and what it submits is
\* a form whose key was read with the configured provider (login_page.py:7-8) and
\* whose password was typed into a field bound to that key, however long the page
\* takes to read it: "typing into a password field that is still bound to no key
\* produces a submit that does nothing at all" (login_page.py:384-388).
SubmitAsConfigured ==
    [][\A c \in Callers :
          call'[c].submits > call[c].submits =>
              page.form = FullForm /\ call[c].submits = 0 /\ call[c].restarts <= 1]_vars

\* A call during which the session never was anything but live signs in
\* nowhere: a cabinet slow to render is not an expired session (auth.py:123-126).
LiveSessionLeftAlone ==
    \A c \in Callers :
        pc[c] \in Steps \ {"check", "where"} => call[c].expired

\* With the cabinet's marker configured, a call returns with the signed-in cabinet
\* on screen, served to a session that was live during that call.  Without the
\* marker the URL alone decides, and a page on its way out passes for it.
ReturnsSignedIn ==
    [][\A c \in Callers : pc[c] # "ok" /\ pc'[c] = "ok" /\ config.marker =>
          page = Cabinet /\ call[c].lived]_vars

-----------------------------------------------------------------------------
(* Liveness *)

\* No call waits for ever: not for the page, and not for a call before it that
\* has failed and left the lock.
EveryCallEnds == \A c \in Callers : At(c, "waiting") ~> pc[c] \in Resting

\* Once nothing fails any more, a call made with the secrets configured leaves
\* the browser signed in, whatever an earlier call has left on the page.
RecoversWhenCalm ==
    \A c \in Callers :
        calm /\ config.secrets /\ At(c, "waiting") ~> At(c, "ok")
=============================================================================

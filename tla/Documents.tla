------------------------------ MODULE Documents ------------------------------
(***************************************************************************)
(* The HTTP session and the monitor's state as MongoDB keeps them:         *)
(* api/session_store.py, api/monitor_state.py, and the way of the browser's*)
(* cookies into the session (api/probe.py, api/client.py).                 *)
(*                                                                         *)
(* A cookie is [name, value, domain, path, expires].  A domain is the      *)
(* sequence of its labels from the top, one with a leading dot ends in an  *)
(* empty label.  A jar is the sequence of its cookies in the order it is   *)
(* gone through.  Times are numbers, and 0 is no time.                     *)
(***************************************************************************)
EXTENDS Naturals, SequencesExt

WIZARD_COOKIE == "__Host-next.equeue-session"
COOKIE_DOMAIN == <<"ua", "gov", "hsc">>
NoTime == 0
Version == 1      \* SCHEMA_VERSION, STATE_SCHEMA_VERSION

-----------------------------------------------------------------------------
(* The jar *)

SlotOf(cookie) == <<cookie.domain, cookie.path, cookie.name>>

\* requests: a cookie takes the place of the one with its name, path and
\* domain, or comes last under its path, under its domain or in the jar.
SetCookie(jar, cookie) ==
    LET at == SelectInSeq(jar, LAMBDA c : SlotOf(c) = SlotOf(cookie))
        path == SelectLastInSeq(jar, LAMBDA c : c.domain = cookie.domain /\ c.path = cookie.path)
        domain == SelectLastInSeq(jar, LAMBDA c : c.domain = cookie.domain)
        after == IF path # 0 THEN path ELSE IF domain # 0 THEN domain ELSE Len(jar)
    IN  IF at # 0 THEN [jar EXCEPT ![at] = cookie] ELSE InsertAt(jar, after + 1, cookie)

SessionFromCookies(cookies) == FoldLeft(SetCookie, <<>>, cookies)

\* What the browser holds for HSC and its subdomains, without its expiry.
IsHscCookieDomain(domain) == IsPrefix(COOKIE_DOMAIN, domain)
HscCookies(raw) ==
    LET kept == SelectSeq(raw, LAMBDA c : c.name # "" /\ IsHscCookieDomain(c.domain))
    IN  [i \in DOMAIN kept |-> [kept[i] EXCEPT !.expires = NoTime]]

BuildSession(raw) == SessionFromCookies(HscCookies(raw))
NothingToBridge(raw) == HscCookies(raw) = <<>>   \* client_for raises

\* jar_fingerprint: the values under each name, in the order of the jar.
JarFingerprint(cookies) ==
    [name \in {c.name : c \in ToSet(cookies)} |->
        LET named == SelectSeq(cookies, LAMBDA c : c.name = name)
        IN  [i \in DOMAIN named |-> named[i].value]]

\* The first queue cookie's, known or not.
QueueExpiry(cookies) ==
    LET i == SelectInSeq(cookies, LAMBDA c : c.name = WIZARD_COOKIE)
    IN  IF i = 0 THEN NoTime ELSE cookies[i].expires

-----------------------------------------------------------------------------
(* hsc-api-session *)

Nothing == [is |-> "nothing"]
Refused == [is |-> "refused"]

Expired(session, now) == session.expires # NoTime /\ session.expires <= now

SaveSession(session, key, now) ==
    [version |-> Version, sealed |-> [key |-> key, cookies |-> session.cookies],
     created |-> IF session.created = NoTime THEN now ELSE session.created,
     updated |-> now, expires |-> session.expires]

\* Another version is no session; another key, or an edit, is an error.
LoadSession(document, key) ==
    IF document = Nothing \/ document.version # Version THEN Nothing
    ELSE IF document.sealed.key # key THEN Refused
    ELSE [is |-> "session", cookies |-> document.sealed.cookies, created |-> document.created,
          updated |-> document.updated, expires |-> document.expires]

\* SessionPersister.__call__ against a database that works: the document it
\* leaves, which is the old one if the jar's fingerprint has not moved.
Persisted(persister, jar, document, key, now) ==
    IF JarFingerprint(jar) = persister.last THEN document
    ELSE SaveSession([cookies |-> jar, created |-> persister.created,
                      expires |-> QueueExpiry(jar)], key, now)

\* The persister of a run that has loaded this session.
PersisterOf(session) ==
    [created |-> session.created, last |-> JarFingerprint(session.cookies)]

-----------------------------------------------------------------------------
(* hsc-monitor-state *)

MonitorStatus == {"READY", "AUTH_REQUIRED", "RATE_LIMITED", "SERVICE_UNAVAILABLE"}

\* A window without an end is no window.
Waiting(state, now) ==
    state.status = "RATE_LIMITED" /\ state.retryAfter # NoTime /\ state.retryAfter > now
BlocksAt(state, now) == state.status = "AUTH_REQUIRED" \/ Waiting(state, now)

TransitionTo(previous, status, retryAfter, now) ==
    [status |-> status, updated |-> now,
     lastSuccess |-> IF status = "READY" THEN now
                     ELSE IF previous = Nothing THEN NoTime ELSE previous.lastSuccess,
     retryAfter |-> IF status = "READY" THEN NoTime ELSE retryAfter]

SaveState(state, now) == [version |-> Version, state |-> [state EXCEPT !.updated = now]]

LoadState(document) ==
    IF document = Nothing \/ document.version # Version
       \/ document.state.status \notin MonitorStatus
    THEN Nothing ELSE document.state

=============================================================================

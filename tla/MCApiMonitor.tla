----------------------------- MODULE MCApiMonitor -----------------------------
(***************************************************************************)
(* Instances of ApiMonitor for TLC: two centres, one read while the other  *)
(* fails, with one slot each; two or three logins, so that a recovered     *)
(* session can be refused again.  The documents its session travels in     *)
(* (Documents.tla) are compared with what the monitors take for granted of *)
(* them.                                                                   *)
(***************************************************************************)
EXTENDS ApiMonitor, SequencesExt

Doc == INSTANCE Documents

CONSTANTS c1, c2, s1

MCCentres == {c1, c2}
MCSlots == {s1}
OneCentre == {c1}
CentreSymmetry == Permutations(MCCentres)

-----------------------------------------------------------------------------
(* Every jar of up to three cookies: two names, one of them the queue's, on *)
(* two hosts of HSC, with and without an expiry; and beside them in the     *)
(* browser what ID.GOV.UA and a host that only ends like HSC have set.      *)

Hosts == {<<"ua", "gov", "hsc", "eqn">>, <<"ua", "gov", "hsc", "">>}
Foreign == {<<"ua", "gov", "id">>, <<"ua", "gov", "nothsc">>}
Cookies(hosts, values, times) ==
    [name: {Doc!WIZARD_COOKIE, "other"}, value: values, domain: hosts, path: {"/"},
     expires: times]
Set == Cookies(Hosts, {"a", "b"}, {Doc!NoTime, 5})
Dumps == Cookies(Hosts \cup Foreign, {"a"}, {5}) \cup {[name |-> "", value |-> "a",
            domain |-> <<"ua", "gov", "hsc">>, path |-> "/", expires |-> 5]}
Jars == {Doc!SessionFromCookies(t) :
            t \in {<<>>} \cup {<<x>> : x \in Set} \cup (Set \X Set) \cup (Set \X Set \X Set)}

Stored(jar) ==
    Doc!SaveSession([cookies |-> jar, created |-> Doc!NoTime,
                     expires |-> Doc!QueueExpiry(jar)], "key", 1)
Loaded(jar) == Doc!LoadSession(Stored(jar), "key")

\* What is loaded and put into a jar again is the jar that was stored, cookie
\* by cookie: a run HSC tells nothing new writes nothing, and a later write
\* keeps the time of the login.
ASSUME RestoredIsUnmoved ==
    \A jar \in Jars :
        LET live == Doc!SessionFromCookies(Loaded(jar).cookies)
            after == Doc!Persisted(Doc!PersisterOf(Loaded(jar)), live, Stored(jar), "key", 3)
        IN  live = jar /\ after = Stored(jar)

\* Whatever cookie HSC adds or gives another value is written back with the
\* whole jar, though another host may have one of the same name; only a new
\* expiry alone is not, and then the one stored goes on counting.
ASSUME RotationsAreWritten ==
    \A jar \in Jars, cookie \in Set :
        LET live == Doc!SetCookie(jar, cookie)
            after == Doc!Persisted(Doc!PersisterOf(Loaded(jar)), live, Stored(jar), "key", 3)
            expiryOnly == \E c \in ToSet(jar) : [c EXCEPT !.expires = cookie.expires] = cookie
        IN  IF expiryOnly THEN after = Stored(jar)
            ELSE /\ Doc!LoadSession(after, "key").cookies = live
                 /\ after.created = 1 /\ after.updated = 3
                 /\ after.expires = Doc!QueueExpiry(live)

\* What comes over from the browser is HSC's and nobody else's, and is not
\* taken for expired at any time before HSC has set the queue cookie itself.
ASSUME BrowserBringsOnlyItsHscCookies ==
    \A t \in Dumps \X Dumps \X Dumps :
        LET jar == Doc!BuildSession(t)
        IN  /\ ToSet(jar) = {[c EXCEPT !.expires = Doc!NoTime] :
                                c \in {d \in ToSet(t) : d.name # "" /\ d.domain \in Hosts}}
            /\ Doc!NothingToBridge(t) <=> jar = <<>>
            /\ ~Doc!Expired(Loaded(jar), 9)
            /\ \A cookie \in Cookies(Hosts, {"b"}, {5}) :
                  Doc!Expired(Loaded(Doc!SetCookie(jar, cookie)), 9) =>
                      cookie.name = Doc!WIZARD_COOKIE

\* A document sealed with another key is an error and never a session; one of
\* another version, or none, is no session.
ASSUME OnlyItsKeyOpensIt ==
    \A jar \in Jars :
        /\ Doc!LoadSession(Stored(jar), "other key") = Doc!Refused
        /\ Doc!LoadSession([Stored(jar) EXCEPT !.version = 0], "key") = Doc!Nothing

\* Through any three verdicts, each written and read by a run of its own: the
\* gate is closed for exactly an AUTH_REQUIRED or a window that has not ended,
\* and the last success is the last READY.
Verdicts == Doc!MonitorStatus \X {Doc!NoTime, 4, 9}
NextState(document, verdict, now) ==
    Doc!SaveState(Doc!TransitionTo(Doc!LoadState(document), verdict[1], verdict[2], now), now)
ASSUME StateSurvives ==
    \A v \in Verdicts \X Verdicts \X Verdicts :
        LET document == NextState(NextState(NextState(Doc!Nothing, v[1], 1), v[2], 2), v[3], 3)
            state == Doc!LoadState(document)
            ready == {i \in 1 .. 3 : v[i][1] = "READY"}
        IN  /\ state.lastSuccess = IF ready = {} THEN Doc!NoTime
                                   ELSE CHOOSE i \in ready : \A j \in ready : j <= i
            /\ \A now \in 3 .. 10 :
                  Doc!BlocksAt(state, now) <=>
                      \/ v[3][1] = "AUTH_REQUIRED"
                      \/ v[3][1] = "RATE_LIMITED" /\ now < v[3][2]
=============================================================================

----------------------------- MODULE MCCentreScan -----------------------------
(***************************************************************************)
(* Instances of CentreScan for TLC.  A tick is a second of the pacing and  *)
(* the first backoff of config/app.yaml: an interval of three, backoffs of *)
(* two and four.  Its assumptions say what the scan takes from elsewhere:  *)
(* from the configuration and from the responses.                          *)
(***************************************************************************)
EXTENDS CentreScan, Integers, SequencesExt

Shape == INSTANCE Shapes
Config == INSTANCE Settings

\* A Retry-After below the backoff, and one above its cap.
MCRetryAfters == {0, 5}

-----------------------------------------------------------------------------
(* Settings: the policy of this instance, and every other one *)

Seconds == {Config!Number(n) : n \in {-1, 0, 1, 2, 7, 120, 121}} \cup {Config!NotANumber}
Policies ==
    [max_attempts: {Config!Number(n) : n \in {0, 1, 3, 5, 6}},
     initial_backoff: Seconds, max_backoff: Seconds,
     multiplier: {Config!Number(n) : n \in {0, 1, 2, 10, 11}},
     max_retry_after: {Config!Number(n) : n \in {0, 60, 301}}]

Under(p) == INSTANCE CentreScan WITH
    MaxAttempts <- p.max_attempts.of, InitialBackoff <- p.initial_backoff.of,
    Multiplier <- p.multiplier.of, MaxBackoff <- p.max_backoff.of,
    MaxRetryAfter <- p.max_retry_after.of

\* Every policy app.yaml can set asks at least once and pauses a little more
\* each time, from its own first pause on; the refused ones include all that
\* would not.
ASSUME AcceptedPoliciesBackOff ==
    \A p \in Policies : Config!RetryPolicy(p) =>
        LET wait(n) == Under(p)!BackoffFor(n)
        IN  /\ p.max_attempts.of >= 1
            /\ wait(1) = p.initial_backoff.of /\ wait(1) > 0
            /\ \A n \in 1 .. p.max_attempts.of : wait(n) <= wait(n + 1)

-----------------------------------------------------------------------------
(* Responses *)

Values == {Shape!DateText(1), Shape!DateText(2), Shape!ClockText(9), Shape!ClockText(10),
           Shape!LooseText(9), Shape!MomentText(1, 9), Shape!OtherValue}
Objects == {Shape!Object(f) :
               f \in UNION {[D -> Values] : D \in {{}, {"x"}, {"x", "y"}, {Shape!START},
                                                   {Shape!STOP},
                                                   {Shape!START, Shape!STOP}}}}
Items == Objects \cup {Shape!Text(v) : v \in Values} \cup {Shape!Scalar}
Payloads == {<<>>, <<<<>>>>, <<<<>>, <<>>>>}
            \cup {<<<<i>>>> : i \in Items} \cup {<<<<i, j>>>> : i, j \in Items}

ValuesOf(item) == {item.fields[f] : f \in DOMAIN item.fields}

\* What is read is all there: one time for every item of the list, in order.
\* No list with an item nobody can read is read in part.
ASSUME SlotsAreAllOrNothing ==
    \A payload \in Payloads :
        LET result == Shape!ParseSlots(payload)
        IN  result.known =>
                /\ Len(result.value) = Len(payload[1])
                /\ \A i \in DOMAIN payload[1] : \E s \in ToSet(result.value) :
                      \E v \in ValuesOf(payload[1][i]) :
                          Shape!IsClock(v) /\ v.time = s.start
                /\ \A i \in 1 .. Len(result.value) - 1 :
                      result.value[i].start <= result.value[i + 1].start

\* The end of a window is never taken for its beginning, and no time is taken
\* out of another field next to a measured one.
ASSUME StartIsTheStart ==
    \A payload \in Payloads :
        LET result == Shape!ParseSlots(payload)
            items == payload[1]
        IN  result.known /\ (\E i \in DOMAIN items : Shape!Mentions(items[i])) =>
                \A s \in ToSet(result.value) :
                    \E i \in DOMAIN items :
                        /\ items[i].fields[Shape!START] = Shape!ClockText(s.start)
                        /\ items[i].fields[Shape!STOP] = Shape!ClockText(s.end)

\* Every date of a list that is read is there, and no other.
ASSUME DaysAreComplete ==
    \A payload \in Payloads :
        LET result == Shape!ParseDays(payload)
        IN  result.known =>
                /\ \A i \in DOMAIN payload[1] : \E v \in ValuesOf(payload[1][i]) :
                      Shape!IsDate(v) /\ v.day \in ToSet(result.value)
                /\ \A d \in ToSet(result.value) : \E i \in DOMAIN payload[1] :
                      \E v \in ValuesOf(payload[1][i]) : Shape!IsDate(v) /\ v.day = d
                /\ IsInjective(result.value)
=============================================================================

---------------------------- MODULE MCMonitorLoop ----------------------------
(***************************************************************************)
(* Instances of MonitorLoop for TLC.  Its assumptions compare the pure     *)
(* parts - the snapshot, the diff, the rendering, the settings - with what *)
(* they are for, over every small input there is.                          *)
(***************************************************************************)
EXTENDS MonitorLoop

-----------------------------------------------------------------------------
(* Rendering *)

Slots == [centre: 1 .. 2, day: 1 .. 2, start: {36000, 37560}, end: {NoTime}]

\* Every change there can be of two centres over two days with two times each
\* is told whole, in messages that fit.
ASSUME RenderingTellsTheChange ==
    \A added \in SUBSET Slots : \A removed \in SUBSET (Slots \ added) :
        LET diff == [added |-> added, removed |-> removed]
            messages == RenderAvailability(diff)
        IN  /\ TellsTheChange(messages, diff)
            /\ \A i \in DOMAIN messages : Len(messages[i]) <= MaxText

-----------------------------------------------------------------------------
(* The snapshot *)

Times == {[start |-> 36000, end |-> 37560], [start |-> 36000, end |-> NoTime],
          [start |-> 37560, end |-> NoTime]}
OneEnd == {T \in SUBSET Times : \A t, u \in T : t.start = u.start => t = u}
DaysRead == UNION {[days -> OneEnd] : days \in SUBSET (1 .. 2)}

\* What MongoDB gives back is what was read, as long as HSC speaks in whole
\* minutes: no slot is lost with its end or next to another on the same day.
ASSUME SnapshotKeepsEverySlot ==
    \A days \in DaysRead : Stored(SnapshotOf(1 :> days)) = SnapshotOf(1 :> days)

\* The diff is exactly what leads from the one snapshot to the other, and a
\* centre that was never read before is no news.
ASSUME DiffLeadsToTheCurrent ==
    \A before, after \in DaysRead : \A first \in BOOLEAN :
        LET previous == IF first THEN <<>> ELSE Stored(SnapshotOf(1 :> before))
            current == SnapshotOf(1 :> after)
            diff == DiffSnapshots(previous, current, {1})
            Keys(slots) == {Key(s) : s \in slots}
        IN  IF first THEN ~Changed(diff) /\ diff.baselined = {1}
            ELSE /\ (Keys(previous[1]) \ Keys(diff.removed)) \cup Keys(diff.added)
                        = Keys(current[1])
                 /\ Keys(diff.removed) \subseteq Keys(previous[1])
                 /\ Keys(diff.added) \cap Keys(previous[1]) = {}
                 /\ diff.baselined = {}

\* A centre that was not asked for is compared with nothing.
ASSUME UnaskedIsNotNews ==
    \A before, after \in DaysRead :
        ~Changed(DiffSnapshots(Stored(SnapshotOf(1 :> before)), SnapshotOf(1 :> after), {}))

\* Known limit: a start with seconds is stored without them, so that the slot
\* appears, and one that never was goes away, in every scan it stays free.
ASSUME SecondsComeBack ==
    LET readings == 1 :> (1 :> {[start |-> 36030, end |-> NoTime]})
        diff == DiffSnapshots(Stored(SnapshotOf(readings)), SnapshotOf(readings), {1})
    IN  Cardinality(diff.added) = 1 /\ Cardinality(diff.removed) = 1

\* What cannot be read of a document costs its own entries and no others.
ASSUME DamageIsLocal ==
    LET entry(start, end) == [start |-> start, end |-> end]
        days == 1 :> <<entry(36000, Unreadable), entry(Unreadable, 37560)>>
                @@ Unreadable :> <<entry(36000, NoTime)>>
        centres == 1 :> days @@ 2 :> (2 :> <<entry(37560, NoTime)>>)
    IN  FromDocument([version |-> Version, centres |-> centres])
        = 1 :> {[centre |-> 1, day |-> 1, start |-> 36000, end |-> NoTime]}
          @@ 2 :> {[centre |-> 2, day |-> 2, start |-> 37560, end |-> NoTime]}

-----------------------------------------------------------------------------
(* The settings *)

Listed(id, name, enabled) == [id |-> id, name |-> name, enabled |-> enabled]
Rows == {Listed("1", "A", TRUE), Listed("2", "B", FALSE), Listed("3", "A", TRUE),
         Listed("4", Placeholder, TRUE), Listed(NoText, "E", TRUE)}
Asked == BoundedSeq({"1", "2", "A", "9"}, 2)

\* Whatever is scanned was listed, is scanned once and under one id, and was
\* enabled or named; what was named is scanned, unless another entry has its
\* name and stands before it.
ASSUME ScanCoversWhatWasAsked ==
    \A centres \in BoundedSeq(Rows, 3), wanted \in Asked :
        ~RefusesFile(centres) /\ ~RefusesCentres(centres, wanted) =>
            LET chosen == CentresToScan(centres, wanted)
            IN  /\ ToSet(chosen) \subseteq ToSet(centres)
                /\ \A i, j \in DOMAIN chosen : i # j => chosen[i].id # chosen[j].id
                /\ \A c \in ToSet(chosen) : wanted = <<>> => c.enabled
                /\ \A w \in ToSet(wanted) :
                      \E c \in ToSet(chosen) : c.id = w \/ c.name = w
                /\ wanted = <<>> => \A c \in ToSet(centres) : c.enabled => c \in ToSet(chosen)

\* Nobody who is listed is forgotten and nobody is listed twice.
ASSUME EveryUserOnce ==
    \A users \in BoundedSeq({"olha", "ivan", NoText}, 4) :
        /\ ~RefusesUsers(users)
        /\ IsInjective(TelegramUsers(users))
        /\ ToSet(TelegramUsers(users)) = ToSet(users) \ {NoText}

-----------------------------------------------------------------------------
(* The loop *)

Defaults == [slot_interval |-> Number(2), monitor_interval |-> Number(300),
             connect |-> Number(10), read |-> Number(30),
             retry |-> [max_attempts |-> Number(3), initial_backoff |-> Number(2),
                        max_backoff |-> Number(15), multiplier |-> Number(2),
                        max_retry_after |-> Number(60)]]
Environment == [uri |-> TRUE, key |-> TRUE, token |-> TRUE, enabled |-> TRUE,
                users |-> <<"olha", "ivan", "olha">>]
Working == [env |-> Environment, centres |-> <<Listed("1", "A", TRUE), Listed("2", "B", FALSE)>>,
            overrides |-> <<"2", "1">>, pace |-> Unset, api |-> Defaults]

\* A configuration that works, and others that differ from it in one thing.
MCConfigured ==
    {Working}
    \cup {[Working EXCEPT !.env = e] :
            e \in {[Environment EXCEPT !.uri = FALSE], [Environment EXCEPT !.key = FALSE],
                   [Environment EXCEPT !.token = FALSE], [Environment EXCEPT !.enabled = FALSE],
                   [Environment EXCEPT !.users = <<NoText>>],
                   [Environment EXCEPT !.users = <<"olha", NotAnId>>]}}
    \cup {[Working EXCEPT !.overrides = <<"9">>], [Working EXCEPT !.pace = Number(61)],
          [Working EXCEPT !.centres = <<>>],
          [Working EXCEPT !.api.retry.max_backoff = Number(1)],
          [Working EXCEPT !.api.monitor_interval = NotANumber]}

Morning == [start |-> 36000, end |-> 37560]
Noon == [start |-> 43200, end |-> NoTime]
Later == [start |-> 36000, end |-> 39000]   \* the same appointment, moved end

On(one, two) == 1 :> one @@ 2 :> two
Both(times) == [day \in 1 .. 2 |-> times]
None == <<>>

\* One time; all of one centre against half of the other; one day of both;
\* one time of both against the other; the first sight of a centre; only an end.
MCHistories ==
    {[stored |-> On(None, None), read |-> On(1 :> {Morning}, None), asked |-> 1 .. 2],
     [stored |-> On(None, 1 :> {Morning, Noon}), read |-> On(Both({Morning, Noon}), None),
      asked |-> 1 .. 2],
     [stored |-> On(Both({Morning, Noon}), Both({Morning, Noon})),
      read |-> On(2 :> {Morning, Noon}, 2 :> {Later, Noon}), asked |-> 1 .. 2],
     [stored |-> On(2 :> {Noon}, 2 :> {Noon}), read |-> On(2 :> {Morning}, 2 :> {Morning}),
      asked |-> 1 .. 2],
     [stored |-> 1 :> (1 :> {Morning}), read |-> On(None, Both({Noon})), asked |-> 1 .. 2],
     [stored |-> On(1 :> {Morning}, 1 :> {Noon}), read |-> 1 :> (1 :> {Later}), asked |-> {1}]}

\* Of what these scans may find, every report says what it should, however much
\* of it arrives; nobody is sent anything twice.
ASSUME ReportsSayWhatWasFound == \A scan \in Scans : SaysWhatWasFound(scan)
ASSUME PeopleListedOnce == \A s \in Configured : ListsEachOnce(TelegramUsers(s.env.users))
=============================================================================

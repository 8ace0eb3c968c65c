------------------------------ MODULE Snapshots ------------------------------
(***************************************************************************)
(* What the monitor remembers of HSC between two scans, and what it calls  *)
(* a change: api/availability_snapshot.py.                                 *)
(*                                                                         *)
(* A slot is a record [centre, day, start, end].  Times are seconds since  *)
(* midnight, days and centres are numbers.  A snapshot is a function from  *)
(* the centres that were read, the empty ones included, to their slots; a  *)
(* document is what MongoDB keeps of it, in which a time has no seconds.   *)
(***************************************************************************)
EXTENDS Naturals, SequencesExt

NoTime == 86400      \* no time of day: an end that was not reported
Unreadable == 86401  \* text that is not a time, a date or an entry

Version == 1         \* SNAPSHOT_SCHEMA_VERSION

-----------------------------------------------------------------------------
(* Slots *)

\* Not the end: a window that moved its end is the same appointment.
Key(slot) == [centre |-> slot.centre, day |-> slot.day, start |-> slot.start]

\* Centre, then day, then start.
SortKey(s, t) ==
    \/ s.centre < t.centre
    \/ s.centre = t.centre /\ s.day < t.day
    \/ s.centre = t.centre /\ s.day = t.day /\ s.start < t.start

\* strftime("%H:%M"): the seconds are dropped, never rounded.
ToMinute(time) == time - (time % 60)

\* readings[centre][day]: the free times of one complete scan, [start, end].
SnapshotOf(readings) ==
    [centre \in DOMAIN readings |->
        UNION {{[centre |-> centre, day |-> day, start |-> t.start, end |-> t.end] :
                    t \in readings[centre][day]} :
               day \in DOMAIN readings[centre]}]

\* by_key: one slot for each key; which of two with the same key is left open.
ByKey(snapshot, centres) ==
    LET slots == UNION {snapshot[c] : c \in DOMAIN snapshot \cap centres}
    IN  [k \in {Key(s) : s \in slots} |-> CHOOSE s \in slots : Key(s) = k]

-----------------------------------------------------------------------------
(* diff_snapshots *)

\* Only what this run was asked about is compared, and only with a centre the
\* last snapshot has; the first sight of a centre is its baseline.
DiffSnapshots(previous, current, asked) ==
    LET monitored == asked \cap DOMAIN current
        comparable == monitored \cap DOMAIN previous
        before == ByKey(previous, comparable)
        after == ByKey(current, comparable)
    IN  [added |-> {after[k] : k \in DOMAIN after \ DOMAIN before},
         removed |-> {before[k] : k \in DOMAIN before \ DOMAIN after},
         baselined |-> monitored \ DOMAIN previous]

-----------------------------------------------------------------------------
(* MongoAvailabilitySnapshotStore *)

Entry(slot) ==
    [start |-> ToMinute(slot.start),
     end |-> IF slot.end = NoTime THEN NoTime ELSE ToMinute(slot.end)]

\* Under each date its entries in order, the same start twice included.
ByDate(slots) ==
    [day \in {s.day : s \in slots} |->
        LET ordered == SetToSortSeq({s \in slots : s.day = day}, SortKey)
        IN  [i \in DOMAIN ordered |-> Entry(ordered[i])]]

ToDocument(snapshot) ==
    [version |-> Version,
     centres |-> [centre \in DOMAIN snapshot |-> ByDate(snapshot[centre])]]

\* An entry without a readable start is dropped, an unreadable end forgotten.
ReadSlots(centre, day, entries) ==
    {[centre |-> centre, day |-> day, start |-> e.start,
      end |-> IF e.end = Unreadable THEN NoTime ELSE e.end] :
        e \in {entry \in ToSet(entries) : entry.start \notin {NoTime, Unreadable}}}

\* A document of another version is neither read nor replaced.
Unsupported(document) == document.version # Version

FromDocument(document) ==
    [centre \in DOMAIN document.centres |->
        UNION {ReadSlots(centre, day, document.centres[centre][day]) :
               day \in DOMAIN document.centres[centre] \ {Unreadable}}]

\* What the next run compares with.
Stored(snapshot) == FromDocument(ToDocument(snapshot))

=============================================================================

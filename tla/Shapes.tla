-------------------------------- MODULE Shapes --------------------------------
(***************************************************************************)
(* How the three responses of HSC are read: the parsers of                 *)
(* api/availability.py.  None of them is documented, so a response is read *)
(* only if there is one way to read it, and otherwise not at all.          *)
(*                                                                         *)
(* A JSON value is a record [is, day, time]: text that is a date, a time   *)
(* of day (strict HH:MM[:SS] or with more to it), both, or some other      *)
(* value.  An item of a list is a text of its own, an object from field    *)
(* names to values, or some other value; a payload is the sequence of the  *)
(* lists it could mean, of which there has to be one.                      *)
(***************************************************************************)
EXTENDS Integers, SequencesExt

START == "startTime"
STOP == "stopTime"

Value(is, day, time) == [is |-> is, day |-> day, time |-> time]
DateText(day) == Value("date", day, 0)
ClockText(time) == Value("clock", 0, time)
LooseText(time) == Value("loose", 0, time)        \* 09:20:00.5, 09:20+02:00
MomentText(day, time) == Value("moment", day, time)
OtherValue == Value("other", 0, 0)                \* null, numbers, other text

Text(value) == [is |-> "text", fields |-> "" :> value]
Object(fields) == [is |-> "object", fields |-> fields]
Scalar == [is |-> "scalar", fields |-> <<>>]

\* An answer, or ApiSchemaUnknown.
Known(value) == [known |-> TRUE, value |-> value]
Unknown == [known |-> FALSE, value |-> <<>>]

-----------------------------------------------------------------------------
(* What a value can be read as *)

Dates == {"date", "moment"}             \* what read_date reads
Clocks == {"clock", "loose", "moment"}  \* what read_clock reads
IsDate(value) == value.is \in Dates
IsClock(value) == value.is \in Clocks
IsStrictClock(value) == value.is = "clock"

\* single_field: the fields that read in every record, of which it takes one.
Candidates(records, kinds) ==
    {f \in DOMAIN records[1].fields :
        \A i \in DOMAIN records :
            f \in DOMAIN records[i].fields /\ records[i].fields[f].is \in kinds}
TheField(records, kinds) == CHOOSE f \in Candidates(records, kinds) : TRUE

AllAre(items, is) == \A i \in DOMAIN items : items[i].is = is

-----------------------------------------------------------------------------
(* parse_days *)

\* Every date, each once and in order.
Days(values) == Known(SetToSortSeq({v.day : v \in values}, <))

ParseDays(payload) ==
    LET items == payload[1]
        field == TheField(items, Dates)
    IN  IF Len(payload) # 1 THEN Unknown
        ELSE IF items = <<>> THEN Known(<<>>)
        ELSE IF AllAre(items, "text")
             THEN IF \A i \in DOMAIN items : IsDate(items[i].fields[""])
                  THEN Days({items[i].fields[""] : i \in DOMAIN items}) ELSE Unknown
        ELSE IF AllAre(items, "object") /\ Cardinality(Candidates(items, Dates)) = 1
             THEN Days({items[i].fields[field] : i \in DOMAIN items})
        ELSE Unknown

-----------------------------------------------------------------------------
(* parse_slots *)

NoEnd == -1

InOrder(slots) == Known(SortSeq(slots, LAMBDA s, t : s.start < t.start))
Times(values) == InOrder([i \in DOMAIN values |-> [start |-> values[i].time, end |-> NoEnd]])

\* The fields that were measured: wherever one of them shows up, both of them
\* are read, from every record, strictly.
Mentions(item) == item.is = "object" /\ {START, STOP} \cap DOMAIN item.fields # {}
Measured(item) ==
    \A f \in {START, STOP} : f \in DOMAIN item.fields /\ IsStrictClock(item.fields[f])

MeasuredSlots(items) ==
    IF \A i \in DOMAIN items : Measured(items[i])
    THEN InOrder([i \in DOMAIN items |-> [start |-> items[i].fields[START].time,
                                          end |-> items[i].fields[STOP].time]])
    ELSE Unknown

ParseSlots(payload) ==
    LET items == payload[1]
        field == TheField(items, Clocks)
    IN  IF Len(payload) # 1 THEN Unknown
        ELSE IF items = <<>> THEN Known(<<>>)
        ELSE IF \E i \in DOMAIN items : Mentions(items[i])
             THEN IF AllAre(items, "object") THEN MeasuredSlots(items) ELSE Unknown
        ELSE IF AllAre(items, "text")
             THEN IF \A i \in DOMAIN items : IsClock(items[i].fields[""])
                  THEN Times([i \in DOMAIN items |-> items[i].fields[""]]) ELSE Unknown
        ELSE IF AllAre(items, "object") /\ Cardinality(Candidates(items, Clocks)) = 1
             THEN Times([i \in DOMAIN items |-> items[i].fields[field]])
        ELSE Unknown

-----------------------------------------------------------------------------
(* parse_departments, resolve_department *)

\* A record is [object, id, numbers]: whether it is an object with an id and a
\* name, whether that id is a number, and the numbers standing in its name.
ParseDepartments(payload) ==
    IF Len(payload) = 1 /\ \A i \in DOMAIN payload[1] : payload[1][i].object /\ payload[1][i].id
    THEN Known(payload[1]) ELSE Unknown

\* Exactly one department carries the number of the centre in its name.
Matches(departments, centre) ==
    {i \in DOMAIN departments : centre \in departments[i].numbers}
Resolves(departments, centre) == Cardinality(Matches(departments, centre)) = 1

=============================================================================

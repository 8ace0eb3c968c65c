------------------------------- MODULE Messages -------------------------------
(***************************************************************************)
(* What a change of the availability reads like on a phone:                *)
(* render_availability of notifications/templates_uk.py, and what a reader *)
(* of its messages can make of them.                                       *)
(*                                                                         *)
(* A line is a record [is, of]: a slot line shows a mark and two times and *)
(* not the centre or the day, which the lines above it in the SAME message *)
(* have to say.  A line counts one towards MaxText, whatever its length.   *)
(***************************************************************************)
EXTENDS Snapshots

CONSTANT MaxText  \* lines that fit one message (MAX_TELEGRAM_TEXT)

\* Heading, blank, centre, blank, section, day and one slot fit a message.
ASSUME MessagesAssumption == MaxText \in Nat /\ MaxText >= 7

Line(is, of) == [is |-> is, of |-> of]
Blank == Line("blank", "")
NoLine == Line("none", "")

Added == "+"
Removed == "-"

Changed(diff) == diff.added \cup diff.removed # {}

-----------------------------------------------------------------------------
(* Blocks of lines, one per centre *)

CentresOf(slots) == SetToSortSeq({s.centre : s \in slots}, LAMBDA c, d : c < d)
Of(slots, centre) == {s \in slots : s.centre = centre}

\* format_slot: whole minutes, and the end if there is one.
FormatSlot(slot) ==
    <<ToMinute(slot.start), IF slot.end = NoTime THEN NoTime ELSE ToMinute(slot.end)>>

\* The days in order, and under each day its slots in order.
DateLines(slots, mark) ==
    FoldLeft(LAMBDA lines, s :
                lines
                \o (IF \E l \in ToSet(lines) : l = Line("day", s.day) THEN <<>>
                    ELSE <<Line("day", s.day)>>)
                \o <<Line("slot", <<mark, FormatSlot(s)>>)>>,
             <<>>, SetToSortSeq(slots, SortKey))

Section(slots, mark) ==
    IF slots = {} THEN <<>> ELSE <<Line("section", mark)>> \o DateLines(slots, mark)

\* One section when only one thing happened, and then the heading says which.
Block(diff, centre) ==
    LET added == Of(diff.added, centre)
        removed == Of(diff.removed, centre)
        title == <<Line("centre", centre)>>
    IN  IF diff.added # {} /\ diff.removed # {}
        THEN title \o <<Blank>> \o Section(added, Added)
             \o (IF added # {} /\ removed # {} THEN <<Blank>> ELSE <<>>)
             \o Section(removed, Removed)
        ELSE title \o DateLines(added, Added) \o DateLines(removed, Removed)

Heading(diff) == Line("heading", IF diff.removed = {} THEN Added
                                 ELSE IF diff.added = {} THEN Removed ELSE "both")

-----------------------------------------------------------------------------
(* _chunked *)

Start == [messages |-> <<>>, current |-> <<>>,
          centre |-> NoLine, section |-> NoLine, day |-> NoLine]

\* Which centre, section and day are in force from this line on.
InForce(s, line) ==
    CASE line.is = "centre" -> [s EXCEPT !.centre = line, !.section = NoLine, !.day = NoLine]
      [] line.is = "section" -> [s EXCEPT !.section = line, !.day = NoLine]
      [] line.is = "day" -> [s EXCEPT !.day = line]
      [] OTHER -> s

\* What a fresh message needs before it can carry on.
Context(s) ==
    SelectSeq(<<s.centre, IF s.section # NoLine THEN Blank ELSE NoLine, s.section, s.day>>,
              LAMBDA l : l # NoLine)

Fits(s, addition) == 2 + Len(s.current) + Len(addition) <= MaxText

\* "\n".join([heading, "", *current]).rstrip()
Message(heading, current) ==
    <<heading, Blank>>
    \o (IF current # <<>> /\ Last(current) = Blank THEN Front(current) ELSE current)

PutLine(heading, before, separator, line) ==
    LET s == InForce(before, line)
        again == Context(s)
    IN  IF s.current # <<>> /\ ~Fits(s, separator \o <<line>>)
        THEN [s EXCEPT !.messages = Append(@, Message(heading, s.current)),
                       !.current = again \o (IF again # <<>> /\ Last(again) = line
                                             THEN <<>> ELSE <<line>>)]
        ELSE [s EXCEPT !.current = @ \o separator \o <<line>>]

PutBlock(heading, before, block) ==
    FoldLeft(LAMBDA s, line :
                PutLine(heading, s,
                        IF line = block[1] /\ s.current # <<>> THEN <<Blank>> ELSE <<>>,
                        line),
             before, block)

\* The blocks under a heading, in messages cut only between whole lines.
Chunked(heading, blocks) ==
    LET end == FoldLeft(LAMBDA s, block : PutBlock(heading, s, block), Start, blocks)
    IN  IF end.current = <<>> THEN end.messages
        ELSE Append(end.messages, Message(heading, end.current))

RenderAvailability(diff) ==
    IF ~Changed(diff) THEN <<>>
    ELSE LET centres == CentresOf(diff.added \cup diff.removed)
         IN  Chunked(Heading(diff), [i \in DOMAIN centres |-> Block(diff, centres[i])])

-----------------------------------------------------------------------------
(* The reader, who sees one message at a time *)

\* Every slot line under the centre, day and section last named above it.
Read(message) ==
    FoldLeft(LAMBDA r, line :
                CASE line.is = "centre" -> [r EXCEPT !.centre = line.of, !.day = 0]
                  [] line.is = "day" -> [r EXCEPT !.day = line.of]
                  [] line.is = "slot" ->
                        [r EXCEPT !.slots = Append(@, [mark |-> line.of[1],
                                                       centre |-> r.centre, day |-> r.day,
                                                       times |-> line.of[2]])]
                  [] OTHER -> r,
             [slots |-> <<>>, centre |-> 0, day |-> 0], message).slots

\* What somebody who got these messages has read, in the order it arrived.
ReadAll(messages) ==
    FlattenSeq([i \in DOMAIN messages |-> Read(messages[i])])

\* What there is to be read of a change.
UnderMark(slots, mark) ==
    {[mark |-> mark, centre |-> s.centre, day |-> s.day, times |-> FormatSlot(s)] : s \in slots}
ToTell(diff) == UnderMark(diff.added, Added) \cup UnderMark(diff.removed, Removed)

\* Every slot of the change once, under its own centre, day and section, and
\* in the order of the report.
TellsTheChange(messages, diff) ==
    /\ ToSet(ReadAll(messages)) = ToTell(diff)
    /\ Len(ReadAll(messages)) = Cardinality(ToTell(diff))

\* A part of it, without a slot told twice or told wrong.
TellsSomeOfTheChange(messages, diff) ==
    /\ ToSet(ReadAll(messages)) \subseteq ToTell(diff)
    /\ Len(ReadAll(messages)) = Cardinality(ToSet(ReadAll(messages)))

=============================================================================

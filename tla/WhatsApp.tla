------------------------------ MODULE WhatsApp ------------------------------
(***************************************************************************)
(* The reader of WhatsApp's exported chats (ingest/importers/whatsapp.ts). *)
(*                                                                         *)
(* A line is stamped with a date in an order that the phone's locale       *)
(* decides, a clock of twelve or twenty-four hours, and a sender unless it *)
(* is a notice.  A line without a stamp goes on with the line before.      *)
(* The calendar is kept small: Months of MonthDays days of 2 * Half hours. *)
(***************************************************************************)
EXTENDS Spoken, FiniteSets

CONSTANTS Months, MonthDays, Half,
    Abbreviated     \* names that end in a full stop

ASSUME CalendarAssumption == Months \in Nat /\ {MonthDays, Half} \subseteq Nat \ {0}

Orders == {"dmy", "mdy"}
Placeholder == <<<<"omitted", "">>>>

Line(c1, c2, hour, half, from, words) ==
    [stamped |-> TRUE, c1 |-> c1, c2 |-> c2, hour |-> hour, half |-> half, from |-> from,
     words |-> words]
Continuation(words) == [Line(0, 0, 0, Nobody, Nobody, words) EXCEPT !.stamped = FALSE]

Stamped(lines) == {i \in DOMAIN lines : lines[i].stamped}

\* The lines after stamped line i up to the next; those before the first are
\* dropped.
Continued(lines, i) ==
    LET more == {j \in (i + 1)..Len(lines) :
                    \A k \in (i + 1)..j : ~lines[k].stamped}
    IN SubSeq(lines, i + 1, i + Cardinality(more))

TrimEnd(body) == SubSeq(body, 1, Max({0} \cup {i \in DOMAIN body : body[i] # Newline}))

Body(lines, i) ==
    LET extra == FlattenSeq([j \in DOMAIN Continued(lines, i) |->
                    <<Newline>> \o Continued(lines, i)[j].words])
    IN IF Continued(lines, i) = <<>> THEN lines[i].words ELSE TrimEnd(lines[i].words \o extra)

\* One component above twelve settles it for the whole file, unless another
\* contradicts it.
InferDateOrder(lines) ==
    LET dayFirst == \E i \in Stamped(lines) : lines[i].c1 > Months
        monthFirst == \E i \in Stamped(lines) : lines[i].c2 > Months
    IN [order |-> IF monthFirst /\ ~dayFirst THEN "mdy" ELSE "dmy",
        proven |-> dayFirst # monthFirst]

\* Wall-clock time; a month too many is one of the next year.
Instant(month, day, hour) == ((month - 1) * MonthDays + day - 1) * 2 * Half + hour

\* Mutant: the twelfth hour of the night is taken for noon.
StampMsOfMidnight(l, order) ==
    LET day == IF order = "dmy" THEN l.c1 ELSE l.c2
        month == IF order = "dmy" THEN l.c2 ELSE l.c1
        hour == IF l.half = "p" /\ l.hour < Half THEN l.hour + Half ELSE l.hour
    IN MsAt(Instant(month, day, hour))

StampMs(l, order) ==
    LET day == IF order = "dmy" THEN l.c1 ELSE l.c2
        month == IF order = "dmy" THEN l.c2 ELSE l.c1
        hour == IF l.half = "p" /\ l.hour < Half THEN l.hour + Half
                ELSE IF l.half = "a" /\ l.hour = Half THEN 0 ELSE l.hour
    IN MsAt(Instant(month, day, hour))

\* What looks like the end of a sentence is no sender.
Sender(l) == IF l.from \in Abbreviated THEN Nobody ELSE l.from

ScanWhatsApp(lines, forced) ==
    LET said == {i \in Stamped(lines) : Sender(lines[i]) # Nobody}
        inferred == InferDateOrder(lines)
    IN [participants |-> {Sender(lines[i]) : i \in said}, messages |-> said,
        order |-> IF forced = Nobody THEN inferred.order ELSE forced,
        proven |-> forced # Nobody \/ inferred.proven,
        systemLines |-> Cardinality(Stamped(lines) \ said)]

WhatsAppRecord(lines, i, owner, correspondent, order) ==
    Sms(IF Sender(lines[i]) = owner THEN 2 ELSE 1, StampMs(lines[i], order),
        <<"alias", correspondent>>,
        IF Body(lines, i) = Placeholder THEN <<>> ELSE Body(lines, i), Nobody)

\* The owner's name cannot be guessed, and a group cannot be threaded.
ParseWhatsApp(lines, owner, forced) ==
    LET scan == ScanWhatsApp(lines, forced)
        others == scan.participants \ {owner}
        correspondent == IF others = {} THEN owner ELSE CHOOSE p \in others : TRUE
        order == InOrder(scan.messages)
    IN IF owner \notin scan.participants THEN [refused |-> "owner"]
       ELSE IF Cardinality(others) > 1 THEN [refused |-> "group"]
       ELSE [refused |-> Nobody, proven |-> scan.proven,
             records |-> [k \in DOMAIN order |->
                 WhatsAppRecord(lines, order[k], owner, correspondent, scan.order)]]
=============================================================================

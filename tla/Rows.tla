-------------------------------- MODULE Rows --------------------------------
(***************************************************************************)
(* The reader of rows anybody can make: CSV, or objects in JSON            *)
(* (ingest/importers/generic.ts).  A row has a time, a sender, a direction *)
(* and a body, of which sender and direction may be missing.               *)
(***************************************************************************)
EXTENDS Spoken, FiniteSets

Quote == <<"quote", "">>
Comma == <<"comma", "">>

-----------------------------------------------------------------------------
(* CSV, one token at a time.  After a quote in a quoted field the reader    *)
(* looks one further: quoted is then "maybe".                               *)

Fresh == [rows |-> <<>>, row |-> <<>>, field |-> <<>>, quoted |-> "no"]

Plain(s, c) ==
    CASE c = Quote -> [s EXCEPT !.quoted = "yes"]
      [] c = Comma -> [s EXCEPT !.row = Append(@, s.field), !.field = <<>>, !.quoted = "no"]
      [] c = Newline -> [s EXCEPT !.rows = Append(@, Append(s.row, s.field)), !.row = <<>>,
                                  !.field = <<>>, !.quoted = "no"]
      [] OTHER -> [s EXCEPT !.field = Append(@, c), !.quoted = "no"]

Char(s, c) ==
    CASE s.quoted = "no" -> Plain(s, c)
      [] s.quoted = "yes" /\ c = Quote -> [s EXCEPT !.quoted = "maybe"]
      [] s.quoted = "yes" /\ c # Quote -> [s EXCEPT !.field = Append(@, c)]
      [] s.quoted = "maybe" /\ c = Quote -> [s EXCEPT !.field = Append(@, Quote), !.quoted = "yes"]
      [] OTHER -> Plain(s, c)

\* The rows that are not blank.
ParseCsv(text) ==
    LET s == FoldLeft(Char, Fresh, text)
        rows == IF s.field = <<>> /\ s.row = <<>> THEN s.rows
                ELSE Append(s.rows, Append(s.row, s.field))
    IN AtPlaces(rows, {i \in DOMAIN rows : \E k \in DOMAIN rows[i] : Trim(rows[i][k]) # <<>>})

-----------------------------------------------------------------------------
(* Rows *)

\* Seconds and milliseconds are told apart by their size; a date in an order
\* that nothing says is refused.
RowMs(time) ==
    CASE time.form = "number" -> IF time.value < Threshold THEN time.value * Scale ELSE time.value
      [] time.form = "iso" -> time.value
      [] OTHER -> Nobody

Direction(row, owner) ==
    IF row.direction # Nobody
    THEN CASE row.direction \in {"out", "sent"} -> "out"
           [] row.direction \in {"in", "received"} -> "in"
           [] OTHER -> Nobody
    ELSE IF owner = Nobody \/ row.sender = Nobody THEN Nobody
    ELSE IF row.sender = owner THEN "out" ELSE "in"

Readable(row, owner) == RowMs(row.time) # Nobody /\ Direction(row, owner) # Nobody

OtherSenders(rows, owner) == {rows[i].sender : i \in DOMAIN rows} \ {owner, Nobody}

\* Mutant: a row is filed under who wrote it.
AddressBySender(rows, i, owner, scope) ==
    IF rows[i].sender # Nobody THEN <<"alias", rows[i].sender>> ELSE <<"alias", scope>>

\* Under the correspondent, if there is one; else under the sender; else under
\* a name made of the file itself.
Address(rows, i, owner, scope) ==
    LET others == OtherSenders(rows, owner)
    IN <<"alias", IF Cardinality(others) = 1 THEN CHOOSE p \in others : TRUE
                  ELSE IF rows[i].sender # Nobody THEN rows[i].sender ELSE scope>>

RowRecord(rows, i, owner, scope) ==
    Sms(IF Direction(rows[i], owner) = "out" THEN 2 ELSE 1, RowMs(rows[i].time),
        Address(rows, i, owner, scope), Trim(rows[i].body), Nobody)

ReadableRows(rows, owner) == {i \in DOMAIN rows : Readable(rows[i], owner)}

\* Which kinds of problem line a file gets; the cap of ten lines is left out,
\* since only the kinds are told apart.
Problems(rows, owner, scope) ==
    (IF Cardinality(OtherSenders(rows, owner)) > 1 THEN {"per person"} ELSE {})
    \cup (IF Cardinality(ReadableRows(rows, owner)) < Len(rows) THEN {"skipped"} ELSE {})
    \cup (IF \E i \in ReadableRows(rows, owner) : Address(rows, i, owner, scope) = <<"alias", scope>>
          THEN {"unnamed"} ELSE {})

ParseGeneric(rows, owner, scope) ==
    LET order == InOrder(ReadableRows(rows, owner))
    IN [records |-> [k \in DOMAIN order |-> RowRecord(rows, order[k], owner, scope)],
        skipped |-> Len(rows) - Cardinality(ReadableRows(rows, owner)),
        problems |-> Problems(rows, owner, scope)]
=============================================================================

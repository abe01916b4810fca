------------------------------- MODULE ChatDb -------------------------------
(***************************************************************************)
(* The reader of a copy of the Mac's message database                      *)
(* (ingest/importers/imessage.ts, typedstream.ts).  The file holds every   *)
(* conversation of the Mac; one of them is imported at a time.             *)
(***************************************************************************)
EXTENDS Spoken, FiniteSets

Unreadable == <<<<"unreadable", "">>>>
Unsent == <<<<"unsent", "">>>>

-----------------------------------------------------------------------------
(* Dates.  Apple's epoch is 50 seconds after the other, seconds until macOS *)
(* 10.13 and nanoseconds since: Scale a millisecond, and told by their size. *)

AppleEpoch == 50
AppleMs(raw) ==
    CASE raw = 0 -> 0
      [] raw > Threshold -> AppleEpoch * Scale + raw \div Scale
      [] OTHER -> (AppleEpoch + raw) * Scale

-----------------------------------------------------------------------------
(* Words.  A blob is Nobody if it is no typed stream; else the strings in   *)
(* it, the names of classes and attributes among them.                      *)

Metadata == {<<"class", "">>, <<"attribute", "">>}

\* The first string that is neither blank nor metadata.
BodyOfBlob(blob) ==
    LET bodies == IF blob = Nobody THEN {}
                  ELSE {i \in DOMAIN blob : /\ Trim(blob[i]) # <<>>
                                            /\ \A t \in Range(blob[i]) : t \notin Metadata}
    IN IF bodies = {} THEN <<>> ELSE blob[Min(bodies)]

BodyOf(row) ==
    IF row.retracted THEN Unsent
    ELSE IF row.text # <<>> THEN row.text
    ELSE IF row.blob = <<>> THEN <<>>
    ELSE IF BodyOfBlob(row.blob) # <<>> THEN BodyOfBlob(row.blob) ELSE Unreadable

\* The words a reaction is about, wherever in the file they are.
OriginalText(file, guid) ==
    LET of == {i \in DOMAIN file.rows : file.rows[i].guid = guid}
        row == file.rows[CHOOSE i \in of : TRUE]
    IN IF of = {} THEN <<>> ELSE IF row.text # <<>> THEN row.text ELSE BodyOfBlob(row.blob)

\* Those with a verb are reactions; the others, removals among them, are nothing.
IsTapback(row) == row.type \in 2000..3007
IsWordless(row) == IsTapback(row) /\ row.type \notin 2000..2007

-----------------------------------------------------------------------------
(* Conversations: chats addressed in the same way are one.                  *)

KeyOf(file, c) == file.chats[c].ident
Idents(file) == {KeyOf(file, c) : c \in DOMAIN file.chats}

\* In the order of their first chats.
ConversationsIn(file) ==
    LET first(k) == Min({c \in DOMAIN file.chats : KeyOf(file, c) = k})
        order == InOrder({first(k) : k \in Idents(file)})
        chats(k) == {c \in DOMAIN file.chats : KeyOf(file, c) = k}
    IN [n \in DOMAIN order |->
           LET k == KeyOf(file, order[n])
           IN [ident |-> k, chats |-> chats(k),
               handles |-> FlattenSeq([i \in 1..Cardinality(chats(k)) |->
                   file.chats[InOrder(chats(k))[i]].handles]),
               isGroup |-> \E c \in chats(k) : Len(file.chats[c].handles) > 1]]

\* How it is addressed goes before whom it includes; without a wish, only the
\* single one.
PickConversation(all, want) ==
    LET named == {n \in DOMAIN all : all[n].ident = want}
        including == {n \in DOMAIN all : want \in Range(all[n].handles)}
        fits == IF named # {} THEN named ELSE including
    IN IF want = Nobody THEN IF Len(all) = 1 THEN {all[1]} ELSE {}
       ELSE IF fits = {} THEN {} ELSE {all[Min(fits)]}

\* By date, then by number; a message that is in several chats of the
\* conversation is read once.
ReadRows(file, chats) ==
    LET rows == {i \in DOMAIN file.rows : file.rows[i].chats \cap chats # {}}
        dates == InOrder({file.rows[i].date : i \in rows})
    IN FlattenSeq([n \in DOMAIN dates |-> InOrder({i \in rows : file.rows[i].date = dates[n]})])

-----------------------------------------------------------------------------
(* The scan counts what the import leaves out: both read the same rows.     *)

\* Mutant: what cannot be placed is passed over.
UndatedPassed(file, order) == {}

Undated(file, order) ==
    {k \in DOMAIN order : ~IsTapback(file.rows[order[k]]) /\ AppleMs(file.rows[order[k]].date) = 0}

Recorded(file, order) ==
    {k \in DOMAIN order :
        LET row == file.rows[order[k]]
        IN AppleMs(row.date) # 0 /\ ~IsWordless(row)}

RowBody(file, row) ==
    IF IsTapback(row) THEN <<Verb>> \o OriginalText(file, row.about) ELSE BodyOf(row)

ParseIMessage(file, want) ==
    LET all == ConversationsIn(file)
        chosen == PickConversation(all, want)
        c == CHOOSE x \in chosen : TRUE
        order == ReadRows(file, c.chats)
        kept == AtPlaces(order, Recorded(file, order))
    IN IF chosen = {} \/ c.handles = <<>> THEN [refused |-> "conversation"]
       ELSE IF c.isGroup THEN [refused |-> "group"]
       ELSE [refused |-> Nobody, undated |-> Cardinality(Undated(file, order)),
             records |-> [k \in DOMAIN kept |->
                 LET row == file.rows[kept[k]]
                 IN Sms(IF row.mine THEN 2 ELSE 1, AppleMs(row.date),
                        <<"number", c.handles[1], "plain">>, RowBody(file, row), row.guid)]]
=============================================================================

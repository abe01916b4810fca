------------------------------ MODULE Formats ------------------------------
(***************************************************************************)
(* What is said, exported by some program, and read by ingestFile          *)
(* (ingest/index.ts, stages 1 and 2): which reader, whether the file is    *)
(* seen, what is refused, what is recorded and what the result says of    *)
(* the rest.  What becomes of the records is Archive.                      *)
(***************************************************************************)
EXTENDS WhatsApp, Rows, Backup, ChatDb

CONSTANTS
    Utterances,     \* what can be said
    MaxSaid,        \* bound on what is said
    MaxWork,        \* bound on what is said and the files made of it, together
    Later,          \* bound: the form of the dates in files that come after another
    Given           \* the names given with --owner

\* Words of people: with nothing blank around them, and none of what a program
\* writes in their place.  A body that is the one word "null" is lost.
Speech(words) ==
    /\ words # <<>> /\ Newline \notin {Head(words), Last(words)}
    /\ Head(words) # Verb /\ words \notin {<<Null>>, Placeholder}
    /\ Range(words) \cap Metadata = {}

\* Within the calendar, and before seconds look like milliseconds.
Sayable(u) ==
    /\ u \in Utterance /\ IsFiniteSet(u.with) /\ u.with # {}
    /\ u.at < 2 * Half * MonthDays * Months /\ SecondsAt(u.at) < Threshold
    /\ IF u.kind = "notice" THEN u.by = Nobody ELSE u.by \in u.with \cup {Myself}
    /\ u.kind # "media" => Speech(u.words)

ASSUME UtterancesAssumption == \A u \in Utterances : Sayable(u)

\* What stands in a file of rows.
Names == Others \cup {Myself}
Times == [form : {"iso", "number", "ambiguous"}, value : Nat]
Terms == {"time", "sender", "direction", "body", "out", "in"}
Glyph == Token \cup ({"atom"} \X (Names \cup Times \cup Terms))
Texts == Seq(Glyph)

\* A person's name is not made of a file, and no address of another kind.
ASSUME OthersAssumption ==
    \A p \in Names : p \notin ({"unnamed"} \X Texts) \cup ({"mail"} \X Others) \cup {<<"group">>}

\* Nobody is nothing that is read.
ASSUME NothingAssumption ==
    /\ Nobody \notin Nat \cup Times \cup Terms \cup Orders \cup Seq(Seq(Token))
    /\ Nobody \notin {"a", "p", "owner", "group", "torn", "conversation"}
    /\ Nobody \notin ({"mail"} \X Others) \cup {<<"group">>}
    /\ Nobody \notin {"alias"} \X (Names \cup ({"unnamed"} \X Texts))
    /\ Nobody \notin {"number"} \X Names \X {"plain", "international"}

ASSUME GivenAssumption == Given \subseteq Others \cup {Myself, Nobody}

\* What is proved of the formats supposes that nobody's name is cut off as an
\* abbreviation, and that the owner gives their own name or none.
PlainNames == Abbreviated \cap Names = {}
OwnName == Given \subseteq {Myself, Nobody}

VARIABLES
    told,       \* what was said, in order
    offered,    \* the file at hand: its form and its content
    of,         \* what its maker knows: whose it is, in which form
    seen,       \* the identities of what was imported
    records,    \* what the readers recorded
    due,        \* what should be recorded, one for one
    missing,    \* how much of the last file could not be
    outcome,    \* how the last import came back
    said        \* what its result says of what is missing or in doubt

formatVars == <<told, offered, of, seen, records, due, missing, outcome, said>>

NoFile == [with |-> {}, form |-> Nobody, names |-> Nobody, sides |-> FALSE]
Silent == [unread |-> 0, why |-> {}]

FormatsInit ==
    /\ told = <<>> /\ offered = Nobody /\ of = NoFile
    /\ seen = {} /\ records = <<>> /\ due = <<>> /\ missing = 0
    /\ outcome = "none" /\ said = Silent

\* A reaction is to something that was said.
Say(u) ==
    /\ offered = Nobody /\ Len(told) < MaxSaid
    /\ told # <<>> => Last(told).at <= u.at
    /\ u.kind = "reaction" =>
          \E i \in DOMAIN told : told[i] = [u EXCEPT !.kind = "text", !.by = told[i].by, !.at = told[i].at]
    /\ told' = Append(told, u)
    /\ UNCHANGED <<offered, of, seen, records, due, missing, outcome, said>>

-----------------------------------------------------------------------------
(* Exports: programs that are not Between *)

Withs == {told[i].with : i \in DOMAIN told}

Among(kinds, withs) ==
    AtPlaces(told, {i \in DOMAIN told : told[i].kind \in kinds /\ told[i].with \in withs})

\* Every other has spoken in it.
Heard(talk, with) == \A p \in with : \E i \in DOMAIN talk : talk[i].by = p

More == Len(told) + Cardinality(seen) < MaxWork

Offered(form, content, maker) ==
    /\ More /\ (seen # {} => maker.form \in Later)
    /\ offered' = <<form, content>> /\ of' = maker
    /\ outcome' = "none" /\ said' = Silent
    /\ UNCHANGED <<told, seen, records, due, missing>>

Pieces(body) ==
    LET cuts == InOrder({0, Len(body) + 1} \cup {i \in DOMAIN body : body[i] = Newline})
    IN [k \in 1..(Len(cuts) - 1) |-> SubSeq(body, cuts[k] + 1, cuts[k + 1] - 1)]

LinesOf(u, order, twelve) ==
    LET hour == u.at % (2 * Half)
        date == u.at \div (2 * Half)
        day == (date % MonthDays) + 1
        month == (date \div MonthDays) + 1
        pieces == Pieces(IF u.kind = "media" THEN Placeholder ELSE u.words)
    IN <<Line(IF order = "dmy" THEN day ELSE month, IF order = "dmy" THEN month ELSE day,
              IF twelve THEN ((hour + Half - 1) % Half) + 1 ELSE hour,
              IF twelve THEN IF hour < Half THEN "a" ELSE "p" ELSE Nobody,
              u.by, pieces[1])>> \o [k \in 1..(Len(pieces) - 1) |-> Continuation(pieces[k + 1])]

ChatOf(talk, order, twelve) == FlattenSeq([i \in DOMAIN talk |-> LinesOf(talk[i], order, twelve)])

ExportChat(with, order, twelve) ==
    LET talk == Among({"text", "media", "notice"}, {with})
    IN /\ Heard(talk, with)
       /\ Offered("whatsapp", ChatOf(talk, order, twelve), [NoFile EXCEPT !.with = with, !.form = order])

Escaped(body) ==
    <<Quote>> \o FlattenSeq([i \in DOMAIN body |->
        IF body[i] = Quote THEN <<Quote, Quote>> ELSE <<body[i]>>]) \o <<Quote>>

Cell(value) == IF value = Nobody THEN <<>> ELSE <<<<"atom", value>>>>

TimeOf(u, form) ==
    IF u.kind = "undated" THEN Nobody ELSE
    CASE form = "iso" -> [form |-> "iso", value |-> MsAt(u.at)]
      [] form = "seconds" -> [form |-> "number", value |-> SecondsAt(u.at)]
      [] form = "millis" -> [form |-> "number", value |-> MsAt(u.at)]
      [] OTHER -> [form |-> "ambiguous", value |-> u.at]

\* Names: of everybody, of nobody, of the others only.
NameOf(u, names) == IF names = "none" \/ (names = "theirs" /\ u.by = Myself) THEN Nobody ELSE u.by
SideOf(u, sides) == IF ~sides THEN Nobody ELSE IF u.by = Myself THEN "out" ELSE "in"

RowText(u, form, names, sides) ==
    Cell(TimeOf(u, form)) \o <<Comma>> \o Cell(NameOf(u, names)) \o <<Comma>> \o Cell(SideOf(u, sides))
    \o <<Comma>> \o Escaped(u.words) \o <<Newline>>

Header ==
    Cell("time") \o <<Comma>> \o Cell("sender") \o <<Comma>> \o Cell("direction") \o <<Comma>>
    \o Cell("body") \o <<Newline>>

RowsOf(talk, form, names, sides) ==
    Header \o FlattenSeq([i \in DOMAIN talk |-> RowText(talk[i], form, names, sides)])

ExportRows(with, form, names, sides) ==
    LET talk == Among({"text", "undated"}, {with})
    IN /\ Heard(talk, with)
       /\ Offered("rows", RowsOf(talk, form, names, sides),
              [with |-> with, form |-> form, names |-> names, sides |-> sides])

\* Numbers are written in the form of where they come from.
Number(p, mine) == <<"number", p, IF mine THEN "plain" ELSE "international">>

TextOf(u) == (IF u.kind = "reaction" THEN <<Verb>> ELSE <<>>) \o u.words

MmsOf(u, listed) ==
    LET mine == u.by = Myself
        with == SetToSeq(u.with)
        people == <<u.by>> \o SetToSeq((u.with \cup {Myself}) \ {u.by})
    IN <<[tag |-> "mms", attrs |->
            [box |-> IF mine THEN 2 ELSE 1, mType |-> IF mine THEN 128 ELSE 132,
             date |-> SecondsAt(u.at), id |-> Nobody,
             envelope |-> [i \in DOMAIN with |-> Number(with[i], mine)]]],
         [tag |-> "part", part |-> [type |-> "text", layout |-> TRUE, text |-> <<Null>>]],
         [tag |-> "part", part |-> IF u.kind = "media"
            THEN [type |-> "image", layout |-> FALSE, text |-> <<Null>>]
            ELSE [type |-> "text", layout |-> FALSE, text |-> TextOf(u)]]>>
       \o (IF listed THEN [i \in DOMAIN people |-> [tag |-> "addr", addr |-> [address |-> Number(people[i], mine)]]]
           ELSE <<>>)
       \o <<[tag |-> "/mms"]>>

SmsOf(u) ==
    [tag |-> "sms", row |->
        Sms(IF u.by = Myself THEN 2 ELSE 1, MsAt(u.at), Number(CHOOSE p \in u.with : TRUE, u.by = Myself),
            TextOf(u), Nobody)]

\* With groups and with pictures only as multimedia; a copy may be torn.
ElementsOf(talk, listed) ==
    FlattenSeq([i \in DOMAIN talk |->
        IF talk[i].kind # "media" /\ Cardinality(talk[i].with) = 1 THEN <<SmsOf(talk[i])>>
        ELSE MmsOf(talk[i], listed)])

ExportBackup(listed, whole) ==
    LET talk == Among({"text", "media", "reaction"}, Withs)
    IN /\ talk # <<>>
       /\ Offered("backup", [elements |-> ElementsOf(talk, listed), whole |-> whole], NoFile)

\* Two chats with one person, by number and by mail, and one for a group; a
\* group may be older.
Mail(p) == <<"mail", p>>
Ident(with) == IF Cardinality(with) > 1 THEN <<"group">> ELSE CHOOSE p \in with : TRUE

MacChats(groupFirst) ==
    LET groups == {w \in Withs : Cardinality(w) > 1}
        ones == SetToSeq(Withs \ groups)
        twice == FlattenSeq([i \in DOMAIN ones |->
                    <<[ident |-> Ident(ones[i]), handles |-> <<Ident(ones[i])>>],
                      [ident |-> Ident(ones[i]), handles |-> <<Mail(Ident(ones[i]))>>]>>])
        rest == [i \in 1..Cardinality(groups) |-> [ident |-> <<"group">>, handles |-> SetToSeq(SetToSeq(groups)[i])]]
    IN IF groupFirst THEN rest \o twice ELSE twice \o rest

\* recent: nanoseconds, and words in blobs.
MacRow(u, i, chats, recent) ==
    LET raw == (SecondsAt(u.at) - AppleEpoch) * (IF recent THEN Scale * Scale ELSE 1)
        same == {j \in 1..(i - 1) : told[j].kind = "text" /\ told[j].with = u.with /\ told[j].words = u.words}
    IN [guid |-> i, mine |-> u.by = Myself,
        chats |-> {c \in DOMAIN chats : chats[c].ident = Ident(u.with)},
        date |-> IF u.kind = "undated" THEN 0 ELSE raw,
        text |-> IF u.kind = "text" /\ ~recent THEN u.words ELSE <<>>,
        blob |-> CASE u.kind = "unreadable" -> Nobody
                   [] u.kind \in {"text", "undated"} /\ recent -> <<<<<<"class", "">>>>, u.words>>
                   [] OTHER -> <<>>,
        type |-> CASE u.kind = "reaction" -> 2000 [] u.kind = "removal" -> 3000 [] OTHER -> 0,
        about |-> IF same = {} THEN 0 ELSE Min(same),
        retracted |-> u.kind = "unsent"]

MacOf(chats, recent) ==
    [chats |-> chats, rows |-> [i \in DOMAIN told |-> MacRow(told[i], i, chats, recent)]]

ExportMac(groupFirst, recent) ==
    /\ told # <<>> /\ \A i \in DOMAIN told : told[i].kind # "notice"
    /\ Offered("chatdb", MacOf(MacChats(groupFirst), recent), NoFile)

-----------------------------------------------------------------------------
(* Imports *)

ContentId(chosen) == <<offered, chosen>>

\* Nothing is read twice: not the file, nor a conversation under another name.
Imported(chosen) ==
    /\ ContentId(chosen) \in seen
    /\ outcome' = "known" /\ said' = Silent
    /\ UNCHANGED <<told, offered, of, seen, records, due, missing>>

Refuse(chosen, reason) ==
    /\ ContentId(chosen) \notin seen
    /\ outcome' = reason /\ said' = Silent
    /\ UNCHANGED <<told, offered, of, seen, records, due, missing>>

\* rs is recorded of ts, which leaves some out.  sure: the dates are proved;
\* split: the result says that a group was threaded per person.
Keep(chosen, rs, ts, left, sure, forced, result) ==
    /\ ContentId(chosen) \notin seen
    /\ seen' = seen \cup {ContentId(chosen)}
    /\ records' = records \o rs
    /\ due' = due \o [i \in DOMAIN ts |->
                  [u |-> ts[i], source |-> offered, sure |-> sure, forced |-> forced,
                   split |-> "per person" \in result.why]]
    /\ missing' = left
    /\ outcome' = "done" /\ said' = result
    /\ UNCHANGED <<told, offered, of>>

Emitted(rows) == [k \in DOMAIN rows |-> NormalizeSms(rows[k])]

\* What the scan says of the dates goes nowhere.
ImportChat(owner, forced) ==
    LET r == ParseWhatsApp(offered[2], owner, forced)
        ts == Among({"text", "media"}, {of.with})
    IN /\ offered[1] = "whatsapp"
       /\ \/ Imported(Nobody)
          \/ r.refused # Nobody /\ Refuse(Nobody, r.refused)
          \/ r.refused = Nobody /\
                Keep(Nobody, Emitted(r.records), ts, 0, r.proven /\ forced \in {of.form, Nobody},
                       forced # Nobody, Silent)

RowsIn(text) ==
    LET rows == Tail(ParseCsv(text))
        value(c) == IF c = <<>> THEN Nobody ELSE c[1][2]
    IN [i \in DOMAIN rows |->
           [time |-> IF rows[i][1] = <<>> THEN [form |-> "none"] ELSE value(rows[i][1]),
            sender |-> value(rows[i][2]), direction |-> value(rows[i][3]), body |-> rows[i][4]]]

\* A row that says when, and whose it is.
Tells(u, owner) ==
    /\ u.kind = "text" /\ of.form # "ambiguous"
    /\ \/ of.sides
       \/ owner = Myself /\ (of.names = "all" \/ (of.names = "theirs" /\ u.by # Myself))

\* Without a direction the owner's name decides, as it is given.
ImportRows(owner) ==
    LET r == ParseGeneric(RowsIn(offered[2]), owner, <<"unnamed", offered[2]>>)
        talk == Among({"text", "undated"}, {of.with})
        ts == AtPlaces(talk, {i \in DOMAIN talk : Tells(talk[i], owner)})
    IN /\ offered[1] = "rows"
       /\ \/ Imported(Nobody)
          \/ Keep(Nobody, Emitted(r.records), ts, Len(talk) - Len(ts), TRUE, FALSE,
                    [unread |-> r.skipped, why |-> r.problems])

ImportBackup ==
    LET r == ParseSmsBackup(offered[2].elements, offered[2].whole)
        ts == Among({"text", "media", "reaction"}, Withs)
    IN /\ offered[1] = "backup"
       /\ \/ Imported(Nobody)
          \/ r.refused # Nobody /\ Refuse(Nobody, r.refused)
          \/ r.refused = Nobody /\ Keep(Nobody, r.records, ts, 0, TRUE, FALSE, Silent)

\* Mutant: the import is seen by what was typed.
ChosenAsTyped(want) == want

\* The conversation a wish selects is what is imported.
Chosen(want) ==
    LET picked == PickConversation(ConversationsIn(offered[2]), want)
    IN IF picked = {} THEN Nobody ELSE (CHOOSE c \in picked : TRUE).ident

\* Whose conversation is asked for by an address, or without one.
Meant(want) ==
    IF want = Nobody THEN UNION Withs
    ELSE IF want = <<"group">> THEN UNION {w \in Withs : Cardinality(w) > 1}
    ELSE IF \E p \in Others : want = Mail(p) /\ {p} \in Withs THEN {p \in Others : want = Mail(p)}
    ELSE IF {want} \in Withs THEN {want} ELSE UNION {w \in Withs : want \in w}

\* From a copy only, and only if the owner wishes to try.
ImportMac(live, beta, want) ==
    LET r == ParseIMessage(offered[2], want)
        ts == Among({"text", "media", "reaction", "unsent", "unreadable"}, {Meant(want)})
    IN /\ offered[1] = "chatdb"
       /\ \/ live /\ Refuse(<<"live">>, "live")
          \/ ~live /\ Imported(Chosen(want))
          \/ ~live /\ ~beta /\ Refuse(Chosen(want), "beta")
          \/ ~live /\ beta /\ r.refused # Nobody /\ Refuse(Chosen(want), r.refused)
          \/ ~live /\ beta /\ r.refused = Nobody /\
                Keep(Chosen(want), Emitted(r.records), ts, Len(Among({"undated"}, {Meant(want)})), TRUE, FALSE,
                       [unread |-> r.undated, why |-> IF r.undated > 0 THEN {"undated"} ELSE {}])

\* Another file.
PutAway ==
    /\ offered # Nobody /\ outcome = "done" /\ More
    /\ offered' = Nobody /\ of' = NoFile /\ outcome' = "none" /\ said' = Silent
    /\ UNCHANGED <<told, seen, records, due, missing>>

Export ==
    /\ offered = Nobody
    /\ \/ \E with \in Withs, order \in Orders, twelve \in BOOLEAN : ExportChat(with, order, twelve)
       \/ \E with \in Withs, form \in {"iso", "seconds", "millis", "ambiguous"},
             names \in {"all", "none", "theirs"}, sides \in BOOLEAN :
                ExportRows(with, form, names, sides)
       \/ \E listed, whole \in BOOLEAN : ExportBackup(listed, whole)
       \/ \E groupFirst, recent \in BOOLEAN : ExportMac(groupFirst, recent)

Import ==
    /\ offered # Nobody
    /\ \/ \E owner \in Given, forced \in Orders \cup {Nobody} : ImportChat(owner, forced)
       \/ \E owner \in {Myself, Nobody} : ImportRows(owner)
       \/ ImportBackup
       \/ \E live, beta \in BOOLEAN, want \in Others \cup {Mail(p) : p \in Others} \cup {Nobody, <<"group">>} :
             ImportMac(live, beta, want)

FormatsNext == (\E u \in Utterances : Say(u)) \/ Export \/ Import \/ PutAway

-----------------------------------------------------------------------------
(* Properties *)

\* What a record of utterance u says.
WordsOf(u) ==
    CASE u.kind = "media" -> <<>> [] u.kind = "reaction" -> <<Verb>> \o u.words
      [] u.kind = "unsent" -> Unsent [] u.kind = "unreadable" -> Unreadable [] OTHER -> u.words

\* Everything that was said is recorded, on the right side, in all its words, a
\* reaction as a reaction, whatever file it came in, and once, however often
\* and under whichever name that is imported.
ToldOnce ==
    /\ Len(records) = Len(due)
    /\ \A i \in DOMAIN due :
          Cardinality({j \in DOMAIN due : due[j].u = due[i].u /\ due[j].source = due[i].source})
              <= Cardinality({k \in DOMAIN told : told[k] = due[i].u})
    /\ \A i \in DOMAIN due :
          /\ records[i].direction = IF due[i].u.by = Myself THEN "outgoing" ELSE "incoming"
          /\ records[i].words = WordsOf(due[i].u)
          /\ records[i].reaction = (due[i].u.kind = "reaction")

Counterparts(i) == records[i].addresses \ {<<"alias", Myself>>, <<"number", Myself>>}

\* The records of one file have the same counterparts exactly if they are of
\* one conversation, and two conversations never have the same in any file.
OneCounterpart ==
    \A i, j \in DOMAIN due :
        /\ Counterparts(i) # {} \/ due[i].split
        /\ due[i].u.with # due[j].u.with /\ ~due[i].split /\ ~due[j].split =>
              Counterparts(i) # Counterparts(j)
        /\ due[i].u.with = due[j].u.with /\ due[i].source = due[j].source /\ ~due[i].split =>
              Counterparts(i) = Counterparts(j)

\* Where a file proves its dates, or needs no proof, they are right.
ProvenIsRight ==
    \A i \in DOMAIN due : due[i].sure => records[i].at = MsAt(due[i].u.at)

\* What a file has and the archive does not is counted in the result.
MissingIsCounted == outcome = "done" => said.unread = missing

\* Dates in an order that nothing proves are not silently picked: if they are
\* wrong, the result has a word about them (whatsapp.ts inferDateOrder).
GuessIsSaid ==
    outcome = "done" =>
        \A i \in DOMAIN due :
            due[i].source = offered /\ ~due[i].forced /\ said.why = {} =>
                records[i].at = MsAt(due[i].u.at)
=============================================================================

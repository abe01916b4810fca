------------------------------ MODULE MCIntake ------------------------------
(* A small instance of the intake for TLC.  The archive's owner is 0, the   *)
(* others are 1 and 2, and everything is said within one minute, in the     *)
(* same words.  What the files hold is said in six days of four hours.      *)
EXTENDS Intake

CONSTANTS i1, i2, a, b

In(addr, instant, carries, native) ==
    [addr |-> addr, dir |-> "incoming", at |-> instant, body |-> 0,
     native |-> native, carries |-> carries]

Mms == {<<1, "from">>, <<0, "to">>}
Group == {<<1, "from">>, <<0, "to">>, <<2, "to">>}
Envelope == {<<1, "from">>, <<2, "from">>}

SmallLog == <<
    In(Mms, 2, 0, 1),             \* a message that says who the owner is,
    In(Group, 1, 0, NoId),        \* a group message,
    In(Envelope, 1, 1, NoId),     \* another of that instant, without the owner's address,
    [In({<<0, "from">>, <<0, "to">>}, 1, 0, NoId) EXCEPT !.dir = "outgoing"]>>  \* a note to self

\* The small log is one that what is proved of keys and conversations is about,
\* and the names are such as what is proved of the formats supposes.
ASSUME SourcesAssumption == NoStranger /\ OneInstant /\ Peopled /\ PlainNames /\ OwnName

Symmetry == Permutations(Importers)

Word == <<<<"word", "w">>>>
Long == <<<<"word", "w">>, Newline, Quote, Comma, <<"word", "v">>>>

Said(with, by, hour, kind, words) ==
    [with |-> with, by |-> by, at |-> hour, kind |-> kind, words |-> words]

\* Hours 6 and 7 are in the second day of the first month, those from 8 to 11
\* in its third, which proves the order of a date, 15 ends the first of the
\* second month.
SmallUtterances ==
    {Said({a}, Nobody, 5, "notice", Word), Said({a}, a, 6, "text", Word),
     Said({a}, a, 7, "media", <<>>), Said({a}, Myself, 8, "text", Long),
     Said({a}, Myself, 9, "reaction", Word), Said({a}, a, 10, "removal", Word),
     Said({a}, a, 11, "unsent", Word), Said({a}, a, 12, "undated", Word),
     Said({a}, a, 13, "unreadable", Word), Said({a}, Myself, 15, "text", Word),
     Said({b}, b, 6, "text", Word),
     Said({a, b}, a, 6, "text", Word), Said({a, b}, b, 8, "text", Word)}
=============================================================================

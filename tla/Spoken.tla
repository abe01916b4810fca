------------------------------- MODULE Spoken -------------------------------
(***************************************************************************)
(* What people said to each other, and the record every reader of an       *)
(* exported file makes of it (types.ts RawRecord, ingest/normalize.ts).    *)
(*                                                                         *)
(* Words are tokens: pairs of a kind and a value, of which only the kinds  *)
(* that some format treats specially are told apart.                       *)
(***************************************************************************)
EXTENDS Integers, SequencesExt, Places

CONSTANTS
    Myself,     \* the owner, by the name and number the files know
    Others,     \* those the owner talks with
    Nobody,     \* no name, no owner, no choice
    Lexicon,    \* the words that are nothing special
    Scale       \* milliseconds in a second, kept small

ASSUME NamesAssumption == Myself \notin Others /\ Nobody \notin Others \cup {Myself}
\* Milliseconds are told from seconds, and nanoseconds from both, by their size.
ASSUME ScaleAssumption == Scale \in Nat /\ Scale > 2

\* Hour h in seconds and in milliseconds; a bare number of seconds is told by
\* its size, below Threshold.
SecondsAt(h) == 100 + h
MsAt(h) == SecondsAt(h) * Scale
Threshold == 100 * Scale

Special == {"newline", "null", "quote", "comma", "verb", "omitted", "class", "attribute",
            "unreadable", "unsent"}
Token == ({"word"} \X Lexicon) \cup (Special \X {""})

Newline == <<"newline", "">>
Null == <<"null", "">>

\* What a reaction begins with (classify.ts VERB_TO_KIND).
Verb == <<"verb", "">>

\* with: the others in the conversation; by: who said it, Nobody for a notice
\* of the application.  A reaction has the words it is about.
Kinds == {"text", "media", "notice", "reaction", "removal", "unsent", "undated", "unreadable"}
Utterance == [with : SUBSET Others, by : Others \cup {Myself, Nobody}, at : Nat,  \* the hour
              kind : Kinds, words : Seq(Token)]

\* Without the line breaks around it.
Trim(body) ==
    LET ink == {i \in DOMAIN body : body[i] # Newline}
    IN IF ink = {} THEN <<>> ELSE SubSeq(body, Min(ink), Max(ink))

-----------------------------------------------------------------------------
(* Records *)

\* A row with one address, as the phone's backup keeps a text message and as
\* every other reader emits what it reads.
Sms(type, date, address, body, native) ==
    [type |-> type, date |-> date, address |-> address, body |-> body, native |-> native]

Coerce(body) == IF body = <<Null>> THEN <<>> ELSE body

\* A bare number of ten digits is seconds.
ToMs(date) == IF date < Threshold THEN date * Scale ELSE date

SmsDirection(type) ==
    CASE type = 1 -> "incoming" [] type = 2 -> "outgoing" [] type = 3 -> "draft" [] OTHER -> "other"

\* Numbers are known in one form, whatever they were written in; a name is
\* what it is.
E164(address) == IF address[1] = "number" THEN <<"number", address[2]>> ELSE address

\* What people type does not begin with a verb and a quotation.
IsReaction(body) == body # <<>> /\ Head(body) = Verb

Normalized(direction, date, body, addresses, native) ==
    [direction |-> direction, at |-> ToMs(date), words |-> Coerce(body),
     addresses |-> {E164(a) : a \in addresses}, reaction |-> IsReaction(Coerce(body)),
     native |-> native]

NormalizeSms(r) ==
    Normalized(SmsDirection(r.type), r.date, r.body, {r.address} \ {Nobody}, r.native)
=============================================================================

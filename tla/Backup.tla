------------------------------- MODULE Backup -------------------------------
(***************************************************************************)
(* The reader of the phone's backup: a stream of XML elements              *)
(* (ingest/parse.ts) and what its two kinds of rows mean                   *)
(* (ingest/normalize.ts).                                                  *)
(***************************************************************************)
EXTENDS Spoken

NoMms == [open |-> FALSE, attrs |-> Nobody, parts |-> <<>>, addrs |-> <<>>]
Began == [current |-> NoMms, records |-> <<>>]

-----------------------------------------------------------------------------
(* Multimedia messages: a box, parts of a body, and people in roles         *)

MmsDirection(box, mType) ==
    CASE box \in {1, 3} -> "incoming" [] box \in {2, 4} -> "outgoing"
      [] OTHER -> IF mType = 128 THEN "outgoing" ELSE IF mType = 132 THEN "incoming" ELSE "other"

\* Text, in order, without the layout.
BodyOfParts(parts) ==
    FlattenSeq([i \in DOMAIN parts |->
        IF parts[i].type = "text" /\ ~parts[i].layout THEN Coerce(parts[i].text) ELSE <<>>])

\* Those listed, or those on the envelope when nobody is.
Addresses(m) ==
    IF m.addrs # <<>> THEN {m.addrs[i].address : i \in DOMAIN m.addrs} \ {Nobody}
    ELSE {m.attrs.envelope[i] : i \in DOMAIN m.attrs.envelope}

NormalizeMms(m) ==
    Normalized(MmsDirection(m.attrs.box, m.attrs.mType), m.attrs.date,
               BodyOfParts(m.parts), Addresses(m), m.attrs.id)

-----------------------------------------------------------------------------
(* The stream.  A message with parts is emitted when it is closed.          *)

Tag(s, e) ==
    CASE e.tag = "sms" -> [s EXCEPT !.records = Append(@, NormalizeSms(e.row))]
      [] e.tag = "mms" -> [s EXCEPT !.current = [NoMms EXCEPT !.open = TRUE, !.attrs = e.attrs]]
      [] e.tag = "part" /\ s.current.open -> [s EXCEPT !.current.parts = Append(@, e.part)]
      [] e.tag = "addr" /\ s.current.open -> [s EXCEPT !.current.addrs = Append(@, e.addr)]
      [] e.tag = "/mms" /\ s.current.open ->
             [current |-> NoMms, records |-> Append(s.records, NormalizeMms(s.current))]
      [] OTHER -> s

\* A stream that ends before its last element is closed is an error, whatever
\* was emitted before.
ParseSmsBackup(elements, whole) ==
    IF ~whole THEN [refused |-> "torn"]
    ELSE [refused |-> Nobody, records |-> FoldLeft(Tag, Began, elements).records]
=============================================================================

------------------------------ MODULE Receipts ------------------------------
(***************************************************************************)
(* What an engine may claim and what is kept of it: the payload schemas,   *)
(* the resolution of evidence against the rows of the archive, and the     *)
(* composition of prose from the blocks that keep a receipt.               *)
(*                                                                         *)
(* A payload is a record of the evidence it cites.  A block is a text, a   *)
(* kind and a set of message ids; its wording is a value.                  *)
(***************************************************************************)
EXTENDS Conversation

ModelKinds == {"observation", "tentative_interpretation"}

Block == [kind : STRING, text : STRING, ids : SUBSET Nat]

-----------------------------------------------------------------------------
(* Schemas: what each lens demands before and after its evidence is         *)
(* resolved.                                                                *)

BlocksValid(p) ==
    \A i \in DOMAIN p.blocks : p.blocks[i].kind \in ModelKinds /\ p.blocks[i].ids # {}

\* One or two strengths, each with a receipt, and an observation with two.
ReduceValid(p) ==
    /\ Len(p.strengths) \in 1 .. 2
    /\ \A i \in DOMAIN p.strengths : p.strengths[i] # {}
    /\ Cardinality(p.observation) >= 2

\* What a message is given stays on its scale; a note has a receipt.
L1Valid(p) == \A i \in DOMAIN p.notes : p.notes[i] # {}

PatternsValid(p) == \A i \in DOMAIN p.patterns : p.patterns[i].ids # {}

\* What is stored of a refusal; no schema accepts it.
Blank == [refused |-> TRUE]

LensValid(lens, p) ==
    /\ p # Blank
    /\ CASE lens = "l1" -> L1Valid(p)
         [] lens = "reduce" -> ReduceValid(p)
         [] lens = "l4" -> PatternsValid(p)
         [] OTHER -> BlocksValid(p)

-----------------------------------------------------------------------------
(* Exact coverage of a window: every own message scored once, nobody else   *)
(* but the messages of the overlap.                                         *)

L1Coverage(p, chunk) ==
    /\ IsInjective(p.messages)
    /\ chunk.members \ chunk.prefix \subseteq ToSet(p.messages)
    /\ ToSet(p.messages) \subseteq chunk.members

-----------------------------------------------------------------------------
(* Resolution: a claim keeps the receipts that are rows; one without any is *)
(* dropped.                                                                 *)

KeptIds(ids, valid) == AtPlaces(ids, {i \in DOMAIN ids : ids[i] \in valid})

KeptSets(sets, valid) ==
    AtPlaces([i \in DOMAIN sets |-> sets[i] \cap valid],
             {i \in DOMAIN sets : sets[i] \cap valid # {}})

Narrowed(claims, valid) == [i \in DOMAIN claims |-> [claims[i] EXCEPT !.ids = @ \cap valid]]

KeptClaims(claims, valid) ==
    AtPlaces(Narrowed(claims, valid), {i \in DOMAIN claims : claims[i].ids \cap valid # {}})

\* Blocks of any other kind pass: the schema that is applied again, and the
\* composition, deal with them.
KeptBlocks(blocks, valid) ==
    AtPlaces([i \in DOMAIN blocks |->
                 IF blocks[i].kind \in ModelKinds THEN Narrowed(blocks, valid)[i] ELSE blocks[i]],
             {i \in DOMAIN blocks : blocks[i].kind \in ModelKinds => blocks[i].ids \cap valid # {}})

Resolve(lens, p, valid) ==
    CASE lens = "l1" -> [p EXCEPT !.messages = KeptIds(@, valid),
                                  !.notes = KeptSets(@, valid)]
      [] lens = "reduce" -> [p EXCEPT !.strengths = KeptSets(@, valid),
                                      !.observation = @ \cap valid]
      [] lens = "l4" -> [p EXCEPT !.patterns = KeptClaims(@, valid)]
      [] OTHER -> [p EXCEPT !.blocks = KeptBlocks(@, valid)]

-----------------------------------------------------------------------------
(* Composition.  Bridges and the closing question are the app's own; they    *)
(* are put among the survivors, and none into an empty reading.              *)

Bridge == [kind |-> "bridge", text |-> "bridge", ids |-> {}]
Question == [kind |-> "question", text |-> "question", ids |-> {}]

LongForm == [bridges |-> TRUE, closing |-> TRUE]
\* Mutant: what the engine wrote is composed as it came.
SurvivorsUnchecked(blocks, valid) == blocks

Survivors(blocks, valid) ==
    AtPlaces(Narrowed(blocks, valid),
             {i \in DOMAIN blocks : blocks[i].kind \in ModelKinds /\ blocks[i].ids \cap valid # {}})

\* Where bridges go: after the first of two or more, after the third of four.
BridgeAfter(i, n, form) == form.bridges /\ ((i = 1 /\ n >= 2) \/ (i = 3 /\ n >= 4))

Compose(blocks, valid, form) ==
    LET kept == Survivors(blocks, valid)
        Piece(i) == IF BridgeAfter(i, Len(kept), form) THEN <<kept[i], Bridge>> ELSE <<kept[i]>>
        body == FlattenSeq([i \in DOMAIN kept |-> Piece(i)])
        LastWith(t) == CHOOSE i \in DOMAIN kept :
                          kept[i].text = t /\ \A j \in DOMAIN kept : kept[j].text = t => j <= i
    IN IF kept = <<>> THEN [body |-> <<>>, evidence |-> <<>>]
       ELSE [body |-> IF form.closing THEN Append(body, Question) ELSE body,
             \* Keyed by the text: of two blocks that read alike, the later one's receipts.
             evidence |-> [t \in {kept[i].text : i \in DOMAIN kept} |-> kept[LastWith(t)].ids]]

=============================================================================

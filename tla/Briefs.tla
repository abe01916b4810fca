------------------------------- MODULE Briefs -------------------------------
(***************************************************************************)
(* What leaves the chapters for a reader: the answer to a question, a       *)
(* transcript, the session brief, and the material of a letter, of the      *)
(* other side and of the findings.  A text is the facts it carries.         *)
(***************************************************************************)
EXTENDS Chapters

CONSTANTS
    Filters,      \* what may be asked for, beside the words
    Cap           \* RETRIEVAL_CAP

ASSUME CapAssumption == Cap \in Nat

-----------------------------------------------------------------------------
(* Ask: the words are searched first, one past the cap, best first; the       *)
(* filters are applied to what that brings.                                  *)

Passes(m, f) ==
    /\ f.side # None => SideOf(m) = f.side
    /\ At[m] \in f.from .. f.to
    /\ f.tense # None => m \in DOMAIN tone /\ tone[m].tension >= f.tense
    /\ f.kid => "kid" \in Says[m]

\* What the words match, or all there is of the range.
Candidates(f) ==
    IF f.words # None THEN Saying(held, f.words) ELSE {m \in Msgs : At[m] \in f.from .. f.to}

\* A search may rank its hits in any order; a range is read from its start.
Retrieved(f) ==
    LET found == Candidates(f)
        n == Least(Cap + 1, Cardinality(found))
    IN IF f.words # None THEN {S \in SUBSET found : Cardinality(S) = n}
       ELSE {{m \in found : Cardinality(Before(m, found)) < n}}

Plan(f, hits) ==
    LET kept == {m \in hits : Passes(m, f)}
    IN [count |-> Least(Cardinality(kept), Cap), truncated |-> Cardinality(kept) > Cap, receipts |-> kept]

-----------------------------------------------------------------------------
(* A transcript                                                             *)

Transcript(ids, from, to) ==
    ByTime(IF ids # {} THEN Msgs \cap ids ELSE {m \in Msgs : At[m] \in from .. to})

-----------------------------------------------------------------------------
(* Materials.  The worst fights, of two alike the earlier first.             *)

Badness(s) == episodes[s].severe["me"] + episodes[s].severe["them"]

Worst(some, n) ==
    {s \in some : Cardinality({t \in some : \/ Badness(t) > Badness(s)
                                            \/ Badness(t) = Badness(s) /\ episodes[t].start < episodes[s].start}) < n}

Cited(some) == UNION {ToSet(Members(episodes[s])) : s \in some}

Total(what) ==
    LET T == Trajectory(Msgs, tone, Cal)
    IN [s \in Sides |-> SumOf([k \in DOMAIN T |-> T[k][what][s]])]

Names == {Eras[e].name : e \in DOMAIN Eras}

LetterMaterial ==
    LET top == Worst(DOMAIN episodes, 6)
    IN [gate |-> <<GateFor.frame, GateFor.direction>>,
        headline |-> <<Total("hostile"), Total("severe")>>,
        growth |-> metrics["growth"], eras |-> Names,
        notes |-> {episodes[s].note : s \in top}, receipts |-> Cited(top)]

\* Of each kind and side, the latest few disclosures.
FindingsMaterial ==
    LET ledger == Ledger(Msgs)
        latest(some) == {m \in some : Cardinality({k \in some : At[k] > At[m]}) < 4}
        bank == UNION {latest({m \in ledger[c] : SideOf(m) = s}) : c \in DOMAIN ledger, s \in Sides}
    IN [findings |-> FindingsNow, gate |-> GateFor, calibrated |-> Calibrated, receipts |-> bank]

-----------------------------------------------------------------------------
(* The session brief                                                        *)

\* What was counted last time, if it was.
Counts == IF metrics["findings"] = None THEN FindingsNow ELSE metrics["findings"]

TherapyPack ==
    [disclosed |-> Saying(Msgs, "death") # {},
     banner |-> SafetyBanner(Counts),
     headline |-> Total("hostile"),
     direction |-> IF research THEN GateFor.frame ELSE "not shown",
     episodes |-> Worst({s \in DOMAIN episodes : episodes[s].note # None}, 3),
     eras |-> Names]

\* The gate is asked for whether it is shown or not.
ExportBrief ==
    /\ Step /\ Countable(Eras, episodes, reads)
    /\ brief' = TherapyPack
    /\ UNCHANGED <<held, tone, calibration, bias, agreed, research, clock, episodes, metrics, reads, marks, unwarmed>>

BriefsNext == ChaptersNext \/ ExportBrief

BriefsSpec == ChaptersInit /\ [][BriefsNext]_chaptersVars

-----------------------------------------------------------------------------
(* Properties *)

NotesKept ==
    \A s \in DOMAIN episodes \cap DOMAIN episodes' :
        episodes[s].note # None => episodes'[s].note = episodes[s].note

NamesKept ==
    \A s \in DOMAIN Eras \cap DOMAIN Eras' :
        Eras[s].name # None => Eras'[s].name = Eras[s].name

\* A note is kept as long as its fight, and a name as long as its era: no
\* recomputation loses what was written by hand or paid for.
NarrativesSurvive == [][held # {} => NotesKept /\ NamesKept]_chaptersVars

\* A side is taken only where the owner was calibrated and the preview is on,
\* and never on heat alone: the fights of some era show more unrepaired
\* coercion by that side than by the other.
HeatAloneIsNoVerdict ==
    Countable(Eras, episodes, reads) /\ "support" \in {LetterMaterial.gate[1], FindingsMaterial.gate.frame} =>
        /\ research /\ Calibrated
        /\ \E e \in DOMAIN Eras : LET agg == Aggregate(Eras[e], episodes, reads)
                                      side == GateFor.direction
                                  IN \A other \in Sides \ {side} :
                                        /\ agg.coercive[side] > agg.coercive[other]
                                        /\ agg.init[side] > agg.init[other]

\* The overview that is read is of the messages that are there, in one of the
\* zones the owner had: unless an import was killed before it was refreshed.
OverviewIsCurrent ==
    unwarmed \/ metrics["overview"] = None \/ \E z \in Clocks : metrics["overview"] = Overview(held, z)

\* therapyPack.ts: a care banner whenever a death wish was disclosed on either
\* side, never suppressed.
BannerWheneverDisclosed == brief # None => (brief.disclosed => brief.banner)

\* ask.ts: a question of words or of a range alone is counted up to the cap, and
\* has a plus exactly if more match.  With a filter the plus may be missing.
CountIsHonest ==
    \A f \in Filters : \A hits \in Retrieved(f) :
        LET matches == Cardinality({m \in Candidates(f) : Passes(m, f)})
        IN Candidates(f) = {m \in Candidates(f) : Passes(m, f)} =>
              /\ Plan(f, hits).count = Least(matches, Cap)
              /\ Plan(f, hits).truncated = (matches > Cap)

=============================================================================

---------------------------- MODULE Calibration -----------------------------
(***************************************************************************)
(* The owner labels a sample of messages without seeing their scores; the  *)
(* labels propose the thresholds of what counts as hard, and say how       *)
(* gentle the owner is with themselves.                                    *)
(*                                                                         *)
(* A rate is a fraction <<n, d>>.  A label is compared by its severity,     *)
(* none of which is "skip".  Numbers that the code fixes are in Floors.     *)
(***************************************************************************)
EXTENDS Measures

CONSTANTS
    Severity,   \* of each label but "skip", from 0 to 3; hostile above 0
    Floors      \* labels, hostile and severe labels, high messages a side needs

\* Nothing is fitted to no label.
ASSUME FloorsAssumption == {Floors.hostile, Floors.severe} \subseteq Nat \ {0}

Default == [hostile |-> 2, severe |-> 3]

-----------------------------------------------------------------------------
(* The draw: of each side as many, and of each of the model's bands.        *)

Bands == {"low", "mid", "high"}

Tension(m, tone) == IF m \in DOMAIN tone THEN tone[m].tension ELSE 0

BandOf(m, tone) ==
    LET t == Tension(m, tone) IN IF t >= 2 THEN "high" ELSE IF t >= 1 THEN "mid" ELSE "low"

Strata(msgs, tone, side) ==
    [b \in Bands |-> {m \in msgs : SideOf(m) = side /\ BandOf(m, tone) = b}]

Least(a, b) == IF a < b THEN a ELSE b

\* A third each; what a short band leaves goes to the hardest that has more.
FirstPass(have, perSide) == [b \in Bands |-> Least(have[b], perSide \div 3)]

Share(have, perSide) ==
    FoldLeft(LAMBDA got, b :
                LET room == perSide - (got["high"] + got["mid"] + got["low"])
                IN [got EXCEPT ![b] = @ + Least(room, have[b] - @)],
             FirstPass(have, perSide), <<"high", "mid", "low">>)

Draws(msgs, tone, perSide) ==
    LET strata == [s \in Sides |-> Strata(msgs, tone, s)]
        want == [s \in Sides |-> Share([b \in Bands |-> Cardinality(strata[s][b])], perSide)]
    IN {S \in SUBSET msgs : \A s \in Sides : \A b \in Bands : Cardinality(S \cap strata[s][b]) = want[s][b]}

-----------------------------------------------------------------------------
(* The labels, rejoined to the scores                                       *)

\* Marks on rows that are gone are left out, and skipped ones do not count.
Rejoined(marks, msgs, tone) ==
    [m \in {k \in DOMAIN marks \cap msgs : marks[k] # "skip"} |->
        [side |-> SideOf(m), tension |-> Tension(m, tone), label |-> marks[m]]]

Hostile(labels) == {m \in DOMAIN labels : Severity[labels[m].label] > 0}

Cruel(labels) == {m \in DOMAIN labels : Severity[labels[m].label] >= 3}

Over(labels, t) == {m \in DOMAIN labels : labels[m].tension >= t}

\* The harmonic mean of precision and recall.
F1(labels, t, actual) ==
    LET hits == Cardinality(Over(labels, t) \cap actual)
    IN <<2 * hits, Cardinality(Over(labels, t)) + Cardinality(actual)>>

Better(p, q) == p[1] * q[2] > q[1] * p[2]

\* The first of the best.
Fitted(labels, T, actual) ==
    CHOOSE t \in T : \A u \in T :
        /\ ~Better(F1(labels, u, actual), F1(labels, t, actual))
        /\ u < t => Better(F1(labels, t, actual), F1(labels, u, actual))

\* A threshold that holds for some and not for all of them.
Separating(labels) == {t \in 1 .. 3 : Over(labels, t) \notin {{}, DOMAIN labels}}

Learnable(labels) ==
    /\ Cardinality(DOMAIN labels) >= Floors.labels
    /\ Cardinality(Hostile(labels)) >= Floors.hostile
    /\ Cardinality(Separating(labels)) >= 2
    /\ Over(labels, 1) \cap Hostile(labels) # {}

\* Mutant: the two are fitted apart.
DeriveApart(labels) ==
    IF ~Learnable(labels) THEN Default
    ELSE [hostile |-> Fitted(labels, 1 .. 3, Hostile(labels)), severe |-> Fitted(labels, {2, 3}, Cruel(labels))]

Derive(labels) ==
    LET hostile == Fitted(labels, 1 .. 3, Hostile(labels))
        severe == IF Cardinality(Cruel(labels)) >= Floors.severe
                  THEN Fitted(labels, {2, 3}, Cruel(labels)) ELSE hostile + 1
    IN IF ~Learnable(labels) THEN Default
       ELSE [hostile |-> hostile, severe |-> Least(IF severe <= hostile THEN hostile + 1 ELSE severe, 3)]

\* Where owner and model differ.
Disagreements(labels) ==
    {m \in DOMAIN labels : (labels[m].tension >= Derive(labels).hostile) # (m \in Hostile(labels))}

-----------------------------------------------------------------------------
(* How gently the owner labels their own hard messages.  What it adds to the *)
(* bar of the gate is in hundredths.                                        *)

HighOf(labels, side) == {m \in Over(labels, 2) : labels[m].side = side}

Bias(labels) ==
    LET n(s) == Cardinality(HighOf(labels, s))
        h(s) == Cardinality(HighOf(labels, s) \cap Hostile(labels))
        apart == n("me") * n("them")
        lenient == h("them") * n("me") - h("me") * n("them")
    IN IF n("me") < Floors.high \/ n("them") < Floors.high
       THEN [verdict |-> "insufficient", bump |-> 12]
       ELSE IF 100 * lenient > 15 * apart
       THEN [verdict |-> "self_lenient", bump |-> Least(12, (60 * lenient + apart) \div (2 * apart))]
       ELSE [verdict |-> IF 100 * lenient < 0 - 15 * apart THEN "self_critical" ELSE "balanced", bump |-> 0]

-----------------------------------------------------------------------------
(* Properties of every archive and all marks on it                          *)

\* Each side gets its half wherever it has that many messages, and no band
\* gets less than its third while it has one left.
DrawIsFair(msgs, tone, perSide) ==
    \A s \in Sides, S \in Draws(msgs, tone, perSide) :
        LET strata == Strata(msgs, tone, s)
            mine == {m \in msgs : SideOf(m) = s}
        IN /\ Cardinality(S \cap mine) = Least(perSide, Cardinality(mine))
           /\ \A b \in Bands : strata[b] \subseteq S \/ Cardinality(S \cap strata[b]) >= perSide \div 3

\* Whatever the owner marked, what is severe is hard: no count of the worst
\* exceeds the count it is part of.  Where any threshold tells what the owner
\* called hard, the one that is found does.
SevereIsHard(marks, msgs, tone) ==
    LET labels == Rejoined(marks, msgs, tone)
        cal == Derive(labels)
    IN /\ Severe(msgs, tone, cal) \subseteq Hard(msgs, tone, cal)
       /\ Learnable(labels) /\ (\E t \in 1 .. 3 : Over(labels, t) = Hostile(labels)) => Disagreements(labels) = {}

=============================================================================

------------------------------- MODULE Lenses -------------------------------
(***************************************************************************)
(* What is read into a conversation: the way to a frozen reading, the      *)
(* layers kept of its course, and the figures that both rest on.  They     *)
(* share messages and scores but no step: each is a part of its own, and    *)
(* the figures are looked at for every archive that can be imported.       *)
(***************************************************************************)
EXTENDS Reading, Briefs

CONSTANTS
    Archives,     \* sets of messages that may be there
    Spectra       \* scores that may be given

ASSUME ArchivesAssumption ==
    /\ \A archive \in Archives : archive \subseteq Rows
    /\ \A spectrum \in Spectra : \A m \in DOMAIN spectrum : spectrum[m].tension \in Nat

VARIABLE part

lensesVars == <<part, readingVars, chaptersVars>>

Figures ==
    /\ held \in Archives
    /\ \E s \in Spectra : tone = Restrict(s, DOMAIN s \cap Msgs)
    /\ marks \in {Restrict(l, Msgs) : l \in Marks}
    /\ clock \in Clocks /\ research = FALSE
    /\ calibration = None /\ bias = None /\ agreed = FALSE /\ episodes = <<>>
    /\ metrics = [k \in Keys |-> None] /\ reads = <<>> /\ brief = None
    /\ unwarmed = FALSE /\ steps = MaxSteps

Init ==
    /\ part \in {"reading", "chapters", "figures"}
    /\ ReadingInit
    /\ IF part = "figures" THEN Figures ELSE ChaptersInit

Next ==
    /\ UNCHANGED part
    /\ \/ part = "reading" /\ ReadingNext /\ UNCHANGED chaptersVars
       \/ part = "chapters" /\ BriefsNext /\ UNCHANGED readingVars

Spec == Init /\ [][Next]_lensesVars

-----------------------------------------------------------------------------
(* Properties of the figures                                                *)

\* Whatever was imported, scored and labelled: what is counted twice is
\* counted alike under the thresholds the labels propose, no silent month goes
\* unseen (archiveHealth.ts), a sample is half of each side and of each band
\* where there is any (calibrate.ts), and a plain count is a count (ask.ts).
FiguresAgree ==
    part = "figures" =>
        LET cal == Derive(Rejoined(marks, held, tone))
        IN /\ AccountsAgree(held, tone, cal, clock)
           /\ SevereIsHard(marks, held, tone)
           /\ NoHoleUnseen(held)
           /\ DrawIsFair(Msgs, tone, PerSide)
           /\ CountIsHonest

\* A fight is a longest run of hard messages with no gap longer than the
\* limit, of enough of them: none is left out, none is told twice, and what
\* lies between two fights is a gap.
EpisodesAreTheFights ==
    part = "figures" =>
    LET hard == Hard(Msgs, tone, Cal)
        fights == Fights(Msgs, tone, Cal)
        inside(s) == {m \in hard : At[m] \in fights[s].start .. fights[s].end}
        joined(m, k) == \A x \in hard : At[x] \in At[m] .. (At[k] - 1) => Soon(x, hard, Limits.gap) # {}
        run(m) == {k \in hard : joined(m, k) /\ joined(k, m)}
    IN /\ \A m \in hard : Cardinality(run(m)) >= Limits.minHostile <=> \E s \in DOMAIN fights : m \in inside(s)
       /\ \A s \in DOMAIN fights :
             /\ inside(s) = run(s)
             /\ fights[s].hostile = BySide(run(s))
             /\ fights[s].repaired # None => fights[s].repaired.at > fights[s].end

=============================================================================

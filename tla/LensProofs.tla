----------------------------- MODULE LensProofs -----------------------------
(***************************************************************************)
(* What is proved of what is read into a conversation: that the overview   *)
(* is of the messages there are, that no recomputation loses a note or a   *)
(* name, that every claim of a frozen reading leads to rows that say what   *)
(* the claim was written about, that no side is taken on heat alone, and    *)
(* that whatever is counted twice is counted alike.                         *)
(*                                                                         *)
(* A count is a sum over a partition (SumByKey): by side, by month, by day,  *)
(* by answer.  What the code computes in one pass is a fold from the left    *)
(* (StepByStep), of which an invariant says what was seen so far: a streak   *)
(* is no longer than the days read, a band got its third or all it has, and  *)
(* every silent month behind lies in one hole.                               *)
(***************************************************************************)
EXTENDS Lenses, Counting

-----------------------------------------------------------------------------
(* The chapters.  The table of figures has a row for each of its keys, and   *)
(* the owner a zone; the inductive invariant is that and the property.       *)

Keyed == metrics = [k \in Keys |-> metrics[k]]

Clocked == clock \in Clocks /\ unwarmed \in BOOLEAN

OverviewInv == Keyed /\ Clocked /\ OverviewIsCurrent

LEMMA ChaptersBegin ==
    ASSUME Init PROVE OverviewInv
<1>1. /\ metrics = [k \in Keys |-> None] /\ unwarmed = FALSE
      /\ clock \in Clocks
  BY ClocksAssumption DEF Init, ChaptersInit, Figures
<1>2. Keyed /\ metrics["overview"] = None
  BY <1>1 DEF Keyed, Keys
<1> QED BY <1>1, <1>2 DEF OverviewInv, Clocked, OverviewIsCurrent

\* What the four layers leave of the figures.
LEMMA Phase3Keeps ==
    ASSUME Keyed, Phase3
    PROVE  /\ Keyed' /\ metrics'["overview"] = metrics["overview"]
           /\ metrics'["eras"] \in ErasNow(episodes', metrics["eras"])
<1>1. PICK table, new, y, z : /\ table = metrics /\ new = metrics'
                              /\ y = Kids(episodes') /\ z = Growth(Msgs, tone, Cal)
  OBVIOUS
<1>2. PICK eras \in ErasNow(episodes', metrics["eras"]) :
         metrics' = [metrics EXCEPT !["eras"] = eras, !["kids"] = Kids(episodes'),
                                    !["growth"] = Growth(Msgs, tone, Cal)]
  BY DEF Phase3
<1>3. new = [table EXCEPT !["eras"] = eras, !["kids"] = y, !["growth"] = z]
  BY <1>1, <1>2
<1>4. table = [k \in Keys |-> table[k]]
  BY <1>1 DEF Keyed
<1>5. PICK one : one = [table EXCEPT !["eras"] = eras]
  OBVIOUS
<1>6. PICK two : two = [one EXCEPT !["kids"] = y]
  OBVIOUS
<1>7. new = [two EXCEPT !["growth"] = z]
  BY <1>3, <1>5, <1>6
<1>8. one = [k \in Keys |-> IF k = "eras" THEN eras ELSE table[k]]
  BY <1>4, <1>5 DEF Keys
<1>9. two = [k \in Keys |-> IF k = "kids" THEN y ELSE one[k]]
  BY <1>6, <1>8 DEF Keys
<1>10. new = [k \in Keys |-> IF k = "growth" THEN z ELSE two[k]]
  BY <1>7, <1>9 DEF Keys
<1>11. /\ new = [k \in Keys |-> new[k]]
       /\ new["overview"] = table["overview"] /\ new["eras"] = eras
  BY <1>8, <1>9, <1>10 DEF Keys
<1> QED BY <1>1, <1>2, <1>11 DEF Keyed

\* Only what is named here touches the messages or the overview.
LEMMA ChaptersKeep ==
    ASSUME OverviewInv, BriefsNext
    PROVE  OverviewInv'
<1> USE DEF OverviewInv, Keyed, Clocked, OverviewIsCurrent
<1>1. ASSUME UNCHANGED <<held, metrics, clock, unwarmed>> PROVE OverviewInv'
  BY <1>1
<1>2. ASSUME NEW b \in Arrivals, Import(b) PROVE OverviewInv'
  <2>1. CASE unwarmed'
    BY <1>2, <2>1 DEF Import
  <2>2. CASE ~unwarmed'
    <3>1. metrics' = [metrics EXCEPT !["overview"] = Overview(held', clock)]
      BY <1>2, <2>2 DEF Import
    <3>2. metrics'["overview"] = Overview(held', clock)
      BY <3>1 DEF Keys
    <3> QED BY <1>2, <3>1, <3>2 DEF Import
  <2> QED BY <2>1, <2>2
<1>3. ASSUME NEW s \in Scorings, Rescore(s) PROVE OverviewInv'
  BY <1>3 DEF Rescore
<1>4. ASSUME NEW z \in Clocks, SetClock(z) PROVE OverviewInv'
  BY <1>4 DEF SetClock
<1>5. CASE ReadOverview \/ RefreshOverview
  <2>1. metrics' = [metrics EXCEPT !["overview"] = Overview(held, clock)] /\ held' = held /\ clock' = clock
    BY <1>5 DEF ReadOverview, RefreshOverview, Cached
  <2>2. metrics'["overview"] = Overview(held', clock)
    BY <2>1 DEF Keys
  <2>3. unwarmed' \in BOOLEAN
    BY <1>5 DEF ReadOverview, RefreshOverview
  <2> QED BY <2>1, <2>2, <2>3
<1>6. CASE ReadFindings \/ RefreshFindings
  <2>1. metrics' = [metrics EXCEPT !["findings"] = FindingsNow] /\ UNCHANGED <<held, clock, unwarmed>>
    BY <1>6 DEF ReadFindings, RefreshFindings, Cached
  <2> QED BY <2>1
<1>7. CASE RefreshEras
  BY <1>7 DEF RefreshEras, Cached
<1>8. CASE Phase3
  <2>1. UNCHANGED <<held, clock, unwarmed>>
    BY <1>8 DEF Phase3
  <2>2. Keyed' /\ metrics'["overview"] = metrics["overview"]
    BY <1>8, Phase3Keeps
  <2> QED BY <2>1, <2>2
<1>9. ASSUME NEW s \in DOMAIN Eras, NameEra(s) PROVE OverviewInv'
  BY <1>9 DEF NameEra, Cached
<1>10. CASE Clear
  BY <1>10 DEF Clear, Keys
<1>11. ASSUME NEW s \in DOMAIN episodes, Narrate(s) PROVE OverviewInv'
  BY <1>11, <1>1 DEF Narrate
<1>12. ASSUME NEW l \in Marks, DrawSample(l) PROVE OverviewInv'
  BY <1>12, <1>1 DEF DrawSample
<1>13. ASSUME NEW s \in DOMAIN episodes, NEW r \in Reads, ReadPatterns(s, r) PROVE OverviewInv'
  BY <1>13, <1>1 DEF ReadPatterns
<1>14. CASE RefreshEpisodes \/ Apply \/ ApplyKilled \/ Agree \/ ExportBrief
  BY <1>14, <1>1 DEF RefreshEpisodes, Apply, ApplyKilled, Agree, ExportBrief
<1> QED
  BY <1>2, <1>3, <1>4, <1>5, <1>6, <1>7, <1>8, <1>9, <1>10, <1>11, <1>12, <1>13, <1>14
     DEF BriefsNext, ChaptersNext

LEMMA OverviewInvHolds == Spec => []OverviewInv
<1>1. Init => OverviewInv
  BY ChaptersBegin
<1>2. OverviewInv /\ [Next]_lensesVars => OverviewInv'
  <2> SUFFICES ASSUME OverviewInv, [Next]_lensesVars PROVE OverviewInv'
    OBVIOUS
  <2>1. CASE BriefsNext
    BY <2>1, ChaptersKeep
  <2>2. CASE UNCHANGED chaptersVars
    BY <2>2 DEF chaptersVars, OverviewInv, Keyed, Clocked, OverviewIsCurrent
  <2> QED BY <2>1, <2>2 DEF Next, lensesVars
<1> QED BY <1>1, <1>2, PTL DEF Spec

\* Whatever is imported, scored, recomputed or deleted, and in whichever order:
\* the overview that is cached counts the messages that are there, unless an
\* import ended before it refreshed it (ingest/index.ts, metrics/index.ts).
THEOREM CountsAreOfWhatIsThere == Spec => []OverviewIsCurrent
<1>1. OverviewInv => OverviewIsCurrent
  BY DEF OverviewInv
<1> QED BY <1>1, OverviewInvHolds, PTL

-----------------------------------------------------------------------------
(* Notes and names *)

\* A fight is computed with no note, and takes that of its row.
LEMMA UpsertKeepsNotes ==
    ASSUME NEW s \in DOMAIN episodes \cap DOMAIN EpisodesNow(episodes)
    PROVE  EpisodesNow(episodes)[s].note = episodes[s].note
<1> DEFINE now == Fights(Msgs, tone, Cal)
<1>1. \A k \in DOMAIN now : "note" \in DOMAIN now[k]
  BY DEF Fights, EpisodeOf
<1> HIDE DEF now
<1>2. EpisodesNow(episodes) =
        [k \in DOMAIN now |-> IF k \in DOMAIN episodes THEN [now[k] EXCEPT !.note = episodes[k].note] ELSE now[k]]
  BY DEF EpisodesNow, Upserted, now
<1> QED BY <1>1, <1>2

\* An era is found again by its first instant, and takes the name it had.
LEMMA NamedKeepsNames ==
    ASSUME NEW found, NEW prior, prior # None, NEW s \in DOMAIN Named(found, prior), s \in DOMAIN prior
    PROVE  Named(found, prior)[s].name = prior[s].name
<1>1. PICK i \in DOMAIN found : found[i].start = s
  BY DEF Named
<1> DEFINE j == CHOOSE k \in DOMAIN found : found[k].start = s
<1>2. j \in DOMAIN found /\ found[j].start = s
  BY <1>1, SMTT(30)
<1> HIDE DEF j
<1>3. Named(found, prior)[s].name =
        IF prior # None /\ found[j].start \in DOMAIN prior THEN prior[found[j].start].name ELSE None
  BY DEF Named, j
<1> QED BY <1>2, <1>3

LEMMA NewErasKeepNames ==
    ASSUME Keyed, NEW table, metrics'["eras"] \in ErasNow(table, metrics["eras"])
    PROVE  NamesKept
<1>1. PICK found : metrics'["eras"] = Named(found, metrics["eras"])
  BY DEF ErasNow
<1> SUFFICES ASSUME NEW s \in DOMAIN Eras \cap DOMAIN Eras'
             PROVE  Eras'[s].name = Eras[s].name
  BY DEF NamesKept
<1>2. metrics["eras"] # None /\ Eras = metrics["eras"]
  BY DEF Eras
<1>3. Eras' = metrics'["eras"]
  BY DEF Eras
<1>4. PICK prior : prior = metrics["eras"]
  OBVIOUS
<1>5. s \in DOMAIN Named(found, prior) /\ s \in DOMAIN prior /\ prior # None
  BY <1>1, <1>2, <1>3, <1>4
<1>6. Named(found, prior)[s].name = prior[s].name
  BY <1>5, NamedKeepsNames
<1> QED BY <1>1, <1>2, <1>3, <1>4, <1>6

LEMMA NarrativesStep ==
    ASSUME Keyed, BriefsNext
    PROVE  NotesKept /\ NamesKept
<1>1. ASSUME episodes' = episodes PROVE NotesKept
  BY <1>1 DEF NotesKept
<1>2. ASSUME metrics'["eras"] = metrics["eras"] PROVE NamesKept
  BY <1>2 DEF NamesKept, Eras
<1>3. ASSUME episodes' = EpisodesNow(episodes) PROVE NotesKept
  BY <1>3, UpsertKeepsNotes DEF NotesKept
<1>4. ASSUME NEW b \in Arrivals, Import(b) PROVE NotesKept /\ NamesKept
  <2>1. metrics'["eras"] = metrics["eras"]
    BY <1>4 DEF Import, Keyed, Keys
  <2> QED BY <1>1, <1>2, <1>4, <2>1 DEF Import
<1>5. ASSUME NEW s \in Scorings, Rescore(s) PROVE NotesKept /\ NamesKept
  <2>1. metrics'["eras"] = metrics["eras"]
    BY <1>5 DEF Rescore, Keyed, Keys
  <2> QED BY <1>1, <1>2, <1>5, <2>1 DEF Rescore
<1>6. ASSUME NEW z \in Clocks, SetClock(z) PROVE NotesKept /\ NamesKept
  <2>1. metrics'["eras"] = metrics["eras"]
    BY <1>6 DEF SetClock, Keyed, Keys
  <2> QED BY <1>1, <1>2, <1>6, <2>1 DEF SetClock
<1>7. CASE ReadOverview \/ RefreshOverview
  <2>1. metrics' = [metrics EXCEPT !["overview"] = Overview(held, clock)] /\ episodes' = episodes
    BY <1>7 DEF ReadOverview, RefreshOverview, Cached
  <2>2. metrics'["eras"] = metrics["eras"]
    BY <2>1 DEF Keyed, Keys
  <2> QED BY <1>1, <1>2, <2>1, <2>2
<1>8. CASE ReadFindings \/ RefreshFindings
  <2>1. metrics' = [metrics EXCEPT !["findings"] = FindingsNow] /\ episodes' = episodes
    BY <1>8 DEF ReadFindings, RefreshFindings, Cached
  <2>2. metrics'["eras"] = metrics["eras"]
    BY <2>1 DEF Keyed, Keys
  <2> QED BY <1>1, <1>2, <2>1, <2>2
<1>9. CASE RefreshEpisodes
  BY <1>2, <1>3, <1>9 DEF RefreshEpisodes
<1>10. CASE RefreshEras
  <2>1. PICK eras \in ErasNow(episodes, metrics["eras"]) :
           metrics' = [metrics EXCEPT !["eras"] = eras] /\ episodes' = episodes
    BY <1>10 DEF RefreshEras, Cached
  <2>2. metrics'["eras"] \in ErasNow(episodes, metrics["eras"])
    BY <2>1 DEF Keyed, Keys
  <2> QED BY <1>1, <2>1, <2>2, NewErasKeepNames
<1>11. CASE Phase3
  <2>1. metrics'["eras"] \in ErasNow(episodes', metrics["eras"])
    BY <1>11, Phase3Keeps
  <2>2. NamesKept
    BY <2>1, NewErasKeepNames
  <2>3. episodes' = EpisodesNow(episodes)
    BY <1>11 DEF Phase3
  <2> QED BY <1>3, <2>2, <2>3
<1>12. ASSUME NEW s \in DOMAIN episodes, Narrate(s) PROVE NotesKept /\ NamesKept
  BY <1>2, <1>12 DEF Narrate, NotesKept
<1>13. ASSUME NEW s \in DOMAIN Eras, NameEra(s) PROVE NotesKept /\ NamesKept
  <2>1. /\ metrics' = [metrics EXCEPT !["eras"] = [Eras EXCEPT ![s].name = "name"]]
        /\ episodes' = episodes /\ Eras[s].name = None
    BY <1>13 DEF NameEra, Cached
  <2>2. metrics'["eras"] = [Eras EXCEPT ![s].name = "name"]
    BY <2>1 DEF Keyed, Keys
  <2>3. ASSUME NEW e \in DOMAIN Eras \cap DOMAIN Eras', Eras[e].name # None
        PROVE  Eras'[e].name = Eras[e].name
    <3>1. e # s
      BY <2>1, <2>3
    <3>2. Eras' = [Eras EXCEPT ![s].name = "name"]
      BY <2>2, <2>3 DEF Eras
    <3> QED BY <3>1, <3>2
  <2> QED BY <1>1, <2>1, <2>3 DEF NamesKept
<1>14. CASE Clear
  BY <1>14 DEF Clear, NotesKept, NamesKept, Eras, Keys
<1>15. ASSUME NEW l \in Marks, DrawSample(l) PROVE NotesKept /\ NamesKept
  BY <1>1, <1>2, <1>15 DEF DrawSample
<1>16. ASSUME NEW s \in DOMAIN episodes, NEW r \in Reads, ReadPatterns(s, r) PROVE NotesKept /\ NamesKept
  BY <1>1, <1>2, <1>16 DEF ReadPatterns
<1>17. CASE Apply \/ ApplyKilled \/ Agree \/ ExportBrief
  BY <1>1, <1>2, <1>17 DEF Apply, ApplyKilled, Agree, ExportBrief
<1> QED
  BY <1>4, <1>5, <1>6, <1>7, <1>8, <1>9, <1>10, <1>11, <1>12, <1>13, <1>14, <1>15, <1>16, <1>17
     DEF BriefsNext, ChaptersNext

\* Whatever is recomputed, and whatever was imported or scored in between: a
\* fight that begins where it did keeps the note that was written for it, and an
\* era its name (episodes.ts, eras.ts: the upserts).
THEOREM NothingWrittenIsLost == Spec => NarrativesSurvive
<1>1. OverviewInv /\ [Next]_lensesVars => [held # {} => NotesKept /\ NamesKept]_chaptersVars
  BY NarrativesStep DEF Next, lensesVars, OverviewInv
<1> QED BY <1>1, OverviewInvHolds, PTL DEF Spec, NarrativesSurvive

-----------------------------------------------------------------------------
(* Places in a sequence.  Of finitely many numbers there is one of every     *)
(* rank, so that what is taken at some places was at one of them.            *)

LEMMA TakenFromPlaces ==
    ASSUME NEW seq, NEW n \in Nat, NEW places \in SUBSET (1 .. n)
    PROVE  /\ Cardinality(places) \in Nat
           /\ DOMAIN AtPlaces(seq, places) = 1 .. Cardinality(places)
           /\ AtPlaces(seq, places) = [k \in 1 .. Cardinality(places) |-> AtPlaces(seq, places)[k]]
           /\ \A k \in 1 .. Cardinality(places) : \E i \in places : AtPlaces(seq, places)[k] = seq[i]
<1>1. IsFiniteSet(places)
  <2>1. IsFiniteSet(1 .. n)
    BY FS_Interval
  <2> QED BY <2>1, FS_Subset
<1>2. Cardinality(places) \in Nat
  BY <1>1, FS_CardinalityType
<1>3. ASSUME NEW k \in 1 .. Cardinality(places)
      PROVE  \E i \in places : AtPlaces(seq, places)[k] = seq[i]
  <2>1. places \in SUBSET Nat
    OBVIOUS
  <2>2. \E p \in places : Cardinality({q \in places : q < p}) = k - 1
    BY <1>1, <2>1, RankExists
  <2>3. InOrder(places)[k] = CHOOSE p \in places : Cardinality({q \in places : q < p}) = k - 1
    BY DEF InOrder
  <2>4. InOrder(places)[k] \in places
    BY <2>2, <2>3
  <2>5. AtPlaces(seq, places)[k] = seq[InOrder(places)[k]]
    BY DEF AtPlaces
  <2> QED BY <2>4, <2>5
<1>4. AtPlaces(seq, places) = [k \in 1 .. Cardinality(places) |-> AtPlaces(seq, places)[k]]
  BY DEF AtPlaces
<1> QED BY <1>2, <1>3, <1>4

-----------------------------------------------------------------------------
(* Blocks *)

LEMMA NarrowedBlock ==
    ASSUME NEW blocks \in Seq(Block), NEW valid, NEW i \in DOMAIN blocks
    PROVE  /\ Narrowed(blocks, valid)[i] \in Block
           /\ Narrowed(blocks, valid)[i].kind = blocks[i].kind
           /\ Narrowed(blocks, valid)[i].ids = blocks[i].ids \cap valid
<1>1. PICK b \in Block : b = blocks[i]
  OBVIOUS
<1>2. PICK x \in SUBSET Nat : x = b.ids \cap valid
  BY DEF Block
<1>3. /\ [b EXCEPT !.ids = x] \in Block
      /\ [b EXCEPT !.ids = x].ids = x
      /\ [b EXCEPT !.ids = x].kind = b.kind
  BY DEF Block
<1>4. Narrowed(blocks, valid)[i] = [blocks[i] EXCEPT !.ids = blocks[i].ids \cap valid]
  BY DEF Narrowed
<1> QED BY <1>1, <1>2, <1>3, <1>4

\* What resolution keeps cites only rows there are.
LEMMA KeptBlocksCite ==
    ASSUME NEW blocks \in Seq(Block), NEW valid
    PROVE  /\ KeptBlocks(blocks, valid) \in Seq(Block)
           /\ \A k \in DOMAIN KeptBlocks(blocks, valid) :
                 KeptBlocks(blocks, valid)[k].kind \in ModelKinds => KeptBlocks(blocks, valid)[k].ids \subseteq valid
<1> DEFINE cut == [i \in DOMAIN blocks |->
                      IF blocks[i].kind \in ModelKinds THEN Narrowed(blocks, valid)[i] ELSE blocks[i]]
           places == {i \in DOMAIN blocks : blocks[i].kind \in ModelKinds => blocks[i].ids \cap valid # {}}
           kept == AtPlaces(cut, places)
<1>1. PICK n \in Nat : DOMAIN blocks = 1 .. n
  OBVIOUS
<1>2. ASSUME NEW i \in DOMAIN blocks
      PROVE  cut[i] \in Block /\ (cut[i].kind \in ModelKinds => cut[i].ids \subseteq valid)
  <2>1. blocks[i] \in Block
    OBVIOUS
  <2>2. /\ Narrowed(blocks, valid)[i] \in Block
        /\ Narrowed(blocks, valid)[i].kind = blocks[i].kind
        /\ Narrowed(blocks, valid)[i].ids = blocks[i].ids \cap valid
    BY NarrowedBlock
  <2> QED BY <2>1, <2>2
<1>3. places \in SUBSET (1 .. n)
  BY <1>1
<1>4. kept = KeptBlocks(blocks, valid)
  BY DEF KeptBlocks
<1> HIDE DEF cut, places
<1>5. /\ Cardinality(places) \in Nat
      /\ DOMAIN kept = 1 .. Cardinality(places)
      /\ kept = [k \in 1 .. Cardinality(places) |-> kept[k]]
      /\ \A k \in 1 .. Cardinality(places) : \E i \in places : kept[k] = cut[i]
  BY <1>3, TakenFromPlaces
<1>6. places \subseteq DOMAIN blocks
  BY DEF places
<1> HIDE DEF kept
<1>7. \A k \in 1 .. Cardinality(places) :
         kept[k] \in Block /\ (kept[k].kind \in ModelKinds => kept[k].ids \subseteq valid)
  BY <1>2, <1>5, <1>6
<1>8. kept \in Seq(Block)
  BY <1>5, <1>7
<1> QED BY <1>4, <1>5, <1>7, <1>8

\* A survivor is a claim of the engine's, with receipts of its own that hold.
LEMMA SurvivorsCite ==
    ASSUME NEW blocks \in Seq(Block), NEW valid
    PROVE  /\ \E n \in Nat : DOMAIN Survivors(blocks, valid) = 1 .. n
           /\ \A k \in DOMAIN Survivors(blocks, valid) : \E i \in DOMAIN blocks :
                 /\ blocks[i].kind \in ModelKinds
                 /\ Survivors(blocks, valid)[k].ids = blocks[i].ids \cap valid
                 /\ Survivors(blocks, valid)[k].ids # {}
<1> DEFINE cut == Narrowed(blocks, valid)
           places == {i \in DOMAIN blocks : blocks[i].kind \in ModelKinds /\ blocks[i].ids \cap valid # {}}
           kept == AtPlaces(cut, places)
<1>1. PICK n \in Nat : DOMAIN blocks = 1 .. n
  OBVIOUS
<1>2. ASSUME NEW i \in DOMAIN blocks PROVE cut[i].ids = blocks[i].ids \cap valid
  BY NarrowedBlock
<1>3. places \in SUBSET (1 .. n)
  BY <1>1
<1>4. kept = Survivors(blocks, valid)
  BY DEF Survivors
<1> HIDE DEF cut, places
<1>5. /\ Cardinality(places) \in Nat
      /\ DOMAIN kept = 1 .. Cardinality(places)
      /\ \A k \in 1 .. Cardinality(places) : \E i \in places : kept[k] = cut[i]
  BY <1>3, TakenFromPlaces
<1>6. \A i \in places : i \in DOMAIN blocks /\ blocks[i].kind \in ModelKinds /\ blocks[i].ids \cap valid # {}
  BY DEF places
<1> HIDE DEF kept
<1> QED BY <1>2, <1>4, <1>5, <1>6

\* The evidence under a text is that of one claim, cut to the rows it may cite.
LEMMA EvidenceIsOfClaims ==
    ASSUME NEW blocks \in Seq(Block), NEW valid, NEW form,
           NEW t \in DOMAIN Compose(blocks, valid, form).evidence
    PROVE  /\ Compose(blocks, valid, form).evidence[t] # {}
           /\ \E i \in DOMAIN blocks : /\ blocks[i].kind \in ModelKinds
                                       /\ Compose(blocks, valid, form).evidence[t] = blocks[i].ids \cap valid
<1> DEFINE kept == Survivors(blocks, valid)
           with == {i \in DOMAIN kept : kept[i].text = t}
           last == CHOOSE i \in DOMAIN kept :
                      kept[i].text = t /\ \A j \in DOMAIN kept : kept[j].text = t => j <= i
<1>1. kept # <<>>
  BY DEF Compose
<1>2. Compose(blocks, valid, form).evidence[t] = kept[last].ids /\ t \in {kept[i].text : i \in DOMAIN kept}
  BY <1>1 DEF Compose
<1>3. PICK n \in Nat : DOMAIN kept = 1 .. n
  BY SurvivorsCite
<1>4. with # {} /\ with \in SUBSET (1 .. n)
  BY <1>2, <1>3
<1>5. \E i \in with : \A j \in with : j <= i
  BY <1>4, GreatestUpTo
<1>6. last \in DOMAIN kept
  BY <1>5
<1> HIDE DEF last, with, kept
<1> QED BY <1>2, <1>6, SurvivorsCite DEF kept

-----------------------------------------------------------------------------
(* The way to a frozen reading.  What an engine is shown carries the words   *)
(* of rows, and its answer the same: while the job is known to the database, *)
(* these are the words the rows hold.  A request may wait with what it knew   *)
(* before everything was deleted; it finds a result only under a job that    *)
(* was shown what the rows hold now.                                        *)

\* The rows still hold what was shown of them.
Told(about) == \A m \in DOMAIN about : m \in Here /\ rows[m] = about[m]

JobsFit(air) ==
    \A h \in DOMAIN air.jobs :
        /\ air.jobs[h] = [chunk |-> air.jobs[h].chunk, status |-> air.jobs[h].status]
        /\ h.lens = "reduce" => Told(h.shown.stats)
        /\ h.lens = "render" => /\ Told(h.shown.about)
                                /\ air.jobs[h].chunk.members \subseteq DOMAIN h.shown.about

FilesFit(air) == \A h \in DOMAIN air.files : air.files[h] = h.shown

\* An answer is about what the engine was shown.
Fits(h, p) ==
    /\ h.lens = "reduce" => p = [strengths |-> p.strengths, observation |-> p.observation, about |-> h.shown.stats]
    /\ h.lens = "render" => p = [blocks |-> p.blocks, about |-> h.shown.about] /\ p.blocks \in Seq(Block)

ResultsFit(air) ==
    \A h \in DOMAIN air.results : air.results[h].payload = Blank \/ Fits(h, air.results[h].payload)

\* What is stored of prose cites only rows of its job.
Cites(blocks, members) ==
    \A i \in DOMAIN blocks : blocks[i].kind \in ModelKinds => blocks[i].ids \subseteq members

CacheFit(air) ==
    \A h \in DOMAIN air.cache :
        /\ h \in DOMAIN air.jobs
        /\ air.cache[h] # Blank =>
              /\ h.lens = "reduce" => air.cache[h].about = h.shown.stats
              /\ h.lens = "render" => /\ air.cache[h].about = h.shown.about
                                      /\ air.cache[h].blocks \in Seq(Block)
                                      /\ Cites(air.cache[h].blocks, air.jobs[h].chunk.members)

AirFits(air) ==
    /\ air = [jobs |-> air.jobs, cache |-> air.cache, files |-> air.files, results |-> air.results]
    /\ JobsFit(air) /\ FilesFit(air) /\ ResultsFit(air) /\ CacheFit(air)

\* A request that waits for its findings is about rows that they were shown.
RequestFits(where, req) ==
    /\ where \in {"idle", "reduce", "render"}
    /\ req = [range |-> req.range, hash |-> req.hash, about |-> req.about]
    /\ where = "reduce" => req.hash.lens = "reduce" /\ DOMAIN req.about \subseteq DOMAIN req.hash.shown.stats
    /\ where = "render" => req.hash.lens = "render"

RequestsFit ==
    /\ stage = [r \in Readers |-> stage[r]] /\ request = [r \in Readers |-> request[r]]
    /\ todo = [r \in Readers |-> todo[r]]
    /\ \A r \in Readers : RequestFits(stage[r], request[r])
    /\ \A r \in Readers : \A h \in DOMAIN todo[r] : todo[r][h] = h.shown

\* ReceiptsResolve of one reading, and that its rows are there: an import does
\* not change them.
Resolves(reading) ==
    \A t \in DOMAIN reading.evidence :
        /\ reading.evidence[t] # {}
        /\ \A m \in reading.evidence[t] :
              /\ At[m] \in reading.range
              /\ m \in DOMAIN reading.about /\ m \in Here /\ rows[m] = reading.about[m]

ReadingsFit ==
    /\ \E S : readings \in Seq(S)
    /\ \A i \in DOMAIN readings : Resolves(readings[i])

ReadingInv == AirFits(Air) /\ RequestsFit /\ ReadingsFit /\ rows = [r \in Rows |-> rows[r]]

LEMMA ReadingBegins ==
    ASSUME ReadingInit PROVE ReadingInv
<1> USE DEF ReadingInit
<1>1. AirFits(Air)
  BY DEF AirFits, Air, JobsFit, FilesFit, ResultsFit, CacheFit
<1>2. RequestsFit
  <2>1. \A r \in Readers : stage[r] = "idle" /\ request[r] = NoRequest /\ todo[r] = <<>>
    OBVIOUS
  <2>2. \A r \in Readers : RequestFits(stage[r], request[r])
    BY <2>1 DEF RequestFits, NoRequest
  <2>3. \A r \in Readers : \A h \in DOMAIN todo[r] : todo[r][h] = h.shown
    BY <2>1
  <2>4. /\ stage = [r \in Readers |-> stage[r]] /\ request = [r \in Readers |-> request[r]]
        /\ todo = [r \in Readers |-> todo[r]]
    OBVIOUS
  <2> QED BY <2>2, <2>3, <2>4 DEF RequestsFit
<1>3. ReadingsFit
  <2>1. readings \in Seq({})
    OBVIOUS
  <2> QED BY <2>1 DEF ReadingsFit
<1>4. rows = [r \in Rows |-> rows[r]]
  OBVIOUS
<1> QED BY <1>1, <1>2, <1>3, <1>4 DEF ReadingInv

-----------------------------------------------------------------------------
(* What the handlers do to the four tables *)

\* A result that is judged is stored under its job, cut to what the job showed;
\* a refusal is stored as such, and a row keeps its chunk.
LEMMA StoredFits ==
    ASSUME NEW h, NEW p, Fits(h, p), NEW valid
    PROVE  /\ h.lens = "reduce" => Resolve(h.lens, p, valid).about = h.shown.stats
           /\ h.lens = "render" => /\ Resolve(h.lens, p, valid).about = h.shown.about
                                   /\ Resolve(h.lens, p, valid).blocks \in Seq(Block)
                                   /\ Cites(Resolve(h.lens, p, valid).blocks, valid)
<1>1. CASE h.lens = "reduce"
  <2>1. p = [strengths |-> p.strengths, observation |-> p.observation, about |-> h.shown.stats]
    BY <1>1 DEF Fits
  <2>2. PICK x, y : x = KeptSets(p.strengths, valid) /\ y = p.observation \cap valid
    OBVIOUS
  <2>3. Resolve(h.lens, p, valid) = [p EXCEPT !.strengths = x, !.observation = y]
    BY <1>1, <2>2 DEF Resolve
  <2>4. [p EXCEPT !.strengths = x, !.observation = y].about = h.shown.stats
    BY <2>1
  <2> QED BY <1>1, <2>3, <2>4
<1>2. CASE h.lens = "render"
  <2>1. p = [blocks |-> p.blocks, about |-> h.shown.about] /\ p.blocks \in Seq(Block)
    BY <1>2 DEF Fits
  <2>2. PICK x : x = KeptBlocks(p.blocks, valid)
    OBVIOUS
  <2>3. Resolve(h.lens, p, valid) = [p EXCEPT !.blocks = x]
    BY <1>2, <2>2 DEF Resolve
  <2>4. [p EXCEPT !.blocks = x].about = h.shown.about /\ [p EXCEPT !.blocks = x].blocks = x
    BY <2>1
  <2>5. x \in Seq(Block) /\ Cites(x, valid)
    BY <2>1, <2>2, KeptBlocksCite DEF Cites
  <2> QED BY <1>2, <2>3, <2>4, <2>5
<1> QED BY <1>1, <1>2

LEMMA IngestedFits ==
    ASSUME NEW air, AirFits(air)
    PROVE  AirFits(Ingested(air))
<1> DEFINE known == DOMAIN air.results \cap DOMAIN air.jobs
           verdict == [h \in known |-> Verdict(air, h)]
           kept == {k \in known : verdict[k] # "error"}
           Stored(h) == IF verdict[h] = "refused" THEN Blank
                        ELSE Resolve(h.lens, air.results[h].payload, Resolvable(air, h))
           out == Ingested(air)
<1>1. /\ out.jobs = Merged([h \in known |-> [air.jobs[h] EXCEPT !.status = verdict[h]]], air.jobs)
      /\ out.cache = Merged([h \in kept |-> Stored(h)], air.cache)
      /\ out.files = Restrict(air.files, DOMAIN air.files \ known)
      /\ out.results = <<>>
      /\ out = [jobs |-> out.jobs, cache |-> out.cache, files |-> out.files, results |-> out.results]
  BY DEF Ingested
<1>2. /\ DOMAIN out.jobs = DOMAIN air.jobs
      /\ \A h \in DOMAIN air.jobs : /\ out.jobs[h] = [chunk |-> out.jobs[h].chunk, status |-> out.jobs[h].status]
                                    /\ out.jobs[h].chunk = air.jobs[h].chunk
  <2>1. DOMAIN out.jobs = DOMAIN air.jobs
    BY <1>1 DEF Merged
  <2>2. ASSUME NEW h \in DOMAIN air.jobs
        PROVE  /\ out.jobs[h] = [chunk |-> out.jobs[h].chunk, status |-> out.jobs[h].status]
               /\ out.jobs[h].chunk = air.jobs[h].chunk
    <3>1. PICK job, s : job = air.jobs[h] /\ s = verdict[h]
      OBVIOUS
    <3>2. job = [chunk |-> job.chunk, status |-> job.status]
      BY <3>1 DEF AirFits, JobsFit
    <3>3. /\ [job EXCEPT !.status = s] = [chunk |-> job.chunk, status |-> s]
      BY <3>2
    <3>4. out.jobs[h] = IF h \in known THEN [air.jobs[h] EXCEPT !.status = verdict[h]] ELSE air.jobs[h]
      BY <1>1, SMTT(30) DEF Merged
    <3> QED BY <3>1, <3>2, <3>3, <3>4
  <2> QED BY <2>1, <2>2
<1>3. /\ DOMAIN out.cache = kept \cup DOMAIN air.cache
      /\ \A h \in kept : out.cache[h] = Stored(h)
      /\ \A h \in DOMAIN air.cache \ kept : out.cache[h] = air.cache[h]
  BY <1>1 DEF Merged
<1>4. ASSUME NEW h \in kept
      PROVE  \/ Stored(h) = Blank
             \/ Fits(h, air.results[h].payload) /\ verdict[h] # "refused"
  <2>1. verdict[h] \in {"refused", "done"}
    BY DEF Verdict
  <2>2. CASE verdict[h] = "done"
    <3>1. air.results[h].payload # Blank
      BY <2>2 DEF Verdict, Good, LensValid
    <3> QED BY <2>2, <3>1 DEF AirFits, ResultsFit
  <2> QED BY <2>1, <2>2
<1>5. \A h \in kept : h \in known
  OBVIOUS
<1>6. \A h \in known : h \in DOMAIN air.jobs
  OBVIOUS
<1> HIDE DEF out, kept
<1>7. CacheFit(out)
  <2> SUFFICES ASSUME NEW h \in DOMAIN out.cache
               PROVE  /\ h \in DOMAIN out.jobs
                      /\ out.cache[h] # Blank =>
                           /\ h.lens = "reduce" => out.cache[h].about = h.shown.stats
                           /\ h.lens = "render" => /\ out.cache[h].about = h.shown.about
                                                   /\ out.cache[h].blocks \in Seq(Block)
                                                   /\ Cites(out.cache[h].blocks, out.jobs[h].chunk.members)
    BY DEF CacheFit
  <2>1. CASE h \in kept
    <3>1. out.cache[h] = Stored(h) /\ h \in DOMAIN air.jobs
      BY <1>3, <1>5, <1>6, <2>1
    <3>2. CASE Stored(h) = Blank
      BY <3>1, <3>2, <1>2, SMTT(30)
    <3>3. CASE Fits(h, air.results[h].payload) /\ verdict[h] # "refused"
      <4> DEFINE p == air.results[h].payload
                 valid == Resolvable(air, h)
      <4>1. out.cache[h] = Resolve(h.lens, p, valid)
        BY <3>1, <3>3
      <4>2. valid \subseteq air.jobs[h].chunk.members
        BY DEF Resolvable
      <4> HIDE DEF p, valid
      <4>3. /\ h.lens = "reduce" => Resolve(h.lens, p, valid).about = h.shown.stats
            /\ h.lens = "render" => /\ Resolve(h.lens, p, valid).about = h.shown.about
                                    /\ Resolve(h.lens, p, valid).blocks \in Seq(Block)
                                    /\ Cites(Resolve(h.lens, p, valid).blocks, valid)
        BY <3>3, StoredFits DEF p
      <4>4. out.jobs[h].chunk.members = air.jobs[h].chunk.members
        BY <1>2, <3>1
      <4> QED BY <1>2, <3>1, <4>1, <4>2, <4>3, <4>4 DEF Cites
    <3> QED BY <1>4, <2>1, <3>2, <3>3
  <2>2. CASE h \notin kept
    BY <1>2, <1>3, <2>2 DEF AirFits, CacheFit
  <2> QED BY <2>1, <2>2
<1>8. JobsFit(out)
  BY <1>2 DEF AirFits, JobsFit
<1>9. FilesFit(out)
  BY <1>1 DEF AirFits, FilesFit, Restrict
<1>10. ResultsFit(out)
  BY <1>1 DEF ResultsFit
<1> QED BY <1>1, <1>7, <1>8, <1>9, <1>10 DEF AirFits, out

-----------------------------------------------------------------------------
(* What a request leaves *)

OutcomeFits(o) ==
    /\ AirFits(o.air)
    /\ RequestFits(o.stage, o.request)
    /\ o.frozen = <<>> \/ \E reading : o.frozen = <<reading>> /\ Resolves(reading)

LEMMA DeclinedFits ==
    ASSUME NEW air, AirFits(air) PROVE OutcomeFits(Declined(air))
BY DEF Declined, OutcomeFits, RequestFits, NoRequest

\* A job that is written is about rows that hold what it shows.
LEMMA InsertedFits ==
    ASSUME NEW air, AirFits(air), NEW h, NEW chunk,
           h.lens = "reduce" => Told(h.shown.stats),
           h.lens = "render" => Told(h.shown.about) /\ chunk.members \subseteq DOMAIN h.shown.about
    PROVE  AirFits(Inserted(air, h, chunk, h.shown))
<1> DEFINE out == Inserted(air, h, chunk, h.shown)
           row == [chunk |-> chunk, status |-> "pending"]
<1>1. /\ out.jobs = Merged(air.jobs, [k \in {h} |-> row])
      /\ out.cache = air.cache
      /\ out.files = Merged(air.files, [k \in {h} |-> h.shown])
      /\ out.results = air.results
      /\ out = [jobs |-> out.jobs, cache |-> out.cache, files |-> out.files, results |-> out.results]
  BY DEF Inserted
<1> HIDE DEF out
<1>2. /\ DOMAIN out.jobs = DOMAIN air.jobs \cup {h}
      /\ \A k \in DOMAIN air.jobs : out.jobs[k] = air.jobs[k]
      /\ h \notin DOMAIN air.jobs => out.jobs[h] = row
  BY <1>1 DEF Merged
<1>3. JobsFit(out)
  <2> SUFFICES ASSUME NEW k \in DOMAIN out.jobs
               PROVE  /\ out.jobs[k] = [chunk |-> out.jobs[k].chunk, status |-> out.jobs[k].status]
                      /\ k.lens = "reduce" => Told(k.shown.stats)
                      /\ k.lens = "render" => /\ Told(k.shown.about)
                                              /\ out.jobs[k].chunk.members \subseteq DOMAIN k.shown.about
    BY DEF JobsFit
  <2>1. CASE k \in DOMAIN air.jobs
    BY <1>2, <2>1 DEF AirFits, JobsFit
  <2>2. CASE k = h /\ h \notin DOMAIN air.jobs
    BY <1>2, <2>2
  <2> QED BY <1>2, <2>1, <2>2
<1>4. FilesFit(out)
  BY <1>1 DEF AirFits, FilesFit, Merged
<1>5. ResultsFit(out)
  BY <1>1 DEF AirFits, ResultsFit
<1>6. CacheFit(out)
  BY <1>1, <1>2 DEF AirFits, CacheFit
<1> QED BY <1>1, <1>3, <1>4, <1>5, <1>6 DEF AirFits, out

\* What is frozen cites rows of its range, and they hold what was read.
LEMMA AfterRenderFits ==
    ASSUME NEW air, AirFits(air), NEW req, NEW h, h.lens = "render"
    PROVE  OutcomeFits(AfterRender(air, req, h))
<1>1. CASE ~Validated(air, h)
  BY <1>1, DeclinedFits DEF AfterRender
<1>2. CASE Validated(air, h)
  <2> DEFINE prose == air.cache[h]
             composed == Compose(prose.blocks, Within(req.range), LongForm)
             reading == [range |-> req.range, about |-> prose.about,
                         body |-> composed.body, evidence |-> composed.evidence]
  <2>1. h \in DOMAIN air.cache /\ prose # Blank
    BY <1>2 DEF Validated, LensValid
  <2>2. /\ prose.about = h.shown.about /\ prose.blocks \in Seq(Block)
        /\ Cites(prose.blocks, air.jobs[h].chunk.members) /\ h \in DOMAIN air.jobs
    BY <2>1 DEF AirFits, CacheFit
  <2>3. Told(h.shown.about) /\ air.jobs[h].chunk.members \subseteq DOMAIN h.shown.about
    BY <2>2 DEF AirFits, JobsFit
  <2> HIDE DEF prose
  <2>4. ASSUME NEW t \in DOMAIN reading.evidence
        PROVE  /\ reading.evidence[t] # {}
               /\ \A m \in reading.evidence[t] :
                     /\ At[m] \in reading.range
                     /\ m \in DOMAIN reading.about /\ m \in Here /\ rows[m] = reading.about[m]
    <3>1. reading.evidence = composed.evidence /\ reading.about = h.shown.about /\ reading.range = req.range
      BY <2>2
    <3> HIDE DEF reading
    <3>2. /\ composed.evidence[t] # {}
          /\ \E i \in DOMAIN prose.blocks : /\ prose.blocks[i].kind \in ModelKinds
                                            /\ composed.evidence[t] = prose.blocks[i].ids \cap Within(req.range)
      BY <2>2, <2>4, <3>1, EvidenceIsOfClaims
    <3>3. \A m \in composed.evidence[t] : m \in air.jobs[h].chunk.members /\ m \in Within(req.range)
      BY <2>2, <3>2 DEF Cites
    <3>4. \A m \in composed.evidence[t] : At[m] \in req.range
      BY <3>3 DEF Within
    <3>5. \A m \in composed.evidence[t] :
             m \in DOMAIN h.shown.about /\ m \in Here /\ rows[m] = h.shown.about[m]
      BY <2>3, <3>3 DEF Told
    <3> QED BY <3>1, <3>2, <3>4, <3>5
  <2>5. Resolves(reading)
    BY <2>4 DEF Resolves
  <2>6. AfterRender(air, req, h) = [Declined(air) EXCEPT !.frozen = <<reading>>]
    BY <1>2 DEF AfterRender, Frozen, prose
  <2> HIDE DEF reading
  <2>7. AfterRender(air, req, h) = [air |-> air, stage |-> "idle", request |-> NoRequest, frozen |-> <<reading>>]
    BY <2>6 DEF Declined
  <2> QED BY <2>5, <2>7 DEF OutcomeFits, RequestFits, NoRequest
<1> QED BY <1>1, <1>2

LEMMA AfterReduceFits ==
    ASSUME NEW air, AirFits(air), NEW req, NEW h, h.lens = "reduce",
           req = [range |-> req.range, hash |-> req.hash, about |-> req.about],
           DOMAIN req.about \subseteq DOMAIN h.shown.stats
    PROVE  OutcomeFits(AfterReduce(air, req, h))
<1> DEFINE findings == air.cache[h]
           next == Hash("render", findings)
<1>1. CASE ~Validated(air, h)
  BY <1>1, DeclinedFits DEF AfterReduce
<1>2. CASE Validated(air, h) /\ next \in DOMAIN air.cache
  <2>1. AfterReduce(air, req, h) = AfterRender(air, req, next) /\ next.lens = "render"
    BY <1>2 DEF AfterReduce, Hash
  <2> HIDE DEF next
  <2> QED BY <2>1, AfterRenderFits
<1>3. CASE Validated(air, h) /\ next \notin DOMAIN air.cache
  <2>1. h \in DOMAIN air.cache /\ findings # Blank
    BY <1>3 DEF Validated, LensValid
  <2>2. findings.about = h.shown.stats /\ h \in DOMAIN air.jobs
    BY <2>1 DEF AirFits, CacheFit
  <2>3. Told(findings.about) /\ MembersOf(req).members \subseteq DOMAIN findings.about
    BY <2>2 DEF AirFits, JobsFit, MembersOf
  <2>4. next.lens = "render" /\ next.shown = findings
    BY DEF Hash
  <2>5. AfterReduce(air, req, h) =
          Awaiting(Inserted(air, next, MembersOf(req), findings), "render", req, next)
    BY <1>3 DEF AfterReduce
  <2> HIDE DEF next, findings
  <2>6. AirFits(Inserted(air, next, MembersOf(req), next.shown))
    BY <2>3, <2>4, InsertedFits
  <2>7. [req EXCEPT !.hash = next] = [range |-> req.range, hash |-> next, about |-> req.about]
    OBVIOUS
  <2>8. RequestFits("render", [req EXCEPT !.hash = next])
    BY <2>4, <2>7 DEF RequestFits
  <2> QED BY <2>4, <2>5, <2>6, <2>8 DEF OutcomeFits, Awaiting
<1> QED BY <1>1, <1>2, <1>3

LEMMA AfterGatesFits ==
    ASSUME NEW air, AirFits(air), NEW req,
           req = [range |-> req.range, hash |-> req.hash, about |-> req.about],
           req.about = Shown(Within(req.range))
    PROVE  OutcomeFits(AfterGates(air, req))
<1> DEFINE h == Hash("reduce", Material(req.range))
<1>1. h.lens = "reduce" /\ h.shown = Material(req.range) /\ h.shown.stats = Shown(Here)
  BY DEF Hash, Material
<1>2. DOMAIN req.about \subseteq DOMAIN h.shown.stats
  BY <1>1 DEF Shown, Within
<1>3. Told(h.shown.stats)
  BY <1>1 DEF Told, Shown, Here
<1>4. AfterGates(air, req) = IF h \in DOMAIN air.cache THEN AfterReduce(air, req, h)
                             ELSE Awaiting(Inserted(air, h, MembersOf(req), h.shown), "reduce", req, h)
  BY <1>1 DEF AfterGates
<1> HIDE DEF h
<1>5. CASE h \in DOMAIN air.cache
  BY <1>1, <1>2, <1>4, <1>5, AfterReduceFits
<1>6. CASE h \notin DOMAIN air.cache
  <2>1. AirFits(Inserted(air, h, MembersOf(req), h.shown))
    BY <1>1, <1>3, InsertedFits
  <2>2. [req EXCEPT !.hash = h] = [range |-> req.range, hash |-> h, about |-> req.about]
    OBVIOUS
  <2>3. RequestFits("reduce", [req EXCEPT !.hash = h])
    BY <1>1, <1>2, <2>2 DEF RequestFits
  <2> QED BY <1>4, <1>6, <2>1, <2>3 DEF OutcomeFits, Awaiting
<1> QED BY <1>5, <1>6

-----------------------------------------------------------------------------
(* The steps *)

\* What fits goes on fitting while the rows stay.
LEMMA RowsStay ==
    ASSUME rows' = rows, NEW air, AirFits(air) PROVE AirFits(air)'
BY DEF AirFits, JobsFit, FilesFit, ResultsFit, CacheFit, Told, Here

LEMMA ReadingsStay ==
    ASSUME rows' = rows, readings' = readings, ReadingsFit PROVE ReadingsFit'
<1>1. PICK S : readings' \in Seq(S)
  BY DEF ReadingsFit
<1>2. \A i \in DOMAIN readings' : Resolves(readings'[i])
  BY DEF ReadingsFit
<1>3. (\A i \in DOMAIN readings : Resolves(readings[i]))'
  BY <1>2 DEF Resolves, Here
<1> QED BY <1>1, <1>3 DEF ReadingsFit

\* One request leaves the tables and itself as its outcome says.
LEMMA LeavesKeeps ==
    ASSUME ReadingInv, NEW r \in Readers, NEW o, OutcomeFits(o), Leaves(r, o)
    PROVE  ReadingInv'
<1>1. rows' = rows
  BY DEF Leaves
<1>2. AirFits(Air)'
  <2>1. o.air = [jobs |-> o.air.jobs, cache |-> o.air.cache, files |-> o.air.files, results |-> o.air.results]
    BY DEF OutcomeFits, AirFits
  <2>2. Air' = o.air
    BY <2>1 DEF Leaves, Becomes, Air
  <2>3. PICK air : air = o.air
    OBVIOUS
  <2>4. AirFits(air)'
    BY <1>1, <2>3, RowsStay DEF OutcomeFits
  <2> QED BY <2>2, <2>3, <2>4 DEF AirFits, JobsFit, FilesFit, ResultsFit, CacheFit
<1>3. RequestsFit'
  <2>1. PICK s, req : s = o.stage /\ req = o.request
    OBVIOUS
  <2>2. stage' = [stage EXCEPT ![r] = s] /\ request' = [request EXCEPT ![r] = req] /\ RequestFits(s, req)
    BY <2>1 DEF Leaves, OutcomeFits
  <2>3. \A q \in Readers : RequestFits(stage'[q], request'[q])
    BY <2>2 DEF ReadingInv, RequestsFit
  <2>4. PICK T : /\ todo' = [todo EXCEPT ![r] = T]
                 /\ \A h \in DOMAIN T : T[h] = h.shown
    <3>1. CASE o.stage = "idle"
      <4>1. todo' = [todo EXCEPT ![r] = <<>>]
        BY <3>1 DEF Leaves
      <4>2. PICK T : T = <<>> /\ DOMAIN T = {}
        OBVIOUS
      <4> QED BY <4>1, <4>2
    <3>2. CASE o.stage # "idle"
      <4>1. PICK hashes \in Batches(o.air) : todo' = [todo EXCEPT ![r] = Restrict(o.air.files, hashes)]
        BY <3>2 DEF Leaves
      <4>2. hashes \subseteq DOMAIN o.air.files
        BY <4>1 DEF Batches
      <4>3. \A h \in hashes : Restrict(o.air.files, hashes)[h] = h.shown
        BY <4>2 DEF OutcomeFits, AirFits, FilesFit, Restrict
      <4>4. DOMAIN Restrict(o.air.files, hashes) = hashes
        BY DEF Restrict
      <4> QED BY <4>1, <4>3, <4>4
    <3> QED BY <3>1, <3>2
  <2>5. \A q \in Readers : \A h \in DOMAIN todo'[q] : todo'[q][h] = h.shown
    BY <2>4 DEF ReadingInv, RequestsFit
  <2>6. /\ stage' = [q \in Readers |-> stage'[q]] /\ request' = [q \in Readers |-> request'[q]]
        /\ todo' = [q \in Readers |-> todo'[q]]
    BY <2>2, <2>4 DEF ReadingInv, RequestsFit
  <2>7. (\A q \in Readers : RequestFits(stage[q], request[q]))'
    BY <2>3 DEF RequestFits
  <2> QED BY <2>5, <2>6, <2>7 DEF RequestsFit
<1>4. ReadingsFit'
  <2>1. PICK S : readings \in Seq(S)
    BY DEF ReadingInv, ReadingsFit
  <2>2. readings' = readings \o o.frozen
    BY DEF Leaves
  <2>3. CASE o.frozen = <<>>
    <3>1. readings' = readings
      BY <2>1, <2>2, <2>3
    <3> QED BY <1>1, <3>1, ReadingsStay DEF ReadingInv
  <2>4. CASE \E reading : o.frozen = <<reading>> /\ Resolves(reading)
    <3>1. PICK reading : o.frozen = <<reading>> /\ Resolves(reading)
      BY <2>4
    <3>2. readings \in Seq(S \cup {reading}) /\ readings' = Append(readings, reading)
      BY <2>1, <2>2, <3>1
    <3>3. readings' \in Seq(S \cup {reading})
      BY <3>2
    <3>4. \A i \in DOMAIN readings' : Resolves(readings'[i])
      BY <3>1, <3>2 DEF ReadingInv, ReadingsFit
    <3> QED BY <1>1, <3>3, <3>4 DEF ReadingsFit, Resolves, Here
  <2> QED BY <2>3, <2>4 DEF OutcomeFits
<1> QED BY <1>1, <1>2, <1>3, <1>4 DEF ReadingInv

LEMMA AskKeeps ==
    ASSUME ReadingInv, NEW r \in Readers, NEW range \in Ranges, Ask(r, range)
    PROVE  ReadingInv'
<1>1. PICK req : req = [range |-> range, hash |-> Nothing, about |-> Shown(Within(range))]
  OBVIOUS
<1>2. PICK o : o = AfterGates(Air, req)
  OBVIOUS
<1>3. OutcomeFits(o)
  <2>1. PICK air : air = Air
    OBVIOUS
  <2> QED BY <1>1, <1>2, <2>1, AfterGatesFits DEF ReadingInv
<1>4. Leaves(r, o)
  BY <1>1, <1>2 DEF Ask
<1> QED BY <1>3, <1>4, LeavesKeeps

LEMMA ResumeKeeps ==
    ASSUME ReadingInv, NEW r \in Readers, Resume(r)
    PROVE  ReadingInv'
<1>1. PICK air, req : air = Ingested(Air) /\ req = request[r]
  OBVIOUS
<1>2. AirFits(air)
  <2>1. PICK old : old = Air
    OBVIOUS
  <2> QED BY <1>1, <2>1, IngestedFits DEF ReadingInv
<1>3. RequestFits(stage[r], req) /\ stage[r] # "idle"
  BY <1>1 DEF ReadingInv, RequestsFit, Resume
<1>4. PICK o : o = IF stage[r] = "reduce" THEN AfterReduce(air, req, req.hash) ELSE AfterRender(air, req, req.hash)
  OBVIOUS
<1>5. OutcomeFits(o)
  <2>1. CASE stage[r] = "reduce"
    BY <1>2, <1>3, <1>4, <2>1, AfterReduceFits DEF RequestFits
  <2>2. CASE stage[r] # "reduce"
    <3>1. req.hash.lens = "render"
      BY <1>3, <2>2 DEF RequestFits
    <3> QED BY <1>2, <1>4, <2>2, <3>1, AfterRenderFits
  <2> QED BY <2>1, <2>2
<1>6. Leaves(r, o)
  BY <1>1, <1>4 DEF Resume
<1> QED BY <1>5, <1>6, LeavesKeeps

\* An engine, of this request or of any other drain, answers what it was shown.
LEMMA WriteKeeps ==
    ASSUME ReadingInv, NEW h, Write(h, h.shown), UNCHANGED <<rows, jobs, cache, files>>
    PROVE  AirFits(Air)'
<1>1. PICK env \in Answers(h, h.shown) :
         results' = [k \in DOMAIN results \cup {h} |-> IF k = h THEN env ELSE results[k]]
  BY DEF Write
<1>2. env.payload = Blank \/ Fits(h, env.payload)
  <2>1. CASE env.payload = Blank
    BY <2>1
  <2>2. CASE env.payload \in Payloads(h, h.shown)
    <3>1. CASE h.lens = "reduce"
      <4>1. PICK p \in Reduces : env.payload = [p EXCEPT !.about = h.shown.stats]
        BY <2>2, <3>1 DEF Payloads
      <4>2. p = [strengths |-> p.strengths, observation |-> p.observation, about |-> p.about]
        BY <4>1, FindingsAssumption
      <4>3. PICK x : x = h.shown.stats
        OBVIOUS
      <4>4. [p EXCEPT !.about = x] = [strengths |-> p.strengths, observation |-> p.observation, about |-> x]
        BY <4>2
      <4>5. env.payload = [strengths |-> p.strengths, observation |-> p.observation, about |-> x]
        BY <4>1, <4>3, <4>4
      <4> HIDE DEF Blank
      <4>6. /\ env.payload.strengths = p.strengths /\ env.payload.observation = p.observation
            /\ env.payload.about = x
        BY <4>5
      <4> QED BY <3>1, <4>3, <4>5, <4>6 DEF Fits
    <3>2. CASE h.lens = "render"
      <4>1. PICK p \in Renders : env.payload = [p EXCEPT !.about = h.shown.about]
        BY <2>2, <3>2 DEF Payloads
      <4>2. p = [blocks |-> p.blocks, about |-> p.about] /\ p.blocks \in Seq(Block)
        BY <4>1, ProseAssumption
      <4>3. PICK x : x = h.shown.about
        OBVIOUS
      <4>4. [p EXCEPT !.about = x] = [blocks |-> p.blocks, about |-> x]
        BY <4>2
      <4>5. env.payload = [blocks |-> p.blocks, about |-> x]
        BY <4>1, <4>3, <4>4
      <4>6. env.payload.blocks = p.blocks /\ env.payload.about = x
        BY <4>5
      <4> QED BY <3>2, <4>2, <4>3, <4>5, <4>6 DEF Fits
    <3> QED BY <3>1, <3>2 DEF Fits
  <2> QED BY <2>1, <2>2 DEF Answers
<1>3. ResultsFit(Air')
  BY <1>1, <1>2 DEF ReadingInv, AirFits, ResultsFit, Air
<1>4. Air'.jobs = jobs /\ Air'.cache = cache /\ Air'.files = files
  BY DEF Air
<1>5. JobsFit(Air) /\ FilesFit(Air) /\ CacheFit(Air)
  BY DEF ReadingInv, AirFits
<1>6. (JobsFit(Air) /\ FilesFit(Air) /\ CacheFit(Air))'
  BY <1>4, <1>5 DEF JobsFit, FilesFit, CacheFit, Told, Here, Air
<1>7. ResultsFit(Air)'
  BY <1>3 DEF ResultsFit
<1>8. (Air = [jobs |-> Air.jobs, cache |-> Air.cache, files |-> Air.files, results |-> Air.results])'
  BY DEF Air
<1> QED BY <1>6, <1>7, <1>8 DEF AirFits

LEMMA AnswerKeeps ==
    ASSUME ReadingInv, NEW r \in Readers, Answer(r)
    PROVE  ReadingInv'
<1>1. PICK h \in DOMAIN todo[r] : /\ Write(h, todo[r][h])
                                  /\ todo' = [todo EXCEPT ![r] = Restrict(@, DOMAIN @ \ {h})]
  BY DEF Answer
<1>2. todo[r][h] = h.shown
  BY <1>1 DEF ReadingInv, RequestsFit
<1>3. UNCHANGED <<rows, jobs, cache, files, readings, stage, request>>
  BY DEF Answer
<1>4. AirFits(Air)'
  BY <1>1, <1>2, <1>3, WriteKeeps
<1>5. todo' = [q \in Readers |-> todo'[q]] /\ \A q \in Readers : \A k \in DOMAIN todo'[q] : todo'[q][k] = k.shown
  <2>1. PICK T : T = Restrict(todo[r], DOMAIN todo[r] \ {h})
    OBVIOUS
  <2>2. \A k \in DOMAIN T : T[k] = k.shown
    BY <2>1 DEF Restrict, ReadingInv, RequestsFit
  <2>3. todo' = [todo EXCEPT ![r] = T]
    BY <1>1, <2>1
  <2> QED BY <2>2, <2>3 DEF ReadingInv, RequestsFit
<1>6. RequestsFit'
  BY <1>3, <1>5 DEF ReadingInv, RequestsFit, RequestFits
<1>7. ReadingsFit'
  BY <1>3, ReadingsStay DEF ReadingInv
<1> QED BY <1>3, <1>4, <1>6, <1>7 DEF ReadingInv

LEMMA OtherDrainKeeps ==
    ASSUME ReadingInv, OtherDrain
    PROVE  ReadingInv'
<1>1. PICK h \in DOMAIN files : Write(h, files[h])
  BY DEF OtherDrain
<1>2. files[h] = h.shown
  BY <1>1 DEF ReadingInv, AirFits, FilesFit, Air
<1>3. UNCHANGED <<rows, jobs, cache, files, readings, stage, request, todo>>
  BY DEF OtherDrain, readerVars
<1>4. AirFits(Air)'
  BY <1>1, <1>2, <1>3, WriteKeeps
<1>5. RequestsFit'
  BY <1>3 DEF ReadingInv, RequestsFit, RequestFits
<1>6. ReadingsFit'
  BY <1>3, ReadingsStay DEF ReadingInv
<1> QED BY <1>3, <1>4, <1>5, <1>6 DEF ReadingInv

\* What neither a request nor a reading sees happens to the tables alone.
LEMMA TablesAlone ==
    ASSUME ReadingInv, UNCHANGED <<rows, readings, stage, request, todo>>, NEW air, Air' = air, AirFits(air)
    PROVE  ReadingInv'
<1>1. AirFits(air)'
  BY RowsStay
<1>2. AirFits(Air)'
  BY <1>1 DEF AirFits, JobsFit, FilesFit, ResultsFit, CacheFit
<1>3. RequestsFit'
  BY DEF ReadingInv, RequestsFit, RequestFits
<1>4. ReadingsFit'
  BY ReadingsStay DEF ReadingInv
<1> QED BY <1>2, <1>3, <1>4 DEF ReadingInv

LEMMA IngestRequestKeeps ==
    ASSUME ReadingInv, IngestRequest
    PROVE  ReadingInv'
<1>1. PICK old, air : old = Air /\ air = Ingested(Air)
  OBVIOUS
<1>2. AirFits(air)
  BY <1>1, IngestedFits DEF ReadingInv
<1>3. air = [jobs |-> air.jobs, cache |-> air.cache, files |-> air.files, results |-> air.results]
  BY <1>2 DEF AirFits
<1>4. Air' = air
  BY <1>1, <1>3 DEF IngestRequest, Becomes, Air
<1>5. UNCHANGED <<rows, readings, stage, request, todo>>
  BY DEF IngestRequest, readerVars
<1> QED BY <1>2, <1>4, <1>5, TablesAlone

\* Windows are jobs of another lens.
LEMMA AnalyseKeeps ==
    ASSUME ReadingInv, NEW range \in Planned, Analyse(range)
    PROVE  ReadingInv'
<1> DEFINE toRun == {w \in Windows(Within(range)) : Hash("l1", Shown(w.members)) \notin DOMAIN cache}
           WindowOf(h) == CHOOSE w \in toRun : Hash("l1", Shown(w.members)) = h
           hashes == {Hash("l1", Shown(w.members)) : w \in toRun}
           row(h) == [chunk |-> WindowOf(h), status |-> "pending"]
<1>1. /\ jobs' = Merged(jobs, [h \in hashes |-> row(h)])
      /\ files' = Merged(files, [h \in hashes |-> Shown(WindowOf(h).members)])
      /\ UNCHANGED <<rows, cache, results, readings, stage, request, todo>>
  BY DEF Analyse, readerVars
<1>2. \A h \in hashes : h.lens = "l1" /\ h.shown = Shown(WindowOf(h).members)
  <2> SUFFICES ASSUME NEW h \in hashes PROVE h.lens = "l1" /\ h.shown = Shown(WindowOf(h).members)
    OBVIOUS
  <2>1. \E w \in toRun : Hash("l1", Shown(w.members)) = h
    OBVIOUS
  <2>2. Hash("l1", Shown(WindowOf(h).members)) = h
    BY <2>1
  <2> HIDE DEF WindowOf
  <2> QED BY <2>2 DEF Hash
<1>3. \A h \in hashes : row(h) = [chunk |-> row(h).chunk, status |-> row(h).status]
  OBVIOUS
<1> HIDE DEF hashes, WindowOf, row
<1>4. /\ DOMAIN jobs' = DOMAIN jobs \cup hashes
      /\ \A h \in DOMAIN jobs : jobs'[h] = jobs[h]
      /\ \A h \in hashes \ DOMAIN jobs : jobs'[h] = row(h)
  BY <1>1 DEF Merged
<1>5. PICK air : air = Air'
  OBVIOUS
<1>6. /\ air.jobs = jobs' /\ air.cache = cache /\ air.files = files' /\ air.results = results
      /\ air = [jobs |-> air.jobs, cache |-> air.cache, files |-> air.files, results |-> air.results]
  BY <1>1, <1>5 DEF Air
<1>7. AirFits(Air) /\ Air.jobs = jobs /\ Air.cache = cache /\ Air.files = files /\ Air.results = results
  BY DEF ReadingInv, Air
<1>8. JobsFit(air)
  <2> SUFFICES ASSUME NEW k \in DOMAIN jobs'
               PROVE  /\ jobs'[k] = [chunk |-> jobs'[k].chunk, status |-> jobs'[k].status]
                      /\ k.lens = "reduce" => Told(k.shown.stats)
                      /\ k.lens = "render" => /\ Told(k.shown.about)
                                              /\ jobs'[k].chunk.members \subseteq DOMAIN k.shown.about
    BY <1>6 DEF JobsFit
  <2>1. CASE k \in DOMAIN jobs
    BY <1>4, <1>7, <2>1 DEF AirFits, JobsFit
  <2>2. CASE k \in hashes \ DOMAIN jobs
    BY <1>2, <1>3, <1>4, <2>2
  <2> QED BY <1>4, <2>1, <2>2
<1>9. FilesFit(air)
  BY <1>1, <1>2, <1>6, <1>7 DEF AirFits, FilesFit, Merged
<1>10. ResultsFit(air)
  BY <1>6, <1>7 DEF AirFits, ResultsFit
<1>11. CacheFit(air)
  BY <1>4, <1>6, <1>7 DEF AirFits, CacheFit
<1>12. AirFits(air)
  BY <1>6, <1>8, <1>9, <1>10, <1>11 DEF AirFits
<1> QED BY <1>1, <1>5, <1>12, TablesAlone

\* New rows are none of those that anything was told about.
LEMMA ImportRowsKeeps ==
    ASSUME ReadingInv, NEW ids \in Imports, ImportRows(ids)
    PROVE  ReadingInv'
<1>1. /\ rows' = [m \in Rows |-> IF m \in ids THEN Words[epochs + 1] ELSE rows[m]]
      /\ UNCHANGED <<jobs, cache, files, results, readings, stage, request, todo>>
      /\ ids \cap Here = {}
  BY DEF ImportRows, workVars, readerVars
<1>2. ASSUME NEW m \in Here PROVE m \in Here' /\ rows'[m] = rows[m]
  BY <1>1 DEF Here
<1>3. ASSUME NEW about, Told(about) PROVE Told(about)'
  BY <1>2, <1>3 DEF Told
<1>4. AirFits(Air)'
  <2>1. AirFits(Air) /\ Air' = Air
    BY <1>1 DEF ReadingInv, Air
  <2>2. JobsFit(Air)'
    BY <1>3, <2>1 DEF AirFits, JobsFit
  <2>3. FilesFit(Air)' /\ ResultsFit(Air)' /\ CacheFit(Air)'
    BY <2>1 DEF AirFits, FilesFit, ResultsFit, CacheFit
  <2> QED BY <2>1, <2>2, <2>3 DEF AirFits
<1>5. RequestsFit'
  BY <1>1 DEF ReadingInv, RequestsFit, RequestFits
<1>6. ReadingsFit'
  <2>1. PICK S : readings' \in Seq(S)
    BY <1>1 DEF ReadingInv, ReadingsFit
  <2>2. (\A i \in DOMAIN readings : Resolves(readings[i]))'
    <3>1. readings' = readings /\ \A i \in DOMAIN readings : Resolves(readings[i])
      BY <1>1 DEF ReadingInv, ReadingsFit
    <3>2. ASSUME NEW reading, Resolves(reading) PROVE Resolves(reading)'
      BY <1>2, <3>2 DEF Resolves
    <3>3. ASSUME NEW i \in DOMAIN readings' PROVE Resolves(readings[i])'
      <4>1. PICK reading : reading = readings[i]
        OBVIOUS
      <4>2. Resolves(reading)' /\ readings'[i] = reading
        BY <3>1, <3>2, <4>1
      <4> QED BY <4>2 DEF Resolves
    <3> QED BY <3>3
  <2> QED BY <2>1, <2>2 DEF ReadingsFit
<1> QED BY <1>1, <1>4, <1>5, <1>6 DEF ReadingInv

\* Deletion: requests that wait keep what they knew, and no job knows it.
LEMMA ForgetKeeps ==
    ASSUME ReadingInv, Forget
    PROVE  ReadingInv'
<1>1. /\ rows' = [m \in Rows |-> NoRow] /\ readings' = <<>>
      /\ jobs' = <<>> /\ cache' = <<>> /\ files' = <<>> /\ results' = <<>>
      /\ UNCHANGED <<stage, request, todo>>
  BY DEF Forget, readerVars
<1>2. AirFits(Air)'
  BY <1>1 DEF AirFits, Air, JobsFit, FilesFit, ResultsFit, CacheFit
<1>3. RequestsFit'
  BY <1>1 DEF ReadingInv, RequestsFit, RequestFits
<1>4. ReadingsFit'
  <2>1. readings' \in Seq({}) /\ DOMAIN readings' = {}
    BY <1>1
  <2> QED BY <2>1 DEF ReadingsFit
<1>5. rows' = [m \in Rows |-> rows'[m]]
  BY <1>1
<1> QED BY <1>2, <1>3, <1>4, <1>5 DEF ReadingInv

LEMMA KillKeeps ==
    ASSUME ReadingInv, Kill
    PROVE  ReadingInv'
<1>1. /\ stage' = [r \in Readers |-> "idle"] /\ request' = [r \in Readers |-> NoRequest]
      /\ todo' = [r \in Readers |-> <<>>]
      /\ UNCHANGED <<rows, jobs, cache, files, results, readings>>
  BY DEF Kill, workVars
<1>2. AirFits(Air)'
  <2>1. PICK air : air = Air
    OBVIOUS
  <2>2. AirFits(air)' /\ Air' = air
    BY <1>1, <2>1, RowsStay DEF ReadingInv, Air
  <2> QED BY <2>2 DEF AirFits, JobsFit, FilesFit, ResultsFit, CacheFit
<1>3. RequestsFit'
  <2>1. \A r \in Readers : RequestFits("idle", NoRequest)
    BY DEF RequestFits, NoRequest
  <2>2. (\A r \in Readers : RequestFits(stage[r], request[r]))'
    BY <1>1, <2>1 DEF RequestFits
  <2>3. (\A r \in Readers : \A h \in DOMAIN todo[r] : todo[r][h] = h.shown)'
    <3>1. \A r \in Readers : todo'[r] = <<>> /\ DOMAIN <<>> = {}
      BY <1>1
    <3> QED BY <3>1
  <2> QED BY <1>1, <2>2, <2>3 DEF RequestsFit
<1>4. ReadingsFit'
  BY <1>1, ReadingsStay DEF ReadingInv
<1> QED BY <1>1, <1>2, <1>3, <1>4 DEF ReadingInv

LEMMA UnreachableKeeps ==
    ASSUME ReadingInv, NEW r \in Readers, Unreachable(r)
    PROVE  ReadingInv'
<1>1. /\ todo' = [todo EXCEPT ![r] = <<>>]
      /\ UNCHANGED <<rows, jobs, cache, files, results, readings, stage, request>>
  BY DEF Unreachable, workVars
<1>2. AirFits(Air)'
  <2>1. PICK air : air = Air
    OBVIOUS
  <2>2. AirFits(air)' /\ Air' = air
    BY <1>1, <2>1, RowsStay DEF ReadingInv, Air
  <2> QED BY <2>2 DEF AirFits, JobsFit, FilesFit, ResultsFit, CacheFit
<1>3. RequestsFit'
  <2>1. PICK T : T = <<>> /\ DOMAIN T = {}
    OBVIOUS
  <2>2. todo' = [todo EXCEPT ![r] = T]
    BY <1>1, <2>1
  <2>3. (\A q \in Readers : \A h \in DOMAIN todo[q] : todo[q][h] = h.shown)' /\ todo' = [q \in Readers |-> todo'[q]]
    BY <2>1, <2>2 DEF ReadingInv, RequestsFit
  <2> QED BY <1>1, <2>3 DEF ReadingInv, RequestsFit, RequestFits
<1>4. ReadingsFit'
  BY <1>1, ReadingsStay DEF ReadingInv
<1> QED BY <1>1, <1>2, <1>3, <1>4 DEF ReadingInv

LEMMA ReadingInvHolds == Spec => []ReadingInv
<1>1. Init => ReadingInv
  BY ReadingBegins DEF Init
<1>2. ReadingInv /\ [Next]_lensesVars => ReadingInv'
  <2> SUFFICES ASSUME ReadingInv, [Next]_lensesVars PROVE ReadingInv'
    OBVIOUS
  <2>1. CASE ReadingNext
    <3>1. ASSUME NEW r \in Readers, NEW range \in Ranges, Ask(r, range) PROVE ReadingInv'
      BY <3>1, AskKeeps
    <3>2. ASSUME NEW r \in Readers, Resume(r) \/ Answer(r) \/ Unreachable(r) PROVE ReadingInv'
      BY <3>2, ResumeKeeps, AnswerKeeps, UnreachableKeeps
    <3>3. ASSUME NEW range \in Planned, Analyse(range) PROVE ReadingInv'
      BY <3>3, AnalyseKeeps
    <3>4. ASSUME NEW ids \in Imports, ImportRows(ids) PROVE ReadingInv'
      BY <3>4, ImportRowsKeeps
    <3>5. CASE OtherDrain \/ IngestRequest \/ Forget \/ Kill
      BY <3>5, OtherDrainKeeps, IngestRequestKeeps, ForgetKeeps, KillKeeps
    <3> QED BY <2>1, <3>1, <3>2, <3>3, <3>4, <3>5 DEF ReadingNext
  <2>2. CASE UNCHANGED readingVars
    <3>1. PICK air : air = Air
      OBVIOUS
    <3>2. AirFits(air) /\ Air' = air /\ UNCHANGED <<rows, readings, stage, request, todo>>
      BY <2>2, <3>1 DEF readingVars, workVars, readerVars, ReadingInv, Air
    <3> QED BY <3>2, TablesAlone
  <2> QED BY <2>1, <2>2 DEF Next, lensesVars
<1> QED BY <1>1, <1>2, PTL DEF Spec

\* Whatever is deleted, imported, answered late or answered by another drain
\* while a reading waits for its engine: every claim that is frozen cites at
\* least one row, of the range that was asked for, and the row holds the words
\* the claim was written about (firstReflection.ts, ingestResults.ts).
THEOREM EveryClaimHasItsRows == Spec => []ReceiptsResolve
<1>1. ReadingInv => ReceiptsResolve
  BY DEF ReadingInv, ReadingsFit, Resolves, ReceiptsResolve
<1> QED BY <1>1, ReadingInvHolds, PTL

-----------------------------------------------------------------------------
(* The messages of a set by time, each once.  The rank of a number is how many *)
(* of the set are less: each number of the set is at its rank.               *)

\* Messages by time: each once, and the earlier first.
TimeOrdered(ids, n, s) ==
    /\ n \in Nat /\ s \in [1 .. n -> ids]
    /\ \A i, j \in 1 .. n : i < j => At[s[i]] < At[s[j]]
    /\ \A m \in ids : \E i \in 1 .. n : s[i] = m

LEMMA ByTimeIs ==
    ASSUME NEW ids \in SUBSET Rows, IsFiniteSet(ids)
    PROVE  TimeOrdered(ids, Cardinality(ids), ByTime(ids))
<1> DEFINE times == {At[m] : m \in ids}
<1>1. PICK n, s : n = Cardinality(ids) /\ s = ByTime(ids)
  OBVIOUS
<1>2. \A m \in ids : At[m] \in Nat
  BY ConversationAssumption
<1>3. \A m, k \in ids : At[m] = At[k] => m = k
  BY ConversationAssumption
<1>4. IsFiniteSet(times) /\ Cardinality(times) = n /\ times \in SUBSET Nat /\ n \in Nat
  <2> DEFINE f == [m \in ids |-> At[m]]
  <2>1. f \in Bijection(ids, times)
    BY <1>3 DEF Bijection, Injection, Surjection, IsInjective
  <2> HIDE DEF times, f
  <2>2. ExistsBijection(ids, times)
    BY <2>1 DEF ExistsBijection
  <2>3. IsFiniteSet(times) /\ Cardinality(times) = Cardinality(ids)
    BY <2>2, FS_Bijection
  <2> USE DEF times
  <2> QED BY <1>1, <1>2, <2>3, FS_CardinalityType
<1>5. PICK t : t = InOrder(times)
  OBVIOUS
<1>6. /\ t \in [1 .. n -> times] /\ \A i, j \in 1 .. n : i < j => t[i] < t[j]
      /\ \A x \in times : \E i \in 1 .. n : t[i] = x
  <2> HIDE DEF times
  <2> QED BY <1>4, <1>5, InOrderIs
<1>7. s = [i \in 1 .. n |-> CHOOSE m \in ids : At[m] = t[i]]
  BY <1>1, <1>5 DEF ByTime
<1>8. ASSUME NEW i \in 1 .. n PROVE s[i] \in ids /\ At[s[i]] = t[i]
  <2>1. \E m \in ids : At[m] = t[i]
    BY <1>6
  <2>2. s[i] = CHOOSE m \in ids : At[m] = t[i]
    BY <1>7
  <2> QED BY <2>1, <2>2
<1>9. s \in [1 .. n -> ids]
  BY <1>7, <1>8
<1>10. ASSUME NEW m \in ids PROVE \E i \in 1 .. n : s[i] = m
  <2>1. PICK i \in 1 .. n : t[i] = At[m]
    BY <1>6
  <2> QED BY <1>3, <1>8, <2>1
<1>11. \A i, j \in 1 .. n : i < j => At[s[i]] < At[s[j]]
  BY <1>6, <1>8
<1> HIDE DEF times
<1> QED BY <1>1, <1>4, <1>9, <1>10, <1>11 DEF TimeOrdered

-----------------------------------------------------------------------------
(* Runs.  Turns, spans and fights are made alike: what comes next in a       *)
(* sequence joins the last run or begins one.  Run k of the first i places    *)
(* holds those from cut[k] up to the one before cut[k + 1].                   *)

Cut(all, seq, M, n, i, cut) ==
    /\ n \in Nat /\ i \in Nat /\ all \in Seq(Seq(M)) /\ Len(all) = n
    /\ cut \in [1 .. (n + 1) -> 1 .. (i + 1)] /\ cut[1] = 1 /\ cut[n + 1] = i + 1
    /\ \A k, l \in 1 .. (n + 1) : k < l => cut[k] < cut[l]
    /\ \A k \in 1 .. n : Len(all[k]) = cut[k + 1] - cut[k]
    /\ \A k \in 1 .. n : \A j \in 1 .. Len(all[k]) : all[k][j] = seq[cut[k] + j - 1]
    /\ \A p \in 1 .. i : \E k \in 1 .. n : cut[k] <= p /\ p < cut[k + 1]

Begun(all, m) == Append(all, <<m>>)
Lengthened(all, m) == Append(Front(all), Append(Last(all), m))

BegunCut(cut, n, i) == [k \in 1 .. (n + 2) |-> IF k = n + 2 THEN i + 2 ELSE cut[k]]
LengthenedCut(cut, n, i) == [k \in 1 .. (n + 1) |-> IF k = n + 1 THEN i + 2 ELSE cut[k]]

LEMMA NothingIsCut ==
    ASSUME NEW M, NEW seq PROVE Cut(<<>>, seq, M, 0, 0, [k \in 1 .. 1 |-> 1])
BY DEF Cut

LEMMA BegunIsCut ==
    ASSUME NEW M, NEW seq, NEW all, NEW n, NEW i, NEW cut, Cut(all, seq, M, n, i, cut), seq[i + 1] \in M
    PROVE  Cut(Begun(all, seq[i + 1]), seq, M, n + 1, i + 1, BegunCut(cut, n, i))
<1>1. PICK m, next, new : m = seq[i + 1] /\ next = Append(all, <<m>>) /\ new = BegunCut(cut, n, i)
  OBVIOUS
<1>2. n \in Nat /\ i \in Nat /\ all \in Seq(Seq(M)) /\ Len(all) = n /\ m \in M
  BY <1>1 DEF Cut
<1>3. /\ next \in Seq(Seq(M)) /\ Len(next) = n + 1
      /\ \A k \in 1 .. n : next[k] = all[k]
      /\ next[n + 1] = <<m>>
  <2>1. <<m>> \in Seq(M)
    BY <1>2
  <2> QED BY <1>1, <1>2, <2>1
<1>4. /\ cut \in [1 .. (n + 1) -> 1 .. (i + 1)] /\ cut[1] = 1 /\ cut[n + 1] = i + 1
      /\ \A k, l \in 1 .. (n + 1) : k < l => cut[k] < cut[l]
  BY DEF Cut
<1>5. /\ new[n + 2] = i + 2 /\ \A k \in 1 .. (n + 1) : new[k] = cut[k]
      /\ new \in [1 .. (n + 2) -> 1 .. (i + 2)] /\ new[1] = 1
  BY <1>1, <1>2, <1>4 DEF BegunCut
<1>6. ASSUME NEW k \in 1 .. (n + 2), NEW l \in 1 .. (n + 2), k < l PROVE new[k] < new[l]
  <2>1. CASE l = n + 2
    <3>1. k \in 1 .. (n + 1)
      BY <1>2, <1>6, <2>1
    <3>2. new[k] = cut[k] /\ cut[k] \in 1 .. (i + 1)
      BY <1>4, <1>5, <3>1
    <3> QED BY <1>2, <1>5, <2>1, <3>2
  <2>2. CASE l # n + 2
    <3>1. k \in 1 .. (n + 1) /\ l \in 1 .. (n + 1)
      BY <1>2, <1>6, <2>2
    <3> QED BY <1>4, <1>5, <1>6, <3>1
  <2> QED BY <2>1, <2>2
<1>7. ASSUME NEW k \in 1 .. (n + 1)
      PROVE  /\ Len(next[k]) = new[k + 1] - new[k]
             /\ \A j \in 1 .. Len(next[k]) : next[k][j] = seq[new[k] + j - 1]
  <2>1. CASE k = n + 1
    <3>1. next[k] = <<m>> /\ new[k] = i + 1 /\ new[k + 1] = i + 2
      BY <1>2, <1>3, <1>4, <1>5, <2>1
    <3>2. Len(<<m>>) = 1 /\ <<m>>[1] = m
      OBVIOUS
    <3>3. ASSUME NEW j \in 1 .. 1 PROVE <<m>>[j] = seq[i + 1 + j - 1]
      <4>1. j = 1 /\ i + 1 + j - 1 = i + 1
        BY <1>2
      <4> QED BY <1>1, <3>2, <4>1
    <3> QED BY <1>2, <3>1, <3>2, <3>3
  <2>2. CASE k # n + 1
    <3>1. k \in 1 .. n /\ k + 1 \in 1 .. (n + 1) /\ k \in 1 .. (n + 1)
      BY <1>2, <2>2
    <3>2. next[k] = all[k] /\ new[k] = cut[k] /\ new[k + 1] = cut[k + 1]
      BY <1>3, <1>5, <3>1
    <3> QED BY <3>1, <3>2 DEF Cut
  <2> QED BY <2>1, <2>2
<1>8. ASSUME NEW p \in 1 .. (i + 1) PROVE \E k \in 1 .. (n + 1) : new[k] <= p /\ p < new[k + 1]
  <2>1. CASE p = i + 1
    <3>1. n + 1 \in 1 .. (n + 1) /\ new[n + 1] <= p /\ p < new[n + 1 + 1]
      BY <1>2, <1>4, <1>5, <2>1
    <3> QED BY <3>1
  <2>2. CASE p # i + 1
    <3>1. p \in 1 .. i
      BY <1>2, <2>2
    <3>2. PICK k \in 1 .. n : cut[k] <= p /\ p < cut[k + 1]
      BY <3>1 DEF Cut
    <3>3. k \in 1 .. (n + 1) /\ k + 1 \in 1 .. (n + 1)
      BY <1>2
    <3> QED BY <1>5, <3>2, <3>3
  <2> QED BY <2>1, <2>2
<1>9. n + 1 \in Nat /\ i + 1 \in Nat /\ n + 1 + 1 = n + 2 /\ i + 1 + 1 = i + 2
  BY <1>2
<1> QED BY <1>1, <1>3, <1>5, <1>6, <1>7, <1>8, <1>9 DEF Cut, Begun

LEMMA LengthenedIsCut ==
    ASSUME NEW M, NEW seq, NEW all, NEW n, NEW i, NEW cut, Cut(all, seq, M, n, i, cut), seq[i + 1] \in M, n # 0
    PROVE  Cut(Lengthened(all, seq[i + 1]), seq, M, n, i + 1, LengthenedCut(cut, n, i))
<1>1. PICK m, run, next, new : /\ m = seq[i + 1] /\ run = Append(all[n], m)
                               /\ next = Append(SubSeq(all, 1, n - 1), run) /\ new = LengthenedCut(cut, n, i)
  OBVIOUS
<1>2. n \in Nat /\ i \in Nat /\ all \in Seq(Seq(M)) /\ Len(all) = n /\ m \in M
  BY <1>1 DEF Cut
<1>3. n - 1 \in Nat /\ n \in 1 .. n /\ all[n] \in Seq(M)
  BY <1>2
<1>4. /\ run \in Seq(M) /\ Len(run) = Len(all[n]) + 1 /\ run[Len(all[n]) + 1] = m
      /\ \A j \in 1 .. Len(all[n]) : run[j] = all[n][j]
  BY <1>1, <1>2, <1>3
<1>5. PICK front : front = SubSeq(all, 1, n - 1)
  OBVIOUS
<1>6. front \in Seq(Seq(M)) /\ Len(front) = n - 1 /\ \A k \in 1 .. (n - 1) : front[k] = all[k]
  BY <1>2, <1>3, <1>5
<1>7. /\ next \in Seq(Seq(M)) /\ Len(next) = n
      /\ \A k \in 1 .. (n - 1) : next[k] = all[k]
      /\ next[n] = run
  <2>1. next = Append(front, run)
    BY <1>1, <1>5
  <2> QED BY <1>2, <1>3, <1>4, <1>6, <2>1
<1>8. /\ cut \in [1 .. (n + 1) -> 1 .. (i + 1)] /\ cut[1] = 1 /\ cut[n + 1] = i + 1
      /\ \A k, l \in 1 .. (n + 1) : k < l => cut[k] < cut[l]
  BY DEF Cut
<1>9. /\ new[n + 1] = i + 2 /\ \A k \in 1 .. n : new[k] = cut[k]
      /\ new \in [1 .. (n + 1) -> 1 .. (i + 2)] /\ new[1] = 1
  BY <1>1, <1>2, <1>3, <1>8 DEF LengthenedCut
<1>10. ASSUME NEW k \in 1 .. (n + 1), NEW l \in 1 .. (n + 1), k < l PROVE new[k] < new[l]
  <2>1. CASE l = n + 1
    <3>1. k \in 1 .. n /\ k \in 1 .. (n + 1)
      BY <1>2, <1>10, <2>1
    <3>2. new[k] = cut[k] /\ cut[k] \in 1 .. (i + 1)
      BY <1>8, <1>9, <3>1
    <3> QED BY <1>2, <1>9, <2>1, <3>2
  <2>2. CASE l # n + 1
    <3>1. k \in 1 .. n /\ l \in 1 .. n /\ k \in 1 .. (n + 1) /\ l \in 1 .. (n + 1)
      BY <1>2, <1>10, <2>2
    <3> QED BY <1>8, <1>9, <1>10, <3>1
  <2> QED BY <2>1, <2>2
<1>11. ASSUME NEW k \in 1 .. n
      PROVE  /\ Len(next[k]) = new[k + 1] - new[k]
             /\ \A j \in 1 .. Len(next[k]) : next[k][j] = seq[new[k] + j - 1]
  <2>1. Len(all[k]) = cut[k + 1] - cut[k] /\ \A j \in 1 .. Len(all[k]) : all[k][j] = seq[cut[k] + j - 1]
    BY DEF Cut
  <2>2. CASE k = n
    <3>1. Len(all[n]) = i + 1 - cut[n] /\ cut[n] \in 1 .. (i + 1) /\ Len(all[n]) \in Nat
      BY <1>2, <1>3, <1>8, <2>1, <2>2
    <3>2. next[k] = run /\ new[k] = cut[n] /\ new[k + 1] = i + 2
      BY <1>3, <1>7, <1>9, <2>2
    <3>3. Len(run) = (i + 2) - cut[n]
      BY <1>2, <1>4, <3>1
    <3>4. ASSUME NEW j \in 1 .. Len(run) PROVE run[j] = seq[cut[n] + j - 1]
      <4>1. CASE j = Len(all[n]) + 1
        <5>1. PICK c, d \in Nat : c = cut[n] /\ d = Len(all[n]) /\ d = i + 1 - c
          BY <1>2, <3>1
        <5>2. c + (d + 1) - 1 = i + 1
          BY <1>2, <5>1
        <5>3. cut[n] + j - 1 = i + 1
          BY <4>1, <5>1, <5>2
        <5> QED BY <1>1, <1>4, <4>1, <5>3
      <4>2. CASE j # Len(all[n]) + 1
        <5>1. j \in 1 .. Len(all[n])
          BY <1>4, <3>1, <4>2
        <5> QED BY <1>4, <2>1, <2>2, <5>1
      <4> QED BY <4>1, <4>2
    <3>5. Len(next[k]) = new[k + 1] - new[k]
      <4>1. PICK c, d \in Int : c = cut[n] /\ d = i + 2
        BY <1>2, <3>1
      <4>2. Len(run) = d - c
        BY <1>2, <3>1, <3>3, <4>1
      <4>3. new[k + 1] = d /\ new[k] = c
        BY <3>2, <4>1
      <4> QED BY <3>2, <4>2, <4>3
    <3>6. \A j \in 1 .. Len(next[k]) : next[k][j] = seq[new[k] + j - 1]
      BY <3>2, <3>4
    <3> QED BY <3>5, <3>6
  <2>3. CASE k # n
    <3>1. k \in 1 .. (n - 1) /\ k + 1 \in 1 .. n
      BY <1>2, <2>3
    <3>2. next[k] = all[k] /\ new[k] = cut[k] /\ new[k + 1] = cut[k + 1]
      BY <1>7, <1>9, <3>1
    <3> QED BY <2>1, <3>2
  <2> QED BY <2>2, <2>3
<1>12. ASSUME NEW p \in 1 .. (i + 1) PROVE \E k \in 1 .. n : new[k] <= p /\ p < new[k + 1]
  <2>1. CASE p = i + 1
    <3>1. new[n] = cut[n] /\ cut[n] \in 1 .. (i + 1) /\ new[n + 1] = i + 2
      BY <1>2, <1>3, <1>8, <1>9
    <3>2. new[n] <= p /\ p < new[n + 1]
      BY <1>2, <2>1, <3>1
    <3> QED BY <1>3, <3>2
  <2>2. CASE p # i + 1
    <3>1. p \in 1 .. i
      BY <1>2, <2>2
    <3>2. PICK k \in 1 .. n : cut[k] <= p /\ p < cut[k + 1]
      BY <3>1 DEF Cut
    <3>3. CASE k = n
      BY <1>2, <1>3, <1>9, <3>1, <3>2, <3>3
    <3>4. CASE k # n
      <4>1. k + 1 \in 1 .. n
        BY <1>2, <3>4
      <4> QED BY <1>9, <3>2, <4>1
    <3> QED BY <3>3, <3>4
  <2> QED BY <2>1, <2>2
<1>13. i + 1 \in Nat /\ i + 1 + 1 = i + 2
  BY <1>2
<1>14. next = Lengthened(all, m)
  <2>1. Front(all) = SubSeq(all, 1, n - 1) /\ Last(all) = all[n]
    BY <1>2 DEF Front, Last
  <2> QED BY <1>1, <2>1 DEF Lengthened
<1>15. Cut(next, seq, M, n, i + 1, new)
  <2>1. n \in Nat /\ i + 1 \in Nat /\ next \in Seq(Seq(M)) /\ Len(next) = n
    BY <1>2, <1>7, <1>13
  <2>2. new \in [1 .. (n + 1) -> 1 .. (i + 1 + 1)] /\ new[1] = 1 /\ new[n + 1] = i + 1 + 1
    BY <1>9, <1>13
  <2>3. /\ \A k \in 1 .. n : Len(next[k]) = new[k + 1] - new[k]
        /\ \A k \in 1 .. n : \A j \in 1 .. Len(next[k]) : next[k][j] = seq[new[k] + j - 1]
    BY <1>11
  <2>4. \A k, l \in 1 .. (n + 1) : k < l => new[k] < new[l]
    BY <1>10
  <2> QED BY <1>12, <2>1, <2>2, <2>3, <2>4, Zenon DEF Cut
<1> QED BY <1>1, <1>14, <1>15

\* What a sequence is cut into, place by place; join says when the next one
\* joins the last run.
Joined(seq, join, A, h) ==
    /\ h \in [SUBSET DOMAIN seq -> A] /\ h[{}] = <<>>
    /\ \A s \in SUBSET DOMAIN seq : s # {} =>
          h[s] = IF join[h[s \ {Max(s)}]][seq[Max(s)]] THEN Lengthened(h[s \ {Max(s)}], seq[Max(s)])
                 ELSE Begun(h[s \ {Max(s)}], seq[Max(s)])

\* Only a run that there is can be joined.
Joinable(join, A, M) == \A a \in A, m \in M : join[a][m] => a # <<>>

LEMMA RunsAre ==
    ASSUME NEW M, NEW all \in Seq(Seq(M)), NEW m \in M
    PROVE  /\ Begun(all, m) \in Seq(Seq(M))
           /\ all # <<>> => Lengthened(all, m) \in Seq(Seq(M))
<1>1. Begun(all, m) \in Seq(Seq(M))
  BY <<m>> \in Seq(M) DEF Begun
<1>2. ASSUME all # <<>> PROVE Lengthened(all, m) \in Seq(Seq(M))
  <2>1. Len(all) \in Nat \ {0} /\ Len(all) \in 1 .. Len(all) /\ Len(all) - 1 \in Nat
    BY <1>2
  <2>2. Last(all) \in Seq(M)
    BY <2>1 DEF Last
  <2>3. Append(Last(all), m) \in Seq(M)
    BY <2>2
  <2>4. SubSeq(all, 1, Len(all) - 1) \in Seq(Seq(M))
    BY <2>1
  <2> QED BY <2>3, <2>4 DEF Front, Lengthened
<1> QED BY <1>1, <1>2

LEMMA JoinedExists ==
    ASSUME NEW M, NEW n \in Nat, NEW seq \in [1 .. n -> M], NEW join, Joinable(join, Seq(Seq(M)), M)
    PROVE  \E h : Joined(seq, join, Seq(Seq(M)), h)
<1> DEFINE next(a, m) == IF join[a][m] THEN Lengthened(a, m) ELSE Begun(a, m)
<1>1. PICK S, A, pick, op : /\ S = 1 .. n /\ A = Seq(Seq(M)) /\ pick = [s \in SUBSET S |-> Max(s)]
                            /\ op = [x \in S |-> [a \in A |-> next(a, seq[x])]]
  OBVIOUS
<1>2. \A s \in SUBSET S : s # {} => pick[s] \in s
  BY <1>1, MaxIs
<1>3. \A a \in A, m \in M : next(a, m) \in A
  BY <1>1, RunsAre DEF Joinable
<1> HIDE DEF next
<1>4. \A x \in S, a \in A : op[x][a] \in A /\ op[x][a] = next(a, seq[x])
  BY <1>1, <1>3
<1>5. IsFiniteSet(S) /\ <<>> \in A
  BY <1>1, FS_Interval
<1>6. Foldable(S, A, <<>>, pick, op)
  BY <1>2, <1>4, <1>5 DEF Foldable
<1>7. PICK h : IsFold(S, A, <<>>, pick, op, h)
  BY <1>6, FoldExists
<1>8. /\ h \in [SUBSET S -> A]
      /\ h = [s \in SUBSET S |-> IF s = {} THEN <<>> ELSE op[pick[s]][h[s \ {pick[s]}]]]
  BY <1>7 DEF IsFold
<1>9. ASSUME NEW s \in SUBSET S, s # {}
      PROVE  h[s] = next(h[s \ {Max(s)}], seq[Max(s)])
  <2>1. pick[s] \in s /\ pick[s] = Max(s)
    BY <1>1, <1>2, <1>9
  <2>2. pick[s] \in S /\ h[s \ {pick[s]}] \in A
    BY <1>8, <2>1
  <2>3. h[s] = op[pick[s]][h[s \ {pick[s]}]]
    BY <1>8, <1>9
  <2> QED BY <1>4, <2>1, <2>2, <2>3
<1>10. h[{}] = <<>> /\ DOMAIN seq = S
  BY <1>1, <1>8
<1> QED BY <1>1, <1>8, <1>9, <1>10 DEF Joined, next

LEMMA JoinedStep ==
    ASSUME NEW M, NEW n \in Nat, NEW seq \in [1 .. n -> M], NEW join, NEW h,
           Joined(seq, join, Seq(Seq(M)), h), NEW i \in 0 .. (n - 1)
    PROVE  h[1 .. (i + 1)] = IF join[h[1 .. i]][seq[i + 1]] THEN Lengthened(h[1 .. i], seq[i + 1])
                             ELSE Begun(h[1 .. i], seq[i + 1])
<1>1. PICK s, t : s = 1 .. (i + 1) /\ t = 1 .. i
  OBVIOUS
<1>2. i \in Nat /\ i + 1 \in 1 .. n /\ DOMAIN seq = 1 .. n
  OBVIOUS
<1>3. Max(s) = i + 1 /\ s \ {i + 1} = t
  BY <1>1, <1>2, MaxUpTo
<1>4. s \in SUBSET DOMAIN seq /\ s # {}
  <2>1. i + 1 \in s
    BY <1>1, <1>2
  <2>2. \A x \in s : x \in 1 .. n
    BY <1>1, <1>2
  <2> QED BY <1>2, <2>1, <2>2
<1> QED BY <1>1, <1>3, <1>4 DEF Joined

\* A run begins where nothing is joined.
Begins(seq, join, h, k, i, cut) ==
    \A p \in 1 .. i : (\E c \in 1 .. k : cut[c] = p) <=> ~join[h[1 .. (p - 1)]][seq[p]]

LEMMA BeginsStep ==
    ASSUME NEW seq, NEW join, NEW h, NEW M, NEW all, NEW k, NEW i, NEW cut,
           Cut(all, seq, M, k, i, cut), Begins(seq, join, h, k, i, cut)
    PROVE  /\ ~join[h[1 .. i]][seq[i + 1]] => Begins(seq, join, h, k + 1, i + 1, BegunCut(cut, k, i))
           /\ join[h[1 .. i]][seq[i + 1]] => Begins(seq, join, h, k, i + 1, LengthenedCut(cut, k, i))
<1>1. PICK new, longer : new = BegunCut(cut, k, i) /\ longer = LengthenedCut(cut, k, i)
  OBVIOUS
<1>2. /\ k \in Nat /\ i \in Nat /\ cut[k + 1] = i + 1 /\ cut \in [1 .. (k + 1) -> 1 .. (i + 1)]
      /\ \A c, d \in 1 .. (k + 1) : c < d => cut[c] < cut[d]
  BY DEF Cut
<1>3. /\ \A c \in 1 .. (k + 1) : new[c] = cut[c]
      /\ \A c \in 1 .. k : longer[c] = cut[c]
  BY <1>1, <1>2 DEF BegunCut, LengthenedCut
<1>4. \A c \in 1 .. k : cut[c] < i + 1 /\ cut[c] \in 1 .. (i + 1)
  BY <1>2
<1>5. \A p \in 1 .. (i + 1) : p # i + 1 => p \in 1 .. i
  BY <1>2
<1>6. ASSUME NEW p \in 1 .. (i + 1), p # i + 1
      PROVE  /\ (\E c \in 1 .. (k + 1) : new[c] = p) <=> (\E c \in 1 .. k : cut[c] = p)
             /\ (\E c \in 1 .. k : longer[c] = p) <=> (\E c \in 1 .. k : cut[c] = p)
  <2>1. \A c \in 1 .. (k + 1) : c \in 1 .. k \/ c = k + 1
    BY <1>2
  <2>2. \A c \in 1 .. k : c \in 1 .. (k + 1)
    BY <1>2
  <2> QED BY <1>2, <1>3, <1>6, <2>1, <2>2
<1>7. (\E c \in 1 .. (k + 1) : new[c] = i + 1) /\ ~(\E c \in 1 .. k : longer[c] = i + 1)
  <2>1. k + 1 \in 1 .. (k + 1) /\ new[k + 1] = i + 1
    BY <1>2, <1>3
  <2>2. \A c \in 1 .. k : longer[c] # i + 1
    BY <1>2, <1>3, <1>4
  <2> QED BY <2>1, <2>2
<1>8. (i + 1) - 1 = i
  BY <1>2
<1>9. \A p \in 1 .. (i + 1) : p # i + 1 =>
         ((\E c \in 1 .. k : cut[c] = p) <=> ~join[h[1 .. (p - 1)]][seq[p]])
  BY <1>5 DEF Begins
<1> QED BY <1>1, <1>6, <1>7, <1>8, <1>9 DEF Begins

\* Whatever joins: the runs are the sequence, cut where nothing is joined.
LEMMA JoinedIsCut ==
    ASSUME NEW M, NEW n \in Nat, NEW seq \in [1 .. n -> M], NEW join, Joinable(join, Seq(Seq(M)), M),
           NEW h, Joined(seq, join, Seq(Seq(M)), h)
    PROVE  \A i \in 0 .. n : \E k, cut : Cut(h[1 .. i], seq, M, k, i, cut) /\ Begins(seq, join, h, k, i, cut)
<1> DEFINE failing == {i \in 0 .. n : ~ \E k, cut : /\ Cut(h[1 .. i], seq, M, k, i, cut)
                                                    /\ Begins(seq, join, h, k, i, cut)}
<1>1. 0 \notin failing
  <2>1. 1 .. 0 = {} /\ h[{}] = <<>>
    BY DEF Joined
  <2>2. PICK k, cut : Cut(<<>>, seq, M, k, 0, cut)
    BY NothingIsCut
  <2>3. Begins(seq, join, h, k, 0, cut)
    BY <2>1 DEF Begins
  <2> QED BY <2>1, <2>2, <2>3
<1>2. ASSUME NEW i \in 0 .. (n - 1), i \notin failing PROVE i + 1 \notin failing
  <2>1. PICK k, cut : Cut(h[1 .. i], seq, M, k, i, cut) /\ Begins(seq, join, h, k, i, cut)
    BY <1>2
  <2>2. PICK all, m : all = h[1 .. i] /\ m = seq[i + 1]
    OBVIOUS
  <2>3. h[1 .. (i + 1)] = IF join[all][m] THEN Lengthened(all, m) ELSE Begun(all, m)
    BY <2>2, JoinedStep
  <2>4. m \in M /\ seq[i + 1] \in M /\ all \in Seq(Seq(M)) /\ Len(all) = k
    BY <2>1, <2>2 DEF Cut
  <2>5. CASE join[all][m]
    <3>1. all # <<>>
      BY <2>4, <2>5 DEF Joinable
    <3>2. k # 0
      BY <2>4, <3>1
    <3>3. Cut(Lengthened(all, m), seq, M, k, i + 1, LengthenedCut(cut, k, i))
      BY <2>1, <2>2, <2>4, <3>2, LengthenedIsCut
    <3>4. Begins(seq, join, h, k, i + 1, LengthenedCut(cut, k, i))
      BY <2>1, <2>2, <2>5, BeginsStep
    <3> QED BY <2>3, <2>5, <3>3, <3>4
  <2>6. CASE ~join[all][m]
    <3>1. Cut(Begun(all, m), seq, M, k + 1, i + 1, BegunCut(cut, k, i))
      BY <2>1, <2>2, <2>4, BegunIsCut
    <3>2. Begins(seq, join, h, k + 1, i + 1, BegunCut(cut, k, i))
      BY <2>1, <2>2, <2>6, BeginsStep
    <3> QED BY <2>3, <2>6, <3>1, <3>2
  <2> QED BY <2>5, <2>6
<1>3. failing = {}
  <2>1. SUFFICES ASSUME failing # {} PROVE FALSE
    OBVIOUS
  <2>2. failing \in SUBSET Nat
    OBVIOUS
  <2> HIDE DEF failing
  <2>3. PICK i \in failing : \A j \in failing : i <= j
    BY <2>1, <2>2, LeastNatural
  <2>4. i \in 0 .. n /\ i # 0
    BY <1>1, <2>3 DEF failing
  <2>5. i - 1 \in 0 .. (n - 1) /\ i - 1 \notin failing /\ (i - 1) + 1 = i
    BY <2>2, <2>3, <2>4
  <2> QED BY <1>2, <2>3, <2>5
<1> QED BY <1>3

-----------------------------------------------------------------------------
(* Turns are joined by who wrote, spans by how full they are; a window owns  *)
(* the messages of a span, so that the windows of a range own all of it.     *)

LEMMA LastFew ==
    ASSUME NEW M, NEW seq \in Seq(M), NEW n \in Nat
    PROVE  LastN(seq, n) \in Seq(M) /\ ToSet(LastN(seq, n)) \subseteq ToSet(seq)
<1>1. PICK from, last : last = LastN(seq, n) /\ from = (IF Len(seq) > n THEN Len(seq) - n ELSE 0)
  OBVIOUS
<1>2. last = SubSeq(seq, from + 1, Len(seq))
  BY <1>1 DEF LastN
<1>3. from \in Nat /\ from <= Len(seq) /\ Len(seq) \in Nat
  BY <1>1
<1>4. /\ last \in Seq(M) /\ Len(last) = Len(seq) - from
      /\ \A i \in 1 .. (Len(seq) - from) : last[i] = seq[from + i]
  BY <1>2, <1>3
<1>5. ASSUME NEW i \in DOMAIN last PROVE last[i] \in ToSet(seq)
  <2>1. i \in 1 .. (Len(seq) - from)
    BY <1>4
  <2>2. from + i \in DOMAIN seq
    BY <1>3, <2>1
  <2> QED BY <1>4, <2>1, <2>2 DEF ToSet
<1> QED BY <1>1, <1>4, <1>5 DEF ToSet

\* A fold that joins as it should: what it holds at each step is a sequence of runs.
LEMMA JoinedIfSo ==
    ASSUME NEW M, NEW n \in Nat, NEW seq \in [1 .. n -> M], NEW join, Joinable(join, Seq(Seq(M)), M),
           NEW h, h = [s \in SUBSET DOMAIN seq |-> h[s]], h[{}] = <<>>,
           \A s \in SUBSET DOMAIN seq : s # {} /\ h[s \ {Max(s)}] \in Seq(Seq(M)) =>
              h[s] = IF join[h[s \ {Max(s)}]][seq[Max(s)]] THEN Lengthened(h[s \ {Max(s)}], seq[Max(s)])
                     ELSE Begun(h[s \ {Max(s)}], seq[Max(s)])
    PROVE  Joined(seq, join, Seq(Seq(M)), h)
<1>1. PICK S, A : S = DOMAIN seq /\ A = Seq(Seq(M))
  OBVIOUS
<1> DEFINE G == {s \in SUBSET S : h[s] \in A}
<1>2. {} \in G
  <2>1. <<>> \in Seq(Seq(M))
    OBVIOUS
  <2> QED BY <1>1, <2>1
<1>3. ASSUME NEW s \in SUBSET S, s # {} PROVE \E x \in s : s \ {x} \in G => s \in G
  <2>1. Max(s) \in s
    <3>1. s \in SUBSET (1 .. n)
      BY <1>1
    <3> QED BY <1>3, <3>1, MaxIs
  <2>2. seq[Max(s)] \in M
    BY <1>1, <2>1
  <2>3. ASSUME s \ {Max(s)} \in G PROVE s \in G
    <3>1. PICK a, m : a = h[s \ {Max(s)}] /\ m = seq[Max(s)]
      OBVIOUS
    <3>2. a \in A /\ m \in M /\ s \ {Max(s)} \in SUBSET DOMAIN seq
      BY <1>1, <2>2, <2>3, <3>1
    <3>3. h[s] = IF join[a][m] THEN Lengthened(a, m) ELSE Begun(a, m)
      BY <1>1, <1>3, <3>1, <3>2
    <3>4. Begun(a, m) \in A /\ (a # <<>> => Lengthened(a, m) \in A)
      BY <1>1, <3>2, RunsAre
    <3>5. h[s] \in A
      BY <1>1, <3>2, <3>3, <3>4 DEF Joinable
    <3> QED BY <3>5
  <2> QED BY <2>1, <2>3
<1>4. IsFiniteSet(S)
  BY <1>1, FS_Interval
<1>5. \A s \in SUBSET S : s \in G
  <2> HIDE DEF G
  <2> QED BY <1>2, <1>3, <1>4, OneByOne
<1>6. h \in [SUBSET S -> A]
  BY <1>1, <1>5
<1>7. ASSUME NEW s \in SUBSET S, s # {}
      PROVE  h[s \ {Max(s)}] \in A
  <2>1. s \ {Max(s)} \in SUBSET S
    OBVIOUS
  <2> QED BY <1>6, <2>1
<1> QED BY <1>1, <1>6, <1>7 DEF Joined

\* A turn is of one side.
TurnJoins(turns, m) == turns # <<>> /\ (Last(Last(turns)) \in Mine) = (m \in Mine)

TurnsGrow(seq, h) ==
    h = [s \in SUBSET DOMAIN seq |->
            IF s = {} THEN <<>>
            ELSE IF TurnJoins(h[s \ {Max(s)}], seq[Max(s)]) THEN Lengthened(h[s \ {Max(s)}], seq[Max(s)])
                 ELSE Begun(h[s \ {Max(s)}], seq[Max(s)])]

LEMMA TurnsAre ==
    ASSUME NEW ids \in SUBSET Rows, IsFiniteSet(ids)
    PROVE  \E k, cut : Cut(Turns(ids), ByTime(ids), ids, k, Cardinality(ids), cut)
<1>1. PICK n, seq, A : n = Cardinality(ids) /\ seq = ByTime(ids) /\ A = Seq(Seq(ids))
  OBVIOUS
<1>2. n \in Nat /\ seq \in [1 .. n -> ids]
  BY <1>1, ByTimeIs DEF TimeOrdered
<1>3. PICK join : join = [a \in A |-> [m \in ids |-> TurnJoins(a, m)]]
  OBVIOUS
<1>4. \A a \in A, m \in ids : join[a][m] = TurnJoins(a, m)
  BY <1>3
<1>5. Joinable(join, A, ids)
  BY <1>4 DEF Joinable, TurnJoins
<1>6. \E g : TurnsGrow(seq, g)
  <2>1. PICK g : Joined(seq, join, A, g)
    BY <1>1, <1>2, <1>5, JoinedExists
  <2> DEFINE next(s) == IF TurnJoins(g[s \ {Max(s)}], seq[Max(s)]) THEN Lengthened(g[s \ {Max(s)}], seq[Max(s)])
                        ELSE Begun(g[s \ {Max(s)}], seq[Max(s)])
             value(s) == IF s = {} THEN <<>> ELSE next(s)
  <2>2. ASSUME NEW s \in SUBSET DOMAIN seq PROVE g[s] = value(s)
    <3>1. CASE s = {}
      BY <2>1, <3>1 DEF Joined
    <3>2. CASE s # {}
      <4>1. Max(s) \in s
        BY <1>2, <3>2, MaxIs
      <4>2. g[s \ {Max(s)}] \in A /\ seq[Max(s)] \in ids
        BY <1>2, <2>1, <4>1 DEF Joined
      <4> QED BY <1>4, <2>1, <3>2, <4>2 DEF Joined
    <3> QED BY <3>1, <3>2
  <2>3. g = [s \in SUBSET DOMAIN seq |-> value(s)]
    <3> HIDE DEF value
    <3> QED BY <2>1, <2>2 DEF Joined
  <2> QED BY <2>3 DEF TurnsGrow
<1>7. PICK h : h = CHOOSE g : TurnsGrow(seq, g)
  OBVIOUS
<1>8. Turns(ids) = h[DOMAIN seq]
  BY <1>1, <1>7 DEF Turns, FoldLeft, MapThenFoldSet, TurnsGrow, TurnJoins, Lengthened, Begun
<1>9. TurnsGrow(seq, h)
  BY <1>6, <1>7
<1>10. Joined(seq, join, A, h)
  <2>1. h = [s \in SUBSET DOMAIN seq |-> h[s]] /\ h[{}] = <<>>
    BY <1>9 DEF TurnsGrow
  <2>2. ASSUME NEW s \in SUBSET DOMAIN seq, s # {}, h[s \ {Max(s)}] \in A
        PROVE  h[s] = IF join[h[s \ {Max(s)}]][seq[Max(s)]] THEN Lengthened(h[s \ {Max(s)}], seq[Max(s)])
                      ELSE Begun(h[s \ {Max(s)}], seq[Max(s)])
    <3>1. Max(s) \in s
      BY <1>2, <2>2, MaxIs
    <3>2. seq[Max(s)] \in ids
      BY <1>2, <3>1
    <3> QED BY <1>4, <1>9, <2>2, <3>2 DEF TurnsGrow
  <2> QED BY <1>1, <1>2, <1>5, <2>1, <2>2, JoinedIfSo
<1>11. n \in 0 .. n /\ DOMAIN seq = 1 .. n
  BY <1>2
<1> QED BY <1>1, <1>2, <1>5, <1>8, <1>10, <1>11, JoinedIsCut

\* A span takes turns until it is full.
SpanJoins(spans, turn) == spans # <<>> /\ ~Full(Last(spans))

SpansGrow(seq, h) ==
    h = [s \in SUBSET DOMAIN seq |->
            IF s = {} THEN <<>>
            ELSE IF SpanJoins(h[s \ {Max(s)}], seq[Max(s)]) THEN Lengthened(h[s \ {Max(s)}], seq[Max(s)])
                 ELSE Begun(h[s \ {Max(s)}], seq[Max(s)])]

LEMMA SpansAre ==
    ASSUME NEW ids \in SUBSET Rows, IsFiniteSet(ids)
    PROVE  \E k, cut : Cut(Spans(ids), Turns(ids), Seq(ids), k, Len(Turns(ids)), cut)
<1>1. PICK n, seq, M, A : n = Len(Turns(ids)) /\ seq = Turns(ids) /\ M = Seq(ids) /\ A = Seq(Seq(M))
  OBVIOUS
<1>2. n \in Nat /\ seq \in [1 .. n -> M]
  <2>1. Turns(ids) \in Seq(Seq(ids))
    BY TurnsAre DEF Cut
  <2> QED BY <1>1, <2>1
<1>3. PICK join : join = [a \in A |-> [m \in M |-> SpanJoins(a, m)]]
  OBVIOUS
<1>4. \A a \in A, m \in M : join[a][m] = SpanJoins(a, m)
  BY <1>3
<1>5. Joinable(join, A, M)
  BY <1>4 DEF Joinable, SpanJoins
<1>6. \E g : SpansGrow(seq, g)
  <2>1. PICK g : Joined(seq, join, A, g)
    BY <1>1, <1>2, <1>5, JoinedExists
  <2> DEFINE next(s) == IF SpanJoins(g[s \ {Max(s)}], seq[Max(s)]) THEN Lengthened(g[s \ {Max(s)}], seq[Max(s)])
                        ELSE Begun(g[s \ {Max(s)}], seq[Max(s)])
             value(s) == IF s = {} THEN <<>> ELSE next(s)
  <2>2. ASSUME NEW s \in SUBSET DOMAIN seq PROVE g[s] = value(s)
    <3>1. CASE s = {}
      BY <2>1, <3>1 DEF Joined
    <3>2. CASE s # {}
      <4>1. Max(s) \in s
        BY <1>2, <3>2, MaxIs
      <4>2. g[s \ {Max(s)}] \in A /\ seq[Max(s)] \in M
        BY <1>2, <2>1, <4>1 DEF Joined
      <4> QED BY <1>4, <2>1, <3>2, <4>2 DEF Joined
    <3> QED BY <3>1, <3>2
  <2>3. g = [s \in SUBSET DOMAIN seq |-> value(s)]
    <3> HIDE DEF value
    <3> QED BY <2>1, <2>2 DEF Joined
  <2> QED BY <2>3 DEF SpansGrow
<1>7. PICK h : h = CHOOSE g : SpansGrow(seq, g)
  OBVIOUS
<1>8. Spans(ids) = h[DOMAIN seq]
  BY <1>1, <1>7 DEF Spans, FoldLeft, MapThenFoldSet, SpansGrow, SpanJoins, Lengthened, Begun
<1>9. SpansGrow(seq, h)
  BY <1>6, <1>7
<1>10. Joined(seq, join, A, h)
  <2>1. h = [s \in SUBSET DOMAIN seq |-> h[s]] /\ h[{}] = <<>>
    BY <1>9 DEF SpansGrow
  <2>2. ASSUME NEW s \in SUBSET DOMAIN seq, s # {}, h[s \ {Max(s)}] \in A
        PROVE  h[s] = IF join[h[s \ {Max(s)}]][seq[Max(s)]] THEN Lengthened(h[s \ {Max(s)}], seq[Max(s)])
                      ELSE Begun(h[s \ {Max(s)}], seq[Max(s)])
    <3>1. Max(s) \in s
      BY <1>2, <2>2, MaxIs
    <3>2. seq[Max(s)] \in M
      BY <1>2, <3>1
    <3> QED BY <1>4, <1>9, <2>2, <3>2 DEF SpansGrow
  <2> QED BY <1>1, <1>2, <1>5, <2>1, <2>2, JoinedIfSo
<1>11. n \in 0 .. n /\ DOMAIN seq = 1 .. n
  BY <1>2
<1> QED BY <1>1, <1>2, <1>5, <1>8, <1>10, <1>11, JoinedIsCut

\* Each place of the sequence is in one run, and what a run holds comes from there.
InRun(cut, k, p) == cut[k] <= p /\ p < cut[k + 1]

LEMMA CutHolds ==
    ASSUME NEW M, NEW seq, NEW all, NEW n, NEW i, NEW cut, Cut(all, seq, M, n, i, cut)
    PROVE  /\ \A k \in 1 .. n : \A j \in 1 .. Len(all[k]) : \E p \in 1 .. i : InRun(cut, k, p) /\ all[k][j] = seq[p]
           /\ \A p \in 1 .. i : \E k \in 1 .. n : \E j \in 1 .. Len(all[k]) : InRun(cut, k, p) /\ all[k][j] = seq[p]
           /\ \A p \in 1 .. i : \A k, l \in 1 .. n : InRun(cut, k, p) /\ InRun(cut, l, p) => k = l
           /\ \A k \in 1 .. n : DOMAIN all[k] = 1 .. Len(all[k])
<1>1. /\ n \in Nat /\ i \in Nat /\ all \in Seq(Seq(M)) /\ Len(all) = n
      /\ cut \in [1 .. (n + 1) -> 1 .. (i + 1)]
      /\ \A k, l \in 1 .. (n + 1) : k < l => cut[k] < cut[l]
      /\ \A k \in 1 .. n : Len(all[k]) = cut[k + 1] - cut[k]
      /\ \A k \in 1 .. n : \A j \in 1 .. Len(all[k]) : all[k][j] = seq[cut[k] + j - 1]
  BY DEF Cut
<1>2. ASSUME NEW k \in 1 .. n
      PROVE  k \in 1 .. (n + 1) /\ k + 1 \in 1 .. (n + 1) /\ cut[k] \in 1 .. (i + 1) /\ cut[k + 1] \in 1 .. (i + 1)
  <2>1. k \in 1 .. (n + 1) /\ k + 1 \in 1 .. (n + 1)
    BY <1>1
  <2> QED BY <1>1, <2>1
<1>3. ASSUME NEW k \in 1 .. n, NEW j \in 1 .. Len(all[k])
      PROVE  \E p \in 1 .. i : InRun(cut, k, p) /\ all[k][j] = seq[p]
  <2>1. PICK c, d \in 1 .. (i + 1) : c = cut[k] /\ d = cut[k + 1]
    BY <1>2
  <2>2. j \in 1 .. (d - c)
    BY <1>1, <2>1
  <2>3. (c + j) - 1 \in 1 .. i /\ c <= (c + j) - 1 /\ (c + j) - 1 < d /\ c + j - 1 = (c + j) - 1
    BY <1>1, <2>2
  <2>4. all[k][j] = seq[(c + j) - 1]
    BY <1>1, <2>1, <2>3
  <2> QED BY <2>1, <2>3, <2>4 DEF InRun
<1>4. ASSUME NEW p \in 1 .. i
      PROVE  \E k \in 1 .. n : \E j \in 1 .. Len(all[k]) : InRun(cut, k, p) /\ all[k][j] = seq[p]
  <2>1. PICK k \in 1 .. n : cut[k] <= p /\ p < cut[k + 1]
    BY DEF Cut
  <2>2. PICK c, d \in 1 .. (i + 1) : c = cut[k] /\ d = cut[k + 1]
    BY <1>2
  <2>3. PICK j \in 1 .. (d - c) : j = (p - c) + 1 /\ (c + j) - 1 = p /\ c + j - 1 = p
    <3>1. c \in Nat /\ d \in Nat /\ p \in Nat /\ c <= p /\ p < d
      <4>1. c \in Nat /\ d \in Nat /\ p \in Nat
        BY <1>1
      <4>2. c <= p /\ p < d
        BY <2>1, <2>2
      <4> QED BY <4>1, <4>2
    <3>2. (p - c) + 1 \in 1 .. (d - c) /\ (c + ((p - c) + 1)) - 1 = p
      BY <3>1
    <3>3. c + ((p - c) + 1) - 1 = p
      BY <3>1
    <3> QED BY <3>2, <3>3
  <2>4. j \in 1 .. Len(all[k])
    BY <1>1, <2>2
  <2>5. all[k][j] = seq[p]
    BY <1>1, <2>2, <2>3, <2>4
  <2> QED BY <2>1, <2>4, <2>5 DEF InRun
<1>5. ASSUME NEW p \in 1 .. i, NEW k \in 1 .. n, NEW l \in 1 .. n, InRun(cut, k, p), InRun(cut, l, p)
      PROVE  ~(k < l)
  <2>1. SUFFICES ASSUME k < l PROVE FALSE
    OBVIOUS
  <2>2. k + 1 \in 1 .. (n + 1) /\ l \in 1 .. (n + 1)
    BY <1>2
  <2>3. cut[k + 1] <= cut[l]
    <3>1. CASE k + 1 = l
      BY <1>2, <3>1
    <3>2. CASE k + 1 # l
      <4>1. k + 1 < l
        BY <2>1, <3>2
      <4>2. cut[k + 1] < cut[l]
        BY <1>1, <2>2, <4>1
      <4> QED BY <1>1, <2>2, <4>2
    <3> QED BY <3>1, <3>2
  <2>4. cut[k + 1] \in Nat /\ cut[l] \in Nat /\ p \in Nat
    BY <1>1, <2>2
  <2> QED BY <1>5, <2>3, <2>4 DEF InRun
<1>6. ASSUME NEW p \in 1 .. i, NEW k \in 1 .. n, NEW l \in 1 .. n, InRun(cut, k, p), InRun(cut, l, p)
      PROVE  k = l
  <2>1. ~(k < l) /\ ~(l < k)
    BY <1>5, <1>6
  <2> QED BY <2>1
<1>7. \A k \in 1 .. n : DOMAIN all[k] = 1 .. Len(all[k])
  BY <1>1
<1> QED BY <1>3, <1>4, <1>6, <1>7

\* Every message is a window's own, and a window shows none but those of its range.
LEMMA WindowsTile ==
    ASSUME NEW ids \in SUBSET Rows, IsFiniteSet(ids)
    PROVE  /\ \A w \in Windows(ids) : w.members \subseteq ids
           /\ \A m \in ids : \E w \in Windows(ids) : m \in Own(w)
<1>1. PICK n, b, turns, spans : n = Cardinality(ids) /\ b = ByTime(ids) /\ turns = Turns(ids) /\ spans = Spans(ids)
  OBVIOUS
<1>2. TimeOrdered(ids, n, b)
  BY <1>1, ByTimeIs
<1>3. PICK k, tcut : Cut(turns, b, ids, k, n, tcut)
  BY <1>1, TurnsAre
<1>4. k \in Nat /\ turns \in Seq(Seq(ids)) /\ Len(turns) = k
  BY <1>3 DEF Cut
<1>5. PICK q, scut : Cut(spans, turns, Seq(ids), q, k, scut)
  BY <1>1, <1>4, SpansAre
<1>6. q \in Nat /\ spans \in Seq(Seq(Seq(ids))) /\ Len(spans) = q /\ DOMAIN spans = 1 .. q
  BY <1>5 DEF Cut
<1>14. /\ \A s \in 1 .. q : \A j \in 1 .. Len(spans[s]) : \E t \in 1 .. k : InRun(scut, s, t) /\ spans[s][j] = turns[t]
       /\ \A t \in 1 .. k : \E s \in 1 .. q : \E j \in 1 .. Len(spans[s]) : InRun(scut, s, t) /\ spans[s][j] = turns[t]
       /\ \A t \in 1 .. k : \A s, r \in 1 .. q : InRun(scut, s, t) /\ InRun(scut, r, t) => s = r
       /\ \A s \in 1 .. q : DOMAIN spans[s] = 1 .. Len(spans[s])
  BY ONLY <1>5, CutHolds
<1>15. /\ \A t \in 1 .. k : \A x \in 1 .. Len(turns[t]) : \E p \in 1 .. n : InRun(tcut, t, p) /\ turns[t][x] = b[p]
       /\ \A p \in 1 .. n : \E t \in 1 .. k : \E x \in 1 .. Len(turns[t]) : InRun(tcut, t, p) /\ turns[t][x] = b[p]
       /\ \A p \in 1 .. n : \A t, u \in 1 .. k : InRun(tcut, t, p) /\ InRun(tcut, u, p) => t = u
       /\ \A t \in 1 .. k : DOMAIN turns[t] = 1 .. Len(turns[t])
  BY ONLY <1>3, CutHolds
<1> DEFINE inSpan(s) == UNION {ToSet(spans[s][j]) : j \in DOMAIN spans[s]}
\* The place of a message of a span.
<1>7. ASSUME NEW s \in 1 .. q, NEW m \in inSpan(s)
      PROVE  \E p \in 1 .. n, t \in 1 .. k : b[p] = m /\ InRun(tcut, t, p) /\ InRun(scut, s, t)
  <2>1. PICK j \in DOMAIN spans[s] : m \in ToSet(spans[s][j])
    OBVIOUS
  <2>2. PICK t \in 1 .. k : InRun(scut, s, t) /\ spans[s][j] = turns[t]
    <3>1. j \in 1 .. Len(spans[s])
      BY <1>14, <2>1
    <3> QED BY <1>14, <3>1
  <2>3. PICK x \in DOMAIN turns[t] : m = turns[t][x]
    BY <2>1, <2>2 DEF ToSet
  <2>4. PICK p \in 1 .. n : InRun(tcut, t, p) /\ turns[t][x] = b[p]
    <3>1. x \in 1 .. Len(turns[t])
      BY <1>15, <2>3
    <3> QED BY <1>15, <3>1
  <2> QED BY <2>2, <2>3, <2>4
<1>8. ASSUME NEW s \in 1 .. q, NEW r \in 1 .. q, s # r PROVE inSpan(s) \cap inSpan(r) = {}
  <2>1. SUFFICES ASSUME NEW m \in inSpan(s) \cap inSpan(r) PROVE FALSE
    OBVIOUS
  <2>2. m \in inSpan(s) /\ m \in inSpan(r)
    OBVIOUS
  <2> HIDE DEF inSpan
  <2>3. PICK p \in 1 .. n, t \in 1 .. k : b[p] = m /\ InRun(tcut, t, p) /\ InRun(scut, s, t)
    BY <1>7, <2>2
  <2>4. PICK p2 \in 1 .. n, t2 \in 1 .. k : b[p2] = m /\ InRun(tcut, t2, p2) /\ InRun(scut, r, t2)
    BY <1>7, <2>2
  <2>5. p = p2
    <3>1. m \in Rows /\ At[m] \in Nat
      BY <1>2, <2>3, ConversationAssumption DEF TimeOrdered
    <3>2. ~(p < p2) /\ ~(p2 < p)
      BY <1>2, <2>3, <2>4, <3>1 DEF TimeOrdered
    <3>3. n \in Nat
      BY <1>2 DEF TimeOrdered
    <3> QED BY <3>2, <3>3
  <2>6. t = t2
    BY <1>15, <2>3, <2>4, <2>5
  <2>7. s = r
    BY <1>14, <2>3, <2>4, <2>6
  <2> QED BY <1>8, <2>7
<1>9. ASSUME NEW s \in 1 .. q
      PROVE  /\ spans[s] \in Seq(Seq(ids)) /\ ToSet(FlattenSeq(spans[s])) = inSpan(s) /\ inSpan(s) \subseteq ids
  <2>1. spans[s] \in Seq(Seq(ids))
    BY <1>6
  <2>2. FlattenSeq(spans[s]) \in Seq(ids) /\ ToSet(FlattenSeq(spans[s])) = inSpan(s)
    BY <2>1, FlattenedIs
  <2>3. ToSet(FlattenSeq(spans[s])) \subseteq ids
    BY <2>2 DEF ToSet
  <2> QED BY <2>1, <2>2, <2>3
<1>10. ASSUME NEW s \in 1 .. q
       PROVE  Prefix(spans, s) \subseteq ids /\ Prefix(spans, s) \cap inSpan(s) = {}
  <2>1. CASE s = 1
    BY <2>1 DEF Prefix
  <2>2. CASE s # 1
    <3>1. PICK r \in 1 .. q : r = s - 1 /\ r # s
      BY <1>6, <2>2
    <3>2. PICK few, flat, pre : /\ few = LastN(spans[r], OverlapTurns) /\ flat = FlattenSeq(few)
                                /\ pre = LastN(flat, MaxPrefix)
      OBVIOUS
    <3>3. OverlapTurns \in Nat /\ MaxPrefix \in Nat
      BY ReadingAssumption
    <3>4. few \in Seq(Seq(ids)) /\ ToSet(few) \subseteq ToSet(spans[r])
      BY <1>9, <3>2, <3>3, LastFew
    <3>5. flat \in Seq(ids) /\ ToSet(flat) = UNION {ToSet(few[i]) : i \in DOMAIN few}
      BY <3>2, <3>4, FlattenedIs
    <3>6. pre \in Seq(ids) /\ ToSet(pre) \subseteq ToSet(flat)
      BY <3>2, <3>3, <3>5, LastFew
    <3>7. Prefix(spans, s) = ToSet(pre)
      BY <2>2, <3>1, <3>2 DEF Prefix
    <3>8. ToSet(flat) \subseteq inSpan(r)
      <4>1. ASSUME NEW i \in DOMAIN few, NEW m \in ToSet(few[i]) PROVE m \in inSpan(r)
        <5>1. few[i] \in ToSet(spans[r])
          BY <3>4 DEF ToSet
        <5>2. PICK j \in DOMAIN spans[r] : few[i] = spans[r][j]
          BY <5>1 DEF ToSet
        <5> QED BY <4>1, <5>2
      <4> HIDE DEF inSpan
      <4> QED BY <3>5, <4>1
    <3> HIDE DEF inSpan
    <3> QED BY <1>8, <1>9, <3>1, <3>6, <3>7, <3>8
  <2> QED BY <2>1, <2>2
<1>11. Windows(ids) = {[prefix |-> Prefix(spans, s), members |-> Prefix(spans, s) \cup ToSet(FlattenSeq(spans[s]))] :
                          s \in 1 .. q}
  BY <1>1, <1>6 DEF Windows
<1>12. ASSUME NEW w \in Windows(ids) PROVE w.members \subseteq ids
  <2>1. PICK s \in 1 .. q : w = [prefix |-> Prefix(spans, s), members |-> Prefix(spans, s) \cup ToSet(FlattenSeq(spans[s]))]
    BY <1>11
  <2> HIDE DEF inSpan
  <2>2. w.members = Prefix(spans, s) \cup inSpan(s)
    BY <1>9, <2>1
  <2> QED BY <1>9, <1>10, <2>2
<1>13. ASSUME NEW m \in ids PROVE \E w \in Windows(ids) : m \in Own(w)
  <2>1. PICK p \in 1 .. n : b[p] = m
    BY <1>2 DEF TimeOrdered
  <2>2. PICK t \in 1 .. k : \E x \in 1 .. Len(turns[t]) : turns[t][x] = m
    BY <1>15, <2>1
  <2>3. m \in ToSet(turns[t])
    BY <1>15, <2>2 DEF ToSet
  <2>4. PICK s \in 1 .. q : \E j \in 1 .. Len(spans[s]) : spans[s][j] = turns[t]
    BY <1>14
  <2>5. m \in inSpan(s)
    BY <1>14, <2>3, <2>4
  <2> HIDE DEF inSpan
  <2>6. PICK w : w = [prefix |-> Prefix(spans, s), members |-> Prefix(spans, s) \cup ToSet(FlattenSeq(spans[s]))]
    OBVIOUS
  <2>7. w \in Windows(ids) /\ w.prefix = Prefix(spans, s) /\ w.members = Prefix(spans, s) \cup inSpan(s)
    BY <1>9, <1>11, <2>6
  <2> QED BY <1>10, <2>5, <2>7 DEF Own
<1> QED BY <1>12, <1>13

-----------------------------------------------------------------------------
(* What is scored.  A job of the lens owns messages; a validated result of it *)
(* names each of them, and what has a result was cut before it was ingested. *)

\* A sequence cut to the rows there are keeps each of them.
LEMMA KeptIdsAre ==
    ASSUME NEW M, NEW ids \in Seq(M), NEW valid
    PROVE  \A m \in ToSet(ids) \cap valid : m \in ToSet(KeptIds(ids, valid))
<1> DEFINE places == {i \in DOMAIN ids : ids[i] \in valid}
<1>1. PICK n \in Nat : DOMAIN ids = 1 .. n
  OBVIOUS
<1>2. places \in SUBSET Nat /\ IsFiniteSet(places)
  <2>1. places \in SUBSET (1 .. n)
    BY <1>1
  <2> HIDE DEF places
  <2>2. IsFiniteSet(1 .. n)
    BY FS_Interval
  <2>3. IsFiniteSet(places)
    BY <2>1, <2>2, FS_Subset
  <2> QED BY <2>1, <2>3
<1>3. KeptIds(ids, valid) = AtPlaces(ids, places)
  BY DEF KeptIds
<1>4. TAKE m \in ToSet(ids) \cap valid
<1>5. PICK i \in places : ids[i] = m
  BY DEF ToSet
<1> HIDE DEF places
<1>6. PICK k \in 1 .. Cardinality(places) : InOrder(places)[k] = i
  BY <1>2, <1>5, InOrderIs
<1>7. PICK kept : kept = KeptIds(ids, valid)
  OBVIOUS
<1>8. kept = [j \in 1 .. Cardinality(places) |-> ids[InOrder(places)[j]]]
  BY <1>3, <1>7 DEF AtPlaces
<1>9. k \in DOMAIN kept /\ kept[k] = m
  BY <1>5, <1>6, <1>8
<1> QED BY <1>7, <1>9 DEF ToSet

\* An engine scores messages in a sequence.
Scores(p) ==
    /\ p = [messages |-> p.messages, notes |-> p.notes, about |-> p.about]
    /\ p.messages \in Seq(Rows)

OfRows(h) == h.lens = "l1" => DOMAIN h.shown \subseteq Rows

\* The messages of a job are there, and what is its own is scored by its result.
ScoresFit(air) ==
    /\ \A h \in DOMAIN air.jobs : h.lens = "l1" => air.jobs[h].chunk.members \subseteq Here
    /\ \A h \in DOMAIN air.files : OfRows(h)
    /\ \A h \in DOMAIN air.results :
          h.lens = "l1" /\ air.results[h].payload # Blank => Scores(air.results[h].payload)
    /\ \A h \in DOMAIN air.cache :
          h.lens = "l1" /\ air.cache[h] # Blank => Own(air.jobs[h].chunk) \subseteq ToSet(air.cache[h].messages)

ScoresInv == ScoresFit(Air) /\ \A r \in Readers : \A h \in DOMAIN todo[r] : OfRows(h)

\* What the coverage gate lets through is kept by the resolution.
LEMMA IngestedScores ==
    ASSUME NEW air, AirFits(air), ScoresFit(air)
    PROVE  ScoresFit(Ingested(air))
<1> DEFINE known == DOMAIN air.results \cap DOMAIN air.jobs
           verdict == [h \in known |-> Verdict(air, h)]
           kept == {k \in known : verdict[k] # "error"}
           Stored(h) == IF verdict[h] = "refused" THEN Blank
                        ELSE Resolve(h.lens, air.results[h].payload, Resolvable(air, h))
           out == Ingested(air)
<1>1. /\ out.jobs = Merged([h \in known |-> [air.jobs[h] EXCEPT !.status = verdict[h]]], air.jobs)
      /\ out.cache = Merged([h \in kept |-> Stored(h)], air.cache)
      /\ out.files = Restrict(air.files, DOMAIN air.files \ known)
      /\ out.results = <<>>
  BY DEF Ingested
<1>2. /\ DOMAIN out.jobs = DOMAIN air.jobs
      /\ \A h \in DOMAIN air.jobs : out.jobs[h].chunk = air.jobs[h].chunk
  <2>1. DOMAIN out.jobs = DOMAIN air.jobs
    BY <1>1 DEF Merged
  <2>2. ASSUME NEW h \in DOMAIN air.jobs PROVE out.jobs[h].chunk = air.jobs[h].chunk
    <3>1. PICK job, s : job = air.jobs[h] /\ s = verdict[h]
      OBVIOUS
    <3>2. job = [chunk |-> job.chunk, status |-> job.status]
      BY <3>1 DEF AirFits, JobsFit
    <3>3. [job EXCEPT !.status = s].chunk = job.chunk
      BY <3>2
    <3>4. out.jobs[h] = IF h \in known THEN [air.jobs[h] EXCEPT !.status = verdict[h]] ELSE air.jobs[h]
      BY <1>1, SMTT(30) DEF Merged
    <3> QED BY <3>1, <3>3, <3>4
  <2> QED BY <2>1, <2>2
<1>3. /\ DOMAIN out.cache = kept \cup DOMAIN air.cache
      /\ \A h \in kept : out.cache[h] = Stored(h)
      /\ \A h \in DOMAIN air.cache \ kept : out.cache[h] = air.cache[h]
  BY <1>1 DEF Merged
<1>4. ASSUME NEW h \in kept, h.lens = "l1", Stored(h) # Blank
      PROVE  Own(air.jobs[h].chunk) \subseteq ToSet(Stored(h).messages)
  <2>1. PICK p, valid, chunk : /\ p = air.results[h].payload /\ valid = Resolvable(air, h)
                               /\ chunk = air.jobs[h].chunk
    OBVIOUS
  <2>2. verdict[h] = "done" /\ Stored(h) = Resolve("l1", p, valid)
    BY <1>4, <2>1 DEF Verdict
  <2>3. p # Blank /\ L1Coverage(p, chunk)
    BY <1>4, <2>1, <2>2 DEF Verdict, Good, LensValid
  <2>4. Scores(p)
    BY <1>4, <2>1, <2>3 DEF ScoresFit
  <2>5. Own(chunk) \subseteq ToSet(p.messages)
    BY <2>3 DEF L1Coverage, Own
  <2>6. Own(chunk) \subseteq valid
    BY <1>4, <2>1 DEF ScoresFit, Resolvable, Own
  <2>7. Own(chunk) \subseteq ToSet(KeptIds(p.messages, valid))
    BY <2>4, <2>5, <2>6, KeptIdsAre DEF Scores
  <2>8. PICK x, y : x = KeptIds(p.messages, valid) /\ y = KeptSets(p.notes, valid)
    OBVIOUS
  <2>9. Resolve("l1", p, valid) = [p EXCEPT !.messages = x, !.notes = y]
    BY <2>8 DEF Resolve
  <2>10. [p EXCEPT !.messages = x, !.notes = y].messages = x
    BY <2>4 DEF Scores
  <2> QED BY <2>1, <2>2, <2>7, <2>8, <2>9, <2>10
<1>5. \A h \in kept : h \in DOMAIN air.jobs
  OBVIOUS
<1>6. \A h \in DOMAIN air.cache : h \in DOMAIN air.jobs
  BY DEF AirFits, CacheFit
<1> HIDE DEF out, kept, Stored
<1>7. ASSUME NEW h \in DOMAIN out.cache, h.lens = "l1", out.cache[h] # Blank
      PROVE  Own(out.jobs[h].chunk) \subseteq ToSet(out.cache[h].messages)
  <2>1. CASE h \in kept
    BY <1>2, <1>3, <1>4, <1>5, <1>7, <2>1
  <2>2. CASE h \notin kept
    BY <1>2, <1>3, <1>6, <1>7, <2>2 DEF ScoresFit
  <2> QED BY <2>1, <2>2
<1>8. \A h \in DOMAIN out.jobs : h.lens = "l1" => out.jobs[h].chunk.members \subseteq Here
  BY <1>2 DEF ScoresFit
<1>9. \A h \in DOMAIN out.files : OfRows(h)
  BY <1>1 DEF ScoresFit, Restrict
<1>10. DOMAIN out.results = {}
  BY <1>1
<1> QED BY <1>7, <1>8, <1>9, <1>10 DEF ScoresFit, out

\* A request writes jobs of other lenses.
LEMMA InsertedScores ==
    ASSUME NEW air, AirFits(air), ScoresFit(air), NEW h, h.lens # "l1", NEW chunk, NEW shown
    PROVE  ScoresFit(Inserted(air, h, chunk, shown))
<1> DEFINE out == Inserted(air, h, chunk, shown)
<1>1. /\ out.jobs = Merged(air.jobs, [k \in {h} |-> [chunk |-> chunk, status |-> "pending"]])
      /\ out.cache = air.cache
      /\ out.files = Merged(air.files, [k \in {h} |-> shown])
      /\ out.results = air.results
  BY DEF Inserted
<1> HIDE DEF out
<1>2. /\ DOMAIN out.jobs = DOMAIN air.jobs \cup {h}
      /\ \A k \in DOMAIN air.jobs : out.jobs[k] = air.jobs[k]
      /\ DOMAIN out.files = DOMAIN air.files \cup {h}
  BY <1>1 DEF Merged
<1>3. \A k \in DOMAIN air.cache : k \in DOMAIN air.jobs
  BY DEF AirFits, CacheFit
<1>4. \A k \in DOMAIN out.jobs : k.lens = "l1" => out.jobs[k].chunk.members \subseteq Here
  BY <1>2 DEF ScoresFit
<1>5. \A k \in DOMAIN out.files : OfRows(k)
  BY <1>2 DEF ScoresFit, OfRows
<1>6. \A k \in DOMAIN out.cache :
         k.lens = "l1" /\ out.cache[k] # Blank => Own(out.jobs[k].chunk) \subseteq ToSet(out.cache[k].messages)
  BY <1>1, <1>2, <1>3 DEF ScoresFit
<1>7. \A k \in DOMAIN out.results :
         k.lens = "l1" /\ out.results[k].payload # Blank => Scores(out.results[k].payload)
  BY <1>1 DEF ScoresFit
<1> QED BY <1>4, <1>5, <1>6, <1>7 DEF ScoresFit, out

LEMMA OutcomeScores ==
    ASSUME NEW air, AirFits(air), ScoresFit(air), NEW req, NEW h
    PROVE  /\ ScoresFit(AfterRender(air, req, h).air)
           /\ ScoresFit(AfterReduce(air, req, h).air)
           /\ ScoresFit(AfterGates(air, req).air)
<1>1. ASSUME NEW q, NEW k PROVE AfterRender(air, q, k).air = air
  BY DEF AfterRender, Frozen, Declined
<1>2. ASSUME NEW q, NEW k PROVE ScoresFit(AfterReduce(air, q, k).air)
  <2> DEFINE next == Hash("render", air.cache[k])
  <2>1. next.lens # "l1"
    BY DEF Hash
  <2>2. \/ AfterReduce(air, q, k).air = air
        \/ AfterReduce(air, q, k).air = Inserted(air, next, MembersOf(q), air.cache[k])
    BY <1>1 DEF AfterReduce, Declined, Awaiting
  <2> HIDE DEF next
  <2> QED BY <2>1, <2>2, InsertedScores
<1>3. ScoresFit(AfterGates(air, req).air)
  <2> DEFINE first == Hash("reduce", Material(req.range))
  <2>1. first.lens # "l1"
    BY DEF Hash
  <2>2. CASE first \in DOMAIN air.cache
    BY <1>2, <2>2 DEF AfterGates
  <2>3. CASE first \notin DOMAIN air.cache
    <3>1. AfterGates(air, req).air = Inserted(air, first, MembersOf(req), Material(req.range))
      BY <2>3 DEF AfterGates, Awaiting
    <3> HIDE DEF first
    <3> QED BY <2>1, <3>1, InsertedScores
  <2> QED BY <2>2, <2>3
<1> QED BY <1>1, <1>2, <1>3

LEMMA LeavesScores ==
    ASSUME ScoresInv, NEW r \in Readers, NEW o, o.air = [jobs |-> o.air.jobs, cache |-> o.air.cache, files |-> o.air.files, results |-> o.air.results],
           todo = [q \in Readers |-> todo[q]], ScoresFit(o.air), Leaves(r, o)
    PROVE  ScoresInv'
<1>1. rows' = rows /\ Air' = o.air
  BY DEF Leaves, Becomes, Air
<1>2. PICK air : air = o.air
  OBVIOUS
<1>3. ScoresFit(air)'
  BY <1>1, <1>2 DEF ScoresFit, Here
<1>4. ScoresFit(Air)'
  BY <1>1, <1>2, <1>3 DEF ScoresFit
<1>5. PICK T : todo' = [todo EXCEPT ![r] = T] /\ \A h \in DOMAIN T : OfRows(h)
  <2>1. CASE o.stage = "idle"
    <3>1. PICK T : T = <<>> /\ DOMAIN T = {}
      OBVIOUS
    <3> QED BY <2>1, <3>1 DEF Leaves
  <2>2. CASE o.stage # "idle"
    <3>1. PICK hashes \in Batches(o.air) : todo' = [todo EXCEPT ![r] = Restrict(o.air.files, hashes)]
      BY <2>2 DEF Leaves
    <3>2. hashes \subseteq DOMAIN o.air.files
      BY <3>1 DEF Batches
    <3>3. DOMAIN Restrict(o.air.files, hashes) = hashes
      BY DEF Restrict
    <3> QED BY <3>1, <3>2, <3>3 DEF ScoresFit
  <2> QED BY <2>1, <2>2
<1>6. (\A q \in Readers : \A h \in DOMAIN todo[q] : OfRows(h))'
  BY <1>5 DEF ScoresInv, OfRows
<1> QED BY <1>4, <1>6 DEF ScoresInv

\* A window that is planned is of rows that are there.
LEMMA AnalyseScores ==
    ASSUME ReadingInv, ScoresInv, NEW range \in Planned, Analyse(range)
    PROVE  ScoresInv'
<1> DEFINE toRun == {w \in Windows(Within(range)) : Hash("l1", Shown(w.members)) \notin DOMAIN cache}
           WindowOf(h) == CHOOSE w \in toRun : Hash("l1", Shown(w.members)) = h
           hashes == {Hash("l1", Shown(w.members)) : w \in toRun}
           row(h) == [chunk |-> WindowOf(h), status |-> "pending"]
<1>1. /\ jobs' = Merged(jobs, [h \in hashes |-> row(h)])
      /\ files' = Merged(files, [h \in hashes |-> Shown(WindowOf(h).members)])
      /\ UNCHANGED <<rows, cache, results, todo>>
  BY DEF Analyse, readerVars
<1>2. ASSUME NEW h \in hashes
      PROVE  row(h).chunk.members \subseteq Here /\ DOMAIN h.shown \subseteq Rows
  <2>1. \E w \in toRun : Hash("l1", Shown(w.members)) = h
    OBVIOUS
  <2>2. WindowOf(h) \in toRun /\ Hash("l1", Shown(WindowOf(h).members)) = h
    BY <2>1
  <2>3. WindowOf(h) \in Windows(Within(range))
    BY <2>2
  <2>4. row(h).chunk = WindowOf(h)
    OBVIOUS
  <2> HIDE DEF WindowOf, row
  <2>5. PICK here : here = Within(range) /\ here \in SUBSET Rows /\ IsFiniteSet(here) /\ here \subseteq Here
    BY ChaptersAssumption, FS_Subset DEF Within, Here
  <2>6. WindowOf(h).members \subseteq here
    BY <2>3, <2>5, WindowsTile
  <2>7. DOMAIN h.shown = WindowOf(h).members
    BY <2>2 DEF Hash, Shown
  <2> QED BY <2>4, <2>5, <2>6, <2>7
<1> HIDE DEF hashes, row, WindowOf
<1>3. /\ DOMAIN jobs' = DOMAIN jobs \cup hashes
      /\ \A h \in DOMAIN jobs : jobs'[h] = jobs[h]
      /\ \A h \in hashes \ DOMAIN jobs : jobs'[h] = row(h)
      /\ DOMAIN files' = DOMAIN files \cup hashes
  BY <1>1 DEF Merged
<1>4. /\ Here' = Here
      /\ Air.jobs = jobs /\ Air.cache = cache /\ Air.files = files /\ Air.results = results
      /\ Air'.jobs = jobs' /\ Air'.cache = cache /\ Air'.files = files' /\ Air'.results = results
  BY <1>1 DEF Here, Air
<1>5. \A h \in DOMAIN cache : h \in DOMAIN jobs
  BY <1>4 DEF ReadingInv, AirFits, CacheFit
<1>6. \A h \in DOMAIN jobs' : h.lens = "l1" => jobs'[h].chunk.members \subseteq Here
  BY <1>2, <1>3, <1>4 DEF ScoresInv, ScoresFit
<1>7. \A h \in DOMAIN files' : OfRows(h)
  BY <1>2, <1>3, <1>4 DEF ScoresInv, ScoresFit, OfRows
<1>8. \A h \in DOMAIN cache :
         h.lens = "l1" /\ cache[h] # Blank => Own(jobs'[h].chunk) \subseteq ToSet(cache[h].messages)
  BY <1>3, <1>4, <1>5 DEF ScoresInv, ScoresFit
<1>9. \A h \in DOMAIN results : h.lens = "l1" /\ results[h].payload # Blank => Scores(results[h].payload)
  BY <1>4 DEF ScoresInv, ScoresFit
<1>10. ScoresFit(Air)'
  BY <1>4, <1>6, <1>7, <1>8, <1>9 DEF ScoresFit
<1>11. (\A q \in Readers : \A h \in DOMAIN todo[q] : OfRows(h))'
  BY <1>1 DEF ScoresInv, OfRows
<1> QED BY <1>10, <1>11 DEF ScoresInv

\* An engine scores what it was shown, or leaves one message out.
LEMMA WriteScores ==
    ASSUME ScoresInv, NEW h, OfRows(h), Write(h, h.shown), UNCHANGED <<rows, jobs, cache, files>>
    PROVE  ScoresFit(Air)'
<1>1. PICK env \in Answers(h, h.shown) :
         results' = [k \in DOMAIN results \cup {h} |-> IF k = h THEN env ELSE results[k]]
  BY DEF Write
<1>2. ASSUME h.lens = "l1", env.payload # Blank PROVE Scores(env.payload)
  <2>1. env.payload \in L1Answers(h.shown)
    BY <1>2 DEF Answers, Payloads
  <2>2. PICK S, x \in SUBSET DOMAIN h.shown :
           S = x /\ env.payload = [messages |-> ByTime(S), notes |-> <<>>, about |-> h.shown]
    BY <2>1 DEF L1Answers
  <2>3. S \in SUBSET Rows /\ IsFiniteSet(S)
    BY <1>2, <2>2, ChaptersAssumption, FS_Subset DEF OfRows
  <2>4. PICK n \in Nat : ByTime(S) \in [1 .. n -> S]
    BY <2>3, ByTimeIs DEF TimeOrdered
  <2>5. PICK b : b = ByTime(S) /\ b \in Seq(Rows)
    BY <2>3, <2>4
  <2>6. env.payload = [messages |-> b, notes |-> <<>>, about |-> h.shown]
    BY <2>2, <2>5
  <2>7. env.payload.messages = b /\ env.payload.notes = <<>> /\ env.payload.about = h.shown
    BY <2>6
  <2> QED BY <2>5, <2>6, <2>7 DEF Scores
<1>3. \A k \in DOMAIN results' : k.lens = "l1" /\ results'[k].payload # Blank => Scores(results'[k].payload)
  BY <1>1, <1>2 DEF ScoresInv, ScoresFit, Air
<1>4. /\ Air.jobs = jobs /\ Air.cache = cache /\ Air.files = files
      /\ Air'.jobs = jobs /\ Air'.cache = cache /\ Air'.files = files /\ Air'.results = results' /\ Here' = Here
  BY DEF Air, Here
<1>5. /\ \A k \in DOMAIN jobs : k.lens = "l1" => jobs[k].chunk.members \subseteq Here
      /\ \A k \in DOMAIN files : OfRows(k)
      /\ \A k \in DOMAIN cache :
            k.lens = "l1" /\ cache[k] # Blank => Own(jobs[k].chunk) \subseteq ToSet(cache[k].messages)
  BY <1>4 DEF ScoresInv, ScoresFit
<1> QED BY <1>3, <1>4, <1>5 DEF ScoresFit

\* What touches no table and gives no drain a job it had not.
LEMMA ScoresStay ==
    ASSUME ScoresInv, Here \subseteq Here', UNCHANGED workVars,
           \A r \in Readers : DOMAIN todo'[r] \subseteq DOMAIN todo[r]
    PROVE  ScoresInv'
<1>1. /\ Air'.jobs = jobs /\ Air'.cache = cache /\ Air'.files = files /\ Air'.results = results
      /\ Air.jobs = jobs /\ Air.cache = cache /\ Air.files = files /\ Air.results = results
  BY DEF Air, workVars
<1>2. /\ \A h \in DOMAIN jobs : h.lens = "l1" => jobs[h].chunk.members \subseteq Here'
      /\ \A h \in DOMAIN files : OfRows(h)
      /\ \A h \in DOMAIN results : h.lens = "l1" /\ results[h].payload # Blank => Scores(results[h].payload)
      /\ \A h \in DOMAIN cache :
            h.lens = "l1" /\ cache[h] # Blank => Own(jobs[h].chunk) \subseteq ToSet(cache[h].messages)
  BY <1>1 DEF ScoresInv, ScoresFit
<1>3. ScoresFit(Air)'
  BY <1>1, <1>2 DEF ScoresFit
<1>4. (\A r \in Readers : \A h \in DOMAIN todo[r] : OfRows(h))'
  BY DEF ScoresInv, OfRows
<1> QED BY <1>3, <1>4 DEF ScoresInv

LEMMA ScoresStep ==
    ASSUME ReadingInv, ScoresInv, ReadingNext
    PROVE  ScoresInv'
<1>1. ASSUME NEW r \in Readers, NEW range \in Ranges, Ask(r, range) PROVE ScoresInv'
  <2>1. PICK air, req : air = Air /\ req = [range |-> range, hash |-> Nothing, about |-> Shown(Within(range))]
    OBVIOUS
  <2>2. PICK o : o = AfterGates(air, req) /\ Leaves(r, o)
    BY <1>1, <2>1 DEF Ask
  <2>3. AirFits(air) /\ ScoresFit(air)
    BY <2>1 DEF ReadingInv, ScoresInv
  <2>4. ScoresFit(o.air)
    BY <2>2, <2>3, OutcomeScores
  <2>5. OutcomeFits(o)
    BY <2>1, <2>2, <2>3, AfterGatesFits
  <2> QED BY <2>2, <2>4, <2>5, LeavesScores DEF OutcomeFits, AirFits, ReadingInv, RequestsFit
<1>2. ASSUME NEW r \in Readers, Resume(r) PROVE ScoresInv'
  <2>1. PICK old, air, req : old = Air /\ air = Ingested(old) /\ req = request[r]
    OBVIOUS
  <2>2. PICK o : /\ o = IF stage[r] = "reduce" THEN AfterReduce(air, req, req.hash) ELSE AfterRender(air, req, req.hash)
                 /\ Leaves(r, o)
    BY <1>2, <2>1 DEF Resume
  <2>3. AirFits(air) /\ ScoresFit(air)
    BY <2>1, IngestedFits, IngestedScores DEF ReadingInv, ScoresInv
  <2>4. ScoresFit(o.air)
    BY <2>2, <2>3, OutcomeScores
  <2>5. RequestFits(stage[r], req) /\ stage[r] # "idle"
    BY <1>2, <2>1 DEF ReadingInv, RequestsFit, Resume
  <2>6. OutcomeFits(o)
    <3>1. CASE stage[r] = "reduce"
      BY <2>2, <2>3, <2>5, <3>1, AfterReduceFits DEF RequestFits
    <3>2. CASE stage[r] # "reduce"
      <4>1. req.hash.lens = "render"
        BY <2>5, <3>2 DEF RequestFits
      <4> QED BY <2>2, <2>3, <3>2, <4>1, AfterRenderFits
    <3> QED BY <3>1, <3>2
  <2> QED BY <2>2, <2>4, <2>6, LeavesScores DEF OutcomeFits, AirFits, ReadingInv, RequestsFit
<1>3. ASSUME NEW r \in Readers, Answer(r) PROVE ScoresInv'
  <2>1. PICK h \in DOMAIN todo[r] : /\ Write(h, todo[r][h])
                                    /\ todo' = [todo EXCEPT ![r] = Restrict(@, DOMAIN @ \ {h})]
    BY <1>3 DEF Answer
  <2>2. todo[r][h] = h.shown /\ OfRows(h) /\ UNCHANGED <<rows, jobs, cache, files>>
    BY <1>3, <2>1 DEF ReadingInv, RequestsFit, ScoresInv, Answer
  <2>3. ScoresFit(Air)'
    BY <2>1, <2>2, WriteScores
  <2>4. PICK T : T = Restrict(todo[r], DOMAIN todo[r] \ {h}) /\ todo' = [todo EXCEPT ![r] = T]
    BY <2>1
  <2>5. DOMAIN T \subseteq DOMAIN todo[r]
    BY <2>4 DEF Restrict
  <2>6. (\A q \in Readers : \A k \in DOMAIN todo[q] : OfRows(k))'
    BY <2>4, <2>5 DEF ScoresInv, OfRows, ReadingInv, RequestsFit
  <2> QED BY <2>3, <2>6 DEF ScoresInv
<1>4. ASSUME NEW r \in Readers, Unreachable(r) PROVE ScoresInv'
  <2>1. todo' = [todo EXCEPT ![r] = <<>>] /\ UNCHANGED <<rows, workVars>>
    BY <1>4 DEF Unreachable, workVars
  <2>2. PICK T : T = <<>> /\ DOMAIN T = {}
    OBVIOUS
  <2>3. todo' = [todo EXCEPT ![r] = T]
    BY <2>1, <2>2
  <2>4. \A q \in Readers : DOMAIN todo'[q] \subseteq DOMAIN todo[q]
    BY <2>2, <2>3 DEF ReadingInv, RequestsFit
  <2>5. Here' = Here
    BY <2>1 DEF Here
  <2> QED BY <2>1, <2>4, <2>5, ScoresStay
<1>5. CASE OtherDrain
  <2>1. PICK h \in DOMAIN files : Write(h, files[h])
    BY <1>5 DEF OtherDrain
  <2>2. files[h] = h.shown /\ OfRows(h)
    BY <2>1 DEF ReadingInv, AirFits, FilesFit, ScoresInv, ScoresFit, Air
  <2>3. UNCHANGED <<rows, jobs, cache, files, todo>>
    BY <1>5 DEF OtherDrain, readerVars
  <2>4. ScoresFit(Air)'
    BY <2>1, <2>2, <2>3, WriteScores
  <2> QED BY <2>3, <2>4 DEF ScoresInv, OfRows
<1>6. CASE IngestRequest
  <2>1. PICK old, air : old = Air /\ air = Ingested(old)
    OBVIOUS
  <2>2. AirFits(air) /\ ScoresFit(air)
    BY <2>1, IngestedFits, IngestedScores DEF ReadingInv, ScoresInv
  <2>3. Air' = air /\ UNCHANGED <<rows, todo>>
    BY <1>6, <2>1, <2>2 DEF IngestRequest, Becomes, Air, AirFits, readerVars
  <2>4. ScoresFit(air)'
    BY <2>2, <2>3 DEF ScoresFit, Here
  <2>5. ScoresFit(Air)'
    BY <2>3, <2>4 DEF ScoresFit
  <2> QED BY <2>3, <2>5 DEF ScoresInv, OfRows
<1>7. ASSUME NEW range \in Planned, Analyse(range) PROVE ScoresInv'
  BY <1>7, AnalyseScores
<1>8. ASSUME NEW ids \in Imports, ImportRows(ids) PROVE ScoresInv'
  <2>1. /\ rows' = [m \in Rows |-> IF m \in ids THEN Words[epochs + 1] ELSE rows[m]]
        /\ ids \cap Here = {} /\ UNCHANGED <<workVars, todo>>
    BY <1>8 DEF ImportRows, readerVars
  <2>2. Here \subseteq Here'
    BY <2>1 DEF Here
  <2> QED BY <2>1, <2>2, ScoresStay
<1>9. CASE Forget
  <2>1. jobs' = <<>> /\ cache' = <<>> /\ files' = <<>> /\ results' = <<>> /\ todo' = todo
    BY <1>9 DEF Forget, readerVars
  <2>2. ScoresFit(Air)'
    BY <2>1 DEF ScoresFit, Air
  <2> QED BY <2>1, <2>2 DEF ScoresInv, OfRows
<1>10. CASE Kill
  <2>1. todo' = [r \in Readers |-> <<>>] /\ UNCHANGED <<rows, workVars>>
    BY <1>10 DEF Kill
  <2>2. \A r \in Readers : DOMAIN todo'[r] = {}
    <3>1. \A r \in Readers : todo'[r] = <<>> /\ DOMAIN <<>> = {}
      BY <2>1
    <3> QED BY <3>1
  <2>3. Here' = Here
    BY <2>1 DEF Here
  <2> QED BY <2>1, <2>2, <2>3, ScoresStay
<1> QED BY <1>1, <1>2, <1>3, <1>4, <1>5, <1>6, <1>7, <1>8, <1>9, <1>10, ReadingNext DEF ReadingNext

LEMMA ScoresInvHolds == Spec => []ScoresInv
<1>1. Init => ScoresInv
  <2> SUFFICES ASSUME Init PROVE ScoresInv
    OBVIOUS
  <2>1. /\ jobs = <<>> /\ cache = <<>> /\ files = <<>> /\ results = <<>>
        /\ \A r \in Readers : todo[r] = <<>>
    BY DEF Init, ReadingInit
  <2> QED BY <2>1 DEF ScoresInv, ScoresFit, Air
<1>2. ReadingInv /\ ScoresInv /\ [Next]_lensesVars => ScoresInv'
  <2> SUFFICES ASSUME ReadingInv, ScoresInv, [Next]_lensesVars PROVE ScoresInv'
    OBVIOUS
  <2>1. CASE ReadingNext
    BY <2>1, ScoresStep
  <2>2. CASE UNCHANGED readingVars
    <3>1. UNCHANGED workVars /\ todo' = todo /\ Here' = Here
      BY <2>2 DEF readingVars, readerVars, Here
    <3> QED BY <3>1, ScoresStay
  <2> QED BY <2>1, <2>2 DEF Next, lensesVars
<1> QED BY <1>1, <1>2, ReadingInvHolds, PTL DEF Spec

\* Whatever is planned, answered late, deleted or imported, and by whichever drain:
\* when each window of a range has a result for the messages it owns, no message of
\* the range reads as neutral for want of a score (plan.ts: planL1;
\* ingestResults.ts: the coverage gate and resolveEvidence).
THEOREM AnsweredIsScored == Spec => []CachedMeansScored
<1>1. ScoresInv => CachedMeansScored
  <2> SUFFICES ASSUME ScoresInv PROVE CachedMeansScored
    OBVIOUS
  <2> SUFFICES ASSUME NEW range \in Planned PROVE (\A w \in Windows(Within(range)) : HasScores(w)) => Within(range) \subseteq Scored
    BY DEF CachedMeansScored
  <2> SUFFICES ASSUME \A w \in Windows(Within(range)) : HasScores(w), NEW m \in Within(range) PROVE m \in Scored
    OBVIOUS
  <2>1. Within(range) \in SUBSET Rows /\ IsFiniteSet(Within(range))
    BY ChaptersAssumption, FS_Subset DEF Within, Here
  <2>2. PICK w \in Windows(Within(range)) : m \in Own(w)
    BY <2>1, WindowsTile
  <2>3. PICK h : h = Hash("l1", Shown(w.members)) /\ h.lens = "l1"
    <3>1. Hash("l1", Shown(w.members)).lens = "l1"
      BY DEF Hash
    <3> QED BY <3>1
  <2>4. h \in DOMAIN cache /\ cache[h] # Blank /\ m \in Own(jobs[h].chunk)
    BY <2>2, <2>3 DEF HasScores, Validated, LensValid, Air
  <2>5. m \in ToSet(cache[h].messages)
    BY <2>3, <2>4 DEF ScoresInv, ScoresFit, Air
  <2> QED BY <2>3, <2>4, <2>5 DEF Scored, L1Results
<1> QED BY <1>1, ScoresInvHolds, PTL

-----------------------------------------------------------------------------
(* Sums and powers.  A fold is a recursive function; that there is one with  *)
(* the values it should have comes from the finite sets it is over.          *)

Tallies(f, h) ==
    h = [s \in SUBSET DOMAIN f |->
            IF s = {} THEN 0 ELSE f[CHOOSE x \in s : TRUE] + h[s \ {CHOOSE x \in s : TRUE}]]

LEMMA TalliesExist ==
    ASSUME NEW f, IsFiniteSet(DOMAIN f), \A x \in DOMAIN f : f[x] \in Nat
    PROVE  \E h : Tallies(f, h)
<1>1. PICK S, pick, op : /\ S = DOMAIN f /\ pick = [s \in SUBSET S |-> CHOOSE x \in s : TRUE]
                         /\ op = [x \in S |-> [a \in Nat |-> f[x] + a]]
  OBVIOUS
<1>2. \A s \in SUBSET S : s # {} => pick[s] \in s
  BY <1>1
<1>3. \A x \in S, a \in Nat : op[x][a] \in Nat /\ op[x][a] = f[x] + a
  BY <1>1
<1>4. IsFiniteSet(S) /\ 0 \in Nat
  BY <1>1
<1>5. Foldable(S, Nat, 0, pick, op)
  BY <1>2, <1>3, <1>4 DEF Foldable
<1>6. PICK h : IsFold(S, Nat, 0, pick, op, h)
  BY <1>5, FoldExists
<1>7. /\ h \in [SUBSET S -> Nat]
      /\ h = [s \in SUBSET S |-> IF s = {} THEN 0 ELSE op[pick[s]][h[s \ {pick[s]}]]]
  BY <1>6 DEF IsFold
<1>8. ASSUME NEW s \in SUBSET S, s # {}
      PROVE  h[s] = f[CHOOSE x \in s : TRUE] + h[s \ {CHOOSE x \in s : TRUE}]
  <2>1. pick[s] \in s /\ pick[s] = CHOOSE x \in s : TRUE
    BY <1>1, <1>2, <1>8
  <2>2. pick[s] \in S /\ h[s \ {pick[s]}] \in Nat
    BY <1>7, <2>1
  <2>3. h[s] = op[pick[s]][h[s \ {pick[s]}]]
    BY <1>7, <1>8
  <2> QED BY <1>3, <2>1, <2>2, <2>3
<1>9. h[{}] = 0 /\ DOMAIN h = SUBSET S
  BY <1>7
<1> DEFINE value(s) == IF s = {} THEN 0 ELSE f[CHOOSE x \in s : TRUE] + h[s \ {CHOOSE x \in s : TRUE}]
<1>10. \A s \in SUBSET S : h[s] = value(s)
  BY <1>8, <1>9
<1>11. h = [s \in SUBSET S |-> value(s)]
  <2> HIDE DEF value
  <2> QED BY <1>7, <1>10
<1> QED BY <1>1, <1>11 DEF Tallies

\* The sum of finitely many numbers, which is greater than nought if they are.
LEMMA SumIs ==
    ASSUME NEW f, IsFiniteSet(DOMAIN f), \A x \in DOMAIN f : f[x] \in Nat
    PROVE  /\ SumOf(f) \in Nat
           /\ DOMAIN f = {} => SumOf(f) = 0
           /\ DOMAIN f # {} /\ (\A x \in DOMAIN f : f[x] > 0) => SumOf(f) > 0
<1>1. PICK S, h : S = DOMAIN f /\ h = CHOOSE g : Tallies(f, g)
  OBVIOUS
<1>2. SumOf(f) = h[S]
  BY <1>1 DEF SumOf, MapThenSumSet, MapThenFoldSet, Tallies
<1>3. Tallies(f, h)
  BY <1>1, TalliesExist
<1>4. /\ h[{}] = 0
      /\ \A s \in SUBSET S : s # {} => h[s] = f[CHOOSE x \in s : TRUE] + h[s \ {CHOOSE x \in s : TRUE}]
  BY <1>1, <1>3 DEF Tallies
<1> DEFINE positive == \A x \in S : f[x] > 0
           good(s) == h[s] \in Nat /\ (s # {} /\ positive => h[s] > 0)
           G == {s \in SUBSET S : good(s)}
<1>5. {} \in G
  BY <1>4
<1>6. ASSUME NEW s \in SUBSET S, s # {} PROVE \E x \in s : s \ {x} \in G => s \in G
  <2>1. PICK x \in s : x = CHOOSE y \in s : TRUE
    BY <1>6
  <2>2. h[s] = f[x] + h[s \ {x}]
    BY <1>4, <1>6, <2>1
  <2>3. f[x] \in Nat /\ (positive => f[x] > 0)
    BY <1>1
  <2>4. ASSUME s \ {x} \in G PROVE s \in G
    <3>1. h[s \ {x}] \in Nat
      BY <2>4
    <3> QED BY <2>2, <2>3, <3>1
  <2> QED BY <2>4
<1>7. IsFiniteSet(S) /\ S \in SUBSET S
  BY <1>1
<1> HIDE DEF G
<1>8. S \in G
  BY <1>5, <1>6, <1>7, OneByOne
<1> USE DEF G
<1> QED BY <1>1, <1>2, <1>4, <1>8

\* A power of two is the number of subsets of a set.
LEMMA PowerIs ==
    ASSUME NEW n \in Nat PROVE 2 ^ n \in Nat /\ 2 ^ n > 0
<1>1. IsFiniteSet(1 .. n) /\ Cardinality(1 .. n) = n
  BY FS_Interval
<1>2. IsFiniteSet(SUBSET (1 .. n)) /\ Cardinality(SUBSET (1 .. n)) = 2 ^ n
  BY <1>1, FS_SUBSET
<1>3. Cardinality(SUBSET (1 .. n)) \in Nat /\ Cardinality(SUBSET (1 .. n)) # 0
  BY <1>2, FS_CardinalityType, FS_EmptySet
<1> QED BY <1>2, <1>3

-----------------------------------------------------------------------------
(* A fight begins after a gap longer than the limit, and nowhere else: the   *)
(* runs of hard messages are those that the gaps leave.                      *)

ClusterJoins(all, m) == all # <<>> /\ At[m] - At[Last(Last(all))] <= Limits.gap

ClustersGrow(seq, h) ==
    h = [s \in SUBSET DOMAIN seq |->
            IF s = {} THEN <<>>
            ELSE IF ClusterJoins(h[s \ {Max(s)}], seq[Max(s)]) THEN Lengthened(h[s \ {Max(s)}], seq[Max(s)])
                 ELSE Begun(h[s \ {Max(s)}], seq[Max(s)])]

\* The first message and every one after a long gap.
AfterGap(b, p) == p = 1 \/ At[b[p]] - At[b[p - 1]] > Limits.gap

LEMMA LastOfCut ==
    ASSUME NEW M, NEW seq, NEW all, NEW n, NEW i, NEW cut, Cut(all, seq, M, n, i, cut), i # 0
    PROVE  all # <<>> /\ Last(Last(all)) = seq[i]
<1>1. /\ n \in Nat /\ i \in Nat /\ all \in Seq(Seq(M)) /\ Len(all) = n
      /\ cut \in [1 .. (n + 1) -> 1 .. (i + 1)] /\ cut[n + 1] = i + 1 /\ cut[1] = 1
      /\ \A k, l \in 1 .. (n + 1) : k < l => cut[k] < cut[l]
      /\ \A k \in 1 .. n : Len(all[k]) = cut[k + 1] - cut[k]
      /\ \A k \in 1 .. n : \A j \in 1 .. Len(all[k]) : all[k][j] = seq[cut[k] + j - 1]
  BY DEF Cut
<1>2. n # 0
  BY <1>1
<1>3. n \in 1 .. n /\ n \in 1 .. (n + 1) /\ n + 1 \in 1 .. (n + 1)
  BY <1>1, <1>2
<1>4. PICK c \in 1 .. (i + 1) : c = cut[n] /\ c < i + 1
  BY <1>1, <1>3
<1>5. PICK run, len : run = all[n] /\ len = Len(run) /\ len = (i + 1) - c
  BY <1>1, <1>3, <1>4
<1>6. len \in 1 .. len /\ c + len - 1 = i
  BY <1>1, <1>4, <1>5
<1>7. run[len] = seq[i]
  BY <1>1, <1>3, <1>4, <1>5, <1>6
<1>8. all # <<>> /\ Last(all) = run /\ Last(run) = run[len]
  BY <1>1, <1>2, <1>5 DEF Last
<1> QED BY <1>7, <1>8

LEMMA ClustersCut ==
    ASSUME NEW hard \in SUBSET Rows, IsFiniteSet(hard)
    PROVE  \E k, cut : /\ Cut(Clusters(hard), ByTime(hard), hard, k, Cardinality(hard), cut)
                       /\ \A p \in 1 .. Cardinality(hard) :
                             (\E c \in 1 .. k : cut[c] = p) <=> AfterGap(ByTime(hard), p)
<1>1. PICK n, seq, A : n = Cardinality(hard) /\ seq = ByTime(hard) /\ A = Seq(Seq(hard))
  OBVIOUS
<1>2. n \in Nat /\ seq \in [1 .. n -> hard]
  BY <1>1, ByTimeIs DEF TimeOrdered
<1>3. PICK join : join = [a \in A |-> [m \in hard |-> ClusterJoins(a, m)]]
  OBVIOUS
<1>4. \A a \in A, m \in hard : join[a][m] = ClusterJoins(a, m)
  BY <1>3
<1>5. Joinable(join, A, hard)
  BY <1>4 DEF Joinable, ClusterJoins
<1>6. \E g : ClustersGrow(seq, g)
  <2>1. PICK g : Joined(seq, join, A, g)
    BY <1>1, <1>2, <1>5, JoinedExists
  <2> DEFINE next(s) == IF ClusterJoins(g[s \ {Max(s)}], seq[Max(s)]) THEN Lengthened(g[s \ {Max(s)}], seq[Max(s)])
                        ELSE Begun(g[s \ {Max(s)}], seq[Max(s)])
             value(s) == IF s = {} THEN <<>> ELSE next(s)
  <2>2. ASSUME NEW s \in SUBSET DOMAIN seq PROVE g[s] = value(s)
    <3>1. CASE s = {}
      BY <2>1, <3>1 DEF Joined
    <3>2. CASE s # {}
      <4>1. Max(s) \in s
        BY <1>2, <3>2, MaxIs
      <4>2. g[s \ {Max(s)}] \in A /\ seq[Max(s)] \in hard
        BY <1>2, <2>1, <4>1 DEF Joined
      <4> QED BY <1>4, <2>1, <3>2, <4>2 DEF Joined
    <3> QED BY <3>1, <3>2
  <2>3. g = [s \in SUBSET DOMAIN seq |-> value(s)]
    <3> HIDE DEF value
    <3> QED BY <2>1, <2>2 DEF Joined
  <2> QED BY <2>3 DEF ClustersGrow
<1>7. PICK h : h = CHOOSE g : ClustersGrow(seq, g)
  OBVIOUS
<1>8. Clusters(hard) = h[DOMAIN seq]
  BY <1>1, <1>7 DEF Clusters, FoldLeft, MapThenFoldSet, ClustersGrow, ClusterJoins, Lengthened, Begun
<1>9. ClustersGrow(seq, h)
  BY <1>6, <1>7
<1>10. Joined(seq, join, A, h)
  <2>1. h = [s \in SUBSET DOMAIN seq |-> h[s]] /\ h[{}] = <<>>
    BY <1>9 DEF ClustersGrow
  <2>2. ASSUME NEW s \in SUBSET DOMAIN seq, s # {}, h[s \ {Max(s)}] \in A
        PROVE  h[s] = IF join[h[s \ {Max(s)}]][seq[Max(s)]] THEN Lengthened(h[s \ {Max(s)}], seq[Max(s)])
                      ELSE Begun(h[s \ {Max(s)}], seq[Max(s)])
    <3>1. Max(s) \in s
      BY <1>2, <2>2, MaxIs
    <3>2. seq[Max(s)] \in hard
      BY <1>2, <3>1
    <3> QED BY <1>4, <1>9, <2>2, <3>2 DEF ClustersGrow
  <2> QED BY <1>1, <1>2, <1>5, <2>1, <2>2, JoinedIfSo
<1>11. n \in 0 .. n /\ DOMAIN seq = 1 .. n
  BY <1>2
<1>12. \A i \in 0 .. n : \E k, cut : Cut(h[1 .. i], seq, hard, k, i, cut) /\ Begins(seq, join, h, k, i, cut)
  BY <1>1, <1>2, <1>5, <1>10, JoinedIsCut
<1>13. PICK k, cut : Cut(h[1 .. n], seq, hard, k, n, cut) /\ Begins(seq, join, h, k, n, cut)
  BY <1>11, <1>12
<1>14. ASSUME NEW p \in 1 .. n PROVE (\E c \in 1 .. k : cut[c] = p) <=> AfterGap(seq, p)
  <2>1. p - 1 \in 0 .. n /\ seq[p] \in hard
    BY <1>2
  <2>2. PICK q : q = p - 1 /\ q \in 0 .. n
    BY <2>1
  <2>3. PICK all, l, c : all = h[1 .. q] /\ Cut(all, seq, hard, l, q, c)
    BY <1>12, <2>2
  <2>4. all \in A
    BY <1>1, <2>3 DEF Cut
  <2>5. join[all][seq[p]] = ClusterJoins(all, seq[p])
    BY <1>4, <2>1, <2>4
  <2>6. ClusterJoins(all, seq[p]) <=> ~AfterGap(seq, p)
    <3>1. CASE q = 0
      <4>1. l = 0 /\ all = <<>>
        BY <2>3, <3>1 DEF Cut
      <4> QED BY <2>2, <3>1, <4>1 DEF ClusterJoins, AfterGap
    <3>2. CASE q # 0
      <4>1. all # <<>> /\ Last(Last(all)) = seq[q]
        BY <2>3, <3>2, LastOfCut
      <4>2. q \in 1 .. n /\ p # 1
        BY <2>2, <3>2
      <4>3. At[seq[p]] \in Nat /\ At[seq[q]] \in Nat /\ Limits.gap \in Nat
        BY <1>2, <2>1, <4>2, ConversationAssumption, ChaptersAssumption
      <4> QED BY <2>2, <4>1, <4>2, <4>3 DEF ClusterJoins, AfterGap
    <3> QED BY <3>1, <3>2
  <2>7. (\E c2 \in 1 .. k : cut[c2] = p) <=> ~join[h[1 .. (p - 1)]][seq[p]]
    BY <1>13 DEF Begins
  <2> QED BY <2>2, <2>3, <2>5, <2>6, <2>7
<1>15. Cut(Clusters(hard), seq, hard, k, n, cut)
  BY <1>8, <1>11, <1>13
<1> QED BY <1>1, <1>14, <1>15

\* What the property says a fight is.
JoinsUpTo(m, k, hard) ==
    \A x \in hard : At[x] \in At[m] .. (At[k] - 1) => Soon(x, hard, Limits.gap) # {}

RunOf(m, hard) == {k \in hard : JoinsUpTo(m, k, hard) /\ JoinsUpTo(k, m, hard)}

Heads(k, cut, p) == \E c \in 1 .. k : cut[c] = p

\* The next message is the nearest.
LEMMA SoonIsNext ==
    ASSUME NEW hard \in SUBSET Rows, NEW n, NEW b, TimeOrdered(hard, n, b), NEW p \in 1 .. n
    PROVE  Soon(b[p], hard, Limits.gap) # {} <=> p # n /\ ~AfterGap(b, p + 1)
<1>1. n \in Nat /\ p \in Nat /\ Limits.gap \in Nat /\ p <= n
  BY ChaptersAssumption DEF TimeOrdered
<1>2. \A m \in hard : At[m] \in Nat
  BY ConversationAssumption
<1>3. /\ \A i \in 1 .. n : b[i] \in hard
      /\ \A i, j \in 1 .. n : i < j => At[b[i]] < At[b[j]]
      /\ \A m \in hard : \E i \in 1 .. n : b[i] = m
  BY DEF TimeOrdered
<1>4. ASSUME p # n, ~AfterGap(b, p + 1) PROVE Soon(b[p], hard, Limits.gap) # {}
  <2>1. p + 1 \in 1 .. n /\ p + 1 # 1 /\ (p + 1) - 1 = p /\ p < p + 1
    BY <1>1, <1>4
  <2>2. PICK q : q = p + 1
    OBVIOUS
  <2>3. At[b[p]] < At[b[q]] /\ b[q] \in hard /\ b[p] \in hard
    BY <1>3, <2>1, <2>2
  <2>4. At[b[q]] - At[b[p]] <= Limits.gap
    BY <1>1, <1>2, <1>4, <2>1, <2>2, <2>3 DEF AfterGap
  <2> QED BY <2>3, <2>4 DEF Soon
<1>5. ASSUME Soon(b[p], hard, Limits.gap) # {} PROVE p # n /\ ~AfterGap(b, p + 1)
  <2>1. PICK m \in hard : At[b[p]] < At[m] /\ At[m] - At[b[p]] <= Limits.gap
    BY <1>5 DEF Soon
  <2>2. PICK j \in 1 .. n : b[j] = m
    BY <1>3
  <2>3. p < j
    <3>1. ASSUME j <= p PROVE FALSE
      <4>1. At[m] <= At[b[p]]
        <5>1. CASE j = p
          BY <1>2, <2>2, <5>1
        <5>2. CASE j # p
          <6>1. j < p
            BY <1>1, <3>1, <5>2
          <6>2. At[b[j]] < At[b[p]] /\ At[b[p]] \in Nat /\ At[m] \in Nat
            BY <1>2, <1>3, <6>1
          <6> QED BY <2>2, <6>2
        <5> QED BY <5>1, <5>2
      <4>2. At[b[p]] \in Nat /\ At[m] \in Nat
        BY <1>2, <1>3
      <4> QED BY <2>1, <4>1, <4>2
    <3> QED BY <1>1, <3>1
  <2>4. p # n /\ p + 1 \in 1 .. n /\ p + 1 # 1 /\ (p + 1) - 1 = p /\ p + 1 <= j
    BY <1>1, <2>3
  <2>5. PICK q : q = p + 1
    OBVIOUS
  <2>6. q \in 1 .. n /\ q <= j /\ q # 1 /\ q - 1 = p
    BY <2>4, <2>5
  <2>7. At[b[q]] <= At[m] /\ At[b[q]] \in Nat /\ At[m] \in Nat /\ At[b[p]] \in Nat
    <3>1. CASE q = j
      BY <1>2, <1>3, <2>2, <3>1
    <3>2. CASE q # j
      <4>1. q < j
        BY <1>1, <2>6, <3>2
      <4>2. At[b[q]] < At[b[j]]
        BY <1>3, <2>6, <4>1
      <4>3. At[b[q]] \in Nat /\ At[m] \in Nat /\ At[b[p]] \in Nat
        BY <1>2, <1>3, <2>6
      <4> QED BY <2>2, <4>2, <4>3
    <3> QED BY <3>1, <3>2
  <2>8. At[b[q]] - At[b[p]] <= Limits.gap
    BY <1>1, <2>1, <2>7
  <2>9. ~AfterGap(b, q)
    BY <1>1, <2>6, <2>7, <2>8 DEF AfterGap
  <2> QED BY <2>4, <2>5, <2>9
<1> QED BY <1>4, <1>5

LEMMA JoinsIs ==
    ASSUME NEW hard \in SUBSET Rows, NEW n, NEW b, TimeOrdered(hard, n, b), NEW i \in 1 .. n, NEW j \in 1 .. n
    PROVE  JoinsUpTo(b[i], b[j], hard) <=> \A p \in 2 .. n : i < p /\ p <= j => ~AfterGap(b, p)
<1>1. n \in Nat /\ i \in Nat /\ j \in Nat
  BY DEF TimeOrdered
<1>2. /\ \A m \in hard : At[m] \in Nat
      /\ \A p \in 1 .. n : b[p] \in hard
      /\ \A p, q \in 1 .. n : p < q => At[b[p]] < At[b[q]]
      /\ \A m \in hard : \E p \in 1 .. n : b[p] = m
  BY ConversationAssumption DEF TimeOrdered
<1>3. ASSUME NEW p \in 1 .. n, NEW q \in 1 .. n PROVE At[b[p]] <= At[b[q]] <=> p <= q
  <2>1. At[b[p]] \in Nat /\ At[b[q]] \in Nat /\ p \in Nat /\ q \in Nat
    BY <1>2
  <2>2. p < q => At[b[p]] < At[b[q]]
    BY <1>2
  <2>3. q < p => At[b[q]] < At[b[p]]
    BY <1>2
  <2>4. p = q => At[b[p]] = At[b[q]]
    OBVIOUS
  <2> QED BY <2>1, <2>2, <2>3, <2>4
<1>4. ASSUME NEW p \in 1 .. n PROVE At[b[p]] \in At[b[i]] .. (At[b[j]] - 1) <=> i <= p /\ p < j
  <2>1. At[b[p]] \in Nat /\ At[b[i]] \in Nat /\ At[b[j]] \in Nat /\ p \in Nat
    BY <1>2
  <2>2. At[b[i]] <= At[b[p]] <=> i <= p
    BY <1>3
  <2>3. At[b[j]] <= At[b[p]] <=> j <= p
    BY <1>3
  <2> QED BY <1>1, <2>1, <2>2, <2>3
<1>5. ASSUME JoinsUpTo(b[i], b[j], hard), NEW p \in 2 .. n, i < p, p <= j
      PROVE  ~AfterGap(b, p)
  <2>1. PICK q : q = p - 1
    OBVIOUS
  <2>2. q \in 1 .. n /\ i <= q /\ q < j /\ q + 1 = p
    BY <1>1, <1>5, <2>1
  <2>3. b[q] \in hard /\ At[b[q]] \in At[b[i]] .. (At[b[j]] - 1)
    BY <1>2, <1>4, <2>2
  <2>4. Soon(b[q], hard, Limits.gap) # {}
    BY <1>5, <2>3 DEF JoinsUpTo
  <2> QED BY <2>2, <2>4, SoonIsNext
<1>6. ASSUME \A p \in 2 .. n : i < p /\ p <= j => ~AfterGap(b, p),
             NEW x \in hard, At[x] \in At[b[i]] .. (At[b[j]] - 1)
      PROVE  Soon(x, hard, Limits.gap) # {}
  <2>1. PICK q \in 1 .. n : b[q] = x
    BY <1>2
  <2>2. i <= q /\ q < j
    BY <1>4, <1>6, <2>1
  <2>3. q + 1 \in 2 .. n /\ i < q + 1 /\ q + 1 <= j /\ q # n
    BY <1>1, <2>2
  <2>4. ~AfterGap(b, q + 1)
    BY <1>6, <2>3
  <2> QED BY <2>1, <2>3, <2>4, SoonIsNext
<1> QED BY <1>5, <1>6 DEF JoinsUpTo

\* Two messages join, both ways, when they are in one run of the cut.
LEMMA RunIsRun ==
    ASSUME NEW hard \in SUBSET Rows, NEW n, NEW b, TimeOrdered(hard, n, b),
           NEW all, NEW k, NEW cut, Cut(all, b, hard, k, n, cut),
           \A p \in 1 .. n : Heads(k, cut, p) <=> AfterGap(b, p),
           NEW c \in 1 .. k, NEW i \in 1 .. n, InRun(cut, c, i)
    PROVE  RunOf(b[i], hard) = {b[j] : j \in {p \in 1 .. n : InRun(cut, c, p)}}
<1>1. /\ k \in Nat /\ n \in Nat /\ cut \in [1 .. (k + 1) -> 1 .. (n + 1)]
      /\ \A d, e \in 1 .. (k + 1) : d < e => cut[d] < cut[e]
      /\ cut[1] = 1
  BY DEF Cut
<1>2. c \in Nat /\ c \in 1 .. (k + 1) /\ c + 1 \in 1 .. (k + 1)
  BY <1>1
<1>3. PICK f, t \in 1 .. (n + 1) : f = cut[c] /\ t = cut[c + 1] /\ f <= i /\ i < t
  BY <1>1, <1>2 DEF InRun
<1>4. ASSUME NEW p \in 1 .. n, f < p, p < t PROVE ~Heads(k, cut, p)
  <2>1. SUFFICES ASSUME NEW d \in 1 .. k, cut[d] = p PROVE FALSE
    BY DEF Heads
  <2>2. d \in 1 .. (k + 1) /\ d \in Nat
    BY <1>1
  <2>3. CASE d = c
    BY <1>3, <1>4, <2>1, <2>3
  <2>4. CASE d < c
    <3>1. cut[d] < cut[c]
      BY <1>1, <1>2, <2>2, <2>4
    <3> QED BY <1>3, <1>4, <2>1, <3>1
  <2>5. CASE d > c
    <3>1. d = c + 1 \/ c + 1 < d
      BY <1>2, <2>2, <2>5
    <3>2. c + 1 < d => cut[c + 1] < cut[d]
      BY <1>1, <1>2, <2>2
    <3> QED BY <1>3, <1>4, <2>1, <3>1, <3>2
  <2> QED BY <1>2, <2>2, <2>3, <2>4, <2>5
<1>5. Heads(k, cut, f)
  BY <1>3 DEF Heads
<1>6. t <= n => Heads(k, cut, t)
  <2>1. SUFFICES ASSUME t <= n PROVE Heads(k, cut, t)
    OBVIOUS
  <2>2. cut[k + 1] = n + 1
    BY DEF Cut
  <2>3. c # k
    BY <1>1, <1>3, <2>1, <2>2
  <2>4. c + 1 \in 1 .. k
    BY <1>1, <2>3
  <2> QED BY <1>3, <2>4 DEF Heads
<1>7. ASSUME NEW j \in 1 .. n PROVE b[j] \in RunOf(b[i], hard) <=> f <= j /\ j < t
  <2>1. b[j] \in hard /\ f \in Nat /\ t \in Nat /\ i \in Nat /\ j \in Nat /\ n \in Nat
        /\ i <= n /\ j <= n /\ 1 <= i /\ 1 <= j
    BY <1>1 DEF TimeOrdered
  <2>2. ASSUME f <= j, j < t PROVE b[j] \in RunOf(b[i], hard)
    <3>1. \A p \in 2 .. n : i < p /\ p <= j => ~AfterGap(b, p)
      BY <1>3, <1>4, <2>1, <2>2
    <3>2. \A p \in 2 .. n : j < p /\ p <= i => ~AfterGap(b, p)
      BY <1>3, <1>4, <2>1, <2>2
    <3> QED BY <2>1, <3>1, <3>2, JoinsIs DEF RunOf
  <2>3. ASSUME b[j] \in RunOf(b[i], hard) PROVE f <= j /\ j < t
    <3>1. /\ \A p \in 2 .. n : i < p /\ p <= j => ~AfterGap(b, p)
          /\ \A p \in 2 .. n : j < p /\ p <= i => ~AfterGap(b, p)
      BY <2>3, JoinsIs DEF RunOf
    <3>2. f <= j
      <4>1. SUFFICES ASSUME j < f PROVE FALSE
        BY <2>1
      <4>2. f \in 2 .. n /\ j < f /\ f <= i
        <5>1. f <= i
          BY <1>3
        <5> QED BY ONLY <2>1, <4>1, <5>1
      <4>3. f \in 1 .. n
        BY <4>2
      <4> QED BY <1>5, <3>1, <4>2, <4>3
    <3>3. j < t
      <4>1. SUFFICES ASSUME t <= j PROVE FALSE
        BY <2>1
      <4>2. t \in 2 .. n /\ i < t /\ t <= j
        <5>1. i < t
          BY <1>3
        <5> QED BY ONLY <2>1, <4>1, <5>1
      <4>3. t \in 1 .. n /\ t <= n
        BY <4>2
      <4> QED BY <1>6, <3>1, <4>2, <4>3
    <3> QED BY <3>2, <3>3
  <2> QED BY <2>2, <2>3
<1>8. ASSUME NEW m \in RunOf(b[i], hard) PROVE m \in {b[j] : j \in {p \in 1 .. n : InRun(cut, c, p)}}
  <2>1. PICK j \in 1 .. n : b[j] = m
    BY <1>8 DEF TimeOrdered, RunOf
  <2> QED BY <1>3, <1>7, <1>8, <2>1 DEF InRun
<1>9. ASSUME NEW j \in 1 .. n, InRun(cut, c, j) PROVE b[j] \in RunOf(b[i], hard)
  BY <1>3, <1>7, <1>9 DEF InRun
<1> QED BY <1>8, <1>9

\* A run holds what stands between its first message and its last.
LEMMA RunHolds ==
    ASSUME NEW hard \in SUBSET Rows, NEW n, NEW b, TimeOrdered(hard, n, b),
           NEW all, NEW k, NEW cut, Cut(all, b, hard, k, n, cut), NEW c \in 1 .. k
    PROVE  /\ ToSet(all[c]) = {b[j] : j \in {p \in 1 .. n : InRun(cut, c, p)}}
           /\ all[c] \in Seq(hard) /\ Cardinality(ToSet(all[c])) = Len(all[c])
           /\ Head(all[c]) \in ToSet(all[c]) /\ Last(all[c]) \in ToSet(all[c])
           /\ ToSet(all[c]) = {m \in hard : At[m] \in At[Head(all[c])] .. At[Last(all[c])]}
<1>1. /\ k \in Nat /\ n \in Nat /\ all \in Seq(Seq(hard)) /\ Len(all) = k
      /\ cut \in [1 .. (k + 1) -> 1 .. (n + 1)]
      /\ \A d, e \in 1 .. (k + 1) : d < e => cut[d] < cut[e]
      /\ \A d \in 1 .. k : Len(all[d]) = cut[d + 1] - cut[d]
      /\ \A d \in 1 .. k : \A j \in 1 .. Len(all[d]) : all[d][j] = b[cut[d] + j - 1]
  BY DEF Cut
<1>2. c \in 1 .. (k + 1) /\ c + 1 \in 1 .. (k + 1) /\ c < c + 1
  BY <1>1
<1>3. PICK f, t \in 1 .. (n + 1) : f = cut[c] /\ t = cut[c + 1] /\ f < t
  BY <1>1, <1>2
<1>19. PICK run, len : run = all[c] /\ len = Len(run)
  OBVIOUS
<1>20. run \in Seq(hard)
  BY <1>1, <1>19
<1>21. len = t - f
  BY <1>1, <1>3, <1>19
<1>22. \A j \in 1 .. len : run[j] = b[f + j - 1]
  BY <1>1, <1>3, <1>19
<1>4. /\ run = all[c] /\ len = Len(run) /\ len = t - f
      /\ \A j \in 1 .. len : run[j] = b[f + j - 1]
  BY <1>19, <1>21, <1>22
<1>5. /\ run \in Seq(hard) /\ len \in Nat \ {0} /\ DOMAIN run = 1 .. len /\ f \in Nat /\ t \in Nat
      /\ 1 <= f /\ t <= n + 1
  <2>1. f \in Nat /\ t \in Nat /\ 1 <= f /\ t <= n + 1
    BY <1>1
  <2>2. len \in Nat /\ DOMAIN run = 1 .. len
    BY <1>19, <1>20
  <2>3. len # 0
    BY <1>3, <1>21, <2>1
  <2> QED BY <1>20, <2>1, <2>2, <2>3
<1>6. \A p \in 1 .. n : InRun(cut, c, p) <=> f <= p /\ p < t
  BY <1>3 DEF InRun
<1>7. ASSUME NEW j \in 1 .. len PROVE (f + j) - 1 \in 1 .. n /\ InRun(cut, c, (f + j) - 1) /\ run[j] = b[(f + j) - 1]
  <2>1. j \in Nat /\ 1 <= j /\ j <= t - f
    BY <1>4, <1>5
  <2>2. (f + j) - 1 \in 1 .. n /\ f <= (f + j) - 1 /\ (f + j) - 1 < t /\ f + j - 1 = (f + j) - 1
    BY <1>1, <1>5, <2>1
  <2>3. run[j] = b[(f + j) - 1]
    BY <1>4, <2>2
  <2> QED BY <1>6, <2>2, <2>3
<1>8. ASSUME NEW p \in 1 .. n, InRun(cut, c, p) PROVE (p - f) + 1 \in 1 .. len /\ run[(p - f) + 1] = b[p]
  <2>1. p \in Nat /\ f <= p /\ p < t
    BY <1>6, <1>8
  <2>2. (p - f) + 1 \in 1 .. (t - f) /\ (f + ((p - f) + 1)) - 1 = p
    BY <1>5, <2>1
  <2>3. (p - f) + 1 \in 1 .. len
    BY <1>4, <2>2
  <2> QED BY <1>7, <2>2, <2>3
<1>9. ToSet(run) = {run[j] : j \in 1 .. len}
  BY <1>5 DEF ToSet
<1>10. ToSet(run) = {b[j] : j \in {p \in 1 .. n : InRun(cut, c, p)}}
  <2>1. ASSUME NEW j \in 1 .. len PROVE run[j] \in {b[i] : i \in {p \in 1 .. n : InRun(cut, c, p)}}
    <3>1. PICK q : q = (f + j) - 1
      OBVIOUS
    <3> QED BY <1>7, <3>1
  <2>2. ASSUME NEW p \in 1 .. n, InRun(cut, c, p) PROVE b[p] \in {run[j] : j \in 1 .. len}
    <3>1. PICK j : j = (p - f) + 1
      OBVIOUS
    <3> QED BY <1>8, <2>2, <3>1
  <2> QED BY <1>9, <2>1, <2>2
<1>11. /\ \A m \in hard : At[m] \in Nat
       /\ \A p \in 1 .. n : b[p] \in hard
       /\ \A p, q \in 1 .. n : p < q => At[b[p]] < At[b[q]]
       /\ \A m \in hard : \E p \in 1 .. n : b[p] = m
  BY ConversationAssumption DEF TimeOrdered
<1>12. ASSUME NEW p \in 1 .. n, NEW q \in 1 .. n PROVE At[b[p]] <= At[b[q]] <=> p <= q
  <2>1. At[b[p]] \in Nat /\ At[b[q]] \in Nat /\ p \in Nat /\ q \in Nat
    BY <1>11
  <2>2. p < q => At[b[p]] < At[b[q]]
    BY <1>11
  <2>3. q < p => At[b[q]] < At[b[p]]
    BY <1>11
  <2>4. p = q => At[b[p]] = At[b[q]]
    OBVIOUS
  <2> QED BY <2>1, <2>2, <2>3, <2>4
<1>13. Cardinality(ToSet(run)) = len
  <2>1. ASSUME NEW i \in 1 .. len, NEW j \in 1 .. len, run[i] = run[j] PROVE i = j
    <3>1. PICK p, q \in 1 .. n : p = (f + i) - 1 /\ q = (f + j) - 1 /\ run[i] = b[p] /\ run[j] = b[q]
      BY <1>7
    <3>2. At[b[p]] \in Nat /\ At[b[p]] = At[b[q]]
      BY <1>11, <2>1, <3>1
    <3>3. p <= q /\ q <= p
      BY <1>12, <3>2
    <3> QED BY <1>5, <3>1, <3>3
  <2>2. run \in Bijection(1 .. len, ToSet(run))
    <3>1. run = [j \in 1 .. len |-> run[j]]
      BY <1>5
    <3>2. run \in [1 .. len -> ToSet(run)]
      BY <1>9, <3>1
    <3>3. \A x \in ToSet(run) : \E j \in 1 .. len : run[j] = x
      BY <1>9
    <3> QED BY <2>1, <3>2, <3>3 DEF Bijection, Injection, Surjection, IsInjective
  <2>3. ExistsBijection(1 .. len, ToSet(run))
    BY <2>2 DEF ExistsBijection
  <2>4. IsFiniteSet(1 .. len) /\ Cardinality(1 .. len) = len
    BY <1>5, FS_Interval
  <2> QED BY <2>3, <2>4, FS_Bijection
<1>14. Head(run) = b[f] /\ f \in 1 .. n /\ InRun(cut, c, f)
  <2>1. 1 \in 1 .. len /\ (f + 1) - 1 = f
    BY <1>5
  <2>2. Head(run) = run[1]
    BY <1>5
  <2> QED BY <1>7, <2>1, <2>2
<1>15. Last(run) = b[t - 1] /\ t - 1 \in 1 .. n /\ InRun(cut, c, t - 1)
  <2>1. len \in 1 .. len /\ (f + len) - 1 = t - 1
    BY <1>4, <1>5
  <2>2. Last(run) = run[len]
    BY <1>4, <1>5 DEF Last
  <2> QED BY <1>7, <2>1, <2>2
<1>16. Head(run) \in ToSet(run) /\ Last(run) \in ToSet(run)
  BY <1>10, <1>14, <1>15
<1>17. ASSUME NEW m \in hard PROVE m \in ToSet(run) <=> At[m] \in At[Head(run)] .. At[Last(run)]
  <2>1. PICK p \in 1 .. n : b[p] = m
    BY <1>11
  <2>2. PICK l \in 1 .. n : l = t - 1
    BY <1>15
  <2>3. At[m] \in At[Head(run)] .. At[Last(run)] <=> f <= p /\ p <= l
    <3>1. At[m] \in Nat /\ At[b[f]] \in Nat /\ At[b[l]] \in Nat
      BY <1>11, <1>14, <2>2
    <3>2. At[b[f]] <= At[m] <=> f <= p
      BY <1>12, <1>14, <2>1
    <3>3. At[m] <= At[b[l]] <=> p <= l
      BY <1>12, <2>1, <2>2
    <3> QED BY <1>14, <1>15, <2>2, <3>1, <3>2, <3>3
  <2>4. f <= p /\ p <= l <=> InRun(cut, c, p)
    BY <1>5, <1>6, <2>2
  <2>5. InRun(cut, c, p) => m \in ToSet(run)
    BY <1>10, <2>1
  <2>6. ASSUME m \in ToSet(run) PROVE InRun(cut, c, p)
    <3>1. PICK q \in 1 .. n : InRun(cut, c, q) /\ b[q] = m
      BY <1>10, <2>6
    <3>2. p <= q /\ q <= p
      <4>1. At[b[p]] = At[b[q]] /\ At[b[p]] \in Nat
        BY <1>11, <2>1, <3>1
      <4> QED BY <1>12, <4>1
    <3>3. p = q
      BY <3>2
    <3> QED BY <3>1, <3>3
  <2> QED BY <2>3, <2>4, <2>5, <2>6
<1>18. \A m \in ToSet(run) : m \in hard
  BY <1>10, <1>11
<1> HIDE DEF InRun
<1> QED BY <1>4, <1>5, <1>10, <1>13, <1>16, <1>17, <1>18

\* The messages of a conversation are in the runs the property speaks of.
LEMMA RunsOfHard ==
    ASSUME NEW hard \in SUBSET Rows, IsFiniteSet(hard)
    PROVE  /\ \A m \in hard : \E c \in ToSet(Clusters(hard)) : m \in ToSet(c)
           /\ \A c \in ToSet(Clusters(hard)) :
                 /\ c \in Seq(hard) /\ Cardinality(ToSet(c)) = Len(c)
                 /\ Head(c) \in ToSet(c) /\ Last(c) \in ToSet(c)
                 /\ ToSet(c) = {m \in hard : At[m] \in At[Head(c)] .. At[Last(c)]}
                 /\ \A m \in ToSet(c) : RunOf(m, hard) = ToSet(c)
<1>1. PICK n, b, all : n = Cardinality(hard) /\ b = ByTime(hard) /\ all = Clusters(hard)
  OBVIOUS
<1>2. TimeOrdered(hard, n, b)
  BY <1>1, ByTimeIs
<1>3. PICK k, cut : Cut(all, b, hard, k, n, cut) /\ \A p \in 1 .. n : Heads(k, cut, p) <=> AfterGap(b, p)
  BY <1>1, ClustersCut DEF Heads
<1>4. k \in Nat /\ DOMAIN all = 1 .. k /\ all \in Seq(Seq(hard))
  BY <1>3 DEF Cut
<1>7. ASSUME NEW c \in 1 .. k
      PROVE  /\ ToSet(all[c]) = {b[j] : j \in {p \in 1 .. n : InRun(cut, c, p)}}
             /\ all[c] \in Seq(hard) /\ Cardinality(ToSet(all[c])) = Len(all[c])
             /\ Head(all[c]) \in ToSet(all[c]) /\ Last(all[c]) \in ToSet(all[c])
             /\ ToSet(all[c]) = {m \in hard : At[m] \in At[Head(all[c])] .. At[Last(all[c])]}
  BY <1>2, <1>3, RunHolds
<1>5. ASSUME NEW c \in 1 .. k, NEW m \in ToSet(all[c]) PROVE RunOf(m, hard) = ToSet(all[c])
  <2>1. ToSet(all[c]) = {b[j] : j \in {p \in 1 .. n : InRun(cut, c, p)}}
    BY ONLY <1>7
  <2>2. PICK i \in 1 .. n : InRun(cut, c, i) /\ m = b[i]
    BY <1>5, <2>1
  <2>3. RunOf(b[i], hard) = {b[j] : j \in {p \in 1 .. n : InRun(cut, c, p)}}
    BY <1>2, <1>3, <2>2, RunIsRun
  <2> QED BY <2>1, <2>2, <2>3
<1>6. ASSUME NEW m \in hard PROVE \E c \in 1 .. k : m \in ToSet(all[c])
  <2>1. PICK p \in 1 .. n : b[p] = m
    BY <1>2 DEF TimeOrdered
  <2>2. PICK c \in 1 .. k : InRun(cut, c, p)
    BY <1>3, <2>1 DEF Cut, InRun
  <2>3. ToSet(all[c]) = {b[j] : j \in {q \in 1 .. n : InRun(cut, c, q)}}
    BY ONLY <1>7
  <2> QED BY <2>1, <2>2, <2>3
<1>8. ToSet(all) = {all[c] : c \in 1 .. k}
  BY <1>4 DEF ToSet
<1>9. ASSUME NEW m \in hard PROVE \E c \in ToSet(all) : m \in ToSet(c)
  <2>1. PICK c \in 1 .. k : m \in ToSet(all[c])
    BY <1>6
  <2> QED BY <1>8, <2>1
<1>10. ASSUME NEW c \in ToSet(all)
       PROVE  /\ c \in Seq(hard) /\ Cardinality(ToSet(c)) = Len(c)
              /\ Head(c) \in ToSet(c) /\ Last(c) \in ToSet(c)
              /\ ToSet(c) = {m \in hard : At[m] \in At[Head(c)] .. At[Last(c)]}
              /\ \A m \in ToSet(c) : RunOf(m, hard) = ToSet(c)
  <2>1. PICK d \in 1 .. k : c = all[d]
    BY <1>8
  <2> QED BY <1>5, <1>7, <2>1
<1> QED BY <1>1, <1>9, <1>10

-----------------------------------------------------------------------------
(* Fights and eras: a table has finitely many, with the figures the gate adds. *)

LEMMA BySideIs ==
    ASSUME NEW msgs, IsFiniteSet(msgs) PROVE BySide(msgs) \in [Sides -> Nat]
<1>1. ASSUME NEW s \in Sides PROVE Cardinality({m \in msgs : SideOf(m) = s}) \in Nat
  BY FS_Subset, FS_CardinalityType
<1> QED BY <1>1 DEF BySide

FightFits(r) ==
    /\ r = [start |-> r.start, end |-> r.end, msgs |-> r.msgs, hostile |-> r.hostile, severe |-> r.severe,
            peak |-> r.peak, initiator |-> r.initiator, last |-> r.last, kid |-> r.kid,
            repaired |-> r.repaired, note |-> r.note]
    /\ r.severe \in [Sides -> Nat]

TableFits(table) == IsFiniteSet(DOMAIN table) /\ \A s \in DOMAIN table : FightFits(table[s])

LEMMA EpisodeFits ==
    ASSUME NEW M, NEW cluster \in Seq(M), NEW msgs, NEW scores, NEW cal
    PROVE  FightFits(EpisodeOf(cluster, msgs, scores, cal))
<1>1. PICK a, b, c, d, e, p, i, l, k, r, n :
         EpisodeOf(cluster, msgs, scores, cal) =
             [start |-> a, end |-> b, msgs |-> c, hostile |-> d, severe |-> e, peak |-> p,
              initiator |-> i, last |-> l, kid |-> k, repaired |-> r, note |-> n]
    /\ e = BySide(Severe(ToSet(cluster), scores, cal))
  BY DEF EpisodeOf
<1>2. IsFiniteSet(ToSet(cluster))
  <2>1. DOMAIN cluster = 1 .. Len(cluster) /\ Len(cluster) \in Nat
    OBVIOUS
  <2>2. IsFiniteSet(DOMAIN cluster)
    BY <2>1, FS_Interval
  <2> QED BY <2>2, FiniteImage DEF ToSet
<1>3. IsFiniteSet(Severe(ToSet(cluster), scores, cal))
  BY <1>2, FS_Subset DEF Severe
<1>4. e \in [Sides -> Nat]
  BY <1>1, <1>3, BySideIs
<1> QED BY <1>1, <1>4 DEF FightFits

LEMMA FightsFit ==
    ASSUME NEW msgs \in SUBSET Rows, NEW scores, NEW cal
    PROVE  TableFits(Fights(msgs, scores, cal))
<1>1. PICK M : Clusters(Hard(msgs, scores, cal)) \in Seq(Seq(M))
  <2>1. PICK hard : hard = Hard(msgs, scores, cal)
    OBVIOUS
  <2>2. hard \in SUBSET Rows /\ IsFiniteSet(hard)
    BY <2>1, ChaptersAssumption, FS_Subset DEF Hard
  <2>3. PICK k, cut : Cut(Clusters(hard), ByTime(hard), hard, k, Cardinality(hard), cut)
    BY <2>2, ClustersCut
  <2> QED BY <2>1, <2>3 DEF Cut
<1>2. PICK all, enough, table :
         /\ all = Clusters(Hard(msgs, scores, cal)) /\ table = Fights(msgs, scores, cal)
         /\ enough = {c \in ToSet(all) : Len(c) >= Limits.minHostile}
  OBVIOUS
<1>3. table = [s \in {Head(c) : c \in enough} |-> EpisodeOf(CHOOSE c \in enough : Head(c) = s, msgs, scores, cal)]
  BY <1>2 DEF Fights
<1>4. IsFiniteSet(enough) /\ \A c \in enough : c \in Seq(M)
  <2>1. all \in Seq(Seq(M)) /\ DOMAIN all = 1 .. Len(all) /\ Len(all) \in Nat
    BY <1>1, <1>2
  <2>2. IsFiniteSet(DOMAIN all)
    BY <2>1, FS_Interval
  <2>3. IsFiniteSet(ToSet(all))
    BY <2>2, FiniteImage DEF ToSet
  <2>4. \A c \in ToSet(all) : c \in Seq(M)
    BY <2>1 DEF ToSet
  <2> QED BY <1>2, <2>3, <2>4, FS_Subset
<1>5. IsFiniteSet({Head(c) : c \in enough})
  <2>1. PICK f : f = [c \in enough |-> Head(c)]
    OBVIOUS
  <2>2. {Head(c) : c \in enough} = {f[c] : c \in enough} /\ DOMAIN f = enough
    BY <2>1
  <2>3. IsFiniteSet({f[c] : c \in enough})
    BY <1>4, <2>2, FiniteImage
  <2> QED BY <2>2, <2>3
<1>6. ASSUME NEW s \in {Head(c) : c \in enough} PROVE FightFits(table[s])
  <2>1. PICK c \in enough : c = CHOOSE d \in enough : Head(d) = s
    OBVIOUS
  <2>2. table[s] = EpisodeOf(c, msgs, scores, cal) /\ c \in Seq(M)
    BY <1>3, <1>4, <2>1
  <2> QED BY <2>2, EpisodeFits
<1> QED BY <1>2, <1>3, <1>5, <1>6 DEF TableFits

\* A repair comes after the fight.
LEMMA RepairComesAfter ==
    ASSUME NEW last \in Rows, NEW msgs \in SUBSET Rows, NEW scores, Repair(last, msgs, scores) # None
    PROVE  Repair(last, msgs, scores).at > At[last]
<1>1. PICK warm : warm = Warm(Soon(last, msgs, Limits.repair), scores)
  OBVIOUS
<1>2. warm # {}
  BY <1>1 DEF Repair
<1>3. Repair(last, msgs, scores) = [at |-> At[Earliest(warm)], by |-> SideOf(Earliest(warm))]
  BY <1>1, <1>2 DEF Repair
<1>4. \A m \in warm : m \in Rows /\ At[m] \in Nat /\ At[last] < At[m]
  BY <1>1, ConversationAssumption DEF Warm, Soon
<1>5. \E m \in warm : \A k \in warm : At[m] <= At[k]
  <2>1. PICK times : times = {At[m] : m \in warm}
    OBVIOUS
  <2>2. times # {} /\ times \in SUBSET Nat
    BY <1>2, <1>4, <2>1
  <2>3. PICK t \in times : \A u \in times : t <= u
    BY <2>2, LeastNatural
  <2> QED BY <2>1, <2>3
<1>6. Earliest(warm) \in warm
  BY <1>5 DEF Earliest
<1>7. PICK e \in warm : e = Earliest(warm)
  BY <1>6
<1>8. At[last] \in Nat
  BY ConversationAssumption
<1> QED BY <1>3, <1>4, <1>7, <1>8

LEMMA FightsAreRuns ==
    ASSUME NEW msgs \in SUBSET Rows, NEW scores, NEW cal
    PROVE  LET hard == Hard(msgs, scores, cal)
               fights == Fights(msgs, scores, cal)
               inside(s) == {m \in hard : At[m] \in fights[s].start .. fights[s].end}
           IN /\ \A m \in hard : Cardinality(RunOf(m, hard)) >= Limits.minHostile
                                 <=> \E s \in DOMAIN fights : m \in inside(s)
              /\ \A s \in DOMAIN fights :
                    /\ inside(s) = RunOf(s, hard)
                    /\ fights[s].hostile = BySide(RunOf(s, hard))
                    /\ fights[s].repaired # None => fights[s].repaired.at > fights[s].end
<1>1. PICK hard, fights, all, enough : /\ hard = Hard(msgs, scores, cal) /\ fights = Fights(msgs, scores, cal)
                                       /\ all = ToSet(Clusters(hard))
                                       /\ enough = {c \in all : Len(c) >= Limits.minHostile}
  OBVIOUS
<1> DEFINE inside(s) == {m \in hard : At[m] \in fights[s].start .. fights[s].end}
<1>2. hard \in SUBSET Rows /\ IsFiniteSet(hard)
  BY <1>1, ChaptersAssumption, FS_Subset DEF Hard
<1>3. /\ \A m \in hard : \E c \in all : m \in ToSet(c)
      /\ \A c \in all :
            /\ c \in Seq(hard) /\ Cardinality(ToSet(c)) = Len(c)
            /\ Head(c) \in ToSet(c) /\ Last(c) \in ToSet(c)
            /\ ToSet(c) = {m \in hard : At[m] \in At[Head(c)] .. At[Last(c)]}
            /\ \A m \in ToSet(c) : RunOf(m, hard) = ToSet(c)
  BY <1>1, <1>2, RunsOfHard
<1>4. fights = [s \in {Head(c) : c \in enough} |-> EpisodeOf(CHOOSE c \in enough : Head(c) = s, msgs, scores, cal)]
  BY <1>1 DEF Fights
<1>5. ASSUME NEW s \in DOMAIN fights
      PROVE  \E c \in enough : /\ s \in ToSet(c) /\ inside(s) = ToSet(c) /\ RunOf(s, hard) = ToSet(c)
                               /\ fights[s].hostile = BySide(ToSet(c))
                               /\ fights[s].repaired # None => fights[s].repaired.at > fights[s].end
  <2>1. PICK c \in enough : Head(c) = s /\ fights[s] = EpisodeOf(c, msgs, scores, cal)
    <3>1. PICK c : c = CHOOSE d \in enough : Head(d) = s
      OBVIOUS
    <3>2. \E d \in enough : Head(d) = s
      BY <1>4
    <3>3. c \in enough /\ Head(c) = s
      BY <3>1, <3>2
    <3> QED BY <1>4, <3>1, <3>3
  <2>2. c \in all
    BY <1>1
  <2>3. PICK e : e = EpisodeOf(c, msgs, scores, cal)
    OBVIOUS
  <2>4. /\ e.start = At[Head(c)] /\ e.end = At[Last(c)] /\ e.hostile = BySide(ToSet(c))
        /\ e.repaired = Repair(Last(c), msgs, scores)
    BY <2>3 DEF EpisodeOf
  <2>5. s \in ToSet(c) /\ RunOf(s, hard) = ToSet(c)
    BY <1>3, <2>1, <2>2
  <2>6. inside(s) = ToSet(c)
    BY <1>3, <2>1, <2>2, <2>3, <2>4
  <2>7. Last(c) \in Rows
    BY <1>2, <1>3, <2>2
  <2>8. e.repaired # None => e.repaired.at > e.end
    BY <2>4, <2>7, RepairComesAfter
  <2> QED BY <2>1, <2>3, <2>4, <2>5, <2>6, <2>8
<1> HIDE DEF inside
<1>6. ASSUME NEW m \in hard, Cardinality(RunOf(m, hard)) >= Limits.minHostile
      PROVE  \E s \in DOMAIN fights : m \in inside(s)
  <2>1. PICK c \in all : m \in ToSet(c)
    BY <1>3
  <2>2. RunOf(m, hard) = ToSet(c) /\ Cardinality(ToSet(c)) = Len(c)
    BY <1>3, <2>1
  <2>3. c \in enough
    BY <1>1, <1>6, <2>2
  <2>4. PICK s : s = Head(c) /\ s \in ToSet(c) /\ s \in DOMAIN fights
    BY <1>3, <1>4, <2>3
  <2>5. PICK d \in enough : inside(s) = ToSet(d) /\ RunOf(s, hard) = ToSet(d)
    BY <1>5, <2>4
  <2>6. RunOf(s, hard) = ToSet(c)
    BY <1>3, <2>4
  <2> QED BY <2>1, <2>4, <2>5, <2>6
<1>7. ASSUME NEW m \in hard, NEW s \in DOMAIN fights, m \in inside(s)
      PROVE  Cardinality(RunOf(m, hard)) >= Limits.minHostile
  <2>1. PICK d \in enough : inside(s) = ToSet(d)
    BY <1>5
  <2>2. d \in all /\ Len(d) >= Limits.minHostile
    BY <1>1
  <2>3. RunOf(m, hard) = ToSet(d) /\ Cardinality(ToSet(d)) = Len(d)
    BY <1>3, <1>7, <2>1, <2>2
  <2> QED BY <2>2, <2>3
<1>8. \A s \in DOMAIN fights :
         /\ inside(s) = RunOf(s, hard)
         /\ fights[s].hostile = BySide(RunOf(s, hard))
         /\ fights[s].repaired # None => fights[s].repaired.at > fights[s].end
  BY <1>5
<1> QED BY <1>1, <1>6, <1>7, <1>8 DEF inside

LEMMA UpsertedFits ==
    ASSUME NEW table, NEW now, TableFits(now) PROVE TableFits(Upserted(table, now))
<1> DEFINE row(s) == IF s \in DOMAIN table THEN [now[s] EXCEPT !.note = table[s].note] ELSE now[s]
<1>1. Upserted(table, now) = [s \in DOMAIN now |-> row(s)]
  BY DEF Upserted
<1>2. ASSUME NEW s \in DOMAIN now PROVE FightFits(row(s))
  <2>1. PICK r, n : r = now[s] /\ n = table[s].note
    OBVIOUS
  <2>2. FightFits(r)
    BY <2>1 DEF TableFits
  <2>3. FightFits([r EXCEPT !.note = n])
    BY <2>2 DEF FightFits
  <2> QED BY <2>1, <2>2, <2>3
<1> HIDE DEF row
<1> QED BY <1>1, <1>2 DEF TableFits

EraFits(e) ==
    /\ e = [start |-> e.start, end |-> e.end, months |-> e.months, signals |-> e.signals, name |-> e.name]
    /\ e.end \in Int

ErasFit(eras) == IsFiniteSet(DOMAIN eras) /\ \A e \in DOMAIN eras : EraFits(eras[e])

LEMMA FoundFits ==
    ASSUME NEW n \in Nat, NEW months, \A i \in 1 .. n : months[i] \in Nat, Len(months) = n,
           NEW cuts \in SUBSET (2 .. n), NEW signals
    PROVE  /\ IsFiniteSet(DOMAIN EraFrom(months, cuts, signals))
           /\ \A i \in DOMAIN EraFrom(months, cuts, signals) : EraFrom(months, cuts, signals)[i].end \in Int
<1> DEFINE upTo(i) == CHOOSE j \in cuts \cup {n + 1} : j > i /\ \A k \in cuts : k > i => j <= k
           starts == IF n = 0 THEN {} ELSE cuts \cup {1}
<1>1. PICK found, width : found = EraFrom(months, cuts, signals) /\ width = Limits.month
  OBVIOUS
<1>2. /\ DOMAIN found = starts
      /\ \A i \in starts : found[i].end = (months[upTo(i) - 1] + 1) * Limits.month - 1
  BY <1>1 DEF EraFrom
<1>3. starts \in SUBSET (1 .. n)
  OBVIOUS
<1>4. IsFiniteSet(starts)
  <2>1. IsFiniteSet(1 .. n)
    BY FS_Interval
  <2> QED BY <1>3, <2>1, FS_Subset
<1>5. ASSUME NEW i \in starts PROVE upTo(i) - 1 \in 1 .. n
  <2> DEFINE later == {j \in cuts \cup {n + 1} : j > i}
  <2>1. i \in 1 .. n
    BY <1>5, <1>3
  <2>2. later \in SUBSET Nat /\ n + 1 \in later
    <3>1. \A j \in cuts : j \in Nat
      OBVIOUS
    <3>2. n + 1 \in Nat /\ n + 1 > i /\ i \in Nat
      BY <2>1
    <3> HIDE DEF upTo, starts
    <3> QED BY <3>1, <3>2
  <2>3. PICK j \in later : \A k \in later : j <= k
    BY <2>2, LeastNatural
  <2>4. j \in cuts \cup {n + 1} /\ j > i /\ \A k \in cuts : k > i => j <= k
    BY <2>3
  <2>5. upTo(i) \in cuts \cup {n + 1} /\ upTo(i) > i
    BY <2>4
  <2> HIDE DEF upTo
  <2>6. PICK u : u = upTo(i)
    OBVIOUS
  <2>7. \A k \in cuts : k \in 2 .. n
    OBVIOUS
  <2>8. u = n + 1 \/ u \in 2 .. n
    BY <2>5, <2>6, <2>7
  <2>9. u - 1 \in 1 .. n
    BY <2>1, <2>5, <2>6, <2>8
  <2> QED BY <2>6, <2>9
<1> HIDE DEF upTo, starts
<1>6. width \in Nat
  BY <1>1, ChaptersAssumption
<1>7. ASSUME NEW i \in starts PROVE found[i].end \in Int
  <2>1. months[upTo(i) - 1] \in Nat
    BY <1>5, <1>7
  <2>2. PICK m \in Nat : m = months[upTo(i) - 1]
    BY <2>1
  <2>3. (m + 1) * width - 1 \in Int
    BY <1>6
  <2> QED BY <1>1, <1>2, <1>7, <2>2, <2>3
<1> QED BY <1>1, <1>2, <1>4, <1>7

LEMMA NamedFits ==
    ASSUME NEW found, NEW prior, IsFiniteSet(DOMAIN found), \A i \in DOMAIN found : found[i].end \in Int
    PROVE  ErasFit(Named(found, prior))
<1>1. PICK eras : eras = Named(found, prior)
  OBVIOUS
<1>2. DOMAIN eras = {found[i].start : i \in DOMAIN found}
  BY <1>1 DEF Named
<1>3. IsFiniteSet(DOMAIN eras)
  <2>1. PICK f : f = [i \in DOMAIN found |-> found[i].start]
    OBVIOUS
  <2>2. DOMAIN eras = {f[i] : i \in DOMAIN found} /\ DOMAIN f = DOMAIN found
    BY <1>2, <2>1
  <2>3. IsFiniteSet({f[i] : i \in DOMAIN found})
    BY <2>2, FiniteImage
  <2> QED BY <2>2, <2>3
<1>4. ASSUME NEW s \in DOMAIN eras PROVE EraFits(eras[s])
  <2>1. PICK i \in DOMAIN found : i = CHOOSE j \in DOMAIN found : found[j].start = s
    BY <1>2
  <2>2. PICK name : eras[s] = [start |-> found[i].start, end |-> found[i].end, months |-> found[i].months,
                               signals |-> found[i].signals, name |-> name]
    BY <1>1, <1>2, <1>4, <2>1 DEF Named
  <2>3. found[i].end \in Int
    OBVIOUS
  <2> QED BY <2>2, <2>3 DEF EraFits
<1> QED BY <1>1, <1>3, <1>4 DEF ErasFit

LEMMA ErasNowFit ==
    ASSUME IsFiniteSet(Msgs), Msgs \subseteq Rows, NEW table, NEW prior, NEW eras \in ErasNow(table, prior)
    PROVE  ErasFit(eras)
<1>1. PICK signals, buckets, months :
         /\ signals = Signals(Msgs, tone, Cal, table) /\ buckets = Buckets(Msgs, Limits.month)
         /\ months = InOrder(buckets)
  OBVIOUS
<1>2. DOMAIN signals = buckets
  <2>1. DOMAIN Trajectory(Msgs, tone, Cal) = buckets
    BY <1>1 DEF Trajectory
  <2> QED BY <1>1, <2>1 DEF Signals
<1>3. PICK cuts : cuts \in Cuts(Len(months)) /\ eras = Named(EraFrom(months, cuts, signals), prior)
  BY <1>1, <1>2 DEF ErasNow
<1>4. buckets \in SUBSET Nat /\ IsFiniteSet(buckets)
  <2>1. PICK f : f = [m \in Msgs |-> At[m] \div Limits.month]
    OBVIOUS
  <2>2. buckets = {f[m] : m \in Msgs} /\ DOMAIN f = Msgs
    BY <1>1, <2>1 DEF Buckets, Bucket
  <2>3. IsFiniteSet({f[m] : m \in Msgs})
    BY <2>2, FiniteImage
  <2>4. PICK width \in Nat \ {0} : width = Limits.month
    BY ChaptersAssumption
  <2>5. \A m \in Msgs : f[m] \in Nat
    <3> TAKE m \in Msgs
    <3>1. PICK a \in Nat : a = At[m]
      BY ConversationAssumption
    <3>2. a \div width \in Nat
      OBVIOUS
    <3> QED BY <2>1, <2>4, <3>1, <3>2
  <2> QED BY <2>2, <2>3, <2>5
<1>5. PICK n \in Nat : n = Cardinality(buckets) /\ n = Len(months) /\ \A i \in 1 .. n : months[i] \in Nat
  <2>1. months \in [1 .. Cardinality(buckets) -> buckets] /\ Cardinality(buckets) \in Nat
    BY <1>1, <1>4, InOrderIs
  <2>2. Len(months) = Cardinality(buckets)
    BY <2>1
  <2> QED BY <1>4, <2>1, <2>2
<1>6. cuts \in SUBSET (2 .. n)
  BY <1>3, <1>5 DEF Cuts
<1>7. /\ IsFiniteSet(DOMAIN EraFrom(months, cuts, signals))
      /\ \A i \in DOMAIN EraFrom(months, cuts, signals) : EraFrom(months, cuts, signals)[i].end \in Int
  BY <1>5, <1>6, FoundFits
<1> QED BY <1>3, <1>7, NamedFits

-----------------------------------------------------------------------------
(* The gate.  A side that is over the bar did more than the other; and a side *)
(* is only ever taken if it is over the bar in some era.                      *)

Counts2 == [Sides -> Nat]

AggFits(a) == a.severe \in Counts2 /\ a.init \in Counts2 /\ a.coercive \in Counts2 /\ a.end \in Int

LEMMA SummedIs ==
    ASSUME NEW counts, IsFiniteSet(DOMAIN counts), \A e \in DOMAIN counts : counts[e] \in Counts2
    PROVE  Summed(counts) \in Counts2
<1>1. ASSUME NEW s \in Sides PROVE SumOf([e \in DOMAIN counts |-> counts[e][s]]) \in Nat
  <2>1. PICK f : f = [e \in DOMAIN counts |-> counts[e][s]]
    OBVIOUS
  <2>2. DOMAIN f = DOMAIN counts /\ \A e \in DOMAIN f : f[e] \in Nat
    BY <2>1 DEF Counts2
  <2>3. SumOf(f) \in Nat
    BY <2>2, SumIs
  <2> QED BY <2>1, <2>3
<1> QED BY <1>1 DEF Summed, Counts2

LEMMA LeansIsMore ==
    ASSUME NEW count \in Counts2, NEW side \in Sides, NEW other \in Sides \ {side},
           NEW bump \in Nat, Leans(count, side, 66 + bump)
    PROVE  count[side] > count[other] /\ count["me"] + count["them"] > 0
<1>1. PICK a \in Nat, b \in Nat : a = count[side] /\ b = count[other]
  BY DEF Counts2
<1>2. count["me"] + count["them"] = a + b
  BY <1>1 DEF Counts2, Sides
<1>3. a + b > 0 /\ 100 * a >= (66 + bump) * (a + b)
  BY <1>1, <1>2 DEF Leans
<1>4. PICK t \in Nat : t = a + b
  OBVIOUS
<1>5. bump * t \in Nat /\ (66 + bump) * t = 66 * t + bump * t
  OBVIOUS
<1>6. 100 * a >= 66 * t
  BY <1>3, <1>4, <1>5
<1>7. a > b
  BY <1>3, <1>4, <1>6
<1> QED BY <1>1, <1>2, <1>3, <1>7

LEMMA WeightIs ==
    ASSUME NEW a, AggFits(a), NEW latest \in Int
    PROVE  /\ Weight(a, latest) \in Nat
           /\ a.severe["me"] + a.severe["them"] > 0 => Weight(a, latest) > 0
<1>1. PICK n \in Nat, h \in Nat \ {0}, end \in Int :
        n = Limits.halvings /\ h = Limits.halfLife /\ end = a.end
  BY ChaptersAssumption DEF AggFits
<1>2. PICK w \in Nat : w = a.severe["me"] + a.severe["them"]
  BY DEF AggFits, Counts2, Sides
<1>3. PICK q \in Int : q = (latest - end) \div h
  OBVIOUS
<1>4. n - Least(n, q) \in Nat
  BY <1>3 DEF Least
<1>5. PICK p \in Nat : p = 2 ^ (n - Least(n, q)) /\ p > 0
  BY <1>4, PowerIs
<1>6. Weight(a, latest) = w * p
  BY <1>1, <1>2, <1>3, <1>5 DEF Weight
<1>7. w * p \in Nat /\ (w > 0 => w * p > 0)
  BY <1>2, <1>5
<1> QED BY <1>2, <1>6, <1>7

GateLatest(aggs) == CHOOSE t \in {aggs[e].end : e \in DOMAIN aggs} : \A e \in DOMAIN aggs : aggs[e].end <= t

LEMMA LatestIs ==
    ASSUME NEW aggs, IsFiniteSet(DOMAIN aggs), DOMAIN aggs # {}, \A e \in DOMAIN aggs : AggFits(aggs[e])
    PROVE  GateLatest(aggs) \in Int
<1> DEFINE all == DOMAIN aggs
           below(s) == s # {} => \E e \in s : \A f \in s : aggs[f].end <= aggs[e].end
           G == {s \in SUBSET all : below(s)}
<1>1. \A e \in all : aggs[e].end \in Int
  BY DEF AggFits
<1>2. {} \in G
  OBVIOUS
<1>3. ASSUME NEW s \in SUBSET all, s # {} PROVE \E x \in s : s \ {x} \in G => s \in G
  <2>1. PICK x \in s : TRUE
    BY <1>3
  <2>2. ASSUME s \ {x} \in G PROVE s \in G
    <3>1. CASE s \ {x} = {}
      <4>1. \A f \in s : f = x
        BY <3>1
      <4>2. \A f \in s : aggs[f].end <= aggs[x].end
        BY <1>1, <4>1
      <4> QED BY <4>2
    <3>2. CASE s \ {x} # {}
      <4>1. PICK e \in s \ {x} : \A f \in s \ {x} : aggs[f].end <= aggs[e].end
        BY <2>2, <3>2
      <4>2. e \in all /\ x \in all /\ aggs[e].end \in Int /\ aggs[x].end \in Int
        BY <1>1
      <4>3. CASE aggs[x].end <= aggs[e].end
        BY <4>1, <4>3
      <4>4. CASE aggs[e].end <= aggs[x].end
        <5>1. ASSUME NEW f \in s PROVE aggs[f].end <= aggs[x].end
          <6>1. aggs[f].end \in Int
            BY <1>1
          <6>2. f = x \/ f \in s \ {x}
            OBVIOUS
          <6> QED BY <4>1, <4>2, <4>4, <6>1, <6>2
        <5> QED BY <5>1
      <4> QED BY <4>2, <4>3, <4>4
    <3> QED BY <3>1, <3>2
  <2> QED BY <2>2
<1> HIDE DEF G
<1>4. \A s \in SUBSET all : s \in G
  BY <1>2, <1>3, OneByOne
<1> USE DEF G
<1>5. PICK e \in all : \A f \in all : aggs[f].end <= aggs[e].end
  BY <1>4
<1>6. \E t \in {aggs[f].end : f \in all} : \A f \in all : aggs[f].end <= t
  BY <1>5
<1>7. GateLatest(aggs) \in {aggs[f].end : f \in all}
  BY <1>6 DEF GateLatest
<1> QED BY <1>1, <1>7

LEMMA GateTakesTripped ==
    ASSUME NEW aggs, IsFiniteSet(DOMAIN aggs), \A e \in DOMAIN aggs : AggFits(aggs[e]),
           NEW bump \in Nat, Gate(aggs, 66 + bump).frame = "support"
    PROVE  /\ Gate(aggs, 66 + bump).direction \in Sides
           /\ \E e \in DOMAIN aggs : Gate(aggs, 66 + bump).direction \in Trips(aggs[e], 66 + bump)
<1> DEFINE trips(e) == Trips(aggs[e], 66 + bump)
           latest == GateLatest(aggs)
           tripping(side) == {d \in DOMAIN aggs : side \in trips(d)}
           weights(side) == [e \in tripping(side) |-> Weight(aggs[e], latest)]
           weigh(side) == SumOf(weights(side))
           toward == IF \A e \in DOMAIN aggs : trips(e) = {} THEN None
                     ELSE IF weigh("them") >= weigh("me") THEN "them" ELSE "me"
<1>1. PICK gate : gate = Gate(aggs, 66 + bump)
  OBVIOUS
<1>2. gate.direction = toward /\ gate.frame = IF toward = None THEN "two_readings" ELSE "support"
  BY <1>1 DEF Gate, GateLatest
<1>3. toward # None
  BY <1>1, <1>2
<1>4. ~ \A e \in DOMAIN aggs : trips(e) = {}
  BY <1>3
<1>5. \A e \in DOMAIN aggs : trips(e) \subseteq Sides
  BY DEF Trips
<1> HIDE DEF trips
<1>6. latest \in Int
  BY <1>4, LatestIs
<1> HIDE DEF latest
<1>7. ASSUME NEW side \in Sides
      PROVE  /\ weigh(side) \in Nat
             /\ tripping(side) = {} => weigh(side) = 0
             /\ tripping(side) # {} => weigh(side) > 0
  <2>1. PICK f : f = weights(side)
    OBVIOUS
  <2>2. DOMAIN f = tripping(side) /\ IsFiniteSet(DOMAIN f)
    <3>1. DOMAIN f = tripping(side)
      BY <2>1
    <3>2. tripping(side) \in SUBSET DOMAIN aggs
      OBVIOUS
    <3> QED BY <3>1, <3>2, FS_Subset
  <2>3. ASSUME NEW e \in tripping(side) PROVE f[e] \in Nat /\ f[e] > 0
    <3>1. AggFits(aggs[e]) /\ side \in Trips(aggs[e], 66 + bump) /\ f[e] = Weight(aggs[e], latest)
      BY <2>1 DEF trips
    <3>2. aggs[e].severe \in Counts2 /\ Leans(aggs[e].severe, side, 66 + bump)
      BY <3>1 DEF AggFits, Trips
    <3>3. aggs[e].severe["me"] + aggs[e].severe["them"] > 0
      BY <3>2 DEF Leans
    <3> QED BY <1>6, <3>1, <3>3, WeightIs
  <2>4. /\ SumOf(f) \in Nat /\ (DOMAIN f = {} => SumOf(f) = 0)
        /\ DOMAIN f # {} => SumOf(f) > 0
    BY <2>2, <2>3, SumIs
  <2> QED BY <2>1, <2>2, <2>4
<1> HIDE DEF weigh, weights
<1>8. tripping("me") # {} \/ tripping("them") # {}
  BY <1>4, <1>5 DEF Sides
<1>9. "me" \in Sides /\ "them" \in Sides
  BY DEF Sides
<1>10. toward \in Sides /\ tripping(toward) # {}
  <2>1. CASE weigh("them") >= weigh("me")
    <3>1. tripping("them") # {}
      BY <1>7, <1>8, <1>9, <2>1
    <3>2. toward = "them"
      BY <1>4, <2>1
    <3> QED BY <1>9, <3>1, <3>2
  <2>2. CASE ~(weigh("them") >= weigh("me"))
    <3>1. tripping("me") # {}
      BY <1>7, <1>9, <2>2
    <3>2. toward = "me"
      BY <1>4, <2>2
    <3> QED BY <1>9, <3>1, <3>2
  <2> QED BY <2>1, <2>2
<1>11. gate.direction \in Sides /\ \E e \in DOMAIN aggs : gate.direction \in trips(e)
  BY <1>2, <1>10
<1> QED BY <1>1, <1>11 DEF trips

-----------------------------------------------------------------------------
(* What the gate is given: figures of finite tables, and a bar that the owner's *)
(* labels only ever raise.                                                    *)

ReadsFit ==
    /\ Len(reads) \in Nat /\ DOMAIN reads = 1 .. Len(reads)
    /\ reads = [i \in 1 .. Len(reads) |-> reads[i]]
    /\ \A i \in DOMAIN reads : reads[i].result = Blank \/ IsFiniteSet(DOMAIN reads[i].result.patterns)

GateInv ==
    /\ held \subseteq Rows
    /\ TableFits(episodes) /\ ReadsFit
    /\ metrics["eras"] = None \/ ErasFit(metrics["eras"])
    /\ bias = None \/ bias.bump \in Nat

LEMMA BumpIs ==
    ASSUME NEW labels, IsFiniteSet(DOMAIN labels) PROVE Bias(labels).bump \in Nat
<1> DEFINE n(s) == Cardinality(HighOf(labels, s))
           h(s) == Cardinality(HighOf(labels, s) \cap Hostile(labels))
           apart == n("me") * n("them")
           lenient == h("them") * n("me") - h("me") * n("them")
<1>1. ASSUME NEW s \in Sides PROVE n(s) \in Nat /\ h(s) \in Nat
  <2>1. IsFiniteSet(HighOf(labels, s)) /\ IsFiniteSet(HighOf(labels, s) \cap Hostile(labels))
    BY FS_Subset DEF HighOf, Over
  <2> QED BY <2>1, FS_CardinalityType
<1>2. PICK a \in Nat, b \in Nat, c \in Nat, d \in Nat, f \in Nat \ {0} :
        a = n("me") /\ b = n("them") /\ c = h("me") /\ d = h("them") /\ f = Floors.high
  BY <1>1, ChaptersAssumption DEF Sides
<1>3. PICK p \in Nat, l \in Int : p = a * b /\ l = d * a - c * b
  OBVIOUS
<1>4. p = apart /\ l = lenient
  BY <1>2, <1>3
<1>5. Bias(labels).bump = IF a < f \/ b < f THEN 12
                          ELSE IF 100 * l > 15 * p THEN Least(12, (60 * l + p) \div (2 * p)) ELSE 0
  BY <1>2, <1>4 DEF Bias
<1>6. ASSUME ~(a < f \/ b < f), 100 * l > 15 * p PROVE Least(12, (60 * l + p) \div (2 * p)) \in Nat
  <2>1. a > 0 /\ b > 0
    BY <1>6
  <2>2. p > 0
    BY <1>3, <2>1
  <2>3. 60 * l + p \in Nat /\ 2 * p \in Nat \ {0}
    BY <1>6, <2>2
  <2>4. (60 * l + p) \div (2 * p) \in Nat
    BY <2>3
  <2> QED BY <2>4 DEF Least
<1> QED BY <1>5, <1>6

LEMMA VerdictIs ==
    ASSUME ReadsFit, NEW table, NEW s, VerdictOn(s, reads, table) \notin {None, Blank}
    PROVE  Counted(VerdictOn(s, reads, table)) \in Counts2
<1>1. PICK about, v : about = {i \in DOMAIN reads : FightOf(reads[i], table) = s} /\ v = VerdictOn(s, reads, table)
  OBVIOUS
<1>2. v = IF about = {} THEN None ELSE reads[Max(about)].result
  BY <1>1 DEF VerdictOn
<1>3. about # {} /\ v = reads[Max(about)].result
  BY <1>1, <1>2
<1>4. Max(about) \in DOMAIN reads
  <2>1. about \in SUBSET (1 .. Len(reads)) /\ Len(reads) \in Nat
    BY <1>1 DEF ReadsFit
  <2>2. Max(about) \in about
    BY <1>3, <2>1, MaxIs
  <2> QED BY <1>1, <2>2
<1>5. IsFiniteSet(DOMAIN v.patterns)
  BY <1>1, <1>3, <1>4 DEF ReadsFit
<1>6. ASSUME NEW side \in Sides
      PROVE  Cardinality({i \in DOMAIN v.patterns : /\ ~v.patterns[i].repair
                                                    /\ v.patterns[i].kind \in Coercive
                                                    /\ v.patterns[i].side = side}) \in Nat
  BY <1>5, FS_Subset, FS_CardinalityType
<1>7. Counted(v) \in Counts2
  BY <1>6 DEF Counted, Counts2
<1> QED BY <1>1, <1>7

LEMMA AggregateFits ==
    ASSUME TableFits(episodes), ReadsFit, ErasFit(Eras), Countable(Eras, episodes, reads), NEW e \in DOMAIN Eras
    PROVE  AggFits(Aggregate(Eras[e], episodes, reads))
<1> DEFINE some == {s \in DOMAIN episodes : episodes[s].start \in Eras[e].start .. Eras[e].end}
           read == {s \in some : VerdictOn(s, reads, episodes) # None}
<1>1. IsFiniteSet(some) /\ IsFiniteSet(read)
  BY FS_Subset DEF TableFits
<1>2. PICK f : f = [s \in some |-> episodes[s].severe]
  OBVIOUS
<1>3. Summed(f) \in Counts2
  <2>1. DOMAIN f = some /\ \A s \in some : f[s] \in Counts2
    BY <1>2 DEF TableFits, FightFits, Counts2
  <2> QED BY <1>1, <2>1, SummedIs
<1>4. PICK g : g = [s \in read |-> Counted(VerdictOn(s, reads, episodes))]
  OBVIOUS
<1>5. Summed(g) \in Counts2
  <2>1. DOMAIN g = read
    BY <1>4
  <2>2. ASSUME NEW s \in read PROVE g[s] \in Counts2
    <3>1. VerdictOn(s, reads, episodes) # Blank
      BY DEF Countable
    <3>2. VerdictOn(s, reads, episodes) \notin {None, Blank}
      BY <3>1
    <3> HIDE DEF read
    <3> QED BY <1>4, <3>2, VerdictIs
  <2> HIDE DEF read
  <2> QED BY <1>1, <2>1, <2>2, SummedIs
<1>6. PICK c : c = [side \in Sides |-> Cardinality({s \in some : episodes[s].initiator = side})]
  OBVIOUS
<1>7. c \in Counts2
  <2>1. ASSUME NEW side \in Sides PROVE Cardinality({s \in some : episodes[s].initiator = side}) \in Nat
    BY <1>1, FS_Subset, FS_CardinalityType
  <2> QED BY <1>6, <2>1 DEF Counts2
<1>8. Eras[e].end \in Int
  BY DEF ErasFit, EraFits
<1>9. PICK k : Aggregate(Eras[e], episodes, reads) =
                   [end |-> Eras[e].end, episodes |-> k, severe |-> Summed(f), init |-> c, coercive |-> Summed(g)]
  BY <1>2, <1>4, <1>6 DEF Aggregate
<1> QED BY <1>3, <1>5, <1>7, <1>8, <1>9 DEF AggFits

LEMMA NoVerdictOnHeat ==
    ASSUME GateInv PROVE HeatAloneIsNoVerdict
<1> SUFFICES ASSUME Countable(Eras, episodes, reads),
                    "support" \in {LetterMaterial.gate[1], FindingsMaterial.gate.frame}
             PROVE  /\ research /\ Calibrated
                    /\ \E e \in DOMAIN Eras : \A other \in Sides \ {GateFor.direction} :
                          /\ Aggregate(Eras[e], episodes, reads).coercive[GateFor.direction]
                               > Aggregate(Eras[e], episodes, reads).coercive[other]
                          /\ Aggregate(Eras[e], episodes, reads).init[GateFor.direction]
                               > Aggregate(Eras[e], episodes, reads).init[other]
  BY DEF HeatAloneIsNoVerdict
<1>1. GateFor.frame = "support"
  <2>1. LetterMaterial.gate = <<GateFor.frame, GateFor.direction>>
    BY DEF LetterMaterial
  <2>2. FindingsMaterial.gate = GateFor
    BY DEF FindingsMaterial
  <2>3. LetterMaterial.gate[1] = GateFor.frame
    BY <2>1
  <2> QED BY <2>2, <2>3
<1>2. PICK aggs, gate : /\ aggs = [e \in DOMAIN Eras |-> Aggregate(Eras[e], episodes, reads)]
                        /\ gate = Gate(aggs, Bar)
  OBVIOUS
<1>3. GateFor = IF research /\ Calibrated THEN gate
                ELSE [eras |-> [e \in DOMAIN gate.eras |-> {}], direction |-> gate.direction, frame |-> "two_readings"]
  BY <1>2 DEF GateFor
<1>4. research /\ Calibrated /\ GateFor = gate
  BY <1>1, <1>3
<1>5. PICK bump \in Nat : Bar = 66 + bump
  BY DEF Bar, GateInv
<1>6. ErasFit(Eras)
  <2>1. CASE metrics["eras"] = None
    <3>1. Eras = <<>> /\ DOMAIN Eras = {}
      BY <2>1 DEF Eras
    <3> QED BY <3>1, FS_EmptySet DEF ErasFit
  <2>2. CASE metrics["eras"] # None
    BY <2>2 DEF Eras, GateInv
  <2> QED BY <2>1, <2>2
<1>7. TableFits(episodes) /\ ReadsFit
  BY DEF GateInv
<1>8. DOMAIN aggs = DOMAIN Eras /\ IsFiniteSet(DOMAIN aggs) /\ \A e \in DOMAIN aggs : AggFits(aggs[e])
  BY <1>2, <1>6, <1>7, AggregateFits DEF ErasFit
<1>9. Gate(aggs, 66 + bump).frame = "support" /\ gate = Gate(aggs, 66 + bump)
  BY <1>1, <1>2, <1>4, <1>5
<1>10. /\ Gate(aggs, 66 + bump).direction \in Sides
       /\ \E e \in DOMAIN aggs : Gate(aggs, 66 + bump).direction \in Trips(aggs[e], 66 + bump)
  BY <1>8, <1>9, GateTakesTripped
<1>11. PICK side \in Sides, e \in DOMAIN Eras : side = GateFor.direction /\ side \in Trips(aggs[e], 66 + bump)
  BY <1>4, <1>8, <1>9, <1>10
<1>12. ASSUME NEW other \in Sides \ {side}
       PROVE  aggs[e].coercive[side] > aggs[e].coercive[other] /\ aggs[e].init[side] > aggs[e].init[other]
  <2>1. aggs[e].coercive \in Counts2 /\ aggs[e].init \in Counts2
    BY <1>8 DEF AggFits
  <2>2. Leans(aggs[e].coercive, side, 66 + bump) /\ Leans(aggs[e].init, side, 66 + bump)
    BY <1>11 DEF Trips
  <2> QED BY <2>1, <2>2, LeansIsMore
<1>13. aggs[e] = Aggregate(Eras[e], episodes, reads)
  BY <1>2
<1> QED BY <1>4, <1>11, <1>12, <1>13

LEMMA GateBegins == Init => GateInv
<1> SUFFICES ASSUME Init PROVE GateInv
  OBVIOUS
<1>1. /\ held \subseteq Rows /\ episodes = <<>> /\ reads = <<>> /\ bias = None
      /\ metrics = [k \in Keys |-> None]
  BY ChaptersAssumption, ArchivesAssumption DEF Init, Figures, ChaptersInit
<1>2. metrics["eras"] = None
  BY <1>1 DEF Keys
<1>3. TableFits(episodes)
  <2>1. DOMAIN episodes = {}
    BY <1>1
  <2> QED BY <2>1, FS_EmptySet DEF TableFits
<1>4. ReadsFit
  <2>1. Len(reads) = 0 /\ DOMAIN reads = {} /\ 1 .. Len(reads) = {}
    BY <1>1
  <2>2. reads = [i \in 1 .. Len(reads) |-> reads[i]]
    BY <1>1
  <2> QED BY <2>1, <2>2 DEF ReadsFit
<1> QED BY <1>1, <1>2, <1>3, <1>4 DEF GateInv

LEMMA MsgsAre ==
    ASSUME GateInv PROVE IsFiniteSet(held) /\ IsFiniteSet(Msgs) /\ Msgs \subseteq Rows
<1>1. held \in SUBSET Rows /\ IsFiniteSet(Rows)
  BY ChaptersAssumption DEF GateInv
<1>2. Msgs \in SUBSET held
  BY DEF Msgs, Worded
<1> QED BY <1>1, <1>2, FS_Subset

LEMMA ReadPatternsKeeps ==
    ASSUME ReadsFit, NEW s, NEW r \in Reads, ReadPatterns(s, r) PROVE ReadsFit'
<1> DEFINE stay == {i \in DOMAIN reads : reads[i].members # Members(episodes[s])}
           left == AtPlaces(reads, stay)
           row == [members |-> Members(episodes[s]), result |-> r]
<1>1. PICK n \in Nat : n = Len(reads) /\ DOMAIN reads = 1 .. n
  BY DEF ReadsFit
<1>2. stay \in SUBSET (1 .. n)
  BY <1>1
<1>3. PICK old, c : old = left /\ c = Cardinality(stay)
  OBVIOUS
<1>0. ASSUME NEW seq, NEW places \in SUBSET (1 .. n)
      PROVE  /\ Cardinality(places) \in Nat
             /\ AtPlaces(seq, places) = [k \in 1 .. Cardinality(places) |-> AtPlaces(seq, places)[k]]
             /\ \A k \in 1 .. Cardinality(places) : \E i \in places : AtPlaces(seq, places)[k] = seq[i]
  BY TakenFromPlaces
<1>4. /\ c \in Nat /\ old = [k \in 1 .. c |-> old[k]]
      /\ \A k \in 1 .. c : \E i \in stay : old[k] = reads[i]
  <2> HIDE DEF stay
  <2> QED BY <1>2, <1>3, <1>0
<1>5. reads' = Append(old, row)
  BY <1>3 DEF ReadPatterns
<1>6. Len(old) = c /\ old \in Seq({old[k] : k \in 1 .. c})
  BY <1>4
<1>7. /\ Len(reads') = c + 1 /\ DOMAIN reads' = 1 .. (c + 1)
      /\ reads' = [k \in 1 .. (c + 1) |-> reads'[k]]
      /\ reads'[c + 1] = row /\ \A k \in 1 .. c : reads'[k] = old[k]
  <2> HIDE DEF row
  <2>1. PICK M : old \in Seq(M) /\ row \in M
    <3>1. PICK M : M = {old[k] : k \in 1 .. c} \cup {row}
      OBVIOUS
    <3>2. old \in [1 .. c -> M]
      BY <1>4, <3>1
    <3>3. old \in Seq(M)
      BY <1>4, <3>2
    <3> QED BY <3>1, <3>3
  <2>2. PICK new : new = Append(old, row)
    OBVIOUS
  <2>3. new \in Seq(M) /\ Len(new) = c + 1 /\ new[c + 1] = row /\ \A k \in 1 .. c : new[k] = old[k]
    BY <1>4, <1>6, <2>1, <2>2
  <2>4. DOMAIN new = 1 .. (c + 1) /\ new = [k \in 1 .. (c + 1) |-> new[k]]
    BY <2>3
  <2> QED BY <1>5, <2>2, <2>3, <2>4
<1>8. ASSUME NEW k \in 1 .. (c + 1)
      PROVE  reads'[k].result = Blank \/ IsFiniteSet(DOMAIN reads'[k].result.patterns)
  <2>1. CASE k = c + 1
    <3>1. reads'[k].result = r
      BY <1>7, <2>1
    <3> QED BY <3>1, ChaptersAssumption
  <2>2. CASE k # c + 1
    <3>1. k \in 1 .. c
      BY <1>4, <2>2
    <3>2. PICK i \in stay : reads'[k] = reads[i]
      BY <1>4, <1>7, <3>1
    <3> QED BY <3>2 DEF ReadsFit
  <2> QED BY <2>1, <2>2
<1> QED BY <1>4, <1>7, <1>8 DEF ReadsFit

LEMMA EpisodesNowFit ==
    ASSUME GateInv PROVE TableFits(EpisodesNow(episodes))
BY MsgsAre, FightsFit, UpsertedFits DEF EpisodesNow

\* What was exported, computed, named, read or labelled leaves the tables fit.
LEMMA GateKeeps ==
    ASSUME GateInv, OverviewInv, BriefsNext PROVE GateInv'
<1>1. ASSUME UNCHANGED <<held, episodes, reads, bias>>, metrics'["eras"] = metrics["eras"] PROVE GateInv'
  BY <1>1 DEF GateInv, TableFits, FightFits, ReadsFit, ErasFit, EraFits
<1>2. ASSUME UNCHANGED <<held, episodes, reads, bias, metrics>> PROVE GateInv'
  BY <1>1, <1>2
<1>3. Keyed
  BY DEF OverviewInv
<1>4. ASSUME NEW b \in Arrivals, Import(b) PROVE GateInv'
  <2>1. metrics'["eras"] = metrics["eras"]
    BY <1>3, <1>4 DEF Import, Keyed, Keys
  <2>2. held' \subseteq Rows /\ UNCHANGED <<episodes, reads, bias>>
    BY <1>4, ChaptersAssumption DEF Import, GateInv
  <2> QED BY <2>1, <2>2 DEF GateInv, TableFits, FightFits, ReadsFit, ErasFit, EraFits
<1>5. ASSUME NEW s \in Scorings, Rescore(s) PROVE GateInv'
  <2>1. metrics'["eras"] = metrics["eras"]
    BY <1>3, <1>5 DEF Rescore, Keyed, Keys
  <2> QED BY <1>1, <1>5, <2>1 DEF Rescore
<1>6. ASSUME NEW z \in Clocks, SetClock(z) PROVE GateInv'
  <2>1. metrics'["eras"] = metrics["eras"]
    BY <1>3, <1>6 DEF SetClock, Keyed, Keys
  <2> QED BY <1>1, <1>6, <2>1 DEF SetClock
<1>7. ASSUME NEW key \in {"overview", "findings"}, NEW value, Cached(key, value) PROVE GateInv'
  <2>1. metrics'["eras"] = metrics["eras"]
    BY <1>3, <1>7 DEF Cached, Keyed, Keys
  <2> QED BY <1>1, <1>7, <2>1 DEF Cached
<1>8. CASE ReadOverview \/ RefreshOverview \/ ReadFindings \/ RefreshFindings
  BY <1>7, <1>8 DEF ReadOverview, RefreshOverview, ReadFindings, RefreshFindings
<1>9. CASE RefreshEpisodes
  <2>1. TableFits(episodes') /\ UNCHANGED <<held, reads, bias, metrics>>
    BY <1>9, EpisodesNowFit DEF RefreshEpisodes
  <2> QED BY <2>1 DEF GateInv, ReadsFit, ErasFit, EraFits
<1>10. ASSUME NEW eras, ErasFit(eras), metrics'["eras"] = eras, UNCHANGED <<held, reads, bias>>, TableFits(episodes')
       PROVE  GateInv'
  BY <1>10 DEF GateInv, ReadsFit, ErasFit, EraFits
<1>11. CASE RefreshEras
  <2>1. PICK eras \in ErasNow(episodes, metrics["eras"]) : Cached("eras", eras)
    BY <1>11 DEF RefreshEras
  <2>2. ErasFit(eras)
    BY MsgsAre, ErasNowFit
  <2>3. metrics'["eras"] = eras /\ UNCHANGED <<held, reads, bias, episodes>>
    BY <1>3, <2>1 DEF Cached, Keyed, Keys
  <2> QED BY <1>10, <2>2, <2>3 DEF GateInv
<1>12. CASE Phase3
  <2>1. PICK eras : eras = metrics'["eras"]
    OBVIOUS
  <2>2. eras \in ErasNow(episodes', metrics["eras"])
    BY <1>3, <1>12, <2>1, Phase3Keeps
  <2>3. PICK table : table = episodes'
    OBVIOUS
  <2>4. ErasFit(eras)
    BY <2>2, <2>3, MsgsAre, ErasNowFit
  <2>5. TableFits(episodes') /\ UNCHANGED <<held, reads, bias>>
    BY <1>12, EpisodesNowFit DEF Phase3
  <2> QED BY <1>10, <2>1, <2>4, <2>5
<1>13. ASSUME NEW s \in DOMAIN episodes, Narrate(s) PROVE GateInv'
  <2>1. episodes' = [episodes EXCEPT ![s].note = "note"] /\ UNCHANGED <<held, reads, bias, metrics>>
    BY <1>13 DEF Narrate
  <2>2. PICK r : r = episodes[s]
    OBVIOUS
  <2>3. FightFits([r EXCEPT !.note = "note"])
    BY <2>2 DEF GateInv, TableFits, FightFits
  <2>4. DOMAIN episodes' = DOMAIN episodes /\ episodes'[s] = [r EXCEPT !.note = "note"]
        /\ \A k \in DOMAIN episodes : k # s => episodes'[k] = episodes[k]
    BY <2>1, <2>2
  <2>5. TableFits(episodes')
    BY <2>3, <2>4 DEF GateInv, TableFits
  <2> QED BY <2>1, <2>5 DEF GateInv, ReadsFit, ErasFit, EraFits
<1>14. ASSUME NEW s \in DOMAIN Eras, NameEra(s) PROVE GateInv'
  <2>1. Cached("eras", [Eras EXCEPT ![s].name = "name"])
    BY <1>14 DEF NameEra
  <2>2. PICK eras, new, e : eras = Eras /\ new = [Eras EXCEPT ![s].name = "name"] /\ e = Eras[s]
    OBVIOUS
  <2>3. ErasFit(eras)
    <3>1. CASE metrics["eras"] = None
      <4>1. DOMAIN Eras = {}
        BY <3>1 DEF Eras
      <4> QED BY <4>1
    <3>2. CASE metrics["eras"] # None
      BY <2>2, <3>2 DEF Eras, GateInv
    <3> QED BY <3>1, <3>2
  <2>4. EraFits([e EXCEPT !.name = "name"])
    BY <2>2, <2>3 DEF ErasFit, EraFits
  <2>5. DOMAIN new = DOMAIN eras /\ new[s] = [e EXCEPT !.name = "name"]
        /\ \A k \in DOMAIN eras : k # s => new[k] = eras[k]
    BY <2>2
  <2>6. ErasFit(new)
    BY <2>3, <2>4, <2>5 DEF ErasFit
  <2>7. metrics'["eras"] = new /\ UNCHANGED <<held, reads, bias, episodes>>
    BY <1>3, <2>1, <2>2 DEF Cached, Keyed, Keys
  <2> QED BY <1>10, <2>6, <2>7 DEF GateInv
<1>15. ASSUME NEW l \in Marks, DrawSample(l) PROVE GateInv'
  BY <1>2, <1>15 DEF DrawSample
<1>16. CASE Apply \/ ApplyKilled
  <2>1. bias' = Bias(Rejoined(marks, held, tone)) /\ UNCHANGED <<held, episodes, reads, metrics>>
    BY <1>16 DEF Apply, ApplyKilled
  <2>2. IsFiniteSet(DOMAIN Rejoined(marks, held, tone))
    <3>1. DOMAIN Rejoined(marks, held, tone) \in SUBSET held
      BY DEF Rejoined
    <3> QED BY <3>1, MsgsAre, FS_Subset
  <2>3. bias'.bump \in Nat
    BY <2>1, <2>2, BumpIs
  <2> QED BY <2>1, <2>3 DEF GateInv, TableFits, FightFits, ReadsFit, ErasFit, EraFits
<1>17. ASSUME NEW s \in DOMAIN episodes, NEW r \in Reads, ReadPatterns(s, r) PROVE GateInv'
  <2>1. ReadsFit' /\ UNCHANGED <<held, episodes, bias, metrics>>
    BY <1>17, ReadPatternsKeeps DEF GateInv, ReadPatterns
  <2> QED BY <2>1 DEF GateInv, TableFits, FightFits, ErasFit, EraFits
<1>18. CASE Agree \/ ExportBrief
  BY <1>2, <1>18 DEF Agree, ExportBrief
<1>19. CASE Clear
  <2>1. /\ held' = {} /\ episodes' = <<>> /\ reads' = <<>> /\ bias' = bias
        /\ metrics'["eras"] = None
    BY <1>19 DEF Clear, Keys
  <2>2. TableFits(episodes')
    <3>1. DOMAIN episodes' = {}
      BY <2>1
    <3> QED BY <3>1, FS_EmptySet DEF TableFits
  <2>3. ReadsFit'
    <3>1. Len(reads') = 0 /\ DOMAIN reads' = {} /\ 1 .. Len(reads') = {}
      BY <2>1
    <3>2. reads' = [i \in 1 .. Len(reads') |-> reads'[i]]
      BY <2>1
    <3> QED BY <3>1, <3>2 DEF ReadsFit
  <2> QED BY <2>1, <2>2, <2>3 DEF GateInv
<1> QED
  BY <1>4, <1>5, <1>6, <1>8, <1>9, <1>11, <1>12, <1>13, <1>14, <1>15, <1>16, <1>17, <1>18, <1>19
     DEF BriefsNext, ChaptersNext

LEMMA GateInvHolds == Spec => []GateInv
<1>1. Init => GateInv
  BY GateBegins
<1>2. GateInv /\ OverviewInv /\ [Next]_lensesVars => GateInv'
  <2> SUFFICES ASSUME GateInv, OverviewInv, [Next]_lensesVars PROVE GateInv'
    OBVIOUS
  <2>1. CASE BriefsNext
    BY <2>1, GateKeeps
  <2>2. CASE UNCHANGED chaptersVars
    BY <2>2 DEF chaptersVars, GateInv, TableFits, FightFits, ReadsFit, ErasFit, EraFits
  <2> QED BY <2>1, <2>2 DEF Next, lensesVars
<1> QED BY <1>1, <1>2, OverviewInvHolds, PTL DEF Spec

\* Whatever was imported, scored, labelled, read and recomputed, in any order: the
\* gate takes a side only with the owner calibrated and the preview on, and only one
\* whose fights show more coercion, and more begun, than the other's in some era
\* (abuse.ts: powerBalanceGate, gateFor).
THEOREM NoSideOnHeatAlone == Spec => []HeatAloneIsNoVerdict
BY GateInvHolds, NoVerdictOnHeat, PTL

\* Whatever was imported and scored, at any calibration: the table of fights holds
\* every run of hard messages with no long gap that is long enough, whole and once,
\* with each side's count of it, and a repair is later than the fight it repairs
\* (episodes.ts: detectEpisodes).
THEOREM FightsAreWhole == Spec => []EpisodesAreTheFights
<1>1. GateInv => EpisodesAreTheFights
  <2> SUFFICES ASSUME GateInv PROVE EpisodesAreTheFights
    OBVIOUS
  <2>1. Msgs \in SUBSET Rows
    BY MsgsAre
  <2> QED BY <2>1, FightsAreRuns DEF EpisodesAreTheFights, RunOf, JoinsUpTo
<1> QED BY <1>1, GateInvHolds, PTL

-----------------------------------------------------------------------------
(* A count told apart by a key adds up to the count.                         *)

Keying(S, K, key) == [k \in K |-> Cardinality({m \in S : key[m] = k})]

LEMMA TwoParts ==
    ASSUME NEW A, NEW B, IsFiniteSet(A), IsFiniteSet(B), A \cap B = {}
    PROVE  /\ IsFiniteSet(A \cup B) /\ Cardinality(A \cup B) = Cardinality(A) + Cardinality(B)
           /\ Cardinality(A) \in Nat /\ Cardinality(B) \in Nat
<1>1. Cardinality(A \cap B) = 0
  BY FS_EmptySet
<1>2. Cardinality(A) \in Nat /\ Cardinality(B) \in Nat
  BY FS_CardinalityType
<1>3. /\ IsFiniteSet(A \cup B)
      /\ Cardinality(A \cup B) = Cardinality(A) + Cardinality(B) - Cardinality(A \cap B)
  BY FS_Union
<1>4. Cardinality(A \cup B) \in Nat
  BY <1>3, FS_CardinalityType
<1> QED BY <1>1, <1>2, <1>3, <1>4

LEMMA SumByKey ==
    ASSUME NEW S, IsFiniteSet(S), NEW K, IsFiniteSet(K), NEW key, \A m \in S : key[m] \in K
    PROVE  SumOf(Keying(S, K, key)) = Cardinality(S)
<1>1. PICK f : f = Keying(S, K, key)
  OBVIOUS
<1>2. DOMAIN f = K /\ \A k \in K : f[k] = Cardinality({m \in S : key[m] = k})
  BY <1>1 DEF Keying
<1>3. \A T \in SUBSET S : IsFiniteSet(T) /\ Cardinality(T) \in Nat
  BY FS_Subset, FS_CardinalityType
<1>4. \A x \in K : f[x] \in Nat
  <2> TAKE x \in K
  <2>1. {m \in S : key[m] = x} \in SUBSET S
    OBVIOUS
  <2> QED BY <1>2, <1>3, <2>1
<1>5. PICK h : h = CHOOSE g : Tallies(f, g)
  OBVIOUS
<1>6. SumOf(f) = h[K]
  BY <1>2, <1>5 DEF SumOf, MapThenSumSet, MapThenFoldSet, Tallies
<1>7. Tallies(f, h)
  BY <1>2, <1>4, <1>5, TalliesExist
<1>8. /\ h[{}] = 0
      /\ \A s \in SUBSET K : s # {} => h[s] = f[CHOOSE x \in s : TRUE] + h[s \ {CHOOSE x \in s : TRUE}]
  BY <1>2, <1>7 DEF Tallies
<1> DEFINE of(s) == {m \in S : key[m] \in s}
           G == {s \in SUBSET K : h[s] = Cardinality(of(s))}
<1>9. {} \in G
  <2>1. of({}) = {}
    OBVIOUS
  <2> QED BY <1>8, <2>1, FS_EmptySet
<1>10. ASSUME NEW s \in SUBSET K, s # {} PROVE \E x \in s : s \ {x} \in G => s \in G
  <2>1. PICK x \in s : x = CHOOSE y \in s : TRUE
    BY <1>10
  <2>2. PICK one : one = {m \in S : key[m] = x}
    OBVIOUS
  <2>3. h[s] = f[x] + h[s \ {x}] /\ f[x] = Cardinality(one)
    <3>1. h[s] = f[x] + h[s \ {x}]
      BY <1>8, <1>10, <2>1
    <3>2. f[x] = Cardinality(one)
      BY <1>2, <2>2
    <3> QED BY <3>1, <3>2
  <2>4. PICK rest : rest = of(s \ {x})
    OBVIOUS
  <2>5. of(s) = one \cup rest /\ one \cap rest = {} /\ one \in SUBSET S /\ rest \in SUBSET S
    BY <2>2, <2>4
  <2>6. Cardinality(of(s)) = Cardinality(one) + Cardinality(rest)
    BY <1>3, <2>5, TwoParts
  <2>7. ASSUME s \ {x} \in G PROVE s \in G
    <3>1. h[s \ {x}] = Cardinality(rest)
      BY <2>4, <2>7
    <3> QED BY <2>3, <2>6, <3>1
  <2> HIDE DEF G
  <2> QED BY <2>7
<1>11. K \in G
  <2>1. K \in SUBSET K
    OBVIOUS
  <2> HIDE DEF G
  <2> QED BY <1>9, <1>10, <2>1, OneByOne
<1>12. of(K) = S
  OBVIOUS
<1> QED BY <1>1, <1>6, <1>11, <1>12

\* Each of some keys has so many: there are as many times so many.
LEMMA ManyEach ==
    ASSUME NEW S, IsFiniteSet(S), NEW K, IsFiniteSet(K), NEW key, NEW least \in Nat,
           \A k \in K : Cardinality({m \in S : key[m] = k}) >= least
    PROVE  least * Cardinality(K) <= Cardinality(S)
<1>1. \A T \in SUBSET S : IsFiniteSet(T) /\ Cardinality(T) \in Nat /\ Cardinality(T) <= Cardinality(S)
  BY FS_Subset, FS_CardinalityType
<1>2. \A T \in SUBSET K : IsFiniteSet(T) /\ Cardinality(T) \in Nat
  BY FS_Subset, FS_CardinalityType
<1> DEFINE of(s) == {m \in S : key[m] \in s}
           G == {s \in SUBSET K : least * Cardinality(s) <= Cardinality(of(s))}
<1>3. {} \in G
  <2>1. of({}) = {} /\ Cardinality({}) = 0
    BY FS_EmptySet
  <2> QED BY <2>1
<1>4. ASSUME NEW s \in SUBSET K, s # {} PROVE \E x \in s : s \ {x} \in G => s \in G
  <2>1. PICK x \in s : TRUE
    BY <1>4
  <2>2. PICK one, rest, left : one = {m \in S : key[m] = x} /\ rest = of(s \ {x}) /\ left = s \ {x}
    OBVIOUS
  <2>3. of(s) = one \cup rest /\ one \cap rest = {} /\ one \in SUBSET S /\ rest \in SUBSET S
    BY <2>2
  <2>4. Cardinality(of(s)) = Cardinality(one) + Cardinality(rest)
    BY <1>1, <2>3, TwoParts
  <2>5. Cardinality(s) = Cardinality(left) + 1
    <3>1. s = left \cup {x} /\ left \cap {x} = {} /\ left \in SUBSET K
      BY <2>2
    <3>2. IsFiniteSet({x}) /\ Cardinality({x}) = 1
      BY FS_Singleton
    <3> QED BY <1>2, <3>1, <3>2, TwoParts
  <2>6. PICK a \in Nat, b \in Nat, c \in Nat : a = Cardinality(one) /\ b = Cardinality(rest) /\ c = Cardinality(left)
    <3>1. left \in SUBSET K
      BY <2>2
    <3> QED BY <1>1, <1>2, <2>3, <3>1
  <2>7. a >= least
    BY <2>2, <2>6
  <2>8. ASSUME left \in G PROVE s \in G
    <3>1. least * c <= b
      BY <2>2, <2>6, <2>8
    <3>2. least * (c + 1) = least * c + least
      OBVIOUS
    <3>3. least * (c + 1) <= a + b
      BY <2>7, <3>1, <3>2
    <3> QED BY <2>4, <2>5, <2>6, <3>3
  <2> HIDE DEF G
  <2> QED BY <2>2, <2>8
<1>5. K \in G
  <2>1. K \in SUBSET K
    OBVIOUS
  <2> HIDE DEF G
  <2> QED BY <1>3, <1>4, <2>1, OneByOne
<1>6. /\ Cardinality(of(K)) \in Nat /\ Cardinality(S) \in Nat
      /\ Cardinality(of(K)) <= Cardinality(S) /\ Cardinality(K) \in Nat
  <2>1. of(K) \in SUBSET S
    OBVIOUS
  <2> QED BY <1>1, <2>1, FS_CardinalityType
<1>7. least * Cardinality(K) <= Cardinality(of(K))
  BY <1>5
<1> HIDE DEF of, G
<1>8. PICK a \in Nat, b \in Nat, c \in Nat : a = Cardinality(K) /\ b = Cardinality(of(K)) /\ c = Cardinality(S)
  BY <1>6
<1>9. least * a \in Nat
  OBVIOUS
<1> QED BY <1>6, <1>7, <1>8, <1>9

-----------------------------------------------------------------------------
(* Months, quarters and sides add up.                                        *)

LEMMA RowsAreFinite ==
    ASSUME NEW msgs \in SUBSET Rows
    PROVE  IsFiniteSet(msgs) /\ \A width : IsFiniteSet(Buckets(msgs, width))
<1>1. IsFiniteSet(msgs)
  BY ChaptersAssumption, FS_Subset
<1>2. ASSUME NEW width PROVE IsFiniteSet(Buckets(msgs, width))
  <2>1. PICK f : f = [m \in msgs |-> Bucket(m, width)]
    OBVIOUS
  <2>2. Buckets(msgs, width) = {f[m] : m \in msgs} /\ DOMAIN f = msgs
    BY <2>1 DEF Buckets
  <2> QED BY <1>1, <2>2, FiniteImage
<1> QED BY <1>1, <1>2

LEMMA BySidesAdd ==
    ASSUME NEW msgs \in SUBSET Rows
    PROVE  /\ SumOf(BySide(msgs)) = Cardinality(msgs)
           /\ BySide(msgs)["them"] = Cardinality(msgs \ Mine)
<1>1. PICK key : key = [m \in msgs |-> SideOf(m)]
  OBVIOUS
<1>2. \A m \in msgs : key[m] \in Sides
  BY <1>1 DEF SideOf, Sides
<1>3. BySide(msgs) = Keying(msgs, Sides, key)
  <2>1. ASSUME NEW s \in Sides PROVE {m \in msgs : SideOf(m) = s} = {m \in msgs : key[m] = s}
    BY <1>1
  <2> QED BY <2>1 DEF BySide, Keying
<1>4. IsFiniteSet(Sides) /\ IsFiniteSet(msgs)
  <2>1. Sides = {"me"} \cup {"them"} /\ IsFiniteSet({"me"}) /\ IsFiniteSet({"them"})
    BY FS_Singleton DEF Sides
  <2> QED BY <2>1, FS_Union, RowsAreFinite
<1>5. {m \in msgs : SideOf(m) = "them"} = msgs \ Mine
  BY DEF SideOf
<1>6. BySide(msgs)["them"] = Cardinality({m \in msgs : SideOf(m) = "them"})
  BY DEF BySide, Sides
<1> QED BY <1>2, <1>3, <1>4, <1>5, <1>6, SumByKey

\* Of some messages those of each stretch of time.
LEMMA BucketsAdd ==
    ASSUME NEW msgs \in SUBSET Rows, NEW width, NEW some \in SUBSET msgs
    PROVE  SumOf([k \in Buckets(msgs, width) |-> Cardinality({m \in some : Bucket(m, width) = k})]) = Cardinality(some)
<1>1. PICK key, K : key = [m \in some |-> Bucket(m, width)] /\ K = Buckets(msgs, width)
  OBVIOUS
<1>2. \A m \in some : key[m] \in K
  BY <1>1 DEF Buckets
<1>3. IsFiniteSet(K) /\ IsFiniteSet(some)
  <2>1. some \in SUBSET Rows
    OBVIOUS
  <2> QED BY <1>1, <2>1, RowsAreFinite
<1>4. ASSUME NEW k PROVE {m \in some : Bucket(m, width) = k} = {m \in some : key[m] = k}
  BY <1>1
<1>5. [k \in K |-> Cardinality({m \in some : Bucket(m, width) = k})] = Keying(some, K, key)
  BY <1>4 DEF Keying
<1>6. SumOf(Keying(some, K, key)) = Cardinality(some)
  BY <1>2, <1>3, SumByKey
<1> QED BY <1>1, <1>5, <1>6

\* A hard message of theirs is answered in one way.
LEMMA AnswersAdd ==
    ASSUME NEW some \in SUBSET Rows, NEW msgs, NEW scores, NEW cal
    PROVE  SumOf(Answered(some, msgs, scores, cal)) = Cardinality(Hard(some, scores, cal) \ Mine)
<1>1. PICK hard, ways, key : /\ hard = Hard(some, scores, cal) \ Mine /\ ways = {"recip", "soft", "withdrew"}
                             /\ key = [m \in hard |-> AnswerTo(m, msgs, scores, cal)]
  OBVIOUS
<1>2. \A m \in hard : key[m] \in ways
  BY <1>1 DEF AnswerTo
<1>3. IsFiniteSet(hard) /\ IsFiniteSet(ways)
  <2>1. hard \in SUBSET Rows
    BY <1>1 DEF Hard
  <2>2. ways = ({"recip"} \cup {"soft"}) \cup {"withdrew"}
    BY <1>1
  <2>3. IsFiniteSet({"recip"}) /\ IsFiniteSet({"soft"}) /\ IsFiniteSet({"withdrew"})
    BY FS_Singleton
  <2>4. IsFiniteSet({"recip"} \cup {"soft"})
    BY <2>3, FS_Union
  <2>5. IsFiniteSet(ways)
    BY <2>2, <2>3, <2>4, FS_Union
  <2> QED BY <2>1, <2>5, RowsAreFinite
<1>4. ASSUME NEW a PROVE {m \in hard : AnswerTo(m, msgs, scores, cal) = a} = {m \in hard : key[m] = a}
  BY <1>1
<1>5. Answered(some, msgs, scores, cal) = Keying(hard, ways, key)
  BY <1>1, <1>4 DEF Answered, Keying
<1> QED BY <1>1, <1>2, <1>3, <1>5, SumByKey

\* What is hard in a stretch of time.
LEMMA HardIn ==
    ASSUME NEW msgs, NEW width, NEW k, NEW scores, NEW cal
    PROVE  Hard(In(msgs, width, k), scores, cal) = {m \in Hard(msgs, scores, cal) : Bucket(m, width) = k}
BY DEF Hard, In

\* The hard messages of theirs that were answered so, and their number by stretches.
AnsweredSo(msgs, scores, cal, a) == {m \in Hard(msgs, scores, cal) \ Mine : AnswerTo(m, msgs, scores, cal) = a}

AnswersIn(f, msgs, width, scores, cal, a) ==
    /\ f = [k \in Buckets(msgs, width) |-> f[k]]
    /\ \A k \in Buckets(msgs, width) : f[k] = Answered(In(msgs, width, k), msgs, scores, cal)[a]

\* An answer is in one month, and in one quarter.
LEMMA AnsweredAdds ==
    ASSUME NEW msgs \in SUBSET Rows, NEW width, NEW scores, NEW cal, NEW a \in {"recip", "soft", "withdrew"},
           NEW f, AnswersIn(f, msgs, width, scores, cal, a)
    PROVE  SumOf(f) = Cardinality(AnsweredSo(msgs, scores, cal, a))
<1>1. PICK some : some = AnsweredSo(msgs, scores, cal, a)
  OBVIOUS
<1>2. some \in SUBSET msgs
  BY <1>1 DEF AnsweredSo, Hard
<1>3. ASSUME NEW k
      PROVE  Answered(In(msgs, width, k), msgs, scores, cal)[a] = Cardinality({m \in some : Bucket(m, width) = k})
  <2>1. Answered(In(msgs, width, k), msgs, scores, cal)[a]
        = Cardinality({m \in Hard(In(msgs, width, k), scores, cal) \ Mine : AnswerTo(m, msgs, scores, cal) = a})
    BY DEF Answered
  <2>2. {m \in Hard(In(msgs, width, k), scores, cal) \ Mine : AnswerTo(m, msgs, scores, cal) = a}
        = {m \in some : Bucket(m, width) = k}
    BY <1>1, HardIn DEF AnsweredSo
  <2> QED BY <2>1, <2>2
<1>4. f = [k \in Buckets(msgs, width) |-> Cardinality({m \in some : Bucket(m, width) = k})]
  BY <1>3 DEF AnswersIn
<1> QED BY <1>1, <1>2, <1>4, BucketsAdd

\* One message of each day.
LEMMA OneOfEachDay ==
    ASSUME NEW msgs \in SUBSET Rows, NEW zone, NEW one,
           \A d \in DOMAIN ByDay(msgs, zone) : one[d] \in ByDay(msgs, zone)[d]
    PROVE  LET days == DOMAIN ByDay(msgs, zone)
           IN /\ IsFiniteSet(days)
              /\ SumOf(BySide({one[d] : d \in days})) = Cardinality(days)
<1>1. PICK days, some, f, g : /\ days = DOMAIN ByDay(msgs, zone) /\ some = {one[d] : d \in days}
                              /\ f = [d \in days |-> one[d]] /\ g = [m \in msgs |-> LocalDay(m, zone)]
  OBVIOUS
<1>2. days = {g[m] : m \in msgs} /\ \A d \in days : ByDay(msgs, zone)[d] = {m \in msgs : g[m] = d}
  BY <1>1 DEF ByDay
<1>3. IsFiniteSet(days)
  BY <1>1, <1>2, RowsAreFinite, FiniteImage
<1>4. \A d \in days : f[d] \in msgs /\ g[f[d]] = d
  BY <1>1, <1>2
<1>5. some = {f[d] : d \in days} /\ some \in SUBSET Rows
  BY <1>1, <1>4
<1>6. f \in Bijection(days, some)
  <2>1. f \in [days -> some] /\ \A d, e \in days : f[d] = f[e] => d = e
    BY <1>1, <1>4, <1>5
  <2>2. \A m \in some : \E d \in days : f[d] = m
    BY <1>5
  <2> QED BY <2>1, <2>2 DEF Bijection, Injection, Surjection, IsInjective
<1>7. Cardinality(some) = Cardinality(days)
  <2>1. ExistsBijection(days, some)
    BY <1>6 DEF ExistsBijection
  <2> QED BY <1>3, <2>1, FS_Bijection
<1>8. SumOf(BySide(some)) = Cardinality(some)
  BY <1>5, BySidesAdd
<1> QED BY <1>1, <1>3, <1>7, <1>8

LEMMA FarthestAre ==
    ASSUME NEW msgs \in SUBSET Rows, msgs # {}
    PROVE  /\ Earliest(msgs) \in msgs /\ \A m \in msgs : At[Earliest(msgs)] <= At[m]
           /\ Latest(msgs) \in msgs /\ \A m \in msgs : At[m] <= At[Latest(msgs)]
<1>1. PICK times : times = {At[m] : m \in msgs}
  OBVIOUS
<1>2. times # {} /\ times \in SUBSET Nat
  <2>1. \A m \in msgs : At[m] \in Nat
    BY ConversationAssumption
  <2> QED BY <1>1, <2>1
<1>3. IsFiniteSet(times)
  <2>1. PICK f : f = [m \in msgs |-> At[m]]
    OBVIOUS
  <2>2. times = {f[m] : m \in msgs} /\ DOMAIN f = msgs
    BY <1>1, <2>1
  <2> QED BY <2>2, RowsAreFinite, FiniteImage
<1>4. PICK first \in msgs : \A m \in msgs : At[first] <= At[m]
  <2>1. PICK t \in times : \A u \in times : t <= u
    BY <1>2, LeastNatural
  <2> QED BY <1>1, <2>1
<1>5. PICK last \in msgs : \A m \in msgs : At[m] <= At[last]
  <2>1. PICK t \in times : \A u \in times : u <= t
    BY <1>2, <1>3, GreatestOfSome
  <2> QED BY <1>1, <2>1
<1>6. Earliest(msgs) \in msgs /\ \A m \in msgs : At[Earliest(msgs)] <= At[m]
  BY <1>4 DEF Earliest
<1>7. Latest(msgs) \in msgs /\ \A m \in msgs : At[m] <= At[Latest(msgs)]
  BY <1>5 DEF Latest
<1> QED BY <1>6, <1>7

\* The first of each day, and the last.
LEMMA DaysAdd ==
    ASSUME NEW msgs \in SUBSET Rows, NEW zone
    PROVE  LET A == Ambient(msgs, zone)
           IN SumOf(A.firstOfDay) = A.days /\ SumOf(A.lastOfDay) = A.days
<1>1. PICK days, D : days = ByDay(msgs, zone) /\ D = DOMAIN days
  OBVIOUS
<1>2. \A d \in D : days[d] \in SUBSET msgs /\ days[d] # {}
  BY <1>1 DEF ByDay
<1>3. \A d \in D : Earliest(days[d]) \in days[d] /\ Latest(days[d]) \in days[d]
  <2> TAKE d \in D
  <2>1. days[d] \in SUBSET Rows /\ days[d] # {}
    BY <1>2
  <2> QED BY <2>1, FarthestAre
<1>4. PICK first, last : first = [d \in D |-> Earliest(days[d])] /\ last = [d \in D |-> Latest(days[d])]
  OBVIOUS
<1>5. \A d \in D : first[d] \in days[d] /\ last[d] \in days[d]
  BY <1>3, <1>4
<1>6. /\ SumOf(BySide({first[d] : d \in D})) = Cardinality(D)
      /\ SumOf(BySide({last[d] : d \in D})) = Cardinality(D)
  BY <1>1, <1>5, OneOfEachDay
<1>7. {first[d] : d \in D} = {Earliest(days[d]) : d \in D} /\ {last[d] : d \in D} = {Latest(days[d]) : d \in D}
  BY <1>4
<1>8. /\ Ambient(msgs, zone).firstOfDay = BySide({Earliest(days[d]) : d \in D})
      /\ Ambient(msgs, zone).lastOfDay = BySide({Latest(days[d]) : d \in D})
      /\ Ambient(msgs, zone).days = Cardinality(D)
  BY <1>1 DEF Ambient
<1> QED BY <1>6, <1>7, <1>8

\* The river has a stretch of each day for each scored message.
LEMMA RiverAdds ==
    ASSUME NEW msgs \in SUBSET Rows, NEW scores, NEW zone
    PROVE  LET R == River(msgs, scores, zone)
           IN SumOf([d \in DOMAIN R |-> R[d].me.n + R[d].them.n]) = Cardinality(msgs \cap DOMAIN scores)
<1>1. PICK some, days, D, R, key :
         /\ some = msgs \cap DOMAIN scores /\ days = ByDay(some, zone) /\ D = DOMAIN days
         /\ R = River(msgs, scores, zone) /\ key = [m \in some |-> LocalDay(m, zone)]
  OBVIOUS
<1>2. D = {key[m] : m \in some} /\ \A d \in D : days[d] = {m \in some : key[m] = d}
  BY <1>1 DEF ByDay
<1>3. DOMAIN R = D /\ \A d \in D : /\ R[d].me.n = Cardinality(days[d] \cap Mine)
                                   /\ R[d].them.n = Cardinality(days[d] \ Mine)
  BY <1>1 DEF River
<1>4. ASSUME NEW d \in D PROVE R[d].me.n + R[d].them.n = Cardinality({m \in some : key[m] = d})
  <2>1. PICK A, B : A = days[d] \cap Mine /\ B = days[d] \ Mine
    OBVIOUS
  <2>2. A \in SUBSET Rows /\ B \in SUBSET Rows /\ A \cap B = {} /\ A \cup B = days[d]
    BY <1>1, <1>2, <2>1
  <2>3. IsFiniteSet(A) /\ IsFiniteSet(B)
    BY <2>2, RowsAreFinite
  <2>4. Cardinality(A) + Cardinality(B) = Cardinality(days[d])
    BY <2>2, <2>3, TwoParts
  <2> QED BY <1>2, <1>3, <2>1, <2>4
<1>5. [d \in DOMAIN R |-> R[d].me.n + R[d].them.n] = Keying(some, D, key)
  BY <1>3, <1>4 DEF Keying
<1>6. some \in SUBSET Rows /\ IsFiniteSet(some) /\ IsFiniteSet(D)
  <2>1. some \in SUBSET Rows
    BY <1>1
  <2>2. IsFiniteSet(some)
    BY <2>1, RowsAreFinite
  <2> QED BY <1>1, <1>2, <2>1, <2>2, FiniteImage
<1>7. \A m \in some : key[m] \in D
  BY <1>2
<1>8. SumOf(Keying(some, D, key)) = Cardinality(some)
  BY <1>6, <1>7, SumByKey
<1> QED BY <1>1, <1>5, <1>8

-----------------------------------------------------------------------------
(* A streak is of days that there are.                                       *)

Streaks == [last : Nat, streak : Nat, longest : Nat, silence : Int]

NoDay == [last |-> 0, streak |-> 0, longest |-> 0, silence |-> 0]

DayNext(acc, d) ==
    LET streak == IF d = acc.last + 1 THEN acc.streak + 1 ELSE 1
        silence == IF acc.streak = 0 THEN 0 ELSE d - acc.last - 1
    IN [last |-> d, streak |-> streak,
        longest |-> IF streak > acc.longest THEN streak ELSE acc.longest,
        silence |-> IF silence > acc.silence THEN silence ELSE acc.silence]

DaysGrow(seq, h) ==
    h = [s \in SUBSET DOMAIN seq |-> IF s = {} THEN NoDay ELSE DayNext(h[s \ {Max(s)}], seq[Max(s)])]

LEMMA DayNextIs ==
    ASSUME NEW acc \in Streaks, NEW d \in Nat
    PROVE  /\ DayNext(acc, d) \in Streaks
           /\ \A i \in Nat : acc.streak <= i /\ acc.longest <= i =>
                 DayNext(acc, d).streak <= i + 1 /\ DayNext(acc, d).longest <= i + 1
<1>1. PICK l \in Nat, s \in Nat, g \in Nat, q \in Int : l = acc.last /\ s = acc.streak /\ g = acc.longest /\ q = acc.silence
  BY DEF Streaks
<1>2. PICK s2 \in Nat : s2 = (IF d = l + 1 THEN s + 1 ELSE 1)
  OBVIOUS
<1>3. PICK q1 \in Int : q1 = (IF s = 0 THEN 0 ELSE d - l - 1)
  <2>1. CASE s = 0
    BY <2>1
  <2>2. CASE s # 0
    <3>1. d - l \in Int
      OBVIOUS
    <3>2. d - l - 1 \in Int
      BY <3>1
    <3> QED BY <2>2, <3>2
  <2> QED BY <2>1, <2>2
<1>4. PICK g2 \in Nat : g2 = (IF s2 > g THEN s2 ELSE g)
  OBVIOUS
<1>5. PICK q2 \in Int : q2 = (IF q1 > q THEN q1 ELSE q)
  OBVIOUS
<1>6. DayNext(acc, d) = [last |-> d, streak |-> s2, longest |-> g2, silence |-> q2]
  BY <1>1, <1>2, <1>3, <1>4, <1>5 DEF DayNext
<1>7. DayNext(acc, d) \in Streaks
  BY <1>6 DEF Streaks
<1>8. ASSUME NEW i \in Nat, s <= i, g <= i PROVE s2 <= i + 1 /\ g2 <= i + 1
  BY <1>2, <1>4, <1>8
<1>9. DayNext(acc, d).streak = s2 /\ DayNext(acc, d).longest = g2
  BY <1>6
<1> QED BY <1>1, <1>7, <1>8, <1>9

LEMMA StreakIsOfDays ==
    ASSUME NEW days \in SUBSET Nat, IsFiniteSet(days)
    PROVE  Runs(days).longest <= Cardinality(days)
<1>1. PICK n, seq : n = Cardinality(days) /\ seq = InOrder(days)
  OBVIOUS
<1>2. n \in Nat /\ seq \in [1 .. n -> days]
  BY <1>1, InOrderIs
<1>3. seq \in [1 .. n -> Nat] /\ NoDay \in Streaks
  <2>1. NoDay \in Streaks
    BY DEF NoDay, Streaks
  <2> QED BY <1>2, <2>1
<1>4. PICK next : next = [a \in Streaks |-> [d \in Nat |-> DayNext(a, d)]]
  OBVIOUS
<1>5. \A a \in Streaks, d \in Nat : next[a][d] = DayNext(a, d) /\ next[a][d] \in Streaks
  BY <1>4, DayNextIs
<1>6. \E g : DaysGrow(seq, g)
  <2>1. PICK g : InSteps(seq, Streaks, NoDay, next, g)
    BY <1>2, <1>3, <1>5, StepsExist
  <2> DEFINE value(s) == IF s = {} THEN NoDay ELSE DayNext(g[s \ {Max(s)}], seq[Max(s)])
  <2>2. ASSUME NEW s \in SUBSET DOMAIN seq PROVE g[s] = value(s)
    <3>1. CASE s = {}
      BY <2>1, <3>1 DEF InSteps
    <3>2. CASE s # {}
      <4>1. Max(s) \in s
        BY <1>2, <3>2, MaxIs
      <4>2. g[s \ {Max(s)}] \in Streaks /\ seq[Max(s)] \in Nat
        BY <1>3, <2>1, <4>1 DEF InSteps
      <4> QED BY <1>5, <2>1, <3>2, <4>2 DEF InSteps
    <3> QED BY <3>1, <3>2
  <2>3. g = [s \in SUBSET DOMAIN seq |-> value(s)]
    <3> HIDE DEF value
    <3> QED BY <2>1, <2>2 DEF InSteps
  <2> QED BY <2>3 DEF DaysGrow
<1>7. PICK h : h = CHOOSE g : DaysGrow(seq, g)
  OBVIOUS
<1>8. Runs(days) = h[DOMAIN seq]
  BY <1>1, <1>7 DEF Runs, FoldLeft, MapThenFoldSet, DaysGrow, DayNext, NoDay
<1>9. DaysGrow(seq, h)
  BY <1>6, <1>7
<1>10. InSteps(seq, Streaks, NoDay, next, h)
  <2>1. h = [s \in SUBSET DOMAIN seq |-> h[s]] /\ h[{}] = NoDay
    BY <1>9 DEF DaysGrow
  <2>2. ASSUME NEW s \in SUBSET DOMAIN seq, s # {}, h[s \ {Max(s)}] \in Streaks
        PROVE  h[s] = next[h[s \ {Max(s)}]][seq[Max(s)]]
    <3>1. Max(s) \in s
      BY <1>2, <2>2, MaxIs
    <3>2. seq[Max(s)] \in Nat
      BY <1>3, <3>1
    <3> QED BY <1>5, <1>9, <2>2, <3>2 DEF DaysGrow
  <2> QED BY <1>2, <1>3, <1>5, <2>1, <2>2, StepsIfSo
<1>11. /\ h[1 .. 0] = NoDay /\ h[DOMAIN seq] = h[1 .. n]
       /\ \A i \in 0 .. n : h[1 .. i] \in Streaks
       /\ \A i \in 0 .. (n - 1) : h[1 .. (i + 1)] = next[h[1 .. i]][seq[i + 1]]
  <2>1. DOMAIN seq = 1 .. n /\ n \in Nat
    BY <1>2
  <2> QED BY ONLY <1>10, <2>1, StepByStep
<1> DEFINE G == {i \in 0 .. n : h[1 .. i].streak <= i /\ h[1 .. i].longest <= i}
<1>12. 0 \in G
  <2>1. 0 \in 0 .. n
    BY <1>2
  <2> QED BY <1>11, <2>1 DEF NoDay
<1>13. ASSUME NEW i \in 0 .. (n - 1), i \in G PROVE i + 1 \in G
  <2>1. i \in Nat /\ i \in 0 .. n /\ i + 1 \in 0 .. n /\ i + 1 \in 1 .. n
    BY <1>2
  <2>2. PICK acc \in Streaks, d \in Nat : acc = h[1 .. i] /\ d = seq[i + 1]
    BY <1>3, <1>11, <2>1
  <2>3. h[1 .. (i + 1)] = DayNext(acc, d)
    BY <1>5, <1>11, <2>2
  <2>4. acc.streak <= i /\ acc.longest <= i
    BY <1>13, <2>2
  <2>5. DayNext(acc, d).streak <= i + 1 /\ DayNext(acc, d).longest <= i + 1
    BY <2>1, <2>4, DayNextIs
  <2> QED BY <2>1, <2>3, <2>5
<1>14. n \in G
  <2>1. n \in 0 .. n
    BY <1>2
  <2> HIDE DEF G
  <2> QED BY <1>2, <1>12, <1>13, <2>1, UpTo
<1> QED BY <1>1, <1>8, <1>11, <1>14

-----------------------------------------------------------------------------
(* The accounts                                                              *)

\* What answered in the months is what answered in the quarters.
AnswersMatch(T, G) ==
    \A a \in {"recip", "soft", "withdrew"} :
        SumOf([k \in DOMAIN T |-> T[k].answered[a]]) = SumOf([q \in DOMAIN G |-> G[q].answered[a]])

\* What is counted by months is the messages, and of theirs the hard ones.
MonthsTell(T, A, n, hard) ==
    /\ SumOf([k \in DOMAIN T |-> SumOf(T[k].volume)]) = n
    /\ SumOf(A.volume) = n
    /\ SumOf([k \in DOMAIN T |-> SumOf(T[k].answered)]) = SumOf([k \in DOMAIN T |-> T[k].hostile["them"]])
    /\ SumOf([k \in DOMAIN T |-> T[k].hostile["them"]]) = hard

LEMMA MonthsAgree ==
    ASSUME NEW msgs \in SUBSET Rows, NEW scores, NEW cal, NEW zone
    PROVE  LET T == Trajectory(msgs, scores, cal)
           IN /\ MonthsTell(T, Ambient(msgs, zone), Cardinality(msgs), Cardinality(Hard(msgs, scores, cal) \ Mine))
              /\ AnswersMatch(T, Growth(msgs, scores, cal))
<1>1. PICK T, G, months, quarters, long, hard :
         /\ T = Trajectory(msgs, scores, cal) /\ G = Growth(msgs, scores, cal)
         /\ long = 3 * Limits.month /\ months = Buckets(msgs, Limits.month) /\ quarters = Buckets(msgs, long)
         /\ hard = Hard(msgs, scores, cal) \ Mine
  OBVIOUS
<1>2. /\ DOMAIN T = months
      /\ \A k \in months :
            /\ T[k].volume = BySide(In(msgs, Limits.month, k))
            /\ T[k].hostile = BySide(Hard(In(msgs, Limits.month, k), scores, cal))
            /\ T[k].answered = Answered(In(msgs, Limits.month, k), msgs, scores, cal)
  BY <1>1 DEF Trajectory
<1>3. /\ DOMAIN G = quarters
      /\ \A q \in quarters : G[q].answered = Answered(In(msgs, long, q), msgs, scores, cal)
  BY <1>1 DEF Growth
<1>4. hard \in SUBSET msgs
  BY <1>1 DEF Hard
<1>5. ASSUME NEW k \in months
      PROVE  /\ SumOf(T[k].volume) = Cardinality({m \in msgs : Bucket(m, Limits.month) = k})
             /\ T[k].hostile["them"] = Cardinality({m \in hard : Bucket(m, Limits.month) = k})
             /\ SumOf(T[k].answered) = T[k].hostile["them"]
  <2>1. PICK some, worst : some = In(msgs, Limits.month, k) /\ worst = Hard(some, scores, cal)
    OBVIOUS
  <2>2. some \in SUBSET Rows /\ worst \in SUBSET Rows
    BY <2>1 DEF In, Hard
  <2>3. some = {m \in msgs : Bucket(m, Limits.month) = k}
    BY <2>1 DEF In
  <2>4. worst \ Mine = {m \in hard : Bucket(m, Limits.month) = k}
    BY <1>1, <2>1, HardIn
  <2>5. SumOf(BySide(some)) = Cardinality(some) /\ BySide(worst)["them"] = Cardinality(worst \ Mine)
    BY <2>2, BySidesAdd
  <2>6. SumOf(Answered(some, msgs, scores, cal)) = Cardinality(worst \ Mine)
    BY <2>1, <2>2, AnswersAdd
  <2> QED BY <1>2, <2>1, <2>3, <2>4, <2>5, <2>6
<1>6. SumOf([k \in DOMAIN T |-> SumOf(T[k].volume)]) = Cardinality(msgs)
  <2>1. [k \in DOMAIN T |-> SumOf(T[k].volume)]
        = [k \in months |-> Cardinality({m \in msgs : Bucket(m, Limits.month) = k})]
    BY <1>2, <1>5
  <2> QED BY <1>1, <2>1, BucketsAdd
<1>7. SumOf([k \in DOMAIN T |-> T[k].hostile["them"]]) = Cardinality(hard)
  <2>1. [k \in DOMAIN T |-> T[k].hostile["them"]]
        = [k \in months |-> Cardinality({m \in hard : Bucket(m, Limits.month) = k})]
    BY <1>2, <1>5
  <2>2. SumOf([k \in Buckets(msgs, Limits.month) |-> Cardinality({m \in hard : Bucket(m, Limits.month) = k})])
        = Cardinality(hard)
    BY <1>4, BucketsAdd
  <2> QED BY <1>1, <2>1, <2>2
<1>8. [k \in DOMAIN T |-> SumOf(T[k].answered)] = [k \in DOMAIN T |-> T[k].hostile["them"]]
  BY <1>2, <1>5
<1>9. ASSUME NEW a \in {"recip", "soft", "withdrew"}
      PROVE  SumOf([k \in DOMAIN T |-> T[k].answered[a]]) = SumOf([q \in DOMAIN G |-> G[q].answered[a]])
  <2>1. PICK f, g : f = [k \in DOMAIN T |-> T[k].answered[a]] /\ g = [q \in DOMAIN G |-> G[q].answered[a]]
    OBVIOUS
  <2>2. AnswersIn(f, msgs, Limits.month, scores, cal, a)
    BY <1>1, <1>2, <2>1 DEF AnswersIn
  <2>3. AnswersIn(g, msgs, long, scores, cal, a)
    BY <1>1, <1>3, <2>1 DEF AnswersIn
  <2>4. SumOf(f) = SumOf(g)
    BY <2>2, <2>3, AnsweredAdds
  <2> QED BY <2>1, <2>4
<1>10. SumOf(Ambient(msgs, zone).volume) = Cardinality(msgs)
  <2>1. Ambient(msgs, zone).volume = BySide(msgs)
    BY DEF Ambient
  <2> QED BY <2>1, BySidesAdd
<1>11. AnswersMatch(T, G)
  BY <1>9 DEF AnswersMatch
<1>12. MonthsTell(T, Ambient(msgs, zone), Cardinality(msgs), Cardinality(hard))
  BY <1>6, <1>7, <1>8, <1>10 DEF MonthsTell
<1> QED BY <1>1, <1>11, <1>12

\* A session is opened by a side, unless by a draft; a message has words, or has not.
LEMMA OverviewAgrees ==
    ASSUME NEW all \in SUBSET Rows, NEW zone
    PROVE  LET O == Overview(all, zone)
           IN /\ O.total - Cardinality(Worded(all)) = Cardinality(Saying(all, "nothing"))
              /\ O.initiations[1] + O.initiations[2] + Cardinality(Opens(all) \cap Drafts) = O.sessions
              /\ DOMAIN O.latency[1] \cap DOMAIN O.latency[2] = {}
              /\ O.runs.longest <= Cardinality(O.active)
<1>1. PICK O, opens, sent, got : /\ O = Overview(all, zone) /\ opens = Opens(all)
                                 /\ sent = Sent(all) /\ got = Received(all)
  OBVIOUS
<1>2. /\ O.total = Cardinality(all) /\ O.sessions = Cardinality(opens)
      /\ O.initiations = <<Cardinality(opens \cap sent), Cardinality(opens \cap got)>>
      /\ O.latency = <<Latencies(sent, got), Latencies(got, sent)>>
      /\ O.active = Buckets(all, Limits.day) /\ O.runs = Runs(Buckets(all, Limits.day))
  BY <1>1 DEF Overview
<1>3. \A some \in SUBSET Rows : IsFiniteSet(some) /\ Cardinality(some) \in Nat
  BY RowsAreFinite, FS_CardinalityType
<1>4. O.total - Cardinality(Worded(all)) = Cardinality(Saying(all, "nothing"))
  <2>1. PICK A, B : A = Worded(all) /\ B = Saying(all, "nothing")
    OBVIOUS
  <2>2. A \in SUBSET Rows /\ B \in SUBSET Rows /\ A \cap B = {} /\ A \cup B = all
    BY <2>1 DEF Worded, Saying
  <2>3. Cardinality(all) = Cardinality(A) + Cardinality(B)
    BY <1>3, <2>2, TwoParts
  <2>4. PICK a \in Nat, b \in Nat : a = Cardinality(A) /\ b = Cardinality(B)
    BY <1>3, <2>2
  <2> QED BY <1>2, <2>1, <2>3, <2>4
<1>5. O.initiations[1] + O.initiations[2] + Cardinality(opens \cap Drafts) = O.sessions
  <2>1. PICK A, B, C : A = opens \cap sent /\ B = opens \cap got /\ C = opens \cap Drafts
    OBVIOUS
  <2>2. /\ A \in SUBSET Rows /\ B \in SUBSET Rows /\ C \in SUBSET Rows
        /\ A \cap B = {} /\ (A \cup B) \cap C = {} /\ (A \cup B) \cup C = opens
    BY <1>1, <2>1, MeasuresAssumption DEF Opens, Sent, Received
  <2>3. Cardinality(A \cup B) = Cardinality(A) + Cardinality(B) /\ IsFiniteSet(A \cup B)
    BY <1>3, <2>2, TwoParts
  <2>4. Cardinality(opens) = Cardinality(A \cup B) + Cardinality(C)
    BY <1>3, <2>2, <2>3, TwoParts
  <2>5. O.initiations[1] = Cardinality(A) /\ O.initiations[2] = Cardinality(B)
    BY <1>2, <2>1
  <2>6. Cardinality(A) \in Nat /\ Cardinality(B) \in Nat /\ Cardinality(C) \in Nat
    BY <1>3, <2>2
  <2> QED BY <1>2, <2>1, <2>3, <2>4, <2>5, <2>6
<1>6. DOMAIN O.latency[1] \cap DOMAIN O.latency[2] = {}
  <2>1. DOMAIN O.latency[1] \subseteq sent /\ DOMAIN O.latency[2] \subseteq got
    BY <1>2 DEF Latencies, Replies
  <2>2. sent \cap got = {}
    BY <1>1 DEF Sent, Received
  <2> QED BY <2>1, <2>2
<1>7. O.runs.longest <= Cardinality(O.active)
  <2>1. Buckets(all, Limits.day) \in SUBSET Nat
    <3>1. ASSUME NEW m \in Rows PROVE At[m] \div Limits.day \in Nat
      <4>1. At[m] \in Nat /\ Limits.day \in Nat \ {0}
        BY ConversationAssumption, MeasuresAssumption
      <4> QED BY <4>1
    <3> QED BY <3>1 DEF Buckets, Bucket
  <2> QED BY <1>2, <2>1, RowsAreFinite, StreakIsOfDays
<1> QED BY <1>1, <1>4, <1>5, <1>6, <1>7

LEMMA DelugesAgree ==
    ASSUME NEW msgs \in SUBSET Rows, NEW scores, NEW cal
    PROVE  Limits.deluge * Cardinality(DelugeDays(msgs, scores, cal)) <= Cardinality(Hard(msgs, scores, cal) \ Mine)
<1>1. PICK hard, days, key : /\ hard = Hard(msgs, scores, cal) \ Mine /\ days = DelugeDays(msgs, scores, cal)
                             /\ key = [m \in hard |-> Bucket(m, Limits.day)]
  OBVIOUS
<1>2. IsFiniteSet(hard) /\ IsFiniteSet(days)
  <2>1. hard \in SUBSET Rows
    BY <1>1 DEF Hard
  <2>2. days \in SUBSET Buckets(msgs, Limits.day)
    BY <1>1 DEF DelugeDays
  <2>3. IsFiniteSet(Buckets(msgs, Limits.day))
    BY RowsAreFinite
  <2> QED BY <2>1, <2>2, <2>3, RowsAreFinite, FS_Subset
<1>3. ASSUME NEW d \in days PROVE Cardinality({m \in hard : key[m] = d}) >= Limits.deluge
  <2>1. Cardinality(Hard(In(msgs, Limits.day, d), scores, cal) \ Mine) >= Limits.deluge
    BY <1>1 DEF DelugeDays
  <2>2. Hard(In(msgs, Limits.day, d), scores, cal) \ Mine = {m \in hard : key[m] = d}
    BY <1>1, HardIn
  <2> QED BY <2>1, <2>2
<1>4. Limits.deluge * Cardinality(days) <= Cardinality(hard)
  BY <1>2, <1>3, MeasuresAssumption, ManyEach
<1> QED BY <1>1, <1>4

\* Counters written apart agree.
LEMMA AccountsDo ==
    ASSUME NEW all \in SUBSET Rows, NEW scores, NEW cal, NEW zone
    PROVE  AccountsAgree(all, scores, cal, zone)
<1>1. PICK msgs, T, G, O, R, A :
         /\ msgs = Worded(all) /\ T = Trajectory(msgs, scores, cal) /\ G = Growth(msgs, scores, cal)
         /\ O = Overview(all, zone) /\ R = River(msgs, scores, zone) /\ A = Ambient(msgs, zone)
  OBVIOUS
<1>2. msgs \in SUBSET Rows
  BY <1>1 DEF Worded
<1>3. /\ MonthsTell(T, A, Cardinality(msgs), Cardinality(Hard(msgs, scores, cal) \ Mine))
      /\ AnswersMatch(T, G)
  BY <1>1, <1>2, MonthsAgree
<1>4. SumOf(A.firstOfDay) = A.days /\ SumOf(A.lastOfDay) = A.days
  BY <1>1, <1>2, DaysAdd
<1>5. /\ O.total - Cardinality(msgs) = Cardinality(Saying(all, "nothing"))
      /\ O.initiations[1] + O.initiations[2] + Cardinality(Opens(all) \cap Drafts) = O.sessions
      /\ DOMAIN O.latency[1] \cap DOMAIN O.latency[2] = {}
      /\ O.runs.longest <= Cardinality(O.active)
  BY <1>1, OverviewAgrees
<1>6. SumOf([d \in DOMAIN R |-> R[d].me.n + R[d].them.n]) = Cardinality(msgs \cap DOMAIN scores)
  BY <1>1, <1>2, RiverAdds
<1>7. Limits.deluge * Cardinality(DelugeDays(msgs, scores, cal)) <= Cardinality(Hard(msgs, scores, cal) \ Mine)
  BY <1>2, DelugesAgree
<1> QED BY <1>1, <1>3, <1>4, <1>5, <1>6, <1>7 DEF AccountsAgree, AnswersMatch, MonthsTell

-----------------------------------------------------------------------------
(* The thresholds                                                            *)

\* A rate with something to divide by.
Rates == Nat \X (Nat \ {0})

\* What is as good as what is as good.
LEMMA AsGood ==
    ASSUME NEW p \in Rates, NEW q \in Rates, NEW r \in Rates, ~Better(p, q), ~Better(q, r)
    PROVE  ~Better(p, r)
<1>1. PICK a \in Nat, b \in Nat \ {0} : a = p[1] /\ b = p[2]
  BY DEF Rates
<1>2. PICK c \in Nat, d \in Nat \ {0} : c = q[1] /\ d = q[2]
  BY DEF Rates
<1>3. PICK e \in Nat, f \in Nat \ {0} : e = r[1] /\ f = r[2]
  BY DEF Rates
<1>4. a * d <= c * b /\ c * f <= e * d
  BY <1>1, <1>2, <1>3 DEF Better
<1>5. (a * d) * f <= (c * b) * f /\ (c * f) * b <= (e * d) * b
  <2>1. \A x, y, z \in Nat : x <= y => x * z <= y * z
    OBVIOUS
  <2>2. a * d \in Nat /\ c * b \in Nat /\ c * f \in Nat /\ e * d \in Nat
    OBVIOUS
  <2> QED BY <1>4, <2>1, <2>2
<1>6. (a * d) * f = (a * f) * d /\ (c * b) * f = (c * f) * b /\ (e * d) * b = (e * b) * d
  OBVIOUS
<1>7. (a * f) * d <= (e * b) * d
  BY <1>5, <1>6
<1>8. a * f <= e * b
  <2>1. \A x, y \in Nat, z \in Nat \ {0} : x * z <= y * z => x <= y
    OBVIOUS
  <2>2. a * f \in Nat /\ e * b \in Nat
    OBVIOUS
  <2> QED BY <1>7, <2>1, <2>2
<1> QED BY <1>1, <1>3, <1>8 DEF Better

\* Of two rates one is as good as the other.
LEMMA EitherAsGood ==
    ASSUME NEW p \in Rates, NEW q \in Rates
    PROVE  /\ ~Better(p, q) \/ ~Better(q, p)
           /\ ~Better(p, p)
<1>1. PICK a \in Nat, b \in Nat \ {0} : a = p[1] /\ b = p[2]
  BY DEF Rates
<1>2. PICK c \in Nat, d \in Nat \ {0} : c = q[1] /\ d = q[2]
  BY DEF Rates
<1>3. a * d \in Nat /\ c * b \in Nat /\ a * b \in Nat
  OBVIOUS
<1> QED BY <1>1, <1>2, <1>3 DEF Better

\* There is a first of the best.
LEMMA FirstOfBest ==
    ASSUME NEW T \in {1 .. 3, {2, 3}}, NEW f, \A t \in T : f[t] \in Rates
    PROVE  \E t \in T : \A u \in T : ~Better(f[u], f[t]) /\ (u < t => Better(f[t], f[u]))
<1> DEFINE asGood(u, t) == ~Better(f[u], f[t])
<1>1. \A u, t \in T : asGood(u, t) \/ asGood(t, u)
  BY EitherAsGood
<1>2. \A u, t, v \in T : asGood(u, t) /\ asGood(t, v) => asGood(u, v)
  BY AsGood
<1>3. \E t \in T : \A u \in T : asGood(u, t)
  <2> HIDE DEF asGood
  <2>1. CASE T = 1 .. 3
    <3>1. T = {1, 2, 3}
      BY <2>1
    <3> QED BY <1>1, <1>2, <3>1
  <2>2. CASE T = {2, 3}
    BY <1>1, <1>2, <2>2
  <2> QED BY <2>1, <2>2
<1>4. PICK G : G = {t \in T : \A u \in T : asGood(u, t)}
  OBVIOUS
<1>5. G \in SUBSET Nat /\ G # {}
  <2>1. T \in SUBSET Nat
    OBVIOUS
  <2> QED BY <1>3, <1>4, <2>1
<1>6. PICK t \in G : \A u \in G : t <= u
  BY <1>5, LeastNatural
<1>7. ASSUME NEW u \in T, u < t PROVE ~asGood(u, t) \/ ~asGood(t, u)
  <2>1. SUFFICES ASSUME asGood(u, t), asGood(t, u) PROVE FALSE
    OBVIOUS
  <2>2. \A v \in T : asGood(v, t)
    BY <1>4, <1>6
  <2>3. t \in T
    BY <1>4, <1>6
  <2>4. \A v \in T : asGood(v, u)
    <3> HIDE DEF asGood
    <3> QED BY <1>2, <2>1, <2>2, <2>3
  <2>5. u \in G
    BY <1>4, <2>4
  <2>6. u \in Nat /\ t \in Nat /\ t <= u
    BY <1>5, <1>6, <2>5
  <2> QED BY <1>7, <2>6
<1> QED BY <1>4, <1>6, <1>7

\* What is fitted to some labels is the first of the best thresholds.
LEMMA FittedIs ==
    ASSUME NEW labels, IsFiniteSet(DOMAIN labels), NEW T \in {1 .. 3, {2, 3}},
           NEW actual \in SUBSET DOMAIN labels, actual # {}
    PROVE  LET t == Fitted(labels, T, actual)
           IN t \in T /\ \A u \in T : ~Better(F1(labels, u, actual), F1(labels, t, actual))
<1>1. \A some \in SUBSET DOMAIN labels : IsFiniteSet(some) /\ Cardinality(some) \in Nat
  BY FS_Subset, FS_CardinalityType
<1>2. Cardinality(actual) # 0
  BY <1>1, FS_EmptySet
<1>3. PICK f : f = [t \in T |-> F1(labels, t, actual)]
  OBVIOUS
<1>4. ASSUME NEW t \in T PROVE f[t] \in Rates
  <2>1. Over(labels, t) \in SUBSET DOMAIN labels /\ Over(labels, t) \cap actual \in SUBSET DOMAIN labels
    BY DEF Over
  <2>2. PICK h, o, n : /\ h = Cardinality(Over(labels, t) \cap actual)
                       /\ o = Cardinality(Over(labels, t)) /\ n = Cardinality(actual)
    OBVIOUS
  <2>3. h \in Nat /\ o \in Nat /\ n \in Nat /\ n # 0
    BY <1>1, <1>2, <2>1, <2>2
  <2>4. f[t] = <<2 * h, o + n>>
    BY <1>3, <2>2 DEF F1
  <2> QED BY <2>3, <2>4 DEF Rates
<1>5. \E t \in T : \A u \in T : /\ ~Better(F1(labels, u, actual), F1(labels, t, actual))
                                /\ u < t => Better(F1(labels, t, actual), F1(labels, u, actual))
  <2>1. \E t \in T : \A u \in T : ~Better(f[u], f[t]) /\ (u < t => Better(f[t], f[u]))
    BY <1>4, FirstOfBest
  <2> QED BY <1>3, <2>1
<1> QED BY <1>5 DEF Fitted

\* What is proposed is an order: the severe are among the hard.
LEMMA DerivedIs ==
    ASSUME NEW labels, IsFiniteSet(DOMAIN labels)
    PROVE  LET cal == Derive(labels)
           IN /\ cal.hostile \in Nat /\ cal.severe \in Nat /\ cal.hostile <= cal.severe
              /\ Learnable(labels) => cal.hostile = Fitted(labels, 1 .. 3, Hostile(labels))
              /\ Learnable(labels) => Hostile(labels) # {}
<1>1. CASE ~Learnable(labels)
  BY <1>1 DEF Derive, Default
<1>2. CASE Learnable(labels)
  <2>1. Hostile(labels) # {} /\ Hostile(labels) \in SUBSET DOMAIN labels
    BY <1>2 DEF Learnable, Hostile
  <2>2. PICK hostile : hostile = Fitted(labels, 1 .. 3, Hostile(labels))
    OBVIOUS
  <2>3. hostile \in 1 .. 3
    BY <2>1, <2>2, FittedIs
  <2>4. PICK severe : severe = IF Cardinality(Cruel(labels)) >= Floors.severe
                               THEN Fitted(labels, {2, 3}, Cruel(labels)) ELSE hostile + 1
    OBVIOUS
  <2>5. severe \in Nat
    <3>1. CASE Cardinality(Cruel(labels)) >= Floors.severe
      <4>1. Cruel(labels) \in SUBSET DOMAIN labels
        BY DEF Cruel
      <4>2. Cruel(labels) # {}
        BY <3>1, FS_EmptySet, FloorsAssumption
      <4>3. Fitted(labels, {2, 3}, Cruel(labels)) \in {2, 3}
        BY <4>1, <4>2, FittedIs
      <4> QED BY <2>4, <3>1, <4>3
    <3>2. CASE ~(Cardinality(Cruel(labels)) >= Floors.severe)
      BY <2>3, <2>4, <3>2
    <3> QED BY <3>1, <3>2
  <2>6. Derive(labels) = [hostile |-> hostile,
                          severe |-> Least(IF severe <= hostile THEN hostile + 1 ELSE severe, 3)]
    BY <1>2, <2>2, <2>4 DEF Derive
  <2>7. Least(IF severe <= hostile THEN hostile + 1 ELSE severe, 3) \in hostile .. 3
    BY <2>3, <2>5 DEF Least
  <2> QED BY <2>1, <2>2, <2>3, <2>6, <2>7
<1> QED BY <1>1, <1>2

\* A threshold that tells what the owner called hard is as good as any can be.
LEMMA TellingIsFound ==
    ASSUME NEW labels, IsFiniteSet(DOMAIN labels), Hostile(labels) # {},
           NEW t \in 1 .. 3, Over(labels, t) = Hostile(labels)
    PROVE  Over(labels, Fitted(labels, 1 .. 3, Hostile(labels))) = Hostile(labels)
<1>1. PICK actual, s, over : /\ actual = Hostile(labels) /\ s = Fitted(labels, 1 .. 3, actual)
                             /\ over = Over(labels, s)
  OBVIOUS
<1>2. actual \in SUBSET DOMAIN labels /\ over \in SUBSET DOMAIN labels
  BY <1>1 DEF Hostile, Over
<1>3. s \in 1 .. 3 /\ ~Better(F1(labels, t, actual), F1(labels, s, actual))
  BY <1>1, <1>2, FittedIs
<1>4. PICK h, o, n : h = Cardinality(over \cap actual) /\ o = Cardinality(over) /\ n = Cardinality(actual)
  OBVIOUS
<1>5. /\ IsFiniteSet(over) /\ IsFiniteSet(actual)
      /\ h \in Nat /\ o \in Nat /\ n \in Nat /\ n # 0
      /\ h <= o /\ h <= n /\ (h = o => over \cap actual = over) /\ (h = n => over \cap actual = actual)
  <2>1. IsFiniteSet(over) /\ IsFiniteSet(actual) /\ IsFiniteSet(over \cap actual)
    BY <1>2, FS_Subset
  <2>2. h \in Nat /\ o \in Nat /\ n \in Nat /\ n # 0
    BY <1>1, <1>4, <2>1, FS_CardinalityType, FS_EmptySet
  <2>3. over \cap actual \in SUBSET over /\ over \cap actual \in SUBSET actual
    OBVIOUS
  <2> QED BY <1>4, <2>1, <2>2, <2>3, FS_Subset
<1>6. F1(labels, t, actual) = <<2 * n, n + n>> /\ F1(labels, s, actual) = <<2 * h, o + n>>
  <2>1. Over(labels, t) = actual /\ actual \cap actual = actual
    BY <1>1
  <2> QED BY <1>1, <1>4, <2>1 DEF F1
<1>7. (2 * n) * (o + n) <= (2 * h) * (n + n)
  <2>1. ~((2 * n) * (o + n) > (2 * h) * (n + n))
    BY <1>3, <1>6 DEF Better
  <2>2. (2 * n) * (o + n) \in Nat /\ (2 * h) * (n + n) \in Nat
    BY <1>5
  <2> QED BY <2>1, <2>2
<1>8. h = o /\ h = n
  <2>1. (2 * n) * (o + n) = (o + n) * (2 * n) /\ (2 * h) * (n + n) = (2 * h) * (2 * n)
    BY <1>5
  <2>2. \A x, y \in Nat, z \in Nat \ {0} : x * z <= y * z => x <= y
    OBVIOUS
  <2>3. o + n \in Nat /\ 2 * h \in Nat /\ 2 * n \in Nat \ {0}
    BY <1>5
  <2>4. o + n <= 2 * h
    BY <1>7, <2>1, <2>2, <2>3
  <2> QED BY <1>5, <2>4
<1> QED BY <1>1, <1>5, <1>8

LEMMA SevereAreHard ==
    ASSUME NEW msgs \in SUBSET Rows, NEW labelled, NEW scores, \A m \in DOMAIN scores : scores[m].tension \in Nat
    PROVE  SevereIsHard(labelled, msgs, scores)
<1>1. PICK labels, cal : labels = Rejoined(labelled, msgs, scores) /\ cal = Derive(labels)
  OBVIOUS
<1>2. IsFiniteSet(DOMAIN labels)
  <2>1. DOMAIN labels \in SUBSET msgs
    BY <1>1 DEF Rejoined
  <2> QED BY <2>1, RowsAreFinite, FS_Subset
<1>3. cal.hostile \in Nat /\ cal.severe \in Nat /\ cal.hostile <= cal.severe
  BY <1>1, <1>2, DerivedIs
<1>4. Severe(msgs, scores, cal) \subseteq Hard(msgs, scores, cal)
  BY <1>3 DEF Severe, Hard
<1>5. ASSUME Learnable(labels), NEW t \in 1 .. 3, Over(labels, t) = Hostile(labels)
      PROVE  Disagreements(labels) = {}
  <2>1. Over(labels, cal.hostile) = Hostile(labels)
    BY <1>1, <1>2, <1>5, DerivedIs, TellingIsFound
  <2>2. \A m \in DOMAIN labels : (labels[m].tension >= cal.hostile) <=> m \in Hostile(labels)
    BY <2>1 DEF Over
  <2> QED BY <1>1, <2>2 DEF Disagreements
<1> QED BY <1>1, <1>4, <1>5 DEF SevereIsHard

-----------------------------------------------------------------------------
(* The draw                                                                  *)

AllOf(got) == got["high"] + got["mid"] + got["low"]

BandNext(got, b, have, per) ==
    [got EXCEPT ![b] = @ + Least(per - (got["high"] + got["mid"] + got["low"]), have[b] - @)]

SharesGrow(seq, have, per, h) ==
    h = [s \in SUBSET DOMAIN seq |->
            IF s = {} THEN FirstPass(have, per) ELSE BandNext(h[s \ {Max(s)}], seq[Max(s)], have, per)]

\* A share so far: what a band got is its own and no less than its third, and
\* where there is room left the bands that were asked gave all they have.
Shared(got, have, per, asked) ==
    /\ got \in [Bands -> Nat]
    /\ \A b \in Bands : got[b] <= have[b] /\ Least(have[b], per \div 3) <= got[b]
    /\ AllOf(got) <= per
    /\ AllOf(got) = per \/ \A b \in asked : got[b] = have[b]

LEMMA FirstShared ==
    ASSUME NEW have \in [Bands -> Nat], NEW per \in Nat
    PROVE  Shared(FirstPass(have, per), have, per, {})
<1>1. PICK q \in Nat : q = per \div 3 /\ 3 * q <= per
  OBVIOUS
<1>2. PICK got : got = FirstPass(have, per)
  OBVIOUS
<1>3. got = [b \in Bands |-> Least(have[b], q)]
  BY <1>1, <1>2 DEF FirstPass
<1>4. ASSUME NEW b \in Bands PROVE got[b] \in Nat /\ got[b] <= have[b] /\ got[b] <= q /\ got[b] = Least(have[b], q)
  BY <1>3 DEF Least
<1>5. got \in [Bands -> Nat]
  BY <1>3, <1>4
<1>6. AllOf(got) <= per
  <2>1. "high" \in Bands /\ "mid" \in Bands /\ "low" \in Bands
    BY DEF Bands
  <2>2. PICK a \in Nat, b \in Nat, c \in Nat : a = got["high"] /\ b = got["mid"] /\ c = got["low"]
    BY <1>4, <2>1
  <2>3. a <= q /\ b <= q /\ c <= q
    BY <1>4, <2>1, <2>2
  <2> QED BY <1>1, <2>2, <2>3 DEF AllOf
<1>7. \A b \in Bands : Least(have[b], per \div 3) <= got[b]
  BY <1>1, <1>4
<1> QED BY <1>2, <1>4, <1>5, <1>6, <1>7 DEF Shared

LEMMA NextShared ==
    ASSUME NEW have \in [Bands -> Nat], NEW per \in Nat, NEW got, NEW asked \in SUBSET Bands, NEW b \in Bands,
           Shared(got, have, per, asked)
    PROVE  Shared(BandNext(got, b, have, per), have, per, asked \cup {b})
<1>1. got \in [Bands -> Nat]
  BY DEF Shared
<1>2. PICK sum \in Nat : sum = AllOf(got)
  BY <1>1 DEF AllOf, Bands
<1>3. PICK more : more = Least(per - sum, have[b] - got[b])
  OBVIOUS
<1>4. /\ more \in Nat /\ got[b] + more <= have[b] /\ sum + more <= per
      /\ sum + more = per \/ (got[b] + more = have[b] /\ \A k \in asked : got[k] = have[k])
      /\ sum = per => more = 0
  <2>1. PICK x \in Nat, y \in Nat : x = have[b] /\ y = got[b]
    BY <1>1
  <2>2. y <= x /\ sum <= per
    BY <1>2, <2>1 DEF Shared
  <2>3. sum = per \/ \A k \in asked : got[k] = have[k]
    BY <1>2 DEF Shared
  <2>4. more = IF per - sum < x - y THEN per - sum ELSE x - y
    BY <1>3, <2>1 DEF Least
  <2>5. more \in Nat /\ y + more <= x /\ sum + more <= per /\ (sum = per => more = 0)
    BY <2>2, <2>4
  <2>6. sum + more = per \/ y + more = x
    BY <2>2, <2>4
  <2>7. sum + more = per \/ (got[b] + more = have[b] /\ \A k \in asked : got[k] = have[k])
    <3>1. CASE sum = per
      <4>1. sum + more = per
        BY <2>5, <3>1
      <4> QED BY <4>1
    <3>2. CASE sum # per
      BY <2>1, <2>3, <2>6, <3>2
    <3> QED BY <3>1, <3>2
  <2> QED BY <2>1, <2>5, <2>7
<1>5. PICK new : new = BandNext(got, b, have, per)
  OBVIOUS
<1>6. new = [got EXCEPT ![b] = got[b] + more]
  BY <1>2, <1>3, <1>5 DEF BandNext, AllOf
<1>7. new \in [Bands -> Nat] /\ \A k \in Bands : new[k] = IF k = b THEN got[b] + more ELSE got[k]
  <2>1. got[b] + more \in Nat
    BY <1>1, <1>4
  <2> QED BY <1>1, <1>6, <2>1
<1>8. AllOf(new) = sum + more
  <2>1. PICK x \in Nat, y \in Nat, z \in Nat : x = got["high"] /\ y = got["mid"] /\ z = got["low"]
    BY <1>1 DEF Bands
  <2>2. CASE b = "high"
    BY <1>2, <1>4, <1>7, <2>1, <2>2 DEF AllOf, Bands
  <2>3. CASE b = "mid"
    BY <1>2, <1>4, <1>7, <2>1, <2>3 DEF AllOf, Bands
  <2>4. CASE b = "low"
    BY <1>2, <1>4, <1>7, <2>1, <2>4 DEF AllOf, Bands
  <2> QED BY <2>2, <2>3, <2>4 DEF Bands
<1>9. ASSUME NEW k \in Bands PROVE new[k] <= have[k] /\ Least(have[k], per \div 3) <= new[k]
  <2>1. PICK x \in Nat, y \in Nat, l \in Nat : x = have[k] /\ y = got[k] /\ l = Least(have[k], per \div 3)
    <3>1. have[k] \in Nat /\ got[k] \in Nat /\ per \div 3 \in Nat
      BY <1>1
    <3> QED BY <3>1 DEF Least
  <2>2. y <= x /\ l <= y
    BY <2>1 DEF Shared
  <2> QED BY <1>4, <1>7, <2>1, <2>2
<1>10. sum + more = per \/ \A k \in asked \cup {b} : new[k] = have[k]
  BY <1>4, <1>7
<1> QED BY <1>4, <1>5, <1>7, <1>8, <1>9, <1>10 DEF Shared

\* As many as asked, or all there are.
LEMMA ShareIs ==
    ASSUME NEW have \in [Bands -> Nat], NEW per \in Nat
    PROVE  LET got == Share(have, per)
           IN /\ got \in [Bands -> Nat] /\ AllOf(got) = Least(per, AllOf(have))
              /\ \A b \in Bands : got[b] = have[b] \/ per \div 3 <= got[b]
<1>1. PICK seq, A, base : seq = <<"high", "mid", "low">> /\ A = [Bands -> Int] /\ base = FirstPass(have, per)
  OBVIOUS
<1>2. seq \in [1 .. 3 -> Bands] /\ seq[1] = "high" /\ seq[2] = "mid" /\ seq[3] = "low"
  <2>1. seq \in Seq(Bands) /\ Len(seq) = 3
    BY <1>1 DEF Bands
  <2> QED BY <1>1, <2>1
<1>3. base \in A
  <2>1. base \in [Bands -> Nat]
    BY <1>1, FirstShared DEF Shared
  <2> QED BY <1>1, <2>1
<1>4. PICK next : next = [a \in A |-> [b \in Bands |-> BandNext(a, b, have, per)]]
  OBVIOUS
<1>5. ASSUME NEW a \in A, NEW b \in Bands PROVE next[a][b] = BandNext(a, b, have, per) /\ next[a][b] \in A
  <2>1. PICK more : more = Least(per - (a["high"] + a["mid"] + a["low"]), have[b] - a[b])
    OBVIOUS
  <2>2. a[b] + more \in Int
    <3>1. a[b] \in Int /\ a["high"] \in Int /\ a["mid"] \in Int /\ a["low"] \in Int
      BY <1>1 DEF Bands
    <3> QED BY <2>1, <3>1 DEF Least
  <2>3. BandNext(a, b, have, per) = [a EXCEPT ![b] = a[b] + more]
    BY <2>1 DEF BandNext
  <2> QED BY <1>1, <1>4, <2>2, <2>3
<1>6. \E g : SharesGrow(seq, have, per, g)
  <2>1. PICK g : InSteps(seq, A, base, next, g)
    BY <1>2, <1>3, <1>5, StepsExist
  <2> DEFINE value(s) == IF s = {} THEN FirstPass(have, per) ELSE BandNext(g[s \ {Max(s)}], seq[Max(s)], have, per)
  <2>2. ASSUME NEW s \in SUBSET DOMAIN seq PROVE g[s] = value(s)
    <3>1. CASE s = {}
      BY <1>1, <2>1, <3>1 DEF InSteps
    <3>2. CASE s # {}
      <4>1. Max(s) \in s
        BY <1>2, <3>2, MaxIs
      <4>2. g[s \ {Max(s)}] \in A /\ seq[Max(s)] \in Bands
        BY <1>2, <2>1, <4>1 DEF InSteps
      <4> QED BY <1>5, <2>1, <3>2, <4>2 DEF InSteps
    <3> QED BY <3>1, <3>2
  <2>3. g = [s \in SUBSET DOMAIN seq |-> value(s)]
    <3> HIDE DEF value
    <3> QED BY <2>1, <2>2 DEF InSteps
  <2> QED BY <2>3 DEF SharesGrow
<1>7. PICK h : h = CHOOSE g : SharesGrow(seq, have, per, g)
  OBVIOUS
<1>8. Share(have, per) = h[DOMAIN seq]
  BY <1>1, <1>7 DEF Share, FoldLeft, MapThenFoldSet, SharesGrow, BandNext
<1>9. SharesGrow(seq, have, per, h)
  BY <1>6, <1>7
<1>10. InSteps(seq, A, base, next, h)
  <2>1. h = [s \in SUBSET DOMAIN seq |-> h[s]] /\ h[{}] = base
    BY <1>1, <1>9 DEF SharesGrow
  <2>2. ASSUME NEW s \in SUBSET DOMAIN seq, s # {}, h[s \ {Max(s)}] \in A
        PROVE  h[s] = next[h[s \ {Max(s)}]][seq[Max(s)]]
    <3>1. Max(s) \in s
      BY <1>2, <2>2, MaxIs
    <3>2. seq[Max(s)] \in Bands
      BY <1>2, <3>1
    <3> QED BY <1>5, <1>9, <2>2, <3>2 DEF SharesGrow
  <2> QED BY <1>2, <1>3, <1>5, <2>1, <2>2, StepsIfSo
<1>11. /\ h[1 .. 0] = base /\ h[DOMAIN seq] = h[1 .. 3]
       /\ \A i \in 0 .. 3 : h[1 .. i] \in A
       /\ \A i \in 0 .. (3 - 1) : h[1 .. (i + 1)] = next[h[1 .. i]][seq[i + 1]]
  <2>1. PICK n \in Nat : n = 3
    OBVIOUS
  <2>2. DOMAIN seq = 1 .. n
    BY <1>2, <2>1
  <2>3. /\ h[1 .. 0] = base /\ h[DOMAIN seq] = h[1 .. n]
        /\ \A i \in 0 .. n : h[1 .. i] \in A
        /\ \A i \in 0 .. (n - 1) : h[1 .. (i + 1)] = next[h[1 .. i]][seq[i + 1]]
    BY ONLY <1>10, <2>2, StepByStep
  <2> QED BY <2>1, <2>3
<1>12. PICK a \in A, b \in A, c \in A : a = h[1 .. 1] /\ b = h[1 .. 2] /\ c = h[1 .. 3]
  BY <1>11
<1>13. /\ a = BandNext(base, "high", have, per) /\ b = BandNext(a, "mid", have, per)
       /\ c = BandNext(b, "low", have, per)
  <2>1. a = next[base]["high"]
    BY <1>2, <1>11, <1>12
  <2>2. b = next[a]["mid"]
    <3>1. h[1 .. (1 + 1)] = next[h[1 .. 1]][seq[1 + 1]]
      BY <1>11
    <3> QED BY <1>2, <1>12, <3>1
  <2>3. c = next[b]["low"]
    <3>1. h[1 .. (2 + 1)] = next[h[1 .. 2]][seq[2 + 1]]
      BY <1>11
    <3> QED BY <1>2, <1>12, <3>1
  <2>4. "high" \in Bands /\ "mid" \in Bands /\ "low" \in Bands
    BY DEF Bands
  <2> QED BY <1>3, <1>5, <2>1, <2>2, <2>3, <2>4
<1>14. Shared(c, have, per, Bands)
  <2>1. "high" \in Bands /\ "mid" \in Bands /\ "low" \in Bands
    BY DEF Bands
  <2>2. Shared(base, have, per, {})
    BY <1>1, FirstShared
  <2>3. Shared(a, have, per, {"high"})
    <3>1. Shared(a, have, per, {} \cup {"high"})
      BY <1>13, <2>1, <2>2, NextShared
    <3>2. {} \cup {"high"} = {"high"}
      OBVIOUS
    <3> QED BY <3>1, <3>2
  <2>4. Shared(b, have, per, {"high"} \cup {"mid"})
    BY <1>13, <2>1, <2>3, NextShared
  <2>5. Shared(c, have, per, ({"high"} \cup {"mid"}) \cup {"low"})
    BY <1>13, <2>1, <2>4, NextShared
  <2>6. ({"high"} \cup {"mid"}) \cup {"low"} = Bands
    BY DEF Bands
  <2> QED BY <2>5, <2>6
<1>15. c \in [Bands -> Nat] /\ AllOf(c) = Least(per, AllOf(have))
  <2>1. c \in [Bands -> Nat]
    BY <1>14 DEF Shared
  <2>2. PICK x1 \in Nat, x2 \in Nat, x3 \in Nat : x1 = c["high"] /\ x2 = c["mid"] /\ x3 = c["low"]
    BY <2>1 DEF Bands
  <2>3. PICK y1 \in Nat, y2 \in Nat, y3 \in Nat : y1 = have["high"] /\ y2 = have["mid"] /\ y3 = have["low"]
    BY DEF Bands
  <2>4. /\ x1 <= y1 /\ x2 <= y2 /\ x3 <= y3 /\ x1 + x2 + x3 <= per
        /\ x1 + x2 + x3 = per \/ (x1 = y1 /\ x2 = y2 /\ x3 = y3)
    BY <1>14, <2>2, <2>3 DEF Shared, AllOf, Bands
  <2>5. AllOf(c) = x1 + x2 + x3 /\ AllOf(have) = y1 + y2 + y3
    BY <2>2, <2>3 DEF AllOf
  <2>6. PICK u \in Nat, v \in Nat : u = x1 + x2 + x3 /\ v = y1 + y2 + y3
    OBVIOUS
  <2>7. u <= v /\ u <= per /\ (u = per \/ u = v)
    BY <2>4, <2>6
  <2>8. u = Least(per, v)
    BY <2>7 DEF Least
  <2> QED BY <2>1, <2>5, <2>6, <2>8
<1>16. ASSUME NEW k \in Bands PROVE c[k] = have[k] \/ per \div 3 <= c[k]
  <2>1. PICK x \in Nat, y \in Nat, q \in Nat : x = c[k] /\ y = have[k] /\ q = per \div 3
    BY <1>15
  <2>2. x <= y /\ Least(y, q) <= x
    BY <1>14, <2>1 DEF Shared
  <2> QED BY <2>1, <2>2 DEF Least
<1> QED BY <1>8, <1>11, <1>12, <1>15, <1>16

\* What is of three bands is counted by band.
LEMMA ThreeBands ==
    ASSUME NEW mine, IsFiniteSet(mine), NEW parts, UNION {parts[b] : b \in Bands} = mine,
           \A b, c \in Bands : b # c => parts[b] \cap parts[c] = {}, NEW n, n = [b \in Bands |-> Cardinality(parts[b])]
    PROVE  n \in [Bands -> Nat] /\ AllOf(n) = Cardinality(mine)
<1>1. "high" \in Bands /\ "mid" \in Bands /\ "low" \in Bands
  BY DEF Bands
<1>2. PICK A, B, C : A = parts["high"] /\ B = parts["mid"] /\ C = parts["low"]
  OBVIOUS
<1>3. A \cup B \cup C = mine
  BY <1>2 DEF Bands
<1>4. A \cap B = {} /\ A \cap C = {} /\ B \cap C = {}
  BY <1>1, <1>2
<1>5. IsFiniteSet(A) /\ IsFiniteSet(B) /\ IsFiniteSet(C)
  BY <1>3, FS_Subset
<1>6. \A b \in Bands : Cardinality(parts[b]) \in Nat
  BY <1>2, <1>5, FS_CardinalityType DEF Bands
<1>7. IsFiniteSet(A \cup B) /\ Cardinality(A \cup B) = Cardinality(A) + Cardinality(B)
  BY <1>4, <1>5, TwoParts
<1>8. Cardinality((A \cup B) \cup C) = Cardinality(A \cup B) + Cardinality(C)
  <2>1. (A \cup B) \cap C = {}
    BY <1>4
  <2> QED BY <1>5, <1>7, <2>1, TwoParts
<1>9. n["high"] = Cardinality(A) /\ n["mid"] = Cardinality(B) /\ n["low"] = Cardinality(C)
  BY <1>1, <1>2
<1> QED BY <1>3, <1>6, <1>7, <1>8, <1>9 DEF AllOf

LEMMA DrawsAreFair ==
    ASSUME NEW msgs \in SUBSET Rows, NEW scores, NEW per \in Nat
    PROVE  DrawIsFair(msgs, scores, per)
<1>1. ASSUME NEW s \in Sides, NEW S \in Draws(msgs, scores, per)
      PROVE  LET strata == Strata(msgs, scores, s)
                 mine == {m \in msgs : SideOf(m) = s}
             IN /\ Cardinality(S \cap mine) = Least(per, Cardinality(mine))
                /\ \A b \in Bands : strata[b] \subseteq S \/ Cardinality(S \cap strata[b]) >= per \div 3
  <2>1. PICK strata, mine, have, got, drawn :
          /\ strata = Strata(msgs, scores, s) /\ mine = {m \in msgs : SideOf(m) = s}
          /\ have = [b \in Bands |-> Cardinality(strata[b])] /\ got = Share(have, per)
          /\ drawn = [b \in Bands |-> S \cap strata[b]]
    OBVIOUS
  <2>2. S \subseteq msgs /\ \A b \in Bands : Cardinality(S \cap strata[b]) = got[b]
    BY <2>1 DEF Draws
  <2>3. \A b \in Bands : strata[b] = {m \in mine : BandOf(m, scores) = b}
    BY <2>1 DEF Strata
  <2>4. \A m \in mine : BandOf(m, scores) \in Bands
    BY DEF BandOf, Bands
  <2>5. /\ UNION {strata[b] : b \in Bands} = mine
        /\ \A b, c \in Bands : b # c => strata[b] \cap strata[c] = {}
    BY <2>3, <2>4
  <2>6. IsFiniteSet(mine) /\ IsFiniteSet(S \cap mine)
    <3>1. mine \in SUBSET Rows /\ S \cap mine \in SUBSET Rows
      BY <2>1
    <3> QED BY <3>1, RowsAreFinite
  <2>7. have \in [Bands -> Nat] /\ AllOf(have) = Cardinality(mine)
    BY <2>1, <2>5, <2>6, ThreeBands
  <2>8. /\ got \in [Bands -> Nat] /\ AllOf(got) = Least(per, Cardinality(mine))
        /\ \A b \in Bands : got[b] = have[b] \/ per \div 3 <= got[b]
    BY <2>1, <2>7, ShareIs
  <2>9. got = [b \in Bands |-> Cardinality(drawn[b])]
    BY <2>1, <2>2, <2>8
  <2>10. /\ UNION {drawn[b] : b \in Bands} = S \cap mine
         /\ \A b, c \in Bands : b # c => drawn[b] \cap drawn[c] = {}
    BY <2>1, <2>5
  <2>11. AllOf(got) = Cardinality(S \cap mine)
    BY <2>6, <2>9, <2>10, ThreeBands
  <2>12. ASSUME NEW b \in Bands PROVE strata[b] \subseteq S \/ Cardinality(S \cap strata[b]) >= per \div 3
    <3>1. CASE got[b] = have[b]
      <4>1. Cardinality(S \cap strata[b]) = Cardinality(strata[b])
        BY <2>1, <2>2, <3>1
      <4>2. IsFiniteSet(strata[b]) /\ S \cap strata[b] \in SUBSET strata[b]
        BY <2>3, <2>6, FS_Subset
      <4>3. S \cap strata[b] = strata[b]
        BY <4>1, <4>2, FS_Subset
      <4> QED BY <4>3
    <3>2. CASE per \div 3 <= got[b]
      <4>1. got[b] \in Nat /\ per \div 3 \in Int
        BY <2>8
      <4> QED BY <2>2, <3>2, <4>1
    <3> QED BY <2>8, <3>1, <3>2
  <2> QED BY <2>1, <2>8, <2>11, <2>12
<1> QED BY <1>1 DEF DrawIsFair

-----------------------------------------------------------------------------
(* A plain count                                                             *)

LEMMA FirstOfThem ==
    ASSUME NEW ids \in SUBSET Rows, NEW k \in 0 .. Cardinality(ids)
    PROVE  Cardinality({m \in ids : Cardinality(Before(m, ids)) < k}) = k
<1>1. IsFiniteSet(ids) /\ Cardinality(ids) \in Nat
  BY RowsAreFinite, FS_CardinalityType
<1>2. PICK n, s : n = Cardinality(ids) /\ s = ByTime(ids)
  OBVIOUS
<1>3. /\ n \in Nat /\ s \in [1 .. n -> ids]
      /\ \A i, j \in 1 .. n : i < j => At[s[i]] < At[s[j]]
      /\ \A m \in ids : \E i \in 1 .. n : s[i] = m
  BY <1>1, <1>2, ByTimeIs DEF TimeOrdered
<1>4. \A i \in 1 .. n : s[i] \in ids /\ At[s[i]] \in Nat
  BY <1>3, ConversationAssumption
<1>5. ASSUME NEW j \in 0 .. n PROVE Cardinality({s[i] : i \in 1 .. j}) = j
  <2>1. PICK T, f : T = {s[i] : i \in 1 .. j} /\ f = [i \in 1 .. j |-> s[i]]
    OBVIOUS
  <2>2. ASSUME NEW a \in 1 .. j, NEW b \in 1 .. j, s[a] = s[b] PROVE a = b
    <3>1. a \in 1 .. n /\ b \in 1 .. n /\ a \in Nat /\ b \in Nat
      BY <1>3
    <3>2. At[s[a]] \in Nat /\ ~(At[s[a]] < At[s[a]])
      BY <1>4, <3>1
    <3> QED BY <1>3, <2>2, <3>1, <3>2
  <2>3. f \in Bijection(1 .. j, T)
    BY <2>1, <2>2 DEF Bijection, Injection, Surjection, IsInjective
  <2>4. ExistsBijection(1 .. j, T)
    BY <2>3 DEF ExistsBijection
  <2>5. IsFiniteSet(1 .. j) /\ Cardinality(1 .. j) = j
    BY FS_Interval
  <2> QED BY <2>1, <2>4, <2>5, FS_Bijection
<1>6. ASSUME NEW i \in 1 .. n PROVE Cardinality(Before(s[i], ids)) = i - 1
  <2>1. ASSUME NEW a \in 1 .. n PROVE At[s[a]] < At[s[i]] <=> a < i
    <3>1. a \in Nat /\ i \in Nat /\ At[s[a]] \in Nat /\ At[s[i]] \in Nat
      BY <1>4
    <3>2. CASE a < i
      BY <1>3, <3>2
    <3>3. CASE a = i
      BY <3>1, <3>3
    <3>4. CASE i < a
      <4>1. At[s[i]] < At[s[a]]
        BY <1>3, <3>4
      <4> QED BY <3>1, <3>4, <4>1
    <3> QED BY <3>1, <3>2, <3>3, <3>4
  <2>2. i - 1 \in 0 .. n /\ \A a : a \in 1 .. (i - 1) <=> a \in 1 .. n /\ a < i
    BY <1>3
  <2>3. Before(s[i], ids) = {s[a] : a \in 1 .. (i - 1)}
    <3>1. Before(s[i], ids) = {m \in ids : At[m] < At[s[i]]}
      BY DEF Before
    <3>2. ASSUME NEW m \in ids, At[m] < At[s[i]] PROVE m \in {s[a] : a \in 1 .. (i - 1)}
      <4>1. PICK a \in 1 .. n : s[a] = m
        BY <1>3
      <4>2. a \in 1 .. (i - 1)
        BY <2>1, <2>2, <3>2, <4>1
      <4> QED BY <4>1, <4>2
    <3>3. ASSUME NEW a \in 1 .. (i - 1) PROVE s[a] \in ids /\ At[s[a]] < At[s[i]]
      <4>1. a \in 1 .. n /\ a < i
        BY <2>2
      <4> QED BY <1>4, <2>1, <4>1
    <3> QED BY <3>1, <3>2, <3>3
  <2> QED BY <1>5, <2>2, <2>3
<1>7. {m \in ids : Cardinality(Before(m, ids)) < k} = {s[i] : i \in 1 .. k}
  <2>1. k \in 0 .. n /\ \A i \in 1 .. k : i \in 1 .. n
    BY <1>2, <1>3
  <2>2. ASSUME NEW m \in ids, Cardinality(Before(m, ids)) < k PROVE m \in {s[i] : i \in 1 .. k}
    <3>1. PICK i \in 1 .. n : s[i] = m
      BY <1>3
    <3>2. i - 1 < k
      BY <1>6, <2>2, <3>1
    <3>3. i \in 1 .. k
      BY <2>1, <3>2
    <3> QED BY <3>1, <3>3
  <2>3. ASSUME NEW i \in 1 .. k PROVE s[i] \in ids /\ Cardinality(Before(s[i], ids)) < k
    <3>1. i \in 1 .. n /\ i - 1 < k
      BY <2>1
    <3> QED BY <1>4, <1>6, <3>1
  <2> QED BY <2>2, <2>3
<1> QED BY <1>2, <1>5, <1>7

LEMMA CountsAreHonest ==
    ASSUME held \subseteq Rows
    PROVE  CountIsHonest
<1>1. ASSUME NEW f \in Filters, NEW hits \in Retrieved(f), Candidates(f) = {m \in Candidates(f) : Passes(m, f)}
      PROVE  /\ Plan(f, hits).count = Least(Cardinality(Candidates(f)), Cap)
             /\ Plan(f, hits).truncated = (Cardinality(Candidates(f)) > Cap)
  <2>1. PICK found, n, all : /\ found = Candidates(f) /\ all = Cardinality(found)
                             /\ n = Least(Cap + 1, all)
    OBVIOUS
  <2>2. found \in SUBSET Rows
    BY <2>1 DEF Candidates, Saying, Msgs, Worded
  <2>3. all \in Nat /\ Cap \in Nat
    BY <2>1, <2>2, RowsAreFinite, FS_CardinalityType, CapAssumption
  <2>4. n \in 0 .. all /\ n = IF Cap + 1 < all THEN Cap + 1 ELSE all
    BY <2>1, <2>3 DEF Least
  <2>5. hits \subseteq found /\ Cardinality(hits) = n
    <3>1. CASE f.words # None
      BY <2>1, <3>1 DEF Retrieved
    <3>2. CASE f.words = None
      <4>1. hits = {m \in found : Cardinality(Before(m, found)) < n}
        BY <2>1, <3>2 DEF Retrieved
      <4> QED BY <2>1, <2>2, <2>4, <4>1, FirstOfThem
    <3> QED BY <3>1, <3>2
  <2>6. {m \in hits : Passes(m, f)} = hits
    BY <1>1, <2>1, <2>5
  <2>7. Plan(f, hits).count = Least(n, Cap) /\ Plan(f, hits).truncated = (n > Cap)
    BY <2>5, <2>6 DEF Plan
  <2>8. Least(n, Cap) = Least(all, Cap) /\ (n > Cap <=> all > Cap)
    BY <2>3, <2>4 DEF Least
  <2> QED BY <2>1, <2>7, <2>8
<1> QED BY <1>1 DEF CountIsHonest

-----------------------------------------------------------------------------
(* The silent months                                                         *)

Silent(msgs, k) == In(msgs, Limits.month, k) = {}

\* A longest run of silent months.
IsHole(msgs, g) ==
    \E i, j \in Nat : /\ 0 < i /\ i <= j /\ g = Gap(msgs, i, j)
                      /\ ~Silent(msgs, i - 1) /\ ~Silent(msgs, j + 1) /\ \A k \in i .. j : Silent(msgs, k)

NoHole == [open |-> 0, gaps |-> {}]

MonthNext(acc, k, msgs) ==
    IF In(msgs, Limits.month, k) = {} /\ acc.open = 0 THEN [acc EXCEPT !.open = k]
    ELSE IF In(msgs, Limits.month, k) # {} /\ acc.open # 0
    THEN [open |-> 0, gaps |-> acc.gaps \cup {Gap(msgs, acc.open, k - 1)}] ELSE acc

HolesGrow(seq, msgs, h) ==
    h = [s \in SUBSET DOMAIN seq |-> IF s = {} THEN NoHole ELSE MonthNext(h[s \ {Max(s)}], seq[Max(s)], msgs)]

HolesOf(msgs) == [open : Nat, gaps : SUBSET {Gap(msgs, i, j) : i \in Nat, j \in Int}]

LEMMA MonthNextIs ==
    ASSUME NEW msgs, NEW acc \in HolesOf(msgs), NEW k \in Nat
    PROVE  MonthNext(acc, k, msgs) \in HolesOf(msgs)
<1>1. PICK open \in Nat, gaps \in SUBSET {Gap(msgs, i, j) : i \in Nat, j \in Int} :
         acc = [open |-> open, gaps |-> gaps]
  BY DEF HolesOf
<1>2. [acc EXCEPT !.open = k] = [open |-> k, gaps |-> gaps]
  BY <1>1
<1>3. Gap(msgs, open, k - 1) \in {Gap(msgs, i, j) : i \in Nat, j \in Int}
  <2>1. k - 1 \in Int
    OBVIOUS
  <2> QED BY <2>1
<1>4. [open |-> 0, gaps |-> acc.gaps \cup {Gap(msgs, acc.open, k - 1)}] \in HolesOf(msgs)
  BY <1>1, <1>3 DEF HolesOf
<1>5. [open |-> k, gaps |-> gaps] \in HolesOf(msgs)
  BY DEF HolesOf
<1> QED BY <1>2, <1>4, <1>5 DEF MonthNext

\* What is known once the months from the first to this one were looked at.
Seen(msgs, lo, c, acc) ==
    /\ acc.open \in Nat
    /\ acc.open = 0 => ~Silent(msgs, c)
    /\ acc.open # 0 => /\ lo < acc.open /\ acc.open <= c /\ ~Silent(msgs, acc.open - 1)
                       /\ \A k \in acc.open .. c : Silent(msgs, k)
    /\ \A g \in acc.gaps : IsHole(msgs, g) /\ lo < g.from /\ g.to < c
    /\ \A k \in lo .. c : Silent(msgs, k) => \/ acc.open # 0 /\ acc.open <= k
                                             \/ \E g \in acc.gaps : k \in g.from .. g.to

LEMMA FirstSeen ==
    ASSUME NEW msgs, NEW lo \in Nat, ~Silent(msgs, lo)
    PROVE  Seen(msgs, lo, lo, MonthNext(NoHole, lo, msgs))
<1>1. MonthNext(NoHole, lo, msgs) = NoHole
  BY DEF MonthNext, NoHole, Silent
<1>2. \A k \in lo .. lo : k = lo
  OBVIOUS
<1> QED BY <1>1, <1>2 DEF Seen, NoHole

LEMMA NextSeen ==
    ASSUME NEW msgs, NEW lo \in Nat, NEW c \in Nat, lo <= c, NEW acc \in HolesOf(msgs), Seen(msgs, lo, c, acc)
    PROVE  Seen(msgs, lo, c + 1, MonthNext(acc, c + 1, msgs))
<1>0. PICK gaps : gaps = acc.gaps
  OBVIOUS
<1>1. PICK open \in Nat : acc = [open |-> open, gaps |-> gaps]
  BY <1>0 DEF HolesOf
<1>2. PICK new : new = MonthNext(acc, c + 1, msgs)
  OBVIOUS
<1>3. /\ open = 0 => ~Silent(msgs, c)
      /\ open # 0 => /\ lo < open /\ open <= c /\ ~Silent(msgs, open - 1)
                     /\ \A k \in open .. c : Silent(msgs, k)
      /\ \A g \in gaps : IsHole(msgs, g) /\ lo < g.from /\ g.to < c
      /\ \A k \in lo .. c : Silent(msgs, k) => \/ open # 0 /\ open <= k
                                               \/ \E g \in gaps : k \in g.from .. g.to
  BY <1>1 DEF Seen
<1>4. \A g \in gaps : g.to < c + 1
  <2>1. ASSUME NEW g \in gaps PROVE g.to < c + 1
    <3>1. PICK i \in Nat, j \in Nat : g = Gap(msgs, i, j)
      BY <1>3 DEF IsHole
    <3>2. g.to = j
      BY <3>1 DEF Gap
    <3>3. j < c
      BY <1>3, <3>2
    <3> QED BY <3>2, <3>3
  <2> QED BY <2>1
<1>5. \A k : k \in lo .. (c + 1) <=> k \in lo .. c \/ k = c + 1
  OBVIOUS
<1>6. CASE Silent(msgs, c + 1) /\ open = 0
  <2>1. new = [open |-> c + 1, gaps |-> gaps]
    BY <1>1, <1>2, <1>6 DEF MonthNext, Silent
  <2>2. c + 1 # 0 /\ c + 1 \in Nat /\ lo < c + 1 /\ (c + 1) - 1 = c
    OBVIOUS
  <2>3. \A k \in (c + 1) .. (c + 1) : k = c + 1
    OBVIOUS
  <2>4. ASSUME NEW k \in lo .. (c + 1), Silent(msgs, k)
        PROVE  \/ c + 1 # 0 /\ c + 1 <= k
               \/ \E g \in gaps : k \in g.from .. g.to
    <3>1. CASE k = c + 1
      BY <2>2, <3>1
    <3>2. CASE k \in lo .. c
      BY <1>3, <1>6, <2>4, <3>2
    <3> QED BY <1>5, <3>1, <3>2
  <2>5. ~Silent(msgs, c) /\ \A k \in (c + 1) .. (c + 1) : Silent(msgs, k)
    BY <1>3, <1>6, <2>3
  <2>6. new.open = c + 1 /\ new.gaps = gaps
    BY <2>1
  <2>7. Seen(msgs, lo, c + 1, new)
    BY <1>3, <1>4, <2>2, <2>4, <2>5, <2>6 DEF Seen
  <2> QED BY <1>2, <2>7
<1>7. CASE ~Silent(msgs, c + 1) /\ open # 0
  <2>1. PICK g : g = Gap(msgs, open, c)
    OBVIOUS
  <2>2. new = [open |-> 0, gaps |-> gaps \cup {g}]
    <3>1. (c + 1) - 1 = c
      OBVIOUS
    <3> QED BY <1>1, <1>2, <1>7, <2>1, <3>1 DEF MonthNext, Silent
  <2>3. new.open = 0 /\ new.gaps = gaps \cup {g}
    BY <2>2
  <2>4. g.from = open /\ g.to = c
    BY <2>1 DEF Gap
  <2>5. IsHole(msgs, g) /\ lo < g.from /\ g.to < c + 1
    <3>1. 0 < open /\ open <= c /\ lo < open
      BY <1>3, <1>7
    <3>2. ~Silent(msgs, open - 1) /\ ~Silent(msgs, c + 1) /\ \A k \in open .. c : Silent(msgs, k)
      BY <1>3, <1>7
    <3>3. IsHole(msgs, g)
      BY <2>1, <3>1, <3>2 DEF IsHole
    <3> QED BY <2>4, <3>1, <3>3
  <2>6. ASSUME NEW k \in lo .. (c + 1), Silent(msgs, k) PROVE \E h \in gaps \cup {g} : k \in h.from .. h.to
    <3>1. k \in lo .. c
      BY <1>5, <1>7, <2>6
    <3>2. CASE open <= k
      <4>1. k \in g.from .. g.to
        BY <2>4, <3>1, <3>2
      <4> QED BY <4>1
    <3>3. CASE ~(open <= k)
      BY <1>3, <2>6, <3>1, <3>3
    <3> QED BY <3>2, <3>3
  <2>7. \A h \in gaps \cup {g} : IsHole(msgs, h) /\ lo < h.from /\ h.to < c + 1
    BY <1>3, <1>4, <2>5
  <2>8. Seen(msgs, lo, c + 1, new)
    BY <1>7, <2>3, <2>6, <2>7 DEF Seen
  <2> QED BY <1>2, <2>8
<1>8. CASE ~(Silent(msgs, c + 1) /\ open = 0) /\ ~(~Silent(msgs, c + 1) /\ open # 0)
  <2>1. new = acc
    BY <1>1, <1>2, <1>8 DEF MonthNext, Silent
  <2>2. new.open = open /\ new.gaps = gaps
    BY <1>1, <2>1
  <2>3. open = 0 => ~Silent(msgs, c + 1)
    BY <1>8
  <2>4. ASSUME open # 0
        PROVE  lo < open /\ open <= c + 1 /\ ~Silent(msgs, open - 1) /\ \A k \in open .. (c + 1) : Silent(msgs, k)
    <3>1. Silent(msgs, c + 1)
      BY <1>8, <2>4
    <3>2. \A k : k \in open .. (c + 1) => k \in open .. c \/ k = c + 1
      OBVIOUS
    <3> QED BY <1>3, <2>4, <3>1, <3>2
  <2>5. ASSUME NEW k \in lo .. (c + 1), Silent(msgs, k)
        PROVE  \/ open # 0 /\ open <= k
               \/ \E g \in gaps : k \in g.from .. g.to
    <3>1. CASE k = c + 1
      <4>1. open # 0
        BY <1>8, <2>5, <3>1
      <4> QED BY <2>4, <3>1, <4>1
    <3>2. CASE k \in lo .. c
      BY <1>3, <2>5, <3>2
    <3> QED BY <1>5, <3>1, <3>2
  <2>6. Seen(msgs, lo, c + 1, new)
    BY <1>3, <1>4, <2>2, <2>3, <2>4, <2>5 DEF Seen
  <2> QED BY <1>2, <2>6
<1> QED BY <1>6, <1>7, <1>8

\* Later messages are in later months.
LEMMA MonthOf ==
    ASSUME NEW m \in Rows, NEW k \in Rows
    PROVE  /\ Bucket(m, Limits.month) \in Nat /\ Bucket(k, Limits.month) \in Nat
           /\ At[m] <= At[k] => Bucket(m, Limits.month) <= Bucket(k, Limits.month)
<1>1. PICK w \in Nat \ {0}, a \in Nat, b \in Nat : w = Limits.month /\ a = At[m] /\ b = At[k]
  BY ConversationAssumption, ChaptersAssumption
<1>2. PICK p \in Nat, q \in Nat : p = a \div w /\ q = b \div w
  OBVIOUS
<1>3. w * p <= a /\ a < w * p + w /\ w * q <= b /\ b < w * q + w
  BY <1>2
<1>4. ASSUME a <= b PROVE p <= q
  <2>1. SUFFICES ASSUME q + 1 <= p PROVE FALSE
    OBVIOUS
  <2>2. w * (q + 1) <= w * p
    <3>1. \A x, y, z \in Nat : x <= y => z * x <= z * y
      OBVIOUS
    <3> QED BY <2>1, <3>1
  <2>3. w * (q + 1) = w * q + w
    OBVIOUS
  <2> QED BY <1>3, <1>4, <2>1, <2>2, <2>3
<1> QED BY <1>1, <1>2, <1>4 DEF Bucket

\* Every silent month between the first message and the last is in a hole.
HolesAre(msgs, lo, hi, gaps) ==
    /\ lo \in Nat /\ hi \in Nat /\ lo <= hi
    /\ \A m \in msgs : Bucket(m, Limits.month) \in lo .. hi
    /\ ~Silent(msgs, lo) /\ ~Silent(msgs, hi)
    /\ \A g \in gaps : IsHole(msgs, g) /\ lo < g.from /\ g.to < hi
    /\ \A k \in lo .. hi : Silent(msgs, k) => \E g \in gaps : k \in g.from .. g.to

LEMMA GapsAre ==
    ASSUME NEW msgs \in SUBSET Rows, msgs # {}
    PROVE  HolesAre(msgs, Bucket(Earliest(msgs), Limits.month), Bucket(Latest(msgs), Limits.month), Gaps(msgs))
<1>1. PICK first, last, lo, hi, seq :
         /\ first = Earliest(msgs) /\ last = Latest(msgs)
         /\ lo = Bucket(first, Limits.month) /\ hi = Bucket(last, Limits.month) /\ seq = InOrder(MonthsOf(msgs))
  OBVIOUS
<1>2. /\ first \in msgs /\ \A m \in msgs : At[first] <= At[m]
      /\ last \in msgs /\ \A m \in msgs : At[m] <= At[last]
  BY <1>1, FarthestAre
<1>3. /\ lo \in Nat /\ hi \in Nat /\ lo <= hi
      /\ \A m \in msgs : Bucket(m, Limits.month) \in lo .. hi
  <2>1. ASSUME NEW m \in msgs
        PROVE  Bucket(m, Limits.month) \in Nat /\ lo <= Bucket(m, Limits.month) /\ Bucket(m, Limits.month) <= hi
    <3>1. m \in Rows /\ first \in Rows /\ last \in Rows
      BY <1>2
    <3> QED BY <1>1, <1>2, <3>1, MonthOf
  <2>2. lo \in Nat /\ hi \in Nat
    BY <1>1, <1>2, MonthOf
  <2> QED BY <1>2, <2>1, <2>2
<1>4. ~Silent(msgs, lo) /\ ~Silent(msgs, hi)
  BY <1>1, <1>2 DEF Silent, In
<1>5. PICK S, n : S = lo .. hi /\ n = Cardinality(S)
  OBVIOUS
<1>6. S \in SUBSET Nat /\ IsFiniteSet(S) /\ n = (hi - lo) + 1 /\ S = MonthsOf(msgs)
  <2>1. IsFiniteSet(S) /\ n = IF lo > hi THEN 0 ELSE hi - lo + 1
    BY <1>3, <1>5, FS_Interval
  <2> QED BY <1>1, <1>3, <1>5, <2>1 DEF MonthsOf
<1>7. /\ n \in Nat /\ seq \in [1 .. n -> S]
      /\ \A i, j \in 1 .. n : i < j => seq[i] < seq[j]
      /\ \A x \in S : \E i \in 1 .. n : seq[i] = x
  BY <1>1, <1>5, <1>6, InOrderIs
<1>8. 1 \in 1 .. n /\ seq[1] = lo
  <2>1. 1 \in 1 .. n
    BY <1>3, <1>6
  <2>2. PICK i \in 1 .. n : seq[i] = lo
    BY <1>3, <1>5, <1>7
  <2>3. seq[1] \in Nat /\ lo <= seq[1]
    BY <1>3, <1>5, <1>7, <2>1
  <2>4. i = 1 \/ 1 < i
    OBVIOUS
  <2> QED BY <1>3, <1>7, <2>1, <2>2, <2>3, <2>4
<1>9. ASSUME NEW i \in 1 .. (n - 1) PROVE seq[i + 1] = seq[i] + 1
  <2>1. i \in 1 .. n /\ i + 1 \in 1 .. n /\ i < i + 1 /\ i \in Nat
    BY <1>7
  <2>2. PICK a \in Nat, b \in Nat : a = seq[i] /\ b = seq[i + 1] /\ a \in lo .. hi /\ b \in lo .. hi
    <3>1. seq[i] \in S /\ seq[i + 1] \in S
      BY <1>7, <2>1
    <3>2. \A k \in S : k \in Nat /\ k \in lo .. hi
      BY <1>5, <1>6
    <3> QED BY <3>1, <3>2
  <2>3. a < b
    BY <1>7, <2>1, <2>2
  <2>4. PICK j \in 1 .. n : seq[j] = a + 1
    <3>1. a + 1 \in S
      BY <1>3, <1>5, <2>2, <2>3
    <3> QED BY <1>7, <3>1
  <2>5. j \in Nat /\ (j = i + 1 \/ j <= i \/ i + 1 < j)
    BY <1>7
  <2>6. ~(j <= i)
    <3>1. ASSUME j < i PROVE FALSE
      <4>1. seq[j] < seq[i]
        BY <1>7, <2>1, <3>1
      <4> QED BY <2>2, <2>4, <4>1
    <3>2. ASSUME j = i PROVE FALSE
      BY <2>2, <2>4, <3>2
    <3> QED BY <2>1, <2>5, <3>1, <3>2
  <2>7. ASSUME i + 1 < j PROVE FALSE
    <3>1. seq[i + 1] < seq[j]
      BY <1>7, <2>1, <2>7
    <3> QED BY <2>2, <2>3, <2>4, <3>1
  <2> QED BY <2>2, <2>4, <2>5, <2>6, <2>7
<1>10. PICK A, next : A = HolesOf(msgs) /\ next = [a \in A |-> [k \in Nat |-> MonthNext(a, k, msgs)]]
  OBVIOUS
<1>11. \A a \in A, k \in Nat : next[a][k] = MonthNext(a, k, msgs) /\ next[a][k] \in A
  BY <1>10, MonthNextIs
<1>12. NoHole \in A /\ seq \in [1 .. n -> Nat]
  BY <1>6, <1>7, <1>10 DEF NoHole, HolesOf
<1>13. \E g : HolesGrow(seq, msgs, g)
  <2>1. PICK g : InSteps(seq, A, NoHole, next, g)
    BY <1>7, <1>11, <1>12, StepsExist
  <2> DEFINE value(s) == IF s = {} THEN NoHole ELSE MonthNext(g[s \ {Max(s)}], seq[Max(s)], msgs)
  <2>2. ASSUME NEW s \in SUBSET DOMAIN seq PROVE g[s] = value(s)
    <3>1. CASE s = {}
      BY <2>1, <3>1 DEF InSteps
    <3>2. CASE s # {}
      <4>1. Max(s) \in s
        BY <1>7, <3>2, MaxIs
      <4>2. g[s \ {Max(s)}] \in A /\ seq[Max(s)] \in Nat
        BY <1>12, <2>1, <4>1 DEF InSteps
      <4> QED BY <1>11, <2>1, <3>2, <4>2 DEF InSteps
    <3> QED BY <3>1, <3>2
  <2>3. g = [s \in SUBSET DOMAIN seq |-> value(s)]
    <3> HIDE DEF value
    <3> QED BY <2>1, <2>2 DEF InSteps
  <2> QED BY <2>3 DEF HolesGrow
<1>14. PICK h : h = CHOOSE g : HolesGrow(seq, msgs, g)
  OBVIOUS
<1>15. Gaps(msgs) = h[DOMAIN seq].gaps
  BY <1>1, <1>14 DEF Gaps, FoldLeft, MapThenFoldSet, HolesGrow, MonthNext, NoHole
<1>16. HolesGrow(seq, msgs, h)
  BY <1>13, <1>14
<1>17. InSteps(seq, A, NoHole, next, h)
  <2>1. h = [s \in SUBSET DOMAIN seq |-> h[s]] /\ h[{}] = NoHole
    BY <1>16 DEF HolesGrow
  <2>2. ASSUME NEW s \in SUBSET DOMAIN seq, s # {}, h[s \ {Max(s)}] \in A
        PROVE  h[s] = next[h[s \ {Max(s)}]][seq[Max(s)]]
    <3>1. Max(s) \in s
      BY <1>7, <2>2, MaxIs
    <3>2. seq[Max(s)] \in Nat
      BY <1>12, <3>1
    <3> QED BY <1>11, <1>16, <2>2, <3>2 DEF HolesGrow
  <2> QED BY <1>7, <1>11, <1>12, <2>1, <2>2, StepsIfSo
<1>18. /\ h[1 .. 0] = NoHole /\ h[DOMAIN seq] = h[1 .. n]
       /\ \A i \in 0 .. n : h[1 .. i] \in A
       /\ \A i \in 0 .. (n - 1) : h[1 .. (i + 1)] = next[h[1 .. i]][seq[i + 1]]
  <2>1. DOMAIN seq = 1 .. n /\ n \in Nat
    BY <1>7
  <2> QED BY ONLY <1>17, <2>1, StepByStep
<1> DEFINE G == {i \in 0 .. n : i = 0 \/ (seq[i] = (lo + i) - 1 /\ Seen(msgs, lo, (lo + i) - 1, h[1 .. i]))}
<1>19. 0 \in G
  BY <1>7
<1>20. ASSUME NEW i \in 0 .. (n - 1), i \in G PROVE i + 1 \in G
  <2>1. i \in Nat /\ i \in 0 .. n /\ i + 1 \in 0 .. n /\ i + 1 \in 1 .. n
    BY <1>7
  <2>2. PICK acc \in A, k \in Nat : acc = h[1 .. i] /\ k = seq[i + 1]
    BY <1>12, <1>18, <2>1
  <2>3. h[1 .. (i + 1)] = MonthNext(acc, k, msgs)
    BY <1>11, <1>18, <2>2
  <2>4. CASE i = 0
    <3>1. k = lo /\ acc = NoHole
      BY <1>8, <1>18, <2>2, <2>4
    <3>2. Seen(msgs, lo, lo, MonthNext(acc, k, msgs))
      BY <1>3, <1>4, <3>1, FirstSeen
    <3>3. (lo + (i + 1)) - 1 = lo
      BY <1>3, <2>4
    <3> QED BY <2>1, <2>2, <2>3, <3>1, <3>2, <3>3
  <2>5. CASE i # 0
    <3>1. PICK c \in Nat : c = (lo + i) - 1 /\ lo <= c /\ (lo + (i + 1)) - 1 = c + 1
      BY <1>3, <2>1, <2>5
    <3>2. seq[i] = c /\ Seen(msgs, lo, c, acc)
      BY <1>20, <2>2, <2>5, <3>1
    <3>3. k = c + 1
      <4>1. i \in 1 .. (n - 1)
        BY <1>7, <2>1, <2>5
      <4> QED BY <1>9, <2>2, <3>2, <4>1
    <3>4. Seen(msgs, lo, c + 1, MonthNext(acc, c + 1, msgs))
      BY <1>3, <1>10, <3>1, <3>2, NextSeen
    <3> QED BY <2>1, <2>2, <2>3, <3>1, <3>3, <3>4
  <2> QED BY <2>4, <2>5
<1>21. n \in G
  <2>1. n \in 0 .. n
    BY <1>7
  <2> HIDE DEF G
  <2> QED BY <1>7, <1>19, <1>20, <2>1, UpTo
<1>22. Seen(msgs, lo, hi, h[1 .. n])
  <2>1. n # 0 /\ (lo + n) - 1 = hi
    BY <1>3, <1>6
  <2> QED BY <1>21, <2>1
<1>23. PICK acc \in HolesOf(msgs) : acc = h[1 .. n] /\ Gaps(msgs) = acc.gaps
  <2>1. n \in 0 .. n
    BY <1>7
  <2> QED BY <1>10, <1>15, <1>18, <2>1
<1>24. acc.open = 0
  <2>1. hi \in lo .. hi /\ hi \in Nat
    BY <1>3
  <2>2. acc.open \in Nat
    BY <1>23 DEF HolesOf
  <2>3. ASSUME acc.open # 0 PROVE FALSE
    <3>1. acc.open <= hi /\ \A k \in acc.open .. hi : Silent(msgs, k)
      BY <1>22, <1>23, <2>3 DEF Seen
    <3>2. hi \in acc.open .. hi
      BY <2>1, <2>2, <3>1
    <3> QED BY <1>4, <3>1, <3>2
  <2> QED BY <2>3
<1>25. HolesAre(msgs, lo, hi, acc.gaps)
  <2>1. \A g \in acc.gaps : IsHole(msgs, g) /\ lo < g.from /\ g.to < hi
    BY <1>22, <1>23 DEF Seen
  <2>2. \A k \in lo .. hi : Silent(msgs, k) => \E g \in acc.gaps : k \in g.from .. g.to
    BY <1>22, <1>23, <1>24 DEF Seen
  <2> QED BY <1>3, <1>4, <2>1, <2>2 DEF HolesAre
<1> QED BY <1>1, <1>23, <1>25

LEMMA NoHolesUnseen ==
    ASSUME NEW msgs \in SUBSET Rows, msgs # {}
    PROVE  NoHoleUnseen(msgs)
<1>1. PICK first, last, lo, hi, gaps :
         /\ first = Earliest(msgs) /\ last = Latest(msgs) /\ gaps = Gaps(msgs)
         /\ lo = Bucket(first, Limits.month) /\ hi = Bucket(last, Limits.month)
  OBVIOUS
<1>2. HolesAre(msgs, lo, hi, gaps)
  BY <1>1, GapsAre
<1>3. /\ lo \in Nat /\ hi \in Nat /\ lo <= hi
      /\ \A m \in msgs : Bucket(m, Limits.month) \in lo .. hi
  BY <1>2 DEF HolesAre
<1>4. \A k : Silent(msgs, k) <=> k \notin Buckets(msgs, Limits.month)
  BY DEF Silent, In, Buckets
<1>5. ASSUME NEW g \in gaps
      PROVE  \E i, j \in Nat : /\ lo < i /\ i <= j /\ j < hi /\ g = Gap(msgs, i, j) /\ g.from = i /\ g.to = j
                               /\ ~Silent(msgs, i - 1) /\ ~Silent(msgs, j + 1)
                               /\ \A k \in i .. j : Silent(msgs, k)
  <2>1. IsHole(msgs, g) /\ lo < g.from /\ g.to < hi
    BY <1>2 DEF HolesAre
  <2>2. PICK i \in Nat, j \in Nat : /\ 0 < i /\ i <= j /\ g = Gap(msgs, i, j)
                                    /\ ~Silent(msgs, i - 1) /\ ~Silent(msgs, j + 1)
                                    /\ \A k \in i .. j : Silent(msgs, k)
    BY <2>1 DEF IsHole
  <2>3. g.from = i /\ g.to = j
    BY <2>2 DEF Gap
  <2> QED BY <2>1, <2>2, <2>3
<1>6. Absent(gaps) = MonthsOf(msgs) \ Buckets(msgs, Limits.month)
  <2>1. MonthsOf(msgs) = lo .. hi
    BY <1>1 DEF MonthsOf
  <2>2. ASSUME NEW g \in gaps, NEW k \in g.from .. g.to PROVE k \in lo .. hi /\ Silent(msgs, k)
    <3>1. PICK i \in Nat, j \in Nat : /\ lo < i /\ j < hi /\ g.from = i /\ g.to = j
                                      /\ \A l \in i .. j : Silent(msgs, l)
      BY <1>5
    <3> QED BY <1>3, <2>2, <3>1
  <2>3. ASSUME NEW k \in lo .. hi, Silent(msgs, k) PROVE \E g \in gaps : k \in g.from .. g.to
    BY <1>2, <2>3 DEF HolesAre
  <2> QED BY <1>4, <2>1, <2>2, <2>3 DEF Absent
<1>7. ASSUME NEW g \in gaps, NEW d \in gaps PROVE g = d \/ g.to + 1 < d.from \/ d.to + 1 < g.from
  <2>1. PICK i \in Nat, j \in Nat : /\ lo < i /\ i <= j /\ g = Gap(msgs, i, j) /\ g.from = i /\ g.to = j
                                    /\ ~Silent(msgs, i - 1) /\ ~Silent(msgs, j + 1)
                                    /\ \A k \in i .. j : Silent(msgs, k)
    BY <1>5
  <2>2. PICK p \in Nat, q \in Nat : /\ lo < p /\ p <= q /\ d = Gap(msgs, p, q) /\ d.from = p /\ d.to = q
                                    /\ ~Silent(msgs, p - 1) /\ ~Silent(msgs, q + 1)
                                    /\ \A k \in p .. q : Silent(msgs, k)
    BY <1>5
  <2>3. SUFFICES ASSUME p <= j + 1, i <= q + 1 PROVE g = d
    BY <2>1, <2>2
  <2>4. j = q
    <3>1. ~(j < q)
      <4>1. ASSUME j < q PROVE FALSE
        <5>1. j + 1 \in p .. q
          BY <2>3, <4>1
        <5> QED BY <2>1, <2>2, <5>1
      <4> QED BY <4>1
    <3>2. ~(q < j)
      <4>1. ASSUME q < j PROVE FALSE
        <5>1. q + 1 \in i .. j
          BY <2>3, <4>1
        <5> QED BY <2>1, <2>2, <5>1
      <4> QED BY <4>1
    <3> QED BY <3>1, <3>2
  <2>5. i = p
    <3>1. ~(i < p)
      <4>1. ASSUME i < p PROVE FALSE
        <5>1. p - 1 \in i .. j
          BY <2>2, <2>4, <4>1
        <5> QED BY <2>1, <2>2, <5>1
      <4> QED BY <4>1
    <3>2. ~(p < i)
      <4>1. ASSUME p < i PROVE FALSE
        <5>1. i - 1 \in p .. q
          BY <2>1, <2>4, <4>1
        <5> QED BY <2>1, <2>2, <5>1
      <4> QED BY <4>1
    <3> QED BY <3>1, <3>2
  <2> QED BY <2>1, <2>2, <2>4, <2>5
<1>8. ASSUME NEW g \in gaps
      PROVE  At[g.before] < At[g.after] /\ Soon(g.before, msgs, At[g.after] - At[g.before]) = {g.after}
  <2>1. PICK i \in Nat, j \in Nat : /\ lo < i /\ i <= j /\ j < hi /\ g = Gap(msgs, i, j)
                                    /\ \A k \in i .. j : Silent(msgs, k)
    BY <1>5
  <2>2. PICK old, new, b, a :
          /\ old = {m \in msgs : Bucket(m, Limits.month) < i} /\ new = {m \in msgs : Bucket(m, Limits.month) > j}
          /\ b = Latest(old) /\ a = Earliest(new)
    OBVIOUS
  <2>3. g.before = b /\ g.after = a
    BY <2>1, <2>2 DEF Gap
  <2>4. first \in msgs /\ last \in msgs
    BY <1>1, FarthestAre
  <2>5. old \in SUBSET Rows /\ old # {} /\ new \in SUBSET Rows /\ new # {}
    BY <1>1, <1>3, <2>1, <2>2, <2>4
  <2>6. b \in old /\ (\A m \in old : At[m] <= At[b]) /\ a \in new /\ \A m \in new : At[a] <= At[m]
    BY <2>2, <2>5, FarthestAre
  <2>7. \A m \in msgs : At[m] \in Nat /\ m \in Rows
    BY ConversationAssumption
  <2>8. ASSUME NEW m \in msgs PROVE m \in old \/ m \in new
    <3>1. Bucket(m, Limits.month) \in Nat
      BY <1>3
    <3>2. Bucket(m, Limits.month) \notin i .. j
      BY <1>4, <2>1 DEF Buckets
    <3> QED BY <2>2, <3>1, <3>2
  <2>9. ASSUME NEW m \in old, NEW k \in new PROVE At[m] < At[k]
    <3>1. m \in msgs /\ k \in msgs /\ Bucket(m, Limits.month) < i /\ Bucket(k, Limits.month) > j
      BY <2>2
    <3>2. ~(At[k] <= At[m])
      <4>1. m \in Rows /\ k \in Rows
        BY <2>7, <3>1
      <4>2. Bucket(m, Limits.month) \in Nat /\ Bucket(k, Limits.month) \in Nat
        BY <4>1, MonthOf
      <4>3. ~(Bucket(k, Limits.month) <= Bucket(m, Limits.month))
        BY <2>1, <3>1, <4>2
      <4> QED BY <4>1, <4>3, MonthOf
    <3> QED BY <2>7, <3>1, <3>2
  <2>10. At[b] < At[a] /\ a \in msgs /\ b \in msgs
    BY <2>2, <2>6, <2>9
  <2>11. \A m : m \in Soon(b, msgs, At[a] - At[b]) <=> m \in msgs /\ At[b] < At[m] /\ At[m] <= At[a]
    <3>1. ASSUME NEW m \in msgs PROVE At[m] - At[b] <= At[a] - At[b] <=> At[m] <= At[a]
      BY <2>7, <2>10
    <3> QED BY <3>1 DEF Soon
  <2>12. ASSUME NEW m \in msgs, At[b] < At[m], At[m] <= At[a] PROVE m = a
    <3>1. m \notin old
      <4>1. ASSUME m \in old PROVE FALSE
        <5>1. At[m] <= At[b]
          BY <2>6, <4>1
        <5> QED BY <2>7, <2>10, <2>12, <5>1
      <4> QED BY <4>1
    <3>2. At[a] <= At[m]
      BY <2>6, <2>8, <3>1
    <3>3. At[m] = At[a]
      BY <2>7, <2>10, <2>12, <3>2
    <3> QED BY <2>7, <2>10, <3>3, ConversationAssumption
  <2>13. At[a] <= At[a]
    BY <2>7, <2>10
  <2>14. Soon(b, msgs, At[a] - At[b]) = {a}
    BY <2>10, <2>11, <2>12, <2>13
  <2> QED BY <2>3, <2>10, <2>14
<1>9. ASSUME gaps # {} PROVE Caution(msgs) # "clear" /\ SpanDiscontinuity(msgs, 0, 0) # {}
  <2>1. Caution(msgs) # "clear"
    BY <1>1, <1>9 DEF Caution
  <2>2. PICK g \in gaps : TRUE
    BY <1>9
  <2>3. PICK i \in Nat, j \in Nat : lo < i /\ i <= j /\ j < hi /\ g.from = i /\ g.to = j
    BY <1>5
  <2>4. i \in Absent(gaps) /\ i \in lo .. hi
    BY <1>3, <2>3 DEF Absent
  <2>5. ~(At[last] <= At[first])
    <3>1. first \in Rows /\ last \in Rows
      BY <1>1, FarthestAre
    <3>2. ~(hi <= lo)
      BY <1>3, <2>3
    <3> QED BY <1>1, <3>1, <3>2, MonthOf
  <2>6. lo = At[first] \div Limits.month /\ hi = At[last] \div Limits.month
    BY <1>1 DEF Bucket
  <2>7. SpanDiscontinuity(msgs, 0, 0) = (lo .. hi) \cap (Absent(gaps) \cup Thin(msgs))
    BY <1>1, <2>5, <2>6 DEF SpanDiscontinuity
  <2> QED BY <2>1, <2>4, <2>7
<1> QED BY <1>1, <1>6, <1>7, <1>8, <1>9 DEF NoHoleUnseen

\* A figure is of numbers: no step of any part touches what it is drawn from.
TensionsInv == part = "figures" => \A m \in DOMAIN tone : tone[m].tension \in Nat

LEMMA TensionsHold == Spec => []TensionsInv
<1>1. Init => TensionsInv
  <2> SUFFICES ASSUME Init, part = "figures", NEW m \in DOMAIN tone PROVE tone[m].tension \in Nat
    BY DEF TensionsInv
  <2>1. PICK s \in Spectra : tone = Restrict(s, DOMAIN s \cap Msgs)
    BY DEF Init, Figures
  <2>2. m \in DOMAIN s /\ tone[m] = s[m]
    BY <2>1 DEF Restrict
  <2> QED BY <2>1, <2>2, ArchivesAssumption
<1>2. TensionsInv /\ [Next]_lensesVars => TensionsInv'
  BY DEF TensionsInv, Next, lensesVars, chaptersVars
<1> QED BY <1>1, <1>2, PTL DEF Spec

\* Whatever was imported, scored and labelled: the months, the quarters, the sides, the
\* days and the river count the same messages (metrics/compute.ts, trajectory.ts,
\* growth.ts, l1.ts, ambient.ts), what is
\* severe is hard and a threshold that tells is found (calibrate.ts: deriveThresholds),
\* every silent month is in one gap between two messages and is told of
\* (archiveHealth.ts), a sample is half of each side and a third of each band where
\* there is any (calibrate.ts: sampleHoldout), and a plain count is a count (ask.ts).
THEOREM FiguresAreAlike == Spec => []FiguresAgree
<1>1. GateInv /\ TensionsInv => FiguresAgree
  <2> SUFFICES ASSUME GateInv, TensionsInv, part = "figures" PROVE FiguresAgree
    BY DEF FiguresAgree
  <2>1. PICK cal : cal = Derive(Rejoined(marks, held, tone))
    OBVIOUS
  <2>2. held \in SUBSET Rows /\ Msgs \in SUBSET Rows
    BY MsgsAre DEF GateInv
  <2>3. AccountsAgree(held, tone, cal, clock)
    BY <2>2, AccountsDo
  <2>4. SevereIsHard(marks, held, tone)
    BY <2>2, SevereAreHard DEF TensionsInv
  <2>5. NoHoleUnseen(held)
    <3>1. CASE held = {}
      BY <3>1 DEF NoHoleUnseen
    <3>2. CASE held # {}
      BY <2>2, <3>2, NoHolesUnseen
    <3> QED BY <3>1, <3>2
  <2>6. DrawIsFair(Msgs, tone, PerSide)
    BY <2>2, ChaptersAssumption, DrawsAreFair
  <2>7. CountIsHonest
    BY <2>2, CountsAreHonest
  <2> QED BY <2>1, <2>3, <2>4, <2>5, <2>6, <2>7 DEF FiguresAgree
<1> QED BY <1>1, GateInvHolds, TensionsHold, PTL
=============================================================================

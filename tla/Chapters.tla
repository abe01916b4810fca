------------------------------ MODULE Chapters ------------------------------
(***************************************************************************)
(* What is kept of a conversation's course: its fights, its eras, the      *)
(* gate that weighs them, and the counts the surfaces read from a cache.   *)
(*                                                                         *)
(* Messages and scores come from imports and from drains; each layer is    *)
(* computed when somebody asks for it, by a request or a command, and      *)
(* stays as it was until somebody does so again.                           *)
(***************************************************************************)
EXTENDS Calibration, Receipts

CONSTANTS
    Arrivals,     \* the sets of messages that imports add
    Scorings,     \* what the windows may say of the messages, one after the other
    Clocks,       \* the owner's zones
    Marks,        \* how an owner may label the messages
    PerSide,      \* half of a sample
    Reads,        \* what the stage-2 read of a fight may say
    MinSegment,   \* months an era has at least
    MaxEras,
    Pasts,        \* what may have been imported and read already
    MaxSteps,     \* bound on what is asked for
    None          \* no such row in a table

\* An owner who set no zone has UTC, one of the zones that can be set.
ASSUME ClocksAssumption == 0 \in Clocks

ASSUME ChaptersAssumption ==
    /\ IsFiniteSet(Rows)
    /\ \A batch \in Arrivals : batch \subseteq Rows
    /\ \A past \in Pasts : past.held \subseteq Rows
    /\ \A r \in Reads : r = Blank \/ IsFiniteSet(DOMAIN r.patterns)
    /\ {Limits.month, Limits.halfLife, Floors.high} \subseteq Nat \ {0}
    /\ {Limits.halvings, Limits.gap, PerSide} \subseteq Nat

VARIABLES
    held,         \* messages
    tone,         \* what analysis_results say of them, on the average
    calibration,  \* app_meta: the thresholds
    bias,         \* app_meta: self_report_bias
    agreed,       \* app_meta: l4_sample_confirmed
    research,     \* the flag of the process and the consent of the archive
    clock,        \* app_meta: the zone
    episodes,     \* the table, by first message
    metrics,      \* the table, by key
    reads,        \* stage-2 results: what was read, and its verdict
    marks,        \* the labels of a calibration under way
    brief,        \* the session brief last exported
    unwarmed,     \* an import was cut short before the overview was refreshed
    steps         \* requests and commands so far

chaptersVars == <<held, tone, calibration, bias, agreed, research, clock,
                  episodes, metrics, reads, marks, brief, unwarmed, steps>>

Keys == {"overview", "river", "findings", "growth", "kids", "eras"}

ChaptersInit ==
    /\ \E past \in Pasts : held = past.held /\ tone = past.tone
    /\ calibration = None /\ bias = None /\ agreed = FALSE /\ research \in BOOLEAN
    /\ clock = 0
    /\ episodes = <<>> /\ metrics = [k \in Keys |-> None]
    /\ reads = <<>> /\ marks = None /\ brief = None /\ unwarmed = FALSE /\ steps = 0

Msgs == Worded(held)

Cal == IF calibration = None THEN Default ELSE calibration

-----------------------------------------------------------------------------
(* Fights: hard messages, each within a gap of the one before, and enough.   *)

\* Mutant: the gap is measured from the first hard message.
ClustersFromFirst(hard) ==
    FoldLeft(LAMBDA all, m :
                IF all # <<>> /\ At[m] - At[Head(Last(all))] <= Limits.gap
                THEN Append(Front(all), Append(Last(all), m)) ELSE Append(all, <<m>>),
             <<>>, ByTime(hard))

Clusters(hard) ==
    FoldLeft(LAMBDA all, m :
                IF all # <<>> /\ At[m] - At[Last(Last(all))] <= Limits.gap
                THEN Append(Front(all), Append(Last(all), m)) ELSE Append(all, <<m>>),
             <<>>, ByTime(hard))

Repair(last, msgs, scores) ==
    LET warm == Warm(Soon(last, msgs, Limits.repair), scores)
    IN IF warm = {} THEN None ELSE [at |-> At[Earliest(warm)], by |-> SideOf(Earliest(warm))]

\* What stands between the first and the last hard message is in the fight;
\* a child may be named a little before or after.
EpisodeOf(cluster, msgs, scores, cal) ==
    LET first == At[Head(cluster)]
        last == At[Last(cluster)]
        span == {m \in msgs : At[m] \in first .. last}
        near == {m \in msgs : At[m] + Limits.near >= first /\ At[m] <= last + Limits.near}
        hard == ToSet(cluster)
    IN [start |-> first, end |-> last, msgs |-> Cardinality(span),
        hostile |-> BySide(hard), severe |-> BySide(Severe(hard, scores, cal)),
        peak |-> CHOOSE t \in {scores[m].tension : m \in hard} : \A m \in hard : scores[m].tension <= t,
        initiator |-> SideOf(Head(cluster)), last |-> SideOf(Last(cluster)),
        kid |-> Saying(near, "kid") # {}, repaired |-> Repair(Last(cluster), msgs, scores),
        note |-> None]

Fights(msgs, scores, cal) ==
    LET enough == {c \in ToSet(Clusters(Hard(msgs, scores, cal))) : Len(c) >= Limits.minHostile}
    IN [s \in {Head(c) : c \in enough} |->
           EpisodeOf(CHOOSE c \in enough : Head(c) = s, msgs, scores, cal)]

\* Mutant: a row is replaced, not updated.
UpsertedAnew(table, now) == [s \in DOMAIN now |-> [now[s] EXCEPT !.note = None]]

\* A fight that begins with the same message keeps its row and its note.
Upserted(table, now) ==
    [s \in DOMAIN now |-> IF s \in DOMAIN table THEN [now[s] EXCEPT !.note = table[s].note] ELSE now[s]]

EpisodesNow(table) == Upserted(table, Fights(Msgs, tone, Cal))

-----------------------------------------------------------------------------
(* Eras: the months that hold messages, cut where their signals shift.       *)
(* Which cuts clear the bar is arithmetic on means that is left open.       *)

Signals(msgs, scores, cal, table) ==
    LET T == Trajectory(msgs, scores, cal)
        begun(k) == {s \in DOMAIN table : table[s].start \div Limits.month = k}
    IN [k \in DOMAIN T |->
           [volume |-> T[k].volume, hostile |-> T[k].hostile,
            recip |-> <<T[k].answered["recip"], T[k].answered["recip"] + T[k].answered["soft"]>>,
            init |-> <<Cardinality({s \in begun(k) : table[s].initiator = "them"}), Cardinality(begun(k))>>,
            latency |-> {table[s].repaired.at - table[s].end : s \in {t \in begun(k) : table[t].repaired # None}}]]

\* The places where a sequence of n months may be cut: halves of halves, none
\* of them too short.
Cuts(n) ==
    IF n < 2 * MinSegment THEN {{}}
    ELSE {C \in SUBSET (2 .. n) :
             /\ Cardinality(C) < MaxEras
             /\ \A i \in C \cup {1}, j \in C \cup {n + 1} : i < j => j - i >= MinSegment}

EraFrom(months, cuts, signals) ==
    LET n == Len(months)
        upTo(i) == CHOOSE j \in cuts \cup {n + 1} : j > i /\ \A k \in cuts : k > i => j <= k
    IN [i \in IF n = 0 THEN {} ELSE cuts \cup {1} |->
           [start |-> months[i] * Limits.month,
            end |-> (months[upTo(i) - 1] + 1) * Limits.month - 1,
            months |-> upTo(i) - i,
            signals |-> Restrict(signals, {months[j] : j \in i .. (upTo(i) - 1)})]]

\* By its first instant, so that a name finds its era again.
Named(found, prior) ==
    LET name(e) == IF prior # None /\ e.start \in DOMAIN prior THEN prior[e.start].name ELSE None
    IN [s \in {found[i].start : i \in DOMAIN found} |->
           LET e == found[CHOOSE i \in DOMAIN found : found[i].start = s]
           IN [start |-> e.start, end |-> e.end, months |-> e.months, signals |-> e.signals, name |-> name(e)]]

ErasNow(table, prior) ==
    LET signals == Signals(Msgs, tone, Cal, table)
        months == InOrder(DOMAIN signals)
    IN {Named(EraFrom(months, C, signals), prior) : C \in Cuts(Len(months))}

Eras == IF metrics["eras"] = None THEN <<>> ELSE metrics["eras"]

-----------------------------------------------------------------------------
(* The gate.  A share is theirs of both, a half where neither has any.       *)

Coercive == {"threat", "monitoring", "coercive_demand"}

\* A pattern that is a repair does not count.
Counted(result) ==
    [s \in Sides |-> Cardinality({i \in DOMAIN result.patterns :
                                     /\ ~result.patterns[i].repair
                                     /\ result.patterns[i].kind \in Coercive
                                     /\ result.patterns[i].side = s})]

\* The fight a read was of: the first of its messages that begins one.
FightOf(read, table) ==
    LET starts == SelectSeq(read.members, LAMBDA m : m \in DOMAIN table)
    IN IF starts = <<>> THEN None ELSE Head(starts)

\* Of two reads of one fight, the later.
VerdictOn(s, all, table) ==
    LET about == {i \in DOMAIN all : FightOf(all[i], table) = s}
    IN IF about = {} THEN None ELSE all[Max(about)].result

\* A refused read has no patterns: counting them throws.
Countable(eras, table, all) ==
    \A s \in DOMAIN table :
       VerdictOn(s, all, table) = Blank => \A e \in DOMAIN eras : table[s].start \notin eras[e].start .. eras[e].end

Summed(counts) == [s \in Sides |-> SumOf([e \in DOMAIN counts |-> counts[e][s]])]

Aggregate(era, table, all) ==
    LET some == {s \in DOMAIN table : table[s].start \in era.start .. era.end}
        read == {s \in some : VerdictOn(s, all, table) # None}
    IN [end |-> era.end, episodes |-> Cardinality(some),
        severe |-> Summed([e \in some |-> table[e].severe]),
        init |-> [side \in Sides |-> Cardinality({s \in some : table[s].initiator = side})],
        coercive |-> Summed([e \in read |-> Counted(VerdictOn(e, all, table))])]

\* In hundredths: theirs are so many of both, or none are counted.
Leans(count, side, bar) ==
    LET both == count["me"] + count["them"] IN both > 0 /\ 100 * count[side] >= bar * both

\* Mutant: two of the three are enough.
TripsOnHeat(agg, bar) ==
    {side \in Sides : Leans(agg.severe, side, bar) /\ Leans(agg.init, side, bar)}

Trips(agg, bar) ==
    {side \in Sides : \A what \in {"severe", "init", "coercive"} : Leans(agg[what], side, bar)}

\* What an era weighs is halved by every half-life since.
Weight(agg, latest) ==
    (agg.severe["me"] + agg.severe["them"]) * 2 ^ (Limits.halvings - Least(Limits.halvings, (latest - agg.end) \div Limits.halfLife))

Gate(aggs, bar) ==
    LET latest == CHOOSE t \in {aggs[e].end : e \in DOMAIN aggs} : \A e \in DOMAIN aggs : aggs[e].end <= t
        weigh(side) == SumOf([e \in {d \in DOMAIN aggs : side \in Trips(aggs[d], bar)} |-> Weight(aggs[e], latest)])
        toward == IF \A e \in DOMAIN aggs : Trips(aggs[e], bar) = {} THEN None
                  ELSE IF weigh("them") >= weigh("me") THEN "them" ELSE "me"
    IN [eras |-> [e \in DOMAIN aggs |-> Trips(aggs[e], bar)],
        direction |-> toward, frame |-> IF toward = None THEN "two_readings" ELSE "support"]

Bar == 66 + (IF bias = None THEN 0 ELSE bias.bump)

Calibrated == calibration # None /\ bias # None

GateFor ==
    LET gate == Gate([e \in DOMAIN Eras |-> Aggregate(Eras[e], episodes, reads)], Bar)
    IN IF research /\ Calibrated THEN gate
       ELSE [eras |-> [e \in DOMAIN gate.eras |-> {}], direction |-> gate.direction, frame |-> "two_readings"]

-----------------------------------------------------------------------------
(* Other layers                                                             *)

Year(t) == t \div Limits.year

Kids(table) ==
    [y \in {Year(table[s].start) : s \in DOMAIN table} |->
        LET some == {s \in DOMAIN table : Year(table[s].start) = y}
            near == {s \in some : table[s].kid}
        IN [total |-> Cardinality(some), near |-> Cardinality(near),
            hostile |-> Summed([e \in near |-> table[e].hostile]),
            severe |-> Summed([e \in near |-> table[e].severe])]]

FindingsNow == Findings(Msgs, tone, Cal, {episodes[s] : s \in DOMAIN episodes})

-----------------------------------------------------------------------------
(* What is asked for *)

Step == steps < MaxSteps /\ steps' = steps + 1

\* Mutant: nobody refreshes the overview.
ImportCold(batch) ==
    /\ Step /\ batch \cap held = {}
    /\ held' = held \cup batch
    /\ UNCHANGED <<tone, calibration, bias, agreed, research, clock, episodes, metrics, reads, marks, brief, unwarmed>>

\* An import commits, then refreshes the overview, as best it can: it may be
\* killed in between.
Import(batch) ==
    /\ Step /\ batch \cap held = {}
    /\ held' = held \cup batch
    /\ unwarmed' \in BOOLEAN
    /\ metrics' = IF unwarmed' THEN metrics ELSE [metrics EXCEPT !["overview"] = Overview(held', clock)]
    /\ UNCHANGED <<tone, calibration, bias, agreed, research, clock, episodes, reads, marks, brief>>

\* A drain ends: what it read of the messages, and the river.
Rescore(scores) ==
    /\ Step
    /\ tone' = Restrict(scores, DOMAIN scores \cap Msgs)
    /\ metrics' = [metrics EXCEPT !["river"] = River(Msgs, tone', clock)]
    /\ UNCHANGED <<held, calibration, bias, agreed, research, clock, episodes, reads, marks, brief, unwarmed>>

\* PUT timezone.
SetClock(zone) ==
    /\ Step /\ zone # clock
    /\ clock' = zone
    /\ metrics' = [metrics EXCEPT !["river"] = River(Msgs, tone, zone)]
    /\ UNCHANGED <<held, tone, calibration, bias, agreed, research, episodes, reads, marks, brief, unwarmed>>

Cached(key, value) ==
    /\ Step
    /\ metrics' = [metrics EXCEPT ![key] = value]
    /\ UNCHANGED <<held, tone, calibration, bias, agreed, research, clock, episodes, reads, marks, brief>>

RefreshFindings == Cached("findings", FindingsNow) /\ UNCHANGED unwarmed

\* GET overview and GET findings compute on a miss; commands always do.
ReadOverview ==
    /\ metrics["overview"] = None /\ Cached("overview", Overview(held, clock))
    /\ UNCHANGED unwarmed

RefreshOverview == Cached("overview", Overview(held, clock)) /\ unwarmed' = FALSE

ReadFindings == metrics["findings"] = None /\ RefreshFindings

RefreshEpisodes ==
    /\ Step
    /\ episodes' = EpisodesNow(episodes)
    /\ UNCHANGED <<held, tone, calibration, bias, agreed, research, clock, metrics, reads, marks, brief, unwarmed>>

RefreshEras ==
    /\ \E eras \in ErasNow(episodes, metrics["eras"]) : Cached("eras", eras)
    /\ UNCHANGED unwarmed

\* The four layers, one after the other; eras and kids read the episodes.
Phase3 ==
    /\ Step
    /\ episodes' = EpisodesNow(episodes)
    /\ \E eras \in ErasNow(episodes', metrics["eras"]) :
       metrics' = [metrics EXCEPT !["eras"] = eras, !["kids"] = Kids(episodes'),
                                  !["growth"] = Growth(Msgs, tone, Cal)]
    /\ UNCHANGED <<held, tone, calibration, bias, agreed, research, clock, reads, marks, brief, unwarmed>>

\* Notes and names, written for what is there.
Narrate(s) ==
    /\ Step /\ episodes[s].note = None
    /\ episodes' = [episodes EXCEPT ![s].note = "note"]
    /\ UNCHANGED <<held, tone, calibration, bias, agreed, research, clock, metrics, reads, marks, brief, unwarmed>>

NameEra(s) ==
    /\ Eras[s].name = None
    /\ Cached("eras", [Eras EXCEPT ![s].name = "name"])
    /\ UNCHANGED unwarmed

-----------------------------------------------------------------------------
(* Calibration: a sample is drawn, labelled blind, reviewed, and applied      *)

DrawSample(labelling) ==
    /\ Step
    /\ \E S \in Draws(Msgs, tone, PerSide) : S # {} /\ marks' = Restrict(labelling, S)
    /\ UNCHANGED <<held, tone, calibration, bias, agreed, research, clock, episodes, metrics, reads, brief, unwarmed>>

\* The labels are joined to the scores there are now, not to those reviewed.
Apply ==
    /\ Step /\ marks # None
    /\ LET labels == Rejoined(marks, held, tone)
       IN calibration' = Derive(labels) /\ bias' = Bias(labels)
    /\ marks' = None
    /\ UNCHANGED <<held, tone, agreed, research, clock, episodes, metrics, reads, brief, unwarmed>>

\* The first of the two rows is written when the process ends.
ApplyKilled ==
    /\ Step /\ marks # None
    /\ bias' = Bias(Rejoined(marks, held, tone))
    /\ marks' = None
    /\ UNCHANGED <<held, tone, calibration, agreed, research, clock, episodes, metrics, reads, brief, unwarmed>>

-----------------------------------------------------------------------------
(* Stage 2: the worst fights are read first, and only when the owner has      *)
(* agreed with that are all of them.                                        *)

Members(e) == ByTime({m \in Msgs : At[m] \in e.start .. e.end})

\* The sample or, once agreed, any.
Readable(s) ==
    LET severe(t) == episodes[t].severe["me"] + episodes[t].severe["them"]
        worse(t) == severe(t) > severe(s) \/ (severe(t) = severe(s) /\ episodes[t].peak > episodes[s].peak)
    IN agreed \/ Cardinality({t \in DOMAIN episodes : worse(t)}) < Limits.sample

ReadPatterns(s, result) ==
    /\ Step /\ research /\ Readable(s) /\ Members(episodes[s]) # <<>>
    /\ result # Blank => \A i \in DOMAIN result.patterns : result.patterns[i].ids \cap ToSet(Members(episodes[s])) # {}
    /\ reads' = Append(AtPlaces(reads, {i \in DOMAIN reads : reads[i].members # Members(episodes[s])}),
                       [members |-> Members(episodes[s]), result |-> result])
    /\ UNCHANGED <<held, tone, calibration, bias, agreed, research, clock, episodes, metrics, marks, brief, unwarmed>>

Agree ==
    /\ Step /\ ~agreed /\ agreed' = TRUE
    /\ UNCHANGED <<held, tone, calibration, bias, research, clock, episodes, metrics, reads, marks, brief, unwarmed>>

-----------------------------------------------------------------------------

\* Everything is deleted; what the owner set is kept.
Clear ==
    /\ Step
    /\ held' = {} /\ tone' = <<>> /\ episodes' = <<>> /\ metrics' = [k \in Keys |-> None] /\ reads' = <<>>
    /\ UNCHANGED <<calibration, bias, agreed, research, clock, marks, brief, unwarmed>>

ChaptersNext ==
    \/ \E b \in Arrivals : Import(b)
    \/ \E s \in Scorings : Rescore(s)
    \/ \E z \in Clocks : SetClock(z)
    \/ ReadOverview \/ RefreshOverview \/ ReadFindings \/ RefreshFindings
    \/ RefreshEpisodes \/ RefreshEras \/ Phase3
    \/ \E s \in DOMAIN episodes : Narrate(s)
    \/ \E s \in DOMAIN Eras : NameEra(s)
    \/ \E l \in Marks : DrawSample(l)
    \/ Apply \/ ApplyKilled
    \/ \E s \in DOMAIN episodes : \E r \in Reads : ReadPatterns(s, r)
    \/ Agree \/ Clear

ChaptersSpec == ChaptersInit /\ [][ChaptersNext]_chaptersVars

=============================================================================

------------------------------ MODULE Measures ------------------------------
(***************************************************************************)
(* What is counted of a conversation without a model's prose: the overview *)
(* of an archive, its rhythm, what is missing from it, the months and      *)
(* quarters of who was hard and who answered, and the five findings.       *)
(*                                                                         *)
(* A count is a cardinality over messages; a ratio is left as the pair it  *)
(* is made of.  What a message says is the set of the patterns it matches. *)
(***************************************************************************)
EXTENDS Conversation

CONSTANTS
    Says,      \* the patterns each message matches; "nothing" if it has no body
    Drafts,    \* messages never sent: neither out nor in for the overview
    Limits     \* the windows, widths and floors that the code fixes

\* A draft is the owner's.
ASSUME MeasuresAssumption == Drafts \subseteq Mine /\ Limits.deluge \in Nat /\ Limits.day \in Nat \ {0}

Sides == {"me", "them"}

SideOf(m) == IF m \in Mine THEN "me" ELSE "them"

BySide(msgs) == [s \in Sides |-> Cardinality({m \in msgs : SideOf(m) = s})]

Saying(msgs, what) == {m \in msgs : what \in Says[m]}

Worded(msgs) == msgs \ Saying(msgs, "nothing")

Bucket(m, width) == At[m] \div width

Buckets(msgs, width) == {Bucket(m, width) : m \in msgs}

In(msgs, width, k) == {m \in msgs : Bucket(m, width) = k}

\* The owner's clock runs ahead of UTC by so much.
LocalDay(m, clock) == (At[m] + clock) \div Limits.day

ByDay(msgs, clock) ==
    [d \in {LocalDay(m, clock) : m \in msgs} |-> {m \in msgs : LocalDay(m, clock) = d}]

Before(m, msgs) == {k \in msgs : At[k] < At[m]}

Soon(m, msgs, window) == {k \in msgs : At[m] < At[k] /\ At[k] - At[m] <= window}

-----------------------------------------------------------------------------
(* Streaks and silences over the days on which something was said           *)

\* Days in order: the streak under way, the longest, and the longest silence.
Runs(days) ==
    FoldLeft(LAMBDA acc, d :
                LET streak == IF d = acc.last + 1 THEN acc.streak + 1 ELSE 1
                    silence == IF acc.streak = 0 THEN 0 ELSE d - acc.last - 1
                IN [last |-> d, streak |-> streak,
                    longest |-> IF streak > acc.longest THEN streak ELSE acc.longest,
                    silence |-> IF silence > acc.silence THEN silence ELSE acc.silence],
             [last |-> 0, streak |-> 0, longest |-> 0, silence |-> 0],
             InOrder(days))

-----------------------------------------------------------------------------
(* The overview, one pass over every message that is no reaction            *)

Sent(msgs) == (msgs \cap Mine) \ Drafts

Received(msgs) == msgs \ Mine

\* The first message, and every one after a long enough gap, opens a session.
Opens(msgs) ==
    {m \in msgs : Before(m, msgs) = {} \/ At[m] - At[Latest(Before(m, msgs))] > Limits.session}

\* A reply is a turn of the other side's; drafts are no turns.
Replies(mine, others) ==
    {m \in mine : LET earlier == Before(m, mine \cup others)
                  IN earlier # {} /\ Latest(earlier) \in others}

Latencies(mine, others) ==
    [m \in Replies(mine, others) |-> At[m] - At[Latest(Before(m, mine \cup others))]]

Overview(msgs, clock) ==
    [total |-> Cardinality(msgs),
     out |-> Cardinality(Sent(msgs)), in |-> Cardinality(Received(msgs)),
     daily |-> ByDay(msgs, clock),
     active |-> Buckets(msgs, Limits.day),
     sessions |-> Cardinality(Opens(msgs)),
     initiations |-> <<Cardinality(Opens(msgs) \cap Sent(msgs)), Cardinality(Opens(msgs) \cap Received(msgs))>>,
     latency |-> <<Latencies(Sent(msgs), Received(msgs)), Latencies(Received(msgs), Sent(msgs))>>,
     runs |-> Runs(Buckets(msgs, Limits.day))]

-----------------------------------------------------------------------------
(* The ambient counts, over the messages that have words                    *)

Ambient(msgs, clock) ==
    LET follows(m, k) == Before(m, msgs) # {} /\ k = Latest(Before(m, msgs))
        days == ByDay(msgs, clock) IN
    [volume |-> BySide(msgs),
     days |-> Cardinality(DOMAIN days), runs |-> Runs(DOMAIN days),
     firstOfDay |-> BySide({Earliest(days[d]) : d \in DOMAIN days}),
     lastOfDay |-> BySide({Latest(days[d]) : d \in DOMAIN days}),
     replies |-> BySide({m \in msgs : \E k \in msgs : /\ follows(m, k) /\ SideOf(k) # SideOf(m)
                                                      /\ At[m] - At[k] <= Limits.reply}),
     doubles |-> BySide({m \in msgs : \E k \in msgs : follows(m, k) /\ SideOf(k) = SideOf(m)}),
     months |-> [k \in Buckets(msgs, Limits.month) |-> BySide(In(msgs, Limits.month, k))]]

-----------------------------------------------------------------------------
(* What is missing from an archive.  Every month from the first message to  *)
(* the last is looked at; a run of empty ones is a gap.                     *)

MonthsOf(msgs) == Bucket(Earliest(msgs), Limits.month) .. Bucket(Latest(msgs), Limits.month)

Median(nums) ==
    LET n == Len(nums)
        mid == n \div 2 + 1
    IN IF n % 2 = 1 THEN nums[mid] ELSE (nums[mid - 1] + nums[mid] + 1) \div 2

\* Fifteen in a hundred of this archive's own month, and at least one.
ThinFloor(msgs) ==
    LET size(k) == Cardinality(In(msgs, Limits.month, k))
        sizes == SortSeq([i \in 1 .. Cardinality(Buckets(msgs, Limits.month)) |->
                             size(InOrder(Buckets(msgs, Limits.month))[i])], <=)
        share == (15 * Median(sizes) + 50) \div 100
    IN IF share > 1 THEN share ELSE 1

Thin(msgs) ==
    {k \in Buckets(msgs, Limits.month) : Cardinality(In(msgs, Limits.month, k)) < ThinFloor(msgs)}

Gap(msgs, from, to) ==
    [from |-> from, to |-> to,
     before |-> Latest({m \in msgs : Bucket(m, Limits.month) < from}),
     after |-> Earliest({m \in msgs : Bucket(m, Limits.month) > to})]

Gaps(msgs) ==
    FoldLeft(LAMBDA acc, k :
                IF In(msgs, Limits.month, k) = {} /\ acc.open = 0 THEN [acc EXCEPT !.open = k]
                ELSE IF In(msgs, Limits.month, k) # {} /\ acc.open # 0
                THEN [open |-> 0, gaps |-> acc.gaps \cup {Gap(msgs, acc.open, k - 1)}] ELSE acc,
             [open |-> 0, gaps |-> {}], InOrder(MonthsOf(msgs))).gaps

Suspicions(msgs) ==
    LET media == Saying(msgs, "media")
        last == At[Latest(msgs)]
        span == last - At[Earliest(msgs)]
        tail == {m \in msgs : last - At[m] <= Limits.tail}
        mine == Cardinality(msgs \cap Mine)
        theirs == Cardinality(msgs) - mine
    IN {s \in {"mediaStopsEarly", "trailingCollapse", "lopsided"} :
           CASE s = "mediaStopsEarly" -> media # {} /\ last - At[Latest(media)] > Limits.mediaStop
             [] s = "trailingCollapse" ->
                   span > Limits.year /\ 5 * Cardinality(tail) * span < Cardinality(msgs) * Limits.tail
             [] OTHER -> mine + theirs >= Limits.enough /\ (10 * mine < theirs \/ 10 * theirs < mine)}

Absent(gaps) == UNION {g.from .. g.to : g \in gaps}

Caution(msgs) ==
    IF \/ \E g \in Gaps(msgs) : g.to - g.from + 1 >= 3
       \/ Suspicions(msgs) \cap {"lopsided", "trailingCollapse"} # {} THEN "serious"
    ELSE IF Gaps(msgs) # {} \/ Thin(msgs) # {} \/ Suspicions(msgs) # {} THEN "notable"
    ELSE "clear"

\* The line in the header of a reading; zero stands for an end that was not given.
SpanDiscontinuity(msgs, from, to) ==
    LET first == IF from = 0 THEN At[Earliest(msgs)] ELSE from
        last == IF to = 0 THEN At[Latest(msgs)] ELSE to
        span == (first \div Limits.month) .. (last \div Limits.month)
    IN IF msgs = {} \/ last <= first THEN {}
       ELSE span \cap (Absent(Gaps(msgs)) \cup Thin(msgs))

-----------------------------------------------------------------------------
(* Who was hard, and how it was answered.  A tone is what the windows gave   *)
(* a message, on the average; a message outside its domain is unscored.     *)

Hard(msgs, tone, cal) == {m \in msgs \cap DOMAIN tone : tone[m].tension >= cal.hostile}

Severe(msgs, tone, cal) == {m \in msgs \cap DOMAIN tone : tone[m].tension >= cal.severe}

Warm(msgs, tone) == {m \in msgs \cap DOMAIN tone : tone[m].warmth >= Limits.warm}

\* The river: by day, what each side was given.
River(msgs, tone, clock) ==
    LET days == ByDay(msgs \cap DOMAIN tone, clock)
        given(some) == [tension |-> {<<m, tone[m].tension>> : m \in some}, n |-> Cardinality(some)]
    IN [d \in DOMAIN days |->
           [me |-> given(days[d] \cap Mine), them |-> given(days[d] \ Mine)]]

\* The owner's first reply within the window says it.
AnswerTo(m, msgs, tone, cal) ==
    LET replies == Soon(m, msgs, Limits.answer) \cap Mine
    IN IF replies = {} THEN "withdrew"
       ELSE IF Earliest(replies) \in Hard(msgs, tone, cal) THEN "recip" ELSE "soft"

Answered(some, msgs, tone, cal) ==
    [a \in {"recip", "soft", "withdrew"} |->
        Cardinality({m \in Hard(some, tone, cal) \ Mine : AnswerTo(m, msgs, tone, cal) = a})]

Trajectory(msgs, tone, cal) ==
    [k \in Buckets(msgs, Limits.month) |->
        LET some == In(msgs, Limits.month, k)
        IN [volume |-> BySide(some), hostile |-> BySide(Hard(some, tone, cal)),
            severe |-> BySide(Severe(some, tone, cal)), warm |-> BySide(Warm(some, tone)),
            answered |-> Answered(some, msgs, tone, cal)]]

DelugeDays(msgs, tone, cal) ==
    {d \in Buckets(msgs, Limits.day) :
        Cardinality(Hard(In(msgs, Limits.day, d), tone, cal) \ Mine) >= Limits.deluge}

\* The owner's own line.
Growth(msgs, tone, cal) ==
    [q \in Buckets(msgs, 3 * Limits.month) |->
        LET some == In(msgs, 3 * Limits.month, q)
        IN [volume |-> Cardinality(some \cap Mine),
            hostile |-> Cardinality(Hard(some, tone, cal) \cap Mine),
            severe |-> Cardinality(Severe(some, tone, cal) \cap Mine),
            answered |-> Answered(some, msgs, tone, cal)]]

-----------------------------------------------------------------------------
(* The five findings                                                        *)

Ledger(msgs) ==
    [physical |-> Saying(msgs, "physical"),
     death |-> Saying(msgs, "death") \ Saying(msgs, "physical")]

\* Of each fight, who said sorry first; of each side's apologies, how many were
\* met by a hard reply.
Apologies(msgs, tone, cal, fights) ==
    LET sorry == Saying(msgs, "apology")
        after(e) == {m \in sorry : At[m] > e.end /\ At[m] - e.end <= Limits.repair}
        reply(m) == {k \in Soon(m, msgs, Limits.answer) : SideOf(k) # SideOf(m)}
    IN [first |-> [s \in Sides \cup {"none"} |->
                      Cardinality({e \in fights : IF after(e) = {} THEN s = "none"
                                                  ELSE SideOf(Earliest(after(e))) = s})],
        made |-> BySide(sorry),
        met |-> BySide({m \in sorry : reply(m) # {} /\ Earliest(reply(m)) \in Hard(msgs, tone, cal)})]

\* How the owner left: by the last message of theirs inside a fight.
ExitOf(m, tone, cal) ==
    IF "block" \in Says[m] THEN "block_threat"
    ELSE IF "notice" \in Says[m] THEN "withdraw_notice"
    ELSE IF m \in Warm({m}, tone) \/ "apology" \in Says[m] THEN "softened"
    ELSE IF m \in Hard({m}, tone, cal) THEN "met" ELSE "withdraw_silent"

Exits(msgs, tone, cal, fights) ==
    LET own(e) == {m \in msgs \cap Mine : At[m] \in e.start .. e.end}
    IN [e \in {f \in fights : own(f) # {}} |-> ExitOf(Latest(own(e)), tone, cal)]

Wearing(msgs, tone) ==
    [q \in Buckets(msgs, 3 * Limits.month) |->
        LET some == In(msgs, 3 * Limits.month, q)
        IN [n |-> BySide(some), warm |-> BySide(Warm(some, tone)),
            love |-> BySide(Saying(some, "love")), play |-> BySide(Saying(some, "play"))]]

Findings(msgs, tone, cal, fights) ==
    [ledger |-> Ledger(msgs),
     kids |-> <<BySide(Saying(msgs, "mykids")), BySide(Saying(msgs, "ourkids"))>>,
     apology |-> Apologies(msgs, tone, cal, fights),
     exits |-> Exits(msgs, tone, cal, fights),
     wearing |-> Wearing(msgs, tone)]

\* The crisis line stands first wherever a death was wished.
SafetyBanner(findings) == findings.ledger.death # {}

-----------------------------------------------------------------------------
(* Properties of every archive                                              *)

SumOf(f) == MapThenSumSet(LAMBDA k : f[k], DOMAIN f)

\* Counters written apart agree: months, quarters and sides add up to the
\* messages, every hard message of theirs is answered in one way, and a
\* session is opened by a side unless by a draft.
AccountsAgree(all, tone, cal, clock) ==
    LET msgs == Worded(all)
        T == Trajectory(msgs, tone, cal)
        G == Growth(msgs, tone, cal)
        O == Overview(all, clock)
        R == River(msgs, tone, clock)
        A == Ambient(msgs, clock)
    IN /\ SumOf([k \in DOMAIN T |-> SumOf(T[k].volume)]) = SumOf(A.volume)
       /\ SumOf([k \in DOMAIN T |-> SumOf(T[k].answered)]) = SumOf([k \in DOMAIN T |-> T[k].hostile["them"]])
       /\ \A a \in {"recip", "soft", "withdrew"} :
             SumOf([k \in DOMAIN T |-> T[k].answered[a]]) = SumOf([q \in DOMAIN G |-> G[q].answered[a]])
       /\ SumOf(A.firstOfDay) = A.days /\ SumOf(A.lastOfDay) = A.days
       /\ O.total - SumOf(A.volume) = Cardinality(Saying(all, "nothing"))
       /\ O.initiations[1] + O.initiations[2] + Cardinality(Opens(all) \cap Drafts) = O.sessions
       /\ DOMAIN O.latency[1] \cap DOMAIN O.latency[2] = {}
       /\ SumOf([d \in DOMAIN R |-> R[d].me.n + R[d].them.n]) = Cardinality(msgs \cap DOMAIN tone)
       /\ O.runs.longest <= Cardinality(O.active)
       /\ Limits.deluge * Cardinality(DelugeDays(msgs, tone, cal)) <= SumOf([k \in DOMAIN T |-> T[k].hostile["them"]])

\* A month in which nothing was said is in one gap, a gap is bounded by
\* messages, and a span that has a hole in it says so.
NoHoleUnseen(msgs) ==
    LET gaps == Gaps(msgs) IN
    msgs # {} =>
       /\ Absent(gaps) = MonthsOf(msgs) \ Buckets(msgs, Limits.month)
       /\ \A g, h \in gaps : g = h \/ g.to + 1 < h.from \/ h.to + 1 < g.from
       /\ \A g \in gaps : At[g.before] < At[g.after] /\ Soon(g.before, msgs, At[g.after] - At[g.before]) = {g.after}
       /\ gaps # {} => Caution(msgs) # "clear" /\ SpanDiscontinuity(msgs, 0, 0) # {}

=============================================================================

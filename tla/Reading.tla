------------------------------ MODULE Reading -------------------------------
(***************************************************************************)
(* The way of a conversation to a frozen reading: windows of messages are   *)
(* planned and scored (l1), the scores of a range become one material       *)
(* (reduce), its findings become prose (render), and what keeps a receipt   *)
(* is frozen.                                                              *)
(*                                                                         *)
(* Requests share the server's one thread: each runs until it awaits an     *)
(* engine.  While it does, others plan, read, import, or delete everything; *)
(* row numbers are then given again.                                       *)
(*                                                                         *)
(* A row is the words it holds.  A job is known by the hash of what it      *)
(* shows its engine; two conversations are never given the same scores.     *)
(***************************************************************************)
EXTENDS Receipts

CONSTANTS
    Words,         \* what the rows hold of each archive, by the deletions before it
    Imports,       \* the sets of rows an import adds
    Ranges,        \* the ranges a reading is asked for, as sets of instants
    Planned,       \* the ranges an analysis is asked for
    Floor,         \* EVIDENCE_FLOOR
    MaxWindow,     \* TARGET_MAX_MSGS
    OverlapTurns,  \* OVERLAP_TURNS
    MaxPrefix,     \* MAX_PREFIX_MSGS
    DrainBatch,    \* DRAIN_BATCH
    Readers,       \* requests for a reading
    Elsewhere,     \* the lenses that other drains answer
    Reduces,       \* what an engine may find
    Renders,       \* what it may write
    MaxReadings,   \* bound on the readings ever frozen
    MaxEpochs,     \* bound on deletions
    MaxAnswers,    \* bound on the answers engines ever write
    NoRow          \* no such row

ASSUME ReadingAssumption ==
    /\ \A e \in DOMAIN Words : Words[e] # NoRow
    /\ \A ids \in Imports : ids \subseteq Rows
    /\ {MaxWindow, OverlapTurns, MaxPrefix} \subseteq Nat

\* What an engine answers is a record of the lens it was asked by.
ASSUME FindingsAssumption ==
    \A p \in Reduces : p = [strengths |-> p.strengths, observation |-> p.observation, about |-> p.about]

ASSUME ProseAssumption ==
    \A p \in Renders : p = [blocks |-> p.blocks, about |-> p.about] /\ p.blocks \in Seq(Block)

VARIABLES
    rows,          \* messages: what each row holds
    jobs,          \* analysis_jobs by hash: chunk and status
    cache,         \* analysis_results by hash
    files,         \* jobs/ by hash: what each shows an engine
    results,       \* results/ by hash
    readings,      \* reflections
    stage,         \* where each request stands
    request,       \* what it was asked for and knows
    todo,          \* the job files its drain has read and not answered
    epochs,        \* deletions so far
    answers        \* answers so far

workVars == <<jobs, cache, files, results>>
readerVars == <<stage, request, todo>>
readingVars == <<rows, workVars, readings, readerVars, epochs, answers>>

Nothing == <<>>
NoRequest == [range |-> {}, hash |-> Nothing, about |-> Nothing]

ReadingInit ==
    /\ rows = [r \in Rows |-> NoRow]
    /\ jobs = <<>> /\ cache = <<>> /\ files = <<>> /\ results = <<>>
    /\ readings = <<>>
    /\ stage = [r \in Readers |-> "idle"]
    /\ request = [r \in Readers |-> NoRequest]
    /\ todo = [r \in Readers |-> <<>>]
    /\ epochs = 0 /\ answers = 0

Here == {r \in Rows : rows[r] # NoRow}
Within(range) == {r \in Here : At[r] \in range}
Always == {At[r] : r \in Rows}

\* What an engine is shown of some rows.
Shown(ids) == [r \in ids |-> rows[r]]

-----------------------------------------------------------------------------
(* Windows.  Turns are runs of one speaker; a span takes turns until it is   *)
(* full; a window shows, before its span, the end of the span before.        *)

Turns(ids) ==
    FoldLeft(LAMBDA turns, m :
                IF turns # <<>> /\ (Last(Last(turns)) \in Mine) = (m \in Mine)
                THEN Append(Front(turns), Append(Last(turns), m))
                ELSE Append(turns, <<m>>),
             <<>>, ByTime(ids))

Full(span) == Len(FlattenSeq(span)) >= MaxWindow

\* Mutant: a span ends before the turn that fills it, and the next begins after.
SpansGapped(ids) ==
    FoldLeft(LAMBDA spans, turn :
                IF spans # <<>> /\ ~Full(Append(Last(spans), turn))
                THEN Append(Front(spans), Append(Last(spans), turn))
                ELSE IF spans # <<>> /\ Len(turn) = 1 THEN spans ELSE Append(spans, <<turn>>),
             <<>>, Turns(ids))

Spans(ids) ==
    FoldLeft(LAMBDA spans, turn :
                IF spans # <<>> /\ ~Full(Last(spans))
                THEN Append(Front(spans), Append(Last(spans), turn))
                ELSE Append(spans, <<turn>>),
             <<>>, Turns(ids))

LastN(seq, n) == SubSeq(seq, (IF Len(seq) > n THEN Len(seq) - n ELSE 0) + 1, Len(seq))

Prefix(spans, k) ==
    IF k = 1 THEN {} ELSE ToSet(LastN(FlattenSeq(LastN(spans[k - 1], OverlapTurns)), MaxPrefix))

Windows(ids) ==
    LET spans == Spans(ids)
    IN {[prefix |-> Prefix(spans, k), members |-> Prefix(spans, k) \cup ToSet(FlattenSeq(spans[k]))] :
           k \in DOMAIN spans}

Own(chunk) == chunk.members \ chunk.prefix

-----------------------------------------------------------------------------
(* Jobs and results.  Every operator works on the four of them at once: a   *)
(* request does several things before it awaits.                            *)

Air == [jobs |-> jobs, cache |-> cache, files |-> files, results |-> results]

Becomes(air) ==
    /\ jobs' = air.jobs /\ cache' = air.cache
    /\ files' = air.files /\ results' = air.results

\* Mutant: a job is known by what it is for.
HashByLens(lens, shown) == [lens |-> lens, shown |-> Nothing]

Hash(lens, shown) == [lens |-> lens, shown |-> shown]

\* The rows of one table, and those of another that have no row in the first.
Merged(table, other) ==
    [h \in DOMAIN table \cup DOMAIN other |-> IF h \in DOMAIN table THEN table[h] ELSE other[h]]

\* A row that is there keeps its chunk and its status, a file its content.
Inserted(air, h, chunk, shown) ==
    [jobs |-> Merged(air.jobs, [k \in {h} |-> [chunk |-> chunk, status |-> "pending"]]),
     cache |-> air.cache,
     files |-> Merged(air.files, [k \in {h} |-> shown]),
     results |-> air.results]

\* What a lens may read: a result whose job is done, and that still fits.
Validated(air, h) ==
    /\ h \in DOMAIN air.cache
    /\ air.jobs[h].status = "done"
    /\ LensValid(h.lens, air.cache[h])

\* The receipts of a job that are rows of the conversation.
Resolvable(air, h) == air.jobs[h].chunk.members \cap Here

Good(air, h, p) ==
    /\ LensValid(h.lens, p)
    /\ h.lens = "l1" => L1Coverage(p, air.jobs[h].chunk)
    /\ LensValid(h.lens, Resolve(h.lens, p, Resolvable(air, h)))

Verdict(air, h) ==
    LET env == air.results[h] IN
    IF env.status = "refused" THEN "refused"
    ELSE IF env.status = "done" /\ Good(air, h, env.payload) THEN "done" ELSE "error"

\* Every result file is judged and moved away with the job file of its name;
\* one whose job the database does not have is moved alone.
Ingested(air) ==
    LET known == DOMAIN air.results \cap DOMAIN air.jobs
        verdict == [h \in known |-> Verdict(air, h)]
        Stored(h) == IF verdict[h] = "refused" THEN Blank
                     ELSE Resolve(h.lens, air.results[h].payload, Resolvable(air, h))
    IN [jobs |-> Merged([h \in known |-> [air.jobs[h] EXCEPT !.status = verdict[h]]], air.jobs),
        cache |-> Merged([h \in {k \in known : verdict[k] # "error"} |-> Stored(h)], air.cache),
        files |-> Restrict(air.files, DOMAIN air.files \ known),
        results |-> <<>>]

-----------------------------------------------------------------------------
(* Scores *)

L1Results == {h \in DOMAIN cache : h.lens = "l1" /\ cache[h] # Blank}

Scored == UNION {ToSet(cache[h].messages) : h \in L1Results}

\* A window belongs to a range if one of its own messages does.
WindowsIn(range) ==
    {h \in DOMAIN cache :
        h.lens = "l1" /\ (range = Always \/ Own(jobs[h].chunk) \cap Within(range) # {})}

\* The numbers of the whole conversation, and the scores and notes of the
\* range; a refused window counts and brings nothing.
Material(range) ==
    [stats |-> Shown(Here),
     windows |-> {IF cache[h] = Blank THEN Nothing
                  ELSE <<cache[h].about, cache[h].messages, cache[h].notes>> : h \in WindowsIn(range)}]

-----------------------------------------------------------------------------
(* A request for a reading.  An outcome is what it leaves: it awaits an      *)
(* engine, is declined, or has frozen a reading.                            *)

Declined(air) == [air |-> air, stage |-> "idle", request |-> NoRequest, frozen |-> <<>>]

Awaiting(air, where, req, h) ==
    [air |-> air, stage |-> where, request |-> [req EXCEPT !.hash = h], frozen |-> <<>>]

\* The prose is composed from the rows of the range as they are now; a new
\* row is inserted each time.
Frozen(air, req, h) ==
    LET composed == Compose(air.cache[h].blocks, Within(req.range), LongForm)
    IN [Declined(air) EXCEPT !.frozen =
           <<[range |-> req.range, about |-> air.cache[h].about,
              body |-> composed.body, evidence |-> composed.evidence]>>]

AfterRender(air, req, h) ==
    IF Validated(air, h) THEN Frozen(air, req, h) ELSE Declined(air)

MembersOf(req) == [prefix |-> {}, members |-> DOMAIN req.about]

AfterReduce(air, req, h) ==
    LET findings == air.cache[h]
        next == Hash("render", findings)
    IN IF ~Validated(air, h) THEN Declined(air)
       ELSE IF next \in DOMAIN air.cache THEN AfterRender(air, req, next)
       ELSE Awaiting(Inserted(air, next, MembersOf(req), findings), "render", req, next)

AfterGates(air, req) ==
    LET h == Hash("reduce", Material(req.range))
    IN IF h \in DOMAIN air.cache THEN AfterReduce(air, req, h)
       ELSE Awaiting(Inserted(air, h, MembersOf(req), Material(req.range)), "reduce", req, h)

\* A drain takes the first so many pending jobs by name, and a name is a hash.
Batches(air) ==
    LET pending == DOMAIN air.files \ DOMAIN air.results
    IN {T \in SUBSET pending : Cardinality(T) = IF Cardinality(pending) < DrainBatch
                                                THEN Cardinality(pending) ELSE DrainBatch}

Leaves(r, outcome) ==
    /\ Becomes(outcome.air)
    /\ stage' = [stage EXCEPT ![r] = outcome.stage]
    /\ request' = [request EXCEPT ![r] = outcome.request]
    /\ readings' = readings \o outcome.frozen
    /\ IF outcome.stage = "idle" THEN todo' = [todo EXCEPT ![r] = <<>>]
       ELSE \E T \in Batches(outcome.air) : todo' = [todo EXCEPT ![r] = Restrict(outcome.air.files, T)]
    /\ UNCHANGED <<rows, epochs, answers>>

\* A request that the floor or grief declines, or that finds no window, leaves
\* nothing behind; whether the other is dead is said by not asking.
Ask(r, range) ==
    /\ stage[r] = "idle"
    /\ Len(readings) < MaxReadings
    /\ Cardinality(Within(range)) >= Floor
    /\ WindowsIn(range) # {}
    /\ Leaves(r, AfterGates(Air, [range |-> range, hash |-> Nothing, about |-> Shown(Within(range))]))

\* The drain is over: what it wrote is ingested, and the request goes on.
Resume(r) ==
    /\ stage[r] # "idle" /\ todo[r] = <<>>
    /\ Leaves(r, IF stage[r] = "reduce" THEN AfterReduce(Ingested(Air), request[r], request[r].hash)
                 ELSE AfterRender(Ingested(Air), request[r], request[r].hash))

-----------------------------------------------------------------------------
(* Engines.  An answer is about what the engine was shown; it may miss       *)
(* messages, cite what is not there, fail or refuse.                        *)

L1Answers(shown) ==
    {[messages |-> ByTime(S), notes |-> <<>>, about |-> shown] :
        S \in {DOMAIN shown, DOMAIN shown \ {Head(ByTime(DOMAIN shown))}}}

Payloads(h, shown) ==
    CASE h.lens = "l1" -> L1Answers(shown)
      [] h.lens = "reduce" -> {[p EXCEPT !.about = shown.stats] : p \in Reduces}
      [] OTHER -> {[p EXCEPT !.about = shown.about] : p \in Renders}

Answers(h, shown) ==
    {[status |-> "done", payload |-> p] : p \in Payloads(h, shown)}
        \cup {[status |-> s, payload |-> Blank] : s \in {"error", "refused"}}

Write(h, shown) ==
    /\ answers < MaxAnswers /\ answers' = answers + 1
    /\ \E env \in Answers(h, shown) :
       results' = [k \in DOMAIN results \cup {h} |-> IF k = h THEN env ELSE results[k]]

\* The engine of a request's own drain.
Answer(r) ==
    /\ \E h \in DOMAIN todo[r] :
          /\ Write(h, todo[r][h])
          /\ todo' = [todo EXCEPT ![r] = Restrict(@, DOMAIN @ \ {h})]
    /\ UNCHANGED <<rows, jobs, cache, files, readings, stage, request, epochs>>

\* Its transport fails: the drain ends.
Unreachable(r) ==
    /\ todo[r] # <<>>
    /\ todo' = [todo EXCEPT ![r] = <<>>]
    /\ UNCHANGED <<rows, workVars, readings, stage, request, epochs, answers>>

\* Any other drain, of a command or a request.
OtherDrain ==
    /\ \E h \in DOMAIN files \ DOMAIN results : h.lens \in Elsewhere /\ Write(h, files[h])
    /\ UNCHANGED <<rows, jobs, cache, files, readings, readerVars, epochs>>

-----------------------------------------------------------------------------
(* Meanwhile *)

\* POST analysis/run: the windows of a range that have no result.
Analyse(range) ==
    LET HashOf(w) == Hash("l1", Shown(w.members))
        toRun == {w \in Windows(Within(range)) : HashOf(w) \notin DOMAIN cache}
        WindowOf(h) == CHOOSE w \in toRun : HashOf(w) = h
        hashes == {HashOf(w) : w \in toRun}
    IN /\ toRun # {}
       /\ jobs' = Merged(jobs, [h \in hashes |-> [chunk |-> WindowOf(h), status |-> "pending"]])
       /\ files' = Merged(files, [h \in hashes |-> Shown(WindowOf(h).members)])
       /\ UNCHANGED <<rows, cache, results, readings, readerVars, epochs, answers>>

\* POST analysis/ingest, or the command.
IngestRequest ==
    /\ results # <<>>
    /\ Becomes(Ingested(Air))
    /\ UNCHANGED <<rows, readings, readerVars, epochs, answers>>

\* An import gives the next row numbers.
ImportRows(ids) ==
    /\ ids \cap Here = {}
    /\ \A r \in Rows \ (ids \cup Here), s \in ids : s < r
    /\ rows' = [r \in Rows |-> IF r \in ids THEN Words[epochs + 1] ELSE rows[r]]
    /\ UNCHANGED <<workVars, readings, readerVars, epochs, answers>>

\* Everything is deleted; requests that await do not know.
Forget ==
    /\ epochs < MaxEpochs
    /\ epochs' = epochs + 1
    /\ rows' = [r \in Rows |-> NoRow]
    /\ jobs' = <<>> /\ cache' = <<>> /\ files' = <<>> /\ results' = <<>>
    /\ readings' = <<>>
    /\ UNCHANGED <<readerVars, answers>>

\* The server is killed.
Kill ==
    /\ \E r \in Readers : stage[r] # "idle"
    /\ stage' = [r \in Readers |-> "idle"]
    /\ request' = [r \in Readers |-> NoRequest]
    /\ todo' = [r \in Readers |-> <<>>]
    /\ UNCHANGED <<rows, workVars, readings, epochs, answers>>

ReadingNext ==
    \/ \E r \in Readers :
          (\E range \in Ranges : Ask(r, range)) \/ Resume(r) \/ Answer(r) \/ Unreachable(r)
    \/ OtherDrain \/ IngestRequest
    \/ \E range \in Planned : Analyse(range)
    \/ \E ids \in Imports : ImportRows(ids)
    \/ Forget \/ Kill

-----------------------------------------------------------------------------
(* Properties *)

\* A frozen reading cites, for every claim, rows of its range whose words are
\* those the claim was written about: not after everything was deleted and
\* the row numbers given again, not with an answer that came late, not from
\* the cache of another range.
ReceiptsResolve ==
    \A i \in DOMAIN readings :
        LET reading == readings[i] IN
        \A t \in DOMAIN reading.evidence :
            /\ reading.evidence[t] # {}
            /\ \A m \in reading.evidence[t] :
                  /\ At[m] \in reading.range
                  /\ m \in DOMAIN reading.about /\ rows[m] = reading.about[m]

\* The result of a window may be read, and the job that brought it had to score
\* what is the window's own.  A job is known by what it shows, and shows no more
\* than the messages: a window that was cut elsewhere, of the same messages but
\* with more of them before its span, has the same job (plan.ts:165).
HasScores(w) ==
    LET h == Hash("l1", Shown(w.members))
    IN Validated(Air, h) /\ Own(w) \subseteq Own(jobs[h].chunk)

\* A window that was answered was scored whole: if all windows of a range were,
\* so was every message of it, so that a thin reading never counts as a
\* complete one (plan.ts cuts the windows, ingestResults.ts l1Coverage).
CachedMeansScored ==
    \A range \in Planned : (\A w \in Windows(Within(range)) : HasScores(w)) => Within(range) \subseteq Scored

ReadingSpec == ReadingInit /\ [][ReadingNext]_readingVars

=============================================================================

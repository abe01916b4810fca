------------------------------ MODULE Airlock ------------------------------
(***************************************************************************)
(* The airlock: the job/result protocol between the app, the only writer   *)
(* of the database, and the engines, which only write result files.        *)
(*                                                                         *)
(*   planner   inserts an analysis_jobs row and writes jobs/<id>.json      *)
(*   engine    writes results/<id>.json for the job files it found         *)
(*   ingest    judges each result file, writes analysis_results and the    *)
(*             job status, and moves the pair of files out of the way      *)
(*                                                                         *)
(* A worker is one run of "drain, then ingest": an API request, or a run   *)
(* of the drain or ingest-results command.  Requests share the server's    *)
(* one thread: they interleave only where the code awaits.  A command is a *)
(* process of its own over the same database and directory, so it          *)
(* interleaves between any two database writes or file moves.              *)
(*                                                                         *)
(* A job id and an input hash are the same digest (hash.ts), so one set,   *)
(* Jobs, stands for both; its order is the order of the file names.        *)
(***************************************************************************)
EXTENDS Naturals, FiniteSets

CONSTANTS
    Jobs,        \* job ids, in the order listJobFiles sorts their files
    Local,       \* the jobs whose engine_hint is 'local'
    Workers,     \* runs of drain-then-ingest
    Server,      \* the workers that are requests of the server
    BatchSize,   \* jobs one local drain takes (DRAIN_BATCH)
    Stray,       \* file contents a drain may leave that no job asked for
    CanCrash,    \* whether processes may be killed
    None,        \* no row, no file, no job
    Torn         \* a file that does not parse

\* What an answer is worth: a payload that passes every check of ingest, a
\* refusal, or neither (an engine error, or a payload some check rejects).
Bodies == {"good", "refused", "bad"}

\* What a result file says, and what is kept of it in analysis_results.
Envelope == [job : Jobs \cup {None}, hash : Jobs \cup {None}, body : Bodies]
Row == [job : Jobs, body : {"good", "refused"}]

ASSUME JobsAssumption == Jobs \subseteq Nat /\ Local \subseteq Jobs
ASSUME ServerAssumption == Server \subseteq Workers
ASSUME BatchAssumption == BatchSize \in Nat \ {0}
ASSUME StrayAssumption == Stray \subseteq Envelope \cup {Torn}
ASSUME NoneAssumption ==
    /\ None \notin Jobs /\ None \notin Envelope /\ None \notin Row
    /\ Torn \notin Envelope /\ Torn # None

VARIABLES
    status,      \* analysis_jobs.status by job; "none" when there is no row
    cache,       \* analysis_results by input hash
    jobFiles,    \* the jobs with a file in jobs/
    results,     \* results/ by file name
    archived,    \* the jobs with a .job.json in archive/
    toPlan,      \* the jobs a plan found without a result and has yet to insert
    planning,    \* the job whose row is in and whose file is being written
    pc,          \* where each worker stands
    todo,        \* the job files a drain found pending when it started
    desk,        \* the results directory of a sandboxed drain
    names,       \* the result files an ingest has still to read
    cur,         \* the result file an ingest is working on
    env          \* what that file said when it was read

dbVars == <<status, cache>>
fileVars == <<jobFiles, results, archived>>
planVars == <<toPlan, planning>>
drainVars == <<todo, desk>>
ingestVars == <<names, cur, env>>
vars == <<dbVars, fileVars, planVars, pc, drainVars, ingestVars>>

Statuses == {"none", "pending", "done", "error", "refused"}
File == Envelope \cup {None, Torn}
Places == {"down", "idle", "ollama", "claude", "copy", "ingest", "shelve",
           "disown", "quarResult", "quarJob", "refuse", "blank", "fail",
           "store", "markDone", "arcResult", "arcJob"}

TypeOK ==
    /\ status \in [Jobs -> Statuses]
    /\ cache \in [Jobs -> Row \cup {None}]
    /\ jobFiles \subseteq Jobs
    /\ results \in [Jobs -> File]
    /\ archived \subseteq Jobs
    /\ toPlan \subseteq Jobs
    /\ planning \in Jobs \cup {None}
    /\ pc \in [Workers -> Places]
    /\ todo \in [Workers -> SUBSET Jobs]
    /\ desk \in [Workers -> [Jobs -> File]]
    /\ names \in [Workers -> SUBSET Jobs]
    /\ cur \in [Workers -> Jobs \cup {None}]
    /\ env \in [Workers -> Envelope \cup {None}]

EmptyDir == [j \in Jobs |-> None]

Init ==
    /\ status = [j \in Jobs |-> "none"]
    /\ cache = EmptyDir
    /\ jobFiles = {}
    /\ results = EmptyDir
    /\ archived = {}
    /\ toPlan = {}
    /\ planning = None
    /\ pc = [w \in Workers |-> "idle"]
    /\ todo = [w \in Workers |-> {}]
    /\ desk = [w \in Workers |-> EmptyDir]
    /\ names = [w \in Workers |-> {}]
    /\ cur = [w \in Workers |-> None]
    /\ env = [w \in Workers |-> None]

-----------------------------------------------------------------------------
(* What the code reads *)

\* The result file an engine that obeys the contract writes for job j.
Own(j, b) == [job |-> j, hash |-> j, body |-> b]

\* A job file that has no result file yet.
Pending == {j \in jobFiles : results[j] = None}

\* The first n names of a sorted list of files.
FirstOf(S, n) == {j \in S : Cardinality({i \in S : i < j}) < n}

IsFirst(j, S) == j \in S /\ \A i \in S : j <= i

OnDisk(dir) == {j \in Jobs : dir[j] # None}

\* What getValidatedResult answers for an input hash.
View(h) ==
    IF cache[h] = None THEN "missing"
    ELSE CASE status[cache[h].job] = "refused" -> "refused"
           [] status[cache[h].job] \in {"pending", "error"} -> "not_done"
           [] OTHER -> IF cache[h].body = "good" THEN "ok" ELSE "invalid"

-----------------------------------------------------------------------------
(* The planner looks up which of the jobs it is asked for have a result,   *)
(* and then, for each of the others, inserts the row and writes the file.   *)
(* A row that is already there keeps its status, a file its content.        *)

PlanStart(asked) ==
    /\ toPlan = {} /\ planning = None
    /\ toPlan' = {j \in asked : cache[j] = None}
    /\ UNCHANGED <<dbVars, fileVars, planning, pc, drainVars, ingestVars>>

PlanInsert ==
    /\ planning = None
    /\ \E j \in toPlan :
          /\ status' = [status EXCEPT ![j] = IF @ = "none" THEN "pending" ELSE @]
          /\ toPlan' = toPlan \ {j}
          /\ planning' = j
    /\ UNCHANGED <<cache, fileVars, pc, drainVars, ingestVars>>

PlanWrite ==
    /\ planning # None
    /\ jobFiles' = jobFiles \cup {planning}
    /\ planning' = None
    /\ UNCHANGED <<dbVars, results, archived, toPlan, pc, drainVars, ingestVars>>

-----------------------------------------------------------------------------
(* The local engine: the list of pending jobs is taken once, then each job  *)
(* is asked (and awaited) in turn and its result written over whatever is   *)
(* there.  A transport failure ends the drain; ingest follows either way.   *)

StartOllama(w, only) ==
    /\ pc[w] = "idle"
    /\ todo' = [todo EXCEPT ![w] = FirstOf(Pending \cap only, BatchSize)]
    /\ pc' = [pc EXCEPT ![w] = "ollama"]
    /\ UNCHANGED <<dbVars, fileVars, planVars, desk, ingestVars>>

OllamaAnswer(w, b) ==
    /\ pc[w] = "ollama"
    /\ \E j \in todo[w] :
          /\ IsFirst(j, todo[w])
          /\ results' = [results EXCEPT ![j] = Own(j, b)]
          /\ todo' = [todo EXCEPT ![w] = @ \ {j}]
    /\ UNCHANGED <<dbVars, jobFiles, archived, planVars, pc, desk, ingestVars>>

OllamaFail(w) ==
    /\ pc[w] = "ollama"
    /\ todo[w] # {}
    /\ todo' = [todo EXCEPT ![w] = {}]
    /\ UNCHANGED <<dbVars, fileVars, planVars, pc, desk, ingestVars>>

-----------------------------------------------------------------------------
(* The subscription engine: pending job files are copied into a sandbox,    *)
(* the agent writes there what it likes, and when it exits, for whatever    *)
(* reason, its result files are copied back over the real ones.             *)

StartClaude(w) ==
    /\ pc[w] = "idle"
    /\ todo' = [todo EXCEPT ![w] = Pending]
    /\ pc' = [pc EXCEPT ![w] = "claude"]
    /\ UNCHANGED <<dbVars, fileVars, planVars, desk, ingestVars>>

AgentWrite(w, n, f) ==
    /\ pc[w] = "claude"
    /\ desk' = [desk EXCEPT ![w][n] = f]
    /\ UNCHANGED <<dbVars, fileVars, planVars, pc, todo, ingestVars>>

AgentAnswer(w, n, b) == n \in todo[w] /\ AgentWrite(w, n, Own(n, b))

AgentStray(w, n, f) == f \in Stray /\ AgentWrite(w, n, f)

AgentExit(w) ==
    /\ pc[w] = "claude"
    /\ pc' = [pc EXCEPT ![w] = "copy"]
    /\ todo' = [todo EXCEPT ![w] = {}]
    /\ UNCHANGED <<dbVars, fileVars, planVars, desk, ingestVars>>

CopyBack(w) ==
    /\ pc[w] = "copy"
    /\ \E n \in OnDisk(desk[w]) :
          /\ IsFirst(n, OnDisk(desk[w]))
          /\ results' = [results EXCEPT ![n] = desk[w][n]]
          /\ desk' = [desk EXCEPT ![w][n] = None]
    /\ UNCHANGED <<dbVars, jobFiles, archived, planVars, pc, todo, ingestVars>>

-----------------------------------------------------------------------------
(* Ingest.  The list of result files is taken once; the loop then works on  *)
(* one file at a time.  Each database write and each move is one step.      *)

\* Mutant: ingest goes through the job files and reads the results they have.
IngestStartByJob(w) ==
    /\ \/ pc[w] = "idle"
       \/ pc[w] = "ollama" /\ todo[w] = {}
       \/ pc[w] = "copy" /\ OnDisk(desk[w]) = {}
    /\ names' = [names EXCEPT ![w] = OnDisk(results) \cap jobFiles]
    /\ pc' = [pc EXCEPT ![w] = "ingest"]
    /\ UNCHANGED <<dbVars, fileVars, planVars, drainVars, cur, env>>

\* A drain that is over goes on to ingest; ingest-results has no drain.
IngestStart(w) ==
    /\ \/ pc[w] = "idle"
       \/ pc[w] = "ollama" /\ todo[w] = {}
       \/ pc[w] = "copy" /\ OnDisk(desk[w]) = {}
    /\ names' = [names EXCEPT ![w] = OnDisk(results)]
    /\ pc' = [pc EXCEPT ![w] = "ingest"]
    /\ UNCHANGED <<dbVars, fileVars, planVars, drainVars, cur, env>>

\* A file that is unreadable, or names a job the database does not have.
IsUnknown(f) ==
    \/ f \notin Envelope
    \/ f.job = None
    \/ status[f.job] = "none"

\* Mutant: the input hash is not compared.
IsMismatchByName(n, f) == f.job # n

IsMismatch(n, f) == f.job # n \/ f.hash # f.job

\* What ingest does with the contents f of the result file named n.
Judge(n, f) ==
    CASE IsUnknown(f) -> "shelve"
      [] ~IsUnknown(f) /\ IsMismatch(n, f) -> "disown"
      [] OTHER -> CASE f.body = "refused" -> "refuse"
                    [] f.body = "good" -> "store"
                    [] OTHER -> "fail"

ReadResult(w) ==
    /\ pc[w] = "ingest"
    /\ \E n \in names[w] :
          /\ IsFirst(n, names[w])
          /\ names' = [names EXCEPT ![w] = @ \ {n}]
          /\ cur' = [cur EXCEPT ![w] = n]
          /\ pc' = [pc EXCEPT ![w] = Judge(n, results[n])]
          /\ env' = [env EXCEPT ![w] =
                         IF IsUnknown(results[n]) THEN None ELSE results[n]]
    /\ UNCHANGED <<dbVars, fileVars, planVars, drainVars>>

\* The loop moves on: forget the file.
NextFile(w) ==
    /\ pc' = [pc EXCEPT ![w] = "ingest"]
    /\ cur' = [cur EXCEPT ![w] = None]
    /\ env' = [env EXCEPT ![w] = None]
    /\ UNCHANGED <<planVars, drainVars, names>>

Goto(w, place) ==
    /\ pc' = [pc EXCEPT ![w] = place]
    /\ UNCHANGED <<planVars, drainVars, ingestVars>>

SetStatus(j, s) ==
    /\ status' = [status EXCEPT ![j] = s]
    /\ UNCHANGED <<cache, fileVars>>

Upsert(e, b) ==
    /\ cache' = [cache EXCEPT ![e.hash] = [job |-> e.job, body |-> b]]
    /\ UNCHANGED <<status, fileVars>>

MoveResult(n) ==
    /\ results' = [results EXCEPT ![n] = None]
    /\ UNCHANGED <<dbVars, jobFiles, archived>>

\* Orphan: the result alone is archived.
Shelve(w) ==
    /\ pc[w] = "shelve"
    /\ MoveResult(cur[w])
    /\ NextFile(w)

\* Mismatch: the job the file names is failed, and the file is quarantined
\* together with the job file that has the file's own name.
Disown(w) ==
    /\ pc[w] = "disown"
    /\ SetStatus(env[w].job, "error")
    /\ Goto(w, "quarResult")

QuarantineResult(w) ==
    /\ pc[w] = "quarResult"
    /\ MoveResult(cur[w])
    /\ Goto(w, "quarJob")

QuarantineJob(w) ==
    /\ pc[w] = "quarJob"
    /\ jobFiles' = jobFiles \ {cur[w]}
    /\ UNCHANGED <<dbVars, results, archived>>
    /\ NextFile(w)

\* Mutant: the empty result first.
RefuseBlankFirst(w) ==
    /\ pc[w] = "refuse"
    /\ Upsert(env[w], "refused")
    /\ Goto(w, "blank")

\* Refusal: the status first, then an empty result.
Refuse(w) ==
    /\ pc[w] = "refuse"
    /\ SetStatus(env[w].job, "refused")
    /\ Goto(w, "blank")

StoreBlank(w) ==
    /\ pc[w] = "blank"
    /\ Upsert(env[w], "refused")
    /\ Goto(w, "arcResult")

\* Mutant: the file is archived, the status forgotten.
FailSilently(w) ==
    /\ pc[w] = "fail"
    /\ UNCHANGED <<dbVars, fileVars>>
    /\ Goto(w, "arcResult")

\* Mutant: what the checks rejected is stored as it came.
FailStored(w) ==
    /\ pc[w] = "fail"
    /\ Upsert(env[w], "bad")
    /\ Goto(w, "arcResult")

\* An engine error, or a payload that fails its schema, its coverage or,
\* once claims without evidence are dropped, its schema again.
Fail(w) ==
    /\ pc[w] = "fail"
    /\ SetStatus(env[w].job, "error")
    /\ Goto(w, "arcResult")

\* A good payload: the result first, then the status.
Store(w) ==
    /\ pc[w] = "store"
    /\ Upsert(env[w], "good")
    /\ Goto(w, "markDone")

\* Mutant: the result is stored and its job left pending.
MarkDoneForgotten(w) ==
    /\ pc[w] = "markDone"
    /\ UNCHANGED <<dbVars, fileVars>>
    /\ Goto(w, "arcResult")

MarkDone(w) ==
    /\ pc[w] = "markDone"
    /\ SetStatus(env[w].job, "done")
    /\ Goto(w, "arcResult")

ArchiveResult(w) ==
    /\ pc[w] = "arcResult"
    /\ MoveResult(cur[w])
    /\ Goto(w, "arcJob")

\* Mutant: only the result file is archived.
ArchiveJobKept(w) ==
    /\ pc[w] = "arcJob"
    /\ UNCHANGED <<dbVars, fileVars>>
    /\ NextFile(w)

ArchiveJob(w) ==
    /\ pc[w] = "arcJob"
    /\ jobFiles' = jobFiles \ {cur[w]}
    /\ archived' = archived \cup ({cur[w]} \cap jobFiles)
    /\ UNCHANGED <<dbVars, results>>
    /\ NextFile(w)

IngestEnd(w) ==
    /\ pc[w] = "ingest"
    /\ names[w] = {}
    /\ pc' = [pc EXCEPT ![w] = "idle"]
    /\ UNCHANGED <<dbVars, fileVars, planVars, drainVars, ingestVars>>

-----------------------------------------------------------------------------
(* Crashes.  A killed process loses its memory; its sandbox is left behind  *)
(* and never looked at again.  copyFileSync writes in place, so a kill in   *)
(* the middle of it can leave a file that does not parse.  A process that   *)
(* starts again does not ingest what it finds in results/.                  *)

\* The workers that die together with w.
ProcessOf(w) == IF w \in Server THEN Server ELSE {w}

Crash(w) ==
    LET Lose(f, v) == [x \in Workers |-> IF x \in ProcessOf(w) THEN v ELSE f[x]]
    IN /\ CanCrash
       /\ pc[w] \notin {"idle", "down"}
       /\ pc' = Lose(pc, "down")
       /\ todo' = Lose(todo, {})
       /\ desk' = Lose(desk, EmptyDir)
       /\ names' = Lose(names, {})
       /\ cur' = Lose(cur, None)
       /\ env' = Lose(env, None)
       /\ IF w \in Server THEN toPlan' = {} /\ planning' = None
                          ELSE UNCHANGED planVars
       /\ \/ UNCHANGED results
          \/ /\ pc[w] = "copy"
             /\ \E n \in OnDisk(desk[w]) :
                   /\ IsFirst(n, OnDisk(desk[w]))
                   /\ results' = [results EXCEPT ![n] = Torn]
       /\ UNCHANGED <<dbVars, jobFiles, archived>>

Launch(w) ==
    /\ pc[w] = "down"
    /\ pc' = [x \in Workers |-> IF x \in ProcessOf(w) THEN "idle" ELSE pc[x]]
    /\ UNCHANGED <<dbVars, fileVars, planVars, drainVars, ingestVars>>

\* The server dies while it plans and none of its requests is under way.
PlannerCrash ==
    /\ CanCrash
    /\ toPlan # {} \/ planning # None
    /\ \A w \in Server : pc[w] = "idle"
    /\ toPlan' = {}
    /\ planning' = None
    /\ UNCHANGED <<dbVars, fileVars, pc, drainVars, ingestVars>>

-----------------------------------------------------------------------------
(* Scheduling.  The copy-back, the ingest and the planner are synchronous   *)
(* code: while one of them runs in the server, nothing else there does.     *)

InIngest(w) == pc[w] \notin {"down", "idle", "ollama", "claude", "copy"}

Busy(w) == InIngest(w) \/ (pc[w] = "copy" /\ OnDisk(desk[w]) # {})

\* Mutant: ingest awaits between its steps, so requests overtake it.
TurnAwaited(w) == w \in Server => toPlan = {} /\ planning = None

Turn(w) ==
    w \in Server => /\ toPlan = {} /\ planning = None
                    /\ \A v \in Server \ {w} : ~Busy(v)

Plan ==
    /\ \A w \in Server : pc[w] # "down" /\ ~Busy(w)
    /\ (\E asked \in SUBSET Jobs : PlanStart(asked)) \/ PlanInsert \/ PlanWrite

\* The user asks for a drain, or for an ingest alone.
Ask(w) ==
    \/ \E only \in {Local, Jobs} : StartOllama(w, only)
    \/ StartClaude(w)
    \/ pc[w] = "idle" /\ IngestStart(w)

\* The agent works in a process of its own.
Agent(w) ==
    \/ \E n \in Jobs, b \in Bodies : AgentAnswer(w, n, b)
    \/ \E n \in Jobs, f \in Stray : AgentStray(w, n, f)

\* What a worker does by itself once it was asked.
Drain(w) ==
    \/ \E b \in Bodies : OllamaAnswer(w, b)
    \/ OllamaFail(w)
    \/ CopyBack(w)

Ingest(w) ==
    \/ pc[w] # "idle" /\ IngestStart(w)
    \/ ReadResult(w) \/ Shelve(w)
    \/ Disown(w) \/ QuarantineResult(w) \/ QuarantineJob(w)
    \/ Refuse(w) \/ StoreBlank(w) \/ Fail(w) \/ Store(w) \/ MarkDone(w)
    \/ ArchiveResult(w) \/ ArchiveJob(w) \/ IngestEnd(w)

Next ==
    \/ Plan
    \/ PlannerCrash
    \/ \E w \in Workers :
          \/ Turn(w) /\ (Ask(w) \/ AgentExit(w) \/ Drain(w) \/ Ingest(w))
          \/ Agent(w) \/ Crash(w) \/ Launch(w)

Spec == Init /\ [][Next]_vars

-----------------------------------------------------------------------------
(* Fairness.  Awaited calls end (the engine answers or its transport fails) *)
(* and synchronous code runs on.  A worker waits only for its turn on the   *)
(* server's thread, and the event loop is first come first served, hence    *)
(* the strong form.  Nobody owes a plan, a drain, an agent's exit or a      *)
(* restart.                                                                 *)

Fairness ==
    /\ WF_vars(PlanInsert \/ PlanWrite)
    /\ \A w \in Workers : SF_vars(Turn(w) /\ (Drain(w) \/ Ingest(w)))

FairSpec == Spec /\ Fairness

-----------------------------------------------------------------------------
(* Properties *)

\* No result file n waits, and no ingest holds one.
AtRest(n) == results[n] = None /\ \A w \in Workers : cur[w] # n

\* Only a judged answer reaches the cache, under the key it was asked for:
\* a cached result belongs to the job whose hash it is filed under and that
\* job exists, whatever the agent wrote and however processes interleave.
CacheOwned ==
    \A h \in Jobs : cache[h] # None => cache[h].job = h /\ status[h] # "none"

\* The write order of ingest (result before 'done', 'refused' before the
\* empty result) makes 'done' a commit mark: no reader ever finds a done job
\* without its good payload, at any step and after any crash.
DoneIsGrounded ==
    \A j \in Jobs : status[j] = "done" => cache[j] # None /\ View(j) = "ok"

\* What the planner calls cached, and so never plans again, the finalizers
\* can use: it reads as a payload or as an honest refusal.
CachedIsReadable ==
    \A j \in Jobs : cache[j] # None /\ AtRest(j) => View(j) \in {"ok", "refused"}

\* A drain is offered what is open and nothing else: a pending row has the file
\* a drain needs, or its planner writes it next; once ingest is through with a
\* done or refused job, no file is left that would make a drain run it again.
OfferedIsOpen ==
    \A j \in Jobs :
        /\ status[j] = "pending" => j \in jobFiles \/ planning = j
        /\ status[j] \in {"done", "refused"} /\ AtRest(j) => j \notin jobFiles

\* No answer is lost: a result that leaves results/ is the very one that an
\* ingest read and judged, or one it could not attribute to any job.
AnswersAreRead ==
    [][\A n \in Jobs :
          results[n] # None /\ results'[n] = None =>
              \E w \in Workers : cur[w] = n /\ (env[w] = results[n] \/ IsUnknown(results[n]))]_vars

\* Nothing that was answered stays on disk unread, without anybody asking.
EveryAnswerIsIngested ==
    \A n \in Jobs : results[n] # None ~> results[n] = None

\* The ledger that the airlock implements.
Verdict(j) ==
    CASE status[j] = "done" -> "good"
      [] status[j] = "refused" -> "refused"
      [] status[j] = "error" -> "failed"
      [] OTHER -> "open"

Ledger == INSTANCE ResultLedger WITH
    Payloads <- Row,
    verdict <- [j \in Jobs |-> Verdict(j)],
    payload <- [j \in Jobs |-> IF status[j] = "done" THEN cache[j] ELSE None]

\* Verdicts are final and good payloads frozen.
LedgerSpec == Ledger!Spec

=============================================================================

---------------------------- MODULE BatchProofs ----------------------------
(***************************************************************************)
(* Proofs about the airlock, for any jobs, workers, agents and crashes, and *)
(* about the paid batch of an owner with one collector, which may be killed *)
(* at any step and is resumed by the id in batch-state.json.                *)
(*                                                                         *)
(* The invariant that carries the first is Judged: between reading a result *)
(* file and moving it, an ingest holds an envelope whose name, job and      *)
(* hash agree and whose row exists.  DoneIsGrounded needs, besides, that    *)
(* ingests exclude one another, which the server's one thread provides.     *)
(*                                                                         *)
(* The second are carried by the note: while it holds an id nothing else is *)
(* submitted, and it is removed only after an ingest that began when every  *)
(* answer of that batch lay in results/ (Taken says how far it is with      *)
(* each).  From then on what was paid for is cached, has no job file and is *)
(* never planned again (Through), so no later batch can contain it.         *)
(***************************************************************************)
EXTENDS BatchRun, TLAPS

Held(w) == cur[w] \in Jobs

Verified(w) ==
    /\ Held(w)
    /\ env[w] \in Envelope
    /\ env[w].job = cur[w]
    /\ env[w].hash = cur[w]
    /\ status[cur[w]] # "none"

Judged ==
    \A w \in Workers :
        /\ pc[w] \in {"shelve", "quarResult", "quarJob", "arcResult", "arcJob"} => Held(w)
        /\ pc[w] = "disown" => /\ Held(w)
                               /\ env[w] \in Envelope
                               /\ env[w].job \in Jobs
                               /\ status[env[w].job] # "none"
        /\ pc[w] \in {"refuse", "blank", "fail", "store", "markDone"} => Verified(w)

IInv == TypeOK /\ Judged /\ CacheOwned

-----------------------------------------------------------------------------
(* What ingest decides about a file (ingestResults.ts, the loop body). *)

\* Judge sends an unattributable file to the shelf, a file that disagrees
\* with its name or hash to quarantine, and only an agreeing one further.
LEMMA JudgeCases ==
    ASSUME NEW n \in Jobs, NEW f \in File
    PROVE  /\ IsUnknown(f) => Judge(n, f) = "shelve"
           /\ ~IsUnknown(f) /\ IsMismatch(n, f) => Judge(n, f) = "disown"
           /\ ~IsUnknown(f) /\ ~IsMismatch(n, f) =>
                 Judge(n, f) \in {"refuse", "store", "fail"}
BY DEF Judge

\* A file that can be attributed is an envelope naming a job with a row.
LEMMA KnownFile ==
    ASSUME NEW f \in File, ~IsUnknown(f)
    PROVE  /\ f \in Envelope
           /\ f.job \in Jobs
           /\ status[f.job] # "none"
BY DEF IsUnknown, Envelope

\* The file that answers job j is an envelope.
LEMMA OwnIsEnvelope ==
    ASSUME NEW j \in Jobs, NEW b \in Bodies
    PROVE  Own(j, b) \in File
BY DEF Own, File, Envelope

\* The first names of a list are names of the list.
LEMMA FirstOfSubset ==
    ASSUME NEW S, NEW n
    PROVE  FirstOf(S, n) \subseteq S
BY DEF FirstOf

-----------------------------------------------------------------------------
(* Types. *)

USE DEF dbVars, fileVars, planVars, drainVars, ingestVars, vars

LEMMA InitIInv == Init => IInv
BY NoneAssumption
   DEF Init, IInv, TypeOK, Judged, CacheOwned, Held, Verified, EmptyDir, File,
       Statuses, Places

LEMMA PlanStartStep ==
    ASSUME IInv, NEW asked \in SUBSET Jobs, PlanStart(asked)
    PROVE  IInv'
<1>1. TypeOK'
  BY DEF IInv, TypeOK, PlanStart
<1>2. Judged'
  BY DEF IInv, Judged, Held, Verified, PlanStart
<1>3. CacheOwned'
  BY DEF IInv, CacheOwned, PlanStart
<1> QED BY <1>1, <1>2, <1>3 DEF IInv

LEMMA PlanInsertStep ==
    ASSUME IInv, PlanInsert
    PROVE  IInv'
<1>1. TypeOK'
  BY NoneAssumption DEF IInv, TypeOK, Judged, Held, Verified, PlanInsert, Statuses
<1>2. Judged'
  BY NoneAssumption DEF IInv, TypeOK, Judged, Held, Verified, PlanInsert, Statuses
<1>3. CacheOwned'
  BY NoneAssumption DEF IInv, TypeOK, CacheOwned, Judged, Held, Verified, PlanInsert, Statuses
<1> QED BY <1>1, <1>2, <1>3 DEF IInv

LEMMA PlanWriteStep ==
    ASSUME IInv, PlanWrite
    PROVE  IInv'
<1>1. TypeOK'
  BY NoneAssumption DEF IInv, TypeOK, Judged, Held, Verified, PlanWrite
<1>2. Judged'
  BY NoneAssumption DEF IInv, TypeOK, Judged, Held, Verified, PlanWrite
<1>3. CacheOwned'
  BY NoneAssumption DEF IInv, TypeOK, CacheOwned, Judged, Held, Verified, PlanWrite
<1> QED BY <1>1, <1>2, <1>3 DEF IInv

LEMMA StartOllamaStep ==
    ASSUME IInv, NEW w \in Workers, NEW only \in SUBSET Jobs, StartOllama(w, only)
    PROVE  IInv'
<1>1. TypeOK'
  BY FirstOfSubset, NoneAssumption DEF IInv, TypeOK, Judged, Held, Verified, StartOllama, Places, Pending
<1>2. Judged'
  BY FirstOfSubset, NoneAssumption DEF IInv, TypeOK, Judged, Held, Verified, StartOllama, Places, Pending
<1>3. CacheOwned'
  BY FirstOfSubset, NoneAssumption DEF IInv, TypeOK, CacheOwned, Judged, Held, Verified, StartOllama, Places, Pending
<1> QED BY <1>1, <1>2, <1>3 DEF IInv

LEMMA OllamaAnswerStep ==
    ASSUME IInv, NEW w \in Workers, NEW b \in Bodies, OllamaAnswer(w, b)
    PROVE  IInv'
<1>1. TypeOK'
  BY OwnIsEnvelope, NoneAssumption DEF IInv, TypeOK, Judged, Held, Verified, OllamaAnswer
<1>2. Judged'
  BY OwnIsEnvelope, NoneAssumption DEF IInv, TypeOK, Judged, Held, Verified, OllamaAnswer
<1>3. CacheOwned'
  BY OwnIsEnvelope, NoneAssumption DEF IInv, TypeOK, CacheOwned, Judged, Held, Verified, OllamaAnswer
<1> QED BY <1>1, <1>2, <1>3 DEF IInv

LEMMA OllamaFailStep ==
    ASSUME IInv, NEW w \in Workers, OllamaFail(w)
    PROVE  IInv'
<1>1. TypeOK'
  BY NoneAssumption DEF IInv, TypeOK, Judged, Held, Verified, OllamaFail
<1>2. Judged'
  BY NoneAssumption DEF IInv, TypeOK, Judged, Held, Verified, OllamaFail
<1>3. CacheOwned'
  BY NoneAssumption DEF IInv, TypeOK, CacheOwned, Judged, Held, Verified, OllamaFail
<1> QED BY <1>1, <1>2, <1>3 DEF IInv

LEMMA StartClaudeStep ==
    ASSUME IInv, NEW w \in Workers, StartClaude(w)
    PROVE  IInv'
<1>1. TypeOK'
  BY NoneAssumption DEF IInv, TypeOK, Judged, Held, Verified, StartClaude, Places, Pending
<1>2. Judged'
  BY NoneAssumption DEF IInv, TypeOK, Judged, Held, Verified, StartClaude, Places, Pending
<1>3. CacheOwned'
  BY NoneAssumption DEF IInv, TypeOK, CacheOwned, Judged, Held, Verified, StartClaude, Places, Pending
<1> QED BY <1>1, <1>2, <1>3 DEF IInv

LEMMA AgentWriteStep ==
    ASSUME IInv, NEW w \in Workers, NEW n \in Jobs, NEW f \in File, AgentWrite(w, n, f)
    PROVE  IInv'
<1>1. TypeOK'
  BY NoneAssumption DEF IInv, TypeOK, Judged, Held, Verified, AgentWrite
<1>2. Judged'
  BY NoneAssumption DEF IInv, TypeOK, Judged, Held, Verified, AgentWrite
<1>3. CacheOwned'
  BY NoneAssumption DEF IInv, TypeOK, CacheOwned, Judged, Held, Verified, AgentWrite
<1> QED BY <1>1, <1>2, <1>3 DEF IInv

LEMMA AgentExitStep ==
    ASSUME IInv, NEW w \in Workers, AgentExit(w)
    PROVE  IInv'
<1>1. TypeOK'
  BY NoneAssumption DEF IInv, TypeOK, Judged, Held, Verified, AgentExit, Places
<1>2. Judged'
  BY NoneAssumption DEF IInv, TypeOK, Judged, Held, Verified, AgentExit, Places
<1>3. CacheOwned'
  BY NoneAssumption DEF IInv, TypeOK, CacheOwned, Judged, Held, Verified, AgentExit, Places
<1> QED BY <1>1, <1>2, <1>3 DEF IInv

LEMMA CopyBackStep ==
    ASSUME IInv, NEW w \in Workers, CopyBack(w)
    PROVE  IInv'
<1>1. PICK n \in Jobs :
           /\ results' = [results EXCEPT ![n] = desk[w][n]]
           /\ desk' = [desk EXCEPT ![w][n] = None]
  BY DEF CopyBack, OnDisk
<1>2. desk[w][n] \in File
  BY DEF IInv, TypeOK
<1>3. TypeOK'
  BY <1>1, <1>2 DEF IInv, TypeOK, CopyBack, File
<1>4. Judged'
  BY DEF IInv, Judged, Held, Verified, CopyBack
<1>5. CacheOwned'
  BY DEF IInv, CacheOwned, CopyBack
<1> QED BY <1>3, <1>4, <1>5 DEF IInv

LEMMA IngestStartStep ==
    ASSUME IInv, NEW w \in Workers, IngestStart(w)
    PROVE  IInv'
<1>1. TypeOK'
  BY NoneAssumption DEF IInv, TypeOK, Judged, Held, Verified, IngestStart, OnDisk, Places
<1>2. Judged'
  BY NoneAssumption DEF IInv, TypeOK, Judged, Held, Verified, IngestStart, OnDisk, Places
<1>3. CacheOwned'
  BY NoneAssumption DEF IInv, TypeOK, CacheOwned, Judged, Held, Verified, IngestStart, OnDisk, Places
<1> QED BY <1>1, <1>2, <1>3 DEF IInv

LEMMA ReadResultStep ==
    ASSUME IInv, NEW w \in Workers, ReadResult(w)
    PROVE  IInv'
<1>1. PICK n \in names[w] :
           /\ names' = [names EXCEPT ![w] = @ \ {n}]
           /\ cur' = [cur EXCEPT ![w] = n]
           /\ pc' = [pc EXCEPT ![w] = Judge(n, results[n])]
           /\ env' = [env EXCEPT ![w] =
                          IF IsUnknown(results[n]) THEN None ELSE results[n]]
           /\ UNCHANGED <<dbVars, fileVars, planVars, drainVars>>
  BY DEF ReadResult
<1>2. n \in Jobs /\ results[n] \in File
  BY DEF IInv, TypeOK
<1>3. CASE IsUnknown(results[n])
  <2>1. pc' = [pc EXCEPT ![w] = "shelve"] /\ env' = [env EXCEPT ![w] = None]
    BY <1>1, <1>2, <1>3, JudgeCases
  <2>2. TypeOK'
    BY <1>1, <1>2, <2>1 DEF IInv, TypeOK, Places
  <2>3. Judged'
    BY <1>1, <1>2, <2>1 DEF IInv, TypeOK, Judged, Held, Verified
  <2> QED BY <1>1, <2>2, <2>3 DEF IInv, CacheOwned
<1>4. CASE ~IsUnknown(results[n])
  <2>1. /\ results[n] \in Envelope
        /\ results[n].job \in Jobs
        /\ status[results[n].job] # "none"
    BY <1>2, <1>4, KnownFile
  <2>2. env' = [env EXCEPT ![w] = results[n]]
    BY <1>1, <1>4
  <2>3. CASE IsMismatch(n, results[n])
    <3>1. pc' = [pc EXCEPT ![w] = "disown"]
      BY <1>1, <1>2, <1>4, <2>3, JudgeCases
    <3>2. TypeOK'
      BY <1>1, <1>2, <2>1, <2>2, <3>1 DEF IInv, TypeOK, Places
    <3>3. Judged'
      BY <1>1, <1>2, <2>1, <2>2, <3>1 DEF IInv, TypeOK, Judged, Held, Verified
    <3> QED BY <1>1, <3>2, <3>3 DEF IInv, CacheOwned
  <2>4. CASE ~IsMismatch(n, results[n])
    <3>1. PICK p \in {"refuse", "store", "fail"} : pc' = [pc EXCEPT ![w] = p]
      BY <1>1, <1>2, <1>4, <2>4, JudgeCases
    <3>2. results[n].job = n /\ results[n].hash = n
      BY <2>4 DEF IsMismatch
    <3>3. TypeOK'
      BY <1>1, <1>2, <2>1, <2>2, <3>1 DEF IInv, TypeOK, Places
    <3>4. Judged'
      BY <1>1, <1>2, <2>1, <2>2, <3>1, <3>2 DEF IInv, TypeOK, Judged, Held, Verified
    <3> QED BY <1>1, <3>3, <3>4 DEF IInv, CacheOwned
  <2> QED BY <2>3, <2>4
<1> QED BY <1>3, <1>4

LEMMA ShelveStep ==
    ASSUME IInv, NEW w \in Workers, Shelve(w)
    PROVE  IInv'
<1>1. TypeOK'
  BY NoneAssumption DEF IInv, TypeOK, Judged, Held, Verified, Shelve, MoveResult, NextFile, File, Places
<1>2. Judged'
  BY NoneAssumption DEF IInv, TypeOK, Judged, Held, Verified, Shelve, MoveResult, NextFile, File, Places
<1>3. CacheOwned'
  BY NoneAssumption DEF IInv, TypeOK, CacheOwned, Judged, Held, Verified, Shelve, MoveResult, NextFile, File, Places
<1> QED BY <1>1, <1>2, <1>3 DEF IInv

LEMMA DisownStep ==
    ASSUME IInv, NEW w \in Workers, Disown(w)
    PROVE  IInv'
<1>1. TypeOK'
  BY NoneAssumption DEF IInv, TypeOK, Judged, Held, Verified, Disown, SetStatus, Goto, Statuses, Places
<1>2. Judged'
  BY NoneAssumption DEF IInv, TypeOK, Judged, Held, Verified, Disown, SetStatus, Goto, Statuses, Places
<1>3. CacheOwned'
  BY NoneAssumption DEF IInv, TypeOK, CacheOwned, Judged, Held, Verified, Disown, SetStatus, Goto, Statuses, Places
<1> QED BY <1>1, <1>2, <1>3 DEF IInv

LEMMA QuarantineResultStep ==
    ASSUME IInv, NEW w \in Workers, QuarantineResult(w)
    PROVE  IInv'
<1>1. TypeOK'
  BY NoneAssumption DEF IInv, TypeOK, Judged, Held, Verified, QuarantineResult, MoveResult, Goto, File, Places
<1>2. Judged'
  BY NoneAssumption DEF IInv, TypeOK, Judged, Held, Verified, QuarantineResult, MoveResult, Goto, File, Places
<1>3. CacheOwned'
  BY NoneAssumption DEF IInv, TypeOK, CacheOwned, Judged, Held, Verified, QuarantineResult, MoveResult, Goto, File, Places
<1> QED BY <1>1, <1>2, <1>3 DEF IInv

LEMMA QuarantineJobStep ==
    ASSUME IInv, NEW w \in Workers, QuarantineJob(w)
    PROVE  IInv'
<1>1. TypeOK'
  BY NoneAssumption DEF IInv, TypeOK, Judged, Held, Verified, QuarantineJob, NextFile, Places
<1>2. Judged'
  BY NoneAssumption DEF IInv, TypeOK, Judged, Held, Verified, QuarantineJob, NextFile, Places
<1>3. CacheOwned'
  BY NoneAssumption DEF IInv, TypeOK, CacheOwned, Judged, Held, Verified, QuarantineJob, NextFile, Places
<1> QED BY <1>1, <1>2, <1>3 DEF IInv

LEMMA RefuseStep ==
    ASSUME IInv, NEW w \in Workers, Refuse(w)
    PROVE  IInv'
<1>1. TypeOK'
  BY NoneAssumption DEF IInv, TypeOK, Judged, Held, Verified, Refuse, SetStatus, Goto, Statuses, Places
<1>2. Judged'
  BY NoneAssumption DEF IInv, TypeOK, Judged, Held, Verified, Refuse, SetStatus, Goto, Statuses, Places
<1>3. CacheOwned'
  BY NoneAssumption DEF IInv, TypeOK, CacheOwned, Judged, Held, Verified, Refuse, SetStatus, Goto, Statuses, Places
<1> QED BY <1>1, <1>2, <1>3 DEF IInv

LEMMA StoreBlankStep ==
    ASSUME IInv, NEW w \in Workers, StoreBlank(w)
    PROVE  IInv'
<1>1. TypeOK'
  BY NoneAssumption DEF IInv, TypeOK, Judged, Held, Verified, StoreBlank, Upsert, Goto, Row, Places
<1>2. Judged'
  BY NoneAssumption DEF IInv, TypeOK, Judged, Held, Verified, StoreBlank, Upsert, Goto, Row, Places
<1>3. CacheOwned'
  BY NoneAssumption DEF IInv, TypeOK, CacheOwned, Judged, Held, Verified, StoreBlank, Upsert, Goto, Row, Places
<1> QED BY <1>1, <1>2, <1>3 DEF IInv

LEMMA FailStep ==
    ASSUME IInv, NEW w \in Workers, Fail(w)
    PROVE  IInv'
<1>1. TypeOK'
  BY NoneAssumption DEF IInv, TypeOK, Judged, Held, Verified, Fail, SetStatus, Goto, Statuses, Places
<1>2. Judged'
  BY NoneAssumption DEF IInv, TypeOK, Judged, Held, Verified, Fail, SetStatus, Goto, Statuses, Places
<1>3. CacheOwned'
  BY NoneAssumption DEF IInv, TypeOK, CacheOwned, Judged, Held, Verified, Fail, SetStatus, Goto, Statuses, Places
<1> QED BY <1>1, <1>2, <1>3 DEF IInv

LEMMA StoreStep ==
    ASSUME IInv, NEW w \in Workers, Store(w)
    PROVE  IInv'
<1>1. TypeOK'
  BY NoneAssumption DEF IInv, TypeOK, Judged, Held, Verified, Store, Upsert, Goto, Row, Places
<1>2. Judged'
  BY NoneAssumption DEF IInv, TypeOK, Judged, Held, Verified, Store, Upsert, Goto, Row, Places
<1>3. CacheOwned'
  BY NoneAssumption DEF IInv, TypeOK, CacheOwned, Judged, Held, Verified, Store, Upsert, Goto, Row, Places
<1> QED BY <1>1, <1>2, <1>3 DEF IInv

LEMMA MarkDoneStep ==
    ASSUME IInv, NEW w \in Workers, MarkDone(w)
    PROVE  IInv'
<1>1. TypeOK'
  BY NoneAssumption DEF IInv, TypeOK, Judged, Held, Verified, MarkDone, SetStatus, Goto, Statuses, Places
<1>2. Judged'
  BY NoneAssumption DEF IInv, TypeOK, Judged, Held, Verified, MarkDone, SetStatus, Goto, Statuses, Places
<1>3. CacheOwned'
  BY NoneAssumption DEF IInv, TypeOK, CacheOwned, Judged, Held, Verified, MarkDone, SetStatus, Goto, Statuses, Places
<1> QED BY <1>1, <1>2, <1>3 DEF IInv

LEMMA ArchiveResultStep ==
    ASSUME IInv, NEW w \in Workers, ArchiveResult(w)
    PROVE  IInv'
<1>1. TypeOK'
  BY NoneAssumption DEF IInv, TypeOK, Judged, Held, Verified, ArchiveResult, MoveResult, Goto, File, Places
<1>2. Judged'
  BY NoneAssumption DEF IInv, TypeOK, Judged, Held, Verified, ArchiveResult, MoveResult, Goto, File, Places
<1>3. CacheOwned'
  BY NoneAssumption DEF IInv, TypeOK, CacheOwned, Judged, Held, Verified, ArchiveResult, MoveResult, Goto, File, Places
<1> QED BY <1>1, <1>2, <1>3 DEF IInv

LEMMA ArchiveJobStep ==
    ASSUME IInv, NEW w \in Workers, ArchiveJob(w)
    PROVE  IInv'
<1>1. TypeOK'
  BY NoneAssumption DEF IInv, TypeOK, Judged, Held, Verified, ArchiveJob, NextFile, Places
<1>2. Judged'
  BY NoneAssumption DEF IInv, TypeOK, Judged, Held, Verified, ArchiveJob, NextFile, Places
<1>3. CacheOwned'
  BY NoneAssumption DEF IInv, TypeOK, CacheOwned, Judged, Held, Verified, ArchiveJob, NextFile, Places
<1> QED BY <1>1, <1>2, <1>3 DEF IInv

LEMMA IngestEndStep ==
    ASSUME IInv, NEW w \in Workers, IngestEnd(w)
    PROVE  IInv'
<1>1. TypeOK'
  BY NoneAssumption DEF IInv, TypeOK, Judged, Held, Verified, IngestEnd, Places
<1>2. Judged'
  BY NoneAssumption DEF IInv, TypeOK, Judged, Held, Verified, IngestEnd, Places
<1>3. CacheOwned'
  BY NoneAssumption DEF IInv, TypeOK, CacheOwned, Judged, Held, Verified, IngestEnd, Places
<1> QED BY <1>1, <1>2, <1>3 DEF IInv

LEMMA CrashStep ==
    ASSUME IInv, NEW w \in Workers, Crash(w)
    PROVE  IInv'
<1>1. TypeOK'
  BY NoneAssumption DEF IInv, TypeOK, Judged, Held, Verified, Crash, EmptyDir, File, Places
<1>2. Judged'
  BY NoneAssumption DEF IInv, TypeOK, Judged, Held, Verified, Crash, EmptyDir, File, Places
<1>3. CacheOwned'
  BY NoneAssumption DEF IInv, TypeOK, CacheOwned, Judged, Held, Verified, Crash, EmptyDir, File, Places
<1> QED BY <1>1, <1>2, <1>3 DEF IInv

LEMMA LaunchStep ==
    ASSUME IInv, NEW w \in Workers, Launch(w)
    PROVE  IInv'
<1>1. TypeOK'
  BY NoneAssumption DEF IInv, TypeOK, Judged, Held, Verified, Launch, Places
<1>2. Judged'
  BY NoneAssumption DEF IInv, TypeOK, Judged, Held, Verified, Launch, Places
<1>3. CacheOwned'
  BY NoneAssumption DEF IInv, TypeOK, CacheOwned, Judged, Held, Verified, Launch, Places
<1> QED BY <1>1, <1>2, <1>3 DEF IInv

LEMMA PlannerCrashStep ==
    ASSUME IInv, PlannerCrash
    PROVE  IInv'
<1>1. TypeOK'
  BY NoneAssumption DEF IInv, TypeOK, Judged, Held, Verified, PlannerCrash
<1>2. Judged'
  BY NoneAssumption DEF IInv, TypeOK, Judged, Held, Verified, PlannerCrash
<1>3. CacheOwned'
  BY NoneAssumption DEF IInv, TypeOK, CacheOwned, Judged, Held, Verified, PlannerCrash
<1> QED BY <1>1, <1>2, <1>3 DEF IInv

-----------------------------------------------------------------------------
(* The invariant, and what follows from it. *)

LEMMA NextIInv == IInv /\ [Next]_vars => IInv'
<1> SUFFICES ASSUME IInv, [Next]_vars PROVE IInv'
  OBVIOUS
<1>1. CASE Plan
  BY <1>1, PlanStartStep, PlanInsertStep, PlanWriteStep DEF Plan
<1>2. CASE PlannerCrash
  BY <1>2, PlannerCrashStep
<1>3. ASSUME NEW w \in Workers, Ask(w) PROVE IInv'
  <2>1. Local \in SUBSET Jobs /\ Jobs \in SUBSET Jobs
    BY JobsAssumption
  <2> QED BY <1>3, <2>1, StartOllamaStep, StartClaudeStep, IngestStartStep DEF Ask
<1>4. ASSUME NEW w \in Workers, AgentExit(w) PROVE IInv'
  BY <1>4, AgentExitStep
<1>5. ASSUME NEW w \in Workers, Drain(w) PROVE IInv'
  BY <1>5, OllamaAnswerStep, OllamaFailStep, CopyBackStep DEF Drain
<1>6. ASSUME NEW w \in Workers, Ingest(w) PROVE IInv'
  BY <1>6, IngestStartStep, ReadResultStep, ShelveStep, DisownStep,
     QuarantineResultStep, QuarantineJobStep, RefuseStep, StoreBlankStep, FailStep,
     StoreStep, MarkDoneStep, ArchiveResultStep, ArchiveJobStep, IngestEndStep
     DEF Ingest
<1>7. ASSUME NEW w \in Workers, Agent(w) PROVE IInv'
  <2>1. ASSUME NEW n \in Jobs, NEW b \in Bodies, AgentAnswer(w, n, b) PROVE IInv'
    BY <2>1, OwnIsEnvelope, AgentWriteStep DEF AgentAnswer
  <2>2. ASSUME NEW n \in Jobs, NEW f \in Stray, AgentStray(w, n, f) PROVE IInv'
    <3>1. f \in File
      BY StrayAssumption DEF File
    <3> QED BY <2>2, <3>1, AgentWriteStep DEF AgentStray
  <2> QED BY <1>7, <2>1, <2>2 DEF Agent
<1>8. ASSUME NEW w \in Workers, Crash(w) PROVE IInv'
  BY <1>8, CrashStep
<1>9. ASSUME NEW w \in Workers, Launch(w) PROVE IInv'
  BY <1>9, LaunchStep
<1>10. CASE UNCHANGED vars
  BY <1>10 DEF IInv, TypeOK, Judged, Held, Verified, CacheOwned
<1> QED
  BY <1>1, <1>2, <1>3, <1>4, <1>5, <1>6, <1>7, <1>8, <1>9, <1>10 DEF Next

\* The variables keep their types and ingest holds only what it verified,
\* for any number of server requests and commands, any agent and any crash.
THEOREM AirlockInvariant == Spec => []IInv
BY InitIInv, NextIInv, PTL DEF Spec

THEOREM AirlockTypes == Spec => []TypeOK
<1>1. IInv => TypeOK
  BY DEF IInv
<1> QED BY <1>1, AirlockInvariant, PTL

\* No interleaving of processes, no crash and nothing an agent writes puts
\* in the cache, under one hash, the result of another job (CacheOwned).
THEOREM CacheIsOwned == Spec => []CacheOwned
<1>1. IInv => CacheOwned
  BY DEF IInv
<1> QED BY <1>1, AirlockInvariant, PTL

-----------------------------------------------------------------------------
(* 'done' is a commit mark, when every worker is a request of the server.   *)
(* Its one thread lets one ingest run at a time (OneIngest); inside it the  *)
(* two writes of an answer are ordered (Ordered), so Grounded is inductive. *)

OneIngest == \A v, w \in Workers : InIngest(v) /\ InIngest(w) => v = w

Ordered ==
    \A w \in Workers :
        /\ pc[w] = "blank" => status[cur[w]] # "done"
        /\ pc[w] = "markDone" => cache[cur[w]] # None /\ cache[cur[w]].body = "good"

Grounded ==
    \A j \in Jobs : status[j] = "done" => cache[j] # None /\ cache[j].body = "good"

DInv == IInv /\ OneIngest /\ Ordered /\ Grounded

\* Whose turn it is has the thread for itself.
LEMMA TurnIsAlone ==
    ASSUME Workers = Server, NEW w \in Workers, Turn(w)
    PROVE  \A v \in Workers \ {w} : ~InIngest(v)
BY DEF Turn, Busy

\* A step that writes nothing to the database and goes to a place where no
\* half of an answer is written keeps what is added to IInv.
LEMMA QuietMove ==
    ASSUME DInv, Workers = Server, NEW w \in Workers, Turn(w), UNCHANGED dbVars,
           NEW p \in Places \ {"blank", "markDone"}, pc' = [pc EXCEPT ![w] = p]
    PROVE  OneIngest' /\ Ordered' /\ Grounded'
<1>1. \A v \in Workers \ {w} : ~InIngest(v) /\ pc'[v] = pc[v]
  BY TurnIsAlone DEF DInv, IInv, TypeOK
<1>2. pc'[w] = p
  BY DEF DInv, IInv, TypeOK
<1>3. OneIngest'
  BY <1>1, <1>2 DEF OneIngest, InIngest
<1>4. Ordered'
  BY <1>1, <1>2 DEF Ordered, InIngest
<1>5. Grounded'
  BY DEF DInv, Grounded
<1> QED BY <1>3, <1>4, <1>5

\* So does a step that leaves the database and every ingest where it is.
LEMMA QuietStay ==
    ASSUME DInv, UNCHANGED <<dbVars, pc, cur>>
    PROVE  OneIngest' /\ Ordered' /\ Grounded'
BY DEF DInv, OneIngest, InIngest, Ordered, Grounded

\* The steps that do write, in the order ingest takes them.
LEMMA WritesKeepOrder ==
    ASSUME DInv, Workers = Server, NEW w \in Workers, Turn(w),
           \/ Disown(w) \/ Refuse(w) \/ StoreBlank(w)
           \/ Fail(w) \/ Store(w) \/ MarkDone(w)
    PROVE  OneIngest' /\ Ordered' /\ Grounded'
<1>1. \A v \in Workers \ {w} : ~InIngest(v) /\ pc'[v] = pc[v]
  BY TurnIsAlone
     DEF DInv, IInv, TypeOK, Disown, Refuse, StoreBlank, Fail, Store, MarkDone, Goto
<1>2. OneIngest'
  BY <1>1 DEF OneIngest, InIngest
<1>3. \A v \in Workers \ {w} : pc'[v] # "blank" /\ pc'[v] # "markDone"
  BY <1>1 DEF InIngest
<1>4. CASE Disown(w) \/ Fail(w)
  <2>1. /\ pc'[w] \in {"quarResult", "arcResult"}
        /\ \A j \in Jobs : status'[j] = "done" => status[j] = "done"
        /\ cache' = cache
    BY <1>4 DEF DInv, IInv, TypeOK, Disown, Fail, SetStatus, Goto
  <2> QED BY <1>2, <1>3, <2>1 DEF DInv, Ordered, Grounded
<1>5. CASE Refuse(w)
  <2>1. /\ pc'[w] = "blank"
        /\ cur' = cur
        /\ cur[w] \in Jobs
        /\ status' = [status EXCEPT ![cur[w]] = "refused"]
        /\ cache' = cache
    BY <1>5 DEF DInv, IInv, TypeOK, Judged, Verified, Held, Refuse, SetStatus, Goto
  <2>2. status'[cur[w]] = "refused"
    BY <2>1 DEF DInv, IInv, TypeOK
  <2>3. Ordered'
    BY <1>3, <2>1, <2>2 DEF Ordered
  <2>4. Grounded'
    BY <2>1 DEF DInv, IInv, TypeOK, Grounded
  <2> QED BY <1>2, <2>3, <2>4
<1>6. CASE StoreBlank(w)
  <2>1. /\ pc'[w] = "arcResult"
        /\ status[cur[w]] # "done"
        /\ cache' = [cache EXCEPT ![cur[w]] = [job |-> cur[w], body |-> "refused"]]
        /\ status' = status
    BY <1>6 DEF DInv, IInv, TypeOK, Judged, Verified, Ordered, StoreBlank, Upsert, Goto
  <2>2. Ordered'
    BY <1>3, <2>1 DEF Ordered
  <2>3. Grounded'
    BY <2>1 DEF DInv, IInv, TypeOK, Grounded
  <2> QED BY <1>2, <2>2, <2>3
<1>7. CASE Store(w)
  <2>1. /\ pc'[w] = "markDone"
        /\ cur' = cur
        /\ cur[w] \in Jobs
        /\ cache' = [cache EXCEPT ![cur[w]] = [job |-> cur[w], body |-> "good"]]
        /\ status' = status
    BY <1>7 DEF DInv, IInv, TypeOK, Judged, Verified, Held, Store, Upsert, Goto
  <2>2. cache'[cur[w]] = [job |-> cur[w], body |-> "good"] /\ cache'[cur[w]] # None
    <3>1. [job |-> cur[w], body |-> "good"] \in Row
      BY <2>1 DEF Row
    <3> QED BY <2>1, <3>1, NoneAssumption DEF DInv, IInv, TypeOK
  <2>3. Ordered'
    BY <1>3, <2>1, <2>2 DEF Ordered
  <2>4. Grounded'
    BY <2>1, <2>2 DEF DInv, IInv, TypeOK, Grounded
  <2> QED BY <1>2, <2>3, <2>4
<1>8. CASE MarkDone(w)
  <2>1. /\ pc'[w] = "arcResult"
        /\ cur[w] \in Jobs
        /\ cache[cur[w]] # None /\ cache[cur[w]].body = "good"
        /\ status' = [status EXCEPT ![cur[w]] = "done"]
        /\ cache' = cache
    BY <1>8 DEF DInv, IInv, TypeOK, Judged, Verified, Held, Ordered, MarkDone,
                SetStatus, Goto
  <2>2. Ordered'
    BY <1>3, <2>1 DEF Ordered
  <2>3. Grounded'
    BY <2>1 DEF DInv, IInv, TypeOK, Grounded
  <2> QED BY <1>2, <2>2, <2>3
<1> QED BY <1>4, <1>5, <1>6, <1>7, <1>8

LEMMA InitDInv == Init => DInv
<1> SUFFICES ASSUME Init PROVE DInv
  OBVIOUS
<1>1. \A w \in Workers : pc[w] = "idle"
  BY DEF Init
<1>2. OneIngest /\ Ordered
  BY <1>1 DEF OneIngest, Ordered, InIngest
<1>3. Grounded
  BY DEF Init, Grounded
<1> QED BY <1>2, <1>3, InitIInv DEF DInv

\* A kill takes the whole server, hence every ingest, down.
LEMMA CrashKeepsOrder ==
    ASSUME DInv, Workers = Server, NEW w \in Workers, Crash(w)
    PROVE  OneIngest' /\ Ordered' /\ Grounded'
<1>1. \A v \in Workers : pc'[v] = "down"
  BY DEF Crash, ProcessOf
<1>2. OneIngest' /\ Ordered'
  BY <1>1 DEF OneIngest, Ordered, InIngest
<1>3. Grounded'
  BY DEF DInv, Grounded, Crash
<1> QED BY <1>2, <1>3

LEMMA LaunchKeepsOrder ==
    ASSUME DInv, Workers = Server, NEW w \in Workers, Launch(w)
    PROVE  OneIngest' /\ Ordered' /\ Grounded'
<1>1. \A v \in Workers : pc'[v] = "idle"
  BY DEF Launch, ProcessOf
<1>2. OneIngest' /\ Ordered'
  BY <1>1 DEF OneIngest, Ordered, InIngest
<1>3. Grounded'
  BY DEF DInv, Grounded, Launch
<1> QED BY <1>2, <1>3

\* Planning only ever turns a missing row into a pending one.
LEMMA PlanKeepsOrder ==
    ASSUME DInv, Plan
    PROVE  OneIngest' /\ Ordered' /\ Grounded'
<1>1. CASE PlanInsert
  <2>1. /\ pc' = pc /\ cur' = cur /\ cache' = cache
        /\ \A i \in Jobs : status'[i] = "done" => status[i] = "done"
    BY <1>1 DEF PlanInsert, DInv, IInv, TypeOK
  <2>2. \A w \in Workers : pc[w] = "blank" => cur[w] \in Jobs
    BY DEF DInv, IInv, Judged, Verified, Held
  <2> QED BY <2>1, <2>2 DEF DInv, OneIngest, InIngest, Ordered, Grounded
<1>2. CASE PlanWrite \/ \E asked \in SUBSET Jobs : PlanStart(asked)
  BY <1>2, QuietStay DEF PlanWrite, PlanStart
<1> QED BY <1>1, <1>2 DEF Plan

\* A drain writes no row; what it moves stays out of the loop of an ingest.
LEMMA DrainKeepsOrder ==
    ASSUME DInv, Workers = Server, NEW w \in Workers, Turn(w),
           Drain(w) \/ AgentExit(w) \/ Ask(w)
    PROVE  OneIngest' /\ Ordered' /\ Grounded'
<1>1. CASE Drain(w)
  BY <1>1, QuietStay DEF Drain, OllamaAnswer, OllamaFail, CopyBack
<1>2. CASE AgentExit(w)
  BY <1>2, QuietMove DEF AgentExit, Places
<1>3. CASE Ask(w)
  BY <1>3, QuietMove DEF Ask, StartOllama, StartClaude, IngestStart, Places
<1> QED BY <1>1, <1>2, <1>3

\* The steps of an ingest that only read, decide and move files.
LEMMA MovesKeepOrder ==
    ASSUME DInv, Workers = Server, NEW w \in Workers, Turn(w),
           \/ IngestStart(w) \/ ReadResult(w) \/ Shelve(w) \/ QuarantineResult(w)
           \/ QuarantineJob(w) \/ ArchiveResult(w) \/ ArchiveJob(w) \/ IngestEnd(w)
    PROVE  OneIngest' /\ Ordered' /\ Grounded'
<1>1. CASE ReadResult(w)
  <2>1. PICK n \in names[w] : /\ pc' = [pc EXCEPT ![w] = Judge(n, results[n])]
                              /\ UNCHANGED dbVars
    BY <1>1 DEF ReadResult
  <2>2. n \in Jobs /\ results[n] \in File
    BY DEF DInv, IInv, TypeOK
  <2>3. Judge(n, results[n]) \in Places \ {"blank", "markDone"}
    BY <2>2, JudgeCases DEF Places
  <2> QED BY <2>1, <2>3, QuietMove
<1>2. CASE IngestStart(w) \/ IngestEnd(w)
  BY <1>2, QuietMove DEF IngestStart, IngestEnd, Places
<1>3. CASE Shelve(w) \/ QuarantineJob(w) \/ ArchiveJob(w)
  BY <1>3, QuietMove DEF Shelve, QuarantineJob, ArchiveJob, MoveResult, NextFile, Places
<1>4. CASE QuarantineResult(w) \/ ArchiveResult(w)
  BY <1>4, QuietMove DEF QuarantineResult, ArchiveResult, MoveResult, Goto, Places
<1> QED BY <1>1, <1>2, <1>3, <1>4

LEMMA NextDInv == Workers = Server /\ DInv /\ [Next]_vars => DInv'
<1> SUFFICES ASSUME Workers = Server, DInv, [Next]_vars
             PROVE  OneIngest' /\ Ordered' /\ Grounded'
  BY NextIInv DEF DInv
<1>1. CASE Plan
  BY <1>1, PlanKeepsOrder
<1>2. CASE PlannerCrash
  BY <1>2, QuietStay DEF PlannerCrash
<1>3. ASSUME NEW w \in Workers, Turn(w), Ask(w) \/ AgentExit(w) \/ Drain(w)
      PROVE  OneIngest' /\ Ordered' /\ Grounded'
  BY <1>3, DrainKeepsOrder
<1>4. ASSUME NEW w \in Workers, Turn(w), Ingest(w)
      PROVE  OneIngest' /\ Ordered' /\ Grounded'
  BY <1>4, MovesKeepOrder, WritesKeepOrder DEF Ingest
<1>5. ASSUME NEW w \in Workers, Agent(w)
      PROVE  OneIngest' /\ Ordered' /\ Grounded'
  BY <1>5, QuietStay DEF Agent, AgentAnswer, AgentStray, AgentWrite
<1>6. ASSUME NEW w \in Workers, Crash(w) \/ Launch(w)
      PROVE  OneIngest' /\ Ordered' /\ Grounded'
  BY <1>6, CrashKeepsOrder, LaunchKeepsOrder
<1>7. CASE UNCHANGED vars
  BY <1>7, QuietStay
<1> QED BY <1>1, <1>2, <1>3, <1>4, <1>5, <1>6, <1>7 DEF Next

\* When every worker is a request of the server, however many there are, a
\* done job has its good payload at every step and after every crash: a late
\* refusal or a late error can take 'done' back, never leave it hollow.
THEOREM DoneHasItsPayload ==
    ASSUME Workers = Server
    PROVE  Spec => []DoneIsGrounded
<1>1. DInv => DoneIsGrounded
  <2> SUFFICES ASSUME DInv, NEW j \in Jobs, status[j] = "done"
               PROVE  cache[j] # None /\ View(j) = "ok"
    BY DEF DoneIsGrounded
  <2>1. cache[j] # None /\ cache[j].body = "good"
    BY DEF DInv, Grounded
  <2>2. status[cache[j].job] = "done"
    BY <2>1 DEF DInv, IInv, CacheOwned
  <2> QED BY <2>1, <2>2 DEF View
<1> QED BY <1>1, InitDInv, NextDInv, PTL DEF Spec

-----------------------------------------------------------------------------
(* What leaves results/ has been read, when every worker is a request of the *)
(* server: from the reading of a file to its move its contents stay what the *)
(* ingest holds, for nobody else has the thread.                             *)

Reads(w) ==
    /\ pc[w] = "shelve" => IsUnknown(results[cur[w]])
    /\ pc[w] \in {"disown", "quarResult", "refuse", "blank", "fail", "store", "markDone", "arcResult"}
          => env[w] = results[cur[w]]

HInv == DInv /\ \A w \in Workers : Reads(w)

LEMMA IngestKeepsReads ==
    ASSUME HInv, Workers = Server, NEW w \in Workers, Turn(w), Ingest(w)
    PROVE  \A v \in Workers : Reads(v)'
<1>1. \A v \in Workers \ {w} : pc'[v] = pc[v] /\ ~InIngest(v)
  BY TurnIsAlone DEF HInv, DInv, IInv, TypeOK, Ingest, IngestStart, ReadResult, Shelve, Disown,
         QuarantineResult, QuarantineJob, Refuse, StoreBlank, Fail, Store, MarkDone,
         ArchiveResult, ArchiveJob, IngestEnd, NextFile, Goto
<1>2. \A v \in Workers \ {w} : Reads(v)'
  BY <1>1 DEF Reads, InIngest
<1>3. Reads(w)'
  <2>1. CASE ReadResult(w)
    <3>1. PICK n \in names[w] : /\ cur' = [cur EXCEPT ![w] = n]
                                /\ pc' = [pc EXCEPT ![w] = Judge(n, results[n])]
                                /\ env' = [env EXCEPT ![w] = IF IsUnknown(results[n]) THEN None ELSE results[n]]
                                /\ UNCHANGED <<dbVars, results>>
      BY <2>1 DEF ReadResult
    <3>2. n \in Jobs /\ results[n] \in File
      BY DEF HInv, DInv, IInv, TypeOK
    <3>3. cur'[w] = n /\ pc'[w] = Judge(n, results[n])
          /\ env'[w] = IF IsUnknown(results[n]) THEN None ELSE results[n]
      BY <3>1 DEF HInv, DInv, IInv, TypeOK
    <3>4. IsUnknown(results[n])' <=> IsUnknown(results[n])
      BY <3>1 DEF IsUnknown
    <3>5. CASE IsUnknown(results[n])
      <4>1. pc'[w] = "shelve"
        BY <3>2, <3>3, <3>5, JudgeCases
      <4>2. IsUnknown(results[cur[w]])'
        BY <3>1, <3>3, <3>4, <3>5
      <4> QED BY <4>1, <4>2 DEF Reads
    <3>6. CASE ~IsUnknown(results[n])
      <4>1. pc'[w] # "shelve"
        BY <3>2, <3>3, <3>6, JudgeCases
      <4>2. env'[w] = results'[cur'[w]]
        BY <3>1, <3>3, <3>6
      <4> QED BY <4>1, <4>2 DEF Reads
    <3> QED BY <3>5, <3>6
  <2>2. CASE IngestStart(w) \/ IngestEnd(w) \/ Shelve(w) \/ QuarantineJob(w) \/ ArchiveJob(w)
             \/ QuarantineResult(w) \/ ArchiveResult(w)
    <3>1. pc'[w] \in {"ingest", "idle", "quarJob", "arcJob"}
      BY <2>2 DEF HInv, DInv, IInv, TypeOK, IngestStart, IngestEnd, Shelve, QuarantineJob, ArchiveJob,
                  QuarantineResult, ArchiveResult, NextFile, Goto
    <3> QED BY <3>1 DEF Reads
  <2>3. CASE Disown(w) \/ Refuse(w) \/ StoreBlank(w) \/ Fail(w) \/ Store(w) \/ MarkDone(w)
    <3>1. pc'[w] # "shelve" /\ env[w] = results[cur[w]] /\ UNCHANGED <<env, cur, results>>
      BY <2>3 DEF HInv, DInv, IInv, TypeOK, Reads, Disown, Refuse, StoreBlank, Fail, Store, MarkDone,
                  SetStatus, Upsert, Goto
    <3> QED BY <3>1 DEF Reads
  <2> QED BY <2>1, <2>2, <2>3 DEF Ingest
<1> QED BY <1>2, <1>3

LEMMA NextHInv == Workers = Server /\ HInv /\ [Next]_vars => HInv'
<1> SUFFICES ASSUME Workers = Server, HInv, [Next]_vars
             PROVE  \A w \in Workers : Reads(w)'
  BY NextDInv DEF HInv
<1>1. ASSUME \A w \in Workers : ~InIngest(w)'
      PROVE  \A w \in Workers : Reads(w)'
  BY <1>1 DEF InIngest, Reads
<1>2. CASE Plan
  <2>1. \A w \in Workers : ~InIngest(w) /\ pc' = pc
    BY <1>2 DEF Plan, Busy, PlanStart, PlanInsert, PlanWrite
  <2> QED BY <1>1, <2>1 DEF InIngest
<1>3. CASE PlannerCrash
  BY <1>3 DEF PlannerCrash, HInv, Reads, IsUnknown
<1>4. ASSUME NEW w \in Workers, Turn(w), Ask(w) \/ AgentExit(w) \/ Drain(w)
      PROVE  \A v \in Workers : Reads(v)'
  <2>1. \A v \in Workers \ {w} : pc'[v] = pc[v] /\ ~InIngest(v)
    BY <1>4, TurnIsAlone DEF HInv, DInv, IInv, TypeOK, Ask, AgentExit, Drain, StartOllama, StartClaude,
                             IngestStart, OllamaAnswer, OllamaFail, CopyBack
  <2>2. pc'[w] \in {"ollama", "claude", "copy", "ingest"}
    BY <1>4 DEF HInv, DInv, IInv, TypeOK, Ask, AgentExit, Drain, StartOllama, StartClaude, IngestStart,
                OllamaAnswer, OllamaFail, CopyBack
  <2> QED BY <2>1, <2>2 DEF Reads, InIngest
<1>5. ASSUME NEW w \in Workers, Turn(w), Ingest(w)
      PROVE  \A v \in Workers : Reads(v)'
  BY <1>5, IngestKeepsReads
<1>6. ASSUME NEW w \in Workers, Agent(w)
      PROVE  \A v \in Workers : Reads(v)'
  BY <1>6 DEF Agent, AgentAnswer, AgentStray, AgentWrite, HInv, Reads, IsUnknown
<1>7. ASSUME NEW w \in Workers, Crash(w) \/ Launch(w)
      PROVE  \A v \in Workers : Reads(v)'
  <2>1. \A v \in Workers : pc'[v] \in {"down", "idle"}
    BY <1>7 DEF Crash, Launch, ProcessOf
  <2> QED BY <2>1 DEF Reads
<1>8. CASE UNCHANGED vars
  BY <1>8 DEF HInv, Reads, IsUnknown
<1> QED BY <1>2, <1>3, <1>4, <1>5, <1>6, <1>7, <1>8 DEF Next

\* A file leaves results/ in three steps, and each has its ingest.
LEMMA WhatLeavesWasRead ==
    ASSUME HInv, Next, NEW n \in Jobs, results[n] # None, results'[n] = None
    PROVE  \E w \in Workers : cur[w] = n /\ (env[w] = results[n] \/ IsUnknown(results[n]))
<1>1. ASSUME NEW w \in Workers, Shelve(w) \/ QuarantineResult(w) \/ ArchiveResult(w)
      PROVE  cur[w] = n /\ (env[w] = results[n] \/ IsUnknown(results[n]))
  <2>1. results' = [results EXCEPT ![cur[w]] = None]
        /\ (env[w] = results[cur[w]] \/ IsUnknown(results[cur[w]]))
    BY <1>1 DEF Shelve, QuarantineResult, ArchiveResult, MoveResult, HInv, Reads
  <2>2. cur[w] = n
    BY <2>1 DEF HInv, DInv, IInv, TypeOK
  <2> QED BY <2>1, <2>2
<1>2. ASSUME NEW w \in Workers, Drain(w)
      PROVE  FALSE
  <2>1. ASSUME NEW b \in Bodies, OllamaAnswer(w, b) PROVE FALSE
    <3>1. PICK j \in todo[w] : results' = [results EXCEPT ![j] = Own(j, b)]
      BY <2>1 DEF OllamaAnswer
    <3>2. j \in Jobs /\ Own(j, b) \in Envelope
      BY OwnIsEnvelope DEF HInv, DInv, IInv, TypeOK, Own, Envelope
    <3> QED BY <3>1, <3>2, NoneAssumption DEF HInv, DInv, IInv, TypeOK
  <2>2. CASE CopyBack(w)
    BY <2>2 DEF CopyBack, OnDisk, HInv, DInv, IInv, TypeOK
  <2>3. CASE OllamaFail(w)
    BY <2>3 DEF OllamaFail
  <2> QED BY <1>2, <2>1, <2>2, <2>3 DEF Drain
<1>3. ASSUME NEW w \in Workers, Crash(w)
      PROVE  FALSE
  BY <1>3, NoneAssumption DEF Crash, OnDisk, HInv, DInv, IInv, TypeOK
<1>4. ASSUME results' = results PROVE FALSE
  BY <1>4
<1>5. Plan \/ PlannerCrash => results' = results
  BY DEF Plan, PlannerCrash, PlanStart, PlanInsert, PlanWrite
<1>6. ASSUME NEW w \in Workers, Ask(w) \/ AgentExit(w) \/ Agent(w) \/ Launch(w)
      PROVE  results' = results
  BY <1>6 DEF Ask, AgentExit, Agent, AgentAnswer, AgentStray, AgentWrite, Launch,
              StartOllama, StartClaude, IngestStart
<1>7. ASSUME NEW w \in Workers, Ingest(w), ~(Shelve(w) \/ QuarantineResult(w) \/ ArchiveResult(w))
      PROVE  results' = results
  BY <1>7 DEF Ingest, IngestStart, ReadResult, Disown, QuarantineJob, Refuse, StoreBlank, Fail, Store,
              MarkDone, ArchiveJob, IngestEnd, SetStatus, Upsert
<1> QED BY <1>1, <1>2, <1>3, <1>4, <1>5, <1>6, <1>7 DEF Next

\* No answer is lost, whatever an agent leaves, however many requests overlap
\* and wherever the server is killed: what leaves results/ was read by the ingest
\* that takes it away, or cannot be attributed (ingestResults.ts).
THEOREM WhatLeavesIsRead ==
    ASSUME Workers = Server
    PROVE  Spec => AnswersAreRead
<1> DEFINE Read == \A n \in Jobs :
          results[n] # None /\ results'[n] = None =>
              \E w \in Workers : cur[w] = n /\ (env[w] = results[n] \/ IsUnknown(results[n]))
<1>1. Init => HInv
  <2> SUFFICES ASSUME Init PROVE \A w \in Workers : Reads(w)
    BY InitDInv DEF HInv
  <2>1. \A w \in Workers : pc[w] = "idle"
    BY DEF Init
  <2> QED BY <2>1 DEF Reads
<1>2. HInv /\ [Next]_vars => [Read]_vars
  BY WhatLeavesWasRead
<1> HIDE DEF Read
<1>3. Spec => [][Read]_vars
  BY <1>1, <1>2, NextHInv, PTL DEF Spec
<1> QED BY <1>3 DEF Read, AnswersAreRead

-----------------------------------------------------------------------------
(* When one request at a time is served and no process is killed, the airlock *)
(* implements the ledger that its users see.  Between the two database writes *)
(* of an answer its row and its cached result disagree; outside them (Agrees) *)
(* they do not.  What has a file in jobs/ has no result yet, so a drain never *)
(* asks what is answered.                                                     *)

\* The reader's own machine with one window: its agent answers what it is asked.
Sole == Workers = Server /\ (\A v, w \in Workers : v = w) /\ Stray = {} /\ ~CanCrash

Answers(n) == {Own(n, b) : b \in Bodies}
Answering(j) == \E w \in Workers : cur[w] = j

Agrees(j) ==
    \/ cache[j] = None /\ status[j] \in {"none", "pending", "error"}
    \/ cache[j] # None /\ cache[j].body = "good" /\ status[j] = "done"
    \/ cache[j] # None /\ cache[j].body = "refused" /\ status[j] = "refused"

Settled ==
    \A j \in Jobs : ~Answering(j) =>
        Agrees(j) /\ (j \in jobFiles => cache[j] = None /\ status[j] # "none")

Offered == \A j \in Jobs : status[j] = "pending" => j \in jobFiles \/ planning = j

Planned ==
    /\ \A j \in toPlan : cache[j] = None
    /\ planning # None => cache[planning] = None /\ status[planning] # "none"

Answered == \A n \in Jobs : results[n] # None => n \in jobFiles /\ results[n] \in Answers(n)

Reading(w) == pc[w] \in {"idle", "ollama", "claude", "copy", "ingest"}

Drained(w) ==
    /\ todo[w] \subseteq jobFiles
    /\ \A n \in Jobs : desk[w][n] # None => n \in jobFiles /\ desk[w][n] \in Answers(n)
    /\ pc[w] \in {"idle", "copy"} \/ InIngest(w) => todo[w] = {}
    /\ pc[w] \in {"idle", "ollama"} \/ InIngest(w) => \A n \in Jobs : desk[w][n] = None

Listed(w) ==
    /\ names[w] \subseteq OnDisk(results) /\ cur[w] \notin names[w]
    /\ ~InIngest(w) => names[w] = {}
    /\ InIngest(w) => toPlan = {} /\ planning = None

\* How far the ingest is with the job in hand.
Written(w) ==
    LET j == cur[w]
    IN /\ Reading(w) => j = None
       /\ ~Reading(w) => j \in Jobs
       /\ pc[w] \in {"refuse", "fail", "store"} => cache[j] = None /\ status[j] \in {"pending", "error"}
       /\ pc[w] = "blank" => cache[j] = None /\ status[j] = "refused"
       /\ pc[w] = "markDone" => /\ cache[j] # None /\ cache[j].body = "good"
                                /\ status[j] \in {"pending", "error"}
       /\ pc[w] \in {"arcResult", "arcJob"} => Agrees(j) /\ status[j] \notin {"none", "pending"}
       /\ pc[w] = "arcJob" => results[j] = None
       /\ pc[w] \in {"idle", "ollama", "claude", "copy", "ingest", "refuse", "blank", "fail", "store",
                     "markDone", "arcResult", "arcJob"}

SoleInv ==
    /\ IInv /\ Settled /\ Offered /\ Planned /\ Answered
    /\ \A w \in Workers : Drained(w) /\ Listed(w) /\ Written(w)

LEMMA InitSoleInv == Init => SoleInv
<1> SUFFICES ASSUME Init PROVE SoleInv
  OBVIOUS
<1>1. IInv
  BY InitIInv
<1>2. Settled /\ Offered /\ Planned /\ Answered
  BY DEF Init, Settled, Offered, Planned, Answered, Agrees, Answering, EmptyDir
<1>3. ASSUME NEW w \in Workers PROVE Drained(w) /\ Listed(w) /\ Written(w)
  BY NoneAssumption DEF Init, Drained, Listed, Written, Reading, InIngest, EmptyDir
<1> QED BY <1>1, <1>2, <1>3 DEF SoleInv

\* A plan runs only between the steps of a request.
LEMMA PlanKeepsSole ==
    ASSUME Sole, SoleInv, Plan
    PROVE  SoleInv'
<1>1. IInv'
  BY NextIInv DEF Next, SoleInv
<1>2. \A w \in Workers : ~InIngest(w) /\ Reading(w) /\ cur[w] = None
  BY DEF Plan, Sole, Busy, SoleInv, Written, Reading, InIngest
<1>3. \A j \in Jobs : ~Answering(j) /\ ~Answering(j)'
  BY <1>2, NoneAssumption DEF Answering, Plan, PlanStart, PlanInsert, PlanWrite
<1>4. UNCHANGED <<cache, results, pc, todo, desk, names, cur>> /\ jobFiles \subseteq jobFiles'
  BY DEF Plan, PlanStart, PlanInsert, PlanWrite
<1>5. ASSUME NEW w \in Workers PROVE (Drained(w) /\ Listed(w) /\ Written(w))'
  BY <1>2, <1>4 DEF SoleInv, Drained, Listed, Written, Reading, InIngest, Answers, OnDisk
<1>6. Answered'
  BY <1>4 DEF SoleInv, Answered, Answers
<1>7. ASSUME NEW asked \in SUBSET Jobs, PlanStart(asked) PROVE (Settled /\ Offered /\ Planned)'
  BY <1>3, <1>7 DEF PlanStart, SoleInv, Settled, Offered, Planned, Agrees
<1>8. CASE PlanInsert
  <2>1. PICK j \in toPlan : /\ status' = [status EXCEPT ![j] = IF @ = "none" THEN "pending" ELSE @]
                            /\ toPlan' = toPlan \ {j} /\ planning' = j /\ planning = None
                            /\ UNCHANGED <<cache, jobFiles>>
    BY <1>8 DEF PlanInsert
  <2>2. j \in Jobs /\ cache[j] = None /\ status'[j] # "none" /\ status'[j] = (IF status[j] = "none" THEN "pending" ELSE status[j])
        /\ \A i \in Jobs \ {j} : status'[i] = status[i]
    BY <2>1 DEF SoleInv, Planned, IInv, TypeOK
  <2>3. Settled'
    BY <1>3, <2>1, <2>2 DEF SoleInv, Settled, Agrees
  <2>4. Offered'
    BY <2>1, <2>2, NoneAssumption DEF SoleInv, Offered
  <2>5. Planned'
    BY <2>1, <2>2 DEF SoleInv, Planned
  <2> QED BY <1>1, <1>5, <1>6, <2>3, <2>4, <2>5 DEF SoleInv
<1>9. CASE PlanWrite
  <2>1. planning \in Jobs /\ jobFiles' = jobFiles \cup {planning} /\ planning' = None
        /\ UNCHANGED <<status, cache, toPlan>>
    BY <1>9 DEF PlanWrite, SoleInv, IInv, TypeOK
  <2>2. Settled'
    BY <1>3, <1>9, <2>1 DEF SoleInv, Settled, Planned, Agrees, PlanWrite
  <2>3. Offered'
    BY <2>1 DEF SoleInv, Offered
  <2>4. Planned'
    BY <2>1 DEF SoleInv, Planned
  <2> QED BY <1>1, <1>5, <1>6, <2>2, <2>3, <2>4 DEF SoleInv
<1> QED BY <1>1, <1>5, <1>6, <1>7, <1>8, <1>9 DEF Plan, SoleInv

\* A drain answers what is open, and ends before its ingest begins.
LEMMA DrainKeepsSole ==
    ASSUME Sole, SoleInv, NEW w \in Workers, Turn(w), Ask(w) \/ AgentExit(w) \/ Drain(w) \/ IngestStart(w)
    PROVE  SoleInv'
<1>1. IInv'
  BY NextIInv DEF Next, Ask, Ingest, SoleInv
<1>2. \A v \in Workers : v = w
  BY DEF Sole
<1>3. UNCHANGED <<status, cache, jobFiles, toPlan, planning, cur>>
  BY DEF Ask, AgentExit, Drain, StartOllama, StartClaude, IngestStart, OllamaAnswer, OllamaFail, CopyBack
<1>4. (Settled /\ Offered /\ Planned)'
  BY <1>3 DEF SoleInv, Settled, Offered, Planned, Agrees, Answering
<1>5. toPlan = {} /\ planning = None
  BY DEF Turn, Sole
<1>6. CASE (\E only \in {Local, Jobs} : StartOllama(w, only)) \/ StartClaude(w)
  <2>1. todo'[w] \subseteq jobFiles /\ pc'[w] \in {"ollama", "claude"} /\ pc[w] = "idle"
        /\ UNCHANGED <<results, desk, names>>
    BY <1>6, FirstOfSubset DEF StartOllama, StartClaude, Pending, SoleInv, IInv, TypeOK
  <2>2. (Drained(w) /\ Listed(w) /\ Written(w))'
    BY <1>3, <2>1 DEF SoleInv, Drained, Listed, Written, Reading, InIngest, Answers, OnDisk
  <2>3. Answered'
    BY <1>3, <2>1 DEF SoleInv, Answered, Answers
  <2> QED BY <1>1, <1>2, <1>4, <2>2, <2>3 DEF SoleInv
<1>7. CASE IngestStart(w)
  <2>1. todo[w] = {} /\ \A n \in Jobs : desk[w][n] = None
    <3>1. CASE pc[w] = "idle"
      BY <3>1 DEF SoleInv, Drained
    <3>2. CASE pc[w] = "ollama" /\ todo[w] = {}
      BY <3>2 DEF SoleInv, Drained
    <3>3. CASE pc[w] = "copy" /\ OnDisk(desk[w]) = {}
      BY <3>3 DEF SoleInv, Drained, OnDisk
    <3> QED BY <1>7, <3>1, <3>2, <3>3 DEF IngestStart
  <2>2. names'[w] = OnDisk(results) /\ pc'[w] = "ingest" /\ Reading(w) /\ UNCHANGED <<results, todo, desk>>
    BY <1>7 DEF IngestStart, SoleInv, IInv, TypeOK, Reading
  <2>3. (Drained(w) /\ Listed(w) /\ Written(w))'
    BY <1>3, <1>5, <2>1, <2>2, NoneAssumption DEF SoleInv, Drained, Listed, Written, Reading, InIngest, Answers, OnDisk
  <2>4. Answered'
    BY <1>3, <2>2 DEF SoleInv, Answered, Answers
  <2> QED BY <1>1, <1>2, <1>4, <2>3, <2>4 DEF SoleInv
<1>8. CASE AgentExit(w) \/ OllamaFail(w)
  <2>1. <<pc[w], pc'[w]>> \in {<<"claude", "copy">>, <<"ollama", "ollama">>}
        /\ todo'[w] = {} /\ UNCHANGED <<results, desk, names>>
    BY <1>8 DEF AgentExit, OllamaFail, SoleInv, IInv, TypeOK
  <2>2. (Drained(w) /\ Listed(w) /\ Written(w))'
    BY <1>3, <2>1 DEF SoleInv, Drained, Listed, Written, Reading, InIngest, Answers, OnDisk
  <2>3. Answered'
    BY <1>3, <2>1 DEF SoleInv, Answered, Answers
  <2> QED BY <1>1, <1>2, <1>4, <2>2, <2>3 DEF SoleInv
<1>9. ASSUME NEW b \in Bodies, OllamaAnswer(w, b) PROVE SoleInv'
  <2>1. PICK j \in todo[w] : /\ results' = [results EXCEPT ![j] = Own(j, b)]
                             /\ todo' = [todo EXCEPT ![w] = @ \ {j}]
    BY <1>9 DEF OllamaAnswer
  <2>2. /\ pc[w] = "ollama" /\ UNCHANGED <<pc, desk, names>> /\ names[w] = {}
        /\ j \in jobFiles /\ j \in Jobs /\ todo'[w] \subseteq todo[w]
    BY <1>9, <2>1 DEF OllamaAnswer, SoleInv, Drained, Listed, InIngest, IInv, TypeOK
  <2>3. (Drained(w) /\ Listed(w) /\ Written(w))'
    BY <1>3, <2>2 DEF SoleInv, Drained, Listed, Written, Reading, InIngest, Answers, OnDisk
  <2>4. Answered'
    BY <1>3, <2>1, <2>2 DEF SoleInv, Answered, Answers, IInv, TypeOK
  <2> QED BY <1>1, <1>2, <1>4, <2>3, <2>4 DEF SoleInv
<1>10. CASE CopyBack(w)
  <2>1. PICK n \in OnDisk(desk[w]) : /\ results' = [results EXCEPT ![n] = desk[w][n]]
                                     /\ desk' = [desk EXCEPT ![w][n] = None]
    BY <1>10 DEF CopyBack
  <2>2. /\ pc[w] = "copy" /\ UNCHANGED <<pc, todo, names>> /\ names[w] = {}
        /\ n \in Jobs /\ desk[w][n] # None
    BY <1>10, <2>1 DEF CopyBack, OnDisk, SoleInv, Listed, InIngest
  <2>3. \A m \in Jobs : desk'[w][m] # None => desk'[w][m] = desk[w][m] /\ desk[w][m] # None
    BY <2>1, <2>2 DEF SoleInv, IInv, TypeOK
  <2>4. (Drained(w) /\ Listed(w) /\ Written(w))'
    BY <1>3, <2>2, <2>3 DEF SoleInv, Drained, Listed, Written, Reading, InIngest, Answers, OnDisk
  <2>5. Answered'
    BY <1>3, <2>1, <2>2 DEF SoleInv, Answered, Drained, Answers, IInv, TypeOK
  <2> QED BY <1>1, <1>2, <1>4, <2>4, <2>5 DEF SoleInv
<1> QED BY <1>6, <1>7, <1>8, <1>9, <1>10 DEF Ask, Drain

\* The agent answers the jobs that lie in its sandbox.
LEMMA AgentKeepsSole ==
    ASSUME Sole, SoleInv, NEW w \in Workers, Agent(w)
    PROVE  SoleInv'
<1>1. IInv'
  BY NextIInv DEF Next, SoleInv
<1>2. \A v \in Workers : v = w
  BY DEF Sole
<1>3. PICK n \in Jobs, b \in Bodies : n \in todo[w] /\ AgentWrite(w, n, Own(n, b))
  BY DEF Agent, AgentAnswer, AgentStray, Sole
<1>4. /\ pc[w] = "claude" /\ n \in jobFiles
      /\ UNCHANGED <<status, cache, jobFiles, results, toPlan, planning, pc, todo, names, cur>>
  BY <1>3 DEF AgentWrite, SoleInv, Drained
<1>5. \A m \in Jobs : desk'[w][m] = IF m = n THEN Own(n, b) ELSE desk[w][m]
  BY <1>3 DEF AgentWrite, SoleInv, IInv, TypeOK
<1>6. Drained(w)'
  BY <1>4, <1>5 DEF SoleInv, Drained, InIngest, Answers
<1>7. (Listed(w) /\ Written(w))'
  BY <1>4 DEF SoleInv, Listed, Written, Reading, InIngest, Agrees, OnDisk
<1>8. (Settled /\ Offered /\ Planned /\ Answered)'
  BY <1>4 DEF SoleInv, Settled, Offered, Planned, Answered, Answers, Agrees, Answering
<1> QED BY <1>1, <1>2, <1>6, <1>7, <1>8 DEF SoleInv

-----------------------------------------------------------------------------
(* Ingest, one file at a time. *)

\* What an ingest writes concerns the job in hand, and reopens nothing.
LEMMA WriteKeepsSole ==
    ASSUME Sole, SoleInv, NEW w \in Workers, IInv', cur[w] \in Jobs, InIngest(w), InIngest(w)',
           UNCHANGED <<fileVars, planVars, drainVars, names, cur>>,
           \A i \in Jobs \ {cur[w]} : status'[i] = status[i] /\ cache'[i] = cache[i],
           status'[cur[w]] = "pending" => status[cur[w]] = "pending",
           Written(w)'
    PROVE  SoleInv'
<1>1. \A v \in Workers : v = w
  BY DEF Sole
<1>2. Settled'
  BY <1>1 DEF SoleInv, Settled, Agrees, Answering
<1>3. (Offered /\ Planned /\ Answered)'
  BY DEF SoleInv, Offered, Planned, Answered, Answers, Listed
<1>4. (Drained(w) /\ Listed(w))'
  BY DEF SoleInv, Drained, Listed, InIngest, Answers, OnDisk
<1> QED BY <1>1, <1>2, <1>3, <1>4 DEF SoleInv

LEMMA IngestKeepsSole ==
    ASSUME Sole, SoleInv, NEW w \in Workers, Turn(w), Ingest(w)
    PROVE  SoleInv'
<1>1. IInv'
  BY NextIInv DEF Next, SoleInv
<1>2. \A v \in Workers : v = w
  BY DEF Sole
<1>3. pc[w] \in Places /\ cur[w] \in Jobs \cup {None} /\ w \in DOMAIN pc /\ w \in DOMAIN cur
  BY DEF SoleInv, IInv, TypeOK
<1>4. CASE pc[w] # "idle" /\ IngestStart(w)
  BY <1>4, DrainKeepsSole
<1>5. CASE Shelve(w) \/ Disown(w) \/ QuarantineResult(w) \/ QuarantineJob(w)
  BY <1>5 DEF Shelve, Disown, QuarantineResult, QuarantineJob, SoleInv, Written
<1>6. CASE ReadResult(w)
  <2>1. PICK n \in names[w] : /\ names' = [names EXCEPT ![w] = @ \ {n}]
                              /\ cur' = [cur EXCEPT ![w] = n]
                              /\ pc' = [pc EXCEPT ![w] = Judge(n, results[n])]
    BY <1>6 DEF ReadResult
  <2>2. /\ pc[w] = "ingest" /\ cur[w] = None /\ n \in Jobs /\ results[n] # None
        /\ UNCHANGED <<status, cache, jobFiles, results, toPlan, planning, todo, desk>>
    BY <1>6, <2>1 DEF ReadResult, SoleInv, Written, Reading, Listed, OnDisk
  <2>3. n \in jobFiles /\ results[n] \in Answers(n) /\ cache[n] = None /\ status[n] \in {"pending", "error"}
    BY <1>2, <2>2, NoneAssumption DEF SoleInv, Answered, Settled, Agrees, Answering
  <2>4. Judge(n, results[n]) \in {"refuse", "store", "fail"}
    BY <2>2, <2>3, NoneAssumption, OwnIsEnvelope
       DEF Judge, IsUnknown, IsMismatch, Answers, Own, Envelope, SoleInv, IInv, TypeOK
  <2>5. /\ cur'[w] = n /\ pc'[w] \in {"refuse", "store", "fail"} /\ names'[w] = names[w] \ {n}
    BY <2>1, <2>4 DEF SoleInv, IInv, TypeOK
  <2>6. Settled'
    BY <1>2, <2>2, NoneAssumption DEF SoleInv, Settled, Agrees, Answering
  <2>7. (Offered /\ Planned /\ Answered)'
    BY <2>2 DEF SoleInv, Offered, Planned, Answered, Answers
  <2>8. (Drained(w) /\ Listed(w))'
    BY <2>2, <2>5 DEF SoleInv, Drained, Listed, InIngest, Answers, OnDisk
  <2>9. Written(w)'
    BY <2>2, <2>3, <2>5 DEF Written, Reading
  <2> QED BY <1>1, <1>2, <2>6, <2>7, <2>8, <2>9 DEF SoleInv
<1>7. ASSUME NEW s \in {"refused", "error", "done"}, SetStatus(env[w].job, s), UNCHANGED <<planVars, drainVars, ingestVars>>,
             pc[w] \in {"refuse", "fail", "markDone"}, InIngest(w)', Written(w)'
      PROVE  SoleInv'
  <2>1. env[w].job = cur[w] /\ cur[w] \in Jobs /\ InIngest(w)
    BY <1>7 DEF SoleInv, IInv, Judged, Verified, Held, InIngest
  <2>2. /\ UNCHANGED <<fileVars, planVars, drainVars, names, cur, cache>> /\ status'[cur[w]] = s
        /\ \A i \in Jobs \ {cur[w]} : status'[i] = status[i]
    BY <1>7, <2>1 DEF SetStatus, SoleInv, IInv, TypeOK
  <2> QED BY <1>1, <1>7, <2>1, <2>2, WriteKeepsSole
<1>8. ASSUME NEW b \in {"good", "refused"}, Upsert(env[w], b), UNCHANGED <<planVars, drainVars, ingestVars>>,
             pc[w] \in {"blank", "store"}, InIngest(w)', Written(w)'
      PROVE  SoleInv'
  <2>1. env[w].hash = cur[w] /\ cur[w] \in Jobs /\ InIngest(w)
    BY <1>8 DEF SoleInv, IInv, Judged, Verified, Held, InIngest
  <2>2. /\ UNCHANGED <<fileVars, planVars, drainVars, names, cur, status>>
        /\ \A i \in Jobs \ {cur[w]} : cache'[i] = cache[i]
    BY <1>8, <2>1 DEF Upsert, SoleInv, IInv, TypeOK
  <2> QED BY <1>1, <1>8, <2>1, <2>2, WriteKeepsSole
<1>9. CASE Refuse(w)
  <2>1. cur[w] \in Jobs /\ env[w].job = cur[w] /\ cache[cur[w]] = None /\ pc'[w] = "blank" /\ UNCHANGED <<cur, cache>>
        /\ status'[cur[w]] = "refused"
    BY <1>9 DEF Refuse, Goto, SetStatus, SoleInv, Written, IInv, TypeOK, Judged, Verified, Held
  <2>2. InIngest(w)' /\ Written(w)'
    BY <2>1 DEF InIngest, Written, Reading
  <2> QED BY <1>7, <1>9, <2>2 DEF Refuse, Goto
<1>10. CASE Fail(w)
  <2>1. cur[w] \in Jobs /\ env[w].job = cur[w] /\ cache[cur[w]] = None /\ pc'[w] = "arcResult" /\ UNCHANGED <<cur, cache>>
        /\ status'[cur[w]] = "error"
    BY <1>10 DEF Fail, Goto, SetStatus, SoleInv, Written, IInv, TypeOK, Judged, Verified, Held
  <2>2. InIngest(w)' /\ Written(w)'
    BY <2>1 DEF InIngest, Written, Reading, Agrees
  <2> QED BY <1>7, <1>10, <2>2 DEF Fail, Goto
<1>11. CASE MarkDone(w)
  <2>1. cur[w] \in Jobs /\ env[w].job = cur[w] /\ cache[cur[w]] # None /\ cache[cur[w]].body = "good"
        /\ pc'[w] = "arcResult" /\ UNCHANGED <<cur, cache>> /\ status'[cur[w]] = "done"
    BY <1>11 DEF MarkDone, Goto, SetStatus, SoleInv, Written, IInv, TypeOK, Judged, Verified, Held
  <2>2. InIngest(w)' /\ Written(w)'
    BY <2>1 DEF InIngest, Written, Reading, Agrees
  <2> QED BY <1>7, <1>11, <2>2 DEF MarkDone, Goto
<1>12. CASE StoreBlank(w)
  <2>1. cur[w] \in Jobs /\ status[cur[w]] = "refused" /\ pc'[w] = "arcResult" /\ UNCHANGED <<cur, status>>
        /\ cache'[cur[w]] # None /\ cache'[cur[w]].body = "refused"
    BY <1>1, <1>12, NoneAssumption
       DEF StoreBlank, Goto, Upsert, SoleInv, Written, IInv, TypeOK, Judged, Verified, Held, Row
  <2>2. InIngest(w)' /\ Written(w)'
    BY <2>1 DEF InIngest, Written, Reading, Agrees
  <2> QED BY <1>8, <1>12, <2>2 DEF StoreBlank, Goto
<1>13. CASE Store(w)
  <2>1. cur[w] \in Jobs /\ status[cur[w]] \in {"pending", "error"} /\ pc'[w] = "markDone" /\ UNCHANGED <<cur, status>>
        /\ cache'[cur[w]] # None /\ cache'[cur[w]].body = "good"
    BY <1>1, <1>13, NoneAssumption
       DEF Store, Goto, Upsert, SoleInv, Written, IInv, TypeOK, Judged, Verified, Held, Row
  <2>2. InIngest(w)' /\ Written(w)'
    BY <2>1 DEF InIngest, Written, Reading, Agrees
  <2> QED BY <1>8, <1>13, <2>2 DEF Store, Goto
<1>14. CASE ArchiveResult(w)
  <2>1. /\ cur[w] \in Jobs /\ Agrees(cur[w]) /\ status[cur[w]] \notin {"none", "pending"}
        /\ pc[w] = "arcResult" /\ pc'[w] = "arcJob"
        /\ UNCHANGED <<status, cache, jobFiles, toPlan, planning, todo, desk, names, cur>>
        /\ results'[cur[w]] = None /\ \A i \in Jobs \ {cur[w]} : results'[i] = results[i]
    BY <1>14 DEF ArchiveResult, MoveResult, Goto, SoleInv, Written, Reading, IInv, TypeOK
  <2>2. Settled'
    BY <2>1 DEF SoleInv, Settled, Agrees, Answering
  <2>3. (Offered /\ Planned /\ Answered)'
    BY <2>1 DEF SoleInv, Offered, Planned, Answered, Answers
  <2>4. (Drained(w) /\ Listed(w) /\ Written(w))'
    BY <2>1 DEF SoleInv, Drained, Listed, Written, Reading, InIngest, Answers, OnDisk, Agrees
  <2> QED BY <1>1, <1>2, <2>2, <2>3, <2>4 DEF SoleInv
<1>15. CASE ArchiveJob(w)
  <2>1. /\ cur[w] \in Jobs /\ Agrees(cur[w]) /\ status[cur[w]] \notin {"none", "pending"} /\ results[cur[w]] = None
        /\ pc[w] = "arcJob" /\ pc'[w] = "ingest" /\ cur'[w] = None
        /\ UNCHANGED <<status, cache, results, toPlan, planning, todo, desk, names>>
        /\ jobFiles' = jobFiles \ {cur[w]}
    BY <1>15 DEF ArchiveJob, NextFile, SoleInv, Written, Reading, IInv, TypeOK
  <2>2. Settled'
    BY <1>2, <2>1 DEF SoleInv, Settled, Agrees, Answering
  <2>3. (Offered /\ Planned /\ Answered)'
    BY <2>1 DEF SoleInv, Offered, Planned, Answered, Answers, Listed, InIngest
  <2>4. (Drained(w) /\ Listed(w) /\ Written(w))'
    BY <2>1, NoneAssumption
       DEF SoleInv, Drained, Listed, Written, Reading, InIngest, Answers, OnDisk, IInv, TypeOK
  <2> QED BY <1>1, <1>2, <2>2, <2>3, <2>4 DEF SoleInv
<1>16. CASE IngestEnd(w)
  <2>1. /\ pc[w] = "ingest" /\ pc'[w] = "idle" /\ names[w] = {}
        /\ UNCHANGED <<status, cache, jobFiles, results, toPlan, planning, todo, desk, names, cur>>
    BY <1>16 DEF IngestEnd, SoleInv, IInv, TypeOK
  <2>2. (Settled /\ Offered /\ Planned /\ Answered)'
    BY <2>1 DEF SoleInv, Settled, Offered, Planned, Answered, Answers, Agrees, Answering
  <2>3. (Drained(w) /\ Listed(w) /\ Written(w))'
    BY <2>1 DEF SoleInv, Drained, Listed, Written, Reading, InIngest, Answers, OnDisk
  <2> QED BY <1>1, <1>2, <2>2, <2>3 DEF SoleInv
<1> QED BY <1>4, <1>5, <1>6, <1>9, <1>10, <1>11, <1>12, <1>13, <1>14, <1>15, <1>16 DEF Ingest

LEMMA NextSoleInv == Sole /\ SoleInv /\ [Next]_vars => SoleInv'
<1> SUFFICES ASSUME Sole, SoleInv, [Next]_vars PROVE SoleInv'
  OBVIOUS
<1>1. CASE UNCHANGED vars
  <2>1. IInv'
    BY <1>1, NextIInv DEF SoleInv
  <2>2. (Settled /\ Offered /\ Planned /\ Answered)'
    BY <1>1 DEF SoleInv, Settled, Offered, Planned, Answered, Answers, Agrees, Answering
  <2>3. \A w \in Workers : (Drained(w) /\ Listed(w) /\ Written(w))'
    BY <1>1 DEF SoleInv, Drained, Listed, Written, Reading, InIngest, Answers, OnDisk, Agrees
  <2> QED BY <2>1, <2>2, <2>3 DEF SoleInv
<1>2. CASE Plan
  BY <1>2, PlanKeepsSole
<1>3. CASE PlannerCrash \/ \E w \in Workers : Crash(w) \/ Launch(w)
  BY <1>3 DEF PlannerCrash, Crash, Launch, Sole, SoleInv, Written
<1>4. ASSUME NEW w \in Workers, Turn(w), Ask(w) \/ AgentExit(w) \/ Drain(w) PROVE SoleInv'
  BY <1>4, DrainKeepsSole
<1>5. ASSUME NEW w \in Workers, Turn(w), Ingest(w) PROVE SoleInv'
  BY <1>5, IngestKeepsSole
<1>6. ASSUME NEW w \in Workers, Agent(w) PROVE SoleInv'
  BY <1>6, AgentKeepsSole
<1> QED BY <1>1, <1>2, <1>3, <1>4, <1>5, <1>6 DEF Next

\* What the planner takes for cached (planAnalysis skips it) reads as a payload or
\* as a refusal: no answered analysis is lost to its readers.
THEOREM CachedReads ==
    ASSUME Sole
    PROVE  Spec => []CachedIsReadable
<1>1. SoleInv => CachedIsReadable
  <2> SUFFICES ASSUME SoleInv, NEW j \in Jobs, cache[j] # None, AtRest(j)
               PROVE  View(j) \in {"ok", "refused"}
    BY DEF CachedIsReadable
  <2>1. Agrees(j) /\ cache[j].job = j
    BY DEF AtRest, SoleInv, Settled, Answering, IInv, CacheOwned
  <2> QED BY <2>1 DEF Agrees, View
<1> QED BY <1>1, InitSoleInv, NextSoleInv, PTL DEF Spec

\* The files in jobs/ are what is open (listJobFiles): a pending row
\* has one or gets one next, and a job that is done or refused has none left.
THEOREM OpenIsOffered ==
    ASSUME Sole
    PROVE  Spec => []OfferedIsOpen
<1>1. SoleInv => OfferedIsOpen
  BY DEF SoleInv, Offered, Settled, Agrees, Answering, AtRest, OfferedIsOpen
<1> QED BY <1>1, InitSoleInv, NextSoleInv, PTL DEF Spec

-----------------------------------------------------------------------------
(* Every step is a verdict of the ledger, or nothing to it. *)

Settlement(j) == IF status[j] = "done" THEN cache[j] ELSE None

\* A step that leaves what a reader of the ledger sees leaves the ledger.
LEMMA Unseen ==
    ASSUME \A j \in Jobs : Verdict(j)' = Verdict(j) /\ Settlement(j)' = Settlement(j)
    PROVE  UNCHANGED Ledger!vars
BY DEF Ledger!vars, Settlement

\* A step that changes one verdict updates the ledger there.
LEMMA SeenAt ==
    ASSUME NEW j \in Jobs, NEW v, NEW p, Verdict(j)' = v, Settlement(j)' = p,
           \A i \in Jobs \ {j} : Verdict(i)' = Verdict(i) /\ Settlement(i)' = Settlement(i)
    PROVE  /\ [i \in Jobs |-> Verdict(i)]' = [[i \in Jobs |-> Verdict(i)] EXCEPT ![j] = v]
           /\ [i \in Jobs |-> Settlement(i)]' = [[i \in Jobs |-> Settlement(i)] EXCEPT ![j] = p]
OBVIOUS

LEMMA StepsAreVerdicts == Sole /\ SoleInv /\ [Next]_vars => [Ledger!Next]_(Ledger!vars)
<1> SUFFICES ASSUME Sole, SoleInv, [Next]_vars PROVE [Ledger!Next]_(Ledger!vars)
  OBVIOUS
<1>1. CASE UNCHANGED dbVars
  BY <1>1, Unseen DEF Verdict, Settlement
<1>2. CASE Plan
  <2>1. CASE PlanInsert
    <3>1. PICK i \in toPlan : status' = [status EXCEPT ![i] = IF @ = "none" THEN "pending" ELSE @]
                            /\ UNCHANGED cache
      BY <2>1 DEF PlanInsert
    <3>2. ASSUME NEW j \in Jobs PROVE Verdict(j)' = Verdict(j) /\ Settlement(j)' = Settlement(j)
      BY <3>1 DEF Verdict, Settlement, SoleInv, IInv, TypeOK
    <3> QED BY <3>2, Unseen
  <2> QED BY <1>1, <1>2, <2>1 DEF Plan, PlanStart, PlanWrite
<1>3. CASE PlannerCrash \/ \E w \in Workers : Crash(w) \/ Launch(w) \/ Agent(w)
  BY <1>1, <1>3 DEF PlannerCrash, Crash, Launch, Agent, AgentAnswer, AgentStray, AgentWrite
<1>4. ASSUME NEW w \in Workers, Ask(w) \/ AgentExit(w) \/ Drain(w)
      PROVE  UNCHANGED dbVars
  BY <1>4 DEF Ask, AgentExit, Drain, StartOllama, StartClaude, IngestStart, OllamaAnswer, OllamaFail, CopyBack
<1>5. ASSUME NEW w \in Workers, Ingest(w)
      PROVE  [Ledger!Next]_(Ledger!vars)
  <2>1. CASE Refuse(w) \/ Fail(w) \/ MarkDone(w)
    <3>1. PICK j \in Jobs : j = cur[w] /\ env[w].job = j /\ status[j] \in {"pending", "error"} /\ UNCHANGED cache
      BY <2>1 DEF Refuse, Fail, MarkDone, SetStatus, SoleInv, Written, IInv, Judged, Verified, Held
    <3>2. \A i \in Jobs \ {j} : status'[i] = status[i]
      BY <2>1, <3>1 DEF Refuse, Fail, MarkDone, SetStatus, SoleInv, IInv, TypeOK
    <3>3. \A i \in Jobs \ {j} : Verdict(i)' = Verdict(i) /\ Settlement(i)' = Settlement(i)
      BY <3>1, <3>2 DEF Verdict, Settlement
    <3>4. Verdict(j) \in {"open", "failed"} /\ Settlement(j) = None
      BY <3>1 DEF Verdict, Settlement
    <3>5. CASE Refuse(w)
      <4>1. status'[j] = "refused"
        BY <3>1, <3>5 DEF Refuse, SetStatus, SoleInv, IInv, TypeOK
      <4>2. Verdict(j)' = "refused" /\ Settlement(j)' = None
        BY <3>1, <4>1 DEF Verdict, Settlement
      <4>3. [i \in Jobs |-> Verdict(i)]' = [[i \in Jobs |-> Verdict(i)] EXCEPT ![j] = "refused"]
        BY <3>3, <4>2, SeenAt
      <4>4. [i \in Jobs |-> Settlement(i)]' = [i \in Jobs |-> Settlement(i)]
        BY <3>3, <3>4, <4>2
      <4>5. Ledger!Refuse(j)
        BY <3>4, <4>3, <4>4 DEF Ledger!Refuse, Ledger!Unsettled, Settlement
      <4> QED BY <3>1, <4>5 DEF Ledger!Next
    <3>6. CASE Fail(w)
      <4>1. status'[j] = "error"
        BY <3>1, <3>6 DEF Fail, SetStatus, SoleInv, IInv, TypeOK
      <4>2. Verdict(j)' = "failed" /\ Settlement(j)' = None
        BY <3>1, <4>1 DEF Verdict, Settlement
      <4>3. [i \in Jobs |-> Verdict(i)]' = [[i \in Jobs |-> Verdict(i)] EXCEPT ![j] = "failed"]
        BY <3>3, <4>2, SeenAt
      <4>4. [i \in Jobs |-> Settlement(i)]' = [i \in Jobs |-> Settlement(i)]
        BY <3>3, <3>4, <4>2
      <4>5. Ledger!Fail(j)
        BY <3>4, <4>3, <4>4 DEF Ledger!Fail, Ledger!Unsettled, Settlement
      <4> QED BY <3>1, <4>5 DEF Ledger!Next
    <3>7. CASE MarkDone(w)
      <4>1. status'[j] = "done" /\ cache[j] \in Row
        BY <3>1, <3>7 DEF MarkDone, SetStatus, SoleInv, IInv, TypeOK, Written
      <4>2. Verdict(j)' = "good" /\ Settlement(j)' = cache[j]
        BY <3>1, <4>1 DEF Verdict, Settlement
      <4>3. [i \in Jobs |-> Verdict(i)]' = [[i \in Jobs |-> Verdict(i)] EXCEPT ![j] = "good"]
        BY <3>3, <4>2, SeenAt
      <4>4. [i \in Jobs |-> Settlement(i)]' = [[i \in Jobs |-> Settlement(i)] EXCEPT ![j] = cache[j]]
        BY <3>3, <4>2, SeenAt
      <4>5. Ledger!Accept(j)
        BY <3>4, <4>1, <4>3, <4>4 DEF Ledger!Accept, Ledger!Unsettled, Settlement
      <4> QED BY <3>1, <4>5 DEF Ledger!Next
    <3> QED BY <2>1, <3>5, <3>6, <3>7
  <2>2. CASE StoreBlank(w) \/ Store(w)
    <3>1. PICK j \in Jobs : j = cur[w] /\ status[j] # "done" /\ UNCHANGED status /\ \A i \in Jobs \ {j} : cache'[i] = cache[i]
      BY <2>2, SMTT(30) DEF StoreBlank, Store, Upsert, SoleInv, Written, IInv, TypeOK, Judged, Verified, Held
    <3>2. \A i \in Jobs : Verdict(i)' = Verdict(i) /\ Settlement(i)' = Settlement(i)
      BY <3>1 DEF Verdict, Settlement
    <3> QED BY <3>2, Unseen
  <2>3. CASE Disown(w)
    BY <2>3 DEF Disown, SoleInv, Written
  <2> QED BY <1>1, <1>5, <2>1, <2>2, <2>3
          DEF Ingest, IngestStart, ReadResult, Shelve, QuarantineResult, QuarantineJob, MoveResult,
              ArchiveResult, ArchiveJob, IngestEnd
<1> QED BY <1>1, <1>2, <1>3, <1>4, <1>5 DEF Next

\* What ingestResults and planAnalysis do to the two tables is, for their readers, a
\* ledger of verdicts: a failed analysis may be tried again, a refusal or a good
\* answer is final, and the payload of a good answer never changes.
THEOREM ImplementsLedger ==
    ASSUME Sole
    PROVE  Spec => LedgerSpec
<1>1. Init => Ledger!Init
  BY DEF Init, Ledger!Init, Verdict
<1> QED BY <1>1, InitSoleInv, NextSoleInv, StepsAreVerdicts, PTL DEF Spec, LedgerSpec, Ledger!Spec

-----------------------------------------------------------------------------
(* The paid batch *)

USE DEF dbVars, fileVars, planVars, drainVars, ingestVars, vars, collectorVars, batchVars, allVars

\* One collector and nobody else drains; it never passes --resubmit, collects
\* what the note holds, and nothing is planned while it ingests.
Alone ==
    /\ Workers = Collectors /\ \A c, d \in Collectors : c = d
    /\ Resubmits = FALSE /\ Recollects = FALSE /\ PlansOverlap = FALSE

JobsOf(b) == batches[b].jobs

\* Answer j of batch b was worth its price.
Paid(b, j) == batches[b].answers[j] # "bad"

Done(j) == cache[j] # None /\ j \notin jobFiles

\* What was paid for in batch b is cached, and no plan brings it back.
Through(b) ==
    /\ batches[b].answers # None
    /\ \A j \in JobsOf(b) : Paid(b, j) => Done(j) /\ j \notin toPlan /\ planning # j

\* How far the ingest of collector c is with answer j of its batch.
Taken(c, j) ==
    \/ cur[c] # j /\ j \in names[c] /\ results[j] = Own(j, batches[batch[c]].answers[j])
    \/ /\ cur[c] = j
       /\ pc[c] \in {"refuse", "blank", "store", "markDone", "arcResult", "arcJob"}
       /\ pc[c] \in {"markDone", "arcResult", "arcJob"} => cache[j] # None
    \/ cur[c] # j /\ j \notin names[c] /\ Done(j)

Typed ==
    /\ batches \in Seq(Batch) /\ Len(batches) <= MaxBatches
    /\ stateFile \in Ids \cup {None}
    /\ at \in [Collectors -> {"off", "submit", "save", "list", "poll", "write", "ingest"}]
    /\ batch \in [Collectors -> Ids \cup {None}]
    /\ left \in [Collectors -> SUBSET Jobs]
    /\ known \in [Collectors -> SUBSET Jobs]

\* Every file in results/ is the answer of the job it is named after, every
\* job file has its row, and no job that was submitted is out of sight.
Filed ==
    /\ \A n \in Jobs : results[n] # None => \E x \in Bodies : results[n] = Own(n, x)
    /\ \A j \in Jobs : j \in jobFiles \/ planning = j => status[j] # "none"
    /\ \A b \in DOMAIN batches : \A j \in JobsOf(b) : j \in jobFiles \cup archived /\ status[j] # "none"

Noted ==
    /\ stateFile # None => stateFile \in DOMAIN batches
    /\ \A b \in DOMAIN batches : batches[b].told /\ b # stateFile => Through(b)

NeverTwice ==
    \A b \in DOMAIN batches : \A a \in 1..(b - 1) :
        batches[a].told => batches[a].answers # None /\ \A j \in JobsOf(a) \cap JobsOf(b) : ~Paid(a, j)

Submitting(c) ==
    /\ at[c] \in {"off", "submit"} => batch[c] = None
    /\ at[c] \in {"submit", "save"} => stateFile = None
    /\ at[c] = "submit" => left[c] \subseteq jobFiles
    /\ at[c] = "save" => batch[c] = Len(batches) /\ Len(batches) # 0

Collecting(c) ==
    /\ at[c] \in {"list", "poll", "write", "ingest"} => stateFile # None /\ batch[c] = stateFile
    /\ at[c] \in {"poll", "write"} => JobsOf(batch[c]) \subseteq known[c]
    /\ at[c] \in {"write", "ingest"} => batches[batch[c]].answers # None
    /\ at[c] = "write" =>
          \A j \in JobsOf(batch[c]) \ left[c] : results[j] = Own(j, batches[batch[c]].answers[j])

Ingesting(c) ==
    /\ at[c] # "ingest" => pc[c] = "idle"
    /\ pc[c] \in {"idle", "ingest"} => cur[c] = None
    /\ pc[c] = "idle" => names[c] = {}
    /\ names[c] \subseteq Jobs /\ cur[c] \notin names[c]
    /\ pc[c] \in {"idle", "ingest", "shelve", "refuse", "blank", "fail", "store", "markDone", "arcResult", "arcJob"}
    /\ at[c] = "ingest" => /\ toPlan = {} /\ planning = None
                           /\ \A j \in JobsOf(batch[c]) : Paid(batch[c], j) => Taken(c, j)

BInv ==
    /\ IInv /\ Typed /\ Filed /\ Noted /\ NeverTwice
    /\ \A c \in Collectors : Submitting(c) /\ Collecting(c) /\ Ingesting(c)

-----------------------------------------------------------------------------
(* A batch at the provider: how its record changes. *)

\* A batch that has ended is the same but for its answers.
LEMMA EndedBatch ==
    ASSUME NEW s \in Seq(Batch), NEW b \in DOMAIN s, NEW f \in [Jobs -> Bodies],
           NEW t, t = [s EXCEPT ![b].answers = f]
    PROVE  /\ t \in Seq(Batch) /\ Len(t) = Len(s)
           /\ t[b].jobs = s[b].jobs /\ t[b].told = s[b].told /\ t[b].answers = f
           /\ \A i \in DOMAIN s \ {b} : t[i] = s[i]
<1> DEFINE r == [s[b] EXCEPT !.answers = f]
<1>1. s[b] \in Batch /\ t = [s EXCEPT ![b] = r]
  OBVIOUS
<1>2. r \in Batch /\ r.jobs = s[b].jobs /\ r.told = s[b].told /\ r.answers = f
  BY <1>1 DEF Batch
<1> HIDE DEF r
<1> QED BY <1>1, <1>2

\* A batch whose id was printed is the same but for that.
LEMMA ToldBatch ==
    ASSUME NEW x \in Batch, NEW yes \in BOOLEAN, NEW r, r = [x EXCEPT !.told = yes]
    PROVE  r \in Batch /\ r.jobs = x.jobs /\ r.answers = x.answers
BY DEF Batch

-----------------------------------------------------------------------------
LEMMA InitBInv == Alone /\ BatchInit => BInv
<1> SUFFICES ASSUME Alone, BatchInit PROVE BInv
  OBVIOUS
<1>1. IInv
  BY InitIInv DEF BatchInit
<1>2. Typed
  BY MaxBatchesAssumption DEF BatchInit, Typed
<1>3. Filed /\ Noted /\ NeverTwice
  BY NoneAssumption DEF BatchInit, Init, EmptyDir, Filed, Noted, NeverTwice
<1>4. ASSUME NEW c \in Collectors PROVE Submitting(c) /\ Collecting(c) /\ Ingesting(c)
  BY <1>4 DEF BatchInit, Init, Alone, Submitting, Collecting, Ingesting
<1> QED BY <1>1, <1>2, <1>3, <1>4 DEF BInv

\* A step that touches neither the airlock nor the provider.
LEMMA QuietStep ==
    ASSUME BInv, UNCHANGED <<vars, batches>>
    PROVE  IInv' /\ Filed' /\ NeverTwice' /\ \A b : Through(b) => Through(b)'
<1>1. IInv'
  BY NextIInv DEF BInv
<1>2. Filed'
  BY DEF BInv, Filed, JobsOf
<1>3. NeverTwice'
  BY DEF BInv, NeverTwice, JobsOf, Paid
<1>4. \A b : Through(b) => Through(b)'
  BY DEF Through, JobsOf, Paid, Done
<1> QED BY <1>1, <1>2, <1>3, <1>4

\* What a collector submits are job files, and with no note in the way every
\* batch that was told is through: none of what was paid for is among them.
LEMMA SubmittingKeeps ==
    ASSUME Alone, BInv, NEW c \in Collectors,
           (\E only \in {Local, Jobs}, again \in {FALSE, Resubmits} : Check(c, only, again)) \/ Submit(c) \/ Save(c)
    PROVE  BInv'
<1>1. \A d \in Collectors : d = c
  BY DEF Alone
<1>2. CASE \E only \in {Local, Jobs}, again \in {FALSE, Resubmits} : Check(c, only, again)
  <2>1. /\ at[c] = "off" /\ stateFile = None /\ at' = [at EXCEPT ![c] = "submit"]
        /\ left'[c] \subseteq jobFiles /\ left' \in [Collectors -> SUBSET Jobs]
        /\ UNCHANGED <<vars, batches, stateFile, batch, known>>
    <3>1. PICK only \in {Local, Jobs} : Check(c, only, FALSE)
      BY <1>2 DEF Alone
    <3>2. Pending \cap only \subseteq jobFiles /\ jobFiles \subseteq Jobs
      BY DEF BInv, IInv, TypeOK, Pending
    <3> QED BY <3>1, <3>2 DEF Check, BInv, Typed
  <2>2. (Typed /\ Noted)'
    BY <2>1, QuietStep DEF BInv, Typed, Noted
  <2>3. (Submitting(c) /\ Collecting(c) /\ Ingesting(c))'
    BY <2>1 DEF BInv, Typed, Submitting, Collecting, Ingesting
  <2> QED BY <1>1, <2>1, <2>2, <2>3, QuietStep DEF BInv
<1>3. CASE Submit(c)
  <2>0. PICK b \in Nat : b = Len(batches) + 1
    BY DEF BInv, Typed
  <2>1. /\ at[c] = "submit" /\ stateFile = None /\ left[c] \subseteq jobFiles /\ left[c] \subseteq Jobs
        /\ at' = [at EXCEPT ![c] = "save"] /\ left' = [left EXCEPT ![c] = {}]
        /\ UNCHANGED <<vars, stateFile, known>> /\ b \in Ids /\ Len(batches) \in Nat
    <3>1. at[c] = "submit"
      BY <1>3 DEF Submit, BInv, Typed
    <3>2. Len(batches) \in Nat /\ b \in Ids
      BY <1>3, <2>0, MaxBatchesAssumption DEF Submit, BInv, Typed, Ids
    <3>3. left[c] \subseteq jobFiles /\ left[c] \subseteq Jobs /\ stateFile = None
      BY <3>1 DEF BInv, Typed, Submitting
    <3> QED BY <1>3, <3>1, <3>2, <3>3 DEF Submit
  <2>2. /\ batches' \in Seq(Batch) /\ Len(batches') = b /\ JobsOf(b)' = left[c]
        /\ batches'[b].told = FALSE /\ \A i \in DOMAIN batches : batches'[i] = batches[i]
        /\ DOMAIN batches' = DOMAIN batches \cup {b}
        /\ batch' = [batch EXCEPT ![c] = b]
    <3> DEFINE r == [jobs |-> left[c], again |-> at[c] = "resubmit", told |-> FALSE, answers |-> None]
    <3>1. batches' = Append(batches, r) /\ batch' = [batch EXCEPT ![c] = Len(batches')]
      BY <1>3 DEF Submit
    <3>2. r \in Batch /\ r.jobs = left[c] /\ r.told = FALSE
      BY <2>1 DEF Batch
    <3> HIDE DEF r
    <3>3. batches \in Seq(Batch)
      BY DEF BInv, Typed
    <3>4. batches' \in Seq(Batch) /\ Len(batches') = b /\ DOMAIN batches = 1..Len(batches) /\ DOMAIN batches' = 1..b
          /\ batches'[b] = r /\ \A i \in 1..Len(batches) : batches'[i] = batches[i]
      BY <2>0, <3>1, <3>2, <3>3
    <3> QED BY <2>0, <2>1, <3>1, <3>2, <3>4 DEF JobsOf
  <2>3. \A a \in DOMAIN batches : Through(a) => Through(a)'
    BY <2>1, <2>2 DEF Through, JobsOf, Paid, Done
  <2>4. IInv' /\ Typed'
    BY <2>0, <2>1, <2>2, NextIInv DEF BInv, Typed, Ids
  <2>5. Filed'
    BY <2>1, <2>2 DEF BInv, Filed, JobsOf
  <2>6. Noted'
    BY <2>1, <2>2, <2>3 DEF BInv, Noted
  <2>7. NeverTwice'
    <3>1. ASSUME NEW a \in 1..(b - 1), batches'[a].told
          PROVE  batches'[a].answers # None /\ \A j \in JobsOf(a)' \cap left[c] : ~Paid(a, j)'
      <4>1. a \in DOMAIN batches /\ a # stateFile /\ batches[a] = batches'[a]
        BY <2>0, <2>1, <2>2, MaxBatchesAssumption DEF BInv, Typed, Ids
      <4>2. Through(a)
        BY <3>1, <4>1 DEF BInv, Noted
      <4> QED BY <2>1, <4>1, <4>2 DEF Through, JobsOf, Paid, Done
    <3>2. ASSUME NEW x \in DOMAIN batches, NEW a \in 1..(x - 1), batches'[a].told
          PROVE  batches'[a].answers # None /\ \A j \in JobsOf(a)' \cap JobsOf(x)' : ~Paid(a, j)'
      <4>1. a \in DOMAIN batches
        BY DEF BInv, Typed
      <4> QED BY <2>2, <3>2, <4>1 DEF BInv, NeverTwice, JobsOf, Paid
    <3> QED BY <2>2, <3>1, <3>2 DEF NeverTwice
  <2>8. (Submitting(c) /\ Collecting(c) /\ Ingesting(c))'
    BY <2>0, <2>1, <2>2 DEF BInv, Typed, Submitting, Collecting, Ingesting
  <2> QED BY <1>1, <2>4, <2>5, <2>6, <2>7, <2>8 DEF BInv
<1>4. CASE Save(c)
  <2>0. PICK b \in Nat : b = Len(batches)
    BY DEF BInv, Typed
  <2>1. /\ at[c] = "save" /\ stateFile = None /\ batch[c] = b /\ b # 0 /\ b \in DOMAIN batches
        /\ b \in Ids /\ stateFile' = b /\ at' = [at EXCEPT ![c] = "list"] /\ UNCHANGED <<vars, batch, left, known>>
        /\ batches' = [batches EXCEPT ![b].told = TRUE] /\ batches \in Seq(Batch)
    <3>1. at[c] = "save" /\ stateFile = None /\ batch[c] = b /\ b # 0
      BY <1>4, <2>0 DEF Save, BInv, Submitting
    <3>2. b \in DOMAIN batches /\ b \in Ids
      BY <2>0, <3>1, MaxBatchesAssumption DEF BInv, Typed, Ids
    <3> QED BY <1>4, <3>1, <3>2 DEF Save, BInv, Typed
  <2>2. /\ batches' \in Seq(Batch) /\ Len(batches') = b /\ DOMAIN batches' = DOMAIN batches
        /\ batches'[b].jobs = batches[b].jobs
        /\ \A i \in DOMAIN batches \ {b} : batches'[i] = batches[i]
    <3>0. PICK i \in DOMAIN batches : i = b
      BY <2>1
    <3>1. batches' \in Seq(Batch) /\ Len(batches') = Len(batches) /\ batches'[i].jobs = batches[i].jobs
          /\ \A k \in DOMAIN batches \ {i} : batches'[k] = batches[k]
      <4> DEFINE r == [batches[i] EXCEPT !.told = TRUE]
      <4>1. batches[i] \in Batch /\ batches' = [batches EXCEPT ![i] = r]
        BY <2>1, <3>0
      <4>2. r \in Batch /\ r.jobs = batches[i].jobs
        <5>1. \A x \in Batch, yes \in BOOLEAN : \A q : q = [x EXCEPT !.told = yes] => q \in Batch /\ q.jobs = x.jobs
          BY ToldBatch
        <5>2. PICK yes \in BOOLEAN : r = [batches[i] EXCEPT !.told = yes]
          OBVIOUS
        <5> HIDE DEF r
        <5> QED BY <4>1, <5>1, <5>2
      <4> HIDE DEF r
      <4>3. batches \in Seq(Batch)
        BY DEF BInv, Typed
      <4> QED BY <4>1, <4>2, <4>3
    <3> QED BY <2>0, <2>1, <3>0, <3>1
  <2>3. \A a \in DOMAIN batches \ {b} : Through(a) => Through(a)'
    BY <2>1, <2>2 DEF Through, JobsOf, Paid, Done
  <2>4. IInv' /\ Typed'
    BY <1>4, <2>0, <2>1, <2>2, NextIInv DEF BInv, Typed
  <2>5. Filed'
    BY <2>1, <2>2 DEF BInv, Filed, JobsOf
  <2>6. Noted'
    BY <2>1, <2>2, <2>3, MaxBatchesAssumption DEF BInv, Noted, Ids
  <2>7. NeverTwice'
    BY <2>0, <2>1, <2>2 DEF BInv, NeverTwice, Typed, JobsOf, Paid
  <2>8. (Submitting(c) /\ Collecting(c) /\ Ingesting(c))'
    BY <2>0, <2>1, <2>2, MaxBatchesAssumption DEF BInv, Typed, Submitting, Collecting, Ingesting, Ids
  <2> QED BY <1>1, <2>4, <2>5, <2>6, <2>7, <2>8 DEF BInv
<1> QED BY <1>2, <1>3, <1>4

\* The provider ends a batch once, while nothing rests on its answers yet.
LEMMA EndingKeeps ==
    ASSUME Alone, BInv, NEW b \in DOMAIN batches, ProviderEnds(b)
    PROVE  BInv'
<1>1. PICK f \in [Jobs -> Bodies] : /\ batches[b].answers = None
                                    /\ batches' = [batches EXCEPT ![b].answers = f]
                                    /\ UNCHANGED <<vars, stateFile, collectorVars>>
  BY DEF ProviderEnds
<1>2. batches \in Seq(Batch)
  BY DEF BInv, Typed
<1>3. /\ batches' \in Seq(Batch) /\ Len(batches') = Len(batches) /\ DOMAIN batches' = DOMAIN batches
      /\ batches'[b].jobs = batches[b].jobs /\ batches'[b].told = batches[b].told
      /\ \A i \in DOMAIN batches \ {b} : batches'[i] = batches[i]
  <2>1. /\ batches' \in Seq(Batch) /\ Len(batches') = Len(batches)
        /\ batches'[b].jobs = batches[b].jobs /\ batches'[b].told = batches[b].told
        /\ \A i \in DOMAIN batches \ {b} : batches'[i] = batches[i]
    BY <1>1, <1>2, EndedBatch, SMTT(30)
  <2> QED BY <1>2, <2>1
<1>4. \A a \in DOMAIN batches \ {b} : Through(a) => Through(a)'
  BY <1>1, <1>3 DEF Through, JobsOf, Paid, Done
<1>5. (IInv /\ Typed)'
  BY <1>1, <1>3, NextIInv DEF BInv, Typed
<1>6. Filed'
  BY <1>1, <1>3 DEF BInv, Filed, JobsOf
<1>7. Noted'
  BY <1>1, <1>3, <1>4 DEF BInv, Noted, Through
<1>8. NeverTwice'
  <2>1. ASSUME NEW x \in DOMAIN batches, NEW a \in 1..(x - 1), batches'[a].told
        PROVE  batches'[a].answers # None /\ \A j \in JobsOf(a)' \cap JobsOf(x)' : ~Paid(a, j)'
    <3>1. a \in DOMAIN batches
      BY <1>2
    <3>2. a # b
      BY <1>1, <1>3, <2>1, <3>1 DEF BInv, NeverTwice
    <3>3. batches'[a] = batches[a] /\ JobsOf(x)' = JobsOf(x)
      BY <1>3, <3>1, <3>2 DEF JobsOf
    <3> QED BY <2>1, <3>3 DEF BInv, NeverTwice, JobsOf, Paid
  <2> QED BY <1>3, <2>1 DEF NeverTwice
<1>9. ASSUME NEW c \in Collectors PROVE (Submitting(c) /\ Collecting(c) /\ Ingesting(c))'
  <2>1. Submitting(c)'
    BY <1>1, <1>3 DEF BInv, Submitting
  <2>2. batch[c] \in DOMAIN batches => JobsOf(batch[c])' = JobsOf(batch[c])
    BY <1>1, <1>3 DEF JobsOf
  <2>3. at[c] \in {"write", "ingest"} => batch[c] \in DOMAIN batches /\ batches'[batch[c]] = batches[batch[c]]
    BY <1>1, <1>3 DEF BInv, Noted, Collecting
  <2>4. Collecting(c)'
    BY <1>1, <2>2, <2>3 DEF BInv, Collecting, Noted, JobsOf
  <2>5. Ingesting(c)'
    <3>1. CASE at[c] # "ingest"
      BY <1>1, <3>1 DEF BInv, Ingesting
    <3>2. CASE at[c] = "ingest"
      <4>1. batches'[batch[c]] = batches[batch[c]]
        BY <2>3, <3>2
      <4>2. JobsOf(batch[c])' = JobsOf(batch[c]) /\ \A j \in Jobs : Paid(batch[c], j)' = Paid(batch[c], j)
        BY <1>1, <4>1 DEF JobsOf, Paid
      <4>3. \A j \in Jobs : Taken(c, j) => Taken(c, j)'
        BY <1>1, <4>1 DEF Taken, Done
      <4>4. JobsOf(batch[c]) \subseteq Jobs
        <5>1. batches[batch[c]] \in Batch
          BY <1>2, <2>3, <3>2
        <5> QED BY <5>1 DEF Batch, JobsOf
      <4> QED BY <1>1, <3>2, <4>2, <4>3, <4>4 DEF BInv, Ingesting
    <3> QED BY <3>1, <3>2
  <2> QED BY <2>1, <2>4, <2>5
<1> QED BY <1>5, <1>6, <1>7, <1>8, <1>9 DEF BInv

\* Collecting what the note holds, until every answer lies in results/.
LEMMA CollectingKeeps ==
    ASSUME Alone, BInv, NEW c \in Collectors,
           (\E b \in DOMAIN batches : Collect(c, b)) \/ ReadJobs(c) \/ PollEnd(c) \/ WriteEntry(c) \/ ApiFails(c)
    PROVE  BInv'
<1>1. \A d \in Collectors : d = c
  BY DEF Alone
<1>2. CASE \E b \in DOMAIN batches : Collect(c, b)
  <2>1. PICK b \in DOMAIN batches : /\ at[c] = "off" /\ stateFile = b /\ b \in Ids
                                    /\ batch' = [batch EXCEPT ![c] = b] /\ at' = [at EXCEPT ![c] = "list"]
                                    /\ UNCHANGED <<vars, batches, stateFile, left, known>>
    <3>1. PICK b \in DOMAIN batches : Collect(c, b)
      BY <1>2
    <3>2. b \in Ids
      BY MaxBatchesAssumption DEF BInv, Typed, Ids
    <3> QED BY <3>1, <3>2 DEF Collect, Alone
  <2>2. (Typed /\ Noted)'
    BY <2>1, QuietStep DEF BInv, Typed, Noted
  <2>3. (Submitting(c) /\ Collecting(c) /\ Ingesting(c))'
    BY <2>1, MaxBatchesAssumption DEF BInv, Typed, Submitting, Collecting, Ingesting, Ids
  <2> QED BY <1>1, <2>1, <2>2, <2>3, QuietStep DEF BInv
<1>3. CASE ReadJobs(c)
  <2>1. /\ at[c] = "list" /\ known' = [known EXCEPT ![c] = jobFiles \cup archived]
        /\ at' = [at EXCEPT ![c] = "poll"] /\ UNCHANGED <<vars, batches, stateFile, batch, left>>
    BY <1>3 DEF ReadJobs
  <2>2. jobFiles \cup archived \subseteq Jobs /\ JobsOf(batch[c]) \subseteq jobFiles \cup archived
    BY <2>1 DEF BInv, IInv, TypeOK, Filed, Noted, Collecting
  <2>3. (Typed /\ Noted)'
    BY <2>1, <2>2, QuietStep DEF BInv, Typed, Noted
  <2>4. (Submitting(c) /\ Collecting(c) /\ Ingesting(c))'
    BY <2>1, <2>2 DEF BInv, Typed, Submitting, Collecting, Ingesting, JobsOf
  <2> QED BY <1>1, <2>1, <2>3, <2>4, QuietStep DEF BInv
<1>4. CASE PollEnd(c)
  <2>1. /\ at[c] = "poll" /\ batches[batch[c]].answers # None /\ left' = [left EXCEPT ![c] = JobsOf(batch[c])]
        /\ at' = [at EXCEPT ![c] = "write"] /\ UNCHANGED <<vars, batches, stateFile, batch, known>>
    BY <1>4 DEF PollEnd, JobsOf
  <2>2. JobsOf(batch[c]) \subseteq Jobs
    BY <2>1 DEF BInv, Typed, Collecting
  <2>3. (Typed /\ Noted)'
    BY <2>1, <2>2, QuietStep DEF BInv, Typed, Noted
  <2>4. (Submitting(c) /\ Collecting(c) /\ Ingesting(c))'
    BY <2>1, <2>2 DEF BInv, Typed, Submitting, Collecting, Ingesting, JobsOf
  <2> QED BY <1>1, <2>1, <2>3, <2>4, QuietStep DEF BInv
<1>5. CASE WriteEntry(c)
  <2>1. /\ at[c] = "write"
        /\ UNCHANGED <<dbVars, jobFiles, archived, planVars, pc, drainVars, ingestVars, batches, stateFile, at, batch, known>>
    BY <1>5 DEF WriteEntry
  <2>2. PICK j \in left[c] : /\ left' = [left EXCEPT ![c] = @ \ {j}]
                             /\ results' = IF j \in known[c]
                                           THEN [results EXCEPT ![j] = Own(j, batches[batch[c]].answers[j])]
                                           ELSE results
    BY <1>5 DEF WriteEntry
  <2>3. /\ j \in Jobs /\ batch[c] \in DOMAIN batches /\ batches[batch[c]] \in Batch
        /\ JobsOf(batch[c]) \subseteq known[c] /\ batches[batch[c]].answers # None
    BY <2>1, <2>2 DEF BInv, Typed, Noted, Collecting
  <2>4. PICK x \in Bodies : x = batches[batch[c]].answers[j]
    BY <2>3 DEF Batch
  <2>5. results' = results \/ results' = [results EXCEPT ![j] = Own(j, x)]
    BY <2>2, <2>4
  <2>6. IInv'
    BY <2>1, <2>5, <2>3, OwnIsEnvelope, SMTT(30) DEF BInv, IInv, TypeOK, Judged, Verified, Held, CacheOwned
  <2>7. (Typed /\ Noted /\ NeverTwice)'
    BY <2>1, <2>2 DEF BInv, Typed, Noted, NeverTwice, Through, JobsOf, Paid, Done
  <2>8. Filed'
    BY <2>1, <2>3, <2>5 DEF BInv, IInv, TypeOK, Filed, JobsOf
  <2>9. Submitting(c)' /\ Ingesting(c)'
    BY <2>1 DEF BInv, Submitting, Ingesting
  <2>10. Collecting(c)'
    BY <2>1, <2>2, <2>3 DEF BInv, IInv, TypeOK, Typed, Collecting, JobsOf
  <2> QED BY <1>1, <2>6, <2>7, <2>8, <2>9, <2>10 DEF BInv
<1>6. CASE ApiFails(c)
  <2>1. /\ at[c] # "ingest" /\ at' = [at EXCEPT ![c] = "off"] /\ batch' = [batch EXCEPT ![c] = None]
        /\ left' = [left EXCEPT ![c] = {}] /\ known' = [known EXCEPT ![c] = {}]
        /\ UNCHANGED <<vars, batches, stateFile>>
    BY <1>6 DEF ApiFails, Forget
  <2>2. (Typed /\ Noted)'
    BY <2>1, QuietStep DEF BInv, Typed, Noted
  <2>3. (Submitting(c) /\ Collecting(c) /\ Ingesting(c))'
    BY <2>1 DEF BInv, Typed, Submitting, Collecting, Ingesting
  <2> QED BY <1>1, <2>1, <2>2, <2>3, QuietStep DEF BInv
<1> QED BY <1>2, <1>3, <1>4, <1>5, <1>6

\* An ingest loses no row and no result of the database, and no job from sight.
LEMMA IngestFrame ==
    ASSUME Alone, BInv, NEW c \in Collectors, at[c] = "ingest", UNCHANGED <<batchVars, planVars>>, IInv',
           \A j \in Jobs : status[j] # "none" => status'[j] # "none",
           \A j \in Jobs : cache[j] # None => cache'[j] # None,
           \A j \in Jobs : results'[j] \in {results[j], None},
           jobFiles' \subseteq jobFiles, jobFiles \subseteq jobFiles' \cup archived', archived \subseteq archived',
           Ingesting(c)'
    PROVE  BInv'
<1>1. \A d \in Collectors : d = c
  BY DEF Alone
<1>2. \A b \in DOMAIN batches : JobsOf(b) \subseteq Jobs
  <2>1. \A b \in DOMAIN batches : batches[b] \in Batch
    BY DEF BInv, Typed
  <2> QED BY <2>1 DEF Batch, JobsOf
<1>3. \A b \in DOMAIN batches : Through(b) => Through(b)'
  BY <1>2 DEF Through, JobsOf, Paid, Done
<1>4. (Typed /\ Noted /\ NeverTwice)'
  BY <1>3 DEF BInv, Typed, Noted, NeverTwice, JobsOf, Paid
<1>5. Filed'
  <2>1. (\A n \in Jobs : results[n] # None => \E x \in Bodies : results[n] = Own(n, x))'
    BY DEF BInv, Filed
  <2>2. (\A j \in Jobs : j \in jobFiles \/ planning = j => status[j] # "none")'
    BY DEF BInv, Filed
  <2>3. (\A b \in DOMAIN batches : \A j \in JobsOf(b) : j \in jobFiles \cup archived /\ status[j] # "none")'
    BY <1>2 DEF BInv, Filed, JobsOf
  <2> QED BY <2>1, <2>2, <2>3 DEF Filed
<1>6. (Submitting(c) /\ Collecting(c))'
  BY DEF BInv, Submitting, Collecting, JobsOf
<1> QED BY <1>1, <1>4, <1>5, <1>6 DEF BInv

\* An answer that was taken stays taken while the ingest works on another file.
LEMMA OthersStayTaken ==
    ASSUME NEW c \in Collectors, NEW j \in Jobs, Taken(c, j), UNCHANGED <<batches, batch>>,
           cur[c] # j, cur'[c] # j, names'[c] \subseteq names[c], names[c] \subseteq names'[c] \cup {cur'[c]},
           cache[j] # None => cache'[j] # None, jobFiles' \subseteq jobFiles, results'[j] = results[j]
    PROVE  Taken(c, j)'
BY DEF Taken, Done

\* The file in hand goes from one write to the next; its answer is in the
\* database before the file is moved.
LEMMA HandMoves ==
    ASSUME Alone, BInv, NEW c \in Collectors, at[c] = "ingest", IInv',
           UNCHANGED <<batchVars, planVars, names, cur, jobFiles, archived>>,
           \A j \in Jobs : status[j] # "none" => status'[j] # "none",
           \A j \in Jobs : cache[j] # None => cache'[j] # None,
           \A j \in Jobs : results'[j] = results[j] \/ (j = cur[c] /\ results'[j] = None),
           pc[c] \notin {"idle", "ingest"}, pc'[c] \in {"blank", "markDone", "arcResult", "arcJob"},
           Taken(c, cur[c]) /\ pc'[c] # "blank" => cache'[cur[c]] # None
    PROVE  BInv'
<1>1. toPlan' = {} /\ planning' = None /\ JobsOf(batch[c])' = JobsOf(batch[c]) /\ JobsOf(batch[c]) \subseteq Jobs
  <2>1. batch[c] \in DOMAIN batches /\ batches[batch[c]] \in Batch
    BY DEF BInv, Typed, Noted, Collecting
  <2> QED BY <2>1 DEF BInv, Ingesting, JobsOf, Batch
<1>2. ASSUME NEW j \in JobsOf(batch[c]), Paid(batch[c], j)' PROVE Taken(c, j)'
  <2>1. Taken(c, j) /\ j \in Jobs
    BY <1>1, <1>2 DEF BInv, Ingesting, Paid
  <2>2. CASE cur[c] = j
    BY <2>1, <2>2 DEF Taken
  <2>3. CASE cur[c] # j
    <3>1. results'[j] = results[j]
      BY <2>1, <2>3
    <3> QED BY <2>1, <2>3, <3>1, OthersStayTaken
  <2> QED BY <2>2, <2>3
<1>3. Ingesting(c)'
  BY <1>1, <1>2 DEF BInv, Ingesting
<1>4. \A j \in Jobs : results'[j] \in {results[j], None}
  OBVIOUS
<1> QED BY <1>3, <1>4, IngestFrame

\* An answer under its own name is refused, stored or failed if its job exists.
LEMMA JudgeOwn ==
    ASSUME NEW n \in Jobs, NEW x \in Bodies
    PROVE  /\ Judge(n, Own(n, x)) \in {"shelve", "refuse", "store", "fail"}
           /\ status[n] # "none" /\ x # "bad" => Judge(n, Own(n, x)) \in {"refuse", "store"}
<1>1. Own(n, x) \in Envelope /\ Own(n, x) \in File
  BY DEF Own, Envelope, File
<1>2. Own(n, x).job = n /\ Own(n, x).hash = n /\ Own(n, x).body = x /\ n # None
  BY NoneAssumption DEF Own
<1>3. ~IsMismatch(n, Own(n, x)) /\ (status[n] # "none" => ~IsUnknown(Own(n, x)))
  BY <1>1, <1>2 DEF IsMismatch, IsUnknown
<1>4. Judge(n, Own(n, x)) \in {"shelve", "refuse", "store", "fail"}
  BY <1>1, <1>3, JudgeCases
<1>5. ASSUME status[n] # "none", x # "bad" PROVE Judge(n, Own(n, x)) \in {"refuse", "store"}
  BY <1>2, <1>3, <1>5 DEF Judge, Bodies
<1> QED BY <1>4, <1>5

LEMMA IngestingKeeps ==
    ASSUME Alone, BInv, NEW c \in Collectors, IngestStep(c)
    PROVE  BInv'
<1>1. at[c] = "ingest" /\ Ingest(c) /\ UNCHANGED batchVars
  BY DEF IngestStep
<1>2. IInv'
  <2>1. Turn(c) /\ c \in Workers
    BY CollectorsAssumption DEF Turn
  <2> QED BY <1>1, <2>1, NextIInv DEF Next, BInv
<1>3. /\ batch[c] \in DOMAIN batches /\ batches[batch[c]] \in Batch /\ batches[batch[c]].answers # None
      /\ toPlan = {} /\ planning = None
  BY <1>1 DEF BInv, Typed, Noted, Collecting, Ingesting
<1>4. JobsOf(batch[c]) \subseteq Jobs /\ batches[batch[c]].answers \in [Jobs -> Bodies]
  BY <1>3 DEF Batch, JobsOf
<1>5. \A j \in JobsOf(batch[c]) : Paid(batch[c], j) => Taken(c, j)
  BY <1>1 DEF BInv, Ingesting
<1>6. /\ c \in Workers /\ cur[c] \in Jobs \cup {None} /\ names[c] \subseteq Jobs
      /\ pc[c] \in {"idle", "ingest", "shelve", "refuse", "blank", "fail", "store", "markDone", "arcResult", "arcJob"}
  BY DEF Alone, BInv, Ingesting, IInv, TypeOK
<1>7. pc[c] \in {"refuse", "blank", "fail", "store", "markDone"} =>
          cur[c] \in Jobs /\ env[c].job = cur[c] /\ env[c].hash = cur[c]
  BY <1>6 DEF BInv, IInv, Judged, Verified, Held
<1>8. ASSUME NEW s \in {"refused", "error", "done"}, pc[c] \in {"refuse", "fail", "markDone"},
             SetStatus(env[c].job, s), Goto(c, IF pc[c] = "refuse" THEN "blank" ELSE "arcResult")
      PROVE  BInv'
  <2>1. /\ UNCHANGED <<cache, fileVars, planVars, names, cur>>
        /\ pc'[c] = IF pc[c] = "refuse" THEN "blank" ELSE "arcResult"
    BY <1>6, <1>8 DEF SetStatus, Goto, BInv, IInv, TypeOK
  <2>2. \A j \in Jobs : status[j] # "none" => status'[j] # "none"
    BY <1>7, <1>8 DEF SetStatus, BInv, IInv, TypeOK
  <2>3. Taken(c, cur[c]) /\ pc'[c] # "blank" => cache'[cur[c]] # None
    BY <1>8, <2>1 DEF Taken
  <2>4. /\ UNCHANGED <<batchVars, planVars, names, cur, jobFiles, archived>>
        /\ \A j \in Jobs : cache[j] # None => cache'[j] # None
        /\ \A j \in Jobs : results'[j] = results[j] \/ (j = cur[c] /\ results'[j] = None)
        /\ pc[c] \notin {"idle", "ingest"} /\ pc'[c] \in {"blank", "markDone", "arcResult", "arcJob"}
    BY <1>1, <1>8, <2>1
  <2> QED BY <1>1, <1>2, <2>2, <2>3, <2>4, HandMoves
<1>9. ASSUME NEW b \in {"good", "refused"}, pc[c] \in {"blank", "store"},
             Upsert(env[c], b), Goto(c, IF pc[c] = "blank" THEN "arcResult" ELSE "markDone")
      PROVE  BInv'
  <2>1. /\ UNCHANGED <<status, fileVars, planVars, names, cur>>
        /\ pc'[c] = IF pc[c] = "blank" THEN "arcResult" ELSE "markDone"
    BY <1>6, <1>9 DEF Upsert, Goto, BInv, IInv, TypeOK
  <2>2. \A j \in Jobs : cache'[j] = IF j = cur[c] THEN [job |-> env[c].job, body |-> b] ELSE cache[j]
    BY <1>7, <1>9 DEF Upsert, BInv, IInv, TypeOK
  <2>3. [job |-> env[c].job, body |-> b] # None
    BY <1>7, <1>9, NoneAssumption DEF Row
  <2>4. /\ UNCHANGED <<batchVars, planVars, names, cur, jobFiles, archived>>
        /\ \A j \in Jobs : status[j] # "none" => status'[j] # "none"
        /\ \A j \in Jobs : results'[j] = results[j] \/ (j = cur[c] /\ results'[j] = None)
        /\ pc[c] \notin {"idle", "ingest"} /\ pc'[c] \in {"blank", "markDone", "arcResult", "arcJob"}
    BY <1>1, <1>9, <2>1
  <2>5. cache'[cur[c]] # None /\ \A j \in Jobs : cache[j] # None => cache'[j] # None
    BY <1>7, <1>9, <2>2, <2>3
  <2> QED BY <1>1, <1>2, <2>4, <2>5, HandMoves
<1>10. CASE ReadResult(c)
  <2>1. PICK n \in names[c] : /\ names' = [names EXCEPT ![c] = @ \ {n}]
                              /\ cur' = [cur EXCEPT ![c] = n]
                              /\ pc' = [pc EXCEPT ![c] = Judge(n, results[n])]
    BY <1>10 DEF ReadResult
  <2>2. /\ pc[c] = "ingest" /\ cur[c] = None /\ n \in Jobs
        /\ UNCHANGED <<status, cache, jobFiles, results, archived, toPlan, planning>>
    BY <1>6, <1>10 DEF ReadResult, BInv, Ingesting
  <2>3. results[n] = None \/ \E x \in Bodies : results[n] = Own(n, x)
    BY <2>2 DEF BInv, Filed
  <2>4. Judge(n, results[n]) \in {"shelve", "refuse", "store", "fail"}
    <3>1. IsUnknown(None) /\ None \in File
      BY NoneAssumption DEF IsUnknown, File
    <3> QED BY <2>2, <2>3, <3>1, JudgeOwn, JudgeCases
  <2>5. cur'[c] = n /\ names'[c] = names[c] \ {n} /\ pc'[c] = Judge(n, results[n])
    BY <1>6, <2>1 DEF BInv, IInv, TypeOK
  <2>6. ASSUME NEW j \in JobsOf(batch[c]), Paid(batch[c], j) PROVE Taken(c, j)'
    <3>1. Taken(c, j) /\ j \in Jobs
      BY <1>4, <1>5, <2>6
    <3>2. CASE j = n
      <4>1. results[n] = Own(n, batches[batch[c]].answers[n]) /\ status[n] # "none"
        BY <1>3, <2>2, <3>1, <3>2 DEF Taken, BInv, Filed
      <4>2. batches[batch[c]].answers[n] \in {"good", "refused"}
        BY <1>4, <2>2, <2>6, <3>2 DEF Paid, Bodies
      <4>3. Judge(n, results[n]) \in {"refuse", "store"}
        BY <2>2, <4>1, <4>2, JudgeOwn DEF Bodies
      <4> QED BY <2>5, <3>2, <4>3 DEF Taken
    <3>3. CASE j # n
      BY <1>1, <2>2, <2>5, <3>1, <3>3, NoneAssumption, OthersStayTaken
    <3> QED BY <3>2, <3>3
  <2>7. Ingesting(c)'
    BY <1>1, <1>3, <1>6, <2>2, <2>4, <2>5, <2>6 DEF Ingesting, JobsOf, Paid
  <2> QED BY <1>1, <1>2, <2>2, <2>7, IngestFrame
<1>11. CASE Shelve(c)
  <2>1. /\ pc[c] = "shelve" /\ pc'[c] = "ingest" /\ cur'[c] = None /\ names' = names
        /\ UNCHANGED <<status, cache, jobFiles, archived, toPlan, planning>>
        /\ \A j \in Jobs : results'[j] = results[j] \/ (j = cur[c] /\ results'[j] = None)
    <3>1. results' = [results EXCEPT ![cur[c]] = None] /\ results \in [Jobs -> File]
      BY <1>11 DEF Shelve, MoveResult, BInv, IInv, TypeOK
    <3>2. \A j \in Jobs : results'[j] = results[j] \/ (j = cur[c] /\ results'[j] = None)
      BY <3>1
    <3> QED BY <1>6, <1>11, <3>2 DEF Shelve, MoveResult, NextFile, BInv, IInv, TypeOK
  <2>2. ASSUME NEW j \in JobsOf(batch[c]), Paid(batch[c], j) PROVE Taken(c, j)'
    <3>1. Taken(c, j) /\ j \in Jobs
      BY <1>4, <1>5, <2>2
    <3>2. cur[c] # j /\ results'[j] = results[j]
      BY <2>1, <3>1 DEF Taken
    <3> QED BY <1>1, <2>1, <3>1, <3>2, NoneAssumption, OthersStayTaken
  <2>3. Ingesting(c)'
    BY <1>1, <1>3, <1>6, <2>1, <2>2, NoneAssumption DEF Ingesting, JobsOf, Paid
  <2>4. \A j \in Jobs : results'[j] \in {results[j], None}
    BY <2>1
  <2> QED BY <1>1, <1>2, <2>1, <2>3, <2>4, IngestFrame
<1>12. CASE ArchiveResult(c)
  <2>1. /\ pc[c] = "arcResult" /\ pc'[c] = "arcJob" /\ UNCHANGED <<dbVars, jobFiles, archived, planVars, names, cur>>
        /\ \A j \in Jobs : results'[j] = results[j] \/ (j = cur[c] /\ results'[j] = None)
    <3>1. results' = [results EXCEPT ![cur[c]] = None] /\ results \in [Jobs -> File]
      BY <1>12 DEF ArchiveResult, MoveResult, BInv, IInv, TypeOK
    <3>2. \A j \in Jobs : results'[j] = results[j] \/ (j = cur[c] /\ results'[j] = None)
      BY <3>1
    <3> QED BY <1>6, <1>12, <3>2 DEF ArchiveResult, MoveResult, Goto, BInv, IInv, TypeOK
  <2>2. Taken(c, cur[c]) => cache'[cur[c]] # None
    BY <2>1 DEF Taken
  <2> QED BY <1>1, <1>2, <2>1, <2>2, HandMoves
<1>13. CASE ArchiveJob(c)
  <2>1. /\ pc[c] = "arcJob" /\ pc'[c] = "ingest" /\ cur'[c] = None /\ UNCHANGED <<dbVars, results, planVars, names>>
        /\ jobFiles' = jobFiles \ {cur[c]} /\ archived' = archived \cup ({cur[c]} \cap jobFiles)
    BY <1>6, <1>13 DEF ArchiveJob, NextFile, BInv, IInv, TypeOK
  <2>2. ASSUME NEW j \in JobsOf(batch[c]), Paid(batch[c], j) PROVE Taken(c, j)'
    <3>1. Taken(c, j) /\ j \in Jobs
      BY <1>4, <1>5, <2>2
    <3>2. CASE cur[c] = j
      <4>1. cache[j] # None /\ j \notin names[c]
        BY <2>1, <3>1, <3>2 DEF Taken, BInv, Ingesting
      <4> QED BY <2>1, <3>1, <3>2, <4>1, NoneAssumption DEF Taken, Done
    <3>3. CASE cur[c] # j
      BY <1>1, <2>1, <3>1, <3>3, NoneAssumption, OthersStayTaken
    <3> QED BY <3>2, <3>3
  <2>3. Ingesting(c)'
    BY <1>1, <1>3, <1>6, <2>1, <2>2, NoneAssumption DEF Ingesting, JobsOf, Paid
  <2>4. jobFiles' \subseteq jobFiles /\ jobFiles \subseteq jobFiles' \cup archived' /\ archived \subseteq archived'
    BY <2>1
  <2> QED BY <1>1, <1>2, <2>1, <2>3, <2>4, IngestFrame
<1>14. CASE IngestEnd(c)
  <2>1. /\ pc[c] = "ingest" /\ pc'[c] = "idle" /\ names[c] = {} /\ cur[c] = None
        /\ UNCHANGED <<dbVars, fileVars, planVars, names, cur>>
    BY <1>6, <1>14 DEF IngestEnd, BInv, Ingesting, IInv, TypeOK
  <2>2. ASSUME NEW j \in JobsOf(batch[c]), Paid(batch[c], j) PROVE Taken(c, j)'
    BY <1>1, <1>4, <1>5, <2>1, <2>2, NoneAssumption DEF Taken, Done
  <2>3. Ingesting(c)'
    BY <1>1, <1>3, <1>6, <2>1, <2>2 DEF Ingesting, JobsOf, Paid
  <2> QED BY <1>1, <1>2, <2>1, <2>3, IngestFrame
<1>15. CASE Refuse(c) \/ Fail(c) \/ MarkDone(c)
  BY <1>8, <1>15 DEF Refuse, Fail, MarkDone
<1>16. CASE StoreBlank(c) \/ Store(c)
  BY <1>9, <1>16 DEF StoreBlank, Store
<1>17. ~IngestStart(c) \/ pc[c] = "idle"
  BY <1>6 DEF IngestStart
<1>18. ~Disown(c) /\ ~QuarantineResult(c) /\ ~QuarantineJob(c)
  BY <1>6 DEF Disown, QuarantineResult, QuarantineJob
<1> QED BY <1>1, <1>10, <1>11, <1>12, <1>13, <1>14, <1>15, <1>16, <1>17, <1>18 DEF Ingest

\* An ingest begins when every answer lies in results/, and the note goes when
\* it has been through with each; a kill leaves the note.
LEMMA BoundsKeep ==
    ASSUME Alone, BInv, NEW c \in Collectors, StartIngest(c) \/ Finish(c) \/ Kill(c)
    PROVE  BInv'
<1>1. (\A d \in Collectors : d = c) /\ c \in Workers
  BY DEF Alone
<1>2. CASE StartIngest(c)
  <2>1. /\ at[c] = "write" /\ left[c] = {} /\ at' = [at EXCEPT ![c] = "ingest"] /\ toPlan = {} /\ planning = None
        /\ IngestStart(c) /\ UNCHANGED <<batches, stateFile, batch, left, known>>
    BY <1>2 DEF StartIngest, Alone
  <2>2. /\ pc[c] = "idle" /\ cur[c] = None /\ names'[c] = OnDisk(results) /\ pc'[c] = "ingest"
        /\ UNCHANGED <<dbVars, fileVars, planVars, drainVars, cur, env>>
    BY <1>1, <2>1 DEF IngestStart, BInv, Ingesting, IInv, TypeOK
  <2>3. IInv'
    <3>1. Turn(c)
      BY <1>1, CollectorsAssumption DEF Turn
    <3> QED BY <1>1, <2>1, <2>2, <3>1, NextIInv DEF Next, Ask, BInv
  <2>4. (Typed /\ Filed /\ Noted /\ NeverTwice)'
    BY <2>1, <2>2 DEF BInv, Typed, Filed, Noted, NeverTwice, Through, JobsOf, Paid, Done
  <2>5. (Submitting(c) /\ Collecting(c))'
    BY <1>1, <2>1 DEF BInv, Typed, Submitting, Collecting, JobsOf
  <2>6. ASSUME NEW j \in JobsOf(batch[c]) PROVE Taken(c, j)'
    <3>1. batch[c] \in DOMAIN batches /\ batches[batch[c]] \in Batch /\ batches[batch[c]].answers # None
      BY <2>1 DEF BInv, Typed, Noted, Collecting
    <3>2. j \in Jobs /\ batches[batch[c]].answers[j] \in Bodies
      BY <2>6, <3>1 DEF Batch, JobsOf
    <3>3. results[j] = Own(j, batches[batch[c]].answers[j])
      BY <2>1, <2>6 DEF BInv, Collecting
    <3>4. results[j] # None
      BY <3>2, <3>3, NoneAssumption DEF Own, Envelope
    <3> QED BY <2>1, <2>2, <3>2, <3>3, <3>4, NoneAssumption DEF Taken, OnDisk
  <2>7. Ingesting(c)'
    BY <1>1, <2>1, <2>2, <2>6, NoneAssumption DEF BInv, Typed, Ingesting, JobsOf, OnDisk
  <2> QED BY <1>1, <2>3, <2>4, <2>5, <2>7 DEF BInv
<1>3. CASE Finish(c)
  <2>1. /\ at[c] = "ingest" /\ pc[c] = "idle" /\ stateFile' = None /\ at' = [at EXCEPT ![c] = "off"]
        /\ batch' = [batch EXCEPT ![c] = None] /\ left' = [left EXCEPT ![c] = {}] /\ known' = [known EXCEPT ![c] = {}]
        /\ UNCHANGED <<vars, batches>>
    BY <1>3 DEF Finish, Forget
  <2>2. /\ stateFile \in DOMAIN batches /\ batches[stateFile].answers # None /\ batch[c] = stateFile
        /\ batches[stateFile] \in Batch /\ toPlan = {} /\ planning = None /\ names[c] = {} /\ cur[c] = None
        /\ \A j \in JobsOf(stateFile) : Paid(stateFile, j) => Taken(c, j)
    BY <2>1 DEF BInv, Typed, Noted, Collecting, Ingesting
  <2>3. JobsOf(stateFile) \subseteq Jobs
    BY <2>2 DEF Batch, JobsOf
  <2>4. Through(stateFile)
    BY <2>2, <2>3, NoneAssumption DEF Through, Taken
  <2>5. (Typed /\ Noted)'
    BY <2>1, <2>4, QuietStep DEF BInv, Typed, Noted
  <2>6. (Submitting(c) /\ Collecting(c) /\ Ingesting(c))'
    BY <2>1 DEF BInv, Typed, Submitting, Collecting, Ingesting
  <2> QED BY <1>1, <2>1, <2>5, <2>6, QuietStep DEF BInv
<1>4. CASE Kill(c)
  <2>1. /\ at' = [at EXCEPT ![c] = "off"] /\ batch' = [batch EXCEPT ![c] = None]
        /\ left' = [left EXCEPT ![c] = {}] /\ known' = [known EXCEPT ![c] = {}]
        /\ pc' = [pc EXCEPT ![c] = "idle"] /\ names' = [names EXCEPT ![c] = {}]
        /\ cur' = [cur EXCEPT ![c] = None] /\ env' = [env EXCEPT ![c] = None]
        /\ UNCHANGED <<dbVars, fileVars, planVars, drainVars, batches, stateFile>>
    BY <1>4 DEF Kill, Forget
  <2>2. IInv'
    BY <1>1, <2>1, NoneAssumption DEF BInv, IInv, TypeOK, Places, Judged, Verified, Held, CacheOwned
  <2>3. (Typed /\ Filed /\ Noted /\ NeverTwice)'
    BY <2>1 DEF BInv, Typed, Filed, Noted, NeverTwice, Through, JobsOf, Paid, Done
  <2>4. (Submitting(c) /\ Collecting(c) /\ Ingesting(c))'
    BY <1>1, <2>1, NoneAssumption DEF BInv, IInv, TypeOK, Typed, Submitting, Collecting, Ingesting
  <2> QED BY <1>1, <2>2, <2>3, <2>4 DEF BInv
<1> QED BY <1>2, <1>3, <1>4

\* A plan asks only for what has no result, and waits while a collector ingests.
LEMMA PlanningKeeps ==
    ASSUME Alone, BInv, Others, UNCHANGED batchVars
    PROVE  BInv'
<1>1. (Plan /\ \A c \in Collectors : at[c] # "ingest") \/ PlannerCrash
  BY DEF Others, Alone
<1>2. IInv'
  BY <1>1, NextIInv DEF Next, BInv
<1>3. /\ UNCHANGED <<cache, results, archived, pc, names, cur>> /\ jobFiles \subseteq jobFiles'
      /\ jobFiles' \subseteq jobFiles \cup ({planning} \ {None})
      /\ \A j \in Jobs : status[j] # "none" => status'[j] # "none"
      /\ \A j \in Jobs : j \in toPlan' \/ planning' = j => j \in toPlan \/ planning = j \/ cache[j] = None
      /\ \A j \in Jobs : planning' = j => planning = j \/ status'[j] # "none"
  <2>1. CASE PlannerCrash \/ \E asked \in SUBSET Jobs : PlanStart(asked)
    BY <2>1, NoneAssumption DEF PlannerCrash, PlanStart
  <2>2. CASE PlanInsert
    <3>1. PICK i \in toPlan : /\ status' = [status EXCEPT ![i] = IF @ = "none" THEN "pending" ELSE @]
                              /\ toPlan' = toPlan \ {i} /\ planning' = i /\ planning = None
                              /\ UNCHANGED <<cache, fileVars, pc, ingestVars>>
      BY <2>2 DEF PlanInsert
    <3> QED BY <3>1 DEF BInv, IInv, TypeOK
  <2>3. CASE PlanWrite
    BY <2>3, NoneAssumption DEF PlanWrite
  <2> QED BY <1>1, <2>1, <2>2, <2>3 DEF Plan
<1>4. \A b \in DOMAIN batches : JobsOf(b) \subseteq Jobs
  <2>1. \A b \in DOMAIN batches : batches[b] \in Batch
    BY DEF BInv, Typed
  <2> QED BY <2>1 DEF Batch, JobsOf
<1>5. \A b \in DOMAIN batches : Through(b) => Through(b)'
  BY <1>3, <1>4, NoneAssumption DEF Through, JobsOf, Paid, Done
<1>6. (Typed /\ Noted /\ NeverTwice)'
  BY <1>5 DEF BInv, Typed, Noted, NeverTwice, JobsOf, Paid
<1>7. Filed'
  <2>1. (\A n \in Jobs : results[n] # None => \E x \in Bodies : results[n] = Own(n, x))'
    BY <1>3 DEF BInv, Filed
  <2>2. (\A j \in Jobs : j \in jobFiles \/ planning = j => status[j] # "none")'
    BY <1>3 DEF BInv, Filed
  <2>3. (\A b \in DOMAIN batches : \A j \in JobsOf(b) : j \in jobFiles \cup archived /\ status[j] # "none")'
    BY <1>3, <1>4 DEF BInv, Filed, JobsOf
  <2> QED BY <2>1, <2>2, <2>3 DEF Filed
<1>8. ASSUME NEW c \in Collectors PROVE (Submitting(c) /\ Collecting(c) /\ Ingesting(c))'
  <2>1. (Submitting(c) /\ Collecting(c))'
    BY <1>3 DEF BInv, Submitting, Collecting, JobsOf
  <2>2. CASE at[c] # "ingest"
    <3>1. UNCHANGED <<at, pc, names, cur>>
      BY <1>3
    <3> QED BY <2>1, <2>2, <3>1 DEF BInv, Ingesting
  <2>3. CASE at[c] = "ingest"
    BY <1>1, <2>1, <2>3 DEF PlannerCrash, BInv, Ingesting
  <2> QED BY <2>1, <2>2, <2>3
<1> QED BY <1>2, <1>6, <1>7, <1>8 DEF BInv

LEMMA NextBInv == Alone /\ BInv /\ [BatchNext]_allVars => BInv'
<1> SUFFICES ASSUME Alone, BInv, [BatchNext]_allVars PROVE BInv'
  OBVIOUS
<1>1. CASE UNCHANGED allVars
  <2>1. (Typed /\ Noted)'
    BY <1>1, QuietStep DEF BInv, Typed, Noted
  <2>2. \A c \in Collectors : (Submitting(c) /\ Collecting(c) /\ Ingesting(c))'
    BY <1>1 DEF BInv, Submitting, Collecting, Ingesting, Taken, JobsOf, Paid, Done
  <2> QED BY <1>1, <2>1, <2>2, QuietStep DEF BInv
<1>2. CASE Others /\ UNCHANGED batchVars
  BY <1>2, PlanningKeeps
<1>3. CASE \E b \in DOMAIN batches : ProviderEnds(b)
  BY <1>3, EndingKeeps
<1>4. ASSUME NEW c \in Collectors,
             \/ \E only \in {Local, Jobs}, again \in {FALSE, Resubmits} : Check(c, only, again)
             \/ Submit(c) \/ Save(c)
      PROVE  BInv'
  BY <1>4, SubmittingKeeps
<1>5. ASSUME NEW c \in Collectors,
             \/ \E b \in DOMAIN batches : Collect(c, b)
             \/ ReadJobs(c) \/ PollEnd(c) \/ WriteEntry(c) \/ ApiFails(c)
      PROVE  BInv'
  BY <1>5, CollectingKeeps
<1>6. ASSUME NEW c \in Collectors, IngestStep(c) PROVE BInv'
  BY <1>6, IngestingKeeps
<1>7. ASSUME NEW c \in Collectors, StartIngest(c) \/ Finish(c) \/ Kill(c) PROVE BInv'
  BY <1>7, BoundsKeep
<1> QED BY <1>1, <1>2, <1>3, <1>4, <1>5, <1>6, <1>7 DEF BatchNext, Proceed

\* No job is submitted (submitBatch) while an answer for it is being paid for or
\* was paid for before: of any two batches that were noted in batch-state.json, the
\* later asks only for what the earlier one failed, wherever the runs were killed.
THEOREM NothingIsBilledTwice ==
    ASSUME Alone
    PROVE  BatchSpec => []BilledOnce
<1>1. BInv => BilledOnce
  BY DEF BInv, NeverTwice, BilledOnce, PaidBefore, JobsOf, Paid
<1> QED BY <1>1, InitBInv, NextBInv, PTL DEF BatchSpec

\* The note outlives every kill (runBatch removes batch-state.json last): a saved batch that can
\* no longer be collected has ended, and its good answers are in the database.
THEOREM NothingPaidIsLost ==
    ASSUME Alone
    PROVE  BatchSpec => []ResumedUntilSettled
<1>1. BInv => ResumedUntilSettled
  <2> SUFFICES ASSUME BInv, NEW b \in DOMAIN batches, batches[b].told, ~InHand(b)
               PROVE  /\ batches[b].answers # None
                      /\ \A j \in batches[b].jobs : batches[b].answers[j] = "good" => cache[j] # None
    BY DEF ResumedUntilSettled
  <2>1. Through(b)
    BY DEF BInv, Noted, InHand
  <2> QED BY <2>1 DEF Through, JobsOf, Paid, Done
<1> QED BY <1>1, InitBInv, NextBInv, PTL DEF BatchSpec
=============================================================================

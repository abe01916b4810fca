----------------------------- MODULE BatchRun ------------------------------
(***************************************************************************)
(* The paid batch over the airlock: drain --engine batch.                  *)
(*                                                                         *)
(* A run of the command (a collector) either submits the pending jobs as   *)
(* one batch and notes its id in batch-state.json, or is given the id of   *)
(* a batch to collect.  It then polls until the batch has ended, writes a  *)
(* result file per answer, ingests, and removes the note.  The provider    *)
(* keeps a batch and its answers whatever happens to the collector.        *)
(*                                                                         *)
(* Collectors are processes of their own.  Requests, the planner, ingest   *)
(* and the files are those of Airlock.                                     *)
(***************************************************************************)
EXTENDS Airlock, Sequences

CONSTANTS
    Collectors,   \* runs of drain --engine batch
    MaxBatches,   \* bound on the batches ever submitted
    Resubmits,    \* whether the owner may pass --resubmit
    Recollects,   \* whether the owner may collect an id the note does not hold
    PlansOverlap  \* whether the owner may plan while a collector ingests

ASSUME CollectorsAssumption == Collectors \subseteq Workers \ Server
ASSUME MaxBatchesAssumption == MaxBatches \in Nat /\ None \notin 1..MaxBatches

VARIABLES
    batches,      \* the batches at the provider, by id
    stateFile,    \* the id in batch-state.json
    at,           \* where each collector stands
    batch,        \* the batch a collector works on
    left,         \* the jobs it submits, then the answers it has yet to write
    known         \* the job files it read before it began to poll

collectorVars == <<at, batch, left, known>>
batchVars == <<batches, stateFile, collectorVars>>
allVars == <<vars, batchVars>>

Ids == 1..MaxBatches

\* jobs: its requests; again: submitted with --resubmit; told: its id was
\* printed; answers: none while it is in progress.
Batch == [jobs : SUBSET Jobs, again : BOOLEAN, told : BOOLEAN,
          answers : [Jobs -> Bodies] \cup {None}]

BatchTypeOK ==
    /\ TypeOK
    /\ batches \in Seq(Batch) /\ Len(batches) <= MaxBatches
    /\ stateFile \in Ids \cup {None}
    /\ at \in [Collectors -> {"off", "submit", "resubmit", "save", "list",
                              "poll", "write", "ingest"}]
    /\ batch \in [Collectors -> Ids \cup {None}]
    /\ left \in [Collectors -> SUBSET Jobs]
    /\ known \in [Collectors -> SUBSET Jobs]

BatchInit ==
    /\ Init
    /\ batches = <<>>
    /\ stateFile = None
    /\ at = [c \in Collectors |-> "off"]
    /\ batch = [c \in Collectors |-> None]
    /\ left = [c \in Collectors |-> {}]
    /\ known = [c \in Collectors |-> {}]

-----------------------------------------------------------------------------
(* Submitting *)

\* Mutant: a batch in flight does not stop the next one.
CheckUnguarded(c, only, again) ==
    /\ at[c] = "off"
    /\ Pending \cap only # {}
    /\ left' = [left EXCEPT ![c] = Pending \cap only]
    /\ at' = [at EXCEPT ![c] = IF again THEN "resubmit" ELSE "submit"]
    /\ UNCHANGED <<vars, batches, stateFile, batch, known>>

\* The note of a batch in flight stops a new one, unless --resubmit.  Engine
\* mode, --force and --cap decide only whether the owner gets this far.
Check(c, only, again) ==
    /\ at[c] = "off"
    /\ stateFile = None \/ again
    /\ Pending \cap only # {}
    /\ left' = [left EXCEPT ![c] = Pending \cap only]
    /\ at' = [at EXCEPT ![c] = IF again THEN "resubmit" ELSE "submit"]
    /\ UNCHANGED <<vars, batches, stateFile, batch, known>>

\* From here on the batch is billed.
Submit(c) ==
    /\ at[c] \in {"submit", "resubmit"}
    /\ Len(batches) < MaxBatches
    /\ batches' = Append(batches, [jobs |-> left[c], again |-> at[c] = "resubmit",
                                   told |-> FALSE, answers |-> None])
    /\ batch' = [batch EXCEPT ![c] = Len(batches')]
    /\ left' = [left EXCEPT ![c] = {}]
    /\ at' = [at EXCEPT ![c] = "save"]
    /\ UNCHANGED <<vars, stateFile, known>>

\* The note is written and the id printed.
Save(c) ==
    /\ at[c] = "save"
    /\ stateFile' = batch[c]
    /\ batches' = [batches EXCEPT ![batch[c]].told = TRUE]
    /\ at' = [at EXCEPT ![c] = "list"]
    /\ UNCHANGED <<vars, batch, left, known>>

-----------------------------------------------------------------------------
(* Collecting *)

\* --collect b, for an id the owner has been shown.
Collect(c, b) ==
    /\ at[c] = "off"
    /\ stateFile = b \/ (Recollects /\ batches[b].told)
    /\ batch' = [batch EXCEPT ![c] = b]
    /\ at' = [at EXCEPT ![c] = "list"]
    /\ UNCHANGED <<vars, batches, stateFile, left, known>>

\* The map from custom_id to job, taken once, before polling.
ReadJobs(c) ==
    /\ at[c] = "list"
    /\ known' = [known EXCEPT ![c] = jobFiles \cup archived]
    /\ at' = [at EXCEPT ![c] = "poll"]
    /\ UNCHANGED <<vars, batches, stateFile, batch, left>>

\* The provider ends a batch; what is not answered is 'bad'.
ProviderEnds(b) ==
    /\ batches[b].answers = None
    /\ \E f \in [Jobs -> Bodies] :
          /\ \A j \in Jobs \ batches[b].jobs : f[j] = "bad"
          /\ batches' = [batches EXCEPT ![b].answers = f]
    /\ UNCHANGED <<vars, stateFile, collectorVars>>

\* Mutant: the note is removed as soon as the batch has ended.
PollEndForgets(c) ==
    /\ at[c] = "poll"
    /\ batches[batch[c]].answers # None
    /\ left' = [left EXCEPT ![c] = batches[batch[c]].jobs]
    /\ at' = [at EXCEPT ![c] = "write"]
    /\ stateFile' = None
    /\ UNCHANGED <<vars, batches, batch, known>>

PollEnd(c) ==
    /\ at[c] = "poll"
    /\ batches[batch[c]].answers # None
    /\ left' = [left EXCEPT ![c] = batches[batch[c]].jobs]
    /\ at' = [at EXCEPT ![c] = "write"]
    /\ UNCHANGED <<vars, batches, stateFile, batch, known>>

\* One answer of the stream, in the provider's order; one for a job whose
\* file is gone is skipped.
WriteEntry(c) ==
    /\ at[c] = "write"
    /\ \E j \in left[c] :
          /\ left' = [left EXCEPT ![c] = @ \ {j}]
          /\ results' = IF j \in known[c]
                        THEN [results EXCEPT ![j] = Own(j, batches[batch[c]].answers[j])]
                        ELSE results
    /\ UNCHANGED <<dbVars, jobFiles, archived, planVars, pc, drainVars,
                   ingestVars, batches, stateFile, at, batch, known>>

StartIngest(c) ==
    /\ at[c] = "write"
    /\ left[c] = {}
    /\ PlansOverlap \/ (toPlan = {} /\ planning = None)
    /\ at' = [at EXCEPT ![c] = "ingest"]
    /\ IngestStart(c)
    /\ UNCHANGED <<batches, stateFile, batch, left, known>>

IngestStep(c) ==
    /\ at[c] = "ingest"
    /\ Ingest(c)
    /\ UNCHANGED batchVars

\* The collector forgets everything: it has ended.
Forget(c) ==
    /\ at' = [at EXCEPT ![c] = "off"]
    /\ batch' = [batch EXCEPT ![c] = None]
    /\ left' = [left EXCEPT ![c] = {}]
    /\ known' = [known EXCEPT ![c] = {}]

\* The note is removed, whichever batch it is of.
Finish(c) ==
    /\ at[c] = "ingest"
    /\ pc[c] = "idle"
    /\ stateFile' = None
    /\ Forget(c)
    /\ UNCHANGED <<vars, batches>>

-----------------------------------------------------------------------------
(* Interruptions *)

\* An API call fails for good and the run ends.  A submission that succeeds
\* but whose answer never arrives is Submit followed by Kill.
ApiFails(c) ==
    /\ at[c] \in {"submit", "resubmit", "poll", "write"}
    /\ Forget(c)
    /\ UNCHANGED <<vars, batches, stateFile>>

\* The command is killed; every file it writes is written atomically.
Kill(c) ==
    /\ CanCrash
    /\ at[c] # "off"
    /\ Forget(c)
    /\ pc' = [pc EXCEPT ![c] = "idle"]
    /\ names' = [names EXCEPT ![c] = {}]
    /\ cur' = [cur EXCEPT ![c] = None]
    /\ env' = [env EXCEPT ![c] = None]
    /\ UNCHANGED <<dbVars, fileVars, planVars, drainVars, batches, stateFile>>

-----------------------------------------------------------------------------
\* What a collector does by itself once it has a batch.
Proceed(c) ==
    \/ Save(c) \/ ReadJobs(c) \/ PollEnd(c) \/ WriteEntry(c)
    \/ StartIngest(c) \/ IngestStep(c) \/ Finish(c)

Others ==
    \/ (PlansOverlap \/ \A c \in Collectors : at[c] # "ingest") /\ Plan
    \/ PlannerCrash
    \/ \E w \in Workers \ Collectors :
          \/ Turn(w) /\ (Ask(w) \/ AgentExit(w) \/ Drain(w) \/ Ingest(w))
          \/ Agent(w) \/ Crash(w) \/ Launch(w)

BatchNext ==
    \/ Others /\ UNCHANGED batchVars
    \/ \E b \in DOMAIN batches : ProviderEnds(b)
    \/ \E c \in Collectors :
          \/ \E only \in {Local, Jobs}, again \in {FALSE, Resubmits} : Check(c, only, again)
          \/ Submit(c)
          \/ \E b \in DOMAIN batches : Collect(c, b)
          \/ Proceed(c) \/ ApiFails(c) \/ Kill(c)

BatchSpec == BatchInit /\ [][BatchNext]_allVars

-----------------------------------------------------------------------------
(* Fairness.  The provider ends every batch within a day; a collector that *)
(* has one runs on by itself.  Nobody owes a submission.                   *)

BatchFairness ==
    /\ \A b \in Ids : WF_allVars(b \in DOMAIN batches /\ ProviderEnds(b))
    /\ \A c \in Collectors : SF_allVars(Proceed(c))
    /\ WF_allVars((PlanInsert \/ PlanWrite) /\ UNCHANGED batchVars)
    /\ \A w \in Workers \ Collectors :
          SF_allVars(Turn(w) /\ (Drain(w) \/ Ingest(w)) /\ UNCHANGED batchVars)

BatchFairSpec == BatchSpec /\ BatchFairness

-----------------------------------------------------------------------------
(* Properties *)

\* Job j of batch b was submitted before, in batch a, which did not fail it.
PaidBefore(a, b) ==
    \E j \in batches[a].jobs \cap batches[b].jobs :
        batches[a].answers = None \/ batches[a].answers[j] # "bad"

\* The same of the batches whose id was saved before anything went wrong, and
\* which no later --resubmit gave up.
BilledOnce ==
    \A b \in DOMAIN batches : \A a \in 1..(b - 1) :
        batches[a].told /\ PaidBefore(a, b) =>
            \E r \in (a + 1)..b : batches[r].again

\* A batch that can still be collected: its id is noted, or at work.
InHand(b) == stateFile = b \/ \E c \in Collectors : batch[c] = b

\* A killed run can be resumed: the id of a saved batch stays in the note
\* until every good answer that was paid for is in the database.
ResumedUntilSettled ==
    \A b \in DOMAIN batches :
        batches[b].told /\ ~InHand(b) =>
            /\ batches[b].answers # None
            /\ \A j \in batches[b].jobs : batches[b].answers[j] = "good" => cache[j] # None

\* A batch whose id is saved comes to an end: its note goes, by itself unless
\* the run that holds it fails, and then a verdict stands on each of its jobs.
EveryBatchSettles ==
    \A b \in Ids :
        stateFile = b ~> \/ stateFile = b /\ \A c \in Collectors : batch[c] # b
                         \/ /\ b \in DOMAIN batches
                            /\ \A j \in batches[b].jobs : status[j] # "pending"

=============================================================================

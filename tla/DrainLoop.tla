----------------------------- MODULE DrainLoop -----------------------------
(***************************************************************************)
(* The drain command's rounds with the local engine: drain one batch,      *)
(* ingest, and go on (--loop) until a round answers nothing or its list    *)
(* fitted into the batch, or until the time budget (--minutes) is spent.   *)
(*                                                                         *)
(* The command, Looper, is a worker of Airlock and a process of its own;   *)
(* requests of the server drain with the local engine and ingest beside    *)
(* it.  Nobody plans while it loops: a plan may always leave it with more  *)
(* to do.                                                                  *)
(***************************************************************************)
EXTENDS Airlock

CONSTANT Looper       \* the worker that loops

ASSUME LooperAssumption == Looper \in Workers \ Server

VARIABLES
    going,       \* whether the loop runs
    tier,        \* the jobs it may take: --tier
    processed,   \* answers of this round that the engine found good
    remaining    \* what this round left pending, by its own count

loopVars == <<going, tier, processed, remaining>>
allVars == <<vars, loopVars>>

LoopTypeOK ==
    /\ TypeOK
    /\ going \in BOOLEAN
    /\ tier \subseteq Jobs
    /\ processed \in 0..BatchSize
    /\ remaining \in 0..Cardinality(Jobs)

LoopInit ==
    /\ Init
    /\ going = FALSE
    /\ tier = {}
    /\ processed = 0
    /\ remaining = 0

-----------------------------------------------------------------------------
Batch(only) == FirstOf(Pending \cap only, BatchSize)

\* Mutant: the rest of the list is forgotten.
RoundForgetsRest(only) ==
    /\ StartOllama(Looper, only)
    /\ going' = TRUE
    /\ tier' = only
    /\ processed' = 0
    /\ remaining' = 0

\* A round begins: the list of pending jobs is taken, and its first batch.
Round(only) ==
    /\ StartOllama(Looper, only)
    /\ going' = TRUE
    /\ tier' = only
    /\ processed' = 0
    /\ remaining' = Cardinality((Pending \cap only) \ Batch(only))

\* An answer.  One that ingest will reject may still look good to the engine.
RoundAnswer(b) ==
    /\ OllamaAnswer(Looper, b)
    /\ \/ b \in {"refused", "bad"} /\ processed' = processed
       \/ b \in {"good", "bad"} /\ processed' = processed + 1
    /\ UNCHANGED <<going, tier, remaining>>

\* The transport fails: the rest of the batch remains as well.
RoundFail ==
    /\ OllamaFail(Looper)
    /\ remaining' = remaining + Cardinality(todo[Looper])
    /\ UNCHANGED <<going, tier, processed>>

RoundIngest ==
    /\ pc[Looper] # "idle"
    /\ Ingest(Looper)
    /\ UNCHANGED loopVars

RoundOver == going /\ pc[Looper] = "idle"
Headway == processed # 0 /\ remaining # 0

\* Mutant: the loop does not look at what a round achieved.
LoopAgainRegardless == RoundOver /\ Round(tier)

LoopAgain == RoundOver /\ Headway /\ Round(tier)

Stop == going' = FALSE /\ UNCHANGED <<vars, tier, processed, remaining>>

LoopEnd == RoundOver /\ ~Headway /\ Stop

\* The time budget is spent.
TrancheEnd == RoundOver /\ Headway /\ Stop

LoopStart == \E only \in {Local, Jobs} : ~going /\ Round(only)

\* Everybody else.
Others ==
    \/ ~going /\ Plan
    \/ \E w \in Workers \ {Looper} :
          /\ Turn(w)
          /\ \/ \E only \in {Local, Jobs} : StartOllama(w, only)
             \/ pc[w] = "idle" /\ IngestStart(w)
             \/ Drain(w) \/ Ingest(w)

Proceed ==
    \/ \E b \in Bodies : RoundAnswer(b)
    \/ RoundFail \/ RoundIngest \/ LoopAgain \/ LoopEnd

LoopNext ==
    \/ LoopStart
    \/ Proceed
    \/ TrancheEnd
    \/ Others /\ UNCHANGED loopVars

LoopSpec == LoopInit /\ [][LoopNext]_allVars

\* The command runs on by itself: its engine answers or fails.
LoopFairSpec == LoopSpec /\ WF_allVars(Proceed)

-----------------------------------------------------------------------------
(* Properties *)

\* What a drain of this tier would still take, but for the files that an
\* ingest is in the middle of moving.
LeftToRead == {j \in Pending \cap tier : AtRest(j)}

\* The loop comes to an end, whatever the engine answers, whatever ingest
\* rejects and whoever drains beside it: each round settles its batch.
LoopEnds == going ~> ~going

\* A loop that makes headway does not stop short.  What remains is counted
\* before the round is answered and ingested; still, when the loop ends after
\* a round that left nothing by that count, no job of its tier is left.
EndsEmptyOrStuck ==
    [][going /\ ~going' /\ remaining = 0 => LeftToRead = {}]_allVars

=============================================================================

# Between: a verification development

Between is a local-first application that imports a private message archive
into one SQLite database and lets language models read it through an *airlock*:
the app writes job files, an engine writes result files, and only the app turns
result files into database rows. This directory holds TLA+ models of that
system, the TLC runs that check them on small instances, and proofs that TLAPS
checks for instances of any size. Paths below are relative to the repository
root; `airlock/`, `ingest/`, `lenses/`, `store/`, `lib/`, `cli/` and `api/`
abbreviate `server/src/...`.

## 1. Inventory

| part | state it keeps | operations | what makes it correct | module |
|---|---|---|---|---|
| planner (`airlock/plan.ts`, `hash.ts`) | rows of `analysis_jobs`, `jobs/*.json` | plan, materialize one job, cut windows | what has a result is not planned again; a pending row has its file; windows cover a conversation | Airlock, Reading |
| drain engines (`airlock/engine.ts`, `drainSandbox.ts`, `paths.ts`) | the pending jobs of one drain, a sandbox, `results/*.json` | local drain, agent drain, copy-back | writes result files only; every answer gets to ingest | Airlock |
| ingest and cache (`airlock/ingestResults.ts`, `store.ts`, `schemas.ts`) | `analysis_jobs.status`, `analysis_results`, `archive/`, `quarantine/` | ingest, resolve evidence, `getValidatedResult` | only judged answers are cached, under their own key; done means readable | Airlock, Receipts |
| batch engine, drain command (`airlock/batch.ts`, `cli/drain.ts`) | `batch-state.json`, the batch at the provider, the loop's counters | submit, collect, resume, loop | nothing billed twice; a collect can be resumed; the loop ends | BatchRun, DrainLoop |
| first reflection (`lenses/firstReflection.ts`) | `reflections` and their evidence | gate, two drains, compose, freeze | a frozen reading rests on rows that are there and say what it was written about | Reading |
| episodes, eras, gates, calibration, counts (`lenses/*.ts`, `metrics/*.ts`) | `episodes`, `metrics`, `app_meta` | refresh, narrate, name, calibrate, read a fight, count | no note or name is lost, counts agree, no verdict on heat alone | Measures, Calibration, Chapters, Briefs |
| readers of formats (`ingest/importers/*.ts`, `parse.ts`, `normalize.ts`) | none beyond a file | read, refuse, count what is missing | what was said is recorded once, at its time, on its side | Spoken, WhatsApp, Rows, Backup, ChatDb, Formats |
| import (`ingest/*.ts`, `store/db.ts`) | `source_files`, `contacts`, `identifiers`, `threads`, `messages` | import a file, establish the owner, re-key | no message lost, none doubled; conversations kept apart; keys unique | Dedup, Archive |
| migration (`store/migrate.ts`) | schema version, safety copies | upgrade when opened | opens whatever it holds; never without a usable copy | Migration |
| file protection (`lib/atRest.ts`) | access lists | harden, verify, roll back | never locks the owner out | AtRest |
| data panel (`lib/dataPanel.ts`) | backups, exports, transport, sources | back up, purge, delete sources, delete all | deleted means deleted | DataPanel |
| HTTP server (`server.ts`, `api/routes.ts`) | one database handle, the auth token | handlers over all of the above | handlers interleave only where they await | in each |
| web client (`web/src`) | what is open, selected, asked, on its way | panels, pages, search, questions, runs, settings | shows the whole of what was asked, of the latest question | Transcript, Panels, Asking, Sessions, Tuning |
| prompts, prices, release scripts, site | none | format, publish | wording, or outside the running program | not modelled |

How they interact. Everything runs in one Node process (the server) except the
commands in `cli/`, each a process of its own over the same database and the
same airlock directory. The server's handlers share one thread: they interleave
at `await`, that is while a model answers, an agent works, a file is parsed or a
backup is copied; planning, ingest, the copy-back and every finalizer
are synchronous. SQLite makes each statement atomic, and an import or an upgrade
one transaction, but the sequences of the airlock (row, then file; result, then
status; move, then move) are none, so a kill, or a command, falls between any
two of them. The client is a further process whose requests fail, are given up
and come late.

The hard behaviours, each with its line, are the `hazards` of PROJECT.json.

## 2. Order of the work

Done: the airlock and its ledger, the paid batch and the loop, deduplication and
the archive; then custody (migration, file protection, data panel), the lenses
(receipts, readings, measures, chapters, briefs), the client and the formats;
then the proofs, part by part: what the run checks is stated as a theorem, with
the inductive invariant it needs.

Every invariant and every safety property of a step that a run checks is now a
theorem too. Still worth doing: the loop of the drain command with an agent, an
import whose transaction fails, and more formats of a file than the importers
distinguish by their readers; of the proofs, liveness (section 5).

## 3. Modules

A definition whose comment begins with "Mutant" is a broken variant of the
definition that follows it; nothing uses it except mutation runs, which put it in
the other's place and expect a property to fail. `*TypeOK` definitions document
the types of a module's variables.

### Airlock, ResultLedger (BatchProofs)

One module for planner, engines, ingest and the files between them, because
every interesting behaviour involves all of them.

| variable | in the code |
|---|---|
| `status` | `analysis_jobs.status`; `"none"` when there is no row |
| `cache` | `analysis_results` by input hash: whose result, and whether a payload or the `{}` of a refusal |
| `jobFiles`, `results`, `archived` | `jobs/`, `results/`, the `.job.json` files of `archive/` |
| `toPlan`, `planning` | the loop of `planAnalysis`: jobs still to insert; the job whose row is in and whose file is not |
| `pc`, `todo`, `desk`, `names`, `cur`, `env` | a worker: where it stands, its pending list, its sandbox's results, ingest's list of files, the file it works on and what that file said |

A *worker* is one run of "drain, then ingest" (`api/routes.ts:310-320`, the
drain command) or of ingest alone. Workers in `Server` are requests: `Turn`
lets one move only while no other is in synchronous code. Other workers are
commands and interleave between any two writes. Ingest is split at every
database write and every move, so `Crash` can fall anywhere. Job id and input
hash are one digest (`hash.ts:62-77`); `Jobs` stands for both, and its order is
the order of the file names.

An answer is `good`, `refused` or `bad`; the checks of it are that choice, made
when the answer is written (it is judged against rows that planning fixed, so
the moment does not matter). A move to the archive is one step although it is
`existsSync` and `rename`: of two commands ingesting one file one may fail, which
`Crash` covers. A kill while `writeJsonAtomic` runs leaves a `.tmp` that nothing
reads. `_manifest.json`, the counters a drain returns and the prefilter table are
left out.

`ResultLedger` is what a user may rely on: a verdict per analysis, open until
judged, open to retries after a failure, final once good or refused, with a
payload that never changes. `Airlock!LedgerSpec` states that the airlock
implements it, with `status` as verdict and the cached row of a done job as
payload.

### BatchRun, DrainLoop (BatchProofs)

`BatchRun` extends Airlock with the runs of `drain --engine batch`
(*collectors*), each a process that also ingests: `batches` is what the provider
holds, `stateFile` the id in `batch-state.json`, and `at`, `batch`, `left`,
`known` where a collector stands. `Check` (note and pending jobs), `Submit` and
`Save` are three steps because the submission is awaited between reading the
note and writing it. `told` marks the batches whose id was saved and printed,
`again` those asked for with `--resubmit`. Usage, cost estimates and the gates
before the first step decide only whether a run starts and are left out.

`DrainLoop` extends Airlock with the loop of `cli/drain.ts:57-111` for the local
engine. What the engine counts as processed and what ingest accepts differ (a
`bad` answer may be either). The loop with the agent or the mock engine is left
out.

### Spoken, WhatsApp, Rows, Backup, ChatDb, Formats (ReaderProofs, FormatProofs)

`Formats` has people say things (`told`), lets another program make a file of
them (`offered`, in one of four forms), and imports it as `ingestFile` does up
to the records: which reader, whether it is known by its hash (`seen`), what is
refused, recorded (`records`) or left (`missing`), and what the result says of
that (`outcome`, `said`). `due` is what should be recorded, taken from what was
said and never from the file.

Each reader has a module. `WhatsApp` stamps and parses lines (order of day and
month, clocks of twelve and twenty-four hours, continuation lines, notices);
`Rows` is CSV with quoting and JSON with missing names and sides; `Backup` is
the phone's XML; `ChatDb` the Mac's database, of which one conversation is chosen,
in whichever spelling, and in which rows lack a date or a readable body.
`Spoken` has words and the record every reader makes. Text is a sequence of
tokens of which only the kinds some format treats specially (newline, quote,
comma, "null") are told apart; the words that are nothing special are `Lexicon`.

`Formats` assumes of its utterances what the readers need and people do
(`Sayable`: a moment within the calendar, a body without blank lines around it
that is not one of the phrases a program writes in place of one), and that
names are neither made of a file nor addresses of another kind
(`OthersAssumption`). What the model cannot hold without these is in the list
of section 4.

`Places`, which the lenses use as well, has what sorting and filtering leave: the
numbers of a set in order, and what stands at some places of a sequence.

### Dedup, Archive (ArchiveProofs)

`Dedup` is `keyBatch` of `ingest/dedup.ts` as a function of a batch. `Archive`
is the store that `ingest/index.ts` and `store/db.ts` fill: `imported`, `owner`,
`metaOwner`, `threads`, `messages`, `collided`, and the importers' `at`, `file`,
`known`, `todo` (threads whose coverage is still to be set) and `counted` (what was
read of the one at hand); `cut` is history: an import was killed after its
transaction, or its rows came to a thread that another had counted and not yet set.
An import is `Read` (the hash), `Resolve` (after parsing, which is awaited: who the
owner is), `Write` (one transaction: mark the owner and repair, then join threads
and messages), `ListThreads`, for each thread `CountRows` (the SELECT) and
`SetCoverage` (the UPDATE), which are in no transaction, and `Covered`.

A person is a natural key, so contacts need no merging. A record has its
addresses, direction, instant, body in normal form, its source's own id and what
it carries. Row ids are ordered as the code hands them out. A thread's coverage
is the number of rows it was computed from. `Intake` puts the two halves of an
import side by side: nothing but records passes between them, and `Archive`
starts from any small sequence of these.

### Migration, AtRest, DataPanel (CustodyProofs)

Composed by `Custody`, whose three parts come one after the other at boot and
share nothing but a folder; each is explored by itself.

`Migration`: openers are processes that open an archive of an older release.
`RunsSchema` is `schema.sql`, which `openDb` runs before anything else and which
by now makes the index of the second step: that step is therefore never pending,
and the index comes before any copy. `Open` reads what is pending, uses a safety
copy that stands in for the archive (`StandsIn`, by fingerprint) or begins one;
`Apply` is the transaction (threads signed, provenance told from paths, messages
keyed anew), which two openers may both run; an attempt fails, is killed, or finds
that somebody put another archive in the place (`Restore`). `AtRest`: per path the
entries of the access list through `icacls` or `chmod`, the check that the owner
can still read, the rollback, with failing commands and kills. `DataPanel`: every
folder a file can lie in, the era (between two deletions of everything) each file
tells of, and drains, backups and exports that are under way when all is deleted.

### Receipts, Reading (LensProofs)

`Receipts` is what the schemas demand and what is kept of a claim: coverage of a
window, evidence cut to the rows there are, blocks without a receipt dropped,
bridges and the closing question put in. `Reading` is the way of a conversation
to a frozen reading: windows are planned and scored, a range's scores become one
material, that becomes prose, and what keeps a receipt is frozen. A request
runs until it awaits an engine; meanwhile others plan, read, import, are
killed or delete everything, after which row numbers are given again. `rows` is
what each number holds, and a frozen reading remembers (`about`) what the rows
held that the engine was shown. A job is known by the hash of what it shows.

### Measures, Calibration, Chapters, Briefs (LensProofs)

`Measures` has what is counted of messages and scores: the overview, rhythm,
gaps, river, trajectory, growth, the five findings; a count is a cardinality, a
ratio the pair it is made of, and what a message says the set of patterns it
matches. `Calibration` draws a sample, and takes thresholds and a bias from its
labels. `Chapters` is what the tables keep of that: episodes and their notes,
eras and their names, stage-2 reads, the gate over them, and caches that are
computed when asked for and stay until somebody asks again. `Briefs` is what
leaves: the answer to a question, the transcript, the letter's, the findings' and
the clinician's material. `Lenses` composes them with Reading: they share
messages and scores but no step, and the figures are looked at for every archive
of seven rows.

### Transcript, Panels, Asking, Sessions, Tuning (ClientProofs)

Composed by `Client`; each part keeps its own state and asks the server on its
own. `Transcript` reads a conversation backwards a page at a time; `Panels` is
everything that opens it: threshold, conversation, view, hit, receipt. `Asking` is
the search panel and the form of Ask, `Sessions` the run of a reading and what is
shown of it (`page.lists` are the requests for the list on their way, each with
the readings there were when it was sent, since a new one gives up none;
`page.crossed` says that the last was sent beside another), `Tuning` the
calibration pass and the choice of an engine. A request is what it asked for; it
may be answered, fail, or be given up.

### MC modules

`MCAirlock`, `MCBatchRun`, `MCIntake`, `MCCustody`, `MCLenses`, `MCClient`: values
for TLC. `DrainLoop` is run as it is, with sets of model values in its
configuration. `Counting`, which models nothing, has the facts about
finite sets of numbers that several proofs cite.

## 4. Runs

| run | instance | shows |
|---|---|---|
| `airlock_sole` | 3 jobs, batches of 2, one request at a time, no kills, an obedient agent | types; what is cached is readable; a job has a file exactly while it is open; the ledger is implemented |
| `airlock_crash` | 2 jobs, one request at a time, kills anywhere, an agent that leaves files naming another job, with a foreign hash, or torn | done means a readable payload; the cache is owned |
| `airlock_requests` | 2 jobs, two overlapping requests, fair | no answer is removed unread; every answer is ingested |
| `batch_kill` | 2 jobs, 2 batches, a collector killed or failing anywhere | no answer is paid twice once its id was saved; the note stays until the answers are in |
| `batch_local` | 1 job, a collector with `--resubmit` and `--collect` beside the server, fair | a saved batch ends with a verdict on each job |
| `loop_fair` | 2 jobs in 2 tiers, batches of 1, the loop beside a request, fair | the loop ends; when it ends with nothing remaining by its count, nothing of its tier remains |
| `intake` | up to 3 sayings in 4 formats; up to 3 imports of at most 2 of 4 records, 4 in all, by two importers, with kills | the nine promises of an import: nothing lost, doubled, misdated, filed elsewhere or uncounted |
| `custody` | four old archives, two openers, three copies; two paths, two faults; three files, one deletion | an archive opens whatever it holds, with a usable copy; the owner is let in; deleted is gone |
| `lenses` | three rows imported in two steps, one request, one deletion; seven rows, four steps; all 128 archives | receipts resolve, windows are scored whole, notes and names survive, figures agree, heat alone is no verdict |
| `client` | six messages in pages of two; two questions in two rooms; two runs, three readings and two lists on their way; two labels, with read-backs that fail; three engines | what is on screen at rest is whole and belongs to what was asked |
| `lenses_v_banner` | as `lenses`, begun with half the archive in, and no message that says two disclosures | *violated*: the brief lacks the care banner for a disclosure imported after the findings were cached |
| `intake_v_dates` | as `intake` | *violated*: dates in an order that nothing proves are read day first and nobody is told |

The violated runs each check one sentence of the repository's own comments;
`findings` in PROJECT.json quotes them.

### What the code does otherwise, and the runs leave aside

These were met while modelling. In each the named property holds as checked and
fails when the instance admits the case, or no property speaks of it.

- A kill inside `archivePair` (`ingestResults.ts:171`) leaves a done job its job
  file: it runs again (`OfferedIsOpen` with kills).
- With two requests under way a late error leaves a cached result that is
  neither readable nor plannable (`CachedIsReadable` with two workers).
- A job is known by its transcript, in which the overlap with the window before
  is not told apart (`plan.ts:165`). A window cut so that the same messages stand
  in it with less of an overlap takes that job and its answer, in which a message
  that was context there need not be scored; `ingestResults.ts:48` says that a window
  with an unscored message must never be. `CachedMeansScored` therefore asks that
  the job had what is the window's own to score (`HasScores`).
- The launch does not ingest what it finds (`server.ts:158`;
  `docs/SPECS/airlock.md:100` says it reconciles).
- A kill between submission and note bills a batch twice (`drain.ts:172`;
  `drain.ts:146` says a plain run never does), as do two collectors started
  together, and collecting the first of two batches after `--resubmit`.
- A correction of the owner in onboarding counts only for a contact that was
  flagged before (`db.ts:237`); a second import that is parsed or written while the
  first finds the owner makes threads with the owner as a member (`Overlap = "any"`).
- Coverage is set by a SELECT and an UPDATE for each thread (`ingest/index.ts:461`);
  if another process commits rows of the thread between them, and perhaps its fresh
  coverage, the stale one is written over it and stays (`cut`).
- `openDb` runs `schema.sql`, with the index of the second step, before `migrate`
  looks: an archive that lacks only this index is altered without a copy, against
  the rule at the head of `migrate.ts` (`SafetyCopy` speaks of rows and threads).
- A thread with two contacts of one number has the number twice in its signature
  after the upgrade, and an import, which names everybody once, does not meet it
  (`ReimportAddsNothing` leaves such threads out).
- A message that says both a physical and a death wish is filed under the first
  only (`findings.ts:47`), so that the care banner may be missing for this reason as
  well; the instance of `lenses_v_banner` has no such message.
- A read-back that fails leaves the proposal of the labels before on screen, with
  Confirm enabled (`Calibrate.tsx:110`), although the comment above it says that
  saving waits for the screen; and an engine chosen before the mode was read is
  overwritten on screen by the one read. `SavedAsShown` leaves both out (`missed`,
  `early`).
- A finished run asks for the list of readings without giving up a request that is
  on its way (`Session.tsx:89`): the older answer may end the loading, or come last,
  and the new reading is not in the list (`DoneIsPickedUp` leaves it out, `crossed`).
- A file imported wrongly cannot be imported again under other options: its hash
  is known.
- Exported lines pasted into a chat are read as messages (`whatsapp.ts:64`); a
  sender whose name ends in a full stop is taken for a notice
  (`whatsapp.ts:151`, `Abbreviated`); a chat in which only the owner wrote is filed
  under the owner (`whatsapp.ts:254`); a body of the one word "null" is lost
  (`normalize.ts:22`); a misspelt `--owner` in a table of rows is not refused.
- A receipt under a reading is opened at instant 0 and the transcript is empty
  (`Readings.tsx:319`); an older page that arrives after the reader was taken
  elsewhere lands in the wrong list (`Patient = FALSE`); one of two messages of
  one instant is lost at the edge of a page (`Transcript` speaks of instants).
- A question with a filter looks at the first 501 matches only, so its count may
  lack the plus (`ask.ts:60`; `CountIsHonest` is of plain questions).
- Of two thresholds that fit alike the lower, stricter one wins
  (`calibrate.ts:243`). Applying a calibration is two writes
  (`ApplyKilled`). A confirmed sample, a calibration and a bias survive a
  deletion of everything. The zone that is set refreshes the river only. A kill
  between an import's commit and its refresh leaves coverage and overview old
  (`cut`, `unwarmed`).
- A refused stage-2 read is stored as `{}`, over which counting throws;
  `Countable` is the guard the steps have for it.

### Bounds

- *Airlock, batch, loop.* Two jobs are enough for a file that names another job,
  for an order between files and for one job drained while another is ingested;
  three make a batch of two leave something behind. Two workers are enough for
  every race named in the hazards: each is between one late answer and one
  ingest. Nothing else is bounded in the airlock. `MaxBatches = 2`: a second
  batch shows any that is billed again.
- *Intake.* `MaxImports = 3`: a file before the owner is known, one that names the
  owner, one after the repair. `MaxRecords = 2`, `MaxRows = 4` in all: two
  messages of one instant, or a message and the evidence for the owner. The four
  records are a message that names the owner, a group message, another of that
  instant without the owner's address, whose thread collides with the group's when
  repaired, and a note to self, which names the owner as well. Onboarding may name
  the owner before any file has (`Answers`). `MaxSaid`, `MaxWork`: how much is said, and
  how much is said and exported together; a file may be imported again, in other
  words for its conversation, and `Later` lets only tables of rows with ISO dates
  come after it, whose unnamed correspondents must be told apart from file to
  file. The calendar has two months (`Months`) of three days (`MonthDays`) of
  twice two hours (`Half`), so that a date has both orders or proves one; a second
  has ten milliseconds (`Scale`). `Overlap = "same"`: two imports are parsed and
  written side by side only if they are of the same file; while one sets coverage
  any other may be read and written. It goes from thread to thread in the order of
  their ids.
- *Custody.* `MaxCopies = 3`: a copy of each opener and an old one. `MaxFaults
  = 2`: a failure and a failure of the way back. `MaxEra = 1`: before and after
  one deletion. `MaxFiles`, `MaxBackups`, `MaxSecond`: two backups of one second
  and a file beside them.
- *Lenses.* `MaxEpochs = 1` deletion makes numbers come again; `MaxAnswers = 3`
  lets window, reduce and render be answered, or one of them late; `MaxReadings
  = 1` since readings do not meet. `MaxWindow`, `OverlapTurns`, `MaxPrefix`,
  `DrainBatch`, `Floor` and `Limits` are the code's constants made small in the same
  order. `MaxSteps = 4`, from nothing, from a full archive or, for the banner, from
  half of one (`Pasts`): refresh, write, change, refresh.
- *Client.* `PageSize = 2` over five messages, two of one instant. `MaxFrozen`,
  `MaxJobs`, `MaxCommits`: a run shown while another is begun and ended; `MaxLists =
  2`: a list asked for while another is on its way. `Patient` and `Unhurried` are the
  user who waits for an older page, and for a reading before opening a claim's words;
  without them the property named beside each in the hazards fails by what the code
  does.

The import, custody, lens and client runs stop at their bounds, hence
`CHECK_DEADLOCK FALSE` there. Symmetry is of importers and of openers, whose
names no definition tells apart, in runs without liveness.

### Fairness

Workers run on by themselves after they were asked: an awaited call returns or
fails and synchronous code proceeds. A request waits only for its turn on the
server's thread, which the event loop hands out in order, hence strong fairness
per worker; the planner is synchronous, hence weak fairness. The provider ends
each batch within 24 hours (weak fairness per batch), and a collector or a loop
that was started runs on. No fairness is assumed for users, agents, submissions,
imports, kills or restarts.

## 5. Proofs

Each theorem is of the specification a run checks, for every value of the
constants that satisfies the modules' `ASSUME`s. Those say what the code says of
its data (row numbers and instants are numbers, requests of the server are
workers, a batch is not empty, the clock starts at UTC, the old archives have the
keys an older release gave) and that the null values are none of the data; TLC
evaluates each on the run of its module. A hypothesis beyond them stands in the
theorem and is met by the instance of the run that checks the property. Where a
property is not inductive, the invariant named here is; each was checked by TLC
before it was proved.

**Airlock** (`BatchProofs`, its first half). `CacheIsOwned` and `AirlockTypes` need no
hypothesis: commands, kills and any agent are allowed. `CacheOwned` is not
inductive: the two writes of an answer are made from `env`, which ingest read
earlier. `Judged` adds that, between reading a file and moving it, a worker holds an
envelope whose name, job and hash agree and whose row exists; `IInv` is the
conjunction with `TypeOK` (`AirlockInvariant`).

- `DoneHasItsPayload` (`Workers = Server`: every worker is a request of the
  server). `DInv` adds `OneIngest` (the thread lets one ingest run), `Ordered` (the
  second write of an answer finds the first in place) and `Grounded`. The
  hypothesis is needed: two ingests in two processes can interleave a refusal's
  `{}` with a `done`.
- `WhatLeavesIsRead` (`Workers = Server`): the action property `AnswersAreRead`.
  `HInv` adds `Reads`: what an ingest is about to move is still what it read.
  A command beside the server breaks this by the code.

**Ledger** (there). `CachedReads`, `OpenIsOffered` and the refinement
`ImplementsLedger` are of `Sole`: one request at a time, an agent that leaves its
own answers only, no kill. Each part of the hypothesis is needed (section 4,
"otherwise"): with two workers a late error leaves a cached result unreadable, a
kill between two moves leaves a done job its file. `SoleInv` adds to `IInv` that
what no worker has in hand is settled (`Settled`: row, cache and file agree),
that what is pending is offered, and what planner, drain and ingest have in
hand. The refinement is the initial state and one lemma (`StepsAreVerdicts`):
every step of planner, engines and ingest is a step of `ResultLedger` or leaves
verdict and payload as they were.

**Batch** (`BatchProofs`, its second half). `NothingIsBilledTwice` and
`NothingPaidIsLost` are of `Alone`: one collector, neither `--resubmit` nor
`--collect`, no plan made while it runs, any number of kills. The code bills twice
without each of these (section 4). `BInv` says of every saved batch either that
the note still names it or that it is `Through` (answered, cached, and not offered
again), and of the collector what it holds between reading the note, submitting
and saving.

**Archive** (`ArchiveProofs`). `NoKeyTwice` and `CoverageComesBack` need no
hypothesis: any number of importers, any overlap, kills anywhere. `CoverageInv`:
until something was cut, a thread whose coverage is not of its rows is still to be
listed or set by an importer, and what one has counted is of the rows there are.
`KeysAreUnique` becomes inductive with `RowsOK` and `NumberedOK` (finitely many
rows and threads, whose ids are handed out once) and `BeforeOwner` (until an owner
is known everybody is a counterpart, and a row's key is of its thread's people).
`ConversationsStayApart` assumes `NoStranger` (no file says that somebody else is
the owner) and `Overlap # "any"` (two files are never parsed or written side by
side); the code breaks it otherwise. `TruthInv` adds that each thread has the
members its messages' people make, less the owner, and that an importer at work
knows the owner that is current.

- `EveryMessageIsKept` (the same two hypotheses). Every record of a file finds its
  key in the archive, taken by an older row or by its own, and `KeysTold` says that
  a row with that key is of the same conversation, direction, minute and body, also
  after a repair. What is left is arithmetic: records with different identities have
  different numbers (`OccurrenceGrows`, for `keyBatch`'s scan over any finite batch),
  so a file's messages each have a row to themselves, and no step takes a row away.
- `EveryMessageIsKeptOnce` (besides `OneInstant`: one id of a source is of one
  instant; `Peopled`: every record has a sender or a recipient). `BoundedInv`: until a
  repair could not give everything its key, a row's key is the one a new import would
  give its record, and its number is at most what some file counts. Before the owner
  is known this is said of the keys of everybody, and the step to the keys without
  the owner (`RepairedKeysBounded`) is where the two come together: rows that the
  repair puts into one group were in one group before.

TLC evaluates the hypotheses about the sources on the instance of the run
(`SourcesAssumption` of `MCIntake`), and checked `BoundedInv` before it was proved.

**Formats** (`ReaderProofs`, `FormatProofs`). `WhatIsSaidIsRecordedOnce`,
`CounterpartsAreConversations`, `ProvenDatesAreRight` and `NothingGoesUncounted`
are of any people, utterances, calendar, scale, bounds, order of exports and
imports, and need two hypotheses the code makes necessary: no name ends in a
full stop (`PlainNames`; else a sender is taken for a notice) and the owner gives
their own name or none (`OwnName`; a misspelt one is not refused in a table of
rows). TLC evaluates both in `MCIntake`.

One invariant carries the four (`FormatsInv`, checked by TLC as an invariant of
the `intake` run's instance first): what is told is in order of time, the file at
hand is one of the four exports of it (`Offer`), records and what is due are
one for one and fit (`IsDue`), what a record is of was seen under its name
(`SourceOf`), rows of one file are alike, and nothing is due more often than it was
said. A step that keeps a file's records is then one lemma (`KeepHolds`) over
what a reader yields (`IsBatch`), and there is one lemma per reader that says it
yields that (`ChatBatch`, `RowsBatch`, `BackupBatch`, `MacBatch`).

These rest on `ReaderProofs`, which shows that parsing undoes what the exporting
program did. A reader is a fold over characters, lines or elements, so each is
an automaton with an invariant after every prefix:

- CSV: `Leads` says into which state a piece of text leads whatever stood before it;
  an escaped field leads back out of its quotes, however many quotes, commas and
  line breaks are in it, so the table read is the table written.
- chats: an utterance of several lines stands at one stamped line with its
  continuations (`StandsAt`), which gives `ScanWhatsApp` exactly the stamped lines and
  bodies; calendar arithmetic (`StampOf`) shows that of two orders of day and month
  the one in which a date exists is the right one.
- backups: between two elements nothing is pending (`Between`), and the records are
  those of the elements so far (`RecordsUpTo`).
- the Mac's database: which chats are one conversation (`ConversationsAre`), which of
  them a wish picks (`OnePicked`), and that the rows of its chats, filtered and sorted
  by date, are what was said with that person, in order (`MacOrder`).

Sorting and selecting are stated by `Places`, whose operators are set
comprehensions and choices: the library's `SelectSeq` and `SetToSortSeq` are not
expanded by the prover.

**Custody** (`CustodyProofs`), no hypothesis but for the last two.
`NoOwnerLockedOut`: `AtRestInv` adds that the owner's entry comes before
inheritance is removed and what the way back still has to do. `NothingComesBack`:
`PanelInv` adds where files can lie and that names of backups tell them apart; it
is of the files written before the deletion, and an answer or a copy written after
the sweep may stay. `EveryArchiveOpens`: `MigrationInv` says of the archive and of
every copy, whole or not, that its keys are distinct and fit its release;
`UpgradeKeepsRows` is an action property over it.

- `ImportedOnceMore` (`UpgradedBefore`: an archive that comes with the first
  step behind it has no row whose key is not that of its content and place).
  `KnownOnes` says this of the archive and of every copy from then on: a row is
  found again under the key a new import of it would give, whatever was upgraded,
  refused or killed on the way.
- `AlwaysACopy` (`FingerprintTells`: the cheap fingerprint tells apart the
  archives whose rows are not upgraded, so nothing is said of a change in place
  that it does not see). It is of rows and threads, as they were before the first
  step rewrote them. The code takes a copy with the fingerprint of the archive for
  a copy of the archive, so nothing less will do. `CopyInv`: a copy in the making
  belongs to its opener, and an opener about to upgrade has a whole copy of what
  it upgrades.

TLC evaluates both hypotheses on the instance of the run (`ArchivesAssumption` of
`MCCustody`).

**Lenses** (`LensProofs`), from assumptions about the constants only: rows are
finite in number and what is imported is among them, widths and floors are
positive numbers and the other limits numbers (`ChaptersAssumption`,
`FloorsAssumption`, `MeasuresAssumption`, `CapAssumption`, `ReadingAssumption`), a
tension is a number (`ArchivesAssumption`). `EveryClaimHasItsRows`: rows are
numbered anew after a deletion while jobs, files and results of before are still
on their way, so `ReadingInv` has to say of everything in the airlock (`AirFits`:
jobs, files, results, cache) and of every waiting request (`RequestsFit`) that
what was shown under a hash was shown under it everywhere, and of each frozen
reading that its claims cite rows of its range. `CountsAreOfWhatIsThere`:
`OverviewInv` adds which figures can be cached under which clock.
`NothingWrittenIsLost` is an action property of every way an episode or an era is
written. `NoSideOnHeatAlone`: `GateInv` says that the tables are finite, their
counts numbers, a stage-2 result blank or with finitely many patterns, and that a
bump is never negative. From there it is arithmetic: over the bar is more than the
other (`LeansIsMore`); and a side is only taken when some era trips for it
(`GateTakesTripped`), since the weights of the eras that trip are added and none
is nought. The sum, the power and the runs of fights are folds, recursive
functions whose existence is proved from the finite sets they are over
(`FoldExists`), so nothing has to be known of them in advance.

- `AnsweredIsScored`: `CachedMeansScored`. `ScoresInv` says of every job on disk or
  in the table that it is of a window of some rows, and of every result that can be
  read that it scores its job's own messages: `Good` demands it, and what is cut from
  the answer afterwards is no row (`KeptIdsAre`, `IngestedScores`). The other half is
  that windows tile a range (`WindowsTile`): turns and spans are a sequence
  cut at the places where one begins (`JoinedIsCut`, `TurnsAre`, `SpansAre`), and
  flattening the pieces gives the sequence back (`FlattenedIs`).
- `FightsAreWhole`: `EpisodesAreTheFights`. `Clusters` walks over the hard
  messages and begins anew after a gap; its pieces are the sequence cut at the
  gaps (`ClustersCut`), a piece is what is joined without one (`RunIsRun`), and
  instants tell pieces apart although messages may share one.

**Figures** (`LensProofs`, its second half). `FiguresAreAlike`: `FiguresAgree`,
for any archive, scores, labels and clock (overview, rhythm of the days, river,
trajectory and growth; of the findings nothing is compared), from `GateInv` and
`TensionsInv` (tensions are numbers). Each part rests on one argument:

- sums: a count split by month, quarter, day or side adds up to the whole when
  each message is in one part (`SumByKey`, `BucketsAdd`, `DaysAdd`, `AnswersAdd`,
  `RiverAdds`);
- streaks, months and silent stretches: a left fold keeps what each step
  keeps (`StepsExist`, `StepByStep`), with an invariant for each (`StreakIsOfDays`,
  `GapsAre`);
- thresholds: the proposal is the first of the best by cross-multiplied F1
  (`FirstOfBest`, `DerivedIs`), hence told or severe means hostile
  (`SevereAreHard`);
- draws: three shares of a side's messages that give up to each other what they
  cannot use (`ShareIs`, `ThreeBands`, `DrawsAreFair`);
- plain questions: what is cut at the cap is said to be (`CountsAreHonest`).

**Client** (`ClientProofs`). `AnswersFit`, `DoneIsListed` and `KeptIsShown` need
no hypothesis: requests fail, are lost and cross each other at any time, and what
the code does then is left out by the properties themselves (`crossed`, `missed`,
`early`; section 4). `ShownIsSelected` assumes that the user waits for a reading
before opening its words (`Unhurried`); the code allows otherwise, and the
property then fails. The invariants say of each request that is on its way what it
will find changed when it comes back.

- `TranscriptStaysWhole` (`Patient`: one waits for an older page before one is taken
  elsewhere; the code lets it land on the new place, and the property then fails.
  `Uncrowded`: no instant has more messages of a conversation than a page takes,
  else the message a receipt points at may not be on the page that is opened for it).
  `TranscriptInv`: what is on screen is sorted, leaves out no instant between its
  ends, reaches the end or what it was opened at, and an older page on its way is
  the one for its top. What a page holds (`PageIs`) is a matter of counting the
  newer messages, and that `SortAsc` has a value at all (`SortedIs`) of ranking
  a finite set. `PanelsInv` carries it through everything that opens,
  keeps or moves a transcript; `MCClient` has TLC evaluate `Uncrowded`.

`Counting` holds the facts about finite sets of numbers that these proofs share.

Only model-checked:

- *Liveness*: `EveryAnswerIsIngested`, `EveryBatchSettles`, `LoopEnds`, and
  `EndsEmptyOrStuck`, whose run is the loop's. Out of the prover's reach.
- The two violated properties.

## 6. Not modelled

- Wording: prompts, voice, prices, formatting of any kind; the title and footer
  of a reading; percentages and emoji of the figures.
- Bytes: ZIP archives, `typedstream` beyond "readable or not", telephone numbers
  of each country, MIME parts, full-text search, attachments on disk.
- Arithmetic on means: which cut of the months is the strongest (`Chapters`
  leaves it open), priors of token counts, sentiment of a vocabulary.
- The server's shell: authentication, hosts, status codes, headers.
- Views of the client that ask once when mounted and draw what comes; scroll
  positions, focus, themes.
- The loop of the drain command with the agent or the mock engine; commands that
  make sample data; release scripts, site and examples, outside the program.

`components` in PROJECT.json gives the reason for each.

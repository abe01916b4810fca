----------------------------- MODULE DataPanel -----------------------------
(***************************************************************************)
(* "Your data": the files Between owns, and what the panel and the boot    *)
(* remove of them, while a drain, a backup or an export is under way.      *)
(*                                                                         *)
(* A file is known by its folder and by the archive it tells of: archive   *)
(* era is what there is between two deletions of everything.               *)
(***************************************************************************)
EXTENDS Naturals, FiniteSets

CONSTANTS
    MaxEra,     \* bound on deletions of everything
    MaxFiles,   \* bound on the files there are at a time
    MaxBackups, \* bound on the backups there are at a time
    MaxSecond,  \* bound on the clock that names the backups
    Idle        \* no operation under way

ASSUME EraAssumption == MaxEra \in Nat /\ MaxSecond \in Nat /\ MaxBackups \in Nat /\ MaxFiles \in Nat

VARIABLES
    era,       \* how often everything was deleted
    rows,      \* whether there are messages
    known,     \* source_files: the folders the imported files lie in
    disk,      \* the files
    second,    \* the clock
    under,     \* what each operation under way has in hand: the era it began in
    dest,      \* the backup that is being written
    sweeping,  \* the tables are empty and the files not yet removed
    cut,       \* a kill came between the two
    spared     \* the folders of what the last deletion could not remove

panelVars == <<era, rows, known, disk, second, under, dest, sweeping, cut, spared>>

Transport == {"jobs", "results", "archive", "quarantine"}
Sources == {"data", "data/own", "elsewhere"}
Places == Transport \cup Sources \cup {"exports", "backups", "beside"}
Operations == {"drain", "backup", "export"}

\* of: the era it tells of; put: the era it was written in; name: tells the
\* backups apart; aged: past the retention.
File == [dir : Places, of : 0 .. MaxEra, put : 0 .. MaxEra,
         name : Nat \X Nat, aged : BOOLEAN]

Put(dir, of) == [dir |-> dir, of |-> of, put |-> era, name |-> <<0, 0>>, aged |-> FALSE]
In(dirs) == {f \in disk : f.dir \in dirs}

PanelTypeOK ==
    /\ era \in 0 .. MaxEra
    /\ rows \in BOOLEAN
    /\ known \subseteq Sources
    /\ disk \subseteq File
    /\ second \in 0 .. MaxSecond
    /\ under \in [Operations -> (0 .. MaxEra) \cup {Idle}]
    /\ sweeping \in BOOLEAN /\ cut \in BOOLEAN
    /\ spared \subseteq Places

PanelInit ==
    /\ era = 0
    /\ rows = FALSE
    /\ known = {}
    /\ disk = {}
    /\ second = 0
    /\ under = [o \in Operations |-> Idle]
    /\ dest = Idle
    /\ sweeping = FALSE
    /\ cut = FALSE
    /\ spared = {}

-----------------------------------------------------------------------------
(* What the rest of the program puts on the disk *)

\* A handler of the panel runs to its end before another begins.
Free == ~sweeping

Room == Cardinality(disk) < MaxFiles

\* A file is imported from where the owner keeps it.
Import(dir) ==
    /\ Free /\ Room /\ dir \in Sources \ known
    /\ rows' = TRUE
    /\ known' = known \cup {dir}
    /\ disk' = disk \cup {Put(dir, era)}
    /\ UNCHANGED <<era, second, under, dest, sweeping, cut, spared>>

\* The owner removes one by hand.
Tidy ==
    /\ In({"data"}) # {}
    /\ disk' = disk \ In({"data"})
    /\ UNCHANGED <<era, rows, known, second, under, dest, sweeping, cut, spared>>

\* An upgrade leaves a copy of the archive beside it.
UpgradeCopy ==
    /\ Free /\ Room /\ rows
    /\ disk' = disk \cup {Put("beside", era)}
    /\ UNCHANGED <<era, rows, known, second, under, dest, sweeping, cut, spared>>

Plan ==
    /\ Free /\ Room /\ rows
    /\ disk' = disk \cup {Put("jobs", era)}
    /\ UNCHANGED <<era, rows, known, second, under, dest, sweeping, cut, spared>>

\* An operation reads what it needs and is awaited, in the server or in a
\* command that runs beside it.
Begin(o) ==
    /\ Free /\ rows /\ under[o] = Idle
    /\ o = "drain" => In({"jobs"}) # {}
    /\ o # "backup"
    /\ under' = [under EXCEPT ![o] = era]
    /\ UNCHANGED <<era, rows, known, disk, second, dest, sweeping, cut, spared>>

\* Its answer is written.
Answer(o) ==
    /\ Free /\ Room /\ o # "backup" /\ under[o] # Idle
    /\ disk' = disk \cup {Put(IF o = "drain" THEN "results" ELSE "exports", under[o])}
    /\ under' = [under EXCEPT ![o] = Idle]
    /\ UNCHANGED <<era, rows, known, second, dest, sweeping, cut, spared>>

\* Results are taken in: each is archived with its job, one the archive knows
\* no job for without; one that does not fit its job is quarantined with it.
Ingest ==
    /\ Free /\ In({"results"}) # {}
    /\ LET done == {f.of : f \in In({"results"})}
       IN \E to \in {"archive", "quarantine"} :
             disk' = (disk \ (In({"results"})
                                 \cup {f \in In({"jobs"}) : f.of = era /\ era \in done}))
                     \cup {Put(IF e = era THEN to ELSE "archive", e) : e \in done}
    /\ UNCHANGED <<era, rows, known, second, under, dest, sweeping, cut, spared>>

Age ==
    /\ \E f \in In({"archive"}) : ~f.aged
    /\ disk' = {IF f.dir = "archive" THEN [f EXCEPT !.aged = TRUE] ELSE f : f \in disk}
    /\ UNCHANGED <<era, rows, known, second, under, dest, sweeping, cut, spared>>

Tick ==
    /\ second < MaxSecond
    /\ second' = second + 1
    /\ UNCHANGED <<era, rows, known, disk, under, dest, sweeping, cut, spared>>

-----------------------------------------------------------------------------
(* The panel *)

\* A name no file has yet: the second, and a number if there is one of that second.
FreshName ==
    LET taken == {f.name[2] : f \in {g \in In({"backups"}) : g.name[1] = second}}
    IN <<second, CHOOSE n \in 1 .. MaxBackups :
                    n \notin taken /\ \A k \in 1 .. n - 1 : k \in taken>>

BackupBegins ==
    /\ Free /\ rows /\ under["backup"] = Idle
    /\ Cardinality(In({"backups"})) < MaxBackups
    /\ dest' = FreshName
    /\ under' = [under EXCEPT !["backup"] = era]
    /\ UNCHANGED <<era, rows, known, disk, second, sweeping, cut, spared>>

\* The online copy follows what the server's own connection writes: it ends as
\* a copy of the archive as it is then.
BackupEnds ==
    /\ Free /\ Room /\ under["backup"] # Idle
    /\ disk' = {f \in disk : f.dir # "backups" \/ f.name # dest}
               \cup {[Put("backups", era) EXCEPT !.name = dest]}
    /\ under' = [under EXCEPT !["backup"] = Idle]
    /\ dest' = Idle
    /\ UNCHANGED <<era, rows, known, second, sweeping, cut, spared>>

\* The imported files that lie inside the data folder.
Deletable == In(known \cap {"data", "data/own"})

DeleteSources ==
    /\ Free /\ Deletable # {}
    /\ disk' = disk \ Deletable
    /\ UNCHANGED <<era, rows, known, second, under, dest, sweeping, cut, spared>>

\* What was drained and what was quarantined, not what waits.
Purge ==
    /\ Free /\ In({"archive", "quarantine"}) # {}
    /\ disk' = disk \ In({"archive", "quarantine"})
    /\ UNCHANGED <<era, rows, known, second, under, dest, sweeping, cut, spared>>

\* Everything is deleted: the tables, in one transaction,
EmptyTables ==
    /\ Free /\ era < MaxEra
    /\ rows' = FALSE
    /\ known' = {}
    /\ era' = era + 1
    /\ sweeping' = TRUE
    /\ UNCHANGED <<disk, second, under, dest, cut, spared>>

\* Mutant: by the folders in the settings only.
SweptByFolder == {"exports", "backups", "data"} \cup Transport

\* ... then the folders Between owns.  The owner's own folders in the data
\* folder stay.
Swept == {"exports", "backups", "beside", "data"} \cup Transport

\* A file another program holds open is skipped.
Sweep(held) ==
    /\ sweeping
    /\ disk' = {f \in disk : f.dir \notin Swept} \cup held
    /\ spared' = {f.dir : f \in held}
    /\ sweeping' = FALSE
    /\ cut' = FALSE
    /\ UNCHANGED <<era, rows, known, second, under, dest>>

\* The server, and with it what is under way, ends and boots again; what was
\* drained long ago goes.
BootAgain ==
    /\ under' = [o \in Operations |-> Idle]
    /\ dest' = Idle
    /\ sweeping' = FALSE
    /\ cut' = (cut \/ sweeping)
    /\ disk' = {f \in disk : ~f.aged}
    /\ UNCHANGED <<era, rows, known, second, spared>>

PanelNext ==
    \/ \E d \in Sources : Import(d)
    \/ Tidy \/ UpgradeCopy \/ Plan \/ Ingest \/ Age \/ Tick
    \/ \E o \in Operations : Begin(o) \/ Answer(o)
    \/ BackupBegins \/ BackupEnds
    \/ DeleteSources \/ Purge \/ EmptyTables \/ BootAgain
    \/ \E held \in SUBSET In(Swept) : Cardinality(held) <= 1 /\ Sweep(held)

PanelSpec == PanelInit /\ [][PanelNext]_panelVars

-----------------------------------------------------------------------------
(* Properties *)

Owned == Places \ {"data/own", "elsewhere"}

\* After everything was deleted nothing that Between wrote before is left in
\* any folder of its own, save what another program held open and what a kill
\* in the middle kept from being removed.
DeletedIsGone ==
    ~sweeping /\ ~cut =>
        \A f \in In(Owned) : f.put < era => f.dir \in spared

=============================================================================

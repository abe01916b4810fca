---------------------------- MODULE CustodyProofs ----------------------------
(***************************************************************************)
(* Proofs about the archive as a file, for any paths, any number of faults, *)
(* any deletions and any archives older releases left.  Each part has an     *)
(* inductive invariant of its own, and a step of one leaves the others.      *)
(***************************************************************************)
EXTENDS Custody, Counting

-----------------------------------------------------------------------------
(* Access at rest (atRest.ts)                                               *)

\* What the boot has not come to, or is in the middle of, it has said nothing of;
\* what it gave up it has called failed.
ReportsLast ==
    /\ \A p \in todo : reported[p] = "nothing"
    /\ step \in {"grant", "drop", "verify", "caught"} => reported[target] = "nothing"
    /\ step = "rollback" => reported[target] # "ok"
    /\ step \in {"grant", "drop", "verify", "caught", "rollback"} => target \notin todo

\* Between the two commands the owner's own entry is there already.
EntryFirst ==
    step = "drop" => acl[target].own /\ (target \in Folders => acl[target].passes)

\* No owner is locked out, but behind two failures, or behind one on the path at work.
LetIn(p) ==
    \/ OwnerStillHasAccess(p)
    \/ reported[p] # "ok" /\ faults > 1
    \/ reported[p] # "ok" /\ p = target /\ step \in {"verify", "caught", "rollback"} /\ faults > 0

AtRestInv == AtRestTypeOK /\ ReportsLast /\ EntryFirst /\ \A p \in Paths : LetIn(p)

LEMMA AtRestInitInv == AtRestInit => AtRestInv
BY PathAssumption, FaultAssumption
   DEF AtRestInit, AtRestInv, AtRestTypeOK, ReportsLast, EntryFirst, LetIn, OwnerStillHasAccess, Untouched, Entries

\* One step of a boot, or a kill in it, keeps every owner in.
LEMMA AtRestStep ==
    ASSUME AtRestInv, AtRestNext
    PROVE  AtRestInv'
<1> USE FaultAssumption
        DEF AtRestInv, AtRestTypeOK, ReportsLast, EntryFirst, LetIn, OwnerStillHasAccess, Entries, Goto, Fault, Report
<1>1. ASSUME NEW p \in Paths, Take(p) PROVE AtRestInv'
  BY <1>1 DEF Take
<1>2. CASE Grant(target)
  BY <1>2, ZenonT(30) DEF Grant, OwnerEntry
<1>3. CASE Drop(target)
  BY <1>3, ZenonT(30) DEF Drop
<1>4. CASE ChangeMode(target)
  BY <1>4, ZenonT(30) DEF ChangeMode, OwnerEntry
<1>5. CASE NoUser(target)
  BY <1>5 DEF NoUser
<1>6. CASE CommandFails(target)
  <2>1. CASE acl' = acl
    BY <1>6, <2>1 DEF CommandFails
  <2>2. CASE acl' = [acl EXCEPT ![target] = [own |-> FALSE, inherits |-> FALSE, passes |-> FALSE]]
    BY <1>6, <2>2 DEF CommandFails
  <2> QED BY <1>6, <2>1, <2>2 DEF CommandFails
<1>7. CASE CommandHarms(target)
  BY <1>7 DEF CommandHarms
<1>8. CASE Verify(target)
  BY <1>8 DEF Verify
<1>9. CASE Caught(target)
  BY <1>9 DEF Caught
<1>10. CASE Rollback(target)
  BY <1>10, ZenonT(30) DEF Rollback, OwnerEntry, Untouched
<1>11. CASE RollbackFails(target)
  BY <1>11 DEF RollbackFails
<1>12. CASE Finish
  BY <1>12 DEF Finish
<1>13. CASE Reboot
  BY <1>13 DEF Reboot
<1> QED
  BY <1>1, <1>2, <1>3, <1>4, <1>5, <1>6, <1>7, <1>8, <1>9, <1>10, <1>11, <1>12, <1>13 DEF AtRestNext

-----------------------------------------------------------------------------
(* "Your data" (dataPanel.ts)                                               *)

Name == Nat \X Nat

FilesOK ==
    /\ disk \subseteq File /\ IsFiniteSet(disk)
    /\ \A f \in disk : f.put <= era

\* A backup that is being written has a name.
NamedOK == under["backup"] # Idle => dest \in Name

PanelInv == PanelTypeOK /\ FilesOK /\ NamedOK /\ DeletedIsGone

LEMMA PanelInitInv == PanelInit => PanelInv
<1> SUFFICES ASSUME PanelInit PROVE PanelInv
  OBVIOUS
<1>1. PanelTypeOK
  <2>1. era \in 0 .. MaxEra /\ second \in 0 .. MaxSecond
    BY EraAssumption DEF PanelInit
  <2>2. under \in [Operations -> (0 .. MaxEra) \cup {Idle}]
    BY DEF PanelInit
  <2> QED BY <2>1, <2>2 DEF PanelInit, PanelTypeOK
<1>2. FilesOK /\ NamedOK /\ DeletedIsGone
  BY FS_EmptySet DEF PanelInit, FilesOK, NamedOK, DeletedIsGone, Operations, In
<1> QED BY <1>1, <1>2 DEF PanelInv

\* A backup begins under a name no backup on the disk has, as there are fewer
\* backups than numbers.
LEMMA FreshNameIsFree ==
    ASSUME disk \subseteq File, IsFiniteSet(disk), second \in Nat, Cardinality(In({"backups"})) < MaxBackups
    PROVE  FreshName \in Name /\ \A f \in In({"backups"}) : f.name # FreshName
<1> DEFINE mine == {g \in In({"backups"}) : g.name[1] = second}
           num == [f \in mine |-> f.name[2]]
           taken == {f.name[2] : f \in mine}
           free == (1 .. MaxBackups) \ taken
<1>1. IsFiniteSet(In({"backups"})) /\ IsFiniteSet(mine) /\ Cardinality(mine) <= Cardinality(In({"backups"}))
  BY FS_Subset DEF In
<1>2. taken = {num[f] : f \in mine}
  OBVIOUS
<1>3. IsFiniteSet(taken) /\ Cardinality(taken) <= Cardinality(mine)
  <2> HIDE DEF taken, mine
  <2>1. DOMAIN num = mine
    OBVIOUS
  <2> HIDE DEF num
  <2> QED BY <1>1, <1>2, <2>1, FiniteImage
<1>4. free # {}
  <2> SUFFICES ASSUME 1 .. MaxBackups \subseteq taken PROVE FALSE
    OBVIOUS
  <2>1. Cardinality(1 .. MaxBackups) <= Cardinality(taken)
    BY <1>3, FS_Subset
  <2>2. Cardinality(1 .. MaxBackups) = MaxBackups
    BY EraAssumption, FS_Interval
  <2>3. /\ Cardinality(taken) \in Nat /\ Cardinality(mine) \in Nat
        /\ Cardinality(In({"backups"})) \in Nat
    BY <1>1, <1>3, FS_CardinalityType
  <2> QED BY <1>1, <1>3, <2>1, <2>2, <2>3, EraAssumption
<1>5. PICK n \in free : \A m \in free : n <= m
  <2>1. free \in SUBSET Nat
    BY EraAssumption
  <2> QED BY <1>4, <2>1, LeastNatural
<1>6. n \in 1 .. MaxBackups /\ n \notin taken /\ \A k \in 1 .. n - 1 : k \in taken
  BY <1>5, EraAssumption
<1> DEFINE chosen == CHOOSE m \in 1 .. MaxBackups : m \notin taken /\ \A k \in 1 .. m - 1 : k \in taken
<1>7. chosen \in 1 .. MaxBackups /\ chosen \notin taken
  BY <1>6
<1>8. FreshName = <<second, chosen>>
  BY DEF FreshName
<1> HIDE DEF chosen
<1> QED BY <1>7, <1>8, EraAssumption DEF Name

\* A step that removes files, or adds some written in this era, hides nothing old in a
\* folder of Between's.
LEMMA DiskStep ==
    ASSUME PanelInv, UNCHANGED <<era, sweeping, cut, spared>>,
           disk' \subseteq File, IsFiniteSet(disk'),
           \A f \in disk' : f.put <= era /\ (f.put < era => \E g \in disk : g.put = f.put /\ g.dir = f.dir)
    PROVE  FilesOK' /\ DeletedIsGone'
BY DEF PanelInv, FilesOK, DeletedIsGone, In

LEMMA PutIsFile ==
    ASSUME PanelInv, NEW dir \in Places, NEW of \in 0 .. MaxEra
    PROVE  Put(dir, of) \in File /\ Put(dir, of).put = era /\ Put(dir, of).dir = dir
BY EraAssumption DEF PanelInv, PanelTypeOK, Put, File

\* One more file, written now.
LEMMA AddStep ==
    ASSUME PanelInv, UNCHANGED <<era, sweeping, cut, spared>>,
           NEW f \in File, f.put = era, NEW less \in SUBSET disk, disk' = less \cup {f}
    PROVE  FilesOK' /\ DeletedIsGone' /\ disk' \subseteq File
<1>1. IsFiniteSet(less) /\ IsFiniteSet(disk')
  BY FS_Subset, FS_AddElement DEF PanelInv, FilesOK
<1>2. disk' \subseteq File
  BY DEF PanelInv, FilesOK
<1>3. \A g \in disk' : g.put <= era /\ (g.put < era => \E h \in disk : h.put = g.put /\ h.dir = g.dir)
  BY EraAssumption DEF PanelInv, FilesOK, PanelTypeOK
<1> QED BY <1>1, <1>2, <1>3, DiskStep

\* Files go.
LEMMA LessStep ==
    ASSUME PanelInv, UNCHANGED <<era, sweeping, cut, spared>>, disk' \subseteq disk
    PROVE  FilesOK' /\ DeletedIsGone' /\ disk' \subseteq File
<1>1. IsFiniteSet(disk')
  BY FS_Subset DEF PanelInv, FilesOK
<1> QED BY <1>1, DiskStep DEF PanelInv, FilesOK

\* Results are taken in: what is archived or quarantined is written now.
LEMMA IngestDisk ==
    ASSUME PanelInv, Ingest
    PROVE  FilesOK' /\ DeletedIsGone'
<1> DEFINE done == {f.of : f \in In({"results"})}
<1>1. PICK to \in {"archive", "quarantine"} :
         disk' = (disk \ (In({"results"}) \cup {f \in In({"jobs"}) : f.of = era /\ era \in done}))
                 \cup {Put(IF e = era THEN to ELSE "archive", e) : e \in done}
  BY DEF Ingest
<1> DEFINE less == disk \ (In({"results"}) \cup {f \in In({"jobs"}) : f.of = era /\ era \in done})
           made == [e \in done |-> Put(IF e = era THEN to ELSE "archive", e)]
           new == {made[e] : e \in done}
<1>2. disk' = less \cup new
  BY <1>1
<1>3. done \subseteq 0 .. MaxEra
  BY DEF PanelInv, FilesOK, In, File
<1>4. \A f \in new : f \in File /\ f.put = era
  <2> SUFFICES ASSUME NEW e \in done PROVE made[e] \in File /\ made[e].put = era
    BY ZenonT(30)
  <2>1. (IF e = era THEN to ELSE "archive") \in Places
    BY DEF Places, Transport
  <2> QED BY <1>3, <2>1, PutIsFile
<1>5. IsFiniteSet(new)
  <2>1. IsFiniteSet(done)
    <3>1. IsFiniteSet(0 .. MaxEra)
      BY EraAssumption, FS_Interval
    <3> HIDE DEF done
    <3> QED BY <1>3, <3>1, FS_Subset
  <2>2. DOMAIN made = done
    OBVIOUS
  <2> HIDE DEF made, done
  <2> QED BY <2>1, <2>2, FiniteImage
<1>6. less \subseteq disk /\ IsFiniteSet(less)
  BY FS_Subset DEF PanelInv, FilesOK
<1> HIDE DEF less, new, made
<1>7. IsFiniteSet(disk') /\ disk' \subseteq File
  BY <1>2, <1>4, <1>5, <1>6, FS_Union DEF PanelInv, FilesOK
<1>8. \A g \in disk' : g.put <= era /\ (g.put < era => \E h \in disk : h.put = g.put /\ h.dir = g.dir)
  BY <1>2, <1>4, <1>6, EraAssumption DEF PanelInv, FilesOK, PanelTypeOK
<1> QED BY <1>7, <1>8, DiskStep DEF Ingest

\* Time passes over what was archived: the files stay what they are.
LEMMA AgeDisk ==
    ASSUME PanelInv, Age
    PROVE  FilesOK' /\ DeletedIsGone'
<1> DEFINE older == [f \in disk |-> IF f.dir = "archive" THEN [f EXCEPT !.aged = TRUE] ELSE f]
<1>1. disk' = {older[f] : f \in disk}
  BY DEF Age
<1>2. \A f \in disk : older[f] \in File /\ older[f].put = f.put /\ older[f].dir = f.dir
  BY DEF PanelInv, FilesOK, File
<1>3. DOMAIN older = disk
  OBVIOUS
<1> HIDE DEF older
<1>4. IsFiniteSet(disk')
  BY <1>1, <1>3, FiniteImage DEF PanelInv, FilesOK
<1>5. disk' \subseteq File
  BY <1>1, <1>2
<1>6. \A g \in disk' : g.put <= era /\ (g.put < era => \E h \in disk : h.put = g.put /\ h.dir = g.dir)
  BY <1>1, <1>2 DEF PanelInv, FilesOK
<1> QED BY <1>4, <1>5, <1>6, DiskStep DEF Age

LEMMA PanelStep ==
    ASSUME PanelInv, PanelNext
    PROVE  PanelInv'
<1> USE DEF PanelInv, NamedOK
<1>1. ASSUME NEW d \in Sources, Import(d) PROVE PanelInv'
  <2>1. Put(d, era) \in File /\ Put(d, era).put = era
    BY PutIsFile DEF PanelTypeOK, Places
  <2>2. FilesOK' /\ DeletedIsGone' /\ disk' \subseteq File
    BY <1>1, <2>1, AddStep DEF Import
  <2> QED BY <1>1, <2>2 DEF Import, PanelTypeOK
<1>2. CASE UpgradeCopy
  <2>1. Put("beside", era) \in File /\ Put("beside", era).put = era
    BY PutIsFile DEF PanelTypeOK, Places
  <2>2. FilesOK' /\ DeletedIsGone' /\ disk' \subseteq File
    BY <1>2, <2>1, AddStep DEF UpgradeCopy
  <2> QED BY <1>2, <2>2 DEF UpgradeCopy, PanelTypeOK
<1>3. CASE Plan
  <2>1. Put("jobs", era) \in File /\ Put("jobs", era).put = era
    BY PutIsFile DEF PanelTypeOK, Places, Transport
  <2>2. FilesOK' /\ DeletedIsGone' /\ disk' \subseteq File
    BY <1>3, <2>1, AddStep DEF Plan
  <2> QED BY <1>3, <2>2 DEF Plan, PanelTypeOK
<1>4. CASE Tidy \/ DeleteSources \/ Purge
  <2>1. disk' \subseteq disk /\ UNCHANGED <<era, rows, known, second, under, dest, sweeping, cut, spared>>
    BY <1>4 DEF Tidy, DeleteSources, Purge
  <2>2. FilesOK' /\ DeletedIsGone' /\ disk' \subseteq File
    BY <2>1, LessStep
  <2> QED BY <2>1, <2>2 DEF PanelTypeOK
<1>5. CASE Ingest
  <2>1. FilesOK' /\ DeletedIsGone'
    BY <1>5, IngestDisk
  <2> QED BY <1>5, <2>1 DEF Ingest, PanelTypeOK, FilesOK
<1>6. CASE Age
  <2>1. FilesOK' /\ DeletedIsGone'
    BY <1>6, AgeDisk
  <2> QED BY <1>6, <2>1 DEF Age, PanelTypeOK, FilesOK
<1>7. CASE Tick
  BY <1>7, EraAssumption DEF Tick, PanelTypeOK, FilesOK, DeletedIsGone, In
<1>8. ASSUME NEW o \in Operations, Begin(o) PROVE PanelInv'
  BY <1>8 DEF Begin, PanelTypeOK, FilesOK, DeletedIsGone, In, Operations
<1>9. ASSUME NEW o \in Operations, Answer(o) PROVE PanelInv'
  <2> DEFINE dir == IF o = "drain" THEN "results" ELSE "exports"
  <2>1. Put(dir, under[o]) \in File /\ Put(dir, under[o]).put = era
    <3>1. dir \in Places /\ under[o] \in 0 .. MaxEra
      BY <1>9 DEF Answer, PanelTypeOK, Places, Transport
    <3> QED BY <3>1, PutIsFile
  <2>2. FilesOK' /\ DeletedIsGone' /\ disk' \subseteq File
    BY <1>9, <2>1, AddStep DEF Answer
  <2> QED BY <1>9, <2>2 DEF Answer, PanelTypeOK, Operations
<1>10. CASE BackupBegins
  <2>1. FreshName \in Name
    BY <1>10, FreshNameIsFree DEF BackupBegins, FilesOK, PanelTypeOK
  <2> QED BY <1>10, <2>1 DEF BackupBegins, PanelTypeOK, FilesOK, DeletedIsGone, In, Operations
<1>11. CASE BackupEnds
  <2> DEFINE f == [Put("backups", era) EXCEPT !.name = dest]
  <2>1. f \in File /\ f.put = era
    <3>1. Put("backups", era) \in File /\ Put("backups", era).put = era
      BY PutIsFile DEF PanelTypeOK, Places
    <3> QED BY <1>11, <3>1 DEF BackupEnds, File, Name
  <2>2. FilesOK' /\ DeletedIsGone' /\ disk' \subseteq File
    <3> HIDE DEF f
    <3>1. disk' = {g \in disk : g.dir # "backups" \/ g.name # dest} \cup {f}
      BY <1>11 DEF BackupEnds, f
    <3>2. UNCHANGED <<era, sweeping, cut, spared>>
      BY <1>11 DEF BackupEnds
    <3> QED BY <2>1, <3>1, <3>2, AddStep
  <2> QED BY <1>11, <2>2 DEF BackupEnds, PanelTypeOK, Operations
<1>12. CASE EmptyTables
  <2>1. \A f \in disk : f.put \in Nat
    BY EraAssumption DEF FilesOK, File
  <2>2. PanelTypeOK'
    <3>1. era' \in 0 .. MaxEra
      BY <1>12, EraAssumption DEF EmptyTables, PanelTypeOK
    <3> QED BY <1>12, <3>1 DEF EmptyTables, PanelTypeOK
  <2>3. FilesOK'
    BY <1>12, <2>1, EraAssumption DEF EmptyTables, PanelTypeOK, FilesOK
  <2>4. NamedOK' /\ DeletedIsGone'
    BY <1>12 DEF EmptyTables, DeletedIsGone
  <2> QED BY <2>2, <2>3, <2>4
<1>13. CASE BootAgain
  <2>1. IsFiniteSet(disk')
    BY <1>13, FS_Subset DEF BootAgain, FilesOK
  <2> QED BY <1>13, <2>1 DEF BootAgain, PanelTypeOK, FilesOK, DeletedIsGone, In, Operations
<1>14. ASSUME NEW held \in SUBSET In(Swept), Sweep(held) PROVE PanelInv'
  <2>1. disk' \subseteq disk
    BY <1>14 DEF Sweep, In
  <2>2. IsFiniteSet(disk')
    BY <2>1, FS_Subset DEF FilesOK
  <2>3. Owned = Swept
    BY DEF Owned, Swept, Places, Transport, Sources
  <2>4. DeletedIsGone'
    BY <1>14, <2>3 DEF Sweep, DeletedIsGone, In
  <2>5. spared' \subseteq Places
    BY <1>14 DEF Sweep, In, PanelTypeOK, File
  <2> QED BY <1>14, <2>1, <2>2, <2>4, <2>5 DEF Sweep, PanelTypeOK, FilesOK
<1> QED
  BY <1>1, <1>2, <1>3, <1>4, <1>5, <1>6, <1>7, <1>8, <1>9, <1>10, <1>11, <1>12, <1>13, <1>14 DEF PanelNext

-----------------------------------------------------------------------------
(* Opening an archive of an older release (migrate.ts)                      *)

\* A batch whose rows all bring ids of their own, as the rows of an archive do.
Identified(batch) ==
    /\ IsFiniteSet(batch)
    /\ \A m \in batch : m.at \in Nat /\ m.native \in Nat
    /\ \A m, n \in batch : m.native = n.native => m = n

GroupIn(m, batch) == {n \in batch : GroupOf(n) = GroupOf(m)}

\* In such a batch the scan order is total, and every row starts a run.
LEMMA ScanOrder ==
    ASSUME NEW batch, Identified(batch), NEW g \in SUBSET batch
    PROVE  /\ \A m, n \in batch : Identity(m) = Identity(n) <=> m = n
           /\ \A m, n \in batch : m # n => Precedes(m, n) \/ Precedes(n, m)
           /\ \A m \in batch : ~Precedes(m, m)
           /\ \A m, n, k \in batch : Precedes(m, n) /\ Precedes(n, k) => Precedes(m, k)
           /\ \A m \in g : StartsRun(m, g)
<1>1. \A m \in batch : Identity(m) = <<0, m.native, 0>>
  BY NoIdAssumption DEF Identified, Identity
<1>2. \A m, n \in batch : Identity(m) = Identity(n) <=> m = n
  BY <1>1 DEF Identified
<1>3. \A m, n \in batch : Precedes(m, n) <=> m.at < n.at \/ (m.at = n.at /\ m.native < n.native)
  BY <1>1 DEF Precedes, IdBefore, Identified
<1>4. \A m, n \in batch : m # n => Precedes(m, n) \/ Precedes(n, m)
  BY <1>3 DEF Identified
<1>5. \A m \in batch : ~Precedes(m, m)
  BY <1>3 DEF Identified
<1>6. \A m, n, k \in batch : Precedes(m, n) /\ Precedes(n, k) => Precedes(m, k)
  BY <1>3 DEF Identified
<1>7. \A m \in g : StartsRun(m, g)
  BY <1>2, <1>5 DEF StartsRun
<1> QED BY <1>2, <1>4, <1>5, <1>6, <1>7

\* The place of a row in its group is before that of every later one.
LEMMA PlacesAscend ==
    ASSUME NEW batch, Identified(batch), NEW g \in SUBSET batch,
           NEW m \in g, NEW n \in g, Precedes(m, n)
    PROVE  Occurrence(m, g) # Occurrence(n, g)
<1> DEFINE counted(x) == {y \in g : ~Precedes(x, y) /\ StartsRun(y, g)}
           seen(x) == {<<y.at, Identity(y)>> : y \in counted(x)}
           told == [y \in counted(n) |-> <<y.at, Identity(y)>>]
<1>1. counted(m) \subseteq counted(n) /\ n \in counted(n) /\ n \notin counted(m)
  BY ScanOrder
<1>2. seen(m) \subseteq seen(n) /\ <<n.at, Identity(n)>> \in seen(n)
  BY <1>1
<1>3. <<n.at, Identity(n)>> \notin seen(m)
  BY <1>1, ScanOrder
<1>4. IsFiniteSet(seen(n))
  <2>1. IsFiniteSet(counted(n))
    BY FS_Subset DEF Identified
  <2>2. seen(n) = {told[y] : y \in counted(n)} /\ DOMAIN told = counted(n)
    OBVIOUS
  <2> HIDE DEF counted, seen, told
  <2> QED BY <2>1, <2>2, FiniteImage
<1>5. Occurrence(m, g) = Cardinality(seen(m)) /\ Occurrence(n, g) = Cardinality(seen(n))
  BY DEF Occurrence
<1> HIDE DEF seen
<1> QED BY <1>2, <1>3, <1>4, <1>5, StrictlyFewer

\* No two rows that bring their own ids are given one key.
LEMMA KeysTellApart ==
    ASSUME NEW batch, Identified(batch), NEW m \in batch, NEW n \in batch, KeyIn(m, batch) = KeyIn(n, batch)
    PROVE  m = n
<1> SUFFICES ASSUME m # n PROVE FALSE
  OBVIOUS
<1>1. GroupOf(m) = GroupOf(n) /\ Occurrence(m, GroupIn(m, batch)) = Occurrence(n, GroupIn(n, batch))
  BY DEF KeyIn, GroupIn
<1> DEFINE g == GroupIn(m, batch)
<1>2. g \in SUBSET batch /\ m \in g /\ n \in g /\ g = GroupIn(n, batch)
  BY <1>1 DEF GroupIn
<1>3. Precedes(m, n) \/ Precedes(n, m)
  BY ScanOrder
<1> HIDE DEF g
<1> QED BY <1>1, <1>2, <1>3, PlacesAscend DEF g

\* An archive of either release, as its schema and the release that wrote it keep it.
Sound(a) == ArchiveOK(a) /\ IsFiniteSet(a.messages) /\ Distinct(a) /\ KeysFit(a)

CopyOK(f) ==
    /\ f = [stamp |-> f.stamp, version |-> f.version, whole |-> f.whole, of |-> f.of]
    /\ Sound(f.of)

MigrationInv ==
    /\ Sound(live)
    /\ \A f \in copies : CopyOK(f)
    /\ stage \in [Openers -> {"closed", "schema", "copy", "apply", "open"}]

LEMMA ParticipantsAreKeys ==
    ASSUME NEW t \in Thread
    PROVE  Participants(t) \in SUBSET ({"member", "self"} \X Nat \X Nat)
<1>1. ASSUME NEW people \in SUBSET Contacts, NEW role \in {"member", "self"},
             NEW k \in KeysOf(people, role)
      PROVE  k \in {"member", "self"} \X Nat \X Nat
  <2> DEFINE sharing(c) == {d \in people : KeyOf[d] = KeyOf[c]}
  <2>1. PICK c \in people : KeyOf[c] # None /\ k = <<role, KeyOf[c], Cardinality(sharing(c))>>
    BY DEF KeysOf
  <2>2. KeyOf[c] \in Nat
    BY <2>1, KeyAssumption DEF Contacts
  <2>3. Cardinality(sharing(c)) \in Nat
    <3>1. IsFiniteSet(people)
      BY KeyAssumption, FS_Subset
    <3>2. sharing(c) \in SUBSET people
      OBVIOUS
    <3> QED BY <3>1, <3>2, FS_Subset, FS_CardinalityType
  <2> HIDE DEF sharing
  <2> QED BY <2>1, <2>2, <2>3
<1>2. t.members \in SUBSET Contacts /\ t.owners \in SUBSET Contacts
  BY DEF Thread
<1> QED BY <1>1, <1>2 DEF Participants

\* The threads keep their ids, and of those with the same people one is signed.
LEMMA SignedIsSound ==
    ASSUME NEW threads \in SUBSET Thread,
           \A t, u \in threads : t.id = u.id \/ t.sig = u.sig => t = u
    PROVE  /\ Signed(threads) \in SUBSET Thread
           /\ \A t, u \in Signed(threads) : t.id = u.id \/ t.sig = u.sig => t = u
           /\ {<<t.id, t.members, t.owners>> : t \in Signed(threads)}
                 = {<<t.id, t.members, t.owners>> : t \in threads}
<1> DEFINE sig(t) == IF FirstWith(t, threads) THEN <<"set", Participants(t)>> ELSE <<"legacy", t.id>>
           signed(t) == [t EXCEPT !.sig = sig(t)]
<1>1. Signed(threads) = {signed(t) : t \in threads}
  BY DEF Signed
<1>2. ASSUME NEW t \in threads
      PROVE  sig(t) \in Sig
  BY ParticipantsAreKeys DEF Sig, Thread, Ids
<1>3. \A t \in threads : signed(t) = [id |-> t.id, sig |-> sig(t), members |-> t.members, owners |-> t.owners]
  BY DEF Thread
<1>4. ASSUME NEW t \in threads, NEW u \in threads, sig(t) = sig(u)
      PROVE  t = u
  <2>1. CASE FirstWith(t, threads)
    <3>1. FirstWith(u, threads) /\ Participants(t) = Participants(u)
      BY <1>4, <2>1
    <3>2. t.id <= u.id /\ u.id <= t.id
      BY <2>1, <3>1 DEF FirstWith
    <3> QED BY <3>2 DEF Thread, Ids
  <2>2. CASE ~FirstWith(t, threads)
    BY <1>4, <2>2
  <2> QED BY <2>1, <2>2
<1> HIDE DEF sig, signed
<1>5. Signed(threads) \in SUBSET Thread
  BY <1>1, <1>2, <1>3 DEF Thread
<1>6. ASSUME NEW t \in threads, NEW u \in threads, signed(t).id = signed(u).id \/ signed(t).sig = signed(u).sig
      PROVE  signed(t) = signed(u)
  BY <1>3, <1>4, <1>6
<1>7. {<<t.id, t.members, t.owners>> : t \in Signed(threads)} = {<<t.id, t.members, t.owners>> : t \in threads}
  BY <1>1, <1>3
<1> QED BY <1>1, <1>5, <1>6, <1>7

\* The rows of an archive, as keyBatch is given them.
LEMMA RowsAreIdentified ==
    ASSUME NEW a, Sound(a)
    PROVE  /\ IsFiniteSet(Rows(a)) /\ Rows(a) \in SUBSET Row
           /\ \A q, r \in Rows(a) : q.id = r.id => q = r
           /\ Identified({ItemOf(q, a.threads) : q \in Rows(a)})
<1> DEFINE items == {ItemOf(q, a.threads) : q \in Rows(a)}
           rowOf == [m \in a.messages |-> m.row]
           itemOf == [r \in Rows(a) |-> ItemOf(r, a.threads)]
<1>1. Rows(a) = {rowOf[m] : m \in a.messages} /\ DOMAIN rowOf = a.messages
  BY DEF Rows
<1>2. IsFiniteSet(Rows(a))
  <2> HIDE DEF rowOf
  <2> QED BY <1>1, FiniteImage DEF Sound
<1>3. Rows(a) \in SUBSET Row /\ \A q, r \in Rows(a) : q.id = r.id => q = r
  BY DEF Rows, Sound, ArchiveOK, Distinct
<1>4. items = {itemOf[r] : r \in Rows(a)} /\ DOMAIN itemOf = Rows(a)
  OBVIOUS
<1>5. IsFiniteSet(items)
  <2> HIDE DEF items, itemOf
  <2> QED BY <1>2, <1>4, FiniteImage
<1>6. \A r \in Rows(a) : ItemOf(r, a.threads).at = r.at /\ ItemOf(r, a.threads).native = r.id
  BY DEF ItemOf
<1>7. \A m \in items : m.at \in Nat /\ m.native \in Nat
  BY <1>3, <1>6 DEF Row, Ids
<1>8. \A m, n \in items : m.native = n.native => m = n
  BY <1>3, <1>6
<1> QED BY <1>2, <1>3, <1>5, <1>7, <1>8 DEF Identified

\* Every row is given its key, no two the same one, and says what it said.
LEMMA KeyedIsSound ==
    ASSUME NEW a, Sound(a)
    PROVE  /\ IsFiniteSet(Keyed(a))
           /\ \A m \in Keyed(a) : /\ m.row \in Row /\ m.key[1] = "key"
                                  /\ \E q \in Rows(a) : m.row.thread = q.thread
           /\ \A m, n \in Keyed(a) : m.row.id = n.row.id \/ m.key = n.key => m = n
           /\ {Said(m) : m \in Keyed(a)} = {Said(m) : m \in a.messages}
           /\ Keyed(a) = {[row |-> [r EXCEPT !.kind = KindFromPath(r.path)],
                           key |-> <<"key", RowKey(r, a)>>] : r \in Rows(a)}
<1> DEFINE row(r) == [r EXCEPT !.kind = KindFromPath(r.path)]
           message(r) == [row |-> row(r), key |-> <<"key", RowKey(r, a)>>]
           made == [r \in Rows(a) |-> message(r)]
<1>1. /\ IsFiniteSet(Rows(a)) /\ Rows(a) \in SUBSET Row
      /\ \A q, r \in Rows(a) : q.id = r.id => q = r
  BY RowsAreIdentified
<1>2. ASSUME NEW q \in Rows(a), NEW r \in Rows(a), RowKey(q, a) = RowKey(r, a)
      PROVE  q = r
  <2>1. ItemOf(q, a.threads) = ItemOf(r, a.threads)
    <3> DEFINE items == {ItemOf(x, a.threads) : x \in Rows(a)}
               one == ItemOf(q, a.threads)
               other == ItemOf(r, a.threads)
    <3>1. Identified(items) /\ one \in items /\ other \in items
      BY RowsAreIdentified
    <3>2. KeyIn(one, items) = KeyIn(other, items)
      BY <1>2 DEF RowKey
    <3> HIDE DEF items, one, other
    <3>3. one = other
      BY <3>1, <3>2, KeysTellApart
    <3> QED BY <3>3 DEF one, other
  <2>2. q.id = r.id
    BY <2>1 DEF ItemOf
  <2> QED BY <1>1, <2>2
<1>3. Keyed(a) = {message(r) : r \in Rows(a)}
  <2>1. \A r \in Rows(a) : ~ \E q \in Rows(a) : q.id < r.id /\ RowKey(q, a) = RowKey(r, a)
    BY <1>1, <1>2 DEF Row, Ids
  <2> QED BY <2>1 DEF Keyed
<1>4. IsFiniteSet(Keyed(a))
  <2>1. Keyed(a) = {made[r] : r \in Rows(a)} /\ DOMAIN made = Rows(a)
    BY <1>3
  <2> HIDE DEF made
  <2> QED BY <1>1, <2>1, FiniteImage
<1>5. ASSUME NEW r \in Rows(a)
      PROVE  row(r) \in Row /\ row(r).id = r.id /\ row(r).thread = r.thread
  BY <1>1 DEF Row, KindFromPath
<1>6. \A m \in Keyed(a) : m.row \in Row /\ m.key[1] = "key" /\ \E q \in Rows(a) : m.row.thread = q.thread
  <2> HIDE DEF row
  <2> QED BY <1>3, <1>5
<1>7. \A m, n \in Keyed(a) : m.row.id = n.row.id \/ m.key = n.key => m = n
  <2> HIDE DEF row
  <2> QED BY <1>1, <1>2, <1>3, <1>5
<1>8. {Said(m) : m \in Keyed(a)} = {Said(m) : m \in a.messages}
  <2>1. \A r \in Rows(a) : Said(message(r)) = [r EXCEPT !.kind = "none"]
    BY <1>1 DEF Said, Row
  <2>2. {Said(m) : m \in Keyed(a)} = {[r EXCEPT !.kind = "none"] : r \in Rows(a)}
    <3> HIDE DEF message, row
    <3> QED BY <1>3, <2>1
  <2> QED BY <2>2 DEF Said, Rows
<1> QED BY <1>3, <1>4, <1>6, <1>7, <1>8

\* The first step leaves a sound archive that says what it said.
LEMMA UpgradedIsSound ==
    ASSUME NEW a, Sound(a)
    PROVE  /\ Sound(ApplyV1(a))
           /\ {Said(m) : m \in ApplyV1(a).messages} = {Said(m) : m \in a.messages}
           /\ {<<t.id, t.members, t.owners>> : t \in ApplyV1(a).threads}
                 = {<<t.id, t.members, t.owners>> : t \in a.threads}
<1>1. ApplyV1(a) = [has |-> a.has \cup {1}, threads |-> Signed(a.threads), messages |-> Keyed(a)]
  BY DEF ApplyV1
<1>2. /\ Signed(a.threads) \in SUBSET Thread
      /\ \A t, u \in Signed(a.threads) : t.id = u.id \/ t.sig = u.sig => t = u
      /\ {<<t.id, t.members, t.owners>> : t \in Signed(a.threads)}
            = {<<t.id, t.members, t.owners>> : t \in a.threads}
  BY SignedIsSound DEF Sound, ArchiveOK, Distinct
<1>3. /\ IsFiniteSet(Keyed(a))
      /\ \A m \in Keyed(a) : /\ m.row \in Row /\ m.key[1] = "key"
                             /\ \E q \in Rows(a) : m.row.thread = q.thread
      /\ \A m, n \in Keyed(a) : m.row.id = n.row.id \/ m.key = n.key => m = n
      /\ {Said(m) : m \in Keyed(a)} = {Said(m) : m \in a.messages}
  BY KeyedIsSound
<1>4. ASSUME NEW q \in Rows(a)
      PROVE  \E t \in Signed(a.threads) : t.id = q.thread
  <2>1. PICK t \in a.threads : t.id = q.thread
    BY DEF Sound, ArchiveOK, Rows
  <2>2. \E u \in Signed(a.threads) : <<u.id, u.members, u.owners>> = <<t.id, t.members, t.owners>>
    BY <1>2
  <2> QED BY <2>1, <2>2
<1>5. ArchiveOK(ApplyV1(a))
  BY <1>1, <1>2, <1>3, <1>4 DEF ArchiveOK, Sound, Steps, KeyKinds
<1>6. Distinct(ApplyV1(a)) /\ KeysFit(ApplyV1(a))
  BY <1>1, <1>2, <1>3 DEF Distinct, KeysFit
<1> QED BY <1>1, <1>2, <1>3, <1>5, <1>6 DEF Sound

\* The second step, and schema.sql, add an index and nothing else.
LEMMA IndexedIsSound ==
    ASSUME NEW a, Sound(a)
    PROVE  /\ Sound(ApplyV2(a)) /\ ApplyV2(a).has = a.has \cup {2}
           /\ ApplyV2(a).messages = a.messages /\ ApplyV2(a).threads = a.threads
<1>1. ApplyV2(a) = [has |-> a.has \cup {2}, threads |-> a.threads, messages |-> a.messages]
  <2>1. ASSUME NEW h, NEW t, NEW m, a = [has |-> h, threads |-> t, messages |-> m]
        PROVE  ApplyV2(a) = [has |-> h \cup {2}, threads |-> t, messages |-> m]
    BY <2>1 DEF ApplyV2
  <2> QED BY <2>1 DEF Sound, ArchiveOK
<1> QED BY <1>1 DEF Sound, ArchiveOK, Distinct, KeysFit, Steps

\* What the steps do to an archive: it is sound again, and says what it said.
LEMMA AppliedIsSound ==
    ASSUME NEW a, Sound(a), NEW steps
    PROVE  LET b == Applied(steps, a)
           IN /\ Sound(b)
              /\ {Said(m) : m \in b.messages} = {Said(m) : m \in a.messages}
              /\ {<<t.id, t.members, t.owners>> : t \in b.threads}
                    = {<<t.id, t.members, t.owners>> : t \in a.threads}
<1>1. ASSUME NEW c, Sound(c)
      PROVE  /\ Sound(ApplyV1(c))
             /\ {Said(m) : m \in ApplyV1(c).messages} = {Said(m) : m \in c.messages}
             /\ {<<t.id, t.members, t.owners>> : t \in ApplyV1(c).threads}
                   = {<<t.id, t.members, t.owners>> : t \in c.threads}
  BY <1>1, UpgradedIsSound
<1>2. ASSUME NEW c, Sound(c)
      PROVE  /\ Sound(ApplyV2(c))
             /\ ApplyV2(c).messages = c.messages /\ ApplyV2(c).threads = c.threads
  BY <1>2, IndexedIsSound
<1> DEFINE one == IF 1 \in steps THEN ApplyV1(a) ELSE a
<1>3. /\ Sound(one)
      /\ {Said(m) : m \in one.messages} = {Said(m) : m \in a.messages}
      /\ {<<t.id, t.members, t.owners>> : t \in one.threads} = {<<t.id, t.members, t.owners>> : t \in a.threads}
  BY <1>1
<1>4. Applied(steps, a) = IF 2 \in steps THEN ApplyV2(one) ELSE one
  BY DEF Applied
<1> HIDE DEF one
<1> QED BY <1>2, <1>3, <1>4

\* A copy that ends is the same copy.
LEMMA FinishedCopy ==
    ASSUME NEW f, CopyOK(f), NEW whole
    PROVE  [f EXCEPT !.whole = whole]
              = [stamp |-> f.stamp, version |-> f.version, whole |-> whole, of |-> f.of]
<1>1. ASSUME NEW s, NEW v, NEW w, NEW a, f = [stamp |-> s, version |-> v, whole |-> w, of |-> a]
      PROVE  [f EXCEPT !.whole = whole] = [stamp |-> s, version |-> v, whole |-> whole, of |-> a]
  BY <1>1
<1> QED BY <1>1 DEF CopyOK

LEMMA MigrationInitInv == MigrationInit => MigrationInv
BY OldAssumption DEF MigrationInit, MigrationInv, Sound

\* Whatever is opened, applied, copied or put in its place, the archive is sound.
LEMMA MigrationStep ==
    ASSUME MigrationInv, MigrationNext
    PROVE  MigrationInv'
<1>1. ASSUME NEW p \in Openers, Open(p) PROVE MigrationInv'
  <2>1. copies' = copies \/ \E version : copies' = copies \cup
                {[stamp |-> begun', version |-> version, whole |-> FALSE, of |-> live]}
    BY <1>1 DEF Open
  <2>2. \A f \in copies' : CopyOK(f)
    BY <2>1 DEF MigrationInv, CopyOK
  <2>3. stage' \in [Openers -> {"closed", "schema", "copy", "apply", "open"}]
    BY <1>1 DEF Open, MigrationInv
  <2> QED BY <1>1, <2>2, <2>3 DEF Open, MigrationInv
<1>2. ASSUME NEW p \in Openers, CopyEnds(p) PROVE MigrationInv'
  <2>1. ASSUME NEW f \in copies, NEW whole
        PROVE  CopyOK([f EXCEPT !.whole = whole])
    BY FinishedCopy DEF MigrationInv, CopyOK
  <2>2. \A f \in copies' : CopyOK(f)
    BY <1>2, <2>1 DEF CopyEnds, MigrationInv
  <2> QED BY <1>2, <2>2 DEF CopyEnds, MigrationInv
<1>3. ASSUME NEW p \in Openers, CopyFails(p) PROVE MigrationInv'
  BY <1>3 DEF CopyFails, Gone, MigrationInv
<1>4. ASSUME NEW p \in Openers, Apply(p) PROVE MigrationInv'
  BY <1>4, AppliedIsSound DEF Apply, MigrationInv
<1>5. ASSUME NEW p \in Openers, Fails(p) PROVE MigrationInv'
  BY <1>5 DEF Fails, Gone, MigrationInv
<1>6. ASSUME NEW m \in News, OldRelease(m) PROVE MigrationInv'
  <2>1. live' = [has |-> live.has, threads |-> live.threads, messages |-> live.messages \cup {m}]
    BY <1>6 DEF OldRelease, MigrationInv, Sound, ArchiveOK
  <2>2. m.row \in Row /\ m.key = <<"old", m.row.id>> /\ 1 \notin live.has
    BY <1>6, NewsAssumption DEF OldRelease
  <2>3. IsFiniteSet(live.messages \cup {m})
    BY FS_AddElement DEF MigrationInv, Sound
  <2>4. ArchiveOK(live')
    <3>1. m.key[1] \in KeyKinds /\ \E t \in live.threads : t.id = m.row.thread
      BY <1>6, <2>2 DEF OldRelease, KeyKinds
    <3>2. /\ live.has \subseteq Steps /\ live.threads \subseteq Thread
          /\ \A n \in live.messages : /\ n.row \in Row /\ n.key[1] \in KeyKinds
                                      /\ \E t \in live.threads : t.id = n.row.thread
      BY DEF MigrationInv, Sound, ArchiveOK
    <3> QED BY <2>1, <2>2, <3>1, <3>2 DEF ArchiveOK
  <2>5. \A n \in live.messages : n.row.id # m.row.id /\ n.key = <<"old", n.row.id>>
    BY <1>6, <2>2 DEF OldRelease, Rows, MigrationInv, Sound, KeysFit
  <2>6. Distinct(live') /\ KeysFit(live')
    BY <2>1, <2>2, <2>5 DEF MigrationInv, Sound, Distinct, KeysFit
  <2> QED BY <1>6, <2>1, <2>3, <2>4, <2>6 DEF OldRelease, MigrationInv, Sound
<1>7. ASSUME NEW a \in Old \cup {f.of : f \in {g \in copies : g.whole}}, Restore(a) PROVE MigrationInv'
  <2>1. Sound(a)
    BY OldAssumption DEF MigrationInv, CopyOK, Sound
  <2> QED BY <1>7, <2>1 DEF Restore, MigrationInv
<1>8. ASSUME NEW p \in Openers, RunsSchema(p) PROVE MigrationInv'
  BY <1>8, IndexedIsSound DEF RunsSchema, MigrationInv
<1> QED BY <1>1, <1>2, <1>3, <1>4, <1>5, <1>6, <1>7, <1>8 DEF MigrationNext

\* Only the transaction takes an opener from its preparations to the archive.
LEMMA StepKeepsRows ==
    ASSUME MigrationInv, MigrationNext, NEW p \in Openers, stage[p] = "apply", stage'[p] = "open"
    PROVE  /\ {Said(m) : m \in live'.messages} = {Said(m) : m \in live.messages}
           /\ {<<t.id, t.members, t.owners>> : t \in live'.threads}
                 = {<<t.id, t.members, t.owners>> : t \in live.threads}
<1>1. PICK q \in Openers : Apply(q)
  BY DEF MigrationNext, RunsSchema, Open, CopyEnds, CopyFails, Fails, Gone, OldRelease, Restore, MigrationInv
<1> QED BY <1>1, AppliedIsSound DEF Apply, MigrationInv

-----------------------------------------------------------------------------
(* Imported once more: the keys that are computed anew are there             *)

\* The scan has counted a row that starts a run, and no more than there are.
LEMMA CountedOnce ==
    ASSUME NEW g, IsFiniteSet(g), NEW m \in g, ~Precedes(m, m), StartsRun(m, g)
    PROVE  Occurrence(m, g) \in 1 .. Cardinality(g)
<1> DEFINE counted == {x \in g : ~Precedes(m, x) /\ StartsRun(x, g)}
           told == [x \in counted |-> <<x.at, Identity(x)>>]
           seen == {<<x.at, Identity(x)>> : x \in counted}
<1>1. /\ IsFiniteSet(counted) /\ Cardinality(counted) <= Cardinality(g)
      /\ Cardinality(counted) \in Nat /\ Cardinality(g) \in Nat
  BY FS_Subset, FS_CardinalityType
<1>2. seen = {told[x] : x \in counted} /\ DOMAIN told = counted
  OBVIOUS
<1>3. IsFiniteSet(seen) /\ Cardinality(seen) <= Cardinality(counted)
  <2> HIDE DEF counted, told, seen
  <2> QED BY <1>1, <1>2, FiniteImage
<1>4. seen # {}
  OBVIOUS
<1>5. Occurrence(m, g) = Cardinality(seen)
  BY DEF Occurrence
<1> HIDE DEF counted, seen
<1>6. Cardinality(seen) \in Nat /\ Cardinality(seen) # 0
  BY <1>3, <1>4, FS_CardinalityType, FS_EmptySet
<1> QED BY <1>1, <1>3, <1>5, <1>6

\* The rows of a group are numbered without a gap.
LEMMA PlacesFill ==
    ASSUME NEW batch, Identified(batch), NEW g \in SUBSET batch
    PROVE  /\ IsFiniteSet(g)
           /\ \A j \in 1 .. Cardinality(g) : \E m \in g : Occurrence(m, g) = j
<1> DEFINE place == [m \in g |-> Occurrence(m, g)]
<1>1. IsFiniteSet(g) /\ Cardinality(g) \in Nat
  BY FS_Subset, FS_CardinalityType DEF Identified
<1>2. ASSUME NEW m \in g
      PROVE  Occurrence(m, g) \in 1 .. Cardinality(g)
  BY <1>1, <1>2, ScanOrder, CountedOnce
<1>3. ASSUME NEW m \in g, NEW n \in g, Occurrence(m, g) = Occurrence(n, g)
      PROVE  m = n
  BY <1>3, ScanOrder, PlacesAscend
<1> DEFINE numbers == 1 .. Cardinality(g)
<1>4. place \in Injection(g, numbers)
  BY <1>2, <1>3 DEF Injection, IsInjective
<1>5. IsFiniteSet(numbers) /\ Cardinality(numbers) = Cardinality(g)
  BY <1>1, FS_Interval
<1>6. place \in Surjection(g, numbers)
  <2> HIDE DEF place, numbers
  <2> QED BY <1>4, <1>5, FS_Injection
<1>7. \A j \in numbers : \E m \in g : Occurrence(m, g) = j
  BY <1>6 DEF Surjection
<1> QED BY <1>1, <1>7

\* Rows of known people, as the release that upgraded imports them once more.
People(r, threads) == Participants(CHOOSE t \in threads : t.id = r.thread)
With(r, threads) == Once(People(r, threads))
Anew(r, threads, withIds) ==
    [counterpart |-> With(r, threads), dir |-> r.dir, at |-> r.at, body |-> r.body,
     native |-> IF withIds THEN r.id + 1 ELSE NoId, carries |-> 0]
Met(them, threads) == {r \in them : With(r, threads) # {} /\ With(r, threads) = People(r, threads)}

AnewKeys(them, threads, withIds) ==
    {KeyIn(Anew(r, threads, withIds), {Anew(q, threads, withIds) : q \in Met(them, threads)}) :
        r \in Met(them, threads)}

LEMMA AgainIsAnew ==
    ASSUME NEW a, NEW withIds
    PROVE  ImportedAgain(a, withIds) = AnewKeys(Rows(a), a.threads, withIds)
BY DEF ImportedAgain, AnewKeys, Met, With, People, Anew

\* The batch of all known rows again gives each a key that the rows have.
LEMMA KeyIsThere ==
    ASSUME NEW a, Sound(a), NEW withIds \in BOOLEAN, NEW r \in Met(Rows(a), a.threads)
    PROVE  LET batch == {Anew(q, a.threads, withIds) : q \in Met(Rows(a), a.threads)}
           IN \E q \in Rows(a) : KeyIn(Anew(r, a.threads, withIds), batch) = RowKey(q, a)
<1> DEFINE again(q) == Anew(q, a.threads, withIds)
           item(q) == ItemOf(q, a.threads)
           items == {item(q) : q \in Rows(a)}
           batch == {again(q) : q \in Met(Rows(a), a.threads)}
           grp == {x \in items : GroupOf(x) = GroupOf(item(r))}
           few == {x \in batch : GroupOf(x) = GroupOf(again(r))}
           shift(x) == [x EXCEPT !.native = IF withIds THEN x.native + 1 ELSE NoId]
           shifted == [x \in grp |-> shift(x)]
           image == {shifted[x] : x \in grp}
<1>1. Identified(items) /\ Rows(a) \in SUBSET Row /\ r \in Rows(a)
  BY RowsAreIdentified DEF Met
<1>2. ASSUME NEW q \in Met(Rows(a), a.threads)
      PROVE  /\ again(q) = shift(item(q)) /\ GroupOf(again(q)) = GroupOf(item(q))
             /\ q \in Rows(a)
  <2>1. q \in Rows(a) /\ With(q, a.threads) # {} /\ With(q, a.threads) = People(q, a.threads)
    BY DEF Met
  <2>2. item(q) = [counterpart |-> With(q, a.threads), dir |-> q.dir, at |-> q.at, body |-> q.body,
                   native |-> q.id, carries |-> 0]
    BY <2>1 DEF ItemOf, People
  <2>3. again(q) = shift(item(q))
    BY <2>2 DEF Anew
  <2>4. GroupOf(again(q)) = GroupOf(item(q))
    BY <2>2 DEF Anew, GroupOf
  <2> QED BY <2>1, <2>3, <2>4
<1>3. few \subseteq image
  <2> SUFFICES ASSUME NEW x \in few PROVE x \in image
    OBVIOUS
  <2>1. PICK q \in Met(Rows(a), a.threads) : x = again(q)
    OBVIOUS
  <2>2. GroupOf(again(q)) = GroupOf(again(r))
    BY <2>1
  <2>3. item(q) \in grp
    BY <1>2, <2>2
  <2>4. x = shifted[item(q)]
    BY <1>2, <2>1, <2>3
  <2> QED BY <2>3, <2>4
<1>4. /\ IsFiniteSet(grp) /\ grp \in SUBSET items
      /\ \A j \in 1 .. Cardinality(grp) : \E m \in grp : Occurrence(m, grp) = j
  BY <1>1, PlacesFill
<1>5. IsFiniteSet(image) /\ Cardinality(image) <= Cardinality(grp)
  <2>1. DOMAIN shifted = grp
    OBVIOUS
  <2> HIDE DEF shifted, grp
  <2> QED BY <1>4, <2>1, FiniteImage
<1>6. /\ IsFiniteSet(few) /\ Cardinality(few) <= Cardinality(grp)
      /\ Cardinality(few) \in Nat /\ Cardinality(grp) \in Nat
  <2> HIDE DEF few, image, grp
  <2> QED BY <1>3, <1>4, <1>5, FS_Subset, FS_CardinalityType
<1>7. ASSUME NEW x \in few
      PROVE  /\ x.at \in Nat
             /\ withIds => x.native \in Nat /\ Identity(x) = <<0, x.native, 0>>
             /\ ~withIds => Identity(x) = <<1, x.at, 0>>
  <2>1. PICK q \in Met(Rows(a), a.threads) : x = again(q)
    OBVIOUS
  <2>2. q.at \in Nat /\ q.id \in Nat
    BY <1>1, <1>2 DEF Row, Ids
  <2>3. x.at = q.at /\ x.native = (IF withIds THEN q.id + 1 ELSE NoId) /\ x.carries = 0
    BY <2>1 DEF Anew
  <2> QED BY <2>2, <2>3, NoIdAssumption DEF Identity
<1> again(r) \in few
  OBVIOUS
<1>8. ASSUME withIds, NEW x \in few, NEW y \in few, x.native = y.native PROVE x = y
  <2>1. PICK p \in Met(Rows(a), a.threads) : x = again(p)
    OBVIOUS
  <2>2. PICK q \in Met(Rows(a), a.threads) : y = again(q)
    OBVIOUS
  <2>3. p.id + 1 = q.id + 1
    BY <1>8, <2>1, <2>2 DEF Anew
  <2>4. p \in Rows(a) /\ q \in Rows(a)
    BY <1>2
  <2>5. p.id \in Nat /\ q.id \in Nat
    BY <1>1, <2>4 DEF Row, Ids
  <2>6. p.id = q.id
    BY <2>3, <2>5
  <2> QED BY <2>1, <2>2, <2>4, <2>6, RowsAreIdentified
<1> HIDE DEF few, again
<1>9. ASSUME NEW p \in few, NEW x \in few, Precedes(p, x) PROVE Identity(p) # Identity(x)
  <2>1. CASE withIds
    <3>1. /\ p.at \in Nat /\ p.native \in Nat /\ Identity(p) = <<0, p.native, 0>>
          /\ x.at \in Nat /\ x.native \in Nat /\ Identity(x) = <<0, x.native, 0>>
      BY <1>7, <2>1
    <3>2. p.native # x.native
      <4>1. ~Precedes(x, x)
        BY <3>1 DEF Precedes, IdBefore
      <4> QED BY <1>8, <1>9, <2>1, <4>1
    <3> QED BY <3>1, <3>2
  <2>2. CASE ~withIds
    <3>1. /\ p.at \in Nat /\ Identity(p) = <<1, p.at, 0>>
          /\ x.at \in Nat /\ Identity(x) = <<1, x.at, 0>>
      BY <1>7, <2>2
    <3> QED BY <1>9, <3>1 DEF Precedes, IdBefore
  <2> QED BY <2>1, <2>2
<1>10. PICK mine \in few : mine = again(r)
  OBVIOUS
<1>11. Occurrence(mine, few) \in 1 .. Cardinality(few)
  <2>1. ~Precedes(mine, mine) /\ StartsRun(mine, few)
    BY <1>9 DEF StartsRun
  <2> QED BY <1>6, <2>1, CountedOnce
<1>12. PICK m \in grp : Occurrence(m, grp) = Occurrence(mine, few)
  <2> HIDE DEF grp
  <2> QED BY <1>4, <1>6, <1>11
<1>13. PICK q \in Rows(a) : m = item(q)
  BY <1>4
<1>14. GroupOf(item(q)) = GroupOf(mine) /\ GroupOf(item(r)) = GroupOf(mine)
  BY <1>2, <1>10, <1>12, <1>13
<1>15. RowKey(q, a) = <<GroupOf(mine), Occurrence(m, grp)>>
  BY <1>13, <1>14 DEF RowKey, KeyIn
<1>16. KeyIn(mine, batch) = <<GroupOf(mine), Occurrence(mine, few)>>
  BY <1>10 DEF KeyIn, few
<1> QED BY <1>10, <1>12, <1>15, <1>16 DEF again

\* The first step leaves an archive that knows its rows again.
LEMMA UpgradedKnows ==
    ASSUME NEW a, Sound(a)
    PROVE  KnownAgain(ApplyV1(a))
<1> DEFINE row(r) == [r EXCEPT !.kind = KindFromPath(r.path)]
           b == ApplyV1(a)
<1>1. b.threads = Signed(a.threads) /\ b.messages = Keyed(a)
  BY DEF ApplyV1
<1>2. /\ Keyed(a) = {[row |-> row(r), key |-> <<"key", RowKey(r, a)>>] : r \in Rows(a)}
  BY KeyedIsSound
<1>3. Rows(b) = {row(r) : r \in Rows(a)}
  <2> HIDE DEF row, b
  <2> DEFINE message(r) == [row |-> row(r), key |-> <<"key", RowKey(r, a)>>]
  <2>1. Rows(b) = {m.row : m \in Keyed(a)}
    BY <1>1 DEF Rows
  <2>2. Keyed(a) = {message(r) : r \in Rows(a)} /\ \A r \in Rows(a) : message(r).row = row(r)
    BY <1>2
  <2> HIDE DEF message
  <2> QED BY <2>1, <2>2
<1>4. ASSUME NEW r \in Rows(a)
      PROVE  /\ row(r).id = r.id /\ row(r).thread = r.thread /\ row(r).dir = r.dir
             /\ row(r).at = r.at /\ row(r).body = r.body
  BY RowsAreIdentified DEF Row
<1> HIDE DEF row
<1>5. ASSUME NEW r \in Rows(a)
      PROVE  /\ People(row(r), b.threads) = People(r, a.threads)
             /\ With(row(r), b.threads) = With(r, a.threads)
  <2>1. PICK t \in a.threads : t.id = r.thread
    BY DEF Sound, ArchiveOK, Rows
  <2>2. (CHOOSE x \in a.threads : x.id = r.thread) = t
    BY <2>1 DEF Sound, Distinct
  <2>3. /\ \A x, y \in Signed(a.threads) : x.id = y.id => x = y
        /\ {<<x.id, x.members, x.owners>> : x \in Signed(a.threads)}
              = {<<x.id, x.members, x.owners>> : x \in a.threads}
    BY SignedIsSound DEF Sound, ArchiveOK, Distinct
  <2>4. PICK u \in Signed(a.threads) : <<u.id, u.members, u.owners>> = <<t.id, t.members, t.owners>>
    BY <2>3
  <2>5. (CHOOSE x \in b.threads : x.id = row(r).thread) = u
    BY <1>1, <1>4, <2>1, <2>3, <2>4
  <2>6. Participants(u) = Participants(t)
    BY <2>4 DEF Participants
  <2>7. People(row(r), b.threads) = People(r, a.threads)
    BY <2>2, <2>5, <2>6 DEF People
  <2> QED BY <2>7 DEF With
<1>6. ASSUME NEW withIds, NEW r \in Rows(a)
      PROVE  Anew(row(r), b.threads, withIds) = Anew(r, a.threads, withIds)
  BY <1>4, <1>5 DEF Anew
<1>7. Met(Rows(b), b.threads) = {row(r) : r \in Met(Rows(a), a.threads)}
  BY <1>3, <1>5 DEF Met
<1>8. SUFFICES ASSUME NEW withIds \in BOOLEAN, NEW k \in ImportedAgain(b, withIds)
               PROVE  \E m \in b.messages : m.key = <<"key", k>>
  BY DEF KnownAgain
<1> DEFINE batch == {Anew(q, b.threads, withIds) : q \in Met(Rows(b), b.threads)}
           same == {Anew(q, a.threads, withIds) : q \in Met(Rows(a), a.threads)}
<1> HIDE DEF b
<1>9. batch = same
  <2>1. ASSUME NEW x \in batch PROVE x \in same
    <3>1. PICK q \in Met(Rows(b), b.threads) : x = Anew(q, b.threads, withIds)
      OBVIOUS
    <3>2. PICK r \in Met(Rows(a), a.threads) : q = row(r)
      BY <1>7
    <3> QED BY <1>6, <3>1, <3>2 DEF Met
  <2>2. ASSUME NEW x \in same PROVE x \in batch
    <3>1. PICK q \in Met(Rows(a), a.threads) : x = Anew(q, a.threads, withIds)
      OBVIOUS
    <3>2. row(q) \in Met(Rows(b), b.threads)
      BY <1>7
    <3>3. x = Anew(row(q), b.threads, withIds)
      BY <1>6, <3>1 DEF Met
    <3> QED BY <3>2, <3>3
  <2> QED BY <2>1, <2>2
<1>10. PICK r \in Met(Rows(b), b.threads) : k = KeyIn(Anew(r, b.threads, withIds), batch)
  BY AgainIsAnew DEF AnewKeys
<1>11. PICK q \in Met(Rows(a), a.threads) : r = row(q)
  BY <1>7, <1>10
<1>12. k = KeyIn(Anew(q, a.threads, withIds), same)
  BY <1>6, <1>9, <1>10, <1>11 DEF Met
<1>13. PICK p \in Rows(a) : k = RowKey(p, a)
  BY <1>12, KeyIsThere
<1>14. [row |-> row(p), key |-> <<"key", RowKey(p, a)>>] \in b.messages
  BY <1>1, <1>2 DEF b
<1> QED BY <1>13, <1>14

\* What is opened knows its rows again.
KnownOnes == KnownAgain(live) /\ \A f \in copies : KnownAgain(f.of)

LEMMA SameRowsKnow ==
    ASSUME NEW a, NEW b, a.threads = b.threads, a.messages = b.messages,
           1 \in b.has => 1 \in a.has, KnownAgain(a)
    PROVE  KnownAgain(b)
<1>1. Rows(a) = Rows(b)
  BY DEF Rows
<1>2. \A withIds : ImportedAgain(b, withIds) = ImportedAgain(a, withIds)
  BY <1>1, AgainIsAnew
<1> QED BY <1>2 DEF KnownAgain

\* A step of the migration takes no archive that does not know its rows.
LEMMA KnownStep ==
    ASSUME UpgradedBefore, MigrationInv, KnownOnes, MigrationNext
    PROVE  KnownOnes'
<1>1. ASSUME NEW p \in Openers, Open(p) PROVE KnownOnes'
  <2>1. copies' = copies \/ \E version : copies' = copies \cup
                {[stamp |-> begun', version |-> version, whole |-> FALSE, of |-> live]}
    BY <1>1 DEF Open
  <2>2. live' = live
    BY <1>1 DEF Open
  <2> QED BY <2>1, <2>2 DEF KnownOnes
<1>8. ASSUME NEW p \in Openers, RunsSchema(p) PROVE KnownOnes'
  <2>1. Sound(live) /\ KnownAgain(live)
    BY DEF MigrationInv, KnownOnes
  <2>2. /\ ApplyV2(live).threads = live.threads /\ ApplyV2(live).messages = live.messages
        /\ 1 \in ApplyV2(live).has => 1 \in live.has
    BY <2>1, IndexedIsSound
  <2>3. KnownAgain(ApplyV2(live))
    BY <2>1, <2>2, SameRowsKnow
  <2> QED BY <1>8, <2>3 DEF RunsSchema, KnownOnes
<1>2. ASSUME NEW p \in Openers, CopyEnds(p) PROVE KnownOnes'
  <2>1. ASSUME NEW f \in copies, NEW whole
        PROVE  [f EXCEPT !.whole = whole].of = f.of
    <3>1. CopyOK(f)
      BY DEF MigrationInv
    <3>2. [f EXCEPT !.whole = whole]
             = [stamp |-> f.stamp, version |-> f.version, whole |-> whole, of |-> f.of]
      BY <3>1, FinishedCopy
    <3> QED BY <3>2
  <2>2. \A g \in copies' : \E f \in copies : g.of = f.of
    <3> DEFINE ended(f) == [f EXCEPT !.whole = TRUE]
    <3>1. copies' = {IF f.stamp = copy[p] THEN ended(f) ELSE f : f \in copies}
      BY <1>2 DEF CopyEnds
    <3>2. \A f \in copies : ended(f).of = f.of
      BY <2>1
    <3> HIDE DEF ended
    <3> QED BY <3>1, <3>2
  <2>3. live' = live
    BY <1>2 DEF CopyEnds
  <2> QED BY <2>2, <2>3 DEF KnownOnes
<1>3. ASSUME NEW p \in Openers, CopyFails(p) PROVE KnownOnes'
  BY <1>3 DEF CopyFails, Gone, KnownOnes
<1>4. ASSUME NEW p \in Openers, Apply(p) PROVE KnownOnes'
  <2> DEFINE one == IF 1 \in pending[p] THEN ApplyV1(live) ELSE live
  <2>1. KnownAgain(one) /\ Sound(one)
    BY UpgradedKnows, UpgradedIsSound DEF MigrationInv, KnownOnes
  <2>2. live' = IF 2 \in pending[p] THEN ApplyV2(one) ELSE one
    BY <1>4 DEF Apply, Applied
  <2> HIDE DEF one
  <2>3. KnownAgain(ApplyV2(one))
    <3>1. /\ ApplyV2(one).threads = one.threads /\ ApplyV2(one).messages = one.messages
          /\ 1 \in ApplyV2(one).has => 1 \in one.has
      BY <2>1 DEF ApplyV2, Sound, ArchiveOK
    <3> QED BY <2>1, <3>1, SameRowsKnow
  <2> QED BY <1>4, <2>1, <2>2, <2>3 DEF Apply, KnownOnes
<1>5. ASSUME NEW p \in Openers, Fails(p) PROVE KnownOnes'
  BY <1>5 DEF Fails, KnownOnes
<1>6. ASSUME NEW m \in News, OldRelease(m) PROVE KnownOnes'
  <2>1. 1 \notin live'.has
    BY <1>6 DEF OldRelease, MigrationInv, Sound, ArchiveOK
  <2> QED BY <1>6, <2>1 DEF OldRelease, KnownOnes, KnownAgain
<1>7. ASSUME NEW a \in Old \cup {f.of : f \in {g \in copies : g.whole}}, Restore(a) PROVE KnownOnes'
  <2>1. CASE a \in Old
    <3>1. 1 \in a.has => KnownAgain(a)
      BY <2>1 DEF UpgradedBefore
    <3>2. 1 \notin a.has => KnownAgain(a)
      BY DEF KnownAgain
    <3> QED BY <1>7, <3>1, <3>2 DEF Restore, KnownOnes
  <2>2. CASE a \notin Old
    BY <1>7, <2>2 DEF Restore, KnownOnes
  <2> QED BY <2>1, <2>2
<1> QED BY <1>1, <1>2, <1>3, <1>4, <1>5, <1>6, <1>7, <1>8 DEF MigrationNext

-----------------------------------------------------------------------------
(* The safety copy                                                           *)

SameRows(a, b) == a.messages = b.messages /\ a.threads = b.threads

\* It holds what an archive whose rows are not upgraded can hold.
Held(a) == \E h \in Holdings : SameRows(a, h)

LEMMA OldAndNews ==
    ASSUME NEW o \in Old, 1 \notin o.has, NEW M \in SUBSET News, NEW a,
           a.threads = o.threads, a.messages = o.messages \cup M
    PROVE  Held(a)
<1> DEFINE held(p, N) == [has |-> p.has, threads |-> p.threads, messages |-> p.messages \cup N]
<1>1. Holdings = {held(p, N) : p \in {q \in Old : 1 \notin q.has}, N \in SUBSET News}
  BY DEF Holdings
<1>2. held(o, M).threads = a.threads /\ held(o, M).messages = a.messages
  OBVIOUS
<1> HIDE DEF held
<1> QED BY <1>1, <1>2 DEF Held, SameRows

LEMMA HeldIs ==
    ASSUME NEW a, Held(a)
    PROVE  \E o \in Old, M \in SUBSET News :
              1 \notin o.has /\ a.threads = o.threads /\ a.messages = o.messages \cup M
BY DEF Held, Holdings, SameRows

LEMMA OldIsHeld ==
    ASSUME NEW o \in Old, 1 \notin o.has
    PROVE  Held(o)
<1>1. PICK M : M = {}
  OBVIOUS
<1>2. o.messages = o.messages \cup M /\ M \in SUBSET News
  BY <1>1
<1> QED BY <1>2, OldAndNews

LEMMA TellsHeld ==
    ASSUME FingerprintTells, NEW a, NEW b, Held(a), Held(b), Fingerprint(a) = Fingerprint(b)
    PROVE  SameRows(a, b)
<1>1. PICK g \in Holdings, h \in Holdings : SameRows(a, g) /\ SameRows(b, h)
  BY DEF Held
<1>2. Rows(a) = Rows(g) /\ Rows(b) = Rows(h)
  BY <1>1 DEF Rows, SameRows
<1>3. Fingerprint(a) = Fingerprint(g) /\ Fingerprint(b) = Fingerprint(h)
  BY <1>1, <1>2 DEF Fingerprint, SameRows
<1> QED BY <1>1, <1>3 DEF FingerprintTells, SameRows

\* A copy is of an archive whose rows were not upgraded; one in the making is its
\* opener's own.
CopiesOwned ==
    /\ begun \in Nat
    /\ \A f \in copies : Held(f.of) /\ f.stamp \in Nat /\ f.stamp <= begun
    /\ \A p \in Openers : stage[p] = "copy" =>
          /\ copy[p] \in Nat /\ copy[p] <= begun
          /\ \A f \in copies : f.stamp = copy[p] => ~f.whole
          /\ \A q \in Openers \ {p} : stage[q] = "copy" => copy[q] # copy[p]

\* What an opener is about to upgrade is what its copy is of.
Prepared(p) ==
    /\ stage[p] \in {"schema", "copy", "apply"} => 2 \in live.has
    /\ stage[p] \in {"copy", "apply"} =>
        /\ 1 \in live.has \cup pending[p]
        /\ 1 \notin live.has /\ live.messages # {} =>
              \E f \in copies : /\ SameRows(f.of, live)
                                /\ IF stage[p] = "apply" THEN f.whole ELSE f.stamp = copy[p]

CopyInv ==
    /\ 1 \notin live.has => Held(live)
    /\ pending = [p \in Openers |-> pending[p]] /\ copy = [p \in Openers |-> copy[p]]
    /\ CopiesOwned /\ SafetyCopy
    /\ \A p \in Openers : Prepared(p)

LEMMA CopyInitInv == MigrationInit => CopyInv
<1> SUFFICES ASSUME MigrationInit PROVE CopyInv
  OBVIOUS
<1>1. 1 \notin live.has => Held(live)
  BY OldIsHeld DEF MigrationInit
<1>2. \A p \in Openers : stage[p] = "closed"
  BY DEF MigrationInit
<1> QED BY <1>1, <1>2 DEF MigrationInit, CopyInv, CopiesOwned, SafetyCopy, Prepared

LEMMA CopyIsWhole ==
    ASSUME NEW f, CopyOK(f), NEW whole
    PROVE  LET g == [f EXCEPT !.whole = whole]
           IN g.of = f.of /\ g.stamp = f.stamp /\ g.whole = whole
<1>1. [f EXCEPT !.whole = whole] = [stamp |-> f.stamp, version |-> f.version, whole |-> whole, of |-> f.of]
  BY FinishedCopy
<1> QED BY <1>1

\* No attempt, kill or second opener takes a copy from an archive that needs it.
LEMMA CopyStep ==
    ASSUME FingerprintTells, MigrationInv, CopyInv, MigrationNext
    PROVE  CopyInv'
<1> USE DEF CopyInv
<1>0. live.has \subseteq Steps /\ live = [has |-> live.has, threads |-> live.threads, messages |-> live.messages]
  BY DEF MigrationInv, Sound, ArchiveOK
<1>1. ASSUME NEW p \in Openers, Open(p) PROVE CopyInv'
  <2>1. /\ live' = live /\ before' = before /\ Needed(live) = Steps \ live.has /\ 2 \in live.has
        /\ copies \subseteq copies'
        /\ pending' = [q \in Openers |-> pending'[q]] /\ copy' = [q \in Openers |-> copy'[q]]
        /\ stage[p] = "schema"
    BY <1>1 DEF Open, Needed, Prepared
  <2>2. SafetyCopy'
    BY <2>1 DEF SafetyCopy
  <2>3. \A q \in Openers \ {p} : stage'[q] = stage[q] /\ pending'[q] = pending[q] /\ copy'[q] = copy[q]
    BY <1>1 DEF Open, MigrationInv
  <2>4. \A q \in Openers \ {p} : Prepared(q)'
    BY <2>1, <2>3 DEF Prepared
  <2>5. CASE Needed(live) = {}
    <3>1. stage'[p] = "open" /\ UNCHANGED <<copies, begun>>
      BY <1>1, <2>5 DEF Open, MigrationInv
    <3>2. Prepared(p)'
      BY <3>1 DEF Prepared
    <3>3. CopiesOwned'
      BY <2>3, <3>1 DEF CopiesOwned
    <3> QED BY <2>1, <2>2, <2>4, <3>2, <3>3
  <2>6. CASE Needed(live) # {} /\ stage'[p] = "apply"
    <3>1. /\ pending'[p] = Needed(live) /\ UNCHANGED <<copies, begun>>
          /\ live.messages = {} \/ Candidates(Max(Needed(live))) # {}
      BY <1>1, <2>6 DEF Open, MigrationInv
    <3>2. Prepared(p)'
      <4>1. 1 \in live.has \cup pending'[p]
        BY <2>1, <3>1 DEF Steps
      <4>2. ASSUME live.messages # {}, 1 \notin live.has
            PROVE  \E f \in copies : SameRows(f.of, live) /\ f.whole
        <5>1. PICK f \in copies : f.whole /\ Fingerprint(f.of) = Fingerprint(live)
          BY <3>1, <4>2 DEF Candidates, StandsIn
        <5>2. Held(f.of) /\ Held(live)
          BY <4>2 DEF CopiesOwned
        <5> QED BY <5>1, <5>2, TellsHeld
      <4> QED BY <2>1, <2>6, <3>1, <4>1, <4>2 DEF Prepared
    <3>3. CopiesOwned'
      BY <2>3, <2>6, <3>1 DEF CopiesOwned
    <3> QED BY <2>1, <2>2, <2>4, <3>2, <3>3
  <2>7. CASE Needed(live) # {} /\ stage'[p] = "copy"
    <3>1. /\ pending'[p] = Needed(live) /\ begun' = begun + 1 /\ copy'[p] = begun + 1
          /\ \E version : copies' = copies \cup
                {[stamp |-> begun', version |-> version, whole |-> FALSE, of |-> live]}
      BY <1>1, <2>7 DEF Open, MigrationInv
    <3>2. PICK n : /\ n \in copies' /\ copies' = copies \cup {n}
                   /\ n.stamp = begun + 1 /\ ~n.whole /\ n.of = live
      <4>1. PICK version, n : /\ n = [stamp |-> begun', version |-> version, whole |-> FALSE, of |-> live]
                              /\ copies' = copies \cup {n}
        BY <3>1
      <4>2. n \in copies' /\ n.stamp = begun + 1 /\ ~n.whole /\ n.of = live
        BY <3>1, <4>1
      <4> QED BY <4>1, <4>2
    <3>3. 1 \notin live.has /\ Held(live)
      BY <1>0, <2>1, <2>7 DEF Steps
    <3>4. Prepared(p)'
      BY <2>1, <2>7, <3>1, <3>2 DEF Prepared, SameRows, Steps
    <3>5. CopiesOwned'
      BY <2>3, <2>7, <3>1, <3>2, <3>3 DEF CopiesOwned
    <3> QED BY <2>1, <2>2, <2>4, <3>4, <3>5
  <2> QED BY <1>1, <2>5, <2>6, <2>7 DEF Open, MigrationInv
<1>2. ASSUME NEW p \in Openers, CopyEnds(p) PROVE CopyInv'
  <2> DEFINE ended(f) == IF f.stamp = copy[p] THEN [f EXCEPT !.whole = TRUE] ELSE f
  <2>1. ASSUME NEW f \in copies
        PROVE  /\ ended(f).of = f.of /\ ended(f).stamp = f.stamp
               /\ f.whole \/ f.stamp = copy[p] => ended(f).whole
               /\ ended(f).whole => f.whole \/ f.stamp = copy[p]
    <3>1. CopyOK(f)
      BY DEF MigrationInv
    <3>2. LET g == [f EXCEPT !.whole = TRUE] IN g.of = f.of /\ g.stamp = f.stamp /\ g.whole = TRUE
      BY <3>1, CopyIsWhole
    <3> QED BY <3>2
  <2>2. copies' = {ended(f) : f \in copies}
    BY <1>2 DEF CopyEnds
  <2> HIDE DEF ended
  <2>3. \A q \in Openers \ {p} : stage'[q] = stage[q]
    BY <1>2 DEF CopyEnds, MigrationInv
  <2>4. stage'[p] = "apply" /\ stage[p] = "copy"
    BY <1>2 DEF CopyEnds, MigrationInv
  <2>5. UNCHANGED <<live, begun, pending, copy, before>>
    BY <1>2 DEF CopyEnds
  <2>6. SafetyCopy'
    BY <2>1, <2>2, <2>5 DEF SafetyCopy
  <2>7. CopiesOwned'
    BY <2>1, <2>2, <2>3, <2>4, <2>5 DEF CopiesOwned
  <2>8. ASSUME NEW q \in Openers PROVE Prepared(q)'
    BY <2>1, <2>2, <2>3, <2>4, <2>5 DEF Prepared, SameRows
  <2> QED BY <2>5, <2>6, <2>7, <2>8
<1>3. ASSUME NEW p \in Openers, CopyFails(p) PROVE CopyInv'
  <2>1. /\ stage[p] = "copy" /\ stage'[p] = "closed"
        /\ \A q \in Openers \ {p} : stage'[q] = stage[q] /\ pending'[q] = pending[q] /\ copy'[q] = copy[q]
        /\ pending' = [q \in Openers |-> pending'[q]] /\ copy' = [q \in Openers |-> copy'[q]]
        /\ UNCHANGED <<live, begun, before>>
    BY <1>3 DEF CopyFails, Gone, MigrationInv
  <2>2. copies' \subseteq copies /\ \A f \in copies : f.stamp # copy[p] => f \in copies'
    BY <1>3 DEF CopyFails
  <2>3. SafetyCopy'
    BY <2>1, <2>2 DEF SafetyCopy, CopiesOwned
  <2>4. CopiesOwned'
    BY <2>1, <2>2 DEF CopiesOwned
  <2>5. ASSUME NEW q \in Openers \ {p} PROVE Prepared(q)'
    BY <2>1, <2>2 DEF Prepared, CopiesOwned
  <2>6. Prepared(p)'
    BY <2>1 DEF Prepared
  <2> QED BY <2>1, <2>3, <2>4, <2>5, <2>6
<1>4. ASSUME NEW p \in Openers, Apply(p) PROVE CopyInv'
  <2>1. live'.has = live.has \cup (pending[p] \cap Steps)
    <3>1. ASSUME NEW a, a = [has |-> a.has, threads |-> a.threads, messages |-> a.messages]
          PROVE  ApplyV1(a).has = a.has \cup {1} /\ ApplyV2(a).has = a.has \cup {2}
      BY <3>1 DEF ApplyV1, ApplyV2
    <3>2. ApplyV1(live) = [has |-> ApplyV1(live).has, threads |-> ApplyV1(live).threads,
                           messages |-> ApplyV1(live).messages]
      BY DEF ApplyV1
    <3> QED BY <1>0, <1>4, <3>1, <3>2 DEF Apply, Applied, Steps
  <2>2. live'.has = Steps /\ 2 \in live.has
    BY <1>0, <1>4, <2>1 DEF Apply, Prepared, Steps
  <2>3. SafetyCopy'
    <3>1. CASE live.has # live'.has /\ live.messages # {}
      <4>1. \E f \in copies : SameRows(f.of, live) /\ f.whole
        BY <1>0, <1>4, <2>2, <3>1 DEF Apply, Prepared, Steps
      <4> QED BY <1>4, <3>1, <4>1 DEF Apply, SafetyCopy, SameRows
    <3>2. CASE ~(live.has # live'.has /\ live.messages # {})
      BY <1>4, <3>2 DEF Apply, SafetyCopy
    <3> QED BY <3>1, <3>2
  <2>4. \A q \in Openers : stage'[q] \in {"schema", "copy", "apply"} => stage'[q] = stage[q] /\ q # p
    BY <1>4 DEF Apply, MigrationInv
  <2>5. \A q \in Openers : Prepared(q)'
    BY <1>4, <2>2, <2>4 DEF Apply, Prepared, Steps
  <2>6. CopiesOwned'
    BY <1>4, <2>4 DEF Apply, CopiesOwned
  <2> QED BY <1>4, <2>2, <2>3, <2>5, <2>6 DEF Apply, Steps
<1>5. ASSUME NEW p \in Openers, Fails(p) PROVE CopyInv'
  <2>1. /\ stage'[p] = "closed"
        /\ \A q \in Openers \ {p} : stage'[q] = stage[q] /\ pending'[q] = pending[q] /\ copy'[q] = copy[q]
        /\ pending' = [q \in Openers |-> pending'[q]] /\ copy' = [q \in Openers |-> copy'[q]]
        /\ UNCHANGED <<live, copies, begun, before>>
    BY <1>5 DEF Fails, Gone, MigrationInv
  <2> QED BY <2>1 DEF SafetyCopy, CopiesOwned, Prepared
<1>6. ASSUME NEW m \in News, OldRelease(m) PROVE CopyInv'
  <2>1. live' = [has |-> live.has, threads |-> live.threads, messages |-> live.messages \cup {m}]
    BY <1>0, <1>6 DEF OldRelease
  <2>2. Held(live')
    <3>1. Held(live)
      BY <1>6 DEF OldRelease
    <3>2. PICK o \in Old, M \in SUBSET News :
             1 \notin o.has /\ live.threads = o.threads /\ live.messages = o.messages \cup M
      BY <3>1, HeldIs
    <3>3. PICK N : N = M \cup {m}
      OBVIOUS
    <3>4. N \in SUBSET News /\ live'.threads = o.threads /\ live'.messages = o.messages \cup N
      BY <2>1, <3>2, <3>3
    <3> QED BY <3>2, <3>4, OldAndNews
  <2>3. \A q \in Openers : stage[q] = "closed"
    BY <1>6 DEF OldRelease, Closed
  <2> QED BY <1>6, <2>2, <2>3 DEF OldRelease, CopiesOwned, SafetyCopy, Prepared
<1>7. ASSUME NEW a \in Old \cup {f.of : f \in {g \in copies : g.whole}}, Restore(a) PROVE CopyInv'
  <2>1. 1 \notin a.has => Held(a)
    <3>1. CASE a \in Old
      BY <3>1, OldIsHeld
    <3>2. CASE a \notin Old
      BY <3>2 DEF CopiesOwned
    <3> QED BY <3>1, <3>2
  <2>2. \A q \in Openers : stage[q] = "closed"
    BY <1>7 DEF Restore, Closed
  <2> QED BY <1>7, <2>1, <2>2 DEF Restore, CopiesOwned, SafetyCopy, Prepared
<1>8. ASSUME NEW p \in Openers, RunsSchema(p) PROVE CopyInv'
  <2>1. /\ live'.has = live.has \cup {2} /\ live'.messages = live.messages /\ live'.threads = live.threads
        /\ UNCHANGED <<copies, begun, pending, copy, before>>
    BY <1>8, IndexedIsSound DEF RunsSchema, MigrationInv
  <2>2. stage'[p] = "schema" /\ \A q \in Openers \ {p} : stage'[q] = stage[q]
    BY <1>8 DEF RunsSchema, MigrationInv
  <2>3. 1 \notin live'.has => Held(live')
    BY <2>1 DEF Held, SameRows
  <2>4. SafetyCopy' /\ CopiesOwned'
    BY <2>1, <2>2 DEF SafetyCopy, CopiesOwned
  <2>5. \A q \in Openers : Prepared(q)'
    BY <2>1, <2>2 DEF Prepared, SameRows
  <2> QED BY <2>1, <2>3, <2>4, <2>5
<1> QED BY <1>1, <1>2, <1>3, <1>4, <1>5, <1>6, <1>7, <1>8 DEF MigrationNext

-----------------------------------------------------------------------------
(* The three, each by itself                                                 *)

LEMMA PartsInit == Init => AtRestInv /\ PanelInv /\ MigrationInv
BY AtRestInitInv, PanelInitInv, MigrationInitInv DEF Init

LEMMA PartsStep ==
    ASSUME AtRestInv, PanelInv, MigrationInv, [Next]_custodyVars
    PROVE  AtRestInv' /\ PanelInv' /\ MigrationInv'
<1>1. UNCHANGED aclVars => AtRestInv'
  BY DEF aclVars, AtRestInv, AtRestTypeOK, ReportsLast, EntryFirst, LetIn, OwnerStillHasAccess
<1>2. UNCHANGED panelVars => PanelInv'
  BY DEF panelVars, PanelInv, PanelTypeOK, FilesOK, NamedOK, DeletedIsGone, In
<1>3. UNCHANGED migrationVars => MigrationInv'
  BY DEF migrationVars, MigrationInv
<1>4. CASE part = "tighten" /\ AtRestNext /\ UNCHANGED <<migrationVars, panelVars>>
  BY <1>2, <1>3, <1>4, AtRestStep
<1>5. CASE part = "open" /\ MigrationNext /\ UNCHANGED <<aclVars, panelVars>>
  BY <1>1, <1>2, <1>5, MigrationStep
<1>6. CASE part = "panel" /\ PanelNext /\ UNCHANGED <<aclVars, migrationVars>>
  BY <1>1, <1>3, <1>6, PanelStep
<1>7. CASE UNCHANGED custodyVars
  BY <1>1, <1>2, <1>3, <1>7 DEF custodyVars
<1> QED BY <1>4, <1>5, <1>6, <1>7 DEF Next

LEMMA PartsHold == Spec => [](AtRestInv /\ PanelInv /\ MigrationInv)
<1>1. (AtRestInv /\ PanelInv /\ MigrationInv) /\ [Next]_custodyVars => (AtRestInv /\ PanelInv /\ MigrationInv)'
  BY PartsStep
<1> QED BY PartsInit, <1>1, PTL DEF Spec

\* Whatever fails, is killed or is started again at the tightening of the access
\* list, one failure at a time locks no owner out of the archive (atRest.ts).
THEOREM NoOwnerLockedOut == Spec => []OwnerIsLetIn
<1>1. AtRestInv => OwnerIsLetIn
  BY DEF AtRestInv, LetIn, OwnerIsLetIn
<1> QED BY PartsHold, <1>1, PTL

\* After a deletion of everything no file Between owns that was written before it
\* tells of the deleted archive, but what could not be removed or what was there
\* when the process was killed in the middle (dataPanel.ts, deleteAllData).  What
\* a drain, an export or a backup under way writes after the sweep may stay.
THEOREM NothingComesBack == Spec => []DeletedIsGone
<1>1. PanelInv => DeletedIsGone
  BY DEF PanelInv
<1> QED BY PartsHold, <1>1, PTL

\* No archive of an older release, whatever it holds and however often opening
\* it was begun, meets a UNIQUE column of the upgrade; each row takes its own
\* key (migrate.ts).
THEOREM EveryArchiveOpens == Spec => []OpensWhateverItHolds
<1>1. MigrationInv => OpensWhateverItHolds
  BY DEF MigrationInv, Sound, Distinct, KeysFit, OpensWhateverItHolds
<1> QED BY PartsHold, <1>1, PTL

\* Whatever was opened, upgraded twice, copied or put in its place: what an upgraded
\* archive holds of threads that have identifiers, none twice, is imported once more under keys it has, with ids of
\* its source or without (migrate.ts, dedup.ts), if that held of what was upgraded before.
THEOREM ImportedOnceMore ==
    ASSUME UpgradedBefore
    PROVE  Spec => []ReimportAddsNothing
<1>1. Init => KnownOnes
  BY DEF Init, MigrationInit, KnownOnes, UpgradedBefore, KnownAgain
<1>2. MigrationInv /\ KnownOnes /\ [Next]_custodyVars => KnownOnes'
  <2>1. UNCHANGED migrationVars /\ KnownOnes => KnownOnes'
    BY DEF migrationVars, KnownOnes
  <2> QED BY <2>1, KnownStep DEF Next, custodyVars
<1>3. KnownOnes => ReimportAddsNothing
  BY DEF KnownOnes, ReimportAddsNothing
<1> QED BY <1>1, <1>2, <1>3, PartsHold, PTL DEF Spec

\* Wherever an attempt fails or is killed, whichever opener is first and whatever is
\* put in the archive's place: its rows and threads, as they were before the first step
\* rewrote them, lie beside it, whole (migrate.ts), if the fingerprint by which a copy is
\* used again tells apart the archives whose rows are not upgraded.  The index that
\* schema.sql makes comes before any copy.
THEOREM AlwaysACopy ==
    ASSUME FingerprintTells
    PROVE  Spec => []SafetyCopy
<1>1. MigrationInv /\ CopyInv /\ [Next]_custodyVars => CopyInv'
  <2>1. UNCHANGED migrationVars /\ CopyInv => CopyInv'
    BY DEF migrationVars, CopyInv, CopiesOwned, SafetyCopy, Prepared
  <2> QED BY <2>1, CopyStep DEF Next, custodyVars
<1>2. Init => CopyInv
  BY CopyInitInv DEF Init
<1>3. CopyInv => SafetyCopy
  BY DEF CopyInv
<1> QED BY <1>1, <1>2, <1>3, PartsHold, PTL DEF Spec

\* The upgrade's transaction loses no row of any archive and changes nothing a
\* row or a thread says (migrate.ts).
THEOREM UpgradeKeepsRows == Spec => RowsKept
<1> DEFINE Kept == \A p \in Openers : stage[p] = "apply" /\ stage'[p] = "open" =>
          /\ {Said(m) : m \in live'.messages} = {Said(m) : m \in live.messages}
          /\ {<<t.id, t.members, t.owners>> : t \in live'.threads}
                = {<<t.id, t.members, t.owners>> : t \in live.threads}
<1>1. MigrationInv /\ [Next]_custodyVars => [Kept]_migrationVars
  BY StepKeepsRows DEF Next, custodyVars, aclVars, panelVars
<1> HIDE DEF Kept
<1>2. Spec => [][Kept]_migrationVars
  BY PartsHold, <1>1, PTL DEF Spec
<1> QED BY <1>2 DEF Kept, RowsKept
=============================================================================

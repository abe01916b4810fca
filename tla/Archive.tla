------------------------------ MODULE Archive ------------------------------
(***************************************************************************)
(* The archive: what importing files, one after another or side by side,   *)
(* makes of contacts, threads and messages.                                *)
(*                                                                         *)
(* An importer is a run of the ingest command, a process of its own.  It   *)
(* looks whether the file is known, parses it (awaited), reads who the     *)
(* archive's owner is, writes everything in one transaction, and           *)
(* recomputes the threads' coverage afterwards, each by two statements     *)
(* between which other processes may commit.                               *)
(*                                                                         *)
(* A person is a natural key: every person has one contact.  Who the owner *)
(* is must be found out: from the roles in the file, or from the archive.  *)
(* Threads and messages are keyed by the participants that are not owners. *)
(* When the owner is found after threads were made, these are repaired.    *)
(***************************************************************************)
EXTENDS Dedup, Sequences

CONSTANTS
    People,      \* natural keys of contacts
    Me,          \* whose archive it is: the properties know, the code does not
    Log,         \* what sources recorded, in the order a file lists it
    Importers,   \* runs of the ingest command
    Answers,     \* whom onboarding may name as the owner
    MaxImports,  \* bound on the files imported
    MaxRows,     \* bound on the records of all files imported
    MaxRecords,  \* bound on the records in a file
    Overlap,     \* which imports may be parsed and written side by side:
                 \* "none", those of the "same" file, "any"
    CanCrash,    \* whether importers may be killed
    None         \* nobody, no file

Roles == {"from", "to"}
Record == [addr : SUBSET (People \X Roles), dir : {"incoming", "outgoing"},
           at : Nat, body : Nat, native : Nat \cup {NoId}, carries : Nat]

ASSUME PeopleAssumption == People \subseteq Nat /\ Me \in People /\ Answers \subseteq People
ASSUME LogAssumption == Log \in Seq(Record)
ASSUME NobodyAssumption == None \notin People
ASSUME OverlapAssumption == Overlap \in {"none", "same", "any"}

VARIABLES
    imported,    \* source_files: the files that are in, each a set of records
    owner,       \* the contact with is_owner = 1
    metaOwner,   \* app_meta owner_contact_id
    threads,     \* threads with their participants
    messages,    \* message rows
    collided,    \* app_meta: a repair left something on its old key
    at,          \* where each importer stands
    file,        \* the file it imports
    known,       \* the archive's owner as it read it
    todo,        \* ids of the threads whose coverage it has yet to set
    counted,     \* of one of them: what it read, not yet set
    cut          \* whether an import was killed after its transaction, or rows came to
                 \* a thread between the reading and the setting of another import

storeVars == <<imported, owner, metaOwner, threads, messages, collided>>
vars == <<storeVars, at, file, known, todo, counted, cut>>

Records == DOMAIN Log
Who(r) == {a[1] : a \in Log[r].addr}
Keys == {"member", "self"} \X People

\* Row ids are handed out in order: by import, then by place in the file.  A
\* thread has the id of the first message it was made for.
RowIds == Nat \X Records
IdPrecedes(a, b) == a[1] < b[1] \/ (a[1] = b[1] /\ a[2] < b[2])

Thread == [id : RowIds, sig : SUBSET Keys, members : SUBSET People,
           owners : SUBSET People, covered : Nat]
Row == [id : RowIds, thread : RowIds,
        key : ((SUBSET Keys) \X {"incoming", "outgoing"} \X Nat \X Nat) \X Nat]

ArchiveTypeOK ==
    /\ imported \subseteq SUBSET Records
    /\ owner \in People \cup {None}
    /\ metaOwner \in People \cup {None}
    /\ threads \subseteq Thread
    /\ messages \subseteq Row
    /\ collided \in BOOLEAN
    /\ at \in [Importers -> {"idle", "parsing", "resolved", "cover", "covering"}]
    /\ file \in [Importers -> SUBSET Records]
    /\ known \in [Importers -> SUBSET People]
    /\ todo \in [Importers -> SUBSET RowIds]
    /\ counted \in [Importers -> SUBSET (RowIds \X Nat)]
    /\ cut \in BOOLEAN

Init ==
    /\ imported = {}
    /\ owner = None
    /\ metaOwner = None
    /\ threads = {}
    /\ messages = {}
    /\ collided = FALSE
    /\ at = [i \in Importers |-> "idle"]
    /\ file = [i \in Importers |-> {}]
    /\ known = [i \in Importers |-> {}]
    /\ todo = [i \in Importers |-> {}]
    /\ counted = [i \in Importers |-> {}]
    /\ cut = FALSE

-----------------------------------------------------------------------------
(* Who a file says the owner is *)

\* The sender of what went out, the only recipient of what came in.
Stated(F) ==
    {p \in People : \E r \in F :
        \/ Log[r].dir = "outgoing" /\ <<p, "from">> \in Log[r].addr
        \/ /\ Log[r].dir = "incoming"
           /\ {q \in People : <<q, "to">> \in Log[r].addr} = {p}}

Neighbours(p, F) == UNION {Who(r) \ {p} : r \in {x \in F : p \in Who(x)}}

\* The one who is seen with the most others, two at least.
MostSeen(F) ==
    LET seen(p) == Cardinality(Neighbours(p, F))
    IN {p \in People : seen(p) >= 2 /\ \A q \in People \ {p} : seen(q) < seen(p)}

FileOwner(F) ==
    LET best == IF Cardinality(Stated(F)) = 1 THEN Stated(F) ELSE MostSeen(F)
    IN IF best = {} THEN None ELSE CHOOSE p \in best : TRUE

\* What the archive knows of its owner: one contact, whatever onboarding says.
Flagged == {owner} \ {None}

OwnerKeys == IF metaOwner \in Flagged THEN {metaOwner} ELSE Flagged

\* Mutant: what the archive knows is forgotten.
OwnersByFile(i) == {FileOwner(file[i])} \ {None}

\* Whom importer i takes for owners: the archive's and the file's.
Owners(i) == known[i] \cup ({FileOwner(file[i])} \ {None})

-----------------------------------------------------------------------------
(* Threads and keys.  No counterpart means a note to self: whose self.      *)

KeyOfPeople(members, owners) ==
    IF members # {} THEN {"member"} \X members ELSE {"self"} \X owners

\* Mutant: the counterpart is who sent it.
CounterpartBySender(r, owners) ==
    LET from == {p \in People \ owners : <<p, "from">> \in Log[r].addr}
    IN KeyOfPeople(IF from = {} THEN Who(r) \ owners ELSE from, Who(r) \cap owners)

Counterpart(r, owners) == KeyOfPeople(Who(r) \ owners, Who(r) \cap owners)

ItemOf(r, owners) ==
    [counterpart |-> Counterpart(r, owners), dir |-> Log[r].dir, at |-> Log[r].at,
     body |-> Log[r].body, native |-> Log[r].native, carries |-> Log[r].carries]

\* The records of F in the thread with signature s, and the first of them.
Slice(F, s, owners) == {r \in F : Counterpart(r, owners) = s}
FirstIn(R) == CHOOSE r \in R : \A q \in R : r <= q

-----------------------------------------------------------------------------
(* The repair, once contact o is marked as the owner: o leaves the members  *)
(* of every thread, threads and messages get the keys they would have had,  *)
(* and what cannot take its key keeps the one it had.                       *)

Affected(o) == {t \in threads : o \in t.members}

Corrected(t, o) == KeyOfPeople(t.members \ {o}, t.owners \cup {o})

\* Mutant: a key that is in use is taken all the same.
TakesAnyway(t, o) == TRUE

\* No thread that stays, and no thread before t, has its corrected key.
Takes(t, o) ==
    /\ \A u \in threads \ Affected(o) : u.sig # Corrected(t, o)
    /\ \A u \in Affected(o) :
          IdPrecedes(u.id, t.id) => Corrected(u, o) # Corrected(t, o)

RepairedThreads(o) ==
    {IF t \notin Affected(o) THEN t
     ELSE [t EXCEPT !.members = @ \ {o}, !.owners = @ \cup {o},
                    !.sig = IF Takes(t, o) THEN Corrected(t, o) ELSE @] : t \in threads}

Loose(o) == {m \in messages : \E t \in Affected(o) : t.id = m.thread}

\* The archive's rows are distinct by definition: each is numbered by its
\* instant and its row id.
RepairedKey(m, o) ==
    LET group(x) == LET t == CHOOSE u \in Affected(o) : u.id = x.thread
                    IN <<Corrected(t, o), Log[x.id[2]].dir, Bucket(Log[x.id[2]].at),
                         Log[x.id[2]].body>>
        before(x) == \/ Log[x.id[2]].at < Log[m.id[2]].at
                     \/ Log[x.id[2]].at = Log[m.id[2]].at /\ IdPrecedes(x.id, m.id)
    IN <<group(m), Cardinality({x \in Loose(o) : group(x) = group(m) /\ (before(x) \/ x = m)})>>

Keeps(m, o) == \E x \in messages \ Loose(o) : x.key = RepairedKey(m, o)

RepairedMessages(o) ==
    {IF m \notin Loose(o) \/ Keeps(m, o) THEN m
     ELSE [m EXCEPT !.key = RepairedKey(m, o)] : m \in messages}

RepairCollides(o) ==
    \/ \E t \in Affected(o) : ~Takes(t, o)
    \/ \E m \in Loose(o) : Keeps(m, o)

-----------------------------------------------------------------------------
(* Joining a file's threads and messages with those that are there *)

\* A thread with the same signature is the same thread; who takes part in it
\* already keeps the role.
JoinedThread(t, R, owners, fo) ==
    LET there == t.members \cup t.owners
        present == UNION {Who(r) : r \in R}
    IN [t EXCEPT !.owners = @ \cup (((present \cap owners) \cup ({fo} \ {None})) \ there),
                 !.members = @ \cup ((present \ owners) \ there)]

JoinThreads(ts, F, owners, fo, n) ==
    LET fresh == {Counterpart(r, owners) : r \in F} \ {t.sig : t \in ts}
        empty(s) == [id |-> <<n, FirstIn(Slice(F, s, owners))>>, sig |-> s, members |-> {},
                     owners |-> {}, covered |-> Cardinality(Slice(F, s, owners))]
    IN {IF Slice(F, t.sig, owners) = {} THEN t
        ELSE JoinedThread(t, Slice(F, t.sig, owners), owners, fo) :
            t \in ts \cup {empty(s) : s \in fresh}}

\* A row whose key is there is not inserted.
JoinMessages(ts, ms, F, owners, n) ==
    LET batch == {ItemOf(r, owners) : r \in F}
        key(r) == KeyIn(ItemOf(r, owners), batch)
        fresh == {r \in F : /\ \A m \in ms : m.key # key(r)
                            /\ \A q \in F : q < r => key(q) # key(r)}
    IN ms \cup {[id |-> <<n, r>>, key |-> key(r),
                 thread |-> (CHOOSE t \in ts : t.sig = Counterpart(r, owners)).id] : r \in fresh}

-----------------------------------------------------------------------------
(* One import *)

\* How many rows of the thread with this id there are in ms.
RowCount(id, ms) == Cardinality({m \in ms : m.thread = id})

Idle == \A i \in Importers : at[i] = "idle"

\* A file that is known is skipped.
Read(i, F) ==
    /\ at[i] = "idle"
    /\ \A j \in Importers :
          \/ at[j] = "idle" \/ Overlap = "any"
          \/ Overlap = "same" /\ (file[j] = F \/ at[j] \in {"cover", "covering"})
    /\ Cardinality(imported) < MaxImports
    /\ Cardinality(UNION {{G} \X G : G \in imported \cup {F}}) <= MaxRows
    /\ F \notin imported
    /\ at' = [at EXCEPT ![i] = "parsing"]
    /\ file' = [file EXCEPT ![i] = F]
    /\ UNCHANGED <<storeVars, known, todo, counted, cut>>

\* The file is parsed: who the owner is decides what the threads are.
Resolve(i) ==
    /\ at[i] = "parsing"
    /\ at' = [at EXCEPT ![i] = "resolved"]
    /\ known' = [known EXCEPT ![i] = OwnerKeys]
    /\ UNCHANGED <<storeVars, file, todo, counted, cut>>

\* The transaction.  The first owner anybody finds is marked, for good.
Write(i) ==
    /\ at[i] = "resolved" /\ file[i] \notin imported
    /\ LET F == file[i]
           fo == FileOwner(F)
           n == Cardinality(imported) + 1
           marks == owner = None /\ fo # None
           ts == IF marks THEN RepairedThreads(fo) ELSE threads
           ms == IF marks THEN RepairedMessages(fo) ELSE messages
           joined == JoinThreads(ts, F, Owners(i), fo, n)
       IN /\ threads' = joined
          /\ messages' = JoinMessages(joined, ms, F, Owners(i), n)
          /\ owner' = IF marks THEN fo ELSE owner
          /\ metaOwner' = IF metaOwner = None THEN owner' ELSE metaOwner
          /\ imported' = imported \cup {F}
          /\ collided' = (collided \/ (marks /\ RepairCollides(fo)))
    /\ at' = [at EXCEPT ![i] = "cover"]
    /\ cut' = (cut \/ \E j \in Importers : \E c \in counted[j] :
                          RowCount(c[1], messages') # RowCount(c[1], messages))
    /\ UNCHANGED <<file, known, todo, counted>>

End(i) ==
    /\ at' = [at EXCEPT ![i] = "idle"]
    /\ file' = [file EXCEPT ![i] = {}]
    /\ known' = [known EXCEPT ![i] = {}]
    /\ todo' = [todo EXCEPT ![i] = {}]
    /\ counted' = [counted EXCEPT ![i] = {}]

\* Another importer was first with the same file: the hash is taken.
WriteFails(i) ==
    /\ at[i] = "resolved" /\ file[i] \in imported
    /\ End(i)
    /\ UNCHANGED <<storeVars, cut>>

\* Mutant: only threads that this import made.
ListNew(i) ==
    /\ at[i] = "cover"
    /\ at' = [at EXCEPT ![i] = "covering"]
    /\ todo' = [todo EXCEPT ![i] = {t.id : t \in {u \in threads : u.id[1] = Cardinality(imported)}}]
    /\ file' = [file EXCEPT ![i] = {}]
    /\ known' = [known EXCEPT ![i] = {}]
    /\ UNCHANGED <<storeVars, counted, cut>>

\* Coverage is that of all the rows of a thread, whatever file they are from, and
\* of all threads there are by now.  The file is no longer looked at.
ListThreads(i) ==
    /\ at[i] = "cover"
    /\ at' = [at EXCEPT ![i] = "covering"]
    /\ todo' = [todo EXCEPT ![i] = {t.id : t \in threads}]
    /\ file' = [file EXCEPT ![i] = {}]
    /\ known' = [known EXCEPT ![i] = {}]
    /\ UNCHANGED <<storeVars, counted, cut>>

\* One thread after the other, whose order does not matter: a SELECT of its rows,
\* an UPDATE of the thread.
CountRows(i) ==
    /\ at[i] = "covering" /\ counted[i] = {}
    /\ \E id \in todo[i] :
          /\ \A other \in todo[i] : other = id \/ IdPrecedes(id, other)
          /\ counted' = [counted EXCEPT ![i] = {<<id, RowCount(id, messages)>>}]
    /\ UNCHANGED <<storeVars, at, file, known, todo, cut>>

SetCoverage(i) ==
    /\ \E c \in counted[i] :
          /\ threads' = {IF t.id = c[1] THEN [t EXCEPT !.covered = c[2]] ELSE t : t \in threads}
          /\ todo' = [todo EXCEPT ![i] = @ \ {c[1]}]
    /\ counted' = [counted EXCEPT ![i] = {}]
    /\ UNCHANGED <<imported, owner, metaOwner, messages, collided, at, file, known, cut>>

Covered(i) ==
    /\ at[i] = "covering" /\ todo[i] = {}
    /\ End(i)
    /\ UNCHANGED <<storeVars, cut>>

Kill(i) ==
    /\ CanCrash
    /\ at[i] # "idle"
    /\ End(i)
    /\ cut' = (cut \/ at[i] \in {"cover", "covering"})
    /\ UNCHANGED storeVars

\* Onboarding asks who the owner is; the answer goes into app_meta alone.
Onboard(p) ==
    /\ \E F \in imported : \E r \in F : p \in Who(r)
    /\ metaOwner' = p
    /\ UNCHANGED <<imported, owner, threads, messages, collided, at, file, known, todo,
                   counted, cut>>

Files == {F \in SUBSET Records : F # {} /\ Cardinality(F) <= MaxRecords}

Next ==
    \/ \E i \in Importers :
          \/ \E F \in Files : Read(i, F)
          \/ Resolve(i) \/ Write(i) \/ WriteFails(i)
          \/ ListThreads(i) \/ CountRows(i) \/ SetCoverage(i) \/ Covered(i)
          \/ Kill(i)
    \/ \E p \in Answers : Onboard(p)

Spec == Init /\ [][Next]_vars

-----------------------------------------------------------------------------
(* Properties *)

\* The conversation a record is really of.
Truth(r) == Who(r) \ {Me}

\* What the records of one real conversation that share direction, minute and
\* body have in common, and how many messages a file says they are: as many as
\* have ids of their own, instants, or contents of one instant.
Likeness(r) == <<Truth(r), Log[r].dir, Bucket(Log[r].at), Log[r].body>>
Alike(r, R) == LET like == Likeness(r) IN {q \in R : Likeness(q) = like}
Count(R) ==
    Cardinality({IF Log[q].native = NoId THEN <<Log[q].at, Log[q].carries>>
                                         ELSE <<Log[q].native>> : q \in R})
RowsLike(r) == LET like == Likeness(r) IN {m \in messages : Likeness(m.id[2]) = like}

\* The two UNIQUE columns that repair rewrites in place, one row at a time:
\* no two threads share a signature and no two messages a key.
KeysAreUnique ==
    /\ \A t, u \in threads : t.sig = u.sig => t = u
    /\ \A m, n \in messages : m.key = n.key => m = n

\* Nothing is eaten: the archive holds no fewer messages of a kind than any
\* file that went into it, whenever the owner was found out.
NothingLost ==
    \A F \in imported : \A r \in F : Count(Alike(r, F)) <= Cardinality(RowsLike(r))

\* Nothing is doubled: once the owner is known the archive holds no more
\* messages of a kind than some file did, unless a repair said that it could
\* not give everything its key.
NothingDoubled ==
    owner # None /\ ~collided =>
        \A m \in messages :
            \E F \in imported :
                Cardinality(RowsLike(m.id[2])) <= Count(Alike(m.id[2], F))

\* Two conversations never become one thread, and the archive's owner is no
\* counterpart of any, also of those made before anybody knew.
OneConversationPerThread ==
    /\ \A m, n \in messages : m.thread = n.thread => Truth(m.id[2]) = Truth(n.id[2])
    /\ \A t \in threads : owner \notin t.members

\* A thread's coverage is of the union of its sources as soon as no import is
\* at work, also when one commits while another sets coverage, unless an import
\* was killed after its transaction or rows came to a thread between the reading
\* and the setting.
CoverageIsCurrent ==
    Idle /\ ~cut => \A t \in threads : t.covered = RowCount(t.id, messages)

-----------------------------------------------------------------------------
(* What theorems take for granted of the sources                             *)

\* No file makes anybody else out to be the owner.
NoStranger == \A F \in Files : FileOwner(F) \in {Me, None}

\* An id a source gives is of one message, so of one instant.
OneInstant ==
    \A r, q \in Records :
        Log[r].native # NoId /\ Log[r].native = Log[q].native => Log[r].at = Log[q].at

\* Every record has somebody who sent or got it.
Peopled == \A r \in Records : Who(r) # {}

=============================================================================

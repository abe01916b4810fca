----------------------------- MODULE Migration -----------------------------
(***************************************************************************)
(* Opening an archive that an older release wrote: openDb brings it up to  *)
(* date, after it has made sure that a safety copy lies beside it.         *)
(*                                                                         *)
(* An opener is a process with the archive's path: the server or a         *)
(* command.  It runs schema.sql, which by now has the index the second step *)
(* would add; what is pending after that is read from the schema; a copy    *)
(* that stands in for the archive is used again, or one is written; then    *)
(* everything pending is applied in one transaction.  Nothing in that       *)
(* transaction may fail for what the archive holds: this is the only door.  *)
(***************************************************************************)
EXTENDS Dedup, FiniteSetsExt

CONSTANTS
    Openers,     \* processes that open the archive
    KeyOf,       \* the natural key of each contact, None for one without identifiers
    Old,         \* archives older releases left
    News,        \* messages that an older release, or an import, may yet add
    MaxCopies,   \* bound on the safety copies ever begun
    None         \* no key, no copy

Contacts == DOMAIN KeyOf
Ids == Nat

ASSUME KeyAssumption == IsFiniteSet(Contacts) /\ KeyOf \in [Contacts -> Nat \cup {None}] /\ None \notin Nat
ASSUME BoundAssumption == MaxCopies \in Nat

Sig == ({"old", "legacy"} \X Ids) \cup ({"set"} \X SUBSET ({"member", "self"} \X Nat \X Nat))
Thread == [id : Ids, sig : Sig, members : SUBSET Contacts, owners : SUBSET Contacts]
Row == [id : Ids, thread : Ids, dir : {"incoming", "outgoing"}, at : Nat, body : Nat,
        path : {"xml", "txt", "zip", "json", "csv", "db"},
        kind : {"none", "android_smsbackup", "whatsapp_txt", "generic_jsonl", "unknown"}]
KeyKinds == {"old", "legacy", "key"}

VARIABLES
    live,     \* the archive at the path: the steps in its schema, threads, messages
    copies,   \* the safety copies beside it
    begun,    \* how many were begun: their stamps
    stage,    \* where each opener stands
    pending,  \* the steps it found pending
    copy,     \* the stamp of the copy it relies on
    before    \* what the archive held when it was brought up to date (for the properties)

migrationVars == <<live, copies, begun, stage, pending, copy, before>>

Steps == {1, 2}

ArchiveOK(a) ==
    /\ a = [has |-> a.has, threads |-> a.threads, messages |-> a.messages]
    /\ a.has \subseteq Steps
    /\ a.threads \subseteq Thread
    /\ \A m \in a.messages :
          /\ m.row \in Row
          /\ m.key[1] \in KeyKinds
          /\ \E t \in a.threads : t.id = m.row.thread

\* The schema's primary keys and UNIQUE columns.
Distinct(a) ==
    /\ \A t, u \in a.threads : t.id = u.id \/ t.sig = u.sig => t = u
    /\ \A m, n \in a.messages : m.row.id = n.row.id \/ m.key = n.key => m = n

\* Older releases gave every row a key of its own; the first step gives each the
\* key it should have.
KeysFit(a) ==
    \A m \in a.messages : IF 1 \in a.has THEN m.key[1] # "legacy" ELSE m.key = <<"old", m.row.id>>

ASSUME OldAssumption ==
    \A a \in Old : ArchiveOK(a) /\ IsFiniteSet(a.messages) /\ Distinct(a) /\ KeysFit(a)
ASSUME NewsAssumption == \A m \in News : m.row \in Row /\ m.key = <<"old", m.row.id>>

MigrationTypeOK ==
    /\ ArchiveOK(live)
    /\ \A f \in copies : /\ f.stamp \in 1 .. begun /\ f.version \in Steps
                         /\ f.whole \in BOOLEAN /\ ArchiveOK(f.of)
    /\ stage \in [Openers -> {"closed", "schema", "copy", "apply", "open"}]
    /\ pending \in [Openers -> SUBSET Steps]
    /\ copy \in [Openers -> (1 .. begun) \cup {None}]

MigrationInit ==
    /\ live \in Old
    /\ copies = {}
    /\ begun = 0
    /\ stage = [p \in Openers |-> "closed"]
    /\ pending = [p \in Openers |-> {}]
    /\ copy = [p \in Openers |-> None]
    /\ before = None

-----------------------------------------------------------------------------
(* The first step: provenance, signatures, keys *)

KindFromPath(path) ==
    CASE path = "xml" -> "android_smsbackup"
      [] path \in {"txt", "zip"} -> "whatsapp_txt"
      [] path \in {"json", "csv"} -> "generic_jsonl"
      [] OTHER -> "unknown"

\* A key for each contact that has one, sorted: one that several share stands there
\* as often.
KeysOf(people, role) ==
    {<<role, KeyOf[c], Cardinality({d \in people : KeyOf[d] = KeyOf[c]})>> :
        c \in {d \in people : KeyOf[d] # None}}

\* Who a thread is with: its members, or in a note to self its owners.
Participants(t) ==
    LET keys == KeysOf(t.members, "member")
    IN IF keys # {} THEN keys ELSE KeysOf(t.owners, "self")

\* Mutant: every thread takes the signature it should have.
FirstOfAll(t, threads) == TRUE

\* Of the threads that are with the same people the first takes the signature.
FirstWith(t, threads) ==
    \A u \in threads : Participants(u) = Participants(t) => t.id <= u.id

\* Mutant: threads that are with the same people become one.
SignedMerged(threads) ==
    {[t EXCEPT !.sig = <<"set", Participants(t)>>] : t \in {u \in threads : FirstWith(u, threads)}}

Signed(threads) ==
    {[t EXCEPT !.sig = IF FirstWith(t, threads) THEN <<"set", Participants(t)>>
                                               ELSE <<"legacy", t.id>>] : t \in threads}

\* Mutant: a thread that is with nobody else is its own counterpart.
ItemByThread(r, threads) ==
    LET t == CHOOSE u \in threads : u.id = r.thread
        keys == KeysOf(t.members, "member")
    IN [counterpart |-> IF keys # {} THEN keys ELSE {<<"thread", t.id>>},
        dir |-> r.dir, at |-> r.at, body |-> r.body, native |-> r.id, carries |-> 0]

\* What keyBatch is given for a row.  A row is itself: its id is its source's
\* id.  (A thread without any identifier is its own counterpart.)
ItemOf(r, threads) ==
    LET t == CHOOSE u \in threads : u.id = r.thread
    IN [counterpart |-> IF Participants(t) # {} THEN Participants(t) ELSE {<<"thread", t.id>>},
        dir |-> r.dir, at |-> r.at, body |-> r.body, native |-> r.id, carries |-> 0]

Rows(a) == {m.row : m \in a.messages}
RowKey(r, a) == KeyIn(ItemOf(r, a.threads), {ItemOf(q, a.threads) : q \in Rows(a)})

\* A key that an earlier row took is not written; the row keeps a legacy key.
Keyed(a) ==
    {[row |-> [r EXCEPT !.kind = KindFromPath(r.path)],
      key |-> IF \E q \in Rows(a) : q.id < r.id /\ RowKey(q, a) = RowKey(r, a)
              THEN <<"legacy", r.id>> ELSE <<"key", RowKey(r, a)>>] : r \in Rows(a)}

ApplyV1(a) == [has |-> a.has \cup {1}, threads |-> Signed(a.threads), messages |-> Keyed(a)]

\* The second step adds an index and touches no row.
ApplyV2(a) == [a EXCEPT !.has = @ \cup {2}]

Applied(steps, a) ==
    LET one == IF 1 \in steps THEN ApplyV1(a) ELSE a
    IN IF 2 \in steps THEN ApplyV2(one) ELSE one

-----------------------------------------------------------------------------
(* The safety copy *)

\* A cheap identity: how many messages, which ids, which span.
Fingerprint(a) ==
    LET ids == {r.id : r \in Rows(a)}
        ats == {r.at : r \in Rows(a)}
        lo(S) == IF S = {} THEN 0 ELSE Min(S)
        hi(S) == IF S = {} THEN 0 ELSE Max(S)
    IN <<Cardinality(a.messages), lo(ids), hi(ids), lo(ats), hi(ats)>>

\* Mutant: the name on the file is enough.
StandsInByName(f) == TRUE

\* A copy that was cut short is no database; one of another archive is another.
StandsIn(f) == f.whole /\ Fingerprint(f.of) = Fingerprint(live)

Candidates(version) == {f \in copies : f.version = version /\ StandsIn(f)}

Needed(a) == Steps \ a.has

-----------------------------------------------------------------------------
(* One opener *)

\* openDb runs schema.sql before anything is asked or copied.  It leaves the tables
\* there are as they are, but adds the index that the second step is about.
RunsSchema(p) ==
    /\ stage[p] = "closed"
    /\ stage' = [stage EXCEPT ![p] = "schema"]
    /\ live' = ApplyV2(live)
    /\ UNCHANGED <<copies, begun, pending, copy, before>>

\* What is pending is read (the second step never is by then); nothing is, the
\* archive is empty, there is a copy, or one must be written.
Open(p) ==
    /\ stage[p] = "schema"
    /\ LET todo == Needed(live)
           version == Max(todo)
           usable == Candidates(version)
       IN \/ /\ todo = {}
             /\ stage' = [stage EXCEPT ![p] = "open"]
             /\ UNCHANGED <<copies, begun, pending, copy>>
          \/ /\ todo # {} /\ (live.messages = {} \/ usable # {})
             /\ stage' = [stage EXCEPT ![p] = "apply"]
             /\ pending' = [pending EXCEPT ![p] = todo]
             /\ copy' = [copy EXCEPT ![p] =
                           IF live.messages = {} THEN None ELSE Min({f.stamp : f \in usable})]
             /\ UNCHANGED <<copies, begun>>
          \/ /\ todo # {} /\ live.messages # {} /\ usable = {}
             /\ begun < MaxCopies
             /\ stage' = [stage EXCEPT ![p] = "copy"]
             /\ pending' = [pending EXCEPT ![p] = todo]
             /\ begun' = begun + 1
             /\ copy' = [copy EXCEPT ![p] = begun']
             /\ copies' = copies \cup
                   {[stamp |-> begun', version |-> version, whole |-> FALSE, of |-> live]}
    /\ UNCHANGED <<live, before>>

\* VACUUM INTO reads the archive as it was when the statement began.
CopyEnds(p) ==
    /\ stage[p] = "copy"
    /\ stage' = [stage EXCEPT ![p] = "apply"]
    /\ copies' = {IF f.stamp = copy[p] THEN [f EXCEPT !.whole = TRUE] ELSE f : f \in copies}
    /\ UNCHANGED <<live, begun, pending, copy, before>>

Gone(p) ==
    /\ stage' = [stage EXCEPT ![p] = "closed"]
    /\ pending' = [pending EXCEPT ![p] = {}]
    /\ copy' = [copy EXCEPT ![p] = None]

\* No room for the copy: refused in words.  What was written may stay.
CopyFails(p) ==
    /\ stage[p] = "copy"
    /\ Gone(p)
    /\ copies' \in {copies, {f \in copies : f.stamp # copy[p]}}
    /\ UNCHANGED <<live, begun, before>>

\* Everything pending, in one transaction.
Apply(p) ==
    /\ stage[p] = "apply"
    /\ stage' = [stage EXCEPT ![p] = "open"]
    /\ live' = Applied(pending[p], live)
    /\ before' = IF live.has # live'.has /\ live.messages # {} THEN live ELSE before
    /\ UNCHANGED <<copies, begun, pending, copy>>

\* The transaction is rolled back, or the process ends; either way it is as
\* if it had not begun.
Fails(p) ==
    /\ stage[p] \in {"schema", "copy", "apply", "open"}
    /\ Gone(p)
    /\ UNCHANGED <<live, copies, begun, before>>

-----------------------------------------------------------------------------
(* What happens to the archive between two attempts *)

Closed == \A p \in Openers : stage[p] = "closed"

\* The release before this one still opens an archive whose rows are not upgraded,
\* and adds a message.
OldRelease(m) ==
    /\ Closed /\ 1 \notin live.has
    /\ \A r \in Rows(live) : r.id # m.row.id
    /\ \E t \in live.threads : t.id = m.row.thread
    /\ live' = [live EXCEPT !.messages = @ \cup {m}]
    /\ UNCHANGED <<copies, begun, stage, pending, copy, before>>

\* Another archive, or a safety copy, is put in the place of this one.
Restore(a) ==
    /\ Closed /\ a # live
    /\ live' = a
    /\ before' = None
    /\ UNCHANGED <<copies, begun, stage, pending, copy>>

MigrationNext ==
    \/ \E p \in Openers : RunsSchema(p) \/ Open(p) \/ CopyEnds(p) \/ CopyFails(p) \/ Apply(p) \/ Fails(p)
    \/ \E m \in News : OldRelease(m)
    \/ \E a \in Old \cup {f.of : f \in {g \in copies : g.whole}} : Restore(a)

MigrationSpec == MigrationInit /\ [][MigrationNext]_migrationVars

-----------------------------------------------------------------------------
(* Properties *)

\* No two threads share a signature and no two messages a key, which the
\* schema's UNIQUE columns would answer by aborting the upgrade: whatever an
\* older release left, it opens, and no row gives up the key it should have.
OpensWhateverItHolds ==
    /\ \A t, u \in live.threads : t.sig = u.sig => t = u
    /\ \A m, n \in live.messages : m.key = n.key => m = n
    /\ 1 \in live.has => \A m \in live.messages : m.key[1] # "legacy"

\* Whatever the attempts before it left behind, once the first step has rewritten the
\* rows of an archive, what they were before lies beside it, whole.  (The index of
\* schema.sql is added to it, and to the archive, before any copy is made.)
SafetyCopy ==
    before # None =>
        \E f \in copies : /\ f.whole
                          /\ f.of.messages = before.messages /\ f.of.threads = before.threads

\* The upgrade loses no row, and what a row says it leaves alone.
Said(m) == [m.row EXCEPT !.kind = "none"]
RowsKept ==
    [][\A p \in Openers : stage[p] = "apply" /\ stage'[p] = "open" =>
          /\ {Said(m) : m \in live'.messages} = {Said(m) : m \in live.messages}
          /\ {<<t.id, t.members, t.owners>> : t \in live'.threads}
                = {<<t.id, t.members, t.owners>> : t \in live.threads}]_migrationVars

\* An import names everybody once.  (An upgraded thread with two contacts of one
\* number has that number twice.)
Once(keys) == {<<k[1], k[2], 1>> : k \in keys}

\* The messages of threads that have identifiers, none of them twice, imported once
\* more by this release, with ids of their own or without: each has a key that the
\* upgraded archive holds, so nothing is doubled.
ImportedAgain(a, withIds) ==
    LET people(r) == Participants(CHOOSE t \in a.threads : t.id = r.thread)
        with(r) == Once(people(r))
        known == {r \in Rows(a) : with(r) # {} /\ with(r) = people(r)}
        item(r) == [counterpart |-> with(r), dir |-> r.dir, at |-> r.at, body |-> r.body,
                    native |-> IF withIds THEN r.id + 1 ELSE NoId, carries |-> 0]
    IN {KeyIn(item(r), {item(q) : q \in known}) : r \in known}
KnownAgain(a) ==
    1 \in a.has =>
        \A withIds \in BOOLEAN : \A k \in ImportedAgain(a, withIds) :
            \E m \in a.messages : m.key = <<"key", k>>
ReimportAddsNothing == KnownAgain(live)

-----------------------------------------------------------------------------
(* What two theorems take for granted of the archives older releases left    *)

\* What an archive whose rows are not upgraded can hold, and that the fingerprint
\* (migrate.ts) tells such archives apart, as the code relies on.
Holdings == {[has |-> o.has, threads |-> o.threads, messages |-> o.messages \cup M] :
                o \in {p \in Old : 1 \notin p.has}, M \in SUBSET News}
FingerprintTells ==
    \A a, b \in Holdings : Fingerprint(a) = Fingerprint(b) => a.messages = b.messages /\ a.threads = b.threads

\* What had the first step before knows its rows again.
UpgradedBefore == \A a \in Old : 1 \in a.has => KnownAgain(a)

=============================================================================

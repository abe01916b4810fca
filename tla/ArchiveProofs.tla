---------------------------- MODULE ArchiveProofs ----------------------------
(***************************************************************************)
(* Proofs about the archive, for any log, any importers side by side in any *)
(* order, killed anywhere.                                                  *)
(***************************************************************************)
EXTENDS Intake, Counting

-----------------------------------------------------------------------------
(* The inductive invariant                                                   *)

\* Row ids were handed out in order, no two rows alike.
NumberedOK ==
    /\ IsFiniteSet(imported)
    /\ \A t \in threads : t.id[1] <= Cardinality(imported)
    /\ \A m \in messages : m.id[1] <= Cardinality(imported)
    /\ \A t, u \in threads : t.id = u.id => t = u
    /\ \A m, n \in messages : m.id = n.id => m = n

RowsOK ==
    /\ IsFiniteSet(messages)
    /\ \A m \in messages : /\ m = [id |-> m.id, key |-> m.key, thread |-> m.thread]
                           /\ m.id \in RowIds

ImportersOK ==
    /\ at \in [Importers -> {"idle", "parsing", "resolved", "cover", "covering"}]
    /\ file \in [Importers -> SUBSET Records]
    /\ known \in [Importers -> SUBSET People]
    /\ todo \in [Importers -> SUBSET RowIds]
    /\ counted \in [Importers -> SUBSET (RowIds \X Nat)]

\* As long as nobody knows who the owner is everybody is a counterpart, and a
\* row's key is of its thread's people.
BeforeOwner ==
    owner = None =>
        /\ \A i \in Importers : known[i] = {}
        /\ \A t \in threads : t.sig = {"member"} \X t.members
        /\ \A m \in messages : \E t \in threads : t.id = m.thread /\ m.key[1][1] = t.sig

ArchiveInv ==
    /\ ImportersOK /\ RowsOK /\ NumberedOK /\ BeforeOwner /\ KeysAreUnique
    /\ threads \subseteq Thread /\ owner \in People \cup {None}

LEMMA ArchiveInitInv == Init => ArchiveInv
BY FS_EmptySet
   DEF Init, ArchiveInv, ImportersOK, RowsOK, NumberedOK, BeforeOwner, KeysAreUnique

\* Files are of what was recorded, in Seq.
LEMMA RecordsAreNumbers ==
    /\ Records \subseteq Nat /\ IsFiniteSet(Records)
    /\ \A r \in Records : Log[r] \in Record /\ Who(r) \subseteq People
<1>1. Records = 1 .. Len(Log) /\ Len(Log) \in Nat /\ \A r \in Records : Log[r] \in Record
  BY LogAssumption DEF Records
<1>2. IsFiniteSet(Records)
  BY <1>1, FS_Interval
<1>3. \A r \in Records : \A a \in Log[r].addr : a[1] \in People
  BY <1>1 DEF Record
<1> QED BY <1>1, <1>2, <1>3 DEF Who

\* Of the records of a file in a thread there is a first.
LEMMA FirstIsIn ==
    ASSUME NEW R \in SUBSET Records, R # {}
    PROVE  FirstIn(R) \in R
BY RecordsAreNumbers, LeastNatural DEF FirstIn

LEMMA FileOwnerIsPerson ==
    ASSUME NEW F \in SUBSET Records
    PROVE  FileOwner(F) \in People \cup {None}
BY DEF FileOwner, Stated, MostSeen

LEMMA CounterpartIsKeys ==
    ASSUME NEW r \in Records, NEW owners \in SUBSET People
    PROVE  Counterpart(r, owners) \in SUBSET Keys
BY RecordsAreNumbers DEF Counterpart, KeyOfPeople, Keys

\* Nobody is an owner yet: the whole of a thread's people are its signature.
LEMMA NobodyIsOwner ==
    ASSUME NEW r \in Records
    PROVE  Counterpart(r, {}) = {"member"} \X Who(r)
BY DEF Counterpart, KeyOfPeople

LEMMA SameMembers ==
    ASSUME NEW A, NEW B, {"member"} \X A = {"member"} \X B
    PROVE  A = B
<1>1. \A x : x \in A <=> <<"member", x>> \in {"member"} \X A
  OBVIOUS
<1>2. \A x : x \in B <=> <<"member", x>> \in {"member"} \X B
  OBVIOUS
<1> QED BY <1>1, <1>2

-----------------------------------------------------------------------------
(* Joining                                                                   *)

LEMMA JoinedThreadKeeps ==
    ASSUME NEW t \in Thread, NEW R \in SUBSET Records, NEW owners \in SUBSET People,
           NEW fo \in People \cup {None}
    PROVE  LET u == JoinedThread(t, R, owners, fo)
           IN u \in Thread /\ u.id = t.id /\ u.sig = t.sig
<1>1. UNION {Who(r) : r \in R} \subseteq People
  BY RecordsAreNumbers
<1> QED BY <1>1 DEF JoinedThread, Thread

\* Threads that are joined keep their ids and signatures, and every record of
\* the file finds one; a new one has a new id and a new signature.
LEMMA JoinedThreads ==
    ASSUME NEW ts \in SUBSET Thread, NEW F \in SUBSET Records, NEW owners \in SUBSET People,
           NEW fo \in People \cup {None}, NEW n \in Nat,
           \A t \in ts : t.id[1] < n,
           \A t, u \in ts : t.id = u.id \/ t.sig = u.sig => t = u
    PROVE  LET joined == JoinThreads(ts, F, owners, fo, n)
           IN /\ joined \in SUBSET Thread
              /\ \A t \in joined : t.id[1] <= n
              /\ \A t, u \in joined : t.id = u.id \/ t.sig = u.sig => t = u
              /\ \A t \in ts : \E u \in joined : u.id = t.id /\ u.sig = t.sig
              /\ \A r \in F : \E u \in joined : u.sig = Counterpart(r, owners)
<1> DEFINE slice(s) == Slice(F, s, owners)
           fresh == {Counterpart(r, owners) : r \in F} \ {t.sig : t \in ts}
           empty(s) == [id |-> <<n, FirstIn(slice(s))>>, sig |-> s, members |-> {},
                        owners |-> {}, covered |-> Cardinality(slice(s))]
           all == ts \cup {empty(s) : s \in fresh}
           join(t) == IF slice(t.sig) = {} THEN t ELSE JoinedThread(t, slice(t.sig), owners, fo)
<1>1. JoinThreads(ts, F, owners, fo, n) = {join(t) : t \in all}
  BY DEF JoinThreads
<1>2. ASSUME NEW s \in fresh
      PROVE  /\ slice(s) \in SUBSET Records /\ slice(s) # {} /\ FirstIn(slice(s)) \in slice(s)
             /\ empty(s) \in Thread /\ empty(s).id = <<n, FirstIn(slice(s))>> /\ empty(s).sig = s
  <2>1. slice(s) \in SUBSET Records /\ slice(s) # {}
    BY DEF Slice
  <2>2. FirstIn(slice(s)) \in slice(s)
    BY <2>1, FirstIsIn
  <2>3. Cardinality(slice(s)) \in Nat
    BY <2>1, RecordsAreNumbers, FS_Subset, FS_CardinalityType
  <2>4. s \in SUBSET Keys
    BY CounterpartIsKeys
  <2>5. <<n, FirstIn(slice(s))>> \in RowIds
    BY <2>1, <2>2 DEF RowIds
  <2> HIDE DEF slice
  <2> QED BY <2>1, <2>2, <2>3, <2>4, <2>5 DEF Thread
<1>3. \A s, z \in fresh : FirstIn(slice(s)) = FirstIn(slice(z)) => s = z
  <2>1. \A s : \A r \in slice(s) : Counterpart(r, owners) = s
    BY DEF Slice
  <2> HIDE DEF slice, fresh, empty
  <2> QED BY <1>2, <2>1
<1>4. \A s \in fresh : \A t \in ts : t.sig # s
  OBVIOUS
<1> HIDE DEF fresh, empty
<1>5. all \in SUBSET Thread /\ \A t \in all : t.id[1] <= n
  BY <1>2 DEF Thread, RowIds
<1>6. \A t, u \in all : t.id = u.id \/ t.sig = u.sig => t = u
  <2>1. ASSUME NEW t \in ts, NEW s \in fresh
        PROVE  t.id # empty(s).id /\ t.sig # empty(s).sig
    BY <1>2, <1>4 DEF Thread, RowIds
  <2>2. ASSUME NEW s \in fresh, NEW z \in fresh, empty(s).id = empty(z).id \/ empty(s).sig = empty(z).sig
        PROVE  s = z
    BY <2>2, <1>2, <1>3
  <2> QED BY <2>1, <2>2
<1>7. \A r \in F : \E u \in all : u.sig = Counterpart(r, owners)
  <2> TAKE r \in F
  <2>1. CASE Counterpart(r, owners) \in fresh
    BY <2>1, <1>2
  <2>2. CASE Counterpart(r, owners) \notin fresh
    BY <2>2 DEF fresh
  <2> QED BY <2>1, <2>2
<1>8. ASSUME NEW t \in all
      PROVE  join(t) \in Thread /\ join(t).id = t.id /\ join(t).sig = t.sig
  <2>1. slice(t.sig) \in SUBSET Records
    BY DEF Slice
  <2> HIDE DEF slice
  <2> QED BY <1>5, <2>1, JoinedThreadKeeps
<1> DEFINE joined == JoinThreads(ts, F, owners, fo, n)
<1> ts \subseteq all
  OBVIOUS
<1> HIDE DEF join, all
<1>9. joined \in SUBSET Thread /\ \A t \in joined : t.id[1] <= n
  BY <1>1, <1>5, <1>8
<1>10. \A t, u \in joined : t.id = u.id \/ t.sig = u.sig => t = u
  BY <1>1, <1>6, <1>8
<1>11. \A t \in all : \E u \in joined : u.id = t.id /\ u.sig = t.sig
  BY <1>1, <1>8
<1> HIDE DEF joined
<1>12. \A r \in F : \E u \in joined : u.sig = Counterpart(r, owners)
  BY <1>7, <1>11
<1> QED BY <1>9, <1>10, <1>11, <1>12 DEF joined

\* Only rows with keys that nothing has are added, each with an id of its own, in
\* the thread it belongs to.
LEMMA JoinedMessages ==
    ASSUME NEW ts \in SUBSET Thread, NEW ms, IsFiniteSet(ms), NEW F \in SUBSET Records,
           NEW owners \in SUBSET People, NEW n \in Nat,
           \A m \in ms : /\ m = [id |-> m.id, key |-> m.key, thread |-> m.thread]
                         /\ m.id \in RowIds /\ m.id[1] < n,
           \A m, k \in ms : m.id = k.id \/ m.key = k.key => m = k,
           \A r \in F : \E u \in ts : u.sig = Counterpart(r, owners)
    PROVE  LET joined == JoinMessages(ts, ms, F, owners, n)
           IN /\ IsFiniteSet(joined)
              /\ \A m \in joined : /\ m = [id |-> m.id, key |-> m.key, thread |-> m.thread]
                                   /\ m.id \in RowIds /\ m.id[1] <= n
              /\ \A m, k \in joined : m.id = k.id \/ m.key = k.key => m = k
              /\ \A m \in joined \ ms : \E u \in ts : /\ u.id = m.thread /\ m.key[1][1] = u.sig
                                                     /\ u.sig = Counterpart(m.id[2], owners)
<1> DEFINE batch == {ItemOf(r, owners) : r \in F}
           key(r) == KeyIn(ItemOf(r, owners), batch)
           fresh == {r \in F : /\ \A m \in ms : m.key # key(r)
                               /\ \A q \in F : q < r => key(q) # key(r)}
           thread(r) == (CHOOSE t \in ts : t.sig = Counterpart(r, owners)).id
           row(r) == [id |-> <<n, r>>, key |-> key(r), thread |-> thread(r)]
           made == [r \in fresh |-> row(r)]
           joined == JoinMessages(ts, ms, F, owners, n)
<1>1. joined = ms \cup {row(r) : r \in fresh}
  BY DEF JoinMessages
<1>2. \A r \in F : key(r)[1][1] = Counterpart(r, owners)
  BY DEF KeyIn, GroupOf, ItemOf
<1>3. \A r \in fresh : \E u \in ts : u.id = thread(r) /\ u.sig = Counterpart(r, owners)
  OBVIOUS
<1>4. \A r, q \in fresh : key(r) = key(q) => r = q
  BY RecordsAreNumbers
<1>5. /\ fresh \in SUBSET Records
      /\ \A r \in fresh : r \in F /\ \A m \in ms : m.key # key(r)
  OBVIOUS
<1>6. IsFiniteSet({row(r) : r \in fresh})
  <2>1. IsFiniteSet(fresh)
    BY <1>5, RecordsAreNumbers, FS_Subset
  <2>2. {row(r) : r \in fresh} = {made[r] : r \in fresh} /\ DOMAIN made = fresh
    OBVIOUS
  <2> HIDE DEF made, fresh, row
  <2> QED BY <2>1, <2>2, FiniteImage
<1> HIDE DEF fresh, key, thread, joined
<1>7. \A r \in fresh : row(r).id = <<n, r>> /\ <<n, r>> \in RowIds
  BY <1>5 DEF RowIds
<1>8. IsFiniteSet(joined)
  BY <1>1, <1>6, FS_Union
<1>9. \A m \in joined : /\ m = [id |-> m.id, key |-> m.key, thread |-> m.thread]
                        /\ m.id \in RowIds /\ m.id[1] <= n
  <2>1. \A m \in ms : m.id[1] <= n
    BY DEF RowIds
  <2>2. \A r \in fresh : row(r) = [id |-> row(r).id, key |-> row(r).key, thread |-> row(r).thread]
    OBVIOUS
  <2> HIDE DEF row
  <2>3. \A r \in fresh : row(r).id \in RowIds /\ row(r).id[1] <= n
    <3>1. \A r \in fresh : <<n, r>>[1] <= n
      OBVIOUS
    <3> QED BY <1>7, <3>1
  <2> QED BY <1>1, <2>1, <2>2, <2>3
<1>10. \A m, k \in joined : m.id = k.id \/ m.key = k.key => m = k
  <2>1. ASSUME NEW m \in ms, NEW r \in fresh
        PROVE  m.id # row(r).id /\ m.key # row(r).key
    BY <1>5, <1>7 DEF RowIds
  <2>2. ASSUME NEW q \in fresh, NEW r \in fresh, row(q).id = row(r).id \/ row(q).key = row(r).key
        PROVE  q = r
    BY <2>2, <1>4, <1>7
  <2> HIDE DEF row
  <2> QED BY <1>1, <2>1, <2>2
<1>11. \A m \in joined \ ms : \E u \in ts : /\ u.id = m.thread /\ m.key[1][1] = u.sig
                                              /\ u.sig = Counterpart(m.id[2], owners)
  BY <1>1, <1>2, <1>3, <1>5
<1> QED BY <1>8, <1>9, <1>10, <1>11 DEF joined

-----------------------------------------------------------------------------
(* Repairing                                                                 *)

\* Ids are in an order.
LEMMA IdsAreOrdered ==
    \A x, y \in RowIds : /\ x # y => IdPrecedes(x, y) \/ IdPrecedes(y, x)
                         /\ ~(IdPrecedes(x, y) /\ IdPrecedes(y, x)) /\ ~IdPrecedes(x, x)
                         /\ \A z \in RowIds : IdPrecedes(x, y) /\ IdPrecedes(y, z) => IdPrecedes(x, z)
<1>1. \A x \in RowIds : x[1] \in Nat /\ x[2] \in Nat
  BY RecordsAreNumbers DEF RowIds
<1>2. \A x, y \in RowIds : x[1] = y[1] /\ x[2] = y[2] => x = y
  BY DEF RowIds
<1> HIDE DEF RowIds
<1>3. \A x, y \in RowIds : x # y => IdPrecedes(x, y) \/ IdPrecedes(y, x)
  BY <1>1, <1>2 DEF IdPrecedes
<1>4. \A x, y \in RowIds : ~(IdPrecedes(x, y) /\ IdPrecedes(y, x)) /\ ~IdPrecedes(x, x)
  BY <1>1 DEF IdPrecedes
<1>5. \A x, y, z \in RowIds : IdPrecedes(x, y) /\ IdPrecedes(y, z) => IdPrecedes(x, z)
  BY <1>1 DEF IdPrecedes
<1> QED BY <1>3, <1>4, <1>5

\* The owner is in no signature a thread is given by the repair, and was in that
\* of every thread it is given to.
LEMMA OwnerIsNoMember ==
    ASSUME ArchiveInv, owner = None, NEW o \in People, NEW t \in Affected(o)
    PROVE  <<"member", o>> \in t.sig /\ <<"member", o>> \notin Corrected(t, o)
BY DEF ArchiveInv, BeforeOwner, Affected, Corrected, KeyOfPeople

\* The repaired signatures are as distinct as the old ones.
LEMMA RepairedThreadsDiffer ==
    ASSUME ArchiveInv, owner = None, NEW o \in People
    PROVE  LET ts == RepairedThreads(o)
           IN /\ ts \in SUBSET Thread
              /\ \A t \in ts : t.id[1] <= Cardinality(imported)
              /\ \A t, u \in ts : t.id = u.id \/ t.sig = u.sig => t = u
<1> DEFINE sig(t) == IF t \in Affected(o) /\ Takes(t, o) THEN Corrected(t, o) ELSE t.sig
           rest(t) == [t EXCEPT !.members = @ \ {o}, !.owners = @ \cup {o},
                                !.sig = IF Takes(t, o) THEN Corrected(t, o) ELSE @]
           repaired(t) == IF t \notin Affected(o) THEN t ELSE rest(t)
<1>1. RepairedThreads(o) = {repaired(t) : t \in threads}
  BY DEF RepairedThreads
<1>2. ASSUME NEW t \in threads
      PROVE  repaired(t) \in Thread /\ repaired(t).id = t.id /\ repaired(t).sig = sig(t)
  <2>1. t \in Thread
    BY DEF ArchiveInv
  <2>2. Corrected(t, o) \in SUBSET Keys
    BY <2>1 DEF Corrected, KeyOfPeople, Keys, Thread
  <2>3. rest(t) \in Thread /\ rest(t).id = t.id
        /\ rest(t).sig = IF Takes(t, o) THEN Corrected(t, o) ELSE t.sig
    BY <2>1, <2>2 DEF Thread
  <2> QED BY <2>1, <2>3
<1>3. ASSUME NEW t \in threads, NEW u \in threads, sig(t) = sig(u)
      PROVE  t = u
  <2>1. CASE t \in Affected(o) /\ Takes(t, o) /\ u \in Affected(o) /\ Takes(u, o)
    <3>1. Corrected(t, o) = Corrected(u, o)
      BY <1>3, <2>1
    <3>2. t.id = u.id
      BY <2>1, <3>1, IdsAreOrdered DEF Takes, ArchiveInv, Thread
    <3> QED BY <3>2 DEF ArchiveInv, NumberedOK
  <2>2. ASSUME NEW x \in threads, NEW y \in threads, sig(x) = sig(y),
               x \in Affected(o) /\ Takes(x, o), ~(y \in Affected(o) /\ Takes(y, o))
        PROVE  FALSE
    <3>1. Corrected(x, o) = y.sig
      BY <2>2
    <3>2. CASE y \in Affected(o)
      BY <2>2, <3>1, <3>2, OwnerIsNoMember
    <3>3. CASE y \notin Affected(o)
      BY <2>2, <3>1, <3>3 DEF Takes
    <3> QED BY <3>2, <3>3
  <2>3. CASE ~(t \in Affected(o) /\ Takes(t, o)) /\ ~(u \in Affected(o) /\ Takes(u, o))
    BY <1>3, <2>3 DEF ArchiveInv, KeysAreUnique
  <2> QED BY <1>3, <2>1, <2>2, <2>3
<1> HIDE DEF sig, repaired
<1>4. \A t \in RepairedThreads(o) : t.id[1] <= Cardinality(imported)
  BY <1>1, <1>2 DEF ArchiveInv, NumberedOK
<1>5. \A t, u \in RepairedThreads(o) : t.id = u.id \/ t.sig = u.sig => t = u
  BY <1>1, <1>2, <1>3 DEF ArchiveInv, NumberedOK
<1> QED BY <1>1, <1>2, <1>4, <1>5

\* A row that is loose is in an affected thread, the one the repair looks up.
ThreadOf(m, o) == CHOOSE u \in Affected(o) : u.id = m.thread

LEMMA LooseIsIn ==
    ASSUME ArchiveInv, owner = None, NEW o \in People, NEW m \in Loose(o)
    PROVE  /\ m \in messages /\ ThreadOf(m, o) \in Affected(o)
           /\ m.key[1][1] = ThreadOf(m, o).sig
<1>1. m \in messages /\ ThreadOf(m, o) \in Affected(o) /\ ThreadOf(m, o).id = m.thread
  BY DEF Loose, ThreadOf
<1>2. \E t \in threads : t.id = m.thread /\ m.key[1][1] = t.sig
  BY <1>1 DEF ArchiveInv, BeforeOwner
<1> QED BY <1>1, <1>2 DEF ArchiveInv, NumberedOK, Affected

\* Loose rows of a group are numbered in order.
LEMMA RepairedKeysDiffer ==
    ASSUME ArchiveInv, owner = None, NEW o \in People, NEW m \in Loose(o), NEW n \in Loose(o),
           RepairedKey(m, o) = RepairedKey(n, o)
    PROVE  m = n
<1> DEFINE group(x) == <<Corrected(ThreadOf(x, o), o), Log[x.id[2]].dir, Bucket(Log[x.id[2]].at),
                         Log[x.id[2]].body>>
           before(x, y) == \/ Log[x.id[2]].at < Log[y.id[2]].at
                           \/ Log[x.id[2]].at = Log[y.id[2]].at /\ IdPrecedes(x.id, y.id)
           upTo(y) == {x \in Loose(o) : group(x) = group(y) /\ (before(x, y) \/ x = y)}
<1>1. ASSUME NEW x \in Loose(o)
      PROVE  RepairedKey(x, o) = <<group(x), Cardinality(upTo(x))>>
  BY DEF RepairedKey, ThreadOf
<1>2. ASSUME NEW x \in Loose(o)
      PROVE  x.id \in RowIds /\ Log[x.id[2]].at \in Nat
  BY RecordsAreNumbers DEF Loose, ArchiveInv, RowsOK, RowIds, Record
<1>3. \A x, y \in Loose(o) : x.id = y.id => x = y
  BY DEF Loose, ArchiveInv, NumberedOK
<1>4. \A x, y \in Loose(o) : x # y => before(x, y) \/ before(y, x)
  BY <1>2, <1>3, IdsAreOrdered
<1>5. \A x, y \in Loose(o) : ~(before(x, y) /\ before(y, x))
  BY <1>2, IdsAreOrdered
<1>6. \A x, y, z \in Loose(o) : before(x, y) /\ before(y, z) => before(x, z)
  <2> TAKE x, y, z \in Loose(o)
  <2>1. /\ x.id \in RowIds /\ y.id \in RowIds /\ z.id \in RowIds
        /\ Log[x.id[2]].at \in Nat /\ Log[y.id[2]].at \in Nat /\ Log[z.id[2]].at \in Nat
    BY <1>2
  <2>2. IdPrecedes(x.id, y.id) /\ IdPrecedes(y.id, z.id) => IdPrecedes(x.id, z.id)
    BY <2>1, IdsAreOrdered
  <2> QED BY <2>1, <2>2
<1>7. IsFiniteSet(Loose(o))
  BY FS_Subset DEF Loose, ArchiveInv, RowsOK
<1>8. group(m) = group(n) /\ Cardinality(upTo(m)) = Cardinality(upTo(n))
  <2> HIDE DEF group, upTo
  <2> QED BY <1>1
<1> HIDE DEF group, before
<1>9. ASSUME NEW x \in Loose(o), NEW y \in Loose(o), group(x) = group(y), before(x, y)
      PROVE  Cardinality(upTo(x)) # Cardinality(upTo(y))
  <2>1. upTo(x) \in SUBSET upTo(y) /\ y \in upTo(y) /\ y \notin upTo(x)
    BY <1>5, <1>6, <1>9
  <2>2. IsFiniteSet(upTo(y))
    BY <1>7, FS_Subset
  <2> HIDE DEF upTo
  <2> QED BY <2>1, <2>2, StrictlyFewer
<1> HIDE DEF upTo
<1> QED BY <1>4, <1>8, <1>9, SMTT(30)

\* The repaired rows keep their ids, and their keys are as distinct as before.
LEMMA RepairedMessagesDiffer ==
    ASSUME ArchiveInv, owner = None, NEW o \in People
    PROVE  LET ms == RepairedMessages(o)
           IN /\ IsFiniteSet(ms)
              /\ \A m \in ms : /\ m = [id |-> m.id, key |-> m.key, thread |-> m.thread]
                               /\ m.id \in RowIds /\ m.id[1] <= Cardinality(imported)
              /\ \A m, n \in ms : m.id = n.id \/ m.key = n.key => m = n
<1> DEFINE takes(m) == m \in Loose(o) /\ ~Keeps(m, o)
           key(m) == IF takes(m) THEN RepairedKey(m, o) ELSE m.key
           repaired(m) == IF m \notin Loose(o) \/ Keeps(m, o) THEN m
                          ELSE [m EXCEPT !.key = RepairedKey(m, o)]
           made == [m \in messages |-> repaired(m)]
<1>1. RepairedMessages(o) = {repaired(m) : m \in messages}
  BY DEF RepairedMessages
<1>2. ASSUME NEW m \in messages
      PROVE  repaired(m) = [id |-> m.id, key |-> key(m), thread |-> m.thread]
  <2>1. m = [id |-> m.id, key |-> m.key, thread |-> m.thread]
    BY DEF ArchiveInv, RowsOK
  <2>2. ASSUME NEW i, NEW k, NEW t, NEW j, m = [id |-> i, key |-> k, thread |-> t]
        PROVE  [m EXCEPT !.key = j] = [id |-> i, key |-> j, thread |-> t]
    BY <2>2
  <2> QED BY <2>1, <2>2
<1>3. ASSUME NEW m \in messages, NEW n \in messages, key(m) = key(n)
      PROVE  m = n
  <2>1. CASE takes(m) /\ takes(n)
    BY <1>3, <2>1, RepairedKeysDiffer
  <2>2. ASSUME NEW x \in messages, NEW y \in messages, key(x) = key(y), takes(x), ~takes(y)
        PROVE  FALSE
    <3>1. RepairedKey(x, o) = y.key
      BY <2>2
    <3>2. CASE y \in Loose(o)
      <4>1. y.key[1][1] = ThreadOf(y, o).sig /\ ThreadOf(y, o) \in Affected(o)
        BY <3>2, LooseIsIn
      <4>2. RepairedKey(x, o)[1][1] = Corrected(ThreadOf(x, o), o) /\ ThreadOf(x, o) \in Affected(o)
        BY <2>2, LooseIsIn, ZenonT(30) DEF RepairedKey, ThreadOf
      <4> QED BY <3>1, <4>1, <4>2, OwnerIsNoMember, ZenonT(30)
    <3>3. CASE y \notin Loose(o)
      BY <2>2, <3>1, <3>3 DEF Keeps
    <3> QED BY <3>2, <3>3
  <2>3. CASE ~takes(m) /\ ~takes(n)
    BY <1>3, <2>3 DEF ArchiveInv, KeysAreUnique
  <2> QED BY <1>3, <2>1, <2>2, <2>3
<1>4. IsFiniteSet(RepairedMessages(o))
  <2>1. RepairedMessages(o) = {made[m] : m \in messages} /\ DOMAIN made = messages
    BY <1>1
  <2>2. IsFiniteSet(messages)
    BY DEF ArchiveInv, RowsOK
  <2> HIDE DEF made
  <2> QED BY <2>1, <2>2, FiniteImage
<1> HIDE DEF key, repaired
<1>5. \A m, n \in RepairedMessages(o) : m.id = n.id \/ m.key = n.key => m = n
  BY <1>1, <1>2, <1>3 DEF ArchiveInv, NumberedOK
<1>6. \A m \in messages : m.id \in RowIds /\ m.id[1] <= Cardinality(imported)
  BY DEF ArchiveInv, NumberedOK, RowsOK
<1>7. \A m \in RepairedMessages(o) : /\ m = [id |-> m.id, key |-> m.key, thread |-> m.thread]
                                     /\ m.id \in RowIds /\ m.id[1] <= Cardinality(imported)
  BY <1>1, <1>2, <1>6
<1> QED BY <1>4, <1>5, <1>7

-----------------------------------------------------------------------------
(* One step                                                                  *)

LEMMA WriteKeeps ==
    ASSUME ArchiveInv, NEW i \in Importers, Write(i)
    PROVE  ArchiveInv'
<1> DEFINE F == file[i]
           fo == FileOwner(F)
           n == Cardinality(imported) + 1
           marks == owner = None /\ fo # None
           ts == IF marks THEN RepairedThreads(fo) ELSE threads
           ms == IF marks THEN RepairedMessages(fo) ELSE messages
           joined == JoinThreads(ts, F, Owners(i), fo, n)
<1>1. /\ threads' = joined
      /\ messages' = JoinMessages(joined, ms, F, Owners(i), n)
      /\ owner' = (IF marks THEN fo ELSE owner)
      /\ imported' = imported \cup {F} /\ F \notin imported
      /\ at' = [at EXCEPT ![i] = "cover"] /\ UNCHANGED <<file, known, todo, counted>>
  BY DEF Write
<1>2. /\ F \in SUBSET Records /\ fo \in People \cup {None} /\ Owners(i) \in SUBSET People
  BY FileOwnerIsPerson DEF ArchiveInv, ImportersOK, Owners
<1>3. /\ n \in Nat /\ Cardinality(imported) \in Nat /\ IsFiniteSet(imported')
      /\ Cardinality(imported') = n
  <2>1. IsFiniteSet(imported)
    BY DEF ArchiveInv, NumberedOK
  <2>2. Cardinality(imported) \in Nat
    BY <2>1, FS_CardinalityType
  <2> HIDE DEF F
  <2>3. IsFiniteSet(imported \cup {F}) /\ Cardinality(imported \cup {F}) = Cardinality(imported) + 1
    BY <1>1, <2>1, FS_AddElement
  <2> QED BY <1>1, <2>2, <2>3
<1>4. /\ ts \in SUBSET Thread
      /\ \A t \in ts : t.id[1] < n
      /\ \A t, u \in ts : t.id = u.id \/ t.sig = u.sig => t = u
  <2>1. CASE marks
    <3>1. ts \in SUBSET Thread /\ \A t \in ts : t.id[1] <= Cardinality(imported)
      BY <1>2, <2>1, RepairedThreadsDiffer
    <3>2. \A t, u \in ts : t.id = u.id \/ t.sig = u.sig => t = u
      BY <1>2, <2>1, RepairedThreadsDiffer
    <3> QED BY <1>3, <3>1, <3>2 DEF Thread, RowIds
  <2>2. CASE ~marks
    BY <1>3, <2>2 DEF ArchiveInv, NumberedOK, KeysAreUnique, Thread, RowIds
  <2> QED BY <2>1, <2>2
<1>5. /\ IsFiniteSet(ms)
      /\ \A m \in ms : /\ m = [id |-> m.id, key |-> m.key, thread |-> m.thread]
                       /\ m.id \in RowIds /\ m.id[1] < n
      /\ \A m, k \in ms : m.id = k.id \/ m.key = k.key => m = k
  <2>1. CASE marks
    <3>1. /\ IsFiniteSet(ms)
          /\ \A m \in ms : /\ m = [id |-> m.id, key |-> m.key, thread |-> m.thread]
                           /\ m.id \in RowIds /\ m.id[1] <= Cardinality(imported)
          /\ \A m, k \in ms : m.id = k.id \/ m.key = k.key => m = k
      BY <1>2, <2>1, RepairedMessagesDiffer
    <3>2. \A x \in RowIds : x[1] <= Cardinality(imported) => x[1] < n
      BY <1>3 DEF RowIds
    <3> HIDE DEF ms
    <3> QED BY <3>1, <3>2
  <2>2. CASE ~marks
    BY <1>3, <2>2 DEF ArchiveInv, NumberedOK, RowsOK, KeysAreUnique, RowIds
  <2> QED BY <2>1, <2>2
<1> DEFINE rows == JoinMessages(joined, ms, F, Owners(i), n)
<1> HIDE DEF ts, ms, F, fo, n, joined
<1>6. /\ joined \in SUBSET Thread
      /\ \A t \in joined : t.id[1] <= n
      /\ \A t, u \in joined : t.id = u.id \/ t.sig = u.sig => t = u
      /\ \A t \in ts : \E u \in joined : u.id = t.id /\ u.sig = t.sig
      /\ \A r \in F : \E u \in joined : u.sig = Counterpart(r, Owners(i))
  BY <1>2, <1>3, <1>4, JoinedThreads DEF joined
<1>7. /\ IsFiniteSet(rows)
      /\ \A m \in rows : /\ m = [id |-> m.id, key |-> m.key, thread |-> m.thread]
                         /\ m.id \in RowIds /\ m.id[1] <= n
      /\ \A m, k \in rows : m.id = k.id \/ m.key = k.key => m = k
      /\ \A m \in rows \ ms : \E u \in joined : u.id = m.thread /\ m.key[1][1] = u.sig
  BY <1>2, <1>3, <1>5, <1>6, JoinedMessages DEF rows
<1> HIDE DEF rows
<1>8. /\ threads' = joined /\ messages' = rows
  BY <1>1 DEF rows
<1>9. RowsOK' /\ NumberedOK' /\ KeysAreUnique' /\ threads' \subseteq Thread /\ owner' \in People \cup {None}
  <2>1. owner' \in People \cup {None}
    BY <1>1, <1>2 DEF ArchiveInv
  <2>2. RowsOK'
    BY <1>7, <1>8 DEF RowsOK
  <2>3. NumberedOK'
    BY <1>3, <1>6, <1>7, <1>8 DEF NumberedOK
  <2>4. KeysAreUnique'
    BY <1>6, <1>7, <1>8 DEF KeysAreUnique
  <2> QED BY <1>6, <1>8, <2>1, <2>2, <2>3, <2>4
<1>10. ImportersOK'
  BY <1>1 DEF ArchiveInv, ImportersOK
<1>11. BeforeOwner'
  <2> SUFFICES ASSUME owner' = None PROVE BeforeOwner!2'
    BY DEF BeforeOwner
  <2>1. owner = None /\ fo = None /\ ~marks
    BY <1>1
  <2>2. ts = threads /\ ms = messages
    BY <2>1 DEF ts, ms
  <2>3. Owners(i) = {}
    BY <2>1 DEF Owners, ArchiveInv, BeforeOwner, fo, F
  <2>4. ASSUME NEW t \in joined PROVE t.sig = {"member"} \X t.members
    <3> DEFINE fresh == {Counterpart(r, {}) : r \in F} \ {u.sig : u \in ts}
               slice(s) == Slice(F, s, {})
               empty(s) == [id |-> <<n, FirstIn(slice(s))>>, sig |-> s, members |-> {},
                            owners |-> {}, covered |-> Cardinality(slice(s))]
    <3>1. PICK u \in ts \cup {empty(s) : s \in fresh} :
             t = IF slice(u.sig) = {} THEN u ELSE JoinedThread(u, slice(u.sig), {}, None)
      BY <2>1, <2>3 DEF joined, JoinThreads
    <3>2. ASSUME slice(u.sig) # {}
          PROVE  u.sig = {"member"} \X UNION {Who(r) : r \in slice(u.sig)}
      <4>1. \A r \in slice(u.sig) : u.sig = {"member"} \X Who(r)
        BY <1>2, NobodyIsOwner DEF Slice
      <4>2. \A r, q \in slice(u.sig) : Who(r) = Who(q)
        <5> HIDE DEF slice
        <5> QED BY <4>1, SameMembers
      <4>3. \A r \in slice(u.sig) : UNION {Who(q) : q \in slice(u.sig)} = Who(r)
        BY <4>2
      <4> HIDE DEF slice
      <4> QED BY <3>2, <4>1, <4>3
    <3>3. CASE u \in ts
      <4>1. u \in Thread /\ u.sig = {"member"} \X u.members
        BY <2>1, <2>2, <3>3 DEF ArchiveInv, BeforeOwner
      <4>2. CASE slice(u.sig) = {}
        BY <3>1, <4>1, <4>2
      <4>3. CASE slice(u.sig) # {}
        <5>1. UNION {Who(r) : r \in slice(u.sig)} = u.members
          BY <3>2, <4>1, <4>3, SameMembers
        <5>2. t.sig = u.sig
          BY <3>1, <4>1, <4>3 DEF JoinedThread, Thread
        <5>3. t.members = u.members \cup ((UNION {Who(r) : r \in slice(u.sig)}) \ (u.members \cup u.owners))
          BY <3>1, <4>1, <4>3 DEF JoinedThread, Thread
        <5> QED BY <4>1, <5>1, <5>2, <5>3
      <4> QED BY <4>2, <4>3
    <3>4. ASSUME NEW s \in fresh, u = empty(s) PROVE t.sig = {"member"} \X t.members
      <4>1. u.sig = s /\ u.members = {} /\ u.owners = {} /\ slice(s) # {}
        BY <3>4 DEF Slice
      <4>2. t = JoinedThread(u, slice(s), {}, None)
        BY <3>1, <4>1
      <4>3. t.sig = s /\ t.members = UNION {Who(r) : r \in slice(s)}
        BY <3>4, <4>1, <4>2 DEF JoinedThread
      <4> QED BY <3>2, <4>1, <4>3
    <3> QED BY <3>3, <3>4
  <2>5. \A m \in rows : \E t \in joined : t.id = m.thread /\ m.key[1][1] = t.sig
    <3>1. ASSUME NEW m \in messages PROVE \E t \in joined : t.id = m.thread /\ m.key[1][1] = t.sig
      <4>1. PICK t \in ts : t.id = m.thread /\ m.key[1][1] = t.sig
        BY <2>1, <2>2 DEF ArchiveInv, BeforeOwner
      <4> QED BY <1>6, <4>1
    <3> QED BY <1>7, <2>2, <3>1
  <2>6. \A j \in Importers : known'[j] = {}
    BY <1>1, <2>1 DEF ArchiveInv, BeforeOwner
  <2> QED BY <1>8, <2>4, <2>5, <2>6
<1> QED BY <1>9, <1>10, <1>11 DEF ArchiveInv

\* Setting a coverage leaves of every thread what else it says.
LEMMA SetThreads ==
    ASSUME ArchiveInv, NEW i \in Importers, SetCoverage(i)
    PROVE  \E c \in counted[i] : \E set \in [threads -> Thread] :
              /\ threads' = {set[t] : t \in threads}
              /\ todo' = [todo EXCEPT ![i] = @ \ {c[1]}]
              /\ \A t \in threads :
                    /\ set[t].id = t.id /\ set[t].sig = t.sig
                    /\ set[t].members = t.members /\ set[t].owners = t.owners
                    /\ set[t].covered = IF t.id = c[1] THEN c[2] ELSE t.covered
<1>1. PICK c \in counted[i] :
         /\ threads' = {IF t.id = c[1] THEN [t EXCEPT !.covered = c[2]] ELSE t : t \in threads}
         /\ todo' = [todo EXCEPT ![i] = @ \ {c[1]}]
  BY DEF SetCoverage
<1> DEFINE new(t) == IF t.id = c[1] THEN [t EXCEPT !.covered = c[2]] ELSE t
           set == [t \in threads |-> new(t)]
<1>2. c[2] \in Nat
  BY DEF ArchiveInv, ImportersOK
<1>3. ASSUME NEW t \in threads
      PROVE  /\ new(t) \in Thread
             /\ new(t).id = t.id /\ new(t).sig = t.sig
             /\ new(t).members = t.members /\ new(t).owners = t.owners
             /\ new(t).covered = IF t.id = c[1] THEN c[2] ELSE t.covered
  <2>1. t \in Thread
    BY DEF ArchiveInv
  <2> QED BY <1>2, <2>1 DEF Thread
<1>4. threads' = {new(t) : t \in threads}
  BY <1>1
<1> HIDE DEF new
<1>5. set \in [threads -> Thread] /\ \A t \in threads : set[t] = new(t)
  BY <1>3
<1>6. threads' = {set[t] : t \in threads}
  BY <1>4, <1>5
<1>7. \A t \in threads :
         /\ set[t].id = t.id /\ set[t].sig = t.sig
         /\ set[t].members = t.members /\ set[t].owners = t.owners
         /\ set[t].covered = IF t.id = c[1] THEN c[2] ELSE t.covered
  BY <1>3, <1>5
<1> HIDE DEF set
<1> QED BY <1>1, <1>5, <1>6, <1>7

LEMMA SetCoverageKeeps ==
    ASSUME ArchiveInv, NEW i \in Importers, SetCoverage(i)
    PROVE  ArchiveInv'
<1>1. PICK c \in counted[i], set \in [threads -> Thread] :
         /\ threads' = {set[t] : t \in threads}
         /\ todo' = [todo EXCEPT ![i] = @ \ {c[1]}]
         /\ \A t \in threads : /\ set[t].id = t.id /\ set[t].sig = t.sig
                                /\ set[t].members = t.members
  BY SetThreads
<1>2. UNCHANGED <<imported, owner, messages, at, file, known>>
  BY DEF SetCoverage
<1>3. ImportersOK'
  BY <1>1, <1>2 DEF SetCoverage, ArchiveInv, ImportersOK
<1>4. threads' \subseteq Thread /\ RowsOK'
  BY <1>1, <1>2 DEF ArchiveInv, RowsOK
<1>5. NumberedOK'
  BY <1>1, <1>2 DEF ArchiveInv, NumberedOK
<1>6. KeysAreUnique'
  BY <1>1, <1>2 DEF ArchiveInv, KeysAreUnique
<1>7. BeforeOwner'
  BY <1>1, <1>2 DEF ArchiveInv, BeforeOwner
<1> QED BY <1>2, <1>3, <1>4, <1>5, <1>6, <1>7 DEF ArchiveInv

LEMMA ArchiveStep ==
    ASSUME ArchiveInv, [Next]_vars
    PROVE  ArchiveInv'
<1>1. ASSUME UNCHANGED <<imported, owner, threads, messages>>
      PROVE  /\ (RowsOK /\ NumberedOK /\ KeysAreUnique)'
             /\ threads' \subseteq Thread /\ owner' \in People \cup {None}
             /\ (\A i \in Importers : owner = None => known'[i] = {}) => BeforeOwner'
  BY <1>1 DEF ArchiveInv, RowsOK, NumberedOK, KeysAreUnique, BeforeOwner
<1>2. ASSUME NEW i \in Importers, NEW F \in Files, Read(i, F) PROVE ArchiveInv'
  BY <1>1, <1>2 DEF Read, storeVars, Files, ArchiveInv, ImportersOK, BeforeOwner
<1>3. ASSUME NEW i \in Importers, Resolve(i) PROVE ArchiveInv'
  <2>1. OwnerKeys \in SUBSET People /\ (owner = None => OwnerKeys = {})
    BY DEF ArchiveInv, OwnerKeys, Flagged
  <2>2. ImportersOK' /\ \A j \in Importers : owner = None => known'[j] = {}
    BY <1>3, <2>1 DEF Resolve, ArchiveInv, ImportersOK, BeforeOwner
  <2> QED BY <1>1, <1>3, <2>2 DEF Resolve, storeVars, ArchiveInv
<1>4. ASSUME NEW i \in Importers, WriteFails(i) \/ Covered(i) \/ Kill(i) PROVE ArchiveInv'
  <2>1. ImportersOK' /\ \A j \in Importers : owner = None => known'[j] = {}
    BY <1>4 DEF WriteFails, Covered, Kill, End, ArchiveInv, ImportersOK, BeforeOwner
  <2> QED BY <1>1, <1>4, <2>1 DEF WriteFails, Covered, Kill, storeVars, ArchiveInv
<1>5. ASSUME NEW p \in Answers, Onboard(p) PROVE ArchiveInv'
  BY <1>1, <1>5 DEF Onboard, ArchiveInv, ImportersOK, BeforeOwner
<1>6. CASE UNCHANGED vars
  BY <1>1, <1>6 DEF vars, storeVars, ArchiveInv, ImportersOK, BeforeOwner
<1>7. ASSUME NEW i \in Importers, ListThreads(i) PROVE ArchiveInv'
  <2>1. {t.id : t \in threads} \in SUBSET RowIds
    BY DEF ArchiveInv, Thread
  <2>2. ImportersOK' /\ \A j \in Importers : owner = None => known'[j] = {}
    BY <1>7, <2>1 DEF ListThreads, ArchiveInv, ImportersOK, BeforeOwner
  <2> QED BY <1>1, <1>7, <2>2 DEF ListThreads, storeVars, ArchiveInv
<1>8. ASSUME NEW i \in Importers, CountRows(i) PROVE ArchiveInv'
  <2>1. PICK id \in todo[i] : counted' = [counted EXCEPT ![i] = {<<id, RowCount(id, messages)>>}]
    BY <1>8 DEF CountRows
  <2>2. id \in RowIds
    BY DEF ArchiveInv, ImportersOK
  <2>3. RowCount(id, messages) \in Nat
    BY FS_Subset, FS_CardinalityType DEF RowCount, ArchiveInv, RowsOK
  <2>4. ImportersOK' /\ \A j \in Importers : owner = None => known'[j] = {}
    BY <1>8, <2>1, <2>2, <2>3 DEF CountRows, ArchiveInv, ImportersOK, BeforeOwner
  <2> QED BY <1>1, <1>8, <2>4 DEF CountRows, storeVars, ArchiveInv
<1> QED BY <1>2, <1>3, <1>4, <1>5, <1>6, <1>7, <1>8, WriteKeeps, SetCoverageKeeps DEF Next

\* Of a thread whose coverage is not that of its rows some import has yet to set
\* it, and what an import has counted is what there is, unless coverage was cut.
CoverageInv ==
    /\ ~cut =>
        \A t \in threads :
            \/ t.covered = RowCount(t.id, messages)
            \/ \E i \in Importers : at[i] = "cover" \/ (at[i] = "covering" /\ t.id \in todo[i])
    /\ ~cut => \A i \in Importers : \A c \in counted[i] : c[2] = RowCount(c[1], messages)
    /\ \A i \in Importers : counted[i] # {} => at[i] = "covering"

LEMMA CoverageStep ==
    ASSUME ArchiveInv, CoverageInv, [Next]_vars
    PROVE  CoverageInv'
<1>1. ASSUME NEW i \in Importers, NEW F \in Files, Read(i, F) PROVE CoverageInv'
  BY <1>1 DEF Read, storeVars, CoverageInv, ArchiveInv, ImportersOK
<1>2. ASSUME NEW i \in Importers, Resolve(i) PROVE CoverageInv'
  BY <1>2 DEF Resolve, storeVars, CoverageInv, ArchiveInv, ImportersOK
<1>3. ASSUME NEW i \in Importers, Write(i) PROVE CoverageInv'
  <2>1. at'[i] = "cover" /\ at[i] = "resolved" /\ \A j \in Importers : j # i => at'[j] = at[j]
    BY <1>3 DEF Write, ArchiveInv, ImportersOK
  <2>2. UNCHANGED <<todo, counted>>
    BY <1>3 DEF Write
  <2>3. ~cut' => ~cut /\ \A j \in Importers : \A c \in counted[j] :
                             RowCount(c[1], messages') = RowCount(c[1], messages)
    BY <1>3 DEF Write
  <2>4. ~cut' => \A j \in Importers : \A c \in counted'[j] : c[2] = RowCount(c[1], messages')
    BY <2>2, <2>3 DEF CoverageInv
  <2> QED BY <2>1, <2>2, <2>4 DEF CoverageInv
<1>4. ASSUME NEW i \in Importers, WriteFails(i) PROVE CoverageInv'
  BY <1>4 DEF WriteFails, End, storeVars, CoverageInv, ArchiveInv, ImportersOK
<1>5. ASSUME NEW i \in Importers, ListThreads(i) PROVE CoverageInv'
  <2>1. /\ at' = [at EXCEPT ![i] = "covering"] /\ at[i] = "cover"
        /\ todo' = [todo EXCEPT ![i] = {t.id : t \in threads}]
        /\ UNCHANGED <<threads, messages, counted, cut>>
    BY <1>5 DEF ListThreads, storeVars
  <2>2. \A t \in threads : t.id \in todo'[i] /\ at'[i] = "covering"
    BY <2>1 DEF ArchiveInv, ImportersOK
  <2>3. \A j \in Importers : counted'[j] # {} => at'[j] = "covering"
    BY <2>1 DEF ArchiveInv, ImportersOK, CoverageInv
  <2> QED BY <2>1, <2>2, <2>3 DEF CoverageInv
<1>6. ASSUME NEW i \in Importers, CountRows(i) PROVE CoverageInv'
  <2>1. PICK id \in todo[i] :
           /\ counted' = [counted EXCEPT ![i] = {<<id, RowCount(id, messages)>>}]
           /\ at[i] = "covering" /\ UNCHANGED <<threads, messages, at, todo, cut>>
    BY <1>6 DEF CountRows, storeVars
  <2>2. \A j \in Importers : \A c \in counted'[j] :
           c \in counted[j] \/ c = <<id, RowCount(id, messages)>>
    BY <2>1 DEF ArchiveInv, ImportersOK
  <2>3. \A j \in Importers : counted'[j] # {} => at'[j] = "covering"
    BY <2>1 DEF ArchiveInv, ImportersOK, CoverageInv
  <2> QED BY <2>1, <2>2, <2>3 DEF CoverageInv
<1>7. ASSUME NEW i \in Importers, SetCoverage(i) PROVE CoverageInv'
  <2>1. PICK c \in counted[i], set \in [threads -> Thread] :
           /\ threads' = {set[t] : t \in threads}
           /\ todo' = [todo EXCEPT ![i] = @ \ {c[1]}]
           /\ \A t \in threads : /\ set[t].id = t.id
                                  /\ set[t].covered = IF t.id = c[1] THEN c[2] ELSE t.covered
    BY <1>7, SetThreads
  <2>2. counted' = [counted EXCEPT ![i] = {}] /\ UNCHANGED <<messages, at, cut>>
    BY <1>7 DEF SetCoverage
  <2>3. \A j \in Importers : counted'[j] \subseteq counted[j]
    BY <2>2 DEF ArchiveInv, ImportersOK
  <2>4. ASSUME ~cut, NEW t \in threads
        PROVE  \/ set[t].covered = RowCount(set[t].id, messages)
               \/ \E j \in Importers : at[j] = "cover" \/ (at[j] = "covering" /\ set[t].id \in todo'[j])
    <3>1. CASE t.id = c[1]
      BY <2>1, <2>4, <3>1 DEF CoverageInv
    <3>2. CASE t.id # c[1]
      <4>1. set[t].id = t.id /\ set[t].covered = t.covered
        BY <2>1, <3>2
      <4>2. \A j \in Importers : t.id \in todo[j] => t.id \in todo'[j]
        BY <2>1, <3>2 DEF ArchiveInv, ImportersOK
      <4> QED BY <2>4, <4>1, <4>2 DEF CoverageInv
    <3> QED BY <3>1, <3>2
  <2> QED BY <2>1, <2>2, <2>3, <2>4 DEF CoverageInv
<1>8. ASSUME NEW i \in Importers, Covered(i) PROVE CoverageInv'
  BY <1>8 DEF Covered, End, storeVars, CoverageInv, ArchiveInv, ImportersOK
<1>9. ASSUME NEW i \in Importers, Kill(i) PROVE CoverageInv'
  BY <1>9 DEF Kill, End, storeVars, CoverageInv, ArchiveInv, ImportersOK
<1>10. ASSUME NEW p \in Answers, Onboard(p) PROVE CoverageInv'
  BY <1>10 DEF Onboard, CoverageInv
<1>11. CASE UNCHANGED vars
  BY <1>11 DEF vars, storeVars, CoverageInv
<1> QED BY <1>1, <1>2, <1>3, <1>4, <1>5, <1>6, <1>7, <1>8, <1>9, <1>10, <1>11 DEF Next

LEMMA ArchiveHolds == IntakeSpec => [](ArchiveInv /\ CoverageInv)
<1>1. IntakeInit => ArchiveInv /\ CoverageInv
  BY ArchiveInitInv DEF IntakeInit, Init, CoverageInv
<1>2. [IntakeNext]_intakeVars => [Next]_vars
  BY DEF IntakeNext, intakeVars
<1>3. (ArchiveInv /\ CoverageInv) /\ [IntakeNext]_intakeVars => (ArchiveInv /\ CoverageInv)'
  BY <1>2, ArchiveStep, CoverageStep
<1> QED BY <1>1, <1>3, PTL DEF IntakeSpec

\* However many imports run side by side, of whatever files, and whenever the
\* owner is found: neither an insert nor the repair's rewriting in place meets
\* a UNIQUE column (dedup.ts keyBatch, db.ts repairOwnerThreads).
THEOREM NoKeyTwice == IntakeSpec => []KeysAreUnique
<1>1. ArchiveInv => KeysAreUnique
  BY DEF ArchiveInv
<1> QED BY ArchiveHolds, <1>1, PTL

\* A thread's coverage is of the union of its sources whenever no import is at
\* work, however many ran side by side and committed while others were setting it,
\* if none was killed between its transaction and its end and none committed rows of
\* a thread between the SELECT and the UPDATE of that thread in another
\* (ingest/index.ts, after bulkInsertGraph).
THEOREM CoverageComesBack == IntakeSpec => []CoverageIsCurrent
<1>1. CoverageInv => CoverageIsCurrent
  BY DEF CoverageInv, CoverageIsCurrent, Idle
<1> QED BY ArchiveHolds, <1>1, PTL

-----------------------------------------------------------------------------
(* Conversations.  If no file names a stranger as the owner, and two files     *)
(* are never parsed or written side by side, a thread is with the people its   *)
(* records are with.                                                           *)

\* What o is out of: the threads are with their members, but those that kept the
\* key they had before the repair.
ThreadsTold(ts, o) ==
    \A t \in ts : /\ o \notin t.members
                  /\ \/ \E X \in SUBSET People : t.sig = KeyOfPeople(t.members, X)
                     \/ <<"member", o>> \in t.sig

Importing(i) == at[i] \in {"parsing", "resolved"}

OneFileAtATime ==
    \A i, j \in Importers : Importing(i) /\ Importing(j) => file[i] = file[j]

\* Who still has something to write knows what the archive knows.
KnownIsCurrent ==
    \A i \in Importers : at[i] = "resolved" /\ file[i] \notin imported => known[i] = {owner} \ {None}

TruthInv ==
    /\ owner \in {Me, None}
    /\ \A i \in Importers : Importing(i) => file[i] \in Files
    /\ OneFileAtATime /\ KnownIsCurrent
    /\ ThreadsTold(threads, owner)
    /\ \A m \in messages :
          \E t \in threads : t.id = m.thread /\ t.members = Who(m.id[2]) \ {owner}

LEMMA KeyTellsPeople ==
    ASSUME NEW A, NEW B, NEW X, NEW Y, KeyOfPeople(A, X) = KeyOfPeople(B, Y)
    PROVE  A = B
<1>1. CASE A # {} /\ B # {}
  BY <1>1, SameMembers DEF KeyOfPeople
<1>2. ASSUME NEW C, C # {}, NEW Z, {"member"} \X C = {"self"} \X Z
      PROVE  FALSE
  <2>1. PICK c \in C : TRUE
    BY <1>2
  <2>2. <<"member", c>> \in {"self"} \X Z
    BY <1>2, <2>1
  <2> QED BY <2>2
<1>3. CASE A = {} \/ B = {}
  BY <1>2, <1>3 DEF KeyOfPeople
<1> QED BY <1>1, <1>3

\* Records that are filed in one thread are with the same people.
LEMMA CounterpartTells ==
    ASSUME NEW r \in Records, NEW owners \in SUBSET People, NEW o, owners = {o} \ {None},
           NEW t \in Thread, t.sig = Counterpart(r, owners), ThreadsTold({t}, o)
    PROVE  t.members = Who(r) \ owners
<1>1. <<"member", o>> \notin Counterpart(r, owners)
  BY RecordsAreNumbers, NobodyAssumption DEF Counterpart, KeyOfPeople
<1>2. PICK X \in SUBSET People : t.sig = KeyOfPeople(t.members, X)
  BY <1>1 DEF ThreadsTold
<1> QED BY <1>2, KeyTellsPeople DEF Counterpart

\* Threads ts, told of by owner o, are about to be joined by file F.
Joining(ts, F, owners, fo, n, o) ==
    /\ ts \in SUBSET Thread /\ F \in SUBSET Records /\ owners \in SUBSET People
    /\ fo \in People \cup {None} /\ n \in Nat /\ owners = {o} \ {None}
    /\ ThreadsTold(ts, o)

LEMMA JoinedThreadsTold ==
    ASSUME NEW ts, NEW F, NEW owners, NEW fo, NEW n, NEW o, NEW made,
           Joining(ts, F, owners, fo, n, o), made = JoinThreads(ts, F, owners, fo, n)
    PROVE  /\ ThreadsTold(made, o)
           /\ \A t \in ts : \E u \in made : u.id = t.id /\ u.members = t.members
<1> DEFINE slice(s) == Slice(F, s, owners)
           fresh == {Counterpart(r, owners) : r \in F} \ {t.sig : t \in ts}
           empty(s) == [id |-> <<n, FirstIn(slice(s))>>, sig |-> s, members |-> {},
                        owners |-> {}, covered |-> Cardinality(slice(s))]
           all == ts \cup {empty(s) : s \in fresh}
           join(t) == IF slice(t.sig) = {} THEN t ELSE JoinedThread(t, slice(t.sig), owners, fo)
           present(s) == UNION {Who(r) : r \in slice(s)}
           joined == JoinThreads(ts, F, owners, fo, n)
<1> USE DEF Joining
<1>1. joined = {join(t) : t \in all}
  BY DEF JoinThreads
<1>2. ASSUME NEW s, NEW r \in slice(s)
      PROVE  r \in Records /\ s = Counterpart(r, owners) /\ s = KeyOfPeople(Who(r) \ owners, Who(r) \cap owners)
  BY DEF Slice, Counterpart
<1>3. ASSUME NEW s, NEW r \in slice(s)
      PROVE  present(s) \ owners = Who(r) \ owners
  <2>1. \A q \in slice(s) : Who(q) \ owners = Who(r) \ owners
    <3> HIDE DEF slice
    <3> TAKE q \in slice(s)
    <3>1. KeyOfPeople(Who(q) \ owners, Who(q) \cap owners) = KeyOfPeople(Who(r) \ owners, Who(r) \cap owners)
      BY <1>2, <1>3
    <3> QED BY <3>1, KeyTellsPeople
  <2> HIDE DEF slice
  <2> QED BY <1>3, <2>1
<1>4. ASSUME NEW t \in ts
      PROVE  /\ join(t).id = t.id /\ join(t).sig = t.sig /\ join(t).members = t.members
  <2>1. t \in Thread /\ ThreadsTold({t}, o)
    BY DEF ThreadsTold
  <2>2. ASSUME NEW r \in slice(t.sig)
        PROVE  join(t).id = t.id /\ join(t).sig = t.sig /\ join(t).members = t.members
    <3>1. t.members = Who(r) \ owners
      <4>1. r \in Records /\ t.sig = Counterpart(r, owners)
        BY <1>2, <2>2
      <4> QED BY <2>1, <4>1, CounterpartTells
    <3>2. present(t.sig) \ owners = t.members
      BY <1>3, <2>2, <3>1
    <3>3. join(t) = JoinedThread(t, slice(t.sig), owners, fo)
      BY <2>2
    <3>4. JoinedThread(t, slice(t.sig), owners, fo).members
             = t.members \cup ((present(t.sig) \ owners) \ (t.members \cup t.owners))
      BY <2>1 DEF JoinedThread, Thread
    <3>5. JoinedThread(t, slice(t.sig), owners, fo).id = t.id
          /\ JoinedThread(t, slice(t.sig), owners, fo).sig = t.sig
      BY <2>1 DEF JoinedThread, Thread
    <3> HIDE DEF slice, join, present
    <3> QED BY <3>2, <3>3, <3>4, <3>5
  <2> QED BY <2>2
<1>5. ASSUME NEW s \in fresh
      PROVE  ThreadsTold({join(empty(s))}, o)
  <2>1. PICK r \in F : s = Counterpart(r, owners) /\ r \in slice(s)
    BY DEF Slice
  <2>2. join(empty(s)) = JoinedThread(empty(s), slice(s), owners, fo)
    BY <2>1
  <2>3. JoinedThread(empty(s), slice(s), owners, fo).members = (present(s) \ owners)
        /\ JoinedThread(empty(s), slice(s), owners, fo).sig = s
    BY DEF JoinedThread
  <2>4. join(empty(s)).members = Who(r) \ owners /\ join(empty(s)).sig = s
    <3> HIDE DEF slice, join, present, empty
    <3> QED BY <1>3, <2>1, <2>2, <2>3
  <2>5. s = KeyOfPeople(Who(r) \ owners, Who(r) \cap owners) /\ Who(r) \in SUBSET People
    BY <2>1, RecordsAreNumbers DEF Counterpart
  <2>6. o \notin Who(r) \ owners
    BY <2>5, NobodyAssumption
  <2> HIDE DEF join, empty
  <2> QED BY <2>4, <2>5, <2>6 DEF ThreadsTold
<1> HIDE DEF join, fresh, empty, joined
<1>6. ThreadsTold(joined, o)
  BY <1>1, <1>4, <1>5 DEF ThreadsTold
<1>7. \A t \in ts : \E u \in joined : u.id = t.id /\ u.members = t.members
  BY <1>1, <1>4
<1> QED BY <1>6, <1>7 DEF joined

LEMMA EveryRecordHasThread ==
    ASSUME NEW ts, NEW F, NEW owners, NEW fo, NEW n, ts \in SUBSET Thread, NEW r \in F,
           F \in SUBSET Records, owners \in SUBSET People, fo \in People \cup {None}
    PROVE  \E t \in JoinThreads(ts, F, owners, fo, n) : t.sig = Counterpart(r, owners)
<1> DEFINE slice(s) == Slice(F, s, owners)
           empty(s) == [id |-> <<n, FirstIn(slice(s))>>, sig |-> s, members |-> {},
                        owners |-> {}, covered |-> Cardinality(slice(s))]
           fresh == {Counterpart(q, owners) : q \in F} \ {t.sig : t \in ts}
           join(t) == IF slice(t.sig) = {} THEN t ELSE JoinedThread(t, slice(t.sig), owners, fo)
<1>1. JoinThreads(ts, F, owners, fo, n) = {join(t) : t \in ts \cup {empty(s) : s \in fresh}}
  BY DEF JoinThreads
<1>2. ASSUME NEW t \in Thread PROVE join(t).sig = t.sig
  BY DEF JoinedThread, Thread
<1>3. ASSUME NEW s PROVE join(empty(s)).sig = s
  <2>1. JoinedThread(empty(s), slice(s), owners, fo).sig = s /\ empty(s).sig = s
    BY DEF JoinedThread
  <2> HIDE DEF empty, slice
  <2> QED BY <2>1
<1>4. \E t \in ts \cup {empty(s) : s \in fresh} : join(t).sig = Counterpart(r, owners)
  <2>1. CASE Counterpart(r, owners) \in fresh
    <3> HIDE DEF join, empty, fresh
    <3> QED BY <1>3, <2>1
  <2>2. CASE Counterpart(r, owners) \notin fresh
    <3>1. \E t \in ts : t.sig = Counterpart(r, owners)
      BY <2>2
    <3> HIDE DEF join
    <3> QED BY <1>2, <3>1
  <2> QED BY <2>1, <2>2
<1> HIDE DEF join, empty, fresh
<1> QED BY <1>1, <1>4

\* Row m is what a file's record r becomes.
Added(m, r, ts, F, owners, n) ==
    /\ m.id = <<n, r>>
    /\ m.thread = (CHOOSE t \in ts : t.sig = Counterpart(r, owners)).id
    /\ m.key = KeyIn(ItemOf(r, owners), {ItemOf(q, owners) : q \in F})

LEMMA AddedIsOf ==
    ASSUME NEW ts, NEW ms, NEW F, NEW owners, NEW n,
           NEW m \in JoinMessages(ts, ms, F, owners, n), m \notin ms
    PROVE  \E r \in F : Added(m, r, ts, F, owners, n)
<1> DEFINE batch == {ItemOf(r, owners) : r \in F}
           key(r) == KeyIn(ItemOf(r, owners), batch)
           fresh == {r \in F : /\ \A k \in ms : k.key # key(r)
                               /\ \A q \in F : q < r => key(q) # key(r)}
           thread(r) == (CHOOSE t \in ts : t.sig = Counterpart(r, owners)).id
           row(r) == [id |-> <<n, r>>, key |-> key(r), thread |-> thread(r)]
<1>1. m \in ms \cup {row(r) : r \in fresh}
  BY DEF JoinMessages
<1>2. \A r : row(r).id = <<n, r>> /\ row(r).thread = thread(r) /\ row(r).key = key(r)
  OBVIOUS
<1>3. fresh \subseteq F
  OBVIOUS
<1> HIDE DEF row, fresh
<1> QED BY <1>1, <1>2, <1>3 DEF Added

\* The owner leaves every thread's members, and nobody else does.
LEMMA RepairedThreadsTold ==
    ASSUME ArchiveInv, owner = None, ThreadsTold(threads, None), NEW o \in People
    PROVE  LET ts == RepairedThreads(o)
           IN /\ ThreadsTold(ts, o)
              /\ \A t \in threads : \E u \in ts : u.id = t.id /\ u.members = t.members \ {o}
<1> DEFINE rest(t) == [t EXCEPT !.members = @ \ {o}, !.owners = @ \cup {o},
                                !.sig = IF Takes(t, o) THEN Corrected(t, o) ELSE @]
           repaired(t) == IF t \notin Affected(o) THEN t ELSE rest(t)
<1>1. RepairedThreads(o) = {repaired(t) : t \in threads}
  BY DEF RepairedThreads
<1>2. ASSUME NEW t \in threads
      PROVE  /\ repaired(t).id = t.id /\ repaired(t).members = t.members \ {o}
             /\ ThreadsTold({repaired(t)}, o)
  <2>1. t \in Thread
    BY DEF ArchiveInv
  <2>2. CASE t \in Affected(o)
    <3>1. /\ rest(t).id = t.id /\ rest(t).members = t.members \ {o}
          /\ rest(t).sig = IF Takes(t, o) THEN Corrected(t, o) ELSE t.sig
      BY <2>1 DEF Thread
    <3>2. <<"member", o>> \in t.sig
      BY <2>2, OwnerIsNoMember
    <3>3. Corrected(t, o) = KeyOfPeople(t.members \ {o}, t.owners \cup {o}) /\ t.owners \cup {o} \in SUBSET People
      BY <2>1 DEF Corrected, Thread
    <3>4. repaired(t) = rest(t)
      BY <2>2
    <3> HIDE DEF rest, repaired
    <3> QED BY <3>1, <3>2, <3>3, <3>4 DEF ThreadsTold
  <2>3. CASE t \notin Affected(o)
    <3>1. repaired(t) = t /\ o \notin t.members
      BY <2>3 DEF Affected
    <3>2. <<"member", None>> \notin t.sig
      BY <2>1, NobodyAssumption DEF Thread, Keys
    <3>3. \E X \in SUBSET People : t.sig = KeyOfPeople(t.members, X)
      BY <3>2 DEF ThreadsTold
    <3> HIDE DEF repaired
    <3> QED BY <3>1, <3>3 DEF ThreadsTold
  <2> QED BY <2>2, <2>3
<1> HIDE DEF repaired
<1> QED BY <1>1, <1>2 DEF ThreadsTold

LEMMA WriteTells ==
    ASSUME NoStranger, ArchiveInv, ArchiveInv', TruthInv, NEW i \in Importers, Write(i)
    PROVE  TruthInv'
<1> DEFINE F == file[i]
           fo == FileOwner(F)
           n == Cardinality(imported) + 1
           marks == owner = None /\ fo # None
           ts == IF marks THEN RepairedThreads(fo) ELSE threads
           ms == IF marks THEN RepairedMessages(fo) ELSE messages
           joined == JoinThreads(ts, F, Owners(i), fo, n)
<1>1. /\ threads' = joined
      /\ messages' = JoinMessages(joined, ms, F, Owners(i), n)
      /\ owner' = (IF marks THEN fo ELSE owner)
      /\ imported' = imported \cup {F} /\ F \notin imported /\ at[i] = "resolved"
      /\ at' = [at EXCEPT ![i] = "cover"] /\ UNCHANGED <<file, known, todo, counted>>
  BY DEF Write
<1>2. /\ F \in Files /\ F \in SUBSET Records /\ fo \in {Me, None} /\ Me \in People
      /\ Owners(i) = {owner'} \ {None} /\ owner' \in {Me, None}
  <2>1. F \in Files /\ F \in SUBSET Records /\ fo \in {Me, None} /\ Me \in People
    BY <1>1, PeopleAssumption DEF TruthInv, Importing, NoStranger, Files
  <2>2. known[i] = {owner} \ {None}
    BY <1>1 DEF TruthInv, KnownIsCurrent
  <2> HIDE DEF F
  <2>3. Owners(i) = ({owner} \ {None}) \cup ({fo} \ {None})
    BY <2>2 DEF Owners, F
  <2> QED BY <1>1, <2>1, <2>3 DEF TruthInv
<1>3. n \in Nat /\ Cardinality(imported) \in Nat
  BY FS_CardinalityType DEF ArchiveInv, NumberedOK
<1>4. /\ ts \in SUBSET Thread /\ ThreadsTold(ts, owner')
      /\ \A t \in threads : \E u \in ts : u.id = t.id /\ u.members = t.members \ {owner'}
  <2>1. CASE marks
    <3>1. fo = Me /\ owner' = fo /\ owner = None
      BY <1>1, <1>2, <2>1
    <3>2. ThreadsTold(threads, None)
      BY <3>1 DEF TruthInv
    <3>3. ts = RepairedThreads(fo) /\ fo \in People
      BY <1>2, <2>1, <3>1
    <3> HIDE DEF ts, fo
    <3> QED BY <3>1, <3>2, <3>3, RepairedThreadsTold, RepairedThreadsDiffer
  <2>2. CASE ~marks
    <3>1. owner' = owner /\ ts = threads
      BY <1>1, <2>2
    <3>2. \A t \in threads : t.members = t.members \ {owner}
      BY DEF TruthInv, ThreadsTold
    <3> HIDE DEF ts
    <3> QED BY <3>1, <3>2 DEF TruthInv, ArchiveInv
  <2> QED BY <2>1, <2>2
<1>5. /\ IsFiniteSet(ms)
      /\ \A m \in ms : \E k \in messages : m.id = k.id /\ m.thread = k.thread
  <2>1. CASE marks
    <3>1. IsFiniteSet(ms)
      BY <1>2, <2>1, RepairedMessagesDiffer
    <3>2. \A m \in messages : m = [id |-> m.id, key |-> m.key, thread |-> m.thread]
      BY DEF ArchiveInv, RowsOK
    <3> DEFINE put(k, key) == [k EXCEPT !.key = key]
    <3>3. ASSUME NEW k \in messages, NEW key
          PROVE  put(k, key).id = k.id /\ put(k, key).thread = k.thread
      BY <3>2
    <3>4. \A m \in ms : \E k \in messages : m = k \/ \E key : m = put(k, key)
      <4>1. ms = RepairedMessages(fo)
        BY <2>1
      <4> HIDE DEF ms, fo
      <4> QED BY <4>1 DEF RepairedMessages
    <3> HIDE DEF ms, fo, put
    <3>5. \A m \in ms : \E k \in messages : m.id = k.id /\ m.thread = k.thread
      BY <3>3, <3>4
    <3> QED BY <3>1, <3>5
  <2>2. CASE ~marks
    BY <2>2 DEF ArchiveInv, RowsOK
  <2> QED BY <2>1, <2>2
<1> HIDE DEF ts, ms, F, fo, n, joined
<1>6. /\ joined \in SUBSET Thread /\ ThreadsTold(joined, owner')
      /\ \A t \in ts : \E u \in joined : u.id = t.id /\ u.members = t.members
  <2>1. Owners(i) \in SUBSET People /\ fo \in People \cup {None}
    BY <1>2
  <2>2. ThreadsTold(joined, owner') /\ \A t \in ts : \E u \in joined : u.id = t.id /\ u.members = t.members
    <3>1. PICK o, O, N, f : o = owner' /\ O = Owners(i) /\ N = n /\ f = fo
      OBVIOUS
    <3>2. /\ ts \in SUBSET Thread /\ F \in SUBSET Records /\ ThreadsTold(ts, o)
          /\ O \in SUBSET People /\ O = {o} \ {None}
      BY <1>2, <1>4, <2>1, <3>1
    <3>3. N \in Nat /\ f \in People \cup {None}
      BY <1>3, <2>1, <3>1
    <3>4. joined = JoinThreads(ts, F, O, f, N)
      BY <3>1 DEF joined
    <3>5. Joining(ts, F, O, f, N, o)
      BY <3>2, <3>3 DEF Joining
    <3>6. /\ ThreadsTold(joined, o)
          /\ \A t \in ts : \E u \in joined : u.id = t.id /\ u.members = t.members
      BY <3>4, <3>5, JoinedThreadsTold
    <3> QED BY <3>1, <3>6
  <2>3. joined \in SUBSET Thread
    BY <1>1 DEF ArchiveInv
  <2> QED BY <2>2, <2>3
<1>7. ASSUME NEW m \in messages'
      PROVE  \E t \in joined : t.id = m.thread /\ t.members = Who(m.id[2]) \ {owner'}
  <2>1. CASE m \in ms
    <3>1. PICK k \in messages : m.id = k.id /\ m.thread = k.thread
      BY <1>5, <2>1
    <3>2. PICK t \in threads : t.id = m.thread /\ t.members = Who(m.id[2]) \ {owner}
      BY <3>1 DEF TruthInv
    <3>3. PICK u \in ts : u.id = m.thread /\ u.members = t.members \ {owner'}
      BY <1>4, <3>2
    <3>4. owner = owner' \/ (owner = None /\ None \notin Who(m.id[2]))
      <4>1. m.id[2] \in Records
        BY <3>1 DEF ArchiveInv, RowsOK, RowIds
      <4> QED BY <1>1, <4>1, RecordsAreNumbers, NobodyAssumption
    <3>5. u.members = Who(m.id[2]) \ {owner'}
      BY <3>2, <3>3, <3>4
    <3> QED BY <1>6, <3>3, <3>5
  <2>2. CASE m \notin ms
    <3>1. m.id \in RowIds /\ PeopleAssumption
      BY PeopleAssumption DEF ArchiveInv, RowsOK
    <3>2. PICK r \in F :
             m.id = <<n, r>> /\ m.thread = (CHOOSE t \in joined : t.sig = Counterpart(r, Owners(i))).id
      <4>1. \E r \in F : Added(m, r, joined, F, Owners(i), n)
        BY <1>1, <2>2, AddedIsOf
      <4> QED BY <4>1 DEF Added
    <3>3. PICK t \in joined : t.sig = Counterpart(r, Owners(i)) /\ t.id = m.thread
      <4>1. \E t \in joined : t.sig = Counterpart(r, Owners(i))
        BY <1>1, <1>2, <1>3, <1>4, EveryRecordHasThread DEF joined
      <4> QED BY <3>2, <4>1
    <3>4. ThreadsTold({t}, owner') /\ r \in Records /\ t \in Thread
      BY <1>2, <1>6 DEF ThreadsTold
    <3>5. Owners(i) \in SUBSET People /\ Who(r) \in SUBSET People
      BY <1>2, <3>4, RecordsAreNumbers
    <3>6. t.members = Who(r) \ Owners(i)
      BY <1>2, <3>3, <3>4, <3>5, CounterpartTells
    <3>7. t.members = Who(r) \ {owner'}
      <4>1. None \notin Who(r)
        BY <3>5, NobodyAssumption
      <4>2. Owners(i) = {owner'} \ {None}
        BY <1>2
      <4>3. Who(r) \ Owners(i) = Who(r) \ {owner'}
        BY <4>1, <4>2
      <4> QED BY <3>6, <4>3
    <3>8. m.id[2] = r
      BY <3>2
    <3> QED BY <3>3, <3>7, <3>8
  <2> QED BY <2>1, <2>2
<1>8. OneFileAtATime' /\ \A j \in Importers : Importing(j)' => file'[j] \in Files
  BY <1>1 DEF TruthInv, OneFileAtATime, Importing, ArchiveInv, ImportersOK
<1>9. KnownIsCurrent'
  <2>1. \A j \in Importers : at'[j] = "resolved" => file'[j] = F
    BY <1>1 DEF TruthInv, OneFileAtATime, Importing, ArchiveInv, ImportersOK, F
  <2> QED BY <1>1, <2>1 DEF KnownIsCurrent
<1> QED BY <1>1, <1>2, <1>6, <1>7, <1>8, <1>9 DEF TruthInv

LEMMA TruthStep ==
    ASSUME NoStranger, Overlap # "any", ArchiveInv, ArchiveInv', TruthInv, [Next]_vars
    PROVE  TruthInv'
<1>1. ASSUME UNCHANGED storeVars
      PROVE  /\ owner' \in {Me, None} /\ ThreadsTold(threads', owner')
             /\ \A m \in messages' :
                   \E t \in threads' : t.id = m.thread /\ t.members = Who(m.id[2]) \ {owner'}
  BY <1>1 DEF storeVars, TruthInv, ThreadsTold
<1>2. ASSUME NEW i \in Importers, NEW F \in Files, Read(i, F) PROVE TruthInv'
  <2>1. \A j \in Importers : Importing(j) => file[j] = F
    BY <1>2, OverlapAssumption DEF Read, Importing
  <2>2. at' = [at EXCEPT ![i] = "parsing"] /\ file' = [file EXCEPT ![i] = F] /\ UNCHANGED known
    BY <1>2 DEF Read
  <2>3. OneFileAtATime' /\ \A j \in Importers : Importing(j)' => file'[j] \in Files
    BY <2>1, <2>2 DEF OneFileAtATime, Importing, TruthInv, ArchiveInv, ImportersOK
  <2>4. KnownIsCurrent'
    BY <1>2, <2>2 DEF Read, storeVars, KnownIsCurrent, TruthInv, ArchiveInv, ImportersOK
  <2> QED BY <1>1, <1>2, <2>3, <2>4 DEF Read, TruthInv
<1>3. ASSUME NEW i \in Importers, Resolve(i) PROVE TruthInv'
  <2>1. OwnerKeys = {owner} \ {None}
    BY DEF OwnerKeys, Flagged
  <2>2. OneFileAtATime' /\ \A j \in Importers : Importing(j)' => file'[j] \in Files
    BY <1>3 DEF Resolve, OneFileAtATime, Importing, TruthInv, ArchiveInv, ImportersOK
  <2>3. KnownIsCurrent'
    BY <1>3, <2>1 DEF Resolve, storeVars, KnownIsCurrent, TruthInv, ArchiveInv, ImportersOK
  <2> QED BY <1>1, <1>3, <2>2, <2>3 DEF Resolve, TruthInv
<1>4. ASSUME NEW i \in Importers, WriteFails(i) \/ Covered(i) \/ Kill(i) PROVE TruthInv'
  <2>1. End(i) /\ UNCHANGED storeVars
    BY <1>4 DEF WriteFails, Covered, Kill
  <2>2. OneFileAtATime' /\ \A j \in Importers : Importing(j)' => file'[j] \in Files
    BY <2>1 DEF End, OneFileAtATime, Importing, TruthInv, ArchiveInv, ImportersOK
  <2>3. KnownIsCurrent'
    BY <2>1 DEF End, storeVars, KnownIsCurrent, TruthInv, ArchiveInv, ImportersOK
  <2> QED BY <1>1, <2>1, <2>2, <2>3 DEF TruthInv
<1>5. ASSUME NEW i \in Importers, SetCoverage(i) PROVE TruthInv'
  <2>1. PICK c \in counted[i], set \in [threads -> Thread] :
           /\ threads' = {set[t] : t \in threads}
           /\ \A t \in threads : /\ set[t].id = t.id /\ set[t].sig = t.sig
                                  /\ set[t].members = t.members
    BY <1>5, SetThreads
  <2>2. UNCHANGED <<imported, owner, messages, at, file, known>>
    BY <1>5 DEF SetCoverage
  <2>3. ThreadsTold(threads', owner')
    BY <2>1, <2>2 DEF TruthInv, ThreadsTold
  <2>4. \A m \in messages' :
           \E t \in threads' : t.id = m.thread /\ t.members = Who(m.id[2]) \ {owner'}
    <3>1. ASSUME NEW m \in messages
          PROVE  \E t \in threads' : t.id = m.thread /\ t.members = Who(m.id[2]) \ {owner}
      <4>1. PICK t \in threads : t.id = m.thread /\ t.members = Who(m.id[2]) \ {owner}
        BY DEF TruthInv
      <4>2. set[t] \in threads' /\ set[t].id = t.id /\ set[t].members = t.members
        BY <2>1
      <4> QED BY <4>1, <4>2
    <3> QED BY <2>2, <3>1
  <2>5. OneFileAtATime' /\ \A j \in Importers : Importing(j)' => file'[j] \in Files
    BY <2>2 DEF OneFileAtATime, Importing, TruthInv, ArchiveInv, ImportersOK
  <2>6. KnownIsCurrent'
    BY <2>2 DEF KnownIsCurrent, TruthInv, ArchiveInv, ImportersOK
  <2> QED BY <2>2, <2>3, <2>4, <2>5, <2>6 DEF TruthInv
<1>6. ASSUME NEW p \in Answers, Onboard(p) PROVE TruthInv'
  BY <1>6 DEF Onboard, TruthInv, OneFileAtATime, Importing, KnownIsCurrent, ThreadsTold
<1>7. CASE UNCHANGED vars
  BY <1>7 DEF vars, storeVars, TruthInv, OneFileAtATime, Importing, KnownIsCurrent, ThreadsTold
<1>8. ASSUME NEW i \in Importers, ListThreads(i) \/ CountRows(i) PROVE TruthInv'
  <2>1. UNCHANGED storeVars
    BY <1>8 DEF ListThreads, CountRows
  <2>2. OneFileAtATime' /\ \A j \in Importers : Importing(j)' => file'[j] \in Files
    BY <1>8 DEF ListThreads, CountRows, OneFileAtATime, Importing, TruthInv, ArchiveInv, ImportersOK
  <2>3. KnownIsCurrent'
    BY <1>8, <2>1 DEF ListThreads, CountRows, storeVars, KnownIsCurrent, TruthInv, ArchiveInv, ImportersOK
  <2> QED BY <1>1, <2>1, <2>2, <2>3 DEF TruthInv
<1> QED BY <1>2, <1>3, <1>4, <1>5, <1>6, <1>7, <1>8, WriteTells DEF Next

\* If no file is taken to say that anybody but the owner is the owner, and two
\* files are never parsed or written side by side, two conversations never become one thread and
\* the owner is nobody's counterpart, also where the owner was found late
\* (threads.ts participantSetKey, db.ts repairOwnerThreads).
THEOREM ConversationsStayApart ==
    ASSUME NoStranger, Overlap # "any"
    PROVE  IntakeSpec => []OneConversationPerThread
<1>1. IntakeInit => TruthInv
  BY DEF IntakeInit, Init, TruthInv, OneFileAtATime, Importing, KnownIsCurrent, ThreadsTold
<1>2. ArchiveInv /\ ArchiveInv' /\ TruthInv /\ [IntakeNext]_intakeVars => TruthInv'
  BY TruthStep DEF IntakeNext, intakeVars
<1>3. ArchiveInv /\ TruthInv => OneConversationPerThread
  <2> SUFFICES ASSUME ArchiveInv, TruthInv PROVE OneConversationPerThread
    OBVIOUS
  <2>1. ASSUME NEW m \in messages, NEW n \in messages, m.thread = n.thread
        PROVE  Truth(m.id[2]) = Truth(n.id[2])
    <3>1. Who(m.id[2]) \ {owner} = Who(n.id[2]) \ {owner}
      BY <2>1 DEF TruthInv, ArchiveInv, NumberedOK
    <3>2. Who(m.id[2]) \in SUBSET People /\ Who(n.id[2]) \in SUBSET People
      BY RecordsAreNumbers DEF ArchiveInv, RowsOK, RowIds
    <3>3. CASE owner = Me
      BY <3>1, <3>3 DEF Truth
    <3>4. CASE owner = None
      <4>1. Who(m.id[2]) = Who(n.id[2])
        BY <3>1, <3>2, <3>4, NobodyAssumption
      <4> QED BY <4>1 DEF Truth
    <3> QED BY <3>3, <3>4 DEF TruthInv
  <2> QED BY <2>1 DEF OneConversationPerThread, TruthInv, ThreadsTold
<1> QED BY ArchiveHolds, <1>1, <1>2, <1>3, PTL DEF IntakeSpec

-----------------------------------------------------------------------------
(* Keys.  Within a group the number of a key grows with every change of       *)
(* identity, so messages a source tells apart have keys of their own.          *)

LEMMA PrecedesOrders ==
    /\ \A m \in Item : /\ m.at \in Nat /\ Identity(m)[1] \in Nat
                       /\ Identity(m)[2] \in Nat /\ Identity(m)[3] \in Nat
                       /\ Identity(m) = <<Identity(m)[1], Identity(m)[2], Identity(m)[3]>>
    /\ \A m \in Item : ~Precedes(m, m)
    /\ \A m, n, x \in Item : Precedes(m, n) /\ Precedes(n, x) => Precedes(m, x)
    /\ \A m, n \in Item : \/ Precedes(m, n) \/ Precedes(n, m)
                          \/ m.at = n.at /\ Identity(m) = Identity(n)
<1>1. ASSUME NEW m \in Item
      PROVE  /\ m.at \in Nat /\ Identity(m)[1] \in Nat
             /\ Identity(m)[2] \in Nat /\ Identity(m)[3] \in Nat
             /\ Identity(m) = <<Identity(m)[1], Identity(m)[2], Identity(m)[3]>>
  <2>1. m.at \in Nat /\ m.carries \in Nat /\ m.native \in Nat \cup {NoId}
    BY DEF Item
  <2>2. CASE m.native # NoId
    BY <2>1, <2>2 DEF Identity
  <2>3. CASE m.native = NoId
    BY <2>1, <2>3 DEF Identity
  <2> QED BY <2>1, <2>2, <2>3
<1>2. \A m \in Item : ~Precedes(m, m)
  BY <1>1 DEF Precedes, IdBefore
<1>3. \A m, n, x \in Item : Precedes(m, n) /\ Precedes(n, x) => Precedes(m, x)
  BY <1>1 DEF Precedes, IdBefore
<1>4. ASSUME NEW m \in Item, NEW n \in Item
      PROVE  Precedes(m, n) \/ Precedes(n, m) \/ (m.at = n.at /\ Identity(m) = Identity(n))
  <2>1. CASE Identity(m)[1] = Identity(n)[1] /\ Identity(m)[2] = Identity(n)[2] /\ Identity(m)[3] = Identity(n)[3]
    <3>1. Identity(m) = Identity(n)
      BY <1>1, <2>1
    <3> QED BY <1>1, <3>1 DEF Precedes
  <2>2. CASE ~(Identity(m)[1] = Identity(n)[1] /\ Identity(m)[2] = Identity(n)[2] /\ Identity(m)[3] = Identity(n)[3])
    BY <1>1, <2>2 DEF Precedes, IdBefore
  <2> QED BY <2>1, <2>2
<1> QED BY <1>1, <1>2, <1>3, <1>4

\* Of some rows there is one that no other precedes.
LEMMA SomeComesFirst ==
    ASSUME NEW G \in SUBSET Item, IsFiniteSet(G), G # {}
    PROVE  \E x \in G : \A y \in G : ~Precedes(y, x)
<1> DEFINE before(x) == {y \in G : Precedes(y, x)}
           counts == {Cardinality(before(x)) : x \in G}
<1>1. \A x \in G : before(x) \in SUBSET G /\ IsFiniteSet(before(x)) /\ Cardinality(before(x)) \in Nat
  BY FS_Subset, FS_CardinalityType
<1>2. counts \in SUBSET Nat /\ counts # {}
  <2> HIDE DEF before
  <2> QED BY <1>1
<1>3. PICK c \in counts : \A d \in counts : c <= d
  <2> HIDE DEF counts
  <2> QED BY <1>2, LeastNatural
<1>4. PICK x \in G : c = Cardinality(before(x))
  OBVIOUS
<1>5. ASSUME NEW y \in G, Precedes(y, x) PROVE FALSE
  <2>1. before(y) \in SUBSET before(x) /\ y \in before(x) /\ y \notin before(y)
    BY <1>5, PrecedesOrders
  <2>2. IsFiniteSet(before(x))
    BY <1>1
  <2>3. Cardinality(before(y)) < Cardinality(before(x)) /\ Cardinality(before(y)) \in Nat
        /\ Cardinality(before(x)) \in Nat
    <3> HIDE DEF before
    <3> QED BY <2>1, <2>2, StrictlyFewer
  <2>4. Cardinality(before(y)) \in counts
    OBVIOUS
  <2> HIDE DEF before, counts
  <2>5. Cardinality(before(x)) <= Cardinality(before(y))
    BY <1>3, <1>4, <2>4
  <2> QED BY <2>3, <2>5
<1> QED BY <1>5

\* What the scan has counted when it is past y.
Passed(y, G) == {<<x.at, Identity(x)>> : x \in {z \in G : ~Precedes(y, z) /\ StartsRun(z, G)}}

LEMMA OccurrenceIs ==
    ASSUME NEW G \in SUBSET Item, IsFiniteSet(G), NEW y \in G
    PROVE  Occurrence(y, G) = Cardinality(Passed(y, G)) /\ IsFiniteSet(Passed(y, G))
<1> DEFINE some == {z \in G : ~Precedes(y, z) /\ StartsRun(z, G)}
           marked == [z \in some |-> <<z.at, Identity(z)>>]
<1>1. Passed(y, G) = {marked[z] : z \in some} /\ DOMAIN marked = some
  BY DEF Passed
<1>2. IsFiniteSet(some)
  BY FS_Subset
<1>3. Occurrence(y, G) = Cardinality(Passed(y, G))
  BY DEF Occurrence, Passed
<1> HIDE DEF some, marked
<1>4. IsFiniteSet({marked[z] : z \in some})
  BY <1>1, <1>2, FiniteImage
<1> QED BY <1>1, <1>3, <1>4

\* Past a row of another identity the scan has counted more messages.
LEMMA OccurrenceGrows ==
    ASSUME NEW G \in SUBSET Item, IsFiniteSet(G), NEW m \in G, NEW n \in G,
           Precedes(m, n), Identity(m) # Identity(n)
    PROVE  Occurrence(m, G) < Occurrence(n, G) /\ Occurrence(m, G) \in Nat /\ Occurrence(n, G) \in Nat
<1> DEFINE others == {p \in G : Precedes(m, p) /\ ~Precedes(n, p) /\ Identity(p) # Identity(m)}
           mark == [x \in G |-> <<x.at, Identity(x)>>]
           passed(y) == {mark[x] : x \in {z \in G : ~Precedes(y, z) /\ StartsRun(z, G)}}
<1>1. n \in others /\ others \in SUBSET Item /\ IsFiniteSet(others) /\ others \in SUBSET G
  BY FS_Subset, PrecedesOrders
<1>2. PICK x \in others : \A y \in others : ~Precedes(y, x)
  <2> HIDE DEF others
  <2> QED BY <1>1, SomeComesFirst
<1>3. /\ x \in G /\ x \in Item /\ m \in Item /\ n \in Item
      /\ Precedes(m, x) /\ ~Precedes(n, x) /\ Identity(x) # Identity(m)
  OBVIOUS
<1>4. StartsRun(x, G)
  <2> SUFFICES ASSUME NEW p \in G, Precedes(p, x), Identity(p) = Identity(x),
                      ~ \E q \in G : Precedes(p, q) /\ Precedes(q, x)
               PROVE  FALSE
    BY DEF StartsRun
  <2>1. ~Precedes(p, m)
    BY <1>3
  <2>2. Precedes(m, p)
    BY <1>3, <2>1, PrecedesOrders
  <2>3. ~Precedes(n, p)
    BY <1>3, PrecedesOrders
  <2>4. p \in others
    BY <1>3, <2>2, <2>3
  <2> QED BY <1>2, <2>4
<1>5. \A y \in G : Occurrence(y, G) = Cardinality(passed(y)) /\ IsFiniteSet(passed(y))
  <2> TAKE y \in G
  <2>1. passed(y) = Passed(y, G)
    BY DEF Passed
  <2> HIDE DEF passed
  <2> QED BY <2>1, OccurrenceIs
<1>6. passed(m) \in SUBSET passed(n)
  BY <1>3, PrecedesOrders
<1>7. mark[x] \in passed(n)
  BY <1>3, <1>4
<1>8. mark[x] \notin passed(m)
  <2> SUFFICES ASSUME NEW z \in G, ~Precedes(m, z), mark[x] = mark[z] PROVE FALSE
    OBVIOUS
  <2>1. z.at = x.at /\ Identity(z) = Identity(x)
    BY <1>3
  <2> QED BY <1>3, <2>1 DEF Precedes
<1> HIDE DEF passed, mark
<1>9. /\ Cardinality(passed(m)) \in Nat /\ Cardinality(passed(n)) \in Nat
      /\ Cardinality(passed(m)) < Cardinality(passed(n))
  BY <1>5, <1>6, <1>7, <1>8, StrictlyFewer
<1> QED BY <1>5, <1>9

\* Numbers begin with 1 and do not exceed what tells the rows of a group apart.
LEMMA OccurrenceBounds ==
    ASSUME NEW G \in SUBSET Item, IsFiniteSet(G), NEW m \in G, NEW T, IsFiniteSet(T),
           NEW f, \A x \in G : f[x] \in T,
           \A x, y \in G : f[x] = f[y] => x.at = y.at /\ Identity(x) = Identity(y)
    PROVE  Occurrence(m, G) \in Nat \ {0} /\ Occurrence(m, G) <= Cardinality(T)
<1> DEFINE P == Passed(m, G)
           mark(x) == <<x.at, Identity(x)>>
           g == [p \in P |-> f[CHOOSE z \in G : mark(z) = p]]
<1>1. Occurrence(m, G) = Cardinality(P) /\ IsFiniteSet(P)
  BY OccurrenceIs
<1>2. P # {}
  <2>1. PICK x \in G : \A y \in G : ~Precedes(y, x)
    BY SomeComesFirst
  <2>2. StartsRun(x, G) /\ ~Precedes(m, x)
    BY <2>1 DEF StartsRun
  <2>3. mark(x) \in P
    BY <2>2 DEF Passed
  <2> QED BY <2>3
<1>3. \A p \in P : \E z \in G : mark(z) = p
  BY DEF Passed
<1> HIDE DEF P
<1>4. ASSUME NEW p \in P PROVE \E z \in G : mark(z) = p /\ g[p] = f[z]
  <2>1. (CHOOSE z \in G : mark(z) = p) \in G /\ mark(CHOOSE z \in G : mark(z) = p) = p
    <3> HIDE DEF mark
    <3> QED BY <1>3
  <2> QED BY <2>1
<1>5. DOMAIN g = P
  OBVIOUS
<1> HIDE DEF g
<1>6. \A p \in P : g[p] \in T
  BY <1>4
<1>7. \A p, q \in P : g[p] = g[q] => p = q
  BY <1>4
<1>8. Cardinality(P) <= Cardinality(T)
  BY <1>5, <1>6, <1>7, OneEach
<1>9. Cardinality(P) \in Nat \ {0}
  BY <1>1, <1>2, FS_CardinalityType, FS_EmptySet
<1> QED BY <1>1, <1>8, <1>9

\* Two rows of a batch with one key are one message to their source.
LEMMA KeysTellMessages ==
    ASSUME NEW B \in SUBSET Item, IsFiniteSet(B), NEW m \in B, NEW n \in B,
           KeyIn(m, B) = KeyIn(n, B)
    PROVE  Identity(m) = Identity(n)
<1> DEFINE G == {x \in B : GroupOf(x) = GroupOf(m)}
<1>1. GroupOf(m) = GroupOf(n) /\ Occurrence(m, G) = Occurrence(n, G)
  BY DEF KeyIn
<1>2. G \in SUBSET Item /\ IsFiniteSet(G) /\ m \in G /\ n \in G
  BY <1>1, FS_Subset
<1> HIDE DEF G
<1>3. ASSUME Identity(m) # Identity(n) PROVE FALSE
  <2>1. Precedes(m, n) \/ Precedes(n, m)
    BY <1>3, PrecedesOrders
  <2>2. Occurrence(m, G) < Occurrence(n, G) \/ Occurrence(n, G) < Occurrence(m, G)
    BY <1>2, <1>3, <2>1, OccurrenceGrows
  <2>3. Occurrence(m, G) \in Nat
    BY <1>2, <1>3, <2>1, OccurrenceGrows
  <2> QED BY <1>1, <2>2, <2>3
<1> QED BY <1>3

-----------------------------------------------------------------------------
(* Nothing is lost.  Every record of a file finds its key taken by a row, and  *)
(* a key says which conversation, direction, minute and body its row is of.    *)

LEMMA RecordIsItem ==
    ASSUME NEW r \in Records, NEW owners \in SUBSET People
    PROVE  /\ ItemOf(r, owners) \in Item
           /\ GroupOf(ItemOf(r, owners)) = <<Counterpart(r, owners), Log[r].dir, Bucket(Log[r].at), Log[r].body>>
<1>1. Counterpart(r, owners) \in SUBSET ({"member", "self"} \X Nat)
  <2>1. Keys \subseteq {"member", "self"} \X Nat
    BY PeopleAssumption DEF Keys
  <2> QED BY <2>1, CounterpartIsKeys
<1>2. Log[r] \in Record
  BY RecordsAreNumbers
<1> QED BY <1>1, <1>2 DEF ItemOf, Item, Record, GroupOf

\* What Count counts a record under.
Told(q) == IF Log[q].native = NoId THEN <<Log[q].at, Log[q].carries>> ELSE <<Log[q].native>>

LEMMA IdentityIsTold ==
    ASSUME NEW r \in Records, NEW q \in Records, NEW owners \in SUBSET People,
           Identity(ItemOf(r, owners)) = Identity(ItemOf(q, owners))
    PROVE  Told(r) = Told(q)
<1>1. \A x \in Records : Log[x].native \in Nat \cup {NoId} /\ Log[x].at \in Nat /\ Log[x].carries \in Nat
  BY RecordsAreNumbers DEF Record
<1>2. \A x \in Records : Identity(ItemOf(x, owners)) =
          IF Log[x].native # NoId THEN <<0, Log[x].native, 0>> ELSE <<1, Log[x].at, Log[x].carries>>
  BY DEF Identity, ItemOf
<1> QED BY <1>1, <1>2 DEF Told

LEMMA CountIsNatural ==
    ASSUME NEW R \in SUBSET Records
    PROVE  Count(R) \in Nat
<1> DEFINE tally == [q \in R |-> Told(q)]
<1>1. Count(R) = Cardinality({tally[q] : q \in R})
  BY DEF Count, Told
<1>2. IsFiniteSet(R) /\ DOMAIN tally = R
  BY RecordsAreNumbers, FS_Subset
<1> HIDE DEF tally
<1>3. IsFiniteSet({tally[q] : q \in R})
  BY <1>2, FiniteImage
<1> QED BY <1>1, <1>3, FS_CardinalityType

\* The key of each record of the file is that of a row afterwards.
LEMMA EveryKeyHasRow ==
    ASSUME NEW ts, NEW ms, NEW F \in SUBSET Records, NEW owners, NEW n, NEW r \in F
    PROVE  LET batch == {ItemOf(q, owners) : q \in F}
           IN \E m \in JoinMessages(ts, ms, F, owners, n) : m.key = KeyIn(ItemOf(r, owners), batch)
<1> DEFINE batch == {ItemOf(q, owners) : q \in F}
           key(q) == KeyIn(ItemOf(q, owners), batch)
           fresh == {q \in F : /\ \A m \in ms : m.key # key(q)
                               /\ \A p \in F : p < q => key(p) # key(q)}
           thread(q) == (CHOOSE t \in ts : t.sig = Counterpart(q, owners)).id
           row(q) == [id |-> <<n, q>>, key |-> key(q), thread |-> thread(q)]
           same == {q \in F : key(q) = key(r)}
<1>1. JoinMessages(ts, ms, F, owners, n) = ms \cup {row(q) : q \in fresh}
  BY DEF JoinMessages
<1>2. PICK q \in same : \A p \in same : q <= p
  <2>1. same \in SUBSET Nat /\ same # {}
    BY RecordsAreNumbers
  <2> HIDE DEF same
  <2> QED BY <2>1, LeastNatural
<1>3. q \in F /\ key(q) = key(r) /\ \A p \in F : p < q => key(p) # key(q)
  <2> HIDE DEF key
  <2> QED BY <1>2, RecordsAreNumbers
<1>4. \A x : row(x).key = key(x)
  OBVIOUS
<1> DEFINE joined == JoinMessages(ts, ms, F, owners, n)
<1> HIDE DEF joined
<1>5. ASSUME \E m \in ms : m.key = key(q)
      PROVE  \E m \in joined : m.key = key(r)
  <2> HIDE DEF key, row, fresh
  <2> QED BY <1>1, <1>3, <1>5 DEF joined
<1>6. ASSUME ~ \E m \in ms : m.key = key(q)
      PROVE  \E m \in joined : m.key = key(r)
  <2>1. q \in fresh
    <3> HIDE DEF key
    <3> QED BY <1>3, <1>6
  <2>2. row(q) \in joined /\ row(q).key = key(q)
    <3> HIDE DEF row, fresh
    <3> QED BY <1>1, <1>4, <2>1 DEF joined
  <2> HIDE DEF key, row, fresh
  <2> QED BY <1>3, <2>2
<1>7. \E m \in joined : m.key = key(r)
  BY <1>5, <1>6
<1> QED BY <1>7 DEF joined

\* Key k says what a row with record r says.
KeyFits(k, r) ==
    /\ k[1] = <<k[1][1], Log[r].dir, Bucket(Log[r].at), Log[r].body>>
    /\ \E M, X \in SUBSET People : k[1][1] = KeyOfPeople(M, X) /\ M \ {Me} = Truth(r)

KeysTold ==
    /\ imported \subseteq SUBSET Records
    /\ \A m \in messages : KeyFits(m.key, m.id[2])

LEMMA KeyTellsLikeness ==
    ASSUME NEW k, NEW r \in Records, NEW q \in Records, KeyFits(k, r), KeyFits(k, q)
    PROVE  Likeness(r) = Likeness(q)
<1>1. Truth(r) = Truth(q)
  <2>1. PICK M, X \in SUBSET People : k[1][1] = KeyOfPeople(M, X) /\ M \ {Me} = Truth(r)
    BY DEF KeyFits
  <2>2. PICK N, Y \in SUBSET People : k[1][1] = KeyOfPeople(N, Y) /\ N \ {Me} = Truth(q)
    BY DEF KeyFits
  <2>3. M = N
    BY <2>1, <2>2, KeyTellsPeople
  <2> QED BY <2>1, <2>2, <2>3
<1>2. <<k[1][1], Log[r].dir, Bucket(Log[r].at), Log[r].body>>
        = <<k[1][1], Log[q].dir, Bucket(Log[q].at), Log[q].body>>
  BY DEF KeyFits
<1> QED BY <1>1, <1>2 DEF Likeness

LEMMA RecordKeyFits ==
    ASSUME NEW r \in Records, NEW owners \in SUBSET {Me}, NEW batch
    PROVE  KeyFits(KeyIn(ItemOf(r, owners), batch), r)
<1>1. owners \in SUBSET People /\ Who(r) \in SUBSET People
  BY PeopleAssumption, RecordsAreNumbers
<1>2. KeyIn(ItemOf(r, owners), batch)[1]
        = <<Counterpart(r, owners), Log[r].dir, Bucket(Log[r].at), Log[r].body>>
  BY <1>1, RecordIsItem DEF KeyIn
<1>3. (Who(r) \ owners) \ {Me} = Truth(r)
  BY DEF Truth
<1>4. \E M, X \in SUBSET People : Counterpart(r, owners) = KeyOfPeople(M, X) /\ M \ {Me} = Truth(r)
  BY <1>1, <1>3 DEF Counterpart
<1> QED BY <1>2, <1>4 DEF KeyFits

LEMMA RepairedKeysTold ==
    ASSUME ArchiveInv, TruthInv, KeysTold, owner = None
    PROVE  /\ \A m \in RepairedMessages(Me) : KeyFits(m.key, m.id[2])
           /\ \A m \in messages : \E k \in RepairedMessages(Me) : k.id = m.id
<1> DEFINE o == Me
           repaired(m) == IF m \notin Loose(o) \/ Keeps(m, o) THEN m
                          ELSE [m EXCEPT !.key = RepairedKey(m, o)]
<1>1. RepairedMessages(o) = {repaired(m) : m \in messages}
  BY DEF RepairedMessages
<1>2. ASSUME NEW m \in Loose(o)
      PROVE  KeyFits(RepairedKey(m, o), m.id[2])
  <2>1. m \in messages /\ ThreadOf(m, o) \in threads /\ ThreadOf(m, o).id = m.thread
    BY DEF Loose, ThreadOf, Affected
  <2>2. PICK t \in threads : t.id = m.thread /\ t.members = Who(m.id[2]) \ {None}
    BY <2>1 DEF TruthInv
  <2>3. t = ThreadOf(m, o) /\ t \in Thread
    BY <2>1, <2>2 DEF ArchiveInv, NumberedOK
  <2>4. m.id[2] \in Records
    BY <2>1 DEF ArchiveInv, RowsOK, RowIds
  <2>5. Who(m.id[2]) \in SUBSET People /\ None \notin Who(m.id[2])
    BY <2>4, RecordsAreNumbers, NobodyAssumption
  <2>6. RepairedKey(m, o)[1] = <<Corrected(t, o), Log[m.id[2]].dir, Bucket(Log[m.id[2]].at), Log[m.id[2]].body>>
    BY <2>3, ZenonT(30) DEF RepairedKey, ThreadOf
  <2>7. /\ Corrected(t, o) = KeyOfPeople(t.members \ {Me}, t.owners \cup {Me})
        /\ t.members \ {Me} \in SUBSET People /\ t.owners \cup {Me} \in SUBSET People
        /\ (t.members \ {Me}) \ {Me} = Truth(m.id[2])
    BY <2>2, <2>3, <2>5, PeopleAssumption DEF Corrected, Thread, Truth
  <2>8. \E M, X \in SUBSET People : Corrected(t, o) = KeyOfPeople(M, X) /\ M \ {Me} = Truth(m.id[2])
    BY <2>7
  <2> QED BY <2>6, <2>8 DEF KeyFits
<1>3. ASSUME NEW m \in messages
      PROVE  repaired(m).id = m.id /\ KeyFits(repaired(m).key, m.id[2])
  <2>1. m = [id |-> m.id, key |-> m.key, thread |-> m.thread]
    BY DEF ArchiveInv, RowsOK
  <2>2. ASSUME NEW i, NEW k, NEW t, NEW j, m = [id |-> i, key |-> k, thread |-> t]
        PROVE  [m EXCEPT !.key = j].id = i /\ [m EXCEPT !.key = j].key = j
    BY <2>2
  <2>3. CASE m \notin Loose(o) \/ Keeps(m, o)
    BY <2>3 DEF KeysTold
  <2>4. CASE ~(m \notin Loose(o) \/ Keeps(m, o))
    <3>1. repaired(m) = [m EXCEPT !.key = RepairedKey(m, o)]
      BY <2>4
    <3>2. repaired(m).id = m.id /\ repaired(m).key = RepairedKey(m, o)
      BY <2>1, <2>2, <3>1
    <3> QED BY <1>2, <2>4, <3>2
  <2> QED BY <2>3, <2>4
<1> HIDE DEF repaired
<1> QED BY <1>1, <1>3

\* Whoever writes takes nobody but the owner for the owner.
LEMMA WriterKnows ==
    ASSUME NoStranger, TruthInv, NEW i \in Importers, Write(i)
    PROVE  /\ file[i] \in SUBSET Records /\ FileOwner(file[i]) \in {Me, None}
           /\ Owners(i) \in SUBSET {Me}
           /\ owner' \in {Me, None} /\ Owners(i) = {owner'} \ {None}
<1>1. file[i] \in Files /\ FileOwner(file[i]) \in {Me, None} /\ owner \in {Me, None}
  BY DEF Write, TruthInv, Importing, NoStranger
<1>2. known[i] = {owner} \ {None}
  BY DEF Write, TruthInv, KnownIsCurrent
<1>3. owner' = IF owner = None /\ FileOwner(file[i]) # None THEN FileOwner(file[i]) ELSE owner
  BY DEF Write
<1>4. Owners(i) = {owner'} \ {None}
  BY <1>1, <1>2, <1>3 DEF Owners
<1> QED BY <1>1, <1>3, <1>4 DEF Files

LEMMA WriteLosesNothing ==
    ASSUME NoStranger, ArchiveInv, ArchiveInv', TruthInv, KeysTold, NothingLost,
           NEW i \in Importers, Write(i)
    PROVE  KeysTold' /\ NothingLost'
<1> DEFINE F == file[i]
           fo == FileOwner(F)
           n == Cardinality(imported) + 1
           marks == owner = None /\ fo # None
           ts == IF marks THEN RepairedThreads(fo) ELSE threads
           ms == IF marks THEN RepairedMessages(fo) ELSE messages
           joined == JoinThreads(ts, F, Owners(i), fo, n)
           batch == {ItemOf(q, Owners(i)) : q \in F}
           key(r) == KeyIn(ItemOf(r, Owners(i)), batch)
<1>1. messages' = JoinMessages(joined, ms, F, Owners(i), n) /\ imported' = imported \cup {F}
  BY DEF Write
<1>2. F \in SUBSET Records /\ fo \in {Me, None} /\ Owners(i) \in SUBSET {Me}
      /\ Owners(i) \in SUBSET People
  BY WriterKnows, PeopleAssumption
<1>3. /\ \A m \in ms : KeyFits(m.key, m.id[2])
      /\ \A m \in messages : \E k \in ms : k.id = m.id
  <2>1. CASE marks
    <3>1. fo = Me /\ ms = RepairedMessages(Me) /\ owner = None
      BY <1>2, <2>1
    <3> HIDE DEF ms
    <3> QED BY <3>1, RepairedKeysTold
  <2>2. CASE ~marks
    BY <2>2 DEF KeysTold
  <2> QED BY <2>1, <2>2
<1> HIDE DEF ts, ms, fo, n, joined
<1>4. ms \subseteq messages'
  BY <1>1 DEF JoinMessages
<1>5. ASSUME NEW m \in messages', m \notin ms
      PROVE  \E r \in F : m.id[2] = r /\ m.key = key(r)
  <2>1. PICK r \in F : Added(m, r, joined, F, Owners(i), n)
    BY <1>1, <1>5, AddedIsOf
  <2>2. m.id = <<n, r>> /\ m.key = key(r)
    BY <2>1 DEF Added
  <2> QED BY <2>2
<1>6. ASSUME NEW r \in F PROVE \E m \in messages' : m.key = key(r)
  <2>1. \E m \in JoinMessages(joined, ms, F, Owners(i), n) :
           m.key = KeyIn(ItemOf(r, Owners(i)), {ItemOf(q, Owners(i)) : q \in F})
    BY <1>2, EveryKeyHasRow
  <2> QED BY <1>1, <2>1
<1> HIDE DEF F
<1>7. \A r \in F : KeyFits(key(r), r)
  BY <1>2, RecordKeyFits
<1>8. \A r, q \in F : key(r) = key(q) => Told(r) = Told(q)
  <2> TAKE r, q \in F
  <2> HAVE key(r) = key(q)
  <2>1. \A p \in F : ItemOf(p, Owners(i)) \in Item
    BY <1>2, RecordIsItem
  <2>2. batch \in SUBSET Item /\ IsFiniteSet(batch)
    <3> DEFINE item == [p \in F |-> ItemOf(p, Owners(i))]
    <3>1. IsFiniteSet(F) /\ batch = {item[p] : p \in F} /\ DOMAIN item = F
      BY <1>2, RecordsAreNumbers, FS_Subset
    <3> HIDE DEF item
    <3>2. IsFiniteSet({item[p] : p \in F})
      BY <3>1, FiniteImage
    <3> QED BY <2>1, <3>1, <3>2
  <2>3. ItemOf(r, Owners(i)) \in batch /\ ItemOf(q, Owners(i)) \in batch
    OBVIOUS
  <2> HIDE DEF batch
  <2>4. Identity(ItemOf(r, Owners(i))) = Identity(ItemOf(q, Owners(i)))
    BY <2>2, <2>3, KeysTellMessages
  <2> QED BY <1>2, <2>4, IdentityIsTold
<1> HIDE DEF key
<1>9. KeysTold'
  <2>1. \A m \in messages' : KeyFits(m.key, m.id[2])
    BY <1>3, <1>5, <1>7
  <2> QED BY <1>1, <1>2, <2>1 DEF KeysTold
<1>10. IsFiniteSet(messages') /\ \A m \in messages' : m.id[2] \in Records
  BY DEF ArchiveInv, RowsOK, RowIds
<1> DEFINE like(r) == {m \in messages' : Likeness(m.id[2]) = Likeness(r)}
<1>11. \A r : RowsLike(r)' = like(r) /\ IsFiniteSet(like(r))
  <2> TAKE r
  <2>1. RowsLike(r)' = like(r)
    BY DEF RowsLike, Likeness, Truth, Who
  <2> QED BY <1>10, <2>1, FS_Subset
<1>12. ASSUME NEW r PROVE Cardinality(RowsLike(r)) <= Cardinality(like(r))
  <2> DEFINE f == [m \in RowsLike(r) |-> CHOOSE k \in messages' : k.id = m.id]
  <2>1. \A m \in RowsLike(r) : m \in messages /\ Likeness(m.id[2]) = Likeness(r)
    BY DEF RowsLike
  <2>2. \A m \in RowsLike(r) : f[m] \in messages' /\ f[m].id = m.id
    BY <1>3, <1>4, <2>1
  <2>3. \A m, k \in RowsLike(r) : f[m] = f[k] => m = k
    <3> HIDE DEF f
    <3> QED BY <2>1, <2>2 DEF ArchiveInv, NumberedOK
  <2>4. \A m \in RowsLike(r) : f[m] \in like(r)
    <3> HIDE DEF f
    <3> QED BY <2>1, <2>2
  <2>5. DOMAIN f = RowsLike(r)
    OBVIOUS
  <2> HIDE DEF f, like
  <2> QED BY <1>11, <2>3, <2>4, <2>5, OneEach
<1>13. ASSUME NEW r \in F PROVE Count(Alike(r, F)) <= Cardinality(like(r))
  <2> DEFINE A == Alike(r, F)
             S == {Told(q) : q \in A}
             speaks(c, m) == \E q \in A : Told(q) = c /\ m.key = key(q)
             f == [c \in S |-> CHOOSE m \in messages' : speaks(c, m)]
  <2>1. Count(A) = Cardinality(S)
    BY DEF Count, Told
  <2>2. \A q \in A : q \in F /\ q \in Records /\ Likeness(q) = Likeness(r)
    BY <1>2 DEF Alike
  <2> HIDE DEF A
  <2>3. \A c \in S : f[c] \in messages' /\ speaks(c, f[c])
    <3>1. \A c \in S : \E m \in messages' : speaks(c, m)
      BY <1>6, <2>2
    <3> HIDE DEF speaks
    <3> QED BY <3>1
  <2>4. DOMAIN f = S
    OBVIOUS
  <2> HIDE DEF f
  <2>5. \A c, d \in S : f[c] = f[d] => c = d
    BY <1>8, <2>2, <2>3
  <2>6. ASSUME NEW c \in S PROVE f[c] \in like(r)
    <3>1. PICK q \in A : f[c].key = key(q)
      BY <2>3
    <3>2. KeyFits(key(q), q) /\ KeyFits(key(q), f[c].id[2]) /\ f[c].id[2] \in Records
      BY <1>7, <1>9, <1>10, <2>2, <2>3, <3>1 DEF KeysTold
    <3>3. Likeness(q) = Likeness(f[c].id[2])
      BY <2>2, <3>2, KeyTellsLikeness
    <3> QED BY <2>2, <2>3, <3>3
  <2> HIDE DEF S, speaks, like
  <2> QED BY <1>11, <2>1, <2>4, <2>5, <2>6, OneEach DEF A
<1>14. NothingLost'
  <2> SUFFICES ASSUME NEW G \in imported', NEW r \in G
               PROVE  Count(Alike(r, G)) <= Cardinality(like(r))
    BY <1>11 DEF NothingLost, Count, Alike, Likeness, Truth, Who
  <2>1. CASE G = F
    BY <1>13, <2>1
  <2>2. CASE G \in imported
    <3>1. Count(Alike(r, G)) <= Cardinality(RowsLike(r))
      BY <2>2 DEF NothingLost
    <3>2. Count(Alike(r, G)) \in Nat
      <4>1. Alike(r, G) \in SUBSET Records
        BY <2>2 DEF KeysTold, Alike
      <4> QED BY <4>1, CountIsNatural
    <3>3. Cardinality(RowsLike(r)) \in Nat /\ Cardinality(like(r)) \in Nat
      <4>1. RowsLike(r) \in SUBSET messages /\ IsFiniteSet(messages)
        BY DEF RowsLike, ArchiveInv, RowsOK
      <4> HIDE DEF like
      <4> QED BY <1>11, <4>1, FS_Subset, FS_CardinalityType
    <3> HIDE DEF like
    <3> QED BY <1>12, <3>1, <3>2, <3>3
  <2> QED BY <1>1, <2>1, <2>2
<1> QED BY <1>9, <1>14

LEMMA LossStep ==
    ASSUME NoStranger, ArchiveInv, ArchiveInv', TruthInv, KeysTold, NothingLost, [Next]_vars
    PROVE  KeysTold' /\ NothingLost'
<1>1. ASSUME UNCHANGED <<imported, messages>>
      PROVE  KeysTold' /\ NothingLost'
  BY <1>1 DEF KeysTold, KeyFits, NothingLost, Count, Alike, RowsLike, Likeness, Truth, Who
<1>2. CASE \E i \in Importers : Write(i)
  BY <1>2, WriteLosesNothing
<1>3. CASE ~ \E i \in Importers : Write(i)
  <2>1. UNCHANGED <<imported, messages>>
    BY <1>3 DEF Next, Read, Resolve, WriteFails, ListThreads, CountRows, SetCoverage, Covered,
                Kill, Onboard, storeVars, vars
  <2> QED BY <1>1, <2>1
<1> QED BY <1>2, <1>3

\* Under the same conditions nothing is eaten: of every file imported, as many
\* messages of a kind as the file tells apart are in the archive, whichever source
\* was first, however often keys were rewritten and wherever imports were killed
\* (dedup.ts keyBatch, db.ts repairOwnerThreads).
THEOREM EveryMessageIsKept ==
    ASSUME NoStranger, Overlap # "any"
    PROVE  IntakeSpec => []NothingLost
<1>1. IntakeInit => TruthInv /\ KeysTold /\ NothingLost
  BY DEF IntakeInit, Init, TruthInv, OneFileAtATime, Importing, KnownIsCurrent, ThreadsTold, KeysTold, NothingLost
<1>2. ArchiveInv /\ ArchiveInv' /\ (TruthInv /\ KeysTold /\ NothingLost) /\ [IntakeNext]_intakeVars
        => (TruthInv /\ KeysTold /\ NothingLost)'
  BY TruthStep, LossStep DEF IntakeNext, intakeVars
<1> QED BY ArchiveHolds, <1>1, <1>2, PTL DEF IntakeSpec

-----------------------------------------------------------------------------
(* Nothing is doubled.  Until a repair cannot give everything its key, a row's *)
(* key is what a new import would give its record, and its number is no higher *)
(* than some file counts.                                                      *)

\* The group of record r while o is the owner, and what a file has of it.
Now(r, o) == <<Counterpart(r, {o} \ {None}), Log[r].dir, Bucket(Log[r].at), Log[r].body>>
KindIn(F, g, o) == {q \in F : Now(q, o) = g}

KeyBounded(k, r, files, o) ==
    /\ k = <<Now(r, o), k[2]>> /\ k[2] \in Nat \ {0}
    /\ \E F \in files : k[2] <= Count(KindIn(F, Now(r, o), o))

BoundedInv ==
    /\ ~collided => \A m \in messages : KeyBounded(m.key, m.id[2], imported, owner)
    /\ owner = None => \A t \in threads : t.owners = {}

LEMMA CountGrows ==
    ASSUME NEW R, NEW S \in SUBSET Records, R \subseteq S
    PROVE  Count(R) <= Count(S) /\ Count(R) \in Nat /\ Count(S) \in Nat
<1> DEFINE tally == [q \in S |-> Told(q)]
           all == {tally[q] : q \in S}
           some == {tally[q] : q \in R}
<1>1. Count(S) = Cardinality(all) /\ Count(R) = Cardinality(some) /\ some \in SUBSET all
  BY DEF Count, Told
<1>2. IsFiniteSet(S) /\ DOMAIN tally = S
  BY RecordsAreNumbers, FS_Subset
<1>3. IsFiniteSet(all)
  <2> HIDE DEF tally
  <2> QED BY <1>2, FiniteImage
<1> HIDE DEF all, some
<1>4. Cardinality(some) <= Cardinality(all)
  BY <1>1, <1>3, FS_Subset
<1> QED BY <1>1, <1>4, CountIsNatural

LEMMA ToldIsIdentity ==
    ASSUME OneInstant, NEW r \in Records, NEW q \in Records, NEW owners, Told(r) = Told(q)
    PROVE  Log[r].at = Log[q].at /\ Identity(ItemOf(r, owners)) = Identity(ItemOf(q, owners))
<1>1. \A x : Identity(ItemOf(x, owners)) =
          IF Log[x].native # NoId THEN <<0, Log[x].native, 0>> ELSE <<1, Log[x].at, Log[x].carries>>
  BY DEF Identity, ItemOf
<1>2. CASE Log[r].native = NoId /\ Log[q].native = NoId
  BY <1>1, <1>2 DEF Told
<1>3. CASE Log[r].native # NoId /\ Log[q].native # NoId
  BY <1>1, <1>3 DEF Told, OneInstant
<1>4. ASSUME NEW x, NEW y, NEW z PROVE <<x, y>> # <<z>>
  OBVIOUS
<1> QED BY <1>2, <1>3, <1>4 DEF Told

\* The number a record's key has is at most what its file counts of its group.
LEMMA RecordKeyBounded ==
    ASSUME OneInstant, NEW F \in SUBSET Records, NEW r \in F, NEW o,
           {o} \ {None} \in SUBSET People, NEW files, F \in files
    PROVE  KeyBounded(KeyIn(ItemOf(r, {o} \ {None}), {ItemOf(q, {o} \ {None}) : q \in F}), r, files, o)
<1> DEFINE item == [q \in F |-> ItemOf(q, {o} \ {None})]
           B == {ItemOf(q, {o} \ {None}) : q \in F}
           G == {x \in B : GroupOf(x) = GroupOf(item[r])}
           A == KindIn(F, Now(r, o), o)
           tally == [q \in A |-> Told(q)]
           T == {tally[q] : q \in A}
           f == [x \in G |-> tally[CHOOSE q \in A : item[q] = x]]
           k == KeyIn(item[r], B)
<1>1. \A q \in F : item[q] \in Item /\ GroupOf(item[q]) = Now(q, o) /\ q \in Records
  BY RecordIsItem DEF Now
<1>2. B = {item[q] : q \in F} /\ DOMAIN item = F
  OBVIOUS
<1>3. k = <<GroupOf(item[r]), Occurrence(item[r], G)>>
  BY DEF KeyIn
<1>4. \A q \in A : q \in F /\ Now(q, o) = Now(r, o)
  BY DEF KindIn
<1>5. \A q \in F : Now(q, o) = Now(r, o) => q \in A
  BY DEF KindIn
<1>6. Count(A) = Cardinality(T) /\ DOMAIN tally = A /\ \A q \in A : tally[q] = Told(q)
  BY DEF Count, Told
<1>7. \A q, p \in A : tally[q] = tally[p]
         => item[q].at = item[p].at /\ Identity(item[q]) = Identity(item[p])
  <2> TAKE q, p \in A
  <2> HAVE tally[q] = tally[p]
  <2>1. Told(q) = Told(p) /\ q \in F /\ p \in F /\ q \in Records /\ p \in Records
    <3> HIDE DEF A, tally
    <3> QED BY <1>1, <1>4, <1>6
  <2>2. Log[q].at = Log[p].at /\ Identity(ItemOf(q, {o} \ {None})) = Identity(ItemOf(p, {o} \ {None}))
    BY <2>1, ToldIsIdentity
  <2>3. item[q] = ItemOf(q, {o} \ {None}) /\ item[p] = ItemOf(p, {o} \ {None})
    BY <2>1
  <2>4. item[q].at = Log[q].at /\ item[p].at = Log[p].at
    BY <2>3 DEF ItemOf
  <2> HIDE DEF item
  <2> QED BY <2>2, <2>3, <2>4
<1> HIDE DEF item, B, A, tally
<1>8. IsFiniteSet(F) /\ IsFiniteSet(A) /\ A \subseteq F
  BY <1>4, RecordsAreNumbers, FS_Subset
<1>9. IsFiniteSet(T) /\ IsFiniteSet(B)
  BY <1>2, <1>6, <1>8, FiniteImage
<1>10. G \in SUBSET Item /\ IsFiniteSet(G) /\ item[r] \in G
  BY <1>1, <1>2, <1>9, FS_Subset
<1>11. ASSUME NEW x \in G PROVE \E q \in A : item[q] = x /\ f[x] = tally[q]
  <2>1. \E q \in A : item[q] = x
    BY <1>1, <1>2, <1>5
  <2> QED BY <2>1
<1> HIDE DEF G, f, T
<1>12. \A x \in G : f[x] \in T
  BY <1>11 DEF T
<1>13. \A x, y \in G : f[x] = f[y] => x.at = y.at /\ Identity(x) = Identity(y)
  BY <1>7, <1>11
<1>14. Occurrence(item[r], G) \in Nat \ {0} /\ Occurrence(item[r], G) <= Cardinality(T)
  BY <1>9, <1>10, <1>12, <1>13, OccurrenceBounds
<1>15. k = <<Now(r, o), k[2]>> /\ k[2] \in Nat \ {0} /\ k[2] <= Count(A)
  BY <1>1, <1>3, <1>6, <1>14
<1>16. KeyBounded(k, r, files, o)
  <2> HIDE DEF k
  <2> QED BY <1>15 DEF KeyBounded, A
<1> QED BY <1>16 DEF k, B, item

\* Rows of a group, numbered from 1 with no number twice and none above what some
\* file counts, are no more than some file counts.
LEMMA NumberedRows ==
    ASSUME NEW R, IsFiniteSet(R), R # {}, NEW files \in SUBSET SUBSET Records, NEW g, NEW o,
           \A x \in R : /\ x.key = <<g, x.key[2]>> /\ x.key[2] \in Nat \ {0}
                        /\ \E F \in files : x.key[2] <= Count(KindIn(F, g, o)),
           \A x, y \in R : x.key = y.key => x = y
    PROVE  \E F \in files : Cardinality(R) <= Count(KindIn(F, g, o))
<1> DEFINE f == [x \in R |-> x.key[2]]
           N == {f[x] : x \in R}
<1>1. DOMAIN f = R /\ \A x \in R : f[x] \in Nat \ {0}
  OBVIOUS
<1>2. \A x, y \in R : f[x] = f[y] => x = y
  BY Zenon
<1>3. \A x \in R : f[x] = x.key[2]
  OBVIOUS
<1> HIDE DEF f
<1>4. IsFiniteSet(N) /\ N \in SUBSET Nat /\ N # {}
  BY <1>1, FiniteImage
<1>5. PICK n \in N : \A k \in N : k <= n
  <2> HIDE DEF N
  <2> QED BY <1>4, GreatestOfSome
<1>6. PICK x \in R : n = f[x]
  OBVIOUS
<1>7. PICK F \in files : n <= Count(KindIn(F, g, o))
  BY <1>3, <1>6
<1>8. n \in Nat /\ \A y \in R : f[y] \in 1 .. n
  BY <1>1, <1>5, <1>6
<1>9. IsFiniteSet(1 .. n) /\ Cardinality(1 .. n) = n
  BY <1>8, FS_Interval
<1>10. Cardinality(R) <= n
  <2> HIDE DEF N
  <2> QED BY <1>1, <1>2, <1>8, <1>9, OneEach
<1>11. KindIn(F, g, o) \in SUBSET Records
  BY DEF KindIn
<1>12. Count(KindIn(F, g, o)) \in Nat /\ Cardinality(R) \in Nat
  BY <1>11, CountIsNatural, FS_CardinalityType
<1> QED BY <1>7, <1>8, <1>10, <1>12

\* Whoever was with the same people is once the owner is known.
LEMMA KindWidens ==
    ASSUME NEW r \in Records, NEW q \in Records, Now(q, None) = Now(r, None)
    PROVE  Now(q, Me) = Now(r, Me)
<1>1. Counterpart(q, {}) = Counterpart(r, {})
  <2>1. {None} \ {None} = {}
    OBVIOUS
  <2> QED BY <2>1 DEF Now
<1>2. Who(q) \ {} = Who(r) \ {}
  BY <1>1, KeyTellsPeople DEF Counterpart
<1>3. Who(q) = Who(r)
  BY <1>2
<1>4. Counterpart(q, {Me} \ {None}) = Counterpart(r, {Me} \ {None})
  BY <1>3 DEF Counterpart
<1> QED BY <1>4 DEF Now

LEMMA KindsWiden ==
    ASSUME NEW r \in Records, NEW F \in SUBSET Records, NEW k \in Nat,
           k <= Count(KindIn(F, Now(r, None), None))
    PROVE  k <= Count(KindIn(F, Now(r, Me), Me))
<1>1. KindIn(F, Now(r, None), None) \subseteq KindIn(F, Now(r, Me), Me)
  BY KindWidens DEF KindIn
<1>2. KindIn(F, Now(r, Me), Me) \in SUBSET Records
  BY DEF KindIn
<1>3. /\ Count(KindIn(F, Now(r, None), None)) <= Count(KindIn(F, Now(r, Me), Me))
      /\ Count(KindIn(F, Now(r, None), None)) \in Nat /\ Count(KindIn(F, Now(r, Me), Me)) \in Nat
  BY <1>1, <1>2, CountGrows
<1> QED BY <1>3

\* A repair that can give everything its key numbers the rows of a group anew, no
\* higher than they were many.
LEMMA RepairedKeysBounded ==
    ASSUME ArchiveInv, TruthInv, BoundedInv, owner = None, ~collided, ~RepairCollides(Me),
           imported \subseteq SUBSET Records
    PROVE  \A m \in RepairedMessages(Me) : KeyBounded(m.key, m.id[2], imported, Me)
<1> DEFINE o == Me
           repaired(m) == IF m \notin Loose(o) \/ Keeps(m, o) THEN m
                          ELSE [m EXCEPT !.key = RepairedKey(m, o)]
           rec(m) == m.id[2]
<1>1. RepairedMessages(o) = {repaired(m) : m \in messages}
  BY DEF RepairedMessages
<1>2. ASSUME NEW m \in messages
      PROVE  /\ rec(m) \in Records /\ Who(rec(m)) \in SUBSET People /\ None \notin Who(rec(m))
             /\ KeyBounded(m.key, rec(m), imported, None)
             /\ \E t \in threads : t.id = m.thread /\ t.members = Who(rec(m)) /\ t.owners = {}
  <2>1. rec(m) \in Records
    BY DEF ArchiveInv, RowsOK, RowIds
  <2>2. Who(rec(m)) \in SUBSET People /\ None \notin Who(rec(m))
    BY <2>1, RecordsAreNumbers, NobodyAssumption
  <2>3. PICK t \in threads : t.id = m.thread /\ t.members = Who(rec(m)) \ {None}
    BY DEF TruthInv
  <2>4. t.owners = {} /\ KeyBounded(m.key, rec(m), imported, None)
    BY DEF BoundedInv
  <2> QED BY <2>1, <2>2, <2>3, <2>4
<1>3. \A t, u \in threads : t.id = u.id => t = u
  BY DEF ArchiveInv, NumberedOK
<1>4. ASSUME NEW m \in messages, m \notin Loose(o)
      PROVE  KeyBounded(m.key, rec(m), imported, Me)
  <2>1. Me \notin Who(rec(m))
    BY <1>2, <1>4 DEF Loose, Affected
  <2>2. Counterpart(rec(m), {Me}) = Counterpart(rec(m), {})
    <3>1. Who(rec(m)) \ {Me} = Who(rec(m)) \ {} /\ Who(rec(m)) \cap {Me} = Who(rec(m)) \cap {}
      BY <2>1
    <3> QED BY <3>1 DEF Counterpart
  <2>3. Now(rec(m), Me) = Now(rec(m), None)
    <3>1. {Me} \ {None} = {Me} /\ {None} \ {None} = {}
      BY PeopleAssumption, NobodyAssumption
    <3> QED BY <2>2, <3>1 DEF Now
  <2>4. /\ m.key = <<Now(rec(m), None), m.key[2]>> /\ m.key[2] \in Nat \ {0}
        /\ \E F \in imported : m.key[2] <= Count(KindIn(F, Now(rec(m), None), None))
    BY <1>2 DEF KeyBounded
  <2>5. \E F \in imported : m.key[2] <= Count(KindIn(F, Now(rec(m), Me), Me))
    BY <1>2, <2>4, KindsWiden
  <2> HIDE DEF rec
  <2> QED BY <2>3, <2>4, <2>5 DEF KeyBounded, rec
<1>5. ASSUME NEW m \in Loose(o)
      PROVE  /\ m \in messages /\ Me \in Who(rec(m))
             /\ ThreadOf(m, o) \in threads /\ ThreadOf(m, o).members = Who(rec(m))
             /\ Corrected(ThreadOf(m, o), o) = Counterpart(rec(m), {Me})
  <2>1. /\ m \in messages /\ ThreadOf(m, o) \in threads /\ ThreadOf(m, o).id = m.thread
        /\ o \in ThreadOf(m, o).members
    BY DEF Loose, ThreadOf, Affected
  <2>2. ThreadOf(m, o).members = Who(rec(m)) /\ ThreadOf(m, o).owners = {}
    BY <1>2, <1>3, <2>1
  <2>3. Who(rec(m)) \cap {Me} = {} \cup {Me}
    BY <2>1, <2>2
  <2>4. Corrected(ThreadOf(m, o), o) = KeyOfPeople(Who(rec(m)) \ {Me}, {} \cup {Me})
    BY <2>2 DEF Corrected
  <2> QED BY <2>1, <2>2, <2>3, <2>4 DEF Counterpart
<1> DEFINE group(x) == <<Corrected(ThreadOf(x, o), o), Log[rec(x)].dir, Bucket(Log[rec(x)].at),
                         Log[rec(x)].body>>
           before(x, y) == \/ Log[rec(x)].at < Log[rec(y)].at
                           \/ Log[rec(x)].at = Log[rec(y)].at /\ IdPrecedes(x.id, y.id)
           upTo(y) == {x \in Loose(o) : group(x) = group(y) /\ (before(x, y) \/ x = y)}
<1>6. ASSUME NEW x \in Loose(o)
      PROVE  RepairedKey(x, o) = <<group(x), Cardinality(upTo(x))>>
  BY DEF RepairedKey, ThreadOf
<1>7. ASSUME NEW x \in Loose(o) PROVE group(x) = Now(rec(x), Me)
  <2>1. {Me} \ {None} = {Me}
    BY PeopleAssumption, NobodyAssumption
  <2> HIDE DEF rec
  <2> QED BY <1>5, <2>1 DEF Now
<1>8. ASSUME NEW x \in Loose(o), NEW y \in Loose(o), group(x) = group(y)
      PROVE  Now(rec(x), None) = Now(rec(y), None)
  <2>1. Counterpart(rec(x), {Me}) = Counterpart(rec(y), {Me})
        /\ Log[rec(x)].dir = Log[rec(y)].dir /\ Bucket(Log[rec(x)].at) = Bucket(Log[rec(y)].at)
        /\ Log[rec(x)].body = Log[rec(y)].body
    <3> HIDE DEF rec
    <3> QED BY <1>5, <1>8
  <2>2. Who(rec(x)) \ {Me} = Who(rec(y)) \ {Me}
    BY <2>1, KeyTellsPeople DEF Counterpart
  <2>3. Who(rec(x)) = Who(rec(y))
    <3>1. Me \in Who(rec(x)) /\ Me \in Who(rec(y))
      BY <1>5
    <3>2. ASSUME NEW A, NEW B, NEW e, e \in A, e \in B, A \ {e} = B \ {e} PROVE A = B
      <4>1. A = (A \ {e}) \cup {e} /\ B = (B \ {e}) \cup {e}
        BY <3>2
      <4> QED BY <3>2, <4>1
    <3> HIDE DEF rec
    <3> QED BY <2>2, <3>1, <3>2
  <2>4. Counterpart(rec(x), {None} \ {None}) = Counterpart(rec(y), {None} \ {None})
    BY <2>3 DEF Counterpart
  <2> HIDE DEF rec
  <2> QED BY <2>1, <2>4 DEF Now
<1> HIDE DEF group, before
<1>9. ASSUME NEW m \in Loose(o)
      PROVE  KeyBounded(RepairedKey(m, o), rec(m), imported, Me)
  <2> DEFINE R == upTo(m)
             g == Now(rec(m), None)
  <2>1. IsFiniteSet(R) /\ m \in R /\ R \subseteq Loose(o)
    <3>1. R \in SUBSET messages /\ IsFiniteSet(messages)
      BY <1>5 DEF ArchiveInv, RowsOK
    <3> QED BY <3>1, FS_Subset
  <2>2. \A x \in R : Now(rec(x), None) = g
    BY <1>8
  <2> HIDE DEF R, upTo, g, rec
  <2>3. \A x \in R : /\ x.key = <<g, x.key[2]>> /\ x.key[2] \in Nat \ {0}
                     /\ \E F \in imported : x.key[2] <= Count(KindIn(F, g, None))
    <3> TAKE x \in R
    <3>1. KeyBounded(x.key, rec(x), imported, None) /\ Now(rec(x), None) = g
      BY <1>2, <1>5, <2>1, <2>2
    <3> QED BY <3>1 DEF KeyBounded
  <2>4. \A x, y \in R : x.key = y.key => x = y
    BY <1>5, <2>1 DEF ArchiveInv, KeysAreUnique
  <2>5. imported \in SUBSET SUBSET Records /\ R # {}
    BY <2>1
  <2>6. PICK F \in imported : Cardinality(R) <= Count(KindIn(F, g, None))
    BY <2>1, <2>3, <2>4, <2>5, NumberedRows
  <2>7. Cardinality(R) \in Nat \ {0}
    BY <2>1, FS_CardinalityType, FS_EmptySet
  <2>8. Cardinality(R) <= Count(KindIn(F, Now(rec(m), Me), Me))
    BY <1>2, <1>5, <2>5, <2>6, <2>7, KindsWiden DEF g
  <2>9. RepairedKey(m, o) = <<Now(rec(m), Me), Cardinality(R)>>
    BY <1>6, <1>7 DEF R
  <2> HIDE DEF o
  <2>10. KeyBounded(<<Now(rec(m), Me), Cardinality(R)>>, rec(m), imported, Me)
    BY <2>7, <2>8 DEF KeyBounded
  <2> QED BY <2>9, <2>10
<1>10. ASSUME NEW m \in messages
       PROVE  KeyBounded(repaired(m).key, repaired(m).id[2], imported, Me)
  <2>1. m = [id |-> m.id, key |-> m.key, thread |-> m.thread]
    BY DEF ArchiveInv, RowsOK
  <2>2. ASSUME NEW i, NEW k, NEW t, NEW j, m = [id |-> i, key |-> k, thread |-> t]
        PROVE  [m EXCEPT !.key = j].id = i /\ [m EXCEPT !.key = j].key = j
    BY <2>2
  <2>3. CASE m \notin Loose(o)
    BY <1>4, <2>3
  <2>4. CASE m \in Loose(o)
    <3>1. ~Keeps(m, o)
      BY <2>4 DEF RepairCollides
    <3>2. repaired(m) = [m EXCEPT !.key = RepairedKey(m, o)]
      BY <2>4, <3>1
    <3>3. repaired(m).id = m.id /\ repaired(m).key = RepairedKey(m, o)
      BY <2>1, <2>2, <3>2
    <3> HIDE DEF repaired, o, upTo
    <3> QED BY <1>9, <2>4, <3>3
  <2> QED BY <2>3, <2>4
<1> HIDE DEF repaired
<1> QED BY <1>1, <1>10

LEMMA WriteDoublesNothing ==
    ASSUME NoStranger, OneInstant, ArchiveInv, ArchiveInv', TruthInv, KeysTold, KeysTold', BoundedInv,
           NEW i \in Importers, Write(i)
    PROVE  BoundedInv'
<1> DEFINE F == file[i]
           fo == FileOwner(F)
           n == Cardinality(imported) + 1
           marks == owner = None /\ fo # None
           ts == IF marks THEN RepairedThreads(fo) ELSE threads
           ms == IF marks THEN RepairedMessages(fo) ELSE messages
           joined == JoinThreads(ts, F, Owners(i), fo, n)
<1>1. /\ threads' = joined
      /\ messages' = JoinMessages(joined, ms, F, Owners(i), n)
      /\ owner' = (IF marks THEN fo ELSE owner)
      /\ imported' = imported \cup {F}
      /\ collided' = (collided \/ (marks /\ RepairCollides(fo)))
  BY DEF Write
<1>2. /\ F \in SUBSET Records /\ fo \in {Me, None}
      /\ Owners(i) = {owner'} \ {None} /\ {owner'} \ {None} \in SUBSET People
  BY WriterKnows, PeopleAssumption
<1>3. ~collided' => \A m \in ms : KeyBounded(m.key, m.id[2], imported, owner')
  <2> HAVE ~collided'
  <2>1. ~collided
    BY <1>1
  <2>2. CASE marks
    <3>1. fo = Me /\ ms = RepairedMessages(Me) /\ owner = None /\ owner' = Me /\ ~RepairCollides(Me)
      BY <1>1, <1>2, <2>2
    <3>2. imported \subseteq SUBSET Records
      BY DEF KeysTold
    <3> HIDE DEF ms, fo
    <3> QED BY <2>1, <3>1, <3>2, RepairedKeysBounded
  <2>3. CASE ~marks
    <3>1. ms = messages /\ owner' = owner
      BY <1>1, <2>3
    <3> HIDE DEF ms
    <3> QED BY <2>1, <3>1 DEF BoundedInv
  <2> QED BY <2>2, <2>3
<1>4. owner' = None => \A t \in threads' : t.owners = {}
  <2> HAVE owner' = None
  <2>1. owner = None /\ fo = None /\ ts = threads /\ Owners(i) = {}
    BY <1>1, <1>2
  <2>2. \A t \in threads : t.owners = {} /\ t \in Thread
    BY <2>1 DEF BoundedInv, ArchiveInv
  <2> DEFINE slice(s) == Slice(F, s, {})
             fresh == {Counterpart(r, {}) : r \in F} \ {t.sig : t \in ts}
             empty(s) == [id |-> <<n, FirstIn(slice(s))>>, sig |-> s, members |-> {},
                          owners |-> {}, covered |-> Cardinality(slice(s))]
             join(t) == IF slice(t.sig) = {} THEN t ELSE JoinedThread(t, slice(t.sig), {}, None)
  <2>3. joined = {join(t) : t \in ts \cup {empty(s) : s \in fresh}}
    BY <2>1 DEF JoinThreads
  <2>4. ASSUME NEW t \in Thread, t.owners = {} PROVE join(t).owners = {}
    <3>1. JoinedThread(t, slice(t.sig), {}, None).owners = {}
      BY <2>4 DEF JoinedThread, Thread
    <3> HIDE DEF slice
    <3> QED BY <2>4, <3>1
  <2>5. ASSUME NEW s PROVE join(empty(s)).owners = {}
    <3>1. JoinedThread(empty(s), slice(s), {}, None).owners = {} /\ empty(s).owners = {} /\ empty(s).sig = s
      BY DEF JoinedThread
    <3> HIDE DEF slice, empty
    <3> QED BY <3>1
  <2> HIDE DEF join, empty, fresh, joined, ts
  <2> QED BY <1>1, <2>1, <2>2, <2>3, <2>4, <2>5
<1> HIDE DEF ts, fo, n, joined
<1>5. ASSUME ~collided', NEW m \in messages' PROVE KeyBounded(m.key, m.id[2], imported', owner')
  <2>1. CASE m \in ms
    <3>1. KeyBounded(m.key, m.id[2], imported, owner')
      BY <1>3, <1>5, <2>1
    <3> QED BY <1>1, <3>1 DEF KeyBounded
  <2>2. CASE m \notin ms
    <3>1. PICK r \in F : Added(m, r, joined, F, Owners(i), n)
      BY <1>1, <2>2, AddedIsOf
    <3> DEFINE O == {owner'} \ {None}
               k == KeyIn(ItemOf(r, O), {ItemOf(q, O) : q \in F})
    <3>2. m.id[2] = r /\ m.key = k
      BY <1>2, <3>1 DEF Added
    <3>3. PICK o : o = owner'
      OBVIOUS
    <3>4. KeyBounded(KeyIn(ItemOf(r, {o} \ {None}), {ItemOf(q, {o} \ {None}) : q \in F}), r, imported', o)
      BY <1>1, <1>2, <3>3, RecordKeyBounded
    <3>5. KeyBounded(k, r, imported', owner')
      BY <3>3, <3>4
    <3> HIDE DEF k
    <3> QED BY <3>2, <3>5
  <2> QED BY <2>1, <2>2
<1> HIDE DEF ms, F
<1> QED BY <1>4, <1>5 DEF BoundedInv, KeyBounded

LEMMA DoubleStep ==
    ASSUME NoStranger, OneInstant, ArchiveInv, ArchiveInv', TruthInv, KeysTold, KeysTold', BoundedInv,
           [Next]_vars
    PROVE  BoundedInv'
<1>1. ASSUME UNCHANGED <<imported, owner, messages, collided>>, \A t \in threads' : \E u \in threads : t.owners = u.owners
      PROVE  BoundedInv'
  <2>1. ~collided' => \A m \in messages' : KeyBounded(m.key, m.id[2], imported', owner')
    BY <1>1 DEF BoundedInv
  <2>2. owner' = None => \A t \in threads' : t.owners = {}
    BY <1>1 DEF BoundedInv
  <2> QED BY <2>1, <2>2 DEF BoundedInv, KeyBounded, KindIn, Now, Count, Counterpart, Who
<1>2. CASE \E i \in Importers : Write(i)
  BY <1>2, WriteDoublesNothing
<1>3. ASSUME NEW i \in Importers, SetCoverage(i) PROVE BoundedInv'
  <2>1. \A t \in threads' : \E u \in threads : t.owners = u.owners
    BY <1>3, SetThreads
  <2>2. UNCHANGED <<imported, owner, messages, collided>>
    BY <1>3 DEF SetCoverage
  <2> QED BY <1>1, <2>1, <2>2
<1>4. CASE ~ \E i \in Importers : Write(i) \/ SetCoverage(i)
  <2>1. UNCHANGED <<imported, owner, threads, messages, collided>>
    BY <1>4 DEF Next, Read, Resolve, WriteFails, ListThreads, CountRows, Covered, Kill, Onboard,
                storeVars, vars
  <2> QED BY <1>1, <2>1
<1> QED BY <1>2, <1>3, <1>4

LEMMA BoundedIsSingle ==
    ASSUME Peopled, ArchiveInv, TruthInv, KeysTold, BoundedInv
    PROVE  NothingDoubled
<1> SUFFICES ASSUME owner # None, ~collided, NEW m \in messages
             PROVE  \E F \in imported : Cardinality(RowsLike(m.id[2])) <= Count(Alike(m.id[2], F))
  BY DEF NothingDoubled
<1> DEFINE R == RowsLike(m.id[2])
           g == Now(m.id[2], Me)
<1>1. owner = Me /\ {Me} \ {None} = {Me}
  BY PeopleAssumption, NobodyAssumption DEF TruthInv
<1>2. \A x \in messages : x.id[2] \in Records
  BY DEF ArchiveInv, RowsOK, RowIds
<1>3. \A r \in Records : Now(r, Me) = <<KeyOfPeople(Truth(r), Who(r) \cap {Me}), Log[r].dir, Bucket(Log[r].at), Log[r].body>>
  BY <1>1 DEF Now, Counterpart, Truth
<1>4. ASSUME NEW r \in Records, NEW q \in Records
      PROVE  Likeness(r) = Likeness(q) <=> Now(r, Me) = Now(q, Me)
  <2>1. ASSUME Likeness(r) = Likeness(q) PROVE Now(r, Me) = Now(q, Me)
    <3>1. Truth(r) = Truth(q) /\ Log[r].dir = Log[q].dir /\ Bucket(Log[r].at) = Bucket(Log[q].at)
          /\ Log[r].body = Log[q].body
      BY <2>1 DEF Likeness
    <3>2. Truth(r) = {} => Who(r) = {Me} /\ Who(q) = {Me}
      BY <3>1 DEF Truth, Peopled
    <3>3. KeyOfPeople(Truth(r), Who(r) \cap {Me}) = KeyOfPeople(Truth(q), Who(q) \cap {Me})
      BY <3>1, <3>2 DEF KeyOfPeople
    <3> QED BY <1>3, <3>1, <3>3
  <2>2. ASSUME Now(r, Me) = Now(q, Me) PROVE Likeness(r) = Likeness(q)
    <3>1. KeyOfPeople(Truth(r), Who(r) \cap {Me}) = KeyOfPeople(Truth(q), Who(q) \cap {Me})
          /\ Log[r].dir = Log[q].dir /\ Bucket(Log[r].at) = Bucket(Log[q].at)
          /\ Log[r].body = Log[q].body
      BY <1>3, <2>2
    <3>2. Truth(r) = Truth(q)
      BY <3>1, KeyTellsPeople
    <3> QED BY <3>1, <3>2 DEF Likeness
  <2> QED BY <2>1, <2>2
<1>5. R \in SUBSET messages /\ m \in R /\ IsFiniteSet(R) /\ \A x \in R : Now(x.id[2], Me) = g
  <2>1. R \in SUBSET messages /\ m \in R /\ IsFiniteSet(messages)
    BY DEF RowsLike, ArchiveInv, RowsOK
  <2>2. \A x \in R : Likeness(x.id[2]) = Likeness(m.id[2])
    BY DEF RowsLike
  <2> HIDE DEF R
  <2> QED BY <1>2, <1>4, <2>1, <2>2, FS_Subset
<1> HIDE DEF R, g
<1>6. \A x \in R : /\ x.key = <<g, x.key[2]>> /\ x.key[2] \in Nat \ {0}
                   /\ \E F \in imported : x.key[2] <= Count(KindIn(F, g, Me))
  <2> TAKE x \in R
  <2>1. KeyBounded(x.key, x.id[2], imported, Me) /\ Now(x.id[2], Me) = g
    BY <1>1, <1>5 DEF BoundedInv
  <2> QED BY <2>1 DEF KeyBounded
<1>7. \A x, y \in R : x.key = y.key => x = y
  BY <1>5 DEF ArchiveInv, KeysAreUnique
<1>8. imported \in SUBSET SUBSET Records /\ R # {}
  BY <1>5 DEF KeysTold
<1>9. PICK F \in imported : Cardinality(R) <= Count(KindIn(F, g, Me))
  BY <1>5, <1>6, <1>7, <1>8, NumberedRows
<1>10. KindIn(F, g, Me) = Alike(m.id[2], F)
  BY <1>2, <1>4, <1>8 DEF KindIn, Alike, g
<1> QED BY <1>9, <1>10 DEF R

\* If besides an id of a source is of one instant and every record is with somebody,
\* nothing is doubled either: as long as repairs could give everything its key, the
\* archive holds no more messages of a kind than some file counts, whichever files
\* overlap and whether the owner was found before, between or after them (dedup.ts
\* keyBatch, db.ts repairOwnerThreads).
THEOREM EveryMessageIsKeptOnce ==
    ASSUME NoStranger, Overlap # "any", OneInstant, Peopled
    PROVE  IntakeSpec => []NothingDoubled
<1> DEFINE Inv == TruthInv /\ KeysTold /\ NothingLost /\ BoundedInv
<1>1. IntakeInit => Inv
  BY DEF IntakeInit, Init, TruthInv, OneFileAtATime, Importing, KnownIsCurrent, ThreadsTold, KeysTold, NothingLost,
         BoundedInv
<1>2. ArchiveInv /\ ArchiveInv' /\ Inv /\ [IntakeNext]_intakeVars => Inv'
  <2> SUFFICES ASSUME ArchiveInv, ArchiveInv', Inv, [IntakeNext]_intakeVars PROVE Inv'
    OBVIOUS
  <2>1. [Next]_vars
    BY DEF IntakeNext, intakeVars
  <2>2. TruthInv'
    BY <2>1, TruthStep
  <2>3. KeysTold' /\ NothingLost'
    BY <2>1, LossStep
  <2>4. BoundedInv'
    BY <2>1, <2>3, DoubleStep
  <2> QED BY <2>2, <2>3, <2>4
<1>3. ArchiveInv /\ Inv => NothingDoubled
  BY BoundedIsSingle
<1> QED BY ArchiveHolds, <1>1, <1>2, <1>3, PTL DEF IntakeSpec
=============================================================================

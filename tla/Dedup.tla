------------------------------- MODULE Dedup -------------------------------
(***************************************************************************)
(* What counts as the same message: the keys that keyBatch gives to the    *)
(* rows of one import, or of one repair.                                   *)
(*                                                                         *)
(* Rows of one batch that agree on counterpart, direction, minute and body *)
(* form a group.  Within it they are numbered by what distinguishes them:  *)
(* the source's own id, or else the exact instant and what the row carries.*)
(* The key is the group and the number; nothing native to a source is in   *)
(* it, so that two sources can agree.                                      *)
(***************************************************************************)
EXTENDS Naturals, FiniteSets

CONSTANTS
    Minute,   \* instants per bucket
    NoId      \* a row whose source gives it no id

ASSUME MinuteAssumption == Minute \in Nat \ {0}
ASSUME NoIdAssumption == NoId \notin Nat

\* A row of a batch.  Ids, bodies and attachment manifests are numbers; a
\* body is its normal form (normalizeBody).
Item == [counterpart : SUBSET ({"member", "self"} \X Nat),
         dir : {"incoming", "outgoing"}, at : Nat, body : Nat,
         native : Nat \cup {NoId}, carries : Nat]

Bucket(at) == at \div Minute

GroupOf(m) == <<m.counterpart, m.dir, Bucket(m.at), m.body>>

\* Mutant: the instant alone.
IdentityByInstant(m) == IF m.native # NoId THEN <<0, m.native, 0>> ELSE <<1, m.at, 0>>

Identity(m) ==
    IF m.native # NoId THEN <<0, m.native, 0>> ELSE <<1, m.at, m.carries>>

IdBefore(a, b) ==
    \/ a[1] < b[1]
    \/ a[1] = b[1] /\ a[2] < b[2]
    \/ a[1] = b[1] /\ a[2] = b[2] /\ a[3] < b[3]

\* The order in which a group is scanned.
Precedes(m, n) ==
    m.at < n.at \/ (m.at = n.at /\ IdBefore(Identity(m), Identity(n)))

\* The scan counts m as a new message: the row before it has another identity.
StartsRun(m, group) ==
    ~ \E p \in group :
         /\ Precedes(p, m) /\ Identity(p) = Identity(m)
         /\ ~ \E q \in group : Precedes(p, q) /\ Precedes(q, m)

\* How many messages the scan has counted when it is past m (the code counts
\* from 0).
Occurrence(m, group) ==
    Cardinality({<<n.at, Identity(n)>> :
                    n \in {x \in group : ~Precedes(m, x) /\ StartsRun(x, group)}})

KeyIn(m, batch) == <<GroupOf(m), Occurrence(m, {n \in batch : GroupOf(n) = GroupOf(m)})>>

=============================================================================

----------------------------- MODULE MCCustody -----------------------------
(* A small instance: archives with a conversation that was filed twice and  *)
(* one with both contacts of that number, two                              *)
(* photos of one instant, a note to self and a contact without a number.    *)
EXTENDS Custody, TLC

CONSTANTS p1, p2
Symmetry == Permutations(Openers)

\* Contacts 1 and 2 are one number, written in two ways; 3 has none; 0 owns.
SmallKeyOf == [c \in 0 .. 3 |-> CASE c = 0 -> 0 [] c \in {1, 2} -> 1 [] OTHER -> None]

T(id, members, owners) == [id |-> id, sig |-> <<"old", id>>, members |-> members, owners |-> owners]
M(id, thread, instant, path) ==
    [row |-> [id |-> id, thread |-> thread, dir |-> "incoming", at |-> instant, body |-> 0,
              path |-> path, kind |-> "none"],
     key |-> <<"old", id>>]
A(threads, messages) == [has |-> {}, threads |-> threads, messages |-> messages]

Forked == A({T(1, {1}, {0}), T(2, {2}, {0}), T(3, {1, 2}, {0})},
            {M(1, 1, 5, "xml"), M(2, 1, 5, "xml"), M(3, 2, 5, "json"), M(5, 3, 5, "xml")})
Alone == A({T(1, {}, {0}), T(2, {3}, {0}), T(3, {3}, {})},
           {M(1, 1, 6, "db"), M(2, 2, 6, "txt"), M(3, 3, 6, "zip")})
Empty == A({}, {})
\* One the first step was shipped to and the second not.
Half == ApplyV1(A({T(1, {1}, {0})}, {M(1, 1, 5, "xml")}))

SmallOld == {Forked, Alone, Empty, Half}
SmallNews == {M(4, 1, 70, "csv")}

ASSUME ArchivesAssumption == FingerprintTells /\ UpgradedBefore
=============================================================================

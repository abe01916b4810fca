---------------------------- MODULE Conversation ----------------------------
(***************************************************************************)
(* The messages of one conversation as every lens loads them: no reaction  *)
(* and no empty body, ordered by the instant they were sent.  Their ids    *)
(* are row numbers, which imports do not give in time order.               *)
(***************************************************************************)
EXTENDS Naturals, FiniteSets, SequencesExt, Places

CONSTANTS
    Rows,     \* message ids
    At,       \* the instant of each
    Mine      \* those the owner sent: outgoing, and drafts

ASSUME ConversationAssumption ==
    /\ Rows \subseteq Nat /\ Mine \subseteq Rows
    /\ \A r \in Rows : At[r] \in Nat
    /\ \A r, s \in Rows : At[r] = At[s] => r = s

ByTime(ids) ==
    LET instants == InOrder({At[m] : m \in ids})
    IN [i \in 1 .. Cardinality(ids) |-> CHOOSE m \in ids : At[m] = instants[i]]

Earliest(ids) == CHOOSE m \in ids : \A k \in ids : At[m] <= At[k]

Latest(ids) == CHOOSE m \in ids : \A k \in ids : At[k] <= At[m]

=============================================================================

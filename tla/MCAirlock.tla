----------------------------- MODULE MCAirlock -----------------------------
(* Small instances of the airlock for TLC. *)
EXTENDS Airlock

CONSTANTS w1, w2

NoStray == {}

\* What an agent may leave besides the answers it was asked for: a file that
\* names another job, one with a foreign hash, and one that does not parse.
AnyStray == {
    [job |-> 1, hash |-> 1, body |-> "good"],
    [job |-> 2, hash |-> 1, body |-> "good"],
    Torn}
=============================================================================

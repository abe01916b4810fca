------------------------------ MODULE MCClient ------------------------------
(* A small instance: five messages of one conversation, two of one instant,   *)
(* rows not in time order, read two at a time, and one message of another.     *)
EXTENDS Client

SmallThreads == <<1, 1, 1, 1, 1, 2>>
SmallAt == <<2, 1, 3, 3, 5, 2>>

\* The small conversations are such as what is proved of the transcript is about.
ASSUME InstantsAssumption == Uncrowded
=============================================================================

------------------------------- MODULE Intake -------------------------------
(***************************************************************************)
(* The two halves of an import: files of some format become records        *)
(* (Formats), records become contacts, threads and messages (Archive).     *)
(* Between them nothing but the records passes, so each is run by itself,  *)
(* the second from any records the first yields.                           *)
(***************************************************************************)
EXTENDS Archive, Formats

VARIABLE part

intakeVars == <<part, vars, formatVars>>

IntakeInit == part \in {"formats", "archive"} /\ Init /\ FormatsInit

IntakeNext ==
    /\ UNCHANGED part
    /\ \/ part = "archive" /\ Next /\ UNCHANGED formatVars
       \/ part = "formats" /\ FormatsNext /\ UNCHANGED vars

IntakeSpec == IntakeInit /\ [][IntakeNext]_intakeVars
=============================================================================

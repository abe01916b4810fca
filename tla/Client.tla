------------------------------- MODULE Client -------------------------------
(***************************************************************************)
(* The web client against the API: the panels with the transcript they     *)
(* open, questions, readings, and settings.  Each keeps its own state and  *)
(* asks the server on its own; they are looked at one at a time.           *)
(***************************************************************************)
EXTENDS Panels, Asking, Sessions, Tuning

VARIABLE part

clientVars == <<part, panelsVars, askingVars, sessionsVars, tuningVars>>

Init ==
    /\ part \in {"panels", "asking", "sessions", "labels", "engine"}
    /\ PanelsInit /\ AskingInit /\ SessionsInit /\ TuningInit
    /\ part # "panels" => seen
    /\ part # "sessions" => frozen = {} /\ jobs.remain = 0
    /\ part # "engine" => mode = CHOOSE m \in Modes : TRUE

Next ==
    /\ UNCHANGED part
    /\ \/ part = "panels" /\ PanelsNext /\ UNCHANGED <<askingVars, sessionsVars, tuningVars>>
       \/ part = "asking" /\ AskingNext /\ UNCHANGED <<panelsVars, sessionsVars, tuningVars>>
       \/ part = "sessions" /\ SessionsNext /\ UNCHANGED <<panelsVars, askingVars, tuningVars>>
       \/ part = "labels" /\ TuningNext /\ UNCHANGED <<dial, mode, panelsVars, askingVars, sessionsVars>>
       \/ part = "engine" /\ TuningNext /\ UNCHANGED <<pass, kept, panelsVars, askingVars, sessionsVars>>

Spec == Init /\ [][Next]_clientVars
=============================================================================

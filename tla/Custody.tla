------------------------------ MODULE Custody ------------------------------
(***************************************************************************)
(* What happens to the archive as a file: at boot its access list is       *)
(* tightened, then it is opened and brought up to date, then the panel has *)
(* it in its care.  The three come one after the other and share nothing   *)
(* but the folder; each is explored by itself.                             *)
(***************************************************************************)
EXTENDS Migration, AtRest, DataPanel

VARIABLE part

custodyVars == <<part, migrationVars, aclVars, panelVars>>

Init ==
    /\ part \in {"tighten", "open", "panel"}
    /\ MigrationInit /\ AtRestInit /\ PanelInit
    /\ part # "open" => live = CHOOSE a \in Old : TRUE
    /\ part # "tighten" => platform = "posix"

Next ==
    /\ UNCHANGED part
    /\ \/ part = "tighten" /\ AtRestNext /\ UNCHANGED <<migrationVars, panelVars>>
       \/ part = "open" /\ MigrationNext /\ UNCHANGED <<aclVars, panelVars>>
       \/ part = "panel" /\ PanelNext /\ UNCHANGED <<aclVars, migrationVars>>

Spec == Init /\ [][Next]_custodyVars

=============================================================================

--------------------------- MODULE ResultLedger ---------------------------
(***************************************************************************)
(* What the airlock promises its users, without files, engines or steps:   *)
(* a ledger of verdicts, one for each analysis.  A verdict is open until   *)
(* an answer is judged; a failed analysis may be tried again; a refusal or *)
(* a good answer is final, and a good answer's payload never changes.      *)
(* "Same analysis over unchanged data = no new work."                      *)
(***************************************************************************)
CONSTANTS Jobs, Payloads, None

VARIABLES verdict, payload

vars == <<verdict, payload>>

Unsettled == {"open", "failed"}

Init ==
    /\ verdict = [j \in Jobs |-> "open"]
    /\ payload = [j \in Jobs |-> None]

Fail(j) ==
    /\ verdict[j] \in Unsettled
    /\ verdict' = [verdict EXCEPT ![j] = "failed"]
    /\ UNCHANGED payload

Refuse(j) ==
    /\ verdict[j] \in Unsettled
    /\ verdict' = [verdict EXCEPT ![j] = "refused"]
    /\ UNCHANGED payload

Accept(j) ==
    /\ verdict[j] \in Unsettled
    /\ verdict' = [verdict EXCEPT ![j] = "good"]
    /\ \E p \in Payloads : payload' = [payload EXCEPT ![j] = p]

Next == \E j \in Jobs : Fail(j) \/ Refuse(j) \/ Accept(j)

Spec == Init /\ [][Next]_vars
=============================================================================

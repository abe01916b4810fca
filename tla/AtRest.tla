------------------------------- MODULE AtRest -------------------------------
(***************************************************************************)
(* The access lists of the sensitive paths, tightened at boot, and the     *)
(* retention of what was drained.                                          *)
(*                                                                         *)
(* A path is readable for its owner through an entry of its own or through *)
(* inherited ones.  Tightening is two commands of the system, each of      *)
(* which may fail; then access is tried, and taken back to what it was if  *)
(* there is none.  The server may be killed between any two steps.         *)
(***************************************************************************)
EXTENDS Naturals, FiniteSets

CONSTANTS
    Paths,      \* the paths to tighten
    Folders,    \* those that are folders
    MaxFaults   \* bound on commands that fail and kills

ASSUME PathAssumption == Folders \subseteq Paths /\ Paths # {}
ASSUME FaultAssumption == MaxFaults \in Nat

VARIABLES
    platform,  \* "win32" or "posix"
    acl,       \* the entries of each path, and what the files in a folder inherit of it
    step,      \* how far the boot is with the path it works on
    todo,      \* the paths it has not come to
    target,      \* the path it works on
    reported,  \* what the boot says of each path
    faults

aclVars == <<platform, acl, step, todo, target, reported, faults>>

\* own: the owner has an entry; inherits: the path has what it inherited;
\* passes: the owner's entry is passed on to the files in the folder.
Entries == [own : BOOLEAN, inherits : BOOLEAN, passes : BOOLEAN]
Untouched == [own |-> FALSE, inherits |-> TRUE, passes |-> FALSE]

AtRestTypeOK ==
    /\ platform \in {"win32", "posix"}
    /\ acl \in [Paths -> Entries]
    /\ step \in {"next", "grant", "drop", "verify", "caught", "rollback", "done"}
    /\ todo \subseteq Paths
    /\ target \in Paths
    /\ reported \in [Paths -> {"nothing", "ok", "failed"}]
    /\ faults \in 0 .. MaxFaults

AtRestInit ==
    /\ platform \in {"win32", "posix"}
    /\ acl = [p \in Paths |-> Untouched]
    /\ step = "next"
    /\ todo = Paths
    /\ target = CHOOSE p \in Paths : TRUE
    /\ reported = [p \in Paths |-> "nothing"]
    /\ faults = 0

\* A folder is readable if the files in it are.
OwnerStillHasAccess(p) ==
    IF p \in Folders THEN acl[p].passes \/ acl[p].inherits
    ELSE acl[p].own \/ acl[p].inherits

Report(p, what) == reported' = [reported EXCEPT ![p] = what]

Goto(s) == step' = s /\ UNCHANGED <<platform, todo, target>>

Fault == faults < MaxFaults /\ faults' = faults + 1

-----------------------------------------------------------------------------

\* The next path; a path that does not exist is passed over.
Take(p) ==
    /\ step = "next" /\ p \in todo
    /\ todo' = todo \ {p}
    /\ target' = p
    /\ step' \in {"next", "grant"}
    /\ UNCHANGED <<platform, acl, reported, faults>>

Finish ==
    /\ step = "next" /\ todo = {}
    /\ Goto("done")
    /\ UNCHANGED <<acl, reported, faults>>

\* The owner's entry; a folder's is passed on to what is in it.
OwnerEntry(p) == [acl[p] EXCEPT !.own = TRUE, !.passes = @ \/ p \in Folders]

\* Mutant: the inherited entries go first.
DropFirst(p) ==
    /\ step = "grant" /\ platform = "win32"
    /\ acl' = [acl EXCEPT ![p].inherits = FALSE]
    /\ Goto("drop")
    /\ UNCHANGED <<reported, faults>>

\* The owner is given access while what is inherited still gives it.
Grant(p) ==
    /\ step = "grant" /\ platform = "win32"
    /\ acl' = [acl EXCEPT ![p] = OwnerEntry(p)]
    /\ Goto("drop")
    /\ UNCHANGED <<reported, faults>>

Drop(p) ==
    /\ step = "drop"
    /\ acl' = [acl EXCEPT ![p].inherits = FALSE]
    /\ Goto("verify")
    /\ UNCHANGED <<reported, faults>>

\* A mode is set in one command, for a folder and everything in it.
ChangeMode(p) ==
    /\ step = "grant" /\ platform = "posix"
    /\ acl' = [acl EXCEPT ![p] = [OwnerEntry(p) EXCEPT !.inherits = FALSE]]
    /\ Goto("verify")
    /\ UNCHANGED <<reported, faults>>

\* A command fails: nothing was done, or the list was left empty.
CommandFails(p) ==
    /\ step \in {"grant", "drop"}
    /\ Fault
    /\ acl' \in {acl, [acl EXCEPT ![p] = [own |-> FALSE, inherits |-> FALSE, passes |-> FALSE]]}
    /\ Goto("caught")
    /\ UNCHANGED reported

\* A command succeeds by what it says, and has left the list empty.
CommandHarms(p) ==
    /\ step \in {"grant", "drop"}
    /\ Fault
    /\ acl' = [acl EXCEPT ![p] = [own |-> FALSE, inherits |-> FALSE, passes |-> FALSE]]
    /\ Goto("verify")
    /\ UNCHANGED reported

\* Nobody to give access to.
NoUser(p) ==
    /\ step = "grant" /\ platform = "win32"
    /\ Report(p, "failed")
    /\ Goto("next")
    /\ UNCHANGED <<acl, faults>>

\* It is proved, or undone.
Verify(p) ==
    /\ step = "verify"
    /\ IF OwnerStillHasAccess(p)
       THEN Report(p, "ok") /\ Goto("next")
       ELSE Report(p, "failed") /\ Goto("rollback")
    /\ UNCHANGED <<acl, faults>>

Caught(p) ==
    /\ step = "caught"
    /\ Report(p, "failed")
    /\ IF OwnerStillHasAccess(p) THEN Goto("next") ELSE Goto("rollback")
    /\ UNCHANGED <<acl, faults>>

\* Back to what is inherited, or (posix) to a mode that lets the owner in.
Rollback(p) ==
    /\ step = "rollback"
    /\ acl' = [acl EXCEPT ![p] = IF platform = "win32" THEN Untouched ELSE OwnerEntry(p)]
    /\ Goto("next")
    /\ UNCHANGED <<reported, faults>>

RollbackFails(p) ==
    /\ step = "rollback"
    /\ Fault
    /\ Goto("next")
    /\ UNCHANGED <<acl, reported>>

\* The server ends and is started again.
Reboot ==
    /\ IF step = "done" THEN UNCHANGED faults ELSE Fault
    /\ step' = "next"
    /\ todo' = Paths
    /\ reported' = [p \in Paths |-> "nothing"]
    /\ UNCHANGED <<platform, acl, target>>

AtRestNext ==
    \/ \E p \in Paths : Take(p)
    \/ \/ Grant(target) \/ Drop(target) \/ ChangeMode(target) \/ NoUser(target)
       \/ CommandFails(target) \/ CommandHarms(target)
       \/ Verify(target) \/ Caught(target) \/ Rollback(target) \/ RollbackFails(target)
    \/ Finish \/ Reboot

AtRestSpec == AtRestInit /\ [][AtRestNext]_aclVars

-----------------------------------------------------------------------------

\* Whatever is reported tight lets its owner in, and one failure, of a command,
\* of the way back or a kill between two steps, never locks the owner out of a
\* path the boot is not at work on.
OwnerIsLetIn ==
    \A p \in Paths :
        \/ OwnerStillHasAccess(p)
        \/ reported[p] # "ok" /\ faults > 1
        \/ reported[p] # "ok" /\ p = target /\ step \in {"verify", "caught", "rollback"}

=============================================================================

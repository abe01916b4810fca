------------------------------- MODULE Tuning -------------------------------
(***************************************************************************)
(* web/src/views/Calibrate.tsx and the engine section of                     *)
(* components/Settings.tsx: labels are given one by one, read back as         *)
(* thresholds and confirmed; and the engine is chosen at once on screen and    *)
(* written when the choice has rested.                                        *)
(***************************************************************************)
EXTENDS Integers, FiniteSets

CONSTANTS
    Sample,      \* how many messages are drawn
    Labels,      \* what each may be labelled
    Modes,       \* engines
    Unset

ASSUME TuningAssumption ==
    Sample \in Nat \ {0} /\ Unset \notin Labels \cup Modes

VARIABLES
    pass,        \* Calibrate: the pass over the sample
    kept,        \* the labels the saved calibration was computed from
    dial,        \* Settings: the engine shown, wanted, and what is on its way
    mode         \* the engine the server keeps

tuningVars == <<pass, kept, dial, mode>>

-----------------------------------------------------------------------------
(* The labels                                                                  *)

NoMarks == [i \in 1 .. Sample |-> Unset]

PassInit ==
    /\ pass = [phase |-> "intro", at |-> 1, marks |-> NoMarks, review |-> Unset, restating |-> FALSE,
               missed |-> FALSE, saving |-> Unset, result |-> Unset]
    /\ kept = Unset

\* The sample comes: the pass starts anew.
Begin ==
    /\ pass.phase = "intro"
    /\ pass' = [pass EXCEPT !.phase = "labeling", !.at = 1, !.marks = NoMarks, !.review = Unset, !.result = Unset]
    /\ UNCHANGED kept

\* The effect of a change of the labels or of the phase: the proposal of the
\* labels as they now are is asked for, and what was asked before is given up.
Restated(p) == IF p.phase = "review" THEN [p EXCEPT !.restating = TRUE] ELSE p

\* The last label proposes.
Mark(label) ==
    /\ pass.phase = "labeling"
    /\ LET p == [pass EXCEPT !.marks[pass.at] = label]
       IN pass' = IF pass.at = Sample THEN Restated([p EXCEPT !.phase = "review"]) ELSE [p EXCEPT !.at = @ + 1]
    /\ UNCHANGED kept

Back ==
    /\ pass.phase = "labeling" /\ pass.at > 1 /\ pass' = [pass EXCEPT !.at = @ - 1]
    /\ UNCHANGED kept

RelabelOnly(i, label) ==
    /\ pass.phase = "review" /\ pass.review # Unset
    /\ pass' = [pass EXCEPT !.marks[i] = label]
    /\ UNCHANGED kept

\* A label can be changed while a save is on its way, too.
Relabel(i, label) ==
    /\ pass.phase = "review" /\ pass.review # Unset
    /\ pass' = Restated([pass EXCEPT !.marks[i] = label])
    /\ UNCHANGED kept

ReadBack ==
    /\ pass.phase = "review" /\ pass.restating
    /\ pass' = [pass EXCEPT !.review = pass.marks, !.restating = FALSE, !.missed = FALSE]
    /\ UNCHANGED kept

\* With a proposal on screen, it is kept, and may be confirmed; missed remembers
\* it for the properties.
ReadBackFails ==
    /\ pass.phase = "review" /\ pass.restating
    /\ pass' = [pass EXCEPT !.restating = FALSE, !.missed = pass.review # Unset]
    /\ UNCHANGED kept

\* Every label is kept.
Reconsider ==
    /\ pass.phase = "review" /\ pass.review # Unset /\ pass.saving = Unset
    /\ pass' = [pass EXCEPT !.phase = "labeling", !.at = 1]
    /\ UNCHANGED kept

CanConfirm == pass.phase = "review" /\ pass.review # Unset /\ ~pass.restating /\ pass.saving = Unset

Confirm ==
    /\ CanConfirm
    /\ pass' = [pass EXCEPT !.saving = [marks |-> pass.marks, shown |-> pass.review, missed |-> pass.missed]]
    /\ UNCHANGED kept

\* The server computes the thresholds anew from the labels it is sent.
Saves ==
    /\ pass.saving # Unset
    /\ kept' = pass.saving
    /\ pass' \in {[pass EXCEPT !.saving = Unset, !.phase = "done", !.result = pass.saving.marks],
                  [pass EXCEPT !.saving = Unset]}

SavesNot == pass.saving # Unset /\ pass' = [pass EXCEPT !.saving = Unset] /\ UNCHANGED kept

Redo == pass.phase = "done" /\ pass' = [pass EXCEPT !.phase = "intro"] /\ UNCHANGED kept

PassNext ==
    \/ Begin \/ Back \/ ReadBack \/ ReadBackFails \/ Reconsider \/ Confirm \/ Saves \/ SavesNot \/ Redo
    \/ \E label \in Labels : Mark(label) \/ \E i \in 1 .. Sample : Relabel(i, label)

-----------------------------------------------------------------------------
(* The engine                                                                  *)

Closed == [open |-> FALSE, reading |-> FALSE, shown |-> Unset, want |-> Unset, timer |-> FALSE,
           saving |-> Unset, failed |-> FALSE, early |-> FALSE]

DialInit == dial = Closed /\ mode \in Modes

OpenDial == ~dial.open /\ dial' = [Closed EXCEPT !.open = TRUE, !.reading = TRUE] /\ UNCHANGED mode

\* A choice that has not rested goes with the panel; a write that was sent may
\* still be done.
CloseDial ==
    /\ dial.open /\ dial' = Closed
    /\ mode' \in {mode} \cup (IF dial.saving = Unset THEN {} ELSE {dial.saving})

\* After an early choice it is what the server kept at any time since it was asked.
ModeRead ==
    /\ dial.reading
    /\ \E m \in Modes :
          /\ dial.early \/ m = mode
          /\ dial' = [dial EXCEPT !.reading = FALSE, !.shown = m, !.want = m]
    /\ UNCHANGED mode

ModeReadNot == dial.reading /\ dial' = [dial EXCEPT !.reading = FALSE, !.failed = TRUE] /\ UNCHANGED mode

\* Optimistic, and the timer starts anew.  Nothing awaits the reading of the mode;
\* early remembers a choice before it for the properties.
Choose(m) ==
    /\ dial.open /\ m # dial.shown
    /\ dial' = [dial EXCEPT !.shown = m, !.want = m, !.failed = FALSE, !.timer = TRUE,
                           !.early = @ \/ dial.reading]
    /\ UNCHANGED mode

\* The choice has rested: the write before it is given up, which the server may
\* have done.  (That it gets to it only after the next one is left out.)
Rested ==
    /\ dial.timer
    /\ dial' = [dial EXCEPT !.timer = FALSE, !.saving = dial.want]
    /\ mode' \in {mode} \cup (IF dial.saving = Unset THEN {} ELSE {dial.saving})

\* An answer that is no longer what is wanted is ignored.
Written ==
    /\ dial.saving # Unset /\ mode' = dial.saving
    /\ dial' = [dial EXCEPT !.saving = Unset, !.shown = IF dial.want = dial.saving THEN dial.saving ELSE @]

WrittenNot ==
    /\ dial.saving # Unset /\ mode' \in {mode, dial.saving}
    /\ dial' = [dial EXCEPT !.saving = Unset, !.failed = TRUE]

DialNext ==
    \/ OpenDial \/ CloseDial \/ ModeRead \/ ModeReadNot \/ Rested \/ Written \/ WrittenNot
    \/ \E m \in Modes : Choose(m)

-----------------------------------------------------------------------------
TuningInit == PassInit /\ DialInit

TuningNext ==
    \/ PassNext /\ UNCHANGED <<dial, mode>>
    \/ DialNext /\ UNCHANGED <<pass, kept>>

\* Calibrate.tsx:88, "a number about their own words changing between what they
\* were shown and what was written" is what the review is there to stop: what is
\* kept was computed from the labels whose proposal was on screen, all of them
\* given, unless the read-back of the last change failed; and the engine on
\* screen, at rest and with no error, is the one kept, unless it was chosen
\* before the mode had been read.
SavedAsShown ==
    /\ kept # Unset => (kept.marks = kept.shown \/ kept.missed) /\ \A i \in 1 .. Sample : kept.marks[i] # Unset
    /\ dial.open /\ ~dial.reading /\ ~dial.timer /\ dial.saving = Unset /\ ~dial.failed /\ ~dial.early =>
          dial.shown = mode
=============================================================================

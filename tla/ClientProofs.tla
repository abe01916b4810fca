---------------------------- MODULE ClientProofs ----------------------------
(***************************************************************************)
(* Proofs about the web client: questions, readings and settings, for any  *)
(* words, rooms, readings, labels and engines.  Each part has an inductive *)
(* invariant of its own; a step of another part leaves it alone, so the     *)
(* invariants hold of the composed client.                                 *)
(***************************************************************************)
EXTENDS Client, Counting

-----------------------------------------------------------------------------
(* Questions (SearchPanel.tsx, Ask.tsx)                                        *)

Words == Queries \cup Short
Places == Rooms \cup {NoQuestion}
Questions == [words : Words, room : Places]
Asks == [words : Words, narrow : Narrowings]

SearchType ==
    [open : BOOLEAN, query : Words, debounced : Words, scope : {"all", "thread"}, room : Places,
     asking : Questions \cup {NoQuestion}, results : Questions \cup {NoQuestion}, failed : BOOLEAN]

FormType ==
    [query : Words, narrow : Narrowings, submitted : Asks \cup {NoQuestion},
     asking : Asks \cup {NoQuestion}, plan : Asks \cup {NoQuestion}, failed : BOOLEAN]

\* What is on its way is the question of the panel as it stands.
AskedIsCurrent(s) ==
    s.asking # NoQuestion => s.open /\ s.debounced \notin Short /\ s.asking = Question(s)

\* What came is the answer to the words that rested.
AnsweredIsCurrent(s) ==
    s.open /\ s.asking = NoQuestion /\ ~s.failed =>
        s.results = IF s.debounced \in Short THEN NoQuestion ELSE Question(s)

\* While one question of the form is on its way no older plan is on screen.
FormIsCurrent ==
    /\ form.asking # NoQuestion => form.asking = form.submitted /\ form.plan = NoQuestion
    /\ form.plan # NoQuestion => form.plan = form.submitted /\ form.asking = NoQuestion

SearchInv == search \in SearchType /\ AskedIsCurrent(search) /\ AnsweredIsCurrent(search)
AskingInv == SearchInv /\ form \in FormType /\ FormIsCurrent

\* The field starts empty, and what is empty is short.
LEMMA EmptyIsShort == Empty \in Short
BY AskingAssumption DEF Empty

\* A question is never taken for none.
LEMMA QuestionIsOne ==
    ASSUME NEW s \in SearchType
    PROVE  Question(s) \in Questions /\ Question(s) # NoQuestion
BY AskingAssumption DEF Question, Questions, SearchType, Words, Places

\* The effect that asks anew leaves the panel right whatever was changed before it.
LEMMA AskedIsRight ==
    ASSUME NEW s \in SearchType
    PROVE  Asked(s) \in SearchType /\ AskedIsCurrent(Asked(s)) /\ AnsweredIsCurrent(Asked(s))
<1>1. CASE ~s.open
  BY <1>1 DEF Asked, AskedIsCurrent, AnsweredIsCurrent, SearchType
<1>2. CASE s.open /\ s.debounced \in Short
  BY <1>2 DEF Asked, AskedIsCurrent, AnsweredIsCurrent, SearchType
<1>3. CASE s.open /\ s.debounced \notin Short
  <2>1. Asked(s) = [s EXCEPT !.asking = Question(s), !.failed = FALSE]
    BY <1>3 DEF Asked
  <2>2. Question(Asked(s)) = Question(s)
    BY <2>1 DEF Question, SearchType
  <2> QED
    BY <1>3, <2>1, <2>2, QuestionIsOne DEF AskedIsCurrent, AnsweredIsCurrent, SearchType
<1> QED BY <1>1, <1>2, <1>3

\* Every step of the panel leaves what is asked and what came in step with it.
LEMMA SearchStep ==
    ASSUME SearchInv, SearchNext
    PROVE  SearchInv'
<1> USE DEF SearchInv
<1>1. CASE OpenSearch
  <2>1. [search EXCEPT !.open = TRUE, !.scope = DefaultScope(search)] \in SearchType
    BY DEF SearchType, DefaultScope
  <2> QED BY <1>1, <2>1, AskedIsRight DEF OpenSearch
<1>2. CASE CloseSearch
  <2>1. [search EXCEPT !.open = FALSE, !.query = Empty, !.results = NoQuestion, !.failed = FALSE] \in SearchType
    BY EmptyIsShort DEF SearchType, Words
  <2> QED BY <1>2, <2>1, AskedIsRight DEF CloseSearch
<1>3. CASE Rests
  <2>1. [search EXCEPT !.debounced = search.query] \in SearchType
    BY DEF SearchType
  <2> QED BY <1>3, <2>1, AskedIsRight DEF Rests
<1>4. CASE SearchAnswers
  BY <1>4 DEF SearchAnswers, SearchType, AskedIsCurrent, AnsweredIsCurrent, Question
<1>5. CASE SearchFails
  BY <1>5 DEF SearchFails, SearchType, AskedIsCurrent, AnsweredIsCurrent
<1>6. ASSUME NEW w \in Queries \cup Short, Type(w) PROVE SearchInv'
  BY <1>6 DEF Type, SearchType, Words, AskedIsCurrent, AnsweredIsCurrent, Question
<1>7. ASSUME NEW scope \in {"all", "thread"}, SetScope(scope) PROVE SearchInv'
  <2>1. [search EXCEPT !.scope = scope] \in SearchType
    BY DEF SearchType
  <2> QED BY <1>7, <2>1, AskedIsRight DEF SetScope
<1>8. ASSUME NEW r \in Rooms, OpensHit(r) PROVE SearchInv'
  BY <1>8, EmptyIsShort DEF OpensHit, SearchType, Words, Places, AskedIsCurrent, AnsweredIsCurrent
<1>9. ASSUME NEW r \in Rooms, Selects(r) PROVE SearchInv'
  BY <1>9 DEF Selects, SearchType, Places, AskedIsCurrent, AnsweredIsCurrent
<1> QED BY <1>1, <1>2, <1>3, <1>4, <1>5, <1>6, <1>7, <1>8, <1>9 DEF SearchNext

\* So does every step of the form: a new question clears the plan of the last.
LEMMA FormStep ==
    ASSUME form \in FormType, FormIsCurrent, FormNext
    PROVE  (form \in FormType /\ FormIsCurrent)'
<1> USE DEF FormType, FormIsCurrent
<1>1. CASE Fills
  BY <1>1, EmptyIsShort DEF Fills, Words
<1>2. CASE HandleSubmit
  BY <1>2 DEF HandleSubmit, Submitted, Asks
<1>3. CASE AskAnswers
  BY <1>3 DEF AskAnswers
<1>4. CASE AskFails
  BY <1>4 DEF AskFails
<1> QED BY <1>1, <1>2, <1>3, <1>4 DEF FormNext

LEMMA AskingInitInv == AskingInit => AskingInv
BY EmptyIsShort, AskingAssumption
   DEF AskingInit, SearchInit, FormInit, AskingInv, SearchInv, SearchType, FormType, Words, Places,
       AskedIsCurrent, AnsweredIsCurrent, FormIsCurrent

LEMMA AskingStep ==
    ASSUME AskingInv, AskingNext
    PROVE  AskingInv'
<1>1. CASE SearchNext /\ UNCHANGED form
  BY <1>1, SearchStep DEF AskingInv, FormIsCurrent
<1>2. CASE FormNext /\ UNCHANGED search
  <2>1. SearchInv'
    BY <1>2 DEF AskingInv, SearchInv
  <2> QED BY <1>2, <2>1, FormStep DEF AskingInv
<1> QED BY <1>1, <1>2 DEF AskingNext

LEMMA AskingInvShows == AskingInv => AnswersAreOfTheQuestion
BY DEF AskingInv, SearchInv, FormIsCurrent, AnsweredIsCurrent, AnswersAreOfTheQuestion, Question

-----------------------------------------------------------------------------
(* Labels and the engine (Calibrate.tsx, Settings.tsx)                         *)

Marks == [1 .. Sample -> Labels \cup {Unset}]
PassType ==
    [phase : {"intro", "labeling", "review", "done"}, at : 1 .. Sample, marks : Marks,
     review : Marks \cup {Unset}, restating : BOOLEAN, missed : BOOLEAN,
     saving : [marks : Marks, shown : Marks \cup {Unset}, missed : BOOLEAN] \cup {Unset}, result : Marks \cup {Unset}]

Given(marks) == \A i \in 1 .. Sample : marks[i] # Unset

\* Before the last label all up to here are given, and in review all of them.
LabelsGiven ==
    /\ pass.phase = "labeling" => \A i \in 1 .. Sample : i < pass.at => pass.marks[i] # Unset
    /\ pass.phase = "review" => Given(pass.marks)

\* With no proposal on its way the one on screen is of the labels as they are, or
\* that of theirs was missed.
ReviewIsCurrent ==
    pass.phase = "review" /\ pass.review # Unset /\ ~pass.restating => pass.review = pass.marks \/ pass.missed

SavingAsShown ==
    pass.saving # Unset => (pass.saving.marks = pass.saving.shown \/ pass.saving.missed) /\ Given(pass.saving.marks)

KeptAsShown == kept # Unset => (kept.marks = kept.shown \/ kept.missed) /\ Given(kept.marks)

PassInv == pass \in PassType /\ LabelsGiven /\ ReviewIsCurrent /\ SavingAsShown /\ KeptAsShown

LEMMA PassInitInv == PassInit => PassInv
BY TuningAssumption
   DEF PassInit, PassInv, PassType, NoMarks, Marks, LabelsGiven, ReviewIsCurrent, SavingAsShown, KeptAsShown

LEMMA PassStep ==
    ASSUME PassInv, PassNext
    PROVE  PassInv'
<1> USE TuningAssumption DEF PassInv, PassType, LabelsGiven, ReviewIsCurrent, SavingAsShown, KeptAsShown
<1>1. CASE Begin
  <2>1. NoMarks \in Marks
    BY DEF NoMarks, Marks
  <2> HIDE DEF LabelsGiven
  <2>2. pass'.phase = "labeling" /\ pass'.at = 1
    BY <1>1 DEF Begin
  <2>3. LabelsGiven'
    BY <2>2 DEF LabelsGiven
  <2>4. 1 \in 1 .. Sample
    OBVIOUS
  <2>5. pass' \in PassType
    BY <1>1, <2>1, <2>4 DEF Begin
  <2> QED BY <1>1, <2>3, <2>5 DEF Begin
<1>2. CASE Back
  BY <1>2 DEF Back
<1>3. CASE ReadBack
  BY <1>3 DEF ReadBack
<1>4. CASE ReadBackFails
  BY <1>4 DEF ReadBackFails
<1>5. CASE Reconsider
  <2> HIDE DEF LabelsGiven
  <2>1. pass'.phase = "labeling" /\ pass'.at = 1
    BY <1>5 DEF Reconsider
  <2>2. LabelsGiven'
    BY <2>1 DEF LabelsGiven
  <2>3. 1 \in 1 .. Sample
    OBVIOUS
  <2>4. pass' \in PassType
    BY <1>5, <2>3 DEF Reconsider
  <2> QED BY <1>5, <2>2, <2>4 DEF Reconsider
<1>6. CASE Confirm
  BY <1>6 DEF Confirm, CanConfirm
<1>7. CASE Saves
  <2>1. pass.saving.marks \in Marks /\ pass.phase = "review" => Given(pass.marks)
    BY <1>7 DEF Saves
  <2>2. CASE pass' = [pass EXCEPT !.saving = Unset, !.phase = "done", !.result = pass.saving.marks]
    BY <1>7, <2>1, <2>2 DEF Saves, Given
  <2>3. CASE pass' = [pass EXCEPT !.saving = Unset]
    BY <1>7, <2>1, <2>3 DEF Saves, Given
  <2> QED BY <1>7, <2>2, <2>3 DEF Saves
<1>8. CASE SavesNot
  BY <1>8 DEF SavesNot
<1>9. CASE Redo
  BY <1>9 DEF Redo
<1>10. ASSUME NEW label \in Labels, Mark(label) PROVE PassInv'
  <2>1. [pass.marks EXCEPT ![pass.at] = label] \in Marks
    BY DEF Marks
  <2>2. \A i \in 1 .. Sample : i <= pass.at => [pass.marks EXCEPT ![pass.at] = label][i] # Unset
    BY <1>10 DEF Mark, Marks
  <2> DEFINE marked == [pass EXCEPT !.marks[pass.at] = label]
  <2>3. marked \in PassType /\ marked.phase = "labeling" /\ marked.at = pass.at /\ marked.saving = pass.saving
        /\ marked.marks = [pass.marks EXCEPT ![pass.at] = label]
    BY <1>10, <2>1 DEF Mark
  <2> HIDE DEF marked
  <2>4. CASE pass.at = Sample
    <3>1. pass' = [marked EXCEPT !.phase = "review", !.restating = TRUE] /\ kept' = kept
      BY <1>10, <2>3, <2>4 DEF Mark, Restated, marked
    <3>2. Given(marked.marks)
      BY <2>2, <2>3, <2>4 DEF Given
    <3> QED BY <2>3, <3>1, <3>2
  <2>5. CASE pass.at # Sample
    <3>1. pass.at + 1 \in 1 .. Sample
      BY <2>5
    <3>2. pass' = [marked EXCEPT !.at = pass.at + 1] /\ kept' = kept
      BY <1>10, <2>3, <2>5 DEF Mark, marked
    <3>3. pass' \in PassType /\ pass'.phase = "labeling" /\ pass'.at = pass.at + 1 /\ pass'.marks = marked.marks
      BY <2>3, <3>1, <3>2
    <3>4. LabelsGiven'
      BY <2>2, <2>3, <3>3
    <3> HIDE DEF LabelsGiven
    <3> QED BY <2>3, <3>2, <3>3, <3>4
  <2> QED BY <2>4, <2>5
<1>11. ASSUME NEW label \in Labels, NEW i \in 1 .. Sample, Relabel(i, label) PROVE PassInv'
  BY <1>11 DEF Relabel, Restated, Marks, Given
<1> QED BY <1>1, <1>2, <1>3, <1>4, <1>5, <1>6, <1>7, <1>8, <1>9, <1>10, <1>11 DEF PassNext

-----------------------------------------------------------------------------
DialType ==
    [open : BOOLEAN, reading : BOOLEAN, shown : Modes \cup {Unset}, want : Modes \cup {Unset},
     timer : BOOLEAN, saving : Modes \cup {Unset}, failed : BOOLEAN, early : BOOLEAN]

\* Without an early choice nothing is on its way before the mode was read.
ReadFirst == dial.reading /\ ~dial.early => ~dial.timer /\ dial.saving = Unset

\* What rests, or is being written with nothing newer resting, is what is wanted,
\* and what is wanted is what is shown.
WantIsShown ==
    /\ dial.timer => dial.want # Unset
    /\ dial.saving # Unset /\ ~dial.timer /\ ~dial.early => dial.saving = dial.want

ShownIsKept ==
    dial.open /\ ~dial.reading /\ ~dial.timer /\ dial.saving = Unset /\ ~dial.failed /\ ~dial.early => dial.shown = mode

DialInv == dial \in DialType /\ mode \in Modes /\ ReadFirst /\ WantIsShown /\ ShownIsKept

LEMMA DialInitInv == DialInit => DialInv
BY DEF DialInit, Closed, DialInv, DialType, ReadFirst, WantIsShown, ShownIsKept

LEMMA DialStep ==
    ASSUME DialInv, DialNext
    PROVE  DialInv'
<1> USE TuningAssumption DEF DialInv, DialType, ReadFirst, WantIsShown, ShownIsKept
<1>1. CASE OpenDial
  BY <1>1 DEF OpenDial, Closed
<1>2. CASE CloseDial
  BY <1>2 DEF CloseDial, Closed
<1>3. CASE ModeRead
  <2>1. PICK m \in Modes :
           (dial.early \/ m = mode) /\ dial' = [dial EXCEPT !.reading = FALSE, !.shown = m, !.want = m]
    BY <1>3 DEF ModeRead
  <2>2. m # Unset /\ mode' = mode
    BY <1>3 DEF ModeRead
  <2>3. CASE dial.early
    BY <2>1, <2>2, <2>3, <1>3 DEF ModeRead
  <2>4. CASE ~dial.early
    BY <2>1, <2>2, <2>4, <1>3 DEF ModeRead
  <2> QED BY <2>3, <2>4
<1>4. CASE ModeReadNot
  BY <1>4 DEF ModeReadNot
<1>5. CASE Rested
  BY <1>5 DEF Rested
<1>6. CASE Written
  BY <1>6 DEF Written
<1>7. CASE WrittenNot
  BY <1>7 DEF WrittenNot
<1>8. ASSUME NEW m \in Modes, Choose(m) PROVE DialInv'
  BY <1>8 DEF Choose
<1> QED BY <1>1, <1>2, <1>3, <1>4, <1>5, <1>6, <1>7, <1>8 DEF DialNext

TuningInv == PassInv /\ DialInv

LEMMA TuningStep ==
    ASSUME TuningInv, TuningNext
    PROVE  TuningInv'
<1>1. CASE PassNext /\ UNCHANGED <<dial, mode>>
  BY <1>1, PassStep DEF TuningInv, DialInv, ReadFirst, WantIsShown, ShownIsKept
<1>2. CASE DialNext /\ UNCHANGED <<pass, kept>>
  BY <1>2, DialStep DEF TuningInv, PassInv, LabelsGiven, ReviewIsCurrent, SavingAsShown, KeptAsShown, Given
<1> QED BY <1>1, <1>2 DEF TuningNext

LEMMA TuningInvShows == TuningInv => SavedAsShown
BY DEF TuningInv, PassInv, DialInv, KeptAsShown, ShownIsKept, Given, SavedAsShown

-----------------------------------------------------------------------------
(* Readings (Session.tsx, AnalyzePanel.tsx, DrainProgress.tsx)                 *)

\* What was frozen when the list was asked for, or that it was not.
Snapshots == (SUBSET Nat) \cup {NoReading}

LEMMA SnapshotsAre == NoReading \in Snapshots /\ \A readings \in SUBSET Nat : readings \in Snapshots
BY DEF Snapshots

PageType ==
    [list : SUBSET Nat, lists : [1 .. MaxLists -> Snapshots], listing : BOOLEAN,
     crossed : BOOLEAN, listFailed : BOOLEAN, selected : Nat \cup {NoReading},
     reading : Nat \cup {NoReading}, asking : Nat \cup {NoReading}, loading : BOOLEAN, failed : BOOLEAN]

Statuses == [total : Nat, remaining : Nat, upto : SUBSET Nat]
CommitType == [1 .. MaxCommits -> [own : BOOLEAN, status : Statuses \cup {NoReading}] \cup {NoReading}]

SessionsTypeOK ==
    /\ jobs \in [done : Nat, remain : Nat]
    /\ page \in PageType
    /\ commits \in CommitType
    /\ drain \in Statuses \cup {NoReading}

\* Readings are numbered without a gap, so the newest is the one with the greatest number.
Numbered == \E n \in Nat : frozen = 1 .. n

\* What is asked for is what is selected, and so is what came.
AskedIsSelected(p) ==
    /\ p.asking # NoReading => p.asking = p.selected
    /\ p.reading # NoReading /\ p.asking = NoReading /\ ~p.failed => p.reading = p.selected

\* Where nobody opens words while another reading is on its way, they are open only
\* under a reading that nothing is about to replace.
WordsAreOfReading == Unhurried /\ drawer # NoReading => page.asking = NoReading /\ drawer = page.reading

\* A status tells of readings that are there, and they stay there.
ToldIsFrozen ==
    /\ drain # NoReading => drain.upto \subseteq frozen
    /\ \A c \in 1 .. MaxCommits :
          commits[c] # NoReading /\ commits[c].status # NoReading => commits[c].status.upto \subseteq frozen

\* A request for the list on its way will come with what is frozen at least when it
\* was sent; no more was frozen then than is now.
SentIsFrozen(p) == \A l \in 1 .. MaxLists : p.lists[l] # NoReading => p.lists[l] \subseteq frozen

\* Everything of a run that is shown as done is in whatever is on its way, and in
\* the list if it is there.
OfTheRun(p) ==
    drain # NoReading /\ Resolved(drain) /\ ~p.crossed =>
        /\ \A l \in 1 .. MaxLists : p.lists[l] # NoReading => drain.upto \subseteq p.lists[l]
        /\ ~p.listing /\ ~p.listFailed => drain.upto \subseteq p.list

SessionsInv ==
    /\ SessionsTypeOK /\ Numbered /\ AskedIsSelected(page) /\ WordsAreOfReading /\ ToldIsFrozen
    /\ SentIsFrozen(page) /\ OfTheRun(page)

\* Readings are numbers, and what there was of them at any time is numbered too.
LEMMA FrozenAre ==
    ASSUME Numbered
    PROVE  frozen \subseteq Nat /\ \A n \in {0} \cup frozen : n \in Nat /\ 1 .. n \subseteq frozen
BY DEF Numbered

\* The newest of readings numbered without a gap is a reading's number or none.
LEMMA NewestIsOne ==
    ASSUME NEW n \in Nat
    PROVE  1 .. n \subseteq Nat /\ Newest(1 .. n) \in Nat \cup {NoReading}
<1>1. CASE n = 0
  BY <1>1 DEF Newest
<1>2. CASE n # 0
  <2>1. n \in 1 .. n /\ \A y \in 1 .. n : n >= y
    BY <1>2
  <2>2. Max(1 .. n) \in 1 .. n
    BY <2>1 DEF Max
  <2> QED BY <1>2, <2>2 DEF Newest
<1> QED BY <1>1, <1>2

\* One more reading is the next number, and none is lost.
LEMMA OneMore ==
    ASSUME Numbered, frozen' = frozen \cup {Cardinality(frozen) + 1}
    PROVE  Numbered' /\ frozen \subseteq frozen'
<1>1. PICK n \in Nat : frozen = 1 .. n
  BY DEF Numbered
<1>2. Cardinality(frozen) = n
  BY <1>1, FS_Interval
<1>3. frozen' = 1 .. (n + 1)
  BY <1>1, <1>2
<1> QED BY <1>1, <1>3 DEF Numbered

\* Whatever is selected, what is asked for and what is on screen follow it; and
\* when another reading is asked for, the page of the last is off the screen.
LEMMA SelectedIsRight ==
    ASSUME NEW p \in PageType, NEW r \in Nat \cup {NoReading}, AskedIsSelected(p)
    PROVE  /\ Selected(p, r) \in PageType /\ AskedIsSelected(Selected(p, r))
           /\ Selected(p, r).list = p.list /\ Selected(p, r).listing = p.listing
           /\ Selected(p, r).listFailed = p.listFailed
           /\ Selected(p, r).lists = p.lists /\ Selected(p, r).crossed = p.crossed
           /\ OnScreen(Selected(p, r)) /\ p.asking = NoReading => Selected(p, r) = p
BY ZenonT(30) DEF PageType, AskedIsSelected, Selected, OnScreen, Readable

\* After a turn of the page the words that are still open are of the same reading,
\* if the page was at rest before and is the same or off the screen after.
LEMMA TurnKeepsWords ==
    ASSUME WordsAreOfReading, NEW p, Turns(p),
           OnScreen(p) /\ page.asking = NoReading => p.asking = NoReading /\ p.reading = page.reading
    PROVE  page' = p /\ WordsAreOfReading'
BY DEF WordsAreOfReading, Turns

LEMMA SessionsInitInv == SessionsInit => SessionsInv
<1> SUFFICES ASSUME SessionsInit PROVE SessionsInv
  OBVIOUS
<1>1. Numbered /\ frozen \subseteq Nat
  BY SessionsAssumption DEF SessionsInit, Numbered
<1>2. SessionsTypeOK
  <2>1. [l \in 1 .. MaxLists |-> IF l = 1 THEN frozen ELSE NoReading] \in [1 .. MaxLists -> Snapshots]
    BY <1>1, SnapshotsAre
  <2>2. page \in PageType
    BY <2>1 DEF SessionsInit, PageType
  <2> QED BY <2>2 DEF SessionsInit, SessionsTypeOK, CommitType
<1>3. SentIsFrozen(page)
  BY DEF SessionsInit, SentIsFrozen
<1> QED
  BY <1>1, <1>2, <1>3
     DEF SessionsInit, SessionsInv, AskedIsSelected, WordsAreOfReading, ToldIsFrozen, OfTheRun

\* The end of a run takes the reading off the screen and asks for the list anew:
\* what that brings was frozen by then, if nothing older is on its way.
LEMMA RunCompleteStep ==
    ASSUME SessionsInv, OnRunComplete
    PROVE  /\ page' \in PageType /\ AskedIsSelected(page') /\ WordsAreOfReading' /\ SentIsFrozen(page')
           /\ page'.listing
           /\ ~page'.crossed =>
                  \A k \in 1 .. MaxLists : page'.lists[k] # NoReading => page'.lists[k] = frozen
<1> DEFINE q == Selected(page, NoReading)
<1> DEFINE l == CHOOSE k \in FreeSlots : TRUE
<1> DEFINE p == ListAsked(q, l)
<1>1. q \in PageType /\ AskedIsSelected(q) /\ q.lists = page.lists
  BY SelectedIsRight DEF SessionsInv, SessionsTypeOK
<1>2. l \in FreeSlots /\ l \in 1 .. MaxLists
  BY DEF OnRunComplete, FreeSlots
<1>3. Turns(p)
  BY DEF OnRunComplete
<1> HIDE DEF q, l
<1>4. frozen \subseteq Nat
  BY FrozenAre DEF SessionsInv
<1>5. /\ p \in PageType /\ AskedIsSelected(p) /\ p.listing /\ p.lists = [page.lists EXCEPT ![l] = frozen]
      /\ p.crossed <=> FreeSlots # 1 .. MaxLists
  BY <1>1, <1>2, <1>4, SnapshotsAre DEF PageType, AskedIsSelected, ListAsked
<1> HIDE DEF p
<1>6. ~OnScreen(p)
  BY <1>5 DEF OnScreen, Readable
<1>7. page.lists \in [1 .. MaxLists -> Snapshots] /\ SentIsFrozen(page)
  BY DEF SessionsInv, SessionsTypeOK, PageType
<1>8. SentIsFrozen(p)
  BY <1>2, <1>5, <1>7 DEF SentIsFrozen
<1>9. ASSUME ~p.crossed, NEW k \in 1 .. MaxLists, p.lists[k] # NoReading PROVE p.lists[k] = frozen
  <2>1. page.lists[k] = NoReading
    BY <1>5, <1>9 DEF FreeSlots
  <2> QED BY <1>2, <1>5, <1>7, <1>9, <2>1
<1>10. page' = p /\ WordsAreOfReading'
  BY <1>3, <1>6, TurnKeepsWords DEF SessionsInv
<1> QED BY <1>5, <1>8, <1>9, <1>10

\* A status on the screen is taken as it is told; a run that is done has the list
\* asked for again.
LEMMA StatusShown ==
    ASSUME SessionsInv, NEW s \in Statuses, s.upto \subseteq frozen, frozen' = frozen, drain' = s, MaybeComplete(s)
    PROVE  /\ page' \in PageType /\ AskedIsSelected(page') /\ WordsAreOfReading'
           /\ SentIsFrozen(page)' /\ OfTheRun(page)'
<1>1. CASE Resolved(s)
  BY <1>1, RunCompleteStep DEF MaybeComplete, OfTheRun, SentIsFrozen
<1>2. CASE ~Resolved(s)
  BY <1>2 DEF MaybeComplete, OfTheRun, SentIsFrozen, SessionsInv, SessionsTypeOK, WordsAreOfReading,
              AskedIsSelected, Resolved
<1> QED BY <1>1, <1>2

\* What the server tells is of readings that are there.
LEMMA DrainStatusOK ==
    ASSUME SessionsInv
    PROVE  DrainStatus \in Statuses /\ DrainStatus.upto = frozen
BY FrozenAre DEF DrainStatus, Statuses, SessionsInv, SessionsTypeOK

\* A panel that closes makes no run another's.
LEMMA DisownedOK ==
    ASSUME NEW slots \in CommitType
    PROVE  /\ Disowned(slots) \in CommitType
           /\ \A c \in 1 .. MaxCommits :
                 Disowned(slots)[c] # NoReading => slots[c] # NoReading /\ Disowned(slots)[c].status = slots[c].status
BY DEF Disowned, CommitType

\* What a step on the page alone has to keep.
LEMMA PageStep ==
    ASSUME SessionsInv, UNCHANGED <<frozen, jobs, panel, commits, drain>>,
           page' \in PageType, AskedIsSelected(page'), WordsAreOfReading', SentIsFrozen(page'), OfTheRun(page')
    PROVE  SessionsInv'
BY DEF SessionsInv, SessionsTypeOK, Numbered, ToldIsFrozen, SentIsFrozen, OfTheRun

\* What a page has that has the same list, and the same on its way.
SameList(p) ==
    /\ p.list = page.list /\ p.listing = page.listing /\ p.listFailed = page.listFailed
    /\ p.lists = page.lists /\ p.crossed = page.crossed

LEMMA SameListIsRight ==
    ASSUME SessionsInv, NEW p, SameList(p)
    PROVE  SentIsFrozen(p) /\ OfTheRun(p)
BY DEF SameList, SessionsInv, SentIsFrozen, OfTheRun

\* What a step away from the page has to keep.
LEMMA ServerStep ==
    ASSUME SessionsInv, UNCHANGED <<page, drawer, drain>>,
           jobs' \in [done : Nat, remain : Nat],
           commits' \in CommitType,
           Numbered', frozen \subseteq frozen',
           \A c \in 1 .. MaxCommits :
               commits'[c] # NoReading /\ commits'[c].status # NoReading => commits'[c].status.upto \subseteq frozen'
    PROVE  SessionsInv'
BY DEF SessionsInv, SessionsTypeOK, AskedIsSelected, WordsAreOfReading, ToldIsFrozen, SentIsFrozen, OfTheRun

LEMMA ListComesStep ==
    ASSUME SessionsInv, NEW l \in 1 .. MaxLists, ListComes(l)
    PROVE  SessionsInv'
<1>0. [page.lists EXCEPT ![l] = NoReading] \in [1 .. MaxLists -> Snapshots]
  BY SnapshotsAre DEF SessionsInv, SessionsTypeOK, PageType
<1>1. PICK n \in {0} \cup frozen :
         /\ page.lists[l] \subseteq 1 .. n
         /\ Turns(Selected([page EXCEPT !.list = 1 .. n, !.listing = FALSE, !.lists[l] = NoReading], Newest(1 .. n)))
  BY DEF ListComes
<1>2. n \in Nat /\ 1 .. n \subseteq Nat /\ Newest(1 .. n) \in Nat \cup {NoReading}
  BY FrozenAre, NewestIsOne DEF SessionsInv
<1> DEFINE q == [page EXCEPT !.list = 1 .. n, !.listing = FALSE, !.lists[l] = NoReading]
<1> DEFINE p == Selected(q, Newest(1 .. n))
<1>3. /\ q \in PageType /\ AskedIsSelected(q) /\ q.asking = page.asking /\ q.reading = page.reading
      /\ q.list = 1 .. n /\ q.lists = [page.lists EXCEPT ![l] = NoReading] /\ q.crossed = page.crossed
  BY <1>0, <1>2 DEF SessionsInv, SessionsTypeOK, PageType, AskedIsSelected
<1>4. Turns(p) /\ UNCHANGED <<frozen, jobs, panel, commits, drain>> /\ page.lists[l] # NoReading
  BY <1>1 DEF ListComes
<1> HIDE DEF q
<1>5. /\ p \in PageType /\ AskedIsSelected(p)
      /\ p.list = 1 .. n /\ p.lists = [page.lists EXCEPT ![l] = NoReading] /\ p.crossed = page.crossed
      /\ OnScreen(p) /\ q.asking = NoReading => p = q
  BY <1>2, <1>3, SelectedIsRight
<1> HIDE DEF p
<1>6. page' = p /\ WordsAreOfReading'
  BY <1>3, <1>4, <1>5, TurnKeepsWords DEF SessionsInv
<1>7. SentIsFrozen(p) /\ OfTheRun(p)
  BY <1>1, <1>4, <1>5 DEF SessionsInv, SessionsTypeOK, PageType, SentIsFrozen, OfTheRun
<1> QED BY <1>4, <1>5, <1>6, <1>7, PageStep

LEMMA ListFailsStep ==
    ASSUME SessionsInv, NEW l \in 1 .. MaxLists, ListFails(l)
    PROVE  SessionsInv'
<1> DEFINE p == [page EXCEPT !.listing = FALSE, !.listFailed = TRUE, !.lists[l] = NoReading]
<1>0. [page.lists EXCEPT ![l] = NoReading] \in [1 .. MaxLists -> Snapshots]
  BY SnapshotsAre DEF SessionsInv, SessionsTypeOK, PageType
<1>1. /\ p \in PageType /\ AskedIsSelected(p) /\ p.listFailed /\ ~OnScreen(p)
      /\ p.lists = [page.lists EXCEPT ![l] = NoReading] /\ p.crossed = page.crossed
  BY <1>0 DEF SessionsInv, SessionsTypeOK, PageType, AskedIsSelected, OnScreen, Readable
<1>2. Turns(p) /\ UNCHANGED <<frozen, jobs, panel, commits, drain>>
  BY DEF ListFails
<1> HIDE DEF p
<1>3. page' = p /\ WordsAreOfReading'
  BY <1>1, <1>2, TurnKeepsWords DEF SessionsInv
<1>4. SentIsFrozen(p) /\ OfTheRun(p)
  BY <1>1 DEF SessionsInv, SessionsTypeOK, PageType, SentIsFrozen, OfTheRun
<1> QED BY <1>1, <1>2, <1>3, <1>4, PageStep

LEMMA SelectStep ==
    ASSUME SessionsInv, NEW r \in page.list, Select(r)
    PROVE  SessionsInv'
<1> DEFINE p == Selected(page, r)
<1>1. /\ p \in PageType /\ AskedIsSelected(p)
      /\ SameList(p)
      /\ OnScreen(p) /\ page.asking = NoReading => p = page
  <2>1. r \in Nat \cup {NoReading} /\ page \in PageType /\ AskedIsSelected(page)
    BY DEF SessionsInv, SessionsTypeOK, PageType
  <2> QED BY <2>1, SelectedIsRight DEF SameList
<1> HIDE DEF p
<1>2. Turns(p) /\ UNCHANGED <<frozen, jobs, panel, commits, drain>>
  BY DEF Select, p
<1>3. page' = p /\ WordsAreOfReading'
  BY <1>1, <1>2, TurnKeepsWords DEF SessionsInv
<1>4. SentIsFrozen(p) /\ OfTheRun(p)
  BY <1>1, SameListIsRight
<1> QED BY <1>1, <1>2, <1>3, <1>4, PageStep

LEMMA ReadingStep ==
    ASSUME SessionsInv, ReadingComes \/ ReadingFails
    PROVE  SessionsInv'
<1>1. CASE ReadingComes
  <2> DEFINE p == [page EXCEPT !.reading = page.asking, !.asking = NoReading, !.loading = FALSE]
  <2>1. /\ p \in PageType /\ AskedIsSelected(p)
        /\ SameList(p)
    BY <1>1 DEF ReadingComes, SessionsInv, SessionsTypeOK, PageType, AskedIsSelected, SameList
  <2> HIDE DEF p
  <2>2. Turns(p) /\ UNCHANGED <<frozen, jobs, panel, commits, drain>> /\ page.asking # NoReading
    BY <1>1 DEF ReadingComes, p
  <2>3. page' = p /\ WordsAreOfReading'
    BY <2>1, <2>2, TurnKeepsWords DEF SessionsInv
  <2>4. SentIsFrozen(p) /\ OfTheRun(p)
    BY <2>1, SameListIsRight
  <2> QED BY <2>1, <2>2, <2>3, <2>4, PageStep
<1>2. CASE ReadingFails
  <2> DEFINE p == [page EXCEPT !.asking = NoReading, !.loading = FALSE, !.failed = TRUE]
  <2>1. /\ p \in PageType /\ AskedIsSelected(p) /\ ~OnScreen(p)
        /\ SameList(p)
    BY <1>2 DEF ReadingFails, SessionsInv, SessionsTypeOK, PageType, AskedIsSelected, OnScreen, SameList
  <2> HIDE DEF p
  <2>2. Turns(p) /\ UNCHANGED <<frozen, jobs, panel, commits, drain>>
    BY <1>2 DEF ReadingFails, p
  <2>3. page' = p /\ WordsAreOfReading'
    BY <2>1, <2>2, TurnKeepsWords DEF SessionsInv
  <2>4. SentIsFrozen(p) /\ OfTheRun(p)
    BY <2>1, SameListIsRight
  <2> QED BY <2>1, <2>2, <2>3, <2>4, PageStep
<1> QED BY <1>1, <1>2

LEMMA OpenWordsStep ==
    ASSUME SessionsInv, OpenWords
    PROVE  SessionsInv'
<1>1. WordsAreOfReading'
  BY DEF OpenWords, WordsAreOfReading
<1> QED
  BY <1>1, PageStep DEF OpenWords, SessionsInv, SessionsTypeOK

LEMMA PanelStep ==
    ASSUME SessionsInv, OpenPanel \/ Plans \/ ClosePanel
    PROVE  SessionsInv'
<1>1. UNCHANGED <<frozen, jobs, page, drawer, drain>>
  BY DEF OpenPanel, Plans, ClosePanel
<1>2. /\ commits' \in CommitType
      /\ \A d \in 1 .. MaxCommits : commits'[d] # NoReading =>
             commits[d] # NoReading /\ commits'[d].status = commits[d].status
  <2>1. commits' = commits \/ commits' = Disowned(commits)
    BY DEF OpenPanel, Plans, ClosePanel
  <2>2. commits \in CommitType
    BY DEF SessionsInv, SessionsTypeOK
  <2> QED BY <2>1, <2>2, DisownedOK
<1> QED
  BY <1>1, <1>2, ServerStep DEF SessionsInv, SessionsTypeOK, Numbered, ToldIsFrozen

LEMMA CommitStep ==
    ASSUME SessionsInv, NEW c \in 1 .. MaxCommits, Commit(c) \/ BeganNot(c)
    PROVE  SessionsInv'
<1>1. UNCHANGED <<frozen, jobs, page, drawer, drain>>
  BY DEF Commit, BeganNot
<1>2. /\ commits' \in CommitType
      /\ \A d \in 1 .. MaxCommits : commits'[d] # NoReading /\ commits'[d].status # NoReading =>
             commits[d] # NoReading /\ commits'[d].status = commits[d].status
  <2>1. CASE Commit(c)
    <3>1. [own |-> TRUE, status |-> NoReading] \in [own : BOOLEAN, status : Statuses \cup {NoReading}]
      OBVIOUS
    <3> QED BY <2>1, <3>1 DEF Commit, SessionsInv, SessionsTypeOK, CommitType
  <2>2. CASE BeganNot(c)
    BY <2>2 DEF BeganNot, SessionsInv, SessionsTypeOK, CommitType
  <2> QED BY <2>1, <2>2
<1> QED
  BY <1>1, <1>2, ServerStep DEF SessionsInv, SessionsTypeOK, Numbered, ToldIsFrozen

\* A job is made and done or not, and a reading frozen with it or not.
LEMMA RunsStep ==
    ASSUME SessionsInv, NEW c \in 1 .. MaxCommits, Runs(c)
    PROVE  SessionsInv'
<1>1. jobs' \in [done : Nat, remain : Nat]
  BY DEF SessionsInv, SessionsTypeOK, Runs
<1>2. Numbered' /\ frozen \subseteq frozen'
  <2>1. CASE UNCHANGED frozen
    BY <2>1 DEF SessionsInv, Numbered
  <2>2. CASE frozen' = frozen \cup {Cardinality(frozen) + 1}
    BY <2>2, OneMore DEF SessionsInv
  <2> QED BY <2>1, <2>2 DEF Runs
<1>3. DrainStatus' \in Statuses /\ DrainStatus'.upto = frozen'
  <2>1. frozen' \subseteq Nat
    BY <1>2 DEF Numbered
  <2> QED BY <1>1, <2>1 DEF DrainStatus, Statuses
<1>4. /\ commits' = [commits EXCEPT ![c].status = DrainStatus'] /\ commits[c] # NoReading
      /\ UNCHANGED <<page, drawer, drain>>
  BY DEF Runs, Sent
<1> HIDE DEF DrainStatus
<1>5. /\ commits' \in CommitType
      /\ \A d \in 1 .. MaxCommits : commits'[d] # NoReading /\ commits'[d].status # NoReading =>
             commits'[d].status.upto \subseteq frozen'
  BY <1>2, <1>3, <1>4 DEF SessionsInv, SessionsTypeOK, ToldIsFrozen, CommitType
<1> QED BY <1>1, <1>2, <1>4, <1>5, ServerStep

LEMMA BeganStep ==
    ASSUME SessionsInv, NEW c \in 1 .. MaxCommits, Began(c)
    PROVE  SessionsInv'
<1>1. UNCHANGED <<frozen, jobs>> /\ Numbered'
  BY DEF Began, SessionsInv, Numbered
<1>2. commits[c].status \in Statuses /\ commits[c].status.upto \subseteq frozen
  BY DEF Began, Sent, SessionsInv, SessionsTypeOK, ToldIsFrozen, CommitType
<1>3. /\ commits' \in CommitType
      /\ \A d \in 1 .. MaxCommits : commits'[d] # NoReading /\ commits'[d].status # NoReading =>
             commits'[d].status.upto \subseteq frozen'
  <2>1. [commits EXCEPT ![c] = NoReading] \in CommitType
    BY DEF SessionsInv, SessionsTypeOK, CommitType
  <2>2. /\ commits' \in CommitType
        /\ \A d \in 1 .. MaxCommits : commits'[d] # NoReading =>
               /\ [commits EXCEPT ![c] = NoReading][d] # NoReading
               /\ commits'[d].status = [commits EXCEPT ![c] = NoReading][d].status
    BY <2>1, DisownedOK DEF Began
  <2>3. \A d \in 1 .. MaxCommits : [commits EXCEPT ![c] = NoReading][d] # NoReading =>
            [commits EXCEPT ![c] = NoReading][d] = commits[d] /\ commits[d] # NoReading
    BY DEF SessionsInv, SessionsTypeOK
  <2> QED BY <1>1, <2>2, <2>3 DEF SessionsInv, ToldIsFrozen
<1>4. CASE drain = NoReading
  <2>1. drain' = commits[c].status /\ MaybeComplete(commits[c].status)
    BY <1>4 DEF Began, Seeded
  <2>2. /\ page' \in PageType /\ AskedIsSelected(page') /\ WordsAreOfReading'
        /\ SentIsFrozen(page)' /\ OfTheRun(page)'
    BY <1>1, <1>2, <2>1, StatusShown
  <2> QED
    BY <1>1, <1>2, <1>3, <2>1, <2>2 DEF SessionsInv, SessionsTypeOK, ToldIsFrozen, CommitType
<1>5. CASE drain # NoReading
  <2>1. UNCHANGED <<page, drawer, drain>>
    BY <1>5 DEF Began
  <2> QED BY <1>1, <1>3, <2>1, ServerStep DEF SessionsInv, SessionsTypeOK
<1> QED BY <1>4, <1>5

LEMMA CheckStep ==
    ASSUME SessionsInv, Check
    PROVE  SessionsInv'
<1>1. jobs' \in [done : Nat, remain : Nat]
  BY DEF SessionsInv, SessionsTypeOK, Check
<1>2. UNCHANGED <<frozen, commits>> /\ Numbered'
  BY DEF Check, SessionsInv, Numbered
<1>3. drain' = DrainStatus' /\ MaybeComplete(drain')
  BY DEF Check
<1>4. DrainStatus' \in Statuses /\ DrainStatus'.upto = frozen'
  <2>1. frozen' \subseteq Nat
    BY <1>2 DEF Numbered
  <2> QED BY <1>1, <2>1 DEF DrainStatus, Statuses
<1>5. /\ page' \in PageType /\ AskedIsSelected(page') /\ WordsAreOfReading'
      /\ SentIsFrozen(page)' /\ OfTheRun(page)'
  BY <1>2, <1>3, <1>4, StatusShown
<1> QED
  BY <1>1, <1>2, <1>3, <1>4, <1>5 DEF SessionsInv, SessionsTypeOK, ToldIsFrozen

LEMMA DismissStep ==
    ASSUME SessionsInv, Dismiss
    PROVE  SessionsInv'
BY DEF Dismiss, SessionsInv, SessionsTypeOK, Numbered, AskedIsSelected, WordsAreOfReading, ToldIsFrozen, SentIsFrozen, OfTheRun

LEMMA OthersStep ==
    ASSUME SessionsInv, Others
    PROVE  SessionsInv'
<1>1. jobs' \in [done : Nat, remain : Nat] /\ UNCHANGED <<page, drawer, commits, drain>>
  BY DEF SessionsInv, SessionsTypeOK, Others
<1>2. Numbered' /\ frozen \subseteq frozen'
  <2>1. CASE UNCHANGED frozen
    BY <2>1 DEF SessionsInv, Numbered
  <2>2. CASE frozen' = frozen \cup {Cardinality(frozen) + 1}
    BY <2>2, OneMore DEF SessionsInv
  <2> QED BY <2>1, <2>2 DEF Others
<1> QED
  BY <1>1, <1>2, ServerStep DEF SessionsInv, SessionsTypeOK, ToldIsFrozen

LEMMA SessionsStep ==
    ASSUME SessionsInv, SessionsNext
    PROVE  SessionsInv'
BY ListComesStep, ListFailsStep, SelectStep, ReadingStep, OpenWordsStep, PanelStep, CommitStep, RunsStep, BeganStep,
   CheckStep, DismissStep, OthersStep DEF SessionsNext

LEMMA SessionsInvShows == SessionsInv => DoneIsPickedUp /\ (Unhurried => SelectedIsShown)
BY DEF SessionsInv, AskedIsSelected, WordsAreOfReading, OfTheRun, DoneIsPickedUp, SelectedIsShown

-----------------------------------------------------------------------------
(* The transcript (TranscriptReader.tsx, ThreadPanel.tsx, App.tsx)             *)

LEMMA InstantsAre ==
    /\ IsFiniteSet(Messages)
    /\ \A m \in Messages : m \in Nat /\ At[m] \in Nat /\ At[m] # 0
    /\ \A m, k \in Messages : m = k \/ Earlier(m, k) \/ Earlier(k, m)
    /\ \A m, k, x \in Messages : Earlier(m, k) /\ Earlier(k, x) => Earlier(m, x)
    /\ \A m, k \in Messages : ~(Earlier(m, k) /\ Earlier(k, m)) /\ ~Earlier(m, m)
    /\ \A m, k \in Messages : Earlier(m, k) => At[m] <= At[k]
<1>1. IsFiniteSet(Messages) /\ \A m \in Messages : m \in Nat /\ At[m] \in Nat /\ At[m] # 0
  BY TranscriptAssumption
<1> QED BY <1>1 DEF Earlier

\* Any messages can be put in order in one way.
LEMMA SortedIs ==
    ASSUME NEW S \in SUBSET Messages
    PROVE  /\ Cardinality(S) \in Nat
           /\ SortAsc(S) \in [1 .. Cardinality(S) -> S]
           /\ \A i, j \in 1 .. Cardinality(S) : i < j => Earlier(SortAsc(S)[i], SortAsc(S)[j])
           /\ \A m \in S : \E i \in 1 .. Cardinality(S) : SortAsc(S)[i] = m
<1> DEFINE n == Cardinality(S)
           upTo(m) == {k \in S : k = m \/ Earlier(k, m)}
           rank == [m \in S |-> Cardinality(upTo(m))]
           inOrder(s) == \A i, j \in DOMAIN s : i < j => Earlier(s[i], s[j])
<1>1. IsFiniteSet(S) /\ n \in Nat /\ IsFiniteSet(1 .. n) /\ Cardinality(1 .. n) = n
  <2>1. IsFiniteSet(S) /\ n \in Nat
    BY InstantsAre, FS_Subset, FS_CardinalityType
  <2> HIDE DEF n
  <2> QED BY <2>1, FS_Interval
<1>2. ASSUME NEW m \in S PROVE rank[m] \in 1 .. n
  <2>1. upTo(m) \in SUBSET S /\ m \in upTo(m)
    OBVIOUS
  <2> HIDE DEF upTo
  <2>2. IsFiniteSet(upTo(m)) /\ Cardinality(upTo(m)) <= n /\ Cardinality(upTo(m)) \in Nat
    BY <1>1, <2>1, FS_Subset, FS_CardinalityType
  <2>3. Cardinality(upTo(m)) # 0
    BY <2>1, <2>2, FS_EmptySet
  <2> QED BY <1>1, <2>2, <2>3
<1>3. ASSUME NEW m \in S, NEW k \in S, Earlier(m, k) PROVE rank[m] < rank[k]
  <2>1. upTo(m) \in SUBSET upTo(k) /\ k \in upTo(k) /\ k \notin upTo(m)
    BY <1>3, InstantsAre
  <2>2. IsFiniteSet(upTo(k))
    BY <1>1, FS_Subset
  <2> HIDE DEF upTo
  <2>3. Cardinality(upTo(m)) < Cardinality(upTo(k))
    BY <2>1, <2>2, StrictlyFewer
  <2> QED BY <2>3
<1>4. DOMAIN rank = S
  OBVIOUS
<1> HIDE DEF rank
<1>5. \A m, k \in S : rank[m] = rank[k] => m = k
  BY <1>2, <1>3, InstantsAre
<1>6. \A i \in 1 .. n : \E m \in S : rank[m] = i
  <2>1. [m \in S |-> rank[m]] \in Injection(S, 1 .. n)
    BY <1>2, <1>5 DEF Injection, IsInjective
  <2>2. [m \in S |-> rank[m]] \in Surjection(S, 1 .. n)
    BY <1>1, <2>1, FS_Injection
  <2> QED BY <2>2 DEF Surjection
<1>7. \E s \in [1 .. n -> S] : inOrder(s)
  <2> DEFINE s == [i \in 1 .. n |-> CHOOSE m \in S : rank[m] = i]
  <2>1. \A i \in 1 .. n : s[i] \in S /\ rank[s[i]] = i
    BY <1>6
  <2>2. s \in [1 .. n -> S] /\ DOMAIN s = 1 .. n
    BY <2>1
  <2> HIDE DEF s
  <2>3. ASSUME NEW i \in 1 .. n, NEW j \in 1 .. n, i < j PROVE Earlier(s[i], s[j])
    <3>1. s[i] # s[j] /\ ~Earlier(s[j], s[i])
      BY <1>3, <2>1, <2>3
    <3> QED BY <2>1, <3>1, InstantsAre
  <2> QED BY <2>2, <2>3
<1>8. SortAsc(S) \in [1 .. n -> S] /\ inOrder(SortAsc(S))
  BY <1>7 DEF SortAsc
<1>9. \A i, j \in 1 .. n : i < j => Earlier(SortAsc(S)[i], SortAsc(S)[j])
  BY <1>8
<1>10. \A m \in S : \E i \in 1 .. n : SortAsc(S)[i] = m
  <2> DEFINE s == SortAsc(S)
  <2> HIDE DEF s
  <2>1. \A i, j \in 1 .. n : s[i] = s[j] => i = j
    <3> TAKE i, j \in 1 .. n
    <3>1. s[i] \in Messages /\ s[j] \in Messages
      BY <1>8 DEF s
    <3>2. i < j => s[i] # s[j]
      BY <1>9, <3>1, InstantsAre DEF s
    <3>3. j < i => s[i] # s[j]
      BY <1>9, <3>1, InstantsAre DEF s
    <3> QED BY <1>1, <3>2, <3>3
  <2>2. s \in Injection(1 .. n, S)
    BY <1>8, <2>1 DEF Injection, IsInjective, s
  <2>3. s \in Surjection(1 .. n, S)
    BY <1>1, <2>2, FS_Injection
  <2> QED BY <2>3 DEF Surjection, s
<1> QED BY <1>1, <1>8, <1>9, <1>10

OfThread(t) == {m \in Messages : ThreadOf[m] = t}
Before(t, before) == {m \in OfThread(t) : before = Nothing \/ At[m] < before}

\* A page has nothing older than what it leaves out, and leaves nothing out if it
\* is not full.
LEMMA PageIs ==
    ASSUME NEW t, NEW before
    PROVE  /\ Page(t, before) \subseteq Before(t, before)
           /\ \A m \in Page(t, before) : \A k \in Before(t, before) :
                 Earlier(m, k) => k \in Page(t, before)
           /\ ~HasMore(Page(t, before)) => Page(t, before) = Before(t, before)
           /\ \A m \in Before(t, before) :
                 Cardinality({k \in Before(t, before) : Earlier(m, k)}) < PageSize => m \in Page(t, before)
<1> DEFINE all == Before(t, before)
           newer(m) == {k \in all : Earlier(m, k)}
           taken == Page(t, before)
<1>1. taken = {m \in all : Cardinality(newer(m)) < PageSize}
  <2>1. \A m \in all : newer(m) = {k \in all : At[k] > At[m] \/ (At[k] = At[m] /\ k > m)}
    BY InstantsAre DEF Earlier, Before, OfThread
  <2>2. all = {m \in Messages : ThreadOf[m] = t /\ (before = Nothing \/ At[m] < before)}
    BY DEF Before, OfThread
  <2> HIDE DEF all, newer
  <2> QED BY <2>1, <2>2 DEF Page
<1>2. all \in SUBSET Messages /\ IsFiniteSet(all)
  BY InstantsAre, FS_Subset DEF Before, OfThread
<1> HIDE DEF all
<1>3. \A m : IsFiniteSet(newer(m)) /\ Cardinality(newer(m)) \in Nat
  BY <1>2, FS_Subset, FS_CardinalityType
<1> HIDE DEF taken
<1>4. ASSUME NEW m \in taken, NEW k \in all, Earlier(m, k) PROVE k \in taken
  <2>1. newer(k) \in SUBSET newer(m)
    BY <1>1, <1>2, <1>4, InstantsAre
  <2>2. Cardinality(newer(k)) <= Cardinality(newer(m))
    BY <1>3, <2>1, FS_Subset
  <2>3. Cardinality(newer(m)) < PageSize /\ PageSize \in Nat
    BY <1>1, TranscriptAssumption
  <2> HIDE DEF newer
  <2> QED BY <1>1, <1>3, <2>2, <2>3
<1>5. ASSUME ~HasMore(taken) PROVE taken = all
  <2> SUFFICES ASSUME all \ taken # {} PROVE FALSE
    BY <1>1
  <2> DEFINE rest == all \ taken
             n == Cardinality(rest)
             last == SortAsc(rest)[n]
  <2>1. rest \in SUBSET Messages /\ IsFiniteSet(rest)
    BY <1>2, FS_Subset
  <2>2. n \in Nat \ {0}
    BY <2>1, FS_CardinalityType, FS_EmptySet
  <2> HIDE DEF rest, n
  <2>3. last \in rest /\ \A k \in rest : k = last \/ Earlier(k, last)
    <3>1. n \in 1 .. n /\ SortAsc(rest) \in [1 .. n -> rest]
      BY <2>1, <2>2, SortedIs DEF n
    <3>2. ASSUME NEW k \in rest PROVE k = last \/ Earlier(k, last)
      <4>1. PICK i \in 1 .. n : SortAsc(rest)[i] = k
        BY <2>1, SortedIs DEF n
      <4>2. i = n \/ i < n
        BY <2>2
      <4> QED BY <2>1, <3>1, <4>1, <4>2, SortedIs DEF n
    <3> QED BY <3>1, <3>2
  <2> HIDE DEF last
  <2>4. newer(last) \in SUBSET taken
    BY <1>2, <2>1, <2>3, InstantsAre DEF rest
  <2>5. IsFiniteSet(taken)
    BY <1>1, <1>2, FS_Subset
  <2>6. Cardinality(newer(last)) <= Cardinality(taken) /\ Cardinality(taken) \in Nat
    BY <2>4, <2>5, FS_Subset, FS_CardinalityType
  <2>7. ~(Cardinality(newer(last)) < PageSize) /\ PageSize \in Nat
    BY <1>1, <2>3, TranscriptAssumption DEF rest
  <2> HIDE DEF newer
  <2> QED BY <1>3, <1>5, <2>6, <2>7 DEF HasMore
<1> QED BY <1>1, <1>4, <1>5 DEF taken, all

\* What is on screen of conversation t, while an older page may be on its way for
\* the instant at the top.
NoHole(t) ==
    \A m \in OfThread(t) :
        At[list[1]] <= At[m] /\ At[m] <= At[list[Len(list)]] => \E k \in Shown : At[k] = At[m]

Reaches(t) ==
    IF anchor = Nothing THEN \A m \in OfThread(t) : At[m] <= At[list[Len(list)]] ELSE anchor.id \in Shown

TranscriptInv(t) ==
    /\ list \in Seq(OfThread(t))
    /\ \A i, j \in 1 .. Len(list) : i < j => Earlier(list[i], list[j])
    /\ list # <<>> => NoHole(t) /\ Reaches(t) /\ (~more => \A m \in OfThread(t) : At[list[1]] <= At[m])
    /\ opening => list = <<>> /\ older = Nothing
    /\ older # Nothing => list # <<>> /\ older = At[list[1]]

\* A message that something points at is of this conversation; the shelf does not
\* know its instant.
Fits(a, t) ==
    a # Nothing => /\ a \in [id : OfThread(t), at : Nat]
                   /\ a.at \in {0, At[a.id]}

LEMMA InvIsWhole ==
    ASSUME NEW t, TranscriptInv(t)
    PROVE  Whole(t)
<1> DEFINE all == {m \in Messages : ThreadOf[m] = t}
           first == At[Head(list)]
           last == At[list[Len(list)]]
<1>1. all = OfThread(t) /\ list \in Seq(all) /\ Len(list) \in Nat /\ DOMAIN list = 1 .. Len(list)
  BY DEF TranscriptInv, OfThread
<1>2. Shown = {list[i] : i \in 1 .. Len(list)} /\ Shown \subseteq all
  BY <1>1 DEF Shown, ToSet
<1>3. \A i, j \in DOMAIN list : i < j => Earlier(list[i], list[j])
  BY <1>1 DEF TranscriptInv
<1>4. ASSUME list # <<>>
      PROVE  /\ {s \in Instants(all) : first <= s /\ s <= last} = Instants(Shown)
             /\ SaysBeginning => \A s \in Instants(all) : first <= s
             /\ IF anchor = Nothing THEN \A s \in Instants(all) : s <= last ELSE anchor.id \in Shown
  <2>1. Len(list) \in Nat \ {0} /\ Head(list) = list[1] /\ first = At[list[1]]
    BY <1>1, <1>4
  <2>2. \A k \in Shown : first <= At[k] /\ At[k] <= last
    <3> SUFFICES ASSUME NEW i \in 1 .. Len(list) PROVE first <= At[list[i]] /\ At[list[i]] <= last
      BY <1>2
    <3>1. 1 \in 1 .. Len(list) /\ Len(list) \in 1 .. Len(list)
      BY <2>1
    <3>2. list[i] \in Messages /\ list[1] \in Messages /\ list[Len(list)] \in Messages
      BY <1>2, <3>1
    <3>3. i = 1 \/ 1 < i
      OBVIOUS
    <3>4. i = Len(list) \/ i < Len(list)
      BY <2>1
    <3>5. first <= At[list[i]]
      BY <1>1, <1>3, <2>1, <3>1, <3>2, <3>3, InstantsAre
    <3>6. At[list[i]] <= last
      <4>1. CASE i = Len(list)
        BY <3>2, <4>1, InstantsAre
      <4>2. CASE i < Len(list)
        <5>1. Earlier(list[i], list[Len(list)])
          BY <1>1, <1>3, <3>1, <4>2
        <5> QED BY <3>2, <5>1, InstantsAre
      <4> QED BY <3>4, <4>1, <4>2
    <3> QED BY <3>5, <3>6
  <2>3. {s \in Instants(all) : first <= s /\ s <= last} = Instants(Shown)
    <3>1. NoHole(t)
      BY <1>4 DEF TranscriptInv
    <3>2. \A m \in all : first <= At[m] /\ At[m] <= last => \E k \in Shown : At[k] = At[m]
      BY <1>1, <2>1, <3>1 DEF NoHole
    <3> HIDE DEF all, first, last
    <3> QED BY <1>2, <2>2, <3>2 DEF Instants
  <2>4. SaysBeginning => \A s \in Instants(all) : first <= s
    BY <1>1, <1>4, <2>1 DEF TranscriptInv, SaysBeginning, Instants
  <2>5. IF anchor = Nothing THEN \A s \in Instants(all) : s <= last ELSE anchor.id \in Shown
    BY <1>1, <1>4 DEF TranscriptInv, Reaches, Instants
  <2> QED BY <2>3, <2>4, <2>5
<1> QED BY <1>2, <1>3, <1>4 DEF Whole

\* The first page, put on an empty screen.
LEMMA OpensStep ==
    ASSUME Uncrowded, NEW t, TranscriptInv(t), Fits(anchor, t), Opens(t)
    PROVE  TranscriptInv(t)' /\ UNCHANGED anchor
<1> DEFINE before == IF anchor = Nothing THEN Nothing ELSE anchor.at + 1
           taken == Page(t, before)
           n == Cardinality(taken)
<1>1. /\ list' = SortAsc(taken) /\ more' = HasMore(taken) /\ opening' = FALSE
      /\ UNCHANGED <<anchor, older, lost>> /\ older = Nothing
  BY DEF Opens, TranscriptInv
<1>2. /\ taken \subseteq Before(t, before) /\ Before(t, before) \subseteq OfThread(t)
      /\ OfThread(t) \subseteq Messages
  BY PageIs DEF Before, OfThread
<1>3. anchor # Nothing => before \in Nat /\ before = anchor.at + 1 /\ before # Nothing
  BY TranscriptAssumption DEF Fits
<1>4. anchor = Nothing => Before(t, before) = OfThread(t)
  BY DEF Before
<1>5. anchor # Nothing => Before(t, before) = {m \in OfThread(t) : At[m] < anchor.at + 1}
  BY <1>3 DEF Before
<1> HIDE DEF before
<1>6. /\ \A m \in taken : \A k \in Before(t, before) : Earlier(m, k) => k \in taken
      /\ ~HasMore(taken) => taken = Before(t, before)
      /\ \A m \in Before(t, before) :
            Cardinality({k \in Before(t, before) : Earlier(m, k)}) < PageSize => m \in taken
  BY PageIs
<1>7. taken \in SUBSET Messages
  BY <1>2
<1> HIDE DEF taken
<1>8. /\ n \in Nat /\ list' \in [1 .. n -> taken]
      /\ \A i, j \in 1 .. n : i < j => Earlier(list'[i], list'[j])
      /\ \A m \in taken : \E i \in 1 .. n : list'[i] = m
  BY <1>1, <1>7, SortedIs
<1> HIDE DEF n
<1>9. list' \in Seq(OfThread(t)) /\ Len(list') = n /\ ToSet(list') = taken
  <2>1. list' \in Seq(OfThread(t)) /\ Len(list') = n
    BY <1>2, <1>8
  <2> QED BY <1>8, <2>1 DEF ToSet
<1>10. ASSUME list' # <<>>
       PROVE  NoHole(t)' /\ Reaches(t)' /\ (~more' => \A m \in OfThread(t) : At[list'[1]] <= At[m])
  <2> DEFINE first == list'[1]
             last == list'[n]
  <2>1. n \in Nat \ {0} /\ 1 \in 1 .. n /\ n \in 1 .. n
    BY <1>8, <1>9, <1>10
  <2>2. first \in taken /\ last \in taken /\ first \in Messages /\ last \in Messages
    BY <1>7, <1>8, <2>1
  <2>3. \A m \in taken : (m = first \/ Earlier(first, m)) /\ (m = last \/ Earlier(m, last))
    <3> TAKE m \in taken
    <3>1. PICK i \in 1 .. n : list'[i] = m
      BY <1>8
    <3>2. (i = 1 \/ 1 < i) /\ (i = n \/ i < n)
      BY <2>1
    <3> QED BY <1>8, <2>1, <3>1, <3>2
  <2> HIDE DEF first, last
  <2>4. \A m \in Before(t, before) : At[m] >= At[first] => \E k \in taken : At[k] = At[m]
    <3> TAKE m \in Before(t, before)
    <3> HAVE At[m] >= At[first]
    <3>1. m \in Messages
      BY <1>2
    <3>2. CASE At[m] = At[first]
      BY <2>2, <3>2
    <3>3. CASE At[m] > At[first]
      BY <1>6, <2>2, <3>1, <3>3 DEF Earlier
    <3> QED BY <2>2, <3>1, <3>2, <3>3, InstantsAre
  <2>5. \A m \in OfThread(t) : At[m] <= At[last] => m \in Before(t, before)
    <3>1. CASE anchor = Nothing
      BY <1>4, <3>1
    <3>2. CASE anchor # Nothing
      <4>1. At[last] < anchor.at + 1 /\ anchor.at \in Nat
        BY <1>2, <1>5, <2>2, <3>2 DEF Fits
      <4> QED BY <1>2, <1>5, <2>2, <3>2, <4>1, InstantsAre
    <3> QED BY <3>1, <3>2
  <2>6. NoHole(t)'
    <3>1. \A m \in OfThread(t) : At[first] <= At[m] /\ At[m] <= At[last] => \E k \in taken : At[k] = At[m]
      BY <1>2, <2>2, <2>4, <2>5, InstantsAre
    <3> QED BY <1>9, <3>1 DEF NoHole, OfThread, Shown, first, last
  <2>7. Reaches(t)'
    <3>1. ASSUME anchor = Nothing PROVE \A m \in OfThread(t) : At[m] <= At[last]
      <4> TAKE m \in OfThread(t)
      <4>1. m = last \/ Earlier(m, last) \/ Earlier(last, m)
        BY <1>2, <2>2, InstantsAre
      <4>2. Earlier(last, m) => m \in taken
        BY <1>4, <1>6, <2>2, <3>1
      <4>3. m = last \/ Earlier(m, last)
        BY <2>3, <4>1, <4>2
      <4> QED BY <1>2, <2>2, <4>3, InstantsAre
    <3>2. ASSUME anchor # Nothing PROVE anchor.id \in taken
      <4> DEFINE a == anchor.id
      <4>1. a \in OfThread(t) /\ a \in Messages /\ anchor.at \in {0, At[a]}
        BY <1>2, <3>2 DEF Fits
      <4>2. anchor.at # 0
        BY <1>2, <1>5, <2>2, <3>2, InstantsAre
      <4>3. anchor.at = At[a] /\ a \in Before(t, before)
        BY <1>5, <3>2, <4>1, <4>2, InstantsAre
      <4> DEFINE newer == {k \in Before(t, before) : Earlier(a, k)}
                 crowd == {k \in Messages : ThreadOf[k] = ThreadOf[a] /\ At[k] = At[a] /\ k > a}
      <4> HIDE DEF a
      <4>4. newer \subseteq crowd
        <5> SUFFICES ASSUME NEW k \in Before(t, before), Earlier(a, k)
                     PROVE  k \in Messages /\ ThreadOf[k] = ThreadOf[a] /\ At[k] = At[a] /\ k > a
          OBVIOUS
        <5>1. k \in Messages /\ k \in OfThread(t)
          BY <1>2
        <5>2. At[k] < At[a] + 1 /\ At[k] \in Nat /\ At[a] \in Nat /\ k \in Nat /\ a \in Nat
          BY <1>5, <3>2, <4>1, <4>3, <5>1, InstantsAre
        <5>3. At[a] < At[k] \/ (At[a] = At[k] /\ a < k)
          BY DEF Earlier
        <5> QED BY <4>1, <5>1, <5>2, <5>3 DEF OfThread
      <4>5. IsFiniteSet(crowd) /\ Cardinality(crowd) < PageSize
        BY <4>1, InstantsAre, FS_Subset DEF Uncrowded
      <4> HIDE DEF newer, crowd
      <4>6. Cardinality(newer) <= Cardinality(crowd) /\ Cardinality(newer) \in Nat /\ Cardinality(crowd) \in Nat
        BY <4>4, <4>5, FS_Subset, FS_CardinalityType
      <4>7. Cardinality(newer) < PageSize
        BY <4>5, <4>6, TranscriptAssumption
      <4> QED BY <1>6, <4>3, <4>7 DEF newer, a
    <3> QED BY <1>1, <1>9, <3>1, <3>2 DEF Reaches, OfThread, Shown, last
  <2>8. ASSUME ~more' PROVE \A m \in OfThread(t) : At[first] <= At[m]
    <3>1. taken = Before(t, before)
      BY <1>1, <1>6, <2>8
    <3> TAKE m \in OfThread(t)
    <3>2. CASE m \in taken
      BY <1>7, <2>2, <2>3, <3>2, InstantsAre
    <3>3. CASE m \notin taken
      <4>1. m \in Messages /\ ~(At[m] <= At[last])
        BY <1>2, <2>5, <3>1, <3>3
      <4>2. At[first] <= At[last]
        BY <2>2, <2>3, InstantsAre
      <4> QED BY <2>2, <4>1, <4>2, InstantsAre
    <3> QED BY <3>2, <3>3
  <2> QED BY <2>6, <2>7, <2>8 DEF first
<1> QED BY <1>1, <1>8, <1>9, <1>10 DEF TranscriptInv, OfThread

\* What a sequence put before another holds.
Joins(S, a, b) ==
    /\ a \o b \in Seq(S) /\ Len(a \o b) = Len(a) + Len(b)
    /\ \A i \in 1 .. Len(a) : (a \o b)[i] = a[i]
    /\ \A i \in 1 .. Len(b) : (a \o b)[Len(a) + i] = b[i]

LEMMA PutBefore ==
    ASSUME NEW S, NEW a \in Seq(S), NEW b \in Seq(S) PROVE Joins(S, a, b)
<1>1. Len(a) \in Nat /\ Len(b) \in Nat
  OBVIOUS
<1>2. a \o b \in Seq(S) /\ Len(a \o b) = Len(a) + Len(b)
  OBVIOUS
<1>3. ASSUME NEW i \in 1 .. Len(a) PROVE (a \o b)[i] = a[i]
  BY <1>1, <1>3
<1>4. ASSUME NEW i \in 1 .. Len(b) PROVE (a \o b)[Len(a) + i] = b[i]
  BY <1>1, <1>4
<1> QED BY <1>2, <1>3, <1>4 DEF Joins

LEMMA Listed ==
    ASSUME NEW S, NEW s \in Seq(S) PROVE ToSet(s) = {s[i] : i \in 1 .. Len(s)}
BY DEF ToSet

\* An older page, put before what is on screen.
LEMMA OlderLandsStep ==
    ASSUME NEW t, TranscriptInv(t), Fits(anchor, t), OlderLands(t)
    PROVE  TranscriptInv(t)' /\ UNCHANGED anchor
<1> DEFINE taken == Page(t, older)
           added == SortAsc(taken)
           n == Cardinality(taken)
           l == Len(list)
           first == At[list[1]]
<1>1. /\ list' = SortAsc(taken \ ToSet(list)) \o list /\ more' = HasMore(taken) /\ older' = Nothing
      /\ UNCHANGED <<anchor, opening, lost>> /\ older # Nothing
  BY DEF OlderLands, MergeOlder
<1>2. /\ list \in Seq(OfThread(t)) /\ list # <<>> /\ older = first /\ ~opening
      /\ \A i, j \in 1 .. l : i < j => Earlier(list[i], list[j])
      /\ NoHole(t) /\ Reaches(t)
  BY <1>1 DEF TranscriptInv
<1>3. l \in Nat \ {0} /\ 1 \in 1 .. l /\ l \in 1 .. l /\ \A i \in 1 .. l : list[i] \in OfThread(t)
  BY <1>2
<1>4. OfThread(t) \subseteq Messages /\ Before(t, older) = {m \in OfThread(t) : At[m] < first}
  BY <1>1, <1>2 DEF OfThread, Before
<1>5. \A i \in 1 .. l : first <= At[list[i]]
  <2> TAKE i \in 1 .. l
  <2>1. i = 1 \/ 1 < i
    OBVIOUS
  <2> QED BY <1>2, <1>3, <1>4, <2>1, InstantsAre
<1>6. /\ taken \subseteq Before(t, older)
      /\ \A m \in taken : \A k \in Before(t, older) : Earlier(m, k) => k \in taken
      /\ ~HasMore(taken) => taken = Before(t, older)
  BY PageIs
<1> HIDE DEF taken
<1>7. taken \ ToSet(list) = taken /\ taken \in SUBSET Messages /\ taken \subseteq OfThread(t)
  <2>1. \A m \in taken : m \in OfThread(t) /\ At[m] < first
    BY <1>4, <1>6
  <2>2. \A m \in ToSet(list) : first <= At[m] /\ m \in Messages
    BY <1>2, <1>3, <1>4, <1>5 DEF ToSet
  <2>3. first \in Nat
    BY <1>3, <1>4, InstantsAre
  <2>4. \A m \in taken : m \notin ToSet(list)
    BY <1>4, <2>1, <2>2, <2>3, InstantsAre
  <2> QED BY <1>4, <2>1, <2>4
<1>8. /\ n \in Nat /\ added \in [1 .. n -> taken] /\ list' = added \o list
      /\ \A i, j \in 1 .. n : i < j => Earlier(added[i], added[j])
      /\ \A m \in taken : \E i \in 1 .. n : added[i] = m
  BY <1>1, <1>7, SortedIs
<1> HIDE DEF n, added, first, l
<1>9. /\ added \in Seq(OfThread(t)) /\ Len(added) = n /\ list' \in Seq(OfThread(t)) /\ Len(list') = n + l
      /\ \A i \in 1 .. n : list'[i] = added[i]
      /\ \A i \in 1 .. l : list'[n + i] = list[i]
  <2>1. added \in Seq(OfThread(t)) /\ Len(added) = n
    BY <1>7, <1>8
  <2>2. PICK S, a, b : S = OfThread(t) /\ a = added /\ b = list
    OBVIOUS
  <2>3. a \in Seq(S) /\ b \in Seq(S) /\ Len(a) = n /\ Len(b) = l /\ list' = a \o b
    BY <1>2, <1>8, <2>1, <2>2 DEF l
  <2>4. Joins(S, a, b)
    BY <2>3, PutBefore
  <2> QED BY <2>1, <2>2, <2>3, <2>4 DEF Joins
<1>10. \A i \in 1 .. n : At[added[i]] < first /\ added[i] \in taken
  BY <1>4, <1>6, <1>8
<1>11. ASSUME NEW i \in 1 .. n + l
       PROVE  i \in 1 .. n \/ \E j \in 1 .. l : i = n + j
  <2>1. CASE i <= n
    BY <1>8, <2>1
  <2>2. CASE i > n
    <3>1. i - n \in 1 .. l /\ i = n + (i - n)
      BY <1>3, <1>8, <2>2
    <3> QED BY <3>1
  <2> QED BY <1>3, <1>8, <2>1, <2>2
<1>12. ASSUME NEW i \in 1 .. n + l, NEW j \in 1 .. n + l, i < j
       PROVE  Earlier(list'[i], list'[j])
  <2>1. CASE i \in 1 .. n /\ j \in 1 .. n
    BY <1>8, <1>9, <1>12, <2>1
  <2>2. ASSUME i \in 1 .. n, NEW b \in 1 .. l, j = n + b PROVE Earlier(list'[i], list'[j])
    <3>1. At[added[i]] < first /\ first <= At[list[b]] /\ added[i] \in Messages /\ list[b] \in Messages
      BY <1>3, <1>4, <1>5, <1>7, <1>10, <2>2
    <3>2. first \in Nat /\ list'[i] = added[i] /\ list'[j] = list[b]
      BY <1>3, <1>4, <1>9, <2>2, InstantsAre DEF first
    <3> QED BY <3>1, <3>2, InstantsAre DEF Earlier
  <2>3. ASSUME NEW a \in 1 .. l, NEW b \in 1 .. l, i = n + a, j = n + b PROVE Earlier(list'[i], list'[j])
    <3>1. a < b
      BY <1>8, <1>12, <2>3
    <3> QED BY <1>2, <1>9, <2>3, <3>1
  <2>4. ASSUME NEW a \in 1 .. l, i = n + a, j \in 1 .. n PROVE FALSE
    BY <1>8, <1>12, <2>4
  <2> QED BY <1>11, <2>1, <2>2, <2>3, <2>4
<1>13. Shown' = taken \cup Shown
  <2>1. Shown' = {list'[i] : i \in 1 .. n + l} /\ Shown = {list[i] : i \in 1 .. l}
    BY <1>2, <1>9, Listed DEF Shown, l
  <2>2. \A m \in taken : \E i \in 1 .. n + l : list'[i] = m
    <3> TAKE m \in taken
    <3>1. PICK i \in 1 .. n : added[i] = m
      BY <1>8
    <3>2. i \in 1 .. n + l
      BY <1>3, <1>8
    <3> QED BY <1>9, <3>1, <3>2
  <2>3. \A i \in 1 .. l : n + i \in 1 .. n + l
    BY <1>3, <1>8
  <2>4. \A m \in Shown : \E i \in 1 .. n + l : list'[i] = m
    BY <1>9, <2>1, <2>3
  <2>5. \A i \in 1 .. n + l : list'[i] \in taken \cup Shown
    <3> TAKE i \in 1 .. n + l
    <3>1. CASE i \in 1 .. n
      BY <1>9, <1>10, <3>1
    <3>2. CASE \E j \in 1 .. l : i = n + j
      BY <1>9, <2>1, <3>2
    <3> QED BY <1>11, <3>1, <3>2
  <2> QED BY <2>1, <2>2, <2>4, <2>5
<1>14. list'[Len(list')] = list[l] /\ Len(list') \in 1 .. n + l /\ 1 \in 1 .. n + l
  <2>1. n + l \in Nat /\ 1 <= n + l
    BY <1>3, <1>8
  <2> QED BY <1>3, <1>9, <2>1
<1> DEFINE top == list'[1]
<1>15. /\ top \in Messages /\ (top = list[1] \/ top \in taken)
       /\ \A m \in taken : m = top \/ Earlier(top, m)
  <2>1. CASE n = 0
    <3>1. taken = {} /\ top = list[1]
      BY <1>3, <1>8, <1>9, <2>1
    <3> QED BY <1>3, <1>4, <3>1
  <2>2. CASE n # 0
    <3>1. 1 \in 1 .. n /\ top = added[1]
      BY <1>8, <1>9, <2>2
    <3>2. \A m \in taken : m = top \/ Earlier(top, m)
      <4> TAKE m \in taken
      <4>1. PICK i \in 1 .. n : added[i] = m
        BY <1>8
      <4>2. i = 1 \/ 1 < i
        OBVIOUS
      <4> QED BY <1>8, <3>1, <4>1, <4>2
    <3> QED BY <1>7, <1>10, <3>1, <3>2
  <2> QED BY <2>1, <2>2
<1> HIDE DEF top
<1>16. first \in Nat /\ \E k \in Shown : At[k] = first
  <2>1. list[1] \in Shown /\ list[1] \in Messages
    BY <1>2, <1>3, <1>4 DEF Shown, ToSet, l
  <2> QED BY <2>1, InstantsAre DEF first
<1>17. NoHole(t)'
  <2> SUFFICES ASSUME NEW m \in OfThread(t), At[top] <= At[m], At[m] <= At[list[l]]
               PROVE  \E k \in taken \cup Shown : At[k] = At[m]
    BY <1>13, <1>14 DEF NoHole, OfThread, top
  <2>1. m \in Messages /\ list[l] \in Messages
    BY <1>3, <1>4
  <2>2. CASE first <= At[m]
    BY <1>2, <2>2 DEF NoHole, first, l
  <2>3. CASE At[m] < first
    <3>1. m \in Before(t, older)
      BY <1>4, <2>3
    <3>2. top \in taken
      <4>1. top # list[1]
        BY <1>15, <2>1, <2>3, InstantsAre DEF first
      <4> QED BY <1>15, <4>1
    <3>3. At[m] = At[top] \/ Earlier(top, m)
      BY <1>15, <2>1, InstantsAre DEF Earlier
    <3> QED BY <1>6, <3>1, <3>2, <3>3
  <2> QED BY <1>16, <2>1, <2>2, <2>3, InstantsAre
<1>18. Reaches(t)'
  BY <1>1, <1>2, <1>13, <1>14 DEF Reaches, OfThread, l
<1>19. ASSUME ~more' PROVE \A m \in OfThread(t) : At[top] <= At[m]
  <2> TAKE m \in OfThread(t)
  <2>1. m \in Messages /\ taken = Before(t, older)
    BY <1>1, <1>4, <1>6, <1>19
  <2>2. CASE At[m] < first
    BY <1>4, <1>15, <2>1, <2>2, InstantsAre
  <2>3. CASE first <= At[m]
    <3>1. At[top] <= first
      BY <1>4, <1>6, <1>15, <1>16, InstantsAre DEF first
    <3> QED BY <1>15, <1>16, <2>1, <2>3, <3>1, InstantsAre
  <2> QED BY <1>16, <2>1, <2>2, <2>3, InstantsAre
<1>20. NoHole(t)' /\ Reaches(t)' /\ (~more' => \A m \in OfThread(t) : At[list'[1]] <= At[m])
  BY <1>17, <1>18, <1>19 DEF top
<1> QED BY <1>1, <1>2, <1>9, <1>12, <1>20 DEF TranscriptInv, OfThread

LEMMA ScrollsStep ==
    ASSUME Uncrowded, NEW t, TranscriptInv(t), Fits(anchor, t), Scrolls(t)
    PROVE  TranscriptInv(t)' /\ UNCHANGED anchor
<1>1. CASE OpensNot
  BY <1>1 DEF OpensNot, TranscriptInv, NoHole, Reaches, OfThread, Shown
<1>2. CASE LoadOlder
  <2>1. Head(list) = list[1]
    BY <1>2 DEF LoadOlder, TranscriptInv
  <2> QED BY <1>2, <2>1 DEF LoadOlder, TranscriptInv, NoHole, Reaches, OfThread, Shown
<1>3. CASE OlderFails
  BY <1>3 DEF OlderFails, TranscriptInv, NoHole, Reaches, OfThread, Shown
<1> QED BY <1>1, <1>2, <1>3, OpensStep, OlderLandsStep DEF Scrolls

-----------------------------------------------------------------------------
(* Panels (App.tsx, ThreadPanel.tsx)                                           *)

\* What is on screen and what points into it are of the conversation that is
\* selected, and the open transcript is opened at the newest of receipt and hit.
PanelsInv ==
    /\ TranscriptInv(selected)
    /\ Fits(anchor, selected) /\ Fits(receipt, selected) /\ Fits(hit, selected)
    /\ status # "app" => view = "overview"
    /\ view = "transcript" /\ Panel(selected) # Nothing => Id(anchor) = Id(Anchor(receipt, hit))

LEMMA EmptyIsFine ==
    ASSUME list' = <<>>, older' = Nothing PROVE TranscriptInv(selected)'
<1>1. list' \in Seq(OfThread(selected)') /\ Len(list') = 0 /\ 1 .. Len(list') = {}
  OBVIOUS
<1> QED BY <1>1 DEF TranscriptInv

LEMMA FitsPointer ==
    ASSUME NEW m \in Messages
    PROVE  /\ Fits([id |-> m, at |-> At[m]], ThreadOf[m]) /\ Fits(ReceiptAt(m), ThreadOf[m])
           /\ \A t : Fits(Nothing, t)
<1>1. At[m] \in Nat /\ m \in OfThread(ThreadOf[m])
  BY TranscriptAssumption DEF OfThread
<1> QED BY <1>1 DEF Fits, ReceiptAt

LEMMA PanelsInitInv == PanelsInit => PanelsInv
<1> SUFFICES ASSUME PanelsInit PROVE PanelsInv
  OBVIOUS
<1>1. list \in Seq(OfThread(selected)) /\ Len(list) = 0 /\ 1 .. Len(list) = {}
  BY DEF PanelsInit
<1>2. TranscriptInv(selected)
  BY <1>1 DEF PanelsInit, TranscriptInv
<1> QED BY <1>2 DEF PanelsInit, PanelsInv, Fits

LEMMA ShowsStep ==
    ASSUME Patient, PanelsInv, status = "app", NEW t, NEW v, NEW r, NEW h,
           Fits(r, t), Fits(h, t), Shows(t, v, r, h)
    PROVE  PanelsInv'
<1> DEFINE a == Anchor(r, h)
           stays == view = "transcript" /\ Panel(selected) # Nothing /\ t = selected
<1>1. /\ selected' = t /\ view' = v /\ receipt' = r /\ hit' = h /\ status' = "app"
      /\ Anchor(receipt', hit') = a /\ Fits(a, t)
  BY DEF Shows, Anchor
<1>2. Fits(receipt, selected)' /\ Fits(hit, selected)'
  BY <1>1 DEF Fits, OfThread
<1>3. ASSUME anchor' = a, list' = <<>>, older' = Nothing
      PROVE  PanelsInv'
  <2>1. TranscriptInv(selected)'
    BY <1>3, EmptyIsFine
  <2>2. Fits(anchor, selected)'
    BY <1>1, <1>3 DEF Fits, OfThread
  <2> QED BY <1>1, <1>2, <1>3, <2>1, <2>2 DEF PanelsInv
<1>4. CASE v # "transcript" \/ Panel(t) = Nothing
  <2>1. anchor' = Nothing /\ list' = <<>> /\ older' = Nothing
    BY <1>4 DEF Shows, Unmounted, Mounted
  <2>2. TranscriptInv(selected)' /\ Fits(anchor, selected)'
    BY <2>1, EmptyIsFine DEF Fits
  <2>3. ~(view' = "transcript" /\ Panel(selected)' # Nothing)
    BY <1>1, <1>4 DEF Panel, Shows
  <2> QED BY <1>1, <1>2, <2>2, <2>3 DEF PanelsInv
<1>5. CASE ~(v # "transcript" \/ Panel(t) = Nothing) /\ ~stays
  <2>1. Mounted(a, TRUE)
    BY <1>5 DEF Shows
  <2> QED BY <1>3, <2>1 DEF Mounted
<1>6. CASE ~(v # "transcript" \/ Panel(t) = Nothing) /\ stays /\ Id(a) = Id(anchor)
  <2>1. UNCHANGED transcriptVars /\ t = selected
    BY <1>6 DEF Shows
  <2>2. TranscriptInv(selected)' /\ Fits(anchor, selected)'
    BY <1>1, <2>1 DEF transcriptVars, PanelsInv, TranscriptInv, NoHole, Reaches, Shown, OfThread, Fits
  <2> QED BY <1>1, <1>2, <1>6, <2>1, <2>2 DEF PanelsInv, transcriptVars, Id
<1>7. CASE ~(v # "transcript" \/ Panel(t) = Nothing) /\ stays /\ Id(a) # Id(anchor)
  <2>1. Reopen(a)
    BY <1>7 DEF Shows
  <2> QED BY <1>3, <2>1 DEF Reopen
<1> QED BY <1>4, <1>5, <1>6, <1>7

LEMMA SelectThreadStep ==
    ASSUME Patient, PanelsInv, NEW t, SelectThread(t) PROVE PanelsInv'
<1>1. Fits(Nothing, t) /\ Fits(receipt, selected) /\ status = "app"
  BY DEF Fits, PanelsInv, SelectThread
<1> QED BY <1>1, ShowsStep DEF SelectThread

LEMMA OpenResultStep ==
    ASSUME Patient, PanelsInv, NEW m \in Messages, OpenResult(m) PROVE PanelsInv'
<1> DEFINE h == [id |-> m, at |-> At[m]]
<1>1. Fits(Nothing, ThreadOf[m]) /\ Fits(h, ThreadOf[m]) /\ Fits(receipt, selected) /\ status = "app"
  BY FitsPointer DEF PanelsInv, OpenResult
<1> HIDE DEF h
<1>2. \/ ThreadOf[m] = selected /\ Shows(selected, view, receipt, h)
      \/ Shows(ThreadOf[m], "transcript", Nothing, h)
  BY DEF OpenResult, h
<1> QED BY <1>1, <1>2, ShowsStep

LEMMA OpenReceiptStep ==
    ASSUME Patient, PanelsInv, NEW m \in Messages, OpenReceipt(m) PROVE PanelsInv'
<1>1. Fits(ReceiptAt(m), selected) /\ Fits(hit, selected) /\ status = "app"
  BY FitsPointer DEF PanelsInv, OpenReceipt, InPanel
<1> QED BY <1>1, ShowsStep DEF OpenReceipt

LEMMA GoesStep ==
    ASSUME Patient, PanelsInv, Goes \/ ClearAnchors PROVE PanelsInv'
<1>1. Fits(receipt, selected) /\ Fits(hit, selected) /\ Fits(Nothing, selected)
  BY DEF PanelsInv, Fits
<1>2. status = "app" /\ \/ \E v : Shows(selected, v, receipt, hit)
                         \/ Shows(selected, view, Nothing, Nothing)
  BY DEF Goes, ClearAnchors, OpenSurface, OnSurfaceKey, OnSubnavKey, ChooseView, OpenHealth, InPanel
<1> QED BY <1>1, <1>2, ShowsStep

LEMMA PanelsStep ==
    ASSUME Patient, Uncrowded PROVE PanelsInv /\ PanelsNext => PanelsInv'
<1> SUFFICES ASSUME PanelsInv, PanelsNext PROVE PanelsInv'
  OBVIOUS
<1>1. CASE Boots \/ Continue
  <2>1. UNCHANGED <<selected, hit, receipt, view, transcriptVars>> /\ view = "overview"
    BY <1>1 DEF Boots, Continue, PanelsInv
  <2>2. TranscriptInv(selected)' /\ Fits(anchor, selected)' /\ Fits(receipt, selected)' /\ Fits(hit, selected)'
    BY <2>1 DEF PanelsInv, transcriptVars, TranscriptInv, NoHole, Reaches, Shown, OfThread, Fits
  <2> QED BY <2>1, <2>2 DEF PanelsInv
<1>2. CASE Reload
  <2>1. TranscriptInv(selected)'
    BY <1>2, EmptyIsFine DEF Reload, Unmounted, Mounted
  <2> QED BY <1>2, <2>1 DEF Reload, Unmounted, Mounted, PanelsInv, Fits
<1>3. CASE Reads
  <2>1. /\ Scrolls(selected) /\ UNCHANGED <<status, known, selected, hit, receipt, view>>
        /\ TranscriptInv(selected) /\ Fits(anchor, selected)
    BY <1>3 DEF Reads, PanelsInv
  <2>2. PICK t : t = selected
    OBVIOUS
  <2>3. TranscriptInv(t)' /\ UNCHANGED anchor
    BY <2>1, <2>2, ScrollsStep
  <2>4. TranscriptInv(selected)'
    BY <2>1, <2>2, <2>3 DEF TranscriptInv, NoHole, Reaches, OfThread
  <2> QED BY <2>1, <2>3, <2>4 DEF PanelsInv, Fits, OfThread, Panel
<1> QED BY <1>1, <1>2, <1>3, SelectThreadStep, OpenResultStep, OpenReceiptStep, GoesStep DEF PanelsNext

-----------------------------------------------------------------------------
(* The client.  A step is of one part and leaves the state of the others.      *)

LEMMA PanelsPart == ASSUME Patient, Uncrowded PROVE Spec => []PanelsInv
<1>1. Init => PanelsInv
  BY PanelsInitInv DEF Init
<1>2. PanelsInv /\ [Next]_clientVars => PanelsInv'
  <2>1. PanelsInv /\ UNCHANGED panelsVars => PanelsInv'
    BY DEF panelsVars, transcriptVars, PanelsInv, TranscriptInv, NoHole, Reaches, Shown, OfThread, Fits, Panel
  <2> QED BY <2>1, PanelsStep DEF Next, clientVars
<1> QED BY <1>1, <1>2, PTL DEF Spec

LEMMA AskingPart == Spec => []AskingInv
<1>1. Init => AskingInv
  BY AskingInitInv DEF Init
<1>2. AskingInv /\ [Next]_clientVars => AskingInv'
  <2>1. AskingInv /\ UNCHANGED askingVars => AskingInv'
    BY DEF askingVars, AskingInv, SearchInv, FormIsCurrent
  <2> QED BY <2>1, AskingStep DEF Next, clientVars
<1> QED BY <1>1, <1>2, PTL DEF Spec

LEMMA SessionsPart == Spec => []SessionsInv
<1>1. Init => SessionsInv
  BY SessionsInitInv DEF Init
<1>2. SessionsInv /\ [Next]_clientVars => SessionsInv'
  <2>1. SessionsInv /\ UNCHANGED sessionsVars => SessionsInv'
    BY DEF sessionsVars, SessionsInv, SessionsTypeOK, Numbered, WordsAreOfReading, ToldIsFrozen, SentIsFrozen, OfTheRun
  <2> QED BY <2>1, SessionsStep DEF Next, clientVars
<1> QED BY <1>1, <1>2, PTL DEF Spec

LEMMA TuningPart == Spec => []TuningInv
<1>1. Init => TuningInv
  BY PassInitInv, DialInitInv DEF Init, TuningInit, TuningInv
<1>2. TuningInv /\ [Next]_clientVars => TuningInv'
  <2>1. TuningInv /\ UNCHANGED tuningVars => TuningInv'
    BY DEF tuningVars, TuningInv, PassInv, LabelsGiven, ReviewIsCurrent, SavingAsShown, KeptAsShown, Given,
           DialInv, ReadFirst, WantIsShown, ShownIsKept
  <2> QED BY <2>1, TuningStep DEF Next, clientVars
<1> QED BY <1>1, <1>2, PTL DEF Spec

\* At rest the panel shows the answer to the words in its field, and Ask the answer to
\* what was last submitted, however slow, lost or overtaken the answers are.
THEOREM AnswersFit == Spec => []AnswersAreOfTheQuestion
BY AskingPart, AskingInvShows, PTL

\* However runs, checks, lists and other windows interleave, a run shown as done has
\* its reading in the list once the list is there, unless an older request for the
\* list was on its way when it was asked for anew (Session.tsx gives none up).
THEOREM DoneIsListed == Spec => []DoneIsPickedUp
BY SessionsPart, SessionsInvShows, PTL

\* The reading at rest on screen is the selected one and the open words are its own,
\* where nobody opens words while another reading is on its way (Session.tsx leaves
\* the claims clickable then).
THEOREM ShownIsSelected == ASSUME Unhurried PROVE Spec => []SelectedIsShown
<1>1. SessionsInv => SelectedIsShown
  BY SessionsInvShows
<1> QED BY <1>1, SessionsPart, PTL

\* Whatever is labelled, changed, failed and confirmed, what is kept was computed from
\* the labels whose proposal was on screen, unless their read-back failed; and the
\* engine at rest on screen is the one kept, unless chosen before the mode was read.
THEOREM KeptIsShown == Spec => []SavedAsShown
BY TuningPart, TuningInvShows, PTL

\* Wherever one goes and whatever is pointed at, what is on screen of a transcript is
\* in order, nothing twice, of the selected conversation alone and without holes, from
\* the message it is opened at; where an older page is waited for before one is taken
\* elsewhere (TranscriptReader.tsx lets it land on the new place), and no instant has
\* more messages than a page takes.
THEOREM TranscriptStaysWhole == ASSUME Patient, Uncrowded PROVE Spec => []TranscriptIsWhole
<1>1. PanelsInv => TranscriptIsWhole
  BY InvIsWhole DEF PanelsInv, TranscriptIsWhole
<1> QED BY <1>1, PanelsPart, PTL
=============================================================================

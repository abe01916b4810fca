------------------------------- MODULE Asking -------------------------------
(***************************************************************************)
(* web/src/components/SearchPanel.tsx and views/Ask.tsx: a question, typed    *)
(* and narrowed, is asked of the server while the last answer is still on      *)
(* screen.  A new question gives up the request of the one before it.          *)
(***************************************************************************)
EXTENDS Integers

CONSTANTS
    Queries,     \* what may be typed, without what is short
    Short,       \* what is shorter than two characters
    Rooms,       \* conversations
    Narrowings,  \* direction, tension and children as chosen on the form
    NoQuestion

\* The empty field is short, a form starts at some choice, and no question is
\* taken for none.
ASSUME AskingAssumption ==
    /\ Short # {} /\ Narrowings # {}
    /\ \A w \in Queries \cup Short, r \in Rooms \cup {NoQuestion} : [words |-> w, room |-> r] # NoQuestion

VARIABLES
    search,      \* the search panel
    form         \* the form of Ask

askingVars == <<search, form>>

-----------------------------------------------------------------------------
(* The search panel.  What is typed is looked for when it has rested, in the   *)
(* open conversation or in all.                                               *)

Question(s) == [words |-> s.debounced, room |-> IF s.scope = "thread" THEN s.room ELSE NoQuestion]

AskIdle(s) == IF s.asking # NoQuestion THEN s ELSE [s EXCEPT !.asking = Question(s), !.failed = FALSE]

\* The effect of a change of the rested words, the scope, the conversation or of
\* the panel being open: what was asked is given up.
Asked(s) ==
    IF ~s.open THEN [s EXCEPT !.asking = NoQuestion]
    ELSE IF s.debounced \in Short THEN [s EXCEPT !.asking = NoQuestion, !.results = NoQuestion]
    ELSE [s EXCEPT !.asking = Question(s), !.failed = FALSE]

Empty == CHOOSE w \in Short : TRUE

SearchInit ==
    search = [open |-> FALSE, query |-> Empty, debounced |-> Empty, scope |-> "all",
              room |-> NoQuestion, asking |-> NoQuestion, results |-> NoQuestion, failed |-> FALSE]

DefaultScope(s) == IF s.room # NoQuestion THEN "thread" ELSE "all"

OpenSearch ==
    /\ ~search.open
    /\ search' = Asked([search EXCEPT !.open = TRUE, !.scope = DefaultScope(search)])

\* The words that rested stay until the timer puts the empty field in their place.
CloseSearch ==
    /\ search.open
    /\ search' = Asked([search EXCEPT !.open = FALSE, !.query = Empty, !.results = NoQuestion, !.failed = FALSE])

Type(w) == search.open /\ w # search.query /\ search' = [search EXCEPT !.query = w]

Rests ==
    /\ search.debounced # search.query
    /\ search' = Asked([search EXCEPT !.debounced = search.query])

SetScope(scope) ==
    /\ search.open /\ scope # search.scope
    /\ scope = "thread" => search.room # NoQuestion
    /\ search' = Asked([search EXCEPT !.scope = scope])

\* A hit is opened, in its own conversation, and the panel closes.
OpensHit(r) ==
    /\ search.open /\ search.results # NoQuestion /\ search.asking = NoQuestion /\ ~search.failed
    /\ search.results.room \in {NoQuestion, r}
    /\ search' = [search EXCEPT !.open = FALSE, !.query = Empty, !.results = NoQuestion, !.room = r]

Selects(r) == ~search.open /\ r # search.room /\ search' = [search EXCEPT !.room = r]

SearchAnswers ==
    /\ search.asking # NoQuestion
    /\ search' = [search EXCEPT !.results = search.asking, !.asking = NoQuestion]

SearchFails ==
    /\ search.asking # NoQuestion
    /\ search' = [search EXCEPT !.failed = TRUE, !.asking = NoQuestion]

SearchNext ==
    \/ OpenSearch \/ CloseSearch \/ Rests \/ SearchAnswers \/ SearchFails
    \/ \E w \in Queries \cup Short : Type(w)
    \/ \E scope \in {"all", "thread"} : SetScope(scope)
    \/ \E r \in Rooms : OpensHit(r) \/ Selects(r)

-----------------------------------------------------------------------------
(* Ask.  The form stays free to change under the answer to what was submitted.  *)

FormInit ==
    form = [query |-> Empty, narrow |-> CHOOSE n \in Narrowings : TRUE,
            submitted |-> NoQuestion, asking |-> NoQuestion, plan |-> NoQuestion, failed |-> FALSE]

Fills ==
    \E q \in Queries \cup {Empty}, n \in Narrowings :
        form' = [form EXCEPT !.query = q, !.narrow = n]

Submitted(q) == [form EXCEPT !.submitted = q, !.asking = q, !.plan = NoQuestion, !.failed = FALSE]

\* The same words again are asked again.
HandleSubmit ==
    /\ form.query # Empty
    /\ form' = Submitted([words |-> form.query, narrow |-> form.narrow])

AskAnswers ==
    /\ form.asking # NoQuestion
    /\ form' = [form EXCEPT !.plan = form.asking, !.asking = NoQuestion]

AskFails ==
    /\ form.asking # NoQuestion
    /\ form' = [form EXCEPT !.failed = TRUE, !.asking = NoQuestion]

FormNext == Fills \/ HandleSubmit \/ AskAnswers \/ AskFails

AskingInit == SearchInit /\ FormInit

AskingNext ==
    \/ SearchNext /\ UNCHANGED form
    \/ FormNext /\ UNCHANGED search

-----------------------------------------------------------------------------
\* When the panel is at rest its hits are those of the words in the field, in the
\* scope chosen, of the conversation that is open; and an answer of Ask is that
\* to what was last submitted, whatever the form says by now.
AnswersAreOfTheQuestion ==
    /\ search.open /\ search.asking = NoQuestion /\ ~search.failed /\ search.debounced = search.query =>
          search.results = IF search.query \in Short THEN NoQuestion ELSE Question(search)
    /\ form.plan # NoQuestion => form.plan = form.submitted /\ form.asking = NoQuestion
=============================================================================

------------------------------ MODULE Sessions ------------------------------
(***************************************************************************)
(* web/src/views/Session.tsx with components/AnalyzePanel, DrainProgress     *)
(* and Reflection, over the routes of a run: a reading is asked for at a      *)
(* stated price, what is left to read is shown and checked by hand, and a     *)
(* finished reading is picked up as the newest.  Readings are numbered in     *)
(* the order they were frozen; how one comes to be is Reading's matter.       *)
(***************************************************************************)
EXTENDS Integers, FiniteSets, FiniteSetsExt

CONSTANTS
    MaxFrozen,   \* readings frozen in all
    MaxJobs,     \* jobs of the conversation, of whatever lens
    MaxCommits,  \* runs begun at once
    MaxLists,    \* lists asked for that have not come
    Unhurried,   \* no words are opened while another reading is on its way
    NoReading

ASSUME SessionsAssumption ==
    /\ {MaxFrozen, MaxJobs, MaxCommits} \subseteq Nat /\ MaxLists \in Nat \ {0}
    /\ Unhurried \in BOOLEAN

VARIABLES
    frozen,      \* readings of the conversation, on the server
    jobs,        \* how many are done, and how many remain
    page,        \* the list, the selection, the reading on screen, what is on its way
    drawer,      \* the reading the open words of the first claim were fetched for
    panel,       \* AnalyzePanel: "closed", "loading", "error", "ready" or "committing"
    commits,     \* runs begun: of the panel that is open or not, and the status on its way
    drain        \* DrainProgress: the status it shows, or NoReading

sessionsVars == <<frozen, jobs, page, drawer, panel, commits, drain>>

\* drainStatus counts every job of the conversation, whatever the lens.
DrainStatus == [total |-> jobs.done + jobs.remain, remaining |-> jobs.remain, upto |-> frozen]

Newest(readings) == IF readings = {} THEN NoReading ELSE Max(readings)

-----------------------------------------------------------------------------
(* The page of readings                                                       *)

SelectedLate(p, r) ==
    IF p.asking # NoReading THEN [p EXCEPT !.selected = r]
    ELSE [p EXCEPT !.selected = r, !.asking = r, !.failed = FALSE, !.loading = r # NoReading]

\* What was asked for one selection is given up for the next, and the end of the
\* one given up clears the flag of the next.
Selected(p, r) ==
    IF r = p.selected THEN p
    ELSE IF r = NoReading
         THEN [p EXCEPT !.selected = r, !.reading = NoReading, !.asking = NoReading, !.loading = FALSE]
         ELSE [p EXCEPT !.selected = r, !.asking = r, !.failed = FALSE, !.loading = p.asking = NoReading]

FreeSlots == {l \in 1 .. MaxLists : page.lists[l] = NoReading}

\* One more request for the list, beside those on their way, which nothing gives
\* up; each is remembered with the readings there were when it was sent.  crossed
\* remembers for the properties that another had not come.
ListAsked(p, l) ==
    [p EXCEPT !.listing = TRUE, !.listFailed = FALSE, !.lists[l] = frozen,
              !.crossed = FreeSlots # 1 .. MaxLists]

Readable(p) == ~p.listing /\ ~p.listFailed /\ p.list # {}
OnScreen(p) == Readable(p) /\ p.reading # NoReading /\ ~p.loading /\ ~p.failed

\* The words stay with the claim as long as the page of a reading stays on screen.
Turns(p) == page' = p /\ drawer' = IF OnScreen(p) THEN drawer ELSE NoReading

\* The readings there were at some time since it was sent.  Whichever request ends
\* says that the list is there.
ListComes(l) ==
    /\ page.lists[l] # NoReading
    /\ \E n \in {0} \cup frozen :
          /\ page.lists[l] \subseteq 1 .. n
          /\ Turns(Selected([page EXCEPT !.list = 1 .. n, !.listing = FALSE, !.lists[l] = NoReading], Newest(1 .. n)))
    /\ UNCHANGED <<frozen, jobs, panel, commits, drain>>

ListFails(l) ==
    /\ page.lists[l] # NoReading
    /\ Turns([page EXCEPT !.listing = FALSE, !.listFailed = TRUE, !.lists[l] = NoReading])
    /\ UNCHANGED <<frozen, jobs, panel, commits, drain>>

Select(r) ==
    /\ Readable(page) /\ r \in page.list /\ Turns(Selected(page, r))
    /\ UNCHANGED <<frozen, jobs, panel, commits, drain>>

ReadingComes ==
    /\ page.asking # NoReading
    /\ Turns([page EXCEPT !.reading = page.asking, !.asking = NoReading, !.loading = FALSE])
    /\ UNCHANGED <<frozen, jobs, panel, commits, drain>>

ReadingFails ==
    /\ page.asking # NoReading
    /\ Turns([page EXCEPT !.asking = NoReading, !.loading = FALSE, !.failed = TRUE])
    /\ UNCHANGED <<frozen, jobs, panel, commits, drain>>

\* A claim's words, fetched when it is first opened.  Claims are known by their
\* place, so the first claim of the next reading is the same claim.
OpenWords ==
    /\ OnScreen(page) /\ drawer = NoReading
    /\ Unhurried => page.asking = NoReading
    /\ drawer' = page.reading
    /\ UNCHANGED <<frozen, jobs, page, panel, commits, drain>>

-----------------------------------------------------------------------------
(* Asking for a reading                                                       *)

OpenPanel ==
    /\ ~page.listing /\ ~page.listFailed /\ drain = NoReading /\ panel = "closed"
    /\ panel' = "loading" /\ UNCHANGED <<frozen, jobs, page, drawer, commits, drain>>

Plans ==
    /\ panel = "loading" /\ panel' \in {"ready", "error"}
    /\ UNCHANGED <<frozen, jobs, page, drawer, commits, drain>>

Disowned(slots) == [c \in DOMAIN slots |-> IF slots[c] = NoReading THEN NoReading ELSE [slots[c] EXCEPT !.own = FALSE]]

ClosePanel ==
    /\ panel # "closed" /\ panel' = "closed" /\ commits' = Disowned(commits)
    /\ UNCHANGED <<frozen, jobs, page, drawer, drain>>

\* A run goes on when its panel is closed, and another may be begun beside it.
Commit(c) ==
    /\ panel = "ready" /\ commits[c] = NoReading
    /\ panel' = "committing" /\ commits' = [commits EXCEPT ![c] = [own |-> TRUE, status |-> NoReading]]
    /\ UNCHANGED <<frozen, jobs, page, drawer, drain>>

Sent(c) == commits[c] # NoReading /\ commits[c].status = NoReading

\* The run is awaited on the server: it declines at once, or a job is made for it
\* that the engine gets to or not, and a reading is frozen or not.
Runs(c) ==
    /\ Sent(c)
    /\ \/ UNCHANGED <<frozen, jobs>>
       \/ /\ jobs.done + jobs.remain < MaxJobs
          /\ \/ jobs' = [jobs EXCEPT !.remain = @ + 1] /\ UNCHANGED frozen
             \/ jobs' = [jobs EXCEPT !.done = @ + 1] /\ UNCHANGED frozen
             \/ /\ Cardinality(frozen) < MaxFrozen
                /\ jobs' = [jobs EXCEPT !.done = @ + 1] /\ frozen' = frozen \cup {Cardinality(frozen) + 1}
    /\ commits' = [commits EXCEPT ![c].status = DrainStatus']
    /\ UNCHANGED <<page, drawer, panel, drain>>

\* onComplete: the newest is picked up.
OnRunComplete == FreeSlots # {} /\ Turns(ListAsked(Selected(page, NoReading), CHOOSE l \in FreeSlots : TRUE))
Resolved(s) == s.total > 0 /\ s.remaining <= 0

MaybeComplete(s) == IF Resolved(s) THEN OnRunComplete ELSE UNCHANGED <<page, drawer>>

SeededOnly(s) == UNCHANGED <<page, drawer>>
Seeded(s) == MaybeComplete(s)

\* Whatever panel is open by then is closed.  The status seeds the progress that
\* is shown; one that is shown already stays what it was.
Began(c) ==
    /\ commits[c] # NoReading /\ ~Sent(c)
    /\ panel' = "closed" /\ commits' = Disowned([commits EXCEPT ![c] = NoReading])
    /\ IF drain = NoReading
       THEN drain' = commits[c].status /\ Seeded(commits[c].status)
       ELSE UNCHANGED <<page, drawer, drain>>
    /\ UNCHANGED <<frozen, jobs>>

\* The answer is lost, whether the server ran it or not.
BeganNot(c) ==
    /\ commits[c] # NoReading /\ commits' = [commits EXCEPT ![c] = NoReading]
    /\ panel' = IF commits[c].own THEN "ready" ELSE panel
    /\ UNCHANGED <<frozen, jobs, page, drawer, drain>>

\* Results that were written are taken in, and the status is told anew; a check
\* that fails leaves what it showed.
Check ==
    /\ drain # NoReading /\ drain.total > 0 /\ drain.remaining > 0
    /\ \E took \in 0 .. jobs.remain :
          jobs' = [done |-> jobs.done + took, remain |-> jobs.remain - took]
    /\ UNCHANGED <<frozen, panel, commits>>
    /\ drain' = DrainStatus' /\ MaybeComplete(drain')

Dismiss ==
    /\ drain # NoReading /\ Resolved(drain) /\ drain' = NoReading
    /\ UNCHANGED <<frozen, jobs, page, drawer, panel, commits>>

\* Another window or a command: jobs planned or done, a reading frozen.
Others ==
    /\ \/ /\ jobs.done + jobs.remain < MaxJobs
          /\ jobs' = [jobs EXCEPT !.remain = @ + 1] /\ UNCHANGED frozen
       \/ /\ jobs.remain > 0
          /\ jobs' = [done |-> jobs.done + 1, remain |-> jobs.remain - 1] /\ UNCHANGED frozen
       \/ /\ Cardinality(frozen) < MaxFrozen
          /\ frozen' = frozen \cup {Cardinality(frozen) + 1} /\ UNCHANGED jobs
    /\ UNCHANGED <<page, drawer, panel, commits, drain>>

-----------------------------------------------------------------------------
SessionsInit ==
    /\ frozen \in {1 .. n : n \in 0 .. MaxFrozen} /\ jobs \in {[done |-> 0, remain |-> n] : n \in 0 .. 1}
    /\ page = [list |-> {}, lists |-> [l \in 1 .. MaxLists |-> IF l = 1 THEN frozen ELSE NoReading],
               listing |-> TRUE, crossed |-> FALSE, listFailed |-> FALSE, selected |-> NoReading,
               reading |-> NoReading, asking |-> NoReading, loading |-> FALSE, failed |-> FALSE]
    /\ commits = [c \in 1 .. MaxCommits |-> NoReading] /\ drawer = NoReading /\ panel = "closed" /\ drain = NoReading

SessionsNext ==
    \/ \E l \in 1 .. MaxLists : ListComes(l) \/ ListFails(l)
    \/ ReadingComes \/ ReadingFails \/ OpenWords
    \/ \E r \in page.list : Select(r)
    \/ OpenPanel \/ Plans \/ ClosePanel
    \/ \E c \in 1 .. MaxCommits : Commit(c) \/ Runs(c) \/ Began(c) \/ BeganNot(c)
    \/ Check \/ Dismiss \/ Others

-----------------------------------------------------------------------------
\* A run that is shown as done has had its reading picked up: once the list is
\* there it holds all that was frozen when the run was said to be done, unless an
\* older request for the list was still on its way when it was asked for anew.
DoneIsPickedUp ==
    drain # NoReading /\ Resolved(drain) /\ ~page.listing /\ ~page.listFailed /\ ~page.crossed =>
        drain.upto \subseteq page.list

\* With nothing on its way the reading on screen is the one that is selected; the
\* words under a claim are those of the reading the claim stands in.
SelectedIsShown ==
    /\ page.reading # NoReading /\ page.asking = NoReading /\ ~page.failed => page.reading = page.selected
    /\ drawer # NoReading => drawer = page.reading
=============================================================================

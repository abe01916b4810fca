------------------------------- MODULE Panels -------------------------------
(***************************************************************************)
(* web/src/App.tsx and views/ThreadPanel.tsx: from the threshold to a        *)
(* conversation, the view of it that is open (lib/nav.ts), and what takes    *)
(* one to a message: a search hit, kept by the application, and a receipt,   *)
(* kept by the panel of the conversation.  The transcript is mounted while    *)
(* its view is open.                                                        *)
(***************************************************************************)
EXTENDS Transcript

VARIABLES
    status,      \* "loading", "threshold" or "app"
    seen,        \* localStorage: the threshold was crossed
    known,       \* the conversations the list got
    selected,    \* selectedId
    hit,         \* the application's anchor
    receipt,     \* the panel's receiptAnchor
    view         \* the panel's view

panelsVars == <<status, seen, known, selected, hit, receipt, view, transcriptVars>>

Threads == {ThreadOf[m] : m \in Messages}

Surfaces == <<<<"overview">>,
              <<"trajectory", "eras", "episodes", "findings", "shape", "health">>,
              <<"ask">>, <<"transcript">>, <<"readings", "session">>>>

Views == UNION {ToSet(Surfaces[s]) : s \in DOMAIN Surfaces}
SurfaceFor(v) == CHOOSE s \in DOMAIN Surfaces : v \in ToSet(Surfaces[s])
DefaultViewFor(s) == Head(Surfaces[s])
Stepped(i, dir, n) == ((i - 1 + dir + n) % n) + 1

StepSurface(v, dir) == DefaultViewFor(Stepped(SurfaceFor(v), dir, Len(Surfaces)))

StepView(v, dir) ==
    LET views == Surfaces[SurfaceFor(v)]
    IN views[Stepped(CHOOSE i \in DOMAIN views : views[i] = v, dir, Len(views))]

\* The views from which a message may be opened; the shelf of readings knows the
\* message but not when it was sent.
Drills == {"episodes", "findings", "ask", "session", "readings"}
ReceiptAt(m) == [id |-> m, at |-> IF view = "readings" THEN 0 ELSE At[m]]

Anchor(r, h) == IF r # Nothing THEN r ELSE h
Id(a) == IF a = Nothing THEN Nothing ELSE a.id
Panel(t) == IF t \in known THEN t ELSE Nothing

\* What the open panel makes of a new view, receipt and hit.  Its transcript is
\* kept while the view and the message it is opened at stay; the panel itself
\* is another for another conversation.
Shows(t, v, r, h) ==
    /\ selected' = t /\ view' = v /\ receipt' = r /\ hit' = h
    /\ LET a == Anchor(r, h)
           kept == view = "transcript" /\ Panel(selected) # Nothing /\ t = selected
       IN IF v # "transcript" \/ Panel(t) = Nothing THEN Unmounted
          ELSE IF ~kept THEN Mounted(a, TRUE)
          ELSE IF Id(a) = Id(anchor) THEN UNCHANGED transcriptVars
          ELSE Reopen(a)
    /\ UNCHANGED <<status, seen, known>>

-----------------------------------------------------------------------------
PanelsInit ==
    /\ status = "loading" /\ seen \in BOOLEAN /\ known = {}
    /\ selected = Nothing /\ hit = Nothing /\ receipt = Nothing /\ view = "overview"
    /\ anchor = Nothing /\ list = <<>> /\ more = FALSE /\ opening = FALSE
    /\ older = Nothing /\ lost = FALSE

\* The list and the counts are asked for one after the other; either may fail, and
\* the counts are then taken from the list.
Boots ==
    /\ status = "loading"
    /\ \E threadsCome, countsCome \in BOOLEAN :
          /\ known' = IF threadsCome THEN Threads ELSE {}
          /\ status' = IF seen \/ ~(threadsCome \/ countsCome) THEN "app" ELSE "threshold"
    /\ UNCHANGED <<seen, selected, hit, receipt, view, transcriptVars>>

\* localStorage may be unavailable.
Continue ==
    /\ status = "threshold" /\ status' = "app"
    /\ seen' \in {seen, TRUE}
    /\ UNCHANGED <<known, selected, hit, receipt, view, transcriptVars>>

Reload ==
    /\ status = "app" /\ status' = "loading" /\ known' = {}
    /\ selected' = Nothing /\ hit' = Nothing /\ receipt' = Nothing /\ view' = "overview"
    /\ Unmounted /\ UNCHANGED seen

SelectThread(t) ==
    /\ status = "app" /\ t \in known
    /\ IF t = selected THEN Shows(t, view, receipt, Nothing) ELSE Shows(t, "overview", Nothing, Nothing)

\* A hit in another conversation mounts its panel at the hit.  In this one it is
\* the change of the hit's message that is noticed: the same hit again is not.
OpenResult(m) ==
    /\ status = "app"
    /\ LET h == [id |-> m, at |-> At[m]]
           same == ThreadOf[m] = selected
       IN IF same /\ Id(hit) = m THEN Shows(selected, view, receipt, h)
          ELSE Shows(ThreadOf[m], "transcript", Nothing, h)

InPanel == status = "app" /\ Panel(selected) # Nothing

OpenReceipt(m) ==
    /\ InPanel /\ view \in Drills /\ ThreadOf[m] = selected
    /\ Shows(selected, "transcript", ReceiptAt(m), hit)

ClearAnchors ==
    /\ InPanel /\ view = "transcript" /\ anchor # Nothing /\ ~lost
    /\ Shows(selected, view, Nothing, Nothing)

OpenSurface(s) ==
    /\ InPanel /\ s # SurfaceFor(view)
    /\ Shows(selected, DefaultViewFor(s), receipt, hit)

OnSurfaceKey(dir) == InPanel /\ Shows(selected, StepSurface(view, dir), receipt, hit)

OnSubnavKey(dir) ==
    /\ InPanel /\ Len(Surfaces[SurfaceFor(view)]) > 1
    /\ Shows(selected, StepView(view, dir), receipt, hit)

ChooseView(v) ==
    /\ InPanel /\ v \in ToSet(Surfaces[SurfaceFor(view)])
    /\ Shows(selected, v, receipt, hit)

OpenHealth == InPanel /\ view = "overview" /\ Shows(selected, "health", receipt, hit)

Reads ==
    /\ InPanel /\ view = "transcript" /\ Scrolls(selected)
    /\ UNCHANGED <<status, seen, known, selected, hit, receipt, view>>

Goes ==
    \/ \E s \in DOMAIN Surfaces : OpenSurface(s)
    \/ \E dir \in {-1, 1} : OnSurfaceKey(dir) \/ OnSubnavKey(dir)
    \/ \E v \in Views : ChooseView(v)
    \/ OpenHealth

PanelsNext ==
    \/ Boots \/ Continue \/ Reload
    \/ \E t \in known : SelectThread(t)
    \/ \E m \in Messages : OpenResult(m) \/ OpenReceipt(m)
    \/ ClearAnchors \/ Goes \/ Reads

-----------------------------------------------------------------------------
\* The transcript of the open conversation is in order, without holes and about
\* this conversation alone, and what the panel holds as the newest of receipt
\* and hit is what it was opened at.
TranscriptIsWhole ==
    view = "transcript" /\ Panel(selected) # Nothing =>
        Whole(selected) /\ Id(anchor) = Id(Anchor(receipt, hit))

=============================================================================

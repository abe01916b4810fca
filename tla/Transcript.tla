----------------------------- MODULE Transcript -----------------------------
(***************************************************************************)
(* web/src/views/TranscriptReader.tsx over the messages route: a           *)
(* conversation is read backwards, a page at a time, from its end or from   *)
(* the message a receipt or a search hit points at.  A page is asked for by *)
(* the instant it must lie before.                                          *)
(***************************************************************************)
EXTENDS Integers, FiniteSets, Sequences, SequencesExt

CONSTANTS
    Messages,    \* the rows of the archive
    ThreadOf,    \* the conversation each is of
    At,          \* when each was sent
    PageSize,    \* PAGE
    Patient,     \* nobody is taken elsewhere while an older page is on its way
    Nothing      \* no anchor, no request, no conversation

ASSUME TranscriptAssumption ==
    /\ Messages \subseteq Nat /\ IsFiniteSet(Messages) /\ At \in [Messages -> Nat \ {0}]
    /\ Messages \subseteq DOMAIN ThreadOf
    /\ PageSize \in Nat \ {0} /\ Patient \in BOOLEAN
    /\ Nothing \notin Nat /\ Nothing \notin [id : Messages, at : Nat]

VARIABLES
    anchor,      \* the message the reader was opened at, as id and instant, or Nothing
    list,        \* messages on screen, in the order shown
    more,        \* hasMoreOlder
    opening,     \* the first page is on its way
    older,       \* the instant an older page on its way lies before, or Nothing
    lost         \* the first page did not come

transcriptVars == <<anchor, list, more, opening, older, lost>>

\* The messages route: the newest rows before an instant, as many as fit.  It
\* says nothing of rows of one instant; the index gives them by row.
Page(t, before) ==
    LET earlier == {m \in Messages : ThreadOf[m] = t /\ (before = Nothing \/ At[m] < before)}
        newer(m) == {k \in earlier : At[k] > At[m] \/ (At[k] = At[m] /\ k > m)}
    IN {m \in earlier : Cardinality(newer(m)) < PageSize}

Earlier(m, k) == At[m] < At[k] \/ (At[m] = At[k] /\ m < k)
SortAsc(page) ==
    CHOOSE s \in [1 .. Cardinality(page) -> page] :
        \A i, j \in DOMAIN s : i < j => Earlier(s[i], s[j])

MergeOlder(page, shown) == SortAsc(page \ ToSet(shown)) \o shown

HasMore(page) == Cardinality(page) >= PageSize

-----------------------------------------------------------------------------
Mounted(a, first) ==
    /\ anchor' = a /\ list' = <<>> /\ more' = FALSE /\ opening' = first
    /\ older' = Nothing /\ lost' = FALSE

Unmounted == Mounted(Nothing, FALSE)

\* The reader is pointed elsewhere: what was asked for the old place is given
\* up, but an older page that was asked for stays asked for.
Reopen(a) ==
    /\ Patient => older = Nothing
    /\ anchor' = a /\ list' = <<>> /\ more' = FALSE /\ opening' = TRUE /\ lost' = FALSE
    /\ UNCHANGED older

OpensAtAnchor(t) ==
    /\ opening
    /\ LET page == Page(t, IF anchor = Nothing THEN Nothing ELSE anchor.at)
       IN list' = SortAsc(page) /\ more' = HasMore(page)
    /\ opening' = FALSE
    /\ UNCHANGED <<anchor, older, lost>>

Opens(t) ==
    /\ opening
    /\ LET page == Page(t, IF anchor = Nothing THEN Nothing ELSE anchor.at + 1)
       IN list' = SortAsc(page) /\ more' = HasMore(page)
    /\ opening' = FALSE
    /\ UNCHANGED <<anchor, older, lost>>

OpensNot ==
    /\ opening /\ opening' = FALSE /\ lost' = TRUE
    /\ UNCHANGED <<anchor, list, more, older>>

\* The reader scrolls near the top.
LoadOlder ==
    /\ older = Nothing /\ more /\ list # <<>>
    /\ older' = At[Head(list)]
    /\ UNCHANGED <<anchor, list, more, opening, lost>>

\* It lands on whatever is on screen by then.
OlderLands(t) ==
    /\ older # Nothing
    /\ list' = MergeOlder(Page(t, older), list) /\ more' = HasMore(Page(t, older))
    /\ older' = Nothing
    /\ UNCHANGED <<anchor, opening, lost>>

OlderFails ==
    /\ older # Nothing /\ older' = Nothing
    /\ UNCHANGED <<anchor, list, more, opening, lost>>

Scrolls(t) == Opens(t) \/ OpensNot \/ LoadOlder \/ OlderLands(t) \/ OlderFails

-----------------------------------------------------------------------------
Shown == ToSet(list)
Instants(S) == {At[m] : m \in S}

\* What the top of the list says: there is nothing before this.
SaysBeginning == ~opening /\ ~lost /\ older = Nothing /\ ~more

\* What is on screen is in order, nothing twice, with no instant of the
\* conversation left out between its ends; it reaches to the end of it or to
\* what it was opened at, and there is no earlier instant when it says so.
Whole(t) ==
    LET all == {m \in Messages : ThreadOf[m] = t}
        first == At[Head(list)]
        last == At[list[Len(list)]]
    IN /\ \A i, j \in DOMAIN list : i < j => Earlier(list[i], list[j])
       /\ Shown \subseteq all
       /\ list # <<>> =>
             /\ {s \in Instants(all) : first <= s /\ s <= last} = Instants(Shown)
             /\ SaysBeginning => \A s \in Instants(all) : first <= s
             /\ IF anchor = Nothing THEN \A s \in Instants(all) : s <= last ELSE anchor.id \in Shown

-----------------------------------------------------------------------------
\* What a theorem takes for granted of the archive: no instant has more messages of
\* a conversation than a page takes.  A page says nothing of rows of one instant, so
\* the message that the reader is opened at is only then on the first.
Uncrowded ==
    \A m \in Messages :
        Cardinality({k \in Messages : ThreadOf[k] = ThreadOf[m] /\ At[k] = At[m] /\ k > m}) < PageSize

=============================================================================

------------------------------ MODULE MCLenses ------------------------------
(* A small instance.  An hour is one, a day four, a month twelve, a year     *)
(* twenty-four.  A fight in the first month, nothing in the second, another  *)
(* fight in the third, a picture in the fourth and a kind word in the sixth;  *)
(* rows are not in time order.                                              *)
EXTENDS Lenses

CONSTANTS r1

SmallAt == [r \in 1 .. 7 |-> <<4, 3, 5, 27, 28, 62, 41>>[r]]

SmallSays ==
    [r \in 1 .. 7 |-> CASE r = 2 -> {"death", "kid"} [] r = 3 -> {"apology", "media"}
                        [] r = 5 -> {"physical", "death", "notice"} [] r = 6 -> {"love"}
                        [] r = 7 -> {"nothing", "media"} [] OTHER -> {}]

\* The same, but no message says two things of the ledger at a time, of which it
\* would be filed under one.
SaysApart == [SmallSays EXCEPT ![5] = {"physical", "notice"}]

SmallLimits ==
    [day |-> 4, month |-> 12, year |-> 24, session |-> 2, reply |-> 2, answer |-> 3, repair |-> 12,
     gap |-> 1, near |-> 1, minHostile |-> 2, warm |-> 2, tail |-> 6, mediaStop |-> 12, enough |-> 4,
     deluge |-> 2, halfLife |-> 12, halvings |-> 2, sample |-> 1]

Tone(t, w) == [tension |-> t, warmth |-> w]
\* Both hot; only the first fight, by them; calm.
Hot == [r \in 1 .. 6 |-> <<Tone(2, 0), Tone(3, 0), Tone(2, 0), Tone(3, 0), Tone(2, 0), Tone(0, 2)>>[r]]
Cool == [r \in {1, 2, 3, 4} |-> <<Tone(1, 2), Tone(2, 0), Tone(1, 1), Tone(0, 0)>>[r]]
SmallScorings == {Hot, Cool}
SmallSpectra == {Hot, Cool, <<>>, [r \in {1, 2, 4, 5} |-> Tone(IF r = 4 THEN 3 ELSE r % 3, r % 4)]}

Label(s) == [r \in 1 .. 6 |-> s[r]]
SmallMarks == {Label(<<"name_calling", "threat", "none", "threat", "dismissal", "none">>),
               Label(<<"none", "dismissal", "repair", "threat", "skip", "threat">>)}
SmallSeverity == [l \in {"none", "repair", "dismissal", "name_calling", "threat"} |->
                     CASE l = "dismissal" -> 1 [] l = "name_calling" -> 2 [] l = "threat" -> 3 [] OTHER -> 0]
SmallFloors == [labels |-> 3, hostile |-> 2, severe |-> 2, high |-> 1]

P(kind, side, repair, ids) == [kind |-> kind, side |-> side, repair |-> repair, ids |-> ids]
SmallReads == {Blank, [patterns |-> <<P("threat", "them", FALSE, {2, 4}), P("contempt", "me", FALSE, {1, 5})>>],
               [patterns |-> <<P("threat", "them", TRUE, {2, 4})>>]}

SmallArrivals == {{1, 2, 3}, {4, 5, 6, 7}}
SmallPasts == {[held |-> {}, tone |-> <<>>], [held |-> 1 .. 7, tone |-> Hot]}
\* Half of the archive is in, with nothing read of it.
HalfPast == {[held |-> 4 .. 7, tone |-> <<>>]}
SmallFilters == {[words |-> w, side |-> s, from |-> 0, to |-> 99, tense |-> t, kid |-> FALSE] :
                    w \in {None, "death"}, s \in {None, "me"}, t \in {None, 2}}

\* The instance of the reading: three rows, imported in two steps.
SmallImports == {{1, 2}, {3}}
SmallWords == <<"a", "b">>
SmallPlanned == {Always}
SmallRanges == {{3, 4, 5}, {3, 5}}
B(k, t, ids) == [kind |-> k, text |-> t, ids |-> ids]
SmallReduces == {[strengths |-> <<{1}>>, observation |-> {1, 3}, about |-> 0],
                 [strengths |-> <<{9}>>, observation |-> {2, 3}, about |-> 0]}
SmallRenders == {[blocks |-> <<B("observation", "x", {1, 9}), B("observation", "y", {2})>>, about |-> 0]}

SmallArchives == SUBSET (1 .. 7)
=============================================================================

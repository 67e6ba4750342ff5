------------------------------- MODULE MCPortal -------------------------------
(***************************************************************************)
(* The portal for TLC: one company of two dealerships, the first with two  *)
(* branches, and a few days of a clock that may change.                    *)
(***************************************************************************)
EXTENDS Portal, TLC

CONSTANTS e1, e2, y1, y2    \* dealerships, and two branches of the first

MCSiteOf == y1 :> e1 @@ y2 :> e1

\* Days of four units, and a request somewhere in days 4 and 5; the clocks
\* change, if they do, in the middle of day 5.
Span(start, end) == [start |-> start, end |-> end]
MCHours == {Closed, Span(0, 4), Span(1, 3)}
MCBreaks == {{}, {Span(2, 3)}}
MCClosures ==
    {{}, {[date |-> 5, allDay |-> TRUE, start |-> 0, end |-> 4], [date |-> 6, allDay |-> FALSE, start |-> 1, end |-> 2]}}
MCZones ==
    {[before |-> 0, after |-> 0, at |-> 0], [before |-> 0, after |-> 1, at |-> 21], [before |-> 1, after |-> 0, at |-> 21]}
MCTaken == {{}, {Span(20, 22)}}

\* Tabs, editors and review panels are interchangeable, and so are calls,
\* submissions, surveys and pictures: the configuration gives one set of values
\* to the former and one to the latter.
Symmetric == Permutations(Tab) \cup Permutations(Call)
=============================================================================

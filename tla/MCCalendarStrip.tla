-------------------------- MODULE MCCalendarStrip --------------------------
(* Five days, two and a half in view, today the third. *)
EXTENDS CalendarStrip

\* A day of a view: a few kinds counted, the rest none; its weight, doubled, is the one weight() gives such items.
Of(v, some) == [k \in ToSet(kindsOf(v)) |-> IF k \in DOMAIN some THEN some[k] ELSE 0]
Day(v, some, weight, courses) ==
    [counts |-> Of(v, some), weight |-> weight, step |-> step(weight, TRUE), courses |-> courses, waiting |-> 0]
Empty(v) == Day(v, [k \in {} |-> 0], Units(0), {})
\* The past day nearest today holds an event and done work alone: a press on Late takes the keyboard there.
\* Tomorrow's graded work is a favourite's, so it weighs half as much again; on the teaching day one submission waits.
MCPayload == [v \in Views |-> [d \in Days |->
    CASE v = "learning" /\ d = 0 -> Day(v, [late |-> 1], Units(2), {"c1"})
      [] v = "learning" /\ d = 1 -> Day(v, [event |-> 1, done |-> 1], Units(1), {"c2"})
      [] v = "learning" /\ d = 2 -> Day(v, [todo |-> 2, event |-> 1], Units(7), {"c1"})
      [] v = "learning" /\ d = 3 -> Day(v, [graded |-> 1, done |-> 1], [n |-> 9, d |-> 2], {"c2"})
      [] v = "learning" /\ d = 4 -> Day(v, [todo |-> 1], Units(2), {"c2"})
      [] v = "teaching" /\ d = 3 -> [Day(v, [grade |-> 1], [n |-> 16, d |-> 5], {"c3"}) EXCEPT !.waiting = 1]
      [] OTHER -> Empty(v)]]
\* Today's work turns out done, tomorrow's answer is cut, and the teaching day keeps its grading.
MCDayItems == [v \in Views |-> [d \in Days |->
    CASE v = "learning" /\ d = 2 -> [counts |-> Of(v, [done |-> 2]), truncated |-> FALSE]
      [] v = "learning" /\ d = 3 -> [counts |-> Of(v, [done |-> 1]), truncated |-> TRUE]
      [] OTHER -> [counts |-> MCPayload[v][d].counts, truncated |-> FALSE]]]
=============================================================================

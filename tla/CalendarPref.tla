------------------------------ MODULE CalendarPref ------------------------------
(***************************************************************************)
(* js/esm/src/calendarpref.ts: the one preference the calendar strip and   *)
(* the open-courses line share.  Core's route replaces the whole value, so *)
(* every write is merged over what the page holds.  Writes are applied in  *)
(* the order sent; one that fails was refused, or was applied and its      *)
(* answer lost.                                                            *)
(***************************************************************************)
EXTENDS Integers, Sequences

VARIABLES
    held,      \* the members as the page last wrote them: [view, open, soon, news]
    stored,    \* the members as the server keeps them
    writes     \* the writes out, oldest first: [by, value, mine, before]

prefVars == <<held, stored, writes>>

Members == {"view", "open", "soon", "news"}
seedCalendarPreference(members) == held = members /\ stored = members /\ writes = <<>>

\* Mutant: a write carries its own members alone, the others as they read by default.
MergedAlone(change) == [m \in Members |-> IF m \in DOMAIN change THEN change[m] ELSE IF m = "view" THEN held[m] ELSE FALSE]
\* The members changed, over the ones held.
Merged(change) == [m \in Members |-> IF m \in DOMAIN change THEN change[m] ELSE held[m]]

\* Send the preference with some members changed and every other one carried along.
writeCalendarPreference(by, change, mine, before) ==
    /\ held' = Merged(change)
    /\ writes' = Append(writes, [by |-> by, value |-> Merged(change), mine |-> mine, before |-> before])

\* Put members back after a failed write, without writing.
putBack(change) == held' = Merged(change)
================================================================================

-------------------------- MODULE MCCalendarEntry --------------------------
(* Two requests of one user, one half of the system at a time: the access  *)
(* changes around opened days, or items are completed around Up next.      *)
EXTENDS CalendarEntry, TLC

VARIABLE half

MCDue == [i \in Items |-> i]
MCSymmetry == Permutations(Requests)

Play(kinds) == \A r \in Requests : pc'[r] = "idle" \/ hand'[r].kind \in kinds

MCInit == Init /\ half \in {"access", "items"}
MCNext ==
    /\ Next /\ UNCHANGED half
    /\ IF half = "access" THEN submitted' = {} /\ Play({"get_strip_counts", "get_day"})
       ELSE changes' = 0 /\ Play({"get_strip", "get_soon"})
MCSpec == MCInit /\ [][MCNext]_<<vars, half>>
=============================================================================

-------------------------------- MODULE LastAsk --------------------------------
(***************************************************************************)
(* What every read of the page promises its reader: any number of asks may *)
(* be out, and what is kept is the answer of the last one.  A page that    *)
(* asks again may let go of what it keeps; an answer a later ask has       *)
(* overtaken changes nothing.  Tier 1 (Block.tla) and Up next (UpNext.tla) *)
(* implement it.                                                           *)
(***************************************************************************)
EXTENDS Naturals

CONSTANT Slots          \* what is asked for

VARIABLES
    asked,              \* how many times each was asked for
    kept                \* the ask whose answer is in hand, 0 for none

Ask(s) == asked[s]' > asked[s] /\ kept[s]' \in {kept[s], 0}
Answer(s) == asked[s]' >= asked[s] /\ kept[s]' = asked[s] /\ asked[s] > 0
Stand(s) == asked[s]' = asked[s] /\ kept[s]' = kept[s]

Init == \A s \in Slots : asked[s] \in {0, 1} /\ kept[s] = 0
Next == \A s \in Slots : Ask(s) \/ Answer(s) \/ Stand(s)
Spec == Init /\ [][Next]_<<asked, kept>>
================================================================================

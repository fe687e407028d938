------------------------------- MODULE MCNews -------------------------------
(* A category that may move between a group the viewer is listed and one   *)
(* they are not; a course that may be hidden or moved to the second day;   *)
(* an enrolment window that opens and closes.  The clock passes the age,   *)
(* the TTL and a midnight.                                                 *)
EXTENDS News

MCCategoryOf == [c \in Courses |-> "k"]
MCShapes == {[visible |-> b, start |-> 0] : b \in BOOLEAN} \cup {[visible |-> TRUE, start |-> 3]}
MCWindows == {[enabled |-> TRUE, opens |-> 0, closes |-> 0], [enabled |-> TRUE, opens |-> 1, closes |-> 2]}
MCSettings == {[past |-> 0, ahead |-> 0]}
MCSees == {"k", "g"}
=============================================================================

---------------------------- MODULE MCInventory ----------------------------
(***************************************************************************)
(* Inventory for TLC: two courses with one enrolment method each, and two  *)
(* requests at once.  Renaming the requests, or the courses together with  *)
(* their methods, changes nothing.                                         *)
(***************************************************************************)
EXTENDS Inventory, TLC

CONSTANTS c1, c2, e1, e2

MCCourseOf == (e1 :> c1) @@ (e2 :> c2)

SwapCourses == (c1 :> c2) @@ (c2 :> c1) @@ (e1 :> e2) @@ (e2 :> e1)
SameCourses == (c1 :> c1) @@ (c2 :> c2) @@ (e1 :> e1) @@ (e2 :> e2)

MCSymmetry == {p @@ q : p \in Permutations(Requests), q \in {SameCourses, SwapCourses}}
=============================================================================

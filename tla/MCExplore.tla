----------------------------- MODULE MCExplore ------------------------------
(* Three courses; the field value, the news and the query each keep another pair of them. *)
EXTENDS Explore
MCNameOrder == <<"c1", "c2", "c3">>
MCSelected == {"c1", "c2"}
MCNew == {"c2", "c3"}
MCNamed == {"c1", "c3"}
=============================================================================

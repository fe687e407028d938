----------------------------- MODULE MCPrewarm -----------------------------
(* Three users, the second of whom cannot be warmed.  A batch holds them   *)
(* all, and is full only if it does.                                       *)
EXTENDS Prewarm
=============================================================================

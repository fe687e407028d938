---------------------------- MODULE MCRowDetails ----------------------------
(* The row details hook: two rows, one id a call, so that one row queues    *)
(* behind the other, remounts and one press of Try again.                   *)
EXTENDS RowDetails
=============================================================================

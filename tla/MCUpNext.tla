------------------------------ MODULE MCUpNext ------------------------------
(* A deadline, an event and a class deadline; then the items of a busy afternoon. *)
EXTENDS UpNext
MCItems == {[id |-> 1, view |-> "learning", kind |-> "todo", time |-> 3, lasts |-> 0],
            [id |-> 2, view |-> "learning", kind |-> "event", time |-> 5, lasts |-> 1],
            [id |-> 3, view |-> "learning", kind |-> "todo", time |-> 6, lasts |-> 0],
            [id |-> 4, view |-> "teaching", kind |-> "class", time |-> 4, lasts |-> 0],
            [id |-> 5, view |-> "teaching", kind |-> "event", time |-> 3, lasts |-> 0]}
\* Three deadlines inside the horizon at once, one more than an answer lists.
MCBusyItems == {[id |-> n, view |-> "learning", kind |-> "todo", time |-> 2, lasts |-> 0] : n \in 1 .. 3}
=============================================================================

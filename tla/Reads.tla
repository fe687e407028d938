--------------------------------- MODULE Reads ---------------------------------
(***************************************************************************)
(* js/esm/src/repository.ts: the reads the page sends, each retried alone  *)
(* after any failure, and the one listener the retries report to, which    *)
(* draws the "Reconnecting" line.  A read is a record: its kind, the       *)
(* number its asker gave it, the attempt that is out or was the last, and  *)
(* whether it sleeps before the next one.  The two reads of the first      *)
(* batch (getStripWithNews) share their first attempt.                     *)
(***************************************************************************)
EXTENDS Integers, FiniteSets

CONSTANT RETRY_ATTEMPTS   \* how many times a failed read is asked again

ASSUME RetryAssumption == RETRY_ATTEMPTS \in Nat

VARIABLES
    reads,            \* the reads not over
    retrying,         \* the module's count of the reads between a failure and their end
    reconnecting,     \* the attempt the line shows; 0 for no line
    faults            \* bound: how many attempts may still fail

readVars == <<reads, retrying, reconnecting, faults>>

NoCards == {}

\* A read as its first attempt leaves; what a tier 1 run carries along is empty for the others.
Read(kind, mine) ==
    [kind |-> kind, mine |-> mine, attempt |-> 0, sleeps |-> FALSE, batched |-> FALSE,
     turns |-> FALSE, sees |-> NoCards, rest |-> NoCards]

Retried(r) == r.attempt > 0 \/ r.sleeps
Batch == {r \in reads : r.batched}

\* What may be answered, or fail, at once: the batch's two reads, or one read out alone.
Attempts == {{r} : r \in {q \in reads : ~q.sleeps /\ ~q.batched}} \cup ({Batch} \ {{}})

\* Mutant: the read that ends clears the line whatever the others do.
settleForAll(R) ==
    LET over == Cardinality({r \in R : Retried(r)})
    IN /\ retrying' = retrying - over
       /\ reconnecting' = IF over > 0 THEN 0 ELSE reconnecting
\* The reads of R are over: the line goes when none is retrying any more.
settle(R) ==
    LET over == Cardinality({r \in R : Retried(r)})
    IN /\ retrying' = retrying - over
       /\ reconnecting' = IF over > 0 /\ retrying' = 0 THEN 0 ELSE reconnecting

\* An attempt fails and another is left: the reads say so and sleep, each alone from here on.
retryLater(R) ==
    /\ \A r \in R : r.attempt < RETRY_ATTEMPTS
    /\ faults > 0 /\ faults' = faults - 1
    /\ reads' = (reads \ R) \cup {[r EXCEPT !.sleeps = TRUE, !.batched = FALSE] : r \in R}
    /\ retrying' = retrying + Cardinality({r \in R : ~Retried(r)})
    /\ \E r \in R : reconnecting' = r.attempt + 1

\* The wait is over: the read asks again.
askAgain(r) ==
    /\ r \in reads /\ r.sleeps
    /\ reads' = (reads \ {r}) \cup {[r EXCEPT !.sleeps = FALSE, !.attempt = @ + 1]}
    /\ UNCHANGED <<retrying, reconnecting, faults>>

\* The last attempt failed.
isLastAttempt(r) == r.attempt = RETRY_ATTEMPTS /\ faults > 0

--------------------------------------------------------------------------------
(* The line says "Reconnecting" exactly while some read is between a failed attempt and its end, whoever *)
(* sent it and however many are (repository.ts, read; Block.tsx, onRetry).                               *)
ReconnectingLineIsTrue == (reconnecting # 0) <=> (\E r \in reads : Retried(r))
================================================================================

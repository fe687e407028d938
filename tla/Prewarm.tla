------------------------------ MODULE Prewarm ------------------------------
(***************************************************************************)
(* The pre-warming sweep: classes/local/prewarm.php, run by the scheduled  *)
(* task warm_active_users.  A run selects the users active inside a window *)
(* in batches by id, warms each, and persists a cursor; a run that exhausts*)
(* its time budget, or dies, leaves the cursor for the next one.           *)
(*                                                                         *)
(* Cron's lock lets one run at a time happen.  Users come, visit, are      *)
(* suspended and return between any two steps, warming some of them always *)
(* fails, and a configuration write is a step of its own.                  *)
(***************************************************************************)
EXTENDS Integers, FiniteSets

CONSTANTS
    Users,      \* user ids
    Broken,     \* users whose warm() throws
    BatchSize,  \* prewarm::BATCH_SIZE
    Windows,    \* values of the setting prewarm_days
    FirstDay,   \* the day the site starts
    LastDay,    \* bound: the days that pass
    MaxCrashes, \* bound: runs that die
    MaxEdits    \* bound: suspensions and lost configuration values

ASSUME UsersAssumption == Users \subseteq Nat \ {0} /\ IsFiniteSet(Users) /\ Broken \subseteq Users
ASSUME BatchAssumption == BatchSize \in Nat \ {0}
ASSUME DaysAssumption ==
    /\ FirstDay \in Nat /\ LastDay \in Nat /\ FirstDay <= LastDay
    /\ Windows # {} /\ \A days \in Windows : days \in Nat \ {0} /\ days < FirstDay

None == 0 \* a configuration value that is not set, a user who never came

VARIABLES
    account,  \* [Users -> [access: day of the last visit, or None, active: 0 or 1]]
    clock,    \* the day
    conf,     \* [cursor, since, lastsweep]
    pc,       \* the task: "off", "start", "select", "warm", "save", "reset", "stamp"
    run,      \* the run's variables [now, cursor, since, batch, short, exhausted]
    crashes, edits,
    due,      \* users the sweep owes a warm (history)
    reached   \* users the sweep tried to warm (history)

site == <<account, clock, crashes, edits>>
vars == <<account, clock, conf, pc, run, crashes, edits, due, reached>>

NoRun == [now |-> 0, cursor |-> 0, since |-> None, batch |-> {}, short |-> 0, exhausted |-> 0]

Init ==
    /\ account \in [Users -> [access : {None, FirstDay}, active : {1}]]
    /\ clock = FirstDay
    /\ conf = [cursor |-> 0, since |-> None, lastsweep |-> None]
    /\ pc = "off"
    /\ run = NoRun
    /\ crashes = 0 /\ edits = 0
    /\ due = {} /\ reached = {}

\* lastaccess >= since, not deleted, not suspended.
Eligible(since) ==
    {u \in Users : account[u].active = 1 /\ account[u].access >= since}

Pool(since, cursor) == {u \in Eligible(since) : u > cursor}

\* The selection: the first BatchSize of the pool by id.
Batches(pool) ==
    {B \in SUBSET pool :
        /\ \A u \in B, v \in pool \ B : u < v
        /\ \/ Cardinality(B) = BatchSize
           \/ B = pool /\ Cardinality(B) < BatchSize}

(***************************************************************************)
(* One run                                                                 *)
(***************************************************************************)

\* The run reads its cursor and window; a new sweep, or one whose window is
\* lost, takes a window from now and writes it.  From then on the sweep owes a
\* warm to everyone eligible at its start, a new window to those still in it.
Start ==
    /\ pc = "off"
    /\ \E days \in Windows :
          LET fresh == conf.cursor = 0 \/ conf.since = None
              since == IF fresh THEN clock - days ELSE conf.since
          IN  /\ run' = [NoRun EXCEPT !.now = clock, !.cursor = conf.cursor, !.since = since]
              /\ conf' = [conf EXCEPT !.since = since]
              /\ due' = IF conf.cursor = 0 THEN Eligible(since)
                        ELSE IF fresh THEN due \cap Eligible(since) ELSE due
              /\ reached' = IF conf.cursor = 0 THEN {} ELSE reached
    /\ pc' = "select"
    /\ UNCHANGED site

Select ==
    /\ pc = "select"
    /\ \E B \in Batches(Pool(run.since, run.cursor)) :
          run' = [run EXCEPT !.batch = B,
                             !.short = IF Cardinality(B) < BatchSize THEN 1 ELSE 0]
    /\ pc' = "warm"
    /\ UNCHANGED <<site, conf, due, reached>>

\* A variant the runs reject: the cursor advances inside the try.
AdvanceUnlessThrown(u) == IF u \in Broken THEN run.cursor ELSE u

\* The cursor advances whether or not warm() threw.
Advance(u) == u

\* One user of the batch, in order.  The time may be up after any of them.
Warm ==
    /\ pc = "warm" /\ run.exhausted = 0
    /\ \E u \in run.batch, up \in {0, 1} :
          /\ \A v \in run.batch : u <= v
          /\ run' = [run EXCEPT !.batch = @ \ {u}, !.cursor = Advance(u), !.exhausted = up]
          /\ reached' = reached \cup {u}
    /\ UNCHANGED <<site, conf, pc, due>>

\* A variant the runs reject: a short batch ends the sweep, stopped or not.
EndsWhenShort == run.short = 1

\* A short batch, worked off, ends the sweep.
Ends == run.exhausted = 0 /\ run.short = 1

BatchDone ==
    /\ pc = "warm" /\ (run.batch = {} \/ run.exhausted = 1)
    /\ pc' = IF Ends THEN "reset" ELSE "save"
    /\ UNCHANGED <<site, conf, run, due, reached>>

\* A variant the runs reject: the end of the batch is saved, stopped or not.
SaveTheEndOfTheBatch ==
    /\ pc = "save"
    /\ \E u \in run.batch \cup {run.cursor} :
          /\ \A v \in run.batch : v <= u
          /\ conf' = [conf EXCEPT !.cursor = u]
    /\ pc' = IF run.exhausted = 1 THEN "off" ELSE "select"
    /\ UNCHANGED <<site, run, due, reached>>

\* After a full batch, and where the time was up.
Save ==
    /\ pc = "save"
    /\ conf' = [conf EXCEPT !.cursor = run.cursor]
    /\ pc' = IF run.exhausted = 1 THEN "off" ELSE "select"
    /\ UNCHANGED <<site, run, due, reached>>

\* The sweep's end: the cursor is reset, then the time recorded.
Reset ==
    /\ pc = "reset"
    /\ conf' = [conf EXCEPT !.cursor = 0]
    /\ pc' = "stamp"
    /\ UNCHANGED <<site, run, due, reached>>

Stamp ==
    /\ pc = "stamp"
    /\ conf' = [conf EXCEPT !.lastsweep = run.now]
    /\ pc' = "off"
    /\ UNCHANGED <<site, run, due, reached>>

Run == Start \/ Select \/ Warm \/ BatchDone \/ Save \/ Reset \/ Stamp

(***************************************************************************)
(* The site                                                                *)
(***************************************************************************)

\* The run dies: what it had not written is lost.
Crash ==
    /\ pc # "off" /\ crashes < MaxCrashes
    /\ crashes' = crashes + 1
    /\ pc' = "off"
    /\ UNCHANGED <<account, clock, edits, conf, run, due, reached>>

Visit(u) ==
    /\ account[u].active = 1
    /\ account' = [account EXCEPT ![u] = [access |-> clock, active |-> 1]]
    /\ UNCHANGED <<clock, conf, pc, run, crashes, edits, due, reached>>

\* Suspended or deleted: the sweep owes this user nothing any more.
Suspend(u) ==
    /\ account[u].active = 1 /\ edits < MaxEdits
    /\ edits' = edits + 1
    /\ account' = [account EXCEPT ![u] = [access |-> account[u].access, active |-> 0]]
    /\ due' = due \ {u}
    /\ UNCHANGED <<clock, conf, pc, run, crashes, reached>>

Return(u) ==
    /\ account[u].active = 0
    /\ account' = [account EXCEPT ![u] = [access |-> account[u].access, active |-> 1]]
    /\ UNCHANGED <<clock, conf, pc, run, crashes, edits, due, reached>>

\* The window goes missing under the sweep.
LoseWindow ==
    /\ edits < MaxEdits
    /\ edits' = edits + 1
    /\ conf' = [conf EXCEPT !.since = None]
    /\ UNCHANGED <<account, clock, pc, run, crashes, due, reached>>

Tick ==
    /\ clock < LastDay
    /\ clock' = clock + 1
    /\ UNCHANGED <<account, conf, pc, run, crashes, edits, due, reached>>

Next ==
    \/ Run \/ Crash \/ LoseWindow \/ Tick
    \/ \E u \in Users : Visit(u) \/ Suspend(u) \/ Return(u)

\* Cron keeps running the task, and a run keeps going.
Spec == Init /\ [][Next]_vars /\ WF_vars(Run)

(***************************************************************************)
(* Properties                                                              *)
(***************************************************************************)

\* Every variable has its type; a batch holds users still ahead of the cursor.
TypeOK ==
    /\ account \in [Users -> [access : {None} \cup FirstDay .. clock, active : {0, 1}]]
    /\ clock \in FirstDay .. LastDay
    /\ conf \in [cursor : Users \cup {0}, since : 0 .. clock,
                lastsweep : {None} \cup FirstDay .. clock]
    /\ pc \in {"off", "select", "warm", "save", "reset", "stamp"}
    /\ run \in [now : {None} \cup FirstDay .. clock, cursor : Users \cup {0}, since : 0 .. clock,
               batch : SUBSET Users, short : {0, 1}, exhausted : {0, 1}]
    /\ pc # "off" => run.now # None
    /\ due \subseteq Users /\ reached \subseteq Users
    /\ pc = "warm" => /\ Cardinality(run.batch) <= BatchSize
                      /\ \A u \in run.batch : u > run.cursor

\* Nobody the sweep owes is behind the saved cursor without having been tried:
\* whatever stops, dies, joins or leaves, the next run resumes at nobody's cost.
NobodyIsSkipped == \A u \in due : conf.cursor > 0 /\ u <= conf.cursor => u \in reached

\* When a sweep resets the cursor and records its time, everyone who was in
\* the window from its start on was tried, over however many runs it took.
SweepReachesEveryone == pc \in {"reset", "stamp"} => due \subseteq reached

\* Cron starts the task again and again, with a user whose warm() always
\* throws and runs stopped after each user: sweeps still complete.
SweepsComplete == []<>(pc = "stamp")
=============================================================================

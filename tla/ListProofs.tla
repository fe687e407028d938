----------------------------- MODULE ListProofs -----------------------------
(***************************************************************************)
(* Proofs about the three components that work on a list: Prewarm, for any *)
(* users, any batch size, any number of runs that stop or die, and any     *)
(* configuration edits; RowDetails, for any rows, elements, reports,       *)
(* batches, failures and presses; FilterLine, for any rows and facts, any  *)
(* scopes, texts, ranks and limits, and any order of presses and keys.     *)
(*                                                                         *)
(* The three share no variable: the theorems about one hold whatever the   *)
(* others do.                                                              *)
(***************************************************************************)
EXTENDS Prewarm, RowDetails, FilterLine, FiniteSetTheorems, SequenceTheorems, WellFoundedInduction, TLAPS

(***************************************************************************)
(* Prewarm: the inductive invariant                                        *)
(***************************************************************************)

Running == pc # "off"

\* Whoever is owed a warm is in the run's window, and in the saved one unless
\* that is lost.
Windowed ==
    /\ conf.since # None => due \subseteq Eligible(conf.since)
    /\ Running => due \subseteq Eligible(run.since)

\* Everyone owed up to the run's own cursor was tried.
BehindTheRun ==
    Running => \A u \in due : u <= run.cursor => u \in reached

\* The batch is the next of those owed; a short one is all of them.
BatchIsNext ==
    pc = "warm" =>
        /\ \A u \in due, v \in run.batch : u > run.cursor /\ u \notin run.batch => v < u
        /\ run.short = 1 => \A u \in due : u > run.cursor => u \in run.batch

SweepInv ==
    /\ TypeOK
    /\ Windowed
    /\ BehindTheRun
    /\ BatchIsNext
    /\ NobodyIsSkipped
    /\ SweepReachesEveryone

(***************************************************************************)
(* Prewarm: lemmas                                                         *)
(***************************************************************************)

LEMMA UsersAreNumbers == Users \subseteq Nat /\ 0 \notin Users
BY UsersAssumption

LEMMA CursorsAreNumbers == \A c \in Users \cup {0} : c \in Nat
BY UsersAssumption

\* What the arithmetic of the steps needs of the types.
LEMMA SweepTypes ==
    ASSUME SweepInv
    PROVE  /\ due \subseteq Users /\ run.batch \subseteq Users
           /\ run.cursor \in Nat
           /\ \A u \in due : u \in Nat
<1>1. due \subseteq Users
  BY DEF SweepInv, TypeOK
<1>2. run.batch \in SUBSET Users
  BY DEF SweepInv, TypeOK
<1>3. run.cursor \in Users \cup {0}
  BY DEF SweepInv, TypeOK
<1>4. run.batch \subseteq Users
  BY <1>2, Zenon
<1>5. run.cursor \in Nat
  BY <1>3, CursorsAreNumbers, Zenon
<1>6. \A u \in due : u \in Nat
  BY <1>1, CursorsAreNumbers, Zenon
<1> QED BY <1>1, <1>4, <1>5, <1>6, Zenon

\* A selection is a part of the pool, nothing of the rest comes before it, and
\* one that came back short is the whole pool.
LEMMA SelectionIsNext ==
    ASSUME NEW pool \in SUBSET Users, NEW B \in Batches(pool)
    PROVE  /\ B \subseteq pool
           /\ \A u \in B, v \in pool \ B : u < v
           /\ Cardinality(B) <= BatchSize
           /\ Cardinality(B) < BatchSize => B = pool
<1>1. Cardinality(B) \in Nat
  BY FS_Subset, FS_CardinalityType, UsersAssumption DEF Batches
<1> QED BY <1>1, BatchAssumption DEF Batches

\* Taking one user off a batch of known size leaves a smaller one.
LEMMA BatchShrinks ==
    ASSUME NEW B \in SUBSET Users, NEW u \in B, Cardinality(B) <= BatchSize
    PROVE  Cardinality(B \ {u}) <= BatchSize
<1>1. IsFiniteSet(B)
  BY FS_Subset, UsersAssumption
<1>2. Cardinality(B \ {u}) = Cardinality(B) - 1 /\ Cardinality(B) \in Nat
  BY <1>1, FS_RemoveElement, FS_CardinalityType
<1> QED BY <1>2, BatchAssumption

(***************************************************************************)
(* Prewarm: the steps                                                      *)
(***************************************************************************)

LEMMA SweepInit == Init => SweepInv
<1> SUFFICES ASSUME Init PROVE SweepInv
  OBVIOUS
<1>1. TypeOK
  BY DaysAssumption, UsersAssumption DEF Init, TypeOK, NoRun, None
<1>2. Windowed /\ BehindTheRun /\ BatchIsNext
  BY DEF Init, Windowed, BehindTheRun, BatchIsNext, Running, NoRun, None
<1> QED BY <1>1, <1>2 DEF Init, SweepInv, NobodyIsSkipped, SweepReachesEveryone

LEMMA StartKeepsSweepInv ==
    ASSUME SweepInv, Start
    PROVE  SweepInv'
<1> USE UsersAreNumbers, DaysAssumption
<1>1. PICK since \in 0 .. clock :
          /\ run' = [NoRun EXCEPT !.now = clock, !.cursor = conf.cursor, !.since = since]
          /\ conf' = [conf EXCEPT !.since = since]
          /\ due' = IF conf.cursor = 0 THEN Eligible(since)
                    ELSE IF conf.since = None THEN due \cap Eligible(since) ELSE due
          /\ reached' = IF conf.cursor = 0 THEN {} ELSE reached
          /\ conf.cursor # 0 /\ conf.since # None => since = conf.since
  <2>1. PICK days \in Windows :
            LET fresh == conf.cursor = 0 \/ conf.since = None
                since == IF fresh THEN clock - days ELSE conf.since
            IN  /\ run' = [NoRun EXCEPT !.now = clock, !.cursor = conf.cursor, !.since = since]
                /\ conf' = [conf EXCEPT !.since = since]
                /\ due' = IF conf.cursor = 0 THEN Eligible(since)
                          ELSE IF fresh THEN due \cap Eligible(since) ELSE due
                /\ reached' = IF conf.cursor = 0 THEN {} ELSE reached
    BY DEF Start
  <2> DEFINE s == IF conf.cursor = 0 \/ conf.since = None THEN clock - days ELSE conf.since
  <2>2. clock - days \in 0 .. clock /\ conf.since \in 0 .. clock
    BY DEF SweepInv, TypeOK
  <2>3. s \in 0 .. clock /\ (conf.cursor # 0 /\ conf.since # None => s = conf.since)
    BY <2>2
  <2>4. /\ run' = [NoRun EXCEPT !.now = clock, !.cursor = conf.cursor, !.since = s]
        /\ conf' = [conf EXCEPT !.since = s]
        /\ reached' = IF conf.cursor = 0 THEN {} ELSE reached
    BY <2>1, Zenon
  <2>5. due' = IF conf.cursor = 0 THEN Eligible(s)
               ELSE IF conf.since = None THEN due \cap Eligible(s) ELSE due
    <3> HIDE DEF s
    <3>1. due' = IF conf.cursor = 0 THEN Eligible(s)
                 ELSE IF conf.cursor = 0 \/ conf.since = None THEN due \cap Eligible(s) ELSE due
      BY <2>1, Zenon DEF s
    <3> QED BY <3>1
  <2> HIDE DEF s
  <2> QED BY <2>3, <2>4, <2>5
<1>2. run' = [now |-> clock, cursor |-> conf.cursor, since |-> since, batch |-> {},
              short |-> 0, exhausted |-> 0]
  BY <1>1 DEF NoRun
<1>3. /\ conf' = [cursor |-> conf.cursor, since |-> since, lastsweep |-> conf.lastsweep]
  BY <1>1 DEF SweepInv, TypeOK
<1>4. due' \subseteq Eligible(since) /\ due' \subseteq Users
  BY <1>1 DEF SweepInv, TypeOK, Windowed, Eligible
<1>5. \A u \in due' : u <= conf.cursor => u \in reached'
  BY <1>1 DEF SweepInv, NobodyIsSkipped, TypeOK, Eligible
<1>6. pc' = "select" /\ UNCHANGED <<account, clock>>
  BY DEF Start, site
<1>7. TypeOK'
  <2>1. reached' \subseteq Users
    BY <1>1 DEF SweepInv, TypeOK
  <2>2. run' \in [now : {None} \cup FirstDay .. clock', cursor : Users \cup {0}, since : 0 .. clock',
                  batch : SUBSET Users, short : {0, 1}, exhausted : {0, 1}]
    BY <1>2, <1>3, <1>6 DEF SweepInv, TypeOK
  <2>3. conf' \in [cursor : Users \cup {0}, since : 0 .. clock',
                   lastsweep : {None} \cup FirstDay .. clock']
    BY <1>3, <1>6 DEF SweepInv, TypeOK
  <2>4. run'.now # None
    BY <1>2 DEF SweepInv, TypeOK, None
  <2> QED BY <1>4, <1>6, <2>1, <2>2, <2>3, <2>4 DEF SweepInv, TypeOK
<1>8. Windowed'
  <2>1. due' \subseteq Eligible(since)'
    BY <1>4, <1>6 DEF Eligible
  <2> QED BY <1>2, <1>3, <2>1 DEF Windowed, Eligible
<1>9. BehindTheRun' /\ BatchIsNext' /\ NobodyIsSkipped' /\ SweepReachesEveryone'
  BY <1>2, <1>3, <1>5, <1>6
     DEF BehindTheRun, BatchIsNext, NobodyIsSkipped, SweepReachesEveryone
<1> QED BY <1>7, <1>8, <1>9 DEF SweepInv

LEMMA SelectKeepsSweepInv ==
    ASSUME SweepInv, Select
    PROVE  SweepInv'
<1> USE UsersAreNumbers
<1>1. PICK B \in Batches(Pool(run.since, run.cursor)) :
          run' = [run EXCEPT !.batch = B, !.short = IF Cardinality(B) < BatchSize THEN 1 ELSE 0]
  BY DEF Select
<1>2. /\ pc = "select" /\ pc' = "warm"
      /\ UNCHANGED <<account, clock, conf, due, reached>>
  BY DEF Select, site
<1> Pool(run.since, run.cursor) \subseteq Users
  BY DEF Pool, Eligible
<1>3. /\ run' \in [now : {None} \cup FirstDay .. clock, cursor : Users \cup {0}, since : 0 .. clock,
                   batch : SUBSET Users, short : {0, 1}, exhausted : {0, 1}]
      /\ run'.batch = B /\ run'.cursor = run.cursor /\ run'.since = run.since /\ run'.now = run.now
      /\ run'.short = 1 => Cardinality(B) < BatchSize
  <2> DEFINE short == IF Cardinality(B) < BatchSize THEN 1 ELSE 0
  <2>1. B \in SUBSET Users
    BY SelectionIsNext
  <2>2. short \in {0, 1} /\ (short = 1 => Cardinality(B) < BatchSize)
    OBVIOUS
  <2>3. run' = [run EXCEPT !.batch = B, !.short = short]
    BY <1>1
  <2> HIDE DEF short
  <2> QED BY <2>1, <2>2, <2>3 DEF SweepInv, TypeOK
<1>4. \A u \in due : u > run.cursor => u \in Pool(run.since, run.cursor)
  BY <1>2 DEF SweepInv, Windowed, Running, Pool
<1>5. TypeOK'
  <2>1. Cardinality(B) <= BatchSize /\ \A u \in B : u > run.cursor
    BY SelectionIsNext DEF Pool
  <2> QED BY <1>2, <1>3, <2>1 DEF SweepInv, TypeOK
<1>6. Windowed'
  BY <1>2, <1>3 DEF SweepInv, Windowed, Running, Eligible
<1>7. BatchIsNext'
  <2>1. \A u \in due, v \in B : u > run.cursor /\ u \notin B => v < u
    BY <1>4, SelectionIsNext
  <2>2. Cardinality(B) < BatchSize => \A u \in due : u > run.cursor => u \in B
    BY <1>4, SelectionIsNext
  <2> QED BY <1>2, <1>3, <2>1, <2>2 DEF BatchIsNext
<1>8. BehindTheRun' /\ NobodyIsSkipped' /\ SweepReachesEveryone'
  BY <1>2, <1>3 DEF SweepInv, BehindTheRun, Running, NobodyIsSkipped, SweepReachesEveryone
<1> QED BY <1>5, <1>6, <1>7, <1>8 DEF SweepInv

LEMMA WarmKeepsSweepInv ==
    ASSUME SweepInv, Warm
    PROVE  SweepInv'
<1> USE UsersAreNumbers
<1>1. PICK u \in run.batch, up \in {0, 1} :
          /\ \A v \in run.batch : u <= v
          /\ run' = [run EXCEPT !.batch = @ \ {u}, !.cursor = u, !.exhausted = up]
          /\ reached' = reached \cup {u}
  BY DEF Warm, Advance
<1>2. /\ pc = "warm" /\ pc' = "warm"
      /\ UNCHANGED <<account, clock, conf, due>>
  BY DEF Warm, site
<1>3. u \in Users /\ run.batch \subseteq Users /\ due \subseteq Users /\ u > run.cursor
      /\ run.cursor \in Nat
  <2>1. u > run.cursor
    BY <1>2 DEF SweepInv, TypeOK
  <2> QED BY <2>1, SweepTypes, Zenon
<1>4. /\ run' \in [now : {None} \cup FirstDay .. clock, cursor : Users \cup {0}, since : 0 .. clock,
                   batch : SUBSET Users, short : {0, 1}, exhausted : {0, 1}]
      /\ run'.batch = run.batch \ {u} /\ run'.cursor = u /\ run'.short = run.short
      /\ run'.since = run.since /\ run'.now = run.now
  BY <1>1, <1>3 DEF SweepInv, TypeOK
<1>5. TypeOK'
  <2>1. Cardinality(run.batch \ {u}) <= BatchSize
    BY <1>2, <1>3, BatchShrinks DEF SweepInv, TypeOK
  <2>2. \A v \in run.batch \ {u} : v > u
    BY <1>1, <1>3
  <2> QED BY <1>1, <1>2, <1>3, <1>4, <2>1, <2>2 DEF SweepInv, TypeOK
<1>6. Windowed'
  BY <1>2, <1>4 DEF SweepInv, Windowed, Running, Eligible
<1>7. \A w \in due : w <= u => w \in reached'
  <2>1. SUFFICES ASSUME NEW w \in due, w <= u, w # u, w > run.cursor
                 PROVE  FALSE
    BY <1>1, <1>2, <1>3 DEF SweepInv, BehindTheRun, Running
  <2>2. w \notin run.batch
    BY <1>1, <1>3, <2>1
  <2>3. u < w
    BY <1>1, <1>2, <2>1, <2>2 DEF SweepInv, BatchIsNext
  <2> QED BY <1>3, <2>1, <2>3
<1>8. BatchIsNext'
  <2>1. \A w \in due : w > u => w > run.cursor /\ w # u
    BY <1>3
  <2> QED BY <1>2, <1>4, <2>1 DEF SweepInv, BatchIsNext
<1>9. BehindTheRun' /\ NobodyIsSkipped' /\ SweepReachesEveryone'
  BY <1>1, <1>2, <1>4, <1>7
     DEF SweepInv, BehindTheRun, Running, NobodyIsSkipped, SweepReachesEveryone
<1> QED BY <1>5, <1>6, <1>8, <1>9 DEF SweepInv

\* A batch that ends the sweep was short and is worked off: everyone owed is
\* behind the run.
LEMMA BatchDoneKeepsSweepInv ==
    ASSUME SweepInv, BatchDone
    PROVE  SweepInv'
<1> USE UsersAreNumbers
<1>1. /\ pc = "warm" /\ pc' = IF Ends THEN "reset" ELSE "save"
      /\ run.batch = {} \/ run.exhausted = 1
      /\ UNCHANGED <<account, clock, conf, run, due, reached>>
  BY DEF BatchDone, site
<1>2. Ends => due \subseteq reached
  <2> SUFFICES ASSUME Ends, NEW u \in due PROVE u \in reached
    OBVIOUS
  <2>1. ~(u > run.cursor)
    BY <1>1 DEF Ends, SweepInv, BatchIsNext
  <2>2. u <= run.cursor
    BY <2>1, SweepTypes
  <2> QED BY <1>1, <2>2 DEF SweepInv, BehindTheRun, Running
<1>3. TypeOK'
  BY <1>1 DEF SweepInv, TypeOK
<1>4. Windowed' /\ BehindTheRun' /\ BatchIsNext' /\ NobodyIsSkipped'
  BY <1>1 DEF SweepInv, Windowed, BehindTheRun, BatchIsNext, NobodyIsSkipped, Running, Eligible
<1>5. SweepReachesEveryone'
  BY <1>1, <1>2 DEF SweepReachesEveryone
<1> QED BY <1>3, <1>4, <1>5 DEF SweepInv

\* The saved cursor moves to the run's, to the start, or not at all.
LEMMA WriteKeepsSweepInv ==
    ASSUME SweepInv, Save \/ Reset \/ Stamp
    PROVE  SweepInv'
<1> USE UsersAreNumbers
<1>1. /\ pc \in {"save", "reset", "stamp"} /\ pc' \in {"off", "select", "stamp"}
      /\ pc' = "stamp" => pc = "reset"
      /\ UNCHANGED <<account, clock, run, due, reached>>
  BY DEF Save, Reset, Stamp, site
<1>2. /\ conf' \in [cursor : Users \cup {0}, since : 0 .. clock,
                    lastsweep : {None} \cup FirstDay .. clock]
      /\ conf'.since = conf.since
      /\ conf'.cursor \in {conf.cursor, 0, run.cursor}
  BY DEF Save, Reset, Stamp, SweepInv, TypeOK
<1>3. TypeOK'
  BY <1>1, <1>2 DEF SweepInv, TypeOK
<1>4. Windowed' /\ BehindTheRun' /\ BatchIsNext' /\ SweepReachesEveryone'
  BY <1>1, <1>2
     DEF SweepInv, Windowed, BehindTheRun, BatchIsNext, SweepReachesEveryone, Running, Eligible
<1>5. NobodyIsSkipped'
  BY <1>1, <1>2 DEF SweepInv, BehindTheRun, NobodyIsSkipped, Running
<1> QED BY <1>3, <1>4, <1>5 DEF SweepInv

LEMMA SiteKeepsSweepInv ==
    ASSUME SweepInv,
           Crash \/ LoseWindow \/ Tick \/ \E u \in Users : Visit(u) \/ Suspend(u) \/ Return(u)
    PROVE  SweepInv'
<1> USE UsersAreNumbers, DaysAssumption
<1>1. CASE Crash
  BY <1>1 DEF Crash, SweepInv, TypeOK, Windowed, BehindTheRun, BatchIsNext, NobodyIsSkipped,
              SweepReachesEveryone, Running, Eligible
<1>2. CASE LoseWindow
  <2>1. /\ conf' = [cursor |-> conf.cursor, since |-> None, lastsweep |-> conf.lastsweep]
        /\ UNCHANGED <<account, clock, pc, run, due, reached>>
    BY <1>2 DEF LoseWindow, SweepInv, TypeOK
  <2>2. TypeOK'
    BY <2>1 DEF SweepInv, TypeOK, None
  <2> QED BY <2>1, <2>2 DEF SweepInv, Windowed, BehindTheRun, BatchIsNext, NobodyIsSkipped,
              SweepReachesEveryone, Running, Eligible
<1>3. CASE Tick
  <2>1. clock' = clock + 1 /\ clock' \in FirstDay .. LastDay
        /\ UNCHANGED <<account, conf, pc, run, due, reached>>
    BY <1>3 DEF Tick, SweepInv, TypeOK
  <2>2. 0 .. clock \subseteq 0 .. clock' /\ FirstDay .. clock \subseteq FirstDay .. clock'
    BY <2>1 DEF SweepInv, TypeOK
  <2>3. /\ account' \in [Users -> [access : {None} \cup FirstDay .. clock', active : {0, 1}]]
        /\ conf' \in [cursor : Users \cup {0}, since : 0 .. clock',
                      lastsweep : {None} \cup FirstDay .. clock']
        /\ run' \in [now : {None} \cup FirstDay .. clock', cursor : Users \cup {0}, since : 0 .. clock',
                     batch : SUBSET Users, short : {0, 1}, exhausted : {0, 1}]
    BY <2>1, <2>2 DEF SweepInv, TypeOK
  <2>4. TypeOK'
    BY <2>1, <2>3 DEF SweepInv, TypeOK
  <2> QED BY <2>1, <2>4 DEF SweepInv, Windowed, BehindTheRun, BatchIsNext, NobodyIsSkipped,
              SweepReachesEveryone, Running, Eligible
<1>4. ASSUME NEW u \in Users, Visit(u) \/ Suspend(u) \/ Return(u)
      PROVE  SweepInv'
  <2>1. /\ account' \in [Users -> [access : {None} \cup FirstDay .. clock, active : {0, 1}]]
        /\ UNCHANGED <<clock, conf, pc, run, reached>>
        /\ due' \subseteq due
    BY <1>4 DEF Visit, Suspend, Return, SweepInv, TypeOK
  <2>2. \A w \in due' : \A since \in 0 .. clock : w \in Eligible(since) => w \in Eligible(since)'
    <3> SUFFICES ASSUME NEW w \in due', NEW since \in 0 .. clock, w \in Eligible(since)
                 PROVE  account'[w].active = 1 /\ account'[w].access >= since
      BY DEF Eligible
    <3>1. w # u => account'[w] = account[w]
      BY <1>4 DEF Visit, Suspend, Return, SweepInv, TypeOK, Eligible
    <3>2. w = u => /\ account'[u].active = 1
                   /\ account'[u].access \in {account[u].access, clock}
      BY <1>4 DEF Visit, Suspend, Return, SweepInv, TypeOK, Eligible
    <3> QED BY <3>1, <3>2 DEF Eligible, SweepInv, TypeOK
  <2>3. TypeOK'
    BY <2>1 DEF SweepInv, TypeOK
  <2>4. Windowed'
    <3>1. conf.since \in 0 .. clock /\ run.since \in 0 .. clock
      BY DEF SweepInv, TypeOK
    <3> DEFINE saved == conf.since
               own == run.since
    <3>2. conf.since # None => due' \subseteq Eligible(saved)'
      BY <2>1, <2>2, <3>1 DEF SweepInv, Windowed
    <3>3. Running => due' \subseteq Eligible(own)'
      BY <2>1, <2>2, <3>1 DEF SweepInv, Windowed
    <3> QED BY <2>1, <3>2, <3>3 DEF Windowed, Running, Eligible
  <2> QED BY <2>1, <2>3, <2>4 DEF SweepInv, BehindTheRun, BatchIsNext, NobodyIsSkipped,
              SweepReachesEveryone, Running
<1> QED BY <1>1, <1>2, <1>3, <1>4

LEMMA SweepNext == SweepInv /\ [Next]_vars => SweepInv'
<1> SUFFICES ASSUME SweepInv, [Next]_vars PROVE SweepInv'
  OBVIOUS
<1>1. CASE Run
  BY <1>1, StartKeepsSweepInv, SelectKeepsSweepInv, WarmKeepsSweepInv, BatchDoneKeepsSweepInv,
     WriteKeepsSweepInv DEF Run
<1>2. CASE Crash \/ LoseWindow \/ Tick \/ \E u \in Users : Visit(u) \/ Suspend(u) \/ Return(u)
  BY <1>2, SiteKeepsSweepInv
<1>3. CASE UNCHANGED vars
  BY <1>3 DEF vars, site, SweepInv, TypeOK, Windowed, BehindTheRun, BatchIsNext, NobodyIsSkipped,
              SweepReachesEveryone, Running, Eligible
<1> QED BY <1>1, <1>2, <1>3 DEF Next

(***************************************************************************)
(* Prewarm: the theorems                                                   *)
(***************************************************************************)

\* The inductive invariant of the sweep, over every run that stops, dies or
\* loses its window.
THEOREM SweepInvariant == Spec => []SweepInv
<1> QED BY SweepInit, SweepNext, PTL DEF Spec

\* The state of the sweep is well typed, and a batch holds at most BATCH_SIZE
\* users, all ahead of the cursor.
THEOREM PrewarmTypeCorrect == Spec => []TypeOK
<1>1. SweepInv => TypeOK
  BY DEF SweepInv
<1> QED BY <1>1, SweepInvariant, PTL

\* prewarm::run() saves a cursor behind which nobody the sweep owes a warm was
\* left out.
THEOREM CursorSkipsNobody == Spec => []NobodyIsSkipped
<1>1. SweepInv => NobodyIsSkipped
  BY DEF SweepInv
<1> QED BY <1>1, SweepInvariant, PTL

\* prewarm::run() records a completed sweep only when everyone who was in the
\* window from the sweep's start on was tried.
THEOREM CompletedSweepReachedEveryone == Spec => []SweepReachesEveryone
<1>1. SweepInv => SweepReachesEveryone
  BY DEF SweepInv
<1> QED BY <1>1, SweepInvariant, PTL

(***************************************************************************)
(* Row details: induction, written out on the least counterexample         *)
(***************************************************************************)

\* A set of naturals has a least element.
LEMMA LeastNatural == ASSUME NEW T, T \subseteq Nat, T # {} PROVE \E x \in T : \A y \in T : x <= y
<1> DEFINE less == {p \in Nat \X Nat : p[1] < p[2]}
<1>1. IsWellFoundedOn(less, Nat)
  BY NatLessThanWellFounded DEF OpToRel
<1>2. PICK x \in T : \A y \in T : <<y, x>> \notin less
  <2> HIDE DEF less
  <2> QED BY <1>1, WFMin
<1>3. ASSUME NEW y \in T PROVE x <= y
  <2>1. <<y, x>> \in Nat \X Nat /\ ~(y < x)
    BY <1>2, <1>3
  <2> QED BY <2>1
<1> QED BY <1>3

LEMMA Induction == ASSUME NEW S, 0 \in S, \A n \in Nat : n \in S => n + 1 \in S PROVE Nat \subseteq S
<1> DEFINE T == Nat \ S
<1> SUFFICES ASSUME T # {} PROVE FALSE
  OBVIOUS
<1>1. PICK x \in T : \A y \in T : x <= y
  <2> HIDE DEF T
  <2>1. T \subseteq Nat
    BY DEF T
  <2> QED BY <2>1, LeastNatural
<1>2. x # 0 /\ x - 1 \in Nat /\ x - 1 \notin T
  BY <1>1
<1>3. x - 1 \in S /\ (x - 1) + 1 = x
  BY <1>2
<1> QED BY <1>2, <1>3

(***************************************************************************)
(* Row details: the inductive invariant                                    *)
(***************************************************************************)

Notes == [el : Elements, at : {"in", "out"}]
Desks == [pending : Seq(Rows), waiting : SUBSET Rows, timer : BOOLEAN]

\* A desk in turn: no row waits twice, and none waits that is out or answered.
InTurn(d, taken) ==
    /\ d \in Desks
    /\ IsInjective(d.pending)
    /\ ToSet(d.pending) \cap taken = {}

\* What is registered, and what a report is about, is a row.
NamesRows ==
    /\ notes \in Seq(Notes)
    /\ \A e \in DOMAIN idofelement : idofelement[e] \in Rows
    /\ DOMAIN elementofid \subseteq Rows

\* A row was asked for since the last Try again exactly if its request is out or over.
AskedOnce == asked = [r \in Rows |-> IF r \in inflight \cup filled THEN 1 ELSE 0]

DetailsInv ==
    /\ NamesRows
    /\ inflight \subseteq Rows /\ filled \subseteq Rows
    /\ inflight \cap filled = {} /\ failedids \subseteq filled
    /\ InTurn(desk, inflight \cup filled)
    /\ AskedOnce

(***************************************************************************)
(* Row details: lists of rows                                              *)
(***************************************************************************)

LEMMA MembersOf == \A s, x : x \in ToSet(s) <=> \E i \in DOMAIN s : s[i] = x
BY DEF ToSet

\* An id taken out of a list without repetitions.
LEMMA WithoutIs ==
    ASSUME NEW s \in Seq(Rows), IsInjective(s), NEW r \in ToSet(s)
    PROVE  /\ Without(s, r) \in Seq(Rows)
           /\ IsInjective(Without(s, r))
           /\ ToSet(Without(s, r)) \subseteq ToSet(s)
<1> DEFINE i == CHOOSE i \in DOMAIN s : s[i] = r
           n == Len(s)
           t == Without(s, r)
<1>1. n \in Nat /\ DOMAIN s = 1 .. n /\ \A j \in 1 .. n : s[j] \in Rows
  BY LenProperties, ElementOfSeq
<1>2. i \in 1 .. n
  BY <1>1, MembersOf
<1>3. t = SubSeq(s, 1, i - 1) \o SubSeq(s, i + 1, n)
  BY DEF Without, RemoveAt
<1> HIDE DEF i, n, t
<1>4. t \in Seq(Rows) /\ Len(t) = n - 1
      /\ \A j \in 1 .. n - 1 : t[j] = IF j < i THEN s[j] ELSE s[j + 1]
  <2> DEFINE a == SubSeq(s, 1, i - 1)
             b == SubSeq(s, i + 1, n)
  <2>1. a \in Seq(Rows) /\ Len(a) = i - 1 /\ \A j \in 1 .. i - 1 : a[j] = s[j]
    BY <1>1, <1>2
  <2>2. b \in Seq(Rows) /\ Len(b) = n - i /\ \A j \in 1 .. n - i : b[j] = s[j + i]
    BY <1>1, <1>2
  <2>3. t = a \o b
    BY <1>3
  <2> HIDE DEF a, b
  <2>4. /\ t \in Seq(Rows) /\ Len(t) = Len(a) + Len(b)
        /\ \A j \in 1 .. Len(a) + Len(b) : t[j] = IF j <= Len(a) THEN a[j] ELSE b[j - Len(a)]
    BY <2>1, <2>2, <2>3, ConcatProperties
  <2>5. (i - 1) + (n - i) = n - 1
    BY <1>1, <1>2
  <2>6. ASSUME NEW j \in 1 .. n - 1 PROVE t[j] = IF j < i THEN s[j] ELSE s[j + 1]
    <3>1. t[j] = IF j <= i - 1 THEN a[j] ELSE b[j - (i - 1)]
      BY <2>1, <2>2, <2>4, <2>5
    <3>2. CASE j < i
      <4>1. j \in 1 .. i - 1 /\ j <= i - 1
        BY <1>1, <1>2, <3>2
      <4> QED BY <2>1, <3>1, <3>2, <4>1
    <3>3. CASE ~(j < i)
      <4> DEFINE k == j - (i - 1)
      <4>1. k \in 1 .. n - i /\ k + i = j + 1 /\ ~(j <= i - 1)
        BY <1>1, <1>2, <3>3
      <4>2. t[j] = b[k]
        BY <3>1, <4>1
      <4> HIDE DEF k
      <4>3. b[k] = s[k + i]
        BY <2>2, <4>1
      <4> QED BY <3>3, <4>1, <4>2, <4>3
    <3> QED BY <3>2, <3>3
  <2> QED BY <2>1, <2>2, <2>4, <2>5, <2>6
<1>5. DOMAIN t = 1 .. n - 1
  BY <1>4, LenProperties
<1>6. \A j \in 1 .. n - 1 : j \in 1 .. n /\ j + 1 \in 1 .. n
  BY <1>1
<1>7. \A j, k \in 1 .. n - 1 : t[j] = t[k] => j = k
  <2> SUFFICES ASSUME NEW j \in 1 .. n - 1, NEW k \in 1 .. n - 1, t[j] = t[k] PROVE j = k
    OBVIOUS
  <2> DEFINE p == IF j < i THEN j ELSE j + 1
             q == IF k < i THEN k ELSE k + 1
  <2>1. p \in 1 .. n /\ q \in 1 .. n /\ t[j] = s[p] /\ t[k] = s[q]
    BY <1>4, <1>6
  <2>2. p = q
    BY <1>1, <2>1 DEF IsInjective
  <2> QED BY <1>1, <1>2, <2>2
<1>8. IsInjective(t)
  BY <1>5, <1>7 DEF IsInjective
<1>9. ToSet(t) \subseteq ToSet(s)
  BY <1>1, <1>4, <1>5, <1>6, MembersOf
<1> QED BY <1>4, <1>8, <1>9 DEF t

\* Two lists with nothing in common, one after the other.
LEMMA JoinedIs ==
    ASSUME NEW s \in Seq(Rows), NEW t \in Seq(Rows), IsInjective(s), IsInjective(t), ToSet(s) \cap ToSet(t) = {}
    PROVE  /\ s \o t \in Seq(Rows)
           /\ IsInjective(s \o t)
           /\ ToSet(s \o t) = ToSet(s) \cup ToSet(t)
<1> DEFINE m == Len(s)
           n == Len(t)
           u == s \o t
<1>1. m \in Nat /\ DOMAIN s = 1 .. m /\ n \in Nat /\ DOMAIN t = 1 .. n
  BY LenProperties
<1>2. /\ u \in Seq(Rows) /\ Len(u) = m + n
      /\ \A j \in 1 .. m + n : u[j] = IF j <= m THEN s[j] ELSE t[j - m]
  BY ConcatProperties
<1> HIDE DEF m, n, u
<1>3. DOMAIN u = 1 .. m + n
  BY <1>2, LenProperties
<1>4. \A j \in 1 .. m + n :
         \/ j \in 1 .. m /\ u[j] = s[j]
         \/ j - m \in 1 .. n /\ u[j] = t[j - m]
  BY <1>1, <1>2
<1>5. \A j \in 1 .. m : s[j] \in ToSet(s)
  BY <1>1, MembersOf
<1>6. \A j \in 1 .. n : t[j] \in ToSet(t)
  BY <1>1, MembersOf
<1>7. ASSUME NEW j \in 1 .. m + n, NEW k \in 1 .. m + n, u[j] = u[k] PROVE j = k
  <2>1. CASE j \in 1 .. m /\ u[j] = s[j]
    <3>1. k \in 1 .. m /\ u[k] = s[k]
      BY <1>4, <1>5, <1>6, <1>7, <2>1
    <3> QED BY <1>1, <1>7, <2>1, <3>1 DEF IsInjective
  <2>2. CASE j - m \in 1 .. n /\ u[j] = t[j - m]
    <3>1. k - m \in 1 .. n /\ u[k] = t[k - m]
      BY <1>4, <1>5, <1>6, <1>7, <2>2
    <3>2. j - m = k - m
      BY <1>1, <1>7, <2>2, <3>1 DEF IsInjective
    <3> QED BY <1>1, <3>2
  <2> QED BY <1>4, <2>1, <2>2
<1>8. IsInjective(u)
  BY <1>3, <1>7 DEF IsInjective
<1>9. ToSet(u) \subseteq ToSet(s) \cup ToSet(t)
  <2> SUFFICES ASSUME NEW x \in ToSet(u) PROVE x \in ToSet(s) \/ x \in ToSet(t)
    OBVIOUS
  <2>1. PICK j \in 1 .. m + n : u[j] = x
    BY <1>3, MembersOf
  <2> QED BY <1>4, <1>5, <1>6, <2>1
<1>10. \A j \in 1 .. m : j \in 1 .. m + n /\ u[j] = s[j]
  BY <1>1, <1>2
<1>11. ASSUME NEW j \in 1 .. n PROVE m + j \in 1 .. m + n /\ u[m + j] = t[j]
  <2>1. m + j \in 1 .. m + n /\ ~(m + j <= m) /\ (m + j) - m = j
    BY <1>1
  <2> QED BY <1>2, <2>1
<1>12. ToSet(s) \subseteq ToSet(u)
  BY <1>1, <1>3, <1>10, MembersOf
<1>13. ToSet(t) \subseteq ToSet(u)
  BY <1>1, <1>3, <1>11, MembersOf
<1> QED BY <1>2, <1>8, <1>9, <1>12, <1>13 DEF u

\* The head of a list without repetitions, and what is left.
LEMMA HeadIs ==
    ASSUME NEW s \in Seq(Rows), IsInjective(s), NEW k \in 0 .. Len(s),
           NEW a, a = SubSeq(s, 1, k), NEW b, b = SubSeq(s, k + 1, Len(s))
    PROVE  /\ Len(a) = k /\ b \in Seq(Rows) /\ IsInjective(b)
           /\ ToSet(a) \subseteq ToSet(s) /\ ToSet(b) \subseteq ToSet(s)
           /\ ToSet(a) \cap ToSet(b) = {}
<1> DEFINE n == Len(s)
<1>1. n \in Nat /\ DOMAIN s = 1 .. n /\ k \in Nat /\ k <= n
  BY LenProperties
<1>2. a \in Seq(Rows) /\ Len(a) = k /\ \A j \in 1 .. k : a[j] = s[j]
  BY <1>1
<1>3. b \in Seq(Rows) /\ Len(b) = n - k /\ \A j \in 1 .. n - k : b[j] = s[j + k]
  <2> DEFINE m == k + 1
  <2>1. m \in 1 .. n + 1 /\ n \in m - 1 .. n
    BY <1>1
  <2> HIDE DEF m
  <2>2. /\ SubSeq(s, m, n) \in Seq(Rows) /\ Len(SubSeq(s, m, n)) = n - m + 1
        /\ \A j \in 1 .. n - m + 1 : SubSeq(s, m, n)[j] = s[m + j - 1]
    BY <2>1, SubSeqProperties
  <2>3. n - m + 1 = n - k /\ \A j \in 1 .. n - k : m + j - 1 = j + k
    BY <1>1 DEF m
  <2> QED BY <2>2, <2>3 DEF m
<1> HIDE DEF n
<1>4. DOMAIN a = 1 .. k /\ DOMAIN b = 1 .. n - k
  BY <1>2, <1>3, LenProperties
<1> DEFINE A == ToSet(a)
           B == ToSet(b)
           S == ToSet(s)
<1>5. A = {a[j] : j \in 1 .. k} /\ B = {b[j] : j \in 1 .. n - k} /\ S = {s[j] : j \in 1 .. n}
  BY <1>1, <1>4 DEF ToSet
<1> HIDE DEF A, B, S
<1>6. \A j \in 1 .. n - k : j + k \in 1 .. n
  BY <1>1
<1>7. \A j, l \in 1 .. n - k : b[j] = b[l] => j = l
  <2> SUFFICES ASSUME NEW j \in 1 .. n - k, NEW l \in 1 .. n - k, b[j] = b[l] PROVE j = l
    OBVIOUS
  <2>1. j + k = l + k
    BY <1>1, <1>3, <1>6 DEF IsInjective
  <2> QED BY <1>1, <2>1
<1>8. IsInjective(b)
  BY <1>4, <1>7 DEF IsInjective
<1>9. A \subseteq S
  <2>1. \A j \in 1 .. k : j \in 1 .. n
    BY <1>1
  <2> QED BY <1>2, <1>5, <2>1
<1>10. B \subseteq S
  BY <1>3, <1>6, <1>5
<1>11. ASSUME NEW x \in A, x \in B PROVE FALSE
  <2>1. PICK j \in 1 .. k : x = s[j]
    BY <1>2, <1>11, <1>5
  <2>2. PICK l \in 1 .. n - k : x = s[l + k]
    BY <1>3, <1>11, <1>5
  <2>3. j \in 1 .. n /\ l + k \in 1 .. n /\ j # l + k
    BY <1>1
  <2> QED BY <1>1, <2>1, <2>2, <2>3 DEF IsInjective
<1> QED BY <1>2, <1>3, <1>8, <1>9, <1>10, <1>11 DEF A, B, S

(***************************************************************************)
(* Row details: the desk                                                   *)
(***************************************************************************)

LEMMA WantedInTurn ==
    ASSUME NEW d, NEW r \in Rows, NEW answered, InTurn(d, inflight \cup answered)
    PROVE  InTurn(Wanted(d, r, answered), inflight \cup answered)
<1>1. CASE r \in answered \cup ToSet(d.pending) \cup inflight
  BY <1>1 DEF Wanted
<1>2. CASE ~(r \in answered \cup ToSet(d.pending) \cup inflight)
  <2> DEFINE s == d.pending
             e == Wanted(d, r, answered)
  <2>1. s \in Seq(Rows) /\ IsInjective(s) /\ d.waiting \subseteq Rows /\ ToSet(s) \cap (inflight \cup answered) = {}
    BY DEF InTurn, Desks
  <2>2. e = [pending |-> Append(s, r), waiting |-> d.waiting \cup {r}, timer |-> TRUE]
    BY <1>2 DEF Wanted
  <2> HIDE DEF s, e
  <2>3. /\ <<r>> \in Seq(Rows) /\ IsInjective(<<r>>) /\ ToSet(<<r>>) = {r} /\ Append(s, r) = s \o <<r>>
    <3>1. <<r>> \in Seq(Rows) /\ DOMAIN <<r>> = {1} /\ <<r>>[1] = r
      OBVIOUS
    <3>2. IsInjective(<<r>>) /\ ToSet(<<r>>) = {r}
      BY <3>1 DEF IsInjective, ToSet
    <3>3. Append(s, r) = s \o <<r>>
      BY <2>1, AppendIsConcat
    <3> QED BY <3>1, <3>2, <3>3
  <2>4. r \notin ToSet(s) /\ r \notin inflight \cup answered
    BY <1>2 DEF s
  <2> DEFINE t == <<r>>
  <2>5. t \in Seq(Rows) /\ IsInjective(t) /\ ToSet(t) = {r} /\ Append(s, r) = s \o t
    BY <2>3
  <2> HIDE DEF t
  <2>6. s \o t \in Seq(Rows) /\ IsInjective(s \o t) /\ ToSet(s \o t) = ToSet(s) \cup {r}
    <3>1. ToSet(s) \cap ToSet(t) = {}
      BY <2>4, <2>5
    <3> QED BY <2>1, <2>5, <3>1, JoinedIs
  <2>7. e \in Desks /\ e.pending = s \o t
    BY <2>1, <2>2, <2>5, <2>6 DEF Desks
  <2>8. InTurn(e, inflight \cup answered)
    BY <2>1, <2>4, <2>6, <2>7 DEF InTurn
  <2> QED BY <2>8 DEF e
<1> QED BY <1>1, <1>2

LEMMA DroppedInTurn ==
    ASSUME NEW d, NEW r, NEW taken, InTurn(d, taken)
    PROVE  InTurn(Dropped(d, r), taken)
<1>1. CASE r \notin ToSet(d.pending)
  BY <1>1 DEF Dropped
<1>2. CASE r \in ToSet(d.pending)
  <2> DEFINE e == Dropped(d, r)
             s == d.pending
  <2>1. e = [d EXCEPT !.pending = Without(@, r), !.waiting = @ \ {r}]
    BY <1>2 DEF Dropped
  <2>2. s \in Seq(Rows) /\ IsInjective(s) /\ ToSet(s) \cap taken = {} /\ d \in Desks
    BY DEF InTurn, Desks
  <2>3. Without(s, r) \in Seq(Rows) /\ IsInjective(Without(s, r)) /\ ToSet(Without(s, r)) \subseteq ToSet(s)
    <3>1. r \in ToSet(s)
      BY <1>2
    <3> HIDE DEF s
    <3> QED BY <2>2, <3>1, WithoutIs
  <2>4. e \in Desks /\ e.pending = Without(s, r)
    BY <2>1, <2>2, <2>3 DEF Desks
  <2> HIDE DEF e, s
  <2>5. InTurn(e, taken)
    BY <2>2, <2>3, <2>4 DEF InTurn
  <2> QED BY <2>5 DEF e
<1> QED BY <1>1, <1>2

LEMMA AllWantedInTurn ==
    ASSUME NEW d, NEW taken, InTurn(d, taken), NEW ids \in Seq(Rows), IsInjective(ids),
           ToSet(ids) \cap (ToSet(d.pending) \cup taken) = {}
    PROVE  InTurn(AllWanted(d, ids), taken)
<1>1. CASE ids = <<>>
  BY <1>1 DEF AllWanted
<1>2. CASE ids # <<>>
  <2> DEFINE e == AllWanted(d, ids)
             s == d.pending
  <2>1. e = [pending |-> s \o ids, waiting |-> d.waiting \cup ToSet(ids), timer |-> TRUE]
    BY <1>2 DEF AllWanted
  <2>2. s \in Seq(Rows) /\ IsInjective(s) /\ ToSet(s) \cap taken = {} /\ d.waiting \subseteq Rows
    BY DEF InTurn, Desks
  <2>3. ToSet(s) \cap ToSet(ids) = {} /\ ToSet(ids) \cap taken = {}
    OBVIOUS
  <2> HIDE DEF e, s
  <2>4. s \o ids \in Seq(Rows) /\ IsInjective(s \o ids) /\ ToSet(s \o ids) = ToSet(s) \cup ToSet(ids)
    BY <2>2, <2>3, JoinedIs
  <2>5. ToSet(ids) \subseteq Rows
    BY MembersOf, ElementOfSeq, LenProperties
  <2>6. e \in Desks /\ e.pending = s \o ids
    BY <2>1, <2>2, <2>4, <2>5 DEF Desks
  <2>7. InTurn(e, taken)
    BY <2>2, <2>3, <2>4, <2>6 DEF InTurn
  <2> QED BY <2>7 DEF e
<1> QED BY <1>1, <1>2

LEMMA HeardInTurn ==
    ASSUME NEW d, NEW note, \A e \in DOMAIN idofelement : idofelement[e] \in Rows, InTurn(d, inflight \cup filled)
    PROVE  InTurn(Heard(d, note), inflight \cup filled)
<1> DEFINE r == idofelement[note.el]
<1>1. CASE note.el \notin DOMAIN idofelement
  BY <1>1 DEF Heard
<1>2. CASE note.el \in DOMAIN idofelement /\ note.at = "in"
  <2>1. r \in Rows /\ Heard(d, note) = Wanted(d, r, filled)
    BY <1>2 DEF Heard
  <2> HIDE DEF r
  <2> QED BY <2>1, WantedInTurn
<1>3. CASE note.el \in DOMAIN idofelement /\ note.at # "in"
  <2>1. Heard(d, note) = Dropped(d, r)
    BY <1>3 DEF Heard
  <2> HIDE DEF r
  <2> QED BY <2>1, DroppedInTurn
<1> QED BY <1>1, <1>2, <1>3

\* The recursion over the reports is well founded: the loop's desks solve their equation.
IsLoop(f, n) == f = [k \in 0 .. n |-> IF k = 0 THEN desk ELSE Heard(f[k - 1], notes[k])]

LEMMA LoopSolves == ASSUME notes \in Seq(Notes) PROVE IsLoop(DeskAfter, Len(notes))
<1> DEFINE S == {n \in Nat : \E f : IsLoop(f, n)}
<1>1. 0 \in S
  <2> DEFINE f == [k \in 0 .. 0 |-> desk]
  <2>1. f = [k \in 0 .. 0 |-> IF k = 0 THEN desk ELSE Heard(f[k - 1], notes[k])]
    OBVIOUS
  <2>2. IsLoop(f, 0)
    BY <2>1 DEF IsLoop
  <2> HIDE DEF f
  <2> QED BY <2>2
<1>2. ASSUME NEW n \in Nat, n \in S PROVE n + 1 \in S
  <2>1. PICK f : IsLoop(f, n)
    BY <1>2
  <2> DEFINE g == [k \in 0 .. n + 1 |-> IF k = 0 THEN desk ELSE Heard(f[k - 1], notes[k])]
  <2>2. ASSUME NEW k \in 0 .. n + 1, k # 0 PROVE g[k - 1] = f[k - 1]
    <3>1. k - 1 \in 0 .. n /\ k - 1 \in 0 .. n + 1
      BY <2>2
    <3>2. f[k - 1] = IF k - 1 = 0 THEN desk ELSE Heard(f[(k - 1) - 1], notes[k - 1])
      BY <2>1, <3>1 DEF IsLoop
    <3>3. g[k - 1] = IF k - 1 = 0 THEN desk ELSE Heard(f[(k - 1) - 1], notes[k - 1])
      BY <3>1
    <3> QED BY <3>2, <3>3
  <2>3. g = [k \in 0 .. n + 1 |-> IF k = 0 THEN desk ELSE Heard(g[k - 1], notes[k])]
    BY <2>2
  <2>4. IsLoop(g, n + 1)
    BY <2>3 DEF IsLoop
  <2> HIDE DEF g
  <2>5. n + 1 \in Nat
    OBVIOUS
  <2> QED BY <2>4, <2>5
<1>3. Len(notes) \in Nat
  BY LenProperties
<1>4. Len(notes) \in S
  <2> HIDE DEF S
  <2> QED BY <1>1, <1>2, <1>3, Induction
<1>5. PICK f : IsLoop(f, Len(notes))
  BY <1>4
<1> QED BY <1>5, Zenon DEF IsLoop, DeskAfter

\* Whatever the reports, the callback leaves the desk in turn.
LEMMA LoopInTurn ==
    ASSUME NamesRows, InTurn(desk, inflight \cup filled)
    PROVE  InTurn(DeskAfter[Len(notes)], inflight \cup filled)
<1> DEFINE n == Len(notes)
           f == DeskAfter
           S == {k \in Nat : k <= n => InTurn(f[k], inflight \cup filled)}
<1>1. n \in Nat /\ f = [k \in 0 .. n |-> IF k = 0 THEN desk ELSE Heard(f[k - 1], notes[k])]
  BY LoopSolves, LenProperties DEF NamesRows, IsLoop
<1> HIDE DEF f, n
<1>2. 0 \in S
  <2>1. f[0] = desk
    BY <1>1
  <2> QED BY <2>1
<1>3. ASSUME NEW k \in Nat, k \in S PROVE k + 1 \in S
  <2>1. CASE k + 1 <= n
    <3>1. k <= n /\ k + 1 \in 0 .. n /\ k + 1 # 0 /\ (k + 1) - 1 = k
      BY <1>1, <2>1
    <3>2. f[k + 1] = Heard(f[k], notes[k + 1])
      BY <1>1, <3>1
    <3>3. InTurn(f[k], inflight \cup filled)
      BY <1>3, <3>1
    <3>4. InTurn(Heard(f[k], notes[k + 1]), inflight \cup filled)
      BY <3>3, HeardInTurn DEF NamesRows
    <3> QED BY <3>2, <3>4
  <2>2. CASE ~(k + 1 <= n)
    BY <2>2
  <2> QED BY <2>1, <2>2
<1>4. n \in S
  <2> HIDE DEF S
  <2> QED BY <1>1, <1>2, <1>3, Induction
<1>5. InTurn(f[n], inflight \cup filled)
  BY <1>1, <1>4
<1> QED BY <1>5 DEF f, n

(***************************************************************************)
(* Row details: every step keeps the invariant, and the theorem            *)
(***************************************************************************)

LEMMA DetailsInitially == DetailsInit => DetailsInv
<1> SUFFICES ASSUME DetailsInit PROVE DetailsInv
  OBVIOUS
<1> USE DEF DetailsInit
<1>1. NamesRows
  BY DEF NamesRows, Notes
<1>2. InTurn(desk, inflight \cup filled)
  <2>1. <<>> \in Seq(Rows) /\ DOMAIN <<>> = {}
    OBVIOUS
  <2>2. desk \in Desks /\ desk.pending = <<>>
    BY <2>1 DEF Desks
  <2> QED BY <2>1, <2>2 DEF InTurn, IsInjective
<1>3. AskedOnce
  BY DEF AskedOnce
<1> QED BY <1>1, <1>2, <1>3 DEF DetailsInv

\* What only touches elements, reports and the desk keeps the requests.
LEMMA RequestsStay ==
    ASSUME DetailsInv, UNCHANGED requests, NamesRows', InTurn(desk', inflight \cup filled)
    PROVE  DetailsInv'
BY DEF DetailsInv, requests, AskedOnce, InTurn, Desks

LEMMA MountKeeps == ASSUME DetailsInv, NEW r \in Rows, Mount(r) PROVE DetailsInv'
<1> USE DEF Mount
<1>1. UNCHANGED requests /\ UNCHANGED notes
  OBVIOUS
<1>2. NamesRows'
  <2>1. CASE r \in filled
    BY <1>1, <2>1 DEF Observe, refs, DetailsInv, NamesRows
  <2>2. CASE r \notin filled
    <3>1. idofelement' = Put(idofelement, mounts', r) /\ elementofid' = Put(elementofid, r, mounts')
      BY <2>2 DEF Observe
    <3> QED BY <1>1, <3>1 DEF Put, DetailsInv, NamesRows
  <2> QED BY <2>1, <2>2
<1>3. InTurn(desk', inflight \cup filled)
  <2>1. CASE desk' = desk
    BY <2>1 DEF DetailsInv
  <2>2. CASE desk' = Wanted(desk, r, filled)
    BY <2>2, WantedInTurn DEF DetailsInv
  <2> QED BY <2>1, <2>2 DEF Observe
<1> QED BY <1>1, <1>2, <1>3, RequestsStay

LEMMA UnmountKeeps == ASSUME DetailsInv, NEW r \in Rows, Unmount(r) PROVE DetailsInv'
<1> USE DEF Unmount
<1>1. UNCHANGED requests /\ UNCHANGED notes
  OBVIOUS
<1>2. NamesRows'
  BY <1>1 DEF Cleanup, refs, Cut, DetailsInv, NamesRows
<1>3. InTurn(desk', inflight \cup filled)
  <2>1. CASE desk' = desk
    BY <2>1 DEF DetailsInv
  <2>2. CASE desk' = Dropped(desk, r)
    BY <2>2, DroppedInTurn DEF DetailsInv
  <2> QED BY <2>1, <2>2 DEF Cleanup
<1> QED BY <1>1, <1>2, <1>3, RequestsStay

LEMMA LeaveKeeps == ASSUME DetailsInv, Leave PROVE DetailsInv'
<1> USE DEF Leave
<1>1. UNCHANGED requests /\ UNCHANGED notes
  OBVIOUS
<1>2. NamesRows'
  BY <1>1 DEF DetailsInv, NamesRows
<1>3. InTurn(desk', inflight \cup filled)
  <2>1. <<>> \in Seq(Rows) /\ DOMAIN <<>> = {}
    OBVIOUS
  <2>2. desk' \in Desks /\ desk'.pending = <<>>
    BY <2>1 DEF DetailsInv, InTurn, Desks
  <2> QED BY <2>1, <2>2 DEF InTurn, IsInjective, ToSet
<1> QED BY <1>1, <1>2, <1>3, RequestsStay

LEMMA DeliverKeeps == ASSUME DetailsInv, Deliver PROVE DetailsInv'
<1> USE DEF Deliver
<1>1. UNCHANGED requests /\ UNCHANGED refs /\ notes' = <<>>
  OBVIOUS
<1>2. NamesRows'
  BY <1>1 DEF DetailsInv, NamesRows, refs
<1>3. InTurn(desk', inflight \cup filled)
  BY LoopInTurn DEF DetailsInv
<1> QED BY <1>1, <1>2, <1>3, RequestsStay

\* A row that is sent was not asked for, and none that still waits is sent with it.
LEMMA FlushKeeps == ASSUME DetailsInv, Flush PROVE DetailsInv'
<1> USE DEF Flush
<1>1. inflight = {} /\ UNCHANGED notes /\ UNCHANGED refs
  OBVIOUS
<1>2. NamesRows'
  BY <1>1 DEF DetailsInv, NamesRows, refs
<1>3. CASE desk.pending = <<>>
  <2>1. UNCHANGED requests /\ desk' = [desk EXCEPT !.timer = FALSE]
    BY <1>3
  <2>2. InTurn(desk', inflight \cup filled)
    BY <2>1 DEF DetailsInv, InTurn, Desks
  <2> QED BY <1>2, <2>1, <2>2, RequestsStay
<1>4. CASE desk.pending # <<>>
  <2> DEFINE s == desk.pending
             k == IF Len(s) < BATCH THEN Len(s) ELSE BATCH
             a == SubSeq(s, 1, k)
             b == SubSeq(s, k + 1, Len(s))
  <2>1. s \in Seq(Rows) /\ IsInjective(s) /\ ToSet(s) \cap filled = {} /\ desk \in Desks
    BY DEF DetailsInv, InTurn, Desks
  <2>2. Len(s) \in Nat /\ k \in 0 .. Len(s)
    BY <2>1, LenProperties, CallAssumption
  <2>3. /\ desk' = [desk EXCEPT !.pending = SubSeq(s, Len(a) + 1, Len(s))]
        /\ inflight' = ToSet(a)
        /\ asked' = [r \in Rows |-> asked[r] + (IF r \in inflight' THEN 1 ELSE 0)]
        /\ filled' = filled /\ failedids' = failedids
    BY <1>4
  <2> HIDE DEF k
  <2>4. /\ Len(a) = k /\ b \in Seq(Rows) /\ IsInjective(b)
        /\ ToSet(a) \subseteq ToSet(s) /\ ToSet(b) \subseteq ToSet(s)
        /\ ToSet(a) \cap ToSet(b) = {}
    <3>1. a = SubSeq(s, 1, k) /\ b = SubSeq(s, k + 1, Len(s))
      OBVIOUS
    <3>2. s \in Seq(Rows) /\ IsInjective(s) /\ k \in 0 .. Len(s)
      BY <2>1, <2>2
    <3> HIDE DEF s, a, b, Flush
    <3>3. SubSeq(s, 1, k) = a /\ SubSeq(s, k + 1, Len(s)) = b
      BY <3>1
    <3> QED BY <3>2, <3>3, HeadIs
  <2>5. desk' = [desk EXCEPT !.pending = b]
    BY <2>3, <2>4
  <2>6. ToSet(s) \subseteq Rows
    BY <2>1, MembersOf, ElementOfSeq, LenProperties
  <2> HIDE DEF s, a, b
  <2>7. desk' \in Desks /\ desk'.pending = b
    BY <2>1, <2>4, <2>5 DEF Desks
  <2>8. InTurn(desk', inflight' \cup filled')
    BY <2>1, <2>3, <2>4, <2>7 DEF InTurn
  <2>9. AskedOnce'
    <3>1. asked = [r \in Rows |-> IF r \in filled THEN 1 ELSE 0]
      BY <1>1 DEF DetailsInv, AskedOnce
    <3>2. \A r \in ToSet(a) : r \notin filled
      BY <2>1, <2>4
    <3> QED BY <2>3, <3>1, <3>2 DEF AskedOnce
  <2>10. inflight' \subseteq Rows /\ inflight' \cap filled' = {}
    BY <2>1, <2>3, <2>4, <2>6
  <2>11. filled' \subseteq Rows /\ failedids' \subseteq filled'
    BY <2>3 DEF DetailsInv
  <2>12. InTurn(desk, inflight \cup filled)'
    BY <2>8 DEF InTurn, Desks
  <2> QED BY <1>2, <2>9, <2>10, <2>11, <2>12 DEF DetailsInv
<1> QED BY <1>3, <1>4

\* The end of a request: what was out is over, whether answered or failed.
LEMMA AnswerKeeps == ASSUME DetailsInv, NEW ok \in BOOLEAN, Answer(ok) PROVE DetailsInv'
<1> USE DEF Answer
<1>1. /\ inflight' = {} /\ filled' = filled \cup inflight
      /\ failedids' = IF ok THEN failedids ELSE failedids \cup inflight
      /\ desk' = [desk EXCEPT !.waiting = @ \ inflight]
      /\ asked' = asked /\ notes' = notes /\ UNCHANGED refs
  BY DEF Released
<1>2. NamesRows'
  BY <1>1 DEF DetailsInv, NamesRows, refs
<1>3. InTurn(desk, inflight \cup filled)'
  BY <1>1 DEF DetailsInv, InTurn, Desks
<1>4. AskedOnce'
  BY <1>1 DEF DetailsInv, AskedOnce
<1>5. inflight' \subseteq Rows /\ filled' \subseteq Rows /\ inflight' \cap filled' = {}
  BY <1>1 DEF DetailsInv
<1>6. failedids' \subseteq filled'
  BY <1>1 DEF DetailsInv
<1> QED BY <1>2, <1>3, <1>4, <1>5, <1>6 DEF DetailsInv

\* Try again: the failed rows are as if never asked for.
LEMMA RetryKeeps == ASSUME DetailsInv, Retry PROVE DetailsInv'
<1> USE DEF Retry
<1>1. /\ failedids' = {} /\ filled' = filled \ failedids /\ inflight' = inflight
      /\ asked' = [r \in Rows |-> IF r \in failedids THEN 0 ELSE asked[r]]
      /\ notes' = notes /\ UNCHANGED refs
  OBVIOUS
<1>2. NamesRows'
  BY <1>1 DEF DetailsInv, NamesRows, refs
<1>3. InTurn(desk, inflight \cup (filled \ failedids))
  BY DEF DetailsInv, InTurn
<1>4. InTurn(desk', inflight \cup (filled \ failedids))
  <2>1. CASE desk' = desk
    BY <1>3, <2>1
  <2>2. CASE \E ids \in SetToSeqs((failedids \cap DOMAIN elementofid) \ (ToSet(desk.pending) \cup inflight)) :
                 desk' = AllWanted(desk, ids)
    <3> DEFINE again == (failedids \cap DOMAIN elementofid) \ (ToSet(desk.pending) \cup inflight)
               taken == inflight \cup (filled \ failedids)
    <3>1. PICK ids \in SetToSeqs(again) : desk' = AllWanted(desk, ids)
      BY <2>2
    <3>2. again \subseteq Rows /\ again \cap (ToSet(desk.pending) \cup taken) = {}
      BY DEF DetailsInv
    <3>3. again \in SUBSET filled
      BY DEF DetailsInv
    <3> HIDE DEF again, taken
    <3>4. ids \in [1 .. Cardinality(again) -> again] /\ \A i, j \in 1 .. Cardinality(again) : i # j => ids[i] # ids[j]
      BY <3>1 DEF SetToSeqs
    <3>5. Cardinality(again) \in Nat
      BY <3>2, RowsAssumption, FS_Subset, FS_CardinalityType
    <3>6. ids \in Seq(Rows) /\ IsInjective(ids) /\ ToSet(ids) \subseteq again
      BY <3>2, <3>4, <3>5 DEF IsInjective, ToSet
    <3>7. ToSet(ids) \cap (ToSet(desk.pending) \cup taken) = {}
      BY <3>2, <3>6
    <3>8. InTurn(desk, taken)
      BY <1>3 DEF taken
    <3>9. InTurn(desk', taken)
      BY <3>1, <3>6, <3>7, <3>8, AllWantedInTurn
    <3> QED BY <3>9 DEF taken
  <2> QED BY <2>1, <2>2
<1>5. InTurn(desk, inflight \cup filled)'
  BY <1>1, <1>4 DEF InTurn, Desks
<1>6. AskedOnce'
  BY <1>1 DEF DetailsInv, AskedOnce
<1>7. inflight' \subseteq Rows /\ filled' \subseteq Rows /\ inflight' \cap filled' = {} /\ failedids' \subseteq filled'
  BY <1>1 DEF DetailsInv
<1> QED BY <1>2, <1>5, <1>6, <1>7 DEF DetailsInv

LEMMA DetailsStep == DetailsInv /\ [DetailsNext]_detailsvars => DetailsInv'
<1> SUFFICES ASSUME DetailsInv, [DetailsNext]_detailsvars PROVE DetailsInv'
  OBVIOUS
<1>1. ASSUME NEW r \in Rows, Mount(r) PROVE DetailsInv'
  BY <1>1, MountKeeps
<1>2. ASSUME NEW r \in Rows, Unmount(r) PROVE DetailsInv'
  BY <1>2, UnmountKeeps
<1>3. ASSUME NEW r \in Rows, Scroll(r) PROVE DetailsInv'
  <2>1. UNCHANGED <<requests, refs, desk, notes>>
    BY <1>3 DEF Scroll
  <2>2. NamesRows' /\ InTurn(desk', inflight \cup filled)
    BY <2>1 DEF DetailsInv, NamesRows, refs
  <2> QED BY <2>1, <2>2, RequestsStay
<1>4. ASSUME NEW e \in Elements, Report(e) PROVE DetailsInv'
  <2>1. UNCHANGED <<requests, refs, desk>> /\ notes' = Append(notes, [el |-> e, at |-> Position(e)])
    BY <1>4 DEF Report
  <2>2. [el |-> e, at |-> Position(e)] \in Notes
    BY DEF Notes, Position
  <2>3. notes' \in Seq(Notes)
    BY <2>1, <2>2, AppendProperties DEF DetailsInv, NamesRows
  <2>4. NamesRows' /\ InTurn(desk', inflight \cup filled)
    BY <2>1, <2>3 DEF DetailsInv, NamesRows, refs
  <2> QED BY <2>1, <2>4, RequestsStay
<1>5. ASSUME NEW ok \in BOOLEAN, Answer(ok) PROVE DetailsInv'
  BY <1>5, AnswerKeeps
<1>6. CASE Deliver
  BY <1>6, DeliverKeeps
<1>7. CASE Flush
  BY <1>7, FlushKeeps
<1>8. CASE Retry
  BY <1>8, RetryKeeps
<1>9. CASE Leave
  BY <1>9, LeaveKeeps
<1>10. CASE UNCHANGED detailsvars
  BY <1>10 DEF detailsvars, DetailsInv, NamesRows, InTurn, Desks, AskedOnce
<1> QED BY <1>1, <1>2, <1>3, <1>4, <1>5, <1>6, <1>7, <1>8, <1>9, <1>10 DEF DetailsNext

\* RequestedOnce holds of any rows, elements, reports, batches and answers: no row is in a second request
\* until Try again, however often it scrolls by, unmounts or is refused (rowdetails.ts, want() and release()).
THEOREM RowsAreRequestedOnce == DetailsSpec => []RequestedOnce
<1>1. DetailsInv => RequestedOnce
  BY DEF DetailsInv, AskedOnce, RequestedOnce
<1> QED BY <1>1, DetailsInitially, DetailsStep, PTL DEF DetailsSpec

(***************************************************************************)
(* Filter line: the n-th of an ordered set                                 *)
(***************************************************************************)

\* R orders S: any two of its members one way, and none before itself.
Orders(R, S) ==
    /\ \A i \in S : <<i, i>> \notin R
    /\ \A i, j \in S : i = j \/ <<i, j>> \in R \/ <<j, i>> \in R
    /\ \A i, j, k \in S : <<i, j>> \in R /\ <<j, k>> \in R => <<i, k>> \in R

\* The n-th of an ordered set is one of them.
LEMMA NthIsOneOfThem ==
    ASSUME NEW S, IsFiniteSet(S), NEW R, Orders(R, S), NEW k \in 1 .. Cardinality(S)
    PROVE  nth(S, R, k) \in S
<1> DEFINE n == Cardinality(S)
           after(i) == Cardinality(Before(S, R, i))
           place == [i \in S |-> after(i) + 1]
<1>1. n \in Nat
  BY FS_CardinalityType
<1>2. \A i \in S : IsFiniteSet(Before(S, R, i)) /\ after(i) \in Nat
  <2>1. \A i \in S : Before(S, R, i) \in SUBSET S
    BY DEF Before
  <2> QED BY <2>1, FS_Subset, FS_CardinalityType
<1>3. ASSUME NEW i \in S PROVE after(i) + 1 \in 1 .. n
  <2>1. Before(S, R, i) \in SUBSET S /\ Before(S, R, i) # S
    BY DEF Before, Orders
  <2>2. after(i) <= n /\ after(i) # n
    BY <2>1, FS_Subset
  <2> HIDE DEF n, after
  <2> QED BY <1>1, <1>2, <2>2
<1>4. ASSUME NEW i \in S, NEW j \in S, <<i, j>> \in R PROVE after(i) < after(j)
  <2>1. \A h \in Before(S, R, i) : h \in Before(S, R, j)
    BY <1>4 DEF Before, Orders
  <2>2. i \in Before(S, R, j) /\ i \notin Before(S, R, i)
    BY <1>4 DEF Before, Orders
  <2>3. Before(S, R, i) \in SUBSET Before(S, R, j) /\ Before(S, R, i) # Before(S, R, j)
    BY <2>1, <2>2
  <2>4. after(i) <= after(j) /\ after(i) # after(j)
    BY <1>2, <2>3, FS_Subset
  <2> HIDE DEF after
  <2> QED BY <1>2, <2>4
<1>5. place \in Injection(S, 1 .. n)
  <2>1. place \in [S -> 1 .. n]
    BY <1>3
  <2>2. \A i, j \in S : place[i] = place[j] => i = j
    <3> TAKE i, j \in S
    <3> HIDE DEF after
    <3>1. i # j => after(i) # after(j)
      <4>1. i # j => <<i, j>> \in R \/ <<j, i>> \in R
        BY DEF Orders
      <4>2. <<i, j>> \in R => after(i) < after(j)
        BY <1>4
      <4>3. <<j, i>> \in R => after(j) < after(i)
        BY <1>4
      <4> QED BY <1>2, <4>1, <4>2, <4>3
    <3> QED BY <1>2, <3>1
  <2> HIDE DEF place
  <2> QED BY <2>1, <2>2 DEF Injection, IsInjective
<1>6. \E i \in S : place[i] = k
  <2>1. IsFiniteSet(1 .. n) /\ Cardinality(1 .. n) = n
    BY <1>1, FS_Interval
  <2> HIDE DEF place
  <2>2. place \in Surjection(S, 1 .. n)
    BY <1>5, <2>1, FS_Injection
  <2> HIDE DEF n
  <2> QED BY <2>2 DEF Surjection, n
<1>7. \E i \in S : Cardinality(Before(S, R, i)) = k - 1
  <2>1. PICK i \in S : after(i) + 1 = k
    BY <1>6
  <2> HIDE DEF after
  <2>2. after(i) = k - 1
    BY <1>2, <2>1
  <2> QED BY <2>2 DEF after
<1> QED BY <1>7 DEF nth

\* The smaller of two.
LEMMA SmallerIs == \A m, n \in Nat : Smaller(m, n) \in Nat /\ Smaller(m, n) <= m /\ Smaller(m, n) <= n
BY DEF Smaller

(***************************************************************************)
(* Filter line: what is counted for a filter                               *)
(***************************************************************************)

\* All the criteria there are, and all the filters the line can offer.
AllCriteria == [scope : Scopes, star : BOOLEAN, sel : {Unset, Value}]
AllFilters == {Scope(s) : s \in Scopes} \cup {Star, Field}

LineTypes == criteria \in AllCriteria /\ query \in Texts \cup {NoText}

LEMMA FiltersAreAll == FILTERS \in Seq(AllFilters)
<1> DEFINE cells == [i \in DOMAIN SCOPES |-> Scope(SCOPES[i])]
           rest == <<Star, Field>>
<1>1. cells \in Seq(AllFilters)
  <2>1. SCOPES \in Seq(Scopes)
    BY OrderAssumption
  <2>2. \A i \in DOMAIN SCOPES : SCOPES[i] \in Scopes
    BY <2>1
  <2>3. \A i \in DOMAIN SCOPES : Scope(SCOPES[i]) \in AllFilters
    BY <2>2 DEF AllFilters
  <2>4. DOMAIN SCOPES = 1 .. Len(SCOPES) /\ Len(SCOPES) \in Nat
    BY <2>1
  <2> QED BY <2>3, <2>4
<1>2. rest \in Seq(AllFilters)
  BY DEF AllFilters
<1> HIDE DEF cells, rest
<1>3. cells \o rest \in Seq(AllFilters)
  BY <1>1, <1>2
<1> QED BY <1>3 DEF FILTERS, cells, rest

\* A filter chosen leaves criteria there are.
LEMMA AppliedIs == \A c \in AllCriteria, k \in AllFilters : applyCandidate(c, k) \in AllCriteria
<1> SUFFICES ASSUME NEW c \in AllCriteria, NEW k \in AllFilters PROVE applyCandidate(c, k) \in AllCriteria
  OBVIOUS
<1>1. CASE \E s \in Scopes : k = Scope(s)
  <2>1. PICK s \in Scopes : k = Scope(s)
    BY <1>1
  <2>2. applyCandidate(c, k) = [c EXCEPT !.scope = s]
    BY <2>1 DEF applyCandidate, Scope
  <2> QED BY <2>2 DEF AllCriteria
<1>2. CASE k = Star
  <2>1. applyCandidate(c, k) = [c EXCEPT !.star = TRUE]
    BY <1>2 DEF applyCandidate, Star
  <2> QED BY <2>1 DEF AllCriteria
<1>3. CASE k = Field
  <2>1. applyCandidate(c, k) = [c EXCEPT !.sel = Value]
    BY <1>3 DEF applyCandidate, Field
  <2> QED BY <2>1 DEF AllCriteria
<1> QED BY <1>1, <1>2, <1>3 DEF AllFilters

\* The rows are finitely many.
LEMMA RowsAreFinite == IsFiniteSet(Listed)
<1>1. RowOrder \in Seq(Listed)
  BY OrderAssumption
<1>2. Listed = {RowOrder[i] : i \in DOMAIN RowOrder}
  BY DEF Listed, ToSet
<1>3. IsFiniteSet(DOMAIN RowOrder)
  BY <1>1, FS_Interval
<1> DEFINE at == [i \in DOMAIN RowOrder |-> RowOrder[i]]
<1>4. at \in Surjection(DOMAIN RowOrder, Listed)
  BY <1>2 DEF Surjection
<1> QED BY <1>3, <1>4, FS_Surjection

LEMMA DrawnAreFinite ==
    \A f, c, t : visible(f, c, t) \subseteq Listed /\ IsFiniteSet(visible(f, c, t)) /\ Cardinality(visible(f, c, t)) \in Nat
<1>1. \A f, c, t : visible(f, c, t) \in SUBSET Listed
  BY DEF visible
<1> QED BY <1>1, RowsAreFinite, FS_Subset, FS_CardinalityType

\* What is counted for a filter is what the list holds under the criteria it makes.
LEMMA CountIsWhatIsHeld ==
    ASSUME NEW f, NEW c \in AllCriteria, NEW t, NEW k \in AllFilters
    PROVE  CountOf(k, countFacets(f, c, t)) = Cardinality(visible(f, applyCandidate(c, k), t))
<1> DEFINE held == {r \in Listed : holdsWords(f[r], t)}
           starred == {r \in held : passesStar(c.star, f[r])}
<1>1. CASE \E s \in Scopes : k = Scope(s)
  <2>1. PICK s \in Scopes : k = Scope(s)
    BY <1>1
  <2> DEFINE mine == {r \in starred : passesSelection(f[r], c.sel) /\ passesChip(s, f[r])}
  <2>2. CountOf(k, countFacets(f, c, t)) = countFacets(f, c, t).status[s]
    BY <2>1 DEF CountOf, Scope
  <2>3. countFacets(f, c, t).status[s] = Cardinality(mine)
    BY DEF countFacets
  <2> DEFINE d == [c EXCEPT !.scope = s]
  <2>4. applyCandidate(c, k) = d
    BY <2>1 DEF applyCandidate, Scope
  <2>5. d.scope = s /\ d.star = c.star /\ d.sel = c.sel
    BY DEF AllCriteria
  <2> HIDE DEF d
  <2>6. \A r \in Listed : r \in mine <=> passesCriteria(f[r], d, t)
    BY <2>5, Zenon DEF passesCriteria
  <2>7. mine = visible(f, d, t)
    BY <2>6 DEF visible
  <2> QED BY <2>2, <2>3, <2>4, <2>7
<1>2. CASE k = Star
  <2> DEFINE mine == {r \in held : /\ passesSelection(f[r], c.sel)
                                   /\ passesChip(c.scope, f[r]) /\ passesStar(TRUE, f[r])}
  <2>1. CountOf(k, countFacets(f, c, t)) = countFacets(f, c, t).star
    BY <1>2 DEF CountOf, Star
  <2>2. countFacets(f, c, t).star = Cardinality(mine)
    BY DEF countFacets
  <2> DEFINE d == [c EXCEPT !.star = TRUE]
  <2>3. applyCandidate(c, k) = d
    BY <1>2 DEF applyCandidate, Star
  <2>4. d.scope = c.scope /\ d.star = TRUE /\ d.sel = c.sel
    BY DEF AllCriteria
  <2> HIDE DEF d
  <2>5. \A r \in Listed : r \in mine <=> passesCriteria(f[r], d, t)
    BY <2>4, Zenon DEF passesCriteria
  <2>6. mine = visible(f, d, t)
    BY <2>5 DEF visible
  <2> QED BY <2>1, <2>2, <2>3, <2>6
<1>3. CASE k = Field
  <2> DEFINE mine == {r \in starred : passesChip(c.scope, f[r]) /\ f[r].cf = Value}
  <2>1. CountOf(k, countFacets(f, c, t)) = countFacets(f, c, t).value
    BY <1>3 DEF CountOf, Field
  <2>2. countFacets(f, c, t).value = Cardinality(mine)
    BY DEF countFacets
  <2> DEFINE d == [c EXCEPT !.sel = Value]
  <2>3. applyCandidate(c, k) = d
    BY <1>3 DEF applyCandidate, Field
  <2>4. d.scope = c.scope /\ d.star = c.star /\ d.sel = Value
    BY DEF AllCriteria
  <2> HIDE DEF d
  <2>5. \A r : passesSelection(f[r], Value) <=> f[r].cf = Value
    BY ChosenAssumption DEF passesSelection
  <2>6. \A r \in Listed : r \in mine <=> passesCriteria(f[r], d, t)
    BY <2>5, <2>4, Zenon DEF passesCriteria
  <2>7. mine = visible(f, d, t)
    BY <2>6 DEF visible
  <2> QED BY <2>1, <2>2, <2>3, <2>7
<1> QED BY <1>1, <1>2, <1>3 DEF AllFilters

(***************************************************************************)
(* Filter line: the suggestions and the rows offered                       *)
(***************************************************************************)

LEMMA BetterOrders ==
    ASSUME NEW f, NEW c \in AllCriteria, NEW text \in Texts \cup {NoText}, NEW S \in SUBSET DOMAIN FILTERS
    PROVE  Orders(better(S, countFacets(f, c, NoText), text), S)
<1> DEFINE rk(i) == rank(i, text)
           count(i) == CountOf(FILTERS[i], countFacets(f, c, NoText))
           R == better(S, countFacets(f, c, NoText), text)
<1>1. \A i \in S : rk(i) \in Int /\ count(i) \in Nat /\ i \in Nat
  <2> TAKE i \in S
  <2>1. FILTERS[i] \in AllFilters /\ i \in Nat /\ FILTERS[i] \in ToSet(FILTERS)
    BY FiltersAreAll, MembersOf
  <2>2. count(i) \in Nat
    BY <2>1, CountIsWhatIsHeld, DrawnAreFinite
  <2>3. CASE unmatched(text)
    BY <2>1, <2>2, <2>3 DEF rank
  <2>4. CASE ~unmatched(text)
    <3>1. text \in Texts
      BY <2>4 DEF unmatched
    <3>2. Rank(FILTERS[i], text) \in -1 .. 3
      BY <2>1, <3>1, RankAssumption
    <3>3. rk(i) = Rank(FILTERS[i], text)
      BY <2>4 DEF rank
    <3> HIDE DEF rk, count
    <3> QED BY <2>1, <2>2, <3>2, <3>3
  <2> QED BY <2>3, <2>4
<1> DEFINE ahead(x, y) == rk(x) < rk(y) \/ (rk(x) = rk(y) /\ (count(x) > count(y) \/ (count(x) = count(y) /\ x < y)))
<1>2. \A i, j \in S : <<i, j>> \in R <=> ahead(i, j)
  BY Zenon DEF better
<1> HIDE DEF rk, count, R
<1>3. \A i \in S : <<i, i>> \notin R
  BY <1>1, <1>2
<1>4. \A i, j \in S : i = j \/ <<i, j>> \in R \/ <<j, i>> \in R
  <2> TAKE i, j \in S
  <2>1. rk(i) \in Int /\ rk(j) \in Int /\ count(i) \in Nat /\ count(j) \in Nat /\ i \in Nat /\ j \in Nat
    BY <1>1
  <2>2. i = j \/ ahead(i, j) \/ ahead(j, i)
    BY <2>1
  <2> HIDE DEF ahead
  <2> QED BY <1>2, <2>2
<1>5. \A i, j, k \in S : <<i, j>> \in R /\ <<j, k>> \in R => <<i, k>> \in R
  <2> TAKE i, j, k \in S
  <2>1. /\ rk(i) \in Int /\ rk(j) \in Int /\ rk(k) \in Int
        /\ count(i) \in Nat /\ count(j) \in Nat /\ count(k) \in Nat
        /\ i \in Nat /\ j \in Nat /\ k \in Nat
    BY <1>1
  <2>2. ahead(i, j) /\ ahead(j, k) => ahead(i, k)
    BY <2>1
  <2> HIDE DEF ahead
  <2> QED BY <1>2, <2>2
<1> QED BY <1>3, <1>4, <1>5 DEF Orders, R

\* The suggestions are filters that would keep something, whatever was typed.
LEMMA SuggestionsAreOffered ==
    ASSUME NEW f, NEW c \in AllCriteria, NEW text \in Texts \cup {NoText}
    PROVE  /\ suggest(f, c, text) \in Seq(AllFilters)
           /\ \A n \in DOMAIN suggest(f, c, text) : CountOf(suggest(f, c, text)[n], countFacets(f, c, NoText)) > 0
<1> DEFINE S == {i \in linefilters(f, c) : rank(i, text) >= 0}
           R == better(S, countFacets(f, c, NoText), text)
           limit == IF unmatched(text) THEN START_COUNT ELSE MATCH_COUNT
           m == Smaller(Cardinality(S), limit)
<1>1. DOMAIN FILTERS = 1 .. Len(FILTERS) /\ Len(FILTERS) \in Nat /\ \A i \in DOMAIN FILTERS : FILTERS[i] \in AllFilters
  BY FiltersAreAll
<1>2. \A i \in S : i \in DOMAIN FILTERS /\ FILTERS[i] \in AllFilters /\ CountOf(FILTERS[i], countFacets(f, c, NoText)) > 0
  BY <1>1, Zenon DEF linefilters
<1>3. S \in SUBSET DOMAIN FILTERS
  BY <1>2
<1>4. IsFiniteSet(S) /\ Cardinality(S) \in Nat
  <2>1. IsFiniteSet(DOMAIN FILTERS)
    BY <1>1, FS_Interval
  <2> HIDE DEF S
  <2> QED BY <1>3, <2>1, FS_Subset, FS_CardinalityType
<1>5. Orders(R, S)
  <2> HIDE DEF S
  <2> QED BY <1>3, BetterOrders
<1>6. m \in Nat /\ m <= Cardinality(S)
  <2>1. limit \in Nat
    BY CutAssumption
  <2> HIDE DEF S, limit
  <2> QED BY <1>4, <2>1, SmallerIs
<1>7. suggest(f, c, text) = [n \in 1 .. m |-> FILTERS[nth(S, R, n)]]
  BY DEF suggest
<1> HIDE DEF S, R, m
<1>8. \A n \in 1 .. m : nth(S, R, n) \in S
  <2> TAKE n \in 1 .. m
  <2>1. Cardinality(S) \in Nat
    BY <1>4
  <2>2. n \in 1 .. Cardinality(S)
    BY <1>6, <2>1
  <2> QED BY <1>4, <1>5, <2>2, NthIsOneOfThem
<1> HIDE DEF nth
<1>9. \A n \in 1 .. m : /\ suggest(f, c, text)[n] \in AllFilters
                        /\ CountOf(suggest(f, c, text)[n], countFacets(f, c, NoText)) > 0
  <2> TAKE n \in 1 .. m
  <2>1. suggest(f, c, text)[n] = FILTERS[nth(S, R, n)]
    BY <1>7
  <2> QED BY <1>2, <1>8, <2>1, Zenon
<1>10. suggest(f, c, text) \in Seq(AllFilters)
  BY <1>6, <1>7, <1>9
<1> QED BY <1>7, <1>9, <1>10

\* The rows offered are drawn.
LEMMA CoursesAreDrawn ==
    ASSUME NEW f, NEW c, NEW t, NEW text \in Texts \cup {NoText}
    PROVE  courses(f, c, t, text) \in Seq({Course(r) : r \in visible(f, c, t)})
<1> DEFINE S == {i \in DOMAIN RowOrder : /\ passesCriteria(f[RowOrder[i]], c, t) /\ holdsWords(f[RowOrder[i]], text)
                                          /\ Match(RowOrder[i], text) >= 0}
           R == nearer(S, text)
           m == Smaller(Cardinality(S), COURSE_COUNT)
           offered == {Course(r) : r \in visible(f, c, t)}
<1>1. \A i \in S : i \in DOMAIN RowOrder /\ Course(RowOrder[i]) \in offered
  <2> TAKE i \in S
  <2>1. RowOrder[i] \in Listed
    BY DEF Listed, ToSet
  <2> QED BY <2>1 DEF visible
<1>2. RowOrder \in Seq(Listed)
  BY OrderAssumption
<1>3. IsFiniteSet(S) /\ Cardinality(S) \in Nat /\ \A i \in S : i \in Nat
  <2>1. IsFiniteSet(DOMAIN RowOrder)
    BY <1>2, FS_Interval
  <2>2. S \in SUBSET DOMAIN RowOrder
    OBVIOUS
  <2>3. \A i \in DOMAIN RowOrder : i \in Nat
    BY <1>2
  <2> HIDE DEF S
  <2> QED BY <2>1, <2>2, <2>3, FS_Subset, FS_CardinalityType
<1>4. ~unmatched(text) => Orders(R, S)
  <2> SUFFICES ASSUME ~unmatched(text) PROVE Orders(R, S)
    OBVIOUS
  <2> DEFINE rk(i) == Match(RowOrder[i], text)
             ahead(x, y) == rk(x) < rk(y) \/ (rk(x) = rk(y) /\ x < y)
  <2>1. \A i \in S : rk(i) \in Int /\ i \in Nat
    <3> TAKE i \in S
    <3>1. text \in Texts /\ RowOrder[i] \in Listed
      BY DEF unmatched, Listed, ToSet
    <3>2. Match(RowOrder[i], text) \in -1 .. 1
      BY <3>1, MatchAssumption
    <3> HIDE DEF S
    <3> QED BY <1>3, <3>2
  <2>2. \A i, j \in S : <<i, j>> \in R <=> ahead(i, j)
    BY Zenon DEF nearer
  <2> HIDE DEF S, R, rk
  <2>3. \A i \in S : <<i, i>> \notin R
    BY <2>1, <2>2
  <2>4. \A i, j \in S : i = j \/ <<i, j>> \in R \/ <<j, i>> \in R
    <3> TAKE i, j \in S
    <3>1. i = j \/ ahead(i, j) \/ ahead(j, i)
      BY <2>1
    <3> HIDE DEF ahead
    <3> QED BY <2>2, <3>1
  <2>5. \A i, j, k \in S : <<i, j>> \in R /\ <<j, k>> \in R => <<i, k>> \in R
    <3> TAKE i, j, k \in S
    <3>1. ahead(i, j) /\ ahead(j, k) => ahead(i, k)
      BY <2>1
    <3> HIDE DEF ahead
    <3> QED BY <2>2, <3>1
  <2> QED BY <2>3, <2>4, <2>5 DEF Orders
<1>5. m \in Nat /\ m <= Cardinality(S)
  <2>1. COURSE_COUNT \in Nat
    BY CutAssumption
  <2> HIDE DEF S
  <2> QED BY <1>3, <2>1, SmallerIs
<1>6. CASE unmatched(text)
  BY <1>6 DEF courses
<1>7. CASE ~unmatched(text)
  <2>1. courses(f, c, t, text) = [n \in 1 .. m |-> Course(RowOrder[nth(S, R, n)])]
    BY <1>7 DEF courses
  <2> HIDE DEF S, R, m, offered
  <2>2. \A n \in 1 .. m : nth(S, R, n) \in S
    <3> TAKE n \in 1 .. m
    <3>1. n \in 1 .. Cardinality(S)
      BY <1>3, <1>5
    <3> QED BY <1>3, <1>4, <1>7, <3>1, NthIsOneOfThem
  <2>3. courses(f, c, t, text) \in Seq(offered)
    BY <1>1, <1>5, <2>1, <2>2
  <2> QED BY <2>3 DEF offered
<1> QED BY <1>6, <1>7

\* The options: filters first, then rows that are drawn.
LEMMA OptionsAre ==
    ASSUME NEW f, NEW c \in AllCriteria, NEW t, NEW text \in Texts \cup {NoText}
    PROVE  options(f, c, t, text) \in Seq(AllFilters \cup {Course(r) : r \in visible(f, c, t)})
<1> DEFINE offered == {Course(r) : r \in visible(f, c, t)}
<1>1. suggest(f, c, text) \in Seq(AllFilters)
  BY SuggestionsAreOffered
<1>2. courses(f, c, t, text) \in Seq(offered)
  BY CoursesAreDrawn
<1> HIDE DEF offered
<1>3. options(f, c, t, text) \in Seq(AllFilters \cup offered)
  <2> DEFINE T == AllFilters \cup offered
             a == suggest(f, c, text)
             b == courses(f, c, t, text)
  <2>1. AllFilters \subseteq T /\ offered \subseteq T
    OBVIOUS
  <2>2. options(f, c, t, text) = a \o b
    BY DEF options
  <2> HIDE DEF T, a, b
  <2>3. a \in Seq(AllFilters) /\ b \in Seq(offered)
    BY <1>1, <1>2 DEF a, b
  <2>4. a \in Seq(T) /\ b \in Seq(T)
    BY <2>1, <2>3
  <2>5. a \o b \in Seq(T)
    BY <2>4
  <2> QED BY <2>2, <2>5 DEF T
<1> QED BY <1>3 DEF offered

\* Filters and rows are told apart by their kind.
LEMMA KindsDiffer ==
    /\ \A k \in AllFilters : k.kind \in {"scope", "star", "field"}
    /\ \A r : Course(r).kind = "course" /\ Course(r).key = r
BY DEF AllFilters, Scope, Star, Field, Course

(***************************************************************************)
(* Filter line: the preview                                                *)
(***************************************************************************)

\* A preview l tells the truth about the rows drawn.
TellsThePress(l, f, c, t) ==
    l # Dark =>
        /\ l.on \cup l.dim = visible(f, c, t)
        /\ l.of.kind = "course" => l.on = {l.of.key}
        /\ l.of.kind # "course" => l.on = visible(f, c, t) \cap visible(f, applyCandidate(c, l.of), t)

LEMMA PreviewIs == PreviewTellsThePress <=> TellsThePress(lit, facts, criteria, term)
BY DEF PreviewTellsThePress, TellsThePress

\* What can be previewed: a filter, a row drawn, or nothing.
Previewable(f, c, t) == AllFilters \cup {Course(r) : r \in visible(f, c, t)} \cup {Nothing}

\* The rows a filter keeps of those drawn are those drawn under it too.
LEMMA KeptByFilter ==
    ASSUME NEW f, NEW c \in AllCriteria, NEW t, NEW k \in AllFilters
    PROVE  LET next == applyCandidate(c, k)
           IN  \A r \in visible(f, c, t) :
                  r \in visible(f, next, t)
                      <=> passesChip(next.scope, f[r]) /\ passesStar(next.star, f[r]) /\ passesSelection(f[r], next.sel)
BY Zenon DEF visible, passesCriteria

LEMMA PreviewIsTrue ==
    ASSUME NEW f, NEW c \in AllCriteria, NEW t, NEW k \in Previewable(f, c, t)
    PROVE  TellsThePress(preview(k, f, c, t), f, c, t)
<1> DEFINE next == applyCandidate(c, k)
           keep(r) == IF k.kind = "course" THEN r = k.key
                      ELSE passesChip(next.scope, f[r]) /\ passesStar(next.star, f[r]) /\ passesSelection(f[r], next.sel)
           drawn == visible(f, c, t)
           l == [of |-> k, on |-> {r \in drawn : keep(r)}, dim |-> {r \in drawn : ~keep(r)}]
<1>1. preview(k, f, c, t) = Dark \/ preview(k, f, c, t) = l
  BY DEF preview
<1>2. l.of = k /\ l.on = {r \in drawn : keep(r)} /\ l.dim = {r \in drawn : ~keep(r)}
  OBVIOUS
<1>3. l.on \cup l.dim = drawn
  <2> HIDE DEF l, keep
  <2> QED BY <1>2
<1>4. CASE k \in AllFilters
  <2>1. k.kind # "course"
    BY <1>4, KindsDiffer
  <2>2. \A r \in drawn : keep(r) <=> r \in visible(f, next, t)
    <3>1. \A r \in visible(f, c, t) :
             r \in visible(f, next, t)
                 <=> passesChip(next.scope, f[r]) /\ passesStar(next.star, f[r]) /\ passesSelection(f[r], next.sel)
      BY <1>4, KeptByFilter
    <3> HIDE DEF next
    <3> QED BY <2>1, <3>1
  <2> HIDE DEF keep, l, drawn
  <2>3. l.on = drawn \cap visible(f, next, t)
    BY <1>2, <2>2
  <2> QED BY <1>1, <1>2, <1>3, <2>1, <2>3 DEF TellsThePress, drawn
<1>5. CASE \E r \in drawn : k = Course(r)
  <2>1. PICK r \in drawn : k = Course(r)
    BY <1>5
  <2>2. k.kind = "course" /\ k.key = r
    BY <2>1, KindsDiffer
  <2>3. \A x \in drawn : keep(x) <=> x = r
    BY <2>2
  <2> HIDE DEF keep, l, drawn
  <2>4. l.on = {k.key}
    BY <1>2, <2>1, <2>2, <2>3
  <2> QED BY <1>1, <1>2, <1>3, <2>2, <2>4 DEF TellsThePress, drawn
<1>6. CASE k = Nothing
  <2>1. preview(k, f, c, t) = Dark
    BY <1>6 DEF preview, Nothing
  <2> QED BY <2>1 DEF TellsThePress
<1> QED BY <1>4, <1>5, <1>6 DEF Previewable

\* The option the keyboard is on can be previewed.
LEMMA OptionIsPreviewable ==
    ASSUME NEW f, NEW c \in AllCriteria, NEW t, NEW text \in Texts \cup {NoText}, NEW u
    PROVE  optionAt(u, options(f, c, t, text)) \in Previewable(f, c, t)
<1> DEFINE opts == options(f, c, t, text)
           offered == AllFilters \cup {Course(r) : r \in visible(f, c, t)}
<1>1. opts \in Seq(offered)
  BY OptionsAre
<1> HIDE DEF opts, offered
<1>2. \A i \in DOMAIN opts : opts[i] \in offered
  BY <1>1
<1>3. optionAt(u, opts) \in offered \cup {Nothing}
  BY <1>2 DEF optionAt
<1> QED BY <1>3 DEF Previewable, opts, offered

\* The commit every handler ends with leaves a true preview, when the one the handler asked for was true of
\* the rows as they were.
LEMMA RenderPreviews ==
    ASSUME LineTypes', NEW u, NEW l, TellsThePress(l, facts, criteria, term), Render(u, l)
    PROVE  PreviewTellsThePress'
<1>1. PICK v \in {Settled(u, Drawing')} :
          \E is \in {optionAt(v, options(facts', criteria', term', query'))} :
          LET was == optionAt(line, Options)
              reread == <<criteria, facts>> # <<criteria, facts>>'
          IN \E shownlit \in {Previewed(l, is, reread \/ term # term', reread \/ was # is)} :
               /\ line' = v
               /\ lit' = shownlit[1]
               /\ previewed' = shownlit[2]
  BY Zenon DEF Render
<1> DEFINE was == optionAt(line, Options)
           is == optionAt(v, options(facts', criteria', term', query'))
           reread == <<criteria, facts>> # <<criteria, facts>>'
           changed == reread \/ term # term'
           moved == reread \/ was # is
           true(x) == TellsThePress(x, facts', criteria', term')
<1>2. lit' = Previewed(l, is, changed, moved)[1]
  BY <1>1, Zenon
<1>3. true(preview(is, facts', criteria', term'))
  <2>1. criteria' \in AllCriteria /\ query' \in Texts \cup {NoText}
    BY DEF LineTypes
  <2>2. is \in Previewable(facts', criteria', term')
    BY <2>1, OptionIsPreviewable
  <2> HIDE DEF is
  <2> QED BY <2>1, <2>2, PreviewIsTrue
<1>4. true(Dark)
  BY DEF TellsThePress
<1>5. ~changed => true(l)
  <2>1. ~changed => criteria' = criteria /\ facts' = facts /\ term' = term
    OBVIOUS
  <2> HIDE DEF changed
  <2> QED BY <2>1
<1>6. \/ lit' = Dark
      \/ lit' = preview(is, facts', criteria', term')
      \/ ~changed /\ lit' = l
  <2> HIDE DEF is, changed, moved
  <2> QED BY <1>2 DEF Previewed
<1> HIDE DEF true, changed
<1>7. true(lit')
  BY <1>3, <1>4, <1>5, <1>6
<1> QED BY <1>7 DEF true, PreviewTellsThePress, TellsThePress

\* What a focus previews is true of the rows drawn.
LEMMA FocusPreviewIsTrue ==
    ASSUME LineTypes
    PROVE  \A el \in DOMAIN Previewing : TellsThePress(preview(Previewing[el], facts, criteria, term), facts, criteria, term)
<1>1. DOMAIN Previewing = {"scope", "star", "panelchip"}
  BY DEF Previewing
<1>2. \A el \in DOMAIN Previewing : Previewing[el] \in AllFilters
  <2>1. criteria.scope \in Scopes
    BY DEF LineTypes, AllCriteria
  <2> QED BY <1>1, <2>1 DEF Previewing, AllFilters
<1>3. \A el \in DOMAIN Previewing : TellsThePress(preview(Previewing[el], facts, criteria, term), facts, criteria, term)
  <2> TAKE el \in DOMAIN Previewing
  <2>1. Previewing[el] \in Previewable(facts, criteria, term)
    BY <1>2 DEF Previewable
  <2> HIDE DEF Previewing
  <2> QED BY <2>1, PreviewIsTrue DEF LineTypes
<1> QED BY <1>3

LEMMA LightsAreTrue ==
    ASSUME LineTypes, NEW u, NEW l, TellsThePress(l, facts, criteria, term)
    PROVE  TellsThePress(Lights(u, l), facts, criteria, term)
<1>1. TellsThePress(Dark, facts, criteria, term)
  BY DEF TellsThePress
<1> QED BY <1>1, FocusPreviewIsTrue DEF Lights

(***************************************************************************)
(* Filter line: the inductive invariant of the counts and the preview      *)
(***************************************************************************)

\* The inductive invariant: criteria there are, a text that can be typed, and a preview that is true.
LineInv == LineTypes /\ PreviewTellsThePress

LEMMA LineInitially == LineInit => LineInv
<1> SUFFICES ASSUME LineInit PROVE LineInv
  OBVIOUS
<1>1. LineTypes
  <2>1. "all" \in Scopes
    BY OrderAssumption
  <2> QED BY <2>1 DEF LineInit, LineTypes, AllCriteria
<1>2. PreviewTellsThePress
  BY DEF LineInit, PreviewTellsThePress
<1> QED BY <1>1, <1>2 DEF LineInv

\* A preview handed on, one dropped, and one that follows the focus are each true of the rows as they were.
LEMMA HandedOn ==
    ASSUME LineInv
    PROVE  /\ TellsThePress(lit, facts, criteria, term)
           /\ TellsThePress(Dark, facts, criteria, term)
           /\ \A u : TellsThePress(Lights(u, lit), facts, criteria, term)
<1>1. TellsThePress(lit, facts, criteria, term)
  BY PreviewIs DEF LineInv
<1>2. TellsThePress(Dark, facts, criteria, term)
  BY DEF TellsThePress
<1>3. LineTypes
  BY DEF LineInv
<1> QED BY <1>1, <1>2, <1>3, LightsAreTrue

\* What every handler ends with: a commit, of a preview that was true.
Commits == \E u, l : TellsThePress(l, facts, criteria, term) /\ Render(u, l)

LEMMA CommitKeeps == ASSUME LineInv, LineTypes', Commits PROVE LineInv'
<1>1. PICK u, l : TellsThePress(l, facts, criteria, term) /\ Render(u, l)
  BY DEF Commits
<1>2. PreviewTellsThePress'
  BY <1>1, RenderPreviews
<1> QED BY <1>2 DEF LineInv

LEMMA LineStays == ASSUME LineInv, OnlyTheLine PROVE LineTypes'
BY DEF LineInv, LineTypes, OnlyTheLine

LEMMA CommitOfTheLine == ASSUME LineInv, OnlyTheLine, Commits PROVE LineInv'
BY LineStays, CommitKeeps

\* The actions on the line alone.
LEMMA ControlsKeep ==
    ASSUME LineInv,
           \/ PressField \/ PressOpener \/ Slash \/ PressCloser \/ ArrowDown \/ ArrowUp \/ Escape
           \/ PressToggle \/ PressOrganise \/ PressMenuItem \/ PressView \/ PressShow \/ PressOutside
           \/ \E el \in Controls : Tab(el)
    PROVE  LineInv'
<1>1. CASE PressField
  <2>1. OnlyTheLine /\ Commits
    BY <1>1, HandedOn, Zenon DEF PressField, Commits
  <2> QED BY <2>1, CommitOfTheLine
<1>2. CASE PressOpener
  <2>1. OnlyTheLine /\ Commits
    BY <1>2, HandedOn, Zenon DEF PressOpener, Commits
  <2> QED BY <2>1, CommitOfTheLine
<1>3. CASE Slash
  <2>1. OnlyTheLine /\ Commits
    BY <1>3, HandedOn, Zenon DEF Slash, Commits
  <2> QED BY <2>1, CommitOfTheLine
<1>4. CASE PressCloser
  <2>1. OnlyTheLine /\ Commits
    BY <1>4, HandedOn, Zenon DEF PressCloser, Commits
  <2> QED BY <2>1, CommitOfTheLine
<1>5. CASE ArrowDown
  <2>1. OnlyTheLine /\ Commits
    BY <1>5, HandedOn, Zenon DEF ArrowDown, Commits
  <2> QED BY <2>1, CommitOfTheLine
<1>6. CASE ArrowUp
  <2>1. OnlyTheLine /\ Commits
    BY <1>6, HandedOn, Zenon DEF ArrowUp, Commits
  <2> QED BY <2>1, CommitOfTheLine
<1>7. CASE Escape
  <2>1. OnlyTheLine /\ Commits
    BY <1>7, HandedOn, Zenon DEF Escape, Commits
  <2> QED BY <2>1, CommitOfTheLine
<1>8. CASE PressToggle
  <2>1. OnlyTheLine /\ Commits
    BY <1>8, HandedOn, Zenon DEF PressToggle, Commits
  <2> QED BY <2>1, CommitOfTheLine
<1>9. CASE PressOrganise
  <2>1. OnlyTheLine /\ Commits
    BY <1>9, HandedOn, Zenon DEF PressOrganise, Commits
  <2> QED BY <2>1, CommitOfTheLine
<1>10. CASE PressMenuItem
  <2>1. OnlyTheLine /\ Commits
    BY <1>10, HandedOn, Zenon DEF PressMenuItem, Commits
  <2> QED BY <2>1, CommitOfTheLine
<1>11. CASE PressView
  <2>1. OnlyTheLine /\ Commits
    BY <1>11, HandedOn, Zenon DEF PressView, Commits
  <2> QED BY <2>1, CommitOfTheLine
<1>12. CASE PressShow
  <2>1. OnlyTheLine /\ Commits
    BY <1>12, HandedOn, Zenon DEF PressShow, Commits
  <2> QED BY <2>1, CommitOfTheLine
<1>13. CASE PressOutside
  <2>1. OnlyTheLine /\ Commits
    BY <1>13, HandedOn, Zenon DEF PressOutside, Commits
  <2> QED BY <2>1, CommitOfTheLine
<1>14. CASE \E el \in Controls : Tab(el)
  <2>1. OnlyTheLine /\ Commits
    BY <1>14, HandedOn, Zenon DEF Tab, Commits
  <2> QED BY <2>1, CommitOfTheLine
<1> QED BY <1>1, <1>2, <1>3, <1>4, <1>5, <1>6, <1>7, <1>8, <1>9, <1>10, <1>11, <1>12, <1>13, <1>14, Zenon

\* The text: typed, deferred, erased, dropped by a chip.
LEMMA TextKeeps ==
    ASSUME LineInv, (\E value \in Texts \cup {NoText} : Type(value)) \/ Settle \/ PressEraser \/ PressTextChip
    PROVE  LineInv'
<1>1. criteria \in AllCriteria /\ query \in Texts \cup {NoText}
  BY DEF LineInv, LineTypes
<1>2. criteria' = criteria /\ query' \in Texts \cup {NoText}
  BY <1>1, Zenon DEF Type, Settle, PressEraser, PressTextChip, Erased
<1>3. LineTypes'
  BY <1>1, <1>2 DEF LineTypes
<1>4. Commits
  <2>1. CASE \E value \in Texts \cup {NoText} : Type(value)
    BY <2>1, HandedOn, Zenon DEF Type, Commits
  <2>2. CASE Settle
    BY <2>2, HandedOn, Zenon DEF Settle, Commits
  <2>3. CASE PressEraser
    BY <2>3, HandedOn, Zenon DEF PressEraser, Commits
  <2>4. CASE PressTextChip
    BY <2>4, HandedOn, Zenon DEF PressTextChip, Commits
  <2> QED BY <2>1, <2>2, <2>3, <2>4
<1> QED BY <1>3, <1>4, CommitKeeps

\* The criteria: by a cell, the star, a panel's chip, the clear button and the chips of the line.
LEMMA CriteriaKeep ==
    ASSUME LineInv, Check \/ PressStar \/ PressPanelChip \/ PressClear \/ PressValueChip \/ PressClearAll
    PROVE  LineInv'
<1>1. criteria \in AllCriteria /\ query \in Texts \cup {NoText} /\ "all" \in Scopes
  BY OrderAssumption DEF LineInv, LineTypes
<1>2. CASE Check
  <2>1. PICK s \in DrawnScopes, u \in Clicked("scope") : Choosing([criteria EXCEPT !.scope = s], u)
    BY <1>2, Zenon DEF Check
  <2>2. s \in Scopes
    BY <2>1, Zenon DEF DrawnScopes
  <2>3. criteria' = [criteria EXCEPT !.scope = s] /\ query' = query
    BY <2>1 DEF Choosing
  <2>4. LineTypes'
    BY <1>1, <2>2, <2>3 DEF LineTypes, AllCriteria
  <2>5. Commits
    BY <2>1, HandedOn, Zenon DEF Choosing, Commits
  <2> QED BY <2>4, <2>5, CommitKeeps
<1>3. CASE PressStar
  <2>1. criteria' = [criteria EXCEPT !.star = ~criteria.star] /\ query' = query
    BY <1>3, Zenon DEF PressStar, Choosing
  <2>2. LineTypes'
    BY <1>1, <2>1 DEF LineTypes, AllCriteria
  <2>3. Commits
    BY <1>3, HandedOn, Zenon DEF PressStar, Choosing, Commits
  <2> QED BY <2>2, <2>3, CommitKeeps
<1>4. CASE PressPanelChip
  <2>1. criteria' = [criteria EXCEPT !.sel = IF criteria.sel = Value THEN Unset ELSE Value] /\ query' = query
    BY <1>4, Zenon DEF PressPanelChip, Choosing
  <2>2. LineTypes'
    BY <1>1, <2>1 DEF LineTypes, AllCriteria
  <2>3. Commits
    BY <1>4, HandedOn, Zenon DEF PressPanelChip, Choosing, Commits
  <2> QED BY <2>2, <2>3, CommitKeeps
<1>5. CASE PressClear
  <2>1. criteria' = [scope |-> "all", star |-> FALSE, sel |-> Unset] /\ query' = NoText
    BY <1>5, Zenon DEF PressClear, Erased
  <2>2. LineTypes'
    BY <1>1, <2>1 DEF LineTypes, AllCriteria
  <2>3. Commits
    BY <1>5, HandedOn, Zenon DEF PressClear, Commits
  <2> QED BY <2>2, <2>3, CommitKeeps
<1>6. CASE PressValueChip
  <2>1. criteria' = [criteria EXCEPT !.sel = Unset] /\ query' = query
    BY <1>6, Zenon DEF PressValueChip
  <2>2. LineTypes'
    BY <1>1, <2>1 DEF LineTypes, AllCriteria
  <2>3. Commits
    BY <1>6, HandedOn, Zenon DEF PressValueChip, Commits
  <2> QED BY <2>2, <2>3, CommitKeeps
<1>7. CASE PressClearAll
  <2>1. criteria' = [criteria EXCEPT !.sel = Unset] /\ query' = NoText
    BY <1>7, Zenon DEF PressClearAll, Erased
  <2>2. LineTypes'
    BY <1>1, <2>1 DEF LineTypes, AllCriteria
  <2>3. Commits
    BY <1>7, HandedOn, Zenon DEF PressClearAll, Commits
  <2> QED BY <2>2, <2>3, CommitKeeps
<1> QED BY <1>2, <1>3, <1>4, <1>5, <1>6, <1>7

\* An option chosen: a row leaves the criteria alone, a filter makes its own.
LEMMA ChooseKeeps ==
    ASSUME LineInv, NEW u, NEW i \in DOMAIN Options, Choose(u, i)
    PROVE  LineInv'
<1>1. criteria \in AllCriteria /\ query \in Texts \cup {NoText}
  BY DEF LineInv, LineTypes
<1>2. Options[i] \in AllFilters \cup {Course(r) : r \in visible(facts, criteria, term)}
  <2> DEFINE offered == AllFilters \cup {Course(r) : r \in visible(facts, criteria, term)}
  <2>1. Options \in Seq(offered)
    BY <1>1, OptionsAre DEF Options
  <2> HIDE DEF offered
  <2>2. Options[i] \in offered
    BY <2>1
  <2> QED BY <2>2 DEF offered
<1>3. Commits
  BY HandedOn, Zenon DEF Choose, Commits
<1>4. CASE Options[i].kind = "course"
  <2>1. OnlyTheLine
    BY <1>4, Zenon DEF Choose
  <2> QED BY <1>3, <2>1, CommitOfTheLine
<1>5. CASE Options[i].kind # "course"
  <2>1. Options[i] \in AllFilters
    BY <1>2, <1>5, KindsDiffer
  <2>2. criteria' = applyCandidate(criteria, Options[i]) /\ query' = NoText
    BY <1>5, Zenon DEF Choose, Erased
  <2>3. LineTypes'
    BY <1>1, <2>1, <2>2, AppliedIs DEF LineTypes
  <2> QED BY <1>3, <2>3, CommitKeeps
<1> QED BY <1>4, <1>5

\* The pointer over a control, and off it.
LEMMA PointerKeeps ==
    ASSUME LineInv, (\E k \in Pointed : Hover(k)) \/ Unhover
    PROVE  LineInv'
<1>1. criteria \in AllCriteria /\ query \in Texts \cup {NoText}
  BY DEF LineInv, LineTypes
<1>2. LineTypes' /\ facts' = facts /\ criteria' = criteria /\ term' = term
  BY <1>1, Zenon DEF LineTypes, Hover, Unhover
<1>3. CASE \E k \in Pointed : Hover(k)
  <2>1. PICK k \in Pointed : Hover(k)
    BY <1>3
  <2>2. k \in Previewable(facts, criteria, term)
    <3>1. \A s \in DrawnScopes : s \in Scopes
      BY Zenon DEF DrawnScopes
    <3>2. ToSet(Options) \subseteq Previewable(facts, criteria, term)
      <4> DEFINE offered == AllFilters \cup {Course(r) : r \in visible(facts, criteria, term)}
      <4>1. Options \in Seq(offered)
        BY <1>1, OptionsAre DEF Options
      <4> HIDE DEF offered
      <4>2. \A n \in DOMAIN Options : Options[n] \in offered
        BY <4>1
      <4>3. ToSet(Options) \subseteq offered
        BY <4>2 DEF ToSet
      <4> QED BY <4>3 DEF offered, Previewable
    <3>3. k \in {Scope(s) : s \in DrawnScopes} \cup {Star, Field} \cup ToSet(Options)
      BY <2>1, Zenon DEF Pointed
    <3>4. {Scope(s) : s \in DrawnScopes} \cup {Star, Field} \subseteq AllFilters
      BY <3>1 DEF AllFilters
    <3> QED BY <3>2, <3>3, <3>4 DEF Previewable
  <2>3. lit' = preview(k, facts, criteria, term)
    BY <2>1 DEF Hover
  <2>4. TellsThePress(lit', facts, criteria, term)
    BY <1>1, <2>2, <2>3, PreviewIsTrue
  <2> QED BY <1>2, <2>4 DEF TellsThePress, PreviewTellsThePress, LineInv
<1>4. CASE Unhover
  <2>1. lit' = Dark
    BY <1>4 DEF Unhover
  <2> QED BY <1>2, <2>1 DEF PreviewTellsThePress, LineInv
<1> QED BY <1>3, <1>4

\* A star toggled on a row, and a new width.
LEMMA AroundKeeps ==
    ASSUME LineInv, (\E r \in Toggled : Starred(r)) \/ (\E i \in DOMAIN TRIES : Fit(TRIES[i]))
    PROVE  LineInv'
<1>1. criteria \in AllCriteria /\ query \in Texts \cup {NoText}
  BY DEF LineInv, LineTypes
<1>2. criteria' = criteria /\ query' = query
  BY Zenon DEF Starred, Fit
<1>3. LineTypes'
  BY <1>1, <1>2 DEF LineTypes
<1>4. CASE \E r \in Toggled : Starred(r)
  <2>1. Commits
    BY <1>4, HandedOn, Zenon DEF Starred, Commits
  <2> QED BY <1>3, <2>1, CommitKeeps
<1>5. CASE \E i \in DOMAIN TRIES : Fit(TRIES[i])
  <2>1. PICK f : Fit(f)
    BY <1>5
  <2> DEFINE l == IF TakenByMove(f) /\ line.focus \in DOMAIN Previewing
                  THEN preview(Previewing[line.focus], facts, criteria, term) ELSE lit
  <2>2. TellsThePress(l, facts, criteria, term)
    BY HandedOn, FocusPreviewIsTrue DEF LineInv
  <2>3. Render(GivenBack(f), l)
    BY <2>1 DEF Fit
  <2> HIDE DEF l
  <2>4. Commits
    BY <2>2, <2>3 DEF Commits
  <2> QED BY <1>3, <2>4, CommitKeeps
<1> QED BY <1>4, <1>5

LEMMA LineStep == LineInv /\ [LineNext]_linevars => LineInv'
<1> SUFFICES ASSUME LineInv, [LineNext]_linevars PROVE LineInv'
  OBVIOUS
<1>1. CASE Enter
  <2>1. Choose(line, current) /\ current # 0
    BY <1>1 DEF Enter
  <2>2. current \in DOMAIN Options
    BY <2>1 DEF current
  <2> QED BY <2>1, <2>2, ChooseKeeps
<1>2. CASE \E i \in IF line.list THEN DOMAIN Options ELSE {} : PressOption(i)
  <2>1. PICK i \in DOMAIN Options : PressOption(i)
    BY <1>2
  <2>2. Choose(pointerdown(line, "field"), i)
    BY <2>1 DEF PressOption
  <2> QED BY <2>2, ChooseKeeps
<1>3. CASE UNCHANGED linevars
  BY <1>3 DEF linevars, LineInv, LineTypes, PreviewTellsThePress
<1>4. CASE \E el \in Controls \ {"body"} : Tab(el)
  BY <1>4, ControlsKeep
<1> QED
  BY <1>1, <1>2, <1>3, <1>4, ControlsKeep, TextKeeps, CriteriaKeep, PointerKeeps, AroundKeeps, Zenon DEF LineNext

\* The line's criteria and text are always among those there are, and its preview is true.
LEMMA LineAlways == LineSpec => []LineInv
BY LineInitially, LineStep, PTL DEF LineSpec

\* A preview on display lights the rows a press would keep and dims the others of those drawn, whatever rows,
\* facts, scopes and texts there are and however they changed since the pointer or the keyboard came to it.
THEOREM PreviewsTellThePress == LineSpec => []PreviewTellsThePress
<1>1. LineInv => PreviewTellsThePress
  BY DEF LineInv
<1> QED BY <1>1, LineAlways, PTL

\* Under criteria there are, every number of the line is what its list would hold.
LEMMA CountsAreKept == LineTypes => CountsKeepTheirPromise
<1> SUFFICES ASSUME LineTypes PROVE CountsKeepTheirPromise
  OBVIOUS
<1>1. criteria \in AllCriteria /\ query \in Texts \cup {NoText}
  BY DEF LineTypes
<1>2. \A k \in AllFilters : \A t :
         CountOf(k, countFacets(facts, criteria, t)) = Cardinality(visible(facts, applyCandidate(criteria, k), t))
  BY <1>1, CountIsWhatIsHeld
<1>3. \A k \in ToSet(suggest(facts, criteria, query)) :
         k \in AllFilters /\ CountOf(k, countFacets(facts, criteria, NoText)) > 0
  <2>1. /\ suggest(facts, criteria, query) \in Seq(AllFilters)
        /\ \A n \in DOMAIN suggest(facts, criteria, query) :
              CountOf(suggest(facts, criteria, query)[n], countFacets(facts, criteria, NoText)) > 0
    BY <1>1, SuggestionsAreOffered
  <2> DEFINE s == suggest(facts, criteria, query)
  <2> HIDE DEF s
  <2>2. \A n \in DOMAIN s : s[n] \in AllFilters
    BY <2>1 DEF s
  <2> QED BY <2>1, <2>2, MembersOf DEF s
<1>4. Kept(facts, criteria, term, query)
  BY <1>2, <1>3, Zenon DEF Kept, AllFilters
<1> QED BY <1>4 DEF CountsKeepTheirPromise

\* What the line and the panel count for a control is what the list holds once it is pressed, and what a
\* suggestion counts what it holds once it is chosen, for any rows, facts, scopes, ranks and limits.
THEOREM CountsHoldTheirPromise == LineSpec => []CountsKeepTheirPromise
<1>1. LineInv => CountsKeepTheirPromise
  BY CountsAreKept DEF LineInv
<1> QED BY <1>1, LineAlways, PTL

(***************************************************************************)
(* Filter line: what moves the keyboard                                    *)
(***************************************************************************)

LineRecords == [searching : BOOLEAN, list : BOOLEAN, active : Nat, menu : BOOLEAN, panel : BOOLEAN,
                from : {Unset, "field", "opener"}, focus : Controls]

\* A line in order: no layer is open under the grown search, and the suggestions are open where the focus is.
Orderly(u) ==
    /\ u \in LineRecords
    /\ u.searching => ~u.panel /\ ~u.menu
    /\ u.list => u.focus = "field"

LEMMA ControlsAre ==
    /\ LineControls \subseteq Controls
    /\ {"scope", "star", "toggle", "organise", "view", "field", "eraser", "opener", "closer", "panelchip",
        "clear", "show", "menuitem", "valuechip", "textchip", "clearall"} = LineControls
    /\ "outside" \in Controls /\ "body" \in Controls /\ "outside" \notin LineControls /\ "body" \notin LineControls
BY DEF LineControls, Controls

\* w is u once the focus is on next.
MovesTo(u, w, next) ==
    /\ w \in LineRecords /\ w.focus = next /\ w.panel = u.panel
    /\ w.searching => u.searching
    /\ next \in LineControls => w.searching = u.searching
    /\ w.menu => u.menu
    /\ next \in {"menuitem", "organise"} => w.menu = u.menu
    /\ next = "field" => w.list = u.list
    /\ (u.list => u.focus = "field") => (w.list => w.focus = "field")

LEMMA MovedIs == ASSUME NEW u \in LineRecords, NEW next \in Controls PROVE MovesTo(u, Moved(u, next), next)
<1>1. CASE u.focus = next
  <2>1. Moved(u, next) = u
    BY <1>1 DEF Moved
  <2> QED BY <1>1, <2>1 DEF MovesTo
<1>2. CASE u.focus # next
  <2> DEFINE keeps == next \in {"menuitem", "organise"}
             m == [u EXCEPT !.menu = u.menu /\ keeps]
             shut == [m EXCEPT !.list = FALSE, !.active = 0]
             left == [shut EXCEPT !.searching = FALSE, !.from = Unset]
             w == Moved(u, next)
  <2>1. w = [focusout(u, next) EXCEPT !.focus = next]
    BY <1>2 DEF Moved
  <2>2. m \in LineRecords /\ m.searching = u.searching /\ m.panel = u.panel /\ m.list = u.list /\ (m.menu <=> u.menu /\ keeps)
    <3> HIDE DEF keeps
    <3>1. (u.menu /\ keeps) \in BOOLEAN
      OBVIOUS
    <3> QED BY <3>1 DEF LineRecords
  <2>3. shut \in LineRecords /\ shut.searching = u.searching /\ shut.panel = u.panel /\ ~shut.list /\ (shut.menu <=> m.menu)
    <3> HIDE DEF m
    <3> QED BY <2>2 DEF LineRecords
  <2>4. left \in LineRecords /\ ~left.searching /\ left.panel = u.panel /\ ~left.list /\ (left.menu <=> m.menu)
    <3> HIDE DEF shut
    <3> QED BY <2>3 DEF LineRecords
  <2>5. closeList(m) = shut
    BY DEF closeList
  <2>6. focusout(u, next) =
          IF u.focus \notin LineControls \/ next = "field" THEN IF u.focus \in LineControls THEN m ELSE u
          ELSE IF next \in LineControls THEN shut
          ELSE IF u.list \/ u.searching THEN left
          ELSE m
    BY <2>5, Zenon DEF focusout
  <2> HIDE DEF m, shut, left
  <2> DEFINE x == focusout(u, next)
  <2>7. \/ x = u /\ u.focus \notin LineControls
        \/ x = m /\ next = "field"
        \/ x = shut /\ next \in LineControls
        \/ x = left /\ next \notin LineControls
        \/ x = m /\ ~u.list /\ ~u.searching
    BY <2>6
  <2>8. x \in LineRecords
    BY <2>2, <2>3, <2>4, <2>7
  <2> HIDE DEF x
  <2>9. /\ w \in LineRecords /\ w.focus = next /\ w.searching = x.searching /\ w.panel = x.panel
        /\ w.menu = x.menu /\ w.list = x.list
    BY <2>1, <2>8 DEF LineRecords, x
  <2> HIDE DEF w
  <2>10. MovesTo(u, w, next)
    <3>1. u.focus \notin LineControls => u.focus # "field"
      BY ControlsAre
    <3>2. u.searching \in BOOLEAN /\ u.menu \in BOOLEAN /\ m.menu \in BOOLEAN /\ shut.menu \in BOOLEAN /\ left.menu \in BOOLEAN
      BY <2>2, <2>3, <2>4 DEF LineRecords
    <3>3. next = "field" => next \in LineControls
      BY ControlsAre
    <3>4. w.panel = u.panel /\ (w.searching => u.searching) /\ (next \in LineControls => w.searching = u.searching)
      BY <2>2, <2>3, <2>4, <2>7, <2>9
    <3>5. (w.menu => u.menu) /\ (next \in {"menuitem", "organise"} => w.menu = u.menu)
      BY <2>2, <2>3, <2>4, <2>7, <2>9, <3>2
    <3>6. next = "field" => w.list = u.list
      <4>1. next = "field" => x = u \/ x = m
        BY <1>2, <2>6, Zenon DEF x
      <4> QED BY <2>2, <2>9, <4>1
    <3>7. (u.list => u.focus = "field") => (w.list => w.focus = "field")
      BY <2>2, <2>3, <2>4, <2>7, <2>9, <3>1
    <3> QED BY <2>9, <3>4, <3>5, <3>6, <3>7 DEF MovesTo
  <2> QED BY <2>10 DEF w
<1> QED BY <1>1, <1>2

LEMMA MovedIsOrderly == ASSUME NEW u, Orderly(u), NEW next \in Controls PROVE Orderly(Moved(u, next))
<1>1. MovesTo(u, Moved(u, next), next)
  BY MovedIs DEF Orderly
<1> QED BY <1>1 DEF MovesTo, Orderly

\* What is drawn, control by control.
LEMMA WhatIsShown ==
    ASSUME NEW u, NEW d
    PROVE  /\ shown("field", u, d) <=> Growing(u, d.fold) \/ ~d.fold.folded
           /\ shown("opener", u, d) <=> ~Growing(u, d.fold) /\ d.fold.folded
           /\ \A el \in {"star", "toggle", "organise"} : shown(el, u, d) <=> ~Growing(u, d.fold)
           /\ shown("scope", u, d) <=> ~Growing(u, d.fold) \/ d.fold.step = "s4"
           /\ shown("view", u, d) <=> ~Growing(u, d.fold) /\ d.fold.step # "s4"
           /\ \A el \in {"clear", "show"} : shown(el, u, d) <=> ~Growing(u, d.fold) /\ u.panel
           /\ shown("menuitem", u, d) <=> ~Growing(u, d.fold) /\ u.menu
           /\ shown("closer", u, d) <=> Growing(u, d.fold)
           /\ shown("panelchip", u, d) <=> ~Growing(u, d.fold) /\ u.panel /\ (d.c.sel = Value \/ counted(d) > 0)
           /\ shown("eraser", u, d) => shown("field", u, d)
           /\ \A el \in {"outside", "body"} : shown(el, u, d)
<1>1. shown("field", u, d) <=> Growing(u, d.fold) \/ ~d.fold.folded
  BY DEF shown
<1>2. shown("opener", u, d) <=> ~Growing(u, d.fold) /\ d.fold.folded
  BY DEF shown
<1>3. \A el \in {"star", "toggle", "organise"} : shown(el, u, d) <=> ~Growing(u, d.fold)
  BY DEF shown
<1>4. shown("scope", u, d) <=> ~Growing(u, d.fold) \/ d.fold.step = "s4"
  BY DEF shown
<1>5. shown("view", u, d) <=> ~Growing(u, d.fold) /\ d.fold.step # "s4"
  BY DEF shown
<1>6. \A el \in {"clear", "show"} : shown(el, u, d) <=> ~Growing(u, d.fold) /\ u.panel
  BY DEF shown
<1>7. shown("menuitem", u, d) <=> ~Growing(u, d.fold) /\ u.menu
  BY DEF shown
<1>8. shown("closer", u, d) <=> Growing(u, d.fold)
  BY DEF shown
<1>9. shown("panelchip", u, d) <=> ~Growing(u, d.fold) /\ u.panel /\ (d.c.sel = Value \/ counted(d) > 0)
  BY DEF shown
<1>10. shown("eraser", u, d) => shown("field", u, d)
  BY DEF shown
<1>11. \A el \in {"outside", "body"} : shown(el, u, d)
  BY DEF shown
<1> QED BY <1>1, <1>2, <1>3, <1>4, <1>5, <1>6, <1>7, <1>8, <1>9, <1>10, <1>11

\* The line's own state decides what is drawn by three of its parts.
LEMMA ShownAlike ==
    ASSUME NEW u, NEW w, NEW d, NEW el, Growing(u, d.fold) <=> Growing(w, d.fold),
           el \in {"clear", "show", "panelchip"} => u.panel = w.panel,
           el = "menuitem" => u.menu = w.menu
    PROVE  shown(el, u, d) <=> shown(el, w, d)
<1>1. textchip(u, d) <=> textchip(w, d)
  BY DEF textchip
<1>2. CASE Growing(u, d.fold)
  BY <1>2 DEF shown
<1>3. CASE ~Growing(u, d.fold)
  BY <1>1, <1>3 DEF shown
<1> QED BY <1>2, <1>3

Tried == {TRIES[i] : i \in DOMAIN TRIES}

LEMMA TriedAre == \A f \in Tried : (f.folded => Morphs(f)) /\ f.folded \in BOOLEAN /\ Morphs(f) \in BOOLEAN
<1>1. DOMAIN TRIES = 1 .. 4
  BY DEF TRIES
<1>2. \A i \in 1 .. 4 : i = 1 \/ i = 2 \/ i = 3 \/ i = 4
  OBVIOUS
<1>3. \A i \in DOMAIN TRIES : TRIES[i] \in {TRIES[1], TRIES[2], TRIES[3], TRIES[4]}
  BY <1>1, <1>2, Zenon
<1>4. Tried \subseteq {TRIES[1], TRIES[2], TRIES[3], TRIES[4]}
  BY <1>3 DEF Tried
<1>5. \A f \in {TRIES[1], TRIES[2], TRIES[3], TRIES[4]} : (f.folded => f.step \in {"s3", "s4"}) /\ f.folded \in BOOLEAN
  <2>1. TRIES[1].folded = FALSE
    BY DEF TRIES
  <2>2. TRIES[2].folded = TRUE /\ TRIES[2].step = "s3"
    BY DEF TRIES
  <2>3. TRIES[3].folded = FALSE
    BY DEF TRIES
  <2>4. TRIES[4].folded = TRUE /\ TRIES[4].step = "s4"
    BY DEF TRIES
  <2> QED BY <2>1, <2>2, <2>3, <2>4
<1> QED BY <1>4, <1>5 DEF Morphs

\* The search opens over the line or under the field, with the other layers closed and the focus in the field.
LEMMA OpenSearchIs ==
    ASSUME NEW u \in LineRecords, NEW origin \in {"field", "opener"}
    PROVE  /\ Orderly(openSearch(u, origin))
           /\ openSearch(u, origin).focus = "field"
           /\ openSearch(u, origin).searching <=> u.searching \/ Morphs(fold)
<1> DEFINE grows == Morphs(fold) /\ ~u.searching
           opened == [u EXCEPT !.searching = u.searching \/ grows, !.from = IF grows THEN origin ELSE u.from,
                               !.menu = FALSE, !.panel = FALSE, !.list = TRUE, !.active = 0]
           w == Moved(opened, "field")
<1>1. opened \in LineRecords /\ ~opened.menu /\ ~opened.panel /\ (opened.searching <=> u.searching \/ Morphs(fold))
  <2>1. u.searching \in BOOLEAN /\ u.from \in {Unset, "field", "opener"}
    BY DEF LineRecords
  <2>2. (u.searching \/ grows) \in BOOLEAN /\ (IF grows THEN origin ELSE u.from) \in {Unset, "field", "opener"}
    BY <2>1
  <2> HIDE DEF grows
  <2>3. /\ opened \in LineRecords /\ ~opened.menu /\ ~opened.panel
        /\ opened.searching = (u.searching \/ grows)
    BY <2>2 DEF LineRecords
  <2> HIDE DEF opened
  <2> QED BY <2>1, <2>3 DEF grows
<1>2. openSearch(u, origin) = w
  BY DEF openSearch
<1> HIDE DEF opened
<1>3. MovesTo(opened, w, "field")
  BY <1>1, MovedIs, ControlsAre
<1> HIDE DEF w
<1>4. w.searching = opened.searching
  BY <1>3, ControlsAre DEF MovesTo
<1>5. Orderly(w) /\ w.focus = "field"
  BY <1>1, <1>3 DEF MovesTo, Orderly
<1> QED BY <1>1, <1>2, <1>4, <1>5

\* A press on a control of the line closes the panel and the menu it is outside of, and nothing else.
LEMMA PointerdownIs ==
    ASSUME NEW u, Orderly(u), NEW target \in LineControls
    PROVE  /\ Orderly(pointerdown(u, target))
           /\ pointerdown(u, target).focus = u.focus
           /\ pointerdown(u, target).searching = u.searching
           /\ target \in {"panelchip", "clear", "show", "toggle"} => pointerdown(u, target).panel = u.panel
           /\ target \in {"menuitem", "organise"} => pointerdown(u, target).menu = u.menu
           /\ pointerdown(u, target).list = u.list
<1> DEFINE inpanel == target \in {"panelchip", "clear", "show", "toggle"}
           inmenu == target \in {"menuitem", "organise"}
           w == [u EXCEPT !.panel = u.panel /\ inpanel, !.menu = u.menu /\ inmenu]
<1>1. pointerdown(u, target) = w
  BY Zenon DEF pointerdown
<1>2. u \in LineRecords /\ u.panel \in BOOLEAN /\ u.menu \in BOOLEAN
  BY DEF Orderly, LineRecords
<1>3. (u.panel /\ inpanel) \in BOOLEAN /\ (u.menu /\ inmenu) \in BOOLEAN
  OBVIOUS
<1> HIDE DEF inpanel, inmenu
<1>4. /\ w \in LineRecords /\ w.focus = u.focus /\ w.searching = u.searching /\ w.list = u.list
      /\ w.panel = (u.panel /\ inpanel) /\ w.menu = (u.menu /\ inmenu)
  BY <1>2, <1>3 DEF LineRecords
<1> HIDE DEF w
<1>5. (inpanel => w.panel = u.panel) /\ (inmenu => w.menu = u.menu) /\ (w.panel => u.panel) /\ (w.menu => u.menu)
  BY <1>2, <1>4
<1>6. Orderly(w)
  BY <1>4, <1>5 DEF Orderly
<1> QED BY <1>1, <1>4, <1>5, <1>6 DEF inpanel, inmenu

\* A press outside the line.
LEMMA PointerdownOutside ==
    ASSUME NEW u, Orderly(u)
    PROVE  Orderly(pointerdown(u, "outside"))
<1> DEFINE shut == [u EXCEPT !.list = FALSE, !.active = 0]
           left == [shut EXCEPT !.searching = FALSE, !.from = Unset]
           s == IF (u.list \/ Growing(u, fold)) /\ "outside" \notin LineControls THEN left ELSE u
           w == [s EXCEPT !.panel = s.panel /\ "outside" \in {"panelchip", "clear", "show", "toggle"},
                          !.menu = s.menu /\ "outside" \in {"menuitem", "organise"}]
<1>1. pointerdown(u, "outside") = w
  BY Zenon DEF pointerdown, closeList
<1>2. shut \in LineRecords /\ shut.focus = u.focus /\ shut.panel = u.panel /\ shut.menu = u.menu /\ ~shut.list
  BY DEF Orderly, LineRecords
<1>3. left \in LineRecords /\ ~left.searching /\ ~left.list
  <2> HIDE DEF shut
  <2> QED BY <1>2 DEF LineRecords
<1>4. Orderly(s)
  <2> HIDE DEF left
  <2> QED BY <1>3 DEF Orderly
<1> HIDE DEF s
<1>5. w = [s EXCEPT !.panel = FALSE, !.menu = FALSE]
  BY <1>4 DEF Orderly, LineRecords
<1>6. Orderly(w)
  <2>1. w \in LineRecords /\ ~w.panel /\ ~w.menu /\ w.list = s.list /\ w.focus = s.focus
    BY <1>4, <1>5 DEF Orderly, LineRecords
  <2> HIDE DEF w
  <2> QED BY <1>4, <2>1 DEF Orderly
<1> QED BY <1>1, <1>6

\* The line as a click finds it, on the field and on any other control.
LEMMA ClickedIs ==
    ASSUME Orderly(line), NEW el \in LineControls, el # "field", NEW u \in Clicked(el)
    PROVE  /\ Shown(el) /\ Orderly(u) /\ u.focus = el /\ u.searching = line.searching
           /\ el \in {"panelchip", "clear", "show", "toggle"} => u.panel = line.panel
           /\ el \in {"menuitem", "organise"} => u.menu = line.menu
<1> DEFINE p == pointerdown(line, el)
<1>1. Shown(el)
  BY Zenon DEF Clicked
<1>2. u = Moved(p, el) \/ (u = line /\ line.focus = el)
  BY Zenon DEF Clicked, Focused
<1>3. CASE u = line /\ line.focus = el
  BY <1>1, <1>3
<1>4. CASE u = Moved(p, el)
  <2>1. /\ Orderly(p) /\ p.searching = line.searching
        /\ el \in {"panelchip", "clear", "show", "toggle"} => p.panel = line.panel
        /\ el \in {"menuitem", "organise"} => p.menu = line.menu
    BY PointerdownIs
  <2> HIDE DEF p
  <2>2. el \in Controls
    BY ControlsAre
  <2>3. MovesTo(p, u, el) /\ Orderly(u)
    BY <1>4, <2>1, <2>2, MovedIs, MovedIsOrderly DEF Orderly
  <2> QED BY <1>1, <2>1, <2>3 DEF MovesTo
<1> QED BY <1>2, <1>3, <1>4

\* The focus given to the field by the reader opens the search.
LEMMA FocusedField ==
    ASSUME NEW u, Orderly(u)
    PROVE  /\ Orderly(Focused(u, "field")) /\ Focused(u, "field").focus = "field"
           /\ u.searching => Focused(u, "field").searching
<1>1. "field" \in LineControls /\ "field" \in Controls
  BY ControlsAre
<1>2. CASE u.focus = "field"
  BY <1>2 DEF Focused, Moved
<1>3. CASE u.focus # "field"
  <2> DEFINE m == Moved(u, "field")
  <2>1. MovesTo(u, m, "field")
    BY <1>1, MovedIs DEF Orderly
  <2>2. Focused(u, "field") = openSearch(m, "field")
    BY <1>3 DEF Focused
  <2> HIDE DEF m
  <2>3. m \in LineRecords /\ m.searching = u.searching
    BY <1>1, <2>1 DEF MovesTo
  <2> QED BY <2>2, <2>3, OpenSearchIs
<1> QED BY <1>2, <1>3

LEMMA ClickedField ==
    ASSUME Orderly(line), NEW u \in Clicked("field")
    PROVE  Shown("field") /\ Orderly(u) /\ u.focus = "field" /\ (line.searching => u.searching)
<1> DEFINE p == pointerdown(line, "field")
<1>1. Shown("field") /\ (u = Focused(p, "field") \/ (u = line /\ line.focus = "field"))
  BY Zenon DEF Clicked
<1>2. Orderly(p) /\ p.searching = line.searching
  BY PointerdownIs, ControlsAre
<1> HIDE DEF p
<1> QED BY <1>1, <1>2, FocusedField

\* The search closed: off the line, with the focus where it was or, given back, on a control that is drawn.
LEMMA CloseSearchIs ==
    ASSUME NEW u, Orderly(u), NEW back \in BOOLEAN, fold \in Tried
    PROVE  /\ Orderly(closeSearch(u, back))
           /\ ~closeSearch(u, back).searching /\ ~closeSearch(u, back).list
           /\ closeSearch(u, back).panel = u.panel /\ (closeSearch(u, back).menu => u.menu)
           /\ \/ closeSearch(u, back).focus = u.focus /\ (~back \/ ~u.searching)
              \/ back /\ closeSearch(u, back).focus \in {"field", "opener"}
                      /\ shown(closeSearch(u, back).focus, closeSearch(u, back), Drawing)
<1> DEFINE shut == [u EXCEPT !.list = FALSE, !.active = 0]
           closed == [shut EXCEPT !.searching = FALSE, !.from = Unset]
           candidates == <<u.from, "field", "opener">>
           standing == {i \in 1 .. 3 : candidates[i] # Unset /\ shown(candidates[i], closed, Drawing)}
           first == CHOOSE i \in standing : \A j \in standing : i <= j
           w == closeSearch(u, back)
<1>1. w = IF ~u.searching THEN shut
          ELSE IF back /\ standing # {} THEN Moved(closed, candidates[first])
          ELSE closed
  BY Zenon DEF closeSearch, closeList
<1>2. /\ shut \in LineRecords /\ shut.focus = u.focus /\ shut.panel = u.panel /\ shut.menu = u.menu /\ ~shut.list
      /\ shut.searching = u.searching
  BY DEF Orderly, LineRecords
<1>3. /\ closed \in LineRecords /\ closed.focus = u.focus /\ closed.panel = u.panel /\ closed.menu = u.menu
      /\ ~closed.list /\ ~closed.searching
  <2> HIDE DEF shut
  <2> QED BY <1>2 DEF LineRecords
<1>4. Orderly(shut) /\ Orderly(closed)
  <2> HIDE DEF shut, closed
  <2> QED BY <1>2, <1>3 DEF Orderly
<1> HIDE DEF shut, closed
<1>5. CASE ~u.searching
  <2>1. w = shut
    BY <1>1, <1>5
  <2> HIDE DEF w
  <2> QED BY <1>2, <1>4, <1>5, <2>1 DEF w
<1>6. CASE u.searching /\ ~back
  <2>1. w = closed
    BY <1>1, <1>6
  <2> HIDE DEF w
  <2> QED BY <1>3, <1>4, <1>6, <2>1 DEF w
<1>7. CASE u.searching /\ back
  <2>1. standing # {}
    <3>1. ~Growing(closed, fold)
      BY <1>3 DEF Growing
    <3>2. Drawing.fold = fold
      BY DEF Drawing
    <3>3. shown("field", closed, Drawing) \/ shown("opener", closed, Drawing)
      BY <3>1, <3>2, WhatIsShown
    <3>4. candidates[2] = "field" /\ candidates[3] = "opener"
      OBVIOUS
    <3>5. "field" # Unset /\ "opener" # Unset
      BY DEF Unset
    <3> HIDE DEF candidates
    <3> QED BY <3>3, <3>4, <3>5
  <2>2. first \in standing
    <3>1. \E i \in standing : \A j \in standing : i <= j
      <4>1. standing \subseteq 1 .. 3
        OBVIOUS
      <4> HIDE DEF standing
      <4>2. CASE 1 \in standing
        BY <4>1, <4>2
      <4>3. CASE 1 \notin standing /\ 2 \in standing
        BY <4>1, <4>3
      <4>4. CASE 1 \notin standing /\ 2 \notin standing
        <5>1. \A j \in standing : j = 3
          BY <4>1, <4>4
        <5>2. 3 \in standing
          BY <2>1, <5>1
        <5> QED BY <5>1, <5>2
      <4> QED BY <4>2, <4>3, <4>4
    <3> HIDE DEF standing
    <3> QED BY <3>1
  <2> DEFINE el == candidates[first]
  <2>3. el \in {"field", "opener"} /\ shown(el, closed, Drawing)
    <3>1. u.from \in {Unset, "field", "opener"}
      BY DEF Orderly, LineRecords
    <3>2. first \in 1 .. 3 /\ el # Unset /\ shown(el, closed, Drawing)
      BY <2>2
    <3> HIDE DEF first
    <3> QED BY <3>1, <3>2
  <2>4. w = Moved(closed, el)
    BY <1>1, <1>7, <2>1
  <2> HIDE DEF el, w
  <2>5. el \in Controls /\ el \in LineControls
    BY <2>3, ControlsAre
  <2>6. MovesTo(closed, w, el) /\ Orderly(w)
    BY <1>3, <1>4, <2>4, <2>5, MovedIs, MovedIsOrderly
  <2>7. w.focus = el /\ ~w.searching /\ w.panel = closed.panel /\ (w.menu => closed.menu)
    BY <1>3, <2>5, <2>6 DEF MovesTo
  <2>8. shown(el, w, Drawing)
    <3>1. Growing(w, Drawing.fold) <=> Growing(closed, Drawing.fold)
      BY <1>3, <2>7 DEF Growing
    <3>2. el # "menuitem" /\ el \notin {"clear", "show", "panelchip"}
      BY <2>3
    <3> QED BY <2>3, <3>1, <3>2, ShownAlike
  <2>9. ~w.list
    <3>1. el = "field" => w.list = closed.list
      BY <2>6 DEF MovesTo
    <3>2. w.list => w.focus = "field"
      BY <2>6 DEF Orderly
    <3> QED BY <1>3, <2>7, <3>1, <3>2
  <2>10. back /\ w.focus \in {"field", "opener"} /\ shown(w.focus, w, Drawing)
    BY <1>7, <2>3, <2>7, <2>8
  <2>11. Orderly(w) /\ ~w.searching /\ ~w.list /\ w.panel = u.panel /\ (w.menu => u.menu)
    BY <1>3, <2>6, <2>7, <2>9
  <2> QED BY <2>10, <2>11 DEF w
<1> QED BY <1>5, <1>6, <1>7

(***************************************************************************)
(* Filter line: the inductive invariant of the keyboard                    *)
(***************************************************************************)

\* The keyboard's inductive invariant: a line in order at one of the folds, a grown search only where the step
\* has one, and the focus on a control that is drawn.
KeyInv ==
    /\ LineInv
    /\ Orderly(line)
    /\ fold \in Tried
    /\ line.searching => Morphs(fold)
    /\ Shown(line.focus)

\* What KeyboardIsKept asks of a step.
StepKeepsKeyboard ==
    line.focus # "body" /\ line'.focus = "body"
        => \/ fold' # fold /\ ~shown(line.focus, line, Drawing')
           \/ line'.panel /\ counted(Drawing') = 0

LEMMA KeyInitially == LineInit => KeyInv
<1> SUFFICES ASSUME LineInit PROVE KeyInv
  OBVIOUS
<1>1. LineInv
  BY LineInitially
<1>2. /\ line \in LineRecords /\ ~line.searching /\ ~line.list /\ line.focus = "body"
  <2>1. line \in [searching : {FALSE}, list : {FALSE}, active : {0}, menu : {FALSE}, panel : BOOLEAN,
                  from : {Unset}, focus : {"body"}]
    BY DEF LineInit
  <2>2. /\ line = [searching |-> line.searching, list |-> line.list, active |-> line.active, menu |-> line.menu,
                   panel |-> line.panel, from |-> line.from, focus |-> line.focus]
        /\ line.searching \in {FALSE} /\ line.list \in {FALSE} /\ line.active \in {0} /\ line.menu \in {FALSE}
        /\ line.panel \in BOOLEAN /\ line.from \in {Unset} /\ line.focus \in {"body"}
    BY <2>1, Zenon
  <2>3. /\ line.searching \in BOOLEAN /\ line.list \in BOOLEAN /\ line.active \in Nat /\ line.menu \in BOOLEAN
        /\ line.from \in {Unset, "field", "opener"} /\ line.focus \in Controls
    <3>1. {FALSE} \subseteq BOOLEAN
      OBVIOUS
    <3>2. line.searching \in BOOLEAN /\ line.list \in BOOLEAN /\ line.menu \in BOOLEAN
      BY <2>2, <3>1, Zenon
    <3>3. line.active = 0 /\ line.from = Unset /\ line.focus = "body"
      BY <2>2, Zenon
    <3>4. line.active \in Nat /\ line.from \in {Unset, "field", "opener"} /\ line.focus \in Controls
      BY <3>3, ControlsAre
    <3> QED BY <3>2, <3>4
  <2>4. line \in LineRecords
    BY <2>2, <2>3 DEF LineRecords
  <2> QED BY <2>2, <2>4
<1>3. fold \in Tried
  <2>1. 1 \in DOMAIN TRIES
    BY DEF TRIES
  <2> QED BY <2>1 DEF LineInit, Tried
<1>4. Shown(line.focus)
  BY <1>2, WhatIsShown DEF Shown
<1> QED BY <1>1, <1>2, <1>3, <1>4 DEF KeyInv, Orderly

\* A commit drops the keyboard only from a control that is gone.
LEMMA RenderIsOrderly ==
    ASSUME LineInv', NEW u, Orderly(u), fold' \in Tried, NEW l, Render(u, l)
    PROVE  /\ KeyInv'
           /\ line'.panel = u.panel
           /\ u.focus # "body" /\ line'.focus = "body" => ~shown(u.focus, u, Drawing')
<1> DEFINE searching == u.searching /\ Morphs(fold')
           v == [u EXCEPT !.searching = searching]
           d == Drawing'
           w == IF shown(v.focus, v, d) THEN v ELSE Moved(v, "body")
<1>1. d.fold = fold'
  BY DEF Drawing
<1>2. line' = w
  <2>1. line' = Settled(u, Drawing')
    BY Zenon DEF Render
  <2> QED BY <1>1, <2>1, Zenon DEF Settled
<1>3. u \in LineRecords /\ u.searching \in BOOLEAN /\ Morphs(fold') \in BOOLEAN
  BY TriedAre DEF Orderly, LineRecords
<1>4. /\ v \in LineRecords /\ v.focus = u.focus /\ v.panel = u.panel /\ v.menu = u.menu /\ v.list = u.list
      /\ v.searching = searching
  <2>1. searching \in BOOLEAN
    BY <1>3
  <2> HIDE DEF searching
  <2> QED BY <1>3, <2>1 DEF LineRecords
<1> HIDE DEF v, d
<1>5. (v.searching => u.searching) /\ (v.searching => Morphs(fold'))
  BY <1>3, <1>4
<1>6. Orderly(v)
  BY <1>4, <1>5 DEF Orderly
<1>7. Growing(v, d.fold) <=> Growing(u, d.fold)
  BY <1>1, <1>3, <1>4 DEF Growing
<1>8. \A el : shown(el, v, d) <=> shown(el, u, d)
  BY <1>4, <1>7, ShownAlike
<1> HIDE DEF searching
<1>9. CASE shown(v.focus, v, d)
  <2>1. w = v
    BY <1>9
  <2> HIDE DEF w
  <2> QED BY <1>2, <1>4, <1>5, <1>6, <1>8, <1>9, <2>1 DEF KeyInv, Shown, d
<1>10. CASE ~shown(v.focus, v, d)
  <2>1. w = Moved(v, "body")
    BY <1>10
  <2> HIDE DEF w
  <2>2. MovesTo(v, w, "body") /\ Orderly(w)
    BY <1>4, <1>6, <2>1, ControlsAre, MovedIs, MovedIsOrderly
  <2>3. w.focus = "body" /\ w.panel = u.panel /\ (w.searching => Morphs(fold'))
    BY <1>4, <1>5, <2>2 DEF MovesTo
  <2>4. shown("body", w, d)
    BY WhatIsShown
  <2> QED BY <1>2, <1>4, <1>8, <1>10, <2>2, <2>3, <2>4 DEF KeyInv, Shown, d
<1> QED BY <1>9, <1>10

\* A commit of a line whose focus is drawn.
LEMMA CommitKeepsKeyboard ==
    ASSUME KeyInv, LineInv', fold' = fold, NEW u, NEW l, Orderly(u), Render(u, l),
           u.focus # "body", shown(u.focus, u, Drawing')
    PROVE  KeyInv' /\ StepKeepsKeyboard
<1>1. fold' \in Tried
  BY DEF KeyInv
<1> QED BY <1>1, RenderIsOrderly DEF StepKeepsKeyboard

LEMMA FoldIs == Drawing.fold = fold /\ Drawing'.fold = fold'
BY DEF Drawing

\* The field is drawn wherever it was, once the search is grown as far or further.
LEMMA FieldStays ==
    ASSUME NEW u, Shown("field"), line.searching => u.searching, fold' = fold
    PROVE  shown("field", u, Drawing')
<1>1. Growing(line, fold) => Growing(u, fold)
  BY DEF Growing
<1>2. Growing(line, fold) \/ ~fold.folded
  BY FoldIs, WhatIsShown DEF Shown
<1> QED BY <1>1, <1>2, FoldIs, WhatIsShown

\* The field, or the icon it is folded into, is always drawn.
LEMMA SearchIsShown == \A u, d : shown("field", u, d) \/ (shown("opener", u, d) /\ ~Growing(u, d.fold))
BY WhatIsShown

(***************************************************************************)
(* Filter line: what the handlers edit, control by control                 *)
(***************************************************************************)

\* A layer closed, the suggestions shut or walked: still in order.
LEMMA EditedIsOrderly ==
    ASSUME NEW u, Orderly(u)
    PROVE  /\ Orderly([u EXCEPT !.panel = FALSE]) /\ Orderly([u EXCEPT !.menu = FALSE])
           /\ \A n \in Nat : Orderly([u EXCEPT !.active = n])
           /\ Orderly([u EXCEPT !.active = 0, !.list = FALSE])
<1>1. Orderly([u EXCEPT !.panel = FALSE])
  BY DEF Orderly, LineRecords
<1>2. Orderly([u EXCEPT !.menu = FALSE])
  BY DEF Orderly, LineRecords
<1>3. \A n \in Nat : Orderly([u EXCEPT !.active = n])
  BY DEF Orderly, LineRecords
<1>4. Orderly([u EXCEPT !.active = 0, !.list = FALSE])
  BY DEF Orderly, LineRecords
<1> QED BY <1>1, <1>2, <1>3, <1>4

\* A layer opened off the grown search: still in order.
LEMMA LayeredIsOrderly ==
    ASSUME NEW u, Orderly(u), ~u.searching
    PROVE  Orderly([u EXCEPT !.menu = FALSE, !.panel = TRUE]) /\ Orderly([u EXCEPT !.panel = FALSE, !.menu = TRUE])
<1>1. Orderly([u EXCEPT !.menu = FALSE, !.panel = TRUE])
  BY DEF Orderly, LineRecords
<1>2. Orderly([u EXCEPT !.panel = FALSE, !.menu = TRUE])
  BY DEF Orderly, LineRecords
<1> QED BY <1>1, <1>2

\* The keyboard given to a control that is drawn.
LEMMA GivenIs ==
    ASSUME NEW u \in LineRecords, u.searching => ~u.panel /\ ~u.menu, NEW el \in LineControls \ {"menuitem"},
           (u.list => u.focus = "field") \/ el = "field", shown(el, u, Drawing')
    PROVE  Orderly(Given(u, el)) /\ Given(u, el).focus = el /\ shown(el, Given(u, el), Drawing')
<1> DEFINE w == Moved(u, el)
           d == Drawing'
<1>1. Given(u, el) = w
  BY DEF Given
<1>2. el \in Controls
  BY ControlsAre
<1>3. MovesTo(u, w, el)
  BY <1>2, MovedIs
<1> HIDE DEF w, d
<1>4. /\ w \in LineRecords /\ w.focus = el /\ w.panel = u.panel /\ w.searching = u.searching /\ (w.menu => u.menu)
      /\ w.list => w.focus = "field"
  BY <1>3 DEF MovesTo
<1>5. Orderly(w)
  BY <1>4 DEF Orderly
<1>6. shown(el, w, d)
  <2>1. Growing(w, d.fold) <=> Growing(u, d.fold)
    BY <1>4 DEF Growing
  <2> QED BY <1>4, <2>1, ShownAlike DEF d
<1> QED BY <1>1, <1>4, <1>5, <1>6 DEF d

\* The controls that only the fold, the grown search and the layers show or hide.
Fixed == {"scope", "star", "toggle", "organise", "view", "clear", "show", "menuitem", "closer", "opener"}

LEMMA FixedStays ==
    ASSUME NEW u, NEW el \in Fixed, shown(el, u, Drawing), fold' = fold
    PROVE  shown(el, u, Drawing')
<1>1. Drawing'.fold = Drawing.fold
  BY FoldIs
<1>2. CASE el \in {"scope", "view"}
  BY <1>1, <1>2, WhatIsShown
<1>3. CASE el \in {"star", "toggle", "organise"}
  BY <1>1, <1>3, WhatIsShown
<1>4. CASE el \in {"clear", "show"}
  BY <1>1, <1>4, WhatIsShown
<1>5. CASE el \in {"menuitem", "closer", "opener"}
  BY <1>1, <1>5, WhatIsShown
<1> QED BY <1>2, <1>3, <1>4, <1>5 DEF Fixed

\* A press on a control leaves it drawn.
LEMMA ClickedIsShown ==
    ASSUME Orderly(line), NEW el \in LineControls, el # "field", NEW u \in Clicked(el)
    PROVE  shown(el, u, Drawing)
<1>1. /\ Shown(el) /\ u.searching = line.searching
      /\ el \in {"panelchip", "clear", "show", "toggle"} => u.panel = line.panel
      /\ el \in {"menuitem", "organise"} => u.menu = line.menu
  BY ClickedIs
<1>2. Growing(u, Drawing.fold) <=> Growing(line, Drawing.fold)
  BY <1>1 DEF Growing
<1> QED BY <1>1, <1>2, ShownAlike DEF Shown

LEMMA ClickStays ==
    ASSUME KeyInv, NEW el \in Fixed, NEW u \in Clicked(el), fold' = fold
    PROVE  /\ Orderly(u) /\ u.focus = el /\ shown(el, u, Drawing')
           /\ el \notin {"closer", "scope"} => ~u.searching
<1>1. el \in LineControls /\ el # "field"
  BY ControlsAre DEF Fixed
<1>2. Orderly(line)
  BY DEF KeyInv
<1>3. Orderly(u) /\ u.focus = el /\ u.searching = line.searching
  BY <1>1, <1>2, ClickedIs
<1>4. shown(el, u, Drawing)
  BY <1>1, <1>2, ClickedIsShown
<1>5. el \notin {"closer", "scope"} => ~Growing(u, fold)
  BY <1>4, FoldIs, WhatIsShown DEF Fixed
<1>6. u.searching => Growing(u, fold)
  BY <1>3 DEF KeyInv, Growing
<1> QED BY <1>3, <1>4, <1>5, <1>6, FixedStays

(***************************************************************************)
(* Filter line: each action keeps the keyboard                             *)
(***************************************************************************)

\* Each action keeps the line in order and the keyboard off the body.
KeepsKeyboard == KeyInv' /\ StepKeepsKeyboard

LEMMA DrawnStays == OnlyTheLine => fold' = fold /\ Drawing' = Drawing
BY DEF OnlyTheLine, Drawing

\* The search: opened by the field, its icon or the slash, closed by its control, walked by the arrows.
LEMMA PressFieldKeyboard == ASSUME KeyInv, LineInv', PressField PROVE KeepsKeyboard
<1>1. PICK u \in Clicked("field") : Render(IF u.list THEN u ELSE openSearch(u, Origin(u)), Lights(u, lit))
  BY Zenon DEF PressField
<1>2. fold' = fold
  BY DrawnStays DEF PressField
<1>3. Shown("field") /\ Orderly(u) /\ u.focus = "field" /\ (line.searching => u.searching)
  BY <1>1, ClickedField DEF KeyInv
<1> DEFINE x == IF u.list THEN u ELSE openSearch(u, Origin(u))
<1>4. Orderly(x) /\ x.focus = "field" /\ (line.searching => x.searching)
  <2>1. u \in LineRecords /\ Origin(u) \in {"field", "opener"}
    BY <1>3 DEF Orderly, LineRecords, Origin
  <2> QED BY <1>3, <2>1, OpenSearchIs
<1>5. Render(x, Lights(u, lit))
  BY <1>1
<1> HIDE DEF x
<1>6. shown(x.focus, x, Drawing')
  BY <1>2, <1>3, <1>4, FieldStays
<1> QED BY <1>2, <1>4, <1>5, <1>6, CommitKeepsKeyboard DEF KeepsKeyboard

LEMMA OpenerOpens ==
    ASSUME KeyInv, NEW u \in LineRecords, NEW origin \in {"field", "opener"}, fold.folded, fold' = fold
    PROVE  /\ Orderly(openSearch(u, origin)) /\ openSearch(u, origin).focus = "field"
           /\ shown("field", openSearch(u, origin), Drawing')
<1>1. Morphs(fold)
  BY TriedAre DEF KeyInv
<1>2. openSearch(u, origin).searching
  BY <1>1, OpenSearchIs
<1>3. Growing(openSearch(u, origin), fold)
  BY <1>1, <1>2 DEF Growing
<1> QED BY <1>3, OpenSearchIs, FoldIs, WhatIsShown

LEMMA PressOpenerKeyboard == ASSUME KeyInv, LineInv', PressOpener PROVE KeepsKeyboard
<1>1. PICK u \in Clicked("opener") : Render(openSearch(u, "opener"), Lights(u, lit))
  BY Zenon DEF PressOpener
<1>2. fold' = fold
  BY DrawnStays DEF PressOpener
<1>3. Orderly(u)
  BY <1>1, <1>2, ClickStays DEF Fixed
<1>4. fold.folded
  <2>1. Shown("opener")
    BY <1>1, ControlsAre, ClickedIs DEF KeyInv
  <2> QED BY <2>1, FoldIs, WhatIsShown DEF Shown
<1> DEFINE x == openSearch(u, "opener")
<1>5. Orderly(x) /\ x.focus = "field" /\ shown("field", x, Drawing')
  BY <1>2, <1>3, <1>4, OpenerOpens DEF Orderly
<1> HIDE DEF x
<1> QED BY <1>1, <1>2, <1>5, CommitKeepsKeyboard DEF KeepsKeyboard, x

LEMMA SlashKeyboard == ASSUME KeyInv, LineInv', Slash PROVE KeepsKeyboard
<1> DEFINE x == IF fold.folded /\ ~Growing(line, fold) THEN openSearch(line, "opener") ELSE Focused(line, "field")
<1>1. Render(x, Lights(x, lit)) /\ fold' = fold
  BY DrawnStays, Zenon DEF Slash
<1>2. Orderly(line) /\ line \in LineRecords
  BY DEF KeyInv, Orderly
<1>3. CASE fold.folded /\ ~Growing(line, fold)
  <2>1. Orderly(x) /\ x.focus = "field" /\ shown("field", x, Drawing')
    BY <1>1, <1>2, <1>3, OpenerOpens
  <2> HIDE DEF x
  <2> QED BY <1>1, <2>1, CommitKeepsKeyboard DEF KeepsKeyboard
<1>4. CASE ~(fold.folded /\ ~Growing(line, fold))
  <2>1. Orderly(x) /\ x.focus = "field" /\ (line.searching => x.searching)
    BY <1>2, <1>4, FocusedField
  <2>2. Shown("field")
    <3>1. fold \in Tried
      BY DEF KeyInv
    <3> QED BY <1>4, <3>1, FoldIs, WhatIsShown DEF Shown
  <2> HIDE DEF x
  <2>3. shown("field", x, Drawing')
    BY <1>1, <2>1, <2>2, FieldStays
  <2> QED BY <1>1, <2>1, <2>3, CommitKeepsKeyboard DEF KeepsKeyboard
<1> QED BY <1>3, <1>4

\* The search closed with the focus given back, from a control of it.
LEMMA CloseGivesBack ==
    ASSUME KeyInv, LineInv', OnlyTheLine, NEW u, Orderly(u), u.searching, NEW l, Render(closeSearch(u, TRUE), l)
    PROVE  KeepsKeyboard
<1> DEFINE x == closeSearch(u, TRUE)
<1>1. Orderly(x) /\ x.focus \in {"field", "opener"} /\ shown(x.focus, x, Drawing)
  BY CloseSearchIs DEF KeyInv
<1> HIDE DEF x
<1>2. shown(x.focus, x, Drawing') /\ x.focus # "body" /\ fold' = fold
  BY <1>1, DrawnStays
<1>3. Render(x, l)
  BY DEF x
<1> QED BY <1>1, <1>2, <1>3, CommitKeepsKeyboard DEF KeepsKeyboard

LEMMA PressCloserKeyboard == ASSUME KeyInv, LineInv', PressCloser PROVE KeepsKeyboard
<1>1. OnlyTheLine /\ \E u \in Clicked("closer") : Render(closeSearch(u, TRUE), Lights(u, lit))
  BY DEF PressCloser
<1>2. PICK u \in Clicked("closer") : Render(closeSearch(u, TRUE), Lights(u, lit))
  BY <1>1
<1>3. Orderly(u) /\ shown("closer", u, Drawing)
  BY ControlsAre, ClickedIs, ClickedIsShown DEF KeyInv
<1>4. u.searching
  BY <1>3, WhatIsShown DEF Growing
<1> QED BY <1>1, <1>2, <1>3, <1>4, CloseGivesBack

LEMMA ArrowDownKeyboard == ASSUME KeyInv, LineInv', ArrowDown PROVE KeepsKeyboard
<1> DEFINE n == Len(Options)
           next == IF n = 0 THEN 0 ELSE (current % n) + 1
           x == IF ~line.list THEN openSearch(line, Origin(line)) ELSE [line EXCEPT !.active = next]
<1>1. line.focus = "field" /\ OnlyTheLine /\ Render(x, lit)
  BY Zenon DEF ArrowDown
<1>2. fold' = fold /\ Shown("field") /\ Orderly(line) /\ line \in LineRecords
  BY <1>1, DrawnStays DEF KeyInv, Orderly
<1>3. next \in Nat
  <2> DEFINE offered == AllFilters \cup {Course(r) : r \in visible(facts, criteria, term)}
  <2>1. Options \in Seq(offered)
    BY OptionsAre DEF Options, KeyInv, LineInv, LineTypes
  <2> HIDE DEF offered
  <2>2. n \in Nat
    BY <2>1
  <2>3. current \in Nat
    <3>1. line.active \in Nat
      BY <1>2 DEF LineRecords
    <3> QED BY <3>1 DEF current
  <2> HIDE DEF n
  <2>4. n # 0 => current % n \in Nat
    BY <2>2, <2>3
  <2> QED BY <2>4
<1>4. CASE ~line.list
  <2>1. Origin(line) \in {"field", "opener"}
    BY <1>2 DEF LineRecords, Origin
  <2>2. Orderly(x) /\ x.focus = "field" /\ (line.searching => x.searching)
    BY <1>2, <1>4, <2>1, OpenSearchIs
  <2> HIDE DEF x
  <2>3. shown("field", x, Drawing')
    BY <1>2, <2>2, FieldStays
  <2> QED BY <1>1, <1>2, <2>2, <2>3, CommitKeepsKeyboard DEF KeepsKeyboard
<1>5. CASE line.list
  <2>1. x = [line EXCEPT !.active = next]
    BY <1>5
  <2> HIDE DEF next
  <2>2. Orderly(x) /\ x.focus = line.focus /\ x.searching = line.searching
    <3>1. Orderly(x)
      BY <1>2, <1>3, <2>1, EditedIsOrderly
    <3>2. x.focus = line.focus /\ x.searching = line.searching
      BY <1>2, <2>1 DEF LineRecords
    <3> QED BY <3>1, <3>2
  <2> HIDE DEF x
  <2>3. shown("field", x, Drawing')
    BY <1>2, <2>2, FieldStays
  <2> QED BY <1>1, <1>2, <2>2, <2>3, CommitKeepsKeyboard DEF KeepsKeyboard
<1> QED BY <1>4, <1>5

LEMMA ArrowUpKeyboard == ASSUME KeyInv, LineInv', ArrowUp PROVE KeepsKeyboard
<1> DEFINE next == IF current <= 1 THEN 0 ELSE current - 1
           x == [line EXCEPT !.active = next]
<1>1. line.focus = "field" /\ OnlyTheLine /\ Render(x, lit)
  BY Zenon DEF ArrowUp
<1>2. fold' = fold /\ Shown("field") /\ Orderly(line) /\ line \in LineRecords
  BY <1>1, DrawnStays DEF KeyInv, Orderly
<1>3. next \in Nat
  <2>1. current \in Nat
    BY <1>2 DEF current, LineRecords
  <2> QED BY <2>1
<1> HIDE DEF next
<1>4. Orderly(x) /\ x.focus = line.focus /\ x.searching = line.searching
  BY <1>2, <1>3, EditedIsOrderly DEF LineRecords
<1> HIDE DEF x
<1>5. shown("field", x, Drawing')
  BY <1>2, <1>4, FieldStays
<1> QED BY <1>1, <1>2, <1>4, <1>5, CommitKeepsKeyboard DEF KeepsKeyboard

\* Whoever types is in the field, which stays drawn.
LEMMA TypeKeyboard == ASSUME KeyInv, LineInv', NEW value, Type(value) PROVE KeepsKeyboard
<1> DEFINE u == [line EXCEPT !.active = 0]
           x == IF value = NoText THEN [u EXCEPT !.list = FALSE] ELSE IF ~u.list THEN openSearch(u, "field") ELSE u
<1>1. line.focus = "field" /\ fold' = fold /\ Render(x, lit)
  BY Zenon DEF Type
<1>2. Shown("field") /\ Orderly(line) /\ line \in LineRecords
  BY <1>1 DEF KeyInv, Orderly
<1>3. u \in LineRecords /\ u.focus = "field" /\ u.searching = line.searching /\ u.list = line.list
  BY <1>1, <1>2 DEF LineRecords
<1>4. Orderly(u)
  BY <1>2, EditedIsOrderly
<1>5. CASE value = NoText
  <2>1. x = [line EXCEPT !.active = 0, !.list = FALSE]
    BY <1>2, <1>5
  <2>2. Orderly(x) /\ x.focus = "field" /\ x.searching = line.searching
    <3>1. Orderly(x)
      BY <1>2, <2>1, EditedIsOrderly
    <3>2. x.focus = "field" /\ x.searching = line.searching
      BY <1>1, <1>2, <2>1 DEF LineRecords
    <3> QED BY <3>1, <3>2
  <2> HIDE DEF x
  <2>3. shown("field", x, Drawing')
    BY <1>1, <1>2, <2>2, FieldStays
  <2> QED BY <1>1, <2>2, <2>3, CommitKeepsKeyboard DEF KeepsKeyboard
<1>6. CASE value # NoText
  <2>1. x = IF ~u.list THEN openSearch(u, "field") ELSE u
    BY <1>6
  <2> HIDE DEF x, u
  <2>2. Orderly(x) /\ x.focus = "field" /\ (line.searching => x.searching)
    BY <1>3, <1>4, <2>1, OpenSearchIs
  <2>3. shown("field", x, Drawing')
    BY <1>1, <1>2, <2>2, FieldStays
  <2> QED BY <1>1, <2>2, <2>3, CommitKeepsKeyboard DEF KeepsKeyboard, x, u
<1> QED BY <1>5, <1>6

\* The rows counted for the panel's chip.
LEMMA CountedIsNat == \A d : d.c \in AllCriteria => counted(d) \in Nat
<1> TAKE d
<1> HAVE d.c \in AllCriteria
<1>1. counted(d) = CountOf(Field, countFacets(d.facts, d.c, d.term))
  BY DEF counted, CountOf, Field
<1>2. Field \in AllFilters
  BY DEF AllFilters
<1> QED BY <1>1, <1>2, CountIsWhatIsHeld, DrawnAreFinite

\* A line left as it is while the text, the rows or the stars around it change loses only a panel's chip.
LEMMA AroundTheLine ==
    ASSUME KeyInv, LineInv', criteria' = criteria, query' = query, fold' = fold, NEW l, Render(line, l)
    PROVE  KeepsKeyboard
<1>1. fold' \in Tried /\ Orderly(line) /\ Shown(line.focus)
  BY DEF KeyInv
<1>2. /\ KeyInv' /\ line'.panel = line.panel
      /\ line.focus # "body" /\ line'.focus = "body" => ~shown(line.focus, line, Drawing')
  BY <1>1, RenderIsOrderly
<1>3. ASSUME ~shown(line.focus, line, Drawing') PROVE line.panel /\ counted(Drawing') = 0
  <2> DEFINE el == line.focus
             d == Drawing'
  <2>1. Drawing.fold = d.fold /\ d.c = Drawing.c /\ d.query = Drawing.query
    BY DEF Drawing
  <2>2. textchip(line, d) <=> textchip(line, Drawing)
    BY <2>1 DEF textchip
  <2>3. shown(el, line, Drawing) /\ ~shown(el, line, d)
    BY <1>1, <1>3 DEF Shown
  <2> HIDE DEF el, d
  <2>4. el = "panelchip" /\ line.panel /\ ~(d.c.sel = Value \/ counted(d) > 0)
    BY <2>1, <2>2, <2>3 DEF shown
  <2>5. d.c \in AllCriteria
    <3>1. criteria' \in AllCriteria /\ d.c = criteria'
      BY DEF LineInv, LineTypes, d, Drawing
    <3> QED BY <3>1
  <2>6. counted(d) \in Nat
    BY <2>5, CountedIsNat
  <2>7. counted(d) = 0
    <3> HIDE DEF counted
    <3> QED BY <2>4, <2>6
  <2> QED BY <2>4, <2>7 DEF d
<1> QED BY <1>2, <1>3 DEF KeepsKeyboard, StepKeepsKeyboard

LEMMA SettleKeyboard == ASSUME KeyInv, LineInv', Settle PROVE KeepsKeyboard
<1>1. criteria' = criteria /\ query' = query /\ fold' = fold /\ Render(line, lit)
  BY DEF Settle
<1> QED BY <1>1, AroundTheLine

LEMMA StarredKeyboard == ASSUME KeyInv, LineInv', NEW r, Starred(r) PROVE KeepsKeyboard
<1>1. criteria' = criteria /\ query' = query /\ fold' = fold /\ Render(line, lit)
  BY DEF Starred
<1> QED BY <1>1, AroundTheLine

\* A new fold drops the keyboard only from a control that it hides.
LEMMA FitKeyboard == ASSUME KeyInv, LineInv', NEW i \in DOMAIN TRIES, Fit(TRIES[i]) PROVE KeepsKeyboard
<1> DEFINE f == TRIES[i]
           l == IF TakenByMove(f) /\ line.focus \in DOMAIN Previewing
                THEN preview(Previewing[line.focus], facts, criteria, term) ELSE lit
<1>1. f # fold /\ fold' = f /\ Render(GivenBack(f), l)
  BY Zenon DEF Fit
<1>2. f \in Tried
  BY DEF Tried
<1> HIDE DEF f, l
<1>3. Render(line, l)
  BY <1>1 DEF GivenBack
<1>4. Orderly(line) /\ fold' \in Tried
  BY <1>1, <1>2 DEF KeyInv
<1>5. KeyInv' /\ (line.focus # "body" /\ line'.focus = "body" => ~shown(line.focus, line, Drawing'))
  BY <1>3, <1>4, RenderIsOrderly
<1> QED BY <1>1, <1>5 DEF KeepsKeyboard, StepKeepsKeyboard

\* A press on a control that stays where it is, whatever it does to the rest.
LEMMA FixedPress ==
    ASSUME KeyInv, LineInv', NEW el \in Fixed, NEW u \in Clicked(el), fold' = fold, NEW l, Render(u, l)
    PROVE  KeepsKeyboard
<1>1. Orderly(u) /\ u.focus = el /\ shown(el, u, Drawing')
  BY ClickStays
<1>2. el # "body"
  BY DEF Fixed
<1> QED BY <1>1, <1>2, CommitKeepsKeyboard DEF KeepsKeyboard

LEMMA FixedPresses == ASSUME KeyInv, LineInv', PressView \/ Check \/ PressStar \/ PressClear PROVE KeepsKeyboard
<1>1. CASE PressView
  <2>1. OnlyTheLine /\ \E u \in Clicked("view") : Render(u, Dark)
    BY <1>1 DEF PressView
  <2>2. "view" \in Fixed /\ fold' = fold
    BY <2>1, DrawnStays DEF Fixed
  <2> QED BY <2>1, <2>2, FixedPress
<1>2. CASE Check
  <2>1. fold' = fold /\ \E u \in Clicked("scope") : Render(u, Dark)
    BY <1>2, Zenon DEF Check, Choosing
  <2>2. "scope" \in Fixed
    BY DEF Fixed
  <2> QED BY <2>1, <2>2, FixedPress
<1>3. CASE PressStar
  <2>1. fold' = fold /\ \E u \in Clicked("star") : Render(u, Dark)
    BY <1>3, Zenon DEF PressStar, Choosing
  <2>2. "star" \in Fixed
    BY DEF Fixed
  <2> QED BY <2>1, <2>2, FixedPress
<1>4. CASE PressClear
  <2>1. fold' = fold /\ \E u \in Clicked("clear") : Render(u, Lights(u, lit))
    BY <1>4, Zenon DEF PressClear
  <2>2. "clear" \in Fixed
    BY DEF Fixed
  <2> QED BY <2>1, <2>2, FixedPress
<1> QED BY <1>1, <1>2, <1>3, <1>4

\* The search closed without giving the focus back.
LEMMA CloseSearchStays ==
    ASSUME NEW u, Orderly(u), fold \in Tried
    PROVE  /\ Orderly(closeSearch(u, FALSE)) /\ ~closeSearch(u, FALSE).searching /\ ~closeSearch(u, FALSE).list
           /\ closeSearch(u, FALSE).focus = u.focus
<1> DEFINE back == FALSE
           x == closeSearch(u, back)
<1>1. back \in BOOLEAN /\ ~back
  OBVIOUS
<1> HIDE DEF back
<1>2. Orderly(x) /\ ~x.searching /\ ~x.list
  BY <1>1, CloseSearchIs
<1>3. /\ closeSearch(u, back).panel = u.panel /\ (closeSearch(u, back).menu => u.menu)
      /\ \/ closeSearch(u, back).focus = u.focus /\ (~back \/ ~u.searching)
         \/ back /\ closeSearch(u, back).focus \in {"field", "opener"}
                 /\ shown(closeSearch(u, back).focus, closeSearch(u, back), Drawing)
  BY <1>1, CloseSearchIs
<1> QED BY <1>2, <1>3 DEF back

\* The panel and the menu: their buttons, and what is in them, which gives the keyboard back to the button.
LEMMA PressToggleKeyboard == ASSUME KeyInv, LineInv', PressToggle PROVE KeepsKeyboard
<1>1. OnlyTheLine /\ \E u \in Clicked("toggle") :
         Render(IF u.panel THEN [u EXCEPT !.panel = FALSE]
                ELSE [closeSearch(u, FALSE) EXCEPT !.menu = FALSE, !.panel = TRUE], Lights(u, lit))
  BY DEF PressToggle
<1>2. PICK u \in Clicked("toggle") :
         Render(IF u.panel THEN [u EXCEPT !.panel = FALSE]
                ELSE [closeSearch(u, FALSE) EXCEPT !.menu = FALSE, !.panel = TRUE], Lights(u, lit))
  BY <1>1
<1>3. fold' = fold /\ "toggle" \in Fixed
  BY <1>1, DrawnStays DEF Fixed
<1>4. Orderly(u) /\ u.focus = "toggle" /\ ~u.searching
  BY <1>3, ClickStays
<1> DEFINE s == closeSearch(u, FALSE)
           x == IF u.panel THEN [u EXCEPT !.panel = FALSE] ELSE [s EXCEPT !.menu = FALSE, !.panel = TRUE]
<1>5. Orderly(x) /\ x.focus = "toggle" /\ ~x.searching
  <2>1. Orderly([u EXCEPT !.panel = FALSE]) /\ [u EXCEPT !.panel = FALSE].focus = "toggle" /\ ~[u EXCEPT !.panel = FALSE].searching
    <3>1. Orderly([u EXCEPT !.panel = FALSE])
      BY <1>4, EditedIsOrderly
    <3> QED BY <1>4, <3>1 DEF Orderly, LineRecords
  <2>2. Orderly(s) /\ ~s.searching /\ s.focus = "toggle"
    BY <1>4, CloseSearchStays DEF KeyInv
  <2> HIDE DEF s
  <2>3. LET y == [s EXCEPT !.menu = FALSE, !.panel = TRUE] IN Orderly(y) /\ y.focus = "toggle" /\ ~y.searching
    <3>1. Orderly([s EXCEPT !.menu = FALSE, !.panel = TRUE])
      BY <2>2, LayeredIsOrderly
    <3> QED BY <2>2, <3>1 DEF Orderly, LineRecords
  <2> QED BY <2>1, <2>3
<1>6. Render(x, Lights(u, lit))
  BY <1>2
<1> HIDE DEF x
<1>7. shown("toggle", x, Drawing')
  BY <1>5, WhatIsShown DEF Growing
<1> QED BY <1>3, <1>5, <1>6, <1>7, CommitKeepsKeyboard DEF KeepsKeyboard

LEMMA PressOrganiseKeyboard == ASSUME KeyInv, LineInv', PressOrganise PROVE KeepsKeyboard
<1>1. OnlyTheLine /\ \E u \in Clicked("organise") :
         Render(IF u.menu THEN [u EXCEPT !.menu = FALSE]
                ELSE [closeSearch(u, FALSE) EXCEPT !.panel = FALSE, !.menu = TRUE], Lights(u, lit))
  BY DEF PressOrganise
<1>2. PICK u \in Clicked("organise") :
         Render(IF u.menu THEN [u EXCEPT !.menu = FALSE]
                ELSE [closeSearch(u, FALSE) EXCEPT !.panel = FALSE, !.menu = TRUE], Lights(u, lit))
  BY <1>1
<1>3. fold' = fold /\ "organise" \in Fixed
  BY <1>1, DrawnStays DEF Fixed
<1>4. Orderly(u) /\ u.focus = "organise" /\ ~u.searching
  BY <1>3, ClickStays
<1> DEFINE s == closeSearch(u, FALSE)
           x == IF u.menu THEN [u EXCEPT !.menu = FALSE] ELSE [s EXCEPT !.panel = FALSE, !.menu = TRUE]
<1>5. Orderly(x) /\ x.focus = "organise" /\ ~x.searching
  <2>1. Orderly([u EXCEPT !.menu = FALSE]) /\ [u EXCEPT !.menu = FALSE].focus = "organise" /\ ~[u EXCEPT !.menu = FALSE].searching
    <3>1. Orderly([u EXCEPT !.menu = FALSE])
      BY <1>4, EditedIsOrderly
    <3> QED BY <1>4, <3>1 DEF Orderly, LineRecords
  <2>2. Orderly(s) /\ ~s.searching /\ s.focus = "organise"
    BY <1>4, CloseSearchStays DEF KeyInv
  <2> HIDE DEF s
  <2>3. LET y == [s EXCEPT !.panel = FALSE, !.menu = TRUE] IN Orderly(y) /\ y.focus = "organise" /\ ~y.searching
    <3>1. Orderly([s EXCEPT !.panel = FALSE, !.menu = TRUE])
      BY <2>2, LayeredIsOrderly
    <3> QED BY <2>2, <3>1 DEF Orderly, LineRecords
  <2> QED BY <2>1, <2>3
<1>6. Render(x, Lights(u, lit))
  BY <1>2
<1> HIDE DEF x
<1>7. shown("organise", x, Drawing')
  BY <1>5, WhatIsShown DEF Growing
<1> QED BY <1>3, <1>5, <1>6, <1>7, CommitKeepsKeyboard DEF KeepsKeyboard

\* The keyboard given, off the grown search, to the button of the layer that closes.
LEMMA BackToButton ==
    ASSUME KeyInv, LineInv', fold' = fold, NEW u, Orderly(u), ~u.searching, NEW el \in {"toggle", "organise"},
           NEW l, Render(Given(u, el), l)
    PROVE  KeepsKeyboard
<1>1. el \in LineControls \ {"menuitem"} /\ el # "body"
  BY ControlsAre
<1>2. shown(el, u, Drawing')
  BY WhatIsShown DEF Growing
<1>3. Orderly(Given(u, el)) /\ Given(u, el).focus = el /\ shown(el, Given(u, el), Drawing')
  BY <1>1, <1>2, GivenIs DEF Orderly
<1> QED BY <1>1, <1>3, CommitKeepsKeyboard DEF KeepsKeyboard

LEMMA EditedStaysOff ==
    ASSUME NEW u, Orderly(u), ~u.searching
    PROVE  ~[u EXCEPT !.panel = FALSE].searching /\ ~[u EXCEPT !.menu = FALSE].searching
BY DEF Orderly, LineRecords

LEMMA PressMenuItemKeyboard == ASSUME KeyInv, LineInv', PressMenuItem PROVE KeepsKeyboard
<1>1. OnlyTheLine /\ \E u \in Clicked("menuitem") : Render(Given([u EXCEPT !.menu = FALSE], "organise"), Dark)
  BY DEF PressMenuItem
<1>2. PICK u \in Clicked("menuitem") : Render(Given([u EXCEPT !.menu = FALSE], "organise"), Dark)
  BY <1>1
<1>3. fold' = fold /\ "menuitem" \in Fixed
  BY <1>1, DrawnStays DEF Fixed
<1>4. Orderly(u) /\ ~u.searching
  BY <1>3, ClickStays
<1>5. Orderly([u EXCEPT !.menu = FALSE]) /\ ~[u EXCEPT !.menu = FALSE].searching
  BY <1>4, EditedIsOrderly, EditedStaysOff
<1> QED BY <1>2, <1>3, <1>5, BackToButton

LEMMA PressShowKeyboard == ASSUME KeyInv, LineInv', PressShow PROVE KeepsKeyboard
<1>1. OnlyTheLine /\ \E u \in Clicked("show") : Render(Given([u EXCEPT !.panel = FALSE], "toggle"), Lights(u, lit))
  BY DEF PressShow
<1>2. PICK u \in Clicked("show") : Render(Given([u EXCEPT !.panel = FALSE], "toggle"), Lights(u, lit))
  BY <1>1
<1>3. fold' = fold /\ "show" \in Fixed
  BY <1>1, DrawnStays DEF Fixed
<1>4. Orderly(u) /\ ~u.searching
  BY <1>3, ClickStays
<1>5. Orderly([u EXCEPT !.panel = FALSE]) /\ ~[u EXCEPT !.panel = FALSE].searching
  BY <1>4, EditedIsOrderly, EditedStaysOff
<1> QED BY <1>2, <1>3, <1>5, BackToButton

\* Escape: the field's search, the panel, the menu, the search from its other controls.
LEMMA EscapeKeyboard == ASSUME KeyInv, LineInv', Escape PROVE KeepsKeyboard
<1> DEFINE fromfield == line.focus = "field" /\ (line.list \/ line.searching)
           u == IF line.panel THEN Given([line EXCEPT !.panel = FALSE], "toggle")
                ELSE IF line.menu THEN Given([line EXCEPT !.menu = FALSE], "organise")
                ELSE IF line.searching THEN closeSearch(line, TRUE) ELSE line
<1>1. /\ OnlyTheLine
      /\ \/ fromfield /\ Render(closeSearch(line, TRUE), lit)
         \/ ~fromfield /\ u # line /\ Render(u, Lights(u, lit))
  BY Zenon DEF Escape
<1>2. Orderly(line) /\ fold' = fold /\ Drawing' = Drawing /\ Shown(line.focus) /\ fold \in Tried
  BY <1>1, DrawnStays DEF KeyInv
<1>3. CASE fromfield /\ Render(closeSearch(line, TRUE), lit) /\ line.searching
  BY <1>1, <1>2, <1>3, CloseGivesBack
<1>4. CASE fromfield /\ Render(closeSearch(line, TRUE), lit) /\ ~line.searching
  <2> DEFINE x == closeSearch(line, TRUE)
  <2>1. Orderly(x) /\ ~x.searching /\ (x.focus = line.focus \/ (x.focus \in {"field", "opener"} /\ shown(x.focus, x, Drawing)))
    BY <1>2, CloseSearchIs
  <2> HIDE DEF x
  <2>2. line.focus = "field" /\ Shown("field")
    BY <1>2, <1>4
  <2>3. x.focus = "field" => shown("field", x, Drawing')
    BY <1>2, <1>4, <2>2, FieldStays
  <2>4. shown(x.focus, x, Drawing') /\ x.focus # "body"
    BY <1>2, <2>1, <2>2, <2>3
  <2>5. Render(x, lit)
    BY <1>4 DEF x
  <2> QED BY <1>2, <2>1, <2>4, <2>5, CommitKeepsKeyboard DEF KeepsKeyboard
<1>5. CASE ~fromfield /\ u # line /\ Render(u, Lights(u, lit))
  <2>1. (line.panel => ~line.searching) /\ (line.menu => ~line.searching)
    BY <1>2 DEF Orderly
  <2>2. CASE line.panel
    <3>1. u = Given([line EXCEPT !.panel = FALSE], "toggle")
      BY <2>2
    <3>2. Orderly([line EXCEPT !.panel = FALSE]) /\ ~[line EXCEPT !.panel = FALSE].searching
      BY <1>2, <2>1, <2>2, EditedIsOrderly, EditedStaysOff
    <3> HIDE DEF u
    <3> QED BY <1>2, <1>5, <3>1, <3>2, BackToButton
  <2>3. CASE ~line.panel /\ line.menu
    <3>1. u = Given([line EXCEPT !.menu = FALSE], "organise")
      BY <2>3
    <3>2. Orderly([line EXCEPT !.menu = FALSE]) /\ ~[line EXCEPT !.menu = FALSE].searching
      BY <1>2, <2>1, <2>3, EditedIsOrderly, EditedStaysOff
    <3> HIDE DEF u
    <3> QED BY <1>2, <1>5, <3>1, <3>2, BackToButton
  <2>4. CASE ~line.panel /\ ~line.menu
    <3>1. line.searching /\ u = closeSearch(line, TRUE)
      BY <1>5, <2>4
    <3> HIDE DEF u
    <3> QED BY <1>1, <1>2, <1>5, <3>1, CloseGivesBack
  <2> QED BY <2>2, <2>3, <2>4
<1> QED BY <1>1, <1>3, <1>4, <1>5

\* The eraser gives the keyboard to the field it is in.
LEMMA PressEraserKeyboard == ASSUME KeyInv, LineInv', PressEraser PROVE KeepsKeyboard
<1>1. fold' = fold /\ \E u \in Clicked("eraser") :
         Render(Given([u EXCEPT !.list = TRUE, !.active = 0], "field"), Lights(u, lit))
  BY Zenon DEF PressEraser
<1>2. PICK u \in Clicked("eraser") : Render(Given([u EXCEPT !.list = TRUE, !.active = 0], "field"), Lights(u, lit))
  BY <1>1
<1>3. Orderly(u) /\ u.searching = line.searching /\ Shown("eraser")
  BY ControlsAre, ClickedIs DEF KeyInv
<1> DEFINE x == [u EXCEPT !.list = TRUE, !.active = 0]
<1>4. x \in LineRecords /\ x.searching = line.searching /\ (x.searching => ~x.panel /\ ~x.menu)
  BY <1>3 DEF Orderly, LineRecords
<1> HIDE DEF x
<1>5. Shown("field")
  BY <1>3, WhatIsShown DEF Shown
<1>6. shown("field", x, Drawing') /\ "field" \in LineControls \ {"menuitem"}
  BY <1>1, <1>4, <1>5, FieldStays, ControlsAre
<1>7. Orderly(Given(x, "field")) /\ Given(x, "field").focus = "field" /\ shown("field", Given(x, "field"), Drawing')
  BY <1>4, <1>6, GivenIs
<1>8. Render(Given(x, "field"), Lights(u, lit))
  BY <1>2 DEF x
<1> QED BY <1>1, <1>7, <1>8, CommitKeepsKeyboard DEF KeepsKeyboard

\* An option chosen leaves the keyboard in the field, or leaves the page for the course.
LEMMA ChooseKeyboard ==
    ASSUME KeyInv, LineInv', NEW u, Orderly(u), u.focus = "field", u.searching = line.searching, Shown("field"),
           NEW i, Choose(u, i)
    PROVE  KeepsKeyboard
<1>1. fold' = fold
  BY Zenon DEF Choose, OnlyTheLine
<1>2. CASE Options[i].kind = "course"
  <2> DEFINE s == closeSearch(u, FALSE)
             x == [s EXCEPT !.focus = "outside"]
  <2>1. Render(x, lit)
    BY <1>2, Zenon DEF Choose
  <2>2. Orderly(s) /\ ~s.searching /\ ~s.list
    BY CloseSearchStays DEF KeyInv
  <2> HIDE DEF s
  <2>3. Orderly(x) /\ x.focus = "outside"
    BY <2>2, ControlsAre DEF Orderly, LineRecords
  <2> HIDE DEF x
  <2>4. shown(x.focus, x, Drawing')
    BY <2>3, WhatIsShown
  <2> QED BY <1>1, <2>1, <2>3, <2>4, CommitKeepsKeyboard DEF KeepsKeyboard
<1>3. CASE Options[i].kind # "course"
  <2> DEFINE x == [u EXCEPT !.active = 0]
  <2>1. Render(x, lit)
    BY <1>3, Zenon DEF Choose
  <2>2. Orderly(x)
    BY EditedIsOrderly
  <2>3. x.focus = "field" /\ x.searching = line.searching
    BY DEF Orderly, LineRecords
  <2> HIDE DEF x
  <2>4. shown("field", x, Drawing')
    BY <1>1, <2>3, FieldStays
  <2> QED BY <1>1, <2>1, <2>2, <2>3, <2>4, CommitKeepsKeyboard DEF KeepsKeyboard
<1> QED BY <1>2, <1>3

LEMMA EnterKeyboard == ASSUME KeyInv, LineInv', Enter PROVE KeepsKeyboard
<1>1. line.focus = "field" /\ Choose(line, current)
  BY DEF Enter
<1>2. Orderly(line) /\ Shown("field")
  BY <1>1 DEF KeyInv
<1> QED BY <1>1, <1>2, ChooseKeyboard

LEMMA PressOptionKeyboard == ASSUME KeyInv, LineInv', line.list, NEW i, PressOption(i) PROVE KeepsKeyboard
<1>1. line.focus = "field" /\ Orderly(line) /\ Shown("field")
  BY DEF KeyInv, Orderly
<1> DEFINE p == pointerdown(line, "field")
<1>2. Orderly(p) /\ p.focus = "field" /\ p.searching = line.searching
  BY <1>1, PointerdownIs, ControlsAre
<1>3. Choose(p, i)
  BY DEF PressOption
<1> HIDE DEF p
<1> QED BY <1>1, <1>2, <1>3, ChooseKeyboard

\* A panel's chip goes from under the keyboard only when nothing is left for it to count.
LEMMA PressPanelChipKeyboard == ASSUME KeyInv, LineInv', PressPanelChip PROVE KeepsKeyboard
<1>1. fold' = fold /\ criteria' = [criteria EXCEPT !.sel = IF criteria.sel = Value THEN Unset ELSE Value]
      /\ \E u \in Clicked("panelchip") : Render(u, Dark)
  BY Zenon DEF PressPanelChip, Choosing
<1>2. PICK u \in Clicked("panelchip") : Render(u, Dark)
  BY <1>1
<1>3. Orderly(u) /\ u.focus = "panelchip" /\ shown("panelchip", u, Drawing)
  BY ControlsAre, ClickedIs, ClickedIsShown DEF KeyInv
<1>4. fold' \in Tried
  BY <1>1 DEF KeyInv
<1>5. /\ KeyInv' /\ line'.panel = u.panel
      /\ u.focus # "body" /\ line'.focus = "body" => ~shown(u.focus, u, Drawing')
  BY <1>2, <1>3, <1>4, RenderIsOrderly
<1>6. ASSUME ~shown("panelchip", u, Drawing') PROVE u.panel /\ counted(Drawing') = 0
  <2> DEFINE d == Drawing'
  <2>1. d.fold = fold' /\ Drawing.fold = fold /\ d.c = criteria'
    BY DEF Drawing
  <2>2. ~Growing(u, fold) /\ u.panel
    BY <1>3, <2>1, WhatIsShown
  <2> HIDE DEF d
  <2>3. ~(counted(d) > 0)
    BY <1>1, <1>6, <2>1, <2>2, WhatIsShown DEF d
  <2>4. counted(d) \in Nat
    <3>1. criteria' \in AllCriteria
      BY DEF LineInv, LineTypes
    <3> QED BY <2>1, <3>1, CountedIsNat
  <2>5. counted(d) = 0
    BY <2>3, <2>4
  <2> QED BY <2>2, <2>5 DEF d
<1> QED BY <1>3, <1>5, <1>6 DEF KeepsKeyboard, StepKeepsKeyboard

\* A chip pressed away hands the keyboard to the chip that took its place, or to the search.
LEMMA ChipHandsOn ==
    ASSUME KeyInv, LineInv', fold' = fold, NEW u, Orderly(u), NEW el \in LineControls \ {"menuitem"},
           shown(el, u, Drawing'), NEW l, Render(Given(u, el), l)
    PROVE  KeepsKeyboard
<1>1. el # "body"
  BY ControlsAre
<1>2. Orderly(Given(u, el)) /\ Given(u, el).focus = el /\ shown(el, Given(u, el), Drawing')
  BY GivenIs DEF Orderly
<1> QED BY <1>1, <1>2, CommitKeepsKeyboard DEF KeepsKeyboard

LEMMA TargetIsShown ==
    \A u, d : searchTarget(u, d) \in LineControls \ {"menuitem"} /\ shown(searchTarget(u, d), u, d)
BY SearchIsShown, ControlsAre DEF searchTarget

LEMMA AfterIsShown ==
    ASSUME NEW u, NEW chip \in {"valuechip", "textchip"}
    PROVE  After(u, chip) \in LineControls \ {"menuitem"} /\ shown(After(u, chip), u, Drawing')
BY TargetIsShown, ControlsAre DEF After

LEMMA ChipKeyboard == ASSUME KeyInv, LineInv', PressValueChip \/ PressTextChip \/ PressClearAll PROVE KeepsKeyboard
<1>1. CASE PressValueChip
  <2>1. fold' = fold /\ \E u \in Clicked("valuechip") : Render(Given(u, After(u, "textchip")), Lights(u, lit))
    BY <1>1, Zenon DEF PressValueChip
  <2>2. PICK u \in Clicked("valuechip") : Render(Given(u, After(u, "textchip")), Lights(u, lit))
    BY <2>1
  <2>3. Orderly(u)
    BY ControlsAre, ClickedIs DEF KeyInv
  <2> QED BY <2>1, <2>2, <2>3, AfterIsShown, ChipHandsOn
<1>2. CASE PressTextChip
  <2>1. fold' = fold /\ \E u \in Clicked("textchip") : Render(Given(u, After(u, "valuechip")), Lights(u, lit))
    BY <1>2, Zenon DEF PressTextChip
  <2>2. PICK u \in Clicked("textchip") : Render(Given(u, After(u, "valuechip")), Lights(u, lit))
    BY <2>1
  <2>3. Orderly(u)
    BY ControlsAre, ClickedIs DEF KeyInv
  <2> QED BY <2>1, <2>2, <2>3, AfterIsShown, ChipHandsOn
<1>3. CASE PressClearAll
  <2>1. fold' = fold /\ \E u \in Clicked("clearall") : Render(Given(u, searchTarget(u, Drawing')), Lights(u, lit))
    BY <1>3, Zenon DEF PressClearAll
  <2>2. PICK u \in Clicked("clearall") : Render(Given(u, searchTarget(u, Drawing')), Lights(u, lit))
    BY <2>1
  <2>3. Orderly(u)
    BY ControlsAre, ClickedIs DEF KeyInv
  <2> QED BY <2>1, <2>2, <2>3, TargetIsShown, ChipHandsOn
<1> QED BY <1>1, <1>2, <1>3

\* The reader's own moves.
LEMMA TabKeyboard == ASSUME KeyInv, LineInv', NEW el \in Controls \ {"body"}, Tab(el) PROVE KeepsKeyboard
<1> DEFINE x == Focused(line, el)
<1>1. Shown(el) /\ OnlyTheLine /\ Render(x, Lights(x, lit))
  BY Zenon DEF Tab
<1>2. Orderly(line) /\ fold' = fold /\ Drawing' = Drawing
  BY <1>1, DrawnStays DEF KeyInv
<1>3. CASE el = "field"
  <2>1. Orderly(x) /\ x.focus = "field" /\ (line.searching => x.searching)
    BY <1>2, <1>3, FocusedField
  <2> HIDE DEF x
  <2>2. shown("field", x, Drawing')
    BY <1>1, <1>2, <1>3, <2>1, FieldStays
  <2> QED BY <1>1, <1>2, <2>1, <2>2, CommitKeepsKeyboard DEF KeepsKeyboard
<1>4. CASE el # "field"
  <2>1. x = Moved(line, el)
    BY <1>4 DEF Focused
  <2> HIDE DEF x
  <2>2. MovesTo(line, x, el) /\ Orderly(x)
    BY <1>2, <2>1, MovedIs, MovedIsOrderly DEF Orderly
  <2>3. shown(el, x, Drawing)
    <3>1. CASE el \in LineControls
      <4>1. Growing(x, Drawing.fold) <=> Growing(line, Drawing.fold)
        BY <2>2, <3>1 DEF MovesTo, Growing
      <4>2. x.panel = line.panel /\ (el = "menuitem" => x.menu = line.menu)
        BY <2>2 DEF MovesTo
      <4> QED BY <1>1, <4>1, <4>2, ShownAlike DEF Shown
    <3>2. CASE el \notin LineControls
      <4>1. el = "outside"
        BY <3>2 DEF Controls
      <4> QED BY <4>1, WhatIsShown
    <3> QED BY <3>1, <3>2
  <2>4. x.focus = el
    BY <2>2 DEF MovesTo
  <2> QED BY <1>1, <1>2, <2>2, <2>3, <2>4, CommitKeepsKeyboard DEF KeepsKeyboard
<1> QED BY <1>3, <1>4

LEMMA PressOutsideKeyboard == ASSUME KeyInv, LineInv', PressOutside PROVE KeepsKeyboard
<1> DEFINE p == pointerdown(line, "outside")
           x == Moved(p, "outside")
<1>1. OnlyTheLine /\ Render(x, Lights(x, lit))
  BY Zenon DEF PressOutside
<1>2. Orderly(p) /\ fold' = fold
  BY <1>1, DrawnStays, PointerdownOutside DEF KeyInv
<1> HIDE DEF p
<1>3. MovesTo(p, x, "outside") /\ Orderly(x)
  BY <1>2, ControlsAre, MovedIs, MovedIsOrderly DEF Orderly
<1> HIDE DEF x
<1>4. x.focus = "outside" /\ shown("outside", x, Drawing')
  BY <1>3, WhatIsShown DEF MovesTo
<1> QED BY <1>1, <1>2, <1>3, <1>4, CommitKeepsKeyboard DEF KeepsKeyboard

\* The pointer over a control moves no keyboard.
LEMMA PointerKeyboard == ASSUME KeyInv, LineInv', (\E k \in Pointed : Hover(k)) \/ Unhover \/ UNCHANGED linevars PROVE KeepsKeyboard
<1>1. line' = line /\ fold' = fold /\ Drawing' = Drawing
  BY Zenon DEF Hover, Unhover, linevars, Drawing
<1>2. Shown(line.focus)' <=> Shown(line.focus)
  BY <1>1 DEF Shown
<1>3. Orderly(line)' /\ (fold \in Tried)' /\ (line.searching => Morphs(fold))'
  BY <1>1 DEF KeyInv
<1> QED BY <1>1, <1>2, <1>3 DEF KeepsKeyboard, StepKeepsKeyboard, KeyInv

\* Every step keeps the invariant and the keyboard.
LEMMA KeyboardStep == KeyInv /\ [LineNext]_linevars => KeepsKeyboard
<1> SUFFICES ASSUME KeyInv, [LineNext]_linevars PROVE KeepsKeyboard
  OBVIOUS
<1>1. LineInv'
  BY LineStep DEF KeyInv
<1>2. CASE UNCHANGED linevars
  BY <1>1, <1>2, PointerKeyboard
<1>3. CASE \E value \in Texts \cup {NoText} : Type(value)
  BY <1>1, <1>3, TypeKeyboard
<1>4. CASE \E i \in IF line.list THEN DOMAIN Options ELSE {} : PressOption(i)
  <2>1. line.list /\ \E i : PressOption(i)
    BY <1>4
  <2> QED BY <1>1, <2>1, PressOptionKeyboard
<1>5. CASE Settle \/ (\E r \in Toggled : Starred(r)) \/ (\E i \in DOMAIN TRIES : Fit(TRIES[i]))
  BY <1>1, <1>5, SettleKeyboard, StarredKeyboard, FitKeyboard
<1>6. CASE PressField \/ PressOpener \/ Slash \/ PressCloser \/ PressEraser \/ ArrowDown \/ ArrowUp \/ Enter \/ Escape
  BY <1>1, <1>6, PressFieldKeyboard, PressOpenerKeyboard, SlashKeyboard, PressCloserKeyboard, PressEraserKeyboard,
     ArrowDownKeyboard, ArrowUpKeyboard, EnterKeyboard, EscapeKeyboard
<1>7. CASE PressToggle \/ PressOrganise \/ PressMenuItem \/ PressView \/ PressShow
  BY <1>1, <1>7, PressToggleKeyboard, PressOrganiseKeyboard, PressMenuItemKeyboard, FixedPresses, PressShowKeyboard
<1>8. CASE Check \/ PressStar \/ PressPanelChip \/ PressClear \/ PressValueChip \/ PressTextChip \/ PressClearAll
  BY <1>1, <1>8, FixedPresses, PressPanelChipKeyboard, ChipKeyboard
<1>9. CASE (\E k \in Pointed : Hover(k)) \/ Unhover
  BY <1>1, <1>9, PointerKeyboard
<1>10. CASE (\E el \in Controls \ {"body"} : Tab(el)) \/ PressOutside
  BY <1>1, <1>10, TabKeyboard, PressOutsideKeyboard
<1> QED BY <1>2, <1>3, <1>4, <1>5, <1>6, <1>7, <1>8, <1>9, <1>10, Zenon DEF LineNext

\* The grown search, the layers and the suggestions exclude one another as they should, and the focus is always
\* on a control that is drawn.
THEOREM LineInOrder == LineSpec => []KeyInv
<1>1. KeyInv /\ [LineNext]_linevars => KeyInv'
  BY KeyboardStep DEF KeepsKeyboard
<1> QED BY KeyInitially, <1>1, PTL DEF LineSpec

\* No press, key, layer or move in the document drops the keyboard to the body: only a fold that hides the
\* control, and a panel's chip left with nothing to count.
THEOREM TheFilterLineKeepsTheKeyboard == LineSpec => KeyboardIsKept
<1>1. KeyInv /\ [LineNext]_linevars
        => [line.focus # "body" /\ line'.focus = "body"
              => \/ fold' # fold /\ ~shown(line.focus, line, Drawing')
                 \/ line'.panel /\ counted(Drawing') = 0]_linevars
  BY KeyboardStep DEF KeepsKeyboard, StepKeepsKeyboard
<1> QED BY <1>1, LineInOrder, PTL DEF LineSpec, KeyboardIsKept
=============================================================================

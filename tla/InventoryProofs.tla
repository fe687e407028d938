-------------------------- MODULE InventoryProofs --------------------------
(***************************************************************************)
(* Proofs about Inventory, for any courses, any enrolment methods, any     *)
(* number of concurrent requests and histories of any length.              *)
(***************************************************************************)
EXTENDS Inventory, FiniteSetTheorems, WellFoundedInduction, TLAPS

(***************************************************************************)
(* The maximum that the stamp's MAX() stands for                           *)
(***************************************************************************)

\* A bounded set of naturals that is not empty has a greatest element.
LEMMA GreatestExists ==
    ASSUME NEW n \in Nat, NEW S \in SUBSET (0..n), S # {}
    PROVE  \E m \in S : \A x \in S : x <= m
<1> DEFINE T == {n - x : x \in S}
<1>1. T \subseteq Nat /\ T # {}
  <2>1. \A x \in S : n - x \in Nat
    OBVIOUS
  <2>2. PICK x \in S : TRUE
    OBVIOUS
  <2>3. n - x \in T
    BY <2>2
  <2> QED BY <2>1, <2>3
<1>2. PICK t \in T : \A y \in T : ~ (<<y, t>> \in OpToRel(<, Nat))
  <2> HIDE DEF T
  <2> QED BY <1>1, NatLessThanWellFounded, WFMin
<1>3. \A y \in T : t <= y
  <2>1. SUFFICES ASSUME NEW y \in T, y < t PROVE FALSE
    BY <1>1
  <2>2. <<y, t>> \in OpToRel(<, Nat)
    BY <1>1, <2>1, Zenon DEF OpToRel
  <2> QED BY <1>2, <2>2
<1>4. PICK m \in S : t = n - m
  OBVIOUS
<1>5. \A x \in S : n - m <= n - x
  BY <1>3, <1>4
<1> QED BY <1>5

\* MAX() bounds every value it ranges over and is one of them.
LEMMA MaxOfBounds ==
    ASSUME NEW n \in Nat, NEW S \in SUBSET (0..n)
    PROVE  /\ MaxOf(S) \in 0..n
           /\ \A x \in S : x <= MaxOf(S)
           /\ S # {} => MaxOf(S) \in S
<1>1. CASE S = {}
  BY <1>1 DEF MaxOf
<1>2. CASE S # {}
  BY <1>2, GreatestExists DEF MaxOf
<1> QED BY <1>1, <1>2

(***************************************************************************)
(* What one step can do                                                    *)
(***************************************************************************)

LEMMA WriteFrame ==
    ASSUME NEW ue, NEW enrol, NEW access, NEW stars, Write(ue, enrol, access, stars)
    PROVE  UNCHANGED <<clock, cache, pc, hand>> /\ writes' = writes + 1
BY DEF Write

\* A write of Moodle core leaves the cache, the requests and the clock alone.
LEMMA CoreFrame ==
    ASSUME Core
    PROVE  /\ UNCHANGED <<clock, cache, pc, hand>>
           /\ writes' = writes + 1
           /\ nextid' \in {nextid, nextid + 1}
           /\ blind' \in {blind, blind + 1}
<1> USE WriteFrame
<1>1. ASSUME NEW inst \in Instances, Enrol(inst) \/ UpdateInstance(inst)
      PROVE  /\ UNCHANGED <<clock, cache, pc, hand>>
             /\ writes' = writes + 1
             /\ nextid' \in {nextid, nextid + 1}
             /\ blind' \in {blind, blind + 1}
  BY <1>1 DEF Enrol, UpdateInstance
<1>2. ASSUME NEW i \in DOMAIN db.ue, UpdateEnrolment(i) \/ Unenrol(i) \/ BlindWrite(i)
      PROVE  /\ UNCHANGED <<clock, cache, pc, hand>>
             /\ writes' = writes + 1
             /\ nextid' \in {nextid, nextid + 1}
             /\ blind' \in {blind, blind + 1}
  BY <1>2 DEF UpdateEnrolment, Unenrol, BlindWrite
<1>3. ASSUME NEW c \in Courses, Visit(c) \/ Star(c) \/ Unstar(c)
      PROVE  /\ UNCHANGED <<clock, cache, pc, hand>>
             /\ writes' = writes + 1
             /\ nextid' \in {nextid, nextid + 1}
             /\ blind' \in {blind, blind + 1}
  BY <1>3 DEF Visit, Star, Unstar
<1> QED BY <1>1, <1>2, <1>3 DEF Core

\* The entries after a step were there before it, or this step read them.
LEMMA EntriesStep ==
    ASSUME TypeOK, [Next]_vars, NEW e \in Entries', e \notin Entries
    PROVE  \E r \in Requests :
              \/ FillRows(r) /\ e = Entry(Rows(db), DerivedStamp(Rows(db), db))
              \/ Restamp(r) /\ e = Entry([i \in {} |-> 0], Stamp(db))
<1> USE DEF TypeOK, Entries
<1>1. CASE UNCHANGED vars
  BY <1>1 DEF vars
<1>2. CASE Drop
  BY <1>2 DEF Drop
<1>3. CASE Core
  BY <1>3, CoreFrame
<1>4. CASE Tick
  BY <1>4 DEF Tick
<1>5. ASSUME NEW r \in Requests, Serve(r)
      PROVE  \/ FillRows(r) /\ e = Entry(Rows(db), DerivedStamp(Rows(db), db))
             \/ Restamp(r) /\ e = Entry([i \in {} |-> 0], Stamp(db))
  <2>1. CASE Lookup(r)
    BY <2>1 DEF Lookup
  <2>2. CASE PrewarmVisit(r)
    BY <2>2 DEF PrewarmVisit
  <2>3. CASE Hit(r)
    BY <2>3 DEF Hit
  <2>4. CASE StaleHit(r)
    BY <2>4 DEF StaleHit
  <2>5. CASE FillRows(r)
    BY <2>5 DEF FillRows
  <2>6. CASE FillNoRows(r)
    BY <2>6 DEF FillNoRows
  <2>7. CASE Restamp(r)
    BY <2>7 DEF Restamp
  <2>8. CASE Store(r)
    BY <2>8 DEF Store
  <2>9. CASE Abort(r)
    BY <2>9 DEF Abort
  <2> QED BY <1>5, <2>1, <2>2, <2>3, <2>4, <2>5, <2>6, <2>7, <2>8, <2>9 DEF Serve
<1> QED BY <1>1, <1>2, <1>3, <1>4, <1>5 DEF Next

\* Counters only grow, and the tables change only together with the count of
\* writes.
LEMMA Growth ==
    ASSUME TypeOK, [Next]_vars
    PROVE  /\ clock' \in Nat /\ clock <= clock'
           /\ nextid' \in Nat /\ nextid <= nextid'
           /\ writes' \in Nat /\ writes <= writes'
           /\ blind' \in Nat /\ blind <= blind'
           /\ db' # db => writes' > writes
<1> USE DEF TypeOK
<1>1. CASE UNCHANGED vars
  BY <1>1 DEF vars
<1>2. CASE Drop
  BY <1>2 DEF Drop
<1>3. CASE Core
  BY <1>3, CoreFrame
<1>4. CASE Tick
  BY <1>4 DEF Tick
<1>5. ASSUME NEW r \in Requests, Serve(r)
      PROVE  UNCHANGED <<db, clock, nextid, writes, blind>>
  BY <1>5 DEF Serve, Lookup, PrewarmVisit, Hit, StaleHit, FillRows, FillNoRows, Restamp,
              Store, Abort
<1> QED BY <1>1, <1>2, <1>3, <1>4, <1>5 DEF Next

(***************************************************************************)
(* Type correctness                                                        *)
(***************************************************************************)

\* Every write keeps the tables well formed.
LEMMA DbStep ==
    ASSUME TypeOK, [Next]_vars
    PROVE  DbOK(db)'
<1> USE CourseOfAssumption DEF TypeOK, DbOK, Statuses, Write
<1>1. CASE UNCHANGED <<db, clock, nextid>>
  BY <1>1
<1>2. ASSUME NEW inst \in Instances, Enrol(inst)
      PROVE  DbOK(db)'
  BY <1>2 DEF Enrol
<1>3. ASSUME NEW inst \in Instances, UpdateInstance(inst)
      PROVE  DbOK(db)'
  BY <1>3 DEF UpdateInstance
<1>4. ASSUME NEW i \in DOMAIN db.ue, UpdateEnrolment(i)
      PROVE  DbOK(db)'
  BY <1>4 DEF UpdateEnrolment
<1>5. ASSUME NEW i \in DOMAIN db.ue, Unenrol(i)
      PROVE  DbOK(db)'
  BY <1>5 DEF Unenrol
<1>6. ASSUME NEW i \in DOMAIN db.ue, BlindWrite(i)
      PROVE  DbOK(db)'
  BY <1>6 DEF BlindWrite
<1>7. ASSUME NEW c \in Courses, Visit(c) \/ Star(c) \/ Unstar(c)
      PROVE  DbOK(db)'
  <2>1. CASE Visit(c)
    BY <2>1 DEF Visit
  <2>2. CASE Star(c)
    BY <2>2 DEF Star
  <2>3. CASE Unstar(c)
    BY <2>3 DEF Unstar
  <2> QED BY <1>7, <2>1, <2>2, <2>3
<1>8. CASE Tick
  BY <1>8 DEF Tick
<1>9. ASSUME NEW r \in Requests, Serve(r)
       PROVE  UNCHANGED <<db, clock, nextid>>
  BY <1>9 DEF Serve, Lookup, PrewarmVisit, Hit, StaleHit, FillRows, FillNoRows, Restamp,
               Store, Abort
<1>10. CASE Drop
  BY <1>10, <1>1 DEF Drop
<1>11. CASE UNCHANGED vars
  BY <1>11, <1>1 DEF vars
<1> HIDE DEF TypeOK, DbOK, Statuses, Write
<1> QED BY <1>1, <1>2, <1>3, <1>4, <1>5, <1>6, <1>7, <1>8, <1>9, <1>10, <1>11
        DEF Next, Core

\* The ranges of the seven aggregates, and that each bounds its values.
LEMMA StampBounds ==
    ASSUME TypeOK
    PROVE  /\ Stamp(db) \in StampType
           /\ Stamp(db).maxid < nextid
           /\ \A i \in DOMAIN db.ue : i <= Stamp(db).maxid
           /\ \A i \in DOMAIN db.ue : db.ue[i].modified <= Stamp(db).maxuemodified
           /\ \A i \in DOMAIN db.ue :
                 db.enrol[db.ue[i].inst].modified <= Stamp(db).maxemodified
           /\ \A c \in Courses : db.access[c] <= Stamp(db).maxaccess
           /\ \A c \in Starred(db) : db.stars[c] <= Stamp(db).maxfavourite
           /\ IsFiniteSet(DOMAIN db.ue) /\ IsFiniteSet(Starred(db))
<1> DEFINE ids == DOMAIN db.ue
           UM  == {db.ue[i].modified : i \in ids}
           EM  == {db.enrol[db.ue[i].inst].modified : i \in ids}
           AM  == {db.access[c] : c \in Courses}
           FM  == {db.stars[c] : c \in Starred(db)}
<1>1. /\ ids \in SUBSET (0..(nextid - 1)) /\ nextid - 1 \in Nat
      /\ UM \in SUBSET (0..clock) /\ EM \in SUBSET (0..clock)
      /\ AM \in SUBSET (0..clock) /\ FM \in SUBSET (0..clock)
      /\ clock \in Nat
  BY DEF TypeOK, DbOK, Starred
<1>2. IsFiniteSet(ids) /\ IsFiniteSet(Starred(db))
  <2>1. IsFiniteSet(ids)
    <3>1. IsFiniteSet(0..(nextid - 1))
      BY <1>1, FS_Interval
    <3> QED BY <1>1, <3>1, FS_Subset
  <2>2. Starred(db) \subseteq Courses
    BY DEF Starred
  <2> QED BY <2>1, <2>2, CoursesAssumption, FS_Subset
<1>3. Cardinality(ids) \in Nat /\ Cardinality(Starred(db)) \in Nat
  BY <1>2, FS_CardinalityType
<1>4. MaxOf(ids) \in 0..(nextid - 1) /\ \A x \in ids : x <= MaxOf(ids)
  BY <1>1, MaxOfBounds
<1>5. MaxOf(UM) \in 0..clock /\ \A x \in UM : x <= MaxOf(UM)
  BY <1>1, MaxOfBounds
<1>6. MaxOf(EM) \in 0..clock /\ \A x \in EM : x <= MaxOf(EM)
  BY <1>1, MaxOfBounds
<1>7. MaxOf(AM) \in 0..clock /\ \A x \in AM : x <= MaxOf(AM)
  BY <1>1, MaxOfBounds
<1>8. MaxOf(FM) \in 0..clock /\ \A x \in FM : x <= MaxOf(FM)
  BY <1>1, MaxOfBounds
<1>9. Stamp(db) = [enrolments |-> Cardinality(ids), maxid |-> MaxOf(ids),
                   maxuemodified |-> MaxOf(UM), maxemodified |-> MaxOf(EM),
                   maxaccess |-> MaxOf(AM), favourites |-> Cardinality(Starred(db)),
                   maxfavourite |-> MaxOf(FM)]
  BY DEF Stamp, MaxAccess, MaxFavourite
<1>10. /\ \A i \in ids : db.ue[i].modified \in UM
       /\ \A i \in ids : db.enrol[db.ue[i].inst].modified \in EM
       /\ \A c \in Courses : db.access[c] \in AM
       /\ \A c \in Starred(db) : db.stars[c] \in FM
  OBVIOUS
<1> HIDE DEF ids, UM, EM, AM, FM
<1>11. Stamp(db) \in StampType /\ Stamp(db).maxid < nextid
  <2> nextid \in Nat
    BY DEF TypeOK
  <2> QED BY <1>1, <1>3, <1>4, <1>5, <1>6, <1>7, <1>8, <1>9 DEF StampType
<1> QED BY <1>2, <1>4, <1>5, <1>6, <1>7, <1>8, <1>9, <1>10, <1>11 DEF ids

\* The stamp fill() derives from its rows is the one the statement gives.
LEMMA DerivedIsStamp ==
    ASSUME TypeOK
    PROVE  DerivedStamp(Rows(db), db) = Stamp(db)
<1>1. DOMAIN Rows(db) = DOMAIN db.ue
  BY DEF Rows
<1>2. \A i \in DOMAIN db.ue : /\ Rows(db)[i].uemodified = db.ue[i].modified
                             /\ Rows(db)[i].emodified = db.enrol[db.ue[i].inst].modified
  BY DEF Rows
<1>3. {Rows(db)[i].uemodified : i \in DOMAIN db.ue} = {db.ue[i].modified : i \in DOMAIN db.ue}
  BY <1>2
<1>4. {Rows(db)[i].emodified : i \in DOMAIN db.ue}
        = {db.enrol[db.ue[i].inst].modified : i \in DOMAIN db.ue}
  BY <1>2
<1> QED BY <1>1, <1>3, <1>4 DEF DerivedStamp, Stamp

\* The joined rows have the row type.
LEMMA RowsType ==
    ASSUME TypeOK
    PROVE  /\ DOMAIN Rows(db) = DOMAIN db.ue
           /\ Rows(db) \in [DOMAIN db.ue -> RowType]
<1>1. ASSUME NEW i \in DOMAIN db.ue
      PROVE  /\ db.ue[i].inst \in Instances
             /\ CourseOf[db.ue[i].inst] \in Courses
             /\ db.ue[i].status \in Statuses /\ db.ue[i].modified \in Nat
             /\ db.enrol[db.ue[i].inst].status \in Statuses
             /\ db.enrol[db.ue[i].inst].modified \in Nat
             /\ db.access[CourseOf[db.ue[i].inst]] \in Nat
  BY <1>1, CourseOfAssumption DEF TypeOK, DbOK
<1> QED BY <1>1 DEF Rows, RowType

\* An entry just read is well formed.
LEMMA NewEntryOK ==
    ASSUME TypeOK,
           NEW e, \/ e = Entry(Rows(db), DerivedStamp(Rows(db), db))
                  \/ e = Entry([i \in {} |-> 0], Stamp(db))
    PROVE  EntryOK(e)
<1>1. Starred(db) \subseteq Courses
  BY DEF Starred
<1>2. e.stamp \in StampType
  BY StampBounds, DerivedIsStamp DEF Entry
<1>3. e.rows \in [DOMAIN e.rows -> RowType] /\ DOMAIN e.rows \subseteq 1..(nextid - 1)
  <2>1. CASE e.rows = Rows(db)
    BY <2>1, RowsType DEF TypeOK, DbOK
  <2>2. CASE e.rows = [i \in {} |-> 0]
    <3>1. DOMAIN e.rows = {}
      BY <2>2
    <3> QED BY <2>2, <3>1
  <2> QED BY <2>1, <2>2 DEF Entry
<1> QED BY <1>1, <1>2, <1>3 DEF Entry, EntryOK, TypeOK

THEOREM TypeCorrect == Spec => []TypeOK
<1>1. Init => TypeOK
  <2> SUFFICES ASSUME Init PROVE TypeOK
    OBVIOUS
  <2>1. Entries = {}
    BY DEF Init, Entries
  <2>2. DbOK(db)
    BY DEF Init, DbOK, Statuses
  <2> QED BY <2>1, <2>2 DEF Init, TypeOK, AtMostOne
<1>2. TypeOK /\ [Next]_vars => TypeOK'
  <2> SUFFICES ASSUME TypeOK, [Next]_vars PROVE TypeOK'
    OBVIOUS
  <2>1. ASSUME NEW e \in Entries' PROVE EntryOK(e)'
    <3>1. EntryOK(e)
      BY NewEntryOK, EntriesStep DEF TypeOK
    <3> QED BY <3>1, Growth DEF EntryOK, TypeOK
  <2>2. /\ pc' \in [Requests -> {"idle", "validate", "fill", "restamp", "store"}]
        /\ DOMAIN hand' = Requests
        /\ AtMostOne(cache') /\ \A q \in Requests : AtMostOne(hand'[q])
    <3>1. ASSUME NEW r \in Requests, Serve(r)
          PROVE  /\ pc' \in [Requests -> {"idle", "validate", "fill", "restamp", "store"}]
                 /\ DOMAIN hand' = Requests
                 /\ AtMostOne(cache') /\ \A q \in Requests : AtMostOne(hand'[q])
      BY <3>1 DEF TypeOK, AtMostOne, Serve, Lookup, PrewarmVisit, Hit, StaleHit, FillRows,
                  FillNoRows, Restamp, Store, Abort
    <3>2. CASE Core
      BY <3>2, CoreFrame DEF TypeOK, AtMostOne
    <3>3. CASE Drop \/ Tick \/ UNCHANGED vars
      BY <3>3 DEF TypeOK, AtMostOne, Drop, Tick, vars
    <3> QED BY <3>1, <3>2, <3>3 DEF Next
  <2> QED BY <2>1, <2>2, DbStep, Growth DEF TypeOK
<1> QED BY <1>1, <1>2, PTL DEF Spec

(***************************************************************************)
(* Lineage: what the tables can have become since an entry was read        *)
(***************************************************************************)

\* Rows just read are the tables' own.
LEMMA NewLineage ==
    ASSUME TypeOK, NEW e, e = Entry(Rows(db), DerivedStamp(Rows(db), db))
    PROVE  Lineage(e)
<1>1. /\ e.rows = Rows(db) /\ e.stamp = Stamp(db) /\ e.starred = Starred(db)
      /\ DOMAIN e.rows = DOMAIN db.ue
  BY DerivedIsStamp, RowsType DEF Entry
<1>2. /\ e.stamp.enrolments = Cardinality(DOMAIN e.rows)
      /\ e.stamp.favourites = Cardinality(e.starred)
      /\ e.stamp.maxid < nextid
  <2>1. Stamp(db).maxid < nextid
    BY StampBounds
  <2>2. e.stamp.enrolments = Cardinality(DOMAIN e.rows) /\ e.stamp.favourites = Cardinality(e.starred)
    BY <1>1 DEF Stamp
  <2> QED BY <1>1, <2>1, <2>2
<1>3. ASSUME NEW i \in DOMAIN db.ue
      PROVE  /\ e.rows[i].courseid = CourseOf[db.ue[i].inst]
             /\ e.rows[i].uestatus = db.ue[i].status
             /\ e.rows[i].uemodified = db.ue[i].modified
             /\ e.rows[i].estatus = db.enrol[db.ue[i].inst].status
             /\ e.rows[i].emodified = db.enrol[db.ue[i].inst].modified
             /\ e.rows[i].timeaccess = db.access[CourseOf[db.ue[i].inst]]
             /\ e.rows[i].isfavourite = IF db.stars[CourseOf[db.ue[i].inst]] = 0 THEN 0 ELSE 1
             /\ CourseOf[db.ue[i].inst] \in Courses
  <2>1. CourseOf[db.ue[i].inst] \in Courses
    BY CourseOfAssumption DEF TypeOK, DbOK
  <2> DEFINE u == db.ue[i]
             c == CourseOf[u.inst]
  <2>2. e.rows[i] = [courseid    |-> c,
                     uestatus    |-> u.status,
                     uemodified  |-> u.modified,
                     estatus     |-> db.enrol[u.inst].status,
                     emodified   |-> db.enrol[u.inst].modified,
                     timeaccess  |-> db.access[c],
                     isfavourite |-> IF db.stars[c] = 0 THEN 0 ELSE 1]
    BY <1>1, Zenon DEF Rows
  <2> QED BY <2>1, <2>2
<1>4. \A i \in DOMAIN db.ue : RowKept(e, i)
  BY <1>3 DEF RowKept
<1>5. \A i \in DOMAIN db.ue :
        e.rows[i].isfavourite = IF e.rows[i].courseid \in e.starred THEN 1 ELSE 0
  <2> SUFFICES ASSUME NEW i \in DOMAIN db.ue
               PROVE  e.rows[i].isfavourite = IF e.rows[i].courseid \in e.starred THEN 1 ELSE 0
    OBVIOUS
  <2> DEFINE c == CourseOf[db.ue[i].inst]
  <2>1. /\ c \in Courses /\ e.rows[i].courseid = c
        /\ e.rows[i].isfavourite = IF db.stars[c] = 0 THEN 0 ELSE 1
    BY <1>3
  <2>2. (c \in e.starred) <=> (db.stars[c] # 0)
    BY <1>1, <2>1 DEF Starred
  <2> HIDE DEF c
  <2> QED BY <2>1, <2>2
<1> QED BY <1>1, <1>2, <1>4, <1>5 DEF Lineage

\* What a step does to a row that stays: nothing, or a write that carries the
\* current second, or a counted write that carries none.
LEMMA RowMoves ==
    ASSUME TypeOK, [Next]_vars, NEW i \in DOMAIN db.ue, i \in DOMAIN db'.ue
    PROVE  LET u == db.ue[i]
               c == CourseOf[u.inst]
           IN  /\ db'.ue[i].inst = u.inst
               /\ \/ db'.ue[i] = u
                  \/ db'.ue[i].modified = clock
                  \/ db'.ue[i].modified = u.modified /\ blind' = blind + 1
               /\ \/ db'.enrol[u.inst] = db.enrol[u.inst]
                  \/ db'.enrol[u.inst].modified = clock
               /\ db'.access[c] \in {db.access[c], clock}
               /\ blind' \in {blind, blind + 1}
<1> DEFINE u == db.ue[i]
           c == CourseOf[u.inst]
           Moves == /\ db'.ue[i].inst = u.inst
                    /\ \/ db'.ue[i] = u
                       \/ db'.ue[i].modified = clock
                       \/ db'.ue[i].modified = u.modified /\ blind' = blind + 1
                    /\ \/ db'.enrol[u.inst] = db.enrol[u.inst]
                       \/ db'.enrol[u.inst].modified = clock
                    /\ db'.access[c] \in {db.access[c], clock}
                    /\ blind' \in {blind, blind + 1}
<1> SUFFICES Moves
  OBVIOUS
<1>1. /\ u.inst \in Instances /\ c \in Courses
      /\ DOMAIN db.ue \subseteq 1..(nextid - 1) /\ nextid \in Nat
      /\ DOMAIN db.enrol = Instances /\ DOMAIN db.access = Courses
  BY CourseOfAssumption DEF TypeOK, DbOK
<1>2. ASSUME NEW inst \in Instances, Enrol(inst)
      PROVE  Moves
  BY <1>1, <1>2 DEF Enrol, Write
<1>3. ASSUME NEW inst \in Instances, UpdateInstance(inst)
      PROVE  Moves
  BY <1>1, <1>3 DEF UpdateInstance, Write
<1>4. ASSUME NEW j \in DOMAIN db.ue, UpdateEnrolment(j)
      PROVE  Moves
  BY <1>1, <1>4 DEF UpdateEnrolment, Write
<1>5. ASSUME NEW j \in DOMAIN db.ue, Unenrol(j)
      PROVE  Moves
  <2>1. i # j /\ db'.ue[i] = u /\ db'.enrol = db.enrol /\ blind' = blind
    BY <1>1, <1>5 DEF Unenrol, Write
  <2>2. db'.access[c] = db.access[c]
    BY <1>1, <1>5, <2>1 DEF Unenrol, Write
  <2> QED BY <2>1, <2>2
<1>6. ASSUME NEW j \in DOMAIN db.ue, BlindWrite(j)
      PROVE  Moves
  BY <1>1, <1>6 DEF BlindWrite, Write
<1>7. ASSUME NEW d \in Courses, Visit(d) \/ Star(d) \/ Unstar(d)
      PROVE  Moves
  <2>1. CASE Visit(d)
    <3>1. db'.ue = db.ue /\ db'.enrol = db.enrol /\ db'.access = [db.access EXCEPT ![d] = clock] /\ blind' = blind
      BY <2>1 DEF Visit, Write
    <3>2. db'.access[c] \in {db.access[c], clock}
      BY <1>1, <3>1
    <3> QED BY <3>1, <3>2
  <2>2. CASE Star(d) \/ Unstar(d)
    <3>1. db'.ue = db.ue /\ db'.enrol = db.enrol /\ db'.access = db.access /\ blind' = blind
      BY <2>2 DEF Star, Unstar, Write
    <3> QED BY <3>1
  <2> QED BY <1>7, <2>1, <2>2
<1>8. ASSUME NEW r \in Requests, Serve(r)
      PROVE  UNCHANGED <<db, blind>>
  BY <1>8 DEF Serve, Lookup, PrewarmVisit, Hit, StaleHit, FillRows, FillNoRows, Restamp,
              Store, Abort
<1>9. CASE Drop \/ Tick \/ UNCHANGED vars
  BY <1>9 DEF Drop, Tick, vars
<1>10. UNCHANGED <<db, blind>> => Moves
  OBVIOUS
<1> HIDE DEF Moves
<1> QED BY <1>2, <1>3, <1>4, <1>5, <1>6, <1>7, <1>8, <1>9, <1>10 DEF Next, Core

\* A row that stays, stays as the entry shows it or is written in a second not
\* before the entry's.
LEMMA RowKeptStep ==
    ASSUME TypeOK, [Next]_vars, NEW e \in Entries, Lineage(e),
           NEW i \in DOMAIN db.ue \cap DOMAIN e.rows, i \in DOMAIN db'.ue
    PROVE  RowKept(e, i)'
<1>1. RowKept(e, i)
  BY DEF Lineage
<1>2. /\ e.at <= clock /\ e.at \in Nat /\ clock \in Nat
      /\ e.blind <= blind /\ e.blind \in Nat /\ blind \in Nat
  BY DEF TypeOK, EntryOK
<1> DEFINE u  == db.ue[i]
           u2 == db'.ue[i]
           c  == CourseOf[u.inst]
<1>3. /\ u2.inst = u.inst
      /\ \/ u2 = u
         \/ u2.modified = clock
         \/ u2.modified = u.modified /\ blind' = blind + 1
      /\ db'.enrol[u.inst] = db.enrol[u.inst] \/ db'.enrol[u.inst].modified = clock
      /\ db'.access[c] \in {db.access[c], clock}
      /\ blind' \in {blind, blind + 1}
  BY RowMoves
<1>4. /\ e.rows[i].courseid = CourseOf[u2.inst]
      /\ \/ u2.modified >= e.at
         \/ /\ e.rows[i].uemodified = u2.modified
            /\ e.blind = blind' => e.rows[i].uestatus = u2.status
      /\ \/ db'.enrol[u.inst].modified >= e.at
         \/ /\ e.rows[i].emodified = db'.enrol[u.inst].modified
            /\ e.rows[i].estatus = db'.enrol[u.inst].status
      /\ db'.access[c] >= e.at \/ e.rows[i].timeaccess = db'.access[c]
  <2>1. /\ e.rows[i].courseid = c
        /\ \/ u.modified >= e.at
           \/ /\ e.rows[i].uemodified = u.modified
              /\ e.blind = blind => e.rows[i].uestatus = u.status
        /\ \/ db.enrol[u.inst].modified >= e.at
           \/ /\ e.rows[i].emodified = db.enrol[u.inst].modified
              /\ e.rows[i].estatus = db.enrol[u.inst].status
        /\ db.access[c] >= e.at \/ e.rows[i].timeaccess = db.access[c]
    BY <1>1 DEF RowKept
  <2>2. c = CourseOf[u2.inst]
    BY <1>3
  <2> HIDE DEF u, u2, c
  <2>3. \/ u2.modified >= e.at
        \/ /\ e.rows[i].uemodified = u2.modified
           /\ e.blind = blind' => e.rows[i].uestatus = u2.status
    BY <1>2, <1>3, <2>1
  <2>4. \/ db'.enrol[u.inst].modified >= e.at
        \/ /\ e.rows[i].emodified = db'.enrol[u.inst].modified
           /\ e.rows[i].estatus = db'.enrol[u.inst].status
    BY <1>2, <1>3, <2>1
  <2>5. db'.access[c] >= e.at \/ e.rows[i].timeaccess = db'.access[c]
    BY <1>2, <1>3, <2>1
  <2> QED BY <2>1, <2>2, <2>3, <2>4, <2>5
<1> HIDE DEF u, u2, c
<1> QED BY <1>3, <1>4 DEF RowKept, u, u2, c

\* Enrolments that appear get a new id.
LEMMA NewIds ==
    ASSUME TypeOK, [Next]_vars, NEW i \in DOMAIN db'.ue, i \notin DOMAIN db.ue
    PROVE  i = nextid
<1> USE DEF Write
<1>1. ASSUME NEW r \in Requests, Serve(r)
      PROVE  UNCHANGED db
  BY <1>1 DEF Serve, Lookup, PrewarmVisit, Hit, StaleHit, FillRows, FillNoRows, Restamp,
              Store, Abort
<1>2. CASE Drop \/ Tick \/ UNCHANGED vars
  BY <1>2 DEF Drop, Tick, vars
<1>3. ASSUME NEW inst \in Instances, Enrol(inst)
      PROVE  i = nextid
  BY <1>3 DEF Enrol
<1>4. ASSUME NEW inst \in Instances, UpdateInstance(inst)
      PROVE  DOMAIN db'.ue = DOMAIN db.ue
  BY <1>4 DEF UpdateInstance
<1>5. ASSUME NEW j \in DOMAIN db.ue, UpdateEnrolment(j) \/ BlindWrite(j) \/ Unenrol(j)
      PROVE  DOMAIN db'.ue \subseteq DOMAIN db.ue
  BY <1>5 DEF UpdateEnrolment, BlindWrite, Unenrol
<1>6. ASSUME NEW c \in Courses, Visit(c) \/ Star(c) \/ Unstar(c)
      PROVE  DOMAIN db'.ue = DOMAIN db.ue
  BY <1>6 DEF Visit, Star, Unstar
<1> HIDE DEF Write
<1> QED BY <1>1, <1>2, <1>3, <1>4, <1>5, <1>6 DEF Next, Core

\* A star that appears carries the current second.
LEMMA NewStars ==
    ASSUME TypeOK, [Next]_vars, NEW c \in Starred(db)',
           c \notin Starred(db) \/ db'.stars[c] # db.stars[c]
    PROVE  db'.stars[c] = clock
<1> USE DEF Write, Starred
<1>1. ASSUME NEW r \in Requests, Serve(r)
      PROVE  UNCHANGED db
  BY <1>1 DEF Serve, Lookup, PrewarmVisit, Hit, StaleHit, FillRows, FillNoRows, Restamp,
              Store, Abort
<1>2. CASE Drop \/ Tick \/ UNCHANGED vars
  BY <1>2 DEF Drop, Tick, vars
<1>3. ASSUME NEW inst \in Instances, Enrol(inst) \/ UpdateInstance(inst)
      PROVE  db'.stars = db.stars
  BY <1>3 DEF Enrol, UpdateInstance
<1>4. ASSUME NEW j \in DOMAIN db.ue, UpdateEnrolment(j) \/ BlindWrite(j) \/ Unenrol(j)
      PROVE  db'.stars = db.stars
  BY <1>4 DEF UpdateEnrolment, BlindWrite, Unenrol
<1>5. ASSUME NEW d \in Courses, Visit(d)
      PROVE  db'.stars = db.stars
  BY <1>5 DEF Visit
<1>6. ASSUME NEW d \in Courses, Star(d) \/ Unstar(d)
      PROVE  db'.stars[c] = clock
  BY <1>6 DEF Star, Unstar, TypeOK, DbOK
<1> QED BY <1>1, <1>2, <1>3, <1>4, <1>5, <1>6 DEF Next, Core

THEOREM LineageInvariant == Spec => []LineageInv
<1>1. Init => LineageInv
  BY DEF Init, LineageInv, Entries
<1>2. TypeOK /\ LineageInv /\ [Next]_vars => LineageInv'
  <2> SUFFICES ASSUME TypeOK, LineageInv, [Next]_vars,
                      NEW e \in Entries', DOMAIN e.rows # {}
               PROVE  Lineage(e)'
    BY DEF LineageInv
  <2>1. CASE e \in Entries
    <3>1. Lineage(e) /\ EntryOK(e)
      BY <2>1 DEF LineageInv, TypeOK
    <3>2. ASSUME NEW i \in DOMAIN db'.ue, i \notin DOMAIN e.rows
          PROVE  i > e.stamp.maxid
      BY <3>1, <3>2, NewIds DEF Lineage, EntryOK, StampType, TypeOK
    <3>3. ASSUME NEW i \in DOMAIN db'.ue \cap DOMAIN e.rows
          PROVE  RowKept(e, i)'
      <4>1. i # nextid
        BY <3>1 DEF EntryOK, TypeOK
      <4>2. i \in DOMAIN db.ue
        BY <4>1, NewIds
      <4> QED BY <2>1, <3>1, <4>2, RowKeptStep
    <3>4. ASSUME NEW c \in Starred(db)', c \notin e.starred
          PROVE  db'.stars[c] >= e.at
      BY <3>1, <3>4, NewStars DEF Lineage, EntryOK, TypeOK
    <3>5. e.stamp.maxid < nextid'
      BY <3>1, Growth DEF Lineage, EntryOK, StampType, TypeOK
    <3> QED BY <3>1, <3>2, <3>3, <3>4, <3>5 DEF Lineage
  <2>2. CASE e \notin Entries
    <3>1. UNCHANGED <<db, nextid, blind>>
      BY <2>2, EntriesStep DEF FillRows, Restamp
    <3>2. Lineage(e)
      BY <2>2, EntriesStep, NewLineage DEF Entry
    <3> QED BY <3>1, <3>2 DEF Lineage, RowKept, Starred
  <2> QED BY <2>1, <2>2
<1> QED BY <1>1, <1>2, TypeCorrect, PTL DEF Spec

(***************************************************************************)
(* The theorems                                                            *)
(***************************************************************************)

LEMMA EntryIsFinite ==
    ASSUME TypeOK, NEW e \in Entries
    PROVE  IsFiniteSet(DOMAIN e.rows) /\ IsFiniteSet(e.starred)
<1>1. /\ DOMAIN e.rows \subseteq 1..(nextid - 1) /\ nextid - 1 \in Int
      /\ e.starred \subseteq Courses
  BY DEF EntryOK, TypeOK
<1>2. IsFiniteSet(1..(nextid - 1))
  BY <1>1, FS_Interval
<1> QED BY <1>1, <1>2, CoursesAssumption, FS_Subset

\* The count and the greatest id decide which enrolments there are.
LEMMA StampDecidesEnrolments ==
    ASSUME TypeOK, LineageInv, NEW e \in Entries, Stamp(db) = e.stamp, Whole(e)
    PROVE  DOMAIN e.rows = DOMAIN db.ue
<1>1. EntryOK(e) /\ IsFiniteSet(DOMAIN e.rows) /\ IsFiniteSet(DOMAIN db.ue)
  BY EntryIsFinite, StampBounds DEF TypeOK
<1>2. CASE DOMAIN e.rows = {}
  <2>1. Cardinality(DOMAIN db.ue) = 0
    BY <1>2 DEF Whole, Stamp
  <2> QED BY <1>1, <1>2, <2>1, FS_EmptySet
<1>3. CASE DOMAIN e.rows # {}
  <2>1. Lineage(e)
    BY <1>3 DEF LineageInv
  <2>2. DOMAIN db.ue \subseteq DOMAIN e.rows
    <3> SUFFICES ASSUME NEW i \in DOMAIN db.ue, i > e.stamp.maxid PROVE FALSE
      BY <2>1 DEF Lineage
    <3> i \in Int /\ e.stamp.maxid \in Int
      BY <1>1 DEF TypeOK, DbOK, EntryOK, StampType
    <3> QED BY StampBounds
  <2>3. Cardinality(DOMAIN db.ue) = Cardinality(DOMAIN e.rows)
    BY <2>1 DEF Lineage, Stamp
  <2> QED BY <1>1, <2>2, <2>3, FS_Subset
<1> QED BY <1>2, <1>3

\* Equal stamps mean equal rows, for an entry that is settled and whole.
LEMMA StampDecides ==
    ASSUME TypeOK, LineageInv, NEW e \in Entries, Stamp(db) = e.stamp,
           Settled(e), Whole(e), e.blind = blind
    PROVE  e.rows = Rows(db)
<1> DEFINE now == Rows(db)
<1>1. /\ EntryOK(e) /\ DOMAIN now = DOMAIN db.ue /\ now \in [DOMAIN db.ue -> RowType]
  BY RowsType DEF TypeOK
<1>2. IsFiniteSet(Starred(db)) /\ IsFiniteSet(e.starred)
  BY StampBounds, EntryIsFinite
<1>3. DOMAIN db.ue = DOMAIN e.rows
  BY StampDecidesEnrolments
<1>4. CASE DOMAIN e.rows = {}
  BY <1>1, <1>3, <1>4 DEF EntryOK
<1>5. CASE DOMAIN e.rows # {}
  <2>1. Lineage(e)
    BY <1>5 DEF LineageInv
  <2>2. DOMAIN db.ue = DOMAIN e.rows
    BY <1>3
  <2>3. Starred(db) = e.starred
    <3>1. Starred(db) \subseteq e.starred
      <4> SUFFICES ASSUME NEW c \in Starred(db), db.stars[c] >= e.at PROVE FALSE
        BY <2>1 DEF Lineage
      <4> /\ db.stars[c] \in Nat /\ e.at \in Nat /\ e.stamp.maxfavourite \in Nat
        BY <1>1 DEF Starred, TypeOK, DbOK, EntryOK, StampType
      <4> QED BY StampBounds DEF Settled
    <3>2. Cardinality(Starred(db)) = Cardinality(e.starred)
      BY <2>1 DEF Lineage, Stamp
    <3> QED BY <1>2, <3>1, <3>2, FS_Subset
  <2>4. ASSUME NEW i \in DOMAIN db.ue
        PROVE  e.rows[i] = now[i]
    <3> DEFINE u   == db.ue[i]
               m   == db.enrol[u.inst]
               c   == CourseOf[u.inst]
               row == e.rows[i]
    <3>1. /\ row \in RowType /\ now[i] \in RowType
      BY <1>1, <2>2 DEF EntryOK
    <3>2. RowKept(e, i)
      BY <2>1, <2>2 DEF Lineage
    <3>3. /\ u.modified < e.at /\ m.modified < e.at /\ db.access[c] < e.at
      <4>1. /\ u.modified \in Nat /\ m.modified \in Nat /\ db.access[c] \in Nat /\ c \in Courses
            /\ e.at \in Nat /\ e.stamp \in StampType
        BY <1>1, CourseOfAssumption DEF TypeOK, DbOK, EntryOK
      <4>2. /\ u.modified <= e.stamp.maxuemodified /\ m.modified <= e.stamp.maxemodified
            /\ db.access[c] <= e.stamp.maxaccess
        BY <4>1, StampBounds
      <4> HIDE DEF u, m, c
      <4> QED BY <4>1, <4>2 DEF Settled, StampType
    <3>4. /\ row.courseid = c /\ row.uemodified = u.modified /\ row.uestatus = u.status
          /\ row.emodified = m.modified /\ row.estatus = m.status
          /\ row.timeaccess = db.access[c]
      <4>1. /\ u.modified \in Nat /\ m.modified \in Nat /\ db.access[c] \in Nat /\ e.at \in Nat
        BY <1>1, CourseOfAssumption DEF TypeOK, DbOK, EntryOK
      <4> QED BY <3>2, <3>3, <4>1 DEF RowKept
    <3>5. row.isfavourite = IF db.stars[c] = 0 THEN 0 ELSE 1
      <4>1. c \in Courses
        BY CourseOfAssumption DEF TypeOK, DbOK
      <4>2. c \in e.starred <=> db.stars[c] # 0
        BY <2>3, <4>1 DEF Starred
      <4>3. row.isfavourite = IF row.courseid \in e.starred THEN 1 ELSE 0
        BY <2>1, <2>2 DEF Lineage
      <4> HIDE DEF c, row
      <4> QED BY <3>4, <4>2, <4>3
    <3>6. now[i] = [courseid    |-> c,
                    uestatus    |-> u.status,
                    uemodified  |-> u.modified,
                    estatus     |-> m.status,
                    emodified   |-> m.modified,
                    timeaccess  |-> db.access[c],
                    isfavourite |-> IF db.stars[c] = 0 THEN 0 ELSE 1]
      BY Zenon DEF Rows
    <3> HIDE DEF u, m, c, row, now
    <3> QED BY <3>1, <3>4, <3>5, <3>6 DEF RowType, row
  <2> HIDE DEF now
  <2> QED BY <1>1, <2>2, <2>4 DEF EntryOK, now
<1> QED BY <1>4, <1>5

\* A confirmed entry that is settled and whole is the tables' own rows, however
\* many writes and concurrent fills came between, for every set of courses and
\* methods: the seven aggregates of inventory::stamp() are enough.
THEOREM HitsAreExact == Spec => HitIsExact
<1>1. TypeOK /\ LineageInv /\ [Next]_vars
        => [\A r \in Requests : Hit(r) =>
              \A e \in hand[r] :
                Settled(e) /\ Whole(e) /\ e.blind = blind => e.rows = Rows(db)]_vars
  <2> SUFFICES ASSUME TypeOK, LineageInv, NEW r \in Requests, Hit(r), NEW e \in hand[r],
                      Settled(e), Whole(e), e.blind = blind
               PROVE  e.rows = Rows(db)
    OBVIOUS
  <2>1. e \in Entries
    BY DEF Entries
  <2>2. Stamp(db) = e.stamp
    BY DEF Hit, StampHolds, TypeOK, AtMostOne
  <2> QED BY <2>1, <2>2, StampDecides
<1> QED BY <1>1, TypeCorrect, LineageInvariant, PTL DEF Spec, HitIsExact

\* A confirmed entry that is whole lists the learner's enrolments and no other,
\* whatever happened within the second it was read in.
THEOREM HitsKeepEnrolments == Spec => HitKeepsEnrolments
<1>1. TypeOK /\ LineageInv /\ [Next]_vars
        => [\A r \in Requests : Hit(r) =>
              \A e \in hand[r] : Whole(e) => DOMAIN e.rows = DOMAIN db.ue]_vars
  <2> SUFFICES ASSUME TypeOK, LineageInv, NEW r \in Requests, Hit(r), NEW e \in hand[r],
                      Whole(e)
               PROVE  DOMAIN e.rows = DOMAIN db.ue
    OBVIOUS
  <2>1. e \in Entries
    BY DEF Entries
  <2>2. Stamp(db) = e.stamp
    BY DEF Hit, StampHolds, TypeOK, AtMostOne
  <2> QED BY <2>1, <2>2, StampDecidesEnrolments
<1> QED BY <1>1, TypeCorrect, LineageInvariant, PTL DEF Spec, HitKeepsEnrolments

\* Until the next write, the stamp an entry is stored with is the stamp the
\* statement gives: a fill is never followed by a needless second one.
THEOREM NoNeedlessRefill == Spec => []NoPerpetualRefill
<1>1. Init => NoPerpetualRefill
  BY DEF Init, NoPerpetualRefill, Entries
<1>2. TypeOK /\ NoPerpetualRefill /\ [Next]_vars => NoPerpetualRefill'
  <2> SUFFICES ASSUME TypeOK, NoPerpetualRefill, [Next]_vars,
                      NEW e \in Entries', e.writes = writes'
               PROVE  e.stamp = Stamp(db')
    BY DEF NoPerpetualRefill, Stamp, MaxAccess, MaxFavourite, Starred
  <2>1. CASE e \in Entries
    <3>1. e.writes <= writes
      BY <2>1 DEF TypeOK, EntryOK
    <3>2. writes' = writes /\ db' = db
      BY <3>1, Growth DEF TypeOK
    <3> QED BY <2>1, <3>2 DEF NoPerpetualRefill
  <2>2. CASE e \notin Entries
    <3>1. UNCHANGED db
      BY <2>2, EntriesStep DEF FillRows, Restamp
    <3>2. e.stamp = Stamp(db)
      BY <2>2, EntriesStep, DerivedIsStamp DEF Entry
    <3> QED BY <3>1, <3>2
  <2> QED BY <2>1, <2>2
<1> QED BY <1>1, <1>2, TypeCorrect, PTL DEF Spec

=============================================================================

----------------------------- MODULE Inventory -----------------------------
(***************************************************************************)
(* The inventory of one learner: the cache entry of                        *)
(* classes/local/inventory.php under the learner's id, the database rows   *)
(* it is built from, and the requests that look it up, validate it by its  *)
(* stamp and rebuild it.  No event ever drops the entry; the stamp is the  *)
(* only validity rule, and every read of the database is its own statement *)
(* (its own step), so writes fall between any two of them.                 *)
(*                                                                         *)
(* Entries of different learners never meet (the cache key is the user id) *)
(* so one learner is enough.  An SQL NULL and "never" are both 0: ids and  *)
(* Unix times start at 1.                                                  *)
(***************************************************************************)
EXTENDS Integers, FiniteSets

CONSTANTS
    Courses,    \* the courses the learner may be enrolled in, star or open
    Instances,  \* enrolment instances, rows of {enrol}
    CourseOf,   \* the course of each instance
    Requests,   \* web requests and prewarm visits running at once
    MaxClock,   \* bound: seconds that pass
    MaxWrites   \* bound: database writes

ASSUME CoursesAssumption == IsFiniteSet(Courses)
ASSUME CourseOfAssumption == CourseOf \in [Instances -> Courses]
ASSUME BoundsAssumption == MaxClock \in Nat /\ MaxWrites \in Nat

VARIABLES
    db,      \* the learner's rows: [ue, enrol, access, stars]
    clock,   \* the server's time() in whole seconds
    nextid,  \* the {user_enrolments} sequence
    writes,  \* how many writes there have been (history)
    blind,   \* how many of them touched no timestamp (history)
    cache,   \* {} on a miss, {entry} on a hit
    pc,      \* where each request is
    hand     \* the entry each request carries, {} when it carries none

vars == <<db, clock, nextid, writes, blind, cache, pc, hand>>

Statuses == {0, 1}   \* ACTIVE and SUSPENDED; ENABLED and DISABLED

MaxOf(S) == IF S = {} THEN 0 ELSE CHOOSE m \in S : \A x \in S : x <= m

(***************************************************************************)
(* The two statements                                                      *)
(***************************************************************************)

\* One row per enrolment, as the fill statement joins it.
Rows(d) ==
    [i \in DOMAIN d.ue |->
        LET u == d.ue[i]
            c == CourseOf[u.inst]
        IN  [courseid    |-> c,
             uestatus    |-> u.status,
             uemodified  |-> u.modified,
             estatus     |-> d.enrol[u.inst].status,
             emodified   |-> d.enrol[u.inst].modified,
             timeaccess  |-> d.access[c],
             isfavourite |-> IF d.stars[c] = 0 THEN 0 ELSE 1]]

Starred(d) == {c \in Courses : d.stars[c] # 0}

\* The aggregates that reach beyond the learner's enrolments.
MaxAccess(d) == MaxOf({d.access[c] : c \in Courses})
MaxFavourite(d) == MaxOf({d.stars[c] : c \in Starred(d)})

\* stamp(): seven aggregates over the tables, one statement.
Stamp(d) ==
    [enrolments    |-> Cardinality(DOMAIN d.ue),
     maxid         |-> MaxOf(DOMAIN d.ue),
     maxuemodified |-> MaxOf({d.ue[i].modified : i \in DOMAIN d.ue}),
     maxemodified  |-> MaxOf({d.enrol[d.ue[i].inst].modified : i \in DOMAIN d.ue}),
     maxaccess     |-> MaxAccess(d),
     favourites    |-> Cardinality(Starred(d)),
     maxfavourite  |-> MaxFavourite(d)]

\* fill()'s own stamp: derived from the rows it read, the cross-table
\* aggregates carried by the same statement.
DerivedStamp(rows, d) ==
    [enrolments    |-> Cardinality(DOMAIN rows),
     maxid         |-> MaxOf(DOMAIN rows),
     maxuemodified |-> MaxOf({rows[i].uemodified : i \in DOMAIN rows}),
     maxemodified  |-> MaxOf({rows[i].emodified : i \in DOMAIN rows}),
     maxaccess     |-> MaxAccess(d),
     favourites    |-> Cardinality(Starred(d)),
     maxfavourite  |-> MaxFavourite(d)]

\* An entry, with history fields no code reads, of the moment its stamp was
\* read: the second, the stars, and how many writes had been made.
Entry(rows, stamp) ==
    [rows |-> rows, stamp |-> stamp,
     at |-> clock, starred |-> Starred(db), writes |-> writes, blind |-> blind]

\* Variants the runs reject: the comparison of get() without one aggregate.
StampHoldsWithoutMaxId(e) ==
    [Stamp(db) EXCEPT !.maxid = 0] = [e.stamp EXCEPT !.maxid = 0]

StampHoldsWithoutMaxEModified(e) ==
    [Stamp(db) EXCEPT !.maxemodified = 0] = [e.stamp EXCEPT !.maxemodified = 0]

\* get() trusts an entry only when every field of its stamp is confirmed.
StampHolds(e) == Stamp(db) = e.stamp

Init ==
    /\ db = [ue     |-> [i \in {} |-> 0],
             enrol  |-> [e \in Instances |-> [status |-> 0, modified |-> 0]],
             access |-> [c \in Courses |-> 0],
             stars  |-> [c \in Courses |-> 0]]
    /\ clock = 1
    /\ nextid = 1
    /\ writes = 0
    /\ blind = 0
    /\ cache = {}
    /\ pc = [r \in Requests |-> "idle"]
    /\ hand = [r \in Requests |-> {}]

(***************************************************************************)
(* A request: get(), whose miss and stale hit run fill(); a prewarm visit  *)
(* runs fill() alone.                                                      *)
(***************************************************************************)

Lookup(r) ==
    /\ pc[r] = "idle"
    /\ hand' = [hand EXCEPT ![r] = cache]
    /\ pc' = [pc EXCEPT ![r] = IF cache = {} THEN "fill" ELSE "validate"]
    /\ UNCHANGED <<db, clock, nextid, writes, blind, cache>>

PrewarmVisit(r) ==
    /\ pc[r] = "idle"
    /\ pc' = [pc EXCEPT ![r] = "fill"]
    /\ UNCHANGED <<db, clock, nextid, writes, blind, cache, hand>>

\* The stamp statement runs and confirms the entry: get() returns it.
Hit(r) ==
    /\ pc[r] = "validate"
    /\ \E e \in hand[r] : StampHolds(e)
    /\ pc' = [pc EXCEPT ![r] = "idle"]
    /\ hand' = [hand EXCEPT ![r] = {}]
    /\ UNCHANGED <<db, clock, nextid, writes, blind, cache>>

StaleHit(r) ==
    /\ pc[r] = "validate"
    /\ \E e \in hand[r] : ~StampHolds(e)
    /\ pc' = [pc EXCEPT ![r] = "fill"]
    /\ hand' = [hand EXCEPT ![r] = {}]
    /\ UNCHANGED <<db, clock, nextid, writes, blind, cache>>

\* fill()'s statement found rows: the stamp comes from them.
FillRows(r) ==
    LET rows == Rows(db) IN
    /\ pc[r] = "fill"
    /\ DOMAIN rows # {}
    /\ hand' = [hand EXCEPT ![r] = {Entry(rows, DerivedStamp(rows, db))}]
    /\ pc' = [pc EXCEPT ![r] = "store"]
    /\ UNCHANGED <<db, clock, nextid, writes, blind, cache>>

\* It found none: the stamp needs a second statement.
FillNoRows(r) ==
    /\ pc[r] = "fill"
    /\ DOMAIN Rows(db) = {}
    /\ pc' = [pc EXCEPT ![r] = "restamp"]
    /\ UNCHANGED <<db, clock, nextid, writes, blind, cache, hand>>

\* A variant the runs reject: the stamp of no rows, without the statement.
RestampFromNoRows(r) ==
    LET none == [i \in {} |-> 0] IN
    /\ pc[r] = "restamp"
    /\ hand' = [hand EXCEPT ![r] =
         {Entry(none, [DerivedStamp(none, db) EXCEPT !.maxaccess = 0, !.favourites = 0,
                                                     !.maxfavourite = 0])}]
    /\ pc' = [pc EXCEPT ![r] = "store"]
    /\ UNCHANGED <<db, clock, nextid, writes, blind, cache>>

Restamp(r) ==
    /\ pc[r] = "restamp"
    /\ hand' = [hand EXCEPT ![r] = {Entry([i \in {} |-> 0], Stamp(db))}]
    /\ pc' = [pc EXCEPT ![r] = "store"]
    /\ UNCHANGED <<db, clock, nextid, writes, blind, cache>>

Store(r) ==
    /\ pc[r] = "store"
    /\ cache' = hand[r]
    /\ pc' = [pc EXCEPT ![r] = "idle"]
    /\ hand' = [hand EXCEPT ![r] = {}]
    /\ UNCHANGED <<db, clock, nextid, writes, blind>>

\* The process behind the request dies, or its statement throws.
Abort(r) ==
    /\ pc[r] # "idle"
    /\ pc' = [pc EXCEPT ![r] = "idle"]
    /\ hand' = [hand EXCEPT ![r] = {}]
    /\ UNCHANGED <<db, clock, nextid, writes, blind, cache>>

\* delete(), the 24-hour TTL, an eviction or a purge of all caches.
Drop ==
    /\ cache # {}
    /\ cache' = {}
    /\ UNCHANGED <<db, clock, nextid, writes, blind, pc, hand>>

(***************************************************************************)
(* The writers: Moodle core, as docs/adr/002-inventory-stamp.md cites it.  *)
(***************************************************************************)

Write(ue, enrol, access, stars) ==
    /\ writes < MaxWrites
    /\ writes' = writes + 1
    /\ db' = [ue |-> ue, enrol |-> enrol, access |-> access, stars |-> stars]
    /\ UNCHANGED <<clock, cache, pc, hand>>

\* enrol_user(): a new id, timemodified = time(); one row per instance.
Enrol(inst) ==
    /\ \A i \in DOMAIN db.ue : db.ue[i].inst # inst
    /\ Write([i \in DOMAIN db.ue \cup {nextid} |->
               IF i = nextid THEN [inst |-> inst, status |-> 0, modified |-> clock]
                             ELSE db.ue[i]],
             db.enrol, db.access, db.stars)
    /\ nextid' = nextid + 1
    /\ UNCHANGED blind

\* update_user_enrol(): a status change sets timemodified.
UpdateEnrolment(i) ==
    /\ i \in DOMAIN db.ue
    /\ Write([db.ue EXCEPT ![i] = [inst     |-> db.ue[i].inst,
                                   status   |-> 1 - db.ue[i].status,
                                   modified |-> clock]],
             db.enrol, db.access, db.stars)
    /\ UNCHANGED <<nextid, blind>>

\* unenrol_user(): the last enrolment in a course takes the last access along.
Unenrol(i) ==
    /\ i \in DOMAIN db.ue
    /\ LET left == DOMAIN db.ue \ {i}
           here == {CourseOf[db.ue[j].inst] : j \in left}
           gone == {CourseOf[db.ue[i].inst]} \ here
       IN  Write([j \in left |-> db.ue[j]],
                 db.enrol,
                 [c \in Courses |-> IF c \in gone THEN 0 ELSE db.access[c]],
                 db.stars)
    /\ UNCHANGED <<nextid, blind>>

\* update_status() and update_instance() of an enrolment method.
UpdateInstance(inst) ==
    /\ Write(db.ue,
             [db.enrol EXCEPT ![inst] = [status   |-> 1 - db.enrol[inst].status,
                                         modified |-> clock]],
             db.access, db.stars)
    /\ UNCHANGED <<nextid, blind>>

\* user_accesstime_log(): the time of a visit to a course.
Visit(c) ==
    /\ db.access[c] < clock
    /\ Write(db.ue, db.enrol, [db.access EXCEPT ![c] = clock], db.stars)
    /\ UNCHANGED <<nextid, blind>>

\* The course star: favourite_repository::add() and ::delete().
Star(c) ==
    /\ db.stars[c] = 0
    /\ Write(db.ue, db.enrol, db.access, [db.stars EXCEPT ![c] = clock])
    /\ UNCHANGED <<nextid, blind>>

Unstar(c) ==
    /\ db.stars[c] # 0
    /\ Write(db.ue, db.enrol, db.access, [db.stars EXCEPT ![c] = 0])
    /\ UNCHANGED <<nextid, blind>>

\* enrol_ldap writes the status alone.
BlindWrite(i) ==
    /\ i \in DOMAIN db.ue
    /\ Write([db.ue EXCEPT ![i] = [inst     |-> db.ue[i].inst,
                                   status   |-> 1 - db.ue[i].status,
                                   modified |-> db.ue[i].modified]],
             db.enrol, db.access, db.stars)
    /\ blind' = blind + 1
    /\ UNCHANGED nextid

Tick ==
    /\ clock < MaxClock
    /\ clock' = clock + 1
    /\ UNCHANGED <<db, nextid, writes, blind, cache, pc, hand>>

Serve(r) ==
    \/ Lookup(r) \/ PrewarmVisit(r) \/ Hit(r) \/ StaleHit(r)
    \/ FillRows(r) \/ FillNoRows(r) \/ Restamp(r) \/ Store(r) \/ Abort(r)

Core ==
    \/ \E inst \in Instances : Enrol(inst) \/ UpdateInstance(inst)
    \/ \E i \in DOMAIN db.ue : UpdateEnrolment(i) \/ Unenrol(i) \/ BlindWrite(i)
    \/ \E c \in Courses : Visit(c) \/ Star(c) \/ Unstar(c)

Next == (\E r \in Requests : Serve(r)) \/ Drop \/ Core \/ Tick

Spec == Init /\ [][Next]_vars

(***************************************************************************)
(* Properties                                                              *)
(***************************************************************************)

StampType ==
    [enrolments: Nat, maxid: Nat, maxuemodified: Nat, maxemodified: Nat,
     maxaccess: Nat, favourites: Nat, maxfavourite: Nat]

DbOK(d) ==
    /\ d = [ue |-> d.ue, enrol |-> d.enrol, access |-> d.access, stars |-> d.stars]
    /\ DOMAIN d.ue \subseteq 1..(nextid - 1)
    /\ d.ue \in [DOMAIN d.ue -> [inst: Instances, status: Statuses, modified: 1..clock]]
    /\ d.enrol \in [Instances -> [status: Statuses, modified: 0..clock]]
    /\ d.access \in [Courses -> 0..clock]
    /\ d.stars \in [Courses -> 0..clock]

\* Every entry the cache or a request holds.
Entries == cache \cup UNION {hand[r] : r \in Requests}

RowType ==
    [courseid: Courses, uestatus: Statuses, uemodified: Nat, estatus: Statuses,
     emodified: Nat, timeaccess: Nat, isfavourite: {0, 1}]

\* A cache key holds one entry, and a request carries one.
AtMostOne(S) == \A e, f \in S : e = f

EntryOK(e) ==
    /\ e = [rows |-> e.rows, stamp |-> e.stamp, at |-> e.at,
            starred |-> e.starred, writes |-> e.writes, blind |-> e.blind]
    /\ e.rows \in [DOMAIN e.rows -> RowType]
    /\ DOMAIN e.rows \subseteq 1..(nextid - 1)
    /\ e.stamp \in StampType
    /\ e.starred \subseteq Courses
    /\ e.at \in 1..clock
    /\ e.writes \in 0..writes
    /\ e.blind \in 0..blind

\* The tables, the clock, the cache and the requests have their types, and no
\* id or timestamp anywhere is ahead of its counter.
TypeOK ==
    /\ clock \in Nat \ {0}
    /\ nextid \in Nat \ {0}
    /\ writes \in Nat
    /\ blind \in Nat
    /\ DbOK(db)
    /\ pc \in [Requests -> {"idle", "validate", "fill", "restamp", "store"}]
    /\ DOMAIN hand = Requests
    /\ AtMostOne(cache) /\ \A r \in Requests : AtMostOne(hand[r])
    /\ \A e \in Entries : EntryOK(e)

\* The stamp was read in a later second than every write it shows, so no write
\* of that second can hide behind a maximum the stamp already has.
Settled(e) ==
    /\ e.stamp.maxuemodified < e.at
    /\ e.stamp.maxemodified < e.at
    /\ e.stamp.maxaccess < e.at
    /\ e.stamp.maxfavourite < e.at

\* The entry is of one piece: rows of the tables its stamp was read from.
Whole(e) == DOMAIN e.rows = {} => e.stamp.enrolments = 0

\* What the tables may have become since an entry with rows was read.  A row
\* that left never returns; what the entry shows of a row that stayed is still
\* so, or was written no earlier than the second of the entry.
RowKept(e, i) ==
    LET row == e.rows[i]
        u   == db.ue[i]
        m   == db.enrol[u.inst]
        c   == CourseOf[u.inst]
    IN  /\ row.courseid = c
        /\ \/ u.modified >= e.at
           \/ /\ row.uemodified = u.modified
              /\ e.blind = blind => row.uestatus = u.status
        /\ \/ m.modified >= e.at
           \/ row.emodified = m.modified /\ row.estatus = m.status
        /\ db.access[c] >= e.at \/ row.timeaccess = db.access[c]

Lineage(e) ==
    /\ e.stamp.enrolments = Cardinality(DOMAIN e.rows)
    /\ e.stamp.maxid < nextid
    /\ e.stamp.favourites = Cardinality(e.starred)
    /\ \A i \in DOMAIN e.rows :
          e.rows[i].isfavourite = IF e.rows[i].courseid \in e.starred THEN 1 ELSE 0
    /\ \A i \in DOMAIN db.ue : i \in DOMAIN e.rows \/ i > e.stamp.maxid
    /\ \A i \in DOMAIN db.ue \cap DOMAIN e.rows : RowKept(e, i)
    /\ \A c \in Starred(db) : c \in e.starred \/ db.stars[c] >= e.at

\* The inductive invariant behind HitIsExact.
LineageInv == \A e \in Entries : DOMAIN e.rows # {} => Lineage(e)

\* inventory::get() never serves an entry that differs from the tables when it
\* is settled and whole and no unstamped status write came after it: whatever
\* sequence of enrolments, unenrolments, visits, stars and method changes came
\* between, one of the seven aggregates differs unless the rows are the same.
HitIsExact ==
    [][\A r \in Requests : Hit(r) =>
         \A e \in hand[r] :
            Settled(e) /\ Whole(e) /\ e.blind = blind => e.rows = Rows(db)]_vars

\* A confirmed entry lists exactly the learner's enrolments, even within one
\* second: ids only grow, so a row that left and a row that came cannot hide
\* each other from the count and the greatest id together.
HitKeepsEnrolments ==
    [][\A r \in Requests : Hit(r) =>
         \A e \in hand[r] : Whole(e) => DOMAIN e.rows = DOMAIN db.ue]_vars

\* The stamp an entry was stored with is the stamp the statement gives over
\* unchanged tables, on the derived path and on the path with no rows: an entry
\* whose stamp disagreed would be recomputed on every request for ever.
NoPerpetualRefill ==
    \A e \in Entries : e.writes = writes => e.stamp = Stamp(db)

=============================================================================

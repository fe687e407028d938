-------------------------- MODULE CalendarProofs --------------------------
(***************************************************************************)
(* What the runs of CalendarEntry check on two requests, for any number of *)
(* them: the sets a new day is built from, the access an entry tells, the  *)
(* count of a whole strip and the gate list of Up next; and what the run   *)
(* of CalendarStrip checks on five days, for any window and payload: a     *)
(* pinned card, a press on the closed line, and the needle.  The entry and *)
(* the strip share no variable.                                            *)
(*                                                                         *)
(* The entry travels: it is read from the cache, changed in a request's    *)
(* hand and written back whole.  So what is claimed of the cached entry is *)
(* claimed of the entry in every hand, by the stage the request has        *)
(* reached, and a step only has to show it of the one hand it moves.  Of   *)
(* the strip, what it draws and opens on are sums over its days, so the    *)
(* library's sums come first.                                              *)
(***************************************************************************)
EXTENDS CalendarEntry, CalendarStrip, FiniteSetTheorems, WellFoundedInduction, TLAPS

(***************************************************************************)
(* The inductive invariant                                                 *)
(***************************************************************************)

Stages == {"idle", "lookup", "sets", "items", "store", "complete", "storewhole", "revalidate", "groups",
           "build", "setday", "prune", "answered"}

Access == [enrol : Nat, groups : Nat, role : Nat]
BuiltDay == [date : Dates \cup {"none"}, sets : Access, session : Sessions]
Entry == [session : Sessions, firstday : Int, built : Nat, stamp : Nat, sets : Access, days : SUBSET BuiltDay,
          past : BOOLEAN, future : SUBSET Items, late : SUBSET Items, upcoming : SUBSET Nat, crossed : BOOLEAN]
Begun == [enrol : Nat, groups : Nat]
Called == [now : Nat, kind : Kinds, session : Sessions, date : Dates \cup {"none"}, begun : Begun]
Served == [now : Nat, kind : Kinds, session : Sessions, date : Dates \cup {"none"}, begun : Begun,
           entry : Entry, again : BOOLEAN, stamp : Nat]
Change == [fact : {"groups", "role", "enrol"}, committed : BOOLEAN, observed : BOOLEAN]

TypeOK ==
    /\ db \in [enrol : Nat, groups : Nat, role : Nat, done : SUBSET Items, completed : SUBSET Items]
    /\ clock \in Nat
    /\ writer = {} \/ \E w \in Change : writer = {w} /\ ~(w.committed /\ w.observed)
    /\ pc \in [Requests -> Stages] /\ hand = [r \in Requests |-> hand[r]]
    /\ db.completed \subseteq db.done /\ db.done \subseteq submitted

\* Once a change is observed every entry about is crossed, and one not crossed tells the access until a commit.
Crossing(e) == \A w \in writer : w.observed /\ w.fact # "enrol" => e.crossed
AccessHeld(e) ==
    ~e.crossed => (e.sets.role = db.role /\ e.sets.groups = db.groups) \/ \E w \in writer : w.committed

\* Both parts are counted from the instant the entry was built.
CountedOnce(e) == e.future = Counted(e.built) /\ (e.past => e.late = Past(e.built, e.built))

\* A deadline the gate list of an entry owes an opening.
Owed(built, i) == Due[i] >= clock /\ Due[i] >= built /\ Day(Due[i]) <= Day(built) + 1 /\ ~Crowded(built, i)

Gate(e) == \A i \in Items \ submitted : Owed(e.built, i) => Due[i] \in e.upcoming

\* An entry under construction, and one that may be stored.
Begins(e) == e \in Entry /\ e.stamp = e.sets.enrol /\ e.built <= clock /\ Crossing(e)
Whole(e) == Begins(e) /\ AccessHeld(e) /\ CountedOnce(e) /\ Gate(e)

\* The day's sets: as current as the request from the read of the stamp or, rebuilt, from the read of the sets.
CurrentEnrol(h) == h.entry.sets.enrol >= h.begun.enrol
CurrentGroups(h) == h.entry.sets.groups >= h.begun.groups

Since(h) == h.now <= clock /\ h.begun.enrol <= db.enrol /\ h.begun.groups <= db.groups

RequestOK(s, h) ==
    /\ s = "lookup" => h \in Called
    /\ s \notin {"idle", "lookup"} => h \in Served /\ Begins(h.entry)
    /\ s # "idle" => Since(h)
    /\ s \in {"sets", "items"} => h.entry.built = h.now
    /\ s = "items" => AccessHeld(h.entry)
    /\ s \notin {"idle", "lookup", "sets", "items"} => Whole(h.entry)
    /\ s = "groups" => h.stamp >= h.begun.enrol
    /\ s \in {"sets", "items", "store"} /\ h.again => CurrentEnrol(h)
    /\ s \in {"items", "store"} /\ h.again => CurrentGroups(h)
    /\ s \in {"build", "setday"} => CurrentEnrol(h) /\ CurrentGroups(h)

EntryInv ==
    /\ TypeOK
    /\ \A r \in Requests : RequestOK(pc[r], hand[r])
    /\ \A e \in cache : Whole(e)

(***************************************************************************)
(* A request's step                                                        *)
(***************************************************************************)

\* A step of one request is judged by the hand it leaves and by what it stores.
LEMMA OneHandMoves ==
    ASSUME EntryInv, UNCHANGED site, NEW r \in Requests, NEW from, NEW s \in Stages, NEW h,
           Goto(r, from, s), hand' = [hand EXCEPT ![r] = h], RequestOK(s, h),
           \A e \in cache' : Whole(e)
    PROVE  EntryInv'
<1>1. /\ db' = db /\ clock' = clock /\ writer' = writer /\ submitted' = submitted
      /\ pc' = [pc EXCEPT ![r] = s]
  BY DEF site, Goto
<1>2. TypeOK'
  BY <1>1 DEF EntryInv, TypeOK
<1>3. ASSUME NEW e, Whole(e) PROVE Whole(e)'
  BY <1>1, <1>3 DEF Whole, Begins, Crossing, AccessHeld, CountedOnce, Counted, Past, Gate, Owed
<1>4. ASSUME NEW q \in Requests PROVE RequestOK(pc[q], hand[q])'
  <2>1. RequestOK(pc'[q], hand'[q])
    BY <1>1 DEF EntryInv, TypeOK
  <2>2. ASSUME NEW t, NEW g, RequestOK(t, g), t = pc'[q], g = hand'[q] PROVE RequestOK(pc[q], hand[q])'
    BY <1>1, <1>3, <2>2 DEF RequestOK, Since, Begins, Crossing, AccessHeld, CurrentEnrol, CurrentGroups
  <2> QED BY <2>1, <2>2
<1> QED BY <1>2, <1>3, <1>4 DEF EntryInv

\* A request's own entry in another stage.
LEMMA HandIs == ASSUME EntryInv, NEW r \in Requests PROVE RequestOK(pc[r], hand[r]) /\ hand = [hand EXCEPT ![r] = hand[r]]
  BY DEF EntryInv, TypeOK

\* The entry in hand replaced.
LEMMA EntryReplaced ==
    ASSUME NEW h \in Served, NEW e \in Entry
    PROVE  /\ [h EXCEPT !.entry = e] \in Served /\ [h EXCEPT !.entry = e].entry = e
           /\ [h EXCEPT !.entry = e].now = h.now /\ [h EXCEPT !.entry = e].begun = h.begun
           /\ [h EXCEPT !.entry = e].again = h.again /\ [h EXCEPT !.entry = e].stamp = h.stamp
           /\ [h EXCEPT !.entry = e].kind = h.kind
  BY DEF Served

LEMMA OpenKeeps == ASSUME EntryInv, NEW r \in Requests, Open(r) PROVE EntryInv'
<1>1. PICK k \in Kinds, s \in Sessions, d \in Dates :
         hand' = [hand EXCEPT ![r] = [now |-> clock, kind |-> k, session |-> s, date |-> IF k = "get_day" THEN d ELSE "none",
                                      begun |-> [enrol |-> db.enrol, groups |-> db.groups]]]
  BY DEF Open, Hold
<1> DEFINE h == [now |-> clock, kind |-> k, session |-> s, date |-> IF k = "get_day" THEN d ELSE "none",
                 begun |-> [enrol |-> db.enrol, groups |-> db.groups]]
<1>2. h \in Called /\ Since(h)
  BY DEF EntryInv, TypeOK, Called, Begun, Since
<1>3. hand' = [hand EXCEPT ![r] = h]
  BY <1>1
<1> HIDE DEF h
<1>4. RequestOK("lookup", h)
  BY <1>2 DEF RequestOK
<1> QED BY <1>3, <1>4, OneHandMoves DEF Open, EntryInv, Stages

LEMMA OnwardGoes ==
    ASSUME NEW h, NEW e, h.kind \in Kinds
    PROVE  /\ Onward(h, e) \in {"answered", "complete", "revalidate"}
           /\ (Onward(h, e) = "complete" => ~e.past)
  BY KindsAssumption DEF Onward

\* A whole entry in hand, on its way onward.
LEMMA WholeGoesOn ==
    ASSUME NEW h \in Served, Whole(h.entry), Since(h), NEW s \in {"complete", "storewhole", "revalidate", "prune", "answered"}
    PROVE  RequestOK(s, h)
  BY DEF RequestOK, Whole

LEMMA HitKeeps == ASSUME EntryInv, NEW r \in Requests, Hit(r) PROVE EntryInv'
<1>1. PICK e \in Fresh(r) : Goto(r, "lookup", Onward(hand[r], e)) /\ Hold(r, With(hand[r], e, FALSE))
  BY DEF Hit
<1> DEFINE h == With(hand[r], e, FALSE)
<1>2. Whole(e) /\ e \in Entry
  BY DEF Fresh, EntryInv, Whole, Begins
<1>3. hand[r] \in Called /\ Since(hand[r])
  BY HandIs DEF Hit, RequestOK
<1>4. h \in Served /\ h.entry = e /\ Since(h)
  BY <1>2, <1>3 DEF With, Called, Served, Since
<1>5. Onward(hand[r], e) \in {"answered", "complete", "revalidate"}
  BY <1>3, OnwardGoes DEF Called
<1> HIDE DEF h
<1>6. RequestOK(Onward(hand[r], e), h)
  BY <1>2, <1>4, <1>5, WholeGoesOn
<1>7. hand' = [hand EXCEPT ![r] = h] /\ UNCHANGED <<site, cache>>
  BY <1>1 DEF Hit, Hold, h
<1> QED BY <1>1, <1>5, <1>6, <1>7, OneHandMoves DEF EntryInv, Stages

\* An entry begun by a request, with the sets still to be read.
LEMMA NewEntryBegins ==
    ASSUME EntryInv, NEW h, NEW whole \in BOOLEAN, h.now \in Nat, h.now <= clock, h.session \in Sessions
    PROVE  /\ Begins(NewEntry(h, whole)) /\ NewEntry(h, whole).built = h.now
           /\ NewEntry(h, whole).sets.enrol = db.enrol
<1>1. Day(h.now) \in Int
  BY TimesAssumption DEF Day
<1>2. db.enrol \in Nat /\ (writer # {}) \in BOOLEAN
  BY DEF EntryInv, TypeOK
<1> DEFINE f == Day(h.now)
           c == writer # {}
<1>3. f \in Int /\ c \in BOOLEAN /\ (writer # {} => c)
  BY <1>1
<1>4. NewEntry(h, whole) = [session |-> h.session, firstday |-> f, built |-> h.now,
                            stamp |-> db.enrol, sets |-> [enrol |-> db.enrol, groups |-> 0, role |-> 0],
                            days |-> {}, past |-> whole, future |-> {}, late |-> {}, upcoming |-> {}, crossed |-> c]
  BY DEF NewEntry
<1> HIDE DEF f, c
<1>5. NewEntry(h, whole) \in Entry
  BY <1>2, <1>3, <1>4 DEF Entry, Access
<1>6. Crossing(NewEntry(h, whole))
  BY <1>3, <1>4 DEF Crossing
<1> QED BY <1>4, <1>5, <1>6 DEF Begins

LEMMA MissKeeps == ASSUME EntryInv, NEW r \in Requests, Miss(r) PROVE EntryInv'
<1> DEFINE n == NewEntry(hand[r], hand[r].kind = "get_strip")
           h == With(hand[r], n, FALSE)
<1>1. hand[r] \in Called /\ Since(hand[r])
  BY HandIs DEF Miss, Goto, RequestOK
<1>2. Begins(n) /\ n.built = hand[r].now
  BY <1>1, NewEntryBegins DEF Called, Since
<1>3. hand' = [hand EXCEPT ![r] = h]
  BY DEF Miss, Hold
<1> HIDE DEF n
<1>4. h \in Served /\ h.entry = n /\ Since(h) /\ h.now = hand[r].now /\ ~h.again
  BY <1>1, <1>2 DEF With, Called, Served, Since, Begins
<1> HIDE DEF h
<1>5. RequestOK("sets", h)
  BY <1>2, <1>4 DEF RequestOK
<1> QED BY <1>3, <1>5, OneHandMoves DEF Miss, EntryInv, Stages

LEMMA ReadSetsKeeps == ASSUME EntryInv, NEW r \in Requests, ReadSets(r) PROVE EntryInv'
<1> DEFINE o == hand[r].entry
           e == [o EXCEPT !.sets = [o.sets EXCEPT !.groups = db.groups, !.role = db.role]]
           h == [hand[r] EXCEPT !.entry = e]
<1>1. hand' = [hand EXCEPT ![r] = h]
  BY Zenon DEF ReadSets
<1>2. RequestOK("sets", hand[r])
  BY HandIs DEF ReadSets, Goto
<1>3. o \in Entry /\ Begins(o) /\ o.built = hand[r].now /\ hand[r] \in Served /\ Since(hand[r])
  BY <1>2 DEF RequestOK, Begins
<1> DEFINE a == [o.sets EXCEPT !.groups = db.groups, !.role = db.role]
<1>4. a \in Access /\ a.enrol = o.sets.enrol /\ a.groups = db.groups /\ a.role = db.role
  BY <1>3 DEF Entry, Access, EntryInv, TypeOK
<1>5. e = [o EXCEPT !.sets = a]
  BY Zenon
<1> HIDE DEF a
<1>6. e \in Entry /\ e.sets = a /\ e.stamp = o.stamp /\ e.built = o.built /\ e.crossed = o.crossed
  BY <1>3, <1>4, <1>5 DEF Entry
<1> HIDE DEF e
<1>7. Begins(e) /\ AccessHeld(e)
  BY <1>3, <1>4, <1>6 DEF Begins, Crossing, AccessHeld
<1>8. h \in Served /\ h.entry = e /\ h.now = hand[r].now /\ h.begun = hand[r].begun /\ h.again = hand[r].again
  BY <1>3, <1>6, EntryReplaced
<1> HIDE DEF h
<1>9. RequestOK("items", h)
  BY <1>2, <1>3, <1>4, <1>6, <1>7, <1>8 DEF RequestOK, Since, CurrentEnrol, CurrentGroups
<1> QED BY <1>1, <1>9, OneHandMoves DEF ReadSets, EntryInv, Stages

\* The times the slice drops are crowded out: they stand after UpcomingLimit others of the same build.
LEMMA UpcomingHolds ==
    ASSUME NEW completed, NEW now \in Nat, NEW i \in Items \ completed, Due[i] >= now, Day(Due[i]) <= Day(now) + 1,
           ~Crowded(now, i)
    PROVE  Due[i] \in Upcoming(completed, now)
<1> DEFINE ahead == {x \in Items \ completed : Due[x] >= now /\ Day(Due[x]) <= Day(now) + 1}
           times == {Due[x] : x \in ahead}
           before == {u \in times : u < Due[i]}
           all == {Due[j] : j \in {x \in Items : now <= Due[x] /\ Due[x] < Due[i]}}
<1>1. \A x \in Items : Due[x] \in Nat
  BY DueAssumption
<1>2. IsFiniteSet(all)
  <2>1. all \subseteq now .. Due[i] /\ now \in Int /\ Due[i] \in Int
    BY <1>1
  <2> QED BY <2>1, FS_Interval, FS_Subset
<1>3. before \subseteq all
  BY <1>1
<1>4. Cardinality(before) <= Cardinality(all) /\ Cardinality(before) \in Nat /\ Cardinality(all) \in Nat
  <2> HIDE DEF before, all
  <2> QED BY <1>2, <1>3, FS_Subset, FS_CardinalityType
<1>5. Cardinality(all) < UpcomingLimit
  BY <1>4, TimesAssumption DEF Crowded
<1>6. Cardinality(before) < UpcomingLimit
  BY <1>4, <1>5, TimesAssumption
<1>7. Due[i] \in times
  OBVIOUS
<1> QED BY <1>6, <1>7 DEF Upcoming, FirstTimes

LEMMA UpcomingAreTimes == ASSUME NEW completed, NEW now PROVE Upcoming(completed, now) \in SUBSET Nat
  BY DueAssumption DEF Upcoming, FirstTimes

LEMMA ReadItemsKeeps == ASSUME EntryInv, NEW r \in Requests, ReadItems(r) PROVE EntryInv'
<1> DEFINE o == hand[r].entry
           now == hand[r].now
           up == Upcoming(db.completed, now)
           e == [o EXCEPT !.future = Counted(now), !.late = Late(o.past, now), !.upcoming = up]
           h == [hand[r] EXCEPT !.entry = e]
<1>1. hand' = [hand EXCEPT ![r] = h]
  BY Zenon DEF ReadItems
<1>2. RequestOK("items", hand[r])
  BY HandIs DEF ReadItems, Goto
<1>3. o \in Entry /\ Begins(o) /\ AccessHeld(o) /\ o.built = now /\ hand[r] \in Served /\ Since(hand[r])
  BY <1>2 DEF RequestOK, Begins
<1>4. /\ Counted(now) \in SUBSET Items /\ Late(o.past, now) \in SUBSET Items /\ up \in SUBSET Nat
      /\ (o.past => Late(o.past, now) = Past(o.built, o.built))
  BY <1>3, UpcomingAreTimes DEF Counted, Late, Past
<1>5. \A i \in Items \ submitted : Owed(o.built, i) => Due[i] \in up
  BY <1>3, UpcomingHolds DEF EntryInv, TypeOK, Owed, Served
<1> HIDE DEF up
<1>6. /\ e \in Entry /\ e.sets = o.sets /\ e.stamp = o.stamp /\ e.built = o.built /\ e.crossed = o.crossed
      /\ e.past = o.past /\ e.future = Counted(now) /\ e.late = Late(o.past, now) /\ e.upcoming = up
  BY <1>3, <1>4 DEF Entry
<1> HIDE DEF e
<1>7. Whole(e)
  <2>1. Begins(e) /\ AccessHeld(e)
    BY <1>3, <1>6 DEF Begins, Crossing, AccessHeld
  <2>2. CountedOnce(e)
    BY <1>3, <1>4, <1>6 DEF CountedOnce
  <2>3. Gate(e)
    BY <1>5, <1>6 DEF Gate
  <2> QED BY <2>1, <2>2, <2>3 DEF Whole
<1>8. h \in Served /\ h.entry = e /\ h.now = hand[r].now /\ h.begun = hand[r].begun /\ h.again = hand[r].again
  BY <1>3, <1>6, EntryReplaced
<1> HIDE DEF h
<1>9. RequestOK("store", h)
  BY <1>2, <1>3, <1>6, <1>7, <1>8 DEF RequestOK, Since, CurrentEnrol, CurrentGroups, Whole
<1> QED BY <1>1, <1>9, OneHandMoves DEF ReadItems, EntryInv, Stages

\* The hand as it is, or with its entry completed, written back whole.
LEMMA StoreKeeps == ASSUME EntryInv, NEW r \in Requests, Store(r) PROVE EntryInv'
<1> DEFINE h == hand[r]
           s == IF h.again THEN "build" ELSE Onward(h, h.entry)
<1>1. RequestOK("store", h) /\ hand' = [hand EXCEPT ![r] = h]
  BY HandIs DEF Store, Goto
<1>2. h \in Served /\ Whole(h.entry) /\ Since(h)
  BY <1>1 DEF RequestOK
<1>3. CASE h.again
  <2>1. RequestOK("build", h)
    BY <1>1, <1>2, <1>3 DEF RequestOK, Whole
  <2> QED BY <1>1, <1>2, <1>3, <2>1, OneHandMoves DEF Store, EntryInv, Stages
<1>4. CASE ~h.again
  <2>1. s \in {"answered", "complete", "revalidate"}
    BY <1>2, <1>4, OnwardGoes DEF Served
  <2>2. RequestOK(s, h)
    BY <1>2, <2>1, WholeGoesOn
  <2>3. Goto(r, "store", s) /\ s \in Stages
    BY <2>1 DEF Store, Stages
  <2> HIDE DEF s
  <2> QED BY <1>1, <1>2, <2>2, <2>3, OneHandMoves DEF Store
<1> QED BY <1>3, <1>4

LEMMA StoredWhole ==
    ASSUME EntryInv, NEW r \in Requests, NEW from \in {"storewhole", "prune"}, Goto(r, from, "answered"),
           cache' = {hand[r].entry}, UNCHANGED <<site, hand>>
    PROVE  EntryInv'
<1>1. RequestOK(from, hand[r]) /\ hand' = [hand EXCEPT ![r] = hand[r]]
  BY HandIs DEF Goto
<1>2. hand[r] \in Served /\ Whole(hand[r].entry) /\ Since(hand[r])
  BY <1>1 DEF RequestOK
<1>3. RequestOK("answered", hand[r])
  BY <1>2, WholeGoesOn
<1> QED BY <1>1, <1>2, <1>3, OneHandMoves DEF Stages

LEMMA CompleteKeeps == ASSUME EntryInv, NEW r \in Requests, Complete(r) PROVE EntryInv'
<1> DEFINE o == hand[r].entry
           p == Past(o.built, hand[r].now)
           e == [o EXCEPT !.late = p, !.past = TRUE]
           h == [hand[r] EXCEPT !.entry = e]
<1>1. hand' = [hand EXCEPT ![r] = h]
  BY Zenon DEF Complete
<1>2. RequestOK("complete", hand[r])
  BY HandIs DEF Complete, Goto
<1>3. o \in Entry /\ Whole(o) /\ hand[r] \in Served /\ Since(hand[r])
  BY <1>2 DEF RequestOK, Whole, Begins
<1>4. p \in SUBSET Items /\ p = Past(o.built, o.built)
  BY DEF Past
<1>5. /\ e \in Entry /\ e.sets = o.sets /\ e.stamp = o.stamp /\ e.built = o.built /\ e.crossed = o.crossed
      /\ e.future = o.future /\ e.late = p /\ e.upcoming = o.upcoming
  BY <1>3, <1>4 DEF Entry
<1> HIDE DEF e, p
<1>6. Whole(e)
  BY <1>3, <1>4, <1>5 DEF Whole, Begins, Crossing, AccessHeld, CountedOnce, Gate, Owed
<1>7. h \in Served /\ h.entry = e /\ h.now = hand[r].now /\ h.begun = hand[r].begun
  BY <1>3, <1>5, EntryReplaced
<1> HIDE DEF h
<1>8. RequestOK("storewhole", h)
  BY <1>3, <1>6, <1>7, WholeGoesOn DEF Since
<1> QED BY <1>1, <1>8, OneHandMoves DEF Complete, EntryInv, Stages

\* The day's check: the stamp, then the groups.
LEMMA ReadStampKeeps == ASSUME EntryInv, NEW r \in Requests, ReadStamp(r) PROVE EntryInv'
<1> DEFINE h == [hand[r] EXCEPT !.stamp = db.enrol]
<1>1. hand' = [hand EXCEPT ![r] = h]
  BY Zenon DEF ReadStamp
<1>2. RequestOK("revalidate", hand[r])
  BY HandIs DEF ReadStamp, Goto
<1>3. hand[r] \in Served /\ Whole(hand[r].entry) /\ Since(hand[r]) /\ db.enrol \in Nat
  BY <1>2 DEF RequestOK, EntryInv, TypeOK
<1>4. h \in Served /\ h.entry = hand[r].entry /\ h.begun = hand[r].begun /\ h.now = hand[r].now /\ h.stamp = db.enrol
  BY <1>3 DEF Served
<1> HIDE DEF h
<1>5. RequestOK("groups", h)
  BY <1>3, <1>4 DEF RequestOK, Since, Whole
<1> QED BY <1>1, <1>5, OneHandMoves DEF ReadStamp, EntryInv, Stages

LEMMA ConfirmKeeps == ASSUME EntryInv, NEW r \in Requests, Confirm(r) PROVE EntryInv'
<1>1. RequestOK("groups", hand[r]) /\ hand' = [hand EXCEPT ![r] = hand[r]]
  BY HandIs DEF Confirm, Goto
<1>2. CurrentEnrol(hand[r]) /\ CurrentGroups(hand[r])
  BY <1>1 DEF Confirm, Same, RequestOK, CurrentEnrol, CurrentGroups, Whole, Begins, Since
<1>3. RequestOK("build", hand[r])
  BY <1>1, <1>2 DEF RequestOK, Whole
<1> QED BY <1>1, <1>3, OneHandMoves DEF Confirm, EntryInv, Stages

LEMMA DifferKeeps == ASSUME EntryInv, NEW r \in Requests, Differ(r) PROVE EntryInv'
<1> DEFINE n == NewEntry(hand[r], TRUE)
           h == With(hand[r], n, TRUE)
<1>1. RequestOK("groups", hand[r])
  BY HandIs DEF Differ, Goto
<1>2. hand[r] \in Served /\ Since(hand[r])
  BY <1>1 DEF RequestOK
<1>3. Begins(n) /\ n.built = hand[r].now /\ n.sets.enrol = db.enrol
  BY <1>2, NewEntryBegins DEF Served, Since
<1>4. hand' = [hand EXCEPT ![r] = h]
  BY DEF Differ, Hold
<1> HIDE DEF n
<1>5. h \in Served /\ h.entry = n /\ h.now = hand[r].now /\ h.begun = hand[r].begun
  BY <1>2, <1>3 DEF With, Served, Begins
<1> HIDE DEF h
<1>6. RequestOK("sets", h)
  BY <1>2, <1>3, <1>5 DEF RequestOK, Since, CurrentEnrol
<1> QED BY <1>4, <1>6, OneHandMoves DEF Differ, EntryInv, Stages

LEMMA BuildDayKeeps == ASSUME EntryInv, NEW r \in Requests, BuildDay(r) PROVE EntryInv'
<1>1. RequestOK("build", hand[r]) /\ hand' = [hand EXCEPT ![r] = hand[r]]
  BY HandIs DEF BuildDay, Goto
<1>2. RequestOK("setday", hand[r])
  BY <1>1 DEF RequestOK
<1> QED BY <1>1, <1>2, OneHandMoves DEF BuildDay, EntryInv, Stages

LEMMA SetDayKeeps == ASSUME EntryInv, NEW r \in Requests, SetDay(r) PROVE EntryInv'
<1> DEFINE o == hand[r].entry
           e == WithDay(o, NewDay(r))
           h == [hand[r] EXCEPT !.entry = e]
<1>1. hand' = [hand EXCEPT ![r] = h]
  BY Zenon DEF SetDay
<1>2. RequestOK("setday", hand[r])
  BY HandIs DEF SetDay, Goto
<1>3. o \in Entry /\ Whole(o) /\ hand[r] \in Served /\ Since(hand[r])
  BY <1>2 DEF RequestOK, Whole, Begins
<1>4. NewDay(r) \in BuiltDay
  BY <1>3 DEF NewDay, BuiltDay, Served, Entry
<1> DEFINE D == {x \in o.days : x.date # NewDay(r).date} \cup {NewDay(r)}
<1>5. D \in SUBSET BuiltDay
  BY <1>3, <1>4 DEF Entry
<1>6. e = [o EXCEPT !.days = D]
  BY Zenon DEF WithDay
<1> HIDE DEF D
<1>7. /\ e \in Entry /\ e.sets = o.sets /\ e.stamp = o.stamp /\ e.built = o.built /\ e.crossed = o.crossed
      /\ e.past = o.past /\ e.future = o.future /\ e.late = o.late /\ e.upcoming = o.upcoming
  BY <1>3, <1>5, <1>6 DEF Entry
<1>8. cache' = {e}
  BY DEF SetDay
<1> HIDE DEF e
<1>9. Whole(e)
  BY <1>3, <1>7 DEF Whole, Begins, Crossing, AccessHeld, CountedOnce, Gate, Owed
<1>10. h \in Served /\ h.entry = e /\ h.now = hand[r].now /\ h.begun = hand[r].begun
  BY <1>3, <1>7, EntryReplaced
<1> HIDE DEF h
<1>11. RequestOK("answered", h)
  BY <1>3, <1>9, <1>10, WholeGoesOn DEF Since
<1> QED BY <1>1, <1>8, <1>9, <1>11, OneHandMoves DEF SetDay, Stages

\* What the pruning leaves: every deadline ahead that is still open.
LEMMA PrunedGate ==
    ASSUME EntryInv, NEW h \in Served, Whole(h.entry), Since(h), NEW whole, NEW unsubmitted,
           whole => unsubmitted = OpenTimes(db.done, h.now)
    PROVE  /\ Prune(h.entry.upcoming, unsubmitted, h.now, whole) \in SUBSET Nat
           /\ \A i \in Items \ submitted :
                 Owed(h.entry.built, i) => Due[i] \in Prune(h.entry.upcoming, unsubmitted, h.now, whole)
<1> DEFINE up == h.entry.upcoming
<1>1. up \in SUBSET Nat /\ h.now \in Nat /\ clock \in Nat /\ h.now <= clock
  BY DEF Served, Entry, Since, EntryInv, TypeOK
<1>2. Prune(up, unsubmitted, h.now, whole) \in SUBSET Nat
  BY <1>1 DEF Prune, Pruned
<1>3. ASSUME NEW i \in Items \ submitted, Owed(h.entry.built, i)
      PROVE  Due[i] \in Prune(up, unsubmitted, h.now, whole)
  <2>1. Due[i] \in up
    BY <1>3 DEF Whole, Gate
  <2>2. Due[i] \in Nat /\ i \notin db.done /\ Due[i] >= h.now
    BY <1>1, <1>3, DueAssumption DEF EntryInv, TypeOK, Owed
  <2>3. ASSUME whole, Due[i] <= RangeEnd(h.now) PROVE Due[i] \in unsubmitted
    BY <2>2, <2>3 DEF OpenTimes
  <2>4. RangeEnd(h.now) \in Int
    BY <1>1, TimesAssumption DEF RangeEnd, MaxOf2, Day
  <2>5. whole => Due[i] > RangeEnd(h.now) \/ Due[i] \in unsubmitted
    BY <2>2, <2>3, <2>4
  <2> QED BY <2>1, <2>5 DEF Prune, Pruned
<1> QED BY <1>2, <1>3

LEMMA AskSoonKeeps == ASSUME EntryInv, NEW r \in Requests, AskSoon(r) PROVE EntryInv'
<1> DEFINE o == hand[r].entry
<1>1. PICK whole \in Answers :
         LET unsubmitted == IF whole THEN OpenTimes(db.done, hand[r].now) ELSE {}
             kept == Prune(o.upcoming, unsubmitted, hand[r].now, whole)
         IN  /\ Goto(r, "build", IF kept = o.upcoming THEN "answered" ELSE "prune")
             /\ hand' = [hand EXCEPT ![r].entry.upcoming = kept]
  BY DEF AskSoon
<1> DEFINE unsubmitted == IF whole THEN OpenTimes(db.done, hand[r].now) ELSE {}
           kept == Prune(o.upcoming, unsubmitted, hand[r].now, whole)
           s == IF kept = o.upcoming THEN "answered" ELSE "prune"
           e == [o EXCEPT !.upcoming = kept]
           h == [hand[r] EXCEPT !.entry = e]
<1>2. RequestOK("build", hand[r])
  BY HandIs DEF AskSoon
<1>3. o \in Entry /\ Whole(o) /\ hand[r] \in Served /\ Since(hand[r])
  BY <1>2 DEF RequestOK, Whole, Begins
<1>4. Goto(r, "build", s) /\ s \in {"answered", "prune"} /\ hand' = [hand EXCEPT ![r].entry.upcoming = kept]
  BY <1>1
<1>5. whole => unsubmitted = OpenTimes(db.done, hand[r].now)
  OBVIOUS
<1> HIDE DEF unsubmitted
<1>6. /\ kept \in SUBSET Nat
      /\ \A i \in Items \ submitted : Owed(o.built, i) => Due[i] \in kept
  BY <1>3, <1>5, PrunedGate
<1> HIDE DEF kept, s
<1>7. hand' = [hand EXCEPT ![r] = h]
  BY <1>4, Zenon
<1>8. /\ e \in Entry /\ e.sets = o.sets /\ e.stamp = o.stamp /\ e.built = o.built /\ e.crossed = o.crossed
      /\ e.past = o.past /\ e.future = o.future /\ e.late = o.late /\ e.upcoming = kept
  BY <1>3, <1>6 DEF Entry
<1> HIDE DEF e
<1>9. Whole(e)
  BY <1>3, <1>6, <1>8 DEF Whole, Begins, Crossing, AccessHeld, CountedOnce, Gate, Owed
<1>10. h \in Served /\ h.entry = e /\ h.now = hand[r].now /\ h.begun = hand[r].begun
  BY <1>3, <1>8, EntryReplaced
<1> HIDE DEF h
<1>11. RequestOK(s, h)
  BY <1>3, <1>4, <1>9, <1>10, WholeGoesOn DEF Since
<1>12. UNCHANGED <<site, cache>> /\ s \in Stages
  BY <1>4 DEF AskSoon, Stages
<1> QED BY <1>4, <1>7, <1>11, <1>12, OneHandMoves DEF EntryInv

LEMMA AnswerKeeps == ASSUME EntryInv, NEW r \in Requests, Answer(r) PROVE EntryInv'
<1>1. RequestOK("idle", NoHand)
  BY DEF RequestOK
<1> QED BY <1>1, OneHandMoves DEF Answer, Hold, EntryInv, Stages

LEMMA ServeKeeps == ASSUME EntryInv, NEW r \in Requests, Serve(r) PROVE EntryInv'
<1>1. StoreWhole(r) \/ StorePruned(r) => EntryInv'
  BY StoredWhole DEF StoreWhole, StorePruned
<1> QED BY <1>1, OpenKeeps, HitKeeps, MissKeeps, ReadSetsKeeps, ReadItemsKeeps, StoreKeeps, CompleteKeeps, ReadStampKeeps,
           ConfirmKeeps, DifferKeeps, BuildDayKeeps, SetDayKeeps, AskSoonKeeps, AnswerKeeps DEF Serve

(***************************************************************************)
(* The steps of the core writers, the observer and the clock               *)
(***************************************************************************)

\* A hand of a request under way, after a mark.
LEMMA Marked ==
    ASSUME EntryInv, Mark, NEW r \in Requests
    PROVE  /\ pc[r] \in {"idle", "lookup"} => hand'[r] = hand[r]
           /\ pc[r] \notin {"idle", "lookup"} =>
                 hand'[r] = [hand[r] EXCEPT !.entry = [hand[r].entry EXCEPT !.crossed = TRUE]]
           /\ hand' = [q \in Requests |-> hand'[q]]
<1>1. hand'[r] = IF pc[r] \in {"idle", "lookup"} THEN hand[r]
                 ELSE [hand[r] EXCEPT !.entry.crossed = TRUE]
  BY Zenon DEF Mark
<1>2. hand' = [q \in Requests |-> hand'[q]]
  BY Zenon DEF Mark
<1>3. [hand[r] EXCEPT !.entry.crossed = TRUE] = [hand[r] EXCEPT !.entry = [hand[r].entry EXCEPT !.crossed = TRUE]]
  BY Zenon
<1> QED BY <1>1, <1>2, <1>3, Zenon

\* What the facts may do: grow, the items untouched.
FactsGrow ==
    /\ UNCHANGED <<clock, submitted>> /\ TypeOK'
    /\ db'.done = db.done /\ db'.completed = db.completed /\ db'.enrol >= db.enrol /\ db'.groups >= db.groups

\* A hand that is crossed while the facts move is as good as it was.
LEMMA CrossedHand ==
    ASSUME EntryInv, FactsGrow, NEW r \in Requests, NEW s, NEW h, NEW g, s = pc'[r], g = hand'[r],
           s \notin {"idle", "lookup"}, RequestOK(s, h), g = [h EXCEPT !.entry = [h.entry EXCEPT !.crossed = TRUE]]
    PROVE  RequestOK(pc[r], hand[r])'
<1>1. h \in Served /\ Begins(h.entry) /\ Since(h)
  BY DEF RequestOK
<1>2. PICK e : e = [h.entry EXCEPT !.crossed = TRUE]
  OBVIOUS
<1>3. /\ e \in Entry /\ e.sets = h.entry.sets /\ e.stamp = h.entry.stamp /\ e.built = h.entry.built /\ e.crossed
      /\ e.past = h.entry.past /\ e.future = h.entry.future /\ e.late = h.entry.late /\ e.upcoming = h.entry.upcoming
  BY <1>1, <1>2 DEF Begins, Entry
<1>4. g = [h EXCEPT !.entry = e]
  BY <1>2
<1>5. g \in Served /\ g.entry = e /\ g.now = h.now /\ g.begun = h.begun /\ g.again = h.again /\ g.stamp = h.stamp
  <2> DEFINE k == [h EXCEPT !.entry = e]
  <2>1. k \in Served /\ k.entry = e /\ k.now = h.now /\ k.begun = h.begun /\ k.again = h.again /\ k.stamp = h.stamp
    BY <1>1, <1>3, EntryReplaced
  <2>2. g = k
    BY <1>4
  <2> HIDE DEF k
  <2> QED BY <2>1, <2>2
<1>6. Since(g)'
  BY <1>1, <1>5 DEF Since, Served, Begun, EntryInv, TypeOK, FactsGrow
<1>7. Begins(e)' /\ AccessHeld(e)'
  BY <1>1, <1>3 DEF Begins, Crossing, AccessHeld, FactsGrow
<1>8. Whole(h.entry) => Whole(e)'
  BY <1>3, <1>7 DEF Whole, CountedOnce, Counted, Past, Gate, Owed, FactsGrow
<1> QED BY <1>3, <1>5, <1>6, <1>7, <1>8 DEF RequestOK, CurrentEnrol, CurrentGroups

\* A hand that has no entry yet.
LEMMA EmptyHand ==
    ASSUME EntryInv, FactsGrow, NEW r \in Requests, NEW s, NEW h, s = pc'[r], h = hand'[r],
           s \in {"idle", "lookup"}, RequestOK(s, h)
    PROVE  RequestOK(pc[r], hand[r])'
<1>1. CASE s = "idle"
  BY <1>1 DEF RequestOK
<1>2. CASE s = "lookup"
  <2>1. h \in Called /\ Since(h)
    BY <1>2 DEF RequestOK
  <2>2. Since(h)'
    BY <2>1 DEF Since, Called, Begun, EntryInv, TypeOK, FactsGrow
  <2> QED BY <1>2, <2>1, <2>2 DEF RequestOK
<1> QED BY <1>1, <1>2

\* A step of the access: every hand is crossed, whatever becomes of the facts.
LEMMA AccessMoves ==
    ASSUME EntryInv, Mark, FactsGrow, UNCHANGED pc, \A e \in cache' : Whole(e)'
    PROVE  EntryInv'
<1>1. ASSUME NEW r \in Requests PROVE RequestOK(pc[r], hand[r])'
  <2>1. RequestOK(pc[r], hand[r]) /\ pc'[r] = pc[r]
    BY HandIs
  <2>2. CASE pc[r] \in {"idle", "lookup"}
    BY <2>1, <2>2, Marked, EmptyHand
  <2>3. CASE pc[r] \notin {"idle", "lookup"}
    BY <2>1, <2>3, Marked, CrossedHand
  <2> QED BY <2>2, <2>3
<1> QED BY <1>1 DEF EntryInv, FactsGrow

LEMMA BeginChangeKeeps == ASSUME EntryInv, BeginChange PROVE EntryInv'
<1>1. PICK ch \in Changes : writer' = {[fact |-> ch.fact, committed |-> FALSE, observed |-> ~ch.observed]}
  BY DEF BeginChange
<1>2. ch.fact \in {"groups", "role", "enrol"} /\ ch.observed \in BOOLEAN /\ (~ch.observed => ch.fact = "enrol")
  BY DEF Changes
<1> DEFINE o == ~ch.observed
           w == [fact |-> ch.fact, committed |-> FALSE, observed |-> o]
<1>3. o \in BOOLEAN /\ (o => ch.fact = "enrol")
  BY <1>2
<1> HIDE DEF o
<1>4. w \in Change /\ w.fact = ch.fact /\ ~w.committed /\ w.observed = o
  BY <1>2, <1>3 DEF Change
<1>5. writer' = {w}
  BY <1>1 DEF o
<1> HIDE DEF w
<1>6. writer = {} /\ Mark /\ UNCHANGED <<db, clock, cache, pc, submitted>>
  BY DEF BeginChange
<1>7. hand' = [q \in Requests |-> hand'[q]]
  BY <1>6 DEF Mark
<1>8. TypeOK'
  BY <1>4, <1>5, <1>6, <1>7 DEF EntryInv, TypeOK
<1>9. FactsGrow
  BY <1>6, <1>8 DEF FactsGrow, EntryInv, TypeOK
<1>10. ASSUME NEW e \in cache' PROVE Whole(e)'
  <2>1. Whole(e)
    BY <1>6 DEF EntryInv
  <2>2. Crossing(e)' /\ AccessHeld(e)'
    BY <1>3, <1>4, <1>5, <1>6, <2>1 DEF Crossing, AccessHeld, Whole
  <2> QED BY <1>6, <2>1, <2>2 DEF Whole, Begins, CountedOnce, Counted, Past, Gate, Owed
<1> QED BY <1>6, <1>9, <1>10, AccessMoves

\* The change commits: an entry not crossed tells the facts as they were, and no event of theirs is over.
LEMMA CommitKeeps == ASSUME EntryInv, Commit PROVE EntryInv'
<1>1. PICK w \in writer : /\ ~w.committed
                          /\ db' = [db EXCEPT ![w.fact] = @ + 1]
                          /\ writer' = Finished(w, TRUE, w.observed)
  BY DEF Commit
<1>2. w \in Change /\ writer = {w}
  BY DEF EntryInv, TypeOK
<1>3. /\ db' \in [enrol : Nat, groups : Nat, role : Nat, done : SUBSET Items, completed : SUBSET Items]
      /\ db'.done = db.done /\ db'.completed = db.completed /\ db'.enrol >= db.enrol /\ db'.groups >= db.groups
      /\ (w.fact = "enrol" => db'.groups = db.groups /\ db'.role = db.role)
  BY <1>1, <1>2 DEF EntryInv, TypeOK, Change
<1>4. IF w.observed THEN writer' = {}
      ELSE \E v \in Change : v.fact = w.fact /\ v.committed /\ ~v.observed /\ writer' = {v}
  <2> DEFINE v == [w EXCEPT !.committed = TRUE, !.observed = w.observed]
  <2>1. v \in Change /\ v.fact = w.fact /\ v.committed /\ v.observed = w.observed
    BY <1>2 DEF Change
  <2>2. writer' = IF w.observed THEN {} ELSE {v}
    BY <1>1 DEF Finished
  <2> HIDE DEF v
  <2> QED BY <2>1, <2>2
<1>5. Mark /\ UNCHANGED <<clock, cache, pc, submitted>>
  BY DEF Commit
<1>6. hand' = [q \in Requests |-> hand'[q]]
  BY <1>5 DEF Mark
<1>7. TypeOK'
  BY <1>3, <1>4, <1>5, <1>6 DEF EntryInv, TypeOK
<1>8. FactsGrow
  BY <1>3, <1>5, <1>7 DEF FactsGrow
<1>9. ASSUME NEW e \in cache' PROVE Whole(e)'
  <2>1. Whole(e)
    BY <1>5, <1>9 DEF EntryInv
  <2>2. Crossing(e)'
    BY <1>4 DEF Crossing
  <2>3. AccessHeld(e)'
    <3>1. CASE ~w.observed
      BY <1>4, <3>1 DEF AccessHeld
    <3>2. CASE w.observed /\ w.fact # "enrol"
      BY <1>2, <2>1, <3>2 DEF AccessHeld, Whole, Begins, Crossing
    <3>3. CASE w.fact = "enrol"
      BY <1>1, <1>2, <1>3, <2>1, <3>3 DEF AccessHeld, Whole
    <3> QED BY <3>1, <3>2, <3>3
  <2> QED BY <1>3, <1>5, <2>1, <2>2, <2>3 DEF Whole, Begins, CountedOnce, Counted, Past, Gate, Owed
<1> QED BY <1>5, <1>8, <1>9, AccessMoves

LEMMA AccessChangedKeeps == ASSUME EntryInv, AccessChanged PROVE EntryInv'
<1>1. PICK w \in writer : ~w.observed /\ writer' = Finished(w, w.committed, TRUE)
  BY DEF AccessChanged
<1>2. w \in Change /\ writer = {w}
  BY DEF EntryInv, TypeOK
<1>3. writer' = {} \/ \E v \in Change : ~v.committed /\ writer' = {v}
  <2> DEFINE v == [w EXCEPT !.committed = w.committed, !.observed = TRUE]
  <2>1. v \in Change /\ v.committed = w.committed
    BY <1>2 DEF Change
  <2>2. writer' = IF w.committed THEN {} ELSE {v}
    BY <1>1 DEF Finished
  <2> HIDE DEF v
  <2> QED BY <2>1, <2>2
<1>4. Mark /\ cache' = {} /\ UNCHANGED <<db, clock, pc, submitted>>
  BY DEF AccessChanged
<1>5. hand' = [q \in Requests |-> hand'[q]]
  BY <1>4 DEF Mark
<1>6. TypeOK'
  BY <1>3, <1>4, <1>5 DEF EntryInv, TypeOK
<1>7. FactsGrow
  BY <1>4, <1>6 DEF FactsGrow, EntryInv, TypeOK
<1> QED BY <1>4, <1>7, AccessMoves

\* The items and the clock move on: fewer deadlines are ahead, more have been submitted.
LEMMA TimePasses ==
    ASSUME EntryInv, UNCHANGED <<cache, writer, pc, hand>>, TypeOK', clock' >= clock, submitted \subseteq submitted',
           \A f \in {"enrol", "groups", "role"} : db'[f] = db[f]
    PROVE  EntryInv'
<1>1. db'.enrol = db.enrol /\ db'.groups = db.groups /\ db'.role = db.role /\ clock \in Nat /\ clock' \in Nat
  BY DEF EntryInv, TypeOK
<1>2. ASSUME NEW e, e.built \in Nat, Gate(e) PROVE Gate(e)'
  BY <1>1, <1>2, DueAssumption DEF Gate, Owed
<1>3. ASSUME NEW e, Begins(e) PROVE Begins(e)'
  BY <1>1, <1>3 DEF Begins, Entry, Crossing
<1>4. ASSUME NEW e, Whole(e) PROVE Whole(e)'
  <2>1. e.built \in Nat /\ Begins(e)' /\ Gate(e)'
    BY <1>2, <1>3, <1>4 DEF Whole, Begins, Entry
  <2> QED BY <1>1, <1>4, <2>1 DEF Whole, AccessHeld, CountedOnce, Counted, Past
<1>5. ASSUME NEW r \in Requests PROVE RequestOK(pc[r], hand[r])'
  <2>1. ASSUME NEW s, NEW h, RequestOK(s, h), s = pc'[r], h = hand'[r] PROVE RequestOK(pc[r], hand[r])'
    <3>1. s # "idle" => h.now \in Nat /\ h.now <= clock
      BY <2>1 DEF RequestOK, Called, Served, Since
    <3>2. s # "idle" => Since(h)'
      BY <1>1, <2>1, <3>1 DEF RequestOK, Since
    <3> QED BY <1>1, <1>3, <1>4, <2>1, <3>2 DEF RequestOK, AccessHeld, CurrentEnrol, CurrentGroups
  <2> QED BY <2>1, HandIs
<1> QED BY <1>4, <1>5 DEF EntryInv

LEMMA ItemsKeep == ASSUME EntryInv, NEW i \in Items, Submit(i) \/ RecordCompletion(i) \/ Revert(i) PROVE EntryInv'
<1>1. PICK D, C :
         D \in SUBSET Items /\ C \subseteq D /\ db' = [db EXCEPT !.done = D, !.completed = C] /\ D \subseteq submitted'
  <2> DEFINE Moved(D, C) == D \in SUBSET Items /\ C \subseteq D /\ db' = [db EXCEPT !.done = D, !.completed = C] /\ D \subseteq submitted'
  <2>1. Submit(i) => Moved(db.done \cup {i}, db.completed)
    BY DEF Submit, EntryInv, TypeOK
  <2>2. RecordCompletion(i) => Moved(db.done \cup {i}, db.completed \cup {i})
    BY DEF RecordCompletion, EntryInv, TypeOK
  <2>3. Revert(i) => Moved(db.done \ {i}, db.completed \ {i})
    BY DEF Revert, EntryInv, TypeOK
  <2> HIDE DEF Moved
  <2>4. \E D, C : Moved(D, C)
    BY <2>1, <2>2, <2>3
  <2> QED BY <2>4 DEF Moved
<1>2. submitted \subseteq submitted' /\ UNCHANGED <<clock, cache, writer, pc, hand>>
  BY DEF Submit, RecordCompletion, Revert
<1>3. TypeOK' /\ \A f \in {"enrol", "groups", "role"} : db'[f] = db[f]
  BY <1>1, <1>2 DEF EntryInv, TypeOK
<1>4. clock' >= clock
  BY <1>2 DEF EntryInv, TypeOK
<1> QED BY <1>2, <1>3, <1>4, TimePasses

LEMMA TickKeeps == ASSUME EntryInv, Tick PROVE EntryInv'
<1>1. TypeOK' /\ clock' >= clock
  BY DEF Tick, EntryInv, TypeOK
<1> QED BY <1>1, TimePasses DEF Tick

(***************************************************************************)
(* The theorems                                                            *)
(***************************************************************************)

LEMMA EntryStarts == Init => EntryInv
  BY DEF Init, EntryInv, TypeOK, RequestOK, Stages

LEMMA EntryStep == EntryInv /\ [Next]_vars => EntryInv'
<1> SUFFICES ASSUME EntryInv, [Next]_vars PROVE EntryInv'
  OBVIOUS
<1>1. CASE UNCHANGED vars
  <2>1. TypeOK' /\ clock' >= clock
    BY <1>1 DEF vars, EntryInv, TypeOK
  <2> QED BY <1>1, <2>1, TimePasses DEF vars
<1>2. CASE Next
  BY <1>2, ServeKeeps, BeginChangeKeeps, CommitKeeps, AccessChangedKeeps, ItemsKeep, TickKeeps DEF Next
<1> QED BY <1>1, <1>2

\* The entry in the cache and in every hand, whatever its stage.
THEOREM EntryInvariant == Spec => []EntryInv
  BY EntryStarts, EntryStep, PTL DEF Spec

\* A day get_day builds comes from sets as current as the request: the stamp and the groups are compared before
\* it, and a difference rebuilds them.
THEOREM DaysAreBuiltFromCurrentSets == Spec => []NewDayFromCurrentSets
<1>1. EntryInv => NewDayFromCurrentSets
  BY HandIs DEF EntryInv, NewDayFromCurrentSets, RequestOK, CurrentEnrol, CurrentGroups
<1> QED BY <1>1, EntryInvariant, PTL

\* An entry no request carried across a change tells the access in force, though the roles are never compared.
THEOREM EntriesHoldTheAccess == Spec => []UncrossedEntryHoldsTheAccess
<1>1. EntryInv => UncrossedEntryHoldsTheAccess
  BY DEF EntryInv, UncrossedEntryHoldsTheAccess, Whole, AccessHeld
<1> QED BY <1>1, EntryInvariant, PTL

\* The past complete() adds and the future of the count meet at the build instant, with nothing between or twice.
THEOREM StripsCountOnce == Spec => []WholeStripCountsOnce
<1>1. EntryInv => WholeStripCountsOnce
  <2> SUFFICES ASSUME EntryInv, NEW e \in cache, e.past PROVE e.late \cap e.future = {} /\ e.late \cup e.future = Items
    BY DEF WholeStripCountsOnce
  <2>1. e.built \in Nat /\ e.future = Counted(e.built) /\ e.late = Past(e.built, e.built)
    BY DEF EntryInv, Whole, Begins, CountedOnce, Entry
  <2> QED BY <2>1, DueAssumption DEF Counted, Past
<1> QED BY <1>1, EntryInvariant, PTL

\* The gate list keeps every deadline of its two days that is ahead and was never submitted, across any pruning,
\* save one that UPCOMING_LIMIT other times stood before at the build.
THEOREM TheGateStaysOpen == Spec => []GateKeepsWhatIsOpen
<1>1. EntryInv => GateKeepsWhatIsOpen
  BY DEF EntryInv, GateKeepsWhatIsOpen, Whole, Gate, Owed
<1> QED BY <1>1, EntryInvariant, PTL

(***************************************************************************)
(* Sums.  SumFunctionOnSet() takes a set apart element by element, in an   *)
(* order it chooses; what a sum is and does not depend on is an induction  *)
(* over sets, written out on the least counterexample.                     *)
(***************************************************************************)

LEMMA LeastNatural == ASSUME NEW T, T \subseteq Nat, T # {} PROVE \E x \in T : \A y \in T : x <= y
<1> DEFINE less == {p \in Nat \X Nat : p[1] < p[2]}
<1>1. IsWellFoundedOn(less, Nat)
  BY NatLessThanWellFounded DEF OpToRel
<1>2. PICK x \in T : \A y \in T : <<y, x>> \notin less
  <2> HIDE DEF less
  <2> QED BY <1>1, WFMin
<1>3. ASSUME NEW y \in T PROVE x <= y
  <2>1. <<y, x>> \in Nat \X Nat /\ ~(y < x)
    BY <1>2, <1>3
  <2> QED BY <2>1
<1> QED BY <1>3

LEMMA Induction == ASSUME NEW S, 0 \in S, \A n \in Nat : n \in S => n + 1 \in S PROVE Nat \subseteq S
<1> DEFINE T == Nat \ S
<1> SUFFICES ASSUME T # {} PROVE FALSE
  OBVIOUS
<1>1. PICK x \in T : \A y \in T : x <= y
  <2> HIDE DEF T
  <2>1. T \subseteq Nat
    BY DEF T
  <2> QED BY <2>1, LeastNatural
<1>2. x # 0 /\ x - 1 \in Nat /\ x - 1 \notin T
  BY <1>1
<1>3. x - 1 \in S /\ (x - 1) + 1 = x
  BY <1>2
<1> QED BY <1>2, <1>3

\* What holds of the empty set, and with every set of one more element, holds of every subset of a finite one.
LEMMA SetInduction ==
    ASSUME NEW U, NEW P, IsFiniteSet(U), {} \in P, \A S \in SUBSET U : \A x \in U \ S : S \in P => S \cup {x} \in P
    PROVE  SUBSET U \subseteq P
<1> DEFINE Bad == {S \in SUBSET U : S \notin P}
           sizes == {Cardinality(S) : S \in Bad}
<1> SUFFICES ASSUME Bad # {} PROVE FALSE
  OBVIOUS
<1>1. \A S \in SUBSET U : IsFiniteSet(S) /\ Cardinality(S) \in Nat
  BY FS_Subset, FS_CardinalityType
<1>2. PICK S \in Bad : \A R \in Bad : Cardinality(S) <= Cardinality(R)
  <2>1. sizes \subseteq Nat /\ sizes # {}
    BY <1>1
  <2> HIDE DEF sizes
  <2>2. PICK n \in sizes : \A m \in sizes : n <= m
    BY <2>1, LeastNatural
  <2> USE DEF sizes
  <2> QED BY <2>2
<1>3. S # {} /\ S \in SUBSET U /\ IsFiniteSet(S)
  BY <1>1
<1>4. PICK x \in S : TRUE
  BY <1>3
<1>5. Cardinality(S \ {x}) = Cardinality(S) - 1
  BY <1>3, FS_RemoveElement
<1>6. S \ {x} \in P
  BY <1>1, <1>2, <1>3, <1>5
<1>7. S = (S \ {x}) \cup {x} /\ S \ {x} \in SUBSET U /\ x \in U \ (S \ {x})
  BY <1>3
<1> HIDE DEF Bad
<1>8. S \in P
  BY <1>6, <1>7
<1> QED BY <1>8 DEF Bad

\* The recursion of a sum over the subsets of S in D, and the element it takes out of a set.
first(s) == CHOOSE x \in s : TRUE
IsSum(f, D, g) == g = [s \in D |-> IF s = {} THEN 0 ELSE f[first(s)] + g[s \ {first(s)}]]

LEMMA SumUnfolds == ASSUME NEW f, NEW S PROVE SumFunctionOnSet(f, S) = (CHOOSE x : IsSum(f, SUBSET S, x))[S]
BY Zenon DEF SumFunctionOnSet, FoldFunctionOnSet, MapThenFoldSet, IsSum, first

LEMMA FirstIsIn == ASSUME NEW s, s # {} PROVE first(s) \in s
BY DEF first

\* Two solutions agree where both are defined.
LEMMA SumIsTheOne ==
    ASSUME NEW S, NEW T, NEW f, NEW g, NEW h, IsFiniteSet(S), T \subseteq S, IsSum(f, SUBSET S, g), IsSum(f, SUBSET T, h)
    PROVE  g[T] = h[T]
<1> DEFINE Bad == {r \in SUBSET T : g[r] # h[r]}
           sizes == {Cardinality(r) : r \in Bad}
<1> SUFFICES ASSUME Bad # {} PROVE FALSE
  OBVIOUS
<1>1. \A r \in SUBSET S : IsFiniteSet(r) /\ Cardinality(r) \in Nat
  BY FS_Subset, FS_CardinalityType
<1>2. PICK r \in Bad : \A q \in Bad : Cardinality(r) <= Cardinality(q)
  <2>1. sizes \subseteq Nat /\ sizes # {}
    BY <1>1
  <2> HIDE DEF sizes
  <2>2. PICK n \in sizes : \A m \in sizes : n <= m
    BY <2>1, LeastNatural
  <2> USE DEF sizes
  <2> QED BY <2>2
<1>3. r \in SUBSET S /\ r \in SUBSET T /\ g[r] # h[r]
  OBVIOUS
<1>4. g[r] = IF r = {} THEN 0 ELSE f[first(r)] + g[r \ {first(r)}]
  BY <1>3, Zenon DEF IsSum
<1>5. h[r] = IF r = {} THEN 0 ELSE f[first(r)] + h[r \ {first(r)}]
  BY <1>3, Zenon DEF IsSum
<1>6. r # {} /\ first(r) \in r
  BY <1>3, <1>4, <1>5, FirstIsIn
<1>7. Cardinality(r \ {first(r)}) = Cardinality(r) - 1
  BY <1>1, <1>3, <1>6, FS_RemoveElement
<1>8. g[r \ {first(r)}] = h[r \ {first(r)}]
  BY <1>1, <1>2, <1>3, <1>7
<1> QED BY <1>3, <1>4, <1>5, <1>8

\* The recursion has a solution: one over the sets of up to n elements gives one over those of n + 1.
LEMMA SumSolves ==
    ASSUME NEW S, NEW f, IsFiniteSet(S)
    PROVE  \E g : IsSum(f, SUBSET S, g)
<1> DEFINE upto(n) == {s \in SUBSET S : Cardinality(s) <= n}
           Bad == {n \in Nat : ~\E g : IsSum(f, upto(n), g)}
<1>1. \A r \in SUBSET S : IsFiniteSet(r) /\ Cardinality(r) \in Nat /\ (Cardinality(r) = 0 <=> r = {})
  BY FS_Subset, FS_CardinalityType, FS_EmptySet
<1>2. \A r \in SUBSET S : r # {} => first(r) \in r /\ r \ {first(r)} \in SUBSET S /\ Cardinality(r \ {first(r)}) = Cardinality(r) - 1
  BY <1>1, FirstIsIn, FS_RemoveElement
<1>3. 0 \notin Bad
  <2> DEFINE g == [s \in upto(0) |-> 0]
  <2>1. \A s \in upto(0) : s = {}
    BY <1>1
  <2>2. g = [s \in upto(0) |-> IF s = {} THEN 0 ELSE f[first(s)] + g[s \ {first(s)}]]
    <3> HIDE DEF upto
    <3> QED BY <2>1
  <2>3. IsSum(f, upto(0), g)
    BY <2>2, Zenon DEF IsSum
  <2> HIDE DEF g, upto
  <2> QED BY <2>3
<1>4. ASSUME NEW n \in Nat, n \notin Bad PROVE n + 1 \notin Bad
  <2> DEFINE m == n + 1
  <2>1. PICK g : IsSum(f, upto(n), g)
    BY <1>4
  <2> DEFINE h == [s \in upto(m) |-> IF s = {} THEN 0 ELSE f[first(s)] + g[s \ {first(s)}]]
  <2>2. ASSUME NEW s \in upto(m), s # {} PROVE h[s \ {first(s)}] = g[s \ {first(s)}]
    <3> DEFINE r == s \ {first(s)}
    <3>1. r \in upto(n) /\ r \in upto(m)
      BY <1>1, <1>2, <2>2
    <3> HIDE DEF r, upto
    <3>2. g[r] = IF r = {} THEN 0 ELSE f[first(r)] + g[r \ {first(r)}]
      BY <2>1, <3>1, Zenon DEF IsSum
    <3>3. h[r] = IF r = {} THEN 0 ELSE f[first(r)] + g[r \ {first(r)}]
      BY <3>1
    <3> HIDE DEF h
    <3> QED BY <3>2, <3>3 DEF r
  <2>3. h = [s \in upto(m) |-> IF s = {} THEN 0 ELSE f[first(s)] + h[s \ {first(s)}]]
    <3> HIDE DEF upto
    <3> QED BY <2>2
  <2>4. IsSum(f, upto(m), h)
    BY <2>3, Zenon DEF IsSum
  <2> HIDE DEF h, upto
  <2> QED BY <2>4
<1>5. Bad = {}
  <2> SUFFICES ASSUME Bad # {} PROVE FALSE
    OBVIOUS
  <2>1. Bad \subseteq Nat
    OBVIOUS
  <2> HIDE DEF Bad
  <2>2. PICK n \in Bad : \A k \in Bad : n <= k
    BY <2>1, LeastNatural
  <2>3. n # 0 /\ n - 1 \in Nat /\ n - 1 \notin Bad
    BY <1>3, <2>1, <2>2
  <2>4. (n - 1) + 1 \notin Bad
    BY <1>4, <2>3
  <2> QED BY <2>1, <2>2, <2>4
<1>6. upto(Cardinality(S)) = SUBSET S
  <2>1. \A r \in SUBSET S : Cardinality(r) <= Cardinality(S)
    BY FS_Subset
  <2> QED BY <2>1
<1> HIDE DEF upto
<1>7. \E g : IsSum(f, upto(Cardinality(S)), g)
  BY <1>1, <1>5
<1> QED BY <1>6, <1>7

LEMMA SumOfNone == ASSUME NEW f PROVE SumFunctionOnSet(f, {}) = 0
<1>1. PICK g : IsSum(f, SUBSET {}, g)
  BY SumSolves, FS_EmptySet
<1>2. IsSum(f, SUBSET {}, CHOOSE h : IsSum(f, SUBSET {}, h))
  BY <1>1, Zenon
<1> DEFINE h == CHOOSE x : IsSum(f, SUBSET {}, x)
<1> HIDE DEF h
<1>3. {} \in SUBSET {}
  OBVIOUS
<1>4. h[{}] = IF {} = {} THEN 0 ELSE f[first({})] + h[{} \ {first({})}]
  BY <1>2, <1>3, Zenon DEF IsSum, h
<1> QED BY <1>4, SumUnfolds DEF h

LEMMA SumTakesFirst ==
    ASSUME NEW f, NEW S, IsFiniteSet(S), S # {}
    PROVE  SumFunctionOnSet(f, S) = f[first(S)] + SumFunctionOnSet(f, S \ {first(S)})
<1> DEFINE R == S \ {first(S)}
           g == CHOOSE x : IsSum(f, SUBSET S, x)
           h == CHOOSE x : IsSum(f, SUBSET R, x)
<1>1. IsFiniteSet(R) /\ R \subseteq S
  BY FS_Subset
<1>2. IsSum(f, SUBSET S, g)
  <2>1. \E x : IsSum(f, SUBSET S, x)
    BY SumSolves
  <2> QED BY <2>1, Zenon
<1>3. IsSum(f, SUBSET R, h)
  <2> HIDE DEF R
  <2>1. \E x : IsSum(f, SUBSET R, x)
    BY <1>1, SumSolves
  <2> QED BY <2>1, Zenon DEF h
<1>4. SumFunctionOnSet(f, S) = g[S] /\ SumFunctionOnSet(f, R) = h[R]
  BY SumUnfolds
<1> HIDE DEF g, h
<1>5. g[S] = f[first(S)] + g[R]
  <2>1. g[S] = IF S = {} THEN 0 ELSE f[first(S)] + g[S \ {first(S)}]
    BY <1>2, Zenon DEF IsSum
  <2> QED BY <2>1
<1>6. g[R] = h[R]
  <2> HIDE DEF R
  <2> QED BY <1>1, <1>2, <1>3, SumIsTheOne
<1> QED BY <1>4, <1>5, <1>6

Numbers(f, S) == \A x \in S : f[x] \in Nat

LEMMA SumIsANumber == ASSUME NEW U, NEW f, IsFiniteSet(U), Numbers(f, U) PROVE \A S \in SUBSET U : SumFunctionOnSet(f, S) \in Nat
<1> DEFINE P == {n \in Nat : \A S \in SUBSET U : Cardinality(S) = n => SumFunctionOnSet(f, S) \in Nat}
<1>1. \A S \in SUBSET U : IsFiniteSet(S) /\ Cardinality(S) \in Nat /\ (Cardinality(S) = 0 <=> S = {})
  BY FS_Subset, FS_CardinalityType, FS_EmptySet
<1>2. 0 \in P
  BY <1>1, SumOfNone
<1>3. ASSUME NEW n \in Nat, n \in P PROVE n + 1 \in P
  <2>1. ASSUME NEW S \in SUBSET U, Cardinality(S) = n + 1 PROVE SumFunctionOnSet(f, S) \in Nat
    <3>1. S # {} /\ IsFiniteSet(S)
      BY <1>1, <2>1
    <3>2. first(S) \in S
      BY <3>1, FirstIsIn
    <3>3. S \ {first(S)} \in SUBSET U /\ Cardinality(S \ {first(S)}) = n
      BY <1>1, <2>1, <3>1, <3>2, FS_RemoveElement
    <3>4. SumFunctionOnSet(f, S \ {first(S)}) \in Nat
      BY <1>3, <3>3
    <3>5. f[first(S)] \in Nat
      BY <3>2 DEF Numbers
    <3> QED BY <3>1, <3>4, <3>5, SumTakesFirst
  <2> QED BY <2>1
<1> HIDE DEF P
<1>4. Nat \subseteq P
  BY <1>2, <1>3, Induction
<1> QED BY <1>1, <1>4 DEF P

\* Whichever element is taken out first.
LEMMA SumTakesAny ==
    ASSUME NEW U, NEW f, IsFiniteSet(U), Numbers(f, U)
    PROVE  \A S \in SUBSET U : \A x \in S : SumFunctionOnSet(f, S) = f[x] + SumFunctionOnSet(f, S \ {x})
<1> DEFINE takes(S) == \A x \in S : SumFunctionOnSet(f, S) = f[x] + SumFunctionOnSet(f, S \ {x})
           P == {n \in Nat : \A S \in SUBSET U : Cardinality(S) = n => takes(S)}
<1>1. \A S \in SUBSET U : /\ IsFiniteSet(S) /\ Cardinality(S) \in Nat /\ (Cardinality(S) = 0 <=> S = {})
                          /\ SumFunctionOnSet(f, S) \in Nat
  BY FS_Subset, FS_CardinalityType, FS_EmptySet, SumIsANumber
<1>2. 0 \in P
  BY <1>1
<1>3. ASSUME NEW n \in Nat, n \in P PROVE n + 1 \in P
  <2>1. ASSUME NEW S \in SUBSET U, Cardinality(S) = n + 1, NEW x \in S
        PROVE  SumFunctionOnSet(f, S) = f[x] + SumFunctionOnSet(f, S \ {x})
    <3> DEFINE c == first(S)
               Sx == S \ {x}
               Sc == S \ {c}
    <3>1. S # {} /\ IsFiniteSet(S)
      BY <1>1
    <3>2. c \in S
      BY <3>1, FirstIsIn
    <3>3. SumFunctionOnSet(f, S) = f[c] + SumFunctionOnSet(f, Sc)
      BY <3>1, SumTakesFirst
    <3> HIDE DEF c
    <3>4. CASE x = c
      BY <3>3, <3>4
    <3>5. CASE x # c
      <4>1. Sx \in SUBSET U /\ Sc \in SUBSET U /\ Sx \ {c} = Sc \ {x} /\ x \in Sc /\ c \in Sx
        BY <3>2, <3>5
      <4>2. Cardinality(Sx) = n /\ Cardinality(Sc) = n
        <5>1. Cardinality(Sx) = Cardinality(S) - 1 /\ Cardinality(Sc) = Cardinality(S) - 1
          BY <3>1, <3>2, FS_RemoveElement
        <5> QED BY <2>1, <5>1
      <4>3. takes(Sx) /\ takes(Sc)
        BY <1>3, <4>1, <4>2
      <4>4. SumFunctionOnSet(f, Sc) = f[x] + SumFunctionOnSet(f, Sc \ {x})
        BY <4>1, <4>3
      <4>5. SumFunctionOnSet(f, Sx) = f[c] + SumFunctionOnSet(f, Sc \ {x})
        BY <4>1, <4>3
      <4>6. f[x] \in Nat /\ f[c] \in Nat /\ SumFunctionOnSet(f, Sc \ {x}) \in Nat
        BY <1>1, <3>2, <4>1 DEF Numbers
      <4> HIDE DEF Sx, Sc
      <4>7. SumFunctionOnSet(f, S) = f[x] + SumFunctionOnSet(f, Sx)
        BY <3>3, <4>4, <4>5, <4>6
      <4> QED BY <4>7 DEF Sx
    <3> QED BY <3>4, <3>5
  <2> QED BY <2>1
<1> HIDE DEF P, takes
<1>4. Nat \subseteq P
  BY <1>2, <1>3, Induction
<1>5. \A S \in SUBSET U : takes(S)
  BY <1>1, <1>4 DEF P
<1> QED BY <1>5 DEF takes

\* A sum of no more over no more is no more.
LEMMA SumGrows ==
    ASSUME NEW U, NEW T, NEW f, NEW g, IsFiniteSet(U), T \subseteq U, Numbers(g, U), Numbers(f, T), \A x \in T : f[x] <= g[x]
    PROVE  SumFunctionOnSet(f, T) <= SumFunctionOnSet(g, U)
<1> DEFINE P == {S \in SUBSET U : SumFunctionOnSet(f, S \cap T) <= SumFunctionOnSet(g, S)}
<1>1. IsFiniteSet(T)
  BY FS_Subset
<1>2. \A S \in SUBSET U : SumFunctionOnSet(g, S) \in Nat /\ SumFunctionOnSet(f, S \cap T) \in Nat
  <2>1. \A S \in SUBSET U : S \cap T \in SUBSET T
    OBVIOUS
  <2> QED BY <1>1, <2>1, SumIsANumber
<1>3. {} \in P
  <2>1. {} \cap T = {}
    OBVIOUS
  <2> QED BY <2>1, SumOfNone
<1>4. ASSUME NEW S \in SUBSET U, NEW x \in U \ S, S \in P PROVE S \cup {x} \in P
  <2> DEFINE V == S \cup {x}
  <2>1. V \in SUBSET U /\ x \in V /\ V \ {x} = S
    OBVIOUS
  <2>2. SumFunctionOnSet(g, V) = g[x] + SumFunctionOnSet(g, S)
    BY <2>1, SumTakesAny
  <2>3. g[x] \in Nat
    BY DEF Numbers
  <2>4. CASE x \in T
    <3>1. V \cap T \in SUBSET T /\ x \in V \cap T /\ (V \cap T) \ {x} = S \cap T
      BY <2>1, <2>4
    <3>2. SumFunctionOnSet(f, V \cap T) = f[x] + SumFunctionOnSet(f, S \cap T)
      BY <1>1, <3>1, SumTakesAny
    <3>3. f[x] \in Nat /\ f[x] <= g[x]
      BY <2>4 DEF Numbers
    <3> HIDE DEF V
    <3>4. SumFunctionOnSet(f, S \cap T) <= SumFunctionOnSet(g, S)
      BY <1>4
    <3>5. SumFunctionOnSet(f, S \cap T) \in Nat /\ SumFunctionOnSet(g, S) \in Nat
      BY <1>2
    <3>6. SumFunctionOnSet(f, V \cap T) <= SumFunctionOnSet(g, V)
      BY <2>2, <2>3, <3>2, <3>3, <3>4, <3>5
    <3> QED BY <2>1, <3>6 DEF V
  <2>5. CASE x \notin T
    <3>1. V \cap T = S \cap T
      BY <2>5
    <3> HIDE DEF V
    <3>2. SumFunctionOnSet(f, S \cap T) <= SumFunctionOnSet(g, S)
      BY <1>4
    <3>3. SumFunctionOnSet(f, S \cap T) \in Nat /\ SumFunctionOnSet(g, S) \in Nat
      BY <1>2
    <3>4. SumFunctionOnSet(f, V \cap T) <= SumFunctionOnSet(g, V)
      <4>1. SumFunctionOnSet(f, V \cap T) = SumFunctionOnSet(f, S \cap T)
        BY <3>1
      <4> QED BY <2>2, <2>3, <3>2, <3>3, <4>1
    <3> QED BY <2>1, <3>4 DEF V
  <2> QED BY <2>4, <2>5
<1> HIDE DEF P
<1>5. SUBSET U \subseteq P
  BY <1>3, <1>4, SetInduction
<1>6. U \in P
  BY <1>5
<1>7. U \cap T = T
  OBVIOUS
<1> QED BY <1>6, <1>7 DEF P

LEMMA SumIsPositive ==
    ASSUME NEW U, NEW f, IsFiniteSet(U), Numbers(f, U)
    PROVE  SumFunctionOnSet(f, U) > 0 <=> \E x \in U : f[x] > 0
<1> DEFINE P == {S \in SUBSET U : SumFunctionOnSet(f, S) > 0 <=> \E x \in S : f[x] > 0}
<1>1. {} \in P
  BY SumOfNone
<1>2. ASSUME NEW S \in SUBSET U, NEW x \in U \ S, S \in P PROVE S \cup {x} \in P
  <2> DEFINE V == S \cup {x}
  <2>1. V \in SUBSET U /\ x \in V /\ V \ {x} = S
    OBVIOUS
  <2>2. SumFunctionOnSet(f, V) = f[x] + SumFunctionOnSet(f, S)
    BY <2>1, SumTakesAny
  <2>3. f[x] \in Nat /\ SumFunctionOnSet(f, S) \in Nat
    BY SumIsANumber DEF Numbers
  <2>4. SumFunctionOnSet(f, S) > 0 <=> \E y \in S : f[y] > 0
    BY <1>2
  <2>5. (\E y \in V : f[y] > 0) <=> f[x] > 0 \/ \E y \in S : f[y] > 0
    OBVIOUS
  <2> HIDE DEF V
  <2>6. SumFunctionOnSet(f, V) > 0 <=> \E y \in V : f[y] > 0
    BY <2>2, <2>3, <2>4, <2>5
  <2> QED BY <2>1, <2>6 DEF V
<1> HIDE DEF P
<1>3. U \in P
  BY <1>1, <1>2, SetInduction
<1> QED BY <1>3 DEF P

(***************************************************************************)
(* The open strip: the card and the keyboard                               *)
(***************************************************************************)

LEMMA DaysAreDays == None \notin Days /\ TODAY \in Days /\ TODAY + 1 # None
BY WindowAssumption DEF Days, None

\* The card that a press on Today or Tomorrow of the closed line pins is a day's.
LEMMA PlanOpensADay ==
    ASSUME NEW key \in {"today", "tomorrow"}
    PROVE  periodPlan(key).target # None
<1> DEFINE day == IF key = "today" THEN TODAY ELSE TODAY + 1
           span == periodSpan(key) \cap Days
           work == {d \in span : HoldsSome(d)}
<1>1. periodSpan(key) = {day}
  BY DEF periodSpan
<1>2. \A S : S \subseteq {day} /\ S # {} => Min(S) = day
  <2>1. day <= day
    BY WindowAssumption
  <2> HIDE DEF day
  <2> QED BY <2>1 DEF Min
<1>3. periodPlan(key).target = IF work = {} THEN IF span = {} THEN TODAY ELSE Min(span) ELSE Min(work)
  BY DEF periodPlan
<1>4. span \subseteq {day} /\ work \subseteq {day}
  BY <1>1
<1>5. TODAY # None /\ day # None
  BY DaysAreDays
<1> HIDE DEF span, work, day
<1> QED BY <1>2, <1>3, <1>4, <1>5

\* Opening the row, or placing it, keeps a pinned day pinned or pins another.
LEMMA PlacingPins ==
    ASSUME NEW key, NEW at, Place(key, AsTheyAre, at), pinned # None
    PROVE  pinned' # None
<1>1. AsTheyAre.pinned = pinned
  BY DEF AsTheyAre
<1>2. CASE key = NoTarget
  BY <1>1, <1>2 DEF Place
<1>3. CASE key # NoTarget
  BY <1>1, <1>3, PlanOpensADay DEF Place
<1> QED BY <1>2, <1>3

LEMMA ShowingPins ==
    ASSUME NEW key, NEW at, Shown(key, AsTheyAre, at), pinned # None
    PROVE  pinned' # None
<1>1. AsTheyAre.pinned = pinned
  BY DEF AsTheyAre
<1> QED BY <1>1, PlacingPins DEF Shown

\* What a step owes the keyboard in a pinned card that it closes.
GivesBack == pinned' = None => ~open' \/ focus' = Control \/ focus' = pinned \/ \E to \in 0 .. MaxScroll : dragMap(to)

\* The gestures on a day.
LEMMA DayGesturesGiveBack ==
    ASSUME focus = Card, pinned # None, NEW d \in Days, DayGesture(d)
    PROVE  GivesBack
<1>1. CASE focusDay(d)
  BY <1>1 DEF focusDay, GivesBack
<1>2. CASE enterDay(d)
  BY <1>2 DEF enterDay, GivesBack
<1>3. ASSUME NEW touch \in BOOLEAN, pressDay(d, touch) PROVE GivesBack
  <2>1. pinned = d \/ pinned' = d
    BY <1>3, Zenon DEF pressDay
  <2>2. focus' = d
    BY <1>3, Zenon DEF pressDay
  <2> QED BY <2>1, <2>2, DaysAreDays DEF GivesBack
<1> QED BY <1>1, <1>2, <1>3 DEF DayGesture

\* The viewer's scroll, the toggle, the closed line, Escape, and the row's controls.
LEMMA ViewersActsGiveBack ==
    ASSUME focus = Card, pinned # None, ViewerActs
    PROVE  GivesBack
<1>1. CASE \E d \in Days : DayGesture(d)
  BY <1>1, DayGesturesGiveBack
<1>2. ASSUME NEW to \in 0 .. MaxScroll, UserScroll(to) PROVE GivesBack
  <2>1. CASE row.self
    BY <1>2, <2>1 DEF UserScroll, GivesBack
  <2>2. CASE ~row.self
    <3>1. userScrolled(row')
      BY <1>2, <2>2, Zenon DEF UserScroll
    <3> QED BY <3>1 DEF userScrolled, GivesBack
  <2> QED BY <2>1, <2>2
<1>3. CASE \E to \in 0 .. MaxScroll : dragMap(to)
  BY <1>3, Zenon DEF GivesBack
<1>4. ASSUME NEW key \in Targets, openPeriod(key) PROVE GivesBack
  <2>1. Shown(key, AsTheyAre, Toggle)
    BY <1>4, Zenon DEF openPeriod
  <2> QED BY <2>1, ShowingPins DEF GivesBack
<1>5. CASE setOpenRemembered
  <2>1. CASE open
    <3>1. open' = FALSE
      BY <1>5, <2>1, Zenon DEF setOpenRemembered, Hidden
    <3> QED BY <3>1 DEF GivesBack
  <2>2. CASE ~open
    <3>1. Shown(periodtarget, AsTheyAre, Toggle)
      BY <1>5, <2>2, Zenon DEF setOpenRemembered
    <3> QED BY <3>1, ShowingPins DEF GivesBack
  <2> QED BY <2>1, <2>2
<1>6. CASE RetryDay \/ leaveStrip \/ enterStrip \/ enterCard \/ blurStrip \/ remember
  BY <1>6 DEF RetryDay, leaveStrip, enterStrip, enterCard, blurStrip, remember, GivesBack
<1>7. CASE keyStrip
  BY <1>7 DEF keyStrip, EscapeTo, openday, GivesBack
<1>8. CASE page(1) \/ page(-1)
  <2>1. focus' = Control
    BY <1>8, Zenon DEF page
  <2> QED BY <2>1 DEF GivesBack
<1>9. CASE goHome \/ chooseView
  <2>1. focus' = Control
    BY <1>9, Zenon DEF goHome, chooseView
  <2> QED BY <2>1 DEF GivesBack
<1>10. CASE openToday
  <2>1. pinned' = TODAY
    BY <1>10, Zenon DEF openToday
  <2> QED BY <2>1, DaysAreDays DEF GivesBack
<1> QED BY <1>1, <1>2, <1>3, <1>4, <1>5, <1>6, <1>7, <1>8, <1>9, <1>10, Zenon DEF ViewerActs

\* The answers and the writes.
LEMMA AnswersGiveBack ==
    ASSUME focus = Card, pinned # None, Answered
    PROVE  GivesBack
<1>1. CASE StripAnswers
  <2>1. CASE open
    <3>1. Place(periodtarget, AsTheyAre, focus)
      BY <1>1, <2>1, Zenon DEF StripAnswers
    <3> QED BY <3>1, PlacingPins DEF GivesBack
  <2>2. CASE ~open
    BY <1>1, <2>2 DEF StripAnswers, GivesBack
  <2> QED BY <2>1, <2>2
<1>2. CASE WriteFails
  <2>1. CASE writing = "open" /\ open
    <3>1. open' = FALSE
      BY <1>2, <2>1 DEF WriteFails, Hidden
    <3> QED BY <3>1 DEF GivesBack
  <2>2. CASE writing = "close" /\ ~open
    <3>1. Shown(periodtarget, AsTheyAre, focus)
      BY <1>2, <2>2 DEF WriteFails
    <3> QED BY <3>1, ShowingPins DEF GivesBack
  <2>3. CASE ~(writing = "open" /\ open) /\ ~(writing = "close" /\ ~open)
    BY <1>2, <2>3 DEF WriteFails, GivesBack
  <2> QED BY <2>1, <2>2, <2>3
<1>3. CASE WriteLands
  BY <1>3 DEF WriteLands, GivesBack
<1>4. ASSUME NEW q \in held.out, DayAnswers(q) \/ DayFails(q) PROVE GivesBack
  BY <1>4 DEF DayAnswers, DayFails, GivesBack
<1> QED BY <1>1, <1>2, <1>3, <1>4 DEF Answered

\* No order of gestures, answers, timers and scrolls closes a pinned card under the keyboard without giving the
\* keyboard to its day, but for the controls that take it and the map's drag (CalendarStrip.tsx, keyStrip, userScrolled,
\* pressDay).
THEOREM PinnedCardsGiveTheKeyboardBack == StripSpec => PinnedCardGivesTheKeyboardBack
<1>1. ASSUME focus = Card, pinned # None, StripNext PROVE GivesBack
  <2>1. CASE Glide \/ endSelfScroll \/ HoverOpens \/ LeftCloses
    BY <1>1, <2>1 DEF Glide, endSelfScroll, HoverOpens, LeftCloses, GivesBack
  <2> QED BY <1>1, <2>1, ViewersActsGiveBack, AnswersGiveBack DEF StripNext
<1>2. [StripNext]_stripvars =>
          ((focus = Card /\ pinned # None /\ pinned' = None /\ open' /\ focus' # Control
              /\ ~\E to \in 0 .. MaxScroll : dragMap(to)) => focus' = pinned)
  <2>1. CASE UNCHANGED stripvars
    BY <2>1 DEF stripvars
  <2> QED BY <1>1, <2>1 DEF GivesBack
<1> QED BY <1>2, PTL DEF StripSpec, PinnedCardGivesTheKeyboardBack

(***************************************************************************)
(* The closed line's press: what it counted, and what it opens on          *)
(***************************************************************************)

LEMMA LeastOfDays == ASSUME NEW T, T \subseteq Days, T # {} PROVE Min(T) \in T /\ \A d \in T : Min(T) <= d
<1>1. T \subseteq Nat
  BY WindowAssumption DEF Days
<1>2. \E x \in T : \A y \in T : x <= y
  BY <1>1, LeastNatural
<1> QED BY <1>2 DEF Min

LEMMA GreatestOfDays == ASSUME NEW T, T \subseteq Days, T # {} PROVE Max(T) \in T /\ \A d \in T : Max(T) >= d
<1> DEFINE below == {DAYS - 1 - d : d \in T}
<1>1. below \subseteq Nat /\ below # {}
  <2>1. \A d \in T : d \in 0 .. DAYS - 1
    BY DEF Days
  <2>2. \A d \in T : DAYS - 1 - d \in Nat
    BY <2>1, WindowAssumption
  <2> QED BY <2>2
<1> HIDE DEF below
<1>2. PICK n \in below : \A m \in below : n <= m
  BY <1>1, LeastNatural
<1> USE DEF below
<1>3. PICK x \in T : n = DAYS - 1 - x
  BY <1>2
<1>4. ASSUME NEW y \in T PROVE x >= y
  <2>1. DAYS - 1 - x <= DAYS - 1 - y
    BY <1>2, <1>3, <1>4
  <2> QED BY <2>1, WindowAssumption DEF Days
<1> QED BY <1>3, <1>4 DEF Max

LEMMA DaysAreFinite == IsFiniteSet(Days) /\ \A T \in SUBSET Days : IsFiniteSet(T)
<1>1. IsFiniteSet(Days)
  BY WindowAssumption, FS_Interval DEF Days
<1> QED BY <1>1, FS_Subset

LEMMA KindsAreFinite == ASSUME NEW v \in Views PROVE IsFiniteSet(ToSet(kindsOf(v)))
<1>1. ASSUME NEW n \in Nat, NEW s, DOMAIN s = 1 .. n PROVE IsFiniteSet(ToSet(s))
  <2> DEFINE f == [i \in 1 .. n |-> s[i]]
  <2>1. IsFiniteSet(1 .. n)
    BY FS_Interval
  <2>2. f \in Surjection(1 .. n, ToSet(s))
    BY <1>1 DEF Surjection, ToSet
  <2> HIDE DEF f
  <2> QED BY <2>1, <2>2, FS_Surjection
<1>2. DOMAIN LEARNING_KINDS = 1 .. 6 /\ DOMAIN TEACHING_KINDS = 1 .. 4
  BY DEF LEARNING_KINDS, TEACHING_KINDS
<1>3. IsFiniteSet(ToSet(LEARNING_KINDS)) /\ IsFiniteSet(ToSet(TEACHING_KINDS))
  <2>1. 6 \in Nat /\ 4 \in Nat
    OBVIOUS
  <2> QED BY <1>1, <1>2, <2>1
<1> QED BY <1>3 DEF kindsOf

\* What a day counts is a number, of some kinds no more than of all.
LEMMA CountsAreNumbers ==
    ASSUME NEW v \in Views, NEW d \in Days, NEW kinds
    PROVE  LET n == CountOfKinds(Payload[v][d].counts, kinds) IN n \in Nat /\ total(v, d) \in Nat /\ n <= total(v, d)
<1> DEFINE counts == Payload[v][d].counts
           all == ToSet(kindsOf(v))
<1>1. counts \in [all -> Nat]
  BY PayloadAssumption
<1>2. IsFiniteSet(all)
  BY KindsAreFinite
<1> HIDE DEF counts, all
<1>3. Numbers(counts, all) /\ kinds \cap all \subseteq all /\ all \cap all = all /\ DOMAIN counts = all
  BY <1>1 DEF Numbers
<1>4. Numbers(counts, kinds \cap all) /\ \A x \in kinds \cap all : counts[x] <= counts[x]
  BY <1>1 DEF Numbers
<1>5. SumFunctionOnSet(counts, kinds \cap all) \in Nat /\ SumFunctionOnSet(counts, all) \in Nat
  BY <1>2, <1>3, SumIsANumber
<1>6. SumFunctionOnSet(counts, kinds \cap all) <= SumFunctionOnSet(counts, all)
  BY <1>2, <1>3, <1>4, SumGrows
<1>7. CountOfKinds(counts, kinds) = SumFunctionOnSet(counts, kinds \cap all)
  BY <1>3 DEF CountOfKinds
<1>8. total(v, d) = SumFunctionOnSet(counts, all)
  BY <1>3 DEF total, CountOfKinds, counts
<1> QED BY <1>5, <1>6, <1>7, <1>8 DEF counts

LEMMA PeriodKeysAre == ToSet(PERIOD_KEYS) = {"late", "today", "tomorrow", "week", "later"}
<1>1. DOMAIN PERIOD_KEYS = 1 .. 5
  BY DEF PERIOD_KEYS
<1>2. ToSet(PERIOD_KEYS) = {PERIOD_KEYS[i] : i \in 1 .. 5}
  BY <1>1 DEF ToSet
<1>3. 1 .. 5 = {1, 2, 3, 4, 5}
  OBVIOUS
<1>4. ToSet(PERIOD_KEYS) = {PERIOD_KEYS[1], PERIOD_KEYS[2], PERIOD_KEYS[3], PERIOD_KEYS[4], PERIOD_KEYS[5]}
  BY <1>2, <1>3
<1> QED BY <1>4 DEF PERIOD_KEYS

\* A period's days are those its press lights.
LEMMA PeriodsAreTheirSpans ==
    ASSUME NEW d \in Days
    PROVE  PeriodOf(d) \in ToSet(PERIOD_KEYS) /\ d \in periodSpan(PeriodOf(d)) \cap Days
<1>1. d \in 0 .. DAYS - 1
  BY DEF Days
<1>2. ToSet(PERIOD_KEYS) = {"late", "today", "tomorrow", "week", "later"}
  BY PeriodKeysAre
<1>3. CASE d < TODAY
  <2>1. PeriodOf(d) = "late"
    BY <1>1, <1>3, WindowAssumption DEF PeriodOf
  <2>2. d \in 0 .. TODAY - 1
    BY <1>1, <1>3, WindowAssumption
  <2>3. periodSpan("late") = 0 .. TODAY - 1
    BY DEF periodSpan
  <2> QED BY <1>2, <2>1, <2>2, <2>3
<1>4. CASE d = TODAY
  <2>1. PeriodOf(d) = "today"
    BY <1>1, <1>4, WindowAssumption DEF PeriodOf
  <2>2. d \in {TODAY}
    BY <1>1, <1>4, WindowAssumption
  <2>3. periodSpan("today") = {TODAY}
    BY DEF periodSpan
  <2> QED BY <1>2, <2>1, <2>2, <2>3
<1>5. CASE d = TODAY + 1
  <2>1. PeriodOf(d) = "tomorrow"
    BY <1>1, <1>5, WindowAssumption DEF PeriodOf
  <2>2. d \in {TODAY + 1}
    BY <1>1, <1>5, WindowAssumption
  <2>3. periodSpan("tomorrow") = {TODAY + 1}
    BY DEF periodSpan
  <2> QED BY <1>2, <2>1, <2>2, <2>3
<1>6. CASE d > TODAY + 1 /\ d <= TODAY + 1 + WEEK_DAYS
  <2>1. PeriodOf(d) = "week"
    BY <1>1, <1>6, WindowAssumption DEF PeriodOf
  <2>2. d \in TODAY + 2 .. TODAY + 1 + WEEK_DAYS
    BY <1>1, <1>6, WindowAssumption
  <2>3. periodSpan("week") = TODAY + 2 .. TODAY + 1 + WEEK_DAYS
    BY DEF periodSpan
  <2> QED BY <1>2, <2>1, <2>2, <2>3
<1>7. CASE d > TODAY + 1 /\ d > TODAY + 1 + WEEK_DAYS
  <2>1. PeriodOf(d) = "later"
    BY <1>1, <1>7, WindowAssumption DEF PeriodOf
  <2>2. d \in TODAY + 2 + WEEK_DAYS .. DAYS - 1
    BY <1>1, <1>7, WindowAssumption
  <2>3. periodSpan("later") = TODAY + 2 + WEEK_DAYS .. DAYS - 1
    BY DEF periodSpan
  <2> QED BY <1>2, <2>1, <2>2, <2>3
<1> QED BY <1>1, <1>3, <1>4, <1>5, <1>6, <1>7, WindowAssumption

\* A period that counts something: no more than its span holds, of courses the span names, and some of it on a day.
LEMMA PeriodsCountTheirSpans ==
    ASSUME NEW v \in Views, NEW key \in ToSet(PERIOD_KEYS), NEW kinds
    PROVE  LET period == onePeriod(Payload[v], key, kinds)
               span == periodSpan(key) \cap Days
           IN /\ period.count <= SumFunction([d \in span |-> total(v, d)])
              /\ period.courses \subseteq UNION {Payload[v][d].courses : d \in span}
              /\ period.count > 0 => \E d \in span : total(v, d) > 0
<1> DEFINE days == Payload[v]
           span == periodSpan(key) \cap Days
           count(d) == CountOfKinds(days[d].counts, kinds)
           somedays == {d \in Days : PeriodOf(d) = key /\ count(d) > 0}
           f == [d \in somedays |-> count(d)]
           g == [d \in span |-> total(v, d)]
           period == onePeriod(days, key, kinds)
<1>1. period.count = SumFunction(f) /\ period.courses = UNION {days[d].courses : d \in somedays}
  BY Zenon DEF onePeriod
<1>2. somedays \subseteq span /\ IsFiniteSet(span) /\ IsFiniteSet(somedays)
  BY PeriodsAreTheirSpans, DaysAreFinite
<1>3. \A d \in Days : count(d) \in Nat /\ total(v, d) \in Nat /\ count(d) <= total(v, d)
  BY CountsAreNumbers
<1>4. SumFunction(f) = SumFunctionOnSet(f, somedays) /\ SumFunction(g) = SumFunctionOnSet(g, span)
  BY DEF SumFunction
<1>5. Numbers(f, somedays) /\ Numbers(g, span) /\ \A d \in somedays : f[d] <= g[d]
  <2> HIDE DEF count
  <2> QED BY <1>2, <1>3 DEF Numbers
<1>6. SumFunctionOnSet(f, somedays) <= SumFunctionOnSet(g, span)
  <2> HIDE DEF f, g, somedays, span
  <2> QED BY <1>2, <1>5, SumGrows
<1>7. SumFunctionOnSet(f, somedays) > 0 => somedays # {}
  <2> HIDE DEF f
  <2> QED BY SumOfNone
<1>8. somedays # {} => \E d \in span : total(v, d) > 0
  <2>1. ASSUME NEW d \in somedays PROVE d \in span /\ total(v, d) > 0
    <3>1. d \in Days /\ d \in span /\ count(d) > 0
      BY <1>2, <2>1
    <3> HIDE DEF count
    <3> QED BY <1>3, <3>1
  <2> HIDE DEF somedays, span
  <2> QED BY <2>1
<1>9. period.courses \subseteq UNION {days[d].courses : d \in span}
  <2> HIDE DEF somedays, span, period
  <2> QED BY <1>1, <1>2
<1>10. period.count <= SumFunction(g)
  <2> HIDE DEF f, g, somedays, period
  <2> QED BY <1>1, <1>4, <1>6
<1>11. period.count > 0 => \E d \in span : total(v, d) > 0
  <2> HIDE DEF f, somedays, period, span
  <2> QED BY <1>1, <1>4, <1>7, <1>8
<1> QED BY <1>9, <1>10, <1>11, Zenon

\* A row placed on a day, or at home where that shows the day, shows it wholly.
LEMMA PlacedInView ==
    ASSUME NEW r, NEW d \in Days, NEW start, r.at = 0, start = d \/ (start = homeIndex /\ whollyInView(d, 2 * homeIndex))
    PROVE  whollyInView(d, scrollRow(r, 2 * start, FALSE).at)
<1> DEFINE to == 2 * start
           low == Min({MaxScroll, to})
           goal == Max({0, low})
<1>1. \A x, y \in Int : Min({x, y}) = (IF x <= y THEN x ELSE y) /\ Max({x, y}) = (IF x >= y THEN x ELSE y)
  <2> TAKE x, y \in Int
  <2>1. Min({x, y}) \in {x, y} /\ Min({x, y}) <= x /\ Min({x, y}) <= y
    <3>1. \E m \in {x, y} : \A n \in {x, y} : m <= n
      OBVIOUS
    <3> QED BY <3>1 DEF Min
  <2>2. Max({x, y}) \in {x, y} /\ Max({x, y}) >= x /\ Max({x, y}) >= y
    <3>1. \E m \in {x, y} : \A n \in {x, y} : m >= n
      OBVIOUS
    <3> QED BY <3>1 DEF Max
  <2> QED BY <2>1, <2>2
<1>2. MaxScroll \in Nat /\ MaxScroll = 2 * (DAYS - WHOLE) - SLACK /\ WHOLE \in Nat /\ WHOLE >= 1 /\ SLACK \in {0, 1} /\ DAYS \in Nat
  BY WindowAssumption DEF MaxScroll
<1>3. homeIndex \in Nat
  <2> DEFINE n == TODAY - PAST
  <2>1. n \in Int /\ 0 \in Int
    BY WindowAssumption
  <2>2. homeIndex = Max({0, n})
    BY DEF homeIndex
  <2> HIDE DEF n
  <2>3. Max({0, n}) = IF 0 >= n THEN 0 ELSE n
    BY <1>1, <2>1, Zenon
  <2> QED BY <2>1, <2>2, <2>3
<1>4. d \in Nat /\ d <= DAYS - 1 /\ start \in Nat
  BY <1>3, WindowAssumption DEF Days
<1>5. goal = IF MaxScroll <= to THEN MaxScroll ELSE to
  <2>1. to \in Nat
    BY <1>4
  <2> HIDE DEF to
  <2>2. to \in Int /\ MaxScroll \in Int /\ 0 \in Int
    BY <1>2, <2>1
  <2>3. low = IF MaxScroll <= to THEN MaxScroll ELSE to
    BY <1>1, <2>2, Zenon
  <2>4. low \in Nat
    BY <1>2, <2>1, <2>3
  <2> HIDE DEF low
  <2>5. low \in Int /\ goal = IF 0 >= low THEN 0 ELSE low
    <3>1. low \in Int
      BY <2>4
    <3> QED BY <1>1, <2>2, <3>1, Zenon
  <2> HIDE DEF goal
  <2>6. goal = low
    BY <2>4, <2>5
  <2> QED BY <2>3, <2>6, Zenon
<1>6. scrollRow(r, to, FALSE).at = goal
  <2> HIDE DEF goal
  <2> QED BY DEF scrollRow, goal
<1>7. whollyInView(d, goal)
  <2> HIDE DEF goal
  <2> QED BY <1>2, <1>3, <1>4, <1>5 DEF whollyInView
<1> QED BY <1>6, <1>7
\* The row always has a place, and the view is one of the two.
RowInv == view \in Views /\ "at" \in DOMAIN row

LEMMA ScrollsHaveAPlace ==
    ASSUME NEW r, NEW to, NEW smooth, NEW d, "at" \in DOMAIN r
    PROVE  /\ "at" \in DOMAIN scrollRow(r, to, smooth) /\ "at" \in DOMAIN reveal(r, d)
           /\ "at" \in DOMAIN [r EXCEPT !.at = to, !.glide = None] /\ [r EXCEPT !.at = to, !.glide = None].at = to
<1>1. \A x, y : "at" \in DOMAIN scrollRow(r, x, y)
  BY DEF scrollRow
<1>2. "at" \in DOMAIN reveal(r, d)
  BY <1>1 DEF reveal
<1> QED BY <1>1, <1>2

LEMMA NewScrollerIsAtTheStart == ASSUME RowInv PROVE "at" \in DOMAIN NewScroller /\ NewScroller.at = 0
BY DEF RowInv, NewScroller

LEMMA PlacingKeepsTheRow == ASSUME RowInv, NEW key, NEW days, NEW at, Place(key, days, at) PROVE "at" \in DOMAIN row'
<1>1. \A to : "at" \in DOMAIN scrollRow(NewScroller, to, FALSE)
  BY NewScrollerIsAtTheStart, ScrollsHaveAPlace
<1>2. PICK to : row' = scrollRow(NewScroller, to, FALSE)
  BY Zenon DEF Place
<1> QED BY <1>1, <1>2

LEMMA ShowingKeepsTheRow == ASSUME RowInv, NEW key, NEW days, NEW at, Shown(key, days, at) PROVE "at" \in DOMAIN row'
<1>1. CASE loaded = "in"
  BY <1>1, PlacingKeepsTheRow DEF Shown
<1>2. CASE loaded # "in"
  BY <1>2 DEF Shown, RowInv
<1> QED BY <1>1, <1>2

LEMMA HidingKeepsTheRow == ASSUME RowInv, NEW days, NEW at, Hidden(days, at) PROVE "at" \in DOMAIN row'
BY DEF Hidden, RowInv

LEMMA ViewersActsKeepTheRow == ASSUME RowInv, ViewerActs PROVE RowInv'
<1>1. ASSUME NEW d \in Days, DayGesture(d) PROVE RowInv'
  <2>1. CASE focusDay(d)
    BY <2>1, ScrollsHaveAPlace DEF focusDay, RowInv
  <2>2. CASE enterDay(d)
    BY <2>2 DEF enterDay, RowInv
  <2>3. ASSUME NEW touch \in BOOLEAN, pressDay(d, touch) PROVE RowInv'
    <3>1. row' = reveal(row, d) /\ view' = view
      BY <2>3, Zenon DEF pressDay
    <3> QED BY <3>1, ScrollsHaveAPlace DEF RowInv
  <2> QED BY <1>1, <2>1, <2>2, <2>3 DEF DayGesture
<1>2. ASSUME NEW to \in 0 .. MaxScroll, UserScroll(to) PROVE RowInv'
  <2>1. row' = [row EXCEPT !.at = to, !.glide = None] /\ view' = view
    BY <1>2, Zenon DEF UserScroll
  <2> QED BY <2>1 DEF RowInv
<1>3. ASSUME NEW to \in 0 .. MaxScroll, dragMap(to) PROVE RowInv'
  <2>1. PICK lands : row' = scrollRow([row EXCEPT !.at = to, !.glide = None], lands, TRUE)
    BY <1>3, Zenon DEF dragMap
  <2>2. view' = view
    BY <1>3, Zenon DEF dragMap
  <2>3. "at" \in DOMAIN [row EXCEPT !.at = to, !.glide = None]
    BY DEF RowInv
  <2> QED BY <2>1, <2>2, <2>3, ScrollsHaveAPlace DEF RowInv
<1>4. ASSUME NEW key \in Targets, openPeriod(key) PROVE RowInv'
  <2>1. Shown(key, AsTheyAre, Toggle) /\ view' = view
    BY <1>4, Zenon DEF openPeriod
  <2> QED BY <2>1, ShowingKeepsTheRow DEF RowInv
<1>5. CASE setOpenRemembered
  <2>1. view' = view /\ ((\E days, at : Hidden(days, at)) \/ \E key, days, at : Shown(key, days, at))
    BY <1>5, Zenon DEF setOpenRemembered
  <2> QED BY <2>1, ShowingKeepsTheRow, HidingKeepsTheRow DEF RowInv
<1>6. CASE RetryDay \/ leaveStrip \/ enterStrip \/ enterCard \/ blurStrip \/ keyStrip \/ remember
  BY <1>6 DEF RetryDay, leaveStrip, enterStrip, enterCard, blurStrip, keyStrip, remember, RowInv
<1>7. CASE page(1) \/ page(-1) \/ goHome
  <2>1. PICK to : row' = scrollRow(row, to, TRUE)
    BY <1>7, Zenon DEF page, goHome
  <2>2. view' = view
    BY <1>7, Zenon DEF page, goHome
  <2> QED BY <2>1, <2>2, ScrollsHaveAPlace DEF RowInv
<1>8. CASE openToday
  <2>1. row' = reveal(row, TODAY) /\ view' = view
    BY <1>8, Zenon DEF openToday
  <2> QED BY <2>1, ScrollsHaveAPlace DEF RowInv
<1>9. CASE chooseView
  BY <1>9 DEF chooseView, RowInv, Views
<1> QED BY <1>1, <1>2, <1>3, <1>4, <1>5, <1>6, <1>7, <1>8, <1>9, Zenon DEF ViewerActs

LEMMA AnswersKeepTheRow == ASSUME RowInv, Answered PROVE RowInv'
<1>1. CASE StripAnswers
  <2>1. view' = view
    BY <1>1, Zenon DEF StripAnswers
  <2>2. CASE open
    <3>1. Place(periodtarget, AsTheyAre, focus)
      BY <1>1, <2>2, Zenon DEF StripAnswers
    <3> QED BY <2>1, <3>1, PlacingKeepsTheRow DEF RowInv
  <2>3. CASE ~open
    BY <1>1, <2>1, <2>3 DEF StripAnswers, RowInv
  <2> QED BY <2>2, <2>3
<1>2. CASE WriteFails
  <2>1. view' = view
    BY <1>2, Zenon DEF WriteFails
  <2>2. CASE writing = "open" /\ open
    <3>1. Hidden(AsTheyAre, focus)
      BY <1>2, <2>2 DEF WriteFails
    <3> QED BY <2>1, <3>1, HidingKeepsTheRow DEF RowInv
  <2>3. CASE writing = "close" /\ ~open
    <3>1. Shown(periodtarget, AsTheyAre, focus)
      BY <1>2, <2>3 DEF WriteFails
    <3> QED BY <2>1, <3>1, ShowingKeepsTheRow DEF RowInv
  <2>4. CASE ~(writing = "open" /\ open) /\ ~(writing = "close" /\ ~open)
    BY <1>2, <2>4 DEF WriteFails, RowInv
  <2> QED BY <2>2, <2>3, <2>4
<1>3. CASE WriteLands
  BY <1>3 DEF WriteLands, RowInv
<1>4. ASSUME NEW q \in held.out, DayAnswers(q) \/ DayFails(q) PROVE RowInv'
  BY <1>4 DEF DayAnswers, DayFails, RowInv
<1> QED BY <1>1, <1>2, <1>3, <1>4 DEF Answered

LEMMA RowIsKept == StripSpec => []RowInv
<1>1. StripInit => RowInv
  BY DEF StripInit, RowInv
<1>2. RowInv /\ [StripNext]_stripvars => RowInv'
  <2> SUFFICES ASSUME RowInv, [StripNext]_stripvars PROVE RowInv'
    OBVIOUS
  <2>1. CASE UNCHANGED stripvars
    BY <2>1 DEF stripvars, RowInv
  <2>2. CASE Glide \/ endSelfScroll \/ HoverOpens \/ LeftCloses
    BY <2>2 DEF Glide, endSelfScroll, HoverOpens, LeftCloses, RowInv
  <2> QED BY <2>1, <2>2, ViewersActsKeepTheRow, AnswersKeepTheRow DEF StripNext
<1> QED BY <1>1, <1>2, PTL DEF StripSpec

\* What a press on a period opens, when it counted something: its span lit, and the keyboard on a day that holds
\* something, the first of the span or, for Late, the last.
LEMMA PlansLandOnWork ==
    ASSUME RowInv, NEW key \in ToSet(PERIOD_KEYS), \E d \in periodSpan(key) \cap Days : HoldsSome(d)
    PROVE  LET plan == periodPlan(key)
           IN /\ plan.span = periodSpan(key) \cap Days /\ plan.target \in plan.span /\ HoldsSome(plan.target)
              /\ \A d \in plan.span : HoldsSome(d) => IF key = "late" THEN d <= plan.target ELSE plan.target <= d
              /\ key # "late" => \/ plan.start = plan.target
                                 \/ plan.start = homeIndex /\ whollyInView(plan.target, 2 * homeIndex)
<1> DEFINE span == periodSpan(key) \cap Days
           work == {d \in span : HoldsSome(d)}
           plan == periodPlan(key)
<1>1. key # "grading" /\ key # NoTarget
  BY PeriodKeysAre DEF NoTarget
<1>2. work # {} /\ work \subseteq Days
  OBVIOUS
<1>3. Min(work) \in work /\ Max(work) \in work /\ \A d \in work : Min(work) <= d /\ d <= Max(work)
  <2>1. work \subseteq Int
    BY <1>2, WindowAssumption DEF Days
  <2>2. Min(work) \in work /\ Max(work) \in work /\ \A d \in work : Min(work) <= d /\ Max(work) >= d
    <3> HIDE DEF work
    <3> QED BY <1>2, LeastOfDays, GreatestOfDays
  <2> HIDE DEF work
  <2> QED BY <2>1, <2>2
<1>4. plan.span = span /\ plan.target = IF key = "late" THEN Max(work) ELSE Min(work)
  BY <1>1, <1>2 DEF periodPlan
<1>5. key # "late" => plan.start = IF whollyInView(plan.target, 2 * homeIndex) THEN homeIndex ELSE plan.target
  BY <1>1, <1>2, <1>4 DEF periodPlan
<1>6. plan.target \in work
  <2> HIDE DEF work, plan
  <2> QED BY <1>3, <1>4
<1>7. plan.target \in span /\ HoldsSome(plan.target)
  <2> HIDE DEF plan
  <2> QED BY <1>6
<1>8. key # "late" => plan.start = plan.target \/ (plan.start = homeIndex /\ whollyInView(plan.target, 2 * homeIndex))
  <2> HIDE DEF plan
  <2> QED BY <1>5
<1>9. \A d \in span : HoldsSome(d) => IF key = "late" THEN d <= plan.target ELSE plan.target <= d
  <2>1. \A d \in work : IF key = "late" THEN d <= plan.target ELSE plan.target <= d
    <3> HIDE DEF work, plan
    <3> QED BY <1>3, <1>4
  <2> HIDE DEF plan, span
  <2> QED BY <2>1
<1> HIDE DEF plan, span
<1> QED BY <1>4, <1>7, <1>8, <1>9 DEF plan, span

\* What the property asks of a press on a period.
OpenedOn(key) ==
    \A grading \in BOOLEAN :
    LET line == periodsOf(Payload[view], view, TRUE, grading).periods
    IN key \in DOMAIN line /\ line[key].count > 0 =>
        /\ SumFunction([d \in lit' |-> total(view, d)]) >= line[key].count
        /\ line[key].courses \subseteq UNION {Payload[view][d].courses : d \in lit'}
        /\ focus' \in lit' /\ HoldsSome(focus')
        /\ \A d \in lit' : CountedOn(d, key, grading) > 0 => IF key = "late" THEN d <= focus' ELSE focus' <= d
        /\ key # "late" => whollyInView(focus', row'.at)

LEMMA PlacedOnWhatWasCounted ==
    ASSUME RowInv, NEW key \in ToSet(PERIOD_KEYS), NEW days, NEW at, Place(key, days, at)
    PROVE  OpenedOn(key)
<1> SUFFICES ASSUME NEW grading \in BOOLEAN,
                    key \in DOMAIN periodsOf(Payload[view], view, TRUE, grading).periods,
                    periodsOf(Payload[view], view, TRUE, grading).periods[key].count > 0
             PROVE  LET line == periodsOf(Payload[view], view, TRUE, grading).periods
                    IN /\ SumFunction([d \in lit' |-> total(view, d)]) >= line[key].count
                       /\ line[key].courses \subseteq UNION {Payload[view][d].courses : d \in lit'}
                       /\ focus' \in lit' /\ HoldsSome(focus')
                       /\ \A d \in lit' : CountedOn(d, key, grading) > 0 => IF key = "late" THEN d <= focus' ELSE focus' <= d
                       /\ key # "late" => whollyInView(focus', row'.at)
  BY Zenon DEF OpenedOn
<1> DEFINE line == periodsOf(Payload[view], view, TRUE, grading).periods
           kinds == PeriodKinds(key, view, TRUE, grading)
           period == onePeriod(Payload[view], key, kinds)
           span == periodSpan(key) \cap Days
           plan == periodPlan(key)
<1>1. line[key] = period
  BY DEF periodsOf
<1>2. key # NoTarget
  BY PeriodKeysAre DEF NoTarget
<1>3. row' = scrollRow(NewScroller, 2 * plan.start, FALSE) /\ lit' = plan.span /\ focus' = plan.target
  BY <1>2, Zenon DEF Place
<1> HIDE DEF kinds, plan
<1>4. /\ period.count <= SumFunction([d \in span |-> total(view, d)])
      /\ period.courses \subseteq UNION {Payload[view][d].courses : d \in span}
      /\ period.count > 0 => \E d \in span : total(view, d) > 0
  BY PeriodsCountTheirSpans DEF RowInv
<1> HIDE DEF line, period
<1>5. \E d \in span : HoldsSome(d)
  <2>1. period.count > 0
    BY <1>1 DEF line
  <2> HIDE DEF span
  <2> QED BY <1>4, <2>1 DEF HoldsSome
<1>6. /\ plan.span = span /\ plan.target \in span /\ HoldsSome(plan.target)
      /\ \A d \in plan.span : HoldsSome(d) => IF key = "late" THEN d <= plan.target ELSE plan.target <= d
      /\ key # "late" => \/ plan.start = plan.target
                         \/ plan.start = homeIndex /\ whollyInView(plan.target, 2 * homeIndex)
  BY <1>5, PlansLandOnWork DEF plan
<1>7. key # "late" => whollyInView(focus', row'.at)
  <2>1. NewScroller.at = 0 /\ plan.target \in Days
    BY <1>6, NewScrollerIsAtTheStart
  <2> QED BY <1>3, <1>6, <2>1, PlacedInView
<1>8. lit' = span
  BY <1>3, <1>6
<1> HIDE DEF span
<1>9. /\ SumFunction([d \in lit' |-> total(view, d)]) >= line[key].count
      /\ line[key].courses \subseteq UNION {Payload[view][d].courses : d \in lit'}
  BY <1>1, <1>4, <1>8
<1>10. focus' \in lit' /\ HoldsSome(focus')
  BY <1>3, <1>6, <1>8
<1>11. \A d \in lit' : CountedOn(d, key, grading) > 0 => IF key = "late" THEN d <= focus' ELSE focus' <= d
  <2>1. \A d \in span : CountedOn(d, key, grading) > 0 => HoldsSome(d)
    <3>1. ASSUME NEW d \in Days PROVE CountedOn(d, key, grading) \in Nat /\ total(view, d) \in Nat
                                       /\ CountedOn(d, key, grading) <= total(view, d)
      BY CountsAreNumbers DEF RowInv, CountedOn
    <3>2. span \subseteq Days
      BY DEF span
    <3> HIDE DEF span
    <3> QED BY <3>1, <3>2 DEF HoldsSome
  <2> QED BY <1>3, <1>6, <1>8, <2>1
<1> QED BY <1>7, <1>9, <1>10, <1>11 DEF line

\* Whatever the window and the payload, a press on a period of the closed line that counts something lights every
\* thing it counted and takes the keyboard past none of it: to a lit day holding something, done work and past events
\* included, with nothing counted before it (after it, for Late), shown wholly but for Late (CalendarStrip.tsx, openPeriod).
THEOREM PressesOpenWhatWasCounted == StripSpec => PressOpensWhatWasCounted
<1>1. ASSUME RowInv, NEW key \in ToSet(PERIOD_KEYS),
             (~open /\ loaded = "in" /\ openPeriod(key)) \/ (periodtarget = key /\ open /\ StripAnswers)
      PROVE  OpenedOn(key)
  <2>1. CASE ~open /\ loaded = "in" /\ openPeriod(key)
    <3>1. Place(key, AsTheyAre, Toggle)
      BY <2>1, Zenon DEF openPeriod, Shown
    <3> QED BY <1>1, <3>1, PlacedOnWhatWasCounted
  <2>2. CASE periodtarget = key /\ open /\ StripAnswers
    <3>1. Place(key, AsTheyAre, focus)
      BY <2>2, Zenon DEF StripAnswers
    <3> QED BY <1>1, <3>1, PlacedOnWhatWasCounted
  <2> QED BY <1>1, <2>1, <2>2
<1>2. RowInv => \A key \in ToSet(PERIOD_KEYS) :
          (~open /\ loaded = "in" /\ openPeriod(key)) \/ (periodtarget = key /\ open /\ StripAnswers) => OpenedOn(key)
  BY <1>1, Zenon
<1> QED BY <1>2, RowIsKept, PTL DEF StripSpec, PressOpensWhatWasCounted, OpenedOn

(***************************************************************************)
(* The needle: what a day weighs, and the day that weighs most             *)
(***************************************************************************)

LEMMA KindsAre ==
    /\ ToSet(kindsOf("learning")) = {"gradedsoon", "graded", "todo", "late", "event", "done"}
    /\ ToSet(kindsOf("teaching")) = {"gradesoon", "grade", "class", "event"}
<1> DEFINE L == LEARNING_KINDS
           T == TEACHING_KINDS
<1>1. DOMAIN L = 1 .. 6 /\ DOMAIN T = 1 .. 4
  BY DEF LEARNING_KINDS, TEACHING_KINDS
<1>2. ToSet(L) = {L[i] : i \in 1 .. 6} /\ ToSet(T) = {T[i] : i \in 1 .. 4}
  <2> HIDE DEF L, T
  <2> QED BY <1>1 DEF ToSet
<1>3. 1 .. 6 = {1, 2, 3, 4, 5, 6} /\ 1 .. 4 = {1, 2, 3, 4}
  OBVIOUS
<1>4. ToSet(L) = {L[1], L[2], L[3], L[4], L[5], L[6]} /\ ToSet(T) = {T[1], T[2], T[3], T[4]}
  <2> HIDE DEF L, T
  <2> QED BY <1>2, <1>3
<1>5. kindsOf("learning") = L /\ kindsOf("teaching") = T
  BY DEF kindsOf
<1>6. ToSet(L) = {"gradedsoon", "graded", "todo", "late", "event", "done"}
  BY <1>4 DEF LEARNING_KINDS
<1>7. ToSet(T) = {"gradesoon", "grade", "class", "event"}
  BY <1>4 DEF TEACHING_KINDS
<1> HIDE DEF L, T
<1> QED BY <1>5, <1>6, <1>7

\* Every kind weighs something, but what is done.
LEMMA KindsWeigh ==
    ASSUME NEW v \in Views, NEW k \in ToSet(kindsOf(v))
    PROVE  MIN_WEIGHT[k] \in Nat /\ (MIN_WEIGHT[k] > 0 <=> k # "done")
<1>1. CASE v = "learning"
  BY <1>1, KindsAre DEF MIN_WEIGHT
<1>2. CASE v = "teaching"
  BY <1>2, KindsAre DEF MIN_WEIGHT
<1> QED BY <1>1, <1>2 DEF Views

\* Some thing of these kinds is counted.
Some(counts, kinds) == \E k \in kinds \cap DOMAIN counts : counts[k] > 0

LEMMA CountingFindsSome ==
    ASSUME NEW v \in Views, NEW counts \in [ToSet(kindsOf(v)) -> Nat], NEW kinds
    PROVE  CountOfKinds(counts, kinds) \in Nat /\ (CountOfKinds(counts, kinds) > 0 <=> Some(counts, kinds))
<1> DEFINE all == ToSet(kindsOf(v))
           S == kinds \cap all
<1>1. IsFiniteSet(S) /\ DOMAIN counts = all
  BY KindsAreFinite, FS_Subset
<1>2. Numbers(counts, S)
  BY DEF Numbers
<1>3. CountOfKinds(counts, kinds) = SumFunctionOnSet(counts, S)
  BY <1>1 DEF CountOfKinds
<1>4. Some(counts, kinds) <=> \E k \in S : counts[k] > 0
  BY <1>1 DEF Some
<1> HIDE DEF S
<1>5. SumFunctionOnSet(counts, S) \in Nat
  BY <1>1, <1>2, SumIsANumber
<1>6. SumFunctionOnSet(counts, S) > 0 <=> \E k \in S : counts[k] > 0
  BY <1>1, <1>2, SumIsPositive
<1> QED BY <1>3, <1>4, <1>5, <1>6

LEMMA OpenKindsWeigh ==
    ASSUME NEW v \in Views, NEW counts \in [ToSet(kindsOf(v)) -> Nat]
    PROVE  openWeight(counts) \in Nat /\ (openWeight(counts) > 0 <=> Some(counts, ToSet(kindsOf(v)) \ {"event", "class", "done"}))
<1> DEFINE all == ToSet(kindsOf(v))
           S == all \ {"event", "class"}
           f == [k \in S |-> counts[k] * MIN_WEIGHT[k]]
<1>1. IsFiniteSet(S) /\ DOMAIN counts = all
  BY KindsAreFinite, FS_Subset
<1>2. ASSUME NEW k \in S PROVE f[k] \in Nat /\ (f[k] > 0 <=> counts[k] > 0 /\ k # "done")
  <2>1. counts[k] \in Nat /\ MIN_WEIGHT[k] \in Nat /\ (MIN_WEIGHT[k] > 0 <=> k # "done")
    BY KindsWeigh
  <2>2. f[k] = counts[k] * MIN_WEIGHT[k]
    OBVIOUS
  <2>3. \A m, n \in Nat : m * n \in Nat /\ (m * n > 0 <=> m > 0 /\ n > 0)
    OBVIOUS
  <2> HIDE DEF f, S
  <2> QED BY <2>1, <2>2, <2>3
<1>3. openWeight(counts) = SumFunctionOnSet(f, S)
  BY <1>1 DEF openWeight, SumFunction
<1>4. Some(counts, all \ {"event", "class", "done"}) <=> \E k \in S : f[k] > 0
  <2> HIDE DEF f
  <2> QED BY <1>1, <1>2 DEF Some
<1>5. Numbers(f, S)
  <2> HIDE DEF f
  <2> QED BY <1>2 DEF Numbers
<1> HIDE DEF f, S
<1>6. SumFunctionOnSet(f, S) \in Nat
  BY <1>1, <1>5, SumIsANumber
<1>7. SumFunctionOnSet(f, S) > 0 <=> \E k \in S : f[k] > 0
  BY <1>1, <1>5, SumIsPositive
<1> QED BY <1>3, <1>4, <1>6, <1>7

LEMMA InformingKindsWeigh ==
    ASSUME NEW v \in Views, NEW counts \in [ToSet(kindsOf(v)) -> Nat]
    PROVE  informative(counts) \in Nat /\ (informative(counts) > 0 <=> Some(counts, {"event", "class"}))
<1> DEFINE n == CountOfKinds(counts, {"event", "class"})
<1>1. n \in Nat /\ (n > 0 <=> Some(counts, {"event", "class"}))
  BY CountingFindsSome
<1>2. informative(counts) = n * 1
  BY DEF informative, MIN_WEIGHT
<1> HIDE DEF n
<1> QED BY <1>1, <1>2
\* A day's weight is over what only informs exactly when it has open work.
WeighsItsWork(v, day) ==
    /\ day.counts \in [ToSet(kindsOf(v)) -> Nat]
    /\ day.weight.n \in Nat /\ day.weight.d \in Nat \ {0}
    /\ day.weight.n >= informative(day.counts) * day.weight.d
    /\ day.weight.n > informative(day.counts) * day.weight.d <=> openWeight(day.counts) > 0

LEMMA PayloadWeighs == ASSUME NEW v \in Views, NEW d \in Days PROVE WeighsItsWork(v, fromPayload(Payload[v][d]))
<1> DEFINE day == Payload[v][d]
           o == openWeight(day.counts)
           i == informative(day.counts)
           n == day.weight.n
           m == day.weight.d
<1>1. /\ day.counts \in [ToSet(kindsOf(v)) -> Nat] /\ n \in Nat /\ m \in Nat \ {0}
      /\ n >= (o + i) * m /\ (o = 0 => n = (o + i) * m)
  BY PayloadAssumption, Zenon
<1>2. o \in Nat /\ i \in Nat
  BY <1>1, OpenKindsWeigh, InformingKindsWeigh
<1>3. fromPayload(day).counts = day.counts /\ fromPayload(day).weight = day.weight
  BY DEF fromPayload
<1>4. n >= i * m /\ (n > i * m <=> o > 0)
  <2> HIDE DEF o, i, n, m
  <2>1. (o + i) * m = o * m + i * m /\ o * m \in Nat /\ i * m \in Nat
    BY <1>1, <1>2
  <2>2. o > 0 => o * m > 0
    BY <1>1, <1>2
  <2>3. o = 0 => o * m = 0
    BY <1>1, <1>2
  <2> QED BY <1>1, <1>2, <2>1, <2>2, <2>3
<1> QED BY <1>1, <1>3, <1>4 DEF WeighsItsWork

\* The open part of such a day is positive exactly when it has open work.
LEMMA OpenPartIsTheWork ==
    ASSUME NEW v \in Views, NEW day, WeighsItsWork(v, day)
    PROVE  /\ OpenPart(day).n \in Nat /\ OpenPart(day).d \in Nat \ {0}
           /\ OpenPart(day).n > 0 <=> openWeight(day.counts) > 0
<1> DEFINE i == informative(day.counts)
           n == day.weight.n
           m == day.weight.d
           o == OpenPart(day)
           p == Plus(day.weight, -i)
<1>1. i \in Nat /\ n \in Nat /\ m \in Nat \ {0} /\ n >= i * m /\ (n > i * m <=> openWeight(day.counts) > 0)
  BY InformingKindsWeigh DEF WeighsItsWork
<1>2. p.n = n + (-i) * m /\ p.d = m
  BY DEF Plus
<1>3. p.n \in Nat /\ p.d \in Nat \ {0} /\ (p.n > 0 <=> openWeight(day.counts) > 0)
  <2>1. (-i) * m = -(i * m) /\ i * m \in Nat
    BY <1>1
  <2> HIDE DEF i, n, m, p
  <2> QED BY <1>1, <1>2, <2>1
<1>4. OpenPart(day) = p
  <2>1. ~(p.n < 0)
    BY <1>3
  <2> QED BY <2>1, Zenon DEF OpenPart
<1> HIDE DEF p
<1> QED BY <1>3, <1>4

\* Items that settle a day weigh it by what they leave open.
LEMMA SettlingWeighs ==
    ASSUME NEW v \in Views, NEW before, NEW counts, WeighsItsWork(v, before), counts \in [ToSet(kindsOf(v)) -> Nat]
    PROVE  WeighsItsWork(v, settle(before, counts))
<1> DEFINE ob == OpenPart(before)
           minbefore == openWeight(before.counts)
           minafter == openWeight(counts)
           oa == IF minbefore > 0 THEN [n |-> ob.n * minafter, d |-> ob.d * minbefore] ELSE Units(minafter)
           i == informative(counts)
           day == settle(before, counts)
<1>1. minbefore \in Nat /\ minafter \in Nat /\ i \in Nat
  BY OpenKindsWeigh, InformingKindsWeigh DEF WeighsItsWork
<1>2. ob.n \in Nat /\ ob.d \in Nat \ {0} /\ (ob.n > 0 <=> minbefore > 0)
  BY OpenPartIsTheWork
<1>3. oa.n \in Nat /\ oa.d \in Nat \ {0} /\ (oa.n > 0 <=> minafter > 0)
  <2>1. \A a, b \in Nat : a * b \in Nat /\ (a * b > 0 <=> a > 0 /\ b > 0)
    OBVIOUS
  <2>2. CASE minbefore > 0
    <3>1. oa.n = ob.n * minafter /\ oa.d = ob.d * minbefore
      BY <2>2
    <3> HIDE DEF oa, ob, minafter, minbefore
    <3> QED BY <1>1, <1>2, <2>1, <2>2, <3>1
  <2>3. CASE ~(minbefore > 0)
    <3>1. oa.n = minafter /\ oa.d = 1
      BY <2>3 DEF Units
    <3> HIDE DEF oa, minafter
    <3> QED BY <1>1, <3>1
  <2> QED BY <2>2, <2>3
<1>4. day.counts = counts /\ day.weight = Plus(oa, i)
  BY Zenon DEF settle
<1> HIDE DEF oa, ob, minbefore, minafter, i, day
<1>5. day.weight.n = oa.n + i * oa.d /\ day.weight.d = oa.d
  BY <1>4 DEF Plus
<1>6. i * oa.d \in Nat
  BY <1>1, <1>3
<1>7. day.weight.n \in Nat /\ day.weight.d \in Nat \ {0} /\ day.weight.n >= i * day.weight.d
      /\ (day.weight.n > i * day.weight.d <=> minafter > 0)
  BY <1>1, <1>3, <1>5, <1>6
<1> QED BY <1>4, <1>7 DEF WeighsItsWork, i, minafter, day

LEMMA CountedDaysWeigh == ASSUME NEW v \in Views, NEW d \in Days PROVE WeighsItsWork(v, counted(v, d))
<1>1. WeighsItsWork(v, fromPayload(Payload[v][d]))
  BY PayloadWeighs
<1>2. WeighsItsWork(v, settle(fromPayload(Payload[v][d]), DayItems[v][d].counts))
  BY <1>1, SettlingWeighs, DayItemsAssumption
<1> QED BY <1>1, <1>2, Zenon DEF counted

\* What the filter shows of a day to do, and its score: both or neither.
Work(counts, view_, filter) == CountOfKinds(counts, shownKinds(view_, filter) \ {"done"})
IsFraction(value) == value.n \in Nat /\ value.d \in Nat \ {0}

LEMMA ScoresFindTheWork ==
    ASSUME NEW v \in Views, NEW filter \in Filters, NEW relevance \in BOOLEAN, NEW day, WeighsItsWork(v, day)
    PROVE  /\ IsFraction(score(day, v, filter, relevance)) /\ Work(day.counts, v, filter) \in Nat
           /\ score(day, v, filter, relevance).n > 0 <=> Work(day.counts, v, filter) > 0
<1> DEFINE shown == shownKinds(v, filter)
           work == Work(day.counts, v, filter)
           s == score(day, v, filter, relevance)
           all == ToSet(kindsOf(v))
<1>1. day.counts \in [all -> Nat] /\ DOMAIN day.counts = all
  BY DEF WeighsItsWork
<1>2. \A kinds : CountOfKinds(day.counts, kinds) \in Nat /\ (CountOfKinds(day.counts, kinds) > 0 <=> Some(day.counts, kinds))
  BY <1>1, CountingFindsSome
<1>3. work \in Nat /\ (work > 0 <=> Some(day.counts, shown \ {"done"}))
  BY <1>2 DEF Work
<1>4. CASE ~relevance
  <2>1. s = Units(work)
    BY <1>4, Zenon DEF score, Work
  <2>2. s.n = work /\ s.d = 1
    BY <2>1 DEF Units
  <2> HIDE DEF s, work
  <2> QED BY <1>3, <2>2 DEF IsFraction, s, work
<1>5. CASE relevance /\ filter = "events"
  <2>1. s = Units(CountOfKinds(day.counts, {"event"})) /\ shown = {"event"}
    BY <1>5 DEF score, shownKinds
  <2>2. shown \ {"done"} = {"event"}
    BY <2>1
  <2>3. s.n = work /\ s.d = 1
    BY <2>1, <2>2 DEF Units, Work
  <2> HIDE DEF s, work
  <2> QED BY <1>3, <2>3 DEF IsFraction, s, work
<1>6. CASE relevance /\ filter = "todo"
  <2>1. s = OpenPart(day) /\ shown = all \ {"event", "class"}
    BY <1>6 DEF score, shownKinds
  <2>2. IsFraction(s) /\ (s.n > 0 <=> openWeight(day.counts) > 0)
    BY <2>1, OpenPartIsTheWork DEF IsFraction
  <2>3. openWeight(day.counts) > 0 <=> Some(day.counts, all \ {"event", "class", "done"})
    BY <1>1, OpenKindsWeigh
  <2>4. shown \ {"done"} = all \ {"event", "class", "done"}
    BY <2>1
  <2> HIDE DEF s, work, shown
  <2> QED BY <1>3, <2>2, <2>3, <2>4 DEF s, work
<1>7. CASE relevance /\ filter = "all"
  <2>1. s = day.weight /\ shown = all
    BY <1>7 DEF score, shownKinds
  <2> DEFINE i == informative(day.counts)
  <2>2. openWeight(day.counts) > 0 <=> Some(day.counts, all \ {"event", "class", "done"})
    BY <1>1, OpenKindsWeigh
  <2>3. i \in Nat /\ (i > 0 <=> Some(day.counts, {"event", "class"}))
    BY <1>1, InformingKindsWeigh
  <2>4. IsFraction(s) /\ s.n >= i * s.d /\ (s.n > i * s.d <=> openWeight(day.counts) > 0)
    BY <2>1 DEF WeighsItsWork, IsFraction
  <2> HIDE DEF i, s
  <2>5. s.n > 0 <=> openWeight(day.counts) > 0 \/ i > 0
    <3>1. i * s.d \in Nat /\ (i * s.d > 0 <=> i > 0)
      BY <2>3, <2>4 DEF IsFraction
    <3> QED BY <2>4, <3>1 DEF IsFraction
  <2>6. Some(day.counts, all \ {"done"}) <=>
            Some(day.counts, all \ {"event", "class", "done"}) \/ Some(day.counts, {"event", "class"})
    BY <1>1 DEF Some
  <2> HIDE DEF work, shown
  <2> QED BY <1>3, <2>1, <2>2, <2>3, <2>4, <2>5, <2>6 DEF s, work
<1> QED BY <1>4, <1>5, <1>6, <1>7 DEF Filters
\* No more is an order of fractions.
LEMMA NoMoreIsTransitive ==
    ASSUME NEW u, NEW v, NEW w, IsFraction(u), IsFraction(v), IsFraction(w), ~Exceeds(u, v), ~Exceeds(v, w)
    PROVE  ~Exceeds(u, w)
<1> DEFINE a == u.n * v.d
           b == v.n * u.d
           c == v.n * w.d
           e == w.n * v.d
<1>1. a \in Nat /\ b \in Nat /\ c \in Nat /\ e \in Nat /\ a <= b /\ c <= e
  BY DEF IsFraction, Exceeds
<1>2. u.n \in Nat /\ u.d \in Nat \ {0} /\ v.n \in Nat /\ v.d \in Nat \ {0} /\ w.n \in Nat /\ w.d \in Nat \ {0}
  BY DEF IsFraction
<1>3. a * w.d <= b * w.d /\ c * u.d <= e * u.d
  <2>1. \A x, y, z \in Nat : x <= y => x * z <= y * z
    OBVIOUS
  <2> HIDE DEF a, b, c, e
  <2> QED BY <1>1, <1>2, <2>1
<1>4. b * w.d = c * u.d /\ a * w.d = (u.n * w.d) * v.d /\ e * u.d = (w.n * u.d) * v.d
  BY <1>2
<1> DEFINE x == u.n * w.d
           y == w.n * u.d
<1>5. x \in Nat /\ y \in Nat
  BY <1>2
<1>6. x * v.d <= y * v.d
  <2>1. a * w.d \in Nat /\ b * w.d \in Nat /\ e * u.d \in Nat
    BY <1>1, <1>2
  <2> HIDE DEF a, b, c, e, x, y
  <2> QED BY <1>3, <1>4, <2>1 DEF x, y
<1>7. x <= y
  <2>1. \A m, n \in Nat : \A z \in Nat \ {0} : m * z <= n * z => m <= n
    OBVIOUS
  <2> HIDE DEF x, y
  <2> QED BY <1>2, <1>5, <1>6, <2>1
<1> QED BY <1>5, <1>7 DEF Exceeds

\* Of finitely many fractions one is exceeded by none.
LEMMA SomeIsGreatest ==
    ASSUME NEW U, NEW scores, IsFiniteSet(U), U # {}, \A d \in U : IsFraction(scores[d])
    PROVE  \E m \in U : \A d \in U : ~Exceeds(scores[d], scores[m])
<1> DEFINE P == {S \in SUBSET U : S = {} \/ \E m \in S : \A d \in S : ~Exceeds(scores[d], scores[m])}
<1>1. {} \in P
  OBVIOUS
<1>2. ASSUME NEW S \in SUBSET U, NEW x \in U \ S, S \in P PROVE S \cup {x} \in P
  <2>1. ~Exceeds(scores[x], scores[x])
    BY DEF Exceeds, IsFraction
  <2>2. CASE S = {}
    BY <2>1, <2>2
  <2>3. CASE S # {}
    <3>1. PICK m \in S : \A d \in S : ~Exceeds(scores[d], scores[m])
      BY <1>2, <2>3
    <3>2. CASE ~Exceeds(scores[x], scores[m])
      BY <3>1, <3>2
    <3>3. CASE Exceeds(scores[x], scores[m])
      <4>1. ~Exceeds(scores[m], scores[x])
        BY <3>3 DEF Exceeds, IsFraction
      <4>2. \A d \in S : ~Exceeds(scores[d], scores[x])
        BY <3>1, <4>1, NoMoreIsTransitive
      <4> QED BY <2>1, <4>2
    <3> QED BY <3>2, <3>3
  <2> QED BY <2>2, <2>3
<1> HIDE DEF P
<1>3. U \in P
  BY <1>1, <1>2, SetInduction
<1> QED BY <1>3 DEF P

\* The needle is a day ahead that scores, when one does.
LEMMA NeedleScores ==
    ASSUME NEW scores, \A d \in Ahead : IsFraction(scores[d])
    PROVE  LET needle == needleOf(scores)
           IN IF needle = None THEN \A d \in Ahead : scores[d].n = 0 ELSE needle \in Ahead /\ scores[needle].n > 0
<1> DEFINE best == {d \in Ahead : scores[d].n > 0 /\ \A e \in Ahead : ~Exceeds(scores[e], scores[d])}
<1>1. Ahead \subseteq Days /\ IsFiniteSet(Ahead) /\ Ahead # {} /\ None \notin Days
  <2>1. Ahead \subseteq Days /\ TODAY \in Ahead
    BY WindowAssumption DEF Ahead, Days
  <2> QED BY <2>1, DaysAreFinite, DaysAreDays
<1>2. needleOf(scores) = IF best = {} THEN None ELSE Min(best)
  BY DEF needleOf, Ahead
<1>3. best # {} => Min(best) \in best
  <2>1. best \subseteq Days
    BY <1>1
  <2> HIDE DEF best
  <2> QED BY <2>1, LeastOfDays
<1>4. CASE best = {}
  <2>1. PICK m \in Ahead : \A d \in Ahead : ~Exceeds(scores[d], scores[m])
    BY <1>1, SomeIsGreatest
  <2>2. ~(scores[m].n > 0)
    BY <1>4, <2>1
  <2>3. ASSUME NEW d \in Ahead PROVE scores[d].n = 0
    <3>1. IsFraction(scores[d]) /\ IsFraction(scores[m]) /\ ~Exceeds(scores[d], scores[m])
      BY <2>1
    <3> DEFINE n == scores[d].n
               k == scores[m].d
    <3>2. scores[m].n = 0 /\ n \in Nat /\ k \in Nat \ {0} /\ ~(n * k > scores[m].n * scores[d].d)
      BY <2>2, <3>1 DEF IsFraction, Exceeds
    <3>3. ~(n * k > 0)
      BY <3>1, <3>2 DEF IsFraction
    <3> HIDE DEF n, k
    <3>4. n = 0
      BY <3>2, <3>3
    <3> QED BY <3>4 DEF n
  <2> HIDE DEF best
  <2> QED BY <1>2, <1>4, <2>3
<1>5. CASE best # {}
  <2>1. needleOf(scores) \in best
    BY <1>2, <1>3, <1>5
  <2>2. needleOf(scores) \in Ahead /\ scores[needleOf(scores)].n > 0
    BY <2>1
  <2> QED BY <1>1, <2>2
<1> QED BY <1>4, <1>5

\* A day that scores has a tint.
LEMMA ScoresAreTinted == ASSUME NEW value, NEW relevance \in BOOLEAN, IsFraction(value), value.n > 0 PROVE step(value, relevance) > 0
<1>1. CASE relevance
  <2> DEFINE T == {t \in {4, 8, 16} : value.n >= t * value.d}
  <2>1. Cardinality(T) \in Nat
    <3>1. T \subseteq 4 .. 16
      OBVIOUS
    <3>2. IsFiniteSet(4 .. 16)
      <4>1. \A a, b \in Int : IsFiniteSet(a .. b)
        BY FS_Interval
      <4>2. 4 \in Int /\ 16 \in Int
        OBVIOUS
      <4> QED BY <4>1, <4>2, Zenon
    <3> HIDE DEF T
    <3> QED BY <3>1, <3>2, FS_Subset, FS_CardinalityType
  <2>2. step(value, relevance) = 1 + Cardinality(T)
    <3>1. ~(value.n <= 0)
      BY DEF IsFraction
    <3> QED BY <1>1, <3>1, Zenon DEF step
  <2> HIDE DEF T
  <2> QED BY <2>1, <2>2
<1>2. CASE ~relevance
  <2> DEFINE n == value.n
  <2>1. n \in Nat /\ n > 0 /\ ~(n <= 0)
    BY DEF IsFraction
  <2>2. step(value, relevance) = Min({4, n})
    BY <1>2, <2>1, Zenon DEF step
  <2> HIDE DEF n
  <2>3. \E m \in {4, n} : \A k \in {4, n} : m <= k
    BY <2>1
  <2>4. Min({4, n}) \in {4, n}
    BY <2>3 DEF Min
  <2> QED BY <2>1, <2>2, <2>4
<1> QED BY <1>1, <1>2
\* The marks' groups: every kind but what is done is in one before the group of what is done.
GroupOf(v, i) == MARK_PRIORITY[v][i]
LastGroup(v) == IF v = "learning" THEN 5 ELSE 3

LEMMA GroupsAre ==
    ASSUME NEW v \in Views
    PROVE  /\ DOMAIN MARK_PRIORITY[v] = 1 .. LastGroup(v)
           /\ \A i \in 1 .. LastGroup(v) : DOMAIN GroupOf(v, i) \subseteq 1 .. 2
           /\ \A i \in 1 .. LastGroup(v) : \A j \in DOMAIN GroupOf(v, i) : GroupOf(v, i)[j] = "done" => i = 5
           /\ \A k \in ToSet(kindsOf(v)) \ {"done"} :
                  \E i \in 1 .. LastGroup(v) : i # 5 /\ \E j \in DOMAIN GroupOf(v, i) : GroupOf(v, i)[j] = k
<1>1. CASE v = "learning"
  <2>1. MARK_PRIORITY[v] = << <<"gradedsoon", "graded">>, <<"late">>, <<"todo">>, <<"event">>, <<"done">> >>
    BY <1>1 DEF MARK_PRIORITY
  <2>2. LastGroup(v) = 5 /\ 1 .. 5 = {1, 2, 3, 4, 5}
    BY <1>1 DEF LastGroup
  <2>3. /\ GroupOf(v, 1) = <<"gradedsoon", "graded">> /\ GroupOf(v, 2) = <<"late">> /\ GroupOf(v, 3) = <<"todo">>
        /\ GroupOf(v, 4) = <<"event">> /\ GroupOf(v, 5) = <<"done">>
    BY <2>1 DEF GroupOf
  <2>4. DOMAIN MARK_PRIORITY[v] = 1 .. 5
    BY <2>1
  <2>5. \A i \in 1 .. 5 : DOMAIN GroupOf(v, i) \subseteq 1 .. 2
    BY <2>2, <2>3
  <2>6. \A i \in 1 .. 5 : \A j \in DOMAIN GroupOf(v, i) : GroupOf(v, i)[j] = "done" => i = 5
    <3>1. \A i \in {1, 2, 3, 4} : \A j \in DOMAIN GroupOf(v, i) : GroupOf(v, i)[j] # "done"
      BY <2>3
    <3> QED BY <2>2, <3>1
  <2>7. \A k \in ToSet(kindsOf(v)) \ {"done"} : \E i \in 1 .. 5 : i # 5 /\ \E j \in DOMAIN GroupOf(v, i) : GroupOf(v, i)[j] = k
    <3>1. GroupOf(v, 1)[1] = "gradedsoon" /\ GroupOf(v, 1)[2] = "graded" /\ 1 \in DOMAIN GroupOf(v, 1) /\ 2 \in DOMAIN GroupOf(v, 1)
      BY <2>3
    <3>2. /\ GroupOf(v, 2)[1] = "late" /\ 1 \in DOMAIN GroupOf(v, 2) /\ GroupOf(v, 3)[1] = "todo" /\ 1 \in DOMAIN GroupOf(v, 3)
          /\ GroupOf(v, 4)[1] = "event" /\ 1 \in DOMAIN GroupOf(v, 4)
      BY <2>3
    <3>3. ToSet(kindsOf(v)) \ {"done"} = {"gradedsoon", "graded", "todo", "late", "event"}
      BY <1>1, KindsAre
    <3> QED BY <2>2, <3>1, <3>2, <3>3
  <2> QED BY <2>2, <2>4, <2>5, <2>6, <2>7
<1>2. CASE v = "teaching"
  <2>1. MARK_PRIORITY[v] = << <<"gradesoon", "grade">>, <<"class">>, <<"event">> >>
    BY <1>2 DEF MARK_PRIORITY
  <2>2. LastGroup(v) = 3 /\ 1 .. 3 = {1, 2, 3}
    BY <1>2 DEF LastGroup
  <2>3. GroupOf(v, 1) = <<"gradesoon", "grade">> /\ GroupOf(v, 2) = <<"class">> /\ GroupOf(v, 3) = <<"event">>
    BY <2>1 DEF GroupOf
  <2>4. DOMAIN MARK_PRIORITY[v] = 1 .. 3
    BY <2>1
  <2>5. \A i \in 1 .. 3 : DOMAIN GroupOf(v, i) \subseteq 1 .. 2
    BY <2>2, <2>3
  <2>6. \A i \in 1 .. 3 : \A j \in DOMAIN GroupOf(v, i) : GroupOf(v, i)[j] # "done"
    BY <2>2, <2>3
  <2>7. \A k \in ToSet(kindsOf(v)) : \E i \in 1 .. 3 : \E j \in DOMAIN GroupOf(v, i) : GroupOf(v, i)[j] = k
    <3>1. GroupOf(v, 1)[1] = "gradesoon" /\ GroupOf(v, 1)[2] = "grade" /\ 1 \in DOMAIN GroupOf(v, 1) /\ 2 \in DOMAIN GroupOf(v, 1)
      BY <2>3
    <3>2. GroupOf(v, 2)[1] = "class" /\ 1 \in DOMAIN GroupOf(v, 2) /\ GroupOf(v, 3)[1] = "event" /\ 1 \in DOMAIN GroupOf(v, 3)
      BY <2>3
    <3>3. ToSet(kindsOf(v)) = {"gradesoon", "grade", "class", "event"}
      BY <1>2, KindsAre
    <3> QED BY <2>2, <3>1, <3>2, <3>3
  <2> QED BY <2>2, <2>4, <2>5, <2>6, <2>7
<1> QED BY <1>1, <1>2 DEF Views

\* The first mark of a day with work shown is of that work.
LEMMA FirstMarkIsWork ==
    ASSUME NEW v \in Views, NEW kinds \in SUBSET ToSet(kindsOf(v)), NEW counts \in [ToSet(kindsOf(v)) -> Nat],
           Some(counts, kinds \ {"done"})
    PROVE  Head(marks(counts, kinds, v).kinds) \in kinds \ {"done"}
<1> DEFINE groups == MARK_PRIORITY[v]
           last == LastGroup(v)
           present(i) == {j \in DOMAIN groups[i] : groups[i][j] \in kinds /\ counts[groups[i][j]] > 0}
           drawn == {i \in DOMAIN groups : present(i) # {}}
           nth(n) == CHOOSE i \in drawn : Cardinality({h \in drawn : h < i}) = n - 1
           fit == IF Cardinality(drawn) <= MARK_SLOTS THEN Cardinality(drawn) ELSE MARK_SLOTS - 1
           list == [n \in 1 .. fit |-> groups[nth(n)][Min(present(nth(n)))]]
<1>1. marks(counts, kinds, v).kinds = list
  BY Zenon DEF marks
<1>2. /\ DOMAIN groups = 1 .. last /\ last \in Nat
      /\ \A i \in 1 .. last : DOMAIN groups[i] \subseteq 1 .. 2
      /\ \A i \in 1 .. last : \A j \in DOMAIN groups[i] : groups[i][j] = "done" => i = 5
      /\ \A k \in ToSet(kindsOf(v)) \ {"done"} : \E i \in 1 .. last : i # 5 /\ \E j \in DOMAIN groups[i] : groups[i][j] = k
  <2>1. \A i : GroupOf(v, i) = groups[i]
    BY DEF GroupOf
  <2>2. last \in Nat /\ last <= 5
    BY DEF LastGroup
  <2> HIDE DEF groups, last
  <2> QED BY GroupsAre, <2>1, <2>2 DEF groups, last
<1>3. last <= 5
  BY DEF LastGroup
<1>4. PICK i \in drawn : i # 5
  <2>1. PICK k \in kinds \ {"done"} : counts[k] > 0
    BY DEF Some
  <2>2. PICK i \in 1 .. last : i # 5 /\ \E j \in DOMAIN groups[i] : groups[i][j] = k
    BY <1>2, <2>1
  <2> HIDE DEF groups, last
  <2>3. present(i) # {}
    BY <2>1, <2>2
  <2> QED BY <1>2, <2>2, <2>3
<1>5. drawn \subseteq 1 .. last
  <2> HIDE DEF present, groups, last
  <2> QED BY <1>2
<1>6. IsFiniteSet(drawn) /\ Cardinality(drawn) \in Nat \ {0}
  <2> HIDE DEF drawn, last
  <2>1. IsFiniteSet(1 .. last)
    BY <1>2, FS_Interval
  <2>2. IsFiniteSet(drawn)
    BY <1>5, <2>1, FS_Subset
  <2> QED BY <1>4, <2>2, FS_CardinalityType, FS_EmptySet
<1>7. 1 \in 1 .. fit
  <2> HIDE DEF drawn
  <2> QED BY <1>6 DEF MARK_SLOTS
<1>8. PICK f \in drawn : \A h \in drawn : f <= h
  <2> HIDE DEF drawn, last
  <2>1. drawn \subseteq Nat /\ drawn # {}
    BY <1>2, <1>4, <1>5
  <2> QED BY <2>1, LeastNatural
<1>9. nth(1) = f
  <2>1. ASSUME NEW g \in drawn PROVE Cardinality({h \in drawn : h < g}) = 0 <=> g = f
    <3> DEFINE below == {h \in drawn : h < g}
    <3> HIDE DEF drawn, last
    <3>1. IsFiniteSet(below) /\ (Cardinality(below) = 0 <=> below = {})
      BY <1>6, FS_Subset, FS_EmptySet
    <3>2. f \in Nat /\ g \in Nat /\ f <= g /\ \A h \in drawn : h \in Nat /\ f <= h
      BY <1>2, <1>5, <1>8
    <3>3. g = f => below = {}
      <4>1. \A h \in drawn : ~(h < f)
        BY <3>2
      <4> QED BY <4>1
    <3>4. g # f => f \in below
      BY <1>8, <3>2
    <3> HIDE DEF below
    <3>5. below = {} <=> g = f
      BY <3>3, <3>4
    <3> QED BY <3>1, <3>5 DEF below
  <2> HIDE DEF drawn
  <2> QED BY <1>8, <2>1
<1>10. f \in 1 .. last /\ f # 5
  <2> HIDE DEF drawn, last
  <2>1. f \in 1 .. last /\ i \in 1 .. last /\ f <= i
    BY <1>4, <1>5, <1>8
  <2> QED BY <1>2, <1>3, <1>4, <2>1
<1>11. Min(present(f)) \in present(f)
  <2>1. present(f) # {} /\ present(f) \subseteq DOMAIN groups[f]
    <3> HIDE DEF groups
    <3> QED BY <1>8
  <2> HIDE DEF present, groups, last
  <2>2. present(f) \subseteq Nat
    BY <1>2, <1>10, <2>1
  <2>3. \E x \in present(f) : \A y \in present(f) : x <= y
    BY <2>1, <2>2, LeastNatural
  <2> QED BY <2>3 DEF Min
<1>12. groups[f][Min(present(f))] \in kinds \ {"done"}
  <2> HIDE DEF groups, last
  <2> QED BY <1>2, <1>10, <1>11
<1>13. list[1] = groups[f][Min(present(f))]
  <2> HIDE DEF fit, groups
  <2>1. list[1] = groups[nth(1)][Min(present(nth(1)))]
    BY <1>7
  <2> HIDE DEF nth, present, list
  <2> QED BY <1>9, <2>1
<1> HIDE DEF list, present, groups
<1> QED BY <1>1, <1>12, <1>13

\* Whatever days' answers have come, the needle stands on a day of work that the filter shows, tinted and marked for it
\* first; and on none only when no day ahead holds any (CalendarStrip.tsx, needleOf; calendar.ts, settle, score, marks).
THEOREM TheNeedlePointsAtWork == StripSpec => []NeedlePointsAtWork
<1>1. ASSUME view \in Views PROVE NeedlePointsAtWork
  <2> DEFINE counts == [d \in Ahead |-> counted(view, d)]
  <2>1. \A d \in Ahead : WeighsItsWork(view, counts[d]) /\ counts[d] = counted(view, d)
    <3>1. Ahead \subseteq Days
      BY WindowAssumption DEF Ahead, Days
    <3> QED BY <1>1, <3>1, CountedDaysWeigh
  <2> HIDE DEF counts
  <2>2. ASSUME NEW filter \in Filters, NEW relevance \in BOOLEAN
        PROVE  LET kinds == shownKinds(view, filter)
                   work == [d \in Ahead |-> CountOfKinds(counts[d].counts, kinds \ {"done"})]
                   scores == [d \in Ahead |-> score(counts[d], view, filter, relevance)]
                   needle == needleOf(scores)
               IN IF needle = None THEN \A d \in Ahead : work[d] = 0
                  ELSE /\ work[needle] > 0 /\ step(scores[needle], relevance) > 0
                       /\ Head(marks(counts[needle].counts, kinds, view).kinds) \in kinds \ {"done"}
    <3> DEFINE kinds == shownKinds(view, filter)
               work == [d \in Ahead |-> CountOfKinds(counts[d].counts, kinds \ {"done"})]
               scores == [d \in Ahead |-> score(counts[d], view, filter, relevance)]
               needle == needleOf(scores)
    <3>1. \A d \in Ahead : IsFraction(scores[d]) /\ work[d] \in Nat /\ (scores[d].n > 0 <=> work[d] > 0)
      BY <1>1, <2>1, ScoresFindTheWork DEF Work
    <3> HIDE DEF scores
    <3>2. IF needle = None THEN \A d \in Ahead : scores[d].n = 0 ELSE needle \in Ahead /\ scores[needle].n > 0
      BY <3>1, NeedleScores
    <3> HIDE DEF needle, work
    <3>3. CASE needle = None
      <4>1. \A d \in Ahead : work[d] = 0
        BY <3>1, <3>2, <3>3
      <4> QED BY <3>3, <4>1 DEF scores, work, needle
    <3>4. CASE needle # None
      <4>1. needle \in Ahead /\ scores[needle].n > 0 /\ IsFraction(scores[needle]) /\ work[needle] > 0
        BY <3>1, <3>2, <3>4
      <4>2. step(scores[needle], relevance) > 0
        BY <4>1, ScoresAreTinted
      <4>3. counts[needle].counts \in [ToSet(kindsOf(view)) -> Nat]
        BY <2>1, <4>1 DEF WeighsItsWork
      <4>4. kinds \subseteq ToSet(kindsOf(view))
        BY <1>1, KindsAre DEF shownKinds, Filters, Views
      <4>5. Some(counts[needle].counts, kinds \ {"done"})
        <5>1. work[needle] = CountOfKinds(counts[needle].counts, kinds \ {"done"})
          BY <4>1 DEF work
        <5> HIDE DEF kinds
        <5> QED BY <1>1, <4>1, <4>3, <5>1, CountingFindsSome
      <4>6. Head(marks(counts[needle].counts, kinds, view).kinds) \in kinds \ {"done"}
        <5> HIDE DEF kinds
        <5> QED BY <1>1, <4>3, <4>4, <4>5, FirstMarkIsWork
      <4> QED BY <3>4, <4>1, <4>2, <4>6 DEF scores, work, needle
    <3> QED BY <3>3, <3>4
  <2> QED BY <2>2, Zenon DEF NeedlePointsAtWork, counts
<1>2. RowInv => NeedlePointsAtWork
  BY <1>1 DEF RowInv
<1> QED BY <1>2, RowIsKept, PTL DEF StripSpec
=============================================================================

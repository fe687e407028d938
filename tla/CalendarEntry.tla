--------------------------- MODULE CalendarEntry ---------------------------
(***************************************************************************)
(* The calendar entry of one user: the cache entry of                      *)
(* classes/local/calendar_cache.php, the four services that read it, build *)
(* it, complete it, add an opened day to it and prune its gate lists       *)
(* (calendar/strip.php, day.php, soon.php), and the observer that drops it *)
(* (observer.php, access_changed).                                         *)
(*                                                                         *)
(* The requests of one user run at once (two tabs, two sign-ins, services  *)
(* with a read-only session), every database statement is a step, and so   *)
(* is every write of the whole entry.  What decides the sets is three      *)
(* facts, each a version that a change increments: the enrolments, which   *)
(* the inventory stamp tells, the groups, and the roles, which only the    *)
(* observer tells.  One view is modelled, the learning one.                *)
(***************************************************************************)
EXTENDS Integers, FiniteSets, Sequences

CONSTANTS
    Requests,
    Kinds,      \* the services asked: get_strip, get_strip_counts, get_day, get_soon
    Dates,      \* the days a request may open
    Sessions,   \* sign-in marker, timezone, language and grading source
    Items,      \* calendar items
    Due,        \* the deadline of each item
    Horizon,    \* config::calendar_soon()
    UpcomingLimit, \* strip::UPCOMING_LIMIT
    DayLength,  \* seconds in a day
    TTL,        \* calendar_cache::TTL
    MaxClock,   \* bound: seconds that pass
    MaxChanges, \* bound: changes of the facts
    Answers     \* bound: whether an answer may be cut short (strip::FUTURE_LIMIT)

ASSUME KindsAssumption == Kinds \subseteq {"get_strip", "get_strip_counts", "get_day", "get_soon"}
ASSUME DueAssumption == Due \in [Items -> Nat]
ASSUME TimesAssumption == {DayLength, TTL, UpcomingLimit} \subseteq Nat \ {0} /\ Horizon \in Nat

VARIABLES
    db,        \* [enrol, groups, role: versions; done: items submitted or completed; completed]
    clock,
    cache,     \* {} or {entry}
    writer,    \* {} or {the change under way}
    pc, hand,  \* each request
    changes,   \* how many changes there have been
    submitted  \* items that were ever done (history)

site == <<db, clock, writer, changes, submitted>>
vars == <<db, clock, cache, writer, pc, hand, changes, submitted>>

Day(t) == t \div DayLength
MaxOf2(a, b) == IF a > b THEN a ELSE b

(***************************************************************************)
(* The pure parts                                                          *)
(***************************************************************************)

IsFresh(e, now, session) ==
    e.session = session /\ e.firstday = Day(now) /\ now - e.built < TTL

\* A variant the runs reject: the groups are not compared.
SameByStamp(e, stamp, groups) == e.stamp = stamp

\* What revalidated() compares before a new day is built.
Same(e, stamp, groups) == e.stamp = stamp /\ e.sets.groups = groups

\* The counted statement's action rows start at the build instant.
Counted(now) == {i \in Items : Due[i] >= now}

\* A variant the runs reject: the past up to the instant of the completion.
PastToNow(built, now) == {i \in Items : Due[i] <= now - 1}

\* The past complete() adds to an entry built at built.
Past(built, now) == {i \in Items : Due[i] <= built - 1}

\* The past part of a build, a whole one's only.
Late(whole, now) == IF whole THEN Past(now, now) ELSE {}

\* The slice of a sorted list: the first UpcomingLimit distinct times.
FirstTimes(times) == {t \in times : Cardinality({u \in times : u < t}) < UpcomingLimit}

\* strip::upcoming(): the deadlines of today and tomorrow still to come.  The
\* statement knows a completion; a submission that completed nothing counts.
Upcoming(completed, now) ==
    FirstTimes({Due[i] : i \in {x \in Items \ completed : Due[x] >= now /\ Day(Due[x]) <= Day(now) + 1}})

\* soon::range(); the horizon ends before the strip's window does.
RangeEnd(now) == MaxOf2((Day(now) + 1) * DayLength - 1, now + Horizon)

OpenTimes(done, now) ==
    {Due[i] : i \in {x \in Items \ done : Due[x] >= now /\ Due[x] <= RangeEnd(now)}}

Pruned(upcoming, open, now) ==
    {t \in upcoming : t < now \/ t > RangeEnd(now) \/ t \in open}

\* A variant the runs reject: a cut answer prunes as a complete one does.
PruneAnyway(upcoming, open, now, complete) == Pruned(upcoming, open, now)

Prune(upcoming, open, now, complete) ==
    IF complete THEN Pruned(upcoming, open, now) ELSE upcoming

(***************************************************************************)
(* Requests                                                                *)
(***************************************************************************)

NoHand == [now |-> 0]

Init ==
    /\ db = [enrol |-> 0, groups |-> 0, role |-> 0, done |-> {}, completed |-> {}]
    /\ clock = 0
    /\ cache = {}
    /\ writer = {}
    /\ pc = [r \in Requests |-> "idle"]
    /\ hand = [r \in Requests |-> NoHand]
    /\ changes = 0
    /\ submitted = {}

Goto(r, from, to) == pc[r] = from /\ pc' = [pc EXCEPT ![r] = to]
Hold(r, h) == hand' = [hand EXCEPT ![r] = h]

\* A service is called, get_day with its date.
Open(r) ==
    /\ Goto(r, "idle", "lookup")
    /\ \E k \in Kinds, s \in Sessions, d \in Dates :
          /\ k = "get_soon" => Horizon > 0
          /\ Hold(r, [now |-> clock, kind |-> k, session |-> s,
                   date |-> IF k = "get_day" THEN d ELSE "none",
                   begun |-> [enrol |-> db.enrol, groups |-> db.groups]])
    /\ UNCHANGED <<site, cache>>

Fresh(r) == {e \in cache : IsFresh(e, hand[r].now, hand[r].session)}

\* Where a request goes once it has a fresh entry.
Onward(h, e) ==
    CASE h.kind = "get_strip" -> IF e.past THEN "answered" ELSE "complete"
      [] h.kind = "get_strip_counts" -> "answered"
      [] h.kind = "get_soon" -> "revalidate"
      [] h.kind = "get_day" ->
            IF \E d \in e.days : d.date = h.date THEN "answered" ELSE "revalidate"

With(h, e, again) ==
    [now |-> h.now, kind |-> h.kind, session |-> h.session, date |-> h.date,
     begun |-> h.begun, entry |-> e, again |-> again, stamp |-> 0]

\* strip::entry(), a hit.
Hit(r) ==
    /\ pc[r] = "lookup"
    /\ \E e \in Fresh(r) :
          /\ Goto(r, "lookup", Onward(hand[r], e))
          /\ Hold(r, With(hand[r], e, FALSE))
    /\ UNCHANGED <<site, cache>>

\* An entry under construction: the counts pass leaves out the past.  The
\* build starts with the inventory, whose courses and stamp are one read.
NewEntry(h, whole) ==
    [session |-> h.session, firstday |-> Day(h.now), built |-> h.now,
     stamp |-> db.enrol, sets |-> [enrol |-> db.enrol, groups |-> 0, role |-> 0],
     days |-> {}, past |-> whole, future |-> {}, late |-> {}, upcoming |-> {},
     crossed |-> writer # {}]

Miss(r) ==
    /\ Goto(r, "lookup", "sets")
    /\ Fresh(r) = {}
    /\ Hold(r, With(hand[r], NewEntry(hand[r], hand[r].kind = "get_strip"), FALSE))
    /\ UNCHANGED <<site, cache>>

\* The graded roles and the groups.
ReadSets(r) ==
    /\ Goto(r, "sets", "items")
    /\ hand' = [hand EXCEPT ![r].entry.sets.groups = db.groups,
                            ![r].entry.sets.role = db.role]
    /\ UNCHANGED <<site, cache>>

\* The counted statement and, for a whole strip, the past.
ReadItems(r) ==
    /\ Goto(r, "items", "store")
    /\ LET now == hand[r].now
       IN  hand' = [hand EXCEPT
                ![r].entry.future = Counted(now),
                ![r].entry.late = Late(hand[r].entry.past, now),
                ![r].entry.upcoming = Upcoming(db.completed, now)]
    /\ UNCHANGED <<site, cache>>

\* rebuild() stores the entry and its caller goes on with it.
Store(r) ==
    /\ Goto(r, "store", IF hand[r].again THEN "build" ELSE Onward(hand[r], hand[r].entry))
    /\ cache' = {hand[r].entry}
    /\ UNCHANGED <<site, hand>>

\* complete(): the past is added up to the instant the count started from.
Complete(r) ==
    /\ Goto(r, "complete", "storewhole")
    /\ hand' = [hand EXCEPT ![r].entry.late = Past(hand[r].entry.built, hand[r].now),
                            ![r].entry.past = TRUE]
    /\ UNCHANGED <<site, cache>>

StoreWhole(r) ==
    /\ Goto(r, "storewhole", "answered")
    /\ cache' = {hand[r].entry}
    /\ UNCHANGED <<site, hand>>

\* revalidated(): the current stamp, from inventory::get().
ReadStamp(r) ==
    /\ Goto(r, "revalidate", "groups")
    /\ hand' = [hand EXCEPT ![r].stamp = db.enrol]
    /\ UNCHANGED <<site, cache>>

\* groups() over the entry's courses; no difference keeps the entry.
Confirm(r) ==
    /\ Goto(r, "groups", "build")
    /\ Same(hand[r].entry, hand[r].stamp, db.groups)
    /\ UNCHANGED <<site, cache, hand>>

\* A difference rebuilds the entry, and whole.
Differ(r) ==
    /\ Goto(r, "groups", "sets")
    /\ ~Same(hand[r].entry, hand[r].stamp, db.groups)
    /\ Hold(r, With(hand[r], NewEntry(hand[r], TRUE), TRUE))
    /\ UNCHANGED <<site, cache>>

\* day::build() under the entry's sets.
BuildDay(r) ==
    /\ Goto(r, "build", "setday")
    /\ hand[r].kind = "get_day"
    /\ UNCHANGED <<site, cache, hand>>

NewDay(r) == [date |-> hand[r].date, sets |-> hand[r].entry.sets, session |-> hand[r].session]

WithDay(e, d) == [e EXCEPT !.days = {x \in @ : x.date # d.date} \cup {d}]

\* calendar_cache::set_day(): the entry the day was built from is written
\* back whole, over whatever the key holds by now.
SetDay(r) ==
    /\ Goto(r, "setday", "answered")
    /\ hand' = [hand EXCEPT ![r].entry = WithDay(@, NewDay(r))]
    /\ cache' = {WithDay(hand[r].entry, NewDay(r))}
    /\ UNCHANGED site

\* soon::get(): the open items of the range, or an answer FUTURE_LIMIT cut, and
\* the gate list pruned by them.  A cut answer prunes nothing.
AskSoon(r) ==
    /\ pc[r] = "build" /\ hand[r].kind = "get_soon"
    /\ \E whole \in Answers :
          LET open == IF whole THEN OpenTimes(db.done, hand[r].now) ELSE {}
              kept == Prune(hand[r].entry.upcoming, open, hand[r].now, whole)
          IN  /\ Goto(r, "build", IF kept = hand[r].entry.upcoming THEN "answered" ELSE "prune")
              /\ hand' = [hand EXCEPT ![r].entry.upcoming = kept]
    /\ UNCHANGED <<site, cache>>

StorePruned(r) ==
    /\ Goto(r, "prune", "answered")
    /\ cache' = {hand[r].entry}
    /\ UNCHANGED <<site, hand>>

Answer(r) ==
    /\ Goto(r, "answered", "idle")
    /\ Hold(r, NoHand)
    /\ UNCHANGED <<site, cache>>

Serve(r) ==
    \/ Open(r) \/ Hit(r) \/ Miss(r) \/ ReadSets(r) \/ ReadItems(r) \/ Store(r)
    \/ Complete(r) \/ StoreWhole(r) \/ ReadStamp(r) \/ Confirm(r) \/ Differ(r)
    \/ BuildDay(r) \/ SetDay(r) \/ AskSoon(r) \/ StorePruned(r) \/ Answer(r)

(***************************************************************************)
(* The core writers and the observer                                       *)
(***************************************************************************)

\* The facts a change moves.  Every one of them but the creation of an
\* enrolment raises an event that access_changed() observes.
Changes ==
    [fact : {"groups", "role", "enrol"}, observed : {TRUE}]
    \cup [fact : {"enrol"}, observed : {FALSE}]

\* A request that holds an entry while the access changes.
Mark ==
    hand' = [r \in Requests |->
        IF pc[r] \in {"idle", "lookup"} THEN hand[r]
        ELSE [hand[r] EXCEPT !.entry.crossed = TRUE]]

BeginChange ==
    /\ writer = {}
    /\ changes < MaxChanges
    /\ changes' = changes + 1
    /\ \E ch \in Changes :
          writer' = {[fact |-> ch.fact, committed |-> FALSE, observed |-> ~ch.observed]}
    /\ Mark
    /\ UNCHANGED <<db, clock, cache, pc, submitted>>

Finished(w, committed, observed) ==
    IF committed /\ observed THEN {}
    ELSE {[w EXCEPT !.committed = committed, !.observed = observed]}

Commit ==
    /\ \E w \in writer :
          /\ ~w.committed
          /\ db' = [db EXCEPT ![w.fact] = @ + 1]
          /\ writer' = Finished(w, TRUE, w.observed)
    /\ Mark
    /\ UNCHANGED <<clock, cache, pc, changes, submitted>>

\* A variant the runs reject: the entry is kept.
AccessChangedKeepsTheEntry ==
    /\ \E w \in writer :
          /\ ~w.observed
          /\ writer' = Finished(w, w.committed, TRUE)
    /\ Mark
    /\ UNCHANGED <<db, clock, cache, pc, changes, submitted>>

\* observer::access_changed().
AccessChanged ==
    /\ \E w \in writer :
          /\ ~w.observed
          /\ writer' = Finished(w, w.committed, TRUE)
    /\ cache' = {}
    /\ Mark
    /\ UNCHANGED <<db, clock, pc, changes, submitted>>

\* An item is submitted, its completion is recorded with the submission or
\* later, or the submission is reverted to draft: no event of the entry.
Submit(i) ==
    /\ i \notin db.done
    /\ db' = [db EXCEPT !.done = @ \cup {i}]
    /\ submitted' = submitted \cup {i}
    /\ UNCHANGED <<clock, cache, writer, pc, hand, changes>>

RecordCompletion(i) ==
    /\ i \notin db.completed
    /\ db' = [db EXCEPT !.done = @ \cup {i}, !.completed = @ \cup {i}]
    /\ submitted' = submitted \cup {i}
    /\ UNCHANGED <<clock, cache, writer, pc, hand, changes>>

Revert(i) ==
    /\ i \in db.done
    /\ db' = [db EXCEPT !.done = @ \ {i}, !.completed = @ \ {i}]
    /\ UNCHANGED <<clock, cache, writer, pc, hand, changes, submitted>>

Tick ==
    /\ clock < MaxClock
    /\ clock' = clock + 1
    /\ UNCHANGED <<db, cache, writer, pc, hand, changes, submitted>>

Next ==
    \/ \E r \in Requests : Serve(r)
    \/ BeginChange \/ Commit \/ AccessChanged
    \/ \E i \in Items : Submit(i) \/ RecordCompletion(i) \/ Revert(i)
    \/ Tick

Spec == Init /\ [][Next]_vars

(***************************************************************************)
(* Properties                                                              *)
(***************************************************************************)

\* A day that get_day builds, rather than reopens, comes from sets that hold
\* every enrolment and group change committed before the request began: who
\* left a course or a group is not shown its events on a newly opened day.
NewDayFromCurrentSets ==
    \A r \in Requests : pc[r] = "setday" =>
        /\ hand[r].entry.sets.enrol >= hand[r].begun.enrol
        /\ hand[r].entry.sets.groups >= hand[r].begun.groups

\* An entry no request carried across a change of the access tells the roles
\* and groups in force, without having been asked to compare them.
UncrossedEntryHoldsTheAccess ==
    writer = {} =>
        \A e \in cache : ~e.crossed => e.sets.role = db.role /\ e.sets.groups = db.groups

\* A whole strip counts every item once, in the past or in the future part,
\* also when the two parts were counted by two requests at two times.
WholeStripCountsOnce ==
    \A e \in cache : e.past => e.late \cap e.future = {} /\ e.late \cup e.future = Items

\* The times ahead of i's, from the build on, are enough to fill the list.
Crowded(built, i) ==
    Cardinality({Due[j] : j \in {x \in Items : built <= Due[x] /\ Due[x] < Due[i]}}) >= UpcomingLimit

\* The gate list opens Up next for every deadline of today and tomorrow that
\* is still ahead and was never submitted, whatever the pruning took out; save
\* one that UPCOMING_LIMIT other times came before when the entry was built
\* (docs/adr/016 accepts the cap: the gate then waits for the next rebuild).
GateKeepsWhatIsOpen ==
    \A e \in cache : \A i \in Items \ submitted :
        /\ Due[i] >= clock /\ Due[i] >= e.built /\ Day(Due[i]) <= Day(e.built) + 1
        /\ ~Crowded(e.built, i)
        => Due[i] \in e.upcoming
=============================================================================

----------------------------- MODULE Catalogue -----------------------------
(***************************************************************************)
(* The open catalogue: the one cache entry of the site                     *)
(* (classes/local/catalogue.php, catalogue_cache.php), the requests that   *)
(* look it up and build it, the observers that drop it (observer.php) and  *)
(* the core writers those observers listen to.                             *)
(*                                                                         *)
(* Every database statement of a build is a step, and so is the store, so  *)
(* a change, and the delete its event causes, fall between any two of      *)
(* them.  The observers are internal ones: they run when the event is      *)
(* triggered, which an enclosing transaction may place before the commit,  *)
(* so a change commits and deletes in either order.                        *)
(***************************************************************************)
EXTENDS Integers, FiniteSets

CONSTANTS
    Courses,    \* course ids, ordered as the statement orders ties
    CategoryOf, \* the category each course sits in
    Groups,     \* the top-level categories
    Shapes,     \* what update_course() may leave: [visible, start]
    Windows,    \* an offering instance: [enabled, opens, closes], 0 is none
    Settings,   \* the band settings an administrator may choose: [past, ahead]
    Requests,
    DayLength,  \* seconds in a day
    MaxAge,     \* catalogue::MAX_AGE
    Limit,      \* catalogue::CATALOGUE_LIMIT
    MaxClock,   \* bound: seconds that pass
    MaxChanges  \* bound: changes the core makes

Categories == {CategoryOf[c] : c \in Courses}

ASSUME CourseIds == Courses \subseteq Nat /\ IsFiniteSet(Courses)
ASSUME Durations == {DayLength, MaxAge} \subseteq Nat \ {0} /\ Limit \in Nat
ASSUME Instants ==
    /\ Shapes \subseteq [visible : BOOLEAN, start : Nat]
    /\ Windows \subseteq [enabled : BOOLEAN, opens : Nat, closes : Nat]
    /\ Settings \subseteq [past : Nat, ahead : Nat]

VARIABLES
    db,        \* [course, window, group, unlisted]
    settings,  \* the band settings
    clock,     \* time()
    catalogue, \* {} or {entry}: the site's catalogue key
    writer,    \* {} or {the change under way}
    pc, hand,  \* each request
    changes,   \* how many changes there have been
    touched    \* when the last one committed (history)

site == <<db, settings, clock, writer, changes, touched>>
vars == <<db, settings, clock, catalogue, writer, pc, hand, changes, touched>>

MinOf(S) == CHOOSE m \in S : \A x \in S : m <= x

(***************************************************************************)
(* The pure parts of a build                                               *)
(***************************************************************************)

Day(t) == t \div DayLength

\* catalogue::band, the days counted in the site timezone.
Band(now, s) ==
    [from     |-> (Day(now) - s.past) * DayLength,
     to       |-> (Day(now) + s.ahead + 1) * DayLength,
     midnight |-> (Day(now) + 1) * DayLength]

InBand(d, c, now, s) ==
    LET b == Band(now, s)
    IN  d.course[c].visible /\ d.course[c].start \in b.from .. b.to - 1

\* An enabled instance of a route method whose window holds now.
Offers(w, now) ==
    /\ w.enabled
    /\ w.opens <= now
    /\ w.closes = 0 \/ w.closes > now

Before(a, b) == a.start < b.start \/ (a.start = b.start /\ a.id < b.id)

FirstOf(rows, n) == {a \in rows : Cardinality({b \in rows : Before(b, a)}) < n}

\* The rows of the candidate statement, with the path the join reads.
Candidates(d, now, s) ==
    {[id |-> c, start |-> d.course[c].start, category |-> CategoryOf[c],
      group |-> d.group[CategoryOf[c]]] :
        c \in {x \in Courses : InBand(d, x, now, s) /\ Offers(d.window[x], now)}}

WithoutUnlistedPaths(rows, unlisted) ==
    {a \in rows : {a.category, a.group} \cap unlisted = {}}

\* A variant the runs reject: only the windows that close.
NextChangeOfClosings(d, now, s) ==
    {t \in {d.window[c].closes :
              c \in {x \in Courses : InBand(d, x, now, s) /\ d.window[x].enabled}} :
        t > now}

\* The opening and closing instants ahead, over every band course.
NextChange(d, now, s) ==
    {t \in UNION {{d.window[c].opens, d.window[c].closes} :
              c \in {x \in Courses : InBand(d, x, now, s) /\ d.window[x].enabled}} :
        t > now}

\* A variant the runs reject: no age limit.
UntilWithoutMaxAge(d, now, s) ==
    MinOf({Band(now, s).midnight} \cup NextChange(d, now, s))

Until(d, now, s) ==
    MinOf({Band(now, s).midnight, now + MaxAge} \cup NextChange(d, now, s))

Digest(e) == [rows |-> e.rows, truncated |-> e.truncated]

IsFresh(e, now, s) == now < e.until /\ e.settings = s

(***************************************************************************)
(* catalogue::get                                                          *)
(***************************************************************************)

NoHand == [now |-> 0]

Init ==
    /\ db \in [course   : [Courses -> {s \in Shapes : s.visible}],
               window   : [Courses -> Windows],
               group    : [Categories -> Groups],
               unlisted : {{}}]
    /\ settings \in Settings
    /\ clock = 0
    /\ catalogue = {}
    /\ writer = {}
    /\ pc = [r \in Requests |-> "idle"]
    /\ hand = [r \in Requests |-> NoHand]
    /\ changes = 0
    /\ touched = 0

Goto(r, from, to) == pc[r] = from /\ pc' = [pc EXCEPT ![r] = to]
Hold(r, h) == hand' = [hand EXCEPT ![r] = h]

\* get_news calls news::get(time()), and that calls catalogue::get().
Open(r) ==
    /\ Goto(r, "idle", "lookup")
    /\ Hold(r, [now |-> clock, settings |-> settings])
    /\ UNCHANGED <<site, catalogue>>

Hit(r) ==
    /\ Goto(r, "lookup", "have")
    /\ \E e \in catalogue :
          /\ IsFresh(e, hand[r].now, hand[r].settings)
          /\ Hold(r, [now |-> hand[r].now, entry |-> e])
    /\ UNCHANGED <<site, catalogue>>

Miss(r) ==
    /\ Goto(r, "lookup", "candidates")
    /\ \A e \in catalogue : ~IsFresh(e, hand[r].now, hand[r].settings)
    /\ UNCHANGED <<site, catalogue, hand>>

ReadCandidates(r) ==
    /\ Goto(r, "candidates", "unlisted")
    /\ LET rows == Candidates(db, hand[r].now, hand[r].settings)
       IN  Hold(r, [now |-> hand[r].now,
                    entry |-> [rows      |-> FirstOf(rows, Limit),
                               truncated |-> Cardinality(rows) > Limit,
                               built     |-> hand[r].now,
                               until     |-> 0,
                               settings  |-> hand[r].settings,
                               raced     |-> writer # {}]])
    /\ UNCHANGED <<site, catalogue>>

ReadUnlisted(r) ==
    /\ Goto(r, "unlisted", "nextchange")
    /\ hand' = [hand EXCEPT ![r].entry.rows = WithoutUnlistedPaths(@, db.unlisted)]
    /\ UNCHANGED <<site, catalogue>>

ReadNextChange(r) ==
    /\ Goto(r, "nextchange", "store")
    /\ hand' = [hand EXCEPT ![r].entry.until =
                   Until(db, hand[r].now, hand[r].entry.settings)]
    /\ UNCHANGED <<site, catalogue>>

Store(r) ==
    /\ Goto(r, "store", "have")
    /\ catalogue' = {hand[r].entry}
    /\ UNCHANGED <<site, hand>>

Look(r) ==
    \/ Open(r) \/ Hit(r) \/ Miss(r) \/ ReadCandidates(r) \/ ReadUnlisted(r)
    \/ ReadNextChange(r) \/ Store(r)

Building == {"unlisted", "nextchange", "store"}

\* The caller has its entry and the request ends.
Leave(r) ==
    /\ Goto(r, "have", "idle")
    /\ Hold(r, NoHand)
    /\ UNCHANGED <<site, catalogue>>

(***************************************************************************)
(* The core writers and the observers                                      *)
(***************************************************************************)

\* Each change, by the event it raises.
Changes ==
    [kind : {"course_updated"}, course : Courses, shape : Shapes]
    \cup [kind : {"enrol_instance_updated"}, course : Courses, window : Windows]
    \cup [kind : {"course_category_updated"}, category : Categories, group : Groups]
    \cup [kind : {"category_state_updated"}, category : Categories \cup Groups]

Apply(d, ch) ==
    CASE ch.kind = "course_updated" -> [d EXCEPT !.course[ch.course] = ch.shape]
      [] ch.kind = "enrol_instance_updated" -> [d EXCEPT !.window[ch.course] = ch.window]
      [] ch.kind = "course_category_updated" -> [d EXCEPT !.group[ch.category] = ch.group]
      [] ch.kind = "category_state_updated" ->
            [d EXCEPT !.unlisted = (@ \ {ch.category}) \cup ({ch.category} \ @)]

\* A build a writer's step falls into has raced it.
MarkRaced ==
    hand' = [r \in Requests |->
        IF pc[r] \in Building THEN [hand[r] EXCEPT !.entry.raced = TRUE] ELSE hand[r]]

BeginChange ==
    /\ writer = {}
    /\ changes < MaxChanges
    /\ \E ch \in Changes :
          /\ Apply(db, ch) # db
          /\ writer' = {[change |-> ch, committed |-> FALSE, observed |-> FALSE]}
    /\ changes' = changes + 1
    /\ MarkRaced
    /\ UNCHANGED <<db, settings, clock, catalogue, pc, touched>>

Commit ==
    /\ \E w \in writer :
          /\ ~w.committed
          /\ db' = Apply(db, w.change)
          /\ writer' = IF w.observed THEN {} ELSE {[w EXCEPT !.committed = TRUE]}
    /\ touched' = clock
    /\ MarkRaced
    /\ UNCHANGED <<settings, clock, catalogue, pc, changes>>

\* The callbacks of db/events.php: each of the nine drops the site's key.
Observe ==
    /\ \E w \in writer :
          /\ ~w.observed
          /\ writer' = IF w.committed THEN {} ELSE {[w EXCEPT !.observed = TRUE]}
    /\ catalogue' = {}
    /\ MarkRaced
    /\ UNCHANGED <<db, settings, clock, pc, changes, touched>>

\* The band settings change without an event.
Configure ==
    /\ \E s \in Settings \ {settings} : settings' = s
    /\ UNCHANGED <<db, clock, catalogue, writer, pc, hand, changes, touched>>

Tick ==
    /\ clock < MaxClock
    /\ clock' = clock + 1
    /\ UNCHANGED <<db, settings, catalogue, writer, pc, hand, changes, touched>>

Next ==
    \/ \E r \in Requests : Look(r) \/ Leave(r)
    \/ BeginChange \/ Commit \/ Observe
    \/ Configure \/ Tick

Spec == Init /\ [][Next]_vars

(***************************************************************************)
(* Properties                                                              *)
(***************************************************************************)

\* What may be offered at now, judged on the database as it is: the decision
\* in one formula, without the limit, the split reads or the entry.
Offered(now, s) ==
    {c \in Courses :
        /\ db.course[c].visible
        /\ Day(db.course[c].start) \in Day(now) - s.past .. Day(now) + s.ahead
        /\ Offers(db.window[c], now)
        /\ {CategoryOf[c], db.group[CategoryOf[c]]} \cap db.unlisted = {}}

Ids(rows) == {a.id : a \in rows}

\* All of what is offered, or a floor of it that says so.
Exact(e, now, s) ==
    /\ Ids(e.rows) \subseteq Offered(now, s)
    /\ ~e.truncated => Ids(e.rows) = Offered(now, s)
    /\ \A a \in e.rows : a.group = db.group[a.category]

\* The entry a request would be served now, when no change overlapped its
\* build and none is under way, is what the database offers at this second:
\* every change of the answer either deletes the entry or is foreseen by its
\* until (a midnight, a window opening or closing), and a change of the band
\* settings refuses it.
UnracedEntryIsExact ==
    writer = {} =>
        \A e \in catalogue :
            ~e.raced /\ IsFresh(e, clock, settings) => Exact(e, clock, settings)

\* The second an answer tells of: the request's own, or the later one at which
\* another request, in flight with it, built the entry it is served.
AnsweredAt(h) == IF h.entry.built > h.now THEN h.entry.built ELSE h.now

\* Whatever raced, once MAX_AGE seconds have passed without a change of the
\* site, the entry a request is served is what the database offers: a build
\* that read before a commit and stored after its delete is bounded by the cap.
RacesEndWithMaxAge ==
    \A r \in Requests :
        pc[r] = "have" /\ touched + MaxAge <= hand[r].now
        => Exact(hand[r].entry, AnsweredAt(hand[r]), hand[r].entry.settings)
=============================================================================

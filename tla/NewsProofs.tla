----------------------------- MODULE NewsProofs -----------------------------
(***************************************************************************)
(* What the run of News checks on one request and one course, for any      *)
(* number of them, any windows and any settings: the site's catalogue      *)
(* entry, and one viewer's answer built from it.                           *)
(*                                                                         *)
(* First the arithmetic of a build: an entry read from the database as it  *)
(* is tells what is offered at every second until its until.  Then who may *)
(* still hold an entry that was read from it.                              *)
(***************************************************************************)
EXTENDS News, FiniteSetTheorems, WellFoundedInduction, TLAPS

(***************************************************************************)
(* Days                                                                    *)
(***************************************************************************)

LEMMA Quotient ==
    ASSUME NEW n \in Nat, NEW d \in Nat \ {0}
    PROVE  (n \div d) \in Nat /\ (n \div d) * d <= n /\ n < ((n \div d) + 1) * d
  OBVIOUS

LEMMA NextMultiple == ASSUME NEW a \in Int, NEW b \in Int, NEW d \in Nat \ {0}, a < b PROVE (a + 1) * d <= b * d
  OBVIOUS

\* A day has begun when its first second has.
LEMMA DayBegins == ASSUME NEW n \in Nat, NEW q \in Int PROVE q * DayLength <= n <=> q <= Day(n)
<1> DEFINE m == n \div DayLength
           d == DayLength
<1>1. d \in Nat \ {0} /\ m \in Nat /\ m * d <= n /\ n < (m + 1) * d
  BY Durations, Quotient
<1>2. Day(n) = m
  BY DEF Day
<1> HIDE DEF m, d
<1>3. ASSUME q <= m PROVE q * d <= n
  <2>1. q * d <= m * d
    BY <1>1, <1>3
  <2>2. q * d \in Int /\ m * d \in Int
    BY <1>1
  <2> QED BY <1>1, <2>1, <2>2
<1>4. ASSUME m < q PROVE n < q * d
  <2>1. (m + 1) * d <= q * d
    BY <1>1, <1>4, NextMultiple
  <2>2. q * d \in Int /\ (m + 1) * d \in Int
    BY <1>1
  <2> QED BY <1>1, <2>1, <2>2
<1>5. q * d \in Int
  BY <1>1
<1>6. q * d <= n <=> q <= m
  BY <1>1, <1>3, <1>4, <1>5
<1> QED BY <1>2, <1>6 DEF d

LEMMA DayType == ASSUME NEW n \in Nat PROVE Day(n) \in Nat /\ n < (Day(n) + 1) * DayLength /\ (Day(n) + 1) * DayLength \in Nat
<1> DEFINE m == Day(n)
           d == DayLength
<1>1. d \in Nat \ {0} /\ m \in Nat /\ n < (m + 1) * d
  BY Durations, Quotient DEF Day
<1> HIDE DEF m, d
<1>2. (m + 1) * d \in Nat
  BY <1>1
<1> QED BY <1>1, <1>2 DEF m, d

LEMMA SameDay == ASSUME NEW n \in Nat, NEW t \in Nat, n <= t, t < (Day(n) + 1) * DayLength PROVE Day(t) = Day(n)
<1> DEFINE m == Day(n)
           k == Day(t)
<1>1. m \in Nat /\ k \in Nat /\ (m + 1) * DayLength \in Nat
  BY DayType
<1>2. m + 1 <= k => (m + 1) * DayLength <= t
  BY <1>1, DayBegins
<1>3. m <= k
  <2>1. m * DayLength <= n
    BY <1>1, DayBegins
  <2>2. m * DayLength \in Int
    BY <1>1, Durations
  <2>3. m * DayLength <= t
    BY <2>1, <2>2
  <2> QED BY <1>1, <2>3, DayBegins
<1> HIDE DEF m, k
<1>4. ~(m + 1 <= k)
  BY <1>1, <1>2 DEF m
<1>5. k = m
  BY <1>1, <1>3, <1>4
<1> QED BY <1>5 DEF m, k

(***************************************************************************)
(* What a build computes                                                   *)
(***************************************************************************)

Db ==
    [course : [Courses -> Shapes], window : [Courses -> Windows],
     group : [Categories -> Groups], unlisted : SUBSET (Categories \cup Groups)]

LEMMA RecordTypes ==
    ASSUME NEW d \in Db, NEW c \in Courses
    PROVE  /\ d.course[c].visible \in BOOLEAN /\ d.course[c].start \in Nat
           /\ d.window[c].enabled \in BOOLEAN /\ d.window[c].opens \in Nat /\ d.window[c].closes \in Nat
  BY Instants DEF Db

LEMMA BandIs ==
    ASSUME NEW d \in Db, NEW c \in Courses, NEW n \in Nat, NEW s \in Settings
    PROVE  InBand(d, c, n, s) <=> d.course[c].visible /\ Day(d.course[c].start) \in Day(n) - s.past .. Day(n) + s.ahead
<1> DEFINE start == d.course[c].start
           m == Day(n)
           k == Day(start)
           from == (m - s.past) * DayLength
           to == (m + s.ahead + 1) * DayLength
<1>1. start \in Nat /\ m \in Nat /\ s.past \in Nat /\ s.ahead \in Nat
  BY RecordTypes, DayType, Instants
<1>2. k \in Nat
  BY <1>1, DayType
<1>3. from <= start <=> m - s.past <= k
  BY <1>1, DayBegins
<1>4. to <= start <=> m + s.ahead + 1 <= k
  BY <1>1, DayBegins
<1>5. from \in Int /\ to \in Int
  BY <1>1, Durations
<1>6. InBand(d, c, n, s) <=> d.course[c].visible /\ start \in from .. to - 1
  BY DEF InBand, Band
<1> HIDE DEF start, m, k, from, to
<1>7. start \in from .. to - 1 <=> k \in m - s.past .. m + s.ahead
  BY <1>1, <1>2, <1>3, <1>4, <1>5
<1> QED BY <1>6, <1>7 DEF start, m, k

\* A set of instants has a first.
LEMMA FirstInstant == ASSUME NEW T, T \subseteq Nat, T # {} PROVE MinOf(T) \in T /\ \A x \in T : MinOf(T) <= x
<1> DEFINE less == {p \in Nat \X Nat : p[1] < p[2]}
<1>1. IsWellFoundedOn(less, Nat)
  BY NatLessThanWellFounded DEF OpToRel
<1>2. PICK m \in T : \A y \in T : <<y, m>> \notin less
  <2> HIDE DEF less
  <2> QED BY <1>1, WFMin
<1>3. ASSUME NEW y \in T PROVE m <= y
  <2>1. <<y, m>> \in Nat \X Nat /\ ~(y < m)
    BY <1>2, <1>3
  <2> QED BY <2>1
<1> QED BY <1>2, <1>3 DEF MinOf

\* An entry lives past its first second, and no longer than the age, the day or the next change of a window.
LEMMA UntilIs ==
    ASSUME NEW d \in Db, NEW n \in Nat, NEW s \in Settings
    PROVE  /\ Until(d, n, s) \in Nat /\ n < Until(d, n, s) /\ Until(d, n, s) <= n + MaxAge
           /\ Until(d, n, s) <= (Day(n) + 1) * DayLength
           /\ \A t \in NextChange(d, n, s) : Until(d, n, s) <= t
<1> DEFINE T == {Band(n, s).midnight, n + MaxAge} \cup NextChange(d, n, s)
           midnight == (Day(n) + 1) * DayLength
<1>1. Band(n, s).midnight = midnight /\ midnight \in Nat /\ n < midnight
  BY DayType DEF Band
<1>2. n + MaxAge \in Nat /\ n < n + MaxAge
  BY Durations
<1>3. ASSUME NEW t \in NextChange(d, n, s) PROVE t \in Nat /\ n < t
  <2>1. PICK c \in Courses : t \in {d.window[c].opens, d.window[c].closes} /\ t > n
    BY <1>3 DEF NextChange
  <2>2. t \in Nat
    BY <2>1, RecordTypes
  <2> QED BY <2>1, <2>2
<1> HIDE DEF midnight
<1>4. T \subseteq Nat /\ T # {} /\ \A t \in T : n < t
  BY <1>1, <1>2, <1>3
<1>5. Until(d, n, s) = MinOf(T)
  BY DEF Until
<1>6. midnight \in T /\ n + MaxAge \in T /\ NextChange(d, n, s) \subseteq T
  BY <1>1
<1> HIDE DEF T
<1>7. MinOf(T) \in T /\ \A x \in T : MinOf(T) <= x
  BY <1>4, FirstInstant
<1> QED BY <1>4, <1>5, <1>6, <1>7 DEF midnight

\* Until then no window of a band course opens or closes.
LEMMA SameOffers ==
    ASSUME NEW d \in Db, NEW n \in Nat, NEW s \in Settings, NEW c \in Courses, InBand(d, c, n, s),
           NEW t \in Nat, n <= t, t < Until(d, n, s)
    PROVE  Offers(d.window[c], n) <=> Offers(d.window[c], t)
<1> DEFINE w == d.window[c]
           u == Until(d, n, s)
<1>1. w.opens \in Nat /\ w.closes \in Nat /\ u \in Nat
  BY RecordTypes, UntilIs
<1>2. ASSUME NEW i \in {w.opens, w.closes}, w.enabled, i > n PROVE u <= i
  <2>1. i \in NextChange(d, n, s)
    BY <1>2 DEF NextChange
  <2> QED BY <2>1, UntilIs
<1> HIDE DEF w, u
<1>3. w.enabled => (w.opens <= n <=> w.opens <= t) /\ (w.closes > n <=> w.closes > t)
  BY <1>1, <1>2 DEF u
<1> QED BY <1>3 DEF Offers, w

\* A cut at no fewer rows than there are keeps them all.
LEMMA AllAreFirst ==
    ASSUME NEW rows, IsFiniteSet(rows), NEW n \in Nat, Cardinality(rows) <= n,
           \A a \in rows : a.start \in Nat /\ a.id \in Nat
    PROVE  FirstOf(rows, n) = rows
<1> SUFFICES ASSUME NEW a \in rows PROVE Cardinality({b \in rows : Before(b, a)}) < n
  BY DEF FirstOf
<1> DEFINE B == {b \in rows : Before(b, a)}
           R == rows \ {a}
<1>1. ~Before(a, a)
  BY DEF Before
<1>2. B \in SUBSET R
  BY <1>1
<1>3. IsFiniteSet(R) /\ Cardinality(R) = Cardinality(rows) - 1 /\ Cardinality(rows) \in Nat
  BY FS_RemoveElement, FS_CardinalityType
<1> HIDE DEF B, R
<1>4. Cardinality(B) <= Cardinality(R) /\ IsFiniteSet(B)
  BY <1>2, <1>3, FS_Subset
<1>5. Cardinality(B) \in Nat
  BY <1>4, FS_CardinalityType
<1>6. Cardinality(B) < n
  BY <1>3, <1>4, <1>5
<1> QED BY <1>6 DEF B

LEMMA FewCandidates == ASSUME NEW d, NEW n, NEW s PROVE IsFiniteSet(Candidates(d, n, s))
<1> DEFINE S == {x \in Courses : InBand(d, x, n, s) /\ Offers(d.window[x], n)}
           Line(c) == [id |-> c, start |-> d.course[c].start, category |-> CategoryOf[c], group |-> d.group[CategoryOf[c]]]
           T == Candidates(d, n, s)
           f == [c \in S |-> Line(c)]
<1>1. IsFiniteSet(S)
  BY CourseIds, FS_Subset
<1>2. T = {Line(c) : c \in S}
  BY DEF Candidates
<1> HIDE DEF S, T, Line
<1>3. f \in Surjection(S, T)
  BY <1>2 DEF Surjection
<1> HIDE DEF f
<1>4. IsFiniteSet(T)
  BY <1>1, <1>3, FS_Surjection
<1> QED BY <1>4 DEF T

\* An entry as the three statements leave it, all of them read from one database.
Built(d, e) ==
    /\ e.rows = WithoutUnlistedPaths(FirstOf(Candidates(d, e.built, e.settings), Limit), d.unlisted)
    /\ e.truncated = (Cardinality(Candidates(d, e.built, e.settings)) > Limit)
    /\ e.until = Until(d, e.built, e.settings)

\* Such an entry is exact at every second from its build to its until.
LEMMA BuiltIsExact ==
    ASSUME db \in Db, NEW e, e.built \in Nat, e.settings \in Settings, Built(db, e), NEW t \in Nat, e.built <= t, t < e.until
    PROVE  Exact(e, t, e.settings)
<1> DEFINE n == e.built
           s == e.settings
           rows == Candidates(db, n, s)
           first == FirstOf(rows, Limit)
<1>1. n \in Nat /\ s \in Settings /\ Limit \in Nat /\ t < Until(db, n, s)
  BY Durations DEF Built
<1>2. e.rows = {a \in first : {a.category, a.group} \cap db.unlisted = {}} /\ first \subseteq rows
  BY DEF Built, WithoutUnlistedPaths, FirstOf
<1>3. Day(t) = Day(n)
  <2>1. Until(db, n, s) \in Nat /\ Until(db, n, s) <= (Day(n) + 1) * DayLength /\ (Day(n) + 1) * DayLength \in Nat
    BY <1>1, UntilIs, DayType
  <2> DEFINE u == Until(db, n, s)
             midnight == (Day(n) + 1) * DayLength
  <2> HIDE DEF u, midnight
  <2>2. t < midnight
    BY <1>1, <2>1 DEF u, midnight
  <2> QED BY <1>1, <2>2, SameDay DEF midnight
<1>4. ASSUME NEW c \in Courses
      PROVE  InBand(db, c, n, s) /\ Offers(db.window[c], n) /\ {CategoryOf[c], db.group[CategoryOf[c]]} \cap db.unlisted = {}
             <=> c \in Offered(t, s)
  <2>1. InBand(db, c, n, s) <=> db.course[c].visible /\ Day(db.course[c].start) \in Day(n) - s.past .. Day(n) + s.ahead
    BY <1>1, BandIs
  <2>2. InBand(db, c, n, s) => (Offers(db.window[c], n) <=> Offers(db.window[c], t))
    BY <1>1, SameOffers
  <2> HIDE DEF n, s
  <2> QED BY <1>3, <2>1, <2>2 DEF Offered
<1>5. \A a : a \in rows <=> \E c \in Courses :
         /\ InBand(db, c, n, s) /\ Offers(db.window[c], n)
         /\ a = [id |-> c, start |-> db.course[c].start, category |-> CategoryOf[c], group |-> db.group[CategoryOf[c]]]
  BY DEF Candidates
<1>6. ~e.truncated => first = rows
  <2>1. IsFiniteSet(rows)
    BY FewCandidates
  <2>2. \A a \in rows : a.start \in Nat /\ a.id \in Nat
    BY <1>5, RecordTypes, CourseIds
  <2>3. ~e.truncated => ~(Cardinality(rows) > Limit)
    BY DEF Built
  <2> HIDE DEF rows
  <2>4. Cardinality(rows) \in Nat
    BY <2>1, FS_CardinalityType
  <2>5. ~e.truncated => Cardinality(rows) <= Limit
    BY <1>1, <2>3, <2>4
  <2> QED BY <1>1, <2>1, <2>2, <2>5, AllAreFirst
<1> HIDE DEF rows, first, n, s
<1>7. Ids(e.rows) \subseteq Offered(t, s)
  BY <1>2, <1>4, <1>5 DEF Ids
<1>8. ~e.truncated => Offered(t, s) \subseteq Ids(e.rows)
  <2> SUFFICES ASSUME ~e.truncated, NEW c \in Offered(t, s) PROVE c \in Ids(e.rows)
    OBVIOUS
  <2> DEFINE a == [id |-> c, start |-> db.course[c].start, category |-> CategoryOf[c], group |-> db.group[CategoryOf[c]]]
  <2>1. c \in Courses
    BY DEF Offered
  <2>2. a \in rows /\ {a.category, a.group} \cap db.unlisted = {}
    BY <1>4, <1>5, <2>1
  <2>3. a \in e.rows /\ a.id = c
    BY <1>2, <1>6, <2>2
  <2> QED BY <2>3 DEF Ids
<1>9. \A a \in e.rows : a.group = db.group[a.category]
  BY <1>2, <1>5
<1>10. Exact(e, t, s)
  BY <1>7, <1>8, <1>9 DEF Exact
<1> QED BY <1>10 DEF s

(***************************************************************************)
(* The inductive invariant                                                 *)
(***************************************************************************)

Counting == {"listable", "provider", "storenews"}
Stages == {"idle", "lookup", "candidates", "have", "answered"} \cup Building \cup Counting
Line == [id : Courses, start : Nat, category : Categories, group : Groups]

TypeOK ==
    /\ db \in Db /\ settings \in Settings
    /\ clock \in Nat /\ touched \in Nat /\ touched <= clock
    /\ \/ writer = {}
       \/ \E w \in [change : Changes, committed : BOOLEAN, observed : BOOLEAN] :
             writer = {w} /\ ~(w.committed /\ w.observed)
    /\ \/ roster = {}
       \/ \E w \in [course : Courses, committed : BOOLEAN, observed : BOOLEAN] :
             roster = {w} /\ ~(w.committed /\ w.observed)
    /\ pc \in [Requests -> Stages] /\ hand = [r \in Requests |-> hand[r]]

EntryOf(e) ==
    /\ e = [rows |-> e.rows, truncated |-> e.truncated, built |-> e.built, until |-> e.until,
            settings |-> e.settings, raced |-> e.raced]
    /\ e.rows \subseteq Line /\ e.built \in Nat /\ e.built <= clock
    /\ e.settings \in Settings /\ e.raced \in BOOLEAN

Lives(e) == e.until \in Nat /\ e.built < e.until /\ e.until <= e.built + MaxAge

\* Built in the seconds since the last commit, an entry was built from the database as it is.
Whole(e) == EntryOf(e) /\ Lives(e) /\ (touched < e.built => Built(db, e))

\* In the cache, one that no change overlapped tells the database until a commit; none such is left once a change is observed.
CachedOK(e) ==
    /\ Whole(e)
    /\ (\A w \in writer : ~w.committed) /\ ~e.raced => Built(db, e)
    /\ \A w \in writer : w.observed => e.raced

\* What a build has read when it has reached a stage.
ReadSoFar(p, e) ==
    LET rows == Candidates(db, e.built, e.settings)
    IN  /\ e.rows = IF p = "unlisted" THEN FirstOf(rows, Limit) ELSE WithoutUnlistedPaths(FirstOf(rows, Limit), db.unlisted)
        /\ e.truncated = (Cardinality(rows) > Limit)
        /\ p = "store" => e.until = Until(db, e.built, e.settings)

BuildOK(p, e) ==
    /\ EntryOf(e) /\ (p = "store" => Lives(e))
    /\ touched < e.built => ReadSoFar(p, e)
    /\ ~e.raced => writer = {} /\ ReadSoFar(p, e)

\* An answer that follows the rows.
Follows(n, rows) ==
    /\ Ids(n.counted) \subseteq Ids(rows)
    /\ n.dropped \subseteq Ids(rows)

NewsOf(n) ==
    /\ n = [counted |-> n.counted, dropped |-> n.dropped, session |-> n.session, days |-> n.days,
            digest |-> n.digest, built |-> n.built, raced |-> n.raced]
    /\ n.raced \in BOOLEAN
    /\ Follows(n, n.digest.rows)

Listed(n) == \A a \in n.counted : a.group \in Sees

\* What one withholds, the viewer holds, until a removal is committed; none that does not is left once it is observed.
NewsOK(n) ==
    /\ NewsOf(n) /\ Listed(n)
    /\ (\A w \in roster : ~w.committed) /\ ~n.raced => n.dropped \subseteq held
    /\ \A w \in roster : w.observed /\ w.course \in held => n.raced

CountOK(p, n, e) ==
    /\ NewsOf(n) /\ n.digest = Digest(e) /\ e.rows \subseteq Line
    /\ p = "listable" => n.counted \subseteq e.rows
    /\ p # "listable" => Listed(n)
    /\ ~n.raced => roster = {} /\ n.dropped \subseteq held

RequestOK(p, h) ==
    /\ p # "idle" => h.now \in Nat /\ h.now <= clock
    /\ p \in {"lookup", "candidates"} => h = [now |-> h.now, settings |-> h.settings] /\ h.settings \in Settings
    /\ p \in Building => h = [now |-> h.now, entry |-> h.entry] /\ h.entry.built = h.now /\ BuildOK(p, h.entry)
    /\ p = "have" => h = [now |-> h.now, entry |-> h.entry] /\ Whole(h.entry) /\ h.now < h.entry.until
    /\ p \in Counting =>
          h = [now |-> h.now, entry |-> h.entry, session |-> h.session, news |-> h.news] /\ CountOK(p, h.news, h.entry)
    /\ p = "answered" => Follows(h.news, h.entry.rows) /\ Listed(h.news)

NewsInv ==
    /\ TypeOK
    /\ \A e \in catalogue : CachedOK(e)
    /\ \A n \in news : NewsOK(n)
    /\ \A r \in Requests : RequestOK(pc[r], hand[r])

(***************************************************************************)
(* A request's steps change one hand, and the site not at all              *)
(***************************************************************************)

LEMMA SiteStays ==
    ASSUME UNCHANGED <<db, clock, writer, touched, roster, held>>
    PROVE  /\ \A p, h : RequestOK(p, h) => RequestOK(p, h)'
           /\ \A e : CachedOK(e) => CachedOK(e)'
           /\ \A n : NewsOK(n) => NewsOK(n)'
<1>1. \A e : (EntryOf(e) <=> EntryOf(e)') /\ (Lives(e) <=> Lives(e)') /\ (Built(db, e) <=> Built(db, e)')
  BY DEF EntryOf, Lives, Built
<1>2. \A e : Whole(e) => Whole(e)'
  BY <1>1 DEF Whole
<1>3. \A e : CachedOK(e) => CachedOK(e)'
  BY <1>1, <1>2 DEF CachedOK
<1>4. \A n : (NewsOf(n) <=> NewsOf(n)') /\ (Listed(n) <=> Listed(n)') /\ (NewsOK(n) => NewsOK(n)')
  BY DEF NewsOf, Follows, Ids, Listed, NewsOK
<1>5. \A p, e : BuildOK(p, e) => BuildOK(p, e)'
  BY <1>1 DEF BuildOK, ReadSoFar
<1>6. \A p, n, e : CountOK(p, n, e) => CountOK(p, n, e)'
  BY <1>4 DEF CountOK
<1> QED BY <1>2, <1>3, <1>4, <1>5, <1>6 DEF RequestOK, Follows

LEMMA OneHand ==
    ASSUME NewsInv, UNCHANGED site, UNCHANGED <<roster, held>>,
           NEW r \in Requests, NEW p \in Stages, pc' = [pc EXCEPT ![r] = p],
           NEW h, hand' = [hand EXCEPT ![r] = h], RequestOK(p, h),
           \A e \in catalogue' : CachedOK(e), \A n \in news' : NewsOK(n)
    PROVE  NewsInv'
<1>1. UNCHANGED <<db, settings, clock, writer, touched, roster, held>>
  BY DEF site
<1>2. TypeOK'
  BY <1>1 DEF NewsInv, TypeOK
<1>3. ASSUME NEW q \in Requests PROVE RequestOK(pc[q], hand[q])'
  <2>1. RequestOK(pc'[q], hand'[q])
    BY DEF NewsInv, TypeOK
  <2>2. ASSUME NEW s, NEW g, s = pc'[q], g = hand'[q] PROVE RequestOK(pc[q], hand[q])'
    <3>1. RequestOK(s, g)'
      BY <1>1, <2>1, <2>2, SiteStays
    <3> QED BY <2>2, <3>1
  <2> QED BY <2>2
<1>4. ASSUME NEW e \in catalogue' PROVE CachedOK(e)'
  BY <1>1, <1>4, SiteStays
<1>5. ASSUME NEW n \in news' PROVE NewsOK(n)'
  BY <1>1, <1>5, SiteStays
<1> QED BY <1>2, <1>3, <1>4, <1>5 DEF NewsInv

LEMMA OpenKeeps == ASSUME NewsInv, NEW r \in Requests, Open(r), UNCHANGED viewer PROVE NewsInv'
<1> DEFINE h == [now |-> clock, settings |-> settings]
<1>1. pc' = [pc EXCEPT ![r] = "lookup"] /\ hand' = [hand EXCEPT ![r] = h] /\ UNCHANGED <<site, catalogue, news, roster, held>>
  BY DEF Open, Goto, Hold, viewer
<1>2. h = [now |-> h.now, settings |-> h.settings] /\ h.now = clock /\ h.settings = settings
  OBVIOUS
<1> HIDE DEF h
<1>3. RequestOK("lookup", h)
  BY <1>2 DEF RequestOK, NewsInv, TypeOK, Building, Counting
<1>4. "lookup" \in Stages
  BY DEF Stages
<1>5. (\A e \in catalogue' : CachedOK(e)) /\ (\A n \in news' : NewsOK(n))
  BY <1>1 DEF NewsInv
<1> QED BY <1>1, <1>3, <1>4, <1>5, OneHand

\* The entry of the cache serves until its until, whoever built it.
LEMMA HitKeeps == ASSUME NewsInv, NEW r \in Requests, Hit(r), UNCHANGED viewer PROVE NewsInv'
<1>1. PICK e \in catalogue :
         IsFresh(e, hand[r].now, hand[r].settings) /\ hand' = [hand EXCEPT ![r] = [now |-> hand[r].now, entry |-> e]]
  BY DEF Hit, Hold
<1> DEFINE h == [now |-> hand[r].now, entry |-> e]
<1>2. pc[r] = "lookup" /\ pc' = [pc EXCEPT ![r] = "have"] /\ UNCHANGED <<site, catalogue, news, roster, held>>
  BY DEF Hit, Goto, viewer
<1>3. hand[r].now \in Nat /\ hand[r].now <= clock
  BY <1>2 DEF NewsInv, RequestOK
<1>4. h = [now |-> h.now, entry |-> h.entry] /\ h.now = hand[r].now /\ h.entry = e
  OBVIOUS
<1>5. Whole(e)
  BY DEF NewsInv, CachedOK
<1>6. hand' = [hand EXCEPT ![r] = h]
  BY <1>1
<1> HIDE DEF h
<1>7. RequestOK("have", h)
  BY <1>1, <1>3, <1>4, <1>5 DEF RequestOK, Building, Counting, IsFresh
<1>8. "have" \in Stages
  BY DEF Stages
<1>9. (\A x \in catalogue' : CachedOK(x)) /\ (\A n \in news' : NewsOK(n))
  BY <1>2 DEF NewsInv
<1> QED BY <1>2, <1>6, <1>7, <1>8, <1>9, OneHand

LEMMA MissKeeps == ASSUME NewsInv, NEW r \in Requests, Miss(r), UNCHANGED viewer PROVE NewsInv'
<1> DEFINE h == hand[r]
<1>1. pc[r] = "lookup" /\ pc' = [pc EXCEPT ![r] = "candidates"] /\ UNCHANGED <<site, catalogue, news, roster, held, hand>>
  BY DEF Miss, Goto, viewer
<1>2. hand' = [hand EXCEPT ![r] = h]
  BY <1>1 DEF NewsInv, TypeOK
<1>3. RequestOK("candidates", h)
  BY <1>1 DEF RequestOK, NewsInv, Building, Counting
<1> HIDE DEF h
<1>4. "candidates" \in Stages
  BY DEF Stages
<1>5. (\A e \in catalogue' : CachedOK(e)) /\ (\A n \in news' : NewsOK(n))
  BY <1>1 DEF NewsInv
<1> QED BY <1>1, <1>2, <1>3, <1>4, <1>5, OneHand

LEMMA CandidateLines ==
    ASSUME db \in Db, NEW n, NEW s, NEW k, NEW u
    PROVE  FirstOf(Candidates(db, n, s), k) \subseteq Line /\ WithoutUnlistedPaths(FirstOf(Candidates(db, n, s), k), u) \subseteq Line
<1>1. Candidates(db, n, s) \subseteq Line
  <2> SUFFICES ASSUME NEW a \in Candidates(db, n, s) PROVE a \in Line
    OBVIOUS
  <2>1. PICK c \in Courses :
           a = [id |-> c, start |-> db.course[c].start, category |-> CategoryOf[c], group |-> db.group[CategoryOf[c]]]
    BY DEF Candidates
  <2>2. CategoryOf[c] \in Categories
    BY DEF Categories
  <2>3. db.course[c].start \in Nat /\ db.group[CategoryOf[c]] \in Groups
    BY <2>2, RecordTypes DEF Db
  <2> QED BY <2>1, <2>2, <2>3 DEF Line
<1> QED BY <1>1 DEF FirstOf, WithoutUnlistedPaths

\* A build that begins while a change is under way is raced from the start.
LEMMA ReadCandidatesKeeps == ASSUME NewsInv, NEW r \in Requests, ReadCandidates(r), UNCHANGED viewer PROVE NewsInv'
<1> DEFINE now == hand[r].now
           s == hand[r].settings
           rows == Candidates(db, now, s)
           cut == Cardinality(rows) > Limit
           raced == writer # {}
           e == [rows |-> FirstOf(rows, Limit), truncated |-> cut, built |-> now, until |-> 0, settings |-> s, raced |-> raced]
           h == [now |-> now, entry |-> e]
<1>1. pc[r] = "candidates" /\ pc' = [pc EXCEPT ![r] = "unlisted"] /\ UNCHANGED <<site, catalogue, news, roster, held>>
  BY DEF ReadCandidates, Goto, viewer
<1>2. hand' = [hand EXCEPT ![r] = h]
  BY DEF ReadCandidates, Hold
<1>3. now \in Nat /\ now <= clock /\ s \in Settings
  BY <1>1 DEF NewsInv, RequestOK
<1>4. FirstOf(rows, Limit) \subseteq Line
  BY CandidateLines DEF NewsInv, TypeOK
<1>5. raced \in BOOLEAN /\ (~raced => writer = {})
  OBVIOUS
<1>6. rows = Candidates(db, now, s) /\ cut = (Cardinality(rows) > Limit)
  OBVIOUS
<1> HIDE DEF now, s, rows, cut, raced
<1>7. e = [rows |-> e.rows, truncated |-> e.truncated, built |-> e.built, until |-> e.until, settings |-> e.settings, raced |-> e.raced]
      /\ e.rows = FirstOf(rows, Limit) /\ e.truncated = cut /\ e.built = now /\ e.settings = s /\ e.raced = raced
  OBVIOUS
<1> HIDE DEF e
<1>8. EntryOf(e) /\ ReadSoFar("unlisted", e)
  BY <1>3, <1>4, <1>5, <1>6, <1>7 DEF EntryOf, ReadSoFar
<1>9. h = [now |-> h.now, entry |-> h.entry] /\ h.now = now /\ h.entry = e
  OBVIOUS
<1> HIDE DEF h
<1>10. RequestOK("unlisted", h)
  BY <1>3, <1>5, <1>7, <1>8, <1>9 DEF RequestOK, BuildOK, Counting
<1>11. "unlisted" \in Stages
  BY DEF Stages, Building
<1>12. (\A x \in catalogue' : CachedOK(x)) /\ (\A n \in news' : NewsOK(n))
  BY <1>1 DEF NewsInv
<1> QED BY <1>1, <1>2, <1>10, <1>11, <1>12, OneHand

\* A hand whose entry a statement replaces.
LEMMA EntryReplaced ==
    ASSUME NewsInv, NEW r \in Requests, NEW p, p \in Building, NEW e, EntryOf(e), UNCHANGED <<site, roster, held, catalogue, news>>,
           pc[r] \in Building, pc' = [pc EXCEPT ![r] = p], hand' = [hand EXCEPT ![r] = [hand[r] EXCEPT !.entry = e]],
           e.built = hand[r].entry.built, BuildOK(p, e)
    PROVE  NewsInv'
<1> DEFINE h == [hand[r] EXCEPT !.entry = e]
<1>1. hand[r] = [now |-> hand[r].now, entry |-> hand[r].entry] /\ hand[r].entry.built = hand[r].now
      /\ hand[r].now \in Nat /\ hand[r].now <= clock
  BY DEF NewsInv, RequestOK, Building
<1>2. h = [now |-> hand[r].now, entry |-> e]
  BY <1>1
<1> HIDE DEF h
<1>3. h = [now |-> h.now, entry |-> h.entry] /\ h.now = hand[r].now /\ h.entry = e
  BY <1>2
<1>4. RequestOK(p, h)
  BY <1>1, <1>3 DEF RequestOK, Building, Counting
<1>5. p \in Stages
  BY DEF Stages
<1>6. hand' = [hand EXCEPT ![r] = h]
  BY DEF h
<1>7. (\A x \in catalogue' : CachedOK(x)) /\ (\A n \in news' : NewsOK(n))
  BY DEF NewsInv
<1> QED BY <1>4, <1>5, <1>6, <1>7, OneHand

LEMMA ReadUnlistedKeeps == ASSUME NewsInv, NEW r \in Requests, ReadUnlisted(r), UNCHANGED viewer PROVE NewsInv'
<1> DEFINE o == hand[r].entry
           rows == WithoutUnlistedPaths(o.rows, db.unlisted)
           e == [o EXCEPT !.rows = rows]
<1>1. pc[r] = "unlisted" /\ pc' = [pc EXCEPT ![r] = "nextchange"] /\ UNCHANGED <<site, catalogue, news, roster, held>>
  BY DEF ReadUnlisted, Goto, viewer
<1>2. hand' = [hand EXCEPT ![r] = [hand[r] EXCEPT !.entry = e]]
  BY Zenon DEF ReadUnlisted
<1>3. BuildOK("unlisted", o)
  BY <1>1 DEF NewsInv, RequestOK, Building
<1>4. rows \subseteq o.rows
  BY DEF WithoutUnlistedPaths
<1>5. rows = WithoutUnlistedPaths(o.rows, db.unlisted)
  OBVIOUS
<1> HIDE DEF o, rows
<1>6. e = [rows |-> rows, truncated |-> o.truncated, built |-> o.built, until |-> o.until, settings |-> o.settings, raced |-> o.raced]
  BY <1>3 DEF BuildOK, EntryOf
<1> HIDE DEF e
<1>7. e = [rows |-> e.rows, truncated |-> e.truncated, built |-> e.built, until |-> e.until, settings |-> e.settings, raced |-> e.raced]
      /\ e.rows = rows /\ e.truncated = o.truncated /\ e.built = o.built /\ e.settings = o.settings /\ e.raced = o.raced
  BY <1>6
<1>8. EntryOf(e)
  BY <1>3, <1>4, <1>7 DEF BuildOK, EntryOf
<1>9. ReadSoFar("unlisted", o) => ReadSoFar("nextchange", e)
  BY <1>5, <1>7 DEF ReadSoFar
<1>10. BuildOK("nextchange", e)
  BY <1>3, <1>7, <1>8, <1>9 DEF BuildOK
<1>11. e.built = hand[r].entry.built
  BY <1>7 DEF o
<1> QED BY <1>1, <1>2, <1>8, <1>10, <1>11, EntryReplaced DEF Building

LEMMA ReadNextChangeKeeps == ASSUME NewsInv, NEW r \in Requests, ReadNextChange(r), UNCHANGED viewer PROVE NewsInv'
<1> DEFINE o == hand[r].entry
           until == Until(db, hand[r].now, o.settings)
           e == [o EXCEPT !.until = until]
<1>1. pc[r] = "nextchange" /\ pc' = [pc EXCEPT ![r] = "store"] /\ UNCHANGED <<site, catalogue, news, roster, held>>
  BY DEF ReadNextChange, Goto, viewer
<1>2. hand' = [hand EXCEPT ![r] = [hand[r] EXCEPT !.entry = e]]
  BY Zenon DEF ReadNextChange
<1>3. BuildOK("nextchange", o) /\ hand[r].now = o.built
  BY <1>1 DEF NewsInv, RequestOK, Building
<1>4. until = Until(db, o.built, o.settings)
  BY <1>3
<1>5. until \in Nat /\ o.built < until /\ until <= o.built + MaxAge
  <2>1. db \in Db /\ o.built \in Nat /\ o.settings \in Settings
    BY <1>3 DEF NewsInv, TypeOK, BuildOK, EntryOf
  <2> QED BY <1>4, <2>1, UntilIs
<1> HIDE DEF o, until
<1>6. e = [rows |-> o.rows, truncated |-> o.truncated, built |-> o.built, until |-> until, settings |-> o.settings, raced |-> o.raced]
  BY <1>3 DEF BuildOK, EntryOf
<1> HIDE DEF e
<1>7. e = [rows |-> e.rows, truncated |-> e.truncated, built |-> e.built, until |-> e.until, settings |-> e.settings, raced |-> e.raced]
      /\ e.rows = o.rows /\ e.truncated = o.truncated /\ e.built = o.built /\ e.until = until /\ e.settings = o.settings /\ e.raced = o.raced
  BY <1>6
<1>8. EntryOf(e) /\ Lives(e)
  BY <1>3, <1>5, <1>7 DEF BuildOK, EntryOf, Lives
<1>9. ReadSoFar("nextchange", o) => ReadSoFar("store", e)
  BY <1>4, <1>7 DEF ReadSoFar
<1>10. BuildOK("store", e)
  BY <1>3, <1>7, <1>8, <1>9 DEF BuildOK
<1>11. e.built = hand[r].entry.built
  BY <1>7 DEF o
<1> QED BY <1>1, <1>2, <1>8, <1>10, <1>11, EntryReplaced DEF Building

\* What is stored: an unraced entry tells the database, and no change is under way.
LEMMA StoreKeeps == ASSUME NewsInv, NEW r \in Requests, Store(r), UNCHANGED viewer PROVE NewsInv'
<1> DEFINE h == hand[r]
           e == h.entry
<1>1. pc[r] = "store" /\ pc' = [pc EXCEPT ![r] = "have"] /\ catalogue' = {e} /\ UNCHANGED <<site, hand, news, roster, held>>
  BY DEF Store, Goto, viewer
<1>2. h = [now |-> h.now, entry |-> e] /\ e.built = h.now /\ BuildOK("store", e) /\ h.now \in Nat /\ h.now <= clock
  BY <1>1 DEF NewsInv, RequestOK, Building
<1>3. hand' = [hand EXCEPT ![r] = h]
  BY <1>1 DEF NewsInv, TypeOK
<1> HIDE DEF h, e
<1>4. ReadSoFar("store", e) => Built(db, e)
  BY DEF ReadSoFar, Built
<1>5. Whole(e) /\ CachedOK(e)
  BY <1>2, <1>4 DEF BuildOK, Whole, CachedOK
<1>6. RequestOK("have", h)
  BY <1>2, <1>5 DEF RequestOK, Building, Counting, Whole, Lives, e
<1>7. "have" \in Stages
  BY DEF Stages
<1>8. (\A x \in catalogue' : CachedOK(x)) /\ (\A n \in news' : NewsOK(n))
  BY <1>1, <1>5 DEF NewsInv
<1> QED BY <1>1, <1>3, <1>6, <1>7, <1>8, OneHand

\* The digest makes the cached answer one about the rows in hand.
LEMMA NewsHitKeeps == ASSUME NewsInv, NEW r \in Requests, NewsHit(r) PROVE NewsInv'
<1>1. PICK n \in news, s \in Sessions :
         /\ NewsIsFresh(n, s, hand[r].entry, hand[r].now)
         /\ hand' = [hand EXCEPT ![r] = [now |-> hand[r].now, entry |-> hand[r].entry, news |-> n, session |-> s]]
  BY DEF NewsHit, Hold
<1> DEFINE h == [now |-> hand[r].now, entry |-> hand[r].entry, news |-> n, session |-> s]
<1>2. pc[r] = "have" /\ pc' = [pc EXCEPT ![r] = "answered"] /\ UNCHANGED <<site, catalogue, news, roster, held>>
  BY DEF NewsHit, Goto, viewer
<1>3. hand[r].now \in Nat /\ hand[r].now <= clock
  BY <1>2 DEF NewsInv, RequestOK
<1>4. n.digest.rows = hand[r].entry.rows
  BY <1>1 DEF NewsIsFresh, Digest
<1>5. NewsOK(n)
  BY DEF NewsInv
<1>6. h.now = hand[r].now /\ h.entry = hand[r].entry /\ h.news = n
  OBVIOUS
<1>7. hand' = [hand EXCEPT ![r] = h]
  BY <1>1
<1> HIDE DEF h
<1>8. RequestOK("answered", h)
  BY <1>3, <1>4, <1>5, <1>6 DEF RequestOK, Building, Counting, NewsOK, NewsOf
<1>9. "answered" \in Stages
  BY DEF Stages
<1>10. (\A x \in catalogue' : CachedOK(x)) /\ (\A x \in news' : NewsOK(x))
  BY <1>2 DEF NewsInv
<1> QED BY <1>2, <1>7, <1>8, <1>9, <1>10, OneHand

\* The probe parts the first rows into those the viewer holds and those counted.
LEMMA ReadHistoryKeeps == ASSUME NewsInv, NEW r \in Requests, ReadHistory(r) PROVE NewsInv'
<1> DEFINE entry == hand[r].entry
           now == hand[r].now
           probed == FirstOf(entry.rows, Probe)
           kept == Counted(probed)
           gone == Ids(probed) \cap held
           raced == roster # {}
           n(s) == [counted |-> kept, dropped |-> gone, session |-> s, days |-> Days(entry), digest |-> Digest(entry),
                    built |-> now, raced |-> raced]
           H(s) == [now |-> now, entry |-> entry, session |-> s, news |-> n(s)]
<1>1. PICK s \in Sessions : hand' = [hand EXCEPT ![r] = H(s)]
  BY DEF ReadHistory, Hold
<1>2. pc[r] = "have" /\ pc' = [pc EXCEPT ![r] = "listable"] /\ UNCHANGED <<site, catalogue, news, roster, held>>
  BY DEF ReadHistory, Goto, viewer
<1>3. now \in Nat /\ now <= clock /\ EntryOf(entry)
  BY <1>2 DEF NewsInv, RequestOK, Whole
<1>4. kept \subseteq entry.rows /\ Ids(kept) \subseteq Ids(entry.rows) /\ gone \subseteq Ids(entry.rows) /\ gone \subseteq held
  BY DEF Counted, FirstOf, Ids
<1>5. raced \in BOOLEAN /\ (~raced => roster = {})
  OBVIOUS
<1>6. Digest(entry).rows = entry.rows
  BY DEF Digest
<1> DEFINE days == Days(entry)
           digest == Digest(entry)
           w == n(s)
           h == H(s)
<1>7. digest = Digest(entry)
  OBVIOUS
<1> HIDE DEF entry, now, kept, gone, raced, days, digest
<1>8. w = [counted |-> w.counted, dropped |-> w.dropped, session |-> w.session, days |-> w.days, digest |-> w.digest,
           built |-> w.built, raced |-> w.raced]
      /\ w.counted = kept /\ w.dropped = gone /\ w.digest = digest /\ w.raced = raced
  BY DEF digest, days
<1> HIDE DEF n
<1>9. h = [now |-> h.now, entry |-> h.entry, session |-> h.session, news |-> h.news] /\ h.now = now /\ h.entry = entry /\ h.news = w
  OBVIOUS
<1>10. hand' = [hand EXCEPT ![r] = h]
  BY <1>1
<1> HIDE DEF h, w
<1>11. CountOK("listable", w, entry)
  BY <1>3, <1>4, <1>5, <1>6, <1>7, <1>8 DEF CountOK, NewsOf, Follows, EntryOf
<1>12. RequestOK("listable", h)
  BY <1>3, <1>9, <1>11 DEF RequestOK, Building, Counting
<1>13. "listable" \in Stages
  BY DEF Stages, Counting
<1>14. (\A x \in catalogue' : CachedOK(x)) /\ (\A x \in news' : NewsOK(x))
  BY <1>2 DEF NewsInv
<1> QED BY <1>2, <1>10, <1>12, <1>13, <1>14, OneHand

\* A hand whose counted courses a step narrows or groups anew.
LEMMA CountReplaced ==
    ASSUME NewsInv, NEW r \in Requests, NEW q \in Counting, NEW p \in Counting, p # "listable",
           UNCHANGED <<site, catalogue, news, roster, held>>,
           pc[r] = q, pc' = [pc EXCEPT ![r] = p],
           NEW C, Ids(C) \subseteq Ids(hand[r].news.counted), \A a \in C : a.group \in Sees,
           NEW w, w = [hand[r].news EXCEPT !.counted = C], hand' = [hand EXCEPT ![r] = [hand[r] EXCEPT !.news = w]]
    PROVE  NewsInv'
<1> DEFINE o == hand[r].news
           entry == hand[r].entry
           h == [hand[r] EXCEPT !.news = w]
<1>1. hand[r] = [now |-> hand[r].now, entry |-> entry, session |-> hand[r].session, news |-> o]
      /\ hand[r].now \in Nat /\ hand[r].now <= clock /\ CountOK(q, o, entry)
  BY DEF NewsInv, RequestOK, Building, Counting
<1>2. Ids(C) \subseteq Ids(o.counted)
  OBVIOUS
<1> HIDE DEF o, entry
<1>3. w = [counted |-> C, dropped |-> o.dropped, session |-> o.session, days |-> o.days, digest |-> o.digest,
           built |-> o.built, raced |-> o.raced]
  BY <1>1 DEF CountOK, NewsOf, o
<1>4. w = [counted |-> w.counted, dropped |-> w.dropped, session |-> w.session, days |-> w.days, digest |-> w.digest,
           built |-> w.built, raced |-> w.raced]
      /\ w.counted = C /\ w.dropped = o.dropped /\ w.digest = o.digest /\ w.raced = o.raced
  BY <1>3
<1>5. h = [now |-> hand[r].now, entry |-> entry, session |-> hand[r].session, news |-> w]
  BY <1>1
<1>6. hand' = [hand EXCEPT ![r] = h]
  OBVIOUS
<1> HIDE DEF h
<1>7. h = [now |-> h.now, entry |-> h.entry, session |-> h.session, news |-> h.news] /\ h.now = hand[r].now /\ h.entry = entry /\ h.news = w
  BY <1>5
<1>8. CountOK(p, w, entry)
  BY <1>1, <1>2, <1>4 DEF CountOK, NewsOf, Follows, Listed
<1>9. RequestOK(p, h)
  BY <1>1, <1>7, <1>8 DEF RequestOK, Building, Counting
<1>10. p \in Stages
  BY DEF Stages
<1>11. (\A x \in catalogue' : CachedOK(x)) /\ (\A x \in news' : NewsOK(x))
  BY DEF NewsInv
<1> QED BY <1>6, <1>9, <1>10, <1>11, OneHand

\* A course no category of which the viewer is listed is dropped, each other one grouped under one that is.
LEMMA ReadLayerKeeps == ASSUME NewsInv, NEW r \in Requests, ReadLayer(r) PROVE NewsInv'
<1> DEFINE G(k) == IF layer[k] = {} THEN db.group[k] ELSE CHOOSE g \in layer[k] : TRUE
           o == hand[r].news
           C == {[a EXCEPT !.group = G(a.category)] : a \in {x \in o.counted : {x.category, G(x.category)} \subseteq Sees}}
           w == [hand[r].news EXCEPT !.counted = C]
<1>1. pc[r] = "listable" /\ pc' = [pc EXCEPT ![r] = "provider"] /\ UNCHANGED <<site, catalogue, news, roster, held>>
  BY DEF ReadLayer, Goto
<1>2. hand' = [hand EXCEPT ![r] = [hand[r] EXCEPT !.news = w]]
  BY Zenon DEF ReadLayer
<1>3. o.counted \subseteq Line
  BY <1>1 DEF NewsInv, RequestOK, Counting, CountOK
<1> HIDE DEF G, o
<1>4. ASSUME NEW b \in C PROVE b.group \in Sees /\ b.id \in Ids(o.counted)
  <2>1. PICK a \in o.counted : {a.category, G(a.category)} \subseteq Sees /\ b = [a EXCEPT !.group = G(a.category)]
    BY <1>4
  <2>2. a \in Line
    BY <1>3
  <2>3. b.group = G(a.category) /\ b.id = a.id
    BY <2>1, <2>2 DEF Line
  <2> QED BY <2>1, <2>3 DEF Ids
<1>5. Ids(C) \subseteq Ids(hand[r].news.counted)
  BY <1>4 DEF Ids, o
<1> DEFINE q == "listable"
           p == "provider"
<1>6. q \in Counting /\ p \in Counting /\ p # "listable"
  BY DEF Counting
<1>7. pc[r] = q /\ pc' = [pc EXCEPT ![r] = p] /\ \A a \in C : a.group \in Sees
  BY <1>1, <1>4
<1>8. w = [hand[r].news EXCEPT !.counted = C]
  OBVIOUS
<1> HIDE DEF C, q, p, w
<1>9. UNCHANGED <<site, catalogue, news, roster, held>> /\ \A a \in C : a.group \in Sees
  BY <1>1, <1>7
<1> QED BY <1>2, <1>5, <1>6, <1>7, <1>8, <1>9, CountReplaced

LEMMA AskProviderKeeps == ASSUME NewsInv, NEW r \in Requests, AskProvider(r) PROVE NewsInv'
<1> DEFINE C == {a \in hand[r].news.counted : db.course[a.id].visible /\ Offers(db.window[a.id], clock)}
           w == [hand[r].news EXCEPT !.counted = C]
<1>1. pc[r] = "provider" /\ pc' = [pc EXCEPT ![r] = "storenews"] /\ UNCHANGED <<site, catalogue, news, roster, held>>
  BY DEF AskProvider, Goto, viewer
<1>2. hand' = [hand EXCEPT ![r] = [hand[r] EXCEPT !.news = w]]
  BY Zenon DEF AskProvider
<1>3. \A a \in hand[r].news.counted : a.group \in Sees
  BY <1>1 DEF NewsInv, RequestOK, Counting, CountOK, Listed
<1>4. Ids(C) \subseteq Ids(hand[r].news.counted) /\ \A a \in C : a.group \in Sees
  BY <1>3 DEF Ids
<1> DEFINE q == "provider"
           p == "storenews"
<1>5. q \in Counting /\ p \in Counting /\ p # "listable"
  BY DEF Counting
<1>6. pc[r] = q /\ pc' = [pc EXCEPT ![r] = p]
  BY <1>1
<1>7. w = [hand[r].news EXCEPT !.counted = C]
  OBVIOUS
<1> HIDE DEF C, q, p, w
<1> QED BY <1>1, <1>2, <1>4, <1>5, <1>6, <1>7, CountReplaced

LEMMA StoreNewsKeeps == ASSUME NewsInv, NEW r \in Requests, StoreNews(r) PROVE NewsInv'
<1> DEFINE h == hand[r]
<1>1. pc[r] = "storenews" /\ pc' = [pc EXCEPT ![r] = "answered"] /\ news' = {h.news} /\ UNCHANGED <<site, catalogue, hand, roster, held>>
  BY DEF StoreNews, Goto
<1>2. CountOK("storenews", h.news, h.entry) /\ h.now \in Nat /\ h.now <= clock
  BY <1>1 DEF NewsInv, RequestOK, Counting
<1>3. hand' = [hand EXCEPT ![r] = h]
  BY <1>1 DEF NewsInv, TypeOK
<1> HIDE DEF h
<1>4. h.news.digest.rows = h.entry.rows
  BY <1>2 DEF CountOK, Digest
<1>5. NewsOK(h.news)
  BY <1>2 DEF CountOK, NewsOK
<1>6. RequestOK("answered", h)
  BY <1>2, <1>4 DEF RequestOK, Building, Counting, CountOK, NewsOf
<1>7. "answered" \in Stages
  BY DEF Stages
<1>8. (\A x \in catalogue' : CachedOK(x)) /\ (\A x \in news' : NewsOK(x))
  BY <1>1, <1>5 DEF NewsInv
<1> QED BY <1>1, <1>3, <1>6, <1>7, <1>8, OneHand

LEMMA AnswerKeeps == ASSUME NewsInv, NEW r \in Requests, Answer(r) PROVE NewsInv'
<1>1. pc' = [pc EXCEPT ![r] = "idle"] /\ hand' = [hand EXCEPT ![r] = NoHand] /\ UNCHANGED <<site, catalogue, news, roster, held>>
  BY DEF Answer, Goto, Hold, viewer
<1>2. RequestOK("idle", NoHand)
  BY DEF RequestOK, Building, Counting
<1>3. "idle" \in Stages
  BY DEF Stages
<1>4. (\A x \in catalogue' : CachedOK(x)) /\ (\A x \in news' : NewsOK(x))
  BY <1>1 DEF NewsInv
<1> QED BY <1>1, <1>2, <1>3, <1>4, OneHand

(***************************************************************************)
(* A change of the site or of the viewer's enrolments falls between two    *)
(* steps of every request: it marks what it overlaps, and is to show of a  *)
(* hand only that it outlives the change so marked.                        *)
(***************************************************************************)

HandsOK == hand = [r \in Requests |-> hand[r]] /\ \A r \in Requests : RequestOK(pc[r], hand[r])

LEMMA HandRaced ==
    ASSUME NEW p \in Building, NEW h, RequestOK(p, h)
    PROVE  RequestOK(p, [h EXCEPT !.entry = [h.entry EXCEPT !.raced = TRUE]])
           /\ [h EXCEPT !.entry = [h.entry EXCEPT !.raced = TRUE]].entry.raced = TRUE
<1> DEFINE o == h.entry
           yes == TRUE
           e == [o EXCEPT !.raced = yes]
           g == [h EXCEPT !.entry = e]
<1>1. h = [now |-> h.now, entry |-> o] /\ o.built = h.now /\ BuildOK(p, o) /\ h.now \in Nat /\ h.now <= clock
  BY DEF RequestOK, Building
<1> HIDE DEF o, yes
<1>2. e = [rows |-> o.rows, truncated |-> o.truncated, built |-> o.built, until |-> o.until, settings |-> o.settings, raced |-> yes]
  BY <1>1 DEF BuildOK, EntryOf
<1> HIDE DEF e
<1>3. e = [rows |-> e.rows, truncated |-> e.truncated, built |-> e.built, until |-> e.until, settings |-> e.settings, raced |-> e.raced]
      /\ e.rows = o.rows /\ e.truncated = o.truncated /\ e.built = o.built /\ e.until = o.until /\ e.settings = o.settings /\ e.raced = TRUE
  BY <1>2 DEF yes
<1>4. g = [now |-> h.now, entry |-> e]
  BY <1>1
<1> HIDE DEF g
<1>5. g = [now |-> g.now, entry |-> g.entry] /\ g.now = h.now /\ g.entry = e
  BY <1>4
<1>6. ReadSoFar(p, o) => ReadSoFar(p, e)
  BY <1>3 DEF ReadSoFar
<1>7. BuildOK(p, e)
  BY <1>1, <1>3, <1>6 DEF BuildOK, EntryOf, Lives
<1>8. RequestOK(p, g) /\ g.entry.raced = TRUE
  BY <1>1, <1>3, <1>5, <1>7 DEF RequestOK, Building, Counting
<1> QED BY <1>8 DEF g, e, o, yes

LEMMA RacedKeeps ==
    ASSUME NewsInv, MarkRaced, pc' = pc,
           \A p, h : RequestOK(p, h) /\ (p \in Building => h.entry.raced) => RequestOK(p, h)'
    PROVE  HandsOK'
<1> DEFINE E(r) == [hand[r].entry EXCEPT !.raced = TRUE]
<1>1. hand' = [r \in Requests |-> IF pc[r] \in Building THEN [hand[r] EXCEPT !.entry = E(r)] ELSE hand[r]]
  BY Zenon DEF MarkRaced
<1>2. ASSUME NEW r \in Requests PROVE RequestOK(pc[r], hand[r])'
  <2> DEFINE e == E(r)
  <2>1. hand'[r] = IF pc[r] \in Building THEN [hand[r] EXCEPT !.entry = e] ELSE hand[r]
    BY <1>1, Zenon
  <2>2. e = [hand[r].entry EXCEPT !.raced = TRUE]
    OBVIOUS
  <2> HIDE DEF E, e
  <2>3. RequestOK(pc[r], hand[r])
    BY DEF NewsInv
  <2>4. CASE pc[r] \in Building
    <3>1. RequestOK(pc[r], [hand[r] EXCEPT !.entry = e]) /\ [hand[r] EXCEPT !.entry = e].entry.raced = TRUE
      <4> DEFINE p == pc[r]
                 h == hand[r]
      <4>1. RequestOK(p, h) /\ p \in Building /\ e = [h.entry EXCEPT !.raced = TRUE]
        BY <2>2, <2>3, <2>4
      <4> HIDE DEF p, h
      <4>2. RequestOK(p, [h EXCEPT !.entry = e]) /\ [h EXCEPT !.entry = e].entry.raced = TRUE
        BY <4>1, HandRaced, Zenon
      <4> QED BY <4>2 DEF p, h
    <3>2. RequestOK(pc[r], hand'[r]) /\ hand'[r].entry.raced = TRUE
      BY <2>1, <2>4, <3>1
    <3>3. ASSUME NEW s, NEW g, s = pc[r], g = hand'[r] PROVE RequestOK(pc[r], hand[r])'
      <4>1. RequestOK(s, g)'
        BY <3>2, <3>3
      <4> QED BY <3>3, <4>1
    <3> QED BY <3>3
  <2>5. CASE pc[r] \notin Building
    <3>1. hand'[r] = hand[r]
      BY <2>1, <2>5
    <3>2. ASSUME NEW s, NEW g, s = pc[r], g = hand'[r] PROVE RequestOK(pc[r], hand[r])'
      <4>1. RequestOK(s, g)'
        BY <2>3, <2>5, <3>1, <3>2
      <4> QED BY <3>2, <4>1
    <3> QED BY <3>2
  <2> QED BY <2>4, <2>5
<1> HIDE DEF E
<1>3. hand' = [r \in Requests |-> hand'[r]]
  BY <1>1
<1> QED BY <1>2, <1>3 DEF HandsOK

LEMMA HandKeeps ==
    ASSUME NewsInv, UNCHANGED <<pc, hand>>, \A p, h : RequestOK(p, h) => RequestOK(p, h)'
    PROVE  HandsOK'
<1>1. ASSUME NEW r \in Requests PROVE RequestOK(pc[r], hand[r])'
  <2>1. ASSUME NEW s, NEW g, s = pc[r], g = hand[r] PROVE RequestOK(pc[r], hand[r])'
    <3>1. RequestOK(s, g)'
      BY <2>1 DEF NewsInv
    <3> QED BY <2>1, <3>1
  <2> QED BY <2>1
<1> QED BY <1>1 DEF HandsOK, NewsInv, TypeOK

(***************************************************************************)
(* Core's changes                                                          *)
(***************************************************************************)

LEMMA ApplyType == ASSUME NEW d \in Db, NEW ch \in Changes PROVE Apply(d, ch) \in Db
<1>1. CASE ch.kind = "course_updated"
  <2>1. ch.course \in Courses /\ ch.shape \in Shapes
    BY <1>1 DEF Changes
  <2>2. Apply(d, ch) = [d EXCEPT !.course[ch.course] = ch.shape]
    BY <1>1 DEF Apply
  <2> QED BY <2>1, <2>2 DEF Db
<1>2. CASE ch.kind = "enrol_instance_updated"
  <2>1. ch.course \in Courses /\ ch.window \in Windows
    BY <1>2 DEF Changes
  <2>2. Apply(d, ch) = [d EXCEPT !.window[ch.course] = ch.window]
    BY <1>2 DEF Apply
  <2> QED BY <2>1, <2>2 DEF Db
<1>3. CASE ch.kind = "course_category_updated"
  <2>1. ch.category \in Categories /\ ch.group \in Groups
    BY <1>3 DEF Changes
  <2>2. Apply(d, ch) = [d EXCEPT !.group[ch.category] = ch.group]
    BY <1>3 DEF Apply
  <2> QED BY <2>1, <2>2 DEF Db
<1>4. CASE ch.kind = "category_state_updated"
  <2>1. ch.category \in Categories \cup Groups
    BY <1>4 DEF Changes
  <2>2. Apply(d, ch) = [d EXCEPT !.unlisted = (d.unlisted \ {ch.category}) \cup ({ch.category} \ d.unlisted)]
    BY <1>4 DEF Apply
  <2> QED BY <2>1, <2>2 DEF Db
<1> QED BY <1>1, <1>2, <1>3, <1>4 DEF Changes

\* A raced build that began no later than the last commit is claimed nothing of the database.
LEMMA BeginChangeKeeps == ASSUME NewsInv, BeginChange, UNCHANGED viewer PROVE NewsInv'
<1>1. UNCHANGED <<db, settings, clock, touched, catalogue, pc, news, roster, held>> /\ writer = {} /\ MarkRaced
  BY DEF BeginChange, viewer
<1>2. PICK ch \in Changes : writer' = {[change |-> ch, committed |-> FALSE, observed |-> FALSE]}
  BY DEF BeginChange
<1> DEFINE w == [change |-> ch, committed |-> FALSE, observed |-> FALSE]
<1>3. w \in [change : Changes, committed : BOOLEAN, observed : BOOLEAN] /\ w.committed = FALSE /\ w.observed = FALSE
  OBVIOUS
<1>4. writer' = {w}
  BY <1>2
<1> HIDE DEF w
<1>5. \A e : (EntryOf(e) <=> EntryOf(e)') /\ (Lives(e) <=> Lives(e)') /\ (Built(db, e) <=> Built(db, e)')
  BY <1>1 DEF EntryOf, Lives, Built
<1>6. \A e : Whole(e) => Whole(e)'
  BY <1>1, <1>5 DEF Whole
<1>7. \A e \in catalogue' : CachedOK(e)'
  BY <1>1, <1>3, <1>4, <1>5, <1>6 DEF CachedOK, NewsInv
<1>8. \A p, e : BuildOK(p, e) /\ e.raced => BuildOK(p, e)'
  BY <1>1, <1>5 DEF BuildOK, ReadSoFar
<1>9. \A n : (NewsOf(n) <=> NewsOf(n)') /\ (Listed(n) <=> Listed(n)') /\ (NewsOK(n) => NewsOK(n)')
  BY <1>1 DEF NewsOf, Follows, Ids, Listed, NewsOK
<1>10. \A p, n, e : CountOK(p, n, e) => CountOK(p, n, e)'
  BY <1>1, <1>9 DEF CountOK
<1>11. \A p, h : RequestOK(p, h) /\ (p \in Building => h.entry.raced) => RequestOK(p, h)'
  BY <1>1, <1>6, <1>8, <1>9, <1>10 DEF RequestOK, Follows
<1>12. HandsOK'
  BY <1>1, <1>11, RacedKeeps
<1>13. TypeOK'
  BY <1>1, <1>3, <1>4, <1>12 DEF NewsInv, TypeOK, HandsOK
<1>14. \A n \in news' : NewsOK(n)'
  BY <1>1, <1>9 DEF NewsInv
<1> QED BY <1>7, <1>12, <1>13, <1>14 DEF NewsInv, HandsOK

LEMMA CommitKeeps == ASSUME NewsInv, Commit, UNCHANGED viewer PROVE NewsInv'
<1>1. UNCHANGED <<settings, clock, catalogue, pc, news, roster, held>> /\ touched' = clock /\ MarkRaced
  BY DEF Commit, viewer
<1>2. PICK w \in writer :
         /\ ~w.committed
         /\ db' = Apply(db, w.change)
         /\ writer' = IF w.observed THEN {} ELSE {[w EXCEPT !.committed = TRUE]}
  BY DEF Commit
<1>3. w \in [change : Changes, committed : BOOLEAN, observed : BOOLEAN] /\ writer = {w}
  BY DEF NewsInv, TypeOK
<1>4. db' \in Db
  BY <1>2, <1>3, ApplyType DEF NewsInv, TypeOK
<1>5. \/ w.observed /\ writer' = {}
      \/ ~w.observed /\ \E v \in [change : Changes, committed : BOOLEAN, observed : BOOLEAN] :
            writer' = {v} /\ v.committed /\ ~v.observed
  <2> DEFINE yes == TRUE
             v == [w EXCEPT !.committed = yes]
  <2>1. v = [w EXCEPT !.committed = TRUE] /\ yes \in BOOLEAN /\ yes
    OBVIOUS
  <2> HIDE DEF yes
  <2>2. v \in [change : Changes, committed : BOOLEAN, observed : BOOLEAN] /\ v.committed = yes /\ v.observed = w.observed
    BY <1>3, <2>1
  <2> HIDE DEF v
  <2> QED BY <1>2, <2>1, <2>2
<1>6. \A e : EntryOf(e) => EntryOf(e)' /\ ~(touched' < e.built)
  BY <1>1 DEF EntryOf, NewsInv, TypeOK
<1>7. \A e : (Lives(e) <=> Lives(e)') /\ (Whole(e) => Whole(e)')
  BY <1>6 DEF Lives, Whole
<1>8. \A e \in catalogue' : CachedOK(e)'
  <2> SUFFICES ASSUME NEW e \in catalogue PROVE CachedOK(e)'
    BY <1>1
  <2>1. CachedOK(e)
    BY DEF NewsInv
  <2> QED BY <1>3, <1>5, <1>7, <2>1 DEF CachedOK
<1>9. \A p, e : BuildOK(p, e) /\ e.raced => BuildOK(p, e)'
  BY <1>6, <1>7 DEF BuildOK
<1>10. \A n : (NewsOf(n) <=> NewsOf(n)') /\ (Listed(n) <=> Listed(n)') /\ (NewsOK(n) => NewsOK(n)')
  BY <1>1 DEF NewsOf, Follows, Ids, Listed, NewsOK
<1>11. \A p, n, e : CountOK(p, n, e) => CountOK(p, n, e)'
  BY <1>1, <1>10 DEF CountOK
<1>12. \A p, h : RequestOK(p, h) /\ (p \in Building => h.entry.raced) => RequestOK(p, h)'
  BY <1>1, <1>7, <1>9, <1>10, <1>11 DEF RequestOK, Follows
<1>13. HandsOK'
  BY <1>1, <1>12, RacedKeeps
<1>14. TypeOK'
  BY <1>1, <1>4, <1>5, <1>13 DEF NewsInv, TypeOK, HandsOK
<1>15. \A n \in news' : NewsOK(n)'
  BY <1>1, <1>10 DEF NewsInv
<1> QED BY <1>8, <1>13, <1>14, <1>15 DEF NewsInv, HandsOK

\* The observer leaves the cache empty: what a build then stores was raced by it.
LEMMA ObserveKeeps == ASSUME NewsInv, ObserveWithLayer PROVE NewsInv'
<1>1. UNCHANGED <<db, settings, clock, touched, pc, news, roster, held>> /\ catalogue' = {} /\ MarkRaced
  BY DEF ObserveWithLayer, Observe
<1>2. PICK w \in writer :
         ~w.observed /\ writer' = IF w.committed THEN {} ELSE {[w EXCEPT !.observed = TRUE]}
  BY DEF ObserveWithLayer, Observe
<1>3. w \in [change : Changes, committed : BOOLEAN, observed : BOOLEAN]
  BY DEF NewsInv, TypeOK
<1>4. \/ writer' = {}
      \/ \E v \in [change : Changes, committed : BOOLEAN, observed : BOOLEAN] : writer' = {v} /\ ~(v.committed /\ v.observed)
  <2> DEFINE yes == TRUE
             v == [w EXCEPT !.observed = yes]
  <2>1. v = [w EXCEPT !.observed = TRUE] /\ yes \in BOOLEAN
    OBVIOUS
  <2> HIDE DEF yes
  <2>2. v \in [change : Changes, committed : BOOLEAN, observed : BOOLEAN] /\ v.committed = w.committed
    BY <1>3, <2>1
  <2> HIDE DEF v
  <2> QED BY <1>2, <2>1, <2>2
<1>5. \A e : (EntryOf(e) <=> EntryOf(e)') /\ (Lives(e) <=> Lives(e)') /\ (Built(db, e) <=> Built(db, e)')
  BY <1>1 DEF EntryOf, Lives, Built
<1>6. \A e : Whole(e) => Whole(e)'
  BY <1>1, <1>5 DEF Whole
<1>7. \A p, e : BuildOK(p, e) /\ e.raced => BuildOK(p, e)'
  BY <1>1, <1>5 DEF BuildOK, ReadSoFar
<1>8. \A n : (NewsOf(n) <=> NewsOf(n)') /\ (Listed(n) <=> Listed(n)') /\ (NewsOK(n) => NewsOK(n)')
  BY <1>1 DEF NewsOf, Follows, Ids, Listed, NewsOK
<1>9. \A p, n, e : CountOK(p, n, e) => CountOK(p, n, e)'
  BY <1>1, <1>8 DEF CountOK
<1>10. \A p, h : RequestOK(p, h) /\ (p \in Building => h.entry.raced) => RequestOK(p, h)'
  BY <1>1, <1>6, <1>7, <1>8, <1>9 DEF RequestOK, Follows
<1>11. HandsOK'
  BY <1>1, <1>10, RacedKeeps
<1>12. TypeOK'
  BY <1>1, <1>4, <1>11 DEF NewsInv, TypeOK, HandsOK
<1> QED BY <1>1, <1>8, <1>11, <1>12 DEF NewsInv, HandsOK

\* Neither the settings nor the clock are told by an entry of another time.
LEMMA ConfigureOrTickKeeps == ASSUME NewsInv, Configure \/ Tick, UNCHANGED viewer PROVE NewsInv'
<1>1. UNCHANGED <<db, touched, writer, catalogue, pc, hand, news, roster, held>>
  BY DEF Configure, Tick, viewer
<1>2. settings' \in Settings /\ clock' \in Nat /\ clock <= clock' /\ touched \in Nat /\ clock \in Nat /\ touched <= clock
  BY DEF Configure, Tick, NewsInv, TypeOK
<1>3. \A e : (EntryOf(e) => EntryOf(e)') /\ (Lives(e) <=> Lives(e)') /\ (Built(db, e) <=> Built(db, e)')
  BY <1>1, <1>2 DEF EntryOf, Lives, Built
<1>4. \A e : (Whole(e) => Whole(e)') /\ (CachedOK(e) => CachedOK(e)')
  BY <1>1, <1>3 DEF Whole, CachedOK
<1>5. \A p, e : BuildOK(p, e) => BuildOK(p, e)'
  BY <1>1, <1>3 DEF BuildOK, ReadSoFar
<1>6. \A n : (NewsOf(n) <=> NewsOf(n)') /\ (Listed(n) <=> Listed(n)') /\ (NewsOK(n) => NewsOK(n)')
  BY <1>1 DEF NewsOf, Follows, Ids, Listed, NewsOK
<1>7. \A p, n, e : CountOK(p, n, e) => CountOK(p, n, e)'
  BY <1>1, <1>6 DEF CountOK
<1>8. \A p, h : RequestOK(p, h) => RequestOK(p, h)'
  BY <1>1, <1>2, <1>4, <1>5, <1>6, <1>7 DEF RequestOK, Follows
<1>9. HandsOK'
  BY <1>1, <1>8, HandKeeps
<1>10. TypeOK'
  BY <1>1, <1>2, <1>9 DEF NewsInv, TypeOK, HandsOK
<1> QED BY <1>1, <1>4, <1>6, <1>9, <1>10 DEF NewsInv, HandsOK

(***************************************************************************)
(* The viewer's enrolments                                                 *)
(***************************************************************************)

LEMMA NewsHandRaced ==
    ASSUME NEW p \in Counting, NEW h, RequestOK(p, h)
    PROVE  RequestOK(p, [h EXCEPT !.news = [h.news EXCEPT !.raced = TRUE]])
           /\ [h EXCEPT !.news = [h.news EXCEPT !.raced = TRUE]].news.raced = TRUE
<1> DEFINE o == h.news
           yes == TRUE
           w == [o EXCEPT !.raced = yes]
           g == [h EXCEPT !.news = w]
<1>1. h = [now |-> h.now, entry |-> h.entry, session |-> h.session, news |-> o] /\ CountOK(p, o, h.entry) /\ h.now \in Nat /\ h.now <= clock
  BY DEF RequestOK, Counting
<1> HIDE DEF o, yes
<1>2. w = [counted |-> o.counted, dropped |-> o.dropped, session |-> o.session, days |-> o.days, digest |-> o.digest,
           built |-> o.built, raced |-> yes]
  BY <1>1 DEF CountOK, NewsOf
<1> HIDE DEF w
<1>3. w = [counted |-> w.counted, dropped |-> w.dropped, session |-> w.session, days |-> w.days, digest |-> w.digest,
           built |-> w.built, raced |-> w.raced]
      /\ w.counted = o.counted /\ w.dropped = o.dropped /\ w.digest = o.digest /\ w.raced = TRUE
  BY <1>2 DEF yes
<1>4. g = [now |-> h.now, entry |-> h.entry, session |-> h.session, news |-> w]
  BY <1>1
<1> HIDE DEF g
<1>5. g = [now |-> g.now, entry |-> g.entry, session |-> g.session, news |-> g.news] /\ g.now = h.now /\ g.entry = h.entry /\ g.news = w
  BY <1>4
<1>6. CountOK(p, w, h.entry)
  BY <1>1, <1>3 DEF CountOK, NewsOf, Follows, Listed
<1>7. RequestOK(p, g) /\ g.news.raced = TRUE
  BY <1>1, <1>3, <1>5, <1>6 DEF RequestOK, Building, Counting
<1> QED BY <1>7 DEF g, w, o, yes

LEMMA NewsRacedKeeps ==
    ASSUME NewsInv, MarkNewsRaced, pc' = pc,
           \A p, h : RequestOK(p, h) /\ (p \in Counting => h.news.raced) => RequestOK(p, h)'
    PROVE  HandsOK'
<1> DEFINE N(r) == [hand[r].news EXCEPT !.raced = TRUE]
<1>1. hand' = [r \in Requests |-> IF pc[r] \in Counting THEN [hand[r] EXCEPT !.news = N(r)] ELSE hand[r]]
  BY Zenon DEF MarkNewsRaced, Counting
<1>2. ASSUME NEW r \in Requests PROVE RequestOK(pc[r], hand[r])'
  <2> DEFINE n == N(r)
  <2>1. hand'[r] = IF pc[r] \in Counting THEN [hand[r] EXCEPT !.news = n] ELSE hand[r]
    BY <1>1, Zenon
  <2>2. n = [hand[r].news EXCEPT !.raced = TRUE]
    OBVIOUS
  <2> HIDE DEF N, n
  <2>3. RequestOK(pc[r], hand[r])
    BY DEF NewsInv
  <2>4. CASE pc[r] \in Counting
    <3>1. RequestOK(pc[r], [hand[r] EXCEPT !.news = n]) /\ [hand[r] EXCEPT !.news = n].news.raced = TRUE
      <4> DEFINE p == pc[r]
                 h == hand[r]
      <4>1. RequestOK(p, h) /\ p \in Counting /\ n = [h.news EXCEPT !.raced = TRUE]
        BY <2>2, <2>3, <2>4
      <4> HIDE DEF p, h
      <4>2. RequestOK(p, [h EXCEPT !.news = n]) /\ [h EXCEPT !.news = n].news.raced = TRUE
        BY <4>1, NewsHandRaced, Zenon
      <4> QED BY <4>2 DEF p, h
    <3>2. RequestOK(pc[r], hand'[r]) /\ hand'[r].news.raced = TRUE
      BY <2>1, <2>4, <3>1
    <3>3. ASSUME NEW s, NEW g, s = pc[r], g = hand'[r] PROVE RequestOK(pc[r], hand[r])'
      <4>1. RequestOK(s, g)'
        BY <3>2, <3>3
      <4> QED BY <3>3, <4>1
    <3> QED BY <3>3
  <2>5. CASE pc[r] \notin Counting
    <3>1. hand'[r] = hand[r]
      BY <2>1, <2>5
    <3>2. ASSUME NEW s, NEW g, s = pc[r], g = hand'[r] PROVE RequestOK(pc[r], hand[r])'
      <4>1. RequestOK(s, g)'
        BY <2>3, <2>5, <3>1, <3>2
      <4> QED BY <3>2, <4>1
    <3> QED BY <3>2
  <2> QED BY <2>4, <2>5
<1> HIDE DEF N
<1>3. hand' = [r \in Requests |-> hand'[r]]
  BY <1>1
<1> QED BY <1>2, <1>3 DEF HandsOK

\* A move's step keeps what the entries tell of the site, and marks the answers it overlaps.
LEMMA MoveKeeps ==
    ASSUME NewsInv, MarkNewsRaced, UNCHANGED <<site, catalogue, pc>>,
           \/ roster' = {}
           \/ \E w \in [course : Courses, committed : BOOLEAN, observed : BOOLEAN] :
                 roster' = {w} /\ ~(w.committed /\ w.observed),
           \A n \in news' : n \in news /\ (NewsOK(n) => NewsOK(n)')
    PROVE  NewsInv'
<1>1. UNCHANGED <<db, settings, clock, touched, writer, catalogue, pc>>
  BY DEF site
<1>2. \A e : (EntryOf(e) <=> EntryOf(e)') /\ (Lives(e) <=> Lives(e)') /\ (Built(db, e) <=> Built(db, e)')
  BY <1>1 DEF EntryOf, Lives, Built
<1>3. \A e : (Whole(e) => Whole(e)') /\ (CachedOK(e) => CachedOK(e)')
  BY <1>1, <1>2 DEF Whole, CachedOK
<1>4. \A p, e : BuildOK(p, e) => BuildOK(p, e)'
  BY <1>1, <1>2 DEF BuildOK, ReadSoFar
<1>5. \A n : (NewsOf(n) <=> NewsOf(n)') /\ (Listed(n) <=> Listed(n)')
  BY DEF NewsOf, Follows, Ids, Listed
<1>6. \A p, n, e : CountOK(p, n, e) /\ n.raced => CountOK(p, n, e)'
  BY <1>1, <1>5 DEF CountOK
<1>7. \A p, h : RequestOK(p, h) /\ (p \in Counting => h.news.raced) => RequestOK(p, h)'
  BY <1>1, <1>3, <1>4, <1>5, <1>6 DEF RequestOK, Follows
<1>8. HandsOK'
  BY <1>1, <1>7, NewsRacedKeeps
<1>9. TypeOK'
  BY <1>1, <1>8 DEF NewsInv, TypeOK, HandsOK
<1> QED BY <1>1, <1>3, <1>8, <1>9 DEF NewsInv, HandsOK

\* An enrolment that begins is of a course no answer withholds for it, one that is removed has yet to be observed.
LEMMA BeginMoveKeeps == ASSUME NewsInv, BeginMove PROVE NewsInv'
<1>1. MarkNewsRaced /\ UNCHANGED <<site, catalogue, pc, news, held>> /\ roster = {}
  BY DEF BeginMove
<1>2. PICK c \in Courses : roster' = {[course |-> c, committed |-> FALSE, observed |-> c \notin held]}
  BY DEF BeginMove
<1> DEFINE observed == c \notin held
           w == [course |-> c, committed |-> FALSE, observed |-> observed]
<1>3. observed \in BOOLEAN /\ (observed => c \notin held) /\ roster' = {w}
  BY <1>2
<1> HIDE DEF observed
<1>4. w \in [course : Courses, committed : BOOLEAN, observed : BOOLEAN] /\ w.course = c /\ w.committed = FALSE /\ w.observed = observed
  BY <1>3
<1> HIDE DEF w
<1>5. \A n : NewsOK(n) => NewsOK(n)'
  BY <1>1, <1>3, <1>4 DEF NewsOK, NewsOf, Follows, Ids, Listed
<1> QED BY <1>1, <1>3, <1>4, <1>5, MoveKeeps

LEMMA CommitMoveKeeps == ASSUME NewsInv, CommitMove PROVE NewsInv'
<1>1. MarkNewsRaced /\ UNCHANGED <<site, catalogue, pc, news>>
  BY DEF CommitMove
<1>2. PICK w \in roster :
         /\ ~w.committed
         /\ held' = (held \ {w.course}) \cup ({w.course} \ held)
         /\ roster' = IF w.observed THEN {} ELSE {[w EXCEPT !.committed = TRUE]}
  BY DEF CommitMove
<1>3. w \in [course : Courses, committed : BOOLEAN, observed : BOOLEAN] /\ roster = {w}
  BY DEF NewsInv, TypeOK
<1>4. \/ w.observed /\ roster' = {}
      \/ ~w.observed /\ \E v \in [course : Courses, committed : BOOLEAN, observed : BOOLEAN] :
            roster' = {v} /\ v.committed /\ ~v.observed
  <2> DEFINE yes == TRUE
             v == [w EXCEPT !.committed = yes]
  <2>1. v = [w EXCEPT !.committed = TRUE] /\ yes \in BOOLEAN /\ yes
    OBVIOUS
  <2> HIDE DEF yes
  <2>2. v \in [course : Courses, committed : BOOLEAN, observed : BOOLEAN] /\ v.committed = yes /\ v.observed = w.observed
    BY <1>3, <2>1
  <2> HIDE DEF v
  <2> QED BY <1>2, <2>1, <2>2
<1>5. \A n : NewsOK(n) => NewsOK(n)'
  <2>1. \A n : (NewsOf(n) <=> NewsOf(n)') /\ (Listed(n) <=> Listed(n)')
    BY DEF NewsOf, Follows, Ids, Listed
  <2>2. CASE ~w.observed
    BY <1>4, <2>1, <2>2 DEF NewsOK
  <2>3. CASE w.observed
    <3>1. roster' = {} /\ (w.course \notin held => held \subseteq held')
      BY <1>2, <2>3
    <3> QED BY <1>2, <1>3, <2>1, <2>3, <3>1 DEF NewsOK
  <2> QED BY <2>2, <2>3
<1> QED BY <1>1, <1>4, <1>5, MoveKeeps

LEMMA AccessChangedKeeps == ASSUME NewsInv, AccessChanged PROVE NewsInv'
<1>1. MarkNewsRaced /\ UNCHANGED <<site, catalogue, pc, held>> /\ news' = {}
  BY DEF AccessChanged
<1>2. PICK w \in roster :
         ~w.observed /\ roster' = IF w.committed THEN {} ELSE {[w EXCEPT !.observed = TRUE]}
  BY DEF AccessChanged
<1>3. w \in [course : Courses, committed : BOOLEAN, observed : BOOLEAN]
  BY DEF NewsInv, TypeOK
<1>4. \/ roster' = {}
      \/ \E v \in [course : Courses, committed : BOOLEAN, observed : BOOLEAN] : roster' = {v} /\ ~(v.committed /\ v.observed)
  <2> DEFINE yes == TRUE
             v == [w EXCEPT !.observed = yes]
  <2>1. v = [w EXCEPT !.observed = TRUE] /\ yes \in BOOLEAN
    OBVIOUS
  <2> HIDE DEF yes
  <2>2. v \in [course : Courses, committed : BOOLEAN, observed : BOOLEAN] /\ v.committed = w.committed
    BY <1>3, <2>1
  <2> HIDE DEF v
  <2> QED BY <1>2, <2>1, <2>2
<1> QED BY <1>1, <1>4, MoveKeeps

(***************************************************************************)
(* The invariant                                                           *)
(***************************************************************************)

LEMMA InitHolds == ASSUME NewsInit PROVE NewsInv
<1>1. db \in Db
  BY DEF NewsInit, Init, Db
<1>2. settings \in Settings /\ clock = 0 /\ touched = 0 /\ writer = {} /\ roster = {} /\ catalogue = {} /\ news = {}
      /\ pc = [r \in Requests |-> "idle"] /\ hand = [r \in Requests |-> NoHand]
  BY DEF NewsInit, Init
<1>3. \A r \in Requests : RequestOK(pc[r], hand[r])
  BY <1>2 DEF RequestOK, Building, Counting
<1>4. TypeOK
  BY <1>1, <1>2 DEF TypeOK, Stages
<1> QED BY <1>2, <1>3, <1>4 DEF NewsInv

LEMMA NextKeeps == ASSUME NewsInv, [NewsNext]_newsvars PROVE NewsInv'
<1>1. ASSUME NEW r \in Requests, Look(r), UNCHANGED viewer PROVE NewsInv'
  BY <1>1, OpenKeeps, HitKeeps, MissKeeps, ReadCandidatesKeeps, ReadUnlistedKeeps, ReadNextChangeKeeps, StoreKeeps DEF Look
<1>2. ASSUME NEW r \in Requests, NewsHit(r) \/ ReadHistory(r) \/ ReadLayer(r) \/ AskProvider(r) \/ StoreNews(r) \/ Answer(r) PROVE NewsInv'
  BY <1>2, NewsHitKeeps, ReadHistoryKeeps, ReadLayerKeeps, AskProviderKeeps, StoreNewsKeeps, AnswerKeeps
<1>3. CASE UNCHANGED newsvars
  <2>1. UNCHANGED <<db, settings, clock, touched, writer, catalogue, pc, hand, news, roster, held>>
    BY <1>3 DEF newsvars, vars, viewer
  <2>2. HandsOK'
    BY <2>1, SiteStays, HandKeeps
  <2>3. (\A e \in catalogue' : CachedOK(e)') /\ (\A n \in news' : NewsOK(n)')
    BY <2>1, SiteStays DEF NewsInv
  <2>4. TypeOK'
    BY <2>1 DEF NewsInv, TypeOK
  <2> QED BY <2>2, <2>3, <2>4 DEF NewsInv, HandsOK
<1> QED BY <1>1, <1>2, <1>3, BeginChangeKeeps, CommitKeeps, ObserveKeeps, ConfigureOrTickKeeps,
        BeginMoveKeeps, CommitMoveKeeps, AccessChangedKeeps DEF NewsNext

(***************************************************************************)
(* The theorems                                                            *)
(***************************************************************************)

\* What is claimed of the cached entries and of every request's hand holds in every reachable state.
THEOREM NewsInvariant == NewsSpec => []NewsInv
<1>1. NewsInit => NewsInv
  BY InitHolds
<1>2. NewsInv /\ [NewsNext]_newsvars => NewsInv'
  BY NextKeeps
<1> QED BY <1>1, <1>2, PTL DEF NewsSpec

\* An entry no change overlapped is exact at every second it is served.
THEOREM EntriesAreExact == NewsSpec => []UnracedEntryIsExact
<1>1. NewsInv => UnracedEntryIsExact
  <2> SUFFICES ASSUME NewsInv, writer = {}, NEW e \in catalogue, ~e.raced, IsFresh(e, clock, settings)
               PROVE  Exact(e, clock, settings)
    BY DEF UnracedEntryIsExact
  <2>1. CachedOK(e) /\ db \in Db /\ clock \in Nat
    BY DEF NewsInv, TypeOK
  <2>2. Built(db, e) /\ e.built \in Nat /\ e.built <= clock /\ e.settings \in Settings /\ clock < e.until /\ e.settings = settings
    BY <2>1 DEF CachedOK, Whole, EntryOf, IsFresh
  <2> QED BY <2>1, <2>2, BuiltIsExact
<1> QED BY <1>1, NewsInvariant, PTL

\* What a race left behind is served no longer than MAX_AGE.
THEOREM RacesEnd == NewsSpec => []RacesEndWithMaxAge
<1>1. NewsInv => RacesEndWithMaxAge
  <2> SUFFICES ASSUME NewsInv, NEW r \in Requests, pc[r] = "have", touched + MaxAge <= hand[r].now
               PROVE  Exact(hand[r].entry, AnsweredAt(hand[r]), hand[r].entry.settings)
    BY DEF RacesEndWithMaxAge
  <2> DEFINE h == hand[r]
             e == h.entry
             t == AnsweredAt(h)
  <2>1. RequestOK(pc[r], h) /\ db \in Db /\ touched \in Nat /\ MaxAge \in Nat \ {0}
    BY Durations DEF NewsInv, TypeOK
  <2>2. Whole(e) /\ h.now < e.until /\ h.now \in Nat
    BY <2>1 DEF RequestOK
  <2>3. t = IF e.built > h.now THEN e.built ELSE h.now
    BY DEF AnsweredAt
  <2>4. touched + MaxAge <= h.now
    OBVIOUS
  <2> HIDE DEF h, e, t
  <2>5. e.built \in Nat /\ e.settings \in Settings /\ e.until \in Nat /\ e.built < e.until /\ e.until <= e.built + MaxAge
    BY <2>2 DEF Whole, EntryOf, Lives
  <2>6. touched < e.built /\ t \in Nat /\ e.built <= t /\ t < e.until
    BY <2>1, <2>2, <2>3, <2>4, <2>5
  <2>7. Built(db, e)
    BY <2>2, <2>6 DEF Whole
  <2>8. Exact(e, t, e.settings)
    BY <2>1, <2>5, <2>6, <2>7, BuiltIsExact
  <2> QED BY <2>8 DEF h, e, t
<1> QED BY <1>1, NewsInvariant, PTL

\* No count outlives a change of the rows it was made from.
THEOREM AnswersFollowTheRows == NewsSpec => []AnswerFollowsTheCatalogue
<1>1. NewsInv => AnswerFollowsTheCatalogue
  BY DEF NewsInv, RequestOK, Follows, Listed, AnswerFollowsTheCatalogue
<1> QED BY <1>1, NewsInvariant, PTL

\* No course is withheld for an enrolment whose removal is over.
THEOREM WithdrawalsAreSeen == NewsSpec => []WithdrawalIsSeen
<1>1. NewsInv => WithdrawalIsSeen
  BY DEF NewsInv, NewsOK, WithdrawalIsSeen
<1> QED BY <1>1, NewsInvariant, PTL

=============================================================================

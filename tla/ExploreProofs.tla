--------------------------- MODULE ExploreProofs ---------------------------
(***************************************************************************)
(* Proofs about Explore: for any courses, orders, page sizes and bounds,   *)
(* no list shows a course twice, an open group is asked for, what is shown *)
(* was asked for under the criteria in force, a group drawn to its end     *)
(* draws exactly the server's courses, and the copies of a course show the *)
(* star the server has.                                                    *)
(***************************************************************************)
EXTENDS Explore, FiniteSetTheorems, SequenceTheorems, TLAPS

(***************************************************************************)
(* The shape of the state                                                  *)
(***************************************************************************)

Modes == {"none", "full", "paged"}
States == {"sent", "served", "failed"}
Cursors == Courses \cup {"0"}
Rows == [id : Courses, fav : BOOLEAN]

Args == [mode : Modes, after : Cursors, chip : Scopes \cup Chips, sel : BOOLEAN, sort : {"recent", "name"}]

PageStates ==
    [rows : Seq(Rows), after : Cursors, hasmore : BOOLEAN, loaded : BOOLEAN, loading : BOOLEAN, failed : BOOLEAN,
     under : SUBSET Args, torn : BOOLEAN]

Payloads == [mode : Modes, groups : SUBSET Groups, rows : Seq(Rows)]
Hits == [shown : BOOLEAN, rows : Seq(Rows), sel : BOOLEAN, query : Queries]
Criteria == [scope : Scopes, star : BOOLEAN, sel : BOOLEAN, sort : {"category", "recent"}]
OpenGroups == [Groups -> BOOLEAN]
Answers == [rows : Seq(Rows), after : Cursors, hasmore : BOOLEAN, mode : Modes, groups : SUBSET Groups]

Inventories == [kind : {"inventory"}, first : BOOLEAN, state : States, answer : Answers]
Searches == [kind : {"search"}, query : Queries, sel : BOOLEAN, state : States, answer : Answers]
Pages == [kind : {"page"}, group : Groups, args : Args, before : SUBSET Courses, state : States, answer : Answers]

\* A write: what it is about is what was drawn when it was pressed.
IsStar(r) ==
    /\ r.kind = "star"
    /\ r = [kind |-> "star", course |-> r.course, fav |-> r.fav, tier |-> r.tier, state |-> r.state]
    /\ r.fav \in BOOLEAN /\ r.state \in States
IsArchive(r) ==
    /\ r.kind = "archive"
    /\ r = [kind |-> "archive", courses |-> r.courses, archived |-> r.archived, state |-> r.state]
    /\ r.state \in States

IsRequest(r) == r \in Inventories \cup Searches \cup Pages \/ IsStar(r) \/ IsArchive(r)

IsServer(s) ==
    /\ s = [fav |-> s.fav, archived |-> s.archived, recent |-> s.recent]
    /\ s.recent \in Seq(Courses) /\ IsInjective(s.recent)

\* The parts a render is given.
Shape(n, d, p, o, c, app, h) ==
    /\ \A r \in n : IsRequest(r)
    /\ d \in Payloads /\ p \in [Groups -> PageStates] /\ o \in OpenGroups
    /\ c \in Criteria /\ app \in Queries /\ h \in Hits

TypeOK ==
    /\ Shape(net, data, pages, open, crit, applied, hits)
    /\ IsServer(srv)
    /\ openbefore \in [held : BOOLEAN, open : OpenGroups]
    /\ query \in Queries
    /\ failed \in BOOLEAN /\ searchfailed \in BOOLEAN /\ searched \in BOOLEAN

(***************************************************************************)
(* The inductive invariants                                                *)
(***************************************************************************)

NoTwins(rows) == \A i, j \in DOMAIN rows : rows[i].id = rows[j].id => i = j

\* A group with no page holds no rows, and a cursor that names no row is a first page's or the last's.
CursorInv(page) ==
    /\ page.failed => ~page.loading
    /\ ~page.loaded => page.rows = <<>>
    /\ page.after = "0" => page.rows = <<>> \/ ~page.hasmore

\* While its request is out a group's rows are those the request was sent with.
Waits(r, page) ==
    /\ page.loading
    /\ r.before = Ids(page.rows)
    /\ r.args.after = "0" => page.rows = <<>>

PagesInv(n, p) ==
    /\ \A g \in Groups : CursorInv(p[g]) /\ NoTwins(p[g].rows)
    /\ \A r \in Of(n, "page") : Waits(r, p[r.group])
    /\ \A q, r \in Of(n, "page") : q.group = r.group => q = r

\* An answer on its way, as the server gave it.
AnswerInv(r) ==
    r.kind \in Reads /\ r.state = "served" =>
        /\ NoTwins(r.answer.rows)
        /\ r.kind = "page" /\ r.answer.after = "0" => r.answer.rows = <<>> /\ ~r.answer.hasmore

ListsInv(n, d, h) == NoTwins(d.rows) /\ NoTwins(h.rows) /\ \A r \in n : AnswerInv(r)

\* What a page was asked under, its cursor apart.
Under(r) == [r.args EXCEPT !.after = "0"]
InForce(a, d, c) == a.mode = d.mode => a = PageArgs(d.mode, c, "0")

UnderInv(n, d, p, c) ==
    /\ \A g \in Groups : \A a \in p[g].under : InForce(a, d, c)
    /\ \A r \in Of(n, "page") : InForce(Under(r), d, c)

OneMode(n, d, p) ==
    /\ \A g \in Groups : \A a \in p[g].under : a.mode = d.mode
    /\ \A r \in Of(n, "page") : r.args.mode = d.mode

\* The mode changes under no page of another one: while it may, every page is of the mode in force.
ModesInv(f, n, d, p) ==
    /\ \A q, r \in Of(n, "inventory") : q = r
    /\ f \/ Of(n, "inventory") # {} => OneMode(n, d, p)

\* In paged mode a search out is for what is applied and chosen.
SearchInv(n, d, c, app, h, sf, sd) ==
    /\ h.shown \/ Of(n, "search") # {} => sd
    /\ d.mode = "paged" =>
          /\ \A r \in Of(n, "search") : r.query = app /\ r.sel = c.sel
          /\ h.shown => (h.query = app /\ h.sel = c.sel) \/ sf \/ Of(n, "search") # {}

StarsOf(n, c) == {r \in Of(n, "star") : r.course = c}
ShowsStar(rows, c, s) == \A i \in DOMAIN rows : rows[i].id = c => rows[i].fav = (c \in s.fav)

\* One write of a star at a time: an answer on its way has the server's star, and so has every copy until the
\* write has been served, when the write itself carries it.
StarInv(s, n, d, p, h, m) ==
    \A c \in Courses \ m :
        /\ \A q, r \in StarsOf(n, c) : q = r
        /\ \A r \in StarsOf(n, c) : r.state = "served" => r.fav = (c \in s.fav)
        /\ \A r \in n : r.kind \in Reads /\ r.state = "served" => ShowsStar(r.answer.rows, c, s)
        /\ (\A r \in StarsOf(n, c) : r.state # "served") =>
              /\ ShowsStar(d.rows, c, s) /\ ShowsStar(h.rows, c, s)
              /\ \A g \in Groups : ShowsStar(p[g].rows, c, s)

\* What a render is given holds already what it keeps.
Sound(s, n, d, p, c, h, f, m) ==
    /\ PagesInv(n, p)
    /\ ListsInv(n, d, h)
    /\ UnderInv(n, d, p, c)
    /\ ModesInv(f, n, d, p)
    /\ StarInv(s, n, d, p, h, m)

ExploreInv ==
    /\ TypeOK
    /\ Sound(srv, net, data, pages, crit, hits, failed, muddled)
    /\ SearchInv(net, data, crit, applied, hits, searchfailed, searched)
    /\ OpenGroupIsAskedFor

(***************************************************************************)
(* Lemmas: a list in order                                                 *)
(***************************************************************************)

\* What InOrder is made of: the places it takes, how many of them come up to one, and the k-th of them.
Places(s, S) == {i \in DOMAIN s : s[i] \in S}
UpTo(P, i) == {j \in P : j <= i}
AtPlace(P, k) == CHOOSE i \in P : Cardinality(UpTo(P, i)) = k

LEMMA InOrderIs ==
    ASSUME NEW s, NEW S
    PROVE  InOrder(s, S) = [k \in 1 .. Cardinality(Places(s, S)) |-> s[AtPlace(Places(s, S), k)]]
BY DEF InOrder, Places, UpTo, AtPlace

\* The places of a list are numbered in their order.
LEMMA PlacesAreNumbered ==
    ASSUME NEW N \in Nat, NEW P \in SUBSET (1 .. N)
    PROVE  /\ IsFiniteSet(P) /\ Cardinality(P) \in Nat
           /\ \A i \in P : IsFiniteSet(UpTo(P, i)) /\ Cardinality(UpTo(P, i)) \in 1 .. Cardinality(P)
           /\ \A i, j \in P : i < j => Cardinality(UpTo(P, i)) < Cardinality(UpTo(P, j))
           /\ \A k \in 1 .. Cardinality(P) : AtPlace(P, k) \in P /\ Cardinality(UpTo(P, AtPlace(P, k))) = k
<1> DEFINE n == Cardinality(P)
           rank == [i \in P |-> Cardinality(UpTo(P, i))]
<1>1. IsFiniteSet(P) /\ n \in Nat /\ \A i \in P : i \in Int
  <2>1. IsFiniteSet(1 .. N)
    BY FS_Interval
  <2>2. IsFiniteSet(P)
    BY <2>1, FS_Subset
  <2>3. \A i \in P : i \in Int
    OBVIOUS
  <2> QED BY <2>2, <2>3, FS_CardinalityType
<1>2. \A i \in P : IsFiniteSet(UpTo(P, i)) /\ Cardinality(UpTo(P, i)) \in Nat
  <2>1. \A i \in P : UpTo(P, i) \in SUBSET P
    BY DEF UpTo
  <2> QED BY <1>1, <2>1, FS_Subset, FS_CardinalityType
<1>3. ASSUME NEW i \in P PROVE Cardinality(UpTo(P, i)) \in 1 .. n
  <2>1. UpTo(P, i) \in SUBSET P /\ UpTo(P, i) # {}
    BY <1>1 DEF UpTo
  <2>2. Cardinality(UpTo(P, i)) <= n
    BY <1>1, <2>1, FS_Subset
  <2>3. Cardinality(UpTo(P, i)) # 0
    BY <1>2, <2>1, FS_EmptySet
  <2> HIDE DEF n
  <2> QED BY <1>1, <1>2, <2>2, <2>3
<1>4. ASSUME NEW i \in P, NEW j \in P, i < j PROVE Cardinality(UpTo(P, i)) < Cardinality(UpTo(P, j))
  <2>1. UpTo(P, i) \in SUBSET UpTo(P, j) /\ j \in UpTo(P, j) /\ j \notin UpTo(P, i)
    <3>1. i \in Int /\ j \in Int /\ ~(j <= i) /\ j <= j
      BY <1>1, <1>4
    <3>2. \A k \in P : k <= i => k <= j
      BY <1>1, <1>4
    <3> QED BY <3>1, <3>2 DEF UpTo
  <2>2. Cardinality(UpTo(P, i)) <= Cardinality(UpTo(P, j)) /\ Cardinality(UpTo(P, i)) # Cardinality(UpTo(P, j))
    BY <1>2, <2>1, FS_Subset
  <2> QED BY <1>2, <2>2
<1>5. rank \in Injection(P, 1 .. n)
  <2>1. rank \in [P -> 1 .. n]
    BY <1>3
  <2>2. \A i, j \in P : rank[i] = rank[j] => i = j
    <3> TAKE i, j \in P
    <3>1. i \in Int /\ j \in Int
      BY <1>1
    <3> QED BY <1>2, <1>4, <3>1
  <2> HIDE DEF rank
  <2> QED BY <2>1, <2>2 DEF Injection, IsInjective
<1>6. \A k \in 1 .. n : \E i \in P : rank[i] = k
  <2>1. IsFiniteSet(1 .. n) /\ Cardinality(1 .. n) = n
    BY <1>1, FS_Interval
  <2> HIDE DEF rank
  <2>2. rank \in Surjection(P, 1 .. n)
    BY <1>5, <2>1, FS_Injection
  <2> QED BY <2>2 DEF Surjection
<1>7. ASSUME NEW k \in 1 .. n PROVE AtPlace(P, k) \in P /\ Cardinality(UpTo(P, AtPlace(P, k))) = k
  <2>1. \E i \in P : Cardinality(UpTo(P, i)) = k
    BY <1>6
  <2> QED BY <2>1 DEF AtPlace
<1> QED BY <1>1, <1>2, <1>3, <1>4, <1>7

\* A place is the one its number names.
LEMMA PlaceOfNumber ==
    ASSUME NEW N \in Nat, NEW P \in SUBSET (1 .. N), NEW i \in P
    PROVE  AtPlace(P, Cardinality(UpTo(P, i))) = i
<1> DEFINE k == Cardinality(UpTo(P, i))
           j == AtPlace(P, k)
<1>1. k \in 1 .. Cardinality(P)
  BY PlacesAreNumbered
<1> HIDE DEF k
<1>2. j \in P /\ Cardinality(UpTo(P, j)) = k
  BY <1>1, PlacesAreNumbered
<1> HIDE DEF j
<1>3. i \in Int /\ j \in Int
  BY <1>2
<1>4. ~(i < j) /\ ~(j < i)
  <2>1. i < j => Cardinality(UpTo(P, i)) < Cardinality(UpTo(P, j))
    BY <1>2, PlacesAreNumbered
  <2>2. j < i => Cardinality(UpTo(P, j)) < Cardinality(UpTo(P, i))
    BY <1>2, PlacesAreNumbered
  <2>3. k \in Int /\ Cardinality(UpTo(P, i)) = k
    BY <1>1 DEF k
  <2> QED BY <1>2, <2>1, <2>2, <2>3
<1>5. i = j
  BY <1>3, <1>4
<1> QED BY <1>5 DEF j, k

\* The elements of s that are in S: each place of the new order has one place of the old one, and no two the same.
LEMMA InOrderKeeps ==
    ASSUME NEW T, NEW s \in Seq(T), NEW S
    PROVE  /\ InOrder(s, S) \in Seq(T)
           /\ \A k \in DOMAIN InOrder(s, S) : InOrder(s, S)[k] \in S
           /\ IsInjective(s) => IsInjective(InOrder(s, S))
<1> DEFINE P == Places(s, S)
           n == Cardinality(P)
           t == InOrder(s, S)
<1>1. Len(s) \in Nat /\ DOMAIN s = 1 .. Len(s) /\ P \in SUBSET (1 .. Len(s)) /\ \A i \in P : s[i] \in T /\ s[i] \in S
  BY DEF Places
<1>2. t = [k \in 1 .. n |-> s[AtPlace(P, k)]]
  BY InOrderIs
<1> HIDE DEF P, t
<1>3. n \in Nat /\ \A k \in 1 .. n : AtPlace(P, k) \in P /\ Cardinality(UpTo(P, AtPlace(P, k))) = k
  BY <1>1, PlacesAreNumbered
<1> HIDE DEF n
<1>4. t \in Seq(T)
  <2>1. t \in [1 .. n -> T]
    BY <1>1, <1>2, <1>3
  <2> QED BY <1>3, <2>1
<1>5. \A k \in DOMAIN t : t[k] \in S
  BY <1>1, <1>2, <1>3
<1>6. ASSUME IsInjective(s) PROVE IsInjective(t)
  <2>1. ASSUME NEW k \in 1 .. n, NEW l \in 1 .. n, t[k] = t[l] PROVE k = l
    <3>1. AtPlace(P, k) = AtPlace(P, l)
      <4>1. s[AtPlace(P, k)] = s[AtPlace(P, l)]
        BY <1>2, <2>1
      <4> QED BY <1>1, <1>3, <1>6, <4>1 DEF IsInjective
    <3> QED BY <1>3, <3>1
  <2> QED BY <1>2, <2>1 DEF IsInjective
<1> QED BY <1>4, <1>5, <1>6 DEF t

\* Two sets of places that match one to one in the same order are numbered alike.
LEMMA PlacesMatch ==
    ASSUME NEW M \in Nat, NEW A \in SUBSET (1 .. M), NEW N \in Nat, NEW B \in SUBSET (1 .. N),
           NEW h \in [A -> B], \A i, j \in A : i < j => h[i] < h[j], \A b \in B : \E a \in A : h[a] = b
    PROVE  /\ Cardinality(A) = Cardinality(B)
           /\ \A k \in 1 .. Cardinality(B) : AtPlace(A, k) \in A /\ AtPlace(B, k) = h[AtPlace(A, k)]
<1>1. /\ \A i \in A : i \in Int /\ h[i] \in Int
      /\ IsFiniteSet(A) /\ Cardinality(A) \in Nat /\ \A i \in A : IsFiniteSet(UpTo(A, i))
      /\ \A k \in 1 .. Cardinality(A) : AtPlace(A, k) \in A /\ Cardinality(UpTo(A, AtPlace(A, k))) = k
  <2>1. \A i \in A : i \in Int
    OBVIOUS
  <2>2. \A i \in B : i \in Int
    OBVIOUS
  <2> QED BY <2>1, <2>2, PlacesAreNumbered, Zenon
<1>2. \A i, j \in A : h[i] <= h[j] <=> i <= j
  <2> TAKE i, j \in A
  <2>1. i \in Int /\ j \in Int /\ h[i] \in Int /\ h[j] \in Int
    BY <1>1
  <2> QED BY <2>1
<1>3. \A i, j \in A : h[i] = h[j] => i = j
  <2> TAKE i, j \in A
  <2>1. i \in Int /\ j \in Int /\ h[i] \in Int /\ h[j] \in Int
    BY <1>1
  <2> QED BY <2>1
<1>4. Cardinality(A) = Cardinality(B)
  <2>1. h \in Bijection(A, B)
    BY <1>3 DEF Bijection, Injection, Surjection, IsInjective
  <2>2. ExistsBijection(A, B)
    BY <2>1 DEF ExistsBijection
  <2> QED BY <1>1, <2>2, FS_Bijection
<1>5. ASSUME NEW i \in A PROVE Cardinality(UpTo(A, i)) = Cardinality(UpTo(B, h[i]))
  <2> DEFINE U == UpTo(A, i)
             V == UpTo(B, h[i])
             f == [j \in U |-> h[j]]
  <2>1. U \in SUBSET A /\ V \in SUBSET B
    BY DEF UpTo
  <2>2. \A j \in U : h[j] \in V
    BY <1>2 DEF UpTo
  <2>3. \A b \in V : \E j \in U : h[j] = b
    BY <1>2 DEF UpTo
  <2> HIDE DEF U, V
  <2>4. f \in [U -> V]
    BY <2>2
  <2>5. f \in Bijection(U, V)
    BY <1>3, <2>1, <2>3, <2>4 DEF Bijection, Injection, Surjection, IsInjective
  <2> HIDE DEF f
  <2>6. ExistsBijection(U, V)
    BY <2>5 DEF ExistsBijection
  <2>7. IsFiniteSet(U)
    BY <1>1 DEF U
  <2>8. Cardinality(V) = Cardinality(U)
    BY <2>6, <2>7, FS_Bijection
  <2> QED BY <2>8 DEF U, V
<1>6. ASSUME NEW k \in 1 .. Cardinality(B) PROVE AtPlace(A, k) \in A /\ AtPlace(B, k) = h[AtPlace(A, k)]
  <2> DEFINE i == AtPlace(A, k)
  <2>1. i \in A /\ Cardinality(UpTo(A, i)) = k
    BY <1>1, <1>4
  <2> HIDE DEF i
  <2>2. h[i] \in B /\ Cardinality(UpTo(B, h[i])) = k
    BY <1>5, <2>1
  <2>3. AtPlace(B, k) = h[i]
    BY <2>2, PlaceOfNumber
  <2> QED BY <2>1, <2>3 DEF i
<1> QED BY <1>4, <1>6

\* A list cut twice is the list cut once by both.
LEMMA CutTwice ==
    ASSUME NEW T, NEW s \in Seq(T), NEW S, NEW S2
    PROVE  InOrder(InOrder(s, S), S2) = InOrder(s, S \cap S2)
<1> DEFINE P == Places(s, S)
           n == Cardinality(P)
           t == InOrder(s, S)
           A == Places(t, S2)
           B == Places(s, S \cap S2)
           h == [k \in A |-> AtPlace(P, k)]
<1>1. Len(s) \in Nat /\ DOMAIN s = 1 .. Len(s) /\ P \in SUBSET (1 .. Len(s)) /\ B \in SUBSET (1 .. Len(s))
  BY DEF Places
<1>2. /\ n \in Nat
      /\ \A i \in P : Cardinality(UpTo(P, i)) \in 1 .. n
      /\ \A i, j \in P : i < j => Cardinality(UpTo(P, i)) < Cardinality(UpTo(P, j))
      /\ \A k \in 1 .. n : AtPlace(P, k) \in P /\ Cardinality(UpTo(P, AtPlace(P, k))) = k
  <2> HIDE DEF P
  <2> QED BY <1>1, PlacesAreNumbered
<1>3. t = [k \in 1 .. n |-> s[AtPlace(P, k)]]
  BY InOrderIs
<1>4. \A i : i \in P <=> i \in DOMAIN s /\ s[i] \in S
  BY DEF Places
<1>5. \A i : i \in B <=> i \in DOMAIN s /\ s[i] \in S /\ s[i] \in S2
  BY DEF Places
<1> HIDE DEF P, n, t
<1>6. A \in SUBSET (1 .. n) /\ \A k : k \in A <=> k \in 1 .. n /\ s[AtPlace(P, k)] \in S2
  BY <1>3 DEF Places
<1> HIDE DEF A, B
<1>7. h \in [A -> B]
  BY <1>2, <1>4, <1>5, <1>6
<1>8. ASSUME NEW k \in A, NEW l \in A, k < l PROVE h[k] < h[l]
  <2> DEFINE a == AtPlace(P, k)
             b == AtPlace(P, l)
  <2>1. a \in P /\ b \in P /\ Cardinality(UpTo(P, a)) = k /\ Cardinality(UpTo(P, b)) = l /\ h[k] = a /\ h[l] = b
    BY <1>2, <1>6
  <2> HIDE DEF a, b, h
  <2>2. a \in Int /\ b \in Int /\ k \in Int /\ l \in Int
    BY <1>1, <1>6, <2>1
  <2>3. b < a => l < k
    BY <1>2, <2>1
  <2> QED BY <1>8, <2>1, <2>2, <2>3
<1>9. ASSUME NEW b \in B PROVE \E k \in A : h[k] = b
  <2> DEFINE k == Cardinality(UpTo(P, b))
  <2>1. b \in P
    BY <1>4, <1>5
  <2>2. k \in 1 .. n
    BY <1>2, <2>1
  <2>3. AtPlace(P, k) = b
    BY <1>1, <2>1, PlaceOfNumber
  <2> HIDE DEF k
  <2> QED BY <1>5, <1>6, <2>2, <2>3
<1> DEFINE both == InOrder(s, S \cap S2)
           twice == InOrder(t, S2)
<1>10. both = [k \in 1 .. Cardinality(B) |-> s[AtPlace(B, k)]]
  BY InOrderIs DEF B
<1>11. twice = [k \in 1 .. Cardinality(A) |-> t[AtPlace(A, k)]]
  BY InOrderIs DEF A
<1> HIDE DEF h, both, twice
<1>12. /\ Cardinality(A) = Cardinality(B)
       /\ \A k \in 1 .. Cardinality(B) : AtPlace(A, k) \in A /\ AtPlace(B, k) = h[AtPlace(A, k)]
  <2>1. n \in Nat /\ A \in SUBSET (1 .. n) /\ Len(s) \in Nat /\ B \in SUBSET (1 .. Len(s)) /\ h \in [A -> B]
    BY <1>1, <1>2, <1>6, <1>7
  <2>2. \A i, j \in A : i < j => h[i] < h[j]
    BY <1>8
  <2>3. \A b \in B : \E a \in A : h[a] = b
    BY <1>9
  <2> QED BY <2>1, <2>2, <2>3, PlacesMatch
<1>13. \A k \in A : t[k] = s[h[k]]
  BY <1>3, <1>6 DEF h
<1>14. \A k \in 1 .. Cardinality(B) : t[AtPlace(A, k)] = s[AtPlace(B, k)]
  BY <1>12, <1>13
<1>15. twice = both
  BY <1>10, <1>11, <1>12, <1>14
<1> QED BY <1>15 DEF both, twice, t

\* Only what the set says of the list's own elements counts.
LEMMA CutAlike ==
    ASSUME NEW T, NEW s \in Seq(T), NEW S, NEW S2, \A x \in T : x \in S <=> x \in S2
    PROVE  InOrder(s, S) = InOrder(s, S2)
<1>1. \A i \in DOMAIN s : s[i] \in T
  OBVIOUS
<1>2. Places(s, S) = Places(s, S2)
  BY <1>1 DEF Places
<1> QED BY <1>2, InOrderIs

RowsFor(o, s) == [i \in 1 .. Len(o) |-> Row(o[i], s)]
IdsOf(rows) == [i \in DOMAIN rows |-> rows[i].id]

\* The rows of some courses, cut: the rows of the courses, cut.
LEMMA RowsCut ==
    ASSUME NEW o \in Seq(Courses), NEW s, NEW C, NEW S,
           NEW rows, rows = RowsFor(o, s), \A i \in 1 .. Len(o) : rows[i] \in S <=> o[i] \in C
    PROVE  IdsOf(InOrder(rows, S)) = InOrder(o, C)
<1> USE DEF RowsFor
<1> DEFINE P == Places(o, C)
           n == Cardinality(P)
           cut == InOrder(rows, S)
<1>1. Len(o) \in Nat /\ DOMAIN o = 1 .. Len(o) /\ \A i \in 1 .. Len(o) : o[i] \in Courses
  OBVIOUS
<1>2. Places(rows, S) = P
  BY <1>1 DEF Places
<1>3. cut = [k \in 1 .. n |-> rows[AtPlace(P, k)]]
  <2> HIDE DEF P
  <2>1. cut = [k \in 1 .. Cardinality(Places(rows, S)) |-> rows[AtPlace(Places(rows, S), k)]]
    BY InOrderIs
  <2> QED BY <1>2, <2>1
<1>4. InOrder(o, C) = [k \in 1 .. n |-> o[AtPlace(P, k)]]
  BY InOrderIs
<1>5. P \in SUBSET (1 .. Len(o))
  BY <1>1 DEF Places
<1> HIDE DEF P
<1>6. \A k \in 1 .. n : AtPlace(P, k) \in 1 .. Len(o)
  BY <1>1, <1>5, PlacesAreNumbered
<1>7. \A i \in 1 .. Len(o) : rows[i].id = o[i]
  BY <1>1 DEF Row
<1> HIDE DEF n, cut
<1>8. \A k \in 1 .. n : cut[k].id = o[AtPlace(P, k)]
  BY <1>3, <1>6, <1>7
<1>9. DOMAIN cut = 1 .. n
  BY <1>3
<1>10. [i \in DOMAIN cut |-> cut[i].id] = InOrder(o, C)
  BY <1>4, <1>8, <1>9
<1> QED BY <1>10 DEF cut, IdsOf

(***************************************************************************)
(* Lemmas: the server's answers                                            *)
(***************************************************************************)

\* The rows shipped for a list of courses without repetition.
LEMMA Shipped ==
    ASSUME NEW ids \in Seq(Courses), IsInjective(ids), NEW s
    PROVE  /\ [i \in DOMAIN ids |-> Row(ids[i], s)] \in Seq(Rows)
           /\ NoTwins([i \in DOMAIN ids |-> Row(ids[i], s)])
           /\ \A c : ShowsStar([i \in DOMAIN ids |-> Row(ids[i], s)], c, s)
           /\ ids = <<>> => [i \in DOMAIN ids |-> Row(ids[i], s)] = <<>>
<1> DEFINE rows == [i \in DOMAIN ids |-> Row(ids[i], s)]
<1>1. Len(ids) \in Nat /\ DOMAIN ids = 1 .. Len(ids) /\ \A i \in DOMAIN ids : ids[i] \in Courses
  OBVIOUS
<1>2. \A c \in Courses : Row(c, s) \in Rows /\ Row(c, s).id = c /\ Row(c, s).fav = (c \in s.fav)
  BY DEF Row, Rows
<1>3. rows \in Seq(Rows)
  <2>1. rows \in [1 .. Len(ids) -> Rows]
    BY <1>1, <1>2
  <2> HIDE DEF rows
  <2> QED BY <1>1, <2>1
<1>4. \A i \in DOMAIN rows : i \in DOMAIN ids /\ rows[i].id = ids[i] /\ rows[i].fav = (ids[i] \in s.fav)
  BY <1>1, <1>2
<1>5. ids = <<>> => rows = <<>>
  OBVIOUS
<1> HIDE DEF rows
<1>6. NoTwins(rows)
  BY <1>4 DEF NoTwins, IsInjective
<1>7. \A c : ShowsStar(rows, c, s)
  BY <1>4 DEF ShowsStar
<1> QED BY <1>3, <1>5, <1>6, <1>7 DEF rows

\* What every answer is, whatever was asked.
Faithful(a, s) == a \in Answers /\ NoTwins(a.rows) /\ \A c : ShowsStar(a.rows, c, s)

LEMMA PageIsFaithful ==
    ASSUME NEW s, IsServer(s), NEW g \in Groups, NEW a \in Args
    PROVE  /\ Faithful(ServerPage(g, a, s), s)
           /\ ServerPage(g, a, s).after = "0" => ServerPage(g, a, s).rows = <<>> /\ ~ServerPage(g, a, s).hasmore
<1> DEFINE ordered == Ordered(g, a, s)
           start == IF a.after \in ToSet(ordered) THEN CHOOSE i \in DOMAIN ordered : ordered[i] = a.after ELSE 0
           upto == IF start + PAGE_SIZE < Len(ordered) THEN start + PAGE_SIZE ELSE Len(ordered)
           ids == SubSeq(ordered, start + 1, upto)
           rows == [i \in DOMAIN ids |-> Row(ids[i], s)]
<1>1. ServerPage(g, a, s) =
        [NoAnswer EXCEPT !.rows = rows,
                         !.hasmore = start + Len(ids) < Len(ordered),
                         !.after = IF ids = <<>> THEN "0" ELSE Last(ids)]
  BY DEF ServerPage
<1>2. ordered \in Seq(Courses) /\ IsInjective(ordered)
  BY CoursesAssumption, InOrderKeeps DEF Ordered, IsServer, CoursesAssumption
<1> HIDE DEF ordered
<1>3. Len(ordered) \in Nat /\ DOMAIN ordered = 1 .. Len(ordered) /\ \A i \in 1 .. Len(ordered) : ordered[i] \in Courses
  BY <1>2
<1>4. start \in Int /\ 0 <= start /\ start <= Len(ordered) /\ Len(ordered) \in Int
  <2>1. CASE a.after \in ToSet(ordered)
    <3>1. \E i \in DOMAIN ordered : ordered[i] = a.after
      BY <2>1 DEF ToSet
    <3> QED BY <1>3, <2>1, <3>1
  <2>2. CASE a.after \notin ToSet(ordered)
    BY <1>3, <2>2
  <2> QED BY <2>1, <2>2
<1> HIDE DEF start
<1>5. upto \in Int /\ start <= upto /\ upto <= Len(ordered) /\ (upto = start => start = Len(ordered))
  <2>1. PAGE_SIZE \in Int /\ PAGE_SIZE > 0
    BY CoursesAssumption DEF CoursesAssumption
  <2> QED BY <1>4, <2>1
<1> HIDE DEF upto
<1>6. /\ ids \in Seq(Courses) /\ Len(ids) = upto - start
      /\ \A i \in 1 .. Len(ids) : ids[i] = ordered[start + i]
  <2>1. start \in Int /\ upto \in Int /\ start + 1 \in Int /\ start <= upto
    BY <1>4, <1>5
  <2>2. ASSUME NEW i \in start + 1 .. upto PROVE ordered[i] \in Courses
    <3>1. i \in Int /\ 1 <= i /\ i <= Len(ordered)
      BY <1>4, <1>5, <2>1
    <3>2. i \in 1 .. Len(ordered)
      BY <1>4, <3>1
    <3> QED BY <1>3, <3>2
  <2>3. /\ ids \in Seq(Courses)
        /\ Len(ids) = IF start + 1 <= upto THEN upto - (start + 1) + 1 ELSE 0
        /\ \A i \in 1 .. upto - (start + 1) + 1 : ids[i] = ordered[start + 1 + i - 1]
    BY <2>1, <2>2, SubSeqProperties
  <2> HIDE DEF ids
  <2>4. Len(ids) = upto - start
    BY <2>1, <2>3
  <2>5. ASSUME NEW i \in 1 .. Len(ids) PROVE ids[i] = ordered[start + i]
    <3>1. i \in 1 .. upto - (start + 1) + 1 /\ start + 1 + i - 1 = start + i
      BY <2>1, <2>4
    <3> QED BY <2>3, <3>1
  <2> QED BY <2>3, <2>4, <2>5
<1>7. IsInjective(ids)
  <2> HIDE DEF ids
  <2>1. ASSUME NEW i \in 1 .. Len(ids) PROVE start + i \in DOMAIN ordered
    <3>1. i \in Int /\ 1 <= i /\ i <= upto - start
      BY <1>4, <1>5, <1>6
    <3>2. start + i \in 1 .. Len(ordered)
      BY <1>4, <1>5, <3>1
    <3> QED BY <1>3, <3>2
  <2>2. \A i, j \in 1 .. Len(ids) : ids[i] = ids[j] => start + i = start + j
    BY <1>2, <1>6, <2>1 DEF IsInjective
  <2> QED BY <1>4, <1>6, <2>2 DEF IsInjective
<1> HIDE DEF ids
<1>8. rows \in Seq(Rows) /\ NoTwins(rows) /\ (\A c : ShowsStar(rows, c, s)) /\ (ids = <<>> => rows = <<>>)
  BY <1>6, <1>7, Shipped, Zenon
<1> HIDE DEF rows
<1>9. ids # <<>> => Last(ids) \in Courses
  BY <1>6 DEF Last
<1>10. ids = <<>> => ~(start + Len(ids) < Len(ordered))
  <2>1. ids = <<>> => Len(ids) = 0
    OBVIOUS
  <2> QED BY <1>3, <1>4, <1>5, <1>6, <2>1
<1>11. ServerPage(g, a, s) \in Answers
  <2>1. (start + Len(ids) < Len(ordered)) \in BOOLEAN
    OBVIOUS
  <2> DEFINE more == start + Len(ids) < Len(ordered)
             after == IF ids = <<>> THEN "0" ELSE Last(ids)
  <2>2. after \in Cursors /\ more \in BOOLEAN
    BY <1>9, <2>1 DEF Cursors
  <2> HIDE DEF more, after
  <2>3. ServerPage(g, a, s) = [NoAnswer EXCEPT !.rows = rows, !.hasmore = more, !.after = after]
    BY <1>1 DEF more, after
  <2> QED BY <1>8, <2>2, <2>3 DEF Answers, NoAnswer, Modes
<1>12. ServerPage(g, a, s).after = "0" => ids = <<>>
  BY <1>1, <1>9, CoursesAssumption DEF CoursesAssumption, NoAnswer
<1> QED BY <1>1, <1>8, <1>10, <1>11, <1>12 DEF Faithful, NoAnswer

LEMMA InventoryIsFaithful == ASSUME NEW s, IsServer(s) PROVE Faithful(ServerInventory(s), s)
<1> DEFINE listed == InOrder(NameOrder, Courses \ s.archived)
           rows == [i \in DOMAIN listed |-> Row(listed[i], s)]
           mode == IF Len(listed) > INVENTORY_MAX THEN "paged" ELSE "full"
           shipped == IF mode = "full" THEN rows ELSE <<>>
<1>1. ServerInventory(s) = [NoAnswer EXCEPT !.mode = mode,
                                            !.groups = {g \in Groups : Members(g, s) # {}},
                                            !.rows = shipped]
  BY DEF ServerInventory
<1>2. listed \in Seq(Courses) /\ IsInjective(listed)
  BY CoursesAssumption, InOrderKeeps DEF CoursesAssumption
<1> HIDE DEF listed
<1>3. rows \in Seq(Rows) /\ NoTwins(rows) /\ \A c : ShowsStar(rows, c, s)
  BY <1>2, Shipped, Zenon
<1> HIDE DEF rows
<1>4. shipped \in Seq(Rows) /\ NoTwins(shipped) /\ \A c : ShowsStar(shipped, c, s)
  BY <1>3 DEF NoTwins, ShowsStar
<1>5. mode \in Modes
  BY DEF Modes
<1> HIDE DEF mode, shipped
<1> QED BY <1>1, <1>4, <1>5 DEF Faithful, Answers, NoAnswer, Cursors

LEMMA SearchIsFaithful == ASSUME NEW s, IsServer(s), NEW sel PROVE Faithful(ServerSearch(sel, s), s)
<1> DEFINE found == InOrder(NameOrder, {c \in Named \ s.archived : sel => c \in Selected})
           rows == [i \in DOMAIN found |-> Row(found[i], s)]
<1>1. ServerSearch(sel, s) = [NoAnswer EXCEPT !.rows = rows]
  BY DEF ServerSearch
<1>2. found \in Seq(Courses) /\ IsInjective(found)
  BY CoursesAssumption, InOrderKeeps DEF CoursesAssumption
<1> HIDE DEF found
<1>3. rows \in Seq(Rows) /\ NoTwins(rows) /\ \A c : ShowsStar(rows, c, s)
  BY <1>2, Shipped, Zenon
<1> HIDE DEF rows
<1> QED BY <1>1, <1>3 DEF Faithful, Answers, NoAnswer, Cursors, Modes

(***************************************************************************)
(* Lemmas: a render                                                        *)
(***************************************************************************)

\* What the effects of a render ask pages for.
Dues(d, p, o, c, app) == Due(d, p, o, c) \cup Due(d, p, OpenNow(d, o, app), c)

Asking(d, p, c, g) == PageRequest(g, PageArgs(d.mode, c, p[g].after), Ids(p[g].rows))

LEMMA RenderedIs ==
    ASSUME NEW d, NEW p, NEW o, NEW c, NEW app, NEW h, NEW n, NEW gen, Rendered(d, p, o, c, app, h, n, gen)
    PROVE  /\ data' = d /\ crit' = c /\ applied' = app
           /\ open' = OpenNow(d, o, app) /\ openbefore' = OpenKept(d, o, app)
           /\ pages' = Loading(p, Dues(d, p, o, c, app))
           /\ searched' = (searched \/ SearchDue(d, c, app, gen))
           /\ hits' = IF SearchDue(d, c, app, gen) /\ app \in TooShort THEN NoHits ELSE h
           /\ \A r : r \in net' <=>
                 \/ /\ r \in n
                    /\ ~(r.kind = "page" /\ r.group \in Dues(d, p, o, c, app))
                    /\ ~(r.kind = "search" /\ SearchDue(d, c, app, gen))
                 \/ \E g \in Dues(d, p, o, c, app) : r = Asking(d, p, c, g)
                 \/ SearchDue(d, c, app, gen) /\ app \notin TooShort /\ r = SearchRequest(app, c.sel)
<1> DEFINE due == Dues(d, p, o, c, app)
           asks == SearchDue(d, c, app, gen)
           asking == Asked(d, p, c, due, n)
<1>1. /\ data' = d /\ crit' = c /\ applied' = app
      /\ open' = OpenNow(d, o, app) /\ openbefore' = OpenKept(d, o, app)
      /\ pages' = Loading(p, due)
      /\ searched' = (searched \/ asks)
      /\ hits' = (IF asks /\ app \in TooShort THEN NoHits ELSE h)
      /\ net' = IF asks THEN Searched(app, c, asking) ELSE asking
  BY Zenon DEF Rendered, Dues
<1> HIDE DEF due, asks
<1>2. \A r : r \in asking <=>
         \/ r \in n /\ ~(r.kind = "page" /\ r.group \in due)
         \/ \E g \in due : r = Asking(d, p, c, g)
  BY DEF Asked, Stale, PagesOut, Of, Asking
<1>3. \A g : Asking(d, p, c, g).kind = "page"
  BY DEF Asking, PageRequest
<1> HIDE DEF asking
<1>4. CASE asks
  <2>1. \A r : r \in net' <=> \/ r \in asking /\ r.kind # "search"
                              \/ app \notin TooShort /\ r = SearchRequest(app, c.sel)
    <3>1. \A r : r \in Searched(app, c, asking) <=>
             \/ r \in asking /\ r.kind # "search"
             \/ app \notin TooShort /\ r = SearchRequest(app, c.sel)
      BY DEF Searched, Stale, Of
    <3> QED BY <1>1, <1>4, <3>1
  <2>2. \A r : r \in net' <=>
                 \/ /\ r \in n
                    /\ ~(r.kind = "page" /\ r.group \in due)
                    /\ ~(r.kind = "search" /\ asks)
                 \/ \E g \in due : r = Asking(d, p, c, g)
                 \/ asks /\ app \notin TooShort /\ r = SearchRequest(app, c.sel)
    <3> TAKE r
    <3>1. (\E g \in due : r = Asking(d, p, c, g)) => r.kind = "page"
      BY <1>3
    <3> QED BY <1>2, <1>4, <2>1, <3>1
  <2> QED BY <1>1, <2>2, Zenon DEF due, asks
<1>5. CASE ~asks
  <2>1. \A r : r \in net' <=>
                 \/ /\ r \in n
                    /\ ~(r.kind = "page" /\ r.group \in due)
                    /\ ~(r.kind = "search" /\ asks)
                 \/ \E g \in due : r = Asking(d, p, c, g)
                 \/ asks /\ app \notin TooShort /\ r = SearchRequest(app, c.sel)
    BY <1>1, <1>2, <1>5
  <2> QED BY <1>1, <2>1, Zenon DEF due, asks
<1> QED BY <1>4, <1>5

\* What the effects ask for is known of its page.
LEMMA DueIs ==
    ASSUME NEW d \in Payloads, NEW p \in [Groups -> PageStates], NEW o, NEW c, NEW app, NEW g \in Dues(d, p, o, c, app)
    PROVE  g \in Groups /\ g \in d.groups /\ ~p[g].loading /\ ~p[g].failed /\ (~p[g].loaded \/ p[g].hasmore)
BY DEF Dues, Due, Payloads

LEMMA LoadingIs ==
    ASSUME NEW p \in [Groups -> PageStates], NEW gs
    PROVE  /\ Loading(p, gs) \in [Groups -> PageStates]
           /\ \A g \in Groups :
                 /\ Loading(p, gs)[g].rows = p[g].rows /\ Loading(p, gs)[g].after = p[g].after
                 /\ Loading(p, gs)[g].hasmore = p[g].hasmore /\ Loading(p, gs)[g].loaded = p[g].loaded
                 /\ Loading(p, gs)[g].failed = p[g].failed /\ Loading(p, gs)[g].under = p[g].under
                 /\ Loading(p, gs)[g].torn = p[g].torn
                 /\ Loading(p, gs)[g].loading = (p[g].loading \/ g \in gs)
<1> SUFFICES ASSUME NEW g \in Groups
    PROVE /\ Loading(p, gs)[g] \in PageStates
          /\ Loading(p, gs)[g].rows = p[g].rows /\ Loading(p, gs)[g].after = p[g].after
          /\ Loading(p, gs)[g].hasmore = p[g].hasmore /\ Loading(p, gs)[g].loaded = p[g].loaded
          /\ Loading(p, gs)[g].failed = p[g].failed /\ Loading(p, gs)[g].under = p[g].under
          /\ Loading(p, gs)[g].torn = p[g].torn
          /\ Loading(p, gs)[g].loading = (p[g].loading \/ g \in gs)
  BY Zenon DEF Loading
<1>1. p[g] \in PageStates /\ Loading(p, gs)[g] = IF g \in gs THEN [p[g] EXCEPT !.loading = TRUE] ELSE p[g]
  BY DEF Loading
<1> QED BY <1>1 DEF PageStates

\* A request is of the kind it says.
LEMMA KindIs ==
    ASSUME NEW r, IsRequest(r)
    PROVE  /\ r.kind = "inventory" => r \in Inventories
           /\ r.kind = "search" => r \in Searches
           /\ r.kind = "page" => r \in Pages
           /\ r.kind = "star" => IsStar(r)
           /\ r.kind = "archive" => IsArchive(r)
           /\ r.state \in States
BY DEF IsRequest, Inventories, Searches, Pages, IsStar, IsArchive

LEMMA IdsAreCourses == ASSUME NEW rows \in Seq(Rows) PROVE Ids(rows) \in SUBSET Courses
<1>1. \A i \in DOMAIN rows : rows[i] \in Rows
  OBVIOUS
<1> QED BY <1>1 DEF Ids, Rows

LEMMA AskingIs ==
    ASSUME NEW d \in Payloads, NEW p \in [Groups -> PageStates], NEW c \in Criteria, NEW g \in Groups
    PROVE  /\ Asking(d, p, c, g) \in Pages
           /\ Asking(d, p, c, g).kind = "page" /\ Asking(d, p, c, g).group = g /\ Asking(d, p, c, g).state = "sent"
           /\ Asking(d, p, c, g).before = Ids(p[g].rows)
           /\ Asking(d, p, c, g).args = PageArgs(d.mode, c, p[g].after)
           /\ Asking(d, p, c, g).args.after = p[g].after
           /\ Asking(d, p, c, g).args.mode = d.mode
<1>1. p[g] \in PageStates
  OBVIOUS
<1>2. p[g].rows \in Seq(Rows) /\ p[g].after \in Cursors
  BY <1>1 DEF PageStates
<1>3. d.mode \in Modes
  BY DEF Payloads
<1>4. serverchip(c) \in Scopes \cup Chips /\ c.sel \in BOOLEAN
  BY DEF Criteria, serverchip, Chips
<1>5. /\ PageArgs(d.mode, c, p[g].after) \in Args
      /\ PageArgs(d.mode, c, p[g].after).after = p[g].after /\ PageArgs(d.mode, c, p[g].after).mode = d.mode
  BY <1>2, <1>3, <1>4 DEF PageArgs, Args, Scopes
<1>6. Ids(p[g].rows) \in SUBSET Courses
  BY <1>2, IdsAreCourses
<1>7. NoAnswer \in Answers
  BY DEF NoAnswer, Answers, Cursors, Modes
<1> QED BY <1>5, <1>6, <1>7 DEF Asking, PageRequest, Pages, States

LEMMA RenderedShape ==
    ASSUME TypeOK, NEW d, NEW p, NEW o, NEW c, NEW app, NEW h, NEW n, NEW gen, Shape(n, d, p, o, c, app, h),
           Rendered(d, p, o, c, app, h, n, gen)
    PROVE  /\ Shape(net, data, pages, open, crit, applied, hits)'
           /\ openbefore' \in [held : BOOLEAN, open : OpenGroups]
           /\ searched' \in BOOLEAN
<1>1. \A r \in net' : IsRequest(r)
  <2> SUFFICES ASSUME NEW r \in net' PROVE IsRequest(r)
    OBVIOUS
  <2>1. CASE r \in n
    BY <2>1 DEF Shape
  <2>2. CASE \E g \in Dues(d, p, o, c, app) : r = Asking(d, p, c, g)
    BY <2>2, DueIs, AskingIs DEF Shape, IsRequest
  <2>3. CASE r = SearchRequest(app, c.sel)
    BY <2>3 DEF Shape, SearchRequest, IsRequest, Searches, States, Criteria, NoAnswer, Answers, Cursors, Modes
  <2> QED BY <2>1, <2>2, <2>3, RenderedIs
<1>2. data' \in Payloads /\ crit' \in Criteria /\ applied' \in Queries
  BY RenderedIs DEF Shape
<1>3. pages' \in [Groups -> PageStates]
  BY RenderedIs, LoadingIs DEF Shape
<1>4. open' \in OpenGroups /\ openbefore' \in [held : BOOLEAN, open : OpenGroups]
  <2>1. open' = OpenNow(d, o, app) /\ openbefore' = OpenKept(d, o, app)
    BY RenderedIs
  <2>2. o \in OpenGroups /\ openbefore \in [held : BOOLEAN, open : OpenGroups]
    BY DEF Shape, TypeOK
  <2>3. [g \in Groups |-> FALSE] \in OpenGroups
    BY DEF OpenGroups
  <2> HIDE DEF OpenGroups
  <2> QED BY <2>1, <2>2, <2>3 DEF OpenNow, OpenKept
<1>5. hits' \in Hits
  <2>1. NoHits \in Hits
    BY DEF Hits, NoHits, Queries
  <2>2. hits' = NoHits \/ hits' = h
    BY RenderedIs
  <2> QED BY <2>1, <2>2 DEF Shape
<1>6. searched' \in BOOLEAN
  BY RenderedIs DEF TypeOK
<1> QED BY <1>1, <1>2, <1>3, <1>4, <1>5, <1>6 DEF Shape

(***************************************************************************)
(* Lemmas: pages asked for                                                 *)
(***************************************************************************)

\* n2 is n with the pages of gs asked for, in the place of what was out for those groups; a search may change too.
AsksFor(gs, d, p, c, n, n2) ==
    /\ \A g \in gs : g \in Groups /\ ~p[g].loading /\ ~p[g].failed /\ (~p[g].loaded \/ p[g].hasmore)
    /\ \A r \in n2 : r \in n \/ r.state = "sent"
    /\ \A r \in Of(n2, "page") :
          (r \in Of(n, "page") /\ r.group \notin gs) \/ \E g \in gs : r = Asking(d, p, c, g)
    /\ \A r : r.kind \notin {"page", "search"} => (r \in n2 <=> r \in n)

LEMMA AskedPages ==
    ASSUME NEW d, NEW p, NEW o, NEW c, NEW app, NEW h, NEW n, Shape(n, d, p, o, c, app, h),
           NEW gs, NEW n2, AsksFor(gs, d, p, c, n, n2), PagesInv(n, p)
    PROVE  PagesInv(n2, Loading(p, gs))
<1> DEFINE p2 == Loading(p, gs)
<1>1. d \in Payloads /\ p \in [Groups -> PageStates] /\ c \in Criteria
  BY DEF Shape
<1>2. \A g \in gs : g \in Groups /\ ~p[g].loading /\ ~p[g].failed /\ (~p[g].loaded \/ p[g].hasmore)
  BY DEF AsksFor
<1>3. \A r \in Of(n2, "page") :
         (r \in Of(n, "page") /\ r.group \notin gs) \/ \E g \in gs : r = Asking(d, p, c, g)
  BY DEF AsksFor
<1>4. \A r \in Of(n, "page") : r.group \in Groups /\ Waits(r, p[r.group])
  BY KindIs DEF Of, Shape, Pages, PagesInv
<1>5. \A g \in Groups :
         /\ p2[g].rows = p[g].rows /\ p2[g].after = p[g].after /\ p2[g].hasmore = p[g].hasmore
         /\ p2[g].loaded = p[g].loaded /\ p2[g].failed = p[g].failed
         /\ p2[g].loading = (p[g].loading \/ g \in gs)
  BY <1>1, LoadingIs
<1> HIDE DEF p2
<1>6. ASSUME NEW g \in Groups PROVE CursorInv(p2[g]) /\ NoTwins(p2[g].rows)
  <2>1. CursorInv(p[g]) /\ NoTwins(p[g].rows)
    BY DEF PagesInv
  <2> QED BY <1>2, <1>5, <2>1 DEF CursorInv
<1>7. ASSUME NEW r \in Of(n2, "page") PROVE Waits(r, p2[r.group])
  <2>1. CASE r \in Of(n, "page") /\ r.group \notin gs
    <3>1. r.group \in Groups /\ Waits(r, p[r.group])
      BY <1>4, <2>1
    <3>2. p2[r.group].rows = p[r.group].rows /\ (p[r.group].loading => p2[r.group].loading)
      BY <1>5, <2>1, <3>1
    <3> QED BY <3>1, <3>2 DEF Waits
  <2>2. CASE \E g \in gs : r = Asking(d, p, c, g)
    <3>1. PICK g \in gs : r = Asking(d, p, c, g)
      BY <2>2
    <3>2. r.group = g /\ r.before = Ids(p[g].rows) /\ r.args.after = p[g].after
      BY <1>1, <1>2, <3>1, AskingIs
    <3>3. p[g].after = "0" => p[g].rows = <<>>
      BY <1>2 DEF PagesInv, CursorInv
    <3> QED BY <1>2, <1>5, <3>2, <3>3 DEF Waits
  <2> QED BY <1>3, <2>1, <2>2
<1>8. ASSUME NEW q \in Of(n2, "page"), NEW r \in Of(n2, "page"), q.group = r.group PROVE q = r
  <2>1. \A g \in gs : Asking(d, p, c, g).group = g
    BY <1>1, <1>2, AskingIs
  <2>2. \A a, b \in Of(n, "page") : a.group = b.group => a = b
    BY DEF PagesInv
  <2> QED BY <1>3, <1>8, <2>1, <2>2
<1>9. PagesInv(n2, p2)
  BY <1>6, <1>7, <1>8 DEF PagesInv
<1> QED BY <1>9 DEF p2

LEMMA AskedLists ==
    ASSUME NEW d, NEW p, NEW c, NEW h, NEW n, NEW gs, NEW n2, AsksFor(gs, d, p, c, n, n2), ListsInv(n, d, h)
    PROVE  ListsInv(n2, d, h)
BY DEF ListsInv, AsksFor, AnswerInv

\* But for the cursor, the pages of one mode and one set of criteria are asked for alike.
LEMMA ArgsApart ==
    ASSUME NEW mode, NEW c, NEW after
    PROVE  [PageArgs(mode, c, after) EXCEPT !.after = "0"] = PageArgs(mode, c, "0")
<1>1. ASSUME NEW x, NEW y, NEW chip, NEW sel, NEW sort,
             x = [mode |-> mode, after |-> after, chip |-> chip, sel |-> sel, sort |-> sort],
             y = [mode |-> mode, after |-> "0", chip |-> chip, sel |-> sel, sort |-> sort]
      PROVE  [x EXCEPT !.after = "0"] = y
  BY <1>1
<1> DEFINE x == PageArgs(mode, c, after)
           y == PageArgs(mode, c, "0")
           chip == serverchip(c)
           sort == IF c.sort = "recent" THEN "recent" ELSE "name"
<1>2. CASE mode = "paged"
  <2>1. /\ x = [mode |-> mode, after |-> after, chip |-> chip, sel |-> c.sel, sort |-> sort]
        /\ y = [mode |-> mode, after |-> "0", chip |-> chip, sel |-> c.sel, sort |-> sort]
    BY <1>2 DEF PageArgs
  <2> HIDE DEF x, y, chip, sort
  <2>2. [x EXCEPT !.after = "0"] = y
    BY <1>1, <2>1
  <2> QED BY <2>2 DEF x, y
<1>3. CASE mode # "paged"
  <2>1. /\ x = [mode |-> mode, after |-> after, chip |-> "all", sel |-> FALSE, sort |-> "name"]
        /\ y = [mode |-> mode, after |-> "0", chip |-> "all", sel |-> FALSE, sort |-> "name"]
    BY <1>3 DEF PageArgs
  <2> HIDE DEF x, y
  <2>2. [x EXCEPT !.after = "0"] = y
    BY <1>1, <2>1
  <2> QED BY <2>2 DEF x, y
<1> QED BY <1>2, <1>3

LEMMA AskedUnder ==
    ASSUME NEW d, NEW p, NEW o, NEW c, NEW app, NEW h, NEW n, Shape(n, d, p, o, c, app, h),
           NEW gs, NEW n2, AsksFor(gs, d, p, c, n, n2), UnderInv(n, d, p, c)
    PROVE  UnderInv(n2, d, Loading(p, gs), c)
<1>1. p \in [Groups -> PageStates]
  BY DEF Shape
<1>2. \A g \in Groups : Loading(p, gs)[g].under = p[g].under
  BY <1>1, LoadingIs
<1>3. ASSUME NEW r \in Of(n2, "page") PROVE InForce(Under(r), d, c)
  <2>1. CASE r \in Of(n, "page")
    BY <2>1 DEF UnderInv
  <2>2. CASE \E g \in gs : r = Asking(d, p, c, g)
    <3>1. PICK g \in gs : r = Asking(d, p, c, g)
      BY <2>2
    <3>2. r.args = PageArgs(d.mode, c, p[g].after)
      BY <3>1 DEF Asking, PageRequest
    <3>3. [PageArgs(d.mode, c, p[g].after) EXCEPT !.after = "0"] = PageArgs(d.mode, c, "0")
      BY ArgsApart
    <3> QED BY <3>2, <3>3 DEF InForce, Under
  <2> QED BY <2>1, <2>2 DEF AsksFor
<1> QED BY <1>2, <1>3 DEF UnderInv

LEMMA AskedModes ==
    ASSUME NEW d, NEW p, NEW o, NEW c, NEW app, NEW h, NEW n, Shape(n, d, p, o, c, app, h),
           NEW gs, NEW n2, AsksFor(gs, d, p, c, n, n2), NEW f, ModesInv(f, n, d, p)
    PROVE  ModesInv(f, n2, d, Loading(p, gs))
<1>1. p \in [Groups -> PageStates]
  BY DEF Shape
<1>2. Of(n2, "inventory") = Of(n, "inventory")
  BY DEF Of, AsksFor
<1>3. \A g \in Groups : Loading(p, gs)[g].under = p[g].under
  BY <1>1, LoadingIs
<1>4. ASSUME NEW r \in Of(n2, "page") PROVE r \in Of(n, "page") \/ r.args.mode = d.mode
  <2>1. \A g \in gs : Asking(d, p, c, g).args.mode = d.mode
    BY DEF Asking, PageRequest, PageArgs
  <2> QED BY <2>1 DEF AsksFor
<1> QED BY <1>2, <1>3, <1>4 DEF ModesInv, OneMode

LEMMA AskedStars ==
    ASSUME NEW d, NEW p, NEW o, NEW c, NEW app, NEW h, NEW n, Shape(n, d, p, o, c, app, h),
           NEW gs, NEW n2, AsksFor(gs, d, p, c, n, n2), NEW s, NEW m, StarInv(s, n, d, p, h, m)
    PROVE  StarInv(s, n2, d, Loading(p, gs), h, m)
<1>1. p \in [Groups -> PageStates]
  BY DEF Shape
<1>2. \A g \in Groups : Loading(p, gs)[g].rows = p[g].rows
  BY <1>1, LoadingIs
<1>3. \A x : StarsOf(n2, x) = StarsOf(n, x)
  BY DEF AsksFor, StarsOf, Of
<1>4. \A r \in n2 : r.state = "served" => r \in n
  BY DEF AsksFor
<1> QED BY <1>2, <1>3, <1>4 DEF StarInv

LEMMA AskedKeeps ==
    ASSUME NEW d, NEW p, NEW o, NEW c, NEW app, NEW h, NEW n, Shape(n, d, p, o, c, app, h),
           NEW s, NEW f, NEW m, Sound(s, n, d, p, c, h, f, m),
           NEW gs, NEW n2, AsksFor(gs, d, p, c, n, n2)
    PROVE  Sound(s, n2, d, Loading(p, gs), c, h, f, m)
BY AskedPages, AskedLists, AskedUnder, AskedModes, AskedStars DEF Sound

(***************************************************************************)
(* Lemmas: what a render keeps                                             *)
(***************************************************************************)

LEMMA RenderedAsks ==
    ASSUME NEW d \in Payloads, NEW p \in [Groups -> PageStates], NEW o, NEW c, NEW app, NEW h, NEW n, NEW gen,
           Rendered(d, p, o, c, app, h, n, gen)
    PROVE  AsksFor(Dues(d, p, o, c, app), d, p, c, n, net')
<1> DEFINE due == Dues(d, p, o, c, app)
           asks == SearchDue(d, c, app, gen)
<1>1. \A g \in due : g \in Groups /\ ~p[g].loading /\ ~p[g].failed /\ (~p[g].loaded \/ p[g].hasmore)
  BY DueIs
<1>2. \A r : r \in net' <=>
         \/ r \in n /\ ~(r.kind = "page" /\ r.group \in due) /\ ~(r.kind = "search" /\ asks)
         \/ \E g \in due : r = Asking(d, p, c, g)
         \/ asks /\ app \notin TooShort /\ r = SearchRequest(app, c.sel)
  BY RenderedIs
<1>3. \A g : Asking(d, p, c, g).kind = "page" /\ Asking(d, p, c, g).state = "sent"
  BY DEF Asking, PageRequest
<1>4. SearchRequest(app, c.sel).kind = "search" /\ SearchRequest(app, c.sel).state = "sent"
  BY DEF SearchRequest
<1> HIDE DEF due, asks
<1>5. \A r \in net' : r \in n \/ r.state = "sent"
  BY <1>2, <1>3, <1>4
<1>6. \A r \in Of(net', "page") :
         (r \in Of(n, "page") /\ r.group \notin due) \/ \E g \in due : r = Asking(d, p, c, g)
  BY <1>2, <1>4 DEF Of
<1>7. \A r : r.kind \notin {"page", "search"} => (r \in net' <=> r \in n)
  BY <1>2, <1>3, <1>4
<1>8. AsksFor(due, d, p, c, n, net')
  BY <1>1, <1>5, <1>6, <1>7 DEF AsksFor
<1> QED BY <1>8 DEF due

\* Hits that a text too short empties.
LEMMA NoHitsKeep ==
    ASSUME NEW s, NEW n, NEW d, NEW p, NEW c, NEW h, NEW f, NEW m, Sound(s, n, d, p, c, h, f, m)
    PROVE  Sound(s, n, d, p, c, NoHits, f, m)
<1>1. NoTwins(NoHits.rows) /\ \A x : ShowsStar(NoHits.rows, x, s)
  BY DEF NoTwins, NoHits, ShowsStar
<1>2. ListsInv(n, d, NoHits)
  BY <1>1 DEF Sound, ListsInv
<1>3. StarInv(s, n, d, p, NoHits, m)
  BY <1>1 DEF Sound, StarInv
<1> QED BY <1>2, <1>3 DEF Sound

LEMMA RenderedSound ==
    ASSUME NEW d, NEW p, NEW o, NEW c, NEW app, NEW h, NEW n, NEW gen, Shape(n, d, p, o, c, app, h),
           NEW s, NEW f, NEW m, Sound(s, n, d, p, c, h, f, m), Rendered(d, p, o, c, app, h, n, gen)
    PROVE  Sound(s, net', data', pages', crit', hits', f, m)
<1>1. data' = d /\ crit' = c /\ pages' = Loading(p, Dues(d, p, o, c, app)) /\ (hits' = NoHits \/ hits' = h)
  BY RenderedIs
<1>2. Sound(s, net', d, Loading(p, Dues(d, p, o, c, app)), c, h, f, m)
  <2>1. d \in Payloads /\ p \in [Groups -> PageStates]
    BY DEF Shape
  <2>2. AsksFor(Dues(d, p, o, c, app), d, p, c, n, net')
    BY <2>1, RenderedAsks
  <2> QED BY <2>2, AskedKeeps
<1>3. Sound(s, net', d, Loading(p, Dues(d, p, o, c, app)), c, NoHits, f, m)
  BY <1>2, NoHitsKeep
<1> QED BY <1>1, <1>2, <1>3

LEMMA RenderedSearch ==
    ASSUME NEW d, NEW p, NEW o, NEW c, NEW app, NEW h, NEW n, NEW gen, NEW sf,
           SearchInv(n, data, crit, applied, h, sf, searched), Rendered(d, p, o, c, app, h, n, gen)
    PROVE  SearchInv(net', data', crit', applied', hits', sf, searched')
<1> DEFINE asks == SearchDue(d, c, app, gen)
<1>1. /\ data' = d /\ crit' = c /\ applied' = app /\ searched' = (searched \/ asks)
      /\ hits' = IF asks /\ app \in TooShort THEN NoHits ELSE h
  BY RenderedIs
<1>2. \A r : r \in Of(net', "search") <=>
         \/ r \in Of(n, "search") /\ ~asks
         \/ asks /\ app \notin TooShort /\ r = SearchRequest(app, c.sel)
  <2>1. \A g : Asking(d, p, c, g).kind = "page"
    BY DEF Asking, PageRequest
  <2>2. SearchRequest(app, c.sel).kind = "search"
    BY DEF SearchRequest
  <2>3. \A r : r \in net' <=>
           \/ /\ r \in n
              /\ ~(r.kind = "page" /\ r.group \in Dues(d, p, o, c, app))
              /\ ~(r.kind = "search" /\ asks)
           \/ \E g \in Dues(d, p, o, c, app) : r = Asking(d, p, c, g)
           \/ asks /\ app \notin TooShort /\ r = SearchRequest(app, c.sel)
    BY RenderedIs
  <2> HIDE DEF asks
  <2> QED BY <2>1, <2>2, <2>3 DEF Of
<1>3. hits'.shown => hits' = h /\ ~(asks /\ app \in TooShort)
  BY <1>1 DEF NoHits
<1>4. hits'.shown \/ Of(net', "search") # {} => searched'
  <2> HIDE DEF asks
  <2> QED BY <1>1, <1>2, <1>3 DEF SearchInv
<1>5. ASSUME d.mode = "paged"
      PROVE  /\ \A r \in Of(net', "search") : r.query = app /\ r.sel = c.sel
             /\ hits'.shown => (hits'.query = app /\ hits'.sel = c.sel) \/ sf \/ Of(net', "search") # {}
  <2>1. CASE asks
    <3>1. SearchRequest(app, c.sel).query = app /\ SearchRequest(app, c.sel).sel = c.sel
      BY DEF SearchRequest
    <3> HIDE DEF asks
    <3> QED BY <1>2, <1>3, <2>1, <3>1
  <2>2. CASE ~asks
    <3>1. \/ ~searched
          \/ app = applied /\ data.mode = "paged" /\ c.sel = crit.sel
      BY <1>5, <2>2 DEF SearchDue
    <3>2. Of(net', "search") = Of(n, "search")
      BY <1>2, <2>2
    <3> HIDE DEF asks
    <3>3. CASE ~searched
      BY <1>3, <3>2, <3>3 DEF SearchInv
    <3>4. CASE app = applied /\ data.mode = "paged" /\ c.sel = crit.sel
      BY <1>3, <3>2, <3>4 DEF SearchInv
    <3> QED BY <3>1, <3>3, <3>4
  <2> QED BY <2>1, <2>2
<1> QED BY <1>1, <1>4, <1>5 DEF SearchInv

LEMMA RenderedOpen ==
    ASSUME NEW d, NEW p, NEW o, NEW c, NEW app, NEW h, NEW n, NEW gen, Shape(n, d, p, o, c, app, h),
           Rendered(d, p, o, c, app, h, n, gen)
    PROVE  OpenGroupIsAskedFor'
<1> DEFINE due == Dues(d, p, o, c, app)
<1>1. d \in Payloads /\ p \in [Groups -> PageStates]
  BY DEF Shape
<1>2. data' = d /\ crit' = c /\ open' = OpenNow(d, o, app) /\ pages' = Loading(p, due)
  BY RenderedIs
<1>3. SUFFICES ASSUME NEW g \in d.groups, pagedgroup(d, g), open'[g], ~(d.mode = "paged" /\ keepsnothing(c))
               PROVE  pages'[g].loaded \/ pages'[g].loading \/ pages'[g].failed
  BY <1>2 DEF OpenGroupIsAskedFor
<1>4. g \in Groups
  BY <1>1 DEF Payloads
<1>5. /\ pages'[g].loaded = p[g].loaded /\ pages'[g].failed = p[g].failed
      /\ pages'[g].loading = (p[g].loading \/ g \in due)
  BY <1>1, <1>2, <1>4, LoadingIs
<1>6. CASE ~p[g].loading /\ ~p[g].failed /\ ~p[g].loaded
  <2>1. g \in Due(d, p, open', c)
    BY <1>3, <1>6 DEF Due
  <2>2. g \in due
    BY <1>2, <2>1 DEF Dues
  <2> QED BY <1>5, <2>2
<1>7. CASE p[g].loading \/ p[g].failed \/ p[g].loaded
  <2> HIDE DEF due
  <2> QED BY <1>5, <1>7
<1> QED BY <1>6, <1>7

\* A render keeps the invariants, given parts that hold them.
LEMMA RenderedKeeps ==
    ASSUME ExploreInv, NEW d, NEW p, NEW o, NEW c, NEW app, NEW h, NEW n, NEW gen,
           Shape(n, d, p, o, c, app, h),
           Sound(srv, n, d, p, c, h, failed', muddled),
           SearchInv(n, data, crit, applied, h, searchfailed, searched),
           Rendered(d, p, o, c, app, h, n, gen),
           srv' = srv, searchfailed' = searchfailed, muddled' = muddled,
           failed' \in BOOLEAN, query' \in Queries
    PROVE  ExploreInv'
<1>1. TypeOK
  BY DEF ExploreInv
<1>2. TypeOK'
  BY <1>1, RenderedShape DEF TypeOK
<1>3. SearchInv(net', data', crit', applied', hits', searchfailed', searched')
  BY RenderedSearch
<1>4. OpenGroupIsAskedFor'
  BY RenderedOpen
<1>5. Sound(srv', net', data', pages', crit', hits', failed', muddled')
  BY RenderedSound
<1> QED BY <1>2, <1>3, <1>4, <1>5 DEF ExploreInv

(***************************************************************************)
(* Lemmas: what an action gives to a render                                *)
(***************************************************************************)

\* Some requests that are not writes of stars are taken out of those in flight.
LEMMA Fewer ==
    ASSUME NEW s, NEW n, NEW d, NEW p, NEW c, NEW h, NEW f, NEW m, Sound(s, n, d, p, c, h, f, m),
           NEW n2 \in SUBSET n, \A r \in n \ n2 : r.kind # "star"
    PROVE  Sound(s, n2, d, p, c, h, f, m)
<1>1. PagesInv(n2, p) /\ ListsInv(n2, d, h) /\ UnderInv(n2, d, p, c) /\ ModesInv(f, n2, d, p)
  BY DEF Sound, PagesInv, ListsInv, UnderInv, ModesInv, OneMode, Of
<1>2. \A x : StarsOf(n2, x) = StarsOf(n, x)
  BY DEF StarsOf, Of
<1>3. StarInv(s, n2, d, p, h, m)
  BY <1>2 DEF Sound, StarInv
<1> QED BY <1>1, <1>3 DEF Sound

\* resetGroups(): with no page held or on its way, the criteria may be any.
LEMMA ResetKeeps ==
    ASSUME NEW s, NEW n, NEW d, NEW p, NEW c, NEW h, NEW f, NEW m, Sound(s, n, d, p, c, h, f, m), NEW c2, NEW f2
    PROVE  Sound(s, Reset(n), d, NoPages, c2, h, f2, m)
<1> DEFINE n2 == Reset(n)
<1>1. n2 \in SUBSET n /\ Of(n2, "page") = {} /\ \A r \in n \ n2 : r.kind # "star"
  BY DEF Reset, Stale, Of
<1> HIDE DEF n2
<1>2. /\ \A g \in Groups : NoPages[g].rows = <<>> /\ NoPages[g].under = {} /\ ~NoPages[g].failed
      /\ \A g \in Groups : ~NoPages[g].loaded
  BY DEF NoPages, EMPTY_PAGE
<1>3. Sound(s, n2, d, p, c, h, f, m)
  BY <1>1, Fewer
<1>4. PagesInv(n2, NoPages)
  BY <1>1, <1>2 DEF PagesInv, CursorInv, NoTwins
<1>5. ListsInv(n2, d, h)
  BY <1>3 DEF Sound
<1>6. UnderInv(n2, d, NoPages, c2)
  BY <1>1, <1>2 DEF UnderInv
<1>7. ModesInv(f2, n2, d, NoPages)
  BY <1>1, <1>2, <1>3 DEF Sound, ModesInv, OneMode
<1>8. StarInv(s, n2, d, NoPages, h, m)
  BY <1>2, <1>3 DEF Sound, StarInv, ShowsStar
<1> QED BY <1>4, <1>5, <1>6, <1>7, <1>8 DEF Sound, n2

LEMMA NoPagesAre == NoPages \in [Groups -> PageStates]
BY DEF NoPages, EMPTY_PAGE, PageStates, Cursors

\* Searches are told apart by what they are for and whether any is out.
LEMMA SameSearches ==
    ASSUME NEW n, NEW n2, Of(n2, "search") = Of(n, "search"), NEW d, NEW c, NEW app, NEW h, NEW h2, NEW sf, NEW sd,
           h2.shown = h.shown, h2.query = h.query, h2.sel = h.sel, SearchInv(n, d, c, app, h, sf, sd)
    PROVE  SearchInv(n2, d, c, app, h2, sf, sd)
BY DEF SearchInv

(***************************************************************************)
(* The toolbar                                                             *)
(***************************************************************************)

\* Criteria chosen without a reset ask the server for the same.
LEMMA RechosenKeeps ==
    ASSUME ExploreInv, NEW c \in Criteria, NEW app \in Queries, NEW reset \in BOOLEAN,
           ~reset => PageArgs("paged", c, "0") = PageArgs("paged", crit, "0"),
           Rechosen(c, app, reset), query' \in Queries
    PROVE  ExploreInv'
<1>1. /\ Shape(net, data, pages, open, crit, applied, hits)
      /\ Sound(srv, net, data, pages, crit, hits, failed, muddled)
      /\ SearchInv(net, data, crit, applied, hits, searchfailed, searched)
      /\ failed \in BOOLEAN
  BY DEF ExploreInv, TypeOK
<1>2. srv' = srv /\ failed' = failed /\ searchfailed' = searchfailed /\ muddled' = muddled
  BY DEF Rechosen
<1>3. CASE reset /\ data.mode = "paged"
  <2>1. Rendered(data, NoPages, open, c, app, hits, Reset(net), FALSE)
    BY <1>3 DEF Rechosen
  <2>2. Reset(net) \in SUBSET net /\ Of(Reset(net), "search") = Of(net, "search")
    BY DEF Reset, Stale, Of
  <2>3. Shape(Reset(net), data, NoPages, open, c, app, hits)
    BY <1>1, <2>2, NoPagesAre DEF Shape
  <2>4. Sound(srv, Reset(net), data, NoPages, c, hits, failed', muddled)
    BY <1>1, ResetKeeps
  <2>5. SearchInv(Reset(net), data, crit, applied, hits, searchfailed, searched)
    BY <1>1, <2>2, SameSearches
  <2> QED BY <1>1, <1>2, <2>1, <2>3, <2>4, <2>5, RenderedKeeps
<1>4. CASE ~(reset /\ data.mode = "paged")
  <2>1. Rendered(data, pages, open, c, app, hits, net, FALSE)
    BY <1>4 DEF Rechosen
  <2>2. Shape(net, data, pages, open, c, app, hits)
    BY <1>1 DEF Shape
  <2>3. PageArgs(data.mode, c, "0") = PageArgs(data.mode, crit, "0")
    <3>1. CASE data.mode = "paged"
      BY <1>4, <3>1
    <3>2. CASE data.mode # "paged"
      BY <3>2 DEF PageArgs
    <3> QED BY <3>1, <3>2
  <2>4. UnderInv(net, data, pages, c)
    BY <1>1, <2>3 DEF Sound, UnderInv, InForce
  <2>5. Sound(srv, net, data, pages, c, hits, failed', muddled)
    BY <1>1, <1>2, <2>4 DEF Sound
  <2> QED BY <1>1, <1>2, <2>1, <2>2, <2>5, RenderedKeeps
<1> QED BY <1>3, <1>4

\* What the server is told of the criteria.
LEMMA ToldAlike ==
    ASSUME NEW c, NEW b, serverchip(c) = serverchip(b), c.sel = b.sel, (c.sort = "recent") = (b.sort = "recent")
    PROVE  PageArgs("paged", c, "0") = PageArgs("paged", b, "0")
BY DEF PageArgs

LEMMA CriteriaKeep ==
    ASSUME ExploreInv, ChooseCriteria \/ (\E chip \in Chips : PressLink(chip)) \/ ChooseSelection \/ ChooseSort
                       \/ Clear \/ Settle
    PROVE  ExploreInv'
<1>1. crit \in Criteria /\ applied \in Queries /\ query \in Queries
  BY DEF ExploreInv, TypeOK, Shape
<1>2. CASE ChooseCriteria
  <2>1. PICK scope \in Scopes, star \in BOOLEAN :
           Rechosen([crit EXCEPT !.scope = scope, !.star = star], applied,
                    serverchip([crit EXCEPT !.scope = scope, !.star = star]) # serverchip(crit))
    BY <1>2 DEF ChooseCriteria
  <2> DEFINE c == [crit EXCEPT !.scope = scope, !.star = star]
  <2>2. c \in Criteria /\ c.sel = crit.sel /\ c.sort = crit.sort
    BY <1>1 DEF Criteria
  <2>3. query' \in Queries
    BY <1>1, <1>2 DEF ChooseCriteria
  <2> HIDE DEF c
  <2> DEFINE reset == serverchip(c) # serverchip(crit)
  <2>4. Rechosen(c, applied, reset)
    BY <2>1 DEF c
  <2>5. reset \in BOOLEAN /\ (~reset => PageArgs("paged", c, "0") = PageArgs("paged", crit, "0"))
    BY <2>2, ToldAlike
  <2> HIDE DEF reset
  <2> QED BY <1>1, <2>2, <2>3, <2>4, <2>5, RechosenKeeps
<1>3. CASE \E chip \in Chips : PressLink(chip)
  <2>1. PICK chip \in Chips : PressLink(chip)
    BY <1>3
  <2> DEFINE c == Implied(chip)
  <2>2. c \in Criteria /\ c.sel = crit.sel /\ c.sort = crit.sort
    BY <1>1 DEF Criteria, Implied, Chips, Scopes
  <2>3. query' \in Queries
    BY <1>1, <2>1 DEF PressLink
  <2> HIDE DEF c
  <2> DEFINE reset == serverchip(c) # serverchip(crit)
  <2>4. Rechosen(c, applied, reset)
    BY <2>1 DEF c, PressLink
  <2>5. reset \in BOOLEAN /\ (~reset => PageArgs("paged", c, "0") = PageArgs("paged", crit, "0"))
    BY <2>2, ToldAlike
  <2> HIDE DEF reset
  <2> QED BY <1>1, <2>2, <2>3, <2>4, <2>5, RechosenKeeps
<1>4. CASE ChooseSelection
  <2> DEFINE c == [crit EXCEPT !.sel = ~@]
  <2>1. c \in Criteria
    BY <1>1 DEF Criteria
  <2>2. Rechosen(c, applied, TRUE) /\ query' \in Queries
    BY <1>1, <1>4 DEF ChooseSelection
  <2> HIDE DEF c
  <2> QED BY <1>1, <2>1, <2>2, RechosenKeeps
<1>5. CASE ChooseSort
  <2>1. PICK sort \in {"category", "recent"} :
           Rechosen([crit EXCEPT !.sort = sort], applied, (sort = "recent") # (crit.sort = "recent"))
    BY <1>5 DEF ChooseSort
  <2> DEFINE c == [crit EXCEPT !.sort = sort]
             reset == (sort = "recent") # (crit.sort = "recent")
  <2>2. c \in Criteria /\ c.sel = crit.sel /\ c.sort = sort /\ c.star = crit.star /\ c.scope = crit.scope
    BY <1>1 DEF Criteria
  <2>3. query' \in Queries
    BY <1>1, <1>5 DEF ChooseSort
  <2> HIDE DEF c
  <2>4. serverchip(c) = serverchip(crit)
    BY <2>2 DEF serverchip
  <2>5. reset \in BOOLEAN /\ (~reset => PageArgs("paged", c, "0") = PageArgs("paged", crit, "0"))
    BY <2>2, <2>4, ToldAlike
  <2>6. Rechosen(c, applied, reset)
    BY <2>1 DEF c
  <2> HIDE DEF reset
  <2> QED BY <1>1, <2>2, <2>3, <2>5, <2>6, RechosenKeeps
<1>6. CASE Clear
  <2>1. PICK c \in {[crit EXCEPT !.scope = "all", !.star = FALSE, !.sel = FALSE], [crit EXCEPT !.sel = FALSE], crit} :
           Rechosen(c, "", c # crit)
    BY <1>6 DEF Clear
  <2>2. c \in Criteria /\ "" \in Queries /\ query' \in Queries
    BY <1>1, <1>6 DEF Clear, Criteria, Scopes, Queries
  <2> DEFINE reset == c # crit
  <2>3. reset \in BOOLEAN /\ (~reset => PageArgs("paged", c, "0") = PageArgs("paged", crit, "0")) /\ Rechosen(c, "", reset)
    BY <2>1
  <2> HIDE DEF reset
  <2> QED BY <2>2, <2>3, RechosenKeeps
<1>7. CASE Settle
  <2>1. Rechosen(crit, query, FALSE) /\ query' \in Queries
    BY <1>1, <1>7 DEF Settle
  <2> QED BY <1>1, <2>1, RechosenKeeps
<1> QED BY <1>2, <1>3, <1>4, <1>5, <1>6, <1>7

(***************************************************************************)
(* The groups                                                              *)
(***************************************************************************)

LEMMA RegroupedKeeps ==
    ASSUME ExploreInv, NEW p \in [Groups -> PageStates], NEW o \in OpenGroups, NEW n, \A r \in n : IsRequest(r),
           Sound(srv, n, data, p, crit, hits, failed, muddled), Of(n, "search") = Of(net, "search"),
           Regrouped(p, o, n)
    PROVE  ExploreInv'
<1>1. /\ Shape(net, data, pages, open, crit, applied, hits)
      /\ SearchInv(net, data, crit, applied, hits, searchfailed, searched)
      /\ failed \in BOOLEAN /\ query \in Queries
  BY DEF ExploreInv, TypeOK
<1>2. /\ srv' = srv /\ failed' = failed /\ searchfailed' = searchfailed /\ muddled' = muddled /\ query' = query
      /\ Rendered(data, p, o, crit, applied, hits, n, FALSE)
  BY DEF Regrouped
<1>3. Shape(n, data, p, o, crit, applied, hits)
  BY <1>1 DEF Shape
<1>4. SearchInv(n, data, crit, applied, hits, searchfailed, searched)
  BY <1>1, SameSearches
<1> QED BY <1>1, <1>2, <1>3, <1>4, RenderedKeeps

\* A failed page may be dropped for a fresh one: no request is out for it.
LEMMA Refreshed ==
    ASSUME NEW s, NEW n, NEW d, NEW p, NEW c, NEW h, NEW f, NEW m, Sound(s, n, d, p, c, h, f, m),
           NEW p2, \A g \in Groups : p2[g] = p[g] \/ (p[g].failed /\ p2[g] = EMPTY_PAGE),
           \A r \in n : IsRequest(r)
    PROVE  Sound(s, n, d, p2, c, h, f, m)
<1>1. /\ EMPTY_PAGE.rows = <<>> /\ EMPTY_PAGE.under = {} /\ ~EMPTY_PAGE.failed /\ ~EMPTY_PAGE.loaded
      /\ NoTwins(EMPTY_PAGE.rows) /\ CursorInv(EMPTY_PAGE) /\ \A x : ShowsStar(EMPTY_PAGE.rows, x, s)
  BY DEF EMPTY_PAGE, NoTwins, CursorInv, ShowsStar
<1>2. \A r \in Of(n, "page") : r.group \in Groups
  BY KindIs DEF Of, Pages
<1>3. \A r \in Of(n, "page") : p2[r.group] = p[r.group]
  BY <1>2 DEF Sound, PagesInv, Waits, CursorInv
<1>4. PagesInv(n, p2)
  BY <1>1, <1>3 DEF Sound, PagesInv
<1>5. UnderInv(n, d, p2, c)
  BY <1>1 DEF Sound, UnderInv
<1>6. ModesInv(f, n, d, p2)
  BY <1>1 DEF Sound, ModesInv, OneMode
<1>7. StarInv(s, n, d, p2, h, m)
  BY <1>1 DEF Sound, StarInv
<1> QED BY <1>4, <1>5, <1>6, <1>7 DEF Sound

LEMMA EmptyPageIs == EMPTY_PAGE \in PageStates
BY DEF EMPTY_PAGE, PageStates, Cursors

LEMMA GroupsKeep ==
    ASSUME ExploreInv, NEW g \in Groups, ToggleGroup(g) \/ ShowMore(g) \/ RetryGroup(g)
    PROVE  ExploreInv'
<1>1. /\ Shape(net, data, pages, open, crit, applied, hits)
      /\ Sound(srv, net, data, pages, crit, hits, failed, muddled)
      /\ \A r \in net : IsRequest(r)
      /\ pages \in [Groups -> PageStates] /\ open \in OpenGroups /\ data \in Payloads /\ crit \in Criteria
  BY DEF ExploreInv, TypeOK, Shape
<1>2. \A k \in Groups : [open EXCEPT ![k] = ~@] \in OpenGroups /\ [open EXCEPT ![k] = TRUE] \in OpenGroups
  BY <1>1 DEF OpenGroups
<1> DEFINE p2 == [pages EXCEPT ![g] = EMPTY_PAGE]
<1>3. /\ p2 \in [Groups -> PageStates]
      /\ pages[g].failed => \A k \in Groups : p2[k] = pages[k] \/ (pages[k].failed /\ p2[k] = EMPTY_PAGE)
  BY <1>1, EmptyPageIs
<1> HIDE DEF p2
<1>4. pages[g].failed => Sound(srv, net, data, p2, crit, hits, failed, muddled)
  BY <1>1, <1>3, Refreshed
<1>5. CASE ToggleGroup(g)
  <2>1. CASE ~open[g] /\ pages[g].failed
    <3>1. Regrouped(p2, [open EXCEPT ![g] = ~@], net)
      BY <1>5, <2>1 DEF ToggleGroup, p2
    <3> QED BY <1>1, <1>2, <1>3, <1>4, <2>1, <3>1, RegroupedKeeps
  <2>2. CASE ~(~open[g] /\ pages[g].failed)
    <3>1. Regrouped(pages, [open EXCEPT ![g] = ~@], net)
      BY <1>5, <2>2 DEF ToggleGroup
    <3> QED BY <1>1, <1>2, <3>1, RegroupedKeeps
  <2> QED BY <2>1, <2>2
<1>6. CASE ShowMore(g)
  <2> DEFINE n2 == Asked(data, pages, crit, {g}, net)
             p3 == Loading(pages, {g})
  <2>1. Regrouped(p3, open, n2) /\ pages[g].hasmore /\ ~pages[g].failed /\ ~pages[g].loading
    BY <1>6 DEF ShowMore
  <2>2. \A r : r \in n2 <=> \/ r \in net /\ ~(r.kind = "page" /\ r.group = g)
                            \/ r = Asking(data, pages, crit, g)
    BY DEF Asked, Stale, PagesOut, Of, Asking
  <2>3. Asking(data, pages, crit, g) \in Pages /\ Asking(data, pages, crit, g).kind = "page"
        /\ Asking(data, pages, crit, g).state = "sent"
    BY <1>1, AskingIs
  <2> HIDE DEF n2
  <2>4. AsksFor({g}, data, pages, crit, net, n2)
    BY <2>1, <2>2, <2>3 DEF AsksFor, Of
  <2>5. Sound(srv, n2, data, p3, crit, hits, failed, muddled)
    BY <1>1, <2>4, AskedKeeps
  <2>6. p3 \in [Groups -> PageStates]
    BY <1>1, LoadingIs
  <2>7. (\A r \in n2 : IsRequest(r)) /\ Of(n2, "search") = Of(net, "search")
    BY <1>1, <2>2, <2>3 DEF IsRequest, Of
  <2> HIDE DEF p3
  <2> QED BY <1>1, <2>1, <2>5, <2>6, <2>7, RegroupedKeeps
<1>7. CASE RetryGroup(g)
  <2>1. Regrouped(p2, open, net) /\ pages[g].failed
    BY <1>7 DEF RetryGroup, p2
  <2> QED BY <1>1, <1>3, <1>4, <2>1, RegroupedKeeps
<1> QED BY <1>5, <1>6, <1>7

\* An entry of the index does what the summary of its closed group does.
LEMMA IndexToggles == ASSUME ExploreInv, OpenIndexed PROVE LISTED \in Groups /\ ToggleGroup(LISTED)
<1>1. LISTED \in Groups /\ open \in OpenGroups /\ ~open[LISTED]
  BY DEF OpenIndexed, Groups, ExploreInv, TypeOK, Shape
<1>2. [open EXCEPT ![LISTED] = TRUE] = [open EXCEPT ![LISTED] = ~@]
  BY <1>1 DEF OpenGroups
<1> QED BY <1>1, <1>2 DEF OpenIndexed, ToggleGroup

(***************************************************************************)
(* The answers                                                             *)
(***************************************************************************)

\* Rows put after others: those of no course held, or those of a list that held none.
LEMMA Joined ==
    ASSUME NEW a \in Seq(Rows), NEW b \in Seq(Rows)
    PROVE  /\ a \o b \in Seq(Rows)
           /\ \A x, s : ShowsStar(a, x, s) /\ ShowsStar(b, x, s) => ShowsStar(a \o b, x, s)
           /\ NoTwins(a) /\ NoTwins(b) /\ Ids(a) \cap Ids(b) = {} => NoTwins(a \o b)
<1>1. /\ a \o b \in Seq(Rows) /\ Len(a \o b) = Len(a) + Len(b) /\ Len(a) \in Nat /\ Len(b) \in Nat
      /\ DOMAIN a = 1 .. Len(a) /\ DOMAIN b = 1 .. Len(b) /\ DOMAIN (a \o b) = 1 .. Len(a) + Len(b)
      /\ \A i \in 1 .. Len(a) + Len(b) : (a \o b)[i] = IF i <= Len(a) THEN a[i] ELSE b[i - Len(a)]
  BY ConcatProperties, LenProperties
<1> DEFINE j == a \o b
<1> HIDE DEF j
<1>2. \A i \in DOMAIN j : \/ i \in DOMAIN a /\ j[i] = a[i]
                          \/ i \notin DOMAIN a /\ i - Len(a) \in DOMAIN b /\ j[i] = b[i - Len(a)]
  BY <1>1 DEF j
<1>3. \A x, s : ShowsStar(a, x, s) /\ ShowsStar(b, x, s) => ShowsStar(j, x, s)
  BY <1>2 DEF ShowsStar
<1>4. ASSUME NoTwins(a), NoTwins(b), Ids(a) \cap Ids(b) = {}, NEW i \in DOMAIN j, NEW k \in DOMAIN j, j[i].id = j[k].id
      PROVE  i = k
  <2>1. i \in Int /\ k \in Int /\ Len(a) \in Int
    BY <1>1 DEF j
  <2>2. CASE i \in DOMAIN a /\ k \in DOMAIN a
    BY <1>2, <1>4, <2>2 DEF NoTwins
  <2>3. CASE i \notin DOMAIN a /\ k \notin DOMAIN a
    <3>1. i - Len(a) = k - Len(a)
      BY <1>2, <1>4, <2>3 DEF NoTwins
    <3> QED BY <2>1, <3>1
  <2>4. CASE i \in DOMAIN a /\ k \notin DOMAIN a
    BY <1>2, <1>4, <2>4 DEF Ids
  <2>5. CASE i \notin DOMAIN a /\ k \in DOMAIN a
    BY <1>2, <1>4, <2>5 DEF Ids
  <2> QED BY <2>2, <2>3, <2>4, <2>5
<1>5. NoTwins(a) /\ NoTwins(b) /\ Ids(a) \cap Ids(b) = {} => NoTwins(j)
  BY <1>4 DEF NoTwins
<1> QED BY <1>1, <1>3, <1>5 DEF j

\* A page as its group takes it.
LEMMA PagedIs ==
    ASSUME NEW page \in PageStates, NEW r \in Pages, NEW q, q = Paged(page, r)
    PROVE  /\ q \in PageStates
           /\ q.rows = (IF restarted(r) THEN r.answer.rows ELSE page.rows \o r.answer.rows)
           /\ q.after = r.answer.after /\ q.hasmore = r.answer.hasmore /\ q.loaded /\ ~q.loading /\ ~q.failed
           /\ q.under = page.under \cup {Under(r)}
<1>1. r.answer \in Answers /\ r.args \in Args
  BY DEF Pages
<1>2. r.answer.rows \in Seq(Rows) /\ page.rows \in Seq(Rows) /\ page.under \in SUBSET Args /\ page.torn \in BOOLEAN
      /\ r.answer.after \in Cursors /\ r.answer.hasmore \in BOOLEAN
  BY <1>1 DEF Answers, PageStates
<1>3. page.rows \o r.answer.rows \in Seq(Rows)
  BY <1>2, Joined
<1>4. Under(r) \in Args
  BY <1>1 DEF Under, Args, Cursors
<1> DEFINE rows == IF restarted(r) THEN r.answer.rows ELSE page.rows \o r.answer.rows
           under == page.under \cup {Under(r)}
<1>5. rows \in Seq(Rows) /\ under \in SUBSET Args
  BY <1>2, <1>3, <1>4
<1>6. q = [EMPTY_PAGE EXCEPT !.rows = rows, !.after = r.answer.after, !.hasmore = r.answer.hasmore, !.loaded = TRUE,
                             !.under = under, !.torn = page.torn]
  BY DEF Paged, Under
<1>7. rows = (IF restarted(r) THEN r.answer.rows ELSE page.rows \o r.answer.rows) /\ under = page.under \cup {Under(r)}
  OBVIOUS
<1> HIDE DEF rows, under
<1>8. /\ q.rows = rows /\ q.after = r.answer.after /\ q.hasmore = r.answer.hasmore /\ q.loaded /\ ~q.loading /\ ~q.failed
      /\ q.under = under
  BY <1>6 DEF EMPTY_PAGE
<1>9. q \in PageStates
  BY <1>2, <1>5, <1>6 DEF EMPTY_PAGE, PageStates
<1> QED BY <1>7, <1>8, <1>9

LEMMA PageAnswerKeeps ==
    ASSUME ExploreInv, NEW r \in net, PageAnswer(r)
    PROVE  ExploreInv'
<1> DEFINE g == r.group
           q == IF r.state = "failed" THEN [pages[g] EXCEPT !.loading = FALSE, !.failed = TRUE] ELSE Paged(pages[g], r)
           p2 == [pages EXCEPT ![g] = q]
           n2 == net \ {r}
<1>1. /\ Sound(srv, net, data, pages, crit, hits, failed, muddled)
      /\ \A x \in net : IsRequest(x)
      /\ pages \in [Groups -> PageStates] /\ open \in OpenGroups
  BY DEF ExploreInv, TypeOK, Shape
<1>2. /\ r \in Of(net, "page") /\ r.state # "sent" /\ Regrouped(p2, open, n2)
      /\ r.kind = "page"
  <2>1. /\ r \in Of(net, "page") /\ r.state # "sent"
        /\ Regrouped([pages EXCEPT ![r.group] =
                    IF r.state = "failed" THEN [@ EXCEPT !.loading = FALSE, !.failed = TRUE] ELSE Paged(@, r)],
                     open, net \ {r})
    BY DEF PageAnswer
  <2> QED BY <2>1 DEF Of
<1>3. r \in Pages /\ g \in Groups /\ pages[g] \in PageStates /\ r.state \in {"served", "failed"}
  BY <1>1, <1>2, KindIs DEF Pages, States
<1>4. /\ Waits(r, pages[g]) /\ CursorInv(pages[g]) /\ NoTwins(pages[g].rows)
      /\ AnswerInv(r) /\ InForce(Under(r), data, crit)
      /\ \A x \in Of(net, "page") : x.group = g => x = r
  BY <1>1, <1>2, <1>3 DEF Sound, PagesInv, ListsInv, UnderInv
<1>5. r.answer.rows \in Seq(Rows) /\ pages[g].rows \in Seq(Rows)
  BY <1>3 DEF Pages, Answers, PageStates
<1>6. q \in PageStates /\ CursorInv(q) /\ NoTwins(q.rows)
  <2>1. CASE r.state = "failed"
    <3>1. q = [pages[g] EXCEPT !.loading = FALSE, !.failed = TRUE]
      BY <2>1
    <3> HIDE DEF q
    <3>2. q \in PageStates
      BY <1>3, <3>1 DEF PageStates
    <3>3. q.rows = pages[g].rows /\ q.after = pages[g].after /\ q.hasmore = pages[g].hasmore
          /\ q.loaded = pages[g].loaded /\ ~q.loading
      BY <1>3, <3>1 DEF PageStates
    <3> QED BY <1>4, <3>2, <3>3 DEF CursorInv
  <2>2. CASE r.state = "served"
    <3>1. q = Paged(pages[g], r)
      BY <2>2
    <3> HIDE DEF q
    <3>2. NoTwins(r.answer.rows) /\ (r.answer.after = "0" => ~r.answer.hasmore)
      BY <1>2, <1>4, <2>2 DEF AnswerInv, Reads
    <3>3. ~restarted(r) => Ids(pages[g].rows) \cap Ids(r.answer.rows) = {}
      <4>1. Ids(<<>>) = {}
        BY DEF Ids
      <4> QED BY <1>4, <4>1 DEF restarted, Waits
    <3>4. NoTwins(q.rows)
      BY <1>3, <1>4, <1>5, <3>1, <3>2, <3>3, PagedIs, Joined
    <3>5. q \in PageStates /\ CursorInv(q)
      BY <1>3, <3>1, <3>2, PagedIs DEF CursorInv
    <3> QED BY <3>4, <3>5
  <2> QED BY <1>3, <2>1, <2>2
<1>7. /\ \A a \in q.under : a \in pages[g].under \/ (a = Under(r) /\ r.state = "served")
      /\ \A x \in Courses \ muddled : (\A y \in StarsOf(net, x) : y.state # "served") => ShowsStar(q.rows, x, srv)
  <2>1. \A x \in Courses \ muddled : (\A y \in StarsOf(net, x) : y.state # "served") => ShowsStar(pages[g].rows, x, srv)
    BY <1>1, <1>3 DEF Sound, StarInv
  <2>2. CASE r.state = "failed"
    <3>1. q = [pages[g] EXCEPT !.loading = FALSE, !.failed = TRUE]
      BY <2>2
    <3> HIDE DEF q
    <3>2. q.rows = pages[g].rows /\ q.under = pages[g].under
      BY <1>3, <3>1 DEF PageStates
    <3> QED BY <2>1, <3>2
  <2>3. CASE r.state = "served"
    <3>1. q = Paged(pages[g], r)
      BY <2>3
    <3> HIDE DEF q
    <3>2. \A x \in Courses \ muddled : ShowsStar(r.answer.rows, x, srv)
      BY <1>1, <1>2, <2>3 DEF Sound, StarInv, Reads
    <3>3. q.rows = r.answer.rows \/ q.rows = pages[g].rows \o r.answer.rows
      BY <1>3, <3>1, PagedIs
    <3>4. \A x \in Courses \ muddled : (\A y \in StarsOf(net, x) : y.state # "served") => ShowsStar(q.rows, x, srv)
      <4> SUFFICES ASSUME NEW x \in Courses \ muddled, \A y \in StarsOf(net, x) : y.state # "served"
                   PROVE  ShowsStar(q.rows, x, srv)
        OBVIOUS
      <4>1. ShowsStar(pages[g].rows, x, srv) /\ ShowsStar(r.answer.rows, x, srv)
        BY <2>1, <3>2
      <4>2. ShowsStar(pages[g].rows \o r.answer.rows, x, srv)
        BY <1>5, <4>1, Joined
      <4> QED BY <3>3, <4>1, <4>2
    <3>5. q.under = pages[g].under \cup {Under(r)}
      BY <1>3, <3>1, PagedIs
    <3> QED BY <2>3, <3>4, <3>5
  <2> QED BY <1>3, <2>2, <2>3
<1> HIDE DEF q
<1>8. /\ p2 \in [Groups -> PageStates] /\ p2[g] = q /\ \A k \in Groups \ {g} : p2[k] = pages[k]
      /\ n2 \in SUBSET net /\ \A x \in net \ n2 : x.kind # "star"
      /\ Of(n2, "search") = Of(net, "search")
  BY <1>1, <1>2, <1>3, <1>6 DEF Of
<1>9. Sound(srv, n2, data, pages, crit, hits, failed, muddled)
  BY <1>1, <1>8, Fewer
<1>10. \A x \in Of(n2, "page") : x.group # g /\ x.group \in Groups /\ x \in Of(net, "page")
  <2>1. \A x \in Of(n2, "page") : x \in Of(net, "page") /\ x # r
    BY DEF Of
  <2>2. \A x \in Of(net, "page") : x.group \in Groups
    BY <1>1, KindIs DEF Of, Pages
  <2> QED BY <1>4, <2>1, <2>2
<1> HIDE DEF p2, n2
<1>11. PagesInv(n2, p2)
  <2>1. \A k \in Groups : CursorInv(p2[k]) /\ NoTwins(p2[k].rows)
    BY <1>1, <1>6, <1>8 DEF Sound, PagesInv
  <2>2. \A x \in Of(n2, "page") : Waits(x, p2[x.group])
    BY <1>8, <1>9, <1>10 DEF Sound, PagesInv
  <2> QED BY <1>9, <2>1, <2>2 DEF Sound, PagesInv
<1>12. UnderInv(n2, data, p2, crit)
  <2>1. \A k \in Groups : \A a \in p2[k].under : InForce(a, data, crit)
    BY <1>4, <1>7, <1>8, <1>9 DEF Sound, UnderInv
  <2> QED BY <1>9, <2>1 DEF Sound, UnderInv
<1>13. ModesInv(failed, n2, data, p2)
  <2>1. Under(r).mode = r.args.mode
    BY <1>3 DEF Under, Pages, Args
  <2>2. failed \/ Of(n2, "inventory") # {} => failed \/ Of(net, "inventory") # {}
    BY <1>8 DEF Of
  <2>3. failed \/ Of(n2, "inventory") # {} => r.args.mode = data.mode
    BY <1>1, <1>2, <2>2 DEF Sound, ModesInv, OneMode
  <2>4. failed \/ Of(n2, "inventory") # {} => \A k \in Groups : \A a \in p2[k].under : a.mode = data.mode
    BY <1>7, <1>8, <1>9, <2>1, <2>3 DEF Sound, ModesInv, OneMode
  <2> QED BY <1>9, <2>4 DEF Sound, ModesInv, OneMode
<1>14. StarInv(srv, n2, data, p2, hits, muddled)
  <2>1. \A x : StarsOf(n2, x) = StarsOf(net, x)
    BY <1>8 DEF StarsOf, Of
  <2>2. \A x \in Courses \ muddled : (\A y \in StarsOf(n2, x) : y.state # "served") =>
           \A k \in Groups : ShowsStar(p2[k].rows, x, srv)
    BY <1>7, <1>8, <1>9, <2>1 DEF Sound, StarInv
  <2> QED BY <1>9, <2>2 DEF Sound, StarInv
<1>15. Sound(srv, n2, data, p2, crit, hits, failed, muddled)
  BY <1>9, <1>11, <1>12, <1>13, <1>14 DEF Sound
<1> QED BY <1>1, <1>2, <1>8, <1>15, RegroupedKeeps

LEMMA SearchAnswerKeeps ==
    ASSUME ExploreInv, NEW r \in net, SearchAnswer(r)
    PROVE  ExploreInv'
<1> DEFINE h2 == [shown |-> TRUE, rows |-> r.answer.rows, sel |-> r.sel, query |-> r.query]
           n2 == net \ {r}
<1>1. /\ Sound(srv, net, data, pages, crit, hits, failed, muddled)
      /\ SearchInv(net, data, crit, applied, hits, searchfailed, searched)
      /\ \A x \in net : IsRequest(x)
      /\ hits \in Hits /\ OpenGroupIsAskedFor /\ TypeOK
  BY DEF ExploreInv, TypeOK, Shape
<1>2. /\ r.kind = "search" /\ r.state # "sent" /\ net' = n2
      /\ hits' = (IF r.state = "served" THEN h2 ELSE hits)
      /\ searchfailed' = (r.state = "failed")
      /\ srv' = srv /\ data' = data /\ failed' = failed /\ pages' = pages /\ open' = open /\ openbefore' = openbefore
      /\ crit' = crit /\ query' = query /\ applied' = applied /\ searched' = searched /\ muddled' = muddled
  BY DEF SearchAnswer, Of
<1>3. r \in Searches /\ r.state \in {"served", "failed"}
  BY <1>1, <1>2, KindIs DEF Searches, States
<1>4. h2 \in Hits /\ h2.shown /\ h2.query = r.query /\ h2.sel = r.sel /\ h2.rows = r.answer.rows
  BY <1>3 DEF Searches, Answers, Hits
<1> HIDE DEF h2, n2
<1>5. n2 \in SUBSET net /\ (\A x \in net \ n2 : x.kind # "star") /\ Of(n2, "search") \in SUBSET Of(net, "search")
  BY <1>2 DEF n2, Of
<1>6. Sound(srv, n2, data, pages, crit, hits, failed, muddled)
  BY <1>1, <1>5, Fewer
<1>7. ASSUME r.state = "served" PROVE Sound(srv, n2, data, pages, crit, h2, failed, muddled)
  <2>1. NoTwins(h2.rows) /\ \A x \in Courses \ muddled : ShowsStar(h2.rows, x, srv)
    BY <1>1, <1>2, <1>4, <1>7 DEF Sound, ListsInv, AnswerInv, StarInv, Reads
  <2>2. ListsInv(n2, data, h2)
    BY <1>6, <2>1 DEF Sound, ListsInv
  <2>3. StarInv(srv, n2, data, pages, h2, muddled)
    BY <1>6, <2>1 DEF Sound, StarInv
  <2> QED BY <1>6, <2>2, <2>3 DEF Sound
<1>8. Sound(srv, n2, data, pages, crit, hits', failed, muddled)
  BY <1>2, <1>6, <1>7
<1>9. SearchInv(n2, data, crit, applied, hits', r.state = "failed", searched)
  <2>1. r \in Of(net, "search")
    BY <1>2 DEF Of
  <2>2. CASE r.state = "served"
    BY <1>1, <1>2, <1>4, <1>5, <2>1, <2>2 DEF SearchInv
  <2>3. CASE r.state = "failed"
    BY <1>1, <1>2, <1>5, <2>1, <2>3 DEF SearchInv
  <2> QED BY <1>3, <2>2, <2>3
<1>10. TypeOK'
  <2>1. hits' \in Hits /\ \A x \in n2 : IsRequest(x)
    BY <1>1, <1>2, <1>4, <1>5
  <2>2. Shape(net, data, pages, open, crit, applied, hits)'
    BY <1>1, <1>2, <2>1 DEF TypeOK, Shape
  <2> QED BY <1>1, <1>2, <2>2 DEF TypeOK
<1>11. OpenGroupIsAskedFor'
  BY <1>1, <1>2 DEF OpenGroupIsAskedFor, pagedgroup, keepsnothing
<1> QED BY <1>2, <1>8, <1>9, <1>10, <1>11 DEF ExploreInv

LEMMA ReloadIs == \A first \in BOOLEAN : InventoryRequest(first) \in Inventories
BY DEF InventoryRequest, Inventories, States, NoAnswer, Answers, Modes, Cursors

\* The inventory is loaded anew: its answer may bring another mode, which no page held or on its way is of.
LEMMA ReloadKeeps ==
    ASSUME NEW s, NEW n, NEW d, NEW p, NEW c, NEW h, NEW f, NEW m, Sound(s, n, d, p, c, h, f, m),
           NEW first, InventoryRequest(first) \in Inventories,
           OneMode(n, d, p)
    PROVE  /\ Sound(s, ReloadingInventory(first, n), d, p, c, h, f, m)
           /\ Of(ReloadingInventory(first, n), "search") = Of(n, "search")
           /\ (\A r \in n : IsRequest(r)) => \A r \in ReloadingInventory(first, n) : IsRequest(r)
<1> DEFINE n2 == ReloadingInventory(first, n)
           q == InventoryRequest(first)
<1>1. q.kind = "inventory" /\ q.state = "sent"
  BY DEF InventoryRequest
<1>2. q \in Inventories
  OBVIOUS
<1> HIDE DEF q
<1>3. \A r : r \in n2 <=> (r \in n /\ r.kind # "inventory") \/ r = q
  BY DEF ReloadingInventory, Stale, Of, q
<1> HIDE DEF n2
<1>4. Of(n2, "page") = Of(n, "page") /\ Of(n2, "search") = Of(n, "search") /\ \A x : StarsOf(n2, x) = StarsOf(n, x)
  BY <1>1, <1>3 DEF Of, StarsOf
<1>5. PagesInv(n2, p) /\ UnderInv(n2, d, p, c)
  BY <1>4 DEF Sound, PagesInv, UnderInv
<1>6. ListsInv(n2, d, h)
  BY <1>1, <1>3 DEF Sound, ListsInv, AnswerInv
<1>7. ModesInv(f, n2, d, p)
  BY <1>1, <1>3, <1>4 DEF ModesInv, OneMode, Of
<1>8. StarInv(s, n2, d, p, h, m)
  BY <1>1, <1>3, <1>4 DEF Sound, StarInv
<1>9. (\A r \in n : IsRequest(r)) => \A r \in n2 : IsRequest(r)
  BY <1>2, <1>3 DEF IsRequest
<1> QED BY <1>4, <1>5, <1>6, <1>7, <1>8, <1>9 DEF Sound, n2

\* A step that renders nothing keeps the invariant if what is out does.
LEMMA NetKeeps ==
    ASSUME ExploreInv, data' = data, pages' = pages, open' = open, openbefore' = openbefore, crit' = crit,
           applied' = applied, hits' = hits, srv' = srv, failed' = failed, searchfailed' = searchfailed,
           searched' = searched, query' \in Queries,
           \A r \in net' : IsRequest(r), Of(net', "search") = Of(net, "search"),
           Sound(srv, net', data, pages, crit, hits, failed, muddled')
    PROVE  ExploreInv'
<1>1. /\ SearchInv(net, data, crit, applied, hits, searchfailed, searched)
      /\ OpenGroupIsAskedFor /\ TypeOK
  BY DEF ExploreInv
<1>2. SearchInv(net', data, crit, applied, hits, searchfailed, searched)
  BY <1>1, SameSearches
<1>3. TypeOK'
  <2>1. Shape(net, data, pages, open, crit, applied, hits)'
    BY <1>1 DEF TypeOK, Shape
  <2> QED BY <1>1, <2>1 DEF TypeOK
<1>4. OpenGroupIsAskedFor'
  BY <1>1 DEF OpenGroupIsAskedFor, pagedgroup, keepsnothing
<1> QED BY <1>2, <1>3, <1>4 DEF ExploreInv

LEMMA InventoryAnswerKeeps ==
    ASSUME ExploreInv, NEW r \in net, InventoryAnswer(r)
    PROVE  ExploreInv'
<1> DEFINE taken == r.state = "served"
           d == IF taken THEN [mode |-> r.answer.mode, groups |-> r.answer.groups, rows |-> r.answer.rows] ELSE data
           o == IF taken /\ r.first /\ d.mode = "full" /\ LISTED \in d.groups
                THEN [g \in Groups |-> g = LISTED] ELSE open
           n2 == net \ {r}
<1>1. /\ Sound(srv, net, data, pages, crit, hits, failed, muddled)
      /\ SearchInv(net, data, crit, applied, hits, searchfailed, searched)
      /\ Shape(net, data, pages, open, crit, applied, hits)
      /\ \A x \in net : IsRequest(x)
      /\ open \in OpenGroups /\ data \in Payloads /\ query \in Queries
  BY DEF ExploreInv, TypeOK, Shape
<1>2. /\ r.kind = "inventory" /\ r.state # "sent" /\ Rendered(d, pages, o, crit, applied, hits, n2, FALSE)
      /\ failed' = (r.state = "failed")
      /\ srv' = srv /\ query' = query /\ searchfailed' = searchfailed /\ muddled' = muddled
  BY DEF InventoryAnswer, Of
<1>3. r \in Inventories /\ r.state \in {"served", "failed"}
  BY <1>1, <1>2, KindIs DEF Inventories, States
<1>4. taken => d.mode = r.answer.mode /\ d.rows = r.answer.rows /\ d \in Payloads
  BY <1>3 DEF Inventories, Answers, Payloads
<1>5. ~taken => d = data
  OBVIOUS
<1>6. d \in Payloads /\ o \in OpenGroups
  <2>1. [g \in Groups |-> g = LISTED] \in OpenGroups
    BY DEF OpenGroups
  <2> QED BY <1>1, <1>4, <1>5, <2>1
<1> HIDE DEF d, o
<1>7. n2 \in SUBSET net /\ (\A x \in net \ n2 : x.kind # "star") /\ Of(n2, "search") = Of(net, "search")
      /\ Of(n2, "inventory") = {}
  BY <1>1, <1>2 DEF Of, Sound, ModesInv, OneMode
<1> HIDE DEF n2
<1>8. Sound(srv, n2, data, pages, crit, hits, failed, muddled)
  BY <1>1, <1>7, Fewer
<1>9. /\ \A g \in Groups : \A a \in pages[g].under : a.mode = data.mode
      /\ \A x \in Of(n2, "page") : x.args.mode = data.mode
  <2>1. r \in Of(net, "inventory") /\ Of(n2, "page") \in SUBSET Of(net, "page")
    BY <1>2, <1>7 DEF Of
  <2> QED BY <1>1, <2>1 DEF Sound, ModesInv, OneMode
<1>10. Sound(srv, n2, d, pages, crit, hits, failed', muddled)
  <2>1. NoTwins(d.rows) /\ (taken => \A x \in Courses \ muddled : ShowsStar(d.rows, x, srv))
    BY <1>1, <1>2, <1>4, <1>5 DEF Sound, ListsInv, AnswerInv, StarInv, Reads
  <2>2. ListsInv(n2, d, hits)
    BY <1>8, <2>1 DEF Sound, ListsInv
  <2>3. StarInv(srv, n2, d, pages, hits, muddled)
    BY <1>5, <1>8, <2>1 DEF Sound, StarInv
  <2>4. UnderInv(n2, d, pages, crit)
    <3>1. CASE d.mode = data.mode
      BY <1>8, <3>1 DEF Sound, UnderInv, InForce
    <3>2. CASE d.mode # data.mode
      <4>1. \A x \in Of(n2, "page") : Under(x).mode = x.args.mode
        <5>1. \A x \in Of(n2, "page") : x \in Pages
          BY <1>1, <1>7, KindIs DEF Of
        <5> QED BY <5>1 DEF Under, Pages, Args
      <4> QED BY <1>9, <3>2, <4>1 DEF UnderInv, InForce
    <3> QED BY <3>1, <3>2
  <2>5. ModesInv(failed', n2, d, pages)
    BY <1>2, <1>3, <1>5, <1>7, <1>9 DEF ModesInv, OneMode
  <2> QED BY <1>8, <2>2, <2>3, <2>4, <2>5 DEF Sound
<1>11. Shape(n2, d, pages, o, crit, applied, hits)
  BY <1>1, <1>6, <1>7 DEF Shape
<1>12. SearchInv(n2, data, crit, applied, hits, searchfailed, searched)
  BY <1>1, <1>7, SameSearches
<1>13. failed' \in BOOLEAN /\ query' \in Queries
  BY <1>1, <1>2
<1> QED BY <1>2, <1>10, <1>11, <1>12, <1>13, RenderedKeeps

LEMMA RetriesKeep ==
    ASSUME ExploreInv, RetryInventory \/ RetrySearch \/ Online
    PROVE  ExploreInv'
<1>1. /\ Sound(srv, net, data, pages, crit, hits, failed, muddled)
      /\ SearchInv(net, data, crit, applied, hits, searchfailed, searched)
      /\ Shape(net, data, pages, open, crit, applied, hits)
      /\ \A x \in net : IsRequest(x)
      /\ pages \in [Groups -> PageStates] /\ query \in Queries /\ failed \in BOOLEAN
  BY DEF ExploreInv, TypeOK, Shape
<1>2. failed => OneMode(net, data, pages)
  BY <1>1 DEF Sound, ModesInv
<1> DEFINE mount == TRUE
<1>3. InventoryRequest(mount) \in Inventories
  BY ReloadIs
<1> HIDE DEF mount
<1>4. failed =>
        /\ Sound(srv, ReloadingInventory(mount, net), data, pages, crit, hits, failed, muddled)
        /\ Of(ReloadingInventory(mount, net), "search") = Of(net, "search")
        /\ \A r \in ReloadingInventory(mount, net) : IsRequest(r)
  <2>1. Sound(srv, net, data, pages, crit, hits, failed, muddled) /\ \A x \in net : IsRequest(x)
    BY <1>1
  <2>2. OneMode(net, data, pages) =>
          /\ Sound(srv, ReloadingInventory(mount, net), data, pages, crit, hits, failed, muddled)
          /\ Of(ReloadingInventory(mount, net), "search") = Of(net, "search")
          /\ \A r \in ReloadingInventory(mount, net) : IsRequest(r)
    BY <1>3, <2>1, ReloadKeeps
  <2> QED BY <1>2, <2>2
<1>5. CASE RetryInventory
  <2>1. /\ failed /\ net' = ReloadingInventory(mount, net)
        /\ data' = data /\ pages' = pages /\ open' = open /\ openbefore' = openbefore /\ crit' = crit
        /\ applied' = applied /\ hits' = hits /\ srv' = srv /\ failed' = failed /\ searchfailed' = searchfailed
        /\ searched' = searched /\ query' = query /\ muddled' = muddled
    BY <1>5, Zenon DEF RetryInventory, mount
  <2>2. /\ Sound(srv, net', data, pages, crit, hits, failed, muddled)
        /\ Of(net', "search") = Of(net, "search")
        /\ \A r \in net' : IsRequest(r)
    BY <1>4, <2>1
  <2> QED BY <1>1, <2>1, <2>2, NetKeeps
<1>6. CASE RetrySearch
  <2>1. /\ Rendered(data, pages, open, crit, applied, hits, net, TRUE)
        /\ srv' = srv /\ failed' = failed /\ query' = query /\ searchfailed' = searchfailed /\ muddled' = muddled
    BY <1>6 DEF RetrySearch
  <2> QED BY <1>1, <2>1, RenderedKeeps
<1>7. CASE Online
  <2> DEFINE p2 == [g \in Groups |-> IF pages[g].failed THEN EMPTY_PAGE ELSE pages[g]]
             n2 == IF failed THEN ReloadingInventory(mount, net) ELSE net
  <2>1. /\ Rendered(data, p2, open, crit, applied, hits, n2, searchfailed)
        /\ srv' = srv /\ failed' = failed /\ query' = query /\ searchfailed' = searchfailed /\ muddled' = muddled
    BY <1>7 DEF Online, mount
  <2>2. p2 \in [Groups -> PageStates] /\ \A g \in Groups : p2[g] = pages[g] \/ (pages[g].failed /\ p2[g] = EMPTY_PAGE)
    BY <1>1, EmptyPageIs
  <2>3. failed =>
          /\ Sound(srv, n2, data, pages, crit, hits, failed, muddled)
          /\ Of(n2, "search") = Of(net, "search")
          /\ \A r \in n2 : IsRequest(r)
    BY <1>4
  <2>4. ~failed => n2 = net
    OBVIOUS
  <2> HIDE DEF p2, n2
  <2>5. /\ Sound(srv, n2, data, pages, crit, hits, failed, muddled)
        /\ Of(n2, "search") = Of(net, "search")
        /\ \A r \in n2 : IsRequest(r)
    BY <1>1, <2>3, <2>4
  <2>6. Sound(srv, n2, data, p2, crit, hits, failed, muddled)
    BY <2>2, <2>5, Refreshed
  <2>7. Shape(n2, data, p2, open, crit, applied, hits)
    BY <1>1, <2>2, <2>5 DEF Shape
  <2>8. SearchInv(n2, data, crit, applied, hits, searchfailed, searched)
    BY <1>1, <2>5, SameSearches
  <2> QED BY <1>1, <2>1, <2>6, <2>7, <2>8, RenderedKeeps
<1> QED BY <1>5, <1>6, <1>7

(***************************************************************************)
(* Stars                                                                   *)
(***************************************************************************)

\* One more request, of no kind that reads: a star's makes its course muddled if another write of it is out.
LEMMA WriteKeeps ==
    ASSUME NEW s, NEW n, NEW d, NEW p, NEW c, NEW h, NEW f, NEW m, Sound(s, n, d, p, c, h, f, m),
           NEW r, r.kind \in {"star", "archive"}, r.state = "sent", NEW m2, m \subseteq m2,
           r.kind = "star" /\ StarsOf(n, r.course) # {} => r.course \in m2
    PROVE  Sound(s, n \cup {r}, d, p, c, h, f, m2) /\ Of(n \cup {r}, "search") = Of(n, "search")
<1> DEFINE n2 == n \cup {r}
<1>1. /\ Of(n2, "page") = Of(n, "page") /\ Of(n2, "search") = Of(n, "search")
      /\ Of(n2, "inventory") = Of(n, "inventory")
      /\ \A x : \A y \in StarsOf(n2, x) : y \in StarsOf(n, x) \/ (y = r /\ r.kind = "star" /\ x = r.course)
      /\ \A x : \A y \in StarsOf(n, x) : y \in StarsOf(n2, x)
  BY DEF Of, StarsOf
<1>2. \A x \in n2 : x \in n \/ x = r
  OBVIOUS
<1> HIDE DEF n2
<1>3. PagesInv(n2, p) /\ UnderInv(n2, d, p, c)
  BY <1>1 DEF Sound, PagesInv, UnderInv
<1>4. ListsInv(n2, d, h)
  BY <1>2 DEF Sound, ListsInv, AnswerInv
<1>5. ModesInv(f, n2, d, p)
  BY <1>1 DEF Sound, ModesInv, OneMode
<1>6. StarInv(s, n2, d, p, h, m2)
  <2> SUFFICES ASSUME NEW x \in Courses \ m2
               PROVE  /\ \A q, y \in StarsOf(n2, x) : q = y
                      /\ \A y \in StarsOf(n2, x) : y.state = "served" => y.fav = (x \in s.fav)
                      /\ \A y \in n2 : y.kind \in Reads /\ y.state = "served" => ShowsStar(y.answer.rows, x, s)
                      /\ (\A y \in StarsOf(n2, x) : y.state # "served") =>
                            /\ ShowsStar(d.rows, x, s) /\ ShowsStar(h.rows, x, s)
                            /\ \A g \in Groups : ShowsStar(p[g].rows, x, s)
    BY DEF StarInv
  <2>1. /\ \A q, y \in StarsOf(n, x) : q = y
        /\ \A y \in StarsOf(n, x) : y.state = "served" => y.fav = (x \in s.fav)
        /\ \A y \in n : y.kind \in Reads /\ y.state = "served" => ShowsStar(y.answer.rows, x, s)
        /\ (\A y \in StarsOf(n, x) : y.state # "served") =>
              /\ ShowsStar(d.rows, x, s) /\ ShowsStar(h.rows, x, s)
              /\ \A g \in Groups : ShowsStar(p[g].rows, x, s)
    BY DEF Sound, StarInv
  <2>2. r.kind = "star" /\ x = r.course => StarsOf(n, x) = {}
    OBVIOUS
  <2>3. \A q, y \in StarsOf(n2, x) : q = y
    BY <1>1, <2>1, <2>2
  <2>4. \A y \in StarsOf(n2, x) : y.state = "served" => y.fav = (x \in s.fav)
    BY <1>1, <2>1
  <2>5. \A y \in n2 : y.kind \in Reads /\ y.state = "served" => ShowsStar(y.answer.rows, x, s)
    BY <1>2, <2>1
  <2>6. (\A y \in StarsOf(n2, x) : y.state # "served") =>
              /\ ShowsStar(d.rows, x, s) /\ ShowsStar(h.rows, x, s)
              /\ \A g \in Groups : ShowsStar(p[g].rows, x, s)
    BY <1>1, <2>1
  <2> QED BY <2>3, <2>4, <2>5, <2>6
<1> QED BY <1>1, <1>3, <1>4, <1>5, <1>6 DEF Sound, n2

LEMMA StarringKeeps ==
    ASSUME ExploreInv, NEW x, NEW fav \in BOOLEAN, NEW tier, Starring(x, fav, tier)
    PROVE  ExploreInv'
<1> DEFINE r == StarRequest(x, fav, tier)
<1>1. r.kind = "star" /\ r.state = "sent" /\ r.course = x /\ IsStar(r)
  BY DEF StarRequest, IsStar, States
<1>2. /\ net' = net \cup {r}
      /\ muddled' = IF \E y \in Of(net, "star") : y.course = x THEN muddled \cup {x} ELSE muddled
      /\ data' = data /\ pages' = pages /\ open' = open /\ openbefore' = openbefore /\ crit' = crit
      /\ applied' = applied /\ hits' = hits /\ srv' = srv /\ failed' = failed /\ searchfailed' = searchfailed
      /\ searched' = searched /\ query' = query
  BY DEF Starring
<1> HIDE DEF r
<1>3. muddled \subseteq muddled' /\ (StarsOf(net, x) # {} => x \in muddled')
  BY <1>2 DEF StarsOf
<1>4. /\ Sound(srv, net, data, pages, crit, hits, failed, muddled)
      /\ query \in Queries /\ \A y \in net : IsRequest(y)
  BY DEF ExploreInv, TypeOK, Shape
<1>5. Sound(srv, net', data, pages, crit, hits, failed, muddled') /\ Of(net', "search") = Of(net, "search")
  BY <1>1, <1>2, <1>3, <1>4, WriteKeeps
<1>6. \A y \in net' : IsRequest(y)
  BY <1>1, <1>2, <1>4 DEF IsRequest
<1> QED BY <1>2, <1>4, <1>5, <1>6, NetKeeps

\* A star written into a list: its courses and its order stay, and so do the other courses' stars.
LEMMA PatchedIs ==
    ASSUME NEW rows \in Seq(Rows), NEW x, NEW fav \in BOOLEAN
    PROVE  /\ Patched(rows, x, fav) \in Seq(Rows)
           /\ Ids(Patched(rows, x, fav)) = Ids(rows)
           /\ NoTwins(rows) => NoTwins(Patched(rows, x, fav))
           /\ rows = <<>> => Patched(rows, x, fav) = <<>>
           /\ \A y, s : y # x /\ ShowsStar(rows, y, s) => ShowsStar(Patched(rows, x, fav), y, s)
           /\ \A s : fav = (x \in s.fav) => ShowsStar(Patched(rows, x, fav), x, s)
<1> DEFINE q == Patched(rows, x, fav)
<1>1. Len(rows) \in Nat /\ DOMAIN rows = 1 .. Len(rows) /\ \A i \in 1 .. Len(rows) : rows[i] \in Rows
  OBVIOUS
<1>2. q = [i \in 1 .. Len(rows) |-> IF rows[i].id = x THEN [rows[i] EXCEPT !.fav = fav] ELSE rows[i]]
  BY <1>1 DEF Patched
<1> HIDE DEF q
<1>3. /\ DOMAIN q = DOMAIN rows
      /\ \A i \in DOMAIN rows : /\ q[i] \in Rows /\ q[i].id = rows[i].id
                                /\ rows[i].id = x => q[i].fav = fav
                                /\ rows[i].id # x => q[i] = rows[i]
  BY <1>1, <1>2 DEF Rows
<1>4. q \in Seq(Rows)
  <2>1. q \in [1 .. Len(rows) -> Rows]
    BY <1>1, <1>2, <1>3
  <2> QED BY <1>1, <2>1
<1>5. Ids(q) = Ids(rows)
  BY <1>3 DEF Ids
<1>6. NoTwins(rows) => NoTwins(q)
  BY <1>3 DEF NoTwins
<1>7. rows = <<>> => q = <<>>
  BY <1>1, <1>2
<1>8. \A y, s : y # x /\ ShowsStar(rows, y, s) => ShowsStar(q, y, s)
  BY <1>3 DEF ShowsStar
<1>9. \A s : fav = (x \in s.fav) => ShowsStar(q, x, s)
  BY <1>3 DEF ShowsStar
<1> QED BY <1>4, <1>5, <1>6, <1>7, <1>8, <1>9 DEF q

\* A star whose write was served is written into every list held here, and the write is out no more.
LEMMA StarWrittenKeeps ==
    ASSUME ExploreInv, NEW r \in net, r.kind = "star", r.state = "served",
           NEW d, d = [data EXCEPT !.rows = Patched(@, r.course, r.fav)],
           NEW p, p = [g \in Groups |-> [pages[g] EXCEPT !.rows = Patched(@, r.course, r.fav)]],
           NEW h, h = [hits EXCEPT !.rows = Patched(@, r.course, r.fav)]
    PROVE  /\ Shape(net \ {r}, d, p, open, crit, applied, h)
           /\ Sound(srv, net \ {r}, d, p, crit, h, failed, muddled)
           /\ SearchInv(net \ {r}, data, crit, applied, h, searchfailed, searched)
<1> DEFINE x == r.course
           fav == r.fav
           n2 == net \ {r}
<1>1. /\ Sound(srv, net, data, pages, crit, hits, failed, muddled)
      /\ SearchInv(net, data, crit, applied, hits, searchfailed, searched)
      /\ Shape(net, data, pages, open, crit, applied, hits)
      /\ \A y \in net : IsRequest(y)
      /\ pages \in [Groups -> PageStates] /\ data \in Payloads /\ hits \in Hits
  BY DEF ExploreInv, TypeOK, Shape
<1>2. fav \in BOOLEAN
  BY <1>1, KindIs DEF IsStar
<1> HIDE DEF x, fav
<1>3. /\ d \in Payloads /\ d.mode = data.mode /\ d.rows = Patched(data.rows, x, fav)
      /\ h \in Hits /\ h.rows = Patched(hits.rows, x, fav)
      /\ h.shown = hits.shown /\ h.query = hits.query /\ h.sel = hits.sel
  <2>1. data.rows \in Seq(Rows) /\ hits.rows \in Seq(Rows)
    BY <1>1 DEF Payloads, Hits
  <2>2. Patched(data.rows, x, fav) \in Seq(Rows) /\ Patched(hits.rows, x, fav) \in Seq(Rows)
    BY <1>2, <2>1, PatchedIs
  <2>3. d = [data EXCEPT !.rows = Patched(data.rows, x, fav)] /\ h = [hits EXCEPT !.rows = Patched(hits.rows, x, fav)]
    BY DEF x, fav
  <2> QED BY <1>1, <2>2, <2>3 DEF Payloads, Hits
<1>4. ASSUME NEW g \in Groups
      PROVE  /\ p[g] \in PageStates /\ p[g].rows = Patched(pages[g].rows, x, fav)
             /\ p[g].after = pages[g].after /\ p[g].hasmore = pages[g].hasmore /\ p[g].loaded = pages[g].loaded
             /\ p[g].loading = pages[g].loading /\ p[g].failed = pages[g].failed /\ p[g].under = pages[g].under
  <2>1. pages[g] \in PageStates /\ pages[g].rows \in Seq(Rows)
    BY <1>1 DEF PageStates
  <2>2. Patched(pages[g].rows, x, fav) \in Seq(Rows)
    BY <1>2, <2>1, PatchedIs
  <2>3. p[g] = [pages[g] EXCEPT !.rows = Patched(pages[g].rows, x, fav)]
    BY DEF x, fav
  <2> QED BY <2>1, <2>2, <2>3 DEF PageStates
<1>5. p \in [Groups -> PageStates]
  <2>1. p = [g \in Groups |-> p[g]]
    OBVIOUS
  <2> QED BY <1>4, <2>1
<1>6. \A g \in Groups : pages[g].rows \in Seq(Rows)
  BY <1>1 DEF PageStates
<1>7. data.rows \in Seq(Rows) /\ hits.rows \in Seq(Rows)
  BY <1>1 DEF Payloads, Hits
<1>8. /\ n2 \in SUBSET net /\ Of(n2, "page") = Of(net, "page") /\ Of(n2, "search") = Of(net, "search")
      /\ Of(n2, "inventory") = Of(net, "inventory")
      /\ \A y : StarsOf(n2, y) = StarsOf(net, y) \ {r}
  BY DEF Of, StarsOf
<1> HIDE DEF n2
<1>9. \A q \in Of(net, "page") : q.group \in Groups
  BY <1>1, KindIs DEF Of, Pages
<1>10. PagesInv(n2, p)
  <2>1. \A g \in Groups : CursorInv(p[g]) /\ NoTwins(p[g].rows)
    <3> TAKE g \in Groups
    <3>1. CursorInv(pages[g]) /\ NoTwins(pages[g].rows) /\ pages[g].rows \in Seq(Rows)
      BY <1>1, <1>6 DEF Sound, PagesInv
    <3>2. /\ NoTwins(Patched(pages[g].rows, x, fav))
          /\ pages[g].rows = <<>> => Patched(pages[g].rows, x, fav) = <<>>
      BY <1>2, <3>1, PatchedIs
    <3> QED BY <1>4, <3>1, <3>2 DEF CursorInv
  <2>2. \A q \in Of(net, "page") : Waits(q, p[q.group])
    <3> TAKE q \in Of(net, "page")
    <3>1. q.group \in Groups /\ Waits(q, pages[q.group])
      BY <1>1, <1>9 DEF Sound, PagesInv
    <3>2. Ids(p[q.group].rows) = Ids(pages[q.group].rows) /\ (pages[q.group].rows = <<>> => p[q.group].rows = <<>>)
      <4>1. pages[q.group].rows \in Seq(Rows) /\ p[q.group].rows = Patched(pages[q.group].rows, x, fav)
        BY <1>4, <1>6, <3>1
      <4> QED BY <1>2, <4>1, PatchedIs
    <3> QED BY <1>4, <3>1, <3>2 DEF Waits
  <2> QED BY <1>1, <1>8, <2>1, <2>2 DEF Sound, PagesInv
<1>11. ListsInv(n2, d, h)
  BY <1>1, <1>2, <1>3, <1>7, <1>8, PatchedIs DEF Sound, ListsInv
<1>12. UnderInv(n2, d, p, crit) /\ ModesInv(failed, n2, d, p)
  BY <1>1, <1>3, <1>4, <1>8 DEF Sound, UnderInv, ModesInv, OneMode, InForce
<1>13. StarInv(srv, n2, d, p, h, muddled)
  <2> SUFFICES ASSUME NEW y \in Courses \ muddled
               PROVE  /\ \A q, z \in StarsOf(n2, y) : q = z
                      /\ \A z \in StarsOf(n2, y) : z.state = "served" => z.fav = (y \in srv.fav)
                      /\ \A z \in n2 : z.kind \in Reads /\ z.state = "served" => ShowsStar(z.answer.rows, y, srv)
                      /\ (\A z \in StarsOf(n2, y) : z.state # "served") =>
                            /\ ShowsStar(d.rows, y, srv) /\ ShowsStar(h.rows, y, srv)
                            /\ \A g \in Groups : ShowsStar(p[g].rows, y, srv)
    BY DEF StarInv
  <2>1. /\ \A q, z \in StarsOf(net, y) : q = z
        /\ \A z \in StarsOf(net, y) : z.state = "served" => z.fav = (y \in srv.fav)
        /\ \A z \in net : z.kind \in Reads /\ z.state = "served" => ShowsStar(z.answer.rows, y, srv)
        /\ (\A z \in StarsOf(net, y) : z.state # "served") =>
              /\ ShowsStar(data.rows, y, srv) /\ ShowsStar(hits.rows, y, srv)
              /\ \A g \in Groups : ShowsStar(pages[g].rows, y, srv)
    BY <1>1 DEF Sound, StarInv
  <2>2. CASE y = x
    <3>1. r \in StarsOf(net, y)
      BY <2>2 DEF StarsOf, Of, x
    <3>2. fav = (x \in srv.fav)
      BY <2>1, <2>2, <3>1 DEF fav
    <3>3. /\ ShowsStar(d.rows, y, srv) /\ ShowsStar(h.rows, y, srv)
          /\ \A g \in Groups : ShowsStar(p[g].rows, y, srv)
      <4>1. \A rows \in Seq(Rows) : ShowsStar(Patched(rows, x, fav), x, srv)
        BY <1>2, <3>2, PatchedIs
      <4> QED BY <1>3, <1>4, <1>6, <1>7, <2>2, <4>1
    <3> QED BY <1>8, <2>1, <3>3
  <2>3. CASE y # x
    <3>1. r \notin StarsOf(net, y)
      BY <2>3 DEF StarsOf, x
    <3>2. StarsOf(n2, y) = StarsOf(net, y)
      BY <1>8, <3>1
    <3>3. (\A z \in StarsOf(net, y) : z.state # "served") =>
              /\ ShowsStar(d.rows, y, srv) /\ ShowsStar(h.rows, y, srv)
              /\ \A g \in Groups : ShowsStar(p[g].rows, y, srv)
      <4>1. \A rows \in Seq(Rows) : ShowsStar(rows, y, srv) => ShowsStar(Patched(rows, x, fav), y, srv)
        BY <1>2, <2>3, PatchedIs
      <4> QED BY <1>3, <1>4, <1>6, <1>7, <2>1, <4>1
    <3> QED BY <1>8, <2>1, <3>2, <3>3
  <2> QED BY <2>2, <2>3
<1>14. Sound(srv, n2, d, p, crit, h, failed, muddled)
  BY <1>10, <1>11, <1>12, <1>13 DEF Sound
<1>15. Shape(n2, d, p, open, crit, applied, h)
  BY <1>1, <1>3, <1>5, <1>8 DEF Shape
<1>16. SearchInv(n2, data, crit, applied, h, searchfailed, searched)
  <2>1. SearchInv(net, data, crit, applied, hits, searchfailed, searched) /\ Of(n2, "search") = Of(net, "search")
    BY <1>1, <1>8
  <2>2. h.shown = hits.shown /\ h.query = hits.query /\ h.sel = hits.sel
    BY <1>3
  <2> QED BY <2>1, <2>2, Zenon DEF SearchInv
<1> QED BY <1>14, <1>15, <1>16 DEF n2

LEMMA StarAnswerKeeps ==
    ASSUME ExploreInv, NEW r \in net, StarAnswer(r)
    PROVE  ExploreInv'
<1>1. /\ Sound(srv, net, data, pages, crit, hits, failed, muddled)
      /\ SearchInv(net, data, crit, applied, hits, searchfailed, searched)
      /\ Shape(net, data, pages, open, crit, applied, hits)
      /\ \A x \in net : IsRequest(x)
      /\ query \in Queries /\ failed \in BOOLEAN
  BY DEF ExploreInv, TypeOK, Shape
<1>2. /\ r.kind = "star" /\ r.state # "sent"
      /\ srv' = srv /\ failed' = failed /\ query' = query /\ searchfailed' = searchfailed /\ muddled' = muddled
  BY DEF StarAnswer, Of
<1>3. r.state \in {"served", "failed"}
  BY <1>1, <1>2, KindIs DEF States
<1>4. CASE r.state = "served"
  <2> DEFINE d == [data EXCEPT !.rows = Patched(@, r.course, r.fav)]
             p == [g \in Groups |-> [pages[g] EXCEPT !.rows = Patched(@, r.course, r.fav)]]
             h == [hits EXCEPT !.rows = Patched(@, r.course, r.fav)]
             n2 == net \ {r}
  <2>1. Rendered(d, p, open, crit, applied, h, n2, FALSE)
    BY <1>4 DEF StarAnswer, withRow
  <2>2. /\ Shape(n2, d, p, open, crit, applied, h)
        /\ Sound(srv, n2, d, p, crit, h, failed, muddled)
        /\ SearchInv(n2, data, crit, applied, h, searchfailed, searched)
    BY <1>2, <1>4, StarWrittenKeeps
  <2> HIDE DEF d, p, h, n2
  <2> QED BY <1>1, <1>2, <2>1, <2>2, RenderedKeeps
<1>5. CASE r.state = "failed"
  <2> DEFINE n2 == net \ {r}
  <2>1. Rendered(data, pages, open, crit, applied, hits, n2, FALSE)
    BY <1>5 DEF StarAnswer
  <2>2. /\ n2 \in SUBSET net /\ Of(n2, "page") = Of(net, "page") /\ Of(n2, "search") = Of(net, "search")
        /\ Of(n2, "inventory") = Of(net, "inventory")
        /\ \A x : \A y \in StarsOf(net, x) : y \in StarsOf(n2, x) \/ y.state # "served"
        /\ \A x : \A y \in StarsOf(n2, x) : y \in StarsOf(net, x)
    BY <1>2, <1>5 DEF Of, StarsOf
  <2> HIDE DEF n2
  <2>3. PagesInv(n2, pages) /\ UnderInv(n2, data, pages, crit) /\ ModesInv(failed, n2, data, pages)
    BY <1>1, <2>2 DEF Sound, PagesInv, UnderInv, ModesInv, OneMode
  <2>4. ListsInv(n2, data, hits)
    BY <1>1, <2>2 DEF Sound, ListsInv
  <2>5. StarInv(srv, n2, data, pages, hits, muddled)
    BY <1>1, <2>2 DEF Sound, StarInv
  <2>6. Sound(srv, n2, data, pages, crit, hits, failed, muddled)
    BY <2>3, <2>4, <2>5 DEF Sound
  <2>7. Shape(n2, data, pages, open, crit, applied, hits)
    BY <1>1, <2>2 DEF Shape
  <2>8. SearchInv(n2, data, crit, applied, hits, searchfailed, searched)
    BY <1>1, <2>2, SameSearches
  <2> QED BY <1>1, <1>2, <2>1, <2>6, <2>7, <2>8, RenderedKeeps
<1> QED BY <1>3, <1>4, <1>5

LEMMA StarsKeep ==
    ASSUME ExploreInv, (\E g \in Groups : ToggleFavourite(g)) \/ ToggleInTier1
    PROVE  ExploreInv'
<1>1. CASE \E g \in Groups : ToggleFavourite(g)
  <2>1. PICK g \in Groups : ToggleFavourite(g)
    BY <1>1
  <2>2. PICK row \in OnThePage(g) : Starring(row.id, ~row.fav, "tier3")
    BY <2>1 DEF ToggleFavourite
  <2> DEFINE fav == ~row.fav
             x == row.id
             tier == "tier3"
  <2>3. fav \in BOOLEAN /\ Starring(x, fav, tier)
    BY <2>2
  <2> HIDE DEF fav, x, tier
  <2> QED BY <2>3, StarringKeeps
<1>2. CASE ToggleInTier1
  <2>1. PICK x \in Courses, fav \in BOOLEAN : Starring(x, fav, "tier1")
    BY <1>2 DEF ToggleInTier1
  <2> DEFINE tier == "tier1"
  <2>2. Starring(x, fav, tier)
    BY <2>1
  <2> HIDE DEF tier
  <2> QED BY <2>2, StarringKeeps
<1> QED BY <1>1, <1>2

(***************************************************************************)
(* The archive                                                             *)
(***************************************************************************)

LEMMA ArchivingKeeps ==
    ASSUME ExploreInv, NEW cs, NEW archived, Archiving(cs, archived), query' \in Queries
    PROVE  ExploreInv'
<1> DEFINE r == ArchiveRequest(cs, archived)
<1>1. r.kind = "archive" /\ r.state = "sent" /\ IsArchive(r)
  BY DEF ArchiveRequest, IsArchive, States
<1>2. /\ net' = net \cup {r} /\ muddled' = muddled
      /\ data' = data /\ pages' = pages /\ open' = open /\ openbefore' = openbefore /\ crit' = crit
      /\ applied' = applied /\ hits' = hits /\ srv' = srv /\ failed' = failed /\ searchfailed' = searchfailed
      /\ searched' = searched
  BY DEF Archiving
<1> HIDE DEF r
<1>3. /\ Sound(srv, net, data, pages, crit, hits, failed, muddled)
      /\ \A y \in net : IsRequest(y)
  BY DEF ExploreInv, TypeOK, Shape
<1>4. Sound(srv, net', data, pages, crit, hits, failed, muddled') /\ Of(net', "search") = Of(net, "search")
  BY <1>1, <1>2, <1>3, WriteKeeps
<1>5. \A y \in net' : IsRequest(y)
  BY <1>1, <1>2, <1>3 DEF IsRequest
<1> QED BY <1>2, <1>3, <1>4, <1>5, NetKeeps

LEMMA ArchivesKeep ==
    ASSUME ExploreInv, (\E g \in Groups : Archive(g)) \/ ArchiveAll \/ Dialogue \/ (\E yes \in BOOLEAN : Confirm(yes))
                       \/ Type \/ UNCHANGED vars
    PROVE  ExploreInv'
<1>1. /\ Sound(srv, net, data, pages, crit, hits, failed, muddled)
      /\ query \in Queries /\ \A y \in net : IsRequest(y)
  BY DEF ExploreInv, TypeOK, Shape
<1>2. ASSUME net' = net, muddled' = muddled, data' = data, pages' = pages, open' = open, openbefore' = openbefore,
             crit' = crit, applied' = applied, hits' = hits, srv' = srv, failed' = failed,
             searchfailed' = searchfailed, searched' = searched, query' \in Queries
      PROVE  ExploreInv'
  BY <1>1, <1>2, NetKeeps
<1>3. CASE \E g \in Groups : Archive(g)
  <2>1. PICK g \in Groups : Archive(g)
    BY <1>3
  <2>2. PICK row \in OnThePage(g) : Archiving({row.id}, g # ARCHIVED)
    BY <2>1 DEF Archive
  <2> DEFINE cs == {row.id}
             archived == g # ARCHIVED
  <2>3. Archiving(cs, archived) /\ query' = query
    BY <2>2 DEF Archiving
  <2> HIDE DEF cs, archived
  <2> QED BY <1>1, <2>3, ArchivingKeeps
<1>4. CASE ArchiveAll
  BY <1>1, <1>2, <1>4 DEF ArchiveAll
<1>5. CASE Dialogue
  BY <1>1, <1>2, <1>5 DEF Dialogue
<1>6. CASE \E yes \in BOOLEAN : Confirm(yes)
  <2>1. PICK yes \in BOOLEAN : Confirm(yes)
    BY <1>6
  <2>2. CASE yes
    <3> DEFINE cs == asked.rows
               archived == TRUE
    <3>1. Archiving(cs, archived) /\ query' = query
      BY <2>1, <2>2 DEF Confirm, Archiving
    <3> HIDE DEF cs, archived
    <3> QED BY <1>1, <3>1, ArchivingKeeps
  <2>3. CASE ~yes
    BY <1>1, <1>2, <2>1, <2>3 DEF Confirm
  <2> QED BY <2>2, <2>3
<1>7. CASE Type
  BY <1>2, <1>7 DEF Type
<1>8. CASE UNCHANGED vars
  BY <1>1, <1>2, <1>8 DEF vars
<1> QED BY <1>3, <1>4, <1>5, <1>6, <1>7, <1>8

LEMMA ArchiveAnswerKeeps ==
    ASSUME ExploreInv, NEW r \in net, ArchiveAnswer(r)
    PROVE  ExploreInv'
<1> DEFINE first == FALSE
           n2 == net \ {r}
           n3 == Reset(n2)
           n4 == ReloadingInventory(first, n3)
<1>1. /\ Sound(srv, net, data, pages, crit, hits, failed, muddled)
      /\ SearchInv(net, data, crit, applied, hits, searchfailed, searched)
      /\ Shape(net, data, pages, open, crit, applied, hits)
      /\ \A x \in net : IsRequest(x)
      /\ query \in Queries /\ failed \in BOOLEAN
  BY DEF ExploreInv, TypeOK, Shape
<1>2. /\ r.kind = "archive" /\ Rendered(data, NoPages, open, crit, applied, hits, n4, TRUE)
      /\ srv' = srv /\ failed' = failed /\ query' = query /\ searchfailed' = searchfailed /\ muddled' = muddled
  BY DEF ArchiveAnswer, Of
<1>3. InventoryRequest(first) \in Inventories
  BY ReloadIs
<1> HIDE DEF first
<1>4. n2 \in SUBSET net /\ (\A x \in net \ n2 : x.kind # "star") /\ Of(n2, "search") = Of(net, "search")
  BY <1>2 DEF Of
<1> HIDE DEF n2
<1>5. Sound(srv, n2, data, pages, crit, hits, failed, muddled)
  BY <1>1, <1>4, Fewer
<1>6. Sound(srv, n3, data, NoPages, crit, hits, failed, muddled)
  BY <1>5, ResetKeeps
<1>7. n3 \in SUBSET n2 /\ Of(n3, "search") = Of(n2, "search") /\ OneMode(n3, data, NoPages)
  BY DEF Reset, Stale, Of, OneMode, NoPages, EMPTY_PAGE
<1> HIDE DEF n3
<1>8. \A x \in n3 : IsRequest(x)
  BY <1>1, <1>4, <1>7
<1>9. /\ Sound(srv, n4, data, NoPages, crit, hits, failed, muddled)
      /\ Of(n4, "search") = Of(n3, "search")
      /\ \A x \in n4 : IsRequest(x)
  BY <1>3, <1>6, <1>7, <1>8, ReloadKeeps
<1> HIDE DEF n4
<1>10. Shape(n4, data, NoPages, open, crit, applied, hits)
  BY <1>1, <1>9, NoPagesAre DEF Shape
<1>11. SearchInv(n4, data, crit, applied, hits, searchfailed, searched)
  BY <1>1, <1>4, <1>7, <1>9 DEF SearchInv
<1> QED BY <1>1, <1>2, <1>9, <1>10, <1>11, RenderedKeeps

(***************************************************************************)
(* The server, the network and the other tabs                              *)
(***************************************************************************)

\* A request and what has become of it: what it is about stays.
Follows(q, r) ==
    /\ q.kind = r.kind
    /\ r.kind = "page" => q.group = r.group /\ q.args = r.args /\ q.before = r.before
    /\ r.kind = "search" => q.query = r.query /\ q.sel = r.sel
    /\ r.kind = "star" => q.course = r.course /\ q.fav = r.fav

LEMMA FollowedKeeps ==
    ASSUME NEW s, NEW n, NEW d, NEW p, NEW c, NEW h, NEW f, NEW m, Sound(s, n, d, p, c, h, f, m),
           NEW r \in n, NEW q, Follows(q, r), AnswerInv(q), NEW n2, n2 = (n \ {r}) \cup {q}
    PROVE  PagesInv(n2, p) /\ ListsInv(n2, d, h) /\ UnderInv(n2, d, p, c) /\ ModesInv(f, n2, d, p)
<1>1. \A y \in n2 : y = q \/ (y \in n /\ y # r)
  OBVIOUS
<1>2. PagesInv(n2, p)
  <2>1. \A y \in Of(n2, "page") : \E x \in Of(n, "page") :
           Follows(y, x) /\ ((y = q /\ x = r) \/ (y = x /\ x # r))
    BY <1>1 DEF Of, Follows
  <2>2. \A y \in Of(n2, "page") : Waits(y, p[y.group])
    <3> TAKE y \in Of(n2, "page")
    <3>1. PICK x \in Of(n, "page") : Follows(y, x)
      BY <2>1
    <3>2. y.group = x.group /\ y.args = x.args /\ y.before = x.before
      BY <3>1 DEF Of, Follows
    <3> QED BY <3>2 DEF Sound, PagesInv, Waits
  <2>3. ASSUME NEW y \in Of(n2, "page"), NEW z \in Of(n2, "page"), y.group = z.group PROVE y = z
    <3>1. PICK x \in Of(n, "page") : Follows(y, x) /\ ((y = q /\ x = r) \/ (y = x /\ x # r))
      BY <2>1
    <3>2. PICK w \in Of(n, "page") : Follows(z, w) /\ ((z = q /\ w = r) \/ (z = w /\ w # r))
      BY <2>1
    <3>3. x.group = w.group
      BY <2>3, <3>1, <3>2 DEF Of, Follows
    <3>4. x = w
      BY <3>3 DEF Sound, PagesInv
    <3> QED BY <3>1, <3>2, <3>4
  <2> QED BY <2>2, <2>3 DEF Sound, PagesInv
<1>3. ListsInv(n2, d, h)
  BY <1>1 DEF Sound, ListsInv
<1>4. UnderInv(n2, d, p, c)
  BY <1>1 DEF Sound, UnderInv, Of, Under, Follows
<1>5. ModesInv(f, n2, d, p)
  <2>1. \A y, z \in Of(n2, "inventory") : y = z
    BY <1>1 DEF Sound, ModesInv, Of, Follows
  <2>2. Of(n2, "inventory") # {} => Of(n, "inventory") # {}
    BY <1>1 DEF Of, Follows
  <2>3. OneMode(n, d, p) => OneMode(n2, d, p)
    BY <1>1 DEF OneMode, Of, Follows
  <2> QED BY <2>1, <2>2, <2>3 DEF Sound, ModesInv
<1> QED BY <1>2, <1>3, <1>4, <1>5

\* The server's records may have changed: the stars it changed are the request's course, and none of an answer on its way.
LEMMA FollowedStars ==
    ASSUME NEW s, NEW n, NEW d, NEW p, NEW h, NEW m, StarInv(s, n, d, p, h, m),
           NEW r \in n, r.state = "sent", NEW q, Follows(q, r), NEW n2, n2 = (n \ {r}) \cup {q},
           NEW s2, NEW m2, m \subseteq m2,
           q.kind \in Reads /\ q.state = "served" => \A x : ShowsStar(q.answer.rows, x, s2),
           q.kind = "star" /\ q.state = "served" => q.fav = (q.course \in s2.fav),
           \A x \in Courses \ m2 : (x \in s.fav) = (x \in s2.fav) \/
              /\ q.kind = "star" /\ q.state = "served" /\ q.course = x
              /\ \A y \in n2 : ~(y.kind \in Reads /\ y.state = "served")
    PROVE  StarInv(s2, n2, d, p, h, m2)
<1> SUFFICES ASSUME NEW x \in Courses \ m2
             PROVE  /\ \A y, z \in StarsOf(n2, x) : y = z
                    /\ \A z \in StarsOf(n2, x) : z.state = "served" => z.fav = (x \in s2.fav)
                    /\ \A z \in n2 : z.kind \in Reads /\ z.state = "served" => ShowsStar(z.answer.rows, x, s2)
                    /\ (\A z \in StarsOf(n2, x) : z.state # "served") =>
                          /\ ShowsStar(d.rows, x, s2) /\ ShowsStar(h.rows, x, s2)
                          /\ \A g \in Groups : ShowsStar(p[g].rows, x, s2)
  BY DEF StarInv
<1>1. /\ \A y, z \in StarsOf(n, x) : y = z
      /\ \A z \in StarsOf(n, x) : z.state = "served" => z.fav = (x \in s.fav)
      /\ \A z \in n : z.kind \in Reads /\ z.state = "served" => ShowsStar(z.answer.rows, x, s)
      /\ (\A z \in StarsOf(n, x) : z.state # "served") =>
            /\ ShowsStar(d.rows, x, s) /\ ShowsStar(h.rows, x, s)
            /\ \A g \in Groups : ShowsStar(p[g].rows, x, s)
  BY DEF StarInv
<1>2. /\ \A y \in StarsOf(n2, x) : (y \in StarsOf(n, x) /\ y # r) \/ (y = q /\ r \in StarsOf(n, x))
      /\ \A y \in StarsOf(n, x) : y \in StarsOf(n2, x) \/ (y = r /\ q \in StarsOf(n2, x))
  BY DEF StarsOf, Of, Follows
<1>3. \A y, z \in StarsOf(n2, x) : y = z
  BY <1>1, <1>2
<1>4. CASE (x \in s.fav) = (x \in s2.fav)
  <2>1. \A rows : ShowsStar(rows, x, s) => ShowsStar(rows, x, s2)
    BY <1>4 DEF ShowsStar
  <2>2. \A z \in StarsOf(n2, x) : z.state = "served" => z.fav = (x \in s2.fav)
    BY <1>1, <1>2, <1>4 DEF StarsOf, Of
  <2>3. \A z \in n2 : z.kind \in Reads /\ z.state = "served" => ShowsStar(z.answer.rows, x, s2)
    BY <1>1, <2>1
  <2>4. (\A z \in StarsOf(n2, x) : z.state # "served") => \A z \in StarsOf(n, x) : z.state # "served"
    BY <1>2
  <2> QED BY <1>1, <1>3, <2>1, <2>2, <2>3, <2>4
<1>5. CASE /\ q.kind = "star" /\ q.state = "served" /\ q.course = x
           /\ \A y \in n2 : ~(y.kind \in Reads /\ y.state = "served")
  <2>1. q \in StarsOf(n2, x)
    BY <1>5 DEF StarsOf, Of
  <2> QED BY <1>3, <1>5, <2>1
<1> QED BY <1>4, <1>5

\* What the server did, or did not do, with a request, and what the history notes of it.
LEMMA CrossedKeeps ==
    ASSUME ExploreInv, NEW s, IsServer(s), NEW n, Served(s, n), \A y \in n : IsRequest(y),
           PagesInv(n, pages), ListsInv(n, data, hits), UnderInv(n, data, pages, crit),
           ModesInv(failed, n, data, pages), StarInv(s, n, data, pages, hits, muddled'),
           SearchInv(n, data, crit, applied, hits, searchfailed, searched)
    PROVE  ExploreInv'
<1>1. TypeOK /\ OpenGroupIsAskedFor /\ pages \in [Groups -> PageStates]
  BY DEF ExploreInv, TypeOK, Shape
<1>2. /\ srv' = s /\ net' = n
      /\ data' = data /\ failed' = failed /\ open' = open /\ openbefore' = openbefore /\ crit' = crit
      /\ query' = query /\ applied' = applied /\ hits' = hits /\ searchfailed' = searchfailed /\ searched' = searched
  BY DEF Served
<1>3. \/ pages' = pages
      \/ pages' = [g \in Groups |->
            IF pages[g].loaded \/ pages[g].loading THEN [pages[g] EXCEPT !.torn = TRUE] ELSE pages[g]]
  BY DEF Served, Crossing
<1>4. ASSUME NEW g \in Groups
      PROVE  /\ pages'[g] \in PageStates /\ pages'[g].rows = pages[g].rows /\ pages'[g].after = pages[g].after
             /\ pages'[g].hasmore = pages[g].hasmore /\ pages'[g].loaded = pages[g].loaded
             /\ pages'[g].loading = pages[g].loading /\ pages'[g].failed = pages[g].failed
             /\ pages'[g].under = pages[g].under
  <2>1. pages[g] \in PageStates
    BY <1>1
  <2>2. pages'[g] = pages[g] \/ pages'[g] = [pages[g] EXCEPT !.torn = TRUE]
    BY <1>3
  <2> QED BY <2>1, <2>2 DEF PageStates
<1>5. pages' \in [Groups -> PageStates]
  <2>1. pages' = [g \in Groups |-> pages'[g]]
    BY <1>1, <1>3
  <2> QED BY <1>4, <2>1
<1>6. \A y \in Of(n, "page") : y.group \in Groups
  BY KindIs DEF Of, Pages
<1>7. PagesInv(n, pages')
  BY <1>4, <1>6 DEF PagesInv, CursorInv, Waits
<1>8. UnderInv(n, data, pages', crit) /\ ModesInv(failed, n, data, pages')
  BY <1>4 DEF UnderInv, ModesInv, OneMode
<1>9. StarInv(s, n, data, pages', hits, muddled')
  BY <1>4 DEF StarInv
<1>10. Sound(s, n, data, pages', crit, hits, failed, muddled')
  BY <1>7, <1>8, <1>9 DEF Sound
<1>11. TypeOK'
  <2>1. Shape(net, data, pages, open, crit, applied, hits)'
    BY <1>1, <1>2, <1>5 DEF TypeOK, Shape
  <2> QED BY <1>1, <1>2, <2>1 DEF TypeOK
<1>12. OpenGroupIsAskedFor'
  <2>1. \A g : g \in data.groups => g \in Groups
    BY <1>1 DEF TypeOK, Shape, Payloads
  <2> QED BY <1>1, <1>2, <1>4, <2>1 DEF OpenGroupIsAskedFor, pagedgroup, keepsnothing
<1> QED BY <1>2, <1>10, <1>11, <1>12 DEF ExploreInv

LEMMA ServedKeeps ==
    ASSUME ExploreInv, NEW r \in net, r.state = "sent", NEW q, Follows(q, r), IsRequest(q), AnswerInv(q),
           NEW s, IsServer(s), NEW n, n = (net \ {r}) \cup {q}, Served(s, n),
           q.kind \in Reads /\ q.state = "served" => \A x : ShowsStar(q.answer.rows, x, s),
           q.kind = "star" /\ q.state = "served" => q.fav = (q.course \in s.fav),
           \A x : (x \in srv.fav) = (x \in s.fav) \/ (q.kind = "star" /\ q.state = "served" /\ q.course = x)
    PROVE  ExploreInv'
<1>1. /\ Sound(srv, net, data, pages, crit, hits, failed, muddled)
      /\ SearchInv(net, data, crit, applied, hits, searchfailed, searched)
      /\ \A y \in net : IsRequest(y)
  BY DEF ExploreInv, TypeOK, Shape
<1>2. PagesInv(n, pages) /\ ListsInv(n, data, hits) /\ UnderInv(n, data, pages, crit) /\ ModesInv(failed, n, data, pages)
  BY <1>1, FollowedKeeps
<1>3. SearchInv(n, data, crit, applied, hits, searchfailed, searched)
  <2>1. \A y \in Of(n, "search") : \E x \in Of(net, "search") : y.query = x.query /\ y.sel = x.sel
    BY DEF Of, Follows
  <2>2. Of(net, "search") # {} => Of(n, "search") # {}
    BY DEF Of, Follows
  <2> QED BY <1>1, <2>1, <2>2 DEF SearchInv
<1>4. StarInv(srv, net, data, pages, hits, muddled)
  BY <1>1 DEF Sound
<1>5. muddled \subseteq muddled'
  BY DEF Served, Crossing
<1>6. \A x \in Courses \ muddled' : (x \in srv.fav) = (x \in s.fav) \/
              /\ q.kind = "star" /\ q.state = "served" /\ q.course = x
              /\ \A y \in n : ~(y.kind \in Reads /\ y.state = "served")
  <2> SUFFICES ASSUME NEW x \in Courses \ muddled', (x \in srv.fav) # (x \in s.fav)
               PROVE  \A y \in n : ~(y.kind \in Reads /\ y.state = "served")
    OBVIOUS
  <2>1. s # srv /\ x \in (s.fav \ srv.fav) \cup (srv.fav \ s.fav)
    OBVIOUS
  <2>2. muddled' = muddled \cup
          (IF \E y \in n : y.kind \in Reads /\ y.state = "served"
           THEN (s.fav \ srv.fav) \cup (srv.fav \ s.fav) ELSE {})
    BY <2>1 DEF Served, Crossing
  <2> QED BY <2>1, <2>2
<1>7. StarInv(s, n, data, pages, hits, muddled')
  BY <1>4, <1>5, <1>6, FollowedStars
<1>8. \A y \in n : IsRequest(y)
  BY <1>1
<1> QED BY <1>2, <1>3, <1>7, <1>8, CrossedKeeps

LEMMA ServeKeeps ==
    ASSUME ExploreInv, NEW r \in net, Serve(r)
    PROVE  ExploreInv'
<1> DEFINE q == Answered(r)
           s == Written(r)
           n == (net \ {r}) \cup {q}
<1>1. IsRequest(r) /\ IsServer(srv) /\ r.state = "sent" /\ Served(s, n)
  BY DEF ExploreInv, TypeOK, Shape, Serve
<1>2. CASE r.kind \in Reads
  <2>1. s = srv
    BY <1>2 DEF Written, Reads
  <2>2. \E a : a \in Answers /\ q = [r EXCEPT !.state = "served", !.answer = a]
               /\ NoTwins(a.rows) /\ (\A x : ShowsStar(a.rows, x, srv))
               /\ (r.kind = "page" /\ a.after = "0" => a.rows = <<>> /\ ~a.hasmore)
    <3>1. CASE r.kind = "inventory"
      <4>1. q = [r EXCEPT !.state = "served", !.answer = ServerInventory(srv)]
        BY <3>1 DEF Answered
      <4> QED BY <1>1, <3>1, <4>1, InventoryIsFaithful DEF Faithful
    <3>2. CASE r.kind = "page"
      <4>1. q = [r EXCEPT !.state = "served", !.answer = ServerPage(r.group, r.args, srv)]
        BY <3>2 DEF Answered
      <4>2. r.group \in Groups /\ r.args \in Args
        BY <1>1, <3>2, KindIs DEF Pages
      <4> DEFINE a == ServerPage(r.group, r.args, srv)
      <4>3. Faithful(a, srv) /\ (a.after = "0" => a.rows = <<>> /\ ~a.hasmore)
        BY <1>1, <4>2, PageIsFaithful
      <4> HIDE DEF a, q
      <4> QED BY <4>1, <4>3 DEF Faithful, a
    <3>3. CASE r.kind = "search"
      <4>1. q = [r EXCEPT !.state = "served", !.answer = ServerSearch(r.sel, srv)]
        BY <3>3 DEF Answered
      <4> QED BY <1>1, <3>3, <4>1, SearchIsFaithful DEF Faithful
    <3> QED BY <1>2, <3>1, <3>2, <3>3 DEF Reads
  <2>3. PICK a : a \in Answers /\ q = [r EXCEPT !.state = "served", !.answer = a]
               /\ NoTwins(a.rows) /\ (\A x : ShowsStar(a.rows, x, srv))
               /\ (r.kind = "page" /\ a.after = "0" => a.rows = <<>> /\ ~a.hasmore)
    BY <2>2
  <2> HIDE DEF q, s
  <2>4. Follows(q, r) /\ q.state = "served" /\ q.answer = a /\ IsRequest(q)
    <3>1. CASE r.kind = "inventory"
      <4>1. r \in Inventories
        BY <1>1, <3>1, KindIs
      <4> QED BY <2>3, <3>1, <4>1 DEF Inventories, States, Follows, IsRequest
    <3>2. CASE r.kind = "page"
      <4>1. r \in Pages
        BY <1>1, <3>2, KindIs
      <4> QED BY <2>3, <3>2, <4>1 DEF Pages, States, Follows, IsRequest
    <3>3. CASE r.kind = "search"
      <4>1. r \in Searches
        BY <1>1, <3>3, KindIs
      <4> QED BY <2>3, <3>3, <4>1 DEF Searches, States, Follows, IsRequest
    <3> QED BY <1>2, <3>1, <3>2, <3>3 DEF Reads
  <2>5. AnswerInv(q) /\ q.kind # "star"
    BY <1>2, <2>3, <2>4 DEF AnswerInv, Follows, Reads
  <2> QED BY <1>1, <2>1, <2>3, <2>4, <2>5, ServedKeeps
<1>3. CASE r.kind = "star"
  <2> DEFINE fav == IF r.fav THEN srv.fav \cup {r.course} ELSE srv.fav \ {r.course}
  <2>1. IsStar(r)
    BY <1>1, <1>3, KindIs
  <2>2. q = [r EXCEPT !.state = "served"] /\ s = [srv EXCEPT !.fav = fav]
    BY <1>3 DEF Answered, Written
  <2>3. r.fav = (r.course \in fav) /\ \A x : (x \in srv.fav) = (x \in fav) \/ x = r.course
    BY <2>1 DEF IsStar
  <2> HIDE DEF q, s, fav
  <2>4. s.fav = fav /\ s.recent = srv.recent /\ IsServer(s)
    BY <1>1, <2>2 DEF IsServer
  <2>5. /\ q.kind = "star" /\ q.state = "served" /\ q.course = r.course /\ q.fav = r.fav /\ IsRequest(q)
        /\ Follows(q, r) /\ AnswerInv(q)
    BY <2>1, <2>2 DEF IsStar, IsRequest, Follows, AnswerInv, Reads, States
  <2>6. q.kind \notin Reads
    BY <2>5 DEF Reads
  <2>7. (q.kind = "star" /\ q.state = "served" => q.fav = (q.course \in s.fav))
        /\ \A x : (x \in srv.fav) = (x \in s.fav) \/ (q.kind = "star" /\ q.state = "served" /\ q.course = x)
    BY <2>3, <2>4, <2>5
  <2> QED BY <1>1, <2>4, <2>5, <2>6, <2>7, ServedKeeps
<1>4. CASE r.kind = "archive"
  <2>1. IsArchive(r)
    BY <1>1, <1>4, KindIs
  <2>2. q = [r EXCEPT !.state = "served"] /\ \E a : s = [srv EXCEPT !.archived = a]
    BY <1>4 DEF Answered, Written
  <2>3. PICK a : s = [srv EXCEPT !.archived = a]
    BY <2>2
  <2> HIDE DEF q, s
  <2>4. s.fav = srv.fav /\ IsServer(s)
    BY <1>1, <2>3 DEF IsServer
  <2>5. q.kind = "archive" /\ IsRequest(q) /\ Follows(q, r) /\ AnswerInv(q)
    BY <2>1, <2>2 DEF IsArchive, IsRequest, Follows, AnswerInv, Reads, States
  <2>6. q.kind \notin Reads /\ q.kind # "star"
    BY <2>5 DEF Reads
  <2> QED BY <1>1, <2>4, <2>5, <2>6, ServedKeeps
<1> QED BY <1>1, <1>2, <1>3, <1>4 DEF IsRequest, Inventories, Searches, Pages, IsStar, IsArchive, Reads

LEMMA FailKeeps ==
    ASSUME ExploreInv, NEW r \in net, Fail(r)
    PROVE  ExploreInv'
<1> DEFINE q == [r EXCEPT !.state = "failed"]
           n == (net \ {r}) \cup {q}
<1>1. IsRequest(r) /\ IsServer(srv) /\ r.state = "sent"
  BY DEF ExploreInv, TypeOK, Shape, Fail
<1>2. PICK s \in {srv} \cup (IF r.kind = "archive" THEN {Written(r)} ELSE {}) : Served(s, n)
  BY DEF Fail
<1>3. s.fav = srv.fav /\ IsServer(s)
  <2>1. s = srv \/ \E a : s = [srv EXCEPT !.archived = a]
    BY <1>2 DEF Written
  <2> QED BY <1>1, <2>1 DEF IsServer
<1>4. Follows(q, r) /\ q.state = "failed" /\ IsRequest(q)
  <2>1. CASE r.kind = "inventory"
    <3>1. r \in Inventories
      BY <1>1, <2>1, KindIs
    <3> QED BY <2>1, <3>1 DEF Inventories, States, Follows, IsRequest
  <2>2. CASE r.kind = "page"
    <3>1. r \in Pages
      BY <1>1, <2>2, KindIs
    <3> QED BY <2>2, <3>1 DEF Pages, States, Follows, IsRequest
  <2>3. CASE r.kind = "search"
    <3>1. r \in Searches
      BY <1>1, <2>3, KindIs
    <3> QED BY <2>3, <3>1 DEF Searches, States, Follows, IsRequest
  <2>4. CASE r.kind = "star"
    <3>1. IsStar(r)
      BY <1>1, <2>4, KindIs
    <3> QED BY <2>4, <3>1 DEF IsStar, States, Follows, IsRequest
  <2>5. CASE r.kind = "archive"
    <3>1. IsArchive(r)
      BY <1>1, <2>5, KindIs
    <3> QED BY <2>5, <3>1 DEF IsArchive, States, Follows, IsRequest
  <2> QED BY <1>1, <2>1, <2>2, <2>3, <2>4, <2>5 DEF IsRequest, Inventories, Searches, Pages, IsStar, IsArchive
<1>5. AnswerInv(q)
  BY <1>4 DEF AnswerInv
<1> HIDE DEF q
<1> QED BY <1>1, <1>2, <1>3, <1>4, <1>5, ServedKeeps

LEMMA ElsewhereKeeps ==
    ASSUME ExploreInv, Elsewhere
    PROVE  ExploreInv'
<1>1. /\ Sound(srv, net, data, pages, crit, hits, failed, muddled)
      /\ SearchInv(net, data, crit, applied, hits, searchfailed, searched)
      /\ (\A y \in net : IsRequest(y)) /\ IsServer(srv)
  BY DEF ExploreInv, TypeOK, Shape
<1>2. PICK c \in Courses : \E s \in {[srv EXCEPT !.recent = <<c>> \o InOrder(@, Courses \ {c})],
                                     [srv EXCEPT !.archived = IF c \in @ THEN @ \ {c} ELSE @ \cup {c}]} :
                              Served(s, net)
  BY DEF Elsewhere
<1> DEFINE rest == InOrder(srv.recent, Courses \ {c})
           recent == <<c>> \o rest
<1>3. PICK s : Served(s, net) /\ (s = [srv EXCEPT !.recent = recent] \/ \E a : s = [srv EXCEPT !.archived = a])
  BY <1>2
<1>4. recent \in Seq(Courses) /\ IsInjective(recent)
  <2>1. /\ rest \in Seq(Courses) /\ IsInjective(rest) /\ \A k \in DOMAIN rest : rest[k] \in Courses \ {c}
    BY <1>1, InOrderKeeps DEF IsServer
  <2> DEFINE one == <<c>>
  <2>2. one \in Seq(Courses) /\ Len(one) = 1 /\ one[1] = c
    OBVIOUS
  <2> HIDE DEF rest, one
  <2>3. /\ one \o rest \in Seq(Courses) /\ Len(one \o rest) = 1 + Len(rest) /\ Len(rest) \in Nat
        /\ DOMAIN rest = 1 .. Len(rest) /\ DOMAIN (one \o rest) = 1 .. 1 + Len(rest)
        /\ \A i \in 1 .. 1 + Len(rest) : (one \o rest)[i] = IF i <= 1 THEN one[i] ELSE rest[i - 1]
    BY <2>1, <2>2, ConcatProperties, LenProperties
  <2> DEFINE l == one \o rest
  <2>4. recent = l
    BY DEF one
  <2> HIDE DEF l, recent
  <2>5. \A i \in DOMAIN l : i \in Int /\ ((i = 1 /\ l[i] = c) \/ (i - 1 \in DOMAIN rest /\ l[i] = rest[i - 1]))
    BY <2>2, <2>3 DEF l
  <2>6. ASSUME NEW i \in DOMAIN l, NEW j \in DOMAIN l, l[i] = l[j] PROVE i = j
    <3>1. CASE i = 1 /\ l[i] = c
      BY <2>1, <2>5, <2>6, <3>1
    <3>2. CASE i - 1 \in DOMAIN rest /\ l[i] = rest[i - 1]
      <4>1. j - 1 \in DOMAIN rest /\ l[j] = rest[j - 1]
        BY <2>1, <2>5, <2>6, <3>2
      <4>2. i - 1 = j - 1
        BY <2>1, <2>6, <3>2, <4>1 DEF IsInjective
      <4> QED BY <2>5, <4>2
    <3> QED BY <2>5, <3>1, <3>2
  <2> QED BY <2>3, <2>4, <2>6 DEF IsInjective, l
<1> HIDE DEF recent
<1>5. s.fav = srv.fav /\ IsServer(s)
  BY <1>1, <1>3, <1>4 DEF IsServer
<1>6. muddled' = muddled
  <2>1. (s.fav \ srv.fav) \cup (srv.fav \ s.fav) = {}
    BY <1>5
  <2> QED BY <1>3, <2>1 DEF Served, Crossing
<1>7. PagesInv(net, pages) /\ ListsInv(net, data, hits) /\ UnderInv(net, data, pages, crit) /\ ModesInv(failed, net, data, pages)
  BY <1>1 DEF Sound
<1>8. StarInv(s, net, data, pages, hits, muddled')
  BY <1>1, <1>5, <1>6 DEF Sound, StarInv, ShowsStar
<1> QED BY <1>1, <1>3, <1>5, <1>7, <1>8, CrossedKeeps

(***************************************************************************)
(* The invariant                                                           *)
(***************************************************************************)

LEMMA MountSound == Init => ExploreInv
<1> SUFFICES ASSUME Init PROVE ExploreInv
  OBVIOUS
<1>1. IsServer(srv)
  BY CoursesAssumption DEF Init, IsServer, CoursesAssumption
<1>2. \A r \in net : r \in Inventories /\ r.kind = "inventory" /\ r.state = "sent"
  <2> DEFINE first == TRUE
  <2>1. InventoryRequest(first) \in Inventories
    BY ReloadIs
  <2>2. InventoryRequest(first).kind = "inventory" /\ InventoryRequest(first).state = "sent"
    BY DEF InventoryRequest
  <2>3. net = {InventoryRequest(first)}
    BY DEF Init
  <2> HIDE DEF first
  <2> QED BY <2>1, <2>2, <2>3
<1>3. /\ data \in Payloads /\ data.rows = <<>> /\ data.groups = {} /\ data.mode = "none"
  <2>1. data = [mode |-> "none", groups |-> {}, rows |-> <<>>]
    BY Zenon DEF Init
  <2>2. <<>> \in Seq(Rows) /\ {} \in SUBSET Groups /\ "none" \in Modes
    BY DEF Modes
  <2> QED BY <2>1, <2>2 DEF Payloads
<1>4. hits \in Hits /\ hits.rows = <<>> /\ ~hits.shown
  <2>1. hits = NoHits
    BY Zenon DEF Init
  <2>2. NoHits \in Hits /\ NoHits.rows = <<>> /\ ~NoHits.shown
    BY DEF NoHits, Hits, Queries
  <2> QED BY <2>1, <2>2
<1>5. pages = NoPages /\ open \in OpenGroups /\ openbefore \in [held : BOOLEAN, open : OpenGroups]
  BY DEF Init, NoPages, OpenGroups
<1>6. crit \in Criteria
  BY DEF Init, Criteria, Scopes
<1>7. TypeOK
  BY <1>1, <1>2, <1>3, <1>4, <1>5, <1>6, NoPagesAre DEF TypeOK, Shape, IsRequest, Init, Queries
<1>8. \A g \in Groups : pages[g].rows = <<>> /\ pages[g].under = {} /\ ~pages[g].failed
  BY <1>5 DEF NoPages, EMPTY_PAGE
<1>9. Of(net, "page") = {} /\ Of(net, "search") = {} /\ \A x : StarsOf(net, x) = {}
  BY <1>2 DEF Of, StarsOf
<1>10. NoTwins(<<>>) /\ \A x, s : ShowsStar(<<>>, x, s)
  BY DEF NoTwins, ShowsStar
<1>11. PagesInv(net, pages)
  BY <1>8, <1>9, <1>10 DEF PagesInv, CursorInv
<1>12. ListsInv(net, data, hits)
  BY <1>2, <1>3, <1>4, <1>10 DEF ListsInv, AnswerInv
<1>13. UnderInv(net, data, pages, crit) /\ ModesInv(failed, net, data, pages)
  BY <1>8, <1>9 DEF UnderInv, ModesInv, OneMode, Of, Init
<1>14. StarInv(srv, net, data, pages, hits, muddled)
  BY <1>2, <1>3, <1>4, <1>8, <1>9, <1>10 DEF StarInv
<1>15. SearchInv(net, data, crit, applied, hits, searchfailed, searched)
  BY <1>3, <1>4, <1>9 DEF SearchInv
<1> QED BY <1>3, <1>7, <1>11, <1>12, <1>13, <1>14, <1>15 DEF ExploreInv, Sound, OpenGroupIsAskedFor

LEMMA StepSound == ExploreInv /\ [Next]_vars => ExploreInv'
<1> SUFFICES ASSUME ExploreInv, [Next]_vars PROVE ExploreInv'
  OBVIOUS
<1>1. CASE ChooseCriteria \/ (\E chip \in Chips : PressLink(chip)) \/ ChooseSelection \/ ChooseSort \/ Clear \/ Settle
  BY <1>1, CriteriaKeep
<1>2. CASE \E g \in Groups : ToggleGroup(g) \/ ShowMore(g) \/ RetryGroup(g)
  BY <1>2, GroupsKeep
<1>3. CASE OpenIndexed
  BY <1>3, IndexToggles, GroupsKeep
<1>4. CASE RetryInventory \/ RetrySearch \/ Online
  BY <1>4, RetriesKeep
<1>5. CASE \E g \in Groups : Archive(g) \/ ToggleFavourite(g)
  BY <1>5, ArchivesKeep, StarsKeep
<1>6. CASE ToggleInTier1
  BY <1>6, StarsKeep
<1>7. CASE ArchiveAll \/ Dialogue \/ (\E yes \in BOOLEAN : Confirm(yes)) \/ Type \/ UNCHANGED vars
  BY <1>7, ArchivesKeep
<1>8. CASE \E r \in net : Serve(r) \/ Fail(r)
  BY <1>8, ServeKeeps, FailKeeps
<1>9. CASE Elsewhere
  BY <1>9, ElsewhereKeeps
<1>10. CASE Answer
  BY <1>10, PageAnswerKeeps, SearchAnswerKeeps, InventoryAnswerKeeps, StarAnswerKeeps, ArchiveAnswerKeeps DEF Answer
<1> QED BY <1>1, <1>2, <1>3, <1>4, <1>5, <1>6, <1>7, <1>8, <1>9, <1>10 DEF Next

\* Tier 3's record of what it holds, what it asked and what was answered stays in order, whatever crosses whatever.
THEOREM ExploreInvariant == Spec => []ExploreInv
<1>1. Init => ExploreInv
  BY MountSound
<1>2. ExploreInv /\ [Next]_vars => ExploreInv'
  BY StepSound
<1> QED BY <1>1, <1>2, PTL DEF Spec

\* No list shows a course twice, whatever moved on the server between two of its pages: loadPage() takes a row it
\* holds already for a restart.
THEOREM NoTwinsShown == Spec => []NoCourseTwice
<1>1. ExploreInv => NoCourseTwice
  <2> SUFFICES ASSUME ExploreInv PROVE NoCourseTwice
    OBVIOUS
  <2>1. \A rows \in Seq(Rows) : NoTwins(rows) => RowsOf(rows)
    <3> TAKE rows \in Seq(Rows)
    <3>1. Ids(rows) \subseteq Courses
      BY IdsAreCourses
    <3>2. NoTwins(rows) => IsInjective([i \in DOMAIN rows |-> rows[i].id])
      BY DEF NoTwins, IsInjective
    <3> QED BY <3>1, <3>2 DEF RowsOf
  <2>2. /\ data.rows \in Seq(Rows) /\ hits.rows \in Seq(Rows)
        /\ \A g \in Groups : pages[g].rows \in Seq(Rows)
    BY DEF ExploreInv, TypeOK, Shape, Payloads, Hits, PageStates
  <2>3. /\ NoTwins(data.rows) /\ NoTwins(hits.rows)
        /\ \A g \in Groups : NoTwins(pages[g].rows)
    BY DEF ExploreInv, Sound, ListsInv, PagesInv
  <2> QED BY <2>1, <2>2, <2>3 DEF NoCourseTwice
<1> QED BY <1>1, ExploreInvariant, PTL

\* An open group is never left with nothing: the effect after each render asks for what no other step has.
THEOREM OpenGroupsAreAskedFor == Spec => []OpenGroupIsAskedFor
<1>1. ExploreInv => OpenGroupIsAskedFor
  BY DEF ExploreInv
<1> QED BY <1>1, ExploreInvariant, PTL

\* Rows, and the search's hits, are those of the criteria in force: a choice drops what was asked under another.
THEOREM RowsAreOfTheCriteria == Spec => []RowsAnswerTheCriteria
<1>1. ExploreInv => RowsAnswerTheCriteria
  BY DEF ExploreInv, Sound, UnderInv, InForce, SearchInv, RowsAnswerTheCriteria
<1> QED BY <1>1, ExploreInvariant, PTL

\* With no write of a star out, every copy of its course shows what the server has.
THEOREM StarsAreFollowed == Spec => []StarsFollowTheServer
<1>1. ExploreInv => StarsFollowTheServer
  <2> SUFFICES ASSUME ExploreInv, NEW c \in Held \ muddled, ~\E r \in Of(net, "star") : r.course = c
               PROVE  \A rows \in {data.rows, hits.rows} \cup {pages[g].rows : g \in Groups} :
                         \A i \in DOMAIN rows : rows[i].id = c => rows[i].fav = (c \in srv.fav)
    BY DEF StarsFollowTheServer
  <2>1. /\ data.rows \in Seq(Rows) /\ hits.rows \in Seq(Rows)
        /\ \A g \in Groups : pages[g].rows \in Seq(Rows)
    BY DEF ExploreInv, TypeOK, Shape, Payloads, Hits, PageStates
  <2>2. c \in Courses \ muddled
    BY <2>1, IdsAreCourses DEF Held
  <2>3. StarsOf(net, c) = {}
    BY DEF StarsOf
  <2>4. /\ ShowsStar(data.rows, c, srv) /\ ShowsStar(hits.rows, c, srv)
        /\ \A g \in Groups : ShowsStar(pages[g].rows, c, srv)
    BY <2>2, <2>3 DEF ExploreInv, Sound, StarInv
  <2> QED BY <2>4 DEF ShowsStar
<1> QED BY <1>1, ExploreInvariant, PTL

(***************************************************************************)
(* The invariant of a group's pages                                        *)
(***************************************************************************)

CursorAt(o, k) == IF k = 0 THEN "0" ELSE o[k]

\* The page holds the first k rows of o, knows whether there are more, and its cursor names the last.
IsCut(page, o, s, k) ==
    /\ page.rows = [i \in 1 .. k |-> Row(o[i], s)]
    /\ page.hasmore = (k < Len(o))
    /\ page.after = CursorAt(o, k)

Cut(page, g, a, s) == \E k \in 0 .. Len(Ordered(g, a, s)) : IsCut(page, Ordered(g, a, s), s, k)

Begun(page) == IF page.loaded THEN page.under # {} ELSE page.rows = <<>> /\ page.after = "0" /\ page.under = {}

\* A request out is for the rows after those held, and its answer is the server's while the order stands.
Continues(r, page, s) ==
    /\ r.args.after = page.after
    /\ page.loaded => page.hasmore
    /\ r.state = "served" /\ ~page.torn => r.answer = ServerPage(r.group, r.args, s)

\* What is held of a group asked for one way, the order never having changed, is the head of the server's list.
PageCut(page, g, s, m) ==
    m = {} /\ ~page.torn => \A a \in page.under : page.under = {a} => Cut(page, g, a, s)

CutInv(s, n, p, m) ==
    /\ \A g \in Groups : Begun(p[g]) /\ PageCut(p[g], g, s, m)
    /\ \A r \in Of(n, "page") : Continues(r, p[r.group], s)

\* No group is listed before an inventory has named the mode.
ModeKnown(n, d) ==
    /\ d.mode = "none" => d.groups = {}
    /\ \A r \in Of(n, "inventory") : r.answer.mode = "none" => r.answer.groups = {}

(***************************************************************************)
(* Lemmas: a page of the server's                                          *)
(***************************************************************************)

LEMMA OrderedIs ==
    ASSUME NEW s, IsServer(s), NEW g, NEW a
    PROVE  Ordered(g, a, s) \in Seq(Courses) /\ IsInjective(Ordered(g, a, s))
BY CoursesAssumption, InOrderKeeps DEF Ordered, IsServer, CoursesAssumption

\* A group's order is the same at every cursor.
LEMMA OrderedUnder ==
    ASSUME NEW r \in Pages, NEW g, NEW s
    PROVE  Ordered(g, Under(r), s) = Ordered(g, r.args, s)
<1>1. /\ Under(r).sort = r.args.sort /\ Under(r).chip = r.args.chip /\ Under(r).sel = r.args.sel
  BY DEF Under, Pages, Args
<1> QED BY <1>1 DEF Ordered

\* The page after the k-th course: the next ones up to some u, which moves while there are any.
Follow(page, o, s, k, u) ==
    /\ page.rows = [i \in 1 .. u - k |-> Row(o[k + i], s)]
    /\ page.hasmore = (u < Len(o))
    /\ page.after = IF u = k THEN "0" ELSE o[u]
    /\ u = k => k = Len(o)

LEMMA PageFrom ==
    ASSUME NEW s, NEW g, NEW a, NEW o \in Seq(Courses), IsInjective(o), o = Ordered(g, a, s),
           NEW k \in 0 .. Len(o), a.after = CursorAt(o, k)
    PROVE  \E u \in k .. Len(o) : Follow(ServerPage(g, a, s), o, s, k, u)
<1> DEFINE start == IF a.after \in ToSet(o) THEN CHOOSE i \in DOMAIN o : o[i] = a.after ELSE 0
           upto == IF start + PAGE_SIZE < Len(o) THEN start + PAGE_SIZE ELSE Len(o)
           ids == SubSeq(o, start + 1, upto)
           rows == [i \in DOMAIN ids |-> Row(ids[i], s)]
           page == ServerPage(g, a, s)
<1>1. page = [NoAnswer EXCEPT !.rows = rows,
                              !.hasmore = start + Len(ids) < Len(o),
                              !.after = IF ids = <<>> THEN "0" ELSE Last(ids)]
  BY DEF ServerPage
<1>2. Len(o) \in Nat /\ DOMAIN o = 1 .. Len(o) /\ \A i \in 1 .. Len(o) : o[i] \in Courses
  OBVIOUS
<1> USE DEF CursorAt
<1>3. start = k
  <2>1. CASE k = 0
    <3>1. a.after \notin ToSet(o)
      BY <1>2, <2>1, CoursesAssumption DEF CoursesAssumption, ToSet
    <3> QED BY <2>1, <3>1
  <2>2. CASE k # 0
    <3>1. k \in DOMAIN o /\ a.after = o[k]
      BY <1>2, <2>2
    <3>2. a.after \in ToSet(o)
      BY <3>1 DEF ToSet
    <3>3. \A i \in DOMAIN o : o[i] = a.after => i = k
      BY <3>1 DEF IsInjective
    <3> QED BY <3>1, <3>2, <3>3
  <2> QED BY <2>1, <2>2
<1> HIDE DEF start, page
<1>4. k \in Int /\ 0 <= k /\ k <= Len(o) /\ PAGE_SIZE \in Int /\ PAGE_SIZE > 0
  BY <1>2, CoursesAssumption DEF CoursesAssumption
<1>5. upto \in k .. Len(o) /\ (upto = k => k = Len(o)) /\ upto \in Int /\ k <= upto /\ upto <= Len(o)
  <2>1. upto = IF k + PAGE_SIZE < Len(o) THEN k + PAGE_SIZE ELSE Len(o)
    BY <1>3
  <2>2. Len(o) \in Int
    BY <1>2
  <2> HIDE DEF upto
  <2>3. upto \in Int /\ k <= upto /\ upto <= Len(o) /\ (upto = k => k = Len(o))
    BY <1>4, <2>1, <2>2
  <2> QED BY <1>4, <2>2, <2>3
<1> HIDE DEF upto
<1>6. Len(ids) = upto - k /\ ids \in Seq(Courses) /\ \A i \in 1 .. upto - k : ids[i] = o[k + i]
  <2>1. ASSUME NEW i \in k + 1 .. upto PROVE o[i] \in Courses
    <3>1. i \in Int /\ 1 <= i /\ i <= Len(o)
      BY <1>4, <1>5
    <3>2. i \in 1 .. Len(o)
      BY <1>2, <3>1
    <3> QED BY <1>2, <3>2
  <2>2. ids = SubSeq(o, k + 1, upto) /\ k + 1 \in Int
    BY <1>3, <1>4
  <2> HIDE DEF ids
  <2>3. /\ ids \in Seq(Courses)
        /\ Len(ids) = IF k + 1 <= upto THEN upto - (k + 1) + 1 ELSE 0
        /\ \A i \in 1 .. upto - (k + 1) + 1 : ids[i] = o[k + 1 + i - 1]
    BY <1>5, <2>1, <2>2, SubSeqProperties
  <2>4. Len(ids) = upto - k
    BY <1>4, <1>5, <2>3
  <2>5. ASSUME NEW i \in 1 .. upto - k PROVE ids[i] = o[k + i]
    <3>1. i \in 1 .. upto - (k + 1) + 1 /\ k + 1 + i - 1 = k + i
      BY <1>4, <1>5
    <3> QED BY <2>3, <3>1
  <2> QED BY <2>3, <2>4, <2>5
<1> HIDE DEF ids
<1>7. rows = [i \in 1 .. upto - k |-> Row(o[k + i], s)]
  <2>1. DOMAIN ids = 1 .. upto - k
    BY <1>6
  <2> QED BY <1>6, <2>1
<1>8. (ids = <<>>) = (upto = k)
  BY <1>4, <1>5, <1>6
<1>9. ids # <<>> => Last(ids) = o[upto]
  <2> SUFFICES ASSUME ids # <<>> PROVE Last(ids) = o[upto]
    OBVIOUS
  <2>1. upto - k \in 1 .. upto - k /\ k + (upto - k) = upto
    BY <1>4, <1>5, <1>8
  <2>2. Last(ids) = ids[upto - k]
    BY <1>6 DEF Last
  <2> QED BY <1>6, <2>1, <2>2
<1>10. (start + Len(ids) < Len(o)) = (upto < Len(o))
  <2>1. start + Len(ids) = upto
    BY <1>3, <1>4, <1>5, <1>6
  <2> QED BY <2>1
<1> HIDE DEF rows
<1>11. page.rows = rows
  BY <1>1 DEF NoAnswer
<1>12. page.hasmore = (upto < Len(o))
  BY <1>1, <1>10 DEF NoAnswer
<1>13. page.after = IF upto = k THEN "0" ELSE o[upto]
  BY <1>1, <1>8, <1>9 DEF NoAnswer
<1>14. Follow(page, o, s, k, upto)
  BY <1>5, <1>7, <1>11, <1>12, <1>13 DEF Follow
<1> QED BY <1>5, <1>14 DEF page

LEMMA LengthIs == ASSUME NEW S, NEW t \in Seq(S), NEW n \in Nat, DOMAIN t = 1 .. n PROVE Len(t) = n
<1>1. Len(t) \in Nat /\ 1 .. Len(t) = 1 .. n
  BY LenProperties
<1>2. Len(t) = n
  BY <1>1
<1> QED BY <1>2

LEMMA TwoParts ==
    ASSUME NEW a \in Seq(Rows), NEW b \in Seq(Rows), NEW k, NEW l, Len(a) = k, Len(b) = l
    PROVE  /\ DOMAIN (a \o b) = 1 .. k + l
           /\ \A i \in 1 .. k + l : (a \o b)[i] = IF i <= k THEN a[i] ELSE b[i - k]
<1>1. /\ DOMAIN (a \o b) = 1 .. Len(a) + Len(b)
      /\ \A i \in 1 .. Len(a) + Len(b) : (a \o b)[i] = IF i <= Len(a) THEN a[i] ELSE b[i - Len(a)]
  <2>1. a \o b \in Seq(Rows) /\ Len(a \o b) = Len(a) + Len(b)
    BY ConcatProperties
  <2>2. DOMAIN (a \o b) = 1 .. Len(a) + Len(b)
    BY <2>1, LenProperties
  <2>3. \A i \in 1 .. Len(a) + Len(b) : (a \o b)[i] = IF i <= Len(a) THEN a[i] ELSE b[i - Len(a)]
    BY ConcatProperties, Zenon
  <2> QED BY <2>2, <2>3
<1> QED BY <1>1

\* loadPage() in full: a group that is the head of the server's list is a longer head of it after the next page.
LEMMA PagedIsCut ==
    ASSUME NEW s, NEW page \in PageStates, NEW r \in Pages, NEW o \in Seq(Courses), IsInjective(o),
           o = Ordered(r.group, r.args, s), r.answer = ServerPage(r.group, r.args, s),
           r.args.after = page.after, r.before = Ids(page.rows),
           NEW k \in 0 .. Len(o), k # 0 => k < Len(o),
           page.rows = [i \in 1 .. k |-> Row(o[i], s)], page.after = CursorAt(o, k)
    PROVE  \E u \in 0 .. Len(o) : IsCut(Paged(page, r), o, s, u)
<1> DEFINE q == Paged(page, r)
           answer == r.answer
<1>1. page.rows = [i \in 1 .. k |-> Row(o[i], s)]
  OBVIOUS
<1>2. PICK u \in k .. Len(o) :
         /\ answer.rows = [i \in 1 .. u - k |-> Row(o[k + i], s)]
         /\ answer.hasmore = (u < Len(o))
         /\ answer.after = IF u = k THEN "0" ELSE o[u]
         /\ u = k => k = Len(o)
  <2> DEFINE g == r.group
             a == r.args
  <2>1. o = Ordered(g, a, s) /\ a.after = CursorAt(o, k) /\ answer = ServerPage(g, a, s)
    OBVIOUS
  <2> HIDE DEF g, a, answer
  <2>2. \E u \in k .. Len(o) : Follow(answer, o, s, k, u)
    BY <2>1, PageFrom
  <2> QED BY <2>2, Zenon DEF Follow
<1>3. Len(o) \in Int /\ k \in Int /\ u \in Int /\ 0 <= k /\ k <= u /\ u <= Len(o) /\ k \in Nat /\ u \in Nat
  OBVIOUS
<1>4. \A i \in 1 .. Len(o) : o[i] \in Courses /\ Row(o[i], s) \in Rows /\ Row(o[i], s).id = o[i]
  BY DEF Row, Rows
<1>5. /\ q.rows = (IF restarted(r) THEN answer.rows ELSE page.rows \o answer.rows)
      /\ q.after = answer.after /\ q.hasmore = answer.hasmore
  BY PagedIs
<1> HIDE DEF q, answer
<1>6. answer.rows \in Seq(Rows) /\ Len(answer.rows) = u - k /\ page.rows \in Seq(Rows) /\ Len(page.rows) = k
  <2>1. answer.rows \in Seq(Rows) /\ page.rows \in Seq(Rows)
    BY DEF Pages, Answers, PageStates, answer
  <2>2. DOMAIN answer.rows = 1 .. u - k /\ DOMAIN page.rows = 1 .. k /\ u - k \in Nat
    BY <1>1, <1>2, <1>3
  <2> QED BY <1>3, <2>1, <2>2, LengthIs
<1>7. ~restarted(r)
  <2> SUFFICES ASSUME restarted(r) PROVE FALSE
    OBVIOUS
  <2>1. Ids(answer.rows) \cap Ids(page.rows) # {}
    BY DEF restarted, answer
  <2>2. PICK x \in Ids(answer.rows) : x \in Ids(page.rows)
    BY <2>1
  <2>3. PICK i \in 1 .. u - k : x = o[k + i]
    <3>1. PICK i \in DOMAIN answer.rows : x = answer.rows[i].id
      BY <2>2 DEF Ids
    <3>2. i \in 1 .. u - k
      BY <1>2, <3>1
    <3>3. k + i \in 1 .. Len(o)
      BY <1>3, <3>2
    <3>4. answer.rows[i] = Row(o[k + i], s)
      BY <1>2, <3>2
    <3>5. x = o[k + i]
      BY <1>4, <3>1, <3>3, <3>4
    <3> QED BY <3>2, <3>5
  <2>4. PICK j \in 1 .. k : x = o[j]
    <3>1. PICK j \in DOMAIN page.rows : x = page.rows[j].id
      BY <2>2 DEF Ids
    <3>2. j \in 1 .. k /\ j \in 1 .. Len(o)
      BY <1>1, <1>3, <3>1
    <3> QED BY <1>1, <1>4, <3>1, <3>2
  <2>5. k + i \in DOMAIN o /\ j \in DOMAIN o /\ k + i # j
    BY <1>3
  <2> QED BY <2>3, <2>4, <2>5 DEF IsInjective
<1>8. q.rows = [i \in 1 .. u |-> Row(o[i], s)]
  <2>1. q.rows = page.rows \o answer.rows
    BY <1>5, <1>7
  <2>2. /\ DOMAIN q.rows = 1 .. u
        /\ \A i \in 1 .. u : q.rows[i] = IF i <= k THEN page.rows[i] ELSE answer.rows[i - k]
    <3> DEFINE a == page.rows
               b == answer.rows
               l == u - k
    <3>1. a \in Seq(Rows) /\ b \in Seq(Rows) /\ Len(a) = k /\ Len(b) = l /\ q.rows = a \o b
      BY <1>6, <2>1
    <3>2. k + l = u
      BY <1>3
    <3>3. \A i : b[i - k] = answer.rows[i - k] /\ a[i] = page.rows[i]
      OBVIOUS
    <3> HIDE DEF a, b, l
    <3>4. /\ DOMAIN (a \o b) = 1 .. k + l
          /\ \A i \in 1 .. k + l : (a \o b)[i] = IF i <= k THEN a[i] ELSE b[i - k]
      BY <3>1, TwoParts
    <3> QED BY <3>1, <3>2, <3>3, <3>4
  <2>3. ASSUME NEW i \in 1 .. u PROVE q.rows[i] = Row(o[i], s)
    <3>1. CASE i <= k
      <4>1. i \in 1 .. k
        BY <1>3, <3>1
      <4>2. q.rows[i] = page.rows[i]
        BY <2>2, <3>1
      <4>3. page.rows[i] = Row(o[i], s)
        BY <1>1, <4>1
      <4> QED BY <4>2, <4>3
    <3>2. CASE ~(i <= k)
      <4> DEFINE j == i - k
      <4>1. j \in 1 .. u - k /\ k + j = i
        BY <1>3, <3>2
      <4>2. q.rows[i] = answer.rows[j]
        BY <2>2, <3>2
      <4> HIDE DEF j
      <4>3. answer.rows[j] = Row(o[k + j], s)
        BY <1>2, <4>1
      <4> QED BY <4>1, <4>2, <4>3
    <3> QED BY <3>1, <3>2
  <2>4. q.rows \in Seq(Rows)
    BY <1>6, <2>1, ConcatProperties
  <2> QED BY <2>2, <2>3, <2>4
<1>9. q.after = CursorAt(o, u)
  <2>1. u = k => u = 0
    BY <1>2, <1>3
  <2>2. u = 0 => u = k
    BY <1>3
  <2> QED BY <1>2, <1>5, <2>1, <2>2 DEF CursorAt
<1>10. q.hasmore = (u < Len(o))
  BY <1>2, <1>5
<1>11. IsCut(q, o, s, u) /\ u \in 0 .. Len(o)
  BY <1>3, <1>8, <1>9, <1>10 DEF IsCut
<1> QED BY <1>11 DEF q

(***************************************************************************)
(* Lemmas: what keeps a group the head of the server's list                *)
(***************************************************************************)

Cuts(s, n, d, p, m) == CutInv(s, n, p, m) /\ ModeKnown(n, d)

\* Only the rows of a page, its cursor, and what it was asked with are cut.
SamePage(q, page) ==
    /\ q.rows = page.rows /\ q.after = page.after /\ q.hasmore = page.hasmore /\ q.loaded = page.loaded
    /\ q.under = page.under /\ q.torn = page.torn

LEMMA SamePageIsCut ==
    ASSUME NEW q, NEW page, SamePage(q, page)
    PROVE  /\ Begun(page) => Begun(q)
           /\ \A g, s, m : PageCut(page, g, s, m) => PageCut(q, g, s, m)
           /\ \A r, s : Continues(r, page, s) => Continues(r, q, s)
<1>1. Begun(page) => Begun(q)
  BY DEF SamePage, Begun
<1>2. \A g, a, s : Cut(page, g, a, s) => Cut(q, g, a, s)
  BY Zenon DEF SamePage, Cut, IsCut
<1>3. \A g, s, m : PageCut(page, g, s, m) => PageCut(q, g, s, m)
  BY <1>2 DEF SamePage, PageCut
<1>4. \A r, s : Continues(r, page, s) => Continues(r, q, s)
  BY DEF SamePage, Continues
<1> QED BY <1>1, <1>3, <1>4

\* An emptied group holds nothing that was asked for.
LEMMA EmptyIsCut == Begun(EMPTY_PAGE) /\ \A g, s, m : PageCut(EMPTY_PAGE, g, s, m)
<1>1. EMPTY_PAGE.under = {} /\ ~EMPTY_PAGE.loaded /\ EMPTY_PAGE.rows = <<>> /\ EMPTY_PAGE.after = "0"
  BY DEF EMPTY_PAGE
<1> QED BY <1>1 DEF Begun, PageCut

LEMMA AskedCuts ==
    ASSUME NEW d \in Payloads, NEW p \in [Groups -> PageStates], NEW c \in Criteria, NEW n, NEW n2, NEW gs,
           AsksFor(gs, d, p, c, n, n2), \A r \in Of(n, "page") : r.group \in Groups,
           NEW s, NEW m, Cuts(s, n, d, p, m)
    PROVE  Cuts(s, n2, d, Loading(p, gs), m)
<1> DEFINE p2 == Loading(p, gs)
<1>1. \A g \in Groups : SamePage(p2[g], p[g])
  BY LoadingIs DEF SamePage
<1> HIDE DEF p2
<1>2. \A g \in Groups : Begun(p2[g]) /\ PageCut(p2[g], g, s, m)
  BY <1>1, SamePageIsCut DEF Cuts, CutInv
<1>3. ASSUME NEW r \in Of(n2, "page") PROVE Continues(r, p2[r.group], s)
  <2>1. CASE r \in Of(n, "page")
    <3>1. Continues(r, p[r.group], s) /\ SamePage(p2[r.group], p[r.group])
      BY <1>1, <2>1 DEF Cuts, CutInv
    <3> QED BY <3>1, SamePageIsCut
  <2>2. CASE \E g \in gs : r = Asking(d, p, c, g)
    <3>1. PICK g \in gs : r = Asking(d, p, c, g)
      BY <2>2
    <3>2. g \in Groups /\ (~p[g].loaded \/ p[g].hasmore)
      BY DEF AsksFor
    <3>3. r.group = g /\ r.state = "sent" /\ r.args.after = p[g].after
      BY <3>1, <3>2, AskingIs
    <3>4. SamePage(p2[g], p[g])
      BY <1>1, <3>2
    <3> QED BY <3>2, <3>3, <3>4 DEF Continues, SamePage
  <2> QED BY <2>1, <2>2 DEF AsksFor
<1>4. ModeKnown(n2, d)
  <2>1. \A r \in Of(n2, "inventory") : r \in Of(n, "inventory")
    BY DEF AsksFor, Of
  <2> QED BY <2>1 DEF Cuts, ModeKnown
<1>5. CutInv(s, n2, p2, m)
  BY <1>2, <1>3 DEF CutInv
<1> QED BY <1>4, <1>5 DEF Cuts, p2

LEMMA RenderedCuts ==
    ASSUME NEW d \in Payloads, NEW p \in [Groups -> PageStates], NEW o, NEW c \in Criteria, NEW app, NEW h, NEW n, NEW gen,
           Rendered(d, p, o, c, app, h, n, gen), \A r \in Of(n, "page") : r.group \in Groups,
           NEW s, NEW m, Cuts(s, n, d, p, m)
    PROVE  Cuts(s, net', data', pages', m)
<1> DEFINE gs == Dues(d, p, o, c, app)
<1>1. AsksFor(gs, d, p, c, n, net')
  BY RenderedAsks
<1>2. data' = d /\ pages' = Loading(p, gs)
  BY RenderedIs
<1> HIDE DEF gs
<1>3. Cuts(s, net', d, Loading(p, gs), m)
  BY <1>1, AskedCuts
<1> QED BY <1>2, <1>3

\* Some groups may be emptied with the requests that are out for them, other requests come and go.
LEMMA EmptiedCuts ==
    ASSUME NEW s, NEW n, NEW d, NEW p, NEW m, Cuts(s, n, d, p, m), NEW n2, NEW d2, NEW p2, NEW m2,
           m2 = {} => m = {},
           \A g \in Groups : p2[g] = p[g] \/ p2[g] = EMPTY_PAGE,
           \A r \in Of(n2, "page") : r \in Of(n, "page") /\ p2[r.group] = p[r.group],
           ModeKnown(n2, d2)
    PROVE  Cuts(s, n2, d2, p2, m2)
<1>1. ASSUME NEW g \in Groups PROVE Begun(p2[g]) /\ PageCut(p2[g], g, s, m2)
  <2>1. Begun(p[g]) /\ PageCut(p[g], g, s, m)
    BY DEF Cuts, CutInv
  <2>2. PageCut(p[g], g, s, m2)
    BY <2>1 DEF PageCut
  <2> QED BY <2>1, <2>2, EmptyIsCut
<1>2. \A r \in Of(n2, "page") : Continues(r, p2[r.group], s)
  BY DEF Cuts, CutInv
<1> QED BY <1>1, <1>2 DEF Cuts, CutInv

(***************************************************************************)
(* The steps                                                               *)
(***************************************************************************)

CutsNow == Cuts(srv, net, data, pages, muddled)

\* A page asked for is of a group.
LEMMA PagesOfGroups == ASSUME ExploreInv PROVE \A r \in Of(net, "page") : r.group \in Groups /\ r \in Pages
<1>1. \A r \in net : IsRequest(r)
  BY DEF ExploreInv, TypeOK, Shape
<1> QED BY <1>1, KindIs DEF Of, Pages

\* A step that ends in a render, given what is cut as it should be.
LEMMA EndsInRender ==
    ASSUME ExploreInv', NEW d, NEW p \in [Groups -> PageStates], NEW o, NEW c, NEW app, NEW h, NEW n, NEW gen,
           Rendered(d, p, o, c, app, h, n, gen), srv' = srv, muddled' = muddled,
           \A r \in Of(n, "page") : r.group \in Groups, Cuts(srv, n, d, p, muddled)
    PROVE  CutsNow'
<1>1. data' \in Payloads /\ crit' \in Criteria
  BY DEF ExploreInv, TypeOK, Shape
<1>2. data' = d /\ crit' = c
  BY RenderedIs
<1>3. d \in Payloads /\ c \in Criteria
  BY <1>1, <1>2
<1>4. Cuts(srv, net', data', pages', muddled)
  BY <1>3, RenderedCuts
<1> QED BY <1>4 DEF CutsNow

\* A render of the pages held, or of fewer.
LEMMA RenderOfFewer ==
    ASSUME ExploreInv, ExploreInv', CutsNow, NEW d, NEW p \in [Groups -> PageStates], NEW o, NEW c, NEW app, NEW h, NEW n, NEW gen,
           Rendered(d, p, o, c, app, h, n, gen), srv' = srv, muddled' = muddled,
           \A g \in Groups : p[g] = pages[g] \/ p[g] = EMPTY_PAGE,
           \A r \in Of(n, "page") : r \in net /\ p[r.group] = pages[r.group],
           ModeKnown(n, d)
    PROVE  CutsNow'
<1>1. \A r \in Of(n, "page") : r \in Of(net, "page")
  BY DEF Of
<1>2. Cuts(srv, n, d, p, muddled)
  BY <1>1, EmptiedCuts DEF CutsNow
<1>3. \A r \in Of(n, "page") : r.group \in Groups
  BY <1>1, PagesOfGroups
<1> QED BY <1>2, <1>3, EndsInRender

\* A step that leaves the pages alone.
LEMMA PagesUntouched ==
    ASSUME CutsNow, srv' = srv, pages' = pages, data' = data, muddled' = {} => muddled = {},
           \A r \in Of(net', "page") : r \in net,
           \A r \in Of(net', "inventory") : r \in net \/ r.answer = NoAnswer
    PROVE  CutsNow'
<1>1. \A r \in Of(net', "page") : r \in Of(net, "page")
  BY DEF Of
<1>2. ModeKnown(net', data)
  BY DEF CutsNow, Cuts, ModeKnown, Of, NoAnswer
<1> DEFINE p == pages
<1>3. \A g \in Groups : p[g] = pages[g] \/ p[g] = EMPTY_PAGE
  OBVIOUS
<1>4. Cuts(srv, net', data, pages, muddled')
  BY <1>1, <1>2, EmptiedCuts DEF CutsNow
<1> QED BY <1>4 DEF CutsNow

\* With requests taken out, or inventories asked for anew, the mode is no less known.
LEMMA ModeStays ==
    ASSUME NEW n, NEW d, ModeKnown(n, d), NEW n2, \A r \in Of(n2, "inventory") : r \in n \/ r.answer = NoAnswer
    PROVE  ModeKnown(n2, d)
BY DEF ModeKnown, Of, NoAnswer

LEMMA NoPagesIs == \A g \in Groups : NoPages[g] = EMPTY_PAGE
BY DEF NoPages

LEMMA ResetIs ==
    ASSUME NEW n
    PROVE  Of(Reset(n), "page") = {} /\ \A r \in Of(Reset(n), "inventory") : r \in n
BY DEF Reset, Stale, Of

LEMMA RechosenCuts ==
    ASSUME ExploreInv, ExploreInv', CutsNow, NEW c, NEW app, NEW reset, Rechosen(c, app, reset)
    PROVE  CutsNow'
<1>1. ModeKnown(net, data) /\ pages \in [Groups -> PageStates] /\ \A r \in Of(net, "page") : r \in net
  BY DEF CutsNow, Cuts, ExploreInv, TypeOK, Shape, Of
<1>2. srv' = srv /\ muddled' = muddled
  BY DEF Rechosen
<1> DEFINE gen == FALSE
<1>3. CASE reset /\ data.mode = "paged"
  <2>1. Rendered(data, NoPages, open, c, app, hits, Reset(net), gen)
    BY <1>3 DEF Rechosen
  <2>2. ModeKnown(Reset(net), data)
    BY <1>1, ResetIs, ModeStays
  <2> HIDE DEF gen
  <2> QED BY <1>2, <2>1, <2>2, NoPagesAre, NoPagesIs, ResetIs, RenderOfFewer
<1>4. CASE ~(reset /\ data.mode = "paged")
  <2>1. Rendered(data, pages, open, c, app, hits, net, gen)
    BY <1>4 DEF Rechosen
  <2> HIDE DEF gen
  <2> QED BY <1>1, <1>2, <2>1, RenderOfFewer
<1> QED BY <1>3, <1>4

LEMMA CriteriaCut ==
    ASSUME ExploreInv, ExploreInv', CutsNow,
           ChooseCriteria \/ (\E chip \in Chips : PressLink(chip)) \/ ChooseSelection \/ ChooseSort \/ Clear \/ Settle
    PROVE  CutsNow'
<1>1. \E c, app, reset : Rechosen(c, app, reset)
  <2>1. ChooseCriteria => \E c, app, reset : Rechosen(c, app, reset)
    BY Zenon DEF ChooseCriteria
  <2>2. (\E chip \in Chips : PressLink(chip)) => \E c, app, reset : Rechosen(c, app, reset)
    BY Zenon DEF PressLink
  <2>3. ChooseSelection => \E c, app, reset : Rechosen(c, app, reset)
    BY Zenon DEF ChooseSelection
  <2>4. ChooseSort => \E c, app, reset : Rechosen(c, app, reset)
    BY Zenon DEF ChooseSort
  <2>5. Clear => \E c, app, reset : Rechosen(c, app, reset)
    BY Zenon DEF Clear
  <2>6. Settle => \E c, app, reset : Rechosen(c, app, reset)
    BY Zenon DEF Settle
  <2> QED BY <2>1, <2>2, <2>3, <2>4, <2>5, <2>6
<1> QED BY <1>1, RechosenCuts

\* No request is out for a group that failed.
LEMMA FailedIsIdle == ASSUME ExploreInv PROVE \A r \in Of(net, "page") : ~pages[r.group].failed
<1>1. \A r \in Of(net, "page") : r.group \in Groups /\ Waits(r, pages[r.group])
  BY PagesOfGroups DEF ExploreInv, Sound, PagesInv
<1> QED BY <1>1 DEF ExploreInv, Sound, PagesInv, CursorInv, Waits

LEMMA RegroupedCuts ==
    ASSUME ExploreInv, ExploreInv', CutsNow, NEW p \in [Groups -> PageStates], NEW o, Regrouped(p, o, net),
           \A g \in Groups : p[g] = pages[g] \/ (pages[g].failed /\ p[g] = EMPTY_PAGE)
    PROVE  CutsNow'
<1> DEFINE gen == FALSE
<1>1. Rendered(data, p, o, crit, applied, hits, net, gen) /\ srv' = srv /\ muddled' = muddled
  BY DEF Regrouped
<1>2. ModeKnown(net, data)
  BY DEF CutsNow, Cuts
<1>3. \A r \in Of(net, "page") : r \in net /\ p[r.group] = pages[r.group]
  BY PagesOfGroups, FailedIsIdle DEF Of
<1> HIDE DEF gen
<1> QED BY <1>1, <1>2, <1>3, RenderOfFewer

LEMMA GroupsCut ==
    ASSUME ExploreInv, ExploreInv', CutsNow, NEW g \in Groups, ToggleGroup(g) \/ ShowMore(g) \/ RetryGroup(g)
    PROVE  CutsNow'
<1>1. /\ Cuts(srv, net, data, pages, muddled)
      /\ pages \in [Groups -> PageStates] /\ data \in Payloads /\ crit \in Criteria
      /\ \A r \in Of(net, "page") : r.group \in Groups
  BY PagesOfGroups DEF ExploreInv, TypeOK, Shape, CutsNow
<1> DEFINE p2 == [pages EXCEPT ![g] = EMPTY_PAGE]
<1>2. /\ p2 \in [Groups -> PageStates]
      /\ pages[g].failed => \A k \in Groups : p2[k] = pages[k] \/ (pages[k].failed /\ p2[k] = EMPTY_PAGE)
  BY <1>1, EmptyPageIs
<1> HIDE DEF p2
<1>3. CASE ToggleGroup(g)
  <2>1. CASE ~open[g] /\ pages[g].failed
    <3>1. Regrouped(p2, [open EXCEPT ![g] = ~@], net)
      BY <1>3, <2>1 DEF ToggleGroup, p2
    <3> QED BY <1>2, <2>1, <3>1, RegroupedCuts
  <2>2. CASE ~(~open[g] /\ pages[g].failed)
    <3>1. Regrouped(pages, [open EXCEPT ![g] = ~@], net)
      BY <1>3, <2>2 DEF ToggleGroup
    <3> QED BY <1>1, <3>1, RegroupedCuts
  <2> QED BY <2>1, <2>2
<1>4. CASE ShowMore(g)
  <2> DEFINE gs == {g}
             n2 == Asked(data, pages, crit, gs, net)
             p3 == Loading(pages, gs)
             gen == FALSE
  <2>1. /\ Regrouped(p3, open, n2) /\ pages[g].hasmore /\ ~pages[g].failed /\ ~pages[g].loading
    BY <1>4 DEF ShowMore
  <2>2. \A r : r \in n2 <=> \/ r \in net /\ ~(r.kind = "page" /\ r.group = g)
                            \/ r = Asking(data, pages, crit, g)
    BY DEF Asked, Stale, PagesOut, Of, Asking
  <2>3. /\ Asking(data, pages, crit, g).kind = "page" /\ Asking(data, pages, crit, g).group = g
        /\ Asking(data, pages, crit, g).state = "sent"
    BY <1>1, AskingIs
  <2>4. Rendered(data, p3, open, crit, applied, hits, n2, gen) /\ srv' = srv /\ muddled' = muddled
    BY <2>1 DEF Regrouped
  <2>5. p3 \in [Groups -> PageStates]
    BY <1>1, LoadingIs
  <2> HIDE DEF n2
  <2>6. AsksFor(gs, data, pages, crit, net, n2)
    BY <2>1, <2>2, <2>3 DEF AsksFor, Of
  <2>7. \A r \in Of(n2, "page") : r.group \in Groups
    BY <1>1, <2>2, <2>3 DEF Of
  <2> HIDE DEF gs, p3, gen
  <2>8. Cuts(srv, n2, data, p3, muddled)
    BY <1>1, <2>6, AskedCuts DEF p3
  <2> QED BY <2>4, <2>5, <2>7, <2>8, EndsInRender
<1>5. CASE RetryGroup(g)
  <2>1. Regrouped(p2, open, net) /\ pages[g].failed
    BY <1>5 DEF RetryGroup, p2
  <2> QED BY <1>2, <2>1, RegroupedCuts
<1> QED BY <1>3, <1>4, <1>5

\* The page as its group takes it, when nothing but one order stood behind all its pages.
LEMMA TakenCut ==
    ASSUME ExploreInv, CutsNow, NEW r \in Of(net, "page"), r.state = "served",
           NEW q, q = Paged(pages[r.group], r)
    PROVE  Begun(q) /\ PageCut(q, r.group, srv, muddled)
<1> DEFINE g == r.group
           page == pages[g]
<1>1. /\ r \in Pages /\ g \in Groups /\ page \in PageStates /\ IsServer(srv)
      /\ Begun(page) /\ PageCut(page, g, srv, muddled) /\ Continues(r, page, srv) /\ Waits(r, page)
  <2>1. r \in Pages /\ g \in Groups
    BY PagesOfGroups
  <2>2. pages \in [Groups -> PageStates] /\ IsServer(srv)
    BY DEF ExploreInv, TypeOK, Shape
  <2>3. Begun(page) /\ PageCut(page, g, srv, muddled) /\ Continues(r, page, srv)
    BY <2>1 DEF CutsNow, Cuts, CutInv
  <2>4. Waits(r, page)
    BY DEF ExploreInv, Sound, PagesInv
  <2> QED BY <2>1, <2>2, <2>3, <2>4
<1>2. q = Paged(page, r)
  OBVIOUS
<1> HIDE DEF page, g
<1>3. q.loaded /\ q.under = page.under \cup {Under(r)} /\ q.torn = page.torn
  <2>1. q.torn = page.torn
    BY <1>2 DEF Paged, EMPTY_PAGE
  <2> QED BY <1>1, <1>2, <2>1, PagedIs
<1>4. Begun(q)
  BY <1>3 DEF Begun
<1>5. ASSUME muddled = {}, ~q.torn, NEW a \in q.under, q.under = {a} PROVE Cut(q, g, a, srv)
  <2> DEFINE o == Ordered(g, a, srv)
  <2>1. a = Under(r) /\ (page.under = {} \/ page.under = {a})
    BY <1>3, <1>5
  <2>2. o = Ordered(g, r.args, srv)
    BY <1>1, <2>1, OrderedUnder
  <2>3. o \in Seq(Courses) /\ IsInjective(o)
    BY <1>1, OrderedIs
  <2>4. r.answer = ServerPage(g, r.args, srv) /\ r.args.after = page.after /\ r.before = Ids(page.rows)
    BY <1>1, <1>3, <1>5 DEF Continues, Waits, g
  <2> HIDE DEF o
  <2>5. \E k \in 0 .. Len(o) : /\ k # 0 => k < Len(o)
                               /\ page.rows = [i \in 1 .. k |-> Row(o[i], srv)]
                               /\ page.after = CursorAt(o, k)
    <3>1. CASE page.loaded
      <4>1. page.under = {a} /\ page.hasmore
        BY <1>1, <2>1, <3>1 DEF Begun, Continues
      <4>2. Cut(page, g, a, srv)
        BY <1>1, <1>3, <1>5, <4>1 DEF PageCut
      <4>3. PICK k \in 0 .. Len(o) : IsCut(page, o, srv, k)
        BY <4>2 DEF Cut, o
      <4> QED BY <4>1, <4>3, Zenon DEF IsCut
    <3>2. CASE ~page.loaded
      <4>1. page.rows = <<>> /\ page.after = "0"
        BY <1>1, <3>2 DEF Begun
      <4>2. 0 \in 0 .. Len(o) /\ CursorAt(o, 0) = "0" /\ [i \in 1 .. 0 |-> Row(o[i], srv)] = <<>>
        BY <2>3 DEF CursorAt
      <4> QED BY <4>1, <4>2
    <3> QED BY <3>1, <3>2
  <2>6. PICK k \in 0 .. Len(o) : /\ k # 0 => k < Len(o)
                                 /\ page.rows = [i \in 1 .. k |-> Row(o[i], srv)]
                                 /\ page.after = CursorAt(o, k)
    BY <2>5
  <2>7. o = Ordered(r.group, r.args, srv) /\ r.answer = ServerPage(r.group, r.args, srv)
    BY <2>2, <2>4 DEF g
  <2>8. \E u \in 0 .. Len(o) : IsCut(Paged(page, r), o, srv, u)
    <3>1. r \in Pages /\ page \in PageStates
      BY <1>1
    <3> DEFINE s == srv
    <3>2. /\ o = Ordered(r.group, r.args, s) /\ r.answer = ServerPage(r.group, r.args, s)
          /\ page.rows = [i \in 1 .. k |-> Row(o[i], s)]
      BY <2>6, <2>7
    <3> HIDE DEF s
    <3>3. \E u \in 0 .. Len(o) : IsCut(Paged(page, r), o, s, u)
      BY <2>3, <2>4, <2>6, <3>1, <3>2, PagedIsCut
    <3> QED BY <3>3 DEF s
  <2> QED BY <1>2, <2>8 DEF Cut, o
<1>6. PageCut(q, g, srv, muddled)
  BY <1>5 DEF PageCut
<1> QED BY <1>4, <1>6 DEF g

LEMMA PageAnswerCuts ==
    ASSUME ExploreInv, ExploreInv', CutsNow, NEW r \in net, PageAnswer(r)
    PROVE  CutsNow'
<1> DEFINE g == r.group
           q == IF r.state = "failed" THEN [pages[g] EXCEPT !.loading = FALSE, !.failed = TRUE] ELSE Paged(pages[g], r)
           p2 == [pages EXCEPT ![g] = q]
           n2 == net \ {r}
           gen == FALSE
<1>1. /\ r \in Of(net, "page") /\ r.state # "sent" /\ srv' = srv /\ muddled' = muddled
      /\ Rendered(data, p2, open, crit, applied, hits, n2, gen)
  <2>1. r \in Of(net, "page") /\ r.state # "sent"
    BY DEF PageAnswer
  <2>2. Regrouped(p2, open, n2)
    BY DEF PageAnswer
  <2> QED BY <2>1, <2>2 DEF Regrouped
<1>2. /\ r \in Pages /\ g \in Groups /\ pages[g] \in PageStates /\ r.state \in {"served", "failed"}
      /\ pages \in [Groups -> PageStates]
  <2>1. r \in Pages /\ g \in Groups
    BY <1>1, PagesOfGroups
  <2>2. pages \in [Groups -> PageStates]
    BY DEF ExploreInv, TypeOK, Shape
  <2> QED BY <1>1, <2>1, <2>2 DEF Pages, States
<1>3. q \in PageStates /\ Begun(q) /\ PageCut(q, g, srv, muddled)
  <2>1. CASE r.state = "failed"
    <3>1. q = [pages[g] EXCEPT !.loading = FALSE, !.failed = TRUE]
      BY <2>1
    <3> HIDE DEF q
    <3>2. q \in PageStates
      BY <1>2, <3>1 DEF PageStates
    <3>3. SamePage(q, pages[g])
      BY <1>2, <3>1 DEF PageStates, SamePage
    <3> QED BY <1>2, <3>2, <3>3, SamePageIsCut DEF CutsNow, Cuts, CutInv
  <2>2. CASE r.state = "served"
    <3>1. q = Paged(pages[g], r)
      BY <2>2
    <3> HIDE DEF q
    <3>2. q \in PageStates
      BY <1>2, <3>1, PagedIs
    <3> QED BY <1>1, <2>2, <3>1, <3>2, TakenCut
  <2> QED BY <1>2, <2>1, <2>2
<1> HIDE DEF q
<1>4. /\ p2 \in [Groups -> PageStates] /\ p2[g] = q /\ \A k \in Groups \ {g} : p2[k] = pages[k]
  BY <1>2, <1>3
<1>5. \A x \in Of(n2, "page") : x \in Of(net, "page") /\ x.group \in Groups /\ x.group # g
  <2>1. \A x \in Of(n2, "page") : x \in Of(net, "page") /\ x # r
    BY DEF Of
  <2>2. \A x \in Of(net, "page") : x.group = g => x = r
    BY <1>1 DEF ExploreInv, Sound, PagesInv
  <2> QED BY <2>1, <2>2, PagesOfGroups
<1>6. ModeKnown(n2, data)
  <2>1. \A x \in Of(n2, "inventory") : x \in net
    BY DEF Of
  <2> HIDE DEF n2
  <2> QED BY <2>1, ModeStays DEF CutsNow, Cuts
<1> HIDE DEF p2, n2, gen
<1>7. CutInv(srv, n2, p2, muddled)
  <2>1. \A k \in Groups : Begun(p2[k]) /\ PageCut(p2[k], k, srv, muddled)
    BY <1>3, <1>4 DEF CutsNow, Cuts, CutInv
  <2>2. \A x \in Of(n2, "page") : Continues(x, p2[x.group], srv)
    BY <1>4, <1>5 DEF CutsNow, Cuts, CutInv
  <2> QED BY <2>1, <2>2 DEF CutInv
<1>8. Cuts(srv, n2, data, p2, muddled) /\ \A x \in Of(n2, "page") : x.group \in Groups
  BY <1>5, <1>6, <1>7 DEF Cuts
<1> QED BY <1>1, <1>4, <1>8, EndsInRender

LEMMA InventoryAnswerCuts ==
    ASSUME ExploreInv, ExploreInv', CutsNow, NEW r \in net, InventoryAnswer(r)
    PROVE  CutsNow'
<1> DEFINE taken == r.state = "served"
           d == IF taken THEN [mode |-> r.answer.mode, groups |-> r.answer.groups, rows |-> r.answer.rows] ELSE data
           o == IF taken /\ r.first /\ d.mode = "full" /\ LISTED \in d.groups
                THEN [g \in Groups |-> g = LISTED] ELSE open
           n2 == net \ {r}
           gen == FALSE
<1>1. /\ r \in Of(net, "inventory") /\ srv' = srv /\ muddled' = muddled
      /\ Rendered(d, pages, o, crit, applied, hits, n2, gen)
  BY DEF InventoryAnswer
<1>2. ModeKnown(net, data) /\ pages \in [Groups -> PageStates]
  BY DEF CutsNow, Cuts, ExploreInv, TypeOK, Shape
<1>3. d.mode = "none" => d.groups = {}
  BY <1>1, <1>2 DEF ModeKnown
<1> HIDE DEF d, o
<1>4. (\A x \in Of(n2, "inventory") : x \in Of(net, "inventory")) /\ \A x \in Of(n2, "page") : x \in net
  BY DEF Of
<1> HIDE DEF n2, gen
<1>5. ModeKnown(n2, d)
  BY <1>2, <1>3, <1>4 DEF ModeKnown
<1> QED BY <1>1, <1>2, <1>4, <1>5, RenderOfFewer

LEMMA ReloadingIs ==
    ASSUME NEW first, NEW n
    PROVE  /\ Of(ReloadingInventory(first, n), "page") = Of(n, "page")
           /\ \A r \in Of(ReloadingInventory(first, n), "inventory") : r.answer = NoAnswer
BY DEF ReloadingInventory, Stale, Of, InventoryRequest

LEMMA RetriesCut ==
    ASSUME ExploreInv, ExploreInv', CutsNow, RetryInventory \/ RetrySearch \/ Online
    PROVE  CutsNow'
<1>1. ModeKnown(net, data) /\ pages \in [Groups -> PageStates] /\ \A r \in Of(net, "page") : r \in net
  BY DEF CutsNow, Cuts, ExploreInv, TypeOK, Shape, Of
<1>2. CASE RetryInventory
  <2> DEFINE first == TRUE
  <2>1. /\ net' = ReloadingInventory(first, net)
        /\ srv' = srv /\ pages' = pages /\ data' = data /\ muddled' = muddled
    BY <1>2 DEF RetryInventory
  <2> HIDE DEF first
  <2> QED BY <1>1, <2>1, ReloadingIs, PagesUntouched
<1>3. CASE RetrySearch
  <2> DEFINE gen == TRUE
  <2>1. Rendered(data, pages, open, crit, applied, hits, net, gen) /\ srv' = srv /\ muddled' = muddled
    BY <1>3 DEF RetrySearch
  <2> HIDE DEF gen
  <2> QED BY <1>1, <2>1, RenderOfFewer
<1>4. CASE Online
  <2> DEFINE first == TRUE
             p == [g \in Groups |-> IF pages[g].failed THEN EMPTY_PAGE ELSE pages[g]]
             n == IF failed THEN ReloadingInventory(first, net) ELSE net
  <2>1. Rendered(data, p, open, crit, applied, hits, n, searchfailed) /\ srv' = srv /\ muddled' = muddled
    BY <1>4 DEF Online
  <2>2. p \in [Groups -> PageStates] /\ \A g \in Groups : p[g] = IF pages[g].failed THEN EMPTY_PAGE ELSE pages[g]
    BY <1>1, EmptyPageIs
  <2> HIDE DEF first
  <2>3. /\ Of(n, "page") = Of(net, "page")
        /\ \A r \in Of(n, "inventory") : r \in net \/ r.answer = NoAnswer
    BY ReloadingIs DEF Of
  <2> HIDE DEF p, n
  <2>4. \A r \in Of(n, "page") : r \in net /\ p[r.group] = pages[r.group]
    BY <1>1, <2>2, <2>3, PagesOfGroups, FailedIsIdle
  <2>5. ModeKnown(n, data)
    BY <1>1, <2>3, ModeStays
  <2> QED BY <2>1, <2>2, <2>4, <2>5, RenderOfFewer
<1> QED BY <1>2, <1>3, <1>4

\* A star the rows show already changes none of them.
IsStarOf(fav, x, s) == x \in Courses => fav = (x \in s.fav)

LEMMA PatchedSame ==
    ASSUME NEW s, NEW o \in Seq(Courses), NEW k \in 0 .. Len(o), NEW x, NEW fav, IsStarOf(fav, x, s),
           NEW rows, rows = [i \in 1 .. k |-> Row(o[i], s)]
    PROVE  Patched(rows, x, fav) = rows
<1>1. \A i \in 1 .. k : o[i] \in Courses
  OBVIOUS
<1>2. \A c : Row(c, s) = [id |-> c, fav |-> c \in s.fav]
  BY DEF Row
<1>3. DOMAIN rows = 1 .. k /\ \A i \in 1 .. k : rows[i] = Row(o[i], s)
  OBVIOUS
<1>4. ASSUME NEW i \in 1 .. k, rows[i].id = x PROVE [rows[i] EXCEPT !.fav = fav] = rows[i]
  <2> DEFINE now == x \in s.fav
  <2>1. rows[i] = [id |-> x, fav |-> now] /\ fav = now
    BY <1>1, <1>2, <1>3, <1>4 DEF IsStarOf
  <2> HIDE DEF now
  <2> QED BY <2>1
<1>5. Patched(rows, x, fav) = [i \in 1 .. k |-> rows[i]]
  BY <1>3, <1>4 DEF Patched
<1>6. rows = [i \in 1 .. k |-> rows[i]]
  BY <1>3
<1> QED BY <1>5, <1>6

LEMMA PatchedNone == \A x, fav : Patched(<<>>, x, fav) = <<>>
BY DEF Patched

LEMMA StarAnswerCuts ==
    ASSUME ExploreInv, ExploreInv', CutsNow, NEW r \in net, StarAnswer(r)
    PROVE  CutsNow'
<1> DEFINE n2 == net \ {r}
           gen == FALSE
<1>1. /\ r.kind = "star" /\ r \in Of(net, "star") /\ srv' = srv /\ muddled' = muddled
      /\ ModeKnown(net, data) /\ pages \in [Groups -> PageStates] /\ IsRequest(r)
  BY DEF StarAnswer, Of, CutsNow, Cuts, ExploreInv, TypeOK, Shape
<1>2. (\A x \in Of(n2, "page") : x \in net /\ x \in Of(net, "page")) /\ \A x \in Of(n2, "inventory") : x \in net
  BY DEF Of
<1>3. ModeKnown(n2, data)
  <2> HIDE DEF n2
  <2> QED BY <1>1, <1>2, ModeStays
<1>4. CASE r.state # "served"
  <2>1. Rendered(data, pages, open, crit, applied, hits, n2, gen)
    BY <1>4 DEF StarAnswer
  <2> HIDE DEF n2, gen
  <2> QED BY <1>1, <1>2, <1>3, <2>1, RenderOfFewer
<1>5. CASE r.state = "served"
  <2> DEFINE x == r.course
             fav == r.fav
             d == [data EXCEPT !.rows = Patched(@, x, fav)]
             p == [g \in Groups |-> [pages[g] EXCEPT !.rows = Patched(@, x, fav)]]
             h == [hits EXCEPT !.rows = Patched(@, x, fav)]
  <2>1. Rendered(d, p, open, crit, applied, h, n2, gen)
    BY <1>5 DEF StarAnswer, withRow
  <2>2. Shape(n2, d, p, open, crit, applied, h)
    BY <1>1, <1>5, StarWrittenKeeps
  <2>3. ModeKnown(n2, d)
    <3>1. d.mode = data.mode /\ d.groups = data.groups
      BY DEF ExploreInv, TypeOK, Shape, Payloads
    <3> QED BY <1>3, <3>1 DEF ModeKnown
  <2>4. \A g \in Groups : /\ p[g].rows = Patched(pages[g].rows, x, fav)
                          /\ p[g].after = pages[g].after /\ p[g].hasmore = pages[g].hasmore
                          /\ p[g].loaded = pages[g].loaded /\ p[g].under = pages[g].under /\ p[g].torn = pages[g].torn
    BY <1>1 DEF PageStates
  <2>5. muddled = {} => IsStarOf(fav, x, srv)
    <3>1. r \in StarsOf(net, x)
      BY <1>1 DEF StarsOf
    <3> QED BY <1>5, <3>1 DEF ExploreInv, Sound, StarInv, IsStarOf
  <2> HIDE DEF n2, d, p, h, gen, x, fav
  <2>6. ASSUME NEW g \in Groups PROVE Begun(p[g]) /\ PageCut(p[g], g, srv, muddled)
    <3>1. Begun(pages[g]) /\ PageCut(pages[g], g, srv, muddled)
      BY DEF CutsNow, Cuts, CutInv
    <3>2. pages[g].rows = <<>> => p[g].rows = <<>>
      BY <2>4, PatchedNone
    <3>3. Begun(p[g])
      BY <2>4, <3>1, <3>2 DEF Begun
    <3>4. ASSUME muddled = {}, ~p[g].torn, NEW a \in p[g].under, p[g].under = {a} PROVE Cut(p[g], g, a, srv)
      <4> DEFINE o == Ordered(g, a, srv)
      <4>1. Cut(pages[g], g, a, srv)
        BY <2>4, <3>1, <3>4 DEF PageCut
      <4>2. PICK k \in 0 .. Len(o) : IsCut(pages[g], o, srv, k)
        BY <4>1 DEF Cut
      <4>3. o \in Seq(Courses)
        BY OrderedIs DEF ExploreInv, TypeOK
      <4> HIDE DEF o
      <4> DEFINE rows == pages[g].rows
      <4>4. rows = [i \in 1 .. k |-> Row(o[i], srv)]
        BY <4>2 DEF IsCut
      <4> HIDE DEF rows
      <4>5. Patched(rows, x, fav) = rows
        BY <2>5, <3>4, <4>3, <4>4, PatchedSame
      <4>6. IsCut(p[g], o, srv, k)
        BY <2>4, <4>2, <4>5 DEF IsCut, rows
      <4> QED BY <4>6 DEF Cut, o
    <3>5. PageCut(p[g], g, srv, muddled)
      BY <3>4 DEF PageCut
    <3> QED BY <3>3, <3>5
  <2>7. \A y \in Of(n2, "page") : Continues(y, p[y.group], srv) /\ y.group \in Groups
    BY <1>2, <2>4, PagesOfGroups DEF CutsNow, Cuts, CutInv, Continues
  <2>8. Cuts(srv, n2, d, p, muddled) /\ p \in [Groups -> PageStates]
    BY <2>2, <2>3, <2>6, <2>7 DEF Cuts, CutInv, Shape
  <2> QED BY <1>1, <2>1, <2>7, <2>8, EndsInRender
<1> QED BY <1>4, <1>5

\* The writes a press sends, and what reads no page.
LEMMA OthersCut ==
    ASSUME ExploreInv, CutsNow,
           \/ \E g \in Groups : Archive(g) \/ ToggleFavourite(g)
           \/ ToggleInTier1 \/ ArchiveAll \/ Dialogue \/ (\E yes \in BOOLEAN : Confirm(yes)) \/ Type \/ UNCHANGED vars
           \/ \E r \in net : SearchAnswer(r)
    PROVE  CutsNow'
<1> DEFINE Sent(n) == \A r \in n : r \in net \/ r.kind \in {"star", "archive"}
           Quiet == srv' = srv /\ pages' = pages /\ data' = data /\ muddled \subseteq muddled' /\ Sent(net')
<1>1. \A c, fav, tier : Starring(c, fav, tier) => Quiet
  BY DEF Starring, StarRequest
<1>2. \A cs, archived : Archiving(cs, archived) => Quiet
  BY DEF Archiving, ArchiveRequest
<1>3. CASE \E g \in Groups : Archive(g)
  <2>1. \E cs, archived : Archiving(cs, archived)
    BY <1>3, Zenon DEF Archive
  <2> HIDE DEF Quiet
  <2>2. Quiet
    BY <1>2, <2>1
  <2> QED BY <2>2, PagesUntouched DEF Quiet, Of
<1>4. CASE (\E g \in Groups : ToggleFavourite(g)) \/ ToggleInTier1
  <2>1. \E c, fav, tier : Starring(c, fav, tier)
    BY <1>4, Zenon DEF ToggleFavourite, ToggleInTier1
  <2> HIDE DEF Quiet
  <2>2. Quiet
    BY <1>1, <2>1
  <2> QED BY <2>2, PagesUntouched DEF Quiet, Of
<1>5. CASE \E yes \in BOOLEAN : Confirm(yes)
  <2> HIDE DEF Quiet
  <2>1. (\E cs, archived : Archiving(cs, archived)) \/ UNCHANGED <<srv, net, data, pages, muddled>>
    BY <1>5 DEF Confirm
  <2>2. CASE \E cs, archived : Archiving(cs, archived)
    <3>1. Quiet
      BY <1>2, <2>2
    <3> QED BY <3>1, PagesUntouched DEF Quiet, Of
  <2>3. CASE UNCHANGED <<srv, net, data, pages, muddled>>
    BY <2>3, PagesUntouched DEF Of
  <2> QED BY <2>1, <2>2, <2>3
<1>6. CASE ArchiveAll \/ Dialogue \/ Type \/ UNCHANGED vars
  <2>1. UNCHANGED <<srv, net, data, pages, muddled>>
    BY <1>6 DEF ArchiveAll, Dialogue, Type, vars
  <2> QED BY <2>1, PagesUntouched DEF Of
<1>7. CASE \E r \in net : SearchAnswer(r)
  <2>1. UNCHANGED <<srv, data, pages, muddled>> /\ net' \subseteq net
    BY <1>7 DEF SearchAnswer
  <2> QED BY <2>1, PagesUntouched DEF Of
<1> QED BY <1>3, <1>4, <1>5, <1>6, <1>7

LEMMA ArchiveAnswerCuts ==
    ASSUME ExploreInv, ExploreInv', CutsNow, NEW r \in net, ArchiveAnswer(r)
    PROVE  CutsNow'
<1> DEFINE first == FALSE
           gen == TRUE
           rest == Reset(net \ {r})
           n == ReloadingInventory(first, rest)
<1>1. Rendered(data, NoPages, open, crit, applied, hits, n, gen) /\ srv' = srv /\ muddled' = muddled
  BY DEF ArchiveAnswer
<1>2. Of(rest, "page") = {}
  BY ResetIs
<1> HIDE DEF first, gen, rest
<1>3. Of(n, "page") = {} /\ \A x \in Of(n, "inventory") : x.answer = NoAnswer
  BY <1>2, ReloadingIs
<1> HIDE DEF n
<1>4. ModeKnown(n, data)
  BY <1>3, ModeStays DEF CutsNow, Cuts
<1> QED BY <1>1, <1>3, <1>4, NoPagesAre, NoPagesIs, RenderOfFewer

\* A change of the server's tears every page that is held or on its way, and an answer is the server's of that step.
LEMMA ServedCuts ==
    ASSUME ExploreInv, CutsNow, NEW s, NEW n, Served(s, n), ModeKnown(n, data),
           \A y \in Of(n, "page") : \E r \in Of(net, "page") :
              /\ y.group = r.group /\ y.args = r.args
              /\ y.state = "served" => y = r \/ (s = srv /\ y.answer = ServerPage(r.group, r.args, srv))
    PROVE  CutsNow'
<1>1. srv' = s /\ net' = n /\ data' = data
  BY DEF Served
<1>2. /\ \A g \in Groups : Begun(pages[g]) /\ PageCut(pages[g], g, srv, muddled)
      /\ \A r \in Of(net, "page") : r.group \in Groups /\ Continues(r, pages[r.group], srv) /\ pages[r.group].loading
      /\ \A g \in Groups : pages[g] \in PageStates
  BY PagesOfGroups DEF CutsNow, Cuts, CutInv, ExploreInv, Sound, PagesInv, Waits, TypeOK, Shape
<1>3. CASE s = srv
  <2>1. pages' = pages /\ muddled' = muddled
    BY <1>3 DEF Served
  <2>2. ASSUME NEW y \in Of(n, "page") PROVE Continues(y, pages[y.group], srv)
    <3>1. PICK r \in Of(net, "page") :
             /\ y.group = r.group /\ y.args = r.args
             /\ y.state = "served" => y = r \/ y.answer = ServerPage(r.group, r.args, srv)
      OBVIOUS
    <3>2. Continues(r, pages[r.group], srv)
      BY <1>2
    <3> QED BY <3>1, <3>2 DEF Continues
  <2> QED BY <1>1, <1>2, <1>3, <2>1, <2>2 DEF CutsNow, Cuts, CutInv
<1>4. CASE s # srv
  <2>1. /\ muddled \subseteq muddled'
        /\ pages' = [g \in Groups |->
              IF pages[g].loaded \/ pages[g].loading THEN [pages[g] EXCEPT !.torn = TRUE] ELSE pages[g]]
    BY <1>4 DEF Served, Crossing
  <2>2. ASSUME NEW g \in Groups
        PROVE  IF pages[g].loaded \/ pages[g].loading
               THEN /\ pages'[g].torn /\ pages'[g].rows = pages[g].rows /\ pages'[g].after = pages[g].after
                    /\ pages'[g].hasmore = pages[g].hasmore /\ pages'[g].loaded = pages[g].loaded
                    /\ pages'[g].under = pages[g].under
               ELSE pages'[g] = pages[g]
    BY <1>2, <2>1 DEF PageStates
  <2>3. ASSUME NEW g \in Groups PROVE Begun(pages'[g]) /\ PageCut(pages'[g], g, s, muddled')
    <3>1. CASE pages[g].loaded \/ pages[g].loading
      BY <1>2, <2>2, <3>1 DEF Begun, PageCut
    <3>2. CASE ~(pages[g].loaded \/ pages[g].loading)
      BY <1>2, <2>2, <3>2 DEF Begun, PageCut
    <3> QED BY <3>1, <3>2
  <2>4. ASSUME NEW y \in Of(n, "page") PROVE Continues(y, pages'[y.group], s)
    <3>1. PICK r \in Of(net, "page") : y.group = r.group /\ y.args = r.args
      OBVIOUS
    <3>2. r.group \in Groups /\ Continues(r, pages[r.group], srv) /\ pages[r.group].loading
      BY <1>2
    <3> QED BY <2>2, <3>1, <3>2 DEF Continues
  <2> QED BY <1>1, <2>3, <2>4 DEF CutsNow, Cuts, CutInv
<1> QED BY <1>3, <1>4

LEMMA ServeCuts ==
    ASSUME ExploreInv, CutsNow, NEW r \in net, Serve(r)
    PROVE  CutsNow'
<1> DEFINE q == Answered(r)
           s == Written(r)
           n == (net \ {r}) \cup {q}
<1>1. Served(s, n) /\ IsRequest(r) /\ ModeKnown(net, data)
  BY DEF Serve, ExploreInv, TypeOK, Shape, CutsNow, Cuts
<1>2. q.kind = r.kind
  <2>1. \/ r.kind = "inventory" /\ r \in Inventories
        \/ r.kind = "search" /\ r \in Searches
        \/ r.kind = "page" /\ r \in Pages
        \/ r.kind = "star" /\ IsStar(r)
        \/ r.kind = "archive" /\ IsArchive(r)
    BY <1>1 DEF IsRequest, Inventories, Searches, Pages, IsStar, IsArchive
  <2> QED BY <2>1 DEF Answered, Inventories, Searches, Pages, IsStar, IsArchive
<1>3. r.kind = "inventory" => q.answer = ServerInventory(srv)
  <2> SUFFICES ASSUME r.kind = "inventory" PROVE q.answer = ServerInventory(srv)
    OBVIOUS
  <2>1. r \in Inventories
    BY <1>1, KindIs
  <2>2. q = [r EXCEPT !.state = "served", !.answer = ServerInventory(srv)]
    BY DEF Answered
  <2> HIDE DEF q
  <2> QED BY <2>1, <2>2 DEF Inventories
<1>4. r.kind = "page" => /\ q.group = r.group /\ q.args = r.args /\ q.answer = ServerPage(r.group, r.args, srv)
                         /\ s = srv
  <2> SUFFICES ASSUME r.kind = "page"
               PROVE  q.group = r.group /\ q.args = r.args /\ q.answer = ServerPage(r.group, r.args, srv) /\ s = srv
    OBVIOUS
  <2>1. r \in Pages
    BY <1>1, KindIs
  <2>2. q = [r EXCEPT !.state = "served", !.answer = ServerPage(r.group, r.args, srv)]
    BY DEF Answered
  <2>3. s = srv
    BY DEF Written
  <2> HIDE DEF q
  <2> QED BY <2>1, <2>2, <2>3 DEF Pages
<1>5. ServerInventory(srv).mode # "none"
  BY DEF ServerInventory, NoAnswer
<1> HIDE DEF q, s
<1>6. ModeKnown(n, data)
  <2>1. \A y \in Of(n, "inventory") : y \in Of(net, "inventory") \/ y.answer.mode # "none"
    BY <1>2, <1>3, <1>5 DEF Of
  <2> QED BY <1>1, <2>1 DEF ModeKnown
<1>7. \A y \in Of(n, "page") : \E x \in Of(net, "page") :
         /\ y.group = x.group /\ y.args = x.args
         /\ y.state = "served" => y = x \/ (s = srv /\ y.answer = ServerPage(x.group, x.args, srv))
  BY <1>2, <1>4 DEF Of
<1> QED BY <1>1, <1>6, <1>7, ServedCuts

LEMMA FailCuts ==
    ASSUME ExploreInv, CutsNow, NEW r \in net, Fail(r)
    PROVE  CutsNow'
<1> DEFINE q == [r EXCEPT !.state = "failed"]
           n == (net \ {r}) \cup {q}
<1>1. (\E s : Served(s, n)) /\ IsRequest(r) /\ ModeKnown(net, data)
  BY DEF Fail, ExploreInv, TypeOK, Shape, CutsNow, Cuts
<1>2. q.kind = r.kind /\ q.state = "failed"
  <2>1. \/ r.kind = "inventory" /\ r \in Inventories
        \/ r.kind = "search" /\ r \in Searches
        \/ r.kind = "page" /\ r \in Pages
        \/ r.kind = "star" /\ IsStar(r)
        \/ r.kind = "archive" /\ IsArchive(r)
    BY <1>1 DEF IsRequest, Inventories, Searches, Pages, IsStar, IsArchive
  <2> QED BY <2>1 DEF Inventories, Searches, Pages, IsStar, IsArchive
<1>3. r.kind = "inventory" => q.answer = r.answer
  BY <1>1, KindIs DEF Inventories
<1>4. r.kind = "page" => q.group = r.group /\ q.args = r.args
  BY <1>1, KindIs DEF Pages
<1> HIDE DEF q
<1>5. ModeKnown(n, data)
  BY <1>1, <1>2, <1>3 DEF ModeKnown, Of
<1>6. \A y \in Of(n, "page") : \E x \in Of(net, "page") :
         /\ y.group = x.group /\ y.args = x.args
         /\ y.state = "served" => y = x
  BY <1>2, <1>4 DEF Of
<1> QED BY <1>1, <1>5, <1>6, ServedCuts

LEMMA ElsewhereCuts ==
    ASSUME ExploreInv, CutsNow, Elsewhere
    PROVE  CutsNow'
<1>1. (\E s : Served(s, net)) /\ ModeKnown(net, data)
  BY DEF Elsewhere, CutsNow, Cuts
<1> QED BY <1>1, ServedCuts

LEMMA MountCuts == Init => CutsNow
<1> SUFFICES ASSUME Init PROVE CutsNow
  OBVIOUS
<1>1. pages = NoPages /\ data.groups = {} /\ \A r \in net : r.kind = "inventory" /\ r.answer = NoAnswer
  <2> DEFINE first == TRUE
  <2>1. net = {InventoryRequest(first)}
    BY DEF Init
  <2>2. InventoryRequest(first).kind = "inventory" /\ InventoryRequest(first).answer = NoAnswer
    BY DEF InventoryRequest
  <2> HIDE DEF first
  <2>3. pages = NoPages
    BY DEF Init, NoPages
  <2>4. data.groups = {}
    BY Zenon DEF Init
  <2> QED BY <2>1, <2>2, <2>3, <2>4
<1>2. ModeKnown(net, data)
  BY <1>1 DEF ModeKnown, Of, NoAnswer
<1>3. CutInv(srv, net, pages, muddled)
  BY <1>1, NoPagesIs, EmptyIsCut DEF CutInv, Of
<1> QED BY <1>2, <1>3 DEF CutsNow, Cuts

LEMMA StepCuts == ExploreInv /\ ExploreInv' /\ CutsNow /\ [Next]_vars => CutsNow'
<1> SUFFICES ASSUME ExploreInv, ExploreInv', CutsNow, [Next]_vars PROVE CutsNow'
  OBVIOUS
<1>1. CASE ChooseCriteria \/ (\E chip \in Chips : PressLink(chip)) \/ ChooseSelection \/ ChooseSort \/ Clear \/ Settle
  BY <1>1, CriteriaCut
<1>2. CASE \E g \in Groups : ToggleGroup(g) \/ ShowMore(g) \/ RetryGroup(g)
  BY <1>2, GroupsCut
<1>3. CASE OpenIndexed
  BY <1>3, IndexToggles, GroupsCut
<1>4. CASE RetryInventory \/ RetrySearch \/ Online
  BY <1>4, RetriesCut
<1>5. CASE \E g \in Groups : Archive(g) \/ ToggleFavourite(g)
  BY <1>5, OthersCut
<1>6. CASE ToggleInTier1 \/ ArchiveAll \/ Dialogue \/ (\E yes \in BOOLEAN : Confirm(yes)) \/ Type \/ UNCHANGED vars
  BY <1>6, OthersCut
<1>7. CASE \E r \in net : Serve(r) \/ Fail(r)
  BY <1>7, ServeCuts, FailCuts
<1>8. CASE Elsewhere
  BY <1>8, ElsewhereCuts
<1>9. CASE Answer
  BY <1>9, PageAnswerCuts, OthersCut, InventoryAnswerCuts, StarAnswerCuts, ArchiveAnswerCuts DEF Answer
<1> QED BY <1>1, <1>2, <1>3, <1>4, <1>5, <1>6, <1>7, <1>8, <1>9 DEF Next

\* What is held of a group is the head of the server's list, as far as one order and one set of criteria reach.
THEOREM PagesFollowOneOrder == Spec => []CutsNow
<1>1. Init => CutsNow
  BY MountCuts
<1>2. ExploreInv /\ ExploreInv' /\ CutsNow /\ [Next]_vars => CutsNow'
  BY StepCuts
<1> QED BY <1>1, <1>2, ExploreInvariant, PTL DEF Spec

\* The rows are those of base cut by L, and to cut the rows by S is to cut the courses by C: by both, by K.
CutsBy(rows, S, C, s, base, L, K) ==
    /\ rows = RowsFor(InOrder(base, L), s)
    /\ \A i \in DOMAIN rows : rows[i] \in S <=> rows[i].id \in C
    /\ \A c \in Courses : c \in K <=> c \in L /\ c \in C

\* A complete head of a list is the list, and the rows kept of it are those of the courses kept of what it was cut from.
LEMMA KeptOfWhole ==
    ASSUME NEW base \in Seq(Courses), NEW L, NEW s, NEW C, NEW S, NEW K, NEW rows, CutsBy(rows, S, C, s, base, L, K)
    PROVE  IdsOf(InOrder(rows, S)) = InOrder(base, K)
<1> DEFINE o == InOrder(base, L)
<1>1. o \in Seq(Courses)
  BY InOrderKeeps
<1>2. rows = RowsFor(o, s)
  BY DEF CutsBy
<1> HIDE DEF o
<1>3. \A i \in 1 .. Len(o) : rows[i] \in S <=> o[i] \in C
  <2>1. DOMAIN rows = 1 .. Len(o) /\ \A i \in 1 .. Len(o) : rows[i].id = o[i]
    BY <1>2 DEF Row, RowsFor
  <2>2. \A i \in 1 .. Len(o) : o[i] \in Courses
    BY <1>1
  <2> QED BY <2>1, <2>2 DEF CutsBy
<1>4. IdsOf(InOrder(rows, S)) = InOrder(o, C)
  BY <1>1, <1>2, <1>3, RowsCut
<1>5. InOrder(o, C) = InOrder(base, L \cap C)
  BY CutTwice DEF o
<1>6. InOrder(base, L \cap C) = InOrder(base, K)
  BY CutAlike DEF CutsBy
<1> QED BY <1>4, <1>5, <1>6

\* A group drawn to its end, the server's order never having moved under it, draws exactly the courses that the
\* server's records put in it under everything the toolbar and the search have in force: the browser's filters over
\* the server's lose no course and keep none too many.
THEOREM DrawnGroupsAreWhole == Spec => []DrawnGroupIsWhole
<1>1. ExploreInv /\ CutsNow => DrawnGroupIsWhole
  <2> SUFFICES ASSUME ExploreInv, CutsNow, NEW g \in Groups,
                      drawn(g), pagedgroup(data, g), complete(g), ~pages[g].torn, muddled = {},
                      \A a \in pages[g].under : a.mode = data.mode
               PROVE  IdsOf(slices(g).rows) =
                          InOrder(IF data.mode = "paged" /\ crit.sort = "recent" THEN srv.recent ELSE NameOrder,
                                  {c \in Members(g, srv) : /\ keptBy(crit, Row(c, srv))
                                                           /\ crit.sel => c \in Selected
                                                           /\ data.mode = "full" => HoldsWords(c, applied)})
    BY Zenon DEF DrawnGroupIsWhole, IdsOf
  <2> DEFINE rows == pages[g].rows
             a == PageArgs(data.mode, crit, "0")
             base == IF a.sort = "recent" THEN srv.recent ELSE NameOrder
             L == {c \in Members(g, srv) : PassesChip(a.chip, Row(c, srv)) /\ (a.sel => c \in Selected)}
             K == {c \in Members(g, srv) : /\ keptBy(crit, Row(c, srv))
                                           /\ crit.sel => c \in Selected
                                           /\ data.mode = "full" => HoldsWords(c, applied)}
  <2>1. /\ data.mode \in Modes /\ IsServer(srv) /\ pages[g].loaded /\ ~pages[g].hasmore
    BY DEF ExploreInv, TypeOK, Shape, Payloads, complete
  <2>2. base \in Seq(Courses)
    BY <2>1, CoursesAssumption DEF IsServer, CoursesAssumption
  <2>3. rows = RowsFor(InOrder(base, L), srv)
    <3> DEFINE o == Ordered(g, a, srv)
    <3>1. pages[g].under # {} /\ \A b \in pages[g].under : b = a
      BY <2>1 DEF CutsNow, Cuts, CutInv, Begun, ExploreInv, Sound, UnderInv, InForce
    <3> HIDE DEF a
    <3>2. a \in pages[g].under /\ pages[g].under = {a}
      BY <3>1
    <3>3. Cut(pages[g], g, a, srv)
      BY <3>2 DEF CutsNow, Cuts, CutInv, PageCut
    <3>4. PICK k \in 0 .. Len(o) : IsCut(pages[g], o, srv, k)
      BY <3>3 DEF Cut
    <3>5. o \in Seq(Courses)
      BY <2>1, OrderedIs
    <3>6. o = InOrder(base, L)
      BY DEF Ordered
    <3> HIDE DEF o, base, L
    <3>7. k = Len(o)
      <4>1. pages[g].hasmore = (k < Len(o))
        BY <3>4 DEF IsCut
      <4>2. ~(k < Len(o))
        BY <2>1, <4>1
      <4>3. Len(o) \in Nat
        BY <3>5
      <4> QED BY <4>2, <4>3
    <3> QED BY <3>4, <3>6, <3>7 DEF IsCut, RowsFor
  <2>4. \A i \in DOMAIN rows : rows[i] \in ToSet(rows) /\ rows[i] = Row(rows[i].id, srv)
    <3>1. \A c : Row(c, srv).id = c
      BY DEF Row
    <3> HIDE DEF base, L, rows
    <3> QED BY <2>3, <3>1 DEF ToSet, RowsFor
  <2>5. CASE data.mode = "none"
    BY <2>5 DEF drawn, CutsNow, Cuts, ModeKnown
  <2>6. CASE data.mode = "paged"
    <3> DEFINE S == {row \in ToSet(rows) : keptBy(crit, row) /\ ~keepsnothing(crit)}
               C == {c \in Courses : keptBy(crit, Row(c, srv))}
               show == ~keepsnothing(crit)
    <3>1. slices(g) = [rows |-> InOrder(rows, S), show |-> show]
      BY <2>6 DEF slices, pagedgroup
    <3>2. slices(g).rows = InOrder(rows, S) /\ ~keepsnothing(crit)
      <4> HIDE DEF S, show
      <4>1. slices(g).rows = InOrder(rows, S) /\ slices(g).show = show
        BY <3>1
      <4> QED BY <4>1 DEF drawn, show
    <3>3. /\ a.chip = serverchip(crit) /\ a.sel = crit.sel /\ (a.sort = "recent") = (crit.sort = "recent")
      BY <2>6 DEF PageArgs
    <3>4. base = IF data.mode = "paged" /\ crit.sort = "recent" THEN srv.recent ELSE NameOrder
      <4> HIDE DEF a
      <4> QED BY <2>6, <3>3
    <3>5. \A row : keptBy(crit, row) => PassesChip(serverchip(crit), row)
      BY DEF keptBy, serverchip
    <3>6. \A c \in Courses : c \in K <=> c \in L /\ c \in C
      <4> HIDE DEF a
      <4> QED BY <2>6, <3>3, <3>5
    <3>7. \A i \in DOMAIN rows : rows[i].id \in Courses
      <4>1. rows \in Seq(Rows)
        BY DEF ExploreInv, TypeOK, Shape, PageStates
      <4> HIDE DEF rows
      <4>2. \A i \in DOMAIN rows : rows[i] \in Rows
        BY <4>1
      <4> QED BY <4>2 DEF Rows
    <3>8. \A i \in DOMAIN rows : rows[i] \in S <=> rows[i].id \in C
      <4> HIDE DEF rows
      <4> QED BY <2>4, <3>2, <3>7
    <3> HIDE DEF rows, base, L, K, S, C
    <3>9. IdsOf(InOrder(rows, S)) = InOrder(base, K)
      <4>1. CutsBy(rows, S, C, srv, base, L, K)
        BY <2>3, <3>6, <3>8 DEF CutsBy
      <4> QED BY <2>2, <4>1, KeptOfWhole
    <3> QED BY <3>2, <3>4, <3>9 DEF K
  <2>7. CASE data.mode = "full"
    <3> DEFINE S == {row \in ToSet(rows) : passesRow(row)}
               C == {c \in Courses : /\ keptBy(crit, Row(c, srv)) /\ (crit.sel => c \in Selected)
                                     /\ HoldsWords(c, applied)}
    <3>1. g = ARCHIVED
      BY <2>7 DEF pagedgroup
    <3>2. slices(g).rows = InOrder(rows, S)
      <4>1. slices(g) = [rows |-> archivedvisible, show |-> TRUE]
        BY <2>7 DEF slices
      <4>2. archivedvisible = InOrder(rows, S)
        BY <2>7, <3>1 DEF archivedvisible
      <4> QED BY <4>1, <4>2
    <3>3. a.chip = "all" /\ a.sel = FALSE /\ a.sort = "name"
      BY <2>7 DEF PageArgs
    <3>4. base = IF data.mode = "paged" /\ crit.sort = "recent" THEN srv.recent ELSE NameOrder
      <4> HIDE DEF a
      <4> QED BY <2>7, <3>3
    <3>5. \A row : PassesChip("all", row)
      BY DEF PassesChip
    <3>6. \A c \in Courses : c \in K <=> c \in L /\ c \in C
      <4> HIDE DEF a
      <4> QED BY <2>7, <3>3, <3>5
    <3>7. \A i \in DOMAIN rows : rows[i].id \in Courses
      <4>1. rows \in Seq(Rows)
        BY DEF ExploreInv, TypeOK, Shape, PageStates
      <4> HIDE DEF rows
      <4>2. \A i \in DOMAIN rows : rows[i] \in Rows
        BY <4>1
      <4> QED BY <4>2 DEF Rows
    <3>8. \A i \in DOMAIN rows : rows[i] \in S <=> rows[i].id \in C
      <4> HIDE DEF rows
      <4> QED BY <2>4, <3>7 DEF passesRow
    <3> HIDE DEF rows, base, L, K, S, C
    <3>9. IdsOf(InOrder(rows, S)) = InOrder(base, K)
      <4>1. CutsBy(rows, S, C, srv, base, L, K)
        BY <2>3, <3>6, <3>8 DEF CutsBy
      <4> QED BY <2>2, <4>1, KeptOfWhole
    <3> QED BY <3>2, <3>4, <3>9 DEF K
  <2> QED BY <2>1, <2>5, <2>6, <2>7 DEF Modes
<1> QED BY <1>1, ExploreInvariant, PagesFollowOneOrder, PTL

=============================================================================

------------------------- MODULE SharedLayersProofs -------------------------
(***************************************************************************)
(* What the run of SharedLayers checks on two requests and one small tree, *)
(* for any number of requests, courses and categories.                     *)
(*                                                                         *)
(* An entry is on its way from a statement to the cache in a request's     *)
(* hand, and both are claimed the same thing; a delete takes the cached    *)
(* ones of its keys away and marks the others late, which is why a key is  *)
(* claimed nothing while the change that is to delete it is under way.     *)
(***************************************************************************)
EXTENDS SharedLayers, FiniteSetTheorems, WellFoundedInduction, TLAPS

(***************************************************************************)
(* Trees.  What PathOf() computes, over any tree of categories: the        *)
(* induction is on the least rank a counterexample has.                    *)
(***************************************************************************)

\* A set of naturals has a least element.
LEMMA LeastNatural == ASSUME NEW T, T \subseteq Nat, T # {} PROVE \E x \in T : \A y \in T : x <= y
<1> DEFINE less == {p \in Nat \X Nat : p[1] < p[2]}
<1>1. IsWellFoundedOn(less, Nat)
  BY NatLessThanWellFounded DEF OpToRel
<1>2. PICK x \in T : \A y \in T : <<y, x>> \notin less
  <2> HIDE DEF less
  <2> QED BY <1>1, WFMin
<1>3. ASSUME NEW y \in T PROVE x <= y
  <2>1. <<y, x>> \in Nat \X Nat /\ ~(y < x)
    BY <1>2, <1>3
  <2> QED BY <2>1
<1> QED BY <1>3

LEMMA Induction == ASSUME NEW S, 0 \in S, \A n \in Nat : n \in S => n + 1 \in S PROVE Nat \subseteq S
<1> DEFINE T == Nat \ S
<1> SUFFICES ASSUME T # {} PROVE FALSE
  OBVIOUS
<1>1. PICK x \in T : \A y \in T : x <= y
  <2> HIDE DEF T
  <2>1. T \subseteq Nat
    BY DEF T
  <2> QED BY <2>1, LeastNatural
<1>2. x # 0 /\ x - 1 \in Nat /\ x - 1 \notin T
  BY <1>1
<1>3. x - 1 \in S /\ (x - 1) + 1 = x
  BY <1>2
<1> QED BY <1>2, <1>3

\* The ranks may be any, up to a bound.
Forest(up) ==
    /\ up = [k \in DOMAIN up |-> up[k]] /\ Top \notin DOMAIN up
    /\ \E M \in Nat : \E rank \in [DOMAIN up -> 0 .. M] : Ranks(up, rank)

IsPath(up, f) == f = [k \in DOMAIN up |-> IF up[k] = Top THEN <<k>> ELSE Append(f[up[k]], k)]
Below(f, k) == {d \in DOMAIN f : \E i \in 1 .. Len(f[d]) - 1 : f[d][i] = k}

\* Of the categories of a set, some one has its parent outside it.
LEMMA SomeTop ==
    ASSUME NEW up, Forest(up), NEW B, B \subseteq DOMAIN up, B # {}
    PROVE  \E d \in B : up[d] = Top \/ up[d] \in DOMAIN up \ B
<1>1. PICK M \in Nat : \E rank \in [DOMAIN up -> 0 .. M] : Ranks(up, rank)
  BY DEF Forest
<1>2. PICK rank \in [DOMAIN up -> 0 .. M] : Ranks(up, rank)
  BY <1>1
<1> DEFINE T == {rank[d] : d \in B}
<1>3. T \subseteq Nat /\ T # {}
  BY <1>2
<1> HIDE DEF T
<1>4. PICK x \in T : \A y \in T : x <= y
  BY <1>3, LeastNatural
<1>5. PICK d \in B : x = rank[d]
  BY DEF T
<1>6. ASSUME up[d] # Top, up[d] \in B PROVE FALSE
  <2>1. rank[up[d]] \in T /\ rank[up[d]] < rank[d]
    BY <1>2, <1>6 DEF Ranks, T
  <2>2. rank[up[d]] \in Nat /\ rank[d] \in Nat
    BY <1>2, <1>6
  <2> QED BY <1>4, <1>5, <2>1, <2>2
<1> QED BY <1>2, <1>6 DEF Ranks

\* The recursion is well founded: PathOf() is a solution of its equation.
LEMMA PathSolves == ASSUME NEW up, Forest(up) PROVE IsPath(up, PathOf(up))
<1>1. PICK M \in Nat : \E rank \in [DOMAIN up -> 0 .. M] : Ranks(up, rank)
  BY DEF Forest
<1>2. PICK rank \in [DOMAIN up -> 0 .. M] : Ranks(up, rank)
  BY <1>1
<1> DEFINE D(n) == {k \in DOMAIN up : rank[k] < n}
           Solved(n, f) == f = [k \in D(n) |-> IF up[k] = Top THEN <<k>> ELSE Append(f[up[k]], k)]
           S == {n \in Nat : \E f : Solved(n, f)}
<1>3. 0 \in S
  <2>1. D(0) = {}
    BY <1>2
  <2> DEFINE f == [k \in {} |-> <<k>>]
  <2>2. Solved(0, f)
    BY <2>1
  <2> QED BY <2>2
<1>4. ASSUME NEW n \in Nat, n \in S PROVE n + 1 \in S
  <2>1. PICK f : Solved(n, f)
    BY <1>4
  <2> DEFINE g == [k \in D(n + 1) |-> IF up[k] = Top THEN <<k>> ELSE Append(f[up[k]], k)]
  <2>2. ASSUME NEW k \in D(n + 1), up[k] # Top PROVE g[up[k]] = f[up[k]]
    <3>1. up[k] \in D(n) /\ up[k] \in D(n + 1)
      BY <1>2, <2>2 DEF Ranks
    <3> QED BY <2>1, <3>1
  <2>3. Solved(n + 1, g)
    BY <2>2
  <2> HIDE DEF g, Solved
  <2>4. \E h : Solved(n + 1, h)
    BY <2>3
  <2> QED BY <2>4
<1>5. M + 1 \in S
  <2> HIDE DEF S
  <2> QED BY <1>3, <1>4, Induction
<1>6. PICK f : Solved(M + 1, f)
  BY <1>5
<1>7. D(M + 1) = DOMAIN up
  BY <1>2
<1>8. IsPath(up, f)
  BY <1>6, <1>7 DEF IsPath
<1> QED BY <1>8, Zenon DEF IsPath, PathOf

\* The equation has no other solution.
LEMMA PathIsTheOne == ASSUME NEW up, Forest(up), NEW f, IsPath(up, f) PROVE f = PathOf(up)
<1> DEFINE g == PathOf(up)
           B == {d \in DOMAIN up : f[d] # g[d]}
<1>1. IsPath(up, g)
  BY PathSolves
<1> HIDE DEF g
<1>2. ASSUME B # {} PROVE FALSE
  <2>1. PICK d \in B : up[d] = Top \/ up[d] \in DOMAIN up \ B
    BY <1>2, SomeTop
  <2>2. f[d] = g[d]
    BY <1>1, <2>1 DEF IsPath
  <2> QED BY <2>1, <2>2
<1>3. f = g
  BY <1>1, <1>2 DEF IsPath
<1> QED BY <1>3 DEF g

\* A path leads from a root to its category.
LEMMA PathType ==
    ASSUME NEW up, Forest(up), NEW d \in DOMAIN up
    PROVE  /\ DOMAIN PathOf(up) = DOMAIN up
           /\ PathOf(up)[d] \in Seq(DOMAIN up) /\ Len(PathOf(up)[d]) \in Nat \ {0}
           /\ PathOf(up)[d][Len(PathOf(up)[d])] = d
<1> DEFINE f == PathOf(up)
           Good(e) == f[e] \in Seq(DOMAIN up) /\ Len(f[e]) \in Nat \ {0} /\ f[e][Len(f[e])] = e
           B == {e \in DOMAIN up : ~Good(e)}
<1>1. IsPath(up, f)
  BY PathSolves
<1> HIDE DEF f
<1>2. ASSUME B # {} PROVE FALSE
  <2>1. PICK e \in B : up[e] = Top \/ up[e] \in DOMAIN up \ B
    BY <1>2, SomeTop
  <2>2. CASE up[e] = Top
    <3>1. f[e] = <<e>> /\ e \in DOMAIN up
      BY <1>1, <2>2 DEF IsPath
    <3>2. <<e>> \in Seq(DOMAIN up) /\ Len(<<e>>) = 1 /\ <<e>>[1] = e
      BY <3>1
    <3>3. Good(e)
      BY <3>1, <3>2
    <3> QED BY <2>1, <3>3
  <2>3. CASE up[e] # Top /\ up[e] \in DOMAIN up \ B
    <3> DEFINE p == f[up[e]]
    <3>1. f[e] = Append(p, e) /\ p \in Seq(DOMAIN up) /\ Len(p) \in Nat /\ e \in DOMAIN up
      BY <1>1, <2>3 DEF IsPath
    <3> HIDE DEF p
    <3>2. Append(p, e) \in Seq(DOMAIN up) /\ Len(Append(p, e)) = Len(p) + 1 /\ Append(p, e)[Len(p) + 1] = e
      BY <3>1
    <3>3. Good(e)
      BY <3>1, <3>2
    <3> QED BY <2>1, <3>3
  <2> QED BY <2>1, <2>2, <2>3
<1>3. Good(d) /\ DOMAIN f = DOMAIN up
  BY <1>1, <1>2 DEF IsPath
<1> QED BY <1>3 DEF f

\* Under a category are its children and what is under them.
LEMMA BelowIs ==
    ASSUME NEW up, Forest(up), NEW d \in DOMAIN up, NEW k
    PROVE  d \in Below(PathOf(up), k) <=> up[d] # Top /\ (up[d] = k \/ up[d] \in Below(PathOf(up), k))
<1> DEFINE f == PathOf(up)
<1>1. IsPath(up, f) /\ DOMAIN f = DOMAIN up
  BY PathSolves, PathType
<1>2. CASE up[d] = Top
  <2> HIDE DEF f
  <2>1. f[d] = <<d>>
    BY <1>1, <1>2 DEF IsPath
  <2>2. 1 .. Len(f[d]) - 1 = {}
    BY <2>1
  <2>3. d \notin Below(f, k)
    BY <2>2 DEF Below
  <2> QED BY <1>2, <2>3 DEF f
<1>3. CASE up[d] # Top
  <2>1. up[d] \in DOMAIN up
    BY <1>3 DEF Forest, Ranks
  <2> DEFINE p == f[up[d]]
  <2>2. f[d] = Append(p, d)
    BY <1>1, <1>3 DEF IsPath
  <2>3. p \in Seq(DOMAIN up) /\ Len(p) \in Nat \ {0} /\ p[Len(p)] = up[d]
    BY <2>1, PathType
  <2>4. Below(f, k) = {e \in DOMAIN up : \E i \in 1 .. Len(f[e]) - 1 : f[e][i] = k}
    BY <1>1 DEF Below
  <2> HIDE DEF f
  <2>5. up[d] \in Below(f, k) <=> \E i \in 1 .. Len(p) - 1 : p[i] = k
    BY <2>1, <2>4
  <2> HIDE DEF p
  <2>6. Len(f[d]) = Len(p) + 1 /\ \A i \in 1 .. Len(p) : f[d][i] = p[i]
    BY <2>2, <2>3
  <2>7. d \in Below(f, k) <=> \E i \in 1 .. Len(p) : p[i] = k
    <3>1. d \in Below(f, k) <=> \E i \in 1 .. Len(f[d]) - 1 : f[d][i] = k
      BY <2>4
    <3>2. 1 .. Len(f[d]) - 1 = 1 .. Len(p)
      BY <2>3, <2>6
    <3> QED BY <2>6, <3>1, <3>2
  <2>8. d \in Below(f, k) <=> up[d] = k \/ up[d] \in Below(f, k)
    BY <2>3, <2>5, <2>7
  <2> QED BY <1>3, <2>8 DEF f
<1> QED BY <1>2, <1>3

LEMMA BelowTheChild ==
    ASSUME NEW up, Forest(up), NEW c \in DOMAIN up, NEW k, up[c] = k, k # Top
    PROVE  Below(PathOf(up), c) \cup {c} \subseteq Below(PathOf(up), k)
<1> DEFINE f == PathOf(up)
           B == Below(f, c) \ Below(f, k)
<1>1. B \subseteq DOMAIN up
  BY PathType DEF Below
<1>2. c \in Below(f, k)
  BY BelowIs
<1>3. ASSUME B # {} PROVE FALSE
  <2>1. PICK d \in B : up[d] = Top \/ up[d] \in DOMAIN up \ B
    BY <1>1, <1>3, SomeTop
  <2>2. d \in DOMAIN up /\ d \in Below(f, c) /\ d \notin Below(f, k)
    BY <1>1
  <2>3. up[d] # Top /\ (up[d] = c \/ up[d] \in Below(f, c))
    BY <2>2, BelowIs
  <2>4. up[d] \in Below(f, k)
    BY <1>2, <2>1, <2>3
  <2> QED BY <2>2, <2>3, <2>4, BelowIs
<1> QED BY <1>2, <1>3

\* A path is its parent's path and the category.
LEMMA PathIs ==
    ASSUME NEW up, Forest(up), NEW d \in DOMAIN up
    PROVE  PathOf(up)[d] = IF up[d] = Top THEN <<d>> ELSE Append(PathOf(up)[up[d]], d)
<1> DEFINE f == PathOf(up)
<1>1. IsPath(up, f)
  BY PathSolves
<1> HIDE DEF f
<1>2. f[d] = IF up[d] = Top THEN <<d>> ELSE Append(f[up[d]], d)
  BY <1>1 DEF IsPath
<1> QED BY <1>2 DEF f

\* A category outside what moves keeps its path.
LEMMA PathStays ==
    ASSUME NEW up, NEW vp, Forest(up), Forest(vp), DOMAIN vp = DOMAIN up, NEW k,
           \A d \in DOMAIN up \ {k} : vp[d] = up[d], NEW e \in DOMAIN up, e # k, e \notin Below(PathOf(up), k)
    PROVE  PathOf(vp)[e] = PathOf(up)[e]
<1> DEFINE f == PathOf(up)
           g == PathOf(vp)
           B == {d \in DOMAIN up : d # k /\ d \notin Below(f, k) /\ g[d] # f[d]}
<1>1. ASSUME B # {} PROVE FALSE
  <2>1. PICK d \in B : up[d] = Top \/ up[d] \in DOMAIN up \ B
    BY <1>1, SomeTop
  <2>2. d \in DOMAIN up /\ d \in DOMAIN vp /\ vp[d] = up[d] /\ d # k /\ d \notin Below(f, k)
    BY <2>1
  <2>3. f[d] = (IF up[d] = Top THEN <<d>> ELSE Append(f[up[d]], d))
    BY <2>2, PathIs
  <2>4. g[d] = (IF up[d] = Top THEN <<d>> ELSE Append(g[up[d]], d))
    BY <2>2, PathIs
  <2>5. up[d] # Top => g[up[d]] = f[up[d]]
    BY <2>1, <2>2, BelowIs
  <2>6. g[d] = f[d]
    BY <2>3, <2>4, <2>5
  <2> QED BY <2>1, <2>6
<1> QED BY <1>1

\* A category moves under one that is neither itself nor under it: the tree stays one.
LEMMA MoveKeepsTheTree ==
    ASSUME NEW up, Forest(up), NEW k \in DOMAIN up, NEW to \in DOMAIN up \cup {Top},
           to # k, to \notin Below(PathOf(up), k)
    PROVE  Forest([up EXCEPT ![k] = to]) /\ DOMAIN [up EXCEPT ![k] = to] = DOMAIN up
<1>1. PICK M \in Nat : \E rank \in [DOMAIN up -> 0 .. M] : Ranks(up, rank)
  BY DEF Forest
<1>2. PICK rank \in [DOMAIN up -> 0 .. M] : Ranks(up, rank)
  BY <1>1
<1> DEFINE vp == [up EXCEPT ![k] = to]
           sub == {k} \cup Below(PathOf(up), k)
           new == [d \in DOMAIN up |-> IF d \in sub THEN rank[d] + M + 1 ELSE rank[d]]
<1>3. DOMAIN vp = DOMAIN up /\ vp[k] = to /\ (\A d \in DOMAIN up \ {k} : vp[d] = up[d]) /\ vp = [d \in DOMAIN up |-> vp[d]]
  BY DEF Forest
<1>4. \A d \in DOMAIN up : up[d] # Top => up[d] \in DOMAIN up /\ rank[up[d]] < rank[d]
  BY <1>2 DEF Ranks
<1>5. \A d \in DOMAIN up \ {k} : d \in sub => up[d] \in sub
  BY BelowIs
<1>6. \A d \in DOMAIN up \ {k} : up[d] # Top /\ d \notin sub => up[d] \notin sub
  BY BelowIs
<1> HIDE DEF vp
<1>7. to \notin sub /\ k \in sub
  OBVIOUS
<1> HIDE DEF sub
<1>8. new \in [DOMAIN up -> 0 .. (M + M + 1)]
  BY <1>2
<1>9. ASSUME NEW d \in DOMAIN up, vp[d] # Top PROVE vp[d] \in DOMAIN up /\ new[vp[d]] < new[d]
  <2>1. CASE d = k
    <3>1. vp[d] = to /\ to \in DOMAIN up
      BY <1>3, <1>9, <2>1
    <3>2. rank[to] \in 0 .. M /\ rank[k] \in 0 .. M
      BY <1>2, <3>1
    <3> QED BY <1>7, <2>1, <3>1, <3>2
  <2>2. CASE d # k
    <3>1. vp[d] = up[d] /\ up[d] \in DOMAIN up /\ rank[up[d]] < rank[d]
      BY <1>3, <1>4, <1>9, <2>2
    <3>2. rank[up[d]] \in 0 .. M /\ rank[d] \in 0 .. M
      BY <1>2, <3>1
    <3> QED BY <1>5, <1>6, <1>9, <2>2, <3>1, <3>2
  <2> QED BY <2>1, <2>2
<1>10. Ranks(vp, new)
  BY <1>3, <1>9 DEF Ranks
<1>11. Forest(vp)
  <2> HIDE DEF new
  <2>1. M + M + 1 \in Nat
    OBVIOUS
  <2> QED BY <1>3, <1>8, <1>10, <2>1 DEF Forest
<1> QED BY <1>3, <1>11 DEF vp

\* A category without children goes.
LEMMA LeafLeaves ==
    ASSUME NEW up, Forest(up), NEW k, \A d \in DOMAIN up : up[d] # k
    PROVE  /\ Forest([d \in DOMAIN up \ {k} |-> up[d]])
           /\ PathOf([d \in DOMAIN up \ {k} |-> up[d]]) = [d \in DOMAIN up \ {k} |-> PathOf(up)[d]]
<1>1. PICK M \in Nat : \E rank \in [DOMAIN up -> 0 .. M] : Ranks(up, rank)
  BY DEF Forest
<1>2. PICK rank \in [DOMAIN up -> 0 .. M] : Ranks(up, rank)
  BY <1>1
<1> DEFINE vp == [d \in DOMAIN up \ {k} |-> up[d]]
           new == [d \in DOMAIN up \ {k} |-> rank[d]]
           f == PathOf(up)
           g == [d \in DOMAIN up \ {k} |-> f[d]]
<1>3. new \in [DOMAIN vp -> 0 .. M] /\ Ranks(vp, new)
  BY <1>2 DEF Ranks
<1>4. Forest(vp)
  BY <1>3 DEF Forest
<1>5. IsPath(up, f)
  BY PathSolves
<1>6. \A d \in DOMAIN up \ {k} : up[d] # Top => up[d] \in DOMAIN up \ {k}
  BY <1>2 DEF Ranks
<1> HIDE DEF f
<1>7. ASSUME NEW d \in DOMAIN vp PROVE g[d] = IF vp[d] = Top THEN <<d>> ELSE Append(g[vp[d]], d)
  BY <1>5, <1>6 DEF IsPath
<1>8. IsPath(vp, g)
  BY <1>7 DEF IsPath
<1> HIDE DEF vp, g
<1>9. g = PathOf(vp)
  BY <1>4, <1>8, PathIsTheOne
<1> QED BY <1>4, <1>9 DEF vp, g, f

(***************************************************************************)
(* The changes                                                             *)
(***************************************************************************)

EditChange == [op : {"edit"}, key : Courses, step : {"commit", "event"}]
MarkChange == [op : {"mark"}, key : Courses, step : {"hook", "effect", "flag", "shutdown"}]
DeleteChange == [op : {"delete"}, key : Courses, step : {"hook", "effect", "event", "shutdown"}]
MoveChange == [op : {"move"}, key : Categories, to : Categories \cup {Top}, step : {"commit", "event"}]
DissolveChange ==
    [op : {"dissolve"}, key : Categories, to : Categories, step : {"child", "remove", "event"}]
    \cup [op : {"dissolve"}, key : Categories, to : Categories, child : Categories, step : {"childevent", "child", "remove", "event"}]
    \cup [op : {"dissolve"}, key : Categories, to : Categories, child : Courses, step : {"courseevent", "remove", "event"}]
CourseChange == EditChange \cup MarkChange \cup DeleteChange
Change == CourseChange \cup MoveChange \cup DissolveChange

(***************************************************************************)
(* The inductive invariant                                                 *)
(***************************************************************************)

Row == [edit : Nat, deleting : BOOLEAN]
Place == [category : Categories \cup {Top}, path : Nat]
PlacesTyped == place \in [Courses -> Place] /\ moved \in [Courses -> Nat]

TypeOK ==
    /\ DOMAIN row \subseteq Courses /\ \A c \in DOMAIN row : row[c] \in Row
    /\ DOMAIN path \subseteq Categories /\ \A k \in DOMAIN path : path[k] \in Seq(Categories)
    /\ PlacesTyped
    /\ writer = {} \/ \E w \in Change : writer = {w}
    /\ hand = [r \in Requests |-> hand[r]]
    /\ \A r \in Requests : hand[r] = [missing |-> hand[r].missing, rows |-> hand[r].rows]

\* The paths are behind the parents only while a category's children move out, and no change makes a cycle.
TreeOK ==
    /\ Forest(parent) /\ DOMAIN path = DOMAIN parent
    /\ path = PathOf(parent) \/ \E w \in writer : w.op = "dissolve" /\ w.step \in {"child", "childevent"}
    /\ \A w \in writer :
          (w.op = "move" /\ w.step = "commit") \/ (w.op = "dissolve" /\ w.step # "event") =>
              /\ w.key \in DOMAIN parent /\ w.to \in DOMAIN parent \cup {Top}
              /\ w.to # w.key /\ w.to \notin Below(PathOf(parent), w.key)
    /\ \A w \in writer : w.op = "dissolve" /\ w.step \in {"courseevent", "remove"} => \A k \in DOMAIN parent : parent[k] # w.key

\* The change under way is to delete the key, and has done more than it begins with.
Unsettled(c) ==
    \E w \in writer :
        \/ w \in CourseChange /\ w.key = c /\ w.step \in {"effect", "flag", "event", "shutdown"}
        \/ w.op = "dissolve" /\ w.step = "courseevent" /\ w.child = c
Moving(k) ==
    \E w \in writer :
        \/ w.op = "move" /\ w.step = "event" /\ k \in {w.key} \cup Below(path, w.key)
        \/ w.op = "dissolve" /\ w.step = "childevent" /\ k \in {w.child} \cup Below(path, w.child)
        \/ w.op = "dissolve" /\ w.step = "event" /\ k = w.key

\* The place of an entry: the category as it is, and a context path that is older only by a move above.
Placed(c, p) == p.category = place[c].category /\ (p.path = place[c].path \/ p.path < moved[c])

\* An entry of a course: of whom core has recorded a deletion, and the record of the course if it is not late.
CourseEntry(c, e) ==
    /\ e.value \in Row /\ e.place \in Place /\ e.place.path <= place[c].path
    /\ e.value.deleting /\ c \in DOMAIN row => row[c].deleting
    /\ ~e.late => Unsettled(c) \/ (c \in DOMAIN row /\ e.value = row[c] /\ Placed(c, e.place))

\* An entry of a category, neither late nor torn: the path stored, and the one its parents give.
CategoryEntry(k, e) ==
    ~e.late /\ ~e.torn => Moving(k) \/ (k \in DOMAIN path /\ e.value = path[k] /\ path[k] = PathOf(parent)[k])

EntryOK(k, e) ==
    /\ e = [value |-> e.value, place |-> e.place, late |-> e.late, torn |-> e.torn] /\ e.late \in BOOLEAN /\ e.torn \in BOOLEAN
    /\ k \in Courses \cup Categories
    /\ k \in Courses => CourseEntry(k, e)
    /\ k \in Categories => CategoryEntry(k, e)

EntriesOK ==
    /\ \A k \in DOMAIN cache : EntryOK(k, cache[k])
    /\ \A r \in Requests : \A k \in DOMAIN hand[r].rows : EntryOK(k, hand[r].rows[k])

LayersInv == TypeOK /\ TreeOK /\ EntriesOK

(***************************************************************************)
(* What a step of core's does to the entries: nothing, or the delete of    *)
(* some keys.  Each is to show of an entry only that it outlives the       *)
(* change of the site, given that it is late if its key is deleted.        *)
(***************************************************************************)

Carried(keys) == \A k, e : EntryOK(k, e) /\ (k \in keys => e.late) => EntryOK(k, e)'

LEMMA QuietKeeps == ASSUME EntriesOK, Quiet, Carried({}) PROVE EntriesOK'
  BY DEF EntriesOK, Quiet, Carried

\* A row's shape, whatever becomes of its mark.
LEMMA EntryMarked ==
    ASSUME NEW k, NEW e, EntryOK(k, e), NEW l \in BOOLEAN, e.late => l
    PROVE  EntryOK(k, [e EXCEPT !.late = l]) /\ [e EXCEPT !.late = l].late = l
<1> DEFINE g == [e EXCEPT !.late = l]
<1>1. g = [value |-> e.value, place |-> e.place, late |-> l, torn |-> e.torn]
  BY DEF EntryOK
<1> HIDE DEF g
<1>2. g.value = e.value /\ g.place = e.place /\ g.late = l /\ g.torn = e.torn /\ g = [value |-> g.value, place |-> g.place, late |-> g.late, torn |-> g.torn]
  BY <1>1
<1>3. EntryOK(k, g) /\ g.late = l
  BY <1>2 DEF EntryOK, CourseEntry, CategoryEntry, Placed
<1> QED BY <1>3 DEF g

\* What a delete leaves in the cache, and what it makes of a statement's rows.
LEMMA DropKeeps == ASSUME TypeOK, EntriesOK, NEW keys, Drop(keys), Carried(keys) PROVE EntriesOK'
<1>1. cache' = Without(keys) /\ MarkLate(keys)
  BY DEF Drop
<1>2. ASSUME NEW k \in DOMAIN cache' PROVE EntryOK(k, cache[k])'
  BY <1>1, <1>2 DEF Without, EntriesOK, Carried
<1>3. ASSUME NEW r \in Requests, NEW k \in DOMAIN hand'[r].rows PROVE EntryOK(k, hand[r].rows[k])'
  <2> DEFINE rows == LateIn(hand[r].rows, keys)
  <2>1. hand'[r] = [hand[r] EXCEPT !.rows = rows]
    BY <1>1, Zenon DEF MarkLate
  <2>2. hand'[r].rows = rows
    <3> HIDE DEF rows
    <3> QED BY <2>1 DEF TypeOK
  <2>3. k \in DOMAIN hand[r].rows
    BY <2>2 DEF LateIn
  <2> DEFINE e == hand[r].rows[k]
             l == e.late \/ k \in keys
  <2>4. EntryOK(k, e)
    BY <2>3 DEF EntriesOK
  <2>5. hand'[r].rows[k] = [e EXCEPT !.late = l]
    BY <2>2, <2>3, Zenon DEF LateIn
  <2>6. l \in BOOLEAN /\ (e.late => l) /\ (k \in keys => l)
    BY <2>4 DEF EntryOK
  <2>7. EntryOK(k, [e EXCEPT !.late = l]) /\ [e EXCEPT !.late = l].late = l
    <3> HIDE DEF e, l
    <3> QED BY <2>4, <2>6, EntryMarked
  <2>8. ASSUME NEW f, f = hand'[r].rows[k], EntryOK(k, f), k \in keys => f.late PROVE EntryOK(k, hand[r].rows[k])'
    <3>1. EntryOK(k, f)'
      BY <2>8 DEF Carried
    <3> QED BY <2>8, <3>1 DEF EntryOK, CourseEntry, CategoryEntry, Placed
  <2> HIDE DEF e, l
  <2> QED BY <2>5, <2>6, <2>7, <2>8
<1> QED BY <1>2, <1>3 DEF EntriesOK

(***************************************************************************)
(* The invariant, action by action                                         *)
(***************************************************************************)

LEMMA NothingHeld == DOMAIN <<>> = {}
  OBVIOUS

LEMMA TreeAtFirst == Forest(Tree) /\ DOMAIN Tree = Categories
<1>1. Cardinality(Categories) \in Nat
  BY TreeAssumption, FS_CardinalityType
<1> DEFINE M == Cardinality(Categories)
<1> HIDE DEF M
<1>2. PICK rank \in [Categories -> 0 .. M] : Ranks(Tree, rank)
  BY TreeAssumption DEF M
<1>3. M \in Nat /\ Tree = [k \in DOMAIN Tree |-> Tree[k]] /\ DOMAIN Tree = Categories /\ Top \notin Categories
  BY <1>1, TreeAssumption DEF M
<1> QED BY <1>2, <1>3 DEF Forest

LEMMA InitHolds == ASSUME Init PROVE LayersInv
<1>1. Forest(parent) /\ DOMAIN parent = Categories
  BY TreeAtFirst DEF Init
<1>2. path = PathOf(parent) /\ DOMAIN path = Categories /\ \A k \in Categories : path[k] \in Seq(Categories)
  <2>1. path = PathOf(parent)
    BY Zenon DEF Init
  <2>2. ASSUME NEW k \in Categories PROVE DOMAIN path = Categories /\ path[k] \in Seq(Categories)
    BY <1>1, <2>1, PathType
  <2>3. DOMAIN path = DOMAIN parent
    BY <1>1, <2>1, PathSolves DEF IsPath
  <2> QED BY <1>1, <2>1, <2>2, <2>3
<1>3. \A r \in Requests : hand[r] = [missing |-> {}, rows |-> <<>>]
  BY Zenon DEF Init
<1>4. hand = [r \in Requests |-> hand[r]]
  BY DEF Init
<1>5. \A r \in Requests : hand[r] = [missing |-> hand[r].missing, rows |-> hand[r].rows] /\ DOMAIN hand[r].rows = {}
  BY <1>3, NothingHeld
<1>6. DOMAIN row = Courses /\ \A c \in Courses : row[c] \in Row
  BY DEF Init, Row
<1>7. writer = {}
  BY DEF Init
<1>8. DOMAIN cache = {}
  BY NothingHeld DEF Init
<1>9. TypeOK
  <2>1. PlacesTyped
    BY HomeAssumption DEF Init, PlacesTyped, Place
  <2> QED BY <1>2, <1>4, <1>5, <1>6, <1>7, <2>1 DEF TypeOK
<1>10. TreeOK
  BY <1>1, <1>2, <1>7 DEF TreeOK
<1>11. EntriesOK
  BY <1>5, <1>8 DEF EntriesOK
<1> QED BY <1>9, <1>10, <1>11 DEF LayersInv

\* A request's step leaves the site alone, and with it what is claimed of an entry.
LEMMA SiteStays == ASSUME UNCHANGED site, NEW k, NEW e, EntryOK(k, e) PROVE EntryOK(k, e)'
  BY DEF site, EntryOK, CourseEntry, CategoryEntry, Unsettled, Moving, Placed

LEMMA ReaderKeeps ==
    ASSUME LayersInv, UNCHANGED site, NEW r \in Requests, NEW h, hand' = [hand EXCEPT ![r] = h],
           h = [missing |-> h.missing, rows |-> h.rows],
           \A k \in DOMAIN h.rows : EntryOK(k, h.rows[k]), \A k \in DOMAIN cache' : EntryOK(k, cache'[k])
    PROVE  LayersInv'
<1>1. hand'[r] = h /\ (\A q \in Requests \ {r} : hand'[q] = hand[q]) /\ hand' = [q \in Requests |-> hand'[q]]
  BY DEF LayersInv, TypeOK
<1>2. TypeOK'
  BY <1>1 DEF LayersInv, TypeOK, PlacesTyped, site
<1>3. TreeOK'
  BY DEF LayersInv, TreeOK, site
<1>4. ASSUME NEW k \in DOMAIN cache' PROVE EntryOK(k, cache[k])'
  <2>1. ASSUME NEW e, e = cache'[k], EntryOK(k, e) PROVE EntryOK(k, cache[k])'
    <3>1. EntryOK(k, e)'
      BY <2>1, SiteStays
    <3> QED BY <2>1, <3>1 DEF EntryOK, CourseEntry, CategoryEntry, Placed
  <2> QED BY <1>4, <2>1
<1>5. ASSUME NEW q \in Requests, NEW k \in DOMAIN hand'[q].rows PROVE EntryOK(k, hand[q].rows[k])'
  <2>1. ASSUME NEW e, e = hand'[q].rows[k], EntryOK(k, e) PROVE EntryOK(k, hand[q].rows[k])'
    <3>1. EntryOK(k, e)'
      BY <2>1, SiteStays
    <3> QED BY <2>1, <3>1 DEF EntryOK, CourseEntry, CategoryEntry, Placed
  <2>2. EntryOK(k, hand'[q].rows[k])
    BY <1>1, <1>5 DEF LayersInv, EntriesOK
  <2> QED BY <2>1, <2>2
<1> QED BY <1>2, <1>3, <1>4, <1>5 DEF LayersInv, EntriesOK

LEMMA GetManyKeeps == ASSUME LayersInv, NEW r \in Requests, GetMany(r) PROVE LayersInv'
<1>1. PICK missing : hand' = [hand EXCEPT ![r] = [missing |-> missing, rows |-> <<>>]]
  BY DEF GetMany
<1> DEFINE h == [missing |-> missing, rows |-> <<>>]
<1>2. h = [missing |-> h.missing, rows |-> h.rows] /\ DOMAIN h.rows = {}
  BY NothingHeld
<1>3. UNCHANGED <<site, cache>>
  BY DEF GetMany
<1> HIDE DEF h
<1>4. hand' = [hand EXCEPT ![r] = h]
  BY <1>1 DEF h
<1>5. \A k \in DOMAIN cache' : EntryOK(k, cache'[k])
  BY <1>3 DEF LayersInv, EntriesOK
<1> QED BY <1>2, <1>3, <1>4, <1>5, ReaderKeeps

\* A statement finds the rows as they are.
LEMMA ReadRowsKeeps == ASSUME LayersInv, NEW r \in Requests, ReadRows(r) PROVE LayersInv'
<1> DEFINE torn(k) == k \in Categories /\ path # PathOf(parent)
           found == hand[r].missing \cap (DOMAIN row \cup DOMAIN path)
           rows == [k \in found |-> [value |-> Value(k), place |-> PlaceOf(k), late |-> FALSE, torn |-> torn(k)]]
           h == [hand[r] EXCEPT !.rows = rows]
<1>1. hand' = [hand EXCEPT ![r] = h]
  BY Zenon DEF ReadRows
<1>2. UNCHANGED <<site, cache>>
  BY DEF ReadRows
<1>3. h = [missing |-> hand[r].missing, rows |-> rows]
  <2> HIDE DEF rows
  <2> QED BY DEF LayersInv, TypeOK
<1>4. ASSUME NEW k \in found PROVE EntryOK(k, rows[k])
  <2> DEFINE e == rows[k]
  <2>1. e = [value |-> Value(k), place |-> PlaceOf(k), late |-> FALSE, torn |-> torn(k)]
    BY <1>4, Zenon
  <2>2. torn(k) \in BOOLEAN /\ (k \in Categories /\ ~torn(k) => path = PathOf(parent))
    OBVIOUS
  <2> HIDE DEF torn, e
  <2>3. e.value = Value(k) /\ e.place = PlaceOf(k) /\ e.late = FALSE /\ e.torn = torn(k) /\ e = [value |-> e.value, place |-> e.place, late |-> e.late, torn |-> e.torn]
    BY <2>1
  <2>4. DOMAIN row \subseteq Courses /\ DOMAIN path \subseteq Categories /\ Courses \cap Categories = {}
    BY KeysAssumption DEF LayersInv, TypeOK
  <2>5. k \in Courses => CourseEntry(k, e)
    <3>1. k \in Courses => k \in DOMAIN row /\ e.value = row[k] /\ e.place = place[k]
      BY <1>4, <2>3, <2>4 DEF Value, PlaceOf
    <3>2. k \in Courses => place[k] \in Place /\ place[k].path <= place[k].path
      BY DEF LayersInv, TypeOK, PlacesTyped, Place
    <3> QED BY <3>1, <3>2 DEF CourseEntry, LayersInv, TypeOK, Placed
  <2>6. k \in Categories => CategoryEntry(k, e)
    <3>1. k \in Categories => k \in DOMAIN path /\ e.value = path[k]
      BY <1>4, <2>3, <2>4 DEF Value
    <3> QED BY <2>2, <2>3, <3>1 DEF CategoryEntry
  <2>7. EntryOK(k, e)
    BY <1>4, <2>2, <2>3, <2>4, <2>5, <2>6 DEF EntryOK
  <2> QED BY <2>7 DEF e
<1>5. h.rows = rows /\ DOMAIN rows = found /\ h = [missing |-> h.missing, rows |-> h.rows]
  <2>1. DOMAIN rows = found
    OBVIOUS
  <2> HIDE DEF rows, h
  <2> QED BY <1>3, <2>1
<1>6. \A k \in DOMAIN cache' : EntryOK(k, cache'[k])
  BY <1>2 DEF LayersInv, EntriesOK
<1> HIDE DEF h, rows, found
<1> QED BY <1>1, <1>2, <1>4, <1>5, <1>6, ReaderKeeps

LEMMA SetManyKeeps == ASSUME LayersInv, NEW r \in Requests, SetMany(r) PROVE LayersInv'
<1> DEFINE h == [missing |-> {}, rows |-> <<>>]
<1>1. h = [missing |-> h.missing, rows |-> h.rows] /\ DOMAIN h.rows = {}
  BY NothingHeld
<1>2. hand' = [hand EXCEPT ![r] = h] /\ UNCHANGED site
  BY DEF SetMany
<1> DEFINE rows == hand[r].rows
<1>3. cache' = [k \in DOMAIN rows \cup DOMAIN cache |-> IF k \in DOMAIN rows THEN rows[k] ELSE cache[k]]
  BY Zenon DEF SetMany
<1>4. ASSUME NEW k \in DOMAIN cache' PROVE EntryOK(k, cache'[k])
  <2>1. \/ k \in DOMAIN rows /\ cache'[k] = rows[k]
        \/ k \in DOMAIN cache /\ cache'[k] = cache[k]
    BY <1>3, <1>4
  <2> QED BY <2>1 DEF LayersInv, EntriesOK
<1> HIDE DEF h
<1> QED BY <1>1, <1>2, <1>4, ReaderKeeps

LEMMA HandShape ==
    ASSUME TypeOK, NEW keys, Quiet \/ Drop(keys)
    PROVE  /\ hand' = [r \in Requests |-> hand'[r]]
           /\ \A r \in Requests : hand'[r] = [missing |-> hand'[r].missing, rows |-> hand'[r].rows]
<1>1. CASE Quiet
  BY <1>1, Zenon DEF Quiet, TypeOK
<1>2. CASE Drop(keys)
  <2> DEFINE rows(r) == LateIn(hand[r].rows, keys)
  <2>1. hand' = [r \in Requests |-> [hand[r] EXCEPT !.rows = rows(r)]]
    BY <1>2, Zenon DEF Drop, MarkLate
  <2> HIDE DEF rows
  <2>2. ASSUME NEW r \in Requests PROVE hand'[r] = [missing |-> hand'[r].missing, rows |-> hand'[r].rows]
    <3>1. hand'[r] = [missing |-> hand[r].missing, rows |-> rows(r)]
      BY <2>1 DEF TypeOK
    <3> QED BY <3>1
  <2> QED BY <2>1, <2>2
<1> QED BY <1>1, <1>2

(***************************************************************************)
(* Where the courses are: a step leaves it alone, moves one course, or     *)
(* rewrites the context paths under a category.                            *)
(***************************************************************************)

PlacesGrow == PlacesTyped' /\ \A c \in Courses : place[c].path <= place'[c].path
StillPlaced(c) == \A p \in Place : p.path <= place[c].path /\ Placed(c, p) => Placed(c, p)'

LEMMA StayPlaced == ASSUME TypeOK, Stay PROVE PlacesGrow /\ \A c \in Courses : StillPlaced(c)
  BY DEF TypeOK, PlacesTyped, Place, Stay, PlacesGrow, StillPlaced, Placed

LEMMA CoursePlaced ==
    ASSUME TypeOK, NEW c \in Courses, NEW to \in Categories, MoveCourse(c, to)
    PROVE  PlacesGrow /\ \A d \in Courses \ {c} : StillPlaced(d)
<1>1. place[c].path + 1 \in Nat /\ [category |-> to, path |-> place[c].path + 1] \in Place
  BY DEF TypeOK, PlacesTyped, Place
<1>2. place' \in [Courses -> Place] /\ moved' \in [Courses -> Nat] /\ place'[c].path = place[c].path + 1
      /\ \A d \in Courses \ {c} : place'[d] = place[d]
  BY <1>1 DEF TypeOK, PlacesTyped, MoveCourse
<1>3. \A d \in Courses : place[d].path \in Nat
  BY DEF TypeOK, PlacesTyped, Place
<1>4. PlacesGrow
  BY <1>2, <1>3 DEF PlacesGrow, PlacesTyped
<1>5. moved' = moved
  BY DEF MoveCourse
<1> QED BY <1>2, <1>4, <1>5 DEF StillPlaced, Placed

LEMMA PathsRewritten ==
    ASSUME TypeOK, NEW k, UpdateMoved(k)
    PROVE  PlacesGrow /\ \A c \in Courses : StillPlaced(c)
<1> DEFINE under(c) == place[c].category \in Under(k)
<1>1. \A c \in Courses : place[c] \in Place /\ place[c].path \in Nat /\ moved[c] \in Nat
  BY DEF TypeOK, PlacesTyped, Place
<1>2. place' = [c \in Courses |-> IF under(c) THEN [place[c] EXCEPT !.path = @ + 1] ELSE place[c]]
      /\ moved' = [c \in Courses |-> IF under(c) THEN place[c].path + 1 ELSE moved[c]]
  BY Zenon DEF UpdateMoved, Rewritten
<1> HIDE DEF under
<1>3. ASSUME NEW c \in Courses
      PROVE  /\ place'[c] \in Place /\ moved'[c] \in Nat /\ place'[c].category = place[c].category
             /\ IF under(c) THEN place'[c].path = place[c].path + 1 /\ moved'[c] = place[c].path + 1
                ELSE place'[c] = place[c] /\ moved'[c] = moved[c]
  BY <1>1, <1>2, <1>3 DEF Place
<1>4. PlacesGrow
  <2>1. PlacesTyped'
    BY <1>2, <1>3 DEF PlacesTyped
  <2> QED BY <1>1, <1>3, <2>1 DEF PlacesGrow
<1>5. ASSUME NEW c \in Courses PROVE StillPlaced(c)
  BY <1>1, <1>3 DEF StillPlaced, Placed, Place
<1> QED BY <1>4, <1>5

(***************************************************************************)
(* A course is edited, marked or removed: its entries are let go of before *)
(* the change is over, and the others hold what they held.                 *)
(***************************************************************************)

LEMMA CourseStepKeeps ==
    ASSUME LayersInv, NEW w \in CourseChange, writer = {w}, UNCHANGED <<parent, path>>,
           writer' = {} \/ \E v \in CourseChange : writer' = {v},
           DOMAIN row' \subseteq DOMAIN row, PlacesGrow,
           \A c \in DOMAIN row' : row'[c] \in Row /\ (row[c].deleting => row'[c].deleting),
           NEW keys, (Quiet /\ keys = {}) \/ Drop(keys),
           \A c \in Courses \ keys :
              Unsettled(c)' \/ (~Unsettled(c) /\ StillPlaced(c) /\ (c \in DOMAIN row => c \in DOMAIN row' /\ row'[c] = row[c]))
    PROVE  LayersInv'
<1>1. TypeOK /\ TreeOK /\ EntriesOK
  BY DEF LayersInv
<1>2. \A v \in CourseChange : v.op \notin {"move", "dissolve"}
  BY DEF CourseChange, EditChange, MarkChange, DeleteChange
<1>3. TypeOK'
  <2>1. writer' = {} \/ \E v \in Change : writer' = {v}
    BY DEF Change
  <2>2. DOMAIN row' \subseteq Courses /\ \A c \in DOMAIN row' : row'[c] \in Row
    BY <1>1 DEF TypeOK
  <2>3. /\ hand' = [r \in Requests |-> hand'[r]]
        /\ \A r \in Requests : hand'[r] = [missing |-> hand'[r].missing, rows |-> hand'[r].rows]
    BY <1>1, HandShape
  <2> QED BY <1>1, <2>1, <2>2, <2>3 DEF TypeOK, PlacesGrow
<1>4. TreeOK'
  BY <1>1, <1>2 DEF TreeOK
<1>5. ASSUME NEW k, NEW e, EntryOK(k, e), k \in keys => e.late PROVE EntryOK(k, e)'
  <2>1. ASSUME k \in Courses PROVE CourseEntry(k, e)'
    <3>1. CourseEntry(k, e) /\ e.place \in Place
      BY <1>5, <2>1 DEF EntryOK, CourseEntry
    <3>2. e.place.path <= place'[k].path
      <4>1. e.place.path \in Nat /\ place[k].path \in Nat /\ place'[k].path \in Nat
        BY <1>1, <2>1, <3>1 DEF TypeOK, PlacesGrow, PlacesTyped, Place
      <4> QED BY <2>1, <3>1, <4>1 DEF CourseEntry, PlacesGrow
    <3>3. StillPlaced(k) /\ Placed(k, e.place) => Placed(k, e.place)'
      BY <3>1 DEF StillPlaced, CourseEntry
    <3> QED BY <1>1, <1>5, <2>1, <3>1, <3>2, <3>3 DEF CourseEntry, TypeOK
  <2>2. k \in Categories => CategoryEntry(k, e)'
    <3>1. ~Moving(k) /\ ~Moving(k)'
      BY <1>2 DEF Moving
    <3> QED BY <1>5, <3>1 DEF EntryOK, CategoryEntry
  <2> QED BY <1>5, <2>1, <2>2 DEF EntryOK
<1>6. EntriesOK'
  BY <1>1, <1>5, QuietKeeps, DropKeeps DEF Carried
<1> QED BY <1>3, <1>4, <1>6 DEF LayersInv

\* The change under way, by its kind.
LEMMA TheChange ==
    ASSUME NEW w \in Change
    PROVE  /\ w.op = "edit" => w \in EditChange
           /\ w.op = "mark" => w \in MarkChange
           /\ w.op = "delete" => w \in DeleteChange
           /\ w.op = "move" => w \in MoveChange
           /\ w.op = "dissolve" => w \in DissolveChange
  BY DEF Change, CourseChange, EditChange, MarkChange, DeleteChange, MoveChange, DissolveChange

\* A change at its first step is to delete nothing yet, at a later one its key.
LEMMA WhatIsUnsettled ==
    ASSUME NEW w, writer = {w}, w.op # "dissolve", NEW c, w.step \in {"commit", "hook"} \/ c # w.key PROVE ~Unsettled(c)
  BY DEF Unsettled

LEMMA CoursesSettled ==
    ASSUME NEW w, writer = {w}, w \notin CourseChange, w.step # "courseevent" PROVE \A c : ~Unsettled(c)
  BY DEF Unsettled

LEMMA CourseOps == ASSUME NEW w \in CourseChange PROVE w.op \notin {"move", "dissolve"}
  BY DEF CourseChange, EditChange, MarkChange, DeleteChange

LEMMA EditKeeps == ASSUME LayersInv, NEW w \in Change, writer = {w}, EditStep(w) PROVE LayersInv'
<1>1. w \in EditChange /\ w \in CourseChange /\ UNCHANGED <<parent, path>> /\ w.op # "dissolve" /\ TypeOK
  BY TheChange DEF EditStep, CourseChange, LayersInv
<1>2. CASE w.step = "commit"
  <2> DEFINE v == [w EXCEPT !.step = "event"]
  <2>1. writer' = {v} /\ v \in EditChange /\ v.key = w.key /\ v.step = "event"
    BY <1>1, <1>2 DEF EditStep, Step, EditChange
  <2> HIDE DEF v
  <2>2. row' = [row EXCEPT ![w.key].edit = row[w.key].edit + 1] /\ Quiet
    BY <1>2 DEF EditStep
  <2>3. DOMAIN row' = DOMAIN row /\ \A c \in DOMAIN row : c # w.key => row'[c] = row[c]
    BY <2>2
  <2>4. ASSUME NEW c \in DOMAIN row' PROVE row'[c] \in Row /\ (row[c].deleting => row'[c].deleting)
    BY <2>2, <2>4 DEF LayersInv, TypeOK, Row
  <2>5. Unsettled(w.key)' /\ \A c : ~Unsettled(c)
    BY <1>2, <2>1, WhatIsUnsettled DEF Unsettled, CourseChange
  <2>7. PlacesGrow /\ \A c \in Courses \ {w.key} : StillPlaced(c)
    <3>1. w.key \in Courses /\ DOMAIN path \subseteq Categories
      BY <1>1 DEF EditChange, TypeOK
    <3>2. Stay \/ \E to \in DOMAIN path : MoveCourse(w.key, to)
      BY <1>2 DEF EditStep
    <3> QED BY <1>1, <3>1, <3>2, StayPlaced, CoursePlaced
  <2> DEFINE keys == {}
  <2>6. Quiet /\ keys = {}
    BY <2>2
  <2> HIDE DEF keys
  <2> QED BY <1>1, <2>1, <2>3, <2>4, <2>5, <2>6, <2>7, CourseStepKeeps DEF CourseChange
<1>3. CASE w.step = "event"
  <2>1. writer' = {} /\ Drop({w.key}) /\ row' = row /\ Stay
    BY <1>3 DEF EditStep, Done
  <2> DEFINE keys == {w.key}
  <2>2. \A c \in Courses \ keys : ~Unsettled(c)
    BY <1>1, WhatIsUnsettled
  <2>3. Drop(keys)
    BY <2>1
  <2> HIDE DEF keys
  <2>4. \A c \in DOMAIN row' : row'[c] \in Row
    BY <2>1 DEF LayersInv, TypeOK
  <2> QED BY <1>1, <2>1, <2>2, <2>3, <2>4, StayPlaced, CourseStepKeeps
<1> QED BY <1>2, <1>3 DEF EditStep

\* A delete of the course's key, whatever step of its change makes it.
LEMMA ForgetKeeps ==
    ASSUME LayersInv, NEW w \in CourseChange, writer = {w}, Drop({w.key}), UNCHANGED <<row, parent, path>>, Stay,
           writer' = {} \/ \E v \in CourseChange : writer' = {v}
    PROVE  LayersInv'
<1> DEFINE keys == {w.key}
<1>1. \A c \in Courses \ keys : ~Unsettled(c)
  BY CourseOps, WhatIsUnsettled
<1>2. Drop(keys)
  OBVIOUS
<1> HIDE DEF keys
<1>3. TypeOK /\ \A c \in DOMAIN row' : row'[c] \in Row
  BY DEF LayersInv, TypeOK
<1> QED BY <1>1, <1>2, <1>3, StayPlaced, CourseStepKeeps

LEMMA HookKeeps == ASSUME LayersInv, NEW w \in Change, writer = {w}, HookStep(w) PROVE LayersInv'
<1>1. w \in CourseChange /\ Drop({w.key}) /\ UNCHANGED <<row, parent, path>> /\ Stay
  BY TheChange DEF HookStep, CourseChange, Forget
<1>2. PICK to \in {"effect", "shutdown"} : writer' = {[w EXCEPT !.step = to]}
  BY DEF HookStep, Step
<1>3. [w EXCEPT !.step = to] \in CourseChange
  BY TheChange DEF HookStep, CourseChange, MarkChange, DeleteChange
<1> QED BY <1>1, <1>2, <1>3, ForgetKeeps

LEMMA ShutdownKeeps == ASSUME LayersInv, NEW w \in Change, writer = {w}, ShutdownStep(w) PROVE LayersInv'
<1>1. w \in CourseChange /\ Drop({w.key}) /\ UNCHANGED <<row, parent, path>> /\ Stay /\ writer' = {}
  BY TheChange DEF ShutdownStep, CourseChange, ForgetAgain, Done
<1> QED BY <1>1, ForgetKeeps

\* The two statements of the mark, between the hook's delete and the shutdown's.
LEMMA MarkKeeps == ASSUME LayersInv, NEW w \in Change, writer = {w}, MarkStep(w) PROVE LayersInv'
<1>1. w \in MarkChange /\ w \in CourseChange /\ UNCHANGED <<parent, path>> /\ Quiet /\ w.op # "dissolve" /\ Stay /\ TypeOK
  BY TheChange DEF MarkStep, CourseChange, LayersInv
<1>2. PICK to \in {"flag", "shutdown"} : writer' = {[w EXCEPT !.step = to]}
  BY DEF MarkStep, Step
<1> DEFINE v == [w EXCEPT !.step = to]
<1>3. writer' = {v} /\ v \in MarkChange /\ v.key = w.key /\ v.step = to
  BY <1>1, <1>2 DEF MarkChange
<1> HIDE DEF v
<1>4. \/ row' = [row EXCEPT ![w.key].edit = row[w.key].edit + 1]
      \/ row' = [row EXCEPT ![w.key].deleting = TRUE]
  BY DEF MarkStep
<1>5. DOMAIN row' = DOMAIN row /\ \A c \in DOMAIN row : c # w.key => row'[c] = row[c]
  BY <1>4
<1>6. ASSUME NEW c \in DOMAIN row' PROVE row'[c] \in Row /\ (row[c].deleting => row'[c].deleting)
  <2>1. row[c] \in Row /\ c \in DOMAIN row
    BY <1>5, <1>6 DEF LayersInv, TypeOK
  <2>2. CASE row' = [row EXCEPT ![w.key].edit = row[w.key].edit + 1]
    BY <2>1, <2>2 DEF Row
  <2>3. CASE row' = [row EXCEPT ![w.key].deleting = TRUE]
    BY <2>1, <2>3 DEF Row
  <2> QED BY <1>4, <2>2, <2>3
<1>7. Unsettled(w.key)' /\ \A c : c # w.key => ~Unsettled(c)
  BY <1>1, <1>3, WhatIsUnsettled DEF Unsettled, CourseChange
<1> DEFINE keys == {}
<1>8. Quiet /\ keys = {}
  BY <1>1
<1> HIDE DEF keys
<1> QED BY <1>1, <1>3, <1>5, <1>6, <1>7, <1>8, StayPlaced, CourseStepKeeps DEF CourseChange

LEMMA DeleteKeeps == ASSUME LayersInv, NEW w \in Change, writer = {w}, DeleteStep(w) PROVE LayersInv'
<1>1. w \in DeleteChange /\ w \in CourseChange /\ UNCHANGED <<parent, path>> /\ w.op # "dissolve" /\ Stay /\ TypeOK
  BY TheChange DEF DeleteStep, CourseChange, LayersInv
<1>2. CASE w.step = "effect"
  <2> DEFINE v == [w EXCEPT !.step = "event"]
  <2>1. writer' = {v} /\ v \in DeleteChange /\ v.key = w.key /\ v.step = "event"
    BY <1>1, <1>2 DEF DeleteStep, Step, DeleteChange
  <2> HIDE DEF v
  <2>2. row' = [c \in DOMAIN row \ {w.key} |-> row[c]] /\ Quiet
    BY <1>2 DEF DeleteStep
  <2>3. Unsettled(w.key)' /\ \A c : c # w.key => ~Unsettled(c)
    BY <1>1, <2>1, WhatIsUnsettled DEF Unsettled, CourseChange
  <2>4. \A c \in DOMAIN row' : row'[c] \in Row /\ row'[c] = row[c]
    BY <2>2 DEF LayersInv, TypeOK
  <2> DEFINE keys == {}
  <2>5. Quiet /\ keys = {}
    BY <2>2
  <2>6. DOMAIN row' \subseteq DOMAIN row /\ \A c \in DOMAIN row : c # w.key => c \in DOMAIN row' /\ row'[c] = row[c]
    BY <2>2
  <2> HIDE DEF keys
  <2> QED BY <1>1, <2>1, <2>3, <2>4, <2>5, <2>6, StayPlaced, CourseStepKeeps DEF CourseChange
<1>3. CASE w.step = "event"
  <2>1. Drop({w.key}) /\ row' = row /\ writer' = {[w EXCEPT !.step = "shutdown"]}
    BY <1>3 DEF DeleteStep, Step
  <2>2. [w EXCEPT !.step = "shutdown"] \in CourseChange
    BY <1>1 DEF CourseChange, DeleteChange
  <2> QED BY <1>1, <2>1, <2>2, ForgetKeeps
<1> QED BY <1>2, <1>3 DEF DeleteStep

(***************************************************************************)
(* Categories move: an entry outside what moved holds its path.            *)
(***************************************************************************)

CategoryChange == MoveChange \cup DissolveChange

LEMMA PathsTyped ==
    ASSUME NEW up, Forest(up), DOMAIN up \subseteq Categories
    PROVE  DOMAIN PathOf(up) = DOMAIN up /\ \A k \in DOMAIN up : PathOf(up)[k] \in Seq(Categories)
<1>1. DOMAIN PathOf(up) = DOMAIN up
  BY PathSolves DEF IsPath
<1>2. ASSUME NEW k \in DOMAIN up PROVE PathOf(up)[k] \in Seq(Categories)
  <2>1. PathOf(up)[k] \in Seq(DOMAIN up)
    BY PathType
  <2> DEFINE p == PathOf(up)[k]
  <2> HIDE DEF p
  <2>2. p \in Seq(DOMAIN up) => p \in Seq(Categories)
    OBVIOUS
  <2> QED BY <2>1, <2>2 DEF p
<1> QED BY <1>1, <1>2

LEMMA CategoryStepKeeps ==
    ASSUME LayersInv, NEW w \in CategoryChange, writer = {w}, UNCHANGED row, TreeOK', PlacesGrow,
           writer' = {} \/ \E v \in CategoryChange : writer' = {v},
           DOMAIN path' \subseteq Categories, \A k \in DOMAIN path' : path'[k] \in Seq(Categories),
           NEW keys, (Quiet /\ keys = {}) \/ Drop(keys),
           \A c \in Courses \ keys : Unsettled(c)' \/ (~Unsettled(c) /\ StillPlaced(c)),
           \A k \in Categories \ keys :
              \/ Moving(k)'
              \/ /\ ~Moving(k)
                 /\ k \in DOMAIN path /\ path[k] = PathOf(parent)[k] =>
                       k \in DOMAIN path' /\ path'[k] = path[k] /\ path'[k] = PathOf(parent')[k]
    PROVE  LayersInv'
<1>1. TypeOK /\ EntriesOK
  BY DEF LayersInv
<1>2. CategoryChange \cap CourseChange = {}
  BY DEF CategoryChange, MoveChange, DissolveChange, CourseChange, EditChange, MarkChange, DeleteChange
<1>3. TypeOK'
  <2>1. writer' = {} \/ \E v \in Change : writer' = {v}
    BY DEF Change, CategoryChange
  <2>2. /\ hand' = [r \in Requests |-> hand'[r]]
        /\ \A r \in Requests : hand'[r] = [missing |-> hand'[r].missing, rows |-> hand'[r].rows]
    BY <1>1, HandShape
  <2> QED BY <1>1, <2>1, <2>2 DEF TypeOK, PlacesGrow
<1>4. ASSUME NEW k, NEW e, EntryOK(k, e), k \in keys => e.late PROVE EntryOK(k, e)'
  <2>1. ASSUME k \in Courses PROVE CourseEntry(k, e)'
    <3>1. CourseEntry(k, e) /\ e.place \in Place
      BY <1>4, <2>1 DEF EntryOK, CourseEntry
    <3>2. e.place.path <= place'[k].path
      <4>1. e.place.path \in Nat /\ place[k].path \in Nat /\ place'[k].path \in Nat
        BY <1>1, <2>1, <3>1 DEF TypeOK, PlacesGrow, PlacesTyped, Place
      <4> QED BY <2>1, <3>1, <4>1 DEF CourseEntry, PlacesGrow
    <3>3. StillPlaced(k) /\ Placed(k, e.place) => Placed(k, e.place)'
      BY <3>1 DEF StillPlaced, CourseEntry
    <3> QED BY <1>4, <2>1, <3>1, <3>2, <3>3 DEF CourseEntry
  <2>2. k \in Categories => CategoryEntry(k, e)'
    BY <1>4 DEF EntryOK, CategoryEntry
  <2> QED BY <1>4, <2>1, <2>2 DEF EntryOK
<1>5. EntriesOK'
  BY <1>1, <1>4, QuietKeeps, DropKeeps DEF Carried
<1> QED BY <1>3, <1>5 DEF LayersInv

\* Where a category may go, by the tree's part of the invariant.
LEMMA WhereItGoes ==
    ASSUME LayersInv, NEW w \in Change, writer = {w},
           (w.op = "move" /\ w.step = "commit") \/ (w.op = "dissolve" /\ w.step # "event")
    PROVE  /\ w.key \in DOMAIN parent /\ w.to \in DOMAIN parent \cup {Top}
           /\ w.to # w.key /\ w.to \notin Below(PathOf(parent), w.key)
  BY DEF LayersInv, TreeOK

LEMMA MoveKeeps == ASSUME LayersInv, NEW w \in Change, writer = {w}, MoveStep(w) PROVE LayersInv'
<1>1. w \in MoveChange /\ w \in CategoryChange /\ row' = row /\ w.op = "move"
  BY TheChange DEF MoveStep, CategoryChange
<1>2. Forest(parent) /\ path = PathOf(parent) /\ DOMAIN path = DOMAIN parent
  BY <1>1 DEF LayersInv, TreeOK
<1>3. DOMAIN path \subseteq Categories /\ \A k \in DOMAIN path : path[k] \in Seq(Categories)
  BY DEF LayersInv, TypeOK
<1>0. TypeOK /\ \A c : ~Unsettled(c)
  BY <1>1 DEF Unsettled, LayersInv, CourseChange, MoveChange, EditChange, MarkChange, DeleteChange
<1>4. CASE w.step = "commit"
  <2> DEFINE v == [w EXCEPT !.step = "event"]
             up == [parent EXCEPT ![w.key] = w.to]
  <2>1. writer' = {v} /\ v \in MoveChange /\ v.key = w.key /\ v.step = "event" /\ v.op = "move"
    BY <1>1, <1>4 DEF MoveStep, Step, MoveChange
  <2> HIDE DEF v
  <2>2. parent' = up /\ path' = PathOf(parent') /\ Quiet
    BY <1>4, Zenon DEF MoveStep
  <2>3. Forest(up) /\ DOMAIN up = DOMAIN parent /\ \A d \in DOMAIN up : d # w.key => up[d] = parent[d]
    <3>1. Forest(up) /\ DOMAIN up = DOMAIN parent
      BY <1>1, <1>2, <1>4, WhereItGoes, MoveKeepsTheTree
    <3> QED BY <3>1
  <2> HIDE DEF up
  <2>4. DOMAIN path' = DOMAIN parent' /\ \A k \in DOMAIN path' : path'[k] \in Seq(Categories)
    BY <1>2, <1>3, <2>2, <2>3, PathsTyped
  <2>5. TreeOK'
    BY <2>1, <2>2, <2>3, <2>4 DEF TreeOK
  <2>6. ASSUME NEW k \in Categories, ~Moving(k)', k \in DOMAIN path, path[k] = PathOf(parent)[k]
        PROVE  k \in DOMAIN path' /\ path'[k] = path[k] /\ path'[k] = PathOf(parent')[k]
    <3>1. k # w.key /\ k \notin Below(PathOf(up), w.key)
      BY <2>1, <2>2, <2>6 DEF Moving
    <3>2. PathOf(parent)[k] = PathOf(up)[k]
      BY <1>2, <2>3, <2>6, <3>1, PathStays
    <3> QED BY <1>2, <2>2, <2>3, <2>4, <2>6, <3>2
  <2>7. \A k : ~Moving(k)
    BY <1>1, <1>4 DEF Moving
  <2>9. PlacesGrow /\ \A c \in Courses : StillPlaced(c)
    BY <1>0, <1>4, PathsRewritten DEF MoveStep
  <2> DEFINE keys == {}
  <2>8. Quiet /\ keys = {}
    BY <2>2
  <2> HIDE DEF keys
  <2> QED BY <1>0, <1>1, <1>2, <1>3, <2>1, <2>3, <2>2, <2>4, <2>5, <2>6, <2>7, <2>8, <2>9, CategoryStepKeeps DEF CategoryChange
<1>5. CASE w.step = "event"
  <2> DEFINE keys == {w.key} \cup Below(path, w.key)
  <2>1. writer' = {} /\ Drop(keys) /\ UNCHANGED <<parent, path>> /\ Stay
    BY <1>5 DEF MoveStep, Done, DropCategory, Descendants, Below
  <2>2. \A k \in Categories \ keys : ~Moving(k)
    BY <1>1 DEF Moving
  <2> HIDE DEF keys
  <2>3. TreeOK'
    BY <1>2, <2>1 DEF TreeOK
  <2> QED BY <1>0, <1>1, <1>3, <2>1, <2>2, <2>3, StayPlaced, CategoryStepKeeps
<1> QED BY <1>4, <1>5 DEF MoveStep

\* A child moves out: no path is written yet, so what is under it holds the path it had.
LEMMA ChildKeeps ==
    ASSUME LayersInv, NEW w \in DissolveChange, writer = {w}, w.step = "child", row' = row, Quiet,
           NEW c \in DOMAIN parent, parent[c] = w.key,
           writer' = {[op |-> "dissolve", key |-> w.key, to |-> w.to, child |-> c, step |-> "childevent"]},
           parent' = [parent EXCEPT ![c] = w.to], path' = path, UpdateMoved(c)
    PROVE  LayersInv'
<1> DEFINE v == [op |-> "dissolve", key |-> w.key, to |-> w.to, child |-> c, step |-> "childevent"]
           up == [parent EXCEPT ![c] = w.to]
           below == Below(PathOf(parent), c)
<1>1. DOMAIN path \subseteq Categories /\ DOMAIN path = DOMAIN parent /\ Forest(parent) /\ Top \notin DOMAIN parent
      /\ \A k \in DOMAIN path : path[k] \in Seq(Categories)
  BY DEF LayersInv, TypeOK, TreeOK, Forest
<1>2. w.op = "dissolve" /\ w \in Change /\ w.key \in Categories /\ w.to \in Categories
  BY DEF DissolveChange, Change
<1>3. writer' = {v} /\ v \in DissolveChange /\ v.key = w.key /\ v.to = w.to /\ v.child = c /\ v.op = "dissolve" /\ v.step = "childevent"
  BY <1>1, <1>2 DEF DissolveChange
<1>4. w.key \in DOMAIN parent /\ w.to \in DOMAIN parent \cup {Top} /\ w.to # w.key /\ w.to \notin Below(PathOf(parent), w.key)
  BY <1>2, WhereItGoes
<1>5. w.to # c /\ w.to \notin below
  BY <1>1, <1>4, BelowTheChild
<1>6. Forest(up) /\ DOMAIN up = DOMAIN parent
  BY <1>1, <1>4, <1>5, MoveKeepsTheTree
<1>7. \A d \in DOMAIN parent \ {c} : up[d] = parent[d]
  OBVIOUS
<1> HIDE DEF v, up
<1>8. \A d \in DOMAIN parent : d # c /\ d \notin below => PathOf(up)[d] = PathOf(parent)[d]
  BY <1>1, <1>6, <1>7, PathStays
<1>9. w.to \notin Below(PathOf(up), w.key)
  <2>1. DOMAIN PathOf(up) = DOMAIN PathOf(parent) /\ DOMAIN PathOf(parent) = DOMAIN parent
    BY <1>1, <1>6, PathsTyped
  <2>2. w.to \in DOMAIN parent => PathOf(up)[w.to] = PathOf(parent)[w.to]
    BY <1>5, <1>8
  <2> QED BY <1>4, <2>1, <2>2 DEF Below
<1>10. parent' = up
  BY DEF up
<1>11. TreeOK'
  BY <1>1, <1>3, <1>4, <1>6, <1>9, <1>10 DEF TreeOK
<1>12. ASSUME NEW k \in Categories, ~Moving(k)', k \in DOMAIN path, path[k] = PathOf(parent)[k]
       PROVE  PathOf(up)[k] = path[k]
  <2>1. k # c /\ k \notin Below(path, c)
    BY <1>3, <1>12 DEF Moving
  <2>2. DOMAIN PathOf(parent) = DOMAIN parent
    BY <1>1, PathsTyped
  <2>3. k \notin below
    BY <1>1, <1>12, <2>1, <2>2 DEF Below
  <2> QED BY <1>1, <1>8, <1>12, <2>1, <2>3
<1>13. \A k : ~Moving(k)
  BY <1>2 DEF Moving
<1> DEFINE keys == {}
<1>14. Quiet /\ keys = {}
  OBVIOUS
<1> HIDE DEF keys, below
<1>15. \A k \in Categories \ keys :
          \/ Moving(k)'
          \/ /\ ~Moving(k)
             /\ k \in DOMAIN path /\ path[k] = PathOf(parent)[k] =>
                   k \in DOMAIN path' /\ path'[k] = path[k] /\ path'[k] = PathOf(parent')[k]
  BY <1>10, <1>12, <1>13
<1>16. w \in CategoryChange /\ v \in CategoryChange /\ DOMAIN path' \subseteq Categories
       /\ \A k \in DOMAIN path' : path'[k] \in Seq(Categories)
  BY <1>1, <1>3 DEF CategoryChange
<1>17. w \notin CourseChange
  BY <1>2, CourseOps
<1>18. PlacesGrow /\ \A d \in Courses : ~Unsettled(d) /\ StillPlaced(d)
  BY <1>17, PathsRewritten, CoursesSettled DEF LayersInv
<1> QED BY <1>3, <1>11, <1>14, <1>15, <1>16, <1>18, CategoryStepKeeps

LEMMA DissolveKeeps == ASSUME LayersInv, NEW w \in Change, writer = {w}, DissolveStep(w) PROVE LayersInv'
<1>1. w \in DissolveChange /\ w \in CategoryChange /\ row' = row /\ w.op = "dissolve"
  BY TheChange DEF DissolveStep, CategoryChange
<1>2. Forest(parent) /\ DOMAIN path = DOMAIN parent /\ DOMAIN path \subseteq Categories /\ \A k \in DOMAIN path : path[k] \in Seq(Categories)
  BY DEF LayersInv, TypeOK, TreeOK
<1>3. TreeOK /\ TypeOK /\ w \notin CourseChange
  BY <1>1, CourseOps DEF LayersInv
<1>4. CASE w.step = "child" /\ \E k \in DOMAIN parent : parent[k] = w.key
  <2>1. PICK c \in DOMAIN parent :
           /\ parent[c] = w.key
           /\ writer' = {[op |-> "dissolve", key |-> w.key, to |-> w.to, child |-> c, step |-> "childevent"]}
           /\ parent' = [parent EXCEPT ![c] = w.to]
           /\ Quiet /\ path' = path /\ UpdateMoved(c)
    BY <1>4 DEF DissolveStep, DissolveTo
  <2> QED BY <1>1, <1>4, <2>1, ChildKeeps
<1>5. CASE w.step = "childevent"
  <2> DEFINE keys == {w.child} \cup Below(path, w.child)
             v == [w EXCEPT !.step = "child"]
  <2>1. writer' = {v} /\ Drop(keys) /\ UNCHANGED <<parent, path>> /\ Stay
    BY <1>5 DEF DissolveStep, Step, DropCategory, Descendants, Below
  <2>2. v \in DissolveChange /\ v.op = "dissolve" /\ v.key = w.key /\ v.to = w.to /\ v.step = "child"
    BY <1>1, <1>5 DEF DissolveChange
  <2>3. \A k \in Categories \ keys : ~Moving(k)
    BY <1>1, <1>5 DEF Moving
  <2> HIDE DEF keys, v
  <2>4. TreeOK'
    BY <1>1, <1>3, <1>5, <2>1, <2>2 DEF TreeOK
  <2> QED BY <1>1, <1>2, <1>3, <1>5, <2>1, <2>2, <2>3, <2>4, StayPlaced, CoursesSettled, CategoryStepKeeps DEF CategoryChange
<1>6. CASE w.step = "child" /\ \A k \in DOMAIN parent : parent[k] # w.key
  <2> DEFINE keys == {}
             v == [w EXCEPT !.step = "remove"]
  <2>1. writer' = {v} /\ path' = PathOf(parent) /\ Quiet /\ parent' = parent /\ Stay
    BY <1>6 DEF DissolveStep, Step
  <2>2. v \in DissolveChange /\ v.op = "dissolve" /\ v.key = w.key /\ v.to = w.to /\ v.step = "remove"
    BY <1>1 DEF DissolveChange
  <2>3. \A k : ~Moving(k)
    BY <1>1, <1>6 DEF Moving
  <2>4. DOMAIN path' = DOMAIN parent /\ \A k \in DOMAIN path' : path'[k] \in Seq(Categories)
    BY <1>2, <2>1, PathsTyped
  <2>5. keys = {}
    OBVIOUS
  <2> HIDE DEF keys, v
  <2>6. TreeOK'
    BY <1>1, <1>3, <1>6, <2>1, <2>2, <2>4 DEF TreeOK
  <2>7. \A k \in Categories : k \in DOMAIN path /\ path[k] = PathOf(parent)[k] =>
           k \in DOMAIN path' /\ path'[k] = path[k] /\ path'[k] = PathOf(parent')[k]
    BY <1>2, <2>1, <2>4
  <2> QED BY <1>1, <1>2, <1>3, <1>6, <2>1, <2>2, <2>3, <2>4, <2>5, <2>6, <2>7, StayPlaced, CoursesSettled, CategoryStepKeeps DEF CategoryChange
<1>7. CASE w.step = "remove" /\ \A c \in DOMAIN row : place[c].category # w.key
  <2> DEFINE keys == {}
             v == [w EXCEPT !.step = "event"]
             up == [k \in DOMAIN parent \ {w.key} |-> parent[k]]
             paths == [k \in DOMAIN parent \ {w.key} |-> PathOf(parent)[k]]
  <2>1. writer' = {v} /\ parent' = up /\ path' = [k \in DOMAIN path \ {w.key} |-> path[k]] /\ Quiet /\ Stay
    BY <1>7 DEF DissolveStep, Step
  <2>2. v \in DissolveChange /\ v.op = "dissolve" /\ v.key = w.key /\ v.step = "event"
    BY <1>1 DEF DissolveChange
  <2>3. path = PathOf(parent) /\ \A k \in DOMAIN parent : parent[k] # w.key
    BY <1>1, <1>3, <1>7 DEF TreeOK
  <2>4. path' = paths
    BY <1>2, <2>1, <2>3
  <2>5. Forest(up) /\ PathOf(up) = paths
    BY <1>2, <2>3, LeafLeaves
  <2>6. DOMAIN up = DOMAIN parent \ {w.key} /\ DOMAIN paths = DOMAIN up
    OBVIOUS
  <2>7. \A k \in DOMAIN parent \ {w.key} : paths[k] = path[k]
    BY <2>3
  <2>8. (\A k : ~Moving(k)) /\ Moving(w.key)'
    BY <1>1, <1>7, <2>1, <2>2 DEF Moving
  <2>9. keys = {}
    OBVIOUS
  <2> HIDE DEF keys, v, up, paths
  <2>10. TreeOK'
    BY <2>1, <2>2, <2>4, <2>5, <2>6 DEF TreeOK
  <2>11. DOMAIN path' = DOMAIN parent \ {w.key} /\ \A k \in DOMAIN path' : path'[k] = path[k] /\ path'[k] = PathOf(parent')[k]
    BY <2>1, <2>4, <2>5, <2>6, <2>7
  <2> QED BY <1>1, <1>2, <1>3, <1>7, <2>1, <2>2, <2>8, <2>9, <2>10, <2>11, StayPlaced, CoursesSettled, CategoryStepKeeps DEF CategoryChange
<1>8. CASE w.step = "event"
  <2> DEFINE keys == {w.key}
  <2>1. writer' = {} /\ Drop(keys) /\ UNCHANGED <<parent, path>> /\ Stay
    BY <1>8 DEF DissolveStep, Done
  <2>2. \A k \in Categories \ keys : ~Moving(k)
    BY <1>1, <1>8 DEF Moving
  <2> HIDE DEF keys
  <2>3. TreeOK'
    BY <1>1, <1>3, <1>8, <2>1 DEF TreeOK
  <2> QED BY <1>1, <1>2, <1>3, <1>8, <2>1, <2>2, <2>3, StayPlaced, CoursesSettled, CategoryStepKeeps
<1>9. CASE w.step = "remove" /\ \E c \in DOMAIN row : place[c].category = w.key
  <2>1. PICK c \in DOMAIN row :
           /\ writer' = {[op |-> "dissolve", key |-> w.key, to |-> w.to, child |-> c, step |-> "courseevent"]}
           /\ MoveCourse(c, w.to) /\ Quiet /\ UNCHANGED <<parent, path>>
    BY <1>9 DEF DissolveStep, DissolveTo
  <2> DEFINE v == [op |-> "dissolve", key |-> w.key, to |-> w.to, child |-> c, step |-> "courseevent"]
             keys == {}
  <2>2. c \in Courses /\ w.key \in Categories /\ w.to \in Categories
    BY <1>1, <1>3 DEF TypeOK, DissolveChange
  <2>3. writer' = {v} /\ v \in DissolveChange /\ v.op = "dissolve" /\ v.key = w.key /\ v.to = w.to /\ v.child = c
        /\ v.step = "courseevent" /\ keys = {}
    BY <2>1, <2>2 DEF DissolveChange
  <2>4. PlacesGrow /\ \A d \in Courses \ {c} : StillPlaced(d)
    BY <1>3, <2>1, <2>2, CoursePlaced
  <2>5. Unsettled(c)' /\ \A d : ~Unsettled(d)
    <3>1. Unsettled(c)'
      BY <2>3 DEF Unsettled
    <3> QED BY <1>3, <1>9, <3>1, CoursesSettled
  <2>6. \A k : ~Moving(k)
    BY <1>1, <1>9 DEF Moving
  <2> HIDE DEF keys, v
  <2>7. TreeOK'
    BY <1>1, <1>3, <1>9, <2>1, <2>3 DEF TreeOK
  <2> QED BY <1>1, <1>2, <2>1, <2>3, <2>4, <2>5, <2>6, <2>7, CategoryStepKeeps DEF CategoryChange
<1>10. CASE w.step = "courseevent"
  <2> DEFINE keys == {w.child}
             v == [w EXCEPT !.step = "remove"]
  <2>1. writer' = {v} /\ Drop(keys) /\ UNCHANGED <<parent, path>> /\ Stay
    BY <1>10 DEF DissolveStep, Step
  <2>2. v \in DissolveChange /\ v.op = "dissolve" /\ v.key = w.key /\ v.to = w.to /\ v.step = "remove"
    BY <1>1, <1>10 DEF DissolveChange
  <2>3. \A k : ~Moving(k)
    BY <1>1, <1>10 DEF Moving
  <2>4. \A c \in Courses \ keys : ~Unsettled(c)
    BY <1>3 DEF Unsettled
  <2> HIDE DEF keys, v
  <2>5. TreeOK'
    BY <1>1, <1>3, <1>10, <2>1, <2>2 DEF TreeOK
  <2> QED BY <1>1, <1>2, <1>3, <2>1, <2>2, <2>3, <2>4, <2>5, StayPlaced, CategoryStepKeeps DEF CategoryChange
<1> QED BY <1>4, <1>5, <1>6, <1>7, <1>8, <1>9, <1>10 DEF DissolveStep

(***************************************************************************)
(* A change begins: it is to delete nothing yet, and goes where no cycle   *)
(* comes of it.                                                            *)
(***************************************************************************)

LEMMA BeginKeeps == ASSUME LayersInv, BeginChange PROVE LayersInv'
<1>1. writer = {} /\ UNCHANGED <<row, parent, path, place, moved, cache, hand>>
  BY DEF BeginChange
<1>2. DOMAIN row \subseteq Courses /\ DOMAIN path \subseteq Categories /\ DOMAIN path = DOMAIN parent /\ path = PathOf(parent)
  BY <1>1 DEF LayersInv, TypeOK, TreeOK
<1>3. PICK w :
         /\ writer' = {w} /\ w \in Change /\ w.step \in {"commit", "hook", "child"}
         /\ w.op \in {"move", "dissolve"} =>
               w.key \in DOMAIN parent /\ w.to \in DOMAIN parent \cup {Top} /\ w.to # w.key /\ w.to \notin Below(path, w.key)
  <2>1. CASE \E c \in DOMAIN row : Edit(c) \/ MarkForDeletion(c) \/ Delete(c)
    <3>1. PICK c \in DOMAIN row : Edit(c) \/ MarkForDeletion(c) \/ Delete(c)
      BY <2>1
    <3>2. PICK w \in CourseChange : writer' = {w} /\ w.step \in {"commit", "hook"}
      <4>1. CASE Edit(c)
        <5>1. [op |-> "edit", key |-> c, step |-> "commit"] \in EditChange
          BY <1>2 DEF EditChange
        <5> QED BY <4>1, <5>1 DEF Edit, CourseChange
      <4>2. CASE MarkForDeletion(c)
        <5>1. [op |-> "mark", key |-> c, step |-> "hook"] \in MarkChange
          BY <1>2 DEF MarkChange
        <5> QED BY <4>2, <5>1 DEF MarkForDeletion, CourseChange
      <4>3. CASE Delete(c)
        <5>1. [op |-> "delete", key |-> c, step |-> "hook"] \in DeleteChange
          BY <1>2 DEF DeleteChange
        <5> QED BY <4>3, <5>1 DEF Delete, CourseChange
      <4> QED BY <3>1, <4>1, <4>2, <4>3
    <3>3. w.op \notin {"move", "dissolve"}
      BY DEF CourseChange, EditChange, MarkChange, DeleteChange
    <3> QED BY <3>2, <3>3 DEF Change
  <2>2. CASE \E k \in DOMAIN path : \E to \in (DOMAIN path \cup {Top}) \ Under(k) : Move(k, to) \/ (to # Top /\ Dissolve(k, to))
    <3>1. PICK k \in DOMAIN path : \E to \in (DOMAIN path \cup {Top}) \ Under(k) : Move(k, to) \/ (to # Top /\ Dissolve(k, to))
      BY <2>2
    <3>2. PICK to \in (DOMAIN path \cup {Top}) \ Under(k) : Move(k, to) \/ (to # Top /\ Dissolve(k, to))
      BY <3>1
    <3>3. to # k /\ to \notin Below(path, k)
      BY DEF Under, Descendants, Below
    <3>4. PICK w \in Change : writer' = {w} /\ w.step \in {"commit", "child"} /\ w.key = k /\ w.to = to
      <4>1. CASE Move(k, to)
        <5>1. [op |-> "move", key |-> k, to |-> to, step |-> "commit"] \in MoveChange
          BY <1>2 DEF MoveChange
        <5> QED BY <4>1, <5>1 DEF Move, Change
      <4>2. CASE to # Top /\ Dissolve(k, to)
        <5>1. [op |-> "dissolve", key |-> k, to |-> to, step |-> "child"] \in DissolveChange
          BY <1>2, <4>2 DEF DissolveChange
        <5> QED BY <4>2, <5>1 DEF Dissolve, Change
      <4> QED BY <3>2, <4>1, <4>2
    <3> QED BY <1>2, <3>3, <3>4
  <2> QED BY <2>1, <2>2 DEF BeginChange
<1>4. TypeOK'
  BY <1>1, <1>3 DEF LayersInv, TypeOK, PlacesTyped
<1>5. TreeOK'
  BY <1>1, <1>2, <1>3 DEF LayersInv, TreeOK
<1>6. ASSUME NEW k, NEW e, EntryOK(k, e) PROVE EntryOK(k, e)'
  <2>1. ~Unsettled(k) /\ ~Moving(k)
    BY <1>1 DEF Unsettled, Moving
  <2> QED BY <1>1, <1>6, <2>1 DEF EntryOK, CourseEntry, CategoryEntry, Placed
<1>7. EntriesOK'
  BY <1>1, <1>6, QuietKeeps DEF LayersInv, Carried, Quiet
<1> QED BY <1>4, <1>5, <1>7 DEF LayersInv

LEMMA NextKeeps == ASSUME LayersInv, [Next]_vars PROVE LayersInv'
<1>1. ASSUME NEW r \in Requests, GetMany(r) \/ ReadRows(r) \/ SetMany(r) PROVE LayersInv'
  BY <1>1, GetManyKeeps, ReadRowsKeeps, SetManyKeeps
<1>2. CASE Write
  <2>1. PICK w \in writer :
           \/ EditStep(w) \/ HookStep(w) \/ MarkStep(w) \/ DeleteStep(w) \/ ShutdownStep(w)
           \/ MoveStep(w) \/ DissolveStep(w)
    BY <1>2 DEF Write
  <2>2. w \in Change /\ writer = {w}
    BY DEF LayersInv, TypeOK
  <2> QED BY <2>1, <2>2, EditKeeps, HookKeeps, MarkKeeps, DeleteKeeps, ShutdownKeeps, MoveKeeps, DissolveKeeps
<1>3. CASE UNCHANGED vars
  <2>1. UNCHANGED site /\ UNCHANGED <<cache, hand>>
    BY <1>3 DEF vars, site
  <2>2. TypeOK' /\ TreeOK'
    BY <2>1 DEF LayersInv, TypeOK, PlacesTyped, TreeOK, site
  <2>3. EntriesOK'
    BY <2>1, SiteStays, QuietKeeps DEF LayersInv, Carried, Quiet
  <2> QED BY <2>2, <2>3 DEF LayersInv
<1> QED BY <1>1, <1>2, <1>3, BeginKeeps DEF Next

(***************************************************************************)
(* The theorems                                                            *)
(***************************************************************************)

\* What is claimed of every entry, cached or in a request's hand, holds in every reachable state.
THEOREM LayersInvariant == Spec => []LayersInv
<1>1. Init => LayersInv
  BY InitHolds
<1>2. LayersInv /\ [Next]_vars => LayersInv'
  BY NextKeeps
<1> QED BY <1>1, <1>2, PTL DEF Spec

\* No course keeps an entry from before a change that is over, but one stored late; the context path alone may be
\* one that a category above it has moved away from.
THEOREM CoursesAreFollowed == Spec => []CourseEntriesFollowTheRows
<1>1. LayersInv => CourseEntriesFollowTheRows
  BY DEF LayersInv, EntriesOK, EntryOK, CourseEntry, Placed, CourseEntriesFollowTheRows, Unsettled
<1> QED BY <1>1, LayersInvariant, PTL

\* An aborted deletion hides no course, in whatever order the fills and the deletes fell.
THEOREM LiveCoursesAreShown == Spec => []NoLiveCourseIsHidden
<1>1. LayersInv => NoLiveCourseIsHidden
  BY DEF LayersInv, EntriesOK, EntryOK, CourseEntry, NoLiveCourseIsHidden
<1> QED BY <1>1, LayersInvariant, PTL

\* The delete by path reaches every entry a move made stale, in a tree of any size.
THEOREM CategoriesAreFollowed == Spec => []CategoryEntriesFollowTheTree
<1>1. LayersInv => CategoryEntriesFollowTheTree
  BY DEF LayersInv, EntriesOK, EntryOK, CategoryEntry, CategoryEntriesFollowTheTree, Moving
<1> QED BY <1>1, LayersInvariant, PTL

=============================================================================

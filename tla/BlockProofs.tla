---------------------------- MODULE BlockProofs -----------------------------
(***************************************************************************)
(* Proofs about Block and the reads it sends, for any payloads, any number *)
(* of retries, failures and presses: the "Reconnecting" line is drawn      *)
(* exactly while a read retries, tier 1 keeps the last load's payload      *)
(* (Block implements LastAsk), the stored preference is what the page      *)
(* shows, the stars drawn are the server's, whatever waits has the read    *)
(* that ends it out, and the line never drops the keyboard.                *)
(***************************************************************************)
EXTENDS Block, FiniteSetTheorems, TLAPS

(***************************************************************************)
(* The inductive invariant                                                 *)
(***************************************************************************)

Kinds == {"tier1", "details", "row", "counts", "news"}

\* Who numbers a read: a details request keeps the number of its load.
Asker(kind) == IF kind = "details" THEN "tier1" ELSE kind
numbers == [tier1 |-> seq, row |-> strip.row.seq, counts |-> strip.counts.seq, news |-> news.seq]

\* A read that shares the batch's attempt has not failed yet.
ReadOK(r) ==
    /\ DOMAIN r = {"kind", "mine", "attempt", "sleeps", "batched", "turns", "sees", "rest"}
    /\ r.kind \in Kinds /\ r.mine \in Nat /\ r.attempt \in Nat
    /\ r.sleeps \in BOOLEAN /\ r.batched \in BOOLEAN
    /\ r.batched => ~Retried(r)

SameAsk(r, q) == Asker(r.kind) = Asker(q.kind) /\ r.mine = q.mine

\* Of one ask, one read is out; without it two reads could become one when both sleep, and be counted twice.
OneReadOfAnAsk(R) == \A r, q \in R : SameAsk(r, q) => r = q

ReadsOK(R) == IsFiniteSet(R) /\ (\A r \in R : ReadOK(r)) /\ OneReadOfAnAsk(R)

\* The reads out were numbered by their askers.
NumberedBy(R, n) == \A r \in R : r.mine <= n[Asker(r.kind)]

Retrying(R) == {r \in R : Retried(r)}

\* repository.ts's count is of the reads that retry, and the line is drawn while it is not 0.
CountIsExact ==
    /\ retrying = Cardinality(Retrying(reads))
    /\ reconnecting \in Nat
    /\ reconnecting # 0 <=> retrying # 0

PartOK(p) == DOMAIN p = {"asked", "attempt", "seq", "in", "failed", "retrying"} /\ p.seq \in Nat
StripOK(s) == DOMAIN s = {"open", "row", "counts"} /\ PartOK(s.row) /\ PartOK(s.counts)
NewsOK(n) == DOMAIN n = {"answer", "failed", "retrying", "hidden", "asked", "seq"} /\ n.seq \in Nat
Tier1OK == seq \in Nat \ {0} /\ DOMAIN data = {"of", "cards", "twice", "stars", "more"}

BlockInv ==
    /\ Tier1OK /\ StripOK(strip) /\ NewsOK(news)
    /\ ReadsOK(reads) /\ NumberedBy(reads, numbers)
    /\ CountIsExact

(***************************************************************************)
(* Lemmas: repository.ts's count                                           *)
(***************************************************************************)

\* Reads that are over leave the count, and what is sent in their stead is not in it.
LEMMA SettleCounts ==
    ASSUME IsFiniteSet(reads), CountIsExact, NEW R, R \subseteq reads, settle(R),
           NEW F, \A f \in F : ~Retried(f), reads' = (reads \ R) \cup F
    PROVE  CountIsExact'
<1> DEFINE A == Retrying(reads)
           B == Retrying(R)
<1>1. IsFiniteSet(A) /\ B \subseteq A
  BY FS_Subset DEF Retrying
<1>2. IsFiniteSet(B) /\ Cardinality(A) \in Nat /\ Cardinality(B) \in Nat /\ Cardinality(B) <= Cardinality(A)
  BY <1>1, FS_Subset, FS_CardinalityType
<1>3. Cardinality(A \ B) = Cardinality(A) - Cardinality(B)
  <2>1. A \cap B = B
    BY <1>1
  <2> QED BY <1>1, <2>1, FS_Difference
<1>4. Retrying(reads') = A \ B
  BY DEF Retrying
<1>5. retrying' = retrying - Cardinality(B)
  BY DEF settle, Retrying
<1>6. reconnecting' = IF Cardinality(B) > 0 /\ retrying' = 0 THEN 0 ELSE reconnecting
  BY DEF settle, Retrying
<1> HIDE DEF A, B
<1>7. retrying' = Cardinality(Retrying(reads'))
  BY <1>3, <1>4, <1>5 DEF CountIsExact, A
<1> QED BY <1>2, <1>5, <1>6, <1>7 DEF CountIsExact, A

\* A read sent while none is over changes nothing of it.
LEMMA SendingCounts ==
    ASSUME CountIsExact, NEW a, ~Retried(a), reads' = reads \cup {a},
           UNCHANGED <<retrying, reconnecting>>
    PROVE  CountIsExact'
<1>1. Retrying(reads') = Retrying(reads)
  BY DEF Retrying
<1> QED BY <1>1 DEF CountIsExact

\* A read as it goes to sleep.
Asleep(r) == [r EXCEPT !.sleeps = TRUE, !.batched = FALSE]

LEMMA AsleepOK ==
    ASSUME NEW r, ReadOK(r)
    PROVE  /\ ReadOK(Asleep(r)) /\ Retried(Asleep(r))
           /\ Asleep(r).kind = r.kind /\ Asleep(r).mine = r.mine
BY DEF ReadOK, Retried, Asleep

\* Each read of an attempt that fails is asleep once.
LEMMA AsleepCounts ==
    ASSUME NEW R, ReadsOK(R)
    PROVE  LET T == {Asleep(r) : r \in R} IN IsFiniteSet(T) /\ Cardinality(T) = Cardinality(R)
<1> DEFINE T == {Asleep(r) : r \in R}
           f == [r \in R |-> Asleep(r)]
<1>1. f \in Surjection(R, T)
  BY DEF Surjection
<1>2. f \in Injection(R, T)
  <2>1. ASSUME NEW r \in R, NEW q \in R, f[r] = f[q] PROVE r = q
    <3>1. Asleep(r).kind = Asleep(q).kind /\ Asleep(r).mine = Asleep(q).mine
      BY <2>1
    <3>2. SameAsk(r, q)
      BY <3>1, AsleepOK DEF ReadsOK, SameAsk
    <3> QED BY <3>2 DEF ReadsOK, OneReadOfAnAsk
  <2> QED BY <2>1 DEF Injection, IsInjective
<1> HIDE DEF f
<1> QED BY <1>1, <1>2, FS_Surjection DEF ReadsOK

\* What may end at once is out.
LEMMA AttemptsAreOut ==
    ASSUME NEW R \in Attempts
    PROVE  R \subseteq reads /\ R # {}
BY DEF Attempts, Batch

\* A set of reads of the asks of another keeps their numbers.
LEMMA SameNumbers ==
    ASSUME NEW R, NEW S, NEW n, NumberedBy(R, n),
           \A s \in S : \E r \in R : s.kind = r.kind /\ s.mine = r.mine
    PROVE  NumberedBy(S, n)
BY DEF NumberedBy

\* An attempt fails: its reads are counted, whichever were counted before.
LEMMA RetryLaterCounts ==
    ASSUME ReadsOK(reads), NumberedBy(reads, numbers), CountIsExact, NEW R \in Attempts, retryLater(R)
    PROVE  ReadsOK(reads') /\ NumberedBy(reads', numbers) /\ CountIsExact'
<1> DEFINE S == reads \ R
           T == {Asleep(r) : r \in R}
           A == Retrying(reads)
           B == Retrying(R)
<1>1. R \subseteq reads /\ R # {}
  BY AttemptsAreOut
<1>2. reads' = S \cup T
  BY DEF retryLater, Asleep
<1>3. ReadsOK(R) /\ ReadsOK(S) /\ IsFiniteSet(R) /\ IsFiniteSet(S)
  <2>1. IsFiniteSet(R) /\ IsFiniteSet(S)
    BY <1>1, FS_Subset DEF ReadsOK
  <2> QED BY <1>1, <2>1 DEF ReadsOK, OneReadOfAnAsk
<1>4. IsFiniteSet(T) /\ Cardinality(T) = Cardinality(R)
  BY <1>3, AsleepCounts
<1>5. ASSUME NEW t \in T
      PROVE  ReadOK(t) /\ Retried(t) /\ \E r \in R : t.kind = r.kind /\ t.mine = r.mine
  <2>1. PICK r \in R : t = Asleep(r)
    OBVIOUS
  <2> QED BY <1>3, <2>1, AsleepOK DEF ReadsOK
<1>6. ASSUME NEW t \in T, NEW s \in S PROVE ~SameAsk(t, s)
  <2>1. PICK r \in R : t.kind = r.kind /\ t.mine = r.mine
    BY <1>5
  <2> QED BY <1>1, <2>1 DEF ReadsOK, OneReadOfAnAsk, SameAsk
<1>7. ASSUME NEW t \in T, NEW u \in T, SameAsk(t, u) PROVE t = u
  <2>1. PICK r \in R, q \in R : t = Asleep(r) /\ u = Asleep(q)
    OBVIOUS
  <2>2. SameAsk(r, q)
    BY <1>3, <1>7, <2>1, AsleepOK DEF ReadsOK, SameAsk
  <2> QED BY <1>3, <2>1, <2>2 DEF ReadsOK, OneReadOfAnAsk
<1>8. ReadsOK(reads')
  <2>1. IsFiniteSet(reads')
    BY <1>2, <1>3, <1>4, FS_Union
  <2>2. \A r \in reads' : ReadOK(r)
    BY <1>2, <1>3, <1>5 DEF ReadsOK
  <2>3. ASSUME NEW r \in reads', NEW q \in reads', SameAsk(r, q) PROVE r = q
    <3>1. SameAsk(q, r)
      BY <2>3 DEF SameAsk
    <3>2. CASE r \in S /\ q \in S
      BY <1>3, <2>3, <3>2 DEF ReadsOK, OneReadOfAnAsk
    <3> HIDE DEF S, T
    <3> QED BY <1>2, <1>6, <1>7, <2>3, <3>1, <3>2
  <2> QED BY <2>1, <2>2, <2>3 DEF ReadsOK, OneReadOfAnAsk
<1>9. NumberedBy(reads', numbers)
  <2>1. \A s \in reads' : \E r \in reads : s.kind = r.kind /\ s.mine = r.mine
    BY <1>1, <1>2, <1>5
  <2> QED BY <2>1, SameNumbers
<1>10. CountIsExact'
  <2>1. Retrying(reads') = (A \ B) \cup T
    <3>1. Retrying(S) = A \ B
      BY <1>1 DEF Retrying
    <3>2. Retrying(T) = T
      BY <1>5 DEF Retrying
    <3> HIDE DEF S, T
    <3> QED BY <1>2, <3>1, <3>2 DEF Retrying
  <2>2. (A \ B) \cap T = {}
    <3>1. A \ B \subseteq S
      BY <1>1 DEF Retrying
    <3> HIDE DEF S, T
    <3> QED BY <1>6, <3>1 DEF SameAsk
  <2>3. /\ IsFiniteSet(A) /\ IsFiniteSet(B) /\ B \subseteq A
        /\ Cardinality(A) \in Nat /\ Cardinality(B) \in Nat /\ Cardinality(R) \in Nat
    BY <1>1, <1>3, FS_Subset, FS_CardinalityType DEF Retrying, ReadsOK
  <2>4. Cardinality(A \ B) = Cardinality(A) - Cardinality(B) /\ IsFiniteSet(A \ B)
    <3>1. A \cap B = B
      BY <2>3
    <3> QED BY <2>3, <3>1, FS_Difference
  <2>5. Cardinality({r \in R : ~Retried(r)}) = Cardinality(R) - Cardinality(B)
    <3>1. {r \in R : ~Retried(r)} = R \ B /\ R \cap B = B
      BY DEF Retrying
    <3> QED BY <1>3, <3>1, FS_Difference
  <2>6. Cardinality((A \ B) \cup T) = Cardinality(A) - Cardinality(B) + Cardinality(R)
    <3> HIDE DEF A, B, T
    <3>1. Cardinality((A \ B) \cup T) = Cardinality(A \ B) + Cardinality(T) - Cardinality((A \ B) \cap T)
      BY <1>4, <2>4, FS_Union
    <3>2. Cardinality((A \ B) \cap T) = 0
      BY <2>2, FS_EmptySet
    <3> QED BY <1>4, <2>3, <2>4, <3>1, <3>2
  <2>7. retrying' = retrying + Cardinality(R) - Cardinality(B) /\ retrying = Cardinality(A)
    BY <2>3, <2>5 DEF retryLater, CountIsExact
  <2>8. Cardinality(R) # 0 /\ Cardinality(B) <= Cardinality(A)
    BY <1>1, <1>3, <2>3, FS_EmptySet, FS_Subset
  <2>9. reconnecting' \in Nat /\ reconnecting' # 0
    <3>1. PICK r \in R : reconnecting' = r.attempt + 1
      BY DEF retryLater
    <3> QED BY <1>3, <3>1 DEF ReadsOK, ReadOK
  <2>10. retrying' = Cardinality(Retrying(reads')) /\ retrying' # 0
    <3> HIDE DEF A, B, T
    <3> QED BY <2>1, <2>3, <2>6, <2>7, <2>8
  <2> QED BY <2>9, <2>10 DEF CountIsExact
<1> QED BY <1>8, <1>9, <1>10

\* A read that slept asks again, and still counts.
LEMMA AskAgainCounts ==
    ASSUME ReadsOK(reads), NumberedBy(reads, numbers), CountIsExact, NEW r, askAgain(r)
    PROVE  ReadsOK(reads') /\ NumberedBy(reads', numbers) /\ CountIsExact'
<1> DEFINE t == [r EXCEPT !.sleeps = FALSE, !.attempt = @ + 1]
           S == reads \ {r}
           A == Retrying(reads)
<1>1. r \in reads /\ r.sleeps /\ ReadOK(r) /\ reads' = S \cup {t}
      /\ UNCHANGED <<retrying, reconnecting>>
  BY DEF askAgain, ReadsOK
<1>2. ReadOK(t) /\ Retried(t) /\ t.kind = r.kind /\ t.mine = r.mine
  BY <1>1 DEF ReadOK, Retried
<1>3. IsFiniteSet(S) /\ IsFiniteSet(reads') /\ IsFiniteSet(reads)
  BY <1>1, FS_RemoveElement, FS_AddElement DEF ReadsOK
<1> HIDE DEF t
<1>4. ASSUME NEW s \in S PROVE ~SameAsk(t, s) /\ ~SameAsk(s, t)
  BY <1>1, <1>2 DEF ReadsOK, OneReadOfAnAsk, SameAsk
<1>5. ReadsOK(reads')
  <2>1. \A q \in reads' : ReadOK(q)
    BY <1>1, <1>2 DEF ReadsOK
  <2>2. ASSUME NEW u \in reads', NEW q \in reads', SameAsk(u, q) PROVE u = q
    <3>1. CASE u \in S /\ q \in S
      BY <2>2, <3>1 DEF ReadsOK, OneReadOfAnAsk
    <3> HIDE DEF S
    <3> QED BY <1>1, <1>4, <2>2, <3>1
  <2> QED BY <1>3, <2>1, <2>2 DEF ReadsOK, OneReadOfAnAsk
<1>6. NumberedBy(reads', numbers)
  <2>1. \A s \in reads' : \E q \in reads : s.kind = q.kind /\ s.mine = q.mine
    BY <1>1, <1>2
  <2> QED BY <2>1, SameNumbers
<1>7. CountIsExact'
  <2>1. r \in A /\ IsFiniteSet(A)
    BY <1>1, <1>3, FS_Subset DEF Retrying, Retried
  <2>2. Retrying(reads') = (A \ {r}) \cup {t}
    BY <1>1, <1>2 DEF Retrying
  <2>3. t \notin A \ {r}
    BY <1>4 DEF SameAsk, Retrying
  <2>4. Cardinality((A \ {r}) \cup {t}) = Cardinality(A)
    <3> HIDE DEF A
    <3>1. IsFiniteSet(A \ {r}) /\ Cardinality(A \ {r}) = Cardinality(A) - 1 /\ Cardinality(A) \in Nat
      BY <2>1, FS_RemoveElement, FS_CardinalityType
    <3> QED BY <2>3, <3>1, FS_AddElement
  <2> QED BY <1>1, <2>2, <2>4 DEF CountIsExact
<1> QED BY <1>5, <1>6, <1>7

(***************************************************************************)
(* Lemmas: what a render sends                                             *)
(***************************************************************************)

\* A read as it leaves was not retried.
LEMMA NewRead ==
    ASSUME NEW kind \in Kinds, NEW mine \in Nat
    PROVE  LET r == Read(kind, mine)
               b == [r EXCEPT !.batched = TRUE]
           IN  /\ ReadOK(r) /\ ~Retried(r) /\ r.kind = kind /\ r.mine = mine
               /\ ReadOK(b) /\ ~Retried(b) /\ b.kind = kind /\ b.mine = mine
BY DEF Read, ReadOK, Retried, Kinds

\* Reads that go on, and new ones numbered after them, are one of an ask each.
LEMMA SendingKeeps ==
    ASSUME NEW base, ReadsOK(base), NEW n, NumberedBy(base, n), NEW m, NEW F, IsFiniteSet(F),
           \A kind \in Kinds : n[Asker(kind)] \in Nat /\ m[Asker(kind)] \in Nat /\ n[Asker(kind)] <= m[Asker(kind)],
           \A f \in F : ReadOK(f) /\ n[Asker(f.kind)] < f.mine /\ f.mine <= m[Asker(f.kind)],
           OneReadOfAnAsk(F)
    PROVE  ReadsOK(base \cup F) /\ NumberedBy(base \cup F, m)
<1>1. \A r \in base \cup F : ReadOK(r)
  BY DEF ReadsOK
<1>2. IsFiniteSet(base \cup F)
  BY FS_Union DEF ReadsOK
<1>3. ASSUME NEW b \in base, NEW f \in F PROVE ~SameAsk(b, f) /\ ~SameAsk(f, b)
  <2>1. ReadOK(b) /\ ReadOK(f) /\ b.mine <= n[Asker(b.kind)] /\ n[Asker(f.kind)] < f.mine
    BY DEF ReadsOK, NumberedBy
  <2>2. n[Asker(f.kind)] \in Nat /\ b.mine \in Nat /\ f.mine \in Nat
    BY <2>1 DEF ReadOK
  <2> QED BY <2>1, <2>2 DEF SameAsk
<1>4. OneReadOfAnAsk(base \cup F)
  BY <1>3 DEF ReadsOK, OneReadOfAnAsk
<1>5. ASSUME NEW r \in base \cup F PROVE r.mine <= m[Asker(r.kind)]
  <2>1. CASE r \in F
    BY <2>1
  <2>2. CASE r \in base
    <3>1. ReadOK(r) /\ r.mine <= n[Asker(r.kind)]
      BY <2>2 DEF ReadsOK, NumberedBy
    <3>2. /\ n[Asker(r.kind)] \in Nat /\ m[Asker(r.kind)] \in Nat /\ n[Asker(r.kind)] <= m[Asker(r.kind)]
          /\ r.mine \in Nat
      BY <3>1 DEF ReadOK
    <3> QED BY <3>1, <3>2
  <2> QED BY <2>1, <2>2
<1> QED BY <1>1, <1>2, <1>4, <1>5 DEF ReadsOK, NumberedBy

\* The strip and the line as a render takes them: whatever changed, their asks are counted as before.
SameCounts(s, n) ==
    /\ StripOK(s) /\ NewsOK(n)
    /\ s.row.seq = strip.row.seq /\ s.counts.seq = strip.counts.seq /\ n.seq = news.seq

LEMMA PartAsked == ASSUME NEW p, PartOK(p), NEW t PROVE PartOK(AskPart(p, t)) /\ AskPart(p, t).seq = p.seq + 1
BY DEF PartOK, AskPart

LEMMA StripIsAsked ==
    ASSUME NEW s, StripOK(s), NEW t
    PROVE  /\ StripOK(StripAsked(s, t))
           /\ StripAsked(s, t).row.seq = IF RowDue(s, t) THEN s.row.seq + 1 ELSE s.row.seq
           /\ StripAsked(s, t).counts.seq = IF CountsDue(s, t) THEN s.counts.seq + 1 ELSE s.counts.seq
<1> DEFINE k == StripAsked(s, t)
<1>1. /\ DOMAIN k = DOMAIN s
      /\ k.row = IF RowDue(s, t) THEN AskPart(s.row, t) ELSE s.row
      /\ k.counts = IF CountsDue(s, t) THEN AskPart(s.counts, t) ELSE s.counts
  BY DEF StripAsked, StripOK
<1> HIDE DEF k
<1>2. /\ PartOK(s.row) /\ PartOK(AskPart(s.row, t)) /\ AskPart(s.row, t).seq = s.row.seq + 1
      /\ PartOK(s.counts) /\ PartOK(AskPart(s.counts, t)) /\ AskPart(s.counts, t).seq = s.counts.seq + 1
  BY PartAsked DEF StripOK
<1>3. /\ StripOK(k)
      /\ k.row.seq = IF RowDue(s, t) THEN s.row.seq + 1 ELSE s.row.seq
      /\ k.counts.seq = IF CountsDue(s, t) THEN s.counts.seq + 1 ELSE s.counts.seq
  BY <1>1, <1>2 DEF StripOK
<1> QED BY <1>3 DEF k

LEMMA NewsIsAsked ==
    ASSUME NEW n, NewsOK(n), NEW t
    PROVE  /\ NewsOK(NewsAsked(n, t))
           /\ NewsAsked(n, t).seq = IF NewsDue(n, t) THEN n.seq + 1 ELSE n.seq
BY DEF NewsOK, NewsAsked

\* The reads a render sends, batched or not (Render).
Sent(s, n, t, pair) ==
    LET asked == StripReads(s, t) \cup NewsReads(n, t)
    IN  IF pair THEN {[r EXCEPT !.batched = TRUE] : r \in asked} ELSE asked

\* Each is its asker's next, and none is retried.
LEMMA RenderSends ==
    ASSUME NEW s, StripOK(s), NEW n, NewsOK(n), NEW t, NEW pair \in BOOLEAN
    PROVE  /\ IsFiniteSet(Sent(s, n, t, pair)) /\ OneReadOfAnAsk(Sent(s, n, t, pair))
           /\ \A f \in Sent(s, n, t, pair) :
                 /\ ReadOK(f) /\ ~Retried(f)
                 /\ \/ f.kind = "row" /\ RowDue(s, t) /\ f.mine = s.row.seq + 1
                    \/ f.kind = "counts" /\ CountsDue(s, t) /\ f.mine = s.counts.seq + 1
                    \/ f.kind = "news" /\ NewsDue(n, t) /\ f.mine = n.seq + 1
<1> DEFINE asked == StripReads(s, t) \cup NewsReads(n, t)
           b(r) == [r EXCEPT !.batched = TRUE]
           row == Read("row", s.row.seq + 1)
           counts == Read("counts", s.counts.seq + 1)
           line == Read("news", n.seq + 1)
           F == IF pair THEN {b(r) : r \in asked} ELSE asked
<1>1. /\ asked \subseteq {row, counts, line}
      /\ row \in asked => RowDue(s, t)
      /\ counts \in asked => CountsDue(s, t)
      /\ line \in asked => NewsDue(n, t)
  <2>1. row.kind = "row" /\ counts.kind = "counts" /\ line.kind = "news"
    BY DEF Read
  <2>2. row # counts /\ row # line /\ counts # line
    BY <2>1
  <2> HIDE DEF row, counts, line
  <2>3. /\ StripReads(s, t) = (IF RowDue(s, t) THEN {row} ELSE {}) \cup (IF CountsDue(s, t) THEN {counts} ELSE {})
        /\ NewsReads(n, t) = IF NewsDue(n, t) THEN {line} ELSE {}
    BY DEF StripReads, NewsReads, row, counts, line
  <2> QED BY <2>2, <2>3
<1>2. /\ s.row.seq + 1 \in Nat /\ s.counts.seq + 1 \in Nat /\ n.seq + 1 \in Nat
      /\ "row" \in Kinds /\ "counts" \in Kinds /\ "news" \in Kinds
  BY DEF StripOK, PartOK, NewsOK, Kinds
<1>3. /\ \A r \in {row, b(row)} : ReadOK(r) /\ ~Retried(r) /\ r.kind = "row" /\ r.mine = s.row.seq + 1
      /\ \A r \in {counts, b(counts)} : ReadOK(r) /\ ~Retried(r) /\ r.kind = "counts" /\ r.mine = s.counts.seq + 1
      /\ \A r \in {line, b(line)} : ReadOK(r) /\ ~Retried(r) /\ r.kind = "news" /\ r.mine = n.seq + 1
  BY <1>2, NewRead
<1> HIDE DEF asked, b, row, counts, line
<1>4. F \subseteq IF pair THEN {b(row), b(counts), b(line)} ELSE {row, counts, line}
  BY <1>1
<1>5. IsFiniteSet(F)
  <2>1. ASSUME NEW x, NEW y, NEW z PROVE IsFiniteSet({x, y, z})
    <3>1. IsFiniteSet({x}) /\ IsFiniteSet({x} \cup {y}) /\ IsFiniteSet(({x} \cup {y}) \cup {z})
      BY FS_Singleton, FS_Union
    <3>2. {x, y, z} = ({x} \cup {y}) \cup {z}
      OBVIOUS
    <3> QED BY <3>1, <3>2
  <2>2. IsFiniteSet({b(row), b(counts), b(line)}) /\ IsFiniteSet({row, counts, line})
    BY <2>1
  <2> HIDE DEF F
  <2> QED BY <1>4, <2>2, FS_Subset
<1>6. OneReadOfAnAsk(F)
  <2> HIDE DEF F
  <2> QED BY <1>3, <1>4 DEF OneReadOfAnAsk, SameAsk, Asker
<1>7. ASSUME NEW f \in F
      PROVE  /\ ReadOK(f) /\ ~Retried(f)
             /\ \/ f.kind = "row" /\ RowDue(s, t) /\ f.mine = s.row.seq + 1
                \/ f.kind = "counts" /\ CountsDue(s, t) /\ f.mine = s.counts.seq + 1
                \/ f.kind = "news" /\ NewsDue(n, t) /\ f.mine = n.seq + 1
  <2>1. PICK r \in asked : f \in {r, b(r)}
    OBVIOUS
  <2>2. r \in {row, counts, line}
    BY <1>1
  <2> QED BY <1>1, <1>3, <2>1, <2>2
<1>8. Sent(s, n, t, pair) = F
  BY DEF Sent, asked, b
<1> HIDE DEF F
<1> QED BY <1>5, <1>6, <1>7, <1>8

\* A render in which the reads of R are over and G sent in their stead.
LEMMA RenderKeeps ==
    ASSUME BlockInv, NEW s, NEW n, SameCounts(s, n), NEW t, NEW u, seq' = seq,
           NEW R, R \subseteq reads, settle(R), NEW G, \A g \in G : ~Retried(g),
           ReadsOK((reads \ R) \cup G), NumberedBy((reads \ R) \cup G, numbers),
           Render(t, s, n, u, (reads \ R) \cup G)
    PROVE  StripOK(strip') /\ NewsOK(news') /\ ReadsOK(reads') /\ NumberedBy(reads', numbers') /\ CountIsExact'
<1> DEFINE base == (reads \ R) \cup G
           F == Sent(s, n, t, PairLeaves(t))
<1>1. strip' = StripAsked(s, t) /\ news' = NewsAsked(n, t) /\ reads' = base \cup F
  BY DEF Render, Sent
<1>2. PairLeaves(t) \in BOOLEAN
  BY DEF PairLeaves
<1>3. /\ IsFiniteSet(F) /\ OneReadOfAnAsk(F)
      /\ \A f \in F :
            /\ ReadOK(f) /\ ~Retried(f)
            /\ \/ f.kind = "row" /\ RowDue(s, t) /\ f.mine = s.row.seq + 1
               \/ f.kind = "counts" /\ CountsDue(s, t) /\ f.mine = s.counts.seq + 1
               \/ f.kind = "news" /\ NewsDue(n, t) /\ f.mine = n.seq + 1
  BY <1>2, RenderSends DEF SameCounts
<1>4. /\ StripOK(strip') /\ NewsOK(news')
      /\ strip'.row.seq = IF RowDue(s, t) THEN strip.row.seq + 1 ELSE strip.row.seq
      /\ strip'.counts.seq = IF CountsDue(s, t) THEN strip.counts.seq + 1 ELSE strip.counts.seq
      /\ news'.seq = IF NewsDue(n, t) THEN news.seq + 1 ELSE news.seq
  BY <1>1, StripIsAsked, NewsIsAsked DEF SameCounts
<1>5. /\ seq \in Nat /\ strip.row.seq \in Nat /\ strip.counts.seq \in Nat /\ news.seq \in Nat
      /\ strip'.row.seq \in Nat /\ strip'.counts.seq \in Nat /\ news'.seq \in Nat
  BY <1>4 DEF BlockInv, Tier1OK, StripOK, PartOK, NewsOK
<1>6. /\ numbers["tier1"] = seq /\ numbers["row"] = strip.row.seq
      /\ numbers["counts"] = strip.counts.seq /\ numbers["news"] = news.seq
      /\ numbers'["tier1"] = seq /\ numbers'["row"] = strip'.row.seq
      /\ numbers'["counts"] = strip'.counts.seq /\ numbers'["news"] = news'.seq
  BY DEF numbers
<1>7. \A kind \in Kinds : Asker(kind) \in {"tier1", "row", "counts", "news"}
  BY DEF Kinds, Asker
<1>8. \A kind \in Kinds : /\ numbers[Asker(kind)] \in Nat /\ numbers'[Asker(kind)] \in Nat
                          /\ numbers[Asker(kind)] <= numbers'[Asker(kind)]
  BY <1>4, <1>5, <1>6, <1>7
<1>9. ASSUME NEW f \in F PROVE numbers[Asker(f.kind)] < f.mine /\ f.mine <= numbers'[Asker(f.kind)]
  <2> HIDE DEF F
  <2> QED BY <1>3, <1>4, <1>5, <1>6 DEF Asker, SameCounts
<1>10. ReadsOK(reads') /\ NumberedBy(reads', numbers')
  <2> HIDE DEF base, F
  <2>1. ReadsOK(base) /\ NumberedBy(base, numbers)
    BY DEF base
  <2> QED BY <1>1, <1>3, <1>8, <1>9, <2>1, SendingKeeps
<1>11. CountIsExact'
  <2> HIDE DEF F
  <2>1. reads' = (reads \ R) \cup (G \cup F) /\ \A g \in G \cup F : ~Retried(g)
    BY <1>1, <1>3 DEF base
  <2>2. IsFiniteSet(reads) /\ CountIsExact
    BY DEF BlockInv, ReadsOK
  <2> QED BY <2>1, <2>2, SettleCounts
<1> QED BY <1>4, <1>10, <1>11

\* A render in which the reads of R are over.
LEMMA RenderEnds ==
    ASSUME BlockInv, NEW s, NEW n, SameCounts(s, n), NEW t, NEW u, seq' = seq,
           NEW R, R \subseteq reads, settle(R), Render(t, s, n, u, reads \ R)
    PROVE  StripOK(strip') /\ NewsOK(news') /\ ReadsOK(reads') /\ NumberedBy(reads', numbers') /\ CountIsExact'
<1> DEFINE G == {}
<1>1. (reads \ R) \cup G = reads \ R /\ \A g \in G : ~Retried(g)
  OBVIOUS
<1> HIDE DEF G
<1>2. ReadsOK(reads \ R) /\ NumberedBy(reads \ R, numbers)
  BY FS_Difference DEF BlockInv, ReadsOK, OneReadOfAnAsk, NumberedBy
<1>3. ReadsOK((reads \ R) \cup G) /\ NumberedBy((reads \ R) \cup G, numbers)
      /\ Render(t, s, n, u, (reads \ R) \cup G)
  BY <1>1, <1>2
<1> QED BY <1>1, <1>3, RenderKeeps

\* A render that ends no read.
LEMMA RenderAlone ==
    ASSUME BlockInv, NEW s, NEW n, SameCounts(s, n), NEW t, NEW u, seq' = seq,
           UNCHANGED <<retrying, reconnecting>>, Render(t, s, n, u, reads)
    PROVE  StripOK(strip') /\ NewsOK(news') /\ ReadsOK(reads') /\ NumberedBy(reads', numbers') /\ CountIsExact'
<1> DEFINE R == {}
<1>1. settle(R)
  <2>1. {r \in R : Retried(r)} = {}
    OBVIOUS
  <2>2. retrying \in Nat
    <3>1. IsFiniteSet(Retrying(reads))
      BY FS_Subset DEF Retrying, BlockInv, ReadsOK
    <3> QED BY <3>1, FS_CardinalityType DEF BlockInv, CountIsExact
  <2> QED BY <2>1, <2>2, FS_EmptySet DEF settle
<1>2. reads \ R = reads /\ R \subseteq reads
  OBVIOUS
<1> HIDE DEF R
<1>3. Render(t, s, n, u, reads \ R)
  BY <1>2
<1> QED BY <1>1, <1>2, <1>3, RenderEnds

\* A tier 1 read over, and the details of its load asked for in its stead.
LEMMA RenderDetails ==
    ASSUME BlockInv, NEW s, NEW n, SameCounts(s, n), NEW t, NEW u, seq' = seq,
           NEW r \in reads, r.kind \in {"tier1", "details"}, settle({r}), NEW rest,
           Render(t, s, n, u, (reads \ {r}) \cup {Details(r, rest)})
    PROVE  StripOK(strip') /\ NewsOK(news') /\ ReadsOK(reads') /\ NumberedBy(reads', numbers') /\ CountIsExact'
<1> DEFINE d == Details(r, rest)
           S == reads \ {r}
<1>1. ReadOK(r)
  BY DEF BlockInv, ReadsOK
<1>2. ReadOK(d) /\ ~Retried(d) /\ d.kind = "details" /\ d.mine = r.mine /\ r.mine \in Nat
  BY <1>1 DEF Details, Read, ReadOK, Retried, Kinds
<1> HIDE DEF d
<1>3. ASSUME NEW q \in S PROVE ~SameAsk(d, q) /\ ~SameAsk(q, d)
  BY <1>2 DEF BlockInv, ReadsOK, OneReadOfAnAsk, SameAsk, Asker
<1>4. IsFiniteSet(S \cup {d})
  BY FS_RemoveElement, FS_AddElement DEF BlockInv, ReadsOK
<1>5. ReadsOK(S \cup {d})
  BY <1>2, <1>3, <1>4 DEF BlockInv, ReadsOK, OneReadOfAnAsk
<1>6. NumberedBy(S \cup {d}, numbers)
  BY <1>2 DEF BlockInv, NumberedBy, Asker
<1>7. Render(t, s, n, u, S \cup {d})
  BY DEF d
<1>8. {r} \subseteq reads /\ \A g \in {d} : ~Retried(g)
  BY <1>2
<1> QED BY <1>5, <1>6, <1>7, <1>8, RenderKeeps

(***************************************************************************)
(* The steps of the page                                                   *)
(***************************************************************************)

\* What a step does to tier 1, in LastAsk's words.
Tier1Moves ==
    \/ seq' = seq + 1 /\ data'.of \in {data.of, 0}
    \/ seq' = seq /\ data'.of \in {data.of, seq}

\* The cards filled in are the same load's.
LEMMA CardsKeepTheLoad ==
    ASSUME NEW d, DOMAIN d = {"of", "cards", "twice", "stars", "more"}, NEW cards, NEW as, NEW q, NEW answered
    PROVE  /\ DOMAIN withCards(d, cards, as) = DOMAIN d /\ withCards(d, cards, as).of = d.of
           /\ DOMAIN toggleFavourite(d, q, answered) = DOMAIN d /\ toggleFavourite(d, q, answered).of = d.of
BY DEF withCards, toggleFavourite

\* Tier 1's own reads end: only the last load's are written.
LEMMA Tier1ReadsKeep ==
    ASSUME BlockInv, NEW r \in reads,
           (\E p \in Payloads : AttentionAnswers(r, p)) \/ DetailsAnswer(r) \/ LoadGivesUp(r)
    PROVE  BlockInv' /\ Tier1Moves
<1>1. SameCounts(strip, news) /\ {r} \subseteq reads
  BY DEF BlockInv, SameCounts
<1>2. r.kind \in {"tier1", "details"} /\ settle({r}) /\ seq' = seq
  BY DEF AttentionAnswers, DetailsAnswer, LoadGivesUp
<1>3. \/ \E t \in {turn'} : Render(t, strip, news, soon, reads \ {r})
      \/ \E t \in {turn'}, rest \in {r.rest \ NextBatch(r.rest)} \cup {p.pending : p \in Payloads} :
            Render(t, strip, news, soon, (reads \ {r}) \cup {Details(r, rest)})
  BY DEF AttentionAnswers, DetailsAnswer, LoadGivesUp, Render
<1>4. StripOK(strip') /\ NewsOK(news') /\ ReadsOK(reads') /\ NumberedBy(reads', numbers') /\ CountIsExact'
  BY <1>1, <1>2, <1>3, RenderEnds, RenderDetails
<1>5. Tier1OK' /\ data'.of \in {data.of, seq}
  <2>1. Tier1OK
    BY DEF BlockInv
  <2>2. CASE \E p \in Payloads : AttentionAnswers(r, p)
    BY <1>2, <2>1, <2>2 DEF AttentionAnswers, Current, Draw, Tier1OK
  <2>3. CASE DetailsAnswer(r)
    <3>1. \/ data' = data
          \/ \E theirs, left : data' = withCards(withCards(data, theirs, "shown"), left, "dropped")
      BY <2>3 DEF DetailsAnswer, Draw
    <3>2. DOMAIN data' = DOMAIN data /\ data'.of = data.of
      BY <2>1, <3>1, CardsKeepTheLoad DEF Tier1OK
    <3> QED BY <1>2, <2>1, <3>2 DEF Tier1OK
  <2>4. CASE LoadGivesUp(r)
    BY <1>2, <2>1, <2>4, CardsKeepTheLoad DEF LoadGivesUp, Draw, Tier1OK
  <2> QED BY <2>2, <2>3, <2>4
<1> QED BY <1>2, <1>4, <1>5 DEF BlockInv, Tier1Moves

\* The strip and the line after the end of their reads count their asks as before.
LEMMA LandedCounts ==
    ASSUME BlockInv, NEW R, NEW ok
    PROVE  SameCounts(StripAfter(strip, R, ok), NewsAfter(news, R, ok))
<1>1. ASSUME NEW p, PartOK(p) PROVE PartOK(Landed(p, ok)) /\ Landed(p, ok).seq = p.seq
  BY <1>1 DEF PartOK, Landed
<1> DEFINE k == StripAfter(strip, R, ok)
<1>2. /\ DOMAIN k = DOMAIN strip
      /\ k.row \in {strip.row, Landed(strip.row, ok)} /\ k.counts \in {strip.counts, Landed(strip.counts, ok)}
  BY DEF StripAfter, BlockInv, StripOK
<1> HIDE DEF k
<1>3. StripOK(k) /\ k.row.seq = strip.row.seq /\ k.counts.seq = strip.counts.seq
  BY <1>1, <1>2 DEF BlockInv, StripOK
<1>4. NewsOK(NewsAfter(news, R, ok)) /\ NewsAfter(news, R, ok).seq = news.seq
  BY DEF NewsAfter, BlockInv, NewsOK
<1> QED BY <1>3, <1>4 DEF SameCounts, k

\* Nothing of tier 1 moves.
LEMMA Tier1Stands ==
    ASSUME BlockInv, UNCHANGED <<seq, data>>
    PROVE  Tier1OK' /\ Tier1Moves
BY DEF BlockInv, Tier1OK, Tier1Moves

\* The strip's reads and the line's end, answered or given up.
LEMMA OtherReadsKeep ==
    ASSUME BlockInv, NEW R \in Attempts, ReadAnswers(R) \/ ReadGivesUp(R)
    PROVE  BlockInv' /\ Tier1Moves
<1>1. PICK ok \in BOOLEAN : Over(R, ok)
  BY DEF ReadAnswers, ReadGivesUp
<1>2. R \subseteq reads
  BY AttemptsAreOut
<1>3. /\ settle(R) /\ Render(turn, StripAfter(strip, R, ok), NewsAfter(news, R, ok), soon, reads \ R)
      /\ UNCHANGED <<seq, data>>
  BY <1>1 DEF Over, tier1Vars
<1>4. StripOK(strip') /\ NewsOK(news') /\ ReadsOK(reads') /\ NumberedBy(reads', numbers') /\ CountIsExact'
  <2> DEFINE s == StripAfter(strip, R, ok)
             n == NewsAfter(news, R, ok)
  <2>1. SameCounts(s, n) /\ Render(turn, s, n, soon, reads \ R)
    BY <1>3, LandedCounts
  <2> HIDE DEF s, n
  <2> QED BY <1>2, <1>3, <2>1, RenderEnds
<1> QED BY <1>3, <1>4, Tier1Stands DEF BlockInv

\* An attempt fails, or a read that slept asks again.
LEMMA RetriesKeep ==
    ASSUME BlockInv, (\E R \in Attempts : AttemptFails(R)) \/ \E r \in reads : RetryLeaves(r)
    PROVE  BlockInv' /\ Tier1Moves
<1>1. UNCHANGED <<seq, data, strip, news>>
  BY DEF AttemptFails, RetryLeaves, blockVars, tier1Vars
<1>2. ReadsOK(reads') /\ NumberedBy(reads', numbers) /\ CountIsExact'
  BY RetryLaterCounts, AskAgainCounts DEF AttemptFails, RetryLeaves, BlockInv
<1>3. NumberedBy(reads', numbers')
  BY <1>1, <1>2 DEF numbers
<1> QED BY <1>1, <1>2, <1>3, Tier1Stands DEF BlockInv

\* A load is sent under the next number.
LEMMA LoadsKeep ==
    ASSUME BlockInv, retry \/ again \/ refreshAttention
    PROVE  BlockInv' /\ Tier1Moves
<1>1. PICK keep \in BOOLEAN, turns \in BOOLEAN : Reload(keep, turns)
  BY DEF retry, again, refreshAttention
<1> DEFINE a == Attention(seq + 1, turns)
<1>2. /\ seq' = seq + 1 /\ data' \in {data, NoData} /\ reads' = reads \cup {a}
      /\ UNCHANGED <<retrying, reconnecting, strip, news>>
  BY <1>1 DEF Reload, load, Draw
<1>3. seq \in Nat
  BY DEF BlockInv, Tier1OK
<1>4. ReadOK(a) /\ ~Retried(a) /\ a.kind = "tier1" /\ a.mine = seq + 1
  BY <1>3 DEF Attention, Read, ReadOK, Retried, Kinds
<1>5. Tier1OK' /\ Tier1Moves
  BY <1>2, <1>3 DEF BlockInv, Tier1OK, Tier1Moves, NoData
<1> HIDE DEF a
<1>6. ReadsOK(reads') /\ NumberedBy(reads', numbers')
  <2>1. IsFiniteSet({a}) /\ OneReadOfAnAsk({a})
    BY FS_Singleton DEF OneReadOfAnAsk
  <2>2. /\ numbers["tier1"] = seq /\ numbers["row"] = strip.row.seq
        /\ numbers["counts"] = strip.counts.seq /\ numbers["news"] = news.seq
        /\ numbers'["tier1"] = seq + 1 /\ numbers'["row"] = strip.row.seq
        /\ numbers'["counts"] = strip.counts.seq /\ numbers'["news"] = news.seq
    BY <1>2 DEF numbers
  <2>3. strip.row.seq \in Nat /\ strip.counts.seq \in Nat /\ news.seq \in Nat
    BY DEF BlockInv, StripOK, PartOK, NewsOK
  <2>4. \A kind \in Kinds : Asker(kind) \in {"tier1", "row", "counts", "news"}
    BY DEF Kinds, Asker
  <2>5. \A kind \in Kinds : /\ numbers[Asker(kind)] \in Nat /\ numbers'[Asker(kind)] \in Nat
                            /\ numbers[Asker(kind)] <= numbers'[Asker(kind)]
    BY <1>3, <2>2, <2>3, <2>4
  <2>6. \A f \in {a} : ReadOK(f) /\ numbers[Asker(f.kind)] < f.mine /\ f.mine <= numbers'[Asker(f.kind)]
    BY <1>3, <1>4, <2>2 DEF Asker
  <2>7. ReadsOK(reads) /\ NumberedBy(reads, numbers)
    BY DEF BlockInv
  <2> QED BY <1>2, <2>1, <2>5, <2>6, <2>7, SendingKeeps
<1>7. CountIsExact'
  BY <1>2, <1>4, SendingCounts DEF BlockInv
<1> QED BY <1>2, <1>5, <1>6, <1>7 DEF BlockInv

\* The line's own Try again.
LEMMA RetryNewsKeeps ==
    ASSUME BlockInv, RetryNews
    PROVE  BlockInv' /\ Tier1Moves
<1> DEFINE a == Read("news", news.seq + 1)
<1>1. /\ news' = [news EXCEPT !.seq = @ + 1, !.retrying = TRUE] /\ reads' = reads \cup {a}
      /\ UNCHANGED <<retrying, reconnecting, strip, seq, data>>
  BY DEF RetryNews, tier1Vars
<1>2. seq \in Nat /\ strip.row.seq \in Nat /\ strip.counts.seq \in Nat /\ news.seq \in Nat
  BY DEF BlockInv, Tier1OK, StripOK, PartOK, NewsOK
<1>3. NewsOK(news') /\ news'.seq = news.seq + 1
  BY <1>1, <1>2 DEF BlockInv, NewsOK
<1>4. ReadOK(a) /\ ~Retried(a) /\ a.kind = "news" /\ a.mine = news.seq + 1
  BY <1>2 DEF Read, ReadOK, Retried, Kinds
<1> HIDE DEF a
<1>5. ReadsOK(reads') /\ NumberedBy(reads', numbers')
  <2>1. IsFiniteSet({a}) /\ OneReadOfAnAsk({a})
    BY FS_Singleton DEF OneReadOfAnAsk
  <2>2. /\ numbers["tier1"] = seq /\ numbers["row"] = strip.row.seq
        /\ numbers["counts"] = strip.counts.seq /\ numbers["news"] = news.seq
        /\ numbers'["tier1"] = seq /\ numbers'["row"] = strip.row.seq
        /\ numbers'["counts"] = strip.counts.seq /\ numbers'["news"] = news.seq + 1
    BY <1>1, <1>3 DEF numbers
  <2>3. \A kind \in Kinds : Asker(kind) \in {"tier1", "row", "counts", "news"}
    BY DEF Kinds, Asker
  <2>4. \A kind \in Kinds : /\ numbers[Asker(kind)] \in Nat /\ numbers'[Asker(kind)] \in Nat
                            /\ numbers[Asker(kind)] <= numbers'[Asker(kind)]
    BY <1>2, <2>2, <2>3
  <2>5. \A f \in {a} : ReadOK(f) /\ numbers[Asker(f.kind)] < f.mine /\ f.mine <= numbers'[Asker(f.kind)]
    BY <1>2, <1>4, <2>2 DEF Asker
  <2>6. ReadsOK(reads) /\ NumberedBy(reads, numbers)
    BY DEF BlockInv
  <2> QED BY <1>1, <2>1, <2>4, <2>5, <2>6, SendingKeeps
<1>6. CountIsExact'
  BY <1>1, <1>4, SendingCounts DEF BlockInv
<1> QED BY <1>1, <1>3, <1>5, <1>6, Tier1Stands DEF BlockInv

\* The renders that end no read: Up next's reading, the strip's Try agains, toggles and views, a write that fails.
LEMMA RendersKeep ==
    ASSUME BlockInv,
           \/ \E u \in {"quiet", "rows"} : UpNextReads(u)
           \/ RetryRow \/ RetryCounts \/ setOpenRemembered
           \/ \E u \in {"unasked", "quiet", "rows"} : chooseView(u)
           \/ \E applied \in BOOLEAN : WriteFails(applied)
    PROVE  BlockInv' /\ Tier1Moves
<1> DEFINE Rendered(s, n, u) ==
        /\ Render(turn, s, n, u, reads)
        /\ UNCHANGED <<retrying, reconnecting, seq, data>>
<1>1. ASSUME NEW s, NEW n, NEW u, SameCounts(s, n), Rendered(s, n, u)
      PROVE  BlockInv' /\ Tier1Moves
  <2>1. StripOK(strip') /\ NewsOK(news') /\ ReadsOK(reads') /\ NumberedBy(reads', numbers') /\ CountIsExact'
    BY <1>1, RenderAlone
  <2> QED BY <1>1, <2>1, Tier1Stands DEF BlockInv
<1>2. SameCounts(strip, news)
  BY DEF BlockInv, SameCounts
<1>3. ASSUME NEW v PROVE SameCounts([strip EXCEPT !.open = v], news) /\ SameCounts(strip, [news EXCEPT !.hidden = v])
  BY DEF BlockInv, SameCounts, StripOK, NewsOK
<1>4. CASE \E u \in {"quiet", "rows"} : UpNextReads(u)
  <2>1. PICK u \in {"quiet", "rows"} : UpNextReads(u)
    BY <1>4
  <2>2. Rendered(strip, news, u)
    BY <2>1 DEF UpNextReads, tier1Vars
  <2> HIDE DEF Rendered
  <2> QED BY <1>1, <1>2, <2>2
<1>5. CASE RetryRow
  <2> DEFINE s == [strip EXCEPT !.row.attempt = @ + 1, !.row.retrying = TRUE]
  <2>1. Rendered(s, news, soon)
    BY <1>5 DEF RetryRow, Again, tier1Vars
  <2>2. SameCounts(s, news)
    BY DEF BlockInv, SameCounts, StripOK, PartOK, NewsOK
  <2> HIDE DEF Rendered, s
  <2> QED BY <1>1, <2>1, <2>2
<1>6. CASE RetryCounts
  <2> DEFINE s == [strip EXCEPT !.counts.attempt = @ + 1, !.counts.retrying = TRUE]
  <2>1. Rendered(s, news, soon)
    BY <1>6 DEF RetryCounts, Again, tier1Vars
  <2>2. SameCounts(s, news)
    BY DEF BlockInv, SameCounts, StripOK, PartOK, NewsOK
  <2> HIDE DEF Rendered, s
  <2> QED BY <1>1, <2>1, <2>2
<1>7. CASE setOpenRemembered
  <2> DEFINE s == [strip EXCEPT !.open = ~@]
  <2>1. Rendered(s, news, soon)
    BY <1>7 DEF setOpenRemembered, tier1Vars
  <2>2. SameCounts(s, news)
    BY <1>3
  <2> HIDE DEF Rendered, s
  <2> QED BY <1>1, <2>1, <2>2
<1>8. CASE \E u \in {"unasked", "quiet", "rows"} : chooseView(u)
  <2>1. PICK u \in {"unasked", "quiet", "rows"} : chooseView(u)
    BY <1>8
  <2>2. Rendered(strip, news, u)
    BY <2>1 DEF chooseView, tier1Vars
  <2> HIDE DEF Rendered
  <2> QED BY <1>1, <1>2, <2>2
<1>9. CASE \E applied \in BOOLEAN : WriteFails(applied)
  <2> DEFINE w == Head(writes)
             s == IF w.by = "open" /\ w.mine = writeseq THEN [strip EXCEPT !.open = w.before] ELSE strip
             n == IF w.by = "news" THEN [news EXCEPT !.hidden = w.before] ELSE news
  <2>1. Rendered(s, n, soon)
    BY <1>9 DEF WriteFails, tier1Vars
  <2>2. SameCounts(s, n)
    BY <1>2, <1>3 DEF SameCounts
  <2> HIDE DEF Rendered, s, n
  <2> QED BY <1>1, <2>1, <2>2
<1> QED BY <1>4, <1>5, <1>6, <1>7, <1>8, <1>9

\* Steps that send and end no read, and ask for none.
LEMMA BesideTheReads ==
    ASSUME BlockInv, UNCHANGED <<readVars, seq, strip>>, NewsOK(news'), news'.seq = news.seq,
           DOMAIN data' = DOMAIN data, data'.of = data.of
    PROVE  BlockInv' /\ Tier1Moves
<1>1. numbers' = numbers /\ UNCHANGED <<reads, retrying, reconnecting>>
  BY DEF numbers, readVars
<1> QED BY <1>1 DEF BlockInv, Tier1OK, Tier1Moves, CountIsExact

\* The star's steps touch the stars, the marks of their crossings and the presses alone.
LEMMA StarStepsMove ==
    ASSUME StarSteps
    PROVE  UNCHANGED <<StarRest>> /\ (data' = data \/ \E q, a : data' = toggleFavourite(data, q, a))
BY DEF StarSteps, Star, StarWritten, StarAnswers, ExploreStars, StarRest

LEMMA OthersKeep ==
    ASSUME BlockInv,
           \/ explore \/ setSoonRemembered \/ hide \/ WriteLands \/ UNCHANGED pageVars
           \/ StarSteps
    PROVE  BlockInv' /\ Tier1Moves
<1>1. CASE explore \/ setSoonRemembered \/ WriteLands \/ UNCHANGED pageVars
  <2>1. UNCHANGED <<readVars, seq, strip, news, data>>
    BY <1>1 DEF explore, setSoonRemembered, WriteLands, pageVars, tier1Vars
  <2> QED BY <2>1, BesideTheReads DEF BlockInv
<1>2. CASE hide
  <2>1. UNCHANGED <<readVars, seq, strip, data>> /\ news' = [news EXCEPT !.hidden = TRUE]
    BY <1>2 DEF hide, tier1Vars
  <2>2. NewsOK(news') /\ news'.seq = news.seq
    BY <2>1 DEF BlockInv, NewsOK
  <2> QED BY <2>1, <2>2, BesideTheReads
<1>3. CASE StarSteps
  <2>1. UNCHANGED <<readVars, seq, strip, news>> /\ (data' = data \/ \E q, a : data' = toggleFavourite(data, q, a))
    BY <1>3, StarStepsMove DEF StarRest, stripVars
  <2>2. DOMAIN data' = DOMAIN data /\ data'.of = data.of
    BY <2>1, CardsKeepTheLoad DEF BlockInv, Tier1OK
  <2> QED BY <2>1, <2>2, BesideTheReads DEF BlockInv
<1> QED BY <1>1, <1>2, <1>3

\* The block as it is first drawn: tier 1's read is out, and no line.
LEMMA BlockStarts == Init => BlockInv /\ Tier1!Init
<1> SUFFICES ASSUME Init PROVE BlockInv /\ Tier1!Init
  OBVIOUS
<1>1. Tier1OK /\ StripOK(strip) /\ NewsOK(news)
  BY DEF Init, Tier1OK, NoData, StripOK, PartOK, Part, NewsOK
<1> DEFINE a == Attention(1, FALSE)
<1>2. ReadOK(a) /\ ~Retried(a) /\ a.kind = "tier1" /\ a.mine = 1
  BY DEF Attention, Read, ReadOK, Retried, Kinds
<1>3. reads = {a} /\ retrying = 0 /\ reconnecting = 0 /\ seq = 1
  BY DEF Init
<1> HIDE DEF a
<1>4. ReadsOK(reads) /\ NumberedBy(reads, numbers)
  <2>1. IsFiniteSet(reads)
    BY <1>3, FS_Singleton
  <2>2. numbers["tier1"] = 1
    BY <1>3 DEF numbers
  <2>3. NumberedBy(reads, numbers)
    BY <1>2, <1>3, <2>2 DEF NumberedBy, Asker
  <2> QED BY <1>2, <1>3, <2>1, <2>3 DEF ReadsOK, OneReadOfAnAsk
<1>5. CountIsExact
  <2>1. Retrying(reads) = {}
    BY <1>2, <1>3 DEF Retrying
  <2> QED BY <1>3, <2>1, FS_EmptySet DEF CountIsExact
<1>6. Tier1!Init
  BY DEF Tier1!Init, Init, NoData
<1> QED BY <1>1, <1>4, <1>5, <1>6 DEF BlockInv

\* Every step keeps the invariant, and is one of LastAsk's.
LEMMA BlockStep ==
    BlockInv /\ [Next]_vars => BlockInv' /\ [Tier1!Next]_<<[s \in {"tier1"} |-> seq], [s \in {"tier1"} |-> data.of]>>
<1> SUFFICES ASSUME BlockInv, [Next]_vars PROVE BlockInv' /\ Tier1!Next
  OBVIOUS
<1>1. BlockInv' /\ Tier1Moves
  <2>1. CASE Reading
    BY <2>1, Tier1ReadsKeep, OtherReadsKeep, RetriesKeep, RendersKeep DEF Reading
  <2>2. CASE Writing
    BY <2>2, OthersKeep, RendersKeep DEF Writing
  <2>3. CASE Pressing
    BY <2>3, LoadsKeep, OthersKeep, RetryNewsKeeps, RendersKeep DEF Pressing
  <2>4. CASE UNCHANGED pageVars \/ StarSteps
    BY <2>4, OthersKeep
  <2> QED BY <2>1, <2>2, <2>3, <2>4 DEF Next, vars
<1>2. Tier1!Next
  <2>1. seq \in Nat \ {0}
    BY DEF BlockInv, Tier1OK
  <2> QED BY <1>1, <2>1 DEF Tier1Moves, Tier1!Next, Tier1!Ask, Tier1!Answer, Tier1!Stand
<1> QED BY <1>1, <1>2

(***************************************************************************)
(* The preference                                                          *)
(***************************************************************************)

Preferences == [Members -> Views \cup BOOLEAN]
Write == [by : {"open", "view", "soon", "news"}, value : Preferences, mine : Nat, before : BOOLEAN]

\* What the page shows, and the write the next one goes after.
Page == [view |-> view, open |-> strip.open, soon |-> soonhidden, news |-> news.hidden]
Before(i) == IF i = 1 THEN stored ELSE writes[i - 1].value
Latest == Before(Len(writes) + 1)

PrefOK ==
    /\ view \in Views /\ strip.open \in BOOLEAN /\ soonhidden \in BOOLEAN /\ news.hidden \in BOOLEAN
    /\ writeseq \in Nat /\ missed \in BOOLEAN
    /\ held \in Preferences /\ stored \in Preferences /\ writes \in Seq(Write)

\* A hide under way was merged over the write before it, so that its failure alone leaves that one.
HidesAreMerged ==
    \A i \in 1 .. Len(writes) :
        writes[i].by = "news" =>
            \A m \in Members : Before(i)[m] = IF m = "news" THEN writes[i].before ELSE writes[i].value[m]

\* The line's member is the page's whatever fails; the others are until a write of the strip's does.
PrefInv ==
    /\ PrefOK
    /\ held["news"] = news.hidden
    /\ ~missed => held = Page /\ Latest = Page /\ HidesAreMerged

\* The preference as a function of its members, for the line's write and as it is seeded.
LEMMA HideMerged ==
    ASSUME NEW v
    PROVE  Merged([news |-> v]) = [m \in Members |-> IF m = "news" THEN v ELSE held[m]]
<1>1. DOMAIN [news |-> v] = {"news"} /\ [news |-> v]["news"] = v
  OBVIOUS
<1> QED BY <1>1 DEF Merged

LEMMA PreferenceIs ==
    ASSUME NEW a, NEW b, NEW c, NEW d
    PROVE  [view |-> a, open |-> b, soon |-> c, news |-> d]
            = [m \in Members |-> IF m = "view" THEN a ELSE IF m = "open" THEN b ELSE IF m = "soon" THEN c ELSE d]
BY DEF Members

\* Most steps show and write what they did.
LEMMA ShowingTheSame ==
    ASSUME PrefInv, strip'.open = strip.open, news'.hidden = news.hidden,
           UNCHANGED <<prefVars, view, soonhidden, writeseq, missed>>
    PROVE  PrefInv'
<1>1. Page' = Page
  BY DEF Page
<1>2. Latest' = Latest /\ HidesAreMerged' = HidesAreMerged
  BY DEF Latest, HidesAreMerged, Before, prefVars
<1>3. PrefOK'
  BY DEF PrefInv, PrefOK, prefVars
<1> QED BY <1>1, <1>2, <1>3 DEF PrefInv, prefVars

\* A render asks, and shows the strip and the line it was given.
LEMMA RenderShows ==
    ASSUME NEW s, StripOK(s), NEW n, NewsOK(n), NEW t, NEW u, NEW base, Render(t, s, n, u, base)
    PROVE  strip'.open = s.open /\ news'.hidden = n.hidden
BY DEF Render, StripAsked, NewsAsked, StripOK, NewsOK

\* One more write is the latest, and the ones before stay as they were.
LEMMA WriteIsLatest ==
    ASSUME PrefOK, NEW w \in Write, writes' = Append(writes, w), stored' = stored
    PROVE  /\ writes' \in Seq(Write) /\ Latest' = w.value
           /\ (writes = <<>> \/ HidesAreMerged)
              /\ (w.by = "news" => \A m \in Members : Latest[m] = IF m = "news" THEN w.before ELSE w.value[m])
              => HidesAreMerged'
<1> DEFINE n == Len(writes)
<1>1. /\ n \in Nat /\ writes' \in Seq(Write) /\ Len(writes') = n + 1
      /\ \A i \in 1 .. n : writes'[i] = writes[i]
      /\ writes'[n + 1] = w
  BY DEF PrefOK
<1> HIDE DEF n
<1>2. Latest' = w.value
  BY <1>1 DEF Latest, Before
<1>3. \A i \in 1 .. n + 1 : Before(i)' = Before(i)
  BY <1>1 DEF Before, PrefOK
<1>4. ASSUME writes = <<>> \/ HidesAreMerged,
             w.by = "news" => \A m \in Members : Latest[m] = IF m = "news" THEN w.before ELSE w.value[m],
             NEW i \in 1 .. Len(writes'), writes'[i].by = "news", NEW m \in Members
      PROVE  Before(i)'[m] = IF m = "news" THEN writes'[i].before ELSE writes'[i].value[m]
  <2>1. CASE i = n + 1
    BY <1>1, <1>3, <1>4, <2>1 DEF Latest, n
  <2>2. CASE i # n + 1
    <3>1. i \in 1 .. n /\ writes # <<>>
      BY <1>1, <2>2 DEF n
    <3> QED BY <1>1, <1>3, <1>4, <3>1 DEF HidesAreMerged, n
  <2> QED BY <2>1, <2>2
<1>5. (writes = <<>> \/ HidesAreMerged)
      /\ (w.by = "news" => \A m \in Members : Latest[m] = IF m = "news" THEN w.before ELSE w.value[m])
      => HidesAreMerged'
  BY <1>4 DEF HidesAreMerged
<1> QED BY <1>1, <1>2, <1>5

\* The oldest write gone, the others follow what it left when that is its value.
LEMMA OldestIsApplied ==
    ASSUME PrefOK, writes # <<>>, writes' = Tail(writes), stored' = Head(writes).value
    PROVE  /\ writes' \in Seq(Write) /\ stored' \in Preferences /\ Latest' = Latest
           /\ HidesAreMerged => HidesAreMerged'
<1> DEFINE n == Len(writes)
<1>1. /\ n \in Nat \ {0} /\ writes' \in Seq(Write) /\ Len(writes') = n - 1
      /\ \A i \in 1 .. n - 1 : writes'[i] = writes[i + 1]
      /\ Head(writes) = writes[1] /\ writes[1] \in Write
  BY DEF PrefOK
<1> HIDE DEF n
<1>2. ASSUME NEW i \in 1 .. n PROVE Before(i)' = Before(i + 1)
  <2>1. CASE i = 1
    BY <1>1, <2>1 DEF Before
  <2>2. CASE i # 1
    <3>1. i - 1 \in 1 .. n - 1 /\ (i - 1) + 1 = i /\ (i + 1) - 1 = i /\ i + 1 # 1
      BY <1>1, <2>2
    <3>2. writes'[i - 1] = writes[(i - 1) + 1]
      BY <1>1, <3>1
    <3> QED BY <2>2, <3>1, <3>2 DEF Before
  <2> QED BY <2>1, <2>2
<1>3. Latest' = Latest
  <2>1. n \in 1 .. n /\ Len(writes') + 1 = n
    BY <1>1
  <2> QED BY <1>2, <2>1 DEF Latest, n
<1>4. ASSUME HidesAreMerged PROVE HidesAreMerged'
  <2>1. ASSUME NEW i \in 1 .. n - 1, writes'[i].by = "news", NEW m \in Members
        PROVE  Before(i)'[m] = IF m = "news" THEN writes'[i].before ELSE writes'[i].value[m]
    <3>1. i + 1 \in 1 .. n /\ i \in 1 .. n /\ writes'[i] = writes[i + 1]
      BY <1>1
    <3>2. Before(i)' = Before(i + 1)
      BY <1>2, <3>1
    <3> QED BY <1>4, <2>1, <3>1, <3>2 DEF HidesAreMerged, n
  <2> QED BY <1>1, <2>1 DEF HidesAreMerged
<1> QED BY <1>1, <1>3, <1>4 DEF Write

\* Reads, stars and retries write no preference.
LEMMA ReadsShowTheSame ==
    ASSUME BlockInv, PrefInv,
           \/ Reading \/ retry \/ again \/ refreshAttention \/ explore \/ RetryRow \/ RetryCounts \/ RetryNews
           \/ UNCHANGED pageVars
           \/ StarSteps
    PROVE  PrefInv'
<1>1. StripOK(strip) /\ NewsOK(news)
  BY DEF BlockInv
<1>2. CASE Reading
  <2>1. CASE \E r \in reads : (\E p \in Payloads : AttentionAnswers(r, p)) \/ DetailsAnswer(r) \/ LoadGivesUp(r)
    <3>1. /\ \E t, base : Render(t, strip, news, soon, base)
          /\ UNCHANGED <<prefVars, view, soonhidden, writeseq, missed>>
      BY <2>1 DEF AttentionAnswers, DetailsAnswer, LoadGivesUp
    <3> QED BY <1>1, <3>1, RenderShows, ShowingTheSame
  <2>2. CASE \E r \in reads : RetryLeaves(r)
    BY <2>2, ShowingTheSame DEF RetryLeaves, blockVars, stripVars
  <2>3. CASE \E R \in Attempts : AttemptFails(R)
    BY <2>3, ShowingTheSame DEF AttemptFails, blockVars, stripVars
  <2>4. CASE \E R \in Attempts : ReadAnswers(R) \/ ReadGivesUp(R)
    <3>1. PICK R \in Attempts, ok \in BOOLEAN : Over(R, ok)
      BY <2>4 DEF ReadAnswers, ReadGivesUp
    <3> DEFINE s == StripAfter(strip, R, ok)
               n == NewsAfter(news, R, ok)
    <3>2. Render(turn, s, n, soon, reads \ R) /\ UNCHANGED <<prefVars, view, soonhidden, writeseq, missed>>
      BY <3>1 DEF Over
    <3>3. StripOK(s) /\ NewsOK(n)
      BY LandedCounts DEF SameCounts
    <3>4. s.open = strip.open /\ n.hidden = news.hidden
      BY <1>1 DEF StripAfter, NewsAfter, StripOK, NewsOK
    <3> HIDE DEF s, n
    <3> QED BY <3>2, <3>3, <3>4, RenderShows, ShowingTheSame
  <2>5. CASE \E u \in {"quiet", "rows"} : UpNextReads(u)
    <3>1. /\ \E u : Render(turn, strip, news, u, reads)
          /\ UNCHANGED <<prefVars, view, soonhidden, writeseq, missed>>
      BY <2>5 DEF UpNextReads
    <3> QED BY <1>1, <3>1, RenderShows, ShowingTheSame
  <2> QED BY <1>2, <2>1, <2>2, <2>3, <2>4, <2>5 DEF Reading
<1>3. CASE retry \/ again \/ refreshAttention
  BY <1>3, ShowingTheSame DEF retry, again, refreshAttention, Reload, stripVars
<1>4. CASE RetryRow \/ RetryCounts
  <2>1. PICK s \in {[strip EXCEPT !.row.attempt = @ + 1, !.row.retrying = TRUE],
                    [strip EXCEPT !.counts.attempt = @ + 1, !.counts.retrying = TRUE]} : Again(s, news)
    BY <1>4 DEF RetryRow, RetryCounts
  <2>2. StripOK(s) /\ s.open = strip.open
    BY <1>1, <2>1 DEF StripOK, PartOK
  <2>3. Render(turn, s, news, soon, reads) /\ UNCHANGED <<prefVars, view, soonhidden, writeseq, missed>>
    BY <2>1 DEF Again
  <2> QED BY <1>1, <2>2, <2>3, RenderShows, ShowingTheSame
<1>5. CASE RetryNews
  <2>1. /\ strip' = strip /\ news' = [news EXCEPT !.seq = @ + 1, !.retrying = TRUE]
        /\ UNCHANGED <<prefVars, view, soonhidden, writeseq, missed>>
    BY <1>5 DEF RetryNews, stripVars
  <2>2. news'.hidden = news.hidden
    BY <1>1, <2>1 DEF NewsOK
  <2> QED BY <2>1, <2>2, ShowingTheSame
<1>6. CASE explore \/ UNCHANGED pageVars \/ StarSteps
  BY <1>6, ShowingTheSame, StarStepsMove DEF explore, pageVars, stripVars, StarRest
<1> QED BY <1>2, <1>3, <1>4, <1>5, <1>6

\* A write of the strip's: every member as the page shows it, the line's carried along.
LEMMA RememberKeeps ==
    ASSUME PrefInv, NEW by \in {"open", "view", "soon"}, NEW before \in BOOLEAN,
           NEW v \in Views, NEW o \in BOOLEAN, NEW h \in BOOLEAN,
           Remember(by, StripMembers(v, o, h), before), stored' = stored,
           view' = v, strip'.open = o, soonhidden' = h, news'.hidden = news.hidden
    PROVE  PrefInv'
<1> DEFINE value == Merged(StripMembers(v, o, h))
           w == [by |-> by, value |-> value, mine |-> writeseq + 1, before |-> before]
<1>1. /\ value \in Preferences /\ value["news"] = news.hidden
      /\ value = [view |-> v, open |-> o, soon |-> h, news |-> news.hidden]
  BY DEF Merged, StripMembers, Preferences, PrefInv, PrefOK, Members
<1>2. held' = value /\ writes' = Append(writes, w) /\ writeseq' = writeseq + 1 /\ missed' = (missed /\ writes # <<>>)
  BY DEF Remember, writeCalendarPreference
<1> HIDE DEF value
<1>3. w \in Write
  BY <1>1 DEF Write, PrefInv, PrefOK
<1>4. w.value = value /\ w.by # "news"
  OBVIOUS
<1> HIDE DEF w
<1>5. writes' \in Seq(Write) /\ Latest' = value /\ (writes = <<>> \/ HidesAreMerged => HidesAreMerged')
  BY <1>2, <1>3, <1>4, WriteIsLatest DEF PrefInv
<1>6. Page' = value
  BY <1>1 DEF Page
<1>7. PrefOK'
  BY <1>1, <1>2, <1>5 DEF PrefInv, PrefOK
<1>8. missed' \in BOOLEAN /\ (~missed' => writes = <<>> \/ HidesAreMerged)
  BY <1>2 DEF PrefInv, PrefOK
<1> QED BY <1>1, <1>2, <1>5, <1>6, <1>7, <1>8 DEF PrefInv

\* The toggle, the view and Up next's hide.
LEMMA StripWritesKeep ==
    ASSUME BlockInv, PrefInv,
           setOpenRemembered \/ setSoonRemembered \/ \E u \in {"unasked", "quiet", "rows"} : chooseView(u)
    PROVE  PrefInv'
<1>1. StripOK(strip) /\ NewsOK(news)
  BY DEF BlockInv
<1>2. view \in Views /\ strip.open \in BOOLEAN /\ soonhidden \in BOOLEAN
  BY DEF PrefInv, PrefOK
<1>3. CASE setOpenRemembered
  <2> DEFINE s == [strip EXCEPT !.open = ~@]
             o == ~strip.open
  <2>1. /\ Render(turn, s, news, soon, reads) /\ Remember("open", StripMembers(view, o, soonhidden), strip.open)
        /\ UNCHANGED <<stored, soonhidden, view>>
    BY <1>3 DEF setOpenRemembered
  <2>2. StripOK(s) /\ s.open = o /\ o \in BOOLEAN
    BY <1>1, <1>2 DEF StripOK
  <2> HIDE DEF s, o
  <2>3. strip'.open = o /\ news'.hidden = news.hidden
    BY <1>1, <2>1, <2>2, RenderShows
  <2> QED BY <1>2, <2>1, <2>2, <2>3, RememberKeeps
<1>4. CASE setSoonRemembered
  <2> DEFINE h == ~soonhidden
  <2>1. /\ Remember("soon", StripMembers(view, strip.open, h), soonhidden) /\ soonhidden' = h /\ h \in BOOLEAN
        /\ UNCHANGED <<stored, view, strip, news>>
    BY <1>2, <1>4 DEF setSoonRemembered
  <2> HIDE DEF h
  <2> QED BY <1>2, <2>1, RememberKeeps
<1>5. CASE \E u \in {"unasked", "quiet", "rows"} : chooseView(u)
  <2>1. PICK u \in {"unasked", "quiet", "rows"} : chooseView(u)
    BY <1>5
  <2>2. PICK v \in Views : view' = v /\ Remember("view", StripMembers(v, strip.open, soonhidden), FALSE)
    BY <2>1 DEF chooseView
  <2>3. Render(turn, strip, news, u, reads) /\ UNCHANGED <<stored, soonhidden>>
    BY <2>1 DEF chooseView
  <2>4. strip'.open = strip.open /\ news'.hidden = news.hidden
    BY <1>1, <2>3, RenderShows
  <2> QED BY <1>2, <2>2, <2>3, <2>4, RememberKeeps
<1> QED BY <1>3, <1>4, <1>5

\* The line hidden: over the members the page holds.
LEMMA HideKeeps ==
    ASSUME BlockInv, PrefInv, hide
    PROVE  PrefInv'
<1> DEFINE value == Merged([news |-> TRUE])
           w == [by |-> "news", value |-> value, mine |-> 0, before |-> held["news"]]
<1>1. /\ held' = value /\ writes' = Append(writes, w) /\ news' = [news EXCEPT !.hidden = TRUE]
      /\ UNCHANGED <<stored, view, strip, soonhidden, writeseq, missed>>
  BY DEF hide, writeCalendarPreference, stripVars
<1>2. news'.hidden = TRUE
  BY <1>1 DEF BlockInv, NewsOK
<1>3. /\ value \in Preferences /\ value["news"] = TRUE
      /\ \A m \in Members : held[m] = IF m = "news" THEN held["news"] ELSE value[m]
      /\ value = [view |-> held["view"], open |-> held["open"], soon |-> held["soon"], news |-> TRUE]
  <2>1. value = [m \in Members |-> IF m = "news" THEN TRUE ELSE held[m]]
    BY HideMerged
  <2>2. held \in Preferences
    BY DEF PrefInv, PrefOK
  <2> HIDE DEF value
  <2>3. value \in Preferences
    BY <2>1, <2>2 DEF Preferences
  <2> QED BY <2>1, <2>3 DEF Members
<1> HIDE DEF value
<1>4. w \in Write /\ w.value = value /\ w.before = held["news"]
  BY <1>3 DEF Write, PrefInv, PrefOK
<1> HIDE DEF w
<1>5. writes' \in Seq(Write) /\ Latest' = value
      /\ (HidesAreMerged /\ (\A m \in Members : Latest[m] = IF m = "news" THEN w.before ELSE w.value[m]) => HidesAreMerged')
  BY <1>1, <1>4, WriteIsLatest DEF PrefInv
<1>6. PrefOK'
  BY <1>1, <1>2, <1>3, <1>5 DEF PrefInv, PrefOK
<1>7. ASSUME ~missed PROVE held' = Page' /\ Latest' = Page' /\ HidesAreMerged'
  <2>1. held = Page /\ Latest = Page /\ HidesAreMerged
    BY <1>7 DEF PrefInv
  <2>2. Page' = value
    BY <1>1, <1>2, <1>3, <2>1 DEF Page
  <2> QED BY <1>1, <1>3, <1>4, <1>5, <2>1, <2>2
<1> QED BY <1>1, <1>2, <1>3, <1>6, <1>7 DEF PrefInv

\* A write ends: applied; or failed, after which what went apart is remembered as missed.
LEMMA WritesEnd ==
    ASSUME BlockInv, PrefInv, WriteLands \/ \E applied \in BOOLEAN : WriteFails(applied)
    PROVE  PrefInv'
<1>1. StripOK(strip) /\ NewsOK(news) /\ PrefOK
  BY DEF BlockInv, PrefInv
<1>2. CASE WriteLands
  <2>1. /\ writes # <<>> /\ stored' = Head(writes).value /\ writes' = Tail(writes)
        /\ UNCHANGED <<held, strip, news, view, soonhidden, writeseq, missed>>
    BY <1>2 DEF WriteLands, stripVars
  <2>2. writes' \in Seq(Write) /\ stored' \in Preferences /\ Latest' = Latest /\ (HidesAreMerged => HidesAreMerged')
    BY <1>1, <2>1, OldestIsApplied
  <2>3. Page' = Page
    BY <2>1 DEF Page
  <2> QED BY <1>1, <2>1, <2>2, <2>3 DEF PrefInv, PrefOK
<1>3. CASE \E applied \in BOOLEAN : WriteFails(applied)
  <2>1. PICK applied \in BOOLEAN : WriteFails(applied)
    BY <1>3
  <2> DEFINE w == Head(writes)
             s == IF w.by = "open" /\ w.mine = writeseq THEN [strip EXCEPT !.open = w.before] ELSE strip
             n == IF w.by = "news" THEN [news EXCEPT !.hidden = w.before] ELSE news
  <2>2. w \in Write /\ w = writes[1] /\ Len(writes) \in Nat \ {0} /\ Tail(writes) \in Seq(Write)
        /\ (Tail(writes) = <<>> => Len(writes) = 1)
    <3>1. writes \in Seq(Write) /\ writes # <<>>
      BY <1>1, <2>1 DEF WriteFails, PrefOK
    <3>2. /\ Len(writes) \in Nat \ {0} /\ Tail(writes) \in Seq(Write) /\ Len(Tail(writes)) = Len(writes) - 1
          /\ Head(writes) = writes[1] /\ writes[1] \in Write
      BY <3>1
    <3>3. Tail(writes) = <<>> => Len(Tail(writes)) = 0
      OBVIOUS
    <3> QED BY <3>2, <3>3
  <2>3. /\ writes' = Tail(writes) /\ stored' = (IF applied THEN w.value ELSE stored)
        /\ IF w.by = "news" THEN putBack([news |-> w.before]) ELSE UNCHANGED held
        /\ Render(turn, s, n, soon, reads)
        /\ soonhidden' = (IF w.by = "soon" /\ w.mine = writeseq THEN w.before ELSE soonhidden)
        /\ missed' = (missed \/ applied \/ w.by # "news" \/ Tail(writes) # <<>>)
        /\ UNCHANGED <<view, writeseq>>
    BY <2>1 DEF WriteFails
  <2>4. /\ StripOK(s) /\ NewsOK(n) /\ s.open \in BOOLEAN /\ n.hidden \in BOOLEAN
        /\ (w.by = "news" => s.open = strip.open)
        /\ n.hidden = IF w.by = "news" THEN w.before ELSE news.hidden
    BY <1>1, <2>2 DEF StripOK, NewsOK, PrefOK, Write
  <2>5. strip'.open = s.open /\ news'.hidden = n.hidden
    <3> HIDE DEF s, n
    <3> QED BY <2>3, <2>4, RenderShows
  <2> HIDE DEF w, s, n
  <2>6. held' \in Preferences /\ held'["news"] = news'.hidden
        /\ (w.by = "news" => \A m \in Members : held'[m] = IF m = "news" THEN w.before ELSE held[m])
    BY <2>2, <2>3, <2>4, <2>5 DEF putBack, Merged, PrefInv, PrefOK, Preferences, Write, Members
  <2>7. PrefOK'
    BY <1>1, <2>2, <2>3, <2>4, <2>5, <2>6 DEF PrefOK, Write
  <2>8. ASSUME ~missed' PROVE held' = Page' /\ Latest' = Page' /\ HidesAreMerged'
    <3>1. ~missed /\ ~applied /\ w.by = "news" /\ Tail(writes) = <<>>
      BY <2>3, <2>8
    <3>2. held = Page /\ Latest = Page /\ HidesAreMerged
      BY <3>1 DEF PrefInv
    <3>3. Len(writes) = 1 /\ Latest = w.value /\ stored' = stored /\ writes' = <<>>
      BY <2>2, <2>3, <3>1 DEF Latest, Before
    <3>4. \A m \in Members : stored[m] = IF m = "news" THEN w.before ELSE w.value[m]
      BY <2>2, <3>1, <3>2, <3>3 DEF HidesAreMerged, Before
    <3>5. Page' = [view |-> view, open |-> strip.open, soon |-> soonhidden, news |-> w.before]
      BY <2>3, <2>4, <2>5, <3>1 DEF Page
    <3>6. stored = Page' /\ held' = Page'
      BY <1>1, <2>6, <3>1, <3>2, <3>3, <3>4, <3>5 DEF Page, PrefOK, Preferences, Members
    <3>7. Latest' = stored' /\ HidesAreMerged'
      BY <3>3 DEF Latest, Before, HidesAreMerged
    <3> QED BY <3>3, <3>6, <3>7
  <2> QED BY <2>6, <2>7, <2>8 DEF PrefInv
<1> QED BY <1>2, <1>3

\* A page drawn with these members, and the preference that holds them.
LEMMA DrawnPreference ==
    ASSUME NEW v \in Views, NEW o \in BOOLEAN, NEW h \in BOOLEAN, NEW n \in BOOLEAN
    PROVE  [view |-> v, open |-> o, soon |-> h, news |-> n] \in Preferences
<1>1. [view |-> v, open |-> o, soon |-> h, news |-> n]
      = [m \in Members |-> IF m = "view" THEN v ELSE IF m = "open" THEN o ELSE IF m = "soon" THEN h ELSE n]
  BY PreferenceIs
<1> DEFINE p == [m \in Members |-> IF m = "view" THEN v ELSE IF m = "open" THEN o ELSE IF m = "soon" THEN h ELSE n]
<1>2. p["view"] = v /\ p["open"] = o /\ p["soon"] = h /\ p["news"] = n
  BY Zenon DEF Members
<1>3. p \in Preferences
  BY DEF Preferences, Views
<1> QED BY <1>1, <1>3

\* The preference as the page was drawn from it.
LEMMA PreferenceStarts == Init => PrefInv
<1> SUFFICES ASSUME Init PROVE PrefInv
  OBVIOUS
<1>1. config \in [calendar : BOOLEAN, line : {"hidden", "on"}, open : BOOLEAN, favourites : BOOLEAN, starred : SUBSET Nat,
                  busy : SUBSET Views, faults : Nat, presses : Nat, gestures : BOOLEAN]
  BY ConfigsAssumption DEF Init
<1> DEFINE o == config.open
           n == config.line = "hidden"
<1>2. /\ strip.open = o /\ news.hidden = (config.line # "on") /\ view = "learning" /\ soonhidden = FALSE
      /\ writeseq = 0 /\ missed = FALSE /\ writes = <<>> /\ stored = held
      /\ held = [view |-> "learning", open |-> o, soon |-> FALSE, news |-> n]
  BY DEF Init, seedCalendarPreference
<1>3. n = (config.line # "on") /\ n \in BOOLEAN /\ o \in BOOLEAN
  BY <1>1
<1>4. news.hidden = n
  BY <1>2, <1>3
<1> HIDE DEF o, n
<1>5. held = Page
  BY <1>2, <1>4 DEF Page
<1>6. held["news"] = news.hidden
  BY <1>4, <1>2
<1>7. held \in Preferences
  BY <1>2, <1>3, DrawnPreference DEF Views
<1>8. PrefOK
  <2>1. view \in Views /\ writeseq \in Nat /\ writes \in Seq(Write) /\ stored \in Preferences
    BY <1>2, <1>7 DEF Views
  <2>2. strip.open \in BOOLEAN /\ soonhidden \in BOOLEAN /\ news.hidden \in BOOLEAN /\ missed \in BOOLEAN
    BY <1>2, <1>3, <1>4
  <2> QED BY <1>7, <2>1, <2>2 DEF PrefOK
<1>9. Latest = stored /\ HidesAreMerged
  BY <1>2 DEF Latest, Before, HidesAreMerged
<1> QED BY <1>2, <1>5, <1>6, <1>8, <1>9 DEF PrefInv

LEMMA PreferenceStep == BlockInv /\ PrefInv /\ [Next]_vars => PrefInv'
<1> SUFFICES ASSUME BlockInv, PrefInv, [Next]_vars PROVE PrefInv'
  OBVIOUS
<1>1. CASE Reading \/ UNCHANGED pageVars \/ StarSteps
  BY <1>1, ReadsShowTheSame
<1>2. CASE Writing
  BY <1>2, ReadsShowTheSame, WritesEnd DEF Writing
<1>3. CASE Pressing
  BY <1>3, ReadsShowTheSame, StripWritesKeep, HideKeeps DEF Pressing
<1> QED BY <1>1, <1>2, <1>3 DEF Next, vars

(***************************************************************************)
(* The stars                                                               *)
(***************************************************************************)

\* Of the writes out, the one that is the star's latest is applied, and says what the server has.
LatestOK(S, stars) ==
    \A q \in S :
        /\ DOMAIN q = {"card", "button", "mine", "on", "written", "last"}
        /\ q.last => q.written /\ (q.on <=> q.card \in stars)
\* A star drawn is the server's, or the answer that will make it so is on its way.
DrawnOK(d, S, stars, but) ==
    \A c \in DOMAIN d.cards \ but : (\E q \in S : q.card = c /\ q.last) \/ (c \in d.stars <=> c \in stars)
\* What a load saw is what the server has, but for the stars written since it left.
SeenOK(R, n, stars, but) ==
    \A r \in R : r.kind = "tier1" /\ r.mine = n => \A c : c \in but \/ (c \in r.sees <=> c \in stars)

StarsInv ==
    /\ LatestOK(starring, starred)
    /\ DrawnOK(data, starring, starred, unsure)
    /\ SeenOK(reads, seq, starred, crossed)

\* Every load out after a step was out before it, and saw the same.
NoNewLoad == \A r \in reads' : r.kind = "tier1" => \E q \in reads : q.kind = "tier1" /\ q.mine = r.mine /\ q.sees = r.sees

\* A step that sends no load, and neither writes nor redraws a star.
LEMMA StarsStand ==
    ASSUME StarsInv, NoNewLoad, UNCHANGED <<seq, starred, starring, crossed, unsure>>,
           data'.stars = data.stars, DOMAIN data'.cards = DOMAIN data.cards
    PROVE  StarsInv'
BY DEF StarsInv, NoNewLoad, LatestOK, DrawnOK, SeenOK

\* A redraw takes buttons away, and no more.
LEMMA OnPageStands ==
    ASSUME NEW d, LatestOK(starring, starred)
    PROVE  /\ LatestOK(OnPage(d), starred)
           /\ \A c : (\E q \in starring : q.card = c /\ q.last) => \E q \in OnPage(d) : q.card = c /\ q.last
<1> DEFINE gone(q) == [q EXCEPT !.button = "gone"]
<1>1. ASSUME NEW q \in starring
      PROVE  /\ DOMAIN gone(q) = DOMAIN q /\ gone(q).card = q.card /\ gone(q).on = q.on
             /\ gone(q).written = q.written /\ gone(q).last = q.last
  BY DEF LatestOK
<1>2. \A p \in OnPage(d) : \E q \in starring : p = q \/ p = gone(q)
  BY DEF OnPage
<1>3. \A q \in starring : q \in OnPage(d) \/ gone(q) \in OnPage(d)
  BY DEF OnPage
<1> HIDE DEF gone
<1> QED BY <1>1, <1>2, <1>3 DEF LatestOK

\* What a render sends is the strip's and the line's.
LEMMA RenderSendsNoLoad ==
    ASSUME NEW s, StripOK(s), NEW n, NewsOK(n), NEW t, NEW u, NEW base, Render(t, s, n, u, base),
           \A r \in base : r \in reads \/ r.kind = "details"
    PROVE  NoNewLoad /\ \A r \in reads' : r.kind = "tier1" => r \in base
<1>1. reads' = base \cup Sent(s, n, t, PairLeaves(t)) /\ PairLeaves(t) \in BOOLEAN
  BY DEF Render, Sent, PairLeaves
<1>2. \A f \in Sent(s, n, t, PairLeaves(t)) : f.kind \in {"row", "counts", "news"}
  BY <1>1, RenderSends
<1> QED BY <1>1, <1>2 DEF NoNewLoad

LEMMA DetailsAreNoLoad == ASSUME NEW r, NEW rest PROVE Details(r, rest).kind = "details"
BY DEF Details, Read

\* An attempt that fails, or a read that asks again, is the same load.
LEMMA RetriesSeeTheSame ==
    ASSUME BlockInv, (\E R \in Attempts : AttemptFails(R)) \/ \E r \in reads : RetryLeaves(r)
    PROVE  NoNewLoad
<1>1. CASE \E R \in Attempts : AttemptFails(R)
  <2>1. PICK R \in Attempts : reads' = (reads \ R) \cup {Asleep(r) : r \in R}
    BY <1>1 DEF AttemptFails, retryLater, Asleep
  <2>2. ASSUME NEW r \in R PROVE r \in reads /\ Asleep(r).kind = r.kind /\ Asleep(r).mine = r.mine /\ Asleep(r).sees = r.sees
    BY AttemptsAreOut DEF BlockInv, ReadsOK, ReadOK, Asleep
  <2> QED BY <2>1, <2>2 DEF NoNewLoad
<1>2. CASE \E r \in reads : RetryLeaves(r)
  <2>1. PICK r \in reads : reads' = (reads \ {r}) \cup {[r EXCEPT !.sleeps = FALSE, !.attempt = @ + 1]}
    BY <1>2 DEF RetryLeaves, askAgain
  <2> DEFINE t == [r EXCEPT !.sleeps = FALSE, !.attempt = @ + 1]
  <2>2. t.kind = r.kind /\ t.mine = r.mine /\ t.sees = r.sees
    BY DEF BlockInv, ReadsOK, ReadOK
  <2> HIDE DEF t
  <2> QED BY <2>1, <2>2 DEF NoNewLoad, t
<1> QED BY <1>1, <1>2

\* The payload of the last load is drawn with the stars it saw.
LEMMA AttentionKeepsStars ==
    ASSUME BlockInv, StarsInv, NEW r \in reads, NEW p \in Payloads, AttentionAnswers(r, p)
    PROVE  StarsInv'
<1>1. r.kind = "tier1" /\ UNCHANGED <<seq, starred>>
  BY DEF AttentionAnswers
<1>2. NoNewLoad /\ \A q \in reads' : q.kind = "tier1" => q \in reads \ {r}
  <2> DEFINE d == Details(r, p.pending)
             one == (reads \ {r}) \cup {d}
  <2>1. (\E t : Render(t, strip, news, soon, reads \ {r})) \/ \E t : Render(t, strip, news, soon, one)
    BY DEF AttentionAnswers
  <2>2. d.kind = "details"
    BY DetailsAreNoLoad
  <2> HIDE DEF d
  <2>3. \A q \in one : q \in reads \/ q.kind = "details"
    BY <2>2
  <2>4. \A q \in one : q.kind = "tier1" => q \in reads \ {r}
    BY <2>2
  <2> HIDE DEF one
  <2> QED BY <2>1, <2>3, <2>4, RenderSendsNoLoad DEF BlockInv
<1>3. CASE ~Current(r)
  <2>1. UNCHANGED <<data, starring, crossed, unsure>>
    BY <1>3 DEF AttentionAnswers
  <2> QED BY <1>1, <1>2, <2>1, StarsStand
<1>4. CASE Current(r)
  <2>1. data' = [of |-> r.mine, cards |-> [c \in p.cards |-> IF c \in p.pending THEN "loading" ELSE "shown"],
                 twice |-> r.sees \cap p.twice, stars |-> r.sees \cap p.cards, more |-> p.more]
    BY <1>4 DEF AttentionAnswers, Draw
  <2>2. starring' = OnPage(data') /\ unsure' = crossed
    BY <1>4 DEF AttentionAnswers
  <2>3. data'.stars = r.sees \cap p.cards /\ DOMAIN data'.cards = p.cards
    BY <2>1
  <2>4. LatestOK(starring', starred')
    BY <1>1, <2>2, OnPageStands DEF StarsInv
  <2>5. DrawnOK(data', starring', starred', unsure')
    BY <1>1, <1>4, <2>2, <2>3 DEF StarsInv, DrawnOK, SeenOK, Current
  <2>6. \A q \in reads' : ~(q.kind = "tier1" /\ q.mine = seq')
    BY <1>1, <1>2, <1>4 DEF BlockInv, ReadsOK, OneReadOfAnAsk, SameAsk, Current
  <2>7. SeenOK(reads', seq', starred', crossed')
    BY <2>6 DEF SeenOK
  <2> QED BY <2>4, <2>5, <2>7 DEF StarsInv
<1> QED BY <1>3, <1>4

\* The cards filled in, or let go, keep their stars.
LEMMA CardsKeepStars ==
    ASSUME NEW d, DOMAIN d = {"of", "cards", "twice", "stars", "more"}, NEW cards, NEW as
    PROVE  withCards(d, cards, as).stars = d.stars /\ DOMAIN withCards(d, cards, as).cards = DOMAIN d.cards
BY DEF withCards

LEMMA Tier1EndsKeepStars ==
    ASSUME BlockInv, StarsInv, NEW r \in reads, DetailsAnswer(r) \/ LoadGivesUp(r)
    PROVE  StarsInv'
<1>1. UNCHANGED <<seq, starred, starring, crossed, unsure>>
  BY DEF DetailsAnswer, LoadGivesUp, starVars
<1>2. NoNewLoad
  <2>1. \/ \E t : Render(t, strip, news, soon, reads \ {r})
        \/ \E t, rest : Render(t, strip, news, soon, (reads \ {r}) \cup {Details(r, rest)})
    BY DEF DetailsAnswer, LoadGivesUp
  <2> QED BY <2>1, DetailsAreNoLoad, RenderSendsNoLoad DEF BlockInv
<1>3. \/ data' = data
      \/ \E cards, as : data' = withCards(data, cards, as)
      \/ \E cards, as, others, left : data' = withCards(withCards(data, cards, as), others, left)
  BY DEF DetailsAnswer, LoadGivesUp, Draw
<1>4. data'.stars = data.stars /\ DOMAIN data'.cards = DOMAIN data.cards
  BY <1>3, CardsKeepStars, CardsKeepTheLoad DEF BlockInv, Tier1OK
<1> QED BY <1>1, <1>2, <1>4, StarsStand

\* The other reads' ends and what they, or a press, render.
LEMMA OtherReadsKeepStars ==
    ASSUME BlockInv, StarsInv,
           \/ \E R \in Attempts : ReadAnswers(R) \/ ReadGivesUp(R)
           \/ \E u \in {"quiet", "rows"} : UpNextReads(u)
           \/ RetryRow \/ RetryCounts \/ setOpenRemembered
           \/ \E u \in {"unasked", "quiet", "rows"} : chooseView(u)
           \/ \E applied \in BOOLEAN : WriteFails(applied)
    PROVE  StarsInv'
<1>1. UNCHANGED <<seq, starred, starring, crossed, unsure, data>>
  BY DEF ReadAnswers, ReadGivesUp, Over, UpNextReads, RetryRow, RetryCounts, Again, setOpenRemembered, chooseView,
         WriteFails, tier1Vars, starVars
<1>2. StripOK(strip) /\ NewsOK(news)
  BY DEF BlockInv
<1>3. ASSUME NEW v PROVE StripOK([strip EXCEPT !.open = v]) /\ NewsOK([news EXCEPT !.hidden = v])
  BY <1>2 DEF StripOK, NewsOK
<1>4. StripOK([strip EXCEPT !.row.attempt = @ + 1, !.row.retrying = TRUE])
      /\ StripOK([strip EXCEPT !.counts.attempt = @ + 1, !.counts.retrying = TRUE])
  BY <1>2 DEF StripOK, PartOK
<1>5. \E s, n, t, u, base : StripOK(s) /\ NewsOK(n) /\ base \subseteq reads /\ Render(t, s, n, u, base)
  <2>1. CASE \E R \in Attempts : ReadAnswers(R) \/ ReadGivesUp(R)
    <3>1. PICK R \in Attempts, ok \in BOOLEAN : Render(turn, StripAfter(strip, R, ok), NewsAfter(news, R, ok), soon, reads \ R)
      BY <2>1 DEF ReadAnswers, ReadGivesUp, Over
    <3>2. StripOK(StripAfter(strip, R, ok)) /\ NewsOK(NewsAfter(news, R, ok))
      BY LandedCounts DEF SameCounts
    <3> QED BY <3>1, <3>2
  <2>2. CASE \E u \in {"quiet", "rows"} : UpNextReads(u)
    BY <1>2, <2>2 DEF UpNextReads
  <2>3. CASE RetryRow \/ RetryCounts
    BY <1>2, <1>4, <2>3 DEF RetryRow, RetryCounts, Again
  <2>4. CASE setOpenRemembered
    <3>1. Render(turn, [strip EXCEPT !.open = ~@], news, soon, reads)
      BY <2>4 DEF setOpenRemembered
    <3>2. StripOK([strip EXCEPT !.open = ~@])
      BY <1>2 DEF StripOK
    <3> QED BY <1>2, <3>1, <3>2
  <2>5. CASE \E u \in {"unasked", "quiet", "rows"} : chooseView(u)
    BY <1>2, <2>5 DEF chooseView
  <2>6. CASE \E applied \in BOOLEAN : WriteFails(applied)
    <3> DEFINE w == Head(writes)
               s == IF w.by = "open" /\ w.mine = writeseq THEN [strip EXCEPT !.open = w.before] ELSE strip
               n == IF w.by = "news" THEN [news EXCEPT !.hidden = w.before] ELSE news
    <3>1. Render(turn, s, n, soon, reads)
      BY <2>6 DEF WriteFails
    <3>2. StripOK(s) /\ NewsOK(n)
      BY <1>2, <1>3
    <3> HIDE DEF s, n
    <3> QED BY <3>1, <3>2
  <2> QED BY <2>1, <2>2, <2>3, <2>4, <2>5, <2>6
<1>6. NoNewLoad
  BY <1>5, RenderSendsNoLoad
<1> QED BY <1>1, <1>6, StarsStand

\* A load sees what the server has.
LEMMA LoadsSeeTheStars ==
    ASSUME BlockInv, StarsInv, retry \/ again \/ refreshAttention
    PROVE  StarsInv'
<1>1. PICK keep \in BOOLEAN, turns \in BOOLEAN : Reload(keep, turns)
  BY DEF retry, again, refreshAttention
<1> DEFINE a == Attention(seq + 1, turns)
<1>2. /\ seq' = seq + 1 /\ data' = (IF keep THEN data ELSE NoData) /\ reads' = reads \cup {a}
      /\ starring' = (IF keep THEN starring ELSE OnPage(NoData)) /\ unsure' = (IF keep THEN unsure ELSE NoCards)
      /\ UNCHANGED starred
  BY <1>1 DEF Reload, load, Draw
<1>3. a.kind = "tier1" /\ a.mine = seq + 1 /\ a.sees = starred
  BY DEF Attention, Read
<1> HIDE DEF a
<1>4. \A r \in reads : r.kind = "tier1" => r.mine # seq + 1
  <2>1. numbers["tier1"] = seq /\ seq \in Nat
    BY DEF numbers, BlockInv, Tier1OK
  <2>2. \A r \in reads : r.kind = "tier1" => r.mine \in Nat /\ r.mine <= seq
    BY <2>1 DEF BlockInv, ReadsOK, ReadOK, NumberedBy, Asker
  <2> QED BY <2>1, <2>2
<1>5. LatestOK(starring', starred')
  BY <1>2, OnPageStands DEF StarsInv
<1>6. DrawnOK(data', starring', starred', unsure')
  <2>1. CASE keep
    BY <1>2, <2>1 DEF StarsInv
  <2>2. CASE ~keep
    <3>1. data'.cards = <<>>
      BY <1>2, <2>2 DEF NoData
    <3>2. DOMAIN data'.cards = {}
      BY <3>1
    <3> QED BY <3>2 DEF DrawnOK
  <2> QED BY <2>1, <2>2
<1>7. SeenOK(reads', seq', starred', crossed')
  BY <1>2, <1>3, <1>4 DEF SeenOK
<1> QED BY <1>5, <1>6, <1>7 DEF StarsInv

\* A write applied, tier 1's or tier 3's, leaves no write of the course before it the latest.
LEMMA OvertakenStands ==
    ASSUME NEW c, LatestOK(starring, starred)
    PROVE  /\ \A q \in Overtaken(c) :
                 /\ DOMAIN q = {"card", "button", "mine", "on", "written", "last"}
                 /\ q.last => q.card # c /\ q.written /\ (q.on <=> q.card \in starred)
           /\ \A k : k # c /\ (\E q \in starring : q.card = k /\ q.last) => \E q \in Overtaken(c) : q.card = k /\ q.last
<1> DEFINE old(q) == [q EXCEPT !.last = FALSE]
<1>1. ASSUME NEW q \in starring
      PROVE  DOMAIN old(q) = DOMAIN q /\ old(q).card = q.card /\ ~old(q).last
  BY DEF LatestOK
<1>2. \A p \in Overtaken(c) : \E q \in starring : (q.card # c /\ p = q) \/ (q.card = c /\ p = old(q))
  BY DEF Overtaken
<1>3. \A q \in starring : q.card # c => q \in Overtaken(c)
  BY DEF Overtaken
<1> HIDE DEF old
<1> QED BY <1>1, <1>2, <1>3 DEF LatestOK

\* A load that is out when a star is written crosses it.
LEMMA CrossesSees ==
    ASSUME NEW c, SeenOK(reads, seq, starred, crossed), Crosses(c), UNCHANGED <<reads, seq>>,
           \A k : k # c => (k \in starred' <=> k \in starred)
    PROVE  SeenOK(reads', seq', starred', crossed')
<1>1. CASE LoadOut
  BY <1>1 DEF SeenOK, Crosses
<1>2. CASE ~LoadOut
  BY <1>2 DEF SeenOK, LoadOut, Current
<1> QED BY <1>1, <1>2

\* A star is pressed, its write is applied and answered, and tier 3 writes one: the card drawn follows the server, or
\* the page may have it wrong.
LEMMA StarringKeeps ==
    ASSUME BlockInv, StarsInv, StarSteps
    PROVE  StarsInv'
<1>1. UNCHANGED <<reads, seq>>
  BY StarStepsMove DEF StarRest, readVars
<1>2. ASSUME NEW c, NEW b, Star(c, b) PROVE StarsInv'
  <2> DEFINE w == [card |-> c, button |-> b, mine |-> presses, on |-> c \notin data.stars, written |-> FALSE, last |-> FALSE]
  <2>1. starring' = starring \cup {w} /\ UNCHANGED <<data, starred, crossed, unsure>>
    BY <1>2 DEF Star
  <2>2. DOMAIN w = {"card", "button", "mine", "on", "written", "last"} /\ ~w.last
    OBVIOUS
  <2> HIDE DEF w
  <2> QED BY <1>1, <2>1, <2>2 DEF StarsInv, LatestOK, DrawnOK
<1>3. ASSUME NEW q \in starring, StarWritten(q) PROVE StarsInv'
  <2> DEFINE w == [q EXCEPT !.written = TRUE, !.last = TRUE]
             c == q.card
  <2>1. /\ starring' = (Overtaken(c) \ {q}) \cup {w} /\ starred' = Starred(starred, q) /\ Crosses(c)
        /\ UNCHANGED <<data, unsure>> /\ ~q.written
    BY <1>3 DEF StarWritten
  <2>2. /\ DOMAIN w = {"card", "button", "mine", "on", "written", "last"}
        /\ w.card = c /\ w.on = q.on /\ w.written /\ w.last
    BY DEF StarsInv, LatestOK
  <2>3. (q.on <=> c \in starred') /\ \A k : k # c => (k \in starred' <=> k \in starred)
    BY <2>1 DEF Starred
  <2>4. ~q.last
    BY <2>1 DEF StarsInv, LatestOK
  <2> HIDE DEF w, c
  <2>5. /\ \A p \in Overtaken(c) :
              /\ DOMAIN p = {"card", "button", "mine", "on", "written", "last"}
              /\ p.last => p.card # c /\ p.written /\ (p.on <=> p.card \in starred)
        /\ \A k : k # c /\ (\E p \in starring : p.card = k /\ p.last) => \E p \in Overtaken(c) : p.card = k /\ p.last
    BY OvertakenStands DEF StarsInv
  <2>6. LatestOK(starring', starred')
    BY <2>1, <2>2, <2>3, <2>5 DEF LatestOK
  <2>7. ASSUME NEW k \in DOMAIN data.cards \ unsure
        PROVE  (\E p \in starring' : p.card = k /\ p.last) \/ (k \in data.stars <=> k \in starred')
    <3>1. CASE k = c
      BY <2>1, <2>2, <3>1
    <3>2. CASE k # c
      <4>1. (\E p \in starring : p.card = k /\ p.last) \/ (k \in data.stars <=> k \in starred)
        BY DEF StarsInv, DrawnOK
      <4>2. CASE \E p \in starring : p.card = k /\ p.last
        <5>1. PICK p \in Overtaken(c) : p.card = k /\ p.last
          BY <2>5, <3>2, <4>2
        <5>2. p \in starring'
          BY <2>1, <2>4, <5>1
        <5> QED BY <5>1, <5>2
      <4>3. CASE k \in data.stars <=> k \in starred
        BY <2>3, <3>2, <4>3
      <4> QED BY <4>1, <4>2, <4>3
    <3> QED BY <3>1, <3>2
  <2>8. DrawnOK(data', starring', starred', unsure')
    BY <2>1, <2>7 DEF DrawnOK
  <2>9. SeenOK(reads', seq', starred', crossed')
    BY <1>1, <2>1, <2>3, CrossesSees DEF StarsInv
  <2> QED BY <2>6, <2>8, <2>9 DEF StarsInv
<1>4. ASSUME NEW q \in starring, NEW answered \in BOOLEAN, StarAnswers(q, answered) PROVE StarsInv'
  <2> DEFINE c == q.card
  <2>1. /\ starring' = starring \ {q} /\ data' = toggleFavourite(data, q, answered) /\ (answered => q.written)
        /\ unsure' = IF answered /\ q.last THEN unsure \ {c} ELSE IF q.written THEN unsure \cup {c} ELSE unsure
        /\ UNCHANGED <<starred, crossed>>
    BY <1>4 DEF StarAnswers
  <2>2. LatestOK(starring', starred')
    BY <2>1 DEF StarsInv, LatestOK
  <2>3. /\ DOMAIN data'.cards = DOMAIN data.cards
        /\ \A k : k # c => (k \in data'.stars <=> k \in data.stars)
        /\ answered /\ c \in DOMAIN data.cards => (c \in data'.stars <=> q.on)
        /\ ~answered => data' = data
    <3>1. CASE answered /\ c \in DOMAIN data.cards
      <4>1. data' = [data EXCEPT !.stars = Starred(@, q)]
        BY <2>1, <3>1 DEF toggleFavourite
      <4>2. data'.stars = Starred(data.stars, q) /\ data'.cards = data.cards
        BY <4>1 DEF BlockInv, Tier1OK
      <4> QED BY <3>1, <4>2 DEF Starred
    <3>2. CASE ~(answered /\ c \in DOMAIN data.cards)
      BY <2>1, <3>2 DEF toggleFavourite
    <3> QED BY <3>1, <3>2
  <2>4. q.last => q.written /\ (q.on <=> c \in starred)
    BY DEF StarsInv, LatestOK
  <2> HIDE DEF c
  <2>5. ASSUME NEW k \in DOMAIN data'.cards \ unsure'
        PROVE  (\E p \in starring' : p.card = k /\ p.last) \/ (k \in data'.stars <=> k \in starred')
    <3>1. CASE k = c /\ answered
      BY <2>1, <2>3, <2>4, <2>5, <3>1
    <3>2. CASE ~(k = c /\ answered)
      <4>1. k \notin unsure /\ (k = c => ~q.last)
        BY <2>1, <2>4, <2>5, <3>2
      <4>2. (\E p \in starring : p.card = k /\ p.last) \/ (k \in data.stars <=> k \in starred)
        BY <2>3, <2>5, <4>1 DEF StarsInv, DrawnOK
      <4>3. CASE \E p \in starring : p.card = k /\ p.last
        BY <2>1, <4>1, <4>3 DEF c
      <4>4. CASE k \in data.stars <=> k \in starred
        BY <2>1, <2>3, <3>2, <4>4
      <4> QED BY <4>2, <4>3, <4>4
    <3> QED BY <3>1, <3>2
  <2>6. SeenOK(reads', seq', starred', crossed')
    BY <1>1, <2>1 DEF StarsInv, SeenOK
  <2>7. DrawnOK(data', starring', starred', unsure')
    BY <2>5 DEF DrawnOK
  <2> QED BY <2>2, <2>6, <2>7 DEF StarsInv
<1>5. ASSUME NEW c, ExploreStars(c) PROVE StarsInv'
  <2>1. /\ starring' = Overtaken(c) /\ Crosses(c) /\ unsure' = unsure \cup {c} /\ data' = data
        /\ \A k : k # c => (k \in starred' <=> k \in starred)
    BY <1>5 DEF ExploreStars
  <2>2. /\ \A p \in Overtaken(c) :
              /\ DOMAIN p = {"card", "button", "mine", "on", "written", "last"}
              /\ p.last => p.card # c /\ p.written /\ (p.on <=> p.card \in starred)
        /\ \A k : k # c /\ (\E p \in starring : p.card = k /\ p.last) => \E p \in Overtaken(c) : p.card = k /\ p.last
    BY OvertakenStands DEF StarsInv
  <2>3. LatestOK(starring', starred')
    BY <2>1, <2>2 DEF LatestOK
  <2>4. DrawnOK(data', starring', starred', unsure')
    BY <2>1, <2>2 DEF StarsInv, DrawnOK
  <2>5. SeenOK(reads', seq', starred', crossed')
    BY <1>1, <2>1, CrossesSees DEF StarsInv
  <2> QED BY <2>3, <2>4, <2>5 DEF StarsInv
<1> QED BY <1>2, <1>3, <1>4, <1>5 DEF StarSteps

LEMMA StarsStep == BlockInv /\ StarsInv /\ [Next]_vars => StarsInv'
<1> SUFFICES ASSUME BlockInv, StarsInv, [Next]_vars PROVE StarsInv'
  OBVIOUS
<1>1. CASE Reading
  <2>1. CASE (\E R \in Attempts : AttemptFails(R)) \/ \E r \in reads : RetryLeaves(r)
    <3>1. UNCHANGED <<seq, starred, starring, crossed, unsure, data>>
      BY <2>1 DEF AttemptFails, RetryLeaves, blockVars, tier1Vars, starVars
    <3> QED BY <2>1, <3>1, RetriesSeeTheSame, StarsStand
  <2> QED BY <1>1, <2>1, AttentionKeepsStars, Tier1EndsKeepStars, OtherReadsKeepStars DEF Reading
<1>2. CASE explore \/ setSoonRemembered \/ hide \/ WriteLands \/ UNCHANGED pageVars
  <2>1. UNCHANGED <<reads, seq, starred, starring, crossed, unsure, data>>
    BY <1>2 DEF explore, setSoonRemembered, hide, WriteLands, pageVars, tier1Vars, starVars, readVars
  <2> QED BY <2>1, StarsStand DEF NoNewLoad
<1>3. CASE RetryNews
  <2>1. /\ UNCHANGED <<seq, starred, starring, crossed, unsure, data>> /\ reads' = reads \cup {Read("news", news.seq + 1)}
    BY <1>3 DEF RetryNews, tier1Vars, starVars
  <2>2. NoNewLoad
    BY <2>1 DEF NoNewLoad, Read
  <2> QED BY <2>1, <2>2, StarsStand
<1>4. CASE Writing
  BY <1>2, <1>4, OtherReadsKeepStars DEF Writing
<1>5. CASE Pressing
  BY <1>2, <1>3, <1>5, LoadsSeeTheStars, OtherReadsKeepStars DEF Pressing
<1> QED BY <1>1, <1>2, <1>4, <1>5, StarringKeeps DEF Next, vars

LEMMA StarsStart == Init => StarsInv
<1> SUFFICES ASSUME Init PROVE StarsInv
  OBVIOUS
<1>1. starring = {} /\ data = NoData /\ reads = {Attention(1, FALSE)}
  BY DEF Init
<1>2. \A r \in reads : r.sees = starred
  BY <1>1 DEF Attention, Read
<1>3. DOMAIN data.cards = {}
  BY <1>1 DEF NoData
<1> QED BY <1>1, <1>2, <1>3 DEF StarsInv, LatestOK, DrawnOK, SeenOK

(***************************************************************************)
(* What waits                                                              *)
(***************************************************************************)

Reaches(R, kind, mine) == \E r \in R : r.kind = kind /\ r.mine = mine
LoadingCards(d) == {c \in DOMAIN d.cards : d.cards[c] = "loading"}

\* Before the turn comes the last load is out; a batch out takes along every card still loading of the load drawn.
Tier1Wait ==
    /\ turn \in Nat
    /\ data = NoData \/ data.of # 0
    /\ turn = 0 \/ (data = NoData /\ error = "none") => OutFor("tier1", seq)
    /\ \A r \in reads : r.kind = "details" /\ Current(r) => data.of = seq /\ LoadingCards(data) \subseteq r.rest
    /\ error # "load" /\ LoadingCards(data) # {} => OutFor("tier1", seq) \/ OutFor("details", seq)

\* A part was asked at no turn and no attempt to come.
PartTyped(p, t) ==
    /\ p.asked \in Nat \X Nat /\ p.attempt \in Nat /\ p.in \in BOOLEAN /\ p.failed \in BOOLEAN /\ p.retrying \in BOOLEAN
    /\ p.asked[1] <= t /\ p.asked[2] <= p.attempt
    /\ p.asked[1] > 0 => p.seq > 0
PartWaiting(p) == p.retrying \/ (p.seq > 0 /\ ~p.in /\ ~p.failed)
LineWaiting(n) == n.retrying \/ (n.asked /\ ~n.answer /\ ~n.failed)

\* Some of the strip's reads is out or failed.
StripBegan(s, R) == s.row.failed \/ s.counts.failed \/ \E r \in R : r.kind \in {"row", "counts"}

StripWait ==
    /\ PartTyped(strip.row, turn) /\ PartTyped(strip.counts, turn)
    /\ PartWaiting(strip.row) => OutFor("row", strip.row.seq)
    /\ PartWaiting(strip.counts) => OutFor("counts", strip.counts.seq)
    /\ turn > 0 /\ config.calendar =>
          /\ strip.open /\ ~strip.row.in /\ ~strip.row.failed => strip.row.seq > 0
          /\ ~strip.open /\ ~strip.row.in /\ ~strip.counts.in /\ ~strip.counts.failed => strip.counts.seq > 0
    /\ StripBegan(strip, reads) => turn > 0 /\ config.calendar

LineWait ==
    /\ LineWaiting(news) => OutFor("news", news.seq)
    /\ turn > 0 /\ config.line = "on" /\ ~news.hidden => news.asked

WaitInv == Tier1Wait /\ StripWait /\ LineWait

\* What a render sends, once more: each read that is due.
LEMMA SentAsDue ==
    ASSUME NEW s, StripOK(s), NEW n, NewsOK(n), NEW t, NEW pair \in BOOLEAN
    PROVE  /\ RowDue(s, t) => Reaches(Sent(s, n, t, pair), "row", s.row.seq + 1)
           /\ CountsDue(s, t) => Reaches(Sent(s, n, t, pair), "counts", s.counts.seq + 1)
           /\ NewsDue(n, t) => Reaches(Sent(s, n, t, pair), "news", n.seq + 1)
<1> DEFINE asked == StripReads(s, t) \cup NewsReads(n, t)
           b(r) == [r EXCEPT !.batched = TRUE]
           F == Sent(s, n, t, pair)
<1>1. ASSUME NEW kind \in Kinds, NEW mine \in Nat, Read(kind, mine) \in asked
      PROVE  Reaches(F, kind, mine)
  <2> DEFINE r == Read(kind, mine)
  <2>1. r.kind = kind /\ r.mine = mine /\ b(r).kind = kind /\ b(r).mine = mine
    BY NewRead
  <2>2. r \in F \/ b(r) \in F
    <3> HIDE DEF r
    <3> QED BY <1>1 DEF Sent, r
  <2> HIDE DEF r, b, F
  <2> QED BY <2>1, <2>2 DEF Reaches
<1>2. /\ s.row.seq + 1 \in Nat /\ s.counts.seq + 1 \in Nat /\ n.seq + 1 \in Nat
      /\ "row" \in Kinds /\ "counts" \in Kinds /\ "news" \in Kinds
  BY DEF StripOK, PartOK, NewsOK, Kinds
<1>3. /\ RowDue(s, t) => Read("row", s.row.seq + 1) \in asked
      /\ CountsDue(s, t) => Read("counts", s.counts.seq + 1) \in asked
      /\ NewsDue(n, t) => Read("news", n.seq + 1) \in asked
  BY DEF StripReads, NewsReads
<1> HIDE DEF asked, F
<1>4. /\ RowDue(s, t) => Reaches(F, "row", s.row.seq + 1)
      /\ CountsDue(s, t) => Reaches(F, "counts", s.counts.seq + 1)
      /\ NewsDue(n, t) => Reaches(F, "news", n.seq + 1)
  BY <1>1, <1>2, <1>3
<1> QED BY <1>4 DEF F

\* What a render is given: whatever waits in it is due, or out.
Ready(s, n, t, base) ==
    /\ StripOK(s) /\ NewsOK(n)
    /\ PartTyped(s.row, t) /\ PartTyped(s.counts, t)
    /\ PartWaiting(s.row) => RowDue(s, t) \/ Reaches(base, "row", s.row.seq)
    /\ PartWaiting(s.counts) => CountsDue(s, t) \/ Reaches(base, "counts", s.counts.seq)
    /\ StripBegan(s, base) => t > 0 /\ config.calendar
    /\ LineWaiting(n) => Reaches(base, "news", n.seq)

\* A part that is asked is at its render's turn and its own attempt.
LEMMA AskedPart ==
    ASSUME NEW p, PartOK(p), NEW t \in Nat, PartTyped(p, t)
    PROVE  /\ PartTyped(AskPart(p, t), t) /\ AskPart(p, t).seq > 0
           /\ AskPart(p, t).in = p.in /\ AskPart(p, t).failed = p.failed
<1> DEFINE k == AskPart(p, t)
<1>1. /\ k.asked = <<t, p.attempt>> /\ k.seq = p.seq + 1 /\ k.attempt = p.attempt /\ k.in = p.in /\ k.failed = p.failed
      /\ k.retrying = (p.retrying \/ p.failed)
  BY DEF AskPart, PartOK
<1> HIDE DEF k
<1>2. p.seq \in Nat /\ p.attempt \in Nat
  BY DEF PartOK, PartTyped
<1>3. k.seq > 0 /\ k.asked \in Nat \X Nat /\ k.asked[1] = t /\ k.asked[2] = p.attempt
  BY <1>1, <1>2
<1>4. PartTyped(k, t)
  BY <1>1, <1>2, <1>3 DEF PartTyped
<1> QED BY <1>1, <1>3, <1>4 DEF k

\* After a render nothing waits for a read that is not out.
LEMMA RenderWaits ==
    ASSUME NEW t \in Nat, NEW s, NEW n, NEW u, NEW base, Ready(s, n, t, base), Render(t, s, n, u, base), config' = config
    PROVE  StripWait' /\ LineWait'
<1> DEFINE F == Sent(s, n, t, PairLeaves(t))
           rowdue == RowDue(s, t)
           countsdue == CountsDue(s, t)
           row == strip'.row
           counts == strip'.counts
<1>1. /\ strip' = StripAsked(s, t) /\ news' = NewsAsked(n, t) /\ reads' = base \cup F /\ turn' = t
      /\ PairLeaves(t) \in BOOLEAN
  BY DEF Render, Sent, PairLeaves
<1>2. StripOK(s) /\ NewsOK(n) /\ PartOK(s.row) /\ PartOK(s.counts)
  BY DEF Ready, StripOK
<1>3. /\ rowdue => Reaches(F, "row", s.row.seq + 1)
      /\ countsdue => Reaches(F, "counts", s.counts.seq + 1)
      /\ NewsDue(n, t) => Reaches(F, "news", n.seq + 1)
      /\ \A f \in F : \/ f.kind = "row" /\ rowdue
                      \/ f.kind = "counts" /\ countsdue
                      \/ f.kind = "news"
  BY <1>1, <1>2, SentAsDue, RenderSends
<1> HIDE DEF F
<1>4. /\ row = (IF rowdue THEN AskPart(s.row, t) ELSE s.row)
      /\ counts = (IF countsdue THEN AskPart(s.counts, t) ELSE s.counts)
      /\ strip'.open = s.open
  BY <1>1, <1>2 DEF StripAsked, StripOK
<1>5. /\ AskPart(s.row, t).seq = s.row.seq + 1 /\ AskPart(s.counts, t).seq = s.counts.seq + 1
  BY <1>2, PartAsked
<1>6. PartTyped(row, t) /\ PartTyped(counts, t)
  BY <1>2, <1>4, AskedPart DEF Ready
<1>7. PartWaiting(row) => Reaches(reads', "row", row.seq)
  <2>1. CASE rowdue
    BY <1>1, <1>3, <1>4, <1>5, <2>1 DEF Reaches
  <2>2. CASE ~rowdue
    BY <1>1, <1>4, <2>2 DEF Ready, Reaches
  <2> QED BY <2>1, <2>2
<1>8. PartWaiting(counts) => Reaches(reads', "counts", counts.seq)
  <2>1. CASE countsdue
    BY <1>1, <1>3, <1>4, <1>5, <2>1 DEF Reaches
  <2>2. CASE ~countsdue
    BY <1>1, <1>4, <2>2 DEF Ready, Reaches
  <2> QED BY <2>1, <2>2
<1>9. rowdue \/ countsdue => t > 0 /\ config.calendar
  BY DEF RowDue, CountsDue
<1>10. row.in = s.row.in /\ row.failed = s.row.failed /\ counts.in = s.counts.in /\ counts.failed = s.counts.failed
  BY <1>2, <1>4, AskedPart DEF Ready
<1>11. ASSUME t > 0, config.calendar, s.open, ~s.row.in, ~s.row.failed PROVE row.seq > 0
  <2>1. CASE rowdue
    BY <1>2, <1>4, <2>1, AskedPart DEF Ready
  <2>2. CASE ~rowdue
    <3>1. s.row.asked = <<t, s.row.attempt>>
      BY <1>11, <2>2 DEF RowDue
    <3>2. s.row.asked[1] = t
      BY <3>1
    <3> QED BY <1>4, <1>11, <2>2, <3>2 DEF Ready, PartTyped
  <2> QED BY <2>1, <2>2
<1>12. ASSUME t > 0, config.calendar, ~s.open, ~s.row.in, ~s.counts.in, ~s.counts.failed PROVE counts.seq > 0
  <2>1. CASE countsdue
    BY <1>2, <1>4, <2>1, AskedPart DEF Ready
  <2>2. CASE ~countsdue
    <3>1. s.counts.asked = <<t, s.counts.attempt>>
      BY <1>12, <2>2 DEF CountsDue
    <3>2. s.counts.asked[1] = t
      BY <3>1
    <3> QED BY <1>4, <1>12, <2>2, <3>2 DEF Ready, PartTyped
  <2> QED BY <2>1, <2>2
<1>13. StripBegan(strip', reads') => t > 0 /\ config.calendar
  BY <1>1, <1>3, <1>9, <1>10 DEF Ready, StripBegan
<1>14. StripWait'
  BY <1>1, <1>4, <1>6, <1>7, <1>8, <1>10, <1>11, <1>12, <1>13 DEF StripWait, OutFor, Reaches
<1>15. LineWait'
  <2>1. CASE NewsDue(n, t)
    <3>1. news' = [n EXCEPT !.asked = TRUE, !.seq = @ + 1, !.retrying = n.failed]
      BY <1>1, <2>1 DEF NewsAsked
    <3>2. news'.seq = n.seq + 1 /\ news'.asked = TRUE
      BY <1>2, <3>1 DEF NewsOK
    <3> QED BY <1>1, <1>3, <2>1, <3>2 DEF LineWait, OutFor, Reaches
  <2>2. CASE ~NewsDue(n, t)
    <3>1. news' = n
      BY <1>1, <2>2 DEF NewsAsked
    <3> QED BY <1>1, <2>2, <3>1 DEF LineWait, OutFor, Reaches, Ready, NewsDue
  <2> QED BY <2>1, <2>2
<1> QED BY <1>14, <1>15

\* The strip and the line as they are, with their reads out.
LEMMA ReadyAsBefore ==
    ASSUME BlockInv, WaitInv, NEW t \in Nat, turn <= t, NEW base,
           \A r \in reads : r.kind \in {"row", "counts", "news"} => r \in base,
           \A r \in base : r \in reads \/ r.kind = "details"
    PROVE  Ready(strip, news, t, base)
<1>1. StripOK(strip) /\ NewsOK(news) /\ turn \in Nat
  BY DEF BlockInv, WaitInv, Tier1Wait
<1>2. PartTyped(strip.row, t) /\ PartTyped(strip.counts, t)
  <2>1. ASSUME NEW p, PartTyped(p, turn) PROVE PartTyped(p, t)
    <3>1. p.asked[1] \in Nat
      BY <2>1 DEF PartTyped
    <3> QED BY <1>1, <2>1, <3>1 DEF PartTyped
  <2> QED BY <2>1 DEF WaitInv, StripWait
<1>3. /\ PartWaiting(strip.row) => Reaches(base, "row", strip.row.seq)
      /\ PartWaiting(strip.counts) => Reaches(base, "counts", strip.counts.seq)
      /\ LineWaiting(news) => Reaches(base, "news", news.seq)
  BY DEF WaitInv, StripWait, LineWait, OutFor, Reaches
<1>4. StripBegan(strip, base) => t > 0 /\ config.calendar
  <2>1. StripBegan(strip, base) => StripBegan(strip, reads)
    BY DEF StripBegan
  <2> QED BY <1>1, <2>1 DEF WaitInv, StripWait
<1> QED BY <1>1, <1>2, <1>3, <1>4 DEF Ready

\* An open strip closed or a closed one opened, a line shown or hidden, wait for the same.
LEMMA ReadyShownOrNot ==
    ASSUME NEW t, NEW base, NEW s, NEW n, Ready(strip, news, t, base), s \in {strip} \cup {[strip EXCEPT !.open = v] : v \in BOOLEAN},
           n \in {news} \cup {[news EXCEPT !.hidden = v] : v \in BOOLEAN},
           PartWaiting(strip.row) => Reaches(base, "row", strip.row.seq),
           PartWaiting(strip.counts) => Reaches(base, "counts", strip.counts.seq)
    PROVE  Ready(s, n, t, base)
<1>1. StripOK(s) /\ s.row = strip.row /\ s.counts = strip.counts
  BY DEF Ready, StripOK
<1>2. /\ NewsOK(n) /\ n.seq = news.seq /\ n.retrying = news.retrying /\ n.asked = news.asked
      /\ n.answer = news.answer /\ n.failed = news.failed
  BY DEF Ready, NewsOK
<1> QED BY <1>1, <1>2 DEF Ready, LineWaiting, StripBegan

\* Tier 1 waits as it did.
LEMMA Tier1WaitsOn ==
    ASSUME Tier1Wait, turn' \in Nat, turn <= turn', UNCHANGED <<seq, data, error>>,
           \A r \in reads : r.kind \in {"tier1", "details"} => \E q \in reads' : q.kind = r.kind /\ q.mine = r.mine,
           \A q \in reads' : q.kind = "details" => \E r \in reads : r.kind = "details" /\ q.mine = r.mine /\ q.rest = r.rest
    PROVE  Tier1Wait'
<1>1. turn \in Nat /\ (turn' = 0 => turn = 0)
  BY DEF Tier1Wait
<1>2. (OutFor("tier1", seq) => OutFor("tier1", seq)') /\ (OutFor("details", seq) => OutFor("details", seq)')
  BY DEF OutFor
<1>3. LoadingCards(data)' = LoadingCards(data)
  BY DEF LoadingCards
<1> QED BY <1>1, <1>2, <1>3 DEF Tier1Wait, Current

\* So do the strip and the line.
LEMMA OthersWaitOn ==
    ASSUME StripWait, LineWait, UNCHANGED <<strip, turn, config>>, NewsOK(news),
           news' \in {news, [news EXCEPT !.hidden = TRUE]},
           \A r \in reads : r.kind \in {"row", "counts", "news"} => \E q \in reads' : q.kind = r.kind /\ q.mine = r.mine,
           \A q \in reads' : q.kind \in {"row", "counts"} => \E r \in reads : r.kind = q.kind
    PROVE  StripWait' /\ LineWait'
<1>1. /\ OutFor("row", strip.row.seq) => OutFor("row", strip.row.seq)'
      /\ OutFor("counts", strip.counts.seq) => OutFor("counts", strip.counts.seq)'
      /\ OutFor("news", news.seq) => Reaches(reads', "news", news.seq)
  BY DEF OutFor, Reaches
<1>2. StripBegan(strip, reads)' => StripBegan(strip, reads)
  BY DEF StripBegan
<1>3. StripWait'
  BY <1>1, <1>2 DEF StripWait
<1>4. /\ news'.seq = news.seq /\ news'.retrying = news.retrying /\ news'.asked = news.asked
      /\ news'.answer = news.answer /\ news'.failed = news.failed /\ (news'.hidden = news.hidden \/ news'.hidden = TRUE)
  BY DEF NewsOK
<1>5. LineWait'
  BY <1>1, <1>4 DEF LineWait, LineWaiting, OutFor, Reaches
<1> QED BY <1>3, <1>5

\* Cards filled in, or let go: of those still loading none but the ones left.
LEMMA LoadingLeft ==
    ASSUME NEW d, DOMAIN d = {"of", "cards", "twice", "stars", "more"}, NEW cards, NEW as \in {"shown", "unknown", "dropped"}
    PROVE  LoadingCards(withCards(d, cards, as)) = LoadingCards(d) \ cards
<1> DEFINE k == withCards(d, cards, as)
<1>1. k.cards = [c \in DOMAIN d.cards |-> IF c \in cards THEN as ELSE d.cards[c]]
  BY DEF withCards
<1> HIDE DEF k
<1>2. LoadingCards(k) = LoadingCards(d) \ cards
  BY <1>1 DEF LoadingCards
<1> QED BY <1>2 DEF k

\* The turns a tier 1 read gives.
LEMMA TurnsGoOn ==
    ASSUME turn \in Nat, NEW r
    PROVE  /\ Turned(r) \in Nat /\ turn <= Turned(r) /\ Turned(r) > 0
           /\ settleTier1 \in Nat /\ turn <= settleTier1 /\ settleTier1 > 0
BY DEF Turned, settleTier1

\* The payload answers: its cards are shown, or their details are out.
LEMMA AttentionWaits ==
    ASSUME BlockInv, WaitInv, NEW r \in reads, NEW p \in Payloads, AttentionAnswers(r, p)
    PROVE  WaitInv'
<1>1. r.kind = "tier1" /\ UNCHANGED <<seq, config>> /\ turn \in Nat /\ seq \in Nat \ {0}
  BY DEF AttentionAnswers, WaitInv, Tier1Wait, BlockInv, Tier1OK
<1> DEFINE d == Details(r, p.pending)
           base == reads \ {r}
<1>2. d.kind = "details" /\ d.mine = r.mine /\ d.rest = p.pending
  BY DEF Details, Read
<1> HIDE DEF d
<1>3. PICK t \in Nat, more \in {{}, {d}} :
        /\ t > 0 /\ turn <= t
        /\ Render(t, strip, news, soon, base \cup more)
        /\ more = IF Current(r) /\ p.pending # {} THEN {d} ELSE {}
  <2>1. CASE Current(r) /\ p.pending # {}
    <3>1. Render(settleTier1, strip, news, soon, base \cup {d})
      BY <2>1 DEF AttentionAnswers, d
    <3> QED BY <1>1, <2>1, <3>1, TurnsGoOn
  <2>2. CASE ~(Current(r) /\ p.pending # {})
    <3>1. Render(Turned(r), strip, news, soon, base)
      BY <2>2 DEF AttentionAnswers
    <3>2. base \cup {} = base
      OBVIOUS
    <3> QED BY <1>1, <2>2, <3>1, <3>2, TurnsGoOn
  <2> QED BY <2>1, <2>2
<1>4. StripWait' /\ LineWait'
  <2> DEFINE all == base \cup more
  <2>1. (\A q \in reads : q.kind \in {"row", "counts", "news"} => q \in all)
        /\ (\A q \in all : q \in reads \/ q.kind = "details")
    BY <1>1, <1>2, <1>3
  <2>2. Render(t, strip, news, soon, all)
    BY <1>3
  <2> HIDE DEF all
  <2>3. Ready(strip, news, t, all)
    BY <1>3, <2>1, ReadyAsBefore
  <2> QED BY <1>1, <2>2, <2>3, RenderWaits
<1>5. /\ turn' = t
      /\ \A q \in base \cup more : q \in reads'
      /\ \A q \in reads' : q \in base \cup more \/ q.kind \in {"row", "counts", "news"}
  <2>1. reads' = (base \cup more) \cup Sent(strip, news, t, PairLeaves(t)) /\ PairLeaves(t) \in BOOLEAN /\ turn' = t
    BY <1>3 DEF Render, Sent, PairLeaves
  <2>2. \A f \in Sent(strip, news, t, PairLeaves(t)) : f.kind \in {"row", "counts", "news"}
    BY <2>1, RenderSends DEF BlockInv
  <2> QED BY <2>1, <2>2
<1>6. Tier1Wait'
  <2>1. CASE Current(r)
    <3>1. data' = [of |-> r.mine, cards |-> [c \in p.cards |-> IF c \in p.pending THEN "loading" ELSE "shown"],
                   twice |-> r.sees \cap p.twice, stars |-> r.sees \cap p.cards, more |-> p.more] /\ error' = error
      BY <2>1 DEF AttentionAnswers, Draw
    <3>2. data'.of = seq /\ data'.cards = [c \in p.cards |-> IF c \in p.pending THEN "loading" ELSE "shown"]
      BY <2>1, <3>1 DEF Current
    <3>3. data' # NoData
      BY <1>1, <3>2 DEF NoData
    <3>4. LoadingCards(data') \subseteq p.pending
      BY <3>2 DEF LoadingCards
    <3>5. \A q \in reads' : q.kind = "details" /\ q.mine = seq => q = d /\ more = {d}
      <4>1. \A q \in base : ~(q.kind = "details" /\ q.mine = seq)
        BY <1>1, <2>1 DEF BlockInv, ReadsOK, OneReadOfAnAsk, SameAsk, Asker, Current
      <4> QED BY <1>3, <1>5, <4>1
    <3>6. LoadingCards(data') # {} => \E q \in reads' : q.kind = "details" /\ q.mine = seq
      BY <1>2, <1>3, <1>5, <2>1, <3>4 DEF Current
    <3>7. \A q \in reads' : q.kind = "details" /\ q.mine = seq => q.rest = p.pending
      BY <1>2, <3>5
    <3> QED BY <1>1, <1>3, <1>5, <3>2, <3>3, <3>4, <3>6, <3>7 DEF Tier1Wait, OutFor, Current, LoadingCards
  <2>2. CASE ~Current(r)
    <3>1. UNCHANGED <<data, error>>
      BY <2>2 DEF AttentionAnswers
    <3>2. more = {}
      BY <1>3, <2>2
    <3>3. \A q \in reads : q.mine = seq => q \in reads'
      BY <1>5, <2>2 DEF Current
    <3>4. \A q \in reads' : q.kind = "details" => q \in reads
      BY <1>5, <3>2
    <3>5. /\ OutFor("tier1", seq) => OutFor("tier1", seq)'
          /\ OutFor("details", seq) => OutFor("details", seq)'
      BY <1>1, <3>3 DEF OutFor
    <3>6. LoadingCards(data)' = LoadingCards(data)
      BY <3>1 DEF LoadingCards
    <3> QED BY <1>1, <1>3, <1>5, <3>1, <3>4, <3>5, <3>6 DEF WaitInv, Tier1Wait, Current
  <2> QED BY <2>1, <2>2
<1> QED BY <1>4, <1>6 DEF WaitInv

\* A batch of details answers, and the next one is asked for; or tier 1's read gives up.
LEMMA Tier1EndsWait ==
    ASSUME BlockInv, WaitInv, NEW r \in reads, DetailsAnswer(r) \/ LoadGivesUp(r)
    PROVE  WaitInv'
<1> DEFINE base == reads \ {r}
           rest == r.rest \ NextBatch(r.rest)
           d == Details(r, rest)
           goes == r.kind = "details" /\ DetailsAnswer(r) /\ Current(r) /\ rest # {}
<1>1. r.kind \in {"tier1", "details"} /\ UNCHANGED <<seq, config>> /\ turn \in Nat /\ seq \in Nat \ {0}
  BY DEF DetailsAnswer, LoadGivesUp, WaitInv, Tier1Wait, BlockInv, Tier1OK
<1>2. d.kind = "details" /\ d.mine = r.mine /\ d.rest = rest
  BY DEF Details, Read
<1> HIDE DEF d
<1>3. PICK t \in Nat, more \in {{}, {d}} :
        /\ turn <= t /\ (more = {} => t > 0)
        /\ Render(t, strip, news, soon, base \cup more)
        /\ more = {d} => DetailsAnswer(r) /\ Current(r) /\ rest # {}
        /\ more = {} /\ DetailsAnswer(r) /\ Current(r) => rest = {}
  <2>1. CASE DetailsAnswer(r) /\ Current(r) /\ rest # {}
    <3>1. Render(turn, strip, news, soon, base \cup {d})
      BY <2>1 DEF DetailsAnswer, d
    <3> QED BY <1>1, <2>1, <3>1
  <2>2. CASE ~(DetailsAnswer(r) /\ Current(r) /\ rest # {})
    <3>1. Render(Turned(r), strip, news, soon, base)
      BY <2>2 DEF DetailsAnswer, LoadGivesUp
    <3>2. base \cup {} = base
      OBVIOUS
    <3> QED BY <1>1, <2>2, <3>1, <3>2, TurnsGoOn
  <2> QED BY <2>1, <2>2
<1>4. StripWait' /\ LineWait'
  <2> DEFINE all == base \cup more
  <2>1. (\A q \in reads : q.kind \in {"row", "counts", "news"} => q \in all)
        /\ (\A q \in all : q \in reads \/ q.kind = "details")
    BY <1>1, <1>2, <1>3
  <2>2. Render(t, strip, news, soon, all)
    BY <1>3
  <2> HIDE DEF all
  <2>3. Ready(strip, news, t, all)
    BY <1>3, <2>1, ReadyAsBefore
  <2> QED BY <1>1, <2>2, <2>3, RenderWaits
<1>5. /\ turn' = t
      /\ \A q \in base \cup more : q \in reads'
      /\ \A q \in reads' : q \in base \cup more \/ q.kind \in {"row", "counts", "news"}
  <2>1. reads' = (base \cup more) \cup Sent(strip, news, t, PairLeaves(t)) /\ PairLeaves(t) \in BOOLEAN /\ turn' = t
    BY <1>3 DEF Render, Sent, PairLeaves
  <2>2. \A f \in Sent(strip, news, t, PairLeaves(t)) : f.kind \in {"row", "counts", "news"}
    BY <2>1, RenderSends DEF BlockInv
  <2> QED BY <2>1, <2>2
<1>6. Tier1Wait'
  <2>1. CASE ~Current(r)
    <3>1. UNCHANGED <<data, error>>
      BY <2>1 DEF DetailsAnswer, LoadGivesUp
    <3>2. more = {}
      BY <1>3, <2>1
    <3>3. \A q \in reads : q.mine = seq => q \in reads'
      BY <1>5, <2>1 DEF Current
    <3>4. \A q \in reads' : q.kind = "details" => q \in reads
      BY <1>5, <3>2
    <3>5. /\ OutFor("tier1", seq) => OutFor("tier1", seq)'
          /\ OutFor("details", seq) => OutFor("details", seq)'
      BY <1>1, <3>3 DEF OutFor
    <3>6. LoadingCards(data)' = LoadingCards(data)
      BY <3>1 DEF LoadingCards
    <3> QED BY <1>1, <1>3, <1>5, <3>1, <3>2, <3>4, <3>5, <3>6 DEF WaitInv, Tier1Wait, Current
  <2>2. ASSUME Current(r) PROVE \A q \in base : ~(q.kind \in {"tier1", "details"} /\ q.mine = seq)
    BY <1>1, <2>2 DEF BlockInv, ReadsOK, OneReadOfAnAsk, SameAsk, Asker, Current
  <2>3. CASE Current(r) /\ r.kind = "tier1"
    <3>1. data' = data /\ error' = "load" /\ more = {} /\ (data = NoData \/ data.of # 0)
      BY <1>3, <2>3 DEF DetailsAnswer, LoadGivesUp, Draw, WaitInv, Tier1Wait
    <3>2. \A q \in reads' : ~(q.kind = "details" /\ q.mine = seq)
      BY <1>5, <2>2, <2>3, <3>1
    <3> QED BY <1>1, <1>3, <1>5, <3>1, <3>2 DEF Tier1Wait, Current
  <2>4. CASE Current(r) /\ r.kind = "details" /\ DetailsAnswer(r)
    <3>1. PICK theirs \in SUBSET NextBatch(r.rest) :
             /\ data' = withCards(withCards(data, theirs, "shown"), NextBatch(r.rest) \ theirs, "dropped")
             /\ error' = error
      BY <2>4 DEF DetailsAnswer, Draw
    <3>2. LoadingCards(data') = LoadingCards(data) \ NextBatch(r.rest) /\ data'.of = data.of
      <4> DEFINE one == withCards(data, theirs, "shown")
      <4>1. DOMAIN one = DOMAIN data /\ one.of = data.of /\ LoadingCards(one) = LoadingCards(data) \ theirs
        BY LoadingLeft, CardsKeepTheLoad DEF BlockInv, Tier1OK
      <4> HIDE DEF one
      <4>2. /\ withCards(one, NextBatch(r.rest) \ theirs, "dropped").of = one.of
            /\ LoadingCards(withCards(one, NextBatch(r.rest) \ theirs, "dropped"))
                 = LoadingCards(one) \ (NextBatch(r.rest) \ theirs)
        BY <4>1, LoadingLeft, CardsKeepTheLoad DEF BlockInv, Tier1OK
      <4> QED BY <3>1, <4>1, <4>2 DEF one
    <3>3. data.of = seq /\ LoadingCards(data) \subseteq r.rest
      BY <2>4 DEF WaitInv, Tier1Wait
    <3>4. LoadingCards(data') \subseteq rest
      BY <3>2, <3>3
    <3>5. data' # NoData
      BY <1>1, <3>2, <3>3 DEF NoData
    <3>6. \A q \in reads' : q.kind = "details" /\ q.mine = seq => q = d
      BY <1>3, <1>5, <2>2, <2>4
    <3>7. LoadingCards(data') # {} => \E q \in reads' : q.kind = "details" /\ q.mine = seq
      BY <1>2, <1>3, <1>5, <2>4, <3>4 DEF Current
    <3>8. t > 0 \/ OutFor("tier1", seq)'
      <4>1. CASE more = {}
        BY <1>3, <4>1
      <4>2. CASE turn > 0
        BY <1>1, <1>3, <4>2
      <4>3. CASE turn = 0
        <5>1. PICK q \in reads : q.kind = "tier1" /\ q.mine = seq
          BY <4>3 DEF WaitInv, Tier1Wait, OutFor
        <5>2. q \in reads'
          BY <1>5, <2>4, <5>1
        <5> QED BY <1>1, <5>1, <5>2 DEF OutFor
      <4> QED BY <1>1, <4>2, <4>3
    <3> HIDE DEF rest
    <3> QED BY <1>1, <1>2, <1>5, <3>2, <3>3, <3>4, <3>5, <3>6, <3>7, <3>8 DEF Tier1Wait, OutFor, Current, LoadingCards
  <2>5. CASE Current(r) /\ r.kind = "details" /\ ~DetailsAnswer(r)
    <3>1. data' = withCards(data, r.rest, "unknown") /\ error' = "progress" /\ more = {}
      BY <1>3, <2>5 DEF LoadGivesUp, Draw
    <3>2. LoadingCards(data') = LoadingCards(data) \ r.rest /\ data'.of = data.of
      BY <3>1, LoadingLeft, CardsKeepTheLoad DEF BlockInv, Tier1OK
    <3>3. LoadingCards(data') = {} /\ data.of = seq
      BY <2>5, <3>2 DEF WaitInv, Tier1Wait
    <3>4. \A q \in reads' : ~(q.kind = "details" /\ q.mine = seq)
      BY <1>5, <2>2, <2>5, <3>1
    <3> QED BY <1>1, <1>3, <1>5, <3>1, <3>2, <3>3, <3>4 DEF Tier1Wait, Current, LoadingCards
  <2> QED BY <1>1, <2>1, <2>3, <2>4, <2>5
<1> QED BY <1>4, <1>6 DEF WaitInv


\* A render that leaves tier 1 as it is and ends no read of it.
LEMMA RenderedWaits ==
    ASSUME BlockInv, WaitInv, NEW s, NEW n, NEW u, NEW base, Ready(s, n, turn, base), Render(turn, s, n, u, base),
           UNCHANGED <<seq, data, error, config>>, base \subseteq reads,
           \A r \in reads : r.kind \in {"tier1", "details"} => r \in base
    PROVE  WaitInv'
<1>1. turn \in Nat /\ turn' = turn
  BY DEF WaitInv, Tier1Wait, Render
<1>2. StripWait' /\ LineWait'
  BY <1>1, RenderWaits
<1>3. reads' = base \cup Sent(s, n, turn, PairLeaves(turn)) /\ PairLeaves(turn) \in BOOLEAN
  BY DEF Render, Sent, PairLeaves
<1>4. \A f \in Sent(s, n, turn, PairLeaves(turn)) : f.kind \in {"row", "counts", "news"}
  BY <1>3, RenderSends DEF Ready
<1>5. (\A r \in reads : r.kind \in {"tier1", "details"} => r \in reads')
      /\ (\A q \in reads' : q.kind = "details" => q \in reads)
  BY <1>3, <1>4
<1>6. Tier1Wait'
  BY <1>1, <1>5, Tier1WaitsOn DEF WaitInv
<1> QED BY <1>2, <1>6 DEF WaitInv

\* A part whose read ended waits no more.
LEMMA LandedWaits ==
    ASSUME NEW p, PartOK(p), NEW t, PartTyped(p, t), NEW ok \in BOOLEAN
    PROVE  /\ PartTyped(Landed(p, ok), t) /\ ~PartWaiting(Landed(p, ok))
           /\ Landed(p, ok).failed = ~ok
<1> DEFINE k == Landed(p, ok)
<1>1. /\ k.in = (p.in \/ ok) /\ k.failed = ~ok /\ k.retrying = FALSE
      /\ k.asked = p.asked /\ k.attempt = p.attempt /\ k.seq = p.seq
  BY DEF Landed, PartOK
<1> HIDE DEF k
<1>2. PartTyped(k, t) /\ ~PartWaiting(k)
  BY <1>1 DEF PartTyped, PartWaiting
<1> QED BY <1>1, <1>2 DEF k

\* The strip's reads and the line's end.
LEMMA OtherReadsWait ==
    ASSUME BlockInv, WaitInv, NEW R \in Attempts, ReadAnswers(R) \/ ReadGivesUp(R)
    PROVE  WaitInv'
<1>1. PICK ok \in BOOLEAN : Over(R, ok)
  BY DEF ReadAnswers, ReadGivesUp
<1>2. R \subseteq reads /\ \A r \in R : r.kind \in {"row", "counts", "news"}
  BY AttemptsAreOut DEF ReadAnswers, ReadGivesUp, OfTheStrip
<1> DEFINE s == StripAfter(strip, R, ok)
           n == NewsAfter(news, R, ok)
           hit(kind, mine) == \E r \in R : r.kind = kind /\ r.mine = mine
<1>3. Render(turn, s, n, soon, reads \ R) /\ UNCHANGED <<seq, data, error, config>>
  BY <1>1 DEF Over, tier1Vars
<1>4. StripOK(s) /\ NewsOK(n)
  BY LandedCounts DEF SameCounts
<1>5. PartOK(strip.row) /\ PartOK(strip.counts) /\ PartTyped(strip.row, turn) /\ PartTyped(strip.counts, turn)
  BY DEF BlockInv, StripOK, WaitInv, StripWait
<1>6. /\ s.row = IF hit("row", strip.row.seq) THEN Landed(strip.row, ok) ELSE strip.row
      /\ s.counts = IF hit("counts", strip.counts.seq) THEN Landed(strip.counts, ok) ELSE strip.counts
  BY DEF StripAfter, BlockInv, StripOK
<1>7. IF hit("news", news.seq) THEN ~LineWaiting(n) ELSE n = news
  <2>1. CASE hit("news", news.seq)
    <3>1. n = [news EXCEPT !.answer = @ \/ ok, !.failed = ~ok, !.retrying = FALSE]
      BY <2>1 DEF NewsAfter
    <3>2. n.answer = (news.answer \/ ok) /\ n.failed = ~ok /\ n.retrying = FALSE
      BY <3>1 DEF BlockInv, NewsOK
    <3> QED BY <2>1, <3>2 DEF LineWaiting
  <2>2. CASE ~hit("news", news.seq)
    BY <2>2 DEF NewsAfter
  <2> QED BY <2>1, <2>2
<1>8. /\ PartTyped(s.row, turn) /\ PartTyped(s.counts, turn)
      /\ PartWaiting(s.row) => ~hit("row", strip.row.seq) /\ s.row = strip.row
      /\ PartWaiting(s.counts) => ~hit("counts", strip.counts.seq) /\ s.counts = strip.counts
  BY <1>5, <1>6, LandedWaits
<1>9. StripBegan(s, reads \ R) => StripBegan(strip, reads)
  BY <1>2, <1>6 DEF StripBegan
<1>10. /\ PartWaiting(s.row) => Reaches(reads \ R, "row", s.row.seq)
       /\ PartWaiting(s.counts) => Reaches(reads \ R, "counts", s.counts.seq)
       /\ LineWaiting(n) => Reaches(reads \ R, "news", n.seq)
  BY <1>7, <1>8 DEF WaitInv, StripWait, LineWait, OutFor, Reaches
<1>11. Ready(s, n, turn, reads \ R)
  BY <1>4, <1>8, <1>9, <1>10 DEF Ready, WaitInv, StripWait
<1> HIDE DEF s, n
<1> QED BY <1>2, <1>3, <1>11, RenderedWaits

\* A Try again of the strip's: its read is due.
LEMMA RetriesWait ==
    ASSUME BlockInv, WaitInv, RetryRow \/ RetryCounts
    PROVE  WaitInv'
<1>1. /\ Ready(strip, news, turn, reads) /\ UNCHANGED <<seq, data, error, config>>
      /\ DOMAIN strip = {"open", "row", "counts"} /\ PartOK(strip.row) /\ PartOK(strip.counts)
  <2>1. turn \in Nat
    BY DEF WaitInv, Tier1Wait
  <2> QED BY <2>1, ReadyAsBefore DEF RetryRow, RetryCounts, Again, tier1Vars, BlockInv, StripOK
<1>2. ASSUME NEW p, PartOK(p), PartTyped(p, turn), NEW k, k = [p EXCEPT !.attempt = @ + 1, !.retrying = TRUE]
      PROVE  /\ PartOK(k) /\ PartTyped(k, turn) /\ k.asked # <<turn, k.attempt>> /\ k.in = p.in /\ k.failed = p.failed
  <2>1. /\ PartOK(k) /\ k.attempt = p.attempt + 1 /\ k.retrying = TRUE /\ k.asked = p.asked /\ k.seq = p.seq
        /\ k.in = p.in /\ k.failed = p.failed
    BY <1>2 DEF PartOK
  <2>2. p.attempt \in Nat /\ p.asked \in Nat \X Nat /\ p.asked[2] <= p.attempt
    BY <1>2 DEF PartTyped
  <2>3. k.asked # <<turn, k.attempt>>
    <3>1. SUFFICES ASSUME k.asked = <<turn, k.attempt>> PROVE FALSE
      OBVIOUS
    <3>2. p.asked[2] = p.attempt + 1
      BY <2>1, <3>1
    <3> QED BY <2>2, <3>2
  <2>4. PartTyped(k, turn)
    BY <1>2, <2>1, <2>2 DEF PartTyped
  <2> QED BY <2>1, <2>3, <2>4
<1>3. CASE RetryRow
  <2> DEFINE k == [strip.row EXCEPT !.attempt = @ + 1, !.retrying = TRUE]
             s == [strip EXCEPT !.row.attempt = @ + 1, !.row.retrying = TRUE]
  <2>1. strip.open /\ strip.row.failed /\ Render(turn, s, news, soon, reads)
    BY <1>3 DEF RetryRow, Again
  <2>2. s.row = k /\ s.counts = strip.counts /\ s.open = strip.open /\ DOMAIN s = DOMAIN strip
    BY <1>1 DEF PartOK
  <2> HIDE DEF k
  <2>3. PartOK(k) /\ PartTyped(k, turn) /\ k.asked # <<turn, k.attempt>> /\ k.failed
    BY <1>1, <1>2, <2>1 DEF k, Ready
  <2> HIDE DEF s
  <2>4. RowDue(s, turn)
    BY <1>1, <2>1, <2>2, <2>3 DEF RowDue, Ready, StripBegan
  <2>5. CountsDue(strip, turn) => CountsDue(s, turn)
    BY <2>1 DEF CountsDue
  <2>6. Ready(s, news, turn, reads)
    BY <1>1, <2>1, <2>2, <2>3, <2>4, <2>5 DEF Ready, StripOK, StripBegan
  <2> QED BY <1>1, <2>1, <2>6, RenderedWaits
<1>4. CASE RetryCounts
  <2> DEFINE k == [strip.counts EXCEPT !.attempt = @ + 1, !.retrying = TRUE]
             s == [strip EXCEPT !.counts.attempt = @ + 1, !.counts.retrying = TRUE]
  <2>1. ~strip.open /\ ~strip.row.in /\ strip.counts.failed /\ Render(turn, s, news, soon, reads)
    BY <1>4 DEF RetryCounts, Again
  <2>2. s.row = strip.row /\ s.counts = k /\ s.open = strip.open /\ DOMAIN s = DOMAIN strip
    BY <1>1 DEF PartOK
  <2> HIDE DEF k
  <2>3. PartOK(k) /\ PartTyped(k, turn) /\ k.asked # <<turn, k.attempt>> /\ k.failed
    BY <1>1, <1>2, <2>1 DEF k, Ready
  <2> HIDE DEF s
  <2>4. CountsDue(s, turn)
    BY <1>1, <2>1, <2>2, <2>3 DEF CountsDue, Ready, StripBegan
  <2>5. RowDue(strip, turn) => RowDue(s, turn)
    BY <2>1 DEF RowDue
  <2>6. Ready(s, news, turn, reads)
    BY <1>1, <2>1, <2>2, <2>3, <2>4, <2>5 DEF Ready, StripOK, StripBegan
  <2> QED BY <1>1, <2>1, <2>6, RenderedWaits
<1> QED BY <1>3, <1>4

\* Up next's reading, the strip's toggle and views, and a write that fails.
LEMMA RendersWait ==
    ASSUME BlockInv, PrefInv, WaitInv,
           \/ \E u \in {"quiet", "rows"} : UpNextReads(u)
           \/ setOpenRemembered
           \/ \E u \in {"unasked", "quiet", "rows"} : chooseView(u)
           \/ \E applied \in BOOLEAN : WriteFails(applied)
    PROVE  WaitInv'
<1>1. UNCHANGED <<seq, data, error, config>>
  BY DEF UpNextReads, setOpenRemembered, chooseView, WriteFails, tier1Vars
<1> DEFINE Strips == {strip} \cup {[strip EXCEPT !.open = v] : v \in BOOLEAN}
           Lines == {news} \cup {[news EXCEPT !.hidden = v] : v \in BOOLEAN}
<1>2. \E s \in Strips, n \in Lines : \E u : Render(turn, s, n, u, reads)
  <2>1. CASE (\E u \in {"quiet", "rows"} : UpNextReads(u)) \/ \E u \in {"unasked", "quiet", "rows"} : chooseView(u)
    BY <2>1 DEF UpNextReads, chooseView
  <2>2. CASE setOpenRemembered
    <3>1. Render(turn, [strip EXCEPT !.open = ~@], news, soon, reads)
      BY <2>2 DEF setOpenRemembered
    <3>2. [strip EXCEPT !.open = ~@] = [strip EXCEPT !.open = ~strip.open] /\ (~strip.open) \in BOOLEAN
      OBVIOUS
    <3> QED BY <3>1, <3>2
  <2>3. CASE \E applied \in BOOLEAN : WriteFails(applied)
    <3> DEFINE w == Head(writes)
               s == IF w.by = "open" /\ w.mine = writeseq THEN [strip EXCEPT !.open = w.before] ELSE strip
               n == IF w.by = "news" THEN [news EXCEPT !.hidden = w.before] ELSE news
    <3>1. Render(turn, s, n, soon, reads) /\ writes # <<>>
      BY <2>3 DEF WriteFails
    <3>2. w.before \in BOOLEAN
      <4>1. writes \in Seq(Write) /\ writes # <<>>
        BY <3>1 DEF PrefInv, PrefOK
      <4>2. w \in Write
        BY <4>1
      <4> QED BY <4>2 DEF Write
    <3>3. s \in Strips /\ n \in Lines
      BY <3>2
    <3> HIDE DEF s, n, Strips, Lines
    <3> QED BY <3>1, <3>3
  <2> QED BY <2>1, <2>2, <2>3
<1>3. PICK s \in Strips, n \in Lines : \E u : Render(turn, s, n, u, reads)
  BY <1>2
<1>4. PICK u : Render(turn, s, n, u, reads)
  BY <1>3
<1>5. Ready(s, n, turn, reads)
  <2>1. turn \in Nat
    BY DEF WaitInv, Tier1Wait
  <2>2. Ready(strip, news, turn, reads)
    BY <2>1, ReadyAsBefore
  <2> QED BY <2>2, ReadyShownOrNot DEF WaitInv, StripWait, OutFor, Reaches
<1> QED BY <1>1, <1>4, <1>5, RenderedWaits

\* A load is out before what it supersedes is gone.
LEMMA LoadsWait ==
    ASSUME BlockInv, WaitInv, retry \/ again \/ refreshAttention
    PROVE  WaitInv'
<1>1. PICK keep \in BOOLEAN, turns \in BOOLEAN : Reload(keep, turns)
  BY DEF retry, again, refreshAttention
<1> DEFINE a == Attention(seq + 1, turns)
<1>2. /\ seq' = seq + 1 /\ data' \in {data, NoData} /\ reads' = reads \cup {a}
      /\ UNCHANGED <<strip, turn, config, news>>
  BY <1>1 DEF Reload, load, Draw
<1>3. a.kind = "tier1" /\ a.mine = seq + 1
  BY DEF Attention, Read
<1> HIDE DEF a
<1>4. \A r \in reads : r.kind = "details" => r.mine # seq + 1
  <2>1. numbers["tier1"] = seq /\ seq \in Nat
    BY DEF numbers, BlockInv, Tier1OK
  <2>2. \A r \in reads : r.kind = "details" => r.mine \in Nat /\ r.mine <= seq
    BY <2>1 DEF BlockInv, ReadsOK, ReadOK, NumberedBy, Asker
  <2> QED BY <2>1, <2>2
<1>5. OutFor("tier1", seq)'
  BY <1>2, <1>3 DEF OutFor
<1>6. Tier1Wait'
  BY <1>2, <1>3, <1>4, <1>5 DEF WaitInv, Tier1Wait, Current, NoData
<1>7. StripWait' /\ LineWait'
  BY <1>2, <1>3, OthersWaitOn DEF WaitInv, BlockInv
<1> QED BY <1>6, <1>7 DEF WaitInv

\* The line's own Try again is out as it is pressed.
LEMMA RetryNewsWaits ==
    ASSUME BlockInv, WaitInv, RetryNews
    PROVE  WaitInv'
<1> DEFINE a == Read("news", news.seq + 1)
<1>1. /\ news' = [news EXCEPT !.seq = @ + 1, !.retrying = TRUE] /\ reads' = reads \cup {a}
      /\ UNCHANGED <<seq, data, error, strip, turn, config>>
  BY DEF RetryNews, tier1Vars
<1>2. a.kind = "news" /\ a.mine = news.seq + 1
  BY DEF Read
<1> HIDE DEF a
<1>3. Tier1Wait'
  <2>1. turn \in Nat
    BY DEF WaitInv, Tier1Wait
  <2> QED BY <1>1, <1>2, <2>1, Tier1WaitsOn DEF WaitInv
<1>4. StripWait'
  <2>1. StripBegan(strip, reads)' => StripBegan(strip, reads)
    BY <1>1, <1>2 DEF StripBegan
  <2> QED BY <1>1, <2>1 DEF WaitInv, StripWait, OutFor
<1>5. LineWait'
  <2>1. news'.seq = news.seq + 1 /\ news'.asked = news.asked /\ news'.hidden = news.hidden
    BY <1>1 DEF BlockInv, NewsOK
  <2>2. OutFor("news", news.seq)'
    BY <1>1, <1>2, <2>1 DEF OutFor
  <2> QED BY <1>1, <2>1, <2>2 DEF WaitInv, LineWait
<1> QED BY <1>3, <1>4, <1>5 DEF WaitInv

\* What is out stays out, asleep or awake.
LEMMA SameReadsWait ==
    ASSUME BlockInv, WaitInv, UNCHANGED <<seq, data, error, strip, turn, config>>,
           news' \in {news, [news EXCEPT !.hidden = TRUE]},
           \A r \in reads : \E q \in reads' : q.kind = r.kind /\ q.mine = r.mine,
           \A q \in reads' : \E r \in reads : q.kind = r.kind /\ q.mine = r.mine /\ q.rest = r.rest
    PROVE  WaitInv'
<1>1. turn \in Nat
  BY DEF WaitInv, Tier1Wait
<1>2. Tier1Wait'
  BY <1>1, Tier1WaitsOn DEF WaitInv
<1>3. StripWait' /\ LineWait'
  BY OthersWaitOn DEF WaitInv, BlockInv
<1> QED BY <1>2, <1>3 DEF WaitInv

\* An attempt fails, or a read that slept asks again.
LEMMA RetriesAreOut ==
    ASSUME BlockInv, WaitInv, (\E R \in Attempts : AttemptFails(R)) \/ \E r \in reads : RetryLeaves(r)
    PROVE  WaitInv'
<1>1. UNCHANGED <<seq, data, error, strip, turn, config, news>>
  BY DEF AttemptFails, RetryLeaves, blockVars, tier1Vars
<1>2. CASE \E R \in Attempts : AttemptFails(R)
  <2>1. PICK R \in Attempts : reads' = (reads \ R) \cup {Asleep(r) : r \in R}
    BY <1>2 DEF AttemptFails, retryLater, Asleep
  <2>2. ASSUME NEW r \in R PROVE r \in reads /\ Asleep(r).kind = r.kind /\ Asleep(r).mine = r.mine /\ Asleep(r).rest = r.rest
    BY AttemptsAreOut DEF BlockInv, ReadsOK, ReadOK, Asleep
  <2>3. \A r \in reads : \E q \in reads' : q.kind = r.kind /\ q.mine = r.mine
    BY <2>1, <2>2
  <2>4. \A q \in reads' : \E r \in reads : q.kind = r.kind /\ q.mine = r.mine /\ q.rest = r.rest
    BY <2>1, <2>2
  <2> QED BY <1>1, <2>3, <2>4, SameReadsWait
<1>3. CASE \E r \in reads : RetryLeaves(r)
  <2>1. PICK r \in reads : reads' = (reads \ {r}) \cup {[r EXCEPT !.sleeps = FALSE, !.attempt = @ + 1]}
    BY <1>3 DEF RetryLeaves, askAgain
  <2> DEFINE t == [r EXCEPT !.sleeps = FALSE, !.attempt = @ + 1]
  <2>2. t.kind = r.kind /\ t.mine = r.mine /\ t.rest = r.rest
    BY DEF BlockInv, ReadsOK, ReadOK
  <2> HIDE DEF t
  <2>3. \A s \in reads : \E q \in reads' : q.kind = s.kind /\ q.mine = s.mine
    BY <2>1, <2>2 DEF t
  <2>4. \A q \in reads' : \E s \in reads : q.kind = s.kind /\ q.mine = s.mine /\ q.rest = s.rest
    BY <2>1, <2>2 DEF t
  <2> QED BY <1>1, <2>3, <2>4, SameReadsWait
<1> QED BY <1>2, <1>3

\* The star's steps redraw a card where the cards are.
LEMMA StarStepsWait ==
    ASSUME BlockInv, WaitInv, StarSteps
    PROVE  WaitInv'
<1>1. /\ data' = data \/ \E q, a : data' = toggleFavourite(data, q, a)
      /\ UNCHANGED <<seq, error, strip, turn, config, news, reads>>
  BY StarStepsMove DEF StarRest, readVars
<1>2. CASE data' = data
  BY <1>1, <1>2, SameReadsWait
<1>3. CASE data' # data
  <2>1. PICK q : DOMAIN data.cards # {} /\ data' = [data EXCEPT !.stars = Starred(@, q)]
    BY <1>1, <1>3 DEF toggleFavourite
  <2>2. data'.of = data.of /\ data'.cards = data.cards
    BY <2>1 DEF BlockInv, Tier1OK
  <2>3. data # NoData /\ data.of # 0 /\ data' # NoData /\ LoadingCards(data') = LoadingCards(data)
    <3>1. NoData.of = 0 /\ DOMAIN NoData.cards = {}
      BY DEF NoData
    <3> QED BY <2>1, <2>2, <3>1 DEF WaitInv, Tier1Wait, LoadingCards
  <2>4. Tier1Wait'
    <3>1. LoadingCards(data)' = LoadingCards(data)
      BY <2>3 DEF LoadingCards
    <3> QED BY <1>1, <2>2, <2>3, <3>1 DEF WaitInv, Tier1Wait, OutFor, Current
  <2>5. StripWait' /\ LineWait'
    BY <1>1, OthersWaitOn DEF WaitInv, BlockInv
  <2> QED BY <2>4, <2>5 DEF WaitInv
<1> QED BY <1>2, <1>3

LEMMA WaitsStep == BlockInv /\ PrefInv /\ WaitInv /\ [Next]_vars => WaitInv'
<1> SUFFICES ASSUME BlockInv, PrefInv, WaitInv, [Next]_vars PROVE WaitInv'
  OBVIOUS
<1>1. CASE Reading
  BY <1>1, AttentionWaits, Tier1EndsWait, OtherReadsWait, RetriesAreOut, RendersWait DEF Reading
<1>2. CASE explore \/ setSoonRemembered \/ hide \/ WriteLands \/ UNCHANGED pageVars
  <2>1. UNCHANGED <<reads, seq, data, error, strip, turn, config>> /\ news' \in {news, [news EXCEPT !.hidden = TRUE]}
    BY <1>2 DEF explore, setSoonRemembered, hide, WriteLands, pageVars, tier1Vars, readVars, stripVars
  <2> QED BY <2>1, SameReadsWait
<1>3. CASE Writing
  BY <1>2, <1>3, RendersWait DEF Writing
<1>4. CASE Pressing
  BY <1>2, <1>4, LoadsWait, RetriesWait, RetryNewsWaits, RendersWait DEF Pressing
<1> QED BY <1>1, <1>2, <1>3, <1>4, StarStepsWait DEF Next, vars

LEMMA WaitsStart == Init => WaitInv
<1> SUFFICES ASSUME Init PROVE WaitInv
  OBVIOUS
<1>1. /\ seq = 1 /\ data = NoData /\ error = "none" /\ turn = 0 /\ reads = {Attention(1, FALSE)}
      /\ strip = [open |-> config.open, row |-> Part, counts |-> Part]
      /\ news = [answer |-> FALSE, failed |-> FALSE, retrying |-> FALSE, hidden |-> config.line # "on", asked |-> FALSE, seq |-> 0]
  BY DEF Init
<1>2. \A r \in reads : r.kind = "tier1" /\ r.mine = 1
  BY <1>1 DEF Attention, Read
<1>3. OutFor("tier1", seq)
  BY <1>1, <1>2 DEF OutFor
<1>4. Tier1Wait
  BY <1>1, <1>2, <1>3 DEF Tier1Wait
<1>5. PartTyped(Part, 0) /\ ~PartWaiting(Part) /\ ~Part.failed /\ Part.seq = 0
  <2>1. <<0, 0>>[1] = 0 /\ <<0, 0>>[2] = 0 /\ <<0, 0>> \in Nat \X Nat
    OBVIOUS
  <2> QED BY <2>1 DEF Part, PartTyped, PartWaiting
<1>6. strip.row = Part /\ strip.counts = Part
  BY <1>1
<1>7. StripWait
  BY <1>1, <1>2, <1>5, <1>6 DEF StripWait, StripBegan
<1>8. LineWait
  BY <1>1 DEF LineWait, LineWaiting
<1> QED BY <1>4, <1>7, <1>8 DEF WaitInv

\* The invariant is what the page waits for, and more.
LEMMA WaitsAreOut == BlockInv /\ PrefInv /\ WaitInv => WaitsHaveAReadOut
<1> SUFFICES ASSUME BlockInv, PrefInv, WaitInv PROVE WaitsHaveAReadOut
  OBVIOUS
<1>1. turn \in Nat /\ (turn = 0 => OutFor("tier1", seq))
  BY DEF WaitInv, Tier1Wait
<1>2. /\ data = NoData /\ error = "none" => OutFor("tier1", seq)
      /\ error # "load" /\ (\E c \in DOMAIN data.cards : data.cards[c] = "loading")
            => OutFor("tier1", seq) \/ OutFor("details", seq)
  BY DEF WaitInv, Tier1Wait, LoadingCards
<1>3. ASSUME config.calendar, StripWaits, turn # 0
      PROVE  OutFor(IF strip.open THEN "row" ELSE "counts", IF strip.open THEN strip.row.seq ELSE strip.counts.seq)
  BY <1>1, <1>3 DEF StripWaits, WaitInv, StripWait, PartWaiting
<1>4. ASSUME NewsWaits, turn # 0 PROVE OutFor("news", news.seq)
  BY <1>1, <1>4 DEF NewsWaits, WaitInv, LineWait, LineWaiting
<1> QED BY <1>1, <1>2, <1>3, <1>4 DEF WaitsHaveAReadOut

(***************************************************************************)
(* The keyboard on the line                                                *)
(***************************************************************************)

\* An answer in hand is an answer to the last ask: no read of that ask is left out to fail.
LineIdle(n, R) ==
    /\ ~n.asked => ~n.answer /\ ~n.failed /\ ~Reaches(R, "news", n.seq)
    /\ n.answer /\ ~n.failed => ~Reaches(R, "news", n.seq)

\* An answer in hand is not lost.
LineAnswered(n) == n.answer /\ ~n.failed

\* What a render asks for the line, it asks while no answer is in hand.
LEMMA RenderIdles ==
    ASSUME NEW s, StripOK(s), NEW n, NewsOK(n), NEW t, NEW u, NEW base, LineIdle(n, base),
           Render(t, s, n, u, base)
    PROVE  LineIdle(news', reads') /\ (LineAnswered(n) => LineAnswered(news')) /\ news'.hidden = n.hidden
<1> DEFINE F == Sent(s, n, t, PairLeaves(t))
<1>1. news' = NewsAsked(n, t) /\ reads' = base \cup F /\ PairLeaves(t) \in BOOLEAN
  BY DEF Render, Sent, PairLeaves
<1>2. \A f \in F : f.kind = "news" => NewsDue(n, t)
  BY <1>1, RenderSends
<1> HIDE DEF F
<1>3. CASE NewsDue(n, t)
  <2>1. news' = [n EXCEPT !.asked = TRUE, !.seq = @ + 1, !.retrying = n.failed]
    BY <1>1, <1>3 DEF NewsAsked
  <2>2. news'.asked = TRUE /\ news'.answer = n.answer /\ news'.failed = n.failed /\ news'.hidden = n.hidden
    BY <2>1 DEF NewsOK
  <2>3. ~LineAnswered(n)
    BY <1>3 DEF NewsDue, LineIdle, LineAnswered
  <2> QED BY <2>2, <2>3 DEF LineIdle, LineAnswered
<1>4. CASE ~NewsDue(n, t)
  <2>1. news' = n
    BY <1>1, <1>4 DEF NewsAsked
  <2> QED BY <1>1, <1>2, <1>4, <2>1 DEF LineIdle, LineAnswered, Reaches
<1> QED BY <1>3, <1>4

\* A read less, or one of tier 1's more, is no read of the line's.
LEMMA FewerLineReads ==
    ASSUME NEW n, NEW R, NEW Q, LineIdle(n, R), \A q \in Q : q \in R \/ q.kind # "news"
    PROVE  LineIdle(n, Q)
BY DEF LineIdle, Reaches

LineStep == LineIdle(news', reads') /\ (LineAnswered(news) => LineAnswered(news'))

\* The strip's reads and the line's end.
LEMMA OtherReadsIdle ==
    ASSUME BlockInv, LineIdle(news, reads), NEW R \in Attempts, ReadAnswers(R) \/ ReadGivesUp(R)
    PROVE  LineStep
<1>1. PICK ok \in BOOLEAN : Over(R, ok)
  BY DEF ReadAnswers, ReadGivesUp
<1>2. R \subseteq reads
  BY AttemptsAreOut
<1> DEFINE s == StripAfter(strip, R, ok)
           n == NewsAfter(news, R, ok)
           hit == \E r \in R : r.kind = "news" /\ r.mine = news.seq
<1>3. Render(turn, s, n, soon, reads \ R)
  BY <1>1 DEF Over
<1>4. StripOK(s) /\ NewsOK(n)
  BY LandedCounts DEF SameCounts
<1>5. LineIdle(n, reads \ R) /\ (LineAnswered(news) => LineAnswered(n))
  <2>1. CASE hit
    <3>1. n = [news EXCEPT !.answer = @ \/ ok, !.failed = ~ok, !.retrying = FALSE]
      BY <2>1 DEF NewsAfter
    <3>2. n.seq = news.seq /\ n.asked = news.asked
      BY <3>1 DEF BlockInv, NewsOK
    <3>3. ~Reaches(reads \ R, "news", news.seq)
      BY <1>2, <2>1 DEF BlockInv, ReadsOK, OneReadOfAnAsk, SameAsk, Asker, Reaches
    <3>4. ~LineAnswered(news)
      BY <1>2, <2>1 DEF LineIdle, LineAnswered, Reaches
    <3>5. news.asked
      BY <1>2, <2>1 DEF LineIdle, Reaches
    <3> QED BY <3>2, <3>3, <3>4, <3>5 DEF LineIdle
  <2>2. CASE ~hit
    <3>1. n = news
      BY <2>2 DEF NewsAfter
    <3> QED BY <3>1, FewerLineReads
  <2> QED BY <2>1, <2>2
<1> HIDE DEF s, n
<1> QED BY <1>3, <1>4, <1>5, RenderIdles DEF LineStep

\* Tier 1's reads answer or give up.
LEMMA Tier1ReadsIdle ==
    ASSUME BlockInv, LineIdle(news, reads), NEW r \in reads,
           (\E p \in Payloads : AttentionAnswers(r, p)) \/ DetailsAnswer(r) \/ LoadGivesUp(r)
    PROVE  LineStep
<1>1. ASSUME NEW rest PROVE Details(r, rest).kind = "details"
  BY DEF Details, Read
<1>2. \E t, base : /\ Render(t, strip, news, soon, base)
                   /\ \A q \in base : q \in reads \/ q.kind # "news"
  <2>1. CASE \E p \in Payloads : AttentionAnswers(r, p)
    <3>1. PICK p \in Payloads : AttentionAnswers(r, p)
      BY <2>1
    <3> DEFINE d == Details(r, p.pending)
    <3>2. \/ Render(Turned(r), strip, news, soon, reads \ {r})
          \/ Render(settleTier1, strip, news, soon, (reads \ {r}) \cup {d})
      BY <3>1 DEF AttentionAnswers
    <3>3. d.kind # "news"
      BY <1>1
    <3> HIDE DEF d
    <3> QED BY <3>2, <3>3
  <2>2. CASE DetailsAnswer(r) \/ LoadGivesUp(r)
    <3> DEFINE d == Details(r, r.rest \ NextBatch(r.rest))
    <3>1. \/ Render(Turned(r), strip, news, soon, reads \ {r})
          \/ Render(turn, strip, news, soon, (reads \ {r}) \cup {d})
      BY <2>2 DEF DetailsAnswer, LoadGivesUp
    <3>2. d.kind # "news"
      BY <1>1
    <3> HIDE DEF d
    <3> QED BY <3>1, <3>2
  <2> QED BY <2>1, <2>2
<1>3. PICK t, base : /\ Render(t, strip, news, soon, base)
                     /\ \A q \in base : q \in reads \/ q.kind # "news"
  BY <1>2
<1>4. LineIdle(news, base) /\ StripOK(strip) /\ NewsOK(news)
  BY <1>3, FewerLineReads DEF BlockInv
<1> QED BY <1>3, <1>4, RenderIdles DEF LineStep

\* The renders that end no read.
LEMMA RendersIdle ==
    ASSUME BlockInv, LineIdle(news, reads),
           \/ \E u \in {"quiet", "rows"} : UpNextReads(u)
           \/ RetryRow \/ RetryCounts \/ setOpenRemembered
           \/ \E u \in {"unasked", "quiet", "rows"} : chooseView(u)
           \/ \E applied \in BOOLEAN : WriteFails(applied)
    PROVE  LineStep
<1>1. ASSUME NEW s, StripOK(s), NEW n, NEW v, n = news \/ n = [news EXCEPT !.hidden = v], NEW u,
             Render(turn, s, n, u, reads)
      PROVE  LineStep
  <2>1. /\ NewsOK(n) /\ n.asked = news.asked /\ n.answer = news.answer /\ n.failed = news.failed /\ n.seq = news.seq
    BY <1>1 DEF BlockInv, NewsOK
  <2>2. LineIdle(n, reads) /\ (LineAnswered(news) => LineAnswered(n))
    BY <2>1 DEF LineIdle, LineAnswered
  <2> QED BY <1>1, <2>1, <2>2, RenderIdles DEF LineStep
<1>2. StripOK(strip) /\ PartOK(strip.row) /\ PartOK(strip.counts)
  BY DEF BlockInv, StripOK
<1>3. CASE (\E u \in {"quiet", "rows"} : UpNextReads(u)) \/ (\E u \in {"unasked", "quiet", "rows"} : chooseView(u))
  <2>1. \E u : Render(turn, strip, news, u, reads)
    BY <1>3 DEF UpNextReads, chooseView
  <2> QED BY <1>1, <1>2, <2>1
<1>4. CASE RetryRow
  <2> DEFINE s == [strip EXCEPT !.row.attempt = @ + 1, !.row.retrying = TRUE]
  <2>1. Render(turn, s, news, soon, reads)
    BY <1>4 DEF RetryRow, Again
  <2>2. StripOK(s)
    BY <1>2 DEF StripOK, PartOK
  <2> HIDE DEF s
  <2> QED BY <1>1, <2>1, <2>2
<1>5. CASE RetryCounts
  <2> DEFINE s == [strip EXCEPT !.counts.attempt = @ + 1, !.counts.retrying = TRUE]
  <2>1. Render(turn, s, news, soon, reads)
    BY <1>5 DEF RetryCounts, Again
  <2>2. StripOK(s)
    BY <1>2 DEF StripOK, PartOK
  <2> HIDE DEF s
  <2> QED BY <1>1, <2>1, <2>2
<1>6. ASSUME NEW v PROVE StripOK([strip EXCEPT !.open = v])
  BY <1>2 DEF StripOK
<1>7. CASE setOpenRemembered
  <2> DEFINE s == [strip EXCEPT !.open = ~@]
  <2>1. Render(turn, s, news, soon, reads)
    BY <1>7 DEF setOpenRemembered
  <2>2. StripOK(s)
    BY <1>6
  <2> HIDE DEF s
  <2> QED BY <1>1, <2>1, <2>2
<1>8. CASE \E applied \in BOOLEAN : WriteFails(applied)
  <2> DEFINE w == Head(writes)
             s == IF w.by = "open" /\ w.mine = writeseq THEN [strip EXCEPT !.open = w.before] ELSE strip
             n == IF w.by = "news" THEN [news EXCEPT !.hidden = w.before] ELSE news
  <2>1. Render(turn, s, n, soon, reads)
    BY <1>8 DEF WriteFails
  <2>2. StripOK(s) /\ (n = news \/ n = [news EXCEPT !.hidden = w.before])
    BY <1>2, <1>6
  <2> HIDE DEF s, n
  <2> QED BY <1>1, <2>1, <2>2
<1> QED BY <1>3, <1>4, <1>5, <1>7, <1>8

\* Asleep or awake, a read is of its ask; and no ask is the line's but a Try again's, whose answer failed.
LEMMA OtherStepsIdle ==
    ASSUME BlockInv, LineIdle(news, reads),
           \/ explore \/ setSoonRemembered \/ hide \/ WriteLands \/ UNCHANGED pageVars
           \/ StarSteps
           \/ (\E R \in Attempts : AttemptFails(R)) \/ (\E r \in reads : RetryLeaves(r))
           \/ retry \/ again \/ refreshAttention \/ RetryNews
    PROVE  LineStep
<1>1. ASSUME news' \in {news, [news EXCEPT !.hidden = TRUE]}, Reaches(reads', "news", news.seq) => Reaches(reads, "news", news.seq)
      PROVE  LineStep
  <2>1. /\ news'.asked = news.asked /\ news'.answer = news.answer /\ news'.failed = news.failed /\ news'.seq = news.seq
    BY <1>1 DEF BlockInv, NewsOK
  <2> QED BY <1>1, <2>1 DEF LineStep, LineIdle, LineAnswered
<1>2. CASE explore \/ setSoonRemembered \/ hide \/ WriteLands \/ UNCHANGED pageVars \/ StarSteps
  <2>1. reads' = reads /\ news' \in {news, [news EXCEPT !.hidden = TRUE]}
    BY <1>2, StarStepsMove DEF explore, setSoonRemembered, hide, WriteLands, StarRest, pageVars, readVars
  <2> QED BY <1>1, <2>1
<1>3. CASE \E R \in Attempts : AttemptFails(R)
  <2>1. PICK R \in Attempts : reads' = (reads \ R) \cup {Asleep(r) : r \in R} /\ news' = news
    BY <1>3 DEF AttemptFails, retryLater, Asleep, blockVars
  <2>2. \A r \in R : r \in reads /\ Asleep(r).kind = r.kind /\ Asleep(r).mine = r.mine
    BY AttemptsAreOut DEF BlockInv, ReadsOK, ReadOK, Asleep
  <2> QED BY <1>1, <2>1, <2>2 DEF Reaches
<1>4. CASE \E r \in reads : RetryLeaves(r)
  <2>1. PICK r \in reads : reads' = (reads \ {r}) \cup {[r EXCEPT !.sleeps = FALSE, !.attempt = @ + 1]} /\ news' = news
    BY <1>4 DEF RetryLeaves, askAgain, blockVars
  <2> DEFINE t == [r EXCEPT !.sleeps = FALSE, !.attempt = @ + 1]
  <2>2. t.kind = r.kind /\ t.mine = r.mine
    BY DEF BlockInv, ReadsOK, ReadOK
  <2> HIDE DEF t
  <2> QED BY <1>1, <2>1, <2>2 DEF Reaches, t
<1>5. CASE retry \/ again \/ refreshAttention
  <2>1. PICK keep \in BOOLEAN, turns \in BOOLEAN : Reload(keep, turns)
    BY <1>5 DEF retry, again, refreshAttention
  <2> DEFINE a == Attention(seq + 1, turns)
  <2>2. reads' = reads \cup {a} /\ news' = news
    BY <2>1 DEF Reload, load
  <2>3. a.kind = "tier1"
    BY DEF Attention, Read
  <2> HIDE DEF a
  <2> QED BY <1>1, <2>2, <2>3 DEF Reaches
<1>6. CASE RetryNews
  <2>1. news' = [news EXCEPT !.seq = @ + 1, !.retrying = TRUE] /\ news.failed
    BY <1>6 DEF RetryNews
  <2>2. news'.asked = news.asked /\ news'.failed = news.failed
    BY <2>1 DEF BlockInv, NewsOK
  <2> QED BY <2>1, <2>2 DEF LineStep, LineIdle, LineAnswered
<1> QED BY <1>2, <1>3, <1>4, <1>5, <1>6

LEMMA IdlesStep == BlockInv /\ LineIdle(news, reads) /\ [Next]_vars => LineStep
<1> SUFFICES ASSUME BlockInv, LineIdle(news, reads), [Next]_vars PROVE LineStep
  OBVIOUS
<1>1. CASE Reading
  BY <1>1, Tier1ReadsIdle, OtherReadsIdle, OtherStepsIdle, RendersIdle DEF Reading
<1>2. CASE Writing
  BY <1>2, OtherStepsIdle, RendersIdle DEF Writing
<1>3. CASE Pressing
  BY <1>3, OtherStepsIdle, RendersIdle DEF Pressing
<1>4. CASE UNCHANGED pageVars \/ StarSteps
  BY <1>4, OtherStepsIdle
<1> QED BY <1>1, <1>2, <1>3, <1>4 DEF Next, vars

LEMMA IdlesStart == Init => LineIdle(news, reads)
<1> SUFFICES ASSUME Init PROVE LineIdle(news, reads)
  OBVIOUS
<1>1. reads = {Attention(1, FALSE)} /\ ~news.asked /\ ~news.answer /\ ~news.failed
  BY DEF Init
<1>2. Attention(1, FALSE).kind = "tier1"
  BY DEF Attention, Read
<1> QED BY <1>1, <1>2 DEF LineIdle, Reaches

\* A line that stays where it was, unhidden, with its answer, is still drawn.
LEMMA DrawnAsBefore ==
    ASSUME shown, newsplace' = newsplace, ~news'.hidden, LineAnswered(news) => LineAnswered(news')
    PROVE  shown'
BY DEF shown, LineShown, LineAnswered

\* The page takes the keyboard only with the place, the shape or the control; the viewer's own acts, by closing a
\* popover whose opener was of another shape.
LEMMA KeyboardStep ==
    ASSUME [Next]_vars, LineAnswered(news) => LineAnswered(news'), keyboard # "lost", keyboard' = "lost"
    PROVE  newsplace' # newsplace \/ newsmode' # newsmode \/ opener # newsmode
<1>1. CASE LineFollows(Line, Line', ~news.hidden /\ news'.hidden)
  <2> SUFFICES ASSUME newsplace' = newsplace, newsmode' = newsmode PROVE FALSE
    OBVIOUS
  <2>1. /\ Line.place = newsplace /\ Line.mode = newsmode /\ Line.shown = shown
        /\ Line'.place = newsplace' /\ Line'.mode = newsmode' /\ Line'.shown = shown'
    BY DEF Line
  <2>2. shown /\ ~shown'
    BY <1>1, <2>1 DEF LineFollows
  <2>3. ~(~news.hidden /\ news'.hidden)
    BY <1>1, <2>1, <2>2 DEF LineFollows, hideFrom
  <2> QED BY <2>2, <2>3, DrawnAsBefore DEF shown, LineShown
<1>2. CASE Using
  <2> SUFFICES ASSUME opener = newsmode PROVE FALSE
    OBVIOUS
  <2>1. \A g \in Groups : g # "lost"
    BY GroupsAssumption
  <2> QED BY <1>2, <2>1 DEF Using, Gesture, openFrom, PopoverEscape, close, outside, onLeave, focusTip, KeyboardLeaves,
             hoverTip, leaveTip, TipEntered, TipEscape, Resized, TipTimer
<1>3. CASE UNCHANGED vars
  BY <1>3 DEF vars, lineVars
<1> QED BY <1>1, <1>2, <1>3 DEF Next

(***************************************************************************)
(* The theorems                                                            *)
(***************************************************************************)

\* The page's asks and repository.ts's count: one read of an ask is out, and the count is of those that retry.
THEOREM BlockInvariant == Spec => []BlockInv
<1>1. BlockInv /\ [Next]_vars => BlockInv'
  BY BlockStep
<1> QED BY <1>1, BlockStarts, PTL DEF Spec

\* The block says "Reconnecting" exactly while some read is between a failed attempt and its end, whoever sent it.
THEOREM TheLineIsTrue == Spec => []ReconnectingLineIsTrue
<1>1. BlockInv => ReconnectingLineIsTrue
  <2> SUFFICES ASSUME BlockInv PROVE ReconnectingLineIsTrue
    OBVIOUS
  <2>1. IsFiniteSet(Retrying(reads))
    BY FS_Subset DEF Retrying, BlockInv, ReadsOK
  <2>2. Cardinality(Retrying(reads)) = 0 <=> Retrying(reads) = {}
    BY <2>1, FS_EmptySet
  <2> QED BY <2>2 DEF BlockInv, CountIsExact, ReconnectingLineIsTrue, Retrying
<1> QED BY <1>1, BlockInvariant, PTL

\* Tier 1 keeps the last load's payload, whatever loads, batches of details and retries cross: Block implements LastAsk.
THEOREM Tier1KeepsTheLastLoad == Spec => LastLoadWins
<1> QED BY BlockStarts, BlockStep, BlockInvariant, PTL DEF Spec, LastLoadWins, Tier1!Spec

\* calendarpref.ts's writers share one value, and neither drops the other's members: with no write out and none missed,
\* what is stored is what the page shows.
THEOREM NoWriterDropsTheOther == Spec => []StoredIsThePage
<1>1. PrefInv => StoredIsThePage
  BY DEF PrefInv, StoredIsThePage, Latest, Before, Page
<1> QED BY <1>1, BlockInvariant, PreferenceStarts, PreferenceStep, PTL DEF Spec

\* A star drawn is the server's, whatever writes, two of one course at once among them, tier 3's and loads cross, but
\* while its write is applied and not answered and for the courses the page has no way to know (unsure).
THEOREM StarsAreTheServers == Spec => []StarsAgree
<1>1. StarsInv => StarsAgree
  BY DEF StarsInv, StarsAgree, DrawnOK, LatestOK
<1> QED BY <1>1, BlockInvariant, StarsStart, StarsStep, PTL DEF Spec

\* Whatever says it is loading, cards, the strip's row or counts or the line, has the read that ends it out, but for the
\* cards whose course the details service answered nothing of; before tier 1 first settles, tier 1's own (Block.tsx, load;
\* CalendarStrip.tsx and OpenCourses.tsx, waiting).
THEOREM WhatWaitsIsAskedFor == Spec => []WaitsHaveAReadOut
<1>1. Spec => []PrefInv
  BY BlockInvariant, PreferenceStarts, PreferenceStep, PTL DEF Spec
<1>2. Spec => []WaitInv
  BY <1>1, BlockInvariant, WaitsStart, WaitsStep, PTL DEF Spec
<1> QED BY <1>1, <1>2, BlockInvariant, WaitsAreOut, PTL

\* The viewer's own acts, a tooltip's timer, a late answer or a redraw that keeps the line where and as it is never leave
\* the keyboard on nothing, unless the shape that opened the popover is gone (OpenCourses.tsx, close and hideFrom).
THEOREM TheLineKeepsTheKeyboard == Spec => LineKeepsTheKeyboard
<1>1. Spec => []LineIdle(news, reads)
  <2>1. BlockInv /\ LineIdle(news, reads) /\ [Next]_vars => LineIdle(news, reads)'
    BY IdlesStep DEF LineStep
  <2> QED BY <2>1, BlockInvariant, IdlesStart, PTL DEF Spec
<1>2. BlockInv /\ LineIdle(news, reads) /\ [Next]_vars
         => [keyboard # "lost" /\ keyboard' = "lost" => newsplace' # newsplace \/ newsmode' # newsmode \/ opener # newsmode]_vars
  BY IdlesStep, KeyboardStep DEF LineStep
<1> QED BY <1>1, <1>2, BlockInvariant, PTL DEF Spec, LineKeepsTheKeyboard
=============================================================================

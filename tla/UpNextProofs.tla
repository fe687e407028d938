---------------------------- MODULE UpNextProofs ----------------------------
(***************************************************************************)
(* Proofs about UpNext: for any items, horizon, limits and bounds, the     *)
(* answers kept are those of the last asks (UpNext implements LastAsk),    *)
(* the retry's button is never left waiting for nothing, and the drawn     *)
(* view's gate never opens in silence.                                     *)
(***************************************************************************)
EXTENDS UpNext, NaturalsInduction, WellFoundedInduction, TLAPS

(***************************************************************************)
(* The inductive invariant                                                 *)
(***************************************************************************)

\* An ask under way: numbered within its view's asks, and an answer it carries has its number.
Numbered(q, seqs) ==
    /\ DOMAIN q = {"view", "seq", "reply", "lists"}
    /\ q.view \in Views
    /\ q.seq \in 1 .. seqs[q.view]
    /\ q.reply # NoAnswer => q.reply.seq = q.seq

\* The parts of useUpNext()'s state the asks go through.
AskParts(h) ==
    /\ {"gates", "considered", "seq", "out", "answers", "settled", "failed", "retrying",
        "refilled", "askedat", "refills"} \subseteq DOMAIN h
    /\ h.seq \in [Views -> Nat]
    /\ DOMAIN h.answers = Views
    /\ \A q \in h.out : Numbered(q, h.seq)

\* A retry waits for the last ask of its view.
RetryWaits(h) == h.retrying => \E q \in h.out : q.seq = h.seq[q.view]

AskInv(h) == AskParts(h) /\ RetryWaits(h)

\* What the hook does between two answers: it may ask again, and lets go of no answer.
Follows(h, k) ==
    /\ AskInv(k)
    /\ k.answers = h.answers
    /\ \A v \in Views : k.seq[v] >= h.seq[v]

UpNextInv == view \in Views /\ AskInv(hook)

(***************************************************************************)
(* Lemmas: the hook's operators                                            *)
(***************************************************************************)

\* A change of the parts the asks do not go through keeps the invariant.
LEMMA Beside ==
    ASSUME NEW h, NEW k, AskInv(h), DOMAIN k = DOMAIN h,
           k.seq = h.seq, k.out = h.out, k.answers = h.answers, k.retrying = h.retrying
    PROVE  Follows(h, k)
<1>1. \A v \in Views : k.seq[v] >= h.seq[v]
  BY DEF AskInv, AskParts
<1>2. AskParts(k)
  BY DEF AskInv, AskParts
<1>3. RetryWaits(k)
  BY DEF AskInv, RetryWaits
<1> QED BY <1>1, <1>2, <1>3 DEF Follows, AskInv

\* ask() bumps its view's number and sends the ask with it, which a waiting retry may wait for.
LEMMA AskFollows ==
    ASSUME NEW h, NEW v \in Views, NEW at, AskParts(h)
    PROVE  Follows(h, ask(h, v, at))
<1> DEFINE k == ask(h, v, at)
           mine == h.seq[v] + 1
           new == [view |-> v, seq |-> mine, reply |-> NoAnswer, lists |-> NoLists]
<1>1. /\ k.seq = [h.seq EXCEPT ![v] = mine]
      /\ k.out = h.out \cup {new}
      /\ k.answers = h.answers
      /\ DOMAIN k = DOMAIN h
  BY DEF ask, AskParts
<1>2. mine \in Nat \ {0} /\ h.seq[v] \in Nat
  BY DEF AskParts
<1>3. k.seq \in [Views -> Nat] /\ \A w \in Views : k.seq[w] >= h.seq[w]
  BY <1>1, <1>2 DEF AskParts
<1>4. ASSUME NEW q \in k.out PROVE Numbered(q, k.seq)
  <2>1. CASE q = new
    BY <2>1, <1>1, <1>2 DEF Numbered, AskParts
  <2>2. CASE q \in h.out
    <3>1. Numbered(q, h.seq)
      BY <2>2 DEF AskParts
    <3>2. h.seq[q.view] \in Nat /\ k.seq[q.view] \in Nat /\ k.seq[q.view] >= h.seq[q.view]
      BY <3>1, <1>3 DEF Numbered, AskParts
    <3> QED BY <3>1, <3>2 DEF Numbered
  <2> QED BY <1>1, <2>1, <2>2
<1>5. AskParts(k)
  BY <1>1, <1>3, <1>4 DEF AskParts
<1>6. RetryWaits(k)
  <2>1. new \in k.out /\ new.seq = k.seq[new.view]
    BY <1>1, <1>2 DEF AskParts
  <2> QED BY <2>1 DEF RetryWaits
<1> QED BY <1>1, <1>3, <1>5, <1>6 DEF Follows, AskInv

\* Steps of the hook compose.
LEMMA FollowsTwice ==
    ASSUME NEW h, NEW k, NEW l, AskInv(h), Follows(h, k), Follows(k, l)
    PROVE  Follows(h, l)
<1> SUFFICES ASSUME NEW v \in Views PROVE l.seq[v] >= h.seq[v]
  BY DEF Follows
<1>1. h.seq[v] \in Nat /\ k.seq[v] \in Nat /\ l.seq[v] \in Nat
  BY DEF Follows, AskInv, AskParts
<1> QED BY <1>1 DEF Follows

\* consider(): nothing, an ask, or a view found with nothing to ask for.
LEMMA ConsiderFollows ==
    ASSUME NEW h, NEW v \in Views, NEW at, AskInv(h)
    PROVE  Follows(h, consider(h, v, at))
<1> DEFINE read == [h EXCEPT !.considered[v] = TRUE]
           quiet == [read EXCEPT !.settled[v] = TRUE]
<1>1. Follows(h, h)
  BY Beside
<1>2. Follows(h, read)
  <2>1. /\ DOMAIN read = DOMAIN h /\ read.seq = h.seq /\ read.out = h.out
        /\ read.answers = h.answers /\ read.retrying = h.retrying
    BY DEF AskInv, AskParts
  <2> HIDE DEF read
  <2> QED BY <2>1, Beside
<1>3. Follows(h, quiet)
  <2>1. /\ DOMAIN quiet = DOMAIN h /\ quiet.seq = h.seq /\ quiet.out = h.out
        /\ quiet.answers = h.answers /\ quiet.retrying = h.retrying
    BY DEF AskInv, AskParts
  <2> HIDE DEF quiet
  <2> QED BY <2>1, Beside
<1>4. Follows(h, ask(read, v, at))
  <2> HIDE DEF read
  <2>1. AskInv(read)
    BY <1>2 DEF Follows
  <2>2. Follows(read, ask(read, v, at))
    BY <2>1, AskFollows DEF AskInv
  <2> QED BY <1>2, <2>2, FollowsTwice
<1>5. consider(h, v, at) \in {h, ask(read, v, at), quiet}
  BY DEF consider
<1> HIDE DEF read, quiet
<1> QED BY <1>1, <1>3, <1>4, <1>5

\* refill(): the gate once more, or nothing.
LEMMA RefillFollows ==
    ASSUME NEW h, NEW v \in Views, NEW at, AskInv(h)
    PROVE  Follows(h, refill(h, v, at))
<1> DEFINE noted == [h EXCEPT !.refilled = <<v, h.answers[v].seq>>]
           asked == consider(noted, v, at)
           again == [asked EXCEPT !.refills = @ + 1]
<1>1. Follows(h, h)
  BY Beside
<1>2. Follows(h, noted)
  <2>1. /\ DOMAIN noted = DOMAIN h /\ noted.seq = h.seq /\ noted.out = h.out
        /\ noted.answers = h.answers /\ noted.retrying = h.retrying
    BY DEF AskInv, AskParts
  <2> HIDE DEF noted
  <2> QED BY <2>1, Beside
<1>3. AskInv(noted)
  BY <1>2 DEF Follows
<1>4. Follows(noted, asked)
  <2> HIDE DEF noted
  <2> QED BY <1>3, ConsiderFollows
<1>5. Follows(h, asked) /\ AskInv(asked)
  <2> HIDE DEF noted, asked
  <2>1. AskInv(asked)
    BY <1>4 DEF Follows
  <2> QED BY <2>1, <1>2, <1>4, FollowsTwice
<1>6. Follows(asked, again)
  <2> HIDE DEF asked
  <2>1. /\ DOMAIN again = DOMAIN asked /\ again.seq = asked.seq /\ again.out = asked.out
        /\ again.answers = asked.answers /\ again.retrying = asked.retrying
    BY <1>5 DEF AskInv, AskParts
  <2> HIDE DEF again
  <2> QED BY <1>5, <2>1, Beside
<1>7. Follows(h, again)
  <2> HIDE DEF asked, again
  <2> QED BY <1>5, <1>6, FollowsTwice
<1>8. refill(h, v, at) \in {h, again}
  BY DEF refill
<1> HIDE DEF again
<1> QED BY <1>1, <1>7, <1>8

\* The refill's budget is let go of when the clock or the viewer moves.
LEMMA BudgetFollows ==
    ASSUME NEW h, AskInv(h)
    PROVE  Follows(h, [h EXCEPT !.refills = 0])
<1> DEFINE k == [h EXCEPT !.refills = 0]
<1>1. /\ DOMAIN k = DOMAIN h /\ k.seq = h.seq /\ k.out = h.out
      /\ k.answers = h.answers /\ k.retrying = h.retrying
  BY DEF AskInv, AskParts
<1>2. Follows(h, k)
  <2> HIDE DEF k
  <2> QED BY <1>1, Beside
<1> QED BY <1>2

(***************************************************************************)
(* Lemmas: an ask is over                                                  *)
(***************************************************************************)

\* An ask that a later one has overtaken leaves without a trace.
LEMMA OvertakenFollows ==
    ASSUME NEW h, AskInv(h), NEW q \in h.out, q.seq # h.seq[q.view]
    PROVE  Follows(h, [h EXCEPT !.out = @ \ {q}])
<1> DEFINE k == [h EXCEPT !.out = @ \ {q}]
<1>1. /\ DOMAIN k = DOMAIN h /\ k.seq = h.seq /\ k.out = h.out \ {q}
      /\ k.answers = h.answers /\ k.retrying = h.retrying
  BY DEF AskInv, AskParts
<1>2. Follows(h, k)
  <2> HIDE DEF k
  <2>1. AskParts(k) /\ \A v \in Views : k.seq[v] >= h.seq[v]
    BY <1>1 DEF AskInv, AskParts
  <2>2. RetryWaits(k)
    BY <1>1 DEF AskInv, RetryWaits
  <2> QED BY <1>1, <2>1, <2>2 DEF Follows, AskInv
<1> QED BY <1>2

\* The last ask of a view fails: the retry stops waiting, and the answer in hand stays.
LEMMA FailureFollows ==
    ASSUME NEW h, AskInv(h), NEW q \in h.out
    PROVE  Follows(h, [Failed([h EXCEPT !.out = @ \ {q}], q.view) EXCEPT !.failed = q.view])
<1> DEFINE k == [Failed([h EXCEPT !.out = @ \ {q}], q.view) EXCEPT !.failed = q.view]
<1>1. /\ DOMAIN k = DOMAIN h /\ k.seq = h.seq /\ k.out = h.out \ {q}
      /\ k.answers = h.answers /\ k.retrying = FALSE
  BY DEF AskInv, AskParts, Failed, Settle
<1>2. Follows(h, k)
  <2> HIDE DEF k
  <2>1. AskParts(k) /\ \A v \in Views : k.seq[v] >= h.seq[v]
    BY <1>1 DEF AskInv, AskParts
  <2> QED BY <1>1, <2>1 DEF Follows, AskInv, RetryWaits
<1> QED BY <1>2

\* The hook with q's answer in hand, before the refill looks at it (SoonLands).
Kept(h, q, lists, failed) ==
    [Settle([h EXCEPT !.out = @ \ {q}], q.view) EXCEPT
        !.gates[q.view] = lists, !.answers[q.view] = q.reply, !.failed = failed]

\* The last ask's answer is the one in hand, under its own number.
LEMMA AnswerKept ==
    ASSUME NEW h, AskInv(h), NEW q \in h.out, NEW lists, NEW failed
    PROVE  /\ AskInv(Kept(h, q, lists, failed))
           /\ Kept(h, q, lists, failed).seq = h.seq
           /\ Kept(h, q, lists, failed).answers = [h.answers EXCEPT ![q.view] = q.reply]
<1> DEFINE k == Kept(h, q, lists, failed)
<1>1. /\ DOMAIN k = DOMAIN h /\ k.seq = h.seq /\ k.out = h.out \ {q}
      /\ k.answers = [h.answers EXCEPT ![q.view] = q.reply] /\ k.retrying = FALSE
  BY DEF Kept, AskInv, AskParts, Settle
<1>2. AskInv(k) /\ k.seq = h.seq /\ k.answers = [h.answers EXCEPT ![q.view] = q.reply]
  <2> HIDE DEF k
  <2>1. AskInv(k)
    BY <1>1 DEF AskInv, AskParts, RetryWaits
  <2> QED BY <1>1, <2>1
<1> QED BY <1>2

\* An ask served on the way keeps its number, and brings the answer of that number.
LEMMA ServedFollows ==
    ASSUME NEW h, AskInv(h), NEW q \in h.out, NEW lists
    PROVE  Follows(h, [h EXCEPT !.out = (@ \ {q}) \cup {[q EXCEPT !.reply = get_soon(q.view, q.seq), !.lists = lists]}])
<1> DEFINE s == [q EXCEPT !.reply = get_soon(q.view, q.seq), !.lists = lists]
           k == [h EXCEPT !.out = (@ \ {q}) \cup {s}]
<1>1. /\ DOMAIN k = DOMAIN h /\ k.seq = h.seq /\ k.out = (h.out \ {q}) \cup {s}
      /\ k.answers = h.answers /\ k.retrying = h.retrying
  BY DEF AskInv, AskParts
<1>2. Numbered(q, h.seq)
  BY DEF AskInv, AskParts
<1>3. /\ DOMAIN s = DOMAIN q /\ s.view = q.view /\ s.seq = q.seq
      /\ s.reply = get_soon(q.view, q.seq)
  BY <1>2 DEF Numbered
<1>4. Numbered(s, h.seq)
  BY <1>2, <1>3 DEF Numbered, get_soon
<1>5. Follows(h, k)
  <2> HIDE DEF k, s
  <2>1. AskParts(k) /\ \A v \in Views : k.seq[v] >= h.seq[v]
    BY <1>1, <1>4 DEF AskInv, AskParts
  <2>2. RetryWaits(k)
    BY <1>1, <1>3 DEF AskInv, RetryWaits
  <2> QED BY <1>1, <2>1, <2>2 DEF Follows, AskInv
<1> QED BY <1>5

(***************************************************************************)
(* The steps of the page                                                   *)
(***************************************************************************)

\* A step that follows the hook's state asks again or stands, in LastAsk's words.
LEMMA FollowingAsks ==
    ASSUME AskInv(hook), Follows(hook, hook')
    PROVE  AskInv(hook') /\ Asks!Next
<1>1. ASSUME NEW v \in Views PROVE Asks!Ask(v) \/ Asks!Stand(v)
  <2>1. hook.seq[v] \in Nat /\ hook'.seq[v] \in Nat /\ hook'.seq[v] >= hook.seq[v]
    BY DEF Follows, AskInv, AskParts
  <2>2. hook'.answers = hook.answers
    BY DEF Follows
  <2>3. hook'.seq[v] > hook.seq[v] \/ hook'.seq[v] = hook.seq[v]
    BY <2>1
  <2> QED BY <2>2, <2>3 DEF Asks!Ask, Asks!Stand
<1> QED BY <1>1 DEF Asks!Next, Follows

\* The same state follows itself.
LEMMA StandingFollows == ASSUME NEW h, AskInv(h) PROVE Follows(h, h)
BY Beside

\* A minute: the region's refill at most.
LEMMA TickFollows ==
    ASSUME UpNextInv, Tick
    PROVE  view' \in Views /\ Follows(hook, hook')
<1> DEFINE h == [hook EXCEPT !.refills = 0]
<1>1. AskInv(hook) /\ view \in Views
  BY DEF UpNextInv
<1>2. Follows(hook, h) /\ AskInv(h)
  BY <1>1, BudgetFollows DEF Follows
<1>3. Follows(hook, refill(h, view, now'))
  <2> HIDE DEF h
  <2> QED BY <1>1, <1>2, RefillFollows, FollowsTwice
<1>4. hook' \in {h, refill(h, view, now')}
  BY DEF Tick, Minute, advance
<1>5. view' = view
  BY DEF Tick
<1> HIDE DEF h
<1> QED BY <1>1, <1>2, <1>3, <1>4, <1>5

\* The gate opens, or its lists come: the drawn view is read through the gate.
LEMMA GateFollows ==
    ASSUME UpNextInv, TimerFires \/ SourceArrives
    PROVE  view' \in Views /\ Follows(hook, hook')
<1>1. AskInv(hook) /\ view \in Views
  BY DEF UpNextInv
<1>2. CASE TimerFires
  <2>1. view' = view /\ hook' \in {hook, consider(hook, view, now)}
    BY <1>2 DEF TimerFires
  <2> QED BY <1>1, <2>1, ConsiderFollows, StandingFollows
<1>3. CASE SourceArrives
  <2> DEFINE news == {v \in Views : ~hook.known \/ hook.gates[v] # source.lists[v]}
             read == [hook EXCEPT !.known = TRUE, !.gates = source.lists,
                                  !.considered = [v \in Views |-> @[v] /\ v \notin news]]
  <2>1. view' = view /\ hook' \in {read, consider(read, view, now)}
    BY <1>3 DEF SourceArrives
  <2>2. Follows(hook, read)
    <3>1. /\ DOMAIN read = DOMAIN hook /\ read.seq = hook.seq /\ read.out = hook.out
          /\ read.answers = hook.answers /\ read.retrying = hook.retrying
      BY <1>1 DEF AskInv, AskParts
    <3> HIDE DEF read
    <3> QED BY <1>1, <3>1, Beside
  <2> HIDE DEF read
  <2>3. Follows(hook, consider(read, view, now))
    <3>1. AskInv(read)
      BY <2>2 DEF Follows
    <3> QED BY <1>1, <2>2, <3>1, ConsiderFollows, FollowsTwice
  <2> QED BY <1>1, <2>1, <2>2, <2>3
<1> QED BY <1>2, <1>3

\* A view is chosen: read when it is new, its answer refilled.
LEMMA ChooseViewFollows ==
    ASSUME UpNextInv, ChooseView
    PROVE  view' \in Views /\ Follows(hook, hook')
<1> DEFINE read == IF hook.considered[view'] THEN hook ELSE consider(hook, view', now)
           budget == [read EXCEPT !.refills = 0]
<1>1. AskInv(hook) /\ view' \in Views
  BY DEF UpNextInv, ChooseView, Views
<1>2. hook' = refill(budget, view', At(clock))
  BY DEF ChooseView
<1>3. Follows(hook, read) /\ AskInv(read)
  <2>1. Follows(hook, hook) /\ Follows(hook, consider(hook, view', now))
    BY <1>1, StandingFollows, ConsiderFollows
  <2> QED BY <2>1 DEF Follows
<1> HIDE DEF read
<1>4. Follows(hook, budget) /\ AskInv(budget)
  BY <1>1, <1>3, BudgetFollows, FollowsTwice DEF Follows
<1> HIDE DEF budget
<1> QED BY <1>1, <1>2, <1>4, RefillFollows, FollowsTwice

\* Shown again: the gate when the page was away long, and the region's minute.
LEMMA ShowPageFollows ==
    ASSUME UpNextInv, ShowPage
    PROVE  view' \in Views /\ Follows(hook, hook')
<1> DEFINE h == [hook EXCEPT !.refills = 0]
           asks == due \/ now - hiddenat >= AWAY
           read == IF asks THEN consider(h, view, now) ELSE h
<1>1. AskInv(hook) /\ view \in Views
  BY DEF UpNextInv
<1>2. view' = view /\ hook' \in {read, refill(read, view, now)}
  BY DEF ShowPage
<1>3. Follows(hook, h) /\ AskInv(h)
  BY <1>1, BudgetFollows DEF Follows
<1>4. Follows(hook, read) /\ AskInv(read)
  <2> HIDE DEF h
  <2>1. Follows(hook, consider(h, view, now))
    BY <1>1, <1>3, ConsiderFollows, FollowsTwice
  <2> QED BY <1>3, <2>1 DEF Follows
<1> HIDE DEF read
<1> QED BY <1>1, <1>2, <1>4, RefillFollows, FollowsTwice

\* Try again: one more ask, which the retry waits for.
LEMMA RetryFollows ==
    ASSUME UpNextInv, Retry
    PROVE  view' \in Views /\ Follows(hook, hook')
<1> DEFINE h == [hook EXCEPT !.retrying = TRUE]
<1>1. AskInv(hook) /\ view \in Views
  BY DEF UpNextInv
<1>2. view' = view /\ hook' = ask(h, view, now)
  BY DEF Retry
<1>3. AskParts(h) /\ h.answers = hook.answers /\ h.seq = hook.seq
  BY <1>1 DEF AskInv, AskParts
<1>4. Follows(hook, ask(h, view, now))
  <2> HIDE DEF h
  <2>1. Follows(h, ask(h, view, now))
    BY <1>1, <1>3, AskFollows
  <2> QED BY <1>3, <2>1 DEF Follows
<1> QED BY <1>1, <1>2, <1>4

\* An ask is served, or fails: the answer in hand stays.
LEMMA UnderWayFollows ==
    ASSUME UpNextInv, NEW q \in hook.out, SoonServed(q) \/ SoonFails(q)
    PROVE  view' \in Views /\ Follows(hook, hook')
<1>1. AskInv(hook) /\ view \in Views
  BY DEF UpNextInv
<1>2. CASE SoonServed(q)
  BY <1>1, <1>2, ServedFollows DEF SoonServed
<1>3. CASE SoonFails(q)
  <2>1. CASE isLast(q)
    BY <1>1, <1>3, <2>1, FailureFollows DEF SoonFails
  <2>2. CASE ~isLast(q)
    BY <1>1, <1>3, <2>2, OvertakenFollows DEF SoonFails, isLast
  <2> QED BY <2>1, <2>2
<1> QED BY <1>2, <1>3

\* An answer lands: it is kept under its view's number, or was overtaken.
LEMMA LandingAnswers ==
    ASSUME UpNextInv, NEW q \in hook.out, SoonLands(q)
    PROVE  view' \in Views /\ AskInv(hook') /\ Asks!Next
<1>1. AskInv(hook) /\ view \in Views /\ view' = view
  BY DEF UpNextInv, SoonLands
<1>2. CASE ~isLast(q)
  BY <1>1, <1>2, OvertakenFollows, FollowingAsks DEF SoonLands, isLast
<1>3. CASE isLast(q)
  <2> DEFINE failed == IF hook.failed = q.view THEN "none" ELSE hook.failed
             kept == Kept(hook, q, q.lists, failed)
  <2>1. hook' = refill(kept, view, now)
    BY <1>1, <1>3 DEF SoonLands, Kept, Settle, AskInv, AskParts
  <2>2. AskInv(kept) /\ kept.seq = hook.seq /\ kept.answers = [hook.answers EXCEPT ![q.view] = q.reply]
    BY <1>1, AnswerKept
  <2>3. /\ q.view \in Views /\ q.seq \in 1 .. hook.seq[q.view] /\ q.reply.seq = q.seq
        /\ hook.seq[q.view] = q.seq
    BY <1>1, <1>3 DEF AskInv, AskParts, Numbered, SoonLands, isLast
  <2> HIDE DEF kept
  <2>4. Follows(kept, hook')
    BY <1>1, <2>1, <2>2, RefillFollows
  <2>5. ASSUME NEW v \in Views PROVE Asks!Ask(v) \/ Asks!Answer(v) \/ Asks!Stand(v)
    <3>1. hook.seq[v] \in Nat /\ hook'.seq[v] \in Nat /\ hook'.seq[v] >= hook.seq[v]
      BY <1>1, <2>2, <2>4 DEF Follows, AskInv, AskParts
    <3>2. hook'.answers = [hook.answers EXCEPT ![q.view] = q.reply] /\ DOMAIN hook.answers = Views
      BY <1>1, <2>2, <2>4 DEF Follows, AskInv, AskParts
    <3>3. CASE v = q.view
      <4>1. hook'.answers[v].seq = hook.seq[v] /\ hook.seq[v] > 0
        BY <2>3, <3>1, <3>2, <3>3
      <4> QED BY <3>1, <4>1 DEF Asks!Answer
    <3>4. CASE v # q.view
      <4>1. hook'.answers[v] = hook.answers[v]
        BY <3>2, <3>4
      <4> QED BY <3>1, <4>1 DEF Asks!Ask, Asks!Stand
    <3> QED BY <3>3, <3>4
  <2> QED BY <1>1, <2>4, <2>5 DEF Asks!Next, Follows
<1> QED BY <1>2, <1>3

\* The initial state: nothing asked.
LEMMA UpNextStarts == Init => UpNextInv /\ Asks!Init
<1> SUFFICES ASSUME Init PROVE UpNextInv /\ Asks!Init
  OBVIOUS
<1>1. /\ hook.seq = [v \in Views |-> 0] /\ hook.out = {} /\ hook.answers = [v \in Views |-> NoAnswer]
      /\ hook.retrying = FALSE
      /\ {"gates", "considered", "seq", "out", "answers", "settled", "failed", "retrying",
          "refilled", "askedat", "refills"} \subseteq DOMAIN hook
  BY DEF Init
<1>2. UpNextInv
  BY <1>1 DEF Init, UpNextInv, AskInv, AskParts, RetryWaits
<1>3. Asks!Init
  BY <1>1 DEF Asks!Init, NoAnswer
<1> QED BY <1>2, <1>3

\* Every step keeps the invariant, and is one of LastAsk's.
LEMMA UpNextStep ==
    UpNextInv /\ [Next]_vars => UpNextInv' /\ [Asks!Next]_<<hook.seq, [v \in Views |-> hook.answers[v].seq]>>
<1> SUFFICES ASSUME UpNextInv, [Next]_vars
             PROVE  view' \in Views /\ AskInv(hook') /\ Asks!Next
  BY DEF UpNextInv
<1>1. AskInv(hook) /\ view \in Views
  BY DEF UpNextInv
<1>2. CASE Tick \/ TimerFires \/ SourceArrives \/ ChooseView \/ ShowPage \/ Retry
           \/ \E q \in hook.out : SoonServed(q) \/ SoonFails(q)
  BY <1>1, <1>2, FollowingAsks, TickFollows, GateFollows, ChooseViewFollows, ShowPageFollows, RetryFollows,
     UnderWayFollows
<1>3. CASE \E q \in hook.out : SoonLands(q)
  BY <1>3, LandingAnswers
<1>4. CASE SourceServed \/ HidePage \/ Hide \/ (\E i \in Items : Submit(i)) \/ UNCHANGED vars
  <2>1. view' = view /\ hook' = hook
    BY <1>4 DEF SourceServed, HidePage, Hide, Submit, vars
  <2> QED BY <1>1, <2>1, StandingFollows, FollowingAsks
<1> QED BY <1>2, <1>3, <1>4 DEF Next, Others

(***************************************************************************)
(* The gate of the drawn view                                              *)
(***************************************************************************)

ListsOK(lists) == lists.upcoming \subseteq Int /\ lists.events \subseteq Int \X Int

\* The parts of useUpNext()'s state the gate goes through.
GateParts(h) ==
    /\ {"gates", "known", "considered", "seq", "out", "answers", "settled", "failed", "retrying",
        "refilled", "askedat", "refills"} \subseteq DOMAIN h
    /\ DOMAIN h.gates = Views /\ DOMAIN h.considered = Views /\ DOMAIN h.askedat = Views /\ DOMAIN h.answers = Views
    /\ \A v \in Views : ListsOK(h.gates[v])

\* An ask under way brings lists, and an answer of this minute.
OutOK(out, t) == \A q \in out : ListsOK(q.lists) /\ (q.reply # NoAnswer => q.reply.at = t)

GateTypes ==
    /\ now \in Nat /\ timer \in Int
    /\ DOMAIN entry = Views /\ \A v \in Views : ListsOK(entry[v])
    /\ DOMAIN source = {"served", "lists", "left"} /\ DOMAIN source.lists = Views
    /\ \A v \in Views : ListsOK(source.lists[v])
    /\ GateParts(hook) /\ OutOK(hook.out, now)

\* An opening asked about since, or the answer in hand looks past it.
Handled(h, v, o) ==
    \/ h.askedat[v] >= o
    \/ h.answers[v].seq > 0 /\ o + HORIZON <= Max({ENDOFDAY, h.answers[v].at + HORIZON})
Answered(h, v, t, from) ==
    \A o \in openings(h.gates[v]) : o > from /\ o > 0 /\ o <= t /\ gateOpens(h.gates[v], t) => Handled(h, v, o)

\* The timer fires at the next opening, or before.
Ahead(lists, t, at) == \A o \in openings(lists) : o > t => at # None /\ at <= o

\* What has opened is handled, but for an opening the timer is about to fire at or fired at while nobody looked.
GateInv ==
    /\ GateTypes
    /\ hook.known =>
          /\ hook.considered[view]
          /\ Ahead(hook.gates[view], now, timer)
          /\ (Shown \/ ~due) /\ ~TimerDue => Answered(hook, view, now, since)

\* What the hook does between two answers of a view: it may ask again, at an instant.
GateKeeps(h, k, v, t) ==
    /\ GateParts(k)
    /\ k.gates[v] = h.gates[v] /\ k.answers[v] = h.answers[v] /\ k.known = h.known
    /\ h.considered[v] => k.considered[v]
    /\ k.askedat[v] \in {h.askedat[v], t}
\* ... and nothing lands meanwhile.
OutKeeps(h, k) == \A q \in k.out : q \in h.out \/ (q.reply = NoAnswer /\ q.lists = NoLists)

\* A set of instants after a given one has a first.
LEMMA FirstIsMin ==
    ASSUME NEW t \in Int, NEW T, T \subseteq Int, T # {}, \A x \in T : x > t
    PROVE  Min(T) \in T /\ \A x \in T : Min(T) <= x
<1> DEFINE less == {p \in Nat \X Nat : p[1] < p[2]}
           S == {x - t : x \in T}
<1>1. IsWellFoundedOn(less, Nat)
  BY NatLessThanWellFounded DEF OpToRel
<1>2. S \subseteq Nat /\ S # {}
  BY \A x \in T : x - t \in Nat
<1>3. PICK m \in S : \A y \in S : <<y, m>> \notin less
  <2> HIDE DEF less, S
  <2> QED BY <1>1, <1>2, WFMin
<1>4. PICK n \in T : m = n - t
  OBVIOUS
<1>5. ASSUME NEW y \in T PROVE n <= y
  <2>1. y - t \in S /\ y - t \in Nat /\ m \in Nat
    BY <1>2, <1>5
  <2>2. <<y - t, m>> \in Nat \X Nat /\ ~(y - t < m)
    BY <1>3, <2>1
  <2>3. n \in Int /\ y \in Int
    OBVIOUS
  <2> QED BY <1>4, <2>2, <2>3
<1> QED BY <1>4, <1>5 DEF Min

\* gateNext(): no opening ahead is before it.
LEMMA NextIsAhead ==
    ASSUME NEW lists, ListsOK(lists), NEW t \in Nat
    PROVE  gateNext(lists, t) \in Int /\ Ahead(lists, t, gateNext(lists, t))
<1> DEFINE ahead == {o \in openings(lists) : o > t}
<1>1. openings(lists) \subseteq Int
  <2>1. \A e \in lists.events : e[1] \in Int
    BY DEF ListsOK
  <2> QED BY <2>1, LimitAssumption DEF openings, ListsOK
<1>2. gateNext(lists, t) = IF ahead = {} THEN None ELSE Min(ahead)
  BY DEF gateNext
<1>3. CASE ahead = {}
  BY <1>2, <1>3 DEF Ahead, None
<1>4. CASE ahead # {}
  <2>1. ahead \subseteq Int /\ (\A o \in ahead : o > t) /\ t \in Int
    BY <1>1
  <2> HIDE DEF ahead
  <2>2. Min(ahead) \in ahead /\ \A o \in ahead : Min(ahead) <= o
    BY <1>4, <2>1, FirstIsMin, Zenon
  <2>3. Min(ahead) # None
    BY <2>1, <2>2 DEF None
  <2> QED BY <1>2, <1>4, <2>1, <2>2, <2>3 DEF Ahead, ahead
<1> QED BY <1>3, <1>4

\* A gate opens from one minute to the next at one of its openings.
LEMMA OpensAtAnOpening ==
    ASSUME NEW lists, ListsOK(lists), NEW t \in Nat, gateOpens(lists, t + 1), ~gateOpens(lists, t)
    PROVE  t + 1 \in openings(lists)
<1>1. CASE \E x \in lists.upcoming : x >= t + 1 /\ x <= t + 1 + HORIZON
  <2>1. PICK x \in lists.upcoming : x >= t + 1 /\ x <= t + 1 + HORIZON
    BY <1>1
  <2>2. x \in Int /\ ~(x >= t /\ x <= t + HORIZON)
    BY DEF ListsOK, gateOpens
  <2>3. x - HORIZON = t + 1
    BY <2>1, <2>2, LimitAssumption
  <2> QED BY <2>3 DEF openings
<1>2. CASE \E e \in lists.events : e[1] <= t + 1 + HORIZON /\ e[2] > t + 1
  <2>1. PICK e \in lists.events : e[1] <= t + 1 + HORIZON /\ e[2] > t + 1
    BY <1>2
  <2>2. e[1] \in Int /\ e[2] \in Int
    BY DEF ListsOK
  <2>3. ~(e[1] <= t + HORIZON /\ e[2] > t)
    BY DEF gateOpens
  <2>4. e[1] - HORIZON = t + 1
    BY <2>1, <2>2, <2>3, LimitAssumption
  <2> QED BY <2>4 DEF openings
<1> QED BY <1>1, <1>2 DEF gateOpens

LEMMA OpeningsAreInstants ==
    ASSUME NEW lists, ListsOK(lists)
    PROVE  openings(lists) \subseteq Int
<1>1. \A e \in lists.events : e[1] \in Int
  BY DEF ListsOK
<1> QED BY <1>1, LimitAssumption DEF openings, ListsOK

\* Asking again handles no less.
LEMMA KeepsAnswered ==
    ASSUME NEW h, NEW k, NEW v \in Views, NEW t \in Nat, NEW from, GateParts(h), GateKeeps(h, k, v, t), Answered(h, v, t, from)
    PROVE  Answered(k, v, t, from)
<1> SUFFICES ASSUME NEW o \in openings(k.gates[v]), o > from, o > 0, o <= t, gateOpens(k.gates[v], t) PROVE Handled(k, v, o)
  BY DEF Answered
<1>1. o \in Int
  BY OpeningsAreInstants DEF GateKeeps, GateParts
<1>2. Handled(h, v, o)
  BY DEF Answered, GateKeeps
<1> QED BY <1>1, <1>2 DEF Handled, GateKeeps

\* A change of the parts the gate does not go through.
LEMMA BesideTheGate ==
    ASSUME NEW h, NEW k, NEW v \in Views, NEW t, GateParts(h), DOMAIN k = DOMAIN h,
           k.gates = h.gates, k.answers = h.answers, k.known = h.known, k.askedat = h.askedat, k.out = h.out,
           DOMAIN k.considered = Views, h.considered[v] => k.considered[v]
    PROVE  GateKeeps(h, k, v, t) /\ OutKeeps(h, k)
BY DEF GateKeeps, GateParts, OutKeeps

\* ask(), at the gate: the view is asked about now.
LEMMA AskAtTheGate ==
    ASSUME NEW h, NEW v \in Views, NEW t, GateParts(h), h.seq \in [Views -> Nat]
    PROVE  GateKeeps(h, ask(h, v, t), v, t) /\ OutKeeps(h, ask(h, v, t)) /\ ask(h, v, t).askedat[v] = t
<1> DEFINE k == ask(h, v, t)
           new == [view |-> v, seq |-> h.seq[v] + 1, reply |-> NoAnswer, lists |-> NoLists]
<1>1. /\ DOMAIN k = DOMAIN h /\ k.gates = h.gates /\ k.answers = h.answers /\ k.known = h.known
      /\ k.considered = h.considered /\ k.out = h.out \cup {new} /\ k.askedat = [h.askedat EXCEPT ![v] = t]
  BY DEF ask, GateParts
<1> HIDE DEF k
<1>2. DOMAIN k.askedat = Views /\ k.askedat[v] = t
  BY <1>1 DEF GateParts
<1>3. GateKeeps(h, k, v, t)
  BY <1>1, <1>2 DEF GateKeeps, GateParts
<1>4. OutKeeps(h, k)
  BY <1>1 DEF OutKeeps
<1> QED BY <1>2, <1>3, <1>4 DEF k

LEMMA KeepsTwice ==
    ASSUME NEW h, NEW k, NEW l, NEW v \in Views, NEW t, GateKeeps(h, k, v, t), GateKeeps(k, l, v, t), OutKeeps(h, k), OutKeeps(k, l)
    PROVE  GateKeeps(h, l, v, t) /\ OutKeeps(h, l)
BY DEF GateKeeps, OutKeeps

\* consider(): once the lists are in, what is open now is asked about.
LEMMA ConsiderAtTheGate ==
    ASSUME NEW h, NEW v \in Views, NEW t, GateParts(h), h.seq \in [Views -> Nat]
    PROVE  /\ GateKeeps(h, consider(h, v, t), v, t) /\ OutKeeps(h, consider(h, v, t))
           /\ h.known => consider(h, v, t).considered[v]
           /\ h.known /\ t \in Nat => \A from : Answered(consider(h, v, t), v, t, from)
<1> DEFINE read == [h EXCEPT !.considered[v] = TRUE]
           quiet == [read EXCEPT !.settled[v] = TRUE]
           k == consider(h, v, t)
<1>1. /\ DOMAIN read = DOMAIN h /\ read.gates = h.gates /\ read.answers = h.answers /\ read.known = h.known
      /\ read.askedat = h.askedat /\ read.out = h.out /\ read.seq = h.seq
      /\ read.considered = [h.considered EXCEPT ![v] = TRUE]
  BY DEF GateParts
<1>2. /\ DOMAIN quiet = DOMAIN h /\ quiet.gates = h.gates /\ quiet.answers = h.answers /\ quiet.known = h.known
      /\ quiet.askedat = h.askedat /\ quiet.out = h.out /\ quiet.considered = read.considered
  BY DEF GateParts
<1>3. k = IF ~h.known THEN h ELSE IF gateOpens(h.gates[v], t) THEN ask(read, v, t) ELSE quiet
  BY DEF consider
<1> HIDE DEF read, quiet
<1>4. DOMAIN read.considered = Views /\ read.considered[v]
  BY <1>1 DEF GateParts
<1>5. GateKeeps(h, read, v, t) /\ OutKeeps(h, read) /\ GateParts(read)
  BY <1>1, <1>4, BesideTheGate DEF GateKeeps
<1>6. CASE ~h.known
  <2>1. GateKeeps(h, h, v, t) /\ OutKeeps(h, h)
    BY BesideTheGate DEF GateParts
  <2> QED BY <1>3, <1>6, <2>1
<1>7. CASE h.known /\ gateOpens(h.gates[v], t)
  <2> DEFINE a == ask(read, v, t)
  <2>1. GateKeeps(read, a, v, t) /\ OutKeeps(read, a) /\ a.askedat[v] = t
    BY <1>1, <1>5, AskAtTheGate
  <2> HIDE DEF a
  <2>2. GateKeeps(h, a, v, t) /\ OutKeeps(h, a) /\ a.considered[v]
    BY <1>4, <1>5, <2>1, KeepsTwice DEF GateKeeps
  <2>3. t \in Nat => \A from : Answered(a, v, t, from)
    <3> SUFFICES ASSUME t \in Nat, NEW from, NEW o \in openings(a.gates[v]), o <= t PROVE Handled(a, v, o)
      BY DEF Answered
    <3>1. o \in Int
      BY <2>2, OpeningsAreInstants DEF GateKeeps, GateParts
    <3> QED BY <2>1, <3>1 DEF Handled
  <2> QED BY <1>3, <1>7, <2>2, <2>3 DEF a
<1>8. CASE h.known /\ ~gateOpens(h.gates[v], t)
  <2>1. GateKeeps(h, quiet, v, t) /\ OutKeeps(h, quiet) /\ quiet.considered[v]
    BY <1>2, <1>4, BesideTheGate
  <2>2. \A from : Answered(quiet, v, t, from)
    BY <1>2, <1>8 DEF Answered
  <2> QED BY <1>3, <1>8, <2>1, <2>2
<1> QED BY <1>6, <1>7, <1>8

\* refill(), at the gate.
LEMMA RefillAtTheGate ==
    ASSUME NEW h, NEW v \in Views, NEW t, GateParts(h), h.seq \in [Views -> Nat]
    PROVE  GateKeeps(h, refill(h, v, t), v, t) /\ OutKeeps(h, refill(h, v, t))
<1> DEFINE noted == [h EXCEPT !.refilled = <<v, h.answers[v].seq>>]
           asked == consider(noted, v, t)
           again == [asked EXCEPT !.refills = @ + 1]
<1>1. /\ DOMAIN noted = DOMAIN h /\ noted.gates = h.gates /\ noted.answers = h.answers /\ noted.known = h.known
      /\ noted.askedat = h.askedat /\ noted.out = h.out /\ noted.seq = h.seq /\ noted.considered = h.considered
  BY DEF GateParts
<1> HIDE DEF noted
<1>2. GateKeeps(h, noted, v, t) /\ OutKeeps(h, noted) /\ GateParts(noted)
  BY <1>1, BesideTheGate DEF GateKeeps, GateParts
<1>3. GateKeeps(noted, asked, v, t) /\ OutKeeps(noted, asked)
  BY <1>1, <1>2, ConsiderAtTheGate
<1> HIDE DEF asked
<1>4. GateKeeps(h, asked, v, t) /\ OutKeeps(h, asked) /\ GateParts(asked)
  BY <1>2, <1>3, KeepsTwice DEF GateKeeps
<1>5. /\ DOMAIN again = DOMAIN asked /\ again.gates = asked.gates /\ again.answers = asked.answers
      /\ again.known = asked.known /\ again.askedat = asked.askedat /\ again.out = asked.out
      /\ again.considered = asked.considered
  BY <1>4 DEF GateParts
<1> HIDE DEF again
<1>6. GateKeeps(asked, again, v, t) /\ OutKeeps(asked, again)
  BY <1>4, <1>5, BesideTheGate DEF GateParts
<1>7. GateKeeps(h, again, v, t) /\ OutKeeps(h, again)
  BY <1>4, <1>6, KeepsTwice
<1>8. GateKeeps(h, h, v, t) /\ OutKeeps(h, h)
  BY BesideTheGate DEF GateParts
<1>9. refill(h, v, t) \in {h, again}
  BY DEF refill, again, asked, noted
<1> QED BY <1>7, <1>8, <1>9

\* A minute in which nothing lands, and the timer stands or is set again.
LEMMA GateStays ==
    ASSUME UpNextInv, GateInv, ~TimerDue, UNCHANGED <<now, view, since>>, GateTypes', GateKeeps(hook, hook', view, now),
           timer' = timer \/ SetTimer(view),
           (Shown \/ ~due)' /\ hook.known => Shown \/ ~due \/ Answered(hook', view, now, since)
    PROVE  GateInv'
<1>1. view \in Views /\ GateTypes
  BY DEF UpNextInv, GateInv
<1>2. SUFFICES ASSUME hook'.known
               PROVE  /\ hook'.considered[view] /\ Ahead(hook'.gates[view], now, timer')
                      /\ (Shown \/ ~due)' => Answered(hook', view, now, since)
  BY <1>1 DEF GateInv
<1>3. hook.known
  BY <1>2 DEF GateKeeps
<1>4. hook'.considered[view]
  BY <1>3 DEF GateInv, GateKeeps
<1>5. Ahead(hook'.gates[view], now, timer')
  <2>1. CASE timer' = timer
    BY <1>3, <2>1 DEF GateInv, GateKeeps
  <2>2. CASE SetTimer(view)
    <3>1. ListsOK(hook'.gates[view]) /\ now \in Nat
      BY <1>1 DEF GateKeeps, GateParts, GateTypes
    <3> QED BY <1>2, <2>2, <3>1, NextIsAhead DEF SetTimer
  <2> QED BY <2>1, <2>2
<1>6. ASSUME (Shown \/ ~due)' PROVE Answered(hook', view, now, since)
  <2>1. CASE Shown \/ ~due
    <3>1. Answered(hook, view, now, since)
      BY <1>3, <2>1 DEF GateInv
    <3> QED BY <1>1, <3>1, KeepsAnswered DEF GateTypes
  <2>2. CASE ~(Shown \/ ~due)
    BY <1>3, <1>6, <2>2
  <2> QED BY <2>1, <2>2
<1> QED BY <1>4, <1>5, <1>6

LEMMA TimerIsSet ==
    ASSUME GateParts(hook'), NEW v \in Views, now \in Nat, SetTimer(v)
    PROVE  timer' \in Int
BY NextIsAhead DEF SetTimer, GateParts, None

\* What the hook held stays held.
LEMMA OutStays ==
    ASSUME GateTypes, OutKeeps(hook, hook')
    PROVE  OutOK(hook'.out, now)
<1>1. ListsOK(NoLists)
  BY DEF ListsOK, NoLists
<1> QED BY <1>1 DEF GateTypes, OutOK, OutKeeps

\* Steps that touch neither the gate nor the asks.
LEMMA AsideTheGate ==
    ASSUME UpNextInv, GateInv, ~TimerDue, SourceServed \/ HidePage \/ Hide \/ \E i \in Items : Submit(i)
    PROVE  GateInv'
<1>1. /\ UNCHANGED <<now, view, since, hook, timer, entry, due>>
      /\ source' = source \/ source' = [served |-> TRUE, lists |-> entry, left |-> source.left - 1]
      /\ UNCHANGED hiddenat \/ hiddenat' = now
  BY DEF SourceServed, HidePage, Hide, Submit
<1>2. GateTypes /\ view \in Views
  BY DEF GateInv, UpNextInv
<1>3. GateTypes'
  <2>1. /\ DOMAIN source' = {"served", "lists", "left"} /\ DOMAIN source'.lists = Views
        /\ \A v \in Views : ListsOK(source'.lists[v])
    BY <1>1, <1>2 DEF GateTypes
  <2> QED BY <1>1, <1>2, <2>1 DEF GateTypes
<1>4. GateKeeps(hook, hook, view, now)
  BY <1>2, BesideTheGate DEF GateTypes, GateParts
<1>5. (Shown \/ ~due)' => Shown \/ ~due
  BY <1>1, <1>2 DEF Shown, GateTypes, None
<1> QED BY <1>1, <1>3, <1>4, <1>5, GateStays

\* The viewer's Try again, and the page shown again.
LEMMA AskedByTheViewer ==
    ASSUME UpNextInv, GateInv, ~TimerDue, Retry \/ ShowPage
    PROVE  GateInv'
<1>1. UNCHANGED <<now, view, since, timer, entry, source>>
  BY DEF Retry, ShowPage
<1>2. GateTypes /\ GateParts(hook) /\ view \in Views /\ hook.seq \in [Views -> Nat] /\ now \in Nat
  BY DEF GateInv, GateTypes, UpNextInv, AskInv, AskParts
<1>3. ASSUME NEW h, DOMAIN h = DOMAIN hook, h.gates = hook.gates, h.answers = hook.answers, h.known = hook.known,
             h.askedat = hook.askedat, h.out = hook.out, h.considered = hook.considered, h.seq = hook.seq
      PROVE  GateKeeps(hook, h, view, now) /\ OutKeeps(hook, h) /\ GateParts(h)
  BY <1>2, <1>3, BesideTheGate DEF GateParts
<1>4. CASE Retry
  <2> DEFINE h == [hook EXCEPT !.retrying = TRUE]
  <2>1. hook' = ask(h, view, now) /\ UNCHANGED <<hiddenat, due>>
    BY <1>4 DEF Retry
  <2>2. /\ DOMAIN h = DOMAIN hook /\ h.gates = hook.gates /\ h.answers = hook.answers /\ h.known = hook.known
        /\ h.askedat = hook.askedat /\ h.out = hook.out /\ h.considered = hook.considered /\ h.seq = hook.seq
    BY <1>2 DEF GateParts
  <2> HIDE DEF h
  <2>3. GateKeeps(hook, h, view, now) /\ OutKeeps(hook, h) /\ GateParts(h)
    BY <1>3, <2>2
  <2>4. GateKeeps(h, hook', view, now) /\ OutKeeps(h, hook')
    BY <1>2, <2>1, <2>2, <2>3, AskAtTheGate
  <2>5. GateKeeps(hook, hook', view, now) /\ OutKeeps(hook, hook')
    BY <1>2, <2>3, <2>4, KeepsTwice
  <2>6. GateTypes'
    BY <1>1, <1>2, <2>5, OutStays DEF GateTypes, GateKeeps
  <2> QED BY <1>1, <2>1, <2>5, <2>6, GateStays DEF Shown
<1>5. CASE ShowPage
  <2> DEFINE h == [hook EXCEPT !.refills = 0]
             asks == due \/ now - hiddenat >= AWAY
             read == IF asks THEN consider(h, view, now) ELSE h
  <2>1. hook' \in {read, refill(read, view, now)}
    BY <1>5 DEF ShowPage
  <2>2. /\ DOMAIN h = DOMAIN hook /\ h.gates = hook.gates /\ h.answers = hook.answers /\ h.known = hook.known
        /\ h.askedat = hook.askedat /\ h.out = hook.out /\ h.considered = hook.considered /\ h.seq = hook.seq
    BY <1>2 DEF GateParts
  <2> HIDE DEF h
  <2>3. GateKeeps(hook, h, view, now) /\ OutKeeps(hook, h) /\ GateParts(h)
    BY <1>3, <2>2
  <2> DEFINE c == consider(h, view, now)
  <2>4. /\ GateKeeps(hook, c, view, now) /\ OutKeeps(hook, c) /\ c.seq \in [Views -> Nat]
        /\ hook.known => Answered(c, view, now, since)
    <3>1. GateKeeps(h, c, view, now) /\ OutKeeps(h, c) /\ (h.known => Answered(c, view, now, since))
      BY <1>2, <2>2, <2>3, ConsiderAtTheGate
    <3>2. AskInv(h)
      BY <2>2 DEF UpNextInv, AskInv, AskParts, RetryWaits, h
    <3>3. c.seq \in [Views -> Nat]
      BY <1>2, <3>2, ConsiderFollows DEF Follows, AskInv, AskParts
    <3> HIDE DEF c
    <3> QED BY <1>2, <2>2, <2>3, <3>1, <3>3, KeepsTwice
  <2> HIDE DEF c
  <2>5. /\ GateKeeps(hook, read, view, now) /\ OutKeeps(hook, read) /\ GateParts(read) /\ read.seq \in [Views -> Nat]
        /\ due /\ hook.known => Answered(read, view, now, since)
    BY <1>2, <2>2, <2>3, <2>4 DEF GateKeeps, c
  <2> HIDE DEF read
  <2>6. GateKeeps(read, hook', view, now) /\ OutKeeps(read, hook')
    <3>1. GateKeeps(read, read, view, now) /\ OutKeeps(read, read)
      BY <1>2, <2>5, BesideTheGate DEF GateParts
    <3> QED BY <1>2, <2>1, <2>5, <3>1, RefillAtTheGate
  <2>7. GateKeeps(hook, hook', view, now) /\ OutKeeps(hook, hook')
    BY <1>2, <2>5, <2>6, KeepsTwice
  <2>8. GateTypes'
    BY <1>1, <1>2, <2>7, OutStays DEF GateTypes, GateKeeps
  <2>9. hook.known => Shown \/ ~due \/ Answered(hook', view, now, since)
    BY <1>2, <2>5, <2>6, KeepsAnswered
  <2> QED BY <1>1, <2>7, <2>8, <2>9, GateStays
<1> QED BY <1>4, <1>5

\* A minute goes by: what opens with it, the timer is due at.
LEMMA TickAtTheGate ==
    ASSUME UpNextInv, GateInv, ~TimerDue, Tick
    PROVE  GateInv'
<1> DEFINE h == [hook EXCEPT !.refills = 0]
<1>1. /\ now' = now + 1 /\ UNCHANGED <<view, since, timer, entry, source, hiddenat, due>>
      /\ hook' \in {h, refill(h, view, now')} /\ \A q \in hook.out : q.reply = NoAnswer
  BY DEF Tick, Minute, advance
<1>2. GateTypes /\ GateParts(hook) /\ view \in Views /\ hook.seq \in [Views -> Nat] /\ now \in Nat /\ timer \in Int
  BY DEF GateInv, GateTypes, UpNextInv, AskInv, AskParts
<1>3. GateKeeps(hook, h, view, now') /\ OutKeeps(hook, h) /\ GateParts(h) /\ h.seq \in [Views -> Nat]
  <2>1. /\ DOMAIN h = DOMAIN hook /\ h.gates = hook.gates /\ h.answers = hook.answers /\ h.known = hook.known
        /\ h.askedat = hook.askedat /\ h.out = hook.out /\ h.considered = hook.considered /\ h.seq = hook.seq
    BY <1>2 DEF GateParts
  <2> HIDE DEF h
  <2> QED BY <1>2, <2>1, BesideTheGate DEF GateParts
<1> HIDE DEF h
<1>4. GateKeeps(hook, hook', view, now') /\ OutKeeps(hook, hook')
  <2>1. GateKeeps(h, refill(h, view, now'), view, now') /\ OutKeeps(h, refill(h, view, now'))
    BY <1>2, <1>3, RefillAtTheGate
  <2> QED BY <1>1, <1>2, <1>3, <2>1, KeepsTwice
<1>5. OutOK(hook'.out, now')
  <2>1. ListsOK(NoLists)
    BY DEF ListsOK, NoLists
  <2> QED BY <1>1, <1>2, <1>4, <2>1 DEF GateTypes, OutOK, OutKeeps
<1>6. GateTypes'
  BY <1>1, <1>2, <1>4, <1>5 DEF GateTypes, GateKeeps
<1>7. ASSUME hook.known
      PROVE  /\ hook'.considered[view] /\ Ahead(hook'.gates[view], now', timer)
             /\ (Shown \/ ~due) /\ ~TimerDue' => Answered(hook', view, now', since)
  <2> DEFINE lists == hook.gates[view]
  <2>1. /\ hook.considered[view] /\ Ahead(lists, now, timer) /\ (Shown \/ ~due => Answered(hook, view, now, since))
        /\ hook'.gates[view] = lists /\ ListsOK(lists) /\ openings(lists) \subseteq Int
    BY <1>2, <1>4, <1>7, OpeningsAreInstants DEF GateInv, GateKeeps, GateParts
  <2>2. hook'.considered[view]
    BY <1>4, <2>1 DEF GateKeeps
  <2> HIDE DEF lists
  <2>3. Ahead(lists, now', timer)
    BY <1>1, <1>2, <2>1 DEF Ahead
  <2>4. ASSUME Shown \/ ~due, ~TimerDue' PROVE Answered(hook', view, now', since)
    <3> SUFFICES ASSUME NEW o \in openings(lists), o > since, o > 0, o <= now', gateOpens(lists, now') PROVE Handled(hook', view, o)
      BY <2>1 DEF Answered
    <3>1. now + 1 \notin openings(lists)
      <4>1. SUFFICES ASSUME now + 1 \in openings(lists) PROVE FALSE
        OBVIOUS
      <4>2. timer # None /\ timer <= now + 1
        BY <1>2, <2>1, <4>1 DEF Ahead
      <4> QED BY <1>1, <2>4, <4>2 DEF TimerDue
    <3>2. gateOpens(lists, now)
      BY <1>1, <1>2, <2>1, <3>1, OpensAtAnOpening
    <3>3. o \in Int /\ o <= now
      BY <1>1, <1>2, <2>1, <3>1
    <3>4. Handled(hook, view, o)
      BY <2>1, <2>4, <3>2, <3>3 DEF Answered, lists
    <3> QED BY <1>1, <1>2, <1>4, <3>3, <3>4 DEF Handled, GateKeeps
  <2> QED BY <2>1, <2>2, <2>3, <2>4
<1>8. hook'.known = hook.known
  BY <1>4 DEF GateKeeps
<1> QED BY <1>1, <1>6, <1>7, <1>8 DEF GateInv, Shown

\* The timer fires: the gate is asked about, or will be once the page is shown.
LEMMA TimerAtTheGate ==
    ASSUME UpNextInv, GateInv, TimerFires
    PROVE  GateInv'
<1> DEFINE c == consider(hook, view, now)
<1>1. /\ UNCHANGED <<now, view, since, entry, source, hiddenat>> /\ SetTimer(view)
      /\ IF Shown THEN hook' = c /\ UNCHANGED due ELSE due' = TRUE /\ UNCHANGED hook
  BY DEF TimerFires
<1>2. GateTypes /\ GateParts(hook) /\ view \in Views /\ hook.seq \in [Views -> Nat] /\ now \in Nat
  BY DEF GateInv, GateTypes, UpNextInv, AskInv, AskParts
<1>3. GateKeeps(hook, hook', view, now) /\ OutKeeps(hook, hook')
  <2>1. GateKeeps(hook, hook, view, now) /\ OutKeeps(hook, hook)
    BY <1>2, BesideTheGate DEF GateParts
  <2>2. GateKeeps(hook, c, view, now) /\ OutKeeps(hook, c)
    BY <1>2, ConsiderAtTheGate
  <2> HIDE DEF c
  <2> QED BY <1>1, <2>1, <2>2
<1>4. GateTypes'
  <2>1. timer' \in Int
    BY <1>1, <1>2, <1>3, TimerIsSet DEF GateKeeps
  <2> QED BY <1>1, <1>2, <1>3, <2>1, OutStays DEF GateTypes, GateKeeps
<1>5. ASSUME hook.known PROVE Ahead(hook'.gates[view], now, timer')
  <2>1. ListsOK(hook'.gates[view]) /\ hook'.known
    BY <1>2, <1>3, <1>5 DEF GateKeeps, GateParts
  <2> QED BY <1>1, <1>2, <2>1, NextIsAhead DEF SetTimer
<1>6. ASSUME hook.known, Shown \/ ~due' PROVE Answered(hook', view, now, since)
  <2>1. hook' = c
    BY <1>1, <1>6
  <2>2. Answered(c, view, now, since)
    BY <1>2, <1>6, ConsiderAtTheGate
  <2> QED BY <2>1, <2>2
<1>7. hook'.known = hook.known /\ (hook.known => hook'.considered[view])
  BY <1>3 DEF GateInv, GateKeeps
<1> QED BY <1>1, <1>4, <1>5, <1>6, <1>7 DEF GateInv, Shown

\* The lists arrive: what they changed of the drawn view is read again.
LEMMA SourceAtTheGate ==
    ASSUME UpNextInv, GateInv, ~TimerDue, SourceArrives
    PROVE  GateInv'
<1> DEFINE news == {v \in Views : ~hook.known \/ hook.gates[v] # source.lists[v]}
           read == [hook EXCEPT !.known = TRUE, !.gates = source.lists,
                                !.considered = [v \in Views |-> @[v] /\ v \notin news]]
           c == consider(read, view, now)
<1>1. /\ UNCHANGED <<now, view, since, entry, hiddenat, due>>
      /\ source' = [source EXCEPT !.served = FALSE, !.lists = [v \in Views |-> NoLists]]
      /\ hook' = IF read.considered[view] THEN read ELSE c
      /\ IF news = {} THEN UNCHANGED timer ELSE SetTimer(view)
  BY DEF SourceArrives
<1>2. GateTypes /\ GateParts(hook) /\ view \in Views /\ hook.seq \in [Views -> Nat] /\ now \in Nat
  BY DEF GateInv, GateTypes, UpNextInv, AskInv, AskParts
<1>3. /\ DOMAIN read = DOMAIN hook /\ read.gates = source.lists /\ read.answers = hook.answers /\ read.known = TRUE
      /\ read.askedat = hook.askedat /\ read.out = hook.out /\ read.seq = hook.seq /\ DOMAIN read.considered = Views
      /\ read.considered[view] <=> hook.considered[view] /\ view \notin news
  <2>1. read.considered = [v \in Views |-> hook.considered[v] /\ v \notin news]
    BY <1>2 DEF GateParts
  <2>2. /\ DOMAIN read = DOMAIN hook /\ read.gates = source.lists /\ read.answers = hook.answers /\ read.known = TRUE
        /\ read.askedat = hook.askedat /\ read.out = hook.out /\ read.seq = hook.seq
    BY <1>2 DEF GateParts
  <2> HIDE DEF read, news
  <2> QED BY <1>2, <2>1, <2>2
<1> HIDE DEF read
<1>4. GateParts(read)
  BY <1>2, <1>3 DEF GateParts, GateTypes
<1>5. GateKeeps(read, hook', view, now) /\ OutKeeps(read, hook') /\ hook'.considered[view]
  <2>1. GateKeeps(read, read, view, now) /\ OutKeeps(read, read)
    BY <1>2, <1>3, <1>4, BesideTheGate
  <2>2. GateKeeps(read, c, view, now) /\ OutKeeps(read, c) /\ c.considered[view]
    BY <1>2, <1>3, <1>4, ConsiderAtTheGate
  <2> HIDE DEF c
  <2> QED BY <1>1, <2>1, <2>2
<1>6. hook'.known /\ hook'.gates[view] = source.lists[view] /\ ListsOK(source.lists[view])
  BY <1>2, <1>3, <1>5 DEF GateKeeps, GateTypes
<1>7. timer' \in Int
  BY <1>1, <1>2, <1>5, TimerIsSet DEF GateKeeps, GateTypes
<1>8. GateTypes'
  <2>1. OutKeeps(hook, hook')
    BY <1>3, <1>5 DEF OutKeeps
  <2>2. ListsOK(NoLists)
    BY DEF ListsOK, NoLists
  <2>3. /\ DOMAIN source' = {"served", "lists", "left"} /\ source'.lists = [v \in Views |-> NoLists]
    BY <1>1, <1>2 DEF GateTypes
  <2> QED BY <1>1, <1>2, <1>5, <1>7, <2>1, <2>2, <2>3, OutStays DEF GateTypes, GateKeeps
<1>9. CASE hook.considered[view] /\ view \notin news
  <2>1. /\ hook.known /\ hook.gates[view] = source.lists[view] /\ hook' = read
    BY <1>1, <1>2, <1>3, <1>9
  <2>2. GateKeeps(hook, hook', view, now)
    BY <1>2, <1>3, <1>4, <1>9, <2>1 DEF GateKeeps
  <2> HIDE DEF news
  <2> QED BY <1>1, <1>8, <2>2, GateStays DEF Shown
<1>10. CASE ~(hook.considered[view] /\ view \notin news)
  <2>1. view \in news
    BY <1>2, <1>10 DEF GateInv
  <2>2. SetTimer(view)
    BY <1>1, <2>1
  <2>3. Ahead(hook'.gates[view], now, timer')
    BY <1>2, <1>6, <2>2, NextIsAhead DEF SetTimer
  <2>4. hook' = c
    BY <1>1, <1>3, <1>10
  <2>5. Answered(hook', view, now, since)
    BY <1>2, <1>3, <1>4, <2>4, ConsiderAtTheGate
  <2> QED BY <1>1, <1>5, <1>8, <2>3, <2>5 DEF GateInv
<1> QED BY <1>9, <1>10

\* A view is drawn: what opened before is outside the claim.
LEMMA ViewAtTheGate ==
    ASSUME UpNextInv, GateInv, ChooseView
    PROVE  GateInv'
<1> DEFINE read == IF hook.considered[view'] THEN hook ELSE consider(hook, view', now)
           budget == [read EXCEPT !.refills = 0]
<1>1. /\ UNCHANGED <<now, entry, source, hiddenat, due>> /\ since' = now /\ SetTimer(view')
      /\ hook' = refill(budget, view', At(clock))
  BY DEF ChooseView
<1>2. GateTypes /\ GateParts(hook) /\ view' \in Views /\ hook.seq \in [Views -> Nat] /\ now \in Nat
  BY DEF GateInv, GateTypes, UpNextInv, AskInv, AskParts, ChooseView, Views
<1>3. /\ GateParts(read) /\ OutKeeps(hook, read) /\ read.known = hook.known /\ (hook.known => read.considered[view'])
      /\ read.seq \in [Views -> Nat]
  <2> DEFINE c == consider(hook, view', now)
  <2>1. GateKeeps(hook, c, view', now) /\ OutKeeps(hook, c) /\ (hook.known => c.considered[view'])
    BY <1>2, ConsiderAtTheGate
  <2>2. c.seq \in [Views -> Nat]
    BY <1>2, ConsiderFollows DEF UpNextInv, Follows, AskInv, AskParts
  <2>3. OutKeeps(hook, hook)
    BY DEF OutKeeps
  <2> HIDE DEF c
  <2> QED BY <1>2, <2>1, <2>2, <2>3 DEF GateKeeps, c
<1> HIDE DEF read
<1>4. /\ DOMAIN budget = DOMAIN read /\ budget.gates = read.gates /\ budget.answers = read.answers
      /\ budget.known = read.known /\ budget.askedat = read.askedat /\ budget.out = read.out /\ budget.seq = read.seq
      /\ budget.considered = read.considered
  BY <1>3 DEF GateParts
<1> HIDE DEF budget
<1>5. GateParts(budget)
  BY <1>3, <1>4 DEF GateParts
<1>6. GateKeeps(budget, hook', view', At(clock)) /\ OutKeeps(budget, hook')
  BY <1>1, <1>2, <1>3, <1>4, <1>5, RefillAtTheGate
<1>7. /\ GateParts(hook') /\ OutKeeps(hook, hook') /\ hook'.known = hook.known
      /\ hook.known => hook'.considered[view']
  BY <1>3, <1>4, <1>6 DEF GateKeeps, OutKeeps
<1>8. timer' \in Int
  BY <1>1, <1>2, <1>7, TimerIsSet
<1>9. GateTypes'
  BY <1>1, <1>2, <1>7, <1>8, OutStays DEF GateTypes
<1>10. ListsOK(hook'.gates[view'])
  BY <1>2, <1>7 DEF GateParts
<1>11. hook'.known => Ahead(hook'.gates[view'], now, timer')
  BY <1>1, <1>2, <1>10, NextIsAhead DEF SetTimer
<1>12. Answered(hook', view', now, now)
  <2>1. openings(hook'.gates[view']) \subseteq Int
    BY <1>10, OpeningsAreInstants
  <2>2. \A o \in openings(hook'.gates[view']) : ~(o > now /\ o <= now)
    BY <1>2, <2>1
  <2> QED BY <2>2 DEF Answered
<1> QED BY <1>1, <1>7, <1>9, <1>11, <1>12 DEF GateInv

\* The pruned lists are lists.
LEMMA PrunedLists ==
    ASSUME NEW lists, ListsOK(lists), NEW v
    PROVE  ListsOK(pruned(lists, v))
BY DEF ListsOK, pruned

\* An ask is served this minute, or fails.
LEMMA UnderWayAtTheGate ==
    ASSUME UpNextInv, GateInv, ~TimerDue, NEW q \in hook.out, SoonServed(q) \/ SoonFails(q)
    PROVE  GateInv'
<1>1. UNCHANGED <<now, view, since, timer, source, hiddenat, due>>
  BY DEF SoonServed, SoonFails
<1>2. GateTypes /\ GateParts(hook) /\ view \in Views /\ now \in Nat /\ Numbered(q, hook.seq) /\ ListsOK(q.lists)
  BY DEF GateInv, GateTypes, OutOK, UpNextInv, AskInv, AskParts
<1>3. CASE SoonServed(q)
  <2> DEFINE kept == pruned(entry[q.view], q.view)
             s == [q EXCEPT !.reply = get_soon(q.view, q.seq), !.lists = kept]
  <2>1. entry' = [entry EXCEPT ![q.view] = kept] /\ hook' = [hook EXCEPT !.out = (@ \ {q}) \cup {s}]
    BY <1>3 DEF SoonServed
  <2>2. ListsOK(kept)
    BY <1>2, PrunedLists DEF Numbered, GateTypes
  <2>3. s.lists = kept /\ s.reply.at = now
    BY <1>2 DEF Numbered, get_soon
  <2>4. /\ DOMAIN hook' = DOMAIN hook /\ hook'.gates = hook.gates /\ hook'.answers = hook.answers
        /\ hook'.known = hook.known /\ hook'.askedat = hook.askedat /\ hook'.considered = hook.considered
        /\ hook'.out = (hook.out \ {q}) \cup {s}
    BY <1>2, <2>1 DEF GateParts
  <2> HIDE DEF s
  <2>5. OutOK(hook'.out, now)
    BY <1>2, <2>2, <2>3, <2>4 DEF GateTypes, OutOK
  <2>6. DOMAIN entry' = Views /\ \A v \in Views : ListsOK(entry'[v])
    <3> HIDE DEF kept
    <3> QED BY <1>2, <2>1, <2>2 DEF GateTypes
  <2>7. GateKeeps(hook, hook', view, now) /\ GateParts(hook')
    BY <1>2, <2>4 DEF GateKeeps, GateParts
  <2>8. GateTypes'
    BY <1>1, <1>2, <2>5, <2>6, <2>7 DEF GateTypes
  <2> QED BY <1>1, <2>7, <2>8, GateStays DEF Shown
<1>4. CASE SoonFails(q)
  <2>1. /\ DOMAIN hook' = DOMAIN hook /\ hook'.gates = hook.gates /\ hook'.answers = hook.answers
        /\ hook'.known = hook.known /\ hook'.askedat = hook.askedat /\ hook'.considered = hook.considered
        /\ hook'.out = hook.out \ {q}
    <3>1. hook' \in {[hook EXCEPT !.out = @ \ {q}], [Failed([hook EXCEPT !.out = @ \ {q}], q.view) EXCEPT !.failed = q.view]}
      BY <1>4 DEF SoonFails
    <3> QED BY <1>2, <3>1 DEF GateParts, Failed, Settle
  <2>2. GateKeeps(hook, hook', view, now) /\ GateParts(hook')
    BY <1>2, <2>1 DEF GateKeeps, GateParts
  <2>3. GateTypes'
    BY <1>1, <1>2, <1>4, <2>1, <2>2 DEF GateTypes, OutOK, SoonFails
  <2> QED BY <1>1, <2>2, <2>3, GateStays DEF Shown
<1> QED BY <1>3, <1>4

\* An answer lands: it looks past everything that has opened by now.
LEMMA LandingAtTheGate ==
    ASSUME UpNextInv, GateInv, ~TimerDue, NEW q \in hook.out, SoonLands(q)
    PROVE  GateInv'
<1>1. UNCHANGED <<now, view, since, entry, source, hiddenat, due>> /\ q.reply # NoAnswer
  BY DEF SoonLands
<1>2. /\ GateTypes /\ GateParts(hook) /\ view \in Views /\ now \in Nat /\ Numbered(q, hook.seq) /\ ListsOK(q.lists)
      /\ q.reply.at = now /\ q.reply.seq = q.seq /\ hook.seq \in [Views -> Nat] /\ AskInv(hook)
  BY <1>1 DEF GateInv, GateTypes, OutOK, UpNextInv, AskInv, AskParts, Numbered
<1>3. CASE ~isLast(q)
  <2>1. hook' = [hook EXCEPT !.out = @ \ {q}] /\ timer' = timer
    BY <1>3 DEF SoonLands
  <2>2. /\ DOMAIN hook' = DOMAIN hook /\ hook'.gates = hook.gates /\ hook'.answers = hook.answers
        /\ hook'.known = hook.known /\ hook'.askedat = hook.askedat /\ hook'.considered = hook.considered
        /\ hook'.out = hook.out \ {q}
    BY <1>2, <2>1 DEF GateParts
  <2>3. GateKeeps(hook, hook', view, now) /\ GateParts(hook')
    BY <1>2, <2>2 DEF GateKeeps, GateParts
  <2>4. GateTypes'
    BY <1>1, <1>2, <2>1, <2>2, <2>3 DEF GateTypes, OutOK
  <2> QED BY <1>1, <2>1, <2>3, <2>4, GateStays DEF Shown
<1>4. CASE isLast(q)
  <2> DEFINE failed == IF hook.failed = q.view THEN "none" ELSE hook.failed
             kept == Kept(hook, q, q.lists, failed)
  <2>1. hook' = refill(kept, view, now) /\ SetTimer(view)
    BY <1>2, <1>4 DEF SoonLands, Kept, Settle, AskInv, AskParts
  <2>2. /\ DOMAIN kept = DOMAIN hook /\ kept.gates = [hook.gates EXCEPT ![q.view] = q.lists]
        /\ kept.answers = [hook.answers EXCEPT ![q.view] = q.reply] /\ kept.known = hook.known
        /\ kept.askedat = hook.askedat /\ kept.considered = hook.considered /\ kept.out = hook.out \ {q}
        /\ kept.seq = hook.seq
    BY <1>2 DEF GateParts, Kept, Settle
  <2> HIDE DEF kept
  <2>3. GateParts(kept)
    BY <1>2, <2>2 DEF GateParts, Numbered
  <2>4. GateKeeps(kept, hook', view, now) /\ OutKeeps(kept, hook')
    BY <1>2, <2>1, <2>2, <2>3, RefillAtTheGate
  <2>5. timer' \in Int
    BY <1>2, <2>1, <2>4, TimerIsSet DEF GateKeeps
  <2>6. GateTypes'
    <3>1. OutKeeps(hook, hook')
      BY <2>2, <2>4 DEF OutKeeps
    <3> QED BY <1>1, <1>2, <2>4, <2>5, <3>1, OutStays DEF GateTypes, GateKeeps
  <2>7. CASE q.view # view
    <3>1. GateKeeps(hook, hook', view, now)
      BY <1>2, <2>2, <2>4, <2>7 DEF GateKeeps, GateParts
    <3> QED BY <1>1, <2>1, <2>6, <3>1, GateStays DEF Shown
  <2>8. CASE q.view = view
    <3>1. hook'.answers[view] = q.reply /\ hook'.gates[view] = q.lists /\ hook'.known = hook.known
          /\ (hook.considered[view] => hook'.considered[view])
      BY <1>2, <2>2, <2>4, <2>8 DEF GateKeeps, GateParts
    <3>2. hook'.known => hook'.considered[view] /\ Ahead(hook'.gates[view], now, timer')
      BY <1>2, <2>1, <3>1, NextIsAhead DEF GateInv, SetTimer
    <3>3. Answered(hook', view, now, since)
      <4> SUFFICES ASSUME NEW o \in openings(q.lists), o <= now PROVE Handled(hook', view, o)
        BY <3>1 DEF Answered
      <4>1. o \in Int
        BY <1>2, OpeningsAreInstants
      <4>2. now + HORIZON <= Max({ENDOFDAY, now + HORIZON}) /\ Max({ENDOFDAY, now + HORIZON}) \in Int
        <5>1. now + HORIZON \in Int /\ ENDOFDAY \in Int
          BY <1>2, LimitAssumption, ItemsAssumption
        <5> QED BY <5>1 DEF Max
      <4>3. q.reply.seq > 0
        BY <1>2 DEF Numbered
      <4>4. o + HORIZON <= Max({ENDOFDAY, now + HORIZON})
        BY <1>2, <4>1, <4>2, LimitAssumption
      <4> QED BY <1>2, <3>1, <4>3, <4>4 DEF Handled
    <3> QED BY <1>1, <2>6, <3>1, <3>2, <3>3 DEF GateInv
  <2> QED BY <2>7, <2>8
<1> QED BY <1>3, <1>4

LEMMA GateStarts == Init => GateInv
<1> SUFFICES ASSUME Init PROVE GateInv
  OBVIOUS
<1>1. \A v \in Views : ListsOK(Counted(v)) /\ ListsOK(NoLists)
  BY ItemsAssumption DEF ListsOK, Counted, NoLists
<1>2. /\ now = 0 /\ timer = None /\ entry = [v \in Views |-> Counted(v)]
      /\ source = [served |-> FALSE, lists |-> [v \in Views |-> NoLists], left |-> 2]
      /\ hook.gates = [v \in Views |-> NoLists] /\ hook.known = FALSE /\ hook.considered = [v \in Views |-> FALSE]
      /\ hook.askedat = [v \in Views |-> None] /\ hook.answers = [v \in Views |-> NoAnswer] /\ hook.out = {}
      /\ DOMAIN hook = {"gates", "known", "considered", "seq", "out", "answers", "settled", "failed", "retrying",
                        "refilled", "askedat", "refills"}
  BY DEF Init
<1>3. GateTypes
  BY <1>1, <1>2 DEF GateTypes, GateParts, OutOK, None
<1> QED BY <1>2, <1>3 DEF GateInv

LEMMA GateStep == UpNextInv /\ GateInv /\ [Next]_vars => GateInv'
<1> SUFFICES ASSUME UpNextInv, GateInv, [Next]_vars PROVE GateInv'
  OBVIOUS
<1>1. CASE TimerDue /\ Next
  BY <1>1, TimerAtTheGate DEF Next
<1>2. CASE ~TimerDue /\ Next
  <2>1. Others
    BY <1>2 DEF Next
  <2> QED BY <1>2, <2>1, AsideTheGate, AskedByTheViewer, TickAtTheGate, SourceAtTheGate, ViewAtTheGate, UnderWayAtTheGate,
             LandingAtTheGate DEF Others
<1>3. CASE UNCHANGED vars
  BY <1>3 DEF vars, GateInv, GateTypes, Shown, TimerDue
<1> QED BY <1>1, <1>2, <1>3

(***************************************************************************)
(* The theorems                                                            *)
(***************************************************************************)

\* The invariant of the asks under way.
THEOREM AsksAreNumbered == Spec => []UpNextInv
<1>1. UpNextInv /\ [Next]_vars => UpNextInv'
  BY UpNextStep
<1> QED BY <1>1, UpNextStarts, PTL DEF Spec

\* useUpNext() keeps each view's last answer: whatever asks cross, fail, retry or refill, the hook implements LastAsk.
THEOREM UpNextKeepsTheLastAsk == Spec => LastAskWins
<1> QED BY UpNextStarts, UpNextStep, AsksAreNumbered, PTL DEF Spec, LastAskWins, Asks!Spec

\* The Try again of the region refuses presses only while an ask it waits for is under way.
THEOREM RetryIsLetGo == Spec => []RetryNeverSticks
<1>1. UpNextInv => RetryNeverSticks
  BY DEF UpNextInv, AskInv, RetryWaits, RetryNeverSticks
<1> QED BY <1>1, AsksAreNumbered, PTL

\* The drawn view's gate never opens in silence: what has opened since the view was drawn was asked about, or the answer
\* in hand looks past it, whatever timers, hidden pages, lists and answers cross.
THEOREM TheGateIsHeard == Spec => []OpenGateIsNotSilent
<1>1. GateInv => OpenGateIsNotSilent
  BY DEF GateInv, Answered, Handled, OpenGateIsNotSilent
<1>2. Spec => []GateInv
  BY AsksAreNumbered, GateStarts, GateStep, PTL DEF Spec
<1> QED BY <1>1, <1>2, PTL
=============================================================================

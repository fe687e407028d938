-------------------------------- MODULE UpNext --------------------------------
(***************************************************************************)
(* js/esm/src/UpNext.tsx: what closes or starts in the next hours.         *)
(*                                                                         *)
(* useUpNext() asks get_soon only when the gate of the drawn view opens,   *)
(* keeps one timer to its next opening, and keeps the last ask's answer of *)
(* each view.  UpNext, the region, re-evaluates the answer each minute.    *)
(*                                                                         *)
(* Time is counted in minutes.  An answer travels within its minute, so    *)
(* the browser's clock, set from it, is the server's.                      *)
(***************************************************************************)
EXTENDS Integers, FiniteSets, FiniteSetsExt

CONSTANTS
    Items,         \* the counted items: a set of [id, view, kind, time, lasts]
    HORIZON,       \* calendar_soon
    IMMINENT,      \* IMMINENT_S
    ENDOFDAY,      \* today's last instant
    ROWS, LIMIT,   \* the rows drawn at most, and get_soon's cut
    AWAY,          \* AWAY_MS
    TMAX, MaxAsks, Moves   \* bounds: the last instant, the asks sent, the viewer's moves

ASSUME LimitAssumption == LIMIT \in Nat \ {0} /\ ROWS \in 1 .. LIMIT /\ HORIZON \in Nat \ {0}

Views == {"learning", "teaching"}
ASSUME ItemsAssumption ==
    /\ Items \subseteq [id : Nat, view : Views, kind : {"todo", "class", "event"}, time : Nat, lasts : Nat]
    /\ ENDOFDAY \in Nat

None == -1
PASSED == -1
CALM == 0
SOON == 1
IMMINENT_LEVEL == 2
NOW == 3

VARIABLES
    now,           \* the clock
    done,          \* the items submitted or closed since they were counted
    entry,         \* the server's gate lists, per view, which get_soon prunes
    source,        \* the counts or the strip's payload on its way, and how many are still to come
    hook,          \* useUpNext's state and refs, below
    clock,         \* the last evaluation the strip rendered; None until the first
    minute,        \* the region's own minute: [from, at]
    timer,         \* the instant the one timer fires, or None
    hiddenat,      \* when the page was hidden; None while it is shown
    due,           \* the timer fired while the page was hidden
    view,          \* the view drawn
    since,         \* history: when it was drawn, None when it has been from the start
    hiddenrank,    \* the rung the region is hidden at, or None
    left           \* the viewer's moves left

vars == <<now, done, entry, source, hook, clock, minute, timer, hiddenat, due, view, since, hiddenrank, left>>

---------------------------------------------------------------------------
\* The gate, and the ladder.

NoLists == [upcoming |-> {}, events |-> {}]
gateOpens(lists, at) ==
    \/ \E t \in lists.upcoming : t >= at /\ t <= at + HORIZON
    \/ \E e \in lists.events : e[1] <= at + HORIZON /\ e[2] > at

\* The instants at which a view's gate opens.
openings(lists) == {t - HORIZON : t \in lists.upcoming \cup {e[1] : e \in lists.events}}

\* Mutant: an event does not set the timer.
gateNextDeadline(lists, at) ==
    LET ahead == {t - HORIZON : t \in lists.upcoming} \ (0 - HORIZON .. at) IN IF ahead = {} THEN None ELSE Min(ahead)
gateNext(lists, at) ==
    LET ahead == {o \in openings(lists) : o > at} IN IF ahead = {} THEN None ELSE Min(ahead)

soonLevel(item, at) ==
    IF item.lasts > 0 /\ item.time <= at /\ at < item.time + item.lasts THEN NOW
    ELSE IF item.time < at THEN PASSED
    ELSE IF item.time > at + HORIZON THEN CALM
    ELSE IF item.time - at <= IMMINENT /\ ~(item.view = "teaching" /\ item.kind = "class") THEN IMMINENT_LEVEL
    ELSE SOON

Before(i, j) == i.time < j.time \/ (i.time = j.time /\ i.id < j.id)
First(n, items) == {i \in items : Cardinality({j \in items : Before(j, i)}) < n}

\* What an answer draws at an instant: its first rows past calm, their highest rung, and how many are left.
NoAnswer == [seq |-> 0, at |-> 0, items |-> {}, more |-> 0]
evaluateSoon(answer, at) ==
    LET open == {i \in answer.items : soonLevel(i, at) # PASSED}
        rows == First(ROWS, {i \in open : soonLevel(i, at) > CALM})
    IN [rows |-> rows, level |-> Max({CALM} \cup {soonLevel(i, at) : i \in rows}),
        later |-> Cardinality(open) - Cardinality(rows) + answer.more]
shapeOf(drawn) == <<Cardinality(drawn.rows), drawn.level>>

---------------------------------------------------------------------------
\* The service: what is open now, cut at LIMIT, and the entry's gate pruned by it.

Counted(v) == [upcoming |-> {i.time : i \in {j \in Items : j.view = v /\ j.kind # "event"}},
               events |-> {<<i.time, i.time + i.lasts>> : i \in {j \in Items : j.view = v /\ j.kind = "event"}}]
RangeEnd == Max({ENDOFDAY, now + HORIZON})
OpenNow(v) == {i \in Items \ done : /\ i.view = v /\ i.time <= RangeEnd
                                     /\ IF i.kind = "event" THEN i.time + i.lasts > now ELSE i.time >= now}
\* Left out: an entry lists UPCOMING_LIMIT times at most (CalendarEntry has that cut), and a teaching answer cut at
\* FUTURE_LIMIT rows prunes no deadline.
pruned(lists, v) ==
    [upcoming |-> {t \in lists.upcoming : t < now \/ t > RangeEnd \/ \E i \in OpenNow(v) : i.time = t},
     events |-> {e \in lists.events : e[2] > now}]
get_soon(v, seq) ==
    [seq |-> seq, at |-> now, items |-> First(LIMIT, OpenNow(v)), more |-> Max({0, Cardinality(OpenNow(v)) - LIMIT})]

---------------------------------------------------------------------------
\* useUpNext(): [gates, considered, seq, out, answers, settled, failed, retrying, refilled], and two histories:
\* when each view was last asked for, and how many refills went out since the clock or the viewer last moved.

ask(h, v, at) ==
    LET mine == h.seq[v] + 1
    IN [h EXCEPT !.seq[v] = mine, !.out = @ \cup {[view |-> v, seq |-> mine, reply |-> NoAnswer, lists |-> NoLists]},
                 !.askedat[v] = at]

\* Read one view's gate, and ask only when it opens.  Lists not in yet ask nothing.
consider(h, v, at) ==
    IF ~h.known THEN h
    ELSE LET read == [h EXCEPT !.considered[v] = TRUE]
         IN IF gateOpens(h.gates[v], at) THEN ask(read, v, at) ELSE [read EXCEPT !.settled[v] = TRUE]

\* Ask once more through the gate when an answer cut at its limit has its last item inside the horizon.
refill(h, v, at) ==
    LET answer == h.answers[v]
        last == Max({i.time : i \in answer.items})
    IN IF Cardinality(answer.items) < LIMIT \/ answer.more = 0 \/ h.refilled = <<v, answer.seq>> \/ last > at + HORIZON
       THEN h
       ELSE [consider([h EXCEPT !.refilled = <<v, answer.seq>>], v, at) EXCEPT !.refills = @ + 1]

\* The strip's evaluation: at its own clock, and now until it has one.
At(c) == IF c = None THEN now ELSE c
Active(h, v) == h.answers[v].items # {}
Shown == hiddenat = None
Room == \A v \in Views : hook.seq[v] < MaxAsks
Spend == left > 0 /\ left' = left - 1
SetTimer(v) == timer' = IF hook'.known THEN gateNext(hook'.gates[v], now) ELSE None

\* The region's minute: the refill, and the strip's clock when its rows' count or its level moved.
advance(h, at) ==
    [hook |-> refill(h, view, at),
     clock |-> IF shapeOf(evaluateSoon(h.answers[view], at)) # shapeOf(evaluateSoon(h.answers[view], At(clock)))
               THEN at ELSE clock]
Minute(h, at) ==
    IF Active(h, view)
    THEN \E m \in {advance(h, at)} : hook' = m.hook /\ clock' = m.clock /\ minute' = [from |-> At(clock), at |-> at]
    ELSE hook' = h /\ UNCHANGED <<clock, minute>>

---------------------------------------------------------------------------
\* A minute goes by.  An answer under way has landed by then.
Tick ==
    /\ now < TMAX /\ Room
    /\ \A q \in hook.out : q.reply = NoAnswer
    /\ source.served = FALSE
    /\ now' = now + 1
    /\ \E h \in {[hook EXCEPT !.refills = 0]} :
        IF Shown THEN Minute(h, now') ELSE hook' = h /\ UNCHANGED <<clock, minute>>
    /\ UNCHANGED <<done, entry, source, timer, hiddenat, due, view, since, hiddenrank, left>>

\* The instant the drawn view's gate opens: asked now if the page is shown, else once it is.
TimerFires ==
    /\ Room
    /\ IF Shown THEN hook' = consider(hook, view, now) /\ UNCHANGED due ELSE due' = TRUE /\ UNCHANGED hook
    /\ SetTimer(view)
    /\ UNCHANGED <<now, done, entry, source, clock, minute, hiddenat, view, since, hiddenrank, left>>

\* The counts, then maybe the strip's payload, are read on the server, and come with its gate lists.
SourceServed ==
    /\ ~source.served /\ source.left > 0
    /\ source' = [served |-> TRUE, lists |-> entry, left |-> source.left - 1]
    /\ UNCHANGED <<now, done, entry, hook, clock, minute, timer, hiddenat, due, view, since, hiddenrank, left>>

\* Lists that say what the hook holds ask nothing again.
SourceArrives ==
    /\ source.served /\ Room
    /\ LET news == {v \in Views : ~hook.known \/ hook.gates[v] # source.lists[v]}
           read == [hook EXCEPT !.known = TRUE, !.gates = source.lists,
                                !.considered = [v \in Views |-> @[v] /\ v \notin news]]
       IN /\ hook' = IF read.considered[view] THEN read ELSE consider(read, view, now)
          /\ IF news = {} THEN UNCHANGED timer ELSE SetTimer(view)
    /\ source' = [source EXCEPT !.served = FALSE, !.lists = [v \in Views |-> NoLists]]
    /\ UNCHANGED <<now, done, entry, clock, minute, hiddenat, due, view, since, hiddenrank, left>>

\* A view drawn for the first time reads its own gate; its answer, seen again, may be refilled.
ChooseView ==
    /\ Room /\ Spend
    /\ view' = (IF view = "learning" THEN "teaching" ELSE "learning") /\ since' = now
    /\ LET read == IF hook.considered[view'] THEN hook ELSE consider(hook, view', now)
       IN hook' = refill([read EXCEPT !.refills = 0], view', At(clock))
    /\ SetTimer(view')
    /\ UNCHANGED <<now, done, entry, source, clock, minute, hiddenat, due, hiddenrank>>

---------------------------------------------------------------------------
\* One ask: the service answers it, and it lands.

SoonServed(q) ==
    /\ q \in hook.out /\ q.reply = NoAnswer
    /\ LET kept == pruned(entry[q.view], q.view)
       IN /\ entry' = [entry EXCEPT ![q.view] = kept]
          /\ hook' = [hook EXCEPT !.out = (@ \ {q}) \cup {[q EXCEPT !.reply = get_soon(q.view, q.seq), !.lists = kept]}]
    /\ UNCHANGED <<now, done, source, clock, minute, timer, hiddenat, due, view, since, hiddenrank, left>>

\* Mutant: whichever answer lands last is kept.
isLastAny(q) == TRUE

isLast(q) == hook.seq[q.view] = q.seq

Settle(h, v) == [h EXCEPT !.retrying = FALSE, !.settled[v] = TRUE]

\* The last ask's answer: its pruned lists, its failure over, the clock read again.  Then the effect of a new
\* answer, which may ask once more.
SoonLands(q) ==
    /\ q \in hook.out /\ q.reply # NoAnswer /\ Room
    /\ LET h == [hook EXCEPT !.out = @ \ {q}]
           kept == [Settle(h, q.view) EXCEPT !.gates[q.view] = q.lists, !.answers[q.view] = q.reply,
                                             !.failed = IF @ = q.view THEN "none" ELSE @]
       IN IF isLast(q)
          THEN hook' = refill(kept, view, now) /\ clock' = now /\ SetTimer(view)
          ELSE hook' = h /\ UNCHANGED <<clock, timer>>
    /\ UNCHANGED <<now, done, entry, source, minute, hiddenat, due, view, since, hiddenrank, left>>

\* Mutant: a failure leaves the retry as it was.
settleFailed(h, v) == [h EXCEPT !.settled[v] = TRUE]

Failed(h, v) == Settle(h, v)

SoonFails(q) ==
    /\ q \in hook.out
    /\ LET h == [hook EXCEPT !.out = @ \ {q}]
       IN hook' = IF isLast(q) THEN [Failed(h, q.view) EXCEPT !.failed = q.view] ELSE h
    /\ UNCHANGED <<now, done, entry, source, clock, minute, timer, hiddenat, due, view, since, hiddenrank, left>>

---------------------------------------------------------------------------
\* The viewer, here and elsewhere.

HidePage ==
    /\ Shown /\ hiddenat' = now /\ Spend
    /\ UNCHANGED <<now, done, entry, source, hook, clock, minute, timer, due, view, since, hiddenrank>>

\* Shown again: the ladder at once, the gate when the page was away long or its timer fired meanwhile, and the
\* region's minute.
ShowPage ==
    /\ ~Shown /\ hiddenat' = None /\ Room
    /\ LET asks == due \/ now - hiddenat >= AWAY
           h == [hook EXCEPT !.refills = 0]
           read == IF asks THEN consider(h, view, now) ELSE h
       IN hook' = IF Active(read, view) THEN refill(read, view, now) ELSE read
    /\ due' = FALSE /\ clock' = now /\ minute' = [from |-> now, at |-> now]
    /\ UNCHANGED <<now, done, entry, source, timer, view, since, hiddenrank, left>>

\* The region's Try again, or tier 1's, for the failure of the view drawn.
Retry ==
    /\ hook.failed = view /\ Room /\ Spend
    /\ hook' = ask([hook EXCEPT !.retrying = TRUE], view, now)
    /\ UNCHANGED <<now, done, entry, source, clock, minute, timer, hiddenat, due, view, since, hiddenrank>>

Submit(i) ==
    /\ i \notin done /\ i.kind # "event" /\ done' = done \cup {i} /\ Spend
    /\ UNCHANGED <<now, entry, source, hook, clock, minute, timer, hiddenat, due, view, since, hiddenrank>>

\* What the region draws: at its own minute while that is the strip's, else at the strip's clock.
RegionNow == IF minute.from = At(clock) THEN minute.at ELSE At(clock)
Drawn == evaluateSoon(hook.answers[view], RegionNow)
Hidden == hiddenrank # None /\ Drawn.level <= hiddenrank

\* Hide the region at its rung, or show it again.
Hide ==
    /\ Spend /\ hook.failed # view /\ Drawn.rows # {}
    /\ hiddenrank' = IF Hidden THEN None ELSE Drawn.level
    /\ UNCHANGED <<now, done, entry, source, hook, clock, minute, timer, hiddenat, due, view, since>>

---------------------------------------------------------------------------
Init ==
    /\ now = 0 /\ done = {} /\ entry = [v \in Views |-> Counted(v)]
    /\ source = [served |-> FALSE, lists |-> [v \in Views |-> NoLists], left |-> 2]
    /\ hook = [gates |-> [v \in Views |-> NoLists], known |-> FALSE, considered |-> [v \in Views |-> FALSE],
               seq |-> [v \in Views |-> 0], out |-> {}, answers |-> [v \in Views |-> NoAnswer],
               settled |-> [v \in Views |-> FALSE], failed |-> "none", retrying |-> FALSE,
               refilled |-> <<"none", 0>>, askedat |-> [v \in Views |-> None], refills |-> 0]
    /\ clock = None /\ minute = [from |-> None, at |-> None] /\ timer = None /\ hiddenat = None /\ due = FALSE
    /\ view \in Views /\ since = None /\ hiddenrank = None
    /\ left = Moves

\* The timer fires a second after the gate opens: nothing else happens in that second.
TimerDue == timer # None /\ timer <= now
Others ==
    \/ Tick \/ SourceServed \/ SourceArrives \/ ChooseView
    \/ \E q \in hook.out : SoonServed(q) \/ SoonLands(q) \/ SoonFails(q)
    \/ HidePage \/ ShowPage \/ Retry \/ Hide \/ \E i \in Items : Submit(i)
Next == IF TimerDue THEN TimerFires ELSE Others
Spec == Init /\ [][Next]_vars

---------------------------------------------------------------------------

\* The gate of the drawn view never opens in silence: once its lists are in, the view has been read through it, and
\* what opened it since it was drawn has been asked about or is in the answer in hand.  A view left while its gate
\* opens is not read again when it is drawn: that is outside the claim.
OpenGateIsNotSilent ==
    (hook.known /\ ~TimerDue /\ Shown) =>
        /\ hook.considered[view]
        /\ \A o \in openings(hook.gates[view]) :
              (o > since /\ o > 0 /\ o <= now /\ gateOpens(hook.gates[view], now)) =>
                  \/ hook.askedat[view] >= o
                  \/ hook.answers[view].seq > 0 /\ o + HORIZON <= Max({ENDOFDAY, hook.answers[view].at + HORIZON})

\* Each view's answer in hand is that of its last ask when it came (LastAsk): two asks of one view under way at
\* once never cross, and a failure takes nothing away.
Asks == INSTANCE LastAsk WITH Slots <- Views, asked <- hook.seq, kept <- [v \in Views |-> hook.answers[v].seq]
LastAskWins == Asks!Spec

\* The retry's button refuses presses only while the ask it waits for is under way.
RetryNeverSticks == hook.retrying => \E q \in hook.out : q.seq = hook.seq[q.view]

\* Nothing else polls: while the clock and the viewer stand still, an answer is refilled once.
NothingElsePolls == hook.refills <= 1
=============================================================================

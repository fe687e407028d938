------------------------------ MODULE Calendar ------------------------------
(***************************************************************************)
(* js/esm/src/calendar.ts: the sums the calendar strip draws from, with no *)
(* state of their own.  A day is its index in the window; an instant is an *)
(* integer; a scroll position is counted in half days, so that a row holds *)
(* days partly in view.  Weights are doubled, which makes MIN_WEIGHT whole *)
(* numbers, and a value is a fraction [n, d]: settle() scales by a ratio.  *)
(***************************************************************************)
EXTENDS Integers, Sequences, SequencesExt, FiniteSets, FiniteSetsExt

CONSTANTS
    DAYS,          \* how many days the window has, numbered from 0
    TODAY,         \* today's index
    WEEK_DAYS,     \* how many days after tomorrow are "this week"
    WEEK,          \* the days an arrow moves by, once or several times: seven
    WHOLE,         \* how many days are wholly in view at once
    SLACK,         \* 1 when half a day more fits, else 0
    PAST           \* how many days before today are in view at home

ASSUME WindowAssumption ==
    /\ DAYS \in Nat /\ TODAY \in 0 .. DAYS - 1
    /\ WHOLE \in 1 .. DAYS - 1 /\ SLACK \in {0, 1} /\ PAST \in Nat /\ WEEK_DAYS \in Nat /\ WEEK \in Nat \ {0}

Days == 0 .. DAYS - 1
Views == {"learning", "teaching"}
Filters == {"all", "todo", "events"}

\* The kinds in drawing order, those still open, and the weight each adds at least.
LEARNING_KINDS == <<"gradedsoon", "graded", "todo", "late", "event", "done">>
TEACHING_KINDS == <<"gradesoon", "grade", "class", "event">>
MIN_WEIGHT == [gradedsoon |-> 9, graded |-> 3, todo |-> 2, late |-> 2, event |-> 1, done |-> 0,
               gradesoon |-> 7, grade |-> 3, class |-> 1]
kindsOf(view) == IF view = "teaching" THEN TEACHING_KINDS ELSE LEARNING_KINDS

---------------------------------------------------------------------------
\* The row's geometry.

MaxScroll == 2 * (DAYS - WHOLE) - SLACK
homeIndex == Max({0, TODAY - PAST})
stepOf == WEEK * Max({1, WHOLE \div WEEK})
whollyInView(day, scroll) == 2 * day >= scroll /\ 2 * (day + 1) <= scroll + 2 * WHOLE + SLACK
leastScroll(day, scroll) ==
    IF whollyInView(day, scroll) THEN scroll
    ELSE IF 2 * day < scroll THEN 2 * day
    ELSE Max({0, 2 * (day - WHOLE + 1)})

---------------------------------------------------------------------------
\* The closed line's periods, and the days a press on one opens.

PERIOD_KEYS == <<"late", "today", "tomorrow", "week", "later">>
periodSpan(key) ==
    CASE key = "late" -> 0 .. TODAY - 1
      [] key = "today" -> {TODAY}
      [] key = "tomorrow" -> {TODAY + 1}
      [] key = "week" -> TODAY + 2 .. TODAY + 1 + WEEK_DAYS
      [] OTHER -> TODAY + 2 + WEEK_DAYS .. DAYS - 1

PeriodOf(day) ==
    CASE day < TODAY -> "late"
      [] day = TODAY -> "today"
      [] day = TODAY + 1 -> "tomorrow"
      [] day > TODAY + 1 -> IF day <= TODAY + 1 + WEEK_DAYS THEN "week" ELSE "later"

\* The kinds a period counts: the past's only what is still open, the teaching view's by the grading source.
PeriodKinds(key, view, past, grading) ==
    IF view = "teaching"
    THEN IF key = "late" THEN IF grading THEN {"grade", "gradesoon"} ELSE {}
         ELSE IF grading THEN ToSet(TEACHING_KINDS) ELSE {"class", "event"}
    ELSE IF key = "late" THEN IF past THEN {"late"} ELSE {}
         ELSE {"gradedsoon", "graded", "todo", "late", "event"}
CountOfKinds(counts, kinds) == SumFunctionOnSet(counts, kinds \cap DOMAIN counts)

\* One period from the payload's days: what it counts, its busiest day's step, and the courses of its days.
onePeriod(days, key, kinds) ==
    LET counted == {d \in Days : PeriodOf(d) = key /\ CountOfKinds(days[d].counts, kinds) > 0}
    IN [count |-> SumFunction([d \in counted |-> CountOfKinds(days[d].counts, kinds)]),
        step |-> Max({0} \cup {days[d].step : d \in counted}),
        courses |-> UNION {days[d].courses : d \in counted}]
periodsOf(days, view, past, grading) ==
    LET keys == {k \in ToSet(PERIOD_KEYS) : k = "late" => PeriodKinds("late", view, past, grading) # {}}
    IN [periods |-> [k \in keys |-> onePeriod(days, k, PeriodKinds(k, view, past, grading))],
        waiting |-> IF grading /\ view = "teaching" THEN SumFunction([d \in Days |-> days[d].waiting]) ELSE 0]

---------------------------------------------------------------------------
\* A day's counters.

shownKinds(view, filter) ==
    LET kinds == ToSet(kindsOf(view))
    IN CASE filter = "events" -> {"event"}
         [] filter = "todo" -> kinds \ {"event", "class"}
         [] OTHER -> kinds

Units(n) == [n |-> n, d |-> 1]
Plus(v, n) == [n |-> v.n + n * v.d, d |-> v.d]
Exceeds(v, w) == v.n * w.d > w.n * v.d

fromPayload(day) == [counts |-> day.counts, weight |-> day.weight, settled |-> FALSE]

\* What the open kinds weigh at least, and what the kinds that only inform do.
openWeight(counts) ==
    SumFunction([k \in DOMAIN counts \ {"event", "class"} |-> counts[k] * MIN_WEIGHT[k]])
informative(counts) == CountOfKinds(counts, {"event", "class"}) * MIN_WEIGHT["event"]
OpenPart(day) == LET open == Plus(day.weight, -informative(day.counts)) IN IF open.n < 0 THEN Units(0) ELSE open

\* Mutant: items that leave nothing open leave the open part as it was.
settleKeepingTheWeight(before, counts) ==
    LET openbefore == OpenPart(before)
        minbefore == openWeight(before.counts)
        minafter == openWeight(counts)
        openafter == IF minbefore > 0 /\ minafter > 0 THEN [n |-> openbefore.n * minafter, d |-> openbefore.d * minbefore]
                     ELSE openbefore
    IN [counts |-> counts, weight |-> Plus(openafter, informative(counts)), settled |-> TRUE]

\* The counters from the day's own items: the open part scaled by what the items leave of it.
settle(before, counts) ==
    LET openbefore == OpenPart(before)
        minbefore == openWeight(before.counts)
        minafter == openWeight(counts)
        openafter == IF minbefore > 0 THEN [n |-> openbefore.n * minafter, d |-> openbefore.d * minbefore] ELSE Units(minafter)
    IN [counts |-> counts, weight |-> Plus(openafter, informative(counts)), settled |-> TRUE]

\* A day's score: by relevance a weight, else the number of its open things.
score(day, view, filter, relevance) ==
    LET shown == shownKinds(view, filter)
    IN IF ~relevance THEN Units(CountOfKinds(day.counts, shown \ {"done"}))
       ELSE CASE filter = "events" -> Units(CountOfKinds(day.counts, {"event"}))
              [] filter = "todo" -> OpenPart(day)
              [] OTHER -> day.weight

\* The heat step: by relevance the thresholds 2, 4 and 8 of the weight, here doubled; else the count, at most 4.
step(value, relevance) ==
    IF value.n <= 0 THEN 0
    ELSE IF ~relevance THEN Min({4, value.n})
    ELSE 1 + Cardinality({t \in {4, 8, 16} : value.n >= t * value.d})

\* The marks under a day: the first kind present of each group, in MARK_SLOTS places, the last one counting the rest.
MARK_SLOTS == 4
MARK_PRIORITY == [learning |-> << <<"gradedsoon", "graded">>, <<"late">>, <<"todo">>, <<"event">>, <<"done">> >>,
                  teaching |-> << <<"gradesoon", "grade">>, <<"class">>, <<"event">> >>]
marks(counts, kinds, view) ==
    LET groups == MARK_PRIORITY[view]
        present(i) == {j \in DOMAIN groups[i] : groups[i][j] \in kinds /\ counts[groups[i][j]] > 0}
        drawn == {i \in DOMAIN groups : present(i) # {}}
        nth(n) == CHOOSE i \in drawn : Cardinality({h \in drawn : h < i}) = n - 1
        fit == IF Cardinality(drawn) <= MARK_SLOTS THEN Cardinality(drawn) ELSE MARK_SLOTS - 1
    IN [kinds |-> [n \in 1 .. fit |-> groups[nth(n)][Min(present(nth(n)))]], more |-> Cardinality(drawn) - fit]
=============================================================================

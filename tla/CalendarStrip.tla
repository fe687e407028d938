---------------------------- MODULE CalendarStrip ----------------------------
(***************************************************************************)
(* js/esm/src/CalendarStrip.tsx, open: the row of days, its scroll, the    *)
(* day that opens when pointed at, focused or pressed, the card's items    *)
(* and their requests, and the press on the closed line that opens it.     *)
(*                                                                         *)
(* A gesture runs the whole of its handlers: the focus it moves, the       *)
(* scroll it starts, the timers it clears.  What the browser does later is *)
(* an action of its own: a scroll under way, a timer, an answer.           *)
(* Which reads the strip sends, open or closed, is Block's.                *)
(***************************************************************************)
EXTENDS Calendar

CONSTANTS
    NARROW,        \* whether the block is narrow: a day then opens by a press only
    Payload,       \* [Views -> [Days -> [counts, weight, step, courses, waiting]]]: get_strip's answer
    DayItems,      \* [Views -> [Days -> [counts, truncated]]]: what get_day answers
    Gestures       \* bound: how many gestures the viewer makes

\* strip.php add() and weight(): a day counts its view's kinds, and weighs what each item does: an event or a class
\* deadline exactly its kind's minimum, nothing what is done, and every other kind its minimum at least.
ASSUME PayloadAssumption ==
    \A v \in Views : \A d \in Days :
        LET day == Payload[v][d]
            least == openWeight(day.counts) + informative(day.counts)
        IN /\ day.counts \in [ToSet(kindsOf(v)) -> Nat] /\ day.weight.n \in Nat /\ day.weight.d \in Nat \ {0}
           /\ day.weight.n >= least * day.weight.d
           /\ openWeight(day.counts) = 0 => day.weight.n = least * day.weight.d

\* calendar.ts settle(): a day's items are counted by its view's kinds.
ASSUME DayItemsAssumption == \A v \in Views : \A d \in Days : DayItems[v][d].counts \in [ToSet(kindsOf(v)) -> Nat]

None == -1                       \* no day, no timer, no scroll under way
Toggle == -2                     \* where the keyboard is, when on no day: the strip's toggle,
Card == -4                       \* the open day's card,
Control == -5                    \* another control of the strip,
Away == -6                       \* or outside it
Body == -7                       \* the control it was on left the page
Targets == ToSet(PERIOD_KEYS) \cup {"grading"}
NoTarget == "none"
Keys == Views \X Days

VARIABLES
    view,          \* the view drawn
    open,          \* whether the strip is open
    loaded,        \* the row's answer: "unasked", "asked" or "in"
    hover, pinned, \* the day pointed at, and the day pressed
    lit,           \* the days a press on the closed line lit
    periodtarget,  \* what a press on the closed line will open the row on
    opentimer,     \* the day the hover intent will open
    closetimer,    \* whether leaving the strip is about to close the day
    row,           \* [at, self, glide, target, hold]: the scroll, and the strip's own one
    focus,         \* where the keyboard is
    held,          \* [entry, asked, out]: the days asked for, and the requests out
    writing,       \* the last preference write, while it is out: "open", "close", "other"
    left           \* the gestures left

stripvars == <<view, open, loaded, hover, pinned, lit, periodtarget, opentimer, closetimer, row, focus, held, writing, left>>

openday == IF pinned # None THEN pinned ELSE hover
Whole_(day, r) == whollyInView(day, r.at)
Drawn == open /\ loaded = "in"
Spend == left > 0 /\ left' = left - 1

\* Where the keyboard may be once the card leaves: a failed day's notice hands it to the toggle, the rest drop it.
FailedCard == openday # None /\ held.entry[<<view, openday>>] = "error"
Lost == IF focus # Card THEN {focus} ELSE {Body} \cup (IF FailedCard THEN {Toggle} ELSE {})

---------------------------------------------------------------------------
\* The days' requests.

total(v, d) == CountOfKinds(Payload[v][d].counts, DOMAIN Payload[v][d].counts)

\* Ask for a day unless it was asked for: an answer or a request out stands, a failure does not.
askDay(h, k, prefetch) ==
    [entry |-> [h.entry EXCEPT ![k] = "loading"], asked |-> h.asked \cup {k},
     out |-> h.out \cup {[key |-> k, prefetch |-> prefetch]}]

\* The day after, only when the strip counted something on it, and never one more.
prefetchAfter(h, k) ==
    LET next == <<k[1], k[2] + 1>>
    IN IF next \notin Keys \/ next \in h.asked THEN h
       ELSE IF total(next[1], next[2]) > 0 THEN askDay(h, next, FALSE) ELSE h

ensure(h, k, prefetch) ==
    IF k \notin h.asked THEN askDay(h, k, prefetch)
    ELSE IF prefetch THEN prefetchAfter(h, k) ELSE h

DayAnswers(q) ==
    /\ q \in held.out
    /\ LET in == [held EXCEPT !.entry[q.key] = "ready", !.out = @ \ {q}]
       IN held' = IF q.prefetch THEN prefetchAfter(in, q.key) ELSE in
    /\ UNCHANGED <<view, open, loaded, hover, pinned, lit, periodtarget, opentimer, closetimer, row, focus,
                   writing, left>>

DayFails(q) ==
    /\ q \in held.out
    /\ held' = [entry |-> [held.entry EXCEPT ![q.key] = "error"], asked |-> held.asked \ {q.key}, out |-> held.out \ {q}]
    /\ UNCHANGED <<view, open, loaded, hover, pinned, lit, periodtarget, opentimer, closetimer, row, focus,
                   writing, left>>

\* The card's Try again: the notice leaves with the error, and hands the keyboard to the toggle.
RetryDay ==
    /\ Drawn /\ FailedCard /\ Spend
    /\ held' = ensure(held, <<view, openday>>, FALSE)
    /\ focus' = Toggle
    /\ UNCHANGED <<view, open, loaded, hover, pinned, lit, periodtarget, opentimer, closetimer, row, writing>>

---------------------------------------------------------------------------
\* The scroll.

\* Scroll the row itself, flagged until it settles, so that it closes no card.
scrollRow(r, to, smooth) ==
    LET goal == Max({0, Min({MaxScroll, to})})
    IN IF goal = r.at THEN r
       ELSE [at |-> IF smooth THEN r.at ELSE goal, self |-> TRUE, glide |-> IF smooth THEN goal ELSE None,
             target |-> goal, hold |-> TRUE]

\* Show a day wholly, by the least; nothing when it already is.
reveal(r, d) == IF Whole_(d, r) THEN r ELSE scrollRow(r, leastScroll(d, r.at), TRUE)

\* The viewer scrolled: a hovered day closes, a pinned one once it is no longer wholly in view, and the
\* keyboard goes back to the day when it was in the card.
userScrolled(r) ==
    /\ opentimer' = None /\ lit' = {}
    /\ IF pinned = None THEN hover' = None /\ focus' \in Lost /\ UNCHANGED pinned
       ELSE IF Whole_(pinned, r) THEN UNCHANGED <<hover, pinned, focus>>
       ELSE /\ hover' = None /\ pinned' = None
            /\ focus' = IF focus = Card THEN pinned ELSE focus

\* A trackpad, touch or the wheel.  It takes the row from the strip's own scroll, whose flag only its end lowers.
UserScroll(to) ==
    /\ Drawn /\ to # row.at /\ Spend
    /\ row' = [row EXCEPT !.at = to, !.glide = None]
    /\ IF row.self THEN UNCHANGED <<opentimer, lit, hover, pinned, focus>> ELSE userScrolled(row')
    /\ UNCHANGED <<view, open, loaded, periodtarget, closetimer, held, writing>>

\* One step of the animation of the strip's own scroll.
Glide ==
    /\ row.glide # None
    /\ LET at == IF row.glide > row.at THEN row.at + 1 ELSE row.at - 1
       IN row' = [row EXCEPT !.at = at, !.glide = IF at = @ THEN None ELSE @]
    /\ UNCHANGED <<view, open, loaded, hover, pinned, lit, periodtarget, opentimer, closetimer, focus, held,
                   writing, left>>

\* Mutant: the end of the scroll lowers the flag, and the hold waits for a render nothing asks for.
endSelfScrollKeepingTheHold ==
    /\ row.self /\ row.glide = None
    /\ row' = [row EXCEPT !.self = FALSE]
    /\ UNCHANGED <<view, open, loaded, hover, pinned, lit, periodtarget, opentimer, closetimer, focus, held,
                   writing, left>>

\* scrollend, or its timer: the strip's own scroll is over, and once that is rendered the hold goes.
endSelfScroll ==
    /\ row.self /\ row.glide = None
    /\ row' = [row EXCEPT !.self = FALSE, !.hold = FALSE]
    /\ UNCHANGED <<view, open, loaded, hover, pinned, lit, periodtarget, opentimer, closetimer, focus, held,
                   writing, left>>

---------------------------------------------------------------------------
\* Opening the row: where it is placed, and what a press on the closed line opens it on.

\* Any kind of the view: what is done holds a day too, and so does an event that is past.
HoldsSome(d) == total(view, d) > 0
WaitingDays == {d \in Days : view = "teaching" /\ Payload[view][d].waiting > 0}

\* Mutant: the row is always placed at home.
periodPlanFromHome(key) ==
    LET span == IF key = "grading" THEN WaitingDays ELSE periodSpan(key) \cap Days
        work == {d \in span : HoldsSome(d)}
    IN [span |-> span, start |-> IF key = "late" THEN 0 ELSE homeIndex,
        target |-> IF key = "grading" \/ work = {} THEN IF span = {} THEN TODAY ELSE Min(span)
                   ELSE IF key = "late" THEN Max(work) ELSE Min(work)]

\* What a period opens the strip on: its days, the day the keyboard lands on and the first day in view.
periodPlan(key) ==
    LET span == IF key = "grading" THEN WaitingDays ELSE periodSpan(key) \cap Days
        work == {d \in span : HoldsSome(d)}
        target == IF key = "grading" \/ work = {} THEN IF span = {} THEN TODAY ELSE Min(span)
                  ELSE IF key = "late" THEN Max(work) ELSE Min(work)
        home == homeIndex
    IN [span |-> span, target |-> target,
        start |-> IF key = "late" THEN 0
                  ELSE IF (key = "grading" /\ span = {}) \/ whollyInView(target, 2 * home) THEN home ELSE target]

NewScroller == [row EXCEPT !.at = 0, !.glide = None]   \* a new scroller, at the window's start

\* The placing before paint, then the period that opened the strip: its days lit, the keyboard on its day,
\* quietly, and today's or tomorrow's card pinned.
Place(key, days, at) ==
    IF key = NoTarget
    THEN /\ row' = scrollRow(NewScroller, 2 * homeIndex, FALSE)
         /\ hover' = days.hover /\ pinned' = days.pinned /\ lit' = days.lit /\ focus' = at
         /\ UNCHANGED <<held, periodtarget>>
    ELSE LET plan == periodPlan(key)
             pins == key \in {"today", "tomorrow"}
         IN /\ row' = scrollRow(NewScroller, 2 * plan.start, FALSE)
            /\ lit' = plan.span /\ focus' = plan.target /\ periodtarget' = NoTarget
            /\ hover' = IF pins THEN plan.target ELSE days.hover
            /\ pinned' = IF pins THEN plan.target ELSE days.pinned
            /\ held' = IF pins THEN ensure(held, <<view, plan.target>>, FALSE) ELSE held

\* The strip is open with the keyboard at a place: the row is placed if its answer is in, else its skeleton shows.
Shown(key, days, at) ==
    /\ open' = TRUE /\ loaded' = (IF loaded = "unasked" THEN "asked" ELSE loaded)
    /\ IF loaded = "in" THEN Place(key, days, at)
       ELSE /\ hover' = days.hover /\ pinned' = days.pinned /\ lit' = days.lit /\ focus' = at /\ periodtarget' = key
            /\ UNCHANGED <<row, held>>

\* The strip is closed: its row leaves the page, with the keyboard if it was there.
Hidden(days, at) ==
    /\ open' = FALSE /\ UNCHANGED loaded
    /\ row' = [row EXCEPT !.at = 0, !.glide = None]
    /\ hover' = days.hover /\ pinned' = days.pinned /\ lit' = days.lit
    /\ IF at = Card THEN focus' \in Lost ELSE focus' = IF at \in Days THEN Body ELSE at
    /\ UNCHANGED <<held, periodtarget>>

AsTheyAre == [hover |-> hover, pinned |-> pinned, lit |-> lit]
Closed == [hover |-> None, pinned |-> None, lit |-> {}]

\* The row's answer: the strip asked for it when it opened, and keeps it whatever it is by now.
StripAnswers ==
    /\ loaded = "asked" /\ loaded' = "in"
    /\ IF open THEN Place(periodtarget, AsTheyAre, focus)
       ELSE UNCHANGED <<row, hover, pinned, lit, focus, held, periodtarget>>
    /\ UNCHANGED <<view, open, opentimer, closetimer, writing, left>>

\* OPEN_DELAY_MS is over before the viewer reaches the line a failed write brought back.
Reached == ~open => opentimer = None

\* The toggle, remembered at once; closing closes the day first.
setOpenRemembered ==
    /\ Reached /\ Spend
    /\ IF open THEN Hidden(Closed, Toggle) /\ opentimer' = None /\ writing' = "close"
       ELSE Shown(periodtarget, AsTheyAre, Toggle) /\ writing' = "open" /\ UNCHANGED opentimer
    /\ UNCHANGED <<view, closetimer>>

isEmpty(line) == line.waiting = 0 /\ \A key \in DOMAIN line.periods : line.periods[key].count = 0

\* The cells of the closed line: the waiting count where there is one, and the periods unless it counts nothing.
CalendarLine(v, past, grading) ==
    LET line == periodsOf(Payload[v], v, past, grading)
    IN (IF v = "teaching" /\ grading THEN {"grading"} ELSE {}) \cup (IF isEmpty(line) THEN {} ELSE DOMAIN line.periods)

Cells == [v \in Views |-> UNION {CalendarLine(v, past, grading) : past \in BOOLEAN, grading \in BOOLEAN}]

\* A period of the closed line, or its grading cell.
openPeriod(key) ==
    /\ ~open /\ Reached /\ Spend
    /\ key \in Cells[view]
    /\ Shown(key, AsTheyAre, Toggle) /\ writing' = "open"
    /\ UNCHANGED <<view, opentimer, closetimer>>

\* The write fails while it is the last one: a toggle is put back, and nothing else.
WriteFails ==
    /\ writing # "none" /\ writing' = "none"
    /\ CASE writing = "open" /\ open -> Hidden(AsTheyAre, focus)
         [] writing = "close" /\ ~open -> Shown(periodtarget, AsTheyAre, focus)
         [] OTHER -> UNCHANGED <<open, loaded, row, hover, pinned, lit, focus, held, periodtarget>>
    /\ UNCHANGED <<view, opentimer, closetimer, left>>

WriteLands ==
    /\ writing # "none" /\ writing' = "none"
    /\ UNCHANGED <<view, open, loaded, hover, pinned, lit, periodtarget, opentimer, closetimer, row, focus, held, left>>

---------------------------------------------------------------------------
\* The day's gestures.

pressClears(d) == opentimer' = None

Visible(d) == 2 * (d + 1) > row.at /\ 2 * d < row.at + 2 * WHOLE + SLACK

\* Where the keys take the keyboard from a day: a day or a step away, or to the window's ends.
keyDay(d) == {Max({0, Min({DAYS - 1, d + n})}) : n \in {1, -1, stepOf, -stepOf}} \cup {0, DAYS - 1}

\* A day taking focus opens as hovering would, unless a day is pinned or the row is the narrow one.
FocusOpens == pinned = None /\ ~NARROW

\* The keyboard comes to a day: by Tab to the tab stop, a day in view, or from another day by the keys.
focusDay(d) ==
    /\ Drawn /\ focus # d /\ Spend
    /\ (Whole_(d, row) \/ (focus \in Days /\ d \in keyDay(focus)))
    /\ focus' = d /\ row' = reveal(row, d)
    /\ IF FocusOpens THEN opentimer' = None /\ hover' = d /\ held' = ensure(held, <<view, d>>, TRUE)
       ELSE UNCHANGED <<opentimer, hover, held>>
    /\ UNCHANGED <<view, open, loaded, pinned, lit, periodtarget, closetimer, writing>>

\* A press pins the day, or unpins the pinned one.  It focuses the day first, which reveals it.
pressDay(d, touch) ==
    /\ Drawn /\ (Visible(d) \/ (focus = d /\ ~touch)) /\ Spend
    /\ LET asked == IF focus # d /\ FocusOpens THEN ensure(held, <<view, d>>, ~touch) ELSE held
           over == IF focus # d /\ FocusOpens THEN d ELSE hover
       IN /\ row' = reveal(row, d) /\ focus' = d /\ lit' = {} /\ pressClears(d)
          /\ IF pinned = d
             THEN pinned' = None /\ hover' = (IF NARROW THEN None ELSE over) /\ held' = asked
             ELSE pinned' = d /\ hover' = d /\ held' = ensure(asked, <<view, d>>, ~touch)
    /\ UNCHANGED <<view, open, loaded, periodtarget, closetimer, writing>>

\* The pointer enters a day: only one wholly in view opens, after the hover intent's delay.
enterDay(d) ==
    /\ Drawn /\ Visible(d) /\ Spend /\ closetimer' = FALSE
    /\ IF pinned # None THEN UNCHANGED <<opentimer, hover, focus>>
       ELSE IF ~Whole_(d, row)
       THEN opentimer' = None /\ hover' = None /\ focus' \in Lost
       ELSE opentimer' = (IF hover = d THEN None ELSE d) /\ UNCHANGED <<hover, focus>>
    /\ UNCHANGED <<view, open, loaded, pinned, lit, periodtarget, row, held, writing>>

\* The hover intent's delay is over.  A card the keyboard is in changes under it, and may lose it.
HoverOpens ==
    /\ opentimer # None /\ opentimer' = None
    /\ IF Whole_(opentimer, row) /\ Drawn
       THEN /\ hover' = opentimer /\ held' = ensure(held, <<view, opentimer>>, TRUE)
            /\ focus' \in IF pinned = None THEN Lost \cup {focus} ELSE {focus}
       ELSE UNCHANGED <<hover, held, focus>>
    /\ UNCHANGED <<view, open, loaded, pinned, lit, periodtarget, closetimer, row, writing, left>>

\* The pointer leaves the strip and its card: an unpinned day closes after a delay, unless it comes back.
leaveStrip ==
    /\ Drawn /\ Spend /\ opentimer' = None /\ closetimer' = (closetimer \/ pinned = None)
    /\ UNCHANGED <<view, open, loaded, hover, pinned, lit, periodtarget, row, focus, held, writing>>
enterStrip ==
    /\ Drawn /\ closetimer /\ closetimer' = FALSE /\ Spend
    /\ UNCHANGED <<view, open, loaded, hover, pinned, lit, periodtarget, opentimer, row, focus, held, writing>>
LeftCloses ==
    /\ closetimer /\ closetimer' = FALSE /\ hover' = None
    /\ focus' \in IF pinned = None THEN Lost ELSE {focus}
    /\ UNCHANGED <<view, open, loaded, pinned, lit, periodtarget, opentimer, row, held, writing, left>>

\* The keyboard goes into the card, or out of the strip, where an unpinned day closes.
enterCard ==
    /\ Drawn /\ openday # None /\ focus # Card /\ focus' = Card /\ Spend
    /\ UNCHANGED <<view, open, loaded, hover, pinned, lit, periodtarget, opentimer, closetimer, row, held, writing>>
blurStrip ==
    /\ Drawn /\ focus \notin {Away, Body} /\ focus' = Away /\ Spend
    /\ IF pinned # None THEN UNCHANGED <<opentimer, hover>> ELSE opentimer' = None /\ hover' = None
    /\ UNCHANGED <<view, open, loaded, pinned, lit, periodtarget, closetimer, row, held, writing>>

\* Mutant: Escape closes the day and forgets the keyboard in its card.
EscapeForgets(day) == IF focus = Card THEN Body ELSE focus

EscapeTo(day) == IF focus = Card \/ pinned # None THEN day ELSE focus

\* Escape, or the card's close button: the day closes, and takes the keyboard when it was in the card.
keyStrip ==
    /\ Drawn /\ openday # None /\ focus \notin {Away, Body} /\ Spend
    /\ hover' = None /\ pinned' = None /\ opentimer' = None /\ focus' = EscapeTo(openday)
    /\ UNCHANGED <<view, open, loaded, lit, periodtarget, closetimer, row, held, writing>>

---------------------------------------------------------------------------
\* The row's controls.  Each closes the day; a pointer's press takes the keyboard with it.

CloseAll == hover' = None /\ pinned' = None /\ opentimer' = None /\ lit' = {}

\* An arrow, wide blocks only: from where the strip's own scroll is going, so that presses add up.
page(direction) ==
    /\ Drawn /\ ~NARROW /\ Spend
    /\ LET from == IF row.self THEN row.target ELSE row.at
       IN /\ IF direction < 0 THEN from > 0 ELSE from < MaxScroll
          /\ row' = scrollRow(row, 2 * ((from + 1) \div 2 + direction * stepOf), TRUE)
    /\ CloseAll /\ focus' = Control
    /\ UNCHANGED <<view, open, loaded, periodtarget, closetimer, held, writing>>

\* Today: home again, where it refuses.
goHome ==
    /\ Drawn /\ row.at # Min({MaxScroll, 2 * homeIndex}) /\ Spend
    /\ row' = scrollRow(row, 2 * homeIndex, TRUE)
    /\ CloseAll /\ focus' = Control
    /\ UNCHANGED <<view, open, loaded, periodtarget, closetimer, held, writing>>

\* The map: a press jumps or drags, the day closes, and the release lands on the nearest day or on the end.
dragMap(to) ==
    /\ Drawn /\ ~NARROW /\ Spend
    /\ LET nearest == 2 * ((to + 1) \div 2)
           lands == IF MaxScroll - to < nearest - to \/ nearest > MaxScroll THEN MaxScroll ELSE nearest
       IN row' = scrollRow([row EXCEPT !.at = to, !.glide = None], lands, TRUE)
    /\ CloseAll /\ focus' \in Lost
    /\ UNCHANGED <<view, open, loaded, periodtarget, closetimer, held, writing>>

\* Up next's "open this day".
openToday ==
    /\ Drawn /\ Spend
    /\ opentimer' = None /\ lit' = {} /\ row' = reveal(row, TODAY)
    /\ pinned' = TODAY /\ hover' = TODAY /\ focus' = TODAY
    /\ held' = ensure(held, <<view, TODAY>>, FALSE)
    /\ UNCHANGED <<view, open, loaded, periodtarget, closetimer, writing>>

\* The other view, remembered; the day closes, for its items are the view's.
chooseView ==
    /\ Spend
    /\ view' = (IF view = "teaching" THEN "learning" ELSE "teaching")
    /\ CloseAll /\ focus' = Control /\ writing' = "other"
    /\ UNCHANGED <<open, loaded, periodtarget, closetimer, row, held>>

\* The filter, the relevance switch or Up next's hide: a write of the same value, which carries the strip along.
remember ==
    /\ writing # "other" /\ writing' = "other" /\ focus' = Control /\ Spend
    /\ UNCHANGED <<view, open, loaded, hover, pinned, lit, periodtarget, opentimer, closetimer, row, held>>

---------------------------------------------------------------------------
StripInit ==
    /\ view \in Views /\ open \in BOOLEAN /\ loaded = (IF open THEN "asked" ELSE "unasked")
    /\ hover = None /\ pinned = None /\ lit = {} /\ periodtarget = NoTarget
    /\ opentimer = None /\ closetimer = FALSE
    /\ row = [at |-> 0, self |-> FALSE, glide |-> None, target |-> None, hold |-> FALSE]
    /\ focus = Away
    /\ held = [entry |-> [k \in Keys |-> "none"], asked |-> {}, out |-> {}]
    /\ writing = "none" /\ left = Gestures

DayGesture(d) == focusDay(d) \/ enterDay(d) \/ \E touch \in BOOLEAN : pressDay(d, touch)
ViewerActs ==
    \/ \E d \in Days : DayGesture(d)
    \/ \E to \in 0 .. MaxScroll : UserScroll(to) \/ dragMap(to)
    \/ \E key \in Targets : openPeriod(key)
    \/ setOpenRemembered \/ RetryDay \/ leaveStrip \/ enterStrip \/ enterCard \/ blurStrip \/ keyStrip
    \/ page(1) \/ page(-1) \/ goHome \/ openToday \/ chooseView \/ remember
Answered == StripAnswers \/ WriteFails \/ WriteLands \/ \E q \in held.out : DayAnswers(q) \/ DayFails(q)
StripNext == ViewerActs \/ Answered \/ Glide \/ endSelfScroll \/ HoverOpens \/ LeftCloses

\* The browser's own: an animation goes on, a scroll ends, a timer fires.  The viewer's hand and the network owe nothing.
StripSpec == StripInit /\ [][StripNext]_stripvars
FairSpec == StripSpec /\ WF_stripvars(Glide) /\ WF_stripvars(endSelfScroll) /\ WF_stripvars(HoverOpens) /\ WF_stripvars(LeftCloses)

---------------------------------------------------------------------------
\* What the row draws.

counted(v, d) ==
    LET base == fromPayload(Payload[v][d])
    IN IF held.entry[<<v, d>>] = "ready" /\ ~DayItems[v][d].truncated THEN settle(base, DayItems[v][d].counts) ELSE base

\* The day from today on that scores highest, the first of equals; None when nothing ahead scores.
needleOf(scores) ==
    LET best == {d \in TODAY .. DAYS - 1 : scores[d].n > 0 /\ \A e \in TODAY .. DAYS - 1 : ~Exceeds(scores[e], scores[d])}
    IN IF best = {} THEN None ELSE Min(best)

---------------------------------------------------------------------------

\* A pinned card that closes under the keyboard gives it back to its day, whichever of Escape, the close button or
\* the viewer's scroll closed it.  The map's drag, a pointer's, does not.
PinnedCardGivesTheKeyboardBack ==
    [][(focus = Card /\ pinned # None /\ pinned' = None /\ open' /\ focus' # Control
            /\ ~\E to \in 0 .. MaxScroll : dragMap(to))
            => focus' = pinned]_stripvars

\* A press on a period of the closed line that counts something lights every thing it counted, and takes the keyboard
\* past none of it: to a lit day of the view's kinds with no counted day before it (after it, for Late), and in view,
\* but for Late, which starts at the window's start.  Nothing counted need be on that day itself: it is the first (the
\* last) holding anything, done work and past events included (periodPlan), where CalendarStrip.tsx:1192-1193 and
\* docs/adr/014-calendar-strip.md:880-881 say work.
CountedOn(d, key, grading) == CountOfKinds(Payload[view][d].counts, PeriodKinds(key, view, TRUE, grading))
PressOpensWhatWasCounted ==
    [][\A key \in ToSet(PERIOD_KEYS) :
        (~open /\ loaded = "in" /\ openPeriod(key)) \/ (periodtarget = key /\ open /\ StripAnswers) =>
            \A grading \in BOOLEAN :
            LET line == periodsOf(Payload[view], view, TRUE, grading).periods
            IN key \in DOMAIN line /\ line[key].count > 0 =>
                /\ SumFunction([d \in lit' |-> total(view, d)]) >= line[key].count
                /\ line[key].courses \subseteq UNION {Payload[view][d].courses : d \in lit'}
                /\ focus' \in lit' /\ HoldsSome(focus')
                /\ \A d \in lit' : CountedOn(d, key, grading) > 0 => IF key = "late" THEN d <= focus' ELSE focus' <= d
                /\ key # "late" => whollyInView(focus', row'.at)]_stripvars

\* The strip's own scroll ends, and lets go of what it holds of the page.
ScrollHoldIsLetGo == row.hold ~> ~row.hold

\* Whatever answers have come, in whatever order, and whatever they left done, the needle stands on a day with something
\* of what the filter shows still to do: its column has a tint, and a mark of that work comes first.  It is missing
\* only when no day ahead holds any.
Ahead == TODAY .. DAYS - 1
NeedlePointsAtWork ==
    Drawn =>
    \E counts \in {[d \in Ahead |-> counted(view, d)]} :
    \A filter \in Filters :
        LET kinds == shownKinds(view, filter)
            work == [d \in Ahead |-> CountOfKinds(counts[d].counts, kinds \ {"done"})]
        IN \A relevance \in BOOLEAN :
           \E scores \in {[d \in Ahead |-> score(counts[d], view, filter, relevance)]} :
              LET needle == needleOf(scores)
              IN IF needle = None THEN \A d \in Ahead : work[d] = 0
                 ELSE /\ work[needle] > 0 /\ step(scores[needle], relevance) > 0
                      /\ Head(marks(counts[needle].counts, kinds, view).kinds) \in kinds \ {"done"}

=============================================================================

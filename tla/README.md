# A formal model of block_compass

block_compass is a Moodle block that lists a learner's courses by relevance, with a calendar strip
above them and a line of courses open for enrolment. It is built for very large sites: nearly
everything it shows comes from a cache on the server, and the page is a set of state machines that
ask for parts of it, retry, supersede each other and hand the keyboard around. Two kinds of thing go
wrong in such a program: a cache entry that outlives the fact it tells, and an answer, a timer or a
press that meets a page which has moved on. This directory models both.

`PROJECT.json` lists the components, the runs, the hazards, the theorems and, for every definition,
the source lines it models. Paths below are relative to the repository; `J/` is `js/esm/src/` and
`L/` is `classes/local/`.

## The system

| Component | State it keeps | Operations | What is hard |
|---|---|---|---|
| Inventory (`L/inventory.php`) | one cache entry per user: enrolment rows and a stamp of seven aggregates | `get`, `fill`, `stamp`, `delete` | no event drops it: the stamp alone must tell every write of core; two statements per fill; whole-second timestamps |
| Open catalogue (`L/catalogue.php`, `catalogue_cache.php`) | one key for the site | `get`, `build`, `until`, delete by nine events | a build reads four times; windows open and close with no event |
| Open-courses line (`L/news.php`, `news_cache.php`) | one entry per viewer, with the catalogue's digest | `get`, `counted`, `listable`, `groups` | depends on the catalogue, the category layer and the viewer's enrolments, each read at its own time |
| Calendar entry (`L/calendar_cache.php`, `L/calendar/*.php`) | one entry per user: sets, counts, opened days, gate lists | build, `complete`, `set_day`, `revalidated`, prune, delete | four services and several tabs write the whole entry back over each other and over the observer's delete |
| Course and category layers (`L/course_meta.php`, `category_meta.php`) | shared keys without a TTL | `get_many`, `set_from_rows`, `delete`, `delete_descendants`, `forget_until_marked` | hooks that come before their effect, effects without an event, a tree whose paths lag |
| Progress cache, custom field layers (`L/details.php`, `course_fields.php`, `filter_fields.php`) | a key per user and course; values per course | compute, fill, purge | a computation that crosses the event that deletes its key |
| Pre-warming (`L/prewarm.php`) | a cursor, a window and a timestamp in the configuration | `run` in batches under a time budget | stops and deaths between two writes, users that cannot be warmed |
| Explore, server (`L/explore.php`) | none: a page is read under a cursor | `build`, `rows`, `search` | a page is cut from a list that changed since the page before it |
| Block and reads (`J/Block.tsx`, `repository.ts`) | tier 1's payload, the turn the other parts wait for, the reads out | load, details, retry, refresh, star, explore | loads, star writes and retries that overlap; one "Reconnecting" line for all of them |
| Calendar strip (`J/CalendarStrip.tsx`, `calendar.ts`, `CalendarLine.tsx`, `CalendarCard.tsx`) | view, open day, scroll, the days' items | scroll, point, press, keys, open and close | its own scroll against the viewer's, two timers, answers for days left behind, the keyboard in a card that closes |
| Up next (`J/UpNext.tsx`) | the gate's timer, the last answer per view | gate, ask, retry, hide, tick | a gate that opens while the page is hidden, the lists travel or another view is drawn |
| Open-courses line, client (`J/OpenCourses.tsx`) | tooltip, popover, hidden | read, hide, open, close | it is redrawn elsewhere, in another shape or not at all under the keyboard |
| Calendar preference (`J/calendarpref.ts`) | one value with four members | merge and write, put back | three writers of one value, writes that fail after they landed |
| Explore, client (`J/Explore.tsx`, `Group.tsx`, `RowList.tsx`, `Archive.tsx`) | the payload, a page state per group, criteria, hits | load, page, search, star, archive, clear, fold | requests of four kinds in flight while the criteria they were asked under change |
| Filter line (`J/FilterLine.tsx`, `FilterPanel.tsx`, `filter.ts`, `OrganiseMenu.tsx`) | fold, search, layers, preview, focus | every control by press and by key | controls that their own press removes; numbers that promise what a press will show |
| Row details (`J/rowdetails.ts`) | pending ids, the interval, the request out | `want`, `drop`, `observe`, `flush`, `retry` | elements that come and go while their request is out |
| Everything else | none, or a single setting | select, order, validate, render | little; see *Not modelled* |

On the server a request calls down (a calendar build asks the inventory, the line asks the catalogue
and then the category layer), core's writers raise events that `classes/observer.php` and
`classes/hook_callbacks.php` turn into deletes, and two requests write the same key. On the page,
`Block.tsx` starts the strip's and the line's reads when tier 1 settles, every read goes through
`repository.ts`, and the strip and the line share one preference.

What makes the components correct:

- an entry that is confirmed or fresh tells what the database says, up to a stated delay, whatever
  was written while it was built, and what no event announces is caught by some other rule;
- the sweep passes nobody by and always ends;
- of several asks for one thing the last one wins, and what waits is told so and stops waiting;
- what is drawn was asked for under what is now chosen, is complete where it claims to be, and a
  number next to a control is what its press shows;
- what the viewer wrote is what the server keeps, and the keyboard is never dropped.

## The modules

Each `MC*.tla` module instantiates a module for TLC; each `.cfg` is one run. A definition whose
comment begins with "Mutant" or "A variant" is a plausible wrong version of the one after it, used to
see that the properties notice.

### Inventory, InventoryProofs

One learner: the tables (`db`), `time()` in whole seconds, the sequence of enrolment ids, the cache key and
the requests. `Lookup`, `Hit`, `StaleHit` are `inventory::get()`; `FillRows`, `FillNoRows`,
`Restamp`, `Store` are `fill()` with one step per statement (it reads the stamp separately only when it
found no rows); `PrewarmVisit` enters `fill()` directly as the task does; `Drop` is `delete()`, the TTL
or a purge. Core's writers (`Enrol`, `UpdateEnrolment`, `Unenrol`, `UpdateInstance`, `Visit`, `Star`,
`Unstar`, and `BlindWrite`, the status update of a plugin that sets no timestamp) are taken from what
`docs/adr/002-inventory-stamp.md` cites, and marked external.

`NoPerpetualRefill`, `HitIsExact` and `HitKeepsEnrolments` say that the stamp is neither too eager nor
too lazy. `HitIsExact` asks that the entry be *settled* (read after the second of the last write it
saw), *whole* (not stored as empty under another stamp) and not followed by a blind write: the three
things the code cannot tell.

Bounds: two courses with an instance each, two requests, three writes, two seconds. Three writes are a
removal and an addition that restore a count, after a first row; two seconds tell "same second" from "later".

### Catalogue, News, NewsProofs

`Catalogue` is the site's entry. A build is `ReadCandidates`, `ReadUnlisted`, `ReadNextChange`,
`Store`; a change of a course, an enrolment instance, a category or a category's listing is a writer that
commits and is observed in either order (observers are internal: they run inside an enclosing
transaction). `Configure` changes the band with no event. `News` extends it with one viewer: the entry
and its digest, the category layer, the viewer's enrolments (created without an observed event, removed
with one). One run checks both. What core lists for the viewer is `Sees`, fixed: `listable()` takes a category's
visibility from the entries of the layer (`L/news.php:200-208`, `225-229`), which is folded into it. Names, kinds and the order of `groups()` are left out.

Bounds: one course in a category that may move between two groups, one request, one change of the site
and one of the viewer. A window opens at one second and closes at the next, the band loses the course at
the midnight of the third, `MAX_AGE` and the TTL are two seconds: each may be the first to end an entry.
With one course the limit never cuts the candidates, and with one setting `Configure` changes nothing:
those two are modelled and not exercised.

### CalendarEntry, CalendarProofs

One user's entry and the services `get_strip`, `get_strip_counts`, `get_day`, `get_soon`, each request a chain of
one step per statement. What decides the sets is three versions: the enrolments (which the inventory stamp
tells), the groups (which `revalidated()` compares) and the roles (which only the observer tells). Every
write of the code writes the whole entry, and so do `Store`, `StoreWhole`, `SetDay`, `StorePruned`.
The teaching and both views, deferred grading, kinds and labels, and what the statements select beyond the
deadline are left out; the inventory's rows and stamp are one read here, as `Inventory` treats their races. The counted
statement knows only completion, so an item that is submitted and not completed stays in the gate list until Up next prunes it
(`Submit`, `RecordCompletion`). The list holds the first `UPCOMING_LIMIT` distinct times; a build is taken to be under
the 2000 rows of `FUTURE_LIMIT`.

`MCCalendarEntry` plays one half at a time (`half`): the access changes around counts and opened days, or items are
submitted and reverted around strips and Up next. Two requests, one change of access, two items, one due at
once and one a day later, and a list of one time, so that the cut happens.

### SharedLayers, SharedLayersProofs

The two shared layers, and core's writers as the sequences of their statements, events and hooks: an edit; a
course marked for deletion (hook, then two statements without an event), or removed, or left alone when a
listener aborts; a category moved; a category dissolved (`delete_move()`: per child its new parent and its event,
then all paths, then the removal). A course's entry holds its category and its context path
(`place`): a course may change category, and a category's move or dissolution rewrites the path of every course below. `Forget` and `ForgetAgain` are the two deletes of `forget_until_marked()`.

A fill may store, after the delete of a key, a row it read before. Nothing in the code prevents it or bounds it.
Such entries are marked `late`, those read while the paths were behind the tree `torn`, and the properties say
what holds of all others. A process killed before its shutdown functions run is not modelled.
Bounds: two requests and two changes over one course, in the last category of the branch, and a tree of a root with a branch of two and a second root, so
that a move has a child and a grandchild, and two moves can follow each other.

### Prewarm, ListProofs

One run at a time (cron's lock), each configuration write a step. A run may stop after any user
(the budget), die anywhere, meet a user whose `warm()` throws, and find its window gone; users visit, are
suspended and return. The setting `enable_prewarm` is taken as on. Three users with a batch of three, one
broken, one death, one edit, two days: a full batch, a short one and an empty one all occur.

### RowDetails, ListProofs

`J/rowdetails.ts`: the browser's tasks are the actions: `Mount` and `Unmount` of a row's element, `Report` and
`Deliver` of the IntersectionObserver (reports wait in a queue and may be about an element that is gone or
answered), `Flush` of the interval, `Answer`, `Retry`, `Leave`. What a callback does for each of its reports is a function of
how many it has been through (`DeskAfter`). Two rows and one id per call, so that a row
waits behind another; three elements, so that a row is replaced; one scroll, one retry.

### LastAsk, an abstract specification

What every read of the page promises: any number of asks may be out, what is kept is the answer of the
last one, and an answer a later ask has overtaken changes nothing. Two detailed modules are shown to
implement it: Block (`Tier1 == INSTANCE LastAsk WITH ...`, property `LastLoadWins`: tier 1's payload) and UpNext
(`Asks`, property `LastAskWins`: the answer of each view); both refinements are also proved.

### Block = Reads + CalendarPref + OpenCourses, BlockProofs

`Reads` is `repository.ts`: a read's attempts, its sleep before the next one, the batch of two reads that
share their first attempt, and the listener behind the "Reconnecting" line. `CalendarPref` is the value the strip and
the line write, with the writes out in order; one that fails was refused, or was applied and its answer lost.
`OpenCourses` is the line as the viewer uses it, tooltip, timer, popover and focus; `LineFollows` is what becomes of
that when the page redraws the line. `Block` composes them with tier 1 (`load`, the details in batches, stars, refresh, Try
again, leaving for tier 3 and back, where tier 3 writes stars of its own) and with the reads of the strip and of the line, whose effects run in `Render`: a step
of the model is a handler, the render and the effects of that render. What the open row does is CalendarStrip's.
The guard against a second write is each star button's, and a course drawn in the favourites strip too has two buttons, so two writes of
one course may be out. A course is in Continue or in New and the two are one
button here: a refresh that moves it from one to the other keeps that button busy, where the page draws a new one.

Bounds: two cards in batches of one, one retry per read, up to four failing attempts, up to two presses, over eight
configurations (calendar on or off, line hidden or on, strip open or closed). The gestures on the line are played in
two of them and the stars in two (up to three presses, a card drawn twice, one course starred already), on their own.

### Calendar, CalendarStrip, CalendarProofs

`Calendar` is `calendar.ts` as operators: the window, the geometry of the row, the periods, the merge of a day's
counts with its items (`settle`), the score, the heat step and the marks. Weights are fractions, scroll positions half days.
What the server's weights keep to (`strip.php`, `weight()` and `add()`) is `PayloadAssumption`, which TLC evaluates on the run's payload.
`CalendarStrip` is the open strip: a gesture runs the whole of its handlers (the focus it moves, the scroll it
starts, the timers it clears); what the browser does later is an action of its own (`Glide`, `endSelfScroll`, `HoverOpens`,
`LeftCloses`, an answer). It includes the closed line's cells and what a press on one opens the row on.

Bounds: five days of two views with two and a half in view, so that a day may be out of view, cut or wholly in view;
one day holds an event and finished work only, and a period's press does land on it;
three gestures, which is enough to pin a day, put the keyboard in its card and take it away. Only the wide block is
run (`NARROW` is FALSE).

### UpNext, UpNextProofs

The gate and its one timer (`gateOpens`, `gateNext`), the lists on their way, asks and answers in any order,
failures, the retry, a hidden page and its return, the two views, the hide and its rung, the region's minute. Time is
in minutes. Bounds: five items over four minutes, three asks, two moves of the viewer.

### Explore, ExploreProofs

Tier 3 in both modes. A request is sent, served (the server reads or writes, `ServerInventory`, `ServerPage`, `ServerSearch` from
`L/explore.php`) and answered, or it fails; between any two of those the reader presses something, another tab opens or
archives a course, a star is toggled in tier 1. A React effect is part of the step whose render triggers it (`Rendered`). To raise
a sequence number is to take the requests in flight out of `net`.
Bounds: three courses, two groups, pages of one row, three presses, one fault. Three presses change what is asked,
start a write and change it back; pages of one row make a group of two need two pages.

### FilterLine, ListProofs

The line at each of its folds (the step that only drops a word is the first): a press is the document's pointerdown, the focus leaving one control for another, and the
click's handler; `Render` is what every commit runs afterwards, the layout effects and the preview's. The widths that choose
the fold are not modelled: any fold may come at any time. A list cut from a sort (`suggest`, `courses`) is written as the
members of a set in the order of a relation: the n-th is the one n - 1 others come before. What `suggest()` ranks a filter by and
how `rankCourses()` finds a text in a name are constants, `Rank` and `Match`, since they depend on labels and names. Bounds: three rows that differ in every fact, one text,
one field value, with stars toggled on one row.

## The runs

| Run | Properties | What it shows |
|---|---|---|
| `inventory` | `NoPerpetualRefill`, `HitIsExact`, `HitKeepsEnrolments` | the stamp tells every write, through races of two fills |
| `news` | `UnracedEntryIsExact`, `RacesEndWithMaxAge`, `AnswerFollowsTheCatalogue`, `WithdrawalIsSeen` | an entry no change overlapped is exact at every second, a raced one ends, and the viewer's line follows |
| `calendar` | `NewDayFromCurrentSets`, `UncrossedEntryHoldsTheAccess`, `WholeStripCountsOnce`, `GateKeepsWhatIsOpen` | days, access, the two parts of a strip and the gate list, over two tabs |
| `shared_layers` | `CourseEntriesFollowTheRows`, `NoLiveCourseIsHidden`, `CategoryEntriesFollowTheTree` | the shared layers follow core's writers |
| `prewarm` | `NobodyIsSkipped`, `SweepReachesEveryone`, `SweepsComplete` | nobody is skipped, sweeps complete |
| `row_details` | `RequestedOnce`, `ViewedRowIsAnswered` | a row in view is asked for once, and answered |
| `explore` | `NoCourseTwice`, `OpenGroupIsAskedFor`, `RowsAnswerTheCriteria`, `DrawnGroupIsWhole`, `StarsFollowTheServer` | pages, searches, loads, stars and archive writes in flight together |
| `filterline` | `CountsKeepTheirPromise`, `PreviewTellsThePress`, `KeyboardIsKept` | every control at every fold |
| `strip` | `NeedlePointsAtWork`, `PressOpensWhatWasCounted`, `PinnedCardGivesTheKeyboardBack`, `ScrollHoldIsLetGo` | the open row, its scroll, its day and its needle |
| `upnext` | `OpenGateIsNotSilent`, `RetryNeverSticks`, `LastAskWins` | the gate is not passed over, the last ask wins |
| `upnext_refill` | `NothingElsePolls` (violated) | more items inside the horizon than an answer lists: `get_soon` is asked in a loop while nothing changes |
| `block` | `ReconnectingLineIsTrue`, `WaitsHaveAReadOut`, `StarsAgree`, `StoredIsThePage`, `LastLoadWins`, `LineKeepsTheKeyboard` | one page of the block, its reads, its preference and its line |

Deadlock checking is off only where a bound on writes, gestures, mounts or presses lets a model stop.

### Fairness

Liveness is claimed of three things only, and nobody but the machine owes anything. `SweepsComplete` takes `WF_vars(Run)`:
cron keeps starting an enabled task, and a run that is neither stopped nor dead goes on; deaths are bounded, as nothing can be
promised if every run dies. `ViewedRowIsAnswered` takes the browser's own steps and the end of a request (`repository.ts`
gives up after two retries). `ScrollHoldIsLetGo` takes the browser's animation, the end of a scroll and timers. No viewer has to
scroll, press or stay, and no answer has to be a success.

### What the properties leave out, and what was observed

A property that had to make an exception says so in its definition; these are the exceptions, and other things the model
shows that no property claims.

- Inventory: an enrolment between the two statements of a `fill()` that found no rows (`L/inventory.php:187`) stores an
  empty list under a stamp that confirms it; `docs/adr/002-inventory-stamp.md` does not foresee it. A star moved from one course to another
  within the second of the read leaves both favourite aggregates unchanged.
- Calendar entry: `set_day()`, `complete()` and Up next's write-back (`L/calendar_cache.php:237`) restore an entry the
  observer has dropped, against what `classes/observer.php:170-171` says; the old roles then decide until the TTL.
  The gate is not opened for a deadline that `UPCOMING_LIMIT` other times came before (`L/calendar/strip.php:802-805`), nor for one opened again after it was
  submitted, until the next rebuild; `docs/adr/016` accepts the first (F3).
- Shared layers: dissolving a category drops each child's entry before the paths are rebuilt, and the moved category's own
  entry only (`classes/observer.php:139-145`). The move of a category leaves the context path in its courses' entries as it was until the course
  is updated, which `docs/adr/001-two-layer-cache.md:447-458` accepts: `CourseEntriesFollowTheRows` allows an older path for that reason only.
  A row stored after the delete of its key outlives the change.
- Row details: `retry()` (`J/rowdetails.ts:281`) does not watch a failed row whose element was replaced.
- Block: a refresh that supersedes a load whose details are out, and then fails, leaves cards loading under the notice
  until Try again. A load that supersedes one with failed details clears their notice. A star is wrong until the next payload or answer
  (`unsure`) when a load crossed its write, its answer was lost, another write of the course overtook it, or tier 3 wrote it and the refresh failed.
  A card whose course the viewer lost before its batch was read keeps its loading text with no read out, against `J/Block.tsx:307-313`: `get_card_details`
  drops the id without a word (`classes/external/get_card_details.php:41-43`) and `load()` patches only what came (`J/Block.tsx:329-340`). `retry()` starts the calendar's turn even if its load fails.
- Preference: a toggle put back after a failed write does not put the shared value back; a hide whose write fails while a
  later one carrying it lands stays hidden in the store (`missed`).
- Open-courses line: a change of shape or of place takes the popover's opener away with the keyboard; Escape then returns
  the keyboard to a detached button; a tooltip about to open may open over a pill that left.
- Strip: a press on a day during an arrow's animation, or the viewer's scroll during the strip's own, may leave the pinned day out of
  view. A failed open write closes the strip and keeps the day open. A period pressed on the closed line survives a strip closed before its
  row arrived. A period's press lights all it counted, but lands on the first day (the last, for Late) that holds anything: a day
  with only finished work or a past event may come first, against `J/CalendarStrip.tsx:1192-1193` and `docs/adr/014-calendar-strip.md:880-881`, and
  `PressOpensWhatWasCounted` only says that nothing counted was passed over. The map's drag closes a pinned card under the keyboard, and an
  unpinned card is closed by the pointer with the keyboard in it. For Late, which starts at the window's start, the day may be out of view.
- Up next: one failure slot serves two views, and a view left while its gate opens is not asked about on return.
  The cut of a teaching answer (`truncated`, `L/calendar/soon.php:176-180`) is left out.
- Explore: in full mode an empty flat list with archived matches draws neither rows nor "No course matches"; pages asked in paged
  mode and kept by a reload in full mode leave the archive narrowed by an older chip. A failed group that is drawn again
  open is reset by the browser's toggle event, and a search opens groups with one too; both are left out. Two stars of tier 1 in one render would lose
  the first (`J/Explore.tsx:1065-1071`); each is a step of its own here. `StarsFollowTheServer` leaves out courses whose star was written while an answer about it was out (`muddled`).
- Filter line: a fold that hides the focused control drops the keyboard. After a fold within its fourth step, the focus `fit()` noted is given
  back when the search next opens or closes (`J/FilterLine.tsx:573-582`); that is left out.

## What is proved

TLAPS proves the theorems below for all values of the constants under named assumptions, which TLC evaluates on each run. Each proof
module states an inductive invariant (its sections say what each part is for), proves that the initial states have it and that every
action keeps it, and takes the properties from it. TLC was given each invariant before it was proved. What the invariants add to
the properties, and why the properties alone are not inductive:

- `InventoryProofs`: `TypeCorrect`, `NoNeedlessRefill`, `HitsAreExact`, `HitsKeepEnrolments`. Assumed: finitely many courses, each
  instance has a course, the bounds are numbers. That a confirmed entry is exact says something of two moments, the
  read and the hit, so it needs an invariant about everything that may have happened in between. `LineageInv` says of each entry held
  anywhere: every row of the tables is in the entry or has an id above its `maxid`; a row in both is as it was or carries a
  modification time not before the read; a star is in the entry or is as new. With it, equal stamps leave no room for a difference:
  a new id would raise `maxid`, a lost row lower the count, a changed one raise a maximum. `DerivedIsStamp` shows the
  stamp derived in PHP to be the statement's.
- `NewsProofs`: `EntriesAreExact`, `RacesEnd`, `AnswersFollowTheRows`, `WithdrawalsAreSeen`, for any number of requests, courses, windows and
  settings. Assumed: course ids are numbers and finitely many, durations positive, windows made of instants. The arithmetic comes first: what is offered
  at a second changes at no second before the `until` that a build computes (`BuiltIsExact`), though midnights and windows are numbers of
  different kinds. The invariant then says of each entry, cached or in a hand, what it still tells: with no
  change overlapping it, the database until a commit; with one, it is no younger than that change. A build carries
  the same promise in parts, one per statement it has made.
  The proof corrected this property: with two requests in flight an entry may be built and stored by one between the clock
  reading of the other and its lookup, so a raced entry is bounded from the instant the answer was given (`AnsweredAt`), not from the request's `now`.
- `CalendarProofs`, of two modules that share no variable. For `CalendarEntry`: `DaysAreBuiltFromCurrentSets`, `EntriesHoldTheAccess`,
  `StripsCountOnce`, `TheGateStaysOpen`, for any number of tabs,
  items, changes and days. Assumed: the kinds of request are the four services, due dates and durations are numbers. `EntryInv` says by stage what a
  request's hand may hold: begun (its stamp is its enrolments'), whole (it may be stored), or current (its sets are not older than the
  request). An entry of old roles is not excluded; it must be marked `crossed`.
  A list of a build holds every deadline that fewer than `UpcomingLimit` times came before (`UpcomingHolds`).
- `CalendarProofs`, for `CalendarStrip`: `TheNeedlePointsAtWork`, `PressesOpenWhatWasCounted`, `PinnedCardsGiveTheKeyboardBack`, for any window,
  payload, day's items and number of gestures. Assumed: the window is longer than what is in view (`WindowAssumption`); each day counts its
  view's kinds, and weighs at least what its items do (`PayloadAssumption`, `DayItemsAssumption`). Little of it is induction over steps: `RowInv`
  says that the row has a place and the view is one of two. The work is in the arithmetic. The provers know
  nothing of the library's sums, so what a sum is comes first: its recursion has one solution (`SumSolves`, `SumIsTheOne`), it
  does not depend on which element is taken first (`SumTakesAny`), it grows with its terms (`SumGrows`), and it is positive when
  one of them is. Then a press: a period's days lie in its span, so the span holds what was counted, and the day it lands on is the first of them that holds anything; a row placed
  by `scrollRow` shows the day, even at the window's end. Then the needle: a day's weight is over
  what its events and classes weigh exactly when open work is left, in the payload and after any `settle` (`SettlingWeighs`), so every score is
  positive exactly when there is shown work (`ScoresFindTheWork`); of finitely many fractions one is greatest (`SomeIsGreatest`); and
  the group that what is done has in the marks is the last. The pinned card needs no invariant: a step that unpins it
  closes the strip, gives a control or its day the keyboard, or is the map's drag, and what a press on Today or Tomorrow pins is a day.
- `SharedLayersProofs`: `CoursesAreFollowed`, `LiveCoursesAreShown`, `CategoriesAreFollowed`, for any tree. Assumed: the tree is a finite
  forest, courses and categories have different keys. `CategoriesAreFollowed` needs that a delete by stored path reaches every descendant, hence a small theory of
  paths: a forest has one solution of the path equations (`PathIsTheOne`), a move changes the paths below the moved category and no others,
  and no change makes a cycle. The recursion of `PathOf` is over the tree, and its induction is written out over sets of
  ranks with `WFMin`, because the provers cannot instantiate the library's induction theorems. A course's entry holds its category,
  and a context path that is older only by moves of categories above (`Placed`). `LayersInv` exempts what the code
  exempts: a key whose delete is still to come, a row stored late, a path read while the paths were behind.
- `ListProofs`, of three modules that share no variable. For `Prewarm`: `PrewarmTypeCorrect`, `CursorSkipsNobody`,
  `CompletedSweepReachedEveryone`. Assumed: finitely many positive user ids, a
  positive batch size, windows shorter than the site's age. The invariant `SweepInv` adds what the two properties do not
  say of a run at work: everyone owed is behind the run's cursor and tried, or in the batch, or after it; while it warms, nobody
  else lies between its cursor and the end of the batch; a short batch leaves nobody after it.
- `ListProofs`, for `RowDetails`: `RowsAreRequestedOnce`, for any rows, elements, reports, batches, failures and presses. Assumed:
  finitely many rows, a positive batch. `DetailsInv` says why a row that is asked for cannot be asked for again: the list that
  waits repeats no row and holds none that is out or answered, and a row was asked for exactly if its request is out or over. A report may
  be about an element that is gone or that shows another row by now, so nothing is claimed of reports but that they name
  rows. That a callback and a Try again leave the list in turn however many rows they are given is an induction over
  them, written out from `LeastNatural`.
- `ListProofs`, for `FilterLine`: `CountsHoldTheirPromise`, `PreviewsTellThePress`, `TheFilterLineKeepsTheKeyboard`, for any rows, facts,
  scopes, texts and limits. Assumed: the two orders are sequences and there is a scope "all" (`OrderAssumption`), the
  field's value is not the mark of none (`ChosenAssumption`), the limits are numbers (`CutAssumption`), a rank is one of `suggest()`'s
  (`RankAssumption`), and so is a match of `rankCourses()`'s (`MatchAssumption`). A suggestion is the n-th of a set in an order given by rank, count and
  place; that there is one for each n is that the numbers of those that come before are all different (`nth` is onto because it is
  one-to-one). The preview is true at every commit, whatever the handler did, because a change of the criteria, the text or the facts
  ends it or draws it anew (`RenderPreviews`); a handler that changes none of them must ask for one that was true already. The keyboard
  needs `KeyInv` (`LineInOrder`): no layer is open under the grown search, the suggestions are open only where the focus is, and the
  focus is on a control that is drawn. Without it a press could close a layer with the keyboard in it.
- `BlockProofs`: `TheLineIsTrue`, `NoWriterDropsTheOther`, `Tier1KeepsTheLastLoad` (the refinement of `LastAsk`), `StarsAreTheServers`,
  `WhatWaitsIsAskedFor`, `TheLineKeepsTheKeyboard`, for any configurations, cards, batches, retries, failures and presses. Assumed: the configurations have the
  settings' types, retries are a number. `BlockInv`: no two reads of one ask, and the count behind the line is the
  number of reads that failed and are not over. `PrefInv`: the last write out carries what the page shows, and the line's member is right even after a
  failure. `StarsInv`: a write that is applied, not answered and not overtaken
  says what the server has; a card is drawn as the server says, or has such a write out, or is `unsure`; and a load
  out saw the server's stars but for the courses `crossed` since. `WaitInv`:
  whatever says it is loading has the read that ends it out, or is due at this render, and a part was asked at no turn and no
  attempt to come, so an effect that compares both never takes a new one for an old one. The keyboard on the open-courses line
  can only be lost by a redraw, so its proof shows that an answer in hand stays the one in hand until the line is redrawn (`LineIdle`,
  an invariant of the renders and the reads), and that what a close or a hide gives the focus to is drawn.
- `UpNextProofs`: `UpNextKeepsTheLastAsk` (the refinement of `LastAsk`), `RetryIsLetGo`, `TheGateIsHeard`, for any items, minutes and asks. Assumed: the
  items are records of numbers, the limits positive. `AskInv` numbers the asks; `GateInv` says that every opening ahead is at
  or after the timer, and that what has opened is asked about or covered by the answer in hand, but for an opening the
  timer is about to fire at or fired at while the page was hidden.
- `ExploreProofs`: `NoTwinsShown`, `OpenGroupsAreAskedFor`, `RowsAreOfTheCriteria`, `StarsAreFollowed`, for any courses, orders, page sizes,
  presses and faults. Assumed: the order of names lists each course once, no course is the first page's cursor "0". Each property is about what a
  render leaves, while the danger is in what is in flight, so the invariant is about requests: a group's rows are those its page was
  asked with until that page lands (`Waits`, which makes "the answer brings a row I hold" mean that the list has moved); a page held or
  on its way is of the criteria in force if its mode is (`UnderInv`), and while a reload may change the mode every page is of the mode in
  force (`ModesInv`), so no page of another mode's arguments comes back into force; a search out is for what is applied and chosen
  (`SearchInv`); a copy of a course strays from the server's star only while its one write is served and unanswered (`StarInv`). `RenderedKeeps` shows once
  that a render keeps all of it, whatever it is given; each action then only shows that what it gives the render is sound.
  `InOrderKeeps` is the lemma about the server's lists: a filter keeps order and repeats nothing. `PagesFollowOneOrder` (`CutsNow`) says
  what a group holds: unless the group is `torn` or a star `muddled`, its rows are the head of the server's list for the arguments of its pages,
  one answer's rows go on where the held ones end, and with no more to come the head is the whole. `DrawnGroupsAreWhole` follows:
  the browser's filters over a whole list keep the courses the server's records put in it, in order.

Only model-checked, and why:

- The three liveness properties: fairness and ENABLED are out of TLAPS' reach.
- `NothingElsePolls` is false.

## Not modelled

- The progress cache and the custom field layers: the first is bounded by its TTL, the second repeats the course layer's races.
  Their two hazards are listed without a property.
- Cards, attention, relationship, dormancy, hidden courses, grading, days off, kinds and badges: selections and predicates
  without state, which unit tests reach.
- Services, configuration, rendering, lifecycle, privacy: validation, settings and straight-line calls of core's API.
- The client's presentation, its announcements and live regions, and its measuring of widths.
- The preferences of tiers 1 and 3, single values written as they change.

## The plan

Done: Inventory, Prewarm, Catalogue, News, CalendarEntry, SharedLayers; RowDetails, Calendar, CalendarStrip, UpNext, Reads, CalendarPref,
OpenCourses, Block, LastAsk; FilterLine, Explore. Proofs of every safety property of theirs.

Open:

1. The narrow strip, a resize, and two courses in the line with a limit of one.
2. Details: the progress cache with the completion events and `user_deleted`, which must read the inventory entry before it drops it.

------------------------------ MODULE Explore ------------------------------
(***************************************************************************)
(* js/esm/src/Explore.tsx: tier 3, the whole inventory in groups, against  *)
(* classes/local/explore.php.  In full mode one answer brings every row    *)
(* but the archive's; in paged mode every group fetches its own rows page  *)
(* by page under a cursor, and the search is the server's.                 *)
(*                                                                         *)
(* A request is sent, served (the server reads or writes) and answered, or *)
(* it fails; between any two of those the reader presses something, a      *)
(* course is opened or archived in another tab, a star is toggled in       *)
(* tier 1.  A React effect runs in the step whose render triggers it: it   *)
(* is Rendered, a part of every action that changes what it depends on.    *)
(*                                                                         *)
(* Two groups: LISTED stands for a category or for the dormant group,      *)
(* ARCHIVED is GROUP_ARCHIVED.  To raise a sequence number is to take the  *)
(* requests in flight out of net: their answers would be dropped.          *)
(***************************************************************************)
EXTENDS Integers, Sequences, SequencesExt, FiniteSets, Functions

CONSTANTS
    NameOrder,    \* the courses, in the order of their names
    Selected,     \* those that hold the one field value there is
    New,          \* those that are new to the learner
    Named,        \* those whose names hold the one query long enough to be searched
    INVENTORY_MAX, PAGE_SIZE,
    MaxPresses,   \* bound: presses of the reader that change what is asked
    MaxFaults     \* bound: requests that fail and changes made in another tab

Courses == ToSet(NameOrder)

\* A course has one place in the order, and no course is the cursor of a first page, "0".
CoursesAssumption ==
    /\ NameOrder \in Seq(Courses) /\ IsInjective(NameOrder) /\ "0" \notin Courses
    /\ INVENTORY_MAX \in Nat /\ PAGE_SIZE \in Nat \ {0}
ASSUME CoursesAssumption

LISTED == "listed"
ARCHIVED == "archived"
Groups == {LISTED, ARCHIVED}
Scopes == {"all", "new", "pending"}
Chips == {"favourites", "new", "pending"}
Queries == {"", "c", "co"}     \* empty, shorter than SEARCH_MIN_LENGTH, long enough
TooShort == {"", "c"}

VARIABLES
    srv,          \* the server: [fav, archived, recent]
    net,          \* the requests that have not been answered
    data,         \* the payload: [mode, groups, rows]
    failed,       \* the inventory could not be loaded
    pages,        \* [Groups -> PageState]
    open, openbefore,
    crit,         \* [scope, star, sel, sort]
    query, applied, hits, searchfailed, searched,
    busy,         \* an archive write is out
    asked,        \* the confirmation of Archive all: [state, rows]
    presses, faults,
    muddled       \* history: courses whose star was written while an answer or another write about it was out

bounds == <<presses, faults>>
search == <<query, searchfailed>>
vars == <<srv, net, data, failed, pages, open, openbefore, crit, query, applied, hits,
          searchfailed, searched, busy, asked, presses, faults, muddled>>

Row(c, s) == [id |-> c, fav |-> c \in s.fav]
Ids(rows) == {rows[i].id : i \in DOMAIN rows}

\* under, torn: history.  What the rows were asked with; whether the order changed between two of the pages.
EMPTY_PAGE == [rows |-> <<>>, after |-> "0", hasmore |-> FALSE, loaded |-> FALSE,
               loading |-> FALSE, failed |-> FALSE, under |-> {}, torn |-> FALSE]

NoHits == [shown |-> FALSE, rows |-> <<>>, sel |-> FALSE, query |-> ""]
NoAnswer == [rows |-> <<>>, after |-> "0", hasmore |-> FALSE, mode |-> "none", groups |-> {}]

(***************************************************************************)
(* The server                                                              *)
(***************************************************************************)

Members(g, s) == IF g = ARCHIVED THEN s.archived ELSE Courses \ s.archived

\* passesChip(), passes_chip(): no course of the model awaits anything.
PassesChip(chip, row) ==
    CASE chip = "favourites" -> row.fav
      [] chip = "new" -> row.id \in New
      [] chip = "pending" -> FALSE
      [] OTHER -> TRUE

\* holdsWords(): the query too short for the server narrows nothing here either.
HoldsWords(c, q) == q \in TooShort \/ c \in Named

\* The elements of s that are in S, in the order of s: the k-th is the one with k of them up to its place.
InOrder(s, S) ==
    LET places == {i \in DOMAIN s : s[i] \in S}
    IN  [k \in 1 .. Cardinality(places) |->
            s[CHOOSE i \in places : Cardinality({j \in places : j <= i}) = k]]

\* What a group lists, in order, under a page request's arguments.
Ordered(g, a, s) ==
    InOrder(IF a.sort = "recent" THEN s.recent ELSE NameOrder,
            {c \in Members(g, s) : PassesChip(a.chip, Row(c, s)) /\ (a.sel => c \in Selected)})

\* explore::rows(): the page after the row the cursor names, or the first page.
ServerPage(g, a, s) ==
    LET ordered == Ordered(g, a, s)
        start == IF a.after \in ToSet(ordered) THEN CHOOSE i \in DOMAIN ordered : ordered[i] = a.after ELSE 0
        ids == SubSeq(ordered, start + 1,
                      IF start + PAGE_SIZE < Len(ordered) THEN start + PAGE_SIZE ELSE Len(ordered))
    IN  [NoAnswer EXCEPT !.rows = [i \in DOMAIN ids |-> Row(ids[i], s)],
                         !.hasmore = start + Len(ids) < Len(ordered),
                         !.after = IF ids = <<>> THEN "0" ELSE Last(ids)]

\* explore::build(): full mode ships every listed row, no mode the archive's.
ServerInventory(s) ==
    LET listed == InOrder(NameOrder, Courses \ s.archived)
        mode == IF Len(listed) > INVENTORY_MAX THEN "paged" ELSE "full"
    IN  [NoAnswer EXCEPT !.mode = mode,
                         !.groups = {g \in Groups : Members(g, s) # {}},
                         !.rows = IF mode = "full" THEN [i \in DOMAIN listed |-> Row(listed[i], s)] ELSE <<>>]

\* explore::search(): the archive is not searched.
ServerSearch(sel, s) ==
    LET found == InOrder(NameOrder, {c \in Named \ s.archived : sel => c \in Selected})
    IN  [NoAnswer EXCEPT !.rows = [i \in DOMAIN found |-> Row(found[i], s)]]

(***************************************************************************)
(* Requests                                                                *)
(***************************************************************************)

InventoryRequest(first) ==
    [kind |-> "inventory", first |-> first, state |-> "sent", answer |-> NoAnswer]

SearchRequest(q, sel) ==
    [kind |-> "search", query |-> q, sel |-> sel, state |-> "sent", answer |-> NoAnswer]

\* before: the rows loadPage() closed over when it was called.
PageRequest(g, a, before) ==
    [kind |-> "page", group |-> g, args |-> a, before |-> before, state |-> "sent", answer |-> NoAnswer]

StarRequest(c, fav, tier) == [kind |-> "star", course |-> c, fav |-> fav, tier |-> tier, state |-> "sent"]
ArchiveRequest(cs, archived) == [kind |-> "archive", courses |-> cs, archived |-> archived, state |-> "sent"]

Stale(n, rs) == n \ rs
Of(n, kind) == {r \in n : r.kind = kind}
PagesOut(n, g) == {r \in Of(n, "page") : r.group = g}

serverchip(c) == IF c.star THEN "favourites" ELSE c.scope
keepsnothing(c) == c.star /\ c.scope = "pending"

\* The arguments loadPage() sends: full mode asks for the whole archive by name.
PageArgs(mode, c, after) ==
    IF mode = "paged"
    THEN [mode |-> mode, after |-> after, chip |-> serverchip(c), sel |-> c.sel, sort |-> IF c.sort = "recent" THEN "recent" ELSE "name"]
    ELSE [mode |-> mode, after |-> after, chip |-> "all", sel |-> FALSE, sort |-> "name"]

(***************************************************************************)
(* What the next render's effects do                                       *)
(***************************************************************************)

pagedgroup(d, g) == d.mode = "paged" \/ g = ARCHIVED

\* A variant the runs reject: only paged mode's groups are asked for.
DueInPagedMode(d, p, o, c) ==
    {g \in d.groups : d.mode = "paged" /\ o[g] /\ ~p[g].loading /\ ~p[g].failed /\ ~keepsnothing(c) /\ ~p[g].loaded}

\* The groups the fetch-on-open effect asks a page for.
Due(d, p, o, c) ==
    {g \in d.groups :
        /\ pagedgroup(d, g) /\ o[g]
        /\ ~p[g].loading /\ ~p[g].failed
        /\ ~(d.mode = "paged" /\ keepsnothing(c))
        /\ ~p[g].loaded \/ (d.mode = "full" /\ g = ARCHIVED /\ p[g].hasmore)}

\* loadPage(): what was in flight for the group is superseded.
Asked(d, p, c, gs, n) ==
    Stale(n, UNION {PagesOut(n, g) : g \in gs})
        \cup {PageRequest(g, PageArgs(d.mode, c, p[g].after), Ids(p[g].rows)) : g \in gs}

Loading(p, gs) == [g \in Groups |-> IF g \in gs THEN [p[g] EXCEPT !.loading = TRUE] ELSE p[g]]

\* A variant the runs reject: the search goes unasked when only the field selection changed.
SearchDueOnText(d, c, app, gen) ==
    d.mode = "paged" /\ (app # "" \/ searched) /\ (app # applied \/ data.mode # "paged" \/ gen)

\* The search effect runs when the applied text, the mode, the generation or the selection changes.
SearchDue(d, c, app, gen) ==
    /\ d.mode = "paged" /\ (app # "" \/ searched)
    /\ app # applied \/ data.mode # "paged" \/ gen \/ c.sel # crit.sel

Searched(app, c, n) ==
    Stale(n, Of(n, "search"))
        \cup (IF app \in TooShort THEN {} ELSE {SearchRequest(app, c.sel)})

\* Full mode: a search keeps the open groups, its end puts them back.
OpenKept(d, o, app) ==
    IF d.mode = "full" /\ app # "" /\ ~openbefore.held THEN [held |-> TRUE, open |-> o]
    ELSE IF d.mode = "full" /\ app = "" /\ openbefore.held THEN [held |-> FALSE, open |-> [g \in Groups |-> FALSE]]
    ELSE openbefore

OpenNow(d, o, app) == IF d.mode = "full" /\ app = "" /\ openbefore.held THEN openbefore.open ELSE o

Rendered(d, p, o, c, app, h, n, gen) ==
    LET now == OpenNow(d, o, app)
        due == Due(d, p, o, c) \cup Due(d, p, now, c)
        asks == SearchDue(d, c, app, gen)
    IN  /\ data' = d /\ crit' = c /\ applied' = app
        /\ open' = now /\ openbefore' = OpenKept(d, o, app)
        /\ pages' = Loading(p, due)
        /\ searched' = (searched \/ asks)
        /\ hits' = IF asks /\ app \in TooShort THEN NoHits ELSE h
        /\ net' = LET asking == Asked(d, p, c, due, n) IN IF asks THEN Searched(app, c, asking) ELSE asking

(***************************************************************************)
(* The mount                                                               *)
(***************************************************************************)

Init ==
    /\ srv \in [fav : {{}}, archived : {{}, {Last(NameOrder)}}, recent : {NameOrder}]
    /\ net = {InventoryRequest(TRUE)}
    /\ data = [mode |-> "none", groups |-> {}, rows |-> <<>>]
    /\ failed = FALSE
    /\ pages = [g \in Groups |-> EMPTY_PAGE]
    /\ open = [g \in Groups |-> FALSE]
    /\ openbefore = [held |-> FALSE, open |-> open]
    /\ crit \in [scope : {"all"}, star : {FALSE}, sel : {FALSE}, sort : {"category"}]
    /\ query = "" /\ applied = "" /\ hits = NoHits /\ searchfailed = FALSE /\ searched = FALSE
    /\ busy = FALSE /\ asked = [state |-> "none", rows |-> {}]
    /\ presses = 0 /\ faults = 0 /\ muddled = {}

\* The toolbar, the groups and the rows are on the page, and no dialogue is over them.
Usable == ~failed /\ data.mode # "none" /\ asked.state # "open"
PressedAnywhere == asked.state # "open" /\ presses < MaxPresses /\ presses' = presses + 1 /\ UNCHANGED faults
Pressed == Usable /\ PressedAnywhere

(***************************************************************************)
(* What is drawn                                                           *)
(***************************************************************************)

\* keptBy(): the scope and the star, applied to whatever rows are held.
keptBy(c, row) == PassesChip(c.scope, row) /\ (c.star => PassesChip("favourites", row))

\* passesCriteria(): full mode's one filter.
passesRow(row) ==
    keptBy(crit, row) /\ (crit.sel => row.id \in Selected) /\ HoldsWords(row.id, applied)

visible == IF data.mode = "full" THEN SelectSeq(data.rows, passesRow) ELSE <<>>

\* The archive's rows in full mode, once they are all here.
complete(g) == pages[g].loaded /\ ~pages[g].hasmore
archivedvisible ==
    IF data.mode = "full" /\ complete(ARCHIVED)
    THEN LET rows == pages[ARCHIVED].rows IN InOrder(rows, {row \in ToSet(rows) : passesRow(row)}) ELSE <<>>

\* A variant the runs reject: the server's chip is taken for the whole of the scope and the star.
slicesAsServed(g) ==
    IF ~pagedgroup(data, g) THEN [rows |-> visible, show |-> visible # <<>>]
    ELSE IF data.mode = "full" THEN [rows |-> archivedvisible, show |-> TRUE]
    ELSE [rows |-> pages[g].rows, show |-> ~keepsnothing(crit)]

\* A group's rows and whether it is drawn; the archive stays in full mode, whatever the filter.
slices(g) ==
    IF ~pagedgroup(data, g) THEN [rows |-> visible, show |-> visible # <<>>]
    ELSE IF data.mode = "full" THEN [rows |-> archivedvisible, show |-> TRUE]
    ELSE [rows |-> InOrder(pages[g].rows, {row \in ToSet(pages[g].rows) : keptBy(crit, row) /\ ~keepsnothing(crit)}),
          show |-> ~keepsnothing(crit)]

grouped == IF data.mode = "paged" THEN ~hits.shown ELSE crit.sort = "category"
drawn(g) == grouped /\ g \in data.groups /\ slices(g).show

\* A search in full mode opens what it found; the archive is not searched.
isopen(g) == open[g] \/ (data.mode = "full" /\ applied # "" /\ g # ARCHIVED)

\* The list drawn in the place of the groups: every visible row, or the hits narrowed as keptHits; its order is left out.
flat == IF data.mode = "paged" THEN {row \in ToSet(hits.rows) : keptBy(crit, row)} ELSE ToSet(visible)

\* The rows a press can be made on: those of an open group, or the list's.
OnThePage(g) ==
    IF ~grouped THEN {row \in flat : g = LISTED}
    ELSE IF drawn(g) /\ isopen(g) THEN ToSet(slices(g).rows) ELSE {}

(***************************************************************************)
(* The toolbar                                                             *)
(***************************************************************************)

\* resetGroups(): every page dropped, every page in flight stale.
Reset(n) == Stale(n, Of(n, "page"))
NoPages == [g \in Groups |-> EMPTY_PAGE]

\* chooseCriteria() and its like: in paged mode the groups are asked again when what the server is told changes.
Rechosen(c, app, reset) ==
    /\ IF reset /\ data.mode = "paged"
       THEN Rendered(data, NoPages, open, c, app, hits, Reset(net), FALSE)
       ELSE Rendered(data, pages, open, c, app, hits, net, FALSE)
    /\ UNCHANGED <<srv, failed, searchfailed, busy, asked, muddled>>

\* chooseScope(), toggleStar(), or a suggestion that names either.
ChooseCriteria ==
    /\ Pressed /\ UNCHANGED query
    /\ \E scope \in Scopes, star \in BOOLEAN :
          LET c == [crit EXCEPT !.scope = scope, !.star = star]
          IN  c # crit /\ Rechosen(c, applied, serverchip(c) # serverchip(crit))

\* pressLink(): a link means "show me these".
Implied(chip) ==
    IF chip = "favourites" THEN [crit EXCEPT !.scope = "all", !.star = TRUE]
    ELSE [crit EXCEPT !.scope = chip, !.star = FALSE]

\* A link of tier 1 that opens tier 3, pressed whatever tier 3 shows: the reveal effect, in the same step.
PressLink(chip) ==
    /\ PressedAnywhere /\ UNCHANGED query
    /\ Rechosen(Implied(chip), applied, serverchip(Implied(chip)) # serverchip(crit))

\* chooseSelection(): press or release the field value.
ChooseSelection ==
    /\ Pressed /\ UNCHANGED query
    /\ Rechosen([crit EXCEPT !.sel = ~@], applied, TRUE)

\* chooseSort(): category and A-Z are one order of the server's.
ChooseSort ==
    /\ Pressed /\ UNCHANGED query
    /\ \E sort \in {"category", "recent"} \ {crit.sort} :
          Rechosen([crit EXCEPT !.sort = sort], applied, (sort = "recent") # (crit.sort = "recent"))

\* clearFilters() and clearChips(), and with them eraseQuery(): the empty text is applied at once.
Clear ==
    /\ Pressed /\ query' = ""
    /\ \E c \in {[crit EXCEPT !.scope = "all", !.star = FALSE, !.sel = FALSE], [crit EXCEPT !.sel = FALSE], crit} :
          Rechosen(c, "", c # crit)

Type ==
    /\ Pressed
    /\ query' \in Queries \ {query}
    /\ UNCHANGED <<srv, net, data, failed, pages, open, openbefore, crit, applied, hits, searchfailed,
                   searched, busy, asked, muddled>>

\* The debounce: the typing has settled.
Settle ==
    /\ applied # query
    /\ Rechosen(crit, query, FALSE)
    /\ UNCHANGED <<query, bounds>>

(***************************************************************************)
(* The groups                                                              *)
(***************************************************************************)

Regrouped(p, o, n) ==
    /\ Rendered(data, p, o, crit, applied, hits, n, FALSE)
    /\ UNCHANGED <<srv, failed, query, searchfailed, busy, asked, muddled>>

\* toggleGroup(): opening a group again is how a failed fetch is retried.
ToggleGroup(g) ==
    /\ Pressed /\ drawn(g)
    /\ Regrouped(IF ~open[g] /\ pages[g].failed THEN [pages EXCEPT ![g] = EMPTY_PAGE] ELSE pages,
                 [open EXCEPT ![g] = ~@], net)

\* showMore(): the button is drawn in paged mode, beside no notice, and disabled while a page loads.
ShowMore(g) ==
    /\ Pressed /\ drawn(g) /\ data.mode = "paged" /\ open[g]
    /\ pages[g].hasmore /\ ~pages[g].failed /\ ~pages[g].loading
    /\ Regrouped(Loading(pages, {g}), open, Asked(data, pages, crit, {g}, net))

\* An entry of the index opens a category's group, and the element it opens reports it to toggleGroup() too.
OpenIndexed ==
    /\ Pressed /\ drawn(LISTED) /\ ~open[LISTED]
    /\ Regrouped(IF pages[LISTED].failed THEN [pages EXCEPT ![LISTED] = EMPTY_PAGE] ELSE pages,
                 [open EXCEPT ![LISTED] = TRUE], net)

\* retryGroup(): Try again inside a group.
RetryGroup(g) ==
    /\ Usable /\ drawn(g) /\ open[g] /\ pages[g].failed /\ ~pages[g].loading
    /\ Regrouped([pages EXCEPT ![g] = EMPTY_PAGE], open, net)
    /\ UNCHANGED bounds

(***************************************************************************)
(* The answers                                                             *)
(***************************************************************************)

\* Rows the answer brings that the browser already holds are what loadPage() takes for a restart.
restarted(r) == r.args.after # "0" /\ Ids(r.answer.rows) \cap r.before # {}

\* A variant the runs reject: a restarted group is appended to.
PagedAppending(page, r) ==
    [EMPTY_PAGE EXCEPT !.rows = page.rows \o r.answer.rows,
                       !.after = r.answer.after, !.hasmore = r.answer.hasmore, !.loaded = TRUE,
                       !.under = page.under \cup {[r.args EXCEPT !.after = "0"]}, !.torn = page.torn]

Paged(page, r) ==
    [EMPTY_PAGE EXCEPT !.rows = IF restarted(r) THEN r.answer.rows ELSE page.rows \o r.answer.rows,
                       !.after = r.answer.after, !.hasmore = r.answer.hasmore, !.loaded = TRUE,
                       !.under = page.under \cup {[r.args EXCEPT !.after = "0"]}, !.torn = page.torn]

PageAnswer(r) ==
    /\ r \in Of(net, "page") /\ r.state # "sent"
    /\ Regrouped([pages EXCEPT ![r.group] =
                    IF r.state = "failed" THEN [@ EXCEPT !.loading = FALSE, !.failed = TRUE] ELSE Paged(@, r)],
                 open, net \ {r})
    /\ UNCHANGED bounds

SearchAnswer(r) ==
    /\ r \in Of(net, "search") /\ r.state # "sent"
    /\ net' = net \ {r}
    /\ hits' = IF r.state = "served"
               THEN [shown |-> TRUE, rows |-> r.answer.rows, sel |-> r.sel, query |-> r.query] ELSE hits
    /\ searchfailed' = (r.state = "failed")
    /\ UNCHANGED <<srv, data, failed, pages, open, openbefore, crit, query, applied, searched, busy, asked, muddled, bounds>>

\* loadInventory()'s second half: the mount's load decides what is open in full mode.
InventoryAnswer(r) ==
    /\ r \in Of(net, "inventory") /\ r.state # "sent"
    /\ LET taken == r.state = "served"
           d == IF taken THEN [mode |-> r.answer.mode, groups |-> r.answer.groups, rows |-> r.answer.rows] ELSE data
           o == IF taken /\ r.first /\ d.mode = "full" /\ LISTED \in d.groups
                THEN [g \in Groups |-> g = LISTED] ELSE open
       IN  Rendered(d, pages, o, crit, applied, hits, net \ {r}, FALSE)
    /\ failed' = (r.state = "failed")
    /\ UNCHANGED <<srv, query, searchfailed, busy, asked, muddled, bounds>>

ReloadingInventory(first, n) ==
    Stale(n, Of(n, "inventory")) \cup {InventoryRequest(first)}

\* Try again of the inventory's notice, and of the search's, which is drawn where the hits are.
RetryInventory ==
    /\ failed /\ net' = ReloadingInventory(TRUE, net)
    /\ UNCHANGED <<srv, data, failed, pages, open, openbefore, crit, query, applied, hits, searchfailed, searched,
                   busy, asked, muddled, bounds>>

searchnotice == Usable /\ ~grouped /\ searchfailed

RetrySearch ==
    /\ searchnotice /\ presses < MaxPresses /\ presses' = presses + 1
    /\ Rendered(data, pages, open, crit, applied, hits, net, TRUE)
    /\ UNCHANGED <<srv, failed, query, searchfailed, busy, asked, muddled, faults>>

\* The browser comes back online: whatever failed is asked for once more.
Online ==
    /\ failed \/ searchfailed \/ \E g \in Groups : pages[g].failed
    /\ Rendered(data, [g \in Groups |-> IF pages[g].failed THEN EMPTY_PAGE ELSE pages[g]], open, crit, applied, hits,
                IF failed THEN ReloadingInventory(TRUE, net) ELSE net, searchfailed)
    /\ UNCHANGED <<srv, failed, query, searchfailed, busy, asked, muddled, bounds>>

(***************************************************************************)
(* Stars                                                                   *)
(***************************************************************************)

Patched(rows, c, fav) == [i \in DOMAIN rows |-> IF rows[i].id = c THEN [rows[i] EXCEPT !.fav = fav] ELSE rows[i]]

\* A variant the runs reject: the search hits are left as they were.
withRowButHits(c, fav, n) ==
    Rendered([data EXCEPT !.rows = Patched(@, c, fav)],
             [g \in Groups |-> [pages[g] EXCEPT !.rows = Patched(@, c, fav)]],
             open, crit, applied, hits, n, FALSE)

\* withRow(): the payload's rows, the pages' and the hits'.
withRow(c, fav, n) ==
    Rendered([data EXCEPT !.rows = Patched(@, c, fav)],
             [g \in Groups |-> [pages[g] EXCEPT !.rows = Patched(@, c, fav)]],
             open, crit, applied, [hits EXCEPT !.rows = Patched(@, c, fav)], n, FALSE)

Held == Ids(data.rows) \cup Ids(hits.rows) \cup UNION {Ids(pages[g].rows) : g \in Groups}

\* A press of a star of this tier's rows, or of tier 1's cards, which may show either; each star refuses a press
\* while its write is out.
Starring(c, fav, tier) ==
    /\ PressedAnywhere
    /\ ~\E r \in Of(net, "star") : r.course = c /\ r.tier = tier
    /\ net' = net \cup {StarRequest(c, fav, tier)}
    /\ muddled' = IF \E r \in Of(net, "star") : r.course = c THEN muddled \cup {c} ELSE muddled
    /\ UNCHANGED <<srv, data, failed, pages, open, openbefore, crit, query, applied, hits, searchfailed, searched,
                   busy, asked>>

ToggleFavourite(g) == Usable /\ \E row \in OnThePage(g) : Starring(row.id, ~row.fav, "tier3")
ToggleInTier1 == \E c \in Courses, fav \in BOOLEAN : Starring(c, fav, "tier1")

\* toggleFavourite() after its await; for tier 1's, the effect on "starred", a render of its own for each answer: two
\* answers React batched in one render would leave the effect the second alone.
StarAnswer(r) ==
    /\ r \in Of(net, "star") /\ r.state # "sent"
    /\ IF r.state = "served" THEN withRow(r.course, r.fav, net \ {r})
       ELSE Rendered(data, pages, open, crit, applied, hits, net \ {r}, FALSE)
    /\ UNCHANGED <<srv, failed, query, searchfailed, busy, asked, muddled, bounds>>

(***************************************************************************)
(* The archive                                                             *)
(***************************************************************************)

Archiving(cs, archived) ==
    /\ busy' = TRUE
    /\ net' = net \cup {ArchiveRequest(cs, archived)}
    /\ UNCHANGED <<srv, data, failed, pages, open, openbefore, crit, query, applied, hits, searchfailed, searched, muddled>>

\* archive(): one course, or one brought back.
Archive(g) ==
    /\ Pressed /\ ~busy
    /\ \E row \in OnThePage(g) : Archiving({row.id}, g # ARCHIVED)
    /\ UNCHANGED asked

\* The dormant group's bar and archiveAll() up to its await: what it will write is what the group draws now.
ArchiveAll ==
    /\ Pressed /\ ~busy /\ asked.state = "none"
    /\ drawn(LISTED) /\ isopen(LISTED) /\ slices(LISTED).rows # <<>>
    /\ asked' = [state |-> "loading", rows |-> Ids(slices(LISTED).rows)]
    /\ UNCHANGED <<srv, net, data, failed, pages, open, openbefore, crit, query, applied, hits, searchfailed, searched,
                   busy, muddled>>

\* The dialogue's module has loaded: it is over the page.
Dialogue ==
    /\ asked.state = "loading" /\ asked' = [asked EXCEPT !.state = "open"]
    /\ UNCHANGED <<srv, net, data, failed, pages, open, openbefore, crit, query, applied, hits, searchfailed, searched,
                   busy, muddled, bounds>>

\* archiveAll() after its await.
Confirm(yes) ==
    /\ asked.state = "open" /\ asked' = [state |-> "none", rows |-> {}]
    /\ IF yes THEN Archiving(asked.rows, TRUE)
       ELSE UNCHANGED <<srv, net, data, failed, pages, open, openbefore, crit, query, applied, hits, searchfailed,
                        searched, busy, muddled>>
    /\ UNCHANGED bounds

\* reloadBoth(), after the write whichever way it ended.
ArchiveAnswer(r) ==
    /\ r \in Of(net, "archive") /\ r.state # "sent"
    /\ busy' = FALSE
    /\ Rendered(data, NoPages, open, crit, applied, hits, ReloadingInventory(FALSE, Reset(net \ {r})), TRUE)
    /\ UNCHANGED <<srv, failed, query, searchfailed, asked, muddled, bounds>>

(***************************************************************************)
(* The server, the network and the other tabs                              *)
(***************************************************************************)

Answered(r) ==
    CASE r.kind = "inventory" -> [r EXCEPT !.state = "served", !.answer = ServerInventory(srv)]
      [] r.kind = "page" -> [r EXCEPT !.state = "served", !.answer = ServerPage(r.group, r.args, srv)]
      [] r.kind = "search" -> [r EXCEPT !.state = "served", !.answer = ServerSearch(r.sel, srv)]
      [] OTHER -> [r EXCEPT !.state = "served"]

Written(r) ==
    CASE r.kind = "star" -> [srv EXCEPT !.fav = IF r.fav THEN @ \cup {r.course} ELSE @ \ {r.course}]
      [] r.kind = "archive" -> [srv EXCEPT !.archived = IF r.archived THEN @ \cup r.courses ELSE @ \ r.courses]
      [] OTHER -> srv

Reads == {"inventory", "page", "search"}

\* The history variables after a change of the server's.
Crossing(s, n) ==
    /\ muddled' = muddled \cup
          (IF \E r \in n : r.kind \in Reads /\ r.state = "served"
           THEN (s.fav \ srv.fav) \cup (srv.fav \ s.fav) ELSE {})
    /\ pages' = [g \in Groups |->
          IF pages[g].loaded \/ pages[g].loading THEN [pages[g] EXCEPT !.torn = TRUE] ELSE pages[g]]

Served(s, n) ==
    /\ srv' = s /\ net' = n
    /\ IF s # srv THEN Crossing(s, n) ELSE UNCHANGED <<muddled, pages>>
    /\ UNCHANGED <<data, failed, open, openbefore, crit, query, applied, hits, searchfailed, searched, busy, asked>>

Serve(r) ==
    /\ r \in net /\ r.state = "sent"
    /\ Served(Written(r), (net \ {r}) \cup {Answered(r)})
    /\ UNCHANGED bounds

\* The repository's retries are over, or the write was refused; a write may have been made all the same.
Fail(r) ==
    /\ r \in net /\ r.state = "sent"
    /\ faults < MaxFaults /\ faults' = faults + 1
    /\ \E s \in {srv} \cup (IF r.kind = "archive" THEN {Written(r)} ELSE {}) :
          Served(s, (net \ {r}) \cup {[r EXCEPT !.state = "failed"]})
    /\ UNCHANGED presses

\* A course is opened, or archived, or brought back, in another tab.
Elsewhere ==
    /\ faults < MaxFaults /\ faults' = faults + 1
    /\ \E c \in Courses :
          \E s \in {[srv EXCEPT !.recent = <<c>> \o InOrder(@, Courses \ {c})],
                    [srv EXCEPT !.archived = IF c \in @ THEN @ \ {c} ELSE @ \cup {c}]} :
             s # srv /\ Served(s, net)
    /\ UNCHANGED presses

Answer ==
    \E r \in net : PageAnswer(r) \/ SearchAnswer(r) \/ InventoryAnswer(r) \/ StarAnswer(r) \/ ArchiveAnswer(r)

Next ==
    \/ ChooseCriteria \/ (\E chip \in Chips : PressLink(chip)) \/ ChooseSelection \/ ChooseSort \/ Clear \/ Type \/ Settle
    \/ \E g \in Groups : ToggleGroup(g) \/ ShowMore(g) \/ RetryGroup(g)
    \/ OpenIndexed \/ RetryInventory \/ RetrySearch \/ Online
    \/ \E g \in Groups : Archive(g) \/ ToggleFavourite(g)
    \/ ToggleInTier1
    \/ ArchiveAll \/ Dialogue \/ \E yes \in BOOLEAN : Confirm(yes)
    \/ \E r \in net : Serve(r) \/ Fail(r)
    \/ Elsewhere
    \/ Answer

Spec == Init /\ [][Next]_vars

(***************************************************************************)
(* Properties                                                              *)
(***************************************************************************)

RowsOf(rows) == IsInjective([i \in DOMAIN rows |-> rows[i].id]) /\ Ids(rows) \subseteq Courses

\* No list shows a course twice, whatever moved between two of its pages.
NoCourseTwice ==
    /\ RowsOf(data.rows) /\ RowsOf(hits.rows)
    /\ \A g \in Groups : RowsOf(pages[g].rows)

\* An open group is never left with nothing: its rows are here or on their way, or it says that they failed.
OpenGroupIsAskedFor ==
    \A g \in data.groups :
        pagedgroup(data, g) /\ open[g] /\ ~(data.mode = "paged" /\ keepsnothing(crit)) =>
            pages[g].loaded \/ pages[g].loading \/ pages[g].failed

\* What a group and the hits show was asked for under the criteria in force, if the mode is the one it was asked in.
RowsAnswerTheCriteria ==
    /\ \A g \in Groups : pagedgroup(data, g) =>
            \A a \in pages[g].under : a.mode = data.mode => a = PageArgs(data.mode, crit, "0")
    /\ data.mode = "paged" /\ hits.shown =>
            \/ hits.query = applied /\ hits.sel = crit.sel
            \/ searchfailed \/ Of(net, "search") # {}

\* A group drawn to its end, with no change of the server's since its first page was asked for, draws exactly
\* the courses that the server's records put in it under everything the toolbar and the search have in force.
DrawnGroupIsWhole ==
    \A g \in Groups :
        /\ drawn(g) /\ pagedgroup(data, g) /\ complete(g)
        /\ ~pages[g].torn /\ muddled = {}
        /\ \A a \in pages[g].under : a.mode = data.mode
        => LET kept == InOrder(IF data.mode = "paged" /\ crit.sort = "recent" THEN srv.recent ELSE NameOrder,
                               {c \in Members(g, srv) : /\ keptBy(crit, Row(c, srv))
                                                        /\ crit.sel => c \in Selected
                                                        /\ data.mode = "full" => HoldsWords(c, applied)})
           IN  [i \in DOMAIN slices(g).rows |-> slices(g).rows[i].id] = kept

\* Every copy of a course held here shows the star the server has, once no write of it is out.
StarsFollowTheServer ==
    \A c \in Held \ muddled :
        (\E r \in Of(net, "star") : r.course = c) \/
        \A rows \in {data.rows, hits.rows} \cup {pages[g].rows : g \in Groups} :
            \A i \in DOMAIN rows : rows[i].id = c => rows[i].fav = (c \in srv.fav)

=============================================================================

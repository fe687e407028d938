---------------------------- MODULE FilterLine ----------------------------
(***************************************************************************)
(* js/esm/src/FilterLine.tsx: the filter line of tier 3 - its folding, the *)
(* search that grows over it, its suggestions, the panel, the Organise     *)
(* menu and the chips - with what Explore.tsx gives it in full mode: the   *)
(* criteria, the counts, the suggestions' material and the preview.        *)
(*                                                                         *)
(* line is what FilterLine.tsx keeps, focus included.  A press is the      *)
(* whole of what one press runs: the document's pointerdown, the focus     *)
(* leaving one control for another, the click's handler.  Render is what   *)
(* every commit runs afterwards: the layout effects and the preview's.     *)
(* Where focus is named, the control is meant: scope is the checked cell.  *)
(***************************************************************************)
EXTENDS Integers, Sequences, SequencesExt, FiniteSets

CONSTANTS
    RowOrder,      \* the rows the payload carried, in the order of the list
    FactSets,      \* [Listed -> facts]: the facts the rows may have
    SCOPES,        \* the scopes drawn, a sequence: pending only where the feature is on
    Texts,         \* what may be typed, the empty text left out
    TooShort,      \* those of Texts that are under MIN_TERM once normalised
    Value,         \* the one value of the one custom field
    Rank(_, _),    \* the rank suggest() gives a filter for a text: 0 to 3, or -1
    Match(_, _),   \* how well a row's name holds a text: 0 from a word's start, 1 inside one, -1 not as typed
    START_COUNT, MATCH_COUNT, COURSE_COUNT,
    Toggled        \* bound: the rows whose star is toggled

Unset == "none"
NoText == ""
Smaller(m, n) == IF m < n THEN m ELSE n
Scopes == ToSet(SCOPES)
Listed == ToSet(RowOrder)

ASSUME OrderAssumption == RowOrder \in Seq(Listed) /\ SCOPES \in Seq(Scopes) /\ "all" \in Scopes
ASSUME ChosenAssumption == Value # Unset
ASSUME CutAssumption == {START_COUNT, MATCH_COUNT, COURSE_COUNT} \subseteq Nat

\* The steps in the order they are tried, with whether the field is folded into its icon.  The second only
\* drops a word of the first.
TRIES == <<[step |-> "s1", folded |-> FALSE], [step |-> "s3", folded |-> TRUE],
           [step |-> "s4", folded |-> FALSE], [step |-> "s4", folded |-> TRUE]>>

LineControls == {"scope", "star", "toggle", "organise", "view", "field", "eraser", "opener", "closer",
                 "panelchip", "clear", "show", "menuitem", "valuechip", "textchip", "clearall"}
Controls == LineControls \cup {"outside", "body"}

VARIABLES
    facts,                       \* the rows' facts
    criteria,                    \* [scope, star, sel]
    query,                       \* the text in the box
    term,                        \* the text the rows are under: applied after its debounce, and deferred
    fold,                        \* one of TRIES
    line,                        \* [searching, list, active, menu, panel, from, focus]
    lit,                         \* the rows a preview lights and dims, or Dark
    previewed                    \* the keyboard previewed an option

linevars == <<facts, criteria, query, term, fold, line, lit, previewed>>

---------------------------------------------------------------------------
\* filter.ts: what a row is judged by.

isEnrolled(row) == ~row.pend /\ ~row.sched
passesChip(chip, row) ==
    CASE chip = "new" -> row.new
      [] chip = "favourites" -> row.fav /\ isEnrolled(row)
      [] chip = "pending" -> row.pend
      [] chip = "scheduled" -> row.sched
      [] OTHER -> TRUE
passesStar(star, row) == star => passesChip("favourites", row)
passesSelection(row, sel) == sel # Unset => row.cf = sel
holdsWords(row, text) == text = NoText \/ text \in row.holds
passesCriteria(row, c, text) ==
    passesChip(c.scope, row) /\ passesStar(c.star, row) /\ passesSelection(row, c.sel) /\ holdsWords(row, text)

\* Explore.tsx: the rows drawn.
visible(f, c, t) == {r \in Listed : passesCriteria(f[r], c, t)}

\* Mutant: a field's value counted under its own selection too.
countFacetsUnderSelection(f, c, text) ==
    LET held == {r \in Listed : holdsWords(f[r], text) /\ passesSelection(f[r], c.sel)}
        starred == {r \in held : passesStar(c.star, f[r])}
        ofscope == {r \in held : passesChip(c.scope, f[r])}
    IN [status |-> [s \in Scopes |-> Cardinality({r \in starred : passesChip(s, f[r])})],
        star |-> Cardinality({r \in ofscope : passesStar(c.star, f[r])}),
        value |-> Cardinality({r \in starred \cap ofscope : f[r].cf = Value})]

\* How many rows each control would keep, given everything else in force.
countFacets(f, c, text) ==
    LET held == {r \in Listed : holdsWords(f[r], text)}
        starred == {r \in held : passesStar(c.star, f[r])}
    IN [status |-> [s \in Scopes |-> Cardinality({r \in starred : passesSelection(f[r], c.sel) /\ passesChip(s, f[r])})],
        star |-> Cardinality({r \in held : /\ passesSelection(f[r], c.sel)
                                           /\ passesChip(c.scope, f[r]) /\ passesStar(TRUE, f[r])}),
        value |-> Cardinality({r \in starred : passesChip(c.scope, f[r]) /\ f[r].cf = Value})]

\* What a control would make of the criteria: its own value replaced, every other kept.
Scope(s) == [kind |-> "scope", key |-> s]
Star == [kind |-> "star", key |-> Unset]
Field == [kind |-> "field", key |-> Value]
Nothing == [kind |-> "nothing", key |-> Unset]
Course(r) == [kind |-> "course", key |-> r]
Dark == [of |-> Nothing, on |-> {}, dim |-> {}]    \* no preview on display
applyCandidate(c, k) ==
    CASE k.kind = "scope" -> [c EXCEPT !.scope = k.key]
      [] k.kind = "star" -> [c EXCEPT !.star = TRUE]
      [] k.kind = "field" -> [c EXCEPT !.sel = k.key]
      [] OTHER -> c

\* Explore.tsx linefilters: of every filter, those not in force that would keep something without the typed text.
CountOf(k, counts) ==
    CASE k.kind = "scope" -> counts.status[k.key] [] k.kind = "star" -> counts.star [] OTHER -> counts.value
FILTERS == [i \in DOMAIN SCOPES |-> Scope(SCOPES[i])] \o <<Star, Field>>
linefilters(f, c) ==
    LET untyped == countFacets(f, c, NoText)
        offer(k) == /\ CountOf(k, untyped) > 0
                    /\ k # Scope(c.scope) /\ (k = Star => ~c.star) /\ (k = Field => c.sel # Value)
    IN  {i \in DOMAIN FILTERS : offer(FILTERS[i])}

ASSUME RankAssumption == \A k \in ToSet(FILTERS), text \in Texts : Rank(k, text) \in -1 .. 3

\* The members of S as R orders them: the n-th is the one that n - 1 others come before.
Before(S, R, i) == {j \in S : <<j, i>> \in R}
nth(S, R, n) == CHOOSE i \in S : Cardinality(Before(S, R, i)) = n - 1

\* FilterLine.tsx suggest(): what matches best first; under the floor, the highest counts to start with.
unmatched(text) == text \in TooShort \cup {NoText}
rank(i, text) == IF unmatched(text) THEN 0 ELSE Rank(FILTERS[i], text)
better(S, counts, text) ==
    LET count(i) == CountOf(FILTERS[i], counts)
    IN  {p \in S \X S : LET i == p[1]  j == p[2]
                       IN  \/ rank(i, text) < rank(j, text)
                           \/ rank(i, text) = rank(j, text) /\ (count(i) > count(j) \/ (count(i) = count(j) /\ i < j))}
suggest(f, c, text) ==
    LET S == {i \in linefilters(f, c) : rank(i, text) >= 0}
        R == better(S, countFacets(f, c, NoText), text)
        limit == IF unmatched(text) THEN START_COUNT ELSE MATCH_COUNT
    IN  [n \in 1 .. Smaller(Cardinality(S), limit) |-> FILTERS[nth(S, R, n)]]

\* Explore.tsx linecourses and rankCourses(): the rows drawn that hold the text, once it is long enough, those with
\* a word that starts with it first.
ASSUME MatchAssumption == \A r \in Listed, text \in Texts : Match(r, text) \in -1 .. 1
nearer(S, text) ==
    LET m(i) == Match(RowOrder[i], text)
    IN  {p \in S \X S : LET i == p[1]  j == p[2] IN m(i) < m(j) \/ (m(i) = m(j) /\ i < j)}
courses(f, c, t, text) ==
    LET S == {i \in DOMAIN RowOrder : /\ passesCriteria(f[RowOrder[i]], c, t) /\ holdsWords(f[RowOrder[i]], text)
                                      /\ Match(RowOrder[i], text) >= 0}
        R == nearer(S, text)
    IN  IF unmatched(text) THEN <<>>
        ELSE [n \in 1 .. Smaller(Cardinality(S), COURSE_COUNT) |-> Course(RowOrder[nth(S, R, n)])]

options(f, c, t, text) == suggest(f, c, text) \o courses(f, c, t, text)
Options == options(facts, criteria, term, query)

\* What a preview writes on the rows drawn: a control that would only widen what is drawn lights nothing.
preview(k, f, c, t) ==
    LET narrowing == \/ k.kind = "course"
                     \/ k.kind = "scope" /\ k.key \notin {c.scope, "all"}
                     \/ k.kind = "star" /\ ~c.star
                     \/ k.kind = "field" /\ c.sel # k.key
        next == applyCandidate(c, k)
        keep(r) == IF k.kind = "course" THEN r = k.key
                   ELSE passesChip(next.scope, f[r]) /\ passesStar(next.star, f[r]) /\ passesSelection(f[r], next.sel)
        drawn == visible(f, c, t)
    IN IF ~narrowing THEN Dark
       ELSE [of |-> k, on |-> {r \in drawn : keep(r)}, dim |-> {r \in drawn : ~keep(r)}]
---------------------------------------------------------------------------
\* The line as drawn: u is the line, d the rest of what decides it.

Morphs(f) == f.step \in {"s3", "s4"}
Growing(u, f) == u.searching /\ Morphs(f)
Drawing == [fold |-> fold, c |-> criteria, query |-> query, facts |-> facts, term |-> term]
counted(d) == countFacets(d.facts, d.c, d.term).value

\* A text left in force while the field is folded away shows as a chip.
textchip(u, d) == d.fold.folded /\ ~Growing(u, d.fold) /\ d.query # NoText

\* The controls the classes of the line draw, and those that come and go; one that is drawn can hold the focus.
shown(el, u, d) ==
    IF Growing(u, d.fold)
    THEN \/ el \in {"field", "closer", "outside", "body"} \/ (el = "eraser" /\ d.query # NoText)
         \/ (el = "scope" /\ d.fold.step = "s4") \/ (el = "valuechip" /\ d.c.sel # Unset)
    ELSE \/ el \in {"scope", "star", "toggle", "organise", "outside", "body"}
         \/ el = (IF d.fold.folded THEN "opener" ELSE "field")
         \/ el = "view" /\ d.fold.step # "s4"
         \/ el \in {"clear", "show"} /\ u.panel
         \/ el = "menuitem" /\ u.menu
         \/ el = "valuechip" /\ d.c.sel # Unset
         \/ el = "eraser" /\ ~d.fold.folded /\ d.query # NoText
         \/ el = "textchip" /\ textchip(u, d)
         \/ el = "clearall" /\ textchip(u, d) /\ d.c.sel # Unset
         \/ el = "panelchip" /\ u.panel /\ (d.c.sel = Value \/ counted(d) > 0)
Shown(el) == shown(el, line, Drawing)

listshown(u) == u.list /\ Options # <<>>
optionAt(u, opts) == IF u.list /\ u.active # 0 /\ u.active \in DOMAIN opts THEN opts[u.active] ELSE Nothing
current == IF line.active # 0 /\ line.active \in DOMAIN Options THEN line.active ELSE 0

---------------------------------------------------------------------------
\* What the handlers do to the line.

closeList(u) == [u EXCEPT !.list = FALSE, !.active = 0]

\* The menu goes once the focus is outside it and its button, the suggestions when the focus stays
\* on the line, the grown search when it leaves.
focusout(u, next) ==
    LET m == [u EXCEPT !.menu = @ /\ next \in {"menuitem", "organise"}]
    IN IF u.focus \notin LineControls \/ next = "field" THEN IF u.focus \in LineControls THEN m ELSE u
       ELSE IF next \in LineControls THEN closeList(m)
       ELSE IF u.list \/ u.searching THEN [closeList(m) EXCEPT !.searching = FALSE, !.from = Unset]
       ELSE m
Moved(u, next) == IF u.focus = next THEN u ELSE [focusout(u, next) EXCEPT !.focus = next]

\* Over the line from the third step, under the field before it; with it the other layers go.
openSearch(u, origin) ==
    LET grows == Morphs(fold) /\ ~u.searching
        opened == [u EXCEPT !.searching = @ \/ grows, !.from = IF grows THEN origin ELSE @,
                            !.menu = FALSE, !.panel = FALSE, !.list = TRUE, !.active = 0]
    IN Moved(opened, "field")

\* Back: to the control that opened it, or to the one standing in for it once the step has moved on.
closeSearch(u, back) ==
    LET closed == [closeList(u) EXCEPT !.searching = FALSE, !.from = Unset]
        candidates == <<u.from, "field", "opener">>
        standing == {i \in 1 .. 3 : candidates[i] # Unset /\ shown(candidates[i], closed, Drawing)}
        first == CHOOSE i \in standing : \A j \in standing : i <= j
    IN IF ~u.searching THEN closeList(u)
       ELSE IF back /\ standing # {} THEN Moved(closed, candidates[first])
       ELSE closed

\* A focus on the field opens the search when it is the reader's: a press on it, or a Tab just before.
Focused(u, next) == IF next = "field" /\ u.focus # "field" THEN openSearch(Moved(u, next), "field") ELSE Moved(u, next)

\* A press outside a layer closes it; a press outside the line closes the search.
pointerdown(u, target) ==
    LET searchless == IF (u.list \/ Growing(u, fold)) /\ target \notin LineControls
                      THEN [closeList(u) EXCEPT !.searching = FALSE, !.from = Unset] ELSE u
    IN [searchless EXCEPT !.panel = @ /\ target \in {"panelchip", "clear", "show", "toggle"},
                          !.menu = @ /\ target \in {"menuitem", "organise"}]

\* The line as a click on el finds it: after the press that moved the focus there, or with the focus there already.
Clicked(el) == IF ~Shown(el) THEN {}
               ELSE {Focused(pointerdown(line, el), el)} \cup (IF line.focus = el THEN {line} ELSE {})

\* Mutant: the field, folded away or not.
searchTargetField(u, d) == "field"

\* Where the keyboard goes once the control holding it is gone.
searchTarget(u, d) == IF shown("field", u, d) \/ ~shown("opener", u, d) THEN "field" ELSE "opener"

---------------------------------------------------------------------------
\* A commit: what every handler ends with.

\* A step that cannot grow the search closes it; a control that is gone from under the keyboard is blurred.
Settled(u, d) ==
    LET searching == u.searching /\ Morphs(d.fold)
        v == [u EXCEPT !.searching = searching]
    IN IF shown(v.focus, v, d) THEN v ELSE Moved(v, "body")

\* Mutant: what a change of the criteria or the text lit stays lit.
PreviewedOnly(l, is, changed, moved) ==
    IF moved /\ is # Nothing THEN <<preview(is, facts', criteria', term'), TRUE>>
    ELSE IF moved /\ previewed THEN <<Dark, FALSE>> ELSE <<l, previewed>>

\* A change of the criteria, the term or the rows ends any preview; then the option the keyboard is on previews.
Previewed(l, is, changed, moved) ==
    LET cleared == IF changed THEN Dark ELSE l
    IN IF ~moved THEN <<cleared, previewed>>
       ELSE IF is # Nothing THEN <<preview(is, facts', criteria', term'), TRUE>>
       ELSE <<IF previewed THEN Dark ELSE cleared, FALSE>>

\* The line u, the preview l the handler asked for, under the criteria, the text and the fold of the next state.
Render(u, l) ==
    \E v \in {Settled(u, Drawing')} :
    \E is \in {optionAt(v, options(facts', criteria', term', query'))} :
        LET was == optionAt(line, Options)
            reread == <<criteria, facts>> # <<criteria, facts>>'
        IN \E shownlit \in {Previewed(l, is, reread \/ term # term', reread \/ was # is)} :
             /\ line' = v
             /\ lit' = shownlit[1]
             /\ previewed' = shownlit[2]

\* A focus on the scope, the star or a panel's chip previews it, and leaving it ends its preview.
Previewing == [scope |-> Scope(criteria.scope), star |-> Star, panelchip |-> Field]
Lights(u, l) == IF u.focus = line.focus THEN l
                ELSE IF u.focus \in DOMAIN Previewing THEN preview(Previewing[u.focus], facts, criteria, term)
                ELSE IF line.focus \in DOMAIN Previewing THEN Dark ELSE l

\* The keyboard is given to el, when it is drawn in the next state.
Given(u, el) == IF shown(el, u, Drawing') THEN Moved(u, el) ELSE u

OnlyTheLine == UNCHANGED <<facts, criteria, query, term, fold>>
Erased == query' = NoText    \* eraseQuery(): applied at once, and the rows follow the deferred copy

---------------------------------------------------------------------------
LineInit ==
    /\ facts \in FactSets
    /\ criteria = [scope |-> "all", star |-> FALSE, sel |-> Unset]
    /\ query = NoText /\ term = NoText
    /\ fold = TRIES[1]
    /\ line \in [searching : {FALSE}, list : {FALSE}, active : {0}, menu : {FALSE}, panel : BOOLEAN,
                 from : {Unset}, focus : {"body"}]
    /\ lit = Dark
    /\ previewed = FALSE

\* The search.
Type(value) ==
    /\ line.focus = "field" /\ value # query
    /\ query' = value
    /\ UNCHANGED <<facts, criteria, term, fold>>
    /\ LET u == [line EXCEPT !.active = 0]
       IN Render(IF value = NoText THEN [u EXCEPT !.list = FALSE] ELSE IF ~u.list THEN openSearch(u, "field") ELSE u, lit)
Settle == term # query /\ term' = query /\ UNCHANGED <<facts, criteria, query, fold>> /\ Render(line, lit)
Origin(u) == IF u.from = Unset THEN "field" ELSE u.from
PressField == OnlyTheLine /\ \E u \in Clicked("field") : Render(IF u.list THEN u ELSE openSearch(u, Origin(u)), Lights(u, lit))
PressOpener == OnlyTheLine /\ \E u \in Clicked("opener") : Render(openSearch(u, "opener"), Lights(u, lit))
Slash == /\ line.focus # "field"
         /\ OnlyTheLine
         /\ LET u == IF fold.folded /\ ~Growing(line, fold) THEN openSearch(line, "opener") ELSE Focused(line, "field")
            IN Render(u, Lights(u, lit))
PressCloser == OnlyTheLine /\ \E u \in Clicked("closer") : Render(closeSearch(u, TRUE), Lights(u, lit))
PressEraser ==
    \E u \in Clicked("eraser") :
        /\ Erased /\ UNCHANGED <<facts, criteria, term, fold>>
        /\ Render(Given([u EXCEPT !.list = TRUE, !.active = 0], "field"), Lights(u, lit))

\* The field's keys walk the suggestions.
ArrowDown ==
    /\ line.focus = "field" /\ OnlyTheLine
    /\ LET n == Len(Options)
       IN Render(IF ~line.list THEN openSearch(line, Origin(line))
                 ELSE [line EXCEPT !.active = IF n = 0 THEN 0 ELSE (current % n) + 1], lit)
ArrowUp == line.focus = "field" /\ line.list /\ OnlyTheLine /\ Render([line EXCEPT !.active = IF current <= 1 THEN 0 ELSE current - 1], lit)

\* A filter is applied with the text dropped first and the listbox kept; a course is opened, and the page left.
Choose(u, i) ==
    IF Options[i].kind = "course"
    THEN OnlyTheLine /\ Render([closeSearch(u, FALSE) EXCEPT !.focus = "outside"], lit)
    ELSE /\ Erased
         /\ criteria' = applyCandidate(criteria, Options[i])
         /\ UNCHANGED <<facts, term, fold>>
         /\ Render([u EXCEPT !.active = 0], lit)
Enter == line.focus = "field" /\ listshown(line) /\ current # 0 /\ Choose(line, current)
PressOption(i) == Choose(pointerdown(line, "field"), i)

\* Escape: the search first where the field has it, then the panel, the menu, and the search from its other controls.
Escape ==
    /\ line.focus \in LineControls /\ OnlyTheLine
    /\ \/ line.focus = "field" /\ (line.list \/ line.searching) /\ Render(closeSearch(line, TRUE), lit)
       \/ /\ ~(line.focus = "field" /\ (line.list \/ line.searching))
          /\ LET u == IF line.panel THEN Given([line EXCEPT !.panel = FALSE], "toggle")
                      ELSE IF line.menu THEN Given([line EXCEPT !.menu = FALSE], "organise")
                      ELSE IF line.searching THEN closeSearch(line, TRUE) ELSE line
             IN u # line /\ Render(u, Lights(u, lit))

\* The panel and the menu.
PressToggle ==
    OnlyTheLine /\ \E u \in Clicked("toggle") :
        Render(IF u.panel THEN [u EXCEPT !.panel = FALSE]
               ELSE [closeSearch(u, FALSE) EXCEPT !.menu = FALSE, !.panel = TRUE], Lights(u, lit))
PressOrganise ==
    OnlyTheLine /\ \E u \in Clicked("organise") :
        Render(IF u.menu THEN [u EXCEPT !.menu = FALSE]
               ELSE [closeSearch(u, FALSE) EXCEPT !.panel = FALSE, !.menu = TRUE], Lights(u, lit))
\* A sort or a view chosen: what a preview lit is moved.
PressMenuItem == OnlyTheLine /\ \E u \in Clicked("menuitem") : Render(Given([u EXCEPT !.menu = FALSE], "organise"), Dark)
PressView == OnlyTheLine /\ \E u \in Clicked("view") : Render(u, Dark)
PressShow == OnlyTheLine /\ \E u \in Clicked("show") : Render(Given([u EXCEPT !.panel = FALSE], "toggle"), Lights(u, lit))

\* What changes the criteria.
Choosing(c, u) == criteria' = c /\ UNCHANGED <<facts, query, term, fold>> /\ Render(u, Dark)
DrawnScopes == LET status == countFacets(facts, criteria, term).status
               IN {s \in Scopes : s \in {"all", criteria.scope} \/ status[s] > 0}
Check == \E s \in DrawnScopes \ {criteria.scope}, u \in Clicked("scope") : Choosing([criteria EXCEPT !.scope = s], u)
PressStar == \E u \in Clicked("star") : Choosing([criteria EXCEPT !.star = ~@], u)
PressPanelChip == \E u \in Clicked("panelchip") : Choosing([criteria EXCEPT !.sel = IF @ = Value THEN Unset ELSE Value], u)
PressClear ==
    \E u \in Clicked("clear") :
        /\ query # NoText \/ criteria # [scope |-> "all", star |-> FALSE, sel |-> Unset]
        /\ criteria' = [scope |-> "all", star |-> FALSE, sel |-> Unset]
        /\ Erased /\ UNCHANGED <<facts, term, fold>>
        /\ Render(u, Lights(u, lit))

\* The chips: the keyboard goes to the chip that took the pressed one's place, or to the search.
After(u, chip) == IF shown(chip, u, Drawing') THEN chip ELSE searchTarget(u, Drawing')
PressValueChip ==
    \E u \in Clicked("valuechip") :
        /\ criteria' = [criteria EXCEPT !.sel = Unset]
        /\ UNCHANGED <<facts, query, term, fold>>
        /\ Render(Given(u, After(u, "textchip")), Lights(u, lit))
PressTextChip ==
    \E u \in Clicked("textchip") :
        /\ Erased /\ UNCHANGED <<facts, criteria, term, fold>>
        /\ Render(Given(u, After(u, "valuechip")), Lights(u, lit))
PressClearAll ==
    \E u \in Clicked("clearall") :
        /\ criteria' = [criteria EXCEPT !.sel = Unset]
        /\ Erased /\ UNCHANGED <<facts, term, fold>>
        /\ Render(Given(u, searchTarget(u, Drawing')), Lights(u, lit))

\* The pointer over a control, and off it.
Pointed == (IF Shown("scope") THEN {Scope(s) : s \in DrawnScopes} ELSE {})
           \cup (IF Shown("star") THEN {Star} ELSE {}) \cup (IF Shown("panelchip") THEN {Field} ELSE {})
           \cup (IF line.list THEN ToSet(Options) ELSE {})
Hover(k) == lit' = preview(k, facts, criteria, term) /\ UNCHANGED <<facts, criteria, query, term, fold, line, previewed>>
Unhover == lit # Dark /\ lit' = Dark /\ UNCHANGED <<facts, criteria, query, term, fold, line, previewed>>

\* The reader's own moves.
Tab(el) == el # line.focus /\ Shown(el) /\ OnlyTheLine /\ LET u == Focused(line, el) IN Render(u, Lights(u, lit))
PressOutside == OnlyTheLine /\ LET u == Moved(pointerdown(line, "outside"), "outside") IN Render(u, Lights(u, lit))

\* A star toggled on a row (Explore.tsx withRow).
Starred(r) == /\ isEnrolled(facts[r])
              /\ facts' = [facts EXCEPT ![r].fav = ~@]
              /\ UNCHANGED <<criteria, query, term, fold>>
              /\ Render(line, lit)

\* fit(): a new width, new words or new counts.  The fourth step moves the scope, and leaving it every other
\* control, in the document, which takes the focus from what it moves: it is given back.  A fold within the fourth step
\* gives nothing back at once, and what fit() kept of it takes the focus when the search next opens or closes
\* (FilterLine.tsx:573-582): that is left out.
TakenByMove(f) == /\ (f.step = "s4") # (fold.step = "s4")
                  /\ line.focus \in (IF f.step = "s4" THEN {"scope"} ELSE LineControls \ {"scope", "valuechip", "textchip", "clearall"})
GivenBack(f) == line
Fit(f) == /\ f # fold
          /\ fold' = f
          /\ UNCHANGED <<facts, criteria, query, term>>
          /\ Render(GivenBack(f), IF TakenByMove(f) /\ line.focus \in DOMAIN Previewing
                                  THEN preview(Previewing[line.focus], facts, criteria, term) ELSE lit)

LineNext ==
    \/ \E value \in Texts \cup {NoText} : Type(value)
    \/ Settle
    \/ PressField \/ PressOpener \/ Slash \/ PressCloser \/ PressEraser
    \/ ArrowDown \/ ArrowUp \/ Enter \/ Escape
    \/ \E i \in IF line.list THEN DOMAIN Options ELSE {} : PressOption(i)
    \/ PressToggle \/ PressOrganise \/ PressMenuItem \/ PressView \/ PressShow
    \/ Check \/ PressStar \/ PressPanelChip \/ PressClear
    \/ PressValueChip \/ PressTextChip \/ PressClearAll
    \/ \E k \in Pointed : Hover(k)
    \/ Unhover
    \/ \E el \in Controls \ {"body"} : Tab(el)
    \/ PressOutside
    \/ \E r \in Toggled : Starred(r)
    \/ \E i \in DOMAIN TRIES : Fit(TRIES[i])

LineSpec == LineInit /\ [][LineNext]_linevars
---------------------------------------------------------------------------
\* The counts drawn and suggested over some rows, under some criteria and text, hold what the lists then hold.
Kept(f, c, t, text) ==
    LET counts == countFacets(f, c, t)
        untyped == countFacets(f, c, NoText)
        held(k, u) == Cardinality(visible(f, applyCandidate(c, k), u))
    IN /\ \A k \in {Scope(s) : s \in Scopes} \cup {Star, Field} : CountOf(k, counts) = held(k, t)
       /\ \A k \in ToSet(suggest(f, c, text)) : CountOf(k, untyped) = held(k, NoText) /\ held(k, NoText) > 0

\* "A number never promises rows the press would not show" (Explore.tsx, countFacets): what the line and the
\* panel count for a control is what the list holds once it is pressed, whatever else is in force, and what a
\* suggestion counts is what the list holds once it is chosen, which drops the text.
CountsKeepTheirPromise == Kept(facts, criteria, term, query)

\* A preview on display tells the truth about the rows drawn now: it lights those that pressing the control
\* would keep and dims the others, however the criteria, the text, the stars or the layers changed since the
\* pointer or the keyboard came to the control.
PreviewTellsThePress ==
    lit # Dark =>
        /\ lit.on \cup lit.dim = visible(facts, criteria, term)
        /\ lit.of.kind = "course" => lit.on = {lit.of.key}
        /\ lit.of.kind # "course" => lit.on = visible(facts, criteria, term) \cap visible(facts, applyCandidate(criteria, lit.of), term)

\* The keyboard is never dropped to the body by a control that its own press took away, by a layer that closes
\* or by a control moved in the document.  What may drop it: a fold that hides the control, and a panel's chip
\* left with nothing to show.
KeyboardIsKept ==
    [][line.focus # "body" /\ line'.focus = "body"
         => \/ fold' # fold /\ ~shown(line.focus, line, Drawing')
            \/ line'.panel /\ counted(Drawing') = 0]_linevars
=============================================================================

--------------------------------- MODULE Block ---------------------------------
(***************************************************************************)
(* js/esm/src/Block.tsx: one page of the block.  Tier 1 loads and fills    *)
(* its cards; the calendar strip's own read (CalendarStrip.tsx) and the    *)
(* open-courses line's (useNews in OpenCourses.tsx) leave once tier 1 has  *)
(* settled, in one batch when both are wanted; any read may fail, is       *)
(* retried by repository.ts (Reads) and then waits for a Try again; the    *)
(* strip, Up next and the line write one preference (CalendarPref).        *)
(*                                                                         *)
(* A step runs its handler, the render and the effects of the render.      *)
(***************************************************************************)
EXTENDS Reads, CalendarPref, OpenCourses, FiniteSetsExt

CONSTANTS
    Configs,        \* the blocks: [calendar, line, open, favourites, starred, busy, faults, presses, gestures], line "hidden"
                    \* for the sign-in or "on", favourites whether stars are drawn, starred the courses starred before
                    \* the page, busy the views whose counts make the block busy, and the bounds: how many attempts
                    \* fail, how many times the viewer acts, and whether the line is used once drawn
    Payloads,       \* what get_attention may answer: [cards, twice, pending, more], twice the cards a favourite of which is
                    \* drawn in its own strip and in the favourites'
    DETAILS_BATCH   \* how many cards one details request takes

Views == {"learning", "teaching"}
ASSUME ConfigsAssumption ==
    Configs \subseteq [calendar : BOOLEAN, line : {"hidden", "on"}, open : BOOLEAN, favourites : BOOLEAN, starred : SUBSET Nat,
                       busy : SUBSET Views, faults : Nat, presses : Nat, gestures : BOOLEAN]

NoData == [of |-> 0, cards |-> <<>>, twice |-> NoCards, stars |-> NoCards, more |-> FALSE]

VARIABLES
    config,       \* the block's configuration
    seq,          \* the number of the last load
    data,         \* the payload drawn: [of, cards, twice, stars, more]
    error,        \* tier 1's notice: "none", "load" or "progress"
    turn,         \* the calendar's turn: 0 until tier 1 settles
    exploring,    \* whether tier 3 is open
    shape,        \* the shape of tier 1 last remembered
    strip,        \* the strip's row and counts, asked, in hand and failed
    soon,         \* Up next's reading of the view: "unasked", "quiet" or "rows"
    soonhidden,   \* whether the viewer hid Up next
    view,         \* the view drawn
    writeseq,     \* the number of the strip's last write
    news,         \* the line: [answer, failed, retrying, hidden, asked, seq]
    weighed,      \* whether the line's weight has been known once
    starred,      \* the courses starred on the server
    starring,     \* the star writes not yet answered: [card, button, mine, on, written, last], last for the star's latest
    crossed,      \* the courses whose star was written since the last load left, while it is out
    unsure,       \* the courses whose star the page may have wrong: a load crossed its write, the answer was lost or
                  \* overtaken, or tier 3 wrote it
    missed,       \* whether a failed write left the page and the preference apart
    presses       \* the presses left

tier1Vars == <<seq, data, error, exploring, shape>>
starVars == <<starred, starring, crossed, unsure>>
stripVars == <<soon, soonhidden, view, writeseq>>
pageVars == <<readVars, prefVars, config, tier1Vars, turn, strip, stripVars, news, weighed, starVars, missed, presses>>
vars == <<pageVars, lineVars>>

Press == presses > 0 /\ presses' = presses - 1

--------------------------------------------------------------------------------
\* The strip's requests and the line's, as the effects of a render send them.

\* The row, while open; again on its Try again or on tier 1's while it has failed.
RowDue(s, t) == config.calendar /\ t > 0 /\ s.open /\ s.row.asked # <<t, s.row.attempt>> /\ (~s.row.in \/ s.row.failed)
\* The counts, while closed and no row to sum is in hand.
CountsDue(s, t) ==
    /\ config.calendar /\ t > 0 /\ ~s.open /\ ~s.row.in
    /\ s.counts.asked # <<t, s.counts.attempt>> /\ (~s.counts.in \/ s.counts.failed)

AskPart(part, t) == [part EXCEPT !.asked = <<t, part.attempt>>, !.seq = @ + 1, !.retrying = @ \/ part.failed]
StripAsked(s, t) ==
    [s EXCEPT !.row = IF RowDue(s, t) THEN AskPart(@, t) ELSE @,
              !.counts = IF CountsDue(s, t) THEN AskPart(@, t) ELSE @]
StripReads(s, t) == (IF RowDue(s, t) THEN {Read("row", s.row.seq + 1)} ELSE {})
                    \cup (IF CountsDue(s, t) THEN {Read("counts", s.counts.seq + 1)} ELSE {})

\* The pair leaves when tier 1 first settles, with both wanted.
PairLeaves(t) == turn = 0 /\ t > 0 /\ config.calendar /\ config.line = "on"
\* The line asks once, then for tier 1's Try again while it has failed.
NewsDue(n, t) ==
    /\ ~n.hidden /\ t > 0
    /\ \/ config.line = "on" /\ ~n.asked
       \/ t # turn /\ n.asked /\ n.failed
NewsAsked(n, t) == IF NewsDue(n, t) THEN [n EXCEPT !.asked = TRUE, !.seq = @ + 1, !.retrying = n.failed] ELSE n
NewsReads(n, t) == IF NewsDue(n, t) THEN {Read("news", n.seq + 1)} ELSE {}

\* The line's weight: the counts in hand or failed, and Up next's first reading over.
linecounts(s) == s.row.in \/ s.counts.in
Weighed(s, u) == config.calendar /\ IF linecounts(s) THEN u # "unasked" ELSE IF s.open THEN s.row.failed ELSE s.counts.failed
\* Kept once known.
onWeight(s, u) == weighed \/ Weighed(s, u)

\* The render of a turn, a strip, a line and Up next's reading, and its effects; base is what stays out.
Render(t, s, n, u, base) ==
    LET pair == PairLeaves(t)
        asked == StripReads(s, t) \cup NewsReads(n, t)
    IN /\ turn' = t
       /\ strip' = StripAsked(s, t)
       /\ news' = NewsAsked(n, t)
       /\ soon' = u
       /\ weighed' = onWeight(s, u)
       /\ reads' = base \cup (IF pair THEN {[r EXCEPT !.batched = TRUE] : r \in asked} ELSE asked)

--------------------------------------------------------------------------------
\* Tier 1.

Completes(d) == \E c \in DOMAIN d.cards : d.cards[c] = "shown"
\* The shape an answer settled to, or the one remembered while a card's progress travels.
settledShape(d, e) ==
    IF d = NoData \/ e # "none" \/ \E c \in DOMAIN d.cards : d.cards[c] \in {"loading", "dropped"} THEN shape
    ELSE [strip |-> DOMAIN d.cards # {}, completion |-> Completes(d), ghost |-> d.more]

Draw(d, e) == data' = d /\ error' = e /\ shape' = settledShape(d, e)

Attention(mine, turns) == [Read("tier1", mine) EXCEPT !.turns = turns, !.sees = starred]
Details(r, rest) == [Read("details", r.mine) EXCEPT !.turns = r.turns, !.rest = rest]

\* A card's star buttons, and the writes as a redraw leaves them: a button that left is busy no more.
Buttons(d, c) == IF c \in d.twice THEN {"first", "second"} ELSE {"first"}
OnPage(d) ==
    {IF q.card \in DOMAIN d.cards /\ q.button \in Buttons(d, q.card) THEN q ELSE [q EXCEPT !.button = "gone"] : q \in starring}

\* A load supersedes the one before; the cards stay for a refresh.
load(keep, turns) ==
    /\ seq' = seq + 1
    /\ Draw(IF keep THEN data ELSE NoData, "none")
    /\ reads' = reads \cup {Attention(seq + 1, turns)}
    /\ crossed' = NoCards
    /\ unsure' = IF keep THEN unsure ELSE NoCards
    /\ starring' = IF keep THEN starring ELSE OnPage(NoData)

\* Mutant: every run writes.
CurrentAny(r) == r.mine <= seq
Current(r) == r.mine = seq
\* Whose turn it is once the run of r is over: a Try again's await hands the strip one more.
Turned(r) == (IF turn = 0 THEN 1 ELSE turn) + (IF r.turns THEN 1 ELSE 0)
settleTier1 == IF turn = 0 THEN 1 ELSE turn

\* The payload: tier 1 paints, the strip gets its turn, and the details of the pending cards follow.
AttentionAnswers(r, p) ==
    /\ {r} \in Attempts /\ r.kind = "tier1" /\ settle({r})
    /\ IF Current(r)
       THEN /\ Draw([of |-> r.mine, cards |-> [c \in p.cards |-> IF c \in p.pending THEN "loading" ELSE "shown"],
                     twice |-> r.sees \cap p.twice, stars |-> r.sees \cap p.cards, more |-> p.more], error)
            /\ starring' = OnPage(data') /\ unsure' = crossed /\ crossed' = NoCards
            /\ IF p.pending = {} THEN Render(Turned(r), strip, news, soon, reads \ {r})
               ELSE Render(settleTier1, strip, news, soon, (reads \ {r}) \cup {Details(r, p.pending)})
       ELSE /\ Render(Turned(r), strip, news, soon, reads \ {r})
            /\ UNCHANGED <<data, error, shape, starring, crossed, unsure>>
    /\ UNCHANGED <<faults, prefVars, config, seq, exploring, soonhidden, view, writeseq, starred, missed, presses>>

NextBatch(rest) == CHOOSE b \in kSubset(Min({DETAILS_BATCH, Cardinality(rest)}), rest) : \A c \in b, d \in rest \ b : c < d
\* Mutant: the cards of the first batch alone are let go when a batch fails.
withCardsOfABatch(d, cards, as) ==
    [d EXCEPT !.cards = [c \in DOMAIN @ |-> IF c \in cards /\ (as = "shown" \/ c \in NextBatch(cards)) THEN as ELSE @[c]]]
\* The cards of a batch filled in, on the payload as it is now.
withCards(d, cards, as) == [d EXCEPT !.cards = [c \in DOMAIN @ |-> IF c \in cards THEN as ELSE @[c]]]

\* A batch answers for the courses still the user's; the rest it drops, and their cards stay as they are, though no read
\* of theirs is to come: "dropped" is drawn as "loading".
DetailsAnswer(r) ==
    /\ {r} \in Attempts /\ r.kind = "details" /\ settle({r})
    /\ LET rest == r.rest \ NextBatch(r.rest)
       IN IF Current(r) /\ rest # {}
          THEN Render(turn, strip, news, soon, (reads \ {r}) \cup {Details(r, rest)})
          ELSE Render(Turned(r), strip, news, soon, reads \ {r})
    /\ IF Current(r)
       THEN \E theirs \in SUBSET NextBatch(r.rest) :
                Draw(withCards(withCards(data, theirs, "shown"), NextBatch(r.rest) \ theirs, "dropped"), error)
       ELSE UNCHANGED <<data, error, shape>>
    /\ UNCHANGED <<faults, prefVars, config, seq, exploring, soonhidden, view, writeseq, starVars, missed, presses>>

\* Tier 1's read gave up, of the payload or of a batch: the cards left stop claiming to load.
LoadGivesUp(r) ==
    /\ {r} \in Attempts /\ r.kind \in {"tier1", "details"} /\ isLastAttempt(r) /\ faults' = faults - 1
    /\ settle({r})
    /\ Render(Turned(r), strip, news, soon, reads \ {r})
    /\ IF ~Current(r) THEN UNCHANGED <<data, error, shape>>
       ELSE IF r.kind = "tier1" THEN Draw(data, "load")
       ELSE Draw(withCards(data, r.rest, "unknown"), "progress")
    /\ UNCHANGED <<prefVars, config, seq, exploring, soonhidden, view, writeseq, starVars, missed, presses>>

Reload(keep, turns) ==
    /\ load(keep, turns)
    /\ UNCHANGED <<retrying, reconnecting, faults, prefVars, config, turn, exploring, strip, stripVars, news, weighed,
                   starred, missed>>

\* Tier 1's Try again, the browser back online, and tier 3's change.
retry == error # "none" /\ Press /\ Reload(FALSE, TRUE)
again == error # "none" /\ Press /\ Reload(FALSE, FALSE)
refreshAttention == exploring /\ Press /\ Reload(TRUE, FALSE)

\* The ghost, which a tier 3 already open has no use for.
explore ==
    /\ data # NoData /\ data.more /\ ~exploring /\ exploring' = TRUE
    /\ UNCHANGED <<readVars, prefVars, config, seq, data, error, shape, turn, strip, stripVars, news, weighed,
                   starVars, missed, presses>>

--------------------------------------------------------------------------------
\* The star.

StarRest == <<readVars, prefVars, config, seq, error, exploring, shape, turn, strip, stripVars, news, weighed, missed>>
LoadOut == \E r \in reads : r.kind = "tier1" /\ Current(r)

\* One write at a time per button; a course drawn twice has two.
Star(c, b) ==
    /\ c \in DOMAIN data.cards /\ b \in Buttons(data, c)
    /\ \A q \in starring : ~(q.card = c /\ q.button = b)
    /\ config.favourites /\ Press
    /\ starring' = starring \cup {[card |-> c, button |-> b, mine |-> presses, on |-> c \notin data.stars,
                                   written |-> FALSE, last |-> FALSE]}
    /\ UNCHANGED <<data, starred, crossed, unsure, StarRest>>

Starred(stars, q) == IF q.on THEN stars \cup {q.card} ELSE stars \ {q.card}
\* The course's star is written: no write of it before is the latest, and a load out may have read either.
Overtaken(c) == {IF q.card = c THEN [q EXCEPT !.last = FALSE] ELSE q : q \in starring}
Crosses(c) == crossed' = IF LoadOut THEN crossed \cup {c} ELSE crossed

\* The server applies a write of tier 1's.
StarWritten(q) ==
    /\ q \in starring /\ ~q.written
    /\ starring' = (Overtaken(q.card) \ {q}) \cup {[q EXCEPT !.written = TRUE, !.last = TRUE]}
    /\ starred' = Starred(starred, q) /\ Crosses(q.card)
    /\ UNCHANGED <<data, unsure, presses, StarRest>>

\* Mutant: patched whatever the answer.
toggleFavouriteAnyway(d, q, answered) == IF q.card \in DOMAIN d.cards THEN [d EXCEPT !.stars = Starred(@, q)] ELSE d
\* The payload as it is now, patched once the write is answered; refused, the star stays as it was.
toggleFavourite(d, q, answered) ==
    IF answered /\ q.card \in DOMAIN d.cards THEN [d EXCEPT !.stars = Starred(@, q)] ELSE d

\* A write is answered, or fails: refused before it was applied, or its answer lost after.
StarAnswers(q, answered) ==
    /\ q \in starring /\ (answered => q.written)
    /\ starring' = starring \ {q}
    /\ data' = toggleFavourite(data, q, answered)
    /\ unsure' = IF answered /\ q.last THEN unsure \ {q.card} ELSE IF q.written THEN unsure \cup {q.card} ELSE unsure
    /\ UNCHANGED <<starred, crossed, presses, StarRest>>

\* Tier 3's own toggle is applied; tier 1 hears of it by the refresh that follows its answer.
ExploreStars(c) ==
    /\ exploring /\ config.favourites /\ Press
    /\ starred' = IF c \in starred THEN starred \ {c} ELSE starred \cup {c}
    /\ starring' = Overtaken(c) /\ Crosses(c) /\ unsure' = unsure \cup {c}
    /\ UNCHANGED <<data, StarRest>>

--------------------------------------------------------------------------------
\* The strip's reads and the line's.

Landed(part, ok) == [part EXCEPT !.in = @ \/ ok, !.failed = ~ok, !.retrying = FALSE]
StripAfter(s, R, ok) ==
    [s EXCEPT !.row = IF \E r \in R : r.kind = "row" /\ r.mine = @.seq THEN Landed(@, ok) ELSE @,
              !.counts = IF \E r \in R : r.kind = "counts" /\ r.mine = @.seq THEN Landed(@, ok) ELSE @]
NewsAfter(n, R, ok) ==
    IF \E r \in R : r.kind = "news" /\ r.mine = n.seq
    THEN [n EXCEPT !.answer = @ \/ ok, !.failed = ~ok, !.retrying = FALSE] ELSE n

OfTheStrip(R) == \A r \in R : r.kind \in {"row", "counts", "news"}
Over(R, ok) ==
    /\ settle(R)
    /\ Render(turn, StripAfter(strip, R, ok), NewsAfter(news, R, ok), soon, reads \ R)
    /\ UNCHANGED <<prefVars, config, tier1Vars, soonhidden, view, writeseq, starVars, missed, presses>>

ReadAnswers(R) == R \in Attempts /\ OfTheStrip(R) /\ Over(R, TRUE) /\ UNCHANGED faults
ReadGivesUp(R) ==
    /\ R \in Attempts /\ OfTheStrip(R) /\ \A r \in R : isLastAttempt(r)
    /\ faults' = faults - 1 /\ Over(R, FALSE)

blockVars == <<prefVars, config, tier1Vars, turn, strip, stripVars, news, weighed, starVars, missed, presses>>
AttemptFails(R) == R \in Attempts /\ retryLater(R) /\ UNCHANGED blockVars
RetryLeaves(r) == askAgain(r) /\ UNCHANGED blockVars

\* Up next's reading of the view, settled or failed; with no lists in hand it has nothing to read.
UpNextReads(u) ==
    /\ config.calendar /\ linecounts(strip) /\ u \in {"quiet", "rows"} /\ soon = "unasked"
    /\ Render(turn, strip, news, u, reads)
    /\ UNCHANGED <<retrying, reconnecting, faults, prefVars, config, tier1Vars, soonhidden, view, writeseq, starVars, missed, presses>>

--------------------------------------------------------------------------------
\* Where the line is drawn.

upnextshown == soon = "rows" /\ ~soonhidden
newsplace ==
    IF data # NoData /\ DOMAIN data.cards = {} /\ ~data.more THEN "empty"
    ELSE IF ~config.calendar THEN "top"
    ELSE IF ~weighed THEN "nowhere"
    ELSE IF upnextshown /\ data # NoData THEN "below" ELSE "under"
newsmode ==
    IF newsplace = "empty" THEN "tiles"
    ELSE IF newsplace \in {"under", "below"} /\ (upnextshown \/ ~linecounts(strip) \/ view \in config.busy) THEN "compact"
    ELSE "full"
LineShown == ~news.hidden /\ newsplace # "nowhere"
shown == LineShown /\ news.answer /\ ~news.failed
Line == [place |-> newsplace, mode |-> newsmode, shown |-> shown]

--------------------------------------------------------------------------------
\* The viewer's presses on the strip and on the line.

Again(s, n) ==
    /\ Press
    /\ Render(turn, s, n, soon, reads)
    /\ UNCHANGED <<retrying, reconnecting, faults, prefVars, config, tier1Vars, soonhidden, view, writeseq, starVars, missed>>

RetryRow ==
    /\ strip.open /\ strip.row.failed /\ ~strip.row.retrying
    /\ Again([strip EXCEPT !.row.attempt = @ + 1, !.row.retrying = TRUE], news)
RetryCounts ==
    /\ ~strip.open /\ ~strip.row.in /\ strip.counts.failed /\ ~strip.counts.retrying
    /\ Again([strip EXCEPT !.counts.attempt = @ + 1, !.counts.retrying = TRUE], news)
RetryNews ==
    /\ LineShown /\ news.failed /\ ~news.retrying /\ Press
    /\ news' = [news EXCEPT !.seq = @ + 1, !.retrying = TRUE]
    /\ reads' = reads \cup {Read("news", news.seq + 1)}
    /\ UNCHANGED <<retrying, reconnecting, faults, prefVars, config, tier1Vars, turn, strip, stripVars, weighed, starVars, missed>>

\* The strip's members of the preference, Up next's hide carried along.
StripMembers(v, o, h) == [view |-> v, open |-> o, soon |-> h]
Remember(by, change, before) ==
    /\ writeseq' = writeseq + 1
    /\ missed' = (missed /\ writes # <<>>)
    /\ writeCalendarPreference(by, change, writeseq + 1, before)

\* Open or close the strip, remembered at once.
setOpenRemembered ==
    /\ config.calendar /\ Press
    /\ Render(turn, [strip EXCEPT !.open = ~@], news, soon, reads)
    /\ Remember("open", StripMembers(view, ~strip.open, soonhidden), strip.open)
    /\ UNCHANGED <<retrying, reconnecting, faults, stored, config, tier1Vars, soonhidden, view, starVars>>

\* The other view: Up next may already have read it.
chooseView(u) ==
    /\ config.calendar /\ linecounts(strip) /\ Press
    /\ \E v \in Views \ {view} : view' = v /\ Remember("view", StripMembers(v, strip.open, soonhidden), FALSE)
    /\ u \in {"unasked", "quiet", "rows"} /\ Render(turn, strip, news, u, reads)
    /\ UNCHANGED <<retrying, reconnecting, faults, stored, config, tier1Vars, soonhidden, starVars>>

setSoonRemembered ==
    /\ config.calendar /\ soon = "rows" /\ Press
    /\ soonhidden' = ~soonhidden
    /\ Remember("soon", StripMembers(view, strip.open, ~soonhidden), soonhidden)
    /\ UNCHANGED <<readVars, stored, config, tier1Vars, turn, strip, soon, view, news, weighed, starVars>>

\* Hide the line for the sign-in.
hide ==
    /\ shown /\ newsmode # "tiles" /\ Press
    /\ news' = [news EXCEPT !.hidden = TRUE]
    /\ writeCalendarPreference("news", [news |-> TRUE], 0, held.news)
    /\ UNCHANGED <<readVars, stored, config, tier1Vars, turn, strip, stripVars, weighed, starVars, missed>>

\* The oldest write is applied and answered.
WriteLands ==
    /\ writes # <<>> /\ stored' = Head(writes).value /\ writes' = Tail(writes)
    /\ UNCHANGED <<readVars, held, config, tier1Vars, turn, strip, stripVars, news, weighed, starVars, missed, presses>>

\* The oldest write fails: the toggle and Up next's hide go back while they are the strip's last write, the
\* line comes back, a view stays on the page.
WriteFails(applied) ==
    /\ writes # <<>> /\ writes' = Tail(writes)
    /\ stored' = IF applied THEN Head(writes).value ELSE stored
    /\ LET w == Head(writes)
           last == w.mine = writeseq
       IN /\ IF w.by = "news" THEN putBack([news |-> w.before]) ELSE UNCHANGED held
          /\ Render(turn, IF w.by = "open" /\ last THEN [strip EXCEPT !.open = w.before] ELSE strip,
                    IF w.by = "news" THEN [news EXCEPT !.hidden = w.before] ELSE news, soon, reads)
          /\ soonhidden' = IF w.by = "soon" /\ last THEN w.before ELSE soonhidden
          /\ missed' = (missed \/ applied \/ w.by # "news" \/ Tail(writes) # <<>>)
    /\ UNCHANGED <<retrying, reconnecting, faults, config, tier1Vars, view, writeseq, starVars, presses>>

--------------------------------------------------------------------------------
Part == [asked |-> <<0, 0>>, attempt |-> 0, seq |-> 0, in |-> FALSE, failed |-> FALSE, retrying |-> FALSE]

\* The shell's props, the first load out.
Init ==
    /\ config \in Configs
    /\ seq = 1 /\ data = NoData /\ error = "none" /\ turn = 0 /\ exploring = FALSE
    /\ shape = [strip |-> FALSE, completion |-> FALSE, ghost |-> FALSE]
    /\ strip = [open |-> config.open, row |-> Part, counts |-> Part]
    /\ soon = "unasked" /\ soonhidden = FALSE /\ view = "learning" /\ writeseq = 0
    /\ news = [answer |-> FALSE, failed |-> FALSE, retrying |-> FALSE, hidden |-> config.line # "on", asked |-> FALSE, seq |-> 0]
    /\ weighed = FALSE /\ starred = config.starred /\ starring = {} /\ crossed = NoCards /\ unsure = NoCards /\ missed = FALSE
    /\ seedCalendarPreference([view |-> "learning", open |-> config.open, soon |-> FALSE, news |-> config.line = "hidden"])
    /\ reads = {Attention(1, FALSE)} /\ retrying = 0 /\ reconnecting = 0
    /\ faults = config.faults /\ presses = config.presses
    /\ LineInit

Reading ==
    \/ \E r \in reads : (\E p \in Payloads : AttentionAnswers(r, p)) \/ DetailsAnswer(r) \/ LoadGivesUp(r) \/ RetryLeaves(r)
    \/ \E R \in Attempts : ReadAnswers(R) \/ ReadGivesUp(R) \/ AttemptFails(R)
    \/ \E u \in {"quiet", "rows"} : UpNextReads(u)
Writing == WriteLands \/ \E applied \in BOOLEAN : WriteFails(applied)
Pressing ==
    \/ retry \/ again \/ refreshAttention \/ explore
    \/ RetryRow \/ RetryCounts \/ RetryNews
    \/ setOpenRemembered \/ (\E u \in {"unasked", "quiet", "rows"} : chooseView(u)) \/ setSoonRemembered \/ hide

StarSteps ==
    \/ \E c \in DOMAIN data.cards : ExploreStars(c) \/ \E b \in Buttons(data, c) : Star(c, b)
    \/ \E q \in starring : StarWritten(q) \/ \E answered \in BOOLEAN : StarAnswers(q, answered)

Using == (shown /\ config.gestures /\ Gesture(newsmode)) \/ TipTimer(newsmode)

Next ==
    \/ (Reading \/ Writing \/ Pressing \/ StarSteps) /\ LineFollows(Line, Line', ~news.hidden /\ news'.hidden)
    \/ Using /\ UNCHANGED pageVars
Spec == Init /\ [][Next]_vars

--------------------------------------------------------------------------------

OutFor(kind, mine) == \E r \in reads : r.kind = kind /\ r.mine = mine
StripWaits == IF strip.open THEN (~strip.row.in /\ ~strip.row.failed) \/ strip.row.retrying
              ELSE ~strip.row.in /\ ((~strip.counts.in /\ ~strip.counts.failed) \/ strip.counts.retrying)
NewsWaits == config.line = "on" /\ ~news.hidden /\ ((~news.answer /\ ~news.failed) \/ news.retrying)

(* Whatever says it is loading has the read that ends it out: tier 1's skeleton, a card without its progress,  *)
(* the strip's row or counts and the open-courses line, before tier 1 settles by tier 1's own read (Block.tsx, *)
(* load; CalendarStrip.tsx and OpenCourses.tsx, waiting).  A refresh that fails leaves the cards whose details *)
(* it superseded saying so under its notice, and only that one (error "load").  A card left out is the one whose *)
(* course stopped being the viewer's before its batch was read ("dropped"): the service answers nothing of it   *)
(* (get_card_details.php:41-43), load() patches only what was answered (Block.tsx:329-340), and so it says it is *)
(* loading with no read out, until tier 1 is loaded again, against Block.tsx:307-313.                            *)
WaitsHaveAReadOut ==
    LET tier1 == OutFor("tier1", seq)
    IN /\ data = NoData /\ error = "none" => tier1
       /\ error # "load" /\ (\E c \in DOMAIN data.cards : data.cards[c] = "loading") => tier1 \/ OutFor("details", seq)
       /\ config.calendar /\ StripWaits => IF turn = 0 THEN tier1
                                           ELSE OutFor(IF strip.open THEN "row" ELSE "counts",
                                                       IF strip.open THEN strip.row.seq ELSE strip.counts.seq)
       /\ NewsWaits => IF turn = 0 THEN tier1 ELSE OutFor("news", news.seq)

(* Tier 1 keeps its promise to its reader (LastAsk): the cards drawn are the last load's or none, and a load a *)
(* Try again or a refresh superseded writes neither its payload nor its progress (Block.tsx, load, seq).       *)
Tier1 == INSTANCE LastAsk WITH Slots <- {"tier1"}, asked <- [s \in {"tier1"} |-> seq], kept <- [s \in {"tier1"} |-> data.of]
LastLoadWins == Tier1!Spec

(* A star drawn is the server's unless a write of it is applied and not answered: whatever writes, of one course *)
(* from two cards, of tier 3 or of a load's payload crossed, but for the courses the page has no way to know   *)
(* (unsure), which the next answer that nothing overtook settles (Block.tsx, toggleFavourite; Star.tsx).       *)
StarsAgree ==
    \A c \in DOMAIN data.cards \ unsure :
        (\E q \in starring : q.card = c /\ q.written) \/ (c \in data.stars <=> c \in starred)

(* With no write out, the preference holds what the page shows, member by member, unless a write failed and     *)
(* the strip has not written every member since: one writer never drops another's (calendarpref.ts).                      *)
StoredIsThePage ==
    writes = <<>> /\ ~missed =>
        stored = [view |-> view, open |-> strip.open, soon |-> soonhidden, news |-> news.hidden]

(* What the viewer does to the line never leaves the keyboard on nothing: closing the popover and hiding the   *)
(* line give it to something on the page, unless the shape that opened the popover is gone (OpenCourses.tsx,   *)
(* close and hideFrom).                                                                                        *)
LineKeepsTheKeyboard ==
    [][keyboard # "lost" /\ keyboard' = "lost" => newsplace' # newsplace \/ newsmode' # newsmode \/ opener # newsmode]_vars
================================================================================

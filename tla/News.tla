-------------------------------- MODULE News --------------------------------
(***************************************************************************)
(* The open-courses line of one viewer: the news entry                     *)
(* (classes/local/news.php, news_cache.php) built from the catalogue entry *)
(* a request got (Catalogue), the category layer it groups by              *)
(* (category_meta.php), the viewer's own enrolments and the observer that  *)
(* drops the entry when they change (observer.php, access_changed).        *)
(*                                                                         *)
(* News entries of different viewers never meet: one viewer is enough.     *)
(* Names, kinds and the order and cut of the groups are left out: an entry *)
(* is the courses counted, each with its group.                            *)
(***************************************************************************)
EXTENDS Catalogue

CONSTANTS
    Sessions,   \* the sign-ins (with language and depth) requests come from
    Sees,       \* the categories core lists to the viewer
    TTL,        \* news_cache::TTL
    Probe,      \* news::NEWS_PROBE
    MaxMoves    \* bound: enrolments created or removed

ASSUME TTLAssumption == TTL \in Nat \ {0}

VARIABLES
    news,      \* {} or {entry}: the viewer's news key
    layer,     \* the category layer: category -> {} or {group}
    held,      \* courses the viewer has any enrolment row in
    roster,    \* {} or {the enrolment change under way}
    moves      \* how many enrolment changes there have been

viewer == <<news, layer, held, roster, moves>>
newsvars == <<vars, viewer>>

\* from and to of a catalogue entry: the first and the last day of its band.
Days(e) == <<Day(e.built) - e.settings.past, Day(e.built) + e.settings.ahead>>

\* A variant the runs reject: the digest is not compared.
NewsIsFreshWithoutDigest(n, session, e, now) ==
    n.session = session /\ n.days = Days(e) /\ now - n.built < TTL

NewsIsFresh(n, session, e, now) ==
    /\ n.session = session
    /\ n.days = Days(e)
    /\ n.digest = Digest(e)
    /\ now - n.built < TTL

NewsInit ==
    /\ Init
    /\ news = {}
    /\ layer = [k \in Categories |-> {}]
    /\ held \in SUBSET Courses
    /\ roster = {}
    /\ moves = 0

(***************************************************************************)
(* news::get, once catalogue::get has answered                             *)
(***************************************************************************)

NewsHit(r) ==
    /\ Goto(r, "have", "answered")
    /\ \E n \in news, s \in Sessions :
          /\ NewsIsFresh(n, s, hand[r].entry, hand[r].now)
          /\ Hold(r, [now |-> hand[r].now, entry |-> hand[r].entry, news |-> n, session |-> s])
    /\ UNCHANGED <<site, catalogue, viewer>>

Counted(probed) == {a \in probed : a.id \notin held}

\* The lookup that misses, then condition 4: the probe drops the courses the
\* viewer holds an enrolment or a role in.
ReadHistory(r) ==
    /\ Goto(r, "have", "listable")
    /\ \E s \in Sessions :
          /\ \A n \in news : ~NewsIsFresh(n, s, hand[r].entry, hand[r].now)
          /\ LET probed == FirstOf(hand[r].entry.rows, Probe)
             IN  Hold(r,
                    [now     |-> hand[r].now,
                     entry   |-> hand[r].entry,
                     session |-> s,
                     news    |-> [counted |-> Counted(probed),
                               dropped |-> Ids(probed) \cap held,
                               session |-> s,
                               days    |-> Days(hand[r].entry),
                               digest  |-> Digest(hand[r].entry),
                               built   |-> hand[r].now,
                               raced   |-> roster # {}]])
    /\ UNCHANGED <<site, catalogue, viewer>>

\* listable() and groups() read the category layer (the second read is served
\* by the request's static acceleration): a miss is filled from the database,
\* a course core would not list is dropped, and each other one is grouped
\* under the ancestor the layer gives.  What core lists is Sees, fixed: that
\* listable() takes a category's visible column from the entry and follows it
\* up the entry's path is left out.
ReadLayer(r) ==
    /\ Goto(r, "listable", "provider")
    /\ LET GroupOf(k) == IF layer[k] = {} THEN db.group[k] ELSE CHOOSE g \in layer[k] : TRUE
           asked      == {a.category : a \in hand[r].news.counted}
       IN  /\ layer' = [k \in Categories |-> IF k \in asked THEN {GroupOf(k)} ELSE layer[k]]
           /\ hand' = [hand EXCEPT ![r].news.counted =
                          {[a EXCEPT !.group = GroupOf(a.category)] :
                              a \in {x \in @ : {x.category, GroupOf(x.category)} \subseteq Sees}}]
    /\ UNCHANGED <<site, catalogue, news, held, roster, moves>>

\* access::get_next_actions() and filter_courses(): the provider decides at
\* its own time() whether a course is open to the viewer.
AskProvider(r) ==
    /\ Goto(r, "provider", "storenews")
    /\ hand' = [hand EXCEPT ![r].news.counted =
                   {a \in @ : db.course[a.id].visible /\ Offers(db.window[a.id], clock)}]
    /\ UNCHANGED <<site, catalogue, viewer>>

StoreNews(r) ==
    /\ Goto(r, "storenews", "answered")
    /\ news' = {hand[r].news}
    /\ UNCHANGED <<site, catalogue, hand, layer, held, roster, moves>>

\* The service returns what get() gave it.
Answer(r) ==
    /\ Goto(r, "answered", "idle")
    /\ Hold(r, NoHand)
    /\ UNCHANGED <<site, catalogue, viewer>>

(***************************************************************************)
(* The viewer's enrolments                                                 *)
(***************************************************************************)

MarkNewsRaced ==
    hand' = [r \in Requests |->
        IF pc[r] \in {"listable", "provider", "storenews"}
        THEN [hand[r] EXCEPT !.news.raced = TRUE] ELSE hand[r]]

\* user_enrolment_created is not observed, user_enrolment_deleted is.
BeginMove ==
    /\ roster = {}
    /\ moves < MaxMoves
    /\ moves' = moves + 1
    /\ \E c \in Courses :
          roster' = {[course |-> c, committed |-> FALSE, observed |-> c \notin held]}
    /\ MarkNewsRaced
    /\ UNCHANGED <<site, catalogue, pc, news, layer, held>>

CommitMove ==
    /\ \E w \in roster :
          /\ ~w.committed
          /\ held' = (held \ {w.course}) \cup ({w.course} \ held)
          /\ roster' = IF w.observed THEN {} ELSE {[w EXCEPT !.committed = TRUE]}
    /\ MarkNewsRaced
    /\ UNCHANGED <<site, catalogue, pc, news, layer, moves>>

\* A variant the runs reject: the removal drops no news entry.
AccessChangedKeepsNews ==
    /\ \E w \in roster :
          /\ ~w.observed
          /\ roster' = IF w.committed THEN {} ELSE {[w EXCEPT !.observed = TRUE]}
    /\ MarkNewsRaced
    /\ UNCHANGED <<site, catalogue, pc, news, layer, held, moves>>

AccessChanged ==
    /\ \E w \in roster :
          /\ ~w.observed
          /\ roster' = IF w.committed THEN {} ELSE {[w EXCEPT !.observed = TRUE]}
    /\ news' = {}
    /\ MarkNewsRaced
    /\ UNCHANGED <<site, catalogue, pc, layer, held, moves>>

\* A category's update drops its layer entry before the site's key; only the
\* site's events reach the catalogue.
ObserveWithLayer ==
    /\ Observe
    /\ layer' = [k \in Categories |->
          IF \E w \in writer : w.change.kind = "course_category_updated" /\ w.change.category = k
          THEN {} ELSE layer[k]]
    /\ UNCHANGED <<news, held, roster, moves>>

NewsNext ==
    \/ \E r \in Requests :
          \/ Look(r) /\ UNCHANGED viewer
          \/ NewsHit(r) \/ ReadHistory(r) \/ ReadLayer(r) \/ AskProvider(r)
          \/ StoreNews(r) \/ Answer(r)
    \/ BeginMove \/ CommitMove \/ AccessChanged
    \/ ObserveWithLayer
    \/ (BeginChange \/ Commit \/ Configure \/ Tick) /\ UNCHANGED viewer

NewsSpec == NewsInit /\ [][NewsNext]_newsvars

(***************************************************************************)
(* Properties                                                              *)
(***************************************************************************)

\* Whatever was cached and whatever changed meanwhile, a viewer is answered
\* from the rows of the catalogue the request got (no count outlives a change
\* of the rows) and is named no category core would not list to them.
AnswerFollowsTheCatalogue ==
    \A r \in Requests : pc[r] = "answered" =>
        /\ Ids(hand[r].news.counted) \subseteq Ids(hand[r].entry.rows)
        /\ hand[r].news.dropped \subseteq Ids(hand[r].entry.rows)
        /\ \A a \in hand[r].news.counted : a.group \in Sees

\* A course the viewer no longer holds is not withheld by an entry that no
\* enrolment change overlapped: the removal drops it, whatever its age.
WithdrawalIsSeen ==
    roster = {} => \A n \in news : ~n.raced => n.dropped \subseteq held
=============================================================================

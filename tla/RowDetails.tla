----------------------------- MODULE RowDetails -----------------------------
(***************************************************************************)
(* js/esm/src/rowdetails.ts: the hook that fetches the details of the tier *)
(* 3 rows somebody is looking at.  Rows register their element as they     *)
(* mount; one IntersectionObserver reports the elements that come near the *)
(* viewport or leave it; a fixed interval sends the pending rows, a batch  *)
(* at a time, one request out at a time; a failed batch waits for "Try     *)
(* again".                                                                 *)
(*                                                                         *)
(* The browser's tasks are the actions: a mount or unmount, a report of    *)
(* the observer and its delivery, a tick, an answer, a press.  Where there *)
(* is no IntersectionObserver a row is asked for as it mounts (gated).     *)
(***************************************************************************)
EXTENDS Integers, Sequences, SequencesExt, FiniteSets

CONSTANTS
    Rows,
    BATCH,      \* ids the service takes in one call
    MaxMounts,  \* bound: elements that ever show a row
    MaxScrolls, \* bound: times an element crosses the edge of the viewport
    MaxRetries  \* bound: presses of Try again

ASSUME RowsAssumption == IsFiniteSet(Rows)
ASSUME CallAssumption == BATCH \in Nat \ {0}

Elements == 1 .. MaxMounts

VARIABLES
    gated,       \* the browser has an IntersectionObserver
    page,        \* [Rows -> the element that shows the row, or 0]
    near,        \* the elements within the buffer of the viewport
    watched,     \* [the elements observed -> the last report: "new", "in", "out"]
    notes,       \* reports the observer's callback has not been given yet
    idofelement, elementofid,
    desk,        \* [pending, waiting, timer]
    inflight, filled, failedids,
    gone,        \* the region is unmounted
    mounts, scrolls, retries,
    asked        \* history: requests that held the row, since the last Try again

browser == <<gated, page, near, mounts, scrolls>>
refs == <<idofelement, elementofid>>
requests == <<inflight, filled, failedids, asked>>
detailsvars == <<gated, page, near, watched, notes, idofelement, elementofid, desk, inflight,
          filled, failedids, gone, mounts, scrolls, retries, asked>>

DetailsInit ==
    /\ gated \in BOOLEAN
    /\ page = [r \in Rows |-> 0]
    /\ near = {} /\ watched = <<>> /\ notes = <<>>
    /\ idofelement = <<>> /\ elementofid = <<>>
    /\ desk = [pending |-> <<>>, waiting |-> {}, timer |-> FALSE]
    /\ inflight = {} /\ filled = {} /\ failedids = {}
    /\ gone = FALSE
    /\ mounts = 0 /\ scrolls = 0 /\ retries = 0
    /\ asked = [r \in Rows |-> 0]

Put(f, k, v) == [x \in DOMAIN f \cup {k} |-> IF x = k THEN v ELSE f[x]]
Cut(f, keys) == [x \in DOMAIN f \ keys |-> f[x]]

\* The elements registered for a set of rows.
Registered(ids) == {elementofid[r] : r \in ids \cap DOMAIN elementofid}

(***************************************************************************)
(* want(), drop(), release()                                               *)
(***************************************************************************)

\* want(): the row joins the pending set, shows a skeleton, starts the interval.
Wanted(d, r, answered) ==
    IF r \in answered \cup ToSet(d.pending) \cup inflight THEN d
    ELSE [pending |-> Append(d.pending, r), waiting |-> d.waiting \cup {r}, timer |-> TRUE]

\* want() of each of some ids, in the given order.
AllWanted(d, ids) ==
    IF ids = <<>> THEN d
    ELSE [pending |-> d.pending \o ids, waiting |-> d.waiting \cup ToSet(ids), timer |-> TRUE]

\* A set of ids holds an id once.
Without(ids, r) == RemoveAt(ids, CHOOSE i \in DOMAIN ids : ids[i] = r)

\* drop(): nothing happens to a row whose request is out.
Dropped(d, r) ==
    IF r \notin ToSet(d.pending) THEN d
    ELSE [d EXCEPT !.pending = Without(@, r), !.waiting = @ \ {r}]

\* A variant the runs reject: a failed row may be asked for again on a scroll.
ReleasedIfAnswered(ids, ok) == IF ok THEN filled \cup ids ELSE filled

\* release(), of a batch that was answered or failed.
Released(ids, ok) == filled \cup ids

(***************************************************************************)
(* Mounting and unmounting                                                 *)
(***************************************************************************)

\* observe(): a row that is filled is not registered.
Observe(r, e) ==
    IF r \in filled THEN UNCHANGED <<refs, watched, desk>>
    ELSE /\ idofelement' = Put(idofelement, e, r)
         /\ elementofid' = Put(elementofid, r, e)
         /\ IF gated
            THEN watched' = Put(watched, e, "new") /\ UNCHANGED desk
            ELSE desk' = Wanted(desk, r, filled) /\ UNCHANGED watched

Mount(r) ==
    /\ ~gone /\ page[r] = 0
    /\ mounts < MaxMounts
    /\ mounts' = mounts + 1
    /\ page' = [page EXCEPT ![r] = mounts']
    /\ near' \in {near, near \cup {mounts'}}
    /\ Observe(r, mounts')
    /\ UNCHANGED <<gated, notes, requests, gone, scrolls, retries>>

\* The cleanup observe() returned; the element of a row that was filled when it
\* mounted has only its (absent) idofelement entry to remove.
Cleanup(r, e) ==
    IF e \notin DOMAIN idofelement THEN UNCHANGED <<watched, refs, desk>>
    ELSE /\ watched' = Cut(watched, {e})
         /\ idofelement' = Cut(idofelement, {e})
         /\ elementofid' = Cut(elementofid, {k \in {r} \cap DOMAIN elementofid : elementofid[k] = e})
         /\ desk' = Dropped(desk, r)

Unmount(r) ==
    /\ page[r] # 0
    /\ page' = [page EXCEPT ![r] = 0]
    /\ near' = near \ {page[r]}
    /\ Cleanup(r, page[r])
    /\ UNCHANGED <<gated, notes, requests, gone, mounts, scrolls, retries>>

\* The region unmounts with every row: no interval, no observer.
Leave ==
    /\ ~gone /\ gone' = TRUE
    /\ page' = [r \in Rows |-> 0]
    /\ near' = {} /\ watched' = <<>>
    /\ idofelement' = <<>> /\ elementofid' = <<>>
    /\ desk' = [pending |-> <<>>, waiting |-> desk.waiting \ ToSet(desk.pending), timer |-> FALSE]
    /\ UNCHANGED <<gated, notes, requests, mounts, scrolls, retries>>

(***************************************************************************)
(* The observer                                                            *)
(***************************************************************************)

Scroll(r) ==
    /\ page[r] # 0
    /\ scrolls < MaxScrolls
    /\ scrolls' = scrolls + 1
    /\ near' = IF page[r] \in near THEN near \ {page[r]} ELSE near \cup {page[r]}
    /\ UNCHANGED <<gated, page, mounts, watched, notes, refs, desk, requests, gone, retries>>

Position(e) == IF e \in near THEN "in" ELSE "out"

\* A frame reports an element it never reported, or that crossed the edge.
Report(e) ==
    /\ e \in DOMAIN watched
    /\ watched[e] # Position(e)
    /\ watched' = [watched EXCEPT ![e] = Position(e)]
    /\ notes' = Append(notes, [el |-> e, at |-> Position(e)])
    /\ UNCHANGED <<browser, refs, desk, requests, gone, retries>>

\* What one report does to the desk: it may be about an element unregistered since.
Heard(d, note) ==
    IF note.el \notin DOMAIN idofelement THEN d
    ELSE IF note.at = "in" THEN Wanted(d, idofelement[note.el], filled)
    ELSE Dropped(d, idofelement[note.el])

\* The callback's loop: the desk after the first n reports, for each n.
DeskAfter ==
    LET after[n \in 0 .. Len(notes)] == IF n = 0 THEN desk ELSE Heard(after[n - 1], notes[n])
    IN  after

\* The callback takes the reports there are, in order.
Deliver ==
    /\ notes # <<>>
    /\ notes' = <<>>
    /\ desk' = DeskAfter[Len(notes)]
    /\ UNCHANGED <<browser, watched, refs, requests, gone, retries>>

(***************************************************************************)
(* The interval, the answer and Try again                                  *)
(***************************************************************************)

\* A variant the runs reject: the interval stops while a request is out.
FlushThatStops ==
    /\ desk.timer
    /\ IF inflight # {} \/ desk.pending = <<>>
       THEN desk' = [desk EXCEPT !.timer = FALSE] /\ UNCHANGED requests
       ELSE LET batch == SubSeq(desk.pending, 1, IF Len(desk.pending) < BATCH THEN Len(desk.pending) ELSE BATCH)
            IN  /\ desk' = [desk EXCEPT !.pending = SubSeq(@, Len(batch) + 1, Len(@))]
                /\ inflight' = ToSet(batch)
                /\ asked' = [r \in Rows |-> asked[r] + (IF r \in inflight' THEN 1 ELSE 0)]
                /\ UNCHANGED <<filled, failedids>>
    /\ UNCHANGED <<browser, watched, notes, refs, gone, retries>>

\* flush(): while a request is out a tick does nothing; with nothing pending it
\* stops the interval; else it sends the rows seen first.
Flush ==
    /\ desk.timer /\ inflight = {}
    /\ IF desk.pending = <<>>
       THEN desk' = [desk EXCEPT !.timer = FALSE] /\ UNCHANGED requests
       ELSE LET batch == SubSeq(desk.pending, 1, IF Len(desk.pending) < BATCH THEN Len(desk.pending) ELSE BATCH)
            IN  /\ desk' = [desk EXCEPT !.pending = SubSeq(@, Len(batch) + 1, Len(@))]
                /\ inflight' = ToSet(batch)
                /\ asked' = [r \in Rows |-> asked[r] + (IF r \in inflight' THEN 1 ELSE 0)]
                /\ UNCHANGED <<filled, failedids>>
    /\ UNCHANGED <<browser, watched, notes, refs, gone, retries>>

\* The answer, or the failure: every row of the batch is filled and unobserved.
Answer(ok) ==
    /\ inflight # {}
    /\ inflight' = {}
    /\ filled' = Released(inflight, ok)
    /\ failedids' = IF ok THEN failedids ELSE failedids \cup inflight
    /\ watched' = Cut(watched, Registered(inflight))
    /\ desk' = [desk EXCEPT !.waiting = @ \ inflight]
    /\ UNCHANGED <<browser, notes, refs, asked, gone, retries>>

\* retry(): the failed rows that are registered are observed afresh; with no
\* observer they are wanted in the order they failed in, here any.
Retry ==
    /\ ~gone /\ failedids # {}
    /\ retries < MaxRetries
    /\ retries' = retries + 1
    /\ failedids' = {}
    /\ filled' = filled \ failedids
    /\ IF gated
       THEN /\ watched' = [e \in DOMAIN watched \cup Registered(failedids) |->
                              IF e \in Registered(failedids) THEN "new" ELSE watched[e]]
            /\ UNCHANGED desk
       ELSE /\ \E ids \in SetToSeqs((failedids \cap DOMAIN elementofid) \ (ToSet(desk.pending) \cup inflight)) :
                  desk' = AllWanted(desk, ids)
            /\ UNCHANGED watched
    /\ asked' = [r \in Rows |-> IF r \in failedids THEN 0 ELSE asked[r]]
    /\ UNCHANGED <<browser, notes, refs, inflight, gone>>

DetailsNext ==
    \/ \E r \in Rows : Mount(r) \/ Unmount(r) \/ Scroll(r)
    \/ \E e \in Elements : Report(e)
    \/ \E ok \in BOOLEAN : Answer(ok)
    \/ Deliver \/ Flush \/ Retry \/ Leave

\* The browser's own steps are fair, and a request ends one way or the other;
\* nothing obliges the reader to scroll, press or stay.
Fairness ==
    /\ WF_detailsvars(\E e \in Elements : Report(e))
    /\ WF_detailsvars(Deliver)
    /\ WF_detailsvars(Flush)
    /\ WF_detailsvars(\E ok \in BOOLEAN : Answer(ok))

DetailsSpec == DetailsInit /\ [][DetailsNext]_detailsvars /\ Fairness

(***************************************************************************)
(* Properties                                                              *)
(***************************************************************************)

\* "A row is filled once": whatever scrolls, remounts and declines, no row is in
\* a second request until the reader presses Try again.
RequestedOnce ==
    \A r \in Rows : asked[r] <= 1

\* A registered row that stays in view is filled in the end: the interval does
\* not stop, and no scroll or remount loses it.
ViewedRowIsAnswered ==
    \A r \in Rows :
        <>[](r \in DOMAIN elementofid /\ page[r] \in near) => <>[](r \in filled)

=============================================================================

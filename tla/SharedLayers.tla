---------------------------- MODULE SharedLayers ----------------------------
(***************************************************************************)
(* The course layer and the category layer: classes/local/course_meta.php  *)
(* and category_meta.php, two caches shared by every user, without a TTL,  *)
(* that a request fills for the keys it misses and the observers delete    *)
(* from, key by key (observer.php, hook_callbacks.php).                    *)
(*                                                                         *)
(* A fill is three steps: the lookup, the statement and the store.  Core's *)
(* writers are the sequences of their statements, events and hooks: an     *)
(* edit, a deletion that only marks the course (with a listener that may   *)
(* abort it), one that removes it, a category that moves, and one whose    *)
(* children move out one by one before it goes.                            *)
(***************************************************************************)
EXTENDS Integers, Sequences, SequencesExt, FiniteSets, TLC

CONSTANTS
    Requests,
    Courses,
    Categories,
    Top,       \* the parent of a root
    Tree,      \* [Categories -> Categories \cup {Top}], the parents at first
    Home,      \* [Courses -> Categories], the courses' categories at first
    Asks,      \* sets of keys a request may ask for
    MaxChanges \* bound: changes of the site

\* No category is its own ancestor: some ranks grow from every parent to its children.
Ranks(up, rank) == \A k \in DOMAIN up : up[k] # Top => up[k] \in DOMAIN up /\ rank[up[k]] < rank[k]
ASSUME TreeAssumption ==
    /\ Tree \in [Categories -> Categories \cup {Top}] /\ Top \notin Categories
    /\ IsFiniteSet(Categories) /\ \E rank \in [Categories -> 0 .. Cardinality(Categories)] : Ranks(Tree, rank)
ASSUME HomeAssumption == Home \in [Courses -> Categories]
ASSUME KeysAssumption == Courses \cap Categories = {}
ASSUME AsksAssumption == Asks \subseteq SUBSET (Courses \cup Categories)

VARIABLES
    row,    \* [the courses there are -> [edit, deleting]]
    parent, \* [the categories there are -> category or Top]
    path,   \* [the categories there are -> ids, root first], as stored
    place,  \* [Courses -> [category, path: how often core rewrote the context path]]
    moved,  \* [Courses -> place.path after the last move of a category above] (history)
    cache,  \* [the keys held -> [value, place, late, torn]]
    writer, \* {} or {the change under way}
    pc, hand,
    changes

site == <<row, parent, path, place, moved, writer, changes>>
vars == <<row, parent, path, place, moved, cache, writer, pc, hand, changes>>

\* course_categories.path as fix_course_sortorder() computes it.
PathOf(up) ==
    LET f[k \in DOMAIN up] == IF up[k] = Top THEN <<k>> ELSE Append(f[up[k]], k)
    IN  f

\* The row a statement finds for a key.
Value(k) == IF k \in Courses THEN row[k] ELSE path[k]

\* Its columns that a category's move rewrites, a course's only.
NoPlace == [category |-> Top, path |-> 0]
PlaceOf(k) == IF k \in Courses THEN place[k] ELSE NoPlace

Init ==
    /\ row = [c \in Courses |-> [edit |-> 0, deleting |-> FALSE]]
    /\ parent = Tree
    /\ path = PathOf(Tree)
    /\ place = [c \in Courses |-> [category |-> Home[c], path |-> 0]]
    /\ moved = [c \in Courses |-> 0]
    /\ cache = <<>>
    /\ writer = {}
    /\ pc = [r \in Requests |-> "idle"]
    /\ hand = [r \in Requests |-> [missing |-> {}, rows |-> <<>>]]
    /\ changes = 0

(***************************************************************************)
(* Readers                                                                 *)
(***************************************************************************)

\* get_many() looks its keys up; the strip's and the cards' statements carry
\* the course columns of every row, cached or not.
GetMany(r) ==
    /\ pc[r] = "idle"
    /\ \E ask \in Asks :
          \E missing \in {ask \ DOMAIN cache} \cup {ask \cap Courses} :
              /\ missing # {}
              /\ hand' = [hand EXCEPT ![r] = [missing |-> missing, rows |-> <<>>]]
    /\ pc' = [pc EXCEPT ![r] = "read"]
    /\ UNCHANGED <<site, cache>>

\* One statement for the missing keys.  Torn: the tree's paths are behind its
\* parents at this moment.
ReadRows(r) ==
    /\ pc[r] = "read"
    /\ LET found == hand[r].missing \cap (DOMAIN row \cup DOMAIN path)
       IN  hand' = [hand EXCEPT ![r].rows =
              [k \in found |-> [value |-> Value(k), place |-> PlaceOf(k), late |-> FALSE,
                                torn |-> k \in Categories /\ path # PathOf(parent)]]]
    /\ pc' = [pc EXCEPT ![r] = "set"]
    /\ UNCHANGED <<site, cache>>

\* set_from_rows(): what the statement found is stored.
SetMany(r) ==
    /\ pc[r] = "set"
    /\ LET rows == hand[r].rows
       IN  cache' = [k \in DOMAIN rows \cup DOMAIN cache |->
              IF k \in DOMAIN rows THEN rows[k] ELSE cache[k]]
    /\ hand' = [hand EXCEPT ![r] = [missing |-> {}, rows |-> <<>>]]
    /\ pc' = [pc EXCEPT ![r] = "idle"]
    /\ UNCHANGED site

(***************************************************************************)
(* The deletes of the observers.  A row read before the delete of its key  *)
(* and stored after it is late.                                            *)
(***************************************************************************)

Without(keys) == [k \in DOMAIN cache \ keys |-> cache[k]]

LateIn(rows, keys) == [k \in DOMAIN rows |-> [rows[k] EXCEPT !.late = @ \/ k \in keys]]

MarkLate(keys) == hand' = [r \in Requests |-> [hand[r] EXCEPT !.rows = LateIn(@, keys)]]

Drop(keys) == cache' = Without(keys) /\ MarkLate(keys)

\* "/<id>/" occurs in the path: the id is in it, and not at its end.
Descendants(k) ==
    {d \in DOMAIN path : \E i \in 1 .. Len(path[d]) - 1 : path[d][i] = k}

\* A variant the runs reject: only the category itself is dropped.
DropCategoryAlone(k) == Drop({k})

\* course_category_updated: the category and everything under it.
DropCategory(k) == Drop({k} \cup Descendants(k))

\* A variant the runs reject: the hook records what core is about to record.
ForgetAndRecord(c) ==
    /\ cache' = [k \in DOMAIN cache |->
          IF k = c THEN [cache[k] EXCEPT !.value.deleting = TRUE] ELSE cache[k]]
    /\ MarkLate({c})

\* forget_until_marked(), its first delete.
Forget(c) == Drop({c})

\* A variant the runs reject: nothing is dropped when the request ends.
ForgetOnce(c) == UNCHANGED <<cache, hand>>

\* forget_until_marked(), its second delete, registered for the shutdown.
ForgetAgain(c) == Drop({c})

(***************************************************************************)
(* Core's writers                                                          *)
(***************************************************************************)

Quiet == UNCHANGED <<cache, hand>>
Step(w, to) == writer' = {[w EXCEPT !.step = to]}
Done == writer' = {}

Edit(c) ==
    writer' = {[op |-> "edit", key |-> c, step |-> "commit"]}
MarkForDeletion(c) ==
    writer' = {[op |-> "mark", key |-> c, step |-> "hook"]}
Delete(c) ==
    writer' = {[op |-> "delete", key |-> c, step |-> "hook"]}
Under(k) == {k} \cup Descendants(k)
Move(k, to) ==
    writer' = {[op |-> "move", key |-> k, to |-> to, step |-> "commit"]}
Dissolve(k, to) ==
    writer' = {[op |-> "dissolve", key |-> k, to |-> to, step |-> "child"]}

BeginChange ==
    /\ writer = {}
    /\ changes < MaxChanges
    /\ changes' = changes + 1
    /\ \/ \E c \in DOMAIN row :
             Edit(c) \/ (~row[c].deleting /\ MarkForDeletion(c)) \/ Delete(c)
       \/ \E k \in DOMAIN path : \E to \in (DOMAIN path \cup {Top}) \ Under(k) :
             \/ to # parent[k] /\ Move(k, to)
             \/ to # Top /\ Dissolve(k, to)
    /\ UNCHANGED <<row, parent, path, place, moved, cache, pc, hand>>

\* The courses of some categories: what becomes of their context paths.
Rewritten(cats) ==
    [c \in Courses |-> IF place[c].category \in cats THEN [place[c] EXCEPT !.path = @ + 1] ELSE place[c]]

\* context::update_moved() on a category: every context under it, its courses'
\* too; no event tells the courses.
UpdateMoved(k) ==
    /\ place' = Rewritten(Under(k))
    /\ moved' = [c \in Courses |-> IF place[c].category \in Under(k) THEN place[c].path + 1 ELSE moved[c]]

\* A course changes its category: its row and its context path.
MoveCourse(c, to) ==
    /\ place' = [place EXCEPT ![c] = [category |-> to, path |-> place[c].path + 1]]
    /\ UNCHANGED moved

Stay == UNCHANGED <<place, moved>>

\* update_course(): the record, the category with it or not, then the event.
EditStep(w) ==
    /\ w.op = "edit"
    /\ \/ /\ w.step = "commit" /\ Step(w, "event")
          /\ row' = [row EXCEPT ![w.key].edit = @ + 1]
          /\ Stay \/ \E to \in DOMAIN path \ {place[w.key].category} : MoveCourse(w.key, to)
          /\ Quiet
       \/ /\ w.step = "event" /\ Done
          /\ Drop({w.key})
          /\ UNCHANGED row /\ Stay
    /\ UNCHANGED <<parent, path>>

\* Both deletions dispatch the hook; a listener after this block's may abort.
HookStep(w) ==
    /\ w.op \in {"mark", "delete"} /\ w.step = "hook"
    /\ \E to \in {"effect", "shutdown"} : Step(w, to)
    /\ Forget(w.key)
    /\ UNCHANGED <<row, parent, path>> /\ Stay

\* Marking hides the course and flags it, in two statements without an event.
MarkStep(w) ==
    /\ w.op = "mark"
    /\ \/ /\ w.step = "effect" /\ Step(w, "flag")
          /\ row' = [row EXCEPT ![w.key].edit = @ + 1]
       \/ /\ w.step = "flag" /\ Step(w, "shutdown")
          /\ row' = [row EXCEPT ![w.key].deleting = TRUE]
    /\ Quiet
    /\ UNCHANGED <<parent, path>> /\ Stay

\* Deleting removes it, then raises course_deleted.
DeleteStep(w) ==
    /\ w.op = "delete"
    /\ \/ /\ w.step = "effect" /\ Step(w, "event")
          /\ row' = [c \in DOMAIN row \ {w.key} |-> row[c]]
          /\ Quiet
       \/ /\ w.step = "event" /\ Step(w, "shutdown")
          /\ Drop({w.key})
          /\ UNCHANGED row
    /\ UNCHANGED <<parent, path>> /\ Stay

ShutdownStep(w) ==
    /\ w.op \in {"mark", "delete"} /\ w.step = "shutdown"
    /\ Done
    /\ ForgetAgain(w.key)
    /\ UNCHANGED <<row, parent, path>> /\ Stay

\* change_parent(): the parent, the contexts and every path under it, then the
\* event.  course_category_updated() drops no course's entry.
MoveStep(w) ==
    /\ w.op = "move"
    /\ \/ /\ w.step = "commit" /\ Step(w, "event")
          /\ parent' = [parent EXCEPT ![w.key] = w.to]
          /\ path' = PathOf(parent')
          /\ UpdateMoved(w.key)
          /\ Quiet
       \/ /\ w.step = "event" /\ Done
          /\ DropCategory(w.key)
          /\ UNCHANGED <<parent, path>> /\ Stay
    /\ UNCHANGED row

DissolveTo(w, child, step) ==
    writer' = {[op |-> "dissolve", key |-> w.key, to |-> w.to, child |-> child, step |-> step]}

\* delete_move(): each child's new parent and its event, then the paths of all,
\* then each course of the category and its event, then the category goes.
DissolveStep(w) ==
    /\ w.op = "dissolve"
    /\ \/ \E k \in DOMAIN parent :
             /\ w.step = "child" /\ parent[k] = w.key
             /\ DissolveTo(w, k, "childevent")
             /\ parent' = [parent EXCEPT ![k] = w.to]
             /\ UpdateMoved(k)
             /\ Quiet /\ UNCHANGED path
       \/ /\ w.step = "childevent" /\ Step(w, "child")
          /\ DropCategory(w.child)
          /\ UNCHANGED <<parent, path>> /\ Stay
       \/ /\ w.step = "child" /\ \A k \in DOMAIN parent : parent[k] # w.key
          /\ Step(w, "remove")
          /\ path' = PathOf(parent)
          /\ Quiet /\ UNCHANGED parent /\ Stay
       \/ \E c \in DOMAIN row :
             /\ w.step = "remove" /\ place[c].category = w.key
             /\ DissolveTo(w, c, "courseevent")
             /\ MoveCourse(c, w.to)
             /\ Quiet /\ UNCHANGED <<parent, path>>
       \/ /\ w.step = "courseevent" /\ Step(w, "remove")
          /\ Drop({w.child})
          /\ UNCHANGED <<parent, path>> /\ Stay
       \/ /\ w.step = "remove" /\ \A c \in DOMAIN row : place[c].category # w.key
          /\ Step(w, "event")
          /\ parent' = [k \in DOMAIN parent \ {w.key} |-> parent[k]]
          /\ path' = [k \in DOMAIN path \ {w.key} |-> path[k]]
          /\ Quiet /\ Stay
       \/ /\ w.step = "event" /\ Done
          /\ Drop({w.key})
          /\ UNCHANGED <<parent, path>> /\ Stay
    /\ UNCHANGED row

Write ==
    /\ \E w \in writer :
          \/ EditStep(w) \/ HookStep(w) \/ MarkStep(w) \/ DeleteStep(w) \/ ShutdownStep(w)
          \/ MoveStep(w) \/ DissolveStep(w)
    /\ UNCHANGED <<pc, changes>>

Next ==
    \/ \E r \in Requests : GetMany(r) \/ ReadRows(r) \/ SetMany(r)
    \/ BeginChange \/ Write

Spec == Init /\ [][Next]_vars

(***************************************************************************)
(* Properties                                                              *)
(***************************************************************************)

\* An entry that was not stored late is the course's record, once no change is
\* under way: also when the course was marked for deletion without an event, a
\* listener aborted the deletion, or the course went to another category, and
\* whatever was filled in between.  The context path alone may be an older one,
\* and only because a category above has moved since the row was read: that
\* drops no course's entry (docs/adr/001-two-layer-cache.md:447-458).
CourseEntriesFollowTheRows ==
    writer = {} =>
        \A c \in DOMAIN cache \cap Courses : ~cache[c].late =>
            /\ c \in DOMAIN row /\ cache[c].value = row[c]
            /\ cache[c].place.category = place[c].category
            /\ cache[c].place.path = place[c].path \/ cache[c].place.path < moved[c]

\* An entry says that its course is being deleted only if core recorded so,
\* raced or not: an aborted deletion never hides a live course, which without
\* a TTL would last until a purge.
NoLiveCourseIsHidden ==
    \A c \in DOMAIN cache \cap Courses :
        cache[c].value.deleting /\ c \in DOMAIN row => row[c].deleting

\* An entry neither stored late nor read while the paths were behind the tree
\* holds the category's path, once no change is under way: a move reaches every
\* category under the moved one, through any number of moves.
CategoryEntriesFollowTheTree ==
    writer = {} =>
        \A k \in DOMAIN cache \cap Categories :
            ~cache[k].late /\ ~cache[k].torn => k \in DOMAIN path /\ cache[k].value = path[k]

=============================================================================

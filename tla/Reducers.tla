------------------------------ MODULE Reducers ------------------------------
(***************************************************************************)
(* What the strands of a frame leave to their left: reducer maps, pending  *)
(* exceptions and fibers (runtime/scheduler.c 663-720, 1540-1630, 1665-    *)
(* 1690, 1770-1815, 2737-2800, 2985-3020, 3950-4567, runtime/reducer_impl. *)
(* cpp 433-529, 675-732, 818-1021, runtime/except-gcc.cpp 353-470 and      *)
(* runtime/cilk-abi.c 238-276).                                            *)
(*                                                                         *)
(* One frame, strand 0, and the children whose spawn was stolen, strands   *)
(* 1, 2, ... ; a spawn that is not stolen is part of its parent's strand.  *)
(* A child that ends while its siblings run gives its map to the right of  *)
(* its left sibling, or to the frame if it is the leftmost; so does the    *)
(* frame when it stalls at a sync.  Maps that meet are taken away, reduced *)
(* without any lock, and put back, while the siblings come and go.         *)
(*                                                                         *)
(* A view is the sequence of the serial positions at which it was updated: *)
(* the frame is at 2n after n spawns, its n-th child at 2n - 1.            *)
(***************************************************************************)
EXTENDS Integers, FiniteSets, Sequences, SequencesExt

CONSTANTS MaxKids,   \* bound on the children spawned
          MaxEvents, \* bound on the updates and exceptions together
          Reducers,  \* the hyperobjects
          NoMap,     \* the null pointer to a map
          Dataflow   \* whether the frame spawns tasks that have to wait

Map == [view : UNION {[D -> Seq(Int)] : D \in SUBSET Reducers}, is_leftmost : BOOLEAN]

ASSUME ReducersAssumption ==
    MaxKids \in Nat /\ MaxEvents \in Nat /\ Dataflow \in BOOLEAN /\ NoMap \notin Map

Frame == 0
Kids == 1..MaxKids
Strands == {Frame} \cup Kids
None == 2 * MaxKids + 1  \* no pending exception: later than all positions
NoFiber == -1
Nothing == <<NoMap, NoMap, NoMap>>

VARIABLES pc,         \* strand -> what it is doing
          spawned,    \* number of children so far
          kids,       \* the children of the frame, leftmost first
          map,        \* strand -> reducer_map of the worker that runs it
          slot,       \* strand -> right_reducer_map; of 0: children_reducer_map
          taken,      \* strand -> the left, middle and right map it is reducing
          exc,        \* strand -> its pending exception
          slot_exc,   \* strand -> right_pending_exception; child_pending_exception
          fiber,      \* strand -> fiber_self
          fiber_child, freed,   \* the frame's fiber_child; the fibers given back
          join, unsynched,      \* the frame's join_counter; CILK_FRAME_UNSYNCHED
          updated, thrown,      \* history: updates, exceptions since the last sync
          mixed       \* history: a pending child was given no map, but the frame had one

maps == <<map, slot, taken>>
exceptions == <<exc, slot_exc, thrown>>
fibers == <<fiber, fiber_child, freed>>
tree == <<spawned, kids, join, unsynched>>
vars == <<pc, maps, exceptions, fibers, tree, updated, mixed>>

Position(s) == IF s = Frame THEN 2 * spawned ELSE 2 * s - 1

(* The first worker of a thread is bound with a leftmost map.  The view of *)
(* a leftmost map is the user's variable, -1 stands for its value.         *)
Variable == <<-1>>
EmptyMap(left) == [is_leftmost |-> left, view |-> [r \in {} |-> <<>>]]

Init ==
    /\ pc = [s \in Strands |-> IF s = Frame THEN "run" ELSE "unborn"]
    /\ spawned = 0 /\ kids = <<>> /\ join = 1 /\ unsynched = FALSE
    /\ map = [s \in Strands |-> IF s = Frame THEN EmptyMap(TRUE) ELSE NoMap]
    /\ slot = [s \in Strands |-> NoMap]
    /\ taken = [s \in Strands |-> Nothing]
    /\ exc = [s \in Strands |-> None]
    /\ slot_exc = [s \in Strands |-> None]
    /\ fiber = [s \in Strands |-> IF s = Frame THEN 0 ELSE NoFiber]
    /\ fiber_child = NoFiber /\ freed = {}
    /\ updated = {} /\ thrown = {} /\ mixed = FALSE

MoreEvents == Cardinality(updated) + Cardinality(thrown) < MaxEvents

Goto(s, from, to) == pc[s] \in from /\ pc' = [pc EXCEPT ![s] = to]

-----------------------------------------------------------------------------
(* Variants of the definitions below with a plausible mistake in each:     *)
(* what the mutation runs put in their place.  No specification uses them. *)
Bug_NoSwap(left, right) ==
    [view |-> [r \in DOMAIN left.view \cup DOMAIN right.view |->
                  IF r \notin DOMAIN left.view THEN right.view[r]
                  ELSE IF r \notin DOMAIN right.view THEN left.view[r]
                  ELSE right.view[r] \o left.view[r]],
     is_leftmost |-> FALSE]
Bug_LatestException(left, right) == IF right # None THEN right ELSE left
Bug_FirstInList(s) == kids = <<>> \/ kids[1] = s

-----------------------------------------------------------------------------
(* __cilkrts_hyper_lookup makes a map and a view if there is none; x is    *)
(* then added to the view.                                                 *)
Looked(m, r, x) ==
    LET n == IF m = NoMap THEN EmptyMap(FALSE) ELSE m
        old == IF r \in DOMAIN n.view THEN n.view[r]
               ELSE IF n.is_leftmost THEN Variable ELSE <<>>
    IN  [n EXCEPT !.view = [q \in DOMAIN n.view \cup {r} |->
                               IF q = r THEN Append(old, x) ELSE n.view[q]]]

Update(s, r) ==
    /\ pc[s] = "run" /\ MoreEvents /\ <<r, Position(s)>> \notin updated
    /\ map' = [map EXCEPT ![s] = Looked(map[s], r, Position(s))]
    /\ updated' = updated \cup {<<r, Position(s)>>}
    /\ UNCHANGED <<pc, slot, taken, exceptions, fibers, tree, mixed>>

(* A spawn whose continuation is stolen: the child takes the map and the   *)
(* fiber of its parent, which goes on with new ones.                       *)
Steal ==
    LET c == spawned + 1
    IN  /\ pc[Frame] = "run" /\ spawned < MaxKids
        /\ spawned' = c
        /\ pc' = [pc EXCEPT ![c] = "run"]
        /\ kids' = Append(kids, c)
        /\ join' = join + 1 /\ unsynched' = TRUE
        /\ map' = [map EXCEPT ![c] = map[Frame], ![Frame] = NoMap]
        /\ fiber' = [fiber EXCEPT ![c] = fiber[Frame], ![Frame] = c]
        /\ UNCHANGED <<slot, taken, exceptions, fiber_child, freed, updated, mixed>>

(* __cilkrts_detach_pending: a task that has to wait for an elder one.     *)
SpawnPending ==
    LET c == spawned + 1
    IN  /\ Dataflow
        /\ pc[Frame] = "run" /\ spawned < MaxKids
        /\ \E elder \in ToSet(kids) : pc[elder] \in {"pending", "run"}
        /\ spawned' = c
        /\ pc' = [pc EXCEPT ![c] = "pending"]
        /\ kids' = Append(kids, c)
        /\ join' = join + 1 /\ unsynched' = TRUE
        /\ mixed' = (mixed \/ map[Frame] # NoMap)
        /\ UNCHANGED <<maps, exceptions, fibers, updated>>

(* steal_from_ready_list, make_child_from_pending: on a fiber of its own.  *)
StartPending(c) ==
    /\ Goto(c, {"pending"}, "run")
    /\ \E elder \in 1..(c - 1) : pc[elder] \notin {"pending", "run"}
    /\ fiber' = [fiber EXCEPT ![c] = MaxKids + c]
    /\ UNCHANGED <<maps, exceptions, fiber_child, freed, tree, updated, mixed>>

(* A child ends.  If it has thrown, the exception is pending in its frame. *)
End(c) ==
    /\ Goto(c, {"run"}, "ended")
    /\ UNCHANGED <<maps, exceptions, fibers, tree, updated, mixed>>

Throw(c) ==
    /\ MoreEvents
    /\ Goto(c, {"run"}, "ended")
    /\ exc' = [exc EXCEPT ![c] = Position(c)]
    /\ thrown' = thrown \cup {Position(c)}
    /\ UNCHANGED <<maps, slot_exc, fibers, tree, updated, mixed>>

(* The frame stalls at a sync, of its own or because it has thrown.        *)
Sync ==
    /\ unsynched
    /\ Goto(Frame, {"run"}, "ended")
    /\ UNCHANGED <<maps, exceptions, fibers, tree, updated, mixed>>

ThrowAndSync ==
    /\ unsynched /\ MoreEvents
    /\ Goto(Frame, {"run"}, "ended")
    /\ exc' = [exc EXCEPT ![Frame] = Position(Frame)]
    /\ thrown' = thrown \cup {Position(Frame)}
    /\ UNCHANGED <<maps, slot_exc, fibers, tree, updated, mixed>>

-----------------------------------------------------------------------------
(* compute_left_ptrs: the nearest child to the left, or else the frame.    *)
At(s) == IF s = Frame THEN Len(kids) + 1 ELSE CHOOSE k \in 1..Len(kids) : kids[k] = s
LeftOf(s) == IF At(s) = 1 THEN Frame ELSE kids[At(s) - 1]

(* unlink_child: the frame is none of its own children.                    *)
Unlinked(s) == IF s = Frame THEN kids ELSE RemoveAt(kids, At(s))

(* The serially earlier exception survives (the left one, if there is one).*)
MergeExceptions(left, right) == IF left # None THEN left ELSE right

(* A strand that leaves holds its own map in the middle, the left one is   *)
(* to its left, and the right one what its right siblings left to it.      *)
Own(s) == IF s = Frame THEN NoMap ELSE slot[s]
OwnException(s) == IF s = Frame THEN None ELSE slot_exc[s]
Splice(s) == <<slot[LeftOf(s)], map[s], Own(s)>>

(* Not more than one of the three is there. *)
FastPath(s) == \E i \in 1..3 : \A j \in 1..3 : j # i => Splice(s)[j] = NoMap

Cleared(f, s, none) == [t \in Strands |-> IF t = LeftOf(s) \/ (t = s /\ s # Frame)
                                          THEN none ELSE f[t]]

(* With the frame locked: the exceptions are merged to the left; ...       *)
SpliceExceptions(s) ==
    LET all == MergeExceptions(MergeExceptions(slot_exc[LeftOf(s)], exc[s]), OwnException(s))
    IN  /\ slot_exc' = [Cleared(slot_exc, s, None) EXCEPT ![LeftOf(s)] = all]
        /\ exc' = [exc EXCEPT ![s] = None]

(* ... maps that meet are taken to be reduced after the unlock, ...        *)
TakeMaps(s) ==
    /\ Goto(s, {"ended", "reduced"}, "reduce")
    /\ ~FastPath(s)
    /\ taken' = [taken EXCEPT ![s] = Splice(s)]
    /\ slot' = Cleared(slot, s, NoMap)
    /\ map' = [map EXCEPT ![s] = NoMap]
    /\ SpliceExceptions(s)
    /\ UNCHANGED <<thrown, fibers, tree, updated, mixed>>

(* (cilkred_map::merge: a view that is in both maps is reduced into the    *)
(* left map's, after a swap if the right map is the one that is kept)      *)
MergeIntoLeft(left, right) ==
    [left EXCEPT !.view = [r \in DOMAIN left.view \cup DOMAIN right.view |->
        LET mine == IF r \in DOMAIN left.view THEN left.view[r]
                    ELSE IF left.is_leftmost THEN Variable ELSE <<>>
        IN  IF r \in DOMAIN right.view THEN mine \o right.view[r] ELSE mine]]

MergeIntoRight(left, right) ==
    [right EXCEPT !.view = [r \in DOMAIN left.view \cup DOMAIN right.view |->
        IF r \notin DOMAIN right.view THEN left.view[r]
        ELSE IF r \notin DOMAIN left.view THEN right.view[r]
        ELSE left.view[r] \o right.view[r]]]

MergeMaps(left, right) ==
    IF left = NoMap THEN right
    ELSE IF right = NoMap THEN left
    ELSE IF \/ left.is_leftmost
            \/ Cardinality(DOMAIN left.view) > Cardinality(DOMAIN right.view)
    THEN MergeIntoLeft(left, right)
    ELSE MergeIntoRight(left, right)

Merged(three) == MergeMaps(MergeMaps(three[1], three[2]), three[3])

(* ... left to right, after which the strand looks again; ...              *)
Reduce(s) ==
    /\ Goto(s, {"reduce"}, "reduced")
    /\ map' = [map EXCEPT ![s] = Merged(taken[s])]
    /\ taken' = [taken EXCEPT ![s] = Nothing]
    /\ UNCHANGED <<slot, exceptions, fibers, tree, updated, mixed>>

(* ... a single map is left at the left, and the strand is done with it.   *)
(* A child passes its fiber up if it is the leftmost, and is unlinked.     *)
IsLeftmost(s) == kids[1] = s /\ fiber_child = NoFiber
KeepsFiber(s) == s # Frame /\ IsLeftmost(s)

Leave(s) ==
    /\ Goto(s, {"ended", "reduced"}, "left")
    /\ FastPath(s)
    /\ slot' = [Cleared(slot, s, NoMap) EXCEPT ![LeftOf(s)] = Merged(Splice(s))]
    /\ map' = [map EXCEPT ![s] = NoMap]
    /\ SpliceExceptions(s)
    /\ IF KeepsFiber(s)
       THEN fiber_child' = fiber[s] /\ UNCHANGED freed
       ELSE freed' = freed \cup {fiber[s]} /\ UNCHANGED fiber_child
    /\ fiber' = [fiber EXCEPT ![s] = NoFiber]
    /\ kids' = Unlinked(s)
    /\ UNCHANGED <<taken, thrown, spawned, join, unsynched, updated, mixed>>

(* do_sync, do_return_from_spawn: the frame loses a reference; whoever     *)
(* takes the last resumes it, with what all of the strands have left.      *)
DropReference(s) ==
    /\ Goto(s, {"left"}, "done")
    /\ join > 1
    /\ join' = join - 1
    /\ UNCHANGED <<maps, exceptions, fibers, spawned, kids, unsynched, updated, mixed>>

(* Whoever runs the frame next takes the map that the strands have left:   *)
(* the frame is synched and the worker has none of its own.                *)
SetupReducers ==
    /\ map' = [map EXCEPT ![Frame] = slot[Frame]]
    /\ slot' = [slot EXCEPT ![Frame] = NoMap]

SetupExceptions ==
    /\ exc' = [exc EXCEPT ![Frame] = MergeExceptions(slot_exc[Frame], exc[Frame])]
    /\ slot_exc' = [slot_exc EXCEPT ![Frame] = None]

ResumeFrame(s) ==
    /\ pc[s] = "left" /\ join = 1
    /\ pc' = [pc EXCEPT ![s] = "done", ![Frame] = IF slot_exc[Frame] = None THEN "run" ELSE "unwind"]
    /\ unsynched' = FALSE
    /\ SetupReducers
    /\ SetupExceptions
    /\ thrown' = IF slot_exc[Frame] = None THEN {} ELSE thrown
    /\ fiber' = [fiber EXCEPT ![Frame] = fiber_child]
    /\ fiber_child' = NoFiber
    /\ UNCHANGED <<taken, freed, spawned, kids, join, updated, mixed>>

-----------------------------------------------------------------------------
Next ==
    \/ \E s \in Strands : \/ \E r \in Reducers : Update(s, r)
                          \/ TakeMaps(s) \/ Reduce(s) \/ Leave(s)
                          \/ DropReference(s) \/ ResumeFrame(s)
    \/ \E c \in Kids : StartPending(c) \/ End(c) \/ Throw(c)
    \/ Steal \/ SpawnPending \/ Sync \/ ThrowAndSync

Spec == Init /\ [][Next]_vars

-----------------------------------------------------------------------------
(* The places where maps are, from left to right: what has been left to    *)
(* the frame, 0; of each child the maps it is reducing, its own and what   *)
(* its right siblings left to it; and the same of the frame as the last.   *)
Continuation == MaxKids + 1
Places == {<<0, 5>>} \cup ((1..Continuation) \X (1..5))
MapAt(p) ==
    LET s == IF p[1] = Continuation THEN Frame ELSE p[1]
    IN  IF p[1] = 0 THEN slot[Frame]
        ELSE CASE p[2] \in 1..3 -> taken[s][p[2]]
               [] p[2] = 4 -> map[s]
               [] OTHER -> Own(s)

ViewIn(m, r) ==
    IF m = NoMap THEN <<>>
    ELSE IF r \in DOMAIN m.view THEN m.view[r]
    ELSE IF m.is_leftmost THEN Variable ELSE <<>>

Before(p, q) == p[1] < q[1] \/ (p[1] = q[1] /\ p[2] < q[2])

(* What is in the views of r: the place, the index there and the number.   *)
Entries(r) ==
    UNION {LET v == ViewIn(MapAt(p), r) IN {<<p, i, v[i]>> : i \in DOMAIN v} : p \in Places}

(* The value of the variable and the updates of r: each is in one place,   *)
(* once, and nothing else is in any.                                       *)
Written(r) == {-1} \cup {u[2] : u \in {v \in updated : v[1] = r}}
NothingLost(entries, written) ==
    /\ {e[3] : e \in entries} = written
    /\ \A e, f \in entries : e[3] = f[3] => e = f

(* Those that are further left, or earlier in the same view, are earlier.  *)
InOrder(entries) ==
    \A e, f \in entries :
        Before(e[1], f[1]) \/ (e[1] = f[1] /\ e[2] < f[2]) => e[3] < f[3]

(* "reduce" is only associative: at any time the views of a reducer, read  *)
(* from left to right over all the places where maps wait, are being       *)
(* reduced or are updated, give the serial sequence of its updates         *)
(* (scheduler.c:4101-4122, 4250-4287, 4400-4455).                          *)
ViewsInSerialOrder ==
    \A r \in Reducers : NothingLost(Entries(r), Written(r)) /\ InOrder(Entries(r))

(* As far as the code goes: no update is ever lost or counted twice, and   *)
(* they are in order, unless a pending frame was spawned in the middle of  *)
(* a map (cilk-abi.c:238-276 does not split it).                           *)
ViewsInOrderUnlessMixed ==
    \A r \in Reducers :
        NothingLost(Entries(r), Written(r)) /\ (mixed \/ InOrder(Entries(r)))

(* Of the exceptions that are thrown before a sync the serially first one  *)
(* comes out of it, in whatever order the strands come to it               *)
(* (scheduler.c:1559, 1684-1696): at any time it is the leftmost.          *)
PendingAt(n) ==
    IF n = 0 THEN slot_exc[Frame]
    ELSE IF n = Continuation THEN exc[Frame]
    ELSE IF exc[n] # None THEN exc[n] ELSE slot_exc[n]
Pending == {n \in 0..Continuation : PendingAt(n) # None}
FirstExceptionSurvives ==
    IF thrown = {} THEN Pending = {}
    ELSE \E n \in Pending : /\ \A m \in Pending : n <= m
                            /\ \A e \in thrown : PendingAt(n) <= e

(* The stack of the frame's own activation goes with its leftmost child    *)
(* and comes back to the frame at the sync; of all the other fibers none   *)
(* is leaked, none given back twice, and none in use after it was given    *)
(* back (scheduler.c:1568, 4038-4058).                                     *)
Used == ({fiber[s] : s \in Strands} \cup {fiber_child}) \ {NoFiber}
FibersComeBack ==
    /\ ~unsynched => fiber[Frame] = 0 /\ Used = {0}
    /\ 0 \notin freed /\ freed \cap Used = {}
    /\ \A s, t \in Strands : fiber[s] = fiber[t] /\ s # t => fiber[s] = NoFiber
=============================================================================

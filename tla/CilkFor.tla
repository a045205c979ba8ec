------------------------------ MODULE CilkFor ------------------------------
(***************************************************************************)
(* cilk_for by divide and conquer, and the pedigrees of its strands        *)
(* (runtime/cilk-abi-cilk-for.cpp, runtime/cilk-abi-cilk-for-numa.cpp,     *)
(* runtime/pedigrees.h, runtime/scheduler.c 1830-1863, 2785-2799).         *)
(*                                                                         *)
(* A pedigree names a strand by the ranks of the spawns that lead to it,   *)
(* innermost first, the same in every run.  A worker carries the one of    *)
(* the strand it executes; it is copied into frames at spawns and syncs    *)
(* and back into whatever worker goes on with the frame.  A loop flattens  *)
(* it: iteration i of a loop reached at X starts with <<0, i>> \o X, and   *)
(* after the loop X's rank is greater by two.  The body of this model's    *)
(* loop spawns a child in each iteration and syncs.                        *)
(*                                                                         *)
(* A frame is named by its path from the function that contains the loop:  *)
(* the k-th spawn appends k, and what it calls appends 0.  Steals and      *)
(* returns are single steps (THE), and who goes on after a sync is left    *)
(* open (FullFrames).                                                      *)
(***************************************************************************)
EXTENDS Integers, Sequences, SequencesExt

CONSTANTS Workers,  \* a worker is the number of its NUMA node
          First,    \* the worker that reaches the loop
          Count, Grain,
          Kinds     \* of the loop, and of the compiler: see SpawnHalf

(* Of the constants: where the templates are entered, "count > 0" and      *)
(* "grain >= 1" (cilk-abi-cilk-for.cpp:259).                               *)
LoopAssumption ==
    /\ First \in Workers /\ Workers \subseteq Int
    /\ Count \in Nat \ {0} /\ Grain \in Nat \ {0}

X == <<2, 0>>       \* the pedigree at the loop
Main == <<>>
Loop == <<0>>       \* the first call of the recursion

VARIABLES kind,
          stack,      \* worker -> the frames it runs, the innermost first
          deque,      \* worker -> such stacks, whose first frame has spawned
          pedigree,   \* worker -> w->pedigree
          frames,     \* the frames that exist
          loop_root_pedigree,
          ran         \* history: iteration -> how often it was started

vars == <<kind, stack, deque, pedigree, frames, loop_root_pedigree, ran>>

Frame(function, low, high, helper) ==
    [function |-> function, step |-> 0, low |-> low, high |-> high,
     saved |-> <<>>, spawned |-> 0,
     parent_pedigree |-> <<>>, spawn_helper_pedigree |-> helper,
     join |-> 1, unsynched |-> FALSE, suspended |-> <<>>]

Init ==
    /\ kind \in Kinds
    /\ stack = [w \in Workers |-> IF w = First THEN <<Main>> ELSE <<>>]
    /\ deque = [w \in Workers |-> <<>>]
    /\ pedigree = [w \in Workers |-> IF w = First THEN X ELSE <<0>>]
    /\ frames = [f \in {Main} |-> Frame("main", 0, 0, <<>>)]
    /\ loop_root_pedigree = <<>>
    /\ ran = [i \in 0..(Count - 1) |-> 0]

At(w, function, step) ==
    /\ stack[w] # <<>>
    /\ frames[Head(stack[w])].function = function
    /\ frames[Head(stack[w])].step = step

Me(w) == Head(stack[w])
My(w) == frames[Me(w)]
AddToRank(p, n) == <<Head(p) + n>> \o Tail(p)
SetPedigree(w, p) == pedigree' = [pedigree EXCEPT ![w] = p]
Becomes(w, r) == frames' = [frames EXCEPT ![Me(w)] = r]
ToStep(w, s) == Becomes(w, [My(w) EXCEPT !.step = s])

-----------------------------------------------------------------------------
(* Spawns, steals, returns and syncs of any frame *)

(* A frame more, or less. *)
Among(others, f, r) == [g \in DOMAIN others \cup {f} |-> IF g = f THEN r ELSE others[g]]
Without(f) == [g \in DOMAIN frames \ {f} |-> frames[g]]

(* The spawn helper detaches: the pedigree is kept for the child's return  *)
(* and for a thief.  after: what the spawning frame has become by then.    *)
Spawn(w, child, after) ==
    /\ deque' = [deque EXCEPT ![w] = Append(@, stack[w])]
    /\ stack' = [stack EXCEPT ![w] = <<Append(Me(w), after.spawned)>>]
    /\ frames' = Among([frames EXCEPT ![Me(w)] = [after EXCEPT !.parent_pedigree = pedigree[w]]],
                       Append(Me(w), after.spawned), child)
    /\ SetPedigree(w, <<0>> \o pedigree[w])

Call(w, callee, after) ==
    /\ stack' = [stack EXCEPT ![w] = <<Append(Me(w), 0)>> \o @]
    /\ frames' = Among([frames EXCEPT ![Me(w)] = after], Append(Me(w), 0), callee)

ReturnFromCall(w) ==
    /\ stack' = [stack EXCEPT ![w] = Tail(@)]
    /\ frames' = Without(Me(w))

Steal(w, v) ==
    LET s == Head(deque[v])
        f == Head(s)
    IN  /\ v # w /\ stack[w] = <<>> /\ deque[v] # <<>>
        /\ deque' = [deque EXCEPT ![v] = Tail(@)]
        /\ stack' = [stack EXCEPT ![w] = s]
        /\ frames' = [frames EXCEPT ![f] = [frames[f] EXCEPT !.join = @ + 1, !.unsynched = TRUE]]
        /\ SetPedigree(w, AddToRank(frames[f].parent_pedigree, 1))
        /\ UNCHANGED <<kind, loop_root_pedigree, ran>>

-----------------------------------------------------------------------------
(* Variants of the definitions below with a plausible mistake in each:     *)
(* what the mutation runs put in their place.  No specification uses them. *)

(* A worker that goes on after a sync keeps the pedigree it had. *)
Bug_Resume(w, f) ==
    LET r == frames[f]
        s == r.suspended
    IN  /\ stack[w] = <<>> /\ r.suspended # <<>> /\ r.join = 0
        /\ stack' = [stack EXCEPT ![w] = s]
        /\ frames' = [frames EXCEPT ![f] =
             [r EXCEPT !.join = 1, !.unsynched = FALSE, !.suspended = <<>>,
                       !.step = @ + 1]]
        /\ SetPedigree(w, AddToRank(pedigree[w], 1))
        /\ UNCHANGED <<kind, deque, loop_root_pedigree, ran>>

-----------------------------------------------------------------------------
(* A spawned child returns: to its parent if that is still there, else it  *)
(* joins it. *)
SpawnReturns(w) ==
    LET f == Me(w)
        p == Front(f)
    IN  /\ SetPedigree(w, AddToRank(My(w).spawn_helper_pedigree, 1))
        /\ IF deque[w] # <<>>
           THEN /\ stack' = [stack EXCEPT ![w] = Last(deque[w])]
                /\ deque' = [deque EXCEPT ![w] = Front(@)]
                /\ frames' = Without(f)
           ELSE /\ stack' = [stack EXCEPT ![w] = <<>>]
                /\ frames' = [Without(f) EXCEPT ![p].join = @ - 1]
                /\ UNCHANGED deque

(* The manual sync of the NUMA recursion does not count in the pedigree.   *)
SyncRank(r) == IF r.function = "range" /\ kind # "plain" THEN 0 ELSE 1

SyncDone(w) ==
    /\ ~My(w).unsynched
    /\ ToStep(w, My(w).step + 1)
    /\ SetPedigree(w, AddToRank(pedigree[w], SyncRank(My(w))))
    /\ UNCHANGED <<kind, stack, deque, loop_root_pedigree, ran>>

Suspend(w) ==
    /\ My(w).unsynched
    /\ Becomes(w, [My(w) EXCEPT !.parent_pedigree = pedigree[w],
                                !.suspended = stack[w], !.join = @ - 1])
    /\ stack' = [stack EXCEPT ![w] = <<>>]
    /\ UNCHANGED <<kind, deque, pedigree, loop_root_pedigree, ran>>

Sync(w) ==
    /\ At(w, "main", 3) \/ At(w, "range", 2) \/ At(w, "body", 1)
    /\ SyncDone(w) \/ Suspend(w)

(* All have arrived, and a worker goes on. *)
Resume(w, f) ==
    LET r == frames[f]
        s == r.suspended
    IN  /\ stack[w] = <<>> /\ r.suspended # <<>> /\ r.join = 0
        /\ stack' = [stack EXCEPT ![w] = s]
        /\ frames' = [frames EXCEPT ![f] =
             [r EXCEPT !.join = 1, !.unsynched = FALSE, !.suspended = <<>>,
                       !.step = @ + 1]]
        /\ SetPedigree(w, AddToRank(r.parent_pedigree, SyncRank(r)))
        /\ UNCHANGED <<kind, deque, loop_root_pedigree, ran>>

-----------------------------------------------------------------------------
(* cilk_for_root: a spawn of nothing, whose effect on the pedigree is      *)
(* taken back, the recursion, and the sync.                                *)

SpawnNoop(w) ==
    /\ At(w, "main", 0)
    /\ Spawn(w, Frame("noop", 0, 0, pedigree[w]),
             [My(w) EXCEPT !.step = 1, !.spawned = 1])
    /\ UNCHANGED <<kind, loop_root_pedigree, ran>>

EnterLoop(w) ==
    LET p == AddToRank(pedigree[w], -1) IN
    /\ At(w, "main", 1)
    /\ Call(w, Frame("range", 0, Count, <<>>), [My(w) EXCEPT !.step = 2])
    /\ loop_root_pedigree' = p
    /\ SetPedigree(w, p)
    /\ UNCHANGED <<kind, deque, ran>>

LeaveLoop(w) ==
    /\ At(w, "main", 2) /\ ToStep(w, 3)
    /\ SetPedigree(w, AddToRank(loop_root_pedigree, 1))
    /\ UNCHANGED <<kind, stack, deque, loop_root_pedigree, ran>>

(* cilk_for_recursive spawns the lower half.  cilk_for_numa_recursive      *)
(* spawns the half that does not hold its worker's node first; built with  *)
(* gcc ("numa_gcc") it goes on the same way, but it always spawns the      *)
(* lower half.                                                             *)
SpawnHalf(w) ==
    LET r == My(w)
        mid == r.low + (r.high - r.low) \div 2
        upper == kind # "plain" /\ w >= mid     \* high = mid afterwards
        child == IF upper /\ kind = "numa"
                 THEN Frame("range", mid, r.high, pedigree[w])
                 ELSE Frame("range", r.low, mid, pedigree[w])
        rest == IF upper THEN [r EXCEPT !.high = mid] ELSE [r EXCEPT !.low = mid]
    IN  /\ At(w, "range", 0) /\ r.high - r.low > Grain
        /\ Spawn(w, child, [rest EXCEPT !.spawned = @ + 1])
        /\ UNCHANGED <<kind, loop_root_pedigree, ran>>

CallBody(w) ==
    LET r == My(w) IN
    /\ At(w, "range", 0) /\ r.high - r.low <= Grain
    /\ Call(w, Frame("body", r.low, r.high, <<>>),
            [r EXCEPT !.step = 1, !.saved = Tail(pedigree[w])])
    /\ SetPedigree(w, <<0, r.low>> \o loop_root_pedigree)
    /\ UNCHANGED <<kind, deque, loop_root_pedigree, ran>>

AfterBody(w) ==
    /\ At(w, "range", 1) /\ ToStep(w, 2)
    /\ SetPedigree(w, <<Head(pedigree[w])>> \o My(w).saved)
    /\ UNCHANGED <<kind, stack, deque, loop_root_pedigree, ran>>

(* The loop body, as the compiler makes it: an iteration, its sync, and    *)
(* __cilkrts_bump_loop_rank.                                               *)
Iterate(w) ==
    LET r == My(w) IN
    /\ At(w, "body", 0)
    /\ ran' = [ran EXCEPT ![r.low] = @ + 1]
    /\ Spawn(w, Frame("kid", r.low, r.high, pedigree[w]),
             [r EXCEPT !.step = 1, !.spawned = @ + 1])
    /\ UNCHANGED <<kind, loop_root_pedigree>>

BumpLoopRank(w) ==
    /\ At(w, "body", 2)
    /\ SetPedigree(w, <<0>> \o AddToRank(Tail(pedigree[w]), 1))
    /\ Becomes(w, [My(w) EXCEPT !.low = @ + 1,
                     !.step = IF My(w).low + 1 < My(w).high THEN 0 ELSE 3])
    /\ UNCHANGED <<kind, stack, deque, loop_root_pedigree, ran>>

Leave(w) ==
    \/ /\ At(w, "noop", 0) \/ At(w, "kid", 0)
          \/ (At(w, "range", 3) /\ Len(stack[w]) = 1)
       /\ SpawnReturns(w)
       /\ UNCHANGED <<kind, loop_root_pedigree, ran>>
    \/ /\ At(w, "body", 3) \/ (At(w, "range", 3) /\ Len(stack[w]) > 1)
       /\ ReturnFromCall(w)
       /\ UNCHANGED <<kind, deque, pedigree, loop_root_pedigree, ran>>

Next ==
    \E w \in Workers :
        \/ SpawnNoop(w) \/ EnterLoop(w) \/ LeaveLoop(w)
        \/ SpawnHalf(w) \/ CallBody(w) \/ AfterBody(w)
        \/ Iterate(w) \/ BumpLoopRank(w) \/ Leave(w) \/ Sync(w)
        \/ \E f \in DOMAIN frames : Resume(w, f)
        \/ \E v \in Workers : Steal(w, v)

Spec == Init /\ [][Next]_vars

-----------------------------------------------------------------------------
Ended == frames[Main].function = "main" /\ frames[Main].step = 4

(* "Assumes that the range is 0 - count" (cilk-abi-cilk-for-numa.cpp:737): *)
(* a loop that has ended has executed each iteration once, in whatever     *)
(* order the halves were spawned and whoever stole them.                   *)
IterationsRunOnce == Ended => \A i \in DOMAIN ran : ran[i] = 1

(* The pedigree of what a worker executes is the one it has in a serial    *)
(* run, whatever was stolen: "at the start of each iteration of the loop   *)
(* body, the value of the last pedigree node should be 0, the value of the *)
(* second-to-last node should equal the loop counter ... On return from    *)
(* the _Cilk_for, the value of the last pedigree should be incremented to  *)
(* X+2" (cilk-abi-cilk-for.cpp:320-324).                                   *)
PedigreeIsSerial(w) ==
    LET r == My(w) IN
    CASE r.function = "body" /\ r.low < r.high -> pedigree[w] = <<r.step, r.low>> \o X
      [] r.function = "kid" -> pedigree[w] = <<0, 0, r.low>> \o X
      [] r.function = "main" /\ r.step \in {0, 1} -> pedigree[w] = AddToRank(X, r.step)
      [] r.function = "main" /\ r.step = 4 -> pedigree[w] = AddToRank(X, 2)
      [] OTHER -> TRUE

LoopIsFlat ==
    /\ IterationsRunOnce
    /\ \A i \in DOMAIN ran : ran[i] <= 1
    /\ \A w \in Workers : stack[w] # <<>> => PedigreeIsSerial(w)
=============================================================================

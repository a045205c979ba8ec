----------------------------- MODULE FiberPool -----------------------------
(***************************************************************************)
(* The pools of fibers (runtime/cilk_fiber.cpp 62-330, 713-813, 970-1030). *)
(*                                                                         *)
(* Each worker has a pool of its own, used without a lock, that may not    *)
(* take fibers from the heap as long as it has not given any back; behind  *)
(* it is the pool shared by all, which may have MaxStacks of them alive.   *)
(* A fiber is allocated by one worker and freed by any, so that a pool's   *)
(* total, fibers it took from the heap less those it gave back, may become *)
(* negative.  The heap may refuse at any time.  Fibers are alike: a pool   *)
(* is the number of its fibers.  (One whose stack could not be mapped is   *)
(* given out like any other, cilk_fiber.cpp:636.)                          *)
(***************************************************************************)
EXTENDS Integers, FiniteSets, Functions

CONSTANTS Owners,      \* the workers, each with a pool of its own
          Shared,      \* the shared pool
          PoolSize,    \* fiber_pool_size
          SharedSize,  \* global_fiber_pool_size
          MaxStacks    \* max_stacks

(* Needed by the proofs.  The limit is INT_MAX when none is set            *)
(* (scheduler.c:3731).  A worker's pool has room for one fiber: one set to *)
(* none makes the assertion of cilk_fiber.cpp:156 fail.                    *)
PoolAssumption ==
    /\ IsFiniteSet(Owners) /\ Shared \notin Owners
    /\ PoolSize \in Nat \ {0} /\ SharedSize \in Nat /\ MaxStacks \in Nat

Pools == Owners \cup {Shared}
alloc_max == [p \in Pools |-> IF p = Shared THEN MaxStacks ELSE 0]
max_size == [p \in Pools |-> IF p = Shared THEN SharedSize ELSE PoolSize]

VARIABLES size, total,  \* pool -> fibers in it, and its account
          used,         \* fibers that are neither in a pool nor on their way
          dying,        \* worker -> fibers it is about to give to the heap
          at            \* worker -> where it is in an operation

pool_vars == <<size, total, used, dying, at>>

PoolInit ==
    /\ size = [p \in Pools |-> 0] /\ total = [p \in Pools |-> 0]
    /\ used = 0
    /\ dying = [w \in Owners |-> 0]
    /\ at = [w \in Owners |-> "idle"]

Proceed(w, from, to) == at[w] = from /\ at' = [at EXCEPT ![w] = to]
Uncharge(p, fibers_freed) == [total EXCEPT ![p] = @ - fibers_freed]
CanAllocateFromHeap(p) == size[p] = 0 /\ total[p] < alloc_max[p]

-----------------------------------------------------------------------------
(* Allocation: from the worker's pool, the heap on its account, the shared *)
(* pool, the heap on the account of that.  The account is charged before   *)
(* the heap is asked and credited after a refusal, under the lock each     *)
(* time but not from the one to the other.                                 *)

Pop(w, p, from) ==
    /\ Proceed(w, from, "idle") /\ size[p] > 0
    /\ size' = [size EXCEPT ![p] = @ - 1]
    /\ used' = used + 1
    /\ UNCHANGED <<total, dying>>

Charge(w, p, from, to) ==
    /\ Proceed(w, from, to) /\ CanAllocateFromHeap(p)
    /\ total' = [total EXCEPT ![p] = @ + 1]
    /\ UNCHANGED <<size, used, dying>>

AskShared(w) ==
    /\ Proceed(w, "idle", "shared") /\ size[w] = 0 /\ ~CanAllocateFromHeap(w)
    /\ UNCHANGED <<size, total, used, dying>>

Asking == {"own_heap", "shared_heap"}

HeapGives(w) ==
    /\ at[w] \in Asking /\ at' = [at EXCEPT ![w] = "idle"]
    /\ used' = used + 1
    /\ UNCHANGED <<size, total, dying>>

HeapRefuses(w) ==
    /\ at[w] \in Asking
    /\ at' = [at EXCEPT ![w] = IF @ = "own_heap" THEN "own_undo" ELSE "shared_undo"]
    /\ UNCHANGED <<size, total, used, dying>>

Undo(w, p, from, to) ==
    /\ Proceed(w, from, to)
    /\ total' = Uncharge(p, 1)
    /\ UNCHANGED <<size, used, dying>>

(* The steal that needed a fiber is given up. *)
NoFiber(w) ==
    /\ Proceed(w, "shared", "idle") /\ size[Shared] = 0 /\ ~CanAllocateFromHeap(Shared)
    /\ UNCHANGED <<size, total, used, dying>>

Allocate(w) ==
    \/ Pop(w, w, "idle") \/ Charge(w, w, "idle", "own_heap") \/ AskShared(w)
    \/ Undo(w, w, "own_undo", "shared")
    \/ Pop(w, Shared, "shared") \/ Charge(w, Shared, "shared", "shared_heap")
    \/ Undo(w, Shared, "shared_undo", "idle") \/ NoFiber(w)
    \/ HeapGives(w) \/ HeapRefuses(w)

-----------------------------------------------------------------------------
(* Variants of the definitions below with a plausible mistake in each:     *)
(* what the mutation runs put in their place.  No specification uses them. *)

(* A pool that owes the parent fibers forgets the debt. *)
Bug_Surplus(w, keep) ==
    LET room == SharedSize - size[Shared]
        over == IF size[w] > keep THEN size[w] - keep ELSE 0
        moved == IF over < room THEN over ELSE room
    IN  /\ size' = [size EXCEPT ![w] = @ - moved, ![Shared] = @ + moved]
        /\ total' = [total EXCEPT ![w] = IF @ < 0 THEN 0 ELSE @]

-----------------------------------------------------------------------------
(* A fiber comes back to the pool of whoever drops the last reference.  If *)
(* that is full, fibers beyond three quarters of it move to the shared     *)
(* pool while there is room, which is looked at without the lock first,    *)
(* and together with them what the pool's account is below zero; if it is  *)
(* still full one fiber goes back to the heap.                             *)

Free(w) ==
    /\ used > 0 /\ size[w] < max_size[w] /\ at[w] = "idle"
    /\ size' = [size EXCEPT ![w] = @ + 1]
    /\ used' = used - 1
    /\ UNCHANGED <<total, dying, at>>

FreeToFull(w) ==
    /\ used > 0 /\ size[w] = max_size[w]
    /\ Proceed(w, "idle", IF size[Shared] >= SharedSize THEN "trim" ELSE "move")
    /\ used' = used - 1
    /\ UNCHANGED <<size, total, dying>>

MoveToParent(w, keep) ==
    LET room == SharedSize - size[Shared]
        over == IF size[w] > keep THEN size[w] - keep ELSE 0
        moved == IF over < room THEN over ELSE room
        surplus == IF total[w] < 0 THEN total[w] ELSE 0
    IN  /\ size' = [size EXCEPT ![w] = @ - moved, ![Shared] = @ + moved]
        /\ total' = [total EXCEPT ![w] = @ - surplus, ![Shared] = @ + surplus]

Move(w) ==
    /\ Proceed(w, "move", "trim")
    /\ MoveToParent(w, (PoolSize \div 2) + (PoolSize \div 4))
    /\ UNCHANGED <<used, dying>>

(* Fibers beyond keep leave pool p for the heap, and then come back.       *)
TrimTo(w, p, keep, back) ==
    LET freed == IF size[p] > keep THEN size[p] - keep ELSE 0
    IN  /\ size' = [size EXCEPT ![p] = @ - freed + back]
        /\ total' = Uncharge(p, freed)
        /\ dying' = [dying EXCEPT ![w] = freed]

Trim(w) ==
    /\ Proceed(w, "trim", "bury") /\ TrimTo(w, w, PoolSize - 1, 1)
    /\ UNCHANGED used

Bury(w) ==
    /\ Proceed(w, "bury", "idle")
    /\ dying' = [dying EXCEPT ![w] = 0]
    /\ UNCHANGED <<size, total, used>>

Deallocate(w) == Free(w) \/ FreeToFull(w) \/ Move(w) \/ Trim(w) \/ Bury(w)

-----------------------------------------------------------------------------
(* The runtime is destroyed: one pool after the other gives its fibers to  *)
(* the shared one as far as there is room and frees the rest; the shared   *)
(* pool is last.  One of the workers stands for the thread that does it.   *)

Idle == \A w \in Owners : at[w] \in {"idle", "gone"}

DestroyMove(w) ==
    /\ Idle /\ used = 0 /\ at[w] = "idle"
    /\ at' = [at EXCEPT ![w] = "destroy"]
    /\ IF size[Shared] >= SharedSize THEN UNCHANGED <<size, total>>
       ELSE MoveToParent(w, 0)
    /\ UNCHANGED <<used, dying>>

DestroyTrim(w) ==
    /\ Proceed(w, "destroy", "buried") /\ TrimTo(w, w, 0, 0) /\ UNCHANGED used

DestroyBury(w) ==
    /\ Proceed(w, "buried", "gone")
    /\ dying' = [dying EXCEPT ![w] = 0]
    /\ UNCHANGED <<size, total, used>>

DestroyShared(w) ==
    /\ \A v \in Owners : at[v] = "gone"
    /\ at' = [at EXCEPT ![w] = "buried"]
    /\ size[Shared] > 0 /\ TrimTo(w, Shared, 0, 0)
    /\ UNCHANGED used

Destroying == \E w \in Owners : at[w] \in {"destroy", "buried", "gone"}

PoolNext ==
    \E w \in Owners :
        \/ ~Destroying /\ (Allocate(w) \/ Deallocate(w))
        \/ DestroyMove(w) \/ DestroyTrim(w) \/ DestroyBury(w) \/ DestroyShared(w)

PoolSpec == PoolInit /\ [][PoolNext]_pool_vars

-----------------------------------------------------------------------------
PoolTypeOK ==
    /\ size \in [Pools -> Nat] /\ total \in [Pools -> Int] /\ used \in Nat
    /\ dying \in [Owners -> Nat]
    /\ at \in [Owners -> {"idle", "shared", "own_heap", "shared_heap",
                           "own_undo", "shared_undo", "move", "trim", "bury",
                           "destroy", "buried", "gone"}]

(* Fibers promised to a worker, and fibers a worker has in hand.           *)
Charged == Cardinality({w \in Owners : at[w] \in Asking \cup {"own_undo", "shared_undo"}})
InHand == Cardinality({w \in Owners : at[w] \in {"move", "trim"}})
Alive == SumFunction(size) + used + InHand

(* The accounts add up to the fibers alive and those asked for, although a *)
(* fiber is charged to one pool and credited to another and refusals are   *)
(* undone late: so no stack beyond the limit is ever in use, no pool holds *)
(* more than it has room for, and at most one per worker is still on its   *)
(* way back to the heap.                                                   *)
FibersCounted ==
    /\ SumFunction(total) = Alive + Charged
    /\ Alive <= MaxStacks
    /\ \A p \in Pools : size[p] \in 0..max_size[p]
    /\ Alive + SumFunction(dying) <= MaxStacks + Cardinality(Owners)
=============================================================================

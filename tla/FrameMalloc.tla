---------------------------- MODULE FrameMalloc ----------------------------
(***************************************************************************)
(* The allocator of frames (runtime/frame_malloc.c).                       *)
(*                                                                         *)
(* Memory comes from the system in chunks, is cut into blocks of a few     *)
(* sizes, one per bucket, and stays with the runtime until it ends.  A     *)
(* worker keeps a free list per bucket, filled in batches from the global  *)
(* lists and cut by about one half once its potential, the blocks that     *)
(* passed through it, exceeds a limit: blocks are freed by whatever worker *)
(* is last to use them.  Blocks of one bucket are alike, so that a list is *)
(* its length.  The global lists are changed under a lock only, and a      *)
(* worker's own by that worker: each operation is one step.                *)
(***************************************************************************)
EXTENDS Integers, FiniteSets, Functions

CONSTANTS Allocators,      \* the workers
          BucketSizes,     \* __cilkrts_bucket_sizes: a bucket is named by it
          Chunk,           \* FRAME_MALLOC_CHUNK
          BatchSize, PotentialLimit,
          MaxChunks,       \* bound on what the system gives
          MaxPotential     \* bound on the blocks taken without any freed

VARIABLES free_list, bucket_potential,    \* worker -> size -> blocks, bytes
          global_free_list,               \* size -> blocks
          room,                           \* pool_end - pool_begin
          allocated_from_os, allocated_from_global_pool, wasted,
          in_use,                         \* size -> blocks handed out
          done                            \* workers cleaned up

malloc_vars == <<free_list, bucket_potential, global_free_list, room, in_use, done,
          allocated_from_os, allocated_from_global_pool, wasted>>

MallocInit ==
    /\ free_list = [w \in Allocators |-> [s \in BucketSizes |-> 0]]
    /\ bucket_potential = [w \in Allocators |-> [s \in BucketSizes |-> 0]]
    /\ global_free_list = [s \in BucketSizes |-> 0]
    /\ room = 0 /\ allocated_from_os = 0 /\ allocated_from_global_pool = 0
    /\ wasted = 0
    /\ in_use = [s \in BucketSizes |-> 0]
    /\ done = {}

-----------------------------------------------------------------------------
(* Variants of the definitions below with a plausible mistake in each:     *)
(* what the mutation runs put in their place.  No specification uses them. *)

(* What is left of a chunk that is too small for the block stays in the    *)
(* account of the new one. *)
Bug_Carve(s, r) ==
    IF s <= r THEN [room |-> r - s, new |-> 0, lost |-> 0]
    ELSE [room |-> Chunk - s, new |-> Chunk, lost |-> 0]

-----------------------------------------------------------------------------
(* A block of size s is cut from a chunk that has r bytes left. *)
Carve(s, r) ==
    IF s <= r THEN [room |-> r - s, new |-> 0, lost |-> 0]
    ELSE [room |-> Chunk - s, new |-> Chunk, lost |-> r]

(* One block more, and k blocks, one after the other. *)
Cut(s, x) ==
    LET c == Carve(s, x.room)
    IN  [room |-> c.room, new |-> x.new + c.new, lost |-> x.lost + c.lost]
Carved(r, s, k) ==
    LET f[i \in 0..k] == IF i = 0 THEN [room |-> r, new |-> 0, lost |-> 0] ELSE Cut(s, f[i - 1])
    IN  f[k]

Up(n, d) == (n + d - 1) \div d
Batch(s) == Up(BatchSize, s)

(* Needed by the proofs: blocks fit into a chunk, and a batch of any size  *)
(* stays below the limit, which is four times what it is made to reach     *)
(* (frame_malloc.c:200-201).                                               *)
MallocAssumption ==
    /\ IsFiniteSet(Allocators) /\ Allocators # {}
    /\ IsFiniteSet(BucketSizes) /\ Chunk \in Nat /\ BucketSizes \subseteq 1..Chunk
    /\ BatchSize \in Nat \ {0} /\ PotentialLimit \in Nat
    /\ \A s \in BucketSizes : Batch(s) * s <= PotentialLimit

(* Bytes in a number of blocks of each size. *)
Bytes(f) == SumFunction([s \in BucketSizes |-> s * f[s]])

(* The worker's list is empty: it gets a batch from the global list, and   *)
(* what that lacks from a chunk, and then its block.                       *)
AllocateFromBatch(w, s) ==
    LET n == Batch(s)
        reused == IF global_free_list[s] < n THEN global_free_list[s] ELSE n
        c == Carved(room, s, n - reused)
    IN  /\ free_list[w][s] = 0
        /\ allocated_from_os + c.new <= MaxChunks * Chunk
        /\ bucket_potential[w][s] + n * s <= MaxPotential
        /\ bucket_potential' = [bucket_potential EXCEPT ![w][s] = @ + n * s]
        /\ global_free_list' = [global_free_list EXCEPT ![s] = @ - reused]
        /\ room' = c.room
        /\ allocated_from_os' = allocated_from_os + c.new
        /\ wasted' = wasted + c.lost
        /\ allocated_from_global_pool' = allocated_from_global_pool + n * s
        /\ free_list' = [free_list EXCEPT ![w][s] = n - 1]
        /\ in_use' = [in_use EXCEPT ![s] = @ + 1]
        /\ UNCHANGED done

AllocateFrame(w, s) ==
    /\ free_list[w][s] > 0
    /\ free_list' = [free_list EXCEPT ![w][s] = @ - 1]
    /\ in_use' = [in_use EXCEPT ![s] = @ + 1]
    /\ UNCHANGED <<bucket_potential, global_free_list, room, allocated_from_os,
                   allocated_from_global_pool, wasted, done>>

(* What gc_bucket keeps of a list of n blocks: as many as make up half the *)
(* potential, and the one that the walk stopped at.                        *)
Walked(n, s, pot) == IF n < Up(pot, 2 * s) THEN n ELSE Up(pot, 2 * s)
Kept(n, s, pot) == IF n > Walked(n, s, pot) THEN Walked(n, s, pot) + 1 ELSE n

FreeFrame(w, s) ==
    LET pot == bucket_potential[w][s] + s
        n == free_list[w][s] + 1
        gc == pot > PotentialLimit
        kept == IF gc THEN Kept(n, s, pot) ELSE n
    IN  /\ in_use[s] > 0
        /\ in_use' = [in_use EXCEPT ![s] = @ - 1]
        /\ bucket_potential' = [bucket_potential EXCEPT ![w][s] =
                                  IF gc THEN Walked(n, s, pot) * s ELSE pot]
        /\ free_list' = [free_list EXCEPT ![w][s] = kept]
        /\ global_free_list' = [global_free_list EXCEPT ![s] = @ + n - kept]
        /\ allocated_from_global_pool' = allocated_from_global_pool - (n - kept) * s
        /\ UNCHANGED <<room, allocated_from_os, wasted, done>>

-----------------------------------------------------------------------------
(* The runtime ends: each worker in turn moves its lists to the global     *)
(* ones, and at last the balance is looked at.                             *)

Cleanup(w) ==
    /\ w \notin done /\ \A s \in BucketSizes : in_use[s] = 0
    /\ done' = done \cup {w}
    /\ global_free_list' = [s \in BucketSizes |-> global_free_list[s] + free_list[w][s]]
    /\ allocated_from_global_pool' = allocated_from_global_pool - Bytes(free_list[w])
    /\ free_list' = [free_list EXCEPT ![w] = [s \in BucketSizes |-> 0]]
    /\ bucket_potential' = [bucket_potential EXCEPT ![w] = [s \in BucketSizes |-> 0]]
    /\ UNCHANGED <<room, allocated_from_os, wasted, in_use>>

MallocNext ==
    \E w \in Allocators :
        \/ done = {} /\ \E s \in BucketSizes :
               AllocateFromBatch(w, s) \/ AllocateFrame(w, s) \/ FreeFrame(w, s)
        \/ Cleanup(w)

MallocSpec == MallocInit /\ [][MallocNext]_malloc_vars

-----------------------------------------------------------------------------
OwnBytes == SumFunction([w \in Allocators |-> Bytes(free_list[w])])

MallocTypeOK ==
    /\ free_list \in [Allocators -> [BucketSizes -> Nat]]
    /\ bucket_potential \in [Allocators -> [BucketSizes -> Nat]]
    /\ global_free_list \in [BucketSizes -> Nat] /\ in_use \in [BucketSizes -> Nat]
    /\ room \in 0..Chunk /\ wasted \in Nat /\ allocated_from_os \in Nat
    /\ allocated_from_global_pool \in Nat /\ done \subseteq Allocators

(* What is handed out or kept by workers is what the global pool thinks it *)
(* gave, whoever frees what, and with the free rest, the lost ends of      *)
(* chunks and the open chunk it is what the system gave: so that "MEMORY   *)
(* LEAK DETECTED" (frame_malloc.c:260) is never reported for nothing.      *)
BytesAccounted ==
    /\ allocated_from_global_pool = Bytes(in_use) + OwnBytes
    /\ allocated_from_os =
         allocated_from_global_pool + Bytes(global_free_list) + room + wasted
    /\ done = Allocators => allocated_from_global_pool = 0

(* "Keep up to POT/2 elements in the free list" (frame_malloc.c:309): a    *)
(* worker that frees what others allocate keeps no more than the limit and *)
(* the one block the walk stopped at.                                      *)
ListsBounded ==
    \A w \in Allocators, s \in BucketSizes : free_list[w][s] * s <= PotentialLimit + s

FramesAccounted == BytesAccounted /\ ListsBounded
=============================================================================

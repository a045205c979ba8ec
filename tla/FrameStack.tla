----------------------------- MODULE FrameStack -----------------------------
(***************************************************************************)
(* The stack of one spawning function with arrays of variable length       *)
(* (runtime/config/x86/cilk-abi-vla.c), while its continuation is stolen   *)
(* on to other stacks and comes back at the sync (runtime/full_frame.c).   *)
(*                                                                         *)
(* A frame that is synched allocates an array by moving itself down, and   *)
(* frees it by moving up.  A frame that is not synched may run on another  *)
(* stack than the one it will sync on: it allocates from the heap, and     *)
(* frees what it had on the first stack by a note in ff->sync_sp.  That    *)
(* field is a stack pointer while the frame is suspended, and while it     *)
(* runs the distance from the running to the waiting stack pointer.        *)
(* Addresses are counted in units of the least alignment.                  *)
(***************************************************************************)
EXTENDS Integers, Sequences, Functions

CONSTANTS Home,            \* the stack pointer that the function starts with
          Stolen,          \* bases of the thieves' stacks
          Lengths, Alignments,
          Distances,       \* distance_from_sp_to_alloca_area
          MaxArrays,       \* bound on the arrays and pushes alive at once
          Depth            \* bound on the stack used

VARIABLES sp, sync_sp,
          unsynched,       \* CILK_FRAME_UNSYNCHED
          arrays,          \* what is alive, the latest last
          holes            \* (ghost) what alignment and distance have cost

stack_vars == <<sp, sync_sp, unsynched, arrays, holes>>

(* Needed by the proofs. *)
StackAssumption ==
    /\ Home \in Int /\ Depth \in Int /\ MaxArrays \in Nat /\ Stolen \subseteq Int
    /\ Lengths \subseteq Nat /\ Alignments \subseteq Nat \ {0} /\ Distances \subseteq Nat

FInit == /\ sp = Home /\ sync_sp = 0 /\ unsynched = FALSE
         /\ arrays = <<>> /\ holes = 0

-----------------------------------------------------------------------------
(* Variants of the definitions below with a plausible mistake in each:     *)
(* what the mutation runs put in their place.  No specification uses them. *)

(* The stack pointer where the frame was suspended at first is put, not    *)
(* the one that follows what it has pushed since.                          *)
Bug_PutStack(ff_sync_sp) == IF ff_sync_sp = 0 THEN sp ELSE Home

-----------------------------------------------------------------------------
RoundUp(n, align) == ((n + align - 1) \div align) * align
RoundDown(n, align) == (n \div align) * align

Push(a) == arrays' = Append(arrays, a)
Latest == arrays[Len(arrays)]
Drop == arrays' = SubSeq(arrays, 1, Len(arrays) - 1)

(* The function's own frame is copied down or up with its base pointer.    *)
MoveFrame(new) == sp' = new

FullSize(size, align, tag) == RoundUp(size, align) + tag

(* An array, with a tag below it unless the compiler will know where it is. *)
StackAlloc(size, align, distance, needs_tag) ==
    LET tag == IF needs_tag THEN align ELSE 0
        full == FullSize(size, align, tag)
        t == RoundDown(sp + distance - full - distance, align)
        new == t - distance
    IN  /\ Len(arrays) < MaxArrays
        /\ \/ /\ unsynched /\ needs_tag
              /\ Push([on |-> "heap", at |-> 0, size |-> full, tag |-> tag])
              /\ UNCHANGED <<sp, holes>>
           \/ /\ ~unsynched /\ new >= Home - Depth
              /\ MoveFrame(new)
              /\ Push([on |-> "stack", at |-> t, size |-> full, tag |-> tag])
              /\ holes' = holes + (sp - full - new)
        /\ UNCHANGED <<sync_sp, unsynched>>

FreeOnStack(a) ==
    /\ ~unsynched /\ a.on = "stack"
    /\ MoveFrame(sp + a.size)
    /\ UNCHANGED sync_sp

AdjustStack(size) == sync_sp' = sync_sp + size

(* vla_free_from_original_stack. *)
FreeOnOtherStack(a) ==
    /\ unsynched /\ a.on = "stack"
    /\ AdjustStack(a.size)
    /\ UNCHANGED sp

FreeOnHeap(a) == a.on = "heap" /\ UNCHANGED <<sp, sync_sp>>

(* Arrays are freed in the reverse of their order. *)
StackFree ==
    /\ arrays # <<>> /\ Latest.on # "push"
    /\ FreeOnStack(Latest) \/ FreeOnOtherStack(Latest) \/ FreeOnHeap(Latest)
    /\ Drop
    /\ UNCHANGED <<unsynched, holes>>

-----------------------------------------------------------------------------
PutStack(ff_sync_sp) == sp + ff_sync_sp
TakeStack(ff_sync_sp, new) == ff_sync_sp - new

(* The top of a thief's stack, and the frame resumed there. *)
Executing(stack_base) == RoundDown(stack_base - 5, 5)
Resume(put, new) == /\ sp' = new
                    /\ sync_sp' = TakeStack(put, new)

(* The continuation is stolen: suspended, and resumed on another stack.    *)
Steal(stack_base) ==
    /\ Resume(PutStack(sync_sp), Executing(stack_base))
    /\ unsynched' = TRUE
    /\ UNCHANGED <<arrays, holes>>

(* A pending child makes the frame wait at its sync without any steal.     *)
DetachPending ==
    /\ ~unsynched /\ unsynched' = TRUE
    /\ UNCHANGED <<sp, sync_sp, arrays, holes>>

(* The frame waits at its sync and is resumed there. *)
Sync ==
    /\ unsynched /\ unsynched' = FALSE
    /\ Resume(PutStack(sync_sp), PutStack(sync_sp))
    /\ UNCHANGED <<arrays, holes>>

(* The function pushes, and pops, something itself: what it pushes on a    *)
(* thief's stack it may pop after the sync.                                *)
PushOne ==
    /\ Len(arrays) < MaxArrays /\ sp + sync_sp > Home - Depth
    /\ sp' = sp - 1
    /\ Push([on |-> "push", at |-> 0, size |-> 1, tag |-> 0])
    /\ UNCHANGED <<sync_sp, unsynched, holes>>
PopOne ==
    /\ arrays # <<>> /\ Latest.on = "push"
    /\ sp' = sp + 1
    /\ Drop
    /\ UNCHANGED <<sync_sp, unsynched, holes>>

FNext ==
    \/ \E size \in Lengths, align \in Alignments, distance \in Distances,
          needs_tag \in BOOLEAN : StackAlloc(size, align, distance, needs_tag)
    \/ StackFree
    \/ \E stack_base \in Stolen : Steal(stack_base)
    \/ DetachPending \/ Sync
    \/ PushOne \/ PopOne

FSpec == FInit /\ [][FNext]_stack_vars

-----------------------------------------------------------------------------
Taken(a) == IF a.on = "heap" THEN 0 ELSE a.size
Sizes(s) == SumFunction([i \in DOMAIN s |-> Taken(s[i])])

(* Where the frame would find its stack pointer if it were synched now.    *)
AtSync == sp + sync_sp

StackTypeOK == /\ sp \in Int /\ sync_sp \in Int /\ holes \in Nat
               /\ ~unsynched => sync_sp = 0

(* Wherever the continuation runs and whatever it frees there, the stack   *)
(* pointer comes back below every array that lives on the first stack,     *)
(* arrays do not overlap, and no more is lost than alignment and distance  *)
(* have cost (full_frame.h:371-417, cilk-abi-vla.c:425-428).               *)
StackIsExact ==
    /\ AtSync = Home - Sizes(arrays) - holes
    /\ \A i \in DOMAIN arrays : arrays[i].on = "stack" =>
          /\ arrays[i].at + arrays[i].size <= Home
          /\ AtSync + Sizes(SubSeq(arrays, i + 1, Len(arrays))) <= arrays[i].at
          /\ \A j \in 1..(i - 1) : arrays[j].on = "stack" =>
                arrays[i].at + arrays[i].size <= arrays[j].at

FrameStackIsRight == StackTypeOK /\ StackIsExact
=============================================================================

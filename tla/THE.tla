-------------------------------- MODULE THE --------------------------------
(***************************************************************************)
(* The THE protocol on the deque of one worker (runtime/scheduler.c,       *)
(* 497-660, 886-933, 1380-1502, 1885-1889, 2852-2970, 3095-3109, 3356-3399 *)
(* and runtime/cilk-abi.c 293-400; the spawn sequence is the one of        *)
(* include/internal/cilk_fake.h 182-208).                                  *)
(*                                                                         *)
(* The worker pushes and pops at the tail without a lock.  Thieves take    *)
(* the worker's lock, announce their intention in E, look at T, and either *)
(* advance H or take the announcement back.  Both sides store first and    *)
(* load second, with a full fence between, so interleaving single loads    *)
(* and stores is what the fenced code can do.                              *)
(*                                                                         *)
(* Pointers into the task queue are offsets from l->ltq.  The frames on    *)
(* the queue are numbered by the spawn that pushed them, so that a frame   *)
(* pushed twice counts as two continuations.  The lock is one variable:    *)
(* WorkerLock shows how it is implemented.                                 *)
(***************************************************************************)
EXTENDS Integers, FiniteSets, Sequences

CONSTANTS Owner,      \* the worker that owns the deque
          Thieves,    \* the workers that may steal from it
          NoOwner,    \* the lock is free
          Size,       \* ltq_limit - ltq
          MaxSpawns,  \* bound on the number of spawns
          Replaying,  \* record_or_replay = REPLAY_LOG
          NumaFrames  \* frames are restricted to ranges of NUMA domains

ASSUME DequeAssumption ==
    /\ Owner \notin Thieves
    /\ NoOwner \notin Thieves \cup {Owner}
    /\ Size \in Nat \ {0}
    /\ MaxSpawns \in Nat
    /\ Replaying \in BOOLEAN /\ NumaFrames \in BOOLEAN

VARIABLES ltq,            \* the slots of the lazy task queue
          head, tail,     \* H and T
          exc,            \* E
          protected_tail, \* no slot at or above it may be stolen
          frame,          \* whether the worker has a full frame (l->frame_ff)
          lock,           \* the worker's lock
          opc,            \* what the worker is doing
          tpc,            \* what each thief is doing
          proceed,        \* thief -> proceed_with_steal
          slot,           \* thief -> the slot `h' it has claimed
          spawns,         \* number of spawns so far
          takes,          \* history: how often a continuation was taken
          stolen,         \* history: what was stolen, in order
          guarded         \* history: pushed while stealing is disallowed

deque == <<ltq, head, tail, exc, protected_tail, frame>>
history == <<spawns, takes, stolen, guarded>>
thieves == <<tpc, proceed, slot>>
vars == <<deque, lock, opc, thieves, history>>

Continuations == 1..MaxSpawns
Slots == 0..(Size - 1)

(* A user worker is bound with a full frame of its own; a system worker    *)
(* starts in the scheduler with none.                                      *)
Init ==
    /\ ltq = [i \in Slots |-> 0]
    /\ head = 0 /\ tail = 0 /\ exc = 0
    /\ protected_tail = Size
    /\ frame \in BOOLEAN
    /\ opc = IF frame THEN "work" ELSE "search"
    /\ lock = NoOwner
    /\ tpc = [t \in Thieves |-> "out"]
    /\ proceed = [t \in Thieves |-> TRUE]
    /\ slot = [t \in Thieves |-> 0]
    /\ spawns = 0
    /\ takes = [c \in Continuations |-> 0]
    /\ stolen = <<>>
    /\ guarded = {}

Take(c) == takes' = [takes EXCEPT ![c] = @ + 1]

(* The two operations on E are a load and a store under the lock. *)
increment_E == exc' = exc + 1
decrement_E == exc' = exc - 1
reset_THE_exception == exc' = head

OwnerGoto(from, to) == opc = from /\ opc' = to
ThiefGoto(t, from, to) == tpc[t] = from /\ tpc' = [tpc EXCEPT ![t] = to]
OwnerLocks == lock = NoOwner /\ lock' = Owner
Unlock == lock' = NoOwner

-----------------------------------------------------------------------------
(* Variants of the actions below with a plausible mistake in each: what    *)
(* the mutation runs put in their place.  No specification uses them.      *)

(* undo_detach compares the tail with H, which moves too late, not with E. *)
Bug_WinOnHead ==
    /\ ~(tail < head)
    /\ OwnerGoto("compare", "work")
    /\ Take(ltq[tail])
    /\ UNCHANGED <<deque, lock, thieves, spawns, stolen, guarded>>

(* The tail is not restored when the parent was stolen. *)
Bug_OrphanKeepsTail ==
    /\ ~(head < tail + 1)
    /\ OwnerGoto("check", "orphan")
    /\ reset_THE_exception
    /\ Unlock
    /\ UNCHANGED <<ltq, head, tail, protected_tail, frame, thieves, history>>

(* An aborted steal does not take its announcement back. *)
Bug_NumaMismatchKeepsE(t) ==
    /\ NumaFrames
    /\ ThiefGoto(t, "match_numa", "unlock")
    /\ UNCHANGED <<deque, lock, opc, proceed, slot, history>>

(* The protected tail is not looked at. *)
Bug_IgnoreProtected(t) ==
    /\ ThiefGoto(t, "look_protected", "match_replay")
    /\ UNCHANGED <<deque, lock, opc, proceed, slot, history>>

(* An empty queue is taken for one with a frame. *)
Bug_LookAhead(t) ==
    /\ ThiefGoto(t, "look_tail", IF head <= tail THEN "look_protected" ELSE "retreat")
    /\ UNCHANGED <<deque, lock, opc, proceed, slot, history>>

(* A thief that finds nothing looks again, with the lock in its hands. *)
Bug_RetreatLooksAgain(t) ==
    /\ ThiefGoto(t, "retreat", "look_tail")
    /\ UNCHANGED <<deque, lock, opc, proceed, slot, history>>

-----------------------------------------------------------------------------
(* A spawn: store the parent's frame, then advance the tail. *)
StoreFrame ==
    /\ spawns < MaxSpawns /\ tail < Size
    /\ OwnerGoto("work", "push")
    /\ ltq' = [ltq EXCEPT ![tail] = spawns + 1]
    /\ spawns' = spawns + 1
    /\ UNCHANGED <<head, tail, exc, protected_tail, frame, lock, thieves, takes, stolen, guarded>>

AdvanceTail ==
    /\ OwnerGoto("push", "work")
    /\ tail' = tail + 1
    /\ guarded' = IF protected_tail = 0 THEN guarded \cup {spawns} ELSE guarded
    /\ UNCHANGED <<ltq, head, exc, protected_tail, frame, lock, thieves, spawns, takes, stolen>>

(* A spawn helper returns normally: __cilkrts_undo_detach retracts the     *)
(* tail, and after the fence compares it with E.  The helper at the bottom *)
(* of the deque, whose parent is gone already, does so from an empty one.  *)
RetractTail ==
    /\ OwnerGoto("work", "compare")
    /\ tail' = tail - 1
    /\ UNCHANGED <<ltq, head, exc, protected_tail, frame, lock, thieves, history>>

WinUndoDetach ==
    /\ ~(tail < exc)
    /\ OwnerGoto("compare", "work")
    /\ Take(ltq[tail])
    /\ UNCHANGED <<deque, lock, thieves, spawns, stolen, guarded>>

SuspectSteal ==
    /\ tail < exc
    /\ OwnerGoto("compare", "suspect")
    /\ UNCHANGED <<deque, lock, thieves, history>>

(* __cilkrts_c_THE_exception_check *)
LockForCheck ==
    /\ OwnerLocks
    /\ OwnerGoto("suspect", "check")
    /\ UNCHANGED <<deque, thieves, history>>

stolen_p == ~(head < tail + 1)

ParentAttached ==
    /\ ~stolen_p
    /\ OwnerGoto("check", "work")
    /\ reset_THE_exception
    /\ Take(ltq[tail])
    /\ Unlock
    /\ UNCHANGED <<ltq, head, tail, protected_tail, frame, thieves, spawns, stolen, guarded>>

ParentStolen ==
    /\ stolen_p
    /\ OwnerGoto("check", "orphan")
    /\ reset_THE_exception
    /\ tail' = tail + 1
    /\ Unlock
    /\ UNCHANGED <<ltq, head, protected_tail, frame, thieves, history>>

(* A spawn helper returns with an exception: __cilkrts_pop_tail. *)
LockForPop ==
    /\ OwnerLocks
    /\ OwnerGoto("work", "pop")
    /\ UNCHANGED <<deque, thieves, history>>

PopTail ==
    /\ head < tail
    /\ OwnerGoto("pop", "work")
    /\ tail' = tail - 1
    /\ Take(ltq[tail - 1])
    /\ Unlock
    /\ UNCHANGED <<ltq, head, exc, protected_tail, frame, thieves, spawns, stolen, guarded>>

PopEmpty ==
    /\ ~(head < tail)
    /\ OwnerGoto("pop", "orphan")
    /\ Unlock
    /\ UNCHANGED <<deque, thieves, history>>

(* __cilkrts_promote_own_deque: the worker steals from itself until the    *)
(* dekker protocol fails, all of it under its own lock.                    *)
LockForPromote ==
    /\ OwnerLocks
    /\ OwnerGoto("work", "promote")
    /\ UNCHANGED <<deque, thieves, history>>

Promote ==
    LET end == IF tail < protected_tail THEN tail ELSE protected_tail
        new == IF head < end THEN end ELSE head
        promoted == {ltq[i] : i \in head..(new - 1)}
    IN  /\ OwnerGoto("promote", "work")
        /\ head' = new
        /\ exc' = exc + (new - head)
        /\ takes' = [c \in Continuations |->
                        IF c \in promoted THEN takes[c] + 1 ELSE takes[c]]
        /\ stolen' = stolen \o [i \in 1..(new - head) |-> ltq[head + i - 1]]
        /\ Unlock
        /\ UNCHANGED <<ltq, tail, protected_tail, frame, thieves, spawns, guarded>>

(* A stolen frame, resumed at the bottom of the deque, reaches a sync. *)
Suspend ==
    /\ head = 0 /\ tail = 0
    /\ OwnerGoto("work", "orphan")
    /\ UNCHANGED <<deque, lock, thieves, history>>

(* run_scheduling_stack_fcn gives the frame up, without the lock. *)
ClearFrame ==
    /\ OwnerGoto("orphan", "search")
    /\ frame' = FALSE
    /\ UNCHANGED <<ltq, head, tail, exc, protected_tail, lock, thieves, history>>

(* The scheduling loop has found a frame: setup_for_execution. *)
LockForSetup ==
    /\ OwnerLocks
    /\ OwnerGoto("search", "setup")
    /\ UNCHANGED <<deque, thieves, history>>

SetupForExecution ==
    /\ OwnerGoto("setup", "work")
    /\ head' = 0 /\ tail' = 0 /\ exc' = 0
    /\ frame' = TRUE
    /\ Unlock
    /\ UNCHANGED <<ltq, protected_tail, thieves, history>>

(* __cilkrts_disallow_stealing(w, NULL) and __cilkrts_restore_stealing. *)
DisallowStealing ==
    /\ OwnerGoto("work", "work")
    /\ protected_tail' = 0
    /\ UNCHANGED <<ltq, head, tail, exc, frame, lock, thieves, history>>

RestoreStealing ==
    /\ OwnerGoto("work", "work")
    /\ protected_tail' = Size
    /\ guarded' = {}
    /\ UNCHANGED <<ltq, head, tail, exc, frame, lock, thieves, spawns, takes, stolen>>

-----------------------------------------------------------------------------
(* random_steal.  The unlocked can_steal_from_rl is a hint that a ready    *)
(* pending frame makes true as well, so a thief may come at any time.      *)
TryLock(t) ==
    /\ lock = NoOwner
    /\ lock' = t
    /\ ThiefGoto(t, "out", "locked")
    /\ UNCHANGED <<deque, opc, proceed, slot, history>>

(* The victim has no frame, is on another team, or has a ready list. *)
PassOver(t) ==
    /\ ThiefGoto(t, "locked", "unlock")
    /\ UNCHANGED <<deque, lock, opc, proceed, slot, history>>

(* dekker_protocol: announce, then load T, then load protected_tail. *)
AnnounceSteal(t) ==
    /\ frame
    /\ ThiefGoto(t, "locked", "look_tail")
    /\ increment_E
    /\ proceed' = [proceed EXCEPT ![t] = TRUE]
    /\ UNCHANGED <<ltq, head, tail, protected_tail, frame, lock, opc, slot, history>>

LookAtTail(t) ==
    /\ ThiefGoto(t, "look_tail", IF head < tail THEN "look_protected" ELSE "retreat")
    /\ UNCHANGED <<deque, lock, opc, proceed, slot, history>>

LookAtProtected(t) ==
    /\ ThiefGoto(t, "look_protected",
                 IF head < protected_tail THEN "match_replay" ELSE "retreat")
    /\ UNCHANGED <<deque, lock, opc, proceed, slot, history>>

Retreat(t) ==
    /\ ThiefGoto(t, "retreat", "unlock")
    /\ decrement_E
    /\ UNCHANGED <<ltq, head, tail, protected_tail, frame, lock, opc, proceed, slot, history>>

(* The log asks for another frame: only when a log is replayed. *)
ReplayMismatch(t) ==
    /\ Replaying
    /\ ThiefGoto(t, "match_replay", "match_numa")
    /\ decrement_E
    /\ proceed' = [proceed EXCEPT ![t] = FALSE]
    /\ UNCHANGED <<ltq, head, tail, protected_tail, frame, lock, opc, slot, history>>

ReplayMatch(t) ==
    /\ ThiefGoto(t, "match_replay", "match_numa")
    /\ UNCHANGED <<deque, lock, opc, proceed, slot, history>>

(* The thief is not in the frame's range of NUMA domains: the announcement *)
(* is taken back, also when a mismatch with the log has done so already.   *)
NumaMismatch(t) ==
    /\ NumaFrames
    /\ ThiefGoto(t, "match_numa", "unlock")
    /\ decrement_E
    /\ proceed' = [proceed EXCEPT ![t] = FALSE]
    /\ UNCHANGED <<ltq, head, tail, protected_tail, frame, lock, opc, slot, history>>

NumaMatch(t) ==
    /\ ThiefGoto(t, "match_numa", IF proceed[t] THEN "detach" ELSE "unlock")
    /\ UNCHANGED <<deque, lock, opc, proceed, slot, history>>

(* detach_for_steal: claim the slot at the head, then read the frame in it *)
(* and replace the victim's full frame by that of the stolen frame's child.*)
ClaimHead(t) ==
    /\ ThiefGoto(t, "detach", "loot")
    /\ slot' = [slot EXCEPT ![t] = head]
    /\ head' = head + 1
    /\ stolen' = Append(stolen, ltq[head])
    /\ UNCHANGED <<ltq, tail, exc, protected_tail, frame, lock, opc, proceed,
                   spawns, takes, guarded>>

LootFrame(t) ==
    /\ ThiefGoto(t, "loot", "unlock")
    /\ Take(ltq[slot[t]])
    /\ frame' = TRUE
    /\ UNCHANGED <<ltq, head, tail, exc, protected_tail, lock, opc, proceed, slot,
                   spawns, stolen, guarded>>

UnlockOther(t) ==
    /\ ThiefGoto(t, "unlock", "out")
    /\ Unlock
    /\ UNCHANGED <<deque, opc, proceed, slot, history>>

-----------------------------------------------------------------------------
(* What the worker does to finish a return it has begun. *)
OwnerReturns ==
    WinUndoDetach \/ SuspectSteal \/ ParentAttached \/ ParentStolen \/ PopTail \/ PopEmpty

OwnerStep ==
    \/ StoreFrame \/ AdvanceTail
    \/ RetractTail \/ OwnerReturns \/ LockForCheck
    \/ LockForPop \/ LockForPromote \/ Promote
    \/ Suspend \/ ClearFrame
    \/ LockForSetup \/ SetupForExecution
    \/ DisallowStealing \/ RestoreStealing

(* The steps of a thief that has the lock. *)
ThiefInside(t) ==
    \/ PassOver(t) \/ AnnounceSteal(t)
    \/ LookAtTail(t) \/ LookAtProtected(t) \/ Retreat(t)
    \/ ReplayMismatch(t) \/ ReplayMatch(t) \/ NumaMismatch(t) \/ NumaMatch(t)
    \/ ClaimHead(t) \/ LootFrame(t) \/ UnlockOther(t)

ThiefStep(t) == TryLock(t) \/ ThiefInside(t)

Next == OwnerStep \/ \E t \in Thieves : ThiefStep(t)

Spec == Init /\ [][Next]_vars

(* Threads in the runtime are scheduled; the worker's lock does not starve *)
(* its worker (WorkerLock, WorkerGetsIn).                                  *)
Fairness ==
    /\ WF_vars(OwnerReturns)
    /\ SF_vars(LockForCheck)
    /\ \A t \in Thieves : WF_vars(ThiefInside(t))
LiveSpec == Spec /\ Fairness

-----------------------------------------------------------------------------
OwnerLocations == {"work", "push", "compare", "suspect", "check", "pop",
                   "promote", "orphan", "search", "setup"}
ThiefLocations == {"out", "locked", "look_tail", "look_protected", "retreat",
                   "match_replay", "match_numa", "detach", "loot", "unlock"}

(* Type invariant.  The tail goes one below the queue while the helper at  *)
(* its bottom is returning.                                                *)
TypeOK ==
    /\ ltq \in [Slots -> 0..MaxSpawns]
    /\ head \in 0..Size /\ tail \in -1..Size /\ exc \in 0..(Size + 1)
    /\ protected_tail \in 0..Size
    /\ frame \in BOOLEAN
    /\ lock \in Thieves \cup {Owner, NoOwner}
    /\ opc \in OwnerLocations
    /\ tpc \in [Thieves -> ThiefLocations]
    /\ proceed \in [Thieves -> BOOLEAN]
    /\ slot \in [Thieves -> Slots]
    /\ spawns \in 0..MaxSpawns
    /\ takes \in [Continuations -> Nat]
    /\ stolen \in Seq(Continuations)
    /\ guarded \subseteq Continuations

(* The worker's own idea of the tail: a retracted tail still counts until  *)
(* the race with a thief is decided.                                       *)
settled_tail == IF opc \in {"compare", "suspect", "check"} THEN tail + 1 ELSE tail

(* The continuations on the deque, oldest first. *)
available == [i \in 1..(settled_tail - head) |-> ltq[head + i - 1]]

OnDeque(c) == \E i \in head..(settled_tail - 1) : ltq[i] = c
BeingLooted(c) == \E t \in Thieves : tpc[t] = "loot" /\ ltq[slot[t]] = c
BeingPushed(c) == opc = "push" /\ c = spawns

(* Every continuation is exactly one of: not spawned yet, on the deque, in *)
(* a thief's hands, or taken, once, by its worker or a thief.  This is     *)
(* what the race between undo_detach (cilk-abi.c:293-315) and              *)
(* dekker_protocol (scheduler.c:638) decides, through the reuse of slots.  *)
TakenExactlyOnce ==
    \A c \in 1..spawns :
        IF OnDeque(c) \/ BeingLooted(c) \/ BeingPushed(c)
        THEN takes[c] = 0 /\ ~(OnDeque(c) /\ BeingLooted(c))
        ELSE takes[c] = 1

(* "with H <= E" (scheduler.c:510), and E comes back to H whenever nobody  *)
(* is stealing, so that a return is not sent to the slow path for ever.    *)
HeadBelowException == head <= exc
ExceptionSettles == lock = NoOwner => exc = head

(* CILK_ASSERT(w->head == w->tail) where a worker leaves a stolen parent   *)
(* (scheduler.c:2944, 2998): parallel reductions run on that deque.        *)
OrphanDequeEmpty == opc = "orphan" => head = tail

(* What is spawned after __cilkrts_disallow_stealing (scheduler.c:3376)    *)
(* stays with its worker; the order of the two stores and of the two loads *)
(* matters: "The update to protected_tail here must precede the update to  *)
(* tail in the next spawn" (scheduler.c:3387).                             *)
GuardedNotStolen ==
    \A t \in Thieves : tpc[t] = "loot" => ltq[slot[t]] \notin guarded

(* A thief that detaches finds the full frame it will split, although the  *)
(* victim clears frame_ff without the lock (local_state.c:68).             *)
VictimHasFrame ==
    \A t \in Thieves : tpc[t] \in {"match_replay", "detach", "loot"} => frame

(* Deque and frame agree on both sides of a steal: who lost its parent has *)
(* nothing left on its deque, who is robbed has a frame to split.          *)
DequeMatchesFrame == OrphanDequeEmpty /\ VictimHasFrame

(* A return that has begun is decided: attached, or its parent stolen.     *)
ReturnsAreDecided == opc = "compare" ~> opc \in {"work", "orphan"}

(* The protocol implements a deque whose operations are single steps.      *)
Abstract == INSTANCE StealDeque WITH avail <- available
ImplementsStealDeque == Abstract!Spec
=============================================================================

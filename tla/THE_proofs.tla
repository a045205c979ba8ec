----------------------------- MODULE THE_proofs -----------------------------
(***************************************************************************)
(* THE for every number of thieves, every size of the task queue and every *)
(* number of spawns.  No invariant of the runs is inductive: whether a     *)
(* frame is still on the deque depends on how far a thief has come with    *)
(* its announcement.  IInv says what E is at each of its points, that a    *)
(* thief past its look at T still has a frame at H whatever the worker     *)
(* does meanwhile, and which frame each slot between H and T holds.        *)
(*                                                                         *)
(* A steal that mismatches the log and the NUMA domain takes its           *)
(* announcement back twice (run the_replay_numa), so the theorems are      *)
(* about runtimes that do not replay a log with restricted frames.         *)
(***************************************************************************)
EXTENDS THE, SequenceTheorems, TLAPS

OneMismatch == ~(Replaying /\ NumaFrames)

(* Who has the lock is where the lock is taken, and nobody else is. *)
LockOK ==
    /\ opc \in {"check", "pop", "promote", "setup"} <=> lock = Owner
    /\ \A t \in Thieves : tpc[t] # "out" <=> lock = t

(* The thief has announced its steal and not taken the announcement back. *)
Announced(t) ==
    \/ tpc[t] \in {"look_tail", "look_protected", "retreat", "match_replay", "detach"}
    \/ tpc[t] = "match_numa" /\ proceed[t]

(* It has seen a frame below T, and so the worker cannot pass H any more. *)
Committed(t) == Announced(t) /\ tpc[t] \notin {"look_tail", "retreat"}

ExceptionOK ==
    /\ lock \in {NoOwner, Owner} => exc = head
    /\ \A t \in Thieves : lock = t => exc = IF Announced(t) THEN head + 1 ELSE head

(* H and T, the worker's side. *)
IndexOK ==
    /\ 0 <= head /\ head <= settled_tail /\ settled_tail <= Size
    /\ opc = "push" => tail < Size
    /\ opc \in {"orphan", "search", "setup"} => head = tail
    /\ frame \/ opc \in {"search", "setup"}

(* The thieves' side. *)
StealOK ==
    \A t \in Thieves :
        /\ Committed(t) => head < settled_tail
        /\ tpc[t] \in {"look_tail", "look_protected", "match_replay"} => proceed[t]
        /\ tpc[t] = "match_numa" /\ ~proceed[t] => Replaying
        /\ tpc[t] = "loot" =>
              slot[t] = head - 1 /\ frame /\ opc \notin {"orphan", "search", "setup"}

(* The slots whose frame somebody is still to take: those between H and T, *)
(* that of a thief between its two steps and that of the worker between    *)
(* the two stores of a spawn.                                              *)
Held(i) ==
    \/ head <= i /\ i < settled_tail
    \/ \E t \in Thieves : tpc[t] = "loot" /\ slot[t] = i
    \/ opc = "push" /\ i = tail

(* They hold different continuations, and all others have been taken.      *)
ContentOK ==
    /\ \A i \in Slots : Held(i) => ltq[i] \in 1..spawns
    /\ \A i, j \in Slots : Held(i) /\ Held(j) /\ ltq[i] = ltq[j] => i = j
    /\ \A c \in Continuations :
          takes[c] = IF c <= spawns /\ ~\E i \in Slots : Held(i) /\ ltq[i] = c
                     THEN 1 ELSE 0
    /\ opc = "push" => ltq[tail] = spawns

Control == LockOK /\ ExceptionOK /\ IndexOK /\ StealOK
IInv == TypeOK /\ Control /\ ContentOK

-----------------------------------------------------------------------------
(* What the proofs about positions need of TypeOK. *)
Numbers ==
    /\ head \in Nat /\ tail \in Int /\ exc \in Nat /\ protected_tail \in Nat /\ Size \in Nat
    /\ lock \in Thieves \cup {Owner, NoOwner}
    /\ tpc \in [Thieves -> ThiefLocations]
    /\ proceed \in [Thieves -> BOOLEAN]
    /\ slot \in [Thieves -> Slots]

(* No step of the worker or of a thief falsifies the relation between the  *)
(* lock, H, T and E and the points where worker and thieves are.           *)
LEMMA NextControl == ASSUME OneMismatch, IInv, [Next]_vars PROVE Control'
<1>a. Numbers /\ Control
  BY DequeAssumption DEF IInv, TypeOK, Numbers
<1> USE DequeAssumption, <1>a
    DEF Numbers, Control, LockOK, ExceptionOK, IndexOK, StealOK, Announced,
        Committed, settled_tail, OwnerGoto, ThiefGoto, OwnerLocks, Unlock,
        increment_E, decrement_E, reset_THE_exception, deque, thieves,
        history, Slots
<1>1. CASE StoreFrame
  BY <1>1 DEF StoreFrame
<1>2. CASE AdvanceTail
  BY <1>2 DEF AdvanceTail
<1>3. CASE RetractTail
  BY <1>3 DEF RetractTail
<1>4. CASE WinUndoDetach
  BY <1>4 DEF WinUndoDetach
<1>5. CASE SuspectSteal
  BY <1>5 DEF SuspectSteal
<1>6. CASE ParentAttached
  BY <1>6 DEF ParentAttached, stolen_p
<1>7. CASE ParentStolen
  BY <1>7 DEF ParentStolen, stolen_p
<1>8. CASE PopTail
  BY <1>8 DEF PopTail
<1>9. CASE PopEmpty
  BY <1>9 DEF PopEmpty
<1>10. CASE LockForCheck
  BY <1>10 DEF LockForCheck
<1>11. CASE LockForPop
  BY <1>11 DEF LockForPop
<1>12. CASE LockForPromote
  BY <1>12 DEF LockForPromote
<1>13. CASE Promote
  <2> DEFINE end == IF tail < protected_tail THEN tail ELSE protected_tail
             new == IF head < end THEN end ELSE head
  <2>1. /\ head \in Nat /\ tail \in Nat /\ lock = Owner
        /\ opc = "promote" /\ opc' = "work"
        /\ head' = new /\ exc' = exc + (new - head) /\ lock' = NoOwner
        /\ UNCHANGED <<tail, frame, tpc, proceed, slot>>
    BY <1>13 DEF Promote
  <2>2. new \in Nat /\ head <= new /\ new <= tail
    BY <2>1
  <2> HIDE DEF new
  <2>3. QED
    BY <2>1, <2>2
<1>14. CASE Suspend
  BY <1>14 DEF Suspend
<1>15. CASE ClearFrame
  BY <1>15 DEF ClearFrame
<1>16. CASE LockForSetup
  BY <1>16 DEF LockForSetup
<1>17. CASE SetupForExecution
  BY <1>17 DEF SetupForExecution
<1>18. CASE DisallowStealing
  BY <1>18 DEF DisallowStealing
<1>19. CASE RestoreStealing
  BY <1>19 DEF RestoreStealing
<1>20. ASSUME NEW t \in Thieves, TryLock(t) PROVE Control'
  BY <1>20 DEF TryLock
<1>21. ASSUME NEW t \in Thieves, PassOver(t) PROVE Control'
  BY <1>21 DEF PassOver
<1>22. ASSUME NEW t \in Thieves, AnnounceSteal(t) PROVE Control'
  BY <1>22 DEF AnnounceSteal
<1>23. ASSUME NEW t \in Thieves, LookAtTail(t) PROVE Control'
  BY <1>23 DEF LookAtTail
<1>24. ASSUME NEW t \in Thieves, LookAtProtected(t) PROVE Control'
  BY <1>24 DEF LookAtProtected
<1>25. ASSUME NEW t \in Thieves, Retreat(t) PROVE Control'
  BY <1>25 DEF Retreat
<1>26. ASSUME NEW t \in Thieves, ReplayMismatch(t) PROVE Control'
  BY <1>26 DEF ReplayMismatch
<1>27. ASSUME NEW t \in Thieves, ReplayMatch(t) PROVE Control'
  BY <1>27 DEF ReplayMatch
<1>28. ASSUME NEW t \in Thieves, NumaMismatch(t) PROVE Control'
  BY <1>28, OneMismatch DEF NumaMismatch, OneMismatch
<1>29. ASSUME NEW t \in Thieves, NumaMatch(t) PROVE Control'
  BY <1>29 DEF NumaMatch
<1>30. ASSUME NEW t \in Thieves, ClaimHead(t) PROVE Control'
  BY <1>30 DEF ClaimHead
<1>31. ASSUME NEW t \in Thieves, LootFrame(t) PROVE Control'
  BY <1>31 DEF LootFrame
<1>32. ASSUME NEW t \in Thieves, UnlockOther(t) PROVE Control'
  BY <1>32 DEF UnlockOther
<1>33. CASE UNCHANGED vars
  BY <1>33 DEF vars, deque, thieves, history
<1>34. QED
  BY <1>1, <1>2, <1>3, <1>4, <1>5, <1>6, <1>7, <1>8, <1>9, <1>10, <1>11,
     <1>12, <1>13, <1>14, <1>15, <1>16, <1>17, <1>18, <1>19, <1>20, <1>21,
     <1>22, <1>23, <1>24, <1>25, <1>26, <1>27, <1>28, <1>29, <1>30, <1>31,
     <1>32, <1>33
  DEF Next, OwnerStep, OwnerReturns, ThiefStep, ThiefInside

-----------------------------------------------------------------------------
(* What a step does to the contents: nothing, or it takes one frame. *)
LEMMA NothingTaken ==
    ASSUME ContentOK,
           UNCHANGED <<ltq, spawns, takes>>,
           \A i \in Slots : Held(i)' <=> Held(i),
           opc' = "push" => opc = "push" /\ tail' = tail
    PROVE  ContentOK'
  BY DEF ContentOK

(* A continuation that leaves the deque is taken once more.                *)
LEMMA OneTaken ==
    ASSUME ContentOK, TypeOK,
           NEW k \in Slots, Held(k),
           UNCHANGED <<ltq, spawns>>,
           takes' = [takes EXCEPT ![ltq[k]] = @ + 1],
           \A i \in Slots : Held(i)' <=> Held(i) /\ i # k,
           opc' = "push" => opc = "push" /\ tail' = tail
    PROVE  ContentOK'
<1>1. ltq[k] \in 1..spawns /\ spawns \in 0..MaxSpawns
  BY DEF ContentOK, TypeOK
<1>2. \A i \in Slots : Held(i) /\ ltq[i] = ltq[k] => i = k
  BY DEF ContentOK
<1>3. takes'[ltq[k]] = 1 /\ \A c \in Continuations \ {ltq[k]} : takes'[c] = takes[c]
  <2>1. ltq[k] \in Continuations
    BY <1>1, DequeAssumption DEF Continuations
  <2>2. takes[ltq[k]] = 0
    BY <2>1, <1>1 DEF ContentOK
  <2>3. QED
    BY <2>1, <2>2 DEF TypeOK
<1>4. \A c \in Continuations :
         takes'[c] = IF c <= spawns /\ ~\E i \in Slots : Held(i)' /\ ltq[i] = c
                     THEN 1 ELSE 0
  BY <1>1, <1>2, <1>3 DEF ContentOK
<1>5. QED
  BY <1>4 DEF ContentOK

(* A step after which the same slots are to be taken. *)
LEMMA SameSlots ==
    ASSUME ContentOK,
           UNCHANGED <<ltq, spawns, takes, head, slot, settled_tail>>,
           \A t \in Thieves : tpc'[t] = "loot" <=> tpc[t] = "loot",
           opc' = "push" <=> opc = "push",
           opc = "push" => tail' = tail
    PROVE  ContentOK'
<1>1. \A i \in Slots : Held(i)' <=> Held(i)
  BY DEF Held
<1>2. QED
  BY <1>1, NothingTaken

(* No step loses a continuation or lets two take it. *)
LEMMA NextContent == ASSUME OneMismatch, IInv, [Next]_vars PROVE ContentOK'
<1>a. Numbers /\ Control /\ ContentOK /\ TypeOK
  BY DequeAssumption DEF IInv, TypeOK, Numbers
<1> USE DequeAssumption, <1>a
    DEF Numbers, OwnerGoto, ThiefGoto, OwnerLocks, Unlock, deque, thieves, history
<1>1. CASE StoreFrame
  <2>1. /\ spawns < MaxSpawns /\ tail < Size /\ tail \in Slots
        /\ opc = "work" /\ opc' = "push" /\ spawns' = spawns + 1
        /\ ltq' = [ltq EXCEPT ![tail] = spawns + 1]
        /\ UNCHANGED <<head, tail, tpc, slot, takes>>
    BY <1>1 DEF StoreFrame, Slots, Control, IndexOK, settled_tail
  <2>2. \A i \in Slots : Held(i)' <=> Held(i) \/ i = tail
    BY <2>1 DEF Held, settled_tail
  <2>3. ~Held(tail)
    BY <2>1 DEF Held, settled_tail, Control, IndexOK, StealOK
  <2>4. ltq'[tail] = spawns + 1 /\ \A i \in Slots \ {tail} : ltq'[i] = ltq[i]
    BY <2>1 DEF TypeOK
  <2>5. spawns \in Nat /\ \A i \in Slots : Held(i) => ltq[i] \in 1..spawns
    BY DEF ContentOK, TypeOK
  <2>6. \A i \in Slots : Held(i)' => ltq'[i] \in 1..spawns'
    BY <2>1, <2>2, <2>4, <2>5
  <2>7. \A i, j \in Slots : Held(i)' /\ Held(j)' /\ ltq'[i] = ltq'[j] => i = j
    BY <2>1, <2>2, <2>4, <2>5 DEF ContentOK
  <2>8. ASSUME NEW c \in Continuations
        PROVE  takes'[c] = IF c <= spawns' /\ ~\E i \in Slots : Held(i)' /\ ltq'[i] = c
                           THEN 1 ELSE 0
    <3>1. CASE c = spawns + 1
      BY <3>1, <2>1, <2>2, <2>4, <2>5 DEF ContentOK, Continuations
    <3>2. CASE c # spawns + 1
      <4>1. c <= spawns' <=> c <= spawns
        BY <3>2, <2>1, <2>5 DEF Continuations
      <4>2. (\E i \in Slots : Held(i)' /\ ltq'[i] = c) <=> \E i \in Slots : Held(i) /\ ltq[i] = c
        BY <3>2, <2>2, <2>3, <2>4
      <4>3. QED
        BY <4>1, <4>2, <2>1 DEF ContentOK
    <3>3. QED
      BY <3>1, <3>2
  <2>9. QED
    BY <2>1, <2>4, <2>6, <2>7, <2>8 DEF ContentOK
<1>2. CASE AdvanceTail
  <2>1. \A i \in Slots : Held(i)' <=> Held(i)
    BY <1>2 DEF AdvanceTail, Held, settled_tail, Slots, Control, IndexOK
  <2>2. QED
    BY <1>2, <2>1, NothingTaken DEF AdvanceTail
<1>3. CASE RetractTail
  BY <1>3, SameSlots DEF RetractTail, settled_tail
<1>4. CASE WinUndoDetach
  <2>1. tail \in Slots /\ Held(tail) /\ \A t \in Thieves : tpc[t] = "loot" => slot[t] # tail
    BY <1>4
    DEF WinUndoDetach, Held, settled_tail, Slots, Control, LockOK, IndexOK, StealOK,
        Announced, ExceptionOK
  <2>2. \A i \in Slots : Held(i)' <=> Held(i) /\ i # tail
    BY <1>4, <2>1 DEF WinUndoDetach, Held, settled_tail, Slots
  <2>3. QED
    BY <1>4, <2>1, <2>2, OneTaken DEF WinUndoDetach, Take
<1>5. CASE SuspectSteal
  BY <1>5, SameSlots DEF SuspectSteal, settled_tail
<1>6. CASE ParentAttached
  <2>1. tail \in Slots /\ Held(tail) /\ \A t \in Thieves : tpc[t] = "loot" => slot[t] # tail
    BY <1>6
    DEF ParentAttached, Held, settled_tail, Slots, Control, LockOK, IndexOK, StealOK,
        Announced, ExceptionOK, stolen_p
  <2>2. \A i \in Slots : Held(i)' <=> Held(i) /\ i # tail
    BY <1>6, <2>1 DEF ParentAttached, Held, settled_tail, Slots
  <2>3. QED
    BY <1>6, <2>1, <2>2, OneTaken DEF ParentAttached, Take
<1>7. CASE ParentStolen
  BY <1>7, SameSlots DEF ParentStolen, settled_tail
<1>8. CASE PopTail
  <2>1. /\ tail - 1 \in Slots /\ Held(tail - 1)
        /\ \A t \in Thieves : tpc[t] = "loot" => slot[t] # tail - 1
    BY <1>8
    DEF PopTail, Held, settled_tail, Slots, Control, LockOK, IndexOK, StealOK,
        Announced, ExceptionOK
  <2>2. \A i \in Slots : Held(i)' <=> Held(i) /\ i # tail - 1
    BY <1>8, <2>1 DEF PopTail, Held, settled_tail, Slots
  <2>3. QED
    BY <1>8, <2>1, <2>2, OneTaken DEF PopTail, Take
<1>9. CASE PopEmpty
  BY <1>9, SameSlots DEF PopEmpty, settled_tail
<1>10. CASE LockForCheck
  BY <1>10, SameSlots DEF LockForCheck, settled_tail
<1>11. CASE LockForPop
  BY <1>11, SameSlots DEF LockForPop, settled_tail
<1>12. CASE LockForPromote
  BY <1>12, SameSlots DEF LockForPromote, settled_tail
<1>13. CASE Promote
  <2> DEFINE end == IF tail < protected_tail THEN tail ELSE protected_tail
             new == IF head < end THEN end ELSE head
             promoted == {ltq[i] : i \in head..(new - 1)}
  <2>1. /\ opc = "promote" /\ opc' = "work" /\ head' = new
        /\ takes' = [c \in Continuations |-> IF c \in promoted THEN takes[c] + 1 ELSE takes[c]]
        /\ UNCHANGED <<ltq, tail, spawns, tpc, slot>>
    BY <1>13 DEF Promote
  <2>2. \A t \in Thieves : tpc[t] # "loot"
    BY <2>1 DEF Control, LockOK
  <2>3. new \in Nat /\ head <= new /\ new <= tail /\ tail <= Size
    BY <2>1 DEF Control, IndexOK, settled_tail
  <2>4. promoted = {ltq[i] : i \in head..(new - 1)}
    OBVIOUS
  <2> HIDE DEF new, promoted
  <2>5. \A i \in Slots : Held(i) <=> head <= i /\ i < tail
    BY <2>1, <2>2 DEF Held, settled_tail
  <2>6. \A i \in Slots : Held(i)' <=> new <= i /\ i < tail
    BY <2>1, <2>2 DEF Held, settled_tail
  <2>7. head..(new - 1) \subseteq {i \in Slots : Held(i)}
    BY <2>3, <2>5 DEF Slots
  <2>8. ASSUME NEW c \in Continuations
        PROVE  takes'[c] = IF c <= spawns /\ ~\E i \in Slots : Held(i)' /\ ltq[i] = c
                           THEN 1 ELSE 0
    <3>1. CASE c \in promoted
      <4>1. PICK k \in head..(new - 1) : c = ltq[k]
        BY <3>1, <2>4
      <4>2. k \in Slots /\ Held(k) /\ ~Held(k)'
        BY <2>3, <2>6, <2>7
      <4>3. takes[c] = 0 /\ c <= spawns
        BY <4>1, <4>2 DEF ContentOK
      <4>4. ~\E i \in Slots : Held(i)' /\ ltq[i] = c
        BY <4>1, <4>2, <2>3, <2>5, <2>6 DEF ContentOK, Slots
      <4>5. QED
        BY <3>1, <4>3, <4>4, <2>1
    <3>2. CASE c \notin promoted
      <4>1. (\E i \in Slots : Held(i)' /\ ltq[i] = c) <=> \E i \in Slots : Held(i) /\ ltq[i] = c
        BY <3>2, <2>3, <2>4, <2>5, <2>6 DEF Slots
      <4>2. QED
        BY <3>2, <4>1, <2>1 DEF ContentOK
    <3>3. QED
      BY <3>1, <3>2
  <2>9. \A i \in Slots : Held(i)' => Held(i)
    BY <2>3, <2>5, <2>6 DEF Slots
  <2>10. QED
    BY <2>1, <2>8, <2>9 DEF ContentOK
<1>14. CASE Suspend
  BY <1>14, SameSlots DEF Suspend, settled_tail
<1>15. CASE ClearFrame
  BY <1>15, SameSlots DEF ClearFrame, settled_tail
<1>16. CASE LockForSetup
  BY <1>16, SameSlots DEF LockForSetup, settled_tail
<1>17. CASE SetupForExecution
  <2>1. /\ lock = Owner /\ head = tail /\ head' = 0 /\ tail' = 0
        /\ opc = "setup" /\ opc' = "work"
        /\ UNCHANGED <<ltq, spawns, takes, tpc, slot>>
    BY <1>17 DEF SetupForExecution, Control, LockOK, IndexOK
  <2>2. \A t \in Thieves : tpc[t] # "loot"
    BY <2>1 DEF Control, LockOK
  <2>3. \A i \in Slots : ~Held(i) /\ ~Held(i)'
    BY <2>1, <2>2 DEF Held, settled_tail, Slots
  <2>4. QED
    BY <2>1, <2>3, NothingTaken
<1>18. CASE DisallowStealing
  BY <1>18, SameSlots DEF DisallowStealing, settled_tail
<1>19. CASE RestoreStealing
  BY <1>19, SameSlots DEF RestoreStealing, settled_tail
<1>20. ASSUME NEW t \in Thieves, TryLock(t) PROVE ContentOK'
  BY <1>20, SameSlots DEF TryLock, settled_tail
<1>21. ASSUME NEW t \in Thieves, PassOver(t) PROVE ContentOK'
  BY <1>21, SameSlots DEF PassOver, settled_tail
<1>22. ASSUME NEW t \in Thieves, AnnounceSteal(t) PROVE ContentOK'
  BY <1>22, SameSlots DEF AnnounceSteal, settled_tail
<1>23. ASSUME NEW t \in Thieves, LookAtTail(t) PROVE ContentOK'
  BY <1>23, SameSlots DEF LookAtTail, settled_tail
<1>24. ASSUME NEW t \in Thieves, LookAtProtected(t) PROVE ContentOK'
  BY <1>24, SameSlots DEF LookAtProtected, settled_tail
<1>25. ASSUME NEW t \in Thieves, Retreat(t) PROVE ContentOK'
  BY <1>25, SameSlots DEF Retreat, settled_tail
<1>26. ASSUME NEW t \in Thieves, ReplayMismatch(t) PROVE ContentOK'
  BY <1>26, SameSlots DEF ReplayMismatch, settled_tail
<1>27. ASSUME NEW t \in Thieves, ReplayMatch(t) PROVE ContentOK'
  BY <1>27, SameSlots DEF ReplayMatch, settled_tail
<1>28. ASSUME NEW t \in Thieves, NumaMismatch(t) PROVE ContentOK'
  BY <1>28, SameSlots DEF NumaMismatch, settled_tail
<1>29. ASSUME NEW t \in Thieves, NumaMatch(t) PROVE ContentOK'
  BY <1>29, SameSlots DEF NumaMatch, settled_tail
<1>30. ASSUME NEW t \in Thieves, ClaimHead(t) PROVE ContentOK'
  <2>1. /\ lock = t /\ head < settled_tail
        /\ \A u \in Thieves : u # t => tpc[u] # "loot"
    BY <1>30 DEF ClaimHead, Control, LockOK, StealOK, Committed, Announced
  <2>2. \A i \in Slots : Held(i)' <=> Held(i)
    BY <1>30, <2>1 DEF ClaimHead, Held, settled_tail, Slots
  <2>3. QED
    BY <1>30, <2>2, NothingTaken DEF ClaimHead
<1>31. ASSUME NEW t \in Thieves, LootFrame(t) PROVE ContentOK'
  <2>1. /\ slot[t] = head - 1 /\ slot[t] \in Slots /\ Held(slot[t])
        /\ \A u \in Thieves : u # t => tpc[u] # "loot"
    BY <1>31 DEF LootFrame, Control, LockOK, StealOK, Held
  <2>2. \A i \in Slots : Held(i)' <=> Held(i) /\ i # slot[t]
    BY <1>31, <2>1 DEF LootFrame, Held, settled_tail, Slots, Control, IndexOK
  <2>3. QED
    BY <1>31, <2>1, <2>2, OneTaken DEF LootFrame, Take
<1>32. ASSUME NEW t \in Thieves, UnlockOther(t) PROVE ContentOK'
  BY <1>32, SameSlots DEF UnlockOther, settled_tail
<1>33. CASE UNCHANGED vars
  BY <1>33, SameSlots DEF vars, settled_tail
<1>34. QED
  BY <1>1, <1>2, <1>3, <1>4, <1>5, <1>6, <1>7, <1>8, <1>9, <1>10, <1>11,
     <1>12, <1>13, <1>14, <1>15, <1>16, <1>17, <1>18, <1>19, <1>20, <1>21,
     <1>22, <1>23, <1>24, <1>25, <1>26, <1>27, <1>28, <1>29, <1>30, <1>31,
     <1>32, <1>33
  DEF Next, OwnerStep, OwnerReturns, ThiefStep, ThiefInside

-----------------------------------------------------------------------------
(* A continuation that is taken stays counted by a number.                 *)
LEMMA TakeType == ASSUME TypeOK, NEW c, Take(c) PROVE takes' \in [Continuations -> Nat]
<1>1. CASE c \in Continuations
  BY <1>1 DEF TypeOK, Take
<1>2. CASE c \notin Continuations
  BY <1>2 DEF TypeOK, Take
<1>3. QED
  BY <1>1, <1>2

(* Types, and the bounds of H, T and E. *)
LEMMA NextType == ASSUME OneMismatch, IInv, [Next]_vars PROVE TypeOK'
<1>a. TypeOK /\ Control /\ ContentOK /\ Control'
  BY NextControl DEF IInv
<1> USE DequeAssumption, <1>a
    DEF TypeOK, OwnerGoto, ThiefGoto, OwnerLocks, Unlock, deque, thieves, history,
        increment_E, decrement_E, reset_THE_exception, Slots,
        OwnerLocations, ThiefLocations, Control, IndexOK, settled_tail
<1>1. CASE StoreFrame
  <2>1. spawns + 1 \in 0..MaxSpawns /\ tail \in Slots
    BY <1>1 DEF StoreFrame
  <2>2. ltq' \in [Slots -> 0..MaxSpawns]
    BY <1>1, <2>1 DEF StoreFrame
  <2>3. QED
    BY <1>1, <2>1, <2>2 DEF StoreFrame
<1>2. CASE AdvanceTail
  <2>1. tail \in Slots /\ Held(tail)
    BY <1>2 DEF AdvanceTail, Held
  <2>2. spawns \in Continuations
    BY <1>2, <2>1 DEF AdvanceTail, ContentOK, Continuations
  <2>3. QED
    BY <1>2, <2>2 DEF AdvanceTail
<1>3. CASE RetractTail
  BY <1>3 DEF RetractTail
<1>4. CASE WinUndoDetach
  BY <1>4, TakeType DEF WinUndoDetach
<1>5. CASE SuspectSteal
  BY <1>5 DEF SuspectSteal
<1>6. CASE ParentAttached
  BY <1>6, TakeType DEF ParentAttached, stolen_p
<1>7. CASE ParentStolen
  BY <1>7 DEF ParentStolen, stolen_p
<1>8. CASE PopTail
  BY <1>8, TakeType DEF PopTail
<1>9. CASE PopEmpty
  BY <1>9 DEF PopEmpty
<1>10. CASE LockForCheck
  BY <1>10 DEF LockForCheck
<1>11. CASE LockForPop
  BY <1>11 DEF LockForPop
<1>12. CASE LockForPromote
  BY <1>12 DEF LockForPromote
<1>13. CASE Promote
  <2> DEFINE end == IF tail < protected_tail THEN tail ELSE protected_tail
             new == IF head < end THEN end ELSE head
             loot == [i \in 1..(new - head) |-> ltq[head + i - 1]]
  <2>1. /\ opc = "promote" /\ lock = Owner /\ exc = head
        /\ new \in Nat /\ head <= new /\ new <= tail /\ tail <= Size
    BY <1>13 DEF Promote, LockOK, ExceptionOK
  <2>2. \A i \in head..(new - 1) : ltq[i] \in Continuations
    BY <2>1 DEF ContentOK, Held, Continuations
  <2>3. loot \in Seq(Continuations)
    <3>1. new - head \in Nat /\ \A i \in 1..(new - head) : loot[i] \in Continuations
      BY <2>1, <2>2
    <3> HIDE DEF new
    <3>2. loot \in [1..(new - head) -> Continuations]
      BY <3>1
    <3>3. QED
      BY <3>1, <3>2, SeqDef
  <2>4. stolen' \in Seq(Continuations)
    <3>1. stolen' = stolen \o loot
      BY <1>13 DEF Promote
    <3> HIDE DEF loot
    <3>2. QED
      BY <3>1, <2>3
  <2>5. takes' \in [Continuations -> Nat]
    BY <1>13 DEF Promote
  <2>6. QED
    BY <1>13, <2>1, <2>4, <2>5 DEF Promote
<1>14. CASE Suspend
  BY <1>14 DEF Suspend
<1>15. CASE ClearFrame
  BY <1>15 DEF ClearFrame
<1>16. CASE LockForSetup
  BY <1>16 DEF LockForSetup
<1>17. CASE SetupForExecution
  BY <1>17 DEF SetupForExecution
<1>18. CASE DisallowStealing
  BY <1>18 DEF DisallowStealing
<1>19. CASE RestoreStealing
  BY <1>19 DEF RestoreStealing
<1>20. ASSUME NEW t \in Thieves, TryLock(t) PROVE TypeOK'
  BY <1>20 DEF TryLock
<1>21. ASSUME NEW t \in Thieves, PassOver(t) PROVE TypeOK'
  BY <1>21 DEF PassOver
<1>22. ASSUME NEW t \in Thieves, AnnounceSteal(t) PROVE TypeOK'
  BY <1>22 DEF AnnounceSteal, LockOK, ExceptionOK, Announced
<1>23. ASSUME NEW t \in Thieves, LookAtTail(t) PROVE TypeOK'
  BY <1>23 DEF LookAtTail
<1>24. ASSUME NEW t \in Thieves, LookAtProtected(t) PROVE TypeOK'
  BY <1>24 DEF LookAtProtected
<1>25. ASSUME NEW t \in Thieves, Retreat(t) PROVE TypeOK'
  BY <1>25 DEF Retreat, LockOK, ExceptionOK, Announced
<1>26. ASSUME NEW t \in Thieves, ReplayMismatch(t) PROVE TypeOK'
  BY <1>26 DEF ReplayMismatch, LockOK, ExceptionOK, StealOK, Announced
<1>27. ASSUME NEW t \in Thieves, ReplayMatch(t) PROVE TypeOK'
  BY <1>27 DEF ReplayMatch
<1>28. ASSUME NEW t \in Thieves, NumaMismatch(t) PROVE TypeOK'
  BY <1>28, OneMismatch
  DEF NumaMismatch, LockOK, ExceptionOK, StealOK, Announced, OneMismatch
<1>29. ASSUME NEW t \in Thieves, NumaMatch(t) PROVE TypeOK'
  BY <1>29 DEF NumaMatch
<1>30. ASSUME NEW t \in Thieves, ClaimHead(t) PROVE TypeOK'
  <2>1. head \in Slots /\ Held(head)
    BY <1>30 DEF ClaimHead, StealOK, Committed, Announced, Held
  <2>2. ltq[head] \in Continuations
    BY <2>1 DEF ContentOK, Continuations
  <2>3. QED
    BY <1>30, <2>1, <2>2 DEF ClaimHead
<1>31. ASSUME NEW t \in Thieves, LootFrame(t) PROVE TypeOK'
  BY <1>31, TakeType DEF LootFrame
<1>32. ASSUME NEW t \in Thieves, UnlockOther(t) PROVE TypeOK'
  BY <1>32 DEF UnlockOther
<1>33. CASE UNCHANGED vars
  BY <1>33 DEF vars
<1>34. QED
  BY <1>1, <1>2, <1>3, <1>4, <1>5, <1>6, <1>7, <1>8, <1>9, <1>10, <1>11,
     <1>12, <1>13, <1>14, <1>15, <1>16, <1>17, <1>18, <1>19, <1>20, <1>21,
     <1>22, <1>23, <1>24, <1>25, <1>26, <1>27, <1>28, <1>29, <1>30, <1>31,
     <1>32, <1>33
  DEF Next, OwnerStep, OwnerReturns, ThiefStep, ThiefInside

-----------------------------------------------------------------------------
(* The initial state satisfies the invariant. *)
LEMMA InitInv == Init => IInv
<1> SUFFICES ASSUME Init PROVE IInv
  OBVIOUS
<1> USE DequeAssumption DEF Init
<1>1. TypeOK
  BY DEF TypeOK, Slots, Continuations, OwnerLocations, ThiefLocations
<1>2. Control
  BY DEF Control, LockOK, ExceptionOK, IndexOK, StealOK, Announced, Committed, settled_tail
<1>3. ContentOK
  <2>1. \A i \in Slots : ~Held(i)
    BY DEF Held, settled_tail, Slots
  <2>2. \A c \in Continuations : takes[c] = 0 /\ ~(c <= spawns)
    BY DEF Continuations
  <2>3. QED
    BY <2>1, <2>2 DEF ContentOK
<1>4. QED
  BY <1>1, <1>2, <1>3 DEF IInv

(* Every step keeps the invariant.                                         *)
LEMMA NextInv == ASSUME OneMismatch PROVE IInv /\ [Next]_vars => IInv'
  BY NextControl, NextType, NextContent DEF IInv

(* The invariant implies the properties of the runs. *)
LEMMA InvImpliesTaken == IInv => TakenExactlyOnce
<1> SUFFICES ASSUME IInv, NEW c \in 1..spawns
             PROVE  IF OnDeque(c) \/ BeingLooted(c) \/ BeingPushed(c)
                    THEN takes[c] = 0 /\ ~(OnDeque(c) /\ BeingLooted(c))
                    ELSE takes[c] = 1
  BY DEF TakenExactlyOnce
<1>1. TypeOK /\ Control /\ ContentOK
  BY DEF IInv
<1>2. c \in Continuations /\ c <= spawns
  BY <1>1, DequeAssumption DEF TypeOK, Continuations
<1>3. OnDeque(c) <=> \E i \in Slots : head <= i /\ i < settled_tail /\ ltq[i] = c
  BY <1>1, DequeAssumption DEF OnDeque, Control, IndexOK, TypeOK, settled_tail, Slots
<1>4. BeingLooted(c) =>
        \E i \in Slots : Held(i) /\ ltq[i] = c /\ i < head
  BY <1>1, DequeAssumption DEF BeingLooted, Held, Control, StealOK, TypeOK, Slots
<1>5. BeingPushed(c) => \E i \in Slots : Held(i) /\ ltq[i] = c
  BY <1>1, DequeAssumption
  DEF BeingPushed, Held, Control, IndexOK, ContentOK, TypeOK, Slots, settled_tail
<1>6. (OnDeque(c) \/ BeingLooted(c) \/ BeingPushed(c)) <=> \E i \in Slots : Held(i) /\ ltq[i] = c
  <2>1. ASSUME NEW i \in Slots, Held(i), ltq[i] = c
        PROVE  OnDeque(c) \/ BeingLooted(c) \/ BeingPushed(c)
    <3>1. opc = "push" /\ i = tail => BeingPushed(c)
      BY <2>1, <1>1 DEF BeingPushed, ContentOK
    <3>2. QED
      BY <2>1, <3>1, <1>3 DEF Held, BeingLooted
  <2>2. OnDeque(c) => \E i \in Slots : Held(i) /\ ltq[i] = c
    BY <1>3 DEF Held
  <2>3. QED
    BY <2>1, <2>2, <1>4, <1>5
<1>7. ~(OnDeque(c) /\ BeingLooted(c))
  <2> SUFFICES ASSUME OnDeque(c), BeingLooted(c) PROVE FALSE
    OBVIOUS
  <2>1. PICK i \in Slots : head <= i /\ i < settled_tail /\ ltq[i] = c
    BY <1>3
  <2>2. PICK j \in Slots : Held(j) /\ ltq[j] = c /\ j < head
    BY <1>4
  <2>3. Held(i)
    BY <2>1 DEF Held
  <2>4. i = j
    BY <2>1, <2>2, <2>3, <1>1 DEF ContentOK
  <2>5. QED
    BY <2>1, <2>2, <2>4, <1>1 DEF TypeOK, Slots
<1>8. QED
  BY <1>1, <1>2, <1>6, <1>7 DEF ContentOK

(* ... and the protocol's own promises.                                    *)
LEMMA InvImplies ==
    IInv => HeadBelowException /\ ExceptionSettles /\ OrphanDequeEmpty /\ VictimHasFrame
<1> SUFFICES ASSUME IInv
             PROVE  HeadBelowException /\ ExceptionSettles /\ OrphanDequeEmpty /\ VictimHasFrame
  OBVIOUS
<1>1. TypeOK /\ LockOK /\ ExceptionOK /\ IndexOK /\ StealOK
  BY DEF IInv, Control
<1>2. HeadBelowException
  BY <1>1 DEF TypeOK, ExceptionOK, HeadBelowException
<1>3. ExceptionSettles
  BY <1>1 DEF ExceptionOK, ExceptionSettles
<1>4. OrphanDequeEmpty
  BY <1>1 DEF IndexOK, OrphanDequeEmpty
<1>5. ASSUME NEW t \in Thieves, tpc[t] \in {"match_replay", "detach", "loot"} PROVE frame
  <2>1. CASE tpc[t] = "loot"
    BY <2>1, <1>1 DEF StealOK
  <2>2. CASE tpc[t] \in {"match_replay", "detach"}
    <3>1. head < settled_tail
      BY <2>2, <1>1 DEF StealOK, Committed, Announced
    <3>2. opc \notin {"search", "setup"}
      BY <3>1, <1>1 DEF TypeOK, IndexOK, settled_tail
    <3>3. QED
      BY <3>2, <1>1 DEF IndexOK
  <2>3. QED
    BY <1>5, <2>1, <2>2
<1>6. QED
  BY <1>2, <1>3, <1>4, <1>5 DEF VictimHasFrame

(* IInv is an invariant of the specification. *)
THEOREM Inductive == ASSUME OneMismatch PROVE Spec => []IInv
<1>1. IInv /\ [Next]_vars => IInv'
  BY NextInv
<1>2. QED
  BY <1>1, InitInv, PTL DEF Spec

(* TypeOK: H, T and E stay within the task queue, and T at most one below  *)
(* it, however thieves and the worker interleave (scheduler.c:497-660).    *)
THEOREM TypeCorrect == ASSUME OneMismatch PROVE Spec => []TypeOK
<1>1. IInv => TypeOK
  BY DEF IInv
<1>2. QED
  BY <1>1, Inductive, PTL

(* TakenExactlyOnce: the race of undo_detach with dekker_protocol gives    *)
(* every continuation to one taker, and loses none (cilk-abi.c:293,        *)
(* scheduler.c:638).                                                       *)
THEOREM NoFrameLostOrTakenTwice == ASSUME OneMismatch PROVE Spec => []TakenExactlyOnce
  BY Inductive, InvImpliesTaken, PTL

(* HeadBelowException and ExceptionSettles: H <= E always, and E is back   *)
(* at H whenever nobody holds the lock (scheduler.c:510, 560-600).         *)
THEOREM ExceptionFollowsHead ==
    ASSUME OneMismatch PROVE Spec => [](HeadBelowException /\ ExceptionSettles)
  BY Inductive, InvImplies, PTL

(* OrphanDequeEmpty: a worker that has lost its parent leaves an empty     *)
(* deque (scheduler.c:2944).                                               *)
THEOREM OrphansAreEmpty == ASSUME OneMismatch PROVE Spec => []OrphanDequeEmpty
  BY Inductive, InvImplies, PTL

(* VictimHasFrame: a thief that detaches finds the frame it splits, though *)
(* its victim clears frame_ff without the lock (local_state.c:68).         *)
THEOREM VictimsKeepTheirFrame == ASSUME OneMismatch PROVE Spec => []VictimHasFrame
  BY Inductive, InvImplies, PTL

(* DequeMatchesFrame: the two together, for the victim and for its thief.  *)
THEOREM DequeAgreesWithFrame == ASSUME OneMismatch PROVE Spec => []DequeMatchesFrame
  BY Inductive, InvImplies, PTL DEF DequeMatchesFrame

-----------------------------------------------------------------------------
(* A thief that has passed the look at protected_tail and still announces. *)
PastProtection(t) == Committed(t) /\ tpc[t] # "look_protected"

(* What was spawned under protection is not what such a thief will take,   *)
(* although stealing may be disallowed at any moment after its look: the   *)
(* frame at H was there before that moment.                                *)
GuardOK ==
    /\ guarded # {} => protected_tail = 0
    /\ guarded \subseteq 1..spawns
    /\ opc = "push" => spawns \notin guarded
    /\ \A t \in Thieves :
          /\ PastProtection(t) => ltq[head] \notin guarded
          /\ tpc[t] = "loot" => ltq[slot[t]] \notin guarded

(* A step that moves no thief past the look, nor the frames and the guard. *)
LEMMA GuardKept ==
    ASSUME GuardOK,
           UNCHANGED <<ltq, spawns, head, slot, protected_tail, guarded>>,
           \A t \in Thieves :
              /\ PastProtection(t)' => PastProtection(t)
              /\ tpc'[t] = "loot" => tpc[t] = "loot",
           opc' = "push" => opc = "push"
    PROVE  GuardOK'
  BY DEF GuardOK

(* No step makes a thief hold a frame spawned under protection. *)
LEMMA NextGuard == ASSUME OneMismatch, IInv, GuardOK, [Next]_vars PROVE GuardOK'
<1>a. Numbers /\ Control /\ ContentOK /\ TypeOK
  BY DequeAssumption DEF IInv, TypeOK, Numbers
<1> USE DequeAssumption, <1>a
    DEF Numbers, OwnerGoto, ThiefGoto, OwnerLocks, Unlock, deque, thieves, history,
        PastProtection, Committed, Announced
<1>1. CASE StoreFrame
  <2>1. /\ spawns' = spawns + 1 /\ spawns \in Nat /\ tail \in Slots /\ tail = settled_tail
        /\ opc = "work" /\ opc' = "push"
        /\ ltq' = [ltq EXCEPT ![tail] = spawns + 1]
        /\ UNCHANGED <<head, protected_tail, tpc, proceed, slot, guarded>>
    BY <1>1 DEF StoreFrame, Slots, Control, IndexOK, settled_tail, TypeOK
  <2>2. guarded \subseteq 1..spawns' /\ spawns' \notin guarded
    BY <2>1 DEF GuardOK
  <2>3. \A i \in Slots : i # tail => ltq'[i] = ltq[i]
    BY <2>1 DEF TypeOK
  <2>4. ASSUME NEW t \in Thieves, PastProtection(t) PROVE ltq'[head] \notin guarded
    <3>1. head \in Slots /\ head # tail
      BY <2>1, <2>4 DEF Control, StealOK, IndexOK, Slots
    <3>2. QED
      BY <2>3, <2>4, <3>1 DEF GuardOK
  <2>5. ASSUME NEW t \in Thieves, tpc[t] = "loot" PROVE ltq'[slot[t]] \notin guarded
    <3>1. slot[t] \in Slots /\ slot[t] # tail
      BY <2>1, <2>5 DEF Control, StealOK, IndexOK, Slots
    <3>2. QED
      BY <2>3, <2>5, <3>1 DEF GuardOK
  <2>6. QED
    BY <2>1, <2>2, <2>4, <2>5 DEF GuardOK
<1>2. CASE AdvanceTail
  <2>1. /\ opc = "push" /\ opc' = "work" /\ settled_tail = tail
        /\ tail \in Slots /\ Held(tail) /\ ltq[tail] = spawns
        /\ guarded' = (IF protected_tail = 0 THEN guarded \cup {spawns} ELSE guarded)
        /\ UNCHANGED <<ltq, head, protected_tail, tpc, proceed, slot, spawns>>
    BY <1>2
    DEF AdvanceTail, Held, ContentOK, Control, IndexOK, settled_tail, Slots, TypeOK
  <2>2. spawns \in 1..spawns
    BY <2>1 DEF ContentOK
  <2>3. ASSUME NEW t \in Thieves, PastProtection(t) PROVE ltq[head] # spawns
    <3>1. head \in Slots /\ head # tail /\ Held(head)
      BY <2>1, <2>3 DEF Control, StealOK, IndexOK, Slots, Held
    <3>2. QED
      BY <2>1, <3>1 DEF ContentOK
  <2>4. ASSUME NEW t \in Thieves, tpc[t] = "loot" PROVE ltq[slot[t]] # spawns
    <3>1. slot[t] \in Slots /\ slot[t] # tail /\ Held(slot[t])
      BY <2>1, <2>4 DEF Control, StealOK, IndexOK, Slots, Held
    <3>2. QED
      BY <2>1, <3>1 DEF ContentOK
  <2>5. QED
    BY <2>1, <2>2, <2>3, <2>4 DEF GuardOK
<1>3. CASE RetractTail
  BY <1>3, GuardKept DEF RetractTail
<1>4. CASE WinUndoDetach
  BY <1>4, GuardKept DEF WinUndoDetach
<1>5. CASE SuspectSteal
  BY <1>5, GuardKept DEF SuspectSteal
<1>6. CASE ParentAttached
  BY <1>6, GuardKept DEF ParentAttached
<1>7. CASE ParentStolen
  BY <1>7, GuardKept DEF ParentStolen
<1>8. CASE PopTail
  BY <1>8, GuardKept DEF PopTail
<1>9. CASE PopEmpty
  BY <1>9, GuardKept DEF PopEmpty
<1>10. CASE LockForCheck
  BY <1>10, GuardKept DEF LockForCheck
<1>11. CASE LockForPop
  BY <1>11, GuardKept DEF LockForPop
<1>12. CASE LockForPromote
  BY <1>12, GuardKept DEF LockForPromote
<1>13. CASE Promote
  <2>1. /\ opc = "promote" /\ opc' = "work"
        /\ UNCHANGED <<ltq, protected_tail, tpc, proceed, slot, spawns, guarded>>
    BY <1>13 DEF Promote
  <2>2. \A t \in Thieves : tpc[t] = "out"
    BY <2>1 DEF Control, LockOK
  <2>3. QED
    BY <2>1, <2>2 DEF GuardOK
<1>14. CASE Suspend
  BY <1>14, GuardKept DEF Suspend
<1>15. CASE ClearFrame
  BY <1>15, GuardKept DEF ClearFrame
<1>16. CASE LockForSetup
  BY <1>16, GuardKept DEF LockForSetup
<1>17. CASE SetupForExecution
  <2>1. /\ opc = "setup" /\ opc' = "work"
        /\ UNCHANGED <<ltq, protected_tail, tpc, proceed, slot, spawns, guarded>>
    BY <1>17 DEF SetupForExecution
  <2>2. \A t \in Thieves : tpc[t] = "out"
    BY <2>1 DEF Control, LockOK
  <2>3. QED
    BY <2>1, <2>2 DEF GuardOK
<1>18. CASE DisallowStealing
  BY <1>18 DEF DisallowStealing, GuardOK
<1>19. CASE RestoreStealing
  BY <1>19 DEF RestoreStealing, GuardOK
<1>20. ASSUME NEW t \in Thieves, TryLock(t) PROVE GuardOK'
  BY <1>20, GuardKept DEF TryLock
<1>21. ASSUME NEW t \in Thieves, PassOver(t) PROVE GuardOK'
  BY <1>21, GuardKept DEF PassOver
<1>22. ASSUME NEW t \in Thieves, AnnounceSteal(t) PROVE GuardOK'
  BY <1>22, GuardKept DEF AnnounceSteal
<1>23. ASSUME NEW t \in Thieves, LookAtTail(t) PROVE GuardOK'
  BY <1>23, GuardKept DEF LookAtTail
<1>24. ASSUME NEW t \in Thieves, LookAtProtected(t) PROVE GuardOK'
  <2>1. CASE head < protected_tail
    <3>1. guarded = {}
      BY <2>1 DEF GuardOK
    <3>2. QED
      BY <1>24, <3>1 DEF LookAtProtected, GuardOK
  <2>2. CASE ~(head < protected_tail)
    BY <1>24, <2>2, GuardKept DEF LookAtProtected
  <2>3. QED
    BY <2>1, <2>2
<1>25. ASSUME NEW t \in Thieves, Retreat(t) PROVE GuardOK'
  BY <1>25, GuardKept DEF Retreat
<1>26. ASSUME NEW t \in Thieves, ReplayMismatch(t) PROVE GuardOK'
  BY <1>26, GuardKept DEF ReplayMismatch
<1>27. ASSUME NEW t \in Thieves, ReplayMatch(t) PROVE GuardOK'
  BY <1>27, GuardKept DEF ReplayMatch
<1>28. ASSUME NEW t \in Thieves, NumaMismatch(t) PROVE GuardOK'
  BY <1>28, GuardKept DEF NumaMismatch
<1>29. ASSUME NEW t \in Thieves, NumaMatch(t) PROVE GuardOK'
  BY <1>29, GuardKept DEF NumaMatch
<1>30. ASSUME NEW t \in Thieves, ClaimHead(t) PROVE GuardOK'
  <2>1. /\ PastProtection(t) /\ lock = t /\ slot' = [slot EXCEPT ![t] = head]
        /\ tpc' = [tpc EXCEPT ![t] = "loot"]
        /\ UNCHANGED <<ltq, protected_tail, proceed, spawns, guarded, opc>>
    BY <1>30 DEF ClaimHead, Control, LockOK
  <2>2. \A u \in Thieves : u # t => tpc[u] = "out"
    BY <2>1 DEF Control, LockOK
  <2>3. QED
    BY <2>1, <2>2 DEF GuardOK
<1>31. ASSUME NEW t \in Thieves, LootFrame(t) PROVE GuardOK'
  BY <1>31, GuardKept DEF LootFrame
<1>32. ASSUME NEW t \in Thieves, UnlockOther(t) PROVE GuardOK'
  BY <1>32, GuardKept DEF UnlockOther
<1>33. CASE UNCHANGED vars
  BY <1>33, GuardKept DEF vars
<1>34. QED
  BY <1>1, <1>2, <1>3, <1>4, <1>5, <1>6, <1>7, <1>8, <1>9, <1>10, <1>11,
     <1>12, <1>13, <1>14, <1>15, <1>16, <1>17, <1>18, <1>19, <1>20, <1>21,
     <1>22, <1>23, <1>24, <1>25, <1>26, <1>27, <1>28, <1>29, <1>30, <1>31,
     <1>32, <1>33
  DEF Next, OwnerStep, OwnerReturns, ThiefStep, ThiefInside

(* GuardedNotStolen: no thief takes what a worker spawns after it has      *)
(* disallowed stealing, whenever it did so (scheduler.c:3376-3399).        *)
THEOREM GuardedStaysHome == ASSUME OneMismatch PROVE Spec => []GuardedNotStolen
<1>1. Init => GuardOK
  BY DEF Init, GuardOK, PastProtection, Committed, Announced
<1>2. IInv /\ GuardOK /\ [Next]_vars => GuardOK'
  BY NextGuard
<1>3. GuardOK => GuardedNotStolen
  BY DEF GuardOK, GuardedNotStolen
<1>4. QED
  BY <1>1, <1>2, <1>3, Inductive, PTL DEF Spec

-----------------------------------------------------------------------------
(* The slots from h up to t of a queue as a sequence, and what the steps   *)
(* of the protocol do to it: what Append, Front and SubSeq do.             *)
Between(q, h, t) == [i \in 1..(t - h) |-> q[h + i - 1]]

(* It is a sequence of continuations as long as the distance. *)
LEMMA BetweenIsSeq ==
    ASSUME NEW q, NEW h \in Nat, NEW t \in Nat, h <= t,
           \A i \in h..(t - 1) : q[i] \in Continuations
    PROVE  /\ Between(q, h, t) \in Seq(Continuations)
           /\ Len(Between(q, h, t)) = t - h
           /\ \A i \in 1..(t - h) : Between(q, h, t)[i] = q[h + i - 1]
<1>1. t - h \in Nat
  OBVIOUS
<1>2. Between(q, h, t) \in [1..(t - h) -> Continuations]
  BY DEF Between
<1>3. Between(q, h, t) \in Seq(Continuations)
  BY <1>1, <1>2, SeqDef
<1>4. DOMAIN Between(q, h, t) = 1..(t - h)
  BY DEF Between
<1>5. Len(Between(q, h, t)) = t - h
  BY <1>1, <1>3, <1>4, LenProperties
<1>6. QED
  BY <1>3, <1>5 DEF Between

(* Only the slots between the two matter. *)
LEMMA BetweenSame ==
    ASSUME NEW q, NEW r, NEW h \in Nat, NEW t \in Nat,
           \A i \in h..(t - 1) : q[i] = r[i]
    PROVE  Between(q, h, t) = Between(r, h, t)
  BY DEF Between

(* The tail moves up: the newest is appended. *)
LEMMA BetweenPush ==
    ASSUME NEW q, NEW h \in Nat, NEW t \in Nat, h <= t,
           \A i \in h..t : q[i] \in Continuations
    PROVE  Between(q, h, t + 1) = Append(Between(q, h, t), q[t])
<1> DEFINE a == Between(q, h, t)
           b == Between(q, h, t + 1)
<1>1. /\ a \in Seq(Continuations) /\ Len(a) = t - h
      /\ \A i \in 1..(t - h) : a[i] = q[h + i - 1]
  BY BetweenIsSeq
<1>2. /\ b \in Seq(Continuations) /\ Len(b) = t + 1 - h
      /\ \A i \in 1..(t + 1 - h) : b[i] = q[h + i - 1]
  <2>1. PICK k \in Nat : k = t + 1
    OBVIOUS
  <2>2. h <= k /\ \A i \in h..(k - 1) : q[i] \in Continuations
    BY <2>1
  <2>3. /\ Between(q, h, k) \in Seq(Continuations) /\ Len(Between(q, h, k)) = k - h
        /\ \A i \in 1..(k - h) : Between(q, h, k)[i] = q[h + i - 1]
    BY <2>2, BetweenIsSeq
  <2>4. QED
    BY <2>1, <2>3
<1>3. q[t] \in Continuations
  OBVIOUS
<1> HIDE DEF a, b
<1>4. /\ Append(a, q[t]) \in Seq(Continuations)
      /\ Len(Append(a, q[t])) = t + 1 - h
      /\ \A i \in 1..(t - h) : Append(a, q[t])[i] = a[i]
      /\ Append(a, q[t])[t - h + 1] = q[t]
  BY <1>1, <1>3, AppendProperties
<1>5. ASSUME NEW i \in 1..Len(b) PROVE b[i] = Append(a, q[t])[i]
  <2>1. CASE i = t - h + 1
    BY <2>1, <1>2, <1>4
  <2>2. CASE i # t - h + 1
    BY <2>2, <1>1, <1>2, <1>4
  <2>3. QED
    BY <2>1, <2>2
<1>6. b = Append(a, q[t])
  BY <1>2, <1>4, <1>5, SeqEqual
<1>7. QED
  BY <1>6 DEF a, b

(* A part of it is a subsequence.  Stated as a predicate: the equation     *)
(* itself, of Between to Between, sends the provers in a circle.           *)
IsPart(q, h, k, m, t) == Between(q, k, m) = SubSeq(Between(q, h, t), k - h + 1, m - h)

LEMMA BetweenPart ==
    ASSUME NEW q, NEW h \in Nat, NEW k \in Nat, NEW m \in Nat, NEW t \in Nat,
           h <= k, k <= m, m <= t,
           \A i \in h..(t - 1) : q[i] \in Continuations
    PROVE  IsPart(q, h, k, m, t)
<1> DEFINE a == Between(q, h, t)
           b == Between(q, k, m)
<1>1. /\ a \in Seq(Continuations) /\ Len(a) = t - h
      /\ \A i \in 1..(t - h) : a[i] = q[h + i - 1]
  BY BetweenIsSeq
<1>2. /\ b \in Seq(Continuations) /\ Len(b) = m - k
      /\ \A i \in 1..(m - k) : b[i] = q[k + i - 1]
  <2>1. \A i \in k..(m - 1) : q[i] \in Continuations
    OBVIOUS
  <2>2. QED
    BY <2>1, BetweenIsSeq
<1> HIDE DEF a, b
<1> DEFINE c == SubSeq(a, k - h + 1, m - h)
<1>3. /\ c \in Seq(Continuations)
      /\ Len(c) = m - k
      /\ \A i \in 1..(m - k) : c[i] = a[k - h + 1 + i - 1]
  <2>1. \A i \in (k - h + 1)..(m - h) : a[i] \in Continuations
    <3>1. \A i \in (k - h + 1)..(m - h) : i \in 1..Len(a)
      BY <1>1
    <3>2. QED
      BY <3>1, <1>1, ElementOfSeq
  <2>2. /\ k - h + 1 \in Int /\ m - h \in Int
        /\ (m - h) - (k - h + 1) + 1 = m - k
        /\ (IF k - h + 1 <= m - h THEN (m - h) - (k - h + 1) + 1 ELSE 0) = m - k
    OBVIOUS
  <2>3. /\ c \in Seq(Continuations)
        /\ Len(c) = (IF k - h + 1 <= m - h THEN (m - h) - (k - h + 1) + 1 ELSE 0)
        /\ \A i \in 1..((m - h) - (k - h + 1) + 1) : c[i] = a[k - h + 1 + i - 1]
    BY <2>1, <2>2, SubSeqProperties
  <2>4. QED
    BY <2>2, <2>3
<1> HIDE DEF c
<1>4. ASSUME NEW i \in 1..Len(b) PROVE b[i] = c[i]
  <2>1. i \in 1..(m - k) /\ k - h + i \in 1..(t - h) /\ k - h + 1 + i - 1 = k - h + i
    BY <1>2
  <2>2. b[i] = q[k + i - 1] /\ c[i] = a[k - h + i] /\ a[k - h + i] = q[h + (k - h + i) - 1]
    BY <2>1, <1>1, <1>2, <1>3
  <2>3. h + (k - h + i) - 1 = k + i - 1
    BY <2>1
  <2>4. QED
    BY <2>2, <2>3
<1>5. b = c
  BY <1>2, <1>3, <1>4, SeqEqual
<1>6. QED
  BY <1>5 DEF a, b, c, IsPart

-----------------------------------------------------------------------------
(* Every step of the protocol is one operation of the abstract deque, or   *)
(* none.  The worker takes its continuation at the step that decides the   *)
(* race, a thief at the store to H.                                        *)
LEMMA StepRefines ==
    ASSUME OneMismatch, IInv, [Next]_vars
    PROVE  [Abstract!Next]_<<available, stolen>>
<1>a. Numbers /\ Control /\ ContentOK /\ TypeOK
  BY DequeAssumption DEF IInv, TypeOK, Numbers
<1>b. /\ head \in Nat /\ settled_tail \in Nat /\ head <= settled_tail /\ settled_tail <= Size
      /\ \A i \in head..(settled_tail - 1) : ltq[i] \in Continuations
  BY <1>a, DequeAssumption
  DEF Numbers, Control, IndexOK, ContentOK, Held, settled_tail, Slots, Continuations, TypeOK
<1>c. /\ available = Between(ltq, head, settled_tail)
      /\ available' = Between(ltq', head', settled_tail')
  BY DEF available, Between
<1>d. /\ available \in Seq(Continuations)
      /\ Len(available) = settled_tail - head
      /\ \A i \in 1..(settled_tail - head) : available[i] = ltq[head + i - 1]
  BY <1>b, <1>c, BetweenIsSeq
<1>e. ASSUME UNCHANGED <<ltq, head, settled_tail, stolen>>
      PROVE  [Abstract!Next]_<<available, stolen>>
  BY <1>e, <1>c
<1>f. ASSUME UNCHANGED <<ltq, head, stolen>>, head < settled_tail,
             settled_tail' = settled_tail - 1
      PROVE  [Abstract!Next]_<<available, stolen>>
  <2>1. IsPart(ltq, head, head, settled_tail - 1, settled_tail)
    <3>1. settled_tail - 1 \in Nat /\ head <= settled_tail - 1
      BY <1>b, <1>f
    <3>2. QED
      BY <3>1, <1>b, BetweenPart
  <2>2. available' = Abstract!Front(available)
    <3>1. head - head + 1 = 1 /\ settled_tail - 1 - head = Len(available) - 1
      BY <1>b, <1>d
    <3>2. Between(ltq, head, settled_tail - 1) = SubSeq(available, 1, Len(available) - 1)
      BY <2>1, <3>1, <1>c DEF IsPart
    <3>3. QED
      BY <3>2, <1>c, <1>f DEF Abstract!Front
  <2>3. available # <<>>
    BY <1>b, <1>d, <1>f
  <2>4. QED
    BY <2>2, <2>3, <1>f DEF Abstract!Next, Abstract!TakeNewest
<1>g. ASSUME NEW n \in 1..Len(available),
             UNCHANGED <<ltq, settled_tail>>, head' = head + n,
             stolen' = stolen \o Between(ltq, head, head + n)
      PROVE  [Abstract!Next]_<<available, stolen>>
  <2>1. /\ n \in Nat /\ head + n \in Nat /\ head <= head + n /\ head + n <= settled_tail
        /\ (head + n) - head = n /\ head - head + 1 = 1
        /\ (head + n) - head + 1 = n + 1 /\ settled_tail - head = Len(available)
    BY <1>b, <1>d
  <2>2. /\ IsPart(ltq, head, head, head + n, settled_tail)
        /\ IsPart(ltq, head, head + n, settled_tail, settled_tail)
    BY <2>1, <1>b, BetweenPart
  <2>3. /\ available' = SubSeq(available, n + 1, Len(available))
        /\ Between(ltq, head, head + n) = SubSeq(available, 1, n)
    <3>1. /\ Between(ltq, head, head + n) = SubSeq(available, head - head + 1, (head + n) - head)
          /\ Between(ltq, head + n, settled_tail)
               = SubSeq(available, (head + n) - head + 1, settled_tail - head)
      BY <2>2, <1>c DEF IsPart
    <3>2. QED
      BY <3>1, <2>1, <1>c, <1>g
  <2>4. QED
    BY <2>3, <1>g DEF Abstract!Next, Abstract!StealOldest
<1> USE <1>a DEF OwnerGoto, ThiefGoto, OwnerLocks, Unlock, deque, thieves, history
<1>1. CASE StoreFrame
  <2>1. /\ settled_tail = tail /\ tail \in Slots
        /\ ltq' = [ltq EXCEPT ![tail] = spawns + 1]
        /\ UNCHANGED <<head, settled_tail, stolen>>
    BY <1>1, <1>b, DequeAssumption DEF StoreFrame, settled_tail, Slots
  <2>2. \A i \in head..(settled_tail - 1) : ltq'[i] = ltq[i]
    BY <2>1, <1>b DEF TypeOK, Slots
  <2>3. Between(ltq', head, settled_tail) = Between(ltq, head, settled_tail)
    BY <2>2, <1>b, BetweenSame
  <2>4. QED
    BY <2>1, <2>3, <1>c
<1>2. CASE AdvanceTail
  <2>1. /\ opc = "push" /\ settled_tail = tail /\ settled_tail' = settled_tail + 1
        /\ tail \in Slots /\ Held(tail)
        /\ UNCHANGED <<ltq, head, stolen>>
    BY <1>2, <1>b, DequeAssumption
    DEF AdvanceTail, settled_tail, Slots, Control, IndexOK, Held
  <2>2. ltq[tail] \in Continuations
    BY <2>1, DequeAssumption DEF ContentOK, TypeOK, Continuations
  <2>3. \A i \in head..settled_tail : ltq[i] \in Continuations
    BY <2>1, <2>2, <1>b
  <2>4. available' = Append(available, ltq[tail])
    BY <2>1, <2>3, <1>b, <1>c, BetweenPush
  <2>5. QED
    BY <2>1, <2>2, <2>4 DEF Abstract!Next, Abstract!Push
<1>3. CASE RetractTail
  BY <1>3, <1>e DEF RetractTail, settled_tail, Numbers
<1>4. CASE WinUndoDetach
  <2>1. head < settled_tail
    BY <1>4
    DEF WinUndoDetach, settled_tail, Control, LockOK, IndexOK, StealOK, ExceptionOK,
        Announced, Numbers
  <2>2. QED
    BY <1>4, <2>1, <1>f DEF WinUndoDetach, settled_tail, Numbers
<1>5. CASE SuspectSteal
  BY <1>5, <1>e DEF SuspectSteal, settled_tail
<1>6. CASE ParentAttached
  BY <1>6, <1>f DEF ParentAttached, stolen_p, settled_tail, Numbers
<1>7. CASE ParentStolen
  BY <1>7, <1>e DEF ParentStolen, settled_tail
<1>8. CASE PopTail
  BY <1>8, <1>f DEF PopTail, settled_tail
<1>9. CASE PopEmpty
  BY <1>9, <1>e DEF PopEmpty, settled_tail
<1>10. CASE LockForCheck
  BY <1>10, <1>e DEF LockForCheck, settled_tail
<1>11. CASE LockForPop
  BY <1>11, <1>e DEF LockForPop, settled_tail
<1>12. CASE LockForPromote
  BY <1>12, <1>e DEF LockForPromote, settled_tail
<1>13. CASE Promote
  <2> DEFINE end == IF tail < protected_tail THEN tail ELSE protected_tail
             new == IF head < end THEN end ELSE head
  <2>1. /\ settled_tail = tail /\ head' = new /\ UNCHANGED <<ltq, settled_tail>>
        /\ stolen' = stolen \o Between(ltq, head, new)
    BY <1>13 DEF Promote, settled_tail, Between
  <2>2. new \in Nat /\ head <= new /\ new <= settled_tail
    BY <2>1, <1>b DEF Numbers
  <2> HIDE DEF new
  <2>3. CASE new = head
    <3>1. Between(ltq, head, new) = <<>>
      <4>1. Between(ltq, head, head) \in Seq(Continuations) /\ Len(Between(ltq, head, head)) = 0
        BY <1>b, BetweenIsSeq
      <4>2. QED
        BY <4>1, <2>3, EmptySeq
    <3>2. stolen' = stolen
      BY <2>1, <3>1, ConcatEmptySeq DEF TypeOK
    <3>3. QED
      BY <2>1, <2>3, <3>2, <1>e
  <2>4. CASE new # head
    <3>1. new - head \in 1..Len(available) /\ new = head + (new - head)
      BY <2>2, <2>4, <1>b, <1>d
    <3>2. QED
      BY <2>1, <3>1, <1>g
  <2>5. QED
    BY <2>3, <2>4
<1>14. CASE Suspend
  BY <1>14, <1>e DEF Suspend, settled_tail
<1>15. CASE ClearFrame
  BY <1>15, <1>e DEF ClearFrame, settled_tail
<1>16. CASE LockForSetup
  BY <1>16, <1>e DEF LockForSetup, settled_tail
<1>17. CASE SetupForExecution
  <2>1. /\ settled_tail = head /\ head' = 0 /\ settled_tail' = 0
        /\ UNCHANGED stolen
    BY <1>17 DEF SetupForExecution, settled_tail, Control, IndexOK
  <2>2. available = <<>> /\ available' = <<>>
    BY <2>1, <1>b, <1>c DEF Between
  <2>3. QED
    BY <2>1, <2>2
<1>18. CASE DisallowStealing
  BY <1>18, <1>e DEF DisallowStealing, settled_tail
<1>19. CASE RestoreStealing
  BY <1>19, <1>e DEF RestoreStealing, settled_tail
<1>20. ASSUME NEW t \in Thieves, TryLock(t) PROVE [Abstract!Next]_<<available, stolen>>
  BY <1>20, <1>e DEF TryLock, settled_tail
<1>21. ASSUME NEW t \in Thieves, PassOver(t) PROVE [Abstract!Next]_<<available, stolen>>
  BY <1>21, <1>e DEF PassOver, settled_tail
<1>22. ASSUME NEW t \in Thieves, AnnounceSteal(t) PROVE [Abstract!Next]_<<available, stolen>>
  BY <1>22, <1>e DEF AnnounceSteal, settled_tail
<1>23. ASSUME NEW t \in Thieves, LookAtTail(t) PROVE [Abstract!Next]_<<available, stolen>>
  BY <1>23, <1>e DEF LookAtTail, settled_tail
<1>24. ASSUME NEW t \in Thieves, LookAtProtected(t) PROVE [Abstract!Next]_<<available, stolen>>
  BY <1>24, <1>e DEF LookAtProtected, settled_tail
<1>25. ASSUME NEW t \in Thieves, Retreat(t) PROVE [Abstract!Next]_<<available, stolen>>
  BY <1>25, <1>e DEF Retreat, settled_tail
<1>26. ASSUME NEW t \in Thieves, ReplayMismatch(t) PROVE [Abstract!Next]_<<available, stolen>>
  BY <1>26, <1>e DEF ReplayMismatch, settled_tail
<1>27. ASSUME NEW t \in Thieves, ReplayMatch(t) PROVE [Abstract!Next]_<<available, stolen>>
  BY <1>27, <1>e DEF ReplayMatch, settled_tail
<1>28. ASSUME NEW t \in Thieves, NumaMismatch(t) PROVE [Abstract!Next]_<<available, stolen>>
  BY <1>28, <1>e DEF NumaMismatch, settled_tail
<1>29. ASSUME NEW t \in Thieves, NumaMatch(t) PROVE [Abstract!Next]_<<available, stolen>>
  BY <1>29, <1>e DEF NumaMatch, settled_tail
<1>30. ASSUME NEW t \in Thieves, ClaimHead(t) PROVE [Abstract!Next]_<<available, stolen>>
  <2>1. head < settled_tail
    BY <1>30 DEF ClaimHead, Control, StealOK, Committed, Announced
  <2>2. 1 \in 1..Len(available) /\ head + 1 - 1 = head /\ ltq[head] \in Continuations
    BY <2>1, <1>b, <1>d
  <2>3. Between(ltq, head, head + 1) = <<ltq[head]>>
    BY <1>b DEF Between
  <2>4. stolen' = stolen \o <<ltq[head]>>
    BY <1>30, <2>2, AppendIsConcat DEF ClaimHead, TypeOK
  <2>5. head' = head + 1 /\ UNCHANGED <<ltq, settled_tail>>
    BY <1>30 DEF ClaimHead, settled_tail
  <2>6. QED
    BY <2>2, <2>3, <2>4, <2>5, <1>g
<1>31. ASSUME NEW t \in Thieves, LootFrame(t) PROVE [Abstract!Next]_<<available, stolen>>
  BY <1>31, <1>e DEF LootFrame, settled_tail
<1>32. ASSUME NEW t \in Thieves, UnlockOther(t) PROVE [Abstract!Next]_<<available, stolen>>
  BY <1>32, <1>e DEF UnlockOther, settled_tail
<1>33. CASE UNCHANGED vars
  BY <1>33, <1>e DEF vars, settled_tail
<1>34. QED
  BY <1>1, <1>2, <1>3, <1>4, <1>5, <1>6, <1>7, <1>8, <1>9, <1>10, <1>11,
     <1>12, <1>13, <1>14, <1>15, <1>16, <1>17, <1>18, <1>19, <1>20, <1>21,
     <1>22, <1>23, <1>24, <1>25, <1>26, <1>27, <1>28, <1>29, <1>30, <1>31,
     <1>32, <1>33
  DEF Next, OwnerStep, OwnerReturns, ThiefStep, ThiefInside

(* ImplementsStealDeque: with H, T and E read and written one at a time,   *)
(* and no lock on the worker's fast path, the worker and its thieves see a *)
(* deque whose operations are atomic (scheduler.c:638, cilk-abi.c:293).    *)
THEOREM DequeIsAtomic == ASSUME OneMismatch PROVE Spec => ImplementsStealDeque
<1>1. Init => Abstract!Init
  BY DEF Init, Abstract!Init, available, settled_tail
<1>2. IInv /\ [Next]_vars => [Abstract!Next]_<<available, stolen>>
  BY StepRefines
<1>3. QED
  BY <1>1, <1>2, Inductive, PTL DEF Spec, ImplementsStealDeque, Abstract!Spec
=============================================================================

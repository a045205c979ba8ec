---------------------------- MODULE Parts_proofs ----------------------------
(***************************************************************************)
(* Proofs about parts that share no state with any other, for any number   *)
(* of workers, threads and fibers, and for any sizes and limits.           *)
(*                                                                         *)
(* WorkerLock: who is in the lock, and who overtakes whom.                 *)
(* Lifetime: the table of the user workers.                                *)
(* FiberPool: the accounts of the pools of fibers.                         *)
(* FrameMalloc: the accounts of the allocator of frames.                   *)
(* FrameStack: where the arrays of a stolen function are.                  *)
(***************************************************************************)
EXTENDS WorkerLock, Lifetime, FiberPool, FrameMalloc, FrameStack,
        FiniteSetTheorems, SequenceTheorems, WellFoundedInduction, TLAPS


-----------------------------------------------------------------------------
(* WorkerLock *)

(* At most one participant has the word of each mutex, and the word is set *)
(* exactly when one has.                                                   *)
WordInv ==
    /\ held["lock"] <=> (WHolds \/ \E t \in Thieves : THolds(t))
    /\ held["steal_lock"] <=> \E t \in Thieves : TDisturbs(t)
    /\ \A t, u \in Thieves : t # u => ~(TDisturbs(t) /\ TDisturbs(u))

(* What the owner field holds while its mutex is free, and around the two  *)
(* stores to it.                                                           *)
OwnerInv ==
    /\ ~held["lock"] => owner["lock"] = NoOwner
    /\ wpc \in {"own", "release"} => owner["lock"] = NoOwner
    /\ wpc = "critical" => owner["lock"] = W
    /\ ~held["steal_lock"] => owner["steal_lock"] = NoOwner
    /\ \A t \in Thieves :
         /\ tpc[t] \in {"own", "release"} => owner["lock"] = NoOwner
         /\ THolds(t) /\ tpc[t] \notin {"own", "release"} => owner["lock"] = t
         /\ tpc[t] \in {"disturbing", "undisturb"} => owner["steal_lock"] = NoOwner
         /\ tpc[t] \in {"look", "try", "own", "disown"} => owner["steal_lock"] = t

(* The local variable status follows the control point. *)
StatusInv ==
    \A t \in Thieves :
      /\ tpc[t] \in {"disturbing", "look", "try", "own"} => ~status[t]
      /\ tpc[t] \in {"critical", "release"} => status[t]

(* The flag is up from the announcement to the withdrawal, and once a      *)
(* thief has overtaken the spinning worker no other is past the flag.      *)
FlagInv ==
    /\ do_not_steal <=> wpc # "out"
    /\ overtakes <= 1
    /\ wpc = "spin" /\ overtakes > 0 => \A t \in Thieves : tpc[t] # "try"

LockInv == /\ TypeOK /\ MutualExclusion /\ WordInv
        /\ OwnerInv /\ StatusInv /\ FlagInv

-----------------------------------------------------------------------------
(* At first the lock is free and nobody waits.                             *)
LEMMA LockInitial == Init => LockInv
<1> SUFFICES ASSUME Init PROVE LockInv
  OBVIOUS
<1> USE WorkersAssumption DEF Init, Mutexes, WHolds, THolds, TDisturbs
<1>1. TypeOK
  BY DEF TypeOK, WLocations, TLocations
<1>2. MutualExclusion
  BY DEF MutualExclusion
<1>3. WordInv
  <2>1. held["lock"] = FALSE /\ held["steal_lock"] = FALSE
    BY Zenon
  <2> QED
    BY <2>1 DEF WordInv
<1>4. OwnerInv /\ StatusInv /\ FlagInv
  BY DEF OwnerInv, StatusInv, FlagInv
<1> QED
  BY <1>1, <1>2, <1>3, <1>4 DEF LockInv

(* The worker's own steps. *)
LEMMA LockWorkerStep == LockInv /\ WorkerStep => LockInv'
<1> SUFFICES ASSUME LockInv, WorkerStep PROVE LockInv'
  OBVIOUS
<1> USE WorkersAssumption
    DEF LockInv, TypeOK, MutualExclusion, WordInv, OwnerInv, StatusInv, FlagInv,
        Mutexes, WLocations, TLocations, WHolds, THolds, TDisturbs
<1>1. CASE Announce
  BY <1>1 DEF Announce
<1>2. CASE WAcquire
  BY <1>2 DEF WAcquire, TryAcquire
<1>3. CASE WOwns
  BY <1>3 DEF WOwns, SetOwner
<1>4. CASE WDisowns
  BY <1>4 DEF WDisowns, ClearOwner
<1>5. CASE WRelease
  BY <1>5 DEF WRelease, Release
<1>6. CASE Withdraw
  BY <1>6 DEF Withdraw
<1> QED
  BY <1>1, <1>2, <1>3, <1>4, <1>5, <1>6 DEF WorkerStep, WInCall

(* A thief's steps. *)
LEMMA LockThiefStep ==
  ASSUME NEW t \in Thieves, LockInv, ThiefStep(t)
  PROVE  LockInv'
<1> USE WorkersAssumption
    DEF LockInv, TypeOK, MutualExclusion, WordInv, OwnerInv, StatusInv, FlagInv,
        Mutexes, WLocations, TLocations, WHolds, THolds, TDisturbs, Goto
<1>1. CASE Disturb(t)
  BY <1>1 DEF Disturb, TryAcquire
<1>2. CASE Disturbs(t)
  BY <1>2 DEF Disturbs, SetOwner
<1>3. CASE LeaveAlone(t)
  BY <1>3 DEF LeaveAlone
<1>4. CASE SeesNoOwner(t)
  BY <1>4 DEF SeesNoOwner
<1>5. CASE TryLock(t)
  BY <1>5 DEF TryLock, TryAcquire
<1>6. CASE TryLockFails(t)
  BY <1>6 DEF TryLockFails
<1>7. CASE TOwns(t)
  BY <1>7 DEF TOwns, SetOwner
<1>8. CASE StopDisturbing(t)
  BY <1>8 DEF StopDisturbing, ClearOwner
<1>9. CASE Undisturb(t)
  BY <1>9 DEF Undisturb, Release
<1>10. CASE TDisowns(t)
  BY <1>10 DEF TDisowns, ClearOwner
<1>11. CASE TRelease(t)
  BY <1>11 DEF TRelease, Release
<1> QED
  BY <1>1, <1>2, <1>3, <1>4, <1>5, <1>6, <1>7, <1>8, <1>9, <1>10, <1>11
  DEF ThiefStep, ThiefInCall

(* The invariant holds of every state the workers reach.                   *)
THEOREM LockInductive == Spec => []LockInv
<1>1. Init => LockInv
  BY LockInitial
<1>2. LockInv /\ [Next]_vars => LockInv'
  <2> SUFFICES ASSUME LockInv, [Next]_vars PROVE LockInv'
    OBVIOUS
  <2>1. CASE WorkerStep
    BY <2>1, LockWorkerStep
  <2>2. CASE \E t \in Thieves : ThiefStep(t)
    BY <2>2, LockThiefStep
  <2>3. CASE UNCHANGED vars
    BY <2>3
    DEF vars, LockInv, TypeOK, MutualExclusion, WordInv, OwnerInv, StatusInv, FlagInv,
        WHolds, THolds, TDisturbs
  <2> QED
    BY <2>1, <2>2, <2>3 DEF Next
<1> QED
  BY <1>1, <1>2, PTL DEF Spec

-----------------------------------------------------------------------------
(* Type correctness of the lock's state (worker_mutex.c, scheduler.c:285). *)
THEOREM LockTypeCorrect == Spec => []TypeOK
  BY LockInductive, PTL DEF LockInv

(* Mutual exclusion of W and its thieves (scheduler.c:285-347). *)
THEOREM Exclusion == Spec => []MutualExclusion
  BY LockInductive, PTL DEF LockInv

(* No CILK_ASSERT of the mutex and of worker_lock/unlock can fail          *)
(* (worker_mutex.c:103, 111, 121; scheduler.c:288, 300).                   *)
THEOREM AssertionsHold == Spec => []MutexAssertions
<1>1. LockInv => MutexAssertions
  BY DEF LockInv, OwnerInv, FlagInv, MutexAssertions, WHolds, THolds, TDisturbs,
         WordInv, StatusInv
<1> QED
  BY <1>1, LockInductive, PTL

(* LockIsExclusive: the two together (scheduler.c:285-347).                *)
THEOREM LockExcludes == Spec => []LockIsExclusive
  BY Exclusion, AssertionsHold, PTL DEF LockIsExclusive

(* The comment at scheduler.c:320: at most one thief overtakes the worker. *)
THEOREM BoundedOvertaking == Spec => []AtMostOneOvertakes
<1>1. LockInv => AtMostOneOvertakes
  BY DEF LockInv, FlagInv, AtMostOneOvertakes
<1> QED
  BY <1>1, LockInductive, PTL

-----------------------------------------------------------------------------
(* Lifetime *)

Served == {w \in UserWorkers : type[w] = "user"}

TableTypes ==
    /\ stage \in [UserThreads -> {"out", "fetch", "create", "look", "start", "get", "bind", "lost"}]
    /\ start \in [UserThreads -> BOOLEAN]
    /\ tls \in [UserThreads -> UserWorkers \cup {NoWorker, AdHoc}]
    /\ type \in [UserWorkers -> {"free", "user"}]
    /\ published \in BOOLEAN /\ workers_running \in BOOLEAN /\ work_done \in BOOLEAN
    /\ starts \in Nat

(* A worker of the table that serves is the worker of one thread.         *)
BindingInv ==
    /\ \A w \in Served : \E t \in UserThreads : tls[t] = w
    /\ \A t \in UserThreads : tls[t] \in UserWorkers => type[tls[t]] = "user"
    /\ \A t \in UserThreads : stage[t] \notin {"out", "lost"} => tls[t] = NoWorker
    /\ \A t, u \in UserThreads : tls[t] \in UserWorkers /\ tls[t] = tls[u] => t = u
    /\ IsFiniteSet(Served) /\ Q = Cardinality(Served)
    /\ Q # 0 => published = TRUE

(* Who binds has seen the state published; it ended since, or it still is. *)
RunningInv ==
    /\ starts <= 1
    /\ workers_running = TRUE <=> published = TRUE /\ starts = 1
    /\ \A t \in UserThreads : stage[t] = "bind" => published = TRUE \/ work_done = TRUE

TableInv == TableTypes /\ BindingInv /\ RunningInv

(* A set of numbers that is not empty has a least element.                 *)
LEMMA LeastNumber ==
    ASSUME NEW D \in SUBSET Nat, D # {}
    PROVE  \E n \in D : \A m \in D : n <= m
<1> DEFINE R == OpToRel(<, Nat)
<1>1. IsWellFoundedOn(R, Nat)
    BY NatLessThanWellFounded
<1>2. \A x, y \in Nat : x < y => <<x, y>> \in R
    BY DEF OpToRel
<1> HIDE DEF R
<1>3. PICK n \in D : \A m \in D : ~(<<m, n>> \in R)
    BY <1>1, WFMin
<1>4. ASSUME NEW m \in D PROVE n <= m
    <2>1. m \in Nat /\ n \in Nat
        OBVIOUS
    <2>2. ~(m < n)
        BY <2>1, <1>2, <1>3
    <2> QED
        BY <2>1, <2>2
<1> QED
    BY <1>4

(* The worker that Bind takes is a free one.                               *)
LEMMA FreeWorkerTaken ==
    ASSUME LifetimeAssumption, FreeWorkers # {}
    PROVE  Min(FreeWorkers) \in FreeWorkers
<1>1. FreeWorkers \in SUBSET Nat
    BY DEF FreeWorkers, LifetimeAssumption
<1>2. \E n \in FreeWorkers : \A m \in FreeWorkers : n <= m
    BY <1>1, LeastNumber
<1> QED
    BY <1>2 DEF Min

(* At first no worker of the table serves anyone.                          *)
LEMMA TableInit ==
    ASSUME LifetimeAssumption, LifeInit
    PROVE  TableInv
<1>1. Served = {}
    BY DEF LifeInit, Served
<1>2. IsFiniteSet(Served) /\ Cardinality(Served) = 0
    BY <1>1, FS_EmptySet
<1>3. TableTypes
    BY DEF TableTypes, LifeInit
<1>4. BindingInv
    BY <1>1, <1>2 DEF BindingInv, LifeInit, LifetimeAssumption
<1>5. RunningInv
    BY DEF RunningInv, LifeInit
<1> QED
    BY <1>3, <1>4, <1>5 DEF TableInv

(* Binding: the thread has a worker of the table that was free.            *)
LEMMA TableBind ==
    ASSUME LifetimeAssumption, TableInv, NEW t \in UserThreads, Bind(t)
    PROVE  TableInv'
<1>1. /\ ~work_done /\ stage[t] = "bind" /\ published
      /\ stage' = [stage EXCEPT ![t] = "out"]
      /\ UNCHANGED <<start, published, workers_running, work_done, starts, ends>>
    BY DEF Bind, Moves, TableInv, TableTypes, BindingInv, RunningInv
<1>2. CASE FreeWorkers = {}
    <2>1. tls' = [tls EXCEPT ![t] = AdHoc] /\ UNCHANGED <<type, Q>>
        BY <1>2 DEF Bind
    <2>2. Served' = Served
        BY <2>1 DEF Served
    <2>3. \A w \in UserWorkers : type[w] = "user"
        BY <1>2 DEF FreeWorkers, TableInv, TableTypes, BindingInv, RunningInv
    <2>4. Served = UserWorkers
        BY <2>3 DEF Served
    <2> QED
        <3>1. TableTypes'
            BY <1>1, <2>1, <2>2 DEF TableInv, TableTypes, BindingInv, RunningInv, LifetimeAssumption, Served
        <3>2. BindingInv'
            BY <1>1, <2>1, <2>2 DEF TableInv, TableTypes, BindingInv, LifetimeAssumption, Served
        <3>3. RunningInv'
            BY <1>1, <2>1, <2>2 DEF TableInv, TableTypes, RunningInv, LifetimeAssumption, Served
        <3> QED
            BY <3>1, <3>2, <3>3 DEF TableInv
<1>3. CASE FreeWorkers # {}
    <2> DEFINE v == Min(FreeWorkers)
    <2>1. v \in UserWorkers /\ type[v] = "free"
        BY <1>3, FreeWorkerTaken DEF FreeWorkers
    <2>2. /\ tls' = [tls EXCEPT ![t] = v] /\ type' = [type EXCEPT ![v] = "user"]
          /\ Q' = Q + 1
        BY <1>3 DEF Bind
    <2> HIDE DEF v
    <2>3. Served' = Served \cup {v} /\ v \notin Served
        BY <2>1, <2>2 DEF Served, TableInv, TableTypes, BindingInv, RunningInv
    <2>4. IsFiniteSet(Served') /\ Cardinality(Served') = Cardinality(Served) + 1
        BY <2>3, FS_AddElement DEF TableInv, TableTypes, BindingInv, RunningInv
    <2> QED
        <3>1. TableTypes'
            BY <1>1, <2>1, <2>2, <2>3, <2>4 DEF TableInv, TableTypes, BindingInv, RunningInv, LifetimeAssumption, Served
        <3>2. BindingInv'
            BY <1>1, <2>1, <2>2, <2>3, <2>4 DEF TableInv, TableTypes, BindingInv, LifetimeAssumption, Served
        <3>3. RunningInv'
            BY <1>1, <2>1, <2>2, <2>3, <2>4 DEF TableInv, TableTypes, RunningInv, LifetimeAssumption, Served
        <3> QED
            BY <3>1, <3>2, <3>3 DEF TableInv
<1> QED
    BY <1>2, <1>3

(* Unbinding: the worker of the table that the thread had is free again.   *)
LEMMA TableUnbind ==
    ASSUME LifetimeAssumption, TableInv, NEW t \in UserThreads, Unbind(t)
    PROVE  TableInv'
<1>1. /\ tls[t] # NoWorker /\ published /\ tls' = [tls EXCEPT ![t] = NoWorker]
      /\ UNCHANGED <<stage, start, published, workers_running, work_done, starts, ends>>
    BY DEF Unbind
<1>2. CASE tls[t] = AdHoc
    <2>1. UNCHANGED <<type, Q>>
        BY <1>2 DEF Unbind
    <2>2. Served' = Served
        BY <2>1 DEF Served
    <2> QED
        BY <1>1, <1>2, <2>1, <2>2 DEF TableInv, TableTypes, BindingInv, RunningInv, LifetimeAssumption, Served
<1>3. CASE tls[t] # AdHoc
    <2> DEFINE v == tls[t]
    <2>1. v \in UserWorkers /\ v \in Served
        BY <1>1, <1>3 DEF Served, TableInv, TableTypes, BindingInv, RunningInv
    <2>2. type' = [type EXCEPT ![v] = "free"] /\ Q' = Q - 1
        BY <1>3 DEF Unbind
    <2>3. Served' = Served \ {v}
        BY <2>1, <2>2 DEF Served, TableInv, TableTypes, BindingInv, RunningInv
    <2>4. IsFiniteSet(Served') /\ Cardinality(Served') = Cardinality(Served) - 1
        BY <2>1, <2>3, FS_RemoveElement DEF TableInv, TableTypes, BindingInv, RunningInv
    <2> QED
        BY <1>1, <2>1, <2>2, <2>3, <2>4 DEF TableInv, TableTypes, BindingInv, RunningInv, LifetimeAssumption, Served
<1> QED
    BY <1>2, <1>3

(* A new state has an empty table: nobody was bound to the old one.        *)
LEMMA TableCreate ==
    ASSUME LifetimeAssumption, TableInv, NEW t \in UserThreads, Create(t)
    PROVE  TableInv'
<1>1. /\ stage[t] = "create" /\ stage' = [stage EXCEPT ![t] = "look"]
      /\ published' = TRUE /\ UNCHANGED <<start, tls, ends>>
    BY DEF Create, Moves
<1>2. CASE published
    <2>1. UNCHANGED <<type, workers_running, work_done, Q, starts>> /\ Served' = Served
        BY <1>2 DEF Create, Served
    <2> QED
        BY <1>1, <1>2, <2>1 DEF TableInv, TableTypes, BindingInv, RunningInv, Served
<1>3. CASE ~published
    <2>1. /\ type' = [w \in UserWorkers |-> "free"] /\ workers_running' = FALSE
          /\ work_done' = FALSE /\ Q' = 0 /\ starts' = 0
        BY <1>3 DEF Create
    <2>2. Cardinality(Served) = 0 /\ IsFiniteSet(Served)
        BY <1>3 DEF TableInv, TableTypes, BindingInv, RunningInv
    <2>3. Served = {} /\ Served' = {}
        BY <2>1, <2>2, FS_EmptySet DEF Served
    <2>4. Cardinality(Served') = 0 /\ IsFiniteSet(Served')
        BY <2>2, <2>3
    <2>5. \A u \in UserThreads : tls[u] \notin UserWorkers
        BY <2>3 DEF TableInv, TableTypes, BindingInv, RunningInv, Served
    <2> QED
        <3>1. TableTypes'
            BY <1>1, <2>1, <2>3, <2>4, <2>5 DEF TableInv, TableTypes, BindingInv, RunningInv
        <3>2. BindingInv'
            BY <1>1, <2>1, <2>3, <2>4, <2>5 DEF TableInv, TableTypes, BindingInv
        <3>3. RunningInv'
            BY <1>1, <2>1, <2>3, <2>4, <2>5 DEF TableInv, TableTypes, RunningInv
        <3> QED
            BY <3>1, <3>2, <3>3 DEF TableInv
<1> QED
    BY <1>2, <1>3

(* The other steps leave the table alone.                                  *)
LEMMA TableKept ==
    ASSUME TableInv, NEW t \in UserThreads,
           \/ \E starting \in BOOLEAN : Enter(t, starting)
           \/ Fetch(t) \/ Look(t) \/ StartWorkers(t) \/ Get(t)
           \/ Refused(t) \/ EndCilk(t)
    PROVE  TableInv'
<1>1. UNCHANGED <<tls, type, Q>> /\ Served' = Served
    BY DEF Served, Enter, Fetch, Look, StartWorkers, Get,
           Refused, EndCilk
<1>2. ASSUME NEW starting \in BOOLEAN, Enter(t, starting)
      PROVE  TableInv'
    BY <1>1, <1>2 DEF Enter, Moves, TableInv, TableTypes, BindingInv, RunningInv
<1>3. CASE Fetch(t)
    BY <1>1, <1>3 DEF Fetch, Moves, TableInv, TableTypes, BindingInv, RunningInv
<1>4. CASE Look(t)
    BY <1>1, <1>4 DEF Look, Moves, TableInv, TableTypes, BindingInv, RunningInv
<1>5. CASE StartWorkers(t)
    <2>1. TableTypes'
        <3>1. stage' \in [UserThreads -> {"out", "fetch", "create", "look", "start", "get", "bind", "lost"}]
            BY <1>5 DEF TableInv, TableTypes, StartWorkers, Moves
        <3>2. workers_running' \in BOOLEAN /\ work_done' \in BOOLEAN /\ starts' \in Nat
            <4>1. CASE published /\ ~workers_running
                <5>1. workers_running' = TRUE /\ work_done' = FALSE /\ starts' = starts + 1
                    BY <1>5, <4>1 DEF StartWorkers, CreateThreads
                <5>2. starts' \in Nat
                    BY <5>1 DEF TableInv, TableTypes
                <5> QED
                    BY <5>1, <5>2, Zenon
            <4>2. CASE ~(published /\ ~workers_running)
                <5>1. /\ workers_running' = workers_running /\ work_done' = work_done
                      /\ starts' = starts
                    BY <1>5, <4>2 DEF StartWorkers
                <5>2. workers_running \in BOOLEAN /\ work_done \in BOOLEAN /\ starts \in Nat
                    BY DEF TableInv, TableTypes
                <5> QED
                    BY <5>1, <5>2, Zenon
            <4> QED
                BY <4>1, <4>2
        <3>3. UNCHANGED <<start, tls, type, published, Q, ends>>
            BY <1>5 DEF StartWorkers
        <3> QED
            BY <3>1, <3>2, <3>3 DEF TableInv, TableTypes
    <2>2. BindingInv'
        BY <1>1, <1>5 DEF TableInv, TableTypes, BindingInv, StartWorkers, CreateThreads, Moves
    <2>3. RunningInv'
        BY <1>1, <1>5 DEF TableInv, TableTypes, RunningInv, StartWorkers, CreateThreads, Moves
    <2> QED
        BY <2>1, <2>2, <2>3 DEF TableInv
<1>6. CASE Get(t)
    BY <1>1, <1>6 DEF Get, Moves, TableInv, TableTypes, BindingInv, RunningInv
<1>7. CASE Refused(t)
    BY <1>1, <1>7 DEF Refused, Moves, TableInv, TableTypes, BindingInv, RunningInv
<1>8. CASE EndCilk(t)
    BY <1>1, <1>8 DEF EndCilk, JoinThreads, TableInv, TableTypes, BindingInv, RunningInv
<1> QED
    BY <1>2, <1>3, <1>4, <1>5, <1>6, <1>7, <1>8

(* Each step of Lifetime keeps the invariant.                              *)
LEMMA TableStep ==
    ASSUME LifetimeAssumption, TableInv, [LifeNext]_life_vars
    PROVE  TableInv'
<1>1. CASE UNCHANGED life_vars
    BY <1>1 DEF life_vars, TableInv, TableTypes, BindingInv, RunningInv, Served
<1>2. CASE LifeNext
    BY <1>2, TableKept, TableCreate, TableBind, TableUnbind DEF LifeNext
<1> QED
    BY <1>1, <1>2

(* What the invariant says of the table.                                   *)
LEMMA TableInvImplies ==
    ASSUME LifetimeAssumption, TableInv
    PROVE  TableIsRight
<1>1. ASSUME NEW w \in UserWorkers
      PROVE  Cardinality(Bound(w)) = (IF type[w] = "user" THEN 1 ELSE 0)
    <2>1. CASE type[w] = "user"
        <3>1. PICK t \in UserThreads : tls[t] = w
            BY <2>1 DEF TableInv, TableTypes, BindingInv, RunningInv, Served
        <3>2. Bound(w) = {t}
            BY <3>1 DEF TableInv, TableTypes, BindingInv, RunningInv, Bound
        <3> QED
            BY <2>1, <3>2, FS_Singleton
    <2>2. CASE type[w] # "user"
        <3>1. Bound(w) = {}
            BY <2>2 DEF TableInv, TableTypes, BindingInv, RunningInv, Bound
        <3> QED
            BY <2>2, <3>1, FS_EmptySet
    <2> QED
        BY <2>1, <2>2
<1>2. Q = Cardinality({w \in UserWorkers : type[w] = "user"})
    BY DEF TableInv, BindingInv, Served
<1>3. Q \in Nat
    BY FS_CardinalityType DEF TableInv, BindingInv
<1>4. Q > 0 => published
    BY <1>3 DEF TableInv, BindingInv
<1>5. workers_running <=> published /\ starts = 1
    BY DEF TableInv, TableTypes, RunningInv
<1>6. starts <= 1
    BY DEF TableInv, RunningInv
<1> QED
    BY <1>1, <1>2, <1>4, <1>5, <1>6, Zenon DEF TableIsRight

(* Each worker of the table serves one thread, Q is the number of them,    *)
(* the state stays while one is inside, and the workers are started once.  *)
THEOREM WorkerTable ==
    ASSUME LifetimeAssumption
    PROVE  LifeSpec => []TableIsRight
<1>1. LifeInit => TableInv
    BY TableInit
<1>2. TableInv /\ [LifeNext]_life_vars => TableInv'
    BY TableStep
<1>3. TableInv => TableIsRight
    BY TableInvImplies
<1> QED
    BY <1>1, <1>2, <1>3, PTL DEF LifeSpec

-----------------------------------------------------------------------------
(* Sums over finite sets *)

(* Induction over the subsets of a finite set, for a set of them.          *)
LEMMA SubsetInduction ==
    ASSUME NEW D, IsFiniteSet(D), NEW G, {} \in G,
           \A s \in SUBSET D : s # {} /\ (\A x \in s : s \ {x} \in G) => s \in G
    PROVE  \A s \in SUBSET D : s \in G
<1> SUFFICES ASSUME NEW b \in SUBSET D, b \notin G PROVE FALSE
    OBVIOUS
<1> DEFINE Bad == {s \in SUBSET D : s \notin G}
           N == {Cardinality(s) : s \in Bad}
<1>1. \A s \in SUBSET D : IsFiniteSet(s) /\ Cardinality(s) \in Nat
    BY FS_Subset, FS_CardinalityType
<1>2. N \in SUBSET Nat /\ N # {}
    BY <1>1
<1>3. PICK n \in N : \A m \in N : n <= m
    <2> HIDE DEF N
    <2> QED
        BY <1>2, LeastNumber
<1>4. PICK s \in Bad : Cardinality(s) = n
    OBVIOUS
<1>5. s # {}
    OBVIOUS
<1>6. ASSUME NEW x \in s PROVE s \ {x} \in G
    <2>1. s \ {x} \in SUBSET D
        OBVIOUS
    <2>2. Cardinality(s \ {x}) = Cardinality(s) - 1
        BY <1>1, FS_RemoveElement
    <2>3. ~(n <= Cardinality(s \ {x}))
        BY <1>1, <1>4, <2>2
    <2> QED
        BY <2>1, <2>3, <1>3
<1> QED
    BY <1>5, <1>6

-----------------------------------------------------------------------------
(* SumFunction of the library is the value at the whole domain of a        *)
(* function that is defined by recursion over its subsets.                 *)
Pick(s) == CHOOSE x \in s : TRUE
Step(f, h, s) == IF s = {} THEN 0 ELSE f[Pick(s)] + h[s \ {Pick(s)}]
IsPartialSum(f, h) == h = [s \in SUBSET DOMAIN f |-> Step(f, h, s)]
PartialSum(f) == CHOOSE h : IsPartialSum(f, h)

(* The library's definition says the same.                                 *)
LEMMA SumUnfolded ==
    ASSUME NEW f
    PROVE  SumFunction(f) = PartialSum(f)[DOMAIN f]
BY Zenon DEF SumFunction, SumFunctionOnSet, FoldFunctionOnSet, MapThenFoldSet,
             PartialSum, IsPartialSum, Step, Pick

(* There is such a function.                                               *)
LEMMA PartialSumExists ==
    ASSUME NEW D, IsFiniteSet(D), NEW f \in [D -> Int]
    PROVE  IsPartialSum(f, PartialSum(f))
<1> DEFINE Below(n) == {s \in SUBSET D : Cardinality(s) <= n}
           Reached(n) == \E h : h = [s \in Below(n) |-> Step(f, h, s)]
           Bad == {n \in Nat : ~Reached(n)}
<1>1. \A s \in SUBSET D : IsFiniteSet(s) /\ Cardinality(s) \in Nat
    BY FS_Subset, FS_CardinalityType
<1>2. \A s \in SUBSET D : s # {} => Pick(s) \in s
    BY DEF Pick
<1>3. \A s \in SUBSET D : s # {} =>
         s \ {Pick(s)} \in SUBSET D /\ Cardinality(s \ {Pick(s)}) = Cardinality(s) - 1
    BY <1>1, <1>2, FS_RemoveElement
<1>4. Bad = {}
    <2> SUFFICES ASSUME Bad # {} PROVE FALSE
        OBVIOUS
    <2>1. PICK n \in Bad : \A m \in Bad : n <= m
        BY LeastNumber
    <2>2. CASE n = 0
        <3> DEFINE h == [s \in Below(0) |-> 0]
        <3>1. \A s \in Below(0) : s = {}
            BY <1>1, FS_EmptySet
        <3>2. h = [s \in Below(0) |-> Step(f, h, s)]
            BY <3>1 DEF Step
        <3> QED
            BY <2>2, <3>2
    <2>3. CASE n # 0
        <3>1. n - 1 \in Nat /\ n - 1 \notin Bad
            <4>1. n \in Nat
                OBVIOUS
            <4> HIDE DEF Bad
            <4> QED
                BY <2>1, <2>3, <4>1
        <3>2. PICK h : h = [s \in Below(n - 1) |-> Step(f, h, s)]
            BY <3>1
        <3>3. PICK g : g = [s \in Below(n) |-> Step(f, h, s)]
            OBVIOUS
        <3>4. ASSUME NEW s \in Below(n) PROVE g[s] = Step(f, g, s)
            <4>1. CASE s = {}
                BY <4>1, <3>3 DEF Step
            <4>2. CASE s # {}
                <5> DEFINE t == s \ {Pick(s)}
                <5>1. t \in Below(n - 1) /\ t \in Below(n)
                    BY <4>2, <1>1, <1>3, <2>1
                <5>2. h[t] = Step(f, h, t) /\ g[t] = Step(f, h, t) /\ g[s] = Step(f, h, s)
                    BY <5>1, <3>2, <3>3
                <5> QED
                    BY <5>2, <4>2 DEF Step
            <4> QED
                BY <4>1, <4>2
        <3>5. g = [s \in Below(n) |-> Step(f, g, s)]
            BY <3>3, <3>4
        <3> QED
            BY <3>5
    <2> QED
        BY <2>2, <2>3
<1>5. Cardinality(D) \in Nat /\ Below(Cardinality(D)) = SUBSET D
    BY <1>1, FS_CardinalityType, FS_Subset
<1>6. \E h : IsPartialSum(f, h)
    <2>1. Reached(Cardinality(D))
        BY <1>4, <1>5
    <2>2. DOMAIN f = D
        OBVIOUS
    <2> HIDE DEF Below
    <2> QED
        BY <2>1, <2>2, <1>5 DEF IsPartialSum
<1> QED
    BY <1>6 DEF PartialSum

(* What it is at a set that is not empty, whichever element is taken out.  *)
LEMMA PartialSums ==
    ASSUME NEW D, IsFiniteSet(D), NEW f \in [D -> Int]
    PROVE  /\ PartialSum(f)[{}] = 0
           /\ \A s \in SUBSET D : PartialSum(f)[s] \in Int
           /\ \A s \in SUBSET D : \A x \in s : PartialSum(f)[s] = f[x] + PartialSum(f)[s \ {x}]
<1>0. PICK h : h = PartialSum(f)
    OBVIOUS
<1>1. /\ h[{}] = 0
      /\ \A s \in SUBSET D : s # {} => h[s] = f[Pick(s)] + h[s \ {Pick(s)}]
    BY <1>0, PartialSumExists DEF IsPartialSum, Step
<1>2. \A s \in SUBSET D : s # {} => Pick(s) \in s
    BY DEF Pick
<1>3. \A s \in SUBSET D : h[s] \in Int
    <2> DEFINE G == {s \in SUBSET D : h[s] \in Int}
    <2>1. {} \in G
        BY <1>1
    <2>2. ASSUME NEW s \in SUBSET D, s # {}, \A x \in s : s \ {x} \in G PROVE s \in G
        <3>1. PICK c : c = Pick(s)
            OBVIOUS
        <3>2. c \in s /\ h[s] = f[c] + h[s \ {c}]
            BY <2>2, <3>1, <1>1, <1>2
        <3>3. h[s \ {c}] \in Int /\ f[c] \in Int
            BY <2>2, <3>2
        <3> QED
            BY <3>2, <3>3
    <2> HIDE DEF G
    <2>3. \A s \in SUBSET D : s \in G
        BY <2>1, <2>2, SubsetInduction
    <2> QED
        BY <2>3 DEF G
<1>4. \A s \in SUBSET D : \A x \in s : h[s] = f[x] + h[s \ {x}]
    <2> DEFINE G == {s \in SUBSET D : \A x \in s : h[s] = f[x] + h[s \ {x}]}
    <2>1. {} \in G
        OBVIOUS
    <2>2. ASSUME NEW s \in SUBSET D, s # {}, \A x \in s : s \ {x} \in G PROVE s \in G
        <3> SUFFICES ASSUME NEW x \in s PROVE h[s] = f[x] + h[s \ {x}]
            BY <2>2
        <3>1. PICK c : c = Pick(s)
            OBVIOUS
        <3>2. c \in s /\ h[s] = f[c] + h[s \ {c}]
            BY <2>2, <3>1, <1>1, <1>2
        <3>3. CASE x = c
            BY <3>2, <3>3
        <3>4. CASE x # c
            <4>1. x \in s \ {c} /\ c \in s \ {x} /\ (s \ {c}) \ {x} = (s \ {x}) \ {c}
                BY <3>2, <3>4
            <4>2. s \ {c} \in G /\ s \ {x} \in G
                BY <2>2, <3>2
            <4>3. h[s \ {c}] = f[x] + h[(s \ {c}) \ {x}] /\ h[s \ {x}] = f[c] + h[(s \ {x}) \ {c}]
                BY <4>1, <4>2
            <4>4. f[x] \in Int /\ f[c] \in Int /\ h[(s \ {c}) \ {x}] \in Int
                BY <3>2, <1>3
            <4>5. PICK r : r = h[(s \ {c}) \ {x}]
                OBVIOUS
            <4>6. h[s] = f[c] + (f[x] + r) /\ h[s \ {x}] = f[c] + r
                BY <3>2, <4>1, <4>3, <4>5
            <4> QED
                BY <4>4, <4>5, <4>6
        <3> QED
            BY <3>3, <3>4
    <2> HIDE DEF G
    <2>3. \A s \in SUBSET D : s \in G
        BY <2>1, <2>2, SubsetInduction
    <2> QED
        BY <2>3 DEF G
<1> QED
    BY <1>0, <1>1, <1>3, <1>4

(* Which of its elements is taken first does not matter.                   *)
LEMMA PartialSumOf ==
    ASSUME NEW D, IsFiniteSet(D), NEW f \in [D -> Int], NEW s \in SUBSET D, NEW x \in s
    PROVE  PartialSum(f)[s] = f[x] + PartialSum(f)[s \ {x}]
BY PartialSums

(* Partial sums depend on the values in the set only.                      *)
LEMMA SamePartialSum ==
    ASSUME NEW D, IsFiniteSet(D), NEW f \in [D -> Int], NEW g \in [D -> Int], NEW t \in SUBSET D,
           \A x \in t : f[x] = g[x]
    PROVE  PartialSum(f)[t] = PartialSum(g)[t]
<1> DEFINE G == {s \in SUBSET D : s \subseteq t => PartialSum(f)[s] = PartialSum(g)[s]}
<1>1. {} \in G
    BY PartialSums
<1>2. ASSUME NEW s \in SUBSET D, s # {}, \A x \in s : s \ {x} \in G PROVE s \in G
    <2> SUFFICES ASSUME s \subseteq t PROVE PartialSum(f)[s] = PartialSum(g)[s]
        OBVIOUS
    <2>1. PICK x \in s : TRUE
        BY <1>2
    <2>2. PartialSum(f)[s] = f[x] + PartialSum(f)[s \ {x}]
        BY PartialSums
    <2>3. PartialSum(g)[s] = g[x] + PartialSum(g)[s \ {x}]
        BY PartialSums
    <2>4. PartialSum(f)[s \ {x}] = PartialSum(g)[s \ {x}]
        BY <1>2
    <2> QED
        BY <2>2, <2>3, <2>4
<1> HIDE DEF G
<1>3. \A s \in SUBSET D : s \in G
    BY <1>1, <1>2, SubsetInduction
<1> QED
    BY <1>3 DEF G

-----------------------------------------------------------------------------
(* What the proofs need of sums.                                           *)

(* The sum of integers is one.                                             *)
LEMMA SumType ==
    ASSUME NEW D, IsFiniteSet(D), NEW f \in [D -> Int]
    PROVE  SumFunction(f) \in Int
BY PartialSums, SumUnfolded

(* One value changes. *)
LEMMA SumChanged ==
    ASSUME NEW D, IsFiniteSet(D), NEW f \in [D -> Int], NEW g \in [D -> Int], NEW x \in D,
           \A y \in D \ {x} : g[y] = f[y]
    PROVE  SumFunction(g) = SumFunction(f) - f[x] + g[x]
<1>1. DOMAIN f = D /\ DOMAIN g = D /\ f[x] \in Int /\ g[x] \in Int
    OBVIOUS
<1>2. PICK r : r = PartialSum(f)[D \ {x}]
    OBVIOUS
<1>3. r \in Int /\ SumFunction(f) = f[x] + r
    BY <1>1, <1>2, PartialSums, SumUnfolded
<1>4. PartialSum(g)[D \ {x}] = r
    BY <1>2, SamePartialSum
<1>5. SumFunction(g) = g[x] + r
    BY <1>1, <1>4, PartialSums, SumUnfolded
<1> QED
    BY <1>1, <1>3, <1>5

(* Two values change. *)
LEMMA SumMoved ==
    ASSUME NEW D, IsFiniteSet(D), NEW f \in [D -> Int], NEW g \in [D -> Int],
           NEW x \in D, NEW z \in D, x # z,
           \A y \in D \ {x, z} : g[y] = f[y]
    PROVE  SumFunction(g) = SumFunction(f) - f[x] - f[z] + g[x] + g[z]
<1>1. PICK k : k = [f EXCEPT ![x] = g[x]]
    OBVIOUS
<1>2. k \in [D -> Int] /\ k[x] = g[x] /\ \A y \in D \ {x} : k[y] = f[y]
    BY <1>1
<1>3. SumFunction(k) = SumFunction(f) - f[x] + g[x]
    BY <1>2, SumChanged
<1>4. \A y \in D \ {z} : g[y] = k[y]
    BY <1>2
<1>5. SumFunction(g) = SumFunction(k) - k[z] + g[z]
    BY <1>2, <1>4, SumChanged
<1>6. k[z] = f[z] /\ SumFunction(f) \in Int /\ f[x] \in Int /\ g[x] \in Int /\ f[z] \in Int /\ g[z] \in Int
    BY <1>2, SumType
<1> QED
    BY <1>3, <1>5, <1>6

(* What is not negative is at most the sum. *)
LEMMA SumOfNaturals ==
    ASSUME NEW D, IsFiniteSet(D), NEW f \in [D -> Nat]
    PROVE  SumFunction(f) \in Nat /\ \A x \in D : f[x] <= SumFunction(f)
<1>1. f \in [D -> Int] /\ DOMAIN f = D
    OBVIOUS
<1>2. \A s \in SUBSET D : PartialSum(f)[s] \in Nat
    <2> DEFINE G == {s \in SUBSET D : PartialSum(f)[s] \in Nat}
    <2>1. {} \in G
        BY <1>1, PartialSums
    <2>2. ASSUME NEW s \in SUBSET D, s # {}, \A x \in s : s \ {x} \in G PROVE s \in G
        <3>1. PICK x \in s : TRUE
            BY <2>2
        <3>2. PartialSum(f)[s] = f[x] + PartialSum(f)[s \ {x}]
            BY <1>1, PartialSums
        <3>3. f[x] \in Nat /\ PartialSum(f)[s \ {x}] \in Nat
            BY <2>2
        <3> QED
            BY <3>2, <3>3
    <2> HIDE DEF G
    <2>3. \A s \in SUBSET D : s \in G
        BY <2>1, <2>2, SubsetInduction
    <2> QED
        BY <2>3 DEF G
<1>3. ASSUME NEW x \in D PROVE f[x] <= SumFunction(f)
    <2>1. PICK r : r = PartialSum(f)[D \ {x}]
        OBVIOUS
    <2>2. SumFunction(f) = f[x] + r
        BY <1>1, <2>1, PartialSums, SumUnfolded
    <2>3. f[x] \in Nat /\ r \in Nat
        BY <1>2, <2>1
    <2> QED
        BY <2>2, <2>3
<1> QED
    BY <1>1, <1>2, <1>3, SumUnfolded

(* Zeros. *)
LEMMA SumOfZeros ==
    ASSUME NEW D, IsFiniteSet(D), NEW f \in [D -> Int], \A x \in D : f[x] = 0
    PROVE  SumFunction(f) = 0
<1> DEFINE G == {s \in SUBSET D : PartialSum(f)[s] = 0}
<1>1. {} \in G
    BY PartialSums
<1>2. ASSUME NEW s \in SUBSET D, s # {}, \A x \in s : s \ {x} \in G PROVE s \in G
    <2>1. PICK x \in s : TRUE
        BY <1>2
    <2>2. PartialSum(f)[s] = f[x] + PartialSum(f)[s \ {x}]
        BY PartialSums
    <2>3. f[x] = 0 /\ PartialSum(f)[s \ {x}] = 0
        BY <1>2
    <2> QED
        BY <2>2, <2>3
<1> HIDE DEF G
<1>3. \A s \in SUBSET D : s \in G
    BY <1>1, <1>2, SubsetInduction
<1> QED
    BY <1>3, SumUnfolded DEF G

(* The sum of two functions' values. *)
LEMMA SumOfBoth ==
    ASSUME NEW D, IsFiniteSet(D), NEW f \in [D -> Int], NEW g \in [D -> Int],
           NEW h \in [D -> Int], \A x \in D : h[x] = f[x] + g[x]
    PROVE  SumFunction(h) = SumFunction(f) + SumFunction(g)
<1> DEFINE G == {s \in SUBSET D : PartialSum(h)[s] = PartialSum(f)[s] + PartialSum(g)[s]}
<1>1. {} \in G
    BY PartialSums
<1>2. ASSUME NEW s \in SUBSET D, s # {}, \A x \in s : s \ {x} \in G PROVE s \in G
    <2>1. PICK x \in s : TRUE
        BY <1>2
    <2>2. /\ PartialSum(h)[s] = h[x] + PartialSum(h)[s \ {x}]
          /\ PartialSum(f)[s] = f[x] + PartialSum(f)[s \ {x}]
          /\ PartialSum(g)[s] = g[x] + PartialSum(g)[s \ {x}]
        <3>1. PartialSum(h)[s] = h[x] + PartialSum(h)[s \ {x}]
            BY PartialSumOf
        <3>2. PartialSum(f)[s] = f[x] + PartialSum(f)[s \ {x}]
            BY PartialSumOf
        <3>3. PartialSum(g)[s] = g[x] + PartialSum(g)[s \ {x}]
            BY PartialSumOf
        <3> QED
            BY <3>1, <3>2, <3>3
    <2>3. PartialSum(h)[s \ {x}] = PartialSum(f)[s \ {x}] + PartialSum(g)[s \ {x}]
        BY <1>2
    <2>4. PartialSum(f)[s \ {x}] \in Int /\ PartialSum(g)[s \ {x}] \in Int
        <3>1. s \ {x} \in SUBSET D
            OBVIOUS
        <3> QED
            BY <3>1, PartialSums
    <2>5. f[x] \in Int /\ g[x] \in Int /\ h[x] = f[x] + g[x]
        OBVIOUS
    <2> QED
        BY <2>2, <2>3, <2>4, <2>5
<1> HIDE DEF G
<1>3. \A s \in SUBSET D : s \in G
    BY <1>1, <1>2, SubsetInduction
<1> QED
    BY <1>3, SumUnfolded DEF G

(* A bound on each value but one bounds the sum.                           *)
LEMMA SumBelow ==
    ASSUME NEW D, IsFiniteSet(D), NEW f \in [D -> Int], NEW x \in D,
           \A y \in D \ {x} : f[y] <= 0
    PROVE  SumFunction(f) <= f[x]
<1> DEFINE G == {s \in SUBSET D : x \notin s => PartialSum(f)[s] <= 0}
<1>1. {} \in G
    BY PartialSums
<1>2. ASSUME NEW s \in SUBSET D, s # {}, \A y \in s : s \ {y} \in G PROVE s \in G
    <2> SUFFICES ASSUME x \notin s PROVE PartialSum(f)[s] <= 0
        OBVIOUS
    <2>1. PICK y \in s : TRUE
        BY <1>2
    <2>2. PICK r : r = PartialSum(f)[s \ {y}]
        OBVIOUS
    <2>3. PartialSum(f)[s] = f[y] + r
        BY <2>2, PartialSums
    <2>4. f[y] \in Int /\ f[y] <= 0 /\ r \in Int /\ r <= 0
        BY <1>2, <2>2, PartialSums
    <2> QED
        BY <2>3, <2>4
<1> HIDE DEF G
<1>3. \A s \in SUBSET D : s \in G
    BY <1>1, <1>2, SubsetInduction
<1>4. PICK r : r = PartialSum(f)[D \ {x}]
    OBVIOUS
<1>5. r \in Int /\ r <= 0 /\ f[x] \in Int
    BY <1>3, <1>4, PartialSums DEF G
<1>6. SumFunction(f) = f[x] + r
    BY <1>4, PartialSums, SumUnfolded
<1> QED
    BY <1>5, <1>6

(* If no value is more than one, the sum is at most their number.          *)
LEMMA SumAtMostOneEach ==
    ASSUME NEW D, IsFiniteSet(D), NEW f \in [D -> Int], \A y \in D : f[y] <= 1
    PROVE  SumFunction(f) <= Cardinality(D)
<1> DEFINE G == {s \in SUBSET D : PartialSum(f)[s] <= Cardinality(s)}
<1>0. ASSUME NEW s \in SUBSET D, NEW y \in s
      PROVE  PartialSum(f)[s] = f[y] + PartialSum(f)[s \ {y}]
    BY PartialSumOf
<1>1. {} \in G
    BY PartialSums, FS_EmptySet
<1>2. ASSUME NEW s \in SUBSET D, s # {}, \A y \in s : s \ {y} \in G PROVE s \in G
    <2>1. PICK y \in s : TRUE
        BY <1>2
    <2>2. PICK r : r = PartialSum(f)[s \ {y}]
        OBVIOUS
    <2>3. PartialSum(f)[s] = f[y] + r
        BY <1>0, <2>2
    <2>4. f[y] \in Int /\ f[y] <= 1 /\ r \in Int /\ r <= Cardinality(s \ {y})
        BY <1>2, <2>2, PartialSums
    <2>5. IsFiniteSet(s) /\ Cardinality(s) \in Nat /\ Cardinality(s \ {y}) = Cardinality(s) - 1
        BY FS_Subset, FS_CardinalityType, FS_RemoveElement
    <2> QED
        BY <2>3, <2>4, <2>5
<1> HIDE DEF G
<1>3. \A s \in SUBSET D : s \in G
    BY <1>1, <1>2, SubsetInduction
<1> QED
    BY <1>3, SumUnfolded DEF G

-----------------------------------------------------------------------------
(* FiberPool *)

(* How many have one of some values, and what changes when one of them     *)
(* does.                                                                   *)
Count(D, f, T) == Cardinality({x \in D : f[x] \in T})

(* One of them changes.                                                    *)
LEMMA CountChanged ==
    ASSUME NEW D, IsFiniteSet(D), NEW f, NEW g, NEW T, NEW x \in D,
           \A y \in D \ {x} : g[y] = f[y]
    PROVE  Count(D, g, T) = Count(D, f, T) + (IF g[x] \in T THEN 1 ELSE 0)
                                           - (IF f[x] \in T THEN 1 ELSE 0)
<1> DEFINE others == {y \in D \ {x} : f[y] \in T}
<1>1. IsFiniteSet(others) /\ Cardinality(others) \in Nat
    <2>1. others \in SUBSET D
        OBVIOUS
    <2> QED
        BY <2>1, FS_Subset, FS_CardinalityType
<1>2. Cardinality(others \cup {x}) = Cardinality(others) + 1
    BY <1>1, FS_AddElement
<1>3. Count(D, f, T) = IF f[x] \in T THEN Cardinality(others \cup {x}) ELSE Cardinality(others)
    <2>1. {y \in D : f[y] \in T} = IF f[x] \in T THEN others \cup {x} ELSE others
        OBVIOUS
    <2> QED
        BY <2>1 DEF Count
<1>4. Count(D, g, T) = IF g[x] \in T THEN Cardinality(others \cup {x}) ELSE Cardinality(others)
    <2>1. {y \in D : g[y] \in T} = IF g[x] \in T THEN others \cup {x} ELSE others
        OBVIOUS
    <2> QED
        BY <2>1 DEF Count
<1>5. PICK n \in Nat : n = Cardinality(others)
    BY <1>1
<1> HIDE DEF others
<1>6. CASE f[x] \in T
    BY <1>2, <1>3, <1>4, <1>5, <1>6
<1>7. CASE f[x] \notin T
    BY <1>2, <1>3, <1>4, <1>5, <1>7
<1> QED
    BY <1>6, <1>7

-----------------------------------------------------------------------------
(* FiberPool *)

(* Where a fiber is promised to the worker, and where it has one in hand.  *)
ChargedAt == Asking \cup {"own_undo", "shared_undo"}
InHandAt == {"move", "trim"}

(* The accounts add up to the fibers alive and those asked for.            *)
AccountInv == SumFunction(total) = Alive + Charged

(* No pool's account is over its limit, and no pool over its room.         *)
LimitInv ==
    /\ \A w \in Owners : total[w] <= 0
    /\ total[Shared] <= MaxStacks
    /\ \A p \in Pools : size[p] <= max_size[p]

(* A worker frees one fiber at a time until the pools are destroyed.       *)
DyingInv ==
    /\ \A w \in Owners : dying[w] # 0 => at[w] \in {"bury", "buried"}
    /\ ~Destroying => \A w \in Owners : dying[w] <= 1
    /\ Destroying => Alive + SumFunction(dying) <= MaxStacks

PoolInv == PoolTypeOK /\ AccountInv /\ LimitInv /\ DyingInv

(* What there is to add up. *)
LEMMA PoolSums ==
    ASSUME PoolAssumption, PoolTypeOK
    PROVE  /\ IsFiniteSet(Pools) /\ Shared \in Pools
           /\ \A w \in Owners : w \in Pools /\ w # Shared
           /\ size \in [Pools -> Int] /\ total \in [Pools -> Int] /\ dying \in [Owners -> Int]
           /\ SumFunction(size) \in Nat /\ SumFunction(total) \in Int /\ SumFunction(dying) \in Nat
           /\ used \in Nat /\ Charged \in Nat /\ InHand \in Nat
           /\ \A p \in Pools : max_size[p] \in Nat
<1>1. IsFiniteSet(Owners) /\ IsFiniteSet(Pools)
    BY FS_AddElement DEF PoolAssumption, Pools
<1>2. Shared \in Pools /\ \A w \in Owners : w \in Pools /\ w # Shared
    BY DEF PoolAssumption, Pools
<1>3. /\ size \in [Pools -> Nat] /\ total \in [Pools -> Int] /\ dying \in [Owners -> Nat]
      /\ size \in [Pools -> Int] /\ dying \in [Owners -> Int] /\ used \in Nat
    BY DEF PoolTypeOK
<1>4. SumFunction(size) \in Nat /\ SumFunction(total) \in Int /\ SumFunction(dying) \in Nat
    BY <1>1, <1>3, SumType, SumOfNaturals
<1>5. Charged \in Nat /\ InHand \in Nat
    <2>1. ASSUME NEW s \in SUBSET Owners PROVE Cardinality(s) \in Nat
        BY <1>1, FS_Subset, FS_CardinalityType
    <2> QED
        BY <2>1 DEF Charged, InHand
<1>6. \A p \in Pools : max_size[p] \in Nat
    BY DEF max_size, PoolAssumption
<1> QED
    BY <1>1, <1>2, <1>3, <1>4, <1>5, <1>6

(* A worker that goes from one place to another is counted where it is.    *)
LEMMA CountsMoved ==
    ASSUME PoolAssumption, PoolTypeOK, NEW w \in Owners,
           \A v \in Owners \ {w} : at'[v] = at[v]
    PROVE  /\ Charged' = Charged + (IF at'[w] \in ChargedAt THEN 1 ELSE 0)
                                  - (IF at[w] \in ChargedAt THEN 1 ELSE 0)
           /\ InHand' = InHand + (IF at'[w] \in InHandAt THEN 1 ELSE 0)
                                - (IF at[w] \in InHandAt THEN 1 ELSE 0)
<1>1. PICK g : g = at'
    OBVIOUS
<1>2. IsFiniteSet(Owners) /\ \A v \in Owners \ {w} : g[v] = at[v]
    BY <1>1 DEF PoolAssumption
<1>3. /\ Charged = Count(Owners, at, ChargedAt) /\ Charged' = Count(Owners, g, ChargedAt)
      /\ InHand = Count(Owners, at, InHandAt) /\ InHand' = Count(Owners, g, InHandAt)
    BY <1>1 DEF Charged, ChargedAt, InHand, InHandAt, Count
<1>4. ASSUME NEW T
      PROVE  Count(Owners, g, T) = Count(Owners, at, T) + (IF g[w] \in T THEN 1 ELSE 0)
                                                          - (IF at[w] \in T THEN 1 ELSE 0)
    BY <1>2, CountChanged
<1> QED
    BY <1>1, <1>3, <1>4

(* A number is added to one of the values. *)
LEMMA SizeMoved ==
    ASSUME PoolAssumption, PoolTypeOK, PoolTypeOK', NEW p \in Pools, NEW v \in Int,
           size'[p] = size[p] + v, \A q \in Pools \ {p} : size'[q] = size[q]
    PROVE  SumFunction(size') = SumFunction(size) + v
<1>1. PICK f : f = size
    OBVIOUS
<1>2. PICK g : g = size'
    OBVIOUS
<1>3. f \in [Pools -> Int] /\ g \in [Pools -> Int] /\ IsFiniteSet(Pools)
    BY <1>1, <1>2, PoolSums DEF PoolTypeOK
<1>4. SumFunction(g) = SumFunction(f) - f[p] + g[p]
    BY <1>1, <1>2, <1>3, SumChanged
<1>5. SumFunction(f) \in Int /\ f[p] \in Int /\ g[p] = f[p] + v
    BY <1>1, <1>2, <1>3, SumType
<1>6. SumFunction(g) = SumFunction(f) + v
    BY <1>4, <1>5
<1> QED
    BY <1>1, <1>2, <1>6

(* A number is added to one of the accounts.                               *)
LEMMA TotalMoved ==
    ASSUME PoolAssumption, PoolTypeOK, PoolTypeOK', NEW p \in Pools, NEW v \in Int,
           total'[p] = total[p] + v, \A q \in Pools \ {p} : total'[q] = total[q]
    PROVE  SumFunction(total') = SumFunction(total) + v
<1>1. PICK f : f = total
    OBVIOUS
<1>2. PICK g : g = total'
    OBVIOUS
<1>3. f \in [Pools -> Int] /\ g \in [Pools -> Int] /\ IsFiniteSet(Pools)
    BY <1>1, <1>2, PoolSums DEF PoolTypeOK
<1>4. SumFunction(g) = SumFunction(f) - f[p] + g[p]
    BY <1>1, <1>2, <1>3, SumChanged
<1>5. SumFunction(f) \in Int /\ f[p] \in Int /\ g[p] = f[p] + v
    BY <1>1, <1>2, <1>3, SumType
<1>6. SumFunction(g) = SumFunction(f) + v
    BY <1>4, <1>5
<1> QED
    BY <1>1, <1>2, <1>6

(* Until they are destroyed a step that frees no fiber kills none.         *)
LEMMA DyingKept ==
    ASSUME PoolAssumption, PoolInv, ~Destroying, NEW w \in Owners,
           at'[w] \notin {"destroy", "buried", "gone"}, \A v \in Owners \ {w} : at'[v] = at[v],
           dying' = dying, at[w] # "bury" \/ at'[w] = "bury"
    PROVE  DyingInv'
<1>1. \A v \in Owners : at[v] \notin {"destroy", "buried", "gone"}
    BY DEF Destroying
<1>2. ~Destroying'
    BY <1>1 DEF Destroying
<1>3. \A v \in Owners : dying[v] # 0 => at[v] = "bury"
    BY <1>1 DEF PoolInv, DyingInv
<1>4. \A v \in Owners : dying[v] <= 1
    BY DEF PoolInv, DyingInv
<1>5. ASSUME NEW v \in Owners, dying[v] # 0 PROVE at'[v] \in {"bury", "buried"}
    <2>1. at[v] = "bury"
        BY <1>3, <1>5
    <2> QED
        BY <2>1, <1>1
<1> QED
    BY <1>2, <1>4, <1>5 DEF DyingInv

(* A fiber is taken from a pool. *)
LEMMA PoolPop ==
    ASSUME PoolAssumption, PoolInv, ~Destroying, NEW w \in Owners, NEW p \in Pools,
           NEW from \in {"idle", "shared"}, Pop(w, p, from)
    PROVE  PoolInv'
<1>0. PoolTypeOK /\ AccountInv /\ LimitInv
    BY DEF PoolInv
<1>1. /\ at[w] = from /\ at' = [at EXCEPT ![w] = "idle"] /\ size[p] > 0
      /\ size' = [size EXCEPT ![p] = size[p] - 1] /\ used' = used + 1
      /\ total' = total /\ dying' = dying
    BY DEF Pop, Proceed
<1>2. PoolTypeOK'
    BY <1>0, <1>1 DEF PoolTypeOK
<1>3. /\ at'[w] = "idle" /\ \A v \in Owners \ {w} : at'[v] = at[v]
      /\ size'[p] = size[p] + (-1) /\ \A q \in Pools \ {p} : size'[q] = size[q]
    BY <1>0, <1>1 DEF PoolTypeOK
<1>4. SumFunction(size') = SumFunction(size) + (-1)
    BY <1>0, <1>2, <1>3, SizeMoved
<1>5. SumFunction(total') = SumFunction(total) + 0
    BY <1>0, <1>1, PoolSums
<1>6. Charged' = Charged + 0 /\ InHand' = InHand + 0
    <2>1. from \notin ChargedAt /\ from \notin InHandAt /\ "idle" \notin ChargedAt /\ "idle" \notin InHandAt
        BY DEF ChargedAt, InHandAt, Asking
    <2> QED
        BY <1>0, <1>1, <1>3, <2>1, CountsMoved, PoolSums
<1>7. AccountInv'
    BY <1>0, <1>1, <1>4, <1>5, <1>6, PoolSums DEF AccountInv, Alive
<1>8. LimitInv'
    <2>1. \A q \in Pools : size'[q] <= size[q] /\ size'[q] \in Int
        BY <1>0, <1>3, PoolSums
    <2> QED
        BY <1>0, <1>1, <2>1, PoolSums DEF LimitInv
<1>9. DyingInv'
    BY <1>1, <1>3, DyingKept
<1> QED
    BY <1>2, <1>7, <1>8, <1>9 DEF PoolInv

(* The heap is asked, on the account of a pool.                            *)
LEMMA PoolCharge ==
    ASSUME PoolAssumption, PoolInv, ~Destroying, NEW w \in Owners, NEW p \in Pools, NEW from, NEW to,
           \/ p = w /\ from = "idle" /\ to = "own_heap"
           \/ p = Shared /\ from = "shared" /\ to = "shared_heap",
           Charge(w, p, from, to)
    PROVE  PoolInv'
<1>0. PoolTypeOK /\ AccountInv /\ LimitInv
    BY DEF PoolInv
<1>1. /\ at[w] = from /\ at' = [at EXCEPT ![w] = to] /\ total[p] < alloc_max[p]
      /\ total' = [total EXCEPT ![p] = total[p] + 1]
      /\ size' = size /\ used' = used /\ dying' = dying
    BY DEF Charge, Proceed, CanAllocateFromHeap
<1>2. PoolTypeOK'
    BY <1>0, <1>1 DEF PoolTypeOK
<1>3. /\ at'[w] = to /\ \A v \in Owners \ {w} : at'[v] = at[v]
      /\ total'[p] = total[p] + 1 /\ \A q \in Pools \ {p} : total'[q] = total[q]
    BY <1>0, <1>1 DEF PoolTypeOK
<1>4. SumFunction(total') = SumFunction(total) + 1
    BY <1>0, <1>2, <1>3, TotalMoved
<1>5. SumFunction(size') = SumFunction(size)
    BY <1>1
<1>6. Charged' = Charged + 1 /\ InHand' = InHand + 0
    <2>1. from \notin ChargedAt /\ from \notin InHandAt /\ to \in ChargedAt /\ to \notin InHandAt
        BY DEF ChargedAt, InHandAt, Asking
    <2> QED
        BY <1>0, <1>1, <1>3, <2>1, CountsMoved, PoolSums
<1>7. AccountInv'
    BY <1>0, <1>1, <1>4, <1>5, <1>6, PoolSums DEF AccountInv, Alive
<1>8. LimitInv'
    <2>1. alloc_max[p] = IF p = Shared THEN MaxStacks ELSE 0
        BY DEF alloc_max
    <2>2. total[p] \in Int /\ MaxStacks \in Nat
        BY <1>0, PoolSums DEF PoolAssumption
    <2>3. total'[p] <= (IF p = Shared THEN MaxStacks ELSE 0)
        BY <1>1, <1>3, <2>1, <2>2
    <2>4. \A q \in Owners : total'[q] <= 0
        BY <1>0, <1>3, <2>3, PoolSums DEF LimitInv
    <2>5. total'[Shared] <= MaxStacks
        BY <1>0, <1>3, <2>3, PoolSums DEF LimitInv
    <2> QED
        BY <1>0, <1>1, <2>4, <2>5 DEF LimitInv
<1>9. DyingInv'
    BY <1>1, <1>3, DyingKept
<1> QED
    BY <1>2, <1>7, <1>8, <1>9 DEF PoolInv

(* The account is credited after a refusal. *)
LEMMA PoolUndo ==
    ASSUME PoolAssumption, PoolInv, ~Destroying, NEW w \in Owners, NEW p \in Pools, NEW from, NEW to,
           \/ from = "own_undo" /\ to = "shared"
           \/ from = "shared_undo" /\ to = "idle",
           Undo(w, p, from, to)
    PROVE  PoolInv'
<1>0. PoolTypeOK /\ AccountInv /\ LimitInv
    BY DEF PoolInv
<1>1. /\ at[w] = from /\ at' = [at EXCEPT ![w] = to]
      /\ total' = [total EXCEPT ![p] = total[p] - 1]
      /\ size' = size /\ used' = used /\ dying' = dying
    BY DEF Undo, Proceed, Uncharge
<1>2. PoolTypeOK'
    BY <1>0, <1>1 DEF PoolTypeOK
<1>3. /\ at'[w] = to /\ \A v \in Owners \ {w} : at'[v] = at[v]
      /\ total'[p] = total[p] + (-1) /\ \A q \in Pools \ {p} : total'[q] = total[q]
    BY <1>0, <1>1 DEF PoolTypeOK
<1>4. SumFunction(total') = SumFunction(total) + (-1)
    BY <1>0, <1>2, <1>3, TotalMoved
<1>5. SumFunction(size') = SumFunction(size)
    BY <1>1
<1>6. Charged' = Charged - 1 /\ InHand' = InHand + 0
    <2>1. from \in ChargedAt /\ from \notin InHandAt /\ to \notin ChargedAt /\ to \notin InHandAt
        BY DEF ChargedAt, InHandAt, Asking
    <2> QED
        BY <1>0, <1>1, <1>3, <2>1, CountsMoved, PoolSums
<1>7. AccountInv'
    BY <1>0, <1>1, <1>4, <1>5, <1>6, PoolSums DEF AccountInv, Alive
<1>8. LimitInv'
    <2>1. \A q \in Pools : total'[q] <= total[q] /\ total'[q] \in Int /\ total[q] \in Int
        BY <1>0, <1>3, PoolSums
    <2>2. MaxStacks \in Nat
        BY DEF PoolAssumption
    <2> QED
        BY <1>0, <1>1, <2>1, <2>2, PoolSums DEF LimitInv
<1>9. DyingInv'
    BY <1>1, <1>3, DyingKept
<1> QED
    BY <1>2, <1>7, <1>8, <1>9 DEF PoolInv

(* Steps that change no pool: the worker asks the next one, gives up, is   *)
(* refused, or gets its fiber; a fiber comes back and the pool is full.    *)
LEMMA PoolsKept ==
    ASSUME PoolAssumption, PoolInv, ~Destroying, NEW w \in Owners,
           AskShared(w) \/ NoFiber(w) \/ HeapRefuses(w) \/ HeapGives(w) \/ FreeToFull(w)
    PROVE  PoolInv'
<1>0. PoolTypeOK /\ AccountInv /\ LimitInv
    BY DEF PoolInv
<1>1. /\ size' = size /\ total' = total /\ dying' = dying
      /\ at' = [at EXCEPT ![w] = at'[w]]
      /\ \A v \in Owners \ {w} : at'[v] = at[v]
      /\ at[w] \in {"idle", "shared", "own_heap", "shared_heap"}
      /\ at'[w] \in {"idle", "shared", "own_undo", "shared_undo", "trim", "move"}
    BY <1>0 DEF AskShared, NoFiber, HeapRefuses, HeapGives, FreeToFull, Proceed, PoolTypeOK, Asking
<1>2. /\ used' \in Nat
      /\ used' + (IF at'[w] \in InHandAt THEN 1 ELSE 0) + (IF at'[w] \in ChargedAt THEN 1 ELSE 0)
           = used + (IF at[w] \in InHandAt THEN 1 ELSE 0) + (IF at[w] \in ChargedAt THEN 1 ELSE 0)
    BY <1>0 DEF AskShared, NoFiber, HeapRefuses, HeapGives, FreeToFull, Proceed, PoolTypeOK, Asking,
                ChargedAt, InHandAt
<1>3. PoolTypeOK'
    BY <1>0, <1>1, <1>2 DEF PoolTypeOK
<1>4. SumFunction(size') = SumFunction(size) /\ SumFunction(total') = SumFunction(total)
    BY <1>1
<1>5. AccountInv'
    BY <1>0, <1>1, <1>2, <1>4, CountsMoved, PoolSums DEF AccountInv, Alive
<1>6. LimitInv'
    BY <1>0, <1>1 DEF LimitInv
<1>7. DyingInv'
    BY <1>1, DyingKept
<1> QED
    BY <1>3, <1>5, <1>6, <1>7 DEF PoolInv

(* A fiber is put into a pool that has room. *)
LEMMA PoolFree ==
    ASSUME PoolAssumption, PoolInv, ~Destroying, NEW w \in Owners, Free(w)
    PROVE  PoolInv'
<1>0. PoolTypeOK /\ AccountInv /\ LimitInv
    BY DEF PoolInv
<1>1. /\ used > 0 /\ size[w] < max_size[w] /\ at' = at /\ at[w] = "idle"
      /\ size' = [size EXCEPT ![w] = size[w] + 1] /\ used' = used - 1
      /\ total' = total /\ dying' = dying
    BY DEF Free
<1>2. PoolTypeOK'
    BY <1>0, <1>1, PoolSums DEF PoolTypeOK
<1>3. /\ size'[w] = size[w] + 1 /\ \A q \in Pools \ {w} : size'[q] = size[q]
      /\ w \in Pools /\ \A v \in Owners \ {w} : at'[v] = at[v]
    BY <1>0, <1>1, PoolSums
<1>4. SumFunction(size') = SumFunction(size) + 1
    BY <1>0, <1>2, <1>3, SizeMoved
<1>5. SumFunction(total') = SumFunction(total) /\ Charged' = Charged /\ InHand' = InHand
    BY <1>1 DEF Charged, InHand
<1>6. AccountInv'
    BY <1>0, <1>1, <1>4, <1>5, PoolSums DEF AccountInv, Alive
<1>7. LimitInv'
    <2>1. \A q \in Pools : size'[q] <= max_size[q]
        BY <1>0, <1>1, <1>3, PoolSums DEF LimitInv
    <2> QED
        BY <1>0, <1>1, <2>1 DEF LimitInv
<1>8. DyingInv'
    BY <1>1, <1>3, DyingKept
<1> QED
    BY <1>2, <1>6, <1>7, <1>8 DEF PoolInv

(* Fibers and a debt move to the shared pool. *)
LEMMA FibersMoved ==
    ASSUME PoolAssumption, PoolTypeOK, LimitInv, NEW w \in Owners, NEW keep \in Nat,
           MoveToParent(w, keep)
    PROVE  /\ size' \in [Pools -> Nat] /\ total' \in [Pools -> Int] /\ LimitInv'
           /\ SumFunction(size') = SumFunction(size) /\ SumFunction(total') = SumFunction(total)
<1> DEFINE over == IF size[w] > keep THEN size[w] - keep ELSE 0
           moved == IF over < SharedSize - size[Shared] THEN over ELSE SharedSize - size[Shared]
           surplus == IF total[w] < 0 THEN total[w] ELSE 0
<1>1. /\ size' = [size EXCEPT ![w] = @ - moved, ![Shared] = @ + moved]
      /\ total' = [total EXCEPT ![w] = @ - surplus, ![Shared] = @ + surplus]
    BY DEF MoveToParent
<1>2. /\ size[w] \in Nat /\ size[Shared] \in Nat /\ total[w] \in Int /\ total[Shared] \in Int
      /\ w \in Pools /\ Shared \in Pools /\ w # Shared /\ IsFiniteSet(Pools)
    BY PoolSums DEF PoolTypeOK
<1>3. size[Shared] <= SharedSize /\ SharedSize \in Nat /\ MaxStacks \in Nat
    BY <1>2 DEF LimitInv, max_size, PoolAssumption
<1>4. PICK m : m = moved
    OBVIOUS
<1>5. m \in Nat /\ m <= size[w] /\ m <= SharedSize - size[Shared]
    BY <1>2, <1>3, <1>4
<1>6. PICK d : d = surplus
    OBVIOUS
<1>7. d \in Int /\ d <= 0 /\ (d = total[w] \/ d = 0)
    <2>1. CASE total[w] < 0
        BY <1>2, <1>6, <2>1
    <2>2. CASE ~(total[w] < 0)
        BY <1>2, <1>6, <2>2
    <2> QED
        BY <2>1, <2>2
<1>8. /\ size' = [size EXCEPT ![w] = size[w] - m, ![Shared] = size[Shared] + m]
      /\ total' = [total EXCEPT ![w] = total[w] - d, ![Shared] = total[Shared] + d]
    BY <1>1, <1>2, <1>4, <1>6
<1> HIDE DEF over, moved, surplus
<1>9. PICK f : f = size'
    OBVIOUS
<1>10. PICK g : g = total'
    OBVIOUS
<1>11. /\ f \in [Pools -> Nat] /\ f[w] = size[w] - m /\ f[Shared] = size[Shared] + m
       /\ \A p \in Pools \ {w, Shared} : f[p] = size[p]
    BY <1>2, <1>5, <1>8, <1>9 DEF PoolTypeOK
<1>12. /\ g \in [Pools -> Int] /\ g[w] = total[w] - d /\ g[Shared] = total[Shared] + d
       /\ \A p \in Pools \ {w, Shared} : g[p] = total[p]
    BY <1>2, <1>7, <1>8, <1>10 DEF PoolTypeOK
<1>13. SumFunction(f) = SumFunction(size)
    <2>1. PICK h : h = size
        OBVIOUS
    <2>2. f \in [Pools -> Int] /\ h \in [Pools -> Int] /\ SumFunction(h) \in Int
        BY <1>2, <1>11, <2>1, SumType DEF PoolTypeOK
    <2>3. SumFunction(f) = SumFunction(h) - h[w] - h[Shared] + f[w] + f[Shared]
        BY <1>2, <1>11, <2>1, <2>2, SumMoved
    <2> QED
        BY <1>2, <1>5, <1>11, <2>1, <2>2, <2>3
<1>14. SumFunction(g) = SumFunction(total)
    <2>1. PICK h : h = total
        OBVIOUS
    <2>2. h \in [Pools -> Int] /\ SumFunction(h) \in Int
        BY <1>2, <2>1, SumType DEF PoolTypeOK
    <2>3. SumFunction(g) = SumFunction(h) - h[w] - h[Shared] + g[w] + g[Shared]
        BY <1>2, <1>12, <2>1, <2>2, SumMoved
    <2> QED
        BY <1>2, <1>7, <1>12, <2>1, <2>2, <2>3
<1>15. LimitInv'
    <2>1. \A p \in Pools : f[p] <= max_size[p]
        <3>1. max_size[Shared] = SharedSize /\ max_size[w] \in Nat /\ size[w] <= max_size[w]
            BY <1>2, PoolSums DEF LimitInv, max_size
        <3>2. f[Shared] <= max_size[Shared] /\ f[w] <= max_size[w]
            BY <1>2, <1>3, <1>5, <1>11, <3>1
        <3> QED
            BY <1>11, <3>2 DEF LimitInv
    <2>2. g[w] <= 0
        BY <1>2, <1>7, <1>12 DEF LimitInv
    <2>3. g[Shared] <= MaxStacks
        BY <1>2, <1>3, <1>7, <1>12 DEF LimitInv
    <2>4. \A v \in Owners : g[v] <= 0
        BY <1>12, <2>2, PoolSums DEF LimitInv
    <2> QED
        BY <1>9, <1>10, <2>1, <2>3, <2>4 DEF LimitInv
<1> QED
    BY <1>9, <1>10, <1>11, <1>12, <1>13, <1>14, <1>15

(* Fibers beyond three quarters go to the shared pool.                     *)
LEMMA PoolMove ==
    ASSUME PoolAssumption, PoolInv, ~Destroying, NEW w \in Owners, Move(w)
    PROVE  PoolInv'
<1>0. PoolTypeOK /\ AccountInv /\ LimitInv
    BY DEF PoolInv
<1>1. /\ at[w] = "move" /\ at' = [at EXCEPT ![w] = "trim"] /\ used' = used /\ dying' = dying
      /\ MoveToParent(w, (PoolSize \div 2) + (PoolSize \div 4))
    BY DEF Move, Proceed
<1>2. (PoolSize \div 2) + (PoolSize \div 4) \in Nat
    BY DEF PoolAssumption
<1>3. /\ size' \in [Pools -> Nat] /\ total' \in [Pools -> Int] /\ LimitInv'
      /\ SumFunction(size') = SumFunction(size) /\ SumFunction(total') = SumFunction(total)
    BY <1>0, <1>1, <1>2, FibersMoved
<1>4. PoolTypeOK'
    BY <1>0, <1>1, <1>3 DEF PoolTypeOK
<1>5. at'[w] = "trim" /\ \A v \in Owners \ {w} : at'[v] = at[v]
    BY <1>0, <1>1 DEF PoolTypeOK
<1>6. Charged' = Charged /\ InHand' = InHand
    BY <1>0, <1>1, <1>5, CountsMoved, PoolSums DEF ChargedAt, InHandAt, Asking
<1>7. AccountInv'
    BY <1>0, <1>1, <1>3, <1>6, PoolSums DEF AccountInv, Alive
<1>8. DyingInv'
    BY <1>1, <1>5, DyingKept
<1> QED
    BY <1>3, <1>4, <1>7, <1>8 DEF PoolInv

(* Fibers leave a pool for good, and one may come back.                    *)
LEMMA FibersTrimmed ==
    ASSUME PoolAssumption, PoolTypeOK, LimitInv, NEW w \in Owners, NEW p \in Pools, NEW keep \in Nat,
           NEW back \in {0, 1}, keep + back <= max_size[p], TrimTo(w, p, keep, back)
    PROVE  \E freed \in Nat :
             /\ size' \in [Pools -> Nat] /\ total' \in [Pools -> Int] /\ LimitInv'
             /\ SumFunction(size') = SumFunction(size) - freed + back
             /\ SumFunction(total') = SumFunction(total) - freed
             /\ freed <= max_size[p] - keep
             /\ dying' = [dying EXCEPT ![w] = freed]
<1>1. PICK n : n = IF size[p] > keep THEN size[p] - keep ELSE 0
    OBVIOUS
<1>2. /\ size' = [size EXCEPT ![p] = size[p] - n + back]
      /\ total' = [total EXCEPT ![p] = total[p] - n]
      /\ dying' = [dying EXCEPT ![w] = n]
    BY <1>1 DEF TrimTo, Uncharge
<1>3. /\ size[p] \in Nat /\ total[p] \in Int /\ IsFiniteSet(Pools)
      /\ max_size[p] \in Nat /\ size[p] <= max_size[p]
    BY PoolSums DEF PoolTypeOK, LimitInv
<1>4. n \in Nat /\ n <= size[p] /\ size[p] - n <= keep /\ n <= max_size[p] - keep
    BY <1>1, <1>3
<1>5. PICK f : f = size'
    OBVIOUS
<1>6. PICK g : g = total'
    OBVIOUS
<1>7. /\ f \in [Pools -> Nat] /\ f[p] = size[p] - n + back
      /\ \A q \in Pools \ {p} : f[q] = size[q]
    BY <1>2, <1>3, <1>4, <1>5 DEF PoolTypeOK
<1>8. /\ g \in [Pools -> Int] /\ g[p] = total[p] - n
      /\ \A q \in Pools \ {p} : g[q] = total[q]
    BY <1>2, <1>3, <1>4, <1>6 DEF PoolTypeOK
<1>9. SumFunction(f) = SumFunction(size) - n + back
    <2>1. PICK h : h = size
        OBVIOUS
    <2>2. f \in [Pools -> Int] /\ h \in [Pools -> Int] /\ SumFunction(h) \in Int
        BY <1>3, <1>7, <2>1, SumType DEF PoolTypeOK
    <2>3. SumFunction(f) = SumFunction(h) - h[p] + f[p]
        BY <1>3, <1>7, <2>1, <2>2, SumChanged
    <2> QED
        BY <1>3, <1>4, <1>7, <2>1, <2>2, <2>3
<1>10. SumFunction(g) = SumFunction(total) - n
    <2>1. PICK h : h = total
        OBVIOUS
    <2>2. h \in [Pools -> Int] /\ SumFunction(h) \in Int
        BY <1>3, <2>1, SumType DEF PoolTypeOK
    <2>3. SumFunction(g) = SumFunction(h) - h[p] + g[p]
        BY <1>3, <1>8, <2>1, <2>2, SumChanged
    <2> QED
        BY <1>3, <1>4, <1>8, <2>1, <2>2, <2>3
<1>11. LimitInv'
    <2>1. f[p] <= max_size[p]
        BY <1>3, <1>4, <1>7
    <2>2. \A q \in Pools : f[q] <= max_size[q]
        BY <1>7, <2>1 DEF LimitInv
    <2>3. \A q \in Pools : g[q] <= total[q] /\ g[q] \in Int /\ total[q] \in Int
        BY <1>3, <1>4, <1>8, PoolSums
    <2>4. MaxStacks \in Nat
        BY DEF PoolAssumption
    <2>5. (\A v \in Owners : g[v] <= 0) /\ g[Shared] <= MaxStacks
        BY <2>3, <2>4, PoolSums DEF LimitInv
    <2> QED
        BY <1>5, <1>6, <2>2, <2>5 DEF LimitInv
<1> QED
    BY <1>2, <1>4, <1>5, <1>6, <1>7, <1>8, <1>9, <1>10, <1>11

(* One fiber of a pool that is still full leaves it for the heap.          *)
LEMMA PoolTrim ==
    ASSUME PoolAssumption, PoolInv, ~Destroying, NEW w \in Owners, Trim(w)
    PROVE  PoolInv'
<1>0. PoolTypeOK /\ AccountInv /\ LimitInv
    BY DEF PoolInv
<1>1. /\ at[w] = "trim" /\ at' = [at EXCEPT ![w] = "bury"] /\ used' = used
      /\ TrimTo(w, w, PoolSize - 1, 1)
    BY DEF Trim, Proceed
<1>2. w \in Pools /\ w # Shared /\ PoolSize \in Nat \ {0} /\ max_size[w] = PoolSize
    BY <1>0, PoolSums DEF PoolAssumption, max_size
<1>3. PoolSize - 1 \in Nat /\ PoolSize - 1 + 1 <= max_size[w]
    BY <1>2
<1>4. PICK freed \in Nat :
             /\ size' \in [Pools -> Nat] /\ total' \in [Pools -> Int] /\ LimitInv'
             /\ SumFunction(size') = SumFunction(size) - freed + 1
             /\ SumFunction(total') = SumFunction(total) - freed
             /\ freed <= max_size[w] - (PoolSize - 1)
             /\ dying' = [dying EXCEPT ![w] = freed]
    BY <1>0, <1>1, <1>2, <1>3, FibersTrimmed
<1>5. /\ at'[w] = "bury" /\ \A v \in Owners \ {w} : at'[v] = at[v]
      /\ dying'[w] = freed /\ \A v \in Owners \ {w} : dying'[v] = dying[v]
    BY <1>0, <1>1, <1>4 DEF PoolTypeOK
<1>6. PoolTypeOK'
    BY <1>0, <1>1, <1>4 DEF PoolTypeOK
<1>7. Charged' = Charged /\ InHand' = InHand - 1
    BY <1>0, <1>1, <1>5, CountsMoved, PoolSums DEF ChargedAt, InHandAt, Asking
<1>8. AccountInv'
    BY <1>0, <1>1, <1>4, <1>7, PoolSums DEF AccountInv, Alive
<1>9. DyingInv'
    <2>1. freed <= 1
        BY <1>2, <1>4
    <2>2. ~Destroying'
        BY <1>5 DEF Destroying
    <2>3. /\ \A v \in Owners : dying[v] # 0 => at[v] \in {"bury", "buried"}
          /\ \A v \in Owners : dying[v] <= 1
        BY DEF PoolInv, DyingInv
    <2> QED
        BY <1>5, <2>1, <2>2, <2>3 DEF DyingInv
<1> QED
    BY <1>4, <1>6, <1>8, <1>9 DEF PoolInv

(* Nobody has a fiber to kill, so that the sum of those is zero.           *)
LEMMA NobodyKills ==
    ASSUME PoolAssumption, PoolInv, \A w \in Owners : at[w] \notin {"bury", "buried"}
    PROVE  SumFunction(dying) = 0 /\ \A w \in Owners : dying[w] = 0
<1>1. \A w \in Owners : dying[w] = 0
    BY DEF PoolInv, DyingInv
<1>2. dying \in [Owners -> Int] /\ IsFiniteSet(Owners)
    BY PoolSums DEF PoolInv, PoolAssumption
<1> QED
    BY <1>1, <1>2, SumOfZeros

(* Never more are alive than may be. *)
LEMMA AliveBounded ==
    ASSUME PoolAssumption, PoolInv
    PROVE  Alive <= MaxStacks /\ Alive \in Nat
<1>1. PoolTypeOK /\ AccountInv /\ LimitInv
    BY DEF PoolInv
<1>2. PICK f : f = total
    OBVIOUS
<1>3. /\ f \in [Pools -> Int] /\ IsFiniteSet(Pools) /\ Shared \in Pools
      /\ \A p \in Pools \ {Shared} : f[p] <= 0
    BY <1>1, <1>2, PoolSums DEF LimitInv, Pools
<1>4. SumFunction(f) <= f[Shared] /\ f[Shared] \in Int
    BY <1>3, SumBelow
<1>5. SumFunction(total) <= MaxStacks /\ MaxStacks \in Nat
    BY <1>1, <1>2, <1>3, <1>4, PoolSums DEF LimitInv, PoolAssumption
<1> QED
    BY <1>1, <1>5, PoolSums DEF AccountInv, Alive

(* What a step that frees fibers for good, or ends that, does to the sum   *)
(* of those that die.                                                      *)
LEMMA DyingMoved ==
    ASSUME PoolAssumption, PoolTypeOK, NEW w \in Owners, NEW n \in Nat,
           dying' = [dying EXCEPT ![w] = n]
    PROVE  /\ dying' \in [Owners -> Nat] /\ dying'[w] = n
           /\ \A v \in Owners \ {w} : dying'[v] = dying[v]
           /\ SumFunction(dying') = SumFunction(dying) - dying[w] + n
<1>1. PICK f : f = dying
    OBVIOUS
<1>2. PICK g : g = dying'
    OBVIOUS
<1>3. /\ f \in [Owners -> Int] /\ g \in [Owners -> Nat] /\ g \in [Owners -> Int] /\ IsFiniteSet(Owners)
      /\ g[w] = n /\ \A v \in Owners \ {w} : g[v] = f[v]
    BY <1>1, <1>2 DEF PoolTypeOK, PoolAssumption
<1>4. SumFunction(g) = SumFunction(f) - f[w] + g[w]
    BY <1>3, SumChanged
<1> QED
    BY <1>1, <1>2, <1>3, <1>4

(* What left the pools is freed.                                           *)
LEMMA PoolBury ==
    ASSUME PoolAssumption, PoolInv, NEW w \in Owners, Bury(w) \/ DestroyBury(w)
    PROVE  PoolInv'
<1>0. PoolTypeOK /\ AccountInv /\ LimitInv
    BY DEF PoolInv
<1>1. /\ at' = [at EXCEPT ![w] = at'[w]] /\ dying' = [dying EXCEPT ![w] = 0]
      /\ size' = size /\ total' = total /\ used' = used
      /\ \/ at[w] = "bury" /\ at'[w] = "idle"
         \/ at[w] = "buried" /\ at'[w] = "gone"
    BY <1>0 DEF Bury, DestroyBury, Proceed, PoolTypeOK
<1>2. \A v \in Owners \ {w} : at'[v] = at[v]
    BY <1>0, <1>1 DEF PoolTypeOK
<1>3. /\ dying' \in [Owners -> Nat] /\ dying'[w] = 0
      /\ \A v \in Owners \ {w} : dying'[v] = dying[v]
      /\ SumFunction(dying') = SumFunction(dying) - dying[w] + 0
    BY <1>0, <1>1, DyingMoved
<1>4. PoolTypeOK'
    BY <1>0, <1>1, <1>3 DEF PoolTypeOK
<1>5. Charged' = Charged /\ InHand' = InHand
    BY <1>0, <1>1, <1>2, CountsMoved, PoolSums DEF ChargedAt, InHandAt, Asking
<1>6. SumFunction(size') = SumFunction(size) /\ SumFunction(total') = SumFunction(total)
    BY <1>1
<1>7. AccountInv' /\ Alive' = Alive
    BY <1>0, <1>1, <1>5, <1>6, PoolSums DEF AccountInv, Alive
<1>8. LimitInv'
    BY <1>0, <1>1 DEF LimitInv
<1>9. Destroying' <=> Destroying
    BY <1>1, <1>2 DEF Destroying
<1>10. DyingInv'
    <2>1. \A v \in Owners : dying'[v] # 0 => at'[v] \in {"bury", "buried"}
        BY <1>2, <1>3 DEF PoolInv, DyingInv
    <2>2. ~Destroying => \A v \in Owners : dying'[v] <= 1
        BY <1>3 DEF PoolInv, DyingInv
    <2>3. Destroying => Alive + SumFunction(dying') <= MaxStacks
        <3>1. SumFunction(dying) \in Nat /\ dying[w] \in Nat /\ MaxStacks \in Nat /\ Alive \in Nat
            BY <1>0, AliveBounded, PoolSums DEF PoolTypeOK, PoolAssumption
        <3> QED
            BY <1>3, <3>1 DEF PoolInv, DyingInv
    <2> QED
        BY <1>7, <1>9, <2>1, <2>2, <2>3 DEF DyingInv
<1> QED
    BY <1>4, <1>7, <1>8, <1>10 DEF PoolInv

(* At the end a pool gives the shared one what that has room for.          *)
LEMMA PoolDestroyMove ==
    ASSUME PoolAssumption, PoolInv, NEW w \in Owners, DestroyMove(w)
    PROVE  PoolInv'
<1>0. PoolTypeOK /\ AccountInv /\ LimitInv
    BY DEF PoolInv
<1>1. /\ Idle /\ at[w] = "idle" /\ at' = [at EXCEPT ![w] = "destroy"]
      /\ used' = used /\ dying' = dying
      /\ (size' = size /\ total' = total) \/ MoveToParent(w, 0)
    BY DEF DestroyMove
<1>2. /\ size' \in [Pools -> Nat] /\ total' \in [Pools -> Int] /\ LimitInv'
      /\ SumFunction(size') = SumFunction(size) /\ SumFunction(total') = SumFunction(total)
    <2>1. CASE size' = size /\ total' = total
        BY <1>0, <2>1 DEF PoolTypeOK, LimitInv
    <2>2. CASE MoveToParent(w, 0)
        BY <1>0, <2>2, FibersMoved
    <2> QED
        BY <1>1, <2>1, <2>2
<1>3. PoolTypeOK'
    BY <1>0, <1>1, <1>2 DEF PoolTypeOK
<1>4. at'[w] = "destroy" /\ \A v \in Owners \ {w} : at'[v] = at[v]
    BY <1>0, <1>1 DEF PoolTypeOK
<1>5. Charged' = Charged /\ InHand' = InHand
    BY <1>0, <1>1, <1>4, CountsMoved, PoolSums DEF ChargedAt, InHandAt, Asking
<1>6. AccountInv' /\ Alive' = Alive
    BY <1>0, <1>1, <1>2, <1>5, PoolSums DEF AccountInv, Alive
<1>7. SumFunction(dying) = 0 /\ \A v \in Owners : dying[v] = 0
    BY <1>1, NobodyKills DEF Idle
<1>8. DyingInv'
    <2>1. Alive + 0 <= MaxStacks
        BY AliveBounded
    <2> QED
        BY <1>1, <1>6, <1>7, <2>1 DEF DyingInv
<1> QED
    BY <1>2, <1>3, <1>6, <1>8 DEF PoolInv

(* A pool gives up its fibers. *)
LEMMA PoolDestroyTrim ==
    ASSUME PoolAssumption, PoolInv, NEW w \in Owners, DestroyTrim(w) \/ DestroyShared(w)
    PROVE  PoolInv'
<1>0. PoolTypeOK /\ AccountInv /\ LimitInv
    BY DEF PoolInv
<1>1. PICK p \in Pools : TrimTo(w, p, 0, 0)
    BY <1>0, PoolSums DEF DestroyTrim, DestroyShared
<1>2. at[w] \in {"destroy", "gone"} /\ at' = [at EXCEPT ![w] = "buried"] /\ used' = used
    BY DEF DestroyTrim, DestroyShared, Proceed
<1>3. max_size[p] \in Nat
    BY <1>0, PoolSums
<1>4. PICK freed \in Nat :
             /\ size' \in [Pools -> Nat] /\ total' \in [Pools -> Int] /\ LimitInv'
             /\ SumFunction(size') = SumFunction(size) - freed + 0
             /\ SumFunction(total') = SumFunction(total) - freed
             /\ dying' = [dying EXCEPT ![w] = freed]
    BY <1>0, <1>1, <1>3, FibersTrimmed
<1>5. at'[w] = "buried" /\ \A v \in Owners \ {w} : at'[v] = at[v]
    BY <1>0, <1>2 DEF PoolTypeOK
<1>6. /\ dying' \in [Owners -> Nat] /\ dying'[w] = freed
      /\ \A v \in Owners \ {w} : dying'[v] = dying[v]
      /\ SumFunction(dying') = SumFunction(dying) - dying[w] + freed
    BY <1>0, <1>4, DyingMoved
<1>7. PoolTypeOK'
    BY <1>0, <1>2, <1>4, <1>6 DEF PoolTypeOK
<1>8. Charged' = Charged /\ InHand' = InHand
    BY <1>0, <1>2, <1>5, CountsMoved, PoolSums DEF ChargedAt, InHandAt, Asking
<1>9. AccountInv' /\ Alive' = Alive - freed
    BY <1>0, <1>2, <1>4, <1>8, PoolSums DEF AccountInv, Alive
<1>10. DyingInv'
    <2>1. Destroying /\ Destroying'
        BY <1>2, <1>5 DEF Destroying
    <2>2. dying[w] = 0
        BY <1>2 DEF PoolInv, DyingInv
    <2>3. SumFunction(dying) \in Nat /\ MaxStacks \in Nat /\ Alive \in Nat
        BY <1>0, AliveBounded, PoolSums DEF PoolAssumption
    <2>4. Alive' + SumFunction(dying') <= MaxStacks
        BY <1>6, <1>9, <2>1, <2>2, <2>3 DEF PoolInv, DyingInv
    <2>5. \A v \in Owners : dying'[v] # 0 => at'[v] \in {"bury", "buried"}
        BY <1>5, <1>6 DEF PoolInv, DyingInv
    <2> QED
        BY <2>1, <2>4, <2>5 DEF DyingInv
<1> QED
    BY <1>4, <1>7, <1>9, <1>10 DEF PoolInv

(* At first there are no fibers.                                           *)
LEMMA PoolInitial ==
    ASSUME PoolAssumption, PoolInit
    PROVE  PoolInv
<1>1. PoolTypeOK
    BY DEF PoolInit, PoolTypeOK
<1>2. SumFunction(size) = 0 /\ SumFunction(total) = 0
    <2>1. PICK f : f = size
        OBVIOUS
    <2>2. f \in [Pools -> Int] /\ (\A p \in Pools : f[p] = 0) /\ IsFiniteSet(Pools) /\ total = f
        BY <1>1, <2>1, PoolSums DEF PoolInit
    <2>3. SumFunction(f) = 0
        BY <2>2, SumOfZeros
    <2> QED
        BY <2>1, <2>2, <2>3
<1>3. Charged = 0 /\ InHand = 0
    <2>1. {w \in Owners : at[w] \in Asking \cup {"own_undo", "shared_undo"}} = {}
        BY DEF PoolInit, Asking
    <2>2. {w \in Owners : at[w] \in {"move", "trim"}} = {}
        BY DEF PoolInit
    <2> QED
        BY <2>1, <2>2, FS_EmptySet DEF Charged, InHand
<1>4. AccountInv
    BY <1>2, <1>3 DEF AccountInv, Alive, PoolInit
<1>5. LimitInv
    BY <1>1, PoolSums DEF LimitInv, PoolInit, PoolAssumption
<1>6. DyingInv
    BY DEF DyingInv, PoolInit, Destroying
<1> QED
    BY <1>1, <1>4, <1>5, <1>6 DEF PoolInv

(* Every step on the pools preserves the invariant.                        *)
LEMMA PoolStep ==
    ASSUME PoolAssumption, PoolInv, [PoolNext]_pool_vars
    PROVE  PoolInv'
<1>1. CASE UNCHANGED pool_vars
    BY <1>1 DEF PoolInv, PoolTypeOK, AccountInv, LimitInv, DyingInv, Alive, InHand, Charged,
                Destroying, pool_vars
<1>2. ASSUME NEW w \in Owners, ~Destroying, Allocate(w) PROVE PoolInv'
    <2>1. w \in Pools /\ Shared \in Pools
        BY PoolSums DEF PoolInv
    <2> QED
        BY <1>2, <2>1, PoolPop, PoolCharge, PoolUndo, PoolsKept DEF Allocate
<1>3. ASSUME NEW w \in Owners, ~Destroying, Deallocate(w) PROVE PoolInv'
    BY <1>3, PoolFree, PoolsKept, PoolMove, PoolTrim, PoolBury DEF Deallocate
<1>4. ASSUME NEW w \in Owners,
             DestroyMove(w) \/ DestroyTrim(w) \/ DestroyBury(w) \/ DestroyShared(w)
      PROVE  PoolInv'
    BY <1>4, PoolDestroyMove, PoolDestroyTrim, PoolBury
<1> QED
    BY <1>1, <1>2, <1>3, <1>4 DEF PoolNext

(* What the invariant says of the fibers.                                  *)
LEMMA PoolInvImplies ==
    ASSUME PoolAssumption, PoolInv
    PROVE  FibersCounted
<1>1. PoolTypeOK /\ AccountInv /\ LimitInv /\ DyingInv
    BY DEF PoolInv
<1>2. \A p \in Pools : size[p] \in 0..max_size[p]
    BY <1>1, PoolSums DEF LimitInv, PoolTypeOK
<1>3. Alive + SumFunction(dying) <= MaxStacks + Cardinality(Owners)
    <2>1. Cardinality(Owners) \in Nat /\ MaxStacks \in Nat
        BY FS_CardinalityType DEF PoolAssumption
    <2>2. SumFunction(dying) \in Nat /\ Alive \in Nat /\ Alive <= MaxStacks
        BY <1>1, PoolSums, AliveBounded
    <2>3. CASE Destroying
        BY <1>1, <2>1, <2>2, <2>3 DEF DyingInv
    <2>4. CASE ~Destroying
        <3>1. dying \in [Owners -> Int] /\ IsFiniteSet(Owners) /\ \A w \in Owners : dying[w] <= 1
            BY <1>1, <2>4, PoolSums DEF DyingInv, PoolAssumption
        <3>2. SumFunction(dying) <= Cardinality(Owners)
            BY <3>1, SumAtMostOneEach
        <3> QED
            BY <2>1, <2>2, <3>2
    <2> QED
        BY <2>3, <2>4
<1> QED
    BY <1>1, <1>2, <1>3, AliveBounded DEF FibersCounted, AccountInv

(* FibersCounted (cilk_fiber.cpp): the accounts of the pools add up to the *)
(* fibers alive and asked for, whichever worker frees what another         *)
(* allocated and however often the heap refuses; no more than the limit    *)
(* are alive, and no pool holds more than it has room for.                 *)
THEOREM PoolsAddUp ==
    ASSUME PoolAssumption
    PROVE  PoolSpec => []FibersCounted
<1>1. PoolInit => PoolInv
    BY PoolInitial
<1>2. PoolInv /\ [PoolNext]_pool_vars => PoolInv'
    BY PoolStep
<1>3. PoolInv => FibersCounted
    BY PoolInvImplies
<1> QED
    BY <1>1, <1>2, <1>3, PTL DEF PoolSpec

-----------------------------------------------------------------------------
(* FrameMalloc *)

(* A product grows by its factor. *)
LEMMA TimesMore ==
    ASSUME NEW s \in Int, NEW a \in Int, NEW b \in Int
    PROVE  s * (a + b) = s * a + s * b /\ s * a \in Int /\ s * b \in Int /\ s * a = a * s
OBVIOUS

(* Division rounds down.                                                   *)
LEMMA QuotientIsNatural ==
    ASSUME NEW a \in Nat, NEW b \in Nat \ {0}
    PROVE  a \div b \in Nat /\ (a \div b) * b <= a /\ (a >= b => a \div b >= 1)
OBVIOUS

(* The factor of a smaller product is smaller.                             *)
LEMMA SmallerFactor ==
    ASSUME NEW a \in Int, NEW b \in Int, NEW s \in Nat \ {0}, a * s < b * s
    PROVE  a < b
OBVIOUS

(* A block has at least one byte and fits into a chunk.                    *)
LEMMA SizesArePositive ==
    ASSUME MallocAssumption, NEW s \in BucketSizes
    PROVE  s \in Nat \ {0} /\ s \in Int /\ s <= Chunk /\ Chunk \in Nat
BY DEF MallocAssumption

(* A batch has at least one block and stays below the limit.               *)
LEMMA BatchIsPositive ==
    ASSUME MallocAssumption, NEW s \in BucketSizes
    PROVE  Batch(s) \in Nat \ {0} /\ Batch(s) * s <= PotentialLimit /\ PotentialLimit \in Nat
<1>1. s \in Nat \ {0} /\ BatchSize \in Nat \ {0}
    BY DEF MallocAssumption
<1>2. BatchSize + s - 1 \in Nat /\ BatchSize + s - 1 >= s
    BY <1>1
<1>3. Batch(s) \in Nat /\ Batch(s) >= 1
    BY <1>1, <1>2, QuotientIsNatural DEF Batch, Up
<1> QED
    BY <1>3 DEF MallocAssumption

CutState == [room : 0..Chunk, new : Nat, lost : Nat]

(* Cutting one block: what was left and what is new is what is left now,   *)
(* what is lost, and the block.                                            *)
LEMMA CutAdds ==
    ASSUME MallocAssumption, NEW s \in BucketSizes, NEW x \in CutState
    PROVE  /\ Cut(s, x) \in CutState
           /\ Cut(s, x).new + x.room + x.lost = Cut(s, x).room + Cut(s, x).lost + x.new + s
<1>1. s \in Nat \ {0} /\ s <= Chunk /\ Chunk \in Nat
    BY SizesArePositive
<1>2. x.room \in 0..Chunk /\ x.new \in Nat /\ x.lost \in Nat
    BY DEF CutState
<1>3. CASE s <= x.room
    BY <1>1, <1>2, <1>3 DEF Cut, Carve, CutState
<1>4. CASE ~(s <= x.room)
    BY <1>1, <1>2, <1>4 DEF Cut, Carve, CutState
<1> QED
    BY <1>3, <1>4

(* Nothing is cut yet; the blocks are cut one after the other.             *)
Uncut(r) == [room |-> r, new |-> 0, lost |-> 0]
IsCarving(r, s, k, f) == f = [i \in 0..k |-> IF i = 0 THEN Uncut(r) ELSE Cut(s, f[i - 1])]

(* The function that Carved is defined by exists.                          *)
LEMMA CarvingExists ==
    ASSUME NEW r, NEW s, NEW k \in Nat
    PROVE  \E f : IsCarving(r, s, k, f)
<1> DEFINE Bad == {n \in Nat : ~\E f : IsCarving(r, s, n, f)}
<1> SUFFICES ASSUME Bad # {} PROVE FALSE
    OBVIOUS
<1>1. PICK n \in Bad : \A m \in Bad : n <= m
    BY LeastNumber
<1>2. CASE n = 0
    <2>1. PICK f : f = [i \in 0..0 |-> Uncut(r)]
        OBVIOUS
    <2>2. IsCarving(r, s, 0, f)
        BY <2>1 DEF IsCarving
    <2> QED
        BY <1>2, <2>2
<1>3. CASE n # 0
    <2>1. n \in Nat
        OBVIOUS
    <2>2. n - 1 \in Nat /\ n - 1 \notin Bad
        <3> HIDE DEF Bad
        <3> QED
            BY <1>1, <1>3, <2>1
    <2>3. PICK h : IsCarving(r, s, n - 1, h)
        BY <2>2
    <2>4. PICK f : f = [i \in 0..n |-> IF i = 0 THEN Uncut(r) ELSE Cut(s, h[i - 1])]
        OBVIOUS
    <2>5. ASSUME NEW i \in 0..n PROVE f[i] = IF i = 0 THEN Uncut(r) ELSE Cut(s, f[i - 1])
        <3>1. CASE i = 0
            BY <2>4, <3>1
        <3>2. CASE i # 0
            <4>1. i - 1 \in 0..n /\ i - 1 \in 0..(n - 1) /\ f[i] = Cut(s, h[i - 1])
                BY <2>1, <2>4, <3>2
            <4>2. h[i - 1] = IF i - 1 = 0 THEN Uncut(r) ELSE Cut(s, h[(i - 1) - 1])
                BY <2>3, <4>1 DEF IsCarving
            <4>3. f[i - 1] = IF i - 1 = 0 THEN Uncut(r) ELSE Cut(s, h[(i - 1) - 1])
                BY <2>4, <4>1
            <4> QED
                BY <3>2, <4>1, <4>2, <4>3
        <3> QED
            BY <3>1, <3>2
    <2>6. IsCarving(r, s, n, f)
        BY <2>4, <2>5 DEF IsCarving
    <2> QED
        BY <2>6
<1> QED
    BY <1>2, <1>3

(* k blocks: nothing is lost of what was left and what is new, except what *)
(* is accounted as lost.                                                   *)
LEMMA CarvedAdds ==
    ASSUME MallocAssumption, NEW s \in BucketSizes, NEW r \in 0..Chunk, NEW k \in Nat
    PROVE  /\ Carved(r, s, k) \in CutState
           /\ r + Carved(r, s, k).new = Carved(r, s, k).room + Carved(r, s, k).lost + s * k
<1>1. PICK f : IsCarving(r, s, k, f) /\ Carved(r, s, k) = f[k]
    <2>1. PICK g : g = CHOOSE f : IsCarving(r, s, k, f)
        OBVIOUS
    <2>2. IsCarving(r, s, k, g)
        BY <2>1, CarvingExists
    <2>3. Carved(r, s, k) = g[k]
        BY <2>1, Zenon DEF Carved, IsCarving, Uncut
    <2> QED
        BY <2>2, <2>3
<1>2. /\ f[0] = Uncut(r)
      /\ \A i \in 0..k : i # 0 => f[i] = Cut(s, f[i - 1])
    BY <1>1 DEF IsCarving
<1> DEFINE Adds(i) == f[i] \in CutState /\ r + f[i].new = f[i].room + f[i].lost + s * i
           Bad == {i \in 0..k : ~Adds(i)}
<1>3. s \in Int /\ Chunk \in Nat
    BY SizesArePositive
<1>4. Adds(0)
    <2>1. Uncut(r) \in CutState
        BY <1>3 DEF Uncut, CutState
    <2> QED
        BY <1>2, <1>3, <2>1 DEF Uncut
<1>5. ASSUME NEW i \in 0..k, i # 0, Adds(i - 1) PROVE Adds(i)
    <2>1. PICK x : x = f[i - 1]
        OBVIOUS
    <2>2. PICK y : y = f[i]
        OBVIOUS
    <2>3. x \in CutState /\ r + x.new = x.room + x.lost + s * (i - 1) /\ y = Cut(s, x)
        BY <1>2, <1>5, <2>1, <2>2
    <2>4. y \in CutState /\ y.new + x.room + x.lost = y.room + y.lost + x.new + s
        BY <2>3, CutAdds
    <2>5. /\ x.room \in Int /\ x.new \in Int /\ x.lost \in Int
          /\ y.room \in Int /\ y.new \in Int /\ y.lost \in Int
        BY <1>3, <2>3, <2>4 DEF CutState
    <2>6. PICK p \in Int : p = s * (i - 1) /\ p + s = s * i
        <3>1. s * i = s * (i - 1) + s /\ s * (i - 1) \in Int
            BY <1>3
        <3> QED
            BY <3>1
    <2>7. r + y.new = y.room + y.lost + (p + s)
        <3>1. r \in Int /\ r + x.new = x.room + x.lost + p
            BY <1>3, <2>3, <2>6
        <3>2. y.new + x.room + x.lost = y.room + y.lost + x.new + s
            BY <2>4
        <3> QED
            BY <1>3, <2>5, <3>1, <3>2
    <2>8. r + y.new = y.room + y.lost + s * i
        BY <2>6, <2>7
    <2> QED
        BY <2>2, <2>4, <2>8
<1> HIDE DEF Adds
<1>6. Bad = {}
    <2> SUFFICES ASSUME Bad # {} PROVE FALSE
        OBVIOUS
    <2>1. Bad \in SUBSET Nat
        OBVIOUS
    <2>2. PICK i \in Bad : \A j \in Bad : i <= j
        BY <2>1, LeastNumber
    <2>3. i \in 0..k /\ ~Adds(i)
        OBVIOUS
    <2>4. i # 0
        BY <1>4, <2>3
    <2>5. i - 1 \in 0..k /\ ~(i <= i - 1)
        BY <2>3, <2>4
    <2>6. Adds(i - 1)
        BY <2>2, <2>5
    <2> QED
        BY <1>5, <2>3, <2>4, <2>6
<1>7. Adds(k)
    BY <1>6
<1> QED
    BY <1>1, <1>7 DEF Adds

-----------------------------------------------------------------------------

(* The potential of a list is that of m blocks.  Up to the limit the list  *)
(* is no longer than m and the block the walk stopped at; beyond it the    *)
(* blocks come from the last batch.                                        *)
Blocks(w, s, m) ==
    /\ bucket_potential[w][s] = m * s
    /\ m * s <= PotentialLimit => free_list[w][s] <= m + 1
    /\ m * s > PotentialLimit => free_list[w][s] <= Batch(s) - 1

(* There is such a number of blocks for each list.                         *)
PotentialInv == \A w \in Allocators, s \in BucketSizes : \E m \in Nat : Blocks(w, s, m)

(* The counters of the allocator add up.                                   *)
BalanceInv ==
    /\ allocated_from_global_pool = Bytes(in_use) + OwnBytes
    /\ allocated_from_os =
         allocated_from_global_pool + Bytes(global_free_list) + room + wasted

(* Once workers are cleaned up nothing is in use, and they keep nothing.   *)
DoneInv ==
    /\ done # {} => \A s \in BucketSizes : in_use[s] = 0
    /\ \A w \in done : \A s \in BucketSizes : free_list[w][s] = 0

MallocInv == MallocTypeOK /\ PotentialInv /\ BalanceInv /\ DoneInv

(* Bytes are a natural number.                                             *)
LEMMA BytesType ==
    ASSUME MallocAssumption, NEW f \in [BucketSizes -> Nat]
    PROVE  Bytes(f) \in Nat
<1>1. PICK g : g = [s \in BucketSizes |-> s * f[s]]
    OBVIOUS
<1>2. g \in [BucketSizes -> Nat]
    <2>1. ASSUME NEW s \in BucketSizes PROVE s * f[s] \in Nat
        <3>1. s \in Nat /\ f[s] \in Nat
            BY SizesArePositive
        <3> QED
            BY <3>1
    <2> QED
        BY <1>1, <2>1
<1>3. SumFunction(g) \in Nat
    BY <1>2, SumOfNaturals DEF MallocAssumption
<1> QED
    BY <1>1, <1>3 DEF Bytes

(* The number of blocks of one size changes. *)
LEMMA BytesChanged ==
    ASSUME MallocAssumption, NEW f \in [BucketSizes -> Nat], NEW g \in [BucketSizes -> Nat],
           NEW s \in BucketSizes, NEW v \in Int, g[s] = f[s] + v, \A z \in BucketSizes \ {s} : g[z] = f[z]
    PROVE  Bytes(g) = Bytes(f) + s * v
<1>1. PICK F : F = [z \in BucketSizes |-> z * f[z]]
    OBVIOUS
<1>2. PICK G : G = [z \in BucketSizes |-> z * g[z]]
    OBVIOUS
<1>3. F \in [BucketSizes -> Int] /\ G \in [BucketSizes -> Int]
    <2>1. ASSUME NEW z \in BucketSizes PROVE z * f[z] \in Int /\ z * g[z] \in Int
        <3>1. z \in Int /\ f[z] \in Int /\ g[z] \in Int
            BY SizesArePositive
        <3> QED
            BY <3>1
    <2> QED
        BY <1>1, <1>2, <2>1
<1>4. G[s] = F[s] + s * v /\ s * v \in Int
    <2>1. s \in Int /\ f[s] \in Int /\ F[s] = s * f[s] /\ G[s] = s * (f[s] + v)
        BY <1>1, <1>2, SizesArePositive
    <2>2. s * (f[s] + v) = s * f[s] + s * v /\ s * v \in Int
        BY <2>1, TimesMore
    <2> QED
        BY <2>1, <2>2
<1>5. \A z \in BucketSizes \ {s} : G[z] = F[z]
    BY <1>1, <1>2
<1>6. SumFunction(G) = SumFunction(F) - F[s] + G[s]
    <2>1. IsFiniteSet(BucketSizes)
        BY DEF MallocAssumption
    <2> QED
        BY <1>3, <1>5, <2>1, SumChanged
<1>7. SumFunction(F) \in Int /\ F[s] \in Int
    BY <1>3, SumType DEF MallocAssumption
<1>8. PICK p \in Int : p = s * v
    BY <1>4
<1>9. SumFunction(G) = SumFunction(F) + p
    BY <1>4, <1>6, <1>7, <1>8
<1> QED
    BY <1>1, <1>2, <1>8, <1>9 DEF Bytes

(* Empty lists have no bytes.                                              *)
LEMMA NoBytes ==
    ASSUME MallocAssumption, NEW f \in [BucketSizes -> Nat], \A s \in BucketSizes : f[s] = 0
    PROVE  Bytes(f) = 0
<1>1. PICK g : g = [s \in BucketSizes |-> s * f[s]]
    OBVIOUS
<1>2. \A s \in BucketSizes : g[s] = 0
    <2>1. ASSUME NEW s \in BucketSizes PROVE g[s] = 0
        <3>1. s \in Int /\ g[s] = s * 0
            BY <1>1, SizesArePositive
        <3> QED
            BY <3>1
    <2> QED
        BY <2>1
<1>3. g \in [BucketSizes -> Int]
    BY <1>1, <1>2
<1>4. SumFunction(g) = 0
    BY <1>2, <1>3, SumOfZeros DEF MallocAssumption
<1> QED
    BY <1>1, <1>4 DEF Bytes

(* Two lists of blocks are joined. *)
LEMMA BytesJoined ==
    ASSUME MallocAssumption, NEW f \in [BucketSizes -> Nat], NEW g \in [BucketSizes -> Nat],
           NEW h \in [BucketSizes -> Nat], \A s \in BucketSizes : h[s] = f[s] + g[s]
    PROVE  Bytes(h) = Bytes(f) + Bytes(g)
<1>1. PICK F : F = [z \in BucketSizes |-> z * f[z]]
    OBVIOUS
<1>2. PICK G : G = [z \in BucketSizes |-> z * g[z]]
    OBVIOUS
<1>3. PICK H : H = [z \in BucketSizes |-> z * h[z]]
    OBVIOUS
<1>4. ASSUME NEW z \in BucketSizes
      PROVE  F[z] \in Int /\ G[z] \in Int /\ H[z] \in Int /\ H[z] = F[z] + G[z]
    <2>1. /\ z \in Int /\ f[z] \in Int /\ g[z] \in Int
          /\ F[z] = z * f[z] /\ G[z] = z * g[z] /\ H[z] = z * (f[z] + g[z])
        BY <1>1, <1>2, <1>3, SizesArePositive
    <2>2. z * (f[z] + g[z]) = z * f[z] + z * g[z] /\ z * f[z] \in Int /\ z * g[z] \in Int
        BY <2>1, TimesMore
    <2> QED
        BY <2>1, <2>2
<1>5. F \in [BucketSizes -> Int] /\ G \in [BucketSizes -> Int] /\ H \in [BucketSizes -> Int]
    BY <1>1, <1>2, <1>3, <1>4
<1>6. IsFiniteSet(BucketSizes)
    BY DEF MallocAssumption
<1>7. SumFunction(H) = SumFunction(F) + SumFunction(G)
    BY <1>4, <1>5, <1>6, SumOfBoth
<1> QED
    BY <1>1, <1>2, <1>3, <1>7 DEF Bytes

(* So are those of the workers' lists, together and each for itself.       *)
LEMMA OwnBytesType ==
    ASSUME MallocAssumption, MallocTypeOK
    PROVE  OwnBytes \in Nat /\ \A w \in Allocators : Bytes(free_list[w]) \in Nat
<1>1. PICK f : f = [w \in Allocators |-> Bytes(free_list[w])]
    OBVIOUS
<1>2. \A w \in Allocators : free_list[w] \in [BucketSizes -> Nat]
    BY DEF MallocTypeOK
<1>3. \A w \in Allocators : Bytes(free_list[w]) \in Nat
    BY <1>2, BytesType
<1>4. f \in [Allocators -> Nat]
    BY <1>1, <1>3
<1>5. SumFunction(f) \in Nat
    BY <1>4, SumOfNaturals DEF MallocAssumption
<1> QED
    BY <1>1, <1>3, <1>5 DEF OwnBytes

(* Workers whose lists are empty keep nothing.                             *)
LEMMA NothingKept ==
    ASSUME MallocAssumption, MallocTypeOK,
           \A w \in Allocators : \A s \in BucketSizes : free_list[w][s] = 0
    PROVE  OwnBytes = 0
<1>1. PICK f : f = [w \in Allocators |-> Bytes(free_list[w])]
    OBVIOUS
<1>2. \A w \in Allocators : Bytes(free_list[w]) = 0
    BY NoBytes DEF MallocTypeOK
<1>3. f \in [Allocators -> Int] /\ \A w \in Allocators : f[w] = 0
    BY <1>1, <1>2
<1>4. SumFunction(f) = 0
    BY <1>3, SumOfZeros DEF MallocAssumption
<1> QED
    BY <1>1, <1>4 DEF OwnBytes

(* One worker's lists change. *)
LEMMA OwnBytesChanged ==
    ASSUME MallocAssumption, MallocTypeOK, NEW w \in Allocators,
           free_list' \in [Allocators -> [BucketSizes -> Nat]],
           \A v \in Allocators \ {w} : free_list'[v] = free_list[v]
    PROVE  /\ OwnBytes' = OwnBytes - Bytes(free_list[w]) + Bytes(free_list'[w])
           /\ OwnBytes' \in Nat /\ Bytes(free_list'[w]) \in Nat
<1>1. PICK a : a = free_list
    OBVIOUS
<1>2. PICK b : b = free_list'
    OBVIOUS
<1>3. PICK f : f = [v \in Allocators |-> Bytes(a[v])]
    OBVIOUS
<1>4. PICK g : g = [v \in Allocators |-> Bytes(b[v])]
    OBVIOUS
<1>5. \A v \in Allocators : a[v] \in [BucketSizes -> Nat] /\ b[v] \in [BucketSizes -> Nat]
    BY <1>1, <1>2 DEF MallocTypeOK
<1>6. \A v \in Allocators : Bytes(a[v]) \in Nat /\ Bytes(b[v]) \in Nat
    BY <1>5, BytesType
<1>7. f \in [Allocators -> Nat] /\ g \in [Allocators -> Nat] /\ f \in [Allocators -> Int] /\ g \in [Allocators -> Int]
    BY <1>3, <1>4, <1>6
<1>8. \A v \in Allocators \ {w} : g[v] = f[v]
    BY <1>1, <1>2, <1>3, <1>4
<1>9. SumFunction(g) = SumFunction(f) - f[w] + g[w]
    BY <1>7, <1>8, SumChanged DEF MallocAssumption
<1>10. SumFunction(g) \in Nat
    BY <1>7, SumOfNaturals DEF MallocAssumption
<1>11. OwnBytes = SumFunction(f) /\ OwnBytes' = SumFunction(g)
    BY <1>1, <1>2, <1>3, <1>4 DEF OwnBytes
<1>12. f[w] = Bytes(free_list[w]) /\ g[w] = Bytes(free_list'[w]) /\ g[w] \in Nat
    BY <1>1, <1>2, <1>3, <1>4, <1>6
<1> QED
    BY <1>9, <1>10, <1>11, <1>12

(* One of them gets v blocks. *)
LEMMA OwnBytesMoved ==
    ASSUME MallocAssumption, MallocTypeOK, NEW w \in Allocators, NEW s \in BucketSizes, NEW v \in Int,
           free_list' \in [Allocators -> [BucketSizes -> Nat]],
           free_list'[w][s] = free_list[w][s] + v,
           \A z \in BucketSizes \ {s} : free_list'[w][z] = free_list[w][z],
           \A u \in Allocators \ {w} : free_list'[u] = free_list[u]
    PROVE  OwnBytes' = OwnBytes + s * v
<1>1. PICK f : f = free_list[w]
    OBVIOUS
<1>2. PICK g : g = free_list'[w]
    OBVIOUS
<1>3. f \in [BucketSizes -> Nat] /\ g \in [BucketSizes -> Nat]
    BY <1>1, <1>2 DEF MallocTypeOK
<1>4. Bytes(g) = Bytes(f) + s * v
    BY <1>1, <1>2, <1>3, BytesChanged
<1>5. OwnBytes' = OwnBytes - Bytes(f) + Bytes(g)
    BY <1>1, <1>2, OwnBytesChanged
<1>6. OwnBytes \in Int /\ Bytes(f) \in Int /\ s * v \in Int
    BY <1>3, OwnBytesType, BytesType, SizesArePositive
<1>7. PICK p \in Int : p = s * v
    BY <1>6
<1> QED
    BY <1>4, <1>5, <1>6, <1>7

(* A worker takes a block from its list. *)
LEMMA MallocAllocateFrame ==
    ASSUME MallocAssumption, MallocInv, NEW w \in Allocators, NEW s \in BucketSizes, done = {},
           AllocateFrame(w, s)
    PROVE  MallocInv'
<1>0. MallocTypeOK /\ PotentialInv /\ BalanceInv /\ DoneInv
    BY DEF MallocInv
<1>1. /\ free_list[w][s] > 0
      /\ free_list' = [free_list EXCEPT ![w][s] = free_list[w][s] - 1]
      /\ in_use' = [in_use EXCEPT ![s] = in_use[s] + 1]
      /\ bucket_potential' = bucket_potential /\ global_free_list' = global_free_list
      /\ room' = room /\ allocated_from_os' = allocated_from_os
      /\ allocated_from_global_pool' = allocated_from_global_pool
      /\ wasted' = wasted /\ done' = done
    BY DEF AllocateFrame
<1>2. /\ free_list[w][s] \in Nat /\ in_use[s] \in Nat
      /\ free_list' \in [Allocators -> [BucketSizes -> Nat]] /\ in_use' \in [BucketSizes -> Nat]
      /\ free_list'[w][s] = free_list[w][s] + (-1)
      /\ \A z \in BucketSizes \ {s} : free_list'[w][z] = free_list[w][z]
      /\ \A u \in Allocators \ {w} : free_list'[u] = free_list[u]
      /\ in_use'[s] = in_use[s] + 1 /\ \A z \in BucketSizes \ {s} : in_use'[z] = in_use[z]
    BY <1>0, <1>1 DEF MallocTypeOK
<1>3. MallocTypeOK'
    BY <1>0, <1>1, <1>2 DEF MallocTypeOK
<1>4. OwnBytes' = OwnBytes + s * (-1)
    BY <1>0, <1>2, OwnBytesMoved
<1>5. Bytes(in_use') = Bytes(in_use) + s * 1
    <2>1. PICK f : f = in_use
        OBVIOUS
    <2>2. PICK g : g = in_use'
        OBVIOUS
    <2>3. f \in [BucketSizes -> Nat] /\ g \in [BucketSizes -> Nat]
        BY <1>0, <1>2, <2>1, <2>2 DEF MallocTypeOK
    <2>4. g[s] = f[s] + 1 /\ \A z \in BucketSizes \ {s} : g[z] = f[z]
        BY <1>2, <2>1, <2>2
    <2>5. Bytes(g) = Bytes(f) + s * 1
        BY <2>3, <2>4, BytesChanged
    <2> QED
        BY <2>1, <2>2, <2>5
<1>6. OwnBytes \in Int /\ Bytes(in_use) \in Int /\ s \in Int
    BY <1>0, OwnBytesType, BytesType, SizesArePositive DEF MallocTypeOK
<1>7. Bytes(in_use') + OwnBytes' = Bytes(in_use) + OwnBytes
    BY <1>4, <1>5, <1>6
<1>8. BalanceInv'
    BY <1>0, <1>1, <1>7 DEF BalanceInv
<1>9. PotentialInv'
    <2>1. ASSUME NEW v \in Allocators, NEW z \in BucketSizes PROVE \E m \in Nat : Blocks(v, z, m)'
        <3>1. PICK m \in Nat : Blocks(v, z, m)
            BY <1>0 DEF PotentialInv
        <3>2. free_list'[v][z] <= free_list[v][z] /\ free_list'[v][z] \in Int /\ free_list[v][z] \in Int
            BY <1>0, <1>2 DEF MallocTypeOK
        <3>3. m + 1 \in Int /\ Batch(z) - 1 \in Int
            BY BatchIsPositive
        <3> QED
            BY <1>1, <3>1, <3>2, <3>3 DEF Blocks
    <2> QED
        BY <2>1 DEF PotentialInv
<1>10. DoneInv'
    BY <1>1 DEF DoneInv
<1> QED
    BY <1>3, <1>8, <1>9, <1>10 DEF MallocInv

(* A batch is put into an empty list, and a block taken from it.           *)
LEMMA MallocAllocateFromBatch ==
    ASSUME MallocAssumption, MallocInv, NEW w \in Allocators, NEW s \in BucketSizes, done = {},
           AllocateFromBatch(w, s)
    PROVE  MallocInv'
<1>0. MallocTypeOK /\ PotentialInv /\ BalanceInv /\ DoneInv
    BY DEF MallocInv
<1>1. PICK n : n = Batch(s)
    OBVIOUS
<1>2. PICK reused : reused = IF global_free_list[s] < n THEN global_free_list[s] ELSE n
    OBVIOUS
<1>3. PICK c : c = Carved(room, s, n - reused)
    OBVIOUS
<1>4. /\ free_list[w][s] = 0
      /\ bucket_potential' = [bucket_potential EXCEPT ![w][s] = bucket_potential[w][s] + n * s]
      /\ global_free_list' = [global_free_list EXCEPT ![s] = global_free_list[s] - reused]
      /\ room' = c.room /\ allocated_from_os' = allocated_from_os + c.new
      /\ wasted' = wasted + c.lost
      /\ allocated_from_global_pool' = allocated_from_global_pool + n * s
      /\ free_list' = [free_list EXCEPT ![w][s] = n - 1]
      /\ in_use' = [in_use EXCEPT ![s] = in_use[s] + 1]
      /\ done' = done
    BY <1>1, <1>2, <1>3 DEF AllocateFromBatch
<1>5. /\ n \in Nat \ {0} /\ s \in Nat \ {0} /\ s \in Int /\ n * s \in Nat /\ n - 1 \in Nat
      /\ PotentialLimit \in Nat
    <2>1. n \in Nat \ {0} /\ s \in Nat \ {0} /\ PotentialLimit \in Nat
        BY <1>1, BatchIsPositive, SizesArePositive
    <2> QED
        BY <2>1
<1>6. reused \in Nat /\ reused <= global_free_list[s] /\ reused <= n /\ n - reused \in Nat
    <2>1. global_free_list[s] \in Nat
        BY <1>0 DEF MallocTypeOK
    <2> QED
        BY <1>2, <1>5, <2>1
<1>7. c \in CutState /\ room + c.new = c.room + c.lost + s * (n - reused)
    BY <1>0, <1>3, <1>6, CarvedAdds DEF MallocTypeOK
<1>8. c.room \in 0..Chunk /\ c.new \in Nat /\ c.lost \in Nat
    BY <1>7 DEF CutState
<1>9. /\ free_list' \in [Allocators -> [BucketSizes -> Nat]] /\ in_use' \in [BucketSizes -> Nat]
      /\ free_list'[w][s] = free_list[w][s] + (n - 1)
      /\ \A z \in BucketSizes \ {s} : free_list'[w][z] = free_list[w][z]
      /\ \A u \in Allocators \ {w} : free_list'[u] = free_list[u]
    BY <1>0, <1>4, <1>5 DEF MallocTypeOK
<1>10. /\ in_use'[s] = in_use[s] + 1 /\ \A z \in BucketSizes \ {s} : in_use'[z] = in_use[z]
       /\ global_free_list' \in [BucketSizes -> Nat]
       /\ global_free_list'[s] = global_free_list[s] + (-reused)
       /\ \A z \in BucketSizes \ {s} : global_free_list'[z] = global_free_list[z]
    BY <1>0, <1>4, <1>6 DEF MallocTypeOK
<1>11. /\ bucket_potential' \in [Allocators -> [BucketSizes -> Nat]]
       /\ bucket_potential'[w][s] = bucket_potential[w][s] + n * s
       /\ \A z \in BucketSizes \ {s} : bucket_potential'[w][z] = bucket_potential[w][z]
       /\ \A u \in Allocators \ {w} : bucket_potential'[u] = bucket_potential[u]
    <2>1. PICK k \in Nat : k = n * s
        BY <1>5
    <2>2. bucket_potential' = [bucket_potential EXCEPT ![w][s] = bucket_potential[w][s] + k]
        BY <1>4, <2>1
    <2> HIDE <1>4
    <2> QED
        BY <1>0, <2>1, <2>2 DEF MallocTypeOK
<1>12. OwnBytes' = OwnBytes + s * (n - 1)
    BY <1>0, <1>5, <1>9, OwnBytesMoved
<1>13. Bytes(in_use') = Bytes(in_use) + s * 1
    <2>1. PICK f : f = in_use
        OBVIOUS
    <2>2. PICK g : g = in_use'
        OBVIOUS
    <2>3. f \in [BucketSizes -> Nat] /\ g \in [BucketSizes -> Nat]
        BY <1>0, <1>9, <2>1, <2>2 DEF MallocTypeOK
    <2>4. Bytes(g) = Bytes(f) + s * 1
        BY <1>10, <2>1, <2>2, <2>3, BytesChanged
    <2> QED
        BY <2>1, <2>2, <2>4
<1>14. Bytes(global_free_list') = Bytes(global_free_list) + s * (-reused)
    <2>1. PICK f : f = global_free_list
        OBVIOUS
    <2>2. PICK g : g = global_free_list'
        OBVIOUS
    <2>3. f \in [BucketSizes -> Nat] /\ g \in [BucketSizes -> Nat] /\ -reused \in Int
        BY <1>0, <1>6, <1>10, <2>1, <2>2 DEF MallocTypeOK
    <2>4. Bytes(g) = Bytes(f) + s * (-reused)
        BY <1>10, <2>1, <2>2, <2>3, BytesChanged
    <2> QED
        BY <2>1, <2>2, <2>4
<1>15. /\ OwnBytes \in Int /\ Bytes(in_use) \in Int /\ Bytes(global_free_list) \in Int
       /\ room \in Int /\ wasted \in Int /\ allocated_from_os \in Int
       /\ allocated_from_global_pool \in Int
       /\ c.room \in Int /\ c.new \in Int /\ c.lost \in Int
    BY <1>0, <1>8, OwnBytesType, BytesType, SizesArePositive DEF MallocTypeOK
<1>16. PICK N \in Nat, R \in Int : /\ N = n * s /\ R = s * reused
                                 /\ s * (n - 1) = N - s /\ s * (n - reused) = N - R
                                 /\ s * (-reused) = -R /\ s * 1 = s
    <2>1. n \in Int /\ reused \in Int /\ s \in Int
        BY <1>5, <1>6
    <2>2. /\ n * s \in Nat /\ s * reused \in Int
          /\ s * (n - 1) = n * s - s /\ s * (n - reused) = n * s - s * reused
          /\ s * (-reused) = (-(s * reused)) /\ s * 1 = s
        BY <1>5, <2>1
    <2> QED
        BY <2>2
<1>17. /\ allocated_from_global_pool' = allocated_from_global_pool + N
       /\ OwnBytes' = OwnBytes + (N - s) /\ Bytes(in_use') = Bytes(in_use) + s
       /\ Bytes(global_free_list') = Bytes(global_free_list) + (-R)
       /\ room + c.new = c.room + c.lost + (N - R)
    BY <1>4, <1>7, <1>12, <1>13, <1>14, <1>16
<1>18. /\ allocated_from_global_pool' = Bytes(in_use') + OwnBytes'
       /\ allocated_from_os' =
            allocated_from_global_pool' + Bytes(global_free_list') + room' + wasted'
    <2>1. /\ allocated_from_global_pool = Bytes(in_use) + OwnBytes
          /\ allocated_from_os =
               allocated_from_global_pool + Bytes(global_free_list) + room + wasted
        BY <1>0 DEF BalanceInv
    <2>2. room' = c.room /\ allocated_from_os' = allocated_from_os + c.new /\ wasted' = wasted + c.lost
        BY <1>4
    <2>3. /\ N \in Int /\ R \in Int /\ s \in Int
          /\ allocated_from_global_pool' \in Int /\ Bytes(global_free_list') \in Int
        BY <1>5, <1>15, <1>17
    <2>4. allocated_from_global_pool' = Bytes(in_use') + OwnBytes'
        BY <1>15, <1>17, <2>1, <2>3
    <2>5. allocated_from_os + c.new = (allocated_from_global_pool + N) + (Bytes(global_free_list) + (-R))
                                        + c.room + (wasted + c.lost)
        BY <1>15, <1>17, <2>1, <2>3
    <2> QED
        BY <1>17, <2>2, <2>4, <2>5
<1>19. BalanceInv'
    BY <1>18 DEF BalanceInv
<1>20. MallocTypeOK'
    <2>1. /\ room' \in 0..Chunk /\ wasted' \in Nat /\ allocated_from_os' \in Nat
          /\ done' \subseteq Allocators
        BY <1>0, <1>4, <1>8 DEF MallocTypeOK
    <2>2. allocated_from_global_pool' \in Nat
        BY <1>0, <1>17 DEF MallocTypeOK
    <2> QED
        BY <1>9, <1>10, <1>11, <2>1, <2>2 DEF MallocTypeOK
<1>21. PotentialInv'
    <2>1. ASSUME NEW v \in Allocators, NEW z \in BucketSizes PROVE \E m \in Nat : Blocks(v, z, m)'
        <3>1. PICK m \in Nat : Blocks(v, z, m)
            BY <1>0 DEF PotentialInv
        <3>2. CASE v = w /\ z = s
            <4>1. (m + n) * s = m * s + n * s /\ m + n \in Nat
                BY <1>5
            <4>2. bucket_potential'[w][s] = (m + n) * s
                BY <1>11, <3>1, <3>2, <4>1 DEF Blocks
            <4>3. free_list'[w][s] = n - 1 /\ n - 1 <= (m + n) + 1
                BY <1>4, <1>5, <1>9
            <4>4. Blocks(w, s, m + n)'
                BY <1>1, <1>5, <4>2, <4>3 DEF Blocks
            <4> QED
                BY <3>2, <4>1, <4>4
        <3>3. CASE ~(v = w /\ z = s)
            <4>1. bucket_potential'[v][z] = bucket_potential[v][z] /\ free_list'[v][z] = free_list[v][z]
                BY <1>9, <1>11, <3>3
            <4> QED
                BY <3>1, <4>1 DEF Blocks
        <3> QED
            BY <3>2, <3>3
    <2> QED
        BY <2>1 DEF PotentialInv
<1>22. DoneInv'
    BY <1>4 DEF DoneInv
<1> QED
    BY <1>19, <1>20, <1>21, <1>22 DEF MallocInv

(* A larger factor has the larger product.                                 *)
LEMMA LargerProduct ==
    ASSUME NEW a \in Int, NEW b \in Int, NEW s \in Nat, a <= b
    PROVE  a * s <= b * s
OBVIOUS

(* What a walk over n blocks keeps. *)
LEMMA WalkedBounds ==
    ASSUME NEW n \in Nat, NEW s \in Nat \ {0}, NEW pot \in Nat
    PROVE  /\ Walked(n, s, pot) \in Nat /\ Walked(n, s, pot) <= n
           /\ 2 * (Walked(n, s, pot) * s) < pot + 2 * s
           /\ Kept(n, s, pot) \in Nat /\ Kept(n, s, pot) <= n
           /\ Kept(n, s, pot) <= Walked(n, s, pot) + 1
<1>1. PICK q : q = Up(pot, 2 * s)
    OBVIOUS
<1>2. q \in Nat /\ q * (2 * s) <= pot + 2 * s - 1
    <2>1. PICK d \in Nat \ {0} : d = 2 * s
        OBVIOUS
    <2>2. pot + d - 1 \in Nat
        BY <2>1
    <2>3. q = (pot + d - 1) \div d
        BY <1>1, <2>1 DEF Up
    <2>4. q \in Nat /\ q * d <= pot + d - 1
        BY <2>2, <2>3, QuotientIsNatural
    <2> QED
        BY <2>1, <2>4
<1>3. PICK k : k = Walked(n, s, pot)
    OBVIOUS
<1>4. k \in Nat /\ k <= n /\ k <= q
    BY <1>1, <1>2, <1>3 DEF Walked
<1>5. k * (2 * s) <= q * (2 * s)
    <2>1. 2 * s \in Nat
        OBVIOUS
    <2> QED
        BY <1>2, <1>4, <2>1, LargerProduct
<1>6. 2 * (k * s) = k * (2 * s) /\ k * s \in Int
    BY <1>4
<1>7. 2 * (k * s) < pot + 2 * s
    <2>1. k * (2 * s) \in Int /\ q * (2 * s) \in Int
        BY <1>2, <1>4
    <2> QED
        BY <1>2, <1>5, <1>6, <2>1
<1>8. Kept(n, s, pot) = IF n > k THEN k + 1 ELSE n
    BY <1>3 DEF Kept
<1> QED
    BY <1>3, <1>4, <1>7, <1>8

(* Half the potential, rounded, is below the limit again.                  *)
LEMMA WalkedBelowLimit ==
    ASSUME MallocAssumption, NEW s \in BucketSizes, NEW n \in Nat, NEW m \in Nat,
           m * s <= PotentialLimit \/ n <= Batch(s), m * s + s > PotentialLimit
    PROVE  Walked(n, s, m * s + s) * s <= PotentialLimit
<1>1. /\ s \in Nat \ {0} /\ PotentialLimit \in Nat /\ Batch(s) \in Nat \ {0}
      /\ Batch(s) * s <= PotentialLimit
    BY BatchIsPositive, SizesArePositive
<1>2. m * s \in Nat /\ m * s + s \in Nat
    BY <1>1
<1>3. PICK k : k = Walked(n, s, m * s + s)
    OBVIOUS
<1>4. k \in Nat /\ k <= n /\ 2 * (k * s) < (m * s + s) + 2 * s
    BY <1>1, <1>2, <1>3, WalkedBounds
<1>5. CASE n <= Batch(s)
    <2>1. k <= Batch(s)
        BY <1>1, <1>4, <1>5
    <2>2. k * s <= Batch(s) * s
        BY <1>1, <1>4, <2>1, LargerProduct
    <2>3. k * s \in Int /\ Batch(s) * s \in Int
        BY <1>1, <1>4
    <2> QED
        BY <1>1, <1>3, <2>2, <2>3
<1>6. CASE m * s <= PotentialLimit
    <2>1. (2 * k) * s < (m + 3) * s
        <3>1. (2 * k) * s = 2 * (k * s) /\ (m + 3) * s = (m * s + s) + 2 * s
            BY <1>1, <1>4
        <3> QED
            BY <1>4, <3>1
    <2>2. 2 * k < m + 3
        BY <1>1, <1>4, <2>1, SmallerFactor
    <2>3. m # 0
        <3>1. 1 * s <= Batch(s) * s
            BY <1>1, LargerProduct
        <3>2. PICK b \in Int : b = Batch(s) * s
            BY <1>1
        <3>3. s <= PotentialLimit
            BY <1>1, <3>1, <3>2
        <3>4. m = 0 => m * s + s = s
            BY <1>1
        <3> QED
            BY <1>1, <3>3, <3>4
    <2>4. k <= m
        BY <1>4, <2>2, <2>3
    <2>5. k * s <= m * s
        BY <1>1, <1>4, <2>4, LargerProduct
    <2>6. k * s \in Int
        BY <1>1, <1>4
    <2> QED
        BY <1>1, <1>2, <1>3, <1>6, <2>5, <2>6
<1> QED
    BY <1>5, <1>6

(* A block comes back; if the worker's potential is used up what is beyond *)
(* half of it goes to the global list.                                     *)
LEMMA MallocFreeFrame ==
    ASSUME MallocAssumption, MallocInv, NEW w \in Allocators, NEW s \in BucketSizes, done = {},
           FreeFrame(w, s)
    PROVE  MallocInv'
<1>0. MallocTypeOK /\ PotentialInv /\ BalanceInv /\ DoneInv
    BY DEF MallocInv
<1>1. PICK pot : pot = bucket_potential[w][s] + s
    OBVIOUS
<1>2. PICK n : n = free_list[w][s] + 1
    OBVIOUS
<1>3. PICK kept : kept = IF pot > PotentialLimit THEN Kept(n, s, pot) ELSE n
    OBVIOUS
<1>4. PICK left : left = IF pot > PotentialLimit THEN Walked(n, s, pot) * s ELSE pot
    OBVIOUS
<1>5. /\ in_use[s] > 0
      /\ in_use' = [in_use EXCEPT ![s] = in_use[s] - 1]
      /\ bucket_potential' = [bucket_potential EXCEPT ![w][s] = left]
      /\ free_list' = [free_list EXCEPT ![w][s] = kept]
      /\ global_free_list' = [global_free_list EXCEPT ![s] = global_free_list[s] + n - kept]
      /\ allocated_from_global_pool' = allocated_from_global_pool - (n - kept) * s
      /\ room' = room /\ allocated_from_os' = allocated_from_os /\ wasted' = wasted /\ done' = done
    BY <1>1, <1>2, <1>3, <1>4 DEF FreeFrame
<1>6. /\ s \in Nat \ {0} /\ s \in Int /\ PotentialLimit \in Nat
      /\ free_list[w][s] \in Nat /\ in_use[s] \in Nat /\ global_free_list[s] \in Nat
      /\ bucket_potential[w][s] \in Nat
    BY <1>0, SizesArePositive DEF MallocTypeOK, MallocAssumption
<1>7. pot \in Nat /\ n \in Nat
    BY <1>1, <1>2, <1>6
<1>8. /\ kept \in Nat /\ kept <= n /\ n - kept \in Nat
    <2>1. Kept(n, s, pot) \in Nat /\ Kept(n, s, pot) <= n
        BY <1>6, <1>7, WalkedBounds
    <2>2. PICK k : k = Kept(n, s, pot)
        OBVIOUS
    <2>3. kept = k \/ kept = n
        BY <1>3, <2>2
    <2> QED
        BY <1>7, <2>1, <2>2, <2>3
<1>9. left \in Nat
    <2>1. PICK k \in Nat : k = Walked(n, s, pot)
        BY <1>6, <1>7, WalkedBounds
    <2>2. k * s \in Nat
        BY <1>6
    <2> QED
        BY <1>4, <1>7, <2>1, <2>2
<1>10. /\ free_list' \in [Allocators -> [BucketSizes -> Nat]]
       /\ free_list'[w][s] = kept
       /\ \A z \in BucketSizes \ {s} : free_list'[w][z] = free_list[w][z]
       /\ \A u \in Allocators \ {w} : free_list'[u] = free_list[u]
    BY <1>0, <1>5, <1>8 DEF MallocTypeOK
<1>11. /\ in_use' \in [BucketSizes -> Nat] /\ in_use'[s] = in_use[s] + (-1)
       /\ \A z \in BucketSizes \ {s} : in_use'[z] = in_use[z]
    BY <1>0, <1>5, <1>6 DEF MallocTypeOK
<1>12. /\ global_free_list' \in [BucketSizes -> Nat]
       /\ global_free_list'[s] = global_free_list[s] + (n - kept)
       /\ \A z \in BucketSizes \ {s} : global_free_list'[z] = global_free_list[z]
    <2>1. PICK k \in Nat : k = n - kept
        BY <1>8
    <2>2. global_free_list' = [global_free_list EXCEPT ![s] = global_free_list[s] + k]
        BY <1>5, <1>6, <1>7, <1>8, <2>1
    <2> QED
        BY <1>0, <1>6, <2>1, <2>2 DEF MallocTypeOK
<1>13. /\ bucket_potential' \in [Allocators -> [BucketSizes -> Nat]]
       /\ bucket_potential'[w][s] = left
       /\ \A z \in BucketSizes \ {s} : bucket_potential'[w][z] = bucket_potential[w][z]
       /\ \A u \in Allocators \ {w} : bucket_potential'[u] = bucket_potential[u]
    BY <1>0, <1>5, <1>9 DEF MallocTypeOK
<1>14. OwnBytes' = OwnBytes + s * (kept - n + 1)
    <2>1. kept - n + 1 \in Int /\ free_list'[w][s] = free_list[w][s] + (kept - n + 1)
        BY <1>2, <1>6, <1>7, <1>8, <1>10
    <2> QED
        BY <1>0, <1>10, <2>1, OwnBytesMoved
<1>15. Bytes(in_use') = Bytes(in_use) + s * (-1)
    <2>1. PICK f : f = in_use
        OBVIOUS
    <2>2. PICK g : g = in_use'
        OBVIOUS
    <2>3. f \in [BucketSizes -> Nat] /\ g \in [BucketSizes -> Nat]
        BY <1>0, <1>11, <2>1, <2>2 DEF MallocTypeOK
    <2>4. g[s] = f[s] + (-1) /\ \A z \in BucketSizes \ {s} : g[z] = f[z]
        BY <1>11, <2>1, <2>2
    <2>5. Bytes(g) = Bytes(f) + s * (-1)
        BY <2>3, <2>4, BytesChanged
    <2> QED
        BY <2>1, <2>2, <2>5
<1>16. Bytes(global_free_list') = Bytes(global_free_list) + s * (n - kept)
    <2>1. PICK f : f = global_free_list
        OBVIOUS
    <2>2. PICK g : g = global_free_list'
        OBVIOUS
    <2>3. f \in [BucketSizes -> Nat] /\ g \in [BucketSizes -> Nat] /\ n - kept \in Int
        BY <1>0, <1>8, <1>12, <2>1, <2>2 DEF MallocTypeOK
    <2>4. g[s] = f[s] + (n - kept) /\ \A z \in BucketSizes \ {s} : g[z] = f[z]
        BY <1>12, <2>1, <2>2
    <2>5. Bytes(g) = Bytes(f) + s * (n - kept)
        BY <2>3, <2>4, BytesChanged
    <2> QED
        BY <2>1, <2>2, <2>5
<1>17. PICK D \in Int : /\ D = s * (n - kept) /\ (n - kept) * s = D
                      /\ s * (kept - n + 1) = s - D /\ s * (-1) = -s
    <2>1. n \in Int /\ kept \in Int /\ s \in Int
        BY <1>6, <1>7, <1>8
    <2>2. /\ s * (n - kept) \in Int /\ (n - kept) * s = s * (n - kept)
          /\ s * (kept - n + 1) = s - s * (n - kept) /\ s * (-1) = -s
        BY <2>1
    <2> QED
        BY <2>2
<1>18. /\ OwnBytes \in Int /\ Bytes(in_use) \in Int /\ Bytes(global_free_list) \in Int
       /\ room \in Int /\ wasted \in Int /\ allocated_from_os \in Int
       /\ allocated_from_global_pool \in Int
       /\ OwnBytes' \in Nat /\ Bytes(in_use') \in Nat
    <2>1. OwnBytes' \in Nat
        BY <1>0, <1>10, OwnBytesChanged
    <2>2. Bytes(in_use') \in Nat
        <3>1. PICK g : g = in_use'
            OBVIOUS
        <3>2. Bytes(g) \in Nat
            BY <1>11, <3>1, BytesType
        <3> QED
            BY <3>1, <3>2
    <2> QED
        BY <1>0, <2>1, <2>2, OwnBytesType, BytesType, SizesArePositive DEF MallocTypeOK
<1>19. /\ allocated_from_global_pool' = allocated_from_global_pool - D
       /\ OwnBytes' = OwnBytes + (s - D) /\ Bytes(in_use') = Bytes(in_use) + (-s)
       /\ Bytes(global_free_list') = Bytes(global_free_list) + D
    BY <1>5, <1>14, <1>15, <1>16, <1>17
<1>20. /\ allocated_from_global_pool' = Bytes(in_use') + OwnBytes'
       /\ allocated_from_os' =
            allocated_from_global_pool' + Bytes(global_free_list') + room' + wasted'
    <2>1. /\ allocated_from_global_pool = Bytes(in_use) + OwnBytes
          /\ allocated_from_os =
               allocated_from_global_pool + Bytes(global_free_list) + room + wasted
        BY <1>0 DEF BalanceInv
    <2>2. room' = room /\ allocated_from_os' = allocated_from_os /\ wasted' = wasted
        BY <1>5
    <2>3. allocated_from_global_pool' = Bytes(in_use') + OwnBytes'
        BY <1>6, <1>17, <1>18, <1>19, <2>1
    <2>4. allocated_from_os = (allocated_from_global_pool - D) + (Bytes(global_free_list) + D) + room + wasted
        BY <1>17, <1>18, <2>1
    <2> QED
        BY <1>19, <2>2, <2>3, <2>4
<1>21. BalanceInv'
    BY <1>20 DEF BalanceInv
<1>22. MallocTypeOK'
    <2>1. allocated_from_global_pool' \in Nat
        BY <1>18, <1>20
    <2> QED
        BY <1>0, <1>5, <1>10, <1>11, <1>12, <1>13, <2>1 DEF MallocTypeOK
<1>23. PotentialInv'
    <2>1. ASSUME NEW v \in Allocators, NEW z \in BucketSizes PROVE \E m \in Nat : Blocks(v, z, m)'
        <3>1. PICK m \in Nat : Blocks(v, z, m)
            BY <1>0 DEF PotentialInv
        <3>2. CASE v = w /\ z = s
            <4>1. /\ pot = m * s + s /\ m * s \in Nat /\ (m + 1) * s = m * s + s
                  /\ m * s <= PotentialLimit => n <= m + 2
                  /\ m * s > PotentialLimit => n <= Batch(s)
                BY <1>1, <1>2, <1>6, <3>1, <3>2, BatchIsPositive DEF Blocks
            <4>2. CASE pot > PotentialLimit
                <5>1. PICK k : k = Walked(n, s, pot)
                    OBVIOUS
                <5>2. k \in Nat /\ kept <= k + 1
                    <6>1. /\ Walked(n, s, pot) \in Nat
                          /\ Kept(n, s, pot) <= Walked(n, s, pot) + 1
                        BY <1>6, <1>7, WalkedBounds
                    <6>2. kept = Kept(n, s, pot)
                        BY <1>3, <4>2
                    <6> QED
                        BY <5>1, <6>1, <6>2
                <5>3. k * s <= PotentialLimit
                    <6>1. m * s <= PotentialLimit \/ n <= Batch(s)
                        BY <1>6, <4>1
                    <6>2. m * s + s > PotentialLimit
                        BY <4>1, <4>2
                    <6>3. Walked(n, s, m * s + s) * s <= PotentialLimit
                        BY <1>7, <6>1, <6>2, WalkedBelowLimit
                    <6>4. m * s + s = pot
                        BY <4>1
                    <6> QED
                        BY <5>1, <6>3, <6>4, Zenon
                <5>4. left = k * s /\ k * s \in Int
                    BY <1>4, <1>6, <4>2, <5>1, <5>2
                <5>5. Blocks(w, s, k)'
                    BY <1>6, <1>10, <1>13, <5>2, <5>3, <5>4 DEF Blocks
                <5> QED
                    BY <3>2, <5>2, <5>5
            <4>3. CASE ~(pot > PotentialLimit)
                <5>1. left = pot /\ kept = n
                    BY <1>3, <1>4, <4>3
                <5>2. n <= (m + 1) + 1 /\ m + 1 \in Nat
                    BY <1>6, <1>7, <4>1, <4>3
                <5>3. (m + 1) * s = left /\ ~(left > PotentialLimit)
                    BY <4>1, <4>3, <5>1
                <5>4. Blocks(w, s, m + 1)'
                    BY <1>10, <1>13, <5>1, <5>2, <5>3 DEF Blocks
                <5> QED
                    BY <3>2, <5>2, <5>4
            <4> QED
                BY <4>2, <4>3
        <3>3. CASE ~(v = w /\ z = s)
            <4>1. bucket_potential'[v][z] = bucket_potential[v][z] /\ free_list'[v][z] = free_list[v][z]
                BY <1>10, <1>13, <3>3
            <4> QED
                BY <3>1, <4>1 DEF Blocks
        <3> QED
            BY <3>2, <3>3
    <2> QED
        BY <2>1 DEF PotentialInv
<1>24. DoneInv'
    BY <1>5 DEF DoneInv
<1> QED
    BY <1>21, <1>22, <1>23, <1>24 DEF MallocInv

(* At the end a worker hands its lists to the global ones.                 *)
LEMMA MallocCleanup ==
    ASSUME MallocAssumption, MallocInv, NEW w \in Allocators, Cleanup(w)
    PROVE  MallocInv'
<1>0. MallocTypeOK /\ PotentialInv /\ BalanceInv /\ DoneInv
    BY DEF MallocInv
<1>1. PICK B : B = Bytes(free_list[w])
    OBVIOUS
<1>2. /\ \A s \in BucketSizes : in_use[s] = 0
      /\ done' = done \cup {w}
      /\ global_free_list' = [s \in BucketSizes |-> global_free_list[s] + free_list[w][s]]
      /\ allocated_from_global_pool' = allocated_from_global_pool - B
      /\ free_list' = [free_list EXCEPT ![w] = [s \in BucketSizes |-> 0]]
      /\ bucket_potential' = [bucket_potential EXCEPT ![w] = [s \in BucketSizes |-> 0]]
      /\ room' = room /\ allocated_from_os' = allocated_from_os /\ wasted' = wasted
      /\ in_use' = in_use
    BY <1>1 DEF Cleanup
<1>3. [s \in BucketSizes |-> 0] \in [BucketSizes -> Nat]
    OBVIOUS
<1>4. /\ free_list' \in [Allocators -> [BucketSizes -> Nat]]
      /\ free_list'[w] = [s \in BucketSizes |-> 0]
      /\ \A v \in Allocators \ {w} : free_list'[v] = free_list[v]
    BY <1>0, <1>2, <1>3 DEF MallocTypeOK
<1>5. /\ bucket_potential' \in [Allocators -> [BucketSizes -> Nat]]
      /\ bucket_potential'[w] = [s \in BucketSizes |-> 0]
      /\ \A v \in Allocators \ {w} : bucket_potential'[v] = bucket_potential[v]
    BY <1>0, <1>2, <1>3 DEF MallocTypeOK
<1>6. /\ global_free_list' \in [BucketSizes -> Nat]
      /\ \A s \in BucketSizes : global_free_list'[s] = global_free_list[s] + free_list[w][s]
    <2>1. ASSUME NEW s \in BucketSizes PROVE global_free_list[s] + free_list[w][s] \in Nat
        BY <1>0 DEF MallocTypeOK
    <2> QED
        BY <1>2, <2>1
<1>7. B \in Nat /\ OwnBytes \in Nat
    BY <1>0, <1>1, OwnBytesType
<1>8. OwnBytes' = OwnBytes - B
    <2>1. /\ OwnBytes' = OwnBytes - B + Bytes(free_list'[w])
        BY <1>0, <1>1, <1>4, OwnBytesChanged
    <2>2. PICK g : g = free_list'[w]
        OBVIOUS
    <2>3. g \in [BucketSizes -> Nat] /\ \A s \in BucketSizes : g[s] = 0
        BY <1>3, <1>4, <2>2
    <2>4. Bytes(g) = 0
        BY <2>3, NoBytes
    <2> QED
        BY <1>7, <2>1, <2>2, <2>4
<1>9. Bytes(global_free_list') = Bytes(global_free_list) + B
    <2>1. PICK f : f = global_free_list
        OBVIOUS
    <2>2. PICK h : h = global_free_list'
        OBVIOUS
    <2>3. PICK g : g = free_list[w]
        OBVIOUS
    <2>4. /\ f \in [BucketSizes -> Nat] /\ g \in [BucketSizes -> Nat] /\ h \in [BucketSizes -> Nat]
          /\ \A s \in BucketSizes : h[s] = f[s] + g[s]
        BY <1>0, <1>6, <2>1, <2>2, <2>3 DEF MallocTypeOK
    <2>5. Bytes(h) = Bytes(f) + Bytes(g)
        BY <2>4, BytesJoined
    <2> QED
        BY <1>1, <2>1, <2>2, <2>3, <2>5
<1>10. Bytes(in_use) \in Nat /\ Bytes(global_free_list) \in Nat /\ OwnBytes' \in Nat
    BY <1>0, <1>4, BytesType, OwnBytesChanged DEF MallocTypeOK
<1>11. in_use' = in_use /\ Bytes(in_use') = Bytes(in_use)
    BY <1>2
<1>12. /\ allocated_from_global_pool = Bytes(in_use) + OwnBytes
       /\ allocated_from_os =
            allocated_from_global_pool + Bytes(global_free_list) + room + wasted
    BY <1>0 DEF BalanceInv
<1>13. /\ allocated_from_global_pool' = Bytes(in_use') + OwnBytes'
       /\ allocated_from_os' =
            allocated_from_global_pool' + Bytes(global_free_list') + room' + wasted'
    <2>1. room \in Int /\ wasted \in Int /\ allocated_from_global_pool \in Int
        BY <1>0 DEF MallocTypeOK
    <2>2. allocated_from_global_pool - B = Bytes(in_use) + (OwnBytes - B)
        BY <1>7, <1>10, <1>12
    <2>3. allocated_from_os =
            (allocated_from_global_pool - B) + (Bytes(global_free_list) + B) + room + wasted
        BY <1>7, <1>10, <1>12, <2>1
    <2> QED
        BY <1>2, <1>8, <1>9, <1>11, <2>2, <2>3
<1>14. BalanceInv'
    BY <1>13 DEF BalanceInv
<1>15. MallocTypeOK'
    <2>1. allocated_from_global_pool' \in Nat
        BY <1>10, <1>11, <1>13
    <2> QED
        BY <1>0, <1>2, <1>4, <1>5, <1>6, <2>1 DEF MallocTypeOK
<1>16. PotentialInv'
    <2>1. ASSUME NEW v \in Allocators, NEW z \in BucketSizes PROVE \E m \in Nat : Blocks(v, z, m)'
        <3>1. CASE v = w
            <4>1. bucket_potential'[v][z] = 0 /\ free_list'[v][z] = 0
                BY <1>4, <1>5, <3>1
            <4>2. 0 * z = 0 /\ Batch(z) - 1 \in Nat /\ PotentialLimit \in Nat
                BY BatchIsPositive, SizesArePositive
            <4>3. Blocks(v, z, 0)'
                BY <4>1, <4>2 DEF Blocks
            <4> QED
                BY <4>3
        <3>2. CASE v # w
            <4>1. PICK m \in Nat : Blocks(v, z, m)
                BY <1>0 DEF PotentialInv
            <4>2. bucket_potential'[v][z] = bucket_potential[v][z] /\ free_list'[v][z] = free_list[v][z]
                BY <1>4, <1>5, <3>2
            <4> QED
                BY <4>1, <4>2 DEF Blocks
        <3> QED
            BY <3>1, <3>2
    <2> QED
        BY <2>1 DEF PotentialInv
<1>17. DoneInv'
    BY <1>0, <1>2, <1>4 DEF DoneInv
<1> QED
    BY <1>14, <1>15, <1>16, <1>17 DEF MallocInv

(* Nothing is allocated at first.                                          *)
LEMMA MallocInitial ==
    ASSUME MallocAssumption, MallocInit
    PROVE  MallocInv
<1>1. MallocTypeOK
    BY DEF MallocInit, MallocTypeOK, MallocAssumption
<1>2. PotentialInv
    <2>1. ASSUME NEW v \in Allocators, NEW z \in BucketSizes PROVE Blocks(v, z, 0)
        <3>1. bucket_potential[v][z] = 0 /\ free_list[v][z] = 0
            BY DEF MallocInit
        <3>2. 0 * z = 0 /\ Batch(z) - 1 \in Nat /\ PotentialLimit \in Nat
            BY BatchIsPositive, SizesArePositive
        <3> QED
            BY <3>1, <3>2 DEF Blocks
    <2> QED
        BY <2>1 DEF PotentialInv
<1>3. Bytes(in_use) = 0 /\ Bytes(global_free_list) = 0
    <2>1. /\ in_use \in [BucketSizes -> Nat] /\ global_free_list \in [BucketSizes -> Nat]
          /\ \A s \in BucketSizes : in_use[s] = 0 /\ global_free_list[s] = 0
        BY DEF MallocInit
    <2> QED
        BY <2>1, NoBytes
<1>4. OwnBytes = 0
    BY <1>1, NothingKept DEF MallocInit
<1>5. BalanceInv
    BY <1>3, <1>4 DEF BalanceInv, MallocInit
<1>6. DoneInv
    BY DEF DoneInv, MallocInit
<1> QED
    BY <1>1, <1>2, <1>5, <1>6 DEF MallocInv

(* Every step of the allocator preserves the invariant.                    *)
LEMMA MallocStep ==
    ASSUME MallocAssumption, MallocInv, [MallocNext]_malloc_vars
    PROVE  MallocInv'
<1>1. CASE UNCHANGED malloc_vars
    <2>1. /\ free_list' = free_list /\ bucket_potential' = bucket_potential
          /\ global_free_list' = global_free_list /\ room' = room /\ in_use' = in_use
          /\ done' = done /\ allocated_from_os' = allocated_from_os
          /\ allocated_from_global_pool' = allocated_from_global_pool /\ wasted' = wasted
        BY <1>1 DEF malloc_vars
    <2>2. MallocTypeOK'
        BY <2>1 DEF MallocInv, MallocTypeOK
    <2>3. PotentialInv'
        BY <2>1 DEF MallocInv, PotentialInv, Blocks
    <2>4. OwnBytes' = OwnBytes
        BY <2>1 DEF OwnBytes
    <2>5. BalanceInv'
        BY <2>1, <2>4 DEF MallocInv, BalanceInv
    <2>6. DoneInv'
        BY <2>1 DEF MallocInv, DoneInv
    <2> QED
        BY <2>2, <2>3, <2>5, <2>6 DEF MallocInv
<1>2. CASE MallocNext
    <2>1. PICK w \in Allocators : \/ done = {} /\ \E s \in BucketSizes :
                                      AllocateFromBatch(w, s) \/ AllocateFrame(w, s) \/ FreeFrame(w, s)
                               \/ Cleanup(w)
        BY <1>2 DEF MallocNext
    <2>2. CASE Cleanup(w)
        BY <2>2, MallocCleanup
    <2>3. ASSUME done = {}, NEW s \in BucketSizes, AllocateFromBatch(w, s) PROVE MallocInv'
        BY <2>3, MallocAllocateFromBatch
    <2>4. ASSUME done = {}, NEW s \in BucketSizes, AllocateFrame(w, s) PROVE MallocInv'
        BY <2>4, MallocAllocateFrame
    <2>5. ASSUME done = {}, NEW s \in BucketSizes, FreeFrame(w, s) PROVE MallocInv'
        BY <2>5, MallocFreeFrame
    <2> QED
        BY <2>1, <2>2, <2>3, <2>4, <2>5
<1> QED
    BY <1>1, <1>2

(* The invariant is enough for the balance and for the length of lists.    *)
LEMMA MallocInvImplies ==
    ASSUME MallocAssumption, MallocInv
    PROVE  FramesAccounted
<1>0. MallocTypeOK /\ PotentialInv /\ BalanceInv /\ DoneInv
    BY DEF MallocInv
<1>1. ASSUME done = Allocators PROVE allocated_from_global_pool = 0
    <2>1. \A s \in BucketSizes : in_use[s] = 0
        BY <1>0, <1>1 DEF DoneInv, MallocAssumption
    <2>2. Bytes(in_use) = 0
        BY <1>0, <2>1, NoBytes DEF MallocTypeOK
    <2>3. \A w \in Allocators : \A s \in BucketSizes : free_list[w][s] = 0
        BY <1>0, <1>1 DEF DoneInv
    <2>4. OwnBytes = 0
        BY <1>0, <2>3, NothingKept
    <2> QED
        BY <1>0, <2>2, <2>4 DEF BalanceInv
<1>2. BytesAccounted
    BY <1>0, <1>1 DEF BytesAccounted, BalanceInv
<1>3. ASSUME NEW w \in Allocators, NEW s \in BucketSizes
      PROVE  free_list[w][s] * s <= PotentialLimit + s
    <2>1. PICK m \in Nat : Blocks(w, s, m)
        BY <1>0 DEF PotentialInv
    <2>2. PICK n : n = free_list[w][s]
        OBVIOUS
    <2>3. PICK b : b = Batch(s)
        OBVIOUS
    <2>4. /\ n \in Nat /\ s \in Nat \ {0} /\ PotentialLimit \in Nat
          /\ b \in Nat \ {0} /\ b * s <= PotentialLimit
        BY <1>0, <2>2, <2>3, BatchIsPositive, SizesArePositive DEF MallocTypeOK
    <2>5. n * s \in Int /\ m * s \in Int /\ (m + 1) * s = m * s + s /\ b * s \in Int
        BY <2>4
    <2>6. CASE m * s <= PotentialLimit
        <3>1. n <= m + 1
            BY <2>1, <2>2, <2>6 DEF Blocks
        <3>2. n * s <= (m + 1) * s
            BY <2>4, <3>1, LargerProduct
        <3> QED
            BY <2>2, <2>4, <2>5, <2>6, <3>2
    <2>7. CASE ~(m * s <= PotentialLimit)
        <3>1. m * s > PotentialLimit
            BY <2>4, <2>5, <2>7
        <3>2. n <= b - 1
            BY <2>1, <2>2, <2>3, <3>1 DEF Blocks
        <3>3. n <= b
            BY <2>4, <3>2
        <3>4. n * s <= b * s
            BY <2>4, <3>3, LargerProduct
        <3> QED
            BY <2>2, <2>4, <2>5, <3>4
    <2> QED
        BY <2>6, <2>7
<1>4. ListsBounded
    BY <1>3 DEF ListsBounded
<1> QED
    BY <1>2, <1>4 DEF FramesAccounted

(* FramesAccounted (frame_malloc.c): whatever worker frees what another    *)
(* allocated, the bytes handed out and in the workers' lists are what the  *)
(* global pool counts as given out; with those in the global lists, in the *)
(* open chunk and lost at the ends of chunks they are what the system gave;*)
(* nothing is counted when all workers are cleaned up; and no worker's     *)
(* list grows beyond its limit.                                            *)
THEOREM BlocksAddUp ==
    ASSUME MallocAssumption
    PROVE  MallocSpec => []FramesAccounted
<1>1. MallocInit => MallocInv
    BY MallocInitial
<1>2. MallocInv /\ [MallocNext]_malloc_vars => MallocInv'
    BY MallocStep
<1>3. MallocInv => FramesAccounted
    BY MallocInvImplies
<1> QED
    BY <1>1, <1>2, <1>3, PTL DEF MallocSpec

(* The sum with one value more. *)
LEMMA SumWithOneMore ==
    ASSUME NEW D, IsFiniteSet(D), NEW f \in [D -> Int], NEW C, NEW x \in C, x \notin D,
           C = D \cup {x}, NEW g \in [C -> Int], \A y \in D : g[y] = f[y]
    PROVE  SumFunction(g) = SumFunction(f) + g[x]
<1> DEFINE G == {s \in SUBSET D : PartialSum(f)[s] = PartialSum(g)[s]}
<1>1. IsFiniteSet(D \cup {x})
    BY FS_AddElement
<1>3. g \in [C -> Int] /\ IsFiniteSet(C) /\ x \in C /\ C \ {x} = D /\ DOMAIN g = C /\ DOMAIN f = D
    BY <1>1
<1>4. {} \in G
    BY <1>3, PartialSums
<1>5. ASSUME NEW s \in SUBSET D, s # {}, \A y \in s : s \ {y} \in G PROVE s \in G
    <2>1. PICK y \in s : TRUE
        BY <1>5
    <2>2. PartialSum(f)[s] = f[y] + PartialSum(f)[s \ {y}]
        BY PartialSumOf
    <2>3. PartialSum(g)[s] = g[y] + PartialSum(g)[s \ {y}]
        <3>1. s \in SUBSET C /\ y \in s
            BY <2>1, <1>5
        <3>2. IsFiniteSet(C) /\ g \in [C -> Int]
            BY <1>3
        <3> QED
            BY <3>1, <3>2, PartialSumOf
    <2>4. PartialSum(f)[s \ {y}] = PartialSum(g)[s \ {y}] /\ g[y] = f[y]
        BY <1>5
    <2> QED
        BY <2>2, <2>3, <2>4
<1>6. D \in G
    <2> HIDE DEF G
    <2>1. \A s \in SUBSET D : s \in G
        BY <1>4, <1>5, SubsetInduction
    <2> QED
        BY <2>1
<1>7. PartialSum(f)[D] = PartialSum(g)[D] /\ PartialSum(f)[D] \in Int /\ g[x] \in Int
    BY <1>3, <1>6, PartialSums
<1>8. PartialSum(g)[C] = g[x] + PartialSum(g)[D]
    BY <1>3, PartialSumOf
<1>9. SumFunction(f) = PartialSum(f)[D] /\ SumFunction(g) = PartialSum(g)[C]
    BY <1>3, SumUnfolded
<1> QED
    BY <1>7, <1>8, <1>9

-----------------------------------------------------------------------------
(* FrameStack *)

Array == [on : {"heap", "stack"}, at : Int, size : Nat, tag : Int]
         \cup [on : {"push"}, at : Int, size : {1}, tag : Int]

(* Each array is below the ones before it, and the top of the stack is     *)
(* below all of them by what was put on it since.                          *)
Fits(s, top) ==
    \A i \in DOMAIN s : s[i].on = "stack" =>
        /\ s[i].at + s[i].size <= Home
        /\ top + Sizes(SubSeq(s, i + 1, Len(s))) <= s[i].at
        /\ \A j \in 1..(i - 1) : s[j].on = "stack" => s[i].at + s[i].size <= s[j].at

FrameStackInv ==
    /\ StackTypeOK /\ unsynched \in BOOLEAN /\ arrays \in Seq(Array)
    /\ AtSync = Home - Sizes(arrays) - holes
    /\ Fits(arrays, AtSync)

(* What a row of arrays takes is a number of units.                        *)
LEMMA SizesType ==
    ASSUME NEW s \in Seq(Array)
    PROVE  Sizes(s) \in Nat /\ Sizes(<<>>) = 0
<1>1. IsFiniteSet(1..Len(s)) /\ IsFiniteSet({}) /\ DOMAIN s = 1..Len(s)
    <2>1. Len(s) \in Nat /\ 1 \in Int
        OBVIOUS
    <2> QED
        BY <2>1, FS_Interval, FS_EmptySet
<1>2. \A i \in 1..Len(s) : Taken(s[i]) \in Nat
    <2>1. \A i \in 1..Len(s) : s[i] \in Array
        OBVIOUS
    <2> QED
        BY <2>1 DEF Taken, Array
<1>3. [i \in DOMAIN s |-> Taken(s[i])] \in [1..Len(s) -> Nat]
    BY <1>1, <1>2
<1>4. Sizes(s) \in Nat
    BY <1>1, <1>3, SumOfNaturals DEF Sizes
<1>5. PICK e : e = <<>>
    OBVIOUS
<1>6. [i \in DOMAIN e |-> Taken(e[i])] \in [{} -> Int]
    BY <1>5
<1>7. Sizes(e) = 0
    BY <1>1, <1>6, SumOfZeros DEF Sizes
<1> QED
    BY <1>4, <1>5, <1>7

(* A row with one more array takes so much more.                           *)
LEMMA SizesPushed ==
    ASSUME NEW s \in Seq(Array), NEW a \in Array
    PROVE  Sizes(Append(s, a)) = Sizes(s) + Taken(a)
<1>1. PICK n \in Nat : n = Len(s)
    OBVIOUS
<1>2. PICK t : t = Append(s, a)
    OBVIOUS
<1>3. /\ DOMAIN s = 1..n /\ DOMAIN t = 1..(n + 1) /\ t[n + 1] = a
      /\ \A i \in 1..n : t[i] = s[i] /\ s[i] \in Array
    BY <1>1, <1>2
<1>4. PICK D : D = 1..n
    OBVIOUS
<1>5. IsFiniteSet(D)
    <2>1. n \in Int /\ 1 \in Int
        OBVIOUS
    <2> QED
        BY <1>4, <2>1, FS_Interval
<1>6. n + 1 \notin D /\ 1..(n + 1) = D \cup {n + 1}
    BY <1>4
<1>7. PICK f : f = [i \in 1..n |-> Taken(s[i])]
    OBVIOUS
<1>8. PICK g : g = [i \in 1..(n + 1) |-> Taken(t[i])]
    OBVIOUS
<1>9. \A b \in Array : Taken(b) \in Int
    BY DEF Taken, Array
<1>10. f \in [D -> Int]
    BY <1>3, <1>4, <1>7, <1>9
<1>11. /\ \A i \in D : g[i] = f[i]
       /\ g[n + 1] = Taken(a)
    BY <1>3, <1>4, <1>7, <1>8
<1>12. PICK C : C = 1..(n + 1)
    OBVIOUS
<1>13. PICK x : x = n + 1
    OBVIOUS
<1>14. C = D \cup {x} /\ x \in C /\ x \notin D
    BY <1>6, <1>12, <1>13
<1>15. g \in [C -> Int]
    BY <1>3, <1>8, <1>9, <1>12
<1>16. SumFunction(g) = SumFunction(f) + g[x]
    BY <1>5, <1>10, <1>11, <1>14, <1>15, SumWithOneMore
<1> QED
    BY <1>2, <1>3, <1>7, <1>8, <1>11, <1>13, <1>16 DEF Sizes

(* What follows an array in the row, when one more is pushed.              *)
LEMMA RestPushed ==
    ASSUME NEW s \in Seq(Array), NEW a \in Array, NEW t \in Seq(Array), t = Append(s, a)
    PROVE  /\ Len(t) = Len(s) + 1 /\ t[Len(t)] = a
           /\ DOMAIN t = 1..Len(t) /\ DOMAIN s = 1..Len(s) /\ Len(s) \in Nat
           /\ \A i \in 1..Len(s) :
                 /\ t[i] = s[i] /\ Sizes(SubSeq(s, i + 1, Len(s))) \in Nat
                 /\ Sizes(SubSeq(t, i + 1, Len(t))) = Sizes(SubSeq(s, i + 1, Len(s))) + Taken(a)
           /\ Sizes(SubSeq(t, Len(t) + 1, Len(t))) = 0
<1>1. PICK n \in Nat : n = Len(s)
    OBVIOUS
<1>2. /\ Len(t) = n + 1 /\ t[n + 1] = a
      /\ DOMAIN t = 1..(n + 1) /\ DOMAIN s = 1..n
      /\ \A i \in 1..n : t[i] = s[i]
    BY <1>1
<1>3. ASSUME NEW i \in 1..n
      PROVE  /\ Sizes(SubSeq(s, i + 1, n)) \in Nat
             /\ Sizes(SubSeq(t, i + 1, n + 1)) = Sizes(SubSeq(s, i + 1, n)) + Taken(a)
    <2>1. PICK q : q = SubSeq(s, i + 1, n)
        OBVIOUS
    <2>2. /\ q \in Seq(Array) /\ Len(q) = n - i /\ \A j \in 1..(n - i) : q[j] = s[i + j]
        BY <1>1, <2>1
    <2>3. PICK r : r = SubSeq(t, i + 1, n + 1)
        OBVIOUS
    <2>4. /\ r \in Seq(Array) /\ Len(r) = (n - i) + 1 /\ \A j \in 1..((n - i) + 1) : r[j] = t[i + j]
        BY <1>2, <2>3
    <2>5. r = Append(q, a)
        <3>1. PICK u : u = Append(q, a)
            OBVIOUS
        <3>2. /\ u \in Seq(Array) /\ Len(u) = (n - i) + 1 /\ u[(n - i) + 1] = a
              /\ \A j \in 1..(n - i) : u[j] = q[j]
            BY <2>2, <3>1
        <3>3. ASSUME NEW j \in 1..((n - i) + 1) PROVE r[j] = u[j]
            <4>1. r[j] = t[i + j]
                BY <2>4
            <4>2. CASE j \in 1..(n - i)
                <5>1. i + j \in 1..n
                    BY <4>2
                <5>2. u[j] = q[j] /\ q[j] = s[i + j] /\ t[i + j] = s[i + j]
                    BY <1>2, <2>2, <3>2, <4>2, <5>1
                <5> QED
                    BY <4>1, <5>2
            <4>3. CASE j = (n - i) + 1
                <5>1. i + j = n + 1
                    BY <4>3
                <5> QED
                    BY <1>2, <3>2, <4>1, <4>3, <5>1
            <4>4. j \in 1..(n - i) \/ j = (n - i) + 1
                OBVIOUS
            <4> QED
                BY <4>2, <4>3, <4>4
        <3> QED
            BY <2>4, <3>1, <3>2, <3>3
    <2>6. Sizes(q) \in Nat
        BY <2>2, SizesType
    <2>7. Sizes(r) = Sizes(q) + Taken(a)
        BY <2>2, <2>5, SizesPushed
    <2> QED
        BY <2>1, <2>3, <2>6, <2>7
<1>4. SubSeq(t, n + 2, n + 1) = <<>>
    BY <1>2
<1>5. (n + 1) + 1 = n + 2 /\ Sizes(<<>>) = 0
    BY SizesType
<1> QED
    BY <1>1, <1>2, <1>3, <1>4, <1>5

(* A row is the row without its latest array, with that array pushed.      *)
LEMMA LatestDropped ==
    ASSUME NEW s \in Seq(Array), s # <<>>
    PROVE  /\ SubSeq(s, 1, Len(s) - 1) \in Seq(Array) /\ s[Len(s)] \in Array
           /\ s = Append(SubSeq(s, 1, Len(s) - 1), s[Len(s)])
<1>1. Len(s) \in Nat /\ Len(s) > 0
    OBVIOUS
<1>2. s[Len(s)] \in Array
    BY <1>1
<1>3. PICK f : f = SubSeq(s, 1, Len(s) - 1)
    OBVIOUS
<1>4. f \in Seq(Array) /\ Len(f) = Len(s) - 1 /\ \A i \in 1..(Len(s) - 1) : f[i] = s[i]
    <2>1. PICK m \in Int : m = Len(s) - 1
        BY <1>1
    <2>2. 1 \in Int /\ m >= 0 /\ \A i \in 1..m : s[i] \in Array
        BY <1>1, <2>1
    <2>3. /\ f \in Seq(Array) /\ Len(f) = IF 1 <= m THEN m - 1 + 1 ELSE 0
          /\ \A i \in 1..(m - 1 + 1) : f[i] = s[1 + i - 1]
        BY <1>3, <2>1, <2>2, SubSeqProperties
    <2>4. m - 1 + 1 = m /\ (IF 1 <= m THEN m ELSE 0) = m /\ \A i \in 1..m : 1 + i - 1 = i
        BY <2>2
    <2> QED
        BY <2>1, <2>3, <2>4
<1>5. PICK t : t = Append(f, s[Len(s)])
    OBVIOUS
<1>6. /\ t \in Seq(Array) /\ Len(t) = Len(s) /\ t[Len(s)] = s[Len(s)]
      /\ \A i \in 1..(Len(s) - 1) : t[i] = s[i]
    BY <1>1, <1>2, <1>4, <1>5
<1>7. ASSUME NEW i \in 1..Len(s) PROVE t[i] = s[i]
    <2>1. i = Len(s) \/ i \in 1..(Len(s) - 1)
        BY <1>1
    <2> QED
        BY <1>6, <2>1
<1>8. s = t
    BY <1>6, <1>7
<1> QED
    BY <1>2, <1>3, <1>4, <1>5, <1>8

(* A new array fits below the top, and the old ones still do.              *)
LEMMA FitsPushed ==
    ASSUME NEW s \in Seq(Array), NEW a \in Array, NEW top \in Int, NEW new \in Int,
           Home \in Int, Fits(s, top), top <= Home, new + Taken(a) <= top,
           a.on = "stack" => a.at + a.size <= top /\ new <= a.at
    PROVE  Fits(Append(s, a), new)
<1>1. PICK t \in Seq(Array) : t = Append(s, a)
    BY AppendProperties
<1>2. PICK n \in Nat : n = Len(s)
    OBVIOUS
<1>3. /\ Len(t) = n + 1 /\ t[n + 1] = a /\ DOMAIN t = 1..(n + 1) /\ DOMAIN s = 1..n
      /\ \A i \in 1..n :
            /\ t[i] = s[i] /\ s[i] \in Array /\ Sizes(SubSeq(s, i + 1, n)) \in Nat
            /\ Sizes(SubSeq(t, i + 1, n + 1)) = Sizes(SubSeq(s, i + 1, n)) + Taken(a)
      /\ Sizes(SubSeq(t, (n + 1) + 1, n + 1)) = 0
    <2>1. /\ Len(t) = n + 1 /\ t[n + 1] = a
          /\ DOMAIN t = 1..(n + 1) /\ DOMAIN s = 1..n
        BY <1>1, <1>2
    <2>4. Sizes(SubSeq(t, (n + 1) + 1, n + 1)) = 0
        <3>1. Sizes(SubSeq(t, Len(t) + 1, Len(t))) = 0
            BY <1>1, RestPushed
        <3>2. Len(t) = n + 1
            BY <2>1
        <3> QED
            BY <3>1, <3>2
    <2>2. \A i \in 1..Len(s) :
             /\ t[i] = s[i] /\ Sizes(SubSeq(s, i + 1, Len(s))) \in Nat
             /\ Sizes(SubSeq(t, i + 1, Len(t))) = Sizes(SubSeq(s, i + 1, Len(s))) + Taken(a)
        BY <1>1, RestPushed
    <2>3. \A i \in 1..Len(s) : s[i] \in Array
        OBVIOUS
    <2> QED
        BY <1>2, <2>1, <2>2, <2>3, <2>4
<1>4. \A b \in Array : b.at \in Int /\ b.size \in Nat /\ Taken(b) \in Nat
    BY DEF Array, Taken
<1>5. \A i \in 1..n : s[i].on = "stack" =>
         /\ s[i].at + s[i].size <= Home
         /\ top + Sizes(SubSeq(s, i + 1, n)) <= s[i].at
         /\ \A j \in 1..(i - 1) : s[j].on = "stack" => s[i].at + s[i].size <= s[j].at
    BY <1>2, <1>3 DEF Fits
<1>6. ASSUME NEW i \in 1..(n + 1), t[i].on = "stack"
      PROVE  /\ t[i].at + t[i].size <= Home
             /\ new + Sizes(SubSeq(t, i + 1, n + 1)) <= t[i].at
             /\ \A j \in 1..(i - 1) : t[j].on = "stack" => t[i].at + t[i].size <= t[j].at
    <2>1. CASE i \in 1..n
        <3>1. s[i].on = "stack" /\ t[i] = s[i] /\ s[i].at \in Int
            BY <1>3, <1>4, <1>6, <2>1
        <3>2. PICK r \in Nat : r = Sizes(SubSeq(s, i + 1, n))
            BY <1>3, <2>1
        <3>3. Sizes(SubSeq(t, i + 1, n + 1)) = r + Taken(a) /\ top + r <= s[i].at /\ Taken(a) \in Nat
            BY <1>3, <1>4, <1>5, <2>1, <3>1, <3>2
        <3>4. new + Sizes(SubSeq(t, i + 1, n + 1)) <= t[i].at
            <4>1. new + (r + Taken(a)) <= s[i].at
                BY <3>1, <3>3
            <4> QED
                BY <3>1, <3>3, <4>1
        <3>5. \A j \in 1..(i - 1) : j \in 1..n
            BY <2>1
        <3> QED
            BY <1>3, <1>5, <2>1, <3>1, <3>4, <3>5
    <2>2. CASE i = n + 1
        <3>1. /\ t[i] = a /\ a.on = "stack" /\ a.at \in Int /\ a.size \in Nat
              /\ Sizes(SubSeq(t, i + 1, n + 1)) = 0
            BY <1>3, <1>4, <1>6, <2>2
        <3>2. a.at + a.size <= Home /\ new + 0 <= a.at
            BY <3>1
        <3>3. ASSUME NEW j \in 1..(i - 1), t[j].on = "stack" PROVE a.at + a.size <= t[j].at
            <4>0. j \in 1..n
                BY <2>2
            <4>1. t[j] = s[j] /\ s[j].on = "stack" /\ s[j].at \in Int
                BY <1>3, <1>4, <3>3, <4>0
            <4>2. PICK r \in Nat : r = Sizes(SubSeq(s, j + 1, n))
                BY <1>3, <4>0
            <4>3. top + r <= s[j].at
                BY <1>5, <4>0, <4>1, <4>2
            <4>4. top <= s[j].at
                BY <4>1, <4>2, <4>3
            <4>5. a.at + a.size <= top
                BY <3>1
            <4>6. a.at + a.size <= s[j].at
                BY <3>1, <4>1, <4>4, <4>5
            <4> QED
                BY <4>1, <4>6
        <3> QED
            BY <3>1, <3>2, <3>3
    <2> QED
        BY <2>1, <2>2
<1> QED
    BY <1>1, <1>3, <1>6 DEF Fits

(* Without the latest array there is so much more room.                    *)
LEMMA FitsDropped ==
    ASSUME NEW s \in Seq(Array), NEW a \in Array, NEW top \in Int, Fits(Append(s, a), top)
    PROVE  Fits(s, top + Taken(a))
<1>1. PICK t \in Seq(Array) : t = Append(s, a)
    BY AppendProperties
<1>2. PICK n \in Nat : n = Len(s)
    OBVIOUS
<1>3. /\ Len(t) = n + 1 /\ DOMAIN t = 1..(n + 1) /\ DOMAIN s = 1..n
      /\ \A i \in 1..n :
            /\ t[i] = s[i] /\ s[i] \in Array /\ Sizes(SubSeq(s, i + 1, n)) \in Nat
            /\ Sizes(SubSeq(t, i + 1, n + 1)) = Sizes(SubSeq(s, i + 1, n)) + Taken(a)
    <2>1. /\ Len(t) = n + 1 /\ t[n + 1] = a
          /\ DOMAIN t = 1..(n + 1) /\ DOMAIN s = 1..n
        BY <1>1, <1>2
    <2>2. \A i \in 1..Len(s) :
             /\ t[i] = s[i] /\ Sizes(SubSeq(s, i + 1, Len(s))) \in Nat
             /\ Sizes(SubSeq(t, i + 1, Len(t))) = Sizes(SubSeq(s, i + 1, Len(s))) + Taken(a)
        BY <1>1, RestPushed
    <2>3. \A i \in 1..Len(s) : s[i] \in Array
        OBVIOUS
    <2> QED
        BY <1>2, <2>1, <2>2, <2>3
<1>4. Taken(a) \in Nat
    BY DEF Array, Taken
<1>5. \A i \in 1..(n + 1) : t[i].on = "stack" =>
         /\ t[i].at + t[i].size <= Home
         /\ top + Sizes(SubSeq(t, i + 1, n + 1)) <= t[i].at
         /\ \A j \in 1..(i - 1) : t[j].on = "stack" => t[i].at + t[i].size <= t[j].at
    BY <1>1, <1>3 DEF Fits
<1>6. ASSUME NEW i \in 1..n, s[i].on = "stack"
      PROVE  /\ s[i].at + s[i].size <= Home
             /\ (top + Taken(a)) + Sizes(SubSeq(s, i + 1, n)) <= s[i].at
             /\ \A j \in 1..(i - 1) : s[j].on = "stack" => s[i].at + s[i].size <= s[j].at
    <2>1. i \in 1..(n + 1) /\ t[i] = s[i] /\ \A j \in 1..(i - 1) : j \in 1..n
        BY <1>3
    <2>2. PICK r \in Nat : r = Sizes(SubSeq(s, i + 1, n))
        BY <1>3
    <2>3. top + (r + Taken(a)) <= s[i].at
        BY <1>3, <1>5, <1>6, <2>1, <2>2
    <2>4. (top + Taken(a)) + r = top + (r + Taken(a))
        BY <1>4
    <2> QED
        BY <1>3, <1>5, <1>6, <2>1, <2>2, <2>3, <2>4
<1> QED
    BY <1>2, <1>3, <1>6 DEF Fits

(* Rounding gives a number of units, and rounding down no more than there  *)
(* were.                                                                   *)
LEMMA Rounded ==
    ASSUME NEW align \in Nat \ {0}
    PROVE  /\ \A n \in Int : RoundDown(n, align) \in Int /\ RoundDown(n, align) <= n
           /\ \A n \in Nat : RoundUp(n, align) \in Nat
<1>1. ASSUME NEW n \in Int PROVE RoundDown(n, align) \in Int /\ RoundDown(n, align) <= n
    BY DEF RoundDown
<1>2. ASSUME NEW n \in Nat PROVE RoundUp(n, align) \in Nat
    <2>1. n + align - 1 \in Nat
        OBVIOUS
    <2>2. PICK q \in Nat : q = (n + align - 1) \div align
        BY <2>1, QuotientIsNatural
    <2>3. q * align \in Nat
        OBVIOUS
    <2> QED
        BY <2>2, <2>3 DEF RoundUp
<1> QED
    BY <1>1, <1>2

(* One more array at the end: the top moves by what it takes and by what   *)
(* is lost with it.                                                        *)
LEMMA ArrayPushed ==
    ASSUME StackAssumption, FrameStackInv, NEW a \in Array, Push(a),
           StackTypeOK', unsynched' \in BOOLEAN, holes <= holes',
           AtSync' + Taken(a) + holes' = AtSync + holes,
           a.on = "stack" => a.at + a.size <= AtSync /\ AtSync' <= a.at
    PROVE  FrameStackInv'
<1>1. PICK top \in Int : top = AtSync
    BY DEF FrameStackInv, StackTypeOK, AtSync
<1>2. PICK new \in Int : new = AtSync'
    <2>1. sp' \in Int /\ sync_sp' \in Int
        BY DEF StackTypeOK
    <2>2. AtSync' = sp' + sync_sp'
        BY DEF AtSync
    <2>3. sp' + sync_sp' \in Int
        BY <2>1
    <2> QED
        BY <2>2, <2>3
<1>3. PICK s \in Seq(Array) : s = arrays
    BY DEF FrameStackInv
<1>4. PICK t \in Seq(Array) : t = arrays' /\ t = Append(s, a)
    BY <1>3, AppendProperties DEF Push
<1>5. PICK h \in Nat, k \in Nat : h = holes /\ k = holes'
    BY DEF FrameStackInv, StackTypeOK
<1>6. PICK r \in Nat : r = Taken(a)
    BY DEF Taken, Array
<1>7. PICK z \in Nat : z = Sizes(s)
    BY SizesType
<1>8. Home \in Int /\ top = Home - z - h /\ Fits(s, top)
    BY <1>1, <1>3, <1>5, <1>7 DEF FrameStackInv, StackAssumption
<1>9. new + r + k = top + h /\ h <= k
    BY <1>1, <1>2, <1>5, <1>6
<1>10. top <= Home /\ new + r <= top
    BY <1>8, <1>9
<1>11. Sizes(t) = z + r
    BY <1>4, <1>6, <1>7, SizesPushed
<1>12. new = Home - Sizes(t) - k
    BY <1>8, <1>9, <1>11
<1>13. Fits(t, new)
    <2>1. a.on = "stack" => a.at + a.size <= top /\ new <= a.at
        BY <1>1, <1>2
    <2> QED
        BY <1>4, <1>6, <1>8, <1>10, <2>1, FitsPushed
<1> QED
    BY <1>2, <1>4, <1>5, <1>12, <1>13 DEF FrameStackInv

(* The latest array goes, and the top is where it was before.              *)
LEMMA ArrayDropped ==
    ASSUME StackAssumption, FrameStackInv, arrays # <<>>, Drop,
           StackTypeOK', unsynched' \in BOOLEAN, holes' = holes,
           AtSync' = AtSync + Taken(Latest)
    PROVE  FrameStackInv'
<1>1. PICK top \in Int : top = AtSync
    BY DEF FrameStackInv, StackTypeOK, AtSync
<1>2. PICK new \in Int : new = AtSync'
    <2>1. sp' \in Int /\ sync_sp' \in Int
        BY DEF StackTypeOK
    <2>2. AtSync' = sp' + sync_sp'
        BY DEF AtSync
    <2>3. sp' + sync_sp' \in Int
        BY <2>1
    <2> QED
        BY <2>2, <2>3
<1>3. PICK s \in Seq(Array) : s = arrays
    BY DEF FrameStackInv
<1>4. PICK t \in Seq(Array), a \in Array : t = arrays' /\ a = Latest /\ s = Append(t, a)
    BY <1>3, LatestDropped DEF Drop, Latest
<1>5. PICK h \in Nat : h = holes
    BY DEF FrameStackInv, StackTypeOK
<1>6. PICK r \in Nat : r = Taken(a)
    BY DEF Taken, Array
<1>7. PICK z \in Nat : z = Sizes(t)
    BY SizesType
<1>8. Sizes(s) = z + r
    BY <1>4, <1>6, <1>7, SizesPushed
<1>9. Home \in Int /\ top = Home - (z + r) - h /\ Fits(s, top)
    BY <1>1, <1>3, <1>5, <1>8 DEF FrameStackInv, StackAssumption
<1>10. new = top + r
    BY <1>1, <1>2, <1>4, <1>6
<1>11. new = Home - Sizes(t) - h
    <2>1. top = Home - (z + r) - h /\ new = top + r /\ Home \in Int
        BY <1>9, <1>10
    <2>2. \A x, y, u, v \in Int : (x - (y + u) - v) + u = x - y - v
        OBVIOUS
    <2>3. Home \in Int /\ z \in Int /\ r \in Int /\ h \in Int
        BY <1>5, <1>6, <1>7, <2>1
    <2>4. new = Home - z - h
        BY <2>1, <2>2, <2>3
    <2> QED
        BY <1>7, <2>4
<1>12. Fits(t, new)
    BY <1>4, <1>6, <1>9, <1>10, FitsDropped
<1> QED
    BY <1>2, <1>4, <1>5, <1>11, <1>12 DEF FrameStackInv

(* Nothing is pushed or dropped, and the top stays where it is.            *)
LEMMA ArraysStay ==
    ASSUME FrameStackInv, UNCHANGED <<arrays, holes>>,
           StackTypeOK', unsynched' \in BOOLEAN, AtSync' = AtSync
    PROVE  FrameStackInv'
BY DEF FrameStackInv

LEMMA StackAllocKeeps ==
    ASSUME StackAssumption, FrameStackInv, NEW len \in Lengths, NEW align \in Alignments,
           NEW distance \in Distances, NEW needs_tag \in BOOLEAN,
           StackAlloc(len, align, distance, needs_tag)
    PROVE  FrameStackInv'
<1>1. len \in Nat /\ align \in Nat \ {0} /\ distance \in Nat
    BY DEF StackAssumption
<1>2. PICK tag \in Nat : tag = IF needs_tag THEN align ELSE 0
    BY <1>1
<1>3. PICK full \in Nat : full = FullSize(len, align, tag)
    <2>1. RoundUp(len, align) \in Nat
        BY <1>1, Rounded
    <2> QED
        BY <2>1 DEF FullSize
<1>4. PICK t : t = RoundDown(sp + distance - full - distance, align)
    OBVIOUS
<1>5. /\ sp \in Int /\ sync_sp \in Int /\ holes \in Nat /\ (~unsynched => sync_sp = 0)
      /\ unsynched \in BOOLEAN
    BY DEF FrameStackInv, StackTypeOK
<1>6. UNCHANGED <<sync_sp, unsynched>>
    BY DEF StackAlloc
<1>7. CASE /\ unsynched /\ Push([on |-> "heap", at |-> 0, size |-> full, tag |-> tag])
           /\ UNCHANGED <<sp, holes>>
    <2>1. PICK a : a = [on |-> "heap", at |-> 0, size |-> full, tag |-> tag]
        OBVIOUS
    <2>2. a \in Array /\ Taken(a) = 0 /\ a.on # "stack" /\ Push(a)
        BY <1>7, <2>1 DEF Array, Taken
    <2>3. StackTypeOK' /\ unsynched' \in BOOLEAN /\ holes <= holes'
        BY <1>5, <1>6, <1>7 DEF StackTypeOK
    <2>4. AtSync' + Taken(a) + holes' = AtSync + holes
        BY <1>5, <1>6, <1>7, <2>2 DEF AtSync
    <2> QED
        BY <2>2, <2>3, <2>4, ArrayPushed
<1>8. CASE /\ ~unsynched /\ MoveFrame(t - distance)
           /\ Push([on |-> "stack", at |-> t, size |-> full, tag |-> tag])
           /\ holes' = holes + (sp - full - (t - distance))
    <2>1. PICK a : a = [on |-> "stack", at |-> t, size |-> full, tag |-> tag]
        OBVIOUS
    <2>2. t \in Int /\ t <= sp - full
        <3>1. PICK n \in Int : n = sp + distance - full - distance
            BY <1>1, <1>5
        <3>2. n = sp - full
            BY <1>1, <1>5, <3>1
        <3>3. RoundDown(n, align) \in Int /\ RoundDown(n, align) <= n
            BY <1>1, Rounded
        <3> QED
            BY <1>4, <3>1, <3>2, <3>3
    <2>3. a \in Array /\ Taken(a) = full /\ a.at = t /\ a.size = full /\ Push(a)
        BY <1>8, <2>1, <2>2 DEF Array, Taken
    <2>4. sp' = t - distance /\ sp' \in Int /\ sync_sp = 0 /\ sync_sp' = 0
        BY <1>1, <1>5, <1>6, <1>8, <2>2 DEF MoveFrame
    <2>5. holes' = holes + (sp - full - sp') /\ sp' <= sp - full
        BY <1>1, <1>5, <1>8, <2>2, <2>4
    <2>6. holes' \in Nat /\ holes <= holes'
        BY <1>5, <2>4, <2>5
    <2>7. StackTypeOK' /\ unsynched' \in BOOLEAN
        BY <1>5, <1>6, <2>4, <2>6 DEF StackTypeOK
    <2>8. AtSync = sp /\ AtSync' = sp'
        BY <1>5, <2>4 DEF AtSync
    <2>9. AtSync' + Taken(a) + holes' = AtSync + holes
        BY <1>5, <2>3, <2>4, <2>5, <2>8
    <2>10. a.at + a.size <= AtSync /\ AtSync' <= a.at
        BY <1>1, <1>5, <2>2, <2>3, <2>4, <2>8
    <2> QED
        BY <2>3, <2>6, <2>7, <2>9, <2>10, ArrayPushed
<1> QED
    BY <1>2, <1>3, <1>4, <1>7, <1>8 DEF StackAlloc

LEMMA StackFreeKeeps ==
    ASSUME StackAssumption, FrameStackInv, StackFree
    PROVE  FrameStackInv'
<1>1. /\ sp \in Int /\ sync_sp \in Int /\ holes \in Nat /\ (~unsynched => sync_sp = 0)
      /\ unsynched \in BOOLEAN
    BY DEF FrameStackInv, StackTypeOK
<1>2. arrays # <<>> /\ Drop /\ unsynched' = unsynched /\ holes' = holes
    BY DEF StackFree
<1>3. PICK a \in Array : a = Latest
    BY <1>2, LatestDropped DEF FrameStackInv, Latest
<1>4. a.size \in Nat
    BY DEF Array
<1>5. CASE FreeOnStack(a)
    <2>1. /\ ~unsynched /\ sp' = sp + a.size /\ sync_sp' = sync_sp /\ Taken(a) = a.size
        BY <1>5 DEF FreeOnStack, MoveFrame, Taken
    <2>2. StackTypeOK' /\ AtSync' = AtSync + Taken(a)
        BY <1>1, <1>2, <1>4, <2>1 DEF StackTypeOK, AtSync
    <2> QED
        BY <1>1, <1>2, <1>3, <2>2, ArrayDropped
<1>6. CASE FreeOnOtherStack(a)
    <2>1. /\ unsynched /\ sync_sp' = sync_sp + a.size /\ sp' = sp /\ Taken(a) = a.size
        BY <1>6 DEF FreeOnOtherStack, AdjustStack, Taken
    <2>2. StackTypeOK' /\ AtSync' = AtSync + Taken(a)
        BY <1>1, <1>2, <1>4, <2>1 DEF StackTypeOK, AtSync
    <2> QED
        BY <1>1, <1>2, <1>3, <2>2, ArrayDropped
<1>7. CASE FreeOnHeap(a)
    <2>1. sync_sp' = sync_sp /\ sp' = sp /\ Taken(a) = 0
        BY <1>7 DEF FreeOnHeap, Taken
    <2>2. StackTypeOK' /\ AtSync' = AtSync + Taken(a)
        BY <1>1, <1>2, <2>1 DEF StackTypeOK, AtSync
    <2> QED
        BY <1>1, <1>2, <1>3, <2>2, ArrayDropped
<1> QED
    BY <1>3, <1>5, <1>6, <1>7 DEF StackFree

(* A suspension and a resumption: the distance is to the same address.     *)
LEMMA ResumedKeeps ==
    ASSUME FrameStackInv, NEW new \in Int, Resume(PutStack(sync_sp), new),
           unsynched' \in BOOLEAN, unsynched' \/ new = PutStack(sync_sp),
           UNCHANGED <<arrays, holes>>
    PROVE  FrameStackInv'
<1>1. sp \in Int /\ sync_sp \in Int /\ holes \in Nat
    BY DEF FrameStackInv, StackTypeOK
<1>2. sp' = new /\ sync_sp' = (sp + sync_sp) - new
    BY DEF Resume, PutStack, TakeStack
<1>3. StackTypeOK'
    BY <1>1, <1>2 DEF StackTypeOK, PutStack
<1>4. AtSync' = AtSync
    BY <1>1, <1>2 DEF AtSync
<1> QED
    BY <1>3, <1>4, ArraysStay

(* What can be proved of a single step.                                    *)
LEMMA FrameStackStep ==
    ASSUME StackAssumption, FrameStackInv, [FNext]_stack_vars
    PROVE  FrameStackInv'
<1>0. /\ sp \in Int /\ sync_sp \in Int /\ holes \in Nat /\ (~unsynched => sync_sp = 0)
      /\ unsynched \in BOOLEAN
    BY DEF FrameStackInv, StackTypeOK
<1>1. CASE StackFree
    BY <1>1, StackFreeKeeps
<1>2. ASSUME NEW stack_base \in Stolen, Steal(stack_base) PROVE FrameStackInv'
    <2>1. Executing(stack_base) \in Int
        <3>1. stack_base - 5 \in Int
            BY DEF StackAssumption
        <3>2. 5 \in Nat \ {0}
            OBVIOUS
        <3> QED
            BY <3>1, <3>2, Rounded DEF Executing
    <2> QED
        BY <1>2, <2>1, ResumedKeeps DEF Steal
<1>3. CASE DetachPending
    <2>1. StackTypeOK' /\ AtSync' = AtSync /\ unsynched' \in BOOLEAN
        BY <1>0, <1>3 DEF DetachPending, StackTypeOK, AtSync
    <2> QED
        BY <1>3, <2>1, ArraysStay DEF DetachPending
<1>4. CASE Sync
    <2>1. PutStack(sync_sp) \in Int
        BY <1>0 DEF PutStack
    <2> QED
        BY <1>4, <2>1, ResumedKeeps DEF Sync
<1>5. CASE PushOne
    <2>1. PICK a : a = [on |-> "push", at |-> 0, size |-> 1, tag |-> 0]
        OBVIOUS
    <2>2. a \in Array /\ Taken(a) = 1 /\ a.on # "stack" /\ Push(a)
        BY <1>5, <2>1 DEF Array, Taken, PushOne
    <2>3. sp' = sp - 1 /\ UNCHANGED <<sync_sp, unsynched, holes>>
        BY <1>5 DEF PushOne
    <2>4. StackTypeOK' /\ unsynched' \in BOOLEAN /\ holes <= holes'
        BY <1>0, <2>3 DEF StackTypeOK
    <2>5. AtSync' + Taken(a) + holes' = AtSync + holes
        BY <1>0, <2>2, <2>3 DEF AtSync
    <2> QED
        BY <2>2, <2>4, <2>5, ArrayPushed
<1>6. CASE PopOne
    <2>1. arrays # <<>> /\ Drop /\ sp' = sp + 1 /\ UNCHANGED <<sync_sp, unsynched, holes>>
        BY <1>6 DEF PopOne
    <2>2. Latest \in Array /\ Latest.on = "push"
        BY <1>6, <2>1, LatestDropped DEF FrameStackInv, Latest, PopOne
    <2>3. Taken(Latest) = 1
        BY <2>2 DEF Array, Taken
    <2>4. StackTypeOK' /\ unsynched' \in BOOLEAN
        BY <1>0, <2>1 DEF StackTypeOK
    <2>5. AtSync' = AtSync + Taken(Latest)
        BY <1>0, <2>1, <2>3 DEF AtSync
    <2> QED
        BY <2>1, <2>4, <2>5, ArrayDropped
<1>7. CASE UNCHANGED stack_vars
    <2>1. StackTypeOK' /\ AtSync' = AtSync /\ unsynched' \in BOOLEAN
        BY <1>0, <1>7 DEF stack_vars, StackTypeOK, AtSync
    <2> QED
        BY <1>7, <2>1, ArraysStay DEF stack_vars
<1> QED
    BY <1>1, <1>2, <1>3, <1>4, <1>5, <1>6, <1>7, StackAllocKeeps DEF FNext

(* Wherever its continuation runs and whatever it frees there, a function  *)
(* comes back from its sync below every array on its first stack, arrays   *)
(* do not overlap, and what was allocated is given back to the last unit   *)
(* (full_frame.h:371-417, cilk-abi-vla.c:425-428), for any stacks, sizes,  *)
(* alignments and distances.                                               *)
THEOREM StackIsGivenBack ==
    ASSUME StackAssumption
    PROVE  FSpec => []FrameStackIsRight
<1>1. FInit => FrameStackInv
    <2> SUFFICES ASSUME FInit PROVE FrameStackInv
        OBVIOUS
    <2>1. PICK e \in Seq(Array) : e = <<>>
        BY EmptySeq
    <2>2. Sizes(e) = 0 /\ DOMAIN e = {}
        <3>1. Sizes(<<>>) = 0
            BY <2>1, SizesType
        <3>2. Len(e) = 0 /\ DOMAIN e = 1..Len(e)
            BY <2>1
        <3> QED
            BY <2>1, <3>1, <3>2
    <2>3. Fits(e, Home)
        BY <2>2 DEF Fits
    <2>4. AtSync = Home /\ StackTypeOK /\ unsynched \in BOOLEAN
        <3>1. sp = Home /\ sync_sp = 0 /\ holes = 0 /\ unsynched = FALSE /\ Home \in Int
            BY DEF FInit, StackAssumption
        <3>2. AtSync = Home
            BY <3>1 DEF AtSync
        <3>3. StackTypeOK
            BY <3>1 DEF StackTypeOK
        <3> QED
            BY <3>1, <3>2, <3>3
    <2>5. arrays = e /\ arrays \in Seq(Array) /\ holes = 0
        BY <2>1 DEF FInit
    <2>6. Fits(arrays, AtSync)
        BY <2>3, <2>4, <2>5
    <2>7. AtSync = Home - Sizes(arrays) - holes
        <3>1. Sizes(arrays) = 0 /\ Home \in Int
            BY <2>2, <2>5 DEF StackAssumption
        <3> QED
            BY <2>4, <2>5, <3>1
    <2> QED
        BY <2>4, <2>5, <2>6, <2>7 DEF FrameStackInv
<1>2. FrameStackInv /\ [FNext]_stack_vars => FrameStackInv'
    BY FrameStackStep
<1>3. FrameStackInv => FrameStackIsRight
    BY DEF FrameStackInv, FrameStackIsRight, StackIsExact, Fits
<1> QED
    BY <1>1, <1>2, <1>3, PTL DEF FSpec
=============================================================================

-------------------------- MODULE Dataflow_proofs --------------------------
(***************************************************************************)
(* Dataflow for every number of tasks, every finite set of objects and     *)
(* every set of accesses (dataflow_impl.c 20-201, cilk-abi.c 210-236,      *)
(* scheduler.c 955-982).                                                   *)
(*                                                                         *)
(* A task is kept waiting by counts: that of its pending frame, and those  *)
(* of each object's generations.  The counts say which tasks conflict only *)
(* because of the order on an object's list: IInv states it (ListOK,       *)
(* OldestOK), what the counts are with and without the mutex (FreeOK,      *)
(* WakingOK), what ini_ready has found without a lock (ParentOK), and that *)
(* whoever waits for an object no more has no task before it that is to    *)
(* end first (OrderOK).                                                    *)
(***************************************************************************)
EXTENDS Dataflow, IssueRace, FiniteSetTheorems, FunctionTheorems, SequenceTheorems, TLAPS

(* The tasks in an object's metadata: those on its list, and the oldest    *)
(* generation.  SameGen: the nodes i to j are of one generation.           *)
Group(t, o) == access[t][o]
Holders(o) == {t \in Tasks : Entered(t, o)}
Nodes(o) == {waiting[o][i] : i \in 1..Len(waiting[o])}
Oldest(o) == Holders(o) \ Nodes(o)
SameGen(o, i, j) == \A k \in i..(j - 1) : waiting[o][k] \notin last[o]

(* A task waits for an object until its node is woken.                     *)
Woken(o) == IF mutex[o] = Free THEN 0 ELSE walked[mutex[o]]
Waits(t, o) == \E i \in 1..Len(waiting[o]) : waiting[o][i] = t /\ i > Woken(o)
WaitsFor(t) == {o \in Objects : Waits(t, o)}
Held(t) == IF t = newest /\ spc \in {"issue", "issued"} THEN 1 ELSE 0

(* Where the parent is, and what ini_ready has found of the new task: an   *)
(* object that it may use at once stays so until the task is issued.       *)
Checked(o) ==
    /\ newest # 0 /\ o \in Arguments(newest)
    /\ \/ spc \in {"check", "group"} /\ o \notin args
       \/ spc \in {"call", "called"}
       \/ spc = "deferred" /\ o \in args
Compatible(o) == num_gens[o] = 0 \/ (num_gens[o] = 1 /\ Shares(youngest_group[o], Group(newest, o)))
ParentOK ==
    /\ \A t \in Tasks : tpc[t] = "unborn" <=>
          t > newest \/ (t = newest /\ spc \in {"check", "group", "call", "pending"})
    /\ newest = 0 => spc = "idle"
    /\ spc \in {"called", "deferred"} => tpc[newest] = "running"
    /\ spc \in {"issue", "issued"} => tpc[newest] = "pending"
    /\ spc \in {"check", "group", "deferred", "issue"} => args \subseteq Arguments(newest)
    /\ spc = "group" => /\ seen \in Objects \X Nat /\ seen[1] \in args
                        /\ num_gens[seen[1]] <= seen[2]
    /\ \A o \in Objects : Checked(o) => Compatible(o)

(* The list of an object is in the order of the spawns.  The marks are     *)
(* where two neighbours do not share a generation.                         *)
InOrder(o) ==
    \A i, j \in 1..Len(waiting[o]) : i < j => waiting[o][i] < waiting[o][j]
Sharing(o) ==
    \A i, j \in 1..Len(waiting[o]) :
        i < j /\ SameGen(o, i, j) => Shares(Group(waiting[o][i], o), Group(waiting[o][j], o))
Marked(o) ==
    /\ \A i \in 1..(Len(waiting[o]) - 1) :
          waiting[o][i] \in last[o] => ~Shares(Group(waiting[o][i], o), Group(waiting[o][i + 1], o))
    /\ waiting[o] # <<>> => waiting[o][Len(waiting[o])] \notin last[o]
    /\ \A t \in last[o] : t < newest
Youngest(o) ==
    \A i \in 1..Len(waiting[o]) :
        SameGen(o, i, Len(waiting[o])) => Group(waiting[o][i], o) = youngest_group[o]
ListOK(o) == Nodes(o) \subseteq Holders(o) /\ InOrder(o) /\ Sharing(o) /\ Marked(o) /\ Youngest(o)
OldestOK(o) ==
    /\ \A s \in Oldest(o), t \in Nodes(o) : s < t
    /\ \A s \in Oldest(o) : IF waiting[o] = <<>> THEN Group(s, o) = youngest_group[o]
                            ELSE ~Shares(Group(s, o), Group(waiting[o][1], o))

(* The counts, while nobody has the mutex, ...                             *)
Generations(o) == IF waiting[o] = <<>> THEN 0 ELSE 1 + Cardinality(last[o] \cap Nodes(o))
FreeOK(o) ==
    /\ oldest_num_tasks[o] = Cardinality(Oldest(o))
    /\ num_gens[o] = IF Oldest(o) = {} THEN 0 ELSE 1 + Generations(o)
    /\ Oldest(o) = {} => waiting[o] = <<>>
    /\ youngest_group[o] = "empty" <=> num_gens[o] = 0

(* ... and while the last task of the oldest generation has it.            *)
WakingOK(o, t) ==
    /\ tpc[t] \in {"empty", "walk", "pop"} /\ Oldest(o) = {t} /\ o \in todo[t]
    /\ oldest_num_tasks[o] = 0
    /\ tpc[t] = "empty" => num_gens[o] = 0 /\ waiting[o] = <<>>
    /\ tpc[t] \in {"walk", "pop"} =>
          /\ waiting[o] # <<>> /\ num_gens[o] = 1 + Generations(o)
          /\ walked[t] <= Len(waiting[o])
          /\ \A i \in 1..walked[t] : i # walked[t] => waiting[o][i] \notin last[o]
    /\ tpc[t] = "walk" =>
          /\ walked[t] < Len(waiting[o])
          /\ walked[t] # 0 => waiting[o][walked[t]] \notin last[o]
    /\ tpc[t] = "pop" =>
          /\ walked[t] # 0
          /\ waiting[o][walked[t]] \in last[o] \/ walked[t] = Len(waiting[o])
ObjectOK(o) ==
    /\ ListOK(o) /\ OldestOK(o)
    /\ mutex[o] = Free => FreeOK(o)
    /\ \A t \in Tasks : mutex[o] = t => WakingOK(o, t)
MutexOK == \A o, p \in Objects : mutex[o] # Free /\ mutex[o] = mutex[p] => o = p

(* The tasks: the count of a pending frame, and the lists of those that    *)
(* became ready.                                                           *)
TodoOK == \A t \in Tasks : Releasing(t) => todo[t] \subseteq Arguments(t)
CountOK ==
    /\ \A t \in Tasks, o \in Objects : Waits(t, o) => tpc[t] = "pending"
    /\ \A t \in Tasks : tpc[t] = "pending" =>
          /\ incoming_count[t] = Cardinality(WaitsFor(t)) + Held(t)
          /\ incoming_count[t] = 0 => \E s \in Tasks : t \in rlist[s]
ReadyOK ==
    \A s \in Tasks : \A t \in rlist[s] :
        /\ tpc[t] = "pending" /\ incoming_count[t] = 0
        /\ Releasing(s) /\ s < t /\ Conflict(access[s], access[t])
        /\ \A r \in Tasks : t \in rlist[r] => r = s

(* What a task no longer waits for has no earlier task that conflicts.     *)
Cleared(t, o) ==
    /\ t <= newest /\ o \in Arguments(t) /\ tpc[t] # "unborn"
    /\ ~(t = newest /\ spc = "issue" /\ o \in args)
    /\ ~Waits(t, o)
OrderOK ==
    \A t \in Tasks, o \in Objects : Cleared(t, o) =>
        \A s \in Tasks : s < t /\ o \in Arguments(s) /\ ~Shares(Group(s, o), Group(t, o)) =>
            s \in ended

IInv == /\ TypeOK /\ ParentOK /\ (\A o \in Objects : ObjectOK(o)) /\ MutexOK
        /\ TodoOK /\ CountOK /\ ReadyOK /\ OrderOK

-----------------------------------------------------------------------------
(* Finite sets of tasks and of objects.                                    *)
LEMMA Finite ==
    ASSUME DataflowAssumption
    PROVE  /\ Tasks \subseteq Nat /\ IsFiniteSet(Tasks)
           /\ \A S \in SUBSET Tasks : IsFiniteSet(S) /\ Cardinality(S) \in Nat
           /\ \A S \in SUBSET Objects : IsFiniteSet(S) /\ Cardinality(S) \in Nat
<1>1. IsFiniteSet(Tasks) /\ Tasks \subseteq Nat
  BY FS_Interval DEF DataflowAssumption, Tasks
<1>2. QED
  BY <1>1, FS_Subset, FS_CardinalityType DEF DataflowAssumption

(* A finite set with one element more and with one less.                   *)
LEMMA CardPlus ==
    ASSUME NEW S, IsFiniteSet(S), NEW x, x \notin S
    PROVE  Cardinality(S \cup {x}) = Cardinality(S) + 1
  BY FS_AddElement

(* Taking an element away from a finite set makes it one smaller.          *)
LEMMA CardMinus ==
    ASSUME NEW S, IsFiniteSet(S), NEW x \in S
    PROVE  /\ Cardinality(S \ {x}) = Cardinality(S) - 1
           /\ Cardinality(S) \in Nat /\ Cardinality(S) > 0
  BY FS_RemoveElement, FS_CardinalityType, FS_EmptySet

(* A finite set is of size one when it has the one element only.           *)
LEMMA CardOne ==
    ASSUME NEW S, IsFiniteSet(S), NEW x \in S
    PROVE  Cardinality(S) = 1 <=> S = {x}
<1>1. Cardinality(S) = 1 => S = {x}
  BY FS_Singleton
<1>2. Cardinality({x}) = 1
  BY FS_Singleton
<1>3. QED
  BY <1>1, <1>2

(* What a spawned task may access.                                         *)
LEMMA AccessOf ==
    ASSUME DataflowAssumption, TypeOK, NEW t \in 1..newest
    PROVE  /\ access[t] \in Accesses /\ Arguments(t) \subseteq Objects
           /\ \A o \in Arguments(t) : Group(t, o) \in {"read", "write", "commut"}
<1>1. access[t] \in Accesses
  BY DEF TypeOK, newest
<1>2. PICK os \in SUBSET Objects : access[t] \in [os -> {"read", "write", "commut"}]
  BY <1>1 DEF DataflowAssumption
<1>3. QED
  BY <1>1, <1>2 DEF Arguments, Group

(* Numbers of tasks.                                                       *)
LEMMA Newest ==
    ASSUME DataflowAssumption, TypeOK
    PROVE  /\ newest \in Nat /\ newest <= MaxTasks /\ MaxTasks \in Nat
           /\ \A t : t \in Tasks <=> t \in Nat /\ 1 <= t /\ t <= MaxTasks
           /\ newest # 0 => newest \in Tasks
  BY DEF DataflowAssumption, TypeOK, newest, Tasks

(* The list of an object, and its last node.                               *)
LEMMA Listed ==
    ASSUME DataflowAssumption, TypeOK, NEW o \in Objects
    PROVE  /\ waiting[o] \in Seq(Tasks) /\ Len(waiting[o]) \in Nat
           /\ \A i \in 1..Len(waiting[o]) : waiting[o][i] \in Tasks
           /\ waiting[o] = <<>> <=> Len(waiting[o]) = 0
           /\ Nodes(o) \subseteq Tasks /\ (waiting[o] = <<>> <=> Nodes(o) = {})
           /\ last[o] \subseteq Tasks
<1>1. waiting[o] \in Seq(Tasks) /\ Len(waiting[o]) \in Nat /\ last[o] \subseteq Tasks
  BY DEF TypeOK
<1>2. \A i \in 1..Len(waiting[o]) : waiting[o][i] \in Tasks
  BY <1>1
<1>3. waiting[o] = <<>> <=> Len(waiting[o]) = 0
  BY <1>1
<1>4. Nodes(o) \subseteq Tasks
  BY <1>2 DEF Nodes
<1>5. Nodes(o) = {} <=> Len(waiting[o]) = 0
  <2>1. Len(waiting[o]) # 0 => waiting[o][1] \in Nodes(o)
    BY <1>1 DEF Nodes
  <2>2. Len(waiting[o]) = 0 => \A i : i \notin 1..Len(waiting[o])
    OBVIOUS
  <2>3. Len(waiting[o]) = 0 => Nodes(o) = {}
    BY <2>2 DEF Nodes
  <2>4. QED
    BY <2>1, <2>3
<1>6. QED
  BY <1>1, <1>2, <1>3, <1>4, <1>5

(* Who is in the metadata of an object.                                    *)
LEMMA Holding ==
    ASSUME DataflowAssumption, TypeOK, NEW o \in Objects, ObjectOK(o)
    PROVE  /\ \A t \in Nodes(o) : t \in Holders(o) /\ t \in 1..newest /\ o \in Arguments(t)
           /\ \A t \in Holders(o) : t \in Tasks /\ Entered(t, o) /\ t \in 1..newest /\ o \in Arguments(t)
           /\ Oldest(o) \subseteq Holders(o)
           /\ \A t \in Holders(o) : t \in Oldest(o) \/ t \in Nodes(o)
           /\ IsFiniteSet(Oldest(o)) /\ Cardinality(Oldest(o)) \in Nat
<1>1. Nodes(o) \subseteq Holders(o)
  BY DEF ObjectOK, ListOK
<1>2. \A t \in Holders(o) : t \in Tasks /\ Entered(t, o) /\ t \in 1..newest /\ o \in Arguments(t)
  BY Newest DEF Holders, Entered, Tasks, DataflowAssumption
<1>3. Oldest(o) \in SUBSET Tasks
  BY <1>2 DEF Oldest
<1>4. IsFiniteSet(Oldest(o)) /\ Cardinality(Oldest(o)) \in Nat
  BY <1>3, Finite
<1>5. QED
  BY <1>1, <1>2, <1>4 DEF Oldest

-----------------------------------------------------------------------------
(* What a step leaves alone: the accesses of the tasks spawned so far, ... *)
Extended ==
    /\ newest <= newest'
    /\ \A t \in 1..newest : access'[t] = access[t]

(* ... who is in an object's metadata, ...                                 *)
SameMembers(o) == \A t \in Tasks : Entered(t, o)' <=> Entered(t, o)

(* ... the metadata itself, and whoever has its mutex.                     *)
SameMetadata(o) ==
    /\ num_gens'[o] = num_gens[o] /\ youngest_group'[o] = youngest_group[o]
    /\ oldest_num_tasks'[o] = oldest_num_tasks[o] /\ waiting'[o] = waiting[o]
    /\ last'[o] = last[o] /\ mutex'[o] = mutex[o]
SameHolder(o) ==
    mutex[o] # Free =>
        /\ tpc'[mutex[o]] = tpc[mutex[o]] /\ walked'[mutex[o]] = walked[mutex[o]]
        /\ o \in todo[mutex[o]] => o \in todo'[mutex[o]]

(* The list of an object is in order although other parts of it change.    *)
LEMMA ListSame ==
    ASSUME DataflowAssumption, TypeOK, NEW o \in Objects, ObjectOK(o), Extended,
           waiting'[o] = waiting[o], last'[o] = last[o], youngest_group'[o] = youngest_group[o],
           \A t \in Nodes(o) : Entered(t, o) => Entered(t, o)'
    PROVE  ListOK(o)'
<1> DEFINE w == waiting[o]
           n == Len(w)
<1>1. /\ \A t \in Nodes(o) : t \in Holders(o) /\ t \in Tasks /\ Entered(t, o) /\ access'[t] = access[t]
      /\ n \in Nat /\ newest \in Nat /\ newest' \in Nat
      /\ \A i \in 1..n : w[i] \in Nodes(o)
  <2>1. newest \in Nat /\ newest' \in Nat
    BY Newest DEF newest, Extended, TypeOK
  <2>2. QED
    BY <2>1, Holding, Listed DEF Extended, Nodes
<1>2. Nodes(o)' = Nodes(o)
  BY DEF Nodes
<1>3. \A i, j : SameGen(o, i, j)' <=> SameGen(o, i, j)
  BY DEF SameGen
<1>4. \A i \in 1..n : Group(w[i], o)' = Group(w[i], o)
  BY <1>1 DEF Group
<1>5. ListOK(o)
  BY DEF ObjectOK
<1>13. waiting'[o] = w /\ Len(waiting'[o]) = n
  OBVIOUS
<1>6. Nodes(o)' \subseteq Holders(o)'
  BY <1>1, <1>2 DEF Holders
<1>7. InOrder(o)'
  BY <1>5, <1>13 DEF ListOK, InOrder
<1>8. Sharing(o)'
  BY <1>5, <1>3, <1>4, <1>13 DEF ListOK, Sharing, Shares
<1>9. Marked(o)'
  <2>1. \A i \in 1..(n - 1) : w[i] \in last[o] => ~Shares(Group(w[i], o)', Group(w[i + 1], o)')
    BY <1>5, <1>1, <1>4 DEF ListOK, Marked
  <2>2. (w # <<>> => w[n] \notin last[o]) /\ \A t \in last[o] : t < newest
    BY <1>5 DEF ListOK, Marked
  <2>3. \A t \in last[o] : t < newest'
    BY <2>2, <1>1, Listed, Finite DEF Extended
  <2>4. QED
    BY <2>1, <2>2, <2>3, <1>13 DEF Marked, Shares
<1>10. Youngest(o)'
  BY <1>5, <1>3, <1>4, <1>13 DEF ListOK, Youngest
<1>14. QED
  BY <1>6, <1>7, <1>8, <1>9, <1>10 DEF ListOK

(* Its oldest generation likewise.                                         *)
LEMMA OldestSame ==
    ASSUME DataflowAssumption, TypeOK, NEW o \in Objects, ObjectOK(o), Extended,
           waiting'[o] = waiting[o], youngest_group'[o] = youngest_group[o],
           \A t \in Tasks : Entered(t, o)' => Entered(t, o)
    PROVE  OldestOK(o)' /\ Oldest(o)' \subseteq Oldest(o)
<1>1. Oldest(o)' \subseteq Oldest(o) /\ Nodes(o)' = Nodes(o)
  BY DEF Oldest, Holders, Nodes
<1>2. \A t \in Holders(o) : Group(t, o)' = Group(t, o)
  BY Holding DEF Group, Extended
<1>3. waiting[o] # <<>> => Group(waiting[o][1], o)' = Group(waiting[o][1], o)
  BY <1>2, Listed, Holding DEF Nodes
<1>4. OldestOK(o) /\ Oldest(o) \subseteq Holders(o)
  BY DEF ObjectOK, Oldest
<1>5. QED
  BY <1>1, <1>2, <1>3, <1>4 DEF OldestOK, Shares

(* An object that a step does not touch.                                   *)
LEMMA ObjectSame ==
    ASSUME DataflowAssumption, TypeOK, NEW o \in Objects, ObjectOK(o), Extended,
           SameMembers(o), SameMetadata(o), SameHolder(o)
    PROVE  ObjectOK(o)'
<1>1. ListOK(o)'
  BY ListSame, Listed DEF SameMembers, SameMetadata
<1>2. OldestOK(o)'
  BY OldestSame DEF SameMembers, SameMetadata
<1>3. Nodes(o)' = Nodes(o) /\ Oldest(o)' = Oldest(o) /\ Generations(o)' = Generations(o)
  <2>1. Nodes(o)' = Nodes(o)
    BY DEF Nodes, SameMetadata
  <2>2. Oldest(o)' = Oldest(o)
    BY <2>1 DEF Oldest, Holders, SameMembers
  <2>3. QED
    BY <2>1, <2>2 DEF Generations, SameMetadata
<1>4. mutex'[o] = Free => FreeOK(o)'
  <2>1. mutex[o] = Free => FreeOK(o)
    BY DEF ObjectOK
  <2>2. QED
    BY <2>1, <1>3 DEF FreeOK, SameMetadata
<1>5. ASSUME NEW t \in Tasks, mutex'[o] = t
      PROVE  WakingOK(o, t)'
  <2>1. WakingOK(o, t) /\ t # Free /\ mutex[o] = t
    BY <1>5 DEF ObjectOK, SameMetadata, DataflowAssumption
  <2>2. tpc'[t] = tpc[t] /\ walked'[t] = walked[t] /\ (o \in todo[t] => o \in todo'[t])
    BY <2>1 DEF SameHolder
  <2>3. QED
    BY <2>1, <2>2, <1>3 DEF WakingOK, SameMetadata
<1>6. QED
  BY <1>1, <1>2, <1>4, <1>5 DEF ObjectOK

(* Who waits for it stays the same as well.                                *)
LEMMA WaitsSame ==
    ASSUME NEW o \in Objects, waiting'[o] = waiting[o], mutex'[o] = mutex[o],
           mutex[o] # Free => walked'[mutex[o]] = walked[mutex[o]]
    PROVE  \A t : Waits(t, o)' <=> Waits(t, o)
<1>1. Woken(o)' = Woken(o)
  BY DEF Woken
<1>2. QED
  BY <1>1 DEF Waits

(* A task that has nothing to wait for stays so, as bodies do not un-end.  *)
MayUse(t, o) ==
    \A s \in Tasks : s < t /\ o \in Arguments(s) /\ ~Shares(Group(s, o), Group(t, o)) => s \in ended

(* OrderOK holds after a step that ends bodies but un-ends none.           *)
LEMMA OrderKept ==
    ASSUME DataflowAssumption, TypeOK, OrderOK, Extended, ended \subseteq ended',
           \A t \in Tasks, o \in Objects :
              Cleared(t, o)' => t <= newest /\ (Cleared(t, o) \/ MayUse(t, o))
    PROVE  OrderOK'
<1> SUFFICES ASSUME NEW t \in Tasks, NEW o \in Objects, Cleared(t, o)',
                    NEW s \in Tasks, s < t, o \in Arguments(s)',
                    ~Shares(Group(s, o)', Group(t, o)')
             PROVE  s \in ended'
  BY DEF OrderOK, Shares
<1>1. t <= newest /\ MayUse(t, o)
  BY DEF OrderOK, MayUse
<1>2. s \in 1..newest /\ t \in 1..newest
  BY <1>1, Newest, Finite
<1>3. access'[s] = access[s] /\ access'[t] = access[t]
  BY <1>2 DEF Extended
<1>4. o \in Arguments(s) /\ ~Shares(Group(s, o), Group(t, o))
  BY <1>3 DEF Arguments, Group, Shares
<1>5. QED
  BY <1>1, <1>4 DEF MayUse

(* ini_ready: the new task conflicts with no earlier one that runs on.    *)
LEMMA CompatibleClears ==
    ASSUME DataflowAssumption, TypeOK, ParentOK, NEW o \in Objects, ObjectOK(o),
           newest # 0, o \in Arguments(newest), Compatible(o)
    PROVE  MayUse(newest, o)
<1> SUFFICES ASSUME NEW s \in Tasks, s < newest, o \in Arguments(s), s \notin ended,
                    ~Shares(Group(s, o), Group(newest, o))
             PROVE  FALSE
  BY DEF MayUse
<1>1. newest \in Tasks /\ s \in 1..newest /\ s # newest /\ newest \in Nat
  BY Newest, Finite
<1>2. tpc[s] \in {"pending", "ready", "running"}
  <2>1. tpc[s] # "unborn"
    BY <1>1 DEF ParentOK, Tasks
  <2>2. QED
    BY <2>1 DEF TypeOK, ended, Releasing
<1>3. s \in Holders(o)
  BY <1>1, <1>2 DEF Holders, Entered
<1>4. CASE mutex[o] = Free
  <2>1. FreeOK(o)
    BY <1>4 DEF ObjectOK
  <2>2. Oldest(o) # {}
    BY <2>1, <1>3, Listed DEF FreeOK, Oldest
  <2>3. Generations(o) \in Nat /\ (Generations(o) = 0 <=> waiting[o] = <<>>)
    <3>1. Cardinality(last[o] \cap Nodes(o)) \in Nat
      BY Finite, Listed
    <3>2. QED
      BY <3>1 DEF Generations
  <2>4. num_gens[o] = 1 /\ waiting[o] = <<>> /\ Shares(youngest_group[o], Group(newest, o))
    BY <2>1, <2>2, <2>3 DEF FreeOK, Compatible
  <2>5. s \in Oldest(o)
    BY <2>4, <1>3, Listed DEF Oldest
  <2>6. Group(s, o) = youngest_group[o]
    BY <2>4, <2>5 DEF ObjectOK, OldestOK
  <2>7. QED
    BY <2>4, <2>6
<1>5. CASE mutex[o] # Free
  <2> DEFINE t == mutex[o]
  <2>1. WakingOK(o, t)
    BY <1>5 DEF ObjectOK, TypeOK
  <2>2. Generations(o) \in Nat /\ (Generations(o) = 0 <=> waiting[o] = <<>>)
    <3>1. Cardinality(last[o] \cap Nodes(o)) \in Nat
      BY Finite, Listed
    <3>2. QED
      BY <3>1 DEF Generations
  <2>3. tpc[t] = "empty" /\ waiting[o] = <<>>
    BY <2>1, <2>2 DEF WakingOK, Compatible
  <2>4. s = t
    BY <2>1, <2>3, <1>3, Listed DEF WakingOK, Oldest
  <2>5. QED
    BY <2>3, <2>4, <1>2
<1>6. QED
  BY <1>4, <1>5

-----------------------------------------------------------------------------
(* The invariant's parts, each by its name.                                *)
LEMMA InvParts ==
    ASSUME IInv
    PROVE  /\ TypeOK /\ ParentOK /\ (\A o \in Objects : ObjectOK(o)) /\ MutexOK
           /\ TodoOK /\ CountOK /\ ReadyOK /\ OrderOK
  BY DEF IInv

(* Whoever has a mutex is waking the object's next generation.             *)
LEMMA Waking ==
    ASSUME TypeOK, NEW o \in Objects, ObjectOK(o), mutex[o] # Free
    PROVE  /\ mutex[o] \in Tasks /\ WakingOK(o, mutex[o])
           /\ tpc[mutex[o]] \in {"empty", "walk", "pop"} /\ o \in todo[mutex[o]]
  BY DEF TypeOK, ObjectOK, WakingOK

(* Operations without effect on the metadata: ...                          *)
LEMMA MetadataKept ==
    ASSUME DataflowAssumption, IInv, Extended, UNCHANGED <<metadata, walked>>,
           \A o \in Objects : SameMembers(o),
           \A t \in Tasks : tpc[t] \in {"empty", "walk", "pop"} => tpc'[t] = tpc[t] /\ todo'[t] = todo[t]
    PROVE  /\ \A o \in Objects : ObjectOK(o)'
           /\ MutexOK'
           /\ \A o \in Objects : \A t : Waits(t, o)' <=> Waits(t, o)
           /\ \A t : WaitsFor(t)' = WaitsFor(t)
<1>1. TypeOK /\ (\A o \in Objects : ObjectOK(o)) /\ MutexOK
  BY InvParts
<1>2. \A o \in Objects : SameMetadata(o) /\ SameHolder(o)
  BY <1>1, Waking DEF SameMetadata, SameHolder, metadata
<1>3. \A o \in Objects : ObjectOK(o)'
  BY <1>1, <1>2, ObjectSame
<1>4. MutexOK'
  BY <1>1 DEF MutexOK, metadata
<1>5. \A o \in Objects : \A t : Waits(t, o)' <=> Waits(t, o)
  BY WaitsSame DEF metadata
<1>6. \A t : WaitsFor(t)' = WaitsFor(t)
  BY <1>5 DEF WaitsFor
<1>7. QED
  BY <1>3, <1>4, <1>5, <1>6

(* ... and without effect on the pending frames and the tasks made ready.  *)
LEMMA QuietStep ==
    ASSUME DataflowAssumption, IInv, TypeOK', Extended,
           UNCHANGED <<metadata, incoming_count, rlist, walked>>,
           \A o \in Objects : SameMembers(o),
           \A t \in Tasks : /\ tpc[t] \in {"empty", "walk", "pop"} =>
                                  tpc'[t] = tpc[t] /\ todo'[t] = todo[t]
                            /\ tpc'[t] = "pending" <=> tpc[t] = "pending"
                            /\ Releasing(t) => Releasing(t)'
                            /\ Held(t)' = Held(t),
           ParentOK', TodoOK', ended \subseteq ended',
           \A t \in Tasks, o \in Objects :
              Cleared(t, o)' => t <= newest /\ (Cleared(t, o) \/ MayUse(t, o))
    PROVE  IInv'
<1>1. /\ TypeOK /\ ParentOK /\ (\A o \in Objects : ObjectOK(o)) /\ MutexOK
      /\ TodoOK /\ CountOK /\ ReadyOK /\ OrderOK
  BY InvParts
<1>2. /\ \A o \in Objects : ObjectOK(o)'
      /\ MutexOK'
      /\ \A o \in Objects : \A t : Waits(t, o)' <=> Waits(t, o)
      /\ \A t : WaitsFor(t)' = WaitsFor(t)
  BY MetadataKept
<1>3. CountOK'
  BY <1>1, <1>2 DEF CountOK
<1>4. ReadyOK'
  <2> SUFFICES ASSUME NEW s \in Tasks, NEW t \in rlist[s]
               PROVE  /\ tpc'[t] = "pending" /\ incoming_count[t] = 0
                      /\ Releasing(s)' /\ s < t /\ Conflict(access'[s], access'[t])
                      /\ \A r \in Tasks : t \in rlist[r] => r = s
    BY DEF ReadyOK
  <2>1. /\ tpc[t] = "pending" /\ incoming_count[t] = 0 /\ t \in Tasks
        /\ Releasing(s) /\ s < t /\ Conflict(access[s], access[t])
        /\ \A r \in Tasks : t \in rlist[r] => r = s
    BY <1>1 DEF ReadyOK, TypeOK
  <2>2. t \in 1..newest /\ s \in 1..newest
    BY <1>1, <2>1, Newest, Finite DEF ParentOK
  <2>3. access'[s] = access[s] /\ access'[t] = access[t]
    BY <2>2 DEF Extended
  <2>4. QED
    BY <2>1, <2>3
<1>5. OrderOK'
  BY <1>1, OrderKept
<1>6. QED
  BY <1>1, <1>2, <1>3, <1>4, <1>5 DEF IInv

(* ini_ready, before the parent knows what to do with the task.            *)
LEMMA SpawnStep ==
    ASSUME DataflowAssumption, IInv, NEW a \in Accesses, Spawn(a)
    PROVE  IInv'
<1>1. /\ TypeOK /\ ParentOK /\ (\A o \in Objects : ObjectOK(o)) /\ MutexOK
      /\ TodoOK /\ CountOK /\ ReadyOK /\ OrderOK
  BY InvParts
<1>2. /\ newest \in Nat /\ newest' = newest + 1 /\ newest + 1 <= MaxTasks /\ access'[newest + 1] = a
      /\ access' \in Seq(Accesses)
      /\ \A t \in 1..newest : access'[t] = access[t]
      /\ spc = "idle" /\ spc' = "check"
      /\ args' = DOMAIN a /\ UNCHANGED <<metadata, tasks, seen>>
  <2>1. access \in Seq(Accesses) /\ newest \in Nat /\ newest < MaxTasks /\ MaxTasks \in Nat
    BY <1>1, Newest DEF Spawn, TypeOK
  <2>2. QED
    BY <2>1 DEF Spawn, newest, SpawnerGoto
<1>3. Extended
  BY <1>2 DEF Extended
<1>4. TypeOK'
  <2>1. DOMAIN a \subseteq Objects
    BY DEF DataflowAssumption
  <2>2. QED
    BY <1>1, <1>2, <2>1 DEF TypeOK, metadata, tasks
<1>5. \A t \in Tasks : tpc[t] # "unborn" => t \in 1..newest
  BY <1>1, Newest, Finite DEF ParentOK
<1>6. \A o \in Objects : SameMembers(o)
  <2> SUFFICES ASSUME NEW o \in Objects, NEW t \in Tasks
               PROVE  Entered(t, o)' <=> Entered(t, o)
    BY DEF SameMembers
  <2>1. CASE tpc[t] = "unborn"
    BY <2>1, <1>2 DEF Entered, tasks, Releasing
  <2>2. CASE tpc[t] # "unborn"
    BY <2>2, <1>2, <1>5 DEF Entered, tasks, Releasing, Arguments
  <2>3. QED
    BY <2>1, <2>2
<1>7. ParentOK'
  <2>1. \A t \in Tasks : tpc'[t] = "unborn" <=> t > newest' \/ t = newest'
    BY <1>1, <1>2, Finite DEF ParentOK, tasks
  <2>2. \A o : ~Checked(o)'
    BY <1>2 DEF Checked, Arguments
  <2>3. args' = DOMAIN (access'[newest'])
    BY <1>2
  <2>4. QED
    BY <1>2, <2>1, <2>2, <2>3 DEF ParentOK, Arguments
<1>8. TodoOK'
  BY <1>1, <1>2, <1>5 DEF TodoOK, tasks, Releasing, Arguments
<1>9. ended \subseteq ended'
  BY <1>2 DEF ended, Releasing, tasks
<1>10. \A t \in Tasks, o \in Objects : Cleared(t, o)' => t <= newest /\ Cleared(t, o)
  <2> SUFFICES ASSUME NEW t \in Tasks, NEW o \in Objects, Cleared(t, o)'
               PROVE  t <= newest /\ Cleared(t, o)
    OBVIOUS
  <2>1. t \in 1..newest
    BY <1>2, <1>5 DEF Cleared, tasks
  <2>2. Waits(t, o)' <=> Waits(t, o)
    BY <1>2, WaitsSame DEF metadata, tasks
  <2>3. QED
    BY <1>2, <2>1, <2>2 DEF Cleared, tasks, Arguments
<1>11. \A t \in Tasks : Held(t)' = Held(t)
  BY <1>2 DEF Held
<1>12. \A t \in Tasks : Releasing(t)' <=> Releasing(t)
  BY <1>2 DEF Releasing, tasks
<1>13. QED
  BY <1>2, <1>3, <1>4, <1>6, <1>7, <1>8, <1>9, <1>10, <1>11, <1>12, QuietStep DEF tasks

(* The number of generations on a list, and in the object.                 *)
LEMMA GenerationCount ==
    ASSUME DataflowAssumption, TypeOK, NEW o \in Objects
    PROVE  Generations(o) \in Nat /\ (Generations(o) = 0 <=> waiting[o] = <<>>)
<1>1. Cardinality(last[o] \cap Nodes(o)) \in Nat
  BY Finite, Listed
<1>2. QED
  BY <1>1 DEF Generations

(* An object with one generation has tasks, and nobody waking them.        *)
LEMMA NotEmpty ==
    ASSUME DataflowAssumption, TypeOK, NEW o \in Objects, ObjectOK(o), num_gens[o] = 1
    PROVE  mutex[o] = Free /\ youngest_group[o] # "empty" /\ waiting[o] = <<>>
<1>1. mutex[o] # Free => FALSE
  BY Waking, GenerationCount DEF WakingOK
<1>2. QED
  BY <1>1, GenerationCount DEF ObjectOK, FreeOK

(* ini_ready reads num_gens (dataflow_impl.c:30).                          *)
LEMMA ReadGensStep ==
    ASSUME DataflowAssumption, IInv, NEW o \in Objects, ReadGens(o)
    PROVE  IInv'
<1>1. /\ TypeOK /\ ParentOK /\ TodoOK /\ OrderOK
  BY InvParts
<1>2. /\ spc = "check" /\ spc' = "group" /\ o \in args /\ seen' = <<o, num_gens[o]>>
      /\ UNCHANGED <<metadata, access, tasks, args>>
  BY DEF ReadGens, SpawnerGoto
<1>3. Extended /\ newest' = newest
  BY <1>1, <1>2, Newest DEF Extended, newest
<1>4. TypeOK'
  BY <1>1, <1>2 DEF TypeOK, metadata, tasks, newest
<1>5. \A p \in Objects : SameMembers(p)
  BY <1>2, <1>3 DEF SameMembers, Entered, tasks, Arguments, Releasing
<1>6. \A p \in Objects : Checked(p)' <=> Checked(p)
  BY <1>2, <1>3 DEF Checked, Arguments
<1>7. \A p \in Objects : Compatible(p)' <=> Compatible(p)
  BY <1>2, <1>3 DEF Compatible, metadata, Group
<1>8. seen' \in Objects \X Nat /\ seen'[1] = o /\ seen'[2] = num_gens[o] /\ num_gens[o] <= num_gens[o]
  BY <1>1, <1>2 DEF TypeOK
<1>9. ParentOK'
  BY <1>1, <1>2, <1>3, <1>6, <1>7, <1>8 DEF ParentOK, tasks, Arguments, metadata
<1>10. TodoOK' /\ ended' = ended
  BY <1>1, <1>2 DEF TodoOK, ended, Releasing, tasks, Arguments
<1>11. \A t \in Tasks, p \in Objects : Cleared(t, p)' => t <= newest /\ Cleared(t, p)
  <2>1. \A t \in Tasks, p \in Objects : Waits(t, p)' <=> Waits(t, p)
    BY <1>2, WaitsSame DEF metadata, tasks
  <2>2. QED
    BY <2>1, <1>2, <1>3 DEF Cleared, tasks, Arguments
<1>12. \A t \in Tasks : Held(t)' = Held(t) /\ (Releasing(t) => Releasing(t)')
  BY <1>2, <1>3 DEF Held, Releasing, tasks
<1>13. QED
  BY <1>2, <1>3, <1>4, <1>5, <1>9, <1>10, <1>11, <1>12, QuietStep DEF tasks

(* ini_ready finds an argument ready: it is compatible, and stays so.      *)
LEMMA ArgumentReadyStep ==
    ASSUME DataflowAssumption, IInv, ArgumentReady
    PROVE  IInv'
<1> DEFINE o == seen[1]
<1>1. /\ TypeOK /\ ParentOK /\ TodoOK /\ OrderOK /\ \A p \in Objects : ObjectOK(p)
  BY InvParts
<1>2. /\ spc = "group" /\ seen' = <<>> /\ args' = args \ {o}
      /\ spc' = IF args = {o} THEN "call" ELSE "check"
      /\ UNCHANGED <<metadata, access, tasks>>
  BY DEF ArgumentReady, NextArgument
<1>3. Extended /\ newest' = newest
  BY <1>1, <1>2, Newest DEF Extended, newest
<1>4. TypeOK'
  BY <1>1, <1>2 DEF TypeOK, metadata, tasks, newest
<1>5. \A p \in Objects : SameMembers(p)
  BY <1>2, <1>3 DEF SameMembers, Entered, tasks, Arguments, Releasing
<1>6. /\ newest # 0 /\ o \in Objects /\ o \in args /\ o \in Arguments(newest)
      /\ seen[2] \in Nat /\ num_gens[o] <= seen[2] /\ num_gens[o] \in Nat
  BY <1>1, <1>2 DEF ParentOK, TypeOK
<1>7. Compatible(o)
  <2>1. PICK again \in {seen[2], num_gens[o]} : IsReady(again)
    BY DEF ArgumentReady
  <2>2. CASE again = 0
    BY <2>1, <2>2, <1>6 DEF Compatible
  <2>3. CASE seen[2] = 1 /\ Joins(youngest_group[o], Group(newest, o))
    BY <2>3, <1>1, <1>6, NotEmpty DEF Compatible, Joins
  <2>4. QED
    BY <2>1, <2>2, <2>3 DEF IsReady, Group
<1>8. \A p \in Objects : Checked(p)' => Checked(p) \/ p = o
  BY <1>2, <1>3 DEF Checked, Arguments
<1>9. \A p \in Objects : Compatible(p)' <=> Compatible(p)
  BY <1>2, <1>3 DEF Compatible, metadata, Group
<1>10. ParentOK'
  BY <1>1, <1>2, <1>3, <1>6, <1>7, <1>8, <1>9 DEF ParentOK, tasks, Arguments
<1>11. TodoOK' /\ ended' = ended
  BY <1>1, <1>2 DEF TodoOK, ended, Releasing, tasks, Arguments
<1>12. \A t \in Tasks, p \in Objects : Cleared(t, p)' => t <= newest /\ Cleared(t, p)
  <2>1. \A t \in Tasks, p \in Objects : Waits(t, p)' <=> Waits(t, p)
    BY <1>2, WaitsSame DEF metadata, tasks
  <2>2. QED
    BY <2>1, <1>2, <1>3 DEF Cleared, tasks, Arguments
<1>13. \A t \in Tasks : Held(t)' = Held(t) /\ (Releasing(t) => Releasing(t)')
  BY <1>2, <1>3 DEF Held, Releasing, tasks
<1>14. QED
  BY <1>2, <1>3, <1>4, <1>5, <1>10, <1>11, <1>12, <1>13, QuietStep DEF tasks

(* ini_ready finds an argument not ready.                                  *)
LEMMA ArgumentNotReadyStep ==
    ASSUME DataflowAssumption, IInv, ArgumentNotReady
    PROVE  IInv'
<1>1. /\ TypeOK /\ ParentOK /\ TodoOK /\ OrderOK
  BY InvParts
<1>2. /\ spc = "group" /\ spc' = "pending" /\ seen' = <<>> /\ args' = {}
      /\ UNCHANGED <<metadata, access, tasks>>
  BY DEF ArgumentNotReady, SpawnerGoto
<1>3. Extended /\ newest' = newest
  BY <1>1, <1>2, Newest DEF Extended, newest
<1>4. TypeOK'
  BY <1>1, <1>2 DEF TypeOK, metadata, tasks, newest
<1>5. \A p \in Objects : SameMembers(p)
  BY <1>2, <1>3 DEF SameMembers, Entered, tasks, Arguments, Releasing
<1>6. ParentOK'
  BY <1>1, <1>2, <1>3 DEF ParentOK, tasks, Arguments, Checked
<1>7. TodoOK' /\ ended' = ended
  BY <1>1, <1>2 DEF TodoOK, ended, Releasing, tasks, Arguments
<1>8. \A t \in Tasks, p \in Objects : Cleared(t, p)' => t <= newest /\ Cleared(t, p)
  <2>1. \A t \in Tasks, p \in Objects : Waits(t, p)' <=> Waits(t, p)
    BY <1>2, WaitsSame DEF metadata, tasks
  <2>2. QED
    BY <2>1, <1>2, <1>3 DEF Cleared, tasks, Arguments
<1>9. \A t \in Tasks : Held(t)' = Held(t) /\ (Releasing(t) => Releasing(t)')
  BY <1>2, <1>3 DEF Held, Releasing, tasks
<1>10. QED
  BY <1>2, <1>3, <1>4, <1>5, <1>6, <1>7, <1>8, <1>9, QuietStep DEF tasks

(* A task runs, on its parent's worker or from a ready list, and ends.     *)
LEMMA CallStep ==
    ASSUME DataflowAssumption, IInv, Call
    PROVE  IInv'
<1>1. /\ TypeOK /\ ParentOK /\ TodoOK /\ OrderOK /\ \A p \in Objects : ObjectOK(p)
  BY InvParts
<1>2. /\ spc = "call" /\ spc' = "called" /\ tpc[newest] = "unborn" /\ newest \in Tasks
      /\ tpc' = [tpc EXCEPT ![newest] = "running"]
      /\ UNCHANGED <<metadata, access, incoming_count, todo, walked, rlist, args, seen>>
  BY <1>1, Newest DEF Call, SpawnerGoto, TaskGoto, ParentOK
<1>3. Extended /\ newest' = newest /\ newest \in Nat
  BY <1>1, <1>2, Newest DEF Extended, newest
<1>4. TypeOK'
  BY <1>1, <1>2 DEF TypeOK, metadata, newest
<1>5. /\ tpc'[newest] = "running"
      /\ \A t \in Tasks : t # newest => tpc'[t] = tpc[t]
  BY <1>1, <1>2 DEF TypeOK
<1>6. \A t \in Tasks : /\ Releasing(t)' <=> Releasing(t)
                       /\ tpc'[t] = "pending" <=> tpc[t] = "pending"
                       /\ tpc[t] \in {"empty", "walk", "pop"} => tpc'[t] = tpc[t]
  BY <1>2, <1>5 DEF Releasing
<1>7. \A p \in Objects : SameMembers(p)
  <2> SUFFICES ASSUME NEW p \in Objects, NEW t \in Tasks
               PROVE  Entered(t, p)' <=> Entered(t, p)
    BY DEF SameMembers
  <2>1. CASE t = newest
    BY <2>1, <1>2, <1>3, <1>5 DEF Entered, Releasing
  <2>2. CASE t # newest
    BY <2>2, <1>2, <1>3, <1>5, <1>6 DEF Entered, Arguments
  <2>3. QED
    BY <2>1, <2>2
<1>8. \A p \in Objects : p \in Arguments(newest) => Checked(p) /\ Compatible(p)
  BY <1>1, <1>2, <1>3 DEF ParentOK, Checked, Tasks
<1>9. \A p \in Objects : Compatible(p)' <=> Compatible(p)
  BY <1>2, <1>3 DEF Compatible, metadata, Group
<1>10. ParentOK'
  <2>1. \A t \in Tasks : tpc'[t] = "unborn" <=> t > newest
    BY <1>1, <1>2, <1>3, <1>5, Finite DEF ParentOK
  <2>2. \A p \in Objects : Checked(p)' => Compatible(p)'
    BY <1>8, <1>9, <1>2, <1>3 DEF Checked, Arguments
  <2>3. QED
    BY <2>1, <2>2, <1>2, <1>3, <1>5 DEF ParentOK, Tasks
<1>11. TodoOK' /\ ended \subseteq ended'
  BY <1>1, <1>2, <1>3, <1>5, <1>6 DEF TodoOK, ended, Arguments
<1>12. \A t \in Tasks, p \in Objects : Cleared(t, p)' => t <= newest /\ (Cleared(t, p) \/ MayUse(t, p))
  <2> SUFFICES ASSUME NEW t \in Tasks, NEW p \in Objects, Cleared(t, p)'
               PROVE  t <= newest /\ (Cleared(t, p) \/ MayUse(t, p))
    OBVIOUS
  <2>1. t <= newest /\ p \in Arguments(t)
    BY <1>2, <1>3 DEF Cleared, Arguments
  <2>2. CASE t = newest
    BY <2>1, <2>2, <1>1, <1>3, <1>8, CompatibleClears DEF Tasks
  <2>3. CASE t # newest
    <3>1. Waits(t, p)' <=> Waits(t, p)
      BY <1>2, WaitsSame DEF metadata
    <3>2. QED
      BY <3>1, <2>1, <2>3, <1>5 DEF Cleared
  <2>4. QED
    BY <2>2, <2>3
<1>13. \A t \in Tasks : Held(t)' = Held(t)
  BY <1>2, <1>3 DEF Held
<1>14. QED
  BY <1>2, <1>3, <1>4, <1>6, <1>7, <1>10, <1>11, <1>12, <1>13, QuietStep

(* The called task ends before its parent is stolen.                       *)
LEMMA EndUnissuedStep ==
    ASSUME DataflowAssumption, IInv, EndUnissued
    PROVE  IInv'
<1>1. /\ TypeOK /\ ParentOK /\ TodoOK /\ OrderOK /\ \A p \in Objects : ObjectOK(p)
  BY InvParts
<1>2. /\ spc = "called" /\ spc' = "idle" /\ tpc[newest] = "running" /\ newest \in Tasks
      /\ tpc' = [tpc EXCEPT ![newest] = "done"]
      /\ UNCHANGED <<metadata, access, incoming_count, todo, walked, rlist, args, seen>>
  BY <1>1, Newest DEF EndUnissued, SpawnerGoto, TaskGoto, ParentOK
<1>3. Extended /\ newest' = newest /\ newest \in Nat
  BY <1>1, <1>2, Newest DEF Extended, newest
<1>4. TypeOK'
  BY <1>1, <1>2 DEF TypeOK, metadata, newest
<1>5. /\ tpc'[newest] = "done"
      /\ \A t \in Tasks : t # newest => tpc'[t] = tpc[t]
  BY <1>1, <1>2 DEF TypeOK
<1>6. \A t \in Tasks : /\ Releasing(t)' <=> Releasing(t)
                       /\ tpc'[t] = "pending" <=> tpc[t] = "pending"
                       /\ tpc[t] \in {"empty", "walk", "pop"} => tpc'[t] = tpc[t]
  BY <1>2, <1>5 DEF Releasing
<1>7. \A p \in Objects : SameMembers(p)
  <2> SUFFICES ASSUME NEW p \in Objects, NEW t \in Tasks
               PROVE  Entered(t, p)' <=> Entered(t, p)
    BY DEF SameMembers
  <2>1. CASE t = newest
    BY <2>1, <1>2, <1>3, <1>5 DEF Entered, Releasing
  <2>2. CASE t # newest
    BY <2>2, <1>2, <1>3, <1>5, <1>6 DEF Entered, Arguments
  <2>3. QED
    BY <2>1, <2>2
<1>8. ParentOK'
  <2>1. \A t \in Tasks : tpc'[t] = "unborn" <=> t > newest
    BY <1>1, <1>2, <1>3, <1>5, Finite DEF ParentOK
  <2>2. \A p \in Objects : ~Checked(p)'
    BY <1>2 DEF Checked
  <2>3. QED
    BY <2>1, <2>2, <1>2, <1>3, <1>5 DEF ParentOK, Tasks
<1>9. TodoOK' /\ ended \subseteq ended'
  BY <1>1, <1>2, <1>3, <1>5, <1>6 DEF TodoOK, ended, Arguments
<1>10. \A t \in Tasks, p \in Objects : Cleared(t, p)' => t <= newest /\ Cleared(t, p)
  <2>1. \A t \in Tasks, p \in Objects : Waits(t, p)' <=> Waits(t, p)
    BY <1>2, WaitsSame DEF metadata
  <2>2. QED
    BY <2>1, <1>2, <1>3, <1>5 DEF Cleared, Arguments
<1>11. \A t \in Tasks : Held(t)' = Held(t)
  BY <1>2, <1>3 DEF Held
<1>12. QED
  BY <1>2, <1>3, <1>4, <1>6, <1>7, <1>8, <1>9, <1>10, <1>11, QuietStep

(* The parent is stolen while its unissued child runs.                     *)
LEMMA StealParentStep ==
    ASSUME DataflowAssumption, IInv, StealParent
    PROVE  IInv'
<1>1. /\ TypeOK /\ ParentOK /\ TodoOK /\ OrderOK
  BY InvParts
<1>2. /\ spc = "called" /\ spc' = "deferred" /\ newest # 0 /\ args' = Arguments(newest)
      /\ tpc[newest] = "running" /\ UNCHANGED <<metadata, access, tasks, seen>>
  BY <1>1 DEF StealParent, SpawnerGoto, ParentOK
<1>3. Extended /\ newest' = newest /\ newest \in Tasks /\ newest \in 1..newest
  BY <1>1, <1>2, Newest DEF Extended, newest
<1>4. TypeOK'
  BY <1>1, <1>2, <1>3, AccessOf DEF TypeOK, metadata, tasks, newest
<1>5. \A p \in Objects : SameMembers(p)
  BY <1>2, <1>3 DEF SameMembers, Entered, tasks, Arguments, Releasing
<1>6. \A p \in Objects : Checked(p)' => Checked(p)
  BY <1>2, <1>3 DEF Checked, Arguments
<1>7. \A p \in Objects : Compatible(p)' <=> Compatible(p)
  BY <1>2, <1>3 DEF Compatible, metadata, Group
<1>8. ParentOK'
  BY <1>1, <1>2, <1>3, <1>6, <1>7 DEF ParentOK, tasks, Arguments
<1>9. TodoOK' /\ ended' = ended
  BY <1>1, <1>2 DEF TodoOK, ended, Releasing, tasks, Arguments
<1>10. \A t \in Tasks, p \in Objects : Cleared(t, p)' => t <= newest /\ Cleared(t, p)
  <2>1. \A t \in Tasks, p \in Objects : Waits(t, p)' <=> Waits(t, p)
    BY <1>2, WaitsSame DEF metadata, tasks
  <2>2. QED
    BY <2>1, <1>2, <1>3 DEF Cleared, tasks, Arguments
<1>11. \A t \in Tasks : Held(t)' = Held(t) /\ (Releasing(t) => Releasing(t)')
  BY <1>2, <1>3 DEF Held, Releasing, tasks
<1>12. QED
  BY <1>2, <1>3, <1>4, <1>5, <1>8, <1>9, <1>10, <1>11, QuietStep DEF tasks

(* A worker takes a ready task.                                            *)
LEMMA StartStep ==
    ASSUME DataflowAssumption, IInv, NEW t \in Tasks, Start(t)
    PROVE  IInv'
<1>1. /\ TypeOK /\ ParentOK /\ TodoOK /\ OrderOK
  BY InvParts
<1>2. /\ tpc[t] = "ready" /\ tpc' = [tpc EXCEPT ![t] = "running"]
      /\ UNCHANGED <<metadata, access, incoming_count, todo, walked, rlist, spawner>>
  BY DEF Start, TaskGoto
<1>3. Extended /\ newest' = newest
  BY <1>1, <1>2, Newest DEF Extended, newest
<1>4. TypeOK'
  BY <1>1, <1>2 DEF TypeOK, metadata, newest, spawner
<1>5. tpc'[t] = "running" /\ \A s \in Tasks : s # t => tpc'[s] = tpc[s]
  BY <1>1, <1>2 DEF TypeOK
<1>6. \A s \in Tasks : /\ Releasing(s)' <=> Releasing(s)
                       /\ tpc'[s] = "pending" <=> tpc[s] = "pending"
                       /\ tpc'[s] = "unborn" <=> tpc[s] = "unborn"
                       /\ tpc[s] \in {"empty", "walk", "pop"} => tpc'[s] = tpc[s]
  BY <1>2, <1>5 DEF Releasing
<1>7. \A p \in Objects : SameMembers(p)
  <2> SUFFICES ASSUME NEW p \in Objects, NEW s \in Tasks
               PROVE  Entered(s, p)' <=> Entered(s, p)
    BY DEF SameMembers
  <2>1. tpc'[s] \in {"pending", "ready", "running"} <=> tpc[s] \in {"pending", "ready", "running"}
    BY <1>2, <1>5
  <2>2. QED
    BY <2>1, <1>2, <1>3, <1>6 DEF Entered, Arguments, spawner
<1>8. \A p \in Objects : /\ Checked(p)' <=> Checked(p)
                         /\ Compatible(p)' <=> Compatible(p)
  BY <1>2, <1>3 DEF Checked, Compatible, Arguments, Group, metadata, spawner
<1>9. ParentOK'
  <2>1. newest # 0 => newest \in Tasks
    BY <1>1, Newest
  <2>2. newest # 0 /\ tpc[newest] \in {"running", "pending"} => tpc'[newest] = tpc[newest]
    BY <2>1, <1>2, <1>5
  <2>3. UNCHANGED <<spc, args, seen, num_gens, newest>> /\ Arguments(newest)' = Arguments(newest)
    BY <1>2, <1>3 DEF spawner, metadata, Arguments
  <2>4. newest = 0 => spc = "idle"
    BY <1>1 DEF ParentOK
  <2>5. QED
    BY <1>1, <2>1, <2>2, <2>3, <2>4, <1>6, <1>8 DEF ParentOK
<1>10. TodoOK' /\ ended \subseteq ended'
  BY <1>1, <1>2, <1>3, <1>5, <1>6 DEF TodoOK, ended, Arguments
<1>11. \A s \in Tasks, p \in Objects : Cleared(s, p)' => s <= newest /\ Cleared(s, p)
  <2>1. \A s \in Tasks, p \in Objects : Waits(s, p)' <=> Waits(s, p)
    BY <1>2, WaitsSame DEF metadata
  <2>2. QED
    BY <2>1, <1>2, <1>3, <1>6 DEF Cleared, Arguments, spawner
<1>12. \A s \in Tasks : Held(s)' = Held(s)
  BY <1>2, <1>3 DEF Held, spawner
<1>13. QED
  BY <1>2, <1>3, <1>4, <1>6, <1>7, <1>9, <1>10, <1>11, <1>12, QuietStep

(* A body ends; all its objects are still to be released.                  *)
LEMMA EndBodyStep ==
    ASSUME DataflowAssumption, IInv, NEW t \in Tasks, EndBody(t)
    PROVE  IInv'
<1>1. /\ TypeOK /\ ParentOK /\ TodoOK /\ OrderOK
  BY InvParts
<1>2. /\ tpc[t] = "running" /\ tpc' = [tpc EXCEPT ![t] = "release"]
      /\ todo' = [todo EXCEPT ![t] = Arguments(t)]
      /\ t = newest => spc \notin {"called", "deferred"}
      /\ UNCHANGED <<metadata, access, incoming_count, walked, rlist, spawner>>
  BY DEF EndBody, TaskGoto
<1>3. Extended /\ newest' = newest
  BY <1>1, <1>2, Newest DEF Extended, newest
<1>4. t \in 1..newest /\ Arguments(t) \subseteq Objects
  <2>1. t \in 1..newest
    BY <1>1, <1>2, Newest, Finite DEF ParentOK
  <2>2. QED
    BY <2>1, <1>1, AccessOf
<1>5. TypeOK'
  BY <1>1, <1>2, <1>4 DEF TypeOK, metadata, newest, spawner
<1>6. /\ tpc'[t] = "release" /\ todo'[t] = Arguments(t)
      /\ \A s \in Tasks : s # t => tpc'[s] = tpc[s] /\ todo'[s] = todo[s]
  BY <1>1, <1>2 DEF TypeOK
<1>7. \A s \in Tasks : /\ Releasing(s) => Releasing(s)'
                       /\ s # t => (Releasing(s)' <=> Releasing(s))
                       /\ tpc'[s] = "pending" <=> tpc[s] = "pending"
                       /\ tpc'[s] = "unborn" <=> tpc[s] = "unborn"
                       /\ tpc[s] \in {"empty", "walk", "pop"} => tpc'[s] = tpc[s] /\ todo'[s] = todo[s]
  BY <1>2, <1>6 DEF Releasing
<1>8. \A p \in Objects : SameMembers(p)
  <2> SUFFICES ASSUME NEW p \in Objects, NEW s \in Tasks
               PROVE  Entered(s, p)' <=> Entered(s, p)
    BY DEF SameMembers
  <2>1. CASE s = t
    BY <2>1, <1>2, <1>3, <1>6 DEF Entered, Arguments, Releasing, spawner
  <2>2. CASE s # t
    BY <2>2, <1>2, <1>3, <1>6, <1>7 DEF Entered, Arguments, spawner
  <2>3. QED
    BY <2>1, <2>2
<1>9. \A p \in Objects : /\ Checked(p)' <=> Checked(p)
                         /\ Compatible(p)' <=> Compatible(p)
  BY <1>2, <1>3 DEF Checked, Compatible, Arguments, Group, metadata, spawner
<1>10. ParentOK'
  <2>1. newest # 0 => newest \in Tasks
    BY <1>1, Newest
  <2>2. /\ newest # 0 /\ tpc[newest] = "pending" => tpc'[newest] = tpc[newest]
        /\ newest # 0 /\ spc \in {"called", "deferred"} => tpc'[newest] = tpc[newest]
    BY <2>1, <1>2, <1>6
  <2>3. UNCHANGED <<spc, args, seen, num_gens, newest>> /\ Arguments(newest)' = Arguments(newest)
    BY <1>2, <1>3 DEF spawner, metadata, Arguments
  <2>4. newest = 0 => spc = "idle"
    BY <1>1 DEF ParentOK
  <2>5. QED
    BY <1>1, <2>1, <2>2, <2>3, <2>4, <1>7, <1>9 DEF ParentOK
<1>11. TodoOK' /\ ended \subseteq ended'
  BY <1>1, <1>2, <1>3, <1>6, <1>7 DEF TodoOK, ended, Arguments
<1>12. \A s \in Tasks, p \in Objects : Cleared(s, p)' => s <= newest /\ Cleared(s, p)
  <2>1. \A s \in Tasks, p \in Objects : Waits(s, p)' <=> Waits(s, p)
    BY <1>2, WaitsSame DEF metadata
  <2>2. QED
    BY <2>1, <1>2, <1>3, <1>7 DEF Cleared, Arguments, spawner
<1>13. \A s \in Tasks : Held(s)' = Held(s)
  BY <1>2, <1>3 DEF Held, spawner
<1>14. QED
  BY <1>2, <1>3, <1>5, <1>7, <1>8, <1>10, <1>11, <1>12, <1>13, QuietStep

(* A pending frame is made for a task, and held until it is issued.        *)
LEMMA CreatePendingStep ==
    ASSUME DataflowAssumption, IInv, CreatePending
    PROVE  IInv'
<1>1. /\ TypeOK /\ ParentOK /\ TodoOK /\ CountOK /\ ReadyOK /\ OrderOK
  BY InvParts
<1>2. /\ spc = "pending" /\ spc' = "issue" /\ tpc[newest] = "unborn" /\ newest \in Tasks
      /\ tpc' = [tpc EXCEPT ![newest] = "pending"]
      /\ incoming_count' = [incoming_count EXCEPT ![newest] = 1]
      /\ args' = Arguments(newest)
      /\ UNCHANGED <<metadata, access, todo, walked, rlist, seen>>
  BY <1>1, Newest DEF CreatePending, SpawnerGoto, TaskGoto, ParentOK
<1>3. Extended /\ newest' = newest /\ newest \in 1..newest /\ newest \in Nat
  BY <1>1, <1>2, Newest DEF Extended, newest
<1>4. TypeOK'
  BY <1>1, <1>2, <1>3, AccessOf DEF TypeOK, metadata, newest
<1>5. /\ tpc'[newest] = "pending" /\ incoming_count'[newest] = 1
      /\ \A t \in Tasks : t # newest => tpc'[t] = tpc[t] /\ incoming_count'[t] = incoming_count[t]
  BY <1>1, <1>2 DEF TypeOK
<1>6. \A t \in Tasks : /\ Releasing(t)' <=> Releasing(t)
                       /\ tpc[t] \in {"empty", "walk", "pop"} => tpc'[t] = tpc[t] /\ todo'[t] = todo[t]
  BY <1>2, <1>5 DEF Releasing
<1>7. \A p \in Objects : SameMembers(p)
  <2> SUFFICES ASSUME NEW p \in Objects, NEW t \in Tasks
               PROVE  Entered(t, p)' <=> Entered(t, p)
    BY DEF SameMembers
  <2>1. CASE t = newest
    BY <2>1, <1>2, <1>3, <1>5 DEF Entered, Releasing, Arguments
  <2>2. CASE t # newest
    BY <2>2, <1>2, <1>3, <1>5, <1>6 DEF Entered, Arguments
  <2>3. QED
    BY <2>1, <2>2
<1>8. /\ \A o \in Objects : ObjectOK(o)'
      /\ MutexOK'
      /\ \A o \in Objects : \A t : Waits(t, o)' <=> Waits(t, o)
      /\ \A t : WaitsFor(t)' = WaitsFor(t)
  BY <1>2, <1>3, <1>6, <1>7, MetadataKept
<1>9. ParentOK'
  <2>1. \A t \in Tasks : tpc'[t] = "unborn" <=> t > newest
    BY <1>1, <1>2, <1>3, <1>5, Finite DEF ParentOK
  <2>2. \A p \in Objects : ~Checked(p)'
    BY <1>2 DEF Checked
  <2>3. QED
    BY <2>1, <2>2, <1>2, <1>3, <1>5 DEF ParentOK, Tasks, Arguments
<1>10. TodoOK' /\ ended \subseteq ended'
  BY <1>1, <1>2, <1>3, <1>5, <1>6 DEF TodoOK, ended, Arguments
<1>11. CountOK'
  <2>1. \A t \in Tasks : t = newest => WaitsFor(t) = {}
    BY <1>1, <1>2 DEF CountOK, WaitsFor
  <2>2. \A t \in Tasks : IF t = newest THEN Held(t)' = 1 ELSE Held(t)' = Held(t)
    BY <1>2, <1>3 DEF Held
  <2>3. \A t \in Tasks, o \in Objects : Waits(t, o)' => tpc'[t] = "pending"
    BY <1>1, <1>5, <1>8 DEF CountOK
  <2>4. ASSUME NEW t \in Tasks, tpc'[t] = "pending"
        PROVE  /\ incoming_count'[t] = Cardinality(WaitsFor(t)') + Held(t)'
               /\ incoming_count'[t] = 0 => \E s \in Tasks : t \in rlist'[s]
    <3>1. CASE t = newest
      <4>1. WaitsFor(t)' = {} /\ Held(t)' = 1 /\ incoming_count'[t] = 1
        BY <3>1, <2>1, <2>2, <1>5, <1>8
      <4>2. Cardinality({}) = 0
        BY FS_EmptySet
      <4>3. QED
        BY <4>1, <4>2
    <3>2. CASE t # newest
      BY <3>2, <2>2, <2>4, <1>1, <1>2, <1>5, <1>8 DEF CountOK
    <3>3. QED
      BY <3>1, <3>2
  <2>5. QED
    BY <2>3, <2>4 DEF CountOK
<1>12. ReadyOK'
  <2>1. \A s \in Tasks : \A t \in rlist[s] : t \in Tasks /\ t # newest
    BY <1>1, <1>2 DEF ReadyOK, TypeOK
  <2>2. QED
    BY <2>1, <1>1, <1>2, <1>5, <1>6 DEF ReadyOK
<1>13. OrderOK'
  <2>1. \A t \in Tasks, p \in Objects : Cleared(t, p)' => t <= newest /\ Cleared(t, p)
    <3> SUFFICES ASSUME NEW t \in Tasks, NEW p \in Objects, Cleared(t, p)'
                 PROVE  t <= newest /\ Cleared(t, p)
      OBVIOUS
    <3>1. t # newest
      BY <1>2, <1>3 DEF Cleared, Arguments
    <3>2. QED
      BY <3>1, <1>2, <1>3, <1>5, <1>8 DEF Cleared, Arguments
  <2>2. QED
    BY <2>1, <1>1, <1>3, <1>10, OrderKept
<1>14. QED
  BY <1>4, <1>8, <1>9, <1>10, <1>11, <1>12, <1>13 DEF IInv

(* The parent takes back its own count of the frame it has issued.         *)
LEMMA FinishIssueStep ==
    ASSUME DataflowAssumption, IInv, FinishIssue
    PROVE  IInv'
<1>1. /\ TypeOK /\ ParentOK /\ TodoOK /\ CountOK /\ ReadyOK /\ OrderOK
  BY InvParts
<1>2. /\ spc = "issued" /\ spc' = "idle" /\ tpc[newest] = "pending" /\ newest \in Tasks
      /\ incoming_count' = [incoming_count EXCEPT ![newest] = @ - 1]
      /\ tpc' = IF incoming_count[newest] = 1 THEN [tpc EXCEPT ![newest] = "ready"] ELSE tpc
      /\ UNCHANGED <<metadata, access, todo, walked, rlist, args, seen>>
  BY <1>1, Newest DEF FinishIssue, SpawnerGoto, ParentOK
<1>3. Extended /\ newest' = newest /\ newest \in Nat
  BY <1>1, <1>2, Newest DEF Extended, newest
<1>4. /\ WaitsFor(newest) \subseteq Objects /\ IsFiniteSet(WaitsFor(newest))
      /\ Cardinality(WaitsFor(newest)) \in Nat
      /\ incoming_count[newest] = Cardinality(WaitsFor(newest)) + 1
  <2>1. WaitsFor(newest) \subseteq Objects
    BY DEF WaitsFor
  <2>2. Held(newest) = 1
    BY <1>2 DEF Held
  <2>3. QED
    BY <2>1, <2>2, <1>1, <1>2, Finite DEF CountOK
<1>5. TypeOK'
  BY <1>1, <1>2, <1>4 DEF TypeOK, metadata, newest
<1>6. /\ incoming_count'[newest] = Cardinality(WaitsFor(newest))
      /\ tpc'[newest] = IF WaitsFor(newest) = {} THEN "ready" ELSE "pending"
      /\ \A t \in Tasks : t # newest => tpc'[t] = tpc[t] /\ incoming_count'[t] = incoming_count[t]
  <2>1. Cardinality(WaitsFor(newest)) = 0 <=> WaitsFor(newest) = {}
    BY <1>4, FS_EmptySet
  <2>2. QED
    BY <2>1, <1>1, <1>2, <1>4 DEF TypeOK
<1>7. \A t \in Tasks : /\ Releasing(t)' <=> Releasing(t)
                       /\ tpc[t] \in {"empty", "walk", "pop"} => tpc'[t] = tpc[t] /\ todo'[t] = todo[t]
  BY <1>2, <1>6 DEF Releasing
<1>8. \A p \in Objects : SameMembers(p)
  <2> SUFFICES ASSUME NEW p \in Objects, NEW t \in Tasks
               PROVE  Entered(t, p)' <=> Entered(t, p)
    BY DEF SameMembers
  <2>1. CASE t = newest
    BY <2>1, <1>2, <1>3, <1>6 DEF Entered, Releasing, Arguments
  <2>2. CASE t # newest
    BY <2>2, <1>2, <1>3, <1>6, <1>7 DEF Entered, Arguments
  <2>3. QED
    BY <2>1, <2>2
<1>9. /\ \A o \in Objects : ObjectOK(o)'
      /\ MutexOK'
      /\ \A o \in Objects : \A t : Waits(t, o)' <=> Waits(t, o)
      /\ \A t : WaitsFor(t)' = WaitsFor(t)
  BY <1>2, <1>3, <1>7, <1>8, MetadataKept
<1>10. ParentOK'
  <2>1. \A t \in Tasks : tpc'[t] = "unborn" <=> t > newest
    BY <1>1, <1>2, <1>3, <1>6, Finite DEF ParentOK
  <2>2. \A p \in Objects : ~Checked(p)'
    BY <1>2 DEF Checked
  <2>3. QED
    BY <2>1, <2>2, <1>2, <1>3 DEF ParentOK, Tasks
<1>11. TodoOK' /\ ended \subseteq ended'
  BY <1>1, <1>2, <1>3, <1>6, <1>7 DEF TodoOK, ended, Arguments
<1>12. CountOK'
  <2>1. \A t \in Tasks : IF t = newest THEN Held(t)' = 0 ELSE Held(t)' = Held(t)
    BY <1>2, <1>3 DEF Held
  <2>2. \A t \in Tasks, o \in Objects : Waits(t, o)' => tpc'[t] = "pending"
    <3> SUFFICES ASSUME NEW t \in Tasks, NEW o \in Objects, Waits(t, o)
                 PROVE  tpc'[t] = "pending"
      BY <1>9
    <3>1. o \in WaitsFor(t)
      BY DEF WaitsFor
    <3>2. QED
      BY <3>1, <1>1, <1>6 DEF CountOK
  <2>3. ASSUME NEW t \in Tasks, tpc'[t] = "pending"
        PROVE  /\ incoming_count'[t] = Cardinality(WaitsFor(t)') + Held(t)'
               /\ incoming_count'[t] = 0 => \E s \in Tasks : t \in rlist'[s]
    <3>1. CASE t = newest
      <4>1. WaitsFor(newest) # {}
        BY <3>1, <2>3, <1>6
      <4>2. Cardinality(WaitsFor(newest)) # 0
        BY <4>1, <1>4, FS_EmptySet
      <4>3. WaitsFor(t)' = WaitsFor(newest) /\ Held(t)' = 0
        BY <3>1, <2>1, <1>9
      <4>4. incoming_count'[t] = Cardinality(WaitsFor(newest))
        BY <3>1, <1>6
      <4>5. QED
        BY <4>2, <4>3, <4>4, <1>4
    <3>2. CASE t # newest
      BY <3>2, <2>1, <2>3, <1>1, <1>2, <1>6, <1>9 DEF CountOK
    <3>3. QED
      BY <3>1, <3>2
  <2>4. QED
    BY <2>2, <2>3 DEF CountOK
<1>13. ReadyOK'
  <2>1. \A s \in Tasks : \A t \in rlist[s] : t \in Tasks /\ t # newest
    BY <1>1, <1>2, <1>4 DEF ReadyOK, TypeOK
  <2>2. QED
    BY <2>1, <1>1, <1>2, <1>6, <1>7 DEF ReadyOK
<1>14. OrderOK'
  <2>1. \A t \in Tasks, p \in Objects : Cleared(t, p)' => t <= newest /\ Cleared(t, p)
    <3> SUFFICES ASSUME NEW t \in Tasks, NEW p \in Objects, Cleared(t, p)'
                 PROVE  t <= newest /\ Cleared(t, p)
      OBVIOUS
    <3>1. tpc'[t] # "unborn" /\ tpc[t] # "unborn"
      BY <1>2, <1>6 DEF Cleared
    <3>2. QED
      BY <3>1, <1>2, <1>3, <1>9 DEF Cleared, Arguments
  <2>2. QED
    BY <2>1, <1>1, <1>3, <1>11, OrderKept
<1>15. QED
  BY <1>5, <1>9, <1>10, <1>11, <1>12, <1>13, <1>14 DEF IInv

(* A task ends, and what it has made ready is on a ready list.             *)
LEMMA MoveToReadyListStep ==
    ASSUME DataflowAssumption, IInv, NEW t \in Tasks, MoveToReadyList(t)
    PROVE  IInv'
<1>1. /\ TypeOK /\ ParentOK /\ TodoOK /\ CountOK /\ ReadyOK /\ OrderOK
  BY InvParts
<1>2. /\ tpc[t] = "release" /\ todo[t] = {}
      /\ tpc' = [s \in Tasks |-> IF s = t THEN "done"
                                 ELSE IF s \in rlist[t] THEN "ready" ELSE tpc[s]]
      /\ rlist' = [rlist EXCEPT ![t] = {}]
      /\ UNCHANGED <<metadata, access, incoming_count, todo, walked, spawner>>
  BY DEF MoveToReadyList
<1>3. Extended /\ newest' = newest /\ newest \in Nat
  BY <1>1, <1>2, Newest DEF Extended, newest
<1>4. TypeOK'
  BY <1>1, <1>2 DEF TypeOK, metadata, newest, spawner
<1>5. /\ tpc'[t] = "done" /\ t \notin rlist[t] /\ rlist'[t] = {}
      /\ \A s \in rlist[t] : s \in Tasks /\ tpc[s] = "pending" /\ tpc'[s] = "ready"
                             /\ incoming_count[s] = 0
      /\ \A s \in Tasks : s # t /\ s \notin rlist[t] => tpc'[s] = tpc[s]
      /\ \A s \in Tasks : s # t => rlist'[s] = rlist[s]
  BY <1>1, <1>2 DEF ReadyOK, TypeOK
<1>6. \A s \in Tasks : /\ s # t => (Releasing(s)' <=> Releasing(s))
                       /\ tpc[s] \in {"empty", "walk", "pop"} => tpc'[s] = tpc[s] /\ todo'[s] = todo[s]
                       /\ tpc'[s] = "unborn" <=> tpc[s] = "unborn"
  <2> SUFFICES ASSUME NEW s \in Tasks
               PROVE  /\ s # t => (Releasing(s)' <=> Releasing(s))
                      /\ tpc[s] \in {"empty", "walk", "pop"} => tpc'[s] = tpc[s] /\ todo'[s] = todo[s]
                      /\ tpc'[s] = "unborn" <=> tpc[s] = "unborn"
    OBVIOUS
  <2>1. CASE s \in rlist[t]
    BY <2>1, <1>5 DEF Releasing
  <2>2. CASE s \notin rlist[t]
    BY <2>2, <1>2, <1>5 DEF Releasing
  <2>3. QED
    BY <2>1, <2>2
<1>7. \A p \in Objects : SameMembers(p)
  <2> SUFFICES ASSUME NEW p \in Objects, NEW s \in Tasks
               PROVE  Entered(s, p)' <=> Entered(s, p)
    BY DEF SameMembers
  <2>1. CASE s = t
    BY <2>1, <1>2, <1>3, <1>5 DEF Entered, Releasing
  <2>2. CASE s \in rlist[t]
    BY <2>2, <1>2, <1>3, <1>5 DEF Entered, Arguments, spawner
  <2>3. CASE s # t /\ s \notin rlist[t]
    BY <2>3, <1>2, <1>3, <1>5, <1>6 DEF Entered, Arguments, spawner
  <2>4. QED
    BY <2>1, <2>2, <2>3
<1>8. /\ \A o \in Objects : ObjectOK(o)'
      /\ MutexOK'
      /\ \A o \in Objects : \A s : Waits(s, o)' <=> Waits(s, o)
      /\ \A s : WaitsFor(s)' = WaitsFor(s)
  BY <1>2, <1>3, <1>6, <1>7, MetadataKept
<1>9. \A s \in rlist[t] : WaitsFor(s) = {} /\ Held(s) = 0
  <2> SUFFICES ASSUME NEW s \in rlist[t]
               PROVE  WaitsFor(s) = {} /\ Held(s) = 0
    OBVIOUS
  <2>1. WaitsFor(s) \in SUBSET Objects
    BY DEF WaitsFor
  <2>2. /\ IsFiniteSet(WaitsFor(s)) /\ Cardinality(WaitsFor(s)) \in Nat
        /\ Cardinality(WaitsFor(s)) + Held(s) = 0
    BY <2>1, <1>1, <1>5, Finite DEF CountOK
  <2>3. Held(s) = 0 /\ Cardinality(WaitsFor(s)) = 0
    BY <2>2 DEF Held
  <2>4. QED
    BY <2>2, <2>3, FS_EmptySet
<1>10. ParentOK'
  <2>1. newest # 0 => newest \in Tasks
    BY <1>1, Newest
  <2>2. /\ spc \in {"called", "deferred"} => tpc'[newest] = "running"
        /\ spc \in {"issue", "issued"} => tpc'[newest] = "pending"
    <3>1. spc \in {"called", "deferred"} => newest \notin rlist[t] /\ newest # t /\ newest # 0
      BY <1>1, <1>2, <1>5 DEF ParentOK
    <3>2. spc \in {"issue", "issued"} => newest \notin rlist[t] /\ newest # t /\ newest # 0
      BY <1>1, <1>2, <1>9 DEF ParentOK, Held
    <3>3. QED
      BY <3>1, <3>2, <2>1, <1>1, <1>5 DEF ParentOK
  <2>3. UNCHANGED <<spc, args, seen, num_gens, newest>> /\ Arguments(newest)' = Arguments(newest)
    BY <1>2, <1>3 DEF spawner, metadata, Arguments
  <2>4. \A p \in Objects : /\ Checked(p)' <=> Checked(p)
                           /\ Compatible(p)' <=> Compatible(p)
    BY <1>2, <1>3 DEF Checked, Compatible, Arguments, Group, metadata, spawner
  <2>5. QED
    BY <1>1, <2>2, <2>3, <2>4, <1>6 DEF ParentOK
<1>11. TodoOK' /\ ended \subseteq ended'
  <2>1. TodoOK'
    BY <1>1, <1>2, <1>3, <1>5, <1>6 DEF TodoOK, Arguments, Releasing
  <2>2. \A s \in Tasks : tpc[s] = "done" => s # t /\ s \notin rlist[t]
    BY <1>2, <1>5
  <2>3. QED
    BY <2>1, <2>2, <1>5, <1>6 DEF ended
<1>12. CountOK'
  <2>1. \A s : Held(s)' = Held(s)
    BY <1>2, <1>3 DEF Held, spawner
  <2>2. \A s \in Tasks, o \in Objects : Waits(s, o)' => tpc'[s] = "pending"
    <3> SUFFICES ASSUME NEW s \in Tasks, NEW o \in Objects, Waits(s, o)
                 PROVE  tpc'[s] = "pending"
      BY <1>8
    <3>1. o \in WaitsFor(s) /\ tpc[s] = "pending"
      BY <1>1 DEF WaitsFor, CountOK
    <3>2. QED
      BY <3>1, <1>2, <1>5, <1>9
  <2>3. \A s \in Tasks : tpc'[s] = "pending" => tpc[s] = "pending" /\ s \notin rlist[t] /\ s # t
    BY <1>5
  <2>4. \A s \in Tasks : s \notin rlist[t] =>
            ((\E r \in Tasks : s \in rlist[r]) => \E r \in Tasks : s \in rlist'[r])
    BY <1>5
  <2>5. QED
    BY <2>1, <2>2, <2>3, <2>4, <1>1, <1>2, <1>8 DEF CountOK
<1>13. ReadyOK'
  <2> SUFFICES ASSUME NEW r \in Tasks, NEW s \in rlist'[r]
               PROVE  /\ tpc'[s] = "pending" /\ incoming_count[s] = 0
                      /\ Releasing(r)' /\ r < s /\ Conflict(access[r], access[s])
                      /\ \A q \in Tasks : s \in rlist'[q] => q = r
    BY <1>2 DEF ReadyOK
  <2>1. r # t /\ s \in rlist[r]
    BY <1>5
  <2>2. /\ tpc[s] = "pending" /\ incoming_count[s] = 0 /\ s \in Tasks
        /\ Releasing(r) /\ r < s /\ Conflict(access[r], access[s])
        /\ \A q \in Tasks : s \in rlist[q] => q = r
    BY <2>1, <1>1 DEF ReadyOK, TypeOK
  <2>3. s # t /\ s \notin rlist[t]
    BY <2>1, <2>2, <1>2
  <2>4. \A q \in Tasks : s \in rlist'[q] => s \in rlist[q]
    BY <1>5
  <2>5. QED
    BY <2>1, <2>2, <2>3, <2>4, <1>5, <1>6
<1>14. OrderOK'
  <2>1. \A s \in Tasks, p \in Objects : Cleared(s, p)' => s <= newest /\ Cleared(s, p)
    BY <1>2, <1>3, <1>6, <1>8 DEF Cleared, Arguments, spawner
  <2>2. QED
    BY <2>1, <1>1, <1>3, <1>11, OrderKept
<1>15. QED
  BY <1>4, <1>8, <1>10, <1>11, <1>12, <1>13, <1>14 DEF IInv

-----------------------------------------------------------------------------
(* Steps that change one object.  The others stay what they are.           *)
LEMMA OthersKept ==
    ASSUME DataflowAssumption, IInv, Extended, NEW o \in Objects,
           \A p \in Objects \ {o} : SameMembers(p) /\ SameMetadata(p) /\ SameHolder(p)
    PROVE  \A p \in Objects \ {o} : ObjectOK(p)' /\ \A t : Waits(t, p)' <=> Waits(t, p)
<1>1. TypeOK /\ \A p \in Objects : ObjectOK(p)
  BY InvParts
<1>2. \A p \in Objects \ {o} : ObjectOK(p)'
  BY <1>1, ObjectSame
<1>3. \A p \in Objects \ {o} : \A t : Waits(t, p)' <=> Waits(t, p)
  BY WaitsSame DEF SameMetadata, SameHolder
<1>4. QED
  BY <1>2, <1>3

(* An empty list is in order.                                              *)
LEMMA ListEmpty ==
    ASSUME NEW o \in Objects, waiting'[o] = <<>>, \A t \in last'[o] : t < newest'
    PROVE  ListOK(o)' /\ Nodes(o)' = {} /\ Generations(o)' = 0
<1>1. \A i : i \notin 1..Len(waiting'[o])
  OBVIOUS
<1>2. Nodes(o)' = {}
  BY <1>1 DEF Nodes
<1>3. InOrder(o)' /\ Sharing(o)' /\ Youngest(o)'
  BY <1>1 DEF InOrder, Sharing, Youngest
<1>4. \A i : i \notin 1..(Len(waiting'[o]) - 1)
  OBVIOUS
<1>5. Marked(o)'
  BY <1>4 DEF Marked
<1>6. QED
  BY <1>2, <1>3, <1>5 DEF ListOK, Generations

(* A task joins the oldest generation, the only one.                       *)
LEMMA JoinOldest ==
    ASSUME DataflowAssumption, TypeOK, NEW o \in Objects, ObjectOK(o), mutex[o] = Free,
           UNCHANGED access, NEW n, n = newest, n \in Tasks,
           waiting[o] = <<>>, \A s \in Oldest(o) : Group(s, o) = Group(n, o),
           Group(n, o) # "empty",
           ~Entered(n, o), Entered(n, o)',
           \A t \in Tasks \ {n} : Entered(t, o)' <=> Entered(t, o),
           num_gens'[o] = 1, youngest_group'[o] = Group(n, o),
           oldest_num_tasks'[o] = oldest_num_tasks[o] + 1,
           waiting'[o] = waiting[o], last'[o] = last[o], mutex'[o] = mutex[o]
    PROVE  ObjectOK(o)'
<1>1. newest' = newest
  BY DEF newest
<1>2. ListOK(o)' /\ Nodes(o)' = {} /\ Generations(o)' = 0
  <2>1. \A t \in last[o] : t < newest
    BY DEF ObjectOK, ListOK, Marked
  <2>2. QED
    BY <2>1, <1>1, ListEmpty
<1>3. Nodes(o) = {} /\ n \notin Holders(o) /\ n \notin Oldest(o) /\ IsFiniteSet(Oldest(o))
  BY Listed, Holding DEF Holders, Oldest
<1>4. Holders(o)' = Holders(o) \cup {n}
  BY DEF Holders
<1>5. Oldest(o)' = Oldest(o) \cup {n}
  BY <1>2, <1>3, <1>4 DEF Oldest
<1>6. OldestOK(o)'
  <2>1. \A s \in Oldest(o) \cup {n} : Group(s, o)' = Group(n, o)
    BY DEF Group
  <2>2. QED
    BY <2>1, <1>2, <1>5 DEF OldestOK
<1>7. FreeOK(o)'
  <2>1. Cardinality(Oldest(o)') = Cardinality(Oldest(o)) + 1
    BY <1>3, <1>5, CardPlus
  <2>2. oldest_num_tasks[o] = Cardinality(Oldest(o))
    BY DEF ObjectOK, FreeOK
  <2>3. QED
    BY <2>1, <2>2, <1>2, <1>5 DEF FreeOK
<1>8. QED
  BY <1>2, <1>6, <1>7 DEF ObjectOK, DataflowAssumption

(* A task that is issued late finds its generation, or an empty object.    *)
LEMMA JoinsOldest ==
    ASSUME DataflowAssumption, TypeOK, NEW o \in Objects, ObjectOK(o), mutex[o] = Free,
           newest # 0, Compatible(o)
    PROVE  /\ waiting[o] = <<>>
           /\ \A s \in Oldest(o) : Group(s, o) = Group(newest, o)
<1>1. FreeOK(o) /\ OldestOK(o)
  BY DEF ObjectOK
<1>2. waiting[o] = <<>>
  BY <1>1, GenerationCount DEF FreeOK, Compatible
<1>3. Oldest(o) # {} => Group(newest, o) = youngest_group[o]
  BY <1>1, GenerationCount DEF FreeOK, Compatible, Shares
<1>4. QED
  BY <1>1, <1>2, <1>3 DEF OldestOK

(* A task that runs is issued for one of its objects.                      *)
LEMMA AddRunningStep ==
    ASSUME DataflowAssumption, IInv, NEW o \in Objects, AddRunning(o)
    PROVE  IInv'
<1>1. /\ TypeOK /\ ParentOK /\ (\A p \in Objects : ObjectOK(p)) /\ MutexOK
      /\ TodoOK /\ CountOK /\ ReadyOK /\ OrderOK
  BY InvParts
<1>2. PICK n \in Tasks : n = newest /\ n \in 1..newest /\ newest # 0 /\ tpc[n] = "running"
  BY <1>1, Newest DEF AddRunning, ParentOK
<1>3. /\ spc = "deferred" /\ o \in args /\ mutex[o] = Free /\ o \in Arguments(n)
      /\ num_gens' = [num_gens EXCEPT ![o] = 1]
      /\ oldest_num_tasks' = [oldest_num_tasks EXCEPT ![o] = @ + 1]
      /\ youngest_group' = [youngest_group EXCEPT ![o] = Group(n, o)]
      /\ args' = args \ {o} /\ spc' = IF args = {o} THEN "idle" ELSE "deferred"
      /\ UNCHANGED <<waiting, last, mutex, access, tasks, seen>>
  BY <1>1, <1>2 DEF AddRunning, NextArgument, Group, ParentOK
<1>4. Extended /\ newest' = newest /\ newest \in Nat /\ Group(n, o) \in {"read", "write", "commut"}
  BY <1>1, <1>2, <1>3, Newest, AccessOf DEF Extended, newest
<1>5. TypeOK'
  BY <1>1, <1>3, <1>4 DEF TypeOK, tasks, newest
<1>6. /\ \A t \in Tasks : \A p \in Objects : t # n \/ p # o => (Entered(t, p)' <=> Entered(t, p))
      /\ ~Entered(n, o) /\ Entered(n, o)'
  <2>1. ~Entered(n, o) /\ Entered(n, o)'
    BY <1>2, <1>3, <1>4 DEF Entered, Arguments, tasks
  <2>2. \A t \in Tasks : \A p \in Objects : t # n => (Entered(t, p)' <=> Entered(t, p))
    BY <1>2, <1>3, <1>4 DEF Entered, Arguments, tasks, Releasing
  <2>3. \A p \in Objects : p # o => (Entered(n, p)' <=> Entered(n, p))
    BY <1>2, <1>3, <1>4 DEF Entered, Arguments, tasks, Releasing
  <2>4. QED
    BY <2>1, <2>2, <2>3
<1>7. \A p \in Objects \ {o} : SameMembers(p) /\ SameMetadata(p) /\ SameHolder(p)
  BY <1>1, <1>3, <1>6 DEF SameMembers, SameMetadata, SameHolder, tasks, TypeOK
<1>8. \A p \in Objects \ {o} : ObjectOK(p)'
  BY <1>4, <1>7, OthersKept
<1>9. Compatible(o) /\ o \in Arguments(newest)
  BY <1>1, <1>2, <1>3 DEF ParentOK, Checked
<1>10. ObjectOK(o)'
  <2>1. waiting[o] = <<>> /\ \A s \in Oldest(o) : Group(s, o) = Group(n, o)
    BY <1>1, <1>2, <1>3, <1>9, JoinsOldest DEF Tasks
  <2>2. /\ num_gens'[o] = 1 /\ youngest_group'[o] = Group(n, o)
        /\ oldest_num_tasks'[o] = oldest_num_tasks[o] + 1
        /\ waiting'[o] = waiting[o] /\ last'[o] = last[o] /\ mutex'[o] = mutex[o]
    BY <1>1, <1>3 DEF TypeOK
  <2>3. \A t \in Tasks \ {n} : Entered(t, o)' <=> Entered(t, o)
    BY <1>6
  <2>4. QED
    BY <2>1, <2>2, <2>3, <1>1, <1>2, <1>3, <1>4, <1>6, JoinOldest
<1>11. MutexOK'
  BY <1>1, <1>3 DEF MutexOK
<1>12. \A p \in Objects : \A t : Waits(t, p)' <=> Waits(t, p)
  BY <1>3, WaitsSame DEF tasks
<1>13. ParentOK'
  <2>1. \A p \in Objects : Checked(p)' => Checked(p) /\ p # o
    BY <1>3, <1>4 DEF Checked, Arguments
  <2>2. \A p \in Objects \ {o} : Compatible(p)' <=> Compatible(p)
    BY <1>1, <1>3, <1>4 DEF Compatible, Group, TypeOK
  <2>3. QED
    BY <2>1, <2>2, <1>1, <1>3, <1>4 DEF ParentOK, Arguments, tasks
<1>14. TodoOK' /\ ReadyOK' /\ ended' = ended
  BY <1>1, <1>3 DEF TodoOK, ReadyOK, ended, Releasing, Arguments, tasks
<1>15. CountOK'
  <2>1. \A t : WaitsFor(t)' = WaitsFor(t)
    BY <1>12 DEF WaitsFor
  <2>2. \A t : Held(t)' = Held(t)
    BY <1>3, <1>4 DEF Held
  <2>3. QED
    BY <2>1, <2>2, <1>1, <1>3, <1>12 DEF CountOK, tasks
<1>16. OrderOK'
  <2>1. \A t \in Tasks, p \in Objects : Cleared(t, p)' => t <= newest /\ Cleared(t, p)
    BY <1>3, <1>4, <1>12 DEF Cleared, Arguments, tasks
  <2>2. QED
    BY <2>1, <1>1, <1>4, <1>14, OrderKept
<1>17. QED
  BY <1>5, <1>8, <1>10, <1>11, <1>13, <1>14, <1>15, <1>16 DEF IInv

(* A task goes to the end of the list, to the youngest generation or to one*)
(* of its own.                                                             *)
LEMMA JoinList ==
    ASSUME DataflowAssumption, TypeOK, TypeOK', NEW o \in Objects, ObjectOK(o), mutex[o] = Free,
           UNCHANGED access, NEW n, n = newest, n \in Tasks,
           NEW pushg \in BOOLEAN, pushg <=> ~Shares(youngest_group[o], Group(n, o)),
           ~Ready(o, Group(n, o)), Group(n, o) # "empty",
           ~Entered(n, o), Entered(n, o)',
           \A t \in Tasks \ {n} : Entered(t, o)' <=> Entered(t, o),
           num_gens'[o] = IF pushg THEN num_gens[o] + 1 ELSE num_gens[o],
           youngest_group'[o] = Group(n, o),
           oldest_num_tasks'[o] = oldest_num_tasks[o],
           waiting'[o] = Append(waiting[o], n),
           last'[o] = IF pushg /\ waiting[o] # <<>> THEN last[o] \cup {Last(waiting[o])} ELSE last[o],
           mutex'[o] = mutex[o]
    PROVE  ObjectOK(o)'
<1>0. PICK w, w2, m : waiting[o] = w /\ waiting'[o] = w2 /\ Len(w) = m
  OBVIOUS
<1>1. /\ FreeOK(o) /\ OldestOK(o) /\ Nodes(o) \subseteq Holders(o) /\ InOrder(o) /\ Sharing(o)
      /\ Marked(o) /\ Youngest(o) /\ newest' = newest /\ n \in Nat
  BY Finite DEF ObjectOK, ListOK, newest
<1>2. /\ w \in Seq(Tasks) /\ m \in Nat /\ (w = <<>> <=> m = 0) /\ \A i \in 1..m : w[i] \in Tasks
      /\ w2 \in Seq(Tasks) /\ Len(w2) = m + 1 /\ w2[m + 1] = n /\ \A i \in 1..m : w2[i] = w[i]
      /\ w2 # <<>>
  <2>1. w \in Seq(Tasks) /\ m \in Nat /\ (w = <<>> <=> m = 0) /\ \A i \in 1..m : w[i] \in Tasks
    BY <1>0, Listed
  <2>2. w2 = Append(w, n)
    BY <1>0
  <2>3. /\ w2 \in Seq(Tasks) /\ Len(w2) = m + 1 /\ w2[m + 1] = n
        /\ \A i \in 1..m : w2[i] = w[i]
    BY <2>1, <2>2, <1>0
  <2>4. w2 # <<>>
    BY <2>1, <2>3
  <2>5. QED
    BY <2>1, <2>3, <2>4
<1>3. /\ n \notin Holders(o) /\ n \notin Nodes(o) /\ n \notin last[o]
      /\ \A t \in Holders(o) : t \in Nat /\ t < n
      /\ \A i \in 1..m : w[i] \in Nodes(o) /\ w[i] < n
  <2>1. n \notin Holders(o) /\ n \notin Nodes(o)
    BY <1>1 DEF Holders
  <2>2. \A t \in Holders(o) : t \in Nat /\ t < n
    BY <2>1, <1>1, Holding, Finite
  <2>3. \A i \in 1..m : w[i] \in Nodes(o)
    BY <1>0 DEF Nodes
  <2>4. n \notin last[o]
    BY <1>1 DEF Marked
  <2>5. QED
    BY <2>1, <2>2, <2>3, <2>4, <1>1
<1>4. num_gens[o] # 0 /\ Oldest(o) # {} /\ youngest_group[o] # "empty"
  BY <1>1, GenerationCount DEF FreeOK, Ready, Joins
<1>5. ~pushg => w # <<>>
  BY <1>0, <1>1, <1>4, GenerationCount DEF FreeOK, Ready, Joins
<1>6. Nodes(o)' = Nodes(o) \cup {n}
  <2>1. \A i \in 1..(m + 1) : w2[i] \in Nodes(o) \cup {n}
    BY <1>0, <1>2, <1>3
  <2>2. \A t \in Nodes(o) : \E i \in 1..(m + 1) : w2[i] = t
    BY <1>0, <1>2 DEF Nodes
  <2>3. \E i \in 1..(m + 1) : w2[i] = n
    BY <1>0, <1>2
  <2>4. Nodes(o)' = {w2[i] : i \in 1..(m + 1)}
    BY <1>0, <1>2 DEF Nodes
  <2>5. QED
    BY <2>1, <2>2, <2>3, <2>4
<1>7. Holders(o)' = Holders(o) \cup {n}
  BY DEF Holders
<1>8. Oldest(o)' = Oldest(o)
  BY <1>6, <1>7, <1>3 DEF Oldest
<1>9. \A t \in Tasks : Group(t, o)' = Group(t, o)
  BY DEF Group
<1>23. m # 0 => Last(w) = w[m] /\ w[m] \notin last[o] /\ w[m] < n
  BY <1>1, <1>0, <1>2, <1>3 DEF Last, Marked
<1>10. /\ last[o] \subseteq last'[o]
       /\ \A i \in 1..m : i # m => (w[i] \in last'[o] <=> w[i] \in last[o])
       /\ m # 0 => (w[m] \in last'[o] <=> pushg)
       /\ n \notin last'[o] /\ \A t \in last'[o] : t < n
       /\ last'[o] = IF pushg /\ m # 0 THEN last[o] \cup {w[m]} ELSE last[o]
  <2>2. \A i \in 1..m : i # m => w[i] # w[m]
    <3>1. \A i, j \in 1..m : i < j => w[i] < w[j]
      BY <1>1, <1>0 DEF InOrder
    <3>2. \A i \in 1..m : i # m => i < m /\ m \in 1..m
      BY <1>2
    <3>3. \A i \in 1..m : i # m => w[i] < w[m]
      BY <3>1, <3>2
    <3>4. \A i \in 1..m : w[i] \in Nat
      BY <1>2, Finite
    <3>5. QED
      BY <3>2, <3>3, <3>4
  <2>3. \A t \in last[o] : t < n
    BY <1>1 DEF Marked
  <2>4. last'[o] = IF pushg /\ m # 0 THEN last[o] \cup {w[m]} ELSE last[o]
    BY <1>23, <1>0, <1>2
  <2>5. QED
    BY <1>23, <2>2, <2>3, <2>4, <1>0, <1>2, <1>3
<1>11. \A i, j \in 1..m : SameGen(o, i, j)' => SameGen(o, i, j)
  BY <1>0, <1>2, <1>10 DEF SameGen
<1>12. \A i \in 1..m : SameGen(o, i, m + 1)' => ~pushg /\ SameGen(o, i, m)
  <2> SUFFICES ASSUME NEW i \in 1..m, \A k \in i..m : w2[k] \notin last'[o]
               PROVE  ~pushg /\ \A k \in i..(m - 1) : w[k] \notin last[o]
    <3>1. (m + 1) - 1 = m
      BY <1>2
    <3>2. QED
      BY <3>1, <1>0 DEF SameGen
  <2>1. w2[m] = w[m] /\ w2[m] \notin last'[o]
    BY <1>0, <1>2
  <2>2. ~pushg
    BY <2>1, <1>0, <1>2, <1>10
  <2>3. QED
    BY <2>2, <1>0, <1>2, <1>10
<1>13. \A i \in 1..m : SameGen(o, i, m + 1)' =>
           ~pushg /\ Group(w[i], o) = Group(n, o) /\ Group(n, o) # "write"
  BY <1>0, <1>1, <1>12 DEF Youngest, Shares
<1>14. InOrder(o)'
  <2>1. \A i, j \in 1..(m + 1) : i < j => w2[i] < w2[j]
    BY <1>1, <1>0, <1>2, <1>3 DEF InOrder
  <2>2. QED
    BY <2>1, <1>0, <1>2 DEF InOrder
<1>15. Sharing(o)'
  <2> SUFFICES ASSUME NEW i \in 1..(m + 1), NEW j \in 1..(m + 1), i < j, SameGen(o, i, j)'
               PROVE  Shares(Group(w2[i], o), Group(w2[j], o))
    BY <1>0, <1>2 DEF Sharing, Shares, Group
  <2>1. CASE j = m + 1
    BY <2>1, <1>0, <1>2, <1>13 DEF Shares
  <2>2. CASE j # m + 1
    BY <2>2, <1>1, <1>0, <1>2, <1>11 DEF Sharing
  <2>3. QED
    BY <2>1, <2>2
<1>16. Marked(o)'
  <2>1. ASSUME NEW i \in 1..m, w2[i] \in last'[o]
        PROVE  ~Shares(Group(w2[i], o), Group(w2[i + 1], o))
    <3>1. CASE i = m
      <4>1. pushg /\ Group(w[m], o) = youngest_group[o]
        BY <3>1, <2>1, <1>1, <1>0, <1>2, <1>10 DEF Youngest, SameGen
      <4>2. QED
        BY <4>1, <3>1, <1>0, <1>2 DEF Shares
    <3>2. CASE i # m
      <4>1. w[i] \in last[o] /\ i \in 1..(m - 1)
        BY <3>2, <2>1, <1>0, <1>2, <1>10
      <4>2. QED
        BY <4>1, <1>1, <1>0, <1>2 DEF Marked
    <3>3. QED
      BY <3>1, <3>2
  <2>2. (m + 1) - 1 = m /\ w2[m + 1] \notin last'[o]
    BY <1>0, <1>2, <1>10
  <2>3. /\ \A i \in 1..m : w2[i] \in Tasks /\ w2[i + 1] \in Tasks
        /\ \A t \in last'[o] : t < newest'
    BY <1>1, <1>2, <1>10
  <2>4. \A i \in 1..m : w2[i] \in last'[o] => ~Shares(Group(w2[i], o)', Group(w2[i + 1], o)')
    BY <2>1, <2>3, <1>9
  <2>5. QED
    BY <2>2, <2>3, <2>4, <1>0, <1>2 DEF Marked, Shares
<1>17. Youngest(o)'
  <2>1. ASSUME NEW i \in 1..(m + 1), SameGen(o, i, m + 1)'
        PROVE  Group(w2[i], o) = Group(n, o)
    BY <2>1, <1>0, <1>2, <1>13
  <2>2. QED
    BY <2>1, <1>0, <1>2 DEF Youngest, Group
<1>18. ListOK(o)'
  BY <1>1, <1>6, <1>7, <1>14, <1>15, <1>16, <1>17 DEF ListOK
<1>19. OldestOK(o)'
  <2>1. \A s \in Oldest(o), t \in Nodes(o) \cup {n} : s < t
    BY <1>1, <1>3 DEF OldestOK, Oldest
  <2>2. ASSUME NEW s \in Oldest(o)
        PROVE  ~Shares(Group(s, o), Group(w2[1], o))
    <3>1. CASE w = <<>>
      BY <3>1, <1>1, <1>0, <1>2, <1>5 DEF OldestOK, Shares
    <3>2. CASE w # <<>>
      <4>1. w2[1] = w[1]
        BY <3>2, <1>0, <1>2
      <4>2. QED
        BY <4>1, <3>2, <1>0, <1>1 DEF OldestOK
    <3>3. QED
      BY <3>1, <3>2
  <2>3. QED
    BY <2>1, <2>2, <1>0, <1>2, <1>6, <1>8 DEF OldestOK, Group, Shares
<1>20. Generations(o)' = IF pushg THEN Generations(o) + 1 ELSE Generations(o)
  <2>1. Generations(o)' = 1 + Cardinality(last'[o] \cap Nodes(o)')
    BY <1>0, <1>2 DEF Generations
  <2>2. CASE ~pushg
    <3>1. last'[o] \cap Nodes(o)' = last[o] \cap Nodes(o)
      BY <2>2, <1>3, <1>6
    <3>2. QED
      BY <3>1, <2>1, <2>2, <1>0, <1>5 DEF Generations
  <2>3. CASE pushg /\ w = <<>>
    <3>1. last'[o] \cap Nodes(o)' = {}
      BY <1>0, <2>3, <1>3, <1>6, Listed
    <3>3. Generations(o) = 0
      BY <1>0, <2>3 DEF Generations
    <3>4. Cardinality(last'[o] \cap Nodes(o)') = 0
      BY <3>1, FS_EmptySet
    <3>2. QED
      BY <3>3, <3>4, <2>1, <2>3
  <2>4. CASE pushg /\ w # <<>>
    <3>1. w[m] \in Nodes(o) /\ w[m] \notin last[o] /\ Last(w) = w[m]
      BY <2>4, <1>0, <1>2, <1>3, <1>23
    <3>2. last'[o] \cap Nodes(o)' = (last[o] \cap Nodes(o)) \cup {w[m]}
      BY <3>1, <2>4, <1>2, <1>3, <1>6, <1>10
    <3>3. IsFiniteSet(last[o] \cap Nodes(o)) /\ Cardinality(last[o] \cap Nodes(o)) \in Nat
      BY Finite, Listed
    <3>4. Cardinality(last'[o] \cap Nodes(o)') = Cardinality(last[o] \cap Nodes(o)) + 1
      BY <3>1, <3>2, <3>3, CardPlus
    <3>5. QED
      BY <1>0, <3>3, <3>4, <2>1, <2>4 DEF Generations
  <2>5. QED
    BY <2>2, <2>3, <2>4
<1>21. FreeOK(o)'
  <2>1. num_gens'[o] = 1 + Generations(o)' /\ num_gens'[o] # 0
    BY <1>1, <1>4, <1>20, GenerationCount DEF FreeOK
  <2>2. QED
    BY <2>1, <1>1, <1>4, <1>8 DEF FreeOK
<1>22. QED
  BY <1>18, <1>19, <1>21 DEF ObjectOK, DataflowAssumption

(* A pending frame is issued for one of the objects of its task.           *)
LEMMA AddTaskStep ==
    ASSUME DataflowAssumption, IInv, NEW o \in Objects, AddTask(o)
    PROVE  IInv'
<1>1. /\ TypeOK /\ ParentOK /\ (\A p \in Objects : ObjectOK(p)) /\ MutexOK
      /\ TodoOK /\ CountOK /\ ReadyOK /\ OrderOK
  BY InvParts
<1>2. PICK n \in Tasks : n = newest /\ n \in 1..newest /\ newest # 0 /\ tpc[n] = "pending"
  BY <1>1, Newest DEF AddTask, ParentOK
<1>3. PICK pushg \in BOOLEAN, ready \in BOOLEAN :
         /\ pushg <=> ~Shares(youngest_group[o], Group(n, o))
         /\ ready <=> Ready(o, Group(n, o))
  OBVIOUS
<1>4. /\ spc = "issue" /\ o \in args /\ mutex[o] = Free /\ o \in Arguments(n)
      /\ num_gens' = [num_gens EXCEPT ![o] = IF pushg THEN @ + 1 ELSE @]
      /\ youngest_group' = [youngest_group EXCEPT ![o] = Group(n, o)]
      /\ args' = args \ {o} /\ spc' = IF args = {o} THEN "issued" ELSE "issue"
      /\ UNCHANGED <<mutex, access, tpc, todo, walked, rlist, seen>>
  BY <1>1, <1>2, <1>3 DEF AddTask, NextArgument, Group, ParentOK, Pushes
<1>5. ready => /\ oldest_num_tasks' = [oldest_num_tasks EXCEPT ![o] = @ + 1]
               /\ UNCHANGED <<incoming_count, waiting, last>>
  BY <1>2, <1>3 DEF AddTask, Group
<1>6. ~ready =>
         /\ incoming_count' = [incoming_count EXCEPT ![n] = @ + 1]
         /\ waiting' = [waiting EXCEPT ![o] = Append(@, n)]
         /\ last' = [last EXCEPT ![o] = IF pushg /\ waiting[o] # <<>>
                                        THEN @ \cup {Last(waiting[o])} ELSE @]
         /\ UNCHANGED oldest_num_tasks
  BY <1>2, <1>3 DEF AddTask, Group, Pushes
<1>7. Extended /\ newest' = newest /\ newest \in Nat /\ Group(n, o) \in {"read", "write", "commut"}
  BY <1>1, <1>2, <1>4, Newest, AccessOf DEF Extended, newest
<1>8. waiting[o] \in Seq(Tasks) /\ (waiting[o] # <<>> => Last(waiting[o]) \in Tasks)
  BY <1>1, Listed DEF Last
<1>9. TypeOK'
  <2>1. num_gens' \in [Objects -> Nat]
    BY <1>1, <1>4 DEF TypeOK
  <2>2. oldest_num_tasks' \in [Objects -> Nat] /\ incoming_count' \in [Tasks -> Nat]
    <3>1. CASE ready
      <4>1. oldest_num_tasks' = [oldest_num_tasks EXCEPT ![o] = oldest_num_tasks[o] + 1]
        BY <3>1, <1>5
      <4>2. incoming_count' = incoming_count
        BY <3>1, <1>5
      <4>3. QED
        BY <4>1, <4>2, <1>1 DEF TypeOK
    <3>2. CASE ~ready
      <4>1. incoming_count' = [incoming_count EXCEPT ![n] = incoming_count[n] + 1]
        BY <3>2, <1>6
      <4>2. oldest_num_tasks' = oldest_num_tasks
        BY <3>2, <1>6
      <4>3. QED
        BY <4>1, <4>2, <1>1 DEF TypeOK
    <3>3. QED
      BY <3>1, <3>2
  <2>3. waiting' \in [Objects -> Seq(Tasks)]
    <3>1. Append(waiting[o], n) \in Seq(Tasks)
      BY <1>8
    <3>2. waiting' = waiting \/ waiting' = [waiting EXCEPT ![o] = Append(waiting[o], n)]
      BY <1>5, <1>6
    <3>3. QED
      BY <3>1, <3>2, <1>1 DEF TypeOK
  <2>4. last' \in [Objects -> SUBSET Tasks]
    <3>1. PICK l : l = IF pushg /\ waiting[o] # <<>>
                       THEN last[o] \cup {Last(waiting[o])} ELSE last[o]
      OBVIOUS
    <3>2. l \in SUBSET Tasks
      BY <3>1, <1>1, <1>8 DEF TypeOK
    <3>3. last' = last \/ last' = [last EXCEPT ![o] = l]
      BY <3>1, <1>5, <1>6
    <3>4. QED
      BY <3>2, <3>3, <1>1 DEF TypeOK
  <2>5. QED
    BY <2>1, <2>2, <2>3, <2>4, <1>1, <1>4, <1>7 DEF TypeOK, newest
<1>10. /\ \A t \in Tasks : \A p \in Objects : t # n \/ p # o => (Entered(t, p)' <=> Entered(t, p))
       /\ ~Entered(n, o) /\ Entered(n, o)'
  <2>1. ~Entered(n, o) /\ Entered(n, o)'
    BY <1>2, <1>4, <1>7 DEF Entered, Arguments
  <2>2. \A t \in Tasks : \A p \in Objects : t # n => (Entered(t, p)' <=> Entered(t, p))
    BY <1>2, <1>4, <1>7 DEF Entered, Arguments, Releasing
  <2>3. \A p \in Objects : p # o => (Entered(n, p)' <=> Entered(n, p))
    BY <1>2, <1>4, <1>7 DEF Entered, Arguments, Releasing
  <2>4. QED
    BY <2>1, <2>2, <2>3
<1>11. \A p \in Objects \ {o} : SameMembers(p) /\ SameMetadata(p) /\ SameHolder(p)
  BY <1>1, <1>4, <1>5, <1>6, <1>10 DEF SameMembers, SameMetadata, SameHolder, TypeOK
<1>12. \A p \in Objects \ {o} : ObjectOK(p)' /\ \A t : Waits(t, p)' <=> Waits(t, p)
  BY <1>7, <1>11, OthersKept
<1>13. ready => Compatible(o) /\ num_gens'[o] = 1
  <2>1. FreeOK(o)
    BY <1>1, <1>4 DEF ObjectOK
  <2>2. QED
    BY <2>1, <1>1, <1>2, <1>3, <1>4, <1>7 DEF FreeOK, Ready, Joins, Compatible, TypeOK, Shares
<1>14. /\ youngest_group'[o] = Group(n, o) /\ mutex'[o] = mutex[o]
       /\ num_gens'[o] = IF pushg THEN num_gens[o] + 1 ELSE num_gens[o]
       /\ \A t \in Tasks \ {n} : Entered(t, o)' <=> Entered(t, o)
  BY <1>1, <1>4, <1>10 DEF TypeOK
<1>15. ObjectOK(o)'
  <2>1. CASE ready
    <3>1. waiting[o] = <<>> /\ \A s \in Oldest(o) : Group(s, o) = Group(n, o)
      BY <2>1, <1>1, <1>2, <1>4, <1>13, JoinsOldest
    <3>2. /\ oldest_num_tasks'[o] = oldest_num_tasks[o] + 1
          /\ waiting'[o] = waiting[o] /\ last'[o] = last[o]
      BY <2>1, <1>1, <1>5 DEF TypeOK
    <3>3. QED
      BY <3>1, <3>2, <2>1, <1>1, <1>2, <1>4, <1>7, <1>10, <1>13, <1>14, JoinOldest
  <2>2. CASE ~ready
    <3>1. /\ oldest_num_tasks'[o] = oldest_num_tasks[o]
          /\ waiting'[o] = Append(waiting[o], n)
          /\ last'[o] = IF pushg /\ waiting[o] # <<>> THEN last[o] \cup {Last(waiting[o])} ELSE last[o]
      BY <2>2, <1>1, <1>6 DEF TypeOK
    <3>2. QED
      BY <3>1, <2>2, <1>1, <1>2, <1>3, <1>4, <1>7, <1>9, <1>10, <1>14, JoinList
  <2>3. QED
    BY <2>1, <2>2
<1>16. MutexOK' /\ TodoOK' /\ ended' = ended
  BY <1>1, <1>4 DEF MutexOK, TodoOK, ended, Releasing, Arguments
<1>17. ~Waits(n, o) /\ \A t : Waits(t, o)' <=> Waits(t, o) \/ (t = n /\ ~ready)
  <2>1. n \notin Nodes(o)
    BY <1>1, <1>10, Holding DEF Holders
  <2>2. ~Waits(n, o)
    BY <2>1 DEF Waits, Nodes
  <2>3. CASE ready
    <3>1. waiting'[o] = waiting[o] /\ mutex'[o] = mutex[o] /\ mutex[o] = Free
      BY <2>3, <1>4, <1>5
    <3>2. \A t : Waits(t, o)' <=> Waits(t, o)
      BY <3>1, WaitsSame
    <3>3. QED
      BY <2>2, <3>2, <2>3
  <2>4. CASE ~ready
    <3>1. PICK w, w2, m : waiting[o] = w /\ waiting'[o] = w2 /\ Len(w) = m
      OBVIOUS
    <3>2. w \in Seq(Tasks) /\ m \in Nat /\ w2 = Append(w, n)
      BY <3>1, <2>4, <1>1, <1>6, <1>8 DEF TypeOK
    <3>3. Len(w2) = m + 1 /\ w2[m + 1] = n /\ \A i \in 1..m : w2[i] = w[i]
      BY <3>1, <3>2
    <3>4. Woken(o) = 0 /\ Woken(o)' = 0
      BY <1>4 DEF Woken
    <3>5. \A t : Waits(t, o) <=> \E i \in 1..m : w[i] = t
      BY <3>1, <3>2, <3>4 DEF Waits
    <3>6. \A t : Waits(t, o)' <=> \E i \in 1..(m + 1) : w2[i] = t
      BY <3>1, <3>2, <3>3, <3>4 DEF Waits
    <3>7. \A t : (\E i \in 1..(m + 1) : w2[i] = t) <=> t = n \/ \E i \in 1..m : w[i] = t
      BY <3>2, <3>3
    <3>8. QED
      BY <2>2, <3>5, <3>6, <3>7, <2>4
  <2>5. QED
    BY <2>2, <2>3, <2>4
<1>18. ParentOK'
  <2>1. \A p \in Objects : ~Checked(p)'
    BY <1>4 DEF Checked
  <2>2. QED
    BY <2>1, <1>1, <1>2, <1>4, <1>7 DEF ParentOK, Arguments
<1>19. CountOK'
  <2>1. \A t \in Tasks : t # n \/ ready => WaitsFor(t)' = WaitsFor(t)
    BY <1>12, <1>17 DEF WaitsFor
  <2>2. \A t \in Tasks : t = n /\ ~ready => WaitsFor(t)' = WaitsFor(t) \cup {o}
    BY <1>12, <1>17 DEF WaitsFor
  <2>3. \A t \in Tasks : Held(t)' = Held(t)
    BY <1>4, <1>7 DEF Held
  <2>4. \A t \in Tasks, p \in Objects : Waits(t, p)' => tpc'[t] = "pending"
    BY <1>1, <1>2, <1>4, <1>12, <1>17 DEF CountOK
  <2>5. ASSUME NEW t \in Tasks, tpc'[t] = "pending"
        PROVE  /\ incoming_count'[t] = Cardinality(WaitsFor(t)') + Held(t)'
               /\ incoming_count'[t] = 0 => \E s \in Tasks : t \in rlist'[s]
    <3>1. CASE t # n \/ ready
      <4>1. incoming_count'[t] = incoming_count[t] /\ tpc[t] = "pending"
        BY <3>1, <2>5, <1>4, <1>5, <1>6, <1>1 DEF TypeOK
      <4>2. QED
        BY <4>1, <3>1, <2>1, <2>3, <1>1, <1>4 DEF CountOK
    <3>2. CASE t = n /\ ~ready
      <4>1. o \notin WaitsFor(n) /\ WaitsFor(n) \in SUBSET Objects
        BY <1>17 DEF WaitsFor
      <4>2. Cardinality(WaitsFor(n) \cup {o}) = Cardinality(WaitsFor(n)) + 1
            /\ Cardinality(WaitsFor(n)) \in Nat
        BY <4>1, Finite, CardPlus
      <4>3. incoming_count[n] = Cardinality(WaitsFor(n)) + Held(n) /\ Held(n) = 1
        BY <1>1, <1>2, <1>4 DEF CountOK, Held
      <4>4. incoming_count'[n] = incoming_count[n] + 1
        BY <3>2, <1>1, <1>6 DEF TypeOK
      <4>5. QED
        BY <4>2, <4>3, <4>4, <3>2, <2>2, <2>3
    <3>3. QED
      BY <3>1, <3>2
  <2>6. QED
    BY <2>4, <2>5 DEF CountOK
<1>20. ReadyOK'
  <2>1. incoming_count[n] # 0
    <3>1. incoming_count[n] = Cardinality(WaitsFor(n)) + 1
      BY <1>1, <1>2, <1>4 DEF CountOK, Held
    <3>2. WaitsFor(n) \in SUBSET Objects
      BY DEF WaitsFor
    <3>3. QED
      BY <3>1, <3>2, Finite
  <2>2. \A s \in Tasks : \A t \in rlist[s] : t \in Tasks /\ t # n
    BY <2>1, <1>1 DEF ReadyOK, TypeOK
  <2>3. \A t \in Tasks : t # n => incoming_count'[t] = incoming_count[t]
    BY <1>1, <1>5, <1>6 DEF TypeOK
  <2>4. QED
    BY <2>2, <2>3, <1>1, <1>4 DEF ReadyOK, Releasing
<1>21. OrderOK'
  <2>1. \A t \in Tasks, p \in Objects :
           Cleared(t, p)' => t <= newest /\ (Cleared(t, p) \/ MayUse(t, p))
    <3> SUFFICES ASSUME NEW t \in Tasks, NEW p \in Objects, Cleared(t, p)'
                 PROVE  t <= newest /\ (Cleared(t, p) \/ MayUse(t, p))
      OBVIOUS
    <3>1. CASE t # n \/ p # o
      <4>1. ~Waits(t, p)
        BY <3>1, <1>12, <1>17 DEF Cleared
      <4>2. QED
        BY <4>1, <3>1, <1>2, <1>4, <1>7 DEF Cleared, Arguments
    <3>2. CASE t = n /\ p = o
      <4>1. ready
        BY <3>2, <1>17 DEF Cleared
      <4>2. MayUse(newest, o)
        BY <4>1, <1>1, <1>2, <1>4, <1>13, CompatibleClears
      <4>3. QED
        BY <4>2, <3>2, <1>2, <1>7
    <3>3. QED
      BY <3>1, <3>2
  <2>2. QED
    BY <2>1, <1>1, <1>7, <1>16, OrderKept
<1>22. QED
  BY <1>9, <1>12, <1>15, <1>16, <1>18, <1>19, <1>20, <1>21 DEF IInv

-----------------------------------------------------------------------------
(* What the steps of a release have in common: task t gives one object up, *)
(* in one step or in several, and nothing else happens.                    *)
ReleaseOf(t, o) ==
    /\ Releasing(t) /\ Releasing(t)'
    /\ o \in todo[t] /\ todo'[t] \subseteq todo[t] /\ todo[t] \ {o} \subseteq todo'[t]
    /\ \A s \in Tasks : s # t => tpc'[s] = tpc[s] /\ todo'[s] = todo[s] /\ walked'[s] = walked[s]
    /\ UNCHANGED <<access, spawner>>
    /\ \A p \in Objects : p # o => mutex[p] # t /\ SameMetadata(p)
    /\ mutex'[o] \in {Free, t}
    /\ num_gens'[o] <= num_gens[o]
    /\ Compatible(o) => Compatible(o)'

(* What every step of a release keeps, apart from its own object.          *)
LEMMA ReleaseParts ==
    ASSUME DataflowAssumption, IInv, TypeOK', NEW t \in Tasks, NEW o \in Objects, ReleaseOf(t, o)
    PROVE  /\ Extended /\ newest' = newest /\ ended' = ended
           /\ ParentOK' /\ TodoOK' /\ MutexOK'
           /\ \A p \in Objects \ {o} : ObjectOK(p)' /\ \A s : Waits(s, p)' <=> Waits(s, p)
           /\ \A s \in Tasks : Releasing(s)' <=> Releasing(s)
           /\ \A s \in Tasks : s # t => (Entered(s, o)' <=> Entered(s, o))
           /\ Entered(t, o) /\ (Entered(t, o)' <=> o \in todo'[t])
<1>1. /\ TypeOK /\ ParentOK /\ (\A p \in Objects : ObjectOK(p)) /\ MutexOK /\ TodoOK
  BY InvParts
<1>2. /\ Releasing(t) /\ Releasing(t)'
      /\ o \in todo[t] /\ todo'[t] \subseteq todo[t] /\ todo[t] \ {o} \subseteq todo'[t]
      /\ \A s \in Tasks : s # t => tpc'[s] = tpc[s] /\ todo'[s] = todo[s] /\ walked'[s] = walked[s]
      /\ UNCHANGED <<access, spc, args, seen>>
      /\ \A p \in Objects : p # o => mutex[p] # t /\ SameMetadata(p)
      /\ mutex'[o] \in {Free, t}
      /\ num_gens'[o] <= num_gens[o]
      /\ Compatible(o) => Compatible(o)'
  BY DEF ReleaseOf, spawner
<1>3. Extended /\ newest' = newest /\ newest \in Nat
  BY <1>1, <1>2, Newest DEF Extended, newest
<1>4. \A s \in Tasks : Releasing(s)' <=> Releasing(s)
  BY <1>2 DEF Releasing
<1>5. ended' = ended
  <2>1. \A s \in Tasks : tpc'[s] = "done" <=> tpc[s] = "done"
    BY <1>2 DEF Releasing
  <2>2. QED
    BY <2>1, <1>4 DEF ended
<1>6. /\ \A s \in Tasks : tpc'[s] \in {"pending", "ready", "running"} <=>
                          tpc[s] \in {"pending", "ready", "running"}
      /\ tpc[t] \notin {"pending", "ready", "running", "unborn"}
      /\ tpc'[t] \notin {"pending", "ready", "running", "unborn"}
  BY <1>2 DEF Releasing
<1>7. t <= newest /\ o \in Arguments(t) /\ (t = newest => spc \notin {"called", "deferred", "issue", "issued"})
  BY <1>1, <1>2, <1>3, <1>6, Finite DEF ParentOK, TodoOK
<1>8. \A s \in Tasks, p \in Objects : s # t \/ p # o => (Entered(s, p)' <=> Entered(s, p))
  <2>1. \A s \in Tasks, p \in Objects : s # t => (Entered(s, p)' <=> Entered(s, p))
    BY <1>2, <1>3, <1>4 DEF Entered, Arguments
  <2>2. \A p \in Objects : p # o => (Entered(t, p)' <=> Entered(t, p))
    <3>1. \A p \in Objects : p # o => (p \in todo'[t] <=> p \in todo[t])
      BY <1>2
    <3>2. QED
      BY <3>1, <1>2, <1>3, <1>6 DEF Entered, Arguments
  <2>3. QED
    BY <2>1, <2>2
<1>9. Entered(t, o) /\ (Entered(t, o)' <=> o \in todo'[t])
  BY <1>2, <1>3, <1>6, <1>7 DEF Entered, Arguments
<1>10. \A p \in Objects \ {o} : SameMembers(p) /\ SameMetadata(p) /\ SameHolder(p)
  <2>1. \A p \in Objects \ {o} : SameHolder(p)
    BY <1>1, <1>2 DEF SameHolder, TypeOK
  <2>2. QED
    BY <2>1, <1>2, <1>8 DEF SameMembers
<1>11. \A p \in Objects \ {o} : ObjectOK(p)' /\ \A s : Waits(s, p)' <=> Waits(s, p)
  BY <1>3, <1>10, OthersKept
<1>12. ParentOK'
  <2>1. ASSUME NEW p \in Objects
        PROVE  num_gens'[p] <= num_gens[p] /\ num_gens[p] \in Nat /\ num_gens'[p] \in Nat
    <3>1. num_gens[p] \in Nat /\ num_gens'[p] \in Nat
      BY <1>1 DEF TypeOK
    <3>2. p # o => num_gens'[p] = num_gens[p]
      BY <1>2 DEF SameMetadata
    <3>3. QED
      BY <3>1, <3>2, <1>2
  <2>2. \A p \in Objects : p # o => (Compatible(p) => Compatible(p)')
    BY <1>2, <1>3 DEF Compatible, SameMetadata, Group
  <2>3. \A p \in Objects : Checked(p)' <=> Checked(p)
    BY <1>2, <1>3 DEF Checked, Arguments
  <2>4. \A p \in Objects : Checked(p)' => Compatible(p)'
    BY <2>2, <2>3, <1>1, <1>2 DEF ParentOK
  <2>5. \A s \in Tasks : tpc'[s] = "unborn" <=> tpc[s] = "unborn"
    BY <1>2, <1>6
  <2>6. newest # 0 => newest \in Tasks
    BY <1>1, Newest
  <2>7. /\ spc \in {"called", "deferred"} => tpc'[newest] = "running"
        /\ spc \in {"issue", "issued"} => tpc'[newest] = "pending"
    BY <2>6, <1>1, <1>2, <1>7 DEF ParentOK
  <2>8. spc = "group" => /\ seen \in Objects \X Nat /\ seen[1] \in args
                         /\ num_gens'[seen[1]] <= seen[2]
    <3> SUFFICES ASSUME spc = "group"
                 PROVE  /\ seen \in Objects \X Nat /\ seen[1] \in args
                        /\ num_gens'[seen[1]] <= seen[2]
      OBVIOUS
    <3>1. /\ seen \in Objects \X Nat /\ seen[1] \in args
          /\ num_gens[seen[1]] <= seen[2]
      BY <1>1 DEF ParentOK
    <3>2. num_gens'[seen[1]] \in Nat /\ num_gens[seen[1]] \in Nat /\ seen[2] \in Nat
      BY <3>1, <2>1
    <3>3. QED
      BY <3>1, <3>2, <2>1
  <2>9. QED
    BY <2>4, <2>5, <2>7, <2>8, <1>1, <1>2, <1>3 DEF ParentOK, Arguments
<1>13. TodoOK'
  BY <1>1, <1>2, <1>4 DEF TodoOK, Arguments
<1>14. MutexOK'
  BY <1>1, <1>2 DEF MutexOK, SameMetadata
<1>15. QED
  BY <1>3, <1>4, <1>5, <1>8, <1>9, <1>11, <1>12, <1>13, <1>14

(* A release that makes no task ready.                                     *)
LEMMA ReleaseRest ==
    ASSUME DataflowAssumption, IInv, TypeOK', NEW t \in Tasks, NEW o \in Objects, ReleaseOf(t, o),
           ObjectOK(o)', \A s : Waits(s, o)' <=> Waits(s, o), UNCHANGED <<incoming_count, rlist>>
    PROVE  IInv'
<1>1. TypeOK /\ CountOK /\ ReadyOK /\ OrderOK
  BY InvParts
<1>2. /\ Extended /\ newest' = newest /\ ended' = ended
      /\ ParentOK' /\ TodoOK' /\ MutexOK'
      /\ \A p \in Objects \ {o} : ObjectOK(p)' /\ \A s : Waits(s, p)' <=> Waits(s, p)
      /\ \A s \in Tasks : Releasing(s)' <=> Releasing(s)
  BY ReleaseParts
<1>3. \A p \in Objects : ObjectOK(p)' /\ \A s : Waits(s, p)' <=> Waits(s, p)
  BY <1>2
<1>4. \A s : WaitsFor(s)' = WaitsFor(s)
  BY <1>3 DEF WaitsFor
<1>5. /\ UNCHANGED <<access, spc, args>>
      /\ \A s \in Tasks : /\ tpc'[s] = "pending" <=> tpc[s] = "pending"
                          /\ tpc'[s] = "unborn" <=> tpc[s] = "unborn"
  BY DEF ReleaseOf, spawner, Releasing
<1>6. CountOK'
  <2>1. \A s : Held(s)' = Held(s)
    BY <1>2, <1>5 DEF Held
  <2>2. QED
    BY <2>1, <1>1, <1>3, <1>4, <1>5 DEF CountOK
<1>7. ReadyOK'
  <2>1. \A s \in Tasks : rlist[s] \subseteq Tasks
    BY <1>1 DEF TypeOK
  <2>2. QED
    BY <2>1, <1>1, <1>2, <1>5 DEF ReadyOK
<1>8. OrderOK'
  <2>1. \A s \in Tasks, p \in Objects : Cleared(s, p)' => s <= newest /\ Cleared(s, p)
    BY <1>2, <1>3, <1>5 DEF Cleared, Arguments
  <2>2. QED
    BY <2>1, <1>1, <1>2, OrderKept
<1>9. QED
  BY <1>2, <1>3, <1>6, <1>7, <1>8 DEF IInv

(* A task that releases an object is of its oldest generation.             *)
LEMMA Releaser ==
    ASSUME DataflowAssumption, IInv, NEW t \in Tasks, NEW o \in Objects,
           tpc[t] = "release", o \in todo[t], mutex[o] = Free
    PROVE  /\ t \in Oldest(o) /\ t \notin Nodes(o) /\ FreeOK(o) /\ Entered(t, o)
           /\ oldest_num_tasks[o] \in Nat /\ oldest_num_tasks[o] # 0
           /\ oldest_num_tasks[o] = 1 <=> Oldest(o) = {t}
           /\ \A p \in Objects : mutex[p] # t
<1>1. TypeOK /\ ParentOK /\ ObjectOK(o) /\ TodoOK /\ CountOK /\ (\A p \in Objects : ObjectOK(p))
  BY InvParts
<1>2. FreeOK(o)
  BY <1>1 DEF ObjectOK
<1>3. t \notin Nodes(o)
  <2>1. ~Waits(t, o)
    BY <1>1 DEF CountOK
  <2>2. Woken(o) = 0 /\ Len(waiting[o]) \in Nat
    BY <1>1, Listed DEF Woken
  <2>3. QED
    BY <2>1, <2>2 DEF Waits, Nodes
<1>4. t <= newest /\ (t = newest => spc \notin {"called", "deferred", "issue"})
  BY <1>1, Newest, Finite DEF ParentOK
<1>5. Entered(t, o)
  BY <1>1, <1>4 DEF Entered, Releasing, TodoOK
<1>6. t \in Oldest(o)
  BY <1>3, <1>5 DEF Oldest, Holders
<1>7. IsFiniteSet(Oldest(o)) /\ oldest_num_tasks[o] = Cardinality(Oldest(o))
  BY <1>1, <1>2, Holding DEF FreeOK
<1>8. \A p \in Objects : mutex[p] # t
  BY <1>1, Waking DEF DataflowAssumption
<1>9. /\ Cardinality(Oldest(o)) \in Nat /\ Cardinality(Oldest(o)) > 0
      /\ Cardinality(Oldest(o)) = 1 <=> Oldest(o) = {t}
  BY <1>6, <1>7, CardMinus, CardOne
<1>10. QED
  BY <1>2, <1>3, <1>5, <1>6, <1>7, <1>8, <1>9

(* A release that leaves tasks of the oldest generation running.           *)
LEMMA WakeupNoneStep ==
    ASSUME DataflowAssumption, IInv, NEW t \in Tasks, NEW o \in Objects, WakeupNone(t, o)
    PROVE  IInv'
<1>1. TypeOK /\ ObjectOK(o) /\ CountOK
  BY InvParts
<1>2. /\ tpc[t] = "release" /\ o \in todo[t] /\ mutex[o] = Free /\ oldest_num_tasks[o] # 1
      /\ oldest_num_tasks' = [oldest_num_tasks EXCEPT ![o] = @ - 1]
      /\ todo' = [todo EXCEPT ![t] = @ \ {o}]
      /\ UNCHANGED <<num_gens, youngest_group, waiting, last, mutex, access,
                     tpc, incoming_count, walked, rlist, spawner>>
  BY DEF WakeupNone
<1>3. /\ t \in Oldest(o) /\ t \notin Nodes(o) /\ FreeOK(o) /\ Entered(t, o)
      /\ oldest_num_tasks[o] \in Nat /\ oldest_num_tasks[o] # 0
      /\ oldest_num_tasks[o] = 1 <=> Oldest(o) = {t}
      /\ \A p \in Objects : mutex[p] # t
  BY <1>2, Releaser
<1>4. TypeOK'
  BY <1>1, <1>2, <1>3 DEF TypeOK, spawner, newest
<1>5. /\ todo'[t] = todo[t] \ {o} /\ \A s \in Tasks : s # t => todo'[s] = todo[s]
      /\ oldest_num_tasks'[o] = oldest_num_tasks[o] - 1
      /\ \A p \in Objects : p # o => oldest_num_tasks'[p] = oldest_num_tasks[p]
  BY <1>1, <1>2 DEF TypeOK
<1>6. ReleaseOf(t, o)
  <2>1. \A p \in Objects : p # o => SameMetadata(p)
    BY <1>2, <1>5 DEF SameMetadata
  <2>2. Compatible(o)' <=> Compatible(o)
    BY <1>2 DEF Compatible, Group, newest
  <2>3. num_gens'[o] <= num_gens[o]
    BY <1>1, <1>2 DEF TypeOK
  <2>4. QED
    BY <2>1, <2>2, <2>3, <1>2, <1>3, <1>5 DEF ReleaseOf, Releasing
<1>7. /\ Extended /\ newest' = newest
      /\ \A s \in Tasks : s # t => (Entered(s, o)' <=> Entered(s, o))
      /\ ~Entered(t, o)'
  BY <1>4, <1>5, <1>6, ReleaseParts
<1>8. Oldest(o)' = Oldest(o) \ {t}
  <2>1. Nodes(o)' = Nodes(o)
    BY <1>2 DEF Nodes
  <2>2. Holders(o)' = Holders(o) \ {t}
    BY <1>7 DEF Holders
  <2>3. QED
    BY <2>1, <2>2, <1>3 DEF Oldest
<1>9. ListOK(o)'
  <2>1. \A s \in Nodes(o) : Entered(s, o) => Entered(s, o)'
    BY <1>1, <1>3, <1>7, Listed
  <2>2. QED
    BY <2>1, <1>1, <1>2, <1>7, ListSame
<1>10. OldestOK(o)'
  <2>1. \A s \in Tasks : Entered(s, o)' => Entered(s, o)
    BY <1>7
  <2>2. QED
    BY <2>1, <1>1, <1>2, <1>7, OldestSame
<1>11. FreeOK(o)'
  <2>1. Cardinality(Oldest(o) \ {t}) = Cardinality(Oldest(o)) - 1
    BY <1>1, <1>3, Holding, CardMinus
  <2>2. Oldest(o) # {} /\ Oldest(o)' # {}
    BY <1>2, <1>3, <1>8
  <2>3. Generations(o)' = Generations(o)
    BY <1>2 DEF Generations, Nodes
  <2>4. QED
    BY <2>1, <2>2, <2>3, <1>2, <1>3, <1>5, <1>8 DEF FreeOK
<1>12. ObjectOK(o)'
  BY <1>2, <1>9, <1>10, <1>11 DEF ObjectOK, DataflowAssumption
<1>13. \A s : Waits(s, o)' <=> Waits(s, o)
  BY <1>2, WaitsSame
<1>14. QED
  BY <1>2, <1>4, <1>6, <1>12, <1>13, ReleaseRest

(* The release of the last task of an object, before its group is reset.   *)
LEMMA WakeupLastStep ==
    ASSUME DataflowAssumption, IInv, NEW t \in Tasks, NEW o \in Objects, WakeupLast(t, o)
    PROVE  IInv'
<1>1. TypeOK /\ ObjectOK(o)
  BY InvParts
<1>2. /\ tpc[t] = "release" /\ o \in todo[t] /\ mutex[o] = Free /\ oldest_num_tasks[o] = 1 /\ num_gens[o] = 1
      /\ tpc' = [tpc EXCEPT ![t] = "empty"]
      /\ mutex' = [mutex EXCEPT ![o] = t]
      /\ oldest_num_tasks' = [oldest_num_tasks EXCEPT ![o] = 0]
      /\ num_gens' = [num_gens EXCEPT ![o] = 0]
      /\ UNCHANGED <<youngest_group, waiting, last, access,
                     incoming_count, todo, walked, rlist, spawner>>
  BY DEF WakeupLast, TaskGoto
<1>3. Oldest(o) = {t} /\ FreeOK(o) /\ \A p \in Objects : mutex[p] # t
  BY <1>2, Releaser
<1>4. TypeOK'
  BY <1>1, <1>2 DEF TypeOK, spawner, newest
<1>5. /\ tpc'[t] = "empty" /\ mutex'[o] = t /\ oldest_num_tasks'[o] = 0 /\ num_gens'[o] = 0
      /\ \A s \in Tasks : s # t => tpc'[s] = tpc[s]
      /\ \A p \in Objects : p # o => SameMetadata(p)
  BY <1>1, <1>2 DEF TypeOK, SameMetadata
<1>6. ReleaseOf(t, o)
  <2>1. Compatible(o)'
    BY <1>5 DEF Compatible
  <2>2. num_gens'[o] <= num_gens[o]
    BY <1>2, <1>5
  <2>3. QED
    BY <2>1, <2>2, <1>2, <1>3, <1>5 DEF ReleaseOf, Releasing
<1>7. Extended /\ newest' = newest /\ \A s \in Tasks : Entered(s, o)' <=> Entered(s, o)
  BY <1>2, <1>4, <1>6, ReleaseParts
<1>8. waiting[o] = <<>>
  BY <1>1, <1>2, <1>3, GenerationCount DEF FreeOK
<1>9. ListOK(o)'
  <2>1. \A s \in Nodes(o) : Entered(s, o) => Entered(s, o)'
    BY <1>1, <1>7, Listed
  <2>2. QED
    BY <2>1, <1>1, <1>2, <1>7, ListSame
<1>10. OldestOK(o)'
  BY <1>1, <1>2, <1>7, OldestSame
<1>11. WakingOK(o, t)'
  <2>1. Oldest(o)' = {t}
    BY <1>2, <1>3, <1>7 DEF Oldest, Holders, Nodes
  <2>2. QED
    BY <2>1, <1>2, <1>5, <1>8 DEF WakingOK
<1>12. ObjectOK(o)'
  <2>1. \A s : s = t => WakingOK(o, s)'
    BY <1>11
  <2>2. QED
    BY <2>1, <1>5, <1>9, <1>10 DEF ObjectOK, DataflowAssumption
<1>13. \A s : Waits(s, o)' <=> Waits(s, o)
  BY <1>2, <1>8 DEF Waits
<1>14. QED
  BY <1>2, <1>4, <1>6, <1>12, <1>13, ReleaseRest

(* The object that has lost its last task is empty.                        *)
LEMMA EmptyStep ==
    ASSUME DataflowAssumption, IInv, NEW t \in Tasks, NEW o \in Objects, Empty(t, o)
    PROVE  IInv'
<1>1. TypeOK /\ ObjectOK(o) /\ MutexOK /\ t # Free
  BY InvParts DEF DataflowAssumption
<1>2. /\ mutex[o] = t /\ tpc[t] = "empty"
      /\ tpc' = [tpc EXCEPT ![t] = "release"]
      /\ youngest_group' = [youngest_group EXCEPT ![o] = "empty"]
      /\ mutex' = [mutex EXCEPT ![o] = Free]
      /\ todo' = [todo EXCEPT ![t] = @ \ {o}]
      /\ UNCHANGED <<num_gens, oldest_num_tasks, waiting, last, access,
                     incoming_count, walked, rlist, spawner>>
  BY DEF Empty, TaskGoto
<1>3. WakingOK(o, t)
  BY <1>1, <1>2 DEF ObjectOK
<1>4. Oldest(o) = {t} /\ o \in todo[t] /\ oldest_num_tasks[o] = 0 /\ num_gens[o] = 0 /\ waiting[o] = <<>>
  BY <1>2, <1>3 DEF WakingOK
<1>5. TypeOK'
  BY <1>1, <1>2 DEF TypeOK, spawner, newest
<1>6. /\ tpc'[t] = "release" /\ mutex'[o] = Free /\ youngest_group'[o] = "empty"
      /\ todo'[t] = todo[t] \ {o} /\ \A s \in Tasks : s # t => tpc'[s] = tpc[s] /\ todo'[s] = todo[s]
      /\ \A p \in Objects : p # o => SameMetadata(p) /\ mutex[p] # t
  BY <1>1, <1>2 DEF TypeOK, SameMetadata, MutexOK
<1>7. ReleaseOf(t, o)
  <2>1. Compatible(o)' /\ num_gens'[o] <= num_gens[o]
    BY <1>2, <1>4 DEF Compatible
  <2>2. QED
    BY <2>1, <1>2, <1>4, <1>6 DEF ReleaseOf, Releasing
<1>8. /\ Extended /\ newest' = newest
      /\ \A s \in Tasks : s # t => (Entered(s, o)' <=> Entered(s, o))
      /\ ~Entered(t, o)'
  BY <1>5, <1>6, <1>7, ReleaseParts
<1>9. ListOK(o)' /\ Nodes(o)' = {} /\ Generations(o)' = 0
  <2>1. \A s \in last'[o] : s < newest'
    BY <1>1, <1>2, <1>8 DEF ObjectOK, ListOK, Marked
  <2>2. QED
    BY <2>1, <1>2, <1>4, ListEmpty
<1>10. Oldest(o)' = {}
  <2>1. Nodes(o) = {}
    BY <1>1, <1>4, Listed
  <2>2. \A s \in Tasks : Entered(s, o) => s = t
    BY <2>1, <1>4 DEF Oldest, Holders
  <2>3. QED
    BY <2>2, <1>8 DEF Oldest, Holders
<1>11. OldestOK(o)'
  BY <1>10 DEF OldestOK
<1>12. FreeOK(o)'
  BY <1>2, <1>4, <1>6, <1>10, FS_EmptySet DEF FreeOK
<1>13. ObjectOK(o)'
  BY <1>6, <1>9, <1>11, <1>12 DEF ObjectOK, DataflowAssumption
<1>14. \A s : Waits(s, o)' <=> Waits(s, o)
  BY <1>2, <1>4 DEF Waits
<1>15. QED
  BY <1>2, <1>5, <1>7, <1>13, <1>14, ReleaseRest

(* The last task of the oldest generation begins to wake the next one.     *)
LEMMA WakeupHardStep ==
    ASSUME DataflowAssumption, IInv, NEW t \in Tasks, NEW o \in Objects, WakeupHard(t, o)
    PROVE  IInv'
<1>1. TypeOK /\ ObjectOK(o)
  BY InvParts
<1>2. /\ tpc[t] = "release" /\ o \in todo[t] /\ mutex[o] = Free /\ oldest_num_tasks[o] = 1 /\ num_gens[o] # 1
  BY DEF WakeupHard, TaskGoto
<1>3. Oldest(o) = {t} /\ FreeOK(o) /\ \A p \in Objects : mutex[p] # t
  BY <1>2, Releaser
<1>4. waiting[o] # <<>> /\ num_gens[o] = 1 + Generations(o) /\ Len(waiting[o]) \in Nat /\ Len(waiting[o]) # 0
  BY <1>1, <1>2, <1>3, GenerationCount, Listed DEF FreeOK
<1>5. /\ tpc' = [tpc EXCEPT ![t] = "walk"]
      /\ mutex' = [mutex EXCEPT ![o] = t]
      /\ oldest_num_tasks' = [oldest_num_tasks EXCEPT ![o] = 0]
      /\ walked' = [walked EXCEPT ![t] = 0]
      /\ UNCHANGED <<num_gens, youngest_group, waiting, last, access,
                     incoming_count, todo, rlist, spawner>>
  BY <1>4 DEF WakeupHard, TaskGoto
<1>6. TypeOK'
  BY <1>1, <1>5 DEF TypeOK, spawner, newest
<1>7. /\ tpc'[t] = "walk" /\ mutex'[o] = t /\ oldest_num_tasks'[o] = 0 /\ walked'[t] = 0
      /\ \A s \in Tasks : s # t => tpc'[s] = tpc[s] /\ walked'[s] = walked[s]
      /\ \A p \in Objects : p # o => SameMetadata(p)
  BY <1>1, <1>5 DEF TypeOK, SameMetadata
<1>8. ReleaseOf(t, o)
  <2>1. Compatible(o)' <=> Compatible(o)
    BY <1>5 DEF Compatible, Group, newest
  <2>2. num_gens'[o] <= num_gens[o]
    BY <1>1, <1>5 DEF TypeOK
  <2>3. QED
    BY <2>1, <2>2, <1>2, <1>3, <1>5, <1>7 DEF ReleaseOf, Releasing
<1>9. Extended /\ newest' = newest /\ \A s \in Tasks : Entered(s, o)' <=> Entered(s, o)
  BY <1>2, <1>5, <1>6, <1>8, ReleaseParts
<1>10. ListOK(o)'
  <2>1. \A s \in Nodes(o) : Entered(s, o) => Entered(s, o)'
    BY <1>1, <1>9, Listed
  <2>2. QED
    BY <2>1, <1>1, <1>5, <1>9, ListSame
<1>11. OldestOK(o)'
  BY <1>1, <1>5, <1>9, OldestSame
<1>12. WakingOK(o, t)'
  <2>1. Oldest(o)' = {t}
    BY <1>3, <1>5, <1>9 DEF Oldest, Holders, Nodes
  <2>2. num_gens'[o] = 1 + Generations(o)'
    BY <1>4, <1>5 DEF Generations, Nodes
  <2>3. QED
    BY <2>1, <2>2, <1>2, <1>4, <1>5, <1>7 DEF WakingOK
<1>13. ObjectOK(o)'
  <2>1. \A s : s = t => WakingOK(o, s)'
    BY <1>12
  <2>2. QED
    BY <2>1, <1>7, <1>10, <1>11 DEF ObjectOK, DataflowAssumption
<1>14. \A s : Waits(s, o)' <=> Waits(s, o)
  <2>1. Woken(o) = 0 /\ Woken(o)' = 0
    BY <1>2, <1>7 DEF Woken, DataflowAssumption
  <2>2. QED
    BY <2>1, <1>5 DEF Waits
<1>15. QED
  BY <1>5, <1>6, <1>8, <1>13, <1>14, ReleaseRest

-----------------------------------------------------------------------------
(* The node that a walk has come to: it follows tasks of its own generation*)
(* only, so every earlier task that its task conflicts with has ended.     *)
LEMMA NextNode ==
    ASSUME DataflowAssumption, IInv, NEW t \in Tasks, NEW o \in Objects,
           mutex[o] = t, tpc[t] = "walk",
           NEW k, k = walked[t] + 1, NEW n, n = waiting[o][k]
    PROVE  /\ k \in 1..Len(waiting[o]) /\ n \in Tasks /\ n \in Nodes(o) /\ n # t /\ t < n
           /\ o \in todo[t] /\ Releasing(t)
           /\ Waits(n, o) /\ tpc[n] = "pending" /\ n \in 1..newest
           /\ \A i \in 1..(k - 1) : waiting[o][i] \notin last[o]
           /\ \A i \in 1..Len(waiting[o]) : waiting[o][i] = n => i = k
           /\ Conflict(access[t], access[n])
           /\ MayUse(n, o)
<1>1. TypeOK /\ ParentOK /\ ObjectOK(o) /\ CountOK /\ TodoOK
  BY InvParts
<1>2. WakingOK(o, t) /\ ListOK(o) /\ OldestOK(o) /\ t # Free
  BY <1>1 DEF ObjectOK, DataflowAssumption
<1>3. PICK w, m : waiting[o] = w /\ Len(w) = m
  OBVIOUS
<1>4. w \in Seq(Tasks) /\ m \in Nat /\ (\A i \in 1..m : w[i] \in Tasks /\ w[i] \in Nodes(o)) /\ Tasks \subseteq Nat
  BY <1>1, <1>3, Listed, Finite DEF Nodes
<1>5. walked[t] \in Nat /\ k \in 1..m /\ n = w[k] /\ n \in Tasks /\ n \in Nodes(o)
  <2>1. walked[t] \in Nat /\ walked[t] < m
    BY <1>1, <1>2, <1>3 DEF WakingOK, TypeOK
  <2>2. k \in 1..m
    BY <2>1, <1>4
  <2>3. QED
    BY <2>1, <2>2, <1>3, <1>4
<1>6. /\ \A i, j \in 1..m : i < j => w[i] < w[j]
      /\ \A i \in 1..m : w[i] = n => i = k
  <2>1. \A i, j \in 1..m : i < j => w[i] < w[j]
    BY <1>2, <1>3 DEF ListOK, InOrder
  <2>2. QED
    BY <2>1, <1>4, <1>5
<1>7. \A i \in 1..(k - 1) : w[i] \notin last[o]
  BY <1>2, <1>3, <1>5 DEF WakingOK
<1>8. Oldest(o) = {t} /\ o \in todo[t]
  BY <1>2 DEF WakingOK
<1>9. t < n /\ n # t /\ t \in Nat
  BY <1>2, <1>4, <1>5, <1>8 DEF OldestOK
<1>10. Waits(n, o) /\ tpc[n] = "pending" /\ n \in 1..newest
  <2>1. Woken(o) = walked[t]
    BY <1>2 DEF Woken
  <2>2. Waits(n, o)
    BY <2>1, <1>3, <1>5 DEF Waits
  <2>3. QED
    BY <2>2, <1>1, <1>5, Holding DEF CountOK
<1>11. Releasing(t) /\ t \in 1..newest /\ o \in Arguments(t) /\ o \in Arguments(n)
  <2>1. t \in Holders(o)
    BY <1>8 DEF Oldest
  <2>2. QED
    BY <2>1, <1>1, <1>5, Holding DEF Releasing
<1>12. \A i \in 1..(k - 1) : Shares(Group(w[i], o), Group(n, o))
  <2> SUFFICES ASSUME NEW i \in 1..(k - 1)
               PROVE  Shares(Group(w[i], o), Group(n, o))
    OBVIOUS
  <2>1. i \in 1..m /\ i < k
    BY <1>4, <1>5
  <2>2. SameGen(o, i, k)
    BY <2>1, <1>3, <1>4, <1>5, <1>7 DEF SameGen
  <2>3. QED
    BY <2>1, <2>2, <1>2, <1>3, <1>5 DEF ListOK, Sharing
<1>13. ~Shares(Group(t, o), Group(n, o))
  <2>1. ~Shares(Group(t, o), Group(w[1], o))
    BY <1>2, <1>3, <1>4, <1>5, <1>8 DEF OldestOK
  <2>2. CASE k = 1
    BY <2>1, <2>2, <1>5
  <2>3. CASE k # 1
    BY <2>1, <2>3, <1>4, <1>5, <1>12 DEF Shares
  <2>4. QED
    BY <2>2, <2>3
<1>14. Conflict(access[t], access[n])
  BY <1>11, <1>13 DEF Conflict, Arguments, Group
<1>15. MayUse(n, o)
  <2> SUFFICES ASSUME NEW s \in Tasks, s < n, o \in Arguments(s), s \notin ended,
                      ~Shares(Group(s, o), Group(n, o))
               PROVE  FALSE
    BY DEF MayUse
  <2>1. newest \in Nat /\ s \in Nat /\ s < newest /\ n <= newest
    BY <1>1, <1>4, <1>5, <1>10, Newest
  <2>2. tpc[s] \in {"pending", "ready", "running"}
    <3>1. tpc[s] # "unborn"
      BY <2>1, <1>1 DEF ParentOK
    <3>2. QED
      BY <3>1, <1>1 DEF TypeOK, ended, Releasing
  <2>3. s \in Holders(o) /\ s # t
    BY <2>1, <2>2, <1>11 DEF Holders, Entered, Releasing
  <2>4. PICK i \in 1..m : s = w[i]
    BY <2>3, <1>3, <1>8 DEF Oldest, Nodes
  <2>5. i \in 1..(k - 1)
    <3>1. w[i] < n /\ w[i] \in Nat /\ n \in Nat /\ k \in 1..m
      BY <2>1, <2>4, <1>4, <1>5
    <3>2. k < i => w[k] < w[i]
      BY <2>4, <3>1, <1>6
    <3>3. i < k
      BY <3>1, <3>2, <1>4, <1>5
    <3>4. QED
      BY <3>1, <3>3
  <2>6. QED
    BY <2>4, <2>5, <1>12
<1>16. QED
  BY <1>3, <1>5, <1>6, <1>7, <1>8, <1>9, <1>10, <1>11, <1>14, <1>15

(* The walk of a node: its task waits for one object less, and is ready    *)
(* when that was the last one.                                             *)
LEMMA WakeNodeStep ==
    ASSUME DataflowAssumption, IInv, NEW t \in Tasks, NEW o \in Objects, WakeNode(t, o)
    PROVE  IInv'
<1>1. /\ TypeOK /\ ParentOK /\ ObjectOK(o) /\ MutexOK /\ CountOK /\ ReadyOK /\ OrderOK
      /\ t # Free
  BY InvParts DEF DataflowAssumption
<1>2. PICK k, n : k = walked[t] + 1 /\ n = waiting[o][k]
  OBVIOUS
<1>3. mutex[o] = t /\ tpc[t] = "walk"
  BY DEF WakeNode, TaskGoto
<1>4. /\ k \in 1..Len(waiting[o]) /\ n \in Tasks /\ n \in Nodes(o) /\ n # t /\ t < n
      /\ o \in todo[t] /\ Releasing(t)
      /\ Waits(n, o) /\ tpc[n] = "pending" /\ n \in 1..newest
      /\ \A i \in 1..(k - 1) : waiting[o][i] \notin last[o]
      /\ \A i \in 1..Len(waiting[o]) : waiting[o][i] = n => i = k
      /\ Conflict(access[t], access[n])
      /\ MayUse(n, o)
  BY <1>2, <1>3, NextNode
<1>5. PICK next : next = IF n \in last[o] \/ k = Len(waiting[o]) THEN "pop" ELSE "walk"
  OBVIOUS
<1>6. /\ tpc' = [tpc EXCEPT ![t] = next]
      /\ incoming_count' = [incoming_count EXCEPT ![n] = @ - 1]
      /\ rlist' = IF incoming_count[n] = 1 THEN [rlist EXCEPT ![t] = @ \cup {n}] ELSE rlist
      /\ walked' = [walked EXCEPT ![t] = k]
      /\ UNCHANGED <<num_gens, youngest_group, oldest_num_tasks, waiting, last, mutex,
                     access, todo, spawner>>
  BY <1>2, <1>5 DEF WakeNode, TaskGoto, metadata
<1>7. next \in {"pop", "walk"} /\ k \in Nat /\ walked[t] \in Nat
  BY <1>1, <1>2, <1>5 DEF TypeOK
<1>8. /\ WaitsFor(n) \in SUBSET Objects /\ o \in WaitsFor(n)
      /\ IsFiniteSet(WaitsFor(n)) /\ Cardinality(WaitsFor(n)) \in Nat
      /\ Cardinality(WaitsFor(n)) # 0
      /\ Cardinality(WaitsFor(n) \ {o}) = Cardinality(WaitsFor(n)) - 1
      /\ incoming_count[n] = Cardinality(WaitsFor(n)) + Held(n) /\ Held(n) \in {0, 1}
      /\ incoming_count[n] \in Nat /\ incoming_count[n] # 0
  <2>1. WaitsFor(n) \in SUBSET Objects /\ o \in WaitsFor(n)
    BY <1>4 DEF WaitsFor
  <2>2. /\ IsFiniteSet(WaitsFor(n)) /\ Cardinality(WaitsFor(n)) \in Nat
        /\ Cardinality(WaitsFor(n)) # 0
        /\ Cardinality(WaitsFor(n) \ {o}) = Cardinality(WaitsFor(n)) - 1
    BY <2>1, Finite, CardMinus
  <2>3. incoming_count[n] = Cardinality(WaitsFor(n)) + Held(n) /\ Held(n) \in {0, 1}
    BY <1>1, <1>4 DEF CountOK, Held
  <2>4. QED
    BY <2>1, <2>2, <2>3
<1>9. TypeOK'
  <2>1. tpc' \in [Tasks -> {"unborn", "pending", "ready", "running", "release",
                            "empty", "walk", "pop", "done"}]
    BY <1>1, <1>6, <1>7 DEF TypeOK
  <2>2. incoming_count' \in [Tasks -> Nat] /\ walked' \in [Tasks -> Nat]
    <3>1. incoming_count[n] - 1 \in Nat
      BY <1>8
    <3>2. incoming_count' = [incoming_count EXCEPT ![n] = incoming_count[n] - 1]
      BY <1>6
    <3>3. incoming_count' \in [Tasks -> Nat]
      BY <3>1, <3>2, <1>1 DEF TypeOK
    <3>4. walked' \in [Tasks -> Nat]
      BY <1>1, <1>6, <1>7 DEF TypeOK
    <3>5. QED
      BY <3>3, <3>4
  <2>3. rlist' \in [Tasks -> SUBSET Tasks]
    <3>1. rlist' = rlist \/ rlist' = [rlist EXCEPT ![t] = rlist[t] \cup {n}]
      BY <1>6
    <3>2. QED
      BY <3>1, <1>1, <1>4 DEF TypeOK
  <2>4. QED
    BY <2>1, <2>2, <2>3, <1>1, <1>6 DEF TypeOK, spawner, newest
<1>10. /\ tpc'[t] = next /\ walked'[t] = k
       /\ \A s \in Tasks : s # t => tpc'[s] = tpc[s] /\ walked'[s] = walked[s] /\ rlist'[s] = rlist[s]
       /\ incoming_count'[n] = incoming_count[n] - 1
       /\ \A s \in Tasks : s # n => incoming_count'[s] = incoming_count[s]
       /\ rlist'[t] = IF incoming_count[n] = 1 THEN rlist[t] \cup {n} ELSE rlist[t]
  BY <1>1, <1>4, <1>6 DEF TypeOK
<1>11. ReleaseOf(t, o)
  <2>1. \A p \in Objects : p # o => SameMetadata(p) /\ mutex[p] # t
    BY <1>1, <1>3, <1>6 DEF SameMetadata, MutexOK
  <2>2. (Compatible(o)' <=> Compatible(o)) /\ num_gens'[o] <= num_gens[o]
    BY <1>1, <1>6 DEF Compatible, Group, newest, TypeOK
  <2>3. Releasing(t)'
    BY <1>7, <1>10 DEF Releasing
  <2>4. QED
    BY <2>1, <2>2, <2>3, <1>3, <1>4, <1>6, <1>10 DEF ReleaseOf
<1>12. /\ Extended /\ newest' = newest /\ ended' = ended
       /\ ParentOK' /\ TodoOK' /\ MutexOK'
       /\ \A p \in Objects \ {o} : ObjectOK(p)' /\ \A s : Waits(s, p)' <=> Waits(s, p)
       /\ \A s \in Tasks : Releasing(s)' <=> Releasing(s)
       /\ \A s \in Tasks : s # t => (Entered(s, o)' <=> Entered(s, o))
       /\ Entered(t, o) /\ (Entered(t, o)' <=> o \in todo'[t])
  BY <1>9, <1>11, ReleaseParts
<1>13. \A s \in Tasks : Entered(s, o)' <=> Entered(s, o)
  BY <1>4, <1>6, <1>12
<1>14. ObjectOK(o)'
  <2>1. ListOK(o)'
    <3>1. \A s \in Nodes(o) : Entered(s, o) => Entered(s, o)'
      BY <1>1, <1>13, Listed
    <3>2. QED
      BY <3>1, <1>1, <1>6, <1>12, ListSame
  <2>2. OldestOK(o)'
    BY <1>1, <1>6, <1>12, <1>13, OldestSame
  <2>3. WakingOK(o, t)
    BY <1>1, <1>3 DEF ObjectOK
  <2>4. Oldest(o)' = {t} /\ Generations(o)' = Generations(o)
    BY <2>3, <1>6, <1>13 DEF WakingOK, Oldest, Holders, Nodes, Generations
  <2>5. WakingOK(o, t)'
    <3>1. \A i \in 1..k : i # k => waiting[o][i] \notin last[o]
      BY <1>4, <1>7
    <3>2. /\ waiting[o] # <<>> /\ num_gens[o] = 1 + Generations(o) /\ oldest_num_tasks[o] = 0
          /\ o \in todo[t] /\ k <= Len(waiting[o]) /\ k # 0
      BY <2>3, <1>3, <1>4 DEF WakingOK
    <3>3. next = "walk" => k < Len(waiting[o]) /\ waiting[o][k] \notin last[o]
      BY <1>2, <1>4, <1>5
    <3>4. next = "pop" => waiting[o][k] \in last[o] \/ k = Len(waiting[o])
      BY <1>2, <1>5
    <3>5. QED
      BY <2>4, <3>1, <3>2, <3>3, <3>4, <1>6, <1>7, <1>10 DEF WakingOK
  <2>6. \A s : s = t => WakingOK(o, s)'
    BY <2>5
  <2>7. QED
    BY <2>1, <2>2, <2>6, <1>1, <1>3, <1>6 DEF ObjectOK
<1>15. /\ \A s : Waits(s, o)' <=> Waits(s, o) /\ s # n
       /\ \A p \in Objects : \A s : s # n \/ p # o => (Waits(s, p)' <=> Waits(s, p))
       /\ ~Waits(n, o)'
  <2>1. Woken(o) = walked[t] /\ Woken(o)' = k
    BY <1>1, <1>3, <1>6, <1>10 DEF Woken
  <2>2. PICK w, m : waiting[o] = w /\ Len(w) = m
    OBVIOUS
  <2>3. \A s : Waits(s, o) <=> \E i \in 1..m : w[i] = s /\ i > walked[t]
    BY <2>1, <2>2 DEF Waits
  <2>4. \A s : Waits(s, o)' <=> \E i \in 1..m : w[i] = s /\ i > k
    BY <2>1, <2>2, <1>6 DEF Waits
  <2>5. /\ \A i \in 1..m : i > walked[t] <=> i > k \/ i = k
        /\ w[k] = n /\ \A i \in 1..m : w[i] = n => i = k
    BY <2>2, <1>2, <1>4, <1>7
  <2>6. \A s : Waits(s, o)' <=> Waits(s, o) /\ s # n
    BY <2>3, <2>4, <2>5
  <2>7. QED
    BY <2>6, <1>12
<1>16. CountOK'
  <2>1. /\ \A s \in Tasks : s # n => WaitsFor(s)' = WaitsFor(s)
        /\ \A s \in Tasks : s = n => WaitsFor(s)' = WaitsFor(s) \ {o}
    BY <1>15 DEF WaitsFor
  <2>2. \A s \in Tasks : Held(s)' = Held(s)
    BY <1>6, <1>12 DEF Held, spawner
  <2>3. \A s \in Tasks : tpc'[s] = "pending" <=> tpc[s] = "pending"
    BY <1>3, <1>7, <1>10
  <2>4. \A s \in Tasks, p \in Objects : Waits(s, p)' => tpc'[s] = "pending"
    BY <2>3, <1>1, <1>15 DEF CountOK
  <2>5. ASSUME NEW s \in Tasks, tpc'[s] = "pending"
        PROVE  /\ incoming_count'[s] = Cardinality(WaitsFor(s)') + Held(s)'
               /\ incoming_count'[s] = 0 => \E r \in Tasks : s \in rlist'[r]
    <3>1. CASE s = n
      <4>1. incoming_count'[s] = Cardinality(WaitsFor(s)') + Held(s)'
        <5>1. WaitsFor(s)' = WaitsFor(n) \ {o} /\ Held(s)' = Held(n)
          BY <3>1, <2>1, <2>2
        <5>2. incoming_count[n] - 1 = Cardinality(WaitsFor(n) \ {o}) + Held(n)
          BY <1>8
        <5>3. QED
          BY <5>1, <5>2, <3>1, <1>10
      <4>2. incoming_count'[s] = 0 => s \in rlist'[t]
        BY <3>1, <1>8, <1>10
      <4>3. QED
        BY <4>1, <4>2
    <3>2. CASE s # n
      <4>1. incoming_count'[s] = Cardinality(WaitsFor(s)') + Held(s)'
        BY <3>2, <2>1, <2>2, <2>3, <2>5, <1>1, <1>10 DEF CountOK
      <4>2. incoming_count'[s] = 0 => \E r \in Tasks : s \in rlist[r]
        BY <3>2, <2>3, <2>5, <1>1, <1>10 DEF CountOK
      <4>3. \A r \in Tasks : rlist[r] \subseteq rlist'[r]
        BY <1>10
      <4>4. QED
        BY <4>1, <4>2, <4>3
    <3>3. QED
      BY <3>1, <3>2
  <2>6. QED
    BY <2>4, <2>5 DEF CountOK
<1>17. ReadyOK'
  <2>1. ASSUME NEW s \in Tasks, NEW r \in rlist'[s]
        PROVE  \/ r \in rlist[s] /\ r \in Tasks /\ r # n
               \/ r = n /\ s = t /\ incoming_count'[n] = 0
    BY <1>1, <1>8, <1>10 DEF ReadyOK, TypeOK
  <2>2. \A s \in Tasks : n \notin rlist[s]
    BY <1>1, <1>8 DEF ReadyOK
  <2>3. ASSUME NEW s \in Tasks, NEW r \in rlist'[s]
        PROVE  /\ tpc'[r] = "pending" /\ incoming_count'[r] = 0
               /\ Releasing(s)' /\ s < r /\ Conflict(access'[s], access'[r])
    <3>1. CASE r = n /\ s = t /\ incoming_count'[n] = 0
      BY <3>1, <1>4, <1>6, <1>10, <1>12
    <3>2. CASE r \in rlist[s] /\ r \in Tasks /\ r # n
      <4>1. /\ tpc[r] = "pending" /\ incoming_count[r] = 0
            /\ Releasing(s) /\ s < r /\ Conflict(access[s], access[r])
        BY <3>2, <1>1 DEF ReadyOK
      <4>2. r # t
        BY <4>1, <1>3
      <4>3. QED
        BY <4>1, <4>2, <3>2, <1>6, <1>10, <1>12
    <3>3. QED
      BY <3>1, <3>2, <2>1
  <2>4. ASSUME NEW s \in Tasks, NEW r \in rlist'[s], NEW q \in Tasks, r \in rlist'[q]
        PROVE  q = s
    <3>1. \/ r \in rlist[s] /\ r # n
          \/ r = n /\ s = t
      BY <2>1
    <3>2. \/ r \in rlist[q] /\ r # n
          \/ r = n /\ q = t
      BY <2>1, <2>4
    <3>3. QED
      BY <3>1, <3>2, <1>1 DEF ReadyOK
  <2>5. QED
    BY <2>3, <2>4 DEF ReadyOK
<1>18. OrderOK'
  <2>1. \A s \in Tasks : tpc'[s] = "unborn" <=> tpc[s] = "unborn"
    BY <1>3, <1>7, <1>10
  <2>2. \A s \in Tasks, p \in Objects :
           Cleared(s, p)' => s <= newest /\ (Cleared(s, p) \/ MayUse(s, p))
    <3> SUFFICES ASSUME NEW s \in Tasks, NEW p \in Objects, Cleared(s, p)'
                 PROVE  s <= newest /\ (Cleared(s, p) \/ MayUse(s, p))
      OBVIOUS
    <3>1. CASE s # n \/ p # o
      BY <3>1, <2>1, <1>6, <1>12, <1>15 DEF Cleared, Arguments, spawner
    <3>2. CASE s = n /\ p = o
      BY <3>2, <1>4, <1>12 DEF Cleared
    <3>3. QED
      BY <3>1, <3>2
  <2>3. QED
    BY <2>2, <1>1, <1>12, OrderKept
<1>19. QED
  BY <1>9, <1>12, <1>14, <1>16, <1>17, <1>18 DEF IInv

-----------------------------------------------------------------------------
(* An increasing sequence has as many elements as its length.              *)
LEMMA CardIncreasing ==
    ASSUME NEW w, NEW k \in Nat, NEW S, S = {w[i] : i \in 1..k},
           \A i, j \in 1..k : i < j => w[i] < w[j], \A i \in 1..k : w[i] \in Nat
    PROVE  IsFiniteSet(S) /\ Cardinality(S) = k
<1>1. PICK f : f = [i \in 1..k |-> w[i]]
  OBVIOUS
<1>2. f \in [1..k -> S] /\ (\A s \in S : \E i \in 1..k : f[i] = s) /\ \A i \in 1..k : f[i] = w[i]
  BY <1>1
<1>3. \A i, j \in 1..k : f[i] = f[j] => i = j
  <2> SUFFICES ASSUME NEW i \in 1..k, NEW j \in 1..k, w[i] = w[j]
               PROVE  i = j
    BY <1>2
  <2>1. i \in Nat /\ j \in Nat /\ w[i] \in Nat /\ w[j] \in Nat
    OBVIOUS
  <2>2. ~(i < j) /\ ~(j < i)
    BY <2>1
  <2>3. QED
    BY <2>1, <2>2
<1>4. f \in Bijection(1..k, S)
  BY <1>2, <1>3, Fun_IsBij
<1>5. ExistsBijection(1..k, S)
  BY <1>4 DEF ExistsBijection
<1>6. IsFiniteSet(1..k) /\ Cardinality(1..k) = k
  BY FS_Interval
<1>7. QED
  BY <1>5, <1>6, FS_Bijection

(* The positions of a list between two of them, counted from position k    *)
(* on: what a pop of the first k nodes does to positions.                  *)
LEMMA Shifted ==
    ASSUME NEW k \in Nat, NEW m \in Nat, NEW i \in 1..(m - k), NEW j \in 1..(m - k),
           NEW y \in (k + i)..((k + j) - 1)
    PROVE  y - k \in i..(j - 1) /\ y - k \in 1..(m - k) /\ k + (y - k) = y
OBVIOUS

(* The oldest generation of the list leaves it, and runs.                  *)
LEMMA PopList ==
    ASSUME DataflowAssumption, TypeOK, NEW o \in Objects, ObjectOK(o),
           NEW t \in Tasks, mutex[o] = t, tpc[t] = "pop", UNCHANGED access,
           NEW k, k = walked[t],
           waiting'[o] = SubSeq(waiting[o], k + 1, Len(waiting[o])),
           last'[o] = last[o], youngest_group'[o] = youngest_group[o],
           num_gens'[o] = num_gens[o] - 1, oldest_num_tasks'[o] = k, mutex'[o] = Free,
           \A s \in Tasks : Entered(s, o)' <=> Entered(s, o) /\ s # t
    PROVE  /\ ObjectOK(o)'
           /\ \A s : Waits(s, o)' <=> Waits(s, o)
<1>1. WakingOK(o, t) /\ ListOK(o) /\ OldestOK(o) /\ t # Free
  BY DEF ObjectOK, DataflowAssumption
<1>2. PICK w, r, m : waiting[o] = w /\ waiting'[o] = r /\ Len(w) = m
  OBVIOUS
<1>3. w \in Seq(Tasks) /\ m \in Nat /\ (\A i \in 1..m : w[i] \in Tasks) /\ Tasks \subseteq Nat /\ newest' = newest
  BY <1>2, Listed, Finite DEF newest
<1>4. /\ k \in 1..m
      /\ \A i \in 1..(k - 1) : w[i] \notin last[o]
      /\ w[k] \in last[o] \/ k = m
      /\ Oldest(o) = {t} /\ num_gens[o] = 1 + Generations(o) /\ w # <<>>
  <2>1. k \in Nat /\ k <= m /\ k # 0
    BY <1>1, <1>2 DEF WakingOK, TypeOK
  <2>2. \A i \in 1..k : i # k => w[i] \notin last[o]
    BY <1>1, <1>2 DEF WakingOK
  <2>3. w[k] \in last[o] \/ k = m
    BY <1>1, <1>2 DEF WakingOK
  <2>4. Oldest(o) = {t} /\ num_gens[o] = 1 + Generations(o) /\ w # <<>>
    BY <1>1, <1>2 DEF WakingOK
  <2>5. k \in 1..m
    BY <2>1, <1>3
  <2>6. \A i \in 1..(k - 1) : i \in 1..k /\ i # k
    BY <2>1
  <2>7. QED
    BY <2>2, <2>3, <2>4, <2>5, <2>6
<1>21. k \in Nat /\ m \in Nat /\ 1 <= k /\ k <= m
  BY <1>3, <1>4
<1>5. /\ r \in Seq(Tasks) /\ Len(r) = m - k /\ \A i \in 1..(m - k) : r[i] = w[k + i]
      /\ r = <<>> <=> k = m
  <2>1. r = SubSeq(w, k + 1, m)
    BY <1>2
  <2>2. k + 1 \in Int /\ m \in Int /\ \A i \in (k + 1)..m : w[i] \in Tasks
    <3>1. k + 1 \in Int /\ m \in Int /\ \A i \in (k + 1)..m : i \in 1..m
      BY <1>21
    <3>2. QED
      BY <3>1, <1>3
  <2>3. /\ r \in Seq(Tasks) /\ Len(r) = IF k + 1 <= m THEN m - (k + 1) + 1 ELSE 0
        /\ \A i \in 1..(m - (k + 1) + 1) : r[i] = w[(k + 1) + i - 1]
    BY <2>1, <2>2, SubSeqProperties
  <2>4. Len(r) = m - k
    BY <2>3, <1>21
  <2>5. \A i \in 1..(m - k) : r[i] = w[k + i]
    <3>1. \A i \in 1..(m - k) : i \in 1..(m - (k + 1) + 1) /\ (k + 1) + i - 1 = k + i
      BY <1>21
    <3>2. QED
      BY <2>3, <3>1
  <2>6. r = <<>> <=> Len(r) = 0
    BY <2>3
  <2>7. QED
    BY <2>3, <2>4, <2>5, <2>6, <1>3, <1>4
<1>6. \A i, j \in 1..m : i < j => w[i] < w[j]
  BY <1>1, <1>2 DEF ListOK, InOrder
<1>7. \A i \in 1..(m - k) : k + i \in 1..m
  BY <1>21
<1>8. PICK first : first = {w[i] : i \in 1..k}
  OBVIOUS
<1>9. /\ Nodes(o) = {w[i] : i \in 1..m}
      /\ Nodes(o)' = {r[i] : i \in 1..(m - k)}
  BY <1>2, <1>5 DEF Nodes
<1>10. /\ \A s : s \in Nodes(o)' <=> \E i \in (k + 1)..m : s = w[i]
       /\ \A s \in first, u \in Nodes(o)' : s < u
       /\ \A s : s \in Nodes(o) <=> s \in first \/ s \in Nodes(o)'
  <2>1. ASSUME NEW s PROVE s \in Nodes(o)' <=> \E i \in (k + 1)..m : s = w[i]
    <3>1. ASSUME s \in Nodes(o)' PROVE \E i \in (k + 1)..m : s = w[i]
      <4>1. PICK i \in 1..(m - k) : s = r[i]
        BY <3>1, <1>9
      <4>2. k + i \in (k + 1)..m /\ s = w[k + i]
        <5>1. k + i \in (k + 1)..m
          BY <1>21
        <5>2. QED
          BY <5>1, <4>1, <1>5
      <4>3. QED
        BY <4>2
    <3>2. ASSUME NEW i \in (k + 1)..m, s = w[i] PROVE s \in Nodes(o)'
      <4>1. i - k \in 1..(m - k) /\ k + (i - k) = i
        BY <1>21
      <4>2. r[i - k] = s
        BY <4>1, <3>2, <1>5
      <4>3. QED
        BY <4>1, <4>2, <1>9
    <3>3. QED
      BY <3>1, <3>2
  <2>2. ASSUME NEW s \in first, NEW u \in Nodes(o)' PROVE s < u
    <3>1. PICK i \in 1..k : s = w[i]
      BY <1>8
    <3>2. PICK j \in (k + 1)..m : u = w[j]
      BY <2>1
    <3>3. i \in 1..m /\ j \in 1..m /\ i < j
      BY <1>21
    <3>4. QED
      BY <3>1, <3>2, <3>3, <1>6
  <2>3. ASSUME NEW s PROVE s \in Nodes(o) <=> s \in first \/ s \in Nodes(o)'
    <3>1. \A i : i \in 1..m <=> i \in 1..k \/ i \in (k + 1)..m
      BY <1>21
    <3>2. s \in Nodes(o) <=> \E i \in 1..m : s = w[i]
      BY <1>9
    <3>3. s \in first <=> \E i \in 1..k : s = w[i]
      BY <1>8
    <3>4. s \in Nodes(o)' <=> \E i \in (k + 1)..m : s = w[i]
      BY <2>1
    <3>5. QED
      BY <3>1, <3>2, <3>3, <3>4
  <2>4. QED
    BY <2>1, <2>2, <2>3
<1>30. \A i, j \in 1..(m - k) : \A y \in (k + i)..((k + j) - 1) :
          y - k \in i..(j - 1) /\ y - k \in 1..(m - k) /\ k + (y - k) = y
  BY <1>21, Shifted
<1>11. \A i, j \in 1..(m - k) : SameGen(o, i, j)' => SameGen(o, k + i, k + j)
  <2> SUFFICES ASSUME NEW i \in 1..(m - k), NEW j \in 1..(m - k),
                      \A x \in i..(j - 1) : r[x] \notin last[o],
                      NEW y \in (k + i)..((k + j) - 1)
               PROVE  w[y] \notin last[o]
    BY <1>2 DEF SameGen
  <2>1. y - k \in i..(j - 1) /\ y - k \in 1..(m - k) /\ k + (y - k) = y
    BY <1>30
  <2>2. r[y - k] = w[y]
    BY <2>1, <1>5
  <2>3. QED
    BY <2>1, <2>2
<1>12. ListOK(o)'
  <2>1. Nodes(o)' \subseteq Holders(o)'
    <3>1. \A s \in Nodes(o)' : s \in Nodes(o) /\ s \in Tasks
      BY <1>10, Listed
    <3>2. t \notin Nodes(o) /\ Nodes(o) \subseteq Holders(o)
      BY <1>1, <1>4 DEF ListOK, Oldest
    <3>3. QED
      BY <3>1, <3>2 DEF Holders
  <2>2. InOrder(o)'
    <3>1. \A i, j \in 1..(m - k) : i < j => r[i] < r[j]
      <4> SUFFICES ASSUME NEW i \in 1..(m - k), NEW j \in 1..(m - k), i < j
                   PROVE  r[i] < r[j]
        OBVIOUS
      <4>1. k + i < k + j
        BY <1>21
      <4>2. QED
        BY <4>1, <1>5, <1>6, <1>7
    <3>2. QED
      BY <3>1, <1>2, <1>5 DEF InOrder
  <2>3. Sharing(o)'
    <3>1. ASSUME NEW i \in 1..(m - k), NEW j \in 1..(m - k), i < j, SameGen(o, i, j)'
          PROVE  Shares(Group(r[i], o), Group(r[j], o))
      <4>1. k + i < k + j
        BY <3>1, <1>3, <1>4
      <4>2. SameGen(o, k + i, k + j)
        BY <3>1, <1>11
      <4>3. Shares(Group(w[k + i], o), Group(w[k + j], o))
        BY <4>1, <4>2, <1>1, <1>2, <1>7 DEF ListOK, Sharing
      <4>4. QED
        BY <4>3, <1>5
    <3>2. \A i, j \in 1..(m - k) : i < j /\ SameGen(o, i, j)' => Shares(Group(r[i], o)', Group(r[j], o)')
      BY <3>1 DEF Group
    <3>3. Len(waiting'[o]) = m - k /\ \A i : waiting'[o][i] = r[i]
      BY <1>2, <1>5
    <3> SUFFICES ASSUME NEW i \in 1..Len(waiting'[o]), NEW j \in 1..Len(waiting'[o]),
                        i < j, SameGen(o, i, j)'
                 PROVE  Shares(Group(waiting[o][i], o), Group(waiting[o][j], o))'
      BY DEF Sharing
    <3>4. Shares(Group(r[i], o)', Group(r[j], o)')
      BY <3>2, <3>3
    <3>5. QED
      BY <3>3, <3>4 DEF Group, Shares
  <2>4. Marked(o)'
    <3>1. ASSUME NEW i \in 1..((m - k) - 1), r[i] \in last[o]
          PROVE  ~Shares(Group(r[i], o), Group(r[i + 1], o))
      <4>5. i \in Nat /\ 1 <= i /\ i + k <= m - 1 /\ k + i \in Nat
        BY <1>21
      <4>6. k + i \in 1..(m - 1)
        BY <4>5, <1>21
      <4>0. i \in 1..(m - k) /\ i + 1 \in 1..(m - k) /\ k + (i + 1) = (k + i) + 1
        BY <1>21
      <4>1. k + i \in 1..(m - 1) /\ i \in 1..(m - k) /\ i + 1 \in 1..(m - k) /\ k + (i + 1) = (k + i) + 1
        BY <4>0, <4>6
      <4>2. r[i] = w[k + i] /\ r[i + 1] = w[(k + i) + 1]
        BY <4>1, <1>5
      <4>3. ~Shares(Group(w[k + i], o), Group(w[(k + i) + 1], o))
        BY <3>1, <4>1, <4>2, <1>1, <1>2 DEF ListOK, Marked
      <4>4. QED
        BY <4>2, <4>3
    <3>2. r # <<>> => r[m - k] \notin last[o]
      <4>1. w[m] \notin last[o]
        BY <1>1, <1>2, <1>4 DEF ListOK, Marked
      <4>2. r # <<>> => m - k \in 1..(m - k) /\ k + (m - k) = m
        BY <1>21, <1>5
      <4>3. QED
        BY <4>1, <4>2, <1>5
    <3>3. \A s \in last[o] : s < newest'
      BY <1>1, <1>3 DEF ListOK, Marked
    <3>4. \A i \in 1..(m - k) - 1 : r[i] \in last[o] => ~Shares(Group(r[i], o)', Group(r[i + 1], o)')
      BY <3>1 DEF Group
    <3>5. QED
      BY <3>2, <3>3, <3>4, <1>2, <1>5 DEF Marked
  <2>5. Youngest(o)'
    <3>1. ASSUME NEW i \in 1..(m - k), SameGen(o, i, m - k)'
          PROVE  Group(r[i], o) = youngest_group[o]
      <4>1. m - k \in 1..(m - k) /\ k + (m - k) = m
        BY <1>21
      <4>2. SameGen(o, k + i, m)
        BY <3>1, <4>1, <1>11
      <4>3. Group(w[k + i], o) = youngest_group[o]
        BY <4>2, <1>1, <1>2, <1>7 DEF ListOK, Youngest
      <4>4. QED
        BY <4>3, <1>5
    <3>2. QED
      BY <3>1, <1>2, <1>5 DEF Youngest, Group
  <2>6. QED
    BY <2>1, <2>2, <2>3, <2>4, <2>5 DEF ListOK
<1>13. Oldest(o)' = first /\ Cardinality(first) = k /\ IsFiniteSet(first) /\ first # {}
  <2>1. \A s : s \in Holders(o) <=> s = t \/ s \in Nodes(o)
    BY <1>1, <1>4 DEF ListOK, Oldest
  <2>2. t \notin Nodes(o)
    BY <1>4 DEF Oldest
  <2>3. \A s : s \in Holders(o)' <=> s \in Nodes(o)
    BY <2>1, <2>2 DEF Holders
  <2>4. \A s \in first : s \in Nat
    <3>1. \A i \in 1..k : i \in 1..m
      BY <1>21
    <3>2. QED
      BY <3>1, <1>3, <1>8
  <2>5. \A s \in first : s \notin Nodes(o)'
    <3>1. \A s \in first : ~(s < s)
      BY <2>4
    <3>2. QED
      BY <3>1, <1>10
  <2>6. Oldest(o)' = first
    BY <2>3, <2>5, <1>10 DEF Oldest
  <2>7. \A i \in 1..k : i \in 1..m
    BY <1>21
  <2>8. k \in Nat /\ (\A i, j \in 1..k : i < j => w[i] < w[j]) /\ \A i \in 1..k : w[i] \in Nat
    <3>1. \A i \in 1..k : w[i] \in Nat
      BY <2>7, <1>3
    <3>2. \A i, j \in 1..k : i < j => w[i] < w[j]
      BY <2>7, <1>6
    <3>3. QED
      BY <3>1, <3>2, <1>21
  <2>9. Cardinality(first) = k /\ IsFiniteSet(first)
    BY <2>8, <1>8, CardIncreasing
  <2>10. w[k] \in first
    BY <1>3, <1>4, <1>8
  <2>11. QED
    BY <2>6, <2>9, <2>10
<1>14. \A i, j \in 1..k : i < j => Shares(Group(w[i], o), Group(w[j], o))
  <2> SUFFICES ASSUME NEW i \in 1..k, NEW j \in 1..k, i < j
               PROVE  Shares(Group(w[i], o), Group(w[j], o))
    OBVIOUS
  <2>1. i \in 1..m /\ j \in 1..m /\ \A x \in i..(j - 1) : x \in 1..(k - 1)
    BY <1>21
  <2>2. SameGen(o, i, j)
    BY <2>1, <1>2, <1>4 DEF SameGen
  <2>3. QED
    BY <2>1, <2>2, <1>1, <1>2 DEF ListOK, Sharing
<1>15. OldestOK(o)'
  <2>1. CASE r = <<>>
    <3>1. k = m
      BY <2>1, <1>5
    <3>2. ASSUME NEW i \in 1..k PROVE Group(w[i], o) = youngest_group[o]
      <4>1. \A x \in i..(m - 1) : x \in 1..(k - 1)
        BY <3>1, <1>3, <1>4
      <4>2. SameGen(o, i, m)
        BY <4>1, <1>2, <1>4 DEF SameGen
      <4>3. QED
        BY <4>2, <3>1, <1>1, <1>2 DEF ListOK, Youngest
    <3>3. \A s \in first : Group(s, o) = youngest_group[o]
      BY <3>2, <1>8
    <3>4. \A s \in first : Group(s, o)' = youngest_group[o]
      BY <3>3 DEF Group
    <3>5. QED
      BY <3>4, <2>1, <1>2, <1>10, <1>13 DEF OldestOK
  <2>2. CASE r # <<>>
    <3>1. k \in 1..(m - 1) /\ w[k] \in last[o] /\ 1 \in 1..(m - k)
      BY <2>2, <1>3, <1>4, <1>5
    <3>2. r[1] = w[k + 1]
      BY <3>1, <1>5
    <3>3. ~Shares(Group(w[k], o), Group(r[1], o))
      BY <3>1, <3>2, <1>1, <1>2 DEF ListOK, Marked
    <3>4. ASSUME NEW i \in 1..k PROVE ~Shares(Group(w[i], o), Group(r[1], o))
      <4>1. CASE i = k
        BY <4>1, <3>3
      <4>2. CASE i # k
        <5>1. i < k /\ k \in 1..k
          BY <4>2, <1>3, <1>4
        <5>2. Shares(Group(w[i], o), Group(w[k], o))
          BY <5>1, <1>14
        <5>3. QED
          BY <5>2, <3>3 DEF Shares
      <4>3. QED
        BY <4>1, <4>2
    <3>5. \A s \in first : ~Shares(Group(s, o), Group(r[1], o))
      BY <3>4, <1>8
    <3>6. \A s \in first : ~Shares(Group(s, o)', Group(r[1], o)')
      BY <3>5 DEF Group
    <3>7. (waiting[o][1])' = r[1] /\ waiting'[o] # <<>>
      BY <2>2, <1>2
    <3>8. \A s \in first : ~Shares(Group(s, o)', Group(waiting[o][1], o)')
      BY <3>6, <3>7 DEF Group
    <3>9. QED
      BY <3>7, <3>8, <1>10, <1>13 DEF OldestOK, Shares
  <2>3. QED
    BY <2>1, <2>2
<1>16. Generations(o) = 1 + Generations(o)' /\ (Generations(o)' = 0 <=> r = <<>>)
       /\ Generations(o)' \in Nat
  <2> DEFINE marks == last[o] \cap Nodes(o)
  <2>1. IsFiniteSet(marks) /\ Cardinality(marks) \in Nat /\ Generations(o) = 1 + Cardinality(marks)
    BY <1>2, <1>4, Listed, Finite DEF Generations
  <2>2. CASE k = m
    <3>1. \A i \in 1..m : w[i] \notin last[o]
      <4>1. w[m] \notin last[o]
        BY <1>1, <1>2, <1>4 DEF ListOK, Marked
      <4>2. \A i \in 1..m : i = m \/ i \in 1..(k - 1)
        BY <2>2, <1>3, <1>4
      <4>3. QED
        BY <4>1, <4>2, <1>4
    <3>2. marks = {}
      BY <3>1, <1>9
    <3>3. Generations(o)' = 0
      BY <2>2, <1>2, <1>5 DEF Generations
    <3>4. Cardinality(marks) = 0
      BY <3>2, FS_EmptySet
    <3>5. QED
      BY <2>1, <2>2, <3>3, <3>4, <1>5
  <2>3. CASE k # m
    <3>1. w[k] \in last[o] /\ k \in 1..m /\ w[k] \in first
      BY <2>3, <1>4, <1>8
    <3>2. w[k] \in marks
      BY <3>1, <1>9
    <3>3. \A i \in 1..k : i = k \/ i \in 1..(k - 1)
      BY <1>21
    <3>4. \A s \in first : s \in last[o] => s = w[k]
      BY <3>3, <1>4, <1>8
    <3>5. w[k] \notin Nodes(o)'
      BY <3>1, <1>13 DEF Oldest
    <3>6. last[o] \cap Nodes(o)' = marks \ {w[k]}
      BY <3>4, <3>5, <1>10
    <3>7. Generations(o)' = 1 + Cardinality(marks \ {w[k]})
      BY <3>6, <2>3, <1>2, <1>5 DEF Generations
    <3>8. Cardinality(marks \ {w[k]}) = Cardinality(marks) - 1 /\ Cardinality(marks) > 0
      BY <3>2, <2>1, CardMinus
    <3> HIDE DEF marks
    <3>9. QED
      BY <2>1, <2>3, <3>7, <3>8, <1>5
  <2>4. QED
    BY <2>2, <2>3
<1>17. FreeOK(o)'
  <2>1. youngest_group[o] # "empty"
    <3>1. SameGen(o, m, m)
      BY <1>3 DEF SameGen
    <3>2. m \in 1..m
      BY <1>21
    <3>3. Group(w[m], o) = youngest_group[o] /\ w[m] \in Nodes(o)
      BY <3>1, <3>2, <1>1, <1>2, <1>9 DEF ListOK, Youngest
    <3>4. w[m] \in 1..newest /\ o \in Arguments(w[m])
      BY <3>3, Holding
    <3>5. QED
      BY <3>3, <3>4, AccessOf
  <2>2. num_gens'[o] = 1 + Generations(o)' /\ num_gens'[o] # 0
    BY <1>4, <1>16
  <2>3. oldest_num_tasks'[o] = Cardinality(Oldest(o)')
    BY <1>13
  <2>4. QED
    BY <2>1, <2>2, <2>3, <1>13 DEF FreeOK
<1>18. ObjectOK(o)'
  BY <1>12, <1>15, <1>17 DEF ObjectOK, DataflowAssumption
<1>19. \A s : Waits(s, o)' <=> Waits(s, o)
  <2>1. Woken(o) = k /\ Woken(o)' = 0
    BY <1>1 DEF Woken
  <2>2. \A s : Waits(s, o) <=> \E i \in 1..m : w[i] = s /\ i > k
    BY <2>1, <1>2 DEF Waits
  <2>3. \A s : Waits(s, o)' <=> \E i \in 1..(m - k) : r[i] = s /\ i > 0
    BY <2>1, <1>2, <1>5 DEF Waits
  <2>4. \A s : Waits(s, o)' <=> s \in Nodes(o)'
    BY <2>3, <1>9
  <2>5. \A i : i \in 1..m /\ i > k <=> i \in (k + 1)..m
    BY <1>21
  <2>6. QED
    BY <2>2, <2>4, <2>5, <1>10
<1>20. QED
  BY <1>18, <1>19

(* The step of PopList, with what it leaves alone.                         *)
LEMMA PopGenerationStep ==
    ASSUME DataflowAssumption, IInv, NEW t \in Tasks, NEW o \in Objects, PopGeneration(t, o)
    PROVE  IInv'
<1>1. TypeOK /\ ObjectOK(o) /\ MutexOK /\ t # Free
  BY InvParts DEF DataflowAssumption
<1>2. mutex[o] = t /\ tpc[t] = "pop"
  BY DEF PopGeneration, TaskGoto
<1>3. WakingOK(o, t)
  BY <1>1, <1>2 DEF ObjectOK
<1>4. Oldest(o) = {t} /\ o \in todo[t] /\ num_gens[o] \in Nat /\ num_gens[o] > 1
  BY <1>1, <1>2, <1>3, GenerationCount DEF WakingOK
<1>5. PICK k, r : k = walked[t] /\ r = SubSeq(waiting[o], k + 1, Len(waiting[o]))
  OBVIOUS
<1>6. /\ tpc' = [tpc EXCEPT ![t] = "release"]
      /\ oldest_num_tasks' = [oldest_num_tasks EXCEPT ![o] = k]
      /\ num_gens' = [num_gens EXCEPT ![o] = num_gens[o] - 1]
      /\ waiting' = [waiting EXCEPT ![o] = r]
      /\ youngest_group' = youngest_group
      /\ mutex' = [mutex EXCEPT ![o] = Free]
      /\ todo' = [todo EXCEPT ![t] = @ \ {o}]
      /\ UNCHANGED <<last, access, incoming_count, walked, rlist, spawner>>
  BY <1>4, <1>5 DEF PopGeneration, TaskGoto
<1>7. k \in Nat /\ r \in Seq(Tasks) /\ num_gens[o] - 1 \in Nat
  <2>1. k \in Nat /\ Len(waiting[o]) \in Nat /\ \A i \in 1..Len(waiting[o]) : waiting[o][i] \in Tasks
    BY <1>1, <1>5, Listed DEF TypeOK
  <2>2. \A i \in (k + 1)..Len(waiting[o]) : waiting[o][i] \in Tasks
    BY <2>1
  <2>3. r \in Seq(Tasks)
    BY <2>1, <2>2, <1>5, SubSeqProperties
  <2>4. QED
    BY <2>1, <2>3, <1>4
<1>8. TypeOK'
  <2>1. num_gens' \in [Objects -> Nat] /\ oldest_num_tasks' \in [Objects -> Nat]
    BY <1>1, <1>6, <1>7 DEF TypeOK
  <2>2. waiting' \in [Objects -> Seq(Tasks)]
    BY <1>1, <1>6, <1>7 DEF TypeOK
  <2>3. QED
    BY <2>1, <2>2, <1>1, <1>6 DEF TypeOK, spawner, newest
<1>9. /\ tpc'[t] = "release" /\ mutex'[o] = Free /\ num_gens'[o] = num_gens[o] - 1
      /\ oldest_num_tasks'[o] = k /\ waiting'[o] = r
      /\ todo'[t] = todo[t] \ {o} /\ \A s \in Tasks : s # t => tpc'[s] = tpc[s] /\ todo'[s] = todo[s]
      /\ \A p \in Objects : p # o => SameMetadata(p) /\ mutex[p] # t
  BY <1>1, <1>2, <1>6 DEF TypeOK, SameMetadata, MutexOK
<1>10. ReleaseOf(t, o)
  <2>1. ~Compatible(o)
    BY <1>4 DEF Compatible
  <2>2. num_gens'[o] <= num_gens[o]
    BY <1>4, <1>9
  <2>3. QED
    BY <2>1, <2>2, <1>2, <1>4, <1>6, <1>9 DEF ReleaseOf, Releasing
<1>11. \A s \in Tasks : Entered(s, o)' <=> Entered(s, o) /\ s # t
  <2>1. /\ \A s \in Tasks : s # t => (Entered(s, o)' <=> Entered(s, o))
        /\ ~Entered(t, o)'
    BY <1>8, <1>9, <1>10, ReleaseParts
  <2>2. QED
    BY <2>1
<1>12. ObjectOK(o)' /\ \A s : Waits(s, o)' <=> Waits(s, o)
  <2>1. last'[o] = last[o] /\ youngest_group'[o] = youngest_group[o] /\ UNCHANGED access
    BY <1>6
  <2>2. QED
    BY <2>1, <1>1, <1>2, <1>5, <1>9, <1>11, PopList
<1>13. QED
  BY <1>6, <1>8, <1>10, <1>12, ReleaseRest

-----------------------------------------------------------------------------
(* The invariant holds at first and is kept by every step.                 *)
LEMMA InitInv ==
    ASSUME DataflowAssumption, Init
    PROVE  IInv
<1>1. newest = 0 /\ \A t \in Tasks : t \in Nat /\ t > 0
  BY DEF Init, newest, Tasks
<1>2. TypeOK
  BY DEF DataflowAssumption, Init, TypeOK, newest
<1>3. \A t \in Tasks : ~Releasing(t) /\ tpc[t] = "unborn" /\ rlist[t] = {}
  BY DEF Init, Releasing
<1>4. ParentOK
  BY <1>1, <1>3 DEF Init, ParentOK, Checked
<1>5. ASSUME NEW o \in Objects
      PROVE  ObjectOK(o) /\ \A t : ~Waits(t, o)
  <2>1. waiting[o] = <<>> /\ last[o] = {} /\ mutex[o] = Free
        /\ num_gens[o] = 0 /\ oldest_num_tasks[o] = 0 /\ youngest_group[o] = "empty"
    BY DEF Init
  <2>2. \A i : i \notin 1..Len(waiting[o]) /\ i \notin 1..(Len(waiting[o]) - 1)
    BY <2>1
  <2>3. Nodes(o) = {} /\ Holders(o) = {}
    BY <2>2, <1>3 DEF Nodes, Holders, Entered
  <2>4. ListOK(o)
    BY <2>1, <2>2, <2>3 DEF ListOK, InOrder, Sharing, Marked, Youngest
  <2>5. Oldest(o) = {} /\ OldestOK(o)
    BY <2>3 DEF Oldest, OldestOK
  <2>6. FreeOK(o)
    BY <2>1, <2>5, FS_EmptySet DEF FreeOK
  <2>7. QED
    BY <2>1, <2>2, <2>4, <2>5, <2>6 DEF ObjectOK, Waits, DataflowAssumption
<1>6. MutexOK
  BY DEF Init, MutexOK
<1>7. TodoOK /\ CountOK /\ ReadyOK
  BY <1>3, <1>5 DEF TodoOK, CountOK, ReadyOK
<1>8. OrderOK
  BY <1>3 DEF OrderOK, Cleared
<1>9. QED
  BY <1>2, <1>4, <1>5, <1>6, <1>7, <1>8 DEF IInv

(* A step that changes nothing keeps the invariant.                        *)
LEMMA StutterInv ==
    ASSUME DataflowAssumption, IInv, UNCHANGED vars
    PROVE  IInv'
<1>1. UNCHANGED <<num_gens, youngest_group, oldest_num_tasks, waiting, last, mutex>>
  BY DEF vars, metadata
<1>2. UNCHANGED <<access, tpc, incoming_count, todo, walked, rlist, spc, args, seen>>
  BY DEF vars, tasks, spawner
<1>3. TypeOK'
  BY <1>1, <1>2 DEF IInv, TypeOK, newest
<1>4. ParentOK'
  BY <1>1, <1>2 DEF IInv, ParentOK, Checked, Compatible, newest, Arguments, Group
<1>5. \A o \in Objects : ObjectOK(o)'
  <2>1. Extended
    BY <1>2, InvParts, Newest DEF Extended, newest
  <2>2. \A o \in Objects : SameMembers(o)
    BY <1>2 DEF SameMembers, Entered, newest, Arguments, Releasing
  <2>3. QED
    BY <2>1, <2>2, <1>1, <1>2, MetadataKept DEF metadata
<1>6. MutexOK' /\ TodoOK'
  BY <1>1, <1>2 DEF IInv, MutexOK, TodoOK, Releasing, Arguments
<1>7. CountOK'
  BY <1>1, <1>2 DEF IInv, CountOK, Waits, Woken, WaitsFor, Held, newest
<1>8. ReadyOK'
  BY <1>1, <1>2 DEF IInv, ReadyOK, Releasing
<1>9. OrderOK'
  BY <1>1, <1>2 DEF IInv, OrderOK, Cleared, Waits, Woken, ended, Releasing, newest, Arguments, Group
<1>10. QED
  BY <1>3, <1>4, <1>5, <1>6, <1>7, <1>8, <1>9 DEF IInv

(* Each action keeps the invariant, by its own lemma.                      *)
LEMMA NextInv ==
    ASSUME DataflowAssumption, IInv, [Next]_vars
    PROVE  IInv'
<1>1. CASE UNCHANGED vars
  BY <1>1, StutterInv
<1>2. ASSUME NEW a \in Accesses, Spawn(a)
      PROVE  IInv'
  BY <1>2, SpawnStep
<1>3. ASSUME NEW o \in Objects, ReadGens(o) \/ AddTask(o) \/ AddRunning(o)
      PROVE  IInv'
  BY <1>3, ReadGensStep, AddTaskStep, AddRunningStep
<1>4. CASE ArgumentReady \/ ArgumentNotReady \/ Call \/ CreatePending \/ FinishIssue
  BY <1>4, ArgumentReadyStep, ArgumentNotReadyStep, CallStep, CreatePendingStep, FinishIssueStep
<1>5. CASE EndUnissued \/ StealParent
  BY <1>5, EndUnissuedStep, StealParentStep
<1>6. ASSUME NEW t \in Tasks, Start(t) \/ EndBody(t) \/ MoveToReadyList(t)
      PROVE  IInv'
  BY <1>6, StartStep, EndBodyStep, MoveToReadyListStep
<1>7. ASSUME NEW t \in Tasks, NEW o \in Objects,
             \/ WakeupNone(t, o) \/ WakeupLast(t, o) \/ Empty(t, o)
             \/ WakeupHard(t, o) \/ WakeNode(t, o) \/ PopGeneration(t, o)
      PROVE  IInv'
  BY <1>7, WakeupNoneStep, WakeupLastStep, EmptyStep, WakeupHardStep, WakeNodeStep, PopGenerationStep
<1>8. QED
  BY <1>1, <1>2, <1>3, <1>4, <1>5, <1>6, <1>7 DEF Next, SpawnerStep, TaskStep, Release

(* So the invariant always holds.                                          *)
LEMMA SpecInv ==
    ASSUME DataflowAssumption
    PROVE  Spec => []IInv
<1>1. Init => IInv
  BY InitInv
<1>2. IInv /\ [Next]_vars => IInv'
  BY NextInv
<1>3. QED
  BY <1>1, <1>2, PTL DEF Spec

(* Type correctness: the metadata, the frames and what each task has yet to*)
(* do keep their ranges; above all no count falls below zero               *)
(* (dataflow_impl.c 20-201).                                               *)
THEOREM TypeCorrect ==
    ASSUME DataflowAssumption
    PROVE  Spec => []TypeOK
<1>1. IInv => TypeOK
  BY DEF IInv
<1>2. QED
  BY <1>1, SpecInv, PTL

-----------------------------------------------------------------------------
(* A bounded set of numbers has a greatest one.                            *)
LEMMA Greatest ==
    ASSUME NEW n \in Nat, NEW T, T \subseteq 1..n, T # {}
    PROVE  \E x \in T : \A y \in T : y <= x
<1> DEFINE R == OpToRel(<, Nat)
           D == {n - x : x \in T}
<1>1. D \subseteq Nat /\ D # {}
  <2>1. \A x \in T : n - x \in Nat
    OBVIOUS
  <2>2. PICK x \in T : TRUE
    OBVIOUS
  <2>3. n - x \in D
    BY <2>2
  <2>4. QED
    BY <2>1, <2>3
<1>2. IsWellFoundedOn(R, Nat)
  BY NatLessThanWellFounded
<1>3. \A x, y \in Nat : x < y => <<x, y>> \in R
  BY DEF OpToRel
<1> HIDE DEF R
<1>4. PICK z \in D : \A y \in D : ~(<<y, z>> \in R)
  BY <1>1, <1>2, WFMin
<1>5. PICK x \in T : z = n - x
  OBVIOUS
<1>6. ASSUME NEW y \in T PROVE y <= x
  <2>1. n - y \in D /\ n - y \in Nat /\ z \in Nat
    BY <1>1
  <2>2. ~(n - y < z)
    BY <2>1, <1>3, <1>4
  <2>3. x \in Nat /\ y \in Nat
    OBVIOUS
  <2>4. QED
    BY <2>1, <2>2, <2>3, <1>5
<1>7. QED
  BY <1>6

(* The counts of an object are those of the tasks in its metadata, at any  *)
(* time: num_gens as the assertion at the end of add_task wants it         *)
(* (dataflow_impl.c:175), and oldest_num_tasks, by which a release knows   *)
(* that it is the last of its generation (dataflow_impl.c 91-105).         *)
THEOREM CountsHold ==
    ASSUME DataflowAssumption
    PROVE  Spec => []CountsExact
<1>1. ASSUME IInv PROVE CountsExact
  <2>1. TypeOK /\ \A o \in Objects : ObjectOK(o)
    BY <1>1, InvParts
  <2>2. ASSUME NEW o \in Objects, mutex[o] = Free
        PROVE  num_gens[o] <= 1 <=> waiting[o] = <<>>
    BY <2>1, <2>2, GenerationCount DEF ObjectOK, FreeOK
  <2>3. ASSUME NEW o \in Objects, mutex[o] = Free
        PROVE  oldest_num_tasks[o] =
                   Cardinality({t \in Tasks : Entered(t, o) /\ ~Contains(waiting[o], t)})
    <3>1. \A t : Contains(waiting[o], t) <=> t \in Nodes(o)
      BY DEF Contains, Nodes
    <3>2. {t \in Tasks : Entered(t, o) /\ ~Contains(waiting[o], t)} = Oldest(o)
      BY <3>1 DEF Oldest, Holders
    <3>3. QED
      BY <2>1, <2>3, <3>2 DEF ObjectOK, FreeOK
  <2>4. QED
    BY <2>2, <2>3 DEF CountsExact, GenerationsMatchTasks, OldestCounted
<1>2. QED
  BY <1>1, SpecInv, PTL

(* The walk of wakeup_hard reads no node of a task that has released the   *)
(* object, whose frame may be gone (dataflow_impl.c 38-61).                *)
THEOREM NodesLive ==
    ASSUME DataflowAssumption
    PROVE  Spec => []WalkedNodesLive
<1>1. ASSUME IInv PROVE WalkedNodesLive
  <2> SUFFICES ASSUME NEW o \in Objects, NEW i \in 1..Len(waiting[o])
               PROVE  o \in todo[waiting[o][i]] \/ ~Releasing(waiting[o][i])
    BY DEF WalkedNodesLive
  <2>1. TypeOK /\ ObjectOK(o)
    BY <1>1, InvParts
  <2>2. Entered(waiting[o][i], o)
    BY <2>1, Holding DEF Nodes
  <2>3. QED
    BY <2>2 DEF Entered, Releasing
<1>2. QED
  BY <1>1, SpecInv, PTL

(* Whoever waits for an object, waits for a task of an earlier generation  *)
(* that has not released it.                                               *)
LEMMA WaitsForEarlier ==
    ASSUME DataflowAssumption, TypeOK, ParentOK, NEW o \in Objects, ObjectOK(o),
           NEW i \in 1..Len(waiting[o]), NEW t, t = waiting[o][i]
    PROVE  \E s \in 1..(t - 1) : tpc[s] # "done" /\ Conflict(access[s], access[t])
<1>1. PICK w, m : waiting[o] = w /\ Len(w) = m
  OBVIOUS
<1>2. /\ w \in Seq(Tasks) /\ m \in Nat /\ (\A j \in 1..m : w[j] \in Tasks /\ w[j] \in Nodes(o))
      /\ Tasks \subseteq Nat /\ i \in 1..m /\ t = w[i] /\ t \in Tasks /\ w # <<>>
  BY <1>1, Listed, Finite DEF Nodes
<1>3. ListOK(o) /\ OldestOK(o)
  BY DEF ObjectOK
<1>4. SUFFICES \E s \in Holders(o) : s < t /\ ~Shares(Group(s, o), Group(t, o))
  <2>1. PICK s \in Holders(o) : s < t /\ ~Shares(Group(s, o), Group(t, o))
    BY <1>4
  <2>2. /\ s \in Tasks /\ Entered(s, o) /\ o \in Arguments(s)
        /\ o \in Arguments(t)
    BY <2>1, <1>2, Holding
  <2>3. s \in 1..(t - 1)
    BY <2>1, <2>2, <1>2 DEF Tasks
  <2>4. tpc[s] # "done"
    BY <2>2 DEF Entered, Releasing
  <2>5. Conflict(access[s], access[t])
    BY <2>1, <2>2 DEF Conflict, Arguments, Group
  <2>6. QED
    BY <2>3, <2>4, <2>5
<1>5. ASSUME NEW j \in 1..i, SameGen(o, j, i), NEW g, ~Shares(g, Group(w[j], o))
      PROVE  ~Shares(g, Group(t, o))
  <2>1. CASE j = i
    BY <2>1, <1>2, <1>5
  <2>2. CASE j # i
    <3>1. j \in 1..m /\ j < i
      BY <2>2, <1>2
    <3>2. Shares(Group(w[j], o), Group(t, o))
      BY <3>1, <1>1, <1>2, <1>3, <1>5 DEF ListOK, Sharing
    <3>3. QED
      BY <3>2, <1>5 DEF Shares
  <2>3. QED
    BY <2>1, <2>2
<1>6. CASE SameGen(o, 1, i)
  <2>1. Oldest(o) # {}
    <3>1. CASE mutex[o] = Free
      BY <3>1, <1>1, <1>2 DEF ObjectOK, FreeOK
    <3>2. CASE mutex[o] # Free
      BY <3>2, Waking DEF WakingOK
    <3>3. QED
      BY <3>1, <3>2
  <2>2. PICK s \in Oldest(o) : TRUE
    BY <2>1
  <2>3. s < t /\ s \in Holders(o) /\ ~Shares(Group(s, o), Group(w[1], o))
    BY <2>2, <1>1, <1>2, <1>3 DEF OldestOK, Oldest
  <2>4. 1 \in 1..i
    BY <1>2
  <2>5. ~Shares(Group(s, o), Group(t, o))
    BY <2>3, <2>4, <1>5, <1>6
  <2>6. QED
    BY <2>3, <2>5
<1>7. CASE ~SameGen(o, 1, i)
  <2> DEFINE T == {j \in 1..(i - 1) : w[j] \in last[o]}
  <2>1. i - 1 \in Nat /\ T \subseteq 1..(i - 1) /\ T # {}
    BY <1>1, <1>2, <1>7 DEF SameGen
  <2>2. PICK j \in T : \A k \in T : k <= j
    BY <2>1, Greatest
  <2>3. /\ j \in 1..(m - 1) /\ j \in 1..m /\ j < i /\ j + 1 \in 1..i /\ w[j] \in last[o]
        /\ \A k \in (j + 1)..(i - 1) : k \in 1..(i - 1) /\ ~(k <= j)
    BY <2>2, <1>2
  <2>4. \A k \in (j + 1)..(i - 1) : w[k] \notin last[o]
    BY <2>2, <2>3
  <2>5. SameGen(o, j + 1, i)
    BY <2>4, <1>1 DEF SameGen
  <2>6. ~Shares(Group(w[j], o), Group(w[j + 1], o))
    BY <2>3, <1>1, <1>3 DEF ListOK, Marked
  <2>7. ~Shares(Group(w[j], o), Group(t, o))
    BY <2>3, <2>5, <2>6, <1>5
  <2>8. w[j] < t /\ w[j] \in Holders(o)
    BY <2>3, <1>1, <1>2, <1>3 DEF ListOK, InOrder
  <2>9. QED
    BY <2>7, <2>8
<1>8. QED
  BY <1>6, <1>7

(* No wake-up is lost: a pending frame waits for an earlier task that it   *)
(* conflicts with and that has not finished; if its count is zero, it is on*)
(* the local list of such a task (dataflow_impl.c 38-61 and 149-201).      *)
THEOREM NoWakeupLost ==
    ASSUME DataflowAssumption
    PROVE  Spec => []NobodyWaitsInVain
<1>1. ASSUME IInv PROVE NobodyWaitsInVain
  <2>1. /\ TypeOK /\ ParentOK /\ (\A p \in Objects : ObjectOK(p)) /\ CountOK /\ ReadyOK
    BY <1>1, InvParts
  <2> SUFFICES ASSUME NEW t \in 1..newest, tpc[t] = "pending",
                      t = newest => spc \notin {"issue", "issued"}
               PROVE  \E s \in 1..(t - 1) : tpc[s] # "done" /\ Conflict(access[s], access[t])
    BY DEF NobodyWaitsInVain
  <2>2. t \in Tasks /\ t \in Nat
    BY <2>1, Newest
  <2>3. incoming_count[t] = Cardinality(WaitsFor(t))
    <3>1. WaitsFor(t) \in SUBSET Objects
      BY DEF WaitsFor
    <3>2. Held(t) = 0 /\ Cardinality(WaitsFor(t)) \in Nat
      BY <3>1, Finite DEF Held
    <3>3. QED
      BY <2>1, <2>2, <3>2 DEF CountOK
  <2>4. CASE incoming_count[t] = 0
    <3>1. PICK s \in Tasks : t \in rlist[s]
      BY <2>1, <2>2, <2>4 DEF CountOK
    <3>2. Releasing(s) /\ s < t /\ Conflict(access[s], access[t])
      BY <2>1, <3>1 DEF ReadyOK
    <3>3. tpc[s] # "done" /\ s \in 1..(t - 1)
      BY <3>2, <2>2 DEF Releasing, Tasks
    <3>4. QED
      BY <3>2, <3>3
  <2>5. CASE incoming_count[t] # 0
    <3>1. WaitsFor(t) # {}
      BY <2>3, <2>5, FS_EmptySet
    <3>2. PICK o \in Objects : Waits(t, o)
      BY <3>1 DEF WaitsFor
    <3>3. PICK i \in 1..Len(waiting[o]) : t = waiting[o][i]
      BY <3>2 DEF Waits
    <3>4. QED
      BY <3>3, <2>1, WaitsForEarlier
  <2>6. QED
    BY <2>4, <2>5
<1>2. QED
  BY <1>1, SpecInv, PTL

-----------------------------------------------------------------------------
(* The refinement of TaskOrder.  Most steps begin and end no body; ...     *)
LEMMA SameOrder ==
    ASSUME UNCHANGED access,
           \A t \in Tasks : /\ tpc'[t] \in {"running", "done"} \/ Releasing(t)' <=>
                               tpc[t] \in {"running", "done"} \/ Releasing(t)
                            /\ tpc'[t] = "done" \/ Releasing(t)' <=> tpc[t] = "done" \/ Releasing(t)
    PROVE  UNCHANGED <<access, begun, ended>>
  BY DEF begun, ended

(* ... the others are of one task, ...                                     *)
LEMMA OneBegins ==
    ASSUME TypeOK, NEW t \in Tasks, UNCHANGED access,
           tpc[t] \in {"unborn", "ready"}, tpc' = [tpc EXCEPT ![t] = "running"]
    PROVE  t \notin begun /\ begun' = begun \cup {t} /\ ended' = ended
<1>1. tpc'[t] = "running" /\ \A s \in Tasks : s # t => tpc'[s] = tpc[s]
  BY DEF TypeOK
<1>2. QED
  BY <1>1 DEF begun, ended, Releasing

(* ... and a body ends once, ...                                           *)
LEMMA OneEnds ==
    ASSUME TypeOK, NEW t \in Tasks, UNCHANGED access, NEW p \in {"release", "done"},
           tpc[t] = "running", tpc' = [tpc EXCEPT ![t] = p]
    PROVE  t \in begun \ ended /\ ended' = ended \cup {t} /\ begun' = begun
<1>1. tpc'[t] = p /\ \A s \in Tasks : s # t => tpc'[s] = tpc[s]
  BY DEF TypeOK
<1>2. QED
  BY <1>1 DEF begun, ended, Releasing

(* ... and a body begins when no earlier task stands in its way.           *)
LEMMA MayBegin ==
    ASSUME DataflowAssumption, TypeOK, NEW t \in 1..newest,
           \A o \in Arguments(t) : MayUse(t, o)
    PROVE  /\ t \in Order!Spawned
           /\ \A s \in Order!Spawned : s < t /\ Conflict(access[s], access[t]) => s \in ended
<1>1. Order!Spawned = 1..newest
  BY DEF Order!Spawned, newest, TypeOK
<1>2. ASSUME NEW s \in 1..newest, s < t, Conflict(access[s], access[t])
      PROVE  s \in ended
  <2>1. PICK o \in Arguments(s) \cap Arguments(t) : ~Shares(Group(s, o), Group(t, o))
    BY <1>2 DEF Conflict, Arguments, Group
  <2>2. s \in Tasks
    BY Newest
  <2>3. QED
    BY <2>1, <2>2, <1>2 DEF MayUse
<1>3. QED
  BY <1>1, <1>2

(* A called task begins: ini_ready has found all its objects compatible.   *)
LEMMA CallBegins ==
    ASSUME DataflowAssumption, IInv, Call
    PROVE  \E t \in Tasks : Order!Begin(t)
<1>1. /\ TypeOK /\ ParentOK /\ \A o \in Objects : ObjectOK(o)
  BY InvParts
<1>2. PICK n \in Tasks : n = newest /\ n \in 1..newest /\ newest # 0
  BY <1>1, Newest DEF Call, SpawnerGoto, ParentOK
<1>3. spc = "call" /\ tpc[n] = "unborn" /\ tpc' = [tpc EXCEPT ![n] = "running"] /\ UNCHANGED access
  BY <1>2 DEF Call, SpawnerGoto, TaskGoto
<1>4. ASSUME NEW o \in Arguments(n) PROVE MayUse(n, o)
  <2>1. o \in Objects
    BY <1>1, <1>2, AccessOf
  <2>2. Compatible(o)
    BY <2>1, <1>1, <1>2, <1>3 DEF ParentOK, Checked
  <2>3. QED
    BY <2>1, <2>2, <1>1, <1>2, CompatibleClears
<1>5. n \notin begun /\ begun' = begun \cup {n} /\ ended' = ended
  BY <1>1, <1>3, OneBegins
<1>6. Order!Begin(n)
  BY <1>1, <1>2, <1>3, <1>4, <1>5, MayBegin DEF Order!Begin
<1>7. QED
  BY <1>6

(* A ready task begins: it waits for none of its objects.                  *)
LEMMA StartBegins ==
    ASSUME DataflowAssumption, IInv, NEW t \in Tasks, Start(t)
    PROVE  Order!Begin(t)
<1>1. TypeOK /\ ParentOK /\ CountOK /\ OrderOK
  BY InvParts
<1>2. tpc[t] = "ready" /\ tpc' = [tpc EXCEPT ![t] = "running"] /\ UNCHANGED access
  BY DEF Start, TaskGoto
<1>3. t \in 1..newest /\ (t = newest => spc # "issue")
  BY <1>1, <1>2, Newest, Finite DEF ParentOK
<1>4. ASSUME NEW o \in Arguments(t) PROVE MayUse(t, o)
  <2>1. o \in Objects
    BY <1>1, <1>3, AccessOf
  <2>2. Cleared(t, o)
    BY <2>1, <1>1, <1>2, <1>3 DEF Cleared, CountOK
  <2>3. QED
    BY <2>1, <2>2, <1>1 DEF OrderOK, MayUse
<1>5. t \notin begun /\ begun' = begun \cup {t} /\ ended' = ended
  BY <1>1, <1>2, OneBegins
<1>6. QED
  BY <1>1, <1>2, <1>3, <1>4, <1>5, MayBegin DEF Order!Begin

(* Every step is a step of TaskOrder, or none.                             *)
LEMMA RefinementStep ==
    ASSUME DataflowAssumption, IInv, [Next]_vars
    PROVE  [Order!Next]_<<access, begun, ended>>
<1>1. TypeOK /\ ParentOK /\ MutexOK /\ ReadyOK
  BY InvParts
<1>2. ASSUME UNCHANGED <<access, tpc>>
      PROVE  UNCHANGED <<access, begun, ended>>
  BY <1>2 DEF begun, ended, Releasing
<1>3. CASE UNCHANGED vars
  BY <1>2, <1>3 DEF vars, tasks
<1>4. ASSUME NEW a \in Accesses, Spawn(a)
      PROVE  Order!Next
  <2>1. UNCHANGED <<begun, ended>>
    BY <1>4 DEF Spawn, tasks, begun, ended, Releasing
  <2>2. QED
    BY <2>1, <1>4 DEF Spawn, Order!Spawn, Order!Next
<1>5. ASSUME NEW o \in Objects, ReadGens(o) \/ AddTask(o) \/ AddRunning(o)
      PROVE  UNCHANGED <<access, begun, ended>>
  BY <1>2, <1>5 DEF ReadGens, AddTask, AddRunning, tasks
<1>6. CASE ArgumentReady \/ ArgumentNotReady \/ StealParent
  BY <1>2, <1>6 DEF ArgumentReady, ArgumentNotReady, StealParent, tasks
<1>7. CASE Call
  BY <1>7, CallBegins DEF Order!Next
<1>8. ASSUME CreatePending \/ FinishIssue
      PROVE  UNCHANGED <<access, begun, ended>>
  <2>1. PICK p \in {"pending", "ready"} : tpc' = [tpc EXCEPT ![newest] = p] \/ tpc' = tpc
    BY <1>8 DEF CreatePending, FinishIssue, TaskGoto
  <2>2. tpc[newest] \in {"unborn", "pending"}
    BY <1>1, <1>8 DEF CreatePending, FinishIssue, TaskGoto, SpawnerGoto, ParentOK
  <2>3. \A t \in Tasks : tpc'[t] = tpc[t] \/ (t = newest /\ tpc'[t] = p)
    BY <2>1, <1>1 DEF TypeOK
  <2>4. UNCHANGED access
    BY <1>8 DEF CreatePending, FinishIssue
  <2>5. QED
    BY <2>2, <2>3, <2>4, SameOrder DEF Releasing
<1>9. CASE EndUnissued
  <2>1. PICK n \in Tasks : n = newest
    BY <1>1, <1>9, Newest DEF EndUnissued, SpawnerGoto, ParentOK
  <2>2. tpc[n] = "running" /\ tpc' = [tpc EXCEPT ![n] = "done"] /\ UNCHANGED access
    BY <1>9, <2>1 DEF EndUnissued, TaskGoto
  <2>3. Order!End(n)
    BY <2>2, <1>1, OneEnds DEF Order!End
  <2>4. QED
    BY <2>3 DEF Order!Next
<1>10. ASSUME NEW t \in Tasks, Start(t) PROVE Order!Next
  BY <1>10, StartBegins DEF Order!Next
<1>11. ASSUME NEW t \in Tasks, EndBody(t) PROVE Order!Next
  <2>1. tpc[t] = "running" /\ tpc' = [tpc EXCEPT ![t] = "release"] /\ UNCHANGED access
    BY <1>11 DEF EndBody, TaskGoto
  <2>2. Order!End(t)
    BY <2>1, <1>1, OneEnds DEF Order!End
  <2>3. QED
    BY <2>2 DEF Order!Next
<1>12. ASSUME NEW t \in Tasks, MoveToReadyList(t)
       PROVE  UNCHANGED <<access, begun, ended>>
  <2>1. /\ tpc[t] = "release" /\ UNCHANGED access
        /\ \A s \in Tasks : tpc'[s] = IF s = t THEN "done" ELSE IF s \in rlist[t] THEN "ready" ELSE tpc[s]
    BY <1>12 DEF MoveToReadyList
  <2>2. \A s \in Tasks : s \in rlist[t] => tpc[s] = "pending"
    BY <1>1 DEF ReadyOK
  <2>3. QED
    BY <2>1, <2>2, SameOrder DEF Releasing
<1>13. ASSUME NEW t \in Tasks, NEW o \in Objects,
              \/ WakeupNone(t, o) \/ WakeupLast(t, o) \/ Empty(t, o)
              \/ WakeupHard(t, o) \/ WakeNode(t, o) \/ PopGeneration(t, o)
       PROVE  UNCHANGED <<access, begun, ended>>
  <2>1. CASE WakeupNone(t, o)
    BY <2>1, <1>2 DEF WakeupNone
  <2>2. CASE \/ WakeupLast(t, o) \/ Empty(t, o) \/ WakeupHard(t, o)
             \/ WakeNode(t, o) \/ PopGeneration(t, o)
    <3>1. PICK p \in {"release", "empty", "walk", "pop"} : tpc' = [tpc EXCEPT ![t] = p]
      BY <2>2 DEF WakeupLast, Empty, WakeupHard, WakeNode, PopGeneration, TaskGoto
    <3>2. tpc[t] \in {"release", "empty", "walk", "pop"} /\ UNCHANGED access
      BY <2>2 DEF WakeupLast, Empty, WakeupHard, WakeNode, PopGeneration, TaskGoto
    <3>3. \A s \in Tasks : tpc'[s] = tpc[s] \/ (s = t /\ tpc'[s] = p)
      BY <3>1, <1>1 DEF TypeOK
    <3>4. QED
      BY <3>2, <3>3, SameOrder DEF Releasing
  <2>3. QED
    BY <1>13, <2>1, <2>2
<1>14. QED
  BY <1>3, <1>4, <1>5, <1>6, <1>7, <1>8, <1>9, <1>10, <1>11, <1>12, <1>13
     DEF Next, SpawnerStep, TaskStep, Release

(* The runtime implements TaskOrder: a body begins only when every task    *)
(* that was spawned earlier and conflicts with it has ended, however the   *)
(* parent, the thieves and the releases interleave (dataflow_impl.c 20-201,*)
(* scheduler.c 955-982).                                                   *)
THEOREM SerialOrder ==
    ASSUME DataflowAssumption
    PROVE  Spec => RespectsSerialOrder
<1>1. Init => Order!Init
  <2>1. ASSUME Init PROVE access = <<>> /\ begun = {} /\ ended = {}
    BY <2>1 DEF Init, begun, ended, Releasing
  <2>2. QED
    BY <2>1 DEF Order!Init
<1>2. IInv /\ [Next]_vars => [Order!Next]_<<access, begun, ended>>
  BY RefinementStep
<1>3. QED
  BY <1>1, <1>2, SpecInv, PTL DEF Spec, RespectsSerialOrder, Order!Spec

-----------------------------------------------------------------------------
(***************************************************************************)
(* Who issues a task: IssueRace for every number of children.  None of its *)
(* safety invariants is inductive: what a task finds in df_issue_child     *)
(* when it ends, and what a thief finds there, depend on where the other   *)
(* one is.  IssueInv adds who may be in the field at each point of the     *)
(* parent, and where each child can be with its issue and its release.     *)
(***************************************************************************)

(* Only the youngest child, a live dataflow task, can be in the field, and *)
(* only while it is the one that a thief of the parent would have to issue.*)
FieldOK ==
    /\ df_issue_child.frame # Null =>
          /\ df_issue_child.frame = youngest
          /\ youngest \in Children
          /\ kind[youngest] = Dataflow
          /\ parent \in {"detach", "spawned", "look", "mark", "issue", "unmark"}
          /\ cpc[youngest] \in {"body", "wait"}
    /\ parent \in {"enter", "detach", "spawned", "look", "mark"} => ~df_issue_child.busy
    /\ parent \in {"issue", "unmark"} =>
          /\ df_issue_child = Pointer(youngest, TRUE)
          /\ to_issue = youngest
          /\ df_issue_child.frame # Null
    /\ parent # "running" => youngest \in Children

Unissued(c) == issued[c] = 0 /\ released[c] = 0

(* Where the youngest child is while it has not been issued, if it is to be. *)
YoungestOK(c) ==
    /\ parent \in {"enter", "detach"} => cpc[c] = "body" /\ Unissued(c)
    /\ parent \in {"spawned", "look", "mark"} =>
          /\ cpc[c] \in {"body", "leave", "gone"}
          /\ Unissued(c)
          /\ kind[c] = Dataflow /\ cpc[c] = "body" => df_issue_child.frame = c
    /\ parent = "detach" => df_issue_child.frame = c
    /\ parent = "issue" => Unissued(c)
    /\ parent = "unmark" => issued[c] = 1 /\ released[c] = 0
    /\ parent = "running" /\ kind[c] = Dataflow /\ cpc[c] \in {"body", "wait", "release"}
          => issued[c] = 1

ElderOK(c) ==
    kind[c] = Dataflow /\ cpc[c] \in {"body", "wait", "release"} => issued[c] = 1

ChildOK(c) ==
    /\ cpc[c] = "unborn" <=> c > youngest
    /\ cpc[c] = "unborn" => Unissued(c)
    /\ kind[c] # Dataflow => Unissued(c) /\ cpc[c] \notin {"wait", "release"}
    /\ cpc[c] \in {"body", "wait", "release"} => released[c] = 0
    /\ cpc[c] = "release" => issued[c] = 1
    /\ cpc[c] \in {"leave", "gone"} => released[c] = issued[c]
    /\ c = youngest => YoungestOK(c)
    /\ c < youngest => ElderOK(c)

IssueInv == IssueTypeOK /\ FieldOK /\ \A c \in Children : ChildOK(c)

(* The initial state satisfies the invariant. *)
LEMMA IssueInitInv == IssueInit => IssueInv
  BY ChildrenAssumption
  DEF IssueInit, IssueInv, IssueTypeOK, FieldOK, ChildOK, YoungestOK, ElderOK, Unissued, Pointer,
      Children, Dataflow

(* The invariant implies the properties of the runs. *)
LEMMA IssueInvImplies ==
    IssueInv => ReleasedAsIssued /\ IssuesLiveFrame /\ NoStaleMark /\ IssuedBeforeNext
<1> SUFFICES ASSUME IssueInv
             PROVE  ReleasedAsIssued /\ IssuesLiveFrame /\ NoStaleMark /\ IssuedBeforeNext
  OBVIOUS
<1> USE ChildrenAssumption
    DEF IssueInv, IssueTypeOK, FieldOK, ChildOK, YoungestOK, ElderOK, Unissued, Pointer, Children,
        Dataflow
<1>1. ReleasedAsIssued
  BY DEF ReleasedAsIssued
<1>2. IssuesLiveFrame
  BY DEF IssuesLiveFrame
<1>3. NoStaleMark
  BY DEF NoStaleMark
<1>4. ASSUME parent = "running", NEW c \in Children, kind[c] = Dataflow,
             cpc[c] \in {"body", "wait", "release"}
      PROVE  issued[c] = 1
  <2>1. ~(c > youngest)
    BY <1>4
  <2>2. c = youngest \/ c < youngest
    BY <2>1
  <2>3. QED
    BY <1>4, <2>2
<1>5. QED
  BY <1>1, <1>2, <1>3, <1>4 DEF IssuedBeforeNext

(* No step of the parent, of a thief or of a child falsifies it. *)
LEMMA IssueNextInv == IssueInv /\ [IssueNext]_issue_vars => IssueInv'
<1> SUFFICES ASSUME IssueInv, [IssueNext]_issue_vars PROVE IssueInv'
  OBVIOUS
<1> USE ChildrenAssumption
    DEF IssueInv, IssueTypeOK, FieldOK, ChildOK, YoungestOK, ElderOK, Unissued, Pointer, Children,
        Dataflow, ParentGoto, ChildGoto, Detached
<1>1. CASE EnterFrame
  BY <1>1 DEF EnterFrame
<1>2. CASE EnterFrameDf
  BY <1>2 DEF EnterFrameDf
<1>3. CASE Detach
  BY <1>3 DEF Detach
<1>4. CASE Steal
  BY <1>4 DEF Steal
<1>5. CASE NothingToIssue
  BY <1>5 DEF NothingToIssue
<1>6. CASE SomethingToIssue
  BY <1>6 DEF SomethingToIssue
<1>7. CASE MarkBusy
  BY <1>7 DEF MarkBusy
<1>8. CASE IssueFn
  BY <1>8 DEF IssueFn
<1>9. CASE Unmark
  BY <1>9 DEF Unmark
<1>10. ASSUME NEW c \in Children, CancelIssue(c) PROVE IssueInv'
  BY <1>10 DEF CancelIssue
<1>11. ASSUME NEW c \in Children, IssueInProgress(c) PROVE IssueInv'
  BY <1>11 DEF IssueInProgress
<1>12. ASSUME NEW c \in Children, AlreadyIssued(c) PROVE IssueInv'
  BY <1>12 DEF AlreadyIssued
<1>13. ASSUME NEW c \in Children, EndPlain(c) PROVE IssueInv'
  BY <1>13 DEF EndPlain
<1>14. ASSUME NEW c \in Children, IssueEnded(c) PROVE IssueInv'
  BY <1>14 DEF IssueEnded
<1>15. ASSUME NEW c \in Children, ReleaseFn(c) PROVE IssueInv'
  BY <1>15 DEF ReleaseFn
<1>16. ASSUME NEW c \in Children, LeaveToParent(c) PROVE IssueInv'
  BY <1>16 DEF LeaveToParent
<1>17. ASSUME NEW c \in Children, LeaveToRuntime(c) PROVE IssueInv'
  BY <1>17 DEF LeaveToRuntime
<1>18. CASE UNCHANGED issue_vars
  BY <1>18 DEF issue_vars
<1>19. QED
  BY <1>1, <1>2, <1>3, <1>4, <1>5, <1>6, <1>7, <1>8, <1>9, <1>10, <1>11, <1>12,
     <1>13, <1>14, <1>15, <1>16, <1>17, <1>18
  DEF IssueNext, ParentStep, ThiefInside, ChildStep, BodyEnds, ChildReturns

(* IssueInv is an invariant of the specification. *)
THEOREM IssueInductive == IssueSpec => []IssueInv
  BY IssueInitInv, IssueNextInv, PTL DEF IssueSpec

(* IssueTypeOK: the pointer, its mark and the control points keep types    *)
(* through every race on df_issue_child (cilk-abi.c:441, scheduler.c:965). *)
THEOREM IssueTypeCorrect == IssueSpec => []IssueTypeOK
  BY IssueInductive, PTL DEF IssueInv

(* ReleasedAsIssued: __cilkrts_pop_frame_df releases what was issued, once *)
(* and afterwards, whoever issued it and whenever.                         *)
THEOREM ReleasesMatchIssues == IssueSpec => []ReleasedAsIssued
  BY IssueInductive, IssueInvImplies, PTL

(* IssuesLiveFrame: detach_for_steal never calls the issue function of a   *)
(* task that has left its frame.                                           *)
THEOREM IssuesOnlyLiveFrames == IssueSpec => []IssuesLiveFrame
  BY IssueInductive, IssueInvImplies, PTL

(* NoStaleMark: the mark that a cancelled issue leaves behind is cleared   *)
(* before the parent can be stolen again.                                  *)
THEOREM MarkNeverStale == IssueSpec => []NoStaleMark
  BY IssueInductive, IssueInvImplies, PTL

(* ThiefFollowsLiveFrame: what detach_for_steal follows is a live frame    *)
(* (scheduler.c:955-982).                                                  *)
THEOREM ThiefReadsLiveFrame == IssueSpec => []ThiefFollowsLiveFrame
  BY IssuesOnlyLiveFrames, MarkNeverStale, PTL DEF ThiefFollowsLiveFrame

(* IssuedBeforeNext: when a stolen parent continues, its running tasks are *)
(* in their objects' metadata.                                             *)
THEOREM ParentContinuesIssued == IssueSpec => []IssuedBeforeNext
  BY IssueInductive, IssueInvImplies, PTL
=============================================================================

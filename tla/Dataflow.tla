------------------------------ MODULE Dataflow ------------------------------
(***************************************************************************)
(* Dependences between the dataflow tasks of one parent: the metadata of   *)
(* the objects they access, pending frames, issue and release              *)
(* (runtime/dataflow_impl.c 15-201, runtime/cilk-abi.c 210-236, include/   *)
(* cilk/dataflow.h, and the deferred issue of scheduler.c 955-982).        *)
(*                                                                         *)
(* The tasks of an object form generations: readers, commutative tasks or  *)
(* one writer.  The oldest generation runs; the others wait on a list on   *)
(* which the last task of each generation is marked.  A task that is ready *)
(* on all its objects when it is spawned runs at once, unissued; any other *)
(* becomes a pending frame that counts the objects it waits for.           *)
(*                                                                         *)
(* A metadata lock that is taken and given back without a visible          *)
(* intermediate state is one step: ini_ready, which takes no lock, reads   *)
(* num_gens and youngest_group only, and incoming_count is atomic.  The    *)
(* code that calls these functions for each argument of a spawn and at the *)
(* end of a task is generated by the compiler; it is modelled from         *)
(* scheduler.c:976, cilk-abi.c:461 and cilk-abi-cilk-for-numa.cpp:640-700. *)
(***************************************************************************)
EXTENDS Naturals, FiniteSets, Sequences, SequencesExt

CONSTANTS MaxTasks,   \* bound on the number of tasks the parent spawns
          Objects,    \* the versioned objects
          Accesses,   \* what a task may access: functions from some of the
                      \* objects to "read", "write" or "commut"
          Free        \* no task holds the metadata's mutex

VARIABLES num_gens, youngest_group, oldest_num_tasks,  \* object -> metadata
          waiting,        \* object -> the list of tasks, oldest first
          last,           \* object -> the tasks marked last of their generation
          mutex,          \* object -> the task that holds the metadata's mutex
          access,         \* the spawned tasks -> object -> group
          tpc,            \* task -> where it is
          incoming_count, \* task -> dependences of its pending frame
          todo,           \* task -> objects it has to release
          walked,         \* task -> nodes it has woken in its walk (new_tasks)
          rlist,          \* task -> the tasks it has made ready (a local list)
          spc,            \* what the parent is doing
          args,           \* arguments the parent has yet to check or to issue
          seen            \* ini_ready: the argument and its num_gens as read

metadata == <<num_gens, youngest_group, oldest_num_tasks, waiting, last, mutex>>
tasks == <<tpc, incoming_count, todo, walked, rlist>>
spawner == <<spc, args, seen>>
vars == <<metadata, access, tasks, spawner>>

Tasks == 1..MaxTasks

(* An access gives some of the objects a group, and there are finitely     *)
(* many objects.                                                           *)
DataflowAssumption ==
    /\ MaxTasks \in Nat /\ Free \notin Tasks
    /\ IsFiniteSet(Objects)
    /\ Accesses \subseteq UNION {[os -> {"read", "write", "commut"}] : os \in SUBSET Objects}

newest == Len(access)
Arguments(t) == DOMAIN access[t]

Init ==
    /\ num_gens = [o \in Objects |-> 0]
    /\ youngest_group = [o \in Objects |-> "empty"]
    /\ oldest_num_tasks = [o \in Objects |-> 0]
    /\ waiting = [o \in Objects |-> <<>>]
    /\ last = [o \in Objects |-> {}]
    /\ mutex = [o \in Objects |-> Free]
    /\ access = <<>>
    /\ tpc = [t \in Tasks |-> "unborn"]
    /\ incoming_count = [t \in Tasks |-> 0]
    /\ todo = [t \in Tasks |-> {}]
    /\ walked = [t \in Tasks |-> 0]
    /\ rlist = [t \in Tasks |-> {}]
    /\ spc = "idle" /\ args = {} /\ seen = <<>>

TaskGoto(t, from, to) == tpc[t] = from /\ tpc' = [tpc EXCEPT ![t] = to]
SpawnerGoto(from, to) == spc = from /\ spc' = to

(* The parent is done with one argument; after the last it goes on. *)
NextArgument(o, again, after) ==
    /\ args' = args \ {o}
    /\ spc' = IF args = {o} THEN after ELSE again

(* The groups are bits.  What the tests on them say is that a task shares  *)
(* a generation with tasks of its own kind, unless it writes, and that any *)
(* task may enter an empty object.                                         *)
Shares(yg, g) == yg = g /\ g # "write"
Joins(yg, g) == yg = "empty" \/ Shares(yg, g)

-----------------------------------------------------------------------------
(* Variants of the definitions below with a plausible mistake in each:     *)
(* what the mutation runs put in their place.  No specification uses them. *)

(* A reader may overtake a writer that still waits. *)
Bug_ReadyIgnoresGenerations(o, g) == Joins(youngest_group[o], g)

(* The parent forgets that its own count may be the last one. *)
Bug_FinishIssueForgets ==
    /\ SpawnerGoto("issued", "idle")
    /\ incoming_count' = [incoming_count EXCEPT ![newest] = @ - 1]
    /\ UNCHANGED <<metadata, access, tpc, todo, walked, rlist, args, seen>>

(* A task that is issued while it runs is not counted. *)
Bug_AddRunningUncounted(o) ==
    /\ spc = "deferred" /\ o \in args /\ mutex[o] = Free
    /\ num_gens' = [num_gens EXCEPT ![o] = 1]
    /\ youngest_group' = [youngest_group EXCEPT ![o] = access[newest][o]]
    /\ NextArgument(o, "deferred", "idle")
    /\ UNCHANGED <<oldest_num_tasks, waiting, last, mutex, access, tasks, seen>>

(* The count of running tasks goes down before the mutex is taken. *)
Bug_WakeupNoneUnlocked(t, o) ==
    /\ tpc[t] = "release" /\ o \in todo[t]
    /\ oldest_num_tasks[o] # 1
    /\ oldest_num_tasks' = [oldest_num_tasks EXCEPT ![o] = @ - 1]
    /\ todo' = [todo EXCEPT ![t] = @ \ {o}]
    /\ UNCHANGED <<num_gens, youngest_group, waiting, last, mutex, access,
                   tpc, incoming_count, walked, rlist, spawner>>

-----------------------------------------------------------------------------
(* The parent spawns a task: ini_ready for each argument, without a lock. *)
Spawn(a) ==
    /\ newest < MaxTasks
    /\ SpawnerGoto("idle", "check")
    /\ access' = Append(access, a)
    /\ args' = DOMAIN a
    /\ UNCHANGED <<metadata, tasks, seen>>

ReadGens(o) ==
    /\ o \in args
    /\ SpawnerGoto("check", "group")
    /\ seen' = <<o, num_gens[o]>>
    /\ UNCHANGED <<metadata, access, tasks, args>>

(* num_gens may be read again for the last test, or not. *)
IsReady(again) ==
    LET o == seen[1]
    IN  \/ seen[2] = 1 /\ Joins(youngest_group[o], access[newest][o])
        \/ again = 0

ArgumentReady ==
    /\ spc = "group"
    /\ \E again \in {seen[2], num_gens[seen[1]]} : IsReady(again)
    /\ NextArgument(seen[1], "check", "call")
    /\ seen' = <<>>
    /\ UNCHANGED <<metadata, access, tasks>>

ArgumentNotReady ==
    /\ SpawnerGoto("group", "pending")
    /\ \E again \in {seen[2], num_gens[seen[1]]} : ~IsReady(again)
    /\ args' = {} /\ seen' = <<>>
    /\ UNCHANGED <<metadata, access, tasks>>

(* All arguments are ready: the task runs at once, unissued. *)
Call ==
    /\ SpawnerGoto("call", "called")
    /\ TaskGoto(newest, "unborn", "running")
    /\ UNCHANGED <<metadata, access, incoming_count, todo, walked, rlist, args, seen>>

(* It ends before its parent is stolen: nothing to issue, or to release. *)
EndUnissued ==
    /\ SpawnerGoto("called", "idle")
    /\ TaskGoto(newest, "running", "done")
    /\ UNCHANGED <<metadata, access, incoming_count, todo, walked, rlist, args, seen>>

(* Or its parent is stolen, and the thief issues it (IssueRace): add_task  *)
(* without a pending frame.                                                *)
StealParent ==
    /\ SpawnerGoto("called", "deferred")
    /\ args' = Arguments(newest)
    /\ UNCHANGED <<metadata, access, tasks, seen>>

AddRunning(o) ==
    /\ spc = "deferred" /\ o \in args /\ mutex[o] = Free
    /\ num_gens' = [num_gens EXCEPT ![o] = 1]
    /\ oldest_num_tasks' = [oldest_num_tasks EXCEPT ![o] = @ + 1]
    /\ youngest_group' = [youngest_group EXCEPT ![o] = access[newest][o]]
    /\ NextArgument(o, "deferred", "idle")
    /\ UNCHANGED <<waiting, last, mutex, access, tasks, seen>>

(* Otherwise a pending frame is created, with a count of one so that it is *)
(* not released while it is being issued, ...                              *)
CreatePending ==
    /\ SpawnerGoto("pending", "issue")
    /\ TaskGoto(newest, "unborn", "pending")
    /\ incoming_count' = [incoming_count EXCEPT ![newest] = 1]
    /\ args' = Arguments(newest)
    /\ UNCHANGED <<metadata, access, todo, walked, rlist, seen>>

(* ... add_task is called for each argument, ...                           *)
Pushes(o, g) == ~Shares(youngest_group[o], g)
Ready(o, g) == Joins(youngest_group[o], g) /\ num_gens[o] <= 1

AddTask(o) ==
    LET g == access[newest][o]
        pushg == Pushes(o, g)
        ready == Ready(o, g)
    IN  /\ spc = "issue" /\ o \in args /\ mutex[o] = Free
        /\ num_gens' = [num_gens EXCEPT ![o] = IF pushg THEN @ + 1 ELSE @]
        /\ youngest_group' = [youngest_group EXCEPT ![o] = g]
        /\ IF ready
           THEN /\ oldest_num_tasks' = [oldest_num_tasks EXCEPT ![o] = @ + 1]
                /\ UNCHANGED <<incoming_count, waiting, last>>
           ELSE /\ incoming_count' = [incoming_count EXCEPT ![newest] = @ + 1]
                /\ waiting' = [waiting EXCEPT ![o] = Append(@, newest)]
                /\ last' = [last EXCEPT ![o] = IF pushg /\ waiting[o] # <<>>
                                               THEN @ \cup {Last(waiting[o])} ELSE @]
                /\ UNCHANGED oldest_num_tasks
        /\ NextArgument(o, "issue", "issued")
        /\ UNCHANGED <<mutex, access, tpc, todo, walked, rlist, seen>>

(* ... and the parent's count is taken back: the frame may be ready.       *)
FinishIssue ==
    /\ SpawnerGoto("issued", "idle")
    /\ incoming_count' = [incoming_count EXCEPT ![newest] = @ - 1]
    /\ tpc' = IF incoming_count[newest] = 1 THEN [tpc EXCEPT ![newest] = "ready"] ELSE tpc
    /\ UNCHANGED <<metadata, access, todo, walked, rlist, args, seen>>

-----------------------------------------------------------------------------
(* A worker takes the task from a ready list; the body runs and ends.  The *)
(* release function then calls wakeup for each argument.                   *)
Start(t) ==
    /\ TaskGoto(t, "ready", "running")
    /\ UNCHANGED <<metadata, access, incoming_count, todo, walked, rlist, spawner>>

EndBody(t) ==
    /\ t = newest => spc \notin {"called", "deferred"}
    /\ TaskGoto(t, "running", "release")
    /\ todo' = [todo EXCEPT ![t] = Arguments(t)]
    /\ UNCHANGED <<metadata, access, incoming_count, walked, rlist, spawner>>

(* Others of the generation still run. *)
WakeupNone(t, o) ==
    /\ tpc[t] = "release" /\ o \in todo[t] /\ mutex[o] = Free
    /\ oldest_num_tasks[o] # 1
    /\ oldest_num_tasks' = [oldest_num_tasks EXCEPT ![o] = @ - 1]
    /\ todo' = [todo EXCEPT ![t] = @ \ {o}]
    /\ UNCHANGED <<num_gens, youngest_group, waiting, last, mutex, access,
                   tpc, incoming_count, walked, rlist, spawner>>

(* The object becomes empty, in two stores that ini_ready may see apart.   *)
WakeupLast(t, o) ==
    /\ o \in todo[t] /\ mutex[o] = Free
    /\ oldest_num_tasks[o] = 1 /\ num_gens[o] = 1
    /\ TaskGoto(t, "release", "empty")
    /\ mutex' = [mutex EXCEPT ![o] = t]
    /\ oldest_num_tasks' = [oldest_num_tasks EXCEPT ![o] = 0]
    /\ num_gens' = [num_gens EXCEPT ![o] = 0]
    /\ UNCHANGED <<youngest_group, waiting, last, access,
                   incoming_count, todo, walked, rlist, spawner>>

Empty(t, o) ==
    /\ mutex[o] = t
    /\ TaskGoto(t, "empty", "release")
    /\ youngest_group' = [youngest_group EXCEPT ![o] = "empty"]
    /\ mutex' = [mutex EXCEPT ![o] = Free]
    /\ todo' = [todo EXCEPT ![t] = @ \ {o}]
    /\ UNCHANGED <<num_gens, oldest_num_tasks, waiting, last, access,
                   incoming_count, walked, rlist, spawner>>

(* wakeup_hard: the next generation becomes the oldest. *)
WakeupHard(t, o) ==
    /\ o \in todo[t] /\ mutex[o] = Free
    /\ oldest_num_tasks[o] = 1 /\ num_gens[o] # 1
    /\ TaskGoto(t, "release", IF waiting[o] = <<>> THEN "pop" ELSE "walk")
    /\ mutex' = [mutex EXCEPT ![o] = t]
    /\ oldest_num_tasks' = [oldest_num_tasks EXCEPT ![o] = 0]
    /\ walked' = [walked EXCEPT ![t] = 0]
    /\ UNCHANGED <<num_gens, youngest_group, waiting, last, access,
                   incoming_count, todo, rlist, spawner>>

(* One node: its frame may become ready; then the node is read once more   *)
(* for the mark.                                                           *)
WakeNode(t, o) ==
    LET i == waiting[o][walked[t] + 1]
        end == i \in last[o] \/ walked[t] + 1 = Len(waiting[o])
    IN  /\ mutex[o] = t
        /\ TaskGoto(t, "walk", IF end THEN "pop" ELSE "walk")
        /\ incoming_count' = [incoming_count EXCEPT ![i] = @ - 1]
        /\ rlist' = IF incoming_count[i] = 1 THEN [rlist EXCEPT ![t] = @ \cup {i}] ELSE rlist
        /\ walked' = [walked EXCEPT ![t] = @ + 1]
        /\ UNCHANGED <<metadata, access, todo, spawner>>

PopGeneration(t, o) ==
    LET rest == SubSeq(waiting[o], walked[t] + 1, Len(waiting[o]))
    IN  /\ mutex[o] = t
        /\ TaskGoto(t, "pop", "release")
        /\ oldest_num_tasks' = [oldest_num_tasks EXCEPT ![o] = walked[t]]
        /\ num_gens' = [num_gens EXCEPT ![o] = @ - 1]
        /\ waiting' = [waiting EXCEPT ![o] = rest]
        /\ youngest_group' = IF rest = <<>> /\ num_gens[o] = 1
                             THEN [youngest_group EXCEPT ![o] = "empty"] ELSE youngest_group
        /\ mutex' = [mutex EXCEPT ![o] = Free]
        /\ todo' = [todo EXCEPT ![t] = @ \ {o}]
        /\ UNCHANGED <<last, access, incoming_count, walked, rlist, spawner>>

(* The local list is moved to the worker's ready list, and the task ends. *)
MoveToReadyList(t) ==
    /\ tpc[t] = "release" /\ todo[t] = {}
    /\ tpc' = [s \in Tasks |-> IF s = t THEN "done"
                               ELSE IF s \in rlist[t] THEN "ready" ELSE tpc[s]]
    /\ rlist' = [rlist EXCEPT ![t] = {}]
    /\ UNCHANGED <<metadata, access, incoming_count, todo, walked, spawner>>

-----------------------------------------------------------------------------
SpawnerStep ==
    \/ \E o \in Objects : ReadGens(o) \/ AddTask(o) \/ AddRunning(o)
    \/ ArgumentReady \/ ArgumentNotReady \/ Call
    \/ CreatePending \/ FinishIssue

Release(t) ==
    \/ \E o \in Objects : \/ WakeupNone(t, o) \/ WakeupLast(t, o) \/ Empty(t, o)
                          \/ WakeupHard(t, o) \/ WakeNode(t, o) \/ PopGeneration(t, o)
    \/ MoveToReadyList(t)

TaskStep(t) == Start(t) \/ EndBody(t) \/ Release(t)

Next == \/ \E a \in Accesses : Spawn(a)
        \/ SpawnerStep \/ EndUnissued \/ StealParent
        \/ \E t \in Tasks : TaskStep(t)

Spec == Init /\ [][Next]_vars

(* Workers run what is on their ready lists, bodies end, and the runtime's *)
(* functions are executed; a program need not spawn, and no parent need be *)
(* stolen.                                                                 *)
Fairness == WF_vars(SpawnerStep) /\ \A t \in Tasks : WF_vars(TaskStep(t))
LiveSpec == Spec /\ Fairness

-----------------------------------------------------------------------------
TypeOK ==
    /\ num_gens \in [Objects -> Nat]
    /\ youngest_group \in [Objects -> {"empty", "read", "write", "commut"}]
    /\ oldest_num_tasks \in [Objects -> Nat]
    /\ waiting \in [Objects -> Seq(Tasks)]
    /\ last \in [Objects -> SUBSET Tasks]
    /\ mutex \in [Objects -> Tasks \cup {Free}]
    /\ access \in Seq(Accesses) /\ newest <= MaxTasks
    /\ tpc \in [Tasks -> {"unborn", "pending", "ready", "running", "release",
                          "empty", "walk", "pop", "done"}]
    /\ incoming_count \in [Tasks -> Nat]
    /\ todo \in [Tasks -> SUBSET Objects]
    /\ walked \in [Tasks -> Nat]
    /\ rlist \in [Tasks -> SUBSET Tasks]
    /\ spc \in {"idle", "check", "group", "call", "called", "deferred", "pending",
                "issue", "issued"}
    /\ args \subseteq Objects
    /\ seen = <<>> \/ seen \in Objects \X Nat

Releasing(t) == tpc[t] \in {"release", "empty", "walk", "pop"}

(* The task is in the object's metadata: issued for it, not yet released. *)
Entered(t, o) ==
    /\ t <= newest /\ o \in Arguments(t)
    /\ tpc[t] \in {"pending", "ready", "running"} \/ (Releasing(t) /\ o \in todo[t])
    /\ t = newest => /\ spc # "called"
                     /\ spc \in {"issue", "deferred"} => o \notin args

(* CILK_ASSERT((num_gens <= 1) == (tasks.head.it_next == 0)) at the end of *)
(* add_task (dataflow_impl.c:175), at any time.                            *)
GenerationsMatchTasks ==
    \A o \in Objects : mutex[o] = Free => (num_gens[o] <= 1 <=> waiting[o] = <<>>)

(* oldest_num_tasks counts the tasks in the metadata that need not wait:   *)
(* it is what decides that a release is the last of its generation, and a  *)
(* task enters it in three ways (joining, woken, issued late).             *)
OldestCounted ==
    \A o \in Objects : mutex[o] = Free =>
        oldest_num_tasks[o] =
            Cardinality({t \in Tasks : Entered(t, o) /\ ~Contains(waiting[o], t)})

(* Both counts of an object are those of the tasks in its metadata. *)
CountsExact == GenerationsMatchTasks /\ OldestCounted

(* A node of the generation that is being woken belongs to a task that has *)
(* not released the object, so its memory is there for the walk, although  *)
(* another object may already have made the task ready and run it          *)
(* (dataflow_impl.c:44-60).                                                *)
WalkedNodesLive ==
    \A t \in Tasks, o \in Objects : tpc[t] = "walk" /\ mutex[o] = t =>
        \A i \in 1..Len(waiting[o]) : o \in todo[waiting[o][i]] \/ ~Releasing(waiting[o][i])

(* No wake-up is lost: a task that waits, waits for an earlier conflicting *)
(* task that has not finished.                                             *)
Conflict(a, b) == \E o \in DOMAIN a \cap DOMAIN b : ~Shares(a[o], b[o])

NobodyWaitsInVain ==
    \A t \in 1..newest :
        tpc[t] = "pending" /\ (t = newest => spc \notin {"issue", "issued"}) =>
            \E s \in 1..(t - 1) : tpc[s] # "done" /\ Conflict(access[s], access[t])

(* Every task that is spawned is executed: again and again all of them     *)
(* have ended, but for one that the parent has called and that runs on.    *)
EveryTaskEnds ==
    []<>(\A t \in Tasks : \/ tpc[t] \in {"unborn", "done"}
                          \/ t = newest /\ spc \in {"called", "deferred"})

(* The tasks run in an order that respects the serial program.             *)
begun == {t \in Tasks : tpc[t] \in {"running", "done"} \/ Releasing(t)}
ended == {t \in Tasks : tpc[t] = "done" \/ Releasing(t)}
Order == INSTANCE TaskOrder
RespectsSerialOrder == Order!Spec
=============================================================================

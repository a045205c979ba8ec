# TLA+ verification of the swan runtime

swan_runtime is a Cilk Plus work-stealing runtime extended with *dataflow* dependences between
tasks (versioned objects with input, output, in/out and commutative accesses), NUMA-aware
stealing and a static loop scheduler. Compiled code calls it at every spawn, sync and return.
This directory holds the models of its protocols, the TLC configurations that check
them on small instances and the proofs, checked by TLAPS, that hold for every instance.

## The system

| Part | State | Operations | Talks to | Modules |
|---|---|---|---|---|
| Worker lock (`worker_mutex.c`, `scheduler.c:285-347`) | `lock`, `steal_lock`, `do_not_steal` | lock, unlock, trylock_other, unlock_other | everything that touches a deque, ready list or `frame_ff` | `WorkerLock` |
| Deque (`scheduler.c`, `cilk-abi.c`) | `ltq`, `head` H, `tail` T, `exc` E, `protected_tail` | detach (spawn), undo_detach, THE exception check, pop_tail, promote_own_deque, random_steal, disallow/restore stealing | the lock; the full frames, through detach_for_steal | `THE`, `StealDeque` |
| Dataflow versions (`dataflow_impl.c`, `dataflow.h`) | per object: `num_gens`, `oldest_num_tasks`, `youngest_group`, the waiting tasks; per task: `incoming_count`, its tags | ini_ready, issue (add_task), release (wakeup) | ready lists, pending frames | `Dataflow`, `TaskOrder`, `IssueRace` |
| Full frames (`full_frame.c`, `scheduler.c`) | `join_counter`, parent, children list, `sync_master`, `frame_ff`, `next_frame_ff`, ready lists | detach_for_steal, sync, provably_good_steal, call return, spawn return | the frame's own lock, the worker lock | `FullFrames` |
| Reducers (`scheduler.c:3827-4571`, `reducer_impl.cpp`, `include/cilk/reducer*.h`) | maps of a worker, of a frame's children and right sibling; hash tables; views | splice on return, reduce with the frame unlocked, lookup, create, destroy, the monoids | full frames | `Reducers`, `HyperMap`, `Monoids`, `CReducers`, `ReducerObject` |
| Exceptions (`except-gcc.cpp`, `except-win64.c`) | pending exceptions, the C++ runtime's records | save, merge, rethrow, unwind across a steal | the same way as the maps | `Reducers`, `GccExceptions`, `Win64Exceptions` |
| Worker tree (`signal_node.c`, `scheduler.c:2196-2352, 3540-3708`) | `run`, `wait` of each node, `work_done`, Q | msg, should_wait, wait, notify_children, wake_runtime, sleep_runtime | the OS semaphore | `SignalTree` |
| User threads (`cilk-abi.c:515-711`, `global_state.cpp`) | worker table, P, Q, TLS worker; settings | bind, unbind, start, stop; set a parameter | worker tree | `Lifetime`, `Settings` |
| Fibers (`cilk_fiber.cpp`, `cilk_fiber-unix.cpp`) | pools, stacks, who is on which | allocate, deallocate, switch, tell TBB | steal, sync, return | `FiberPool`, `FiberSwitch`, `StackWatch` |
| Arrays on the stack (`config/x86/cilk-abi-vla.c`) | stack pointer, `sync_sp` | allocate, free, on whatever stack | steal, sync | `FrameStack` |
| Frame allocator (`frame_malloc.c`) | buckets per worker and global | malloc, free, batch moves | full frames, pending frames | `FrameMalloc` |
| Record/replay (`record-replay.cpp`) | the log of a worker | record, match, wait | steals, syncs | `Replay`, `THE` |
| Pedigrees (`pedigrees.c`, `cilk_api.c`) | ranks of a worker, leaf of a thread | load, save, walk, bump | spawn, sync, bind, loops | `CilkFor`, `ThreadPedigree` |
| Loops (`cilk-abi-cilk-for*.cpp`) | iteration ranges; slots | divide and conquer, static slices | spawn, static scheduler | `CilkFor`, `StaticSched` |

A worker runs user code until a spawn, a sync or a return finds that something was stolen. It then
enters the scheduler: it takes its next full frame, or a ready pending frame of its own, or steals
from the ready list or the deque of a random victim; with nothing to do for long enough it sleeps in
its node of the worker tree until a parent node wakes it. Shared state is protected by the worker
lock (deque, ready list, `frame_ff`), the full frame's lock (`join_counter`, children, reducers) and
the metadata lock of a dataflow object; the worker's fast paths take no lock at all.

### What is hard in it

- **Lock-free fast paths.** A worker pushes, pops and returns on its deque without a lock and only
  finds out afterwards, by comparing T with E, that a thief was there. It also reads and clears
  `frame_ff` without the lock.
- **One word, three parties.** `df_issue_child` of a parent frame is written by the parent, by the
  running child and by a thief of the parent, and decides whether the child releases its objects.
- **Counters moved on many paths.** `join_counter`, `incoming_count` and `oldest_num_tasks` are
  raised and lowered by different workers under different locks; one too many hangs the program, one
  too few runs code before what it depends on.
- **Memory that vanishes.** A generation's wake-up walks nodes that live in the frames of the tasks
  it makes ready; a thief issues a frame that lies on the stack of the task it races with; a worker
  leaves a stack that another one may already resume or free.
- **Who may run what.** A sync in the serial part of a user thread must come back to that thread; a
  system worker may change teams, a user worker may not.
- **Order out of disorder.** Maps, exceptions, fibers and pedigrees of strands that end in any order
  must come together as if the program had been serial.
- **Sleep and wake-up** by a flag and a semaphore, along a tree, with messages that overtake.
- **Replay and resource limits**: a steal must be taken back when the log, the NUMA domains or the
  pool of fibers says so.

`PROJECT.json` lists every such hazard with its line and the properties aimed at it, or why there is
none.

### What makes each part correct

| Part | Properties |
|---|---|
| Worker lock | mutual exclusion; its assertions; at most one thief overtakes; the worker gets in |
| Deque | each continuation is taken once; E returns to H; guarded continuations stay; a worker leaves a stolen parent with an empty deque; it implements a deque of atomic steps |
| Deferred issue | what is released was issued, and all that was issued is released; only live frames are issued; the parent goes on only when its elder tasks are issued |
| Dataflow | serial order of conflicting tasks; no wake-up lost; walked nodes are alive; counts exact |
| Full frames | join counters exact; one owner of a frame; a sync is crossed after all children; serial work returns to its thread; teams stay what they are |
| Worker tree | no wake-up lost; awake in use, asleep otherwise; shutdown ends every worker |
| Reducers | views combined in serial order, none lost or combined twice; they end in the user's variable; each monoid means its serial operation; nothing lost when a constructor throws |
| Exceptions | the serially first one survives; the C++ runtime's records are those of the serial program; one that crosses frames is somebody's until it is destroyed |
| Loops | every iteration once, under its serial pedigree; a static loop ends and leaves nothing behind |
| Binding, settings | Q counts the bound workers; one worker per thread; the table and the pools fit what was asked for |
| Fibers, allocator, arrays | accounts exact; limits kept; a stack has one user; a watched stack is known to be on its thread; the stack pointer fits the arrays alive |
| Record and replay | a replayed program performs the recorded steals and never waits for ever |
| Pedigrees | two strands never draw the same; a walk sees the path to the root |

## Plan

Modules were written from the most important protocol outwards. `[x]` is done.

1. [x] `WorkerLock`: the lock everything else relies on; `StealDeque` (abstract) and `THE`: the deque.
2. [x] `IssueRace`; `TaskOrder` (abstract) and `Dataflow`.
3. [x] `FullFrames`; `SignalTree`.
4. [x] `StaticSched`, `CilkFor`: loops. `Lifetime`, `Settings`: start, end, table.
5. [x] `Reducers`, `HyperMap`, `Monoids`, `CReducers`, `ReducerObject`; `GccExceptions`,
   `Win64Exceptions`.
6. [x] `FiberPool`, `FiberSwitch`, `StackWatch`, `FrameStack`, `FrameMalloc`.
7. [x] `Replay`, `ThreadPedigree`.
8. [x] Proofs: `WorkerLock`, `IssueRace`, `THE` with the refinement of `StealDeque`,
   `FullFrames`, `Dataflow` with the refinement of `TaskOrder`, `Reducers`, in `Parts_proofs`
   `Lifetime`, `FiberPool`, `FrameMalloc` and `FrameStack`, what `FiberSwitch` says of the stacks, `StackWatch`
   with the refinement of `FiberSwitch`, `CilkFor`, and in `UserThreads_proofs` `SignalTree`,
   `ThreadPedigree` and `Settings`.
   [ ] To come: `NoStaleState` of `StaticSched`, along its tree of slots, and that each of its shares is executed once.
9. [ ] A reduce function that itself spawns; references to a dataflow object's versions.

## How the modules fit together

`THE` instantiates `StealDeque` and is checked to implement it; `Dataflow` instantiates `TaskOrder`
and is checked to implement it. `StackWatch` extends `FiberSwitch`: each of its actions is one of
`FiberSwitch` with what TBB is told in that step, and `WatchingChangesNothing` proves that it implements it. The other links are made by abstraction, each
justified by the module that models the part in detail:

- `WorkerLock` shows that the lock excludes and does not starve its worker: `THE` has one variable
  `lock` for it, and a strongly fair acquisition for the worker.
- `THE` shows that a steal is one step to its victim: every other module takes one step for it.
  `IssueRace`'s actions `LeaveToParent`, `LeaveToRuntime` and `Steal` are the three outcomes that
  `StealDeque` allows for the parent's continuation.
- `IssueRace` shows that a running task is issued once, when its parent is stolen and before the
  parent goes on: `Dataflow` takes that as `StealParent` and `AddRunning`.
- `Dataflow` shows when a pending frame becomes ready: in `FullFrames` a pending child becomes ready
  when any of the released siblings chooses so, a superset.
- `FullFrames` says when a worker finds work and when the last user leaves; `SignalTree` allows work
  at any time while a user is in Cilk. `Lifetime` gives `SignalTree` its users and its one start.
- `FullFrames` says who resumes a frame; `FiberSwitch` on which stack, and `FrameStack` where on it.
  `FiberPool` says that a fiber may be had, `FiberSwitch` takes one or fails.
- `Reducers` says which maps meet and in which order; `HyperMap` what a merge of two of them does to
  the entries and `Monoids` and `CReducers` what it does to two views. Both have strands in a row of
  which neighbours join in any order, which is all that `Reducers` shows of a run. `GccExceptions`
  takes the tree of strands from `Reducers` in the same way.

`MCTasks`, `MCParts` and `MCReducers` each check several modules that share no state in one run: the
first state names the part that a behaviour is about, every other part keeps its initial state, and
each property speaks of the part that runs. A state graph is then the disjoint union of the parts'
graphs. Fairness is given per part, with the name of the part in the condition. `MCParts` extends the four parts
that have theorems about the properties it checks, so that these are one definition, and instantiates the others:
`LoopsAreRight` is what it asks of `StaticSched`, `CilkFor` and `ThreadPedigree`, `StacksAreRight` what it asks of
`FiberSwitch`, `StackWatch`, `FrameStack` and `Settings`.

## The modules

### WorkerLock

Each mutex is two words, as in `worker_mutex.c`: `held`, which TRY_ACQUIRE exchanges, and `owner`,
written separately. `wpc` and `tpc` say between which two accesses a participant is. `Announce`,
`WAcquire`, `WOwns` are `__cilkrts_worker_lock`; `WDisowns`, `WRelease`, `Withdraw` are the unlock;
`Disturb` ... `Undisturb` are `worker_trylock_other` with `steal_lock` and the look at
`do_not_steal`, `TDisowns` and `TRelease` the unlock by a thief. `overtakes` is a history variable:
the thieves that got the lock since the announcement. `LockIsExclusive` puts exclusion and the
assertions of the code together.

### THE and StealDeque

`ltq`, `head`, `tail`, `exc` (E), `protected_tail` are the fields of the local state, pointers being
offsets from the start of the queue; `frame` says whether `frame_ff` is set. The worker spawns
(`StoreFrame`, `AdvanceTail`), returns (`RetractTail`, then `WinUndoDetach` or `SuspectSteal` and the
exception check `LockForCheck`, `ParentAttached`, `ParentStolen`), pops or promotes its own deque
(`PopTail`, `Promote`), suspends at a sync (`Suspend`, `ClearFrame`), resumes (`SetupForExecution`)
and guards its tail (`DisallowStealing`, `RestoreStealing`). A thief locks, announces itself in E,
looks at T and at `protected_tail`, retreats or asks the log and the NUMA domains, advances H and
detaches. Each is a single load or store where no lock covers it: every pair that matters is a store
followed by a fence and a load, so sequential consistency is what the code has. `takes` counts how
often a continuation was taken; `available`, the refinement mapping, is the deque as the abstract
specification sees it: a continuation is stolen from the moment the race for it is decided.
`DequeMatchesFrame`: a worker that leaves a stolen parent has an empty deque, and a thief that
detaches finds its victim's `frame_ff`.

### IssueRace

`df_issue_child` is a pointer and its lowest bit. The parent enters a helper (`EnterFrame`,
`EnterFrameDf`) and detaches; the child ends its body and either cancels its issue, waits out an
issue in progress, or releases (`CancelIssue`, `IssueInProgress`, `AlreadyIssued`); the thief looks,
marks, calls the issue function, and takes the mark away. `issued` and `released` count what reaches
the metadata.

### Dataflow and TaskOrder

Per object: `num_gens`, `youngest_group`, `oldest_num_tasks`, the list `waiting` with its marks `last`, and the
metadata's mutex. Per task: `incoming_count` and the objects it has yet to release. The
parent checks its arguments in two unlocked reads (`ReadGens`, then `ArgumentReady` or
`ArgumentNotReady`), calls the task or makes a pending frame (`CreatePending`), enters it in the
metadata of each object (`AddTask`) and gives up its own count (`FinishIssue`). A task that ends
releases its objects one by one (`WakeupNone`, `WakeupLast`, `Empty`, `WakeupHard`, `WakeNode`,
`PopGeneration`) and puts what it has made ready on a ready list at the end. `TaskOrder` is the promise:
a task begins after every earlier task that conflicts with it has ended.

### FullFrames

`kind`, `parent`, `kids`, `join`, `unsynched` (the frame has crossed no sync since its steal),
`sync_master` and `home` (the frame's team, a pending frame's or an initial frame's) are of a frame;
`frame_ff`, `next_frame_ff`, `last_full_frame`, `team`, `deque`, `calls` of a worker, where `deque`
holds, per continuation, the number of frames a steal turns into full frames. `Bind` and `ReturnFromInitial` are
a user thread's entry and exit; `Call`, `Return`, `Spawn`, `ReturnAttached` the compiled code;
`SpawnPending` and `Release` the dataflow tasks; `Sync`, `DoSync`, `LoseReturn`,
`DoReturnFromSpawn`, `ReturnFromCall` the slow paths with `ProvablyGoodSteal`; `Resume`,
`FindQueueEmpty`, `StealOwn`, `StealReadyFrom`, `Steal` the scheduler, where `Detach` is the whole
of `detach_for_steal` with `unroll_call_stack` and `make_child`, which make a full frame of each call
in the continuation (`Lines`). Siblings are a set: their order matters to reducers only. `PushNextFrame`, `PopNextFrame`,
`MakeRunnable`, `IncJoin`, `DecJoin`, `UnlinkChild`, `SetSyncMaster` and `UnsetSyncMaster` are the
functions of those names.

### SignalTree

`run` and `sem` are a node's flag and semaphore. `notify_children` is a loop over the children, a
flag and a post for each (`TellWait`, `TellRun`, `PostChild`); `TestFlag` and `SemWait` are
`signal_node_wait`; `WakeUp`, `Exit`, `GoOn`, `ScheduleWait`, `ScheduleRun` and `StealFails` the
scheduling loop around it. `EnterCilk`, `LeaveCilk`, `StopWorkers` run under the global lock with the
messages to the root (`SetRoot`, `PostRoot`, `ClearRoot`) as steps of their own; a static loop wakes
the children of its worker (`StartLoop`). `TreeFollowsUsers` puts together what keeps wake-ups from
getting lost at each level.

### StaticSched

A static loop is a record with the nodes it got, its shares (`work_items`) and its count of workers
still in it. The master allocates node after node by a compare-and-swap, computes the shares and
signals the tree of slots (`xid`); a worker finds the loop in its slot, passes the signal on, runs
its slice and counts itself out; it may give up waiting after its tries, and comes back. `runs`
counts the executions of each iteration. `AllWellPlaced` names the masters for which the
distribution works; `static_wide` shows what happens with the others.

### CilkFor and ThreadPedigree

`CilkFor` has the activation records of the helper functions, which divide, spawn the one half and go
on with the other, in the order that the plain and the NUMA variants and the two compilers' branches
choose; continuations may be stolen at each spawn. A pedigree is a sequence of ranks, copied into
frames at spawns and syncs and back at returns, steals and resumes, and rearranged by a loop so that
iteration i has rank i below the loop. `ThreadPedigree` follows what lies at the root of every
pedigree: a thread's leaf, which it makes when it first needs it, loads into a worker at a bind,
saves at an unbind and frees at its end, and the walk of `__cilkrts_get_pedigree_info`, which may
span several binds.

### Lifetime and Settings

In `Lifetime` threads initialise, start the workers, bind, unbind and end the runtime; what is read
without the lock and read again under it are two steps. `Settings` is the arithmetic around it: what
`__cilkrts_set_param` and the environment accept, from text to number, the defaults by the number of processors
or under a sequential tool, and the sizes that are derived at each start, and a stack's mapping with
its guard page. `asked` is what was last asked for and accepted.

### FiberPool, FiberSwitch and StackWatch

A pool is a count of fibers and its account; a worker goes from its own pool to the shared one and to
the heap, which may refuse; deallocation moves and frees fibers when a pool is full. The locks of
two pools are taken one after the other, so those are different steps. `FiberSwitch` follows each
worker between user code, the three scheduling functions and a steal: which fiber it is on (`cur`),
which it carries to be freed after the switch (`fiber_to_free`, `pending_remove_ref`), and what each
frame keeps for its sync (`fiber_child`) or its resumption (`fiber_self`). `StackWatch` adds the
callbacks of a library that watches stacks: `seen` is the thread on which the library believes each
stack to be.

### FrameStack

Addresses are numbers. `sp` is the running stack pointer, `sync_sp` the field of the full frame: an
address while the frame is suspended, a distance while it runs on another stack. Arrays are pushed
with alignment and the compiler's distance, from the stack or, when the frame is not synched, from
the heap, and are freed last in, first out, also after the sync took the frame back. This is code
for the Intel compiler on x86.

### FrameMalloc

Free lists are counts, `room` is the rest of the open chunk; batches move between a worker and the
global lists. Workers end one after the other, each with `Cleanup`.

### Replay

A fixed tree of tasks is executed twice: first recording, with steals, returns and syncs in any order,
then replaying the log that came out of it. A replaying thief steals only what its log says and a
worker at a sync waits to be last if it was. Pedigrees name the entries.

### Reducers, GccExceptions and Win64Exceptions

`Reducers` is one frame with up to `MaxKids` stolen children in `kids`, left to right. `map` and `exc` are what
the strand's worker holds, `slot` and `slot_exc` what its right siblings (for the frame: its children)
have left to it, `taken` the maps being merged while the frame is unlocked. A view is the sequence of
updates it has seen, so that the serial order is visible in it. `Places` has all the places where a map can be,
from left to right, and `Entries` what is in the views there, which is what `ViewsInOrderUnlessMixed` is about; in the same way
`Pending` has the places of the exceptions, of which the leftmost is the first (`FirstExceptionSurvives`). `FewEvents` in `MCReducers` bounds
combinations: the full number of events only for updates of one reducer. `GccExceptions` has the C++
runtime's state per strand (`cxa`: the exceptions handled and the number on their way) and the
records that carry it; `Win64Exceptions` a function that is called by another, both with spawned
calls, and the first pass of an exception over their frames, the wrapped exception that waits at a
sync, the reference it holds on a fiber and the closed deque.

### HyperMap, Monoids, CReducers and ReducerObject

`HyperMap` has the buckets of the tables and hash functions small enough to collide, the growth when
a table is full, the merges into the left and into the right map, registration and destruction.
`Monoids` has a view of each kind, its operations, moves of its value in and out, and reductions;
`CReducers` the functions the C macros expand to for each numeric type, with the overflow of the
type and the choice between the variable and an identity at a lookup. `ReducerObject` has the parts
of a reducer or holder as a set that constructors build and guards take down.

## The runs

| Run | Instance | Shows |
|---|---|---|
| `parts` | lock: a worker, 3 thieves; static loops: 2 workers and 2 loops, 3 and 1, on 2 nodes; a loop of 5 iterations, grain 2; 2 threads and their pedigrees; fiber pools of 2 workers; 3 workers, 3 frames on fibers; the same with 2 workers and a watching library; frame allocator of 2 workers; a stack with 2 arrays; 3 threads binding; settings of 2 machines; 5 tasks recorded and replayed on 3 workers | the parts that share no state |
| `tasks` | 4 children in `IssueRace`; 3 tasks with reads and writes of 2 objects; 4 tasks where the writers of two objects release the same successors | issue and release agree under any steal; counts, walks, no lost wake-up; serial order; every task ends |
| `the` | 2 thieves, 3 slots, 4 spawns, a log and NUMA masks | the race, the refinement of `StealDeque`, a return is decided |
| `frames` | 3 workers (1 user and 2 system, or 2 and 1), 4 full frames, calls up to 2, 1 continuation per deque | joins, ownership, teams, the return to the thread |
| `signal_tree` | 4 workers (three levels), 2 entries, or 1 with a loop and the stop | no lost wake-up, awake in use, asleep otherwise, shutdown |
| `reducers` | 3 children, 2 reducers, 3 events; tables of 3 hyperobjects on 3 strands; 20 monoids and 9 C families of 2-bit numbers, 3 strands, 3 operations; 7 kinds of reducer objects; 3 exceptions on Unix (3 children) and on Windows (3 workers) | everything that is merged when strands meet |
| `the_replay_numa`, `frames_fibers`, `reducers_pending`, `static_wide`, `loop_numa_gcc`, `c_reducers_view` | see below | disagreements of code and comments |

**Bounds.** A counter that the code lets grow without end is bounded by a constant named `Max...`;
behaviours simply stop there, so those runs do not check deadlock (`CHECK_DEADLOCK FALSE`).
`the` and `frames` do. A `THE` that ran out of spawns still returns and is robbed. `frames` has no such
counter, but for its progress the check says nothing: a worker of the runtime can always search.

- Locks and deques: a conflict is between the worker, the thief inside and one that comes next; three
  thieves add the stream that could starve. Four spawns on three slots reuse each slot; the theorems
  cover every size.
- Deferred issue: children talk to their elder and younger siblings only; the theorems cover any number.
- Dataflow: "joint" has the accesses with which two writers release one reader of both objects while
  the second is still walking its list, and one more task on either object; reader and commutative
  generations both occur. "pairs" has every mix of reads and writes of two objects, up to exchanging
  them, in three tasks, the length at which an order can be transitive.
- `frames`: four full frames are the initial one, a called one, and two children; with three workers that
  is a steal from a thief, calls that become full frames, a sync master, and a steal from a ready list. One
  continuation per deque suffices because a steal takes only the oldest; deques of two were checked
  once with the same result. With two users there are no calls between spawns (`MCFullFrames`).
- `signal_tree`: four workers are three levels, the fewest at which a worker is parent and child. An
  entry is a wake-up, a leave a message to sleep, and the next entry or the stop a second wake-up,
  which meets that message on its way down the tree and the signals of the first. `AwakeWhileInUse`
  needs the two entries, since the only one would find the tree as it was made: its mutant
  `Bug_WakesOnlySleeper`, a user that wakes only a root that sleeps already, is not found with one.
  `OneKindOfReturn` in `MCSignalTree` bounds the instance, which otherwise has over 2 million states:
  a second entry (and its leave) comes in behaviours without loop and stop, a loop and the stop in
  those with one entry. Two entries, two loops and the stop together were checked once for safety, and the
  theorems cover any number of each.
- Static loops: three workers on two nodes give a node with a worker in the middle, and two loops
  race for a node and reuse its slots.
- Reducers: with three children two strands meet in the middle, with a map to the left and to the
  right of them. Two-bit numbers overflow in one operation. Three strands are the fewest for which
  a merge can be to the left or to the right first.
- Fibers: three frames and three workers give a leftmost child that is stolen, and one that is not, while
  the parent waits; two fibers and a limit of five stacks make a steal fail.
- Settings: the two machines differ in pages, affinity and a sequential tool; each number of the environment
  is once absent, once usable, once too long.

**Fairness.** `WorkerLock`: weak fairness of each thread inside a call, no more. `THE`: weak fairness of the
worker that has begun a return and of a thief that holds the lock, strong fairness of the worker's
lock, which `WorkerGetsIn` is about. `IssueRace`: weak fairness of the thief inside its steal and
of a child that is returning. `Dataflow`: weak fairness of the spawner inside the runtime and of
each task; a task on a ready list is run eventually, which is what `search` and `random` in
`FullFrames` do. `SignalTree`: weak fairness of each worker's runtime steps and of the messages.
`StaticSched`: weak fairness of each thread inside a loop and of a worker that looks for one
(`Continue`), which may give up and come back as often as it likes. `Replay`: weak fairness of each
worker's steps. Nothing is assumed of the user's program: it need not spawn, sync, come or leave.

`EveryTaskEnds` and `WaitEnds` say that infinitely often nothing waits, which for tasks and waits that
are bounded in number is that each ends.

## What is proved

For every value of the constants, without bound:

- **`THE_proofs`**: `TypeOK`, `TakenExactlyOnce`, `ExceptionSettles` (with H <= E), `OrphanDequeEmpty`,
  `VictimHasFrame`, and with these `DequeMatchesFrame`. The invariant says what E is at every point of
  a thief's attempt (`ExceptionOK`), that a
  thief past its look at T still has a frame at H whatever the worker does meanwhile (`StealOK`), and
  which continuation each slot holds (`ContentOK`). It assumes `OneMismatch`, that not both a log is
  replayed and frames are restricted to NUMA domains: otherwise E is taken back twice
  (`the_replay_numa`) and the theorems are false. With what a thief that detaches has seen
  of the guard (`protected_tail`), `GuardedNotStolen` follows. `DequeIsAtomic` is the refinement of `StealDeque`: each load or
  store either decides a race, and then is the abstract steal, pop, or refusal with the mapping `available`, or leaves
  `available` as it is.
- **`FullFrames_proofs`**: `TypeOK`, `JoinCountsExact`, `OneOwner`, `MasterIsFree`, `TeamIsThreadOfWork`,
  `SerialPartOnItsThread`, and the action properties `SyncsWait` and `UsersKeepTheirTeam`, for any number of users, system workers,
  frames, calls and continuations. Exact counters need that no frame is lost
  when it is pushed to a worker, and the worker it is pushed to at a sync can be a user worker that is stealing at that
  moment. So the invariant has to know where a computation's work can be: it holds three labels that exist for
  every state, the initial frame above each frame (`root`), the frames at or below one with
  a sync master (`par`), and those outside of any spawn (`trunk`). `MastersOK` says that there is one sync master in a
  computation at most, that all parallel work is below it, and that the rest is run by the thread's own worker; `Acyclic`
  lets a climb from a frame end, from which `Alone` follows: who is about to cross the sync of
  the frame with the master has the last reference to anything below it. `PlacesOK` says that a frame is pending, ready, running or
  about to return, and `WorkerOK` what a worker may hold at each point. The theorems assume `Steady`, that no steal fails for want of a fiber;
  without it `UsersKeepTheirTeam` is false (`frames_fibers`). What a steal does to the tree is stated once (`Grown`), for a line of any
  number of frames.
- **`Dataflow_proofs`**: `TypeOK` (no count falls below zero), `CountsExact`, `WalkedNodesLive`, `NobodyWaitsInVain`, and
  `RespectsSerialOrder`, that is the refinement of `TaskOrder`, for any number of tasks, any finite set of objects and any accesses.
  The counts know nothing of who conflicts with whom; that they keep the serial order is due to the order of each object's list. `ListOK`
  says that it is the order of the spawns, that a generation is a stretch of tasks that share, and that the
  marks are where two do not; `OldestOK`, that the tasks in front of the list are older and do not share with its first. `FreeOK` and
  `WakingOK` say what the counts are while nobody has the mutex, and at each point of the wake-up; `ParentOK`, that what `ini_ready` found
  with two unlocked reads stays true until the parent acts on it, because others only take generations away.
  `CountOK` is what a pending frame's count counts; `ReadyOK` who is on a
  local list; `OrderOK`, the heart of it, that a task that waits no more for an object has no earlier conflicting task there. With it, each
  step that starts a body is one of `TaskOrder`, and every other step leaves its variables alone. The hypothesis
  is `DataflowAssumption`, which `MCTasks` has TLC evaluate.

  And of `IssueRace`, for any number of children: `IssueTypeOK`, `ReleasedAsIssued`, `IssuesLiveFrame`, `NoStaleMark`,
  `IssuedBeforeNext`, and `ThiefFollowsLiveFrame`. Only the youngest child can be in the field (`FieldOK`), and it is known for every
  point of the parent where that child can be (`ChildOK`).
- **`Reducers_proofs`**: `TypeOK`, `FibersComeBack`, `FirstExceptionSurvives` and `ViewsInOrderUnlessMixed`, for any number of children, reducers,
  updates and exceptions. All of them rest on the list: it has the children that have not left, in the order of their spawns
  (`ListOK`), so no child stands between a strand that leaves and the one to its left. `SyncOK` says that the join counter counts
  the strands under way, so the one that resumes the frame is the last and finds the list empty; `FiberOK`, that the stack of
  the activation is with the leftmost child until it waits for the frame. `ExcOK` says that what was left to a strand came from
  its right, and that none is later than what a strand still at work could throw. The views need three more facts (`ViewsOK`): only strands
  that can hold a map do (`MapsOK`); the leftmost map, which alone starts with the value of the variable and may not be merged
  into another, is to the left of all others, with the leftmost child if there is one (`LeftmostOK`); and the updates
  left of a child that runs are no later than its own, those right of it later (`Bounded`). A step then moves maps
  without one passing another (`MovedMaps`) or joins three neighbours (`GatheredMaps`). The last fact is lost when a
  pending child is spawned in the middle of a map, hence `mixed`; `reducers_pending` has TLC show it.
- **`Parts_proofs`**, of five parts that share no state with any other.
  - `WorkerLock`: `TypeOK`, `MutualExclusion`, `MutexAssertions`, `AtMostOneOvertakes`, and `LockIsExclusive`, for any number of thieves. The
    inductive invariant adds what each mutex word says about who is where (`WordInv`), the same for its
    owner (`OwnerInv`), what a thief remembers of its try (`StatusInv`), and that the flag is
    up exactly while the worker is between announcement and withdrawal (`FlagInv`); a thief that overtakes twice
    would have looked at the flag after it was up.
  - `Lifetime`: `TableIsRight`, for any number of threads and user workers. The invariant (`TableInv`) adds which thread is bound to
    which worker at each stage of entering, and that who is about to bind has seen a state that is still published or was ended since.
  - `FiberPool`: `FibersCounted`, for any number of workers and any sizes and limits. The accounts add up although single ones mean
    nothing, a worker's being the fibers it took less those it gave; so the bound on the fibers alive comes from the limits of all
    of them (`LimitInv`: a worker's own account is never above zero). `DyingInv` says who still has fibers to free, and that
    while the pools are destroyed these are among the fibers that were alive.
  - `FrameMalloc`: `FramesAccounted`, for any number of workers, any bucket sizes, chunk, batch and limit with a batch below the limit. That the
    bytes add up (`BalanceInv`) rests on what a row of cuts from chunks takes, leaves and loses (`CarvedAdds`). That no list outgrows
    the limit rests on a ghost count: a list's potential is that of a number of blocks, which the list exceeds by at most one, or, when
    one batch was larger than what is left of the limit, it has no more than that batch (`PotentialInv`). `DoneInv` says that who is
    cleaned up keeps nothing.
  - `FrameStack`: `FrameStackIsRight` (as `StackIsGivenBack`), for any stacks, sizes, alignments and distances, on whichever stacks the frame has run in between. The stack
    pointer alone says little while it is a distance in `sync_sp`; `FrameStackInv` is about what it would be at the sync: the
    start, less what the arrays and pushes alive take, less the holes. For the arrays not to overlap, each has to lie below the earlier ones and above
    the top by all that was pushed since (`Fits`), so that freeing out of order frees no more than a hole.

  Sums are `SumFunction` of the library, a fold that its definition unfolds to a function that is recursive over the subsets of its
  domain. That there is such a function, and that it does not matter which element is taken first, is proved by an induction over the subsets of a
  finite set, for a *set* of subsets instead of a predicate (`SubsetInduction`): a smallest subset outside of it would be
  inside with one element less. What the three proofs need (one value changes, two change, one is added, values are bounded, two
  functions are added) follows. The hypotheses `LifetimeAssumption`, `PoolAssumption`, `MallocAssumption` and `StackAssumption` are
  evaluated by TLC with `MCParts`; a pool size of 0, which the second excludes, makes an assertion of the code fail (`cilk_fiber.cpp:156`).
- **`FiberSwitch_proofs`**: `FibersAreRight` of `FiberSwitch`, for any number of workers, fibers
  and frames: no two workers are on one stack, a stack is at one place at a time and not freed before it is left, none is lost, a stack that is
  resumed was left before. Which stack a worker will go on with depends on the tree of frames, so the
  invariant (`SwitchInv`) has the tree too: it has one root, which is the user's and alone can be a sync master (`TreeOK`, `MasterOK`); a frame
  that nobody holds waits for children, and its join counter counts them and its holder, so the last to arrive finds a stack that was left for it
  (`FrameOK`); the list of children is those that have not returned (`KidsOK`). That the
  initial frame ends on the stack its thread came with follows from a set that exists for every state, the frames that are leftmost all the way from
  the root (`HomeOK`). `PlacesOK` gives every stack its one place; `CurOK` and `ResumableOK` say who is on it, or that it can be resumed.

  And of `StackWatch`, for any number of thunks too: each of its steps is one of `FiberSwitch` or changes nothing there, so it
  implements it (`WatchingChangesNothing`), and TBB sees a stack on the thread that runs on it and is not called for one that
  is gone (`TransfersAreTold`). The invariant (`WatchInv`) is stated on top of `SwitchInv`: where TBB sees a stack is who serves on it, and
  no two stacks have one thunk (`KeptOK`); a thunk that waits in the thread's storage is that of a user who is not bound (`StorageOK`);
  an unwatch finds the stack its thunk was given to, unless the thunk is outdated (`ThunkOK`); and a fresh stack, or one about
  to be freed, has none (`IdleOK`), so that whoever gets it next is not taken for its predecessor.
  The hypotheses are `FiberAssumption` and `ThunkAssumption`, which `MCParts` has TLC evaluate.

- **`CilkFor_proofs`**: `LoopIsFlat` (as `FlatLoops`) for any number of workers and iterations and any grain: no
  iteration is executed twice, each has been when the loop ends, and each strand has its pedigree of the serial run,
  whatever was stolen. `LoopInv` has five parts. `TreeOK`: the frames that exist are a tree, which is known from what each
  parent and child are doing, and a frame that passed its sync has no spawned child left. `HoldersOK`: a frame that has called
  nobody is on one stack, in one deque, or suspended, and what lies on that stack is known from it (`ChainOf`); a deque
  holds the parents of what runs above it, each of the next. `JoinsOK`: a join counter counts the children that will not find
  their parent's continuation (`Orphans`), and a frame is marked unsynched as long as there are any; so who passes a sync
  without it, or brings it to zero, is the last. `IterationsOK`: each iteration has run or is in what one frame has left to do
  (`Todo`). `PedigreesOK`: `Serial` for who executes a frame, `AtSpawn` and `AtSync` for what a frame keeps for its thief and for who resumes it.

  The hypotheses are `LoopAssumption`, the invariant that the recursion states of count and grain (`cilk-abi-cilk-for.cpp:259`), and
  that the loop is of kind "plain" or "numa". The third kind, the NUMA recursion as gcc builds it, is left out because it does execute
  iterations twice: that is the finding of `loop_numa_gcc`.

- **`UserThreads_proofs`**, of three parts.
  - `ThreadPedigree`: `PedigreesDiffer` (as `StrandsDiffer`), for any number of threads and user workers and any depth of spawns. That a strand draws what no other has
    drawn is no statement about one step: a pedigree could come back long after, at another depth or in another worker. `PedigreeInv` orders
    pedigrees by the first rank, counted from the root, in which they differ. What was drawn under a root is before what is executed there, which a spawn,
    a return, a sync and a draw keep (`OrderOK`); that needs that no two threads, those that ended included, ever have a root in
    common, and that a bound worker's root is its thread's (`BoundOK`). `WalkOK` says how far a walk has come, whether the thread has bound in
    the meantime or not.
  - `Settings`: `SettingsHold` (as `SettingsAreGranted`), for any environment, any machine and any calls, refusals and restarts. `SettingsInv` says what holds between a
    change and the start (`Settable`, and `Granted` with what was last accepted), and what the start makes of it (`SharedOut`). The start computes in whole
    pages and shares, so the proof has the arithmetic of quotients (`QuotientFits`, `SmallerShares`), that a stack size which was adjusted
    is not adjusted again (`Validated`), and that a stack is unmapped as it was mapped if 32 divides the machine's page (`StackMade`).
  - `SignalTree`: `TypeOK`, `NoLostWakeup`, `ParentWillTell`, `RootFollowsUsers`, and with these `TreeFollowsUsers`, for a tree
    of any size. The invariant adds that a child about to be signalled has its flag set (`Sending`),
    that a worker that is not telling is back at its first child (`AtFirst`), and what
    the holder of the global lock knows of the users (`LockKnowsUsers`). That a worker has one parent (`OneParent`) keeps
    the others from disturbing it.

  The hypotheses `PedigreeAssumption` and `SettingsAssumption` are evaluated with `MCParts`. With these two modules and
  those above, every conjunct of `StacksAreRight` and the last two of `LoopsAreRight` are proved for all values of the constants.

The assumptions are those on the constants that the modules name (workers are distinct from "nobody",
sizes are natural numbers). TLC agrees with every inductive invariant on small instances.

Only model-checked: all liveness properties, since neither fairness nor `ENABLED` is within the prover's reach; what a fold or a recursive function computes for every input, sums over finite sets excepted, which is what
`ReductionsAreSerial` and what `LoopsAreRight` asks of `StaticSched` are about; `AllComesHome`, which is about `HyperMap`, `ReducerObject` and the exceptions of two compilers;
and everything else about the modules no theorem is listed for.

## Where the code disagrees with its own words

Each of these runs ends in a counterexample to what a comment or an assertion says.

- `the_replay_numa` (`scheduler.c:1445`): when neither the log nor the NUMA domains agree with a steal,
  `random_steal` takes its announcement in E back twice (`:1435` and `:1445`), and E falls below H, against "with
  H <= E" (`:510`). The run `the` leaves such steps out, the theorems assume that not both are in use.
- `frames_fibers` (`scheduler.c:1390`): a worker that gets no fiber for a frame on its own ready list
  (`:1215-1222`) goes on to steal, and its team changes while the list is not empty. A
  user worker can then take such a frame from the list and change teams, which "user
  workers are not permitted to" (`:1396`, `:2253`).
- `reducers_pending` (`cilk-abi.c:238`): "Child gets reducer map and stack of parent" (`scheduler.c:729`) is not done
  when a pending frame is made: what the parent added before the spawn ends up to the right of
  the child's updates.
- `static_wide` (`cilk-abi-cilk-for-static.cpp:638`): "we can use all workers" (`:467`), but the share of the master's node is
  unset when the loop did not get that node, and a system worker signals its own node only.
- `loop_numa_gcc` (`cilk-abi-cilk-for-numa.cpp:322`): the branch for gcc (`:311-323`) always spawns the lower half,
  and `:359-363` may go on with the lower half again: it runs twice and the upper half
  never. The comment at `:295` says only that the order of the halves depends on the worker.
- `c_reducers_view` (`reducer_impl.cpp:704`): after `CILK_C_UNREGISTER_REDUCER` in a stolen continuation
  `REDUCER_VIEW` is a new identity view, where the documentation reads the result (`reducer.h:1791`, `1979`).

Further observations, made while reading, for which there is no run:

- *Ready lists and steals.* `steal_from_ready_list` (`scheduler.c:1041`) leaves the list's tail when it takes the
  last entry but not the first, possible only for tasks with NUMA masks. The replay record of a steal is consumed before the
  NUMA test may refuse it (`:1435-1445`). The test at `:618` compares the head with
  `protected_tail`, the comment at `:3373` says head + 1; `GuardedNotStolen` holds with the test as it is.
- *Loops.* When a user worker runs a slice of a static loop, the signal it passes on goes to no child.
- *Exceptions.* On Win64, a handler that is found in a stolen frame, or at the bottom of a thief's
  stack, leaves the worker's deque shut until its next stolen sync or return (`ShutOnlyWhilePending` in
  `Win64Exceptions` has the exceptions to it). An exception object destroyed on its own fiber, or
  in a merge, never gives the fiber's reference back.
  Exceptions are not recorded for replay (`scheduler.c:2988`). After one, the rank of a pedigree is
  restored but not its chain (`pedigrees.c:103-107`).
- *Reducers.* With unequal allocators, `splice_front` of a list copies an empty range and clears its source
  (`reducer_list.h:687`; `Monoids` with `Kinds = {"list_prepend_copying"}`). The minimum of
  unsigned char starts from `CHAR_MAX` (`reducer_min_max.h:3569`, `3720`; `CReducers` with `Families = {"min"}`,
  `Types = {"uchar"}`). `REDUCER_VIEW` before `CILK_C_REGISTER_REDUCER`, as in the example at `reducer.h:1702`,
  makes an assertion of `hyper_create` fail under a bound worker (`reducer_impl.cpp:646`). A reduction loses a default
  index (`reducer_min_max.h:996`). `view_move_out` of the vector clears its source only with unequal allocators. An
  identity that throws in `hyper_lookup` leaks its view (`reducer_impl.cpp:713-716`). A failed aligned allocation
  is constructed upon. The assignment of a holder deletes before it clones (`holder.h:894`), and its
  deallocation passes a size where a count is expected.
- *Arrays.* An array that goes to the heap loses its alignment; one on the stack keeps the distance its alignment
  took until the function returns.
- *Settings.* `init` may race `end_cilk` (`global_state.h:108`), and the first two questions of different
  threads race each other (`global_state.cpp:71`, `390`). A value of the environment with 24
  characters or more counts as set but leaves the buffer as it was (`os.h:176`, `global_state.cpp:455`); text without
  a number is accepted as 0. "max user workers" may be set while the runtime runs and changes what
  `__cilkrts_get_total_workers` answers. Limits adjusted at one start stay for the next.
  Ad-hoc workers are neither counted nor waited for at `__cilkrts_end_cilk` (`cilk_api.c:94`).
- *Fibers.* A late unwatch writes to a fiber that may be freed, and the callback it saved is installed again at the next
  bind (`cilk-abi.c:787-790`). A fiber whose stack could not be mapped is given out (`cilk_fiber.cpp:636`;
  the comment at `cilk_fiber-unix.cpp:300` expects otherwise).

## What is not modelled

- **Full frames, fibers and reducers.** A reduce function that itself spawns, and new maps that appear while
  it runs. Called (not spawned) children in `Reducers` and in `FiberSwitch`. Pending frames in `FiberSwitch`
  (they come without a fiber and start on a new one). Simulated steals of a debugger.
- **Dataflow.** Renaming and the reference counts of versions: the code never drops the last one. Pedigrees of
  dataflow tasks. NUMA masks in ready lists.
- **Loops.** Nested static loops, and several in a row by one master. The variant `cilk_for_numa_root` that nothing calls.
- **Replay.** Exceptions during a replay, and the format of the log file.
- **Exceptions.** `rethrow` without exception data. On Windows, the repair of registers in the second
  pass, the trampolines in assembler, the probes, and all of 32-bit Windows.
- **Fibers and storage.** References to fibers (Windows only); `stacks.c`, which nothing calls on Unix; `try_allocate_from_pool`,
  which nothing calls; the growth of a bucket array as storage.
- **Reducer library.** The formatting state of streams; the legacy wrapper classes.
- **Without a protocol of their own**: the spin mutex and the OS mutex (each is the lock its users see),
  metacalls, statistics, tracing, messages, the safe string library (vendored), the alternative thread
  creation (not built by default), build files, documentation.
- **Weak memory.** Modules are sequentially consistent. Each pair of accesses that race in
  the deque, the worker lock and the issue race is separated by a full fence in the code.
- **Recursion over data.** What `HyperMap` and `Monoids` compute is checked on bounded inputs only; a theorem
  for all sequences needs an induction that the prover does not offer with a predicate; the sums in
  `Parts_proofs` do with one over a set of subsets.

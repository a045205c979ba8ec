------------------------------ MODULE MCParts ------------------------------
(* The parts that share no state with any other, so that each can be       *)
(* checked on its own: a behaviour of this specification is a behaviour of *)
(* the one part that its first state names, the others stay as they are.   *)
(* The parts with theorems of their own are extended, so that the          *)
(* constants of the configuration and the properties are theirs.           *)
EXTENDS WorkerLock, Lifetime, FiberPool, FrameMalloc, Sequences

CONSTANTS NoFrame,           \* of Replay
          Unset, Long, Junk  \* of Settings

VARIABLES part,              \* the part that runs
          \* StaticSched
          pc, todo, loop, numa_node, numa_local_self, numa_node_threads,
          numa_node_cum_threads, numa_P_init, numa_allocate, xid, loops, runs,
          \* CilkFor
          kind, stack, work, pedigree, activations, loop_root_pedigree, started,
          \* Replay
          mode, frame, arriving, deque, next_frame, spawned, join, unsynched,
          log, ran, strayed,
          \* FiberSwitch
          cur, step, binds, ahead, frame_ff, next_frame_ff, last_full_frame,
          fiber_to_free, spare, alive, fiber_owner, resumable, resume_sf,
          pending_remove_ref, frames, parent, kids, join_counter, fiber_self,
          fiber_child, synched, sync_master,
          \* FrameStack
          sp, sync_sp, off_home, arrays, holes,
          \* Settings
          machine, env, initialized, g, singleton, running, asked, calls, starts_made,
          \* StackWatch
          tbb_interop, stack_op, unwatch, seen, outdated,
          \* ThreadPedigree
          leaf, leaf_tls, bound, user_pedigree, original, global_counter, walk,
          drawn, draws, moves

lock_vars == <<held, owner, do_not_steal, wpc, tpc, status, overtakes>>
static_vars == <<pc, todo, loop, numa_node, numa_local_self, numa_node_threads,
                 numa_node_cum_threads, numa_P_init, numa_allocate, xid, loops, runs>>
loop_vars == <<kind, stack, work, pedigree, activations, loop_root_pedigree, started>>
replay_vars == <<mode, frame, arriving, deque, next_frame, spawned, join,
                 unsynched, log, ran, strayed>>
switch_vars == <<cur, step, binds, ahead, frame_ff, next_frame_ff, last_full_frame,
                 fiber_to_free, spare, alive, fiber_owner, resumable, resume_sf,
                 pending_remove_ref, frames, parent, kids, join_counter, fiber_self,
                 fiber_child, synched, sync_master>>
stack_vars == <<sp, sync_sp, off_home, arrays, holes>>
setting_vars == <<machine, env, initialized, g, singleton, running, asked, calls,
                  starts_made>>
watch_vars == <<tbb_interop, stack_op, unwatch, seen, outdated>>
user_vars == <<leaf, leaf_tls, bound, user_pedigree, original, global_counter, walk,
               drawn, draws, moves>>
all == <<part, lock_vars, static_vars, loop_vars, pool_vars, malloc_vars,
         life_vars, replay_vars, switch_vars, stack_vars, setting_vars,
         watch_vars, user_vars>>

(* Two loops on two workers, one after the other or at the same time, and  *)
(* one loop on three.                                                      *)
User == 11
Static2 == INSTANCE StaticSched WITH
    Workers <- {1, 2}, Users <- {User}, NumNodes <- 2, Counts <- {3}, MaxLoops <- 2
Static3 == INSTANCE StaticSched WITH
    Workers <- {1, 2, 3}, Users <- {User}, NumNodes <- 2, Counts <- {3}, MaxLoops <- 1

Loops == INSTANCE CilkFor WITH
    Workers <- {0, 2}, First <- 0, Count <- 5, Grain <- 2, Kinds <- {"plain", "numa"},
    deque <- work, frames <- activations, ran <- started

(* The program recorded: a root with two children, which have one each.    *)
Replays == INSTANCE Replay WITH
    Workers <- {"u", "s1", "s2"}, User <- "u",
    Kids <- <<<<2, 3>>, <<4>>, <<5>>, <<>>, <<>>>>

Switches == INSTANCE FiberSwitch WITH
    User <- "u", Systems <- {"s1", "s2"}, Thread <- "thread", Heap <- {"f1", "f2"},
    None <- "none", MaxFrames <- 3, MaxAhead <- 2, MaxBinds <- 2

(* What the proofs about these assume of their constants.                  *)
ASSUME LivesAssumption == LifetimeAssumption
ASSUME PoolsAssumption == PoolAssumption
ASSUME FramesAssumption == MallocAssumption
ASSUME ForAssumption == Loops!LoopAssumption
ASSUME SwitchesAssumption == Switches!FiberAssumption

(* On fewer workers, with a library that watches a stack.                  *)
Watched == INSTANCE StackWatch WITH
    User <- "u", Systems <- {"s1"}, Thread <- "thread", Heap <- {"f1", "f2"},
    None <- "none", MaxFrames <- 3, MaxAhead <- 1, MaxBinds <- 2, Thunks <- {"k"}
ASSUME ThunksAssumption == Watched!ThunkAssumption /\ Watched!FiberAssumption

(* Two threads, of which one may end and another come.                     *)
UserPedigrees == INSTANCE ThreadPedigree WITH
    Threads <- {"t1", "t2"}, UserWorkers <- {"w1"}, None <- "none",
    MaxMoves <- 3, MaxDepth <- 4, MaxLeaves <- 2,
    tls <- leaf_tls, pedigree <- user_pedigree
ASSUME PedigreesAssumption == UserPedigrees!PedigreeAssumption

(* The thieves' stacks lie above the first one, at odd distances too.      *)
Stacks == INSTANCE FrameStack WITH
    Home <- 40, Stolen <- {61, 80}, Lengths <- {1, 3}, Alignments <- {1, 2},
    Distances <- {0, 1}, MaxArrays <- 2, Depth <- 12, unsynched <- off_home
ASSUME ArraysAssumption == Stacks!StackAssumption

(* A program under a sequential tool, one on two processors, and one whose *)
(* environment has a number that is too long to be read.                   *)
Plain(n, u) == [nworkers |-> n, users |-> u, failures |-> n, force |-> Unset, replay |-> FALSE, record |-> TRUE]
Set == INSTANCE Settings WITH
    Machines <- {[online |-> 4, affinity |-> 2, ptool |-> FALSE, page |-> 4096],
                 [online |-> 2, affinity |-> 0, ptool |-> TRUE, page |-> 65536]},
    Env <- {Plain(Unset, Unset), Plain(3, Long),
            [nworkers |-> Long, users |-> 2, failures |-> Long, force |-> 1, replay |-> TRUE, record |-> FALSE]},
    Inputs <- [nworkers |-> {Junk, 3, 64}, max_user_workers |-> {0, 2},
               local_stacks |-> {0, 5}, shared_stacks |-> {3}, nstacks |-> {0, 2},
               stack_size |-> {Junk, 5000, 100000}, force_reduce |-> {1, Junk}],
    Default <- 5, MaxCalls <- 2, MaxStarts <- 2
ASSUME ValuesAssumption == Set!SettingsAssumption

(* Of the ways to place the workers of a static loop on nodes and of the   *)
(* orders in which they register, which differ by a renaming of workers    *)
(* only, one is kept.                                                      *)
StaticInit ==
    /\ IF part = "static3" THEN Static3!Init ELSE Static2!Init
    /\ \A v, w \in DOMAIN numa_node \ {User} : v < w => numa_node[v] <= numa_node[w]
    /\ part \notin {"static2", "static3"} => \A t \in DOMAIN numa_node : numa_node[t] = 0
InOrder == \A v, w \in DOMAIN pc \ {User} : v < w /\ pc[v] = "new" => pc[w] = "new"

PartsInit ==
    /\ part \in {"lock", "static2", "static3", "loop", "fibers", "frames",
                 "binding", "replay", "switch", "watch", "stack", "settings", "user"}
    /\ StaticInit
    /\ Init /\ LifeInit /\ PoolInit /\ MallocInit /\ Loops!Init /\ Replays!Init
    /\ IF part = "watch" THEN Watched!Init ELSE Switches!Init
    /\ Watched!NothingWatched /\ UserPedigrees!PInit /\ Stacks!FInit /\ Set!CInit
    /\ part # "loop" => kind = "plain"
    /\ part # "settings" => env.nworkers = Unset /\ machine.ptool

(* What belongs to the other parts stays as it is. *)
OthersUnchanged ==
    /\ UNCHANGED part
    /\ part # "lock" => UNCHANGED lock_vars
    /\ part \notin {"static2", "static3"} => UNCHANGED static_vars
    /\ part # "loop" => UNCHANGED loop_vars
    /\ part # "fibers" => UNCHANGED pool_vars
    /\ part # "frames" => UNCHANGED malloc_vars
    /\ part # "binding" => UNCHANGED life_vars
    /\ part # "replay" => UNCHANGED replay_vars
    /\ part \notin {"switch", "watch"} => UNCHANGED switch_vars
    /\ part # "watch" => UNCHANGED watch_vars
    /\ part # "stack" => UNCHANGED stack_vars
    /\ part # "settings" => UNCHANGED setting_vars
    /\ part # "user" => UNCHANGED user_vars

(* A behaviour ends where a static loop has been placed that the           *)
(* distribution does not work for.                                         *)
PartsNext ==
    /\ \/ part = "lock" /\ Next
       \/ part = "static2" /\ Static2!AllWellPlaced /\ Static2!Next /\ InOrder'
       \/ part = "static3" /\ Static3!AllWellPlaced /\ Static3!Next /\ InOrder'
       \/ part = "loop" /\ Loops!Next
       \/ part = "fibers" /\ PoolNext
       \/ part = "frames" /\ MallocNext
       \/ part = "binding" /\ LifeNext
       \/ part = "replay" /\ Replays!Next
       \/ part = "switch" /\ Switches!Next
       \/ part = "watch" /\ Watched!WNext
       \/ part = "stack" /\ Stacks!FNext
       \/ part = "settings" /\ Set!CNext
       \/ part = "user" /\ UserPedigrees!PNext
    /\ OthersUnchanged

(* The fairness of each part, for the behaviours in which it runs.         *)
PartsSpec ==
    /\ PartsInit /\ [][PartsNext]_all
    /\ WF_lock_vars(part = "lock" /\ WInCall)
    /\ \A t \in Thieves : WF_lock_vars(part = "lock" /\ ThiefInCall(t))
    /\ \A t \in {1, 2, User} : WF_static_vars(part = "static2" /\ Static2!Continue(t))
    /\ \A t \in {1, 2, 3, User} : WF_static_vars(part = "static3" /\ Static3!Continue(t))
    /\ \A w \in {"u", "s1", "s2"} : WF_replay_vars(part = "replay" /\ Replays!Goes(w))

-----------------------------------------------------------------------------
(* The properties of the parts that are instantiated.                      *)

(* StaticSched: loops run each iteration once and leave nothing behind.    *)
(* CilkFor: each iteration is run once, under the pedigree of a serial run. *)
(* ThreadPedigree: pedigrees stay apart when threads enter and leave.       *)
LoopsAreRight ==
    /\ part = "static2" => Static2!PlacedLoopsRunOnce /\ Static2!NoStaleState
    /\ part = "static3" => Static3!PlacedLoopsRunOnce /\ Static3!NoStaleState
    /\ part = "loop" => Loops!LoopIsFlat
    /\ part = "user" => UserPedigrees!PedigreesDiffer

(* StaticSched: loops end, although workers stop waiting for them.         *)
LoopsEnd == /\ part = "static2" => Static2!LoopsEnd
            /\ part = "static3" => Static3!LoopsEnd

(* FiberSwitch: the fibers alive have one user each, which finds them when *)
(* it leaves its stack or goes back to it.                                 *)
(* StackWatch: a library that watches a stack knows its thread.            *)
(* FrameStack: a suspended frame's stack holds the arrays on it.           *)
(* Settings: sizes and limits are what was asked for.                      *)
StacksAreRight ==
    /\ part = "switch" => Switches!FibersAreRight
    /\ part = "watch" => Watched!FibersAreRight /\ Watched!StacksAreFollowed
    /\ part = "stack" => Stacks!FrameStackIsRight
    /\ part = "settings" => Set!SettingsHold

(* Replay: a replayed run ends and is the one recorded.                    *)
ReplayEnds == part = "replay" => Replays!ReplayEnds
=============================================================================

----------------------------- MODULE StackWatch -----------------------------
(***************************************************************************)
(* FiberSwitch together with a library that watches the stacks: TBB is     *)
(* told when a stack leaves its thread, when one goes on with it, and when *)
(* it is given up (runtime/cilk-tbb-interop.h 74-197, cilk-abi.c 737-846,  *)
(* cilk_fiber.cpp 403-562, 1034-1066, os-unix.c 175-183, 252-261).         *)
(*                                                                         *)
(* TBB hands the runtime a thunk for the stack its thread is on and gets   *)
(* one to take it back with.  The runtime keeps it with the fiber, or with *)
(* the thread while that is not bound.  What TBB knows of the stack is in  *)
(* "seen"; it is on one thread, in limbo, or no longer watched.            *)
(***************************************************************************)
EXTENDS FiberSwitch

CONSTANTS Thunks

VARIABLES tbb_interop,  \* the thunk in the storage of the user's thread
          stack_op,     \* fiber -> thunk
          unwatch,      \* thunk -> the fiber to take it back from, or Delayed
          seen,         \* thunk -> thread, or what TBB knows otherwise
          outdated      \* thunks whose unwatch is left with a fiber that is gone

watch_vars == <<tbb_interop, stack_op, unwatch, seen, outdated>>
wvars == <<vars, watch_vars>>

Delayed == "delayed until bind"

(* Needed by the proofs: these names are no worker's and no fiber's.       *)
ThunkAssumption ==
    /\ None \notin Thunks /\ Delayed \notin Fibers \cup {None}
    /\ Workers \cap {"unused", "limbo", "gone"} = {}

NothingWatched ==
    /\ tbb_interop = None
    /\ stack_op = [x \in Fibers |-> None]
    /\ unwatch = [k \in Thunks |-> None]
    /\ seen = [k \in Thunks |-> "unused"]
    /\ outdated = {}

WInit == Init /\ NothingWatched

MyFiber(w) == fiber_self[frame_ff[w]]

-----------------------------------------------------------------------------
(* What TBB calls                                                          *)

(* On a thread that is not bound the thunk waits for the next binding.     *)
WatchUnbound(k) ==
    /\ step[User] = "out" /\ tbb_interop = None /\ binds < MaxBinds
    /\ seen[k] = "unused"
    /\ tbb_interop' = k
    /\ unwatch' = [unwatch EXCEPT ![k] = Delayed]
    /\ seen' = [seen EXCEPT ![k] = User]
    /\ UNCHANGED <<vars, stack_op, outdated>>

Watch(w, k) ==
    /\ step[w] = "user" /\ stack_op[MyFiber(w)] = None
    /\ seen[k] = "unused"
    /\ stack_op' = [stack_op EXCEPT ![MyFiber(w)] = k]
    /\ unwatch' = [unwatch EXCEPT ![k] = MyFiber(w)]
    /\ seen' = [seen EXCEPT ![k] = w]
    /\ UNCHANGED <<vars, tbb_interop, outdated>>

(* By the thread the stack is on.  A thunk handed over while the thread    *)
(* was bound and taken back when it no longer is leads to a fiber that has *)
(* been freed, and what the thread has saved stays.                        *)
Unwatch(w, k) ==
    LET bound == step[w] # "out"
        from == IF unwatch[k] = Delayed /\ bound THEN MyFiber(w) ELSE unwatch[k]
    IN  /\ seen[k] = w /\ step[w] \in {"user", "out"}
        /\ seen' = [seen EXCEPT ![k] = "gone"]
        /\ IF from = Delayed
           THEN tbb_interop' = None /\ UNCHANGED stack_op
           ELSE /\ stack_op' = IF k \in outdated THEN stack_op
                               ELSE [stack_op EXCEPT ![from] = None]
                /\ UNCHANGED tbb_interop
        /\ UNCHANGED <<vars, unwatch, outdated>>

-----------------------------------------------------------------------------
(* What the runtime calls                                                  *)

Known(k) == k # None /\ seen[k] # "gone"
Tell(k, news) == seen' = IF Known(k) THEN [seen EXCEPT ![k] = news] ELSE seen

(* Variants of the definitions below with a plausible mistake in each:     *)
(* what the mutation runs put in their place.  No specification uses them. *)

(* A fiber that is freed keeps its thunk. *)
Bug_Release(x) == Tell(stack_op[x], "gone") /\ UNCHANGED stack_op

Adopt(w, x) == Tell(stack_op[x], w)
Orphan(x) == Tell(stack_op[x], "limbo")
Release(x) ==
    /\ Tell(stack_op[x], "gone")
    /\ stack_op' = [stack_op EXCEPT ![x] = None]

BindWatched ==
    /\ Bind
    /\ stack_op' = [stack_op EXCEPT ![Thread] = tbb_interop]
    /\ tbb_interop' = None
    /\ UNCHANGED <<unwatch, seen, outdated>>

(* The thunk goes back to the thread for the next time it enters Cilk.     *)
ReturnFromInitialWatched ==
    LET x == MyFiber(User)
    IN  /\ ReturnFromInitial
        /\ tbb_interop' = IF stack_op[x] = None THEN tbb_interop ELSE stack_op[x]
        /\ stack_op' = [stack_op EXCEPT ![x] = None]
        /\ outdated' = outdated \cup {k \in Thunks : unwatch[k] = x}
        /\ UNCHANGED <<unwatch, seen>>

EnterUserCodeWatched(w) ==
    /\ EnterUserCode(w)
    /\ Adopt(w, cur[w])
    /\ UNCHANGED <<tbb_interop, stack_op, unwatch, outdated>>

(* Before the switch; a fiber to be freed is orphaned and then released.   *)
LongjmpIntoRuntimeWatched(w) ==
    /\ LongjmpIntoRuntime(w)
    /\ IF fiber_to_free[w] = None
       THEN Orphan(Leaving(w)) /\ UNCHANGED stack_op
       ELSE Release(Leaving(w))
    /\ UNCHANGED <<tbb_interop, unwatch, outdated>>

Silently(w) ==
    /\ \/ WorkerScheduler(w)
       \/ Spawn(w) \/ ReturnAttached(w) \/ ReturnFromSpawn(w) \/ Sync(w)
       \/ w \in Systems /\ Stop(w)
       \/ w = User /\ DestroyWorker
    /\ UNCHANGED watch_vars

WNext ==
    \/ BindWatched \/ ReturnFromInitialWatched
    \/ \E w \in Workers :
          \/ Silently(w) \/ EnterUserCodeWatched(w) \/ LongjmpIntoRuntimeWatched(w)
          \/ \E k \in Thunks : Watch(w, k) \/ Unwatch(w, k)
    \/ \E k \in Thunks : WatchUnbound(k)

WSpec == WInit /\ [][WNext]_wvars

-----------------------------------------------------------------------------
Kept(k) == {x \in Fibers : stack_op[x] = k}
              \cup (IF tbb_interop = k THEN {"storage"} ELSE {})

(* "When a non-empty stack is transferred between threads, the first       *)
(* thread must orphan it and the second thread must adopt it"              *)
(* (cilk-tbb-interop.h:78): TBB sees a stack on the thread that runs on it *)
(* and on no other, and sees every transfer, until it has been released or *)
(* unwatched, after which it is not called again.                          *)
StacksAreFollowed ==
    /\ \A w \in Running :
          LET k == stack_op[cur[w]] IN
          Known(k) => /\ step[w] \in {"user", "returning", "syncing"} => seen[k] = w
                      /\ step[w] \in {"started", "resumed"} => seen[k] = "limbo"
    /\ \A k \in Thunks :
          /\ seen[k] = "limbo" => \E x \in alive \ Workers : Kept(k) = {x}
          /\ seen[k] \in Workers =>
                IF step[seen[k]] \in {"out", "gone"} THEN tbb_interop = k /\ Kept(k) = {"storage"}
                ELSE Kept(k) = {cur[seen[k]]}
          /\ seen[k] = "gone" /\ k \notin outdated => Kept(k) = {}
    /\ \A x \in Fibers \ alive : stack_op[x] = None
=============================================================================

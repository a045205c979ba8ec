----------------------------- MODULE FiberSwitch -----------------------------
(***************************************************************************)
(* Workers and the fibers they run on: how a worker leaves user code for   *)
(* its scheduling fiber, what becomes of the stack it leaves, and how      *)
(* another fiber is resumed (runtime/scheduler.c 1079-1136, 1559-1643,     *)
(* 1902-2190, 2391-2500, 2617-2640, 2737-2999, 3239-3300, 4041-4070,       *)
(* 4560-4572, cilk_fiber.cpp 370-380, 800-983, cilk_fiber-unix.cpp         *)
(* 144-260, cilk-abi.c 570-640, sysdep-unix.c 195-222).                    *)
(*                                                                         *)
(* Between the moment a worker gives up the stack of a frame, under the    *)
(* lock of the frame's parent, and the moment it stands on its scheduling  *)
(* fiber, it still runs on that stack: nobody may resume or free it.  A    *)
(* scheduling fiber has the name of its worker.  A fiber that is not alive *)
(* is in a pool (FiberPool) or has been given back to the thread.  Fibers  *)
(* have no reference counts on Unix.  Frames are those of spawns: called   *)
(* frames and pending frames are in FullFrames.                            *)
(***************************************************************************)
EXTENDS Integers, Sequences, FiniteSets, SequencesExt

CONSTANTS User,       \* the worker of a user thread
          Systems,    \* workers of the runtime
          Thread,     \* the fiber that the user's own stack makes
          Heap,       \* fibers with a stack of their own
          None,       \* no fiber
          MaxFrames,  \* bound on the full frames alive
          MaxAhead,   \* bound on the continuations of a worker
          MaxBinds    \* bound on the times the user enters

Workers == Systems \cup {User}
Fibers == Workers \cup Heap \cup {Thread}
FrameIds == 1..MaxFrames
NullFrame == 0

VARIABLES cur,           \* worker -> the fiber whose stack its thread is on
          step,          \* worker -> where it is
          binds,         \* times the user has entered
          ahead,         \* worker -> continuations on its deque
          frame_ff, next_frame_ff, last_full_frame, fiber_to_free,
          spare,         \* worker -> fiber it has allocated for a steal
          alive,         \* fibers allocated
          fiber_owner, resumable, resume_sf, pending_remove_ref,
          frames,        \* full frames alive
          parent, kids, join_counter, fiber_self, fiber_child,
          synched,       \* frames without CILK_FRAME_UNSYNCHED
          sync_master    \* frames with a sync master, which is the user

local == <<ahead, frame_ff, next_frame_ff, last_full_frame, fiber_to_free, spare>>
fibers == <<alive, fiber_owner, resumable, resume_sf, pending_remove_ref>>
tree == <<frames, parent, kids, join_counter, fiber_self, fiber_child, synched,
          sync_master>>
vars == <<cur, step, binds, local, fibers, tree>>

(* Needed by the proofs: the names are different, and there is room for    *)
(* the user's first frame.                                                 *)
FiberAssumption ==
    /\ MaxFrames \in Nat \ {0}
    /\ User \notin Systems /\ Thread \notin Heap
    /\ Workers \cap (Heap \cup {Thread}) = {} /\ None \notin Fibers

(* A system worker's thread has made its scheduling fiber.                 *)
Init ==
    /\ cur = [w \in Workers |-> IF w = User THEN None ELSE w]
    /\ step = [w \in Workers |-> IF w = User THEN "out" ELSE "sched"]
    /\ binds = 0
    /\ ahead = [w \in Workers |-> 0]
    /\ frame_ff = [w \in Workers |-> NullFrame]
    /\ next_frame_ff = [w \in Workers |-> NullFrame]
    /\ last_full_frame = NullFrame
    /\ fiber_to_free = [w \in Workers |-> None]
    /\ spare = [w \in Workers |-> None]
    /\ alive = Systems
    /\ fiber_owner = [f \in Fibers |-> IF f \in Systems THEN f ELSE None]
    /\ resumable = {} /\ resume_sf = {}
    /\ pending_remove_ref = [f \in Fibers |-> None]
    /\ frames = {} /\ synched = {} /\ sync_master = {}
    /\ parent = [f \in FrameIds |-> NullFrame]
    /\ kids = [f \in FrameIds |-> <<>>]
    /\ join_counter = [f \in FrameIds |-> 0]
    /\ fiber_self = [f \in FrameIds |-> None]
    /\ fiber_child = [f \in FrameIds |-> None]

Goto(w, from, to) == step[w] = from /\ step' = [step EXCEPT ![w] = to]
NewFrame == CHOOSE f \in FrameIds \ frames : \A g \in FrameIds \ frames : f <= g

-----------------------------------------------------------------------------
(* The user binds its thread and gets a scheduling fiber, once, whose      *)
(* procedure finds its worker in the owner of the fiber.                   *)
AllocateFromThread == alive' = alive \cup {Thread, User}
GiveToUser ==
    fiber_owner' = [f \in Fibers |->
        IF f = Thread \/ (f = User /\ User \notin alive) THEN User ELSE fiber_owner[f]]

Bind ==
    /\ frames = {} /\ binds < MaxBinds
    /\ Goto(User, "out", "user")
    /\ binds' = binds + 1
    /\ cur' = [cur EXCEPT ![User] = Thread]
    /\ AllocateFromThread /\ GiveToUser
    /\ frames' = {NewFrame} /\ synched' = {NewFrame}
    /\ frame_ff' = [frame_ff EXCEPT ![User] = NewFrame]
    /\ join_counter' = [join_counter EXCEPT ![NewFrame] = 1]
    /\ fiber_self' = [fiber_self EXCEPT ![NewFrame] = Thread]
    /\ UNCHANGED <<ahead, next_frame_ff, last_full_frame, fiber_to_free, spare,
                   resumable, resume_sf, pending_remove_ref,
                   parent, kids, fiber_child, sync_master>>

(* User code that enters the runtime for no frame and no fiber.            *)
Spawn(w) ==
    /\ step[w] = "user" /\ ahead[w] < MaxAhead
    /\ ahead' = [ahead EXCEPT ![w] = @ + 1]
    /\ UNCHANGED <<cur, step, binds, frame_ff, next_frame_ff, last_full_frame,
                   fiber_to_free, spare, fibers, tree>>

ReturnAttached(w) ==
    /\ step[w] = "user" /\ ahead[w] > 0
    /\ ahead' = [ahead EXCEPT ![w] = @ - 1]
    /\ UNCHANGED <<cur, step, binds, frame_ff, next_frame_ff, last_full_frame,
                   fiber_to_free, spare, fibers, tree>>

-----------------------------------------------------------------------------
(* A thief gets a fiber first; without a frame to steal it goes back.      *)
(* Fibers in the pools are alike: which one it gets does not matter.       *)
AllocateFiber(w) ==
    /\ Goto(w, "sched", "steal") /\ next_frame_ff[w] = NullFrame
    /\ Heap \ alive # {}
    /\ LET x == CHOOSE y \in Heap \ alive : TRUE
       IN  alive' = alive \cup {x} /\ spare' = [spare EXCEPT ![w] = x]
    /\ UNCHANGED <<cur, binds, ahead, frame_ff, next_frame_ff, last_full_frame,
                   fiber_to_free, fiber_owner, resumable, resume_sf,
                   pending_remove_ref, tree>>

FailToSteal(w) ==
    /\ Goto(w, "steal", "sched")
    /\ alive' = alive \ {spare[w]}
    /\ spare' = [spare EXCEPT ![w] = None]
    /\ UNCHANGED <<cur, binds, ahead, frame_ff, next_frame_ff, last_full_frame,
                   fiber_to_free, fiber_owner, resumable, resume_sf,
                   pending_remove_ref, tree>>

(* The thief leaves the victim a new child, which keeps the stack, and     *)
(* takes the frame, which gets the new fiber.                              *)
Steal(w, victim) ==
    LET f == frame_ff[victim]
        c == NewFrame
    IN  /\ Goto(w, "steal", "sched")
        /\ victim # w /\ step[victim] = "user" /\ ahead[victim] > 0
        /\ frames # FrameIds
        /\ ahead' = [ahead EXCEPT ![victim] = @ - 1]
        /\ frames' = frames \cup {c}
        /\ parent' = [parent EXCEPT ![c] = f]
        /\ kids' = [kids EXCEPT ![f] = Append(@, c)]
        /\ join_counter' = [join_counter EXCEPT ![f] = @ + 1, ![c] = 1]
        /\ fiber_self' = [fiber_self EXCEPT ![f] = spare[w], ![c] = fiber_self[f]]
        /\ synched' = (synched \ {f}) \cup {c}
        /\ IF victim = User /\ last_full_frame = NullFrame
           THEN last_full_frame' = f /\ sync_master' = sync_master \cup {f}
           ELSE UNCHANGED <<last_full_frame, sync_master>>
        /\ frame_ff' = [frame_ff EXCEPT ![victim] = c]
        /\ next_frame_ff' = [next_frame_ff EXCEPT ![w] = f]
        /\ spare' = [spare EXCEPT ![w] = None]
        /\ UNCHANGED <<cur, binds, fiber_to_free, fibers, fiber_child>>

-----------------------------------------------------------------------------
(* A thread goes from one fiber to another, which is resumed where it was  *)
(* left, or started if it is new.  The fiber left passes its owner on.  It *)
(* can be resumed, or it is freed by the other, once nobody is on it.      *)
PassOwner(from, to) ==
    fiber_owner' = [fiber_owner EXCEPT ![to] = fiber_owner[from], ![from] = None]

ResumeOther(w, other, suspended) ==
    /\ cur' = [cur EXCEPT ![w] = other]
    /\ resumable' = suspended \ {other}

SuspendSelfAndResumeOther(w, self, other) ==
    /\ PassOwner(self, other)
    /\ ResumeOther(w, other, resumable \cup {self})
    /\ UNCHANGED pending_remove_ref

RemoveReferenceFromSelfAndResumeOther(w, self, other) ==
    /\ pending_remove_ref' = [pending_remove_ref EXCEPT ![other] = self]
    /\ PassOwner(self, other)
    /\ ResumeOther(w, other, resumable)

(* The scheduler has a frame. *)
ResumeUserCode(w) ==
    LET f == next_frame_ff[w]
        other == fiber_self[f]
    IN  /\ f # NullFrame
        /\ Goto(w, "sched", IF other \in resumable THEN "resumed" ELSE "started")
        /\ SuspendSelfAndResumeOther(w, w, other)
        /\ frame_ff' = [frame_ff EXCEPT ![w] = f]
        /\ next_frame_ff' = [next_frame_ff EXCEPT ![w] = NullFrame]
        /\ resume_sf' = (resume_sf \ {w}) \cup {other}
        /\ UNCHANGED <<binds, ahead, last_full_frame, fiber_to_free, spare, alive, tree>>

(* On a new fiber its procedure is run, which takes the frame it was       *)
(* resumed for; on another the frame is left with the fiber.               *)
TakeResumeSf(x) == resume_sf' = resume_sf \ {x}

Run(w) == Goto(w, "started", "user") /\ TakeResumeSf(cur[w])

ResumeAfterSwitch(w) == Goto(w, "resumed", "user") /\ UNCHANGED resume_sf

EnterUserCode(w) ==
    /\ Run(w) \/ ResumeAfterSwitch(w)
    /\ UNCHANGED <<cur, binds, local, alive, fiber_owner, resumable,
                   pending_remove_ref, tree>>

-----------------------------------------------------------------------------
(* The worker gives up its frame.  A child that finds its parent stolen    *)
(* passes its fiber up if no child is left of it and none has passed its   *)
(* own, under the parent's lock; a frame that waits at its sync has the    *)
(* fiber of its last thief, which is not needed any more.                  *)
IsLeftmost(f) == Head(kids[parent[f]]) = f /\ fiber_child[parent[f]] = None

Unlinked(p, f) ==
    LET i == CHOOSE j \in DOMAIN kids[p] : kids[p][j] = f
    IN  RemoveAt(kids[p], i)

ReturnFromSpawn(w) ==
    LET f == frame_ff[w]
        p == parent[f]
    IN  /\ Goto(w, "user", "returning")
        /\ ahead[w] = 0 /\ f \in synched /\ p # NullFrame
        /\ IF IsLeftmost(f)
           THEN /\ fiber_child' = [fiber_child EXCEPT ![p] = fiber_self[f]]
                /\ UNCHANGED fiber_to_free
           ELSE /\ fiber_to_free' = [fiber_to_free EXCEPT ![w] = fiber_self[f]]
                /\ UNCHANGED fiber_child
        /\ fiber_self' = [fiber_self EXCEPT ![f] = None]
        /\ kids' = [kids EXCEPT ![p] = Unlinked(p, f)]
        /\ UNCHANGED <<cur, binds, ahead, frame_ff, next_frame_ff, last_full_frame,
                       spare, fibers, frames, parent, join_counter, synched, sync_master>>

Sync(w) ==
    LET f == frame_ff[w]
    IN  /\ Goto(w, "user", "syncing")
        /\ ahead[w] = 0 /\ f \notin synched
        /\ fiber_to_free' = [fiber_to_free EXCEPT ![w] = fiber_self[f]]
        /\ fiber_self' = [fiber_self EXCEPT ![f] = None]
        /\ UNCHANGED <<cur, binds, ahead, frame_ff, next_frame_ff, last_full_frame,
                       spare, fibers, frames, parent, kids, join_counter,
                       fiber_child, synched, sync_master>>

(* longjmp_into_runtime: which fiber it is on the worker finds out anew,   *)
(* without a lock.  A fiber to be freed is freed by the scheduling fiber.  *)
Leaving(w) == IF fiber_to_free[w] # None THEN fiber_to_free[w]
              ELSE fiber_child[parent[frame_ff[w]]]

LongjmpIntoRuntime(w) ==
    LET current_fiber == Leaving(w)
    IN  /\ \/ Goto(w, "returning", "do_return")
           \/ Goto(w, "syncing", "do_sync")
        /\ resume_sf' = resume_sf \ {current_fiber}
        /\ IF fiber_to_free[w] # None
           THEN RemoveReferenceFromSelfAndResumeOther(w, current_fiber, w)
           ELSE SuspendSelfAndResumeOther(w, current_fiber, w)
        /\ fiber_to_free' = [fiber_to_free EXCEPT ![w] = None]
        /\ UNCHANGED <<binds, ahead, frame_ff, next_frame_ff, last_full_frame, spare,
                       alive, tree>>

(* On the scheduling fiber: the last to arrive at the sync gives the frame *)
(* its leftmost child's fiber and resumes it, on the user if it is the     *)
(* oldest one.                                                             *)
ProvablyGoodSteal(w, f, join) ==
    IF join[f] > 1
    THEN /\ join_counter' = [join EXCEPT ![f] = @ - 1]
         /\ UNCHANGED <<fiber_self, fiber_child, synched, sync_master,
                        last_full_frame, next_frame_ff>>
    ELSE /\ fiber_self' = [fiber_self EXCEPT ![f] = fiber_child[f]]
         /\ fiber_child' = [fiber_child EXCEPT ![f] = None]
         /\ synched' = synched \cup {f}
         /\ sync_master' = sync_master \ {f}
         /\ last_full_frame' = IF f \in sync_master THEN NullFrame ELSE last_full_frame
         /\ LET runner == IF f \in sync_master THEN User ELSE w
            IN  next_frame_ff' = [next_frame_ff EXCEPT ![runner] = f]
         /\ join_counter' = join

DoSync(w) ==
    /\ Goto(w, "do_sync", "switched")
    /\ ProvablyGoodSteal(w, frame_ff[w], join_counter)
    /\ frame_ff' = [frame_ff EXCEPT ![w] = NullFrame]
    /\ UNCHANGED <<cur, binds, ahead, fiber_to_free, spare, fibers, frames, parent, kids>>

DoReturnFromSpawn(w) ==
    LET f == frame_ff[w]
    IN  /\ Goto(w, "do_return", "switched")
        /\ ProvablyGoodSteal(w, parent[f], [join_counter EXCEPT ![f] = @ - 1])
        /\ frames' = frames \ {f}
        /\ frame_ff' = [frame_ff EXCEPT ![w] = NullFrame]
        /\ parent' = [parent EXCEPT ![f] = NullFrame]
        /\ UNCHANGED <<cur, binds, ahead, fiber_to_free, spare, fibers, kids>>

EnterRuntimeTransition(w) == DoSync(w) \/ DoReturnFromSpawn(w)

RemoveReference(w) ==
    LET freed == pending_remove_ref[w]
    IN  /\ Goto(w, "switched", "sched")
        /\ alive' = alive \ {freed}
        /\ resumable' = resumable \ {freed}
        /\ pending_remove_ref' = [pending_remove_ref EXCEPT ![w] = None]
        /\ UNCHANGED <<cur, binds, local, fiber_owner, resume_sf, tree>>

-----------------------------------------------------------------------------
(* The initial frame returns, and the fiber that stood for the thread's    *)
(* own stack is given up.  At the end the workers do the same, and the     *)
(* user's scheduling fiber is freed with its worker.                       *)
ReturnFromInitial ==
    LET f == frame_ff[User]
    IN  /\ Goto(User, "user", "out")
        /\ ahead[User] = 0 /\ f \in synched /\ parent[f] = NullFrame
        /\ frame_ff' = [frame_ff EXCEPT ![User] = NullFrame]
        /\ cur' = [cur EXCEPT ![User] = None]
        /\ alive' = alive \ {fiber_self[f]}
        /\ fiber_owner' = [fiber_owner EXCEPT ![fiber_self[f]] = None]
        /\ resume_sf' = resume_sf \ {fiber_self[f]}
        /\ fiber_self' = [fiber_self EXCEPT ![f] = None]
        /\ frames' = frames \ {f} /\ synched' = synched \ {f}
        /\ join_counter' = [join_counter EXCEPT ![f] = 0]
        /\ UNCHANGED <<binds, ahead, next_frame_ff, last_full_frame, fiber_to_free,
                       spare, resumable, pending_remove_ref, parent, kids,
                       fiber_child, sync_master>>

FreeSchedulingFiber(w, from) ==
    /\ Goto(w, from, "gone") /\ binds = MaxBinds
    /\ cur' = [cur EXCEPT ![w] = None]
    /\ alive' = alive \ {w}
    /\ resumable' = resumable \ {w}
    /\ fiber_owner' = [fiber_owner EXCEPT ![w] = None]
    /\ UNCHANGED <<binds, local, resume_sf, pending_remove_ref, tree>>

Stop(w) == step[User] = "out" /\ FreeSchedulingFiber(w, "sched")
DestroyWorker ==
    (\A w \in Systems : step[w] = "gone") /\ FreeSchedulingFiber(User, "out")

(* The scheduling fiber's loop: what was put off until after the switch,   *)
(* then frames to resume or to steal.                                      *)
WorkerScheduler(w) ==
    \/ EnterRuntimeTransition(w) \/ RemoveReference(w)
    \/ AllocateFiber(w) \/ FailToSteal(w) \/ \E v \in Workers : Steal(w, v)
    \/ ResumeUserCode(w)

Work(w) ==
    \/ WorkerScheduler(w)
    \/ EnterUserCode(w) \/ Spawn(w) \/ ReturnAttached(w)
    \/ ReturnFromSpawn(w) \/ Sync(w) \/ LongjmpIntoRuntime(w)

Next == \/ \E w \in Workers : Work(w)
        \/ Bind \/ ReturnFromInitial \/ DestroyWorker
        \/ \E w \in Systems : Stop(w)

Spec == Init /\ [][Next]_vars

-----------------------------------------------------------------------------
Running == {w \in Workers : step[w] \notin {"out", "gone"}}
OnScheduler == {"sched", "steal", "do_sync", "do_return", "switched"}

(* The places that hold a fiber; each fiber alive is in exactly one.  A    *)
(* scheduling fiber is held by its worker.                                 *)
Holds(x) ==
    {<<"self", f>> : f \in {g \in frames : fiber_self[g] = x}}
        \cup {<<"child", f>> : f \in {g \in frames : fiber_child[g] = x}}
        \cup {<<"worker", w>> : w \in {v \in Workers :
                 x \in {v, spare[v], fiber_to_free[v], pending_remove_ref[v]}}}

(* No stack is used by two workers, none is freed while a thread is on it  *)
(* or a frame will need it, and none is lost; the code's assertions hold.  *)
FibersHaveOneUser ==
    /\ \A v, w \in Running : cur[v] = cur[w] => v = w
    /\ \A w \in Running :
          /\ cur[w] \in alive \ resumable /\ fiber_owner[cur[w]] = w
          /\ (step[w] \in OnScheduler) <=> (cur[w] = w)
    /\ \A x \in alive : Cardinality(Holds(x)) = 1
    /\ \A x \in Heap \ alive : Holds(x) = {} /\ x \notin resumable
    /\ (\A w \in Workers : step[w] = "gone") => alive = {}

(* A worker that leaves user code finds the fiber it is on, and one that   *)
(* enters it finds the stack on which its frame can go on: a stolen frame  *)
(* on a new fiber, a synched one where its first child left it, and the    *)
(* user's oldest frame on the thread's own stack.                          *)
SwitchesAreRight ==
    \A w \in Workers :
        /\ step[w] \in {"returning", "syncing"} =>
              /\ Leaving(w) = cur[w] /\ fiber_self[frame_ff[w]] = None
              /\ fiber_to_free[w] # None => fiber_owner[w] = None
        /\ step[w] \in {"started", "resumed", "user"} => fiber_self[frame_ff[w]] = cur[w]
        /\ step[w] = "started" => frame_ff[w] \notin synched /\ cur[w] \in Heap
        /\ step[w] = "resumed" => frame_ff[w] \in synched
        /\ step[w] \in {"sched", "steal"} /\ next_frame_ff[w] # NullFrame =>
              fiber_self[next_frame_ff[w]] \notin resume_sf
        /\ step[w] = "do_sync" => fiber_self[frame_ff[w]] = None
        /\ step[w] = "user" /\ frame_ff[w] \in synched /\ parent[frame_ff[w]] = NullFrame =>
              w = User /\ cur[w] = Thread

FibersAreRight == FibersHaveOneUser /\ SwitchesAreRight
=============================================================================

----------------------------- MODULE FullFrames -----------------------------
(***************************************************************************)
(* Full frames: the tree that steals make of a Cilk computation, its join  *)
(* counters, and who runs which frame (runtime/scheduler.c 238-249,        *)
(* 430-494, 663-1078, 1572-1643, 1719-1756, 2243-2289, 2403-2450,          *)
(* 2737-3240, runtime/cilk-abi.c 238-276 and 588-611, local_state.c 55-79).*)
(*                                                                         *)
(* A worker runs user code in a full frame, and on its deque are the       *)
(* continuations spawned from there, each with the calls between it and    *)
(* the next older one.  A steal turns those calls into full frames.  A     *)
(* frame's join counter counts its children and the worker that runs it;   *)
(* whoever brings it to zero resumes the frame after its sync.             *)
(*                                                                         *)
(* An operation under one lock is one step.  THE shows that a steal is     *)
(* atomic to its victim, Dataflow when a pending frame becomes ready.      *)
(***************************************************************************)
EXTENDS Naturals, FiniteSets, Sequences, SequencesExt

CONSTANTS Users,      \* workers that user threads are bound to
          Systems,    \* workers of the runtime
          Nobody,     \* no worker
          MaxFrames,  \* bound on the number of full frames alive
          MaxCalls,   \* bound on the calls between two spawns
          MaxDeque,   \* bound on the continuations on a deque
          FibersRunOut \* the limit on stacks may be reached

ASSUME FramesAssumption ==
    /\ IsFiniteSet(Users) /\ IsFiniteSet(Systems)
    /\ Users \cap Systems = {} /\ Nobody \notin Users \cup Systems
    /\ MaxFrames \in Nat /\ MaxCalls \in Nat \ {0} /\ MaxDeque \in Nat
    /\ FibersRunOut \in BOOLEAN

Workers == Users \cup Systems
Frames == 1..MaxFrames
NoFrame == 0

VARIABLES kind,        \* frame -> "free", "initial", "call" (is_call_child), "spawn"
          parent,      \* frame -> its parent
          kids,        \* frame -> the children on its list, whatever their order
          join,        \* frame -> join_counter
          unsynched,   \* frame -> CILK_FRAME_UNSYNCHED of its stack frame
          sync_master, \* frame -> the only worker that may cross its sync
          home,        \* frame -> team of a pending frame, thread of an initial one
          pending,     \* the frames whose dependences are not met
          ready_list,  \* worker -> pending frames that are ready
          pc,          \* worker -> what it is doing
          frame_ff, next_frame_ff, last_full_frame, team,  \* worker -> local state
          held,        \* worker -> the frame its scheduling function works on
          deque,       \* worker -> the frames per continuation, oldest first
          calls        \* worker -> stack frames since the newest continuation

tree == <<kind, parent, kids, join, unsynched, sync_master, home, pending>>
ownership == <<frame_ff, next_frame_ff, held>>
stack == <<deque, calls>>
vars == <<tree, ready_list, pc, ownership, last_full_frame, team, stack>>

Init ==
    /\ kind = [f \in Frames |-> "free"]
    /\ parent = [f \in Frames |-> NoFrame]
    /\ kids = [f \in Frames |-> {}]
    /\ join = [f \in Frames |-> 0]
    /\ unsynched = [f \in Frames |-> FALSE]
    /\ sync_master = [f \in Frames |-> Nobody]
    /\ home = [f \in Frames |-> Nobody]
    /\ pending = {}
    /\ ready_list = [w \in Workers |-> {}]
    /\ pc = [w \in Workers |-> IF w \in Users THEN "unbound" ELSE "search"]
    /\ frame_ff = [w \in Workers |-> NoFrame]
    /\ next_frame_ff = [w \in Workers |-> NoFrame]
    /\ last_full_frame = [w \in Workers |-> NoFrame]
    /\ team = [w \in Workers |-> Nobody]
    /\ held = [w \in Workers |-> NoFrame]
    /\ deque = [w \in Workers |-> <<>>]
    /\ calls = [w \in Workers |-> 0]

Goto(w, from, to) == pc[w] = from /\ pc' = [pc EXCEPT ![w] = to]
Free == {f \in Frames : kind[f] = "free"}

(* The worker executes the stack frame of its full frame; or, if the full  *)
(* frame is a spawned one, the helper that called the spawned function.    *)
AtFullFrame(w) == pc[w] = "work" /\ deque[w] = <<>> /\ calls[w] = 1
InHelper(w) == calls[w] = 1 /\ (deque[w] # <<>> \/ kind[frame_ff[w]] = "spawn")

(* Variants of the definitions below with a plausible mistake in each:     *)
(* what the mutation runs put in their place.  No specification uses them. *)
Bug_MasterOfEveryLoot(v) == v \in Users
Bug_VictimStaysCounted(first, above, loot, child) ==
    [f \in Frames |-> join[f] + (IF f \in above THEN 1 ELSE 0)
                              + (IF f \in {loot, child} THEN 1 ELSE 0)]
Bug_LastOfTwo(f) == join[f] <= 2
Bug_ResumeHere(w, f) == w
Bug_OldTeam(w, victim) == team[w]
Bug_KeepsFrame(w) == frame_ff

(* push_child and unlink_child.  The list is in the order of the spawns;   *)
(* only its members matter here (Reducers is about their order).           *)
PushChild(f, c) == kids[f] \cup {c}
UnlinkChild(f, c) == [kids EXCEPT ![f] = @ \ {c}]

IncJoin(f) == [join EXCEPT ![f] = @ + 1]
DecJoin(f) == [join EXCEPT ![f] = @ - 1]

(* The one-element queue through which a worker is told what to run next.  *)
(* Pushing counts the worker among the frame's references (the caller sets *)
(* join, which it may have lowered first), popping does not.               *)
PushNextFrame(w, f) == next_frame_ff' = [next_frame_ff EXCEPT ![w] = f]
PopNextFrame(w) == next_frame_ff' = [next_frame_ff EXCEPT ![w] = NoFrame]

(* The worker owns the frame and thieves may steal from it. *)
MakeRunnable(w, f) == frame_ff' = [frame_ff EXCEPT ![w] = f]

(* A user worker that no longer runs the oldest frame of its computation   *)
(* is to resume it: the next frame stolen from it gets a sync master.      *)
NeedsMaster(victim) == victim \in Users /\ last_full_frame[victim] = NoFrame

SetSyncMaster(victim, f) ==
    IF NeedsMaster(victim)
    THEN /\ sync_master' = [sync_master EXCEPT ![f] = victim]
         /\ last_full_frame' = [last_full_frame EXCEPT ![victim] = f]
    ELSE UNCHANGED <<sync_master, last_full_frame>>

UnsetSyncMaster(master, f) ==
    IF sync_master[f] # Nobody
    THEN /\ sync_master' = [sync_master EXCEPT ![f] = Nobody]
         /\ last_full_frame' = [last_full_frame EXCEPT ![master] = NoFrame]
    ELSE UNCHANGED <<sync_master, last_full_frame>>

(* A frame that dies leaves nothing behind: what is written over its       *)
(* memory is not looked at.                                                *)
Destroy(f) ==
    /\ kind' = [kind EXCEPT ![f] = "free"]
    /\ home' = [home EXCEPT ![f] = Nobody]

-----------------------------------------------------------------------------
(* A user thread is bound to a worker and makes a full frame for itself. *)
Bind(w) ==
    \E f \in Free :
        /\ w \in Users
        /\ Goto(w, "unbound", "work")
        /\ \A g \in Free : f <= g
        /\ kind' = [kind EXCEPT ![f] = "initial"]
        /\ join' = [join EXCEPT ![f] = 1]
        /\ home' = [home EXCEPT ![f] = w]
        /\ MakeRunnable(w, f)
        /\ team' = [team EXCEPT ![w] = w]
        /\ calls' = [calls EXCEPT ![w] = 1]
        /\ UNCHANGED <<parent, kids, unsynched, sync_master, pending, ready_list,
                       next_frame_ff, held, last_full_frame, deque>>

(* The initial frame returns (c_return_from_initial) and the thread leaves.*)
ReturnFromInitial(w) ==
    LET f == frame_ff[w]
    IN  /\ AtFullFrame(w) /\ kind[f] = "initial" /\ ~unsynched[f]
        /\ Goto(w, "work", "unbound")
        /\ frame_ff' = [frame_ff EXCEPT ![w] = NoFrame]
        /\ join' = [join EXCEPT ![f] = 0]
        /\ Destroy(f)
        /\ calls' = [calls EXCEPT ![w] = 0]
        /\ UNCHANGED <<parent, kids, unsynched, sync_master, pending, ready_list,
                       next_frame_ff, held, last_full_frame, team, deque>>

(* User code that touches no full frame: calls and returns, spawns, and    *)
(* returns from a spawn whose parent was not stolen.                       *)
Call(w) ==
    /\ pc[w] = "work" /\ calls[w] < MaxCalls
    /\ calls' = [calls EXCEPT ![w] = @ + 1]
    /\ UNCHANGED <<tree, ready_list, pc, ownership, last_full_frame, team, deque>>

Return(w) ==
    /\ pc[w] = "work" /\ calls[w] > 1
    /\ calls' = [calls EXCEPT ![w] = @ - 1]
    /\ UNCHANGED <<tree, ready_list, pc, ownership, last_full_frame, team, deque>>

Spawn(w) ==
    /\ pc[w] = "work" /\ ~InHelper(w) /\ Len(deque[w]) < MaxDeque
    /\ deque' = [deque EXCEPT ![w] = Append(@, calls[w])]
    /\ calls' = [calls EXCEPT ![w] = 1]
    /\ UNCHANGED <<tree, ready_list, pc, ownership, last_full_frame, team>>

ReturnAttached(w) ==
    /\ pc[w] = "work" /\ deque[w] # <<>> /\ calls[w] = 1
    /\ deque' = [deque EXCEPT ![w] = Front(@)]
    /\ calls' = [calls EXCEPT ![w] = Last(deque[w])]
    /\ UNCHANGED <<tree, ready_list, pc, ownership, last_full_frame, team>>

-----------------------------------------------------------------------------
(* A dataflow spawn that must wait for an earlier child: detach_pending    *)
(* adds a child to the parent that no worker runs yet.  The parent may     *)
(* find, at the end of the issue, that the child is ready after all.       *)
SpawnPending(w) ==
    \E p \in Free :
        LET f == frame_ff[w]
        IN  /\ AtFullFrame(w) /\ ~InHelper(w)
            /\ \E c \in kids[f] : kind[c] = "spawn"
            /\ \A g \in Free : p <= g
            /\ kind' = [kind EXCEPT ![p] = "spawn"]
            /\ parent' = [parent EXCEPT ![p] = f]
            /\ home' = [home EXCEPT ![p] = team[w]]
            /\ kids' = [kids EXCEPT ![f] = PushChild(f, p)]
            /\ join' = IncJoin(f)
            /\ unsynched' = [unsynched EXCEPT ![f] = TRUE]
            /\ \/ pending' = pending \cup {p} /\ UNCHANGED ready_list
               \/ ready_list' = [ready_list EXCEPT ![w] = @ \cup {p}] /\ UNCHANGED pending
            /\ UNCHANGED <<sync_master, pc, ownership, last_full_frame, team, stack>>

(* A task that ends releases some of the siblings that wait for it, on the *)
(* ready list of the worker that ran it.                                   *)
Waiting(f) == kids[parent[f]] \cap pending

Release(w) ==
    /\ AtFullFrame(w) /\ kind[frame_ff[w]] = "spawn"
    /\ \E ps \in SUBSET Waiting(frame_ff[w]) \ {{}} :
        /\ pending' = pending \ ps
        /\ ready_list' = [ready_list EXCEPT ![w] = @ \cup ps]
    /\ UNCHANGED <<kind, parent, kids, join, unsynched, sync_master, home, pc,
                   ownership, last_full_frame, team, stack>>

(* What still waits, waits for another sibling (Dataflow,                  *)
(* NobodyWaitsInVain).                                                     *)
HasReleased(f) ==
    Waiting(f) # {} => \E c \in kids[parent[f]] \ (pending \cup {f}) : kind[c] = "spawn"

-----------------------------------------------------------------------------
(* The frame loses a reference; the last one resumes it after its sync, on *)
(* its sync master if it has one, and then that worker's team is at rest.  *)
LastReference(f) == join[f] = 1
ResumedBy(w, f) == IF sync_master[f] = Nobody THEN w ELSE team[w]

ProvablyGoodSteal(w, f) ==
    IF ~LastReference(f)
    THEN /\ join' = DecJoin(f)
         /\ UNCHANGED <<unsynched, sync_master, last_full_frame, next_frame_ff>>
    ELSE LET master == ResumedBy(w, f)
         IN  /\ unsynched' = [unsynched EXCEPT ![f] = FALSE]
             /\ UnsetSyncMaster(master, f)
             /\ PushNextFrame(master, f)
             /\ UNCHANGED join

FrameLeft(w) == [frame_ff EXCEPT ![w] = NoFrame]

(* __cilkrts_c_sync: the worker leaves the frame to the scheduler, ...     *)
Sync(w) ==
    /\ AtFullFrame(w) /\ unsynched[frame_ff[w]]
    /\ Goto(w, "work", "sync")
    /\ held' = [held EXCEPT ![w] = frame_ff[w]]
    /\ frame_ff' = FrameLeft(w)
    /\ calls' = [calls EXCEPT ![w] = 0]
    /\ UNCHANGED <<tree, ready_list, next_frame_ff, last_full_frame, team, deque>>

(* ... and do_sync gives it up, or resumes it.                             *)
DoSync(w) ==
    /\ Goto(w, "sync", "search")
    /\ ProvablyGoodSteal(w, held[w])
    /\ held' = [held EXCEPT ![w] = NoFrame]
    /\ UNCHANGED <<kind, parent, kids, home, pending, ready_list, frame_ff, team, stack>>

(* A spawned frame returns to a parent that was stolen: its views and      *)
(* exceptions are spliced out and it leaves the list of children, ...      *)
LoseReturn(w) ==
    LET f == frame_ff[w]
    IN  /\ AtFullFrame(w) /\ kind[f] = "spawn" /\ HasReleased(f)
        /\ Goto(w, "work", "return")
        /\ kids' = UnlinkChild(parent[f], f)
        /\ join' = DecJoin(f)
        /\ held' = [held EXCEPT ![w] = f]
        /\ frame_ff' = [frame_ff EXCEPT ![w] = NoFrame]
        /\ calls' = [calls EXCEPT ![w] = 0]
        /\ UNCHANGED <<kind, parent, unsynched, sync_master, home, pending, ready_list,
                       next_frame_ff, last_full_frame, team, deque>>

(* ... then do_return_from_spawn drops the parent's reference.             *)
DoReturnFromSpawn(w) ==
    LET f == held[w]
    IN  /\ Goto(w, "return", "search")
        /\ ProvablyGoodSteal(w, parent[f])
        /\ Destroy(f)
        /\ parent' = [parent EXCEPT ![f] = NoFrame]
        /\ held' = [held EXCEPT ![w] = NoFrame]
        /\ UNCHANGED <<kids, pending, ready_list, frame_ff, team, stack>>

(* A called frame returns (__cilkrts_return): the worker goes on with the  *)
(* parent, whose spawned children may still run.                           *)
ReturnFromCall(w) ==
    LET f == frame_ff[w]
        p == parent[f]
    IN  /\ AtFullFrame(w) /\ kind[f] = "call" /\ ~unsynched[f]
        /\ join' = DecJoin(f)
        /\ kids' = UnlinkChild(p, f)
        /\ Destroy(f)
        /\ parent' = [parent EXCEPT ![f] = NoFrame]
        /\ MakeRunnable(w, p)
        /\ UNCHANGED <<unsynched, sync_master, pending, ready_list, pc, next_frame_ff, held,
                       last_full_frame, team, stack>>

-----------------------------------------------------------------------------
(* The scheduling loop runs the frame on the worker's one-element queue,   *)
(* ...                                                                     *)
Resume(w) ==
    /\ next_frame_ff[w] # NoFrame
    /\ Goto(w, "search", "work")
    /\ MakeRunnable(w, next_frame_ff[w])
    /\ PopNextFrame(w)
    /\ calls' = [calls EXCEPT ![w] = 1]
    /\ UNCHANGED <<tree, ready_list, held, last_full_frame, team, deque>>

(* ... or finds none; without work, a system worker leaves its team.  It   *)
(* looks at its own ready list, if it can have a fiber, and then elsewhere.*)
FindQueueEmpty(w) ==
    /\ next_frame_ff[w] = NoFrame
    /\ \/ ready_list[w] # {} /\ Goto(w, "search", "own")
       \/ (ready_list[w] = {} \/ FibersRunOut) /\ Goto(w, "search", "random")
    /\ team' = IF w \in Systems /\ ready_list[w] = {}
               THEN [team EXCEPT ![w] = Nobody] ELSE team
    /\ UNCHANGED <<tree, ready_list, ownership, last_full_frame, stack>>

(* steal_from_ready_list, by any worker and from any. *)
StealReady(w, victim) ==
    \E p \in ready_list[victim] :
        /\ ready_list' = [ready_list EXCEPT ![victim] = @ \ {p}]
        /\ team' = [team EXCEPT ![w] = home[p]]
        /\ SetSyncMaster(victim, p)
        /\ join' = IncJoin(p)
        /\ PushNextFrame(w, p)
        /\ UNCHANGED <<kind, parent, kids, unsynched, home, pending, frame_ff, held, stack>>

(* own_ready_list_steal: a thief may have been there first. *)
StealOwn(w) ==
    /\ Goto(w, "own", "search")
    /\ StealReady(w, w)

NothingOwn(w) ==
    /\ ready_list[w] = {}
    /\ Goto(w, "own", "random")
    /\ UNCHANGED <<tree, ready_list, ownership, last_full_frame, team, stack>>

(* random_steal: a user worker does not leave its team. *)
MayStealFrom(w, victim) == w # victim /\ (w \in Users => team[victim] = w)

StealReadyFrom(w, victim) ==
    /\ MayStealFrom(w, victim)
    /\ Goto(w, "random", "search")
    /\ StealReady(w, victim)

(* The victim leaves the parent, every frame gains a child (make_child),   *)
(* the thief runs the loot and the victim the child.                       *)
DetachedJoin(first, above, loot, child) ==
    [f \in Frames |-> join[f] - (IF f = first THEN 1 ELSE 0)
                              + (IF f \in above THEN 1 ELSE 0)
                              + (IF f \in {loot, child} THEN 1 ELSE 0)]

(* detach_for_steal: the calls of the oldest continuation become full      *)
(* frames, each the child of the one before (unroll_call_stack); the thief *)
(* takes the youngest, the loot, and the victim goes on in a new child of  *)
(* the loot.                                                               *)
Detach(w, victim, line) ==
    LET n == Len(line)
        loot == line[n - 1]
        child == line[n]
        nth(f) == CHOOSE i \in 1..n : line[i] = f
        new == {line[i] : i \in 2..n}
        above == {line[i] : i \in 1..(n - 1)}
    IN  /\ kind' = [f \in Frames |-> IF f = child THEN "spawn"
                                     ELSE IF f \in new THEN "call" ELSE kind[f]]
        /\ parent' = [f \in Frames |-> IF f \in new THEN line[nth(f) - 1] ELSE parent[f]]
        /\ kids' = [f \in Frames |-> IF f \in above THEN PushChild(f, line[nth(f) + 1])
                                     ELSE kids[f]]
        /\ join' = DetachedJoin(line[1], above, loot, child)
        /\ unsynched' = [unsynched EXCEPT ![loot] = TRUE]
        /\ SetSyncMaster(victim, loot)
        /\ PushNextFrame(w, loot)
        /\ MakeRunnable(victim, child)

(* The victim's frame and new ones for the calls of a continuation.  The   *)
(* new ones are those with the lowest numbers: only their order matters.   *)
Lines(first, n) ==
    {line \in [1..n -> Frames] :
        /\ line[1] = first
        /\ \A i \in 2..n : line[i] \in Free /\ \A f \in Free :
              f < line[i] => \E j \in 2..(i - 1) : line[j] = f
        /\ \A i, j \in 1..n : line[i] = line[j] => i = j}

JoinTeam(w, victim) == team[victim]

Steal(w, victim) ==
    /\ MayStealFrom(w, victim)
    /\ ready_list[victim] = {} /\ pc[victim] = "work" /\ deque[victim] # <<>>
    /\ Goto(w, "random", "search")
    /\ \E line \in Lines(frame_ff[victim], Head(deque[victim]) + 1) : Detach(w, victim, line)
    /\ team' = [team EXCEPT ![w] = JoinTeam(w, victim)]
    /\ deque' = [deque EXCEPT ![victim] = Tail(@)]
    /\ UNCHANGED <<home, pending, ready_list, held, calls>>

StealNothing(w) ==
    /\ Goto(w, "random", "search")
    /\ UNCHANGED <<tree, ready_list, ownership, last_full_frame, team, stack>>

-----------------------------------------------------------------------------
WorkerStep(w) ==
    \/ Bind(w) \/ ReturnFromInitial(w)
    \/ Call(w) \/ Return(w) \/ Spawn(w) \/ ReturnAttached(w)
    \/ SpawnPending(w) \/ Release(w)
    \/ Sync(w) \/ DoSync(w) \/ LoseReturn(w) \/ DoReturnFromSpawn(w) \/ ReturnFromCall(w)
    \/ Resume(w) \/ FindQueueEmpty(w) \/ StealOwn(w) \/ NothingOwn(w) \/ StealNothing(w)
    \/ \E victim \in Workers : StealReadyFrom(w, victim) \/ Steal(w, victim)

Next == \E w \in Workers : WorkerStep(w)

Spec == Init /\ [][Next]_vars

-----------------------------------------------------------------------------
TypeOK ==
    /\ kind \in [Frames -> {"free", "initial", "call", "spawn"}]
    /\ parent \in [Frames -> Frames \cup {NoFrame}]
    /\ kids \in [Frames -> SUBSET Frames]
    /\ join \in [Frames -> Nat]
    /\ unsynched \in [Frames -> BOOLEAN]
    /\ sync_master \in [Frames -> Users \cup {Nobody}]
    /\ home \in [Frames -> Users \cup {Nobody}]
    /\ pending \in SUBSET Frames
    /\ ready_list \in [Workers -> SUBSET Frames]
    /\ pc \in [Workers -> {"unbound", "work", "sync", "return", "search", "own", "random"}]
    /\ frame_ff \in [Workers -> Frames \cup {NoFrame}]
    /\ next_frame_ff \in [Workers -> Frames \cup {NoFrame}]
    /\ last_full_frame \in [Workers -> Frames \cup {NoFrame}]
    /\ team \in [Workers -> Users \cup {Nobody}]
    /\ held \in [Workers -> Frames \cup {NoFrame}]
    /\ deque \in [Workers -> Seq(1..MaxCalls)]
    /\ calls \in [Workers -> 0..MaxCalls]

Live == Frames \ Free

(* The worker runs the frame, is about to, or has not given it up yet.     *)
Runs(w, f) ==
    \/ frame_ff[w] = f \/ next_frame_ff[w] = f \/ (pc[w] = "sync" /\ held[w] = f)

(* A frame's counter is exactly the children that may still drop it and    *)
(* the worker that runs it: one too few and a sync is crossed early, one   *)
(* too many and never.  Every push_next_frame, steal, pending child,       *)
(* return and sync moves it, some of them twice (scheduler.c:238-249).     *)
JoinCountsExact ==
    \A f \in Live :
        join[f] = Cardinality({w \in Workers : Runs(w, f)})
                  + Cardinality({c \in Live : parent[c] = f})

(* "ownership of ff" (scheduler.c:1627): nobody runs a frame that another  *)
(* worker runs, that is still on a ready list or waits, or that is gone.   *)
OneOwner ==
    /\ \A f \in Frames : Cardinality({w \in Workers : Runs(w, f)}) <= 1
    /\ \A w \in Workers, f \in Frames : Runs(w, f) =>
            /\ kind[f] # "free" /\ f \notin pending
            /\ \A v \in Workers : f \notin ready_list[v]

(* The initial frame of each computation, followed upwards. *)
RootOf[f \in Frames] == IF parent[f] = NoFrame THEN f ELSE RootOf[parent[f]]

(* A worker with work is on the team of the thread whose work it is, so    *)
(* that provably_good_steal sends a sync master's frame back to the right  *)
(* thread (scheduler.c:1608), and a pending frame records that team.       *)
TeamIsThreadOfWork ==
    /\ \A w \in Workers, f \in Live : Runs(w, f) => team[w] = home[RootOf[f]]
    /\ \A w \in Workers : \A f \in ready_list[w] : home[f] = home[RootOf[f]]

(* "user workers are not permitted to change teams" (scheduler.c:1396).    *)
UsersKeepTheirTeam == \A u \in Users : pc[u] # "unbound" => team[u] = u

(* "the only way we have gotten to this point ... is if the original user  *)
(* worker is spinning without work" (scheduler.c:1600): whoever is about   *)
(* to cross the sync of a frame that has a sync master finds that worker   *)
(* with nothing to do, so that its next_frame_ff is not overwritten.       *)
AboutToCross(w, f) ==
    /\ join[f] = 1
    /\ \/ pc[w] = "sync" /\ held[w] = f
       \/ pc[w] = "return" /\ parent[held[w]] = f

MasterIsFree ==
    \A w \in Workers, f \in Live : AboutToCross(w, f) /\ sync_master[f] # Nobody =>
        LET u == sync_master[f]
        IN  /\ team[w] = u /\ last_full_frame[u] = f
            /\ frame_ff[u] = NoFrame /\ next_frame_ff[u] = NoFrame

(* A thread returns from Cilk on the worker it was bound to, and after all *)
(* of its work: whatever thieves did with it, the frames outside of any    *)
(* spawn are, between syncs, run by that worker (scheduler.c:465-494).     *)
Trunk[f \in Frames] ==
    kind[f] = "initial" \/ (kind[f] = "call" /\ parent[f] # NoFrame /\ Trunk[parent[f]])

SerialPartOnItsThread ==
    \A w \in Workers : frame_ff[w] # NoFrame =>
        LET f == frame_ff[w]
            Mine(g) == Trunk[g] /\ RootOf[g] = RootOf[f]
        IN  Mine(f) /\ (\A g \in Live : Mine(g) => ~unsynched[g]) => w = home[RootOf[f]]

(* A sync is crossed once, after every child has ended. *)
SyncsWait ==
    [][\A f \in Frames : unsynched[f] /\ ~unsynched'[f] =>
            \A c \in Frames : kind'[c] # "free" => parent'[c] # f]_vars
=============================================================================

---------------------------- MODULE StaticSched ----------------------------
(***************************************************************************)
(* Statically scheduled loops (runtime/cilk-abi-cilk-for-static.cpp,       *)
(* runtime/scheduler.c 2520-2560).                                         *)
(*                                                                         *)
(* System workers register on the NUMA node they run on.  The thread that  *)
(* reaches a loop, its master, allocates nodes, cuts the iterations into   *)
(* one share per thread, and starts the workers of a node along a tree of  *)
(* slots: a slot holds a pointer to the loop's state, on the master's      *)
(* stack, from the moment its worker may start until the worker and those  *)
(* below it in the tree are done.  A master that is itself a system worker *)
(* takes its own place in the tree: the others step over its slot.         *)
(*                                                                         *)
(* Loops small enough to run serially (:455) change nothing and are left   *)
(* out, and so is the wake-up of the workers: see SignalTree.  Grain is 1. *)
(***************************************************************************)
EXTENDS Integers, FiniteSets, Sequences, SequencesExt

CONSTANTS Workers,   \* the system workers
          Users,     \* threads of the user
          NumNodes,  \* numa_nodes
          Counts,    \* the iteration counts to try
          MaxLoops   \* bound on the loops started

Threads == Workers \cup Users
Nodes == 0..(NumNodes - 1)
NumWorkers == Cardinality(Workers)
Slots == 0..(2 * NumWorkers)
NeverWritten == -1    \* an element of work_items that was never written
Nobody == -1   \* rewire of a user's loop
NoLoop == 0

VARIABLES pc,        \* thread -> what it is doing
          todo,      \* thread -> the nodes or slots it still has to visit
          loop,      \* thread -> the loop it takes part in
          numa_node, numa_local_self,             \* of each thread
          numa_node_threads, numa_node_cum_threads, numa_P_init,
          numa_allocate,  \* node -> whether a loop has it
          xid,       \* slot -> the loop whose state it points to
          loops,     \* the loops in the order of their start
          runs       \* history: loop -> iteration -> how often it was executed

places == <<numa_node, numa_local_self, numa_node_threads,
            numa_node_cum_threads, numa_P_init>>
vars == <<pc, todo, loop, places, numa_allocate, xid, loops, runs>>

Init ==
    /\ pc = [t \in Threads |-> IF t \in Workers THEN "new" ELSE "ready"]
    /\ todo = [t \in Threads |-> <<>>]
    /\ loop = [t \in Threads |-> NoLoop]
    /\ numa_node \in [Threads -> Nodes]
    /\ numa_local_self = [t \in Threads |-> -1]
    /\ numa_node_threads = [n \in Nodes |-> 0]
    /\ numa_node_cum_threads = [n \in Nodes |-> 0]
    /\ numa_P_init = 0
    /\ numa_allocate = [n \in Nodes |-> FALSE]
    /\ xid = [s \in Slots |-> NoLoop]
    /\ loops = <<>> /\ runs = <<>>

Goto(t, from, to) == pc[t] = from /\ pc' = [pc EXCEPT ![t] = to]
Next1(t) == Head(todo[t])
Visited(t) == todo' = [todo EXCEPT ![t] = Tail(@)]
SlotOf(n, i) == numa_node_cum_threads[n] + i

-----------------------------------------------------------------------------
(* A system worker finds its node, counts itself there, moves the slots of *)
(* the nodes that follow, and reports that it has done so.                 *)

Register(w) ==
    LET n == numa_node[w] IN
    /\ w \in Workers /\ Goto(w, "new", "counted")
    /\ numa_local_self' = [numa_local_self EXCEPT ![w] = numa_node_threads[n]]
    /\ numa_node_threads' = [numa_node_threads EXCEPT ![n] = @ + 1]
    /\ todo' = [todo EXCEPT ![w] = [i \in 1..(NumNodes - 1 - n) |-> n + i]]
    /\ UNCHANGED <<loop, numa_node, numa_node_cum_threads, numa_P_init,
                   numa_allocate, xid, loops, runs>>

MoveSlots(w) ==
    /\ pc[w] = "counted" /\ todo[w] # <<>> /\ Visited(w)
    /\ numa_node_cum_threads' =
         [numa_node_cum_threads EXCEPT ![Next1(w)] = @ + 1]
    /\ UNCHANGED <<pc, loop, numa_node, numa_local_self, numa_node_threads,
                   numa_P_init, numa_allocate, xid, loops, runs>>

Report(w) ==
    /\ todo[w] = <<>> /\ Goto(w, "counted", "ready")
    /\ numa_P_init' = numa_P_init + 1
    /\ UNCHANGED <<todo, loop, numa_node, numa_local_self, numa_node_threads,
                   numa_node_cum_threads, numa_allocate, xid, loops, runs>>

-----------------------------------------------------------------------------
(* Variants of the definitions below with a plausible mistake in each:     *)
(* what the mutation runs put in their place.  No specification uses them. *)

(* The master forgets that it may be alone. *)
Bug_ShareAfterNode(t, g) ==
    LET l == loops[loop[t]]
        n == numa_node[t]
        first == IF l.work[n] = NeverWritten THEN g ELSE l.work[n]
    IN  IF t \in Workers THEN first + numa_local_self[t]
        ELSE first + numa_node_threads[n]

(* The master's own slot is signalled and nobody clears it. *)
Bug_Children(i, count, rewire) ==
    LET Below(d) == d < count /\ i % (2 * (d - i)) = 0
    IN  SelectSeq([k \in 1..count |-> i + 2^(count - k)], Below)

(* A worker reports as soon as its own share is done. *)
Bug_Done(w) ==
    /\ Goto(w, "join", "ready") /\ loops[loop[w]].master # w
    /\ xid' = [xid EXCEPT ![SlotOf(numa_node[w], numa_local_self[w])] = NoLoop]
    /\ loop' = [loop EXCEPT ![w] = NoLoop]
    /\ todo' = [todo EXCEPT ![w] = <<>>]
    /\ UNCHANGED <<places, numa_allocate, loops, runs>>

-----------------------------------------------------------------------------
(* The master.  A stolen task that runs on a system worker may reach a     *)
(* loop as well.                                                           *)

Start(t) ==
    /\ Len(loops) < MaxLoops /\ loop[t] = NoLoop /\ Goto(t, "ready", "gate")
    /\ \E wide \in BOOLEAN, c \in Counts :
         /\ c >= numa_node_threads[numa_node[t]]
         /\ loops' = Append(loops,
              [master |-> t, system_wide |-> wide, count |-> c, nodes |-> <<>>,
               work |-> [n \in Nodes |-> NeverWritten], num_threads |-> 0,
               rewire |-> Nobody, live |-> TRUE])
         /\ runs' = Append(runs, [i \in 0..(c - 1) |-> 0])
    /\ loop' = [loop EXCEPT ![t] = Len(loops) + 1]
    /\ UNCHANGED <<todo, places, numa_allocate, xid>>

(* It waits until every worker has registered. *)
Gate(t) ==
    LET l == loops[loop[t]] IN
    /\ Goto(t, "gate", "look") /\ numa_P_init = NumWorkers
    /\ todo' = [todo EXCEPT ![t] =
         IF l.system_wide THEN [i \in 1..NumNodes |-> i - 1]
         ELSE <<numa_node[t]>>]
    /\ loops' = [loops EXCEPT ![loop[t]].work =
         IF l.system_wide THEN @ ELSE [@ EXCEPT ![numa_node[t]] = 0]]
    /\ UNCHANGED <<loop, places, numa_allocate, xid, runs>>

(* Allocation, one node after the other: a look, and if the node seems     *)
(* free a compare-and-swap.  The user counts itself on its own node, with  *)
(* the restriction always, without it only if it got as far as the swap.   *)
Enough(l) == l.system_wide /\ l.num_threads >= l.count

PassOver(t) ==
    LET n == Next1(t) IN
    /\ pc[t] = "look" /\ todo[t] # <<>>
    /\ numa_allocate[n] \/ (loops[loop[t]].system_wide /\ numa_node_threads[n] = 0)
    /\ Visited(t)
    /\ loops' = [loops EXCEPT ![loop[t]].num_threads =
         IF ~loops[loop[t]].system_wide /\ t \in Users THEN @ + 1 ELSE @]
    /\ UNCHANGED <<pc, loop, places, numa_allocate, xid, runs>>

Look(t) ==
    /\ todo[t] # <<>> /\ Goto(t, "look", "swap")
    /\ ~numa_allocate[Next1(t)]
    /\ loops[loop[t]].system_wide => numa_node_threads[Next1(t)] # 0
    /\ UNCHANGED <<todo, loop, places, numa_allocate, xid, loops, runs>>

Allocate(t) ==
    LET n == Next1(t)
        l == loops[loop[t]]
        got == ~numa_allocate[n]
        self == IF t \in Users /\ numa_node[t] = n THEN 1 ELSE 0
        new == [l EXCEPT
            !.nodes = IF got THEN Append(@, n) ELSE @,
            !.work = IF got THEN [@ EXCEPT ![n] = l.num_threads] ELSE @,
            !.num_threads = @ + self + (IF got THEN numa_node_threads[n] ELSE 0)]
    IN  /\ Goto(t, "swap", "look")
        /\ numa_allocate' = [numa_allocate EXCEPT ![n] = TRUE]
        /\ loops' = [loops EXCEPT ![loop[t]] = new]
        /\ todo' = [todo EXCEPT ![t] = IF Enough(new) THEN <<>> ELSE Tail(@)]
        /\ UNCHANGED <<loop, places, xid, runs>>

(* The threads below thread i in a tree over `count' threads. *)
Children(i, count, rewire) ==
    LET Below(d) == d < count /\ i % (2 * (d - i)) = 0 /\ d # rewire
    IN  SelectSeq([k \in 1..count |-> i + 2^(count - k)], Below)

TreeSlots(t, count, rewire) ==
    LET below == Children(numa_local_self[t], count, rewire)
    IN  [k \in DOMAIN below |-> SlotOf(numa_node[t], below[k])]

(* The slots a master signals, and those it waits for, in order. *)
NodeRoots(l) == [k \in DOMAIN l.nodes |-> SlotOf(l.nodes[k], 0)]
OwnRoot(t) ==
    IF numa_local_self[t] = 0 THEN <<>> ELSE <<SlotOf(numa_node[t], 0)>>

ToSignal(t, l) == IF t \in Users THEN NodeRoots(l)
                  ELSE OwnRoot(t) \o TreeSlots(t, l.num_threads, Nobody)
ToAwait(t, l) == IF t \in Users THEN NodeRoots(l)
                 ELSE TreeSlots(t, l.num_threads, Nobody) \o OwnRoot(t)

(* With no thread at all the length of a share is a division by zero. *)
Distribute(t) ==
    LET l == loops[loop[t]] IN
    /\ pc[t] = "look" /\ todo[t] = <<>> /\ l.num_threads # 0
    /\ pc' = [pc EXCEPT ![t] = "signal"]
    /\ loops' = [loops EXCEPT ![loop[t]].rewire =
                   IF t \in Workers THEN numa_local_self[t] ELSE Nobody]
    /\ todo' = [todo EXCEPT ![t] = ToSignal(t, l)]
    /\ UNCHANGED <<loop, places, numa_allocate, xid, runs>>

DivideByZero(t) ==
    /\ pc[t] = "look" /\ todo[t] = <<>> /\ loops[loop[t]].num_threads = 0
    /\ pc' = [pc EXCEPT ![t] = "crashed"]
    /\ UNCHANGED <<todo, loop, places, numa_allocate, xid, loops, runs>>

Signal(t) ==
    /\ pc[t] = "signal" /\ todo[t] # <<>> /\ Visited(t)
    /\ xid' = [xid EXCEPT ![Next1(t)] = loop[t]]
    /\ UNCHANGED <<pc, loop, places, numa_allocate, loops, runs>>

-----------------------------------------------------------------------------
(* The shares.  Share k is iterations k * delta to (k + 1) * delta - 1, as *)
(* far as there are any.                                                   *)

Delta(l) == (l.count + l.num_threads - 1) \div l.num_threads
Iterations(l, k) ==
    {i \in 0..(l.count - 1) : Delta(l) * k <= i /\ i < Delta(l) * (k + 1)}

(* The user's share comes after those of the workers on its node.  An      *)
(* element of work_items that was not written may hold anything: g.        *)
MasterShare(t, g) ==
    LET l == loops[loop[t]]
        n == numa_node[t]
        first == IF l.work[n] = NeverWritten THEN g ELSE l.work[n]
    IN  IF t \in Workers THEN first + numa_local_self[t]
        ELSE first + (IF l.num_threads = 1 THEN 0 ELSE numa_node_threads[n])

WorkerShare(w, g) ==
    LET first == loops[loop[w]].work[numa_node[w]]
    IN  numa_local_self[w] + (IF first = NeverWritten THEN g ELSE first)

IsMaster(t) == loops[loop[t]].master = t

Awaited(t) == LET l == loops[loop[t]] IN
    IF IsMaster(t) THEN ToAwait(t, l)
    ELSE TreeSlots(t, numa_node_threads[numa_node[t]], l.rewire)

Execute(t) ==
    /\ todo[t] = <<>> /\ Goto(t, "signal", "join")
    /\ \E g \in 0..NumWorkers :
         LET mine == Iterations(loops[loop[t]],
                       IF IsMaster(t) THEN MasterShare(t, g) ELSE WorkerShare(t, g))
         IN  runs' = [runs EXCEPT ![loop[t]] =
                [i \in DOMAIN @ |-> IF i \in mine THEN @[i] + 1 ELSE @[i]]]
    /\ todo' = [todo EXCEPT ![t] = Awaited(t)]
    /\ UNCHANGED <<loop, places, numa_allocate, xid, loops>>

(* The busy wait for a slot to become empty. *)
Await(t) ==
    /\ pc[t] = "join" /\ todo[t] # <<>> /\ xid[Next1(t)] = NoLoop /\ Visited(t)
    /\ UNCHANGED <<pc, loop, places, numa_allocate, xid, loops, runs>>

-----------------------------------------------------------------------------
(* A worker comes by when it looks for work.  It waits for its slot if its *)
(* node is allocated, and gives up after 128 tries.                        *)

Enter(w) ==
    /\ w \in Workers /\ numa_allocate[numa_node[w]] /\ Goto(w, "ready", "wait")
    /\ UNCHANGED <<todo, loop, places, numa_allocate, xid, loops, runs>>

MySlot(w) == SlotOf(numa_node[w], numa_local_self[w])

GiveUp(w) ==
    /\ Goto(w, "wait", "ready") /\ xid[MySlot(w)] = NoLoop
    /\ UNCHANGED <<todo, loop, places, numa_allocate, xid, loops, runs>>

Receive(w) ==
    LET l == xid[MySlot(w)] IN
    /\ Goto(w, "wait", "signal") /\ l # NoLoop
    /\ loop' = [loop EXCEPT ![w] = l]
    /\ todo' = [todo EXCEPT ![w] =
         TreeSlots(w, numa_node_threads[numa_node[w]], loops[l].rewire)]
    /\ UNCHANGED <<places, numa_allocate, xid, loops, runs>>

Done(w) ==
    /\ Goto(w, "join", "ready") /\ todo[w] = <<>> /\ ~IsMaster(w)
    /\ xid' = [xid EXCEPT ![MySlot(w)] = NoLoop]
    /\ loop' = [loop EXCEPT ![w] = NoLoop]
    /\ UNCHANGED <<todo, places, numa_allocate, loops, runs>>

(* The master gives the nodes back and returns: the state is gone. *)
Finish(t) ==
    /\ Goto(t, "join", "free") /\ todo[t] = <<>> /\ IsMaster(t)
    /\ todo' = [todo EXCEPT ![t] = loops[loop[t]].nodes]
    /\ UNCHANGED <<loop, places, numa_allocate, xid, loops, runs>>

Deallocate(t) ==
    /\ pc[t] = "free" /\ todo[t] # <<>> /\ Visited(t)
    /\ numa_allocate' = [numa_allocate EXCEPT ![Next1(t)] = FALSE]
    /\ UNCHANGED <<pc, loop, places, xid, loops, runs>>

Return(t) ==
    /\ todo[t] = <<>> /\ Goto(t, "free", "ready")
    /\ loops' = [loops EXCEPT ![loop[t]].live = FALSE]
    /\ loop' = [loop EXCEPT ![t] = NoLoop]
    /\ UNCHANGED <<todo, places, numa_allocate, xid, runs>>

(* What a thread does once it is in a loop, or has come to look. *)
Continue(t) ==
    \/ Register(t) \/ MoveSlots(t) \/ Report(t)
    \/ loop[t] # NoLoop /\
         \/ Gate(t) \/ PassOver(t) \/ Look(t) \/ Allocate(t)
         \/ Distribute(t) \/ DivideByZero(t) \/ Signal(t)
         \/ Execute(t) \/ Await(t) \/ Done(t) \/ Finish(t)
         \/ Deallocate(t) \/ Return(t)
    \/ Enter(t) \/ Receive(t)

Next == \E t \in Threads : Continue(t) \/ Start(t) \/ GiveUp(t)

(* Each thread keeps running, and a worker keeps coming by: it stays awake *)
(* as long as a user is bound.                                             *)
Fairness == \A t \in Threads : WF_vars(Continue(t))

Spec == Init /\ [][Next]_vars /\ Fairness

-----------------------------------------------------------------------------
(* What must be right *)

Loops == DOMAIN loops

(* A loop that returns has executed each of its iterations exactly once,  *)
(* whichever threads took part.                                            *)
EveryIterationOnce ==
    \A l \in Loops : ~loops[l].live => \A i \in DOMAIN runs[l] : runs[l][i] = 1

(* The masters the distribution works for: a user that got its own node,   *)
(* or asked for no other and is alone, and a system worker that got its    *)
(* own node and no other.                                                  *)
Allocating(l) == LET m == loops[l].master IN
                 loop[m] = l /\ pc[m] \in {"gate", "look", "swap"}
WellPlaced(l) ==
    LET m == loops[l].master
        n == numa_node[m]
        got == ToSet(loops[l].nodes)
    IN  IF m \in Workers THEN got = {n}
        ELSE IF n \in got THEN numa_node_threads[n] # 0
        ELSE ~loops[l].system_wide
AllWellPlaced == \A l \in Loops : Allocating(l) \/ WellPlaced(l)

PlacedLoopsRunOnce == AllWellPlaced => EveryIterationOnce

(* The state is on the master's stack: when the master returns no slot     *)
(* points to it any more and no worker is left that reads it.              *)
NoStaleState ==
    AllWellPlaced =>
      /\ \A s \in Slots : xid[s] # NoLoop => loops[xid[s]].live
      /\ \A t \in Threads : loop[t] # NoLoop => loops[loop[t]].live

(* Every loop ends: each worker waited for was started, although workers   *)
(* give up waiting for their slot at any time.                             *)
LoopsEnd ==
    \A l \in 1..MaxLoops :
        l \in Loops ~> (AllWellPlaced => l \in Loops /\ ~loops[l].live)
=============================================================================

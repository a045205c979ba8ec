--------------------------- MODULE ThreadPedigree ---------------------------
(***************************************************************************)
(* The pedigrees of user threads, in Cilk and out of it (runtime/os-unix.c *)
(* 113-155, 185-232, 263-274, runtime/pedigrees.c 66-113,                  *)
(* runtime/cilk_api.c 166-266).                                            *)
(*                                                                         *)
(* A thread that asks for its pedigree, or binds, gets a leaf in its local *)
(* storage, under a root whose rank no other thread has.  While the thread *)
(* is bound the leaf is the worker's, and the thread's own waits for the   *)
(* unbinding.  A program that draws a number for a strand takes the        *)
(* strand's pedigree and moves its rank on.  Spawns and syncs move it too; *)
(* who executes what is in CilkFor.  Pedigrees are written innermost rank  *)
(* first.                                                                  *)
(***************************************************************************)
EXTENDS Integers, Sequences, FiniteSets

CONSTANTS Threads, UserWorkers,
          None,
          MaxMoves,   \* bound on draws, spawns and syncs
          MaxDepth,   \* bound on nested spawns
          MaxLeaves   \* bound on the threads that get a leaf

(* None and "leaf" are no workers; a leaf and its root are two nodes. *)
PedigreeAssumption ==
    /\ None \notin UserWorkers \cup {"leaf"} /\ "leaf" \notin UserWorkers
    /\ MaxDepth \in Nat /\ MaxDepth >= 2

VARIABLES leaf,       \* thread -> the two nodes it has allocated
          tls,        \* thread -> where its storage points: None, "leaf", worker
          bound,      \* thread -> its worker
          pedigree,   \* worker -> w->pedigree
          original,   \* worker -> the thread of original_pedigree_leaf
          global_counter,
          walk,       \* thread -> [context, birthranks] of __cilkrts_get_pedigree_info
          drawn,      \* history: the pedigrees drawn
          draws, moves

pvars == <<leaf, tls, bound, pedigree, original, global_counter, walk, drawn, draws, moves>>

Complete == 0
Null == MaxDepth + 1
NewWalk == [context |-> Null, birthranks |-> <<>>]

PInit ==
    /\ leaf = [t \in Threads |-> <<>>]
    /\ tls = [t \in Threads |-> None]
    /\ bound = [t \in Threads |-> None]
    /\ pedigree = [w \in UserWorkers |-> <<>>]
    /\ original = [w \in UserWorkers |-> None]
    /\ global_counter = -1
    /\ walk = [t \in Threads |-> NewWalk]
    /\ drawn = {} /\ draws = 0 /\ moves = 0

MoveRank(p, n) == <<Head(p) + n>> \o Tail(p)

-----------------------------------------------------------------------------
(* __cilkrts_get_tls_pedigree_leaf(1): the leaf the thread will have.      *)
Leaf(t) == IF tls[t] = None THEN <<0, global_counter + 1>> ELSE leaf[t]

CreateLeaf(t) ==
    IF tls[t] = None
    THEN /\ global_counter < MaxLeaves - 1
         /\ global_counter' = global_counter + 1
    ELSE UNCHANGED global_counter

(* What the interface gives for the pedigree of the thread. *)
GetPedigree(t) == IF bound[t] # None THEN pedigree[bound[t]] ELSE Leaf(t)

BumpWorkerRank(t) ==
    IF bound[t] # None
    THEN /\ pedigree' = [pedigree EXCEPT ![bound[t]] = MoveRank(@, 1)]
         /\ UNCHANGED <<leaf, tls, global_counter>>
    ELSE /\ CreateLeaf(t)
         /\ leaf' = [leaf EXCEPT ![t] = MoveRank(Leaf(t), 1)]
         /\ tls' = [tls EXCEPT ![t] = "leaf"]
         /\ UNCHANGED pedigree

Draw(t) ==
    /\ moves < MaxMoves
    /\ drawn' = drawn \cup {GetPedigree(t)}
    /\ draws' = draws + 1 /\ moves' = moves + 1
    /\ BumpWorkerRank(t)
    /\ UNCHANGED <<bound, original, walk>>

(* One call of __cilkrts_get_pedigree_info.  The context is the node that  *)
(* was returned, here the number of nodes from it to the root.             *)
GetPedigreeInfo(t) ==
    LET p == GetPedigree(t)
        last == walk[t].context
        node == (IF last = Null THEN Len(p) ELSE last) - 1
    IN  /\ last # Complete
        /\ walk' = [walk EXCEPT ![t] =
               IF node = 0 THEN [@ EXCEPT !.context = Complete]
               ELSE [context |-> node, birthranks |-> Append(@.birthranks, p[Len(p) - node + 1])]]
        /\ IF bound[t] = None
           THEN /\ CreateLeaf(t)
                /\ leaf' = [leaf EXCEPT ![t] = Leaf(t)]
                /\ tls' = [tls EXCEPT ![t] = "leaf"]
           ELSE UNCHANGED <<leaf, tls, global_counter>>
        /\ UNCHANGED <<bound, pedigree, original, drawn, draws, moves>>

(* A context is used within a strand and the calls it makes. *)
NotWalking(t) == walk[t].context \in {Null, Complete}
EndWalk(t) == walk' = [walk EXCEPT ![t] = NewWalk]

-----------------------------------------------------------------------------
(* The thread binds, spawns, syncs and unbinds *)

LoadPedigreeLeaf(t, w) ==
    /\ CreateLeaf(t)
    /\ leaf' = [leaf EXCEPT ![t] = Leaf(t)]
    /\ pedigree' = [pedigree EXCEPT ![w] = Leaf(t)]
    /\ original' = [original EXCEPT ![w] = t]
    /\ tls' = [tls EXCEPT ![t] = w]

Bind(t, w) ==
    /\ bound[t] = None /\ \A s \in Threads : bound[s] # w
    /\ bound' = [bound EXCEPT ![t] = w]
    /\ LoadPedigreeLeaf(t, w)
    /\ UNCHANGED <<walk, drawn, draws, moves>>

Move(t, to) ==
    /\ bound[t] # None /\ NotWalking(t) /\ moves < MaxMoves
    /\ moves' = moves + 1
    /\ pedigree' = [pedigree EXCEPT ![bound[t]] = to]
    /\ EndWalk(t)
    /\ UNCHANGED <<leaf, tls, bound, original, global_counter, drawn, draws>>

Spawn(t) ==
    /\ Len(GetPedigree(t)) < MaxDepth
    /\ Move(t, <<0>> \o GetPedigree(t))
ReturnFromSpawn(t) ==
    /\ Len(GetPedigree(t)) > 2
    /\ Move(t, MoveRank(Tail(GetPedigree(t)), 1))
Sync(t) == Move(t, MoveRank(GetPedigree(t), 1))

(* Variants of the definitions below with a plausible mistake in each:     *)
(* what the mutation runs put in their place.  No specification uses them. *)

(* The thread goes on with the leaf it had before it entered. *)
Bug_SavePedigreeLeaf(t, w) ==
    /\ tls' = [tls EXCEPT ![t] = "leaf"]
    /\ original' = [original EXCEPT ![w] = None]
    /\ UNCHANGED leaf

(* Only the rank is saved: the chain is the thread's own again. *)
SavePedigreeLeaf(t, w) ==
    /\ leaf' = [leaf EXCEPT ![original[w]] = <<Head(pedigree[w])>> \o Tail(@)]
    /\ tls' = [tls EXCEPT ![t] = "leaf"]
    /\ original' = [original EXCEPT ![w] = None]

Unbind(t) ==
    LET w == bound[t]
    IN  /\ w # None /\ Len(GetPedigree(t)) = 2
        /\ SavePedigreeLeaf(t, w)
        /\ bound' = [bound EXCEPT ![t] = None]
        /\ UNCHANGED <<pedigree, global_counter, walk, drawn, draws, moves>>

(* The storage's destructor frees the leaf; another thread takes the       *)
(* place.                                                                  *)
ThreadEnds(t) ==
    /\ bound[t] = None /\ tls[t] = "leaf"
    /\ leaf' = [leaf EXCEPT ![t] = <<>>]
    /\ tls' = [tls EXCEPT ![t] = None]
    /\ EndWalk(t)
    /\ UNCHANGED <<bound, pedigree, original, global_counter, drawn, draws, moves>>

PNext ==
    \E t \in Threads :
        \/ Draw(t) \/ GetPedigreeInfo(t) \/ ThreadEnds(t)
        \/ Spawn(t) \/ ReturnFromSpawn(t) \/ Sync(t)
        \/ Unbind(t) \/ \E w \in UserWorkers : Bind(t, w)

PSpec == PInit /\ [][PNext]_pvars

-----------------------------------------------------------------------------
(* No two strands draw the same pedigree, whichever threads they are on    *)
(* and however often these enter and leave Cilk, and a walk gives a        *)
(* strand's ranks from its parent to the root, also when the thread binds  *)
(* or leaves in the middle.                                                *)
PedigreesDiffer ==
    /\ Cardinality(drawn) = draws
    /\ \A t \in Threads :
          /\ walk[t].context = Complete => walk[t].birthranks = Tail(GetPedigree(t))
          /\ bound[t] # None => /\ tls[t] = bound[t] /\ original[bound[t]] = t
                                /\ pedigree[bound[t]][Len(pedigree[bound[t]])] = leaf[t][2]
=============================================================================

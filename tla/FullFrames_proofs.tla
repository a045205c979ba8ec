------------------------- MODULE FullFrames_proofs -------------------------
(***************************************************************************)
(* FullFrames for every number of workers, of full frames, of calls and of *)
(* continuations on a deque.                                               *)
(*                                                                         *)
(* A join counter is exact only if no push to next_frame_ff overwrites a   *)
(* frame that waits there, and the push that resumes a frame on its sync   *)
(* master goes to a worker that may be stealing meanwhile.  So exactness   *)
(* needs to know where the work of that worker's team can be: the labels   *)
(* of IInv give for each frame the initial frame of its computation, and   *)
(* whether it is below a frame with a sync master.                         *)
(*                                                                         *)
(* When the limit on fibers is reached a user worker can leave its team    *)
(* (run frames_fibers), so the theorems are about runs that do not.        *)
(***************************************************************************)
EXTENDS FullFrames, FiniteSetTheorems, SequenceTheorems, WellFoundedInduction, TLAPS

Steady == ~FibersRunOut

Children(f) == {c \in Frames : parent[c] = f}
Owned(f) == \E w \in Workers : Runs(w, f)
Returning(w, f) == pc[w] = "return" /\ held[w] = f

(* Which of its frames a worker can have at each point, and what is on its *)
(* deque: never a continuation that the helper of a spawn made itself.     *)
WorkerOK(w) ==
    /\ frame_ff[w] # NoFrame <=> pc[w] = "work"
    /\ held[w] # NoFrame <=> pc[w] \in {"sync", "return"}
    /\ next_frame_ff[w] # NoFrame =>
          \/ pc[w] = "search"
          \/ w \in Users /\ pc[w] \in {"own", "random"} /\ last_full_frame[w] = NoFrame
    /\ pc[w] = "work" <=> calls[w] # 0
    /\ deque[w] # <<>> => pc[w] = "work"
    /\ \A i \in 1..Len(deque[w]) : i > 1 \/ kind[frame_ff[w]] = "spawn" => deque[w][i] > 1
    /\ pc[w] = "random" => ready_list[w] = {}
    /\ pc[w] = "unbound" => w \in Users
WorkersOK == \A w \in Workers : WorkerOK(w)

(* The frames alive are trees.  While a called frame is alive nobody runs  *)
(* its caller; while a spawned one is, its parent has a sync to cross.     *)
ShapeOK ==
    /\ \A f \in Frames : kind[f] \in {"free", "initial"} <=> parent[f] = NoFrame
    /\ \A f \in Frames : parent[f] # NoFrame => kind[parent[f]] # "free"
    /\ \A f \in Frames : kind[f] = "free" => ~unsynched[f] /\ sync_master[f] = Nobody
    /\ \A f \in Frames : \A c \in kids[f] : parent[c] = f
    /\ \A f \in Frames : kind[f] = "spawn" => unsynched[parent[f]] /\ ~unsynched[f]
CallsOK ==
    \A f, c \in Frames : kind[c] = "call" /\ parent[c] = f =>
        /\ ~Owned(f)
        /\ \A d \in Frames : kind[d] = "call" /\ parent[d] = f => d = c
Acyclic == \A G \in SUBSET Frames : G # {} => \E g \in G : parent[g] \notin G

(* A spawned frame that nobody runs yet, or any more, is in one place. *)
PlacesOK ==
    /\ \A f \in pending : kind[f] = "spawn" /\ join[f] = 0
    /\ \A w \in Workers : \A f \in ready_list[w] :
          /\ kind[f] = "spawn" /\ join[f] = 0 /\ f \notin pending
          /\ \A v \in Workers : f \in ready_list[v] => v = w
    /\ \A w \in Workers, f \in Frames : Returning(w, f) =>
          /\ kind[f] = "spawn" /\ join[f] = 0 /\ f \notin pending /\ f \notin kids[parent[f]]
          /\ \A v \in Workers : f \notin ready_list[v] /\ (Returning(v, f) => v = w)
OwnersOK ==
    \A w \in Workers, f \in Frames : Runs(w, f) =>
        kind[f] # "free" /\ \A v \in Workers : Runs(v, f) => v = w

JoinOK ==
    \A f \in Frames : join[f] = Cardinality(Children(f)) + (IF Owned(f) THEN 1 ELSE 0)

(* The initial frame of each frame's computation, whose home is the thread *)
(* that all workers in the computation have for their team.                *)
RootsOK(root) ==
    /\ \A f \in Frames : root[f] = IF parent[f] = NoFrame THEN f ELSE root[parent[f]]
    /\ \A f \in Frames : kind[f] # "free" => kind[root[f]] = "initial"
    /\ \A f \in Frames : kind[f] = "initial" => home[f] \in Users /\ pc[home[f]] # "unbound"
    /\ \A f, g \in Frames : kind[f] = "initial" /\ kind[g] = "initial" /\ home[f] = home[g] => f = g
TeamsOK(root) ==
    /\ \A u \in Users : team[u] \in {u, Nobody} /\ (pc[u] # "unbound" => team[u] = u)
    /\ \A w \in Workers, f \in Frames :
          Runs(w, f) \/ Returning(w, f) => team[w] = home[root[f]]
    /\ \A w \in Workers : \A f \in ready_list[w] : home[f] = home[root[f]] /\ team[w] = home[f]
    /\ \A f \in pending : home[f] = home[root[f]]

(* par: the frames at or below one with a sync master; all others are, by  *)
(* calls, below an initial frame, with no sync to cross, and are run by    *)
(* their thread's own worker and only while no frame of it has a master.   *)
(* trunk: the frames outside of any spawn.                                 *)
LabelsOK(par, trunk) ==
    /\ \A f \in Frames :
          f \in par <=> sync_master[f] # Nobody \/ (parent[f] # NoFrame /\ parent[f] \in par)
    /\ \A f \in Frames :
          f \in trunk <=> kind[f] = "initial" \/ (kind[f] = "call" /\ parent[f] \in trunk)
MastersOK(root, par, trunk) ==
    /\ \A f \in Frames : sync_master[f] # Nobody =>
          /\ sync_master[f] = home[root[f]] /\ last_full_frame[sync_master[f]] = f
          /\ unsynched[f] /\ f \in trunk
    /\ \A w \in Workers : last_full_frame[w] # NoFrame =>
          w \in Users /\ sync_master[last_full_frame[w]] = w
    /\ \A f \in Frames \ par : kind[f] # "free" =>
          /\ f \in trunk /\ ~unsynched[f]
          /\ \A w \in Workers : Runs(w, f) => w = home[root[f]] /\ last_full_frame[w] = NoFrame
    /\ \A f \in par : last_full_frame[home[root[f]]] # NoFrame

Inv(root, par, trunk) ==
    /\ TypeOK /\ WorkersOK /\ ShapeOK /\ CallsOK /\ Acyclic
    /\ PlacesOK /\ OwnersOK /\ JoinOK
    /\ RootsOK(root) /\ TeamsOK(root) /\ LabelsOK(par, trunk) /\ MastersOK(root, par, trunk)

IInv ==
    \E root \in [Frames -> Frames], par \in SUBSET Frames, trunk \in SUBSET Frames :
        Inv(root, par, trunk)

-----------------------------------------------------------------------------
(* A nonempty set of numbers has a least one: the top of the part of a     *)
(* call stack that a set of frames meets.                                  *)
LEMMA Least ==
    ASSUME NEW T \in SUBSET Nat, T # {}
    PROVE  \E n \in T : \A m \in T : n <= m
<1>1. PICK b \in T : TRUE
  OBVIOUS
<1> DEFINE S == 0..b
           R == StrictSubsetOrdering(S)
           Down(k) == {m \in T : m <= k}
           D == {Down(k) : k \in {k \in T : k <= b}}
<1>2. IsFiniteSet(S)
  BY <1>1, FS_Interval
<1>3. IsWellFoundedOn(R, SUBSET S)
  BY <1>2, FS_StrictSubsetOrderingWellFounded, FS_FiniteSubsetsOfFinite
<1>4. D \subseteq SUBSET S /\ D # {}
  <2>1. ASSUME NEW k \in T, k <= b PROVE Down(k) \subseteq S
    <3>1. \A m \in T : m <= k => m \in S
      BY <1>1, <2>1
    <3>2. QED
      BY <3>1
  <2>2. Down(b) \in D
    BY <1>1
  <2>3. QED
    BY <2>1, <2>2
<1>5. PICK d \in D : \A e \in D : <<e, d>> \notin R
  <2> HIDE DEF R, D
  <2>1. QED
    BY <1>3, <1>4, WFMin
<1>6. PICK n \in T : n <= b /\ d = Down(n)
  BY <1>5
<1>7. ASSUME NEW m \in T, m < n PROVE FALSE
  <2>1. Down(m) \in D /\ Down(m) \subseteq d /\ Down(m) # d
    <3>1. m <= b
      BY <1>1, <1>6, <1>7
    <3>2. Down(m) \in D
      BY <3>1
    <3>3. \A k \in Down(m) : k \in Down(n)
      BY <1>7
    <3>4. n \in Down(n) /\ n \notin Down(m)
      BY <1>7
    <3>5. QED
      BY <3>2, <3>3, <3>4, <1>6, Zenon
  <2>2. <<Down(m), d>> \in R
    BY <2>1, <1>4, <1>5 DEF StrictSubsetOrdering
  <2>3. QED
    BY <2>1, <2>2, <1>5
<1>8. \A m \in T : n <= m
  BY <1>7
<1>9. QED
  BY <1>8

(* Cardinalities of the few sets the counters are about.                   *)
LEMMA FramesFinite == IsFiniteSet(Frames) /\ \A S \in SUBSET Frames : IsFiniteSet(S)
<1>1. IsFiniteSet(Frames)
  BY FramesAssumption, FS_Interval DEF Frames
<1>2. QED
  BY <1>1, FS_Subset

(* A set with one more frame has one more element, ...                     *)
LEMMA CardPlus ==
    ASSUME NEW S \in SUBSET Frames, NEW c \in Frames, c \notin S
    PROVE  Cardinality(S \cup {c}) = Cardinality(S) + 1 /\ Cardinality(S) \in Nat
<1>1. IsFiniteSet(S)
  BY FramesFinite
<1>2. QED
  BY <1>1, FS_AddElement, FS_CardinalityType

(* ... and with one less it has one less.                                  *)
LEMMA CardMinus ==
    ASSUME NEW S \in SUBSET Frames, NEW c \in S
    PROVE  /\ Cardinality(S \ {c}) = Cardinality(S) - 1
           /\ Cardinality(S) \in Nat /\ Cardinality(S) > 0
<1>1. IsFiniteSet(S)
  BY FramesFinite
<1>2. S # {}
  OBVIOUS
<1>3. Cardinality(S) \in Nat /\ Cardinality(S) # 0
  BY <1>1, <1>2, FS_CardinalityType, FS_EmptySet
<1>4. Cardinality(S \ {c}) = Cardinality(S) - 1
  BY <1>1, FS_RemoveElement
<1>5. QED
  BY <1>3, <1>4

(* What a counter of zero or one says of the frame.                        *)
LEMMA JoinZero ==
    ASSUME JoinOK, NEW f \in Frames, join[f] = 0
    PROVE  Children(f) = {} /\ ~Owned(f)
<1>1. Children(f) \in SUBSET Frames
  BY DEF Children
<1>2. Cardinality(Children(f)) \in Nat
  BY <1>1, FramesFinite, FS_CardinalityType
<1>3. join[f] = Cardinality(Children(f)) + (IF Owned(f) THEN 1 ELSE 0)
  BY DEF JoinOK
<1>4. Cardinality(Children(f)) = 0 /\ ~Owned(f)
  BY <1>2, <1>3
<1>5. QED
  BY <1>1, <1>4, FramesFinite, FS_EmptySet

(* At one the frame has a single child or an owner, not both.              *)
LEMMA JoinOne ==
    ASSUME JoinOK, NEW f \in Frames, join[f] = 1
    PROVE  /\ Owned(f) => Children(f) = {}
           /\ \A c \in Children(f) : Children(f) = {c} /\ ~Owned(f)
<1>1. Children(f) \in SUBSET Frames
  BY DEF Children
<1>2. Cardinality(Children(f)) \in Nat
  BY <1>1, FramesFinite, FS_CardinalityType
<1>3. join[f] = Cardinality(Children(f)) + (IF Owned(f) THEN 1 ELSE 0)
  BY DEF JoinOK
<1>4. Owned(f) => Children(f) = {}
  <2>1. Owned(f) => Cardinality(Children(f)) = 0
    BY <1>2, <1>3
  <2>2. QED
    BY <1>1, <2>1, FramesFinite, FS_EmptySet
<1>5. ASSUME NEW c \in Children(f) PROVE Children(f) = {c} /\ ~Owned(f)
  <2>1. ~Owned(f) /\ Cardinality(Children(f)) = 1
    BY <1>2, <1>3, <1>4, <1>5
  <2>2. Cardinality(Children(f) \ {c}) = 0
    BY <1>1, <2>1, CardMinus
  <2>3. Children(f) \ {c} = {}
    BY <1>1, <2>2, FramesFinite, FS_EmptySet
  <2>4. QED
    BY <2>1, <2>3
<1>6. QED
  BY <1>4, <1>5

-----------------------------------------------------------------------------
(* The part of the invariant that is not about the labels.                 *)
Basic ==
    /\ TypeOK /\ WorkersOK /\ ShapeOK /\ CallsOK /\ Acyclic
    /\ PlacesOK /\ OwnersOK /\ JoinOK

(* Frames are numbers, and NoFrame is none of them.                        *)
LEMMA FrameNumbers == Frames \subseteq Nat /\ NoFrame \notin Frames
BY FramesAssumption DEF Frames, NoFrame

(* What is known of a frame that is not in use, ...                        *)
LEMMA FreeFrame ==
    ASSUME Basic, NEW f \in Frames, kind[f] = "free"
    PROVE  /\ parent[f] = NoFrame /\ kids[f] = {} /\ Children(f) = {}
           /\ join[f] = 0 /\ ~Owned(f) /\ f \notin pending
           /\ ~unsynched[f] /\ sync_master[f] = Nobody
           /\ \A w \in Workers : f \notin ready_list[w] /\ ~Runs(w, f) /\ ~Returning(w, f)
           /\ \A g \in Frames : parent[g] # f
<1>1. parent[f] = NoFrame /\ \A g \in Frames : parent[g] # f
  BY FrameNumbers DEF Basic, ShapeOK
<1>2. kids[f] = {} /\ Children(f) = {}
  <2>1. kids[f] \subseteq Frames
    BY DEF Basic, TypeOK
  <2>2. QED
    BY <1>1, <2>1 DEF Basic, ShapeOK, Children
<1>3. \A w \in Workers : f \notin ready_list[w] /\ ~Runs(w, f) /\ ~Returning(w, f)
  BY DEF Basic, OwnersOK, PlacesOK
<1>4. f \notin pending /\ ~unsynched[f] /\ sync_master[f] = Nobody
  BY DEF Basic, PlacesOK, ShapeOK
<1>5. ~Owned(f)
  BY <1>3 DEF Owned
<1>6. join[f] = 0
  <2>1. Cardinality(Children(f)) = 0
    BY <1>2, FS_EmptySet
  <2>2. QED
    BY <1>5, <2>1 DEF Basic, JoinOK
<1>7. QED
  BY <1>1, <1>2, <1>3, <1>4, <1>5, <1>6

(* ... of a worker at work, ...                                            *)
LEMMA AtWork ==
    ASSUME Basic, NEW w \in Workers, pc[w] = "work"
    PROVE  /\ frame_ff[w] \in Frames /\ next_frame_ff[w] = NoFrame /\ held[w] = NoFrame
           /\ \A f \in Frames : Runs(w, f) <=> f = frame_ff[w]
           /\ Owned(frame_ff[w]) /\ kind[frame_ff[w]] # "free"
           /\ calls[w] \in Nat /\ calls[w] > 0
<1>1. WorkerOK(w) /\ TypeOK
  BY DEF Basic, WorkersOK
<1>2. frame_ff[w] \in Frames /\ next_frame_ff[w] = NoFrame /\ held[w] = NoFrame
  BY <1>1 DEF WorkerOK, TypeOK
<1>3. calls[w] \in Nat /\ calls[w] > 0
  BY <1>1, FramesAssumption DEF WorkerOK, TypeOK
<1>4. \A f \in Frames : Runs(w, f) <=> f = frame_ff[w]
  BY <1>2, FrameNumbers DEF Runs
<1>5. Owned(frame_ff[w]) /\ kind[frame_ff[w]] # "free"
  BY <1>2, <1>4 DEF Owned, Basic, OwnersOK
<1>6. QED
  BY <1>2, <1>3, <1>4, <1>5

(* ... of one whose frame has no sync to cross, ...                        *)
LEMMA NoChildren ==
    ASSUME Basic, NEW f \in Frames, Owned(f), ~unsynched[f]
    PROVE  Children(f) = {} /\ kids[f] = {} /\ join[f] = 1
<1>1. ASSUME NEW c \in Children(f) PROVE FALSE
  <2>1. c \in Frames /\ parent[c] = f /\ parent[c] # NoFrame
    BY <1>1, FrameNumbers DEF Children
  <2>2. kind[c] \in {"call", "spawn"}
    BY <2>1 DEF Basic, TypeOK, ShapeOK
  <2>3. kind[c] # "spawn"
    BY <2>1 DEF Basic, ShapeOK
  <2>4. kind[c] # "call"
    BY <2>1 DEF Basic, CallsOK
  <2>5. QED
    BY <2>2, <2>3, <2>4
<1>2. Children(f) = {}
  BY <1>1
<1>3. kids[f] = {}
  <2>1. kids[f] \subseteq Frames
    BY DEF Basic, TypeOK
  <2>2. QED
    BY <1>2, <2>1 DEF Basic, ShapeOK, Children
<1>4. join[f] = 1
  <2>1. Cardinality(Children(f)) = 0
    BY <1>2, FS_EmptySet
  <2>2. QED
    BY <2>1 DEF Basic, JoinOK
<1>5. QED
  BY <1>2, <1>3, <1>4

(* ... and of one that runs nothing.                                       *)
LEMMA Idle ==
    ASSUME Basic, NEW w \in Workers, frame_ff[w] = NoFrame, next_frame_ff[w] = NoFrame,
           pc[w] # "sync"
    PROVE  \A f \in Frames : ~Runs(w, f)
BY FrameNumbers DEF Runs

-----------------------------------------------------------------------------
(* Every operation keeps the types.  That a counter which drops is not zero*)
(* already is the exactness of the counters.                               *)
LEMMA Counted ==
    ASSUME Basic, NEW f \in Frames, Owned(f) \/ Children(f) # {}
    PROVE  join[f] \in Nat /\ join[f] # 0
BY JoinZero DEF Basic, TypeOK

(* A counter that is not zero can be decremented, ...                      *)
LEMMA DropType ==
    ASSUME TypeOK, NEW f \in Frames, join[f] # 0
    PROVE  DecJoin(f) \in [Frames -> Nat]
BY DEF TypeOK, DecJoin

(* The frames that worker and scheduler hold, with their counters.         *)
LEMMA HeldFrame ==
    ASSUME Basic, NEW w \in Workers, pc[w] \in {"sync", "return"}
    PROVE  /\ held[w] \in Frames /\ kind[held[w]] # "free"
           /\ frame_ff[w] = NoFrame /\ next_frame_ff[w] = NoFrame
           /\ calls[w] = 0 /\ deque[w] = <<>>
           /\ pc[w] = "sync" =>
                 /\ Runs(w, held[w]) /\ Owned(held[w]) /\ join[held[w]] # 0
                 /\ \A f \in Frames : Runs(w, f) => f = held[w]
           /\ pc[w] = "return" =>
                 /\ Returning(w, held[w]) /\ kind[held[w]] = "spawn" /\ join[held[w]] = 0
                 /\ parent[held[w]] \in Frames /\ kind[parent[held[w]]] # "free"
                 /\ held[w] \in Children(parent[held[w]]) /\ join[parent[held[w]]] # 0
                 /\ unsynched[parent[held[w]]]
                 /\ \A f \in Frames : ~Runs(w, f)
<1>1. WorkerOK(w) /\ TypeOK
  BY DEF Basic, WorkersOK
<1>2. /\ held[w] \in Frames /\ frame_ff[w] = NoFrame /\ next_frame_ff[w] = NoFrame
      /\ calls[w] = 0 /\ deque[w] = <<>>
  BY <1>1 DEF WorkerOK, TypeOK
<1>3. CASE pc[w] = "sync"
  <2>1. \A f \in Frames : Runs(w, f) <=> f = held[w]
    BY <1>2, <1>3, FrameNumbers DEF Runs
  <2>2. Owned(held[w]) /\ kind[held[w]] # "free"
    BY <1>2, <2>1 DEF Owned, Basic, OwnersOK
  <2>3. QED
    BY <1>2, <1>3, <2>1, <2>2, Counted
<1>4. CASE pc[w] = "return"
  <2>1. Returning(w, held[w])
    BY <1>4 DEF Returning
  <2>2. kind[held[w]] = "spawn" /\ join[held[w]] = 0
    BY <1>2, <2>1 DEF Basic, PlacesOK
  <2>3. parent[held[w]] \in Frames /\ kind[parent[held[w]]] # "free"
    <3>1. parent[held[w]] # NoFrame /\ parent[held[w]] \in Frames \cup {NoFrame}
      BY <1>1, <1>2, <2>2 DEF Basic, ShapeOK, TypeOK
    <3>2. QED
      BY <1>2, <3>1 DEF Basic, ShapeOK
  <2>4. held[w] \in Children(parent[held[w]]) /\ unsynched[parent[held[w]]]
    BY <1>2, <2>2 DEF Children, Basic, ShapeOK
  <2>5. join[parent[held[w]]] # 0
    BY <2>3, <2>4, Counted
  <2>6. \A f \in Frames : ~Runs(w, f)
    <3>1. \A f \in Frames : frame_ff[w] # f /\ next_frame_ff[w] # f
      BY <1>2, FrameNumbers
    <3>2. QED
      BY <1>4, <3>1 DEF Runs
  <2>7. QED
    BY <1>2, <1>4, <2>1, <2>2, <2>3, <2>4, <2>5, <2>6
<1>5. QED
  BY <1>3, <1>4

(* ... as it is on the way into a sync, whatever comes of it.              *)
LEMMA CrossType ==
    ASSUME TypeOK, NEW w \in Workers, NEW f \in Frames, join[f] # 0, ProvablyGoodSteal(w, f)
    PROVE  /\ join' \in [Frames -> Nat]
           /\ unsynched' \in [Frames -> BOOLEAN]
           /\ sync_master' \in [Frames -> Users \cup {Nobody}]
           /\ last_full_frame' \in [Workers -> Frames \cup {NoFrame}]
           /\ next_frame_ff' \in [Workers -> Frames \cup {NoFrame}]
<1>1. DecJoin(f) \in [Frames -> Nat]
  BY DropType
<1>2. CASE ~LastReference(f)
  BY <1>1, <1>2 DEF ProvablyGoodSteal, TypeOK
<1>3. CASE LastReference(f)
  BY <1>3 DEF ProvablyGoodSteal, TypeOK, UnsetSyncMaster, PushNextFrame
<1>4. QED
  BY <1>2, <1>3

(* What the thief takes from a deque and what it leaves there.             *)
LEMMA HeadTail ==
    ASSUME NEW S, NEW q \in Seq(S), q # <<>>
    PROVE  /\ Head(q) = q[1] /\ 1 \in 1..Len(q) /\ q[1] \in S
           /\ Tail(q) \in Seq(S) /\ Len(Tail(q)) = Len(q) - 1
           /\ \A i \in 1..Len(Tail(q)) : Tail(q)[i] = q[i + 1]
<1>1. Len(q) \in Nat /\ Len(q) > 0
  OBVIOUS
<1>2. 1 \in 1..Len(q)
  BY <1>1
<1>3. Head(q) = q[1] /\ q[1] \in S
  BY <1>2
<1>4. Tail(q) \in Seq(S) /\ Len(Tail(q)) = Len(q) - 1
  BY <1>1
<1>5. \A i \in 1..Len(Tail(q)) : Tail(q)[i] = q[i + 1]
  BY <1>1, <1>4
<1>6. QED
  BY <1>2, <1>3, <1>4, <1>5

(* What a steal makes of a line of frames.                                 *)
LEMMA LineOf ==
    ASSUME Basic, NEW w \in Workers, NEW victim \in Workers, Steal(w, victim)
    PROVE  /\ frame_ff[victim] \in Frames
           /\ Head(deque[victim]) \in Nat /\ Head(deque[victim]) > 0
           /\ kind[frame_ff[victim]] = "spawn" => Head(deque[victim]) > 1
           /\ Tail(deque[victim]) \in Seq(1..MaxCalls)
           /\ Len(Tail(deque[victim])) = Len(deque[victim]) - 1
           /\ \A i \in 1..Len(Tail(deque[victim])) :
                 Tail(deque[victim])[i] = deque[victim][i + 1]
<1>1. pc[victim] = "work" /\ deque[victim] # <<>> /\ deque[victim] \in Seq(1..MaxCalls)
  BY DEF Steal, Basic, TypeOK
<1>2. frame_ff[victim] \in Frames
  BY <1>1, AtWork
<1>3. /\ Head(deque[victim]) = deque[victim][1]
      /\ 1 \in 1..Len(deque[victim]) /\ deque[victim][1] \in 1..MaxCalls
      /\ Tail(deque[victim]) \in Seq(1..MaxCalls)
      /\ Len(Tail(deque[victim])) = Len(deque[victim]) - 1
      /\ \A i \in 1..Len(Tail(deque[victim])) :
            Tail(deque[victim])[i] = deque[victim][i + 1]
  BY <1>1, HeadTail
<1>4. kind[frame_ff[victim]] = "spawn" => Head(deque[victim]) > 1
  BY <1>3 DEF Basic, WorkersOK, WorkerOK
<1>5. QED
  BY <1>1, <1>2, <1>3, <1>4, FramesAssumption

(* A line of n frames is a sequence of length n.                           *)
LEMMA LineLength ==
    ASSUME NEW S, NEW n \in Nat, NEW line \in [1..n -> S]
    PROVE  Len(line) = n
<1>1. line \in Seq(S)
  OBVIOUS
<1>2. QED
  BY <1>1

DetachedTo(w, victim, n, line) ==
    /\ n \in Nat /\ n > 1 /\ line \in [1..n -> Frames]
    /\ \A i, j \in 1..n : line[i] = line[j] => i = j
    /\ line[1] = frame_ff[victim]
    /\ \A i \in 2..n : kind[line[i]] = "free"
    /\ kind' \in [Frames -> {"free", "initial", "call", "spawn"}]
    /\ kind'[line[n]] = "spawn" /\ \A i \in 2..(n - 1) : kind'[line[i]] = "call"
    /\ parent' \in [Frames -> Frames \cup {NoFrame}]
    /\ \A i \in 2..n : parent'[line[i]] = line[i - 1]
    /\ \A f \in Frames : (\A i \in 2..n : f # line[i]) =>
          kind'[f] = kind[f] /\ parent'[f] = parent[f]
    /\ kids' \in [Frames -> SUBSET Frames]
    /\ \A i \in 1..(n - 1) : kids'[line[i]] = kids[line[i]] \cup {line[i + 1]}
    /\ \A f \in Frames : (\A i \in 1..(n - 1) : f # line[i]) => kids'[f] = kids[f]
    /\ join' = DetachedJoin(line[1], {line[i] : i \in 1..(n - 1)}, line[n - 1], line[n])
    /\ unsynched' = [unsynched EXCEPT ![line[n - 1]] = TRUE]
    /\ SetSyncMaster(victim, line[n - 1])
    /\ next_frame_ff' = [next_frame_ff EXCEPT ![w] = line[n - 1]]
    /\ frame_ff' = [frame_ff EXCEPT ![victim] = line[n]]

(* A steal's frames: a line of them, from the oldest to the loot.          *)
LEMMA Detached ==
    ASSUME Basic, NEW w \in Workers, NEW victim \in Workers, Steal(w, victim)
    PROVE  \E n, line : n = Head(deque[victim]) + 1 /\ DetachedTo(w, victim, n, line)
<1> DEFINE n == Head(deque[victim]) + 1
<1>0. PICK line \in Lines(frame_ff[victim], n) : Detach(w, victim, line)
  BY DEF Steal
<1>1. n \in Nat /\ n > 1
  BY LineOf
<1> HIDE DEF n
<1>2. /\ line \in [1..n -> Frames]
      /\ \A i, j \in 1..n : line[i] = line[j] => i = j
      /\ line[1] = frame_ff[victim]
      /\ \A i \in 2..n : kind[line[i]] = "free"
  BY DEF Lines, Free
<1>3. Len(line) = n
  BY <1>1, <1>2, LineLength
<1> DEFINE nth(f) == CHOOSE i \in 1..n : line[i] = f
           new == {line[i] : i \in 2..n}
           above == {line[i] : i \in 1..(n - 1)}
<1>4. \A i \in 1..n : nth(line[i]) = i
  BY <1>2
<1>5. /\ kind' = [f \in Frames |-> IF f = line[n] THEN "spawn"
                                   ELSE IF f \in new THEN "call" ELSE kind[f]]
      /\ parent' = [f \in Frames |-> IF f \in new THEN line[nth(f) - 1] ELSE parent[f]]
      /\ kids' = [f \in Frames |-> IF f \in above THEN PushChild(f, line[nth(f) + 1])
                                   ELSE kids[f]]
      /\ join' = DetachedJoin(line[1], above, line[n - 1], line[n])
      /\ unsynched' = [unsynched EXCEPT ![line[n - 1]] = TRUE]
      /\ SetSyncMaster(victim, line[n - 1])
      /\ next_frame_ff' = [next_frame_ff EXCEPT ![w] = line[n - 1]]
      /\ frame_ff' = [frame_ff EXCEPT ![victim] = line[n]]
  BY <1>0, <1>3 DEF Detach, PushNextFrame, MakeRunnable
<1> HIDE DEF nth
<1>6. /\ kind \in [Frames -> {"free", "initial", "call", "spawn"}]
      /\ parent \in [Frames -> Frames \cup {NoFrame}]
      /\ kids \in [Frames -> SUBSET Frames]
  BY DEF Basic, TypeOK
<1>7. /\ kind' \in [Frames -> {"free", "initial", "call", "spawn"}]
      /\ kind'[line[n]] = "spawn" /\ \A i \in 2..(n - 1) : kind'[line[i]] = "call"
  <2>1. kind' \in [Frames -> {"free", "initial", "call", "spawn"}]
    BY <1>5, <1>6
  <2>2. kind'[line[n]] = "spawn"
    BY <1>1, <1>2, <1>5
  <2>3. ASSUME NEW i \in 2..(n - 1) PROVE kind'[line[i]] = "call"
    <3>1. i \in 1..n /\ i \in 2..n /\ n \in 1..n /\ i # n
      BY <1>1, <2>3
    <3>2. line[i] \in Frames /\ line[i] # line[n] /\ line[i] \in new
      BY <1>2, <3>1
    <3>3. QED
      BY <1>5, <3>2
  <2>4. QED
    BY <2>1, <2>2, <2>3
<1>8. \A i \in 2..n : parent'[line[i]] = line[i - 1]
  BY <1>1, <1>2, <1>4, <1>5
<1>9. \A f \in Frames : (\A i \in 2..n : f # line[i]) =>
          kind'[f] = kind[f] /\ parent'[f] = parent[f]
  BY <1>1, <1>5
<1>10. parent' \in [Frames -> Frames \cup {NoFrame}]
  <2>1. \A i \in 2..n : line[i - 1] \in Frames
    BY <1>1, <1>2
  <2>2. ASSUME NEW f \in Frames PROVE parent'[f] \in Frames \cup {NoFrame}
    <3>1. CASE \E i \in 2..n : f = line[i]
      BY <1>8, <2>1, <3>1
    <3>2. CASE \A i \in 2..n : f # line[i]
      BY <1>6, <1>9, <3>2
    <3>3. QED
      BY <3>1, <3>2
  <2>3. QED
    BY <1>5, <2>2
<1>11. \A i \in 1..(n - 1) : kids'[line[i]] = kids[line[i]] \cup {line[i + 1]}
  BY <1>1, <1>2, <1>4, <1>5 DEF PushChild
<1>12. \A f \in Frames : (\A i \in 1..(n - 1) : f # line[i]) => kids'[f] = kids[f]
  BY <1>1, <1>5
<1>13. kids' \in [Frames -> SUBSET Frames]
  <2>1. \A i \in 1..(n - 1) : line[i + 1] \in Frames
    BY <1>1, <1>2
  <2>2. ASSUME NEW f \in Frames PROVE kids'[f] \in SUBSET Frames
    <3>1. CASE \E i \in 1..(n - 1) : f = line[i]
      <4>1. PICK i \in 1..(n - 1) : f = line[i]
        BY <3>1
      <4>2. kids'[f] = kids[f] \cup {line[i + 1]} /\ line[i + 1] \in Frames
        BY <1>11, <2>1, <4>1
      <4>3. QED
        BY <1>6, <4>2
    <3>2. CASE \A i \in 1..(n - 1) : f # line[i]
      BY <1>6, <1>12, <3>2
    <3>3. QED
      BY <3>1, <3>2
  <2>3. QED
    BY <1>5, <2>2
<1>14. DetachedTo(w, victim, n, line)
  BY <1>1, <1>2, <1>5, <1>7, <1>8, <1>9, <1>10, <1>11, <1>12, <1>13 DEF DetachedTo
<1>15. QED
  BY <1>14 DEF n

(* What a worker pops from its own end of the deque.                       *)
LEMMA FrontLast ==
    ASSUME NEW S, NEW q \in Seq(S), q # <<>>
    PROVE  /\ Front(q) \in Seq(S) /\ Len(Front(q)) = Len(q) - 1
           /\ Last(q) = q[Len(q)] /\ Len(q) \in 1..Len(q) /\ Last(q) \in S
           /\ \A i \in 1..Len(Front(q)) : Front(q)[i] = q[i]
<1>1. Len(q) \in Nat /\ Len(q) > 0
  OBVIOUS
<1>2. Len(q) \in 1..Len(q) /\ Last(q) = q[Len(q)] /\ q[Len(q)] \in S
  BY <1>1 DEF Last
<1>3. PICK m : m = Len(q) - 1
  OBVIOUS
<1>4. 1 \in Int /\ m \in Int /\ \A i \in 1..m : q[i] \in S
  <2>1. ASSUME NEW i \in 1..m PROVE i \in 1..Len(q)
    BY <1>1, <1>3
  <2>2. QED
    BY <1>1, <1>3, <2>1
<1>5. /\ SubSeq(q, 1, m) \in Seq(S)
      /\ Len(SubSeq(q, 1, m)) = IF 1 <= m THEN m - 1 + 1 ELSE 0
      /\ \A i \in 1..(m - 1 + 1) : SubSeq(q, 1, m)[i] = q[1 + i - 1]
  BY <1>4, SubSeqProperties, SMT
<1>6. /\ Front(q) \in Seq(S) /\ Len(Front(q)) = Len(q) - 1
      /\ \A i \in 1..Len(Front(q)) : Front(q)[i] = q[i]
  BY <1>1, <1>3, <1>5 DEF Front
<1>7. QED
  BY <1>2, <1>6

(* Every step of a worker keeps the types.                                 *)
LEMMA NextType ==
    ASSUME Basic, NEW w \in Workers, WorkerStep(w)
    PROVE  TypeOK'
<1> DEFINE Labels == {"unbound", "work", "sync", "return", "search", "own", "random"}
<1>1. TypeOK /\ w \in Workers /\ WorkerOK(w)
  BY DEF Basic, WorkersOK
<1>2. ASSUME NEW a, NEW b \in Labels, Goto(w, a, b) PROVE pc' \in [Workers -> Labels]
  BY <1>1, <1>2 DEF TypeOK, Goto
<1>3. 1 \in 0..MaxCalls /\ 0 \in 0..MaxCalls /\ 1 \in Nat /\ 0 \in Nat
  BY FramesAssumption
<1>4. CASE Bind(w)
  <2>1. pc' \in [Workers -> Labels]
    BY <1>2, <1>4 DEF Bind
  <2>2. frame_ff' \in [Workers -> Frames \cup {NoFrame}]
    BY <1>1, <1>4 DEF Bind, TypeOK, Free, MakeRunnable
  <2>3. /\ kind' \in [Frames -> {"free", "initial", "call", "spawn"}]
        /\ join' \in [Frames -> Nat] /\ home' \in [Frames -> Users \cup {Nobody}]
    BY <1>1, <1>4 DEF Bind, TypeOK, Free
  <2>4. team' \in [Workers -> Users \cup {Nobody}] /\ calls' \in [Workers -> 0..MaxCalls]
    BY <1>1, <1>3, <1>4 DEF Bind, TypeOK
  <2>5. QED
    BY <1>1, <1>4, <2>1, <2>2, <2>3, <2>4 DEF Bind, TypeOK
<1>5. CASE ReturnFromInitial(w)
  <2>1. pc' \in [Workers -> Labels]
    BY <1>2, <1>5 DEF ReturnFromInitial
  <2>2. QED
    BY <1>1, <1>3, <1>5, <2>1 DEF ReturnFromInitial, TypeOK, Destroy
<1>6. CASE Call(w)
  <2>1. calls' \in [Workers -> 0..MaxCalls]
    BY <1>1, <1>6, FramesAssumption DEF Call, TypeOK
  <2>2. QED
    BY <1>1, <1>6, <2>1 DEF Call, TypeOK, tree, ownership
<1>7. CASE Return(w)
  <2>1. calls' \in [Workers -> 0..MaxCalls]
    BY <1>1, <1>7, FramesAssumption DEF Return, TypeOK
  <2>2. QED
    BY <1>1, <1>7, <2>1 DEF Return, TypeOK, tree, ownership
<1>8. CASE Spawn(w)
  <2>1. calls' \in [Workers -> 0..MaxCalls]
    BY <1>1, <1>3, <1>8 DEF Spawn, TypeOK
  <2>2. calls[w] \in 1..MaxCalls
    BY <1>1, <1>8, AtWork, FramesAssumption DEF Spawn, TypeOK
  <2>3. deque' \in [Workers -> Seq(1..MaxCalls)]
    BY <1>1, <1>8, <2>2 DEF Spawn, TypeOK
  <2>4. QED
    BY <1>1, <1>8, <2>1, <2>3 DEF Spawn, TypeOK, tree, ownership
<1>9. CASE ReturnAttached(w)
  <2>1. deque[w] \in Seq(1..MaxCalls) /\ deque[w] # <<>>
    BY <1>1, <1>9 DEF ReturnAttached, TypeOK
  <2>2. Front(deque[w]) \in Seq(1..MaxCalls) /\ Last(deque[w]) \in 1..MaxCalls
    BY <2>1, FrontLast, Zenon
  <2>5. 1..MaxCalls \subseteq 0..MaxCalls
    BY FramesAssumption
  <2>3. calls' \in [Workers -> 0..MaxCalls] /\ deque' \in [Workers -> Seq(1..MaxCalls)]
    BY <1>1, <1>9, <2>2, <2>5 DEF ReturnAttached, TypeOK
  <2>4. QED
    BY <1>1, <1>9, <2>3 DEF ReturnAttached, TypeOK, tree, ownership
<1>10. CASE SpawnPending(w)
  <2>1. PICK p \in Free :
            /\ kind' = [kind EXCEPT ![p] = "spawn"]
            /\ parent' = [parent EXCEPT ![p] = frame_ff[w]]
            /\ home' = [home EXCEPT ![p] = team[w]]
            /\ kids' = [kids EXCEPT ![frame_ff[w]] = PushChild(frame_ff[w], p)]
            /\ join' = IncJoin(frame_ff[w])
            /\ unsynched' = [unsynched EXCEPT ![frame_ff[w]] = TRUE]
            /\ \/ pending' = pending \cup {p} /\ UNCHANGED ready_list
               \/ ready_list' = [ready_list EXCEPT ![w] = @ \cup {p}] /\ UNCHANGED pending
            /\ UNCHANGED <<sync_master, pc, ownership, last_full_frame, team, stack>>
    BY <1>10 DEF SpawnPending
  <2>2. p \in Frames /\ frame_ff[w] \in Frames
    BY <1>10, AtWork DEF SpawnPending, AtFullFrame, Free
  <2>3. join' \in [Frames -> Nat]
    BY <1>1, <2>1, <2>2 DEF TypeOK, IncJoin
  <2>4. kids' \in [Frames -> SUBSET Frames]
    BY <1>1, <2>1, <2>2 DEF TypeOK, PushChild
  <2>5. pending' \in SUBSET Frames /\ ready_list' \in [Workers -> SUBSET Frames]
    <3>1. pending \in SUBSET Frames /\ ready_list \in [Workers -> SUBSET Frames]
      BY <1>1 DEF TypeOK
    <3>2. CASE pending' = pending \cup {p} /\ UNCHANGED ready_list
      BY <2>2, <3>1, <3>2
    <3>3. CASE ready_list' = [ready_list EXCEPT ![w] = @ \cup {p}] /\ UNCHANGED pending
      BY <1>1, <2>2, <3>1, <3>3
    <3>4. QED
      BY <2>1, <3>2, <3>3
  <2>6. QED
    BY <1>1, <2>1, <2>2, <2>3, <2>4, <2>5 DEF TypeOK, ownership, stack
<1>11. CASE Release(w)
  <2>1. pending' \in SUBSET Frames /\ ready_list' \in [Workers -> SUBSET Frames]
    BY <1>1, <1>11 DEF TypeOK, Release, Waiting
  <2>2. QED
    BY <1>1, <1>11, <2>1 DEF TypeOK, Release, ownership, stack
<1>12. CASE Sync(w)
  <2>1. pc' \in [Workers -> Labels]
    BY <1>2, <1>12 DEF Sync
  <2>2. QED
    BY <1>1, <1>3, <1>12, <2>1 DEF Sync, TypeOK, tree, FrameLeft
<1>13. CASE DoSync(w)
  <2>1. pc' \in [Workers -> Labels]
    BY <1>2, <1>13 DEF DoSync
  <2>2. held[w] \in Frames /\ join[held[w]] # 0
    BY <1>13, HeldFrame DEF DoSync, Goto
  <2>3. ProvablyGoodSteal(w, held[w])
    BY <1>13 DEF DoSync
  <2>4. /\ join' \in [Frames -> Nat]
        /\ unsynched' \in [Frames -> BOOLEAN]
        /\ sync_master' \in [Frames -> Users \cup {Nobody}]
        /\ last_full_frame' \in [Workers -> Frames \cup {NoFrame}]
        /\ next_frame_ff' \in [Workers -> Frames \cup {NoFrame}]
    BY <1>1, <2>2, <2>3, CrossType
  <2>5. QED
    BY <1>1, <1>13, <2>1, <2>4 DEF DoSync, TypeOK, stack
<1>14. CASE LoseReturn(w)
  <2>1. pc' \in [Workers -> Labels]
    BY <1>2, <1>14 DEF LoseReturn
  <2>2. frame_ff[w] \in Frames /\ join[frame_ff[w]] # 0
    BY <1>14, AtWork, Counted DEF LoseReturn, AtFullFrame
  <2>3. join' \in [Frames -> Nat]
    BY <1>1, <1>14, <2>2, DropType DEF LoseReturn
  <2>4. kids' \in [Frames -> SUBSET Frames]
    BY <1>1, <1>14 DEF LoseReturn, UnlinkChild, TypeOK
  <2>5. QED
    BY <1>1, <1>3, <1>14, <2>1, <2>3, <2>4 DEF LoseReturn, TypeOK
<1>15. CASE DoReturnFromSpawn(w)
  <2>1. pc' \in [Workers -> Labels]
    BY <1>2, <1>15 DEF DoReturnFromSpawn
  <2>2. held[w] \in Frames /\ parent[held[w]] \in Frames /\ join[parent[held[w]]] # 0
    BY <1>15, HeldFrame DEF DoReturnFromSpawn, Goto
  <2>3. ProvablyGoodSteal(w, parent[held[w]])
    BY <1>15 DEF DoReturnFromSpawn
  <2>4. /\ join' \in [Frames -> Nat]
        /\ unsynched' \in [Frames -> BOOLEAN]
        /\ sync_master' \in [Frames -> Users \cup {Nobody}]
        /\ last_full_frame' \in [Workers -> Frames \cup {NoFrame}]
        /\ next_frame_ff' \in [Workers -> Frames \cup {NoFrame}]
    BY <1>1, <2>2, <2>3, CrossType
  <2>5. QED
    BY <1>1, <1>15, <2>1, <2>4 DEF DoReturnFromSpawn, TypeOK, stack, Destroy
<1>16. CASE ReturnFromCall(w)
  <2>1. frame_ff[w] \in Frames /\ join[frame_ff[w]] # 0
    BY <1>16, AtWork, Counted DEF ReturnFromCall, AtFullFrame
  <2>2. join' \in [Frames -> Nat]
    BY <1>1, <1>16, <2>1, DropType DEF ReturnFromCall
  <2>3. kids' \in [Frames -> SUBSET Frames]
    BY <1>1, <1>16 DEF ReturnFromCall, UnlinkChild, TypeOK
  <2>4. parent[frame_ff[w]] \in Frames \cup {NoFrame}
    BY <1>1, <2>1 DEF TypeOK
  <2>5. QED
    BY <1>1, <1>16, <2>2, <2>3, <2>4 DEF ReturnFromCall, TypeOK, Destroy, MakeRunnable, stack
<1>17. CASE Resume(w)
  <2>1. pc' \in [Workers -> Labels]
    BY <1>2, <1>17 DEF Resume
  <2>2. next_frame_ff[w] \in Frames \cup {NoFrame}
    BY <1>1 DEF TypeOK
  <2>3. QED
    BY <1>1, <1>3, <1>17, <2>1, <2>2 DEF Resume, TypeOK, tree, MakeRunnable, PopNextFrame
<1>18. CASE FindQueueEmpty(w)
  <2>1. pc' \in [Workers -> Labels]
    BY <1>2, <1>18 DEF FindQueueEmpty
  <2>2. QED
    BY <1>1, <1>18, <2>1 DEF FindQueueEmpty, TypeOK, tree, ownership, stack
<1>19. ASSUME NEW victim \in Workers, StealReady(w, victim), pc' \in [Workers -> Labels]
       PROVE  TypeOK'
  <2>1. PICK p \in ready_list[victim] :
            /\ ready_list' = [ready_list EXCEPT ![victim] = @ \ {p}]
            /\ team' = [team EXCEPT ![w] = home[p]]
            /\ SetSyncMaster(victim, p)
            /\ join' = IncJoin(p)
            /\ next_frame_ff' = [next_frame_ff EXCEPT ![w] = p]
            /\ UNCHANGED <<kind, parent, kids, unsynched, home, pending, frame_ff, held, stack>>
    BY <1>19 DEF StealReady, PushNextFrame
  <2>2. p \in Frames /\ home[p] \in Users \cup {Nobody}
    BY <1>1, <1>19 DEF TypeOK
  <2>3. join' \in [Frames -> Nat] /\ ready_list' \in [Workers -> SUBSET Frames]
    BY <1>1, <2>1, <2>2 DEF TypeOK, IncJoin
  <2>4. /\ sync_master' \in [Frames -> Users \cup {Nobody}]
        /\ last_full_frame' \in [Workers -> Frames \cup {NoFrame}]
    BY <1>1, <2>1, <2>2 DEF TypeOK, SetSyncMaster, NeedsMaster
  <2>5. QED
    BY <1>1, <1>19, <2>1, <2>2, <2>3, <2>4 DEF TypeOK, stack
<1>20. CASE StealOwn(w)
  BY <1>2, <1>19, <1>20 DEF StealOwn
<1>21. CASE NothingOwn(w)
  <2>1. pc' \in [Workers -> Labels]
    BY <1>2, <1>21 DEF NothingOwn
  <2>2. QED
    BY <1>1, <1>21, <2>1 DEF NothingOwn, TypeOK, tree, ownership, stack
<1>22. CASE StealNothing(w)
  <2>1. pc' \in [Workers -> Labels]
    BY <1>2, <1>22 DEF StealNothing
  <2>2. QED
    BY <1>1, <1>22, <2>1 DEF StealNothing, TypeOK, tree, ownership, stack
<1>23. ASSUME NEW victim \in Workers, StealReadyFrom(w, victim) PROVE TypeOK'
  BY <1>2, <1>19, <1>23 DEF StealReadyFrom
<1>24. ASSUME NEW victim \in Workers, Steal(w, victim) PROVE TypeOK'
  <2>1. pc' \in [Workers -> Labels]
    BY <1>2, <1>24 DEF Steal
  <2>2. PICK n, line : n = Head(deque[victim]) + 1 /\ DetachedTo(w, victim, n, line)
    BY <1>24, Detached
  <2>3. /\ n \in Nat /\ n > 1 /\ line \in [1..n -> Frames]
        /\ line[1] = frame_ff[victim]
    BY <2>2 DEF DetachedTo
  <2>4. /\ kind' \in [Frames -> {"free", "initial", "call", "spawn"}]
        /\ parent' \in [Frames -> Frames \cup {NoFrame}]
        /\ kids' \in [Frames -> SUBSET Frames]
        /\ join' = DetachedJoin(line[1], {line[i] : i \in 1..(n - 1)}, line[n - 1], line[n])
        /\ unsynched' = [unsynched EXCEPT ![line[n - 1]] = TRUE]
        /\ SetSyncMaster(victim, line[n - 1])
        /\ next_frame_ff' = [next_frame_ff EXCEPT ![w] = line[n - 1]]
        /\ frame_ff' = [frame_ff EXCEPT ![victim] = line[n]]
    BY <2>2 DEF DetachedTo
  <2>5. line[n] \in Frames /\ line[n - 1] \in Frames
    BY <2>3
  <2>6. join' \in [Frames -> Nat]
    <3>1. join \in [Frames -> Nat] /\ join[line[1]] # 0
      BY <1>1, <1>24, <2>3, AtWork, Counted DEF Steal, TypeOK
    <3>2. \A f \in Frames : join'[f] \in Nat
      BY <2>4, <3>1 DEF DetachedJoin
    <3>3. QED
      BY <2>4, <3>2 DEF DetachedJoin
  <2>7. /\ sync_master' \in [Frames -> Users \cup {Nobody}]
        /\ last_full_frame' \in [Workers -> Frames \cup {NoFrame}]
        /\ unsynched' \in [Frames -> BOOLEAN]
        /\ next_frame_ff' \in [Workers -> Frames \cup {NoFrame}]
        /\ frame_ff' \in [Workers -> Frames \cup {NoFrame}]
    <3>1. /\ sync_master \in [Frames -> Users \cup {Nobody}]
          /\ last_full_frame \in [Workers -> Frames \cup {NoFrame}]
          /\ unsynched \in [Frames -> BOOLEAN]
          /\ next_frame_ff \in [Workers -> Frames \cup {NoFrame}]
          /\ frame_ff \in [Workers -> Frames \cup {NoFrame}]
      BY <1>1 DEF TypeOK
    <3>2. /\ sync_master' \in [Frames -> Users \cup {Nobody}]
          /\ last_full_frame' \in [Workers -> Frames \cup {NoFrame}]
      BY <2>4, <2>5, <3>1 DEF SetSyncMaster, NeedsMaster
    <3>3. /\ unsynched' \in [Frames -> BOOLEAN]
          /\ next_frame_ff' \in [Workers -> Frames \cup {NoFrame}]
          /\ frame_ff' \in [Workers -> Frames \cup {NoFrame}]
      BY <2>4, <2>5, <3>1
    <3>4. QED
      BY <3>2, <3>3
  <2>8. deque' \in [Workers -> Seq(1..MaxCalls)]
    BY <1>1, <1>24, LineOf DEF TypeOK, Steal
  <2>9. team' \in [Workers -> Users \cup {Nobody}]
    BY <1>1, <1>24 DEF TypeOK, Steal, JoinTeam
  <2>10. QED
    BY <1>1, <1>24, <2>1, <2>4, <2>6, <2>7, <2>8, <2>9 DEF TypeOK, Steal
<1>25. QED
  BY <1>4, <1>5, <1>6, <1>7, <1>8, <1>9, <1>10, <1>11, <1>12, <1>13, <1>14, <1>15, <1>16,
     <1>17, <1>18, <1>20, <1>21, <1>22, <1>23, <1>24 DEF WorkerStep

-----------------------------------------------------------------------------
(* The labels' types. *)
Labelling(root, par, trunk) ==
    root \in [Frames -> Frames] /\ par \in SUBSET Frames /\ trunk \in SUBSET Frames

(* What the labels say of a frame.                                         *)
LEMMA LabelFacts ==
    ASSUME NEW root, NEW par, NEW trunk, Labelling(root, par, trunk), Inv(root, par, trunk),
           NEW f \in Frames
    PROVE  /\ parent[f] = NoFrame => root[f] = f
           /\ parent[f] # NoFrame => parent[f] \in Frames /\ root[f] = root[parent[f]]
           /\ f \in par => kind[f] # "free"
           /\ f \in trunk => kind[f] \in {"initial", "call"}
           /\ kind[f] = "spawn" => f \in par
           /\ kind[f] # "free" /\ unsynched[f] => f \in par
           /\ kind[f] # "free" =>
                 /\ root[f] \in Frames /\ kind[root[f]] = "initial"
                 /\ home[root[f]] \in Users /\ pc[home[root[f]]] # "unbound"
           /\ sync_master[f] # Nobody =>
                 /\ f \in par /\ f \in trunk /\ unsynched[f] /\ kind[f] # "free"
                 /\ sync_master[f] \in Users /\ sync_master[f] = home[root[f]]
                 /\ last_full_frame[sync_master[f]] = f
<1>1. TypeOK /\ ShapeOK /\ RootsOK(root) /\ LabelsOK(par, trunk) /\ MastersOK(root, par, trunk)
  BY DEF Inv
<1>2. root[f] \in Frames
  BY DEF Labelling
<1>3. parent[f] \in Frames \cup {NoFrame} /\ kind[f] \in {"free", "initial", "call", "spawn"}
  BY <1>1 DEF TypeOK
<1>4. /\ parent[f] = NoFrame => root[f] = f
      /\ parent[f] # NoFrame => parent[f] \in Frames /\ root[f] = root[parent[f]]
  BY <1>1, <1>3 DEF RootsOK
<1>5. sync_master[f] # Nobody => kind[f] # "free" /\ sync_master[f] \in Users
  BY <1>1 DEF ShapeOK, TypeOK
<1>6. f \in par => kind[f] # "free"
  BY <1>1, <1>5 DEF LabelsOK, ShapeOK
<1>7. f \in trunk => kind[f] \in {"initial", "call"}
  BY <1>1 DEF LabelsOK
<1>8. kind[f] # "free" /\ (kind[f] = "spawn" \/ unsynched[f]) => f \in par
  BY <1>1, <1>7 DEF MastersOK
<1>9. kind[f] # "free" =>
          /\ root[f] \in Frames /\ kind[root[f]] = "initial"
          /\ home[root[f]] \in Users /\ pc[home[root[f]]] # "unbound"
  BY <1>1, <1>2 DEF RootsOK
<1>10. sync_master[f] # Nobody =>
          /\ f \in par /\ f \in trunk /\ unsynched[f]
          /\ sync_master[f] = home[root[f]] /\ last_full_frame[sync_master[f]] = f
  BY <1>1 DEF LabelsOK, MastersOK
<1>11. QED
  BY <1>4, <1>5, <1>6, <1>7, <1>8, <1>9, <1>10

(* The invariant's parts, each by its name.                                *)
LEMMA InvBasic ==
    ASSUME NEW root, NEW par, NEW trunk, Inv(root, par, trunk)
    PROVE  /\ Basic /\ TypeOK /\ WorkersOK /\ ShapeOK /\ CallsOK /\ Acyclic
           /\ PlacesOK /\ OwnersOK /\ JoinOK
           /\ RootsOK(root) /\ TeamsOK(root) /\ LabelsOK(par, trunk)
           /\ MastersOK(root, par, trunk)
BY DEF Inv, Basic

(* Whoever is about to cross the sync of a frame with a sync master has    *)
(* the last reference to what runs of that computation: below the frame    *)
(* there is nothing but the child that returns.  Climbing from any other   *)
(* frame there would not end, as only this frame has a sync master.        *)
LEMMA Alone ==
    ASSUME NEW root, NEW par, NEW trunk, Labelling(root, par, trunk), Inv(root, par, trunk),
           NEW w \in Workers, NEW m \in Frames, AboutToCross(w, m), sync_master[m] # Nobody,
           NEW g \in par, home[root[g]] = sync_master[m]
    PROVE  g = m \/ (pc[w] = "return" /\ g = held[w])
<1>1. Basic /\ JoinOK /\ Acyclic /\ LabelsOK(par, trunk) /\ join[m] = 1
  BY InvBasic DEF AboutToCross
<1>2. last_full_frame[sync_master[m]] = m
  BY LabelFacts
<1> DEFINE Odd(x) == x # m /\ ~(pc[w] = "return" /\ x = held[w])
           G == {x \in par : home[root[x]] = sync_master[m] /\ Odd(x)}
<1>3. SUFFICES ASSUME G # {} PROVE FALSE
  OBVIOUS
<1>4. G \in SUBSET Frames
  BY DEF Labelling
<1>5. PICK x \in G : parent[x] \notin G
  BY <1>1, <1>3, <1>4 DEF Acyclic
<1>6. x \in Frames /\ x \in par /\ home[root[x]] = sync_master[m] /\ Odd(x)
  BY <1>4, <1>5
<1>7. sync_master[x] = Nobody
  BY <1>2, <1>6, LabelFacts
<1>8. parent[x] # NoFrame /\ parent[x] \in par
  BY <1>1, <1>6, <1>7 DEF LabelsOK
<1>9. parent[x] \in Frames /\ home[root[parent[x]]] = sync_master[m]
  BY <1>6, <1>8, LabelFacts
<1>10. ~Odd(parent[x])
  BY <1>5, <1>8, <1>9
<1>11. CASE parent[x] = m
  <2>1. x \in Children(m)
    BY <1>6, <1>11 DEF Children
  <2>2. Children(m) = {x} /\ ~Owned(m)
    BY <1>1, <2>1, JoinOne
  <2>3. CASE pc[w] = "sync" /\ held[w] = m
    BY <1>1, <2>2, <2>3, HeldFrame
  <2>4. CASE pc[w] = "return" /\ parent[held[w]] = m
    <3>1. held[w] \in Children(m)
      BY <1>1, <2>4, HeldFrame
    <3>2. QED
      BY <1>6, <2>2, <2>4, <3>1
  <2>5. QED
    BY <2>3, <2>4 DEF AboutToCross
<1>12. CASE pc[w] = "return" /\ parent[x] = held[w]
  <2>1. held[w] \in Frames /\ join[held[w]] = 0
    BY <1>1, <1>12, HeldFrame
  <2>2. x \in Children(held[w])
    BY <1>6, <1>12 DEF Children
  <2>3. QED
    BY <1>1, <2>1, <2>2, JoinZero
<1>13. QED
  BY <1>10, <1>11, <1>12

(* So the sync master has nothing to do, and the frame that is pushed to   *)
(* it overwrites none.                                                     *)
LEMMA MasterFree ==
    ASSUME NEW root, NEW par, NEW trunk, Labelling(root, par, trunk), Inv(root, par, trunk),
           NEW w \in Workers, NEW m \in Frames, AboutToCross(w, m),
           NEW u, u = sync_master[m], u # Nobody
    PROVE  /\ u \in Users /\ u = home[root[m]] /\ team[w] = u /\ team[u] = u
           /\ last_full_frame[u] = m
           /\ frame_ff[u] = NoFrame /\ next_frame_ff[u] = NoFrame
           /\ u # w => pc[u] \in {"search", "own", "random"}
<1>1. /\ Basic /\ TypeOK /\ TeamsOK(root) /\ MastersOK(root, par, trunk) /\ PlacesOK
      /\ join[m] = 1
  BY InvBasic DEF AboutToCross
<1>2. /\ u \in Users /\ u = home[root[m]] /\ last_full_frame[u] = m /\ kind[m] # "free"
      /\ pc[u] # "unbound" /\ m \in par
  BY LabelFacts
<1>3. u \in Workers /\ team[u] = u
  BY <1>1, <1>2 DEF Workers, TeamsOK
<1>4. team[w] = u
  <2>1. CASE pc[w] = "sync" /\ held[w] = m
    <3>1. Runs(w, m)
      BY <1>1, <2>1, HeldFrame
    <3>2. QED
      BY <1>1, <1>2, <3>1 DEF TeamsOK
  <2>2. CASE pc[w] = "return" /\ parent[held[w]] = m
    <3>1. Returning(w, held[w]) /\ held[w] \in Frames /\ parent[held[w]] # NoFrame
      BY <1>1, <2>2, HeldFrame, FrameNumbers
    <3>2. root[held[w]] = root[m]
      BY <2>2, <3>1, LabelFacts
    <3>3. QED
      BY <1>1, <1>2, <3>1, <3>2 DEF TeamsOK
  <2>3. QED
    BY <2>1, <2>2 DEF AboutToCross
<1>5. ASSUME NEW g \in Frames, Runs(u, g) PROVE u = w /\ pc[w] = "sync" /\ g = m
  <2>1. home[root[g]] = u /\ kind[g] # "free" /\ Owned(g)
    BY <1>1, <1>3, <1>5 DEF TeamsOK, Owned, Basic, OwnersOK
  <2>2. g \in par
    BY <1>1, <1>2, <1>3, <1>5, <2>1, FrameNumbers DEF MastersOK
  <2>3. g = m \/ (pc[w] = "return" /\ g = held[w])
    BY <2>1, <2>2, Alone
  <2>4. ~(pc[w] = "return" /\ g = held[w])
    BY <1>1, <2>1, HeldFrame, JoinZero DEF Basic
  <2>5. g = m
    BY <2>3, <2>4
  <2>6. CASE pc[w] = "return" /\ parent[held[w]] = m
    <3>1. held[w] \in Children(m)
      BY <1>1, <2>6, HeldFrame
    <3>2. QED
      BY <1>1, <2>1, <2>5, <3>1, JoinOne DEF Basic
  <2>7. CASE pc[w] = "sync" /\ held[w] = m
    <3>1. Runs(w, m)
      BY <1>1, <2>7, HeldFrame
    <3>2. QED
      BY <1>1, <1>3, <1>5, <2>5, <2>7, <3>1 DEF Basic, OwnersOK
  <2>8. QED
    BY <2>6, <2>7 DEF AboutToCross
<1>6. frame_ff[u] = NoFrame /\ next_frame_ff[u] = NoFrame
  <2>1. ASSUME frame_ff[u] # NoFrame \/ next_frame_ff[u] # NoFrame PROVE FALSE
    <3>1. PICK g \in Frames : g = frame_ff[u] \/ g = next_frame_ff[u]
      BY <1>1, <1>3, <2>1 DEF TypeOK
    <3>2. Runs(u, g)
      BY <3>1 DEF Runs
    <3>3. u = w /\ pc[w] = "sync"
      BY <1>5, <3>2
    <3>4. QED
      BY <1>1, <2>1, <3>3, HeldFrame
  <2>2. QED
    BY <2>1
<1>7. ASSUME u # w PROVE pc[u] \in {"search", "own", "random"}
  <2>1. pc[u] \in {"unbound", "work", "sync", "return", "search", "own", "random"}
    BY <1>1, <1>3 DEF TypeOK
  <2>2. pc[u] # "work"
    BY <1>1, <1>3, <1>6, AtWork, FrameNumbers
  <2>3. pc[u] # "sync"
    <3>1. pc[u] = "sync" => Runs(u, held[u]) /\ held[u] \in Frames
      BY <1>1, <1>3, HeldFrame
    <3>2. QED
      BY <1>5, <1>7, <3>1
  <2>4. ASSUME pc[u] = "return" PROVE FALSE
    <3>1. /\ Returning(u, held[u]) /\ held[u] \in Frames /\ kind[held[u]] = "spawn"
          /\ join[held[u]] = 0
      BY <1>1, <1>3, <2>4, HeldFrame
    <3>2. held[u] \in par /\ home[root[held[u]]] = u
      BY <1>1, <1>3, <3>1, LabelFacts DEF TeamsOK
    <3>3. pc[w] = "return" /\ held[u] = held[w]
      BY <1>1, <3>1, <3>2, Alone
    <3>4. Returning(w, held[u])
      BY <3>3 DEF Returning
    <3>5. QED
      BY <1>1, <1>3, <1>7, <3>1, <3>4 DEF PlacesOK
  <2>5. QED
    BY <1>2, <2>1, <2>2, <2>3, <2>4
<1>8. QED
  BY <1>2, <1>3, <1>4, <1>6, <1>7

(* A thief runs nothing, not even a frame that was pushed to it while it   *)
(* looked for work: such a frame comes when the last one of its team ended.*)
LEMMA ThiefIdle ==
    ASSUME NEW root, NEW par, NEW trunk, Labelling(root, par, trunk), Inv(root, par, trunk),
           NEW w \in Workers, pc[w] \in {"own", "random"},
           w \in Users => \E f \in par : home[root[f]] = w
    PROVE  /\ next_frame_ff[w] = NoFrame /\ frame_ff[w] = NoFrame /\ held[w] = NoFrame
           /\ \A f \in Frames : ~Runs(w, f) /\ ~Returning(w, f)
<1>1. WorkerOK(w) /\ MastersOK(root, par, trunk)
  BY DEF Inv, WorkersOK
<1>2. w \in Users => last_full_frame[w] # NoFrame
  BY <1>1 DEF MastersOK
<1>3. next_frame_ff[w] = NoFrame /\ frame_ff[w] = NoFrame /\ held[w] = NoFrame
  BY <1>1, <1>2 DEF WorkerOK
<1>4. \A f \in Frames : ~Runs(w, f)
  BY <1>3, InvBasic, Idle
<1>5. QED
  BY <1>3, <1>4 DEF Returning

(* A frame on a ready list is a spawned one, in the team of that worker.   *)
LEMMA ReadyFrame ==
    ASSUME NEW root, NEW par, NEW trunk, Labelling(root, par, trunk), Inv(root, par, trunk),
           NEW victim \in Workers, NEW p \in ready_list[victim]
    PROVE  /\ p \in Frames /\ p \in par /\ kind[p] = "spawn" /\ join[p] = 0 /\ ~Owned(p)
           /\ p \notin pending /\ sync_master[p] = Nobody
           /\ home[p] = home[root[p]] /\ home[p] \in Users /\ team[victim] = home[p]
           /\ ~NeedsMaster(victim)
<1>1. TypeOK /\ PlacesOK /\ JoinOK /\ TeamsOK(root) /\ MastersOK(root, par, trunk)
  BY InvBasic
<1>2. /\ p \in Frames /\ kind[p] = "spawn" /\ join[p] = 0 /\ p \notin pending
      /\ home[p] = home[root[p]] /\ team[victim] = home[p]
  BY <1>1 DEF TypeOK, PlacesOK, TeamsOK
<1>3. p \in par /\ home[p] \in Users /\ sync_master[p] = Nobody
  BY <1>2, LabelFacts
<1>4. ~NeedsMaster(victim)
  <2>1. ASSUME victim \in Users PROVE last_full_frame[victim] # NoFrame
    <3>1. team[victim] \in {victim, Nobody}
      BY <1>1, <2>1 DEF TeamsOK
    <3>2. team[victim] = victim
      BY <1>2, <1>3, <3>1, FramesAssumption
    <3>3. last_full_frame[home[root[p]]] # NoFrame
      BY <1>1, <1>3 DEF MastersOK
    <3>4. QED
      BY <1>2, <3>2, <3>3
  <2>2. QED
    BY <2>1 DEF NeedsMaster
<1>5. QED
  BY <1>1, <1>2, <1>3, <1>4, JoinZero

(* Who takes a ready frame has no other, and may work for that team.       *)
LEMMA ThiefOfReady ==
    ASSUME NEW root, NEW par, NEW trunk, Labelling(root, par, trunk), Inv(root, par, trunk),
           NEW w \in Workers, NEW victim \in Workers, NEW p \in ready_list[victim],
           \/ pc[w] = "own" /\ victim = w
           \/ pc[w] = "random" /\ MayStealFrom(w, victim)
    PROVE  /\ next_frame_ff[w] = NoFrame /\ frame_ff[w] = NoFrame /\ held[w] = NoFrame
           /\ \A f \in Frames : ~Runs(w, f) /\ ~Returning(w, f)
           /\ w \in Users => home[p] = w
           /\ ready_list[w] # {} => team[w] = home[p]
<1>1. /\ p \in par /\ home[p] = home[root[p]] /\ home[p] \in Users /\ team[victim] = home[p]
  BY ReadyFrame
<1>2. TeamsOK(root) /\ WorkerOK(w)
  BY DEF Inv, WorkersOK
<1>3. w \in Users => home[p] = w
  <2>1. CASE victim = w
    BY <1>1, <1>2, <2>1, FramesAssumption DEF TeamsOK
  <2>2. CASE MayStealFrom(w, victim)
    BY <1>1, <2>2 DEF MayStealFrom
  <2>3. QED
    BY <2>1, <2>2
<1>4. ready_list[w] # {} => team[w] = home[p]
  BY <1>1, <1>2 DEF WorkerOK
<1>5. w \in Users => \E f \in par : home[root[f]] = w
  BY <1>1, <1>3
<1>6. pc[w] \in {"own", "random"}
  OBVIOUS
<1>7. QED
  BY <1>3, <1>4, <1>5, <1>6, ThiefIdle

(* So has a thief, and only a thread's own worker needs a sync master.     *)
LEMMA ThiefOfWork ==
    ASSUME NEW root, NEW par, NEW trunk, Labelling(root, par, trunk), Inv(root, par, trunk),
           NEW w \in Workers, NEW victim \in Workers, Steal(w, victim)
    PROVE  /\ next_frame_ff[w] = NoFrame /\ frame_ff[w] = NoFrame /\ held[w] = NoFrame
           /\ \A f \in Frames : ~Runs(w, f) /\ ~Returning(w, f)
           /\ ready_list[w] = {} /\ w # victim
           /\ frame_ff[victim] \in Frames
           /\ team[victim] = home[root[frame_ff[victim]]] /\ team[victim] \in Users
           /\ w \in Users => team[victim] = w
           /\ frame_ff[victim] \in par => ~NeedsMaster(victim)
           /\ frame_ff[victim] \notin par =>
                 /\ NeedsMaster(victim) /\ victim = team[victim]
                 /\ frame_ff[victim] \in trunk /\ ~unsynched[frame_ff[victim]]
<1>1. /\ Basic /\ TeamsOK(root) /\ MastersOK(root, par, trunk) /\ WorkerOK(w)
      /\ pc[w] = "random" /\ pc[victim] = "work" /\ MayStealFrom(w, victim)
  BY DEF Inv, WorkersOK, Basic, Steal, Goto
<1>2. /\ frame_ff[victim] \in Frames /\ Runs(victim, frame_ff[victim])
      /\ kind[frame_ff[victim]] # "free"
  BY <1>1, AtWork
<1>3. /\ team[victim] = home[root[frame_ff[victim]]] /\ team[victim] \in Users
  BY <1>1, <1>2, LabelFacts DEF TeamsOK
<1>4. w \in Users => team[victim] = w
  BY <1>1 DEF MayStealFrom
<1>5. ready_list[w] = {} /\ w # victim
  BY <1>1 DEF WorkerOK, MayStealFrom
<1>6. frame_ff[victim] \in par => ~NeedsMaster(victim)
  <2>1. ASSUME frame_ff[victim] \in par, victim \in Users PROVE last_full_frame[victim] # NoFrame
    <3>1. team[victim] = victim
      BY <1>1, <2>1 DEF TeamsOK
    <3>2. last_full_frame[home[root[frame_ff[victim]]]] # NoFrame
      BY <1>1, <2>1 DEF MastersOK
    <3>3. QED
      BY <1>3, <3>1, <3>2
  <2>2. QED
    BY <2>1 DEF NeedsMaster
<1>7. frame_ff[victim] \notin par =>
          /\ NeedsMaster(victim) /\ victim = team[victim]
          /\ frame_ff[victim] \in trunk /\ ~unsynched[frame_ff[victim]]
  BY <1>1, <1>2, <1>3 DEF MastersOK, NeedsMaster
<1>8. w \in Users => \E f \in par : home[root[f]] = w
  BY <1>2, <1>3, <1>4, <1>5, <1>7
<1>9. pc[w] \in {"own", "random"}
  BY <1>1
<1>10. QED
  BY <1>2, <1>3, <1>4, <1>5, <1>6, <1>7, <1>8, <1>9, ThiefIdle

-----------------------------------------------------------------------------
(* Operations that change neither the tree nor who runs a frame.           *)
LEMMA OtherWorker ==
    ASSUME Basic, NEW v \in Workers,
           frame_ff'[v] = frame_ff[v], next_frame_ff'[v] = next_frame_ff[v],
           held'[v] = held[v], pc'[v] = pc[v], calls'[v] = calls[v], deque'[v] = deque[v],
           last_full_frame'[v] \in {last_full_frame[v], NoFrame},
           ready_list'[v] \subseteq ready_list[v],
           pc[v] = "work" => kind'[frame_ff[v]] = kind[frame_ff[v]]
    PROVE  WorkerOK(v)'
<1>1. WorkerOK(v)
  BY DEF Basic, WorkersOK
<1>2. deque'[v] # <<>> => pc[v] = "work"
  BY <1>1 DEF WorkerOK
<1>3. \A i \in 1..Len(deque'[v]) : i > 1 \/ kind'[frame_ff'[v]] = "spawn" => deque'[v][i] > 1
  <2>1. CASE pc[v] = "work"
    BY <1>1, <2>1 DEF WorkerOK
  <2>2. CASE deque[v] = <<>>
    BY <2>2
  <2>3. QED
    BY <1>2, <2>1, <2>2
<1>4. QED
  BY <1>1, <1>3 DEF WorkerOK

(* The invariant stays if the frames do and nobody changes what it runs.   *)
LEMMA Quiet ==
    ASSUME NEW root, NEW par, NEW trunk, Labelling(root, par, trunk), Inv(root, par, trunk),
           TypeOK', WorkersOK',
           UNCHANGED <<tree, ready_list, last_full_frame>>,
           \A v \in Workers, f \in Frames : Runs(v, f)' <=> Runs(v, f),
           \A v \in Workers, f \in Frames : Returning(v, f)' <=> Returning(v, f),
           \A v \in Users : pc'[v] = "unbound" <=> pc[v] = "unbound",
           \A v \in Workers : \/ team'[v] = team[v]
                              \/ /\ v \notin Users /\ ready_list[v] = {}
                                 /\ \A f \in Frames : ~Runs(v, f) /\ ~Returning(v, f)
    PROVE  Inv(root, par, trunk)'
<1>1. /\ ShapeOK /\ CallsOK /\ Acyclic /\ PlacesOK /\ OwnersOK /\ JoinOK
      /\ RootsOK(root) /\ TeamsOK(root) /\ LabelsOK(par, trunk) /\ MastersOK(root, par, trunk)
  BY InvBasic
<1>2. /\ kind' = kind /\ parent' = parent /\ kids' = kids /\ join' = join
      /\ unsynched' = unsynched /\ sync_master' = sync_master /\ home' = home
      /\ pending' = pending /\ ready_list' = ready_list /\ last_full_frame' = last_full_frame
  BY DEF tree
<1>3. \A f \in Frames : Owned(f)' <=> Owned(f)
  BY DEF Owned
<1>4. \A f \in Frames : Children(f)' = Children(f)
  BY <1>2 DEF Children
<1>5. ShapeOK'
  BY <1>1, <1>2 DEF ShapeOK
<1>6. CallsOK'
  BY <1>1, <1>2, <1>3 DEF CallsOK
<1>7. Acyclic'
  BY <1>1, <1>2 DEF Acyclic
<1>8. PlacesOK'
  BY <1>1, <1>2 DEF PlacesOK
<1>9. OwnersOK'
  BY <1>1, <1>2 DEF OwnersOK
<1>10. JoinOK'
  BY <1>1, <1>2, <1>3, <1>4 DEF JoinOK
<1>11. RootsOK(root)'
  <2>1. \A f \in Frames : kind[f] = "initial" => home[f] \in Users /\ pc'[home[f]] # "unbound"
    BY <1>1 DEF RootsOK
  <2>2. QED
    BY <1>1, <1>2, <2>1 DEF RootsOK
<1>12. TeamsOK(root)'
  <2>1. ASSUME NEW u \in Users
        PROVE  team'[u] \in {u, Nobody} /\ (pc'[u] # "unbound" => team'[u] = u)
    <3>1. u \in Workers /\ team'[u] = team[u]
      BY DEF Workers
    <3>2. QED
      BY <1>1, <3>1 DEF TeamsOK
  <2>2. ASSUME NEW v \in Workers, NEW f \in Frames, Runs(v, f)' \/ Returning(v, f)'
        PROVE  team'[v] = home[root[f]]
    BY <1>1, <2>2 DEF TeamsOK
  <2>3. ASSUME NEW v \in Workers, NEW f \in ready_list[v]
        PROVE  home[f] = home[root[f]] /\ team'[v] = home[f]
    BY <1>1 DEF TeamsOK
  <2>4. \A f \in pending : home[f] = home[root[f]]
    BY <1>1 DEF TeamsOK
  <2>5. QED
    BY <1>2, <2>1, <2>2, <2>3, <2>4 DEF TeamsOK
<1>13. LabelsOK(par, trunk)'
  BY <1>1, <1>2 DEF LabelsOK
<1>14. MastersOK(root, par, trunk)'
  BY <1>1, <1>2 DEF MastersOK
<1>15. QED
  BY <1>5, <1>6, <1>7, <1>8, <1>9, <1>10, <1>11, <1>12, <1>13, <1>14 DEF Inv

(* All the state of a worker but its team and its ready list.              *)
Local(v) == <<frame_ff[v], next_frame_ff[v], held[v], pc[v], calls[v], deque[v]>>

(* A worker of which nothing changes runs and returns from what it did.    *)
LEMMA SameRuns ==
    ASSUME NEW v \in Workers, Local(v)' = Local(v)
    PROVE  \A f \in Frames : /\ Runs(v, f)' <=> Runs(v, f)
                             /\ Returning(v, f)' <=> Returning(v, f)
BY DEF Local, Runs, Returning

(* The same where only one worker moves.                                   *)
LEMMA QuietStep ==
    ASSUME NEW root, NEW par, NEW trunk, Labelling(root, par, trunk), Inv(root, par, trunk),
           NEW w \in Workers, WorkerStep(w),
           UNCHANGED <<tree, ready_list, last_full_frame>>,
           \A v \in Workers \ {w} : Local(v)' = Local(v) /\ team'[v] = team[v],
           WorkerOK(w)',
           \A f \in Frames : Runs(w, f)' <=> Runs(w, f),
           \A f \in Frames : Returning(w, f)' <=> Returning(w, f),
           pc'[w] = "unbound" <=> pc[w] = "unbound",
           \/ team'[w] = team[w]
           \/ /\ w \notin Users /\ ready_list[w] = {}
              /\ \A f \in Frames : ~Runs(w, f) /\ ~Returning(w, f)
    PROVE  Inv(root, par, trunk)'
<1>1. Basic /\ TypeOK /\ UNCHANGED <<tree, ready_list, last_full_frame>>
  BY InvBasic
<1>2. TypeOK'
  BY <1>1, NextType
<1>3. \A v \in Workers, f \in Frames : (Runs(v, f)' <=> Runs(v, f))
                                       /\ (Returning(v, f)' <=> Returning(v, f))
  BY SameRuns
<1>4. WorkersOK'
  <2>1. ASSUME NEW v \in Workers, v # w PROVE WorkerOK(v)'
    BY <1>1, <2>1, OtherWorker DEF Local, tree
  <2>2. QED
    BY <2>1 DEF WorkersOK, Workers
<1>5. \A v \in Users : pc'[v] = "unbound" <=> pc[v] = "unbound"
  <2>1. Users \subseteq Workers
    BY DEF Workers
  <2>2. QED
    BY <2>1 DEF Local
<1>6. \A v \in Workers : \/ team'[v] = team[v]
                         \/ /\ v \notin Users /\ ready_list[v] = {}
                            /\ \A f \in Frames : ~Runs(v, f) /\ ~Returning(v, f)
  OBVIOUS
<1>7. QED
  BY <1>1, <1>2, <1>3, <1>4, <1>5, <1>6, Quiet

(* Calls, returns and spawns of compiled code touch no full frame.         *)
LEMMA UserCode ==
    ASSUME NEW root, NEW par, NEW trunk, Labelling(root, par, trunk), Inv(root, par, trunk),
           NEW w \in Workers, Call(w) \/ Return(w) \/ Spawn(w) \/ ReturnAttached(w)
    PROVE  Inv(root, par, trunk)'
<1>1. /\ Basic /\ TypeOK /\ WorkerOK(w) /\ pc[w] = "work" /\ WorkerStep(w)
      /\ calls[w] \in Nat /\ calls[w] > 0 /\ deque[w] \in Seq(1..MaxCalls)
      /\ UNCHANGED <<tree, ready_list, pc, ownership, last_full_frame, team>>
  <2>1. Basic /\ TypeOK /\ WorkerOK(w)
    BY InvBasic DEF WorkersOK
  <2>2. pc[w] = "work" /\ WorkerStep(w)
        /\ UNCHANGED <<tree, ready_list, pc, ownership, last_full_frame, team>>
    BY DEF Call, Return, Spawn, ReturnAttached, WorkerStep
  <2>3. QED
    BY <2>1, <2>2, AtWork DEF TypeOK
<1>2. /\ calls'[w] \in Nat /\ calls'[w] # 0
      /\ \A i \in 1..Len(deque'[w]) :
             i > 1 \/ kind[frame_ff[w]] = "spawn" => deque'[w][i] > 1
      /\ \A v \in Workers \ {w} : calls'[v] = calls[v] /\ deque'[v] = deque[v]
  <2>1. CASE Call(w)
    BY <1>1, <2>1 DEF Call, WorkerOK, TypeOK
  <2>2. CASE Return(w)
    BY <1>1, <2>2 DEF Return, WorkerOK, TypeOK
  <2>3. CASE Spawn(w)
    <3>1. /\ calls' = [calls EXCEPT ![w] = 1]
          /\ deque' = [deque EXCEPT ![w] = Append(@, calls[w])]
          /\ calls[w] > 1 \/ (deque[w] = <<>> /\ kind[frame_ff[w]] # "spawn")
      BY <1>1, <2>3 DEF Spawn, InHelper
    <3>2. calls'[w] = 1 /\ deque'[w] = Append(deque[w], calls[w])
      BY <1>1, <3>1 DEF TypeOK
    <3>3. ASSUME NEW i \in 1..Len(deque'[w]), i > 1 \/ kind[frame_ff[w]] = "spawn"
          PROVE  deque'[w][i] > 1
      <4>1. CASE i \in 1..Len(deque[w])
        <5>1. deque'[w][i] = deque[w][i]
          BY <1>1, <3>2, <4>1
        <5>2. QED
          BY <1>1, <3>3, <4>1, <5>1 DEF WorkerOK
      <4>2. CASE i = Len(deque[w]) + 1
        <5>1. deque'[w][i] = calls[w]
          BY <1>1, <3>2, <4>2
        <5>2. deque[w] = <<>> => i = 1
          BY <4>2
        <5>3. QED
          BY <3>1, <3>3, <5>1, <5>2
      <4>3. QED
        BY <1>1, <3>2, <3>3, <4>1, <4>2
    <3>4. QED
      BY <1>1, <3>1, <3>2, <3>3
  <2>4. CASE ReturnAttached(w)
    <3>1. /\ deque[w] # <<>>
          /\ deque' = [deque EXCEPT ![w] = Front(@)]
          /\ calls' = [calls EXCEPT ![w] = Last(deque[w])]
      BY <2>4 DEF ReturnAttached
    <3>2. calls'[w] = Last(deque[w]) /\ deque'[w] = Front(deque[w])
      BY <1>1, <3>1 DEF TypeOK
    <3>3. /\ Len(Front(deque[w])) = Len(deque[w]) - 1 /\ Last(deque[w]) \in 1..MaxCalls
          /\ \A i \in 1..Len(Front(deque[w])) : Front(deque[w])[i] = deque[w][i]
      BY <1>1, <3>1, FrontLast
    <3>4. Len(deque[w]) \in Nat
      BY <1>1
    <3>5. ASSUME NEW i \in 1..Len(deque'[w]), i > 1 \/ kind[frame_ff[w]] = "spawn"
          PROVE  deque'[w][i] > 1
      <4>1. deque'[w][i] = deque[w][i] /\ i \in 1..Len(deque[w])
        BY <3>2, <3>3, <3>4, <3>5
      <4>2. QED
        BY <1>1, <3>5, <4>1 DEF WorkerOK
    <3>6. calls'[w] \in Nat /\ calls'[w] # 0
      BY <3>2, <3>3, FramesAssumption
    <3>7. QED
      BY <3>1, <3>5, <3>6
  <2>5. QED
    BY <2>1, <2>2, <2>3, <2>4
<1>3. WorkerOK(w)'
  BY <1>1, <1>2 DEF WorkerOK, tree, ownership
<1>4. /\ \A v \in Workers \ {w} : Local(v)' = Local(v) /\ team'[v] = team[v]
      /\ \A f \in Frames : Runs(w, f)' <=> Runs(w, f)
      /\ \A f \in Frames : Returning(w, f)' <=> Returning(w, f)
      /\ pc'[w] = "unbound" <=> pc[w] = "unbound"
      /\ team'[w] = team[w]
  BY <1>1, <1>2 DEF Local, Runs, Returning, ownership
<1>5. QED
  BY <1>1, <1>3, <1>4, QuietStep

(* Nor does the scheduler on its way from one source of work to another.   *)
LEMMA SchedulerMoves ==
    ASSUME NEW root, NEW par, NEW trunk, Labelling(root, par, trunk), Inv(root, par, trunk),
           Steady, NEW w \in Workers,
           \/ Sync(w) \/ Resume(w) \/ FindQueueEmpty(w) \/ NothingOwn(w) \/ StealNothing(w)
    PROVE  Inv(root, par, trunk)'
<1>1. /\ Basic /\ TypeOK /\ WorkerOK(w) /\ WorkerStep(w)
      /\ UNCHANGED <<tree, ready_list, last_full_frame, deque>>
  <2>1. Basic /\ TypeOK /\ WorkerOK(w)
    BY InvBasic DEF WorkersOK
  <2>2. WorkerStep(w) /\ UNCHANGED <<tree, ready_list, last_full_frame, deque>>
    BY DEF Sync, Resume, FindQueueEmpty, NothingOwn, StealNothing, WorkerStep, stack
  <2>3. QED
    BY <2>1, <2>2
<1> DEFINE Moved ==
        /\ \A v \in Workers \ {w} : Local(v)' = Local(v) /\ team'[v] = team[v]
        /\ WorkerOK(w)'
        /\ \A f \in Frames : Runs(w, f)' <=> Runs(w, f)
        /\ \A f \in Frames : Returning(w, f)' <=> Returning(w, f)
        /\ pc'[w] = "unbound" <=> pc[w] = "unbound"
        /\ \/ team'[w] = team[w]
           \/ /\ w \notin Users /\ ready_list[w] = {}
              /\ \A f \in Frames : ~Runs(w, f) /\ ~Returning(w, f)
<1>2. SUFFICES Moved
  BY <1>1, QuietStep
<1>3. CASE Sync(w)
  <2>1. /\ pc[w] = "work" /\ deque[w] = <<>>
        /\ pc' = [pc EXCEPT ![w] = "sync"] /\ held' = [held EXCEPT ![w] = frame_ff[w]]
        /\ frame_ff' = [frame_ff EXCEPT ![w] = NoFrame] /\ calls' = [calls EXCEPT ![w] = 0]
        /\ UNCHANGED <<tree, ready_list, next_frame_ff, last_full_frame, team, deque>>
    BY <1>3 DEF Sync, AtFullFrame, Goto, FrameLeft
  <2>2. frame_ff[w] \in Frames /\ next_frame_ff[w] = NoFrame /\ held[w] = NoFrame
    BY <1>1, <2>1, AtWork
  <2>3. /\ pc'[w] = "sync" /\ held'[w] = frame_ff[w] /\ frame_ff'[w] = NoFrame
        /\ calls'[w] = 0 /\ next_frame_ff'[w] = NoFrame /\ deque'[w] = <<>> /\ team' = team
        /\ \A v \in Workers \ {w} : Local(v)' = Local(v)
    BY <1>1, <2>1, <2>2 DEF Local, TypeOK
  <2>4. WorkerOK(w)'
    BY <2>1, <2>2, <2>3, FrameNumbers DEF WorkerOK
  <2>5. \A f \in Frames : Runs(w, f)' <=> Runs(w, f)
    BY <2>1, <2>2, <2>3, FrameNumbers DEF Runs
  <2>6. QED
    BY <2>1, <2>3, <2>4, <2>5 DEF Returning
<1>4. CASE Resume(w)
  <2>1. /\ pc[w] = "search" /\ next_frame_ff[w] # NoFrame
        /\ pc' = [pc EXCEPT ![w] = "work"]
        /\ frame_ff' = [frame_ff EXCEPT ![w] = next_frame_ff[w]]
        /\ next_frame_ff' = [next_frame_ff EXCEPT ![w] = NoFrame]
        /\ calls' = [calls EXCEPT ![w] = 1]
        /\ UNCHANGED <<tree, ready_list, held, last_full_frame, team, deque>>
    BY <1>4 DEF Resume, Goto, MakeRunnable, PopNextFrame
  <2>2. frame_ff[w] = NoFrame /\ held[w] = NoFrame /\ deque[w] = <<>>
    BY <1>1, <2>1 DEF WorkerOK
  <2>3. /\ pc'[w] = "work" /\ frame_ff'[w] = next_frame_ff[w] /\ next_frame_ff'[w] = NoFrame
        /\ calls'[w] = 1 /\ held'[w] = NoFrame /\ deque'[w] = <<>> /\ team' = team
        /\ \A v \in Workers \ {w} : Local(v)' = Local(v)
    BY <1>1, <2>1, <2>2 DEF Local, TypeOK
  <2>4. WorkerOK(w)'
    BY <2>1, <2>2, <2>3 DEF WorkerOK
  <2>5. \A f \in Frames : Runs(w, f)' <=> Runs(w, f)
    BY <2>1, <2>2, <2>3, FrameNumbers DEF Runs
  <2>6. QED
    BY <2>1, <2>3, <2>4, <2>5 DEF Returning
<1>5. CASE FindQueueEmpty(w) \/ NothingOwn(w) \/ StealNothing(w)
  <2>1. /\ pc[w] \in {"search", "own", "random"} /\ pc'[w] \in {"search", "own", "random"}
        /\ \A v \in Workers \ {w} : pc'[v] = pc[v]
        /\ UNCHANGED <<tree, ready_list, ownership, last_full_frame, stack>>
    BY <1>1, <1>5 DEF FindQueueEmpty, NothingOwn, StealNothing, Goto, TypeOK
  <2>2. pc'[w] = "random" => ready_list[w] = {}
    BY <1>1, <1>5 DEF FindQueueEmpty, NothingOwn, StealNothing, Goto, TypeOK, Steady
  <2>3. next_frame_ff[w] # NoFrame => pc'[w] = "search" \/ (w \in Users /\ last_full_frame[w] = NoFrame)
    BY <1>1, <1>5, <2>1 DEF FindQueueEmpty, NothingOwn, StealNothing, Goto, TypeOK, WorkerOK
  <2>4. WorkerOK(w)'
    BY <1>1, <2>1, <2>2, <2>3 DEF WorkerOK, ownership, stack
  <2>5. \A f \in Frames : (Runs(w, f)' <=> Runs(w, f)) /\ (Returning(w, f)' <=> Returning(w, f))
    BY <2>1 DEF Runs, Returning, ownership
  <2>6. \A v \in Workers \ {w} : Local(v)' = Local(v) /\ team'[v] = team[v]
    BY <1>1, <1>5, <2>1
    DEF Local, ownership, stack, FindQueueEmpty, NothingOwn, StealNothing, TypeOK
  <2>7. \/ team'[w] = team[w]
        \/ /\ w \notin Users /\ ready_list[w] = {}
           /\ \A f \in Frames : ~Runs(w, f) /\ ~Returning(w, f)
    <3>1. CASE team' = team
      BY <3>1
    <3>2. CASE FindQueueEmpty(w) /\ w \in Systems /\ ready_list[w] = {}
      <4>1. w \notin Users
        BY <3>2, FramesAssumption
      <4>2. pc[w] = "search" /\ next_frame_ff[w] = NoFrame
        BY <3>2 DEF FindQueueEmpty, Goto
      <4>3. frame_ff[w] = NoFrame
        BY <1>1, <4>2 DEF WorkerOK
      <4>4. QED
        BY <1>1, <3>2, <4>1, <4>2, <4>3, Idle DEF Returning
    <3>3. QED
      BY <1>5, <3>1, <3>2 DEF FindQueueEmpty, NothingOwn, StealNothing
  <2>8. QED
    BY <2>1, <2>4, <2>5, <2>6, <2>7
<1>6. QED
  BY <1>3, <1>4, <1>5

-----------------------------------------------------------------------------
(* Pending frames: a task that ends makes siblings ready, ...              *)
LEMMA ReleaseStep ==
    ASSUME NEW root, NEW par, NEW trunk, Labelling(root, par, trunk), Inv(root, par, trunk),
           NEW w \in Workers, Release(w)
    PROVE  Inv(root, par, trunk)'
<1>1. /\ Basic /\ TypeOK /\ ShapeOK /\ CallsOK /\ Acyclic /\ PlacesOK /\ OwnersOK /\ JoinOK
      /\ RootsOK(root) /\ TeamsOK(root) /\ LabelsOK(par, trunk) /\ MastersOK(root, par, trunk)
      /\ WorkersOK
  BY InvBasic
<1>2. TypeOK'
  BY <1>1, NextType DEF WorkerStep
<1>3. /\ kind' = kind /\ parent' = parent /\ kids' = kids /\ join' = join
      /\ unsynched' = unsynched /\ sync_master' = sync_master /\ home' = home
      /\ last_full_frame' = last_full_frame /\ team' = team /\ pc' = pc
      /\ frame_ff' = frame_ff /\ next_frame_ff' = next_frame_ff /\ held' = held
      /\ deque' = deque /\ calls' = calls /\ pc[w] = "work"
  BY DEF Release, ownership, stack, AtFullFrame
<1>4. PICK ps \in SUBSET Waiting(frame_ff[w]) :
          /\ pending' = pending \ ps
          /\ ready_list' = [ready_list EXCEPT ![w] = @ \cup ps]
  BY DEF Release
<1>5. /\ frame_ff[w] \in Frames /\ Runs(w, frame_ff[w])
      /\ kind[frame_ff[w]] = "spawn"
  BY <1>1, <1>3, AtWork DEF Release
<1>6. /\ ready_list'[w] = ready_list[w] \cup ps
      /\ \A v \in Workers \ {w} : ready_list'[v] = ready_list[v]
  BY <1>1, <1>4 DEF TypeOK
<1>7. ASSUME NEW p \in ps
      PROVE  /\ p \in Frames /\ p \in pending /\ kind[p] = "spawn" /\ join[p] = 0
             /\ home[p] = home[root[p]] /\ team[w] = home[p]
  <2>1. p \in pending /\ p \in kids[parent[frame_ff[w]]]
    BY <1>4, <1>7 DEF Waiting
  <2>2. /\ p \in Frames /\ kind[p] = "spawn" /\ join[p] = 0 /\ home[p] = home[root[p]]
    BY <1>1, <2>1 DEF TypeOK, PlacesOK, TeamsOK
  <2>3. parent[frame_ff[w]] # NoFrame /\ parent[frame_ff[w]] \in Frames
    BY <1>1, <1>5, LabelFacts DEF ShapeOK
  <2>4. parent[p] = parent[frame_ff[w]]
    BY <1>1, <2>1, <2>3 DEF ShapeOK
  <2>5. root[p] = root[frame_ff[w]]
    BY <1>5, <2>2, <2>3, <2>4, LabelFacts
  <2>6. team[w] = home[root[frame_ff[w]]]
    BY <1>1, <1>5 DEF TeamsOK
  <2>7. QED
    BY <2>1, <2>2, <2>5, <2>6
<1>8. /\ \A v \in Workers, f \in Frames : Runs(v, f)' <=> Runs(v, f)
      /\ \A v \in Workers, f \in Frames : Returning(v, f)' <=> Returning(v, f)
      /\ \A f \in Frames : Owned(f)' <=> Owned(f)
      /\ \A f \in Frames : Children(f)' = Children(f)
  BY <1>3 DEF Runs, Returning, Owned, Children
<1>9. WorkersOK'
  <2>1. ASSUME NEW v \in Workers, v # w PROVE WorkerOK(v)'
    BY <1>1, <1>3, <1>6, <2>1, OtherWorker
  <2>2. WorkerOK(w)'
    BY <1>1, <1>3 DEF WorkersOK, WorkerOK
  <2>3. QED
    BY <2>1, <2>2 DEF WorkersOK, Workers
<1>10. ShapeOK'
  BY <1>1, <1>3 DEF ShapeOK
<1>11. CallsOK'
  BY <1>1, <1>3, <1>8 DEF CallsOK
<1>12. Acyclic'
  BY <1>1, <1>3 DEF Acyclic
<1>13. PlacesOK'
  <2>1. \A f \in pending' : kind[f] = "spawn" /\ join[f] = 0
    BY <1>1, <1>4 DEF PlacesOK
  <2>2. ASSUME NEW v \in Workers, NEW f \in ready_list'[v]
        PROVE  /\ kind[f] = "spawn" /\ join[f] = 0 /\ f \notin pending'
               /\ \A x \in Workers : f \in ready_list'[x] => x = v
    <3>1. CASE f \in ps
      <4>1. \A x \in Workers : f \notin ready_list[x]
        BY <1>1, <1>7, <3>1 DEF PlacesOK
      <4>2. QED
        BY <1>4, <1>6, <1>7, <2>2, <3>1, <4>1
    <3>2. CASE f \notin ps
      BY <1>1, <1>4, <1>6, <2>2, <3>2 DEF PlacesOK
    <3>3. QED
      BY <3>1, <3>2
  <2>3. ASSUME NEW v \in Workers, NEW f \in Frames, Returning(v, f)
        PROVE  /\ kind[f] = "spawn" /\ join[f] = 0 /\ f \notin pending' /\ f \notin kids[parent[f]]
               /\ \A x \in Workers : f \notin ready_list'[x] /\ (Returning(x, f) => x = v)
    <3>1. /\ kind[f] = "spawn" /\ join[f] = 0 /\ f \notin pending /\ f \notin kids[parent[f]]
          /\ \A x \in Workers : f \notin ready_list[x] /\ (Returning(x, f) => x = v)
      BY <1>1, <2>3 DEF PlacesOK
    <3>2. f \notin ps
      BY <1>7, <3>1
    <3>3. QED
      BY <1>4, <1>6, <3>1, <3>2
  <2>4. QED
    BY <1>3, <1>8, <2>1, <2>2, <2>3 DEF PlacesOK
<1>14. OwnersOK'
  BY <1>1, <1>3, <1>8 DEF OwnersOK
<1>15. JoinOK'
  BY <1>1, <1>3, <1>8 DEF JoinOK
<1>16. RootsOK(root)'
  BY <1>1, <1>3 DEF RootsOK
<1>17. TeamsOK(root)'
  <2>1. \A v \in Workers : \A f \in ready_list'[v] : home[f] = home[root[f]] /\ team[v] = home[f]
    BY <1>1, <1>6, <1>7 DEF TeamsOK
  <2>2. \A f \in pending' : home[f] = home[root[f]]
    BY <1>1, <1>4 DEF TeamsOK
  <2>3. QED
    BY <1>1, <1>3, <1>8, <2>1, <2>2 DEF TeamsOK
<1>18. LabelsOK(par, trunk)'
  BY <1>1, <1>3 DEF LabelsOK
<1>19. MastersOK(root, par, trunk)'
  BY <1>1, <1>3, <1>8 DEF MastersOK
<1>20. QED
  BY <1>2, <1>9, <1>10, <1>11, <1>12, <1>13, <1>14, <1>15, <1>16, <1>17, <1>18, <1>19 DEF Inv

(* A tree stays one when it gains or loses a leaf.                         *)
LEMMA NewLeaf ==
    ASSUME Basic, NEW p \in Frames, kind[p] = "free", NEW f \in Frames, f # p,
           parent' = [parent EXCEPT ![p] = f]
    PROVE  Acyclic'
<1>1. Acyclic /\ parent \in [Frames -> Frames \cup {NoFrame}]
  BY DEF Basic, TypeOK
<1>2. \A x \in Frames : parent[x] # p
  BY FreeFrame
<1>3. ASSUME NEW G \in SUBSET Frames, G # {}
      PROVE  \E g \in G : parent'[g] \notin G
  <2>1. CASE G = {p}
    BY <1>1, <2>1
  <2>2. CASE G # {p}
    <3>1. G \ {p} # {} /\ G \ {p} \in SUBSET Frames
      BY <1>3, <2>2
    <3>2. PICK g \in G \ {p} : parent[g] \notin G \ {p}
      BY <1>1, <3>1 DEF Acyclic
    <3>3. parent'[g] = parent[g] /\ parent[g] # p
      BY <1>1, <1>2, <1>3, <3>2
    <3>4. QED
      BY <3>2, <3>3
  <2>3. QED
    BY <2>1, <2>2
<1>4. QED
  BY <1>3 DEF Acyclic

(* ... and so it does when a frame loses its parent.                       *)
LEMMA LostLeaf ==
    ASSUME Basic, NEW d \in Frames, parent' = [parent EXCEPT ![d] = NoFrame]
    PROVE  Acyclic'
<1>1. Acyclic /\ parent \in [Frames -> Frames \cup {NoFrame}]
  BY DEF Basic, TypeOK
<1>2. ASSUME NEW G \in SUBSET Frames, G # {}
      PROVE  \E g \in G : parent'[g] \notin G
  <2>1. PICK g \in G : parent[g] \notin G
    BY <1>1, <1>2 DEF Acyclic
  <2>2. parent'[g] \notin G
    BY <1>1, <1>2, <2>1, FrameNumbers
  <2>3. QED
    BY <2>2
<1>3. QED
  BY <1>2 DEF Acyclic

(* ... and a spawn that must wait adds a child to the frame.               *)
LEMMA SpawnPendingStep ==
    ASSUME NEW root, NEW par, NEW trunk, Labelling(root, par, trunk), Inv(root, par, trunk),
           NEW w \in Workers, SpawnPending(w)
    PROVE  \E root2, par2, trunk2 :
               Labelling(root2, par2, trunk2) /\ Inv(root2, par2, trunk2)'
<1>1. /\ Basic /\ TypeOK /\ ShapeOK /\ CallsOK /\ Acyclic /\ PlacesOK /\ OwnersOK /\ JoinOK
      /\ RootsOK(root) /\ TeamsOK(root) /\ LabelsOK(par, trunk) /\ MastersOK(root, par, trunk)
      /\ WorkersOK
  BY InvBasic
<1>2. TypeOK'
  BY <1>1, NextType DEF WorkerStep
<1>3. PICK f : f = frame_ff[w]
  OBVIOUS
<1>4. PICK p \in Free :
            /\ kind' = [kind EXCEPT ![p] = "spawn"]
            /\ parent' = [parent EXCEPT ![p] = f]
            /\ home' = [home EXCEPT ![p] = team[w]]
            /\ kids' = [kids EXCEPT ![f] = PushChild(f, p)]
            /\ join' = IncJoin(f)
            /\ unsynched' = [unsynched EXCEPT ![f] = TRUE]
            /\ \/ pending' = pending \cup {p} /\ ready_list' = ready_list
               \/ ready_list' = [ready_list EXCEPT ![w] = @ \cup {p}] /\ pending' = pending
            /\ UNCHANGED <<sync_master, pc, ownership, last_full_frame, team, stack>>
            /\ \E c \in kids[f] : kind[c] = "spawn"
  BY <1>3 DEF SpawnPending
<1>5. /\ sync_master' = sync_master /\ last_full_frame' = last_full_frame
      /\ team' = team /\ pc' = pc /\ frame_ff' = frame_ff /\ next_frame_ff' = next_frame_ff
      /\ held' = held /\ deque' = deque /\ calls' = calls /\ pc[w] = "work"
  BY <1>4 DEF ownership, stack, SpawnPending, AtFullFrame
<1>6. /\ f \in Frames /\ Runs(w, f) /\ Owned(f) /\ kind[f] # "free"
  BY <1>1, <1>3, <1>5, AtWork
<1>7. /\ p \in Frames /\ kind[p] = "free" /\ p # f /\ parent[p] = NoFrame /\ kids[p] = {}
      /\ Children(p) = {} /\ join[p] = 0 /\ ~Owned(p) /\ p \notin pending /\ ~unsynched[p]
      /\ sync_master[p] = Nobody
      /\ \A v \in Workers : p \notin ready_list[v] /\ ~Runs(v, p) /\ ~Returning(v, p)
      /\ \A g \in Frames : parent[g] # p
  BY <1>1, <1>4, <1>6, FreeFrame DEF Free
<1>8. unsynched[f] /\ f \in par
  <2>1. unsynched[f]
    BY <1>1, <1>4, <1>6 DEF ShapeOK, TypeOK
  <2>2. QED
    BY <1>6, <2>1, LabelFacts
<1>9. /\ kind'[p] = "spawn" /\ parent'[p] = f /\ home'[p] = team[w] /\ join'[p] = 0
      /\ kids'[p] = {} /\ kids'[f] = kids[f] \cup {p} /\ join'[f] = join[f] + 1
      /\ \A g \in Frames \ {p} : kind'[g] = kind[g] /\ parent'[g] = parent[g] /\ home'[g] = home[g]
      /\ \A g \in Frames \ {f} : kids'[g] = kids[g] /\ join'[g] = join[g]
      /\ unsynched' = unsynched
  BY <1>1, <1>4, <1>6, <1>7, <1>8 DEF TypeOK, PushChild, IncJoin
<1>10. /\ \A v \in Workers, g \in Frames : Runs(v, g)' <=> Runs(v, g)
       /\ \A v \in Workers, g \in Frames : Returning(v, g)' <=> Returning(v, g)
       /\ \A g \in Frames : Owned(g)' <=> Owned(g)
  BY <1>5 DEF Runs, Returning, Owned
<1>11. Children(f)' = Children(f) \cup {p} /\ \A g \in Frames \ {f} : Children(g)' = Children(g)
  <2>1. Children(f)' = Children(f) \cup {p}
    BY <1>6, <1>7, <1>9 DEF Children
  <2>2. ASSUME NEW g \in Frames \ {f}, NEW c \in Frames PROVE parent'[c] = g <=> parent[c] = g
    BY <1>7, <1>9, <2>2, FrameNumbers
  <2>3. QED
    BY <2>1, <2>2 DEF Children
<1> DEFINE root2 == [root EXCEPT ![p] = root[f]]
           par2 == par \cup {p}
<1>12. root \in [Frames -> Frames] /\ par \in SUBSET Frames /\ trunk \in SUBSET Frames
  BY DEF Labelling
<1>13. Labelling(root2, par2, trunk)
  BY <1>6, <1>7, <1>12 DEF Labelling
<1>14. /\ root2[p] = root[f] /\ \A g \in Frames \ {p} : root2[g] = root[g]
       /\ \A g \in Frames : kind[g] # "free" => root[g] # p /\ root[g] \in Frames
  BY <1>7, <1>12, LabelFacts
<1>15. p \notin par /\ p \notin trunk
  BY <1>7, LabelFacts
<1>16. \A g \in Frames : parent[g] # NoFrame => parent[g] \in Frames /\ parent[g] # p
  BY <1>1, <1>7 DEF TypeOK
<1> HIDE DEF root2
<1>17. WorkersOK'
  <2>1. ASSUME NEW v \in Workers, v # w PROVE WorkerOK(v)'
    <3>1. ready_list'[v] = ready_list[v]
      BY <1>1, <1>4, <2>1 DEF TypeOK
    <3>2. pc[v] = "work" => kind'[frame_ff[v]] = kind[frame_ff[v]]
      BY <1>1, <1>7, <1>9, AtWork
    <3>3. QED
      BY <1>1, <1>5, <3>1, <3>2, OtherWorker
  <2>2. WorkerOK(w)'
    BY <1>1, <1>3, <1>5, <1>6, <1>7, <1>9 DEF WorkersOK, WorkerOK
  <2>3. QED
    BY <2>1, <2>2 DEF WorkersOK, Workers
<1>18. ShapeOK'
  <2>1. \A g \in Frames : kind'[g] \in {"free", "initial"} <=> parent'[g] = NoFrame
    BY <1>1, <1>6, <1>9, FrameNumbers DEF ShapeOK
  <2>2. \A g \in Frames : parent'[g] # NoFrame => kind'[parent'[g]] # "free"
    BY <1>1, <1>6, <1>7, <1>9, <1>16 DEF ShapeOK
  <2>3. \A g \in Frames : kind'[g] = "free" => ~unsynched'[g] /\ sync_master'[g] = Nobody
    BY <1>1, <1>5, <1>9 DEF ShapeOK
  <2>4. ASSUME NEW g \in Frames, NEW c \in kids'[g] PROVE parent'[c] = g
    <3>1. CASE c = p
      <4>1. p \notin kids[g]
        BY <1>1, <1>7, FrameNumbers DEF ShapeOK
      <4>2. QED
        BY <1>9, <2>4, <3>1, <4>1
    <3>2. CASE c # p
      <4>1. c \in kids[g] /\ c \in Frames
        BY <1>2, <1>9, <2>4, <3>2 DEF TypeOK
      <4>2. QED
        BY <1>1, <1>9, <3>2, <4>1 DEF ShapeOK
    <3>3. QED
      BY <3>1, <3>2
  <2>5. \A g \in Frames : kind'[g] = "spawn" => unsynched'[parent'[g]] /\ ~unsynched'[g]
    BY <1>1, <1>7, <1>8, <1>9 DEF ShapeOK
  <2>6. QED
    BY <2>1, <2>2, <2>3, <2>4, <2>5 DEF ShapeOK
<1>19. CallsOK'
  <2>1. \A c \in Frames : kind'[c] = "call" => kind[c] = "call" /\ parent'[c] = parent[c]
    BY <1>9
  <2>2. QED
    BY <1>1, <1>10, <2>1 DEF CallsOK
<1>20. Acyclic'
  BY <1>1, <1>4, <1>6, <1>7, NewLeaf
<1>21. /\ \A g \in pending' : g = p \/ g \in pending
       /\ \A v \in Workers : \A g \in ready_list'[v] : g \in ready_list[v] \/ (g = p /\ v = w /\ p \notin pending')
  BY <1>1, <1>4, <1>7 DEF TypeOK
<1>22. PlacesOK'
  <2>1. \A g \in pending' : kind'[g] = "spawn" /\ join'[g] = 0
    <3>1. \A g \in pending : g \in Frames /\ kind[g] = "spawn" /\ join[g] = 0
      BY <1>1 DEF PlacesOK, TypeOK
    <3>2. f \notin pending
      BY <1>1, <1>6, <3>1, JoinZero
    <3>3. QED
      BY <1>9, <1>21, <3>1, <3>2
  <2>2. ASSUME NEW v \in Workers, NEW g \in ready_list'[v]
        PROVE  /\ kind'[g] = "spawn" /\ join'[g] = 0 /\ g \notin pending'
               /\ \A x \in Workers : g \in ready_list'[x] => x = v
    <3>1. CASE g = p
      BY <1>7, <1>9, <1>21, <2>2, <3>1
    <3>2. CASE g # p
      <4>1. g \in ready_list[v] /\ g \in Frames /\ kind[g] = "spawn" /\ join[g] = 0 /\ g \notin pending
            /\ \A x \in Workers : g \in ready_list[x] => x = v
        BY <1>1, <1>21, <2>2, <3>2 DEF PlacesOK, TypeOK
      <4>2. g # f
        BY <1>1, <1>6, <4>1, JoinZero
      <4>3. QED
        BY <1>9, <1>21, <3>2, <4>1, <4>2
    <3>3. QED
      BY <3>1, <3>2
  <2>3. ASSUME NEW v \in Workers, NEW g \in Frames, Returning(v, g)
        PROVE  /\ kind'[g] = "spawn" /\ join'[g] = 0 /\ g \notin pending' /\ g \notin kids'[parent'[g]]
               /\ \A x \in Workers : g \notin ready_list'[x] /\ (Returning(x, g) => x = v)
    <3>1. /\ kind[g] = "spawn" /\ join[g] = 0 /\ g \notin pending /\ g \notin kids[parent[g]]
          /\ \A x \in Workers : g \notin ready_list[x] /\ (Returning(x, g) => x = v)
      BY <1>1, <2>3 DEF PlacesOK
    <3>2. g # p /\ g # f
      BY <1>1, <1>6, <1>7, <3>1, JoinZero
    <3>3. g \notin kids'[parent'[g]]
      <4>1. parent[g] \in Frames
        BY <1>1, <1>16, <3>1 DEF ShapeOK
      <4>2. QED
        BY <1>9, <3>1, <3>2, <4>1
    <3>4. QED
      BY <1>9, <1>21, <3>1, <3>2, <3>3
  <2>4. QED
    BY <1>10, <2>1, <2>2, <2>3 DEF PlacesOK
<1>23. OwnersOK'
  BY <1>1, <1>7, <1>9, <1>10 DEF OwnersOK
<1>24. JoinOK'
  <2>1. ASSUME NEW g \in Frames
        PROVE  join'[g] = Cardinality(Children(g)') + (IF Owned(g)' THEN 1 ELSE 0)
    <3>1. CASE g = f
      <4>1. p \notin Children(f) /\ Children(f) \in SUBSET Frames
        BY <1>6, <1>7, FrameNumbers DEF Children
      <4>2. /\ Cardinality(Children(f)') = Cardinality(Children(f)) + 1
            /\ Cardinality(Children(f)) \in Nat
        BY <1>7, <1>11, <4>1, CardPlus
      <4>3. QED
        BY <1>1, <1>6, <1>9, <1>10, <3>1, <4>2 DEF JoinOK
    <3>2. CASE g # f
      BY <1>1, <1>9, <1>10, <1>11, <3>2 DEF JoinOK
    <3>3. QED
      BY <3>1, <3>2
  <2>2. QED
    BY <2>1 DEF JoinOK
<1>25. RootsOK(root2)'
  <2>1. ASSUME NEW g \in Frames
        PROVE  root2[g] = IF parent'[g] = NoFrame THEN g ELSE root2[parent'[g]]
    <3>1. CASE g = p
      BY <1>6, <1>7, <1>9, <1>14, <3>1, FrameNumbers
    <3>2. CASE g # p
      BY <1>1, <1>9, <1>14, <1>16, <3>2 DEF RootsOK
    <3>3. QED
      BY <3>1, <3>2
  <2>2. \A g \in Frames : kind'[g] # "free" => kind'[root2[g]] = "initial"
    BY <1>1, <1>6, <1>9, <1>14 DEF RootsOK
  <2>3. QED
    BY <1>1, <1>5, <1>9, <2>1, <2>2 DEF RootsOK
<1>26. TeamsOK(root2)'
  <2>1. team[w] = home[root[f]] /\ root[f] \in Frames /\ root[f] # p
    BY <1>1, <1>6, <1>14 DEF TeamsOK
  <2>2. home'[p] = home'[root2[p]]
    BY <1>9, <1>14, <2>1
  <2>3. \A g \in Frames : kind[g] # "free" => home'[root2[g]] = home[root[g]] /\ home'[g] = home[g]
    BY <1>7, <1>9, <1>14
  <2>4. ASSUME NEW v \in Workers, NEW g \in Frames, Runs(v, g) \/ Returning(v, g)
        PROVE  team[v] = home'[root2[g]]
    <3>1. kind[g] # "free" /\ team[v] = home[root[g]]
      BY <1>1, <2>4 DEF OwnersOK, PlacesOK, TeamsOK
    <3>2. QED
      BY <2>3, <3>1
  <2>5. ASSUME NEW v \in Workers, NEW g \in ready_list'[v]
        PROVE  home'[g] = home'[root2[g]] /\ team[v] = home'[g]
    <3>1. CASE g = p
      BY <1>9, <1>21, <1>7, <2>2, <2>5, <3>1
    <3>2. CASE g # p
      <4>1. g \in Frames /\ kind[g] = "spawn" /\ home[g] = home[root[g]] /\ team[v] = home[g]
        BY <1>1, <1>21, <2>5, <3>2 DEF TeamsOK, PlacesOK, TypeOK
      <4>2. QED
        BY <2>3, <4>1
    <3>3. QED
      BY <3>1, <3>2
  <2>6. ASSUME NEW g \in pending' PROVE home'[g] = home'[root2[g]]
    <3>1. CASE g = p
      BY <2>2, <3>1
    <3>2. CASE g # p
      <4>1. g \in Frames /\ kind[g] = "spawn" /\ home[g] = home[root[g]]
        BY <1>1, <1>21, <2>6, <3>2 DEF TeamsOK, PlacesOK, TypeOK
      <4>2. QED
        BY <2>3, <4>1
    <3>3. QED
      BY <3>1, <3>2
  <2>7. QED
    BY <1>1, <1>5, <1>10, <2>4, <2>5, <2>6 DEF TeamsOK
<1>27. LabelsOK(par2, trunk)'
  <2>1. ASSUME NEW g \in Frames
        PROVE  g \in par2 <=> sync_master[g] # Nobody \/ (parent'[g] # NoFrame /\ parent'[g] \in par2)
    <3>1. CASE g = p
      BY <1>6, <1>8, <1>9, <3>1, FrameNumbers
    <3>2. CASE g # p
      BY <1>1, <1>9, <1>16, <3>2 DEF LabelsOK
    <3>3. QED
      BY <3>1, <3>2
  <2>2. ASSUME NEW g \in Frames
        PROVE  g \in trunk <=> kind'[g] = "initial" \/ (kind'[g] = "call" /\ parent'[g] \in trunk)
    BY <1>1, <1>9, <1>15 DEF LabelsOK
  <2>3. QED
    BY <1>5, <2>1, <2>2 DEF LabelsOK
<1>28. MastersOK(root2, par2, trunk)'
  <2>1. \A g \in Frames : kind[g] # "free" => home'[root2[g]] = home[root[g]]
    BY <1>7, <1>9, <1>14
  <2>2. ASSUME NEW g \in Frames, sync_master[g] # Nobody
        PROVE  /\ sync_master[g] = home'[root2[g]] /\ last_full_frame[sync_master[g]] = g
               /\ unsynched[g] /\ g \in trunk
    BY <2>1, <2>2, LabelFacts
  <2>3. ASSUME NEW g \in Frames \ par2, kind'[g] # "free"
        PROVE  /\ g \in trunk /\ ~unsynched[g]
               /\ \A v \in Workers : Runs(v, g) => v = home'[root2[g]] /\ last_full_frame[v] = NoFrame
    BY <1>1, <1>9, <2>1, <2>3 DEF MastersOK
  <2>4. ASSUME NEW g \in par2 PROVE last_full_frame[home'[root2[g]]] # NoFrame
    <3>1. home'[root2[p]] = home[root[f]]
      BY <1>6, <1>9, <1>14
    <3>2. g \in Frames /\ (g = p \/ kind[g] # "free")
      BY <1>12, <1>7, <2>4, LabelFacts
    <3>3. QED
      BY <1>1, <1>8, <2>1, <2>4, <3>1, <3>2 DEF MastersOK
  <2>5. \A v \in Workers : last_full_frame[v] # NoFrame =>
            v \in Users /\ sync_master[last_full_frame[v]] = v
    BY <1>1 DEF MastersOK
  <2>6. QED
    BY <1>5, <1>9, <1>10, <2>2, <2>3, <2>4, <2>5 DEF MastersOK
<1>29. Inv(root2, par2, trunk)'
  BY <1>2, <1>17, <1>18, <1>19, <1>20, <1>22, <1>23, <1>24, <1>25, <1>26, <1>27, <1>28 DEF Inv
<1>30. QED
  BY <1>13, <1>29

-----------------------------------------------------------------------------
(* A thread comes: its computation has no frame yet, as it is not bound.   *)
LEMMA BindStep ==
    ASSUME NEW root, NEW par, NEW trunk, Labelling(root, par, trunk), Inv(root, par, trunk),
           NEW w \in Workers, Bind(w)
    PROVE  \E root2, par2, trunk2 :
               Labelling(root2, par2, trunk2) /\ Inv(root2, par2, trunk2)'
<1>1. /\ Basic /\ TypeOK /\ ShapeOK /\ CallsOK /\ Acyclic /\ PlacesOK /\ OwnersOK /\ JoinOK
      /\ RootsOK(root) /\ TeamsOK(root) /\ LabelsOK(par, trunk) /\ MastersOK(root, par, trunk)
      /\ WorkersOK
  BY InvBasic
<1>2. TypeOK'
  BY <1>1, NextType DEF WorkerStep
<1>3. PICK f \in Free :
        /\ kind' = [kind EXCEPT ![f] = "initial"]
        /\ join' = [join EXCEPT ![f] = 1]
        /\ home' = [home EXCEPT ![f] = w]
        /\ frame_ff' = [frame_ff EXCEPT ![w] = f]
  BY DEF Bind, MakeRunnable
<1>4. /\ w \in Users /\ pc[w] = "unbound" /\ pc' = [pc EXCEPT ![w] = "work"]
      /\ team' = [team EXCEPT ![w] = w] /\ calls' = [calls EXCEPT ![w] = 1]
      /\ parent' = parent /\ kids' = kids /\ unsynched' = unsynched
      /\ sync_master' = sync_master /\ pending' = pending /\ ready_list' = ready_list
      /\ next_frame_ff' = next_frame_ff /\ held' = held /\ deque' = deque
      /\ last_full_frame' = last_full_frame
  BY DEF Bind, Goto
<1>5. /\ f \in Frames /\ kind[f] = "free" /\ parent[f] = NoFrame /\ kids[f] = {}
      /\ Children(f) = {} /\ join[f] = 0 /\ ~Owned(f) /\ f \notin pending /\ ~unsynched[f]
      /\ sync_master[f] = Nobody
      /\ \A v \in Workers : f \notin ready_list[v] /\ ~Runs(v, f) /\ ~Returning(v, f)
      /\ \A g \in Frames : parent[g] # f
  BY <1>1, <1>3, FreeFrame DEF Free
<1>6. /\ kind'[f] = "initial" /\ join'[f] = 1 /\ home'[f] = w
      /\ \A g \in Frames \ {f} : kind'[g] = kind[g] /\ join'[g] = join[g] /\ home'[g] = home[g]
      /\ frame_ff'[w] = f /\ pc'[w] = "work" /\ team'[w] = w /\ calls'[w] = 1
      /\ \A v \in Workers \ {w} : /\ frame_ff'[v] = frame_ff[v] /\ pc'[v] = pc[v]
                                  /\ team'[v] = team[v] /\ calls'[v] = calls[v]
  BY <1>1, <1>3, <1>4, <1>5 DEF TypeOK
<1>7. /\ frame_ff[w] = NoFrame /\ next_frame_ff[w] = NoFrame /\ held[w] = NoFrame
      /\ deque[w] = <<>>
  BY <1>1, <1>4 DEF WorkersOK, WorkerOK
<1>8. \A g \in Frames : ~Runs(w, g) /\ ~Returning(w, g)
  BY <1>1, <1>4, <1>7, Idle DEF Returning
<1>9. /\ \A v \in Workers, g \in Frames : Runs(v, g)' <=> Runs(v, g) \/ (v = w /\ g = f)
      /\ \A v \in Workers, g \in Frames : Returning(v, g)' <=> Returning(v, g)
  <2>1. ASSUME NEW g \in Frames PROVE (Runs(w, g)' <=> g = f) /\ ~Returning(w, g)'
    BY <1>4, <1>5, <1>6, <1>7, FrameNumbers DEF Runs, Returning
  <2>2. ASSUME NEW v \in Workers \ {w}, NEW g \in Frames
        PROVE  (Runs(v, g)' <=> Runs(v, g)) /\ (Returning(v, g)' <=> Returning(v, g))
    BY <1>4, <1>6 DEF Runs, Returning
  <2>3. QED
    BY <1>5, <1>8, <2>1, <2>2
<1>10. /\ Owned(f)' /\ \A g \in Frames \ {f} : Owned(g)' <=> Owned(g)
       /\ \A g \in Frames : Children(g)' = Children(g)
  BY <1>4, <1>5, <1>9 DEF Owned, Children
<1>11. \A g \in Frames : kind[g] # "free" =>
          /\ root[g] \in Frames /\ root[g] # f /\ home'[root[g]] = home[root[g]] /\ g # f
          /\ home[root[g]] # w /\ home'[g] = home[g]
  BY <1>4, <1>5, <1>6, LabelFacts
<1>12. root[f] = f /\ f \notin par /\ f \notin trunk
  BY <1>5, LabelFacts
<1>13. ready_list[w] = {}
  <2>1. ASSUME NEW p \in ready_list[w] PROVE FALSE
    <3>1. p \in Frames /\ kind[p] = "spawn" /\ home[p] = home[root[p]] /\ home[p] \in Users /\ team[w] = home[p]
      BY ReadyFrame
    <3>2. team[w] \in {w, Nobody} /\ home[root[p]] # w
      BY <1>1, <1>4, <1>11, <3>1 DEF TeamsOK
    <3>3. QED
      BY <3>1, <3>2, FramesAssumption
  <2>2. QED
    BY <2>1
<1>14. last_full_frame[w] = NoFrame
  <2>1. ASSUME last_full_frame[w] # NoFrame PROVE FALSE
    <3>1. last_full_frame[w] \in Frames /\ sync_master[last_full_frame[w]] = w
      BY <1>1, <2>1 DEF TypeOK, MastersOK
    <3>2. w # Nobody
      BY <1>4, FramesAssumption
    <3>3. QED
      BY <1>4, <3>1, <3>2, LabelFacts
  <2>2. QED
    BY <2>1
<1> DEFINE trunk2 == trunk \cup {f}
<1>15. Labelling(root, par, trunk2)
  BY <1>5 DEF Labelling
<1>16. WorkersOK'
  <2>1. ASSUME NEW v \in Workers, v # w PROVE WorkerOK(v)'
    <3>1. pc[v] = "work" => kind'[frame_ff[v]] = kind[frame_ff[v]]
      BY <1>1, <1>5, <1>6, AtWork
    <3>2. QED
      BY <1>1, <1>4, <1>6, <2>1, <3>1, OtherWorker
  <2>2. WorkerOK(w)'
    BY <1>1, <1>4, <1>5, <1>6, <1>7, FrameNumbers DEF WorkersOK, WorkerOK
  <2>3. QED
    BY <2>1, <2>2 DEF WorkersOK, Workers
<1>17. ShapeOK'
  <2>1. \A g \in Frames : parent[g] # NoFrame => parent[g] \in Frames /\ parent[g] # f
    BY <1>1, <1>5 DEF TypeOK
  <2>2. \A g \in Frames : kind'[g] \in {"free", "initial"} <=> parent[g] = NoFrame
    BY <1>1, <1>5, <1>6 DEF ShapeOK
  <2>3. \A g \in Frames : parent[g] # NoFrame => kind'[parent[g]] # "free"
    BY <1>1, <1>6, <2>1 DEF ShapeOK
  <2>4. \A g \in Frames : kind'[g] = "free" => kind[g] = "free"
    BY <1>6
  <2>5. \A g \in Frames : kind'[g] = "spawn" => kind[g] = "spawn"
    BY <1>6
  <2>6. QED
    BY <1>1, <1>4, <2>2, <2>3, <2>4, <2>5 DEF ShapeOK
<1>18. CallsOK'
  <2>1. \A c \in Frames : kind'[c] = "call" <=> kind[c] = "call"
    BY <1>5, <1>6
  <2>2. QED
    BY <1>1, <1>4, <1>5, <1>10, <2>1 DEF CallsOK
<1>19. Acyclic'
  BY <1>1, <1>4 DEF Acyclic
<1>20. PlacesOK'
  <2>1. \A g \in Frames : kind[g] = "spawn" => kind'[g] = "spawn" /\ join'[g] = join[g]
    BY <1>5, <1>6
  <2>2. pending \subseteq Frames /\ \A v \in Workers : ready_list[v] \subseteq Frames
    BY <1>1 DEF TypeOK
  <2>3. QED
    BY <1>1, <1>4, <1>9, <2>1, <2>2 DEF PlacesOK
<1>21. OwnersOK'
  BY <1>1, <1>5, <1>6, <1>9 DEF OwnersOK
<1>22. JoinOK'
  <2>1. ASSUME NEW g \in Frames
        PROVE  join'[g] = Cardinality(Children(g)') + (IF Owned(g)' THEN 1 ELSE 0)
    <3>1. CASE g = f
      <4>1. Cardinality(Children(f)') = 0
        BY <1>5, <1>10, FS_EmptySet
      <4>2. QED
        BY <1>6, <1>10, <3>1, <4>1
    <3>2. CASE g # f
      BY <1>1, <1>6, <1>10, <3>2 DEF JoinOK
    <3>3. QED
      BY <3>1, <3>2
  <2>2. QED
    BY <2>1 DEF JoinOK
<1>23. RootsOK(root)'
  <2>1. \A g \in Frames : kind'[g] # "free" => kind'[root[g]] = "initial"
    BY <1>1, <1>6, <1>11, <1>12 DEF RootsOK
  <2>2. \A g \in Frames : kind[g] = "initial" => home[g] \in Users /\ home[g] # w /\ pc[home[g]] # "unbound"
    BY <1>1, <1>4 DEF RootsOK
  <2>3. Users \subseteq Workers
    BY DEF Workers
  <2>4. \A g \in Frames : kind'[g] = "initial" => home'[g] \in Users /\ pc'[home'[g]] # "unbound"
    BY <1>4, <1>6, <2>2, <2>3
  <2>5. \A g, h \in Frames : kind'[g] = "initial" /\ kind'[h] = "initial" /\ home'[g] = home'[h]
            => g = h
    BY <1>1, <1>6, <2>2 DEF RootsOK
  <2>6. QED
    BY <1>1, <1>4, <2>1, <2>4, <2>5 DEF RootsOK
<1>24. TeamsOK(root)'
  <2>1. \A u \in Users : team'[u] \in {u, Nobody} /\ (pc'[u] # "unbound" => team'[u] = u)
    BY <1>1, <1>6 DEF TeamsOK, Workers
  <2>2. ASSUME NEW v \in Workers, NEW g \in Frames, Runs(v, g)' \/ Returning(v, g)'
        PROVE  team'[v] = home'[root[g]]
    <3>1. CASE v = w
      BY <1>6, <1>8, <1>9, <1>12, <2>2, <3>1
    <3>2. CASE v # w
      <4>1. kind[g] # "free" /\ team[v] = home[root[g]]
        BY <1>1, <1>9, <2>2, <3>2 DEF OwnersOK, PlacesOK, TeamsOK
      <4>2. QED
        BY <1>6, <1>11, <3>2, <4>1
    <3>3. QED
      BY <3>1, <3>2
  <2>3. ASSUME NEW v \in Workers, NEW g \in ready_list[v]
        PROVE  home'[g] = home'[root[g]] /\ team'[v] = home'[g]
    <3>1. g \in Frames /\ kind[g] = "spawn" /\ home[g] = home[root[g]] /\ team[v] = home[g] /\ v # w
      BY <1>13, <2>3, ReadyFrame
    <3>2. QED
      BY <1>6, <1>11, <3>1
  <2>4. ASSUME NEW g \in pending PROVE home'[g] = home'[root[g]]
    <3>1. g \in Frames /\ kind[g] = "spawn" /\ home[g] = home[root[g]]
      BY <1>1, <2>4 DEF TypeOK, PlacesOK, TeamsOK
    <3>2. QED
      BY <1>11, <3>1
  <2>5. QED
    BY <1>4, <2>1, <2>2, <2>3, <2>4 DEF TeamsOK
<1>25. LabelsOK(par, trunk2)'
  <2>1. ASSUME NEW g \in Frames
        PROVE  g \in trunk2 <=> kind'[g] = "initial" \/ (kind'[g] = "call" /\ parent[g] \in trunk2)
    BY <1>1, <1>5, <1>6 DEF LabelsOK
  <2>2. QED
    BY <1>1, <1>4, <2>1 DEF LabelsOK
<1>26. MastersOK(root, par, trunk2)'
  <2>1. ASSUME NEW g \in Frames, sync_master[g] # Nobody
        PROVE  /\ sync_master[g] = home'[root[g]] /\ last_full_frame[sync_master[g]] = g
               /\ unsynched[g] /\ g \in trunk2
    BY <1>11, <2>1, LabelFacts
  <2>2. ASSUME NEW g \in Frames \ par, kind'[g] # "free"
        PROVE  /\ g \in trunk2 /\ ~unsynched[g]
               /\ \A v \in Workers : Runs(v, g)' => v = home'[root[g]] /\ last_full_frame[v] = NoFrame
    <3>1. CASE g = f
      BY <1>5, <1>6, <1>9, <1>12, <1>14, <3>1
    <3>2. CASE g # f
      BY <1>1, <1>6, <1>9, <1>11, <2>2, <3>2 DEF MastersOK
    <3>3. QED
      BY <3>1, <3>2
  <2>3. ASSUME NEW g \in par PROVE last_full_frame[home'[root[g]]] # NoFrame
    <3>1. g \in Frames /\ kind[g] # "free"
      BY <2>3, LabelFacts DEF Labelling
    <3>2. QED
      BY <1>1, <1>11, <2>3, <3>1 DEF MastersOK
  <2>4. \A v \in Workers : last_full_frame[v] # NoFrame =>
            v \in Users /\ sync_master[last_full_frame[v]] = v
    BY <1>1 DEF MastersOK
  <2>5. QED
    BY <1>4, <2>1, <2>2, <2>3, <2>4 DEF MastersOK
<1>27. Inv(root, par, trunk2)'
  BY <1>2, <1>16, <1>17, <1>18, <1>19, <1>20, <1>21, <1>22, <1>23, <1>24, <1>25, <1>26 DEF Inv
<1>28. QED
  BY <1>15, <1>27

(* A thread leaves: the initial frame it runs is all that is left of its   *)
(* computation, and it is its own worker that runs it.                     *)
LEMMA ReturnFromInitialStep ==
    ASSUME NEW root, NEW par, NEW trunk, Labelling(root, par, trunk), Inv(root, par, trunk),
           NEW w \in Workers, ReturnFromInitial(w)
    PROVE  \E root2, par2, trunk2 :
               Labelling(root2, par2, trunk2) /\ Inv(root2, par2, trunk2)'
<1>1. /\ Basic /\ TypeOK /\ ShapeOK /\ CallsOK /\ Acyclic /\ PlacesOK /\ OwnersOK /\ JoinOK
      /\ RootsOK(root) /\ TeamsOK(root) /\ LabelsOK(par, trunk) /\ MastersOK(root, par, trunk)
      /\ WorkersOK
  BY InvBasic
<1>2. TypeOK'
  BY <1>1, NextType DEF WorkerStep
<1>3. PICK f : f = frame_ff[w]
  OBVIOUS
<1>4. /\ pc[w] = "work" /\ pc' = [pc EXCEPT ![w] = "unbound"]
      /\ deque[w] = <<>> /\ kind[f] = "initial" /\ ~unsynched[f]
      /\ frame_ff' = [frame_ff EXCEPT ![w] = NoFrame]
      /\ join' = [join EXCEPT ![f] = 0]
      /\ kind' = [kind EXCEPT ![f] = "free"]
      /\ home' = [home EXCEPT ![f] = Nobody]
      /\ calls' = [calls EXCEPT ![w] = 0]
      /\ parent' = parent /\ kids' = kids /\ unsynched' = unsynched
      /\ sync_master' = sync_master /\ pending' = pending /\ ready_list' = ready_list
      /\ next_frame_ff' = next_frame_ff /\ held' = held /\ deque' = deque
      /\ last_full_frame' = last_full_frame /\ team' = team
  BY <1>3 DEF ReturnFromInitial, AtFullFrame, Goto, Destroy
<1>5. /\ f \in Frames /\ next_frame_ff[w] = NoFrame /\ held[w] = NoFrame
      /\ Owned(f) /\ \A g \in Frames : Runs(w, g) <=> g = f
  BY <1>1, <1>3, <1>4, AtWork
<1>6. /\ kind'[f] = "free" /\ join'[f] = 0 /\ frame_ff'[w] = NoFrame /\ pc'[w] = "unbound"
      /\ calls'[w] = 0
      /\ \A g \in Frames \ {f} : kind'[g] = kind[g] /\ join'[g] = join[g] /\ home'[g] = home[g]
      /\ \A v \in Workers \ {w} : /\ frame_ff'[v] = frame_ff[v] /\ pc'[v] = pc[v]
                                  /\ calls'[v] = calls[v]
  BY <1>1, <1>4, <1>5 DEF TypeOK
<1>7. Children(f) = {} /\ kids[f] = {} /\ join[f] = 1
  BY <1>1, <1>4, <1>5, NoChildren
<1>8. parent[f] = NoFrame /\ sync_master[f] = Nobody /\ f \notin par /\ root[f] = f
  <2>1. parent[f] = NoFrame
    BY <1>1, <1>4, <1>5 DEF ShapeOK
  <2>2. sync_master[f] = Nobody
    BY <1>4, <1>5, LabelFacts
  <2>3. QED
    BY <1>1, <1>5, <2>1, <2>2, LabelFacts DEF LabelsOK
<1>9. w = home[f] /\ w \in Users /\ last_full_frame[w] = NoFrame
  BY <1>1, <1>4, <1>5, <1>8, LabelFacts DEF MastersOK
<1>10. \A g \in Frames : parent[g] # f
  BY <1>7 DEF Children
<1>11. ASSUME NEW g \in Frames, g # f PROVE root[g] # f
  <2> DEFINE G == {x \in Frames : root[x] = f /\ x # f}
  <2>1. SUFFICES ASSUME G # {} PROVE FALSE
    BY <1>11
  <2>2. PICK x \in G : parent[x] \notin G
    BY <1>1, <2>1 DEF Acyclic
  <2>3. x \in Frames /\ root[x] = f /\ x # f
    BY <2>2
  <2>4. parent[x] # NoFrame
    BY <2>3, LabelFacts
  <2>5. parent[x] \in Frames /\ root[parent[x]] = f
    BY <2>3, <2>4, LabelFacts
  <2>6. QED
    BY <1>10, <2>2, <2>3, <2>5
<1>12. \A g \in Frames : kind[g] # "free" /\ g # f =>
          /\ root[g] \in Frames /\ root[g] # f /\ home'[root[g]] = home[root[g]]
          /\ home'[g] = home[g]
  BY <1>6, <1>11, LabelFacts
<1>13. /\ \A v \in Workers, g \in Frames : Runs(v, g)' <=> Runs(v, g) /\ g # f
       /\ \A v \in Workers, g \in Frames : Returning(v, g)' <=> Returning(v, g)
  <2>1. ASSUME NEW g \in Frames PROVE ~Runs(w, g)' /\ ~Returning(w, g)' /\ ~Returning(w, g)
    BY <1>4, <1>5, <1>6, FrameNumbers DEF Runs, Returning
  <2>2. ASSUME NEW v \in Workers \ {w}, NEW g \in Frames
        PROVE  (Runs(v, g)' <=> Runs(v, g)) /\ (Returning(v, g)' <=> Returning(v, g))
    BY <1>4, <1>6 DEF Runs, Returning
  <2>3. \A v \in Workers \ {w} : ~Runs(v, f)
    BY <1>1, <1>5 DEF OwnersOK
  <2>4. QED
    BY <1>5, <2>1, <2>2, <2>3
<1>14. /\ ~Owned(f)' /\ \A g \in Frames \ {f} : Owned(g)' <=> Owned(g)
       /\ \A g \in Frames : Children(g)' = Children(g)
  <2>1. ~Owned(f)' /\ \A g \in Frames \ {f} : Owned(g)' <=> Owned(g)
    BY <1>5, <1>13 DEF Owned
  <2>2. \A g \in Frames : Children(g)' = Children(g)
    BY <1>4 DEF Children
  <2>3. QED
    BY <2>1, <2>2
<1>15. /\ f \notin pending
       /\ \A v \in Workers : f \notin ready_list[v] /\ ~Returning(v, f)
  BY <1>1, <1>4, <1>5 DEF PlacesOK
<1> DEFINE trunk2 == trunk \ {f}
<1>16. Labelling(root, par, trunk2)
  BY DEF Labelling
<1>17. WorkersOK'
  <2>1. ASSUME NEW v \in Workers, v # w PROVE WorkerOK(v)'
    <3>1. ASSUME pc[v] = "work" PROVE kind'[frame_ff[v]] = kind[frame_ff[v]]
      <4>1. frame_ff[v] \in Frames /\ Runs(v, frame_ff[v])
        BY <1>1, <3>1, AtWork
      <4>2. frame_ff[v] # f
        BY <1>1, <1>5, <2>1, <4>1 DEF OwnersOK
      <4>3. QED
        BY <1>6, <4>1, <4>2
    <3>2. QED
      BY <1>1, <1>4, <1>6, <2>1, <3>1, OtherWorker
  <2>2. WorkerOK(w)'
    BY <1>4, <1>5, <1>6, <1>9 DEF WorkerOK
  <2>3. QED
    BY <2>1, <2>2 DEF WorkersOK, Workers
<1>18. ShapeOK'
  <2>1. \A g \in Frames : parent[g] # NoFrame => parent[g] \in Frames /\ parent[g] # f
    BY <1>1, <1>10 DEF TypeOK
  <2>2. \A g \in Frames : kind'[g] \in {"free", "initial"} <=> parent[g] = NoFrame
    BY <1>1, <1>6, <1>8 DEF ShapeOK
  <2>3. \A g \in Frames : parent[g] # NoFrame => kind'[parent[g]] # "free"
    BY <1>1, <1>6, <2>1 DEF ShapeOK
  <2>4. \A g \in Frames : kind'[g] = "free" => kind[g] = "free" \/ g = f
    BY <1>6
  <2>5. \A g \in Frames : kind'[g] = "spawn" => kind[g] = "spawn"
    BY <1>6
  <2>6. QED
    BY <1>1, <1>4, <1>8, <2>2, <2>3, <2>4, <2>5 DEF ShapeOK
<1>19. CallsOK'
  <2>1. \A c \in Frames : kind'[c] = "call" <=> kind[c] = "call"
    BY <1>4, <1>6
  <2>2. QED
    BY <1>1, <1>4, <1>10, <1>14, <2>1 DEF CallsOK
<1>20. Acyclic'
  BY <1>1, <1>4 DEF Acyclic
<1>21. PlacesOK'
  <2>1. \A g \in Frames : kind[g] = "spawn" => kind'[g] = "spawn" /\ join'[g] = join[g]
    BY <1>4, <1>6
  <2>2. pending \subseteq Frames /\ \A v \in Workers : ready_list[v] \subseteq Frames
    BY <1>1 DEF TypeOK
  <2>3. QED
    BY <1>1, <1>4, <1>13, <2>1, <2>2 DEF PlacesOK
<1>22. OwnersOK'
  BY <1>1, <1>6, <1>13 DEF OwnersOK
<1>23. JoinOK'
  <2>1. ASSUME NEW g \in Frames
        PROVE  join'[g] = Cardinality(Children(g)') + (IF Owned(g)' THEN 1 ELSE 0)
    <3>1. CASE g = f
      <4>1. Cardinality(Children(f)') = 0
        BY <1>5, <1>7, <1>14, FS_EmptySet
      <4>2. QED
        BY <1>6, <1>14, <3>1, <4>1
    <3>2. CASE g # f
      BY <1>1, <1>6, <1>14, <3>2 DEF JoinOK
    <3>3. QED
      BY <3>1, <3>2
  <2>2. QED
    BY <2>1 DEF JoinOK
<1>24. RootsOK(root)'
  <2>1. \A g \in Frames : kind'[g] # "free" => kind'[root[g]] = "initial"
    BY <1>1, <1>6, <1>12 DEF RootsOK
  <2>2. \A g \in Frames \ {f} : kind[g] = "initial" => home[g] \in Users /\ home[g] # w /\ pc[home[g]] # "unbound"
    BY <1>1, <1>4, <1>5, <1>9 DEF RootsOK
  <2>3. Users \subseteq Workers
    BY DEF Workers
  <2>4. \A g \in Frames : kind'[g] = "initial" => home'[g] \in Users /\ pc'[home'[g]] # "unbound"
    BY <1>6, <2>2, <2>3
  <2>5. \A g, h \in Frames : kind'[g] = "initial" /\ kind'[h] = "initial" /\ home'[g] = home'[h]
            => g = h
    BY <1>1, <1>6 DEF RootsOK
  <2>6. QED
    BY <1>1, <1>4, <2>1, <2>4, <2>5 DEF RootsOK
<1>25. TeamsOK(root)'
  <2>1. \A u \in Users : team[u] \in {u, Nobody} /\ (pc'[u] # "unbound" => team[u] = u)
    BY <1>1, <1>6 DEF TeamsOK, Workers
  <2>2. ASSUME NEW v \in Workers, NEW g \in Frames, Runs(v, g)' \/ Returning(v, g)'
        PROVE  team[v] = home'[root[g]]
    <3>1. g # f /\ kind[g] # "free" /\ team[v] = home[root[g]]
      BY <1>1, <1>13, <1>15, <2>2 DEF OwnersOK, PlacesOK, TeamsOK
    <3>2. QED
      BY <1>12, <3>1
  <2>3. ASSUME NEW v \in Workers, NEW g \in ready_list[v]
        PROVE  home'[g] = home'[root[g]] /\ team[v] = home'[g]
    <3>1. g \in Frames /\ kind[g] = "spawn" /\ home[g] = home[root[g]] /\ team[v] = home[g] /\ g # f
      BY <1>15, <2>3, ReadyFrame
    <3>2. QED
      BY <1>12, <3>1
  <2>4. ASSUME NEW g \in pending PROVE home'[g] = home'[root[g]]
    <3>1. g \in Frames /\ kind[g] = "spawn" /\ home[g] = home[root[g]] /\ g # f
      BY <1>1, <1>15, <2>4 DEF TypeOK, PlacesOK, TeamsOK
    <3>2. QED
      BY <1>12, <3>1
  <2>5. QED
    BY <1>4, <2>1, <2>2, <2>3, <2>4 DEF TeamsOK
<1>26. LabelsOK(par, trunk2)'
  <2>1. ASSUME NEW g \in Frames
        PROVE  g \in trunk2 <=> kind'[g] = "initial" \/ (kind'[g] = "call" /\ parent[g] \in trunk2)
    BY <1>1, <1>6, <1>10 DEF LabelsOK
  <2>2. QED
    BY <1>1, <1>4, <2>1 DEF LabelsOK
<1>27. MastersOK(root, par, trunk2)'
  <2>1. ASSUME NEW g \in Frames, sync_master[g] # Nobody
        PROVE  /\ sync_master[g] = home'[root[g]] /\ last_full_frame[sync_master[g]] = g
               /\ unsynched[g] /\ g \in trunk2
    BY <1>8, <1>12, <2>1, LabelFacts
  <2>2. ASSUME NEW g \in Frames \ par, kind'[g] # "free"
        PROVE  /\ g \in trunk2 /\ ~unsynched[g]
               /\ \A v \in Workers : Runs(v, g)' => v = home'[root[g]] /\ last_full_frame[v] = NoFrame
    BY <1>1, <1>6, <1>12, <1>13, <2>2 DEF MastersOK
  <2>3. ASSUME NEW g \in par PROVE last_full_frame[home'[root[g]]] # NoFrame
    <3>1. g \in Frames /\ kind[g] # "free" /\ g # f
      BY <1>8, <2>3, LabelFacts DEF Labelling
    <3>2. QED
      BY <1>1, <1>12, <2>3, <3>1 DEF MastersOK
  <2>4. \A v \in Workers : last_full_frame[v] # NoFrame =>
            v \in Users /\ sync_master[last_full_frame[v]] = v
    BY <1>1 DEF MastersOK
  <2>5. QED
    BY <1>4, <2>1, <2>2, <2>3, <2>4 DEF MastersOK
<1>28. Inv(root, par, trunk2)'
  BY <1>2, <1>17, <1>18, <1>19, <1>20, <1>21, <1>22, <1>23, <1>24, <1>25, <1>26, <1>27 DEF Inv
<1>29. QED
  BY <1>16, <1>28

-----------------------------------------------------------------------------
(* A frame ends: a spawned one leaves its parent's list, ...               *)
LEMMA LoseReturnStep ==
    ASSUME NEW root, NEW par, NEW trunk, Labelling(root, par, trunk), Inv(root, par, trunk),
           NEW w \in Workers, LoseReturn(w)
    PROVE  Inv(root, par, trunk)'
<1>1. /\ Basic /\ TypeOK /\ ShapeOK /\ CallsOK /\ Acyclic /\ PlacesOK /\ OwnersOK /\ JoinOK
      /\ RootsOK(root) /\ TeamsOK(root) /\ LabelsOK(par, trunk) /\ MastersOK(root, par, trunk)
      /\ WorkersOK
  BY InvBasic
<1>2. TypeOK'
  BY <1>1, NextType DEF WorkerStep
<1>3. PICK f : f = frame_ff[w]
  OBVIOUS
<1>4. /\ pc[w] = "work" /\ pc' = [pc EXCEPT ![w] = "return"]
      /\ deque[w] = <<>> /\ kind[f] = "spawn"
      /\ kids' = [kids EXCEPT ![parent[f]] = @ \ {f}]
      /\ join' = DecJoin(f)
      /\ held' = [held EXCEPT ![w] = f]
      /\ frame_ff' = [frame_ff EXCEPT ![w] = NoFrame]
      /\ calls' = [calls EXCEPT ![w] = 0]
      /\ kind' = kind /\ parent' = parent /\ unsynched' = unsynched
      /\ sync_master' = sync_master /\ home' = home /\ pending' = pending
      /\ ready_list' = ready_list /\ next_frame_ff' = next_frame_ff
      /\ last_full_frame' = last_full_frame /\ team' = team /\ deque' = deque
  BY <1>3 DEF LoseReturn, AtFullFrame, Goto, UnlinkChild
<1>5. /\ f \in Frames /\ next_frame_ff[w] = NoFrame /\ held[w] = NoFrame
      /\ Owned(f) /\ Runs(w, f) /\ \A g \in Frames : Runs(w, g) <=> g = f
  BY <1>1, <1>3, <1>4, AtWork
<1>6. ~unsynched[f] /\ parent[f] \in Frames
  <2>1. parent[f] # NoFrame
    BY <1>1, <1>4, <1>5 DEF ShapeOK
  <2>2. QED
    BY <1>1, <1>4, <1>5, <2>1, LabelFacts DEF ShapeOK
<1>7. join[f] = 1 /\ Children(f) = {}
  BY <1>1, <1>5, <1>6, NoChildren
<1>8. /\ join'[f] = 0 /\ frame_ff'[w] = NoFrame /\ pc'[w] = "return" /\ held'[w] = f
      /\ calls'[w] = 0
      /\ \A g \in Frames \ {f} : join'[g] = join[g]
      /\ kids'[parent[f]] = kids[parent[f]] \ {f} /\ \A g \in Frames : kids'[g] \subseteq kids[g]
      /\ \A v \in Workers \ {w} : /\ frame_ff'[v] = frame_ff[v] /\ pc'[v] = pc[v]
                                  /\ calls'[v] = calls[v] /\ held'[v] = held[v]
  BY <1>1, <1>4, <1>5, <1>6, <1>7 DEF TypeOK, DecJoin
<1>9. /\ \A v \in Workers, g \in Frames : Runs(v, g)' <=> Runs(v, g) /\ g # f
      /\ \A v \in Workers, g \in Frames : Returning(v, g)' <=> Returning(v, g) \/ (v = w /\ g = f)
  <2>1. ASSUME NEW g \in Frames
        PROVE  ~Runs(w, g)' /\ (Returning(w, g)' <=> g = f) /\ ~Returning(w, g)
    BY <1>4, <1>5, <1>8, FrameNumbers DEF Runs, Returning
  <2>2. ASSUME NEW v \in Workers \ {w}, NEW g \in Frames
        PROVE  (Runs(v, g)' <=> Runs(v, g)) /\ (Returning(v, g)' <=> Returning(v, g))
    BY <1>4, <1>8 DEF Runs, Returning
  <2>3. \A v \in Workers \ {w} : ~Runs(v, f)
    BY <1>1, <1>5 DEF OwnersOK
  <2>4. QED
    BY <1>5, <2>1, <2>2, <2>3
<1>10. /\ ~Owned(f)' /\ \A g \in Frames \ {f} : Owned(g)' <=> Owned(g)
       /\ \A g \in Frames : Children(g)' = Children(g)
  <2>1. ~Owned(f)' /\ \A g \in Frames \ {f} : Owned(g)' <=> Owned(g)
    BY <1>5, <1>9 DEF Owned
  <2>2. \A g \in Frames : Children(g)' = Children(g)
    BY <1>4 DEF Children
  <2>3. QED
    BY <2>1, <2>2
<1>11. f \notin pending /\ \A v \in Workers : f \notin ready_list[v] /\ ~Returning(v, f)
  BY <1>1, <1>5, <1>7 DEF PlacesOK
<1>12. WorkersOK'
  <2>1. ASSUME NEW v \in Workers, v # w PROVE WorkerOK(v)'
    BY <1>1, <1>4, <1>8, <2>1, OtherWorker
  <2>2. WorkerOK(w)'
    BY <1>4, <1>5, <1>8, FrameNumbers DEF WorkerOK
  <2>3. QED
    BY <2>1, <2>2 DEF WorkersOK, Workers
<1>13. ShapeOK'
  <2>1. \A g \in Frames : \A c \in kids'[g] : parent[c] = g
    BY <1>1, <1>8 DEF ShapeOK
  <2>2. QED
    BY <1>1, <1>4, <2>1 DEF ShapeOK
<1>14. CallsOK'
  <2>1. \A g \in Frames : Owned(g)' => Owned(g)
    BY <1>10
  <2>2. QED
    BY <1>1, <1>4, <2>1 DEF CallsOK
<1>15. Acyclic'
  BY <1>1, <1>4 DEF Acyclic
<1>16. PlacesOK'
  <2>1. \A g \in pending : kind[g] = "spawn" /\ join'[g] = 0
    BY <1>1, <1>8 DEF PlacesOK, TypeOK
  <2>2. ASSUME NEW v \in Workers, NEW g \in ready_list[v]
        PROVE  /\ kind[g] = "spawn" /\ join'[g] = 0 /\ g \notin pending
               /\ \A x \in Workers : g \in ready_list[x] => x = v
    BY <1>1, <1>8, <2>2 DEF PlacesOK, TypeOK
  <2>3. ASSUME NEW v \in Workers, NEW g \in Frames, Returning(v, g)'
        PROVE  /\ kind[g] = "spawn" /\ join'[g] = 0 /\ g \notin pending /\ g \notin kids'[parent[g]]
               /\ \A x \in Workers : g \notin ready_list[x] /\ (Returning(x, g)' => x = v)
    <3>1. CASE g = f
      BY <1>4, <1>8, <1>9, <1>11, <2>3, <3>1
    <3>2. CASE g # f
      <4>1. /\ kind[g] = "spawn" /\ join[g] = 0 /\ g \notin pending /\ g \notin kids[parent[g]]
            /\ \A x \in Workers : g \notin ready_list[x] /\ (Returning(x, g) => x = v)
        BY <1>1, <1>9, <2>3, <3>2 DEF PlacesOK
      <4>2. parent[g] \in Frames
        BY <1>1, <4>1, LabelFacts DEF ShapeOK
      <4>3. QED
        BY <1>8, <1>9, <3>2, <4>1, <4>2
    <3>3. QED
      BY <3>1, <3>2
  <2>4. QED
    BY <1>4, <2>1, <2>2, <2>3 DEF PlacesOK
<1>17. OwnersOK'
  BY <1>1, <1>4, <1>9 DEF OwnersOK
<1>18. JoinOK'
  <2>1. ASSUME NEW g \in Frames
        PROVE  join'[g] = Cardinality(Children(g)') + (IF Owned(g)' THEN 1 ELSE 0)
    <3>1. CASE g = f
      <4>1. Cardinality(Children(f)') = 0
        BY <1>5, <1>7, <1>10, FS_EmptySet
      <4>2. QED
        BY <1>8, <1>10, <3>1, <4>1
    <3>2. CASE g # f
      BY <1>1, <1>8, <1>10, <3>2 DEF JoinOK
    <3>3. QED
      BY <3>1, <3>2
  <2>2. QED
    BY <2>1 DEF JoinOK
<1>19. RootsOK(root)'
  <2>1. \A g \in Frames : kind[g] = "initial" => home[g] \in Users /\ pc[home[g]] # "unbound"
    BY <1>1 DEF RootsOK
  <2>2. \A v \in Users : pc'[v] = "unbound" => pc[v] = "unbound"
    BY <1>8 DEF Workers
  <2>3. QED
    BY <1>1, <1>4, <2>1, <2>2 DEF RootsOK
<1>20. TeamsOK(root)'
  <2>1. \A u \in Users : team[u] \in {u, Nobody} /\ (pc'[u] # "unbound" => team[u] = u)
    BY <1>1, <1>4, <1>8 DEF TeamsOK, Workers
  <2>2. ASSUME NEW v \in Workers, NEW g \in Frames, Runs(v, g)' \/ Returning(v, g)'
        PROVE  team[v] = home[root[g]]
    BY <1>1, <1>5, <1>9, <2>2 DEF TeamsOK
  <2>3. QED
    BY <1>1, <1>4, <2>1, <2>2 DEF TeamsOK
<1>21. LabelsOK(par, trunk)'
  BY <1>1, <1>4 DEF LabelsOK
<1>22. MastersOK(root, par, trunk)'
  BY <1>1, <1>4, <1>9 DEF MastersOK
<1>23. QED
  BY <1>2, <1>12, <1>13, <1>14, <1>15, <1>16, <1>17, <1>18, <1>19, <1>20, <1>21, <1>22 DEF Inv

(* ... a called one gives its worker back to the caller, which had none.   *)
LEMMA ReturnFromCallStep ==
    ASSUME NEW root, NEW par, NEW trunk, Labelling(root, par, trunk), Inv(root, par, trunk),
           NEW w \in Workers, ReturnFromCall(w)
    PROVE  \E root2, par2, trunk2 :
               Labelling(root2, par2, trunk2) /\ Inv(root2, par2, trunk2)'
<1>1. /\ Basic /\ TypeOK /\ ShapeOK /\ CallsOK /\ Acyclic /\ PlacesOK /\ OwnersOK /\ JoinOK
      /\ RootsOK(root) /\ TeamsOK(root) /\ LabelsOK(par, trunk) /\ MastersOK(root, par, trunk)
      /\ WorkersOK
  BY InvBasic
<1>2. TypeOK'
  BY <1>1, NextType DEF WorkerStep
<1>3. PICK f, p : f = frame_ff[w] /\ p = parent[f]
  OBVIOUS
<1>4. /\ pc[w] = "work" /\ pc' = pc
      /\ deque[w] = <<>> /\ kind[f] = "call" /\ ~unsynched[f]
      /\ frame_ff' = [frame_ff EXCEPT ![w] = p]
      /\ join' = DecJoin(f)
      /\ kids' = [kids EXCEPT ![p] = @ \ {f}]
      /\ kind' = [kind EXCEPT ![f] = "free"]
      /\ home' = [home EXCEPT ![f] = Nobody]
      /\ parent' = [parent EXCEPT ![f] = NoFrame]
      /\ calls' = calls /\ unsynched' = unsynched
      /\ sync_master' = sync_master /\ pending' = pending /\ ready_list' = ready_list
      /\ next_frame_ff' = next_frame_ff /\ held' = held /\ deque' = deque
      /\ last_full_frame' = last_full_frame /\ team' = team
  BY <1>3 DEF ReturnFromCall, AtFullFrame, Destroy, MakeRunnable, UnlinkChild, stack
<1>5. /\ f \in Frames /\ next_frame_ff[w] = NoFrame /\ held[w] = NoFrame
      /\ Owned(f) /\ Runs(w, f) /\ \A g \in Frames : Runs(w, g) <=> g = f
  BY <1>1, <1>3, <1>4, AtWork
<1>6. Children(f) = {} /\ kids[f] = {} /\ join[f] = 1
  BY <1>1, <1>4, <1>5, NoChildren
<1>7. p # NoFrame /\ p \in Frames /\ kind[p] # "free" /\ p # f
  <2>1. p # NoFrame
    BY <1>1, <1>3, <1>4, <1>5 DEF ShapeOK
  <2>2. p \in Frames /\ kind[p] # "free"
    BY <1>1, <1>3, <1>5, <2>1, LabelFacts DEF ShapeOK
  <2>3. QED
    BY <1>3, <1>5, <1>6, <2>1, <2>2 DEF Children
<1>8. /\ ~Owned(p) /\ \A d \in Frames : kind[d] = "call" /\ parent[d] = p => d = f
  BY <1>1, <1>3, <1>4, <1>5, <1>7 DEF CallsOK
<1>9. /\ kind'[f] = "free" /\ join'[f] = 0 /\ parent'[f] = NoFrame /\ frame_ff'[w] = p
      /\ \A g \in Frames \ {f} : /\ kind'[g] = kind[g] /\ join'[g] = join[g]
                                 /\ home'[g] = home[g] /\ parent'[g] = parent[g]
      /\ kids'[p] = kids[p] \ {f} /\ \A g \in Frames : kids'[g] \subseteq kids[g]
      /\ \A v \in Workers \ {w} : frame_ff'[v] = frame_ff[v]
  BY <1>1, <1>4, <1>5, <1>6, <1>7 DEF TypeOK, DecJoin
<1>10. \A g \in Frames : parent[g] # f
  BY <1>6 DEF Children
<1>11. sync_master[f] = Nobody
  BY <1>4, <1>5, LabelFacts
<1>12. /\ \A v \in Workers, g \in Frames :
              Runs(v, g)' <=> (Runs(v, g) /\ g # f) \/ (v = w /\ g = p)
       /\ \A v \in Workers, g \in Frames : Returning(v, g)' <=> Returning(v, g)
  <2>1. ASSUME NEW g \in Frames PROVE Runs(w, g)' <=> g = p
    BY <1>4, <1>5, <1>7, <1>9, FrameNumbers DEF Runs
  <2>2. ASSUME NEW v \in Workers \ {w}, NEW g \in Frames PROVE Runs(v, g)' <=> Runs(v, g)
    BY <1>4, <1>9 DEF Runs
  <2>3. \A v \in Workers \ {w} : ~Runs(v, f)
    BY <1>1, <1>5 DEF OwnersOK
  <2>4. \A v \in Workers, g \in Frames : Returning(v, g)' <=> Returning(v, g)
    BY <1>4 DEF Returning
  <2>5. QED
    BY <1>5, <2>1, <2>2, <2>3, <2>4
<1>13. /\ ~Owned(f)' /\ Owned(p)' /\ \A g \in Frames \ {f, p} : Owned(g)' <=> Owned(g)
       /\ Children(p)' = Children(p) \ {f} /\ f \in Children(p)
       /\ \A g \in Frames \ {p} : Children(g)' = Children(g)
  <2>1. ~Owned(f)' /\ Owned(p)' /\ \A g \in Frames \ {f, p} : Owned(g)' <=> Owned(g)
    BY <1>5, <1>7, <1>12 DEF Owned
  <2>2. ASSUME NEW g \in Frames, NEW c \in Frames
        PROVE  parent'[c] = g <=> parent[c] = g /\ c # f
    BY <1>9, FrameNumbers
  <2>3. Children(p)' = Children(p) \ {f} /\ f \in Children(p)
    BY <1>3, <1>5, <1>7, <2>2 DEF Children
  <2>4. ASSUME NEW g \in Frames \ {p} PROVE Children(g)' = Children(g)
    BY <1>3, <2>2 DEF Children
  <2>5. QED
    BY <2>1, <2>3, <2>4
<1>14. /\ f \notin pending
       /\ \A v \in Workers : f \notin ready_list[v] /\ ~Returning(v, f)
  BY <1>1, <1>4, <1>5 DEF PlacesOK
<1> DEFINE root2 == [root EXCEPT ![f] = f]
           par2 == par \ {f}
           trunk2 == trunk \ {f}
<1>15. root \in [Frames -> Frames] /\ par \in SUBSET Frames /\ trunk \in SUBSET Frames
  BY DEF Labelling
<1>16. Labelling(root2, par2, trunk2)
  BY <1>5, <1>15 DEF Labelling
<1>17. root2[f] = f /\ \A g \in Frames \ {f} : root2[g] = root[g]
  BY <1>5, <1>15
<1> HIDE DEF root2
<1>18. \A g \in Frames : kind[g] # "free" /\ g # f =>
          /\ root[g] \in Frames /\ root[g] # f /\ root2[g] = root[g]
          /\ home'[root2[g]] = home[root[g]] /\ home'[g] = home[g]
  BY <1>4, <1>9, <1>17, LabelFacts
<1>19. root[p] = root[f] /\ (f \in par <=> p \in par) /\ (f \in trunk <=> p \in trunk)
  BY <1>1, <1>3, <1>4, <1>5, <1>7, <1>11, LabelFacts DEF LabelsOK
<1>20. \A g \in Frames : parent[g] # NoFrame => parent[g] \in Frames /\ parent[g] # f
  BY <1>1, <1>10 DEF TypeOK
<1>21. WorkersOK'
  <2>1. ASSUME NEW v \in Workers, v # w PROVE WorkerOK(v)'
    <3>1. ASSUME pc[v] = "work" PROVE kind'[frame_ff[v]] = kind[frame_ff[v]]
      <4>1. frame_ff[v] \in Frames /\ Runs(v, frame_ff[v])
        BY <1>1, <3>1, AtWork
      <4>2. frame_ff[v] # f
        BY <1>1, <1>5, <2>1, <4>1 DEF OwnersOK
      <4>3. QED
        BY <1>9, <4>1, <4>2
    <3>2. QED
      BY <1>1, <1>4, <1>9, <2>1, <3>1, OtherWorker
  <2>2. WorkerOK(w)'
    BY <1>1, <1>4, <1>5, <1>7, <1>9 DEF WorkerOK, WorkersOK
  <2>3. QED
    BY <2>1, <2>2 DEF WorkersOK, Workers
<1>22. ShapeOK'
  <2>1. \A g \in Frames : kind'[g] \in {"free", "initial"} <=> parent'[g] = NoFrame
    BY <1>1, <1>9 DEF ShapeOK
  <2>2. \A g \in Frames : parent'[g] # NoFrame => kind'[parent'[g]] # "free"
    BY <1>1, <1>9, <1>20 DEF ShapeOK
  <2>3. \A g \in Frames : kind'[g] = "free" => ~unsynched[g] /\ sync_master[g] = Nobody
    BY <1>1, <1>4, <1>9, <1>11 DEF ShapeOK
  <2>4. ASSUME NEW g \in Frames, NEW c \in kids'[g] PROVE parent'[c] = g
    <3>1. c \in kids[g] /\ c \in Frames /\ parent[c] = g
      BY <1>1, <1>9, <2>4 DEF ShapeOK, TypeOK
    <3>2. c # f
      BY <1>3, <1>9, <2>4, <3>1
    <3>3. QED
      BY <1>9, <3>1, <3>2
  <2>5. \A g \in Frames : kind'[g] = "spawn" => unsynched[parent'[g]] /\ ~unsynched[g]
    BY <1>1, <1>9 DEF ShapeOK
  <2>6. QED
    BY <1>4, <2>1, <2>2, <2>3, <2>4, <2>5 DEF ShapeOK
<1>23. CallsOK'
  <2>1. ASSUME NEW g \in Frames, NEW c \in Frames, kind'[c] = "call", parent'[c] = g
        PROVE  /\ ~Owned(g)'
               /\ \A d \in Frames : kind'[d] = "call" /\ parent'[d] = g => d = c
    <3>1. c # f /\ kind[c] = "call" /\ parent[c] = g
      BY <1>9, <2>1
    <3>2. g # f /\ g # p
      BY <1>8, <1>10, <3>1
    <3>3. /\ ~Owned(g)
          /\ \A d \in Frames : kind[d] = "call" /\ parent[d] = g => d = c
      BY <1>1, <3>1 DEF CallsOK
    <3>4. QED
      BY <1>9, <1>13, <3>2, <3>3
  <2>2. QED
    BY <2>1 DEF CallsOK
<1>24. Acyclic'
  BY <1>1, <1>4, <1>5, LostLeaf
<1>25. PlacesOK'
  <2>1. \A g \in Frames : kind[g] = "spawn" =>
            /\ kind'[g] = "spawn" /\ join'[g] = join[g] /\ parent'[g] = parent[g]
            /\ parent[g] \in Frames
    BY <1>1, <1>4, <1>9, LabelFacts DEF ShapeOK
  <2>2. pending \subseteq Frames /\ \A v \in Workers : ready_list[v] \subseteq Frames
    BY <1>1 DEF TypeOK
  <2>3. ASSUME NEW v \in Workers, NEW g \in Frames, Returning(v, g)
        PROVE  /\ kind'[g] = "spawn" /\ join'[g] = 0 /\ g \notin pending
               /\ g \notin kids'[parent'[g]]
               /\ \A x \in Workers : g \notin ready_list[x] /\ (Returning(x, g) => x = v)
    <3>1. /\ kind[g] = "spawn" /\ join[g] = 0 /\ g \notin pending /\ g \notin kids[parent[g]]
          /\ \A x \in Workers : g \notin ready_list[x] /\ (Returning(x, g) => x = v)
      BY <1>1, <2>3 DEF PlacesOK
    <3>2. QED
      BY <1>9, <2>1, <3>1
  <2>4. QED
    BY <1>1, <1>4, <1>12, <2>1, <2>2, <2>3 DEF PlacesOK
<1>26. OwnersOK'
  <2>1. \A v \in Workers : ~Runs(v, p)
    BY <1>8 DEF Owned
  <2>2. QED
    BY <1>1, <1>7, <1>9, <1>12, <2>1 DEF OwnersOK
<1>27. JoinOK'
  <2>1. ASSUME NEW g \in Frames
        PROVE  join'[g] = Cardinality(Children(g)') + (IF Owned(g)' THEN 1 ELSE 0)
    <3>1. CASE g = f
      <4>1. Cardinality(Children(f)') = 0
        BY <1>5, <1>6, <1>7, <1>13, FS_EmptySet
      <4>2. QED
        BY <1>9, <1>13, <3>1, <4>1
    <3>2. CASE g = p
      <4>1. Children(p) \in SUBSET Frames
        BY DEF Children
      <4>2. /\ Cardinality(Children(p)') = Cardinality(Children(p)) - 1
            /\ Cardinality(Children(p)) \in Nat
        BY <1>13, <4>1, CardMinus
      <4>3. join[p] = Cardinality(Children(p))
        BY <1>1, <1>7, <1>8, <4>2 DEF JoinOK
      <4>4. join'[p] = join[p]
        BY <1>7, <1>9
      <4>5. join'[p] = Cardinality(Children(p)') + 1
        BY <4>2, <4>3, <4>4
      <4>6. QED
        BY <1>13, <3>2, <4>5
    <3>3. CASE g # f /\ g # p
      BY <1>1, <1>9, <1>13, <3>3 DEF JoinOK
    <3>4. QED
      BY <3>1, <3>2, <3>3
  <2>2. QED
    BY <2>1 DEF JoinOK
<1>28. RootsOK(root2)'
  <2>1. \A g \in Frames : root2[g] = IF parent'[g] = NoFrame THEN g ELSE root2[parent'[g]]
    BY <1>1, <1>9, <1>17, <1>20 DEF RootsOK
  <2>2. \A g \in Frames : kind'[g] # "free" => kind'[root2[g]] = "initial"
    BY <1>1, <1>9, <1>18 DEF RootsOK
  <2>3. QED
    BY <1>1, <1>4, <1>9, <2>1, <2>2 DEF RootsOK
<1>29. TeamsOK(root2)'
  <2>1. ASSUME NEW v \in Workers, NEW g \in Frames, Runs(v, g)' \/ Returning(v, g)'
        PROVE  team[v] = home'[root2[g]]
    <3>1. CASE v = w /\ g = p
      <4>1. team[w] = home[root[f]]
        BY <1>1, <1>5 DEF TeamsOK
      <4>2. QED
        BY <1>7, <1>18, <1>19, <3>1, <4>1
    <3>2. CASE ~(v = w /\ g = p)
      <4>1. g # f /\ kind[g] # "free" /\ team[v] = home[root[g]]
        BY <1>1, <1>12, <1>14, <2>1, <3>2 DEF OwnersOK, PlacesOK, TeamsOK
      <4>2. QED
        BY <1>18, <4>1
    <3>3. QED
      BY <3>1, <3>2
  <2>2. ASSUME NEW v \in Workers, NEW g \in ready_list[v]
        PROVE  home'[g] = home'[root2[g]] /\ team[v] = home'[g]
    <3>1. g \in Frames /\ kind[g] = "spawn" /\ home[g] = home[root[g]] /\ team[v] = home[g] /\ g # f
      BY <1>14, <2>2, ReadyFrame
    <3>2. QED
      BY <1>18, <3>1
  <2>3. ASSUME NEW g \in pending PROVE home'[g] = home'[root2[g]]
    <3>1. g \in Frames /\ kind[g] = "spawn" /\ home[g] = home[root[g]] /\ g # f
      BY <1>1, <1>14, <2>3 DEF TypeOK, PlacesOK, TeamsOK
    <3>2. QED
      BY <1>18, <3>1
  <2>4. \A u \in Users : team[u] \in {u, Nobody} /\ (pc[u] # "unbound" => team[u] = u)
    BY <1>1 DEF TeamsOK
  <2>5. QED
    BY <1>4, <2>1, <2>2, <2>3, <2>4 DEF TeamsOK
<1>30. LabelsOK(par2, trunk2)'
  <2>1. ASSUME NEW g \in Frames
        PROVE  g \in par2 <=> sync_master[g] # Nobody \/ (parent'[g] # NoFrame /\ parent'[g] \in par2)
    <3>1. CASE g = f
      BY <1>9, <1>11, <3>1
    <3>2. CASE g # f
      BY <1>1, <1>9, <1>20, <3>2 DEF LabelsOK
    <3>3. QED
      BY <3>1, <3>2
  <2>2. ASSUME NEW g \in Frames
        PROVE  g \in trunk2 <=> kind'[g] = "initial" \/ (kind'[g] = "call" /\ parent'[g] \in trunk2)
    BY <1>1, <1>9, <1>10 DEF LabelsOK
  <2>3. QED
    BY <1>4, <2>1, <2>2 DEF LabelsOK
<1>31. MastersOK(root2, par2, trunk2)'
  <2>1. ASSUME NEW g \in Frames, sync_master[g] # Nobody
        PROVE  /\ sync_master[g] = home'[root2[g]] /\ last_full_frame[sync_master[g]] = g
               /\ unsynched[g] /\ g \in trunk2
    BY <1>11, <1>18, <2>1, LabelFacts
  <2>2. ASSUME NEW g \in Frames \ par2, kind'[g] # "free"
        PROVE  /\ g \in trunk2 /\ ~unsynched[g]
               /\ \A v \in Workers : Runs(v, g)' => v = home'[root2[g]] /\ last_full_frame[v] = NoFrame
    <3>1. /\ g # f /\ g \notin par /\ kind[g] # "free"
          /\ g \in trunk /\ ~unsynched[g] /\ home'[root2[g]] = home[root[g]]
          /\ \A v \in Workers : Runs(v, g) => v = home[root[g]] /\ last_full_frame[v] = NoFrame
      BY <1>1, <1>9, <1>18, <2>2 DEF MastersOK
    <3>2. ASSUME g = p PROVE w = home[root[g]] /\ last_full_frame[w] = NoFrame
      BY <1>1, <1>4, <1>5, <1>19, <3>1, <3>2 DEF MastersOK
    <3>3. QED
      BY <1>12, <3>1, <3>2
  <2>3. ASSUME NEW g \in par2 PROVE last_full_frame[home'[root2[g]]] # NoFrame
    <3>1. g \in Frames /\ g \in par /\ kind[g] # "free" /\ g # f
      BY <1>15, <2>3, LabelFacts
    <3>2. QED
      BY <1>1, <1>18, <3>1 DEF MastersOK
  <2>4. \A v \in Workers : last_full_frame[v] # NoFrame =>
            v \in Users /\ sync_master[last_full_frame[v]] = v
    BY <1>1 DEF MastersOK
  <2>5. QED
    BY <1>4, <2>1, <2>2, <2>3, <2>4 DEF MastersOK
<1>32. Inv(root2, par2, trunk2)'
  BY <1>2, <1>21, <1>22, <1>23, <1>24, <1>25, <1>26, <1>27, <1>28, <1>29, <1>30, <1>31 DEF Inv
<1>33. QED
  BY <1>16, <1>32

-----------------------------------------------------------------------------
(* A sync is crossed.  The worker that resumes the frame is free, and if   *)
(* it is the frame's sync master then nothing else of the computation is   *)
(* left beside what waits, by calls, for this frame.                       *)
CrossedPar(root, par, m) ==
    IF sync_master[m] = Nobody THEN par ELSE {g \in par : home[root[g]] # sync_master[m]}

CrossedBy(u, w, m, root, par, par2, trunk) ==
    /\ unsynched' = [unsynched EXCEPT ![m] = FALSE] /\ join' = join
    /\ next_frame_ff' = [next_frame_ff EXCEPT ![u] = m]
    /\ next_frame_ff[u] = NoFrame /\ team[u] = home[root[m]] /\ team[w] = home[root[m]]
    /\ u # w => /\ u \in Users /\ pc[u] \in {"search", "own", "random"}
                /\ last_full_frame'[u] = NoFrame
    /\ m \notin par2 => u = home[root[m]] /\ last_full_frame'[u] = NoFrame
    /\ \A v \in Workers : last_full_frame'[v] \in {last_full_frame[v], NoFrame}
    /\ par2 \subseteq par
    /\ \A g \in Frames :
          g \in par2 <=> sync_master'[g] # Nobody \/ (parent[g] # NoFrame /\ parent[g] \in par2)
    /\ \A g \in Frames : sync_master'[g] # Nobody =>
          /\ sync_master'[g] = home[root[g]] /\ last_full_frame'[sync_master'[g]] = g
          /\ unsynched'[g] /\ g \in trunk /\ g # m
    /\ \A g \in Frames : kind[g] = "free" => sync_master'[g] = Nobody
    /\ \A v \in Workers : last_full_frame'[v] # NoFrame =>
          v \in Users /\ sync_master'[last_full_frame'[v]] = v
    /\ \A g \in Frames \ par2 : kind[g] # "free" =>
          \/ pc[w] = "return" /\ g = held[w]
          \/ /\ g \in trunk /\ ~unsynched'[g]
             /\ \A v \in Workers : Runs(v, g) /\ g # m =>
                   v = home[root[g]] /\ last_full_frame'[v] = NoFrame
    /\ \A g \in par2 : last_full_frame'[home[root[g]]] # NoFrame

(* With the last reference, the frame goes to a worker of its team.        *)
LEMMA Crossed ==
    ASSUME NEW root, NEW par, NEW trunk, Labelling(root, par, trunk), Inv(root, par, trunk),
           NEW w \in Workers, NEW m \in Frames, AboutToCross(w, m), ProvablyGoodSteal(w, m),
           NEW par2, par2 = CrossedPar(root, par, m)
    PROVE  \E u \in Workers : CrossedBy(u, w, m, root, par, par2, trunk)
<1>1. /\ Basic /\ TypeOK /\ LabelsOK(par, trunk) /\ MastersOK(root, par, trunk)
      /\ TeamsOK(root) /\ join[m] = 1 /\ kind[m] # "free"
  <2>1. kind[m] # "free"
    BY InvBasic, FreeFrame DEF AboutToCross
  <2>2. QED
    BY <2>1, InvBasic DEF AboutToCross
<1>2. /\ unsynched' = [unsynched EXCEPT ![m] = FALSE] /\ join' = join
      /\ next_frame_ff' = [next_frame_ff EXCEPT ![ResumedBy(w, m)] = m]
      /\ UnsetSyncMaster(ResumedBy(w, m), m)
  BY <1>1 DEF ProvablyGoodSteal, LastReference, PushNextFrame
<1>3. unsynched'[m] = FALSE /\ \A g \in Frames \ {m} : unsynched'[g] = unsynched[g]
  BY <1>1, <1>2 DEF TypeOK
<1>4. par \in SUBSET Frames
  BY DEF Labelling
<1>5. CASE sync_master[m] = Nobody
  <2>1. /\ ResumedBy(w, m) = w /\ sync_master' = sync_master
        /\ last_full_frame' = last_full_frame /\ par2 = par
    BY <1>2, <1>5 DEF ResumedBy, UnsetSyncMaster, CrossedPar
  <2>2. next_frame_ff[w] = NoFrame
    BY <1>1, HeldFrame DEF AboutToCross
  <2>3. /\ team[w] = home[root[m]]
        /\ m \notin par => w = home[root[m]] /\ last_full_frame[w] = NoFrame
    <3>1. CASE pc[w] = "sync" /\ held[w] = m
      <4>1. Runs(w, m)
        BY <1>1, <3>1, HeldFrame
      <4>2. QED
        BY <1>1, <4>1 DEF TeamsOK, MastersOK
    <3>2. CASE pc[w] = "return" /\ parent[held[w]] = m
      <4>1. /\ Returning(w, held[w]) /\ held[w] \in Frames /\ parent[held[w]] # NoFrame
            /\ unsynched[m]
        BY <1>1, <3>2, HeldFrame, FrameNumbers
      <4>2. root[held[w]] = root[m] /\ m \in par
        BY <1>1, <3>2, <4>1, LabelFacts
      <4>3. QED
        BY <1>1, <4>1, <4>2 DEF TeamsOK
    <3>3. QED
      BY <3>1, <3>2 DEF AboutToCross
  <2>4. \A g \in Frames : sync_master'[g] # Nobody =>
            /\ sync_master'[g] = home[root[g]] /\ last_full_frame'[sync_master'[g]] = g
            /\ unsynched'[g] /\ g \in trunk /\ g # m
    BY <1>3, <1>5, <2>1, LabelFacts
  <2>5. \A g \in Frames : kind[g] = "free" => sync_master'[g] = Nobody
    BY <2>1, LabelFacts
  <2>6. \A v \in Workers : last_full_frame'[v] # NoFrame =>
            v \in Users /\ sync_master'[last_full_frame'[v]] = v
    BY <1>1, <2>1 DEF MastersOK
  <2>7. \A g \in Frames \ par2 : kind[g] # "free" =>
            /\ g \in trunk /\ ~unsynched'[g]
            /\ \A v \in Workers : Runs(v, g) /\ g # m =>
                  v = home[root[g]] /\ last_full_frame'[v] = NoFrame
    BY <1>1, <1>3, <2>1 DEF MastersOK
  <2>8. \A g \in par2 : last_full_frame'[home[root[g]]] # NoFrame
    BY <1>1, <2>1 DEF MastersOK
  <2>9. \A g \in Frames :
            g \in par2 <=> sync_master'[g] # Nobody \/ (parent[g] # NoFrame /\ parent[g] \in par2)
    BY <1>1, <2>1 DEF LabelsOK
  <2>10. CrossedBy(w, w, m, root, par, par2, trunk)
    BY <1>2, <2>1, <2>2, <2>3, <2>4, <2>5, <2>6, <2>7, <2>8, <2>9 DEF CrossedBy
  <2>11. QED
    BY <2>10
<1>6. CASE sync_master[m] # Nobody
  <2>1. PICK u : u = sync_master[m]
    OBVIOUS
  <2>2. /\ u \in Users /\ u = home[root[m]] /\ team[w] = u /\ team[u] = u
        /\ last_full_frame[u] = m /\ next_frame_ff[u] = NoFrame
        /\ u # w => pc[u] \in {"search", "own", "random"}
    BY <1>6, <2>1, MasterFree
  <2>3. u \in Workers /\ u # Nobody
    BY <2>2, FramesAssumption DEF Workers
  <2>4. /\ ResumedBy(w, m) = u
        /\ sync_master' = [sync_master EXCEPT ![m] = Nobody]
        /\ last_full_frame' = [last_full_frame EXCEPT ![u] = NoFrame]
        /\ par2 = {g \in par : home[root[g]] # u}
    BY <1>2, <1>6, <2>1, <2>2 DEF ResumedBy, UnsetSyncMaster, CrossedPar
  <2>5. /\ sync_master'[m] = Nobody /\ \A g \in Frames \ {m} : sync_master'[g] = sync_master[g]
        /\ last_full_frame'[u] = NoFrame
        /\ \A v \in Workers \ {u} : last_full_frame'[v] = last_full_frame[v]
    BY <1>1, <2>3, <2>4 DEF TypeOK
  <2>6. \A g \in Frames : sync_master'[g] # Nobody =>
            /\ g # m /\ sync_master'[g] = sync_master[g] /\ sync_master[g] = home[root[g]]
            /\ last_full_frame[sync_master[g]] = g /\ sync_master[g] \in Workers
            /\ sync_master[g] # u /\ unsynched[g] /\ g \in trunk /\ g \in par
    BY <2>2, <2>5, LabelFacts DEF Workers
  <2>7. ASSUME NEW g \in Frames
        PROVE  g \in par2 <=> sync_master'[g] # Nobody \/ (parent[g] # NoFrame /\ parent[g] \in par2)
    <3>1. ASSUME g \in par2
          PROVE  sync_master'[g] # Nobody \/ (parent[g] # NoFrame /\ parent[g] \in par2)
      <4>1. g \in par /\ home[root[g]] # u
        BY <2>4, <3>1
      <4>2. CASE sync_master[g] # Nobody
        BY <2>2, <2>5, <4>1, <4>2
      <4>3. CASE parent[g] # NoFrame /\ parent[g] \in par
        BY <2>4, <4>1, <4>3, LabelFacts
      <4>4. QED
        BY <1>1, <4>1, <4>2, <4>3 DEF LabelsOK
    <3>2. ASSUME sync_master'[g] # Nobody PROVE g \in par2
      BY <2>4, <2>6, <3>2
    <3>3. ASSUME parent[g] # NoFrame, parent[g] \in par2 PROVE g \in par2
      <4>1. parent[g] \in par /\ home[root[parent[g]]] # u /\ root[g] = root[parent[g]]
        BY <2>4, <3>3, LabelFacts
      <4>2. g \in par
        BY <1>1, <3>3, <4>1 DEF LabelsOK
      <4>3. QED
        BY <2>4, <4>1, <4>2
    <3>4. QED
      BY <3>1, <3>2, <3>3
  <2>8. \A g \in Frames : sync_master'[g] # Nobody =>
            /\ sync_master'[g] = home[root[g]] /\ last_full_frame'[sync_master'[g]] = g
            /\ unsynched'[g] /\ g \in trunk /\ g # m
    BY <1>3, <2>5, <2>6
  <2>9. \A g \in Frames : kind[g] = "free" => sync_master'[g] = Nobody
    BY <2>5, LabelFacts
  <2>10. \A v \in Workers : last_full_frame'[v] # NoFrame =>
            v \in Users /\ sync_master'[last_full_frame'[v]] = v
    <3>1. ASSUME NEW v \in Workers, last_full_frame'[v] # NoFrame
          PROVE  v \in Users /\ sync_master'[last_full_frame'[v]] = v
      <4>1. v # u /\ last_full_frame'[v] = last_full_frame[v]
        BY <2>5, <3>1
      <4>2. /\ v \in Users /\ sync_master[last_full_frame[v]] = v
            /\ last_full_frame[v] \in Frames
        BY <1>1, <3>1, <4>1 DEF MastersOK, TypeOK
      <4>3. last_full_frame[v] # m
        BY <2>1, <4>1, <4>2
      <4>4. QED
        BY <2>5, <4>1, <4>2, <4>3
    <3>2. QED
      BY <3>1
  <2>11. ASSUME NEW g \in Frames \ par2, kind[g] # "free"
         PROVE  \/ pc[w] = "return" /\ g = held[w]
                \/ /\ g \in trunk /\ ~unsynched'[g]
                   /\ \A v \in Workers : Runs(v, g) /\ g # m =>
                         v = home[root[g]] /\ last_full_frame'[v] = NoFrame
    <3>1. CASE g \notin par
      <4>1. /\ g \in trunk /\ ~unsynched[g]
            /\ \A v \in Workers : Runs(v, g) => v = home[root[g]] /\ last_full_frame[v] = NoFrame
        BY <1>1, <2>11, <3>1 DEF MastersOK
      <4>2. QED
        BY <1>3, <2>5, <4>1
    <3>2. CASE g \in par
      <4>1. home[root[g]] = sync_master[m]
        BY <2>1, <2>4, <2>11, <3>2
      <4>2. g = m \/ (pc[w] = "return" /\ g = held[w])
        BY <1>6, <3>2, <4>1, Alone
      <4>3. m \in trunk
        BY <1>6, LabelFacts
      <4>4. QED
        BY <1>3, <4>2, <4>3
    <3>3. QED
      BY <3>1, <3>2
  <2>12. \A g \in par2 : last_full_frame'[home[root[g]]] # NoFrame
    <3>1. ASSUME NEW g \in par2 PROVE last_full_frame'[home[root[g]]] # NoFrame
      <4>1. g \in Frames /\ g \in par /\ home[root[g]] # u
        BY <1>4, <2>4, <3>1
      <4>2. home[root[g]] \in Workers
        BY <4>1, LabelFacts DEF Workers
      <4>3. QED
        BY <1>1, <2>5, <4>1, <4>2 DEF MastersOK
    <3>2. QED
      BY <3>1
  <2>13. \A v \in Workers : last_full_frame'[v] \in {last_full_frame[v], NoFrame}
    BY <2>5
  <2>14. par2 \subseteq par
    BY <2>4
  <2>15. CrossedBy(u, w, m, root, par, par2, trunk)
    BY <1>2, <2>2, <2>4, <2>5, <2>7, <2>8, <2>9, <2>10, <2>11, <2>12, <2>13, <2>14 DEF CrossedBy
  <2>16. QED
    BY <2>3, <2>15
<1>7. QED
  BY <1>5, <1>6

(* do_sync: other children still run, and the worker gives the frame up;   *)
(* or there are none, and the frame is resumed.                            *)
LEMMA DoSyncStep ==
    ASSUME NEW root, NEW par, NEW trunk, Labelling(root, par, trunk), Inv(root, par, trunk),
           NEW w \in Workers, DoSync(w)
    PROVE  \E root2, par2, trunk2 :
               Labelling(root2, par2, trunk2) /\ Inv(root2, par2, trunk2)'
<1>1. /\ Basic /\ TypeOK /\ ShapeOK /\ CallsOK /\ Acyclic /\ PlacesOK /\ OwnersOK /\ JoinOK
      /\ RootsOK(root) /\ TeamsOK(root) /\ LabelsOK(par, trunk) /\ MastersOK(root, par, trunk)
      /\ WorkersOK
  BY InvBasic
<1>2. TypeOK'
  BY <1>1, NextType DEF WorkerStep
<1>3. PICK m : m = held[w]
  OBVIOUS
<1>4. /\ pc[w] = "sync" /\ pc' = [pc EXCEPT ![w] = "search"]
      /\ ProvablyGoodSteal(w, m) /\ held' = [held EXCEPT ![w] = NoFrame]
      /\ kind' = kind /\ parent' = parent /\ kids' = kids /\ home' = home
      /\ pending' = pending /\ ready_list' = ready_list /\ frame_ff' = frame_ff
      /\ team' = team /\ deque' = deque /\ calls' = calls
  BY <1>3 DEF DoSync, Goto, stack
<1>5. /\ m \in Frames /\ kind[m] # "free" /\ frame_ff[w] = NoFrame /\ next_frame_ff[w] = NoFrame
      /\ calls[w] = 0 /\ deque[w] = <<>> /\ Runs(w, m) /\ Owned(m) /\ join[m] # 0
      /\ \A f \in Frames : Runs(w, f) <=> f = m
  BY <1>1, <1>3, <1>4, HeldFrame
<1>6. \A v \in Workers : Runs(v, m) => v = w
  BY <1>1, <1>5 DEF OwnersOK
<1>7. /\ pc'[w] = "search" /\ held'[w] = NoFrame
      /\ \A v \in Workers \ {w} : pc'[v] = pc[v] /\ held'[v] = held[v]
  BY <1>1, <1>4 DEF TypeOK
<1>8. /\ \A v \in Workers, g \in Frames : Returning(v, g)' <=> Returning(v, g)
      /\ \A v \in Workers : pc'[v] = "unbound" <=> pc[v] = "unbound"
      /\ \A g \in Frames : Children(g)' = Children(g)
  BY <1>4, <1>7 DEF Returning, Children
(* What is the same whether the sync is crossed or not.                    *)
<1>9. Acyclic'
  BY <1>1, <1>4 DEF Acyclic
<1>10. RootsOK(root)'
  <2>1. \A g \in Frames : kind[g] = "initial" => home[g] \in Users /\ pc[home[g]] # "unbound"
    BY <1>1 DEF RootsOK
  <2>2. QED
    BY <1>1, <1>4, <1>8, <2>1 DEF RootsOK, Workers
<1>11. \A u \in Users : team'[u] \in {u, Nobody} /\ (pc'[u] # "unbound" => team'[u] = u)
  BY <1>1, <1>4, <1>8 DEF TeamsOK, Workers
<1>12. ASSUME \A v \in Workers, g \in Frames : Runs(v, g)' => team[v] = home[root[g]]
       PROVE  TeamsOK(root)'
  <2>1. ASSUME NEW v \in Workers, NEW g \in Frames, Runs(v, g)' \/ Returning(v, g)'
        PROVE  team[v] = home[root[g]]
    BY <1>1, <1>8, <1>12, <2>1 DEF TeamsOK
  <2>2. QED
    BY <1>1, <1>4, <1>11, <2>1 DEF TeamsOK
<1>13. CASE ~LastReference(m)
  <2>1. /\ join' = DecJoin(m) /\ unsynched' = unsynched /\ sync_master' = sync_master
        /\ last_full_frame' = last_full_frame /\ next_frame_ff' = next_frame_ff
    BY <1>4, <1>13 DEF ProvablyGoodSteal
  <2>2. join'[m] = join[m] - 1 /\ \A g \in Frames \ {m} : join'[g] = join[g]
    BY <1>1, <1>5, <2>1 DEF TypeOK, DecJoin
  <2>3. \A v \in Workers, g \in Frames : Runs(v, g)' <=> Runs(v, g) /\ g # m
    <3>1. \A g \in Frames : ~Runs(w, g)'
      BY <1>4, <1>5, <1>7, <2>1, FrameNumbers DEF Runs
    <3>2. \A v \in Workers \ {w}, g \in Frames : Runs(v, g)' <=> Runs(v, g)
      BY <1>4, <1>7, <2>1 DEF Runs
    <3>3. QED
      BY <1>5, <1>6, <3>1, <3>2
  <2>4. ~Owned(m)' /\ \A g \in Frames \ {m} : Owned(g)' <=> Owned(g)
    BY <1>5, <2>3 DEF Owned
  <2>5. WorkersOK'
    <3>1. ASSUME NEW v \in Workers, v # w PROVE WorkerOK(v)'
      BY <1>1, <1>4, <1>7, <2>1, <3>1, OtherWorker
    <3>2. WorkerOK(w)'
      BY <1>4, <1>5, <1>7, <2>1 DEF WorkerOK
    <3>3. QED
      BY <3>1, <3>2 DEF WorkersOK, Workers
  <2>6. ShapeOK'
    BY <1>1, <1>4, <2>1 DEF ShapeOK
  <2>7. CallsOK'
    <3>1. \A g \in Frames : Owned(g)' => Owned(g)
      BY <2>4
    <3>2. QED
      BY <1>1, <1>4, <3>1 DEF CallsOK
  <2>8. PlacesOK'
    <3>1. \A g \in Frames : join[g] = 0 => join'[g] = 0
      BY <1>5, <2>2
    <3>2. pending \subseteq Frames /\ \A v \in Workers : ready_list[v] \subseteq Frames
      BY <1>1 DEF TypeOK
    <3>3. QED
      BY <1>1, <1>4, <1>8, <3>1, <3>2 DEF PlacesOK
  <2>9. OwnersOK'
    BY <1>1, <1>4, <2>3 DEF OwnersOK
  <2>10. JoinOK'
    <3>1. ASSUME NEW g \in Frames
          PROVE  join'[g] = Cardinality(Children(g)') + (IF Owned(g)' THEN 1 ELSE 0)
      <4>1. CASE g = m
        <5>1. Cardinality(Children(m)) \in Nat
          BY FramesFinite, FS_CardinalityType DEF Children
        <5>2. join[m] = Cardinality(Children(m)) + 1
          BY <1>1, <1>5 DEF JoinOK
        <5>3. join'[m] = Cardinality(Children(m))
          BY <2>2, <5>1, <5>2
        <5>4. QED
          BY <1>5, <1>8, <2>4, <4>1, <5>1, <5>3
      <4>2. CASE g # m
        BY <1>1, <1>8, <2>2, <2>4, <4>2 DEF JoinOK
      <4>3. QED
        BY <4>1, <4>2
    <3>2. QED
      BY <3>1 DEF JoinOK
  <2>11. TeamsOK(root)'
    BY <1>1, <1>12, <2>3 DEF TeamsOK
  <2>12. LabelsOK(par, trunk)'
    BY <1>1, <1>4, <2>1 DEF LabelsOK
  <2>13. MastersOK(root, par, trunk)'
    BY <1>1, <1>4, <2>1, <2>3 DEF MastersOK
  <2>14. Inv(root, par, trunk)'
    BY <1>2, <1>9, <1>10, <2>5, <2>6, <2>7, <2>8, <2>9, <2>10, <2>11, <2>12, <2>13 DEF Inv
  <2>15. QED
    BY <2>14
<1>14. CASE LastReference(m)
  <2>1. AboutToCross(w, m) /\ join[m] = 1
    BY <1>3, <1>4, <1>14 DEF AboutToCross, LastReference
  <2>2. PICK par2 : par2 = CrossedPar(root, par, m)
    OBVIOUS
  <2>3. PICK u \in Workers : CrossedBy(u, w, m, root, par, par2, trunk)
    BY <1>4, <1>5, <2>1, <2>2, Crossed
  <2>4. Children(m) = {}
    BY <1>1, <1>5, <2>1, JoinOne
  <2>5. /\ unsynched' = [unsynched EXCEPT ![m] = FALSE] /\ join' = join
        /\ next_frame_ff' = [next_frame_ff EXCEPT ![u] = m]
        /\ next_frame_ff[u] = NoFrame /\ team[u] = home[root[m]]
        /\ u # w => /\ u \in Users /\ pc[u] \in {"search", "own", "random"}
                    /\ last_full_frame'[u] = NoFrame
        /\ \A v \in Workers : last_full_frame'[v] \in {last_full_frame[v], NoFrame}
        /\ par2 \subseteq par
    BY <2>3 DEF CrossedBy
  <2>6. /\ unsynched'[m] = FALSE /\ \A g \in Frames \ {m} : unsynched'[g] = unsynched[g]
        /\ next_frame_ff'[u] = m
        /\ \A v \in Workers \ {u} : next_frame_ff'[v] = next_frame_ff[v]
    BY <1>1, <1>5, <2>5 DEF TypeOK
  <2>7. \A v \in Workers, g \in Frames :
            Runs(v, g)' <=> (Runs(v, g) /\ g # m) \/ (v = u /\ g = m)
    <3>1. ASSUME NEW g \in Frames, NEW v \in Workers, v # w
          PROVE  Runs(v, g)' <=> Runs(v, g) \/ (v = u /\ g = m)
      BY <1>4, <1>5, <1>7, <2>5, <2>6, <3>1, FrameNumbers DEF Runs
    <3>2. ASSUME NEW g \in Frames PROVE Runs(w, g)' <=> u = w /\ g = m
      BY <1>4, <1>5, <1>7, <2>5, <2>6, FrameNumbers DEF Runs
    <3>3. QED
      BY <1>5, <1>6, <3>1, <3>2
  <2>8. \A g \in Frames : Owned(g)' <=> Owned(g)
    BY <1>5, <2>7 DEF Owned
  <2>9. Labelling(root, par2, trunk)
    BY <2>5 DEF Labelling
  <2>10. WorkersOK'
    <3>1. ASSUME NEW v \in Workers, v # w, v # u PROVE WorkerOK(v)'
      BY <1>1, <1>4, <1>7, <2>5, <2>6, <3>1, OtherWorker
    <3>2. WorkerOK(w)'
      BY <1>4, <1>5, <1>7, <2>6 DEF WorkerOK
    <3>3. ASSUME u # w PROVE WorkerOK(u)'
      <4>1. WorkerOK(u)
        BY <1>1 DEF WorkersOK
      <4>2. /\ pc'[u] = pc[u] /\ held'[u] = held[u] /\ frame_ff'[u] = frame_ff[u]
            /\ calls'[u] = calls[u] /\ deque'[u] = deque[u] /\ ready_list'[u] = ready_list[u]
        BY <1>4, <1>7, <3>3
      <4>3. frame_ff[u] = NoFrame /\ held[u] = NoFrame /\ calls[u] = 0 /\ deque[u] = <<>>
        BY <2>5, <3>3, <4>1 DEF WorkerOK
      <4>4. QED
        BY <2>5, <2>6, <3>3, <4>1, <4>2, <4>3 DEF WorkerOK
    <3>4. QED
      BY <3>1, <3>2, <3>3 DEF WorkersOK, Workers
  <2>11. ShapeOK'
    <3>1. \A g \in Frames : kind[g] = "free" => sync_master'[g] = Nobody
      BY <2>3 DEF CrossedBy
    <3>2. \A g \in Frames : kind[g] = "free" => ~unsynched'[g]
      BY <1>1, <2>6 DEF ShapeOK
    <3>3. ASSUME NEW g \in Frames, kind[g] = "spawn" PROVE unsynched'[parent[g]] /\ ~unsynched'[g]
      <4>1. parent[g] \in Frames /\ unsynched[parent[g]] /\ ~unsynched[g]
        BY <1>1, <3>3, LabelFacts DEF ShapeOK
      <4>2. parent[g] # m
        BY <2>4 DEF Children
      <4>3. QED
        BY <2>6, <4>1, <4>2
    <3>4. QED
      BY <1>1, <1>4, <3>1, <3>2, <3>3 DEF ShapeOK
  <2>12. CallsOK'
    BY <1>1, <1>4, <2>8 DEF CallsOK
  <2>13. PlacesOK'
    BY <1>1, <1>4, <1>8, <2>5 DEF PlacesOK
  <2>14. OwnersOK'
    BY <1>1, <1>4, <1>5, <2>7 DEF OwnersOK
  <2>15. JoinOK'
    BY <1>1, <1>8, <2>5, <2>8 DEF JoinOK
  <2>16. TeamsOK(root)'
    BY <1>1, <1>12, <2>5, <2>7 DEF TeamsOK
  <2>17. LabelsOK(par2, trunk)'
    <3>1. \A g \in Frames :
              g \in par2 <=> sync_master'[g] # Nobody \/ (parent[g] # NoFrame /\ parent[g] \in par2)
      BY <2>3 DEF CrossedBy
    <3>2. QED
      BY <1>1, <1>4, <3>1 DEF LabelsOK
  <2>18. MastersOK(root, par2, trunk)'
    <3>1. /\ \A g \in Frames : sync_master'[g] # Nobody =>
                 /\ sync_master'[g] = home[root[g]] /\ last_full_frame'[sync_master'[g]] = g
                 /\ unsynched'[g] /\ g \in trunk
          /\ \A v \in Workers : last_full_frame'[v] # NoFrame =>
                 v \in Users /\ sync_master'[last_full_frame'[v]] = v
          /\ \A g \in par2 : last_full_frame'[home[root[g]]] # NoFrame
      BY <2>3 DEF CrossedBy
    <3>2. ASSUME NEW g \in Frames \ par2, kind[g] # "free"
          PROVE  /\ g \in trunk /\ ~unsynched'[g]
                 /\ \A v \in Workers : Runs(v, g)' => v = home[root[g]] /\ last_full_frame'[v] = NoFrame
      <4>1. /\ g \in trunk /\ ~unsynched'[g]
            /\ \A v \in Workers : Runs(v, g) /\ g # m =>
                  v = home[root[g]] /\ last_full_frame'[v] = NoFrame
        BY <1>4, <2>3, <3>2 DEF CrossedBy
      <4>2. g = m => u = home[root[m]] /\ last_full_frame'[u] = NoFrame
        BY <2>3, <3>2 DEF CrossedBy
      <4>3. QED
        BY <2>7, <4>1, <4>2
    <3>3. QED
      BY <1>4, <3>1, <3>2 DEF MastersOK
  <2>19. Inv(root, par2, trunk)'
    BY <1>2, <1>9, <1>10, <2>10, <2>11, <2>12, <2>13, <2>14, <2>15, <2>16, <2>17, <2>18 DEF Inv
  <2>20. QED
    BY <2>9, <2>19
<1>15. QED
  BY <1>13, <1>14

(* do_return_from_spawn: the parent has lost a child, and perhaps its last *)
(* reference.                                                              *)
ReturnedTo(w, d, p, root, par, par2, trunk) ==
    /\ WorkersOK' /\ par2 \subseteq par
    /\ \A g \in Frames \ {p} : join'[g] = join[g] /\ (Owned(g)' <=> Owned(g))
    /\ join'[p] = Cardinality(Children(p)) - 1 + (IF Owned(p)' THEN 1 ELSE 0)
    /\ \A c \in Frames : kind[c] = "call" /\ parent[c] = p => ~Owned(p)'
    /\ \A c \in Frames \ {d} : kind[c] = "spawn" => unsynched'[parent[c]]
    /\ \A g \in Frames : unsynched'[g] => unsynched[g]
    /\ \A v \in Workers, g \in Frames : Runs(v, g)' =>
          /\ g # d /\ kind[g] # "free" /\ team[v] = home[root[g]]
          /\ \A x \in Workers : Runs(x, g)' => x = v
    /\ \A g \in Frames :
          g \in par2 <=> sync_master'[g] # Nobody \/ (parent[g] # NoFrame /\ parent[g] \in par2)
    /\ \A g \in Frames : sync_master'[g] # Nobody =>
          /\ sync_master'[g] = home[root[g]] /\ last_full_frame'[sync_master'[g]] = g
          /\ unsynched'[g] /\ g \in trunk
    /\ \A g \in Frames : kind[g] = "free" => sync_master'[g] = Nobody
    /\ \A v \in Workers : last_full_frame'[v] # NoFrame =>
          v \in Users /\ sync_master'[last_full_frame'[v]] = v
    /\ \A g \in Frames \ par2 : kind[g] # "free" /\ g # d =>
          /\ g \in trunk /\ ~unsynched'[g]
          /\ \A v \in Workers : Runs(v, g)' =>
                v = home[root[g]] /\ last_full_frame'[v] = NoFrame
    /\ \A g \in par2 : last_full_frame'[home[root[g]]] # NoFrame

(* A spawned frame's end frees it and, if last, resumes its parent, ...    *)
LEMMA Returned ==
    ASSUME NEW root, NEW par, NEW trunk, Labelling(root, par, trunk), Inv(root, par, trunk),
           NEW w \in Workers, DoReturnFromSpawn(w),
           NEW d, d = held[w], NEW p, p = parent[d]
    PROVE  \E par2 : ReturnedTo(w, d, p, root, par, par2, trunk)
<1>1. /\ Basic /\ TypeOK /\ ShapeOK /\ CallsOK /\ PlacesOK /\ OwnersOK /\ JoinOK
      /\ TeamsOK(root) /\ LabelsOK(par, trunk) /\ MastersOK(root, par, trunk)
      /\ WorkersOK
  BY InvBasic
<1>2. /\ pc[w] = "return" /\ pc' = [pc EXCEPT ![w] = "search"]
      /\ ProvablyGoodSteal(w, p) /\ held' = [held EXCEPT ![w] = NoFrame]
      /\ kind' = [kind EXCEPT ![d] = "free"]
      /\ parent' = [parent EXCEPT ![d] = NoFrame]
      /\ kids' = kids /\ pending' = pending /\ ready_list' = ready_list
      /\ frame_ff' = frame_ff /\ team' = team /\ deque' = deque /\ calls' = calls
  BY DEF DoReturnFromSpawn, Goto, Destroy, stack
<1>3. /\ d \in Frames /\ kind[d] = "spawn" /\ join[d] = 0
      /\ frame_ff[w] = NoFrame /\ next_frame_ff[w] = NoFrame
      /\ calls[w] = 0 /\ deque[w] = <<>> /\ Returning(w, d) /\ \A f \in Frames : ~Runs(w, f)
      /\ p \in Frames /\ kind[p] # "free" /\ d \in Children(p) /\ join[p] # 0 /\ unsynched[p]
  BY <1>1, <1>2, HeldFrame
<1>4. /\ pc'[w] = "search" /\ held'[w] = NoFrame
      /\ \A v \in Workers \ {w} : pc'[v] = pc[v] /\ held'[v] = held[v]
      /\ \A g \in Frames \ {d} : kind'[g] = kind[g]
  BY <1>1, <1>2 DEF TypeOK
<1>5. Children(d) = {} /\ ~Owned(d) /\ p # d /\ d \notin trunk
  BY <1>1, <1>3, JoinZero, LabelFacts
<1>6. \A v \in Workers : pc[v] = "work" => kind'[frame_ff[v]] = kind[frame_ff[v]]
  <2>1. ASSUME NEW v \in Workers, pc[v] = "work" PROVE frame_ff[v] \in Frames \ {d}
    BY <1>1, <1>5, <2>1, AtWork
  <2>2. QED
    BY <1>4, <2>1
<1>7. /\ Cardinality(Children(p)) \in Nat /\ p \in par
      /\ join[p] = Cardinality(Children(p)) + (IF Owned(p) THEN 1 ELSE 0)
  BY <1>1, <1>3, LabelFacts, FramesFinite, FS_CardinalityType DEF Children, JoinOK
<1>8. CASE ~LastReference(p)
  <2>1. /\ join' = DecJoin(p) /\ unsynched' = unsynched /\ sync_master' = sync_master
        /\ last_full_frame' = last_full_frame /\ next_frame_ff' = next_frame_ff
    BY <1>2, <1>8 DEF ProvablyGoodSteal
  <2>2. join'[p] = join[p] - 1 /\ \A g \in Frames \ {p} : join'[g] = join[g]
    BY <1>1, <1>3, <2>1 DEF TypeOK, DecJoin
  <2>3. \A v \in Workers, g \in Frames : Runs(v, g)' <=> Runs(v, g)
    <3>1. \A g \in Frames : ~Runs(w, g)'
      BY <1>2, <1>3, <1>4, <2>1, FrameNumbers DEF Runs
    <3>2. \A v \in Workers \ {w}, g \in Frames : Runs(v, g)' <=> Runs(v, g)
      BY <1>2, <1>4, <2>1 DEF Runs
    <3>3. QED
      BY <1>3, <3>1, <3>2
  <2>4. \A g \in Frames : Owned(g)' <=> Owned(g)
    BY <2>3 DEF Owned
  <2>5. WorkersOK'
    <3>1. ASSUME NEW v \in Workers, v # w PROVE WorkerOK(v)'
      BY <1>1, <1>2, <1>4, <1>6, <2>1, <3>1, OtherWorker
    <3>2. WorkerOK(w)'
      BY <1>2, <1>3, <1>4, <2>1 DEF WorkerOK
    <3>3. QED
      BY <3>1, <3>2 DEF WorkersOK, Workers
  <2>6. join'[p] = Cardinality(Children(p)) - 1 + (IF Owned(p)' THEN 1 ELSE 0)
    BY <1>3, <1>7, <2>2, <2>4
  <2>7. \A c \in Frames : kind[c] = "call" /\ parent[c] = p => ~Owned(p)'
    BY <1>1, <1>3, <2>4 DEF CallsOK
  <2>8. \A c \in Frames : kind[c] = "spawn" => unsynched[parent[c]]
    BY <1>1 DEF ShapeOK
  <2>9. \A v \in Workers, g \in Frames : Runs(v, g) =>
            /\ g # d /\ kind[g] # "free" /\ team[v] = home[root[g]]
            /\ \A x \in Workers : Runs(x, g) => x = v
    BY <1>1, <1>5 DEF Owned, OwnersOK, TeamsOK
  <2>10. \A g \in Frames :
             g \in par <=> sync_master[g] # Nobody \/ (parent[g] # NoFrame /\ parent[g] \in par)
    BY <1>1 DEF LabelsOK
  <2>11. \A g \in Frames : kind[g] = "free" => sync_master[g] = Nobody
    BY <1>1 DEF ShapeOK
  <2>12. ReturnedTo(w, d, p, root, par, par, trunk)
    BY <1>1, <2>1, <2>2, <2>3, <2>4, <2>5, <2>6, <2>7, <2>8, <2>9, <2>10, <2>11
       DEF ReturnedTo, MastersOK
  <2>13. QED
    BY <2>12
<1>9. CASE LastReference(p)
  <2>1. AboutToCross(w, p) /\ join[p] = 1
    BY <1>2, <1>9 DEF AboutToCross, LastReference
  <2>2. PICK par2 : par2 = CrossedPar(root, par, p)
    OBVIOUS
  <2>3. PICK u \in Workers : CrossedBy(u, w, p, root, par, par2, trunk)
    BY <1>2, <1>3, <2>1, <2>2, Crossed
  <2>4. Children(p) = {d} /\ ~Owned(p)
    BY <1>1, <1>3, <2>1, JoinOne
  <2>5. /\ unsynched' = [unsynched EXCEPT ![p] = FALSE] /\ join' = join
        /\ next_frame_ff' = [next_frame_ff EXCEPT ![u] = p]
        /\ next_frame_ff[u] = NoFrame /\ team[u] = home[root[p]]
        /\ u # w => /\ u \in Users /\ pc[u] \in {"search", "own", "random"}
                    /\ last_full_frame'[u] = NoFrame
        /\ \A v \in Workers : last_full_frame'[v] \in {last_full_frame[v], NoFrame}
        /\ par2 \subseteq par
    BY <2>3 DEF CrossedBy
  <2>6. /\ unsynched'[p] = FALSE /\ \A g \in Frames \ {p} : unsynched'[g] = unsynched[g]
        /\ next_frame_ff'[u] = p
        /\ \A v \in Workers \ {u} : next_frame_ff'[v] = next_frame_ff[v]
    BY <1>1, <1>3, <2>5 DEF TypeOK
  <2>7. \A v \in Workers, g \in Frames : Runs(v, g)' <=> Runs(v, g) \/ (v = u /\ g = p)
    <3>1. ASSUME NEW g \in Frames, NEW v \in Workers, v # w
          PROVE  Runs(v, g)' <=> Runs(v, g) \/ (v = u /\ g = p)
      BY <1>2, <1>3, <1>4, <2>5, <2>6, <3>1, FrameNumbers DEF Runs
    <3>2. ASSUME NEW g \in Frames PROVE Runs(w, g)' <=> u = w /\ g = p
      BY <1>2, <1>3, <1>4, <2>5, <2>6, FrameNumbers DEF Runs
    <3>3. QED
      BY <1>3, <3>1, <3>2
  <2>8. Owned(p)' /\ \A g \in Frames \ {p} : Owned(g)' <=> Owned(g)
    BY <1>3, <2>7 DEF Owned
  <2>9. WorkersOK'
    <3>1. ASSUME NEW v \in Workers, v # w, v # u PROVE WorkerOK(v)'
      BY <1>1, <1>2, <1>4, <1>6, <2>5, <2>6, <3>1, OtherWorker
    <3>2. WorkerOK(w)'
      BY <1>2, <1>3, <1>4, <2>6 DEF WorkerOK
    <3>3. ASSUME u # w PROVE WorkerOK(u)'
      <4>1. WorkerOK(u)
        BY <1>1 DEF WorkersOK
      <4>2. /\ pc'[u] = pc[u] /\ held'[u] = held[u] /\ frame_ff'[u] = frame_ff[u]
            /\ calls'[u] = calls[u] /\ deque'[u] = deque[u] /\ ready_list'[u] = ready_list[u]
        BY <1>2, <1>4, <3>3
      <4>3. frame_ff[u] = NoFrame /\ held[u] = NoFrame /\ calls[u] = 0 /\ deque[u] = <<>>
        BY <2>5, <3>3, <4>1 DEF WorkerOK
      <4>4. QED
        BY <2>5, <2>6, <3>3, <4>1, <4>2, <4>3 DEF WorkerOK
    <3>4. QED
      BY <3>1, <3>2, <3>3 DEF WorkersOK, Workers
  <2>10. join'[p] = Cardinality(Children(p)) - 1 + (IF Owned(p)' THEN 1 ELSE 0)
    BY <1>7, <2>1, <2>4, <2>5, <2>8
  <2>11. \A c \in Frames : parent[c] = p => c = d
    BY <2>4 DEF Children
  <2>12. \A c \in Frames : kind[c] = "call" /\ parent[c] = p => ~Owned(p)'
    BY <1>3, <2>11
  <2>13. ASSUME NEW c \in Frames \ {d}, kind[c] = "spawn" PROVE unsynched'[parent[c]]
    <3>1. parent[c] \in Frames /\ unsynched[parent[c]]
      BY <1>1, <2>13, LabelFacts DEF ShapeOK
    <3>2. QED
      BY <2>6, <2>11, <3>1
  <2>14. \A g \in Frames : unsynched'[g] => unsynched[g]
    BY <2>6
  <2>15. ASSUME NEW v \in Workers, NEW g \in Frames, Runs(v, g)'
         PROVE  /\ g # d /\ kind[g] # "free" /\ team[v] = home[root[g]]
                /\ \A x \in Workers : Runs(x, g)' => x = v
    <3>1. CASE g = p
      BY <1>3, <1>5, <2>4, <2>5, <2>7, <2>15, <3>1 DEF Owned
    <3>2. CASE g # p
      BY <1>1, <1>5, <2>7, <2>15, <3>2 DEF Owned, OwnersOK, TeamsOK
    <3>3. QED
      BY <3>1, <3>2
  <2>16. /\ \A g \in Frames :
                g \in par2 <=> sync_master'[g] # Nobody \/ (parent[g] # NoFrame /\ parent[g] \in par2)
         /\ \A g \in Frames : sync_master'[g] # Nobody =>
                /\ sync_master'[g] = home[root[g]] /\ last_full_frame'[sync_master'[g]] = g
                /\ unsynched'[g] /\ g \in trunk
         /\ \A g \in Frames : kind[g] = "free" => sync_master'[g] = Nobody
         /\ \A v \in Workers : last_full_frame'[v] # NoFrame =>
                v \in Users /\ sync_master'[last_full_frame'[v]] = v
         /\ \A g \in par2 : last_full_frame'[home[root[g]]] # NoFrame
    BY <2>3 DEF CrossedBy
  <2>17. ASSUME NEW g \in Frames \ par2, kind[g] # "free", g # d
         PROVE  /\ g \in trunk /\ ~unsynched'[g]
                /\ \A v \in Workers : Runs(v, g)' =>
                      v = home[root[g]] /\ last_full_frame'[v] = NoFrame
    <3>1. /\ g \in trunk /\ ~unsynched'[g]
          /\ \A v \in Workers : Runs(v, g) /\ g # p =>
                v = home[root[g]] /\ last_full_frame'[v] = NoFrame
      BY <2>3, <2>17 DEF CrossedBy
    <3>2. g = p => u = home[root[p]] /\ last_full_frame'[u] = NoFrame
      BY <2>3, <2>17 DEF CrossedBy
    <3>3. g = p => \A v \in Workers : ~Runs(v, g)
      BY <2>4 DEF Owned
    <3>4. QED
      BY <2>7, <3>1, <3>2, <3>3
  <2>18. ReturnedTo(w, d, p, root, par, par2, trunk)
    BY <2>5, <2>8, <2>9, <2>10, <2>12, <2>13, <2>14, <2>15, <2>16, <2>17 DEF ReturnedTo
  <2>19. QED
    BY <2>18
<1>10. QED
  BY <1>8, <1>9

(* ... so the invariant holds after it.                                    *)
LEMMA DoReturnFromSpawnStep ==
    ASSUME NEW root, NEW par, NEW trunk, Labelling(root, par, trunk), Inv(root, par, trunk),
           NEW w \in Workers, DoReturnFromSpawn(w)
    PROVE  \E root2, par2, trunk2 :
               Labelling(root2, par2, trunk2) /\ Inv(root2, par2, trunk2)'
<1>1. /\ Basic /\ TypeOK /\ ShapeOK /\ CallsOK /\ Acyclic /\ PlacesOK /\ OwnersOK /\ JoinOK
      /\ RootsOK(root) /\ TeamsOK(root) /\ LabelsOK(par, trunk) /\ MastersOK(root, par, trunk)
      /\ WorkersOK
  BY InvBasic
<1>2. TypeOK'
  BY <1>1, NextType DEF WorkerStep
<1>3. PICK d, p : d = held[w] /\ p = parent[d]
  OBVIOUS
<1>4. PICK par3 : ReturnedTo(w, d, p, root, par, par3, trunk)
  BY <1>3, Returned
<1>5. /\ pc[w] = "return" /\ pc' = [pc EXCEPT ![w] = "search"]
      /\ held' = [held EXCEPT ![w] = NoFrame]
      /\ kind' = [kind EXCEPT ![d] = "free"]
      /\ home' = [home EXCEPT ![d] = Nobody]
      /\ parent' = [parent EXCEPT ![d] = NoFrame]
      /\ kids' = kids /\ pending' = pending /\ ready_list' = ready_list
      /\ team' = team
  BY <1>3 DEF DoReturnFromSpawn, Goto, Destroy, stack
<1>6. /\ d \in Frames /\ kind[d] = "spawn" /\ join[d] = 0 /\ Returning(w, d)
      /\ p \in Frames /\ p # NoFrame /\ kind[p] # "free" /\ d \in Children(p)
  BY <1>1, <1>3, <1>5, HeldFrame, FrameNumbers
<1>7. /\ Children(d) = {} /\ ~Owned(d) /\ p # d /\ d \notin trunk /\ sync_master[d] = Nobody
      /\ ~unsynched[d] /\ \A g \in Frames : parent[g] # d
  <2>1. Children(d) = {} /\ ~Owned(d)
    BY <1>1, <1>6, JoinZero
  <2>2. d \notin trunk /\ sync_master[d] = Nobody /\ ~unsynched[d]
    BY <1>1, <1>6, LabelFacts DEF ShapeOK
  <2>3. p # d /\ \A g \in Frames : parent[g] # d
    BY <1>6, <2>1 DEF Children
  <2>4. QED
    BY <2>1, <2>2, <2>3
<1>8. /\ pc'[w] = "search" /\ held'[w] = NoFrame
      /\ \A v \in Workers \ {w} : pc'[v] = pc[v] /\ held'[v] = held[v]
      /\ kind'[d] = "free" /\ parent'[d] = NoFrame
      /\ \A g \in Frames \ {d} : /\ kind'[g] = kind[g] /\ home'[g] = home[g]
                                 /\ parent'[g] = parent[g]
  BY <1>1, <1>5, <1>6 DEF TypeOK
<1>9. /\ d \notin pending
      /\ \A v \in Workers : d \notin ready_list[v] /\ (Returning(v, d) => v = w)
      /\ \A g \in Frames : d \notin kids[g]
  <2>1. /\ d \notin pending /\ d \notin kids[p]
        /\ \A v \in Workers : d \notin ready_list[v] /\ (Returning(v, d) => v = w)
    BY <1>1, <1>3, <1>6 DEF PlacesOK
  <2>2. \A g \in Frames : d \in kids[g] => g = p
    BY <1>1, <1>3 DEF ShapeOK
  <2>3. QED
    BY <2>1, <2>2
<1>10. \A v \in Workers, g \in Frames : Returning(v, g)' <=> Returning(v, g) /\ g # d
  <2>1. \A g \in Frames : ~Returning(w, g)' /\ (Returning(w, g) => g = d)
    BY <1>3, <1>8 DEF Returning
  <2>2. \A v \in Workers \ {w}, g \in Frames : Returning(v, g)' <=> Returning(v, g)
    BY <1>8 DEF Returning
  <2>3. QED
    BY <1>9, <2>1, <2>2
<1>11. /\ Children(p)' = Children(p) \ {d}
       /\ \A g \in Frames \ {p} : Children(g)' = Children(g)
  <2>1. ASSUME NEW g \in Frames, NEW c \in Frames
        PROVE  parent'[c] = g <=> parent[c] = g /\ c # d
    BY <1>8, FrameNumbers
  <2>2. Children(p)' = Children(p) \ {d}
    BY <1>6, <2>1 DEF Children
  <2>3. ASSUME NEW g \in Frames \ {p} PROVE Children(g)' = Children(g)
    BY <1>3, <2>1 DEF Children
  <2>4. QED
    BY <2>2, <2>3
<1> DEFINE root2 == [root EXCEPT ![d] = d]
           par2 == par3 \ {d}
<1>12. root \in [Frames -> Frames] /\ par \in SUBSET Frames /\ trunk \in SUBSET Frames
  BY DEF Labelling
<1>13. Labelling(root2, par2, trunk)
  <2>1. par3 \subseteq par
    BY <1>4 DEF ReturnedTo
  <2>2. QED
    BY <1>6, <1>12, <2>1 DEF Labelling
<1>14. root2[d] = d /\ \A g \in Frames \ {d} : root2[g] = root[g]
  BY <1>6, <1>12
<1> HIDE DEF root2
<1>15. \A g \in Frames : kind[g] # "free" /\ g # d =>
          /\ root[g] \in Frames /\ root[g] # d /\ root2[g] = root[g]
          /\ home'[root2[g]] = home[root[g]] /\ home'[g] = home[g]
  BY <1>6, <1>8, <1>14, LabelFacts
<1>16. \A g \in Frames : parent[g] # NoFrame => parent[g] \in Frames /\ parent[g] # d
  BY <1>1, <1>7 DEF TypeOK
<1>17. WorkersOK'
  BY <1>4 DEF ReturnedTo
<1>18. ShapeOK'
  <2>1. \A g \in Frames : kind'[g] \in {"free", "initial"} <=> parent'[g] = NoFrame
    BY <1>1, <1>8 DEF ShapeOK
  <2>2. \A g \in Frames : parent'[g] # NoFrame => kind'[parent'[g]] # "free"
    BY <1>1, <1>8, <1>16 DEF ShapeOK
  <2>3. ASSUME NEW g \in Frames, kind'[g] = "free" PROVE ~unsynched'[g] /\ sync_master'[g] = Nobody
    <3>1. /\ unsynched'[g] => unsynched[g]
          /\ kind[g] = "free" => sync_master'[g] = Nobody
          /\ sync_master'[g] # Nobody => g \in trunk
      BY <1>4 DEF ReturnedTo
    <3>2. QED
      BY <1>1, <1>7, <1>8, <2>3, <3>1 DEF ShapeOK
  <2>4. ASSUME NEW g \in Frames, NEW c \in kids[g] PROVE parent'[c] = g
    <3>1. c \in Frames /\ parent[c] = g /\ c # d
      BY <1>1, <1>9, <2>4 DEF ShapeOK, TypeOK
    <3>2. QED
      BY <1>8, <3>1
  <2>5. ASSUME NEW g \in Frames, kind'[g] = "spawn" PROVE unsynched'[parent'[g]] /\ ~unsynched'[g]
    <3>1. g # d /\ kind[g] = "spawn" /\ parent'[g] = parent[g] /\ ~unsynched[g]
      BY <1>1, <1>8, <2>5 DEF ShapeOK
    <3>2. QED
      BY <1>4, <3>1 DEF ReturnedTo
  <2>6. QED
    BY <1>5, <2>1, <2>2, <2>3, <2>4, <2>5 DEF ShapeOK
<1>19. CallsOK'
  <2>1. ASSUME NEW g \in Frames, NEW c \in Frames, kind'[c] = "call", parent'[c] = g
        PROVE  /\ ~Owned(g)'
               /\ \A x \in Frames : kind'[x] = "call" /\ parent'[x] = g => x = c
    <3>1. kind[c] = "call" /\ parent[c] = g
      BY <1>8, <2>1
    <3>2. ~Owned(g) /\ \A x \in Frames : kind[x] = "call" /\ parent[x] = g => x = c
      BY <1>1, <3>1 DEF CallsOK
    <3>3. ~Owned(g)'
      BY <1>4, <3>1, <3>2 DEF ReturnedTo
    <3>4. QED
      BY <1>8, <3>2, <3>3
  <2>2. QED
    BY <2>1 DEF CallsOK
<1>20. Acyclic'
  BY <1>1, <1>5, <1>6, LostLeaf
<1>21. PlacesOK'
  <2>1. ASSUME NEW g \in Frames, kind[g] = "spawn", join[g] = 0, g # d
        PROVE  kind'[g] = "spawn" /\ join'[g] = 0 /\ parent'[g] = parent[g]
    <3>1. g # p
      BY <1>1, <1>6, <2>1, JoinZero
    <3>2. QED
      BY <1>4, <1>8, <2>1, <3>1 DEF ReturnedTo
  <2>2. pending \subseteq Frames /\ \A v \in Workers : ready_list[v] \subseteq Frames
    BY <1>1 DEF TypeOK
  <2>3. ASSUME NEW v \in Workers, NEW g \in Frames, Returning(v, g), g # d
        PROVE  /\ kind'[g] = "spawn" /\ join'[g] = 0 /\ g \notin pending
               /\ g \notin kids[parent'[g]]
               /\ \A x \in Workers : g \notin ready_list[x] /\ (Returning(x, g) => x = v)
    <3>1. /\ kind[g] = "spawn" /\ join[g] = 0 /\ g \notin pending /\ g \notin kids[parent[g]]
          /\ \A x \in Workers : g \notin ready_list[x] /\ (Returning(x, g) => x = v)
      BY <1>1, <2>3 DEF PlacesOK
    <3>2. QED
      BY <2>1, <2>3, <3>1
  <2>4. ASSUME NEW g \in pending PROVE kind'[g] = "spawn" /\ join'[g] = 0
    <3>1. g \in Frames /\ g # d /\ kind[g] = "spawn" /\ join[g] = 0
      BY <1>1, <1>9, <2>2, <2>4 DEF PlacesOK
    <3>2. QED
      BY <2>1, <3>1
  <2>5. ASSUME NEW v \in Workers, NEW g \in ready_list[v]
        PROVE  /\ kind'[g] = "spawn" /\ join'[g] = 0 /\ g \notin pending
               /\ \A x \in Workers : g \in ready_list[x] => x = v
    <3>1. /\ g \in Frames /\ g # d /\ kind[g] = "spawn" /\ join[g] = 0 /\ g \notin pending
          /\ \A x \in Workers : g \in ready_list[x] => x = v
      BY <1>1, <1>9, <2>2, <2>5 DEF PlacesOK
    <3>2. QED
      BY <2>1, <3>1
  <2>6. QED
    BY <1>5, <1>10, <2>3, <2>4, <2>5 DEF PlacesOK
<1>22. OwnersOK'
  <2>1. ASSUME NEW v \in Workers, NEW g \in Frames, Runs(v, g)'
        PROVE  kind'[g] # "free" /\ \A x \in Workers : Runs(x, g)' => x = v
    <3>1. g # d /\ kind[g] # "free" /\ \A x \in Workers : Runs(x, g)' => x = v
      BY <1>4, <2>1 DEF ReturnedTo
    <3>2. QED
      BY <1>8, <3>1
  <2>2. QED
    BY <2>1 DEF OwnersOK
<1>23. JoinOK'
  <2>1. ASSUME NEW g \in Frames
        PROVE  join'[g] = Cardinality(Children(g)') + (IF Owned(g)' THEN 1 ELSE 0)
    <3>1. CASE g = p
      <4>1. Children(p) \in SUBSET Frames
        BY DEF Children
      <4>2. Cardinality(Children(p)') = Cardinality(Children(p)) - 1
        BY <1>6, <1>11, <4>1, CardMinus
      <4>3. join'[p] = Cardinality(Children(p)) - 1 + (IF Owned(p)' THEN 1 ELSE 0)
        BY <1>4 DEF ReturnedTo
      <4>4. QED
        BY <3>1, <4>2, <4>3
    <3>2. CASE g # p
      <4>1. join'[g] = join[g] /\ (Owned(g)' <=> Owned(g)) /\ Children(g)' = Children(g)
        BY <1>4, <1>11, <3>2 DEF ReturnedTo
      <4>2. QED
        BY <1>1, <4>1 DEF JoinOK
    <3>3. QED
      BY <3>1, <3>2
  <2>2. QED
    BY <2>1 DEF JoinOK
<1>24. RootsOK(root2)'
  <2>1. \A g \in Frames : root2[g] = IF parent'[g] = NoFrame THEN g ELSE root2[parent'[g]]
    BY <1>1, <1>8, <1>14, <1>16 DEF RootsOK
  <2>2. \A g \in Frames : kind'[g] # "free" => kind'[root2[g]] = "initial"
    BY <1>1, <1>8, <1>15 DEF RootsOK
  <2>3. \A v \in Users : pc'[v] = "unbound" <=> pc[v] = "unbound"
    BY <1>5, <1>8 DEF Workers
  <2>4. \A g \in Frames : kind'[g] = "initial" =>
            kind[g] = "initial" /\ home'[g] = home[g] /\ home[g] \in Users
    BY <1>1, <1>8 DEF RootsOK
  <2>5. QED
    BY <1>1, <2>1, <2>2, <2>3, <2>4 DEF RootsOK
<1>25. TeamsOK(root2)'
  <2>1. ASSUME NEW v \in Workers, NEW g \in Frames, Runs(v, g)' \/ Returning(v, g)'
        PROVE  team[v] = home'[root2[g]]
    <3>1. CASE Runs(v, g)'
      <4>1. g # d /\ kind[g] # "free" /\ team[v] = home[root[g]]
        BY <1>4, <3>1 DEF ReturnedTo
      <4>2. QED
        BY <1>15, <4>1
    <3>2. CASE Returning(v, g)'
      <4>1. g # d /\ Returning(v, g) /\ kind[g] = "spawn"
        BY <1>1, <1>10, <3>2 DEF PlacesOK
      <4>2. team[v] = home[root[g]]
        BY <1>1, <4>1 DEF TeamsOK
      <4>3. QED
        BY <1>15, <4>1, <4>2
    <3>3. QED
      BY <2>1, <3>1, <3>2
  <2>2. ASSUME NEW v \in Workers, NEW g \in ready_list[v]
        PROVE  home'[g] = home'[root2[g]] /\ team[v] = home'[g]
    <3>1. g \in Frames /\ kind[g] = "spawn" /\ home[g] = home[root[g]] /\ team[v] = home[g] /\ g # d
      BY <1>9, <2>2, ReadyFrame
    <3>2. QED
      BY <1>15, <3>1
  <2>3. ASSUME NEW g \in pending PROVE home'[g] = home'[root2[g]]
    <3>1. g \in Frames /\ kind[g] = "spawn" /\ home[g] = home[root[g]] /\ g # d
      BY <1>1, <1>9, <2>3 DEF TypeOK, PlacesOK, TeamsOK
    <3>2. QED
      BY <1>15, <3>1
  <2>4. \A u \in Users : team[u] \in {u, Nobody} /\ (pc'[u] # "unbound" => team[u] = u)
    BY <1>1, <1>5, <1>8 DEF TeamsOK, Workers
  <2>5. QED
    BY <1>5, <2>1, <2>2, <2>3, <2>4 DEF TeamsOK
<1>26. LabelsOK(par2, trunk)'
  <2>1. ASSUME NEW g \in Frames
        PROVE  g \in par2 <=> sync_master'[g] # Nobody \/ (parent'[g] # NoFrame /\ parent'[g] \in par2)
    <3>1. /\ g \in par3 <=> sync_master'[g] # Nobody \/ (parent[g] # NoFrame /\ parent[g] \in par3)
          /\ sync_master'[g] # Nobody => g \in trunk
      BY <1>4 DEF ReturnedTo
    <3>2. CASE g = d
      BY <1>7, <1>8, <3>1, <3>2
    <3>3. CASE g # d
      BY <1>8, <1>16, <3>1, <3>3
    <3>4. QED
      BY <3>2, <3>3
  <2>2. \A g \in Frames :
            g \in trunk <=> kind'[g] = "initial" \/ (kind'[g] = "call" /\ parent'[g] \in trunk)
    BY <1>1, <1>7, <1>8 DEF LabelsOK
  <2>3. QED
    BY <2>1, <2>2 DEF LabelsOK
<1>27. MastersOK(root2, par2, trunk)'
  <2>1. ASSUME NEW g \in Frames, sync_master'[g] # Nobody
        PROVE  /\ sync_master'[g] = home'[root2[g]] /\ last_full_frame'[sync_master'[g]] = g
               /\ unsynched'[g] /\ g \in trunk
    <3>1. /\ sync_master'[g] = home[root[g]] /\ last_full_frame'[sync_master'[g]] = g
          /\ unsynched'[g] /\ g \in trunk /\ kind[g] # "free"
      BY <1>4, <2>1 DEF ReturnedTo
    <3>2. QED
      BY <1>7, <1>15, <3>1
  <2>2. ASSUME NEW g \in Frames \ par2, kind'[g] # "free"
        PROVE  /\ g \in trunk /\ ~unsynched'[g]
               /\ \A v \in Workers : Runs(v, g)' =>
                     v = home'[root2[g]] /\ last_full_frame'[v] = NoFrame
    <3>1. g # d /\ kind[g] # "free" /\ g \notin par3
      BY <1>8, <2>2
    <3>2. /\ g \in trunk /\ ~unsynched'[g]
          /\ \A v \in Workers : Runs(v, g)' =>
                v = home[root[g]] /\ last_full_frame'[v] = NoFrame
      BY <1>4, <3>1 DEF ReturnedTo
    <3>3. QED
      BY <1>15, <3>1, <3>2
  <2>3. ASSUME NEW g \in par2 PROVE last_full_frame'[home'[root2[g]]] # NoFrame
    <3>1. g \in par /\ g # d /\ last_full_frame'[home[root[g]]] # NoFrame
      BY <1>4, <2>3 DEF ReturnedTo
    <3>2. g \in Frames /\ kind[g] # "free"
      BY <1>12, <3>1, LabelFacts
    <3>3. QED
      BY <1>15, <3>1, <3>2
  <2>4. \A v \in Workers : last_full_frame'[v] # NoFrame =>
            v \in Users /\ sync_master'[last_full_frame'[v]] = v
    BY <1>4 DEF ReturnedTo
  <2>5. QED
    BY <2>1, <2>2, <2>3, <2>4 DEF MastersOK
<1>28. Inv(root2, par2, trunk)'
  BY <1>2, <1>17, <1>18, <1>19, <1>20, <1>21, <1>22, <1>23, <1>24, <1>25, <1>26, <1>27 DEF Inv
<1>29. QED
  BY <1>13, <1>28

-----------------------------------------------------------------------------
(* A frame that was ready is nobody's until a thief takes it, and joins    *)
(* the team the frame was spawned in.                                      *)
LEMMA StealReadyStep ==
    ASSUME NEW root, NEW par, NEW trunk, Labelling(root, par, trunk), Inv(root, par, trunk),
           NEW w \in Workers, NEW victim \in Workers,
           (StealOwn(w) /\ victim = w) \/ StealReadyFrom(w, victim)
    PROVE  Inv(root, par, trunk)'
<1>1. /\ Basic /\ TypeOK /\ ShapeOK /\ CallsOK /\ Acyclic /\ PlacesOK /\ OwnersOK /\ JoinOK
      /\ RootsOK(root) /\ TeamsOK(root) /\ LabelsOK(par, trunk) /\ MastersOK(root, par, trunk)
      /\ WorkersOK
  BY InvBasic
<1>2. TypeOK'
  BY <1>1, NextType DEF WorkerStep
<1>3. PICK p \in ready_list[victim] :
          /\ ready_list' = [ready_list EXCEPT ![victim] = @ \ {p}]
          /\ team' = [team EXCEPT ![w] = home[p]]
          /\ SetSyncMaster(victim, p)
          /\ join' = IncJoin(p)
          /\ PushNextFrame(w, p)
          /\ UNCHANGED <<kind, parent, kids, unsynched, home, pending, frame_ff, held, stack>>
  BY DEF StealOwn, StealReadyFrom, StealReady
<1>4. /\ p \in Frames /\ p \in par /\ kind[p] = "spawn" /\ join[p] = 0 /\ ~Owned(p)
      /\ p \notin pending
      /\ home[p] = home[root[p]] /\ home[p] \in Users /\ team[victim] = home[p]
      /\ ~NeedsMaster(victim)
  BY ReadyFrame
<1>5. /\ \/ pc[w] = "own" /\ victim = w
         \/ pc[w] = "random" /\ MayStealFrom(w, victim)
      /\ pc' = [pc EXCEPT ![w] = "search"]
  BY DEF StealOwn, StealReadyFrom, Goto
<1>6. /\ next_frame_ff[w] = NoFrame /\ frame_ff[w] = NoFrame /\ held[w] = NoFrame
      /\ \A f \in Frames : ~Runs(w, f) /\ ~Returning(w, f)
      /\ w \in Users => home[p] = w
      /\ ready_list[w] # {} => team[w] = home[p]
  BY <1>5, ThiefOfReady
<1>7. /\ kind' = kind /\ parent' = parent /\ kids' = kids /\ unsynched' = unsynched
      /\ home' = home /\ pending' = pending /\ frame_ff' = frame_ff /\ held' = held
      /\ deque' = deque /\ calls' = calls
      /\ sync_master' = sync_master /\ last_full_frame' = last_full_frame
  BY <1>3, <1>4 DEF SetSyncMaster, stack
<1>8. /\ pc'[w] = "search" /\ team'[w] = home[p] /\ next_frame_ff'[w] = p
      /\ join'[p] = 1 /\ \A g \in Frames \ {p} : join'[g] = join[g]
      /\ \A v \in Workers \ {w} : pc'[v] = pc[v] /\ team'[v] = team[v]
                                  /\ next_frame_ff'[v] = next_frame_ff[v]
  BY <1>1, <1>3, <1>4, <1>5 DEF TypeOK, IncJoin, PushNextFrame
<1>9. /\ \A v \in Workers : ready_list'[v] \subseteq ready_list[v]
      /\ \A v \in Workers : p \notin ready_list'[v]
  <2>1. \A v \in Workers : p \in ready_list[v] => v = victim
    BY <1>1 DEF PlacesOK
  <2>2. QED
    BY <1>1, <1>3, <2>1 DEF TypeOK
<1>10. /\ \A v \in Workers, g \in Frames : Runs(v, g)' <=> Runs(v, g) \/ (v = w /\ g = p)
       /\ \A v \in Workers, g \in Frames : Returning(v, g)' <=> Returning(v, g)
  <2>1. ASSUME NEW g \in Frames PROVE (Runs(w, g)' <=> g = p) /\ ~Returning(w, g)'
    BY <1>4, <1>6, <1>7, <1>8, FrameNumbers DEF Runs, Returning
  <2>2. ASSUME NEW v \in Workers \ {w}, NEW g \in Frames
        PROVE  (Runs(v, g)' <=> Runs(v, g)) /\ (Returning(v, g)' <=> Returning(v, g))
    BY <1>7, <1>8 DEF Runs, Returning
  <2>3. QED
    BY <1>6, <2>1, <2>2
<1>11. /\ Owned(p)' /\ \A g \in Frames \ {p} : Owned(g)' <=> Owned(g)
  BY <1>4, <1>10 DEF Owned
<1>12. Children(p) = {} /\ \A g \in Frames : Children(g)' = Children(g)
  BY <1>1, <1>4, <1>7, JoinZero DEF Children
<1>13. \A v \in Workers : pc'[v] = "unbound" <=> pc[v] = "unbound"
  BY <1>5, <1>8
<1>14. WorkersOK'
  <2>1. ASSUME NEW v \in Workers, v # w PROVE WorkerOK(v)'
    BY <1>1, <1>7, <1>8, <1>9, <2>1, OtherWorker
  <2>2. calls[w] = 0 /\ deque[w] = <<>>
    BY <1>1, <1>5 DEF WorkersOK, WorkerOK
  <2>3. WorkerOK(w)'
    BY <1>6, <1>7, <1>8, <2>2 DEF WorkerOK
  <2>4. QED
    BY <2>1, <2>3 DEF WorkersOK, Workers
<1>15. ShapeOK'
  BY <1>1, <1>7 DEF ShapeOK
<1>16. CallsOK'
  <2>1. ASSUME NEW c \in Frames, kind[c] = "call" PROVE parent[c] # p
    BY <1>12 DEF Children
  <2>2. QED
    BY <1>1, <1>7, <1>11, <2>1 DEF CallsOK
<1>17. Acyclic'
  BY <1>1, <1>7 DEF Acyclic
<1>18. PlacesOK'
  <2>1. pending \subseteq Frames /\ \A v \in Workers : ready_list[v] \subseteq Frames
    BY <1>1 DEF TypeOK
  <2>2. \A g \in pending : kind[g] = "spawn" /\ join'[g] = 0
    BY <1>1, <1>4, <1>8, <2>1 DEF PlacesOK
  <2>3. ASSUME NEW v \in Workers, NEW g \in ready_list'[v]
        PROVE  /\ kind[g] = "spawn" /\ join'[g] = 0 /\ g \notin pending
               /\ \A x \in Workers : g \in ready_list'[x] => x = v
    <3>1. /\ g \in ready_list[v] /\ g \in Frames /\ g # p
          /\ \A x \in Workers : g \in ready_list'[x] => g \in ready_list[x]
      BY <1>9, <2>1, <2>3
    <3>2. /\ kind[g] = "spawn" /\ join[g] = 0 /\ g \notin pending
          /\ \A x \in Workers : g \in ready_list[x] => x = v
      BY <1>1, <3>1 DEF PlacesOK
    <3>3. QED
      BY <1>8, <3>1, <3>2
  <2>4. ASSUME NEW v \in Workers, NEW g \in Frames, Returning(v, g)
        PROVE  /\ kind[g] = "spawn" /\ join'[g] = 0 /\ g \notin pending /\ g \notin kids[parent[g]]
               /\ \A x \in Workers : g \notin ready_list'[x] /\ (Returning(x, g) => x = v)
    <3>1. /\ kind[g] = "spawn" /\ join[g] = 0 /\ g \notin pending /\ g \notin kids[parent[g]]
          /\ \A x \in Workers : g \notin ready_list[x] /\ (Returning(x, g) => x = v)
      BY <1>1, <2>4 DEF PlacesOK
    <3>2. g # p
      BY <3>1
    <3>3. QED
      BY <1>8, <1>9, <3>1, <3>2
  <2>5. QED
    BY <1>7, <1>10, <2>2, <2>3, <2>4 DEF PlacesOK
<1>19. OwnersOK'
  <2>1. \A v \in Workers : ~Runs(v, p)
    BY <1>4 DEF Owned
  <2>2. QED
    BY <1>1, <1>4, <1>7, <1>10, <2>1 DEF OwnersOK
<1>20. JoinOK'
  <2>1. ASSUME NEW g \in Frames
        PROVE  join'[g] = Cardinality(Children(g)') + (IF Owned(g)' THEN 1 ELSE 0)
    <3>1. CASE g = p
      <4>1. Cardinality(Children(p)') = 0
        BY <1>4, <1>12, FS_EmptySet
      <4>2. QED
        BY <1>8, <1>11, <3>1, <4>1
    <3>2. CASE g # p
      BY <1>1, <1>8, <1>11, <1>12, <3>2 DEF JoinOK
    <3>3. QED
      BY <3>1, <3>2
  <2>2. QED
    BY <2>1 DEF JoinOK
<1>21. RootsOK(root)'
  <2>1. \A g \in Frames : kind[g] = "initial" => home[g] \in Users /\ pc[home[g]] # "unbound"
    BY <1>1 DEF RootsOK
  <2>2. QED
    BY <1>1, <1>7, <1>13, <2>1 DEF RootsOK, Workers
<1>22. TeamsOK(root)'
  <2>1. ASSUME NEW u \in Users
        PROVE  team'[u] \in {u, Nobody} /\ (pc'[u] # "unbound" => team'[u] = u)
    <3>1. team[u] \in {u, Nobody} /\ (pc[u] # "unbound" => team[u] = u) /\ u \in Workers
      BY <1>1 DEF TeamsOK, Workers
    <3>2. QED
      BY <1>6, <1>8, <1>13, <3>1
  <2>2. ASSUME NEW v \in Workers, NEW g \in Frames, Runs(v, g)' \/ Returning(v, g)'
        PROVE  team'[v] = home[root[g]]
    <3>1. CASE v = w
      BY <1>4, <1>6, <1>8, <1>10, <2>2, <3>1
    <3>2. CASE v # w
      BY <1>1, <1>8, <1>10, <2>2, <3>2 DEF TeamsOK
    <3>3. QED
      BY <3>1, <3>2
  <2>3. ASSUME NEW v \in Workers, NEW g \in ready_list'[v]
        PROVE  home[g] = home[root[g]] /\ team'[v] = home[g]
    <3>1. g \in ready_list[v] /\ home[g] = home[root[g]] /\ team[v] = home[g]
      BY <1>1, <1>9, <2>3 DEF TeamsOK
    <3>2. team'[v] = team[v]
      BY <1>6, <1>8, <3>1
    <3>3. QED
      BY <3>1, <3>2
  <2>4. \A g \in pending : home[g] = home[root[g]]
    BY <1>1 DEF TeamsOK
  <2>5. QED
    BY <1>7, <2>1, <2>2, <2>3, <2>4 DEF TeamsOK
<1>23. LabelsOK(par, trunk)'
  BY <1>1, <1>7 DEF LabelsOK
<1>24. MastersOK(root, par, trunk)'
  <2>1. ASSUME NEW g \in Frames \ par, kind[g] # "free"
        PROVE  /\ g \in trunk /\ ~unsynched[g]
               /\ \A v \in Workers : Runs(v, g)' =>
                     v = home[root[g]] /\ last_full_frame[v] = NoFrame
    BY <1>1, <1>4, <1>10, <2>1 DEF MastersOK
  <2>2. QED
    BY <1>1, <1>7, <2>1 DEF MastersOK
<1>25. QED
  BY <1>2, <1>14, <1>15, <1>16, <1>17, <1>18, <1>19, <1>20, <1>21, <1>22, <1>23, <1>24 DEF Inv

(* What a steal does to the tree: below the victim's frame hangs a chain of*)
(* new frames, all calls but the last, whose parent is the loot.           *)
Grown(w, victim, first, loot, child, new, upper) ==
    /\ new \subseteq Frames /\ first \in Frames \ new /\ first = frame_ff[victim]
    /\ upper = (new \cup {first}) \ {child} /\ child \in new /\ loot \in upper
    /\ kind[first] = "spawn" => loot # first
    /\ \A c \in new : kind[c] = "free" /\ parent'[c] \in upper
    /\ kind'[child] = "spawn" /\ \A c \in new \ {child} : kind'[c] = "call"
    /\ \A c, d \in new : parent'[c] = parent'[d] => c = d
    /\ parent'[child] = loot
    /\ \A b \in upper : \E c \in new : parent'[c] = b /\ kids'[b] = kids[b] \cup {c}
    /\ \A g \in Frames \ new : kind'[g] = kind[g] /\ parent'[g] = parent[g]
    /\ \A g \in Frames \ upper : kids'[g] = kids[g]
    /\ \A G \in SUBSET new : G # {} => \E g \in G : parent'[g] \notin G
    /\ join' = DetachedJoin(first, upper, loot, child)
    /\ unsynched' = [unsynched EXCEPT ![loot] = TRUE]
    /\ SetSyncMaster(victim, loot)
    /\ next_frame_ff' = [next_frame_ff EXCEPT ![w] = loot]
    /\ frame_ff' = [frame_ff EXCEPT ![victim] = child]

(* A steal adds frames below the victim's, and a child for the victim, ... *)
LEMMA StealGrows ==
    ASSUME Basic, NEW w \in Workers, NEW victim \in Workers, Steal(w, victim)
    PROVE  \E first, loot, child, new, upper : Grown(w, victim, first, loot, child, new, upper)
<1>1. PICK n, line : n = Head(deque[victim]) + 1 /\ DetachedTo(w, victim, n, line)
  BY Detached
<1>2. /\ n \in Nat /\ n > 1 /\ line \in [1..n -> Frames]
      /\ \A i, j \in 1..n : line[i] = line[j] => i = j
      /\ line[1] = frame_ff[victim]
      /\ \A i \in 2..n : kind[line[i]] = "free"
      /\ kind'[line[n]] = "spawn" /\ \A i \in 2..(n - 1) : kind'[line[i]] = "call"
      /\ \A i \in 2..n : parent'[line[i]] = line[i - 1]
      /\ \A f \in Frames : (\A i \in 2..n : f # line[i]) =>
            kind'[f] = kind[f] /\ parent'[f] = parent[f]
      /\ \A i \in 1..(n - 1) : kids'[line[i]] = kids[line[i]] \cup {line[i + 1]}
      /\ \A f \in Frames : (\A i \in 1..(n - 1) : f # line[i]) => kids'[f] = kids[f]
      /\ join' = DetachedJoin(line[1], {line[i] : i \in 1..(n - 1)}, line[n - 1], line[n])
      /\ unsynched' = [unsynched EXCEPT ![line[n - 1]] = TRUE]
      /\ SetSyncMaster(victim, line[n - 1])
      /\ next_frame_ff' = [next_frame_ff EXCEPT ![w] = line[n - 1]]
      /\ frame_ff' = [frame_ff EXCEPT ![victim] = line[n]]
  BY <1>1 DEF DetachedTo
<1>3. PICK new, upper : new = {line[i] : i \in 2..n} /\ upper = {line[i] : i \in 1..(n - 1)}
  OBVIOUS
<1>4. /\ \A i \in 2..n : i \in 1..n /\ i - 1 \in 1..n /\ i - 1 \in 1..(n - 1)
      /\ \A i \in 1..(n - 1) : i \in 1..n /\ i + 1 \in 1..n /\ i + 1 \in 2..n
      /\ 1 \in 1..n /\ n \in 2..n /\ n - 1 \in 1..(n - 1)
      /\ \A i \in 1..n : i = 1 \/ i \in 2..n
      /\ \A i \in 1..n : i = n \/ i \in 1..(n - 1)
      /\ \A i \in 2..n : i = n \/ i \in 2..(n - 1)
      /\ 1 \notin 2..n /\ n \notin 1..(n - 1)
  BY <1>2
<1>5. new \subseteq Frames /\ upper \subseteq Frames /\ line[1] \in Frames \ new
  <2>1. \A i \in 1..n : line[i] \in Frames
    BY <1>2
  <2>2. ASSUME NEW i \in 2..n PROVE line[1] # line[i]
    BY <1>2, <1>4, <2>2
  <2>3. new \subseteq Frames /\ upper \subseteq Frames
    BY <1>3, <1>4, <2>1
  <2>4. QED
    BY <1>3, <1>4, <2>1, <2>2, <2>3
<1>6. upper = (new \cup {line[1]}) \ {line[n]}
  <2>1. ASSUME NEW i \in 1..(n - 1) PROVE line[i] \in (new \cup {line[1]}) \ {line[n]}
    BY <1>2, <1>3, <1>4, <2>1
  <2>2. ASSUME NEW f \in (new \cup {line[1]}) \ {line[n]} PROVE f \in upper
    <3>1. PICK i \in 1..n : f = line[i]
      BY <1>3, <1>4, <2>2
    <3>2. QED
      BY <1>3, <1>4, <2>2, <3>1
  <2>3. QED
    BY <1>3, <2>1, <2>2
<1>7. line[n] \in new /\ line[n - 1] \in upper /\ parent'[line[n]] = line[n - 1]
  BY <1>2, <1>3, <1>4
<1>8. kind[line[1]] = "spawn" => line[n - 1] # line[1]
  <2>1. kind[line[1]] = "spawn" => n > 2
    BY <1>1, <1>2, LineOf
  <2>2. n > 2 => n - 1 # 1 /\ n - 1 \in 1..n
    BY <1>2
  <2>3. QED
    BY <1>2, <1>4, <2>1, <2>2
<1>9. /\ \A c \in new : kind[c] = "free" /\ parent'[c] \in upper
      /\ \A c \in new \ {line[n]} : kind'[c] = "call"
  <2>1. ASSUME NEW i \in 2..n
        PROVE  /\ kind[line[i]] = "free" /\ parent'[line[i]] \in upper
               /\ line[i] # line[n] => kind'[line[i]] = "call"
    <3>1. kind[line[i]] = "free" /\ parent'[line[i]] = line[i - 1]
      BY <1>2
    <3>2. line[i - 1] \in upper
      BY <1>3, <1>4
    <3>3. line[i] # line[n] => kind'[line[i]] = "call"
      BY <1>2, <1>4
    <3>4. QED
      BY <3>1, <3>2, <3>3
  <2>2. QED
    BY <1>3, <2>1
<1>10. \A c, d \in new : parent'[c] = parent'[d] => c = d
  <2>1. ASSUME NEW i \in 2..n, NEW j \in 2..n, parent'[line[i]] = parent'[line[j]]
        PROVE  line[i] = line[j]
    <3>1. line[i - 1] = line[j - 1] /\ i - 1 \in 1..n /\ j - 1 \in 1..n
      BY <1>2, <1>4, <2>1
    <3>2. i - 1 = j - 1
      BY <1>2, <3>1
    <3>3. i = j
      BY <1>2, <3>2
    <3>4. QED
      BY <3>3
  <2>2. QED
    BY <1>3, <2>1
<1>11. \A b \in upper : \E c \in new : parent'[c] = b /\ kids'[b] = kids[b] \cup {c}
  <2>1. ASSUME NEW i \in 1..(n - 1)
        PROVE  /\ line[i + 1] \in new /\ parent'[line[i + 1]] = line[i]
               /\ kids'[line[i]] = kids[line[i]] \cup {line[i + 1]}
    <3>1. i + 1 \in 2..n /\ (i + 1) - 1 = i
      BY <1>2
    <3>2. parent'[line[i + 1]] = line[i]
      BY <1>2, <3>1
    <3>3. QED
      BY <1>2, <1>3, <3>1, <3>2
  <2>2. QED
    BY <1>3, <2>1
<1>12. /\ \A g \in Frames \ new : kind'[g] = kind[g] /\ parent'[g] = parent[g]
       /\ \A g \in Frames \ upper : kids'[g] = kids[g]
  BY <1>2, <1>3
<1>13. ASSUME NEW G \in SUBSET new, G # {} PROVE \E g \in G : parent'[g] \notin G
  <2> DEFINE T == {i \in 2..n : line[i] \in G}
  <2>1. T \in SUBSET Nat /\ T # {}
    BY <1>3, <1>13
  <2>2. PICK i \in T : \A j \in T : i <= j
    BY <2>1, Least
  <2>3. i \in 2..n /\ line[i] \in G /\ parent'[line[i]] = line[i - 1]
    BY <1>2, <2>2
  <2>4. ASSUME line[i - 1] \in G PROVE FALSE
    <3>1. PICK j \in 2..n : line[i - 1] = line[j]
      BY <1>3, <1>13, <2>4
    <3>2. i - 1 = j
      BY <1>2, <1>4, <2>3, <3>1
    <3>3. j \in T
      BY <2>4, <3>1
    <3>4. QED
      BY <1>2, <2>2, <3>2, <3>3
  <2>5. QED
    BY <2>3, <2>4
<1>14. Grown(w, victim, line[1], line[n - 1], line[n], new, upper)
  BY <1>2, <1>3, <1>5, <1>6, <1>7, <1>8, <1>9, <1>10, <1>11, <1>12, <1>13 DEF Grown
<1>15. QED
  BY <1>14

(* Who runs what after a steal: the thief the loot and the victim the child*)
(* in which it goes on.                                                    *)
LEMMA StealRuns ==
    ASSUME Basic, NEW w \in Workers, NEW victim \in Workers, Steal(w, victim),
           NEW first, NEW loot, NEW child, NEW new, NEW upper,
           Grown(w, victim, first, loot, child, new, upper),
           next_frame_ff[w] = NoFrame, frame_ff[w] = NoFrame, held[w] = NoFrame
    PROVE  /\ loot \in Frames /\ child \in Frames /\ loot # child /\ upper \subseteq Frames
           /\ kind[first] # "free" /\ Runs(victim, first) /\ Owned(first)
           /\ \A v \in Workers, g \in Frames : Runs(v, g)' <=>
                 (v # victim /\ Runs(v, g)) \/ (v = victim /\ g = child) \/ (v = w /\ g = loot)
           /\ \A v \in Workers : Runs(v, first) => v = victim
           /\ \A v \in Workers, g \in Frames : Returning(v, g)' <=> Returning(v, g)
           /\ pc'[w] = "search" /\ \A v \in Workers \ {w} : pc'[v] = pc[v]
           /\ \A v \in Workers : pc'[v] = "unbound" <=> pc[v] = "unbound"
           /\ unsynched'[loot] /\ \A g \in Frames \ {loot} : unsynched'[g] = unsynched[g]
           /\ \A c \in new : /\ parent[c] = NoFrame /\ kids[c] = {} /\ Children(c) = {}
                             /\ join[c] = 0 /\ ~Owned(c) /\ c \notin pending
                             /\ ~unsynched[c] /\ sync_master[c] = Nobody
                             /\ \A v \in Workers : c \notin ready_list[v] /\ ~Runs(v, c)
                                                   /\ ~Returning(v, c)
                             /\ \A g \in Frames : parent[g] # c
           /\ home' = home /\ pending' = pending /\ ready_list' = ready_list
           /\ held' = held /\ calls' = calls
           /\ team'[w] = team[victim] /\ \A v \in Workers \ {w} : team'[v] = team[v]
           /\ deque'[victim] = Tail(deque[victim])
           /\ \A v \in Workers \ {victim} : deque'[v] = deque[v]
<1>1. TypeOK /\ OwnersOK
  BY DEF Basic
<1>2. /\ new \subseteq Frames /\ first \in Frames \ new /\ first = frame_ff[victim]
      /\ upper = (new \cup {first}) \ {child} /\ child \in new /\ loot \in upper
      /\ \A c \in new : kind[c] = "free"
      /\ unsynched' = [unsynched EXCEPT ![loot] = TRUE]
      /\ next_frame_ff' = [next_frame_ff EXCEPT ![w] = loot]
      /\ frame_ff' = [frame_ff EXCEPT ![victim] = child]
  BY DEF Grown
<1>3. loot \in Frames /\ child \in Frames /\ loot # child /\ upper \subseteq Frames
  BY <1>2
<1>4. /\ w # victim /\ pc[victim] = "work" /\ pc[w] = "random"
      /\ pc' = [pc EXCEPT ![w] = "search"]
      /\ team' = [team EXCEPT ![w] = team[victim]]
      /\ deque' = [deque EXCEPT ![victim] = Tail(@)]
      /\ home' = home /\ pending' = pending /\ ready_list' = ready_list
      /\ held' = held /\ calls' = calls
  BY DEF Steal, MayStealFrom, Goto, JoinTeam
<1>5. /\ pc'[w] = "search" /\ \A v \in Workers \ {w} : pc'[v] = pc[v]
      /\ team'[w] = team[victim] /\ \A v \in Workers \ {w} : team'[v] = team[v]
      /\ deque'[victim] = Tail(deque[victim])
      /\ \A v \in Workers \ {victim} : deque'[v] = deque[v]
      /\ next_frame_ff'[w] = loot
      /\ \A v \in Workers \ {w} : next_frame_ff'[v] = next_frame_ff[v]
      /\ frame_ff'[victim] = child
      /\ \A v \in Workers \ {victim} : frame_ff'[v] = frame_ff[v]
      /\ unsynched'[loot] /\ \A g \in Frames \ {loot} : unsynched'[g] = unsynched[g]
  BY <1>1, <1>2, <1>3, <1>4 DEF TypeOK
<1>6. /\ Runs(victim, first) /\ Owned(first) /\ kind[first] # "free"
      /\ next_frame_ff[victim] = NoFrame
      /\ \A g \in Frames : Runs(victim, g) <=> g = first
  BY <1>2, <1>4, AtWork
<1>7. \A v \in Workers : Runs(v, first) => v = victim
  BY <1>1, <1>2, <1>6 DEF OwnersOK
<1>8. \A v \in Workers, g \in Frames : Returning(v, g)' <=> Returning(v, g)
  <2>1. \A g \in Frames : ~Returning(w, g) /\ ~Returning(w, g)'
    BY <1>4, <1>5 DEF Returning
  <2>2. \A v \in Workers \ {w}, g \in Frames : Returning(v, g)' <=> Returning(v, g)
    BY <1>4, <1>5 DEF Returning
  <2>3. QED
    BY <2>1, <2>2
<1>9. \A v \in Workers, g \in Frames : Runs(v, g)' <=>
          (v # victim /\ Runs(v, g)) \/ (v = victim /\ g = child) \/ (v = w /\ g = loot)
  <2>1. ASSUME NEW g \in Frames PROVE ~Runs(w, g) /\ (Runs(w, g)' <=> g = loot)
    BY <1>3, <1>4, <1>5, FrameNumbers DEF Runs
  <2>2. ASSUME NEW g \in Frames PROVE Runs(victim, g)' <=> g = child
    BY <1>3, <1>4, <1>5, <1>6, FrameNumbers DEF Runs
  <2>3. ASSUME NEW v \in Workers \ {w, victim}, NEW g \in Frames
        PROVE  Runs(v, g)' <=> Runs(v, g)
    BY <1>4, <1>5 DEF Runs
  <2>4. QED
    BY <1>4, <2>1, <2>2, <2>3
<1>10. \A v \in Workers : pc'[v] = "unbound" <=> pc[v] = "unbound"
  BY <1>4, <1>5
<1>11. ASSUME NEW c \in new
       PROVE  /\ parent[c] = NoFrame /\ kids[c] = {} /\ Children(c) = {}
              /\ join[c] = 0 /\ ~Owned(c) /\ c \notin pending
              /\ ~unsynched[c] /\ sync_master[c] = Nobody
              /\ \A v \in Workers : c \notin ready_list[v] /\ ~Runs(v, c)
                                    /\ ~Returning(v, c)
              /\ \A g \in Frames : parent[g] # c
  BY <1>2, <1>11, FreeFrame
<1>12. QED
  BY <1>3, <1>4, <1>5, <1>6, <1>7, <1>8, <1>9, <1>10, <1>11

(* ... which leaves the frames trees with exact counters.                  *)
LEMMA StealTree ==
    ASSUME Basic, NEW w \in Workers, NEW victim \in Workers, Steal(w, victim),
           NEW first, NEW loot, NEW child, NEW new, NEW upper,
           Grown(w, victim, first, loot, child, new, upper),
           next_frame_ff[w] = NoFrame, frame_ff[w] = NoFrame, held[w] = NoFrame
    PROVE  /\ WorkersOK' /\ ShapeOK' /\ CallsOK' /\ Acyclic'
           /\ PlacesOK' /\ OwnersOK' /\ JoinOK'
<1>1. /\ TypeOK /\ WorkersOK /\ ShapeOK /\ CallsOK /\ Acyclic /\ PlacesOK /\ OwnersOK /\ JoinOK
  BY DEF Basic
<1>2. /\ new \subseteq Frames /\ first \in Frames \ new /\ first = frame_ff[victim]
      /\ upper = (new \cup {first}) \ {child} /\ child \in new /\ loot \in upper
      /\ kind[first] = "spawn" => loot # first
      /\ \A c \in new : kind[c] = "free" /\ parent'[c] \in upper
      /\ kind'[child] = "spawn" /\ \A c \in new \ {child} : kind'[c] = "call"
      /\ \A c, d \in new : parent'[c] = parent'[d] => c = d
      /\ parent'[child] = loot
      /\ \A g \in Frames \ new : kind'[g] = kind[g] /\ parent'[g] = parent[g]
      /\ SetSyncMaster(victim, loot)
      /\ next_frame_ff' = [next_frame_ff EXCEPT ![w] = loot]
      /\ frame_ff' = [frame_ff EXCEPT ![victim] = child]
  BY DEF Grown
<1>3. /\ loot \in Frames /\ child \in Frames /\ loot # child /\ upper \subseteq Frames
      /\ kind[first] # "free" /\ Runs(victim, first) /\ Owned(first)
      /\ \A v \in Workers : Runs(v, first) => v = victim
      /\ pc'[w] = "search" /\ \A v \in Workers \ {w} : pc'[v] = pc[v]
      /\ unsynched'[loot] /\ \A g \in Frames \ {loot} : unsynched'[g] = unsynched[g]
      /\ home' = home /\ pending' = pending /\ ready_list' = ready_list
      /\ held' = held /\ calls' = calls
      /\ deque'[victim] = Tail(deque[victim])
      /\ \A v \in Workers \ {victim} : deque'[v] = deque[v]
  BY StealRuns
<1>4. /\ \A v \in Workers, g \in Frames : Runs(v, g)' <=>
            (v # victim /\ Runs(v, g)) \/ (v = victim /\ g = child) \/ (v = w /\ g = loot)
      /\ \A v \in Workers, g \in Frames : Returning(v, g)' <=> Returning(v, g)
  BY StealRuns
<1>5. \A c \in new : /\ parent[c] = NoFrame /\ kids[c] = {} /\ Children(c) = {}
                     /\ join[c] = 0 /\ ~Owned(c) /\ c \notin pending
                     /\ ~unsynched[c] /\ sync_master[c] = Nobody
                     /\ \A v \in Workers : c \notin ready_list[v] /\ ~Runs(v, c)
                                           /\ ~Returning(v, c)
                     /\ \A g \in Frames : parent[g] # c
  BY StealRuns
<1>6. pc[victim] = "work" /\ deque[victim] # <<>> /\ w # victim /\ pc[w] = "random"
  BY DEF Steal, MayStealFrom, Goto
<1>7. /\ \A g \in Frames \ {loot} : sync_master'[g] = sync_master[g]
      /\ \A v \in Workers \ {victim} : last_full_frame'[v] = last_full_frame[v]
  BY <1>1, <1>2 DEF SetSyncMaster, TypeOK
<1>8. \A g \in Frames : parent[g] # NoFrame => parent[g] \in Frames \ new /\ g \notin new
  BY <1>1, <1>5 DEF TypeOK
<1>9. \A g \in Frames \ {first} : g \notin new => g \notin upper /\ g # loot /\ g # child
  BY <1>2
<1>10. /\ Owned(loot)' /\ Owned(child)'
       /\ \A g \in upper \ {loot} : ~Owned(g)'
       /\ \A g \in Frames \ {first} : g \notin new => (Owned(g)' <=> Owned(g))
  <2>1. Owned(loot)' /\ Owned(child)'
    BY <1>3, <1>4 DEF Owned
  <2>2. ASSUME NEW g \in upper \ {loot} PROVE ~Owned(g)'
    <3>1. g \in Frames /\ g # child /\ g # loot /\ \A v \in Workers : Runs(v, g) => v = victim
      BY <1>2, <1>3, <1>5
    <3>2. QED
      BY <1>4, <3>1 DEF Owned
  <2>3. ASSUME NEW g \in Frames \ {first}, g \notin new PROVE Owned(g)' <=> Owned(g)
    <3>1. \A v \in Workers : Runs(v, g)' <=> v # victim /\ Runs(v, g)
      BY <1>4, <1>9, <2>3
    <3>2. ~Runs(victim, g)
      BY <1>2, <1>6, <2>3, AtWork
    <3>3. QED
      BY <3>1, <3>2 DEF Owned
  <2>4. QED
    BY <2>1, <2>2, <2>3
<1>11. WorkersOK'
  <2>1. ASSUME NEW v \in Workers, v # w, v # victim PROVE WorkerOK(v)'
    <3>1. ASSUME pc[v] = "work" PROVE kind'[frame_ff[v]] = kind[frame_ff[v]]
      <4>1. frame_ff[v] \in Frames /\ kind[frame_ff[v]] # "free"
        BY <3>1, AtWork
      <4>2. QED
        BY <1>2, <4>1
    <3>2. /\ frame_ff'[v] = frame_ff[v] /\ next_frame_ff'[v] = next_frame_ff[v]
          /\ last_full_frame'[v] \in {last_full_frame[v], NoFrame}
          /\ ready_list'[v] \subseteq ready_list[v]
      BY <1>1, <1>2, <1>3, <1>7, <2>1 DEF TypeOK
    <3>3. QED
      BY <1>3, <2>1, <3>1, <3>2, OtherWorker
  <2>2. WorkerOK(w)'
    <3>1. calls[w] = 0 /\ deque[w] = <<>>
      BY <1>1, <1>6 DEF WorkersOK, WorkerOK
    <3>2. frame_ff'[w] = NoFrame /\ held'[w] = NoFrame /\ calls'[w] = 0 /\ deque'[w] = <<>>
      BY <1>1, <1>2, <1>3, <1>6, <3>1 DEF TypeOK
    <3>3. QED
      BY <1>3, <3>2 DEF WorkerOK
  <2>3. WorkerOK(victim)'
    <3>1. WorkerOK(victim) /\ next_frame_ff[victim] = NoFrame /\ held[victim] = NoFrame
      BY <1>1, <1>6, AtWork DEF WorkersOK
    <3>2. /\ pc'[victim] = "work" /\ frame_ff'[victim] # NoFrame
          /\ next_frame_ff'[victim] = NoFrame /\ held'[victim] = NoFrame
          /\ calls'[victim] # 0
      BY <1>1, <1>2, <1>3, <1>6, <3>1, FrameNumbers DEF TypeOK, WorkerOK
    <3>3. \A i \in 1..Len(deque'[victim]) : deque'[victim][i] > 1
      <4>1. /\ Len(Tail(deque[victim])) = Len(deque[victim]) - 1
            /\ \A i \in 1..Len(Tail(deque[victim])) :
                  Tail(deque[victim])[i] = deque[victim][i + 1]
            /\ Len(deque[victim]) \in Nat
        BY <1>1, <1>6, LineOf DEF TypeOK
      <4>2. ASSUME NEW i \in 1..Len(Tail(deque[victim])) PROVE Tail(deque[victim])[i] > 1
        <5>1. i + 1 \in 1..Len(deque[victim]) /\ i + 1 > 1
          BY <4>1
        <5>2. QED
          BY <3>1, <4>1, <5>1 DEF WorkerOK
      <4>3. QED
        BY <1>3, <4>2
    <3>4. QED
      BY <3>2, <3>3 DEF WorkerOK
  <2>4. QED
    BY <2>1, <2>2, <2>3 DEF WorkersOK, Workers
<1>12. ShapeOK'
  <2>1. ASSUME NEW g \in Frames
        PROVE  /\ kind'[g] \in {"free", "initial"} <=> parent'[g] = NoFrame
               /\ parent'[g] # NoFrame => kind'[parent'[g]] # "free"
    <3>1. CASE g \in new
      <4>1. kind'[g] \in {"call", "spawn"} /\ parent'[g] \in upper /\ parent'[g] # NoFrame
        BY <1>2, <1>3, <3>1, FrameNumbers
      <4>2. \A b \in upper : kind'[b] # "free"
        BY <1>2, <1>3
      <4>3. QED
        BY <4>1, <4>2
    <3>2. CASE g \notin new
      <4>1. kind'[g] = kind[g] /\ parent'[g] = parent[g]
        BY <1>2, <3>2
      <4>2. parent[g] # NoFrame => kind'[parent[g]] = kind[parent[g]]
        BY <1>2, <1>8
      <4>3. QED
        BY <1>1, <4>1, <4>2 DEF ShapeOK
    <3>3. QED
      BY <3>1, <3>2
  <2>2. ASSUME NEW g \in Frames, kind'[g] = "free"
        PROVE  ~unsynched'[g] /\ sync_master'[g] = Nobody
    <3>1. g \notin new /\ g # first /\ kind[g] = "free"
      BY <1>2, <1>3, <2>2
    <3>2. QED
      BY <1>1, <1>3, <1>7, <1>9, <3>1 DEF ShapeOK
  <2>3. ASSUME NEW g \in Frames, NEW c \in kids'[g] PROVE parent'[c] = g
    <3>1. c \in kids[g] => parent[c] = g /\ parent'[c] = g
      <4>1. kids[g] \subseteq Frames
        BY <1>1 DEF TypeOK
      <4>2. c \in kids[g] => c \in Frames /\ parent[c] = g
        BY <1>1, <4>1 DEF ShapeOK
      <4>3. QED
        BY <1>2, <1>8, <4>2, FrameNumbers
    <3>2. CASE g \in upper
      <4>1. PICK b \in new : parent'[b] = g /\ kids'[g] = kids[g] \cup {b}
        BY <3>2 DEF Grown
      <4>2. QED
        BY <2>3, <3>1, <4>1
    <3>3. CASE g \notin upper
      <4>1. kids'[g] = kids[g]
        BY <3>3 DEF Grown
      <4>2. QED
        BY <2>3, <3>1, <4>1
    <3>4. QED
      BY <3>2, <3>3
  <2>4. ASSUME NEW g \in Frames, kind'[g] = "spawn" PROVE unsynched'[parent'[g]] /\ ~unsynched'[g]
    <3>1. CASE g = child
      BY <1>2, <1>3, <1>5, <3>1
    <3>2. CASE g # child
      <4>1. g \notin new /\ kind[g] = "spawn" /\ parent'[g] = parent[g]
        BY <1>2, <2>4, <3>2
      <4>2. unsynched[parent[g]] /\ ~unsynched[g] /\ parent[g] # NoFrame
        BY <1>1, <4>1 DEF ShapeOK
      <4>3. g # loot /\ parent[g] \in Frames
        BY <1>2, <1>8, <4>1, <4>2
      <4>4. QED
        BY <1>3, <4>1, <4>2, <4>3
    <3>3. QED
      BY <3>1, <3>2
  <2>5. QED
    BY <2>1, <2>2, <2>3, <2>4 DEF ShapeOK
<1>13. CallsOK'
  <2>1. ASSUME NEW f \in Frames, NEW c \in Frames, kind'[c] = "call", parent'[c] = f
        PROVE  /\ ~Owned(f)'
               /\ \A d \in Frames : kind'[d] = "call" /\ parent'[d] = f => d = c
    <3>1. CASE c \in new
      <4>1. c # child /\ f \in upper /\ f # loot
        BY <1>2, <2>1, <3>1
      <4>2. ~Owned(f)'
        BY <1>10, <4>1
      <4>3. ASSUME NEW d \in Frames, kind'[d] = "call", parent'[d] = f, d \notin new
            PROVE  FALSE
        <5>1. kind[d] = "call" /\ parent[d] = f
          BY <1>2, <4>3
        <5>2. f = first
          BY <1>2, <1>5, <4>1, <5>1
        <5>3. QED
          BY <1>1, <1>3, <5>1, <5>2 DEF CallsOK
      <4>4. QED
        BY <1>2, <2>1, <3>1, <4>2, <4>3
    <3>2. CASE c \notin new
      <4>1. kind[c] = "call" /\ parent[c] = f
        BY <1>2, <2>1, <3>2
      <4>2. ~Owned(f) /\ \A d \in Frames : kind[d] = "call" /\ parent[d] = f => d = c
        BY <1>1, <4>1 DEF CallsOK
      <4>3. f # first /\ f \notin new
        BY <1>3, <1>5, <4>1, <4>2
      <4>4. \A d \in Frames : parent'[d] = f => d \notin new
        BY <1>2, <1>9, <4>3
      <4>5. QED
        BY <1>2, <1>10, <4>2, <4>3, <4>4
    <3>3. QED
      BY <3>1, <3>2
  <2>2. QED
    BY <2>1 DEF CallsOK
<1>14. Acyclic'
  <2>1. ASSUME NEW G \in SUBSET Frames, G # {}
        PROVE  \E g \in G : parent'[g] \notin G
    <3>1. CASE G \subseteq new
      BY <2>1, <3>1 DEF Grown
    <3>2. CASE ~(G \subseteq new)
      <4>1. G \ new # {} /\ G \ new \in SUBSET Frames
        BY <3>2
      <4>2. PICK g \in G \ new : parent[g] \notin G \ new
        BY <1>1, <4>1 DEF Acyclic
      <4>3. g \in Frames /\ parent'[g] = parent[g] /\ parent[g] \notin new
        BY <1>2, <1>8, <2>1, <4>2, FrameNumbers
      <4>4. QED
        BY <4>2, <4>3
    <3>3. QED
      BY <3>1, <3>2
  <2>2. QED
    BY <2>1 DEF Acyclic
<1>15. PlacesOK'
  <2>1. ASSUME NEW g \in Frames, kind[g] = "spawn", join[g] = 0
        PROVE  /\ kind'[g] = "spawn" /\ join'[g] = 0 /\ parent'[g] = parent[g]
               /\ g \notin kids[parent[g]] => g \notin kids'[parent[g]]
    <3>1. g \notin new /\ g # first
      BY <1>1, <1>2, <1>3, <2>1, JoinZero
    <3>2. g \notin upper /\ g # loot /\ g # child
      BY <1>9, <3>1
    <3>3. join' = DetachedJoin(first, upper, loot, child)
      BY DEF Grown
    <3>4. join'[g] = 0
      BY <2>1, <3>1, <3>2, <3>3 DEF DetachedJoin
    <3>5. parent[g] \in Frames
      BY <1>1, <1>8, <2>1 DEF ShapeOK
    <3>6. g \notin kids[parent[g]] => g \notin kids'[parent[g]]
      <4>1. \A b \in upper : \E c \in new : kids'[b] = kids[b] \cup {c}
        BY DEF Grown
      <4>2. \A b \in Frames \ upper : kids'[b] = kids[b]
        BY DEF Grown
      <4>3. QED
        BY <3>1, <3>5, <4>1, <4>2
    <3>7. QED
      BY <1>2, <2>1, <3>1, <3>4, <3>6
  <2>2. pending \subseteq Frames /\ \A v \in Workers : ready_list[v] \subseteq Frames
    BY <1>1 DEF TypeOK
  <2>3. ASSUME NEW v \in Workers, NEW g \in Frames, Returning(v, g)
        PROVE  /\ kind'[g] = "spawn" /\ join'[g] = 0 /\ g \notin pending /\ g \notin kids'[parent'[g]]
               /\ \A x \in Workers : g \notin ready_list[x] /\ (Returning(x, g) => x = v)
    <3>1. /\ kind[g] = "spawn" /\ join[g] = 0 /\ g \notin pending /\ g \notin kids[parent[g]]
          /\ \A x \in Workers : g \notin ready_list[x] /\ (Returning(x, g) => x = v)
      BY <1>1, <2>3 DEF PlacesOK
    <3>2. QED
      BY <2>1, <3>1
  <2>4. \A g \in pending : kind'[g] = "spawn" /\ join'[g] = 0
    BY <1>1, <2>1, <2>2 DEF PlacesOK
  <2>5. \A v \in Workers : \A g \in ready_list[v] :
            /\ kind'[g] = "spawn" /\ join'[g] = 0 /\ g \notin pending
            /\ \A x \in Workers : g \in ready_list[x] => x = v
    BY <1>1, <2>1, <2>2 DEF PlacesOK
  <2>6. QED
    BY <1>3, <1>4, <2>3, <2>4, <2>5 DEF PlacesOK
<1>16. OwnersOK'
  <2>1. ASSUME NEW v \in Workers, NEW g \in Frames, Runs(v, g)'
        PROVE  kind'[g] # "free" /\ \A x \in Workers : Runs(x, g)' => x = v
    <3>1. CASE g = child
      BY <1>2, <1>3, <1>4, <1>5, <2>1, <3>1
    <3>2. CASE g = loot
      <4>1. \A x \in Workers : x # victim => ~Runs(x, loot)
        BY <1>2, <1>3, <1>5
      <4>2. kind'[loot] # "free"
        BY <1>2, <1>3
      <4>3. QED
        BY <1>3, <1>4, <2>1, <3>2, <4>1, <4>2
    <3>3. CASE g # child /\ g # loot
      <4>1. Runs(v, g) /\ g \notin new
        BY <1>4, <1>5, <2>1, <3>3
      <4>2. kind[g] # "free" /\ \A x \in Workers : Runs(x, g) => x = v
        BY <1>1, <4>1 DEF OwnersOK
      <4>3. QED
        BY <1>2, <1>4, <3>3, <4>1, <4>2
    <3>4. QED
      BY <3>1, <3>2, <3>3
  <2>2. QED
    BY <2>1 DEF OwnersOK
<1>17. JoinOK'
  <2>1. ASSUME NEW g \in Frames, NEW c \in Frames
        PROVE  parent'[c] = g <=> parent[c] = g \/ (c \in new /\ parent'[c] = g)
    BY <1>2, <1>5, FrameNumbers
  <2>2. join' = DetachedJoin(first, upper, loot, child)
    BY DEF Grown
  <2>3. ASSUME NEW g \in upper
        PROVE  /\ Cardinality(Children(g)') = Cardinality(Children(g)) + 1
               /\ Cardinality(Children(g)) \in Nat
    <3>1. PICK c \in new : parent'[c] = g
      BY DEF Grown
    <3>2. c \in Frames /\ c \notin Children(g) /\ Children(g) \in SUBSET Frames
      BY <1>2, <1>3, <1>5, FrameNumbers DEF Children
    <3>3. \A d \in new : parent'[d] = g => d = c
      BY <1>2, <3>1
    <3>4. \A d \in Frames : parent'[d] = g <=> parent[d] = g \/ d = c
      BY <1>3, <2>1, <3>1, <3>2, <3>3
    <3>5. Children(g)' = Children(g) \cup {c}
      BY <3>2, <3>4 DEF Children
    <3>6. QED
      BY <3>2, <3>5, CardPlus
  <2>4. ASSUME NEW g \in Frames \ upper PROVE Children(g)' = Children(g)
    <3>1. \A d \in Frames : parent'[d] = g <=> parent[d] = g
      BY <1>2, <2>1
    <3>2. QED
      BY <3>1 DEF Children
  <2>5. join \in [Frames -> Nat]
    BY <1>1 DEF TypeOK
  <2>6. ASSUME NEW g \in Frames
        PROVE  join'[g] = Cardinality(Children(g)') + (IF Owned(g)' THEN 1 ELSE 0)
    <3>1. /\ join'[g] = join[g] - (IF g = first THEN 1 ELSE 0)
                                + (IF g \in upper THEN 1 ELSE 0)
                                + (IF g \in {loot, child} THEN 1 ELSE 0)
          /\ join[g] \in Nat
      BY <2>2, <2>5 DEF DetachedJoin
    <3>2. CASE g = child
      <4>1. g \notin upper /\ g # first /\ join[g] = 0 /\ Cardinality(Children(g)) = 0
        BY <1>2, <1>5, <3>2, FS_EmptySet
      <4>2. Cardinality(Children(g)') = 0
        BY <2>4, <4>1
      <4>3. join'[g] = 1
        BY <3>1, <3>2, <4>1
      <4>4. QED
        BY <1>10, <3>2, <4>2, <4>3
    <3>3. CASE g \in upper
      <4>1. /\ Cardinality(Children(g)') = Cardinality(Children(g)) + 1
            /\ Cardinality(Children(g)) \in Nat
        BY <2>3, <3>3
      <4>2. join[g] = Cardinality(Children(g)) + (IF g = first THEN 1 ELSE 0)
        BY <1>1, <1>2, <1>3, <1>5, <3>3 DEF JoinOK
      <4>3. g # child
        BY <1>2, <3>3
      <4>4. join'[g] = Cardinality(Children(g)) + 1 + (IF g = loot THEN 1 ELSE 0)
        BY <3>1, <3>3, <4>1, <4>2, <4>3
      <4>5. Owned(g)' <=> g = loot
        BY <1>10, <3>3
      <4>6. QED
        BY <4>1, <4>4, <4>5
    <3>4. CASE g # child /\ g \notin upper
      <4>1. g # first /\ g \notin new /\ g # loot
        BY <1>2, <3>4
      <4>2. join'[g] = join[g]
        BY <3>1, <3>4, <4>1
      <4>3. QED
        BY <1>1, <1>10, <2>4, <3>4, <4>1, <4>2 DEF JoinOK
    <3>5. QED
      BY <3>2, <3>3, <3>4
  <2>7. QED
    BY <2>6 DEF JoinOK
<1>18. QED
  BY <1>11, <1>12, <1>13, <1>14, <1>15, <1>16, <1>17

(* ... and the labels: the new frames are in the computation of the        *)
(* victim's.  If that frame was below no sync master then the victim is its*)
(* thread's own worker, and the loot gets it for a sync master.            *)
LEMMA StealStep ==
    ASSUME NEW root, NEW par, NEW trunk, Labelling(root, par, trunk), Inv(root, par, trunk),
           NEW w \in Workers, NEW victim \in Workers, Steal(w, victim)
    PROVE  \E root2, par2, trunk2 :
               Labelling(root2, par2, trunk2) /\ Inv(root2, par2, trunk2)'
<1>1. /\ Basic /\ TypeOK /\ WorkersOK /\ OwnersOK /\ PlacesOK /\ ShapeOK
      /\ RootsOK(root) /\ TeamsOK(root) /\ LabelsOK(par, trunk) /\ MastersOK(root, par, trunk)
  BY InvBasic
<1>2. TypeOK'
  BY <1>1, NextType DEF WorkerStep
<1>3. PICK first, loot, child, new, upper : Grown(w, victim, first, loot, child, new, upper)
  BY <1>1, StealGrows
<1>4. /\ new \subseteq Frames /\ first \in Frames \ new /\ first = frame_ff[victim]
      /\ upper = (new \cup {first}) \ {child} /\ child \in new /\ loot \in upper
      /\ \A c \in new : kind[c] = "free" /\ parent'[c] \in upper
      /\ kind'[child] = "spawn" /\ \A c \in new \ {child} : kind'[c] = "call"
      /\ \A c, d \in new : parent'[c] = parent'[d] => c = d
      /\ parent'[child] = loot
      /\ \A g \in Frames \ new : kind'[g] = kind[g] /\ parent'[g] = parent[g]
      /\ SetSyncMaster(victim, loot)
  BY <1>3 DEF Grown
<1>5. /\ next_frame_ff[w] = NoFrame /\ frame_ff[w] = NoFrame /\ held[w] = NoFrame
      /\ \A f \in Frames : ~Runs(w, f) /\ ~Returning(w, f)
      /\ ready_list[w] = {} /\ w # victim
      /\ team[victim] = home[root[first]] /\ team[victim] \in Users
      /\ w \in Users => team[victim] = w
      /\ first \in par => ~NeedsMaster(victim)
      /\ first \notin par =>
            NeedsMaster(victim) /\ victim = team[victim] /\ first \in trunk /\ ~unsynched[first]
  BY <1>4, ThiefOfWork
<1>6. /\ loot \in Frames /\ child \in Frames /\ loot # child /\ upper \subseteq Frames
      /\ kind[first] # "free" /\ Owned(first) /\ \A v \in Workers : Runs(v, first) => v = victim
      /\ unsynched'[loot] /\ \A g \in Frames \ {loot} : unsynched'[g] = unsynched[g]
      /\ home' = home /\ pending' = pending /\ ready_list' = ready_list
      /\ team'[w] = team[victim] /\ \A v \in Workers \ {w} : team'[v] = team[v]
  BY <1>1, <1>3, <1>5, StealRuns
<1>7. /\ \A v \in Workers, g \in Frames : Runs(v, g)' <=>
            (v # victim /\ Runs(v, g)) \/ (v = victim /\ g = child) \/ (v = w /\ g = loot)
      /\ \A v \in Workers, g \in Frames : Returning(v, g)' <=> Returning(v, g)
      /\ \A v \in Workers : pc'[v] = "unbound" <=> pc[v] = "unbound"
  BY <1>1, <1>3, <1>5, StealRuns
<1>8. \A c \in new : /\ parent[c] = NoFrame /\ ~unsynched[c] /\ sync_master[c] = Nobody
                     /\ c \notin pending
                     /\ \A v \in Workers : c \notin ready_list[v] /\ ~Runs(v, c)
                                           /\ ~Returning(v, c)
                     /\ \A g \in Frames : parent[g] # c
  BY <1>1, <1>3, <1>5, StealRuns
<1>9. /\ WorkersOK' /\ ShapeOK' /\ CallsOK' /\ Acyclic'
      /\ PlacesOK' /\ OwnersOK' /\ JoinOK'
  BY <1>1, <1>3, <1>5, StealTree
<1>10. /\ \A g \in Frames : parent[g] # NoFrame => parent[g] \in Frames \ new /\ g \notin new
       /\ NoFrame \notin Frames
  BY <1>1, <1>8, FrameNumbers DEF TypeOK
<1>11. root \in [Frames -> Frames] /\ par \in SUBSET Frames /\ trunk \in SUBSET Frames
  BY DEF Labelling
<1>12. \A c \in new : c \notin par /\ c \notin trunk
  BY <1>4, LabelFacts
<1> DEFINE root2 == [f \in Frames |-> IF f \in new THEN root[first] ELSE root[f]]
           par2 == par \cup (IF first \in par THEN new ELSE {loot, child})
           trunk2 == trunk \cup (IF first \in trunk THEN new \ {child} ELSE {})
<1>13. Labelling(root2, par2, trunk2)
  BY <1>4, <1>6, <1>11 DEF Labelling
<1>14. /\ \A g \in new : root2[g] = root[first]
       /\ \A g \in Frames \ new : root2[g] = root[g]
       /\ \A g \in upper \cup {child} : root2[g] = root[first]
  BY <1>4, <1>6
<1>15. \A g \in Frames : kind[g] # "free" =>
          /\ g \notin new /\ root[g] \in Frames \ new /\ kind[root[g]] = "initial"
          /\ root2[g] = root[g]
  <2>1. ASSUME NEW g \in Frames, kind[g] # "free"
        PROVE  g \notin new /\ root[g] \in Frames \ new /\ kind[root[g]] = "initial"
    <3>1. root[g] \in Frames /\ kind[root[g]] = "initial"
      BY <2>1, LabelFacts
    <3>2. QED
      BY <1>4, <2>1, <3>1
  <2>2. QED
    BY <1>14, <2>1
<1> HIDE DEF root2
<1>16. RootsOK(root2)'
  <2>1. ASSUME NEW g \in Frames
        PROVE  /\ root2[g] = IF parent'[g] = NoFrame THEN g ELSE root2[parent'[g]]
               /\ kind'[g] # "free" => kind'[root2[g]] = "initial"
    <3>1. CASE g \in new
      <4>1. parent'[g] \in upper /\ parent'[g] # NoFrame
        BY <1>4, <1>6, <1>10, <3>1
      <4>2. root[first] \in Frames \ new /\ kind[root[first]] = "initial"
        BY <1>4, <1>6, <1>15
      <4>3. QED
        BY <1>4, <1>14, <3>1, <4>1, <4>2
    <3>2. CASE g \notin new
      <4>1. /\ root2[g] = root[g] /\ parent'[g] = parent[g] /\ kind'[g] = kind[g]
            /\ root[g] = IF parent[g] = NoFrame THEN g ELSE root[parent[g]]
        BY <1>1, <1>4, <1>14, <3>2 DEF RootsOK
      <4>2. parent[g] # NoFrame => root2[parent[g]] = root[parent[g]]
        BY <1>10, <1>14
      <4>3. kind[g] # "free" => kind'[root[g]] = "initial"
        BY <1>4, <1>15
      <4>4. QED
        BY <4>1, <4>2, <4>3
    <3>3. QED
      BY <3>1, <3>2
  <2>2. \A g \in Frames : kind'[g] = "initial" => kind[g] = "initial"
    BY <1>4
  <2>3. \A g \in Frames : kind[g] = "initial" => home[g] \in Users /\ pc'[home[g]] # "unbound"
    BY <1>1, <1>7 DEF RootsOK, Workers
  <2>4. \A g, h \in Frames : kind[g] = "initial" /\ kind[h] = "initial" /\ home[g] = home[h] => g = h
    BY <1>1 DEF RootsOK
  <2>5. QED
    BY <1>6, <2>1, <2>2, <2>3, <2>4 DEF RootsOK
<1>17. TeamsOK(root2)'
  <2>1. ASSUME NEW u \in Users
        PROVE  team'[u] \in {u, Nobody} /\ (pc'[u] # "unbound" => team'[u] = u)
    <3>1. team[u] \in {u, Nobody} /\ (pc[u] # "unbound" => team[u] = u) /\ u \in Workers
      BY <1>1 DEF TeamsOK, Workers
    <3>2. QED
      BY <1>5, <1>6, <1>7, <3>1
  <2>2. ASSUME NEW v \in Workers, NEW g \in Frames, Runs(v, g)' \/ Returning(v, g)'
        PROVE  team'[v] = home[root2[g]]
    <3>1. CASE v = w /\ g = loot
      BY <1>4, <1>5, <1>6, <1>14, <3>1
    <3>2. CASE v = victim /\ g = child
      BY <1>4, <1>5, <1>6, <1>14, <3>2
    <3>3. CASE ~(v = w /\ g = loot) /\ ~(v = victim /\ g = child)
      <4>1. Runs(v, g) \/ Returning(v, g)
        BY <1>7, <2>2, <3>3
      <4>2. v # w /\ kind[g] # "free" /\ team[v] = home[root[g]]
        BY <1>1, <1>5, <4>1 DEF TeamsOK, OwnersOK, PlacesOK
      <4>3. QED
        BY <1>6, <1>15, <4>2
    <3>4. QED
      BY <3>1, <3>2, <3>3
  <2>3. ASSUME NEW v \in Workers, NEW g \in ready_list[v]
        PROVE  home[g] = home[root2[g]] /\ team'[v] = home[g]
    <3>1. g \in Frames /\ kind[g] = "spawn" /\ home[g] = home[root[g]] /\ team[v] = home[g]
      BY <2>3, ReadyFrame
    <3>2. v # w
      BY <1>5, <2>3
    <3>3. QED
      BY <1>6, <1>15, <3>1, <3>2
  <2>4. ASSUME NEW g \in pending PROVE home[g] = home[root2[g]]
    <3>1. g \in Frames /\ kind[g] = "spawn" /\ home[g] = home[root[g]]
      BY <1>1, <2>4 DEF TypeOK, PlacesOK, TeamsOK
    <3>2. QED
      BY <1>15, <3>1
  <2>5. QED
    BY <1>6, <2>1, <2>2, <2>3, <2>4 DEF TeamsOK
<1>18. \A g \in Frames : sync_master[g] # Nobody =>
          /\ sync_master[g] = home[root2[g]] /\ last_full_frame[sync_master[g]] = g
          /\ sync_master[g] \in Workers /\ unsynched'[g] /\ g \in trunk2 /\ g \in par
  <2>1. ASSUME NEW g \in Frames, sync_master[g] # Nobody
        PROVE  /\ sync_master[g] = home[root[g]] /\ last_full_frame[sync_master[g]] = g
               /\ sync_master[g] \in Workers /\ unsynched[g] /\ g \in trunk /\ g \in par
               /\ kind[g] # "free"
    BY <2>1, LabelFacts DEF Workers
  <2>2. QED
    BY <1>6, <1>15, <2>1
<1>19. ASSUME NEW g \in Frames
       PROVE  g \in trunk2 <=> kind'[g] = "initial" \/ (kind'[g] = "call" /\ parent'[g] \in trunk2)
  <2>1. CASE g \in new
    <3>1. kind'[g] # "initial" /\ (kind'[g] = "call" <=> g # child)
      BY <1>4, <2>1
    <3>2. parent'[g] \in trunk2 <=> first \in trunk
      BY <1>4, <1>12, <2>1
    <3>3. g \in trunk2 <=> first \in trunk /\ g # child
      BY <1>12, <2>1
    <3>4. QED
      BY <3>1, <3>2, <3>3
  <2>2. CASE g \notin new
    <3>1. kind'[g] = kind[g] /\ parent'[g] = parent[g] /\ (g \in trunk2 <=> g \in trunk)
      BY <1>4, <2>2
    <3>2. parent[g] \in trunk2 <=> parent[g] \in trunk
      BY <1>8
    <3>3. QED
      BY <1>1, <3>1, <3>2 DEF LabelsOK
  <2>3. QED
    BY <2>1, <2>2
(* The loot is below a sync master already, ...                            *)
<1>20. CASE first \in par
  <2>1. sync_master' = sync_master /\ last_full_frame' = last_full_frame /\ par2 = par \cup new
    BY <1>4, <1>5, <1>20 DEF SetSyncMaster
  <2>2. LabelsOK(par2, trunk2)'
    <3>1. ASSUME NEW g \in Frames
          PROVE  g \in par2 <=> sync_master[g] # Nobody \/ (parent'[g] # NoFrame /\ parent'[g] \in par2)
      <4>1. CASE g \in new
        <5>1. g \in par2 /\ parent'[g] \in upper /\ upper \subseteq par2
          BY <1>4, <1>20, <2>1, <4>1
        <5>2. QED
          BY <1>6, <1>10, <5>1
      <4>2. CASE g \notin new
        <5>1. parent'[g] = parent[g] /\ (g \in par2 <=> g \in par)
          BY <1>4, <2>1, <4>2
        <5>2. parent[g] \in par2 <=> parent[g] \in par
          BY <1>8, <2>1
        <5>3. QED
          BY <1>1, <5>1, <5>2 DEF LabelsOK
      <4>3. QED
        BY <4>1, <4>2
    <3>2. QED
      BY <1>19, <2>1, <3>1 DEF LabelsOK
  <2>3. MastersOK(root2, par2, trunk2)'
    <3>1. ASSUME NEW g \in Frames \ par2, kind'[g] # "free"
          PROVE  /\ g \in trunk2 /\ ~unsynched'[g]
                 /\ \A v \in Workers : Runs(v, g)' =>
                       v = home[root2[g]] /\ last_full_frame[v] = NoFrame
      <4>1. g \notin new /\ g # first /\ g \notin par /\ kind[g] # "free"
        BY <1>4, <1>20, <2>1, <3>1
      <4>2. g # loot /\ g # child
        BY <1>4, <4>1
      <4>3. /\ g \in trunk /\ ~unsynched[g]
            /\ \A v \in Workers : Runs(v, g) => v = home[root[g]] /\ last_full_frame[v] = NoFrame
        BY <1>1, <4>1 DEF MastersOK
      <4>4. QED
        BY <1>6, <1>7, <1>15, <4>1, <4>2, <4>3
    <3>2. ASSUME NEW g \in par2 PROVE last_full_frame[home[root2[g]]] # NoFrame
      <4>1. CASE g \in new
        BY <1>1, <1>14, <1>20, <4>1 DEF MastersOK
      <4>2. CASE g \notin new
        <5>1. g \in Frames /\ g \in par
          BY <1>11, <2>1, <3>2, <4>2
        <5>2. QED
          BY <1>1, <1>14, <4>2, <5>1 DEF MastersOK
      <4>3. QED
        BY <4>1, <4>2
    <3>3. \A v \in Workers : last_full_frame[v] # NoFrame =>
              v \in Users /\ sync_master[last_full_frame[v]] = v
      BY <1>1 DEF MastersOK
    <3>4. QED
      BY <1>6, <1>18, <2>1, <3>1, <3>2, <3>3 DEF MastersOK
  <2>4. Inv(root2, par2, trunk2)'
    BY <1>2, <1>9, <1>16, <1>17, <2>2, <2>3 DEF Inv
  <2>5. QED
    BY <1>13, <2>4
(* ... or gets the victim for one.                                         *)
<1>21. CASE first \notin par
  <2>1. /\ sync_master' = [sync_master EXCEPT ![loot] = victim]
        /\ last_full_frame' = [last_full_frame EXCEPT ![victim] = loot]
        /\ par2 = par \cup {loot, child}
        /\ victim \in Users /\ last_full_frame[victim] = NoFrame
    BY <1>4, <1>5, <1>21 DEF SetSyncMaster, NeedsMaster
  <2>2. /\ sync_master'[loot] = victim /\ last_full_frame'[victim] = loot
        /\ \A g \in Frames \ {loot} : sync_master'[g] = sync_master[g]
        /\ \A v \in Workers \ {victim} : last_full_frame'[v] = last_full_frame[v]
        /\ victim # Nobody /\ loot # NoFrame
    BY <1>1, <1>6, <1>10, <2>1, FramesAssumption DEF TypeOK
  <2>3. /\ sync_master[loot] = Nobody /\ loot \notin par
        /\ first \in trunk /\ ~unsynched[first]
    BY <1>4, <1>5, <1>8, <1>12, <1>21, LabelFacts
  <2>4. \A g \in Frames \ new : parent[g] # loot /\ parent[g] # child
    <3>1. \A g \in Frames : parent[g] # first
      BY <1>1, <1>4, <1>6, <2>3, NoChildren DEF Children
    <3>2. QED
      BY <1>4, <1>8, <3>1
  <2>5. LabelsOK(par2, trunk2)'
    <3>1. ASSUME NEW g \in Frames
          PROVE  g \in par2 <=> sync_master'[g] # Nobody \/ (parent'[g] # NoFrame /\ parent'[g] \in par2)
      <4>1. CASE g = loot
        BY <2>1, <2>2, <4>1
      <4>2. CASE g = child
        BY <1>4, <2>1, <2>2, <4>2
      <4>3. CASE g \in new /\ g # loot /\ g # child
        <5>1. g \notin par2 /\ sync_master'[g] = Nobody
          BY <1>4, <1>8, <1>12, <2>1, <2>2, <4>3
        <5>2. parent'[g] \in upper /\ parent'[g] # loot
          BY <1>4, <4>3
        <5>3. parent'[g] \notin par2
          BY <1>4, <1>12, <1>21, <2>1, <5>2
        <5>4. QED
          BY <5>1, <5>3
      <4>4. CASE g \notin new /\ g # loot
        <5>1. parent'[g] = parent[g] /\ sync_master'[g] = sync_master[g]
          BY <1>4, <2>2, <4>4
        <5>2. (g \in par2 <=> g \in par) /\ (parent[g] \in par2 <=> parent[g] \in par)
          BY <1>4, <2>1, <2>4, <4>4
        <5>3. QED
          BY <1>1, <5>1, <5>2 DEF LabelsOK
      <4>5. QED
        BY <1>4, <4>1, <4>2, <4>3, <4>4
    <3>2. QED
      BY <1>19, <3>1 DEF LabelsOK
  <2>6. MastersOK(root2, par2, trunk2)'
    <3>1. ASSUME NEW g \in Frames, sync_master'[g] # Nobody
          PROVE  /\ sync_master'[g] = home[root2[g]] /\ last_full_frame'[sync_master'[g]] = g
                 /\ unsynched'[g] /\ g \in trunk2
      <4>1. CASE g = loot
        <5>1. loot \in trunk2
          BY <1>4, <2>3
        <5>2. home[root2[loot]] = victim
          BY <1>4, <1>5, <1>14, <1>21
        <5>3. QED
          BY <1>6, <2>2, <4>1, <5>1, <5>2
      <4>2. CASE g # loot
        <5>1. sync_master'[g] = sync_master[g] /\ sync_master[g] # victim
          BY <1>10, <1>18, <2>1, <2>2, <3>1, <4>2
        <5>2. QED
          BY <1>18, <2>2, <3>1, <5>1
      <4>3. QED
        BY <4>1, <4>2
    <3>2. ASSUME NEW v \in Workers, last_full_frame'[v] # NoFrame
          PROVE  v \in Users /\ sync_master'[last_full_frame'[v]] = v
      <4>1. CASE v = victim
        BY <2>1, <2>2, <4>1
      <4>2. CASE v # victim
        <5>1. /\ last_full_frame'[v] = last_full_frame[v] /\ last_full_frame[v] \in Frames
              /\ v \in Users /\ sync_master[last_full_frame[v]] = v
          BY <1>1, <2>2, <3>2, <4>2 DEF MastersOK, TypeOK
        <5>2. last_full_frame[v] # loot
          BY <2>3, <5>1, FramesAssumption
        <5>3. QED
          BY <2>2, <5>1, <5>2
      <4>3. QED
        BY <4>1, <4>2
    <3>3. ASSUME NEW g \in Frames \ par2, kind'[g] # "free"
          PROVE  /\ g \in trunk2 /\ ~unsynched'[g]
                 /\ \A v \in Workers : Runs(v, g)' =>
                       v = home[root2[g]] /\ last_full_frame'[v] = NoFrame
      <4>1. g # loot /\ g # child /\ g \notin par
        BY <2>1, <3>3
      <4>2. \A v \in Workers : Runs(v, g)' => v # victim /\ Runs(v, g)
        BY <1>7, <4>1
      <4>3. CASE g \in new \cup {first}
        <5>1. g \in trunk2 /\ ~unsynched'[g]
          BY <1>6, <1>8, <2>3, <4>1, <4>3
        <5>2. \A v \in Workers : ~Runs(v, g)'
          BY <1>6, <1>8, <4>2, <4>3
        <5>3. QED
          BY <5>1, <5>2
      <4>4. CASE g \notin new \cup {first}
        <5>1. kind[g] # "free"
          BY <1>4, <3>3, <4>4
        <5>2. /\ g \in trunk /\ ~unsynched[g]
              /\ \A v \in Workers : Runs(v, g) => v = home[root[g]] /\ last_full_frame[v] = NoFrame
          BY <1>1, <4>1, <5>1 DEF MastersOK
        <5>3. QED
          BY <1>6, <1>15, <2>2, <4>1, <4>2, <5>1, <5>2
      <4>5. QED
        BY <4>3, <4>4
    <3>4. ASSUME NEW g \in par2 PROVE last_full_frame'[home[root2[g]]] # NoFrame
      <4>1. CASE g \in {loot, child}
        <5>1. home[root2[g]] = victim
          BY <1>4, <1>5, <1>14, <1>21, <4>1
        <5>2. QED
          BY <2>2, <5>1
      <4>2. CASE g \notin {loot, child}
        <5>1. g \in Frames /\ g \in par /\ g \notin new
          BY <1>11, <1>12, <2>1, <3>4, <4>2
        <5>2. last_full_frame[home[root[g]]] # NoFrame /\ home[root[g]] \in Workers
          BY <1>1, <5>1, LabelFacts DEF MastersOK, Workers
        <5>3. QED
          BY <1>14, <2>1, <2>2, <5>1, <5>2
      <4>3. QED
        BY <4>1, <4>2
    <3>5. QED
      BY <1>6, <3>1, <3>2, <3>3, <3>4 DEF MastersOK
  <2>7. Inv(root2, par2, trunk2)'
    BY <1>2, <1>9, <1>16, <1>17, <2>5, <2>6 DEF Inv
  <2>8. QED
    BY <1>13, <2>7
<1>22. QED
  BY <1>20, <1>21

-----------------------------------------------------------------------------
(* At first there is no frame, and a system worker looks for one.          *)
LEMMA InitInv == Init => IInv
<1> SUFFICES ASSUME Init PROVE IInv
  OBVIOUS
<1> DEFINE root == [f \in Frames |-> f]
<1>1. Labelling(root, {}, {})
  BY DEF Labelling
<1>2. /\ kind = [f \in Frames |-> "free"] /\ parent = [f \in Frames |-> NoFrame]
      /\ kids = [f \in Frames |-> {}] /\ join = [f \in Frames |-> 0]
      /\ unsynched = [f \in Frames |-> FALSE]
      /\ sync_master = [f \in Frames |-> Nobody] /\ home = [f \in Frames |-> Nobody]
      /\ pending = {} /\ ready_list = [v \in Workers |-> {}]
      /\ pc = [v \in Workers |-> IF v \in Users THEN "unbound" ELSE "search"]
      /\ frame_ff = [v \in Workers |-> NoFrame] /\ next_frame_ff = [v \in Workers |-> NoFrame]
      /\ last_full_frame = [v \in Workers |-> NoFrame] /\ team = [v \in Workers |-> Nobody]
      /\ held = [v \in Workers |-> NoFrame]
      /\ deque = [v \in Workers |-> <<>>] /\ calls = [v \in Workers |-> 0]
  BY DEF Init
<1>3. TypeOK
  <2>1. <<>> \in Seq(1..MaxCalls)
    OBVIOUS
  <2>2. 0 \in 0..MaxCalls
    BY FramesAssumption
  <2>3. QED
    BY <1>2, <2>1, <2>2 DEF TypeOK
<1>4. \A w \in Workers, f \in Frames : ~Runs(w, f) /\ ~Returning(w, f)
  BY <1>2, FrameNumbers DEF Runs, Returning
<1>5. WorkersOK
  <2>1. Len(<<>>) = 0
    OBVIOUS
  <2>2. QED
    BY <1>2, <2>1 DEF WorkersOK, WorkerOK, Workers
<1>6. ShapeOK /\ CallsOK /\ PlacesOK /\ OwnersOK
  BY <1>2, <1>4 DEF ShapeOK, CallsOK, PlacesOK, OwnersOK
<1>7. Acyclic
  BY <1>2, FrameNumbers DEF Acyclic
<1>8. JoinOK
  <2>1. ASSUME NEW f \in Frames PROVE Children(f) = {} /\ ~Owned(f)
    BY <1>2, <1>4, FrameNumbers DEF Children, Owned
  <2>2. ASSUME NEW f \in Frames PROVE Cardinality(Children(f)) = 0 /\ join[f] = 0
    BY <1>2, <2>1, FS_EmptySet
  <2>3. QED
    BY <2>1, <2>2 DEF JoinOK
<1>9. RootsOK(root)
  BY <1>2 DEF RootsOK
<1>10. TeamsOK(root)
  BY <1>2, <1>4 DEF TeamsOK, Workers
<1>11. LabelsOK({}, {}) /\ MastersOK(root, {}, {})
  BY <1>2, <1>4 DEF LabelsOK, MastersOK
<1>12. Inv(root, {}, {})
  BY <1>3, <1>5, <1>6, <1>7, <1>8, <1>9, <1>10, <1>11 DEF Inv
<1>13. QED
  BY <1>1, <1>12 DEF IInv, Labelling

(* The invariant does not depend on what is no part of the state.          *)
LEMMA StutterInv ==
    ASSUME NEW root, NEW par, NEW trunk, Labelling(root, par, trunk), Inv(root, par, trunk),
           UNCHANGED vars
    PROVE  Inv(root, par, trunk)'
<1>1. /\ TypeOK /\ WorkersOK
      /\ UNCHANGED <<tree, ready_list, last_full_frame, ownership, pc, team, stack>>
  BY InvBasic DEF vars
<1>2. TypeOK' /\ WorkersOK'
  BY <1>1 DEF TypeOK, WorkersOK, WorkerOK, tree, ownership, stack
<1>3. \A v \in Workers, f \in Frames :
          (Runs(v, f)' <=> Runs(v, f)) /\ (Returning(v, f)' <=> Returning(v, f))
  BY <1>1 DEF Runs, Returning, ownership
<1>4. QED
  BY <1>1, <1>2, <1>3, Quiet

(* Every operation keeps the invariant, with labels for the frames it      *)
(* makes and without those of the frame that is gone.                      *)
LEMMA NextInv == Steady /\ IInv /\ [Next]_vars => IInv'
<1> SUFFICES ASSUME Steady, IInv, [Next]_vars PROVE IInv'
  OBVIOUS
<1>1. PICK root, par, trunk : Labelling(root, par, trunk) /\ Inv(root, par, trunk)
  BY DEF IInv, Labelling
<1>2. SUFFICES \E root2, par2, trunk2 :
                   Labelling(root2, par2, trunk2) /\ Inv(root2, par2, trunk2)'
  BY DEF IInv, Labelling
<1>3. CASE UNCHANGED vars
  BY <1>1, <1>3, StutterInv
<1>4. CASE Next
  <2>1. PICK w \in Workers : WorkerStep(w)
    BY <1>4 DEF Next
  <2>2. CASE Bind(w)
    BY <1>1, <2>2, BindStep
  <2>3. CASE ReturnFromInitial(w)
    BY <1>1, <2>3, ReturnFromInitialStep
  <2>4. CASE Call(w) \/ Return(w) \/ Spawn(w) \/ ReturnAttached(w)
    BY <1>1, <2>4, UserCode
  <2>5. CASE SpawnPending(w)
    BY <1>1, <2>5, SpawnPendingStep
  <2>6. CASE Release(w)
    BY <1>1, <2>6, ReleaseStep
  <2>7. CASE Sync(w) \/ Resume(w) \/ FindQueueEmpty(w) \/ NothingOwn(w) \/ StealNothing(w)
    BY <1>1, <2>7, SchedulerMoves
  <2>8. CASE DoSync(w)
    BY <1>1, <2>8, DoSyncStep
  <2>9. CASE LoseReturn(w)
    BY <1>1, <2>9, LoseReturnStep
  <2>10. CASE DoReturnFromSpawn(w)
    BY <1>1, <2>10, DoReturnFromSpawnStep
  <2>11. CASE ReturnFromCall(w)
    BY <1>1, <2>11, ReturnFromCallStep
  <2>12. CASE StealOwn(w)
    BY <1>1, <2>12, StealReadyStep
  <2>13. ASSUME NEW victim \in Workers, StealReadyFrom(w, victim)
         PROVE  \E root2, par2, trunk2 :
                    Labelling(root2, par2, trunk2) /\ Inv(root2, par2, trunk2)'
    BY <1>1, <2>13, StealReadyStep
  <2>14. ASSUME NEW victim \in Workers, Steal(w, victim)
         PROVE  \E root2, par2, trunk2 :
                    Labelling(root2, par2, trunk2) /\ Inv(root2, par2, trunk2)'
    BY <1>1, <2>14, StealStep
  <2>15. QED
    BY <2>1, <2>2, <2>3, <2>4, <2>5, <2>6, <2>7, <2>8, <2>9, <2>10, <2>11, <2>12, <2>13, <2>14
       DEF WorkerStep
<1>5. QED
  BY <1>3, <1>4

-----------------------------------------------------------------------------
(* What follows from the invariant.                                        *)
LEMMA SpecInv == ASSUME Steady PROVE Spec => []IInv
<1>1. Init => IInv
  BY InitInv
<1>2. IInv /\ [Next]_vars => IInv'
  BY NextInv
<1>3. QED
  BY <1>1, <1>2, PTL DEF Spec

(* A frame has one owner or none.                                          *)
LEMMA OwnerCount ==
    ASSUME OwnersOK, NEW f \in Frames
    PROVE  Cardinality({w \in Workers : Runs(w, f)}) = (IF Owned(f) THEN 1 ELSE 0)
<1>1. CASE Owned(f)
  <2>1. PICK w \in Workers : Runs(w, f)
    BY <1>1 DEF Owned
  <2>2. {v \in Workers : Runs(v, f)} = {w}
    BY <2>1 DEF OwnersOK
  <2>3. QED
    BY <1>1, <2>2, FS_Singleton
<1>2. CASE ~Owned(f)
  <2>1. {v \in Workers : Runs(v, f)} = {}
    BY <1>2 DEF Owned
  <2>2. QED
    BY <1>2, <2>1, FS_EmptySet
<1>3. QED
  BY <1>1, <1>2

(* Counters: the children counted are those alive, listed or not.          *)
LEMMA CountsFollow == IInv => JoinCountsExact
<1> SUFFICES ASSUME IInv, NEW f \in Live
             PROVE  join[f] = Cardinality({w \in Workers : Runs(w, f)})
                              + Cardinality({c \in Live : parent[c] = f})
  BY DEF JoinCountsExact
<1>1. PICK root, par, trunk : Inv(root, par, trunk)
  BY DEF IInv
<1>2. ShapeOK /\ OwnersOK /\ JoinOK /\ f \in Frames
  BY <1>1, InvBasic DEF Live
<1>3. {c \in Live : parent[c] = f} = Children(f)
  <2>1. ASSUME NEW c \in Frames, parent[c] = f PROVE kind[c] # "free"
    BY <1>2, <2>1, FrameNumbers DEF ShapeOK
  <2>2. QED
    BY <2>1 DEF Live, Free, Children
<1>4. /\ Cardinality(Children(f)) \in Nat
      /\ join[f] = Cardinality(Children(f)) + (IF Owned(f) THEN 1 ELSE 0)
  BY <1>2, FramesFinite, FS_CardinalityType DEF Children, JoinOK
<1>5. Cardinality({w \in Workers : Runs(w, f)}) = (IF Owned(f) THEN 1 ELSE 0)
  BY <1>2, OwnerCount
<1>6. QED
  BY <1>3, <1>4, <1>5

(* Owners: whoever runs or holds a frame is the only one.                  *)
LEMMA OwnersFollow == IInv => OneOwner
<1> SUFFICES ASSUME IInv PROVE OneOwner
  OBVIOUS
<1>1. PICK root, par, trunk : Inv(root, par, trunk)
  BY DEF IInv
<1>2. OwnersOK /\ PlacesOK /\ JoinOK
  BY <1>1, InvBasic
<1>3. ASSUME NEW f \in Frames PROVE Cardinality({w \in Workers : Runs(w, f)}) <= 1
  BY <1>2, OwnerCount
<1>4. ASSUME NEW w \in Workers, NEW f \in Frames, Runs(w, f)
      PROVE  kind[f] # "free" /\ f \notin pending /\ \A v \in Workers : f \notin ready_list[v]
  <2>1. Owned(f) /\ kind[f] # "free"
    BY <1>2, <1>4 DEF Owned, OwnersOK
  <2>2. join[f] # 0
    BY <1>2, <2>1, JoinZero
  <2>3. QED
    BY <1>2, <2>1, <2>2 DEF PlacesOK
<1>5. QED
  BY <1>3, <1>4 DEF OneOwner

(* Sync masters: the thread they are set to runs no other frame.           *)
LEMMA MasterFollows == IInv => MasterIsFree
<1> SUFFICES ASSUME IInv, NEW w \in Workers, NEW f \in Live,
                    AboutToCross(w, f), sync_master[f] # Nobody
             PROVE  LET u == sync_master[f]
                    IN  /\ team[w] = u /\ last_full_frame[u] = f
                        /\ frame_ff[u] = NoFrame /\ next_frame_ff[u] = NoFrame
  BY DEF MasterIsFree
<1>1. PICK root, par, trunk : Labelling(root, par, trunk) /\ Inv(root, par, trunk)
  BY DEF IInv, Labelling
<1>2. f \in Frames
  BY DEF Live
<1>3. QED
  BY <1>1, <1>2, MasterFree

(* The labels are what the recursive functions compute: in a tree there is *)
(* only one function for which the equation holds.                         *)
LEMMA RootsFollow ==
    ASSUME NEW root \in [Frames -> Frames], Acyclic, TypeOK, RootsOK(root)
    PROVE  \A f \in Frames : RootOf[f] = root[f]
<1> DEFINE Eq(r) == r = [f \in Frames |-> IF parent[f] = NoFrame THEN f ELSE r[parent[f]]]
<1>1. Eq(root)
  BY DEF RootsOK
<1>2. RootOf = CHOOSE r : Eq(r)
  BY DEF RootOf
<1>3. Eq(RootOf)
  <2> HIDE DEF Eq
  <2>1. QED
    BY <1>1, <1>2
<1>4. \A f \in Frames : RootOf[f] = IF parent[f] = NoFrame THEN f ELSE RootOf[parent[f]]
  BY <1>3
<1> DEFINE G == {f \in Frames : RootOf[f] # root[f]}
<1>5. ASSUME NEW g \in G, parent[g] \notin G PROVE FALSE
  <2>1. /\ g \in Frames /\ RootOf[g] # root[g]
        /\ parent[g] # NoFrame => parent[g] \in Frames
    BY <1>5 DEF TypeOK
  <2>2. parent[g] # NoFrame => RootOf[parent[g]] = root[parent[g]]
    BY <1>5, <2>1
  <2>3. QED
    BY <1>4, <2>1, <2>2 DEF RootsOK
<1>6. G = {}
  <2>1. G \in SUBSET Frames
    OBVIOUS
  <2>2. QED
    BY <1>5, <2>1 DEF Acyclic
<1>7. QED
  BY <1>6

(* The label trunk is what FullFrames!Trunk computes.                      *)
LEMMA TrunkFollows ==
    ASSUME NEW par, NEW trunk \in SUBSET Frames, Acyclic, TypeOK, ShapeOK, LabelsOK(par, trunk)
    PROVE  \A f \in Frames : Trunk[f] <=> f \in trunk
<1> DEFINE Up(r, f) == kind[f] = "initial" \/ (kind[f] = "call" /\ parent[f] # NoFrame /\ r[parent[f]])
           Eq(r) == r = [f \in Frames |-> Up(r, f)]
           known == [f \in Frames |-> f \in trunk]
<1>1. Eq(known)
  <2>1. ASSUME NEW f \in Frames PROVE (f \in trunk) = Up(known, f)
    <3>1. parent[f] # NoFrame => parent[f] \in Frames
      BY DEF TypeOK
    <3>2. kind[f] = "call" => parent[f] # NoFrame
      BY DEF ShapeOK
    <3>3. f \in trunk <=> kind[f] = "initial" \/ (kind[f] = "call" /\ parent[f] \in trunk)
      BY DEF LabelsOK
    <3>4. parent[f] # NoFrame => (known[parent[f]] <=> parent[f] \in trunk)
      BY <3>1
    <3>5. QED
      BY <3>2, <3>3, <3>4
  <2>2. QED
    BY <2>1
<1>2. Trunk = CHOOSE r : Eq(r)
  BY DEF Trunk
<1>3. Eq(Trunk)
  <2> HIDE DEF Eq, known
  <2>1. QED
    BY <1>1, <1>2
<1>4. \A f \in Frames : Trunk[f] = Up(Trunk, f)
  BY <1>3
<1> DEFINE G == {f \in Frames : ~(Trunk[f] <=> f \in trunk)}
<1>5. ASSUME NEW g \in G, parent[g] \notin G PROVE FALSE
  <2>1. /\ g \in Frames /\ ~(Trunk[g] <=> g \in trunk)
        /\ parent[g] # NoFrame => parent[g] \in Frames
    BY <1>5 DEF TypeOK
  <2>2. parent[g] # NoFrame => (Trunk[parent[g]] <=> parent[g] \in trunk)
    BY <1>5, <2>1
  <2>3. kind[g] = "call" => parent[g] # NoFrame
    BY <2>1 DEF ShapeOK
  <2>4. g \in trunk <=> kind[g] = "initial" \/ (kind[g] = "call" /\ parent[g] \in trunk)
    BY <2>1 DEF LabelsOK
  <2>5. Trunk[g] = Up(Trunk, g)
    BY <1>4, <2>1
  <2>6. QED
    BY <2>1, <2>2, <2>3, <2>4, <2>5
<1>6. G = {}
  <2>1. G \in SUBSET Frames
    OBVIOUS
  <2>2. QED
    BY <1>5, <2>1 DEF Acyclic
<1>7. QED
  BY <1>6

(* Teams: by the root of the frame a worker runs.                          *)
LEMMA TeamsFollow == IInv => TeamIsThreadOfWork
<1> SUFFICES ASSUME IInv PROVE TeamIsThreadOfWork
  OBVIOUS
<1>1. PICK root, par, trunk : Labelling(root, par, trunk) /\ Inv(root, par, trunk)
  BY DEF IInv, Labelling
<1>2. TypeOK /\ TeamsOK(root) /\ \A f \in Frames : RootOf[f] = root[f]
  BY <1>1, InvBasic, RootsFollow DEF Labelling
<1>3. \A w \in Workers, f \in Live : Runs(w, f) => team[w] = home[RootOf[f]]
  BY <1>2 DEF TeamsOK, Live
<1>4. ASSUME NEW w \in Workers, NEW f \in ready_list[w] PROVE home[f] = home[RootOf[f]]
  <2>1. f \in Frames
    BY <1>2 DEF TypeOK
  <2>2. QED
    BY <1>2, <1>4, <2>1 DEF TeamsOK
<1>5. QED
  BY <1>3, <1>4 DEF TeamIsThreadOfWork

(* A frame below one with a sync master is below a frame outside of any    *)
(* spawn that has a sync to cross.                                         *)
LEMMA SerialFollows == IInv => SerialPartOnItsThread
<1> SUFFICES ASSUME IInv, NEW w \in Workers, frame_ff[w] # NoFrame,
                    NEW f, f = frame_ff[w], Trunk[f],
                    \A g \in Live : Trunk[g] /\ RootOf[g] = RootOf[f] => ~unsynched[g]
             PROVE  w = home[RootOf[f]]
  BY DEF SerialPartOnItsThread
<1>1. PICK root, par, trunk : Labelling(root, par, trunk) /\ Inv(root, par, trunk)
  BY DEF IInv, Labelling
<1>2. /\ TypeOK /\ Acyclic /\ LabelsOK(par, trunk) /\ MastersOK(root, par, trunk)
      /\ OwnersOK /\ par \in SUBSET Frames
      /\ \A g \in Frames : RootOf[g] = root[g] /\ (Trunk[g] <=> g \in trunk)
  BY <1>1, InvBasic, RootsFollow, TrunkFollows DEF Labelling
<1>3. f \in Frames /\ Runs(w, f) /\ kind[f] # "free"
  BY <1>2 DEF TypeOK, Runs, OwnersOK
<1>4. ASSUME f \in par PROVE FALSE
  <2> DEFINE G == {g \in par : root[g] = root[f]}
  <2>1. G # {} /\ G \in SUBSET Frames
    BY <1>2, <1>4
  <2>2. PICK g \in G : parent[g] \notin G
    BY <1>2, <2>1 DEF Acyclic
  <2>3. g \in Frames /\ g \in par /\ root[g] = root[f]
    BY <2>1, <2>2
  <2>4. sync_master[g] # Nobody
    <3>1. parent[g] # NoFrame => root[parent[g]] = root[f]
      BY <1>1, <2>3, LabelFacts
    <3>2. ~(parent[g] # NoFrame /\ parent[g] \in par)
      BY <2>2, <3>1
    <3>3. QED
      BY <1>2, <2>3, <3>2 DEF LabelsOK
  <2>5. g \in trunk /\ unsynched[g] /\ kind[g] # "free"
    BY <1>1, <2>3, <2>4, LabelFacts
  <2>6. g \in Live /\ Trunk[g] /\ RootOf[g] = RootOf[f]
    BY <1>2, <1>3, <2>3, <2>5 DEF Live, Free
  <2>7. QED
    BY <2>5, <2>6
<1>5. w = home[root[f]]
  BY <1>2, <1>3, <1>4 DEF MastersOK
<1>6. QED
  BY <1>2, <1>3, <1>5

(* Only the last reference crosses a sync.                                 *)
LEMMA CrossingStep ==
    ASSUME IInv, [Next]_vars, NEW f \in Frames, unsynched[f], ~unsynched'[f],
           NEW c \in Frames, kind'[c] # "free"
    PROVE  parent'[c] # f
<1>1. PICK root, par, trunk : Inv(root, par, trunk)
  BY DEF IInv
<1>2. Basic /\ TypeOK /\ JoinOK
  BY <1>1, InvBasic
<1>3. ~UNCHANGED vars
  BY DEF vars, tree
<1>4. PICK w \in Workers : WorkerStep(w)
  BY <1>3 DEF Next
<1>5. unsynched' # unsynched
  OBVIOUS
<1>6. ~SpawnPending(w)
  <2>1. ASSUME NEW g, unsynched' = [unsynched EXCEPT ![g] = TRUE] PROVE FALSE
    BY <1>2, <2>1 DEF TypeOK
  <2>2. QED
    BY <2>1 DEF SpawnPending
<1>7. ASSUME NEW victim \in Workers PROVE ~Steal(w, victim)
  <2>1. ASSUME NEW g, unsynched' = [unsynched EXCEPT ![g] = TRUE] PROVE FALSE
    BY <1>2, <2>1 DEF TypeOK
  <2>2. ASSUME Steal(w, victim) PROVE FALSE
    BY <1>2, <2>1, <2>2, StealGrows DEF Grown
  <2>3. QED
    BY <2>2
<1>8. ASSUME NEW m \in Frames, ProvablyGoodSteal(w, m)
      PROVE  m = f /\ join[f] = 1
  <2>1. LastReference(m) /\ unsynched' = [unsynched EXCEPT ![m] = FALSE]
    BY <1>5, <1>8 DEF ProvablyGoodSteal
  <2>2. QED
    BY <1>2, <2>1 DEF TypeOK, LastReference
<1>9. CASE DoSync(w)
  <2>1. pc[w] = "sync" /\ ProvablyGoodSteal(w, held[w]) /\ parent' = parent
    BY <1>9 DEF DoSync, Goto
  <2>2. held[w] \in Frames /\ Owned(held[w])
    BY <1>2, <2>1, HeldFrame
  <2>3. Children(f) = {}
    BY <1>2, <1>8, <2>1, <2>2, JoinOne
  <2>4. QED
    BY <2>1, <2>3 DEF Children
<1>10. CASE DoReturnFromSpawn(w)
  <2>1. /\ pc[w] = "return" /\ ProvablyGoodSteal(w, parent[held[w]])
        /\ kind' = [kind EXCEPT ![held[w]] = "free"]
        /\ parent' = [parent EXCEPT ![held[w]] = NoFrame]
    BY <1>10 DEF DoReturnFromSpawn, Goto, Destroy
  <2>2. held[w] \in Frames /\ parent[held[w]] \in Frames /\ held[w] \in Children(parent[held[w]])
    BY <1>2, <2>1, HeldFrame
  <2>3. parent[held[w]] = f /\ join[f] = 1
    BY <1>8, <2>1, <2>2
  <2>4. Children(f) = {held[w]}
    BY <1>2, <2>2, <2>3, JoinOne
  <2>5. c # held[w]
    BY <1>2, <2>1, <2>2 DEF TypeOK
  <2>6. parent'[c] = parent[c] /\ parent[c] # f
    BY <1>2, <2>1, <2>2, <2>4, <2>5 DEF TypeOK, Children
  <2>7. QED
    BY <2>6
<1>11. QED
  <2>1. CASE \/ Bind(w) \/ ReturnFromInitial(w)
             \/ Call(w) \/ Return(w) \/ Spawn(w) \/ ReturnAttached(w) \/ Release(w)
             \/ Sync(w) \/ LoseReturn(w) \/ ReturnFromCall(w)
             \/ Resume(w) \/ FindQueueEmpty(w) \/ NothingOwn(w) \/ StealNothing(w)
    BY <1>5, <2>1 DEF Bind, ReturnFromInitial, Call, Return, Spawn, ReturnAttached, Release,
       Sync, LoseReturn, ReturnFromCall, Resume, FindQueueEmpty, NothingOwn, StealNothing, tree
  <2>2. ASSUME NEW victim \in Workers, StealOwn(w) \/ StealReadyFrom(w, victim) PROVE FALSE
    BY <1>5, <2>2 DEF StealOwn, StealReadyFrom, StealReady
  <2>3. QED
    BY <1>4, <1>6, <1>7, <1>9, <1>10, <2>1, <2>2 DEF WorkerStep

-----------------------------------------------------------------------------
(* The types: a counter is never lowered below zero, a worker is told to   *)
(* run a frame that exists, and what leaves a deque was on it.             *)
THEOREM TypeCorrect == ASSUME Steady PROVE Spec => []TypeOK
<1>1. IInv => TypeOK
  BY DEF IInv, Inv
<1>2. QED
  BY <1>1, SpecInv, PTL

(* JoinCountsExact: whatever is stolen, spawned pending, returned, resumed *)
(* or given up, in whatever order, the counter of a frame is its children  *)
(* and the worker that runs it (scheduler.c:238-249).                      *)
THEOREM JoinCounts == ASSUME Steady PROVE Spec => []JoinCountsExact
BY CountsFollow, SpecInv, PTL

(* OneOwner: "ownership of ff" is handed on and never shared               *)
(* (scheduler.c:1627), although thieves, a ready list and the last child to*)
(* return all hand frames out.                                             *)
THEOREM Ownership == ASSUME Steady PROVE Spec => []OneOwner
BY OwnersFollow, SpecInv, PTL

(* MasterIsFree: when the last reference sends a frame back to its sync    *)
(* master, that worker has nothing to run, so the push overwrites no frame *)
(* (scheduler.c:1600, setup_for_execution's next_frame_ff).                *)
THEOREM MastersAreFree == ASSUME Steady PROVE Spec => []MasterIsFree
BY MasterFollows, SpecInv, PTL

(* TeamIsThreadOfWork: thieves of thieves are on the team of the thread    *)
(* whose work they do, as provably_good_steal relies on (scheduler.c:1608).*)
THEOREM TeamsFollowWork == ASSUME Steady PROVE Spec => []TeamIsThreadOfWork
BY TeamsFollow, SpecInv, PTL

(* SerialPartOnItsThread: a thread gets the frames outside of its spawns   *)
(* back at their syncs, and so returns from Cilk itself                    *)
(* (scheduler.c:465-494).                                                  *)
THEOREM SerialPart == ASSUME Steady PROVE Spec => []SerialPartOnItsThread
BY SerialFollows, SpecInv, PTL

(* UsersKeepTheirTeam: "user workers are not permitted to change teams"    *)
(* (scheduler.c:1396), as long as fibers do not run out.                   *)
THEOREM UsersStay == ASSUME Steady PROVE Spec => []UsersKeepTheirTeam
<1>1. IInv => UsersKeepTheirTeam
  BY DEF IInv, Inv, TeamsOK, UsersKeepTheirTeam
<1>2. QED
  BY <1>1, SpecInv, PTL

(* SyncsWait: do_sync and do_return_from_spawn resume a frame after its    *)
(* sync only when no child of it is alive.                                 *)
THEOREM SyncsCross == ASSUME Steady PROVE Spec => SyncsWait
<1>1. IInv /\ [Next]_vars =>
          [\A f \in Frames : unsynched[f] /\ ~unsynched'[f] =>
              \A c \in Frames : kind'[c] # "free" => parent'[c] # f]_vars
  BY CrossingStep
<1>2. QED
  BY <1>1, SpecInv, PTL DEF Spec, SyncsWait

=============================================================================

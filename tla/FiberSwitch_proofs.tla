------------------------- MODULE FiberSwitch_proofs -------------------------
(***************************************************************************)
(* Proofs about FiberSwitch: each stack has one user, is not lost, and is  *)
(* there for who needs it, for any number of workers, fibers and frames;   *)
(* and about StackWatch: who watches a stack knows which thread is on it.  *)
(***************************************************************************)
EXTENDS StackWatch, FiniteSetTheorems, SequenceTheorems, WellFoundedInduction, TLAPS

(* A set of numbers that is not empty has a least element.                 *)
LEMMA LeastNumber ==
    ASSUME NEW D \in SUBSET Nat, D # {}
    PROVE  \E n \in D : \A m \in D : n <= m
<1> DEFINE R == OpToRel(<, Nat)
<1>1. IsWellFoundedOn(R, Nat)
    BY NatLessThanWellFounded
<1>2. \A x, y \in Nat : x < y => <<x, y>> \in R
    BY DEF OpToRel
<1> HIDE DEF R
<1>3. PICK n \in D : \A m \in D : ~(<<m, n>> \in R)
    BY <1>1, WFMin
<1>4. ASSUME NEW m \in D PROVE n <= m
    <2>1. m \in Nat /\ n \in Nat
        OBVIOUS
    <2>2. ~(m < n)
        BY <2>1, <1>2, <1>3
    <2> QED
        BY <2>1, <2>2
<1> QED
    BY <1>4

-----------------------------------------------------------------------------
(* The steps of a worker in user code, of one that leaves it, and all.     *)
UserSteps == {"started", "resumed", "user"}
Leavings == {"returning", "syncing"}
Steps == UserSteps \cup Leavings \cup OnScheduler \cup {"out", "gone"}
Root == {f \in frames : parent[f] = NullFrame}
Children(f) == {c \in frames : parent[c] = f}
Held(f) == \E w \in Workers : frame_ff[w] = f \/ next_frame_ff[w] = f
Returned(f) == \E w \in Workers : frame_ff[w] = f /\ step[w] \in {"returning", "do_return"}
SomeFiber == Heap \cup {Thread, None}

SwitchTypes ==
    /\ cur \in [Workers -> Fibers \cup {None}] /\ step \in [Workers -> Steps]
    /\ frame_ff \in [Workers -> FrameIds \cup {NullFrame}]
    /\ next_frame_ff \in [Workers -> FrameIds \cup {NullFrame}]
    /\ last_full_frame \in FrameIds \cup {NullFrame}
    /\ fiber_to_free \in [Workers -> Heap \cup {None}] /\ spare \in [Workers -> Heap \cup {None}]
    /\ alive \subseteq Fibers /\ fiber_owner \in [Fibers -> Workers \cup {None}]
    /\ resumable \subseteq Fibers /\ resume_sf \subseteq Fibers
    /\ pending_remove_ref \in [Fibers -> Heap \cup {None}]
    /\ frames \subseteq FrameIds /\ parent \in [FrameIds -> FrameIds \cup {NullFrame}]
    /\ kids \in [FrameIds -> Seq(FrameIds)] /\ join_counter \in [FrameIds -> Nat]
    /\ fiber_self \in [FrameIds -> SomeFiber] /\ fiber_child \in [FrameIds -> SomeFiber]
    /\ synched \subseteq FrameIds /\ sync_master \subseteq FrameIds

(* Where a worker is and what it has: its frame, the frame it is to go on  *)
(* with, and fibers. *)
WorkerOK(w) ==
    /\ frame_ff[w] # NullFrame <=> step[w] \in UserSteps \cup Leavings \cup {"do_return", "do_sync"}
    /\ frame_ff[w] # NullFrame => frame_ff[w] \in frames
    /\ next_frame_ff[w] # NullFrame =>
          next_frame_ff[w] \in frames /\ step[w] \in {"sched", "steal", "switched"}
    /\ step[w] = "steal" /\ next_frame_ff[w] # NullFrame => next_frame_ff[w] \in Root \cap synched
    /\ spare[w] # None <=> step[w] = "steal"
    /\ fiber_to_free[w] # None => step[w] \in Leavings
    /\ step[w] = "syncing" => fiber_to_free[w] # None
    /\ pending_remove_ref[w] # None => step[w] \in {"do_return", "do_sync", "switched"}
    /\ step[w] = "out" => w = User
    /\ step[w] \in {"returning", "do_return"} =>
          frame_ff[w] \in synched /\ parent[frame_ff[w]] # NullFrame
    /\ step[w] \in {"syncing", "do_sync", "started"} => frame_ff[w] \notin synched
    /\ step[w] = "resumed" => frame_ff[w] \in synched

(* Each frame is one worker's. *)
HoldersOK ==
    \A v, w \in Workers :
        /\ frame_ff[v] = frame_ff[w] /\ frame_ff[v] # NullFrame => v = w
        /\ next_frame_ff[v] = next_frame_ff[w] /\ next_frame_ff[v] # NullFrame => v = w
        /\ frame_ff[v] = next_frame_ff[w] => frame_ff[v] = NullFrame

(* The frames are a tree, whose root is the user's oldest frame.           *)
TreeOK ==
    /\ \A f \in frames : parent[f] \in frames \cup {NullFrame}
    /\ \A f, g \in Root : f = g
    /\ \A S \in SUBSET frames : S # {} => \E f \in S : parent[f] \notin S
    /\ step[User] \in {"out", "gone"} => Root = {}

(* What waits has children, and has given up its fiber. *)
FrameOK(f) ==
    /\ f \in synched => Children(f) = {} /\ fiber_child[f] = None
    /\ ~Held(f) => f \notin synched /\ Children(f) # {}
    /\ join_counter[f] = Cardinality(Children(f)) + (IF Held(f) THEN 1 ELSE 0)
    /\ fiber_self[f] # None <=>
          \E w \in Workers : next_frame_ff[w] = f \/ (frame_ff[w] = f /\ step[w] \in UserSteps)
    /\ f \in synched \/ fiber_child[f] # None \/ kids[f] # <<>>

KidsOK(p) ==
    /\ \A i, j \in DOMAIN kids[p] : kids[p][i] = kids[p][j] => i = j
    /\ \A c \in FrameIds :
          (\E i \in DOMAIN kids[p] : kids[p][i] = c) <=> c \in Children(p) /\ ~Returned(c)

GoneFrameOK(f) ==
    /\ kids[f] = <<>> /\ parent[f] = NullFrame
    /\ fiber_self[f] = None /\ fiber_child[f] = None

(* The frames whose first stack is the thread's own: down from the root,   *)
(* the leftmost children. *)
HomeOK(home) ==
    /\ Root \subseteq home
    /\ \A f \in frames :
          /\ fiber_self[f] = Thread => f \in home /\ f \in synched
          /\ f \in home /\ f \in synched /\ fiber_self[f] # None => fiber_self[f] = Thread
          /\ fiber_child[f] # None => (fiber_child[f] = Thread <=> f \in home)
          /\ \A i \in DOMAIN kids[f] :
                kids[f][i] \in home <=> f \in home /\ i = 1 /\ fiber_child[f] = None

MasterOK ==
    /\ sync_master = {last_full_frame} \ {NullFrame}
    /\ last_full_frame # NullFrame => last_full_frame \in Root \ synched
    /\ \A f \in Root : f \notin synched => f = last_full_frame
    /\ \A f \in Root : f \in synched => frame_ff[User] = f \/ next_frame_ff[User] = f

(* The places that fibers other than the scheduling ones are at.           *)
Kinds == {"self", "child", "spare", "free", "pending"}
Indices(k) == IF k \in {"self", "child"} THEN FrameIds ELSE Workers
FiberAt(k, i) ==
    IF k = "self" THEN fiber_self[i] ELSE IF k = "child" THEN fiber_child[i]
    ELSE IF k = "spare" THEN spare[i] ELSE IF k = "free" THEN fiber_to_free[i]
    ELSE pending_remove_ref[i]

PlacesOK ==
    /\ \A k, l \in Kinds : \A i \in Indices(k), j \in Indices(l) :
          FiberAt(k, i) = FiberAt(l, j) /\ FiberAt(k, i) # None => k = l /\ i = j
    /\ \A x \in Heap \cup {Thread} :
          x \in alive <=> \E k \in Kinds : \E i \in Indices(k) : FiberAt(k, i) = x
    /\ \A w \in Workers : /\ step[w] = "gone" => w \notin alive
                          /\ w \in Running => w \in alive

CurOK ==
    /\ \A v, w \in Running : cur[v] = cur[w] => v = w
    /\ \A w \in Running :
          /\ cur[w] \in alive \ resumable
          /\ step[w] \in OnScheduler <=> cur[w] = w
          /\ step[w] \in UserSteps => cur[w] = fiber_self[frame_ff[w]]
          /\ step[w] \in Leavings => cur[w] = Leaving(w)
          /\ step[w] = "started" => cur[w] \in Heap
          /\ fiber_owner[cur[w]] = w
          /\ cur[w] # w => fiber_owner[w] = None \/ cur[w] = Thread

ResumableOK ==
    /\ resumable \subseteq alive
    /\ \A w \in Workers :
          /\ spare[w] \notin resumable
          /\ next_frame_ff[w] # NullFrame =>
                IF next_frame_ff[w] \in synched THEN fiber_self[next_frame_ff[w]] \in resumable
                ELSE fiber_self[next_frame_ff[w]] \in Heap \ resumable
    /\ \A p \in frames : fiber_child[p] # None =>
          \/ fiber_child[p] \in resumable
          \/ \E w \in Workers : step[w] = "returning" /\ parent[frame_ff[w]] = p
                                /\ fiber_to_free[w] = None
    /\ \A x \in resume_sf :
          \E w \in Workers : cur[w] = x /\ step[w] \in UserSteps \cup Leavings

SwitchInv ==
    /\ SwitchTypes
    /\ \A w \in Workers : WorkerOK(w)
    /\ HoldersOK /\ TreeOK
    /\ \A f \in frames : FrameOK(f)
    /\ \A p \in frames : KidsOK(p)
    /\ \A f \in FrameIds \ frames : GoneFrameOK(f)
    /\ \E home \in SUBSET FrameIds : HomeOK(home)
    /\ MasterOK /\ PlacesOK /\ CurOK /\ ResumableOK

(* What is a worker, a frame or a fiber, and that none is two of them.     *)
LEMMA FiberConstants ==
    ASSUME FiberAssumption
    PROVE  /\ FrameIds \subseteq Nat /\ NullFrame \notin FrameIds /\ FrameIds # {}
           /\ IsFiniteSet(FrameIds)
           /\ User \in Workers /\ User \notin Systems /\ Workers = Systems \cup {User}
           /\ Workers \cap SomeFiber = {} /\ Thread \notin Heap
           /\ None \notin Workers /\ None \notin Heap /\ None # Thread
           /\ Fibers = Workers \cup Heap \cup {Thread} /\ None \notin Fibers
<1>1. MaxFrames \in Nat /\ 1 <= MaxFrames
    BY DEF FiberAssumption
<1>2. IsFiniteSet(FrameIds)
    BY <1>1, FS_Interval DEF FrameIds
<1> QED
    BY <1>1, <1>2 DEF FiberAssumption, FrameIds, NullFrame, Workers, Fibers, SomeFiber

(* The frame that a steal or a binding makes was not in use.               *)
LEMMA FrameIsNew ==
    ASSUME FiberAssumption, frames # FrameIds, frames \subseteq FrameIds
    PROVE  NewFrame \in FrameIds \ frames
<1>1. (FrameIds \ frames) \in SUBSET Nat /\ FrameIds \ frames # {}
    BY FiberConstants
<1>2. \E f \in FrameIds \ frames : \A g \in FrameIds \ frames : f <= g
    BY <1>1, LeastNumber
<1> QED
    BY <1>2 DEF NewFrame

(* The frames hang together: without a root there are none.                *)
LEMMA NoFrames ==
    ASSUME SwitchInv, Root = {}
    PROVE  frames = {}
<1> SUFFICES ASSUME frames # {} PROVE FALSE
    OBVIOUS
<1>1. PICK f \in frames : parent[f] \notin frames
    BY DEF SwitchInv, TreeOK
<1> QED
    BY <1>1 DEF SwitchInv, TreeOK, Root

(* If the root has no children it is the only frame.                       *)
LEMMA OnlyTheRoot ==
    ASSUME SwitchInv, NEW r \in Root, Children(r) = {}
    PROVE  frames = {r}
<1> SUFFICES ASSUME frames \ {r} # {} PROVE FALSE
    BY DEF Root
<1>1. PICK f \in frames \ {r} : parent[f] \notin frames \ {r}
    BY DEF SwitchInv, TreeOK
<1>2. f \in frames /\ parent[f] = r
    BY <1>1 DEF SwitchInv, TreeOK, Root
<1> QED
    BY <1>2 DEF Children

(* A frame has finitely many children, which a join counter can count.     *)
LEMMA ChildrenAreFinite ==
    ASSUME FiberAssumption, SwitchInv, NEW f
    PROVE  IsFiniteSet(Children(f)) /\ Cardinality(Children(f)) \in Nat
<1>1. Children(f) \subseteq FrameIds
    BY DEF SwitchInv, SwitchTypes, Children
<1>2. IsFiniteSet(Children(f))
    BY <1>1, FiberConstants, FS_Subset
<1> QED
    BY <1>2, FS_CardinalityType

(* The children list without one of them (scheduler.c unlink_child).       *)
LEMMA UnlinkedChild ==
    ASSUME SwitchInv, NEW p \in frames, NEW f, NEW n \in DOMAIN kids[p], kids[p][n] = f
    PROVE  /\ Unlinked(p, f) \in Seq(FrameIds) /\ n \in 1..Len(kids[p])
           /\ Len(kids[p]) \in Nat /\ Len(Unlinked(p, f)) = Len(kids[p]) - 1
           /\ \A i \in 1..(Len(kids[p]) - 1) :
                 Unlinked(p, f)[i] = IF i < n THEN kids[p][i] ELSE kids[p][i + 1]
<1> DEFINE s == kids[p]
           l == SubSeq(s, 1, n - 1)
           r == SubSeq(s, n + 1, Len(s))
<1>1. s \in Seq(FrameIds) /\ Len(s) \in Nat /\ n \in 1..Len(s) /\ DOMAIN s = 1..Len(s)
    BY DEF SwitchInv, SwitchTypes
<1>0. \A i, j \in DOMAIN kids[p] : kids[p][i] = kids[p][j] => i = j
    BY DEF SwitchInv, KidsOK
<1>2. (CHOOSE j \in DOMAIN kids[p] : kids[p][j] = f) = n
    <2> DEFINE c == CHOOSE j \in DOMAIN kids[p] : kids[p][j] = f
    <2>1. c \in DOMAIN kids[p] /\ kids[p][c] = f
        OBVIOUS
    <2> QED
        BY <1>0, <2>1
<1>3. Unlinked(p, f) = l \o r
    BY <1>2 DEF Unlinked, RemoveAt
<1> HIDE DEF s
<1>4. l \in Seq(FrameIds) /\ Len(l) = n - 1 /\ \A i \in 1..(n - 1) : l[i] = s[i]
    BY <1>1, SubSeqProperties
<1>5. /\ r \in Seq(FrameIds) /\ Len(r) = Len(s) - n
      /\ \A i \in 1..(Len(s) - n) : r[i] = s[n + i]
    <2>1. /\ n + 1 \in 1..(Len(s) + 1) /\ Len(s) \in (n + 1) - 1..Len(s)
          /\ Len(s) - (n + 1) + 1 = Len(s) - n
          /\ \A i \in 1..(Len(s) - n) : (n + 1) + i - 1 = n + i
        BY <1>1
    <2>2. /\ r \in Seq(FrameIds) /\ Len(r) = Len(s) - (n + 1) + 1
          /\ \A i \in 1..(Len(s) - (n + 1) + 1) : r[i] = s[(n + 1) + i - 1]
        <3>1. \A i \in (n + 1)..Len(s) : s[i] \in FrameIds
            BY <1>1
        <3> QED
            BY <1>1, <2>1, <3>1, SubSeqProperties
    <2> QED
        BY <2>1, <2>2
<1> HIDE DEF l, r
<1>6. /\ l \o r \in Seq(FrameIds) /\ Len(l \o r) = Len(l) + Len(r)
      /\ \A i \in 1..(Len(l) + Len(r)) : (l \o r)[i] = IF i <= Len(l) THEN l[i] ELSE r[i - Len(l)]
    <2>1. l \in Seq(FrameIds) /\ r \in Seq(FrameIds)
        BY <1>4, <1>5
    <2> QED
        BY <2>1, ConcatProperties
<1>7. ASSUME NEW i \in 1..(Len(s) - 1)
      PROVE  (l \o r)[i] = IF i < n THEN s[i] ELSE s[i + 1]
    <2>1. /\ i \in 1..(Len(l) + Len(r)) /\ n \in Int /\ i \in Int /\ Len(s) \in Int
          /\ Len(l) = n - 1
        BY <1>1, <1>4, <1>5
    <2>2. CASE i < n
        <3>1. i <= Len(l) /\ i \in 1..(n - 1)
            BY <2>1, <2>2
        <3>2. (l \o r)[i] = l[i]
            BY <2>1, <3>1, <1>6
        <3>3. l[i] = s[i]
            BY <3>1, <1>4
        <3> QED
            BY <2>2, <3>2, <3>3
    <2>3. CASE ~(i < n)
        <3>1. i - Len(l) \in 1..(Len(s) - n) /\ ~(i <= Len(l)) /\ n + (i - Len(l)) = i + 1
            BY <2>1, <2>3
        <3>2. (l \o r)[i] = r[i - Len(l)]
            BY <2>1, <3>1, <1>6
        <3> QED
            BY <2>3, <3>1, <3>2, <1>5
    <2> QED
        BY <2>2, <2>3
<1>8. Len(l \o r) = Len(s) - 1
    BY <1>1, <1>4, <1>5, <1>6
<1> QED
    BY <1>1, <1>3, <1>6, <1>7, <1>8 DEF s

(* At first there is no frame, and no fiber but the scheduling ones.       *)
LEMMA SwitchInit ==
    ASSUME FiberAssumption, Init
    PROVE  SwitchInv
<1> USE FiberConstants
<1>1. SwitchTypes
    BY DEF Init, SwitchTypes, Steps, OnScheduler, SomeFiber
<1>2. ASSUME NEW w \in Workers PROVE WorkerOK(w)
    BY DEF Init, WorkerOK, UserSteps, Leavings
<1>3. HoldersOK
    BY DEF Init, HoldersOK
<1>4. TreeOK
    BY DEF Init, TreeOK, Root
<1>5. \A f \in FrameIds : GoneFrameOK(f)
    BY DEF Init, GoneFrameOK
<1>6. frames = {} /\ Root = {}
    BY DEF Init, Root
<1>7. HomeOK({})
    BY <1>6 DEF HomeOK
<1>8. MasterOK
    BY <1>6 DEF Init, MasterOK
<1>9. \A k \in Kinds : \A i \in Indices(k) : FiberAt(k, i) = None
    BY DEF Init, Kinds, Indices, FiberAt, Fibers
<1>10. PlacesOK
    <2>1. \A w \in Workers : (step[w] = "gone" => w \notin alive) /\ (w \in Running => w \in alive)
        BY DEF Init, Running
    <2>2. \A x \in Heap \cup {Thread} : x \notin alive
        BY DEF Init, SomeFiber
    <2> QED
        BY <2>1, <2>2, <1>9 DEF PlacesOK, SomeFiber
<1>11. CurOK
    BY DEF Init, CurOK, Running, OnScheduler, UserSteps, Leavings
<1>12. ResumableOK
    BY <1>6 DEF Init, ResumableOK
<1> QED
    BY <1>1, <1>2, <1>3, <1>4, <1>5, <1>6, <1>7, <1>8, <1>10, <1>11, <1>12 DEF SwitchInv

-----------------------------------------------------------------------------
(* What the invariant says of the fibers.                                  *)

(* A fiber that is at a place is held there and nowhere else.              *)
LEMMA HeldOnce ==
    ASSUME FiberAssumption, SwitchInv, NEW x \in Heap \cup {Thread},
           NEW k \in Kinds, NEW i \in Indices(k), FiberAt(k, i) = x
    PROVE  Holds(x) = {<<IF k \in {"self", "child"} THEN k ELSE "worker", i>>}
<1>1. x # None /\ x \notin Workers
    BY FiberConstants DEF SomeFiber
<1>2. ASSUME NEW l \in Kinds, NEW j \in Indices(l), FiberAt(l, j) = x
      PROVE  k = l /\ i = j
    BY <1>1, <1>2 DEF SwitchInv, PlacesOK
<1>3. \A f \in FrameIds : /\ FiberAt("self", f) = fiber_self[f]
                          /\ FiberAt("child", f) = fiber_child[f]
    BY DEF FiberAt
<1>4. \A w \in Workers : /\ FiberAt("spare", w) = spare[w]
                         /\ FiberAt("free", w) = fiber_to_free[w]
                         /\ FiberAt("pending", w) = pending_remove_ref[w]
    BY DEF FiberAt
<1>5. \A f \in FrameIds : fiber_self[f] = x <=> k = "self" /\ i = f
    BY <1>2, <1>3 DEF Kinds, Indices
<1>6. \A f \in FrameIds : fiber_child[f] = x <=> k = "child" /\ i = f
    BY <1>2, <1>3 DEF Kinds, Indices
<1>7. \A w \in Workers : x \in {w, spare[w], fiber_to_free[w], pending_remove_ref[w]}
                            <=> k \in {"spare", "free", "pending"} /\ i = w
    <2> TAKE w \in Workers
    <2>1. x # w
        BY <1>1
    <2> QED
        BY <2>1, <1>2, <1>4 DEF Kinds, Indices
<1>8. \A f \in FrameIds : f \notin frames => fiber_self[f] # x /\ fiber_child[f] # x
    BY <1>1 DEF SwitchInv, GoneFrameOK
<1>9. frames \subseteq FrameIds
    BY DEF SwitchInv, SwitchTypes
<1>10. CASE k = "self"
    <2>1. i \in frames /\ {g \in frames : fiber_self[g] = x} = {i}
        BY <1>10, <1>5, <1>8, <1>9 DEF Indices
    <2>2. {g \in frames : fiber_child[g] = x} = {}
        BY <1>10, <1>6, <1>9
    <2>3. {v \in Workers : x \in {v, spare[v], fiber_to_free[v], pending_remove_ref[v]}} = {}
        BY <1>10, <1>7
    <2> QED
        BY <1>10, <2>1, <2>2, <2>3 DEF Holds
<1>11. CASE k = "child"
    <2>1. i \in frames /\ {g \in frames : fiber_child[g] = x} = {i}
        BY <1>11, <1>6, <1>8, <1>9 DEF Indices
    <2>2. {g \in frames : fiber_self[g] = x} = {}
        BY <1>11, <1>5, <1>9
    <2>3. {v \in Workers : x \in {v, spare[v], fiber_to_free[v], pending_remove_ref[v]}} = {}
        BY <1>11, <1>7
    <2> QED
        BY <1>11, <2>1, <2>2, <2>3 DEF Holds
<1>12. CASE k \in {"spare", "free", "pending"}
    <2>1. /\ i \in Workers
          /\ {v \in Workers : x \in {v, spare[v], fiber_to_free[v], pending_remove_ref[v]}} = {i}
        BY <1>12, <1>7 DEF Indices
    <2>2. {g \in frames : fiber_self[g] = x} = {}
        BY <1>12, <1>5, <1>9
    <2>3. {g \in frames : fiber_child[g] = x} = {}
        BY <1>12, <1>6, <1>9
    <2> QED
        BY <1>12, <2>1, <2>2, <2>3 DEF Holds
<1> QED
    BY <1>10, <1>11, <1>12 DEF Kinds

(* A scheduling fiber is its worker's.                                     *)
LEMMA SchedulingFiberHeldOnce ==
    ASSUME FiberAssumption, SwitchInv, NEW x \in Workers
    PROVE  Holds(x) = {<<"worker", x>>}
<1>1. \A f \in frames : fiber_self[f] # x /\ fiber_child[f] # x
    BY FiberConstants DEF SwitchInv, SwitchTypes
<1>2. \A w \in Workers : spare[w] # x /\ fiber_to_free[w] # x /\ pending_remove_ref[w] # x
    <2>1. x \notin Heap \cup {None}
        BY FiberConstants DEF SomeFiber
    <2>2. Workers \subseteq Fibers
        BY FiberConstants
    <2> QED
        BY <2>1, <2>2 DEF SwitchInv, SwitchTypes
<1>3. {v \in Workers : x \in {v, spare[v], fiber_to_free[v], pending_remove_ref[v]}} = {x}
    BY <1>2
<1>4. {g \in frames : fiber_self[g] = x} = {} /\ {g \in frames : fiber_child[g] = x} = {}
    BY <1>1
<1> QED
    BY <1>3, <1>4 DEF Holds

(* What FibersAreRight says of every state that satisfies the invariant.   *)
LEMMA FibersImplied ==
    ASSUME FiberAssumption, SwitchInv
    PROVE  FibersAreRight
<1>1. ASSUME NEW x \in alive PROVE Cardinality(Holds(x)) = 1
    <2>1. CASE x \in Workers
        BY <2>1, SchedulingFiberHeldOnce, FS_Singleton
    <2>2. CASE x \notin Workers
        <3>1. x \in Heap \cup {Thread}
            BY <2>2, FiberConstants DEF SwitchInv, SwitchTypes
        <3>2. PICK k \in Kinds : \E i \in Indices(k) : FiberAt(k, i) = x
            BY <3>1 DEF SwitchInv, PlacesOK
        <3>3. PICK i \in Indices(k) : FiberAt(k, i) = x
            BY <3>2
        <3>4. \E y : Holds(x) = {y}
            BY <3>1, <3>3, HeldOnce
        <3> QED
            BY <3>4, FS_Singleton
    <2> QED
        BY <2>1, <2>2
<1>2. ASSUME NEW x \in Heap \ alive PROVE Holds(x) = {} /\ x \notin resumable
    <2>1. x # None /\ x \notin Workers
        BY FiberConstants DEF SomeFiber
    <2>2. \A k \in Kinds : \A i \in Indices(k) : FiberAt(k, i) # x
        BY DEF SwitchInv, PlacesOK
    <2>3. \A f \in FrameIds : fiber_self[f] # x /\ fiber_child[f] # x
        BY <2>2 DEF Kinds, Indices, FiberAt
    <2>4. \A w \in Workers : spare[w] # x /\ fiber_to_free[w] # x /\ pending_remove_ref[w] # x
        BY <2>2 DEF Kinds, Indices, FiberAt
    <2>5. \A w \in Workers : x \notin {w, spare[w], fiber_to_free[w], pending_remove_ref[w]}
        BY <2>1, <2>4
    <2>6. frames \subseteq FrameIds /\ resumable \subseteq alive
        BY DEF SwitchInv, SwitchTypes, ResumableOK
    <2> QED
        BY <2>3, <2>5, <2>6 DEF Holds
<1>3. ASSUME \A w \in Workers : step[w] = "gone" PROVE alive = {}
    <2>1. frames = {}
        BY <1>3, FiberConstants, NoFrames DEF SwitchInv, TreeOK
    <2>2. \A f \in FrameIds : fiber_self[f] = None /\ fiber_child[f] = None
        BY <2>1 DEF SwitchInv, GoneFrameOK
    <2>3. \A w \in Workers : spare[w] = None /\ fiber_to_free[w] = None /\ pending_remove_ref[w] = None
        BY <1>3 DEF SwitchInv, WorkerOK, Leavings
    <2>4. \A k \in Kinds : \A i \in Indices(k) : FiberAt(k, i) = None
        BY <2>2, <2>3 DEF Kinds, Indices, FiberAt
    <2>5. \A x \in Heap \cup {Thread} : x \notin alive
        BY <2>4, FiberConstants DEF SwitchInv, PlacesOK
    <2>6. \A w \in Workers : w \notin alive
        BY <1>3 DEF SwitchInv, PlacesOK
    <2> QED
        BY <2>5, <2>6, FiberConstants DEF SwitchInv, SwitchTypes
<1>4. FibersHaveOneUser
    BY <1>1, <1>2, <1>3 DEF FibersHaveOneUser, SwitchInv, CurOK
<1>5. ASSUME NEW w \in Workers, step[w] \in Leavings
      PROVE  /\ Leaving(w) = cur[w] /\ fiber_self[frame_ff[w]] = None
             /\ fiber_to_free[w] # None => fiber_owner[w] = None
    <2>1. w \in Running /\ step[w] \notin OnScheduler
        BY <1>5 DEF Running, Leavings, OnScheduler
    <2>2. Leaving(w) = cur[w] /\ (fiber_owner[w] = None \/ cur[w] = Thread)
        BY <1>5, <2>1 DEF SwitchInv, CurOK
    <2>3. fiber_to_free[w] # None => cur[w] \in Heap
        BY <2>2 DEF Leaving, SwitchInv, SwitchTypes
    <2>4. frame_ff[w] # NullFrame /\ frame_ff[w] \in frames
        BY <1>5 DEF SwitchInv, WorkerOK
    <2>5. fiber_self[frame_ff[w]] = None
        <3>1. \A v \in Workers : /\ next_frame_ff[v] # frame_ff[w]
                                 /\ frame_ff[v] = frame_ff[w] => v = w
            BY <2>4 DEF SwitchInv, HoldersOK
        <3>2. step[w] \notin UserSteps
            BY <1>5 DEF Leavings, UserSteps
        <3> QED
            BY <2>4, <3>1, <3>2 DEF SwitchInv, FrameOK
    <2> QED
        BY <2>2, <2>3, <2>5, FiberConstants
<1>6. ASSUME NEW w \in Workers PROVE
        /\ step[w] \in {"started", "resumed", "user"} => fiber_self[frame_ff[w]] = cur[w]
        /\ step[w] = "started" => frame_ff[w] \notin synched /\ cur[w] \in Heap
        /\ step[w] = "resumed" => frame_ff[w] \in synched
    <2>1. step[w] \in UserSteps => w \in Running
        BY DEF UserSteps, Running
    <2> QED
        BY <2>1 DEF SwitchInv, CurOK, WorkerOK, UserSteps
<1>7. ASSUME NEW w \in Workers, next_frame_ff[w] # NullFrame
      PROVE  fiber_self[next_frame_ff[w]] \notin resume_sf
    <2> DEFINE x == fiber_self[next_frame_ff[w]]
    <2>1. next_frame_ff[w] \in frames /\ next_frame_ff[w] \in FrameIds
        BY <1>7 DEF SwitchInv, WorkerOK, SwitchTypes
    <2>2. x # None
        BY <2>1 DEF SwitchInv, FrameOK
    <2>3. ASSUME NEW v \in Workers, cur[v] = x, step[v] \in UserSteps \cup Leavings
          PROVE  FALSE
        <3>1. frame_ff[v] \in frames /\ frame_ff[v] # next_frame_ff[w] /\ frame_ff[v] \in FrameIds
            BY <2>3, <1>7 DEF SwitchInv, WorkerOK, HoldersOK, SwitchTypes
        <3>2. v \in Running
            BY <2>3 DEF Running, UserSteps, Leavings
        <3>3. \E k \in Kinds : \E i \in Indices(k) :
                FiberAt(k, i) = x /\ (k # "self" \/ i # next_frame_ff[w])
            <4>1. CASE step[v] \in UserSteps
                <5>1. FiberAt("self", frame_ff[v]) = x
                    BY <2>3, <3>2, <4>1 DEF SwitchInv, CurOK, FiberAt
                <5> QED
                    BY <5>1, <3>1 DEF Kinds, Indices
            <4>2. CASE step[v] \in Leavings /\ fiber_to_free[v] # None
                <5>1. FiberAt("free", v) = x
                    BY <2>3, <3>2, <4>2 DEF SwitchInv, CurOK, FiberAt, Leaving
                <5> QED
                    BY <5>1, <3>1 DEF Kinds, Indices
            <4>3. CASE step[v] \in Leavings /\ fiber_to_free[v] = None
                <5>1. parent[frame_ff[v]] \in FrameIds
                    <6>1. step[v] = "returning"
                        BY <4>3 DEF SwitchInv, WorkerOK, Leavings
                    <6> QED
                        BY <6>1, <3>1 DEF SwitchInv, WorkerOK, SwitchTypes
                <5>2. FiberAt("child", parent[frame_ff[v]]) = x
                    BY <2>3, <3>2, <4>3 DEF SwitchInv, CurOK, FiberAt, Leaving
                <5> QED
                    BY <5>1, <5>2, <3>1 DEF Kinds, Indices
            <4> QED
                BY <2>3, <4>1, <4>2, <4>3
        <3>4. FiberAt("self", next_frame_ff[w]) = x /\ "self" \in Kinds
              /\ next_frame_ff[w] \in Indices("self")
            BY <2>1 DEF FiberAt, Kinds, Indices
        <3> HIDE DEF x
        <3> QED
            BY <3>3, <3>4, <2>2 DEF SwitchInv, PlacesOK
    <2> QED
        BY <2>3 DEF SwitchInv, ResumableOK
<1>8. ASSUME NEW w \in Workers, step[w] = "do_sync"
      PROVE  fiber_self[frame_ff[w]] = None
    <2>4. frame_ff[w] # NullFrame /\ frame_ff[w] \in frames
        BY <1>8 DEF SwitchInv, WorkerOK
    <2>5. \A v \in Workers : /\ next_frame_ff[v] # frame_ff[w]
                             /\ frame_ff[v] = frame_ff[w] => v = w
        BY <2>4 DEF SwitchInv, HoldersOK
    <2>6. step[w] \notin UserSteps
        BY <1>8 DEF UserSteps
    <2> QED
        BY <2>4, <2>5, <2>6 DEF SwitchInv, FrameOK
<1>9. ASSUME NEW w \in Workers, step[w] = "user", frame_ff[w] \in synched,
             parent[frame_ff[w]] = NullFrame
      PROVE  w = User /\ cur[w] = Thread
    <2>1. frame_ff[w] \in Root /\ w \in Running /\ frame_ff[w] # NullFrame
        BY <1>9 DEF SwitchInv, WorkerOK, UserSteps, Root, Running
    <2>2. cur[w] = fiber_self[frame_ff[w]] /\ cur[w] # None
        <3>1. cur[w] = fiber_self[frame_ff[w]] /\ cur[w] \in alive
            BY <1>9, <2>1 DEF SwitchInv, CurOK, UserSteps
        <3> QED
            BY <3>1, FiberConstants DEF SwitchInv, SwitchTypes
    <2>3. PICK home : HomeOK(home)
        BY DEF SwitchInv
    <2>4. frame_ff[w] \in home /\ frame_ff[w] \in frames
        BY <2>1, <2>3 DEF HomeOK, Root
    <2>5. cur[w] = Thread
        BY <1>9, <2>2, <2>3, <2>4 DEF HomeOK
    <2>6. w = User
        BY <1>9, <2>1, FiberConstants DEF SwitchInv, MasterOK, HoldersOK
    <2> QED
        BY <2>5, <2>6
<1>10. SwitchesAreRight
    <2>1. ASSUME NEW w \in Workers PROVE
        /\ step[w] \in {"returning", "syncing"} =>
              /\ Leaving(w) = cur[w] /\ fiber_self[frame_ff[w]] = None
              /\ fiber_to_free[w] # None => fiber_owner[w] = None
        /\ step[w] = "user" /\ frame_ff[w] \in synched /\ parent[frame_ff[w]] = NullFrame =>
              w = User /\ cur[w] = Thread
        BY <1>5, <1>9 DEF Leavings
    <2> QED
        BY <2>1, <1>6, <1>7, <1>8 DEF SwitchesAreRight
<1> QED
    BY <1>4, <1>10 DEF FibersAreRight

-----------------------------------------------------------------------------
(* The steps of FiberSwitch, one by one.                                   *)

(* The part of the invariant that is about frames.                         *)
FramesInv ==
    /\ HoldersOK /\ TreeOK /\ MasterOK
    /\ \A f \in frames : FrameOK(f)
    /\ \A p \in frames : KidsOK(p)
    /\ \A f \in FrameIds \ frames : GoneFrameOK(f)
    /\ \E home \in SUBSET FrameIds : HomeOK(home)

(* Steps that leave the frames where they are.                             *)
LEMMA FramesKept ==
    ASSUME FiberAssumption, SwitchInv,
           UNCHANGED <<tree, frame_ff, next_frame_ff, last_full_frame>>,
           \A v \in Workers :
              /\ step'[v] \in UserSteps <=> step[v] \in UserSteps
              /\ step'[v] \in {"returning", "do_return"} <=> step[v] \in {"returning", "do_return"},
           step'[User] \in {"out", "gone"} => step[User] \in {"out", "gone"}
    PROVE  FramesInv'
<1>1. /\ frames' = frames /\ parent' = parent /\ kids' = kids /\ join_counter' = join_counter
      /\ fiber_self' = fiber_self /\ fiber_child' = fiber_child /\ synched' = synched
      /\ sync_master' = sync_master /\ frame_ff' = frame_ff
      /\ next_frame_ff' = next_frame_ff /\ last_full_frame' = last_full_frame
    BY DEF tree
<1>2. Root' = Root /\ \A f : Children(f)' = Children(f) /\ (Held(f)' <=> Held(f))
    BY <1>1 DEF Root, Children, Held
<1>3. \A f : Returned(f)' <=> Returned(f)
    BY <1>1 DEF Returned
<1>4. HoldersOK'
    BY <1>1 DEF SwitchInv, HoldersOK
<1>5. TreeOK'
    BY <1>1, <1>2 DEF SwitchInv, TreeOK
<1>6. MasterOK'
    BY <1>1, <1>2 DEF SwitchInv, MasterOK
<1>7. ASSUME NEW f \in frames PROVE FrameOK(f)'
    <2>1. FrameOK(f)
        BY DEF SwitchInv
    <2>2. /\ Children(f)' = Children(f) /\ (Held(f)' <=> Held(f))
          /\ Cardinality(Children(f))' = Cardinality(Children(f))
        BY <1>2
    <2> QED
        BY <2>1, <2>2, <1>1 DEF FrameOK
<1>8. ASSUME NEW p \in frames PROVE KidsOK(p)'
    <2>1. KidsOK(p) /\ Children(p)' = Children(p)
        BY <1>2 DEF SwitchInv
    <2> QED
        BY <2>1, <1>1, <1>3 DEF KidsOK
<1>9. \A f \in FrameIds \ frames : GoneFrameOK(f)'
    BY <1>1 DEF SwitchInv, GoneFrameOK
<1>10. \E home \in SUBSET FrameIds : HomeOK(home)'
    BY <1>1, <1>2 DEF SwitchInv, HomeOK
<1> QED
    BY <1>1, <1>4, <1>5, <1>6, <1>7, <1>8, <1>9, <1>10 DEF FramesInv

(* Steps that only spawn ahead, or return to a parent not stolen.          *)
LEMMA SwitchIdle ==
    ASSUME FiberAssumption, SwitchInv,
           UNCHANGED <<cur, step, frame_ff, next_frame_ff, last_full_frame, fiber_to_free,
                       spare, fibers, tree>>
    PROVE  SwitchInv'
<1>1. FramesInv'
    BY FramesKept
<1>2. /\ frames' = frames /\ parent' = parent /\ kids' = kids /\ join_counter' = join_counter
      /\ fiber_self' = fiber_self /\ fiber_child' = fiber_child /\ synched' = synched
      /\ sync_master' = sync_master /\ frame_ff' = frame_ff
      /\ next_frame_ff' = next_frame_ff /\ last_full_frame' = last_full_frame
      /\ cur' = cur /\ step' = step /\ fiber_to_free' = fiber_to_free /\ spare' = spare
      /\ alive' = alive /\ fiber_owner' = fiber_owner /\ resumable' = resumable
      /\ resume_sf' = resume_sf /\ pending_remove_ref' = pending_remove_ref
    BY DEF tree, fibers
<1>3. SwitchTypes'
    BY <1>2 DEF SwitchInv, SwitchTypes
<1>4. \A w \in Workers : WorkerOK(w)'
    BY <1>2 DEF SwitchInv, WorkerOK, Root
<1>5. PlacesOK'
    BY <1>2 DEF SwitchInv, PlacesOK, FiberAt, Running
<1>6. CurOK'
    BY <1>2 DEF SwitchInv, CurOK, Running, Leaving
<1>7. ResumableOK'
    BY <1>2 DEF SwitchInv, ResumableOK
<1> QED
    BY <1>1, <1>3, <1>4, <1>5, <1>6, <1>7 DEF SwitchInv, FramesInv

(* Steps that suspend nobody, and of which the frames' fibers know nothing. *)
LEMMA ResumableKept ==
    ASSUME FiberAssumption, SwitchInv,
           UNCHANGED <<cur, frame_ff, next_frame_ff, fiber_to_free, resume_sf, tree>>,
           resumable' \subseteq alive', resumable' \subseteq resumable,
           \A v \in Workers : spare'[v] \notin resumable',
           \A f \in FrameIds :
              /\ fiber_self[f] # None /\ fiber_self[f] \in resumable => fiber_self[f] \in resumable'
              /\ fiber_child[f] # None /\ fiber_child[f] \in resumable => fiber_child[f] \in resumable',
           \A v \in Workers : step'[v] # step[v] => step[v] \in OnScheduler
    PROVE  ResumableOK'
<1>1. /\ frames' = frames /\ parent' = parent /\ synched' = synched
      /\ fiber_self' = fiber_self /\ fiber_child' = fiber_child
    BY DEF tree
<1>2. /\ frames \subseteq FrameIds /\ next_frame_ff \in [Workers -> FrameIds \cup {NullFrame}]
      /\ ResumableOK
    BY DEF SwitchInv, SwitchTypes
<1>3. ASSUME NEW v \in Workers, next_frame_ff[v] # NullFrame
      PROVE  IF next_frame_ff[v] \in synched THEN fiber_self[next_frame_ff[v]] \in resumable'
             ELSE fiber_self[next_frame_ff[v]] \in Heap \ resumable'
    <2>1. next_frame_ff[v] \in FrameIds /\ next_frame_ff[v] \in frames
        BY <1>2, <1>3 DEF SwitchInv, WorkerOK
    <2>2. fiber_self[next_frame_ff[v]] # None
        BY <2>1 DEF SwitchInv, FrameOK
    <2>3. IF next_frame_ff[v] \in synched THEN fiber_self[next_frame_ff[v]] \in resumable
          ELSE fiber_self[next_frame_ff[v]] \in Heap \ resumable
        BY <1>2, <1>3 DEF ResumableOK
    <2> QED
        BY <2>1, <2>2, <2>3
<1>4. ASSUME NEW p \in frames, fiber_child[p] # None
      PROVE  \/ fiber_child[p] \in resumable'
             \/ \E w \in Workers : step'[w] = "returning" /\ parent[frame_ff[w]] = p
                                   /\ fiber_to_free[w] = None
    <2>1. CASE fiber_child[p] \in resumable
        BY <2>1, <1>2, <1>4
    <2>2. CASE \E w \in Workers : step[w] = "returning" /\ parent[frame_ff[w]] = p
                                   /\ fiber_to_free[w] = None
        BY <2>2 DEF OnScheduler
    <2> QED
        BY <2>1, <2>2, <1>2, <1>4 DEF ResumableOK
<1>5. ASSUME NEW x \in resume_sf
      PROVE  \E w \in Workers : cur[w] = x /\ step'[w] \in UserSteps \cup Leavings
    BY <1>2 DEF ResumableOK, OnScheduler, UserSteps, Leavings
<1> QED
    BY <1>1, <1>3, <1>4, <1>5 DEF ResumableOK

(* A thief takes a fiber that is at no place. *)
LEMMA SwitchAllocateFiber ==
    ASSUME FiberAssumption, SwitchInv, NEW w \in Workers, AllocateFiber(w)
    PROVE  SwitchInv'
<1> USE FiberConstants
<1> DEFINE x == CHOOSE y \in Heap \ alive : TRUE
<1>1. /\ step[w] = "sched" /\ step' = [step EXCEPT ![w] = "steal"]
      /\ next_frame_ff[w] = NullFrame /\ x \in Heap /\ x \notin alive
      /\ alive' = alive \cup {x} /\ spare' = [spare EXCEPT ![w] = x]
    BY DEF AllocateFiber, Goto
<1> HIDE DEF x
<1>2. UNCHANGED <<cur, frame_ff, next_frame_ff, last_full_frame, fiber_to_free,
                  fiber_owner, resumable, resume_sf, pending_remove_ref, tree>>
    BY DEF AllocateFiber
<1>3. SwitchTypes
    BY DEF SwitchInv
<1>4. FramesInv'
    BY <1>1, <1>2, <1>3, FramesKept DEF SwitchTypes, UserSteps
<1>5. SwitchTypes'
    BY <1>1, <1>2, <1>3 DEF SwitchTypes, tree, Steps, OnScheduler
<1>6. ASSUME NEW v \in Workers PROVE WorkerOK(v)'
    <2>1. WorkerOK(v)
        BY DEF SwitchInv
    <2> QED
        BY <1>1, <1>2, <1>3, <2>1 DEF WorkerOK, SwitchTypes, Root, tree, UserSteps, Leavings
<1>7. PlacesOK'
    <2>1. spare[w] = None
        BY <1>1 DEF SwitchInv, WorkerOK
    <2>2. \A k \in Kinds : \A i \in Indices(k) :
             FiberAt(k, i)' = IF k = "spare" /\ i = w THEN x ELSE FiberAt(k, i)
        BY <1>1, <1>2, <1>3 DEF FiberAt, Kinds, Indices, SwitchTypes, tree
    <2>3. \A k \in Kinds : \A i \in Indices(k) : FiberAt(k, i) # x
        BY <1>1 DEF SwitchInv, PlacesOK
    <2>4. "spare" \in Kinds /\ w \in Indices("spare") /\ FiberAt("spare", w) = None
        BY <2>1 DEF Kinds, Indices, FiberAt
    <2>5. \A k, l \in Kinds : \A i \in Indices(k), j \in Indices(l) :
             FiberAt(k, i)' = FiberAt(l, j)' /\ FiberAt(k, i)' # None => k = l /\ i = j
        BY <2>2, <2>3 DEF SwitchInv, PlacesOK
    <2>6. \A y \in Heap \cup {Thread} :
             y \in alive' <=> \E k \in Kinds : \E i \in Indices(k) : FiberAt(k, i)' = y
        <3> TAKE y \in Heap \cup {Thread}
        <3>1. y # None
            OBVIOUS
        <3>2. y \in alive <=> \E k \in Kinds : \E i \in Indices(k) : FiberAt(k, i) = y
            BY DEF SwitchInv, PlacesOK
        <3>3. CASE y = x
            BY <3>3, <1>1, <2>2, <2>4
        <3>4. CASE y # x
            BY <3>1, <3>2, <3>4, <1>1, <2>2, <2>4
        <3> QED
            BY <3>3, <3>4
    <2>7. \A v \in Workers : /\ step'[v] = "gone" => v \notin alive'
                             /\ v \in Running' => v \in alive'
        BY <1>1, <1>3 DEF SwitchInv, PlacesOK, Running, SwitchTypes, SomeFiber
    <2> QED
        BY <2>5, <2>6, <2>7 DEF PlacesOK
<1>8. CurOK'
    <2>1. Running' = Running /\ w \in Running
        BY <1>1, <1>3 DEF Running, SwitchTypes
    <2>2. \A v \in Workers : Leaving(v)' = Leaving(v)
        BY <1>2 DEF Leaving, tree
    <2> QED
        BY <1>1, <1>2, <1>3, <2>1, <2>2
        DEF SwitchInv, CurOK, SwitchTypes, OnScheduler, UserSteps, Leavings, tree, Running
<1>9. ResumableOK'
    <2>1. x \notin resumable
        BY <1>1 DEF SwitchInv, ResumableOK
    <2>2. resumable \subseteq alive /\ \A v \in Workers : spare[v] \notin resumable
        BY DEF SwitchInv, ResumableOK
    <2> QED
        BY <1>1, <1>2, <1>3, <2>1, <2>2, ResumableKept DEF SwitchTypes, OnScheduler
<1> QED
    BY <1>4, <1>5, <1>6, <1>7, <1>8, <1>9 DEF SwitchInv, FramesInv

(* The place of a fiber that a worker is on.                               *)
LEMMA WhereCurIs ==
    ASSUME FiberAssumption, SwitchInv, NEW v \in Running, step[v] \notin OnScheduler
    PROVE  /\ cur[v] \in Heap \cup {Thread} /\ frame_ff[v] \in frames /\ frame_ff[v] \in FrameIds
           /\ \/ step[v] \in UserSteps /\ FiberAt("self", frame_ff[v]) = cur[v]
              \/ step[v] \in Leavings /\ fiber_to_free[v] # None /\ FiberAt("free", v) = cur[v]
              \/ /\ step[v] = "returning" /\ fiber_to_free[v] = None
                 /\ parent[frame_ff[v]] \in FrameIds /\ parent[frame_ff[v]] \in frames
                 /\ FiberAt("child", parent[frame_ff[v]]) = cur[v]
<1> USE FiberConstants
<1>1. v \in Workers /\ step[v] \in UserSteps \cup Leavings
    BY DEF Running, SwitchInv, SwitchTypes, Steps
<1>2. frame_ff[v] \in frames /\ frame_ff[v] \in FrameIds
    BY <1>1 DEF SwitchInv, WorkerOK, SwitchTypes
<1>3. cur[v] \in alive
    BY DEF SwitchInv, CurOK
<1>4. CASE step[v] \in UserSteps
    <2>1. cur[v] = fiber_self[frame_ff[v]]
        BY <1>4 DEF SwitchInv, CurOK
    <2> QED
        BY <1>2, <1>3, <1>4, <2>1 DEF FiberAt, SwitchInv, SwitchTypes, SomeFiber
<1>5. CASE step[v] \in Leavings /\ fiber_to_free[v] # None
    <2>1. cur[v] = fiber_to_free[v]
        BY <1>5 DEF SwitchInv, CurOK, Leaving
    <2> QED
        BY <1>1, <1>2, <1>5, <2>1 DEF FiberAt, SwitchInv, SwitchTypes
<1>6. CASE step[v] \in Leavings /\ fiber_to_free[v] = None
    <2>1. step[v] = "returning"
        BY <1>1, <1>6 DEF SwitchInv, WorkerOK, Leavings
    <2>2. parent[frame_ff[v]] \in frames /\ parent[frame_ff[v]] \in FrameIds
        BY <1>1, <1>2, <2>1 DEF SwitchInv, WorkerOK, TreeOK, SwitchTypes
    <2>3. cur[v] = fiber_child[parent[frame_ff[v]]]
        BY <1>6 DEF SwitchInv, CurOK, Leaving
    <2> QED
        BY <1>2, <1>3, <1>6, <2>1, <2>2, <2>3 DEF FiberAt, SwitchInv, SwitchTypes, SomeFiber
<1> QED
    BY <1>1, <1>4, <1>5, <1>6

(* A fiber that a worker is on is at one of three places.                  *)
LEMMA NotCurrent ==
    ASSUME FiberAssumption, SwitchInv, NEW v \in Running,
           NEW k \in Kinds, NEW i \in Indices(k), FiberAt(k, i) = cur[v]
    PROVE  \/ k = "self" /\ i = frame_ff[v] /\ step[v] \in UserSteps
           \/ k = "free" /\ i = v /\ step[v] \in Leavings
           \/ /\ k = "child" /\ i = parent[frame_ff[v]]
              /\ step[v] = "returning" /\ fiber_to_free[v] = None
<1> USE FiberConstants
<1>1. cur[v] \in SomeFiber /\ v \in Workers
    BY DEF Running, Kinds, Indices, FiberAt, SwitchInv, SwitchTypes, SomeFiber
<1>2. step[v] \notin OnScheduler
    BY <1>1 DEF SwitchInv, CurOK
<1>3. cur[v] # None
    BY <1>2, WhereCurIs
<1>4. \A l \in Kinds : \A j \in Indices(l) : FiberAt(l, j) = cur[v] => k = l /\ i = j
    BY <1>3 DEF SwitchInv, PlacesOK
<1>5. CASE step[v] \in UserSteps /\ FiberAt("self", frame_ff[v]) = cur[v]
    BY <1>5, <1>4, <1>2, WhereCurIs DEF Kinds, Indices
<1>6. CASE step[v] \in Leavings /\ FiberAt("free", v) = cur[v]
    BY <1>6, <1>4, <1>1 DEF Kinds, Indices
<1>7. CASE /\ step[v] = "returning" /\ fiber_to_free[v] = None
           /\ parent[frame_ff[v]] \in FrameIds
           /\ FiberAt("child", parent[frame_ff[v]]) = cur[v]
    BY <1>7, <1>4 DEF Kinds, Indices
<1> QED
    BY <1>2, <1>5, <1>6, <1>7, WhereCurIs

(* A fiber moves to a place that was empty.                                *)
LEMMA FiberMoved ==
    ASSUME FiberAssumption, SwitchInv,
           NEW k \in Kinds, NEW i \in Indices(k), NEW l \in Kinds, NEW j \in Indices(l),
           k # l \/ i # j, FiberAt(l, j) = None,
           FiberAt(k, i)' = None, FiberAt(l, j)' = FiberAt(k, i),
           \A m \in Kinds : \A n \in Indices(m) :
              (m # k \/ n # i) /\ (m # l \/ n # j) => FiberAt(m, n)' = FiberAt(m, n),
           \A x \in Heap \cup {Thread} : x \in alive' <=> x \in alive,
           \A w \in Workers : /\ step'[w] = "gone" => w \notin alive'
                              /\ w \in Running' => w \in alive'
    PROVE  PlacesOK'
<1>1. \A m, o \in Kinds : \A n \in Indices(m), p \in Indices(o) :
          FiberAt(m, n)' = FiberAt(o, p)' /\ FiberAt(m, n)' # None => m = o /\ n = p
    BY DEF SwitchInv, PlacesOK
<1>2. ASSUME NEW x \in Heap \cup {Thread}
      PROVE  x \in alive' <=> \E m \in Kinds : \E n \in Indices(m) : FiberAt(m, n)' = x
    <2>1. x # None
        BY FiberConstants
    <2>2. x \in alive' <=> \E m \in Kinds : \E n \in Indices(m) : FiberAt(m, n) = x
        BY DEF SwitchInv, PlacesOK
    <2>3. CASE FiberAt(k, i) = x
        BY <2>2, <2>3
    <2>4. CASE FiberAt(k, i) # x
        BY <2>1, <2>2, <2>4
    <2> QED
        BY <2>3, <2>4
<1> QED
    BY <1>1, <1>2 DEF PlacesOK

(* A fiber is freed.                                                       *)
LEMMA FiberFreed ==
    ASSUME FiberAssumption, SwitchInv, NEW k \in Kinds, NEW i \in Indices(k),
           FiberAt(k, i)' = None,
           \A m \in Kinds : \A n \in Indices(m) :
              m # k \/ n # i => FiberAt(m, n)' = FiberAt(m, n),
           alive' = alive \ {FiberAt(k, i)},
           \A w \in Workers : /\ step'[w] = "gone" => step[w] = "gone"
                              /\ w \in Running' => w \in Running
    PROVE  PlacesOK'
<1>1. \A m, o \in Kinds : \A n \in Indices(m), p \in Indices(o) :
          FiberAt(m, n)' = FiberAt(o, p)' /\ FiberAt(m, n)' # None => m = o /\ n = p
    BY DEF SwitchInv, PlacesOK
<1>2. ASSUME NEW x \in Heap \cup {Thread}
      PROVE  x \in alive' <=> \E m \in Kinds : \E n \in Indices(m) : FiberAt(m, n)' = x
    <2>1. x # None
        BY FiberConstants
    <2>2. x \in alive <=> \E m \in Kinds : \E n \in Indices(m) : FiberAt(m, n) = x
        BY DEF SwitchInv, PlacesOK
    <2>3. CASE FiberAt(k, i) = x
        <3>1. \A m \in Kinds : \A n \in Indices(m) : FiberAt(m, n) = x => m = k /\ n = i
            BY <2>1, <2>3 DEF SwitchInv, PlacesOK
        <3> QED
            BY <2>1, <2>3, <3>1
    <2>4. CASE FiberAt(k, i) # x
        BY <2>1, <2>2, <2>4
    <2> QED
        BY <2>3, <2>4
<1>3. FiberAt(k, i) \in SomeFiber
    BY FiberConstants DEF Kinds, Indices, FiberAt, SwitchInv, SwitchTypes, SomeFiber
<1>4. \A w \in Workers : w \in alive' <=> w \in alive
    BY <1>3, FiberConstants
<1> QED
    BY <1>1, <1>2, <1>4 DEF PlacesOK, SwitchInv

(* Without a frame to steal the fiber goes back. *)
LEMMA SwitchFailToSteal ==
    ASSUME FiberAssumption, SwitchInv, NEW w \in Workers, FailToSteal(w)
    PROVE  SwitchInv'
<1> USE FiberConstants
<1>1. /\ step[w] = "steal" /\ step' = [step EXCEPT ![w] = "sched"]
      /\ alive' = alive \ {spare[w]} /\ spare' = [spare EXCEPT ![w] = None]
    BY DEF FailToSteal, Goto
<1>2. UNCHANGED <<cur, frame_ff, next_frame_ff, last_full_frame, fiber_to_free,
                  fiber_owner, resumable, resume_sf, pending_remove_ref, tree>>
    BY DEF FailToSteal
<1>3. SwitchTypes
    BY DEF SwitchInv
<1>4. FramesInv'
    BY <1>1, <1>2, <1>3, FramesKept DEF SwitchTypes, UserSteps
<1>5. SwitchTypes'
    BY <1>1, <1>2, <1>3 DEF SwitchTypes, tree, Steps, OnScheduler
<1>6. ASSUME NEW v \in Workers PROVE WorkerOK(v)'
    <2>1. WorkerOK(v)
        BY DEF SwitchInv
    <2> QED
        BY <1>1, <1>2, <1>3, <2>1 DEF WorkerOK, SwitchTypes, Root, tree, UserSteps, Leavings
<1>7. "spare" \in Kinds /\ w \in Indices("spare") /\ FiberAt("spare", w) = spare[w]
    BY DEF Kinds, Indices, FiberAt
<1>8. Running' = Running
    BY <1>1, <1>3 DEF Running, SwitchTypes
<1>9. PlacesOK'
    <2>1. FiberAt("spare", w)' = None
        BY <1>1, <1>3 DEF FiberAt, SwitchTypes
    <2>2. \A m \in Kinds : \A n \in Indices(m) :
             m # "spare" \/ n # w => FiberAt(m, n)' = FiberAt(m, n)
        BY <1>1, <1>2, <1>3 DEF FiberAt, Kinds, Indices, SwitchTypes, tree
    <2>3. \A v \in Workers : step'[v] = "gone" => step[v] = "gone"
        BY <1>1, <1>3 DEF SwitchTypes
    <2> QED
        BY <1>1, <1>7, <1>8, <2>1, <2>2, <2>3, FiberFreed
<1>10. CurOK'
    <2>1. \A v \in Workers : Leaving(v)' = Leaving(v)
        BY <1>2 DEF Leaving, tree
    <2>2. \A v \in Running : cur[v] # spare[w]
        BY <1>7, NotCurrent
    <2> QED
        BY <1>1, <1>2, <1>3, <1>8, <2>1, <2>2
        DEF SwitchInv, CurOK, SwitchTypes, OnScheduler, UserSteps, Leavings, tree, Running
<1>11. ResumableOK'
    <2>1. spare[w] \notin resumable
        BY DEF SwitchInv, ResumableOK
    <2>2. resumable \subseteq alive /\ \A v \in Workers : spare[v] \notin resumable
        BY DEF SwitchInv, ResumableOK
    <2> QED
        BY <1>1, <1>2, <1>3, <2>1, <2>2, ResumableKept DEF SwitchTypes, OnScheduler
<1> QED
    BY <1>4, <1>5, <1>6, <1>9, <1>10, <1>11 DEF SwitchInv, FramesInv

(* The fiber left is freed when the worker is on its scheduling fiber.     *)
LEMMA SwitchRemoveReference ==
    ASSUME FiberAssumption, SwitchInv, NEW w \in Workers, RemoveReference(w)
    PROVE  SwitchInv'
<1> USE FiberConstants
<1> DEFINE x == pending_remove_ref[w]
<1>1. /\ step[w] = "switched" /\ step' = [step EXCEPT ![w] = "sched"]
      /\ alive' = alive \ {x} /\ resumable' = resumable \ {x}
      /\ pending_remove_ref' = [pending_remove_ref EXCEPT ![w] = None]
    BY DEF RemoveReference, Goto
<1>2. UNCHANGED <<cur, frame_ff, next_frame_ff, last_full_frame, fiber_to_free, spare,
                  fiber_owner, resume_sf, tree>>
    BY DEF RemoveReference, local
<1>3. SwitchTypes
    BY DEF SwitchInv
<1>4. FramesInv'
    BY <1>1, <1>2, <1>3, FramesKept DEF SwitchTypes, UserSteps
<1>5. SwitchTypes'
    BY <1>1, <1>2, <1>3 DEF SwitchTypes, tree, Steps, OnScheduler
<1>6. ASSUME NEW v \in Workers PROVE WorkerOK(v)'
    <2>1. WorkerOK(v)
        BY DEF SwitchInv
    <2> QED
        BY <1>1, <1>2, <1>3, <2>1 DEF WorkerOK, SwitchTypes, Root, tree, UserSteps, Leavings
<1>7. "pending" \in Kinds /\ w \in Indices("pending") /\ FiberAt("pending", w) = x
    BY DEF Kinds, Indices, FiberAt
<1>8. Running' = Running
    BY <1>1, <1>3 DEF Running, SwitchTypes
<1>9. PlacesOK'
    <2>1. FiberAt("pending", w)' = None
        BY <1>1, <1>3 DEF FiberAt, SwitchTypes
    <2>2. \A m \in Kinds : \A n \in Indices(m) :
             m # "pending" \/ n # w => FiberAt(m, n)' = FiberAt(m, n)
        BY <1>1, <1>2, <1>3 DEF FiberAt, Kinds, Indices, SwitchTypes, tree
    <2>3. \A v \in Workers : step'[v] = "gone" => step[v] = "gone"
        BY <1>1, <1>3 DEF SwitchTypes
    <2> QED
        BY <1>1, <1>7, <1>8, <2>1, <2>2, <2>3, FiberFreed
<1>10. CurOK'
    <2>1. \A v \in Workers : Leaving(v)' = Leaving(v)
        BY <1>2 DEF Leaving, tree
    <2>2. \A v \in Running : cur[v] # x
        BY <1>7, NotCurrent
    <2> HIDE DEF x
    <2> QED
        BY <1>1, <1>2, <1>3, <1>8, <2>1, <2>2
        DEF SwitchInv, CurOK, SwitchTypes, OnScheduler, UserSteps, Leavings, tree, Running
<1>11. ResumableOK'
    <2>1. \A k \in Kinds : \A i \in Indices(k) :
             k # "pending" /\ FiberAt(k, i) # None => FiberAt(k, i) # x
        BY <1>7 DEF SwitchInv, PlacesOK
    <2>2. \A f \in FrameIds : /\ fiber_self[f] # None => fiber_self[f] # x
                              /\ fiber_child[f] # None => fiber_child[f] # x
        BY <2>1 DEF Kinds, Indices, FiberAt
    <2>3. resumable \subseteq alive /\ \A v \in Workers : spare[v] \notin resumable
        BY DEF SwitchInv, ResumableOK
    <2> HIDE DEF x
    <2> QED
        BY <1>1, <1>2, <1>3, <2>2, <2>3, ResumableKept DEF SwitchTypes, OnScheduler
<1> QED
    BY <1>4, <1>5, <1>6, <1>9, <1>10, <1>11 DEF SwitchInv, FramesInv

(* The worker goes on in user code, on the fiber of its frame.             *)
LEMMA SwitchEnterUserCode ==
    ASSUME FiberAssumption, SwitchInv, NEW w \in Workers, EnterUserCode(w)
    PROVE  SwitchInv'
<1> USE FiberConstants
<1>1. /\ step[w] \in {"started", "resumed"} /\ step' = [step EXCEPT ![w] = "user"]
      /\ resume_sf' \subseteq resume_sf
    BY DEF EnterUserCode, Run, ResumeAfterSwitch, TakeResumeSf, Goto
<1>2. UNCHANGED <<cur, frame_ff, next_frame_ff, last_full_frame, fiber_to_free, spare, alive,
                  fiber_owner, resumable, pending_remove_ref, tree>>
    BY DEF EnterUserCode, local
<1>3. SwitchTypes
    BY DEF SwitchInv
<1>4. FramesInv'
    BY <1>1, <1>2, <1>3, FramesKept DEF SwitchTypes, UserSteps
<1>5. SwitchTypes'
    BY <1>1, <1>2, <1>3 DEF SwitchTypes, tree, Steps, UserSteps
<1>6. ASSUME NEW v \in Workers PROVE WorkerOK(v)'
    <2>1. WorkerOK(v)
        BY DEF SwitchInv
    <2> QED
        BY <1>1, <1>2, <1>3, <2>1 DEF WorkerOK, SwitchTypes, Root, tree, UserSteps, Leavings
<1>7. Running' = Running
    BY <1>1, <1>3 DEF Running, SwitchTypes
<1>8. PlacesOK'
    BY <1>1, <1>2, <1>3, <1>7 DEF SwitchInv, PlacesOK, FiberAt, SwitchTypes, tree
<1>9. CurOK'
    <2>1. \A v \in Workers : Leaving(v)' = Leaving(v)
        BY <1>2 DEF Leaving, tree
    <2> QED
        BY <1>1, <1>2, <1>3, <1>7, <2>1
        DEF SwitchInv, CurOK, SwitchTypes, OnScheduler, UserSteps, Leavings, tree, Running
<1>10. ResumableOK'
    BY <1>1, <1>2, <1>3 DEF SwitchInv, ResumableOK, SwitchTypes, UserSteps, Leavings, tree
<1> QED
    BY <1>4, <1>5, <1>6, <1>8, <1>9, <1>10 DEF SwitchInv, FramesInv

(* A worker that is on its scheduling fiber, or the user that is on none,  *)
(* ends. *)
LEMMA SwitchEnd ==
    ASSUME FiberAssumption, SwitchInv, NEW w \in Workers, NEW from \in {"sched", "out"},
           FreeSchedulingFiber(w, from), step[User] = "out"
    PROVE  SwitchInv'
<1> USE FiberConstants
<1>1. /\ step[w] = from /\ step' = [step EXCEPT ![w] = "gone"]
      /\ cur' = [cur EXCEPT ![w] = None]
      /\ alive' = alive \ {w} /\ resumable' = resumable \ {w}
      /\ fiber_owner' = [fiber_owner EXCEPT ![w] = None]
    BY DEF FreeSchedulingFiber, Goto
<1>2. UNCHANGED <<frame_ff, next_frame_ff, last_full_frame, fiber_to_free, spare,
                  pending_remove_ref, resume_sf, tree>>
    BY DEF FreeSchedulingFiber, local
<1>3. SwitchTypes
    BY DEF SwitchInv
<1>4. frames = {}
    BY NoFrames DEF SwitchInv, TreeOK
<1>5. FramesInv'
    BY <1>1, <1>2, <1>3, FramesKept DEF SwitchTypes, UserSteps
<1>6. SwitchTypes'
    BY <1>1, <1>2, <1>3 DEF SwitchTypes, tree, Steps
<1>7. ASSUME NEW v \in Workers PROVE WorkerOK(v)'
    <2>1. WorkerOK(v)
        BY DEF SwitchInv
    <2> QED
        BY <1>1, <1>2, <1>3, <1>4, <2>1 DEF WorkerOK, SwitchTypes, Root, tree, UserSteps, Leavings
<1>8. Running' = Running \ {w}
    BY <1>1, <1>3 DEF Running, SwitchTypes
<1>9. PlacesOK'
    <2>1. \A k \in Kinds : \A i \in Indices(k) : FiberAt(k, i)' = FiberAt(k, i)
        BY <1>2 DEF FiberAt, tree
    <2>2. w \notin Heap \cup {Thread}
        BY DEF SomeFiber
    <2> QED
        BY <1>1, <1>3, <1>8, <2>1, <2>2 DEF SwitchInv, PlacesOK, SwitchTypes, Running
<1>10. ASSUME NEW v \in Running, v # w
       PROVE  cur[v] = v /\ step[v] \in OnScheduler
    <2>1. v \in Workers /\ frame_ff[v] = NullFrame
        BY <1>4 DEF SwitchInv, WorkerOK, Running
    <2>2. step[v] \in OnScheduler
        BY <2>1, <1>10 DEF SwitchInv, WorkerOK, SwitchTypes, Steps, Running
    <2> QED
        BY <2>2 DEF SwitchInv, CurOK
<1>11. CurOK'
    <2>1. \A v \in Running' : v \in Running /\ v # w /\ v \in Workers /\ cur'[v] = v /\ step'[v] = step[v]
        BY <1>1, <1>3, <1>8, <1>10 DEF SwitchTypes, Running
    <2>2. \A v \in Running' : v \in alive /\ v \notin resumable /\ fiber_owner[v] = v
        BY <2>1, <1>10 DEF SwitchInv, CurOK
    <2>3. \A v \in Running' : v \in alive' /\ v \notin resumable' /\ fiber_owner'[v] = v
        BY <2>1, <2>2, <1>1, <1>3 DEF SwitchTypes
    <2> QED
        BY <2>1, <2>3, <1>10 DEF CurOK, OnScheduler, UserSteps, Leavings
<1>12. ResumableOK'
    <2>1. \A v \in Workers : step[v] \notin UserSteps \cup Leavings
        BY <1>4 DEF SwitchInv, WorkerOK
    <2>2. resume_sf = {}
        BY <2>1 DEF SwitchInv, ResumableOK
    <2>3. \A v \in Workers : next_frame_ff[v] = NullFrame /\ spare[v] # w
        BY <1>4, <1>3 DEF SwitchInv, WorkerOK, SwitchTypes, SomeFiber
    <2> QED
        BY <1>1, <1>2, <1>4, <2>2, <2>3 DEF SwitchInv, ResumableOK, tree
<1> QED
    BY <1>5, <1>6, <1>7, <1>9, <1>11, <1>12 DEF SwitchInv, FramesInv

(* The worker goes over to its scheduling fiber; the one it leaves is to   *)
(* be freed there or can be resumed. *)
LEMMA SwitchLongjmp ==
    ASSUME FiberAssumption, SwitchInv, NEW w \in Workers, LongjmpIntoRuntime(w)
    PROVE  SwitchInv'
<1> USE FiberConstants
<1> DEFINE x == Leaving(w)
           to == IF step[w] = "returning" THEN "do_return" ELSE "do_sync"
<1>1. /\ step[w] \in Leavings /\ step' = [step EXCEPT ![w] = to]
      /\ cur' = [cur EXCEPT ![w] = w]
      /\ fiber_owner' = [fiber_owner EXCEPT ![w] = fiber_owner[x], ![x] = None]
      /\ resume_sf' = resume_sf \ {x}
      /\ fiber_to_free' = [fiber_to_free EXCEPT ![w] = None]
      /\ IF fiber_to_free[w] # None
         THEN /\ pending_remove_ref' = [pending_remove_ref EXCEPT ![w] = x]
              /\ resumable' = resumable \ {w}
         ELSE pending_remove_ref' = pending_remove_ref /\ resumable' = (resumable \cup {x}) \ {w}
    BY DEF LongjmpIntoRuntime, Goto, Leavings, PassOwner, ResumeOther,
           SuspendSelfAndResumeOther, RemoveReferenceFromSelfAndResumeOther
<1>2. UNCHANGED <<frame_ff, next_frame_ff, last_full_frame, spare, alive, tree>>
    BY DEF LongjmpIntoRuntime
<1>3. SwitchTypes
    BY DEF SwitchInv
<1>4. /\ w \in Running /\ step[w] \notin OnScheduler /\ cur[w] = x
      /\ x \in Heap \cup {Thread} /\ x \notin Workers /\ x # None /\ x \in Fibers /\ w \in Fibers
    <2>1. w \in Running /\ step[w] \notin OnScheduler
        BY <1>1 DEF Running, Leavings, OnScheduler
    <2>2. cur[w] = x
        BY <1>1, <2>1 DEF SwitchInv, CurOK
    <2> HIDE DEF x
    <2> QED
        BY <2>1, <2>2, WhereCurIs DEF SomeFiber
<1>5. /\ fiber_to_free[w] # None => x = fiber_to_free[w]
      /\ fiber_to_free[w] = None => step[w] = "returning" /\ x = fiber_child[parent[frame_ff[w]]]
    BY <1>1 DEF Leaving, SwitchInv, WorkerOK, Leavings
<1>6. /\ w \in alive /\ x \in alive /\ x \notin resumable /\ fiber_owner[x] = w
      /\ pending_remove_ref[w] = None
    BY <1>1, <1>4 DEF SwitchInv, CurOK, PlacesOK, WorkerOK, Leavings
<1> HIDE DEF x
<1>7. FramesInv'
    BY <1>1, <1>2, <1>3, FramesKept DEF SwitchTypes, UserSteps, Leavings
<1>8. SwitchTypes'
    <2>1. cur' \in [Workers -> Fibers \cup {None}] /\ step' \in [Workers -> Steps]
        <3>1. to \in Steps
            BY DEF Steps, OnScheduler
        <3>2. x \in Fibers /\ w \in Fibers
            BY <1>4
        <3> HIDE DEF to
        <3> QED
            BY <1>1, <1>3, <3>1, <3>2 DEF SwitchTypes
    <2>2. fiber_to_free' \in [Workers -> Heap \cup {None}]
        BY <1>1, <1>3 DEF SwitchTypes
    <2>3. pending_remove_ref' \in [Fibers -> Heap \cup {None}]
        <3>1. fiber_to_free[w] # None => x \in Heap
            BY <1>3, <1>5 DEF SwitchTypes
        <3>2. CASE fiber_to_free[w] # None
            <4>1. pending_remove_ref' = [pending_remove_ref EXCEPT ![w] = x]
                BY <3>2, <1>1
            <4>2. pending_remove_ref \in [Fibers -> Heap \cup {None}]
                BY <1>3 DEF SwitchTypes
            <4> QED
                BY <3>1, <3>2, <4>1, <4>2
        <3>3. CASE fiber_to_free[w] = None
            BY <3>3, <1>1, <1>3 DEF SwitchTypes
        <3> QED
            BY <3>2, <3>3
    <2>4. fiber_owner' \in [Fibers -> Workers \cup {None}]
        BY <1>1, <1>3, <1>6 DEF SwitchTypes
    <2>5. resumable' \subseteq Fibers /\ resume_sf' \subseteq Fibers
        BY <1>1, <1>3, <1>4 DEF SwitchTypes
    <2>6. /\ frame_ff' = frame_ff /\ next_frame_ff' = next_frame_ff /\ spare' = spare
          /\ last_full_frame' = last_full_frame /\ alive' = alive /\ frames' = frames
          /\ parent' = parent /\ kids' = kids /\ join_counter' = join_counter
          /\ fiber_self' = fiber_self /\ fiber_child' = fiber_child /\ synched' = synched
          /\ sync_master' = sync_master
        BY <1>2 DEF tree
    <2> QED
        BY <1>3, <2>1, <2>2, <2>3, <2>4, <2>5, <2>6 DEF SwitchTypes
<1>9. ASSUME NEW v \in Workers PROVE WorkerOK(v)'
    <2>1. WorkerOK(v) /\ v \in Fibers
        BY DEF SwitchInv
    <2>2. frame_ff' = frame_ff /\ next_frame_ff' = next_frame_ff /\ spare' = spare
          /\ synched' = synched /\ parent' = parent /\ frames' = frames /\ Root' = Root
        BY <1>2 DEF tree, Root
    <2>3. CASE v = w
        <3>1. /\ step'[w] = to /\ to \in {"do_return", "do_sync"}
              /\ step[w] = "returning" => to = "do_return"
              /\ step[w] = "syncing" => to = "do_sync"
              /\ fiber_to_free'[w] = None
            BY <1>1, <1>3 DEF SwitchTypes
        <3> HIDE DEF to
        <3> QED
            BY <1>1, <2>1, <2>2, <2>3, <3>1 DEF WorkerOK, UserSteps, Leavings
    <2>4. CASE v # w
        <3>1. step'[v] = step[v] /\ fiber_to_free'[v] = fiber_to_free[v]
              /\ pending_remove_ref'[v] = pending_remove_ref[v]
            BY <1>1, <1>3, <2>1, <2>4 DEF SwitchTypes
        <3> QED
            BY <2>1, <2>2, <3>1 DEF WorkerOK
    <2> QED
        BY <2>3, <2>4
<1>10. Running' = Running
    BY <1>1, <1>3 DEF Running, SwitchTypes, Leavings
<1>11. PlacesOK'
    <2>1. \A v \in Workers : step'[v] = "gone" => step[v] = "gone"
        BY <1>1, <1>3 DEF SwitchTypes
    <2>2. CASE fiber_to_free[w] # None
        <3>1. /\ "free" \in Kinds /\ w \in Indices("free") /\ FiberAt("free", w) = x
              /\ "pending" \in Kinds /\ w \in Indices("pending") /\ FiberAt("pending", w) = None
            BY <2>2, <1>5, <1>6 DEF Kinds, Indices, FiberAt
        <3>2. FiberAt("free", w)' = None /\ FiberAt("pending", w)' = x
            BY <2>2, <1>1, <1>3, <1>4 DEF FiberAt, SwitchTypes
        <3>3. \A m \in Kinds : \A n \in Indices(m) :
                (m # "free" \/ n # w) /\ (m # "pending" \/ n # w) => FiberAt(m, n)' = FiberAt(m, n)
            BY <2>2, <1>1, <1>2, <1>3 DEF FiberAt, Kinds, Indices, SwitchTypes, tree
        <3>4. \A y \in Heap \cup {Thread} : y \in alive' <=> y \in alive
            BY <1>2
        <3>5. \A v \in Workers : /\ step'[v] = "gone" => v \notin alive'
                                 /\ v \in Running' => v \in alive'
            BY <1>2, <1>10, <2>1 DEF SwitchInv, PlacesOK
        <3> QED
            BY <3>1, <3>2, <3>3, <3>4, <3>5, FiberMoved
    <2>3. CASE fiber_to_free[w] = None
        <3>1. \A k \in Kinds : \A i \in Indices(k) : FiberAt(k, i)' = FiberAt(k, i)
            BY <2>3, <1>1, <1>2, <1>3 DEF FiberAt, Kinds, Indices, SwitchTypes, tree
        <3> QED
            BY <3>1, <1>2, <1>10, <2>1 DEF SwitchInv, PlacesOK
    <2> QED
        BY <2>2, <2>3
<1>12. ASSUME NEW v \in Running, v # w
       PROVE  cur[v] # x /\ cur[v] # w /\ v \in Workers
    <2>1. v \in Workers /\ cur[v] # x
        BY <1>4, <1>12 DEF SwitchInv, CurOK, Running
    <2>2. CASE step[v] \in OnScheduler
        BY <2>1, <2>2, <1>12 DEF SwitchInv, CurOK
    <2>3. CASE step[v] \notin OnScheduler
        BY <2>1, <2>3, WhereCurIs DEF SomeFiber
    <2> QED
        BY <2>1, <2>2, <2>3
<1>13. CurOK'
    <2>1. cur'[w] = w /\ step'[w] \in OnScheduler /\ fiber_owner'[w] = w
        <3>1. [fiber_owner EXCEPT ![w] = fiber_owner[x], ![x] = None][w] = fiber_owner[x]
            BY <1>3, <1>4 DEF SwitchTypes
        <3> QED
            BY <3>1, <1>1, <1>3, <1>6 DEF SwitchTypes, OnScheduler
    <2>2. ASSUME NEW v \in Running, v # w
          PROVE  /\ cur'[v] = cur[v] /\ step'[v] = step[v] /\ Leaving(v)' = Leaving(v)
                 /\ fiber_owner'[cur[v]] = fiber_owner[cur[v]] /\ fiber_owner'[v] = fiber_owner[v]
                 /\ cur[v] \in resumable' <=> cur[v] \in resumable
        <3>1. v \in Workers /\ v # x /\ cur[v] # x /\ cur[v] # w /\ cur[v] \in Fibers
            BY <1>3, <1>4, <1>12, <2>2 DEF SwitchInv, CurOK, SwitchTypes
        <3>2. cur'[v] = cur[v] /\ step'[v] = step[v] /\ fiber_to_free'[v] = fiber_to_free[v]
            BY <3>1, <2>2, <1>1, <1>3 DEF SwitchTypes
        <3>3. fiber_owner'[cur[v]] = fiber_owner[cur[v]] /\ fiber_owner'[v] = fiber_owner[v]
            BY <3>1, <2>2, <1>1, <1>3 DEF SwitchTypes
        <3> QED
            BY <3>1, <3>2, <3>3, <1>1, <1>2 DEF Leaving, tree
    <2>3. w \in alive' /\ w \notin resumable'
        BY <1>1, <1>2, <1>6
    <2>4. fiber_self' = fiber_self /\ frame_ff' = frame_ff /\ alive' = alive
        BY <1>2 DEF tree
    <2>5. \A v, u \in Running' : cur'[v] = cur'[u] => v = u
        BY <1>10, <1>12, <2>1, <2>2 DEF SwitchInv, CurOK
    <2>6. ASSUME NEW v \in Running', v = w
          PROVE  /\ cur'[v] \in alive' \ resumable'
                 /\ step'[v] \in OnScheduler <=> cur'[v] = v
                 /\ step'[v] \notin UserSteps \cup Leavings \cup {"started"}
                 /\ fiber_owner'[cur'[v]] = v /\ cur'[v] = v
        BY <2>1, <2>3, <2>6 DEF OnScheduler, UserSteps, Leavings
    <2>7. ASSUME NEW v \in Running', v # w
          PROVE  /\ cur'[v] \in alive' \ resumable'
                 /\ step'[v] \in OnScheduler <=> cur'[v] = v
                 /\ step'[v] \in UserSteps => cur'[v] = fiber_self'[frame_ff'[v]]
                 /\ step'[v] \in Leavings => cur'[v] = Leaving(v)'
                 /\ step'[v] = "started" => cur'[v] \in Heap
                 /\ fiber_owner'[cur'[v]] = v
                 /\ cur'[v] # v => fiber_owner'[v] = None \/ cur'[v] = Thread
        BY <2>2, <2>4, <2>7, <1>10 DEF SwitchInv, CurOK
    <2> QED
        BY <2>5, <2>6, <2>7 DEF CurOK
<1>14. ResumableOK'
    <2>1. \A k \in {"self", "spare"} : \A i \in Indices(k) : FiberAt(k, i) # x
        BY <1>1, <1>4, NotCurrent DEF Kinds, UserSteps, Leavings
    <2>2. /\ \A f \in FrameIds : fiber_self[f] # x /\ fiber_self[f] # w /\ fiber_child[f] # w
          /\ \A v \in Workers : spare[v] # x /\ spare[v] # w
        <3>1. \A f \in FrameIds : fiber_self[f] # x
            BY <2>1 DEF Indices, FiberAt
        <3>2. \A v \in Workers : spare[v] # x
            BY <2>1 DEF Indices, FiberAt
        <3> QED
            BY <3>1, <3>2, <1>3 DEF SwitchTypes, SomeFiber
    <2>3. resumable' \subseteq alive'
        BY <1>1, <1>2, <1>6 DEF SwitchInv, ResumableOK
    <2>4. \A y : y # x /\ y # w => (y \in resumable' <=> y \in resumable)
        BY <1>1
    <2>5. ASSUME NEW v \in Workers
          PROVE  /\ spare[v] \notin resumable'
                 /\ next_frame_ff[v] # NullFrame =>
                      IF next_frame_ff[v] \in synched THEN fiber_self[next_frame_ff[v]] \in resumable'
                      ELSE fiber_self[next_frame_ff[v]] \in Heap \ resumable'
        <3>1. next_frame_ff[v] # NullFrame => next_frame_ff[v] \in FrameIds
            BY <1>3 DEF SwitchTypes
        <3> QED
            BY <2>2, <2>4, <3>1 DEF SwitchInv, ResumableOK
    <2>6. ASSUME NEW p \in frames, fiber_child[p] # None
          PROVE  \/ fiber_child[p] \in resumable'
                 \/ \E v \in Workers : step'[v] = "returning" /\ parent[frame_ff[v]] = p
                                       /\ fiber_to_free'[v] = None
        <3>1. p \in FrameIds /\ fiber_child[p] # w
            BY <2>2, <1>3 DEF SwitchTypes
        <3>2. CASE fiber_child[p] \in resumable
            BY <3>1, <3>2, <1>1
        <3>3. ASSUME NEW v \in Workers, step[v] = "returning", parent[frame_ff[v]] = p,
                     fiber_to_free[v] = None
              PROVE  \/ fiber_child[p] \in resumable'
                     \/ step'[v] = "returning" /\ fiber_to_free'[v] = None
            <4>1. CASE v = w
                <5>1. x = fiber_child[p] /\ x # w
                    BY <3>1, <3>3, <4>1, <1>5
                <5> QED
                    BY <5>1, <3>3, <4>1, <1>1
            <4>2. CASE v # w
                BY <4>2, <3>3, <1>1, <1>3 DEF SwitchTypes
            <4> QED
                BY <4>1, <4>2
        <3> QED
            BY <2>6, <3>2, <3>3 DEF SwitchInv, ResumableOK
    <2>7. ASSUME NEW y \in resume_sf'
          PROVE  \E v \in Workers : cur'[v] = y /\ step'[v] \in UserSteps \cup Leavings
        <3>1. PICK v \in Workers : cur[v] = y /\ step[v] \in UserSteps \cup Leavings
            BY <2>7, <1>1 DEF SwitchInv, ResumableOK
        <3>2. v # w
            BY <3>1, <2>7, <1>1, <1>4
        <3> QED
            BY <3>1, <3>2, <1>1, <1>3 DEF SwitchTypes
    <2>8. /\ spare' = spare /\ next_frame_ff' = next_frame_ff /\ synched' = synched
          /\ fiber_self' = fiber_self /\ fiber_child' = fiber_child /\ frames' = frames
          /\ parent' = parent /\ frame_ff' = frame_ff
        BY <1>2 DEF tree
    <2> QED
        BY <2>3, <2>5, <2>6, <2>7, <2>8 DEF ResumableOK
<1> QED
    BY <1>7, <1>8, <1>9, <1>11, <1>13, <1>14 DEF SwitchInv, FramesInv

(* The scheduling fiber resumes the fiber of the frame it has, which is    *)
(* new, or waits since its user left it. *)
LEMMA SwitchResumeUserCode ==
    ASSUME FiberAssumption, SwitchInv, NEW w \in Workers, ResumeUserCode(w)
    PROVE  SwitchInv'
<1> USE FiberConstants
<1> DEFINE f == next_frame_ff[w]
           x == fiber_self[f]
           to == IF x \in resumable THEN "resumed" ELSE "started"
<1>1. /\ f # NullFrame /\ step[w] = "sched" /\ step' = [step EXCEPT ![w] = to]
      /\ cur' = [cur EXCEPT ![w] = x]
      /\ fiber_owner' = [fiber_owner EXCEPT ![x] = fiber_owner[w], ![w] = None]
      /\ resumable' = (resumable \cup {w}) \ {x}
      /\ resume_sf' = (resume_sf \ {w}) \cup {x}
      /\ frame_ff' = [frame_ff EXCEPT ![w] = f]
      /\ next_frame_ff' = [next_frame_ff EXCEPT ![w] = NullFrame]
    BY DEF ResumeUserCode, Goto, PassOwner, ResumeOther, SuspendSelfAndResumeOther
<1>2. UNCHANGED <<pending_remove_ref, last_full_frame, fiber_to_free, spare, alive, tree>>
    BY DEF ResumeUserCode, SuspendSelfAndResumeOther
<1>3. SwitchTypes
    BY DEF SwitchInv
<1>4. f \in frames /\ f \in FrameIds
    BY <1>1, <1>3 DEF SwitchInv, WorkerOK, SwitchTypes
<1>5. x # None /\ x \in Heap \cup {Thread} /\ x \notin Workers /\ x \in Fibers /\ w \in Fibers
    BY <1>1, <1>3, <1>4 DEF SwitchInv, FrameOK, SwitchTypes, SomeFiber
<1>6. "self" \in Kinds /\ f \in Indices("self") /\ FiberAt("self", f) = x
    BY <1>4 DEF Kinds, Indices, FiberAt
<1>7. /\ f \in synched => x \in resumable
      /\ f \notin synched => x \in Heap /\ x \notin resumable
    BY <1>1 DEF SwitchInv, ResumableOK
<1>8. to \in {"resumed", "started"} /\ (to = "resumed" <=> f \in synched)
      /\ (to = "started" => x \in Heap)
    BY <1>7
<1>9. x \in alive
    BY <1>5, <1>6 DEF SwitchInv, PlacesOK
<1>10. /\ w \in Running /\ w \in alive /\ fiber_owner[w] = w /\ cur[w] = w
       /\ frame_ff[w] = NullFrame /\ pending_remove_ref[w] = None
       /\ spare[w] = None /\ fiber_to_free[w] = None
    <2>1. w \in Running
        BY <1>1 DEF Running
    <2>2. cur[w] = w /\ fiber_owner[w] = w
        BY <1>1, <2>1 DEF SwitchInv, CurOK, OnScheduler
    <2>3. WorkerOK(w)
        BY DEF SwitchInv
    <2> QED
        BY <1>1, <2>1, <2>2, <2>3 DEF SwitchInv, PlacesOK, WorkerOK, UserSteps, Leavings
<1>11. \A v \in Workers : /\ frame_ff[v] # f
                          /\ v # w => next_frame_ff[v] # f
    BY <1>1 DEF SwitchInv, HoldersOK
<1> HIDE DEF f, x, to
<1>12. /\ frames' = frames /\ parent' = parent /\ kids' = kids /\ join_counter' = join_counter
       /\ fiber_self' = fiber_self /\ fiber_child' = fiber_child /\ synched' = synched
       /\ sync_master' = sync_master /\ last_full_frame' = last_full_frame
       /\ fiber_to_free' = fiber_to_free /\ spare' = spare /\ alive' = alive
       /\ pending_remove_ref' = pending_remove_ref
    BY <1>2 DEF tree
<1>13. \A v \in Workers :
          /\ frame_ff'[v] = IF v = w THEN f ELSE frame_ff[v]
          /\ next_frame_ff'[v] = IF v = w THEN NullFrame ELSE next_frame_ff[v]
          /\ step'[v] = IF v = w THEN to ELSE step[v]
          /\ cur'[v] = IF v = w THEN x ELSE cur[v]
    BY <1>1, <1>3 DEF SwitchTypes
<1>14. next_frame_ff[w] = f
    BY DEF f
<1>15. Root' = Root /\ \A g : Children(g)' = Children(g)
    BY <1>12 DEF Root, Children
<1>16. \A g \in frames : Held(g)' <=> Held(g)
    BY <1>3, <1>10, <1>13, <1>14 DEF Held, SwitchTypes
<1>17. \A g \in FrameIds : Returned(g)' <=> Returned(g)
    BY <1>1, <1>8, <1>13 DEF Returned
<1>18. HoldersOK'
    BY <1>10, <1>11, <1>13, <1>14 DEF SwitchInv, HoldersOK
<1>19. TreeOK'
    BY <1>1, <1>8, <1>12, <1>13, <1>15 DEF SwitchInv, TreeOK
<1>20. MasterOK'
    BY <1>4, <1>10, <1>12, <1>13, <1>14, <1>15 DEF SwitchInv, MasterOK
<1>21. ASSUME NEW g \in frames PROVE FrameOK(g)'
    <2>1. FrameOK(g) /\ g \in FrameIds
        BY <1>3 DEF SwitchInv, SwitchTypes
    <2>2. /\ Children(g)' = Children(g) /\ (Held(g)' <=> Held(g))
          /\ Cardinality(Children(g))' = Cardinality(Children(g))
        BY <1>15, <1>16
    <2>3. (\E v \in Workers : next_frame_ff'[v] = g \/ (frame_ff'[v] = g /\ step'[v] \in UserSteps))
            <=> (\E v \in Workers : next_frame_ff[v] = g \/ (frame_ff[v] = g /\ step[v] \in UserSteps))
        BY <1>1, <1>8, <1>10, <1>13, <1>14, <2>1 DEF UserSteps
    <2> QED
        BY <2>1, <2>2, <2>3, <1>12 DEF FrameOK
<1>22. ASSUME NEW p \in frames PROVE KidsOK(p)'
    <2>1. KidsOK(p) /\ Children(p)' = Children(p)
        BY <1>15 DEF SwitchInv
    <2> QED
        BY <2>1, <1>12, <1>17 DEF KidsOK
<1>23. \A g \in FrameIds \ frames : GoneFrameOK(g)'
    BY <1>12 DEF SwitchInv, GoneFrameOK
<1>24. \E home \in SUBSET FrameIds : HomeOK(home)'
    BY <1>12, <1>15 DEF SwitchInv, HomeOK
<1>25. SwitchTypes'
    <2>1. cur' \in [Workers -> Fibers \cup {None}] /\ step' \in [Workers -> Steps]
        BY <1>1, <1>3, <1>5, <1>8 DEF SwitchTypes, Steps, UserSteps
    <2>2. /\ frame_ff' \in [Workers -> FrameIds \cup {NullFrame}]
          /\ next_frame_ff' \in [Workers -> FrameIds \cup {NullFrame}]
        BY <1>1, <1>3, <1>4 DEF SwitchTypes
    <2>3. fiber_owner' \in [Fibers -> Workers \cup {None}]
        BY <1>1, <1>3, <1>10 DEF SwitchTypes
    <2>4. resumable' \subseteq Fibers /\ resume_sf' \subseteq Fibers
        BY <1>1, <1>3, <1>5 DEF SwitchTypes
    <2> QED
        BY <1>3, <1>12, <2>1, <2>2, <2>3, <2>4 DEF SwitchTypes
<1>26. ASSUME NEW v \in Workers PROVE WorkerOK(v)'
    <2>1. WorkerOK(v)
        BY DEF SwitchInv
    <2>2. CASE v = w
        BY <2>2, <1>4, <1>8, <1>10, <1>12, <1>13 DEF WorkerOK, UserSteps, Leavings
    <2>3. CASE v # w
        BY <2>1, <2>3, <1>12, <1>13, <1>15 DEF WorkerOK
    <2> QED
        BY <2>2, <2>3
<1>27. Running' = Running
    BY <1>1, <1>8, <1>13 DEF Running
<1>28. PlacesOK'
    <2>1. \A k \in Kinds : \A i \in Indices(k) : FiberAt(k, i)' = FiberAt(k, i)
        BY <1>12 DEF FiberAt
    <2>2. \A v \in Workers : step'[v] = "gone" => step[v] = "gone"
        BY <1>8, <1>13
    <2> QED
        BY <2>1, <2>2, <1>12, <1>27 DEF SwitchInv, PlacesOK
<1>29. ASSUME NEW v \in Running, v # w
       PROVE  cur[v] # x /\ cur[v] # w /\ v \in Workers
    <2>1. v \in Workers /\ cur[v] # w
        BY <1>10, <1>29 DEF SwitchInv, CurOK, Running
    <2>2. cur[v] # x
        BY <2>1, <1>6, <1>11, NotCurrent
    <2> QED
        BY <2>1, <2>2
<1>30. CurOK'
    <2>1. fiber_owner'[x] = w /\ fiber_owner'[w] = None
        BY <1>1, <1>3, <1>5, <1>10 DEF SwitchTypes
    <2>2. ASSUME NEW v \in Running, v # w
          PROVE  /\ cur'[v] = cur[v] /\ step'[v] = step[v] /\ Leaving(v)' = Leaving(v)
                 /\ fiber_owner'[cur[v]] = fiber_owner[cur[v]] /\ fiber_owner'[v] = fiber_owner[v]
                 /\ cur[v] \in resumable' <=> cur[v] \in resumable
                 /\ frame_ff'[v] = frame_ff[v]
        <3>1. v \in Workers /\ v # x /\ cur[v] # x /\ cur[v] # w /\ cur[v] \in Fibers
            BY <1>3, <1>5, <1>29, <2>2 DEF SwitchInv, CurOK, SwitchTypes
        <3>2. cur'[v] = cur[v] /\ step'[v] = step[v] /\ frame_ff'[v] = frame_ff[v]
            BY <3>1, <2>2, <1>13
        <3>3. fiber_owner'[cur[v]] = fiber_owner[cur[v]] /\ fiber_owner'[v] = fiber_owner[v]
            BY <3>1, <2>2, <1>1, <1>3 DEF SwitchTypes
        <3> QED
            BY <3>1, <3>2, <3>3, <1>1, <1>12 DEF Leaving
    <2>3. x \in alive' /\ x \notin resumable'
        BY <1>1, <1>9, <1>12
    <2>4. \A v, u \in Running' : cur'[v] = cur'[u] => v = u
        <3>1. \A v \in Running' : cur'[v] = IF v = w THEN x ELSE cur[v]
            BY <1>13 DEF Running
        <3> QED
            BY <3>1, <1>27, <1>29 DEF SwitchInv, CurOK
    <2>5. ASSUME NEW v \in Running', v = w
          PROVE  /\ cur'[v] \in alive' \ resumable'
                 /\ step'[v] \in OnScheduler <=> cur'[v] = v
                 /\ step'[v] \in UserSteps => cur'[v] = fiber_self'[frame_ff'[v]]
                 /\ step'[v] \notin Leavings
                 /\ step'[v] = "started" => cur'[v] \in Heap
                 /\ fiber_owner'[cur'[v]] = v /\ fiber_owner'[v] = None
        BY <2>1, <2>3, <2>5, <1>5, <1>8, <1>12, <1>13 DEF OnScheduler, UserSteps, Leavings, x
    <2>6. ASSUME NEW v \in Running', v # w
          PROVE  /\ cur'[v] \in alive' \ resumable'
                 /\ step'[v] \in OnScheduler <=> cur'[v] = v
                 /\ step'[v] \in UserSteps => cur'[v] = fiber_self'[frame_ff'[v]]
                 /\ step'[v] \in Leavings => cur'[v] = Leaving(v)'
                 /\ step'[v] = "started" => cur'[v] \in Heap
                 /\ fiber_owner'[cur'[v]] = v
                 /\ cur'[v] # v => fiber_owner'[v] = None \/ cur'[v] = Thread
        BY <2>2, <2>6, <1>12, <1>27 DEF SwitchInv, CurOK
    <2> QED
        BY <2>4, <2>5, <2>6 DEF CurOK
<1>31. ResumableOK'
    <2>1. \A k \in Kinds : \A i \in Indices(k) : FiberAt(k, i) = x => k = "self" /\ i = f
        BY <1>5, <1>6 DEF SwitchInv, PlacesOK
    <2>2. /\ \A g \in FrameIds : /\ fiber_self[g] # w /\ fiber_child[g] # w /\ fiber_child[g] # x
                                 /\ g # f => fiber_self[g] # x
          /\ \A v \in Workers : spare[v] # x /\ spare[v] # w
        <3>1. \A g \in FrameIds : fiber_child[g] # x /\ (g # f => fiber_self[g] # x)
            BY <2>1 DEF Kinds, Indices, FiberAt
        <3>2. \A v \in Workers : spare[v] # x
            BY <2>1 DEF Kinds, Indices, FiberAt
        <3> QED
            BY <3>1, <3>2, <1>3 DEF SwitchTypes, SomeFiber
    <2>3. resumable' \subseteq alive'
        BY <1>1, <1>10, <1>12 DEF SwitchInv, ResumableOK
    <2>4. \A y : y # x /\ y # w => (y \in resumable' <=> y \in resumable)
        BY <1>1
    <2>5. ASSUME NEW v \in Workers
          PROVE  /\ spare[v] \notin resumable'
                 /\ next_frame_ff'[v] # NullFrame =>
                      IF next_frame_ff'[v] \in synched THEN fiber_self[next_frame_ff'[v]] \in resumable'
                      ELSE fiber_self[next_frame_ff'[v]] \in Heap \ resumable'
        <3>1. next_frame_ff[v] # NullFrame => next_frame_ff[v] \in FrameIds
            BY <1>3 DEF SwitchTypes
        <3>2. next_frame_ff'[v] # NullFrame => next_frame_ff'[v] = next_frame_ff[v] /\ next_frame_ff[v] # f
            BY <1>11, <1>13
        <3> QED
            BY <2>2, <2>4, <3>1, <3>2 DEF SwitchInv, ResumableOK
    <2>6. ASSUME NEW p \in frames, fiber_child[p] # None
          PROVE  \/ fiber_child[p] \in resumable'
                 \/ \E v \in Workers : step'[v] = "returning" /\ parent[frame_ff'[v]] = p
                                       /\ fiber_to_free[v] = None
        <3>1. p \in FrameIds /\ fiber_child[p] # w /\ fiber_child[p] # x
            BY <2>2, <1>3 DEF SwitchTypes
        <3>2. CASE fiber_child[p] \in resumable
            BY <3>1, <3>2, <1>1
        <3>3. ASSUME NEW v \in Workers, step[v] = "returning", parent[frame_ff[v]] = p,
                     fiber_to_free[v] = None
              PROVE  step'[v] = "returning" /\ parent[frame_ff'[v]] = p
            BY <3>3, <1>1, <1>13
        <3> QED
            BY <2>6, <3>2, <3>3 DEF SwitchInv, ResumableOK
    <2>7. ASSUME NEW y \in resume_sf'
          PROVE  \E v \in Workers : cur'[v] = y /\ step'[v] \in UserSteps \cup Leavings
        <3>1. CASE y = x
            BY <3>1, <1>8, <1>13 DEF UserSteps
        <3>2. CASE y \in resume_sf
            <4>1. PICK v \in Workers : cur[v] = y /\ step[v] \in UserSteps \cup Leavings
                BY <3>2 DEF SwitchInv, ResumableOK
            <4>2. v # w
                BY <4>1, <1>1 DEF UserSteps, Leavings
            <4> QED
                BY <4>1, <4>2, <1>13
        <3> QED
            BY <2>7, <3>1, <3>2, <1>1
    <2> QED
        BY <2>3, <2>5, <2>6, <2>7, <1>12 DEF ResumableOK
<1> QED
    BY <1>12, <1>18, <1>19, <1>20, <1>21, <1>22, <1>23, <1>24, <1>25, <1>26, <1>28, <1>30, <1>31
    DEF SwitchInv

(* A frame that waits at its sync leaves the fiber of its last thief.      *)
LEMMA SwitchSync ==
    ASSUME FiberAssumption, SwitchInv, NEW w \in Workers, Sync(w)
    PROVE  SwitchInv'
<1> USE FiberConstants
<1> DEFINE f == frame_ff[w]
           x == fiber_self[f]
<1>1. /\ step[w] = "user" /\ step' = [step EXCEPT ![w] = "syncing"] /\ f \notin synched
      /\ fiber_to_free' = [fiber_to_free EXCEPT ![w] = x]
      /\ fiber_self' = [fiber_self EXCEPT ![f] = None]
    BY DEF Sync, Goto
<1>2. /\ frames' = frames /\ parent' = parent /\ kids' = kids /\ join_counter' = join_counter
      /\ fiber_child' = fiber_child /\ synched' = synched /\ sync_master' = sync_master
      /\ frame_ff' = frame_ff /\ next_frame_ff' = next_frame_ff
      /\ last_full_frame' = last_full_frame /\ cur' = cur /\ spare' = spare
      /\ alive' = alive /\ fiber_owner' = fiber_owner /\ resumable' = resumable
      /\ resume_sf' = resume_sf /\ pending_remove_ref' = pending_remove_ref
    BY DEF Sync, fibers
<1>3. SwitchTypes
    BY DEF SwitchInv
<1>4. /\ f \in frames /\ f \in FrameIds /\ f # NullFrame
      /\ fiber_to_free[w] = None /\ spare[w] = None /\ pending_remove_ref[w] = None
      /\ next_frame_ff[w] = NullFrame
    <2>1. WorkerOK(w)
        BY DEF SwitchInv
    <2> QED
        BY <1>1, <1>3, <2>1 DEF WorkerOK, UserSteps, Leavings, SwitchTypes
<1>5. \A v \in Workers : /\ next_frame_ff[v] # f
                         /\ frame_ff[v] = f => v = w
    BY <1>4 DEF SwitchInv, HoldersOK
<1>6. w \in Running /\ cur[w] = x /\ step[w] \in UserSteps /\ step[w] \notin OnScheduler
    <2>1. w \in Running /\ step[w] \in UserSteps /\ step[w] \notin OnScheduler
        BY <1>1 DEF Running, UserSteps, OnScheduler
    <2> QED
        BY <2>1 DEF SwitchInv, CurOK
<1>7. x \in Heap /\ x # None
    <2>1. x \in Heap \cup {Thread}
        BY <1>6, WhereCurIs
    <2>2. x # Thread
        BY <1>1, <1>4 DEF SwitchInv, HomeOK
    <2> QED
        BY <2>1, <2>2
<1> HIDE DEF f, x
<1>8. \A v \in Workers : /\ step'[v] = IF v = w THEN "syncing" ELSE step[v]
                         /\ fiber_to_free'[v] = IF v = w THEN x ELSE fiber_to_free[v]
    BY <1>1, <1>3 DEF SwitchTypes
<1>9. \A g \in FrameIds : fiber_self'[g] = IF g = f THEN None ELSE fiber_self[g]
    BY <1>1, <1>3, <1>4 DEF SwitchTypes
<1>10. frame_ff[w] = f /\ f' = f /\ fiber_self[f] = x
    BY <1>2 DEF f, x
<1>11. Root' = Root /\ \A g : Children(g)' = Children(g) /\ (Held(g)' <=> Held(g))
    BY <1>2 DEF Root, Children, Held
<1>12. \A g \in FrameIds : Returned(g)' <=> Returned(g)
    BY <1>1, <1>2, <1>8 DEF Returned
<1>13. HoldersOK'
    BY <1>2 DEF SwitchInv, HoldersOK
<1>14. TreeOK'
    BY <1>1, <1>2, <1>8, <1>11 DEF SwitchInv, TreeOK
<1>15. MasterOK'
    BY <1>2, <1>11 DEF SwitchInv, MasterOK
<1>16. ASSUME NEW g \in frames PROVE FrameOK(g)'
    <2>1. FrameOK(g) /\ g \in FrameIds
        BY <1>3 DEF SwitchInv, SwitchTypes
    <2>2. /\ Children(g)' = Children(g) /\ (Held(g)' <=> Held(g))
          /\ Cardinality(Children(g))' = Cardinality(Children(g))
        BY <1>11
    <2>3. fiber_self'[g] # None <=>
             \E v \in Workers : next_frame_ff'[v] = g \/ (frame_ff'[v] = g /\ step'[v] \in UserSteps)
        <3>1. CASE g = f
            <4>1. \A v \in Workers : frame_ff[v] = g => step'[v] \notin UserSteps
                BY <3>1, <1>5, <1>8 DEF UserSteps
            <4> QED
                BY <3>1, <4>1, <1>2, <1>4, <1>5, <1>9
        <3>2. CASE g # f
            <4>1. \A v \in Workers : frame_ff[v] = g => step'[v] = step[v]
                BY <3>2, <1>8, <1>10
            <4> QED
                BY <3>2, <4>1, <2>1, <1>2, <1>9 DEF FrameOK
        <3> QED
            BY <3>1, <3>2
    <2> QED
        BY <2>1, <2>2, <2>3, <1>2 DEF FrameOK
<1>17. ASSUME NEW p \in frames PROVE KidsOK(p)'
    <2>1. KidsOK(p) /\ Children(p)' = Children(p)
        BY <1>11 DEF SwitchInv
    <2> QED
        BY <2>1, <1>2, <1>12 DEF KidsOK
<1>18. \A g \in FrameIds \ frames : GoneFrameOK(g)'
    BY <1>2, <1>4, <1>9 DEF SwitchInv, GoneFrameOK
<1>19. \E home \in SUBSET FrameIds : HomeOK(home)'
    <2>1. PICK home \in SUBSET FrameIds : HomeOK(home)
        BY DEF SwitchInv
    <2>2. HomeOK(home)'
        BY <2>1, <1>2, <1>3, <1>9, <1>11 DEF HomeOK, SwitchTypes
    <2> QED
        BY <2>2
<1>20. SwitchTypes'
    <2>1. step' \in [Workers -> Steps] /\ fiber_to_free' \in [Workers -> Heap \cup {None}]
        BY <1>1, <1>3, <1>7 DEF SwitchTypes, Steps, Leavings
    <2>2. fiber_self' \in [FrameIds -> SomeFiber]
        BY <1>1, <1>3 DEF SwitchTypes, SomeFiber
    <2> QED
        BY <1>2, <1>3, <2>1, <2>2 DEF SwitchTypes
<1>21. ASSUME NEW v \in Workers PROVE WorkerOK(v)'
    <2>1. WorkerOK(v)
        BY DEF SwitchInv
    <2>2. CASE v = w
        BY <2>2, <1>1, <1>2, <1>4, <1>7, <1>8, <1>10 DEF WorkerOK, UserSteps, Leavings
    <2>3. CASE v # w
        BY <2>1, <2>3, <1>2, <1>8, <1>11 DEF WorkerOK
    <2> QED
        BY <2>2, <2>3
<1>22. Running' = Running
    BY <1>1, <1>8 DEF Running
<1>23. PlacesOK'
    <2>1. /\ "self" \in Kinds /\ f \in Indices("self") /\ FiberAt("self", f) = x
          /\ "free" \in Kinds /\ w \in Indices("free") /\ FiberAt("free", w) = None
        BY <1>4, <1>10 DEF Kinds, Indices, FiberAt
    <2>2. FiberAt("self", f)' = None /\ FiberAt("free", w)' = x
        BY <1>4, <1>8, <1>9, <1>10 DEF FiberAt
    <2>3. \A m \in Kinds : \A n \in Indices(m) :
             (m # "self" \/ n # f) /\ (m # "free" \/ n # w) => FiberAt(m, n)' = FiberAt(m, n)
        BY <1>2, <1>8, <1>9 DEF FiberAt, Kinds, Indices
    <2>4. \A y \in Heap \cup {Thread} : y \in alive' <=> y \in alive
        BY <1>2
    <2>5. \A v \in Workers : /\ step'[v] = "gone" => v \notin alive'
                             /\ v \in Running' => v \in alive'
        BY <1>1, <1>2, <1>8, <1>22 DEF SwitchInv, PlacesOK
    <2> QED
        BY <2>1, <2>2, <2>3, <2>4, <2>5, <1>10, FiberMoved
<1>24. CurOK'
    <2>1. ASSUME NEW v \in Running', v = w
          PROVE  /\ cur'[v] \in alive' \ resumable'
                 /\ step'[v] \in OnScheduler <=> cur'[v] = v
                 /\ step'[v] \notin UserSteps
                 /\ cur'[v] = Leaving(v)'
                 /\ step'[v] # "started" /\ fiber_owner'[cur'[v]] = v
                 /\ cur'[v] # v => fiber_owner'[v] = None \/ cur'[v] = Thread
        <3>1. Leaving(w)' = x
            BY <1>7, <1>8 DEF Leaving
        <3>2. /\ cur[w] \in alive \ resumable /\ cur[w] # w /\ fiber_owner[cur[w]] = w
              /\ fiber_owner[w] = None \/ cur[w] = Thread
            BY <1>6 DEF SwitchInv, CurOK
        <3> QED
            BY <2>1, <3>1, <3>2, <1>2, <1>6, <1>8 DEF OnScheduler, UserSteps
    <2>2. ASSUME NEW v \in Running', v # w
          PROVE  /\ cur'[v] \in alive' \ resumable'
                 /\ step'[v] \in OnScheduler <=> cur'[v] = v
                 /\ step'[v] \in UserSteps => cur'[v] = fiber_self'[frame_ff'[v]]
                 /\ step'[v] \in Leavings => cur'[v] = Leaving(v)'
                 /\ step'[v] = "started" => cur'[v] \in Heap
                 /\ fiber_owner'[cur'[v]] = v
                 /\ cur'[v] # v => fiber_owner'[v] = None \/ cur'[v] = Thread
        <3>1. v \in Running /\ v \in Workers /\ step'[v] = step[v]
            BY <2>2, <1>8, <1>22 DEF Running
        <3>2. step[v] \in UserSteps => frame_ff[v] \in FrameIds
            BY <3>1, <1>3 DEF SwitchInv, WorkerOK, SwitchTypes
        <3>3. step[v] \in UserSteps => fiber_self'[frame_ff'[v]] = fiber_self[frame_ff[v]]
            BY <3>1, <3>2, <2>2, <1>2, <1>5, <1>9
        <3>4. Leaving(v)' = Leaving(v)
            BY <3>1, <2>2, <1>2, <1>8 DEF Leaving
        <3> QED
            BY <3>1, <3>3, <3>4, <1>2 DEF SwitchInv, CurOK
    <2> QED
        BY <2>1, <2>2, <1>2, <1>22 DEF SwitchInv, CurOK
<1>25. ResumableOK'
    <2>1. ASSUME NEW v \in Workers, next_frame_ff[v] # NullFrame
          PROVE  fiber_self'[next_frame_ff[v]] = fiber_self[next_frame_ff[v]]
        BY <2>1, <1>3, <1>5, <1>9 DEF SwitchTypes
    <2>2. ASSUME NEW v \in Workers
          PROVE  /\ step[v] = "returning" => /\ step'[v] = "returning"
                                             /\ fiber_to_free'[v] = fiber_to_free[v]
                 /\ step[v] \in UserSteps \cup Leavings => step'[v] \in UserSteps \cup Leavings
        BY <1>1, <1>8 DEF Leavings
    <2> QED
        BY <2>1, <2>2, <1>2 DEF SwitchInv, ResumableOK
<1> QED
    BY <1>2, <1>13, <1>14, <1>15, <1>16, <1>17, <1>18, <1>19, <1>20, <1>21, <1>23, <1>24, <1>25
    DEF SwitchInv

(* A child whose parent was stolen leaves its fiber to the parent, when it *)
(* is the leftmost, or to be freed. *)
LEMMA SwitchReturnFromSpawn ==
    ASSUME FiberAssumption, SwitchInv, NEW w \in Workers, ReturnFromSpawn(w)
    PROVE  SwitchInv'
<1> USE FiberConstants
<1> DEFINE f == frame_ff[w]
           p == parent[f]
           x == fiber_self[f]
           first == IsLeftmost(f)
<1>1. /\ step[w] = "user" /\ step' = [step EXCEPT ![w] = "returning"]
      /\ f \in synched /\ p # NullFrame
      /\ fiber_child' = IF first THEN [fiber_child EXCEPT ![p] = x] ELSE fiber_child
      /\ fiber_to_free' = IF first THEN fiber_to_free ELSE [fiber_to_free EXCEPT ![w] = x]
      /\ fiber_self' = [fiber_self EXCEPT ![f] = None]
      /\ kids' = [kids EXCEPT ![p] = Unlinked(p, f)]
    BY DEF ReturnFromSpawn, Goto
<1>2. /\ frames' = frames /\ parent' = parent /\ join_counter' = join_counter
      /\ synched' = synched /\ sync_master' = sync_master
      /\ frame_ff' = frame_ff /\ next_frame_ff' = next_frame_ff
      /\ last_full_frame' = last_full_frame /\ cur' = cur /\ spare' = spare
      /\ alive' = alive /\ fiber_owner' = fiber_owner /\ resumable' = resumable
      /\ resume_sf' = resume_sf /\ pending_remove_ref' = pending_remove_ref
    BY DEF ReturnFromSpawn, fibers
<1>3. SwitchTypes
    BY DEF SwitchInv
<1>4. /\ f \in frames /\ f \in FrameIds /\ f # NullFrame
      /\ fiber_to_free[w] = None /\ spare[w] = None /\ pending_remove_ref[w] = None
      /\ next_frame_ff[w] = NullFrame
    <2>1. WorkerOK(w)
        BY DEF SwitchInv
    <2> QED
        BY <1>1, <1>3, <2>1 DEF WorkerOK, UserSteps, Leavings, SwitchTypes
<1>5. \A v \in Workers : /\ next_frame_ff[v] # f
                         /\ frame_ff[v] = f => v = w
    BY <1>4 DEF SwitchInv, HoldersOK
<1>6. w \in Running /\ cur[w] = x /\ step[w] \in UserSteps /\ step[w] \notin OnScheduler
    <2>1. w \in Running /\ step[w] \in UserSteps /\ step[w] \notin OnScheduler
        BY <1>1 DEF Running, UserSteps, OnScheduler
    <2> QED
        BY <2>1 DEF SwitchInv, CurOK
<1>7. x \in Heap \cup {Thread} /\ x # None
    BY <1>6, WhereCurIs
<1>8. p \in frames /\ p \in FrameIds /\ f \in Children(p) /\ p \notin synched /\ p # f
    <2>1. p \in frames /\ p \in FrameIds
        BY <1>1, <1>3, <1>4 DEF SwitchInv, TreeOK, SwitchTypes
    <2>2. f \in Children(p)
        BY <1>4 DEF Children
    <2> QED
        BY <1>1, <2>1, <2>2 DEF SwitchInv, FrameOK
<1>9. PICK n \in DOMAIN kids[p] : kids[p][n] = f
    <2>1. ~Returned(f)
        BY <1>1, <1>5 DEF Returned
    <2> QED
        BY <1>4, <1>8, <2>1 DEF SwitchInv, KidsOK
<1> DEFINE l == Unlinked(p, f)
           len == Len(kids[p])
<1>10. /\ l \in Seq(FrameIds) /\ n \in 1..len /\ len \in Nat /\ Len(l) = len - 1
       /\ \A i \in 1..(len - 1) : l[i] = IF i < n THEN kids[p][i] ELSE kids[p][i + 1]
       /\ DOMAIN kids[p] = 1..len /\ DOMAIN l = 1..(len - 1)
    <2>2. /\ l \in Seq(FrameIds) /\ n \in 1..len /\ len \in Nat /\ Len(l) = len - 1
          /\ \A i \in 1..(len - 1) : l[i] = IF i < n THEN kids[p][i] ELSE kids[p][i + 1]
        <3> HIDE DEF f, p
        <3> QED
            BY <1>8, <1>9, UnlinkedChild
    <2>3. kids[p] \in Seq(FrameIds)
        BY <1>3, <1>8 DEF SwitchTypes
    <2> HIDE DEF l
    <2> QED
        BY <2>2, <2>3
<1>11. first <=> n = 1 /\ fiber_child[p] = None
    <2>1. kids[p] \in Seq(FrameIds) /\ Head(kids[p]) = kids[p][1]
        BY <1>3, <1>8, <1>10 DEF SwitchTypes
    <2>2. Head(kids[p]) = f <=> n = 1
        BY <2>1, <1>8, <1>9, <1>10 DEF SwitchInv, KidsOK
    <2> QED
        BY <2>2 DEF IsLeftmost
<1>12. PICK home \in SUBSET FrameIds : HomeOK(home)
    BY DEF SwitchInv
<1>13. /\ x = Thread <=> f \in home
       /\ f \in home <=> p \in home /\ n = 1 /\ fiber_child[p] = None
       /\ \A i \in 1..len : kids[p][i] \in home <=> p \in home /\ i = 1 /\ fiber_child[p] = None
    <2>1. x = Thread <=> f \in home
        BY <1>1, <1>4, <1>7, <1>12 DEF HomeOK
    <2>2. \A i \in 1..len : kids[p][i] \in home <=> p \in home /\ i = 1 /\ fiber_child[p] = None
        BY <1>8, <1>10, <1>12 DEF HomeOK
    <2> QED
        BY <2>1, <2>2, <1>9, <1>10
<1> HIDE DEF f, p, x, l, len, first
<1>14. \A v \in Workers :
          /\ step'[v] = IF v = w THEN "returning" ELSE step[v]
          /\ fiber_to_free'[v] = IF v = w /\ ~first THEN x ELSE fiber_to_free[v]
    BY <1>1, <1>3 DEF SwitchTypes
<1>15. \A g \in FrameIds :
          /\ fiber_self'[g] = IF g = f THEN None ELSE fiber_self[g]
          /\ fiber_child'[g] = IF g = p /\ first THEN x ELSE fiber_child[g]
          /\ kids'[g] = IF g = p THEN l ELSE kids[g]
    BY <1>1, <1>3, <1>4, <1>8 DEF SwitchTypes, l
<1>16. frame_ff[w] = f /\ fiber_self[f] = x /\ parent[f] = p /\ f' = f /\ p' = p
    BY <1>2 DEF f, x, p
<1>17. Root' = Root /\ \A g : Children(g)' = Children(g) /\ (Held(g)' <=> Held(g))
    BY <1>2 DEF Root, Children, Held
<1>18. \A g \in FrameIds : Returned(g)' <=> (Returned(g) \/ g = f)
    <2> TAKE g \in FrameIds
    <2>1. CASE g = f
        BY <2>1, <1>2, <1>14, <1>16 DEF Returned
    <2>2. CASE g # f
        BY <2>2, <1>2, <1>14, <1>16 DEF Returned
    <2> QED
        BY <2>1, <2>2
<1>19. HoldersOK'
    BY <1>2 DEF SwitchInv, HoldersOK
<1>20. TreeOK'
    BY <1>1, <1>2, <1>14, <1>17 DEF SwitchInv, TreeOK
<1>21. MasterOK'
    BY <1>2, <1>17 DEF SwitchInv, MasterOK
<1>22. ASSUME NEW g \in frames PROVE FrameOK(g)'
    <2>1. FrameOK(g) /\ g \in FrameIds
        BY <1>3 DEF SwitchInv, SwitchTypes
    <2>2. /\ Children(g)' = Children(g) /\ (Held(g)' <=> Held(g))
          /\ Cardinality(Children(g))' = Cardinality(Children(g))
        BY <1>17
    <2>3. fiber_self'[g] # None <=>
             \E v \in Workers : next_frame_ff'[v] = g \/ (frame_ff'[v] = g /\ step'[v] \in UserSteps)
        <3>1. CASE g = f
            <4>1. \A v \in Workers : frame_ff[v] = g => step'[v] \notin UserSteps
                BY <3>1, <1>5, <1>14 DEF UserSteps
            <4> QED
                BY <3>1, <4>1, <1>2, <1>4, <1>5, <1>15
        <3>2. CASE g # f
            <4>1. \A v \in Workers : frame_ff[v] = g => step'[v] = step[v]
                BY <3>2, <1>14, <1>16
            <4> QED
                BY <3>2, <4>1, <2>1, <1>2, <1>15 DEF FrameOK
        <3> QED
            BY <3>1, <3>2
    <2>4. g \in synched => fiber_child'[g] = None
        BY <2>1, <1>8, <1>15 DEF FrameOK
    <2>5. g \in synched \/ fiber_child'[g] # None \/ kids'[g] # <<>>
        <3>1. CASE g # p
            BY <3>1, <2>1, <1>15 DEF FrameOK
        <3>2. CASE g = p /\ (first \/ fiber_child[p] # None)
            BY <3>2, <2>1, <1>7, <1>15
        <3>3. CASE g = p /\ n # 1
            <4>1. Len(l) \in Nat /\ Len(l) >= 1
                BY <3>3, <1>10
            <4>2. l # <<>>
                BY <4>1, <1>10
            <4> QED
                BY <3>3, <4>2, <2>1, <1>15
        <3> QED
            BY <3>1, <3>2, <3>3, <1>11
    <2> QED
        BY <2>1, <2>2, <2>3, <2>4, <2>5, <1>2 DEF FrameOK
<1>23. ASSUME NEW q \in frames PROVE KidsOK(q)'
    <2>1. KidsOK(q) /\ Children(q)' = Children(q) /\ q \in FrameIds
        BY <1>3, <1>17 DEF SwitchInv, SwitchTypes
    <2>2. CASE q # p
        <3>1. kids'[q] = kids[q] /\ f \notin Children(q)
            BY <2>1, <2>2, <1>15, <1>16 DEF Children
        <3> QED
            BY <2>1, <3>1, <1>18 DEF KidsOK
    <2>3. CASE q = p
        <3>1. kids'[q] = l
            BY <2>1, <2>3, <1>15
        <3>2. \A i, j \in 1..len : kids[p][i] = kids[p][j] => i = j
            BY <2>1, <2>3, <1>10 DEF KidsOK
        <3>3. \A i, j \in DOMAIN l : l[i] = l[j] => i = j
            <4> TAKE i, j \in DOMAIN l
            <4>1. i \in 1..(len - 1) /\ j \in 1..(len - 1) /\ n \in Nat /\ len \in Nat
                BY <1>10
            <4>2. i \in 1..len /\ j \in 1..len /\ i + 1 \in 1..len /\ j + 1 \in 1..len
                BY <4>1
            <4>3. l[i] = (IF i < n THEN kids[p][i] ELSE kids[p][i + 1])
                  /\ l[j] = (IF j < n THEN kids[p][j] ELSE kids[p][j + 1])
                BY <4>1, <1>10
            <4> QED
                BY <4>1, <4>2, <4>3, <3>2
        <3>4. ASSUME NEW c \in FrameIds
              PROVE  (\E i \in DOMAIN l : l[i] = c) <=> (\E i \in DOMAIN kids[p] : kids[p][i] = c) /\ c # f
            <4>1. ASSUME NEW i \in DOMAIN l, l[i] = c
                  PROVE  (\E j \in DOMAIN kids[p] : kids[p][j] = c) /\ c # f
                <5>1. i \in 1..(len - 1) /\ n \in 1..len /\ len \in Nat
                    BY <1>10
                <5>2. i \in 1..len /\ i + 1 \in 1..len
                    BY <5>1
                <5>3. l[i] = IF i < n THEN kids[p][i] ELSE kids[p][i + 1]
                    BY <5>1, <1>10
                <5>4. CASE i < n
                    BY <4>1, <5>1, <5>2, <5>3, <5>4, <3>2, <1>9, <1>10
                <5>5. CASE ~(i < n)
                    <6>1. i + 1 # n
                        BY <5>1, <5>5
                    <6> QED
                        BY <4>1, <5>1, <5>2, <5>3, <5>5, <6>1, <3>2, <1>9, <1>10
                <5> QED
                    BY <5>4, <5>5
            <4>2. ASSUME NEW j \in DOMAIN kids[p], kids[p][j] = c, c # f
                  PROVE  \E i \in DOMAIN l : l[i] = c
                <5>1. j \in 1..len /\ n \in 1..len /\ len \in Nat /\ j # n
                    BY <4>2, <1>9, <1>10
                <5>2. CASE j < n
                    <6>1. j \in 1..(len - 1)
                        BY <5>1, <5>2
                    <6> QED
                        BY <4>2, <5>2, <6>1, <1>10
                <5>3. CASE ~(j < n)
                    <6>1. j - 1 \in 1..(len - 1) /\ ~(j - 1 < n) /\ (j - 1) + 1 = j
                        BY <5>1, <5>3
                    <6>2. l[j - 1] = c
                        BY <4>2, <6>1, <1>10
                    <6> QED
                        BY <6>1, <6>2, <1>10
                <5> QED
                    BY <5>2, <5>3
            <4> QED
                BY <4>1, <4>2
        <3>5. \A c \in FrameIds :
                 (\E i \in DOMAIN l : l[i] = c) <=> c \in Children(q) /\ ~(Returned(c) \/ c = f)
            BY <2>1, <2>3, <3>4 DEF KidsOK
        <3> QED
            BY <2>1, <3>1, <3>3, <3>5, <1>18 DEF KidsOK
    <2> QED
        BY <2>2, <2>3
<1>24. \A g \in FrameIds \ frames : GoneFrameOK(g)'
    BY <1>2, <1>4, <1>8, <1>15 DEF SwitchInv, GoneFrameOK
<1>25. HomeOK(home)'
    <2>1. Root' \subseteq home
        BY <1>12, <1>17 DEF HomeOK
    <2>2. ASSUME NEW g \in frames
          PROVE  /\ fiber_self'[g] = Thread => g \in home /\ g \in synched
                 /\ g \in home /\ g \in synched /\ fiber_self'[g] # None => fiber_self'[g] = Thread
                 /\ fiber_child'[g] # None => (fiber_child'[g] = Thread <=> g \in home)
        <3>1. g \in FrameIds
            BY <1>3 DEF SwitchTypes
        <3>2. g = p /\ first => (x = Thread <=> g \in home)
            BY <1>11, <1>13
        <3> QED
            BY <3>1, <3>2, <1>12, <1>15 DEF HomeOK
    <2>3. ASSUME NEW g \in frames, NEW i \in DOMAIN kids'[g]
          PROVE  kids'[g][i] \in home <=> g \in home /\ i = 1 /\ fiber_child'[g] = None
        <3>1. g \in FrameIds
            BY <1>3 DEF SwitchTypes
        <3>2. CASE g # p
            BY <3>1, <3>2, <2>3, <1>12, <1>15 DEF HomeOK
        <3>3. CASE g = p
            <4>1. i \in 1..(len - 1) /\ kids'[g] = l /\ n \in 1..len /\ len \in Nat
                BY <3>1, <3>3, <2>3, <1>10, <1>15
            <4>2. i \in 1..len /\ i + 1 \in 1..len
                BY <4>1
            <4>3. l[i] = IF i < n THEN kids[p][i] ELSE kids[p][i + 1]
                BY <4>1, <1>10
            <4>4. CASE first
                <5>1. fiber_child'[g] # None /\ ~(i < n) /\ i + 1 # 1
                    BY <3>1, <3>3, <4>1, <4>4, <1>7, <1>11, <1>15
                <5> QED
                    BY <4>1, <4>2, <4>3, <5>1, <1>13
            <4>5. CASE ~first
                <5>1. fiber_child'[g] = fiber_child[p] /\ (fiber_child[p] # None \/ n > 1)
                    BY <3>1, <3>3, <4>1, <4>5, <1>11, <1>15
                <5>2. CASE i < n
                    BY <3>3, <4>1, <4>2, <4>3, <5>1, <5>2, <1>13
                <5>3. CASE ~(i < n)
                    <6>1. i + 1 # 1 /\ (fiber_child[p] # None \/ i # 1)
                        BY <4>1, <5>1, <5>3
                    <6> QED
                        BY <3>3, <4>1, <4>2, <4>3, <5>1, <5>3, <6>1, <1>13
                <5> QED
                    BY <5>2, <5>3
            <4> QED
                BY <4>4, <4>5
        <3> QED
            BY <3>2, <3>3
    <2> QED
        BY <2>1, <2>2, <2>3, <1>2 DEF HomeOK
<1>26. ~first => x \in Heap
    BY <1>7, <1>11, <1>13
<1>27. SwitchTypes'
    <2>1. step' \in [Workers -> Steps] /\ fiber_to_free' \in [Workers -> Heap \cup {None}]
        BY <1>1, <1>3, <1>26 DEF SwitchTypes, Steps, Leavings
    <2>2. fiber_self' \in [FrameIds -> SomeFiber] /\ fiber_child' \in [FrameIds -> SomeFiber]
        BY <1>1, <1>3, <1>7 DEF SwitchTypes, SomeFiber
    <2>3. kids' \in [FrameIds -> Seq(FrameIds)]
        BY <1>1, <1>3, <1>10 DEF SwitchTypes, l
    <2> QED
        BY <1>2, <1>3, <2>1, <2>2, <2>3 DEF SwitchTypes
<1>28. ASSUME NEW v \in Workers PROVE WorkerOK(v)'
    <2>1. WorkerOK(v)
        BY DEF SwitchInv
    <2>2. CASE v = w
        BY <2>2, <1>1, <1>2, <1>4, <1>14, <1>16 DEF WorkerOK, UserSteps, Leavings
    <2>3. CASE v # w
        BY <2>1, <2>3, <1>2, <1>14, <1>17 DEF WorkerOK
    <2> QED
        BY <2>2, <2>3
<1>29. Running' = Running
    BY <1>1, <1>14 DEF Running
<1>30. PlacesOK'
    <2>1. "self" \in Kinds /\ f \in Indices("self") /\ FiberAt("self", f) = x /\ FiberAt("self", f)' = None
        BY <1>4, <1>15, <1>16 DEF Kinds, Indices, FiberAt
    <2>2. \A y \in Heap \cup {Thread} : y \in alive' <=> y \in alive
        BY <1>2
    <2>3. \A v \in Workers : /\ step'[v] = "gone" => v \notin alive'
                             /\ v \in Running' => v \in alive'
        BY <1>1, <1>2, <1>14, <1>29 DEF SwitchInv, PlacesOK
    <2>4. CASE first
        <3>1. /\ "child" \in Kinds /\ p \in Indices("child") /\ FiberAt("child", p) = None
              /\ FiberAt("child", p)' = x
            BY <2>4, <1>8, <1>11, <1>15, <1>16 DEF Kinds, Indices, FiberAt
        <3>2. \A m \in Kinds : \A i \in Indices(m) :
                 (m # "self" \/ i # f) /\ (m # "child" \/ i # p) => FiberAt(m, i)' = FiberAt(m, i)
            BY <2>4, <1>2, <1>14, <1>15 DEF FiberAt, Kinds, Indices
        <3> QED
            BY <2>1, <2>2, <2>3, <3>1, <3>2, <1>16, FiberMoved
    <2>5. CASE ~first
        <3>1. /\ "free" \in Kinds /\ w \in Indices("free") /\ FiberAt("free", w) = None
              /\ FiberAt("free", w)' = x
            BY <2>5, <1>4, <1>14 DEF Kinds, Indices, FiberAt
        <3>2. \A m \in Kinds : \A i \in Indices(m) :
                 (m # "self" \/ i # f) /\ (m # "free" \/ i # w) => FiberAt(m, i)' = FiberAt(m, i)
            BY <2>5, <1>2, <1>14, <1>15 DEF FiberAt, Kinds, Indices
        <3> QED
            BY <2>1, <2>2, <2>3, <3>1, <3>2, <1>16, FiberMoved
    <2> QED
        BY <2>4, <2>5
<1>31. CurOK'
    <2>1. ASSUME NEW v \in Running', v = w
          PROVE  /\ cur'[v] \in alive' \ resumable'
                 /\ step'[v] \in OnScheduler <=> cur'[v] = v
                 /\ step'[v] \notin UserSteps
                 /\ cur'[v] = Leaving(v)'
                 /\ step'[v] # "started" /\ fiber_owner'[cur'[v]] = v
                 /\ cur'[v] # v => fiber_owner'[v] = None \/ cur'[v] = Thread
        <3>1. Leaving(w)' = x
            BY <1>2, <1>4, <1>7, <1>8, <1>14, <1>15, <1>16 DEF Leaving
        <3>2. /\ cur[w] \in alive \ resumable /\ cur[w] # w /\ fiber_owner[cur[w]] = w
              /\ fiber_owner[w] = None \/ cur[w] = Thread
            BY <1>6 DEF SwitchInv, CurOK
        <3> QED
            BY <2>1, <3>1, <3>2, <1>2, <1>6, <1>14 DEF OnScheduler, UserSteps
    <2>2. ASSUME NEW v \in Running', v # w
          PROVE  /\ cur'[v] \in alive' \ resumable'
                 /\ step'[v] \in OnScheduler <=> cur'[v] = v
                 /\ step'[v] \in UserSteps => cur'[v] = fiber_self'[frame_ff'[v]]
                 /\ step'[v] \in Leavings => cur'[v] = Leaving(v)'
                 /\ step'[v] = "started" => cur'[v] \in Heap
                 /\ fiber_owner'[cur'[v]] = v
                 /\ cur'[v] # v => fiber_owner'[v] = None \/ cur'[v] = Thread
        <3>1. v \in Running /\ v \in Workers /\ step'[v] = step[v] /\ fiber_to_free'[v] = fiber_to_free[v]
            BY <2>2, <1>14, <1>29 DEF Running
        <3>2. step[v] \in UserSteps => frame_ff[v] \in FrameIds
            BY <3>1, <1>3 DEF SwitchInv, WorkerOK, SwitchTypes
        <3>3. step[v] \in UserSteps => fiber_self'[frame_ff'[v]] = fiber_self[frame_ff[v]]
            BY <3>1, <3>2, <2>2, <1>2, <1>5, <1>15
        <3>4. step[v] \in Leavings => Leaving(v)' = Leaving(v)
            <4>1. CASE fiber_to_free[v] # None
                BY <4>1, <3>1 DEF Leaving
            <4>2. CASE step[v] \in Leavings /\ fiber_to_free[v] = None
                <5>1. /\ parent[frame_ff[v]] \in FrameIds
                      /\ FiberAt("child", parent[frame_ff[v]]) = cur[v]
                      /\ cur[v] # None
                    <6>1. step[v] \notin OnScheduler
                        BY <4>2 DEF Leavings, OnScheduler
                    <6>2. step[v] \notin UserSteps
                        BY <4>2 DEF Leavings, UserSteps
                    <6> QED
                        BY <3>1, <4>2, <6>1, <6>2, WhereCurIs
                <5>2. fiber_child[parent[frame_ff[v]]] # None
                    BY <5>1 DEF FiberAt
                <5>3. fiber_child'[parent[frame_ff[v]]] = fiber_child[parent[frame_ff[v]]]
                    BY <5>1, <5>2, <1>11, <1>15
                <5> QED
                    BY <5>3, <3>1, <1>2 DEF Leaving
            <4> QED
                BY <4>1, <4>2
        <3> QED
            BY <3>1, <3>3, <3>4, <1>2 DEF SwitchInv, CurOK
    <2> QED
        BY <2>1, <2>2, <1>2, <1>29 DEF SwitchInv, CurOK
<1>32. ResumableOK'
    <2>1. ASSUME NEW v \in Workers, next_frame_ff[v] # NullFrame
          PROVE  fiber_self'[next_frame_ff[v]] = fiber_self[next_frame_ff[v]]
        BY <2>1, <1>3, <1>5, <1>15 DEF SwitchTypes
    <2>2. ASSUME NEW v \in Workers
          PROVE  /\ step[v] = "returning" => /\ step'[v] = "returning"
                                             /\ fiber_to_free'[v] = fiber_to_free[v]
                 /\ step[v] \in UserSteps \cup Leavings => step'[v] \in UserSteps \cup Leavings
        BY <1>1, <1>14 DEF Leavings
    <2>3. ASSUME NEW q \in frames, fiber_child'[q] # None
          PROVE  \/ fiber_child'[q] \in resumable
                 \/ \E v \in Workers : step'[v] = "returning" /\ parent[frame_ff[v]] = q
                                       /\ fiber_to_free'[v] = None
        <3>1. q \in FrameIds
            BY <1>3 DEF SwitchTypes
        <3>2. CASE q = p /\ first
            BY <3>2, <1>4, <1>14, <1>16
        <3>3. CASE ~(q = p /\ first)
            BY <2>2, <2>3, <3>1, <3>3, <1>15 DEF SwitchInv, ResumableOK
        <3> QED
            BY <3>2, <3>3
    <2> QED
        BY <2>1, <2>2, <2>3, <1>2 DEF SwitchInv, ResumableOK
<1> QED
    BY <1>2, <1>12, <1>19, <1>20, <1>21, <1>22, <1>23, <1>24, <1>25, <1>27, <1>28, <1>30, <1>31, <1>32
    DEF SwitchInv

(* The user enters: its stack is the fiber of the only frame.              *)
LEMMA SwitchBind ==
    ASSUME FiberAssumption, SwitchInv, Bind
    PROVE  SwitchInv'
<1> USE FiberConstants
<1>0. PICK c : c = NewFrame
    OBVIOUS
<1>1. /\ frames = {} /\ step[User] = "out" /\ step' = [step EXCEPT ![User] = "user"]
      /\ cur' = [cur EXCEPT ![User] = Thread] /\ alive' = alive \cup {Thread, User}
      /\ fiber_owner' = [g \in Fibers |->
            IF g = Thread \/ (g = User /\ User \notin alive) THEN User ELSE fiber_owner[g]]
      /\ frames' = {c} /\ synched' = {c}
      /\ frame_ff' = [frame_ff EXCEPT ![User] = c]
      /\ join_counter' = [join_counter EXCEPT ![c] = 1]
      /\ fiber_self' = [fiber_self EXCEPT ![c] = Thread]
    BY <1>0 DEF Bind, Goto, AllocateFromThread, GiveToUser
<1>2. UNCHANGED <<next_frame_ff, last_full_frame, fiber_to_free, spare, resumable, resume_sf,
                  pending_remove_ref, parent, kids, fiber_child, sync_master>>
    BY DEF Bind
<1>3. SwitchTypes
    BY DEF SwitchInv
<1>4. c \in FrameIds /\ c # NullFrame
    BY <1>0, <1>1, FrameIsNew
<1>5. \A g \in FrameIds : GoneFrameOK(g)
    BY <1>1 DEF SwitchInv
<1>6. \A v \in Workers : frame_ff[v] = NullFrame /\ next_frame_ff[v] = NullFrame
    BY <1>1 DEF SwitchInv, WorkerOK
<1>7. \A v \in Workers : step[v] \notin UserSteps \cup Leavings
    BY <1>6 DEF SwitchInv, WorkerOK
<1>8. last_full_frame = NullFrame /\ sync_master = {}
    BY <1>1 DEF SwitchInv, MasterOK, Root
<1>9. \A v \in Workers : /\ step'[v] = IF v = User THEN "user" ELSE step[v]
                         /\ frame_ff'[v] = IF v = User THEN c ELSE NullFrame
                         /\ cur'[v] = IF v = User THEN Thread ELSE cur[v]
    BY <1>1, <1>3, <1>6 DEF SwitchTypes
<1>10. \A g \in FrameIds : /\ fiber_self'[g] = IF g = c THEN Thread ELSE fiber_self[g]
                           /\ join_counter'[g] = IF g = c THEN 1 ELSE join_counter[g]
    BY <1>1, <1>3, <1>4 DEF SwitchTypes
<1>11. Root' = {c} /\ Children(c)' = {}
    BY <1>1, <1>2, <1>4, <1>5 DEF Root, Children, GoneFrameOK
<1>12. HoldersOK'
    BY <1>2, <1>4, <1>6, <1>9 DEF HoldersOK
<1>13. TreeOK'
    <2>1. parent'[c] = NullFrame
        BY <1>2, <1>4, <1>5 DEF GoneFrameOK
    <2>2. step'[User] = "user"
        BY <1>9
    <2>3. ASSUME NEW S \in SUBSET frames', S # {}
          PROVE  \E g \in S : parent'[g] \notin S
        <3>1. c \in S /\ NullFrame \notin S
            BY <2>3, <1>1, <1>4
        <3> QED
            BY <3>1, <2>1
    <2> QED
        BY <1>1, <1>11, <2>1, <2>2, <2>3 DEF TreeOK
<1>14. MasterOK'
    BY <1>1, <1>2, <1>8, <1>9, <1>11 DEF MasterOK
<1>15. FrameOK(c)'
    <2>1. Held(c)'
        BY <1>9 DEF Held
    <2>2. Cardinality(Children(c))' = 0
        BY <1>11, FS_EmptySet
    <2>3. \E v \in Workers : next_frame_ff'[v] = c \/ (frame_ff'[v] = c /\ step'[v] \in UserSteps)
        BY <1>9 DEF UserSteps
    <2>4. fiber_self'[c] # None /\ join_counter'[c] = 1 /\ fiber_child'[c] = None /\ c \in synched'
        BY <1>1, <1>2, <1>4, <1>5, <1>10 DEF GoneFrameOK
    <2> QED
        BY <1>11, <2>1, <2>2, <2>3, <2>4 DEF FrameOK
<1>16. KidsOK(c)'
    <2>1. kids'[c] = <<>>
        BY <1>2, <1>4, <1>5 DEF GoneFrameOK
    <2> QED
        BY <1>11, <2>1 DEF KidsOK
<1>17. \A g \in FrameIds \ frames' : GoneFrameOK(g)'
    BY <1>1, <1>2, <1>5, <1>10 DEF GoneFrameOK
<1>18. HomeOK({c})'
    BY <1>1, <1>2, <1>4, <1>5, <1>10, <1>11 DEF HomeOK, GoneFrameOK
<1>19. SwitchTypes'
    <2>1. cur' \in [Workers -> Fibers \cup {None}] /\ step' \in [Workers -> Steps]
        BY <1>1, <1>3 DEF SwitchTypes, Steps, UserSteps
    <2>2. frame_ff' \in [Workers -> FrameIds \cup {NullFrame}]
        BY <1>1, <1>3, <1>4 DEF SwitchTypes
    <2>3. alive' \subseteq Fibers /\ fiber_owner' \in [Fibers -> Workers \cup {None}]
        BY <1>1, <1>3 DEF SwitchTypes
    <2>4. join_counter' \in [FrameIds -> Nat] /\ fiber_self' \in [FrameIds -> SomeFiber]
        BY <1>1, <1>3 DEF SwitchTypes, SomeFiber
    <2>5. frames' \subseteq FrameIds /\ synched' \subseteq FrameIds
        BY <1>1, <1>4
    <2> QED
        BY <1>2, <1>3, <2>1, <2>2, <2>3, <2>4, <2>5 DEF SwitchTypes
<1>20. ASSUME NEW v \in Workers PROVE WorkerOK(v)'
    <2>1. WorkerOK(v)
        BY DEF SwitchInv
    <2>2. v = User => spare[v] = None /\ fiber_to_free[v] = None /\ pending_remove_ref[v] = None
        BY <2>1, <1>1 DEF WorkerOK, Leavings
    <2> QED
        BY <1>1, <1>2, <1>4, <1>6, <1>9, <2>1, <2>2 DEF WorkerOK, UserSteps, Leavings
<1>21. Running' = Running \cup {User}
    BY <1>1, <1>9 DEF Running
<1>22. \A k \in Kinds : \A i \in Indices(k) : FiberAt(k, i) # Thread
    <2>1. \A g \in FrameIds : fiber_self[g] # Thread /\ fiber_child[g] # Thread
        BY <1>5 DEF GoneFrameOK
    <2>2. \A v \in Workers : v \in Fibers /\ spare[v] # Thread /\ fiber_to_free[v] # Thread
                             /\ pending_remove_ref[v] # Thread
        BY <1>3 DEF SwitchTypes
    <2> QED
        BY <2>1, <2>2 DEF Kinds, Indices, FiberAt
<1>23. Thread \notin alive /\ Thread \notin resumable /\ Thread \in Fibers /\ Thread \notin Workers
    <2>1. Thread \notin alive
        BY <1>22 DEF SwitchInv, PlacesOK
    <2> QED
        BY <2>1 DEF SwitchInv, ResumableOK, SomeFiber
<1>24. PlacesOK'
    <2>1. \A k \in Kinds : \A i \in Indices(k) :
             FiberAt(k, i)' = IF k = "self" /\ i = c THEN Thread ELSE FiberAt(k, i)
        BY <1>2, <1>10 DEF FiberAt, Kinds, Indices
    <2>2. "self" \in Kinds /\ c \in Indices("self") /\ FiberAt("self", c) = None
        BY <1>4, <1>5 DEF Kinds, Indices, FiberAt, GoneFrameOK
    <2>3. \A k, l \in Kinds : \A i \in Indices(k), j \in Indices(l) :
             FiberAt(k, i)' = FiberAt(l, j)' /\ FiberAt(k, i)' # None => k = l /\ i = j
        BY <2>1, <1>22 DEF SwitchInv, PlacesOK
    <2>4. ASSUME NEW y \in Heap \cup {Thread}
          PROVE  y \in alive' <=> \E k \in Kinds : \E i \in Indices(k) : FiberAt(k, i)' = y
        <3>1. y # None /\ y \notin Workers
            BY DEF SomeFiber
        <3>2. y \in alive <=> \E k \in Kinds : \E i \in Indices(k) : FiberAt(k, i) = y
            BY DEF SwitchInv, PlacesOK
        <3>3. CASE y = Thread
            BY <3>3, <1>1, <2>1, <2>2
        <3>4. CASE y # Thread
            BY <3>1, <3>2, <3>4, <1>1, <2>1, <2>2
        <3> QED
            BY <3>3, <3>4
    <2>5. \A v \in Workers : /\ step'[v] = "gone" => v \notin alive'
                             /\ v \in Running' => v \in alive'
        BY <1>1, <1>9, <1>21, <1>23 DEF SwitchInv, PlacesOK, Running
    <2> QED
        BY <2>3, <2>4, <2>5 DEF PlacesOK
<1>25. ASSUME NEW v \in Running, v # User
       PROVE  /\ v \in Workers /\ cur[v] = v /\ step[v] \in OnScheduler /\ v # Thread
              /\ v \in alive \ resumable /\ fiber_owner[v] = v
    <2>1. v \in Workers /\ step[v] \in OnScheduler
        BY <1>3, <1>7 DEF Running, SwitchTypes, Steps
    <2> QED
        BY <2>1, <1>23 DEF SwitchInv, CurOK
<1>26. CurOK'
    <2>1. ASSUME NEW v \in Running', v = User
          PROVE  /\ cur'[v] \in alive' \ resumable' /\ cur'[v] = Thread
                 /\ step'[v] \notin OnScheduler /\ step'[v] \notin Leavings /\ step'[v] # "started"
                 /\ cur'[v] = fiber_self'[frame_ff'[v]]
                 /\ fiber_owner'[cur'[v]] = v
        BY <2>1, <1>1, <1>2, <1>4, <1>9, <1>10, <1>23 DEF OnScheduler, Leavings
    <2>2. ASSUME NEW v \in Running', v # User
          PROVE  /\ cur'[v] \in alive' \ resumable' /\ cur'[v] = v
                 /\ step'[v] \in OnScheduler /\ step'[v] \notin UserSteps \cup Leavings \cup {"started"}
                 /\ fiber_owner'[cur'[v]] = v
        BY <2>2, <1>1, <1>2, <1>9, <1>21, <1>25 DEF OnScheduler, UserSteps, Leavings
    <2> QED
        BY <2>1, <2>2, <1>23 DEF CurOK, Running
<1>27. ResumableOK'
    <2>1. resume_sf = {}
        BY <1>7 DEF SwitchInv, ResumableOK
    <2>2. \A v \in Workers : next_frame_ff'[v] = NullFrame
        BY <1>2, <1>6
    <2>3. \A g \in frames' : fiber_child'[g] = None
        BY <1>1, <1>2, <1>4, <1>5 DEF GoneFrameOK
    <2> QED
        BY <1>1, <1>2, <2>1, <2>2, <2>3 DEF SwitchInv, ResumableOK
<1> QED
    BY <1>1, <1>4, <1>12, <1>13, <1>14, <1>15, <1>16, <1>17, <1>18, <1>19, <1>20, <1>24, <1>26, <1>27
    DEF SwitchInv

(* The initial frame returns, and no frame is left.                        *)
LEMMA SwitchReturnFromInitial ==
    ASSUME FiberAssumption, SwitchInv, ReturnFromInitial
    PROVE  SwitchInv'
<1> USE FiberConstants
<1>0. PICK f, x : f = frame_ff[User] /\ x = fiber_self[f]
    OBVIOUS
<1>1. /\ step[User] = "user" /\ step' = [step EXCEPT ![User] = "out"]
      /\ f \in synched /\ parent[f] = NullFrame
      /\ frame_ff' = [frame_ff EXCEPT ![User] = NullFrame]
      /\ cur' = [cur EXCEPT ![User] = None]
      /\ alive' = alive \ {x}
      /\ fiber_owner' = [fiber_owner EXCEPT ![x] = None]
      /\ resume_sf' = resume_sf \ {x}
      /\ fiber_self' = [fiber_self EXCEPT ![f] = None]
      /\ frames' = frames \ {f} /\ synched' = synched \ {f}
      /\ join_counter' = [join_counter EXCEPT ![f] = 0]
    BY <1>0 DEF ReturnFromInitial, Goto
<1>2. UNCHANGED <<next_frame_ff, last_full_frame, fiber_to_free, spare, resumable,
                  pending_remove_ref, parent, kids, fiber_child, sync_master>>
    BY DEF ReturnFromInitial
<1>3. SwitchTypes
    BY DEF SwitchInv
<1>4. /\ f \in frames /\ f \in FrameIds /\ f # NullFrame
      /\ fiber_to_free[User] = None /\ spare[User] = None /\ pending_remove_ref[User] = None
    <2>1. WorkerOK(User)
        BY DEF SwitchInv
    <2> QED
        BY <1>0, <1>1, <1>3, <2>1 DEF WorkerOK, UserSteps, Leavings, SwitchTypes
<1>5. f \in Root /\ Children(f) = {} /\ frames = {f} /\ fiber_child[f] = None
    <2>1. f \in Root /\ Children(f) = {} /\ fiber_child[f] = None
        BY <1>1, <1>4 DEF Root, SwitchInv, FrameOK
    <2> QED
        BY <2>1, OnlyTheRoot
<1>6. User \in Running /\ cur[User] = x /\ step[User] \in UserSteps /\ step[User] \notin OnScheduler
    <2>1. User \in Running /\ step[User] \in UserSteps /\ step[User] \notin OnScheduler
        BY <1>1 DEF Running, UserSteps, OnScheduler
    <2> QED
        BY <1>0, <2>1 DEF SwitchInv, CurOK
<1>7. x = Thread
    <2>1. x # None
        BY <1>6, WhereCurIs
    <2> QED
        BY <2>1, <1>0, <1>1, <1>4, <1>5 DEF SwitchInv, HomeOK
<1>8. Thread \in alive /\ Thread \notin resumable /\ Thread \notin Workers /\ Thread \in Fibers
    BY <1>6, <1>7 DEF SwitchInv, CurOK, SomeFiber
<1>9. kids[f] = <<>>
    <2>1. ASSUME kids[f] # <<>> PROVE FALSE
        <3>1. kids[f] \in Seq(FrameIds)
            BY <1>3, <1>4 DEF SwitchTypes
        <3>2. 1 \in DOMAIN kids[f] /\ kids[f][1] \in FrameIds
            BY <2>1, <3>1
        <3> QED
            BY <3>2, <1>4, <1>5 DEF SwitchInv, KidsOK
    <2> QED
        BY <2>1
<1>10. \A v \in Workers : /\ v # User => frame_ff[v] = NullFrame
                          /\ next_frame_ff[v] = NullFrame
    <2> TAKE v \in Workers
    <2>1. frame_ff[v] # NullFrame => frame_ff[v] = f
        BY <1>5 DEF SwitchInv, WorkerOK
    <2>2. next_frame_ff[v] # NullFrame => next_frame_ff[v] = f
        BY <1>5 DEF SwitchInv, WorkerOK
    <2> QED
        BY <2>1, <2>2, <1>0, <1>4 DEF SwitchInv, HoldersOK
<1>11. last_full_frame = NullFrame /\ sync_master = {}
    BY <1>1, <1>5 DEF SwitchInv, MasterOK, Root
<1>12. \A v \in Workers : /\ step'[v] = IF v = User THEN "out" ELSE step[v]
                          /\ frame_ff'[v] = NullFrame
                          /\ cur'[v] = IF v = User THEN None ELSE cur[v]
    BY <1>1, <1>3, <1>10 DEF SwitchTypes
<1>13. frames' = {} /\ Root' = {}
    BY <1>1, <1>5 DEF Root
<1>14. HoldersOK'
    BY <1>2, <1>10, <1>12 DEF HoldersOK
<1>15. TreeOK'
    BY <1>13 DEF TreeOK
<1>16. MasterOK'
    BY <1>2, <1>11, <1>13 DEF MasterOK
<1>17. \A g \in FrameIds \ frames' : GoneFrameOK(g)'
    <2> TAKE g \in FrameIds \ frames'
    <2>1. CASE g = f
        BY <2>1, <1>1, <1>2, <1>3, <1>4, <1>5, <1>9 DEF GoneFrameOK, SwitchTypes
    <2>2. CASE g # f
        BY <2>2, <1>1, <1>2, <1>3, <1>4, <1>5 DEF GoneFrameOK, SwitchTypes, SwitchInv
    <2> QED
        BY <2>1, <2>2
<1>18. HomeOK({})'
    BY <1>13 DEF HomeOK
<1>19. SwitchTypes'
    <2>1. cur' \in [Workers -> Fibers \cup {None}] /\ step' \in [Workers -> Steps]
        BY <1>1, <1>3 DEF SwitchTypes, Steps
    <2>2. frame_ff' \in [Workers -> FrameIds \cup {NullFrame}]
        BY <1>1, <1>3 DEF SwitchTypes
    <2>3. alive' \subseteq Fibers /\ fiber_owner' \in [Fibers -> Workers \cup {None}]
        BY <1>1, <1>3 DEF SwitchTypes
    <2>4. join_counter' \in [FrameIds -> Nat] /\ fiber_self' \in [FrameIds -> SomeFiber]
        BY <1>1, <1>3 DEF SwitchTypes, SomeFiber
    <2>5. frames' \subseteq FrameIds /\ synched' \subseteq FrameIds /\ resume_sf' \subseteq Fibers
        BY <1>1, <1>3 DEF SwitchTypes
    <2> QED
        BY <1>2, <1>3, <2>1, <2>2, <2>3, <2>4, <2>5 DEF SwitchTypes
<1>20. ASSUME NEW v \in Workers PROVE WorkerOK(v)'
    <2>1. WorkerOK(v)
        BY DEF SwitchInv
    <2>2. CASE v = User
        BY <2>2, <1>2, <1>4, <1>10, <1>12 DEF WorkerOK, UserSteps, Leavings
    <2>3. CASE v # User
        BY <2>1, <2>3, <1>2, <1>10, <1>12 DEF WorkerOK, UserSteps, Leavings
    <2> QED
        BY <2>2, <2>3
<1>21. Running' = Running \ {User}
    BY <1>1, <1>12 DEF Running
<1>22. PlacesOK'
    <2>1. "self" \in Kinds /\ f \in Indices("self") /\ FiberAt("self", f) = x
        BY <1>0, <1>4 DEF Kinds, Indices, FiberAt
    <2>2. FiberAt("self", f)' = None
        BY <1>1, <1>3, <1>4 DEF FiberAt, SwitchTypes
    <2>3. \A m \in Kinds : \A n \in Indices(m) :
             m # "self" \/ n # f => FiberAt(m, n)' = FiberAt(m, n)
        BY <1>1, <1>2, <1>3 DEF FiberAt, Kinds, Indices, SwitchTypes
    <2>4. \A v \in Workers : /\ step'[v] = "gone" => step[v] = "gone"
                             /\ v \in Running' => v \in Running
        BY <1>12, <1>21
    <2> QED
        BY <1>1, <2>1, <2>2, <2>3, <2>4, FiberFreed
<1>23. \A v \in Running' :
          /\ v \in Workers /\ v # User /\ cur'[v] = v /\ v \in alive' \ resumable'
          /\ step'[v] \in OnScheduler /\ fiber_owner'[v] = v
    <2> TAKE v \in Running'
    <2>1. v \in Running /\ v # User /\ v \in Workers /\ frame_ff[v] = NullFrame /\ step'[v] = step[v]
        BY <1>10, <1>12, <1>21 DEF Running
    <2>2. step[v] \in OnScheduler
        BY <2>1, <1>3 DEF SwitchInv, WorkerOK, SwitchTypes, Steps, Running
    <2>3. cur[v] = v /\ v \in alive \ resumable /\ fiber_owner[v] = v /\ v # Thread /\ v \in Fibers
        BY <2>1, <2>2, <1>8 DEF SwitchInv, CurOK
    <2> QED
        BY <2>1, <2>2, <2>3, <1>1, <1>2, <1>3, <1>7, <1>12 DEF SwitchTypes
<1>24. CurOK'
    BY <1>23 DEF CurOK, OnScheduler, UserSteps, Leavings
<1>25. ResumableOK'
    <2>1. resumable' \subseteq alive'
        BY <1>1, <1>2, <1>7, <1>8 DEF SwitchInv, ResumableOK
    <2>2. ASSUME NEW y \in resume_sf, y # x PROVE FALSE
        <3>1. PICK v \in Workers : cur[v] = y /\ step[v] \in UserSteps \cup Leavings
            BY <2>2 DEF SwitchInv, ResumableOK
        <3>2. v = User
            BY <3>1, <1>10 DEF SwitchInv, WorkerOK
        <3> QED
            BY <3>1, <3>2, <2>2, <1>6
    <2>3. resume_sf' = {}
        BY <2>2, <1>1
    <2> QED
        BY <2>1, <2>3, <1>2, <1>10, <1>13 DEF SwitchInv, ResumableOK
<1> QED
    BY <1>13, <1>14, <1>15, <1>16, <1>17, <1>18, <1>19, <1>20, <1>22, <1>24, <1>25 DEF SwitchInv

(* The thief's fiber goes to the frame, whose own goes to the new child.   *)
LEMMA SwitchSteal ==
    ASSUME FiberAssumption, SwitchInv, NEW w \in Workers, NEW victim \in Workers, Steal(w, victim)
    PROVE  SwitchInv'
<1> USE FiberConstants
<1>0. PICK f, c, x, s : f = frame_ff[victim] /\ c = NewFrame /\ x = fiber_self[f] /\ s = spare[w]
    OBVIOUS
<1> DEFINE first == victim = User /\ last_full_frame = NullFrame
<1>1. /\ step[w] = "steal" /\ step' = [step EXCEPT ![w] = "sched"]
      /\ victim # w /\ step[victim] = "user" /\ frames # FrameIds
      /\ frames' = frames \cup {c}
      /\ parent' = [parent EXCEPT ![c] = f]
      /\ kids' = [kids EXCEPT ![f] = Append(kids[f], c)]
      /\ join_counter' = [join_counter EXCEPT ![f] = join_counter[f] + 1, ![c] = 1]
      /\ fiber_self' = [fiber_self EXCEPT ![f] = s, ![c] = x]
      /\ synched' = (synched \ {f}) \cup {c}
      /\ last_full_frame' = IF first THEN f ELSE last_full_frame
      /\ sync_master' = IF first THEN sync_master \cup {f} ELSE sync_master
      /\ frame_ff' = [frame_ff EXCEPT ![victim] = c]
      /\ next_frame_ff' = [next_frame_ff EXCEPT ![w] = f]
      /\ spare' = [spare EXCEPT ![w] = None]
    BY <1>0 DEF Steal, Goto
<1>2. /\ cur' = cur /\ fiber_to_free' = fiber_to_free /\ fiber_child' = fiber_child
      /\ alive' = alive /\ fiber_owner' = fiber_owner /\ resumable' = resumable
      /\ resume_sf' = resume_sf /\ pending_remove_ref' = pending_remove_ref
    BY DEF Steal, fibers
<1>3. SwitchTypes
    BY DEF SwitchInv
<1>4. /\ f \in frames /\ f \in FrameIds /\ f # NullFrame
      /\ fiber_to_free[victim] = None /\ spare[victim] = None
      /\ pending_remove_ref[victim] = None /\ next_frame_ff[victim] = NullFrame
    <2>1. WorkerOK(victim)
        BY DEF SwitchInv
    <2> QED
        BY <1>0, <1>1, <1>3, <2>1 DEF WorkerOK, UserSteps, Leavings, SwitchTypes
<1>5. c \in FrameIds /\ c \notin frames /\ c # f /\ c # NullFrame
    <2>1. c \in FrameIds \ frames
        BY <1>0, <1>1, <1>3, FrameIsNew DEF SwitchTypes
    <2> QED
        BY <2>1, <1>4
<1>6. s \in Heap /\ s # None /\ frame_ff[w] = NullFrame
    <2>1. WorkerOK(w)
        BY DEF SwitchInv
    <2> QED
        BY <1>0, <1>1, <1>3, <2>1 DEF WorkerOK, UserSteps, Leavings, SwitchTypes
<1>7. /\ victim \in Running /\ cur[victim] = x /\ step[victim] \in UserSteps
      /\ step[victim] \notin OnScheduler /\ x # None /\ x \in Heap \cup {Thread}
    <2>1. victim \in Running /\ step[victim] \in UserSteps /\ step[victim] \notin OnScheduler
        BY <1>1 DEF Running, UserSteps, OnScheduler
    <2> QED
        BY <1>0, <2>1, WhereCurIs DEF SwitchInv, CurOK
<1>8. \A v \in Workers : /\ next_frame_ff[v] # f
                         /\ frame_ff[v] = f => v = victim
                         /\ frame_ff[v] # c /\ next_frame_ff[v] # c
    <2>1. \A v \in Workers : frame_ff[v] # c /\ next_frame_ff[v] # c
        BY <1>5 DEF SwitchInv, WorkerOK
    <2> QED
        BY <1>0, <2>1, <1>4 DEF SwitchInv, HoldersOK
<1>9. \A r \in Root : r \in synched => r = f /\ frames = {f}
    <2> TAKE r \in Root
    <2>1. r \in synched => Children(r) = {}
        BY DEF SwitchInv, FrameOK, Root
    <2>2. Children(r) = {} => frames = {r}
        BY OnlyTheRoot
    <2> QED
        BY <2>1, <2>2, <1>4
<1>10. next_frame_ff[w] = NullFrame
    <2>1. WorkerOK(w)
        BY DEF SwitchInv
    <2> QED
        BY <2>1, <1>1, <1>8, <1>9 DEF WorkerOK
<1>11. GoneFrameOK(c)
    BY <1>5 DEF SwitchInv
<1>12. frame_ff[victim] = f /\ fiber_self[f] = x /\ spare[w] = s
    BY <1>0
<1> HIDE DEF first
<1>13. \A v \in Workers :
          /\ step'[v] = IF v = w THEN "sched" ELSE step[v]
          /\ frame_ff'[v] = IF v = victim THEN c ELSE frame_ff[v]
          /\ next_frame_ff'[v] = IF v = w THEN f ELSE next_frame_ff[v]
          /\ spare'[v] = IF v = w THEN None ELSE spare[v]
    BY <1>1, <1>3 DEF SwitchTypes
<1>14. \A g \in FrameIds :
          /\ parent'[g] = IF g = c THEN f ELSE parent[g]
          /\ kids'[g] = IF g = f THEN Append(kids[f], c) ELSE kids[g]
          /\ join_counter'[g] = IF g = c THEN 1
                                ELSE IF g = f THEN join_counter[f] + 1 ELSE join_counter[g]
          /\ fiber_self'[g] = IF g = c THEN x ELSE IF g = f THEN s ELSE fiber_self[g]
    BY <1>1, <1>3, <1>4, <1>5 DEF SwitchTypes
<1>15. frames \subseteq FrameIds /\ \A g \in frames : parent[g] \in frames \cup {NullFrame}
    BY <1>3 DEF SwitchInv, SwitchTypes, TreeOK
<1>16. /\ Root' = Root /\ Children(c)' = {} /\ Children(f)' = Children(f) \cup {c}
       /\ \A g \in frames : g # f => Children(g)' = Children(g)
       /\ c \notin Children(f) /\ \A g : Children(g) \subseteq frames
    <2>1. Root' = Root
        BY <1>1, <1>4, <1>5, <1>14, <1>15 DEF Root
    <2>2. Children(c)' = {}
        BY <1>1, <1>5, <1>14, <1>15 DEF Children
    <2>3. Children(f)' = Children(f) \cup {c}
        BY <1>1, <1>5, <1>14, <1>15 DEF Children
    <2>4. ASSUME NEW g \in frames, g # f PROVE Children(g)' = Children(g)
        BY <2>4, <1>1, <1>5, <1>14, <1>15 DEF Children
    <2>5. c \notin Children(f) /\ \A g : Children(g) \subseteq frames
        BY <1>5 DEF Children
    <2> QED
        BY <2>1, <2>2, <2>3, <2>4, <2>5
<1>17. /\ Held(f)' /\ Held(c)' /\ Held(f)
       /\ \A g \in frames : g # f => (Held(g)' <=> Held(g))
    <2>1. Held(f)' /\ Held(c)' /\ Held(f)
        BY <1>12, <1>13 DEF Held
    <2>2. ASSUME NEW g \in frames, g # f PROVE Held(g)' <=> Held(g)
        <3>1. g # c /\ g # NullFrame
            BY <1>5, <1>15
        <3> QED
            BY <2>2, <3>1, <1>10, <1>12, <1>13 DEF Held
    <2> QED
        BY <2>1, <2>2
<1>18. (\A g \in FrameIds : Returned(g)' <=> Returned(g)) /\ ~Returned(c)
    <2>1. \A v \in Workers : step[v] \in {"returning", "do_return"} => v # w /\ v # victim
        BY <1>1
    <2>2. \A v \in Workers : step'[v] \in {"returning", "do_return"} <=> step[v] \in {"returning", "do_return"}
        BY <1>1, <1>13
    <2> QED
        BY <2>1, <2>2, <1>8, <1>13 DEF Returned
<1>19. HoldersOK'
    BY <1>4, <1>5, <1>8, <1>10, <1>13 DEF SwitchInv, HoldersOK
<1>20. TreeOK'
    <2>1. \A g \in frames' : parent'[g] \in frames' \cup {NullFrame}
        <3> TAKE g \in frames'
        <3>1. CASE g = c
            BY <3>1, <1>1, <1>4, <1>5, <1>14
        <3>2. CASE g # c
            BY <3>2, <1>1, <1>14, <1>15
        <3> QED
            BY <3>1, <3>2
    <2>2. ASSUME NEW S \in SUBSET frames', S # {}
          PROVE  \E g \in S : parent'[g] \notin S
        <3>1. CASE S \ {c} # {}
            <4>1. S \ {c} \in SUBSET frames
                BY <2>2, <1>1
            <4>2. PICK g \in S \ {c} : parent[g] \notin S \ {c}
                BY <3>1, <4>1 DEF SwitchInv, TreeOK
            <4>3. g \in frames /\ parent'[g] = parent[g] /\ parent[g] # c
                BY <4>1, <4>2, <1>5, <1>14, <1>15
            <4> QED
                BY <4>2, <4>3
        <3>2. CASE S = {c}
            BY <3>2, <1>5, <1>14
        <3> QED
            BY <2>2, <3>1, <3>2
    <2>3. step'[User] \in {"out", "gone"} => step[User] \in {"out", "gone"}
        BY <1>13
    <2> QED
        BY <2>1, <2>2, <2>3, <1>16 DEF SwitchInv, TreeOK
<1>21. MasterOK'
    <2>1. \A r \in Root : r \in frames /\ r \in FrameIds /\ r # c
        BY <1>5, <1>15 DEF Root
    <2>2. CASE first
        <3>1. last_full_frame = NullFrame /\ sync_master = {}
            BY <2>2 DEF first, SwitchInv, MasterOK
        <3>2. \A r \in Root : r \in synched
            BY <2>1, <3>1 DEF SwitchInv, MasterOK
        <3>3. Root # {}
            BY <1>4, NoFrames
        <3>4. Root = {f}
            BY <3>2, <3>3, <1>9
        <3>5. last_full_frame' = f /\ sync_master' = {f} /\ f \notin synched'
            BY <2>2, <3>1, <1>1, <1>5
        <3> QED
            BY <3>4, <3>5, <1>4, <1>16 DEF MasterOK
    <2>3. CASE ~first
        <3>1. last_full_frame' = last_full_frame /\ sync_master' = sync_master
            BY <2>3, <1>1
        <3>2. last_full_frame # NullFrame => last_full_frame \in Root \ synched'
            BY <2>1, <1>1 DEF SwitchInv, MasterOK
        <3>3. ASSUME NEW r \in Root, r \notin synched' PROVE r = last_full_frame
            <4>1. CASE r \notin synched
                BY <4>1 DEF SwitchInv, MasterOK
            <4>2. CASE r \in synched
                <5>1. r = f /\ frames = {f}
                    BY <4>2, <1>9
                <5>2. victim = User
                    BY <4>2, <5>1, <1>8 DEF SwitchInv, MasterOK
                <5>3. last_full_frame = NullFrame
                    BY <4>2, <5>1 DEF SwitchInv, MasterOK, Root
                <5> QED
                    BY <2>3, <5>2, <5>3 DEF first
            <4> QED
                BY <4>1, <4>2
        <3>4. ASSUME NEW r \in Root, r \in synched'
              PROVE  frame_ff'[User] = r \/ next_frame_ff'[User] = r
            <4>1. r \in synched /\ r # f /\ r # NullFrame
                BY <3>4, <2>1, <1>1, <1>5
            <4> QED
                BY <4>1, <1>9
        <3> QED
            BY <3>1, <3>2, <3>3, <3>4, <1>16 DEF SwitchInv, MasterOK
    <2> QED
        BY <2>2, <2>3
<1>22. ASSUME NEW g \in frames' PROVE FrameOK(g)'
    <2>1. CASE g = c
        <3>1. Cardinality(Children(c))' = 0
            BY <1>16, FS_EmptySet
        <3>2. c \in synched' /\ join_counter'[c] = 1 /\ fiber_self'[c] = x /\ fiber_child'[c] = None
            BY <1>1, <1>2, <1>5, <1>11, <1>14 DEF GoneFrameOK
        <3>3. \E v \in Workers : next_frame_ff'[v] = c \/ (frame_ff'[v] = c /\ step'[v] \in UserSteps)
            BY <1>1, <1>7, <1>13
        <3> QED
            BY <2>1, <3>1, <3>2, <3>3, <1>7, <1>16, <1>17 DEF FrameOK
    <2>2. CASE g = f
        <3>1. FrameOK(f)
            BY <1>4 DEF SwitchInv
        <3>2. IsFiniteSet(Children(f)) /\ Cardinality(Children(f)) \in Nat
            BY ChildrenAreFinite
        <3>3. Cardinality(Children(f) \cup {c}) = Cardinality(Children(f)) + 1
            BY <3>2, <1>16, FS_AddElement
        <3>4. Cardinality(Children(f))' = Cardinality(Children(f)) + 1
            BY <3>3, <1>16
        <3>5. join_counter'[f] = join_counter[f] + 1 /\ fiber_self'[f] = s
            BY <1>4, <1>5, <1>14
        <3>6. join_counter'[f] = Cardinality(Children(f))' + 1
            BY <3>1, <3>2, <3>4, <3>5, <1>17 DEF FrameOK
        <3>7. f \notin synched'
            BY <1>1, <1>5
        <3>8. kids'[f] # <<>>
            <4>1. kids[f] \in Seq(FrameIds) /\ kids'[f] = Append(kids[f], c)
                BY <1>3, <1>4, <1>14 DEF SwitchTypes
            <4> QED
                BY <4>1, <1>5
        <3>9. next_frame_ff'[w] = f
            BY <1>13
        <3> QED
            BY <2>2, <3>5, <3>6, <3>7, <3>8, <3>9, <1>6, <1>17 DEF FrameOK
    <2>3. CASE g # f /\ g # c
        <3>1. g \in frames /\ g \in FrameIds /\ FrameOK(g) /\ g # NullFrame
            BY <2>3, <1>1, <1>15 DEF SwitchInv
        <3>2. /\ Children(g)' = Children(g) /\ (Held(g)' <=> Held(g))
              /\ Cardinality(Children(g))' = Cardinality(Children(g))
            BY <2>3, <3>1, <1>16, <1>17
        <3>3. /\ g \in synched' <=> g \in synched
              /\ join_counter'[g] = join_counter[g] /\ fiber_self'[g] = fiber_self[g]
              /\ fiber_child'[g] = fiber_child[g] /\ kids'[g] = kids[g]
            BY <2>3, <3>1, <1>1, <1>2, <1>14
        <3>4. (\E v \in Workers : next_frame_ff'[v] = g \/ (frame_ff'[v] = g /\ step'[v] \in UserSteps))
                <=> (\E v \in Workers : next_frame_ff[v] = g \/ (frame_ff[v] = g /\ step[v] \in UserSteps))
            <4>1. \A v \in Workers : next_frame_ff'[v] = g <=> next_frame_ff[v] = g
                BY <2>3, <3>1, <1>10, <1>13
            <4>2. \A v \in Workers : frame_ff'[v] = g <=> frame_ff[v] = g
                BY <2>3, <1>12, <1>13
            <4>3. \A v \in Workers : step'[v] \in UserSteps <=> step[v] \in UserSteps
                BY <1>1, <1>13 DEF UserSteps
            <4> QED
                BY <4>1, <4>2, <4>3
        <3> QED
            BY <3>1, <3>2, <3>3, <3>4 DEF FrameOK
    <2> QED
        BY <2>1, <2>2, <2>3
<1>23. ASSUME NEW q \in frames' PROVE KidsOK(q)'
    <2>1. CASE q = c
        <3>1. kids'[c] = <<>>
            BY <1>5, <1>11, <1>14 DEF GoneFrameOK
        <3> QED
            BY <2>1, <3>1, <1>16 DEF KidsOK
    <2>2. CASE q = f
        <3>1. KidsOK(f) /\ kids[f] \in Seq(FrameIds)
            BY <1>3, <1>4 DEF SwitchInv, SwitchTypes
        <3> DEFINE k == kids[f]
                   l == Append(k, c)
        <3>2. kids'[f] = l
            BY <1>4, <1>14
        <3>3. /\ Len(k) \in Nat /\ DOMAIN k = 1..Len(k) /\ DOMAIN l = 1..(Len(k) + 1)
              /\ l[Len(k) + 1] = c /\ \A i \in 1..Len(k) : l[i] = k[i]
            BY <3>1, <1>5
        <3>4. \A i \in 1..Len(k) : k[i] # c
            BY <3>1, <3>3, <1>5, <1>16 DEF KidsOK
        <3>5. \A i \in DOMAIN l : (i \in DOMAIN k /\ l[i] = k[i]) \/ (i = Len(k) + 1 /\ l[i] = c)
            BY <3>3
        <3>6. \A i, j \in DOMAIN k : k[i] = k[j] => i = j
            BY <3>1 DEF KidsOK
        <3>7. \A d \in FrameIds : (\E i \in DOMAIN k : k[i] = d) <=> d \in Children(f) /\ ~Returned(d)
            BY <3>1 DEF KidsOK
        <3> HIDE DEF k, l
        <3>8. \A i, j \in DOMAIN l : l[i] = l[j] => i = j
            BY <3>3, <3>4, <3>5, <3>6
        <3>9. ASSUME NEW d \in FrameIds
              PROVE  (\E i \in DOMAIN l : l[i] = d) <=> d \in Children(f)' /\ ~Returned(d)'
            <4>1. (\E i \in DOMAIN l : l[i] = d) <=> (\E i \in DOMAIN k : k[i] = d) \/ d = c
                BY <3>3, <3>5
            <4>2. (Returned(d)' <=> Returned(d)) /\ (d = c => ~Returned(d))
                BY <1>18
            <4>3. d \in Children(f)' <=> d \in Children(f) \/ d = c
                BY <1>16
            <4> QED
                BY <4>1, <4>2, <4>3, <3>7
        <3> QED
            BY <2>2, <3>2, <3>8, <3>9 DEF KidsOK
    <2>3. CASE q # f /\ q # c
        <3>1. q \in frames /\ q \in FrameIds /\ KidsOK(q)
            BY <2>3, <1>1, <1>15 DEF SwitchInv
        <3>2. kids'[q] = kids[q] /\ Children(q)' = Children(q)
            BY <2>3, <3>1, <1>14, <1>16
        <3> QED
            BY <3>1, <3>2, <1>18 DEF KidsOK
    <2> QED
        BY <2>1, <2>2, <2>3
<1>24. \A g \in FrameIds \ frames' : GoneFrameOK(g)'
    BY <1>1, <1>2, <1>4, <1>14 DEF SwitchInv, GoneFrameOK
<1>25. \E home \in SUBSET FrameIds : HomeOK(home)'
    <2>1. PICK home \in SUBSET FrameIds : HomeOK(home)
        BY DEF SwitchInv
    <2>0. PICK h : h = IF f \in home /\ f \in synched THEN home \cup {c} ELSE home \ {c}
        OBVIOUS
    <2>2. h \in SUBSET FrameIds
        BY <2>0, <1>5
    <2>3. (c \in h <=> f \in home /\ f \in synched) /\ \A g \in frames : g \in h <=> g \in home
        BY <2>0, <1>5
    <2>4. Root' \subseteq h
        BY <2>1, <2>3, <1>16 DEF HomeOK, Root
    <2>5. ASSUME NEW g \in frames'
          PROVE  /\ fiber_self'[g] = Thread => g \in h /\ g \in synched'
                 /\ g \in h /\ g \in synched' /\ fiber_self'[g] # None => fiber_self'[g] = Thread
                 /\ fiber_child'[g] # None => (fiber_child'[g] = Thread <=> g \in h)
        <3>1. CASE g = c
            <4>1. x = Thread <=> f \in home /\ f \in synched
                BY <2>1, <1>4, <1>7, <1>12 DEF HomeOK
            <4> QED
                BY <3>1, <4>1, <2>3, <1>1, <1>2, <1>5, <1>7, <1>11, <1>14 DEF GoneFrameOK
        <3>2. CASE g = f
            <4>1. fiber_self'[f] = s /\ f \notin synched' /\ s # Thread
                BY <1>1, <1>4, <1>5, <1>6, <1>14
            <4>2. fiber_child[f] # None => (fiber_child[f] = Thread <=> f \in home)
                BY <2>1, <1>4 DEF HomeOK
            <4>3. fiber_child'[f] = fiber_child[f] /\ (f \in h <=> f \in home)
                BY <2>3, <1>2, <1>4
            <4> QED
                BY <3>2, <4>1, <4>2, <4>3
        <3>3. CASE g # f /\ g # c
            <4>1. g \in frames /\ fiber_self'[g] = fiber_self[g] /\ fiber_child'[g] = fiber_child[g]
                BY <3>3, <1>1, <1>2, <1>14, <1>15
            <4>2. (g \in synched' <=> g \in synched) /\ (g \in h <=> g \in home)
                BY <3>3, <4>1, <2>3, <1>1
            <4>3. /\ fiber_self[g] = Thread => g \in home /\ g \in synched
                  /\ g \in home /\ g \in synched /\ fiber_self[g] # None => fiber_self[g] = Thread
                  /\ fiber_child[g] # None => (fiber_child[g] = Thread <=> g \in home)
                BY <4>1, <2>1 DEF HomeOK
            <4> QED
                BY <4>1, <4>2, <4>3
        <3> QED
            BY <3>1, <3>2, <3>3
    <2>6. ASSUME NEW g \in frames', NEW i \in DOMAIN kids'[g]
          PROVE  kids'[g][i] \in h <=> g \in h /\ i = 1 /\ fiber_child'[g] = None
        <3>1. CASE g = c
            BY <3>1, <2>6, <1>5, <1>11, <1>14 DEF GoneFrameOK
        <3>2. \A q \in frames : \A j \in DOMAIN kids[q] : kids[q][j] \in frames
            <4> TAKE q \in frames
            <4> TAKE j \in DOMAIN kids[q]
            <4>1. kids[q][j] \in FrameIds
                BY <1>3, <1>15 DEF SwitchTypes
            <4> QED
                BY <4>1, <1>16 DEF SwitchInv, KidsOK
        <3>3. CASE g = f
            <4>1. /\ kids[f] \in Seq(FrameIds) /\ kids'[f] = Append(kids[f], c)
                  /\ Len(kids[f]) \in Nat /\ DOMAIN kids[f] = 1..Len(kids[f])
                  /\ DOMAIN kids'[f] = 1..(Len(kids[f]) + 1)
                  /\ kids'[f][Len(kids[f]) + 1] = c
                  /\ \A j \in 1..Len(kids[f]) : kids'[f][j] = kids[f][j]
                <5>1. PICK k : k = kids[f]
                    OBVIOUS
                <5>2. k \in Seq(FrameIds) /\ kids'[f] = Append(k, c)
                    BY <5>1, <1>3, <1>4, <1>14 DEF SwitchTypes
                <5>3. /\ Len(k) \in Nat /\ DOMAIN k = 1..Len(k)
                      /\ DOMAIN Append(k, c) = 1..(Len(k) + 1) /\ Append(k, c)[Len(k) + 1] = c
                      /\ \A j \in 1..Len(k) : Append(k, c)[j] = k[j]
                    BY <5>2, <1>5
                <5> QED
                    BY <5>1, <5>2, <5>3
            <4>2. CASE i \in 1..Len(kids[f])
                BY <3>2, <3>3, <4>1, <4>2, <2>1, <2>3, <1>2, <1>4 DEF HomeOK
            <4>3. CASE i = Len(kids[f]) + 1
                <5>1. f \in synched => kids[f] = <<>> /\ fiber_child[f] = None
                    <6>1. f \in synched => Children(f) = {} /\ fiber_child[f] = None
                        BY <1>4 DEF SwitchInv, FrameOK
                    <6>2. Children(f) = {} => DOMAIN kids[f] = {}
                        <7>1. \A j \in DOMAIN kids[f] : kids[f][j] \in FrameIds
                            BY <4>1
                        <7> QED
                            BY <7>1, <1>4 DEF SwitchInv, KidsOK
                    <6>3. DOMAIN kids[f] = {} => kids[f] = <<>>
                        BY <4>1
                    <6> QED
                        BY <6>1, <6>2, <6>3
                <5>2. f \notin synched => fiber_child[f] # None \/ kids[f] # <<>>
                    BY <1>4 DEF SwitchInv, FrameOK
                <5>3. i = 1 <=> kids[f] = <<>>
                    BY <4>1, <4>3
                <5> QED
                    BY <3>3, <4>1, <4>3, <5>1, <5>2, <5>3, <2>3, <1>2, <1>4
            <4> QED
                BY <2>6, <3>3, <4>1, <4>2, <4>3
        <3>4. CASE g # f /\ g # c
            <4>1. g \in frames /\ kids'[g] = kids[g]
                BY <3>4, <1>1, <1>14, <1>15
            <4> QED
                BY <2>6, <3>2, <4>1, <2>1, <2>3, <1>2 DEF HomeOK
        <3> QED
            BY <3>1, <3>3, <3>4
    <2>7. HomeOK(h)'
        BY <2>4, <2>5, <2>6 DEF HomeOK
    <2> QED
        BY <2>2, <2>7
<1>26. SwitchTypes'
    <2>1. step' \in [Workers -> Steps] /\ spare' \in [Workers -> Heap \cup {None}]
        BY <1>1, <1>3 DEF SwitchTypes, Steps, OnScheduler
    <2>2. frame_ff' \in [Workers -> FrameIds \cup {NullFrame}]
          /\ next_frame_ff' \in [Workers -> FrameIds \cup {NullFrame}]
        BY <1>1, <1>3, <1>4, <1>5 DEF SwitchTypes
    <2>3. /\ parent' \in [FrameIds -> FrameIds \cup {NullFrame}]
          /\ fiber_self' \in [FrameIds -> SomeFiber]
        BY <1>1, <1>3, <1>4, <1>6, <1>7 DEF SwitchTypes, SomeFiber
    <2>4. kids' \in [FrameIds -> Seq(FrameIds)]
        <3>1. Append(kids[f], c) \in Seq(FrameIds)
            BY <1>3, <1>4, <1>5 DEF SwitchTypes
        <3> QED
            BY <3>1, <1>1, <1>3 DEF SwitchTypes
    <2>5. join_counter' \in [FrameIds -> Nat]
        <3>1. join_counter[f] + 1 \in Nat
            BY <1>3, <1>4 DEF SwitchTypes
        <3> QED
            BY <3>1, <1>1, <1>3 DEF SwitchTypes
    <2>6. /\ frames' \subseteq FrameIds /\ synched' \subseteq FrameIds
          /\ sync_master' \subseteq FrameIds /\ last_full_frame' \in FrameIds \cup {NullFrame}
        BY <1>1, <1>3, <1>4, <1>5 DEF SwitchTypes
    <2> QED
        BY <1>2, <1>3, <2>1, <2>2, <2>3, <2>4, <2>5, <2>6 DEF SwitchTypes
<1>27. ASSUME NEW v \in Workers PROVE WorkerOK(v)'
    <2>1. WorkerOK(v)
        BY DEF SwitchInv
    <2>2. CASE v = w
        <3>1. pending_remove_ref[w] = None /\ fiber_to_free[w] = None
            BY <2>1, <2>2, <1>1 DEF WorkerOK, Leavings
        <3> QED
            BY <2>2, <3>1, <1>1, <1>2, <1>4, <1>6, <1>13 DEF WorkerOK, UserSteps, Leavings
    <2>3. CASE v = victim
        BY <2>3, <1>1, <1>2, <1>4, <1>5, <1>13 DEF WorkerOK, UserSteps, Leavings
    <2>4. CASE v # w /\ v # victim
        <3>1. /\ step'[v] = step[v] /\ frame_ff'[v] = frame_ff[v]
              /\ next_frame_ff'[v] = next_frame_ff[v] /\ spare'[v] = spare[v]
            BY <2>4, <1>13
        <3>2. /\ frame_ff[v] # f /\ frame_ff[v] # c /\ next_frame_ff[v] # f /\ next_frame_ff[v] # c
            BY <2>4, <1>8
        <3>3. /\ frame_ff[v] \in synched' <=> frame_ff[v] \in synched
              /\ next_frame_ff[v] \in synched' <=> next_frame_ff[v] \in synched
            BY <3>2, <1>1
        <3>4. frame_ff[v] # NullFrame => frame_ff[v] \in FrameIds /\ parent'[frame_ff[v]] = parent[frame_ff[v]]
            BY <3>2, <1>3, <1>14 DEF SwitchTypes
        <3>5. frames \subseteq frames'
            BY <1>1
        <3>6. step[v] \in {"returning", "do_return"} => frame_ff[v] # NullFrame
            BY <2>1 DEF WorkerOK, Leavings
        <3> QED
            BY <2>1, <3>1, <3>3, <3>4, <3>5, <3>6, <1>2, <1>16 DEF WorkerOK
    <2> QED
        BY <2>2, <2>3, <2>4
<1>28. Running' = Running
    BY <1>1, <1>13 DEF Running
<1>29. PlacesOK'
    <2>1. \A k \in Kinds : \A i \in Indices(k) :
             FiberAt(k, i)' = IF k = "self" /\ i = f THEN s
                              ELSE IF k = "self" /\ i = c THEN x
                              ELSE IF k = "spare" /\ i = w THEN None ELSE FiberAt(k, i)
        BY <1>2, <1>5, <1>13, <1>14 DEF FiberAt, Kinds, Indices
    <2>2. /\ "self" \in Kinds /\ f \in Indices("self") /\ c \in Indices("self")
          /\ FiberAt("self", f) = x /\ FiberAt("self", c) = None
          /\ "spare" \in Kinds /\ w \in Indices("spare") /\ FiberAt("spare", w) = s
        BY <1>4, <1>5, <1>11, <1>12 DEF Kinds, Indices, FiberAt, GoneFrameOK
    <2>3. /\ \A k \in Kinds : \A i \in Indices(k) : FiberAt(k, i) = s => k = "spare" /\ i = w
          /\ \A k \in Kinds : \A i \in Indices(k) : FiberAt(k, i) = x => k = "self" /\ i = f
        BY <2>2, <1>6, <1>7 DEF SwitchInv, PlacesOK
    <2>4. s # x
        BY <2>2, <2>3
    <2>5. ASSUME NEW k \in Kinds, NEW l \in Kinds, NEW i \in Indices(k), NEW j \in Indices(l),
                 FiberAt(k, i)' = FiberAt(l, j)', FiberAt(k, i)' # None
          PROVE  k = l /\ i = j
        <3>0. ASSUME NEW m \in Kinds, NEW h \in Indices(m)
              PROVE  /\ FiberAt(m, h)' = s => m = "self" /\ h = f
                     /\ FiberAt(m, h)' = x => m = "self" /\ h = c
            <4>1. FiberAt(m, h)' = IF m = "self" /\ h = f THEN s
                                   ELSE IF m = "self" /\ h = c THEN x
                                   ELSE IF m = "spare" /\ h = w THEN None ELSE FiberAt(m, h)
                BY <2>1
            <4>2. s # None /\ x # None
                BY <1>6, <1>7
            <4> QED
                BY <4>1, <4>2, <2>3, <2>4
        <3>1. CASE FiberAt(k, i)' = s
            BY <3>0, <3>1, <2>5
        <3>2. CASE FiberAt(k, i)' = x
            BY <3>0, <3>2, <2>5
        <3>3. CASE FiberAt(k, i)' # s /\ FiberAt(k, i)' # x
            <4>1. FiberAt(k, i)' = FiberAt(k, i) /\ FiberAt(l, j)' = FiberAt(l, j)
                BY <2>1, <2>5, <3>3
            <4>2. FiberAt(k, i) = FiberAt(l, j) /\ FiberAt(k, i) # None => k = l /\ i = j
                BY DEF SwitchInv, PlacesOK
            <4> QED
                BY <2>5, <4>1, <4>2
        <3> QED
            BY <3>1, <3>2, <3>3
    <2>6. ASSUME NEW y \in Heap \cup {Thread}
          PROVE  y \in alive' <=> \E k \in Kinds : \E i \in Indices(k) : FiberAt(k, i)' = y
        <3>1. y # None
            OBVIOUS
        <3>2. y \in alive <=> \E k \in Kinds : \E i \in Indices(k) : FiberAt(k, i) = y
            BY DEF SwitchInv, PlacesOK
        <3>3. CASE y = s
            BY <3>2, <3>3, <2>1, <2>2, <1>2
        <3>4. CASE y = x
            BY <3>2, <3>4, <2>1, <2>2, <1>2, <1>5
        <3>5. CASE y # s /\ y # x
            <4>1. \A k \in Kinds : \A i \in Indices(k) : FiberAt(k, i)' = y <=> FiberAt(k, i) = y
                BY <3>1, <3>5, <2>1, <2>2
            <4> QED
                BY <3>2, <4>1, <1>2
        <3> QED
            BY <3>3, <3>4, <3>5
    <2>7. \A v \in Workers : /\ step'[v] = "gone" => v \notin alive'
                             /\ v \in Running' => v \in alive'
        BY <1>2, <1>13, <1>28 DEF SwitchInv, PlacesOK
    <2> QED
        BY <2>5, <2>6, <2>7 DEF PlacesOK
<1>30. CurOK'
    <2>1. ASSUME NEW v \in Running'
          PROVE  /\ cur'[v] \in alive' \ resumable'
                 /\ step'[v] \in OnScheduler <=> cur'[v] = v
                 /\ step'[v] \in UserSteps => cur'[v] = fiber_self'[frame_ff'[v]]
                 /\ step'[v] \in Leavings => cur'[v] = Leaving(v)'
                 /\ step'[v] = "started" => cur'[v] \in Heap
                 /\ fiber_owner'[cur'[v]] = v
                 /\ cur'[v] # v => fiber_owner'[v] = None \/ cur'[v] = Thread
        <3>1. v \in Running /\ v \in Workers
            BY <2>1, <1>28 DEF Running
        <3>2. /\ step'[v] \in OnScheduler <=> step[v] \in OnScheduler
              /\ step'[v] \in UserSteps <=> step[v] \in UserSteps
              /\ step'[v] \in Leavings <=> step[v] \in Leavings
              /\ step'[v] = "started" => step[v] = "started"
            BY <3>1, <1>1, <1>13 DEF OnScheduler, UserSteps, Leavings
        <3>3. ASSUME step[v] \in UserSteps PROVE cur[v] = fiber_self'[frame_ff'[v]]
            <4>1. frame_ff[v] \in FrameIds /\ cur[v] = fiber_self[frame_ff[v]]
                BY <3>1, <3>3, WhereCurIs DEF OnScheduler, UserSteps, SwitchInv, CurOK
            <4>2. CASE v = victim
                BY <4>2, <1>5, <1>7, <1>13, <1>14
            <4>3. CASE v # victim
                BY <3>1, <4>1, <4>3, <1>8, <1>13, <1>14
            <4> QED
                BY <4>2, <4>3
        <3>4. ASSUME step[v] \in Leavings PROVE Leaving(v)' = Leaving(v)
            <4>1. v # victim /\ frame_ff[v] \in FrameIds /\ frame_ff[v] # c
                BY <3>1, <3>4, <1>1, <1>8, WhereCurIs DEF OnScheduler, Leavings
            <4>2. frame_ff'[v] = frame_ff[v] /\ parent'[frame_ff[v]] = parent[frame_ff[v]]
                BY <3>1, <4>1, <1>13, <1>14
            <4> QED
                BY <4>2, <1>2 DEF Leaving
        <3> QED
            BY <3>1, <3>2, <3>3, <3>4, <1>2 DEF SwitchInv, CurOK
    <2> QED
        BY <2>1, <1>2, <1>28 DEF SwitchInv, CurOK
<1>31. ResumableOK'
    <2>1. ASSUME NEW v \in Workers
          PROVE  /\ spare'[v] \notin resumable
                 /\ next_frame_ff'[v] # NullFrame =>
                      IF next_frame_ff'[v] \in synched' THEN fiber_self'[next_frame_ff'[v]] \in resumable
                      ELSE fiber_self'[next_frame_ff'[v]] \in Heap \ resumable
        <3>1. None \notin resumable
            BY <1>3 DEF SwitchTypes
        <3>2. CASE v = w
            <4>1. s \notin resumable
                BY <1>12 DEF SwitchInv, ResumableOK
            <4>2. next_frame_ff'[v] = f /\ f \notin synched' /\ fiber_self'[f] = s
                BY <3>2, <1>1, <1>4, <1>5, <1>13, <1>14
            <4> QED
                BY <3>1, <3>2, <4>1, <4>2, <1>6, <1>13
        <3>3. CASE v # w
            <4>1. spare'[v] = spare[v] /\ next_frame_ff'[v] = next_frame_ff[v]
                BY <3>3, <1>13
            <4>2. next_frame_ff[v] # f /\ next_frame_ff[v] # c
                BY <1>8
            <4>3. next_frame_ff[v] # NullFrame => next_frame_ff[v] \in FrameIds
                BY <1>3 DEF SwitchTypes
            <4>4. next_frame_ff[v] \in synched' <=> next_frame_ff[v] \in synched
                BY <4>2, <1>1
            <4>5. next_frame_ff[v] # NullFrame => fiber_self'[next_frame_ff[v]] = fiber_self[next_frame_ff[v]]
                BY <4>2, <4>3, <1>14
            <4> QED
                BY <4>1, <4>4, <4>5 DEF SwitchInv, ResumableOK
        <3> QED
            BY <3>2, <3>3
    <2>2. ASSUME NEW q \in frames', fiber_child[q] # None
          PROVE  \/ fiber_child[q] \in resumable
                 \/ \E v \in Workers : step'[v] = "returning" /\ parent'[frame_ff'[v]] = q
                                       /\ fiber_to_free[v] = None
        <3>1. q \in frames
            BY <2>2, <1>1, <1>11 DEF GoneFrameOK
        <3>2. ASSUME NEW v \in Workers, step[v] = "returning"
              PROVE  step'[v] = "returning" /\ parent'[frame_ff'[v]] = parent[frame_ff[v]]
            <4>1. frame_ff[v] \in FrameIds /\ frame_ff[v] # c /\ v # w /\ v # victim
                BY <3>2, <1>1, <1>3, <1>8 DEF SwitchInv, WorkerOK, SwitchTypes, Leavings
            <4> QED
                BY <3>2, <4>1, <1>13, <1>14
        <3> QED
            BY <2>2, <3>1, <3>2 DEF SwitchInv, ResumableOK
    <2>3. \A v \in Workers : step[v] \in UserSteps \cup Leavings => step'[v] \in UserSteps \cup Leavings
        BY <1>1, <1>13 DEF UserSteps, Leavings
    <2> QED
        BY <2>1, <2>2, <2>3, <1>2 DEF SwitchInv, ResumableOK
<1> QED
    BY <1>19, <1>20, <1>21, <1>22, <1>23, <1>24, <1>25, <1>26, <1>27, <1>29, <1>30, <1>31
    DEF SwitchInv

(* The last to arrive at a sync gives the frame the fiber that its         *)
(* leftmost child left, and hands it to the one who is to run it.          *)
LEMMA SwitchTransition ==
    ASSUME FiberAssumption, SwitchInv, NEW w \in Workers, EnterRuntimeTransition(w)
    PROVE  SwitchInv'
<1> USE FiberConstants
<1>0. PICK f, t, gone, y, r :
         /\ f = frame_ff[w] /\ t = IF step[w] = "do_sync" THEN f ELSE parent[f]
         /\ gone = IF step[w] = "do_sync" THEN {} ELSE {f}
         /\ y = fiber_child[t] /\ r = IF t \in sync_master THEN User ELSE w
    OBVIOUS
<1> DEFINE last == ~(join_counter[t] > 1)
           Others(g) == \E v \in Workers : (v # w /\ frame_ff[v] = g) \/ next_frame_ff[v] = g
<1>1. /\ step[w] \in {"do_sync", "do_return"} /\ step' = [step EXCEPT ![w] = "switched"]
      /\ frame_ff' = [frame_ff EXCEPT ![w] = NullFrame]
      /\ cur' = cur /\ fiber_to_free' = fiber_to_free /\ spare' = spare
      /\ alive' = alive /\ fiber_owner' = fiber_owner /\ resumable' = resumable
      /\ resume_sf' = resume_sf /\ pending_remove_ref' = pending_remove_ref /\ kids' = kids
    BY DEF EnterRuntimeTransition, DoSync, DoReturnFromSpawn, Goto, fibers
<1>2. SwitchTypes
    BY DEF SwitchInv
<1>3. /\ f \in frames /\ f \in FrameIds /\ f # NullFrame
      /\ next_frame_ff[w] = NullFrame /\ spare[w] = None /\ fiber_to_free[w] = None
    <2>1. WorkerOK(w)
        BY DEF SwitchInv
    <2> QED
        BY <1>0, <1>1, <1>2, <2>1 DEF WorkerOK, Leavings, SwitchTypes
<1>4. \A v \in Workers : next_frame_ff[v] # f /\ (frame_ff[v] = f => v = w)
    BY <1>0, <1>3 DEF SwitchInv, HoldersOK
<1>5. /\ t \in frames /\ t \in FrameIds /\ t \notin synched
      /\ \/ step[w] = "do_sync" /\ t = f /\ gone = {}
         \/ /\ step[w] = "do_return" /\ gone = {f} /\ f # t /\ t = parent[f]
            /\ f \in Children(t) /\ f \in synched /\ Children(f) = {}
    <2>1. CASE step[w] = "do_sync"
        BY <2>1, <1>0, <1>3 DEF SwitchInv, WorkerOK
    <2>2. CASE step[w] = "do_return"
        <3>1. f \in synched /\ parent[f] # NullFrame
            BY <2>2, <1>0 DEF SwitchInv, WorkerOK
        <3>2. parent[f] \in frames /\ parent[f] \in FrameIds /\ f \in Children(parent[f])
            BY <3>1, <1>2, <1>3 DEF SwitchInv, TreeOK, SwitchTypes, Children
        <3>3. parent[f] \notin synched /\ Children(f) = {}
            BY <3>1, <3>2, <1>3 DEF SwitchInv, FrameOK
        <3> QED
            BY <2>2, <3>1, <3>2, <3>3, <1>0
    <2> QED
        BY <1>1, <2>1, <2>2
<1>6. join_counter[f] \in Nat /\ join_counter[t] \in Nat /\ (f # t => join_counter[f] = 1)
    <2>1. join_counter[f] \in Nat /\ join_counter[t] \in Nat
        BY <1>2, <1>3, <1>5 DEF SwitchTypes
    <2>2. FrameOK(f) /\ Held(f)
        BY <1>0, <1>3 DEF SwitchInv, Held
    <2>3. f # t => Cardinality(Children(f)) = 0
        BY <1>5, FS_EmptySet
    <2> QED
        BY <2>1, <2>2, <2>3 DEF FrameOK
<1>7. /\ frames' = frames \ gone
      /\ parent' \in [FrameIds -> FrameIds \cup {NullFrame}]
      /\ \A g \in FrameIds : parent'[g] = IF g \in gone THEN NullFrame ELSE parent[g]
      /\ join_counter' \in [FrameIds -> Nat]
      /\ \A g \in FrameIds : g # t /\ g \notin gone => join_counter'[g] = join_counter[g]
      /\ join_counter'[t] = IF last THEN join_counter[t] ELSE join_counter[t] - 1
      /\ fiber_self' = IF last THEN [fiber_self EXCEPT ![t] = y] ELSE fiber_self
      /\ fiber_child' = IF last THEN [fiber_child EXCEPT ![t] = None] ELSE fiber_child
      /\ synched' = IF last THEN synched \cup {t} ELSE synched
      /\ sync_master' = IF last THEN sync_master \ {t} ELSE sync_master
      /\ last_full_frame' = IF last /\ t \in sync_master THEN NullFrame ELSE last_full_frame
      /\ next_frame_ff' = IF last THEN [next_frame_ff EXCEPT ![r] = t] ELSE next_frame_ff
    <2>1. CASE step[w] = "do_sync"
        <3>1. DoSync(w)
            BY <2>1 DEF EnterRuntimeTransition, DoReturnFromSpawn, Goto
        <3>2. frames' = frames /\ parent' = parent /\ ProvablyGoodSteal(w, t, join_counter)
            BY <2>1, <3>1, <1>0 DEF DoSync
        <3>3. gone = {}
            BY <2>1, <1>0
        <3>4. CASE last
            <4>1. /\ fiber_self' = [fiber_self EXCEPT ![t] = y]
                  /\ fiber_child' = [fiber_child EXCEPT ![t] = None]
                  /\ synched' = synched \cup {t} /\ sync_master' = sync_master \ {t}
                  /\ last_full_frame' = IF t \in sync_master THEN NullFrame ELSE last_full_frame
                  /\ next_frame_ff' = [next_frame_ff EXCEPT ![r] = t]
                  /\ join_counter' = join_counter
                BY <3>2, <3>4, <1>0 DEF ProvablyGoodSteal
            <4> QED
                BY <3>2, <3>3, <3>4, <4>1, <1>2 DEF SwitchTypes
        <3>5. CASE ~last
            <4>1. join_counter[t] - 1 \in Nat /\ join_counter[t] > 1
                BY <3>5, <1>6
            <4>2. /\ join_counter' = [join_counter EXCEPT ![t] = join_counter[t] - 1]
                  /\ UNCHANGED <<fiber_self, fiber_child, synched, sync_master,
                                 last_full_frame, next_frame_ff>>
                BY <3>2, <4>1 DEF ProvablyGoodSteal
            <4> QED
                BY <3>2, <3>3, <3>5, <4>1, <4>2, <1>2, <1>5 DEF SwitchTypes
        <3> QED
            BY <3>4, <3>5
    <2>2. CASE step[w] = "do_return"
        <3> DEFINE j == [join_counter EXCEPT ![f] = join_counter[f] - 1]
        <3>1. DoReturnFromSpawn(w)
            BY <2>2 DEF EnterRuntimeTransition, DoSync, Goto
        <3>2. /\ frames' = frames \ {f} /\ parent' = [parent EXCEPT ![f] = NullFrame]
              /\ ProvablyGoodSteal(w, t, j)
            BY <2>2, <3>1, <1>0 DEF DoReturnFromSpawn
        <3>3. gone = {f} /\ f # t
            BY <2>2, <1>5
        <3>4. j \in [FrameIds -> Nat] /\ j[t] = join_counter[t]
              /\ \A g \in FrameIds : g # f => j[g] = join_counter[g]
            BY <3>3, <1>2, <1>3, <1>5, <1>6 DEF SwitchTypes
        <3>5. parent' \in [FrameIds -> FrameIds \cup {NullFrame}]
              /\ \A g \in FrameIds : parent'[g] = IF g = f THEN NullFrame ELSE parent[g]
            BY <3>2, <1>2, <1>3 DEF SwitchTypes
        <3> HIDE DEF j
        <3>6. CASE last
            BY <3>2, <3>3, <3>4, <3>5, <3>6, <1>0, <1>5, <1>6 DEF ProvablyGoodSteal
        <3>7. CASE ~last
            <4>1. join_counter[t] - 1 \in Nat /\ j[t] > 1
                BY <3>4, <3>7, <1>6
            <4>2. /\ join_counter' = [j EXCEPT ![t] = j[t] - 1]
                  /\ UNCHANGED <<fiber_self, fiber_child, synched, sync_master,
                                 last_full_frame, next_frame_ff>>
                BY <3>2, <4>1 DEF ProvablyGoodSteal
            <4> QED
                BY <3>2, <3>3, <3>4, <3>5, <3>7, <4>1, <4>2, <1>5
        <3> QED
            BY <3>6, <3>7
    <2> QED
        BY <1>1, <2>1, <2>2
<1>8. frame_ff[w] = f /\ fiber_child[t] = y /\ gone \subseteq {f}
    BY <1>0, <1>5
<1>9. gone # {} => t \notin gone
    BY <1>5
<1>10. r \in Workers
    BY <1>0
<1> HIDE DEF last
<1>11. \A v \in Workers :
          /\ step'[v] = IF v = w THEN "switched" ELSE step[v]
          /\ frame_ff'[v] = IF v = w THEN NullFrame ELSE frame_ff[v]
          /\ next_frame_ff'[v] = IF last /\ v = r THEN t ELSE next_frame_ff[v]
    BY <1>1, <1>2, <1>7 DEF SwitchTypes
<1>12. \A g \in FrameIds :
          /\ fiber_self'[g] = IF last /\ g = t THEN y ELSE fiber_self[g]
          /\ fiber_child'[g] = IF last /\ g = t THEN None ELSE fiber_child[g]
    BY <1>2, <1>5, <1>7 DEF SwitchTypes
<1>13. frames \subseteq FrameIds /\ \A g \in frames : parent[g] \in frames \cup {NullFrame}
    BY <1>2 DEF SwitchInv, SwitchTypes, TreeOK
<1>14. /\ Root' = Root /\ Root \subseteq frames' /\ Children(t)' = Children(t) \ gone
       /\ \A g \in frames' : g # t => Children(g)' = Children(g)
       /\ gone \subseteq Children(t)
       /\ \A g \in frames' : parent'[g] = parent[g] /\ parent[g] \notin gone
    <2>1. gone \subseteq Children(t)
        BY <1>5, <1>8
    <2>2. \A g \in frames : parent[g] \notin gone
        BY <1>5 DEF Children
    <2>3. Root' = Root /\ Root \subseteq frames'
        BY <2>1, <1>3, <1>5, <1>7, <1>13 DEF Root, Children
    <2>4. \A g \in frames' : parent'[g] = parent[g] /\ g \in frames
        BY <1>7, <1>13
    <2>5. \A g : Children(g)' = Children(g) \ gone
        BY <2>4, <1>7 DEF Children
    <2>6. \A g \in frames' : g # t => Children(g) \cap gone = {}
        BY <2>1, <1>5 DEF Children
    <2> QED
        BY <2>1, <2>2, <2>3, <2>4, <2>5, <2>6
<1>15. t \in frames' /\ \A g \in frames' : g \in frames /\ g \in FrameIds /\ g \notin gone /\ g # NullFrame
    BY <1>5, <1>7, <1>9, <1>13
<1>16. \A g \in frames' : g # t => (Held(g) <=> Others(g))
    BY <1>5, <1>8, <1>15 DEF Held
<1>17. /\ Cardinality(Children(t))' \in Nat /\ IsFiniteSet(Children(t)')
       /\ join_counter[t] - 1 = Cardinality(Children(t))' + (IF Others(t) THEN 1 ELSE 0)
    <2>1. FrameOK(t)
        BY <1>5 DEF SwitchInv
    <2>2. IsFiniteSet(Children(t)) /\ Cardinality(Children(t)) \in Nat
        BY ChildrenAreFinite
    <2>3. CASE t = f /\ gone = {}
        <3>1. Held(t) /\ ~Others(t)
            BY <2>3, <1>4, <1>8 DEF Held
        <3>2. Children(t)' = Children(t)
            BY <2>3, <1>14
        <3>3. Cardinality(Children(t))' = Cardinality(Children(t))
            BY <3>2
        <3> QED
            BY <2>1, <2>2, <3>1, <3>2, <3>3 DEF FrameOK
    <2>4. CASE t # f /\ gone = {f} /\ f \in Children(t)
        <3>1. Held(t) <=> Others(t)
            BY <2>4, <1>8 DEF Held
        <3>2. Children(t)' = Children(t) \ {f}
            BY <2>4, <1>14
        <3>3. IsFiniteSet(Children(t) \ {f})
              /\ Cardinality(Children(t) \ {f}) = Cardinality(Children(t)) - 1
            BY <2>2, <2>4, FS_RemoveElement
        <3>4. Cardinality(Children(t) \ {f}) \in Nat
            BY <3>3, FS_CardinalityType
        <3>5. Cardinality(Children(t))' = Cardinality(Children(t) \ {f})
            BY <3>2
        <3> QED
            BY <2>1, <2>2, <3>1, <3>2, <3>3, <3>4, <3>5 DEF FrameOK
    <2> QED
        BY <2>3, <2>4, <1>5
(* The last one finds the frame alone, and the fiber of its leftmost child. *)
<1>18. last => /\ Children(t)' = {} /\ ~Others(t) /\ join_counter[t] = 1
               /\ Children(t) \subseteq gone
    <2>1. last => Cardinality(Children(t))' = 0 /\ ~Others(t) /\ join_counter[t] = 1
        BY <1>6, <1>17 DEF last
    <2>2. Cardinality(Children(t))' = 0 => Children(t)' = {}
        BY <1>17, FS_EmptySet
    <2> QED
        BY <2>1, <2>2, <1>14
<1>19. \A c \in Children(t) : last => c = f /\ Returned(c) /\ t # f
    <2>1. gone # {} => Returned(f) /\ t # f
        BY <1>5, <1>8 DEF Returned
    <2> QED
        BY <2>1, <1>8, <1>18
<1>20. last => DOMAIN kids[t] = {} /\ kids[t] = <<>>
    <2>1. kids[t] \in Seq(FrameIds)
        BY <1>2, <1>5 DEF SwitchTypes
    <2>2. ASSUME last, NEW i \in DOMAIN kids[t] PROVE FALSE
        <3>1. kids[t][i] \in FrameIds
            BY <2>1, <2>2
        <3>2. kids[t][i] \in Children(t) /\ ~Returned(kids[t][i])
            BY <2>2, <3>1, <1>5 DEF SwitchInv, KidsOK
        <3> QED
            BY <2>2, <3>2, <1>19
    <2>3. last => DOMAIN kids[t] = {}
        BY <2>2
    <2>4. PICK k : k = kids[t]
        OBVIOUS
    <2>5. DOMAIN k = {} => k = <<>>
        <3>1. k \in Seq(FrameIds)
            BY <2>1, <2>4
        <3>2. Len(k) \in Nat /\ DOMAIN k = 1..Len(k)
            BY <3>1
        <3> QED
            BY <3>1, <3>2
    <2> QED
        BY <2>3, <2>4, <2>5
<1>21. \A v \in Workers : last /\ step[v] = "returning" => parent[frame_ff[v]] # t
    <2> SUFFICES ASSUME NEW v \in Workers, last, step[v] = "returning", parent[frame_ff[v]] = t
                 PROVE  FALSE
        OBVIOUS
    <2>1. frame_ff[v] \in Children(t)
        BY DEF SwitchInv, WorkerOK, Leavings, Children
    <2>2. frame_ff[v] = f
        BY <2>1, <1>19
    <2> QED
        BY <2>2, <1>1, <1>4
<1>22. last => y # None /\ y \in resumable /\ fiber_self[t] = None /\ y \in Heap \cup {Thread}
    <2>1. last => y # None
        BY <1>5, <1>8, <1>20 DEF SwitchInv, FrameOK
    <2>2. last => y \in resumable
        BY <2>1, <1>5, <1>8, <1>21 DEF SwitchInv, ResumableOK
    <2>3. last => fiber_self[t] = None
        <3>1. step[w] \notin UserSteps
            BY <1>1 DEF UserSteps
        <3> QED
            BY <3>1, <1>5, <1>18 DEF SwitchInv, FrameOK
    <2>4. y \in SomeFiber
        BY <1>2, <1>5, <1>8 DEF SwitchTypes
    <2> QED
        BY <2>1, <2>2, <2>3, <2>4 DEF SomeFiber
(* Who is to run it has nothing else.                                      *)
<1>23. last => /\ next_frame_ff[r] = NullFrame /\ frame_ff'[r] = NullFrame
               /\ step'[r] \in {"sched", "steal", "switched"}
               /\ step'[r] = "steal" => t \in Root
    <2>1. CASE r = w
        BY <2>1, <1>3, <1>11
    <2>2. CASE r # w
        <3> SUFFICES ASSUME last
                     PROVE  /\ next_frame_ff[r] = NullFrame /\ frame_ff[r] = NullFrame
                            /\ step[r] \in {"sched", "steal", "switched"} /\ t \in Root
            BY <2>2, <1>10, <1>11
        <3>1. r = User /\ t \in sync_master
            BY <2>2, <1>0
        <3>2. t \in Root
            BY <3>1, <1>5 DEF SwitchInv, MasterOK
        <3>3. frames \subseteq {t, f}
            <4> SUFFICES ASSUME frames \ {t, f} # {} PROVE FALSE
                OBVIOUS
            <4>1. PICK g \in frames \ {t, f} : parent[g] \notin frames \ {t, f}
                BY DEF SwitchInv, TreeOK
            <4>2. g \notin Root
                BY <3>2, <4>1 DEF SwitchInv, TreeOK
            <4>3. parent[g] \in {t, f}
                BY <4>1, <4>2, <1>13 DEF Root
            <4>4. parent[g] # t
                BY <4>1, <1>19 DEF Children
            <4>5. parent[g] # f
                BY <4>1, <4>4, <1>5 DEF Children
            <4> QED
                BY <4>3, <4>4, <4>5
        <3>4. frame_ff[r] # t /\ next_frame_ff[r] # t /\ frame_ff[r] # f /\ next_frame_ff[r] # f
            BY <2>2, <1>4, <1>10, <1>18
        <3>5. frame_ff[r] = NullFrame /\ next_frame_ff[r] = NullFrame
            BY <3>3, <3>4, <1>10 DEF SwitchInv, WorkerOK
        <3>6. step[User] \notin {"out", "gone"}
            BY <3>2 DEF SwitchInv, TreeOK
        <3>7. step[r] \in {"sched", "steal", "switched"}
            BY <3>1, <3>5, <3>6, <1>2, <1>10
            DEF SwitchInv, WorkerOK, SwitchTypes, Steps, OnScheduler, UserSteps, Leavings
        <3> QED
            BY <3>2, <3>5, <3>7
    <2> QED
        BY <2>1, <2>2
<1>24. \A g \in frames' : Held(g)' <=> (Others(g) \/ (last /\ g = t))
    <2> TAKE g \in frames'
    <2>1. g # NullFrame
        BY <1>15
    <2>2. (last /\ g = t) => Held(g)'
        BY <1>10, <1>11 DEF Held
    <2>3. Others(g) => Held(g)'
        <3>1. \A v \in Workers : next_frame_ff[v] = g => next_frame_ff'[v] = g
            BY <2>1, <1>11, <1>23
        <3>2. \A v \in Workers : v # w /\ frame_ff[v] = g => frame_ff'[v] = g
            BY <1>11
        <3> QED
            BY <3>1, <3>2 DEF Held
    <2>4. Held(g)' => Others(g) \/ (last /\ g = t)
        BY <2>1, <1>11 DEF Held
    <2> QED
        BY <2>2, <2>3, <2>4
<1>25. \A c \in FrameIds : Returned(c)' <=> Returned(c) /\ c \notin gone
    <2> TAKE c \in FrameIds
    <2>1. Returned(c)' <=> \E v \in Workers : v # w /\ frame_ff[v] = c /\ step[v] \in {"returning", "do_return"}
        BY <1>11 DEF Returned
    <2>2. CASE c = f
        BY <2>1, <2>2, <1>4, <1>5, <1>8 DEF Returned
    <2>3. CASE c # f
        BY <2>1, <2>3, <1>8 DEF Returned
    <2> QED
        BY <2>2, <2>3
<1>26. HoldersOK'
    <2>1. ASSUME NEW v \in Workers, NEW u \in Workers
          PROVE  /\ frame_ff'[v] = frame_ff'[u] /\ frame_ff'[v] # NullFrame => v = u
                 /\ next_frame_ff'[v] = next_frame_ff'[u] /\ next_frame_ff'[v] # NullFrame => v = u
                 /\ frame_ff'[v] = next_frame_ff'[u] => frame_ff'[v] = NullFrame
        <3>1. frame_ff'[v] = frame_ff'[u] /\ frame_ff'[v] # NullFrame => v = u
            BY <1>11 DEF SwitchInv, HoldersOK
        <3>2. last => /\ next_frame_ff[v] # t /\ next_frame_ff[u] # t
                      /\ v # w => frame_ff[v] # t
            BY <1>18
        <3>3. next_frame_ff'[v] = next_frame_ff'[u] /\ next_frame_ff'[v] # NullFrame => v = u
            BY <3>2, <1>11 DEF SwitchInv, HoldersOK
        <3>4. frame_ff'[v] = next_frame_ff'[u] => frame_ff'[v] = NullFrame
            BY <3>2, <1>11 DEF SwitchInv, HoldersOK
        <3> QED
            BY <3>1, <3>3, <3>4
    <2> QED
        BY <2>1 DEF HoldersOK
<1>27. TreeOK'
    <2>1. \A g \in frames' : parent'[g] \in frames' \cup {NullFrame}
        BY <1>7, <1>13, <1>14, <1>15
    <2>2. ASSUME NEW S \in SUBSET frames', S # {}
          PROVE  \E g \in S : parent'[g] \notin S
        <3>1. S \in SUBSET frames
            BY <1>15
        <3>2. PICK g \in S : parent[g] \notin S
            BY <2>2, <3>1 DEF SwitchInv, TreeOK
        <3> QED
            BY <3>2, <1>14
    <2>3. step'[User] \in {"out", "gone"} => step[User] \in {"out", "gone"}
        BY <1>11
    <2> QED
        BY <2>1, <2>2, <2>3, <1>14 DEF SwitchInv, TreeOK
<1>28. MasterOK'
    <2>1. ASSUME NEW q \in Root, q \in synched
          PROVE  frame_ff'[User] = q \/ next_frame_ff[User] = q
        <3>1. frame_ff[User] = q \/ next_frame_ff[User] = q
            BY <2>1 DEF SwitchInv, MasterOK
        <3>2. q # f
            BY <2>1, <1>5, <1>14, <1>15
        <3> QED
            BY <3>1, <3>2, <1>8, <1>11
    <2>2. CASE ~last
        BY <2>1, <2>2, <1>7, <1>14 DEF SwitchInv, MasterOK
    <2>3. CASE last /\ t \in sync_master
        <3>1. last_full_frame = t /\ sync_master = {t} /\ t \in Root
            BY <2>3, <1>5 DEF SwitchInv, MasterOK
        <3>2. last_full_frame' = NullFrame /\ sync_master' = {} /\ t \in synched'
            BY <2>3, <3>1, <1>7
        <3>3. \A q \in Root : q = t
            BY <3>1 DEF SwitchInv, TreeOK
        <3>4. next_frame_ff'[User] = t
            BY <2>3, <1>0, <1>11
        <3> QED
            BY <3>2, <3>3, <3>4, <1>14 DEF MasterOK
    <2>4. CASE last /\ t \notin sync_master
        <3>1. /\ last_full_frame' = last_full_frame /\ sync_master' = sync_master
              /\ synched' = synched \cup {t} /\ r = w
            BY <2>4, <1>0, <1>7
        <3>2. t # last_full_frame
            BY <2>4, <1>15 DEF SwitchInv, MasterOK
        <3>3. t \notin Root
            BY <3>2, <1>5 DEF SwitchInv, MasterOK
        <3>4. \A q \in Root : q # NullFrame
            BY <1>14, <1>15
        <3>5. next_frame_ff[User] # NullFrame => next_frame_ff'[User] = next_frame_ff[User]
            BY <3>1, <1>3, <1>11
        <3>6. last_full_frame # NullFrame => last_full_frame \in Root \ synched'
            BY <3>1, <3>2 DEF SwitchInv, MasterOK
        <3>7. \A q \in Root : q \notin synched' => q = last_full_frame
            BY <3>1 DEF SwitchInv, MasterOK
        <3>8. \A q \in Root : q \in synched' => frame_ff'[User] = q \/ next_frame_ff'[User] = q
            BY <3>1, <3>3, <3>4, <3>5, <2>1
        <3>9. sync_master = {last_full_frame} \ {NullFrame}
            BY DEF SwitchInv, MasterOK
        <3> QED
            BY <3>1, <3>6, <3>7, <3>8, <3>9, <1>14 DEF MasterOK
    <2> QED
        BY <2>2, <2>3, <2>4
<1>29. ASSUME NEW g \in frames' PROVE FrameOK(g)'
    <2>1. FrameOK(g) /\ g \in FrameIds /\ g \notin gone
        BY <1>15 DEF SwitchInv
    <2>2. step[w] \notin UserSteps /\ step'[w] \notin UserSteps
        BY <1>1, <1>11 DEF UserSteps
    <2>3. CASE g # t
        <3>1. (Held(g)' <=> Held(g)) /\ Children(g)' = Children(g)
              /\ Cardinality(Children(g))' = Cardinality(Children(g))
            BY <2>3, <1>14, <1>16, <1>24
        <3>2. /\ g \in synched' <=> g \in synched
              /\ join_counter'[g] = join_counter[g] /\ fiber_self'[g] = fiber_self[g]
              /\ fiber_child'[g] = fiber_child[g] /\ kids'[g] = kids[g]
            BY <2>1, <2>3, <1>1, <1>7, <1>12
        <3>3. (\E v \in Workers : next_frame_ff'[v] = g \/ (frame_ff'[v] = g /\ step'[v] \in UserSteps))
                <=> (\E v \in Workers : next_frame_ff[v] = g \/ (frame_ff[v] = g /\ step[v] \in UserSteps))
            <4>1. \A v \in Workers : next_frame_ff'[v] = g <=> next_frame_ff[v] = g
                BY <2>3, <1>11, <1>15, <1>23
            <4>2. \A v \in Workers : (frame_ff'[v] = g /\ step'[v] \in UserSteps)
                                        <=> (frame_ff[v] = g /\ step[v] \in UserSteps)
                BY <2>2, <1>11
            <4> QED
                BY <4>1, <4>2
        <3> QED
            BY <2>1, <3>1, <3>2, <3>3 DEF FrameOK
    <2>4. CASE g = t /\ last
        <3>1. Cardinality(Children(t))' = 0
            BY <2>4, <1>18, FS_EmptySet
        <3>2. /\ t \in synched' /\ Held(t)' /\ Children(t)' = {} /\ fiber_child'[t] = None
              /\ join_counter'[t] = 1 /\ fiber_self'[t] = y /\ next_frame_ff'[r] = t
            BY <2>1, <2>4, <1>7, <1>10, <1>11, <1>12, <1>18, <1>24
        <3>3. join_counter'[t] = Cardinality(Children(t))' + 1
            BY <3>1, <3>2
        <3>4. fiber_self'[t] # None /\
                 \E v \in Workers : next_frame_ff'[v] = t \/ (frame_ff'[v] = t /\ step'[v] \in UserSteps)
            BY <3>2, <2>4, <1>10, <1>22
        <3> QED
            BY <2>4, <3>2, <3>3, <3>4 DEF FrameOK
    <2>5. CASE g = t /\ ~last
        <3>1. join_counter[t] > 1 /\ join_counter'[t] = join_counter[t] - 1
            BY <2>5, <1>7 DEF last
        <3>2. Held(t)' <=> Others(t)
            BY <2>5, <1>24
        <3>3. join_counter'[t] = Cardinality(Children(t))' + (IF Held(t)' THEN 1 ELSE 0)
            BY <3>1, <3>2, <1>17
        <3>4. ~Held(t)' => Children(t)' # {}
            <4>1. ~Held(t)' => Cardinality(Children(t))' # 0
                BY <3>1, <3>3, <1>6, <1>17
            <4>2. Children(t)' = {} => Cardinality(Children(t))' = 0
                BY FS_EmptySet
            <4> QED
                BY <4>1, <4>2
        <3>5. t \notin synched' /\ fiber_self' = fiber_self /\ fiber_child' = fiber_child /\ kids' = kids
              /\ next_frame_ff' = next_frame_ff
            BY <2>5, <1>1, <1>5, <1>7
        <3>6. \A v \in Workers : (frame_ff'[v] = t /\ step'[v] \in UserSteps)
                                    <=> (frame_ff[v] = t /\ step[v] \in UserSteps)
            BY <2>2, <2>5, <1>11, <1>15
        <3>7. /\ fiber_self[t] # None <=>
                    \E v \in Workers : next_frame_ff[v] = t \/ (frame_ff[v] = t /\ step[v] \in UserSteps)
              /\ t \in synched \/ fiber_child[t] # None \/ kids[t] # <<>>
            BY <2>1, <2>5 DEF FrameOK
        <3>8. fiber_self'[t] # None <=>
                \E v \in Workers : next_frame_ff'[v] = t \/ (frame_ff'[v] = t /\ step'[v] \in UserSteps)
            BY <3>5, <3>6, <3>7
        <3>9. fiber_child'[t] # None \/ kids'[t] # <<>>
            BY <3>5, <3>7, <1>5
        <3> QED
            BY <2>5, <3>3, <3>4, <3>5, <3>8, <3>9 DEF FrameOK
    <2> QED
        BY <2>3, <2>4, <2>5
<1>30. ASSUME NEW q \in frames' PROVE KidsOK(q)'
    <2>1. KidsOK(q) /\ q \in FrameIds
        BY <1>15 DEF SwitchInv
    <2>2. \A c \in FrameIds : (c \in Children(q)' /\ ~Returned(c)') <=> (c \in Children(q) /\ ~Returned(c))
        <3>1. \A c \in gone : Returned(c)
            BY <1>5, <1>8 DEF Returned
        <3>2. Children(q)' = Children(q) \ gone
            <4>1. CASE q = t
                BY <4>1, <1>14
            <4>2. CASE q # t
                BY <4>2, <1>5, <1>14 DEF Children
            <4> QED
                BY <4>1, <4>2
        <3> QED
            BY <3>1, <3>2, <1>25
    <2> QED
        BY <2>1, <2>2, <1>1 DEF KidsOK
<1>31. ASSUME NEW g \in FrameIds \ frames' PROVE GoneFrameOK(g)'
    <2>1. g # t
        BY <1>15
    <2>2. CASE g \in frames
        <3>1. g = f /\ g \in gone /\ f \in synched /\ Children(f) = {}
            BY <2>2, <1>5, <1>7, <1>8
        <3>2. fiber_child[f] = None
            BY <3>1, <1>3 DEF SwitchInv, FrameOK
        <3>3. fiber_self[f] = None
            <4>1. step[w] \notin UserSteps
                BY <1>1 DEF UserSteps
            <4> QED
                BY <4>1, <1>3, <1>4 DEF SwitchInv, FrameOK
        <3>4. kids[f] = <<>>
            <4>1. kids[f] \in Seq(FrameIds)
                BY <1>2, <1>3 DEF SwitchTypes
            <4>2. \A i \in DOMAIN kids[f] : FALSE
                <5>1. \A i \in DOMAIN kids[f] : kids[f][i] \in FrameIds
                    BY <4>1
                <5> QED
                    BY <5>1, <3>1, <1>3 DEF SwitchInv, KidsOK
            <4>3. PICK k : k = kids[f]
                OBVIOUS
            <4>4. k \in Seq(FrameIds)
                BY <4>1, <4>3
            <4>5. DOMAIN k = {}
                BY <4>2, <4>3
            <4>6. Len(k) \in Nat /\ DOMAIN k = 1..Len(k)
                BY <4>4
            <4>7. k = <<>>
                BY <4>4, <4>5, <4>6
            <4> QED
                BY <4>3, <4>7
        <3> QED
            BY <2>1, <3>1, <3>2, <3>3, <3>4, <1>1, <1>7, <1>12 DEF GoneFrameOK
    <2>3. CASE g \notin frames
        <3>1. GoneFrameOK(g)
            BY <2>3 DEF SwitchInv
        <3> QED
            BY <2>1, <3>1, <1>1, <1>7, <1>12 DEF GoneFrameOK
    <2> QED
        BY <2>2, <2>3
<1>32. \E home \in SUBSET FrameIds : HomeOK(home)'
    <2>1. PICK home \in SUBSET FrameIds : HomeOK(home)
        BY DEF SwitchInv
    <2>2. ASSUME NEW g \in frames'
          PROVE  /\ fiber_self'[g] = Thread => g \in home /\ g \in synched'
                 /\ g \in home /\ g \in synched' /\ fiber_self'[g] # None => fiber_self'[g] = Thread
                 /\ fiber_child'[g] # None => (fiber_child'[g] = Thread <=> g \in home)
                 /\ \A i \in DOMAIN kids'[g] :
                       kids'[g][i] \in home <=> g \in home /\ i = 1 /\ fiber_child'[g] = None
        <3>1. g \in frames /\ g \in FrameIds
            BY <1>15
        <3>2. CASE last /\ g = t
            <4>1. y = Thread <=> g \in home
                BY <3>1, <3>2, <2>1, <1>8, <1>22 DEF HomeOK
            <4>2. fiber_self'[g] = y /\ g \in synched' /\ fiber_child'[g] = None /\ DOMAIN kids'[g] = {}
                BY <3>1, <3>2, <1>1, <1>7, <1>12, <1>20
            <4> QED
                BY <4>1, <4>2
        <3>3. CASE ~(last /\ g = t)
            <4>1. /\ fiber_self'[g] = fiber_self[g] /\ fiber_child'[g] = fiber_child[g]
                  /\ g \in synched' <=> g \in synched
                BY <3>1, <3>3, <1>7, <1>12
            <4> QED
                BY <3>1, <4>1, <2>1, <1>1 DEF HomeOK
        <3> QED
            BY <3>2, <3>3
    <2>3. Root' \subseteq home
        BY <2>1, <1>14 DEF HomeOK
    <2>4. HomeOK(home)'
        BY <2>2, <2>3 DEF HomeOK
    <2> QED
        BY <2>4
<1>33. SwitchTypes'
    <2>1. /\ step' \in [Workers -> Steps]
          /\ frame_ff' \in [Workers -> FrameIds \cup {NullFrame}]
          /\ next_frame_ff' \in [Workers -> FrameIds \cup {NullFrame}]
        BY <1>1, <1>2, <1>5, <1>7 DEF SwitchTypes, Steps, OnScheduler
    <2>2. fiber_self' \in [FrameIds -> SomeFiber] /\ fiber_child' \in [FrameIds -> SomeFiber]
        <3>1. y \in SomeFiber
            BY <1>2, <1>5, <1>8 DEF SwitchTypes
        <3> QED
            BY <3>1, <1>2, <1>7 DEF SwitchTypes, SomeFiber
    <2>3. /\ frames' \subseteq FrameIds /\ synched' \subseteq FrameIds /\ sync_master' \subseteq FrameIds
          /\ last_full_frame' \in FrameIds \cup {NullFrame}
        BY <1>2, <1>5, <1>7 DEF SwitchTypes
    <2> QED
        BY <1>1, <1>2, <1>7, <2>1, <2>2, <2>3 DEF SwitchTypes
<1>34. ASSUME NEW v \in Workers PROVE WorkerOK(v)'
    <2>1. WorkerOK(v)
        BY DEF SwitchInv
    <2>2. next_frame_ff'[v] # NullFrame =>
             /\ next_frame_ff'[v] \in frames' /\ step'[v] \in {"sched", "steal", "switched"}
             /\ step'[v] = "steal" => next_frame_ff'[v] \in Root' \cap synched'
        <3>1. CASE last /\ v = r
            BY <3>1, <1>7, <1>11, <1>14, <1>15, <1>23
        <3>2. CASE ~(last /\ v = r)
            <4>1. next_frame_ff'[v] = next_frame_ff[v] /\ next_frame_ff[v] # f
                BY <3>2, <1>4, <1>11
            <4>2. v = w => next_frame_ff[v] = NullFrame
                BY <1>3
            <4>3. \A g \in synched : g \in synched'
                BY <1>7
            <4> QED
                BY <2>1, <4>1, <4>2, <4>3, <1>7, <1>8, <1>11, <1>14 DEF WorkerOK
        <3> QED
            BY <3>1, <3>2
    <2>3. CASE v = w
        BY <2>2, <2>3, <1>1, <1>3, <1>11 DEF WorkerOK, UserSteps, Leavings
    <2>4. CASE v # w
        <3>1. step'[v] = step[v] /\ frame_ff'[v] = frame_ff[v] /\ frame_ff[v] # f
            BY <2>4, <1>4, <1>11
        <3>2. frame_ff[v] # NullFrame => frame_ff[v] \in frames' /\ parent'[frame_ff[v]] = parent[frame_ff[v]]
            BY <2>1, <3>1, <1>7, <1>8, <1>14 DEF WorkerOK
        <3>3. frame_ff[v] \in synched' <=> frame_ff[v] \in synched
            BY <2>4, <1>7, <1>18
        <3>4. step[v] \in {"returning", "do_return"} => frame_ff[v] # NullFrame
            BY <2>1 DEF WorkerOK, Leavings
        <3> QED
            BY <2>1, <2>2, <3>1, <3>2, <3>3, <3>4, <1>1 DEF WorkerOK
    <2> QED
        BY <2>3, <2>4
<1>35. Running' = Running
    BY <1>1, <1>11 DEF Running
<1>36. PlacesOK'
    <2>1. \A v \in Workers : /\ step'[v] = "gone" => v \notin alive'
                             /\ v \in Running' => v \in alive'
        BY <1>1, <1>11, <1>35 DEF SwitchInv, PlacesOK
    <2>2. CASE last
        <3>1. /\ "child" \in Kinds /\ t \in Indices("child") /\ FiberAt("child", t) = y
              /\ "self" \in Kinds /\ t \in Indices("self") /\ FiberAt("self", t) = None
            BY <2>2, <1>5, <1>8, <1>22 DEF Kinds, Indices, FiberAt
        <3>2. FiberAt("child", t)' = None /\ FiberAt("self", t)' = y
            BY <2>2, <1>5, <1>12 DEF FiberAt
        <3>3. \A m \in Kinds : \A n \in Indices(m) :
                 (m # "child" \/ n # t) /\ (m # "self" \/ n # t) => FiberAt(m, n)' = FiberAt(m, n)
            BY <1>1, <1>12 DEF FiberAt, Kinds, Indices
        <3>4. \A z \in Heap \cup {Thread} : z \in alive' <=> z \in alive
            BY <1>1
        <3> QED
            BY <2>1, <3>1, <3>2, <3>3, <3>4, FiberMoved
    <2>3. CASE ~last
        <3>1. \A k \in Kinds : \A i \in Indices(k) : FiberAt(k, i)' = FiberAt(k, i)
            BY <2>3, <1>1, <1>12 DEF FiberAt, Kinds, Indices
        <3> QED
            BY <2>1, <3>1, <1>1 DEF SwitchInv, PlacesOK
    <2> QED
        BY <2>2, <2>3
<1>37. CurOK'
    <2>1. ASSUME NEW v \in Running'
          PROVE  /\ cur'[v] \in alive' \ resumable'
                 /\ step'[v] \in OnScheduler <=> cur'[v] = v
                 /\ step'[v] \in UserSteps => cur'[v] = fiber_self'[frame_ff'[v]]
                 /\ step'[v] \in Leavings => cur'[v] = Leaving(v)'
                 /\ step'[v] = "started" => cur'[v] \in Heap
                 /\ fiber_owner'[cur'[v]] = v
                 /\ cur'[v] # v => fiber_owner'[v] = None \/ cur'[v] = Thread
        <3>1. v \in Running /\ v \in Workers
            BY <2>1, <1>35 DEF Running
        <3>2. /\ step'[v] \in OnScheduler <=> step[v] \in OnScheduler
              /\ step'[v] \in UserSteps <=> step[v] \in UserSteps
              /\ step'[v] \in Leavings <=> step[v] \in Leavings
              /\ step'[v] = "started" => step[v] = "started"
            BY <3>1, <1>1, <1>11 DEF OnScheduler, UserSteps, Leavings
        <3>3. ASSUME step[v] \in UserSteps PROVE fiber_self'[frame_ff'[v]] = fiber_self[frame_ff[v]]
            <4>1. v # w /\ frame_ff[v] \in FrameIds
                BY <3>1, <3>3, <1>1, WhereCurIs DEF OnScheduler, UserSteps
            <4>2. frame_ff'[v] = frame_ff[v] /\ ~(last /\ frame_ff[v] = t)
                BY <3>1, <4>1, <1>11, <1>18
            <4> QED
                BY <4>1, <4>2, <1>12
        <3>4. ASSUME step[v] \in Leavings PROVE Leaving(v)' = Leaving(v)
            <4>1. v # w /\ frame_ff[v] \in frames /\ frame_ff[v] # f
                BY <3>1, <3>4, <1>1, <1>4, WhereCurIs DEF OnScheduler, Leavings
            <4>2. frame_ff'[v] = frame_ff[v] /\ parent'[frame_ff[v]] = parent[frame_ff[v]]
                BY <3>1, <4>1, <1>7, <1>8, <1>11, <1>14
            <4>3. CASE fiber_to_free[v] # None
                BY <4>3, <1>1 DEF Leaving
            <4>4. CASE fiber_to_free[v] = None
                <5>1. step[v] = "returning" /\ parent[frame_ff[v]] \in FrameIds
                    BY <3>1, <3>4, <4>4, WhereCurIs DEF OnScheduler, Leavings, UserSteps
                <5>2. ~(last /\ parent[frame_ff[v]] = t)
                    BY <3>1, <5>1, <1>21
                <5>3. fiber_child'[parent[frame_ff[v]]] = fiber_child[parent[frame_ff[v]]]
                    BY <5>1, <5>2, <1>12
                <5> QED
                    BY <4>2, <5>3, <1>1 DEF Leaving
            <4> QED
                BY <4>3, <4>4
        <3> QED
            BY <3>1, <3>2, <3>3, <3>4, <1>1 DEF SwitchInv, CurOK
    <2> QED
        BY <2>1, <1>1, <1>35 DEF SwitchInv, CurOK
<1>38. ResumableOK'
    <2>1. ASSUME NEW v \in Workers, next_frame_ff'[v] # NullFrame
          PROVE  IF next_frame_ff'[v] \in synched' THEN fiber_self'[next_frame_ff'[v]] \in resumable
                 ELSE fiber_self'[next_frame_ff'[v]] \in Heap \ resumable
        <3>1. CASE last /\ v = r
            BY <3>1, <1>5, <1>7, <1>11, <1>12, <1>22
        <3>2. CASE ~(last /\ v = r)
            <4>1. next_frame_ff'[v] = next_frame_ff[v] /\ ~(last /\ next_frame_ff[v] = t)
                BY <3>2, <1>11, <1>18
            <4>2. next_frame_ff[v] \in FrameIds
                BY <2>1, <4>1, <1>2 DEF SwitchTypes
            <4>3. next_frame_ff[v] \in synched' <=> next_frame_ff[v] \in synched
                BY <4>1, <1>7
            <4>4. fiber_self'[next_frame_ff[v]] = fiber_self[next_frame_ff[v]]
                BY <4>1, <4>2, <1>12
            <4> QED
                BY <2>1, <4>1, <4>3, <4>4 DEF SwitchInv, ResumableOK
        <3> QED
            BY <3>1, <3>2
    <2>2. ASSUME NEW q \in frames', fiber_child'[q] # None
          PROVE  \/ fiber_child'[q] \in resumable
                 \/ \E v \in Workers : step'[v] = "returning" /\ parent'[frame_ff'[v]] = q
                                       /\ fiber_to_free[v] = None
        <3>1. q \in frames /\ q \in FrameIds /\ fiber_child'[q] = fiber_child[q]
            BY <2>2, <1>12, <1>15
        <3>2. ASSUME NEW v \in Workers, step[v] = "returning"
              PROVE  step'[v] = "returning" /\ parent'[frame_ff'[v]] = parent[frame_ff[v]]
            <4>1. v # w /\ frame_ff[v] \in frames /\ frame_ff[v] # f
                BY <3>2, <1>1, <1>4 DEF SwitchInv, WorkerOK, Leavings
            <4> QED
                BY <3>2, <4>1, <1>7, <1>8, <1>11, <1>14
        <3> QED
            BY <2>2, <3>1, <3>2 DEF SwitchInv, ResumableOK
    <2>3. \A v \in Workers : step[v] \in UserSteps \cup Leavings => step'[v] \in UserSteps \cup Leavings
        BY <1>1, <1>11 DEF UserSteps, Leavings
    <2> QED
        BY <2>1, <2>2, <2>3, <1>1 DEF SwitchInv, ResumableOK
<1> QED
    BY <1>26, <1>27, <1>28, <1>29, <1>30, <1>31, <1>32, <1>33, <1>34, <1>36, <1>37, <1>38
    DEF SwitchInv

(* Each step of FiberSwitch keeps the invariant.                           *)
LEMMA SwitchStep ==
    ASSUME FiberAssumption, SwitchInv, [Next]_vars
    PROVE  SwitchInv'
<1>1. CASE UNCHANGED vars
    BY <1>1, SwitchIdle DEF vars, local
<1>2. ASSUME NEW w \in Workers, Work(w) PROVE SwitchInv'
    <2>1. CASE Spawn(w) \/ ReturnAttached(w)
        BY <2>1, SwitchIdle DEF Spawn, ReturnAttached
    <2>2. ASSUME NEW v \in Workers, Steal(w, v) PROVE SwitchInv'
        BY <2>2, SwitchSteal
    <2> QED
        BY <1>2, <2>1, <2>2, SwitchTransition, SwitchRemoveReference, SwitchAllocateFiber,
           SwitchFailToSteal, SwitchResumeUserCode, SwitchEnterUserCode, SwitchReturnFromSpawn,
           SwitchSync, SwitchLongjmp
        DEF Work, WorkerScheduler
<1>3. CASE Bind
    BY <1>3, SwitchBind
<1>4. CASE ReturnFromInitial
    BY <1>4, SwitchReturnFromInitial
<1>5. CASE DestroyWorker
    <2>1. FreeSchedulingFiber(User, "out") /\ step[User] = "out" /\ User \in Workers
        BY <1>5, FiberConstants DEF DestroyWorker, FreeSchedulingFiber, Goto
    <2> QED
        BY <2>1, SwitchEnd
<1>6. ASSUME NEW w \in Systems, Stop(w) PROVE SwitchInv'
    <2>1. FreeSchedulingFiber(w, "sched") /\ step[User] = "out" /\ w \in Workers
        BY <1>6, FiberConstants DEF Stop
    <2> QED
        BY <2>1, SwitchEnd
<1> QED
    BY <1>1, <1>2, <1>3, <1>4, <1>5, <1>6 DEF Next

(* No two workers are ever on one stack, no stack is freed while a thread  *)
(* is on it or a frame will need it, none is lost, and a worker that       *)
(* leaves or enters user code is on the fiber of its frame (scheduler.c    *)
(* longjmp_into_runtime, user_code_resume_after_switch_into_runtime), for  *)
(* any number of workers, fibers and frames. *)
THEOREM FibersHaveTheirUsers ==
    ASSUME FiberAssumption
    PROVE  Spec => []FibersAreRight
<1>1. Init => SwitchInv
    BY SwitchInit
<1>2. SwitchInv /\ [Next]_vars => SwitchInv'
    BY SwitchStep
<1>3. SwitchInv => FibersAreRight
    BY FibersImplied
<1> QED
    BY <1>1, <1>2, <1>3, PTL DEF Spec

-----------------------------------------------------------------------------
(* StackWatch                                                              *)

(* A worker whose stack TBB sees on it.                                    *)
Serves(w) == step[w] \in {"user", "returning", "syncing"}
IsKept(k) == \E x \in Fibers : stack_op[x] = k

WatchTypes ==
    /\ tbb_interop \in Thunks \cup {None} /\ stack_op \in [Fibers -> Thunks \cup {None}]
    /\ unwatch \in [Thunks -> Fibers \cup {Delayed, None}]
    /\ seen \in [Thunks -> Workers \cup {"unused", "limbo", "gone"}]

(* What TBB knows of a stack is who serves on it. *)
KeptOK(x) ==
    LET k == stack_op[x]
    IN  k # None =>
          /\ x \in alive \ Workers /\ tbb_interop # k /\ seen[k] # "unused"
          /\ \A y \in Fibers : stack_op[y] = k => x = y
          /\ seen[k] # "gone" => \A w \in Workers : seen[k] = w <=> Serves(w) /\ cur[w] = x

(* The thunk that waits for a binding is the user's, who is not bound. *)
StorageOK ==
    tbb_interop # None =>
        step[User] \in {"out", "gone"} /\ seen[tbb_interop] \in {User, "gone"}

ThunkOK(k) ==
    /\ seen[k] = "limbo" => IsKept(k)
    /\ seen[k] \in Workers => IsKept(k) \/ tbb_interop = k
    /\ seen[k] = "gone" /\ k \notin outdated => ~IsKept(k) /\ tbb_interop # k
    /\ unwatch[k] = None => seen[k] = "unused"
    /\ unwatch[k] \in Fibers /\ k \notin outdated /\ seen[k] # "gone" =>
          stack_op[unwatch[k]] = k

(* Nobody watches a stack that has not been used or is about to be freed. *)
IdleOK(w) ==
    /\ spare[w] # None => stack_op[spare[w]] = None
    /\ pending_remove_ref[w] # None => stack_op[pending_remove_ref[w]] = None

WatchInv ==
    /\ WatchTypes /\ StorageOK
    /\ \A x \in Fibers : KeptOK(x)
    /\ \A k \in Thunks : ThunkOK(k)
    /\ \A w \in Workers : IdleOK(w)

(* Each step of StackWatch is one of FiberSwitch, or one that changes      *)
(* nothing there. *)
LEMMA WatchStepIsSwitchStep ==
    ASSUME FiberAssumption, [WNext]_wvars
    PROVE  [Next]_vars
<1>1. CASE UNCHANGED wvars
    BY <1>1 DEF wvars
<1>2. CASE BindWatched \/ ReturnFromInitialWatched
    BY <1>2 DEF BindWatched, ReturnFromInitialWatched, Next
<1>3. ASSUME NEW w \in Workers, Silently(w) PROVE Next
    <2>1. CASE w = User /\ DestroyWorker
        BY <2>1 DEF Next
    <2>2. CASE w \in Systems /\ Stop(w)
        BY <2>2 DEF Next
    <2>3. CASE \/ WorkerScheduler(w) \/ Spawn(w) \/ ReturnAttached(w)
               \/ ReturnFromSpawn(w) \/ Sync(w)
        BY <2>3 DEF Next, Work
    <2> QED
        BY <1>3, <2>1, <2>2, <2>3 DEF Silently
<1>4. ASSUME NEW w \in Workers, EnterUserCodeWatched(w) \/ LongjmpIntoRuntimeWatched(w) PROVE Next
    BY <1>4 DEF EnterUserCodeWatched, LongjmpIntoRuntimeWatched, Next, Work
<1>5. ASSUME NEW w \in Workers, NEW k \in Thunks, Watch(w, k) \/ Unwatch(w, k) PROVE UNCHANGED vars
    BY <1>5 DEF Watch, Unwatch
<1>6. ASSUME NEW k \in Thunks, WatchUnbound(k) PROVE UNCHANGED vars
    BY <1>6 DEF WatchUnbound
<1> QED
    BY <1>1, <1>2, <1>3, <1>4, <1>5, <1>6 DEF WNext

(* What is watched stays right when the runtime calls nobody: if no stack  *)
(* that is watched is freed or changes hands.                              *)
LEMMA WatchSilent ==
    ASSUME FiberAssumption, ThunkAssumption, WatchInv, UNCHANGED watch_vars,
           \A x \in Fibers : stack_op[x] # None =>
              /\ x \in alive'
              /\ \A w \in Workers : (Serves(w) /\ cur[w] = x)' <=> Serves(w) /\ cur[w] = x,
           step[User] \in {"out", "gone"} => step'[User] \in {"out", "gone"},
           \A w \in Workers : spare'[w] = spare[w] \/ spare'[w] \in (Fibers \ alive) \cup {None},
           \A w \in Workers : pending_remove_ref'[w] \in {pending_remove_ref[w], None}
    PROVE  WatchInv'
<1>1. /\ tbb_interop' = tbb_interop /\ stack_op' = stack_op /\ unwatch' = unwatch
      /\ seen' = seen /\ outdated' = outdated
    BY DEF watch_vars
<1>2. WatchTypes' /\ StorageOK'
    BY <1>1 DEF WatchInv, WatchTypes, StorageOK
<1>3. ASSUME NEW x \in Fibers PROVE KeptOK(x)'
    <2>1. KeptOK(x)
        BY DEF WatchInv
    <2>2. CASE stack_op[x] = None
        BY <2>2, <1>1 DEF KeptOK
    <2>3. CASE stack_op[x] # None
        BY <2>1, <2>3, <1>1 DEF KeptOK
    <2> QED
        BY <2>2, <2>3
<1>4. \A k \in Thunks : ThunkOK(k)'
    BY <1>1 DEF WatchInv, ThunkOK, IsKept
<1>5. ASSUME NEW w \in Workers PROVE IdleOK(w)'
    <2>1. IdleOK(w)
        BY DEF WatchInv
    <2>2. \A x \in Fibers \ alive : stack_op[x] = None
        BY DEF WatchInv, KeptOK
    <2> QED
        BY <2>1, <2>2, <1>1 DEF IdleOK
<1> QED
    BY <1>2, <1>3, <1>4, <1>5 DEF WatchInv

(* The steps that TBB is told nothing of.                                  *)
LEMMA WatchSilently ==
    ASSUME FiberAssumption, ThunkAssumption, SwitchInv, WatchInv,
           NEW w \in Workers, Silently(w)
    PROVE  WatchInv'
<1>1. /\ cur \in [Workers -> Fibers \cup {None}] /\ step \in [Workers -> Steps]
      /\ spare \in [Workers -> Heap \cup {None}]
      /\ pending_remove_ref \in [Fibers -> Heap \cup {None}]
      /\ alive \subseteq Fibers /\ Workers \subseteq Fibers
    BY FiberConstants DEF SwitchInv, SwitchTypes
<1>2. \A x \in Fibers : stack_op[x] # None => x \in alive \ Workers
    BY DEF WatchInv, KeptOK
<1>3. UNCHANGED watch_vars
    BY DEF Silently
<1>4. ASSUME UNCHANGED <<cur, step, alive, spare, pending_remove_ref>>
      PROVE  WatchInv'
    BY <1>2, <1>3, <1>4, WatchSilent DEF Serves
<1>5. ASSUME NEW s, step' = [step EXCEPT ![w] = s], \/ Serves(w) /\ s \in {"returning", "syncing"}
                                                    \/ ~Serves(w) /\ s \in OnScheduler \cup {"started", "resumed", "gone"},
             \A v \in Workers \ {w} : cur'[v] = cur[v], Serves(w) => cur'[w] = cur[w],
             \A x \in Fibers : stack_op[x] # None => x \in alive',
             step[w] = "out" => s = "gone", step[w] # "gone",
             \A v \in Workers : spare'[v] = spare[v] \/ spare'[v] \in (Fibers \ alive) \cup {None},
             \A v \in Workers : pending_remove_ref'[v] \in {pending_remove_ref[v], None}
      PROVE  WatchInv'
    <2>1. \A v \in Workers : step'[v] = IF v = w THEN s ELSE step[v]
        BY <1>1, <1>5
    <2>2. \A v \in Workers : Serves(v)' <=> Serves(v)
        BY <1>5, <2>1 DEF Serves, OnScheduler
    <2>3. step[User] \in {"out", "gone"} => step'[User] \in {"out", "gone"}
        BY <1>5, <2>1, FiberConstants
    <2>4. ASSUME NEW x \in Fibers, stack_op[x] # None
          PROVE  /\ x \in alive'
                 /\ \A v \in Workers : (Serves(v) /\ cur[v] = x)' <=> Serves(v) /\ cur[v] = x
        BY <1>5, <2>2, <2>4
    <2> QED
        BY <1>3, <1>5, <2>3, <2>4, WatchSilent
<1>6. CASE Spawn(w) \/ ReturnAttached(w)
    BY <1>4, <1>6 DEF Spawn, ReturnAttached, fibers
<1>7. CASE ReturnFromSpawn(w)
    <2>1. /\ step[w] = "user" /\ step' = [step EXCEPT ![w] = "returning"]
          /\ UNCHANGED <<cur, alive, spare, pending_remove_ref>>
        BY <1>7 DEF ReturnFromSpawn, Goto, fibers
    <2> QED
        BY <1>2, <1>5, <2>1 DEF Serves
<1>8. CASE Sync(w)
    <2>1. /\ step[w] = "user" /\ step' = [step EXCEPT ![w] = "syncing"]
          /\ UNCHANGED <<cur, alive, spare, pending_remove_ref>>
        BY <1>8 DEF Sync, Goto, fibers
    <2> QED
        BY <1>2, <1>5, <2>1 DEF Serves
<1>9. CASE EnterRuntimeTransition(w)
    <2>1. /\ step[w] \in {"do_sync", "do_return"} /\ step' = [step EXCEPT ![w] = "switched"]
          /\ UNCHANGED <<cur, alive, spare, pending_remove_ref>>
        BY <1>9 DEF EnterRuntimeTransition, DoSync, DoReturnFromSpawn, Goto, fibers
    <2> QED
        BY <1>2, <1>5, <2>1 DEF Serves, OnScheduler
<1>10. CASE RemoveReference(w)
    <2>1. /\ step[w] = "switched" /\ step' = [step EXCEPT ![w] = "sched"]
          /\ UNCHANGED <<cur, spare>> /\ alive' = alive \ {pending_remove_ref[w]}
          /\ pending_remove_ref' = [pending_remove_ref EXCEPT ![w] = None]
        BY <1>10 DEF RemoveReference, Goto, local
    <2>2. IdleOK(w)
        BY DEF WatchInv
    <2>3. \A x \in Fibers : stack_op[x] # None => x \in alive'
        BY <1>2, <2>1, <2>2, FiberConstants DEF IdleOK
    <2>4. \A v \in Workers : pending_remove_ref'[v] \in {pending_remove_ref[v], None}
        BY <1>1, <2>1
    <2> QED
        BY <1>5, <2>1, <2>3, <2>4 DEF Serves, OnScheduler
<1>11. CASE AllocateFiber(w)
    <2>1. PICK x \in Heap \ alive :
             /\ step[w] = "sched" /\ step' = [step EXCEPT ![w] = "steal"]
             /\ UNCHANGED <<cur, pending_remove_ref>> /\ alive' = alive \cup {x}
             /\ spare' = [spare EXCEPT ![w] = x]
        BY <1>11 DEF AllocateFiber, Goto
    <2>2. \A v \in Workers : spare'[v] = spare[v] \/ spare'[v] \in (Fibers \ alive) \cup {None}
        BY <1>1, <2>1, FiberConstants
    <2> QED
        BY <1>2, <1>5, <2>1, <2>2 DEF Serves, OnScheduler
<1>12. CASE FailToSteal(w)
    <2>1. /\ step[w] = "steal" /\ step' = [step EXCEPT ![w] = "sched"]
          /\ UNCHANGED <<cur, pending_remove_ref>> /\ alive' = alive \ {spare[w]}
          /\ spare' = [spare EXCEPT ![w] = None]
        BY <1>12 DEF FailToSteal, Goto
    <2>2. IdleOK(w)
        BY DEF WatchInv
    <2>3. \A x \in Fibers : stack_op[x] # None => x \in alive'
        BY <1>2, <2>1, <2>2, FiberConstants DEF IdleOK
    <2>4. \A v \in Workers : spare'[v] = spare[v] \/ spare'[v] \in (Fibers \ alive) \cup {None}
        BY <1>1, <2>1
    <2> QED
        BY <1>5, <2>1, <2>3, <2>4 DEF Serves, OnScheduler
<1>13. ASSUME NEW v \in Workers, Steal(w, v) PROVE WatchInv'
    <2>1. /\ step[w] = "steal" /\ step' = [step EXCEPT ![w] = "sched"]
          /\ UNCHANGED <<cur, alive, pending_remove_ref>>
          /\ spare' = [spare EXCEPT ![w] = None]
        BY <1>13 DEF Steal, Goto, fibers
    <2>2. \A u \in Workers : spare'[u] = spare[u] \/ spare'[u] \in (Fibers \ alive) \cup {None}
        BY <1>1, <2>1
    <2> QED
        BY <1>2, <1>5, <2>1, <2>2 DEF Serves, OnScheduler
<1>14. CASE ResumeUserCode(w)
    <2>1. PICK s \in {"resumed", "started"} :
             /\ step[w] = "sched" /\ step' = [step EXCEPT ![w] = s]
             /\ UNCHANGED <<alive, spare, pending_remove_ref>>
             /\ cur' = [cur EXCEPT ![w] = fiber_self[next_frame_ff[w]]]
        BY <1>14 DEF ResumeUserCode, SuspendSelfAndResumeOther, ResumeOther, Goto
    <2>2. \A u \in Workers \ {w} : cur'[u] = cur[u]
        BY <1>1, <2>1
    <2> QED
        BY <1>2, <1>5, <2>1, <2>2 DEF Serves
<1>15. ASSUME NEW from \in {"sched", "out"}, FreeSchedulingFiber(w, from) PROVE WatchInv'
    <2>1. /\ step[w] = from /\ step' = [step EXCEPT ![w] = "gone"]
          /\ UNCHANGED <<spare, pending_remove_ref>>
          /\ cur' = [cur EXCEPT ![w] = None] /\ alive' = alive \ {w}
        BY <1>15 DEF FreeSchedulingFiber, Goto, local
    <2>2. \A u \in Workers \ {w} : cur'[u] = cur[u]
        BY <1>1, <2>1
    <2>3. \A x \in Fibers : stack_op[x] # None => x \in alive'
        BY <1>2, <2>1
    <2> QED
        BY <1>5, <2>1, <2>2, <2>3 DEF Serves
<1>16. CASE w = User /\ DestroyWorker
    BY <1>15, <1>16 DEF DestroyWorker
<1>17. CASE w \in Systems /\ Stop(w)
    BY <1>15, <1>17 DEF Stop
<1> QED
    BY <1>6, <1>7, <1>8, <1>9, <1>10, <1>11, <1>12, <1>13, <1>14, <1>16, <1>17
    DEF Silently, WorkerScheduler

(* A worker that is not on its scheduling fiber is on a stack that nobody  *)
(* else is on and that is not about to be freed.                           *)
LEMMA StackIsMine ==
    ASSUME FiberAssumption, SwitchInv, NEW w \in Workers, step[w] \in UserSteps \cup Leavings
    PROVE  /\ w \in Running /\ cur[w] \in (Heap \cup {Thread}) \cap alive /\ cur[w] \notin Workers
           /\ \A v \in Running : cur[v] = cur[w] => v = w
           /\ \A v \in Workers : spare[v] # cur[w] /\ pending_remove_ref[v] # cur[w]
           /\ step[w] \in UserSteps => MyFiber(w) = cur[w] /\ cur[w] = fiber_self[frame_ff[w]]
           /\ step[w] \in Leavings => Leaving(w) = cur[w]
<1>1. w \in Running /\ step[w] \notin OnScheduler
    BY DEF Running, UserSteps, Leavings, OnScheduler
<1>2. /\ cur[w] \in alive /\ \A v \in Running : cur[v] = cur[w] => v = w
      /\ step[w] \in UserSteps => cur[w] = fiber_self[frame_ff[w]]
      /\ step[w] \in Leavings => cur[w] = Leaving(w)
    BY <1>1 DEF SwitchInv, CurOK
<1>3. frame_ff[w] \in FrameIds
    BY FiberConstants DEF SwitchInv, SwitchTypes, WorkerOK
<1>4. PICK k \in {"self", "child", "free"} : \E i \in Indices(k) : FiberAt(k, i) = cur[w]
    <2>1. CASE step[w] \in UserSteps
        BY <1>2, <1>3, <2>1 DEF Indices, FiberAt
    <2>2. CASE step[w] \in Leavings /\ fiber_to_free[w] # None
        BY <1>2, <2>2 DEF Indices, FiberAt, Leaving
    <2>3. CASE step[w] \in Leavings /\ fiber_to_free[w] = None
        <3>1. step[w] = "returning" /\ frame_ff[w] \in frames /\ parent[frame_ff[w]] # NullFrame
            BY <2>3 DEF SwitchInv, WorkerOK, Leavings
        <3>2. parent[frame_ff[w]] \in FrameIds
            BY <1>3, <3>1 DEF SwitchInv, SwitchTypes
        <3> QED
            BY <1>2, <2>3, <3>2 DEF Indices, FiberAt, Leaving
    <2> QED
        BY <2>1, <2>2, <2>3
<1>5. PICK i \in Indices(k) : FiberAt(k, i) = cur[w]
    BY <1>4
<1>6. cur[w] \in Heap \cup {Thread}
    <2>1. FiberAt(k, i) \in SomeFiber
        BY <1>5 DEF SwitchInv, SwitchTypes, FiberAt, Indices, SomeFiber
    <2>2. cur[w] # None
        BY <1>2, FiberConstants DEF SwitchInv, SwitchTypes
    <2> QED
        BY <1>5, <2>1, <2>2 DEF SomeFiber
<1>7. cur[w] \notin Workers /\ cur[w] # None
    BY <1>6, FiberConstants DEF SomeFiber
<1>8. ASSUME NEW v \in Workers PROVE spare[v] # cur[w] /\ pending_remove_ref[v] # cur[w]
    <2>1. \A l \in Kinds : \A j \in Indices(l) :
             FiberAt(k, i) = FiberAt(l, j) /\ FiberAt(k, i) # None => k = l /\ i = j
        BY <1>5 DEF SwitchInv, PlacesOK, Kinds
    <2>2. /\ v \in Indices("spare") /\ FiberAt("spare", v) = spare[v]
          /\ v \in Indices("pending") /\ FiberAt("pending", v) = pending_remove_ref[v]
        BY DEF Indices, FiberAt
    <2>3. "spare" \in Kinds /\ "pending" \in Kinds /\ k # "spare" /\ k # "pending"
        BY DEF Kinds
    <2> QED
        BY <1>5, <1>7, <2>1, <2>2, <2>3
<1> QED
    BY <1>1, <1>2, <1>6, <1>7, <1>8 DEF MyFiber

(* TBB is told of a stack that a worker gets on, or is to leave: its thunk *)
(* and nobody else's gets the news.                                        *)
LEMMA WatchTold ==
    ASSUME FiberAssumption, ThunkAssumption, WatchInv,
           NEW x \in Fibers, NEW news \in Workers \cup {"limbo", "gone"}, Tell(stack_op[x], news),
           UNCHANGED <<tbb_interop, unwatch, outdated>>,
           stack_op' = IF news = "gone" THEN [stack_op EXCEPT ![x] = None] ELSE stack_op,
           alive' = alive, spare' = spare,
           step[User] \in {"out", "gone"} => step'[User] = step[User],
           \A w \in Workers : \/ pending_remove_ref'[w] = pending_remove_ref[w]
                              \/ pending_remove_ref'[w] = x /\ news = "gone",
           \A w \in Workers : (Serves(w) /\ cur[w] = x)' <=> news = w,
           \A y \in Fibers \ ({x} \cup Workers) : \A w \in Workers :
              (Serves(w) /\ cur[w] = y)' <=> Serves(w) /\ cur[w] = y
    PROVE  WatchInv'
<1> DEFINE k == stack_op[x]
<1>1. WatchTypes /\ KeptOK(x) /\ k \in Thunks \cup {None} /\ None \notin Thunks
    BY DEF WatchInv, WatchTypes, ThunkAssumption
<1>2. /\ "limbo" \notin Workers /\ "gone" \notin Workers /\ "unused" \notin Workers
    BY DEF ThunkAssumption
<1>3. \A j \in Thunks : seen'[j] = IF j = k /\ seen[j] # "gone" THEN news ELSE seen[j]
    BY <1>1 DEF Tell, Known, WatchTypes
<1>4. \A y \in Fibers : stack_op'[y] = IF y = x /\ news = "gone" THEN None ELSE stack_op[y]
    BY <1>1 DEF WatchTypes
<1>5. WatchTypes'
    <2>1. seen' \in [Thunks -> Workers \cup {"unused", "limbo", "gone"}]
        BY <1>1 DEF WatchTypes, Tell, Known
    <2>2. stack_op' \in [Fibers -> Thunks \cup {None}]
        BY <1>1 DEF WatchTypes
    <2> QED
        BY <1>1, <2>1, <2>2 DEF WatchTypes
<1>6. StorageOK'
    BY <1>1, <1>3 DEF WatchInv, StorageOK, KeptOK, WatchTypes
<1>7. ASSUME NEW y \in Fibers PROVE KeptOK(y)'
    <2> DEFINE j == stack_op[y]
    <2>1. KeptOK(y) /\ j \in Thunks \cup {None}
        BY <1>1 DEF WatchInv, WatchTypes
    <2>2. CASE stack_op'[y] = None
        BY <2>2 DEF KeptOK
    <2>3. CASE stack_op'[y] # None
        <3>1. stack_op'[y] = j /\ j \in Thunks
            BY <1>4, <2>1, <2>3
        <3>2. y \in alive' \ Workers /\ tbb_interop' # j
            BY <2>1, <2>3, <3>1 DEF KeptOK
        <3>3. seen'[j] # "unused"
            BY <1>2, <1>3, <2>1, <2>3, <3>1 DEF KeptOK
        <3>4. \A z \in Fibers : stack_op'[z] = j => y = z
            BY <1>1, <1>4, <2>1, <2>3, <3>1 DEF KeptOK
        <3>5. ASSUME seen'[j] # "gone", NEW w \in Workers
              PROVE  seen'[j] = w <=> (Serves(w) /\ cur[w] = y)'
            <4>1. CASE y = x
                <5>1. seen'[j] = news
                    BY <1>3, <3>1, <3>5, <4>1
                <5> QED
                    BY <5>1, <4>1
            <4>2. CASE y # x
                <5>1. j # k
                    BY <2>1, <2>3, <3>1, <4>2 DEF KeptOK
                <5>2. seen'[j] = seen[j]
                    BY <1>3, <3>1, <5>1
                <5>3. seen[j] = w <=> Serves(w) /\ cur[w] = y
                    BY <2>1, <2>3, <3>1, <3>5, <5>2 DEF KeptOK
                <5> QED
                    BY <3>2, <4>2, <5>2, <5>3
            <4> QED
                BY <4>1, <4>2
        <3> QED
            BY <3>1, <3>2, <3>3, <3>4, <3>5 DEF KeptOK
    <2> QED
        BY <2>2, <2>3
<1>8. ASSUME NEW j \in Thunks PROVE ThunkOK(j)'
    <2>1. ThunkOK(j)
        BY DEF WatchInv
    <2>2. j = k => IsKept(j) /\ tbb_interop # j /\ seen[j] # "unused"
        BY <1>1 DEF IsKept, KeptOK
    <2>3. CASE news # "gone" \/ j # k
        <3>1. IsKept(j)' <=> IsKept(j)
            BY <1>1, <1>4, <2>3 DEF IsKept
        <3>2. unwatch[j] \in Fibers =>
                 (stack_op[unwatch[j]] = j => stack_op'[unwatch[j]] = j)
            BY <1>1, <1>4, <2>3
        <3>3. CASE j = k /\ seen[j] # "gone"
            <4>1. seen'[j] = news /\ news # "gone"
                BY <1>3, <2>3, <3>3
            <4> QED
                BY <1>2, <2>1, <2>2, <3>1, <3>2, <3>3, <4>1 DEF ThunkOK
        <3>4. CASE ~(j = k /\ seen[j] # "gone")
            BY <1>3, <2>1, <3>1, <3>2, <3>4 DEF ThunkOK
        <3> QED
            BY <3>3, <3>4
    <2>4. CASE news = "gone" /\ j = k
        <3>1. seen'[j] = "gone"
            BY <1>3, <2>4
        <3>2. ~IsKept(j)'
            BY <1>1, <1>4, <2>4 DEF IsKept, KeptOK
        <3> QED
            BY <1>2, <2>1, <2>2, <2>4, <3>1, <3>2 DEF ThunkOK
    <2> QED
        BY <2>3, <2>4
<1>9. ASSUME NEW w \in Workers PROVE IdleOK(w)'
    <2>1. IdleOK(w) /\ \A y \in Fibers : stack_op[y] = None => stack_op'[y] = None
        BY <1>4 DEF WatchInv
    <2>2. spare[w] # None => stack_op'[spare[w]] = None
        BY <1>1, <2>1 DEF IdleOK, WatchTypes
    <2>3. pending_remove_ref'[w] # None => stack_op'[pending_remove_ref'[w]] = None
        BY <1>1, <1>4, <2>1 DEF IdleOK, WatchTypes
    <2> QED
        BY <2>2, <2>3 DEF IdleOK
<1> QED
    BY <1>5, <1>6, <1>7, <1>8, <1>9 DEF WatchInv

(* A worker enters user code: the stack it is on is adopted.               *)
LEMMA WatchEnterUserCode ==
    ASSUME FiberAssumption, ThunkAssumption, SwitchInv, WatchInv,
           NEW w \in Workers, EnterUserCodeWatched(w)
    PROVE  WatchInv'
<1>1. /\ step[w] \in {"started", "resumed"} /\ step' = [step EXCEPT ![w] = "user"]
      /\ cur' = cur /\ alive' = alive /\ spare' = spare /\ pending_remove_ref' = pending_remove_ref
      /\ step \in [Workers -> Steps] /\ User \in Workers
    BY FiberConstants
    DEF EnterUserCodeWatched, EnterUserCode, Run, ResumeAfterSwitch, Goto, local, SwitchInv, SwitchTypes
<1>2. w \in Running /\ cur[w] \in Fibers /\ \A v \in Running : cur[v] = cur[w] => v = w
    BY <1>1, StackIsMine, FiberConstants DEF UserSteps
<1>3. /\ Tell(stack_op[cur[w]], w)
      /\ UNCHANGED <<tbb_interop, stack_op, unwatch, outdated>> /\ w # "gone"
    BY DEF EnterUserCodeWatched, Adopt, ThunkAssumption
<1>4. \A v \in Workers : Serves(v)' <=> Serves(v) \/ v = w
    BY <1>1 DEF Serves
<1>5. \A v \in Workers : Serves(v) => v \in Running
    BY DEF Serves, Running
<1>6. step[User] \in {"out", "gone"} => step'[User] = step[User]
    BY <1>1
<1>7. \A v \in Workers : (Serves(v) /\ cur[v] = cur[w])' <=> w = v
    BY <1>1, <1>2, <1>4, <1>5
<1>8. \A y \in Fibers \ ({cur[w]} \cup Workers) : \A v \in Workers :
         (Serves(v) /\ cur[v] = y)' <=> Serves(v) /\ cur[v] = y
    BY <1>1, <1>2, <1>4
<1> QED
    BY <1>1, <1>2, <1>3, <1>6, <1>7, <1>8, WatchTold

(* A worker leaves its stack, which is orphaned or, to be freed, released. *)
LEMMA WatchLongjmp ==
    ASSUME FiberAssumption, ThunkAssumption, SwitchInv, WatchInv,
           NEW w \in Workers, LongjmpIntoRuntimeWatched(w)
    PROVE  WatchInv'
<1>1. /\ cur \in [Workers -> Fibers \cup {None}] /\ step \in [Workers -> Steps]
      /\ pending_remove_ref \in [Fibers -> Heap \cup {None}] /\ Workers \subseteq Fibers
      /\ User \in Workers
    BY FiberConstants DEF SwitchInv, SwitchTypes
<1>2. PICK s \in {"do_return", "do_sync"} :
         /\ step[w] \in Leavings /\ step' = [step EXCEPT ![w] = s]
         /\ cur' = [cur EXCEPT ![w] = w] /\ alive' = alive /\ spare' = spare
    BY DEF LongjmpIntoRuntimeWatched, LongjmpIntoRuntime, Goto, Leavings, ResumeOther,
           RemoveReferenceFromSelfAndResumeOther, SuspendSelfAndResumeOther
<1>3. /\ w \in Running /\ cur[w] \in Fibers \ Workers /\ Leaving(w) = cur[w]
      /\ \A v \in Running : cur[v] = cur[w] => v = w
    BY <1>2, StackIsMine, FiberConstants
<1> PICK x \in Fibers : x = Leaving(w)
    BY <1>3
<1> PICK news \in {"limbo", "gone"} : news = IF fiber_to_free[w] = None THEN "limbo" ELSE "gone"
    OBVIOUS
<1>4. \A v \in Workers : \/ pending_remove_ref'[v] = pending_remove_ref[v]
                         \/ pending_remove_ref'[v] = x /\ news = "gone"
    <2>1. \/ pending_remove_ref' = pending_remove_ref
          \/ pending_remove_ref' = [pending_remove_ref EXCEPT ![w] = x] /\ news = "gone"
        BY DEF LongjmpIntoRuntimeWatched, LongjmpIntoRuntime,
               RemoveReferenceFromSelfAndResumeOther, SuspendSelfAndResumeOther
    <2> QED
        BY <1>1, <2>1
<1>5. /\ Tell(stack_op[x], news) /\ UNCHANGED <<tbb_interop, unwatch, outdated>>
      /\ stack_op' = IF news = "gone" THEN [stack_op EXCEPT ![x] = None] ELSE stack_op
    BY DEF LongjmpIntoRuntimeWatched, Orphan, Release
<1>6. \A v \in Workers : Serves(v)' <=> Serves(v) /\ v # w
    BY <1>1, <1>2 DEF Serves, Leavings
<1>7. \A v \in Workers : Serves(v) => v \in Running
    BY DEF Serves, Running
<1>8. step[User] \in {"out", "gone"} => step'[User] = step[User]
    BY <1>1, <1>2 DEF Leavings
<1>9. \A v \in Workers : (Serves(v) /\ cur[v] = x)' <=> news = v
    <2>1. \A v \in Workers : news # v
        BY DEF ThunkAssumption
    <2>2. \A v \in Workers : Serves(v)' => cur'[v] = cur[v] /\ v \in Running /\ v # w
        BY <1>1, <1>2, <1>6, <1>7
    <2> QED
        BY <1>3, <2>1, <2>2
<1>10. \A y \in Fibers \ ({x} \cup Workers) : \A v \in Workers :
          (Serves(v) /\ cur[v] = y)' <=> Serves(v) /\ cur[v] = y
    BY <1>1, <1>2, <1>3, <1>6
<1> QED
    BY <1>2, <1>4, <1>5, <1>8, <1>9, <1>10, WatchTold

(* TBB hands over a thunk that it has not used.                            *)
LEMMA WatchNew ==
    ASSUME FiberAssumption, ThunkAssumption, SwitchInv, WatchInv,
           NEW w \in Workers, NEW k \in Thunks, Watch(w, k)
    PROVE  WatchInv'
<1> DEFINE x == MyFiber(w)
<1>1. /\ x = cur[w] /\ x \in Fibers \ Workers /\ x \in alive /\ x # None
      /\ \A v \in Running : cur[v] = x => v = w
      /\ \A v \in Workers : spare[v] # x /\ pending_remove_ref[v] # x
    BY StackIsMine, FiberConstants DEF Watch, UserSteps, SomeFiber
<1>2. /\ step[w] = "user" /\ stack_op[x] = None /\ seen[k] = "unused"
      /\ stack_op' = [stack_op EXCEPT ![x] = k] /\ unwatch' = [unwatch EXCEPT ![k] = x]
      /\ seen' = [seen EXCEPT ![k] = w]
      /\ tbb_interop' = tbb_interop /\ outdated' = outdated
      /\ step' = step /\ cur' = cur /\ alive' = alive /\ spare' = spare
      /\ pending_remove_ref' = pending_remove_ref
    BY DEF Watch, vars, local, fibers
<1> HIDE DEF x
<1>3. WatchTypes /\ None \notin Thunks /\ Workers \cap {"unused", "limbo", "gone"} = {} /\ Workers \subseteq Fibers
    BY FiberConstants DEF WatchInv, ThunkAssumption
<1>4. /\ \A y \in Fibers : stack_op'[y] = IF y = x THEN k ELSE stack_op[y]
      /\ \A j \in Thunks : seen'[j] = (IF j = k THEN w ELSE seen[j])
                           /\ unwatch'[j] = (IF j = k THEN x ELSE unwatch[j])
    BY <1>1, <1>2, <1>3 DEF WatchTypes
<1>5. tbb_interop # k /\ \A y \in Fibers : stack_op[y] # k
    BY <1>2, <1>3, FiberConstants DEF WatchInv, StorageOK, KeptOK
<1>6. WatchTypes'
    BY <1>1, <1>2, <1>3 DEF WatchTypes
<1>7. StorageOK'
    BY <1>2, <1>3, <1>4, <1>5 DEF WatchInv, StorageOK, WatchTypes
<1>8. \A v \in Workers : Serves(v)' <=> Serves(v)
    BY <1>2 DEF Serves
<1>9. ASSUME NEW y \in Fibers PROVE KeptOK(y)'
    <2>1. CASE y = x
        <3>1. \A v \in Workers : w = v <=> Serves(v)' /\ cur'[v] = y
            BY <1>1, <1>2, <1>8, <2>1 DEF Serves, Running
        <3>2. \A z \in Fibers : stack_op'[z] = k => y = z
            BY <1>4, <1>5, <2>1
        <3> QED
            BY <1>1, <1>2, <1>3, <1>4, <1>5, <2>1, <3>1, <3>2 DEF KeptOK
    <2>2. CASE y # x
        <3>1. KeptOK(y) /\ stack_op'[y] = stack_op[y] /\ stack_op[y] # k
            BY <1>4, <1>5, <2>2 DEF WatchInv
        <3>2. stack_op[y] # None => seen'[stack_op[y]] = seen[stack_op[y]]
            BY <1>3, <1>4, <3>1 DEF WatchTypes
        <3>3. \A z \in Fibers : stack_op'[z] = stack_op[y] => stack_op[z] = stack_op[y]
            BY <1>4, <3>1
        <3> QED
            BY <1>2, <1>8, <3>1, <3>2, <3>3 DEF KeptOK
    <2> QED
        BY <2>1, <2>2
<1>10. ASSUME NEW j \in Thunks PROVE ThunkOK(j)'
    <2>1. CASE j = k
        <3>1. IsKept(j)' /\ stack_op'[unwatch'[j]] = j /\ seen'[j] = w /\ unwatch'[j] # None
            BY <1>1, <1>4, <2>1 DEF IsKept
        <3> QED
            BY <1>3, <3>1 DEF ThunkOK
    <2>2. CASE j # k
        <3>1. IsKept(j)' <=> IsKept(j)
            BY <1>1, <1>2, <1>3, <1>4, <2>2 DEF IsKept
        <3>2. unwatch[j] \in Fibers /\ stack_op[unwatch[j]] = j => stack_op'[unwatch[j]] = j
            BY <1>2, <1>3, <1>4
        <3> QED
            BY <1>2, <1>4, <2>2, <3>1, <3>2 DEF WatchInv, ThunkOK
    <2> QED
        BY <2>1, <2>2
<1>11. ASSUME NEW v \in Workers PROVE IdleOK(v)'
    BY <1>1, <1>2, <1>3, <1>4 DEF WatchInv, IdleOK, WatchTypes
<1> QED
    BY <1>6, <1>7, <1>9, <1>10, <1>11 DEF WatchInv

(* One that comes before the thread is bound is kept in its storage.       *)
LEMMA WatchNewUnbound ==
    ASSUME FiberAssumption, ThunkAssumption, SwitchInv, WatchInv,
           NEW k \in Thunks, WatchUnbound(k)
    PROVE  WatchInv'
<1>1. /\ step[User] = "out" /\ tbb_interop = None /\ seen[k] = "unused"
      /\ tbb_interop' = k /\ unwatch' = [unwatch EXCEPT ![k] = Delayed]
      /\ seen' = [seen EXCEPT ![k] = User] /\ stack_op' = stack_op /\ outdated' = outdated
      /\ step' = step /\ cur' = cur /\ alive' = alive /\ spare' = spare
      /\ pending_remove_ref' = pending_remove_ref
    BY DEF WatchUnbound, vars, local, fibers
<1>2. /\ WatchTypes /\ None \notin Thunks /\ Workers \cap {"unused", "limbo", "gone"} = {}
      /\ Delayed \notin Fibers \cup {None} /\ User \in Workers /\ Workers \subseteq Fibers
    BY FiberConstants DEF WatchInv, ThunkAssumption
<1>3. \A j \in Thunks : seen'[j] = (IF j = k THEN User ELSE seen[j])
                        /\ unwatch'[j] = (IF j = k THEN Delayed ELSE unwatch[j])
    BY <1>1, <1>2 DEF WatchTypes
<1>4. \A y \in Fibers : stack_op[y] # k
    BY <1>1, <1>2 DEF WatchInv, KeptOK
<1>5. WatchTypes'
    BY <1>1, <1>2 DEF WatchTypes
<1>6. StorageOK'
    BY <1>1, <1>3 DEF StorageOK
<1>7. \A v \in Workers : Serves(v)' <=> Serves(v)
    BY <1>1 DEF Serves
<1>8. ASSUME NEW y \in Fibers PROVE KeptOK(y)'
    <2>1. KeptOK(y) /\ stack_op[y] # k
        BY <1>4 DEF WatchInv
    <2>2. stack_op[y] # None => seen'[stack_op[y]] = seen[stack_op[y]]
        BY <1>2, <1>3, <2>1 DEF WatchTypes
    <2> QED
        BY <1>1, <1>7, <2>1, <2>2 DEF KeptOK
<1>9. ASSUME NEW j \in Thunks PROVE ThunkOK(j)'
    <2>1. ThunkOK(j) /\ (IsKept(j)' <=> IsKept(j))
        BY <1>1 DEF WatchInv, IsKept
    <2>2. CASE j = k
        BY <1>1, <1>2, <1>3, <2>2 DEF ThunkOK
    <2>3. CASE j # k
        BY <1>1, <1>2, <1>3, <2>1, <2>3 DEF ThunkOK
    <2> QED
        BY <2>2, <2>3
<1>10. \A v \in Workers : IdleOK(v)'
    BY <1>1 DEF WatchInv, IdleOK
<1> QED
    BY <1>5, <1>6, <1>8, <1>9, <1>10 DEF WatchInv

(* TBB takes a stack back: from the fiber that has its thunk, or from the  *)
(* thread's storage. *)
LEMMA WatchTakenBack ==
    ASSUME FiberAssumption, ThunkAssumption, SwitchInv, WatchInv,
           NEW w \in Workers, NEW k \in Thunks, Unwatch(w, k)
    PROVE  WatchInv'
<1>1. /\ WatchTypes /\ None \notin Thunks /\ Workers \cap {"unused", "limbo", "gone"} = {}
      /\ Delayed \notin Fibers \cup {None} /\ User \in Workers /\ Workers \subseteq Fibers
      /\ None \notin Fibers /\ ThunkOK(k)
    BY FiberConstants DEF WatchInv, ThunkAssumption
<1>2. /\ seen[k] = w /\ step[w] \in {"user", "out"} /\ seen' = [seen EXCEPT ![k] = "gone"]
      /\ unwatch' = unwatch /\ outdated' = outdated
      /\ step' = step /\ cur' = cur /\ alive' = alive /\ spare' = spare
      /\ pending_remove_ref' = pending_remove_ref
    BY DEF Unwatch, vars, local, fibers
<1>3. step[w] = "user" =>
         /\ tbb_interop # k /\ MyFiber(w) = cur[w] /\ cur[w] \in Fibers
         /\ stack_op[cur[w]] = k
    <2>1. ASSUME step[w] = "user" PROVE tbb_interop # k
        <3> SUFFICES ASSUME tbb_interop = k PROVE FALSE
            OBVIOUS
        <3>1. step[User] \in {"out", "gone"} /\ k \in {User, "gone"} \cup Thunks /\ seen[k] \in {User, "gone"}
            BY <1>1 DEF WatchInv, StorageOK
        <3>2. w = User
            BY <1>1, <1>2, <3>1
        <3> QED
            BY <2>1, <3>1, <3>2
    <2>2. ASSUME step[w] = "user" PROVE MyFiber(w) = cur[w] /\ cur[w] \in Fibers
        BY <2>2, StackIsMine, FiberConstants DEF UserSteps
    <2>3. ASSUME step[w] = "user" PROVE stack_op[cur[w]] = k
        <3>1. PICK x \in Fibers : stack_op[x] = k
            BY <1>1, <1>2, <2>1, <2>3 DEF ThunkOK, IsKept
        <3>2. KeptOK(x)
            BY DEF WatchInv
        <3>3. seen[k] = w <=> Serves(w) /\ cur[w] = x
            BY <1>1, <1>2, <3>1, <3>2 DEF KeptOK
        <3> QED
            BY <1>2, <3>1, <3>3
    <2> QED
        BY <2>1, <2>2, <2>3
<1>4. step[w] = "out" => ~IsKept(k) /\ tbb_interop = k
    <2> SUFFICES ASSUME step[w] = "out" PROVE ~IsKept(k)
        BY <1>1, <1>2 DEF ThunkOK
    <2> SUFFICES ASSUME NEW x \in Fibers, stack_op[x] = k PROVE FALSE
        BY DEF IsKept
    <2>1. seen[k] = w <=> Serves(w) /\ cur[w] = x
        BY <1>1, <1>2 DEF WatchInv, KeptOK
    <2> QED
        BY <1>2, <2>1 DEF Serves
(* What has the thunk no longer has it, and nothing else is touched. *)
<1>5. /\ \A y \in Fibers : stack_op'[y] = stack_op[y] \/ (stack_op'[y] = None /\ stack_op[y] = k)
      /\ tbb_interop' = tbb_interop \/ (tbb_interop' = None /\ tbb_interop = k)
      /\ k \notin outdated => (\A y \in Fibers : stack_op'[y] # k) /\ tbb_interop' # k
      /\ stack_op' \in [Fibers -> Thunks \cup {None}] /\ tbb_interop' \in Thunks \cup {None}
    <2>1. unwatch[k] \in Fibers \cup {Delayed}
        BY <1>1, <1>2 DEF ThunkOK, WatchTypes
    <2>2. \A x, y \in Fibers : stack_op[x] = k /\ stack_op[y] = k => x = y
        BY <1>1 DEF WatchInv, KeptOK
    <2>3. ASSUME NEW x \in Fibers, tbb_interop' = tbb_interop,
                 stack_op' = IF k \in outdated THEN stack_op ELSE [stack_op EXCEPT ![x] = None],
                 k \notin outdated => stack_op[x] = k /\ tbb_interop # k
          PROVE  /\ \A y \in Fibers : stack_op'[y] = stack_op[y] \/ (stack_op'[y] = None /\ stack_op[y] = k)
                 /\ tbb_interop' = tbb_interop \/ (tbb_interop' = None /\ tbb_interop = k)
                 /\ k \notin outdated => (\A y \in Fibers : stack_op'[y] # k) /\ tbb_interop' # k
                 /\ stack_op' \in [Fibers -> Thunks \cup {None}] /\ tbb_interop' \in Thunks \cup {None}
        <3>1. /\ stack_op' \in [Fibers -> Thunks \cup {None}]
              /\ tbb_interop' \in Thunks \cup {None}
            BY <1>1, <2>3 DEF WatchTypes
        <3>2. \A y \in Fibers : stack_op'[y] = IF k \notin outdated /\ y = x THEN None ELSE stack_op[y]
            BY <1>1, <2>3 DEF WatchTypes
        <3>3. \A y \in Fibers : stack_op'[y] = stack_op[y] \/ (stack_op'[y] = None /\ stack_op[y] = k)
            BY <2>3, <3>2
        <3>4. k \notin outdated => (\A y \in Fibers : stack_op'[y] # k) /\ tbb_interop' # k
            BY <1>1, <2>2, <2>3, <3>2
        <3> QED
            BY <2>3, <3>1, <3>3, <3>4
    <2>4. CASE unwatch[k] = Delayed /\ step[w] = "out"
        <3>1. tbb_interop' = None /\ stack_op' = stack_op
            BY <2>4 DEF Unwatch
        <3>2. /\ stack_op' \in [Fibers -> Thunks \cup {None}]
              /\ tbb_interop' \in Thunks \cup {None} /\ tbb_interop' # k
            BY <1>1, <3>1 DEF WatchTypes
        <3>3. tbb_interop = k /\ \A y \in Fibers : stack_op'[y] = stack_op[y] /\ stack_op[y] # k
            BY <1>4, <2>4, <3>1 DEF IsKept
        <3> QED
            BY <3>1, <3>2, <3>3
    <2>5. CASE unwatch[k] = Delayed /\ step[w] = "user"
        <3>1. /\ tbb_interop' = tbb_interop
              /\ stack_op' = IF k \in outdated THEN stack_op ELSE [stack_op EXCEPT ![cur[w]] = None]
            BY <1>1, <1>3, <2>5 DEF Unwatch
        <3> QED
            BY <1>1, <1>3, <2>5, <2>3, <3>1
    <2>6. CASE unwatch[k] \in Fibers
        <3>1. /\ tbb_interop' = tbb_interop
              /\ stack_op' = IF k \in outdated THEN stack_op ELSE [stack_op EXCEPT ![unwatch[k]] = None]
            BY <1>1, <2>6 DEF Unwatch
        <3>2. k \notin outdated => stack_op[unwatch[k]] = k
            BY <1>1, <1>2, <2>6 DEF ThunkOK
        <3>3. k \notin outdated => tbb_interop # k
            BY <1>1, <2>6, <3>2 DEF WatchInv, KeptOK
        <3> QED
            BY <2>6, <2>3, <3>1, <3>2, <3>3
    <2> QED
        BY <1>2, <2>1, <2>4, <2>5, <2>6
<1>6. \A j \in Thunks : seen'[j] = IF j = k THEN "gone" ELSE seen[j]
    BY <1>1, <1>2 DEF WatchTypes
<1>7. WatchTypes'
    BY <1>1, <1>2, <1>5 DEF WatchTypes
<1>8. StorageOK'
    BY <1>1, <1>2, <1>5, <1>6 DEF WatchInv, StorageOK, WatchTypes
<1>9. ASSUME NEW y \in Fibers PROVE KeptOK(y)'
    <2>1. KeptOK(y) /\ \A v \in Workers : Serves(v)' <=> Serves(v)
        BY <1>2 DEF WatchInv, Serves
    <2>2. CASE stack_op'[y] = None
        BY <2>2 DEF KeptOK
    <2>3. CASE stack_op'[y] # None
        <3>1. stack_op'[y] = stack_op[y] /\ stack_op[y] \in Thunks
            BY <1>1, <1>5, <2>3 DEF WatchTypes
        <3>2. /\ \A z \in Fibers : stack_op'[z] = stack_op[y] => stack_op[z] = stack_op[y]
              /\ tbb_interop' = stack_op[y] => tbb_interop = stack_op[y]
            BY <1>1, <1>5, <3>1
        <3> QED
            BY <1>1, <1>2, <1>6, <2>1, <2>3, <3>1, <3>2 DEF KeptOK
    <2> QED
        BY <2>2, <2>3
<1>10. ASSUME NEW j \in Thunks PROVE ThunkOK(j)'
    <2>1. ThunkOK(j)
        BY DEF WatchInv
    <2>2. CASE j = k
        <3>1. k \notin outdated => ~IsKept(k)' /\ tbb_interop' # k
            BY <1>5 DEF IsKept
        <3> QED
            BY <1>1, <1>2, <1>6, <2>1, <2>2, <3>1 DEF ThunkOK
    <2>3. CASE j # k
        <3>1. \A y \in Fibers : stack_op'[y] = j <=> stack_op[y] = j
            BY <1>1, <1>5, <2>3
        <3>2. tbb_interop' = j <=> tbb_interop = j
            BY <1>1, <1>5, <2>3
        <3> QED
            BY <1>2, <1>6, <2>1, <2>3, <3>1, <3>2 DEF ThunkOK, IsKept
    <2> QED
        BY <2>2, <2>3
<1>11. ASSUME NEW v \in Workers PROVE IdleOK(v)'
    <2>1. /\ IdleOK(v) /\ spare[v] \in Fibers \cup {None} /\ pending_remove_ref[v] \in Fibers \cup {None}
        BY FiberConstants DEF WatchInv, SwitchInv, SwitchTypes
    <2>2. \A y \in Fibers : stack_op[y] = None => stack_op'[y] = None
        BY <1>5
    <2> QED
        BY <1>2, <2>1, <2>2 DEF IdleOK
<1> QED
    BY <1>7, <1>8, <1>9, <1>10, <1>11 DEF WatchInv

(* The user enters: what waits in the storage goes to the fiber that       *)
(* stands for its stack, which was nobody's.                               *)
LEMMA WatchBind ==
    ASSUME FiberAssumption, ThunkAssumption, SwitchInv, WatchInv, BindWatched
    PROVE  WatchInv'
<1>1. /\ WatchTypes /\ None \notin Thunks /\ Workers \cap {"unused", "limbo", "gone"} = {}
      /\ User \in Workers /\ Workers \subseteq Fibers /\ Thread \in Fibers \ Workers /\ None \notin Fibers
      /\ step \in [Workers -> Steps] /\ cur \in [Workers -> Fibers \cup {None}]
    BY FiberConstants DEF WatchInv, ThunkAssumption, SomeFiber, SwitchInv, SwitchTypes
<1>2. /\ step[User] = "out" /\ step' = [step EXCEPT ![User] = "user"]
      /\ cur' = [cur EXCEPT ![User] = Thread] /\ frames = {}
      /\ alive' = alive \cup {Thread, User} /\ spare' = spare
      /\ pending_remove_ref' = pending_remove_ref
      /\ stack_op' = [stack_op EXCEPT ![Thread] = tbb_interop] /\ tbb_interop' = None
      /\ unwatch' = unwatch /\ seen' = seen /\ outdated' = outdated
    BY DEF BindWatched, Bind, Goto, AllocateFromThread
<1>3. Thread \notin alive
    <2>1. \A f \in FrameIds : fiber_self[f] # Thread /\ fiber_child[f] # Thread
        BY <1>2, FiberConstants DEF SwitchInv, GoneFrameOK
    <2>2. \A v \in Workers : spare[v] # Thread /\ fiber_to_free[v] # Thread /\ pending_remove_ref[v] # Thread
        BY FiberConstants DEF SwitchInv, SwitchTypes
    <2>3. \A n \in Kinds : \A i \in Indices(n) : FiberAt(n, i) # Thread
        BY <2>1, <2>2 DEF Kinds, Indices, FiberAt
    <2> QED
        BY <2>3 DEF SwitchInv, PlacesOK
<1>4. stack_op[Thread] = None
    BY <1>1, <1>3 DEF WatchInv, KeptOK
<1>5. \A y \in Fibers : stack_op'[y] = IF y = Thread THEN tbb_interop ELSE stack_op[y]
    BY <1>1, <1>2 DEF WatchTypes
<1>6. \A v \in Workers : Serves(v)' <=> Serves(v) \/ v = User
    BY <1>1, <1>2 DEF Serves
<1>7. \A v \in Workers : Serves(v) => v # User /\ cur'[v] = cur[v] /\ cur[v] # Thread
    <2> TAKE v \in Workers
    <2> HAVE Serves(v)
    <2>1. v \in Running /\ v # User /\ cur[v] \in alive
        BY <1>2 DEF Serves, Running, SwitchInv, CurOK
    <2> QED
        BY <1>1, <1>2, <1>3, <2>1
<1>8. WatchTypes'
    BY <1>1, <1>2 DEF WatchTypes
<1>9. StorageOK'
    BY <1>2 DEF StorageOK
<1>10. ASSUME NEW y \in Fibers PROVE KeptOK(y)'
    <2>1. KeptOK(y)
        BY DEF WatchInv
    <2>2. CASE y = Thread
        <3>1. CASE tbb_interop = None
            BY <1>5, <2>2, <3>1 DEF KeptOK
        <3>2. CASE tbb_interop # None
            <4>1. seen[tbb_interop] \in {User, "gone"}
                BY <3>2 DEF WatchInv, StorageOK
            <4>2. \A z \in Fibers : stack_op[z] # tbb_interop
                BY <3>2 DEF WatchInv, KeptOK
            <4>3. \A v \in Workers : User = v <=> (Serves(v) /\ cur[v] = Thread)'
                BY <1>1, <1>2, <1>6, <1>7
            <4> QED
                BY <1>1, <1>2, <1>5, <2>2, <3>2, <4>1, <4>2, <4>3 DEF KeptOK
        <3> QED
            BY <3>1, <3>2
    <2>3. CASE y # Thread /\ stack_op[y] # None
        <3>1. \A z \in Fibers : stack_op'[z] = stack_op[y] => y = z
            BY <1>5, <2>1, <2>3 DEF KeptOK
        <3>2. \A v \in Workers : (Serves(v) /\ cur[v] = y)' <=> Serves(v) /\ cur[v] = y
            BY <1>1, <1>2, <1>6, <1>7, <2>3
        <3> QED
            BY <1>2, <1>5, <2>1, <2>3, <3>1, <3>2 DEF KeptOK
    <2>4. CASE y # Thread /\ stack_op[y] = None
        BY <1>5, <2>4 DEF KeptOK
    <2> QED
        BY <2>2, <2>3, <2>4
<1>11. ASSUME NEW j \in Thunks PROVE ThunkOK(j)'
    <2>1. ThunkOK(j)
        BY DEF WatchInv
    <2>2. IsKept(j)' <=> IsKept(j) \/ tbb_interop = j
        BY <1>1, <1>4, <1>5 DEF IsKept
    <2>3. unwatch[j] \in Fibers /\ stack_op[unwatch[j]] = j => stack_op'[unwatch[j]] = j
        BY <1>1, <1>4, <1>5
    <2> QED
        BY <1>1, <1>2, <2>1, <2>2, <2>3 DEF ThunkOK
<1>12. ASSUME NEW v \in Workers PROVE IdleOK(v)'
    <2>1. IdleOK(v) /\ spare[v] \in Heap \cup {None} /\ pending_remove_ref[v] \in Heap \cup {None}
        BY FiberConstants DEF WatchInv, SwitchInv, SwitchTypes
    <2> QED
        BY <1>2, <1>5, <2>1, FiberConstants DEF IdleOK
<1> QED
    BY <1>8, <1>9, <1>10, <1>11, <1>12 DEF WatchInv

(* The user leaves: the thunk goes back to its storage, and the fiber that *)
(* stood for its stack is given up.                                        *)
LEMMA WatchReturnFromInitial ==
    ASSUME FiberAssumption, ThunkAssumption, SwitchInv, WatchInv, ReturnFromInitialWatched
    PROVE  WatchInv'
<1>1. /\ WatchTypes /\ None \notin Thunks /\ Workers \cap {"unused", "limbo", "gone"} = {}
      /\ User \in Workers /\ Workers \subseteq Fibers /\ None \notin Fibers
      /\ step \in [Workers -> Steps] /\ cur \in [Workers -> Fibers \cup {None}]
    BY FiberConstants DEF WatchInv, ThunkAssumption, SwitchInv, SwitchTypes
<1>2. step[User] = "user"
    BY DEF ReturnFromInitialWatched, ReturnFromInitial, Goto
<1>3. PICK x \in Fibers \ Workers :
         /\ x = MyFiber(User) /\ x = cur[User] /\ x = fiber_self[frame_ff[User]]
         /\ \A v \in Running : cur[v] = x => v = User
    BY <1>1, <1>2, StackIsMine, FiberConstants DEF UserSteps
<1>4. /\ step' = [step EXCEPT ![User] = "out"] /\ cur' = [cur EXCEPT ![User] = None]
      /\ alive' = alive \ {x} /\ spare' = spare /\ pending_remove_ref' = pending_remove_ref
      /\ tbb_interop' = IF stack_op[x] = None THEN tbb_interop ELSE stack_op[x]
      /\ stack_op' = [stack_op EXCEPT ![x] = None]
      /\ outdated' = outdated \cup {k \in Thunks : unwatch[k] = x}
      /\ unwatch' = unwatch /\ seen' = seen
    BY <1>3 DEF ReturnFromInitialWatched, ReturnFromInitial, Goto
<1>5. tbb_interop = None /\ tbb_interop' = stack_op[x] /\ KeptOK(x)
    BY <1>2, <1>4 DEF WatchInv, StorageOK
<1>6. stack_op[x] # None => seen[stack_op[x]] \in {User, "gone"}
    BY <1>1, <1>2, <1>3, <1>5 DEF KeptOK, Serves
<1>7. \A y \in Fibers : stack_op'[y] = IF y = x THEN None ELSE stack_op[y]
    BY <1>1, <1>4 DEF WatchTypes
<1>8. \A v \in Workers : Serves(v)' <=> Serves(v) /\ v # User
    BY <1>1, <1>4 DEF Serves
<1>9. WatchTypes'
    BY <1>1, <1>3, <1>4 DEF WatchTypes
<1>10. StorageOK'
    BY <1>1, <1>4, <1>5, <1>6 DEF StorageOK
<1>11. ASSUME NEW y \in Fibers PROVE KeptOK(y)'
    <2>1. CASE y = x \/ stack_op[y] = None
        BY <1>7, <2>1 DEF KeptOK
    <2>2. CASE y # x /\ stack_op[y] # None
        <3>1. KeptOK(y)
            BY DEF WatchInv
        <3>2. stack_op[x] # stack_op[y]
            BY <1>3, <2>2, <3>1 DEF KeptOK
        <3>3. \A z \in Fibers : stack_op'[z] = stack_op[y] => y = z
            BY <1>7, <2>2, <3>1 DEF KeptOK
        <3>4. \A v \in Workers : (Serves(v) /\ cur[v] = y)' <=> Serves(v) /\ cur[v] = y
            BY <1>1, <1>3, <1>4, <1>8, <2>2
        <3> QED
            BY <1>4, <1>5, <1>7, <2>2, <3>1, <3>2, <3>3, <3>4 DEF KeptOK
    <2> QED
        BY <2>1, <2>2
<1>12. ASSUME NEW j \in Thunks PROVE ThunkOK(j)'
    <2>1. ThunkOK(j)
        BY DEF WatchInv
    <2>2. IsKept(j) <=> IsKept(j)' \/ tbb_interop' = j
        BY <1>1, <1>3, <1>5, <1>7 DEF IsKept
    <2>3. tbb_interop' = j => seen[j] \in {User, "gone"}
        BY <1>1, <1>5, <1>6
    <2>4. /\ seen'[j] = seen[j] /\ unwatch'[j] = unwatch[j]
          /\ j \notin outdated' => j \notin outdated /\ unwatch[j] # x
        BY <1>4
    <2>5. unwatch[j] \in Fibers /\ j \notin outdated' => stack_op'[unwatch[j]] = stack_op[unwatch[j]]
        BY <1>7, <2>4
    <2>6. tbb_interop # j
        BY <1>1, <1>5
    <2> QED
        BY <1>1, <2>1, <2>2, <2>3, <2>4, <2>5, <2>6 DEF ThunkOK
<1>13. ASSUME NEW v \in Workers PROVE IdleOK(v)'
    <2>1. /\ IdleOK(v) /\ spare[v] \in Fibers \cup {None} /\ pending_remove_ref[v] \in Fibers \cup {None}
        BY FiberConstants DEF WatchInv, SwitchInv, SwitchTypes
    <2> QED
        BY <1>4, <1>7, <2>1 DEF IdleOK
<1> QED
    BY <1>9, <1>10, <1>11, <1>12, <1>13 DEF WatchInv

(* At first nothing is watched.                                            *)
LEMMA WatchInit ==
    ASSUME FiberAssumption, ThunkAssumption, WInit
    PROVE  SwitchInv /\ WatchInv
<1>1. Init /\ NothingWatched /\ SwitchInv
    BY SwitchInit DEF WInit
<1>2. WatchTypes /\ StorageOK
    BY <1>1 DEF NothingWatched, WatchTypes, StorageOK
<1>3. \A x \in Fibers : KeptOK(x)
    BY <1>1 DEF NothingWatched, KeptOK
<1>4. \A k \in Thunks : ThunkOK(k)
    BY <1>1, FiberConstants DEF NothingWatched, ThunkOK, ThunkAssumption
<1>5. \A w \in Workers : IdleOK(w)
    BY <1>1, FiberConstants DEF Init, IdleOK
<1> QED
    BY <1>1, <1>2, <1>3, <1>4, <1>5 DEF WatchInv

(* Each step of StackWatch keeps what is said of the watched stacks.       *)
LEMMA WatchStep ==
    ASSUME FiberAssumption, ThunkAssumption, SwitchInv, WatchInv, [WNext]_wvars
    PROVE  WatchInv'
<1>1. CASE UNCHANGED wvars
    <2>1. UNCHANGED watch_vars /\ UNCHANGED <<cur, step, alive, spare, pending_remove_ref>>
        BY <1>1 DEF wvars, vars, local, fibers
    <2> QED
        BY <2>1, WatchSilent DEF WatchInv, KeptOK, Serves
<1>2. ASSUME NEW w \in Workers, NEW k \in Thunks, Watch(w, k) \/ Unwatch(w, k) PROVE WatchInv'
    BY <1>2, WatchNew, WatchTakenBack
<1> QED
    BY <1>1, <1>2, WatchBind, WatchReturnFromInitial, WatchSilently, WatchEnterUserCode,
       WatchLongjmp, WatchNewUnbound
    DEF WNext

(* What the invariant says of the watched stacks.                          *)
LEMMA StacksFollowed ==
    ASSUME FiberAssumption, ThunkAssumption, SwitchInv, WatchInv
    PROVE  StacksAreFollowed
<1>1. /\ WatchTypes /\ None \notin Thunks /\ Workers \cap {"unused", "limbo", "gone"} = {}
      /\ Fibers \cap {None} = {} /\ User \in Workers
    BY FiberConstants DEF WatchInv, ThunkAssumption
<1>2. ASSUME NEW w \in Running, Known(stack_op[cur[w]])
      PROVE  /\ step[w] \in {"user", "returning", "syncing"} => seen[stack_op[cur[w]]] = w
             /\ step[w] \in {"started", "resumed"} => seen[stack_op[cur[w]]] = "limbo"
    <2>1. w \in Workers /\ cur[w] \in Fibers /\ \A v \in Running : cur[v] = cur[w] => v = w
        BY DEF Running, SwitchInv, CurOK, SwitchTypes
    <2>2. stack_op[cur[w]] \in Thunks
        BY <1>1, <1>2, <2>1 DEF WatchTypes, Known
    <2>3. /\ seen[stack_op[cur[w]]] \in Workers \cup {"limbo"}
          /\ \A v \in Workers : seen[stack_op[cur[w]]] = v <=> Serves(v) /\ cur[v] = cur[w]
        BY <1>1, <1>2, <2>1, <2>2 DEF WatchInv, KeptOK, Known, WatchTypes
    <2>4. \A v \in Workers : Serves(v) => v \in Running
        BY DEF Serves, Running
    <2> QED
        BY <2>1, <2>3, <2>4 DEF Serves
<1>3. ASSUME NEW k \in Thunks, NEW x \in Fibers, stack_op[x] = k
      PROVE  Kept(k) = {x} /\ x \in alive \ Workers
    <2>1. x \in alive \ Workers /\ tbb_interop # k /\ \A y \in Fibers : stack_op[y] = k => x = y
        BY <1>1, <1>3 DEF WatchInv, KeptOK
    <2>2. {y \in Fibers : stack_op[y] = k} = {x}
        BY <1>3, <2>1
    <2> QED
        BY <2>1, <2>2 DEF Kept
<1>4. ASSUME NEW k \in Thunks, seen[k] = "limbo" PROVE \E x \in alive \ Workers : Kept(k) = {x}
    BY <1>3, <1>4 DEF WatchInv, ThunkOK, IsKept
<1>5. ASSUME NEW k \in Thunks, seen[k] \in Workers
      PROVE  IF step[seen[k]] \in {"out", "gone"} THEN tbb_interop = k /\ Kept(k) = {"storage"}
             ELSE Kept(k) = {cur[seen[k]]}
    <2>1. CASE IsKept(k)
        <3>1. PICK x \in Fibers : stack_op[x] = k
            BY <2>1 DEF IsKept
        <3>2. Serves(seen[k]) /\ cur[seen[k]] = x
            BY <1>1, <1>5, <3>1 DEF WatchInv, KeptOK
        <3> QED
            BY <1>3, <3>1, <3>2 DEF Serves
    <2>2. CASE ~IsKept(k)
        <3>1. tbb_interop = k
            BY <1>5, <2>2 DEF WatchInv, ThunkOK
        <3>2. seen[k] = User /\ step[User] \in {"out", "gone"}
            BY <1>1, <1>5, <3>1 DEF WatchInv, StorageOK
        <3>3. {y \in Fibers : stack_op[y] = k} = {}
            BY <2>2 DEF IsKept
        <3> QED
            BY <3>1, <3>2, <3>3 DEF Kept
    <2> QED
        BY <2>1, <2>2
<1>6. ASSUME NEW k \in Thunks, seen[k] = "gone", k \notin outdated PROVE Kept(k) = {}
    <2>1. ~IsKept(k) /\ tbb_interop # k
        BY <1>6 DEF WatchInv, ThunkOK
    <2> QED
        BY <2>1 DEF IsKept, Kept
<1>7. \A x \in Fibers \ alive : stack_op[x] = None
    BY DEF WatchInv, KeptOK
<1> QED
    BY <1>2, <1>4, <1>5, <1>6, <1>7 DEF StacksAreFollowed

(* A library that watches the stacks changes nothing of who is on which    *)
(* (cilk_fiber.cpp invoke_tbb_stack_op): StackWatch implements FiberSwitch. *)
THEOREM WatchingChangesNothing ==
    ASSUME FiberAssumption
    PROVE  WSpec => Spec /\ []FibersAreRight
<1>1. WInit => Init
    BY DEF WInit
<1>2. [WNext]_wvars => [Next]_vars
    BY WatchStepIsSwitchStep
<1>3. WSpec => Spec
    BY <1>1, <1>2, PTL DEF WSpec, Spec
<1>4. Spec => []FibersAreRight
    BY FibersHaveTheirUsers
<1> QED
    BY <1>3, <1>4, PTL

(* TBB sees a stack on the thread that runs on it and on no other, is told *)
(* of every transfer (cilk-tbb-interop.h:78), and is not called for a      *)
(* stack that was released or taken back, for any number of workers,       *)
(* fibers, frames and thunks. *)
THEOREM TransfersAreTold ==
    ASSUME FiberAssumption, ThunkAssumption
    PROVE  WSpec => []StacksAreFollowed
<1> DEFINE Inv == SwitchInv /\ WatchInv
<1>1. WInit => Inv
    BY WatchInit
<1>2. Inv /\ [WNext]_wvars => Inv'
    BY WatchStepIsSwitchStep, SwitchStep, WatchStep
<1>3. Inv => StacksAreFollowed
    BY StacksFollowed
<1> QED
    BY <1>1, <1>2, <1>3, PTL DEF WSpec
=============================================================================

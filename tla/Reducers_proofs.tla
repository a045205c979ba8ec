--------------------------- MODULE Reducers_proofs ---------------------------
(***************************************************************************)
(* Proofs about Reducers, for every number of children, of events and of   *)
(* reducers.                                                               *)
(*                                                                         *)
(* The inductive invariant has a part for the list of the children, one    *)
(* for the join counter, and one for each of what the strands leave to     *)
(* their left: RInv for the fibers and the exceptions, ViewsOK, which      *)
(* rests on it, for the maps.                                              *)
(***************************************************************************)
EXTENDS Reducers, FiniteSetTheorems, SequenceTheorems, WellFoundedInduction, TLAPS

-----------------------------------------------------------------------------
(* The inductive invariant.                                                *)
-----------------------------------------------------------------------------
Linked == {"pending", "run", "ended", "reduce", "reduced"}
Early == {"unborn", "pending", "run", "ended"}
States == Linked \cup {"unborn", "left", "done", "unwind"}

TypeOK ==
    /\ pc \in [Strands -> States]
    /\ spawned \in 0..MaxKids
    /\ kids \in Seq(Kids)
    /\ join \in Nat
    /\ unsynched \in BOOLEAN
    /\ fiber \in [Strands -> Int]
    /\ fiber_child \in Int
    /\ freed \in SUBSET Int
    /\ exc \in [Strands -> Int]
    /\ slot_exc \in [Strands -> Int]
    /\ thrown \in SUBSET Int
    /\ map \in [Strands -> Map \cup {NoMap}]
    /\ slot \in [Strands -> Map \cup {NoMap}]
    /\ taken \in [Strands -> Seq(Map \cup {NoMap})]
    /\ \A s \in Strands : Len(taken[s]) = 3
    /\ updated \in SUBSET (Reducers \X Int)
    /\ mixed \in BOOLEAN

(* The children in the list are those that have not left, in the order in  *)
(* which they were spawned.                                                *)
ListOK ==
    /\ \A i, j \in 1..Len(kids) : i < j => kids[i] < kids[j]
    /\ \A i \in 1..Len(kids) : pc[kids[i]] \in Linked
    /\ \A c \in Kids : pc[c] \in Linked => \E i \in 1..Len(kids) : kids[i] = c
    /\ \A c \in Kids : (pc[c] = "unborn" <=> c > spawned) /\ pc[c] # "unwind"
    /\ pc[Frame] \notin {"unborn", "pending"}

(* The join counter counts the strands that are under way.                 *)
Alive == {s \in Strands : pc[s] \notin {"unborn", "done"}}
SyncOK ==
    /\ IsFiniteSet(Alive) /\ join = Cardinality(Alive)
    /\ (kids # <<>> \/ pc[Frame] \notin {"run", "unwind"}) => unsynched
    /\ pc[Frame] = "unwind" => ~unsynched
    /\ ~unsynched => \A c \in Kids : pc[c] \in {"unborn", "done"}

(* The stack of the activation, 0, is the frame's while it is synched; then *)
(* the leftmost child's, and then waits for the frame.  The others are      *)
(* numbered by the child whose spawn or start they came from.               *)
OnFiber == {"run", "ended", "reduce", "reduced", "unwind"}
Started(c) == pc[c] \notin {"unborn", "pending"}
Numbers == {0} \cup 1..spawned \cup {MaxKids + c : c \in {d \in Kids : Started(d)}}
FiberOK ==
    /\ \A s \in Strands : fiber[s] # NoFiber <=> pc[s] \in OnFiber
    /\ ~unsynched => fiber[Frame] = 0 /\ fiber_child = NoFiber
    /\ unsynched =>
         \/ fiber_child = 0 /\ \A s \in Strands : fiber[s] # 0
         \/ fiber_child = NoFiber /\ kids # <<>> /\ fiber[kids[1]] = 0
    /\ \A s, t \in Strands : fiber[s] = fiber[t] /\ s # t => fiber[s] = NoFiber
    /\ \A s \in Strands : fiber[s] \in Numbers \cup {NoFiber} /\ fiber[s] \notin freed
    /\ freed \in SUBSET Numbers /\ 0 \notin freed /\ NoFiber \notin freed

(* An exception that a strand still holds is its own; one that was left to *)
(* it came from its right.  One that is pending is never later than one of *)
(* the strands to its right may still become.                              *)
OwnOK == \A s \in Strands : exc[s] # None =>
            /\ exc[s] \in thrown
            /\ \/ pc[s] = "ended" /\ exc[s] = Position(s)
               \/ pc[s] = "unwind"
LeftOK == \A s \in Strands : slot_exc[s] # None =>
            /\ slot_exc[s] \in thrown
            /\ s = Frame \/ (pc[s] \in Linked /\ slot_exc[s] > 2 * s - 1)
LaterOK == \A c \in Strands, d \in Kids :
            c < d /\ pc[d] \in Early /\ slot_exc[c] # None => slot_exc[c] < 2 * d - 1
OrderOK == \A c, d \in Strands :
            c < d /\ slot_exc[c] # None /\ slot_exc[d] # None => slot_exc[c] < slot_exc[d]
FrameOK == pc[Frame] \in {"run", "ended"} =>
            \A s \in Strands : slot_exc[s] # None => slot_exc[s] < 2 * spawned
ThrownOK == \A e \in thrown : e < None /\ \E s \in Strands :
            \/ exc[s] # None /\ exc[s] <= e
            \/ slot_exc[s] # None /\ slot_exc[s] <= e
UnwindOK == pc[Frame] = "unwind" => slot_exc[Frame] = None
ExcOK == OwnOK /\ LeftOK /\ LaterOK /\ OrderOK /\ FrameOK /\ ThrownOK /\ UnwindOK

RInv == TypeOK /\ ListOK /\ SyncOK /\ FiberOK /\ ExcOK

-----------------------------------------------------------------------------
(* The operators of the model.                                             *)
-----------------------------------------------------------------------------
(* What the assumption on the constants says of the strands. *)
LEMMA Constants ==
    /\ MaxKids \in Nat /\ NoMap \notin Map
    /\ Strands = 0..MaxKids /\ Kids = 1..MaxKids /\ Frame = 0 /\ Frame \in Strands
    /\ Frame \notin Kids /\ Kids \subseteq Strands
    /\ \A s \in Strands : s # Frame => s \in Kids
    /\ \A s \in Strands : s \in Int
    /\ NoFiber = -1 /\ None = 2 * MaxKids + 1 /\ None \in Nat
BY ReducersAssumption DEF Strands, Kids, Frame, NoFiber, None

(* A child in the list is found there (scheduler.c compute_left_ptrs).     *)
LEMMA Found ==
    ASSUME kids \in Seq(Kids), ListOK, NEW c \in Kids, pc[c] \in Linked
    PROVE  At(c) \in 1..Len(kids) /\ kids[At(c)] = c
<1>1. \E i \in 1..Len(kids) : kids[i] = c
    BY DEF ListOK
<1>2. c # Frame
    BY Constants
<1> QED
    BY <1>1, <1>2 DEF At

(* The strand to the left of one that leaves is a child in the list, or    *)
(* the frame if there is none, and no child in the list is between them.   *)
LEMMA ToTheLeft ==
    ASSUME kids \in Seq(Kids), ListOK, NEW s \in Strands, s = Frame \/ pc[s] \in Linked
    PROVE  /\ LeftOf(s) \in Strands
           /\ LeftOf(s) # Frame =>
                 /\ LeftOf(s) \in Kids /\ pc[LeftOf(s)] \in Linked
                 /\ s # Frame => LeftOf(s) < s
           /\ s # Frame => LeftOf(s) < s
           /\ \A c \in Kids : c > LeftOf(s) /\ pc[c] \in Linked /\ c # s => s # Frame /\ c > s
           /\ LeftOf(s) = Frame <=> IF s = Frame THEN kids = <<>> ELSE kids[1] = s
           /\ s = Frame /\ LeftOf(s) = Frame => \A c \in Kids : pc[c] \notin Linked
<1>1. \A i \in 1..Len(kids) : kids[i] \in Kids /\ pc[kids[i]] \in Linked
    BY DEF ListOK
<1>2. Len(kids) \in Nat /\ (kids = <<>> <=> Len(kids) = 0)
    BY EmptySeq
<1>3. \A c \in Kids : pc[c] \in Linked => \E i \in 1..Len(kids) : kids[i] = c
    BY DEF ListOK
<1>4. \A i, j \in 1..Len(kids) : i < j => kids[i] < kids[j]
    BY DEF ListOK
<1>5. CASE s = Frame
    <2>1. At(s) = Len(kids) + 1
        BY <1>5 DEF At
    <2>2. CASE kids = <<>>
        BY <2>1, <2>2, <1>2, <1>3, <1>5, Constants DEF LeftOf
    <2>3. CASE kids # <<>>
        <3>1. LeftOf(s) = kids[Len(kids)] /\ Len(kids) \in 1..Len(kids)
            BY <2>1, <2>3, <1>2 DEF LeftOf
        <3>2. \A c \in Kids : pc[c] \in Linked => c <= kids[Len(kids)]
            <4> SUFFICES ASSUME NEW c \in Kids, pc[c] \in Linked PROVE c <= kids[Len(kids)]
                OBVIOUS
            <4>1. PICK i \in 1..Len(kids) : kids[i] = c
                BY <1>3
            <4>2. i < Len(kids) \/ i = Len(kids)
                BY <1>2
            <4> QED
                BY <4>1, <4>2, <3>1, <1>4, Constants
        <3> QED
            BY <3>1, <3>2, <1>1, <1>5, <2>3, Constants
    <2> QED
        BY <2>2, <2>3
<1>6. CASE s # Frame
    <2>1. s \in Kids /\ pc[s] \in Linked
        BY <1>6, Constants
    <2>2. At(s) \in 1..Len(kids) /\ kids[At(s)] = s
        BY <2>1, Found
    <2>3. CASE At(s) = 1
        <3>1. \A c \in Kids : pc[c] \in Linked => c >= s
            <4> SUFFICES ASSUME NEW c \in Kids, pc[c] \in Linked PROVE c >= s
                OBVIOUS
            <4>1. PICK i \in 1..Len(kids) : kids[i] = c
                BY <1>3
            <4>2. 1 < i \/ i = 1
                OBVIOUS
            <4> QED
                BY <4>1, <4>2, <2>2, <2>3, <1>4, Constants
        <3> QED
            BY <3>1, <2>1, <2>2, <2>3, <1>6, Constants DEF LeftOf
    <2>4. CASE At(s) # 1
        <3>1. At(s) - 1 \in 1..Len(kids) /\ LeftOf(s) = kids[At(s) - 1] /\ 1 \in 1..Len(kids)
            BY <2>2, <2>4, <1>2 DEF LeftOf
        <3>2. LeftOf(s) < s /\ kids[1] < s
            BY <3>1, <2>2, <2>4, <1>4
        <3>3. \A c \in Kids : pc[c] \in Linked /\ c > LeftOf(s) => c >= s
            <4> SUFFICES ASSUME NEW c \in Kids, pc[c] \in Linked, c > LeftOf(s) PROVE c >= s
                OBVIOUS
            <4>1. PICK i \in 1..Len(kids) : kids[i] = c
                BY <1>3
            <4>2. i < At(s) - 1 \/ i = At(s) - 1 \/ i = At(s) \/ At(s) < i
                BY <2>2
            <4> QED
                BY <4>1, <4>2, <3>1, <2>2, <1>4, <1>1, Constants
        <3> QED
            BY <3>1, <3>2, <3>3, <2>1, <1>1, <1>6, Constants
    <2> QED
        BY <2>3, <2>4
<1> QED
    BY <1>5, <1>6

(* Unlinking takes one child out of the list and leaves the order of the   *)
(* others as it is (scheduler.c unlink_child).                             *)
LEMMA Unlinking ==
    ASSUME kids \in Seq(Kids), ListOK, NEW c \in Kids, pc[c] \in Linked
    PROVE  /\ Unlinked(c) \in Seq(Kids) /\ Len(Unlinked(c)) = Len(kids) - 1
           /\ \A i \in 1..Len(Unlinked(c)) :
                 Unlinked(c)[i] = IF i < At(c) THEN kids[i] ELSE kids[i + 1]
<1>1. At(c) \in 1..Len(kids) /\ kids[At(c)] = c
    BY Found
<1>2. Unlinked(c) = SubSeq(kids, 1, At(c) - 1) \o SubSeq(kids, At(c) + 1, Len(kids))
    BY Constants DEF Unlinked, RemoveAt
<1> DEFINE l == SubSeq(kids, 1, At(c) - 1)
           r == SubSeq(kids, At(c) + 1, Len(kids))
<1>3. Len(kids) \in Nat
    OBVIOUS
<1>4. /\ l \in Seq(Kids) /\ Len(l) = At(c) - 1
      /\ \A i \in 1..(At(c) - 1) : l[i] = kids[i]
    BY <1>1, <1>3, SubSeqProperties
<1>5. /\ r \in Seq(Kids) /\ Len(r) = Len(kids) - At(c)
      /\ \A i \in 1..(Len(kids) - At(c)) : r[i] = kids[At(c) + i]
    BY <1>1, <1>3, SubSeqProperties
<1> HIDE DEF l, r
<1>6. /\ l \o r \in Seq(Kids) /\ Len(l \o r) = Len(l) + Len(r)
      /\ \A i \in 1..(Len(l) + Len(r)) : (l \o r)[i] = IF i <= Len(l) THEN l[i] ELSE r[i - Len(l)]
    <2>1. l \in Seq(Kids) /\ r \in Seq(Kids)
        BY <1>4, <1>5
    <2> QED
        BY <2>1, ConcatProperties
<1>7. Unlinked(c) = l \o r
    BY <1>2 DEF l, r
<1>8. Len(l \o r) = Len(kids) - 1
    BY <1>1, <1>3, <1>4, <1>5, <1>6
<1>9. ASSUME NEW i \in 1..(Len(kids) - 1)
      PROVE  (l \o r)[i] = IF i < At(c) THEN kids[i] ELSE kids[i + 1]
    <2>1. i \in 1..(Len(l) + Len(r)) /\ At(c) \in Int /\ i \in Int /\ Len(kids) \in Int
        BY <1>1, <1>6, <1>3, <1>8
    <2>2. CASE i < At(c)
        BY <2>1, <2>2, <1>4, <1>6
    <2>3. CASE ~(i < At(c))
        <3>1. i - Len(l) \in 1..(Len(kids) - At(c)) /\ ~(i <= Len(l)) /\ At(c) + (i - Len(l)) = i + 1
            <4>1. Len(l) = At(c) - 1
                BY <1>4
            <4> QED
                BY <2>1, <2>3, <4>1
        <3>2. (l \o r)[i] = r[i - Len(l)]
            BY <2>1, <3>1, <1>6
        <3> QED
            BY <2>3, <3>1, <3>2, <1>5
    <2> QED
        BY <2>2, <2>3
<1> QED
    BY <1>6, <1>7, <1>8, <1>9

-----------------------------------------------------------------------------
(* Maps and the views in them.                                             *)
-----------------------------------------------------------------------------
AnyMap == Map \cup {NoMap}
Leads(m) == m # NoMap /\ m.is_leftmost

(* What a map is made of. *)
LEMMA MapFields ==
    ASSUME NEW m \in Map
    PROVE  /\ m = [view |-> m.view, is_leftmost |-> m.is_leftmost]
           /\ DOMAIN m.view \in SUBSET Reducers /\ m.view \in [DOMAIN m.view -> Seq(Int)]
           /\ m.is_leftmost \in BOOLEAN
BY DEF Map

(* What makes a map. *)
LEMMA MakeMap ==
    ASSUME NEW D \in SUBSET Reducers, NEW v \in [D -> Seq(Int)], NEW b \in BOOLEAN
    PROVE  [view |-> v, is_leftmost |-> b] \in Map
BY DEF Map

(* A map with other views. *)
LEMMA OtherViews ==
    ASSUME NEW m \in Map, NEW v
    PROVE  [m EXCEPT !.view = v] = [view |-> v, is_leftmost |-> m.is_leftmost]
BY DEF Map

(* A map that __cilkrts_make_reducer_map makes is empty. *)
LEMMA NewMap ==
    ASSUME NEW b \in BOOLEAN
    PROVE  /\ EmptyMap(b) \in Map /\ EmptyMap(b).is_leftmost = b
           /\ \A r \in Reducers : ViewIn(EmptyMap(b), r) = IF b THEN Variable ELSE <<>>
<1>1. [r \in {} |-> <<>>] \in [{} -> Seq(Int)]
    OBVIOUS
<1>2. EmptyMap(b) \in Map
    BY <1>1, MakeMap DEF EmptyMap
<1> QED
    BY <1>2, Constants DEF EmptyMap, ViewIn

(* A view is a sequence. *)
LEMMA ViewType ==
    ASSUME NEW m \in AnyMap, NEW r \in Reducers
    PROVE  ViewIn(m, r) \in Seq(Int)
<1>1. <<>> \in Seq(Int) /\ Variable \in Seq(Int)
    BY DEF Variable
<1>2. CASE m = NoMap
    BY <1>1, <1>2 DEF ViewIn
<1>3. CASE m # NoMap
    <2>1. m \in Map
        BY <1>3 DEF AnyMap
    <2> QED
        BY <1>1, <1>3, <2>1, MapFields DEF ViewIn
<1> QED
    BY <1>2, <1>3

(* Merging two maps gives a map with what is in both (reducer_impl.cpp     *)
(* merge_reducer_maps): the views of the left one and then those of the    *)
(* right one, as long as it is not the right one that is leftmost.         *)
LEMMA Merging ==
    ASSUME NEW l \in AnyMap, NEW m \in AnyMap
    PROVE  /\ MergeMaps(l, m) \in AnyMap
           /\ MergeMaps(l, m) = NoMap <=> l = NoMap /\ m = NoMap
           /\ l = NoMap => MergeMaps(l, m) = m
           /\ m = NoMap => MergeMaps(l, m) = l
           /\ l # NoMap /\ m # NoMap /\ ~m.is_leftmost =>
                MergeMaps(l, m).is_leftmost = l.is_leftmost
           /\ (l # NoMap /\ m # NoMap => ~m.is_leftmost) =>
                \A r \in Reducers : ViewIn(MergeMaps(l, m), r) = ViewIn(l, r) \o ViewIn(m, r)
<1>1. \A r \in Reducers : ViewIn(l, r) \in Seq(Int) /\ ViewIn(m, r) \in Seq(Int)
    BY ViewType
<1>2. ASSUME NEW s \in Seq(Int) PROVE s \o <<>> = s /\ <<>> \o s = s
    BY ConcatEmptySeq
<1>3. CASE l = NoMap
    <2>1. MergeMaps(l, m) = m
        BY <1>3 DEF MergeMaps
    <2>2. \A r \in Reducers : ViewIn(l, r) = <<>>
        BY <1>3 DEF ViewIn
    <2>3. \A r \in Reducers : ViewIn(m, r) = ViewIn(l, r) \o ViewIn(m, r)
        BY <2>2, <1>1, <1>2
    <2> QED
        BY <1>3, <2>1, <2>3 DEF AnyMap
<1>4. CASE l # NoMap /\ m = NoMap
    <2>1. MergeMaps(l, m) = l
        BY <1>4 DEF MergeMaps
    <2>2. \A r \in Reducers : ViewIn(m, r) = <<>>
        BY <1>4 DEF ViewIn
    <2>3. \A r \in Reducers : ViewIn(l, r) = ViewIn(l, r) \o ViewIn(m, r)
        BY <2>2, <1>1, <1>2
    <2> QED
        BY <1>4, <2>1, <2>3 DEF AnyMap
<1>5. CASE l # NoMap /\ m # NoMap
    <2>1. l \in Map /\ m \in Map
        BY <1>5 DEF AnyMap
    <2> DEFINE D == DOMAIN l.view \cup DOMAIN m.view
               mine(r) == IF r \in DOMAIN l.view THEN l.view[r]
                          ELSE IF l.is_leftmost THEN Variable ELSE <<>>
               left == [r \in D |-> IF r \in DOMAIN m.view THEN mine(r) \o m.view[r] ELSE mine(r)]
               right == [r \in D |-> IF r \notin DOMAIN m.view THEN l.view[r]
                                     ELSE IF r \notin DOMAIN l.view THEN m.view[r]
                                     ELSE l.view[r] \o m.view[r]]
    <2>2. /\ l = [view |-> l.view, is_leftmost |-> l.is_leftmost]
          /\ DOMAIN l.view \in SUBSET Reducers /\ l.view \in [DOMAIN l.view -> Seq(Int)]
          /\ l.is_leftmost \in BOOLEAN
        BY <2>1, MapFields
    <2>3. /\ m = [view |-> m.view, is_leftmost |-> m.is_leftmost]
          /\ DOMAIN m.view \in SUBSET Reducers /\ m.view \in [DOMAIN m.view -> Seq(Int)]
          /\ m.is_leftmost \in BOOLEAN
        BY <2>1, MapFields
    <2>4. Variable \in Seq(Int) /\ <<>> \in Seq(Int)
        BY DEF Variable
    <2>5. \A r \in Reducers : mine(r) \in Seq(Int)
        BY <2>2, <2>4
    <2>6. \A r \in Reducers : mine(r) = ViewIn(l, r)
        BY <1>5 DEF ViewIn
    <2>7. D \in SUBSET Reducers
        BY <2>2, <2>3
    <2>8. \A s, t \in Seq(Int) : s \o t \in Seq(Int)
        BY ConcatProperties
    <2>9. MergeIntoLeft(l, m) = [view |-> left, is_leftmost |-> l.is_leftmost]
        <3>1. MergeIntoLeft(l, m) = [l EXCEPT !.view = left]
            BY DEF MergeIntoLeft
        <3> HIDE DEF left
        <3> QED
            BY <3>1, <2>1, OtherViews
    <2>10. MergeIntoRight(l, m) = [view |-> right, is_leftmost |-> m.is_leftmost]
        <3>1. MergeIntoRight(l, m) = [m EXCEPT !.view = right]
            BY DEF MergeIntoRight
        <3> HIDE DEF right
        <3> QED
            BY <3>1, <2>1, OtherViews
    <2>11. MergeMaps(l, m) = MergeIntoLeft(l, m) \/
           (MergeMaps(l, m) = MergeIntoRight(l, m) /\ ~l.is_leftmost)
        BY <1>5 DEF MergeMaps
    <2> HIDE DEF mine
    <2>12. CASE MergeMaps(l, m) = MergeIntoLeft(l, m)
        <3>1. left \in [D -> Seq(Int)]
            BY <2>3, <2>5, <2>7, <2>8
        <3> HIDE DEF D
        <3>2. MergeMaps(l, m) \in Map
            BY <3>1, <2>2, <2>7, <2>9, <2>12, MakeMap
        <3>3. MergeMaps(l, m) # NoMap
            BY <3>2, Constants
        <3>4. ASSUME ~m.is_leftmost, NEW r \in Reducers
              PROVE  ViewIn(MergeMaps(l, m), r) = ViewIn(l, r) \o ViewIn(m, r)
            <4>1. MergeMaps(l, m).view = left /\ MergeMaps(l, m).is_leftmost = l.is_leftmost
                BY <2>9, <2>12
            <4>2. DOMAIN left = D
                OBVIOUS
            <4>3. CASE r \in DOMAIN m.view
                <5>1. left[r] = mine(r) \o m.view[r] /\ r \in D
                    BY <4>3 DEF D
                <5>2. ViewIn(MergeMaps(l, m), r) = left[r]
                    BY <5>1, <4>1, <4>2, <3>3 DEF ViewIn
                <5>3. ViewIn(m, r) = m.view[r]
                    BY <4>3, <1>5 DEF ViewIn
                <5> QED
                    BY <5>1, <5>2, <5>3, <2>6
            <4>4. CASE r \notin DOMAIN m.view
                <5>1. ViewIn(m, r) = <<>>
                    BY <4>4, <3>4, <1>5 DEF ViewIn
                <5>2. ViewIn(MergeMaps(l, m), r) = mine(r)
                    <6>1. CASE r \in D
                        BY <6>1, <4>1, <4>2, <4>4, <3>3 DEF ViewIn
                    <6>2. CASE r \notin D
                        BY <6>2, <4>1, <4>2, <4>4, <3>3 DEF ViewIn, mine, D
                    <6> QED
                        BY <6>1, <6>2
                <5>3. ViewIn(l, r) \o <<>> = ViewIn(l, r)
                    BY <1>1, <1>2
                <5> QED
                    BY <5>1, <5>2, <5>3, <2>6
            <4> QED
                BY <4>3, <4>4
        <3>5. MergeMaps(l, m).is_leftmost = l.is_leftmost
            BY <2>9, <2>12
        <3> QED
            BY <3>2, <3>3, <3>4, <3>5, <1>5 DEF AnyMap
    <2>13. CASE MergeMaps(l, m) = MergeIntoRight(l, m) /\ ~l.is_leftmost
        <3>1. right \in [D -> Seq(Int)]
            BY <2>2, <2>3, <2>7, <2>8
        <3> HIDE DEF D
        <3>2. MergeMaps(l, m) \in Map
            BY <3>1, <2>3, <2>7, <2>10, <2>13, MakeMap
        <3>3. MergeMaps(l, m) # NoMap
            BY <3>2, Constants
        <3>4. ASSUME ~m.is_leftmost, NEW r \in Reducers
              PROVE  ViewIn(MergeMaps(l, m), r) = ViewIn(l, r) \o ViewIn(m, r)
            <4>1. MergeMaps(l, m).view = right /\ MergeMaps(l, m).is_leftmost = m.is_leftmost
                BY <2>10, <2>13
            <4>2. DOMAIN right = D
                OBVIOUS
            <4>3. CASE r \notin DOMAIN m.view
                <5>1. ViewIn(m, r) = <<>>
                    BY <4>3, <3>4, <1>5 DEF ViewIn
                <5>2. ViewIn(MergeMaps(l, m), r) = ViewIn(l, r)
                    <6>1. CASE r \in D
                        <7>1. r \in DOMAIN l.view
                            BY <6>1, <4>3 DEF D
                        <7>2. right[r] = l.view[r]
                            BY <6>1, <4>3
                        <7> QED
                            BY <7>1, <7>2, <6>1, <4>1, <4>2, <3>3, <1>5 DEF ViewIn
                    <6>2. CASE r \notin D
                        <7>1. r \notin DOMAIN l.view
                            BY <6>2 DEF D
                        <7> QED
                            BY <7>1, <6>2, <4>1, <4>2, <3>3, <3>4, <2>13, <1>5 DEF ViewIn
                    <6> QED
                        BY <6>1, <6>2
                <5>3. ViewIn(l, r) \o <<>> = ViewIn(l, r)
                    BY <1>1, <1>2
                <5> QED
                    BY <5>1, <5>2, <5>3
            <4>4. CASE r \in DOMAIN m.view
                <5>1. r \in D
                    BY <4>4 DEF D
                <5>2. ViewIn(m, r) = m.view[r] /\ ViewIn(MergeMaps(l, m), r) = right[r]
                    BY <5>1, <4>1, <4>2, <4>4, <3>3, <1>5 DEF ViewIn
                <5>3. CASE r \in DOMAIN l.view
                    <6>1. right[r] = l.view[r] \o m.view[r]
                        BY <5>1, <5>3, <4>4
                    <6>2. ViewIn(l, r) = l.view[r]
                        BY <5>3, <1>5 DEF ViewIn
                    <6> QED
                        BY <6>1, <6>2, <5>2
                <5>4. CASE r \notin DOMAIN l.view
                    <6>1. right[r] = m.view[r]
                        BY <5>1, <5>4, <4>4
                    <6>2. ViewIn(l, r) = <<>>
                        BY <5>4, <2>13, <1>5 DEF ViewIn
                    <6>3. <<>> \o ViewIn(m, r) = ViewIn(m, r)
                        BY <1>1, <1>2
                    <6> QED
                        BY <6>1, <6>2, <6>3, <5>2
                <5> QED
                    BY <5>3, <5>4
            <4> QED
                BY <4>3, <4>4
        <3>5. ~m.is_leftmost => MergeMaps(l, m).is_leftmost = l.is_leftmost
            BY <2>2, <2>3, <2>10, <2>13
        <3> QED
            BY <3>2, <3>3, <3>4, <3>5, <1>5 DEF AnyMap
    <2> QED
        BY <2>11, <2>12, <2>13
<1> QED
    BY <1>3, <1>4, <1>5

(* The same for three maps of which only the first that is there may be    *)
(* the leftmost one.                                                       *)
LEMMA MergingThree ==
    ASSUME NEW t, t[1] \in AnyMap, t[2] \in AnyMap, t[3] \in AnyMap
    PROVE  /\ Merged(t) \in AnyMap
           /\ Merged(t) = NoMap <=> t[1] = NoMap /\ t[2] = NoMap /\ t[3] = NoMap
           /\ (Leads(t[2]) => t[1] = NoMap) /\ (Leads(t[3]) => t[1] = NoMap /\ t[2] = NoMap) =>
                /\ Leads(Merged(t)) <=> Leads(t[1]) \/ Leads(t[2]) \/ Leads(t[3])
                /\ \A r \in Reducers : ViewIn(Merged(t), r)
                                       = (ViewIn(t[1], r) \o ViewIn(t[2], r)) \o ViewIn(t[3], r)
<1> DEFINE l == t[1]
           m == t[2]
           n == t[3]
           k == MergeMaps(l, m)
<1>1. Merged(t) = MergeMaps(k, n) /\ l \in AnyMap /\ m \in AnyMap /\ n \in AnyMap
    BY DEF Merged
<1> SUFFICES
       /\ Merged(t) \in AnyMap
       /\ Merged(t) = NoMap <=> l = NoMap /\ m = NoMap /\ n = NoMap
       /\ (Leads(m) => l = NoMap) /\ (Leads(n) => l = NoMap /\ m = NoMap) =>
            /\ Leads(Merged(t)) <=> Leads(l) \/ Leads(m) \/ Leads(n)
            /\ \A r \in Reducers : ViewIn(Merged(t), r)
                                   = (ViewIn(l, r) \o ViewIn(m, r)) \o ViewIn(n, r)
    OBVIOUS
<1> HIDE DEF l, m, n
<1>2. /\ k \in AnyMap
      /\ k = NoMap <=> l = NoMap /\ m = NoMap
      /\ l = NoMap => k = m
      /\ m = NoMap => k = l
      /\ l # NoMap /\ m # NoMap /\ ~m.is_leftmost => k.is_leftmost = l.is_leftmost
      /\ (l # NoMap /\ m # NoMap => ~m.is_leftmost) =>
           \A r \in Reducers : ViewIn(k, r) = ViewIn(l, r) \o ViewIn(m, r)
    BY <1>1, Merging
<1> HIDE DEF k
<1>3. /\ MergeMaps(k, n) \in AnyMap
      /\ MergeMaps(k, n) = NoMap <=> k = NoMap /\ n = NoMap
      /\ k = NoMap => MergeMaps(k, n) = n
      /\ n = NoMap => MergeMaps(k, n) = k
      /\ k # NoMap /\ n # NoMap /\ ~n.is_leftmost => MergeMaps(k, n).is_leftmost = k.is_leftmost
      /\ (k # NoMap /\ n # NoMap => ~n.is_leftmost) =>
           \A r \in Reducers : ViewIn(MergeMaps(k, n), r) = ViewIn(k, r) \o ViewIn(n, r)
    BY <1>1, <1>2, Merging
<1> QED
    BY <1>1, <1>2, <1>3 DEF Leads

-----------------------------------------------------------------------------
(* Types.                                                                  *)
-----------------------------------------------------------------------------
(* The three maps that meet when a strand leaves. *)
LEMMA Meeting ==
    ASSUME TypeOK, ListOK, NEW s \in Strands, s = Frame \/ pc[s] \in Linked
    PROVE  /\ slot[LeftOf(s)] \in AnyMap /\ map[s] \in AnyMap /\ Own(s) \in AnyMap
           /\ Splice(s) \in Seq(AnyMap) /\ Len(Splice(s)) = 3
           /\ Merged(Splice(s)) \in AnyMap
<1>1. LeftOf(s) \in Strands
    BY ToTheLeft DEF TypeOK
<1>2. slot[LeftOf(s)] \in AnyMap /\ map[s] \in AnyMap /\ Own(s) \in AnyMap
    BY <1>1 DEF TypeOK, AnyMap, Own
<1> QED
    BY <1>2, MergingThree DEF Splice

(* The invariant holds of the types at first. *)
LEMMA TypesInit == Init => TypeOK
<1> SUFFICES ASSUME Init PROVE TypeOK
    OBVIOUS
<1>1. EmptyMap(TRUE) \in Map
    BY NewMap
<1>2. taken \in [Strands -> Seq(Map \cup {NoMap})] /\ \A s \in Strands : Len(taken[s]) = 3
    BY DEF Init, Nothing
<1>3. map \in [Strands -> Map \cup {NoMap}] /\ slot \in [Strands -> Map \cup {NoMap}]
    BY <1>1 DEF Init
<1>4. /\ exc \in [Strands -> Int] /\ slot_exc \in [Strands -> Int]
      /\ fiber \in [Strands -> Int] /\ fiber_child \in Int /\ freed \in SUBSET Int
    BY Constants DEF Init
<1>5. pc \in [Strands -> States]
    BY DEF Init, States, Linked
<1>6. /\ spawned \in 0..MaxKids /\ kids \in Seq(Kids) /\ join \in Nat /\ unsynched \in BOOLEAN
      /\ thrown \in SUBSET Int /\ updated \in SUBSET (Reducers \X Int) /\ mixed \in BOOLEAN
    BY Constants DEF Init
<1> QED
    BY <1>2, <1>3, <1>4, <1>5, <1>6 DEF TypeOK

(* A map with one view changed (reducer_impl.cpp __cilkrts_hyper_lookup).  *)
LEMMA Updating ==
    ASSUME NEW m \in AnyMap, NEW r \in Reducers, NEW x \in Int
    PROVE  /\ Looked(m, r, x) \in Map
           /\ Looked(m, r, x).is_leftmost = (m # NoMap /\ m.is_leftmost)
           /\ ViewIn(Looked(m, r, x), r) = Append(ViewIn(m, r), x)
           /\ \A q \in Reducers \ {r} : ViewIn(Looked(m, r, x), q) = ViewIn(m, q)
<1> DEFINE n == IF m = NoMap THEN EmptyMap(FALSE) ELSE m
           old == IF r \in DOMAIN n.view THEN n.view[r]
                  ELSE IF n.is_leftmost THEN Variable ELSE <<>>
           new == [q \in DOMAIN n.view \cup {r} |->
                      IF q = r THEN Append(old, x) ELSE n.view[q]]
           u == [n EXCEPT !.view = new]
<1>1. n \in Map /\ n # NoMap
    BY NewMap, Constants DEF AnyMap
<1>2. n.is_leftmost = (m # NoMap /\ m.is_leftmost)
    <2>1. CASE m = NoMap
        BY <2>1, NewMap
    <2>2. CASE m # NoMap
        BY <2>2, <1>1, MapFields
    <2> QED
        BY <2>1, <2>2
<1>3. \A q \in Reducers : ViewIn(n, q) = ViewIn(m, q)
    <2>1. CASE m = NoMap
        BY <2>1, NewMap DEF ViewIn
    <2>2. CASE m # NoMap
        BY <2>2
    <2> QED
        BY <2>1, <2>2
<1> HIDE DEF n
<1>4. /\ n = [view |-> n.view, is_leftmost |-> n.is_leftmost]
      /\ DOMAIN n.view \in SUBSET Reducers /\ n.view \in [DOMAIN n.view -> Seq(Int)]
      /\ n.is_leftmost \in BOOLEAN
    BY <1>1, MapFields
<1>5. old = ViewIn(n, r) /\ old \in Seq(Int)
    BY <1>1, <1>4 DEF ViewIn, Variable
<1> HIDE DEF old
<1>6. Append(old, x) \in Seq(Int)
    BY <1>5
<1>7. DOMAIN n.view \cup {r} \in SUBSET Reducers
    BY <1>4
<1>8. new \in [DOMAIN n.view \cup {r} -> Seq(Int)]
    BY <1>4, <1>6
<1>9. u = [view |-> new, is_leftmost |-> n.is_leftmost]
    <2> HIDE DEF new
    <2> QED
        BY <1>1, OtherViews
<1>10. u \in Map
    <2> HIDE DEF new, u
    <2> QED
        BY <1>4, <1>7, <1>8, <1>9, MakeMap
<1>11. u # NoMap
    BY <1>10, Constants
<1>12. u.view = new /\ u.is_leftmost = n.is_leftmost
    BY <1>9
<1>13. DOMAIN new = DOMAIN n.view \cup {r} /\ new[r] = Append(old, x)
       /\ \A q \in DOMAIN n.view : q # r => new[q] = n.view[q]
    OBVIOUS
<1> HIDE DEF new, u
<1>14. ViewIn(u, r) = Append(ViewIn(n, r), x)
    BY <1>11, <1>12, <1>13, <1>5 DEF ViewIn
<1>15. ASSUME NEW q \in Reducers \ {r} PROVE ViewIn(u, q) = ViewIn(n, q)
    BY <1>11, <1>12, <1>13, <1>1 DEF ViewIn
<1>16. /\ u \in Map
       /\ u.is_leftmost = (m # NoMap /\ m.is_leftmost)
       /\ ViewIn(u, r) = Append(ViewIn(m, r), x)
       /\ \A q \in Reducers \ {r} : ViewIn(u, q) = ViewIn(m, q)
    BY <1>2, <1>3, <1>10, <1>12, <1>14, <1>15
<1>17. Looked(m, r, x) = u
    BY DEF Looked, u, new, old, n
<1> QED
    BY <1>16, <1>17

(* With the frame locked a strand leaves an exception, which is one of the *)
(* three that meet, to its left.                                           *)
LEMMA SplicedExceptions ==
    ASSUME TypeOK, ListOK, NEW s \in Strands, s = Frame \/ pc[s] \in Linked, SpliceExceptions(s)
    PROVE  /\ exc' = [exc EXCEPT ![s] = None] /\ exc' \in [Strands -> Int]
           /\ slot_exc' \in [Strands -> Int]
           /\ slot_exc'[LeftOf(s)] = IF slot_exc[LeftOf(s)] # None THEN slot_exc[LeftOf(s)]
                                     ELSE IF exc[s] # None THEN exc[s] ELSE OwnException(s)
           /\ \A t \in Strands : t # LeftOf(s) =>
                slot_exc'[t] = IF t = s /\ s # Frame THEN None ELSE slot_exc[t]
<1>1. LeftOf(s) \in Strands /\ None \in Int
    BY ToTheLeft, Constants DEF TypeOK
<1> DEFINE all == MergeExceptions(MergeExceptions(slot_exc[LeftOf(s)], exc[s]), OwnException(s))
<1>2. slot_exc' = [Cleared(slot_exc, s, None) EXCEPT ![LeftOf(s)] = all]
      /\ exc' = [exc EXCEPT ![s] = None]
    BY DEF SpliceExceptions
<1>3. all = IF slot_exc[LeftOf(s)] # None THEN slot_exc[LeftOf(s)]
            ELSE IF exc[s] # None THEN exc[s] ELSE OwnException(s)
    BY DEF MergeExceptions
<1>4. all \in Int
    BY <1>1, <1>3 DEF TypeOK, OwnException
<1> HIDE DEF all
<1>5. Cleared(slot_exc, s, None) \in [Strands -> Int]
    BY <1>1 DEF Cleared, TypeOK
<1>6. \A t \in Strands : t # LeftOf(s) =>
         Cleared(slot_exc, s, None)[t] = IF t = s /\ s # Frame THEN None ELSE slot_exc[t]
    BY DEF Cleared
<1>7. exc' \in [Strands -> Int]
    BY <1>1, <1>2 DEF TypeOK
<1> QED
    BY <1>1, <1>2, <1>3, <1>4, <1>5, <1>6, <1>7

(* Every step keeps the types. *)
LEMMA TypesKept ==
    ASSUME TypeOK, ListOK, [Next]_vars
    PROVE  TypeOK'
<1> USE DEF TypeOK
<1>c. /\ MaxKids \in Nat /\ Strands = 0..MaxKids /\ Kids = 1..MaxKids /\ Frame = 0
      /\ Kids \subseteq Strands /\ Frame \in Strands /\ NoFiber \in Int /\ None \in Int
    BY Constants
<1>1. ASSUME NEW s \in Strands, NEW r \in Reducers, Update(s, r) PROVE TypeOK'
    <2>1. Position(s) \in Int
        BY <1>c DEF Position
    <2>2. Looked(map[s], r, Position(s)) \in Map
        BY <2>1, Updating DEF AnyMap
    <2>3. map' \in [Strands -> Map \cup {NoMap}]
        BY <1>1, <2>2 DEF Update
    <2>4. updated' \in SUBSET (Reducers \X Int)
        BY <1>1, <2>1 DEF Update
    <2> QED
        BY <1>1, <2>3, <2>4 DEF Update, exceptions, fibers, tree
<1>2. ASSUME NEW s \in Strands, TakeMaps(s) PROVE TypeOK'
    <2>1. s = Frame \/ pc[s] \in Linked
        BY <1>2 DEF TakeMaps, Goto, Linked
    <2>2. /\ LeftOf(s) \in Strands /\ Splice(s) \in Seq(AnyMap) /\ Len(Splice(s)) = 3
        BY <2>1, Meeting, ToTheLeft
    <2>3. taken' \in [Strands -> Seq(Map \cup {NoMap})] /\ \A t \in Strands : Len(taken'[t]) = 3
        BY <1>2, <2>2 DEF TakeMaps, AnyMap
    <2>4. slot' \in [Strands -> Map \cup {NoMap}]
        BY <1>2 DEF TakeMaps, Cleared
    <2>5. map' \in [Strands -> Map \cup {NoMap}]
        BY <1>2 DEF TakeMaps
    <2>6. pc' \in [Strands -> States]
        BY <1>2 DEF TakeMaps, Goto, States, Linked
    <2>7. exc' \in [Strands -> Int] /\ slot_exc' \in [Strands -> Int]
        BY <1>2, <2>1, SplicedExceptions DEF TakeMaps
    <2> QED
        BY <1>2, <2>3, <2>4, <2>5, <2>6, <2>7 DEF TakeMaps, fibers, tree
<1>3. ASSUME NEW s \in Strands, Reduce(s) PROVE TypeOK'
    <2>1. taken[s][1] \in AnyMap /\ taken[s][2] \in AnyMap /\ taken[s][3] \in AnyMap
        <3>1. taken[s] \in Seq(AnyMap) /\ Len(taken[s]) = 3
            BY DEF AnyMap
        <3> HIDE DEF TypeOK
        <3> QED
            BY <3>1
    <2>2. Merged(taken[s]) \in AnyMap
        BY <2>1, MergingThree
    <2>3. map' \in [Strands -> Map \cup {NoMap}]
        BY <1>3, <2>2 DEF Reduce, AnyMap
    <2>4. taken' \in [Strands -> Seq(Map \cup {NoMap})] /\ \A t \in Strands : Len(taken'[t]) = 3
        BY <1>3 DEF Reduce, Nothing
    <2>5. pc' \in [Strands -> States]
        BY <1>3 DEF Reduce, Goto, States, Linked
    <2> QED
        BY <1>3, <2>3, <2>4, <2>5 DEF Reduce, exceptions, fibers, tree
<1>4. ASSUME NEW s \in Strands, Leave(s) PROVE TypeOK'
    <2>1. s = Frame \/ pc[s] \in Linked
        BY <1>4 DEF Leave, Goto, Linked
    <2>2. LeftOf(s) \in Strands /\ Merged(Splice(s)) \in AnyMap
        BY <2>1, Meeting, ToTheLeft
    <2>3. Cleared(slot, s, NoMap) \in [Strands -> Map \cup {NoMap}]
        BY DEF Cleared
    <2>4. slot' \in [Strands -> Map \cup {NoMap}]
        BY <1>4, <2>2, <2>3 DEF Leave, AnyMap
    <2>5. map' \in [Strands -> Map \cup {NoMap}]
        BY <1>4 DEF Leave
    <2>6. pc' \in [Strands -> States]
        BY <1>4 DEF Leave, Goto, States, Linked
    <2>7. exc' \in [Strands -> Int] /\ slot_exc' \in [Strands -> Int]
        BY <1>4, <2>1, SplicedExceptions DEF Leave
    <2>8. fiber' \in [Strands -> Int] /\ fiber_child' \in Int /\ freed' \in SUBSET Int
        <3>1. /\ fiber' = [fiber EXCEPT ![s] = NoFiber]
              /\ \/ fiber_child' = fiber[s] /\ freed' = freed
                 \/ freed' = freed \cup {fiber[s]} /\ fiber_child' = fiber_child
            BY <1>4 DEF Leave
        <3>2. fiber[s] \in Int
            OBVIOUS
        <3> QED
            BY <3>1, <3>2, <1>c
    <2>9. kids' \in Seq(Kids)
        <3>1. CASE s = Frame
            BY <1>4, <3>1 DEF Leave, Unlinked
        <3>2. CASE s # Frame
            BY <1>4, <2>1, <3>2, <1>c, Unlinking DEF Leave
        <3> QED
            BY <3>1, <3>2
    <2> QED
        BY <1>4, <2>4, <2>5, <2>6, <2>7, <2>8, <2>9 DEF Leave
<1>5. ASSUME NEW s \in Strands, DropReference(s) PROVE TypeOK'
    <2>1. pc' \in [Strands -> States] /\ join' \in Nat
        BY <1>5 DEF DropReference, Goto, States
    <2> QED
        BY <1>5, <2>1 DEF DropReference, maps, exceptions, fibers
<1>6. ASSUME NEW s \in Strands, ResumeFrame(s) PROVE TypeOK'
    <2>1. pc' \in [Strands -> States]
        BY <1>6 DEF ResumeFrame, States, Linked
    <2>2. map' \in [Strands -> Map \cup {NoMap}] /\ slot' \in [Strands -> Map \cup {NoMap}]
        BY <1>6, <1>c DEF ResumeFrame, SetupReducers
    <2>3. exc' \in [Strands -> Int] /\ slot_exc' \in [Strands -> Int]
        BY <1>6, <1>c DEF ResumeFrame, SetupExceptions, MergeExceptions
    <2>4. fiber' \in [Strands -> Int] /\ fiber_child' \in Int
        BY <1>6, <1>c DEF ResumeFrame
    <2>5. thrown' \in SUBSET Int
        BY <1>6 DEF ResumeFrame
    <2> QED
        BY <1>6, <2>1, <2>2, <2>3, <2>4, <2>5 DEF ResumeFrame
<1>7. ASSUME NEW c \in Kids, StartPending(c) PROVE TypeOK'
    <2>1. pc' \in [Strands -> States]
        BY <1>7, <1>c DEF StartPending, Goto, States, Linked
    <2>2. fiber' \in [Strands -> Int]
        BY <1>7, <1>c DEF StartPending
    <2> QED
        BY <1>7, <2>1, <2>2 DEF StartPending, maps, exceptions, tree
<1>8. ASSUME NEW c \in Kids, End(c) PROVE TypeOK'
    <2>1. pc' \in [Strands -> States]
        BY <1>8, <1>c DEF End, Goto, States, Linked
    <2> QED
        BY <1>8, <2>1 DEF End, maps, exceptions, fibers, tree
<1>9. ASSUME NEW c \in Kids, Throw(c) PROVE TypeOK'
    <2>1. pc' \in [Strands -> States]
        BY <1>9, <1>c DEF Throw, Goto, States, Linked
    <2>2. Position(c) \in Int
        BY <1>c DEF Position
    <2>3. exc' \in [Strands -> Int] /\ thrown' \in SUBSET Int
        BY <1>9, <1>c, <2>2 DEF Throw
    <2> QED
        BY <1>9, <2>1, <2>3 DEF Throw, maps, fibers, tree
<1>10. ASSUME Steal PROVE TypeOK'
    <2>1. spawned + 1 \in Kids /\ spawned' = spawned + 1 /\ spawned' \in 0..MaxKids
        BY <1>10, <1>c DEF Steal
    <2>2. pc' \in [Strands -> States]
        BY <1>10, <1>c, <2>1 DEF Steal, States, Linked
    <2>3. kids' \in Seq(Kids)
        BY <1>10, <2>1 DEF Steal
    <2>4. map' \in [Strands -> Map \cup {NoMap}]
        BY <1>10, <1>c, <2>1 DEF Steal
    <2>5. fiber' \in [Strands -> Int]
        <3>1. fiber' = [fiber EXCEPT ![spawned + 1] = fiber[Frame], ![Frame] = spawned + 1]
            BY <1>10 DEF Steal
        <3>2. spawned + 1 \in Int /\ fiber[Frame] \in Int
            BY <1>c, <2>1
        <3> QED
            BY <3>1, <3>2
    <2>6. join' \in Nat /\ unsynched' \in BOOLEAN
        BY <1>10 DEF Steal
    <2> QED
        BY <1>10, <2>1, <2>2, <2>3, <2>4, <2>5, <2>6 DEF Steal, exceptions
<1>11. ASSUME SpawnPending PROVE TypeOK'
    <2>1. spawned + 1 \in Kids /\ spawned' = spawned + 1 /\ spawned' \in 0..MaxKids
        BY <1>11, <1>c DEF SpawnPending
    <2>2. pc' \in [Strands -> States]
        BY <1>11, <1>c, <2>1 DEF SpawnPending, States, Linked
    <2>3. kids' \in Seq(Kids)
        BY <1>11, <2>1 DEF SpawnPending
    <2>4. join' \in Nat /\ unsynched' \in BOOLEAN /\ mixed' \in BOOLEAN
        BY <1>11 DEF SpawnPending
    <2> QED
        BY <1>11, <2>1, <2>2, <2>3, <2>4 DEF SpawnPending, maps, exceptions, fibers
<1>12. ASSUME Sync PROVE TypeOK'
    <2>1. pc' \in [Strands -> States]
        BY <1>12, <1>c DEF Sync, Goto, States, Linked
    <2> QED
        BY <1>12, <2>1 DEF Sync, maps, exceptions, fibers, tree
<1>13. ASSUME ThrowAndSync PROVE TypeOK'
    <2>1. pc' \in [Strands -> States]
        BY <1>13, <1>c DEF ThrowAndSync, Goto, States, Linked
    <2>2. Position(Frame) \in Int
        BY <1>c DEF Position
    <2>3. exc' \in [Strands -> Int] /\ thrown' \in SUBSET Int
        BY <1>13, <1>c, <2>2 DEF ThrowAndSync
    <2> QED
        BY <1>13, <2>1, <2>3 DEF ThrowAndSync, maps, fibers, tree
<1>14. CASE UNCHANGED vars
    BY <1>14 DEF vars, maps, exceptions, fibers, tree
<1> QED
    BY <1>1, <1>2, <1>3, <1>4, <1>5, <1>6, <1>7, <1>8, <1>9, <1>10, <1>11, <1>12, <1>13, <1>14 DEF Next

-----------------------------------------------------------------------------
(* The list of the children.                                               *)
-----------------------------------------------------------------------------
(* The list is as it was, and so is who belongs to it. *)
LEMMA ListStays ==
    ASSUME TypeOK, ListOK, kids' = kids, spawned' = spawned,
           \A c \in Kids : \/ pc'[c] = pc[c]
                           \/ pc[c] \in Linked /\ pc'[c] \in Linked
                           \/ pc[c] = "left" /\ pc'[c] = "done",
           pc'[Frame] \notin {"unborn", "pending"}
    PROVE  ListOK'
<1>1. \A i \in 1..Len(kids) : kids[i] \in Kids
    BY DEF TypeOK
<1>2. \A i, j \in 1..Len(kids') : i < j => kids'[i] < kids'[j]
    BY DEF ListOK
<1>3. \A i \in 1..Len(kids') : pc'[kids'[i]] \in Linked
    BY <1>1 DEF ListOK, Linked
<1>4. \A c \in Kids : pc'[c] \in Linked => \E i \in 1..Len(kids') : kids'[i] = c
    BY DEF ListOK, Linked
<1>5. \A c \in Kids : (pc'[c] = "unborn" <=> c > spawned') /\ pc'[c] # "unwind"
    BY DEF ListOK, Linked
<1> QED
    BY <1>2, <1>3, <1>4, <1>5 DEF ListOK

(* A child that is spawned is the youngest and goes to the end of the list *)
(* (scheduler.c push_child).                                               *)
LEMMA ListGrows ==
    ASSUME TypeOK, ListOK, spawned < MaxKids, spawned' = spawned + 1,
           kids' = Append(kids, spawned + 1), NEW k \in Linked,
           pc' = [pc EXCEPT ![spawned + 1] = k]
    PROVE  ListOK'
<1> DEFINE c == spawned + 1
<1>1. c \in Kids /\ spawned \in Nat /\ c # Frame /\ c \in Strands /\ Kids \subseteq Nat
    BY Constants DEF TypeOK
<1> HIDE DEF c
<1>2. /\ \A i \in 1..Len(kids) : kids[i] \in Kids /\ pc[kids[i]] \in Linked
      /\ Len(kids) \in Nat /\ kids \in Seq(Kids)
    BY DEF TypeOK, ListOK
<1>3. \A i \in 1..Len(kids) : kids[i] <= spawned /\ kids[i] < c /\ kids[i] # c
    <2>1. \A d \in Kids : pc[d] = "unborn" <=> d > spawned
        BY DEF ListOK
    <2>2. \A d \in Kids : pc[d] \in Linked => d <= spawned
        <3>1. \A d \in Kids : pc[d] \in Linked => ~(d > spawned)
            BY <2>1 DEF Linked
        <3> QED
            BY <3>1, <1>1
    <2>3. \A d \in Kids : d <= spawned => d < c /\ d # c
        BY <1>1 DEF c
    <2> QED
        BY <2>2, <2>3, <1>2
<1>4. /\ Len(kids') = Len(kids) + 1 /\ kids'[Len(kids) + 1] = c
      /\ \A i \in 1..Len(kids) : kids'[i] = kids[i]
    BY <1>1, <1>2 DEF c
<1>5. pc'[c] = k /\ \A s \in Strands : s # c => pc'[s] = pc[s]
    BY <1>1 DEF TypeOK, c
<1>6. \A i, j \in 1..Len(kids') : i < j => kids'[i] < kids'[j]
    <2> SUFFICES ASSUME NEW i \in 1..Len(kids'), NEW j \in 1..Len(kids'), i < j
                 PROVE  kids'[i] < kids'[j]
        OBVIOUS
    <2>1. i \in 1..Len(kids) /\ (j \in 1..Len(kids) \/ j = Len(kids) + 1)
        BY <1>2, <1>4
    <2> QED
        BY <2>1, <1>3, <1>4 DEF ListOK
<1>7. \A i \in 1..Len(kids') : pc'[kids'[i]] \in Linked
    <2> SUFFICES ASSUME NEW i \in 1..Len(kids') PROVE pc'[kids'[i]] \in Linked
        OBVIOUS
    <2>1. i \in 1..Len(kids) \/ i = Len(kids) + 1
        BY <1>2, <1>4
    <2> QED
        BY <2>1, <1>2, <1>3, <1>4, <1>5, Constants
<1>8. \A d \in Kids : pc'[d] \in Linked => \E i \in 1..Len(kids') : kids'[i] = d
    <2> SUFFICES ASSUME NEW d \in Kids, pc'[d] \in Linked PROVE \E i \in 1..Len(kids') : kids'[i] = d
        OBVIOUS
    <2>1. CASE d = c
        BY <2>1, <1>2, <1>4
    <2>2. CASE d # c
        <3>1. PICK i \in 1..Len(kids) : kids[i] = d
            BY <2>2, <1>5, Constants DEF ListOK
        <3> QED
            BY <3>1, <1>2, <1>4
    <2> QED
        BY <2>1, <2>2
<1>9. \A d \in Kids : (pc'[d] = "unborn" <=> d > spawned') /\ pc'[d] # "unwind"
    <2> SUFFICES ASSUME NEW d \in Kids
                 PROVE  (pc'[d] = "unborn" <=> d > spawned') /\ pc'[d] # "unwind"
        OBVIOUS
    <2>1. CASE d = c
        BY <2>1, <1>1, <1>5 DEF Linked, c
    <2>2. CASE d # c
        <3>1. d \in Nat /\ (d > spawned' <=> d > spawned)
            BY <2>2, <1>1 DEF c
        <3> QED
            BY <2>2, <3>1, <1>5, Constants DEF ListOK
    <2> QED
        BY <2>1, <2>2
<1>10. pc'[Frame] = pc[Frame]
    BY <1>1, <1>5, Constants
<1> QED
    BY <1>6, <1>7, <1>8, <1>9, <1>10 DEF ListOK

(* A child that leaves is taken out of the list.                           *)
LEMMA ListShrinks ==
    ASSUME TypeOK, ListOK, NEW c \in Kids, pc[c] \in Linked, spawned' = spawned,
           kids' = Unlinked(c), pc' = [pc EXCEPT ![c] = "left"]
    PROVE  ListOK'
<1>1. /\ kids' \in Seq(Kids) /\ Len(kids') = Len(kids) - 1
      /\ \A i \in 1..Len(kids') : kids'[i] = IF i < At(c) THEN kids[i] ELSE kids[i + 1]
      /\ At(c) \in 1..Len(kids) /\ kids[At(c)] = c
    BY Unlinking, Found DEF TypeOK
<1>2. /\ kids \in Seq(Kids) /\ Len(kids) \in Nat
      /\ \A i \in 1..Len(kids) : kids[i] \in Kids /\ pc[kids[i]] \in Linked
      /\ \A i, j \in 1..Len(kids) : i < j => kids[i] < kids[j]
    BY DEF TypeOK, ListOK
<1>3. pc'[c] = "left" /\ \A s \in Strands : s # c => pc'[s] = pc[s]
    BY Constants DEF TypeOK
<1>4. Kids \subseteq Nat
    BY Constants
<1>5. \A i \in 1..Len(kids) : i # At(c) => kids[i] # c
    BY <1>1, <1>2, <1>4
<1>6. \A i, j \in 1..Len(kids') : i < j => kids'[i] < kids'[j]
    <2> SUFFICES ASSUME NEW i \in 1..Len(kids'), NEW j \in 1..Len(kids'), i < j
                 PROVE  kids'[i] < kids'[j]
        OBVIOUS
    <2>1. i \in 1..Len(kids) /\ i + 1 \in 1..Len(kids) /\ j \in 1..Len(kids) /\ j + 1 \in 1..Len(kids)
        BY <1>1, <1>2
    <2> QED
        BY <2>1, <1>1, <1>2
<1>7. \A i \in 1..Len(kids') : pc'[kids'[i]] \in Linked
    <2> SUFFICES ASSUME NEW i \in 1..Len(kids') PROVE pc'[kids'[i]] \in Linked
        OBVIOUS
    <2>1. i \in 1..Len(kids) /\ i + 1 \in 1..Len(kids) /\ i # i + 1
        BY <1>1, <1>2
    <2>2. PICK j \in 1..Len(kids) : j # At(c) /\ kids'[i] = kids[j]
        BY <2>1, <1>1
    <2> QED
        BY <2>2, <1>2, <1>3, <1>5, Constants
<1>8. \A d \in Kids : pc'[d] \in Linked => \E i \in 1..Len(kids') : kids'[i] = d
    <2> SUFFICES ASSUME NEW d \in Kids, pc'[d] \in Linked PROVE \E i \in 1..Len(kids') : kids'[i] = d
        OBVIOUS
    <2>1. d # c /\ pc[d] \in Linked
        BY <1>3, Constants DEF Linked
    <2>2. PICK i \in 1..Len(kids) : kids[i] = d
        BY <2>1 DEF ListOK
    <2>3. CASE i < At(c)
        <3>1. i \in 1..Len(kids')
            BY <2>3, <1>1, <1>2
        <3> QED
            BY <2>2, <2>3, <3>1, <1>1
    <2>4. CASE i > At(c)
        <3>1. i - 1 \in 1..Len(kids') /\ ~(i - 1 < At(c)) /\ (i - 1) + 1 = i
            BY <2>4, <1>1, <1>2
        <3> QED
            BY <2>2, <3>1, <1>1
    <2>5. i # At(c)
        BY <2>1, <2>2, <1>1
    <2> QED
        BY <2>3, <2>4, <2>5, <1>1
<1>9. \A d \in Kids : (pc'[d] = "unborn" <=> d > spawned') /\ pc'[d] # "unwind"
    <2>1. ~(c > spawned)
        BY DEF ListOK, Linked
    <2> QED
        BY <2>1, <1>3, Constants DEF ListOK
<1>10. pc'[Frame] = pc[Frame]
    BY <1>3, Constants
<1> QED
    BY <1>6, <1>7, <1>8, <1>9, <1>10 DEF ListOK

(* The first in the list is the eldest. *)
LEMMA Leftmost ==
    ASSUME TypeOK, ListOK, kids # <<>>
    PROVE  /\ kids[1] \in Kids /\ kids[1] \in Strands /\ pc[kids[1]] \in Linked
           /\ \A c \in Kids : pc[c] \in Linked => kids[1] <= c
<1>1. kids \in Seq(Kids) /\ Len(kids) \in Nat
    BY DEF TypeOK
<1>2. 1 \in 1..Len(kids)
    BY <1>1, EmptySeq
<1>3. kids[1] \in Kids /\ kids[1] \in Strands
    BY <1>1, <1>2, Constants
<1>4. pc[kids[1]] \in Linked
    BY <1>2 DEF ListOK
<1>5. ASSUME NEW c \in Kids, pc[c] \in Linked PROVE kids[1] <= c
    <2>1. PICK i \in 1..Len(kids) : kids[i] = c
        BY <1>5 DEF ListOK
    <2>2. i = 1 \/ 1 < i
        BY <1>1
    <2>3. 1 < i => kids[1] < kids[i]
        BY <1>2 DEF ListOK
    <2> QED
        BY <2>1, <2>2, <2>3, <1>3, Constants
<1> QED
    BY <1>3, <1>4, <1>5

(* Every step keeps the list right. *)
LEMMA ListKept ==
    ASSUME TypeOK, ListOK, [Next]_vars
    PROVE  ListOK'
<1>c. Kids \subseteq Strands /\ Frame \notin Kids /\ Frame \in Strands
    BY Constants
<1>p. pc \in [Strands -> States]
    BY DEF TypeOK
<1>f. pc[Frame] \notin {"unborn", "pending"}
    BY DEF ListOK
<1>1. CASE UNCHANGED <<pc, kids, spawned>>
    BY <1>1, <1>f, ListStays
<1>2. ASSUME NEW s \in Strands, TakeMaps(s) PROVE ListOK'
    BY <1>2, <1>c, <1>p, <1>f, ListStays DEF TakeMaps, Goto, tree, Linked
<1>3. ASSUME NEW s \in Strands, Reduce(s) PROVE ListOK'
    BY <1>3, <1>c, <1>p, <1>f, ListStays DEF Reduce, Goto, tree, Linked
<1>4. ASSUME NEW s \in Strands, Leave(s) PROVE ListOK'
    <2>1. CASE s = Frame
        BY <1>4, <2>1, <1>c, <1>p, <1>f, ListStays DEF Leave, Goto, Unlinked, Linked
    <2>2. CASE s # Frame
        <3>1. s \in Kids /\ pc[s] \in Linked
            BY <1>4, <2>2, Constants DEF Leave, Goto, Linked
        <3> QED
            BY <1>4, <3>1, ListShrinks DEF Leave, Goto
    <2> QED
        BY <2>1, <2>2
<1>5. ASSUME NEW s \in Strands, DropReference(s) PROVE ListOK'
    BY <1>5, <1>c, <1>p, <1>f, ListStays DEF DropReference, Goto
<1>6. ASSUME NEW s \in Strands, ResumeFrame(s) PROVE ListOK'
    <2>1. \A c \in Kids : pc'[c] = pc[c] \/ (pc[c] = "left" /\ pc'[c] = "done")
        BY <1>6, <1>c, <1>p DEF ResumeFrame
    <2>2. pc'[Frame] \in {"run", "unwind"}
        BY <1>6, <1>c, <1>p DEF ResumeFrame
    <2> QED
        BY <1>6, <2>1, <2>2, ListStays DEF ResumeFrame
<1>7. ASSUME NEW c \in Kids, StartPending(c) PROVE ListOK'
    BY <1>7, <1>c, <1>p, <1>f, ListStays DEF StartPending, Goto, tree, Linked
<1>8. ASSUME NEW c \in Kids, End(c) \/ Throw(c) PROVE ListOK'
    BY <1>8, <1>c, <1>p, <1>f, ListStays DEF End, Throw, Goto, tree, Linked
<1>9. CASE Steal
    BY <1>9, ListGrows DEF Steal, Linked
<1>10. CASE SpawnPending
    BY <1>10, ListGrows DEF SpawnPending, Linked
<1>11. CASE Sync \/ ThrowAndSync
    BY <1>11, <1>c, <1>p, <1>f, ListStays DEF Sync, ThrowAndSync, Goto, tree, Linked
<1>12. ASSUME NEW s \in Strands, NEW r \in Reducers, Update(s, r) PROVE ListOK'
    BY <1>1, <1>12 DEF Update, tree
<1>13. CASE UNCHANGED vars
    BY <1>1, <1>13 DEF vars, tree
<1> QED
    BY <1>2, <1>3, <1>4, <1>5, <1>6, <1>7, <1>8, <1>9, <1>10, <1>11, <1>12, <1>13 DEF Next

-----------------------------------------------------------------------------
(* The join counter.                                                       *)
-----------------------------------------------------------------------------
(* Somebody leaves only a frame that is not synched. *)
LEMMA LeaversWait ==
    ASSUME TypeOK, SyncOK, NEW s \in Strands, pc[s] \in {"left", "ended", "reduce", "reduced"}
    PROVE  unsynched
<1>1. CASE s = Frame
    BY <1>1 DEF SyncOK
<1>2. CASE s # Frame
    BY <1>2, Constants DEF SyncOK, TypeOK
<1> QED
    BY <1>1, <1>2

(* Whoever takes the last reference of the frame finds that all the others *)
(* are done and no child is left in the list.                              *)
LEMMA TheLast ==
    ASSUME TypeOK, ListOK, SyncOK, NEW s \in Strands, pc[s] = "left", join = 1
    PROVE  /\ \A t \in Strands : t # s => pc[t] \in {"unborn", "done"}
           /\ kids = <<>> /\ unsynched
           /\ s # Frame => pc[Frame] = "done"
           /\ Alive = {s}
<1>1. s \in Alive /\ IsFiniteSet(Alive) /\ Cardinality(Alive) = 1
    BY DEF SyncOK, Alive
<1>2. PICK x : Alive = {x}
    BY <1>1, FS_Singleton
<1>3. Alive = {s}
    BY <1>1, <1>2
<1>4. \A t \in Strands : t # s => pc[t] \in {"unborn", "done"}
    BY <1>3 DEF Alive
<1>5. kids = <<>>
    <2> SUFFICES ASSUME kids # <<>> PROVE FALSE
        OBVIOUS
    <2>2. kids[1] \in Strands /\ pc[kids[1]] \in Linked
        BY Leftmost
    <2> QED
        BY <2>2, <1>4 DEF Linked
<1>6. s # Frame => pc[Frame] = "done"
    BY <1>4, Constants DEF ListOK
<1> QED
    BY <1>3, <1>4, <1>5, <1>6, LeaversWait

(* As many strands are under way as before. *)
LEMMA SyncStays ==
    ASSUME TypeOK, SyncOK, join' = join, unsynched' = unsynched,
           kids' = kids \/ unsynched,
           \A s \in Strands : pc'[s] \in {"unborn", "done"} <=> pc[s] \in {"unborn", "done"},
           \A c \in Kids : pc[c] \in {"unborn", "done"} => pc'[c] = pc[c],
           pc'[Frame] = pc[Frame] \/ (unsynched /\ pc'[Frame] # "unwind")
    PROVE  SyncOK'
<1>1. Alive' = Alive
    BY DEF Alive
<1> QED
    BY <1>1 DEF SyncOK

(* One more strand is under way. *)
LEMMA SyncGrows ==
    ASSUME TypeOK, ListOK, SyncOK, spawned < MaxKids, pc[Frame] = "run",
           join' = join + 1, unsynched' = TRUE, NEW k \in Linked,
           pc' = [pc EXCEPT ![spawned + 1] = k]
    PROVE  SyncOK'
<1> DEFINE c == spawned + 1
<1>1. c \in Kids /\ c > spawned /\ c \in Strands /\ c # Frame
    BY Constants DEF TypeOK
<1> HIDE DEF c
<1>2. pc[c] = "unborn"
    BY <1>1 DEF ListOK
<1>3. pc'[c] = k /\ \A s \in Strands : s # c => pc'[s] = pc[s]
    BY <1>1 DEF TypeOK, c
<1>4. Alive' = Alive \cup {c} /\ c \notin Alive
    BY <1>1, <1>2, <1>3 DEF Alive, Linked
<1>5. IsFiniteSet(Alive') /\ Cardinality(Alive') = Cardinality(Alive) + 1
    BY <1>4, FS_AddElement DEF SyncOK
<1>6. pc'[Frame] = "run"
    BY <1>1, <1>3, Constants
<1> QED
    BY <1>5, <1>6 DEF SyncOK

(* Every step keeps the count. *)
LEMMA SyncKept ==
    ASSUME TypeOK, ListOK, SyncOK, [Next]_vars
    PROVE  SyncOK'
<1>c. Kids \subseteq Strands /\ Frame \notin Kids /\ Frame \in Strands
    BY Constants
<1>p. pc \in [Strands -> States]
    BY DEF TypeOK
<1>1. CASE UNCHANGED <<pc, kids, join, unsynched>>
    BY <1>1, SyncStays
<1>2. ASSUME NEW s \in Strands, TakeMaps(s) PROVE SyncOK'
    <2>1. unsynched
        BY <1>2, LeaversWait DEF TakeMaps, Goto
    <2> QED
        BY <1>2, <2>1, <1>c, <1>p, SyncStays DEF TakeMaps, Goto, tree
<1>3. ASSUME NEW s \in Strands, Reduce(s) PROVE SyncOK'
    <2>1. unsynched
        BY <1>3, LeaversWait DEF Reduce, Goto
    <2> QED
        BY <1>3, <2>1, <1>c, <1>p, SyncStays DEF Reduce, Goto, tree
<1>4. ASSUME NEW s \in Strands, Leave(s) PROVE SyncOK'
    <2>1. unsynched
        BY <1>4, LeaversWait DEF Leave, Goto
    <2> QED
        BY <1>4, <2>1, <1>c, <1>p, SyncStays DEF Leave, Goto
<1>5. ASSUME NEW s \in Strands, DropReference(s) PROVE SyncOK'
    <2>1. unsynched
        BY <1>5, LeaversWait DEF DropReference, Goto
    <2>2. pc[s] = "left" /\ pc' = [pc EXCEPT ![s] = "done"] /\ join' = join - 1 /\ unsynched' = unsynched
        BY <1>5 DEF DropReference, Goto
    <2>3. pc'[s] = "done" /\ \A t \in Strands : t # s => pc'[t] = pc[t]
        BY <2>2, <1>p
    <2>4. Alive' = Alive \ {s} /\ s \in Alive
        BY <2>2, <2>3 DEF Alive
    <2>5. IsFiniteSet(Alive') /\ Cardinality(Alive') = Cardinality(Alive) - 1
        BY <2>4, FS_RemoveElement DEF SyncOK
    <2>6. pc'[Frame] # "unwind"
        BY <2>1, <2>3, <1>c DEF SyncOK
    <2> QED
        BY <2>1, <2>2, <2>5, <2>6 DEF SyncOK
<1>6. ASSUME NEW s \in Strands, ResumeFrame(s) PROVE SyncOK'
    <2>1. pc[s] = "left" /\ join = 1
        BY <1>6 DEF ResumeFrame
    <2>2. kids = <<>> /\ \A t \in Strands : t # s => pc[t] \in {"unborn", "done"}
        BY <2>1, TheLast
    <2>3. pc'[Frame] \in {"run", "unwind"}
        BY <1>6, <1>c, <1>p DEF ResumeFrame
    <2>4. \A c \in Kids : pc'[c] \in {"unborn", "done"}
        BY <1>6, <2>2, <1>c, <1>p DEF ResumeFrame
    <2>5. \A t \in Strands : t # Frame => t \in Kids
        BY Constants
    <2>6. Alive' = {Frame}
        BY <2>3, <2>4, <2>5, <1>c DEF Alive
    <2>7. IsFiniteSet(Alive') /\ Cardinality(Alive') = 1
        BY <2>6, FS_Singleton
    <2> QED
        BY <1>6, <2>2, <2>3, <2>4, <2>7, <2>1 DEF ResumeFrame, SyncOK
<1>7. ASSUME NEW c \in Kids, StartPending(c) PROVE SyncOK'
    <2>1. pc[c] = "pending" /\ pc'[c] = "run" /\ \A s \in Strands : s # c => pc'[s] = pc[s]
        BY <1>7, <1>c, <1>p DEF StartPending, Goto
    <2> QED
        BY <1>7, <2>1, <1>c, SyncStays DEF StartPending, tree
<1>8. ASSUME NEW c \in Kids, End(c) \/ Throw(c) PROVE SyncOK'
    <2>1. pc[c] = "run" /\ pc'[c] = "ended" /\ \A s \in Strands : s # c => pc'[s] = pc[s]
        BY <1>8, <1>c, <1>p DEF End, Throw, Goto
    <2> QED
        BY <1>8, <2>1, <1>c, SyncStays DEF End, Throw, tree
<1>9. CASE Steal
    BY <1>9, SyncGrows DEF Steal, Linked
<1>10. CASE SpawnPending
    BY <1>10, SyncGrows DEF SpawnPending, Linked
<1>11. CASE Sync \/ ThrowAndSync
    <2>1. /\ pc[Frame] = "run" /\ pc'[Frame] = "ended" /\ unsynched
          /\ \A s \in Strands : s # Frame => pc'[s] = pc[s]
        BY <1>11, <1>c, <1>p DEF Sync, ThrowAndSync, Goto
    <2> QED
        BY <1>11, <2>1, <1>c, SyncStays DEF Sync, ThrowAndSync, tree
<1>12. ASSUME NEW s \in Strands, NEW r \in Reducers, Update(s, r) PROVE SyncOK'
    BY <1>1, <1>12 DEF Update, tree
<1>13. CASE UNCHANGED vars
    BY <1>1, <1>13 DEF vars, tree
<1> QED
    BY <1>2, <1>3, <1>4, <1>5, <1>6, <1>7, <1>8, <1>9, <1>10, <1>11, <1>12, <1>13 DEF Next

-----------------------------------------------------------------------------
(* The fibers.                                                             *)
-----------------------------------------------------------------------------
(* The numbers of the fibers so far, and the next ones. *)
LEMMA Numbering ==
    ASSUME TypeOK, ListOK
    PROVE  /\ 0 \in Numbers /\ NoFiber \notin Numbers
           /\ spawned < MaxKids => spawned + 1 \notin Numbers
           /\ \A c \in Kids : ~Started(c) => MaxKids + c \notin Numbers
BY Constants DEF Numbers, TypeOK

(* A number that was used once stays used. *)
LEMMA NumbersGrow ==
    ASSUME TypeOK, spawned' \in Int, spawned <= spawned',
           \A c \in Kids : pc[c] \notin {"unborn", "pending"} => pc'[c] \notin {"unborn", "pending"}
    PROVE  Numbers \subseteq Numbers'
<1>1. 1..spawned \subseteq 1..(spawned')
    BY DEF TypeOK
<1>2. {d \in Kids : Started(d)} \subseteq {d \in Kids : Started(d)'}
    BY DEF Started
<1>3. {MaxKids + c : c \in {d \in Kids : Started(d)}} \subseteq {MaxKids + c : c \in {d \in Kids : Started(d)'}}
    BY <1>2
<1>4. Numbers' = {0} \cup 1..(spawned') \cup {MaxKids + c : c \in {d \in Kids : Started(d)'}}
    BY DEF Numbers
<1> QED
    BY <1>1, <1>3, <1>4 DEF Numbers

(* All fibers are where they were. *)
LEMMA FibersStay ==
    ASSUME FiberOK, UNCHANGED <<fibers, unsynched>>, Numbers \subseteq Numbers',
           kids' = kids \/ (kids # <<>> => kids' # <<>> /\ kids'[1] = kids[1]),
           \A s \in Strands : pc'[s] \in OnFiber <=> pc[s] \in OnFiber
    PROVE  FiberOK'
<1>1. fiber' = fiber /\ fiber_child' = fiber_child /\ freed' = freed /\ unsynched' = unsynched
    BY DEF fibers
<1> QED
    BY <1>1 DEF FiberOK

(* A stolen parent leaves its fiber to the child and goes on with a new    *)
(* one (scheduler.c make_child).                                           *)
LEMMA FibersStolen ==
    ASSUME TypeOK, ListOK, SyncOK, FiberOK, Steal
    PROVE  FiberOK'
<1> DEFINE c == spawned + 1
<1>1. /\ c \in Kids /\ c \in Strands /\ c # Frame /\ Frame \in Strands /\ c \in Int /\ c > 0
      /\ spawned' = c /\ pc[Frame] = "run"
    BY Constants DEF Steal, TypeOK
<1>2. c \notin Numbers
    BY Numbering DEF Steal
<1>3. pc[c] = "unborn"
    <2>1. c > spawned
        BY DEF TypeOK
    <2> QED
        BY <1>1, <2>1 DEF ListOK
<1>4. /\ pc' = [pc EXCEPT ![c] = "run"]
      /\ fiber' = [fiber EXCEPT ![c] = fiber[Frame], ![Frame] = c]
      /\ kids' = Append(kids, c) /\ unsynched' = TRUE
      /\ fiber_child' = fiber_child /\ freed' = freed
    BY DEF Steal
<1> HIDE DEF c
<1>5. pc'[c] = "run" /\ \A s \in Strands : s # c => pc'[s] = pc[s]
    BY <1>1, <1>4 DEF TypeOK
<1>6. /\ fiber'[c] = fiber[Frame] /\ fiber'[Frame] = c
      /\ \A s \in Strands : s # c /\ s # Frame => fiber'[s] = fiber[s]
    BY <1>1, <1>4 DEF TypeOK
<1>7. Numbers \subseteq Numbers'
    <2>1. spawned \in Int /\ spawned' \in Int /\ spawned <= spawned'
        BY <1>1 DEF TypeOK, c
    <2>2. \A d \in Kids : pc[d] \notin {"unborn", "pending"} => pc'[d] \notin {"unborn", "pending"}
        BY <1>5, Constants
    <2> QED
        BY <2>1, <2>2, NumbersGrow
<1>8. c \in Numbers'
    BY <1>1 DEF Numbers
<1>9. fiber[c] = NoFiber /\ fiber[Frame] # NoFiber /\ c # NoFiber
    BY <1>1, <1>3, Constants DEF FiberOK, OnFiber
<1>10. \A s \in Strands : fiber[s] # c
    BY <1>2, <1>9 DEF FiberOK
<1>11. \A s \in Strands : fiber'[s] # NoFiber <=> pc'[s] \in OnFiber
    BY <1>1, <1>5, <1>6, <1>9 DEF FiberOK, OnFiber
<1>12. \A s, t \in Strands : fiber'[s] = fiber'[t] /\ s # t => fiber'[s] = NoFiber
    BY <1>1, <1>6, <1>9, <1>10 DEF FiberOK
<1>13. c \notin freed
    BY <1>2 DEF FiberOK
<1>14. \A s \in Strands : fiber'[s] \in Numbers' \cup {NoFiber} /\ fiber'[s] \notin freed'
    <2>1. \A s \in Strands : fiber[s] \in Numbers \cup {NoFiber} /\ fiber[s] \notin freed
        BY DEF FiberOK
    <2>2. freed' = freed
        BY <1>4
    <2> QED
        BY <2>1, <2>2, <1>1, <1>6, <1>7, <1>8, <1>13
<1>15. freed' \in SUBSET Numbers' /\ 0 \notin freed' /\ NoFiber \notin freed'
    BY <1>4, <1>7 DEF FiberOK
<1>16. /\ Len(kids) \in Nat /\ kids' # <<>> /\ (kids # <<>> => kids'[1] = kids[1])
       /\ (kids = <<>> => kids'[1] = c)
    BY <1>1, <1>4, EmptySeq DEF TypeOK
<1>17. \/ fiber_child' = 0 /\ \A s \in Strands : fiber'[s] # 0
       \/ fiber_child' = NoFiber /\ kids' # <<>> /\ fiber'[kids'[1]] = 0
    <2>1. CASE ~unsynched
        <3>1. kids = <<>>
            BY <2>1 DEF SyncOK
        <3> QED
            <4>1. fiber[Frame] = 0 /\ fiber_child = NoFiber
                BY <2>1 DEF FiberOK
            <4> QED
                BY <4>1, <3>1, <1>4, <1>6, <1>16
    <2>2. CASE unsynched /\ fiber_child = 0 /\ \A s \in Strands : fiber[s] # 0
        <3>1. c # 0 /\ fiber_child' = fiber_child /\ Frame \in Strands
            BY <1>1, <1>4
        <3> QED
            BY <2>2, <3>1, <1>6
    <2>3. CASE unsynched /\ fiber_child = NoFiber /\ kids # <<>> /\ fiber[kids[1]] = 0
        <3>1. kids[1] \in Strands /\ kids[1] # Frame /\ kids[1] # c
            BY <2>3, <1>3, Leftmost, Constants DEF Linked
        <3> QED
            BY <2>3, <3>1, <1>4, <1>6, <1>16
    <2> QED
        BY <2>1, <2>2, <2>3 DEF FiberOK
<1> QED
    BY <1>4, <1>11, <1>12, <1>14, <1>15, <1>17 DEF FiberOK

(* A task that had to wait starts on a fiber of its own (scheduler.c       *)
(* make_child_from_pending).                                               *)
LEMMA FibersStarted ==
    ASSUME TypeOK, ListOK, SyncOK, FiberOK, NEW c \in Kids, StartPending(c)
    PROVE  FiberOK'
<1> DEFINE f == MaxKids + c
<1>1. /\ c \in Strands /\ f \in Int /\ f > 0 /\ f # NoFiber
      /\ pc[c] = "pending" /\ pc' = [pc EXCEPT ![c] = "run"]
      /\ fiber' = [fiber EXCEPT ![c] = f]
      /\ kids' = kids /\ unsynched' = unsynched /\ spawned' = spawned
      /\ fiber_child' = fiber_child /\ freed' = freed
    BY Constants DEF StartPending, Goto, tree
<1>2. f \notin Numbers
    BY <1>1, Numbering DEF Started
<1>3. pc'[c] = "run" /\ \A s \in Strands : s # c => pc'[s] = pc[s]
    BY <1>1 DEF TypeOK
<1>4. f \in Numbers'
    <2>1. c \in {d \in Kids : Started(d)'}
        BY <1>3 DEF Started
    <2> QED
        BY <2>1 DEF Numbers
<1> HIDE DEF f
<1>5. fiber'[c] = f /\ \A s \in Strands : s # c => fiber'[s] = fiber[s]
    BY <1>1 DEF TypeOK
<1>6. Numbers \subseteq Numbers'
    <2>1. spawned \in Int /\ spawned' \in Int /\ spawned <= spawned'
        BY <1>1 DEF TypeOK
    <2>2. \A d \in Kids : pc[d] \notin {"unborn", "pending"} => pc'[d] \notin {"unborn", "pending"}
        BY <1>3, Constants
    <2> QED
        BY <2>1, <2>2, NumbersGrow
<1>7. fiber[c] = NoFiber
    BY <1>1 DEF FiberOK, OnFiber
<1>8. \A s \in Strands : fiber[s] # f
    BY <1>1, <1>2 DEF FiberOK
<1>9. \A s \in Strands : fiber'[s] # NoFiber <=> pc'[s] \in OnFiber
    BY <1>1, <1>3, <1>5 DEF FiberOK, OnFiber
<1>10. \A s, t \in Strands : fiber'[s] = fiber'[t] /\ s # t => fiber'[s] = NoFiber
    BY <1>5, <1>8 DEF FiberOK
<1>11. \A s \in Strands : fiber'[s] \in Numbers' \cup {NoFiber} /\ fiber'[s] \notin freed'
    <2>1. \A s \in Strands : fiber[s] \in Numbers \cup {NoFiber} /\ fiber[s] \notin freed
        BY DEF FiberOK
    <2>2. f \notin freed /\ freed' = freed
        BY <1>1, <1>2 DEF FiberOK
    <2> QED
        BY <2>1, <2>2, <1>4, <1>5, <1>6
<1>12. freed' \in SUBSET Numbers' /\ 0 \notin freed' /\ NoFiber \notin freed'
    BY <1>1, <1>6 DEF FiberOK
<1>13. ~unsynched' => fiber'[Frame] = 0 /\ fiber_child' = NoFiber
    BY <1>1, <1>5, Constants DEF FiberOK
<1>14. unsynched' => \/ fiber_child' = 0 /\ \A s \in Strands : fiber'[s] # 0
                     \/ fiber_child' = NoFiber /\ kids' # <<>> /\ fiber'[kids'[1]] = 0
    <2>1. CASE unsynched /\ fiber_child = 0 /\ \A s \in Strands : fiber[s] # 0
        BY <2>1, <1>1, <1>5
    <2>2. CASE unsynched /\ fiber_child = NoFiber /\ kids # <<>> /\ fiber[kids[1]] = 0
        <3>1. kids[1] \in Strands
            BY <2>2, Leftmost
        <3>2. kids[1] # c
            BY <2>2, <1>7, Constants
        <3> QED
            BY <2>2, <3>1, <3>2, <1>1, <1>5
    <2> QED
        BY <2>1, <2>2, <1>1 DEF FiberOK
<1> QED
    BY <1>9, <1>10, <1>11, <1>12, <1>13, <1>14 DEF FiberOK

(* A strand that leaves passes the stack of the activation on if it has    *)
(* it, and gives back any other (scheduler.c 4038-4058).                   *)
LEMMA FibersLeft ==
    ASSUME TypeOK, ListOK, SyncOK, FiberOK, NEW s \in Strands, Leave(s)
    PROVE  FiberOK'
<1>1. /\ pc[s] \in {"ended", "reduced"} /\ pc' = [pc EXCEPT ![s] = "left"]
      /\ fiber' = [fiber EXCEPT ![s] = NoFiber] /\ kids' = Unlinked(s)
      /\ unsynched' = unsynched /\ spawned' = spawned
    BY DEF Leave, Goto
<1>2. pc'[s] = "left" /\ \A t \in Strands : t # s => pc'[t] = pc[t]
    BY <1>1 DEF TypeOK
<1>3. fiber'[s] = NoFiber /\ \A t \in Strands : t # s => fiber'[t] = fiber[t]
    BY <1>1 DEF TypeOK
<1>4. unsynched
    BY <1>1, LeaversWait
<1>5. Numbers \subseteq Numbers'
    <2>1. spawned \in Int /\ spawned' \in Int /\ spawned <= spawned'
        BY <1>1 DEF TypeOK
    <2>2. \A d \in Kids : pc[d] \notin {"unborn", "pending"} => pc'[d] \notin {"unborn", "pending"}
        BY <1>2, Constants
    <2> QED
        BY <2>1, <2>2, NumbersGrow
<1>6. fiber[s] # NoFiber /\ fiber[s] \in Numbers /\ fiber[s] \notin freed
    BY <1>1 DEF FiberOK, OnFiber
<1>7. \A t \in Strands : fiber'[t] # NoFiber <=> pc'[t] \in OnFiber
    BY <1>2, <1>3 DEF FiberOK, OnFiber
<1>8. \A t, u \in Strands : fiber'[t] = fiber'[u] /\ t # u => fiber'[t] = NoFiber
    BY <1>3 DEF FiberOK
<1>9. \A t \in Strands : t # s => fiber[t] # fiber[s]
    BY <1>6 DEF FiberOK
<1>10. CASE KeepsFiber(s)
    <2>1. s # Frame /\ kids[1] = s /\ fiber_child = NoFiber /\ fiber_child' = fiber[s] /\ freed' = freed
        BY <1>10 DEF Leave, KeepsFiber, IsLeftmost
    <2>2. fiber[s] = 0
        BY <2>1, <1>4, Constants DEF FiberOK
    <2>3. \A t \in Strands : fiber'[t] # 0
        BY <2>2, <1>3, <1>9, Constants
    <2>4. \A t \in Strands : fiber'[t] \in Numbers' \cup {NoFiber} /\ fiber'[t] \notin freed'
        BY <2>1, <1>3, <1>5 DEF FiberOK
    <2>5. freed' \in SUBSET Numbers' /\ 0 \notin freed' /\ NoFiber \notin freed'
        BY <2>1, <1>5 DEF FiberOK
    <2> QED
        BY <2>1, <2>2, <2>3, <2>4, <2>5, <1>1, <1>4, <1>7, <1>8 DEF FiberOK
<1>11. CASE ~KeepsFiber(s)
    <2>1. fiber_child' = fiber_child /\ freed' = freed \cup {fiber[s]}
        BY <1>11 DEF Leave
    <2>2. \/ fiber_child = 0 /\ \A t \in Strands : fiber[t] # 0
          \/ fiber_child = NoFiber /\ kids # <<>> /\ fiber[kids[1]] = 0 /\ kids[1] # s
        BY <1>4, <1>11, Leftmost, Constants DEF FiberOK, KeepsFiber, IsLeftmost
    <2>3. fiber[s] # 0
        BY <2>2, <1>9, Leftmost
    <2>4. fiber_child = NoFiber /\ kids # <<>> /\ kids[1] # s => kids' # <<>> /\ kids'[1] = kids[1]
        <3>1. CASE s = Frame
            BY <3>1, <1>1 DEF Unlinked
        <3>2. CASE s # Frame
            <4> SUFFICES ASSUME kids # <<>>, kids[1] # s PROVE kids' # <<>> /\ kids'[1] = kids[1]
                OBVIOUS
            <4>1. s \in Kids /\ pc[s] \in Linked
                BY <3>2, <1>1, Constants DEF Linked
            <4>2. /\ kids \in Seq(Kids) /\ kids' \in Seq(Kids) /\ Len(kids') = Len(kids) - 1
                  /\ \A i \in 1..Len(kids') : kids'[i] = IF i < At(s) THEN kids[i] ELSE kids[i + 1]
                BY <4>1, <1>1, Unlinking DEF TypeOK
            <4>3. At(s) \in 1..Len(kids) /\ kids[At(s)] = s /\ Len(kids) \in Nat
                BY <4>1, Found DEF TypeOK
            <4>4. At(s) # 1
                BY <4>3
            <4>5. 1 \in 1..Len(kids') /\ 1 < At(s)
                BY <4>2, <4>3, <4>4
            <4> QED
                BY <4>2, <4>5, EmptySeq
        <3> QED
            BY <3>1, <3>2
    <2>5. \A t \in Strands : fiber'[t] \in Numbers' \cup {NoFiber} /\ fiber'[t] \notin freed'
        BY <2>1, <1>3, <1>5, <1>6, <1>9 DEF FiberOK
    <2>6. freed' \in SUBSET Numbers' /\ 0 \notin freed' /\ NoFiber \notin freed'
        BY <2>1, <2>3, <1>5, <1>6 DEF FiberOK
    <2>7. \/ fiber_child' = 0 /\ \A t \in Strands : fiber'[t] # 0
          \/ fiber_child' = NoFiber /\ kids' # <<>> /\ fiber'[kids'[1]] = 0
        BY <2>1, <2>2, <2>4, <1>3, Leftmost, Constants
    <2> QED
        BY <2>5, <2>6, <2>7, <1>1, <1>4, <1>7, <1>8 DEF FiberOK
<1> QED
    BY <1>10, <1>11

(* The frame is resumed on the stack of its activation (scheduler.c        *)
(* provably_good_steal).                                                   *)
LEMMA FibersResumed ==
    ASSUME TypeOK, ListOK, SyncOK, FiberOK, NEW s \in Strands, ResumeFrame(s)
    PROVE  FiberOK'
<1>1. pc[s] = "left" /\ join = 1
    BY DEF ResumeFrame
<1>2. /\ kids = <<>> /\ unsynched /\ (s # Frame => pc[Frame] = "done")
      /\ \A t \in Strands : t # s => pc[t] \in {"unborn", "done"}
    BY <1>1, TheLast
<1>3. fiber_child = 0
    BY <1>2 DEF FiberOK
<1>4. /\ pc'[Frame] \in {"run", "unwind"}
      /\ \A t \in Strands : t # Frame => pc'[t] \in {"unborn", "done"}
    BY <1>2, Constants DEF ResumeFrame, TypeOK
<1>5. /\ fiber' = [fiber EXCEPT ![Frame] = 0] /\ fiber_child' = NoFiber
      /\ unsynched' = FALSE /\ freed' = freed /\ spawned' = spawned
    BY <1>3 DEF ResumeFrame
<1>6. \A t \in Strands : fiber[t] = NoFiber
    BY <1>1, <1>2 DEF FiberOK, OnFiber
<1>7. fiber'[Frame] = 0 /\ \A t \in Strands : t # Frame => fiber'[t] = NoFiber
    BY <1>5, <1>6, Constants DEF TypeOK
<1>8. \A c \in Kids : pc[c] \notin {"unborn", "pending"} => pc'[c] \notin {"unborn", "pending"}
    BY <1>1, Constants DEF ResumeFrame, TypeOK
<1>9. Numbers \subseteq Numbers' /\ 0 \in Numbers
    BY <1>5, <1>8, Numbering, NumbersGrow DEF TypeOK
<1>10. \A t \in Strands : fiber'[t] # NoFiber <=> pc'[t] \in OnFiber
    BY <1>4, <1>7, Constants DEF OnFiber
<1>11. \A t, u \in Strands : fiber'[t] = fiber'[u] /\ t # u => fiber'[t] = NoFiber
    BY <1>7, Constants
<1>12. \A t \in Strands : fiber'[t] \in Numbers' \cup {NoFiber} /\ fiber'[t] \notin freed'
    BY <1>5, <1>7, <1>9 DEF FiberOK
<1>13. freed' \in SUBSET Numbers' /\ 0 \notin freed' /\ NoFiber \notin freed'
    BY <1>5, <1>9 DEF FiberOK
<1> QED
    BY <1>5, <1>7, <1>10, <1>11, <1>12, <1>13 DEF FiberOK

(* Every step keeps the fibers accounted for. *)
LEMMA FibersKept ==
    ASSUME TypeOK, ListOK, SyncOK, FiberOK, [Next]_vars
    PROVE  FiberOK'
<1>c. Kids \subseteq Strands /\ Frame \notin Kids /\ Frame \in Strands
    BY Constants
<1>p. pc \in [Strands -> States] /\ spawned \in Int
    BY Constants DEF TypeOK
<1>0. ASSUME NEW s \in Strands, NEW k, pc' = [pc EXCEPT ![s] = k],
             k \in OnFiber <=> pc[s] \in OnFiber, k \notin {"unborn", "pending"},
             UNCHANGED <<fibers, kids, unsynched, spawned>>
      PROVE  FiberOK'
    <2>1. pc'[s] = k /\ \A t \in Strands : t # s => pc'[t] = pc[t]
        BY <1>0, <1>p
    <2>2. \A d \in Kids : pc[d] \notin {"unborn", "pending"} => pc'[d] \notin {"unborn", "pending"}
        BY <1>0, <2>1, <1>c
    <2>3. Numbers \subseteq Numbers'
        BY <2>2, <1>0, <1>p, NumbersGrow
    <2>4. \A t \in Strands : pc'[t] \in OnFiber <=> pc[t] \in OnFiber
        BY <1>0, <2>1
    <2> QED
        BY <1>0, <2>3, <2>4, FibersStay
<1>1. CASE UNCHANGED <<pc, fibers, tree>>
    <2>1. Numbers \subseteq Numbers'
        BY <1>1, <1>p, NumbersGrow DEF tree
    <2> QED
        BY <1>1, <2>1, FibersStay DEF tree
<1>2. ASSUME NEW s \in Strands, TakeMaps(s) PROVE FiberOK'
    BY <1>0, <1>2 DEF TakeMaps, Goto, tree, OnFiber
<1>3. ASSUME NEW s \in Strands, Reduce(s) PROVE FiberOK'
    BY <1>0, <1>3 DEF Reduce, Goto, tree, OnFiber
<1>4. ASSUME NEW s \in Strands, DropReference(s) PROVE FiberOK'
    BY <1>0, <1>4 DEF DropReference, Goto, OnFiber
<1>5. ASSUME NEW c \in Kids, End(c) \/ Throw(c) PROVE FiberOK'
    BY <1>0, <1>5, <1>c DEF End, Throw, Goto, tree, OnFiber
<1>6. CASE Sync \/ ThrowAndSync
    BY <1>0, <1>6, <1>c DEF Sync, ThrowAndSync, Goto, tree, OnFiber
<1>7. CASE SpawnPending
    <2> DEFINE c == spawned + 1
    <2>1. /\ c \in Kids /\ pc' = [pc EXCEPT ![c] = "pending"] /\ kids' = Append(kids, c)
          /\ spawned' = c /\ unsynched' = TRUE /\ UNCHANGED fibers
        BY <1>7, Constants DEF SpawnPending, TypeOK
    <2>2. spawned < c
        BY <1>p
    <2> HIDE DEF c
    <2>3. pc[c] = "unborn"
        BY <2>1, <2>2 DEF ListOK
    <2>4. pc'[c] = "pending" /\ \A t \in Strands : t # c => pc'[t] = pc[t]
        BY <2>1, <1>p, <1>c
    <2>5. kids # <<>>
        BY <1>7 DEF SpawnPending, ToSet
    <2>6. kids' # <<>> /\ kids'[1] = kids[1]
        <3>1. kids \in Seq(Kids) /\ Len(kids) \in Nat
            BY DEF TypeOK
        <3>2. Len(kids) # 0
            BY <3>1, <2>5, EmptySeq
        <3> QED
            BY <3>1, <3>2, <2>1
    <2>7. unsynched' = unsynched
        BY <2>1, <2>5 DEF SyncOK, TypeOK
    <2>8. \A d \in Kids : pc[d] \notin {"unborn", "pending"} => pc'[d] \notin {"unborn", "pending"}
        BY <2>3, <2>4, <1>c
    <2>9. Numbers \subseteq Numbers'
        <3>1. spawned' \in Int /\ spawned <= spawned'
            BY <2>1, <2>2, <1>p, Constants
        <3> QED
            BY <3>1, <2>8, NumbersGrow
    <2>10. \A t \in Strands : pc'[t] \in OnFiber <=> pc[t] \in OnFiber
        BY <2>3, <2>4 DEF OnFiber
    <2> QED
        BY <2>1, <2>6, <2>7, <2>9, <2>10, FibersStay
<1>8. ASSUME NEW s \in Strands, NEW r \in Reducers, Update(s, r) PROVE FiberOK'
    BY <1>1, <1>8 DEF Update
<1>9. CASE UNCHANGED vars
    BY <1>1, <1>9 DEF vars
<1> QED
    BY <1>2, <1>3, <1>4, <1>5, <1>6, <1>7, <1>8, <1>9,
       FibersStolen, FibersStarted, FibersLeft, FibersResumed DEF Next

(* With all of the fibers accounted for none is leaked or given back twice. *)
LEMMA FibersAreBack ==
    ASSUME TypeOK, SyncOK, FiberOK
    PROVE  FibersComeBack
<1>1. ~unsynched => fiber[Frame] = 0 /\ Used = {0}
    <2> SUFFICES ASSUME ~unsynched PROVE fiber[Frame] = 0 /\ Used = {0}
        OBVIOUS
    <2>1. fiber[Frame] = 0 /\ fiber_child = NoFiber
        BY DEF FiberOK
    <2>2. \A s \in Strands : s # Frame => fiber[s] = NoFiber
        BY Constants DEF SyncOK, FiberOK, OnFiber
    <2> QED
        BY <2>1, <2>2, Constants DEF Used
<1>2. 0 \notin freed /\ \A s \in Strands : fiber[s] \notin freed
    BY DEF FiberOK
<1>3. fiber_child \in {0, NoFiber}
    BY DEF FiberOK
<1>4. freed \cap Used = {}
    BY <1>2, <1>3 DEF Used
<1> QED
    BY <1>1, <1>2, <1>4 DEF FibersComeBack, FiberOK

-----------------------------------------------------------------------------
(* The exceptions.                                                         *)
-----------------------------------------------------------------------------
(* The numbers of strands and of positions. *)
LEMMA Positions ==
    ASSUME TypeOK
    PROVE  /\ spawned \in Nat /\ \A s \in Strands : s \in Nat /\ exc[s] \in Int /\ slot_exc[s] \in Int
           /\ \A s \in Strands : s <= MaxKids /\ (s = Frame \/ s >= 1)
           /\ \A s \in Strands : Position(s) \in Int /\ Position(s) < None
           /\ Position(Frame) = 2 * spawned /\ \A c \in Kids : Position(c) = 2 * c - 1
BY Constants DEF TypeOK, Position

(* Nobody throws, and nothing that is pending moves: a strand that is      *)
(* past throwing does not come back to it.                                 *)
LEMMA ExcStays ==
    ASSUME TypeOK, ExcOK, UNCHANGED exceptions, spawned' = spawned,
           \A s \in Strands : exc[s] # None => pc'[s] = pc[s],
           \A s \in Strands : s # Frame /\ pc[s] \in Linked /\ slot_exc[s] # None => pc'[s] \in Linked,
           \A c \in Kids : pc'[c] \in Early => pc[c] \in Early,
           pc'[Frame] \in {"run", "ended"} => pc[Frame] \in {"run", "ended"},
           pc'[Frame] = "unwind" => pc[Frame] = "unwind"
    PROVE  ExcOK'
<1>1. exc' = exc /\ slot_exc' = slot_exc /\ thrown' = thrown
    BY DEF exceptions
<1>2. \A s \in Strands : Position(s)' = Position(s)
    BY DEF Position
<1>3. OwnOK'
    BY <1>1, <1>2 DEF ExcOK, OwnOK
<1>4. LeftOK'
    BY <1>1 DEF ExcOK, LeftOK
<1>5. LaterOK' /\ OrderOK' /\ ThrownOK'
    BY <1>1 DEF ExcOK, LaterOK, OrderOK, ThrownOK
<1>6. FrameOK' /\ UnwindOK'
    BY <1>1 DEF ExcOK, FrameOK, UnwindOK
<1> QED
    BY <1>3, <1>4, <1>5, <1>6 DEF ExcOK

(* A child more may be spawned. *)
LEMMA ExcGrows ==
    ASSUME TypeOK, ListOK, ExcOK, UNCHANGED exceptions, spawned < MaxKids, spawned' = spawned + 1,
           pc[Frame] = "run", NEW k \in Linked \cap Early, pc' = [pc EXCEPT ![spawned + 1] = k]
    PROVE  ExcOK'
<1> DEFINE c == spawned + 1
<1>1. c \in Kids /\ c > spawned /\ c \in Strands /\ c # Frame /\ Frame \in Strands /\ Frame \notin Kids
      /\ spawned \in Nat
    BY Constants DEF TypeOK
<1>2. pc[c] = "unborn"
    <2> HIDE DEF c
    <2> QED
        BY <1>1 DEF ListOK
<1>3. pc'[c] = k /\ \A s \in Strands : s # c => pc'[s] = pc[s]
    BY <1>1 DEF TypeOK
<1>4. exc' = exc /\ slot_exc' = slot_exc /\ thrown' = thrown
    BY DEF exceptions
<1>5. spawned' = c
    OBVIOUS
<1> HIDE DEF c
<1>6. OwnOK'
    <2> SUFFICES ASSUME NEW s \in Strands, exc[s] # None
                 PROVE  exc[s] \in thrown /\ ((pc'[s] = "ended" /\ exc[s] = Position(s)') \/ pc'[s] = "unwind")
        BY <1>4 DEF OwnOK
    <2>1. exc[s] \in thrown /\ ((pc[s] = "ended" /\ exc[s] = Position(s)) \/ pc[s] = "unwind")
        BY DEF ExcOK, OwnOK
    <2>2. s # Frame /\ s # c
        BY <2>1, <1>2
    <2> QED
        BY <2>1, <2>2, <1>3 DEF Position
<1>7. LeftOK'
    <2> SUFFICES ASSUME NEW s \in Strands, slot_exc[s] # None
                 PROVE  slot_exc[s] \in thrown /\ (s = Frame \/ (pc'[s] \in Linked /\ slot_exc[s] > 2 * s - 1))
        BY <1>4 DEF LeftOK
    <2> QED
        BY <1>3 DEF ExcOK, LeftOK
<1>8. LaterOK'
    <2>1. \A d \in Kids : pc'[d] \in Early => pc[d] \in Early
        BY <1>1, <1>2, <1>3, Constants DEF Early
    <2> QED
        BY <2>1, <1>4 DEF ExcOK, LaterOK
<1>9. OrderOK' /\ ThrownOK'
    BY <1>4 DEF ExcOK, OrderOK, ThrownOK
<1>10. FrameOK'
    <2>1. \A s \in Strands : slot_exc[s] # None => slot_exc[s] < 2 * spawned
        BY DEF ExcOK, FrameOK
    <2> QED
        BY <2>1, <1>1, <1>4, <1>5, Positions DEF FrameOK, c
<1>11. UnwindOK'
    BY <1>1, <1>3 DEF UnwindOK
<1> QED
    BY <1>6, <1>7, <1>8, <1>9, <1>10, <1>11 DEF ExcOK

(* A strand throws: its exception is its own until it leaves.              *)
LEMMA ExcThrown ==
    ASSUME TypeOK, ListOK, ExcOK, NEW s \in Strands, pc[s] = "run",
           pc' = [pc EXCEPT ![s] = "ended"], exc' = [exc EXCEPT ![s] = Position(s)],
           thrown' = thrown \cup {Position(s)}, slot_exc' = slot_exc, spawned' = spawned
    PROVE  ExcOK'
<1>1. pc'[s] = "ended" /\ \A t \in Strands : t # s => pc'[t] = pc[t]
    BY DEF TypeOK
<1>2. exc'[s] = Position(s) /\ \A t \in Strands : t # s => exc'[t] = exc[t]
    BY DEF TypeOK
<1>3. \A t \in Strands : Position(t)' = Position(t)
    BY DEF Position
<1>4. Position(s) < None /\ Position(s) \in Int /\ Position(s) # None
    BY Positions, Constants
<1>c. Kids \subseteq Strands /\ Frame \in Strands
    BY Constants
<1>5. OwnOK'
    BY <1>1, <1>2, <1>3 DEF ExcOK, OwnOK
<1>6. LeftOK'
    <2> SUFFICES ASSUME NEW t \in Strands, slot_exc[t] # None
                 PROVE  slot_exc[t] \in thrown' /\ (t = Frame \/ (pc'[t] \in Linked /\ slot_exc[t] > 2 * t - 1))
        BY DEF LeftOK
    <2> QED
        BY <1>1 DEF ExcOK, LeftOK, Linked
<1>7. LaterOK'
    BY <1>1, <1>c DEF ExcOK, LaterOK, Early
<1>8. OrderOK'
    BY DEF ExcOK, OrderOK
<1>9. FrameOK' /\ UnwindOK'
    BY <1>1, <1>c DEF ExcOK, FrameOK, UnwindOK
<1>10. ThrownOK'
    <2> SUFFICES ASSUME NEW e \in thrown'
                 PROVE  e < None /\ \E t \in Strands : \/ exc'[t] # None /\ exc'[t] <= e
                                                       \/ slot_exc[t] # None /\ slot_exc[t] <= e
        BY DEF ThrownOK
    <2>1. CASE e = Position(s)
        BY <2>1, <1>2, <1>4
    <2>2. CASE e \in thrown
        <3>1. e < None
            BY <2>2 DEF ExcOK, ThrownOK
        <3>2. PICK t \in Strands : (exc[t] # None /\ exc[t] <= e) \/ (slot_exc[t] # None /\ slot_exc[t] <= e)
            BY <2>2 DEF ExcOK, ThrownOK
        <3>3. exc[s] = None
            BY DEF ExcOK, OwnOK
        <3> QED
            BY <3>1, <3>2, <3>3, <1>2
    <2> QED
        BY <2>1, <2>2
<1> QED
    BY <1>5, <1>6, <1>7, <1>8, <1>9, <1>10 DEF ExcOK

(* The exceptions that meet when a strand leaves, or looks, are merged to  *)
(* its left (scheduler.c splice_exceptions_for_spawn): the earliest of     *)
(* them survives, and is still later than all that is further left.        *)
LEMMA ExcSpliced ==
    ASSUME TypeOK, ListOK, SyncOK, ExcOK, NEW s \in Strands, pc[s] \in {"ended", "reduced"},
           NEW k \in {"reduce", "left"}, pc' = [pc EXCEPT ![s] = k],
           SpliceExceptions(s), thrown' = thrown, spawned' = spawned
    PROVE  ExcOK'
<1> DEFINE L == LeftOf(s)
           new == slot_exc'[L]
<1>1. pc'[s] = k /\ \A t \in Strands : t # s => pc'[t] = pc[t]
    BY DEF TypeOK
<1>2. s = Frame \/ (s \in Kids /\ pc[s] \in Linked)
    BY Constants DEF Linked
<1>c. Kids \subseteq Strands /\ Frame \in Strands /\ Frame = 0 /\ Frame \notin Kids /\ Kids \subseteq Nat
    BY Constants
<1>3. /\ L \in Strands
      /\ L # Frame => L \in Kids /\ pc[L] \in Linked
      /\ s # Frame => L < s
      /\ \A c \in Kids : c > L /\ pc[c] \in Linked /\ c # s => s # Frame /\ c > s
    BY <1>2, ToTheLeft DEF TypeOK
<1>4. /\ exc' = [exc EXCEPT ![s] = None]
      /\ new = IF slot_exc[L] # None THEN slot_exc[L]
               ELSE IF exc[s] # None THEN exc[s] ELSE OwnException(s)
      /\ \A t \in Strands : t # L => slot_exc'[t] = IF t = s /\ s # Frame THEN None ELSE slot_exc[t]
    BY <1>2, SplicedExceptions
<1> HIDE DEF L
<1>5. exc'[s] = None /\ \A t \in Strands : t # s => exc'[t] = exc[t]
    BY <1>4 DEF TypeOK
<1>6. /\ spawned \in Nat /\ None \in Nat
      /\ \A t \in Strands : t \in Nat /\ exc[t] \in Int /\ slot_exc[t] \in Int
      /\ Position(Frame) = 2 * spawned /\ \A c \in Kids : Position(c) = 2 * c - 1
    BY Positions, Constants
<1>7. \A t \in Strands : Position(t)' = Position(t)
    BY DEF Position
<1>8. exc[s] # None => exc[s] \in thrown /\ pc[s] = "ended" /\ exc[s] = Position(s)
    BY DEF ExcOK, OwnOK
<1>9. new # None => \/ new = slot_exc[L] /\ slot_exc[L] # None
                    \/ new = exc[s] /\ exc[s] # None /\ slot_exc[L] = None
                    \/ /\ new = slot_exc[s] /\ slot_exc[s] # None /\ s \in Kids
                       /\ slot_exc[L] = None /\ exc[s] = None
    BY <1>2, <1>4 DEF OwnException
<1> HIDE DEF new
<1>10. \A t \in Strands : t # L /\ slot_exc'[t] # None =>
         slot_exc'[t] = slot_exc[t] /\ (t = s => t = Frame)
    BY <1>4
<1>11. \A c \in Kids : pc[c] # "unborn" => c <= spawned
    <2>1. \A c \in Kids : pc[c] # "unborn" => ~(c > spawned)
        BY DEF ListOK
    <2> QED
        BY <2>1, <1>6, <1>c
<1>12. OwnOK'
    BY <1>1, <1>5, <1>7 DEF ExcOK, OwnOK
<1>13. LeftOK'
    <2> SUFFICES ASSUME NEW t \in Strands, slot_exc'[t] # None
                 PROVE  slot_exc'[t] \in thrown /\ (t = Frame \/ (pc'[t] \in Linked /\ slot_exc'[t] > 2 * t - 1))
        BY DEF LeftOK
    <2>1. CASE t # L
        BY <2>1, <1>1, <1>10 DEF ExcOK, LeftOK
    <2>2. CASE t = L
        <3>1. new # None /\ slot_exc'[t] = new
            BY <2>2 DEF new
        <3>2. slot_exc'[t] \in thrown
            BY <3>1, <1>3, <1>8, <1>9 DEF ExcOK, LeftOK
        <3>3. ASSUME t # Frame PROVE pc'[t] \in Linked
            <4>1. t # s /\ pc[t] \in Linked
                BY <3>3, <2>2, <1>2, <1>3, <1>6
            <4> QED
                BY <4>1, <1>1
        <3>4. ASSUME t # Frame PROVE new > 2 * t - 1
            <4>1. t \in Kids /\ pc[t] \in Linked /\ t \in Nat
                BY <3>4, <2>2, <1>3, <1>c
            <4>2. CASE new = slot_exc[L] /\ slot_exc[L] # None
                BY <4>2, <3>4, <2>2 DEF ExcOK, LeftOK
            <4>3. CASE new = exc[s] /\ exc[s] # None
                <5>1. CASE s = Frame
                    <6>1. new = 2 * spawned /\ t <= spawned
                        BY <4>1, <4>3, <5>1, <1>6, <1>8, <1>11 DEF Linked
                    <6> QED
                        BY <6>1, <4>1, <1>6
                <5>2. CASE s # Frame
                    <6>1. new = 2 * s - 1 /\ t < s /\ s \in Nat
                        BY <4>3, <5>2, <2>2, <1>2, <1>3, <1>6, <1>8
                    <6> QED
                        BY <6>1, <4>1
                <5> QED
                    BY <5>1, <5>2
            <4>4. CASE new = slot_exc[s] /\ slot_exc[s] # None /\ s \in Kids
                <5>1. slot_exc[s] > 2 * s - 1 /\ t < s /\ s \in Nat /\ slot_exc[s] \in Int
                    BY <4>4, <2>2, <1>3, <1>6, <1>c DEF ExcOK, LeftOK
                <5> QED
                    BY <5>1, <4>1, <4>4
            <4> QED
                BY <4>2, <4>3, <4>4, <3>1, <1>9
        <3> QED
            BY <3>1, <3>2, <3>3, <3>4
    <2> QED
        BY <2>1, <2>2
<1>14. LaterOK'
    <2> SUFFICES ASSUME NEW c \in Strands, NEW d \in Kids, c < d, pc'[d] \in Early, slot_exc'[c] # None
                 PROVE  slot_exc'[c] < 2 * d - 1
        BY DEF LaterOK
    <2>1. d # s /\ pc[d] \in Early /\ d \in Nat
        BY <1>1, <1>c DEF Early
    <2>2. CASE c # L
        BY <2>1, <2>2, <1>10 DEF ExcOK, LaterOK
    <2>3. CASE c = L
        <3>1. new # None /\ slot_exc'[c] = new
            BY <2>3 DEF new
        <3>2. CASE new = slot_exc[L] /\ slot_exc[L] # None
            BY <3>1, <3>2, <2>1, <2>3 DEF ExcOK, LaterOK
        <3>3. d > spawned \/ (s # Frame /\ d > s)
            <4>1. CASE pc[d] = "unborn"
                BY <4>1 DEF ListOK
            <4>2. CASE pc[d] # "unborn"
                <5>1. pc[d] \in Linked /\ d > L
                    BY <4>2, <2>1, <2>3, <1>3, <1>6 DEF Early, Linked
                <5> QED
                    BY <5>1, <2>1, <1>3
            <4> QED
                BY <4>1, <4>2
        <3>4. s # Frame => s <= spawned /\ d > s
            <4>1. s # Frame => s \in Kids /\ s <= spawned /\ s \in Nat
                BY <1>2, <1>c, <1>11
            <4> QED
                BY <4>1, <3>3, <2>1, <1>6
        <3>5. CASE new = exc[s] /\ exc[s] # None
            <4>1. CASE s = Frame
                <5>1. new = 2 * spawned /\ d > spawned
                    BY <4>1, <3>3, <3>5, <1>6, <1>8
                <5> QED
                    BY <5>1, <3>1, <2>1, <1>6
            <4>2. CASE s # Frame
                <5>1. new = 2 * s - 1 /\ d > s /\ s \in Nat
                    BY <4>2, <3>4, <3>5, <1>2, <1>6, <1>8
                <5> QED
                    BY <5>1, <3>1, <2>1
            <4> QED
                BY <4>1, <4>2
        <3>6. CASE new = slot_exc[s] /\ slot_exc[s] # None /\ s \in Kids
            <4>1. s < d
                BY <3>4, <3>6, <2>1, <1>c
            <4> QED
                BY <4>1, <3>1, <3>6, <2>1 DEF ExcOK, LaterOK
        <3> QED
            BY <3>1, <3>2, <3>5, <3>6, <1>9
    <2> QED
        BY <2>2, <2>3
<1>15. OrderOK'
    <2> SUFFICES ASSUME NEW c \in Strands, NEW d \in Strands, c < d,
                        slot_exc'[c] # None, slot_exc'[d] # None
                 PROVE  slot_exc'[c] < slot_exc'[d]
        BY DEF OrderOK
    <2>c. c \in Nat /\ d \in Nat /\ d \in Kids /\ d # Frame
        BY <1>6, Constants
    <2>1. CASE c # L /\ d # L
        BY <2>1, <1>10 DEF ExcOK, OrderOK
    <2>2. CASE d = L
        <3>1. new # None /\ slot_exc'[d] = new /\ c # L
            BY <2>2, <2>c DEF new
        <3>2. slot_exc'[c] = slot_exc[c] /\ slot_exc[c] # None
            BY <3>1, <1>10
        <3>3. CASE new = slot_exc[L] /\ slot_exc[L] # None
            BY <3>1, <3>2, <3>3, <2>2 DEF ExcOK, OrderOK
        <3>4. CASE new = exc[s] /\ exc[s] # None
            <4>1. CASE s = Frame
                BY <4>1, <3>1, <3>2, <3>4, <1>6, <1>8 DEF ExcOK, FrameOK
            <4>2. CASE s # Frame
                <5>1. s \in Kids /\ c < s /\ pc[s] \in Early /\ new = 2 * s - 1
                    BY <4>2, <3>4, <2>2, <2>c, <1>2, <1>3, <1>6, <1>8 DEF Early
                <5> QED
                    BY <5>1, <3>1, <3>2 DEF ExcOK, LaterOK
            <4> QED
                BY <4>1, <4>2
        <3>5. CASE new = slot_exc[s] /\ slot_exc[s] # None /\ s \in Kids
            <4>1. c < s
                BY <3>5, <2>2, <2>c, <1>3, <1>6, <1>c
            <4> QED
                BY <4>1, <3>1, <3>2, <3>5 DEF ExcOK, OrderOK
        <3> QED
            BY <3>1, <3>3, <3>4, <3>5, <1>9
    <2>3. CASE c = L
        <3>1. new # None /\ slot_exc'[c] = new /\ d # L
            BY <2>3, <2>c DEF new
        <3>2. slot_exc'[d] = slot_exc[d] /\ slot_exc[d] # None /\ d # s
            BY <3>1, <2>c, <1>10
        <3>3. pc[d] \in Linked /\ slot_exc[d] > 2 * d - 1
            BY <3>2, <2>c DEF ExcOK, LeftOK
        <3>4. s # Frame /\ d > s /\ s \in Kids /\ s \in Nat
            BY <3>2, <3>3, <2>3, <2>c, <1>2, <1>3, <1>6
        <3>5. CASE new = slot_exc[L] /\ slot_exc[L] # None
            BY <3>1, <3>2, <3>5, <2>3 DEF ExcOK, OrderOK
        <3>6. CASE new = exc[s] /\ exc[s] # None
            <4>1. new = 2 * s - 1 /\ slot_exc[d] \in Int
                BY <3>4, <3>6, <1>6, <1>8
            <4> QED
                BY <4>1, <3>1, <3>2, <3>3, <3>4, <2>c
        <3>7. CASE new = slot_exc[s] /\ slot_exc[s] # None
            <4>1. s < d
                BY <3>4, <2>c
            <4> QED
                BY <4>1, <3>1, <3>2, <3>7 DEF ExcOK, OrderOK
        <3> QED
            BY <3>1, <3>5, <3>6, <3>7, <1>9
    <2> QED
        BY <2>1, <2>2, <2>3
<1>16. FrameOK'
    <2> SUFFICES ASSUME pc'[Frame] \in {"run", "ended"}, NEW t \in Strands, slot_exc'[t] # None
                 PROVE  slot_exc'[t] < 2 * spawned
        BY DEF FrameOK
    <2>1. s # Frame /\ pc[Frame] \in {"run", "ended"}
        BY <1>1, <1>c
    <2>2. \A u \in Strands : slot_exc[u] # None => slot_exc[u] < 2 * spawned
        BY <2>1 DEF ExcOK, FrameOK
    <2>3. CASE t # L
        BY <2>2, <2>3, <1>10
    <2>4. CASE t = L
        <3>1. new # None /\ slot_exc'[t] = new
            BY <2>4 DEF new
        <3>2. exc[s] # None => exc[s] < 2 * spawned
            <4>1. s \in Kids /\ s <= spawned /\ s \in Nat
                BY <2>1, <1>2, <1>c, <1>11
            <4>2. exc[s] # None => exc[s] = 2 * s - 1
                BY <4>1, <1>6, <1>8
            <4> QED
                BY <4>1, <4>2, <1>6
        <3> QED
            BY <3>1, <3>2, <2>2, <1>3, <1>9
    <2> QED
        BY <2>3, <2>4
<1>17. ThrownOK'
    <2> SUFFICES ASSUME NEW e \in thrown
                 PROVE  e < None /\ \E t \in Strands : \/ exc'[t] # None /\ exc'[t] <= e
                                                       \/ slot_exc'[t] # None /\ slot_exc'[t] <= e
        BY DEF ThrownOK
    <2>0. e < None /\ e \in Int
        BY DEF ExcOK, ThrownOK, TypeOK
    <2>1. PICK t \in Strands : (exc[t] # None /\ exc[t] <= e) \/ (slot_exc[t] # None /\ slot_exc[t] <= e)
        BY DEF ExcOK, ThrownOK
    <2>2. slot_exc'[L] = new
        BY DEF new
    <2>3. CASE slot_exc[t] # None /\ slot_exc[t] <= e /\ t # L /\ (t # s \/ s = Frame)
        <3>1. slot_exc'[t] = slot_exc[t]
            BY <2>3, <1>4
        <3> QED
            BY <3>1, <2>0, <2>3
    <2>4. CASE slot_exc[t] # None /\ slot_exc[t] <= e /\ t = L
        <3>1. new = slot_exc[L]
            BY <2>4, <1>4
        <3> QED
            BY <3>1, <2>0, <2>2, <2>4, <1>3
    <2>5. CASE exc[t] # None /\ exc[t] <= e /\ t # s
        BY <2>0, <2>5, <1>5
    <2>6. CASE exc[t] # None /\ exc[t] <= e /\ t = s
        <3>1. slot_exc[L] # None => slot_exc[L] < exc[s]
            <4>1. CASE s = Frame
                BY <4>1, <2>6, <1>3, <1>6, <1>8 DEF ExcOK, FrameOK
            <4>2. CASE s # Frame
                BY <4>2, <2>6, <1>2, <1>3, <1>6, <1>8 DEF ExcOK, LaterOK, Early
            <4> QED
                BY <4>1, <4>2
        <3>2. new # None /\ new <= exc[s]
            <4>1. CASE slot_exc[L] # None
                BY <4>1, <3>1, <1>3, <1>4, <1>6
            <4>2. CASE slot_exc[L] = None
                BY <4>2, <2>6, <1>4, <1>6
            <4> QED
                BY <4>1, <4>2
        <3>3. new <= e
            BY <3>2, <2>0, <2>6, <1>6, <1>3, <1>9
        <3> QED
            BY <3>2, <3>3, <2>0, <2>2, <1>3
    <2>7. CASE slot_exc[t] # None /\ slot_exc[t] <= e /\ t = s /\ s # Frame
        <3>1. slot_exc[L] # None => slot_exc[L] < slot_exc[s]
            BY <2>7, <1>3 DEF ExcOK, OrderOK
        <3>2. exc[s] # None => exc[s] < slot_exc[s]
            <4>1. slot_exc[s] > 2 * s - 1 /\ s \in Kids /\ s \in Nat
                BY <2>7, <1>2, <1>6 DEF ExcOK, LeftOK
            <4> QED
                BY <4>1, <1>6, <1>8
        <3>3. new # None /\ new <= slot_exc[s]
            <4>1. CASE slot_exc[L] # None
                BY <4>1, <3>1, <1>3, <1>4, <1>6
            <4>2. CASE slot_exc[L] = None
                BY <4>2, <3>2, <2>7, <1>4, <1>6 DEF OwnException
            <4> QED
                BY <4>1, <4>2
        <3>4. new <= e
            BY <3>3, <2>0, <2>7, <1>6, <1>3, <1>9
        <3> QED
            BY <3>3, <3>4, <2>0, <2>2, <1>3
    <2> QED
        BY <2>1, <2>3, <2>4, <2>5, <2>6, <2>7
<1>18. UnwindOK'
    <2>1. unsynched
        BY LeaversWait
    <2>2. pc'[Frame] # "unwind"
        BY <2>1, <1>1, <1>c DEF SyncOK
    <2> QED
        BY <2>2 DEF UnwindOK
<1> QED
    BY <1>12, <1>13, <1>14, <1>15, <1>16, <1>17, <1>18 DEF ExcOK

(* Whoever resumes the frame raises what the strands have left to it, and  *)
(* that is all there was (scheduler.c setup_for_execution_exceptions).     *)
LEMMA ExcResumed ==
    ASSUME TypeOK, ListOK, SyncOK, ExcOK, NEW s \in Strands, ResumeFrame(s)
    PROVE  ExcOK'
<1>c. Kids \subseteq Strands /\ Frame \in Strands /\ \A t \in Strands : t # Frame => t \in Kids
    BY Constants
<1>1. pc[s] = "left" /\ join = 1
    BY DEF ResumeFrame
<1>2. /\ \A t \in Strands : t # s => pc[t] \in {"unborn", "done"}
      /\ s # Frame => pc[Frame] = "done"
    BY <1>1, TheLast
<1>3. \A t \in Strands : exc[t] = None
    BY <1>1, <1>2 DEF ExcOK, OwnOK
<1>4. \A t \in Strands : t # Frame => slot_exc[t] = None
    BY <1>1, <1>2 DEF ExcOK, LeftOK, Linked
<1>5. /\ exc'[Frame] = slot_exc[Frame] /\ \A t \in Strands : t # Frame => exc'[t] = None
      /\ \A t \in Strands : slot_exc'[t] = None
    <2>1. exc' = [exc EXCEPT ![Frame] = MergeExceptions(slot_exc[Frame], exc[Frame])]
        BY DEF ResumeFrame, SetupExceptions
    <2>2. MergeExceptions(slot_exc[Frame], exc[Frame]) = slot_exc[Frame]
        BY <1>3, <1>c DEF MergeExceptions
    <2>3. slot_exc' = [slot_exc EXCEPT ![Frame] = None]
        BY DEF ResumeFrame, SetupExceptions
    <2> QED
        BY <2>1, <2>2, <2>3, <1>3, <1>4, <1>c DEF TypeOK
<1>6. pc'[Frame] = IF slot_exc[Frame] = None THEN "run" ELSE "unwind"
    BY <1>c DEF ResumeFrame, TypeOK
<1>7. thrown' = IF slot_exc[Frame] = None THEN {} ELSE thrown
    BY DEF ResumeFrame
<1>8. slot_exc[Frame] # None => slot_exc[Frame] \in thrown
    BY <1>c DEF ExcOK, LeftOK
<1>9. OwnOK'
    BY <1>5, <1>6, <1>7, <1>8 DEF OwnOK
<1>10. LeftOK' /\ LaterOK' /\ OrderOK' /\ FrameOK' /\ UnwindOK'
    BY <1>5, <1>c DEF LeftOK, LaterOK, OrderOK, FrameOK, UnwindOK
<1>11. ThrownOK'
    <2> SUFFICES ASSUME NEW e \in thrown'
                 PROVE  e < None /\ \E t \in Strands : \/ exc'[t] # None /\ exc'[t] <= e
                                                       \/ slot_exc'[t] # None /\ slot_exc'[t] <= e
        BY DEF ThrownOK
    <2>1. slot_exc[Frame] # None /\ e \in thrown
        BY <1>7
    <2>2. e < None /\ slot_exc[Frame] <= e
        BY <2>1, <1>3, <1>4 DEF ExcOK, ThrownOK
    <2> QED
        BY <2>1, <2>2, <1>5, <1>c
<1> QED
    BY <1>9, <1>10, <1>11 DEF ExcOK

(* Every step keeps the exceptions in order. *)
LEMMA ExcKept ==
    ASSUME TypeOK, ListOK, SyncOK, ExcOK, [Next]_vars
    PROVE  ExcOK'
<1>c. Kids \subseteq Strands /\ Frame \notin Kids /\ Frame \in Strands
    BY Constants
<1>p. pc \in [Strands -> States]
    BY DEF TypeOK
<1>0. ASSUME NEW s \in Strands, NEW k, pc' = [pc EXCEPT ![s] = k],
             \/ pc[s] \in {"pending", "run"} /\ k \in {"run", "ended"}
             \/ pc[s] = "reduce" /\ k = "reduced"
             \/ pc[s] = "left" /\ k = "done",
             UNCHANGED <<exceptions, spawned>>
      PROVE  ExcOK'
    <2>1. pc'[s] = k /\ \A t \in Strands : t # s => pc'[t] = pc[t]
        BY <1>0, <1>p
    <2>2. \A t \in Strands : exc[t] # None => pc'[t] = pc[t]
        BY <2>1, <1>0 DEF ExcOK, OwnOK
    <2>3. \A t \in Strands : t # Frame /\ pc[t] \in Linked /\ slot_exc[t] # None => pc'[t] \in Linked
        BY <2>1, <1>0 DEF Linked
    <2>4. \A c \in Kids : pc'[c] \in Early => pc[c] \in Early
        BY <2>1, <1>0, <1>c DEF Early
    <2>5. /\ pc'[Frame] \in {"run", "ended"} => pc[Frame] \in {"run", "ended"}
          /\ pc'[Frame] = "unwind" => pc[Frame] = "unwind"
        BY <2>1, <1>0, <1>c DEF ListOK
    <2> QED
        BY <1>0, <2>2, <2>3, <2>4, <2>5, ExcStays
<1>1. CASE UNCHANGED <<pc, exceptions, spawned>>
    BY <1>1, ExcStays
<1>2. ASSUME NEW s \in Strands, TakeMaps(s) PROVE ExcOK'
    BY <1>2, ExcSpliced DEF TakeMaps, Goto, tree
<1>3. ASSUME NEW s \in Strands, Reduce(s) PROVE ExcOK'
    BY <1>0, <1>3 DEF Reduce, Goto, tree
<1>4. ASSUME NEW s \in Strands, Leave(s) PROVE ExcOK'
    BY <1>4, ExcSpliced DEF Leave, Goto
<1>5. ASSUME NEW s \in Strands, DropReference(s) PROVE ExcOK'
    BY <1>0, <1>5 DEF DropReference, Goto
<1>6. ASSUME NEW c \in Kids, StartPending(c) \/ End(c) PROVE ExcOK'
    BY <1>0, <1>6, <1>c DEF StartPending, End, Goto, tree
<1>7. ASSUME NEW c \in Kids, Throw(c) PROVE ExcOK'
    BY <1>7, <1>c, ExcThrown DEF Throw, Goto, tree
<1>8. CASE Sync
    BY <1>0, <1>8, <1>c DEF Sync, Goto, tree
<1>9. CASE ThrowAndSync
    BY <1>9, <1>c, ExcThrown DEF ThrowAndSync, Goto, tree
<1>10. CASE Steal
    BY <1>10, ExcGrows DEF Steal, Linked, Early
<1>11. CASE SpawnPending
    BY <1>11, ExcGrows DEF SpawnPending, Linked, Early
<1>12. ASSUME NEW s \in Strands, NEW r \in Reducers, Update(s, r) PROVE ExcOK'
    BY <1>1, <1>12 DEF Update, tree
<1>13. CASE UNCHANGED vars
    BY <1>1, <1>13 DEF vars, tree
<1> QED
    BY <1>2, <1>3, <1>4, <1>5, <1>6, <1>7, <1>8, <1>9, <1>10, <1>11, <1>12, <1>13, ExcResumed DEF Next

(* A nonempty set of numbers has a least one. *)
LEMMA Least ==
    ASSUME NEW D \in SUBSET Nat, D # {}
    PROVE  \E n \in D : \A m \in D : n <= m
<1> DEFINE R == OpToRel(<, Nat)
<1>1. IsWellFoundedOn(R, Nat)
    BY NatLessThanWellFounded
<1>2. \A x, y \in Nat : x < y => <<x, y>> \in R
    BY DEF OpToRel
<1> HIDE DEF R
<1>3. PICK n \in D : \A m \in D : ~(<<m, n>> \in R)
    BY <1>1, WFMin
<1>4. ASSUME NEW m \in D PROVE n <= m
    <2>1. m \in Nat /\ n \in Nat
        OBVIOUS
    <2>2. ~(m < n)
        BY <2>1, <1>2, <1>3
    <2> QED
        BY <2>1, <2>2
<1> QED
    BY <1>4

(* What is pending further left was thrown earlier. *)
LEMMA PendingInOrder ==
    ASSUME TypeOK, ListOK, SyncOK, ExcOK, NEW m \in Pending, NEW n \in Pending, m < n
    PROVE  PendingAt(m) < PendingAt(n)
<1>c. /\ MaxKids \in Nat /\ Kids = 1..MaxKids /\ Strands = 0..MaxKids /\ Frame = 0
      /\ Continuation = MaxKids + 1
    BY Constants DEF Continuation
<1>1. /\ m \in 0..Continuation /\ n \in 0..Continuation
      /\ PendingAt(m) # None /\ PendingAt(n) # None
    BY DEF Pending
<1>2. /\ spawned \in Nat /\ \A s \in Strands : s \in Nat /\ exc[s] \in Int /\ slot_exc[s] \in Int
      /\ Position(Frame) = 2 * spawned /\ \A c \in Kids : Position(c) = 2 * c - 1
    BY Positions
<1>3. \A c \in Kids : pc[c] # "unborn" => c <= spawned
    <2>1. \A c \in Kids : pc[c] # "unborn" => ~(c > spawned)
        BY DEF ListOK
    <2> QED
        BY <2>1, <1>2, <1>c
<1>4. ASSUME NEW c \in Kids, exc[c] # None
      PROVE  exc[c] = 2 * c - 1 /\ pc[c] = "ended"
    BY <1>4, <1>2, <1>c DEF ExcOK, OwnOK, ListOK
<1>5. m # Continuation /\ (m = 0 \/ m \in Kids) /\ (n = Continuation \/ n \in Kids)
    BY <1>1, <1>c
<1>6. CASE n \in Kids
    <2>1. (PendingAt(n) = exc[n] /\ exc[n] # None) \/ (PendingAt(n) = slot_exc[n] /\ slot_exc[n] # None)
        <3>1. n # 0 /\ n # Continuation
            BY <1>6, <1>c
        <3>2. PendingAt(n) = IF exc[n] # None THEN exc[n] ELSE slot_exc[n]
            BY <3>1 DEF PendingAt
        <3>3. exc[n] # None => PendingAt(n) = exc[n]
            BY <3>2
        <3>4. exc[n] = None => PendingAt(n) = slot_exc[n]
            BY <3>2
        <3>5. PendingAt(n) # None
            BY <1>1
        <3> QED
            BY <3>3, <3>4, <3>5
    <2>2. ASSUME NEW c \in Strands, c < n, slot_exc[c] # None PROVE slot_exc[c] < PendingAt(n)
        <3>1. CASE PendingAt(n) = exc[n] /\ exc[n] # None
            <4>1. pc[n] \in Early /\ exc[n] = 2 * n - 1
                BY <3>1, <1>4, <1>6 DEF Early
            <4>2. slot_exc[c] < 2 * n - 1
                BY <4>1, <2>2, <1>6 DEF ExcOK, LaterOK
            <4> QED
                BY <3>1, <4>1, <4>2
        <3>2. CASE PendingAt(n) = slot_exc[n] /\ slot_exc[n] # None
            BY <3>2, <2>2, <1>6, Constants DEF ExcOK, OrderOK
        <3> QED
            BY <2>1, <3>1, <3>2
    <2>3. ASSUME NEW c \in Kids, c < n, exc[c] # None PROVE exc[c] < PendingAt(n)
        <3>1. exc[c] = 2 * c - 1 /\ c \in Nat /\ n \in Nat
            BY <2>3, <1>4, <1>6, <1>c
        <3>2. CASE PendingAt(n) = exc[n] /\ exc[n] # None
            BY <3>1, <3>2, <2>3, <1>4, <1>6
        <3>3. CASE PendingAt(n) = slot_exc[n] /\ slot_exc[n] # None
            <4>1. slot_exc[n] > 2 * n - 1 /\ slot_exc[n] \in Int
                BY <3>3, <1>2, <1>6, <1>c DEF ExcOK, LeftOK
            <4> QED
                BY <4>1, <3>1, <3>3, <2>3
        <3> QED
            BY <2>1, <3>2, <3>3
    <2>4. CASE m = 0
        BY <2>2, <2>4, <1>1, <1>c DEF PendingAt
    <2>5. CASE m \in Kids
        BY <2>2, <2>3, <2>5, <1>1, <1>c DEF PendingAt
    <2> QED
        BY <2>4, <2>5, <1>5
<1>7. CASE n = Continuation
    <2>1. PendingAt(n) = exc[Frame] /\ exc[Frame] # None
        BY <1>7, <1>1, <1>c DEF PendingAt
    <2>2. CASE pc[Frame] = "ended" /\ exc[Frame] = Position(Frame)
        <3>1. \A s \in Strands : slot_exc[s] # None => slot_exc[s] < 2 * spawned
            BY <2>2 DEF ExcOK, FrameOK
        <3>2. CASE m = 0
            BY <3>1, <3>2, <2>1, <2>2, <1>1, <1>2, <1>c DEF PendingAt
        <3>3. CASE m \in Kids
            <4>1. exc[m] # None => exc[m] < 2 * spawned
                <5> SUFFICES ASSUME exc[m] # None PROVE exc[m] < 2 * spawned
                    OBVIOUS
                <5>1. exc[m] = 2 * m - 1 /\ m <= spawned /\ m \in Nat
                    BY <3>3, <1>3, <1>4, <1>c
                <5> QED
                    BY <5>1, <1>2
            <4> QED
                BY <4>1, <3>1, <3>3, <2>1, <2>2, <1>1, <1>2, <1>c DEF PendingAt
        <3> QED
            BY <3>2, <3>3, <1>5
    <2>3. CASE pc[Frame] = "unwind"
        <3>1. slot_exc[Frame] = None
            BY <2>3 DEF ExcOK, UnwindOK
        <3>2. \A c \in Kids : pc[c] \in {"unborn", "done"}
            BY <2>3 DEF SyncOK
        <3>3. \A c \in Kids : exc[c] = None
            BY <3>2, <1>4
        <3>4. \A c \in Kids : slot_exc[c] = None
            BY <3>2, <1>c DEF ExcOK, LeftOK, Linked
        <3> QED
            BY <3>1, <3>3, <3>4, <1>1, <1>5, <1>c DEF PendingAt
    <2> QED
        BY <2>1, <2>2, <2>3, <1>c DEF ExcOK, OwnOK
<1> QED
    BY <1>5, <1>6, <1>7

(* The serially first exception is the leftmost. *)
LEMMA FirstSurvives ==
    ASSUME TypeOK, ListOK, SyncOK, ExcOK
    PROVE  FirstExceptionSurvives
<1>c. /\ MaxKids \in Nat /\ Kids = 1..MaxKids /\ Strands = 0..MaxKids /\ Frame = 0
      /\ Continuation = MaxKids + 1 /\ \A s \in Strands : s # Frame => s \in Kids
    BY Constants DEF Continuation
<1>1. \A s \in Strands : exc[s] \in Int /\ slot_exc[s] \in Int
    BY Positions
<1>2. CASE thrown = {}
    <2>1. \A s \in Strands : exc[s] = None /\ slot_exc[s] = None
        BY <1>2 DEF ExcOK, OwnOK, LeftOK
    <2>2. \A n \in 0..Continuation : PendingAt(n) = None
        BY <2>1, <1>c DEF PendingAt
    <2> QED
        BY <2>2, <1>2 DEF FirstExceptionSurvives, Pending
<1>3. CASE thrown # {}
    <2>1. ASSUME NEW e \in thrown
          PROVE  \E m \in Pending : PendingAt(m) <= e
        <3>1. PICK t \in Strands : (exc[t] # None /\ exc[t] <= e) \/ (slot_exc[t] # None /\ slot_exc[t] <= e)
            BY DEF ExcOK, ThrownOK
        <3>e. e \in Int
            BY DEF TypeOK
        <3>2. CASE t = Frame /\ exc[t] # None /\ exc[t] <= e
            <4>1. Continuation \in 0..Continuation /\ PendingAt(Continuation) = exc[t]
                BY <3>2, <1>c DEF PendingAt
            <4> QED
                BY <4>1, <3>2 DEF Pending
        <3>3. CASE t = Frame /\ slot_exc[t] # None /\ slot_exc[t] <= e
            <4>1. 0 \in 0..Continuation /\ PendingAt(0) = slot_exc[t]
                BY <3>3, <1>c DEF PendingAt
            <4> QED
                BY <4>1, <3>3 DEF Pending
        <3>4. CASE t # Frame
            <4>1. t \in Kids /\ t \in 0..Continuation /\ t # 0 /\ t # Continuation
                BY <3>4, <1>c
            <4>2. PendingAt(t) = IF exc[t] # None THEN exc[t] ELSE slot_exc[t]
                BY <4>1 DEF PendingAt
            <4>3. exc[t] # None /\ slot_exc[t] # None => exc[t] <= slot_exc[t]
                <5> SUFFICES ASSUME exc[t] # None, slot_exc[t] # None PROVE exc[t] <= slot_exc[t]
                    OBVIOUS
                <5>1. pc[t] # "unwind"
                    BY <4>1 DEF ListOK
                <5>2. exc[t] = 2 * t - 1
                    BY <5>1, <4>1, Positions DEF ExcOK, OwnOK
                <5>3. slot_exc[t] > 2 * t - 1
                    BY <3>4 DEF ExcOK, LeftOK
                <5> QED
                    BY <5>2, <5>3, <4>1, <1>1, <1>c
            <4>4. PendingAt(t) # None /\ PendingAt(t) <= e
                BY <4>2, <4>3, <3>1, <3>e, <1>1
            <4> QED
                BY <4>1, <4>4 DEF Pending
        <3> QED
            BY <3>1, <3>2, <3>3, <3>4
    <2>2. Pending # {} /\ Pending \in SUBSET Nat
        BY <2>1, <1>3, <1>c DEF Pending
    <2>3. PICK n \in Pending : \A m \in Pending : n <= m
        BY <2>2, Least
    <2>4. \A m \in Pending : PendingAt(m) \in Int
        BY <1>1, <1>c DEF Pending, PendingAt
    <2>5. \A m \in Pending : PendingAt(n) <= PendingAt(m)
        <3> SUFFICES ASSUME NEW m \in Pending PROVE PendingAt(n) <= PendingAt(m)
            OBVIOUS
        <3>1. n = m \/ n < m
            BY <2>2, <2>3
        <3>2. n < m => PendingAt(n) < PendingAt(m)
            BY PendingInOrder
        <3>3. PendingAt(n) \in Int /\ PendingAt(m) \in Int
            BY <2>4
        <3> QED
            BY <3>1, <3>2, <3>3
    <2>6. ASSUME NEW e \in thrown PROVE PendingAt(n) <= e
        <3>1. PICK m \in Pending : PendingAt(m) <= e
            BY <2>1
        <3>2. PendingAt(n) <= PendingAt(m) /\ PendingAt(n) \in Int /\ PendingAt(m) \in Int /\ e \in Int
            BY <2>4, <2>5 DEF TypeOK
        <3> QED
            BY <3>1, <3>2
    <2> QED
        BY <2>3, <2>6, <1>3 DEF FirstExceptionSurvives
<1> QED
    BY <1>2, <1>3

-----------------------------------------------------------------------------
(* The theorems.                                                           *)
-----------------------------------------------------------------------------
(* The invariant holds at first: one strand, nothing left to its left. *)
LEMMA RInvInit == Init => RInv
<1> SUFFICES ASSUME Init PROVE RInv
    OBVIOUS
<1>c. /\ MaxKids \in Nat /\ Frame \in Strands /\ Frame = 0 /\ Kids = 1..MaxKids
      /\ NoFiber = -1 /\ Strands = 0..MaxKids /\ \A s \in Strands : s # Frame => s \in Kids
    BY Constants
<1>1. TypeOK
    BY TypesInit
<1>2. ListOK
    BY <1>c DEF Init, ListOK, Linked
<1>3. SyncOK
    <2>1. Alive = {Frame}
        BY <1>c DEF Init, Alive
    <2>2. IsFiniteSet(Alive) /\ Cardinality(Alive) = 1
        BY <2>1, FS_Singleton
    <2> QED
        BY <2>2, <1>c DEF Init, SyncOK
<1>4. FiberOK
    BY <1>c DEF Init, FiberOK, OnFiber, Numbers, Started
<1>5. ExcOK
    BY <1>c DEF Init, ExcOK, OwnOK, LeftOK, LaterOK, OrderOK, FrameOK, ThrownOK, UnwindOK
<1> QED
    BY <1>1, <1>2, <1>3, <1>4, <1>5 DEF RInv

(* It is inductive. *)
LEMMA RInvKept == RInv /\ [Next]_vars => RInv'
BY TypesKept, ListKept, SyncKept, FibersKept, ExcKept DEF RInv

(* What the strands of a frame leave to their left is well typed, and the  *)
(* list of the children, the join counter, the fibers and the exceptions   *)
(* agree with what the strands are doing.                                  *)
THEOREM Reachable == Spec => []RInv
BY RInvInit, RInvKept, PTL DEF Spec

(* Types: every variable has its type (scheduler.c, reducer_impl.cpp).     *)
THEOREM TypeCorrect == Spec => []TypeOK
<1>1. RInv => TypeOK
    BY DEF RInv
<1> QED
    BY <1>1, Reachable, PTL

(* The stack of the frame's own activation comes back to it at the sync;   *)
(* no other fiber is leaked, given back twice or used after it was given   *)
(* back (scheduler.c:1568, 4038-4058).                                     *)
THEOREM FibersReturn == Spec => []FibersComeBack
<1>1. RInv => FibersComeBack
    BY FibersAreBack DEF RInv
<1> QED
    BY <1>1, Reachable, PTL

(* The serially first exception of those that the strands throw is the one *)
(* that comes out of the sync (scheduler.c:1559, 1684-1696).               *)
THEOREM FirstExceptionWins == Spec => []FirstExceptionSurvives
<1>1. RInv => FirstExceptionSurvives
    BY FirstSurvives DEF RInv
<1> QED
    BY <1>1, Reachable, PTL

-----------------------------------------------------------------------------
(* The views: their invariant.                                             *)
-----------------------------------------------------------------------------
(* Maps are only with strands that can hold one.                           *)
MapsOK ==
    /\ \A s \in Strands : map[s] # NoMap => pc[s] \in {"run", "ended", "reduced", "unwind"}
    /\ \A s \in Strands : taken[s] # Nothing => pc[s] = "reduce"
    /\ \A c \in Kids : slot[c] # NoMap => pc[c] \in Linked
    /\ slot[Frame] # NoMap => unsynched
    /\ \A u \in updated : u[2] \in 0..(2 * spawned)

(* The leftmost map is to the left of all others; the strand that has it   *)
(* is the leftmost child, and if there is none the frame.                  *)
AllMaps == [p \in Places |-> MapAt(p)]
Leading(all, p) ==
    /\ Leads(all[p])
    /\ \A q \in Places : Before(q, p) => all[q] = NoMap
    /\ \A q \in Places : Before(p, q) => ~Leads(all[q])
FarLeft(p) ==
    \/ p[1] = 0
    \/ kids # <<>> /\ p[1] = kids[1] /\ p[2] <= 4
    \/ kids = <<>> /\ p[1] = Continuation
LeftmostOK == \E p \in Places : Leading(AllMaps, p) /\ FarLeft(p)

(* Nothing is lost, and the updates of a child that runs come after all    *)
(* that is to its left and before all that is to its right.  A cell is a   *)
(* place and an index into the view that is there.                         *)
ViewsOf(all, r) == [p \in Places |-> ViewIn(all[p], r)]
Cells(v) == UNION {{<<p, i>> : i \in 1..Len(v[p])} : p \in Places}
Number(v, e) == v[e[1]][e[2]]
Prior(e, f) == Before(e[1], f[1]) \/ (e[1] = f[1] /\ e[2] < f[2])

Complete(v, written) ==
    /\ \A e \in Cells(v) : Number(v, e) \in written
    /\ \A x \in written : \E e \in Cells(v) : Number(v, e) = x
    /\ \A e, f \in Cells(v) : Number(v, e) = Number(v, f) => e = f
Sorted(v) == \A e, f \in Cells(v) : Prior(e, f) => Number(v, e) < Number(v, f)
Upto(p, c) == p[1] < c \/ (p[1] = c /\ p[2] <= 4)
Bounded(v, c) == \A e \in Cells(v) :
    IF Upto(e[1], c) THEN Number(v, e) <= 2 * c - 1 ELSE Number(v, e) > 2 * c - 1

InPlace(all, written, anyhow, running) == \A r \in Reducers :
    /\ Complete(ViewsOf(all, r), written[r])
    /\ anyhow \/ /\ Sorted(ViewsOf(all, r))
                 /\ \A c \in running : Bounded(ViewsOf(all, r), c)
Running == {c \in Kids : pc[c] \in {"pending", "run"}}
AllWritten == [r \in Reducers |-> Written(r)]
ViewsOK == MapsOK /\ LeftmostOK /\ InPlace(AllMaps, AllWritten, mixed, Running)

-----------------------------------------------------------------------------
(* The views: places, cells and their order.                               *)
-----------------------------------------------------------------------------
Seqs == [Places -> Seq(Int)]
Row(s) == IF s = Frame THEN Continuation ELSE s

(* The places are in rows, one for each strand and one for what was left   *)
(* to the frame.                                                           *)
LEMMA Placing ==
    /\ Continuation = MaxKids + 1
    /\ <<0, 5>> \in Places
    /\ \A p \in Places : /\ p = <<p[1], p[2]>> /\ p[1] \in 0..Continuation /\ p[2] \in 1..5
                         /\ p[1] = 0 => p = <<0, 5>>
    /\ \A n \in 1..Continuation, k \in 1..5 : <<n, k>> \in Places
    /\ \A s \in Strands : Row(s) \in 1..Continuation /\ (Row(s) = Continuation <=> s = Frame)
    /\ \A s \in Strands : s # Frame => Row(s) = s
    /\ \A p \in Places : p # <<0, 5>> => \E s \in Strands : p[1] = Row(s)
<1>1. Continuation = MaxKids + 1 /\ MaxKids \in Nat
    BY Constants DEF Continuation
<1>2. \A s \in Strands : Row(s) \in 1..Continuation /\ (Row(s) = Continuation <=> s = Frame)
    BY <1>1, Constants DEF Row
<1>3. ASSUME NEW p \in Places
      PROVE  /\ p = <<p[1], p[2]>> /\ p[1] \in 0..Continuation /\ p[2] \in 1..5
             /\ p[1] = 0 => p = <<0, 5>>
    BY <1>1, <1>3 DEF Places
<1>4. ASSUME NEW p \in Places, p # <<0, 5>>
      PROVE  \E s \in Strands : p[1] = Row(s)
    <2>1. p[1] \in 1..Continuation
        BY <1>1, <1>3, <1>4
    <2>2. CASE p[1] = Continuation
        BY <2>2, Constants DEF Row
    <2>3. CASE p[1] # Continuation
        <3>1. p[1] \in Strands /\ p[1] # Frame
            BY <2>1, <2>3, <1>1, Constants
        <3> QED
            BY <3>1 DEF Row
    <2> QED
        BY <2>2, <2>3
<1> QED
    BY <1>1, <1>2, <1>3, <1>4 DEF Places, Row

(* They are in a strict order. *)
LEMMA PlacesInOrder ==
    /\ \A p \in Places : ~Before(p, p)
    /\ \A p, q \in Places : p # q => Before(p, q) \/ Before(q, p)
    /\ \A p, q \in Places : ~(Before(p, q) /\ Before(q, p))
    /\ \A p, q, o \in Places : Before(p, q) /\ Before(q, o) => Before(p, o)
<1>1. /\ Continuation \in Nat
      /\ \A p \in Places : p = <<p[1], p[2]>> /\ p[1] \in 0..Continuation /\ p[2] \in 1..5
    BY Placing, Constants
<1>2. \A p \in Places : p[1] \in Int /\ p[2] \in Int
    BY <1>1
<1>3. \A p, q \in Places : p # q => p[1] # q[1] \/ p[2] # q[2]
    BY <1>1
<1> QED
    BY <1>2, <1>3 DEF Before

(* A cell is a place and an index. *)
LEMMA InCells ==
    ASSUME NEW v \in Seqs
    PROVE  /\ \A e \in Cells(v) : /\ e[1] \in Places /\ e[2] \in 1..Len(v[e[1]])
                                  /\ e = <<e[1], e[2]>> /\ Number(v, e) \in Int
                                  /\ Number(v, e) = v[e[1]][e[2]]
           /\ \A p \in Places, i \in Int :
                 1 <= i /\ i <= Len(v[p]) => <<p, i>> \in Cells(v) /\ Number(v, <<p, i>>) = v[p][i]
           /\ \A p \in Places : v[p] \in Seq(Int) /\ Len(v[p]) \in Nat
<1>1. \A p \in Places : v[p] \in Seq(Int) /\ Len(v[p]) \in Nat
    BY DEF Seqs
<1>2. ASSUME NEW e \in Cells(v)
      PROVE  /\ e[1] \in Places /\ e[2] \in 1..Len(v[e[1]]) /\ e = <<e[1], e[2]>>
             /\ Number(v, e) \in Int
    <2>1. PICK p \in Places : \E i \in 1..Len(v[p]) : e = <<p, i>>
        BY DEF Cells
    <2>2. PICK i \in 1..Len(v[p]) : e = <<p, i>>
        BY <2>1
    <2>3. v[p][i] \in Int
        BY <1>1
    <2> QED
        BY <2>2, <2>3 DEF Number
<1>3. ASSUME NEW p \in Places, NEW i \in Int, 1 <= i /\ i <= Len(v[p])
      PROVE  <<p, i>> \in Cells(v) /\ Number(v, <<p, i>>) = v[p][i]
    BY <1>3, <1>1 DEF Cells, Number
<1> QED
    BY <1>1, <1>2, <1>3 DEF Number

(* The cells are in a strict order too. *)
LEMMA CellsInOrder ==
    ASSUME NEW v \in Seqs
    PROVE  /\ \A e \in Cells(v) : ~Prior(e, e)
           /\ \A e, f \in Cells(v) : e # f => Prior(e, f) \/ Prior(f, e)
<1>1. \A e \in Cells(v) : e[1] \in Places /\ e[2] \in Int /\ e = <<e[1], e[2]>>
    BY InCells
<1> QED
    BY <1>1, PlacesInOrder DEF Prior

(* What is moved without changing its order is as complete, as sorted and  *)
(* as bounded as it was.                                                   *)
LEMMA SameOrder ==
    ASSUME NEW v \in Seqs, NEW u \in Seqs, NEW F,
           \A e \in Cells(u) : F[e] \in Cells(v) /\ Number(u, e) = Number(v, F[e]),
           \A f \in Cells(v) : \E e \in Cells(u) : F[e] = f,
           \A e, f \in Cells(u) : Prior(e, f) => Prior(F[e], F[f])
    PROVE  /\ \A written : Complete(v, written) => Complete(u, written)
           /\ Sorted(v) => Sorted(u)
           /\ \A c : Bounded(v, c) /\ (\A e \in Cells(u) : Upto(e[1], c) <=> Upto(F[e][1], c))
                     => Bounded(u, c)
<1>1. \A e, f \in Cells(u) : F[e] = F[f] => e = f
    BY CellsInOrder
<1>2. ASSUME NEW written, Complete(v, written) PROVE Complete(u, written)
    <2>1. \A e \in Cells(u) : Number(u, e) \in written
        BY <1>2 DEF Complete
    <2>2. ASSUME NEW x \in written PROVE \E e \in Cells(u) : Number(u, e) = x
        <3>1. PICK f \in Cells(v) : Number(v, f) = x
            BY <1>2 DEF Complete
        <3> QED
            BY <3>1
    <2>3. ASSUME NEW e \in Cells(u), NEW f \in Cells(u), Number(u, e) = Number(u, f) PROVE e = f
        <3>1. F[e] \in Cells(v) /\ F[f] \in Cells(v) /\ Number(v, F[e]) = Number(v, F[f])
            BY <2>3
        <3>2. F[e] = F[f]
            BY <3>1, <1>2 DEF Complete
        <3> QED
            BY <3>2, <1>1
    <2> QED
        BY <2>1, <2>2, <2>3 DEF Complete
<1>3. ASSUME Sorted(v) PROVE Sorted(u)
    <2> SUFFICES ASSUME NEW e \in Cells(u), NEW f \in Cells(u), Prior(e, f)
                 PROVE  Number(u, e) < Number(u, f)
        BY DEF Sorted
    <2>1. F[e] \in Cells(v) /\ F[f] \in Cells(v) /\ Prior(F[e], F[f])
        OBVIOUS
    <2>2. Number(v, F[e]) < Number(v, F[f])
        BY <2>1, <1>3 DEF Sorted
    <2> QED
        BY <2>2
<1>4. ASSUME NEW c, Bounded(v, c), \A e \in Cells(u) : Upto(e[1], c) <=> Upto(F[e][1], c)
      PROVE  Bounded(u, c)
    <2> SUFFICES ASSUME NEW e \in Cells(u)
                 PROVE  IF Upto(e[1], c) THEN Number(u, e) <= 2 * c - 1 ELSE Number(u, e) > 2 * c - 1
        BY DEF Bounded
    <2>1. F[e] \in Cells(v) /\ Number(u, e) = Number(v, F[e])
        OBVIOUS
    <2>2. IF Upto(F[e][1], c) THEN Number(v, F[e]) <= 2 * c - 1 ELSE Number(v, F[e]) > 2 * c - 1
        BY <2>1, <1>4 DEF Bounded
    <2> QED
        BY <2>1, <2>2, <1>4
<1> QED
    BY <1>2, <1>3, <1>4

(* The views of maps are sequences; where there is no map there is none.   *)
LEMMA ViewsAt ==
    ASSUME NEW M \in [Places -> AnyMap], NEW r \in Reducers
    PROVE  /\ ViewsOf(M, r) \in Seqs
           /\ \A p \in Places : ViewsOf(M, r)[p] = ViewIn(M[p], r)
           /\ \A p \in Places : M[p] = NoMap => ViewsOf(M, r)[p] = <<>>
           /\ \A e \in Cells(ViewsOf(M, r)) : e[1] \in Places /\ M[e[1]] # NoMap
<1>1. \A p \in Places : ViewIn(M[p], r) \in Seq(Int)
    BY ViewType
<1>2. \A p \in Places : ViewsOf(M, r)[p] = ViewIn(M[p], r)
    BY DEF ViewsOf
<1>3. ViewsOf(M, r) \in Seqs
    BY <1>1 DEF ViewsOf, Seqs
<1>4. \A p \in Places : M[p] = NoMap => ViewsOf(M, r)[p] = <<>>
    BY <1>2 DEF ViewIn
<1>5. \A e \in Cells(ViewsOf(M, r)) : e[1] \in Places /\ M[e[1]] # NoMap
    BY <1>3, <1>4, InCells
<1> QED
    BY <1>2, <1>3, <1>4, <1>5

(* The leftmost map stays at the left of all others when maps are moved,   *)
(* or joined, without one of them overtaking another.                      *)
LEMMA LeadingMoved ==
    ASSUME NEW M \in [Places -> AnyMap], NEW N \in [Places -> AnyMap], NEW h \in [Places -> Places],
           \A p \in Places : N[p] # NoMap => \E o \in Places : M[o] # NoMap /\ h[o] = p,
           \A p \in Places : Leads(M[p]) => Leads(N[h[p]]),
           \A p \in Places : Leads(N[p]) => \E o \in Places : Leads(M[o]) /\ h[o] = p,
           \A p, o \in Places : M[p] # NoMap /\ M[o] # NoMap /\ Before(p, o)
                                => Before(h[p], h[o]) \/ h[p] = h[o],
           NEW l \in Places, Leading(M, l)
    PROVE  Leading(N, h[l])
<1>1. Leads(M[l]) /\ M[l] # NoMap
    BY DEF Leading, Leads
<1>2. Leads(N[h[l]])
    BY <1>1
<1>3. ASSUME NEW p \in Places, Before(p, h[l]) PROVE N[p] = NoMap
    <2> SUFFICES ASSUME N[p] # NoMap PROVE FALSE
        OBVIOUS
    <2>1. PICK o \in Places : M[o] # NoMap /\ h[o] = p
        OBVIOUS
    <2>2. ~Before(o, l)
        BY <2>1 DEF Leading
    <2>3. o = l \/ Before(l, o)
        BY <2>2, PlacesInOrder
    <2>4. Before(h[l], p) \/ h[l] = p
        BY <2>1, <2>3, <1>1
    <2> QED
        BY <2>4, <1>3, PlacesInOrder
<1>4. ASSUME NEW p \in Places, Before(h[l], p) PROVE ~Leads(N[p])
    <2> SUFFICES ASSUME Leads(N[p]) PROVE FALSE
        OBVIOUS
    <2>1. PICK o \in Places : Leads(M[o]) /\ h[o] = p
        OBVIOUS
    <2>2. M[o] # NoMap
        BY <2>1 DEF Leads
    <2>3. o = l
        BY <2>1, <2>2, PlacesInOrder DEF Leading
    <2> QED
        BY <2>1, <2>3, <1>4, PlacesInOrder
<1> QED
    BY <1>2, <1>3, <1>4 DEF Leading

(* Maps that are moved, but not past each other. *)
LEMMA MovedMaps ==
    ASSUME NEW M \in [Places -> AnyMap], NEW N \in [Places -> AnyMap], NEW h \in [Places -> Places],
           \A p \in Places : M[p] # NoMap => N[h[p]] = M[p],
           \A p \in Places : N[p] # NoMap => \E o \in Places : M[o] # NoMap /\ h[o] = p,
           \A p, o \in Places : M[p] # NoMap /\ M[o] # NoMap /\ Before(p, o) => Before(h[p], h[o])
    PROVE  /\ \A l \in Places : Leading(M, l) => Leading(N, h[l])
           /\ \A written, anyhow, running :
                 /\ InPlace(M, written, anyhow, running)
                 /\ \A c \in running, p \in Places : M[p] # NoMap => (Upto(p, c) <=> Upto(h[p], c))
                 => InPlace(N, written, anyhow, running)
<1>1. ASSUME NEW l \in Places, Leading(M, l) PROVE Leading(N, h[l])
    <2>1. \A p \in Places : Leads(M[p]) => Leads(N[h[p]])
        BY DEF Leads
    <2>2. \A p \in Places : Leads(N[p]) => \E o \in Places : Leads(M[o]) /\ h[o] = p
        BY DEF Leads
    <2> QED
        BY <2>1, <2>2, <1>1, LeadingMoved
<1>2. ASSUME NEW p \in Places, NEW o \in Places, M[p] # NoMap, M[o] # NoMap, h[p] = h[o]
      PROVE  p = o
    BY <1>2, PlacesInOrder
<1>3. ASSUME NEW r \in Reducers
      PROVE  /\ \A written : Complete(ViewsOf(M, r), written) => Complete(ViewsOf(N, r), written)
             /\ Sorted(ViewsOf(M, r)) => Sorted(ViewsOf(N, r))
             /\ \A c : /\ Bounded(ViewsOf(M, r), c)
                       /\ \A p \in Places : M[p] # NoMap => (Upto(p, c) <=> Upto(h[p], c))
                       => Bounded(ViewsOf(N, r), c)
    <2> DEFINE v == ViewsOf(M, r)
               u == ViewsOf(N, r)
               o(p) == CHOOSE q \in Places : M[q] # NoMap /\ h[q] = p
               F == [e \in Cells(u) |-> <<o(e[1]), e[2]>>]
    <2>1. /\ v \in Seqs /\ u \in Seqs
          /\ \A p \in Places : v[p] = ViewIn(M[p], r) /\ u[p] = ViewIn(N[p], r)
          /\ \A e \in Cells(v) : e[1] \in Places /\ M[e[1]] # NoMap
          /\ \A e \in Cells(u) : e[1] \in Places /\ N[e[1]] # NoMap
        BY ViewsAt
    <2> HIDE DEF v, u
    <2>2. ASSUME NEW e \in Cells(u)
          PROVE  o(e[1]) \in Places /\ M[o(e[1])] # NoMap /\ h[o(e[1])] = e[1] /\ u[e[1]] = v[o(e[1])]
        <3>1. e[1] \in Places /\ N[e[1]] # NoMap
            BY <2>1
        <3>2. \E q \in Places : M[q] # NoMap /\ h[q] = e[1]
            BY <3>1
        <3>3. o(e[1]) \in Places /\ M[o(e[1])] # NoMap /\ h[o(e[1])] = e[1]
            BY <3>2
        <3> QED
            BY <3>1, <3>3, <2>1
    <2>3. \A e \in Cells(u) : F[e] = <<o(e[1]), e[2]>>
        OBVIOUS
    <2> HIDE DEF o, F
    <2>4. ASSUME NEW e \in Cells(u)
          PROVE  F[e] \in Cells(v) /\ Number(u, e) = Number(v, F[e]) /\ F[e][1] = o(e[1])
        <3>1. e[2] \in 1..Len(u[e[1]]) /\ Number(u, e) = u[e[1]][e[2]] /\ e[1] \in Places
            BY <2>1, InCells
        <3>2. <<o(e[1]), e[2]>> \in Cells(v) /\ Number(v, <<o(e[1]), e[2]>>) = v[o(e[1])][e[2]]
            BY <3>1, <2>1, <2>2, InCells
        <3> QED
            BY <3>1, <3>2, <2>2, <2>3
    <2>5. ASSUME NEW f \in Cells(v) PROVE \E e \in Cells(u) : F[e] = f
        <3>1. /\ f[1] \in Places /\ f[2] \in 1..Len(v[f[1]]) /\ f = <<f[1], f[2]>> /\ M[f[1]] # NoMap
            BY <2>1, InCells
        <3>2. h[f[1]] \in Places /\ u[h[f[1]]] = v[f[1]]
            BY <3>1, <2>1
        <3> DEFINE e == <<h[f[1]], f[2]>>
        <3>3. e \in Cells(u)
            BY <3>1, <3>2, <2>1, InCells
        <3>4. o(e[1]) = f[1]
            BY <3>1, <3>3, <2>2, <1>2
        <3> QED
            BY <3>1, <3>3, <3>4, <2>3
    <2>6. ASSUME NEW e \in Cells(u), NEW f \in Cells(u), Prior(e, f) PROVE Prior(F[e], F[f])
        <3>1. CASE e[1] = f[1] /\ e[2] < f[2]
            BY <3>1, <2>3 DEF Prior
        <3>2. CASE Before(e[1], f[1])
            <4>1. o(e[1]) # o(f[1]) /\ ~Before(o(f[1]), o(e[1]))
                BY <2>2, <2>1, <3>2, PlacesInOrder
            <4>2. Before(o(e[1]), o(f[1]))
                BY <4>1, <2>2, PlacesInOrder
            <4> QED
                BY <4>2, <2>3 DEF Prior
        <3> QED
            BY <2>6, <3>1, <3>2 DEF Prior
    <2>7. /\ \A written : Complete(v, written) => Complete(u, written)
          /\ Sorted(v) => Sorted(u)
          /\ \A c : Bounded(v, c) /\ (\A e \in Cells(u) : Upto(e[1], c) <=> Upto(F[e][1], c))
                    => Bounded(u, c)
        BY <2>1, <2>4, <2>5, <2>6, SameOrder
    <2>8. ASSUME NEW c, Bounded(v, c), \A p \in Places : M[p] # NoMap => (Upto(p, c) <=> Upto(h[p], c))
          PROVE  Bounded(u, c)
        BY <2>7, <2>8, <2>2, <2>4
    <2> QED
        BY <2>7, <2>8 DEF v, u
<1> QED
    BY <1>1, <1>3 DEF InPlace

(* Two sequences, and three, one after the other. *)
LEMMA TwoJoined ==
    ASSUME NEW s \in Seq(Int), NEW t \in Seq(Int)
    PROVE  /\ s \o t \in Seq(Int) /\ Len(s \o t) = Len(s) + Len(t)
           /\ \A i \in 1..Len(s \o t) : (s \o t)[i] = IF i <= Len(s) THEN s[i] ELSE t[i - Len(s)]
OBVIOUS

AreJoined(z, s, t, w) ==
    /\ Len(z) = Len(s) + Len(t) + Len(w)
    /\ \A i \in 1..Len(z) : z[i] = IF i <= Len(s) THEN s[i]
                                 ELSE IF i <= Len(s) + Len(t) THEN t[i - Len(s)]
                                 ELSE w[i - Len(s) - Len(t)]

(* Three sequences one after the other are joined element by element.      *)
LEMMA Joined ==
    ASSUME NEW s \in Seq(Int), NEW t \in Seq(Int), NEW w \in Seq(Int)
    PROVE  AreJoined((s \o t) \o w, s, t, w)
<1> DEFINE st == s \o t
           z == st \o w
<1>1. Len(s) \in Nat /\ Len(t) \in Nat /\ Len(w) \in Nat
    OBVIOUS
<1>4. st \in Seq(Int) /\ Len(st) = Len(s) + Len(t)
    BY TwoJoined
<1>5. \A i \in 1..Len(st) : st[i] = IF i <= Len(s) THEN s[i] ELSE t[i - Len(s)]
    BY TwoJoined
<1> HIDE DEF st
<1>8. Len(z) = Len(st) + Len(w) /\ \A i \in 1..Len(z) : z[i] = IF i <= Len(st) THEN st[i] ELSE w[i - Len(st)]
    BY <1>4, TwoJoined
<1> HIDE DEF z
<1>9. ASSUME NEW i \in 1..Len(z)
      PROVE  z[i] = IF i <= Len(s) THEN s[i]
                    ELSE IF i <= Len(s) + Len(t) THEN t[i - Len(s)]
                    ELSE w[i - Len(s) - Len(t)]
    <2>1. i \in Nat /\ i >= 1 /\ i <= Len(st) + Len(w)
        BY <1>8, <1>4, <1>1
    <2>2. CASE i <= Len(st)
        <3>1. i \in 1..Len(st)
            BY <2>1, <2>2, <1>4, <1>1
        <3>2. z[i] = st[i] /\ st[i] = IF i <= Len(s) THEN s[i] ELSE t[i - Len(s)]
            BY <3>1, <2>2, <1>5, <1>8
        <3> QED
            BY <3>2, <2>2, <1>4
    <2>3. CASE i > Len(st)
        <3>1. i - Len(st) = i - Len(s) - Len(t) /\ ~(i <= Len(s)) /\ ~(i <= Len(s) + Len(t)) /\ ~(i <= Len(st))
            BY <2>1, <2>3, <1>4, <1>1
        <3>2. z[i] = w[i - Len(st)]
            BY <3>1, <1>8
        <3> QED
            BY <3>1, <3>2
    <2> QED
        BY <2>1, <2>2, <2>3, <1>1, <1>4
<1>10. Len(z) = Len(s) + Len(t) + Len(w)
    BY <1>1, <1>4, <1>8
<1> QED
    BY <1>9, <1>10 DEF AreJoined, z, st

(* Three views are joined in their order, at a place that no other view is *)
(* on the wrong side of.                                                   *)
Gathered(v, u, a, b, c, q) ==
    /\ Before(a, b) /\ Before(b, c) /\ u[q] = (v[a] \o v[b]) \o v[c]
    /\ q \notin {a, b, c} => v[q] = <<>>
    /\ \A p \in {a, b, c} : p # q => u[p] = <<>>
    /\ \A p \in Places \ {a, b, c, q} : u[p] = v[p]
    /\ \A p \in Places \ {a, b, c, q} :
          v[p] # <<>> => \/ Before(p, a) /\ Before(p, q)
                         \/ Before(c, p) /\ Before(q, p)

(* What is joined so is as complete, as sorted and as bounded as before.   *)
LEMMA ViewsGathered ==
    ASSUME NEW v \in Seqs, NEW u \in Seqs,
           NEW a \in Places, NEW b \in Places, NEW c \in Places, NEW q \in Places,
           Gathered(v, u, a, b, c, q)
    PROVE  /\ \A written : Complete(v, written) => Complete(u, written)
           /\ Sorted(v) => Sorted(u)
           /\ \A d : /\ Bounded(v, d)
                     /\ \A p \in {a, b, c} : Upto(p, d) <=> Upto(q, d)
                     => Bounded(u, d)
<1> DEFINE La == Len(v[a])
           Lb == Len(v[b])
           Lc == Len(v[c])
           F == [e \in Cells(u) |->
                   IF e[1] # q THEN e
                   ELSE IF e[2] <= La THEN <<a, e[2]>>
                   ELSE IF e[2] <= La + Lb THEN <<b, e[2] - La>>
                   ELSE <<c, e[2] - La - Lb>>]
<1>0. /\ Before(a, b) /\ Before(b, c) /\ u[q] = (v[a] \o v[b]) \o v[c]
      /\ q \notin {a, b, c} => v[q] = <<>>
      /\ \A p \in {a, b, c} : p # q => u[p] = <<>>
      /\ \A p \in Places \ {a, b, c, q} : u[p] = v[p]
      /\ \A p \in Places \ {a, b, c, q} :
            v[p] # <<>> => \/ Before(p, a) /\ Before(p, q)
                           \/ Before(c, p) /\ Before(q, p)
    BY DEF Gathered
<1> USE <1>0
<1>1. /\ a # b /\ b # c /\ a # c /\ Before(a, c)
    BY PlacesInOrder
<1>2. /\ v[a] \in Seq(Int) /\ v[b] \in Seq(Int) /\ v[c] \in Seq(Int)
      /\ La \in Nat /\ Lb \in Nat /\ Lc \in Nat
    BY InCells
<1>3. /\ Len(u[q]) = La + Lb + Lc
      /\ \A i \in 1..Len(u[q]) : u[q][i] = IF i <= La THEN v[a][i]
                                           ELSE IF i <= La + Lb THEN v[b][i - La]
                                           ELSE v[c][i - La - Lb]
    <2>1. AreJoined(u[q], v[a], v[b], v[c])
        BY <1>2, Joined
    <2> QED
        BY <2>1 DEF AreJoined
<1>4. \A e \in Cells(u) : F[e] = IF e[1] # q THEN e
                                 ELSE IF e[2] <= La THEN <<a, e[2]>>
                                 ELSE IF e[2] <= La + Lb THEN <<b, e[2] - La>>
                                 ELSE <<c, e[2] - La - Lb>>
    OBVIOUS
<1> HIDE DEF La, Lb, Lc, F
<1>5. \A e \in Cells(u) : /\ e[1] \in Places /\ e[2] \in 1..Len(u[e[1]]) /\ e = <<e[1], e[2]>>
                          /\ Number(u, e) = u[e[1]][e[2]] /\ u[e[1]] # <<>>
    BY InCells, EmptySeq
<1>6. \A p \in {a, b, c}, i \in Int :
         1 <= i /\ i <= Len(v[p]) => <<p, i>> \in Cells(v) /\ Number(v, <<p, i>>) = v[p][i]
    <2>1. \A p \in {a, b, c} : p \in Places
        OBVIOUS
    <2> QED
        BY <2>1, InCells
<1>7. ASSUME NEW e \in Cells(u), e[1] # q
      PROVE  /\ e[1] \in Places \ {a, b, c, q} /\ u[e[1]] = v[e[1]]
             /\ \/ Before(e[1], a) /\ Before(e[1], q)
                \/ Before(c, e[1]) /\ Before(q, e[1])
             /\ F[e] = e
    BY <1>7, <1>4, <1>5
<1>8. ASSUME NEW e \in Cells(u), e[1] = q
      PROVE  /\ e[2] \in Int /\ e[2] >= 1 /\ e[2] <= La + Lb + Lc
             /\ Number(u, e) = IF e[2] <= La THEN v[a][e[2]]
                               ELSE IF e[2] <= La + Lb THEN v[b][e[2] - La]
                               ELSE v[c][e[2] - La - Lb]
    <2>1. e[2] \in 1..Len(u[q]) /\ Number(u, e) = u[q][e[2]]
        BY <1>5, <1>8
    <2>2. e[2] \in Int /\ e[2] >= 1 /\ e[2] <= La + Lb + Lc
        BY <2>1, <1>3, <1>2
    <2>3. u[q][e[2]] = IF e[2] <= La THEN v[a][e[2]]
                       ELSE IF e[2] <= La + Lb THEN v[b][e[2] - La]
                       ELSE v[c][e[2] - La - Lb]
        BY <2>1, <1>3
    <2> QED
        BY <2>1, <2>2, <2>3
<1>9. ASSUME NEW e \in Cells(u)
      PROVE  F[e] \in Cells(v) /\ Number(u, e) = Number(v, F[e])
    <2>1. CASE e[1] # q
        <3>1. e = <<e[1], e[2]>> /\ e[2] \in 1..Len(v[e[1]]) /\ Number(u, e) = v[e[1]][e[2]] /\ e[1] \in Places
            BY <2>1, <1>5, <1>7
        <3>a. e[2] \in Int /\ 1 <= e[2] /\ e[2] <= Len(v[e[1]])
            BY <3>1, InCells
        <3>2. <<e[1], e[2]>> \in Cells(v) /\ Number(v, <<e[1], e[2]>>) = v[e[1]][e[2]]
            BY <3>1, <3>a, InCells
        <3> QED
            BY <2>1, <3>1, <3>2, <1>7
    <2>2. CASE e[1] = q /\ e[2] <= La
        <3>1. F[e] = <<a, e[2]>> /\ Number(u, e) = v[a][e[2]] /\ e[2] \in Int /\ e[2] >= 1
            BY <2>2, <1>4, <1>8
        <3> QED
            BY <2>2, <3>1, <1>6 DEF La
    <2>3. CASE e[1] = q /\ ~(e[2] <= La) /\ e[2] <= La + Lb
        <3>1. F[e] = <<b, e[2] - La>> /\ Number(u, e) = v[b][e[2] - La] /\ e[2] \in Int
            BY <2>3, <1>4, <1>8
        <3>2. e[2] - La \in Int /\ 1 <= e[2] - La /\ e[2] - La <= Lb
            BY <2>3, <3>1, <1>2
        <3> QED
            BY <3>1, <3>2, <1>6 DEF Lb
    <2>4. CASE e[1] = q /\ ~(e[2] <= La) /\ ~(e[2] <= La + Lb)
        <3>1. /\ F[e] = <<c, e[2] - La - Lb>> /\ Number(u, e) = v[c][e[2] - La - Lb]
              /\ e[2] \in Int /\ e[2] <= La + Lb + Lc
            BY <2>4, <1>4, <1>8
        <3>a. e[2] \in Int /\ e[2] <= La + Lb + Lc /\ ~(e[2] <= La + Lb)
            BY <2>4, <3>1
        <3>2. e[2] - La - Lb \in Int /\ 1 <= e[2] - La - Lb /\ e[2] - La - Lb <= Lc
            BY <3>a, <1>2
        <3> QED
            BY <3>1, <3>2, <1>6 DEF Lc
    <2> QED
        BY <2>1, <2>2, <2>3, <2>4
<1>10. ASSUME NEW i \in Int, 1 <= i, i <= La + Lb + Lc
       PROVE  <<q, i>> \in Cells(u)
    BY <1>3, <1>10, InCells
<1>11. ASSUME NEW f \in Cells(v) PROVE \E e \in Cells(u) : F[e] = f
    <2>1. f[1] \in Places /\ f[2] \in 1..Len(v[f[1]]) /\ f = <<f[1], f[2]>> /\ v[f[1]] # <<>>
        BY InCells, EmptySeq
    <2>2. CASE f[1] \notin {a, b, c}
        <3>1. f[1] # q /\ u[f[1]] = v[f[1]]
            BY <2>1, <2>2
        <3>2. <<f[1], f[2]>> \in Cells(u)
            BY <2>1, <3>1, InCells
        <3>3. f \in Cells(u)
            BY <2>1, <3>2
        <3> QED
            BY <3>1, <3>3, <1>4
    <2>3. CASE f[1] = a
        <3>1. f = <<a, f[2]>> /\ f[2] \in Int /\ 1 <= f[2] /\ f[2] <= La
            BY <2>1, <2>3, <1>2 DEF La
        <3>2. <<q, f[2]>> \in Cells(u)
            BY <3>1, <1>2, <1>10
        <3> QED
            BY <3>1, <3>2, <1>4
    <2>4. CASE f[1] = b
        <3>1. f = <<b, f[2]>> /\ f[2] \in Int /\ 1 <= f[2] /\ f[2] <= Lb
            BY <2>1, <2>4, <1>2 DEF Lb
        <3> DEFINE i == f[2] + La
        <3>2. /\ i \in Int /\ 1 <= i /\ i <= La + Lb + Lc /\ i - La = f[2]
              /\ ~(i <= La) /\ i <= La + Lb
            BY <3>1, <1>2
        <3> HIDE DEF i
        <3>3. <<q, i>> \in Cells(u)
            BY <3>2, <1>10
        <3> QED
            BY <3>1, <3>2, <3>3, <1>4
    <2>5. CASE f[1] = c
        <3>1. f = <<c, f[2]>> /\ f[2] \in Int /\ 1 <= f[2] /\ f[2] <= Lc
            BY <2>1, <2>5, <1>2 DEF Lc
        <3> DEFINE i == f[2] + La + Lb
        <3>2. /\ i \in Int /\ 1 <= i /\ i <= La + Lb + Lc /\ i - La - Lb = f[2]
              /\ ~(i <= La) /\ ~(i <= La + Lb)
            BY <3>1, <1>2
        <3> HIDE DEF i
        <3>3. <<q, i>> \in Cells(u)
            BY <3>2, <1>10
        <3> QED
            BY <3>1, <3>2, <3>3, <1>4
    <2> QED
        BY <2>2, <2>3, <2>4, <2>5
<1>12. ASSUME NEW e \in Cells(u), e[1] = q PROVE F[e][1] \in {a, b, c}
    <2>1. F[e] = <<a, e[2]>> \/ F[e] = <<b, e[2] - La>> \/ F[e] = <<c, e[2] - La - Lb>>
        BY <1>12, <1>4
    <2> QED
        BY <2>1
<1>13. ASSUME NEW e \in Cells(u), NEW f \in Cells(u), Prior(e, f) PROVE Prior(F[e], F[f])
    <2>1. CASE e[1] # q /\ f[1] # q
        BY <2>1, <1>13, <1>7
    <2>2. CASE e[1] = q /\ f[1] # q
        <3>1. Before(q, f[1])
            BY <2>2, <1>13 DEF Prior
        <3>2. Before(c, f[1]) /\ F[f] = f /\ f[1] \in Places
            BY <2>2, <3>1, <1>7, PlacesInOrder
        <3>3. Before(a, f[1]) /\ Before(b, f[1])
            BY <3>2, <1>1, PlacesInOrder
        <3>4. F[e][1] \in {a, b, c}
            BY <2>2, <1>12
        <3> QED
            BY <3>2, <3>3, <3>4 DEF Prior
    <2>3. CASE e[1] # q /\ f[1] = q
        <3>1. Before(e[1], q)
            BY <2>3, <1>13 DEF Prior
        <3>2. Before(e[1], a) /\ F[e] = e /\ e[1] \in Places
            BY <2>3, <3>1, <1>7, PlacesInOrder
        <3>3. Before(e[1], b) /\ Before(e[1], c)
            BY <3>2, <1>1, PlacesInOrder
        <3>4. F[f][1] \in {a, b, c}
            BY <2>3, <1>12
        <3> QED
            BY <3>2, <3>3, <3>4 DEF Prior
    <2>4. CASE e[1] = q /\ f[1] = q
        <3>1. e[2] < f[2] /\ e[2] \in Int /\ f[2] \in Int
            BY <2>4, <1>13, <1>8, PlacesInOrder DEF Prior
        <3>2. /\ F[e] = IF e[2] <= La THEN <<a, e[2]>>
                        ELSE IF e[2] <= La + Lb THEN <<b, e[2] - La>> ELSE <<c, e[2] - La - Lb>>
              /\ F[f] = IF f[2] <= La THEN <<a, f[2]>>
                        ELSE IF f[2] <= La + Lb THEN <<b, f[2] - La>> ELSE <<c, f[2] - La - Lb>>
            BY <2>4, <1>4
        <3>3. CASE e[2] <= La
            <4>1. F[e] = <<a, e[2]>> /\ (F[f] = <<a, f[2]>> \/ F[f][1] \in {b, c})
                BY <3>2, <3>3
            <4> QED
                BY <4>1, <3>1, <1>1 DEF Prior
        <3>4. CASE ~(e[2] <= La) /\ e[2] <= La + Lb
            <4>1. F[e] = <<b, e[2] - La>> /\ (F[f] = <<b, f[2] - La>> \/ F[f][1] = c)
                BY <3>1, <3>2, <3>4, <1>2
            <4> QED
                BY <4>1, <3>1, <1>1, <1>2 DEF Prior
        <3>5. CASE ~(e[2] <= La) /\ ~(e[2] <= La + Lb)
            <4>1. F[e] = <<c, e[2] - La - Lb>> /\ F[f] = <<c, f[2] - La - Lb>>
                BY <3>1, <3>2, <3>5, <1>2
            <4> QED
                BY <4>1, <3>1, <1>1, <1>2 DEF Prior
        <3> QED
            BY <3>3, <3>4, <3>5
    <2> QED
        BY <2>1, <2>2, <2>3, <2>4
<1>14. /\ \A written : Complete(v, written) => Complete(u, written)
       /\ Sorted(v) => Sorted(u)
       /\ \A d : Bounded(v, d) /\ (\A e \in Cells(u) : Upto(e[1], d) <=> Upto(F[e][1], d))
                 => Bounded(u, d)
    BY <1>9, <1>11, <1>13, SameOrder
<1>15. \A e \in Cells(u) : F[e][1] = e[1] \/ (e[1] = q /\ F[e][1] \in {a, b, c})
    BY <1>12, <1>7
<1> QED
    BY <1>14, <1>15

(* Three maps are merged in their order, at a place that no other map is   *)
(* on the wrong side of.                                                   *)
Gathering(M, N, a, b, c, q, t) ==
    /\ Before(a, b) /\ Before(b, c)
    /\ t[1] = M[a] /\ t[2] = M[b] /\ t[3] = M[c] /\ N[q] = Merged(t)
    /\ q \notin {a, b, c} => M[q] = NoMap
    /\ \A p \in {a, b, c} : p # q => N[p] = NoMap
    /\ \A p \in Places \ {a, b, c, q} : N[p] = M[p]
    /\ \A p \in Places \ {a, b, c, q} :
          M[p] # NoMap => \/ Before(p, a) /\ Before(p, q)
                          \/ Before(c, p) /\ Before(q, p)

(* The leftmost map stays so, and the views in place, when maps are merged *)
(* (reducer_impl.cpp merge_reducer_maps).                                  *)
LEMMA GatheredMaps ==
    ASSUME NEW M \in [Places -> AnyMap], NEW N \in [Places -> AnyMap], NEW l \in Places, Leading(M, l),
           NEW a \in Places, NEW b \in Places, NEW c \in Places, NEW q \in Places,
           NEW t, Gathering(M, N, a, b, c, q, t)
    PROVE  /\ Leading(N, IF l \in {a, b, c} THEN q ELSE l)
           /\ \A written, anyhow, running :
                 /\ InPlace(M, written, anyhow, running)
                 /\ \A d \in running, p \in {a, b, c} : Upto(p, d) <=> Upto(q, d)
                 => InPlace(N, written, anyhow, running)
<1>0. /\ Before(a, b) /\ Before(b, c)
      /\ t[1] = M[a] /\ t[2] = M[b] /\ t[3] = M[c] /\ N[q] = Merged(t)
      /\ q \notin {a, b, c} => M[q] = NoMap
      /\ \A p \in {a, b, c} : p # q => N[p] = NoMap
      /\ \A p \in Places \ {a, b, c, q} : N[p] = M[p]
      /\ \A p \in Places \ {a, b, c, q} :
            M[p] # NoMap => \/ Before(p, a) /\ Before(p, q)
                            \/ Before(c, p) /\ Before(q, p)
    BY DEF Gathering
<1> USE <1>0
<1>1. a # b /\ b # c /\ a # c /\ Before(a, c)
    BY PlacesInOrder
<1>2. \A p \in Places : Leads(M[p]) => p = l
    BY PlacesInOrder DEF Leading, Leads
<1>3. (Leads(M[b]) => M[a] = NoMap) /\ (Leads(M[c]) => M[a] = NoMap /\ M[b] = NoMap)
    BY <1>1, <1>2 DEF Leading
<1>4. /\ Merged(t) = NoMap <=> M[a] = NoMap /\ M[b] = NoMap /\ M[c] = NoMap
      /\ Leads(Merged(t)) <=> Leads(M[a]) \/ Leads(M[b]) \/ Leads(M[c])
      /\ \A r \in Reducers : ViewIn(Merged(t), r)
                             = (ViewIn(M[a], r) \o ViewIn(M[b], r)) \o ViewIn(M[c], r)
    BY <1>3, MergingThree
<1> DEFINE h == [p \in Places |-> IF p \in {a, b, c} THEN q ELSE p]
<1>5. h \in [Places -> Places] /\ \A p \in Places : h[p] = IF p \in {a, b, c} THEN q ELSE p
    OBVIOUS
<1> HIDE DEF h
<1>6. Leading(N, h[l])
    <2>1. ASSUME NEW p \in Places, N[p] # NoMap
          PROVE  \E o \in Places : M[o] # NoMap /\ h[o] = p
        <3>1. CASE p = q
            BY <3>1, <2>1, <1>4, <1>5
        <3>2. CASE p # q
            BY <3>2, <2>1, <1>5
        <3> QED
            BY <3>1, <3>2
    <2>2. ASSUME NEW p \in Places, Leads(M[p]) PROVE Leads(N[h[p]])
        <3>1. CASE p \in {a, b, c}
            BY <3>1, <2>2, <1>4, <1>5
        <3>2. CASE p \notin {a, b, c}
            BY <3>2, <2>2, <1>5 DEF Leads
        <3> QED
            BY <3>1, <3>2
    <2>3. ASSUME NEW p \in Places, Leads(N[p]) PROVE \E o \in Places : Leads(M[o]) /\ h[o] = p
        <3>1. CASE p = q
            BY <3>1, <2>3, <1>4, <1>5
        <3>2. CASE p # q
            <4>1. p \notin {a, b, c} /\ N[p] = M[p]
                BY <3>2, <2>3 DEF Leads
            <4> QED
                BY <4>1, <2>3, <1>5
        <3> QED
            BY <3>1, <3>2
    <2>4. ASSUME NEW p \in Places, NEW o \in Places, M[p] # NoMap, M[o] # NoMap, Before(p, o)
          PROVE  Before(h[p], h[o]) \/ h[p] = h[o]
        <3>1. CASE p \in {a, b, c} /\ o \in {a, b, c}
            BY <3>1, <1>5
        <3>2. CASE p \in {a, b, c} /\ o \notin {a, b, c}
            <4>1. o # q => Before(q, o)
                <5> SUFFICES ASSUME o # q PROVE Before(q, o)
                    OBVIOUS
                <5>1. Before(o, a) \/ Before(q, o)
                    BY <3>2, <2>4
                <5>2. ~Before(o, a)
                    BY <3>2, <2>4, <1>1, PlacesInOrder
                <5> QED
                    BY <5>1, <5>2
            <4> QED
                BY <4>1, <3>2, <1>5
        <3>3. CASE p \notin {a, b, c} /\ o \in {a, b, c}
            <4>1. p # q => Before(p, q)
                <5> SUFFICES ASSUME p # q PROVE Before(p, q)
                    OBVIOUS
                <5>1. Before(c, p) \/ Before(p, q)
                    BY <3>3, <2>4
                <5>2. ~Before(c, p)
                    BY <3>3, <2>4, <1>1, PlacesInOrder
                <5> QED
                    BY <5>1, <5>2
            <4> QED
                BY <4>1, <3>3, <1>5
        <3>4. CASE p \notin {a, b, c} /\ o \notin {a, b, c}
            BY <3>4, <2>4, <1>5
        <3> QED
            BY <3>1, <3>2, <3>3, <3>4
    <2> QED
        BY <2>1, <2>2, <2>3, <2>4, <1>5, LeadingMoved
<1>7. ASSUME NEW r \in Reducers
      PROVE  /\ \A written : Complete(ViewsOf(M, r), written) => Complete(ViewsOf(N, r), written)
             /\ Sorted(ViewsOf(M, r)) => Sorted(ViewsOf(N, r))
             /\ \A d : /\ Bounded(ViewsOf(M, r), d)
                       /\ \A p \in {a, b, c} : Upto(p, d) <=> Upto(q, d)
                       => Bounded(ViewsOf(N, r), d)
    <2> DEFINE v == ViewsOf(M, r)
               u == ViewsOf(N, r)
    <2>1. /\ v \in Seqs /\ u \in Seqs
          /\ \A p \in Places : v[p] = ViewIn(M[p], r) /\ u[p] = ViewIn(N[p], r)
          /\ \A p \in Places : M[p] = NoMap => v[p] = <<>>
          /\ \A p \in Places : N[p] = NoMap => u[p] = <<>>
        BY ViewsAt
    <2> HIDE DEF v, u
    <2>2. u[q] = (v[a] \o v[b]) \o v[c]
        <3>1. ViewIn(N[q], r) = (ViewIn(M[a], r) \o ViewIn(M[b], r)) \o ViewIn(M[c], r)
            BY <1>4
        <3>2. /\ u[q] = ViewIn(N[q], r) /\ v[a] = ViewIn(M[a], r)
              /\ v[b] = ViewIn(M[b], r) /\ v[c] = ViewIn(M[c], r)
            BY <2>1
        <3> QED
            BY <3>1, <3>2
    <2>3. q \notin {a, b, c} => v[q] = <<>>
        BY <2>1
    <2>4. \A p \in {a, b, c} : p # q => u[p] = <<>>
        BY <2>1
    <2>5. \A p \in Places \ {a, b, c, q} : u[p] = v[p]
        BY <2>1
    <2>6. \A p \in Places \ {a, b, c, q} :
             v[p] # <<>> => \/ Before(p, a) /\ Before(p, q)
                            \/ Before(c, p) /\ Before(q, p)
        BY <2>1
    <2>7. /\ \A written : Complete(v, written) => Complete(u, written)
          /\ Sorted(v) => Sorted(u)
          /\ \A d : /\ Bounded(v, d)
                    /\ \A p \in {a, b, c} : Upto(p, d) <=> Upto(q, d)
                    => Bounded(u, d)
        <3>1. Gathered(v, u, a, b, c, q)
            BY <2>2, <2>3, <2>4, <2>5, <2>6 DEF Gathered
        <3> QED
            BY <2>1, <3>1, ViewsGathered
    <2> QED
        BY <2>7 DEF v, u
<1> QED
    BY <1>5, <1>6, <1>7 DEF InPlace

-----------------------------------------------------------------------------
(* The views: where the maps are.                                          *)
-----------------------------------------------------------------------------
(* What the places stand for, before a step and after it. *)
Held(s, k) == IF k \in 1..3 THEN taken[s][k]
              ELSE IF k = 4 THEN map[s]
              ELSE IF s = Frame THEN NoMap ELSE slot[s]

(* Before a step a place has what its strand holds there.                  *)
LEMMA MapsAt ==
    /\ AllMaps[<<0, 5>>] = slot[Frame]
    /\ \A s \in Strands, k \in 1..5 : AllMaps[<<Row(s), k>>] = Held(s, k)
<1>1. AllMaps[<<0, 5>>] = slot[Frame]
    BY Placing DEF AllMaps, MapAt
<1>2. ASSUME NEW s \in Strands, NEW k \in 1..5
      PROVE  AllMaps[<<Row(s), k>>] = Held(s, k)
    <2> DEFINE p == <<Row(s), k>>
    <2>0. p[1] = Row(s) /\ p[2] = k
        OBVIOUS
    <2>1. p \in Places /\ p[1] # 0 /\ p[2] = k
        <3>1. Row(s) \in 1..Continuation
            BY Placing
        <3>2. p \in Places
            BY <3>1, Placing
        <3> HIDE DEF p
        <3> QED
            BY <2>0, <3>1, <3>2
    <2>2. s = IF p[1] = Continuation THEN Frame ELSE p[1]
        BY Placing
    <2> HIDE DEF p
    <2>3. AllMaps[p] = MapAt(p)
        BY <2>1 DEF AllMaps
    <2>4. MapAt(p) = Held(s, k)
        <3>1. CASE k \in 1..3
            BY <2>1, <2>2, <3>1 DEF MapAt, Held
        <3>2. CASE k = 4
            BY <2>1, <2>2, <3>2 DEF MapAt, Held
        <3>3. CASE k = 5
            BY <2>1, <2>2, <3>3 DEF MapAt, Held, Own
        <3> QED
            BY <3>1, <3>2, <3>3
    <2>7. AllMaps[p] = Held(s, k)
        BY <2>3, <2>4
    <2> QED
        BY <2>7 DEF p
<1> QED
    BY <1>1, <1>2

(* The same for each of the five places of a strand.                       *)
LEMMA MapsIn ==
    ASSUME NEW s \in Strands
    PROVE  /\ AllMaps[<<Row(s), 1>>] = taken[s][1]
           /\ AllMaps[<<Row(s), 2>>] = taken[s][2]
           /\ AllMaps[<<Row(s), 3>>] = taken[s][3]
           /\ AllMaps[<<Row(s), 4>>] = map[s]
           /\ AllMaps[<<Row(s), 5>>] = IF s = Frame THEN NoMap ELSE slot[s]
<1>1. 1 \in 1..5 /\ 2 \in 1..5 /\ 3 \in 1..5 /\ 4 \in 1..5 /\ 5 \in 1..5
    OBVIOUS
<1>2. /\ AllMaps[<<Row(s), 1>>] = Held(s, 1)
      /\ AllMaps[<<Row(s), 2>>] = Held(s, 2)
      /\ AllMaps[<<Row(s), 3>>] = Held(s, 3)
      /\ AllMaps[<<Row(s), 4>>] = Held(s, 4)
      /\ AllMaps[<<Row(s), 5>>] = Held(s, 5)
    BY <1>1, MapsAt
<1>3. /\ Held(s, 1) = taken[s][1] /\ Held(s, 2) = taken[s][2] /\ Held(s, 3) = taken[s][3]
      /\ Held(s, 4) = map[s] /\ Held(s, 5) = IF s = Frame THEN NoMap ELSE slot[s]
    BY DEF Held
<1> QED
    BY <1>2, <1>3

(* After a step a place has what its strand holds then.                    *)
LEMMA MapsAtNext ==
    /\ AllMaps'[<<0, 5>>] = slot'[Frame]
    /\ \A s \in Strands, k \in 1..5 : AllMaps'[<<Row(s), k>>] = Held(s, k)'
<1>1. AllMaps'[<<0, 5>>] = slot'[Frame]
    BY Placing DEF AllMaps, MapAt
<1>2. ASSUME NEW s \in Strands, NEW k \in 1..5
      PROVE  AllMaps'[<<Row(s), k>>] = Held(s, k)'
    <2> DEFINE p == <<Row(s), k>>
    <2>0. p[1] = Row(s) /\ p[2] = k
        OBVIOUS
    <2>1. p \in Places /\ p[1] # 0 /\ p[2] = k
        <3>1. Row(s) \in 1..Continuation
            BY Placing
        <3>2. p \in Places
            BY <3>1, Placing
        <3> HIDE DEF p
        <3> QED
            BY <2>0, <3>1, <3>2
    <2>2. s = IF p[1] = Continuation THEN Frame ELSE p[1]
        BY Placing
    <2> HIDE DEF p
    <2>3. AllMaps'[p] = MapAt(p)'
        BY <2>1 DEF AllMaps
    <2>4. MapAt(p)' = Held(s, k)'
        <3>1. CASE k \in 1..3
            BY <2>1, <2>2, <3>1 DEF MapAt, Held
        <3>2. CASE k = 4
            BY <2>1, <2>2, <3>2 DEF MapAt, Held
        <3>3. CASE k = 5
            BY <2>1, <2>2, <3>3 DEF MapAt, Held, Own
        <3> QED
            BY <3>1, <3>2, <3>3
    <2>7. AllMaps'[p] = Held(s, k)'
        BY <2>3, <2>4
    <2> QED
        BY <2>7 DEF p
<1> QED
    BY <1>1, <1>2

(* The same for each of the five places of a strand.                       *)
LEMMA MapsInNext ==
    ASSUME NEW s \in Strands
    PROVE  /\ AllMaps'[<<Row(s), 1>>] = taken'[s][1]
           /\ AllMaps'[<<Row(s), 2>>] = taken'[s][2]
           /\ AllMaps'[<<Row(s), 3>>] = taken'[s][3]
           /\ AllMaps'[<<Row(s), 4>>] = map'[s]
           /\ AllMaps'[<<Row(s), 5>>] = IF s = Frame THEN NoMap ELSE slot'[s]
<1>1. 1 \in 1..5 /\ 2 \in 1..5 /\ 3 \in 1..5 /\ 4 \in 1..5 /\ 5 \in 1..5
    OBVIOUS
<1>2. /\ AllMaps'[<<Row(s), 1>>] = Held(s, 1)'
      /\ AllMaps'[<<Row(s), 2>>] = Held(s, 2)'
      /\ AllMaps'[<<Row(s), 3>>] = Held(s, 3)'
      /\ AllMaps'[<<Row(s), 4>>] = Held(s, 4)'
      /\ AllMaps'[<<Row(s), 5>>] = Held(s, 5)'
    BY <1>1, MapsAtNext
<1>3. /\ Held(s, 1)' = taken'[s][1] /\ Held(s, 2)' = taken'[s][2] /\ Held(s, 3)' = taken'[s][3]
      /\ Held(s, 4)' = map'[s] /\ Held(s, 5)' = IF s = Frame THEN NoMap ELSE slot'[s]
    BY DEF Held
<1> QED
    BY <1>2, <1>3

(* A place is the one in front or in the row of a strand. *)
LEMMA Rows ==
    ASSUME NEW p \in Places, p # <<0, 5>>
    PROVE  \E s \in Strands, k \in 1..5 : p = <<Row(s), k>>
BY Placing

(* In every place there is a map or none, before a step ...                *)
LEMMA MapTypes ==
    ASSUME TypeOK
    PROVE  AllMaps \in [Places -> AnyMap]
<1>1. ASSUME NEW p \in Places PROVE AllMaps[p] \in AnyMap
    <2>1. CASE p = <<0, 5>>
        BY <2>1, MapsAt, Constants DEF TypeOK, AnyMap
    <2>2. CASE p # <<0, 5>>
        <3>1. PICK s \in Strands, k \in 1..5 : p = <<Row(s), k>>
            BY <2>2, Rows
        <3>2. /\ map[s] \in AnyMap /\ slot[s] \in AnyMap /\ NoMap \in AnyMap
              /\ taken[s] \in Seq(AnyMap) /\ Len(taken[s]) = 3
            BY DEF TypeOK, AnyMap
        <3>3. k \in 1..3 => taken[s][k] \in AnyMap
            BY <3>2
        <3>4. Held(s, k) \in AnyMap
            BY <3>2, <3>3 DEF Held
        <3> QED
            BY <3>1, <3>4, MapsAt
    <2> QED
        BY <2>1, <2>2
<1> QED
    BY <1>1 DEF AllMaps

(* ... and after it.                                                       *)
LEMMA MapTypesNext ==
    ASSUME TypeOK'
    PROVE  AllMaps' \in [Places -> AnyMap]
<1>1. ASSUME NEW p \in Places PROVE AllMaps'[p] \in AnyMap
    <2>1. CASE p = <<0, 5>>
        BY <2>1, MapsAtNext, Constants DEF TypeOK, AnyMap
    <2>2. CASE p # <<0, 5>>
        <3>1. PICK s \in Strands, k \in 1..5 : p = <<Row(s), k>>
            BY <2>2, Rows
        <3>2. /\ map'[s] \in AnyMap /\ slot'[s] \in AnyMap /\ NoMap \in AnyMap
              /\ taken'[s] \in Seq(AnyMap) /\ Len(taken'[s]) = 3
            BY DEF TypeOK, AnyMap
        <3>3. k \in 1..3 => taken'[s][k] \in AnyMap
            BY <3>2
        <3>4. Held(s, k)' \in AnyMap
            BY <3>2, <3>3 DEF Held
        <3> QED
            BY <3>1, <3>4, MapsAtNext
    <2> QED
        BY <2>1, <2>2
<1> QED
    BY <1>1 DEF AllMaps

(* Where there is a map there is a strand that may hold one.               *)
LEMMA Present ==
    ASSUME TypeOK, ListOK, MapsOK, NEW p \in Places, AllMaps[p] # NoMap
    PROVE  \/ p = <<0, 5>> /\ unsynched
           \/ \E s \in Strands, k \in 1..5 :
                /\ p = <<Row(s), k>>
                /\ s # Frame => pc[s] \in Linked /\ s <= spawned
                /\ k \in 1..3 => pc[s] = "reduce"
                /\ k = 4 => pc[s] \in {"run", "ended", "reduced", "unwind"}
                /\ k = 5 => s # Frame
<1>1. CASE p = <<0, 5>>
    BY <1>1, MapsAt DEF MapsOK
<1>2. CASE p # <<0, 5>>
    <2>1. PICK s \in Strands, k \in 1..5 : p = <<Row(s), k>>
        BY <1>2, Rows
    <2>2. Held(s, k) # NoMap
        BY <2>1, MapsAt
    <2>3. k \in 1..3 => pc[s] = "reduce"
        BY <2>2 DEF MapsOK, Nothing, Held
    <2>4. k = 4 => pc[s] \in {"run", "ended", "reduced", "unwind"}
        BY <2>2 DEF MapsOK, Held
    <2>5. k = 5 => s # Frame /\ slot[s] # NoMap
        BY <2>2 DEF Held
    <2>7. s # Frame => s \in Kids
        BY Constants
    <2>6. k = 5 => pc[s] \in Linked
        BY <2>5, <2>7 DEF MapsOK
    <2>8. s # Frame => pc[s] \in Linked
        BY <2>3, <2>4, <2>6, <2>7 DEF ListOK, Linked
    <2>9. s # Frame => s <= spawned
        BY <2>7, <2>8, Constants DEF ListOK, Linked, TypeOK
    <2> QED
        BY <2>1, <2>3, <2>4, <2>5, <2>8, <2>9
<1> QED
    BY <1>1, <1>2

(* The place to its left where a strand leaves its map.                    *)
LeftPlace(s) == IF LeftOf(s) = Frame THEN <<0, 5>> ELSE <<LeftOf(s), 5>>

(* No map and no child that runs is between a strand and the place to its  *)
(* left (scheduler.c compute_left_ptrs).                                   *)
LEMMA Beside ==
    ASSUME TypeOK, ListOK, MapsOK, NEW s \in Strands, s = Frame \/ pc[s] \in Linked
    PROVE  /\ LeftPlace(s) \in Places /\ LeftPlace(s)[1] < Row(s)
           /\ AllMaps[LeftPlace(s)] = slot[LeftOf(s)]
           /\ \A p \in Places : AllMaps[p] # NoMap =>
                 \/ p[1] = Row(s) \/ p = LeftPlace(s) \/ Before(p, LeftPlace(s)) \/ p[1] > Row(s)
           /\ \A d \in Kids : d # s /\ pc[d] \in Linked =>
                 \A k \in 1..5 : Upto(LeftPlace(s), d) <=> Upto(<<Row(s), k>>, d)
<1> DEFINE L == LeftOf(s)
           lp == LeftPlace(s)
<1>c. /\ MaxKids \in Nat /\ Kids = 1..MaxKids /\ Strands = 0..MaxKids /\ Frame = 0
      /\ Continuation = MaxKids + 1 /\ Row(s) = IF s = Frame THEN Continuation ELSE s
    BY Constants, Placing DEF Row
<1>1. /\ L \in Strands
      /\ L # Frame => L \in Kids /\ pc[L] \in Linked /\ (s # Frame => L < s)
      /\ s # Frame => L < s
      /\ \A c \in Kids : c > L /\ pc[c] \in Linked /\ c # s => s # Frame /\ c > s
    BY ToTheLeft DEF TypeOK
<1> HIDE DEF L
<1>2. /\ L = Frame => lp = <<0, 5>>
      /\ L # Frame => lp = <<L, 5>>
    BY DEF L, LeftPlace
<1>3. L # Frame => Row(L) = L
    BY DEF Row
<1> HIDE DEF lp
<1>4. lp \in Places /\ lp[1] = L /\ lp[2] = 5 /\ L < Row(s)
    <2>1. CASE L = Frame
        <3>1. lp = <<0, 5>> /\ Row(s) \in 1..Continuation /\ <<0, 5>> \in Places
            BY <2>1, <1>2, Placing
        <3> QED
            BY <3>1, <2>1, <1>c
    <2>2. CASE L # Frame
        <3>1. lp = <<L, 5>> /\ L \in 1..Continuation /\ L < Row(s)
            BY <2>2, <1>1, <1>2, <1>c
        <3>2. <<L, 5>> \in Places
            BY <3>1, Placing
        <3> QED
            BY <3>1, <3>2
    <2> QED
        BY <2>1, <2>2
<1>5. AllMaps[lp] = slot[L]
    <2>1. CASE L = Frame
        BY <2>1, <1>2, MapsAt
    <2>2. CASE L # Frame
        <3>1. AllMaps[<<Row(L), 5>>] = slot[L]
            BY <1>1, <2>2, MapsIn
        <3> QED
            BY <3>1, <2>2, <1>2, <1>3
    <2> QED
        BY <2>1, <2>2
<1>6. ASSUME NEW p \in Places, AllMaps[p] # NoMap
      PROVE  p[1] = Row(s) \/ p = lp \/ Before(p, lp) \/ p[1] > Row(s)
    <2>1. CASE p = <<0, 5>>
        BY <2>1, <1>1, <1>2, <1>4, <1>c DEF Before
    <2>2. CASE p # <<0, 5>>
        <3>1. PICK t \in Strands, k \in 1..5 : p = <<Row(t), k>> /\ (t # Frame => pc[t] \in Linked)
            BY <1>6, <2>2, Present
        <3>2. CASE t = s
            BY <3>1, <3>2
        <3>3. CASE t # s /\ t = Frame
            <4>1. p[1] = Continuation /\ Row(s) = s /\ s <= MaxKids
                BY <3>1, <3>3, <1>c DEF Row
            <4> QED
                BY <4>1, <1>c
        <3>4. CASE t # s /\ t # Frame
            <4>1. p[1] = t /\ t \in Kids /\ pc[t] \in Linked
                BY <3>1, <3>4, <1>c DEF Row
            <4>2. CASE t > L
                BY <4>1, <4>2, <3>4, <1>1, <1>c
            <4>3. CASE t < L
                BY <4>1, <4>3, <1>4 DEF Before
            <4>4. CASE t = L
                <5>1. L # Frame
                    BY <4>4, <3>4
                <5>2. lp = <<L, 5>> /\ p = <<L, k>> /\ k <= 5 /\ k \in Int
                    BY <5>1, <1>2, <3>1, <4>1, <4>4
                <5> QED
                    BY <5>2 DEF Before
            <4> QED
                BY <4>1, <4>2, <4>3, <4>4, <1>1, <1>c
        <3> QED
            BY <3>2, <3>3, <3>4
    <2> QED
        BY <2>1, <2>2
<1>7. ASSUME NEW d \in Kids, d # s, pc[d] \in Linked, NEW k \in 1..5
      PROVE  Upto(lp, d) <=> Upto(<<Row(s), k>>, d)
    <2>1. CASE d > L
        <3>1. s # Frame /\ d > s /\ Row(s) = s
            BY <2>1, <1>7, <1>1, <1>c
        <3> QED
            BY <3>1, <2>1, <1>4 DEF Upto
    <2>2. CASE ~(d > L)
        <3>1. d <= L /\ d < Row(s) /\ Row(s) \in Int /\ d \in Int /\ L \in Int
            BY <2>2, <1>1, <1>4, <1>c
        <3> QED
            BY <3>1, <1>4 DEF Upto
    <2> QED
        BY <2>1, <2>2
<1> QED
    BY <1>4, <1>5, <1>6, <1>7 DEF L, lp

-----------------------------------------------------------------------------
(* The views: steps that move no map.                                      *)
-----------------------------------------------------------------------------
(* No number is greater than what the frame has spawned so far. *)
LEMMA WrittenSoFar ==
    ASSUME TypeOK, MapsOK, NEW r \in Reducers
    PROVE  \A x \in AllWritten[r] : x \in Int /\ -1 <= x /\ x <= 2 * spawned
<1>1. spawned \in Nat
    BY Positions
<1>2. \A u \in updated : u[2] \in 0..(2 * spawned)
    BY DEF MapsOK
<1>3. AllWritten[r] = Written(r)
    BY DEF AllWritten
<1>4. ASSUME NEW x \in Written(r) PROVE x = -1 \/ \E u \in updated : x = u[2]
    BY DEF Written
<1> QED
    BY <1>1, <1>2, <1>3, <1>4

(* What there is is before the children to come. *)
LEMMA NewBound ==
    ASSUME TypeOK, MapsOK, NEW r \in Reducers, NEW M \in [Places -> AnyMap],
           Complete(ViewsOf(M, r), AllWritten[r]),
           NEW c \in Int, c = spawned + 1, \A p \in Places : M[p] # NoMap => Upto(p, c)
    PROVE  Bounded(ViewsOf(M, r), c)
<1>1. spawned \in Nat
    BY Positions
<1>2. ASSUME NEW e \in Cells(ViewsOf(M, r))
      PROVE  Upto(e[1], c) /\ Number(ViewsOf(M, r), e) <= 2 * c - 1
    <2>1. e[1] \in Places /\ M[e[1]] # NoMap
        BY ViewsAt
    <2>2. Number(ViewsOf(M, r), e) \in AllWritten[r]
        BY DEF Complete
    <2>3. Number(ViewsOf(M, r), e) \in Int /\ Number(ViewsOf(M, r), e) <= 2 * spawned
        BY <2>2, WrittenSoFar
    <2> QED
        BY <2>1, <2>3, <1>1
<1> QED
    BY <1>2 DEF Bounded

(* Strands that hold no map change their state, or go on with the one they *)
(* have.                                                                   *)
LEMMA MapsStay ==
    ASSUME TypeOK, MapsOK, slot' = slot, map' = map, taken' = taken, updated' = updated,
           spawned' \in Nat, spawned <= spawned', unsynched => unsynched',
           \A s \in Strands : \/ pc'[s] = pc[s]
                              \/ pc[s] \in {"unborn", "left"}
                              \/ pc[s] = "pending" /\ pc'[s] = "run"
                              \/ pc[s] = "run" /\ pc'[s] = "ended"
    PROVE  MapsOK'
<1>0. spawned \in Nat /\ \A c \in Kids : c \in Strands
    BY Positions, Constants
<1>1. \A s \in Strands : map'[s] # NoMap => pc'[s] \in {"run", "ended", "reduced", "unwind"}
    BY DEF MapsOK
<1>2. \A s \in Strands : taken'[s] # Nothing => pc'[s] = "reduce"
    BY DEF MapsOK
<1>3. \A c \in Kids : slot'[c] # NoMap => pc'[c] \in Linked
    BY <1>0 DEF MapsOK, Linked
<1>4. slot'[Frame] # NoMap => unsynched'
    BY DEF MapsOK
<1>5. \A u \in updated' : u[2] \in 0..(2 * spawned')
    BY <1>0 DEF MapsOK
<1> QED
    BY <1>1, <1>2, <1>3, <1>4, <1>5 DEF MapsOK

(* No map is moved and nothing is added to one. *)
LEMMA ViewsStay ==
    ASSUME TypeOK, ViewsOK, slot' = slot, map' = map, taken' = taken, updated' = updated,
           mixed' \in BOOLEAN, mixed => mixed', MapsOK', kids' = kids \/ LeftmostOK',
           ~mixed' => \A c \in Running', r \in Reducers :
                         c \in Running \/ Bounded(ViewsOf(AllMaps, r), c)
    PROVE  ViewsOK'
<1>1. AllMaps' = AllMaps /\ AllWritten' = AllWritten
    BY DEF AllMaps, MapAt, Own, AllWritten, Written
<1>2. LeftmostOK'
    BY <1>1 DEF ViewsOK, LeftmostOK, FarLeft
<1>3. mixed \in BOOLEAN
    BY DEF TypeOK
<1>4. InPlace(AllMaps, AllWritten, mixed, Running)
    BY DEF ViewsOK
<1>5. InPlace(AllMaps, AllWritten, mixed', Running')
    BY <1>3, <1>4 DEF InPlace
<1> QED
    BY <1>1, <1>2, <1>5 DEF ViewsOK

(* A pending child is made when its parent has no map, or in the middle of *)
(* the one it has (cilk-abi.c:238-276).                                    *)
LEMMA ViewsPending ==
    ASSUME TypeOK, ListOK, SyncOK, ViewsOK, SpawnPending, TypeOK'
    PROVE  ViewsOK'
<1> DEFINE c == spawned + 1
<1>1. /\ c \in Kids /\ c \in Int /\ spawned \in Nat /\ spawned' = c /\ c \in Strands /\ c # Frame
      /\ pc[Frame] = "run"
    <2>1. pc[Frame] = "run" /\ spawned < MaxKids /\ spawned' = c
        BY DEF SpawnPending
    <2> QED
        BY <2>1, Constants, Positions
<1>2. pc' = [pc EXCEPT ![c] = "pending"] /\ kids' = Append(kids, c)
    BY DEF SpawnPending
<1>3. pc[c] = "unborn"
    BY <1>1 DEF ListOK
<1>4. pc'[c] = "pending" /\ \A s \in Strands : s # c => pc'[s] = pc[s]
    BY <1>1, <1>2 DEF TypeOK
<1>5. slot' = slot /\ map' = map /\ taken' = taken /\ updated' = updated /\ unsynched' = TRUE
    BY DEF SpawnPending, maps
<1>6. /\ mixed' \in BOOLEAN /\ mixed \in BOOLEAN /\ (mixed => mixed')
      /\ ~mixed' => map[Frame] = NoMap
    BY DEF SpawnPending, TypeOK
<1>7. MapsOK'
    <2>1. spawned' \in Nat /\ spawned <= spawned'
        BY <1>1
    <2>2. \A s \in Strands : pc'[s] = pc[s] \/ pc[s] \in {"unborn", "left"}
        BY <1>3, <1>4
    <2> QED
        BY <2>1, <2>2, <1>5, MapsStay DEF ViewsOK
<1>8. LeftmostOK'
    <2>1. kids # <<>> /\ kids \in Seq(Kids)
        <3>1. PICK elder \in ToSet(kids) : TRUE
            BY DEF SpawnPending
        <3> QED
            BY <3>1 DEF ToSet, TypeOK
    <2>2. kids' # <<>> /\ kids'[1] = kids[1]
        BY <2>1, <1>1, <1>2, EmptySeq
    <2>3. AllMaps' = AllMaps
        BY <1>5 DEF AllMaps, MapAt, Own
    <2> QED
        BY <2>1, <2>2, <2>3 DEF ViewsOK, LeftmostOK, FarLeft
<1> HIDE DEF c
<1>9. ASSUME ~mixed', NEW r \in Reducers PROVE Bounded(ViewsOf(AllMaps, r), c)
    <2>1. AllMaps \in [Places -> AnyMap]
        BY MapTypes
    <2>2. Complete(ViewsOf(AllMaps, r), AllWritten[r])
        BY DEF ViewsOK, InPlace
    <2>3. ASSUME NEW p \in Places, AllMaps[p] # NoMap PROVE Upto(p, c)
        <3>1. CASE p = <<0, 5>>
            BY <3>1, <1>1, Constants DEF Upto
        <3>2. CASE p # <<0, 5>>
            <4>1. PICK s \in Strands, k \in 1..5 :
                      /\ p = <<Row(s), k>>
                      /\ s # Frame => s <= spawned
                      /\ k \in 1..3 => pc[s] = "reduce"
                      /\ k = 5 => s # Frame
                BY <2>3, <3>2, Present DEF ViewsOK
            <4>2. s # Frame
                <5> SUFFICES ASSUME s = Frame PROVE FALSE
                    OBVIOUS
                <5>1. k = 4
                    BY <4>1, <1>1
                <5> QED
                    BY <5>1, <4>1, <2>3, <1>6, <1>9, MapsIn
            <4>3. p[1] = s /\ s < c /\ s \in Int
                BY <4>1, <4>2, <1>1, Placing, Positions DEF c
            <4> QED
                BY <4>3 DEF Upto
        <3> QED
            BY <3>1, <3>2
    <2> QED
        BY <2>1, <2>2, <2>3, <1>1, NewBound DEF ViewsOK, c
<1>10. \A d \in Running' : d \in Running \/ d = c
    BY <1>4, Constants DEF Running
<1> QED
    BY <1>5, <1>6, <1>7, <1>8, <1>9, <1>10, ViewsStay

(* A strand that starts, ends or is done with moves no map, and there is   *)
(* no other child that runs.                                               *)
LEMMA ViewsIdle ==
    ASSUME TypeOK, ViewsOK, UNCHANGED <<slot, map, taken, updated, mixed, kids, spawned, unsynched>>,
           \A s \in Strands : \/ pc'[s] = pc[s]
                              \/ pc[s] = "left" /\ pc'[s] = "done"
                              \/ pc[s] = "pending" /\ pc'[s] = "run"
                              \/ pc[s] = "run" /\ pc'[s] = "ended"
    PROVE  ViewsOK'
<1>1. MapsOK'
    <2>1. spawned \in Nat
        BY Positions
    <2> QED
        BY <2>1, MapsStay DEF ViewsOK
<1>2. \A c \in Running' : c \in Running
    BY Constants DEF Running
<1>3. mixed' \in BOOLEAN /\ mixed' = mixed
    BY DEF TypeOK
<1> QED
    BY <1>1, <1>2, <1>3, ViewsStay

-----------------------------------------------------------------------------
(* The views: an update.                                                   *)
-----------------------------------------------------------------------------
(* A number is added at the end of one view. *)
LEMMA Appending ==
    ASSUME NEW v \in Seqs, NEW u \in Seqs, NEW p \in Places, NEW x \in Int,
           u[p] = Append(v[p], x), \A q \in Places \ {p} : u[q] = v[q]
    PROVE  /\ \A written : x \notin written /\ Complete(v, written) => Complete(u, written \cup {x})
           /\ /\ Sorted(v)
              /\ \A e \in Cells(v) : IF e[1] = p \/ Before(e[1], p) THEN Number(v, e) < x
                                                                   ELSE Number(v, e) > x
              => Sorted(u)
           /\ \A c : /\ Bounded(v, c)
                     /\ IF Upto(p, c) THEN x <= 2 * c - 1 ELSE x > 2 * c - 1
                     => Bounded(u, c)
<1> DEFINE n == <<p, Len(v[p]) + 1>>
<1>1. v[p] \in Seq(Int) /\ Len(v[p]) \in Nat
    BY InCells
<1>2. Len(u[p]) = Len(v[p]) + 1 /\ u[p][Len(v[p]) + 1] = x /\ \A i \in 1..Len(v[p]) : u[p][i] = v[p][i]
    BY <1>1
<1>3. n \in Cells(u) /\ Number(u, n) = x /\ n[1] = p /\ n[2] = Len(v[p]) + 1
    BY <1>1, <1>2, InCells
<1>4. ASSUME NEW e \in Cells(v) PROVE e \in Cells(u) /\ Number(u, e) = Number(v, e)
    <2>1. /\ e[1] \in Places /\ e[2] \in 1..Len(v[e[1]]) /\ e = <<e[1], e[2]>>
          /\ Number(v, e) = v[e[1]][e[2]]
        BY InCells
    <2>2. e[2] \in 1..Len(u[e[1]]) /\ u[e[1]][e[2]] = v[e[1]][e[2]]
        <3>1. CASE e[1] = p
            <4>1. e[2] \in 1..Len(v[p]) /\ e[2] \in 1..(Len(v[p]) + 1)
                BY <3>1, <2>1, <1>1
            <4> QED
                BY <4>1, <3>1, <1>2
        <3>2. CASE e[1] # p
            BY <3>2, <2>1
        <3> QED
            BY <3>1, <3>2
    <2>3. e[2] \in Int /\ 1 <= e[2] /\ e[2] <= Len(u[e[1]])
        <3>1. Len(u[e[1]]) \in Nat
            BY <2>1, InCells
        <3> QED
            BY <3>1, <2>2
    <2> QED
        BY <2>1, <2>2, <2>3, InCells
<1>5. ASSUME NEW e \in Cells(u), e # n PROVE e \in Cells(v)
    <2>1. e[1] \in Places /\ e[2] \in 1..Len(u[e[1]]) /\ e = <<e[1], e[2]>>
        BY InCells
    <2>2. Len(v[e[1]]) \in Nat
        BY <2>1, InCells
    <2>3. e[2] \in Int /\ 1 <= e[2] /\ e[2] <= Len(v[e[1]])
        <3>1. CASE e[1] = p
            <4>1. e[2] \in 1..(Len(v[p]) + 1) /\ e[2] # Len(v[p]) + 1
                BY <3>1, <2>1, <1>2, <1>5
            <4> QED
                BY <4>1, <3>1, <1>1
        <3>2. CASE e[1] # p
            BY <3>2, <2>1, <2>2
        <3> QED
            BY <3>1, <3>2
    <2> QED
        BY <2>1, <2>3, InCells
<1> HIDE DEF n
<1>6. ASSUME NEW written, x \notin written, Complete(v, written)
      PROVE  Complete(u, written \cup {x})
    <2>1. ASSUME NEW e \in Cells(u) PROVE Number(u, e) \in written \cup {x}
        BY <1>3, <1>4, <1>5, <1>6 DEF Complete
    <2>2. ASSUME NEW y \in written \cup {x} PROVE \E e \in Cells(u) : Number(u, e) = y
        BY <1>3, <1>4, <1>6 DEF Complete
    <2>3. ASSUME NEW e \in Cells(u), NEW f \in Cells(u), Number(u, e) = Number(u, f) PROVE e = f
        BY <2>3, <1>3, <1>4, <1>5, <1>6 DEF Complete
    <2> QED
        BY <2>1, <2>2, <2>3 DEF Complete
<1>7. ASSUME Sorted(v),
             \A e \in Cells(v) : IF e[1] = p \/ Before(e[1], p) THEN Number(v, e) < x
                                                               ELSE Number(v, e) > x
      PROVE  Sorted(u)
    <2> SUFFICES ASSUME NEW e \in Cells(u), NEW f \in Cells(u), Prior(e, f)
                 PROVE  Number(u, e) < Number(u, f)
        BY DEF Sorted
    <2>1. CASE e # n /\ f # n
        <3>1. e \in Cells(v) /\ f \in Cells(v) /\ Number(u, e) = Number(v, e) /\ Number(u, f) = Number(v, f)
            BY <2>1, <1>4, <1>5
        <3> QED
            BY <3>1, <1>7 DEF Sorted
    <2>2. CASE e # n /\ f = n
        <3>1. e \in Cells(v) /\ Number(u, e) = Number(v, e) /\ Number(u, f) = x
            BY <2>2, <1>3, <1>4, <1>5
        <3>2. e[1] = p \/ Before(e[1], p)
            BY <2>2, <1>3 DEF Prior
        <3> QED
            BY <3>1, <3>2, <1>7
    <2>3. CASE e = n /\ f # n
        <3>1. f \in Cells(v) /\ Number(u, f) = Number(v, f) /\ Number(u, e) = x
            BY <2>3, <1>3, <1>4, <1>5
        <3>2. f[1] \in Places /\ f[2] \in 1..Len(v[f[1]]) /\ Number(v, f) \in Int
            BY <3>1, InCells
        <3>3. ~(f[1] = p)
            <4> SUFFICES ASSUME f[1] = p PROVE FALSE
                OBVIOUS
            <4>1. n[2] < f[2] /\ f[2] \in 1..Len(v[p])
                BY <2>3, <1>3, <3>2, PlacesInOrder DEF Prior
            <4> QED
                BY <4>1, <1>1, <1>3
        <3>4. ~Before(f[1], p)
            BY <2>3, <3>2, <3>3, <1>3, PlacesInOrder DEF Prior
        <3> QED
            BY <3>1, <3>2, <3>3, <3>4, <1>7
    <2>4. CASE e = n /\ f = n
        BY <2>4, CellsInOrder
    <2> QED
        BY <2>1, <2>2, <2>3, <2>4
<1>8. ASSUME NEW c, Bounded(v, c), IF Upto(p, c) THEN x <= 2 * c - 1 ELSE x > 2 * c - 1
      PROVE  Bounded(u, c)
    <2> SUFFICES ASSUME NEW e \in Cells(u)
                 PROVE  IF Upto(e[1], c) THEN Number(u, e) <= 2 * c - 1 ELSE Number(u, e) > 2 * c - 1
        BY DEF Bounded
    <2>1. CASE e = n
        BY <2>1, <1>3, <1>8
    <2>2. CASE e # n
        <3>1. e \in Cells(v) /\ Number(u, e) = Number(v, e)
            BY <2>2, <1>4, <1>5
        <3> QED
            BY <3>1, <1>8 DEF Bounded
    <2> QED
        BY <2>1, <2>2
<1> QED
    BY <1>6, <1>7, <1>8

(* A strand adds to its own view (reducer_impl.cpp __cilkrts_hyper_lookup):*)
(* it is to the right of what is there, as it is of the leftmost map.      *)
LEMMA ViewsUpdate ==
    ASSUME TypeOK, ListOK, ViewsOK, NEW s \in Strands, NEW r \in Reducers, Update(s, r), TypeOK'
    PROVE  ViewsOK'
<1> DEFINE x == Position(s)
           p == <<Row(s), 4>>
           M == AllMaps
           N == AllMaps'
<1>c. /\ MaxKids \in Nat /\ Strands = 0..MaxKids /\ Kids = 1..MaxKids /\ Frame = 0
      /\ Continuation = MaxKids + 1 /\ Row(s) = IF s = Frame THEN Continuation ELSE s
    BY Constants, Placing DEF Row
<1>1. /\ pc[s] = "run" /\ <<r, x>> \notin updated
      /\ map' = [map EXCEPT ![s] = Looked(map[s], r, x)]
      /\ updated' = updated \cup {<<r, x>>}
      /\ pc' = pc /\ slot' = slot /\ taken' = taken /\ mixed' = mixed /\ kids' = kids
      /\ spawned' = spawned /\ unsynched' = unsynched
    BY DEF Update, tree
<1>2. spawned \in Nat /\ x \in Int /\ x = IF s = Frame THEN 2 * spawned ELSE 2 * s - 1
    BY Positions DEF Position
<1>3. s # Frame => s \in Kids /\ s <= spawned /\ 1 <= s
    BY <1>c, <1>1, <1>2 DEF ListOK
<1>4. x \in 0..(2 * spawned)
    BY <1>c, <1>2, <1>3
<1> HIDE DEF x
<1>5. /\ map' \in [Strands -> AnyMap] /\ map[s] \in AnyMap
      /\ map'[s] = Looked(map[s], r, x) /\ \A t \in Strands : t # s => map'[t] = map[t]
    BY <1>1 DEF TypeOK, AnyMap
<1>6. MapsOK'
    <2>1. \A t \in Strands : map'[t] # NoMap => pc'[t] \in {"run", "ended", "reduced", "unwind"}
        BY <1>1, <1>5 DEF ViewsOK, MapsOK
    <2>2. /\ \A t \in Strands : taken'[t] # Nothing => pc'[t] = "reduce"
          /\ \A c \in Kids : slot'[c] # NoMap => pc'[c] \in Linked
          /\ slot'[Frame] # NoMap => unsynched'
        BY <1>1 DEF ViewsOK, MapsOK
    <2>3. \A u \in updated' : u[2] \in 0..(2 * spawned')
        BY <1>1, <1>4 DEF ViewsOK, MapsOK
    <2> QED
        BY <2>1, <2>2, <2>3 DEF MapsOK
<1>7. p \in Places /\ p[1] = Row(s) /\ p[2] = 4 /\ M[p] = map[s] /\ N[p] = Looked(map[s], r, x)
    <2>1. 4 \in 1..5 /\ Row(s) \in 1..Continuation
        BY Placing
    <2> QED
        BY <2>1, <1>5, Placing, MapsIn, MapsInNext
<1>8. ASSUME NEW q \in Places, q # p PROVE N[q] = M[q]
    <2>1. CASE q = <<0, 5>>
        BY <2>1, <1>1, MapsAt, MapsAtNext
    <2>2. CASE q # <<0, 5>>
        <3>1. PICK t \in Strands, k \in 1..5 : q = <<Row(t), k>>
            BY <2>2, Rows
        <3>2. t # s \/ k # 4
            BY <3>1, <1>8
        <3>3. Held(t, k)' = Held(t, k)
            BY <3>2, <1>1, <1>5 DEF Held
        <3> QED
            BY <3>1, <3>3, MapsAt, MapsAtNext
    <2> QED
        BY <2>1, <2>2
<1>9. M \in [Places -> AnyMap] /\ N \in [Places -> AnyMap]
    BY MapTypes, MapTypesNext
<1>10. /\ N[p] \in Map /\ N[p] # NoMap /\ (Leads(N[p]) <=> Leads(M[p]))
       /\ ViewIn(N[p], r) = Append(ViewIn(M[p], r), x)
       /\ \A q \in Reducers \ {r} : ViewIn(N[p], q) = ViewIn(M[p], q)
    <2> DEFINE m == map[s]
               n == Looked(m, r, x)
    <2>1. N[p] = n /\ M[p] = m /\ m \in AnyMap
        BY <1>5, <1>7
    <2>2. /\ n \in Map /\ n.is_leftmost = (m # NoMap /\ m.is_leftmost)
          /\ ViewIn(n, r) = Append(ViewIn(m, r), x)
          /\ \A q \in Reducers \ {r} : ViewIn(n, q) = ViewIn(m, q)
        BY <2>1, <1>2, Updating
    <2> HIDE DEF m, n, M, N, p
    <2>3. n # NoMap /\ (Leads(n) <=> Leads(m))
        BY <2>2, Constants DEF Leads
    <2> QED
        BY <2>1, <2>2, <2>3
<1>11. p = <<Continuation, 4>> => \A q \in Places : Before(p, q) => M[q] = NoMap
    <2> SUFFICES ASSUME p = <<Continuation, 4>>, NEW q \in Places, Before(p, q) PROVE M[q] = NoMap
        OBVIOUS
    <2>1. s = Frame
        BY <1>7, <1>c
    <2>2. q = <<q[1], q[2]>> /\ q[1] \in 0..Continuation /\ q[2] \in 1..5
        BY Placing
    <2>3. q[1] = Continuation /\ q[2] = 5
        BY <2>2, <1>7, <1>c DEF Before
    <2>4. q = <<Row(s), 5>>
        BY <2>1, <2>2, <2>3, <1>c
    <2> QED
        BY <2>1, <2>4, MapsIn
<1>12. LeftmostOK'
    <2>1. PICK l \in Places : Leading(M, l) /\ FarLeft(l)
        BY DEF ViewsOK, LeftmostOK
    <2>2. FarLeft(l)'
        BY <2>1, <1>1 DEF FarLeft
    <2>3. l = <<l[1], l[2]>> /\ l[1] \in 0..Continuation /\ l[2] \in 1..5
        BY Placing
    <2>4. ~Before(p, l)
        <3>1. CASE s = Frame
            <4>1. M[l] # NoMap
                BY <2>1 DEF Leading, Leads
            <4> QED
                BY <3>1, <4>1, <1>11, <1>7, <1>c
        <3>2. CASE s # Frame
            <4>1. kids # <<>> /\ kids[1] <= s /\ kids[1] \in Kids
                <5>1. s \in Kids /\ pc[s] \in Linked
                    BY <3>2, <1>1, <1>3 DEF Linked
                <5>2. kids # <<>>
                    BY <5>1 DEF ListOK
                <5> QED
                    BY <5>1, <5>2, Leftmost
            <4>2. l[1] = 0 \/ (l[1] = kids[1] /\ l[2] <= 4)
                <5> HIDE DEF M
                <5>1. FarLeft(l) /\ kids # <<>>
                    BY <2>1, <4>1
                <5> QED
                    BY <5>1 DEF FarLeft
            <4>3. p[1] = s /\ p[2] = 4 /\ s \in 1..MaxKids
                BY <3>2, <1>c, <1>3, <1>7
            <4> QED
                BY <4>1, <4>2, <4>3, <2>3, <1>c DEF Before
        <3> QED
            BY <3>1, <3>2
    <2>5. Leads(N[l])
        BY <2>1, <1>8, <1>10 DEF Leading
    <2>6. \A q \in Places : Before(q, l) => N[q] = NoMap
        BY <2>1, <2>4, <1>8 DEF Leading
    <2>7. \A q \in Places : Before(l, q) => ~Leads(N[q])
        BY <2>1, <1>8, <1>10 DEF Leading
    <2> QED
        BY <2>2, <2>5, <2>6, <2>7 DEF LeftmostOK, Leading
<1>13. ASSUME NEW q \in Reducers
       PROVE  /\ Complete(ViewsOf(M, q), AllWritten[q])
              /\ mixed \/ /\ Sorted(ViewsOf(M, q))
                          /\ \A c \in Running : Bounded(ViewsOf(M, q), c)
    BY DEF ViewsOK, InPlace
<1>14. ASSUME NEW q \in Reducers
       PROVE  /\ Complete(ViewsOf(N, q), AllWritten'[q])
              /\ mixed \/ /\ Sorted(ViewsOf(N, q))
                          /\ \A c \in Running : Bounded(ViewsOf(N, q), c)
    <2> DEFINE v == ViewsOf(M, q)
               u == ViewsOf(N, q)
    <2>1. /\ v \in Seqs /\ u \in Seqs
          /\ \A o \in Places : v[o] = ViewIn(M[o], q) /\ u[o] = ViewIn(N[o], q)
          /\ \A e \in Cells(v) : e[1] \in Places /\ M[e[1]] # NoMap
        BY <1>9, ViewsAt
    <2>2. \A o \in Places \ {p} : u[o] = v[o]
        BY <2>1, <1>8
    <2>3. AllWritten[q] = Written(q) /\ AllWritten'[q] = Written(q)'
        BY DEF AllWritten
    <2>4. CASE q # r
        <3>1. u[p] = ViewIn(N[p], q) /\ v[p] = ViewIn(M[p], q)
            BY <2>1, <1>7
        <3>2. u[p] = v[p]
            BY <3>1, <2>4, <1>10
        <3>3. u = v
            <4> HIDE DEF u, v, p
            <4>1. \A o \in Places : u[o] = v[o]
                BY <3>2, <2>2
            <4> QED
                BY <4>1, <2>1 DEF Seqs
        <3>4. AllWritten'[q] = AllWritten[q]
            BY <2>3, <2>4, <1>1 DEF Written
        <3> QED
            BY <3>3, <3>4, <1>13
    <2>5. CASE q = r
        <3>1. u[p] = Append(v[p], x)
            <4>1. u[p] = ViewIn(N[p], r) /\ v[p] = ViewIn(M[p], r)
                BY <2>1, <2>5, <1>7
            <4> QED
                BY <4>1, <1>10
        <3> HIDE DEF v, u
        <3>2. AllWritten'[q] = AllWritten[q] \cup {x}
            BY <2>3, <2>5, <1>1 DEF Written
        <3>3. x \notin AllWritten[q]
            <4> SUFFICES ASSUME x \in Written(q) PROVE FALSE
                BY <2>3
            <4>1. x # -1
                BY <1>4
            <4>2. PICK o \in updated : o[1] = r /\ x = o[2]
                BY <4>1, <2>5 DEF Written
            <4>3. o = <<o[1], o[2]>>
                BY DEF TypeOK
            <4> QED
                BY <4>2, <4>3, <1>1
        <3>4. Complete(v, AllWritten[q]) /\ (mixed \/ (Sorted(v) /\ \A c \in Running : Bounded(v, c)))
            BY <1>13 DEF v
        <3>5. /\ \A written : x \notin written /\ Complete(v, written) => Complete(u, written \cup {x})
              /\ /\ Sorted(v)
                 /\ \A e \in Cells(v) : IF e[1] = p \/ Before(e[1], p) THEN Number(v, e) < x
                                                                      ELSE Number(v, e) > x
                 => Sorted(u)
              /\ \A c : /\ Bounded(v, c)
                        /\ IF Upto(p, c) THEN x <= 2 * c - 1 ELSE x > 2 * c - 1
                        => Bounded(u, c)
            <4>1. v \in Seqs /\ u \in Seqs /\ p \in Places /\ x \in Int
                BY <2>1, <1>2, <1>7
            <4> HIDE DEF p, M, N
            <4> QED
                BY <4>1, <3>1, <2>2, Appending
        <3>6. Complete(u, AllWritten'[q])
            BY <3>2, <3>3, <3>4, <3>5
        <3>7. ASSUME ~mixed PROVE Sorted(u)
            <4>1. ASSUME NEW e \in Cells(v)
                  PROVE  IF e[1] = p \/ Before(e[1], p) THEN Number(v, e) < x ELSE Number(v, e) > x
                <5>1. e[1] \in Places /\ M[e[1]] # NoMap /\ Number(v, e) \in Int
                    BY <2>1, InCells
                <5>2. Number(v, e) \in AllWritten[q] /\ Number(v, e) # x
                    BY <3>3, <3>4 DEF Complete
                <5>3. CASE s = Frame
                    <6>1. Number(v, e) <= 2 * spawned
                        BY <5>2, WrittenSoFar DEF ViewsOK
                    <6>2. e[1] = p \/ Before(e[1], p)
                        <7>1. p = <<Continuation, 4>>
                            BY <5>3, <1>c
                        <7> QED
                            BY <7>1, <5>1, <1>7, <1>11, PlacesInOrder
                    <6> QED
                        BY <6>1, <6>2, <5>1, <5>2, <5>3, <1>2
                <5>4. CASE s # Frame
                    <6>1. s \in Running
                        BY <5>4, <1>1, <1>3 DEF Running
                    <6>2. Bounded(v, s)
                        BY <6>1, <3>4, <3>7
                    <6>3. Upto(e[1], s) <=> e[1] = p \/ Before(e[1], p)
                        <7>1. e[1] = <<e[1][1], e[1][2]>> /\ e[1][1] \in Int /\ e[1][2] \in 1..5
                            BY <5>1, <1>c, Placing
                        <7>2. p = <<s, 4>> /\ s \in Int
                            BY <5>4, <1>c
                        <7> QED
                            BY <7>1, <7>2 DEF Upto, Before
                    <6>4. x = 2 * s - 1
                        BY <5>4, <1>2
                    <6>5. IF Upto(e[1], s) THEN Number(v, e) <= 2 * s - 1 ELSE Number(v, e) > 2 * s - 1
                        BY <6>2 DEF Bounded
                    <6> QED
                        BY <6>3, <6>4, <6>5, <5>1, <5>2, <1>2
                <5> QED
                    BY <5>3, <5>4
            <4> QED
                BY <4>1, <3>4, <3>7, <3>5
        <3>8. ASSUME ~mixed, NEW c \in Running PROVE Bounded(u, c)
            <4>1. c \in Int /\ c <= spawned /\ c <= MaxKids
                BY <1>c, <1>2 DEF Running, ListOK
            <4>2. IF Upto(p, c) THEN x <= 2 * c - 1 ELSE x > 2 * c - 1
                BY <4>1, <1>c, <1>2, <1>3, <1>7 DEF Upto
            <4> QED
                BY <4>2, <3>4, <3>8, <3>5
        <3> QED
            BY <3>6, <3>7, <3>8 DEF u
    <2> QED
        BY <2>4, <2>5
<1>15. Running' = Running
    BY <1>1 DEF Running
<1>16. InPlace(AllMaps, AllWritten, mixed, Running)'
    BY <1>1, <1>14, <1>15 DEF InPlace
<1> QED
    BY <1>6, <1>12, <1>16 DEF ViewsOK

-----------------------------------------------------------------------------
(* The views: maps that are moved.                                         *)
-----------------------------------------------------------------------------
(* A spawn is stolen: the child takes the map of the frame, which is to    *)
(* the right of all others, with it (scheduler.c detach_for_steal).        *)
LEMMA ViewsStolen ==
    ASSUME TypeOK, ListOK, ViewsOK, Steal, TypeOK'
    PROVE  ViewsOK'
<1> DEFINE c == spawned + 1
           f == <<Continuation, 4>>
           p == <<c, 4>>
           M == AllMaps
           N == AllMaps'
           h == [q \in Places |-> IF q = f THEN p ELSE q]
<1>c. /\ MaxKids \in Nat /\ Strands = 0..MaxKids /\ Kids = 1..MaxKids /\ Frame = 0
      /\ Continuation = MaxKids + 1 /\ Row(Frame) = Continuation /\ Row(c) = IF c = Frame THEN Continuation ELSE c
    BY Constants, Placing DEF Row
<1>1. /\ pc[Frame] = "run" /\ spawned < MaxKids /\ spawned' = c
      /\ pc' = [pc EXCEPT ![c] = "run"] /\ kids' = Append(kids, c) /\ unsynched' = TRUE
      /\ map' = [map EXCEPT ![c] = map[Frame], ![Frame] = NoMap]
      /\ slot' = slot /\ taken' = taken /\ updated' = updated /\ mixed' = mixed
    BY DEF Steal
<1>2. /\ spawned \in Nat /\ c \in Kids /\ c \in Int /\ c \in Strands /\ c # Frame /\ c <= MaxKids
      /\ Row(c) = c /\ pc[c] = "unborn"
    BY <1>1, <1>c, Positions DEF ListOK
<1> HIDE DEF c
<1>3. /\ pc'[c] = "run" /\ \A s \in Strands : s # c => pc'[s] = pc[s]
      /\ map'[c] = map[Frame] /\ map'[Frame] = NoMap
      /\ \A s \in Strands : s # c /\ s # Frame => map'[s] = map[s]
    BY <1>1, <1>2, Constants DEF TypeOK
<1>4. MapsOK'
    <2>1. \A s \in Strands : map'[s] # NoMap => pc'[s] \in {"run", "ended", "reduced", "unwind"}
        BY <1>3 DEF ViewsOK, MapsOK
    <2>2. \A s \in Strands : taken'[s] # Nothing => pc'[s] = "reduce"
        BY <1>1, <1>2, <1>3 DEF ViewsOK, MapsOK
    <2>3. \A s \in Kids : slot'[s] # NoMap => pc'[s] \in Linked
        BY <1>1, <1>2, <1>3, Constants DEF ViewsOK, MapsOK, Linked
    <2>4. \A u \in updated' : u[2] \in 0..(2 * spawned')
        <3>1. \A u \in updated : u[2] \in 0..(2 * spawned)
            BY DEF ViewsOK, MapsOK
        <3> QED
            BY <3>1, <1>1, <1>2 DEF c
    <2> QED
        BY <2>1, <2>2, <2>3, <2>4, <1>1 DEF MapsOK
<1>5. M \in [Places -> AnyMap] /\ N \in [Places -> AnyMap]
    BY MapTypes, MapTypesNext
<1>6. /\ f \in Places /\ p \in Places /\ f # p
      /\ f[1] = Continuation /\ f[2] = 4 /\ p[1] = c /\ p[2] = 4
      /\ M[f] = map[Frame] /\ N[f] = NoMap /\ M[p] = NoMap /\ N[p] = M[f]
    <2>1. f \in Places /\ p \in Places /\ f # p
        <3>1. 4 \in 1..5 /\ c \in 1..Continuation /\ Continuation \in 1..Continuation
            BY <1>c, <1>2
        <3>2. f \in Places /\ p \in Places
            BY <3>1, Placing
        <3> QED
            BY <3>2, <1>c, <1>2
    <2>2. f = <<Row(Frame), 4>> /\ p = <<Row(c), 4>>
        BY <1>c, <1>2
    <2>3. M[f] = map[Frame] /\ M[p] = map[c] /\ N[f] = map'[Frame] /\ N[p] = map'[c]
        BY <2>2, <1>2, MapsIn, MapsInNext, Constants
    <2>4. map[c] = NoMap
        BY <1>2 DEF ViewsOK, MapsOK
    <2> QED
        BY <2>1, <2>3, <2>4, <1>3
<1>7. ASSUME NEW q \in Places, q # f, q # p PROVE N[q] = M[q]
    <2>1. CASE q = <<0, 5>>
        BY <2>1, <1>1, MapsAt, MapsAtNext
    <2>2. CASE q # <<0, 5>>
        <3>1. PICK t \in Strands, k \in 1..5 : q = <<Row(t), k>>
            BY <2>2, Rows
        <3>2. k = 4 => t # Frame /\ t # c
            BY <3>1, <1>7, <1>c, <1>2
        <3>3. Held(t, k)' = Held(t, k)
            BY <3>2, <1>1, <1>3 DEF Held
        <3> QED
            BY <3>1, <3>3, MapsAt, MapsAtNext
    <2> QED
        BY <2>1, <2>2
<1>8. ASSUME NEW q \in Places, M[q] # NoMap, q # f
      PROVE  q[1] <= spawned /\ q[1] \in Int
    <2>1. CASE q = <<0, 5>>
        BY <2>1, <1>2
    <2>2. CASE q # <<0, 5>>
        <3>1. PICK s \in Strands, k \in 1..5 :
                  /\ q = <<Row(s), k>>
                  /\ s # Frame => s <= spawned
                  /\ k \in 1..3 => pc[s] = "reduce"
                  /\ k = 5 => s # Frame
            BY <2>2, <1>8, Present DEF ViewsOK
        <3>2. s # Frame
            BY <3>1, <1>1, <1>8, <1>c
        <3> QED
            BY <3>1, <3>2, <1>c, Placing
    <2> QED
        BY <2>1, <2>2
<1>9. h \in [Places -> Places] /\ h[f] = p /\ \A q \in Places : q # f => h[q] = q
    BY <1>6
<1> HIDE DEF f, p, h, M, N
<1>10. \A q \in Places : M[q] # NoMap => N[h[q]] = M[q] /\ h[q] # f
    BY <1>6, <1>7, <1>9
<1>11. \A q \in Places : N[q] # NoMap => \E o \in Places : M[o] # NoMap /\ h[o] = q
    BY <1>6, <1>7, <1>9
<1>12. ASSUME NEW q \in Places, NEW o \in Places, M[q] # NoMap, M[o] # NoMap, Before(q, o)
       PROVE  Before(h[q], h[o])
    <2>1. CASE q # f /\ o # f
        BY <2>1, <1>9, <1>12
    <2>2. CASE q # f /\ o = f
        <3>1. q[1] < c /\ h[q] = q /\ h[o] = p
            BY <2>2, <1>8, <1>9, <1>12, <1>2 DEF c
        <3> QED
            BY <3>1, <1>6 DEF Before
    <2>3. CASE q = f
        <3>1. o[1] <= spawned /\ o[1] \in Int
            BY <2>3, <1>8, <1>12, PlacesInOrder
        <3> QED
            BY <3>1, <2>3, <1>12, <1>6, <1>c, <1>1, <1>2 DEF Before
    <2> QED
        BY <2>1, <2>2, <2>3
<1>13. /\ \A l \in Places : Leading(M, l) => Leading(N, h[l])
       /\ \A written, anyhow, running :
             /\ InPlace(M, written, anyhow, running)
             /\ \A d \in running, q \in Places : M[q] # NoMap => (Upto(q, d) <=> Upto(h[q], d))
             => InPlace(N, written, anyhow, running)
    BY <1>5, <1>9, <1>10, <1>11, <1>12, MovedMaps
<1>14. LeftmostOK'
    <2>1. PICK l \in Places : Leading(M, l) /\ FarLeft(l)
        BY DEF ViewsOK, LeftmostOK, M
    <2>2. Leading(N, h[l]) /\ M[l] # NoMap
        BY <2>1, <1>13 DEF Leading, Leads
    <2>3. kids \in Seq(Kids)
        BY DEF TypeOK
    <2>4. PICK g \in Places : g = h[l]
        BY <1>9
    <2>5. FarLeft(g)'
        <3>1. CASE l[1] = 0
            BY <3>1, <2>4, <1>6, <1>9, <1>c DEF FarLeft
        <3>2. CASE kids # <<>> /\ l[1] = kids[1] /\ l[2] <= 4
            <4>1. kids' # <<>> /\ kids'[1] = kids[1]
                BY <3>2, <2>3, <1>1, <1>2, EmptySeq
            <4>2. kids[1] \in Kids
                BY <3>2, <2>3, EmptySeq
            <4>3. h[l] = l
                BY <3>2, <4>2, <1>6, <1>9, <1>c
            <4> QED
                BY <3>2, <4>1, <4>3, <2>4 DEF FarLeft
        <3>3. CASE kids = <<>> /\ l[1] = Continuation
            <4>1. l = f
                BY <3>3, <2>2, <1>8, <1>1, <1>2, <1>c
            <4>2. kids' # <<>> /\ kids'[1] = c
                BY <3>3, <1>1, <1>2
            <4> QED
                BY <4>1, <4>2, <2>4, <1>6, <1>9 DEF FarLeft
        <3> QED
            BY <2>1, <3>1, <3>2, <3>3 DEF FarLeft
    <2> QED
        BY <2>2, <2>4, <2>5 DEF LeftmostOK, N
<1>15. InPlace(N, AllWritten, mixed, Running)
    <2>1. InPlace(M, AllWritten, mixed, Running)
        BY DEF ViewsOK, M
    <2>2. ASSUME NEW d \in Running PROVE d \in Int /\ d <= spawned /\ d <= MaxKids
        BY <1>c, <1>2 DEF Running, ListOK
    <2>3. ASSUME NEW d \in Running, NEW q \in Places PROVE Upto(q, d) <=> Upto(h[q], d)
        <3>1. CASE q = f
            <4>1. ~Upto(f, d)
                BY <2>2, <1>c, <1>6 DEF Upto
            <4>2. ~Upto(p, d)
                BY <2>2, <1>2, <1>6 DEF Upto, c
            <4> QED
                BY <3>1, <4>1, <4>2, <1>9
        <3>2. CASE q # f
            BY <3>2, <1>9
        <3> QED
            BY <3>1, <3>2
    <2> QED
        BY <2>1, <2>3, <1>13
<1>16. ASSUME NEW r \in Reducers PROVE Bounded(ViewsOf(N, r), c)
    <2>1. ASSUME NEW q \in Places, N[q] # NoMap PROVE Upto(q, c)
        <3>1. PICK o \in Places : M[o] # NoMap /\ h[o] = q
            BY <2>1, <1>11
        <3>2. CASE o = f
            BY <3>1, <3>2, <1>9, <1>6, <1>2 DEF Upto
        <3>3. CASE o # f
            <4>1. q[1] <= spawned /\ q[1] \in Int
                BY <3>1, <3>3, <1>8, <1>9
            <4> QED
                BY <4>1, <1>2 DEF Upto, c
        <3> QED
            BY <3>2, <3>3
    <2>2. Complete(ViewsOf(N, r), AllWritten[r])
        BY <1>15 DEF InPlace
    <2> QED
        BY <2>1, <2>2, <1>2, <1>5, NewBound DEF ViewsOK, c
<1>17. \A d \in Running' : d \in Running \/ d = c
    BY <1>3, Constants DEF Running
<1>18. AllWritten' = AllWritten
    BY <1>1 DEF AllWritten, Written
<1>19. InPlace(N, AllWritten, mixed, Running')
    BY <1>15, <1>16, <1>17 DEF InPlace
<1> QED
    BY <1>1, <1>4, <1>14, <1>18, <1>19 DEF ViewsOK, N

(* What a strand that leaves finds: no map but those of the splice is      *)
(* between the place to its left and the ones to its right.                *)
Spliced(all, s) ==
    /\ all[LeftPlace(s)] = slot[LeftOf(s)]
    /\ all[<<Row(s), 4>>] = map[s] /\ all[<<Row(s), 5>>] = Own(s)
    /\ \A k \in 1..3 : all[<<Row(s), k>>] = NoMap
    /\ \A p \in Places : all[p] # NoMap =>
          \/ p \in {LeftPlace(s), <<Row(s), 4>>, <<Row(s), 5>>}
          \/ Before(p, LeftPlace(s)) \/ p[1] > Row(s)

(* Nothing but the three maps of the splice is there, and no child that is *)
(* to run stands between them (scheduler.c compute_left_ptrs).             *)
LEMMA Splicing ==
    ASSUME TypeOK, ListOK, MapsOK, NEW s \in Strands, pc[s] \in {"ended", "reduced"}
    PROVE  /\ Spliced(AllMaps, s)
           /\ LeftPlace(s) \in Places /\ LeftPlace(s)[2] = 5 /\ LeftPlace(s)[1] < Row(s)
           /\ LeftPlace(s)[1] \in Int
           /\ \A k \in 1..5 : <<Row(s), k>> \in Places
           /\ LeftPlace(s)[1] = 0 <=> IF s = Frame THEN kids = <<>> ELSE kids # <<>> /\ kids[1] = s
           /\ \A d \in Running, k \in 1..5 : Upto(LeftPlace(s), d) <=> Upto(<<Row(s), k>>, d)
<1>c. /\ MaxKids \in Nat /\ Strands = 0..MaxKids /\ Kids = 1..MaxKids /\ Frame = 0
      /\ Continuation = MaxKids + 1 /\ Row(s) \in 1..Continuation /\ Row(s) \in Int
    BY Constants, Placing
<1>0. s = Frame \/ pc[s] \in Linked
    BY DEF Linked
<1>1. /\ LeftPlace(s) \in Places /\ LeftPlace(s)[1] < Row(s)
      /\ AllMaps[LeftPlace(s)] = slot[LeftOf(s)]
      /\ \A p \in Places : AllMaps[p] # NoMap =>
            \/ p[1] = Row(s) \/ p = LeftPlace(s) \/ Before(p, LeftPlace(s)) \/ p[1] > Row(s)
      /\ \A d \in Kids : d # s /\ pc[d] \in Linked =>
            \A k \in 1..5 : Upto(LeftPlace(s), d) <=> Upto(<<Row(s), k>>, d)
    BY <1>0, Beside
<1>2. LeftOf(s) \in Strands /\ LeftPlace(s)[2] = 5 /\ LeftPlace(s)[1] = LeftOf(s)
    BY <1>0, <1>c, ToTheLeft DEF TypeOK, LeftPlace
<1>3. taken[s] = Nothing
    BY DEF MapsOK
<1>4. /\ AllMaps[<<Row(s), 4>>] = map[s] /\ AllMaps[<<Row(s), 5>>] = Own(s)
      /\ \A k \in 1..3 : AllMaps[<<Row(s), k>>] = NoMap
    <2>1. /\ AllMaps[<<Row(s), 1>>] = taken[s][1]
          /\ AllMaps[<<Row(s), 2>>] = taken[s][2]
          /\ AllMaps[<<Row(s), 3>>] = taken[s][3]
          /\ AllMaps[<<Row(s), 4>>] = map[s]
          /\ AllMaps[<<Row(s), 5>>] = IF s = Frame THEN NoMap ELSE slot[s]
        BY MapsIn
    <2>2. taken[s][1] = NoMap /\ taken[s][2] = NoMap /\ taken[s][3] = NoMap
        BY <1>3 DEF Nothing
    <2>3. ASSUME NEW k \in 1..3 PROVE k = 1 \/ k = 2 \/ k = 3
        OBVIOUS
    <2> QED
        BY <2>1, <2>2, <2>3 DEF Own
<1>5. \A k \in 1..5 : <<Row(s), k>> \in Places
    BY <1>c, Placing
<1>6. ASSUME NEW p \in Places, AllMaps[p] # NoMap
      PROVE  \/ p \in {LeftPlace(s), <<Row(s), 4>>, <<Row(s), 5>>}
             \/ Before(p, LeftPlace(s)) \/ p[1] > Row(s)
    <2>1. CASE p[1] = Row(s)
        <3>1. p = <<p[1], p[2]>> /\ p[2] \in 1..5
            BY Placing
        <3>2. p[2] \notin 1..3
            BY <2>1, <3>1, <1>4, <1>6
        <3>3. p[2] = 4 \/ p[2] = 5
            BY <3>1, <3>2
        <3> QED
            BY <2>1, <3>1, <3>3
    <2> QED
        BY <2>1, <1>1, <1>6
<1>7. LeftPlace(s)[1] = 0 <=> IF s = Frame THEN kids = <<>> ELSE kids # <<>> /\ kids[1] = s
    <2>1. LeftOf(s) = Frame <=> IF s = Frame THEN kids = <<>> ELSE kids[1] = s
        BY <1>0, ToTheLeft DEF TypeOK
    <2>2. s # Frame => kids # <<>>
        BY <1>0, Constants DEF ListOK
    <2> QED
        BY <2>1, <2>2, <1>2, <1>c
<1>8. ASSUME NEW d \in Running, NEW k \in 1..5
      PROVE  Upto(LeftPlace(s), d) <=> Upto(<<Row(s), k>>, d)
    <2>1. d \in Kids /\ d # s /\ pc[d] \in Linked
        BY DEF Running, Linked
    <2> QED
        BY <2>1, <1>1
<1> QED
    BY <1>1, <1>2, <1>4, <1>5, <1>6, <1>7, <1>8, <1>c DEF Spliced

(* The maps that meet are taken to be reduced: the strand holds them in    *)
(* the order in which they were.                                           *)
LEMMA ViewsTaken ==
    ASSUME TypeOK, ListOK, ViewsOK, NEW s \in Strands, TakeMaps(s), TypeOK'
    PROVE  ViewsOK'
<1> DEFINE lp == LeftPlace(s)
           at(k) == <<Row(s), k>>
           M == AllMaps
           N == AllMaps'
           h == [q \in Places |-> IF q = lp THEN at(1) ELSE IF q = at(4) THEN at(2)
                                  ELSE IF q = at(5) THEN at(3) ELSE q]
<1>c. /\ MaxKids \in Nat /\ Strands = 0..MaxKids /\ Kids = 1..MaxKids /\ Frame = 0
      /\ Continuation = MaxKids + 1 /\ Row(s) = IF s = Frame THEN Continuation ELSE s
      /\ 1 \in 1..5 /\ 2 \in 1..5 /\ 3 \in 1..5 /\ 4 \in 1..5 /\ 5 \in 1..5
    BY Constants, Placing DEF Row
<1>1. /\ pc[s] \in {"ended", "reduced"} /\ pc' = [pc EXCEPT ![s] = "reduce"]
      /\ taken' = [taken EXCEPT ![s] = Splice(s)]
      /\ slot' = Cleared(slot, s, NoMap)
      /\ map' = [map EXCEPT ![s] = NoMap]
      /\ kids' = kids /\ spawned' = spawned /\ unsynched' = unsynched
      /\ updated' = updated /\ mixed' = mixed
    BY DEF TakeMaps, Goto, tree
<1>2. /\ Spliced(M, s)
      /\ lp \in Places /\ lp[2] = 5 /\ lp[1] < Row(s) /\ lp[1] \in Int
      /\ \A k \in 1..5 : at(k) \in Places
      /\ lp[1] = 0 <=> IF s = Frame THEN kids = <<>> ELSE kids # <<>> /\ kids[1] = s
      /\ \A d \in Running, k \in 1..5 : Upto(lp, d) <=> Upto(at(k), d)
    BY <1>1, Splicing DEF ViewsOK
<1>3. /\ pc'[s] = "reduce" /\ \A t \in Strands : t # s => pc'[t] = pc[t]
      /\ map'[s] = NoMap /\ \A t \in Strands : t # s => map'[t] = map[t]
      /\ taken'[s] = Splice(s) /\ \A t \in Strands : t # s => taken'[t] = taken[t]
    BY <1>1 DEF TypeOK
<1>4. \A t \in Strands : slot'[t] = IF t = LeftOf(s) \/ (t = s /\ s # Frame) THEN NoMap ELSE slot[t]
    BY <1>1 DEF Cleared
<1>5. MapsOK'
    <2>1. \A t \in Strands : map'[t] # NoMap => pc'[t] \in {"run", "ended", "reduced", "unwind"}
        BY <1>3 DEF ViewsOK, MapsOK
    <2>2. \A t \in Strands : taken'[t] # Nothing => pc'[t] = "reduce"
        BY <1>3 DEF ViewsOK, MapsOK
    <2>3. \A c \in Kids : slot'[c] # NoMap => pc'[c] \in Linked
        BY <1>3, <1>4, Constants DEF ViewsOK, MapsOK
    <2>4. slot'[Frame] # NoMap => unsynched'
        BY <1>1, <1>4, Constants DEF ViewsOK, MapsOK
    <2>5. \A u \in updated' : u[2] \in 0..(2 * spawned')
        BY <1>1 DEF ViewsOK, MapsOK
    <2> QED
        BY <2>1, <2>2, <2>3, <2>4, <2>5 DEF MapsOK
<1>6. M \in [Places -> AnyMap] /\ N \in [Places -> AnyMap]
    BY MapTypes, MapTypesNext
<1>7. /\ N[at(1)] = M[lp] /\ N[at(2)] = M[at(4)] /\ N[at(3)] = M[at(5)]
      /\ N[at(4)] = NoMap /\ N[at(5)] = NoMap /\ N[lp] = NoMap
    <2>1. /\ N[at(1)] = taken'[s][1] /\ N[at(2)] = taken'[s][2] /\ N[at(3)] = taken'[s][3]
          /\ N[at(4)] = map'[s] /\ N[at(5)] = IF s = Frame THEN NoMap ELSE slot'[s]
        BY MapsInNext
    <2>2. taken'[s][1] = M[lp] /\ taken'[s][2] = M[at(4)] /\ taken'[s][3] = M[at(5)]
        BY <1>2, <1>3 DEF Splice, Spliced
    <2>3. N[lp] = slot'[LeftOf(s)]
        <3>1. CASE LeftOf(s) = Frame
            BY <3>1, MapsAtNext DEF LeftPlace
        <3>2. CASE LeftOf(s) # Frame
            <4>1. LeftOf(s) \in Strands
                BY <1>1, ToTheLeft DEF TypeOK, Linked
            <4>2. lp = <<Row(LeftOf(s)), 5>>
                BY <3>2 DEF LeftPlace, Row
            <4> QED
                BY <3>2, <4>1, <4>2, MapsInNext
        <3> QED
            BY <3>1, <3>2
    <2>4. slot'[LeftOf(s)] = NoMap /\ (s # Frame => slot'[s] = NoMap)
        <3>1. LeftOf(s) \in Strands
            BY <1>1, ToTheLeft DEF TypeOK, Linked
        <3> QED
            BY <3>1, <1>4
    <2> QED
        BY <2>1, <2>2, <2>3, <2>4, <1>3
<1>8. ASSUME NEW q \in Places, q # lp, q[1] # Row(s) PROVE N[q] = M[q]
    <2>1. CASE q = <<0, 5>>
        <3>1. LeftOf(s) # Frame
            BY <2>1, <1>8 DEF LeftPlace
        <3>2. slot'[Frame] = slot[Frame]
            BY <3>1, <1>4, Constants
        <3> QED
            BY <2>1, <3>2, MapsAt, MapsAtNext
    <2>2. CASE q # <<0, 5>>
        <3>1. PICK t \in Strands, k \in 1..5 : q = <<Row(t), k>>
            BY <2>2, Rows
        <3>2. t # s /\ (k = 5 /\ t # Frame => t # LeftOf(s))
            BY <3>1, <1>8 DEF LeftPlace, Row
        <3>3. k = 5 /\ t # Frame => slot'[t] = slot[t]
            BY <3>2, <1>4
        <3>4. Held(t, k)' = Held(t, k)
            BY <3>2, <3>3, <1>3 DEF Held
        <3> QED
            BY <3>1, <3>4, MapsAt, MapsAtNext
    <2> QED
        BY <2>1, <2>2
<1>9. /\ h \in [Places -> Places] /\ h[lp] = at(1) /\ h[at(4)] = at(2) /\ h[at(5)] = at(3)
      /\ \A q \in Places : q \notin {lp, at(4), at(5)} => h[q] = q
    <2>1. lp # at(4) /\ lp # at(5) /\ at(4) # at(5)
        BY <1>2, <1>c
    <2>2. at(1) \in Places /\ at(2) \in Places /\ at(3) \in Places /\ at(4) \in Places /\ at(5) \in Places
        BY <1>2, <1>c
    <2> HIDE DEF at, lp
    <2> QED
        BY <2>1, <2>2, <1>2
<1>10. ASSUME NEW q \in Places, M[q] # NoMap
       PROVE  \/ q \in {lp, at(4), at(5)}
              \/ h[q] = q /\ N[q] = M[q] /\ (Before(q, lp) \/ q[1] > Row(s))
    <2> SUFFICES ASSUME q \notin {lp, at(4), at(5)}
                 PROVE  h[q] = q /\ N[q] = M[q] /\ (Before(q, lp) \/ q[1] > Row(s))
        OBVIOUS
    <2>1. Before(q, lp) \/ q[1] > Row(s)
        BY <1>2, <1>10 DEF Spliced
    <2>2. q[1] \in Int /\ Row(s) \in Int
        BY <1>c, Placing
    <2>3. q[1] # Row(s)
        BY <2>1, <2>2, <1>2 DEF Before
    <2> QED
        BY <2>1, <2>3, <1>8, <1>9
<1>r. Row(s) \in Int /\ \A q \in Places : q[1] \in Int /\ q[2] \in Int
    BY <1>c, Placing
<1>a. \A k \in 1..5 : at(k)[1] = Row(s) /\ at(k)[2] = k
    OBVIOUS
<1> HIDE DEF lp, at, h, M, N
<1>11. \A q \in Places : M[q] # NoMap => N[h[q]] = M[q]
    BY <1>7, <1>9, <1>10
<1>12. ASSUME NEW q \in Places, N[q] # NoMap PROVE \E o \in Places : M[o] # NoMap /\ h[o] = q
    <2>1. CASE q[1] = Row(s)
        <3>1. q = at(q[2]) /\ q[2] \in 1..5
            BY <2>1, Placing DEF at
        <3>2. q \in {at(1), at(2), at(3)}
            BY <3>1, <1>7, <1>12
        <3> QED
            BY <3>2, <1>2, <1>c, <1>7, <1>9, <1>12
    <2>2. CASE q[1] # Row(s)
        <3>1. q # lp /\ N[q] = M[q]
            BY <2>2, <1>7, <1>8, <1>12 DEF M, N, lp
        <3>2. h[q] = q
            BY <2>2, <3>1, <1>9, <1>a, <1>c
        <3> QED
            BY <3>1, <3>2, <1>12
    <2> QED
        BY <2>1, <2>2
<1>13. ASSUME NEW q \in Places, NEW o \in Places, M[q] # NoMap, M[o] # NoMap, Before(q, o)
       PROVE  Before(h[q], h[o])
    <2>0. /\ at(1)[1] = Row(s) /\ at(2)[1] = Row(s) /\ at(3)[1] = Row(s)
          /\ at(4)[1] = Row(s) /\ at(5)[1] = Row(s)
          /\ at(1)[2] = 1 /\ at(2)[2] = 2 /\ at(3)[2] = 3 /\ at(4)[2] = 4 /\ at(5)[2] = 5
        BY <1>a, <1>c
    <2>1. CASE q = lp
        <3>1. o = at(4) \/ o = at(5) \/ (h[o] = o /\ o[1] > Row(s))
            BY <2>1, <1>10, <1>13, <1>2, PlacesInOrder
        <3> QED
            BY <2>0, <2>1, <3>1, <1>9, <1>r DEF Before
    <2>2. CASE q = at(4)
        <3>1. o = at(5) \/ (h[o] = o /\ o[1] > Row(s))
            BY <2>0, <2>2, <1>10, <1>13, <1>2, <1>r DEF Before
        <3> QED
            BY <2>0, <2>2, <3>1, <1>9, <1>r DEF Before
    <2>3. CASE q = at(5)
        <3>1. h[o] = o /\ o[1] > Row(s)
            BY <2>0, <2>3, <1>10, <1>13, <1>2, <1>r DEF Before
        <3> QED
            BY <2>0, <2>3, <3>1, <1>9, <1>r DEF Before
    <2>4. CASE h[q] = q /\ Before(q, lp)
        <3>1. q[1] < Row(s)
            BY <2>4, <1>2, <1>r DEF Before
        <3>2. h[o] = o \/ h[o][1] = Row(s)
            BY <2>0, <1>9
        <3> QED
            BY <2>4, <3>1, <3>2, <1>13 DEF Before
    <2>5. CASE h[q] = q /\ q[1] > Row(s)
        <3>1. o \notin {lp, at(4), at(5)}
            BY <2>0, <2>5, <1>13, <1>2, <1>r DEF Before
        <3> QED
            BY <2>5, <3>1, <1>9, <1>13
    <2> QED
        BY <2>1, <2>2, <2>3, <2>4, <2>5, <1>10, <1>13
<1>14. /\ \A l \in Places : Leading(M, l) => Leading(N, h[l])
       /\ \A written, anyhow, running :
             /\ InPlace(M, written, anyhow, running)
             /\ \A d \in running, q \in Places : M[q] # NoMap => (Upto(q, d) <=> Upto(h[q], d))
             => InPlace(N, written, anyhow, running)
    BY <1>6, <1>9, <1>11, <1>12, <1>13, MovedMaps DEF M, N
<1>15. LeftmostOK'
    <2>1. PICK l \in Places : Leading(M, l) /\ FarLeft(l)
        BY DEF ViewsOK, LeftmostOK, M
    <2>2. PICK g \in Places : g = h[l]
        BY <1>9
    <2>3. Leading(N, g)
        BY <2>1, <2>2, <1>14
    <2>4. FarLeft(g)'
        <3>1. CASE l = lp
            <4>1. g = at(1) /\ g[1] = Row(s) /\ g[2] = 1
                BY <3>1, <2>2, <1>9, <1>a, <1>c
            <4>2. l[1] = 0
                BY <3>1, <2>1, <1>2, <1>c DEF FarLeft
            <4> QED
                BY <3>1, <4>1, <4>2, <1>1, <1>2, <1>c DEF FarLeft
        <3>2. CASE l # lp
            <4>1. g[1] = l[1] /\ (l[2] <= 4 => g[2] <= 4)
                BY <3>2, <2>2, <1>9, <1>a, <1>c
            <4> QED
                BY <4>1, <2>1, <1>1 DEF FarLeft
        <3> QED
            BY <3>1, <3>2
    <2> QED
        BY <2>3, <2>4 DEF LeftmostOK, N
<1>16. InPlace(N, AllWritten, mixed, Running)
    <2>1. InPlace(M, AllWritten, mixed, Running)
        BY DEF ViewsOK, M
    <2>2. ASSUME NEW d \in Running, NEW q \in Places PROVE Upto(q, d) <=> Upto(h[q], d)
        <3>1. q \in {lp, at(4), at(5)} => Upto(q, d) <=> Upto(h[q], d)
            BY <1>2, <1>c, <1>9
        <3> QED
            BY <3>1, <1>9
    <2> QED
        BY <2>1, <2>2, <1>14
<1>17. Running' \subseteq Running /\ AllWritten' = AllWritten
    BY <1>1, <1>3, Constants DEF Running, AllWritten, Written
<1>18. InPlace(N, AllWritten, mixed, Running')
    BY <1>16, <1>17 DEF InPlace
<1> QED
    BY <1>1, <1>5, <1>15, <1>17, <1>18 DEF ViewsOK, N

-----------------------------------------------------------------------------
(* The views: maps that are merged.                                        *)
-----------------------------------------------------------------------------
(* The three maps that were taken become one, at the right of where they   *)
(* are (scheduler.c:4250-4287).                                            *)
LEMMA ViewsReduced ==
    ASSUME TypeOK, ListOK, ViewsOK, NEW s \in Strands, Reduce(s), TypeOK'
    PROVE  ViewsOK'
<1> DEFINE at(k) == <<Row(s), k>>
           M == AllMaps
           N == AllMaps'
<1>c. /\ MaxKids \in Nat /\ Strands = 0..MaxKids /\ Kids = 1..MaxKids /\ Frame = 0
      /\ Continuation = MaxKids + 1 /\ Row(s) \in 1..Continuation
      /\ 1 \in 1..5 /\ 2 \in 1..5 /\ 3 \in 1..5 /\ 4 \in 1..5 /\ 5 \in 1..5
    BY Constants, Placing
<1>1. /\ pc[s] = "reduce" /\ pc' = [pc EXCEPT ![s] = "reduced"]
      /\ map' = [map EXCEPT ![s] = Merged(taken[s])]
      /\ taken' = [taken EXCEPT ![s] = Nothing]
      /\ slot' = slot /\ kids' = kids /\ spawned' = spawned /\ unsynched' = unsynched
      /\ updated' = updated /\ mixed' = mixed
    BY DEF Reduce, Goto, tree
<1>2. map[s] = NoMap
    BY <1>1 DEF ViewsOK, MapsOK
<1>3. /\ pc'[s] = "reduced" /\ \A t \in Strands : t # s => pc'[t] = pc[t]
      /\ map'[s] = Merged(taken[s]) /\ \A t \in Strands : t # s => map'[t] = map[t]
      /\ taken'[s] = Nothing /\ \A t \in Strands : t # s => taken'[t] = taken[t]
    BY <1>1 DEF TypeOK
<1>4. MapsOK'
    <2>1. \A t \in Strands : map'[t] # NoMap => pc'[t] \in {"run", "ended", "reduced", "unwind"}
        BY <1>3 DEF ViewsOK, MapsOK
    <2>2. \A t \in Strands : taken'[t] # Nothing => pc'[t] = "reduce"
        BY <1>3 DEF ViewsOK, MapsOK
    <2>3. \A c \in Kids : slot'[c] # NoMap => pc'[c] \in Linked
        BY <1>1, <1>3, Constants DEF ViewsOK, MapsOK, Linked
    <2>4. (slot'[Frame] # NoMap => unsynched') /\ \A u \in updated' : u[2] \in 0..(2 * spawned')
        BY <1>1 DEF ViewsOK, MapsOK
    <2> QED
        BY <2>1, <2>2, <2>3, <2>4 DEF MapsOK
<1>5. M \in [Places -> AnyMap] /\ N \in [Places -> AnyMap]
    BY MapTypes, MapTypesNext
<1>6. /\ M[at(1)] = taken[s][1] /\ M[at(2)] = taken[s][2] /\ M[at(3)] = taken[s][3]
      /\ M[at(4)] = NoMap /\ N[at(4)] = Merged(taken[s])
      /\ N[at(1)] = NoMap /\ N[at(2)] = NoMap /\ N[at(3)] = NoMap
    <2>1. taken'[s][1] = NoMap /\ taken'[s][2] = NoMap /\ taken'[s][3] = NoMap
        BY <1>3 DEF Nothing
    <2> QED
        BY <2>1, <1>2, <1>3, MapsIn, MapsInNext
<1>7. ASSUME NEW q \in Places, q \notin {at(1), at(2), at(3), at(4)} PROVE N[q] = M[q]
    <2>1. CASE q = <<0, 5>>
        BY <2>1, <1>1, MapsAt, MapsAtNext
    <2>2. CASE q # <<0, 5>>
        <3>1. PICK t \in Strands, k \in 1..5 : q = <<Row(t), k>>
            BY <2>2, Rows
        <3>2. k = 5 \/ t # s
            BY <3>1, <1>7
        <3>3. Held(t, k)' = Held(t, k)
            BY <3>2, <1>1, <1>3 DEF Held
        <3> QED
            BY <3>1, <3>3, MapsAt, MapsAtNext
    <2> QED
        BY <2>1, <2>2
<1>8. /\ at(1) \in Places /\ at(2) \in Places /\ at(3) \in Places /\ at(4) \in Places
      /\ at(1)[1] = Row(s) /\ at(2)[1] = Row(s) /\ at(3)[1] = Row(s) /\ at(4)[1] = Row(s)
      /\ at(1)[2] = 1 /\ at(2)[2] = 2 /\ at(3)[2] = 3 /\ at(4)[2] = 4
    BY <1>c, Placing
<1>9. ASSUME NEW q \in Places, q \notin {at(1), at(2), at(3), at(4)}
      PROVE  \/ Before(q, at(1)) /\ Before(q, at(4))
             \/ Before(at(3), q) /\ Before(at(4), q)
    <2>1. q = <<q[1], q[2]>> /\ q[1] \in Int /\ q[2] \in 1..5 /\ Row(s) \in Int
        BY <1>c, Placing
    <2>2. q[1] = Row(s) => q[2] = 5
        BY <2>1, <1>9
    <2> HIDE DEF at
    <2> QED
        BY <2>1, <2>2, <1>8 DEF Before
<1>10. /\ Before(at(1), at(2)) /\ Before(at(2), at(3))
       /\ at(4) \notin {at(1), at(2), at(3)}
       /\ \A d \in Running, q \in {at(1), at(2), at(3)} : Upto(q, d) <=> Upto(at(4), d)
    <2> HIDE DEF at
    <2> QED
        BY <1>8 DEF Before, Upto
<1> HIDE DEF at, M, N
<1>11. PICK l \in Places : Leading(M, l) /\ FarLeft(l)
    BY DEF ViewsOK, LeftmostOK, M
<1>12. /\ Leading(N, IF l \in {at(1), at(2), at(3)} THEN at(4) ELSE l)
       /\ \A written, anyhow, running :
             /\ InPlace(M, written, anyhow, running)
             /\ \A d \in running, q \in {at(1), at(2), at(3)} : Upto(q, d) <=> Upto(at(4), d)
             => InPlace(N, written, anyhow, running)
    <2>1. Gathering(M, N, at(1), at(2), at(3), at(4), taken[s])
        BY <1>6, <1>7, <1>9, <1>10 DEF Gathering
    <2> QED
        BY <2>1, <1>5, <1>8, <1>11, GatheredMaps
<1>13. LeftmostOK'
    <2>1. PICK g \in Places : g = IF l \in {at(1), at(2), at(3)} THEN at(4) ELSE l
        BY <1>8
    <2>2. g[1] = l[1] /\ (l[2] <= 4 => g[2] <= 4)
        BY <2>1, <1>8
    <2>3. FarLeft(g)'
        BY <2>2, <1>1, <1>11 DEF FarLeft
    <2> QED
        BY <2>1, <2>3, <1>12 DEF LeftmostOK, N
<1>14. InPlace(N, AllWritten, mixed, Running)
    BY <1>10, <1>12 DEF ViewsOK, M
<1>15. Running' \subseteq Running /\ AllWritten' = AllWritten
    BY <1>1, <1>3, Constants DEF Running, AllWritten, Written
<1>16. InPlace(N, AllWritten, mixed, Running')
    BY <1>14, <1>15 DEF InPlace
<1> QED
    BY <1>1, <1>4, <1>13, <1>15, <1>16 DEF ViewsOK, N

(* A strand that leaves puts one map for all three to its left, and is no  *)
(* longer in the list (scheduler.c:4250-4287).                             *)
LEMMA ViewsLeft ==
    ASSUME TypeOK, ListOK, SyncOK, ViewsOK, NEW s \in Strands, Leave(s), TypeOK'
    PROVE  ViewsOK'
<1> DEFINE lp == LeftPlace(s)
           at(k) == <<Row(s), k>>
           L == LeftOf(s)
           M == AllMaps
           N == AllMaps'
<1>c. /\ MaxKids \in Nat /\ Strands = 0..MaxKids /\ Kids = 1..MaxKids /\ Frame = 0
      /\ Continuation = MaxKids + 1 /\ Row(s) = IF s = Frame THEN Continuation ELSE s
      /\ 4 \in 1..5 /\ 5 \in 1..5
    BY Constants, Placing DEF Row
<1>1. /\ pc[s] \in {"ended", "reduced"} /\ pc' = [pc EXCEPT ![s] = "left"]
      /\ slot' = [Cleared(slot, s, NoMap) EXCEPT ![L] = Merged(Splice(s))]
      /\ map' = [map EXCEPT ![s] = NoMap]
      /\ kids' = Unlinked(s) /\ taken' = taken /\ spawned' = spawned /\ unsynched' = unsynched
      /\ updated' = updated /\ mixed' = mixed
    BY DEF Leave, Goto
<1>2. /\ Spliced(M, s)
      /\ lp \in Places /\ lp[2] = 5 /\ lp[1] < Row(s) /\ lp[1] \in Int
      /\ \A k \in 1..5 : at(k) \in Places
      /\ lp[1] = 0 <=> IF s = Frame THEN kids = <<>> ELSE kids # <<>> /\ kids[1] = s
      /\ \A d \in Running, k \in 1..5 : Upto(lp, d) <=> Upto(at(k), d)
    BY <1>1, Splicing DEF ViewsOK
<1>3. /\ L \in Strands /\ (L # Frame => L \in Kids /\ pc[L] \in Linked) /\ (s # Frame => L # s)
    <2>1. kids \in Seq(Kids) /\ pc[s] \in Linked
        BY <1>1 DEF TypeOK, Linked
    <2>2. L \in Strands /\ (L # Frame => L \in Kids /\ pc[L] \in Linked) /\ (s # Frame => L < s)
        BY <2>1, ToTheLeft
    <2> HIDE DEF L
    <2> QED
        BY <2>2, <1>c
<1> HIDE DEF L
<1>4. /\ pc'[s] = "left" /\ \A t \in Strands : t # s => pc'[t] = pc[t]
      /\ map'[s] = NoMap /\ \A t \in Strands : t # s => map'[t] = map[t]
    BY <1>1 DEF TypeOK
<1>5. /\ slot'[L] = Merged(Splice(s))
      /\ \A t \in Strands : t # L => slot'[t] = IF t = s /\ s # Frame THEN NoMap ELSE slot[t]
    <2>1. \A t \in Strands : t # L => Cleared(slot, s, NoMap)[t] = IF t = s /\ s # Frame THEN NoMap ELSE slot[t]
        BY DEF Cleared, L
    <2> DEFINE g == Cleared(slot, s, NoMap)
    <2>2. g = [t \in Strands |-> g[t]]
        BY DEF Cleared
    <2> HIDE DEF g
    <2>3. slot' = [g EXCEPT ![L] = Merged(Splice(s))]
        BY <1>1 DEF g
    <2>4. slot'[L] = Merged(Splice(s)) /\ \A t \in Strands : t # L => slot'[t] = g[t]
        BY <2>2, <2>3, <1>3
    <2> QED
        BY <2>1, <2>4 DEF g
<1>6. MapsOK'
    <2>1. \A t \in Strands : map'[t] # NoMap => pc'[t] \in {"run", "ended", "reduced", "unwind"}
        BY <1>4 DEF ViewsOK, MapsOK
    <2>2. \A t \in Strands : taken'[t] # Nothing => pc'[t] = "reduce"
        BY <1>1, <1>4 DEF ViewsOK, MapsOK
    <2>3. ASSUME NEW c \in Kids, slot'[c] # NoMap PROVE pc'[c] \in Linked
        <3>1. c # s /\ c \in Strands
            BY <2>3, <1>3, <1>5, Constants
        <3>2. c = L \/ slot[c] # NoMap
            BY <2>3, <3>1, <1>5
        <3>3. pc[c] \in Linked
            BY <3>2, <1>3, Constants DEF ViewsOK, MapsOK
        <3> QED
            BY <3>1, <3>3, <1>4
    <2>4. unsynched'
        BY <1>1, LeaversWait
    <2>5. \A u \in updated' : u[2] \in 0..(2 * spawned')
        BY <1>1 DEF ViewsOK, MapsOK
    <2> QED
        BY <2>1, <2>2, <2>3, <2>4, <2>5 DEF MapsOK
<1>7. M \in [Places -> AnyMap] /\ N \in [Places -> AnyMap]
    BY MapTypes, MapTypesNext
<1>8. N[lp] = Merged(Splice(s)) /\ N[at(4)] = NoMap /\ N[at(5)] = NoMap
    <2>1. N[at(4)] = map'[s] /\ N[at(5)] = IF s = Frame THEN NoMap ELSE slot'[s]
        BY MapsInNext
    <2>2. N[lp] = slot'[L]
        <3>1. CASE L = Frame
            BY <3>1, MapsAtNext DEF LeftPlace, L
        <3>2. CASE L # Frame
            <4>1. lp = <<Row(L), 5>>
                BY <3>2 DEF LeftPlace, Row, L
            <4> QED
                BY <3>2, <4>1, <1>3, MapsInNext
        <3> QED
            BY <3>1, <3>2
    <2>3. s # Frame => slot'[s] = NoMap
        BY <1>3, <1>5
    <2> QED
        BY <2>1, <2>2, <2>3, <1>4, <1>5
<1>9. ASSUME NEW q \in Places, q \notin {lp, at(4), at(5)} PROVE N[q] = M[q]
    <2>1. CASE q = <<0, 5>>
        <3>1. L # Frame
            BY <2>1, <1>9 DEF LeftPlace, L
        <3>2. slot'[Frame] = slot[Frame]
            BY <3>1, <1>5, Constants
        <3> QED
            BY <2>1, <3>2, MapsAt, MapsAtNext
    <2>2. CASE q # <<0, 5>>
        <3>1. PICK t \in Strands, k \in 1..5 : q = <<Row(t), k>>
            BY <2>2, Rows
        <3>2. k = 4 => t # s
            BY <3>1, <1>9
        <3>3. k = 5 => t # s /\ (t # Frame => t # L)
            BY <3>1, <1>9 DEF LeftPlace, Row, L
        <3>4. Held(t, k)' = Held(t, k)
            BY <3>2, <3>3, <1>1, <1>4, <1>5 DEF Held
        <3> QED
            BY <3>1, <3>4, MapsAt, MapsAtNext
    <2> QED
        BY <2>1, <2>2
<1>r. Row(s) \in Int /\ \A q \in Places : q[1] \in Int /\ q[2] \in Int
    BY <1>c, Placing
<1>a. \A k \in 1..5 : at(k)[1] = Row(s) /\ at(k)[2] = k
    OBVIOUS
<1>10. Gathering(M, N, lp, at(4), at(5), lp, Splice(s))
    <2>1. /\ at(4)[1] = Row(s) /\ at(5)[1] = Row(s) /\ at(4)[2] = 4 /\ at(5)[2] = 5
          /\ at(4) \in Places /\ at(5) \in Places
        BY <1>a, <1>c, <1>2
    <2>2. Splice(s)[1] = M[lp] /\ Splice(s)[2] = M[at(4)] /\ Splice(s)[3] = M[at(5)]
        BY <1>2 DEF Splice, Spliced
    <2>3. \A q \in Places : M[q] # NoMap => q \in {lp, at(4), at(5)} \/ Before(q, lp) \/ q[1] > Row(s)
        BY <1>2 DEF Spliced
    <2> HIDE DEF lp, at, M, N
    <2>4. Before(lp, at(4)) /\ Before(at(4), at(5))
        BY <2>1, <1>2 DEF Before
    <2>5. \A q \in Places : q[1] > Row(s) => Before(lp, q) /\ Before(at(5), q)
        BY <2>1, <1>2, <1>r DEF Before
    <2>6. \A q \in {lp, at(4), at(5)} : q # lp => N[q] = NoMap
        BY <1>8
    <2>7. ASSUME NEW q \in Places \ {lp, at(4), at(5), lp}
          PROVE  /\ N[q] = M[q]
                 /\ M[q] # NoMap => \/ Before(q, lp) /\ Before(q, lp)
                                    \/ Before(at(5), q) /\ Before(lp, q)
        BY <2>3, <2>5, <1>9 DEF M, N, lp, at
    <2> QED
        BY <2>2, <2>4, <2>6, <2>7, <1>8 DEF Gathering
<1>11. PICK l \in Places : Leading(M, l) /\ FarLeft(l)
    BY DEF ViewsOK, LeftmostOK
<1>12. /\ at(4) \in Places /\ at(5) \in Places
       /\ at(4)[1] = Row(s) /\ at(5)[1] = Row(s) /\ at(4)[2] = 4 /\ at(5)[2] = 5
    BY <1>a, <1>c, <1>2
<1>13. M[l] # NoMap /\ \A k \in 1..3 : M[at(k)] = NoMap
    BY <1>2, <1>11 DEF Leading, Leads, Spliced
<1>d. \A q \in Places : q[1] = Row(s) => \E k \in 1..5 : q = at(k)
    BY Placing
<1> HIDE DEF lp, at, M, N
<1>14. /\ Leading(N, IF l \in {lp, at(4), at(5)} THEN lp ELSE l)
       /\ \A written, anyhow, running :
             /\ InPlace(M, written, anyhow, running)
             /\ \A d \in running, q \in {lp, at(4), at(5)} : Upto(q, d) <=> Upto(lp, d)
             => InPlace(N, written, anyhow, running)
    BY <1>2, <1>7, <1>10, <1>11, <1>12, GatheredMaps
<1>15. LeftmostOK'
    <2>1. PICK g \in Places : g = IF l \in {lp, at(4), at(5)} THEN lp ELSE l
        BY <1>2
    <2>2. kids \in Seq(Kids) /\ (kids # <<>> => kids[1] \in Kids)
        BY EmptySeq DEF TypeOK
    <2>3. CASE l \in {lp, at(4), at(5)}
        <3>1. lp[1] = 0
            <4>1. CASE l = lp
                BY <4>1, <1>2, <1>11, <1>c DEF FarLeft
            <4>2. CASE l[1] = Row(s)
                <5>1. CASE s = Frame
                    <6>1. kids = <<>>
                        BY <4>2, <5>1, <2>2, <1>c, <1>11 DEF FarLeft
                    <6> QED
                        BY <5>1, <6>1, <1>2
                <5>2. CASE s # Frame
                    <6>1. kids # <<>> /\ kids[1] = s
                        BY <4>2, <5>2, <1>c, <1>11 DEF FarLeft
                    <6> QED
                        BY <5>2, <6>1, <1>2
                <5> QED
                    BY <5>1, <5>2
            <4> QED
                BY <2>3, <4>1, <4>2, <1>12
        <3>2. g[1] = 0
            BY <2>1, <2>3, <3>1
        <3>3. FarLeft(g)'
            BY <3>2 DEF FarLeft
        <3> QED
            BY <2>1, <3>3, <1>14 DEF LeftmostOK, N
    <2>4. CASE l \notin {lp, at(4), at(5)}
        <3>1. g = l /\ l[1] # Row(s)
            <4>1. ASSUME l[1] = Row(s) PROVE FALSE
                <5>1. PICK k \in 1..5 : l = at(k)
                    BY <4>1, <1>d
                <5>2. k \in 1..3
                    BY <5>1, <2>4
                <5> QED
                    BY <5>1, <5>2, <1>13
            <4> QED
                BY <4>1, <2>1, <2>4
        <3>2. FarLeft(g)'
            <4>1. CASE l[1] = 0
                BY <3>1, <4>1 DEF FarLeft
            <4>2. CASE kids # <<>> /\ l[1] = kids[1] /\ l[2] <= 4
                <5>1. kids' # <<>> /\ kids'[1] = kids[1]
                    <6>1. CASE s = Frame
                        BY <6>1, <4>2, <1>1 DEF Unlinked
                    <6>2. CASE s # Frame
                        <7>1. s \in Kids /\ pc[s] \in Linked /\ kids[1] # s
                            BY <6>2, <4>2, <3>1, <1>1, <1>c DEF Linked
                        <7>2. At(s) \in 1..Len(kids) /\ kids[At(s)] = s
                            BY <7>1, <2>2, Found
                        <7>3. /\ kids' \in Seq(Kids) /\ Len(kids') = Len(kids) - 1
                              /\ \A i \in 1..Len(kids') : kids'[i] = IF i < At(s) THEN kids[i] ELSE kids[i + 1]
                            BY <7>1, <2>2, <1>1, Unlinking
                        <7>4. At(s) > 1 /\ Len(kids) \in Nat /\ Len(kids') \in Nat
                            BY <7>1, <7>2, <7>3, <2>2
                        <7>5. 1 \in 1..Len(kids')
                            BY <7>2, <7>3, <7>4
                        <7> QED
                            BY <7>3, <7>4, <7>5, EmptySeq
                    <6> QED
                        BY <6>1, <6>2
                <5> QED
                    BY <3>1, <4>2, <5>1 DEF FarLeft
            <4>3. CASE kids = <<>> /\ l[1] = Continuation
                <5>1. s = Frame
                    BY <4>3, <1>1, <1>c DEF ListOK, Linked
                <5> QED
                    BY <5>1, <4>3, <3>1, <1>c
            <4> QED
                BY <4>1, <4>2, <4>3, <1>11 DEF FarLeft
        <3> QED
            BY <2>1, <3>2, <1>14 DEF LeftmostOK, N
    <2> QED
        BY <2>3, <2>4
<1>16. InPlace(N, AllWritten, mixed, Running)
    <2>1. \A d \in Running, q \in {lp, at(4), at(5)} : Upto(q, d) <=> Upto(lp, d)
        BY <1>2, <1>c
    <2> QED
        BY <2>1, <1>14 DEF ViewsOK, M
<1>17. Running' \subseteq Running /\ AllWritten' = AllWritten
    BY <1>1, <1>4, Constants DEF Running, AllWritten, Written
<1>18. InPlace(N, AllWritten, mixed, Running')
    BY <1>16, <1>17 DEF InPlace
<1> QED
    BY <1>1, <1>6, <1>15, <1>17, <1>18 DEF ViewsOK, N

-----------------------------------------------------------------------------
(* The views: the frame goes on.                                           *)
-----------------------------------------------------------------------------
(* The one map that is left becomes the map of the frame                   *)
(* (scheduler.c:2737-2800).                                                *)
LEMMA ViewsResumed ==
    ASSUME TypeOK, ListOK, SyncOK, ViewsOK, NEW s \in Strands, ResumeFrame(s), TypeOK'
    PROVE  ViewsOK'
<1> DEFINE f == <<Continuation, 4>>
           z == <<0, 5>>
           M == AllMaps
           N == AllMaps'
           h == [q \in Places |-> IF q = z THEN f ELSE q]
<1>c. /\ MaxKids \in Nat /\ Strands = 0..MaxKids /\ Kids = 1..MaxKids /\ Frame = 0
      /\ Continuation = MaxKids + 1 /\ Row(Frame) = Continuation
    BY Constants, Placing DEF Row
<1>1. /\ pc[s] = "left" /\ join = 1
      /\ map' = [map EXCEPT ![Frame] = slot[Frame]] /\ slot' = [slot EXCEPT ![Frame] = NoMap]
      /\ kids' = kids /\ taken' = taken /\ spawned' = spawned
      /\ updated' = updated /\ mixed' = mixed
    BY DEF ResumeFrame, SetupReducers
<1>2. pc'[Frame] \in {"run", "unwind"} /\ \A c \in Kids : pc'[c] = pc[c] \/ pc'[c] = "done"
    BY <1>c DEF ResumeFrame, TypeOK
<1>3. kids = <<>> /\ \A t \in Strands : pc[t] \in {"left", "unborn", "done"}
    BY <1>1, TheLast
<1>4. /\ \A t \in Strands : map[t] = NoMap /\ taken[t] = Nothing
      /\ \A c \in Kids : slot[c] = NoMap
    BY <1>3, Constants DEF ViewsOK, MapsOK, Linked
<1>5. /\ map'[Frame] = slot[Frame] /\ slot'[Frame] = NoMap
      /\ \A t \in Strands : t # Frame => map'[t] = map[t] /\ slot'[t] = slot[t]
    BY <1>1, Constants DEF TypeOK
<1>6. MapsOK'
    <2>1. /\ \A t \in Strands : map'[t] # NoMap => pc'[t] \in {"run", "ended", "reduced", "unwind"}
          /\ \A t \in Strands : taken'[t] # Nothing => pc'[t] = "reduce"
          /\ \A c \in Kids : slot'[c] # NoMap => pc'[c] \in Linked
          /\ slot'[Frame] # NoMap => unsynched'
        BY <1>1, <1>2, <1>4, <1>5, Constants
    <2>2. \A u \in updated' : u[2] \in 0..(2 * spawned')
        BY <1>1 DEF ViewsOK, MapsOK
    <2> QED
        BY <2>1, <2>2 DEF MapsOK
<1>7. M \in [Places -> AnyMap] /\ N \in [Places -> AnyMap]
    BY MapTypes, MapTypesNext
<1>8. /\ f \in Places /\ z \in Places /\ f # z /\ f[1] = Continuation
      /\ M[z] = slot[Frame] /\ N[z] = NoMap /\ N[f] = slot[Frame]
    <2>1. 4 \in 1..5 /\ Continuation \in 1..Continuation
        BY <1>c
    <2>2. f \in Places /\ z \in Places
        BY <2>1, Placing
    <2>3. N[f] = map'[Frame]
        <3>1. f = <<Row(Frame), 4>> /\ Frame \in Strands
            BY <1>c
        <3> QED
            BY <3>1, MapsInNext
    <2> QED
        BY <2>2, <2>3, <1>5, <1>c, MapsAt, MapsAtNext
<1>9. ASSUME NEW q \in Places, q # z PROVE M[q] = NoMap /\ (q # f => N[q] = NoMap)
    <2>1. PICK t \in Strands, k \in 1..5 : q = <<Row(t), k>>
        BY <1>9, Rows
    <2>2. \A i \in 1..3 : taken[t][i] = NoMap /\ taken'[t][i] = NoMap
        <3>1. \A i \in 1..3 : i = 1 \/ i = 2 \/ i = 3
            OBVIOUS
        <3>2. Nothing[1] = NoMap /\ Nothing[2] = NoMap /\ Nothing[3] = NoMap
            BY DEF Nothing
        <3>3. taken[t] = Nothing /\ taken'[t] = Nothing
            BY <1>1, <1>4
        <3> QED
            BY <3>1, <3>2, <3>3
    <2>3. t # Frame => slot[t] = NoMap /\ slot'[t] = NoMap /\ map'[t] = NoMap
        BY <1>4, <1>5, Constants
    <2>4. Held(t, k) = NoMap
        BY <2>2, <2>3, <1>4 DEF Held
    <2>5. q # f => ~(t = Frame /\ k = 4)
        BY <2>1, <1>c
    <2>6. q # f => Held(t, k)' = NoMap
        BY <2>2, <2>3, <2>5 DEF Held
    <2> QED
        BY <2>1, <2>4, <2>6, MapsAt, MapsAtNext
<1>10. h \in [Places -> Places] /\ h[z] = f
    BY <1>8
<1> HIDE DEF f, z, M, N, h
<1>11. /\ \A q \in Places : M[q] # NoMap => N[h[q]] = M[q]
       /\ \A q \in Places : N[q] # NoMap => \E o \in Places : M[o] # NoMap /\ h[o] = q
       /\ \A q, o \in Places : M[q] # NoMap /\ M[o] # NoMap /\ Before(q, o) => Before(h[q], h[o])
    BY <1>8, <1>9, <1>10, PlacesInOrder
<1>12. /\ \A l \in Places : Leading(M, l) => Leading(N, h[l])
       /\ \A written, anyhow, running :
             /\ InPlace(M, written, anyhow, running)
             /\ \A d \in running, q \in Places : M[q] # NoMap => (Upto(q, d) <=> Upto(h[q], d))
             => InPlace(N, written, anyhow, running)
    BY <1>7, <1>10, <1>11, MovedMaps
<1>13. LeftmostOK'
    <2>1. PICK l \in Places : Leading(M, l)
        BY DEF ViewsOK, LeftmostOK, M
    <2>2. l = z
        BY <2>1, <1>9 DEF Leading, Leads
    <2>3. Leading(N, f)
        BY <2>1, <2>2, <1>10, <1>12
    <2>4. PICK g \in Places : g = f
        BY <1>8
    <2>5. FarLeft(g)'
        BY <2>4, <1>1, <1>3, <1>8 DEF FarLeft
    <2> QED
        BY <2>3, <2>4, <2>5 DEF LeftmostOK, N
<1>14. Running = {} /\ Running' = {} /\ AllWritten' = AllWritten
    BY <1>1, <1>2, <1>3, Constants DEF Running, AllWritten, Written
<1>15. InPlace(N, AllWritten, mixed, Running)
    BY <1>12, <1>14 DEF ViewsOK, M
<1> QED
    BY <1>1, <1>6, <1>13, <1>14, <1>15 DEF ViewsOK, N

-----------------------------------------------------------------------------
(* The views: what follows.                                                *)
-----------------------------------------------------------------------------
(* At first there is the leftmost map, with the frame, and in it the value *)
(* of the variable.                                                        *)
LEMMA ViewsInit == Init => ViewsOK
<1> SUFFICES ASSUME Init PROVE ViewsOK
    OBVIOUS
<1> DEFINE f == <<Continuation, 4>>
           M == AllMaps
           m == EmptyMap(TRUE)
<1>c. /\ MaxKids \in Nat /\ Strands = 0..MaxKids /\ Kids = 1..MaxKids /\ Frame = 0 /\ Frame \in Strands
      /\ Continuation = MaxKids + 1 /\ Row(Frame) = Continuation
    BY Constants, Placing DEF Row
<1>1. /\ map[Frame] = m /\ \A s \in Strands : s # Frame => map[s] = NoMap
      /\ \A s \in Strands : slot[s] = NoMap /\ taken[s] = Nothing
      /\ pc[Frame] = "run" /\ \A c \in Kids : pc[c] = "unborn"
      /\ kids = <<>> /\ updated = {} /\ mixed = FALSE /\ spawned = 0
    BY <1>c DEF Init
<1>2. m \in Map /\ m # NoMap /\ m.is_leftmost /\ \A r \in Reducers : ViewIn(m, r) = Variable
    BY NewMap, Constants
<1> HIDE DEF m
<1>3. MapsOK
    BY <1>1, <1>c DEF MapsOK
<1>4. TypeOK /\ M \in [Places -> AnyMap]
    BY TypesInit, MapTypes
<1>5. f \in Places /\ f[1] = Continuation /\ M[f] = m
    <2>1. 4 \in 1..5 /\ Continuation \in 1..Continuation
        BY <1>c
    <2>2. M[<<Row(Frame), 4>>] = map[Frame]
        BY <1>c, MapsIn
    <2> QED
        BY <2>1, <2>2, <1>1, <1>c, Placing
<1>6. ASSUME NEW q \in Places, q # f PROVE M[q] = NoMap
    <2>1. CASE q = <<0, 5>>
        BY <2>1, <1>1, <1>c, MapsAt
    <2>2. CASE q # <<0, 5>>
        <3>1. PICK t \in Strands, k \in 1..5 : q = <<Row(t), k>>
            BY <2>2, Rows
        <3>2. k = 4 => t # Frame
            BY <3>1, <1>6, <1>c
        <3>3. k = 1 \/ k = 2 \/ k = 3 \/ k = 4 \/ k = 5
            OBVIOUS
        <3>4. Held(t, k) = NoMap
            BY <3>2, <3>3, <1>1 DEF Held, Nothing
        <3> QED
            BY <3>1, <3>4, MapsAt
    <2> QED
        BY <2>1, <2>2
<1> HIDE DEF f, M
<1>7. LeftmostOK
    <2>1. Leading(M, f)
        BY <1>2, <1>5, <1>6, PlacesInOrder DEF Leading, Leads
    <2> QED
        BY <2>1, <1>1, <1>5 DEF LeftmostOK, FarLeft, M
<1>8. Running = {}
    BY <1>1 DEF Running
<1>9. ASSUME NEW r \in Reducers
      PROVE  Complete(ViewsOf(M, r), AllWritten[r]) /\ Sorted(ViewsOf(M, r))
    <2> DEFINE v == ViewsOf(M, r)
    <2>1. AllWritten[r] = {-1}
        BY <1>1 DEF AllWritten, Written
    <2>2. /\ v \in Seqs /\ v[f] = <<-1>>
          /\ \A e \in Cells(v) : e[1] \in Places /\ M[e[1]] # NoMap
        BY <1>2, <1>4, <1>5, ViewsAt DEF Variable
    <2> HIDE DEF v
    <2>3. Len(v[f]) = 1 /\ v[f][1] = -1
        BY <2>2
    <2>4. ASSUME NEW e \in Cells(v) PROVE e = <<f, 1>> /\ Number(v, e) = -1
        <3>1. e[1] = f
            BY <2>2, <1>6
        <3>2. e = <<f, e[2]>> /\ e[2] \in 1..1 /\ Number(v, e) = v[f][e[2]]
            BY <3>1, <2>2, <2>3, InCells
        <3>3. e[2] = 1
            BY <3>2
        <3> QED
            BY <3>2, <3>3, <2>3
    <2>5. <<f, 1>> \in Cells(v)
        BY <2>2, <2>3, <1>5, InCells
    <2>6. Complete(v, {-1})
        BY <2>4, <2>5 DEF Complete
    <2>7. Sorted(v)
        BY <2>2, <2>4, CellsInOrder DEF Sorted
    <2> QED
        BY <2>1, <2>6, <2>7 DEF v
<1>10. InPlace(AllMaps, AllWritten, mixed, Running)
    BY <1>8, <1>9 DEF InPlace, M
<1> QED
    BY <1>3, <1>7, <1>10 DEF ViewsOK

(* Every step keeps the views in order. *)
LEMMA ViewsKept ==
    ASSUME RInv, ViewsOK, [Next]_vars, RInv'
    PROVE  ViewsOK'
<1>1. TypeOK /\ ListOK /\ SyncOK /\ TypeOK'
    BY DEF RInv
<1>p. pc \in [Strands -> States] /\ Frame \in Strands /\ Kids \subseteq Strands
    BY <1>1, Constants DEF TypeOK
<1>2. ASSUME NEW s \in Strands, NEW r \in Reducers, Update(s, r) PROVE ViewsOK'
    BY <1>1, <1>2, ViewsUpdate
<1>3. ASSUME NEW s \in Strands, TakeMaps(s) PROVE ViewsOK'
    BY <1>1, <1>3, ViewsTaken
<1>4. ASSUME NEW s \in Strands, Reduce(s) PROVE ViewsOK'
    BY <1>1, <1>4, ViewsReduced
<1>5. ASSUME NEW s \in Strands, Leave(s) PROVE ViewsOK'
    BY <1>1, <1>5, ViewsLeft
<1>6. ASSUME NEW s \in Strands, DropReference(s) PROVE ViewsOK'
    BY <1>1, <1>p, <1>6, ViewsIdle DEF DropReference, Goto, maps
<1>7. ASSUME NEW s \in Strands, ResumeFrame(s) PROVE ViewsOK'
    BY <1>1, <1>7, ViewsResumed
<1>8. ASSUME NEW c \in Kids, StartPending(c) \/ End(c) \/ Throw(c) PROVE ViewsOK'
    BY <1>1, <1>p, <1>8, ViewsIdle DEF StartPending, End, Throw, Goto, maps, tree
<1>9. CASE Steal
    BY <1>1, <1>9, ViewsStolen
<1>10. CASE SpawnPending
    BY <1>1, <1>10, ViewsPending
<1>11. CASE Sync \/ ThrowAndSync
    BY <1>1, <1>p, <1>11, ViewsIdle DEF Sync, ThrowAndSync, Goto, maps, tree
<1>12. CASE UNCHANGED vars
    BY <1>1, <1>12, ViewsIdle DEF vars, maps, tree
<1> QED
    BY <1>2, <1>3, <1>4, <1>5, <1>6, <1>7, <1>8, <1>9, <1>10, <1>11, <1>12 DEF Next

(* What is in the views are the numbers in their cells.                    *)
LEMMA EntriesAreCells ==
    ASSUME TypeOK, NEW r \in Reducers
    PROVE  LET v == ViewsOf(AllMaps, r)
           IN  /\ v \in Seqs
               /\ \A e \in Cells(v) : <<e[1], e[2], Number(v, e)>> \in Entries(r)
               /\ \A n \in Entries(r) : /\ <<n[1], n[2]>> \in Cells(v) /\ n = <<n[1], n[2], n[3]>>
                                        /\ Number(v, <<n[1], n[2]>>) = n[3]
<1> DEFINE v == ViewsOf(AllMaps, r)
<1>1. v \in Seqs /\ \A p \in Places : v[p] = ViewIn(MapAt(p), r)
    BY MapTypes, ViewsAt DEF AllMaps
<1>2. Entries(r) = UNION {{<<p, i, v[p][i]>> : i \in DOMAIN v[p]} : p \in Places}
    BY <1>1 DEF Entries
<1> HIDE DEF v
<1>3. \A p \in Places : DOMAIN v[p] = 1..Len(v[p]) /\ Len(v[p]) \in Nat
    BY <1>1 DEF Seqs
<1>4. ASSUME NEW e \in Cells(v) PROVE <<e[1], e[2], Number(v, e)>> \in Entries(r)
    <2>1. e[1] \in Places /\ e[2] \in DOMAIN v[e[1]] /\ Number(v, e) = v[e[1]][e[2]]
        BY <1>1, <1>3, InCells
    <2> QED
        BY <2>1, <1>2
<1>5. ASSUME NEW n \in Entries(r)
      PROVE  /\ <<n[1], n[2]>> \in Cells(v) /\ n = <<n[1], n[2], n[3]>>
             /\ Number(v, <<n[1], n[2]>>) = n[3]
    <2>1. PICK p \in Places : \E i \in DOMAIN v[p] : n = <<p, i, v[p][i]>>
        BY <1>2
    <2>2. PICK i \in DOMAIN v[p] : n = <<p, i, v[p][i]>>
        BY <2>1
    <2>3. i \in Int /\ 1 <= i /\ i <= Len(v[p])
        BY <1>3
    <2>4. <<p, i>> \in Cells(v) /\ Number(v, <<p, i>>) = v[p][i]
        BY <2>3, <1>1, InCells
    <2> QED
        BY <2>2, <2>4
<1> QED
    BY <1>1, <1>4, <1>5 DEF v

(* So nothing is lost, and all is in order.                                *)
LEMMA ViewsOKSuffices == TypeOK /\ ViewsOK => ViewsInOrderUnlessMixed
<1> SUFFICES ASSUME TypeOK, ViewsOK, NEW r \in Reducers
             PROVE  NothingLost(Entries(r), Written(r)) /\ (mixed \/ InOrder(Entries(r)))
    BY DEF ViewsInOrderUnlessMixed
<1> DEFINE v == ViewsOf(AllMaps, r)
           at(n) == <<n[1], n[2]>>
<1>1. /\ \A e \in Cells(v) : <<e[1], e[2], Number(v, e)>> \in Entries(r)
      /\ \A n \in Entries(r) : /\ at(n) \in Cells(v) /\ n = <<n[1], n[2], n[3]>>
                               /\ Number(v, at(n)) = n[3]
    BY EntriesAreCells
<1>2. Complete(v, Written(r)) /\ (mixed \/ Sorted(v))
    BY DEF ViewsOK, InPlace, AllWritten
<1>3. \A n \in Entries(r) : at(n)[1] = n[1] /\ at(n)[2] = n[2]
    OBVIOUS
<1> HIDE DEF v, at
<1>4. {n[3] : n \in Entries(r)} = Written(r)
    <2>1. ASSUME NEW n \in Entries(r) PROVE n[3] \in Written(r)
        BY <1>1, <1>2 DEF Complete
    <2>2. ASSUME NEW x \in Written(r) PROVE \E n \in Entries(r) : n[3] = x
        <3>1. PICK e \in Cells(v) : Number(v, e) = x
            BY <1>2 DEF Complete
        <3>2. <<e[1], e[2], x>> \in Entries(r)
            BY <3>1, <1>1
        <3> QED
            BY <3>2
    <2> QED
        BY <2>1, <2>2
<1>5. ASSUME NEW n \in Entries(r), NEW o \in Entries(r), n[3] = o[3] PROVE n = o
    <2>1. at(n) = at(o)
        BY <1>1, <1>2, <1>5 DEF Complete
    <2>2. n[1] = o[1] /\ n[2] = o[2]
        BY <2>1, <1>3
    <2> QED
        BY <2>2, <1>1, <1>5
<1>6. ASSUME Sorted(v), NEW n \in Entries(r), NEW o \in Entries(r),
             Before(n[1], o[1]) \/ (n[1] = o[1] /\ n[2] < o[2])
      PROVE  n[3] < o[3]
    <2>1. Prior(at(n), at(o))
        BY <1>3, <1>6 DEF Prior
    <2> QED
        BY <2>1, <1>1, <1>6 DEF Sorted
<1> QED
    BY <1>2, <1>4, <1>5, <1>6 DEF NothingLost, InOrder

(* The views of a reducer, read from left to right, are its updates in     *)
(* their serial order, none lost and none twice, whatever the order in     *)
(* which strands end and maps are merged; unless a pending frame was       *)
(* spawned in the middle of a map, when none is lost and none twice        *)
(* (scheduler.c:4101-4122, 4250-4287, 4400-4455).                          *)
THEOREM ViewsCombineInOrder == Spec => []ViewsInOrderUnlessMixed
<1>1. Init => RInv /\ ViewsOK
    BY RInvInit, ViewsInit
<1>2. RInv /\ ViewsOK /\ [Next]_vars => (RInv /\ ViewsOK)'
    BY RInvKept, ViewsKept
<1>3. RInv /\ ViewsOK => ViewsInOrderUnlessMixed
    BY ViewsOKSuffices DEF RInv
<1> QED
    BY <1>1, <1>2, <1>3, PTL DEF Spec
=============================================================================

--------------------------- MODULE CilkFor_proofs ---------------------------
(***************************************************************************)
(* Proofs about CilkFor: a loop executes each iteration once, and each     *)
(* strand has the pedigree it has in a serial run, for any number of       *)
(* workers and iterations, any grain and any steals.                       *)
(*                                                                         *)
(* The invariant has five parts beside the types: how the frames that      *)
(* exist are parents and children (TreeOK), where on the stacks and deques *)
(* each can be (HoldersOK), what its join counter and its unsynched flag   *)
(* say of its children (JoinsOK), whose the iterations are that have not   *)
(* started (IterationsOK), and which pedigree is kept where (PedigreesOK). *)
(* The first three say that a frame which passes a sync has no children    *)
(* left, and that who returns finds its own parent; the last two are what  *)
(* the loop needs them for.                                                *)
(***************************************************************************)
EXTENDS CilkFor, FiniteSetTheorems, SequenceTheorems, WellFoundedInduction, TLAPS

Paths == Seq(Nat)
Fields == {"function", "step", "low", "high", "saved", "spawned", "parent_pedigree",
           "spawn_helper_pedigree", "join", "unsynched", "suspended"}
Alive == DOMAIN frames

(* What a worker has on its stack is known from the first frame: that      *)
(* frame, the one that called it, and so on to one that was spawned.       *)
ChainOf(f) ==
    IF f = <<>> \/ Last(f) # 0 THEN <<f>>
    ELSE IF Front(f) = <<>> \/ Last(Front(f)) # 0 THEN <<f, Front(f)>>
    ELSE <<f, Front(f), Front(Front(f))>>

FrameOK(r) ==
    /\ DOMAIN r = Fields
    /\ r.function \in {"main", "noop", "range", "body", "kid"}
    /\ r.step \in 0..4
    /\ r.low \in Int /\ r.high \in Int /\ r.join \in Int
    /\ r.spawned \in Nat
    /\ r.unsynched \in BOOLEAN

TypeOK ==
    /\ kind \in Kinds
    /\ stack \in [Workers -> Seq(Paths)]
    /\ deque \in [Workers -> Seq(Seq(Paths))]
    /\ DOMAIN pedigree = Workers
    /\ Alive \subseteq Paths /\ IsFiniteSet(Alive)
    /\ \A f \in Alive : FrameOK(frames[f])
    /\ ran \in [0..(Count - 1) -> Nat]

(* How a frame and one that it has spawned or called fit together: there   *)
(* is no spawned frame once its parent has passed its sync.                *)
IsChild(p, k, c) ==
    \/ k = 0 /\ p.function = "main" /\ p.step = 2 /\ c.function = "range"
    \/ k = 0 /\ p.function = "range" /\ p.step = 1 /\ c.function = "body"
    \/ /\ k \in 1..p.spawned
       /\ \/ p.function = "main" /\ p.step \in {1, 2, 3} /\ c.function = "noop"
          \/ p.function = "range" /\ p.step \in {0, 1, 2} /\ c.function = "range"
          \/ p.function = "body" /\ p.step = 1 /\ c.function = "kid" /\ c.low = p.low

TreeOK ==
    /\ Main \in Alive /\ frames[Main].function = "main"
    /\ frames[Main].step = 0 => frames[Main].spawned = 0
    /\ \A f \in Alive : f # Main =>
         Front(f) \in Alive /\ IsChild(frames[Front(f)], Last(f), frames[f])

-----------------------------------------------------------------------------
(* The stacks of a worker, from the oldest on its deque to the one it is   *)
(* executing.                                                              *)
Entry(w, i) == IF i <= Len(deque[w]) THEN deque[w][i] ELSE stack[w]
Slots(w) == IF stack[w] = <<>> THEN {} ELSE 1..(Len(deque[w]) + 1)
Top(w, i) == Head(Entry(w, i))
InDeque(f) == \E w \in Workers : \E i \in Slots(w) : i <= Len(deque[w]) /\ f = Top(w, i)
IsHead(f) == f \in Alive /\ Append(f, 0) \notin Alive

HoldersOK ==
    /\ \A w \in Workers : stack[w] = <<>> => deque[w] = <<>>
    /\ \A w \in Workers : \A i \in Slots(w) :
         /\ IsHead(Top(w, i))
         /\ Entry(w, i) = ChainOf(Top(w, i))
         /\ frames[Top(w, i)].suspended = <<>>
         /\ i > 1 => Last(Entry(w, i)) = Append(Top(w, i - 1), frames[Top(w, i - 1)].spawned)
    /\ \A w, v \in Workers : \A i \in Slots(w), j \in Slots(v) :
         Top(w, i) = Top(v, j) => w = v /\ i = j
    /\ \A f \in Alive : frames[f].suspended # <<>> =>
         IsHead(f) /\ frames[f].suspended = ChainOf(f)

(* The children that will not find their parent at their return.           *)
Orphans(f) ==
    {c \in Alive : /\ c # Main /\ Front(c) = f /\ Last(c) # 0
                   /\ ~(InDeque(f) /\ Last(c) = frames[f].spawned)}

(* The join counters are exact, and only what a worker took from a deque   *)
(* first can have been stolen.                                             *)
JoinOK(f) ==
    /\ frames[f].join = Cardinality(Orphans(f)) +
                        (IF frames[f].suspended = <<>> THEN 1 ELSE 0)
    /\ ~frames[f].unsynched => Orphans(f) = {} /\ frames[f].suspended = <<>>
NotStolen(s) == \A m \in 1..Len(s) : ~frames[s[m]].unsynched
JoinsOK ==
    /\ \A f \in Alive : JoinOK(f)
    /\ \A w \in Workers : \A i \in Slots(w) : i > 1 => NotStolen(Entry(w, i))

-----------------------------------------------------------------------------
(* The iterations that a frame has yet to start, or to hand on.            *)
Todo(r) ==
    IF r.function = "main" /\ r.step <= 1 THEN 0..(Count - 1)
    ELSE IF r.function \in {"range", "body"} /\ r.step = 0 THEN r.low..(r.high - 1)
    ELSE IF r.function = "body" /\ r.step <= 2 THEN (r.low + 1)..(r.high - 1)
    ELSE {}

IterationsOK ==
    /\ \A f \in Alive :
         /\ frames[f].function = "range" /\ frames[f].step = 0 => frames[f].low < frames[f].high
         /\ frames[f].function = "body" =>
              frames[f].step <= 3 /\ (frames[f].step = 3 <=> frames[f].low >= frames[f].high)
         /\ \A i \in Todo(frames[f]) : i \in 0..(Count - 1) /\ ran[i] = 0
    /\ \A f, g \in Alive : \A i \in Todo(frames[f]) : i \in Todo(frames[g]) => f = g
    /\ \A i \in 0..(Count - 1) :
         ran[i] = 1 \/ (ran[i] = 0 /\ \E f \in Alive : i \in Todo(frames[f]))

(* The pedigree p of who executes the frame r, and the one that is kept    *)
(* for who goes on with it after a spawn or after a sync.                  *)
Serial(r, p) ==
    /\ r.function = "body" /\ r.step <= 2 => p = <<r.step, r.low>> \o X
    /\ r.function = "kid" => p = <<0, 0, r.low>> \o X
    /\ r.function = "main" /\ r.step <= 1 => p = AddToRank(X, r.step)
    /\ r.function = "main" /\ r.step = 3 => p = AddToRank(X, 1)
    /\ r.function = "main" /\ r.step = 4 => p = AddToRank(X, 2)
AtSpawn(r, p) ==
    /\ r.function \in {"main", "range", "body"}
    /\ r.function = "body" => r.step = 1 /\ p = <<0, r.low>> \o X
    /\ r.function = "main" => r.step = 1 /\ p = X
    /\ r.function = "range" => r.step = 0
AtSync(r, p) ==
    /\ r.function \in {"main", "range", "body"}
    /\ r.function = "body" => r.step = 1 /\ p = <<1, r.low>> \o X
    /\ r.function = "main" => r.step = 3 /\ p = AddToRank(X, 1)
    /\ r.function = "range" => r.step = 2

PedigreeOK(f) ==
    /\ frames[f].function \notin {"main", "noop"} => frames[Main].step >= 2
    /\ InDeque(f) => AtSpawn(frames[f], frames[f].parent_pedigree)
    /\ frames[f].suspended # <<>> => AtSync(frames[f], frames[f].parent_pedigree)
    /\ frames[f].function = "kid" =>
         frames[f].spawn_helper_pedigree = <<0, frames[f].low>> \o X
    /\ frames[f].function = "noop" => frames[f].spawn_helper_pedigree = X
PedigreesOK ==
    /\ frames[Main].step >= 2 => loop_root_pedigree = X
    /\ \A f \in Alive : PedigreeOK(f)
    /\ \A w \in Workers : stack[w] # <<>> => Serial(My(w), pedigree[w])

LoopInv == TypeOK /\ TreeOK /\ HoldersOK /\ JoinsOK /\ IterationsOK /\ PedigreesOK

-----------------------------------------------------------------------------
(* Paths: a child's name is its parent's and one number more. *)
LEMMA Extending ==
    ASSUME NEW f \in Paths, NEW k \in Nat
    PROVE  /\ Append(f, k) \in Paths
           /\ Append(f, k) # <<>> /\ Append(f, k) # f
           /\ Front(Append(f, k)) = f
           /\ Last(Append(f, k)) = k
<1>1. /\ Append(f, k) \in Paths /\ Len(Append(f, k)) = Len(f) + 1
      /\ Append(f, k)[Len(f) + 1] = k
      /\ \A i \in 1..Len(f) : Append(f, k)[i] = f[i]
    BY DEF Paths
<1>2. Len(f) \in Nat
    BY DEF Paths
<1>3. Append(f, k) # <<>> /\ Append(f, k) # f
  <2>1. Len(Append(f, k)) # Len(f) /\ Len(Append(f, k)) # 0
    BY <1>1, <1>2
  <2> QED
    BY <2>1, EmptySeq
<1>4. SubSeq(Append(f, k), 1, Len(f)) = f
  <2>1. \A i \in 1..Len(f) : Append(f, k)[i] \in Nat
    BY <1>1 DEF Paths
  <2>2. /\ SubSeq(Append(f, k), 1, Len(f)) \in Seq(Nat)
        /\ Len(SubSeq(Append(f, k), 1, Len(f))) = Len(f)
        /\ \A i \in 1..Len(f) : SubSeq(Append(f, k), 1, Len(f))[i] = f[i]
    BY <1>1, <1>2, <2>1, SubSeqProperties DEF Paths
  <2> QED
    BY <2>2, SeqEqual DEF Paths
<1>5. Len(Append(f, k)) - 1 = Len(f)
    BY <1>1, <1>2
<1>6. Front(Append(f, k)) = f
    BY <1>4, <1>5 DEF Front
<1>7. Last(Append(f, k)) = k
    BY <1>1 DEF Last
<1> QED
    BY <1>1, <1>3, <1>6, <1>7 DEF Paths

(* A name that is not empty is its parent's with a number appended. *)
LEMMA Shortening ==
    ASSUME NEW f \in Paths, f # <<>>
    PROVE  /\ Front(f) \in Paths /\ Last(f) \in Nat
           /\ f = Append(Front(f), Last(f))
           /\ Len(Front(f)) = Len(f) - 1 /\ Len(f) \in Nat /\ Len(f) > 0
<1>1. Len(f) \in Nat /\ Len(f) > 0 /\ \A i \in 1..Len(f) : f[i] \in Nat
    BY EmptySeq, ElementOfSeq DEF Paths
<1>2. /\ Front(f) \in Seq(Nat) /\ Len(Front(f)) = Len(f) - 1
      /\ \A i \in 1..(Len(f) - 1) : Front(f)[i] = f[i]
  <2> DEFINE n == Len(f) - 1
  <2>1. n \in Int /\ n >= 0 /\ \A i \in 1..n : f[i] \in Nat
    BY <1>1
  <2> HIDE DEF n
  <2>2. /\ SubSeq(f, 1, n) \in Seq(Nat)
        /\ Len(SubSeq(f, 1, n)) = IF 1 <= n THEN n - 1 + 1 ELSE 0
        /\ \A i \in 1..(n - 1 + 1) : SubSeq(f, 1, n)[i] = f[1 + i - 1]
    BY <2>1, SubSeqProperties
  <2>3. /\ SubSeq(f, 1, n) \in Seq(Nat) /\ Len(SubSeq(f, 1, n)) = n
        /\ \A i \in 1..n : SubSeq(f, 1, n)[i] = f[i]
    BY <2>1, <2>2
  <2> QED
    BY <2>3 DEF Front, n
<1>3. Last(f) \in Nat
    BY <1>1 DEF Last
<1>4. /\ Append(Front(f), Last(f)) \in Seq(Nat) /\ Len(Append(Front(f), Last(f))) = Len(f)
      /\ Append(Front(f), Last(f))[Len(f)] = f[Len(f)]
      /\ \A i \in 1..(Len(f) - 1) : Append(Front(f), Last(f))[i] = f[i]
    BY <1>1, <1>2, <1>3 DEF Last
<1>5. \A i \in 1..Len(f) : Append(Front(f), Last(f))[i] = f[i]
  <2> SUFFICES ASSUME NEW i \in 1..Len(f) PROVE Append(Front(f), Last(f))[i] = f[i]
    OBVIOUS
  <2>1. i = Len(f) \/ i \in 1..(Len(f) - 1)
    BY <1>1
  <2> QED
    BY <2>1, <1>4
<1>6. f = Append(Front(f), Last(f))
    BY <1>4, <1>5, SeqEqual DEF Paths
<1> QED
    BY <1>1, <1>2, <1>3, <1>6 DEF Paths

(* A sequence with one element in front of it. *)
LEMMA InFront ==
    ASSUME NEW S, NEW x \in S, NEW s \in Seq(S)
    PROVE  /\ <<x>> \o s \in Seq(S) /\ Len(<<x>> \o s) = Len(s) + 1 /\ Len(s) \in Nat
           /\ Head(<<x>> \o s) = x /\ Tail(<<x>> \o s) = s /\ <<x>> \o s # <<>>
           /\ (<<x>> \o s)[1] = x
           /\ \A i \in 1..Len(s) : (<<x>> \o s)[i + 1] = s[i]
           /\ s # <<>> => Last(<<x>> \o s) = Last(s)
<1> DEFINE t == <<x>> \o s
<1>1. <<x>> \in Seq(S) /\ Len(<<x>>) = 1 /\ <<x>>[1] = x
    OBVIOUS
<1>2. Len(s) \in Nat
    BY LenProperties
<1>3. /\ t \in Seq(S) /\ Len(t) = 1 + Len(s)
      /\ \A i \in 1..(1 + Len(s)) : t[i] = IF i <= 1 THEN <<x>>[i] ELSE s[i - 1]
    BY <1>1, ConcatProperties
<1> HIDE DEF t
<1>4. t[1] = x /\ \A i \in 1..Len(s) : t[i + 1] = s[i]
  <2>1. t[1] = x
    BY <1>1, <1>2, <1>3
  <2>2. ASSUME NEW i \in 1..Len(s) PROVE t[i + 1] = s[i]
    <3>1. i + 1 \in 1..(1 + Len(s)) /\ ~(i + 1 <= 1) /\ (i + 1) - 1 = i
        BY <1>2
    <3> QED
        BY <3>1, <1>3
  <2> QED
    BY <2>1, <2>2
<1>5. t # <<>>
    BY <1>2, <1>3, EmptySeq
<1>6. /\ Tail(t) \in Seq(S) /\ Len(Tail(t)) = Len(t) - 1
      /\ \A i \in 1..Len(Tail(t)) : Tail(t)[i] = t[i + 1]
    BY <1>3, <1>5, HeadTailProperties
<1>7. Head(t) = x
    BY <1>3, <1>4, <1>5
<1>8. Tail(t) = s
  <2>1. Len(Tail(t)) = Len(s)
    BY <1>2, <1>3, <1>6
  <2>2. \A i \in 1..Len(s) : Tail(t)[i] = s[i]
    BY <1>4, <1>6, <2>1
  <2> QED
    BY <1>6, <2>1, <2>2, SeqEqual
<1>9. ASSUME s # <<>> PROVE Last(t) = Last(s)
  <2>1. Len(s) \in 1..Len(s) /\ Len(t) = Len(s) + 1
    BY <1>2, <1>3, <1>9, EmptySeq
  <2> QED
    BY <2>1, <1>4 DEF Last
<1> QED
    BY <1>2, <1>3, <1>4, <1>5, <1>7, <1>8, <1>9 DEF t

(* Two numbers, or a number and a pair, in front. *)
LEMMA TwoInFront ==
    ASSUME NEW S, NEW x \in S, NEW y \in S, NEW z \in S
    PROVE  /\ <<x>> \o <<y>> = <<x, y>>
           /\ <<x>> \o <<y, z>> = <<x, y, z>>
<1>1. <<x>> \o <<y>> = <<x, y>>
  <2>1. <<y>> \in Seq(S) /\ Len(<<y>>) = 1 /\ <<y>>[1] = y
    OBVIOUS
  <2>2. <<x>> \o <<y>> \in Seq(S) /\ Len(<<x>> \o <<y>>) = 2
        /\ (<<x>> \o <<y>>)[1] = x /\ (<<x>> \o <<y>>)[1 + 1] = y
    BY <2>1, InFront
  <2>3. <<x, y>> \in Seq(S) /\ Len(<<x, y>>) = 2
    OBVIOUS
  <2>4. \A i \in 1..2 : (<<x>> \o <<y>>)[i] = <<x, y>>[i]
    BY <2>2
  <2> QED
    BY <2>2, <2>3, <2>4, SeqEqual
<1>2. <<x>> \o <<y, z>> = <<x, y, z>>
  <2>1. <<y, z>> \in Seq(S) /\ Len(<<y, z>>) = 2 /\ <<y, z>>[1] = y /\ <<y, z>>[2] = z
    OBVIOUS
  <2>2. <<x>> \o <<y, z>> \in Seq(S) /\ Len(<<x>> \o <<y, z>>) = 3
        /\ (<<x>> \o <<y, z>>)[1] = x /\ (<<x>> \o <<y, z>>)[1 + 1] = y
        /\ (<<x>> \o <<y, z>>)[2 + 1] = z
    BY <2>1, InFront
  <2>3. <<x, y, z>> \in Seq(S) /\ Len(<<x, y, z>>) = 3
    OBVIOUS
  <2>4. \A i \in 1..3 : (<<x>> \o <<y, z>>)[i] = <<x, y, z>>[i]
    BY <2>2
  <2> QED
    BY <2>2, <2>3, <2>4, SeqEqual
<1> QED
    BY <1>1, <1>2

(* The name of the function that contains the loop. *)
LEMMA MainPath == Main \in Paths /\ Main = <<>>
    BY EmptySeq DEF Main, Paths

-----------------------------------------------------------------------------
(* What the tree of frames says of a frame's parent, and of its callee.    *)
LEMMA Parent ==
    ASSUME TypeOK, TreeOK, NEW f \in Alive, f # Main
    PROVE  /\ f \in Paths /\ f # <<>> /\ Front(f) \in Alive /\ Front(f) \in Paths /\ Last(f) \in Nat
           /\ f = Append(Front(f), Last(f)) /\ Front(f) # f
           /\ IsChild(frames[Front(f)], Last(f), frames[f])
<1>1. f \in Paths /\ f # <<>>
    BY MainPath DEF TypeOK
<1>2. Front(f) # f
    BY <1>1, Shortening
<1> QED
    BY <1>1, <1>2, Shortening DEF TreeOK

(* Which functions can call, and which can be called. *)
LEMMA Functions ==
    ASSUME TypeOK, TreeOK, NEW f \in Alive
    PROVE  /\ FrameOK(frames[f])
           /\ frames[f].function = "main" <=> f = Main
           /\ frames[f].function = "range" /\ Last(f) = 0 => Front(f) = Main
           /\ frames[f].function = "body" => /\ f # Main /\ Last(f) = 0 /\ Front(f) # Main
                                             /\ frames[Front(f)].function = "range"
           /\ frames[f].function \in {"noop", "kid"} => f # Main /\ Last(f) # 0
<1>1. FrameOK(frames[f])
    BY DEF TypeOK
<1>2. CASE f = Main
    BY <1>1, <1>2 DEF TreeOK
<1>3. CASE f # Main
  <2>1. Front(f) \in Alive /\ IsChild(frames[Front(f)], Last(f), frames[f]) /\ Last(f) \in Nat
    BY <1>3, Parent
  <2>2. frames[Front(f)].function = "main" => Front(f) = Main
    <3> SUFFICES ASSUME Front(f) # Main, frames[Front(f)].function = "main" PROVE FALSE
        OBVIOUS
    <3>1. IsChild(frames[Front(Front(f))], Last(Front(f)), frames[Front(f)])
        BY <2>1, Parent
    <3> QED
        BY <3>1 DEF IsChild
  <2>3. frames[Front(f)].function = "range" => Front(f) # Main
    BY DEF TreeOK
  <2> QED
    BY <1>1, <1>3, <2>1, <2>2, <2>3 DEF IsChild
<1> QED
    BY <1>2, <1>3

-----------------------------------------------------------------------------
(* Stacks *)
LEMMA Chains ==
    ASSUME TypeOK, TreeOK, NEW f \in Alive
    PROVE  /\ ChainOf(f) \in Seq(Paths) /\ ChainOf(f) # <<>> /\ Head(ChainOf(f)) = f
           /\ Len(ChainOf(f)) \in Nat \ {0}
           /\ \A n \in 1..Len(ChainOf(f)) : ChainOf(f)[n] \in Alive
           /\ (Len(ChainOf(f)) = 1) <=> (f = Main \/ Last(f) # 0)
           /\ f = Main \/ Last(f) # 0 => ChainOf(f) = <<f>> /\ Last(ChainOf(f)) = f
<1>1. f \in Paths /\ Main = <<>>
    BY MainPath DEF TypeOK
<1>2. CASE f = <<>> \/ Last(f) # 0
  <2>1. ChainOf(f) = <<f>>
    BY <1>2 DEF ChainOf
  <2> QED
    BY <2>1, <1>1, <1>2 DEF Last
<1>3. CASE ~(f = <<>> \/ Last(f) # 0) /\ (Front(f) = <<>> \/ Last(Front(f)) # 0)
  <2>1. ChainOf(f) = <<f, Front(f)>>
    BY <1>3 DEF ChainOf
  <2>2. Front(f) \in Alive /\ Front(f) \in Paths
    BY <1>1, <1>3, Parent
  <2> QED
    BY <2>1, <2>2, <1>1, <1>3
<1>4. CASE ~(f = <<>> \/ Last(f) # 0) /\ ~(Front(f) = <<>> \/ Last(Front(f)) # 0)
  <2>1. ChainOf(f) = <<f, Front(f), Front(Front(f))>>
    BY <1>4 DEF ChainOf
  <2>2. Front(f) \in Alive /\ Front(f) \in Paths
    BY <1>1, <1>4, Parent
  <2>3. Front(Front(f)) \in Alive /\ Front(Front(f)) \in Paths
    BY <1>1, <1>4, <2>2, Parent
  <2> QED
    BY <2>1, <2>2, <2>3, <1>1, <1>4
<1> QED
    BY <1>2, <1>3, <1>4

(* Who is at the head of a stack is on no other. *)
LEMMA OneChain ==
    ASSUME TypeOK, TreeOK, NEW f, IsHead(f), NEW g \in Alive,
           NEW n \in 1..Len(ChainOf(g)), ChainOf(g)[n] = f
    PROVE  f = g
<1>1. f \in Alive /\ f \in Paths /\ Append(f, 0) \notin Alive /\ g \in Paths
    BY DEF IsHead, TypeOK
<1>2. CASE g = <<>> \/ Last(g) # 0
    BY <1>2 DEF ChainOf
<1>3. CASE ~(g = <<>> \/ Last(g) # 0)
  <2>1. g = Append(Front(g), 0) /\ Front(g) \in Alive
    BY <1>1, <1>3, Shortening, Parent, MainPath
  <2>2. Front(g) # f
    BY <1>1, <2>1
  <2>3. CASE Front(g) = <<>> \/ Last(Front(g)) # 0
    <3>1. ChainOf(g) = <<g, Front(g)>>
        BY <1>3, <2>3 DEF ChainOf
    <3> QED
        BY <3>1, <2>2
  <2>4. CASE ~(Front(g) = <<>> \/ Last(Front(g)) # 0)
    <3>1. ChainOf(g) = <<g, Front(g), Front(Front(g))>>
        BY <1>3, <2>4 DEF ChainOf
    <3>2. Front(g) = Append(Front(Front(g)), 0)
        BY <2>1, <2>4, Parent, MainPath
    <3>3. Front(Front(g)) # f
        BY <1>1, <2>1, <3>2
    <3> QED
        BY <3>1, <2>2, <3>3
  <2> QED
    BY <2>3, <2>4
<1> QED
    BY <1>2, <1>3

(* A call puts the callee in front, a return takes it off. *)
LEMMA Callers ==
    ASSUME TypeOK, TreeOK, NEW f \in Alive, frames[f].function \in {"main", "range"}
    PROVE  /\ ChainOf(Append(f, 0)) = <<Append(f, 0)>> \o ChainOf(f)
           /\ Tail(<<Append(f, 0)>> \o ChainOf(f)) = ChainOf(f)
<1>1. f \in Paths /\ Main = <<>>
    BY MainPath DEF TypeOK
<1>2. /\ Append(f, 0) # <<>> /\ Last(Append(f, 0)) = 0 /\ Front(Append(f, 0)) = f
      /\ Append(f, 0) \in Paths
    BY <1>1, Extending
<1>t. Tail(<<Append(f, 0)>> \o ChainOf(f)) = ChainOf(f)
    BY <1>2, Chains, InFront
<1>3. CASE f = <<>> \/ Last(f) # 0
  <2>1. ChainOf(f) = <<f>> /\ ChainOf(Append(f, 0)) = <<Append(f, 0), f>>
    BY <1>2, <1>3 DEF ChainOf
  <2>2. <<Append(f, 0)>> \o <<f>> = <<Append(f, 0), f>>
    BY <1>1, <1>2, TwoInFront
  <2> QED
    BY <1>t, <2>1, <2>2
<1>4. CASE ~(f = <<>> \/ Last(f) # 0)
  <2>1. frames[f].function = "range" /\ Front(f) = Main
    BY <1>1, <1>4, Functions
  <2>2. ChainOf(f) = <<f, Front(f)>>
    BY <1>1, <1>4, <2>1 DEF ChainOf
  <2>3. ChainOf(Append(f, 0)) = <<Append(f, 0), f, Front(f)>>
    BY <1>2, <1>4 DEF ChainOf
  <2>4. Front(f) \in Paths
    BY <2>1, MainPath
  <2>5. <<Append(f, 0)>> \o <<f, Front(f)>> = <<Append(f, 0), f, Front(f)>>
    BY <1>1, <1>2, <2>4, TwoInFront
  <2> QED
    BY <1>t, <2>2, <2>3, <2>5
<1> QED
    BY <1>3, <1>4

-----------------------------------------------------------------------------
(* What becomes of the entries of a worker. *)
LEMMA Places ==
    ASSUME TypeOK, NEW w \in Workers
    PROVE  /\ Len(deque[w]) \in Nat
           /\ deque[w] \in Seq(Seq(Paths)) /\ stack[w] \in Seq(Paths)
           /\ stack[w] # <<>> =>
                /\ Slots(w) = 1..(Len(deque[w]) + 1) /\ Len(deque[w]) + 1 \in Slots(w)
                /\ Entry(w, Len(deque[w]) + 1) = stack[w]
                /\ Top(w, Len(deque[w]) + 1) = Me(w)
<1>1. Len(deque[w]) \in Nat /\ deque[w] \in Seq(Seq(Paths)) /\ stack[w] \in Seq(Paths)
    BY LenProperties DEF TypeOK
<1>2. ~(Len(deque[w]) + 1 <= Len(deque[w])) /\ Len(deque[w]) + 1 \in 1..(Len(deque[w]) + 1)
    BY <1>1
<1> QED
    BY <1>1, <1>2 DEF Slots, Entry, Top, Me

(* A spawn puts the stack on the deque and the child on the stack. *)
Pushes(w, c) ==
    /\ deque' = [deque EXCEPT ![w] = Append(@, stack[w])]
    /\ stack' = [stack EXCEPT ![w] = <<c>>]

(* What a spawn makes of the stacks. *)
Above(w, n, c) ==
    /\ stack' \in [Workers -> Seq(Paths)] /\ deque' \in [Workers -> Seq(Seq(Paths))]
    /\ n \in Nat /\ n >= 1 /\ Slots(w) = 1..n /\ Slots(w)' = 1..(n + 1)
    /\ Entry(w, n + 1)' = <<c>> /\ Top(w, n + 1)' = c
    /\ \A i \in 1..n : Entry(w, i)' = Entry(w, i) /\ Top(w, i)' = Top(w, i)
    /\ \A v \in Workers \ {w} :
         /\ Slots(v)' = Slots(v)
         /\ \A i \in Slots(v) : Entry(v, i)' = Entry(v, i) /\ Top(v, i)' = Top(v, i)
    /\ \A f : InDeque(f)' <=> InDeque(f) \/ f = Top(w, n)
    /\ \A v \in Workers : stack'[v] = <<>> => v # w /\ stack[v] = <<>> /\ deque'[v] = deque[v]

(* ... and that is what the push does. *)
LEMMA Pushed ==
    ASSUME TypeOK, NEW w \in Workers, stack[w] # <<>>, NEW c \in Paths, Pushes(w, c),
           NEW n, n = Len(deque[w]) + 1
    PROVE  Above(w, n, c)
<1>1. /\ Len(deque[w]) \in Nat /\ deque[w] \in Seq(Seq(Paths)) /\ stack[w] \in Seq(Paths)
      /\ <<c>> \in Seq(Paths) /\ <<c>> # <<>> /\ Head(<<c>>) = c
    BY Places
<1>2. /\ stack \in [Workers -> Seq(Paths)] /\ deque \in [Workers -> Seq(Seq(Paths))]
    BY DEF TypeOK
<1>3. /\ Append(deque[w], stack[w]) \in Seq(Seq(Paths))
      /\ Len(Append(deque[w], stack[w])) = n
      /\ Append(deque[w], stack[w])[n] = stack[w]
      /\ \A i \in 1..(n - 1) : Append(deque[w], stack[w])[i] = deque[w][i]
    BY <1>1
<1>4. /\ stack' \in [Workers -> Seq(Paths)] /\ deque' \in [Workers -> Seq(Seq(Paths))]
      /\ deque'[w] = Append(deque[w], stack[w]) /\ stack'[w] = <<c>>
      /\ \A v \in Workers \ {w} : deque'[v] = deque[v] /\ stack'[v] = stack[v]
    BY <1>1, <1>2, <1>3 DEF Pushes
<1>5. n \in Nat /\ n >= 1 /\ Slots(w) = 1..n /\ Slots(w)' = 1..(n + 1)
    BY <1>1, <1>3, <1>4 DEF Slots
<1>6. Entry(w, n + 1)' = <<c>> /\ Top(w, n + 1)' = c
    BY <1>1, <1>3, <1>4, <1>5 DEF Entry, Top
<1>7. \A i \in 1..n : Entry(w, i)' = Entry(w, i) /\ Top(w, i)' = Top(w, i)
  <2> SUFFICES ASSUME NEW i \in 1..n PROVE Entry(w, i)' = Entry(w, i)
    BY DEF Top
  <2>1. Entry(w, i)' = Append(deque[w], stack[w])[i]
    BY <1>3, <1>4, <1>5 DEF Entry
  <2>2. CASE i = n
    BY <2>1, <2>2, <1>1, <1>3 DEF Entry
  <2>3. CASE i # n
    <3>1. i \in 1..(n - 1) /\ i <= Len(deque[w])
        BY <2>3, <1>1, <1>5
    <3> QED
        BY <2>1, <3>1, <1>3 DEF Entry
  <2> QED
    BY <2>2, <2>3
<1>8. \A v \in Workers \ {w} :
         /\ Slots(v)' = Slots(v)
         /\ \A i \in Slots(v) : Entry(v, i)' = Entry(v, i) /\ Top(v, i)' = Top(v, i)
    BY <1>4 DEF Slots, Entry, Top
<1>9. ASSUME NEW f PROVE InDeque(f)' <=> InDeque(f) \/ f = Top(w, n)
  <2>1. ASSUME InDeque(f)' PROVE InDeque(f) \/ f = Top(w, n)
    <3>1. PICK v \in Workers : \E i \in Slots(v)' : i <= Len(deque'[v]) /\ f = Top(v, i)'
        BY <2>1 DEF InDeque
    <3>2. PICK i \in Slots(v)' : i <= Len(deque'[v]) /\ f = Top(v, i)'
        BY <3>1
    <3>3. CASE v = w
        <4>1. i \in 1..n
            BY <3>2, <3>3, <1>3, <1>4, <1>5
        <4>2. f = Top(w, i)
            BY <3>2, <3>3, <4>1, <1>7
        <4>3. i = n \/ (i \in Slots(w) /\ i <= Len(deque[w]))
            BY <4>1, <1>1, <1>5
        <4> QED
            BY <4>2, <4>3 DEF InDeque
    <3>4. CASE v # w
        BY <3>2, <3>4, <1>4, <1>8 DEF InDeque
    <3> QED
        BY <3>3, <3>4
  <2>2. ASSUME InDeque(f) PROVE InDeque(f)'
    <3>1. PICK v \in Workers : \E i \in Slots(v) : i <= Len(deque[v]) /\ f = Top(v, i)
        BY <2>2 DEF InDeque
    <3>2. PICK i \in Slots(v) : i <= Len(deque[v]) /\ f = Top(v, i)
        BY <3>1
    <3>3. i \in Slots(v)' /\ i <= Len(deque'[v]) /\ f = Top(v, i)'
        <4>1. CASE v = w
            BY <3>2, <4>1, <1>1, <1>3, <1>4, <1>5, <1>7
        <4>2. CASE v # w
            BY <3>2, <4>2, <1>4, <1>8
        <4> QED
            BY <4>1, <4>2
    <3> QED
        BY <3>3 DEF InDeque
  <2>3. ASSUME f = Top(w, n) PROVE InDeque(f)'
    <3>1. n \in Slots(w)' /\ n <= Len(deque'[w]) /\ f = Top(w, n)'
        BY <2>3, <1>3, <1>4, <1>5, <1>7
    <3> QED
        BY <3>1 DEF InDeque
  <2> QED
    BY <2>1, <2>2, <2>3
<1>10. \A v \in Workers : stack'[v] = <<>> => v # w /\ stack[v] = <<>> /\ deque'[v] = deque[v]
    BY <1>1, <1>4
<1> QED
    BY <1>4, <1>5, <1>6, <1>7, <1>8, <1>9, <1>10 DEF Above

(* The stacks of the others stay where they are. *)
Elsewhere(w) == \A v \in Workers \ {w} : stack'[v] = stack[v] /\ deque'[v] = deque[v]

(* What the step of one worker leaves of the others. *)
LEMMA OthersStay ==
    ASSUME NEW w, Elsewhere(w), NEW v \in Workers, v # w
    PROVE  /\ Slots(v)' = Slots(v)
           /\ \A i \in Slots(v) : Entry(v, i)' = Entry(v, i) /\ Top(v, i)' = Top(v, i)
    BY DEF Elsewhere, Slots, Entry, Top

(* A call and the return from it change the stack only. *)
LEMMA Replaced ==
    ASSUME TypeOK, NEW w \in Workers, stack[w] # <<>>, NEW s \in Seq(Paths), s # <<>>,
           stack' = [stack EXCEPT ![w] = s], deque' = deque,
           NEW n, n = Len(deque[w]) + 1
    PROVE  /\ stack' \in [Workers -> Seq(Paths)] /\ deque' \in [Workers -> Seq(Seq(Paths))]
           /\ n \in Nat /\ n >= 1 /\ Slots(w) = 1..n /\ Slots(w)' = 1..n
           /\ Elsewhere(w) /\ stack'[w] = s
           /\ Entry(w, n)' = s /\ Top(w, n)' = Head(s)
           /\ \A i \in 1..(n - 1) : Entry(w, i)' = Entry(w, i) /\ Top(w, i)' = Top(w, i)
           /\ \A f : InDeque(f)' <=> InDeque(f)
<1>1. /\ stack' \in [Workers -> Seq(Paths)] /\ deque' \in [Workers -> Seq(Seq(Paths))]
      /\ stack'[w] = s /\ Len(deque[w]) \in Nat /\ Elsewhere(w)
    BY Places DEF TypeOK, Elsewhere
<1>2. n \in Nat /\ n >= 1 /\ Slots(w) = 1..n /\ Slots(w)' = 1..n
    BY <1>1 DEF Slots
<1>3. Entry(w, n)' = s /\ Top(w, n)' = Head(s)
    BY <1>1, <1>2 DEF Entry, Top
<1>4. \A i \in 1..(n - 1) : Entry(w, i)' = Entry(w, i) /\ Top(w, i)' = Top(w, i)
    BY <1>1, <1>2 DEF Entry, Top
<1>5. \A v \in Workers : Slots(v)' = Slots(v)
    BY <1>1, <1>2, OthersStay
<1>6. \A v \in Workers : \A i \in Slots(v) : i <= Len(deque[v]) => Top(v, i)' = Top(v, i)
  <2> SUFFICES ASSUME NEW v \in Workers, NEW i \in Slots(v), i <= Len(deque[v])
               PROVE  Top(v, i)' = Top(v, i)
    OBVIOUS
  <2>1. CASE v = w
    BY <2>1, <1>1, <1>2, <1>4
  <2>2. CASE v # w
    BY <2>2, <1>1, OthersStay
  <2> QED
    BY <2>1, <2>2
<1>7. \A f : InDeque(f)' <=> InDeque(f)
    BY <1>5, <1>6 DEF InDeque
<1> QED
    BY <1>1, <1>2, <1>3, <1>4, <1>7

(* A worker without a deque leaves its stack. *)
LEMMA Cleared ==
    ASSUME TypeOK, NEW w \in Workers, stack[w] # <<>>, deque[w] = <<>>,
           stack' = [stack EXCEPT ![w] = <<>>], deque' = deque
    PROVE  /\ stack' \in [Workers -> Seq(Paths)] /\ deque' \in [Workers -> Seq(Seq(Paths))]
           /\ Slots(w) = {1} /\ Slots(w)' = {} /\ Top(w, 1) = Me(w) /\ Elsewhere(w)
           /\ stack'[w] = <<>>
           /\ \A f : InDeque(f)' <=> InDeque(f)
<1>1. /\ stack' \in [Workers -> Seq(Paths)] /\ deque' \in [Workers -> Seq(Seq(Paths))]
      /\ stack'[w] = <<>> /\ Elsewhere(w) /\ Len(deque[w]) = 0
    BY EmptySeq DEF TypeOK, Elsewhere
<1>2. Slots(w) = {1} /\ Slots(w)' = {} /\ Top(w, 1) = Me(w)
    BY <1>1 DEF Slots, Top, Entry, Me
<1>3. ASSUME NEW f PROVE InDeque(f)' <=> InDeque(f)
  <2>1. \A i \in Slots(w) : ~(i <= Len(deque[w]))
    BY <1>1, <1>2
  <2>2. \A v \in Workers \ {w} :
           /\ Slots(v)' = Slots(v)
           /\ \A i \in Slots(v) : Top(v, i)' = Top(v, i)
    BY <1>1, OthersStay
  <2> QED
    BY <2>1, <2>2, <1>2 DEF InDeque
<1> QED
    BY <1>1, <1>2, <1>3

(* An idle worker gets a stack. *)
LEMMA Started ==
    ASSUME TypeOK, NEW w \in Workers, stack[w] = <<>>, deque[w] = <<>>,
           NEW s \in Seq(Paths), s # <<>>,
           stack' = [stack EXCEPT ![w] = s], deque' = deque
    PROVE  /\ stack' \in [Workers -> Seq(Paths)] /\ deque' \in [Workers -> Seq(Seq(Paths))]
           /\ Slots(w) = {} /\ Slots(w)' = {1} /\ Top(w, 1)' = Head(s) /\ Elsewhere(w)
           /\ stack'[w] = s /\ Entry(w, 1)' = s
           /\ \A f : InDeque(f)' <=> InDeque(f)
<1>1. /\ stack' \in [Workers -> Seq(Paths)] /\ deque' \in [Workers -> Seq(Seq(Paths))]
      /\ stack'[w] = s /\ Elsewhere(w) /\ Len(deque[w]) = 0
    BY EmptySeq DEF TypeOK, Elsewhere
<1>2. Slots(w) = {} /\ Slots(w)' = {1} /\ Top(w, 1)' = Head(s) /\ Entry(w, 1)' = s
    BY <1>1 DEF Slots, Top, Entry
<1>3. ASSUME NEW f PROVE InDeque(f)' <=> InDeque(f)
  <2>1. \A i \in Slots(w)' : ~(i <= Len(deque'[w]))
    BY <1>1, <1>2
  <2>2. \A v \in Workers \ {w} :
           /\ Slots(v)' = Slots(v)
           /\ \A i \in Slots(v) : Top(v, i)' = Top(v, i)
    BY <1>1, OthersStay
  <2> QED
    BY <2>1, <2>2, <1>2 DEF InDeque
<1> QED
    BY <1>1, <1>2, <1>3

(* A return to the parent on the deque. *)
Pops(w) ==
    /\ stack' = [stack EXCEPT ![w] = Last(deque[w])]
    /\ deque' = [deque EXCEPT ![w] = Front(@)]

(* What a return to the parent makes of the stacks. *)
LEMMA Popped ==
    ASSUME TypeOK, HoldersOK, NEW w \in Workers, stack[w] # <<>>, deque[w] # <<>>, Pops(w),
           NEW n, n = Len(deque[w])
    PROVE  /\ stack' \in [Workers -> Seq(Paths)] /\ deque' \in [Workers -> Seq(Seq(Paths))]
           /\ n \in Nat /\ n >= 1 /\ Slots(w) = 1..(n + 1) /\ Slots(w)' = 1..n
           /\ Top(w, n + 1) = Me(w) /\ Elsewhere(w)
           /\ \A i \in 1..n : Entry(w, i)' = Entry(w, i) /\ Top(w, i)' = Top(w, i)
           /\ stack'[w] # <<>>
           /\ \A f : InDeque(f)' <=> InDeque(f) /\ f # Top(w, n)
<1>1. /\ n \in Nat /\ n >= 1 /\ deque[w] \in Seq(Seq(Paths)) /\ stack[w] \in Seq(Paths)
      /\ Slots(w) = 1..(n + 1) /\ Top(w, n + 1) = Me(w)
    BY Places, EmptySeq
<1>2. /\ stack \in [Workers -> Seq(Paths)] /\ deque \in [Workers -> Seq(Seq(Paths))]
    BY DEF TypeOK
<1>3. /\ Front(deque[w]) \in Seq(Seq(Paths)) /\ Len(Front(deque[w])) = n - 1
      /\ \A i \in 1..(n - 1) : Front(deque[w])[i] = deque[w][i]
  <2> DEFINE m == n - 1
             d == deque[w]
  <2>1. m \in Int /\ m >= 0 /\ \A i \in 1..m : d[i] \in Seq(Paths)
    BY <1>1
  <2> HIDE DEF m, d
  <2>2. /\ SubSeq(d, 1, m) \in Seq(Seq(Paths))
        /\ Len(SubSeq(d, 1, m)) = IF 1 <= m THEN m - 1 + 1 ELSE 0
        /\ \A i \in 1..(m - 1 + 1) : SubSeq(d, 1, m)[i] = d[1 + i - 1]
    BY <2>1, SubSeqProperties
  <2>3. /\ SubSeq(d, 1, m) \in Seq(Seq(Paths)) /\ Len(SubSeq(d, 1, m)) = m
        /\ \A i \in 1..m : SubSeq(d, 1, m)[i] = d[i]
    BY <2>1, <2>2
  <2> QED
    BY <2>3 DEF Front, m, d
<1>4. Last(deque[w]) = deque[w][n] /\ deque[w][n] \in Seq(Paths) /\ deque[w][n] = Entry(w, n)
    BY <1>1 DEF Last, Entry
<1>5. deque[w][n] # <<>>
  <2>1. n \in Slots(w) /\ Top(w, n) \in Alive /\ Entry(w, n) = ChainOf(Top(w, n))
    BY <1>1 DEF HoldersOK, IsHead
  <2> QED
    BY <2>1, <1>4 DEF ChainOf
<1>6. /\ stack' \in [Workers -> Seq(Paths)] /\ deque' \in [Workers -> Seq(Seq(Paths))]
      /\ stack'[w] = deque[w][n] /\ deque'[w] = Front(deque[w]) /\ Elsewhere(w)
    BY <1>2, <1>3, <1>4 DEF Pops, Elsewhere
<1>7. Slots(w)' = 1..n
    BY <1>1, <1>3, <1>5, <1>6 DEF Slots
<1>8. \A i \in 1..n : Entry(w, i)' = Entry(w, i) /\ Top(w, i)' = Top(w, i)
  <2> SUFFICES ASSUME NEW i \in 1..n PROVE Entry(w, i)' = Entry(w, i)
    BY DEF Top
  <2>1. CASE i = n
    <3>1. ~(i <= Len(deque'[w]))
        BY <2>1, <1>1, <1>3, <1>6
    <3> QED
        BY <2>1, <3>1, <1>4, <1>6 DEF Entry
  <2>2. CASE i # n
    <3>1. i \in 1..(n - 1) /\ i <= Len(deque'[w]) /\ i <= Len(deque[w])
        BY <2>2, <1>1, <1>3, <1>6
    <3> QED
        BY <3>1, <1>3, <1>6 DEF Entry
  <2> QED
    BY <2>1, <2>2
<1>9. ASSUME NEW f PROVE InDeque(f)' <=> InDeque(f) /\ f # Top(w, n)
  <2>1. \A v \in Workers \ {w} :
           /\ Slots(v)' = Slots(v) /\ deque'[v] = deque[v]
           /\ \A i \in Slots(v) : Top(v, i)' = Top(v, i)
    BY <1>6, OthersStay DEF Elsewhere
  <2>2. \A v \in Workers : \A i \in Slots(v) : Top(v, i) = Top(w, n) => v = w /\ i = n
    BY <1>1 DEF HoldersOK
  <2>3. ASSUME InDeque(f)' PROVE InDeque(f) /\ f # Top(w, n)
    <3>1. PICK v \in Workers : \E i \in Slots(v)' : i <= Len(deque'[v]) /\ f = Top(v, i)'
        BY <2>3 DEF InDeque
    <3>2. PICK i \in Slots(v)' : i <= Len(deque'[v]) /\ f = Top(v, i)'
        BY <3>1
    <3>3. CASE v = w
        <4>1. i \in 1..n /\ i <= n - 1
            BY <3>2, <3>3, <1>3, <1>6, <1>7
        <4>2. f = Top(w, i) /\ i \in Slots(w) /\ i # n /\ i <= Len(deque[w])
            BY <3>2, <3>3, <4>1, <1>1, <1>8
        <4> QED
            BY <4>2, <2>2 DEF InDeque
    <3>4. CASE v # w
        BY <3>2, <3>4, <2>1, <2>2 DEF InDeque
    <3> QED
        BY <3>3, <3>4
  <2>4. ASSUME InDeque(f), f # Top(w, n) PROVE InDeque(f)'
    <3>1. PICK v \in Workers : \E i \in Slots(v) : i <= Len(deque[v]) /\ f = Top(v, i)
        BY <2>4 DEF InDeque
    <3>2. PICK i \in Slots(v) : i <= Len(deque[v]) /\ f = Top(v, i)
        BY <3>1
    <3>3. i \in Slots(v)' /\ i <= Len(deque'[v]) /\ f = Top(v, i)'
        <4>1. CASE v = w
            <5>1. i # n /\ i \in 1..(n - 1) /\ i \in 1..n
                BY <2>4, <3>2, <4>1, <1>1
            <5> QED
                BY <5>1, <3>2, <4>1, <1>3, <1>6, <1>7, <1>8
        <4>2. CASE v # w
            BY <3>2, <4>2, <2>1
        <4> QED
            BY <4>1, <4>2
    <3> QED
        BY <3>3 DEF InDeque
  <2> QED
    BY <2>3, <2>4
<1> QED
    BY <1>1, <1>5, <1>6, <1>7, <1>8, <1>9

(* A thief takes the oldest stack on a deque. *)
Moves(w, v) ==
    /\ deque' = [deque EXCEPT ![v] = Tail(@)]
    /\ stack' = [stack EXCEPT ![w] = Head(deque[v])]

(* What a steal makes of them. *)
LEMMA Stolen ==
    ASSUME TypeOK, HoldersOK, NEW w \in Workers, NEW v \in Workers, v # w,
           stack[w] = <<>>, deque[v] # <<>>, Moves(w, v),
           NEW n, n = Len(deque[v])
    PROVE  /\ stack' \in [Workers -> Seq(Paths)] /\ deque' \in [Workers -> Seq(Seq(Paths))]
           /\ n \in Nat /\ n >= 1 /\ Slots(v) = 1..(n + 1) /\ Slots(v)' = 1..n
           /\ Slots(w) = {} /\ Slots(w)' = {1} /\ deque[w] = <<>> /\ deque'[w] = <<>>
           /\ Entry(w, 1)' = Entry(v, 1) /\ Top(w, 1)' = Top(v, 1) /\ stack'[w] = Entry(v, 1)
           /\ \A i \in 1..n : Entry(v, i)' = Entry(v, i + 1) /\ Top(v, i)' = Top(v, i + 1)
           /\ \A u \in Workers \ {v, w} :
                /\ Slots(u)' = Slots(u)
                /\ \A i \in Slots(u) : Entry(u, i)' = Entry(u, i) /\ Top(u, i)' = Top(u, i)
           /\ \A u \in Workers \ {w} : stack'[u] = stack[u]
           /\ \A u \in Workers \ {v, w} : deque'[u] = deque[u]
           /\ InDeque(Top(v, 1))
           /\ \A f : InDeque(f)' <=> InDeque(f) /\ f # Top(v, 1)
<1>1. /\ n \in Nat /\ n >= 1 /\ deque[v] \in Seq(Seq(Paths)) /\ stack[v] # <<>>
      /\ Slots(v) = 1..(n + 1) /\ deque[w] = <<>>
    BY Places, EmptySeq DEF HoldersOK
<1>2. /\ stack \in [Workers -> Seq(Paths)] /\ deque \in [Workers -> Seq(Seq(Paths))]
    BY DEF TypeOK
<1>3. /\ Tail(deque[v]) \in Seq(Seq(Paths)) /\ Len(Tail(deque[v])) = n - 1
      /\ \A i \in 1..(n - 1) : Tail(deque[v])[i] = deque[v][i + 1]
    BY <1>1, HeadTailProperties
<1>4. Head(deque[v]) = deque[v][1] /\ deque[v][1] \in Seq(Paths) /\ deque[v][1] = Entry(v, 1)
    BY <1>1 DEF Entry
<1>5. deque[v][1] # <<>>
  <2>1. 1 \in Slots(v) /\ Entry(v, 1) = ChainOf(Top(v, 1))
    BY <1>1 DEF HoldersOK
  <2>2. ChainOf(Top(v, 1)) # <<>>
    BY DEF ChainOf
  <2> QED
    BY <2>1, <2>2, <1>4
<1>6. /\ stack' \in [Workers -> Seq(Paths)] /\ deque' \in [Workers -> Seq(Seq(Paths))]
      /\ stack'[w] = deque[v][1] /\ deque'[v] = Tail(deque[v]) /\ deque'[w] = <<>>
      /\ \A u \in Workers \ {w} : stack'[u] = stack[u]
      /\ \A u \in Workers \ {v} : deque'[u] = deque[u]
    BY <1>1, <1>2, <1>3, <1>4 DEF Moves
<1>7. Slots(v)' = 1..n /\ Slots(w) = {} /\ Slots(w)' = {1}
  <2>1. Len(deque'[v]) + 1 = n /\ stack'[v] # <<>>
    BY <1>1, <1>3, <1>6
  <2>2. Len(deque'[w]) = 0
    BY <1>6, EmptySeq
  <2> QED
    BY <2>1, <2>2, <1>5, <1>6 DEF Slots
<1>8. Entry(w, 1)' = Entry(v, 1) /\ Top(w, 1)' = Top(v, 1) /\ stack'[w] = Entry(v, 1)
  <2>1. Len(deque'[w]) = 0
    BY <1>6, EmptySeq
  <2> QED
    BY <2>1, <1>4, <1>6 DEF Entry, Top
<1>9. \A i \in 1..n : Entry(v, i)' = Entry(v, i + 1) /\ Top(v, i)' = Top(v, i + 1)
  <2> SUFFICES ASSUME NEW i \in 1..n PROVE Entry(v, i)' = Entry(v, i + 1)
    BY DEF Top
  <2>1. CASE i = n
    <3>1. ~(i <= Len(deque'[v])) /\ ~(i + 1 <= Len(deque[v]))
        BY <2>1, <1>1, <1>3, <1>6
    <3> QED
        BY <2>1, <3>1, <1>6 DEF Entry
  <2>2. CASE i # n
    <3>0. Len(deque'[v]) = n - 1
        BY <1>3, <1>6, Zenon
    <3>1. i \in 1..(n - 1) /\ i <= Len(deque'[v]) /\ i + 1 <= Len(deque[v])
        BY <2>2, <3>0, <1>1
    <3>2. Tail(deque[v])[i] = deque[v][i + 1]
        BY <3>1, <1>3
    <3>3. deque'[v][i] = deque[v][i + 1]
        BY <3>2, <1>6, Zenon
    <3>4. Entry(v, i)' = deque'[v][i]
        BY <3>1 DEF Entry
    <3>5. Entry(v, i + 1) = deque[v][i + 1]
        BY <3>1 DEF Entry
    <3> QED
        BY <3>3, <3>4, <3>5
  <2> QED
    BY <2>1, <2>2
<1>10. \A u \in Workers \ {v, w} :
         /\ Slots(u)' = Slots(u)
         /\ \A i \in Slots(u) : Entry(u, i)' = Entry(u, i) /\ Top(u, i)' = Top(u, i)
    BY <1>6 DEF Slots, Entry, Top
<1>11. \A u \in Workers : \A i \in Slots(u) : Top(u, i) = Top(v, 1) => u = v /\ i = 1
  <2>1. 1 \in Slots(v)
    BY <1>1
  <2> QED
    BY <2>1 DEF HoldersOK
<1>12. InDeque(Top(v, 1))
  <2>1. 1 \in Slots(v) /\ 1 <= Len(deque[v])
    BY <1>1
  <2> QED
    BY <2>1 DEF InDeque
<1>13. ASSUME NEW f PROVE InDeque(f)' <=> InDeque(f) /\ f # Top(v, 1)
  <2>1. ASSUME InDeque(f)' PROVE InDeque(f) /\ f # Top(v, 1)
    <3>1. PICK u \in Workers : \E i \in Slots(u)' : i <= Len(deque'[u]) /\ f = Top(u, i)'
        BY <2>1 DEF InDeque
    <3>2. PICK i \in Slots(u)' : i <= Len(deque'[u]) /\ f = Top(u, i)'
        BY <3>1
    <3>3. CASE u = v
        <4>1. i \in 1..n /\ i <= n - 1 /\ f = Top(v, i + 1)
            BY <3>2, <3>3, <1>3, <1>6, <1>7, <1>9
        <4>2. i + 1 \in Slots(v) /\ i + 1 # 1 /\ i + 1 <= Len(deque[v])
            BY <4>1, <1>1
        <4> QED
            BY <4>1, <4>2, <1>11 DEF InDeque
    <3>4. CASE u = w
        <4>1. i = 1 /\ Len(deque'[w]) = 0
            BY <3>2, <3>4, <1>6, <1>7, EmptySeq
        <4> QED
            BY <4>1, <3>2, <3>4
    <3>5. CASE u # v /\ u # w
        <4>1. f = Top(u, i) /\ i \in Slots(u) /\ i <= Len(deque[u])
            BY <3>2, <3>5, <1>6, <1>10
        <4> QED
            BY <4>1, <3>5, <1>11 DEF InDeque
    <3> QED
        BY <3>3, <3>4, <3>5
  <2>2. ASSUME InDeque(f), f # Top(v, 1) PROVE InDeque(f)'
    <3>1. PICK u \in Workers : \E i \in Slots(u) : i <= Len(deque[u]) /\ f = Top(u, i)
        BY <2>2 DEF InDeque
    <3>2. PICK i \in Slots(u) : i <= Len(deque[u]) /\ f = Top(u, i)
        BY <3>1
    <3>3. CASE u = v
        <4>1. i \in 2..n
            BY <2>2, <3>2, <3>3, <1>1
        <4>2. i - 1 \in 1..n /\ i - 1 <= n - 1 /\ (i - 1) + 1 = i
            BY <4>1, <1>1
        <4>3. Top(v, i - 1)' = f /\ i - 1 \in Slots(v)' /\ i - 1 <= Len(deque'[v])
            BY <4>2, <3>2, <3>3, <1>3, <1>6, <1>7, <1>9
        <4> QED
            BY <4>3 DEF InDeque
    <3>4. u # w
        BY <3>2, <1>7
    <3>5. CASE u # v
        BY <3>2, <3>4, <3>5, <1>6, <1>10 DEF InDeque
    <3> QED
        BY <3>3, <3>5
  <2> QED
    BY <2>1, <2>2
<1> QED
    BY <1>1, <1>6, <1>7, <1>8, <1>9, <1>10, <1>12, <1>13

-----------------------------------------------------------------------------
(* What becomes of holders and join counters.  What a frame is for them:   *)
SameJoin(f) ==
    /\ frames'[f].join = frames[f].join /\ frames'[f].unsynched = frames[f].unsynched
    /\ frames'[f].suspended = frames[f].suspended

(* The frame on top of an entry: it exists, and no other entry has it. *)
LEMMA Tops ==
    ASSUME TypeOK, HoldersOK, NEW w \in Workers, NEW i \in Slots(w)
    PROVE  /\ Top(w, i) \in Alive /\ Top(w, i) \in Paths /\ Append(Top(w, i), 0) \notin Alive
           /\ \A v \in Workers : \A j \in Slots(v) : Top(v, j) = Top(w, i) => v = w /\ j = i
           /\ i \in Nat /\ i >= 1 /\ (i > 1 => i - 1 \in Slots(w))
<1>1. i \in Nat /\ i >= 1 /\ (i > 1 => i - 1 \in Slots(w))
  <2>1. Slots(w) = 1..(Len(deque[w]) + 1) /\ Len(deque[w]) \in Nat
    BY Places DEF Slots
  <2> QED
    BY <2>1
<1> QED
    BY <1>1 DEF HoldersOK, IsHead, TypeOK

(* Who is executed is not on a deque, nor is who is suspended. *)
LEMMA NotInDeque ==
    ASSUME TypeOK, HoldersOK
    PROVE  /\ \A w \in Workers : stack[w] # <<>> =>
                Me(w) \in Alive /\ IsHead(Me(w)) /\ ~InDeque(Me(w)) /\ frames[Me(w)].suspended = <<>>
           /\ \A f \in Alive : frames[f].suspended # <<>> => ~InDeque(f) /\ IsHead(f)
<1>1. ASSUME NEW w \in Workers, stack[w] # <<>>
      PROVE  Me(w) \in Alive /\ IsHead(Me(w)) /\ ~InDeque(Me(w)) /\ frames[Me(w)].suspended = <<>>
  <2>1. /\ Len(deque[w]) \in Nat /\ Len(deque[w]) + 1 \in Slots(w)
        /\ Top(w, Len(deque[w]) + 1) = Me(w)
    BY <1>1, Places
  <2>2. Me(w) \in Alive /\ IsHead(Me(w)) /\ frames[Me(w)].suspended = <<>>
    BY <2>1 DEF HoldersOK, IsHead
  <2>3. ~InDeque(Me(w))
    <3> SUFFICES ASSUME InDeque(Me(w)) PROVE FALSE
        OBVIOUS
    <3>1. PICK v \in Workers : \E i \in Slots(v) : i <= Len(deque[v]) /\ Me(w) = Top(v, i)
        BY DEF InDeque
    <3>2. PICK i \in Slots(v) : i <= Len(deque[v]) /\ Me(w) = Top(v, i)
        BY <3>1
    <3>3. v = w /\ i = Len(deque[w]) + 1
        BY <2>1, <3>2, Tops
    <3> QED
        BY <2>1, <3>2, <3>3
  <2> QED
    BY <2>2, <2>3
<1>2. ASSUME NEW f \in Alive, frames[f].suspended # <<>>
      PROVE  ~InDeque(f) /\ IsHead(f)
    BY <1>2 DEF HoldersOK, InDeque
<1> QED
    BY <1>1, <1>2

(* A spawn leaves every frame where it can be. *)
LEMMA SpawnHolders ==
    ASSUME TypeOK, TreeOK, HoldersOK, NEW w \in Workers, stack[w] # <<>>, NEW f, f = Me(w),
           NEW k \in Nat \ {0}, NEW c, c = Append(f, k), c \notin Alive,
           Pushes(w, c), Alive' = Alive \cup {c},
           frames'[c].suspended = <<>>, frames'[f].spawned = k,
           \A g \in Alive : SameJoin(g),
           \A g \in Alive \ {f} : frames'[g].spawned = frames[g].spawned
    PROVE  HoldersOK'
<1>0. PICK n : n = Len(deque[w]) + 1
    OBVIOUS
<1>1. f \in Alive /\ f \in Paths /\ Top(w, n) = f /\ n \in Slots(w)
    BY <1>0, NotInDeque, Places DEF TypeOK
<1>2. /\ c \in Paths /\ c # <<>> /\ Front(c) = f /\ Last(c) = k /\ k # 0
    BY <1>1, Extending
<1>3. /\ n \in Nat /\ n >= 1 /\ Slots(w) = 1..n /\ Slots(w)' = 1..(n + 1)
      /\ Entry(w, n + 1)' = <<c>> /\ Top(w, n + 1)' = c
      /\ \A i \in 1..n : Entry(w, i)' = Entry(w, i) /\ Top(w, i)' = Top(w, i)
      /\ \A v \in Workers \ {w} :
           /\ Slots(v)' = Slots(v)
           /\ \A i \in Slots(v) : Entry(v, i)' = Entry(v, i) /\ Top(v, i)' = Top(v, i)
      /\ \A v \in Workers : stack'[v] = <<>> => v # w /\ stack[v] = <<>> /\ deque'[v] = deque[v]
  <2>1. Above(w, n, c)
    BY <1>0, <1>2, Pushed
  <2> QED
    BY <2>1 DEF Above
<1>4. \A v \in Workers : stack'[v] = <<>> => deque'[v] = <<>>
    BY <1>3 DEF HoldersOK
<1>5. ASSUME NEW g \in Alive, IsHead(g) PROVE IsHead(g)'
  <2>1. g \in Paths
    BY DEF TypeOK
  <2>2. Append(g, 0) # c
    BY <2>1, <1>2, Extending
  <2> QED
    BY <1>5, <2>2 DEF IsHead
<1>6. IsHead(c)'
  <2>1. Append(c, 0) # c /\ Append(c, 0) # Main /\ Front(Append(c, 0)) = c
    BY <1>2, Extending, MainPath
  <2>2. Append(c, 0) \notin Alive
    BY <2>1 DEF TreeOK
  <2> QED
    BY <2>1, <2>2 DEF IsHead
<1>7. ChainOf(c) = <<c>> /\ Last(<<c>>) = c
    BY <1>2 DEF ChainOf, Last
<1>8. ASSUME NEW v \in Workers, NEW i \in Slots(v), NEW t, t = Top(v, i)
      PROVE  /\ IsHead(t)' /\ t \in Alive
             /\ Entry(v, i) = ChainOf(t)
             /\ frames'[t].suspended = <<>>
             /\ i > 1 => /\ i - 1 \in Slots(v) /\ (v = w => i - 1 # n)
                         /\ Last(Entry(v, i)) = Append(Top(v, i - 1), frames'[Top(v, i - 1)].spawned)
  <2>1. /\ IsHead(t) /\ t \in Alive
        /\ Entry(v, i) = ChainOf(t)
        /\ frames[t].suspended = <<>>
        /\ i > 1 => Last(Entry(v, i)) = Append(Top(v, i - 1), frames[Top(v, i - 1)].spawned)
    BY <1>8 DEF HoldersOK, IsHead
  <2>2. frames'[t].suspended = <<>>
    BY <2>1 DEF SameJoin
  <2>3. IsHead(t)'
    BY <2>1, <1>5
  <2>4. ASSUME i > 1
        PROVE  /\ i - 1 \in Slots(v) /\ (v = w => i - 1 # n)
               /\ frames'[Top(v, i - 1)].spawned = frames[Top(v, i - 1)].spawned
    <3>1. i - 1 \in Slots(v) /\ (v = w => i - 1 # n)
      <4>1. i - 1 \in Slots(v) /\ i \in Nat
        BY <2>4, Tops
      <4>2. v = w => i \in 1..n
        BY <1>3
      <4> QED
        BY <4>1, <4>2, <1>3
    <3>2. Top(v, i - 1) \in Alive /\ Top(v, i - 1) # f
        BY <3>1, <1>1, Tops
    <3> QED
        BY <3>1, <3>2
  <2> QED
    BY <2>1, <2>2, <2>3, <2>4
<1>9. ASSUME NEW v \in Workers, NEW i \in Slots(v)', NEW t, t = Top(v, i)'
      PROVE  /\ IsHead(t)'
             /\ Entry(v, i)' = ChainOf(t)
             /\ frames'[t].suspended = <<>>
             /\ i > 1 => Last(Entry(v, i)') = Append(Top(v, i - 1)', frames'[Top(v, i - 1)'].spawned)
  <2>1. CASE v = w /\ i = n + 1
    <3>1. i - 1 = n /\ n \in 1..n
        BY <2>1, <1>3
    <3>2. Top(v, i - 1)' = f
      <4>1. Top(w, n)' = Top(w, n)
        BY <3>1, <1>3
      <4> QED
        BY <2>1, <3>1, <4>1, <1>1
    <3>3. t = c /\ Entry(v, i)' = <<c>>
        BY <2>1, <1>3, <1>9
    <3>4. Last(Entry(v, i)') = Append(Top(v, i - 1)', frames'[Top(v, i - 1)'].spawned)
        BY <3>2, <3>3, <1>7
    <3>5. IsHead(t)'
        BY <3>3, <1>6
    <3>6. Entry(v, i)' = ChainOf(t) /\ frames'[t].suspended = <<>>
        BY <3>3, <1>7
    <3> QED
        BY <3>4, <3>5, <3>6
  <2>2. CASE ~(v = w /\ i = n + 1)
    <3>1. i \in Slots(v) /\ Entry(v, i)' = Entry(v, i) /\ Top(v, i)' = Top(v, i)
      <4>1. CASE v = w
        <5>1. i \in 1..n /\ Slots(v) = 1..n
            BY <2>2, <4>1, <1>3
        <5> QED
            BY <4>1, <5>1, <1>3
      <4>2. CASE v # w
        BY <4>2, <1>3
      <4> QED
        BY <4>1, <4>2
    <3>2. i > 1 => i - 1 \in Slots(v) /\ Top(v, i - 1)' = Top(v, i - 1)
        BY <3>1, <1>3, <1>8
    <3> QED
        BY <3>1, <3>2, <1>8, <1>9
  <2> QED
    BY <2>1, <2>2
<1>10. ASSUME NEW v \in Workers, NEW u \in Workers, NEW i \in Slots(v)', NEW j \in Slots(u)',
              Top(v, i)' = Top(u, j)'
       PROVE  v = u /\ i = j
  <2>1. (v = w /\ i = n + 1) \/ (i \in Slots(v) /\ Top(v, i)' = Top(v, i) /\ Top(v, i) \in Alive)
    BY <1>3, Tops
  <2>2. (u = w /\ j = n + 1) \/ (j \in Slots(u) /\ Top(u, j)' = Top(u, j) /\ Top(u, j) \in Alive)
    BY <1>3, Tops
  <2>3. CASE v = w /\ i = n + 1
    BY <2>1, <2>2, <2>3, <1>3, <1>10
  <2>4. CASE u = w /\ j = n + 1
    BY <2>1, <2>2, <2>4, <1>3, <1>10
  <2>5. CASE ~(v = w /\ i = n + 1) /\ ~(u = w /\ j = n + 1)
    BY <2>1, <2>2, <2>5, <1>10, Tops
  <2> QED
    BY <2>3, <2>4, <2>5
<1>11. ASSUME NEW g \in Alive', frames'[g].suspended # <<>>
       PROVE  IsHead(g)' /\ frames'[g].suspended = ChainOf(g)
  <2>1. g \in Alive /\ frames[g].suspended # <<>> /\ frames'[g].suspended = frames[g].suspended
    BY <1>11 DEF SameJoin
  <2> QED
    BY <2>1, <1>5 DEF HoldersOK
<1> QED
    BY <1>4, <1>9, <1>10, <1>11 DEF HoldersOK

(* The children that will not find their parent are finitely many. *)
LEMMA OrphanSets ==
    ASSUME TypeOK, NEW f
    PROVE  IsFiniteSet(Orphans(f)) /\ Cardinality(Orphans(f)) \in Nat
<1>1. Orphans(f) \subseteq Alive
    BY DEF Orphans
<1> QED
    BY <1>1, FS_Subset, FS_CardinalityType DEF TypeOK

(* A counter stays exact while these and the counter stay the same. *)
LEMMA JoinKept ==
    ASSUME NEW f, JoinOK(f), SameJoin(f), Orphans(f)' = Orphans(f)
    PROVE  JoinOK(f)'
    BY DEF JoinOK, SameJoin

(* A spawn keeps the join counters exact: the child finds its parent. *)
LEMMA SpawnJoins ==
    ASSUME TypeOK, TreeOK, HoldersOK, JoinsOK,
           NEW w \in Workers, stack[w] # <<>>, NEW f, f = Me(w),
           NEW k \in Nat \ {0}, NEW c, c = Append(f, k), c \notin Alive,
           Pushes(w, c), Alive' = Alive \cup {c},
           frames'[c].suspended = <<>>, frames'[c].join = 1, ~frames'[c].unsynched,
           frames'[f].spawned = k,
           \A g \in Alive : SameJoin(g),
           \A g \in Alive \ {f} : frames'[g].spawned = frames[g].spawned
    PROVE  JoinsOK'
<1>0. PICK n : n = Len(deque[w]) + 1
    OBVIOUS
<1>1. f \in Alive /\ f \in Paths /\ Top(w, n) = f /\ n \in Slots(w) /\ ~InDeque(f)
    BY <1>0, NotInDeque, Places DEF TypeOK
<1>2. /\ c \in Paths /\ c # <<>> /\ Front(c) = f /\ Last(c) = k /\ k # 0 /\ c # f
    BY <1>1, Extending
<1>3. /\ n \in Nat /\ n >= 1 /\ Slots(w) = 1..n /\ Slots(w)' = 1..(n + 1)
      /\ Entry(w, n + 1)' = <<c>>
      /\ \A i \in 1..n : Entry(w, i)' = Entry(w, i)
      /\ \A v \in Workers \ {w} :
           Slots(v)' = Slots(v) /\ \A i \in Slots(v) : Entry(v, i)' = Entry(v, i)
  <2>1. Above(w, n, c)
    BY <1>0, <1>2, Pushed
  <2> QED
    BY <2>1 DEF Above
<1>4. \A g : InDeque(g)' <=> InDeque(g) \/ g = f
    BY <1>0, <1>1, <1>2, Pushed DEF Above
<1>5. ASSUME NEW g \in Alive, g # f PROVE JoinOK(g)'
  <2>1. frames'[g].spawned = frames[g].spawned /\ (InDeque(g)' <=> InDeque(g))
    BY <1>4, <1>5
  <2>2. Orphans(g)' = Orphans(g)
    BY <2>1, <1>2, <1>5 DEF Orphans
  <2> QED
    BY <2>2, JoinKept DEF JoinsOK
<1>6. JoinOK(f)'
  <2>1. \A x \in Alive : x # Main /\ Front(x) = f => Last(x) # k
    BY <1>1, Parent
  <2>2. Orphans(f) = {x \in Alive : x # Main /\ Front(x) = f /\ Last(x) # 0}
    BY <1>1 DEF Orphans
  <2>3. Orphans(f)' = {x \in Alive \cup {c} : x # Main /\ Front(x) = f /\ Last(x) # 0 /\ Last(x) # k}
    BY <1>4 DEF Orphans
  <2>4. Orphans(f)' = Orphans(f)
    BY <2>1, <2>2, <2>3, <1>2
  <2> QED
    BY <2>4, <1>1, JoinKept DEF JoinsOK
<1>7. JoinOK(c)'
  <2>1. \A x \in Alive : x # Main => Front(x) # c
    BY DEF TreeOK
  <2>2. Front(c) # c
    BY <1>2
  <2>3. Orphans(c)' = {}
    BY <2>1, <2>2 DEF Orphans
  <2>4. Cardinality({}) = 0
    BY FS_EmptySet
  <2> QED
    BY <2>3, <2>4 DEF JoinOK
<1>8. ASSUME NEW v \in Workers, NEW i \in Slots(v)', i > 1 PROVE NotStolen(Entry(v, i))'
  <2>1. CASE v = w /\ i = n + 1
    <3>1. Entry(v, i)' = <<c>>
        BY <2>1, <1>3
    <3>2. \A m \in 1..Len(<<c>>) : <<c>>[m] = c
        OBVIOUS
    <3>3. \A m \in 1..Len(<<c>>) : ~frames'[<<c>>[m]].unsynched
        BY <3>2
    <3> QED
        BY <3>1, <3>3 DEF NotStolen
  <2>2. CASE ~(v = w /\ i = n + 1)
    <3>1. i \in Slots(v) /\ Entry(v, i)' = Entry(v, i)
      <4>1. CASE v = w
        <5>1. i \in 1..n /\ Slots(v) = 1..n
            BY <2>2, <4>1, <1>3
        <5> QED
            BY <4>1, <5>1, <1>3
      <4>2. CASE v # w
        BY <4>2, <1>3
      <4> QED
        BY <4>1, <4>2
    <3>2. NotStolen(Entry(v, i)) /\ Entry(v, i) = ChainOf(Top(v, i)) /\ Top(v, i) \in Alive
      <4>1. NotStolen(Entry(v, i))
        BY <3>1, <1>8 DEF JoinsOK
      <4>2. Entry(v, i) = ChainOf(Top(v, i))
        BY <3>1 DEF HoldersOK
      <4> QED
        BY <3>1, <4>1, <4>2, Tops
    <3>3. \A m \in 1..Len(Entry(v, i)) : Entry(v, i)[m] \in Alive
        BY <3>2, Chains
    <3>4. PICK s : s = Entry(v, i)
        OBVIOUS
    <3>5. ASSUME NEW m \in 1..Len(s) PROVE ~frames'[s[m]].unsynched
      <4>1. s[m] \in Alive /\ ~frames[s[m]].unsynched
        BY <3>2, <3>3, <3>4 DEF NotStolen
      <4> QED
        BY <4>1 DEF SameJoin
    <3>6. Entry(v, i)' = s
        BY <3>1, <3>4
    <3> QED
        BY <3>5, <3>6 DEF NotStolen
  <2> QED
    BY <2>1, <2>2
<1> QED
    BY <1>5, <1>6, <1>7, <1>8 DEF JoinsOK

(* A worker's stack becomes s, whose first frame is t, and its deque stays. *)
HeadsStay(f) ==
    \A g : IsHead(g) /\ g # f =>
       IsHead(g)' /\ SameJoin(g) /\ frames'[g].spawned = frames[g].spawned
NoneSuspends(f) ==
    \A g \in Alive' : frames'[g].suspended # <<>> =>
       g \in Alive /\ g # f /\ frames[g].suspended # <<>>

(* A change of the innermost stack leaves every frame where it can be. *)
LEMMA StackHolders ==
    ASSUME TypeOK, HoldersOK, NEW w \in Workers, stack[w] # <<>>, NEW f, f = Me(w),
           NEW s \in Seq(Paths), NEW t, s # <<>>, s = ChainOf(t), Head(s) = t,
           Last(s) = Last(stack[w]),
           stack' = [stack EXCEPT ![w] = s], deque' = deque,
           t \in Alive', Append(t, 0) \notin Alive', frames'[t].suspended = <<>>,
           t = f \/ ~IsHead(t), HeadsStay(f), NoneSuspends(f)
    PROVE  HoldersOK'
<1>a. IsHead(t)'
    BY DEF IsHead
<1>b. \A g : IsHead(g) /\ g # f =>
              IsHead(g)' /\ SameJoin(g) /\ frames'[g].spawned = frames[g].spawned
    BY DEF HeadsStay
<1>c. \A g \in Alive' : frames'[g].suspended # <<>> =>
              g \in Alive /\ g # f /\ frames[g].suspended # <<>>
    BY DEF NoneSuspends
<1>0. PICK n : n = Len(deque[w]) + 1
    OBVIOUS
<1>1. IsHead(f) /\ Top(w, n) = f /\ n \in Slots(w) /\ Entry(w, n) = stack[w]
    BY <1>0, NotInDeque, Places
<1>3. /\ n \in Nat /\ n >= 1 /\ Slots(w) = 1..n /\ Slots(w)' = 1..n
      /\ Elsewhere(w) /\ stack'[w] = s
      /\ Entry(w, n)' = s /\ Top(w, n)' = t
      /\ \A i \in 1..(n - 1) : Entry(w, i)' = Entry(w, i) /\ Top(w, i)' = Top(w, i)
    BY <1>0, Replaced
<1>4. \A v \in Workers : stack'[v] = <<>> => deque'[v] = <<>>
    BY <1>3 DEF HoldersOK, Elsewhere
<1>5. ASSUME NEW v \in Workers, NEW i \in Slots(v)', ~(v = w /\ i = n)
      PROVE  /\ i \in Slots(v) /\ Entry(v, i)' = Entry(v, i) /\ Top(v, i)' = Top(v, i)
             /\ IsHead(Top(v, i)) /\ Top(v, i) # f
  <2>1. i \in Slots(v) /\ Entry(v, i)' = Entry(v, i) /\ Top(v, i)' = Top(v, i)
    <3>1. CASE v = w
      <4>1. i \in 1..n /\ i # n
        BY <1>5, <3>1, <1>3
      <4>2. i \in 1..(n - 1)
        BY <4>1, <1>3
      <4> QED
        BY <3>1, <4>1, <4>2, <1>3
    <3>2. CASE v # w
      <4>1. Slots(v)' = Slots(v)
        BY <3>2, <1>3, OthersStay
      <4> QED
        BY <4>1, <3>2, <1>5, <1>3, OthersStay
    <3> QED
        BY <3>1, <3>2
  <2>2. Top(v, i) # f
    BY <2>1, <1>1, <1>5, Tops
  <2> QED
    BY <2>1, <2>2 DEF HoldersOK
<1>6. ASSUME NEW v \in Workers, NEW i \in Slots(v), ~(v = w /\ i = n)
      PROVE  frames'[Top(v, i)].spawned = frames[Top(v, i)].spawned
  <2>1. IsHead(Top(v, i)) /\ Top(v, i) # f
    BY <1>1, <1>6, Tops DEF HoldersOK
  <2> QED
    BY <2>1, <1>b
<1>7. ASSUME NEW v \in Workers, NEW i \in Slots(v)', i > 1
      PROVE  /\ i - 1 \in Slots(v) /\ ~(v = w /\ i - 1 = n) /\ Top(v, i - 1)' = Top(v, i - 1)
             /\ i \in Slots(v)
  <2>1. i \in Slots(v)
    BY <1>3, <1>5
  <2>2. i - 1 \in Slots(v) /\ i \in Nat
    BY <1>7, <2>1, Tops
  <2>3. ~(v = w /\ i - 1 = n)
    BY <2>1, <2>2, <1>3
  <2>4. Slots(v)' = Slots(v)
    BY <1>3, OthersStay
  <2> QED
    BY <2>1, <2>2, <2>3, <2>4, <1>5
<1>8. ASSUME NEW v \in Workers, NEW i \in Slots(v)', NEW u, u = Top(v, i)'
      PROVE  /\ IsHead(u)'
             /\ Entry(v, i)' = ChainOf(u)
             /\ frames'[u].suspended = <<>>
             /\ i > 1 => Last(Entry(v, i)') = Append(Top(v, i - 1)', frames'[Top(v, i - 1)'].spawned)
  <2>1. i > 1 => Last(Entry(v, i)) = Append(Top(v, i - 1), frames'[Top(v, i - 1)].spawned)
    BY <1>6, <1>7 DEF HoldersOK
  <2>2. CASE v = w /\ i = n
    <3>1. u = t /\ Entry(v, i)' = s /\ Entry(v, i) = stack[w]
        BY <2>2, <1>1, <1>3, <1>8
    <3>2. i > 1 => Last(Entry(v, i)') = Append(Top(v, i - 1)', frames'[Top(v, i - 1)'].spawned)
        BY <2>1, <3>1, <1>7
    <3>3. IsHead(u)'
        BY <3>1 DEF IsHead
    <3> QED
        BY <3>1, <3>2, <3>3
  <2>3. CASE ~(v = w /\ i = n)
    <3>1. /\ i \in Slots(v) /\ Entry(v, i)' = Entry(v, i) /\ u = Top(v, i)
          /\ IsHead(u) /\ u # f
        BY <2>3, <1>5, <1>8
    <3>2. Entry(v, i) = ChainOf(u) /\ frames[u].suspended = <<>>
        BY <3>1 DEF HoldersOK
    <3>3. i > 1 => Last(Entry(v, i)') = Append(Top(v, i - 1)', frames'[Top(v, i - 1)'].spawned)
        BY <2>1, <3>1, <1>7
    <3>4. IsHead(u)' /\ frames'[u].suspended = <<>>
        BY <1>b, <3>1, <3>2 DEF SameJoin
    <3> QED
        BY <3>1, <3>2, <3>3, <3>4
  <2> QED
    BY <2>2, <2>3
<1>9. ASSUME NEW v \in Workers, NEW u \in Workers, NEW i \in Slots(v)', NEW j \in Slots(u)',
             Top(v, i)' = Top(u, j)'
      PROVE  v = u /\ i = j
  <2>1. \A x \in Workers : \A m \in Slots(x)' : Top(x, m)' = t => x = w /\ m = n
    BY <1>5
  <2>2. CASE v = w /\ i = n
    BY <2>1, <2>2, <1>3, <1>9
  <2>3. CASE u = w /\ j = n
    BY <2>1, <2>3, <1>3, <1>9
  <2>4. CASE ~(v = w /\ i = n) /\ ~(u = w /\ j = n)
    BY <2>4, <1>5, <1>9, Tops
  <2> QED
    BY <2>2, <2>3, <2>4
<1>10. ASSUME NEW g \in Alive', frames'[g].suspended # <<>>
       PROVE  IsHead(g)' /\ frames'[g].suspended = ChainOf(g)
  <2>1. g \in Alive /\ frames[g].suspended # <<>> /\ IsHead(g) /\ g # f
        /\ frames[g].suspended = ChainOf(g)
    BY <1>c, <1>10 DEF HoldersOK
  <2> QED
    BY <1>b, <2>1 DEF SameJoin
<1> QED
    BY <1>4, <1>8, <1>9, <1>10 DEF HoldersOK

(* ... and keeps the join counters exact. *)
LEMMA StackJoins ==
    ASSUME TypeOK, HoldersOK, JoinsOK, TreeOK,
           NEW w \in Workers, stack[w] # <<>>, NEW s \in Seq(Paths), s # <<>>,
           stack' = [stack EXCEPT ![w] = s], deque' = deque,
           \A x : x # Main /\ Last(x) # 0 => (x \in Alive' <=> x \in Alive),
           \A g \in Alive \cap Alive' : SameJoin(g) /\ frames'[g].spawned = frames[g].spawned,
           \A g \in Alive' \ Alive :
              /\ frames'[g].join = 1 /\ ~frames'[g].unsynched /\ frames'[g].suspended = <<>>
              /\ \A x \in Alive' : x # Main => Front(x) # g,
           NotStolen(stack[w]) => NotStolen(s)',
           \A v \in Workers : \A i \in Slots(v) : Entry(v, i) # stack[w] =>
              \A m \in 1..Len(Entry(v, i)) : Entry(v, i)[m] \in Alive'
    PROVE  JoinsOK'
<1>0. PICK n : n = Len(deque[w]) + 1
    OBVIOUS
<1>1. n \in Slots(w) /\ Entry(w, n) = stack[w] /\ Top(w, n) = Me(w)
    BY <1>0, Places
<1>2. /\ n \in Nat /\ n >= 1 /\ Slots(w) = 1..n /\ Slots(w)' = 1..n
      /\ Elsewhere(w) /\ Entry(w, n)' = s
      /\ \A i \in 1..(n - 1) : Entry(w, i)' = Entry(w, i)
  <2>1. n \in Nat /\ n >= 1 /\ Slots(w) = 1..n /\ Slots(w)' = 1..n
    BY <1>0, Replaced
  <2>2. Elsewhere(w) /\ Entry(w, n)' = s
    BY <1>0, Replaced
  <2>3. \A i \in 1..(n - 1) : Entry(w, i)' = Entry(w, i) /\ Top(w, i)' = Top(w, i)
    BY <1>0, Replaced, Zenon
  <2> QED
    BY <2>1, <2>2, <2>3
<1>3. \A g : InDeque(g)' <=> InDeque(g)
    BY <1>0, Replaced
<1>4. ASSUME NEW g \in Alive \cap Alive' PROVE JoinOK(g)'
  <2>1. Orphans(g)' = Orphans(g)
    BY <1>3, <1>4 DEF Orphans
  <2> QED
    BY <2>1, JoinKept DEF JoinsOK
<1>5. ASSUME NEW g \in Alive' \ Alive PROVE JoinOK(g)'
  <2>1. Orphans(g)' = {}
    BY DEF Orphans
  <2>2. Cardinality({}) = 0
    BY FS_EmptySet
  <2>3. frames'[g].join = 1 /\ ~frames'[g].unsynched /\ frames'[g].suspended = <<>>
    OBVIOUS
  <2> QED
    BY <2>1, <2>2, <2>3 DEF JoinOK
<1>6. ASSUME NEW v \in Workers, NEW i \in Slots(v)', i > 1 PROVE NotStolen(Entry(v, i))'
  <2>1. CASE v = w /\ i = n
    <3>1. NotStolen(stack[w])
        BY <2>1, <1>1, <1>6 DEF JoinsOK
    <3>2. Entry(v, i)' = s
        BY <2>1, <1>2
    <3> QED
        BY <3>1, <3>2 DEF NotStolen
  <2>2. CASE ~(v = w /\ i = n)
    <3>1. i \in Slots(v) /\ Entry(v, i)' = Entry(v, i)
      <4>1. CASE v = w
        <5>1. i \in 1..n /\ i # n
            BY <2>2, <4>1, <1>2
        <5>2. i \in 1..(n - 1)
            BY <5>1, <1>2
        <5> QED
            BY <4>1, <5>1, <5>2, <1>2
      <4>2. CASE v # w
        <5>1. Slots(v)' = Slots(v)
            BY <4>2, <1>2, OthersStay
        <5> QED
            BY <5>1, <4>2, <1>6, <1>2, OthersStay
      <4> QED
        BY <4>1, <4>2
    <3>2. Top(v, i) # Me(w)
        BY <3>1, <2>2, <1>1, Tops
    <3>3. Entry(v, i) # stack[w]
        BY <3>2 DEF Top, Me
    <3>4. PICK e : e = Entry(v, i)
        OBVIOUS
    <3>5. ASSUME NEW m \in 1..Len(e) PROVE ~frames'[e[m]].unsynched
      <4>1. e = ChainOf(Top(v, i)) /\ Top(v, i) \in Alive
        BY <3>1, <3>4, Tops DEF HoldersOK
      <4>2. e[m] \in Alive
        BY <4>1, Chains
      <4>3. ~frames[e[m]].unsynched
        BY <3>1, <3>4, <1>6 DEF JoinsOK, NotStolen
      <4>4. e[m] \in Alive'
        BY <3>1, <3>3, <3>4
      <4> QED
        BY <4>2, <4>3, <4>4 DEF SameJoin
    <3>6. Entry(v, i)' = e
        BY <3>1, <3>4
    <3> QED
        BY <3>5, <3>6 DEF NotStolen
  <2> QED
    BY <2>1, <2>2
<1> QED
    BY <1>4, <1>5, <1>6 DEF JoinsOK

(* A return to the parent, which is on the deque. *)
LEMMA Below ==
    ASSUME TypeOK, TreeOK, HoldersOK, NEW w \in Workers, NEW i \in Slots(w), i > 1
    PROVE  LET p == Top(w, i - 1)
               c == Append(p, frames[p].spawned)
           IN  /\ i - 1 \in Slots(w) /\ p \in Alive /\ p \in Paths /\ InDeque(p)
               /\ c = Last(Entry(w, i)) /\ c \in Alive /\ c # Main
               /\ Front(c) = p /\ Last(c) = frames[p].spawned
               /\ frames[p].spawned \in Nat \ {0}
<1>1. PICK p : p = Top(w, i - 1)
    OBVIOUS
<1>2. PICK e : e = Entry(w, i)
    OBVIOUS
<1>3. PICK c : c = Append(p, frames[p].spawned)
    OBVIOUS
<1>4. i - 1 \in Slots(w) /\ i \in Nat /\ p \in Alive /\ p \in Paths /\ Append(p, 0) \notin Alive
  <2>1. i - 1 \in Slots(w) /\ i \in Nat
    BY Tops
  <2> QED
    BY <1>1, <2>1, Tops
<1>5. InDeque(p)
  <2>1. i \in 1..(Len(deque[w]) + 1) /\ Len(deque[w]) \in Nat
    BY Places DEF Slots
  <2>2. i - 1 <= Len(deque[w])
    BY <2>1
  <2> QED
    BY <1>1, <1>4, <2>2 DEF InDeque
<1>6. c = Last(e) /\ e = ChainOf(Top(w, i)) /\ Top(w, i) \in Alive
    BY <1>1, <1>2, <1>3, Tops DEF HoldersOK
<1>7. c \in Alive
  <2>1. Len(e) \in 1..Len(e) /\ \A m \in 1..Len(e) : e[m] \in Alive
    BY <1>6, Chains
  <2> QED
    BY <1>6, <2>1 DEF Last
<1>8. frames[p].spawned \in Nat
    BY <1>4 DEF TypeOK, FrameOK
<1>9. c # Main /\ Front(c) = p /\ Last(c) = frames[p].spawned
    BY <1>3, <1>4, <1>8, Extending, MainPath
<1>10. frames[p].spawned # 0
    BY <1>3, <1>4, <1>7
<1> QED
    BY <1>1, <1>2, <1>3, <1>4, <1>5, <1>6, <1>7, <1>8, <1>9, <1>10

(* The parent of a spawned frame is on top of the entry below it. *)
LEMMA Parents ==
    ASSUME TypeOK, TreeOK, HoldersOK, NEW w \in Workers, stack[w] # <<>>, deque[w] # <<>>,
           NEW f, f = Me(w), f # Main, Last(f) # 0, NEW n, n = Len(deque[w])
    PROVE  /\ n \in Nat /\ n >= 1 /\ n \in Slots(w) /\ n + 1 \in Slots(w) /\ Top(w, n + 1) = f
           /\ Front(f) = Top(w, n) /\ InDeque(Front(f))
           /\ Last(f) = frames[Front(f)].spawned /\ f = Append(Front(f), Last(f))
<1>1. /\ n \in Nat /\ n >= 1 /\ Slots(w) = 1..(n + 1) /\ Top(w, n + 1) = f
      /\ Entry(w, n + 1) = stack[w]
    BY Places, EmptySeq
<1>2. n \in Slots(w) /\ n + 1 \in Slots(w) /\ n + 1 > 1 /\ (n + 1) - 1 = n
    BY <1>1
<1>3. f \in Alive /\ Entry(w, n + 1) = ChainOf(f)
    BY <1>1, <1>2, Tops DEF HoldersOK
<1>4. Last(Entry(w, n + 1)) = f
    BY <1>3, Chains
<1>5. PICK p : p = Top(w, n)
    OBVIOUS
<1>6. /\ InDeque(p) /\ f = Append(p, frames[p].spawned)
      /\ Front(f) = p /\ Last(f) = frames[p].spawned
    BY <1>2, <1>4, <1>5, Below
<1> QED
    BY <1>1, <1>2, <1>5, <1>6

(* A return to the parent leaves every frame where it can be. *)
LEMMA PopHolders ==
    ASSUME TypeOK, TreeOK, HoldersOK, NEW w \in Workers, stack[w] # <<>>, deque[w] # <<>>,
           NEW f, f = Me(w), Pops(w),
           Alive' = Alive \ {f}, \A g \in Alive' : frames'[g] = frames[g]
    PROVE  HoldersOK'
<1>0. PICK n : n = Len(deque[w])
    OBVIOUS
<1>1. /\ n \in Nat /\ n >= 1 /\ Slots(w) = 1..(n + 1) /\ Slots(w)' = 1..n
      /\ Top(w, n + 1) = f /\ Elsewhere(w)
      /\ \A i \in 1..n : Entry(w, i)' = Entry(w, i) /\ Top(w, i)' = Top(w, i)
      /\ stack'[w] # <<>>
    BY <1>0, Popped
<1>2. \A v \in Workers : stack'[v] = <<>> => deque'[v] = <<>>
    BY <1>1 DEF HoldersOK, Elsewhere
<1>3. ASSUME NEW v \in Workers, NEW i \in Slots(v)'
      PROVE  i \in Slots(v) /\ ~(v = w /\ i = n + 1)
             /\ Entry(v, i)' = Entry(v, i) /\ Top(v, i)' = Top(v, i)
  <2>1. CASE v = w
    <3>1. i \in 1..n /\ i \in 1..(n + 1) /\ i # n + 1
        BY <2>1, <1>1
    <3> QED
        BY <2>1, <3>1, <1>1
  <2>2. CASE v # w
    <3>1. Slots(v)' = Slots(v)
        BY <2>2, <1>1, OthersStay
    <3> QED
        BY <2>2, <3>1, <1>1, OthersStay
  <2> QED
    BY <2>1, <2>2
<1>4. ASSUME NEW g, IsHead(g), g # f PROVE IsHead(g)' /\ frames'[g] = frames[g]
    BY <1>4 DEF IsHead
<1>5. ASSUME NEW v \in Workers, NEW i \in Slots(v), ~(v = w /\ i = n + 1)
      PROVE  IsHead(Top(v, i)) /\ Top(v, i) # f
  <2>1. n + 1 \in Slots(w)
    BY <1>1
  <2> QED
    BY <2>1, <1>1, <1>5, Tops DEF HoldersOK
<1>6. ASSUME NEW v \in Workers, NEW i \in Slots(v)', NEW u, u = Top(v, i)'
      PROVE  /\ IsHead(u)'
             /\ Entry(v, i)' = ChainOf(u)
             /\ frames'[u].suspended = <<>>
             /\ i > 1 => Last(Entry(v, i)') = Append(Top(v, i - 1)', frames'[Top(v, i - 1)'].spawned)
  <2>1. /\ i \in Slots(v) /\ Entry(v, i)' = Entry(v, i) /\ u = Top(v, i)
        /\ IsHead(u) /\ u # f
    BY <1>3, <1>5, <1>6
  <2>2. Entry(v, i) = ChainOf(u) /\ frames[u].suspended = <<>>
    BY <2>1 DEF HoldersOK
  <2>3. ASSUME i > 1
        PROVE  Last(Entry(v, i)') = Append(Top(v, i - 1)', frames'[Top(v, i - 1)'].spawned)
    <3>1. i - 1 \in Slots(v)' /\ i \in Nat
      <4>1. Slots(v)' = 1..n \/ Slots(v)' = Slots(v)
        BY <1>1, OthersStay
      <4>2. i - 1 \in Slots(v) /\ i \in Nat /\ i >= 1
        BY <2>1, <2>3, Tops
      <4>3. i \in 1..n => i - 1 \in 1..n
        BY <2>3, <4>2, <1>1
      <4> QED
        BY <4>1, <4>2, <4>3
    <3>2. /\ i - 1 \in Slots(v) /\ Top(v, i - 1)' = Top(v, i - 1)
          /\ IsHead(Top(v, i - 1)) /\ Top(v, i - 1) # f
        BY <3>1, <1>3, <1>5
    <3>3. frames'[Top(v, i - 1)] = frames[Top(v, i - 1)]
        BY <3>2, <1>4
    <3>4. Last(Entry(v, i)) = Append(Top(v, i - 1), frames[Top(v, i - 1)].spawned)
        BY <2>1, <2>3 DEF HoldersOK
    <3> QED
        BY <2>1, <3>2, <3>3, <3>4
  <2>4. IsHead(u)' /\ frames'[u].suspended = <<>>
    BY <2>1, <2>2, <1>4
  <2> QED
    BY <2>1, <2>2, <2>3, <2>4
<1>7. ASSUME NEW v \in Workers, NEW u \in Workers, NEW i \in Slots(v)', NEW j \in Slots(u)',
             Top(v, i)' = Top(u, j)'
      PROVE  v = u /\ i = j
  <2>1. i \in Slots(v) /\ j \in Slots(u) /\ Top(v, i) = Top(u, j)
    BY <1>3, <1>7
  <2> QED
    BY <2>1, Tops
<1>8. ASSUME NEW g \in Alive', frames'[g].suspended # <<>>
      PROVE  IsHead(g)' /\ frames'[g].suspended = ChainOf(g)
  <2>1. g \in Alive /\ g # f /\ frames[g].suspended # <<>> /\ frames'[g] = frames[g]
    BY <1>8
  <2>2. IsHead(g) /\ frames[g].suspended = ChainOf(g)
    BY <2>1 DEF HoldersOK
  <2> QED
    BY <2>1, <2>2, <1>4
<1> QED
    BY <1>2, <1>6, <1>7, <1>8 DEF HoldersOK

(* ... and keeps the join counters exact. *)
LEMMA PopJoins ==
    ASSUME TypeOK, TreeOK, HoldersOK, JoinsOK,
           NEW w \in Workers, stack[w] # <<>>, deque[w] # <<>>,
           NEW f, f = Me(w), f # Main, Last(f) # 0, Pops(w),
           Alive' = Alive \ {f}, \A g \in Alive' : frames'[g] = frames[g]
    PROVE  JoinsOK'
<1>0. PICK n : n = Len(deque[w])
    OBVIOUS
<1>1. /\ n \in Nat /\ n >= 1 /\ Slots(w) = 1..(n + 1) /\ Slots(w)' = 1..n
      /\ Top(w, n + 1) = f /\ Elsewhere(w)
      /\ \A i \in 1..n : Entry(w, i)' = Entry(w, i) /\ Top(w, i)' = Top(w, i)
    BY <1>0, Popped
<1>2. \A g : InDeque(g)' <=> InDeque(g) /\ g # Top(w, n)
    BY <1>0, Popped
<1>3. PICK p : p = Front(f)
    OBVIOUS
<1>4. /\ p = Top(w, n) /\ InDeque(p) /\ Last(f) = frames[p].spawned /\ f = Append(p, Last(f))
      /\ n + 1 \in Slots(w)
    BY <1>0, <1>3, Parents
<1>5. ASSUME NEW g \in Alive' PROVE JoinOK(g)'
  <2>1. SameJoin(g) /\ frames'[g] = frames[g] /\ g \in Alive
    BY DEF SameJoin
  <2>2. CASE g # p
    <3>1. InDeque(g)' <=> InDeque(g)
        BY <2>2, <1>2, <1>4
    <3>2. Orphans(g)' = Orphans(g)
        BY <2>1, <2>2, <3>1, <1>3 DEF Orphans
    <3> QED
        BY <2>1, <3>2, JoinKept DEF JoinsOK
  <2>3. CASE g = p
    <3>1. ~InDeque(g)' /\ InDeque(g)
        BY <2>3, <1>2, <1>4
    <3>2. Orphans(g)' = {x \in Alive \ {f} : x # Main /\ Front(x) = g /\ Last(x) # 0}
        BY <3>1 DEF Orphans
    <3>3. Orphans(g) = {x \in Alive : /\ x # Main /\ Front(x) = g /\ Last(x) # 0
                                      /\ Last(x) # frames[g].spawned}
        BY <3>1 DEF Orphans
    <3>4. \A x \in Alive : x # Main /\ Front(x) = g =>
             (Last(x) = frames[g].spawned <=> x = f)
        BY <2>3, <1>3, <1>4, Parent
    <3>5. Orphans(g)' = Orphans(g)
        BY <3>2, <3>3, <3>4
    <3> QED
        BY <2>1, <3>5, JoinKept DEF JoinsOK
  <2> QED
    BY <2>2, <2>3
<1>6. ASSUME NEW v \in Workers, NEW i \in Slots(v)', i > 1 PROVE NotStolen(Entry(v, i))'
  <2>1. /\ i \in Slots(v) /\ Entry(v, i)' = Entry(v, i) /\ ~(v = w /\ i = n + 1)
    <3>1. CASE v = w
      <4>1. i \in 1..n /\ i \in 1..(n + 1) /\ i # n + 1
        BY <3>1, <1>1
      <4> QED
        BY <3>1, <4>1, <1>1
    <3>2. CASE v # w
      <4>1. Slots(v)' = Slots(v)
        BY <3>2, <1>1, OthersStay
      <4> QED
        BY <3>2, <4>1, <1>1, OthersStay
    <3> QED
        BY <3>1, <3>2
  <2>2. Top(v, i) # f /\ IsHead(f) /\ Top(v, i) \in Alive
    BY <2>1, <1>1, <1>4, Tops, NotInDeque
  <2>3. PICK e : e = Entry(v, i)
    OBVIOUS
  <2>4. ASSUME NEW m \in 1..Len(e) PROVE ~frames'[e[m]].unsynched
    <3>1. e = ChainOf(Top(v, i))
        BY <2>1, <2>3 DEF HoldersOK
    <3>2. e[m] \in Alive
        BY <2>2, <3>1, Chains
    <3>3. e[m] # f
        BY <2>2, <3>1, OneChain
    <3>4. ~frames[e[m]].unsynched
        BY <2>1, <2>3, <1>6 DEF JoinsOK, NotStolen
    <3> QED
        BY <3>2, <3>3, <3>4
  <2>5. Entry(v, i)' = e
    BY <2>1, <2>3
  <2> QED
    BY <2>4, <2>5 DEF NotStolen
<1> QED
    BY <1>5, <1>6 DEF JoinsOK

(* A worker leaves its stack: f is gone or suspended. *)
LEMMA LeaveHolders ==
    ASSUME TypeOK, TreeOK, HoldersOK, NEW w \in Workers, stack[w] # <<>>, deque[w] = <<>>,
           NEW f, f = Me(w),
           stack' = [stack EXCEPT ![w] = <<>>], deque' = deque,
           \A g : IsHead(g) /\ g # f =>
              /\ IsHead(g)' /\ frames'[g].suspended = frames[g].suspended
              /\ frames'[g].spawned = frames[g].spawned,
           \A g \in Alive' : frames'[g].suspended # <<>> =>
              \/ g \in Alive /\ g # f /\ frames[g].suspended # <<>>
              \/ g = f /\ IsHead(f)' /\ frames'[g].suspended = ChainOf(f)
    PROVE  HoldersOK'
<1>1. Slots(w) = {1} /\ Slots(w)' = {} /\ Top(w, 1) = f /\ Elsewhere(w)
    BY Cleared
<1>2. \A v \in Workers : stack'[v] = <<>> => deque'[v] = <<>>
    BY <1>1 DEF HoldersOK, Elsewhere
<1>3. ASSUME NEW v \in Workers, NEW i \in Slots(v)'
      PROVE  /\ v # w /\ Slots(v)' = Slots(v) /\ i \in Slots(v)
             /\ Entry(v, i)' = Entry(v, i) /\ Top(v, i)' = Top(v, i)
             /\ IsHead(Top(v, i)) /\ Top(v, i) # f
  <2>1. v # w
    BY <1>1
  <2>2. Slots(v)' = Slots(v)
    BY <2>1, <1>1, OthersStay
  <2>3. /\ i \in Slots(v) /\ Entry(v, i)' = Entry(v, i) /\ Top(v, i)' = Top(v, i)
    BY <2>1, <2>2, <1>1, OthersStay
  <2>4. Top(v, i) # f
    BY <2>1, <2>3, <1>1, Tops
  <2> QED
    BY <2>1, <2>2, <2>3, <2>4 DEF HoldersOK
<1>4. ASSUME NEW v \in Workers, NEW i \in Slots(v)', NEW u, u = Top(v, i)'
      PROVE  /\ IsHead(u)'
             /\ Entry(v, i)' = ChainOf(u)
             /\ frames'[u].suspended = <<>>
             /\ i > 1 => Last(Entry(v, i)') = Append(Top(v, i - 1)', frames'[Top(v, i - 1)'].spawned)
  <2>1. /\ i \in Slots(v) /\ Entry(v, i)' = Entry(v, i) /\ u = Top(v, i)
        /\ IsHead(u) /\ u # f /\ Slots(v)' = Slots(v)
    BY <1>3, <1>4
  <2>2. Entry(v, i) = ChainOf(u) /\ frames[u].suspended = <<>>
    BY <2>1 DEF HoldersOK
  <2>3. ASSUME i > 1
        PROVE  Last(Entry(v, i)') = Append(Top(v, i - 1)', frames'[Top(v, i - 1)'].spawned)
    <3>1. i - 1 \in Slots(v)'
        BY <2>1, <2>3, Tops
    <3>2. /\ i - 1 \in Slots(v) /\ Top(v, i - 1)' = Top(v, i - 1)
          /\ IsHead(Top(v, i - 1)) /\ Top(v, i - 1) # f
        BY <3>1, <1>3
    <3>3. Last(Entry(v, i)) = Append(Top(v, i - 1), frames[Top(v, i - 1)].spawned)
        BY <2>1, <2>3 DEF HoldersOK
    <3> QED
        BY <2>1, <3>2, <3>3
  <2> QED
    BY <2>1, <2>2, <2>3
<1>5. ASSUME NEW v \in Workers, NEW u \in Workers, NEW i \in Slots(v)', NEW j \in Slots(u)',
             Top(v, i)' = Top(u, j)'
      PROVE  v = u /\ i = j
  <2>1. i \in Slots(v) /\ j \in Slots(u) /\ Top(v, i) = Top(u, j)
    BY <1>3, <1>5
  <2> QED
    BY <2>1, Tops
<1>6. ASSUME NEW g \in Alive', frames'[g].suspended # <<>>
      PROVE  IsHead(g)' /\ frames'[g].suspended = ChainOf(g)
  <2>1. CASE g \in Alive /\ g # f /\ frames[g].suspended # <<>>
    <3>1. IsHead(g) /\ frames[g].suspended = ChainOf(g)
        BY <2>1 DEF HoldersOK
    <3> QED
        BY <2>1, <3>1
  <2>2. CASE g = f /\ IsHead(f)' /\ frames'[g].suspended = ChainOf(f)
    BY <2>2 DEF IsHead
  <2> QED
    BY <2>1, <2>2, <1>6
<1> QED
    BY <1>2, <1>4, <1>5, <1>6 DEF HoldersOK

(* Nothing is on another stack below the oldest that will be.             *)
LEMMA LeaveOldest ==
    ASSUME TypeOK, TreeOK, HoldersOK, JoinsOK,
           NEW w \in Workers, stack[w] # <<>>, deque[w] = <<>>, NEW f, f = Me(w),
           stack' = [stack EXCEPT ![w] = <<>>], deque' = deque,
           \A g \in Alive \ {f} : frames'[g].unsynched = frames[g].unsynched
    PROVE  \A v \in Workers : \A i \in Slots(v)' : i > 1 => NotStolen(Entry(v, i))'
<1>1. Slots(w) = {1} /\ Slots(w)' = {} /\ Top(w, 1) = f /\ Elsewhere(w)
    BY Cleared
<1>2. ASSUME NEW v \in Workers, NEW i \in Slots(v)', i > 1 PROVE NotStolen(Entry(v, i))'
  <2>1. v # w
    BY <1>1
  <2>2. Slots(v)' = Slots(v)
    BY <2>1, <1>1, OthersStay
  <2>3. i \in Slots(v) /\ Entry(v, i)' = Entry(v, i)
    BY <2>1, <2>2, <1>1, OthersStay
  <2>4. Top(v, i) # f /\ IsHead(f) /\ Top(v, i) \in Alive
    BY <2>1, <2>3, <1>1, Tops, NotInDeque
  <2>5. PICK e : e = Entry(v, i)
    OBVIOUS
  <2>6. ASSUME NEW m \in 1..Len(e) PROVE ~frames'[e[m]].unsynched
    <3>1. e = ChainOf(Top(v, i))
        BY <2>3, <2>5 DEF HoldersOK
    <3>2. e[m] \in Alive
        BY <2>4, <3>1, Chains
    <3>3. e[m] # f
        BY <2>4, <3>1, OneChain
    <3>4. ~frames[e[m]].unsynched
        BY <2>3, <2>5, <1>2 DEF JoinsOK, NotStolen
    <3> QED
        BY <3>2, <3>3, <3>4
  <2>7. Entry(v, i)' = e
    BY <2>3, <2>5
  <2> QED
    BY <2>6, <2>7 DEF NotStolen
<1> QED
    BY <1>2

(* The parent of a child that has nothing on its deque is not on another.  *)
LEMMA Orphaned ==
    ASSUME TypeOK, TreeOK, HoldersOK, NEW w \in Workers, stack[w] # <<>>, deque[w] = <<>>,
           NEW f, f = Me(w), f # Main, Last(f) # 0
    PROVE  f \in Orphans(Front(f))
<1>1. f \in Alive /\ IsHead(f)
    BY NotInDeque
<1>2. 1 \in Slots(w) /\ Top(w, 1) = f /\ \A i \in Slots(w) : i = 1
  <2>1. Len(deque[w]) = 0
    BY EmptySeq
  <2> QED
    BY <2>1 DEF Slots, Top, Entry, Me
<1>3. PICK p : p = Front(f)
    OBVIOUS
<1>4. ASSUME InDeque(p), Last(f) = frames[p].spawned PROVE FALSE
  <2>1. PICK v \in Workers : \E i \in Slots(v) : i <= Len(deque[v]) /\ p = Top(v, i)
    BY <1>4 DEF InDeque
  <2>2. PICK i \in Slots(v) : i <= Len(deque[v]) /\ p = Top(v, i)
    BY <2>1
  <2>3. PICK j : j = i + 1
    OBVIOUS
  <2>4. j \in Slots(v) /\ j > 1 /\ j - 1 = i
    <3>1. Slots(v) = 1..(Len(deque[v]) + 1) /\ Len(deque[v]) \in Nat
        BY <2>2, Places DEF Slots
    <3> QED
        BY <2>2, <2>3, <3>1
  <2>5. PICK e : e = Entry(v, j)
    OBVIOUS
  <2>6. e = ChainOf(Top(v, j)) /\ Top(v, j) \in Alive
    BY <2>4, <2>5, Tops DEF HoldersOK
  <2>7. Last(e) = Append(p, frames[p].spawned)
    BY <2>2, <2>4, <2>5 DEF HoldersOK
  <2>8. f = Append(p, Last(f))
    BY <1>1, <1>3, Parent
  <2>9. f = e[Len(e)] /\ Len(e) \in 1..Len(e)
    BY <2>6, <2>7, <2>8, <1>4, Chains DEF Last
  <2>10. f = Top(v, j)
    BY <1>1, <2>6, <2>9, OneChain
  <2>11. v = w /\ j = 1
    BY <1>2, <2>4, <2>10, Tops
  <2> QED
    BY <2>4, <2>11
<1> QED
    BY <1>1, <1>3, <1>4 DEF Orphans

(* A return to a parent that was stolen. *)
Joins(f, p) ==
    /\ Alive' = Alive \ {f} /\ \A g \in Alive' : g # p => frames'[g] = frames[g]
    /\ frames'[p].join = frames[p].join - 1 /\ frames'[p].unsynched = frames[p].unsynched
    /\ frames'[p].suspended = frames[p].suspended /\ frames'[p].spawned = frames[p].spawned

(* ... and what the return does to the counters. *)
LEMMA JoinJoins ==
    ASSUME TypeOK, TreeOK, HoldersOK, JoinsOK,
           NEW w \in Workers, stack[w] # <<>>, deque[w] = <<>>,
           NEW f, f = Me(w), f # Main, Last(f) # 0,
           stack' = [stack EXCEPT ![w] = <<>>], deque' = deque,
           NEW p, p = Front(f), Joins(f, p)
    PROVE  JoinsOK'
<1>1. /\ Alive' = Alive \ {f} /\ \A g \in Alive' : g # p => frames'[g] = frames[g]
      /\ p = Front(f)
    BY DEF Joins
<1>2. f \in Alive /\ f \in Orphans(p) /\ p \in Alive /\ p # f
    BY <1>1, NotInDeque, Orphaned, Parent
<1>4. /\ frames'[p].join = frames[p].join - 1 /\ frames'[p].unsynched = frames[p].unsynched
      /\ frames'[p].suspended = frames[p].suspended /\ frames'[p].spawned = frames[p].spawned
    BY DEF Joins
<1>5. \A g : InDeque(g)' <=> InDeque(g)
    BY Cleared
<1>6. ASSUME NEW g \in Alive', g # p PROVE JoinOK(g)'
  <2>1. SameJoin(g) /\ frames'[g] = frames[g] /\ g \in Alive
    BY <1>1, <1>6 DEF SameJoin
  <2>2. Orphans(g)' = Orphans(g)
    BY <2>1, <1>1, <1>5, <1>6 DEF Orphans
  <2> QED
    BY <2>1, <2>2, JoinKept DEF JoinsOK
<1>7. JoinOK(p)'
  <2>1. Orphans(p)' = Orphans(p) \ {f}
    BY <1>1, <1>4, <1>5 DEF Orphans
  <2>2. Cardinality(Orphans(p)') = Cardinality(Orphans(p)) - 1 /\ Cardinality(Orphans(p)) \in Nat
    <3>1. IsFiniteSet(Orphans(p)) /\ Cardinality(Orphans(p)) \in Nat
        BY OrphanSets
    <3>2. Cardinality(Orphans(p) \ {f}) = Cardinality(Orphans(p)) - 1
        BY <3>1, <1>2, FS_RemoveElement
    <3> QED
        BY <2>1, <3>1, <3>2
  <2>3. JoinOK(p)
    BY <1>2 DEF JoinsOK
  <2>4. frames[p].unsynched
    BY <2>3, <1>2 DEF JoinOK
  <2>5. frames'[p].join = Cardinality(Orphans(p)') + (IF frames'[p].suspended = <<>> THEN 1 ELSE 0)
    BY <2>2, <2>3, <1>4 DEF JoinOK
  <2> QED
    BY <2>4, <2>5, <1>4 DEF JoinOK
<1>8. \A g \in Alive \ {f} : frames'[g].unsynched = frames[g].unsynched
    BY <1>1, <1>4
<1> QED
    BY <1>6, <1>7, <1>8, LeaveOldest DEF JoinsOK

(* A frame changes, and no other does. *)
LEMMA Updated ==
    ASSUME NEW f \in Alive, NEW r, frames' = [frames EXCEPT ![f] = r]
    PROVE  Alive' = Alive /\ frames'[f] = r /\ \A g \in Alive \ {f} : frames'[g] = frames[g]
    BY DEF Alive

(* A sync waits: only the oldest stack of a worker can have been stolen.   *)
LEMMA SuspendKeeps ==
    ASSUME TypeOK, TreeOK, HoldersOK, JoinsOK, NEW w \in Workers, stack[w] # <<>>, Suspend(w)
    PROVE  HoldersOK' /\ JoinsOK' /\ deque[w] = <<>>
<1>0. PICK f : f = Me(w)
    OBVIOUS
<1>1. f \in Alive /\ IsHead(f) /\ ~InDeque(f) /\ frames[f].suspended = <<>> /\ FrameOK(frames[f])
    BY <1>0, NotInDeque DEF TypeOK
<1>2. PICK n : n = Len(deque[w]) + 1
    OBVIOUS
<1>3. n \in Nat /\ n >= 1 /\ n \in Slots(w) /\ Entry(w, n) = stack[w] /\ Top(w, n) = f
    BY <1>0, <1>2, Places
<1>4. stack[w] = ChainOf(f)
    BY <1>3 DEF HoldersOK
<1>5. deque[w] = <<>>
  <2>1. CASE n > 1
    <3>1. NotStolen(stack[w])
        BY <2>1, <1>3 DEF JoinsOK
    <3>2. Len(ChainOf(f)) \in Nat \ {0} /\ ChainOf(f) \in Seq(Paths) /\ Head(ChainOf(f)) = f
        BY <1>1, Chains
    <3>3. 1 \in 1..Len(stack[w]) /\ stack[w][1] = f
        BY <3>2, <1>4
    <3>4. ~frames[f].unsynched
        BY <3>1, <3>3 DEF NotStolen
    <3> QED
        BY <3>4, <1>0 DEF Suspend, My
  <2>2. CASE ~(n > 1)
    <3>1. Len(deque[w]) \in Nat /\ deque[w] \in Seq(Seq(Paths))
        BY Places
    <3>2. Len(deque[w]) = 0
        BY <2>2, <3>1, <1>2
    <3> QED
        BY <3>1, <3>2, EmptySeq
  <2> QED
    BY <2>1, <2>2
<1>6. /\ stack' = [stack EXCEPT ![w] = <<>>] /\ deque' = deque
      /\ frames' = [frames EXCEPT ![f] =
           [frames[f] EXCEPT !.parent_pedigree = pedigree[w],
                             !.suspended = stack[w], !.join = @ - 1]]
    BY <1>0 DEF Suspend, Becomes, My
<1>7. /\ Alive' = Alive /\ \A g \in Alive \ {f} : frames'[g] = frames[g]
      /\ frames'[f].join = frames[f].join - 1 /\ frames'[f].unsynched = frames[f].unsynched
      /\ frames'[f].spawned = frames[f].spawned
      /\ frames'[f].suspended = stack[w]
  <2> DEFINE r == [frames[f] EXCEPT !.parent_pedigree = pedigree[w],
                                    !.suspended = stack[w], !.join = @ - 1]
  <2>1. /\ r.join = frames[f].join - 1 /\ r.unsynched = frames[f].unsynched
        /\ r.spawned = frames[f].spawned /\ r.suspended = stack[w]
    BY <1>1 DEF FrameOK, Fields
  <2>2. frames' = [frames EXCEPT ![f] = r]
    BY <1>6
  <2> HIDE DEF r
  <2> QED
    BY <2>1, <2>2, <1>1, Updated
<1>8. \A g : IsHead(g)' <=> IsHead(g)
    BY <1>7 DEF IsHead
<1>9. HoldersOK'
  <2>1. \A g : IsHead(g) /\ g # f =>
              /\ IsHead(g)' /\ frames'[g].suspended = frames[g].suspended
              /\ frames'[g].spawned = frames[g].spawned
    BY <1>7, <1>8 DEF IsHead
  <2>2. \A g \in Alive' : frames'[g].suspended # <<>> =>
              \/ g \in Alive /\ g # f /\ frames[g].suspended # <<>>
              \/ g = f /\ IsHead(f)' /\ frames'[g].suspended = ChainOf(f)
    BY <1>1, <1>4, <1>7, <1>8
  <2> QED
    BY <1>0, <1>5, <1>6, <2>1, <2>2, LeaveHolders
<1>10. \A g : InDeque(g)' <=> InDeque(g)
    BY <1>5, <1>6, Cleared
<1>11. ASSUME NEW g \in Alive' PROVE JoinOK(g)'
  <2>1. Orphans(g)' = Orphans(g)
    BY <1>7, <1>10 DEF Orphans
  <2>2. CASE g # f
    <3>1. SameJoin(g) /\ JoinOK(g)
        BY <2>2, <1>7 DEF SameJoin, JoinsOK
    <3> QED
        BY <2>1, <3>1, JoinKept
  <2>3. CASE g = f
    <3>1. JoinOK(f) /\ Cardinality(Orphans(f)) \in Nat
        BY <1>1, OrphanSets DEF JoinsOK
    <3>2. frames[f].unsynched
        BY <1>0 DEF Suspend, My
    <3>3. frames[f].join = Cardinality(Orphans(f)) + 1
        BY <3>1, <1>1 DEF JoinOK
    <3>4. frames'[f].join = Cardinality(Orphans(f)')
        BY <2>1, <2>3, <3>1, <3>3, <1>7
    <3>5. Cardinality(Orphans(f)') \in Nat
        BY <2>1, <2>3, <3>1
    <3> QED
        BY <2>3, <3>2, <3>4, <3>5, <1>7 DEF JoinOK
  <2> QED
    BY <2>2, <2>3
<1>12. \A v \in Workers : \A i \in Slots(v)' : i > 1 => NotStolen(Entry(v, i))'
    BY <1>0, <1>5, <1>6, <1>7, LeaveOldest
<1> QED
    BY <1>5, <1>9, <1>11, <1>12 DEF JoinsOK

(* Who goes on after a sync waits for nobody. *)
LEMMA ResumeKeeps ==
    ASSUME TypeOK, TreeOK, HoldersOK, JoinsOK, NEW w \in Workers, NEW f \in Alive, Resume(w, f)
    PROVE  HoldersOK' /\ JoinsOK' /\ Orphans(f) = {}
<1>1. /\ stack[w] = <<>> /\ deque[w] = <<>> /\ frames[f].suspended # <<>> /\ frames[f].join = 0
      /\ deque' = deque
    BY DEF Resume, HoldersOK
<1>2. IsHead(f) /\ ~InDeque(f) /\ FrameOK(frames[f]) /\ f \in Paths
    BY <1>1, NotInDeque DEF TypeOK
<1>3. PICK s : s = frames[f].suspended
    OBVIOUS
<1>4. s = ChainOf(f) /\ s \in Seq(Paths) /\ s # <<>> /\ Head(s) = f
    BY <1>1, <1>3, Chains DEF HoldersOK
<1>5. stack' = [stack EXCEPT ![w] = s]
    BY <1>3 DEF Resume
<1>6. /\ Alive' = Alive /\ \A g \in Alive \ {f} : frames'[g] = frames[g]
      /\ frames'[f].join = 1 /\ frames'[f].unsynched = FALSE
      /\ frames'[f].spawned = frames[f].spawned
      /\ frames'[f].suspended = <<>>
  <2> DEFINE r == [frames[f] EXCEPT !.join = 1, !.unsynched = FALSE, !.suspended = <<>>,
                                    !.step = @ + 1]
  <2>1. r.join = 1 /\ r.unsynched = FALSE /\ r.spawned = frames[f].spawned /\ r.suspended = <<>>
    BY <1>2 DEF FrameOK, Fields
  <2>2. frames' = [frames EXCEPT ![f] = r]
    BY DEF Resume
  <2> HIDE DEF r
  <2> QED
    BY <2>1, <2>2, Updated
<1>7. /\ Slots(w) = {} /\ Slots(w)' = {1} /\ Top(w, 1)' = f /\ Elsewhere(w)
      /\ stack'[w] = s /\ Entry(w, 1)' = s
      /\ \A g : InDeque(g)' <=> InDeque(g)
    BY <1>1, <1>4, <1>5, Started
<1>8. \A g : IsHead(g)' <=> IsHead(g)
    BY <1>6 DEF IsHead
<1>9. ASSUME NEW v \in Workers, v # w, NEW i \in Slots(v)'
      PROVE  /\ i \in Slots(v) /\ Slots(v)' = Slots(v)
             /\ Entry(v, i)' = Entry(v, i) /\ Top(v, i)' = Top(v, i)
             /\ Top(v, i) \in Alive /\ Top(v, i) # f
             /\ i > 1 => i - 1 \in Slots(v) /\ Top(v, i - 1)' = Top(v, i - 1)
  <2>1. Slots(v)' = Slots(v)
    BY <1>7, <1>9, OthersStay
  <2>2. i \in Slots(v) /\ Entry(v, i)' = Entry(v, i) /\ Top(v, i)' = Top(v, i)
    BY <2>1, <1>7, <1>9, OthersStay
  <2>3. Top(v, i) \in Alive /\ Top(v, i) # f
    BY <2>2, <1>1, Tops DEF HoldersOK
  <2>4. i > 1 => i - 1 \in Slots(v)
    BY <2>2, Tops
  <2> QED
    BY <2>1, <2>2, <2>3, <2>4, <1>7, <1>9, OthersStay
<1>10. HoldersOK'
  <2>1. \A v \in Workers : stack'[v] = <<>> => deque'[v] = <<>>
    BY <1>4, <1>7 DEF HoldersOK, Elsewhere
  <2>2. ASSUME NEW v \in Workers, NEW i \in Slots(v)', NEW u, u = Top(v, i)'
        PROVE  /\ IsHead(u)'
               /\ Entry(v, i)' = ChainOf(u)
               /\ frames'[u].suspended = <<>>
               /\ i > 1 => Last(Entry(v, i)') = Append(Top(v, i - 1)', frames'[Top(v, i - 1)'].spawned)
    <3>1. CASE v = w
      <4>1. i = 1 /\ u = f /\ Entry(v, i)' = s
        BY <3>1, <2>2, <1>7
      <4> QED
        BY <4>1, <1>2, <1>4, <1>6, <1>8
    <3>2. CASE v # w
      <4>1. /\ i \in Slots(v) /\ Entry(v, i)' = Entry(v, i) /\ u = Top(v, i)
            /\ u \in Alive /\ u # f
        BY <3>2, <2>2, <1>9
      <4>2. IsHead(u) /\ Entry(v, i) = ChainOf(u) /\ frames[u].suspended = <<>>
        BY <4>1 DEF HoldersOK
      <4>3. ASSUME i > 1
            PROVE  Last(Entry(v, i)') = Append(Top(v, i - 1)', frames'[Top(v, i - 1)'].spawned)
        <5>1. i - 1 \in Slots(v) /\ Top(v, i - 1)' = Top(v, i - 1)
            BY <3>2, <4>3, <1>9
        <5>2. Top(v, i - 1) \in Alive
            BY <5>1, Tops
        <5>3. frames'[Top(v, i - 1)].spawned = frames[Top(v, i - 1)].spawned
            BY <5>2, <1>6
        <5>4. Last(Entry(v, i)) = Append(Top(v, i - 1), frames[Top(v, i - 1)].spawned)
            BY <4>1, <4>3 DEF HoldersOK
        <5> QED
            BY <4>1, <5>1, <5>3, <5>4
      <4>4. IsHead(u)' /\ frames'[u].suspended = <<>>
        BY <4>1, <4>2, <1>6, <1>8
      <4> QED
        BY <4>1, <4>2, <4>3, <4>4
    <3> QED
        BY <3>1, <3>2
  <2>3. ASSUME NEW v \in Workers, NEW u \in Workers, NEW i \in Slots(v)', NEW j \in Slots(u)',
               Top(v, i)' = Top(u, j)'
        PROVE  v = u /\ i = j
    <3>1. CASE v = w /\ u = w
        BY <3>1, <1>7
    <3>2. CASE v = w /\ u # w
      <4>1. i = 1
        BY <3>2, <1>7
      <4> QED
        BY <4>1, <3>2, <2>3, <1>7, <1>9
    <3>3. CASE v # w /\ u = w
      <4>1. j = 1
        BY <3>3, <1>7
      <4> QED
        BY <4>1, <3>3, <2>3, <1>7, <1>9
    <3>4. CASE v # w /\ u # w
        BY <3>4, <2>3, <1>9, Tops
    <3> QED
        BY <3>1, <3>2, <3>3, <3>4
  <2>4. ASSUME NEW g \in Alive', frames'[g].suspended # <<>>
        PROVE  IsHead(g)' /\ frames'[g].suspended = ChainOf(g)
    <3>1. g \in Alive /\ g # f /\ frames'[g] = frames[g]
        BY <2>4, <1>6
    <3>2. IsHead(g) /\ frames[g].suspended = ChainOf(g)
        BY <2>4, <3>1 DEF HoldersOK
    <3> QED
        BY <3>1, <3>2, <1>8
  <2> QED
    BY <2>1, <2>2, <2>3, <2>4 DEF HoldersOK
<1>11. Orphans(f) = {}
  <2>1. JoinOK(f)
    BY DEF JoinsOK
  <2>2. IsFiniteSet(Orphans(f)) /\ Cardinality(Orphans(f)) \in Nat
    BY OrphanSets
  <2>3. Cardinality(Orphans(f)) = 0
    BY <2>1, <2>2, <1>1 DEF JoinOK
  <2> QED
    BY <2>2, <2>3, FS_EmptySet
<1>12. ASSUME NEW g \in Alive' PROVE JoinOK(g)'
  <2>1. Orphans(g)' = Orphans(g)
    BY <1>6, <1>7 DEF Orphans
  <2>2. CASE g # f
    <3>1. SameJoin(g) /\ JoinOK(g)
        BY <2>2, <1>6 DEF SameJoin, JoinsOK
    <3> QED
        BY <2>1, <3>1, JoinKept
  <2>3. CASE g = f
    <3>1. Orphans(f)' = {} /\ Cardinality({}) = 0
        BY <2>1, <2>3, <1>11, FS_EmptySet
    <3> QED
        BY <2>3, <3>1, <1>6 DEF JoinOK
  <2> QED
    BY <2>2, <2>3
<1>13. ASSUME NEW v \in Workers, NEW i \in Slots(v)', i > 1 PROVE NotStolen(Entry(v, i))'
  <2>1. v # w
    BY <1>7, <1>13
  <2>2. PICK e : e = Entry(v, i)
    OBVIOUS
  <2>3. i \in Slots(v) /\ Entry(v, i)' = e
    BY <2>1, <2>2, <1>9
  <2>4. ASSUME NEW m \in 1..Len(e) PROVE ~frames'[e[m]].unsynched
    <3>1. e = ChainOf(Top(v, i)) /\ Top(v, i) \in Alive
        BY <2>2, <2>3, Tops DEF HoldersOK
    <3>2. e[m] \in Alive
        BY <3>1, Chains
    <3>3. ~frames[e[m]].unsynched
        BY <2>2, <2>3, <1>13 DEF JoinsOK, NotStolen
    <3> QED
        BY <3>2, <3>3, <1>6
  <2> QED
    BY <2>3, <2>4 DEF NotStolen
<1> QED
    BY <1>10, <1>11, <1>12, <1>13 DEF JoinsOK

(* What a frame is but for its place: nothing in it that the loop is made of changes. *)
SameWork(f) ==
    /\ frames'[f].function = frames[f].function /\ frames'[f].step = frames[f].step
    /\ frames'[f].low = frames[f].low /\ frames'[f].high = frames[f].high
    /\ frames'[f].spawned = frames[f].spawned
    /\ frames'[f].spawn_helper_pedigree = frames[f].spawn_helper_pedigree

(* The frame at the head of what a thief takes is the oldest of the victim. *)
Robs(w, v, f) ==
    /\ Moves(w, v) /\ v # w /\ stack[w] = <<>> /\ deque[v] # <<>>
    /\ f = Top(v, 1) /\ 1 \in Slots(v) /\ 2 \in Slots(v) /\ f \in Alive
    /\ Alive' = Alive
    /\ \A g \in Alive \ {f} : frames'[g] = frames[g]
    /\ FrameOK(frames'[f]) /\ SameWork(f)
    /\ frames'[f].join = frames[f].join + 1 /\ frames'[f].unsynched = TRUE
    /\ frames'[f].suspended = frames[f].suspended
    /\ frames'[f].parent_pedigree = frames[f].parent_pedigree

(* ... and that is what a steal is. *)
LEMMA Taken ==
    ASSUME TypeOK, TreeOK, HoldersOK, NEW w \in Workers, NEW v \in Workers, Steal(w, v),
           NEW f, f = Head(Head(deque[v]))
    PROVE  Robs(w, v, f)
<1>1. Moves(w, v) /\ v # w /\ stack[w] = <<>> /\ deque[v] # <<>>
    BY DEF Steal, Moves
<1>2. deque[v] \in Seq(Seq(Paths)) /\ Len(deque[v]) \in Nat /\ Len(deque[v]) >= 1 /\ stack[v] # <<>>
    BY <1>1, Places, EmptySeq DEF HoldersOK
<1>3. 1 \in Slots(v) /\ 2 \in Slots(v)
    BY <1>2 DEF Slots
<1>4. f = Top(v, 1)
    BY <1>1, <1>2 DEF Top, Entry
<1>5. f \in Alive
    BY <1>3, <1>4, Tops
<1>6. FrameOK(frames[f])
    BY <1>5 DEF TypeOK
<1> DEFINE t == [frames[f] EXCEPT !.join = @ + 1, !.unsynched = TRUE]
<1>7. frames' = [frames EXCEPT ![f] = t]
    BY DEF Steal
<1>8. t.join = frames[f].join + 1 /\ t.unsynched = TRUE
    BY <1>6 DEF FrameOK, Fields
<1>9. /\ t.function = frames[f].function /\ t.step = frames[f].step
      /\ t.low = frames[f].low /\ t.high = frames[f].high
      /\ t.spawned = frames[f].spawned
      /\ t.spawn_helper_pedigree = frames[f].spawn_helper_pedigree
      /\ t.suspended = frames[f].suspended
      /\ t.parent_pedigree = frames[f].parent_pedigree
    BY <1>6 DEF FrameOK, Fields
<1>10. DOMAIN t = Fields
    BY <1>6 DEF FrameOK
<1> HIDE DEF t
<1>11. FrameOK(t)
  <2>1. t.function \in {"main", "noop", "range", "body", "kid"} /\ t.step \in 0..4
    BY <1>6, <1>9 DEF FrameOK
  <2>2. t.low \in Int /\ t.high \in Int /\ t.spawned \in Nat
    BY <1>6, <1>9 DEF FrameOK
  <2>3. t.join \in Int
    BY <1>6, <1>8 DEF FrameOK
  <2>4. t.unsynched \in BOOLEAN
    BY <1>8
  <2> QED
    BY <2>1, <2>2, <2>3, <2>4, <1>10 DEF FrameOK
<1>12. Alive' = Alive /\ frames'[f] = t /\ \A g \in Alive \ {f} : frames'[g] = frames[g]
    BY <1>5, <1>7, Updated
<1>13. SameWork(f)
    BY <1>9, <1>12 DEF SameWork
<1> QED
    BY <1>1, <1>3, <1>4, <1>5, <1>8, <1>9, <1>11, <1>12, <1>13 DEF Robs

(* A steal leaves the child it was above to find its parent gone. *)
LEMMA StealKeeps ==
    ASSUME TypeOK, TreeOK, HoldersOK, JoinsOK, NEW w \in Workers, NEW v \in Workers, Steal(w, v)
    PROVE  HoldersOK' /\ JoinsOK'
<1>0. PICK f : f = Head(Head(deque[v]))
    OBVIOUS
<1>1. /\ Moves(w, v) /\ v # w /\ stack[w] = <<>> /\ deque[v] # <<>>
      /\ f = Top(v, 1) /\ 1 \in Slots(v) /\ 2 \in Slots(v) /\ f \in Alive
      /\ Alive' = Alive
      /\ \A g \in Alive \ {f} : frames'[g] = frames[g]
      /\ frames'[f].join = frames[f].join + 1 /\ frames'[f].unsynched = TRUE
  <2>1. Robs(w, v, f)
    BY <1>0, Taken
  <2> QED
    BY <2>1 DEF Robs
<1>2. frames'[f].spawned = frames[f].spawned /\ frames'[f].suspended = frames[f].suspended
  <2>1. Robs(w, v, f)
    BY <1>0, Taken
  <2> QED
    BY <2>1 DEF Robs, SameWork
<1>3. IsHead(f) /\ frames[f].suspended = <<>>
    BY <1>1 DEF HoldersOK
<1>4. \A g \in Alive : /\ frames'[g].spawned = frames[g].spawned
                       /\ frames'[g].suspended = frames[g].suspended
    BY <1>1, <1>2
<1>5. PICK n : n = Len(deque[v])
    OBVIOUS
<1>6. /\ n \in Nat /\ n >= 1 /\ Slots(v) = 1..(n + 1) /\ Slots(v)' = 1..n
      /\ Slots(w) = {} /\ Slots(w)' = {1} /\ deque[w] = <<>> /\ deque'[w] = <<>>
      /\ Entry(w, 1)' = Entry(v, 1) /\ Top(w, 1)' = Top(v, 1) /\ stack'[w] = Entry(v, 1)
      /\ \A i \in 1..n : Entry(v, i)' = Entry(v, i + 1) /\ Top(v, i)' = Top(v, i + 1)
    BY <1>1, <1>5, Stolen
<1>7. /\ \A u \in Workers \ {v, w} :
           /\ Slots(u)' = Slots(u)
           /\ \A i \in Slots(u) : Entry(u, i)' = Entry(u, i) /\ Top(u, i)' = Top(u, i)
      /\ \A u \in Workers \ {w} : stack'[u] = stack[u]
      /\ \A u \in Workers \ {v, w} : deque'[u] = deque[u]
    BY <1>1, <1>5, Stolen
<1>8. InDeque(f) /\ \A g : InDeque(g)' <=> InDeque(g) /\ g # f
  <2>1. InDeque(Top(v, 1)) /\ \A g : InDeque(g)' <=> InDeque(g) /\ g # Top(v, 1)
    BY <1>1, <1>5, Stolen
  <2> QED
    BY <2>1, <1>1
<1>9. \A g : IsHead(g)' <=> IsHead(g)
    BY <1>1 DEF IsHead
(* Where an entry was: u's i-th is what it is now.                        *)
<1> DEFINE At0(u, i) == IF u \in {v, w} THEN v ELSE u
           Was(u, i) == IF u = v THEN i + 1 ELSE i
<1>10. ASSUME NEW u \in Workers, NEW i \in Slots(u)'
       PROVE  /\ At0(u, i) \in Workers /\ Was(u, i) \in Slots(At0(u, i))
              /\ Entry(u, i)' = Entry(At0(u, i), Was(u, i))
              /\ Top(u, i)' = Top(At0(u, i), Was(u, i))
              /\ i > 1 => /\ i - 1 \in Slots(u)' /\ u # w /\ Was(u, i) > 1
                          /\ Was(u, i - 1) = Was(u, i) - 1 /\ At0(u, i - 1) = At0(u, i)
  <2>1. CASE u = w
    <3>1. i = 1 /\ At0(u, i) = v /\ Was(u, i) = i
        BY <2>1, <1>1, <1>6
    <3> QED
        BY <2>1, <3>1, <1>1, <1>6
  <2>2. CASE u = v
    <3>1. i \in 1..n /\ i + 1 \in 1..(n + 1) /\ At0(u, i) = v /\ Was(u, i) = i + 1
        BY <2>2, <1>6
    <3>2. i > 1 => i - 1 \in 1..n /\ Was(u, i) > 1 /\ Was(u, i - 1) = Was(u, i) - 1
        BY <2>2, <3>1, <1>6
    <3> QED
        BY <2>2, <3>1, <3>2, <1>1, <1>6
  <2>3. CASE u \notin {v, w}
    <3>1. Slots(u)' = Slots(u) /\ At0(u, i) = u /\ Was(u, i) = i
        BY <2>3, <1>7
    <3>2. i > 1 => i - 1 \in Slots(u)
        BY <3>1, Tops
    <3> QED
        BY <2>3, <3>1, <3>2, <1>7
  <2> QED
    BY <2>1, <2>2, <2>3
<1>11. ASSUME NEW u \in Workers, NEW x \in Workers, NEW i \in Slots(u)', NEW j \in Slots(x)',
              At0(u, i) = At0(x, j), Was(u, i) = Was(x, j)
       PROVE  u = x /\ i = j
  <2>1. u = w => i = 1
    BY <1>6
  <2>2. x = w => j = 1
    BY <1>6
  <2>3. i \in Nat /\ i >= 1 /\ j \in Nat /\ j >= 1
    <3>1. \A y \in Workers : \A m \in Slots(y)' : m \in Nat /\ m >= 1
      <4>1. ASSUME NEW y \in Workers, NEW m \in Slots(y)' PROVE m \in Nat /\ m >= 1
        <5>1. CASE y \notin {v, w}
            BY <5>1, <1>7, Tops
        <5>2. CASE y \in {v, w}
            BY <5>2, <1>6
        <5> QED
            BY <5>1, <5>2
      <4> QED
        BY <4>1
    <3> QED
        BY <3>1
  <2>4. CASE u = w
    <3>1. Was(u, i) = 1 /\ At0(u, i) = v
        BY <2>1, <2>4, <1>1
    <3>2. x # v
        BY <3>1, <2>3, <1>11
    <3>3. x = w
        BY <3>1, <3>2, <1>11
    <3> QED
        BY <2>1, <2>2, <2>4, <3>3
  <2>5. CASE x = w
    <3>1. Was(x, j) = 1 /\ At0(x, j) = v
        BY <2>2, <2>5, <1>1
    <3>2. u # v
        BY <3>1, <2>3, <1>11
    <3>3. u = w
        BY <3>1, <3>2, <1>11
    <3> QED
        BY <2>1, <2>2, <2>5, <3>3
  <2>6. CASE u # w /\ x # w
    <3>1. u = x
        BY <2>6, <1>11
    <3> QED
        BY <2>3, <3>1, <1>11
  <2> QED
    BY <2>4, <2>5, <2>6
<1> HIDE DEF At0, Was
<1>12. HoldersOK'
  <2>1. \A u \in Workers : stack'[u] = <<>> => deque'[u] = <<>>
    <3>1. ASSUME NEW u \in Workers, stack'[u] = <<>> PROVE deque'[u] = <<>>
      <4>1. CASE u = w
        BY <4>1, <1>6
      <4>2. CASE u = v
        <5>1. stack[v] = <<>>
            BY <4>2, <3>1, <1>1, <1>7
        <5> QED
            BY <5>1, <1>1 DEF HoldersOK
      <4>3. CASE u \notin {v, w}
        BY <4>3, <3>1, <1>7 DEF HoldersOK
      <4> QED
        BY <4>1, <4>2, <4>3
    <3> QED
        BY <3>1
  <2>2. ASSUME NEW u \in Workers, NEW i \in Slots(u)', NEW t, t = Top(u, i)'
        PROVE  /\ IsHead(t)'
               /\ Entry(u, i)' = ChainOf(t)
               /\ frames'[t].suspended = <<>>
               /\ i > 1 => Last(Entry(u, i)') = Append(Top(u, i - 1)', frames'[Top(u, i - 1)'].spawned)
    <3>1. PICK a, b : a = At0(u, i) /\ b = Was(u, i)
        OBVIOUS
    <3>2. a \in Workers /\ b \in Slots(a) /\ Entry(u, i)' = Entry(a, b) /\ t = Top(a, b)
        BY <2>2, <3>1, <1>10
    <3>3. t \in Alive /\ IsHead(t) /\ Entry(a, b) = ChainOf(t) /\ frames[t].suspended = <<>>
        BY <3>2, Tops DEF HoldersOK
    <3>4. ASSUME i > 1
          PROVE  Last(Entry(u, i)') = Append(Top(u, i - 1)', frames'[Top(u, i - 1)'].spawned)
      <4>1. i - 1 \in Slots(u)' /\ b > 1 /\ Was(u, i - 1) = b - 1 /\ At0(u, i - 1) = a
        BY <3>1, <3>4, <1>10
      <4>2. Top(u, i - 1)' = Top(a, b - 1)
        BY <4>1, <1>10
      <4>3. Last(Entry(a, b)) = Append(Top(a, b - 1), frames[Top(a, b - 1)].spawned)
        BY <3>2, <4>1 DEF HoldersOK
      <4>4. Top(a, b - 1) \in Alive
        BY <3>2, <4>1, Tops
      <4> QED
        BY <3>2, <4>2, <4>3, <4>4, <1>4
    <3> QED
        BY <3>2, <3>3, <3>4, <1>4, <1>9
  <2>3. ASSUME NEW u \in Workers, NEW x \in Workers, NEW i \in Slots(u)', NEW j \in Slots(x)',
               Top(u, i)' = Top(x, j)'
        PROVE  u = x /\ i = j
    <3>1. PICK a, b, c, d : a = At0(u, i) /\ b = Was(u, i) /\ c = At0(x, j) /\ d = Was(x, j)
        OBVIOUS
    <3>2. /\ a \in Workers /\ b \in Slots(a) /\ Top(u, i)' = Top(a, b)
          /\ c \in Workers /\ d \in Slots(c) /\ Top(x, j)' = Top(c, d)
        BY <3>1, <1>10
    <3>3. a = c /\ b = d
        BY <2>3, <3>2, Tops
    <3>4. At0(u, i) = At0(x, j) /\ Was(u, i) = Was(x, j)
        BY <3>1, <3>3
    <3> QED
        BY <3>4, <1>11, Zenon
  <2>4. ASSUME NEW g \in Alive', frames'[g].suspended # <<>>
        PROVE  IsHead(g)' /\ frames'[g].suspended = ChainOf(g)
    <3>1. g \in Alive /\ frames'[g].suspended = frames[g].suspended
        BY <1>1, <1>4
    <3> QED
        BY <2>4, <3>1, <1>9 DEF HoldersOK
  <2> QED
    BY <2>1, <2>2, <2>3, <2>4 DEF HoldersOK
<1>13. ASSUME NEW g \in Alive', g # f PROVE JoinOK(g)'
  <2>1. g \in Alive /\ SameJoin(g) /\ (InDeque(g)' <=> InDeque(g))
    BY <1>1, <1>8, <1>13 DEF SameJoin
  <2>2. Orphans(g)' = Orphans(g)
    BY <2>1, <1>1, <1>4 DEF Orphans
  <2> QED
    BY <2>1, <2>2, JoinKept DEF JoinsOK
<1>14. JoinOK(f)'
  <2>1. PICK c : c = Append(f, frames[f].spawned)
    OBVIOUS
  <2>2. /\ c \in Alive /\ c # Main /\ Front(c) = f /\ Last(c) = frames[f].spawned
        /\ frames[f].spawned \in Nat \ {0}
    <3>1. PICK i : i = 2
        OBVIOUS
    <3>2. i \in Slots(v) /\ i > 1 /\ i - 1 = 1
        BY <3>1, <1>1
    <3>3. PICK p : p = Top(v, i - 1)
        OBVIOUS
    <3>4. /\ Append(p, frames[p].spawned) \in Alive /\ Append(p, frames[p].spawned) # Main
          /\ Front(Append(p, frames[p].spawned)) = p
          /\ Last(Append(p, frames[p].spawned)) = frames[p].spawned
          /\ frames[p].spawned \in Nat \ {0}
        BY <3>2, <3>3, Below
    <3>5. p = f
        BY <3>2, <3>3, <1>1
    <3> QED
        BY <2>1, <3>4, <3>5
  <2>3. Orphans(f) = {x \in Alive : /\ x # Main /\ Front(x) = f /\ Last(x) # 0
                                    /\ Last(x) # frames[f].spawned}
    BY <1>8 DEF Orphans
  <2>4. Orphans(f)' = {x \in Alive : x # Main /\ Front(x) = f /\ Last(x) # 0}
    BY <1>1, <1>8 DEF Orphans
  <2>5. \A x \in Alive : x # Main /\ Front(x) = f => (Last(x) = frames[f].spawned <=> x = c)
    BY <2>1, <2>2, Parent
  <2>6. Orphans(f)' = Orphans(f) \cup {c} /\ c \notin Orphans(f)
    BY <2>2, <2>3, <2>4, <2>5
  <2>7. Cardinality(Orphans(f)') = Cardinality(Orphans(f)) + 1 /\ Cardinality(Orphans(f)) \in Nat
    BY <2>6, OrphanSets, FS_AddElement
  <2>8. frames[f].join = Cardinality(Orphans(f)) + 1
    BY <1>1, <1>3 DEF JoinsOK, JoinOK
  <2>9. frames'[f].join = Cardinality(Orphans(f)') + 1
    BY <2>7, <2>8, <1>1
  <2>10. frames'[f].suspended = <<>> /\ frames'[f].unsynched
    BY <1>1, <1>2, <1>3
  <2> QED
    BY <2>9, <2>10 DEF JoinOK
<1>15. ASSUME NEW u \in Workers, NEW i \in Slots(u)', i > 1 PROVE NotStolen(Entry(u, i))'
  <2>1. PICK a, b, e : a = At0(u, i) /\ b = Was(u, i) /\ e = Entry(a, b)
    OBVIOUS
  <2>2. a \in Workers /\ b \in Slots(a) /\ b > 1 /\ Entry(u, i)' = e
    BY <2>1, <1>10, <1>15
  <2>3. Top(a, b) # f /\ Top(a, b) \in Alive
    BY <2>2, <1>1, Tops
  <2>4. ASSUME NEW m \in 1..Len(e) PROVE ~frames'[e[m]].unsynched
    <3>1. e = ChainOf(Top(a, b))
        BY <2>1, <2>2 DEF HoldersOK
    <3>2. e[m] \in Alive
        BY <2>3, <3>1, Chains
    <3>3. e[m] # f
        BY <2>3, <3>1, <1>3, OneChain
    <3>4. ~frames[e[m]].unsynched
        BY <2>1, <2>2 DEF JoinsOK, NotStolen
    <3> QED
        BY <3>2, <3>3, <3>4, <1>1
  <2> QED
    BY <2>2, <2>4 DEF NotStolen
<1> QED
    BY <1>1, <1>12, <1>13, <1>14, <1>15 DEF JoinsOK

-----------------------------------------------------------------------------
(* The loop: what a step makes of the tree, of the iterations and of the   *)
(* pedigrees.  First, the frames that are new, and those that go on as     *)
(* what they were. *)
Fresh(r) == FrameOK(r) /\ r.join = 1 /\ ~r.unsynched /\ r.suspended = <<>>
Alike(r, q) ==
    /\ FrameOK(r)
    /\ r.join = q.join /\ r.unsynched = q.unsynched /\ r.suspended = q.suspended

(* What Frame makes. *)
LEMMA NewFrame ==
    ASSUME NEW function \in {"main", "noop", "range", "body", "kid"},
           NEW low \in Int, NEW high \in Int, NEW helper, NEW r, r = Frame(function, low, high, helper)
    PROVE  /\ Fresh(r) /\ r.function = function /\ r.step = 0 /\ r.low = low /\ r.high = high
           /\ r.spawned = 0 /\ r.spawn_helper_pedigree = helper /\ r.suspended = <<>>
<1>1. /\ r.function = function /\ r.step = 0 /\ r.low = low /\ r.high = high
      /\ r.spawned = 0 /\ r.spawn_helper_pedigree = helper
      /\ r.join = 1 /\ r.unsynched = FALSE /\ r.suspended = <<>>
    BY DEF Frame
<1>2. DOMAIN r = Fields
    BY DEF Frame, Fields
<1>3. r.unsynched \in BOOLEAN /\ ~r.unsynched /\ r.step \in 0..4 /\ r.join \in Int /\ r.spawned \in Nat
  <2>1. r.unsynched \in BOOLEAN /\ ~r.unsynched
    BY <1>1, Zenon
  <2>2. r.step \in 0..4 /\ r.join \in Int /\ r.spawned \in Nat
    BY <1>1
  <2> QED
    BY <2>1, <2>2
<1>4. FrameOK(r)
  <2>1. /\ r.function \in {"main", "noop", "range", "body", "kid"}
        /\ r.low \in Int /\ r.high \in Int
    BY <1>1
  <2> QED
    BY <2>1, <1>2, <1>3 DEF FrameOK
<1> QED
    BY <1>1, <1>3, <1>4 DEF Fresh

(* Who has no children. *)
Childless(f) == \A g \in Alive : g # Main => Front(g) # f

(* ... a frame at a sync that need not wait, and one that returns. *)
LEMMA NoChildren ==
    ASSUME TypeOK, TreeOK, NEW f, IsHead(f)
    PROVE  /\ ~InDeque(f) /\ Orphans(f) = {} => Childless(f)
           /\ frames[f].function \in {"noop", "kid"} => Childless(f)
           /\ frames[f].function \in {"range", "body"} /\ frames[f].step = 3 => Childless(f)
<1>1. f \in Alive /\ Append(f, 0) \notin Alive
    BY DEF IsHead
<1>2. ASSUME NEW g \in Alive, g # Main, Front(g) = f
      PROVE  Last(g) # 0 /\ IsChild(frames[f], Last(g), frames[g])
    BY <1>1, <1>2, Parent
<1>3. ASSUME ~InDeque(f), Orphans(f) = {} PROVE Childless(f)
    BY <1>2, <1>3 DEF Orphans, Childless
<1>4. ASSUME \/ frames[f].function \in {"noop", "kid"}
             \/ frames[f].function \in {"range", "body"} /\ frames[f].step = 3
      PROVE  Childless(f)
    BY <1>2, <1>4 DEF IsChild, Childless
<1> QED
    BY <1>3, <1>4

(* One frame changes, with what it spawns or calls. *)
Grows(f, N) ==
    /\ IsHead(f) /\ N \subseteq Paths /\ IsFiniteSet(N)
    /\ Alive' = Alive \cup N
    /\ \A g \in Alive \ {f} : frames'[g] = frames[g]
    /\ \A g \in Alive' : FrameOK(frames'[g])
    /\ \A g \in N : g # Main /\ g \notin Alive /\ Front(g) = f

Keeps(f, N) ==
    /\ \A g \in N : IsChild(frames'[f], Last(g), frames'[g])
    /\ \A g \in Alive : g # Main /\ Front(g) = f /\ Last(g) # 0 /\ IsChild(frames[f], Last(g), frames[g])
         => IsChild(frames'[f], Last(g), frames[g])
    /\ frames'[f].function = frames[f].function
    /\ frames[f].function = "kid" => frames'[f].low = frames[f].low
    /\ f = Main /\ frames'[f].step = 0 => frames'[f].spawned = 0

(* The tree, when the frame's children still fit. *)
LEMMA TreeGrows ==
    ASSUME TypeOK, TreeOK, NEW f, NEW N, Grows(f, N), Keeps(f, N)
    PROVE  TreeOK'
<1> USE DEF Keeps
<1>1. f \in Alive /\ Append(f, 0) \notin Alive /\ Alive' = Alive \cup N
    BY DEF Grows, IsHead
<1>2. Main \in Alive' /\ frames'[Main].function = "main"
      /\ (frames'[Main].step = 0 => frames'[Main].spawned = 0)
    BY <1>1 DEF TreeOK, Grows
<1>3. ASSUME NEW g \in Alive', g # Main
      PROVE  Front(g) \in Alive' /\ IsChild(frames'[Front(g)], Last(g), frames'[g])
  <2>1. CASE g \in N
    BY <2>1, <1>1 DEF Grows
  <2>2. CASE g \in Alive
    <3>1. /\ Front(g) \in Alive /\ Front(g) # g /\ g = Append(Front(g), Last(g))
          /\ IsChild(frames[Front(g)], Last(g), frames[g])
        BY <2>2, <1>3, Parent
    <3>2. CASE Front(g) = f
      <4>1. frames'[g] = frames[g] /\ Last(g) # 0
        BY <2>2, <3>1, <3>2, <1>1 DEF Grows
      <4> QED
        BY <2>2, <3>1, <3>2, <4>1, <1>1, <1>3
    <3>3. CASE Front(g) # f
      <4>1. frames'[Front(g)] = frames[Front(g)]
        BY <3>1, <3>3 DEF Grows
      <4>2. frames'[g].function = frames[g].function
            /\ (frames[g].function = "kid" => frames'[g].low = frames[g].low)
        BY <2>2 DEF Grows
      <4>3. IsChild(frames[Front(g)], Last(g), frames'[g])
        BY <3>1, <4>2 DEF IsChild
      <4> QED
        BY <3>1, <4>1, <4>3, <1>1
    <3> QED
        BY <3>2, <3>3
  <2> QED
    BY <2>1, <2>2, <1>1
<1> QED
    BY <1>2, <1>3 DEF TreeOK

(* The others go on as they were, and who goes has no children. *)
LEMMA TreeStays ==
    ASSUME TypeOK, TreeOK, Alive' \subseteq Alive, Main \in Alive',
           \A g \in Alive \ Alive' : Childless(g),
           \A g \in Alive' : SameWork(g)
    PROVE  TreeOK'
<1>1. Main \in Alive' /\ frames'[Main].function = "main"
      /\ (frames'[Main].step = 0 => frames'[Main].spawned = 0)
    BY DEF TreeOK, SameWork
<1>2. ASSUME NEW g \in Alive', g # Main
      PROVE  Front(g) \in Alive' /\ IsChild(frames'[Front(g)], Last(g), frames'[g])
  <2>1. g \in Alive /\ Front(g) \in Alive /\ IsChild(frames[Front(g)], Last(g), frames[g])
    BY <1>2, Parent
  <2>2. Front(g) \in Alive'
    BY <2>1, <1>2 DEF Childless
  <2>3. SameWork(g) /\ SameWork(Front(g))
    BY <2>2
  <2> QED
    BY <2>1, <2>2, <2>3 DEF IsChild, SameWork
<1> QED
    BY <1>1, <1>2 DEF TreeOK

(* What a frame's record says of the iterations by itself. *)
RangeOK(r) ==
    /\ r.function = "range" /\ r.step = 0 => r.low < r.high
    /\ r.function = "body" => r.step <= 3 /\ (r.step = 3 <=> r.low >= r.high)

(* A frame hands on some of its iterations. *)
LEMMA TodoGrows ==
    ASSUME TypeOK, IterationsOK, NEW f, NEW N, Grows(f, N), ran' = ran,
           RangeOK(frames'[f]), \A g \in N : RangeOK(frames'[g]),
           \A i : i \in Todo(frames[f]) <=>
              i \in Todo(frames'[f]) \/ \E g \in N : i \in Todo(frames'[g]),
           \A g \in N : \A i \in Todo(frames'[g]) : i \notin Todo(frames'[f]),
           \A g, h \in N : g = h
    PROVE  IterationsOK'
<1>1. f \in Alive /\ Alive' = Alive \cup N /\ \A g \in N : g \notin Alive
    BY DEF Grows, IsHead
<1>2. \A g \in Alive \ {f} : frames'[g] = frames[g]
    BY DEF Grows
<1>3. ASSUME NEW g \in Alive' PROVE RangeOK(frames'[g])
    BY <1>1, <1>2 DEF IterationsOK, RangeOK
(* Whose an iteration was before. *)
<1> DEFINE Was(g) == IF g \in N THEN f ELSE g
<1>4. ASSUME NEW g \in Alive', NEW i \in Todo(frames'[g])
      PROVE  Was(g) \in Alive /\ i \in Todo(frames[Was(g)])
    BY <1>1, <1>2
<1>5. ASSUME NEW g \in Alive', NEW i \in Todo(frames'[g]) PROVE i \in 0..(Count - 1) /\ ran'[i] = 0
  <2>1. PICK h : h = Was(g)
    OBVIOUS
  <2>2. h \in Alive /\ i \in Todo(frames[h])
    BY <2>1, <1>4, <1>5
  <2> QED
    BY <2>2 DEF IterationsOK
<1>6. ASSUME NEW g \in Alive', NEW h \in Alive', NEW i \in Todo(frames'[g]), i \in Todo(frames'[h])
      PROVE  g = h
  <2>1. Was(g) = Was(h)
    <3>1. PICK a, b : a = Was(g) /\ b = Was(h)
        OBVIOUS
    <3>2. a \in Alive /\ b \in Alive /\ i \in Todo(frames[a]) /\ i \in Todo(frames[b])
        BY <3>1, <1>4, <1>6
    <3>3. a = b
        BY <3>2 DEF IterationsOK
    <3> QED
        BY <3>1, <3>3
  <2>2. CASE g \in N /\ h \in N
    BY <2>2
  <2>3. CASE g \in N /\ h \notin N
    BY <2>1, <2>3, <1>6
  <2>4. CASE g \notin N /\ h \in N
    BY <2>1, <2>4, <1>6
  <2>5. CASE g \notin N /\ h \notin N
    BY <2>1, <2>5
  <2> QED
    BY <2>2, <2>3, <2>4, <2>5
<1>7. ASSUME NEW i \in 0..(Count - 1)
      PROVE  ran'[i] = 1 \/ (ran'[i] = 0 /\ \E g \in Alive' : i \in Todo(frames'[g]))
  <2>1. CASE ran[i] = 1
    BY <2>1
  <2>2. CASE ran[i] = 0 /\ \E g \in Alive : i \in Todo(frames[g])
    <3>1. PICK g \in Alive : i \in Todo(frames[g])
        BY <2>2
    <3>2. \E h \in Alive' : i \in Todo(frames'[h])
        BY <3>1, <1>1, <1>2
    <3> QED
        BY <2>2, <3>2
  <2> QED
    BY <2>1, <2>2 DEF IterationsOK
<1> QED
    BY <1>3, <1>5, <1>6, <1>7 DEF IterationsOK, RangeOK

(* Who goes has none left. *)
LEMMA TodoStays ==
    ASSUME TypeOK, IterationsOK, ran' = ran, Alive' \subseteq Alive,
           \A g \in Alive \ Alive' : Todo(frames[g]) = {},
           \A g \in Alive' : SameWork(g)
    PROVE  IterationsOK'
<1>1. ASSUME NEW g \in Alive'
      PROVE  RangeOK(frames'[g]) /\ Todo(frames'[g]) = Todo(frames[g]) /\ g \in Alive
  <2>1. SameWork(g) /\ g \in Alive
    OBVIOUS
  <2>2. RangeOK(frames[g])
    BY <2>1 DEF IterationsOK, RangeOK
  <2>3. Todo(frames'[g]) = Todo(frames[g])
    BY <2>1 DEF SameWork, Todo
  <2> QED
    BY <2>1, <2>2, <2>3 DEF SameWork, RangeOK
<1>2. ASSUME NEW i \in 0..(Count - 1)
      PROVE  ran'[i] = 1 \/ (ran'[i] = 0 /\ \E g \in Alive' : i \in Todo(frames'[g]))
    BY <1>1 DEF IterationsOK
<1> QED
    BY <1>1, <1>2 DEF IterationsOK, RangeOK

(* The pedigrees that a frame keeps. *)
LEMMA PedigreeKept ==
    ASSUME NEW f, PedigreeOK(f), SameWork(f), frames[Main].step >= 2 => frames'[Main].step >= 2,
           InDeque(f)' => InDeque(f),
           frames'[f].suspended = frames[f].suspended,
           frames'[f].parent_pedigree = frames[f].parent_pedigree
    PROVE  PedigreeOK(f)'
    BY DEF PedigreeOK, SameWork, AtSpawn, AtSync

(* The other workers. *)
LEMMA OthersSerial ==
    ASSUME PedigreesOK, NEW v \in Workers, stack'[v] = stack[v], stack[v] # <<>>,
           pedigree'[v] = pedigree[v], SameWork(Me(v))
    PROVE  Serial(My(v), pedigree[v])'
<1>1. Serial(My(v), pedigree[v])
    BY DEF PedigreesOK
<1>2. Me(v)' = Me(v)
    BY DEF Me
<1> QED
    BY <1>1, <1>2 DEF Serial, My, SameWork

(* What a worker leaves alone. *)
LEMMA PedigreesGrow ==
    ASSUME TypeOK, HoldersOK, PedigreesOK, NEW w \in Workers, stack[w] # <<>>,
           NEW f, f = Me(w), NEW N, Grows(f, N),
           frames[Main].step >= 2 => frames'[Main].step >= 2,
           frames'[Main].step >= 2 => loop_root_pedigree' = X,
           \A g : InDeque(g)' => InDeque(g) \/ g = f,
           PedigreeOK(f)', \A g \in N : PedigreeOK(g)',
           Serial(My(w), pedigree[w])',
           \A v \in Workers \ {w} : stack'[v] = stack[v] /\ pedigree'[v] = pedigree[v]
    PROVE  PedigreesOK'
<1>1. ASSUME NEW g \in Alive' PROVE PedigreeOK(g)'
  <2>1. CASE g \in Alive \ {f}
    <3>1. frames'[g] = frames[g] /\ SameWork(g)
        BY <2>1 DEF Grows, SameWork
    <3>2. PedigreeOK(g) /\ (InDeque(g)' => InDeque(g))
        BY <2>1 DEF PedigreesOK
    <3> QED
        BY <3>1, <3>2, PedigreeKept
  <2>2. CASE g \notin Alive \ {f}
    BY <2>2 DEF Grows
  <2> QED
    BY <2>1, <2>2
<1>2. ASSUME NEW v \in Workers, stack'[v] # <<>> PROVE Serial(My(v), pedigree[v])'
  <2>1. CASE v # w
    <3>1. stack'[v] = stack[v] /\ pedigree'[v] = pedigree[v]
        BY <2>1
    <3>2. PICK i, j : i = Len(deque[v]) + 1 /\ j = Len(deque[w]) + 1
        OBVIOUS
    <3>3. i \in Slots(v) /\ Top(v, i) = Me(v) /\ j \in Slots(w) /\ Top(w, j) = f
        BY <3>1, <3>2, <1>2, Places
    <3>4. Me(v) # f /\ Me(v) \in Alive
        BY <2>1, <3>3, Tops
    <3>5. SameWork(Me(v))
        BY <3>4 DEF Grows, SameWork
    <3> QED
        BY <3>1, <3>5, <1>2, OthersSerial
  <2>2. CASE v = w
    BY <2>2
  <2> QED
    BY <2>1, <2>2
<1> QED
    BY <1>1, <1>2 DEF PedigreesOK

(* A spawn: c is the child's name. *)
Spawns(w, f, c, after, child) ==
    /\ f \in Alive /\ c \in Paths /\ c # f /\ c # Main /\ Front(c) = f
    /\ Last(c) = after.spawned /\ after.spawned \in Nat \ {0}
    /\ Grows(f, {c}) /\ TypeOK' /\ HoldersOK' /\ JoinsOK'
    /\ frames'[c] = child
    /\ frames'[f].function = after.function /\ frames'[f].step = after.step
    /\ frames'[f].low = after.low /\ frames'[f].high = after.high
    /\ frames'[f].spawned = after.spawned /\ frames'[f].suspended = <<>>
    /\ frames'[f].spawn_helper_pedigree = after.spawn_helper_pedigree
    /\ frames'[f].parent_pedigree = pedigree[w]
    /\ stack'[w] # <<>> /\ Me(w)' = c /\ pedigree'[w] = <<0>> \o pedigree[w]
    /\ \A v \in Workers \ {w} : stack'[v] = stack[v] /\ pedigree'[v] = pedigree[v]
    /\ \A g : InDeque(g)' <=> InDeque(g) \/ g = f

(* ... and that is what a spawn by the frame that executes is. *)
LEMMA Spawning ==
    ASSUME TypeOK, TreeOK, HoldersOK, JoinsOK, NEW w \in Workers, stack[w] # <<>>,
           NEW f, f = Me(w), NEW after, NEW child, Alike(after, frames[f]), Fresh(child),
           after.spawned = frames[f].spawned + 1,
           Spawn(w, child, after), kind' = kind, ran' \in [0..(Count - 1) -> Nat],
           NEW c, c = Append(f, after.spawned)
    PROVE  Spawns(w, f, c, after, child)
<1> USE DEF Alike, Fresh
<1>1. f \in Alive /\ f \in Paths /\ IsHead(f) /\ frames[f].suspended = <<>> /\ FrameOK(frames[f])
    BY NotInDeque DEF TypeOK
<1>2. PICK k : k = after.spawned
    OBVIOUS
<1>3. k \in Nat \ {0} /\ k = frames[f].spawned + 1 /\ frames[f].spawned \in Nat
    BY <1>1, <1>2 DEF FrameOK
<1>4. c \in Paths /\ c # <<>> /\ c # f /\ Front(c) = f /\ Last(c) = k
    BY <1>1, <1>2, <1>3, Extending
<1>5. c \notin Alive
  <2> SUFFICES ASSUME c \in Alive PROVE FALSE
    OBVIOUS
  <2>1. IsChild(frames[f], k, frames[c])
    BY <1>4, MainPath DEF TreeOK
  <2>2. k \in 1..frames[f].spawned
    BY <2>1, <1>3 DEF IsChild
  <2> QED
    BY <2>2, <1>3
<1> DEFINE r == [after EXCEPT !.parent_pedigree = pedigree[w]]
<1>6. /\ r.function = after.function /\ r.step = after.step
      /\ r.low = after.low /\ r.high = after.high
      /\ r.spawned = after.spawned /\ r.suspended = after.suspended
      /\ r.join = after.join /\ r.unsynched = after.unsynched
      /\ r.spawn_helper_pedigree = after.spawn_helper_pedigree
      /\ r.parent_pedigree = pedigree[w]
    BY DEF FrameOK, Fields
<1>7. DOMAIN r = Fields
    BY DEF FrameOK
<1>8. /\ Pushes(w, c) /\ SetPedigree(w, <<0>> \o pedigree[w])
      /\ frames' = Among([frames EXCEPT ![f] = r], c, child)
    BY DEF Spawn, Pushes
<1> HIDE DEF r
<1>9. FrameOK(r)
    BY <1>6, <1>7 DEF FrameOK
<1>10. /\ Alive' = Alive \cup {c} /\ frames'[c] = child /\ frames'[f] = r
       /\ \A g \in Alive \ {f} : frames'[g] = frames[g]
    BY <1>1, <1>4, <1>5, <1>8 DEF Among, Alive
<1>11. SameJoin(f)
    BY <1>6, <1>10 DEF SameJoin
<1>12. \A g \in Alive : SameJoin(g)
    BY <1>10, <1>11 DEF SameJoin
<1>13. \A g \in Alive \ {f} : frames'[g].spawned = frames[g].spawned
    BY <1>10
<1>14. frames'[f].spawned = k /\ frames'[c].suspended = <<>>
    BY <1>2, <1>6, <1>10
<1>15. HoldersOK'
  <2>1. c = Append(f, k) /\ Pushes(w, c) /\ Alive' = Alive \cup {c} /\ k \in Nat \ {0}
    BY <1>2, <1>3, <1>8, <1>10
  <2> QED
    BY <2>1, <1>5, <1>12, <1>13, <1>14, SpawnHolders
<1>16. JoinsOK'
  <2>1. frames'[c].join = 1 /\ ~frames'[c].unsynched
    BY <1>10
  <2> HIDE DEF Alike, Fresh
  <2> QED
    BY <2>1, <1>2, <1>3, <1>5, <1>8, <1>10, <1>12, <1>13, <1>14, SpawnJoins, ZenonT(30)
<1>17. PICK n : n = Len(deque[w]) + 1
    OBVIOUS
<1>18. /\ stack' \in [Workers -> Seq(Paths)] /\ deque' \in [Workers -> Seq(Seq(Paths))]
       /\ \A g : InDeque(g)' <=> InDeque(g) \/ g = Top(w, n)
    BY <1>4, <1>8, <1>17, Pushed DEF Above
<1>19. Top(w, n) = f
    BY <1>17, Places
<1>20. /\ stack'[w] = <<c>> /\ <<c>> # <<>> /\ Head(<<c>>) = c
       /\ pedigree'[w] = <<0>> \o pedigree[w] /\ DOMAIN pedigree' = Workers
       /\ \A v \in Workers \ {w} : stack'[v] = stack[v] /\ pedigree'[v] = pedigree[v]
    BY <1>8 DEF Pushes, SetPedigree, TypeOK
<1>21. Me(w)' = c /\ stack'[w] # <<>>
    BY <1>20 DEF Me
<1>22. \A g \in Alive' : FrameOK(frames'[g])
    BY <1>9, <1>10 DEF TypeOK
<1>23. {c} \subseteq Paths /\ IsFiniteSet({c})
    BY <1>4, FS_Singleton
<1>24. TypeOK'
  <2>1. Alive' \subseteq Paths /\ IsFiniteSet(Alive')
    BY <1>10, <1>4, FS_AddElement DEF TypeOK
  <2> QED
    BY <2>1, <1>18, <1>20, <1>22 DEF TypeOK
<1>25. Grows(f, {c})
    BY <1>1, <1>4, <1>5, <1>10, <1>22, <1>23, MainPath DEF Grows
<1>26. \A g : InDeque(g)' <=> InDeque(g) \/ g = f
    BY <1>18, <1>19
<1>27. /\ frames'[f].function = after.function /\ frames'[f].step = after.step
       /\ frames'[f].low = after.low /\ frames'[f].high = after.high
       /\ frames'[f].spawned = after.spawned /\ frames'[f].suspended = <<>>
       /\ frames'[f].spawn_helper_pedigree = after.spawn_helper_pedigree
       /\ frames'[f].parent_pedigree = pedigree[w]
    BY <1>1, <1>6, <1>10
<1> QED
  <2>1. f \in Alive /\ c \in Paths /\ c # f /\ c # Main /\ Front(c) = f
        /\ Last(c) = after.spawned /\ after.spawned \in Nat \ {0}
    BY <1>1, <1>2, <1>3, <1>4, MainPath
  <2> QED
    BY <2>1, <1>10, <1>15, <1>16, <1>20, <1>21, <1>24, <1>25, <1>26, <1>27 DEF Spawns

(* A call: c is the callee's name. *)
Calls(w, f, c, after, callee) ==
    /\ f \in Alive /\ c # f /\ Front(c) = f /\ Last(c) = 0
    /\ Grows(f, {c}) /\ TypeOK' /\ HoldersOK' /\ JoinsOK'
    /\ frames'[c] = callee /\ frames'[f] = after
    /\ stack'[w] # <<>> /\ Me(w)' = c
    /\ \A v \in Workers \ {w} : stack'[v] = stack[v] /\ pedigree'[v] = pedigree[v]
    /\ \A g : InDeque(g)' <=> InDeque(g)

(* ... and that is what a call is. *)
LEMMA Calling ==
    ASSUME TypeOK, TreeOK, HoldersOK, JoinsOK, NEW w \in Workers, stack[w] # <<>>,
           NEW f, f = Me(w), frames[f].function \in {"main", "range"},
           NEW after, NEW callee, Alike(after, frames[f]), Fresh(callee),
           after.spawned = frames[f].spawned,
           Call(w, callee, after), deque' = deque, NEW p, SetPedigree(w, p),
           kind' = kind, ran' = ran,
           NEW c, c = Append(f, 0)
    PROVE  Calls(w, f, c, after, callee)
<1> USE DEF Alike, Fresh
<1>1. f \in Alive /\ f \in Paths /\ IsHead(f) /\ frames[f].suspended = <<>> /\ FrameOK(frames[f])
    BY NotInDeque DEF TypeOK
<1>2. c \in Paths /\ c # <<>> /\ c # f /\ Front(c) = f /\ Last(c) = 0 /\ c \notin Alive
    BY <1>1, Extending DEF IsHead
<1>3. /\ stack' = [stack EXCEPT ![w] = <<c>> \o stack[w]]
      /\ frames' = Among([frames EXCEPT ![f] = after], c, callee)
    BY DEF Call
<1>4. /\ Alive' = Alive \cup {c} /\ frames'[c] = callee /\ frames'[f] = after
      /\ \A g \in Alive \ {f} : frames'[g] = frames[g]
    BY <1>1, <1>2, <1>3 DEF Among, Alive
<1>5. PICK n : n = Len(deque[w]) + 1
    OBVIOUS
<1>6. n \in Slots(w) /\ Entry(w, n) = stack[w] /\ Top(w, n) = f
    BY <1>5, Places
<1>7. stack[w] = ChainOf(f) /\ stack[w] \in Seq(Paths) /\ stack[w] # <<>>
    BY <1>6 DEF HoldersOK, TypeOK
<1>8. PICK s : s = <<c>> \o stack[w]
    OBVIOUS
<1>9. /\ s \in Seq(Paths) /\ s # <<>> /\ Head(s) = c /\ Last(s) = Last(stack[w])
      /\ Len(s) = Len(stack[w]) + 1 /\ Len(stack[w]) \in Nat
      /\ s[1] = c /\ \A i \in 1..Len(stack[w]) : s[i + 1] = stack[w][i]
  <2>1. PICK t : t = stack[w]
    OBVIOUS
  <2>2. t \in Seq(Paths) /\ t # <<>> /\ s = <<c>> \o t
    BY <2>1, <1>7, <1>8
  <2>3. /\ <<c>> \o t \in Seq(Paths) /\ <<c>> \o t # <<>>
        /\ Head(<<c>> \o t) = c /\ Last(<<c>> \o t) = Last(t)
        /\ Len(<<c>> \o t) = Len(t) + 1 /\ Len(t) \in Nat
        /\ (<<c>> \o t)[1] = c /\ \A i \in 1..Len(t) : (<<c>> \o t)[i + 1] = t[i]
    <3>1. t \in Seq(Paths) /\ c \in Paths
        BY <2>2, <1>2
    <3>2. <<c>> \o t \in Seq(Paths) /\ <<c>> \o t # <<>>
        BY <3>1, InFront
    <3>3. Head(<<c>> \o t) = c
        BY <3>1, InFront
    <3>5. Len(<<c>> \o t) = Len(t) + 1 /\ Len(t) \in Nat
        BY <3>1, InFront
    <3>6. (<<c>> \o t)[1] = c
        BY <3>1, InFront
    <3>7. \A i \in 1..Len(t) : (<<c>> \o t)[i + 1] = t[i]
        BY <3>1, InFront
    <3>8. Last(<<c>> \o t) = Last(t)
      <4>1. Len(t) \in 1..Len(t)
        BY <2>2, <3>1, <3>5, EmptySeq
      <4> QED
        BY <4>1, <3>5, <3>7 DEF Last
    <3> QED
        BY <3>2, <3>3, <3>5, <3>6, <3>7, <3>8
  <2> QED
    BY <2>1, <2>2, <2>3
<1>10. s = ChainOf(c)
    BY <1>1, <1>7, <1>8, Callers
<1>11. stack' = [stack EXCEPT ![w] = s]
    BY <1>3, <1>8
<1>12. /\ stack' \in [Workers -> Seq(Paths)] /\ deque' \in [Workers -> Seq(Seq(Paths))]
       /\ stack'[w] = s /\ \A g : InDeque(g)' <=> InDeque(g)
    BY <1>5, <1>9, <1>11, Replaced
<1>13. \A v \in Workers \ {w} : stack'[v] = stack[v]
    BY <1>11 DEF TypeOK
<1>14. IsHead(c)'
  <2>1. Append(c, 0) # c /\ Append(c, 0) # Main /\ Front(Append(c, 0)) = c
    BY <1>2, Extending, MainPath
  <2>2. Append(c, 0) \notin Alive
    BY <2>1, <1>2 DEF TreeOK
  <2> QED
    BY <2>1, <2>2, <1>4 DEF IsHead
<1>15. SameJoin(f) /\ frames'[f].spawned = frames[f].spawned
    BY <1>4 DEF SameJoin
<1>16. \A g \in Alive : SameJoin(g) /\ frames'[g].spawned = frames[g].spawned
    BY <1>4, <1>15 DEF SameJoin
<1>17. ~IsHead(c)
    BY <1>2 DEF IsHead
<1>18. HeadsStay(f)
  <2>1. ASSUME NEW g, IsHead(g), g # f PROVE Append(g, 0) # c
    <3>1. g \in Paths
        BY <2>1 DEF IsHead, TypeOK
    <3>2. Front(Append(g, 0)) = g
        BY <3>1, Extending
    <3> QED
        BY <3>2, <2>1, <1>2
  <2> QED
    BY <2>1, <1>4, <1>16 DEF IsHead, HeadsStay
<1>19. NoneSuspends(f)
    BY <1>1, <1>4, <1>16 DEF SameJoin, NoneSuspends
<1>20. HoldersOK'
  <2>1. frames'[c].suspended = <<>> /\ c \in Alive' /\ Append(c, 0) \notin Alive'
    BY <1>4, <1>14 DEF IsHead
  <2> QED
    BY <2>1, <1>9, <1>10, <1>11, <1>14, <1>17, <1>18, <1>19, StackHolders
<1>21. JoinsOK'
  <2>1. \A x : x # Main /\ Last(x) # 0 => (x \in Alive' <=> x \in Alive)
    BY <1>2, <1>4
  <2>2. \A g \in Alive \cap Alive' : SameJoin(g) /\ frames'[g].spawned = frames[g].spawned
    BY <1>16
  <2>3. \A g \in Alive' \ Alive :
              /\ frames'[g].join = 1 /\ ~frames'[g].unsynched /\ frames'[g].suspended = <<>>
              /\ \A x \in Alive' : x # Main => Front(x) # g
    <3>1. \A x \in Alive' : x # Main => Front(x) # c
        BY <1>2, <1>4 DEF TreeOK
    <3> QED
        BY <3>1, <1>4
  <2>4. NotStolen(stack[w]) => NotStolen(s)'
    <3> SUFFICES ASSUME NotStolen(stack[w]), NEW m \in 1..Len(s) PROVE ~frames'[s[m]].unsynched
        BY DEF NotStolen
    <3>1. CASE m = 1
        BY <3>1, <1>4, <1>9
    <3>2. CASE m # 1
      <4>1. PICK i : i = m - 1
        OBVIOUS
      <4>2. i \in 1..Len(stack[w]) /\ i + 1 = m
        BY <3>2, <4>1, <1>9
      <4>3. s[m] = stack[w][i]
        BY <4>2, <1>9
      <4>4. ~frames[stack[w][i]].unsynched
        BY <4>2 DEF NotStolen
      <4>5. stack[w][i] \in Alive
        BY <4>2, <1>1, <1>7, Chains
      <4> QED
        BY <4>3, <4>4, <4>5, <1>16 DEF SameJoin
    <3> QED
        BY <3>1, <3>2
  <2>5. \A v \in Workers : \A i \in Slots(v) : Entry(v, i) # stack[w] =>
              \A m \in 1..Len(Entry(v, i)) : Entry(v, i)[m] \in Alive'
    <3>1. ASSUME NEW v \in Workers, NEW i \in Slots(v), NEW m \in 1..Len(Entry(v, i))
          PROVE  Entry(v, i)[m] \in Alive'
      <4>1. PICK e : e = Entry(v, i)
        OBVIOUS
      <4>2. e = ChainOf(Top(v, i)) /\ Top(v, i) \in Alive
        BY <4>1, Tops DEF HoldersOK
      <4>3. e[m] \in Alive
        BY <4>1, <4>2, Chains
      <4> QED
        BY <4>1, <4>3, <1>4
    <3> QED
        BY <3>1
  <2> QED
    BY <2>1, <2>2, <2>3, <2>4, <2>5, <1>9, <1>11, StackJoins
<1>22. \A g \in Alive' : FrameOK(frames'[g])
    BY <1>4 DEF TypeOK
<1>23. {c} \subseteq Paths /\ IsFiniteSet({c})
    BY <1>2, FS_Singleton
<1>24. DOMAIN pedigree' = Workers /\ \A v \in Workers \ {w} : pedigree'[v] = pedigree[v]
    BY DEF SetPedigree, TypeOK
<1>25. TypeOK'
  <2>1. Alive' \subseteq Paths /\ IsFiniteSet(Alive')
    BY <1>4, <1>2, FS_AddElement DEF TypeOK
  <2> QED
    BY <2>1, <1>12, <1>22, <1>24 DEF TypeOK
<1>26. Grows(f, {c})
    BY <1>1, <1>2, <1>4, <1>22, <1>23, MainPath DEF Grows
<1>27. Me(w)' = c /\ stack'[w] # <<>>
    BY <1>9, <1>12 DEF Me
<1> QED
    BY <1>1, <1>2, <1>4, <1>12, <1>13, <1>20, <1>21, <1>24, <1>25, <1>26, <1>27 DEF Calls

(* A step that only the worker's frame takes. *)
Works(w, f, after) ==
    /\ f \in Alive /\ Alive' = Alive
    /\ Grows(f, {}) /\ TypeOK' /\ HoldersOK' /\ JoinsOK'
    /\ frames'[f] = after /\ Me(w)' = f
    /\ \A v \in Workers \ {w} : stack'[v] = stack[v] /\ pedigree'[v] = pedigree[v]
    /\ \A g : InDeque(g)' <=> InDeque(g)

(* ... and that is what ToStep and its like are. *)
LEMMA Working ==
    ASSUME TypeOK, TreeOK, HoldersOK, JoinsOK, NEW w \in Workers, stack[w] # <<>>,
           NEW f, f = Me(w), NEW after, Alike(after, frames[f]),
           after.spawned = frames[f].spawned,
           Becomes(w, after), stack' = stack, deque' = deque, NEW p, SetPedigree(w, p),
           kind' = kind, ran' = ran
    PROVE  Works(w, f, after)
<1> USE DEF Alike, Fresh
<1>1. f \in Alive /\ f \in Paths /\ IsHead(f) /\ frames[f].suspended = <<>> /\ FrameOK(frames[f])
    BY NotInDeque DEF TypeOK
<1>2. frames' = [frames EXCEPT ![f] = after]
    BY DEF Becomes
<1>3. Alive' = Alive /\ frames'[f] = after /\ \A g \in Alive \ {f} : frames'[g] = frames[g]
    BY <1>1, <1>2, Updated
<1>4. PICK s : s = stack[w]
    OBVIOUS
<1>5. PICK n : n = Len(deque[w]) + 1
    OBVIOUS
<1>6. n \in Slots(w) /\ Entry(w, n) = s /\ Top(w, n) = f
    BY <1>4, <1>5, Places
<1>7. s = ChainOf(f) /\ s \in Seq(Paths) /\ s # <<>> /\ Head(s) = f
    BY <1>4, <1>6 DEF HoldersOK, TypeOK, Me
<1>8. stack' = [stack EXCEPT ![w] = s]
    BY <1>4 DEF TypeOK
<1>9. /\ stack' \in [Workers -> Seq(Paths)] /\ deque' \in [Workers -> Seq(Seq(Paths))]
      /\ \A g : InDeque(g)' <=> InDeque(g)
    BY <1>5, <1>7, <1>8, Replaced
<1>10. SameJoin(f) /\ frames'[f].spawned = frames[f].spawned
    BY <1>3 DEF SameJoin
<1>11. \A g \in Alive : SameJoin(g) /\ frames'[g].spawned = frames[g].spawned
    BY <1>3, <1>10 DEF SameJoin
<1>12. HeadsStay(f)
    BY <1>3, <1>11 DEF IsHead, HeadsStay
<1>13. NoneSuspends(f)
    BY <1>1, <1>3, <1>11 DEF SameJoin, NoneSuspends
<1>14. HoldersOK'
  <2>1. frames'[f].suspended = <<>> /\ f \in Alive' /\ Append(f, 0) \notin Alive'
    BY <1>1, <1>3 DEF IsHead
  <2> QED
    BY <2>1, <1>4, <1>7, <1>8, <1>12, <1>13, StackHolders
<1>15. \A v \in Workers : \A i \in Slots(v) : \A m \in 1..Len(Entry(v, i)) : Entry(v, i)[m] \in Alive
  <2>1. ASSUME NEW v \in Workers, NEW i \in Slots(v), NEW m \in 1..Len(Entry(v, i))
        PROVE  Entry(v, i)[m] \in Alive
    <3>1. PICK e : e = Entry(v, i)
        OBVIOUS
    <3>2. e = ChainOf(Top(v, i)) /\ Top(v, i) \in Alive
        BY <3>1, Tops DEF HoldersOK
    <3>3. e[m] \in Alive
        BY <3>1, <3>2, Chains
    <3> QED
        BY <3>1, <3>3
  <2> QED
    BY <2>1
<1>16. JoinsOK'
  <2>1. NotStolen(stack[w]) => NotStolen(s)'
    <3> SUFFICES ASSUME NotStolen(stack[w]), NEW m \in 1..Len(s) PROVE ~frames'[s[m]].unsynched
        BY DEF NotStolen
    <3>1. s[m] \in Alive
        BY <1>1, <1>7, Chains
    <3>2. ~frames[s[m]].unsynched
        BY <1>4 DEF NotStolen
    <3> QED
        BY <3>1, <3>2, <1>11 DEF SameJoin
  <2>2. \A x : x # Main /\ Last(x) # 0 => (x \in Alive' <=> x \in Alive)
    BY <1>3
  <2>3. \A g \in Alive \cap Alive' : SameJoin(g) /\ frames'[g].spawned = frames[g].spawned
    BY <1>11
  <2>4. \A g \in Alive' \ Alive :
              /\ frames'[g].join = 1 /\ ~frames'[g].unsynched /\ frames'[g].suspended = <<>>
              /\ \A x \in Alive' : x # Main => Front(x) # g
    BY <1>3
  <2>5. \A v \in Workers : \A i \in Slots(v) : Entry(v, i) # stack[w] =>
              \A m \in 1..Len(Entry(v, i)) : Entry(v, i)[m] \in Alive'
    BY <1>3, <1>15
  <2> QED
    BY <2>1, <2>2, <2>3, <2>4, <2>5, <1>7, <1>8, StackJoins
<1>17. \A g \in Alive' : FrameOK(frames'[g])
    BY <1>3 DEF TypeOK
<1>18. {} \subseteq Paths /\ IsFiniteSet({})
    BY FS_EmptySet
<1>19. /\ DOMAIN pedigree' = Workers
       /\ \A v \in Workers \ {w} : stack'[v] = stack[v] /\ pedigree'[v] = pedigree[v]
    BY DEF SetPedigree, TypeOK
<1>20. TypeOK'
    BY <1>3, <1>9, <1>17, <1>19 DEF TypeOK
<1>21. Grows(f, {})
    BY <1>1, <1>3, <1>17, <1>18 DEF Grows
<1>22. Me(w)' = f
    BY DEF Me
<1> QED
    BY <1>1, <1>3, <1>9, <1>14, <1>16, <1>19, <1>20, <1>21, <1>22 DEF Works

(* A return from a call. *)
LEMMA Returning ==
    ASSUME TypeOK, TreeOK, HoldersOK, JoinsOK, NEW w \in Workers, stack[w] # <<>>,
           NEW f, f = Me(w), f # Main, Last(f) = 0, NEW p, p = Front(f),
           ReturnFromCall(w), deque' = deque, pedigree' = pedigree, kind' = kind, ran' = ran
    PROVE  /\ f \in Alive /\ Alive' = Alive \ {f} /\ \A g \in Alive' : frames'[g] = frames[g]
           /\ TypeOK' /\ HoldersOK' /\ JoinsOK'
           /\ stack'[w] # <<>> /\ Me(w)' = p
           /\ \A v \in Workers \ {w} : stack'[v] = stack[v]
           /\ \A g : InDeque(g)' <=> InDeque(g)
<1>1. f \in Alive /\ f \in Paths /\ IsHead(f) /\ frames[f].suspended = <<>>
    BY NotInDeque DEF TypeOK
<1>2. p \in Alive /\ p \in Paths /\ f = Append(p, 0) /\ p # f /\ IsChild(frames[p], 0, frames[f])
    BY <1>1, Parent
<1>3. frames[p].function \in {"main", "range"}
    BY <1>2 DEF IsChild
<1>4. ~IsHead(p) /\ frames[p].suspended = <<>>
    BY <1>1, <1>2 DEF IsHead, HoldersOK
<1>5. frames' = [g \in DOMAIN frames \ {f} |-> frames[g]] /\ stack' = [stack EXCEPT ![w] = Tail(stack[w])]
    BY DEF ReturnFromCall, Without
<1>6. Alive' = Alive \ {f} /\ \A g \in Alive' : frames'[g] = frames[g]
    BY <1>5 DEF Alive
<1>7. PICK n : n = Len(deque[w]) + 1
    OBVIOUS
<1>8. n \in Slots(w) /\ Entry(w, n) = stack[w] /\ Top(w, n) = f
    BY <1>7, Places
<1>9. PICK s : s = ChainOf(p)
    OBVIOUS
<1>10. s \in Seq(Paths) /\ s # <<>> /\ Head(s) = p /\ \A m \in 1..Len(s) : s[m] \in Alive
    BY <1>2, <1>9, Chains
<1>11. stack[w] = <<f>> \o s /\ Tail(stack[w]) = s
  <2>1. stack[w] = ChainOf(f)
    BY <1>8 DEF HoldersOK
  <2>2. ChainOf(Append(p, 0)) = <<Append(p, 0)>> \o ChainOf(p)
        /\ Tail(<<Append(p, 0)>> \o ChainOf(p)) = ChainOf(p)
    BY <1>2, <1>3, Callers
  <2> QED
    BY <2>1, <2>2, <1>2, <1>9
<1>12. stack' = [stack EXCEPT ![w] = s]
    BY <1>5, <1>11
<1>13. /\ Len(stack[w]) = Len(s) + 1 /\ Len(s) \in Nat /\ Last(stack[w]) = Last(s)
       /\ \A m \in 1..Len(s) : stack[w][m + 1] = s[m]
  <2>1. Len(<<f>> \o s) = Len(s) + 1 /\ Len(s) \in Nat
    BY <1>1, <1>10, InFront
  <2>2. \A m \in 1..Len(s) : (<<f>> \o s)[m + 1] = s[m]
    BY <1>1, <1>10, InFront
  <2>3. Len(s) \in 1..Len(s)
    BY <1>10, EmptySeq
  <2>4. Last(<<f>> \o s) = Last(s)
    BY <2>1, <2>2, <2>3 DEF Last
  <2> QED
    BY <2>1, <2>2, <2>4, <1>11
<1>14. /\ stack' \in [Workers -> Seq(Paths)] /\ deque' \in [Workers -> Seq(Seq(Paths))]
       /\ stack'[w] = s /\ \A g : InDeque(g)' <=> InDeque(g)
    BY <1>7, <1>10, <1>12, Replaced
<1>15. HeadsStay(f)
    BY <1>6 DEF HeadsStay, IsHead, SameJoin
<1>16. NoneSuspends(f)
    BY <1>6 DEF NoneSuspends
<1>17. HoldersOK'
  <2>1. p \in Alive' /\ Append(p, 0) \notin Alive' /\ frames'[p].suspended = <<>>
    BY <1>2, <1>4, <1>6
  <2> QED
    BY <2>1, <1>4, <1>9, <1>10, <1>12, <1>13, <1>15, <1>16, StackHolders
<1>18. JoinsOK'
  <2>1. \A x : x # Main /\ Last(x) # 0 => (x \in Alive' <=> x \in Alive)
    BY <1>6
  <2>2. \A g \in Alive \cap Alive' : SameJoin(g) /\ frames'[g].spawned = frames[g].spawned
    BY <1>6 DEF SameJoin
  <2>3. \A g \in Alive' \ Alive :
              /\ frames'[g].join = 1 /\ ~frames'[g].unsynched /\ frames'[g].suspended = <<>>
              /\ \A x \in Alive' : x # Main => Front(x) # g
    BY <1>6
  <2>4. NotStolen(stack[w]) => NotStolen(s)'
    <3> SUFFICES ASSUME NotStolen(stack[w]), NEW m \in 1..Len(s) PROVE ~frames'[s[m]].unsynched
        BY DEF NotStolen
    <3>1. m + 1 \in 1..Len(stack[w]) /\ stack[w][m + 1] = s[m]
        BY <1>13
    <3>2. ~frames[s[m]].unsynched
        BY <3>1 DEF NotStolen
    <3>3. s[m] # f
        BY <1>1, <1>2, <1>9, OneChain
    <3> QED
        BY <3>2, <3>3, <1>6, <1>10
  <2>5. \A v \in Workers : \A i \in Slots(v) : Entry(v, i) # stack[w] =>
              \A m \in 1..Len(Entry(v, i)) : Entry(v, i)[m] \in Alive'
    <3>1. ASSUME NEW v \in Workers, NEW i \in Slots(v), Entry(v, i) # stack[w],
                 NEW m \in 1..Len(Entry(v, i))
          PROVE  Entry(v, i)[m] \in Alive'
      <4>1. PICK e : e = Entry(v, i)
        OBVIOUS
      <4>2. e = ChainOf(Top(v, i)) /\ Top(v, i) \in Alive
        BY <4>1, Tops DEF HoldersOK
      <4>3. Top(v, i) # f
        BY <3>1, <1>8, Tops
      <4>4. e[m] \in Alive
        BY <4>1, <4>2, Chains
      <4>5. e[m] # f
        BY <4>1, <4>2, <4>3, <1>1, OneChain
      <4> QED
        BY <4>1, <4>4, <4>5, <1>6
    <3> QED
        BY <3>1
  <2> QED
    BY <2>1, <2>2, <2>3, <2>4, <2>5, <1>10, <1>12, StackJoins
<1>19. TypeOK'
  <2>1. Alive' \subseteq Paths /\ IsFiniteSet(Alive')
    BY <1>6, FS_Subset DEF TypeOK
  <2>2. \A g \in Alive' : FrameOK(frames'[g])
    BY <1>6 DEF TypeOK
  <2> QED
    BY <2>1, <2>2, <1>14 DEF TypeOK
<1>20. Me(w)' = p
    BY <1>10, <1>14 DEF Me
<1>21. \A v \in Workers \ {w} : stack'[v] = stack[v]
    BY <1>12 DEF TypeOK
<1> QED
    BY <1>1, <1>6, <1>10, <1>14, <1>17, <1>18, <1>19, <1>20, <1>21

-----------------------------------------------------------------------------
(* The arithmetic of pedigrees. *)

(* AddToRank on a pedigree whose first rank is known. *)
LEMMA RankInFront ==
    ASSUME NEW S, NEW x \in S, NEW s \in Seq(S), NEW n
    PROVE  AddToRank(<<x>> \o s, n) = <<x + n>> \o s
<1>1. Head(<<x>> \o s) = x /\ Tail(<<x>> \o s) = s
    BY InFront
<1> QED
    BY <1>1 DEF AddToRank

(* The pedigrees of the loop. *)
LEMMA Ranks ==
    ASSUME NEW i \in Int
    PROVE  /\ AddToRank(X, 0) = X
           /\ AddToRank(AddToRank(X, 1), -1) = X
           /\ AddToRank(AddToRank(X, 1), 1) = AddToRank(X, 2)
           /\ AddToRank(<<0, i>> \o X, 1) = <<1, i>> \o X
           /\ AddToRank(<<1, i>> \o X, 1) = <<2, i>> \o X
           /\ <<0>> \o (<<0, i>> \o X) = <<0, 0, i>> \o X
           /\ <<0>> \o AddToRank(Tail(<<2, i>> \o X), 1) = <<0, i + 1>> \o X
<1>n. PICK S : S = Int
    OBVIOUS
<1>j. PICK j : j = i + 1
    OBVIOUS
<1>0. 0 \in S /\ 1 \in S /\ 2 \in S /\ 3 \in S /\ i \in S /\ j \in S
    BY <1>n, <1>j
<1>1. PICK z : z = <<0>>
    OBVIOUS
<1>2. z \in Seq(S)
    BY <1>0, <1>1
<1>3. X = <<2>> \o z /\ X \in Seq(S)
  <2>1. <<2>> \o <<0>> = <<2, 0>>
    BY <1>0, TwoInFront
  <2> QED
    BY <2>1, <1>0, <1>1 DEF X
<1>4. AddToRank(<<2>> \o z, 0) = <<2>> \o z
  <2>1. AddToRank(<<2>> \o z, 0) = <<2 + 0>> \o z
    BY <1>0, <1>2, RankInFront
  <2>2. 2 + 0 = 2
    OBVIOUS
  <2> QED
    BY <2>1, <2>2
<1>5. AddToRank(<<2>> \o z, 1) = <<3>> \o z
  <2>1. AddToRank(<<2>> \o z, 1) = <<2 + 1>> \o z
    BY <1>0, <1>2, RankInFront
  <2>2. 2 + 1 = 3
    OBVIOUS
  <2> QED
    BY <2>1, <2>2
<1>6. AddToRank(<<2>> \o z, 2) = <<4>> \o z
  <2>1. AddToRank(<<2>> \o z, 2) = <<2 + 2>> \o z
    BY <1>0, <1>2, RankInFront
  <2>2. 2 + 2 = 4
    OBVIOUS
  <2> QED
    BY <2>1, <2>2
<1>7. AddToRank(<<3>> \o z, 1) = <<4>> \o z
  <2>1. AddToRank(<<3>> \o z, 1) = <<3 + 1>> \o z
    BY <1>0, <1>2, RankInFront
  <2>2. 3 + 1 = 4
    OBVIOUS
  <2> QED
    BY <2>1, <2>2
<1>8. AddToRank(<<3>> \o z, -1) = <<2>> \o z
  <2>1. AddToRank(<<3>> \o z, -1) = <<3 + (-1)>> \o z
    BY <1>0, <1>2, RankInFront
  <2>2. 3 + (-1) = 2
    OBVIOUS
  <2> QED
    BY <2>1, <2>2
<1>9. PICK t : t = <<i>> \o X
    OBVIOUS
<1>10. t \in Seq(S)
    BY <1>0, <1>3, <1>9, InFront
<1>11. <<0, i>> \o X = <<0>> \o t /\ <<1, i>> \o X = <<1>> \o t /\ <<2, i>> \o X = <<2>> \o t
  <2>1. ASSUME NEW a \in S PROVE <<a, i>> \o X = <<a>> \o t
    <3>1. <<a>> \in Seq(S) /\ <<i>> \in Seq(S)
        BY <1>0
    <3>2. <<a>> \o <<i>> = <<a, i>>
        BY <1>0, TwoInFront
    <3>3. (<<a>> \o <<i>>) \o X = <<a>> \o (<<i>> \o X)
        BY <3>1, <1>3, ConcatAssociative
    <3> QED
        BY <3>2, <3>3, <1>9
  <2> QED
    BY <2>1, <1>0
<1>12. AddToRank(<<0>> \o t, 1) = <<1>> \o t
  <2>1. AddToRank(<<0>> \o t, 1) = <<0 + 1>> \o t
    BY <1>0, <1>10, RankInFront
  <2>2. 0 + 1 = 1
    OBVIOUS
  <2> QED
    BY <2>1, <2>2
<1>13. AddToRank(<<1>> \o t, 1) = <<2>> \o t
  <2>1. AddToRank(<<1>> \o t, 1) = <<1 + 1>> \o t
    BY <1>0, <1>10, RankInFront
  <2>2. 1 + 1 = 2
    OBVIOUS
  <2> QED
    BY <2>1, <2>2
<1>14. <<0>> \o (<<0>> \o t) = <<0, 0, i>> \o X
  <2>1. <<0>> \in Seq(S) /\ <<0, i>> \in Seq(S)
    BY <1>0
  <2>2. <<0>> \o <<0, i>> = <<0, 0, i>>
    BY <1>0, TwoInFront
  <2>3. (<<0>> \o <<0, i>>) \o X = <<0>> \o (<<0, i>> \o X)
    BY <2>1, <1>3, ConcatAssociative
  <2> QED
    BY <2>2, <2>3, <1>11
<1>15. <<0>> \o AddToRank(Tail(<<2>> \o t), 1) = <<0, j>> \o X
  <2>1. Tail(<<2>> \o t) = t
    BY <1>0, <1>10, InFront
  <2>2. AddToRank(t, 1) = <<j>> \o X
    BY <1>0, <1>3, <1>9, <1>j, RankInFront
  <2>3. <<0, j>> \o X = <<0>> \o (<<j>> \o X)
    <3>1. <<0>> \in Seq(S) /\ <<j>> \in Seq(S)
        BY <1>0
    <3>2. <<0>> \o <<j>> = <<0, j>>
        BY <1>0, TwoInFront
    <3>3. (<<0>> \o <<j>>) \o X = <<0>> \o (<<j>> \o X)
        BY <3>1, <1>3, ConcatAssociative
    <3> QED
        BY <3>2, <3>3
  <2> QED
    BY <2>1, <2>2, <2>3
<1> QED
    BY <1>3, <1>4, <1>5, <1>6, <1>7, <1>8, <1>j, <1>11, <1>12, <1>13, <1>14, <1>15

-----------------------------------------------------------------------------
(* The actions.  What is known of a worker that executes. *)
Runs(w, f) ==
    /\ f \in Alive /\ f \in Paths /\ IsHead(f) /\ ~InDeque(f) /\ frames[f].suspended = <<>>
    /\ FrameOK(frames[f]) /\ RangeOK(frames[f]) /\ PedigreeOK(f)
    /\ Serial(frames[f], pedigree[w])
    /\ frames[f].function = "main" <=> f = Main

(* ... of its frame, its pedigree and its place. *)
LEMMA Running ==
    ASSUME LoopInv, NEW w \in Workers, stack[w] # <<>>, NEW f, f = Me(w)
    PROVE  Runs(w, f) /\ My(w) = frames[f]
<1>1. /\ f \in Alive /\ f \in Paths /\ IsHead(f) /\ ~InDeque(f) /\ frames[f].suspended = <<>>
      /\ FrameOK(frames[f])
    BY NotInDeque DEF LoopInv, TypeOK
<1>2. RangeOK(frames[f])
    BY <1>1 DEF LoopInv, IterationsOK, RangeOK
<1>3. PedigreeOK(f) /\ Serial(frames[f], pedigree[w]) /\ My(w) = frames[f]
    BY <1>1 DEF LoopInv, PedigreesOK, My
<1>4. f # Main => frames[f].function # "main"
    BY <1>1 DEF LoopInv, TreeOK, IsChild
<1>5. frames[Main].function = "main"
    BY DEF LoopInv, TreeOK
<1> QED
    BY <1>1, <1>2, <1>3, <1>4, <1>5 DEF Runs

(* A frame r becomes q at a spawn. *)
GoesOn(r, q) ==
    /\ q.function = r.function /\ (q.low = r.low \/ q.function = "range")
    /\ q.function = "main" => q.step <= 1
    /\ q.spawn_helper_pedigree = r.spawn_helper_pedigree

(* A spawn keeps the pedigrees of both in order. *)
LEMMA SpawnPedigrees ==
    ASSUME LoopInv, NEW w \in Workers, stack[w] # <<>>, NEW f, f = Me(w),
           NEW after, NEW child, NEW c, Spawns(w, f, c, after, child),
           loop_root_pedigree' = loop_root_pedigree,
           GoesOn(frames[f], after), AtSpawn(after, pedigree[w]), child.suspended = <<>>,
           child.function \notin {"main", "noop"} => f # Main,
           frames[f].function # "noop",
           child.function = "kid" => child.spawn_helper_pedigree = <<0, child.low>> \o X,
           child.function = "noop" => child.spawn_helper_pedigree = X,
           Serial(child, << 0 >> \o pedigree[w]), frames[f].function = "main" => frames[f].step = 0
    PROVE  PedigreesOK'
<1>0. /\ after.function = frames[f].function
      /\ after.low = frames[f].low \/ after.function = "range"
      /\ after.function = "main" => after.step <= 1
      /\ after.spawn_helper_pedigree = frames[f].spawn_helper_pedigree
    BY DEF GoesOn
<1>1. Runs(w, f)
    BY Running
<1>2. /\ Main \in Alive /\ frames[Main].step \in 0..4 /\ frames'[c] = child
      /\ Grows(f, {c}) /\ c \notin Alive /\ c # Main /\ c # f
      /\ frames'[f].function = after.function /\ frames'[f].step = after.step
      /\ frames'[f].low = after.low /\ frames'[f].suspended = <<>>
      /\ frames'[f].spawn_helper_pedigree = after.spawn_helper_pedigree
      /\ frames'[f].parent_pedigree = pedigree[w]
      /\ \A g : InDeque(g)' <=> InDeque(g) \/ g = f
    BY <1>0 DEF Spawns, Grows, LoopInv, TreeOK, TypeOK, FrameOK
<1>3. frames[Main].step >= 2 <=> frames'[Main].step >= 2
  <2>1. CASE f = Main
    <3>1. frames'[f].step \in 0..4
        BY <2>1, <1>2 DEF Grows, FrameOK
    <3>2. frames[f].step = 0 /\ frames'[f].step <= 1
        BY <2>1, <1>0, <1>1, <1>2 DEF Runs
    <3> QED
        BY <2>1, <3>1, <3>2
  <2>2. CASE f # Main
    BY <2>2, <1>2 DEF Grows
  <2> QED
    BY <2>1, <2>2
<1>4. frames'[Main].step >= 2 => loop_root_pedigree' = X
    BY <1>3 DEF LoopInv, PedigreesOK
<1>5. AtSpawn(frames'[f], frames'[f].parent_pedigree)
    BY <1>0, <1>2 DEF AtSpawn
<1>6. PedigreeOK(f)'
  <2>1. frames'[f].function \notin {"main", "noop"} => frames'[Main].step >= 2
    BY <1>0, <1>1, <1>2, <1>3 DEF Runs, PedigreeOK
  <2>2. frames'[f].function = "kid" => frames'[f].spawn_helper_pedigree = <<0, frames'[f].low>> \o X
    <3>1. frames[f].function = "kid" => frames[f].spawn_helper_pedigree = <<0, frames[f].low>> \o X
        BY <1>1 DEF Runs, PedigreeOK
    <3> QED
        BY <3>1, <1>0, <1>2
  <2> QED
    BY <2>1, <2>2, <1>0, <1>2, <1>5 DEF PedigreeOK
<1>7. PedigreeOK(c)'
  <2>1. ~InDeque(c)
    BY <1>2, Tops DEF InDeque, LoopInv
  <2>2. frames'[c].function \notin {"main", "noop"} => frames'[Main].step >= 2
    <3>1. child.function \notin {"main", "noop"} => frames[f].function \notin {"main", "noop"}
        BY <1>1 DEF Runs
    <3>2. child.function \notin {"main", "noop"} => frames[Main].step >= 2
        BY <3>1, <1>1 DEF Runs, PedigreeOK
    <3> QED
        BY <3>2, <1>2, <1>3
  <2> QED
    BY <2>1, <2>2, <1>2 DEF PedigreeOK
<1>8. Serial(My(w), pedigree[w])'
  <2>1. My(w)' = child /\ pedigree'[w] = <<0>> \o pedigree[w]
    BY <1>2 DEF Spawns, My
  <2> QED
    BY <2>1 DEF Serial
<1>9. \A v \in Workers \ {w} : stack'[v] = stack[v] /\ pedigree'[v] = pedigree[v]
    BY DEF Spawns
<1>10. \A g \in {c} : PedigreeOK(g)'
    BY <1>7
<1> QED
    BY <1>2, <1>3, <1>4, <1>6, <1>8, <1>9, <1>10, PedigreesGrow DEF LoopInv

(* The spawn of nothing. *)
LEMMA SpawnNoopKeeps ==
    ASSUME LoopInv, NEW w \in Workers, SpawnNoop(w)
    PROVE  LoopInv'
<1> DEFINE t == [My(w) EXCEPT !.step = 1, !.spawned = 1]
<1>0. PICK after : after = t
    OBVIOUS
<1>1. PICK f : f = Me(w)
    OBVIOUS
<1>2. /\ stack[w] # <<>> /\ frames[f].function = "main" /\ frames[f].step = 0
    BY <1>1 DEF SpawnNoop, At, Me
<1>3. Runs(w, f) /\ My(w) = frames[f] /\ f = Main
    BY <1>1, <1>2, Running DEF Runs
<1>4. frames[f].spawned = 0
    BY <1>2, <1>3 DEF LoopInv, TreeOK
<1>5. /\ after.function = "main" /\ after.step = 1 /\ after.spawned = 1
      /\ after.low = frames[f].low /\ after.high = frames[f].high
      /\ after.join = frames[f].join /\ after.unsynched = frames[f].unsynched
      /\ after.suspended = frames[f].suspended
      /\ after.spawn_helper_pedigree = frames[f].spawn_helper_pedigree
      /\ DOMAIN after = Fields
    BY <1>0, <1>1, <1>2, <1>3 DEF Runs, FrameOK, Fields
<1>6. Alike(after, frames[f])
    BY <1>3, <1>5 DEF Runs, FrameOK, Alike
<1>7. PICK child : child = Frame("noop", 0, 0, pedigree[w])
    OBVIOUS
<1>8. /\ Fresh(child) /\ child.function = "noop" /\ child.step = 0
      /\ child.spawn_helper_pedigree = pedigree[w] /\ child.suspended = <<>>
    BY <1>7, NewFrame
<1>9. /\ Spawn(w, child, after) /\ kind' = kind /\ ran' = ran
      /\ loop_root_pedigree' = loop_root_pedigree
    BY <1>0, <1>1, <1>7 DEF SpawnNoop
<1>10. PICK c : c = Append(f, after.spawned)
    OBVIOUS
<1>11. Spawns(w, f, c, after, child)
  <2>1. ran' \in [0..(Count - 1) -> Nat] /\ after.spawned = frames[f].spawned + 1
    <3>1. ran' \in [0..(Count - 1) -> Nat]
        BY <1>9 DEF LoopInv, TypeOK
    <3>2. after.spawned = frames[f].spawned + 1
        BY <1>4, <1>5
    <3> QED
        BY <3>1, <3>2
  <2>2. TypeOK /\ TreeOK /\ HoldersOK /\ JoinsOK
    BY DEF LoopInv
  <2> QED
    BY <2>1, <2>2, <1>1, <1>2, <1>6, <1>8, <1>9, <1>10, Spawning
<1>12. pedigree[w] = X
  <2>1. AddToRank(X, 0) = X
    <3>1. PICK i : i = 0
        OBVIOUS
    <3>2. i \in Int
        BY <3>1
    <3> QED
        BY <3>2, Ranks
  <2> QED
    BY <2>1, <1>2, <1>3 DEF Runs, Serial
<1>13. PedigreesOK'
  <2>1. AtSpawn(after, pedigree[w])
    BY <1>5, <1>12 DEF AtSpawn
  <2>2. Serial(child, <<0>> \o pedigree[w])
    BY <1>8 DEF Serial
  <2>3. GoesOn(frames[f], after)
    BY <1>2, <1>5 DEF GoesOn
  <2> QED
    BY <2>1, <2>2, <2>3, <1>1, <1>2, <1>5, <1>8, <1>9, <1>11, <1>12, SpawnPedigrees
<1>14. /\ Grows(f, {c}) /\ frames'[c] = child /\ Last(c) = 1
       /\ frames'[f].function = "main" /\ frames'[f].step = 1 /\ frames'[f].spawned = 1
    BY <1>5, <1>11 DEF Spawns
<1>15. TreeOK'
  <2>1. \A g \in {c} : IsChild(frames'[f], Last(g), frames'[g])
    BY <1>8, <1>14 DEF IsChild
  <2>2. \A g \in Alive : g # Main /\ Front(g) = f /\ Last(g) # 0 /\ IsChild(frames[f], Last(g), frames[g])
          => IsChild(frames'[f], Last(g), frames[g])
    BY <1>2 DEF IsChild
  <2>3. frames'[f].function = frames[f].function /\ frames[f].function # "kid" /\ frames'[f].step # 0
    BY <1>2, <1>14
  <2>4. Keeps(f, {c})
    BY <2>1, <2>2, <2>3 DEF Keeps
  <2> QED
    BY <2>4, <1>14, TreeGrows DEF LoopInv
<1>16. IterationsOK'
  <2>1. RangeOK(frames'[f]) /\ \A g \in {c} : RangeOK(frames'[g])
    BY <1>8, <1>14 DEF RangeOK
  <2>2. Todo(frames'[f]) = Todo(frames[f]) /\ \A g \in {c} : Todo(frames'[g]) = {}
    BY <1>2, <1>8, <1>14 DEF Todo
  <2> QED
    BY <2>1, <2>2, <1>9, <1>14, TodoGrows DEF LoopInv
<1> QED
    BY <1>11, <1>13, <1>15, <1>16 DEF LoopInv, Spawns

(* The spawn of a half.  With the manual sync of gcc's builds the upper     *)
(* half is lost here and the lower one is executed twice.                   *)
LEMMA SpawnHalfKeeps ==
    ASSUME LoopAssumption, Kinds \subseteq {"plain", "numa"}, LoopInv, NEW w \in Workers, SpawnHalf(w)
    PROVE  LoopInv'
<1>1. PICK f : f = Me(w)
    OBVIOUS
<1>2. /\ stack[w] # <<>> /\ frames[f].function = "range" /\ frames[f].step = 0
    BY <1>1 DEF SpawnHalf, At, Me
<1>3. Runs(w, f) /\ My(w) = frames[f] /\ f # Main
    BY <1>1, <1>2, Running DEF Runs
<1>4. PICK r : r = frames[f]
    OBVIOUS
<1>5. /\ r.low \in Int /\ r.high \in Int /\ r.spawned \in Nat /\ DOMAIN r = Fields
      /\ r.function = "range" /\ r.step = 0 /\ My(w) = r
    BY <1>2, <1>3, <1>4 DEF Runs, FrameOK
<1>6. PICK mid : mid = r.low + (r.high - r.low) \div 2
    OBVIOUS
<1>7. mid \in Int /\ r.low < mid /\ mid < r.high
  <2>1. r.high - r.low > Grain
    BY <1>5 DEF SpawnHalf
  <2>2. PICK d : d = r.high - r.low
    OBVIOUS
  <2>3. d \in Int /\ d >= 2 /\ d \div 2 \in Int /\ d \div 2 >= 1 /\ d \div 2 < d
    <3>1. d \in Int /\ d >= 2
        BY <2>1, <2>2, <1>5 DEF LoopAssumption
    <3> QED
        BY <3>1
  <2>4. mid = r.low + d \div 2 /\ r.high = r.low + d
    BY <2>2, <1>5, <1>6
  <2> QED
    BY <2>3, <2>4, <1>5
<1>8. PICK upper \in BOOLEAN : upper <=> kind # "plain" /\ w >= mid
    OBVIOUS
<1>9. upper => kind = "numa"
    BY <1>8 DEF LoopInv, TypeOK
<1>10. PICK child : child = IF upper THEN Frame("range", mid, r.high, pedigree[w])
                                     ELSE Frame("range", r.low, mid, pedigree[w])
    OBVIOUS
<1>11. PICK rest : rest = IF upper THEN [r EXCEPT !.high = mid] ELSE [r EXCEPT !.low = mid]
    OBVIOUS
<1>12. PICK after : after = [rest EXCEPT !.spawned = rest.spawned + 1]
    OBVIOUS
<1>13. /\ Spawn(w, child, after) /\ kind' = kind /\ ran' = ran
       /\ loop_root_pedigree' = loop_root_pedigree
    BY <1>5, <1>6, <1>8, <1>9, <1>10, <1>11, <1>12 DEF SpawnHalf
<1>14. /\ rest.spawned = r.spawned /\ DOMAIN rest = Fields
       /\ rest.function = "range" /\ rest.step = 0
       /\ rest.join = r.join /\ rest.unsynched = r.unsynched /\ rest.suspended = r.suspended
       /\ rest.spawn_helper_pedigree = r.spawn_helper_pedigree
       /\ upper => rest.low = r.low /\ rest.high = mid
       /\ ~upper => rest.low = mid /\ rest.high = r.high
  <2>1. CASE upper
    BY <2>1, <1>5, <1>11 DEF Fields
  <2>2. CASE ~upper
    BY <2>2, <1>5, <1>11 DEF Fields
  <2> QED
    BY <2>1, <2>2
<1>15. /\ after.function = "range" /\ after.step = 0 /\ after.spawned = r.spawned + 1
       /\ after.low = rest.low /\ after.high = rest.high
       /\ after.join = r.join /\ after.unsynched = r.unsynched
       /\ after.suspended = r.suspended
       /\ after.spawn_helper_pedigree = r.spawn_helper_pedigree
       /\ DOMAIN after = Fields
    BY <1>12, <1>14 DEF Fields
<1>16. Alike(after, r)
  <2>1. rest.low \in Int /\ rest.high \in Int
    BY <1>5, <1>7, <1>8, <1>14
  <2>2. FrameOK(r)
    BY <1>3, <1>4 DEF Runs
  <2> QED
    BY <2>1, <2>2, <1>5, <1>15 DEF FrameOK, Alike
<1>17. /\ Fresh(child) /\ child.function = "range" /\ child.step = 0 /\ child.suspended = <<>>
       /\ upper => child.low = mid /\ child.high = r.high
       /\ ~upper => child.low = r.low /\ child.high = mid
  <2>1. CASE upper
    <3>1. child = Frame("range", mid, r.high, pedigree[w])
        BY <2>1, <1>10
    <3> QED
        BY <3>1, <2>1, <1>5, <1>7, NewFrame
  <2>2. CASE ~upper
    <3>1. child = Frame("range", r.low, mid, pedigree[w])
        BY <2>2, <1>10
    <3> QED
        BY <3>1, <2>2, <1>5, <1>7, NewFrame
  <2> QED
    BY <2>1, <2>2
<1>18. PICK c : c = Append(f, after.spawned)
    OBVIOUS
<1>19. Spawns(w, f, c, after, child)
  <2>1. ran' \in [0..(Count - 1) -> Nat]
    BY <1>13 DEF LoopInv, TypeOK
  <2>2. after.spawned = frames[f].spawned + 1 /\ Alike(after, frames[f])
    BY <1>4, <1>15, <1>16
  <2>3. TypeOK /\ TreeOK /\ HoldersOK /\ JoinsOK
    BY DEF LoopInv
  <2> QED
    BY <2>1, <2>2, <2>3, <1>1, <1>2, <1>13, <1>17, <1>18, Spawning
<1>20. PedigreesOK'
  <2>1. AtSpawn(after, pedigree[w])
    BY <1>15 DEF AtSpawn
  <2>2. Serial(child, <<0>> \o pedigree[w])
    BY <1>17 DEF Serial
  <2>3. after.function = "range" /\ after.spawn_helper_pedigree = frames[f].spawn_helper_pedigree
    BY <1>4, <1>15
  <2>4. GoesOn(frames[f], after)
    BY <2>3, <1>2, <1>3, <1>4 DEF GoesOn
  <2> QED
    BY <2>1, <2>2, <2>3, <2>4, <1>1, <1>2, <1>3, <1>13, <1>17, <1>19, SpawnPedigrees
<1>21. /\ Grows(f, {c}) /\ frames'[c] = child /\ Last(c) = r.spawned + 1
       /\ frames'[f].function = "range" /\ frames'[f].step = 0 /\ frames'[f].spawned = r.spawned + 1
       /\ frames'[f].low = rest.low /\ frames'[f].high = rest.high
    BY <1>15, <1>19 DEF Spawns
<1>22. TreeOK'
  <2>1. \A g \in {c} : IsChild(frames'[f], Last(g), frames'[g])
    BY <1>5, <1>17, <1>21 DEF IsChild
  <2>2. \A g \in Alive : g # Main /\ Front(g) = f /\ Last(g) # 0 /\ IsChild(frames[f], Last(g), frames[g])
          => IsChild(frames'[f], Last(g), frames[g])
    BY <1>4, <1>5, <1>21 DEF IsChild
  <2>3. frames'[f].function = frames[f].function /\ frames[f].function # "kid" /\ f # Main
    BY <1>2, <1>3, <1>21
  <2>4. Keeps(f, {c})
    BY <2>1, <2>2, <2>3 DEF Keeps
  <2> QED
    BY <2>4, <1>21, TreeGrows DEF LoopInv
<1>23. IterationsOK'
  <2>1. RangeOK(frames'[f]) /\ \A g \in {c} : RangeOK(frames'[g])
    BY <1>5, <1>7, <1>14, <1>17, <1>21 DEF RangeOK
  <2>2. /\ Todo(frames[f]) = r.low..(r.high - 1)
        /\ Todo(frames'[f]) = rest.low..(rest.high - 1)
        /\ Todo(frames'[c]) = child.low..(child.high - 1)
    BY <1>4, <1>5, <1>17, <1>21 DEF Todo
  <2>3. \A i : /\ i \in Todo(frames[f]) <=> i \in Todo(frames'[f]) \/ i \in Todo(frames'[c])
               /\ i \in Todo(frames'[c]) => i \notin Todo(frames'[f])
    BY <2>2, <1>5, <1>7, <1>14, <1>17
  <2>4. \A i : i \in Todo(frames[f]) <=> i \in Todo(frames'[f]) \/ \E g \in {c} : i \in Todo(frames'[g])
    BY <2>3
  <2>5. \A g \in {c} : \A i \in Todo(frames'[g]) : i \notin Todo(frames'[f])
    BY <2>3
  <2> QED
    BY <2>1, <2>4, <2>5, <1>13, <1>21, TodoGrows DEF LoopInv
<1> QED
    BY <1>19, <1>20, <1>22, <1>23 DEF LoopInv, Spawns

(* An iteration that is left is one frame's, and has not started. *)
LEMMA Left ==
    ASSUME IterationsOK, NEW f \in Alive, NEW i \in Todo(frames[f])
    PROVE  /\ i \in 0..(Count - 1) /\ ran[i] = 0
           /\ \A g \in Alive : i \in Todo(frames[g]) => f = g
    BY DEF IterationsOK

(* An iteration starts. *)
LEMMA IterateKeeps ==
    ASSUME LoopInv, NEW w \in Workers, Iterate(w)
    PROVE  LoopInv'
<1>1. PICK f : f = Me(w)
    OBVIOUS
<1>2. /\ stack[w] # <<>> /\ frames[f].function = "body" /\ frames[f].step = 0
    BY <1>1 DEF Iterate, At, Me
<1>3. Runs(w, f) /\ My(w) = frames[f] /\ f # Main
    BY <1>1, <1>2, Running DEF Runs
<1>4. PICK r : r = frames[f]
    OBVIOUS
<1>5. /\ r.low \in Int /\ r.high \in Int /\ r.spawned \in Nat /\ DOMAIN r = Fields
      /\ r.function = "body" /\ r.step = 0 /\ My(w) = r /\ r.low < r.high
    BY <1>2, <1>3, <1>4 DEF Runs, FrameOK, RangeOK
<1>6. PICK child : child = Frame("kid", r.low, r.high, pedigree[w])
    OBVIOUS
<1>7. PICK after : after = [r EXCEPT !.step = 1, !.spawned = r.spawned + 1]
    OBVIOUS
<1>8. /\ Spawn(w, child, after) /\ kind' = kind /\ ran' = [ran EXCEPT ![r.low] = ran[r.low] + 1]
      /\ loop_root_pedigree' = loop_root_pedigree
    BY <1>5, <1>6, <1>7 DEF Iterate
<1>9. /\ after.function = "body" /\ after.step = 1 /\ after.spawned = r.spawned + 1
      /\ after.low = r.low /\ after.high = r.high
      /\ after.join = r.join /\ after.unsynched = r.unsynched
      /\ after.suspended = r.suspended
      /\ after.spawn_helper_pedigree = r.spawn_helper_pedigree
      /\ DOMAIN after = Fields
    BY <1>5, <1>7 DEF Fields
<1>10. Alike(after, r)
    BY <1>3, <1>4, <1>5, <1>9 DEF Runs, FrameOK, Alike
<1>11. /\ Fresh(child) /\ child.function = "kid" /\ child.step = 0 /\ child.suspended = <<>>
       /\ child.low = r.low /\ child.spawn_helper_pedigree = pedigree[w]
    BY <1>5, <1>6, NewFrame
<1>12. PICK c : c = Append(f, after.spawned)
    OBVIOUS
(* The iteration was the frame's, and not started. *)
<1>13. PICK n : n = r.low
    OBVIOUS
<1>14. Todo(frames[f]) = n..(r.high - 1) /\ n \in Todo(frames[f])
    BY <1>4, <1>5, <1>13 DEF Todo
<1>15. n \in 0..(Count - 1) /\ ran[n] = 0 /\ n \in Int
  <2>1. f \in Alive /\ n \in Int
    BY <1>3, <1>5, <1>13 DEF Runs
  <2> QED
    BY <2>1, <1>14, Left DEF LoopInv
<1>16. /\ ran'[n] = 1 /\ \A i \in 0..(Count - 1) : i # n => ran'[i] = ran[i]
       /\ ran' \in [0..(Count - 1) -> Nat]
    BY <1>8, <1>13, <1>15 DEF LoopInv, TypeOK
<1>17. Spawns(w, f, c, after, child)
  <2>1. after.spawned = frames[f].spawned + 1 /\ Alike(after, frames[f])
    BY <1>4, <1>9, <1>10
  <2>2. TypeOK /\ TreeOK /\ HoldersOK /\ JoinsOK
    BY DEF LoopInv
  <2> QED
    BY <2>1, <2>2, <1>1, <1>2, <1>8, <1>11, <1>12, <1>16, Spawning
<1>18. PedigreesOK'
  <2>1. pedigree[w] = <<0, n>> \o X
    <3>1. Serial(r, pedigree[w])
        BY <1>3, <1>4 DEF Runs
    <3> QED
        BY <3>1, <1>5, <1>13 DEF Serial
  <2>2. AtSpawn(after, pedigree[w])
    BY <2>1, <1>9, <1>13 DEF AtSpawn
  <2>3. <<0>> \o pedigree[w] = <<0, 0, n>> \o X
    BY <2>1, <1>15, Ranks
  <2>4. Serial(child, <<0>> \o pedigree[w])
    BY <2>3, <1>11, <1>13 DEF Serial
  <2>5. child.function = "kid" /\ child.spawn_helper_pedigree = <<0, child.low>> \o X
    BY <2>1, <1>11, <1>13
  <2>6. /\ after.function = frames[f].function /\ after.low = frames[f].low
        /\ after.spawn_helper_pedigree = frames[f].spawn_helper_pedigree
        /\ after.function = "body"
    BY <1>2, <1>4, <1>9
  <2>7. GoesOn(frames[f], after)
    BY <2>6 DEF GoesOn
  <2> QED
    BY <2>2, <2>4, <2>5, <2>6, <2>7, <1>1, <1>2, <1>3, <1>8, <1>11, <1>17, SpawnPedigrees
<1>19. /\ Grows(f, {c}) /\ frames'[c] = child /\ Last(c) = r.spawned + 1
       /\ frames'[f].function = "body" /\ frames'[f].step = 1 /\ frames'[f].spawned = r.spawned + 1
       /\ frames'[f].low = r.low /\ frames'[f].high = r.high
    BY <1>9, <1>17 DEF Spawns
<1>20. TreeOK'
  <2>1. \A g \in {c} : IsChild(frames'[f], Last(g), frames'[g])
    BY <1>5, <1>11, <1>19 DEF IsChild
  <2>2. \A g \in Alive : g # Main /\ Front(g) = f /\ Last(g) # 0 /\ IsChild(frames[f], Last(g), frames[g])
          => IsChild(frames'[f], Last(g), frames[g])
    BY <1>2 DEF IsChild
  <2>3. frames'[f].function = frames[f].function /\ frames[f].function # "kid" /\ f # Main
    BY <1>2, <1>3, <1>19
  <2>4. Keeps(f, {c})
    BY <2>1, <2>2, <2>3 DEF Keeps
  <2> QED
    BY <2>4, <1>19, TreeGrows DEF LoopInv
<1>21. IterationsOK'
  <2>1. /\ f \in Alive /\ Alive' = Alive \cup {c} /\ c \notin Alive
        /\ \A g \in Alive \ {f} : frames'[g] = frames[g]
    BY <1>19 DEF Grows, IsHead
  <2>2. Todo(frames'[f]) = (n + 1)..(r.high - 1) /\ Todo(frames'[c]) = {}
    BY <1>11, <1>13, <1>19 DEF Todo
  <2>3. \A i : i \in Todo(frames[f]) <=> i = n \/ i \in Todo(frames'[f])
    BY <2>2, <1>5, <1>13, <1>14
  <2>4. n \notin Todo(frames'[f])
    BY <2>2, <1>15
  <2>5. ASSUME NEW g \in Alive', NEW i \in Todo(frames'[g])
        PROVE  g \in Alive /\ i \in Todo(frames[g]) /\ i # n
    <3>1. g # c
        BY <2>2, <2>5
    <3>2. g \in Alive /\ i \in Todo(frames[g])
        BY <3>1, <2>1, <2>3, <2>5
    <3>3. CASE g = f
        BY <3>2, <3>3, <2>4, <2>5
    <3>4. CASE g # f
      <4>1. n \in Todo(frames[f]) /\ f \in Alive /\ IterationsOK
        BY <2>1, <1>14 DEF LoopInv
      <4>2. n \notin Todo(frames[g])
        BY <4>1, <3>2, <3>4, Left
      <4> QED
        BY <4>2, <3>2
    <3> QED
        BY <3>2, <3>3, <3>4
  <2>6. ASSUME NEW g \in Alive' PROVE RangeOK(frames'[g])
    <3>1. CASE g = f
        BY <3>1, <1>5, <1>19 DEF RangeOK
    <3>2. CASE g = c
        BY <3>2, <1>11, <1>19 DEF RangeOK
    <3>3. CASE g \in Alive \ {f}
        BY <3>3, <2>1 DEF LoopInv, IterationsOK, RangeOK
    <3> QED
        BY <3>1, <3>2, <3>3, <2>1
  <2>7. ASSUME NEW g \in Alive', NEW i \in Todo(frames'[g]) PROVE i \in 0..(Count - 1) /\ ran'[i] = 0
    <3>1. g \in Alive /\ i \in Todo(frames[g]) /\ i # n
        BY <2>5, <2>7
    <3>2. i \in 0..(Count - 1) /\ ran[i] = 0
        BY <3>1 DEF LoopInv, IterationsOK
    <3> QED
        BY <3>1, <3>2, <1>16
  <2>8. ASSUME NEW g \in Alive', NEW h \in Alive', NEW i \in Todo(frames'[g]), i \in Todo(frames'[h])
        PROVE  g = h
    <3>1. /\ g \in Alive /\ i \in Todo(frames[g])
          /\ h \in Alive /\ i \in Todo(frames[h])
        BY <2>5, <2>8
    <3> QED
        BY <3>1 DEF LoopInv, IterationsOK
  <2>9. ASSUME NEW i \in 0..(Count - 1)
        PROVE  ran'[i] = 1 \/ (ran'[i] = 0 /\ \E g \in Alive' : i \in Todo(frames'[g]))
    <3>1. CASE i = n
        BY <3>1, <1>16
    <3>2. CASE i # n
      <4>1. ran'[i] = ran[i]
        BY <3>2, <1>16
      <4>2. CASE ran[i] = 1
        BY <4>1, <4>2
      <4>3. CASE ran[i] = 0 /\ \E g \in Alive : i \in Todo(frames[g])
        <5>1. PICK g \in Alive : i \in Todo(frames[g])
            BY <4>3
        <5>2. g \in Alive' /\ i \in Todo(frames'[g])
            BY <5>1, <3>2, <2>1, <2>3
        <5> QED
            BY <5>2, <4>1, <4>3
      <4> QED
        BY <4>2, <4>3 DEF LoopInv, IterationsOK
    <3> QED
        BY <3>1, <3>2
  <2> QED
    BY <2>6, <2>7, <2>8, <2>9 DEF IterationsOK, RangeOK
<1> QED
    BY <1>17, <1>18, <1>20, <1>21 DEF LoopInv, Spawns

(* A call keeps the pedigrees in order. *)
LEMMA CallPedigrees ==
    ASSUME LoopInv, NEW w \in Workers, stack[w] # <<>>, NEW f, f = Me(w),
           NEW after, NEW callee, NEW c, Calls(w, f, c, after, callee),
           after.function = frames[f].function, after.suspended = <<>>,
           frames[f].function \in {"main", "range"},
           callee.function \in {"range", "body"}, callee.suspended = <<>>,
           frames[Main].step >= 2 => frames'[Main].step >= 2,
           frames'[Main].step >= 2, loop_root_pedigree' = X,
           Serial(callee, pedigree'[w])
    PROVE  PedigreesOK'
<1>1. Runs(w, f)
    BY Running
<1>2. /\ frames'[c] = callee /\ Grows(f, {c}) /\ c \notin Alive /\ frames'[f] = after
      /\ \A g : InDeque(g)' <=> InDeque(g)
    BY DEF Calls, Grows
<1>3. PedigreeOK(f)'
    BY <1>1, <1>2 DEF Runs, PedigreeOK
<1>4. PedigreeOK(c)'
  <2>1. ~InDeque(c)
    BY <1>2, Tops DEF InDeque, LoopInv
  <2> QED
    BY <2>1, <1>2 DEF PedigreeOK
<1>5. Serial(My(w), pedigree[w])'
  <2>1. My(w)' = callee
    BY <1>2 DEF Calls, My
  <2> QED
    BY <2>1 DEF Serial
<1>6. \A v \in Workers \ {w} : stack'[v] = stack[v] /\ pedigree'[v] = pedigree[v]
    BY DEF Calls
<1>7. \A g \in {c} : PedigreeOK(g)'
    BY <1>4
<1> QED
    BY <1>2, <1>3, <1>5, <1>6, <1>7, PedigreesGrow DEF LoopInv

(* The loop is entered. *)
LEMMA EnterLoopKeeps ==
    ASSUME LoopAssumption, LoopInv, NEW w \in Workers, EnterLoop(w)
    PROVE  LoopInv'
<1>1. PICK f : f = Me(w)
    OBVIOUS
<1>2. /\ stack[w] # <<>> /\ frames[f].function = "main" /\ frames[f].step = 1
    BY <1>1 DEF EnterLoop, At, Me
<1>3. Runs(w, f) /\ My(w) = frames[f] /\ f = Main
    BY <1>1, <1>2, Running DEF Runs
<1>4. PICK r : r = frames[f]
    OBVIOUS
<1>5. /\ r.low \in Int /\ r.high \in Int /\ r.spawned \in Nat /\ DOMAIN r = Fields
      /\ r.function = "main" /\ r.step = 1 /\ My(w) = r /\ r.suspended = <<>>
    BY <1>2, <1>3, <1>4 DEF Runs, FrameOK
<1>6. PICK callee : callee = Frame("range", 0, Count, <<>>)
    OBVIOUS
<1>7. PICK after : after = [r EXCEPT !.step = 2]
    OBVIOUS
<1>8. PICK p : p = AddToRank(pedigree[w], -1)
    OBVIOUS
<1>9. /\ Call(w, callee, after) /\ kind' = kind /\ ran' = ran /\ deque' = deque
      /\ loop_root_pedigree' = p /\ SetPedigree(w, p)
    BY <1>5, <1>6, <1>7, <1>8 DEF EnterLoop
<1>10. /\ after.function = "main" /\ after.step = 2 /\ after.spawned = r.spawned
       /\ after.low = r.low /\ after.high = r.high
       /\ after.join = r.join /\ after.unsynched = r.unsynched
       /\ after.suspended = r.suspended
       /\ DOMAIN after = Fields
    BY <1>5, <1>7 DEF Fields
<1>11. Alike(after, r)
    BY <1>3, <1>4, <1>5, <1>10 DEF Runs, FrameOK, Alike
<1>12. Count \in Int /\ Count > 0
    BY DEF LoopAssumption
<1>13. /\ Fresh(callee) /\ callee.function = "range" /\ callee.step = 0 /\ callee.suspended = <<>>
       /\ callee.low = 0 /\ callee.high = Count
    BY <1>6, <1>12, NewFrame
<1>14. PICK c : c = Append(f, 0)
    OBVIOUS
<1>15. Calls(w, f, c, after, callee)
  <2>1. after.spawned = frames[f].spawned /\ Alike(after, frames[f])
    BY <1>4, <1>10, <1>11
  <2>2. TypeOK /\ TreeOK /\ HoldersOK /\ JoinsOK
    BY DEF LoopInv
  <2> QED
    BY <2>1, <2>2, <1>1, <1>2, <1>9, <1>13, <1>14, Calling
<1>16. /\ Grows(f, {c}) /\ frames'[c] = callee /\ frames'[f] = after /\ Last(c) = 0
    BY <1>15 DEF Calls
<1>17. PedigreesOK'
  <2>1. pedigree[w] = AddToRank(X, 1)
    <3>1. Serial(r, pedigree[w])
        BY <1>3, <1>4 DEF Runs
    <3> QED
        BY <3>1, <1>5 DEF Serial
  <2>2. p = X
    <3>1. PICK i : i = 0
        OBVIOUS
    <3>2. i \in Int
        BY <3>1
    <3>3. AddToRank(AddToRank(X, 1), -1) = X
        BY <3>2, Ranks
    <3> QED
        BY <3>3, <2>1, <1>8
  <2>3. Serial(callee, pedigree'[w])
    BY <1>13 DEF Serial
  <2>4. frames'[Main].step >= 2
    BY <1>3, <1>10, <1>16
  <2>5. after.function = frames[f].function /\ after.suspended = <<>>
    BY <1>4, <1>5, <1>10
  <2>6. loop_root_pedigree' = X
    BY <2>2, <1>9
  <2> QED
    BY <2>3, <2>4, <2>5, <2>6, <1>1, <1>2, <1>13, <1>15, CallPedigrees
<1>18. TreeOK'
  <2>1. \A g \in {c} : IsChild(frames'[f], Last(g), frames'[g])
    BY <1>10, <1>13, <1>16 DEF IsChild
  <2>2. \A g \in Alive : g # Main /\ Front(g) = f /\ Last(g) # 0 /\ IsChild(frames[f], Last(g), frames[g])
          => IsChild(frames'[f], Last(g), frames[g])
    BY <1>4, <1>5, <1>10, <1>16 DEF IsChild
  <2>3. frames'[f].function = frames[f].function /\ frames[f].function # "kid" /\ frames'[f].step # 0
    BY <1>2, <1>10, <1>16
  <2>4. Keeps(f, {c})
    BY <2>1, <2>2, <2>3 DEF Keeps
  <2> QED
    BY <2>4, <1>16, TreeGrows DEF LoopInv
<1>19. IterationsOK'
  <2>1. RangeOK(frames'[f]) /\ \A g \in {c} : RangeOK(frames'[g])
    BY <1>10, <1>12, <1>13, <1>16 DEF RangeOK
  <2>2. /\ Todo(frames[f]) = 0..(Count - 1)
        /\ Todo(frames'[f]) = {}
        /\ Todo(frames'[c]) = 0..(Count - 1)
    BY <1>4, <1>5, <1>10, <1>13, <1>16 DEF Todo
  <2>4. \A i : i \in Todo(frames[f]) <=> i \in Todo(frames'[f]) \/ \E g \in {c} : i \in Todo(frames'[g])
    BY <2>2
  <2>5. \A g \in {c} : \A i \in Todo(frames'[g]) : i \notin Todo(frames'[f])
    BY <2>2
  <2> QED
    BY <2>1, <2>4, <2>5, <1>9, <1>16, TodoGrows DEF LoopInv
<1> QED
    BY <1>15, <1>17, <1>18, <1>19 DEF LoopInv, Calls

(* A range that is small enough is handed to the body. *)
LEMMA CallBodyKeeps ==
    ASSUME LoopInv, NEW w \in Workers, CallBody(w)
    PROVE  LoopInv'
<1>1. PICK f : f = Me(w)
    OBVIOUS
<1>2. /\ stack[w] # <<>> /\ frames[f].function = "range" /\ frames[f].step = 0
    BY <1>1 DEF CallBody, At, Me
<1>3. Runs(w, f) /\ My(w) = frames[f] /\ f # Main
    BY <1>1, <1>2, Running DEF Runs
<1>4. PICK r : r = frames[f]
    OBVIOUS
<1>5. /\ r.low \in Int /\ r.high \in Int /\ r.spawned \in Nat /\ DOMAIN r = Fields
      /\ r.function = "range" /\ r.step = 0 /\ My(w) = r /\ r.suspended = <<>> /\ r.low < r.high
    BY <1>2, <1>3, <1>4 DEF Runs, FrameOK, RangeOK
<1>6. PICK callee : callee = Frame("body", r.low, r.high, <<>>)
    OBVIOUS
<1>7. PICK after : after = [r EXCEPT !.step = 1, !.saved = Tail(pedigree[w])]
    OBVIOUS
<1>8. PICK p : p = <<0, r.low>> \o loop_root_pedigree
    OBVIOUS
<1>9. /\ Call(w, callee, after) /\ kind' = kind /\ ran' = ran /\ deque' = deque
      /\ loop_root_pedigree' = loop_root_pedigree /\ SetPedigree(w, p)
    BY <1>5, <1>6, <1>7, <1>8 DEF CallBody
<1>10. /\ after.function = "range" /\ after.step = 1 /\ after.spawned = r.spawned
       /\ after.low = r.low /\ after.high = r.high
       /\ after.join = r.join /\ after.unsynched = r.unsynched
       /\ after.suspended = r.suspended
       /\ DOMAIN after = Fields
    BY <1>5, <1>7 DEF Fields
<1>11. Alike(after, r)
    BY <1>3, <1>4, <1>5, <1>10 DEF Runs, FrameOK, Alike
<1>13. /\ Fresh(callee) /\ callee.function = "body" /\ callee.step = 0 /\ callee.suspended = <<>>
       /\ callee.low = r.low /\ callee.high = r.high
    BY <1>5, <1>6, NewFrame
<1>14. PICK c : c = Append(f, 0)
    OBVIOUS
<1>15. Calls(w, f, c, after, callee)
  <2>1. after.spawned = frames[f].spawned /\ Alike(after, frames[f])
    BY <1>4, <1>10, <1>11
  <2>2. TypeOK /\ TreeOK /\ HoldersOK /\ JoinsOK
    BY DEF LoopInv
  <2> QED
    BY <2>1, <2>2, <1>1, <1>2, <1>9, <1>13, <1>14, Calling
<1>16. /\ Grows(f, {c}) /\ frames'[c] = callee /\ frames'[f] = after /\ Last(c) = 0
    BY <1>15 DEF Calls
<1>17. PedigreesOK'
  <2>1. frames[Main].step >= 2 /\ loop_root_pedigree = X
    BY <1>2, <1>3 DEF Runs, PedigreeOK, LoopInv, PedigreesOK
  <2>2. p = <<0, r.low>> \o X
    BY <2>1, <1>8
  <2>3. Serial(callee, pedigree'[w])
    <3>1. pedigree'[w] = p
        BY <1>9 DEF SetPedigree, LoopInv, TypeOK
    <3> QED
        BY <3>1, <2>2, <1>13 DEF Serial
  <2>4. frames'[Main].step >= 2
    BY <2>1, <1>3, <1>16 DEF Grows, LoopInv, TreeOK
  <2>5. after.function = frames[f].function /\ after.suspended = <<>>
    BY <1>4, <1>5, <1>10
  <2>6. loop_root_pedigree' = X
    BY <2>1, <1>9
  <2> QED
    BY <2>3, <2>4, <2>5, <2>6, <1>1, <1>2, <1>13, <1>15, CallPedigrees
<1>18. TreeOK'
  <2>1. \A g \in {c} : IsChild(frames'[f], Last(g), frames'[g])
    BY <1>10, <1>13, <1>16 DEF IsChild
  <2>2. \A g \in Alive : g # Main /\ Front(g) = f /\ Last(g) # 0 /\ IsChild(frames[f], Last(g), frames[g])
          => IsChild(frames'[f], Last(g), frames[g])
    BY <1>4, <1>5, <1>10, <1>16 DEF IsChild
  <2>3. frames'[f].function = frames[f].function /\ frames[f].function # "kid" /\ f # Main
    BY <1>2, <1>3, <1>10, <1>16
  <2>4. Keeps(f, {c})
    BY <2>1, <2>2, <2>3 DEF Keeps
  <2> QED
    BY <2>4, <1>16, TreeGrows DEF LoopInv
<1>19. IterationsOK'
  <2>1. RangeOK(frames'[f]) /\ \A g \in {c} : RangeOK(frames'[g])
    BY <1>5, <1>10, <1>13, <1>16 DEF RangeOK
  <2>2. /\ Todo(frames[f]) = r.low..(r.high - 1)
        /\ Todo(frames'[f]) = {}
        /\ Todo(frames'[c]) = r.low..(r.high - 1)
    BY <1>4, <1>5, <1>10, <1>13, <1>16 DEF Todo
  <2>4. \A i : i \in Todo(frames[f]) <=> i \in Todo(frames'[f]) \/ \E g \in {c} : i \in Todo(frames'[g])
    BY <2>2
  <2>5. \A g \in {c} : \A i \in Todo(frames'[g]) : i \notin Todo(frames'[f])
    BY <2>2
  <2> QED
    BY <2>1, <2>4, <2>5, <1>9, <1>16, TodoGrows DEF LoopInv
<1> QED
    BY <1>15, <1>17, <1>18, <1>19 DEF LoopInv, Calls

(* A step of one frame: what is left to be shown of it. *)
LEMMA WorkKeeps ==
    ASSUME LoopInv, NEW w \in Workers, stack[w] # <<>>, NEW f, f = Me(w),
           NEW after, Works(w, f, after), Keeps(f, {}), ran' = ran,
           loop_root_pedigree' = loop_root_pedigree,
           RangeOK(after), Todo(after) = Todo(frames[f]),
           after.function = frames[f].function, after.suspended = frames[f].suspended,
           after.spawn_helper_pedigree = frames[f].spawn_helper_pedigree,
           frames[f].function # "kid",
           frames[f].function = "main" => (frames[f].step >= 2 <=> after.step >= 2),
           Serial(after, pedigree'[w])
    PROVE  LoopInv'
<1>1. Runs(w, f)
    BY Running
<1>2. /\ Grows(f, {}) /\ frames'[f] = after /\ Alive' = Alive /\ Me(w)' = f
      /\ \A g \in Alive \ {f} : frames'[g] = frames[g]
      /\ \A g : InDeque(g)' <=> InDeque(g)
    BY DEF Works, Grows
<1>3. frames[Main].step >= 2 <=> frames'[Main].step >= 2
    BY <1>1, <1>2 DEF Runs, LoopInv, TreeOK
<1>4. frames'[Main].step >= 2 => loop_root_pedigree' = X
    BY <1>3 DEF LoopInv, PedigreesOK
<1>5. PedigreeOK(f)'
    BY <1>1, <1>2, <1>3 DEF Runs, PedigreeOK
<1>6. Serial(My(w), pedigree[w])'
  <2>1. My(w)' = after
    BY <1>2 DEF My
  <2> QED
    BY <2>1 DEF Serial
<1>7. PedigreesOK'
  <2>1. \A v \in Workers \ {w} : stack'[v] = stack[v] /\ pedigree'[v] = pedigree[v]
    BY DEF Works
  <2>2. \A g \in {} : PedigreeOK(g)'
    OBVIOUS
  <2> QED
    BY <2>1, <2>2, <1>2, <1>3, <1>4, <1>5, <1>6, PedigreesGrow DEF LoopInv
<1>8. TreeOK'
    BY <1>2, TreeGrows DEF LoopInv
<1>9. IterationsOK'
    BY <1>2, TodoGrows DEF LoopInv
<1> QED
    BY <1>7, <1>8, <1>9 DEF LoopInv, Works

(* The loop has been left. *)
LEMMA LeaveLoopKeeps ==
    ASSUME LoopInv, NEW w \in Workers, LeaveLoop(w)
    PROVE  LoopInv'
<1>1. PICK f : f = Me(w)
    OBVIOUS
<1>2. /\ stack[w] # <<>> /\ frames[f].function = "main" /\ frames[f].step = 2
    BY <1>1 DEF LeaveLoop, At, Me
<1>3. Runs(w, f) /\ My(w) = frames[f] /\ f = Main
    BY <1>1, <1>2, Running DEF Runs
<1>4. PICK r : r = frames[f]
    OBVIOUS
<1>5. /\ r.low \in Int /\ r.high \in Int /\ r.spawned \in Nat /\ DOMAIN r = Fields
      /\ r.function = "main" /\ r.step = 2 /\ My(w) = r
    BY <1>2, <1>3, <1>4 DEF Runs, FrameOK
<1>6. PICK after : after = [r EXCEPT !.step = 3]
    OBVIOUS
<1>7. PICK p : p = AddToRank(loop_root_pedigree, 1)
    OBVIOUS
<1>8. /\ Becomes(w, after) /\ SetPedigree(w, p)
      /\ UNCHANGED <<kind, stack, deque, loop_root_pedigree, ran>>
    BY <1>5, <1>6, <1>7 DEF LeaveLoop, ToStep
<1>9. /\ after.function = "main" /\ after.step = 3 /\ after.spawned = r.spawned
      /\ after.low = r.low /\ after.high = r.high
      /\ after.join = r.join /\ after.unsynched = r.unsynched
      /\ after.suspended = r.suspended
      /\ after.spawn_helper_pedigree = r.spawn_helper_pedigree
      /\ DOMAIN after = Fields
    BY <1>5, <1>6 DEF Fields
<1>10. Alike(after, r)
    BY <1>3, <1>4, <1>5, <1>9 DEF Runs, FrameOK, Alike
<1>11. Works(w, f, after)
  <2>1. after.spawned = frames[f].spawned /\ Alike(after, frames[f])
    BY <1>4, <1>9, <1>10
  <2>2. TypeOK /\ TreeOK /\ HoldersOK /\ JoinsOK
    BY DEF LoopInv
  <2> QED
    BY <2>1, <2>2, <1>1, <1>2, <1>8, Working
<1>12. Keeps(f, {})
  <2>1. frames'[f] = after
    BY <1>11 DEF Works
  <2>2. \A g \in Alive : g # Main /\ Front(g) = f /\ Last(g) # 0 /\ IsChild(frames[f], Last(g), frames[g])
          => IsChild(frames'[f], Last(g), frames[g])
    BY <2>1, <1>4, <1>5, <1>9 DEF IsChild
  <2> QED
    BY <2>1, <2>2, <1>4, <1>5, <1>9 DEF Keeps
<1>13. RangeOK(after) /\ Todo(after) = Todo(frames[f])
    BY <1>4, <1>5, <1>9 DEF RangeOK, Todo
<1>14. Serial(after, pedigree'[w])
  <2>1. loop_root_pedigree = X
    BY <1>2, <1>3 DEF LoopInv, PedigreesOK
  <2>2. pedigree'[w] = AddToRank(X, 1)
    BY <2>1, <1>7, <1>8 DEF SetPedigree, LoopInv, TypeOK
  <2> QED
    BY <2>2, <1>9 DEF Serial
<1>15. /\ after.function = frames[f].function /\ after.suspended = frames[f].suspended
       /\ after.spawn_helper_pedigree = frames[f].spawn_helper_pedigree
       /\ frames[f].function # "kid" /\ (frames[f].step >= 2 <=> after.step >= 2)
    BY <1>4, <1>5, <1>9
<1> QED
    BY <1>1, <1>2, <1>8, <1>11, <1>12, <1>13, <1>14, <1>15, WorkKeeps

(* The body of a range has returned. *)
LEMMA AfterBodyKeeps ==
    ASSUME LoopInv, NEW w \in Workers, AfterBody(w)
    PROVE  LoopInv'
<1>1. PICK f : f = Me(w)
    OBVIOUS
<1>2. /\ stack[w] # <<>> /\ frames[f].function = "range" /\ frames[f].step = 1
    BY <1>1 DEF AfterBody, At, Me
<1>3. Runs(w, f) /\ My(w) = frames[f] /\ f # Main
    BY <1>1, <1>2, Running DEF Runs
<1>4. PICK r : r = frames[f]
    OBVIOUS
<1>5. /\ r.low \in Int /\ r.high \in Int /\ r.spawned \in Nat /\ DOMAIN r = Fields
      /\ r.function = "range" /\ r.step = 1 /\ My(w) = r
    BY <1>2, <1>3, <1>4 DEF Runs, FrameOK
<1>6. PICK after : after = [r EXCEPT !.step = 2]
    OBVIOUS
<1>7. PICK p : p = <<Head(pedigree[w])>> \o r.saved
    OBVIOUS
<1>8. /\ Becomes(w, after) /\ SetPedigree(w, p)
      /\ UNCHANGED <<kind, stack, deque, loop_root_pedigree, ran>>
    BY <1>5, <1>6, <1>7 DEF AfterBody, ToStep
<1>9. /\ after.function = "range" /\ after.step = 2 /\ after.spawned = r.spawned
      /\ after.low = r.low /\ after.high = r.high
      /\ after.join = r.join /\ after.unsynched = r.unsynched
      /\ after.suspended = r.suspended
      /\ after.spawn_helper_pedigree = r.spawn_helper_pedigree
      /\ DOMAIN after = Fields
    BY <1>5, <1>6 DEF Fields
<1>10. Alike(after, r)
    BY <1>3, <1>4, <1>5, <1>9 DEF Runs, FrameOK, Alike
<1>11. Works(w, f, after)
  <2>1. after.spawned = frames[f].spawned /\ Alike(after, frames[f])
    BY <1>4, <1>9, <1>10
  <2>2. TypeOK /\ TreeOK /\ HoldersOK /\ JoinsOK
    BY DEF LoopInv
  <2> QED
    BY <2>1, <2>2, <1>1, <1>2, <1>8, Working
<1>12. Keeps(f, {})
  <2>1. frames'[f] = after
    BY <1>11 DEF Works
  <2>2. \A g \in Alive : g # Main /\ Front(g) = f /\ Last(g) # 0 /\ IsChild(frames[f], Last(g), frames[g])
          => IsChild(frames'[f], Last(g), frames[g])
    BY <2>1, <1>4, <1>5, <1>9 DEF IsChild
  <2> QED
    BY <2>1, <2>2, <1>4, <1>5, <1>9 DEF Keeps
<1>13. RangeOK(after) /\ Todo(after) = Todo(frames[f])
    BY <1>4, <1>5, <1>9 DEF RangeOK, Todo
<1>14. Serial(after, pedigree'[w])
    BY <1>9 DEF Serial
<1>15. /\ after.function = frames[f].function /\ after.suspended = frames[f].suspended
       /\ after.spawn_helper_pedigree = frames[f].spawn_helper_pedigree
       /\ frames[f].function \notin {"kid", "main"}
    BY <1>4, <1>5, <1>9
<1> QED
    BY <1>1, <1>2, <1>8, <1>11, <1>12, <1>13, <1>14, <1>15, WorkKeeps

(* An iteration is over. *)
LEMMA BumpLoopRankKeeps ==
    ASSUME LoopInv, NEW w \in Workers, BumpLoopRank(w)
    PROVE  LoopInv'
<1>1. PICK f : f = Me(w)
    OBVIOUS
<1>2. /\ stack[w] # <<>> /\ frames[f].function = "body" /\ frames[f].step = 2
    BY <1>1 DEF BumpLoopRank, At, Me
<1>3. Runs(w, f) /\ My(w) = frames[f] /\ f # Main
    BY <1>1, <1>2, Running DEF Runs
<1>4. PICK r : r = frames[f]
    OBVIOUS
<1>5. /\ r.low \in Int /\ r.high \in Int /\ r.spawned \in Nat /\ DOMAIN r = Fields
      /\ r.function = "body" /\ r.step = 2 /\ My(w) = r
    BY <1>2, <1>3, <1>4 DEF Runs, FrameOK
<1>6. PICK after : after = [r EXCEPT !.low = r.low + 1,
                                     !.step = IF r.low + 1 < r.high THEN 0 ELSE 3]
    OBVIOUS
<1>7. PICK p : p = <<0>> \o AddToRank(Tail(pedigree[w]), 1)
    OBVIOUS
<1>8. /\ Becomes(w, after) /\ SetPedigree(w, p)
      /\ UNCHANGED <<kind, stack, deque, loop_root_pedigree, ran>>
    BY <1>5, <1>6, <1>7 DEF BumpLoopRank
<1>9. /\ after.function = "body" /\ after.spawned = r.spawned
      /\ after.low = r.low + 1 /\ after.high = r.high
      /\ after.join = r.join /\ after.unsynched = r.unsynched
      /\ after.suspended = r.suspended
      /\ after.spawn_helper_pedigree = r.spawn_helper_pedigree
      /\ DOMAIN after = Fields
      /\ after.step = IF r.low + 1 < r.high THEN 0 ELSE 3
    BY <1>5, <1>6 DEF Fields
<1>10. Alike(after, r)
    BY <1>3, <1>4, <1>5, <1>9 DEF Runs, FrameOK, Alike
<1>11. Works(w, f, after)
  <2>1. after.spawned = frames[f].spawned /\ Alike(after, frames[f])
    BY <1>4, <1>9, <1>10
  <2>2. TypeOK /\ TreeOK /\ HoldersOK /\ JoinsOK
    BY DEF LoopInv
  <2> QED
    BY <2>1, <2>2, <1>1, <1>2, <1>8, Working
<1>12. Keeps(f, {})
  <2>1. frames'[f] = after
    BY <1>11 DEF Works
  <2>2. \A g \in Alive : g # Main /\ Front(g) = f /\ Last(g) # 0 /\ IsChild(frames[f], Last(g), frames[g])
          => IsChild(frames'[f], Last(g), frames[g])
    BY <1>2 DEF IsChild
  <2> QED
    BY <2>1, <2>2, <1>3, <1>4, <1>5, <1>9 DEF Keeps
<1>13. RangeOK(after) /\ Todo(after) = Todo(frames[f])
  <2>1. RangeOK(after)
    BY <1>5, <1>9 DEF RangeOK
  <2>2. Todo(frames[f]) = (r.low + 1)..(r.high - 1)
    BY <1>4, <1>5 DEF Todo
  <2>3. CASE r.low + 1 < r.high
    <3>1. after.step = 0 /\ after.function = "body"
        BY <2>3, <1>9
    <3>2. Todo(after) = after.low..(after.high - 1)
        BY <3>1 DEF Todo
    <3> QED
        BY <2>1, <3>2, <2>2, <1>9
  <2>4. CASE ~(r.low + 1 < r.high)
    <3>1. Todo(after) = {}
        BY <2>4, <1>9 DEF Todo
    <3>2. \A i : i \notin (r.low + 1)..(r.high - 1)
        BY <2>4, <1>5
    <3>3. \A i : i \notin Todo(frames[f])
        BY <3>2, <2>2, Zenon
    <3>4. Todo(frames[f]) = {}
        BY <3>3
    <3> QED
        BY <2>1, <3>1, <3>4
  <2> QED
    BY <2>1, <2>3, <2>4
<1>14. Serial(after, pedigree'[w])
  <2>1. pedigree[w] = <<2, r.low>> \o X
    <3>1. Serial(r, pedigree[w])
        BY <1>3, <1>4 DEF Runs
    <3> QED
        BY <3>1, <1>5 DEF Serial
  <2>2. p = <<0, r.low + 1>> \o X
    BY <2>1, <1>5, <1>7, Ranks
  <2>3. pedigree'[w] = p
    BY <1>8 DEF SetPedigree, LoopInv, TypeOK
  <2>4. after.step = 0 \/ after.step = 3
    BY <1>9
  <2> QED
    BY <2>2, <2>3, <2>4, <1>9 DEF Serial
<1>15. /\ after.function = frames[f].function /\ after.suspended = frames[f].suspended
       /\ after.spawn_helper_pedigree = frames[f].spawn_helper_pedigree
       /\ frames[f].function \notin {"kid", "main"}
    BY <1>4, <1>5, <1>9
<1> QED
    BY <1>1, <1>2, <1>8, <1>11, <1>12, <1>13, <1>14, <1>15, WorkKeeps

(* A sync that need not wait. *)
LEMMA SyncDoneKeeps ==
    ASSUME LoopInv, NEW w \in Workers, SyncDone(w),
           At(w, "main", 3) \/ At(w, "range", 2) \/ At(w, "body", 1)
    PROVE  LoopInv'
<1>1. PICK f : f = Me(w)
    OBVIOUS
<1>2. /\ stack[w] # <<>>
      /\ \/ frames[f].function = "main" /\ frames[f].step = 3
         \/ frames[f].function = "range" /\ frames[f].step = 2
         \/ frames[f].function = "body" /\ frames[f].step = 1
    BY <1>1 DEF At, Me
<1>3. Runs(w, f) /\ My(w) = frames[f]
    BY <1>1, <1>2, Running
<1>4. PICK r : r = frames[f]
    OBVIOUS
<1>5. /\ r.low \in Int /\ r.high \in Int /\ r.spawned \in Nat /\ DOMAIN r = Fields
      /\ My(w) = r /\ r.step \in 0..4
      /\ \/ r.function = "main" /\ r.step = 3
         \/ r.function = "range" /\ r.step = 2
         \/ r.function = "body" /\ r.step = 1
    BY <1>2, <1>3, <1>4 DEF Runs, FrameOK
<1>6. PICK after : after = [r EXCEPT !.step = r.step + 1]
    OBVIOUS
<1>7. PICK p : p = AddToRank(pedigree[w], SyncRank(r))
    OBVIOUS
<1>8. /\ Becomes(w, after) /\ SetPedigree(w, p) /\ ~r.unsynched
      /\ UNCHANGED <<kind, stack, deque, loop_root_pedigree, ran>>
    BY <1>5, <1>6, <1>7 DEF SyncDone, ToStep
<1>9. /\ after.function = r.function /\ after.step = r.step + 1 /\ after.spawned = r.spawned
      /\ after.low = r.low /\ after.high = r.high
      /\ after.join = r.join /\ after.unsynched = r.unsynched
      /\ after.suspended = r.suspended
      /\ after.spawn_helper_pedigree = r.spawn_helper_pedigree
      /\ DOMAIN after = Fields
    BY <1>5, <1>6 DEF Fields
<1>10. Alike(after, r)
    BY <1>3, <1>4, <1>5, <1>9 DEF Runs, FrameOK, Alike
<1>11. Works(w, f, after)
  <2>1. after.spawned = frames[f].spawned /\ Alike(after, frames[f])
    BY <1>4, <1>9, <1>10
  <2>2. TypeOK /\ TreeOK /\ HoldersOK /\ JoinsOK
    BY DEF LoopInv
  <2> QED
    BY <2>1, <2>2, <1>1, <1>2, <1>8, Working
<1>12. Keeps(f, {})
  <2>1. frames'[f] = after
    BY <1>11 DEF Works
  <2>2. Orphans(f) = {}
    BY <1>3, <1>4, <1>8 DEF Runs, LoopInv, JoinsOK, JoinOK
  <2>3. Childless(f)
    BY <2>2, <1>3, NoChildren DEF Runs, LoopInv
  <2>4. after.step # 0 /\ frames[f].function # "kid"
    BY <1>4, <1>5, <1>9
  <2> QED
    BY <2>1, <2>3, <2>4, <1>4, <1>9 DEF Keeps, Childless
<1>13. RangeOK(after) /\ Todo(after) = Todo(frames[f])
  <2>1. RangeOK(r)
    BY <1>3, <1>4 DEF Runs
  <2> QED
    BY <2>1, <1>4, <1>5, <1>9 DEF RangeOK, Todo
<1>14. Serial(after, pedigree'[w])
  <2>1. Serial(r, pedigree[w])
    BY <1>3, <1>4 DEF Runs
  <2>2. pedigree'[w] = p
    BY <1>8 DEF SetPedigree, LoopInv, TypeOK
  <2>3. CASE r.function = "main" /\ r.step = 3
    <3>1. pedigree[w] = AddToRank(X, 1) /\ SyncRank(r) = 1
        BY <2>1, <2>3 DEF Serial, SyncRank
    <3>2. AddToRank(AddToRank(X, 1), 1) = AddToRank(X, 2)
        BY <1>5, Ranks
    <3>3. after.step = 4 /\ after.function = "main"
        BY <2>3, <1>9
    <3> QED
        BY <3>1, <3>2, <3>3, <2>2, <1>7 DEF Serial
  <2>4. CASE r.function = "range" /\ r.step = 2
    BY <2>4, <1>9 DEF Serial
  <2>5. CASE r.function = "body" /\ r.step = 1
    <3>1. pedigree[w] = <<1, r.low>> \o X /\ SyncRank(r) = 1
        BY <2>1, <2>5 DEF Serial, SyncRank
    <3>2. AddToRank(<<1, r.low>> \o X, 1) = <<2, r.low>> \o X
        BY <1>5, Ranks
    <3>3. after.step = 2 /\ after.function = "body" /\ after.low = r.low
        BY <2>5, <1>9
    <3> QED
        BY <3>1, <3>2, <3>3, <2>2, <1>7 DEF Serial
  <2> QED
    BY <2>3, <2>4, <2>5, <1>5
<1>15. /\ after.function = frames[f].function /\ after.suspended = frames[f].suspended
       /\ after.spawn_helper_pedigree = frames[f].spawn_helper_pedigree
       /\ frames[f].function # "kid"
       /\ frames[f].function = "main" => (frames[f].step >= 2 <=> after.step >= 2)
    BY <1>4, <1>5, <1>9
<1> QED
    BY <1>1, <1>2, <1>8, <1>11, <1>12, <1>13, <1>14, <1>15, WorkKeeps

-----------------------------------------------------------------------------
(* The steps that leave the loop as it is: returns, steals and waits.      *)
SamePedigrees(f) ==
    /\ SameWork(f)
    /\ frames'[f].suspended = frames[f].suspended
    /\ frames'[f].parent_pedigree = frames[f].parent_pedigree

(* What the other frames and the other workers keep. *)
LEMMA PedigreesStay ==
    ASSUME LoopInv, NEW w \in Workers, NEW f, Alive \ {f} \subseteq Alive', Alive' \subseteq Alive,
           Main \in Alive', \A g \in Alive' : SameWork(g),
           \A g \in Alive' \ {f} : SamePedigrees(g),
           \A g : InDeque(g)' => InDeque(g), f \in Alive' => PedigreeOK(f)',
           stack[w] # <<>> => f = Me(w), loop_root_pedigree' = loop_root_pedigree,
           \A v \in Workers \ {w} : stack'[v] = stack[v] /\ pedigree'[v] = pedigree[v],
           stack'[w] # <<>> => Serial(My(w), pedigree[w])',
           stack[w] = <<>> => f \in Alive'
    PROVE  PedigreesOK'
<1>1. SameWork(Main) /\ frames'[Main].step = frames[Main].step
    BY DEF SameWork
<1>2. frames'[Main].step >= 2 => loop_root_pedigree' = X
    BY <1>1 DEF LoopInv, PedigreesOK
<1>3. ASSUME NEW g \in Alive' PROVE PedigreeOK(g)'
  <2>1. CASE g = f
    BY <2>1, <1>3
  <2>2. CASE g # f
    <3>1. PedigreeOK(g) /\ SamePedigrees(g) /\ (InDeque(g)' => InDeque(g))
        BY <2>2, <1>3 DEF LoopInv, PedigreesOK
    <3> QED
        BY <3>1, <1>1, PedigreeKept DEF SamePedigrees
  <2> QED
    BY <2>1, <2>2
<1>4. ASSUME NEW v \in Workers, stack'[v] # <<>> PROVE Serial(My(v), pedigree[v])'
  <2>1. CASE v = w
    BY <2>1, <1>4
  <2>2. CASE v # w
    <3>1. stack'[v] = stack[v] /\ pedigree'[v] = pedigree[v] /\ stack[v] # <<>>
        BY <2>2, <1>4
    <3>2. Me(v) \in Alive
        BY <3>1, NotInDeque DEF LoopInv
    <3>3. Me(v) \in Alive'
      <4>1. CASE stack[w] = <<>>
        BY <4>1, <3>2
      <4>2. CASE stack[w] # <<>>
        <5>1. PICK i, j : i = Len(deque[v]) + 1 /\ j = Len(deque[w]) + 1
            OBVIOUS
        <5>2. i \in Slots(v) /\ Top(v, i) = Me(v) /\ j \in Slots(w) /\ Top(w, j) = f
            BY <3>1, <4>2, <5>1, Places DEF LoopInv
        <5>3. Me(v) # f
            BY <2>2, <5>2, Tops DEF LoopInv
        <5> QED
            BY <5>3, <3>2
      <4> QED
        BY <4>1, <4>2
    <3> QED
        BY <3>1, <3>3, OthersSerial DEF LoopInv
  <2> QED
    BY <2>1, <2>2
<1> QED
    BY <1>2, <1>3, <1>4 DEF PedigreesOK

(* Who returns, and to whom. *)
LEMMA Shape ==
    ASSUME LoopInv, NEW w \in Workers, stack[w] # <<>>, NEW f, f = Me(w), f # Main
    PROVE  /\ Len(stack[w]) = 1 => Last(f) # 0
           /\ Len(stack[w]) > 1 => Last(f) = 0
<1>1. Runs(w, f)
    BY Running
<1>2. PICK n : n = Len(deque[w]) + 1
    OBVIOUS
<1>3. n \in Slots(w) /\ Entry(w, n) = stack[w] /\ Top(w, n) = f
    BY <1>2, Places DEF LoopInv
<1>4. stack[w] = ChainOf(f)
    BY <1>3 DEF LoopInv, HoldersOK
<1>5. f # <<>>
    BY MainPath
<1>6. Last(f) # 0 => Len(stack[w]) = 1
    BY <1>4 DEF ChainOf
<1>7. Last(f) = 0 => Len(stack[w]) = 2 \/ Len(stack[w]) = 3
  <2>1. ASSUME Last(f) = 0
        PROVE  ChainOf(f) = <<f, Front(f)>> \/ ChainOf(f) = <<f, Front(f), Front(Front(f))>>
    BY <2>1, <1>5 DEF ChainOf
  <2> QED
    BY <2>1, <1>4
<1>8. PICK m : m = Len(stack[w])
    OBVIOUS
<1>9. (Last(f) # 0 => m = 1) /\ (Last(f) = 0 => m = 2 \/ m = 3)
    BY <1>6, <1>7, <1>8
<1>10. (m = 1 => Last(f) # 0) /\ (m > 1 => Last(f) = 0)
    BY <1>9
<1> QED
    BY <1>8, <1>10

(* A child finds its parent. *)
LEMMA PopKeeps ==
    ASSUME LoopInv, NEW w \in Workers, stack[w] # <<>>, deque[w] # <<>>,
           NEW f, f = Me(w), f # Main, Last(f) # 0, Childless(f), Todo(frames[f]) = {},
           Pops(w), frames' = Without(f),
           SetPedigree(w, AddToRank(frames[f].spawn_helper_pedigree, 1)),
           kind' = kind, loop_root_pedigree' = loop_root_pedigree, ran' = ran
    PROVE  LoopInv'
<1>1. Runs(w, f)
    BY Running
<1>2. Alive' = Alive \ {f} /\ \A g \in Alive' : frames'[g] = frames[g]
    BY DEF Without, Alive
<1>3. PICK n : n = Len(deque[w])
    OBVIOUS
<1>4. PICK p : p = Front(f)
    OBVIOUS
<1>5. /\ p = Top(w, n) /\ InDeque(p) /\ n \in 1..n
      /\ p \in Alive /\ p # f /\ IsChild(frames[p], Last(f), frames[f])
  <2>1. n \in Nat /\ n >= 1 /\ p = Top(w, n) /\ InDeque(p)
    BY <1>3, <1>4, Parents DEF LoopInv
  <2>2. p \in Alive /\ p # f /\ IsChild(frames[p], Last(f), frames[f])
    BY <1>1, <1>4, Parent DEF Runs, LoopInv
  <2> QED
    BY <2>1, <2>2
<1>6. /\ stack' \in [Workers -> Seq(Paths)] /\ deque' \in [Workers -> Seq(Seq(Paths))]
      /\ stack'[w] # <<>> /\ Elsewhere(w)
      /\ \A g : InDeque(g)' => InDeque(g)
    BY <1>3, Popped DEF LoopInv
<1>7. Me(w)' = p
  <2>1. stack' = [stack EXCEPT ![w] = Last(deque[w])] /\ deque[w] \in Seq(Seq(Paths))
    BY DEF Pops, LoopInv, TypeOK
  <2>2. stack'[w] = deque[w][n]
    BY <2>1, <1>3 DEF LoopInv, TypeOK, Last
  <2>3. Entry(w, n) = deque[w][n]
    BY <1>3, <1>5 DEF Entry
  <2> QED
    BY <2>2, <2>3, <1>5 DEF Me, Top
<1>8. /\ DOMAIN pedigree' = Workers /\ pedigree'[w] = AddToRank(frames[f].spawn_helper_pedigree, 1)
      /\ \A v \in Workers \ {w} : stack'[v] = stack[v] /\ pedigree'[v] = pedigree[v]
    BY <1>6 DEF SetPedigree, LoopInv, TypeOK, Elsewhere
<1>9. TypeOK'
  <2>1. Alive' \subseteq Paths /\ IsFiniteSet(Alive')
    BY <1>2, FS_Subset DEF LoopInv, TypeOK
  <2>2. \A g \in Alive' : FrameOK(frames'[g])
    BY <1>2 DEF LoopInv, TypeOK
  <2> QED
    BY <2>1, <2>2, <1>6, <1>8 DEF LoopInv, TypeOK
<1>10. HoldersOK' /\ JoinsOK'
  <2>1. HoldersOK'
    BY <1>2, PopHolders DEF LoopInv
  <2>2. JoinsOK'
    BY <1>2, PopJoins DEF LoopInv
  <2> QED
    BY <2>1, <2>2
<1>11. \A g \in Alive' : SameWork(g) /\ SamePedigrees(g)
    BY <1>2 DEF SameWork, SamePedigrees
<1>12. Main \in Alive'
    BY <1>2 DEF LoopInv, TreeOK
<1>13. TreeOK'
    BY <1>2, <1>11, <1>12, TreeStays DEF LoopInv
<1>14. IterationsOK'
    BY <1>2, <1>11, TodoStays DEF LoopInv
<1>15. PedigreesOK'
  <2>1. Serial(My(w), pedigree[w])'
    <3>1. My(w)' = frames[p]
        BY <1>2, <1>5, <1>7 DEF My
    <3>2. AtSpawn(frames[p], frames[p].parent_pedigree) /\ PedigreeOK(f)
        BY <1>1, <1>5 DEF LoopInv, PedigreesOK, PedigreeOK, Runs
    <3>3. PICK q : q = frames[p]
        OBVIOUS
    <3>4. CASE q.function = "range"
        BY <3>1, <3>3, <3>4 DEF Serial
    <3>5. CASE q.function = "body"
      <4>1. q.step = 1 /\ q.low \in Int
        BY <3>2, <3>3, <3>5, <1>5 DEF AtSpawn, LoopInv, TypeOK, FrameOK
      <4>2. frames[f].function = "kid" /\ frames[f].low = q.low
        BY <3>3, <3>5, <1>5 DEF IsChild
      <4>3. frames[f].spawn_helper_pedigree = <<0, q.low>> \o X
        BY <4>2, <3>2 DEF PedigreeOK
      <4>4. pedigree'[w] = <<1, q.low>> \o X
        BY <4>1, <4>3, <1>8, Ranks
      <4> QED
        BY <4>1, <4>4, <3>1, <3>3, <3>5 DEF Serial
    <3>6. CASE q.function = "main"
      <4>1. q.step = 1
        BY <3>2, <3>3, <3>6 DEF AtSpawn
      <4>2. frames[f].function = "noop"
        BY <3>3, <3>6, <1>5 DEF IsChild
      <4>3. frames[f].spawn_helper_pedigree = X
        BY <4>2, <3>2 DEF PedigreeOK
      <4> QED
        BY <4>1, <4>3, <1>8, <3>1, <3>3, <3>6 DEF Serial
    <3> QED
        BY <3>2, <3>3, <3>4, <3>5, <3>6 DEF AtSpawn
  <2> QED
    BY <2>1, <1>2, <1>6, <1>8, <1>11, <1>12, PedigreesStay
<1> QED
    BY <1>9, <1>10, <1>13, <1>14, <1>15 DEF LoopInv

(* A child whose parent was stolen joins it. *)
LEMMA JoinKeeps ==
    ASSUME LoopInv, NEW w \in Workers, stack[w] # <<>>, deque[w] = <<>>,
           NEW f, f = Me(w), f # Main, Last(f) # 0, Childless(f), Todo(frames[f]) = {},
           stack' = [stack EXCEPT ![w] = <<>>], deque' = deque,
           frames' = [Without(f) EXCEPT ![Front(f)].join = @ - 1],
           SetPedigree(w, AddToRank(frames[f].spawn_helper_pedigree, 1)),
           kind' = kind, loop_root_pedigree' = loop_root_pedigree, ran' = ran
    PROVE  LoopInv'
<1>1. Runs(w, f)
    BY Running
<1>2. PICK p : p = Front(f)
    OBVIOUS
<1>3. p \in Alive /\ p # f /\ FrameOK(frames[p])
    BY <1>1, <1>2, Parent DEF Runs, LoopInv, TypeOK
<1> DEFINE t == [frames[p] EXCEPT !.join = frames[p].join - 1]
<1>4. /\ t.function = frames[p].function /\ t.step = frames[p].step
      /\ t.low = frames[p].low /\ t.high = frames[p].high
      /\ t.spawned = frames[p].spawned /\ t.suspended = frames[p].suspended
      /\ t.unsynched = frames[p].unsynched
      /\ t.join = frames[p].join - 1
      /\ t.spawn_helper_pedigree = frames[p].spawn_helper_pedigree
      /\ t.parent_pedigree = frames[p].parent_pedigree
      /\ DOMAIN t = Fields
    BY <1>3 DEF FrameOK, Fields
<1>5. Alive' = Alive \ {f} /\ frames'[p] = t /\ \A g \in Alive' \ {p} : frames'[g] = frames[g]
  <2>1. DOMAIN Without(f) = Alive \ {f} /\ \A g \in Alive \ {f} : Without(f)[g] = frames[g]
    BY DEF Without, Alive
  <2>2. frames' = [Without(f) EXCEPT ![p] = [Without(f)[p] EXCEPT !.join = Without(f)[p].join - 1]]
    BY <1>2
  <2> QED
    BY <2>1, <2>2, <1>3 DEF Alive
<1> HIDE DEF t
<1>6. FrameOK(t)
  <2>1. t.unsynched \in BOOLEAN
    BY <1>3, <1>4, Zenon DEF FrameOK
  <2> QED
    BY <2>1, <1>3, <1>4 DEF FrameOK
<1>7. /\ stack' \in [Workers -> Seq(Paths)] /\ deque' \in [Workers -> Seq(Seq(Paths))]
      /\ stack'[w] = <<>> /\ Elsewhere(w)
      /\ \A g : InDeque(g)' => InDeque(g)
    BY Cleared DEF LoopInv
<1>8. /\ DOMAIN pedigree' = Workers
      /\ \A v \in Workers \ {w} : stack'[v] = stack[v] /\ pedigree'[v] = pedigree[v]
    BY <1>7 DEF SetPedigree, LoopInv, TypeOK, Elsewhere
<1>9. TypeOK'
  <2>1. Alive' \subseteq Paths /\ IsFiniteSet(Alive')
    BY <1>5, FS_Subset DEF LoopInv, TypeOK
  <2>2. \A g \in Alive' : FrameOK(frames'[g])
    BY <1>5, <1>6 DEF LoopInv, TypeOK
  <2> QED
    BY <2>1, <2>2, <1>7, <1>8 DEF LoopInv, TypeOK
<1>10. SameWork(p) /\ SamePedigrees(p) /\ frames'[p].suspended = frames[p].suspended
    BY <1>4, <1>5 DEF SameWork, SamePedigrees
<1>11. \A g \in Alive' : SameWork(g) /\ SamePedigrees(g)
    BY <1>5, <1>10 DEF SameWork, SamePedigrees
<1>12. HoldersOK'
  <2>1. \A g : IsHead(g) /\ g # f =>
              /\ IsHead(g)' /\ frames'[g].suspended = frames[g].suspended
              /\ frames'[g].spawned = frames[g].spawned
    BY <1>5, <1>11 DEF IsHead, SamePedigrees, SameWork
  <2>2. \A g \in Alive' : frames'[g].suspended # <<>> =>
              \/ g \in Alive /\ g # f /\ frames[g].suspended # <<>>
              \/ g = f /\ IsHead(f)' /\ frames'[g].suspended = ChainOf(f)
    BY <1>5, <1>11 DEF SamePedigrees
  <2>3. TypeOK /\ TreeOK /\ HoldersOK
    BY DEF LoopInv
  <2> QED
    BY <2>1, <2>2, <2>3, LeaveHolders
<1>13. JoinsOK'
  <2>1. Joins(f, p)
    BY <1>4, <1>5 DEF Joins
  <2> QED
    BY <2>1, <1>2, JoinJoins DEF LoopInv
<1>14. Main \in Alive' /\ Alive' \subseteq Alive
    BY <1>5 DEF LoopInv, TreeOK
<1>15. TreeOK'
    BY <1>5, <1>11, <1>14, TreeStays DEF LoopInv
<1>16. IterationsOK'
    BY <1>5, <1>11, <1>14, TodoStays DEF LoopInv
<1>17. PedigreesOK'
    BY <1>5, <1>7, <1>8, <1>11, <1>14, PedigreesStay
<1> QED
    BY <1>9, <1>12, <1>13, <1>15, <1>16, <1>17 DEF LoopInv

(* Returns. *)
LEMMA LeaveKeeps ==
    ASSUME LoopInv, NEW w \in Workers, Leave(w)
    PROVE  LoopInv'
<1>1. PICK f : f = Me(w)
    OBVIOUS
<1>2. /\ stack[w] # <<>>
      /\ \/ frames[f].function \in {"noop", "kid"} /\ frames[f].step = 0
         \/ frames[f].function \in {"range", "body"} /\ frames[f].step = 3
    BY <1>1 DEF Leave, At, Me
<1>3. Runs(w, f) /\ My(w) = frames[f] /\ f # Main
    BY <1>1, <1>2, Running DEF Runs
<1>4. Childless(f)
    BY <1>2, <1>3, NoChildren DEF Runs, LoopInv
<1>5. Todo(frames[f]) = {}
    BY <1>2 DEF Todo
<1>6. CASE /\ At(w, "noop", 0) \/ At(w, "kid", 0)
              \/ (At(w, "range", 3) /\ Len(stack[w]) = 1)
           /\ SpawnReturns(w)
           /\ UNCHANGED <<kind, loop_root_pedigree, ran>>
  <2>1. Last(f) # 0
    <3>1. CASE At(w, "noop", 0) \/ At(w, "kid", 0)
      <4>1. frames[f].function \in {"noop", "kid"}
        BY <3>1, <1>1 DEF At, Me
      <4>2. IsChild(frames[Front(f)], Last(f), frames[f])
        BY <1>3, Parent DEF Runs, LoopInv
      <4> QED
        BY <4>1, <4>2 DEF IsChild
    <3>2. CASE Len(stack[w]) = 1
        BY <3>2, <1>1, <1>2, <1>3, Shape
    <3> QED
        BY <3>1, <3>2, <1>6
  <2>2. SetPedigree(w, AddToRank(frames[f].spawn_helper_pedigree, 1))
    BY <1>1, <1>3, <1>6 DEF SpawnReturns
  <2>3. CASE deque[w] # <<>>
    <3>1. Pops(w) /\ frames' = Without(f)
        BY <1>1, <1>6, <2>3 DEF SpawnReturns, Pops
    <3> QED
        BY <3>1, <2>1, <2>2, <2>3, <1>1, <1>2, <1>3, <1>4, <1>5, <1>6, PopKeeps
  <2>4. CASE deque[w] = <<>>
    <3>1. /\ stack' = [stack EXCEPT ![w] = <<>>] /\ deque' = deque
          /\ frames' = [Without(f) EXCEPT ![Front(f)].join = @ - 1]
        BY <1>1, <1>6, <2>4 DEF SpawnReturns
    <3> QED
        BY <3>1, <2>1, <2>2, <2>4, <1>1, <1>2, <1>3, <1>4, <1>5, <1>6, JoinKeeps
  <2> QED
    BY <2>3, <2>4
<1>7. CASE /\ At(w, "body", 3) \/ (At(w, "range", 3) /\ Len(stack[w]) > 1)
           /\ ReturnFromCall(w)
           /\ UNCHANGED <<kind, deque, pedigree, loop_root_pedigree, ran>>
  <2>1. PICK p : p = Front(f)
    OBVIOUS
  <2>2. IsChild(frames[p], Last(f), frames[f]) /\ p \in Alive /\ p # f
    BY <2>1, <1>3, Parent DEF Runs, LoopInv
  <2>3. Last(f) = 0
    <3>1. CASE At(w, "body", 3)
      <4>1. frames[f].function = "body"
        BY <3>1, <1>1 DEF At, Me
      <4> QED
        BY <4>1, <2>2 DEF IsChild
    <3>2. CASE Len(stack[w]) > 1
        BY <3>2, <1>1, <1>2, <1>3, Shape
    <3> QED
        BY <3>1, <3>2, <1>7
  <2>4. /\ Alive' = Alive \ {f} /\ \A g \in Alive' : frames'[g] = frames[g]
        /\ TypeOK' /\ HoldersOK' /\ JoinsOK'
        /\ stack'[w] # <<>> /\ Me(w)' = p
        /\ \A v \in Workers \ {w} : stack'[v] = stack[v]
        /\ \A g : InDeque(g)' <=> InDeque(g)
    BY <2>1, <2>3, <1>1, <1>2, <1>3, <1>7, Returning DEF LoopInv
  <2>5. \A g \in Alive' : SameWork(g) /\ SamePedigrees(g)
    BY <2>4 DEF SameWork, SamePedigrees
  <2>6. Main \in Alive' /\ Alive' \subseteq Alive
    BY <2>4, <1>3 DEF LoopInv, TreeOK
  <2>7. TreeOK'
    BY <2>4, <2>5, <2>6, <1>4, TreeStays DEF LoopInv
  <2>8. IterationsOK'
    BY <2>4, <2>5, <2>6, <1>5, <1>7, TodoStays DEF LoopInv
  <2>9. Serial(My(w), pedigree[w])'
    <3>1. My(w)' = frames[p]
        BY <2>2, <2>4 DEF My
    <3>2. \/ frames[p].function = "main" /\ frames[p].step = 2
          \/ frames[p].function = "range"
        BY <2>2, <2>3 DEF IsChild
    <3> QED
        BY <3>1, <3>2 DEF Serial
  <2>10. PedigreesOK'
    BY <2>4, <2>5, <2>6, <2>9, <1>1, <1>2, <1>7, PedigreesStay
  <2> QED
    BY <2>4, <2>7, <2>8, <2>10 DEF LoopInv
<1> QED
    BY <1>6, <1>7 DEF Leave

(* A sync that waits. *)
LEMMA SuspendStays ==
    ASSUME LoopInv, NEW w \in Workers, Suspend(w),
           At(w, "main", 3) \/ At(w, "range", 2) \/ At(w, "body", 1)
    PROVE  LoopInv'
<1>1. PICK f : f = Me(w)
    OBVIOUS
<1>2. /\ stack[w] # <<>>
      /\ \/ frames[f].function = "main" /\ frames[f].step = 3
         \/ frames[f].function = "range" /\ frames[f].step = 2
         \/ frames[f].function = "body" /\ frames[f].step = 1
    BY <1>1 DEF At, Me
<1>3. Runs(w, f) /\ My(w) = frames[f]
    BY <1>1, <1>2, Running
<1>4. HoldersOK' /\ JoinsOK' /\ deque[w] = <<>>
    BY <1>2, SuspendKeeps DEF LoopInv
<1>5. PICK r : r = frames[f]
    OBVIOUS
<1>6. FrameOK(r) /\ My(w) = r
    BY <1>3, <1>5 DEF Runs
<1> DEFINE t == [r EXCEPT !.parent_pedigree = pedigree[w],
                          !.suspended = stack[w], !.join = r.join - 1]
<1>7. /\ t.function = r.function /\ t.step = r.step /\ t.low = r.low /\ t.high = r.high
      /\ t.spawned = r.spawned /\ t.suspended = stack[w] /\ t.unsynched = r.unsynched
      /\ t.join = r.join - 1 /\ t.spawn_helper_pedigree = r.spawn_helper_pedigree
      /\ t.parent_pedigree = pedigree[w] /\ DOMAIN t = Fields
    BY <1>6 DEF FrameOK, Fields
<1>8. frames' = [frames EXCEPT ![f] = t]
    BY <1>1, <1>6 DEF Suspend, Becomes
<1> HIDE DEF t
<1>9. f \in Alive /\ Alive' = Alive /\ frames'[f] = t /\ \A g \in Alive \ {f} : frames'[g] = frames[g]
    BY <1>3, <1>8, Updated DEF Runs
<1>10. FrameOK(t)
  <2>1. t.unsynched \in BOOLEAN
    BY <1>6, <1>7, Zenon DEF FrameOK
  <2> QED
    BY <2>1, <1>6, <1>7 DEF FrameOK
<1>11. stack' = [stack EXCEPT ![w] = <<>>] /\ UNCHANGED <<kind, deque, pedigree, loop_root_pedigree, ran>>
    BY DEF Suspend
<1>12. /\ stack' \in [Workers -> Seq(Paths)] /\ deque' \in [Workers -> Seq(Seq(Paths))]
       /\ stack'[w] = <<>> /\ Elsewhere(w)
       /\ \A g : InDeque(g)' <=> InDeque(g)
    BY <1>2, <1>4, <1>11, Cleared DEF LoopInv
<1>13. TypeOK'
  <2>1. \A g \in Alive' : FrameOK(frames'[g])
    BY <1>9, <1>10 DEF LoopInv, TypeOK
  <2> QED
    BY <2>1, <1>9, <1>11, <1>12 DEF LoopInv, TypeOK
<1>14. SameWork(f)
    BY <1>5, <1>7, <1>9 DEF SameWork
<1>15. \A g \in Alive' : SameWork(g) /\ (g # f => SamePedigrees(g))
    BY <1>9, <1>14 DEF SameWork, SamePedigrees
<1>16. Main \in Alive' /\ Alive' \subseteq Alive
    BY <1>9 DEF LoopInv, TreeOK
<1>17. TreeOK'
    BY <1>9, <1>15, <1>16, TreeStays DEF LoopInv
<1>18. IterationsOK'
    BY <1>9, <1>11, <1>15, <1>16, TodoStays DEF LoopInv
<1>19. PedigreeOK(f)'
  <2>1. AtSync(t, pedigree[w])
    <3>1. Serial(r, pedigree[w])
        BY <1>3, <1>5 DEF Runs
    <3>2. CASE r.function = "main" /\ r.step = 3
        BY <3>1, <3>2, <1>7 DEF Serial, AtSync
    <3>3. CASE r.function = "range" /\ r.step = 2
        BY <3>3, <1>7 DEF AtSync
    <3>4. CASE r.function = "body" /\ r.step = 1
        BY <3>1, <3>4, <1>7 DEF Serial, AtSync
    <3> QED
        BY <3>2, <3>3, <3>4, <1>2, <1>5
  <2>2. AtSync(frames'[f], frames'[f].parent_pedigree)
    BY <2>1, <1>7, <1>9
  <2>3. frames[Main].step >= 2 => frames'[Main].step >= 2
    BY <1>15, <1>16 DEF SameWork
  <2> QED
    BY <2>2, <2>3, <1>3, <1>12, <1>14 DEF Runs, PedigreeOK, SameWork, AtSync
<1>20. PedigreesOK'
  <2>1. \A v \in Workers \ {w} : stack'[v] = stack[v] /\ pedigree'[v] = pedigree[v]
    BY <1>11, <1>12 DEF Elsewhere
  <2> QED
    BY <2>1, <1>1, <1>2, <1>9, <1>11, <1>12, <1>15, <1>16, <1>19, PedigreesStay
<1> QED
    BY <1>4, <1>13, <1>17, <1>18, <1>20 DEF LoopInv

(* A worker goes on after a sync. *)
LEMMA ResumeStays ==
    ASSUME LoopInv, NEW w \in Workers, NEW f \in Alive, Resume(w, f)
    PROVE  LoopInv'
<1>1. HoldersOK' /\ JoinsOK' /\ Orphans(f) = {}
    BY ResumeKeeps DEF LoopInv
<1>2. PICK r : r = frames[f]
    OBVIOUS
<1>3. /\ stack[w] = <<>> /\ r.suspended # <<>> /\ FrameOK(r)
      /\ IsHead(f) /\ ~InDeque(f) /\ r.suspended = ChainOf(f) /\ f \in Paths
  <2>1. stack[w] = <<>> /\ r.suspended # <<>> /\ FrameOK(r) /\ f \in Paths
    BY <1>2 DEF Resume, LoopInv, TypeOK
  <2>2. IsHead(f) /\ ~InDeque(f) /\ r.suspended = ChainOf(f)
    BY <2>1, <1>2, NotInDeque DEF LoopInv, HoldersOK
  <2> QED
    BY <2>1, <2>2
<1>4. AtSync(r, r.parent_pedigree) /\ PedigreeOK(f) /\ RangeOK(r)
    BY <1>2, <1>3 DEF LoopInv, PedigreesOK, PedigreeOK, IterationsOK, RangeOK
<1>5. /\ \/ r.function = "main" /\ r.step = 3
         \/ r.function = "range" /\ r.step = 2
         \/ r.function = "body" /\ r.step = 1
      /\ r.low \in Int /\ r.spawned \in Nat /\ DOMAIN r = Fields
    BY <1>3, <1>4 DEF AtSync, FrameOK
<1> DEFINE t == [r EXCEPT !.join = 1, !.unsynched = FALSE, !.suspended = <<>>,
                          !.step = r.step + 1]
<1>6. /\ t.function = r.function /\ t.step = r.step + 1 /\ t.low = r.low /\ t.high = r.high
      /\ t.spawned = r.spawned /\ t.suspended = <<>> /\ t.unsynched = FALSE
      /\ t.join = 1 /\ t.spawn_helper_pedigree = r.spawn_helper_pedigree
      /\ DOMAIN t = Fields
    BY <1>5 DEF Fields
<1>7. frames' = [frames EXCEPT ![f] = t] /\ stack' = [stack EXCEPT ![w] = r.suspended]
      /\ SetPedigree(w, AddToRank(r.parent_pedigree, SyncRank(r)))
      /\ UNCHANGED <<kind, deque, loop_root_pedigree, ran>>
    BY <1>2 DEF Resume
<1> HIDE DEF t
<1>8. Alive' = Alive /\ frames'[f] = t /\ \A g \in Alive \ {f} : frames'[g] = frames[g]
    BY <1>7, Updated
<1>9. FrameOK(t)
  <2>1. t.unsynched \in BOOLEAN
    BY <1>6, Zenon
  <2> QED
    BY <2>1, <1>3, <1>5, <1>6 DEF FrameOK
<1>10. /\ stack' \in [Workers -> Seq(Paths)] /\ deque' \in [Workers -> Seq(Seq(Paths))]
       /\ stack'[w] # <<>> /\ Head(stack'[w]) = f /\ Elsewhere(w)
       /\ \A g : InDeque(g)' <=> InDeque(g)
  <2>1. PICK s : s = r.suspended
    OBVIOUS
  <2>2. s \in Seq(Paths) /\ s # <<>> /\ Head(s) = f
    BY <2>1, <1>3, Chains DEF LoopInv
  <2>3. deque[w] = <<>>
    BY <1>3 DEF LoopInv, HoldersOK
  <2>4. /\ stack' \in [Workers -> Seq(Paths)] /\ deque' \in [Workers -> Seq(Seq(Paths))]
        /\ stack'[w] = s /\ Elsewhere(w)
        /\ \A g : InDeque(g)' <=> InDeque(g)
    BY <2>1, <2>2, <2>3, <1>3, <1>7, Started DEF LoopInv
  <2> QED
    BY <2>2, <2>4
<1>11. /\ DOMAIN pedigree' = Workers /\ pedigree'[w] = AddToRank(r.parent_pedigree, SyncRank(r))
       /\ \A v \in Workers \ {w} : stack'[v] = stack[v] /\ pedigree'[v] = pedigree[v]
    BY <1>7, <1>10 DEF SetPedigree, LoopInv, TypeOK, Elsewhere
<1>12. \A g \in Alive' : FrameOK(frames'[g])
    BY <1>8, <1>9 DEF LoopInv, TypeOK
<1>13. TypeOK'
    BY <1>7, <1>8, <1>10, <1>11, <1>12 DEF LoopInv, TypeOK
<1>14. Grows(f, {})
  <2>1. {} \subseteq Paths /\ IsFiniteSet({})
    BY FS_EmptySet
  <2> QED
    BY <2>1, <1>3, <1>8, <1>12 DEF Grows
<1>15. Keeps(f, {})
  <2>1. Childless(f)
    BY <1>1, <1>3, NoChildren DEF LoopInv
  <2>2. t.step # 0 /\ r.function # "kid"
    BY <1>5, <1>6
  <2> QED
    BY <2>1, <2>2, <1>2, <1>6, <1>8 DEF Keeps, Childless
<1>16. TreeOK'
    BY <1>14, <1>15, TreeGrows DEF LoopInv
<1>17. IterationsOK'
  <2>1. RangeOK(frames'[f]) /\ Todo(frames'[f]) = Todo(frames[f])
    BY <1>2, <1>4, <1>5, <1>6, <1>8 DEF RangeOK, Todo
  <2> QED
    BY <2>1, <1>7, <1>14, TodoGrows DEF LoopInv
<1>18. frames[Main].step >= 2 => frames'[Main].step >= 2
  <2>1. r.step \in Int /\ t.step >= r.step
    BY <1>3, <1>6 DEF FrameOK
  <2>2. CASE f = Main
    BY <2>1, <2>2, <1>2, <1>5, <1>6, <1>8
  <2>3. CASE f # Main
    BY <2>3, <1>8 DEF LoopInv, TreeOK
  <2> QED
    BY <2>2, <2>3
<1>19. f = Main => r.function = "main"
    BY <1>2 DEF LoopInv, TreeOK
<1>20. frames'[Main].step >= 2 => loop_root_pedigree' = X
  <2>1. CASE f = Main
    <3>1. frames[Main].step >= 2
        BY <2>1, <1>2, <1>5, <1>19
    <3> QED
        BY <3>1, <1>7 DEF LoopInv, PedigreesOK
  <2>2. CASE f # Main
    BY <2>2, <1>7, <1>8 DEF LoopInv, TreeOK, PedigreesOK
  <2> QED
    BY <2>1, <2>2
<1>21. ASSUME NEW g \in Alive' PROVE PedigreeOK(g)'
  <2>1. CASE g = f
    BY <2>1, <1>2, <1>3, <1>4, <1>6, <1>8, <1>10, <1>18 DEF PedigreeOK
  <2>2. CASE g # f
    <3>1. PedigreeOK(g) /\ SameWork(g) /\ frames'[g] = frames[g] /\ (InDeque(g)' => InDeque(g))
        BY <2>2, <1>8, <1>10, <1>21 DEF LoopInv, PedigreesOK, SameWork
    <3> QED
        BY <3>1, <1>18, PedigreeKept
  <2> QED
    BY <2>1, <2>2
<1>22. Serial(My(w), pedigree[w])'
  <2>1. My(w)' = t
    BY <1>8, <1>10 DEF My, Me
  <2>2. PICK p : p = r.parent_pedigree
    OBVIOUS
  <2>3. AtSync(r, p) /\ pedigree'[w] = AddToRank(p, SyncRank(r))
    BY <2>2, <1>4, <1>11
  <2>4. CASE r.function = "main" /\ r.step = 3
    <3>1. p = AddToRank(X, 1) /\ SyncRank(r) = 1
        BY <2>3, <2>4 DEF AtSync, SyncRank
    <3>2. AddToRank(AddToRank(X, 1), 1) = AddToRank(X, 2)
        BY <1>5, Ranks
    <3>3. t.step = 4 /\ t.function = "main"
        BY <2>4, <1>6
    <3> QED
        BY <3>1, <3>2, <3>3, <2>1, <2>3 DEF Serial
  <2>5. CASE r.function = "range" /\ r.step = 2
    BY <2>1, <2>5, <1>6 DEF Serial
  <2>6. CASE r.function = "body" /\ r.step = 1
    <3>1. p = <<1, r.low>> \o X /\ SyncRank(r) = 1
        BY <2>3, <2>6 DEF AtSync, SyncRank
    <3>2. AddToRank(<<1, r.low>> \o X, 1) = <<2, r.low>> \o X
        BY <1>5, Ranks
    <3>3. t.step = 2 /\ t.function = "body" /\ t.low = r.low
        BY <2>6, <1>6
    <3> QED
        BY <3>1, <3>2, <3>3, <2>1, <2>3 DEF Serial
  <2> QED
    BY <2>4, <2>5, <2>6, <1>5
<1>23. ASSUME NEW v \in Workers, stack'[v] # <<>> PROVE Serial(My(v), pedigree[v])'
  <2>1. CASE v = w
    BY <2>1, <1>22
  <2>2. CASE v # w
    <3>1. stack'[v] = stack[v] /\ pedigree'[v] = pedigree[v] /\ stack[v] # <<>>
        BY <2>2, <1>11, <1>23
    <3>2. Me(v) \in Alive /\ frames[Me(v)].suspended = <<>>
        BY <3>1, NotInDeque DEF LoopInv
    <3>3. SameWork(Me(v))
        BY <3>2, <1>2, <1>3, <1>8 DEF SameWork
    <3> QED
        BY <3>1, <3>3, OthersSerial DEF LoopInv
  <2> QED
    BY <2>1, <2>2
<1>24. PedigreesOK'
    BY <1>20, <1>21, <1>23 DEF PedigreesOK
<1> QED
    BY <1>1, <1>13, <1>16, <1>17, <1>24 DEF LoopInv

(* A steal. *)
LEMMA StealStays ==
    ASSUME LoopInv, NEW w \in Workers, NEW v \in Workers, Steal(w, v)
    PROVE  LoopInv'
<1>1. HoldersOK' /\ JoinsOK'
    BY StealKeeps DEF LoopInv
<1>2. PICK f : f = Head(Head(deque[v]))
    OBVIOUS
<1>3. Robs(w, v, f)
    BY <1>2, Taken DEF LoopInv
<1>4. /\ Moves(w, v) /\ v # w /\ stack[w] = <<>> /\ deque[v] # <<>>
      /\ f = Top(v, 1) /\ f \in Alive /\ Alive' = Alive
      /\ \A g \in Alive \ {f} : frames'[g] = frames[g]
      /\ FrameOK(frames'[f]) /\ SameWork(f)
      /\ frames'[f].suspended = frames[f].suspended
      /\ frames'[f].parent_pedigree = frames[f].parent_pedigree
    BY <1>3 DEF Robs
<1>5. SetPedigree(w, AddToRank(frames[f].parent_pedigree, 1))
      /\ UNCHANGED <<kind, loop_root_pedigree, ran>>
    BY <1>2 DEF Steal
<1>6. PICK n : n = Len(deque[v])
    OBVIOUS
<1>7. /\ stack' \in [Workers -> Seq(Paths)] /\ deque' \in [Workers -> Seq(Seq(Paths))]
      /\ Slots(w)' = {1} /\ Top(w, 1)' = f
      /\ \A u \in Workers \ {w} : stack'[u] = stack[u]
      /\ InDeque(f) /\ \A g : InDeque(g)' => InDeque(g)
    BY <1>4, <1>6, Stolen DEF LoopInv
<1>8. /\ DOMAIN pedigree' = Workers /\ pedigree'[w] = AddToRank(frames[f].parent_pedigree, 1)
      /\ \A u \in Workers \ {w} : stack'[u] = stack[u] /\ pedigree'[u] = pedigree[u]
    BY <1>5, <1>7 DEF SetPedigree, LoopInv, TypeOK
<1>9. \A g \in Alive' : SameWork(g) /\ SamePedigrees(g)
    BY <1>4 DEF SameWork, SamePedigrees
<1>10. TypeOK'
  <2>1. \A g \in Alive' : FrameOK(frames'[g])
    BY <1>4 DEF LoopInv, TypeOK
  <2> QED
    BY <2>1, <1>4, <1>5, <1>7, <1>8 DEF LoopInv, TypeOK
<1>11. Main \in Alive' /\ Alive' \subseteq Alive
    BY <1>4 DEF LoopInv, TreeOK
<1>12. TreeOK'
    BY <1>4, <1>9, <1>11, TreeStays DEF LoopInv
<1>13. IterationsOK'
    BY <1>4, <1>5, <1>9, <1>11, TodoStays DEF LoopInv
<1>14. Me(w)' = f
  <2>1. Len(deque'[w]) = 0
    BY <1>4, <1>6, Stolen DEF LoopInv
  <2>2. Entry(w, 1)' = stack'[w]
    BY <2>1 DEF Entry
  <2> QED
    BY <2>2, <1>7 DEF Me, Top
<1>15. PICK r : r = frames[f]
    OBVIOUS
<1>16. PedigreeOK(f) /\ AtSpawn(r, r.parent_pedigree) /\ FrameOK(r)
    BY <1>4, <1>7, <1>15 DEF LoopInv, PedigreesOK, PedigreeOK, TypeOK
<1>17. PedigreeOK(f)'
  <2>1. frames[Main].step >= 2 => frames'[Main].step >= 2
    BY <1>9, <1>11 DEF SameWork
  <2> QED
    BY <2>1, <1>4, <1>7, <1>16, PedigreeKept
<1>18. Serial(My(w), pedigree[w])'
  <2>1. /\ My(w)'.function = r.function /\ My(w)'.step = r.step /\ My(w)'.low = r.low
    BY <1>4, <1>14, <1>15 DEF My, SameWork
  <2>2. PICK q, p : q = My(w)' /\ p = pedigree'[w]
    OBVIOUS
  <2>3. CASE r.function = "body"
    <3>1. r.step = 1 /\ r.parent_pedigree = <<0, r.low>> \o X /\ r.low \in Int
        BY <2>3, <1>16 DEF AtSpawn, FrameOK
    <3>2. p = <<1, r.low>> \o X
        BY <3>1, <2>2, <1>8, <1>15, Ranks
    <3>3. Serial(q, p)
        BY <3>1, <3>2, <2>1, <2>2, <2>3 DEF Serial
    <3> QED
        BY <3>3, <2>2 DEF Serial
  <2>4. CASE r.function = "main"
    <3>1. r.step = 1 /\ r.parent_pedigree = X
        BY <2>4, <1>16 DEF AtSpawn
    <3>2. p = AddToRank(X, 1)
        BY <3>1, <2>2, <1>8, <1>15
    <3>3. Serial(q, p)
        BY <3>1, <3>2, <2>1, <2>2, <2>4 DEF Serial
    <3> QED
        BY <3>3, <2>2 DEF Serial
  <2>5. CASE r.function = "range"
    BY <2>1, <2>5 DEF Serial
  <2> QED
    BY <2>3, <2>4, <2>5, <1>16 DEF AtSpawn
<1>19. PedigreesOK'
    BY <1>4, <1>5, <1>7, <1>8, <1>9, <1>11, <1>17, <1>18, PedigreesStay
<1> QED
    BY <1>1, <1>10, <1>12, <1>13, <1>19 DEF LoopInv

-----------------------------------------------------------------------------
(* The initial state. *)
LEMMA InitOK == ASSUME LoopAssumption, Init PROVE LoopInv
<1>1. PICK r : r = Frame("main", 0, 0, <<>>)
    OBVIOUS
<1>2. /\ Fresh(r) /\ r.function = "main" /\ r.step = 0 /\ r.spawned = 0 /\ r.suspended = <<>>
      /\ r.join = 1 /\ ~r.unsynched
  <2>1. Fresh(r) /\ r.function = "main" /\ r.step = 0 /\ r.spawned = 0 /\ r.suspended = <<>>
    BY <1>1, NewFrame
  <2>2. r.join = 1 /\ ~r.unsynched
    BY <2>1 DEF Fresh
  <2> QED
    BY <2>1, <2>2
<1>3. Alive = {Main} /\ frames[Main] = r
    BY <1>1 DEF Init, Alive
<1>4. Main \in Paths /\ Main = <<>>
    BY MainPath
<1>5. PICK c : c = Append(Main, 0)
    OBVIOUS
<1>6. c # Main
    BY <1>4, <1>5, Extending
<1>7. IsHead(Main)
    BY <1>3, <1>5, <1>6 DEF IsHead
<1>8. PICK s : s = <<Main>>
    OBVIOUS
<1>9. s \in Seq(Paths) /\ s # <<>> /\ Head(s) = Main /\ s = ChainOf(Main)
    BY <1>4, <1>8 DEF ChainOf
<1>10. PICK e : e = <<>>
    OBVIOUS
<1>11. e \in Seq(Paths) /\ e \in Seq(Seq(Paths)) /\ Len(e) = 0 /\ s # e
    BY <1>9, <1>10
<1>12. /\ stack = [w \in Workers |-> IF w = First THEN s ELSE e]
       /\ deque = [w \in Workers |-> e]
       /\ pedigree = [w \in Workers |-> IF w = First THEN X ELSE <<0>>]
       /\ kind \in Kinds /\ ran = [i \in 0..(Count - 1) |-> 0]
       /\ First \in Workers
    BY <1>8, <1>10 DEF Init, LoopAssumption
<1>13. TypeOK
  <2>1. stack \in [Workers -> Seq(Paths)] /\ deque \in [Workers -> Seq(Seq(Paths))]
    BY <1>9, <1>11, <1>12
  <2>2. ran \in [0..(Count - 1) -> Nat] /\ DOMAIN pedigree = Workers
    BY <1>12
  <2>3. Alive \subseteq Paths /\ IsFiniteSet(Alive)
    BY <1>3, <1>4, FS_Singleton
  <2>4. \A f \in Alive : FrameOK(frames[f])
    BY <1>2, <1>3 DEF Fresh
  <2> QED
    BY <2>1, <2>2, <2>3, <2>4, <1>12 DEF TypeOK
<1>14. TreeOK
    BY <1>2, <1>3 DEF TreeOK
<1>15. ASSUME NEW w \in Workers PROVE Len(deque[w]) = 0 /\ (stack[w] # <<>> <=> w = First)
    BY <1>10, <1>11, <1>12
<1>16. ASSUME NEW w \in Workers, NEW i \in Slots(w)
       PROVE  w = First /\ i = 1 /\ Entry(w, i) = s /\ Top(w, i) = Main
  <2>1. Len(deque[w]) = 0
    BY <1>15
  <2>2. w = First /\ i \in 1..(0 + 1)
    BY <2>1, <1>15, <1>16 DEF Slots
  <2>3. i = 1
    BY <2>2
  <2>4. Entry(w, i) = s
    BY <2>1, <2>2, <2>3, <1>12 DEF Entry
  <2> QED
    BY <2>2, <2>3, <2>4, <1>9 DEF Top
<1>17. HoldersOK
  <2>1. \A w \in Workers : stack[w] = <<>> => deque[w] = <<>>
    BY <1>10, <1>12
  <2>2. ASSUME NEW w \in Workers, NEW i \in Slots(w)
        PROVE  /\ IsHead(Top(w, i))
               /\ Entry(w, i) = ChainOf(Top(w, i))
               /\ frames[Top(w, i)].suspended = <<>>
               /\ i > 1 => Last(Entry(w, i)) = Append(Top(w, i - 1), frames[Top(w, i - 1)].spawned)
    <3>1. i = 1 /\ Entry(w, i) = s /\ Top(w, i) = Main
        BY <1>16, <2>2
    <3> QED
        BY <3>1, <1>2, <1>3, <1>7, <1>9
  <2>3. ASSUME NEW w \in Workers, NEW v \in Workers, NEW i \in Slots(w), NEW j \in Slots(v)
        PROVE  w = v /\ i = j
    BY <1>16, <2>3
  <2>4. \A f \in Alive : frames[f].suspended = <<>>
    BY <1>2, <1>3
  <2> QED
    BY <2>1, <2>2, <2>3, <2>4 DEF HoldersOK
<1>18. JoinsOK
  <2>1. Orphans(Main) = {}
    BY <1>3 DEF Orphans
  <2>2. JoinOK(Main)
    <3>1. Cardinality({}) = 0
        BY FS_EmptySet
    <3> QED
        BY <2>1, <3>1, <1>2, <1>3 DEF JoinOK
  <2>3. ASSUME NEW w \in Workers, NEW i \in Slots(w), i > 1 PROVE FALSE
    <3>1. i = 1
        BY <1>16, <2>3
    <3> QED
        BY <3>1, <2>3
  <2> QED
    BY <2>2, <2>3, <1>3 DEF JoinsOK
<1>19. IterationsOK
  <2>1. Todo(r) = 0..(Count - 1)
    BY <1>2 DEF Todo
  <2>2. \A i \in 0..(Count - 1) : ran[i] = 0
    BY <1>12
  <2> QED
    BY <2>1, <2>2, <1>2, <1>3 DEF IterationsOK
<1>20. PedigreesOK
  <2>1. ~InDeque(Main)
    <3>1. ASSUME NEW w \in Workers, NEW i \in Slots(w), i <= Len(deque[w]) PROVE FALSE
      <4>1. i = 1 /\ Len(deque[w]) = 0
        BY <1>15, <1>16, <3>1
      <4> QED
        BY <4>1, <3>1
    <3> QED
        BY <3>1 DEF InDeque
  <2>2. PedigreeOK(Main)
    BY <2>1, <1>2, <1>3 DEF PedigreeOK
  <2>3. ASSUME NEW w \in Workers, stack[w] # <<>> PROVE Serial(My(w), pedigree[w])
    <3>1. w = First /\ stack[w] = s /\ pedigree[w] = X
        BY <2>3, <1>12, <1>15
    <3>2. My(w) = r
        BY <3>1, <1>3, <1>9 DEF My, Me
    <3>3. PICK i : i = 0
        OBVIOUS
    <3>4. i \in Int
        BY <3>3
    <3>5. AddToRank(X, 0) = X
        BY <3>4, Ranks
    <3> QED
        BY <3>1, <3>2, <3>5, <1>2 DEF Serial
  <2> QED
    BY <2>2, <2>3, <1>2, <1>3 DEF PedigreesOK
<1> QED
    BY <1>13, <1>14, <1>17, <1>18, <1>19, <1>20 DEF LoopInv

(* The invariant is inductive: no action can break it, with either of the  *)
(* loops that compilers other than gcc make. *)
LEMMA NextOK ==
    ASSUME LoopAssumption, Kinds \subseteq {"plain", "numa"}, LoopInv, [Next]_vars
    PROVE  LoopInv'
<1>1. CASE UNCHANGED vars
  <2>1. TypeOK'
    BY <1>1 DEF vars, LoopInv, TypeOK, FrameOK, Alive
  <2>2. TreeOK'
    BY <1>1 DEF vars, LoopInv, TreeOK, IsChild, Alive
  <2>3. HoldersOK'
    BY <1>1 DEF vars, LoopInv, HoldersOK, Slots, Entry, Top, IsHead, ChainOf, Alive
  <2>4. JoinsOK'
    BY <1>1 DEF vars, LoopInv, JoinsOK, JoinOK, Orphans, NotStolen, InDeque, Slots, Entry, Top, Alive
  <2>5. IterationsOK'
    BY <1>1 DEF vars, LoopInv, IterationsOK, Todo, Alive
  <2>6. PedigreesOK'
    BY <1>1 DEF vars, LoopInv, PedigreesOK, PedigreeOK, Serial, AtSpawn, AtSync, My, Me,
                InDeque, Slots, Entry, Top, Alive
  <2> QED
    BY <2>1, <2>2, <2>3, <2>4, <2>5, <2>6 DEF LoopInv
<1>2. ASSUME NEW w \in Workers, SpawnNoop(w) PROVE LoopInv'
    BY <1>2, SpawnNoopKeeps
<1>3. ASSUME NEW w \in Workers, EnterLoop(w) PROVE LoopInv'
    BY <1>3, EnterLoopKeeps
<1>4. ASSUME NEW w \in Workers, LeaveLoop(w) PROVE LoopInv'
    BY <1>4, LeaveLoopKeeps
<1>5. ASSUME NEW w \in Workers, SpawnHalf(w) PROVE LoopInv'
    BY <1>5, SpawnHalfKeeps
<1>6. ASSUME NEW w \in Workers, CallBody(w) PROVE LoopInv'
    BY <1>6, CallBodyKeeps
<1>7. ASSUME NEW w \in Workers, AfterBody(w) PROVE LoopInv'
    BY <1>7, AfterBodyKeeps
<1>8. ASSUME NEW w \in Workers, Iterate(w) PROVE LoopInv'
    BY <1>8, IterateKeeps
<1>9. ASSUME NEW w \in Workers, BumpLoopRank(w) PROVE LoopInv'
    BY <1>9, BumpLoopRankKeeps
<1>10. ASSUME NEW w \in Workers, Leave(w) PROVE LoopInv'
    BY <1>10, LeaveKeeps
<1>11. ASSUME NEW w \in Workers, Sync(w) PROVE LoopInv'
  <2>1. At(w, "main", 3) \/ At(w, "range", 2) \/ At(w, "body", 1)
    BY <1>11 DEF Sync
  <2>2. CASE SyncDone(w)
    BY <2>1, <2>2, SyncDoneKeeps
  <2>3. CASE Suspend(w)
    BY <2>1, <2>3, SuspendStays
  <2> QED
    BY <2>2, <2>3, <1>11 DEF Sync
<1>12. ASSUME NEW w \in Workers, NEW f \in Alive, Resume(w, f) PROVE LoopInv'
    BY <1>12, ResumeStays
<1>13. ASSUME NEW w \in Workers, NEW v \in Workers, Steal(w, v) PROVE LoopInv'
    BY <1>13, StealStays
<1> QED
    BY <1>1, <1>2, <1>3, <1>4, <1>5, <1>6, <1>7, <1>8, <1>9, <1>10, <1>11, <1>12, <1>13
    DEF Next, Alive

(* A set of numbers that is not empty has a least element. *)
LEMMA LeastNumber ==
    ASSUME NEW D \in SUBSET Nat, D # {}
    PROVE  \E n \in D : \A m \in D : n <= m
<1> DEFINE R == OpToRel(<, Nat)
<1>1. IsWellFoundedOn(R, Nat)
    BY NatLessThanWellFounded, Zenon
<1>2. \A x, y \in Nat : x < y => <<x, y>> \in R
    BY DEF OpToRel
<1> HIDE DEF R
<1>3. PICK n \in D : \A m \in D : ~(<<m, n>> \in R)
    BY <1>1, WFMin
<1>4. ASSUME NEW m \in D PROVE n <= m
  <2>1. ~(m < n)
    BY <1>2, <1>3
  <2> QED
    BY <2>1
<1> QED
    BY <1>4

(* When the loop has ended, all its frames have returned: the oldest of    *)
(* those that remained would be a child of the function itself, which has  *)
(* passed its sync. *)
LEMMA AllReturned == ASSUME TypeOK, TreeOK, frames[Main].step = 4 PROVE Alive = {Main}
<1> SUFFICES ASSUME NEW g \in Alive, g # Main PROVE FALSE
    BY DEF TreeOK
<1> DEFINE D == {Len(f) : f \in Alive \ {Main}}
<1>1. D \in SUBSET Nat /\ D # {}
  <2>1. \A f \in Alive : Len(f) \in Nat
    BY DEF TypeOK, Paths
  <2> QED
    BY <2>1
<1>2. PICK n \in D : \A m \in D : n <= m
    BY <1>1, LeastNumber
<1>3. PICK f \in Alive \ {Main} : n = Len(f)
    OBVIOUS
<1>4. PICK p : p = Front(f)
    OBVIOUS
<1>5. /\ p \in Alive /\ f = Append(p, Last(f)) /\ p \in Paths /\ Last(f) \in Nat
      /\ IsChild(frames[p], Last(f), frames[f])
    BY <1>3, <1>4, Parent
<1>6. Len(f) = Len(p) + 1 /\ Len(p) \in Nat
    BY <1>5 DEF Paths
<1>7. p = Main
    BY <1>1, <1>2, <1>3, <1>5, <1>6
<1>8. frames[p].function = "main" /\ frames[p].step = 4
    BY <1>7 DEF TreeOK
<1> QED
    BY <1>5, <1>8 DEF IsChild

(* The invariant says what the loop's documentation does. *)
LEMMA Flat == ASSUME LoopInv PROVE LoopIsFlat
<1>1. DOMAIN ran = 0..(Count - 1)
    BY DEF LoopInv, TypeOK
<1>2. ASSUME Ended, NEW i \in DOMAIN ran PROVE ran[i] = 1
  <2>1. Alive = {Main} /\ frames[Main].function = "main" /\ frames[Main].step = 4
    BY <1>2, AllReturned DEF LoopInv, Ended
  <2>2. Todo(frames[Main]) = {}
    BY <2>1 DEF Todo
  <2> QED
    BY <2>1, <2>2, <1>1, <1>2 DEF LoopInv, IterationsOK
<1>3. ASSUME NEW i \in DOMAIN ran PROVE ran[i] <= 1
  <2>1. ran[i] = 1 \/ ran[i] = 0
    BY <1>1, <1>3 DEF LoopInv, IterationsOK
  <2> QED
    BY <2>1
<1>4. ASSUME NEW w \in Workers, stack[w] # <<>> PROVE PedigreeIsSerial(w)
  <2>1. PICK f : f = Me(w)
    OBVIOUS
  <2>2. Runs(w, f) /\ My(w) = frames[f]
    BY <2>1, <1>4, Running
  <2>3. PICK r : r = frames[f]
    OBVIOUS
  <2>4. Serial(r, pedigree[w]) /\ RangeOK(r) /\ FrameOK(r) /\ My(w) = r
    BY <2>2, <2>3 DEF Runs
  <2>5. CASE r.function = "body" /\ r.low < r.high
    <3>1. r.step <= 2
        BY <2>4, <2>5 DEF RangeOK, FrameOK
    <3>2. pedigree[w] = <<r.step, r.low>> \o X
        BY <3>1, <2>4, <2>5 DEF Serial
    <3> QED
        BY <3>2, <2>4, <2>5 DEF PedigreeIsSerial
  <2>6. CASE r.function = "kid"
    <3>1. pedigree[w] = <<0, 0, r.low>> \o X
        BY <2>4, <2>6 DEF Serial
    <3> QED
        BY <3>1, <2>4, <2>6 DEF PedigreeIsSerial
  <2>7. CASE r.function = "main" /\ r.step \in {0, 1}
    <3>1. pedigree[w] = AddToRank(X, r.step)
        BY <2>4, <2>7 DEF Serial
    <3> QED
        BY <3>1, <2>4, <2>7 DEF PedigreeIsSerial
  <2>8. CASE r.function = "main" /\ r.step = 4
    <3>1. pedigree[w] = AddToRank(X, 2)
        BY <2>4, <2>8 DEF Serial
    <3> QED
        BY <3>1, <2>4, <2>8 DEF PedigreeIsSerial
  <2>9. CASE /\ ~(r.function = "body" /\ r.low < r.high) /\ r.function # "kid"
             /\ ~(r.function = "main" /\ r.step \in {0, 1}) /\ ~(r.function = "main" /\ r.step = 4)
    BY <2>4, <2>9 DEF PedigreeIsSerial
  <2> QED
    BY <2>5, <2>6, <2>7, <2>8, <2>9
<1> QED
    BY <1>2, <1>3, <1>4 DEF LoopIsFlat, IterationsRunOnce

(* LoopIsFlat: with the recursion of cilk-abi-cilk-for.cpp and with the    *)
(* NUMA one as compilers other than gcc build it, a loop that has ended    *)
(* has executed each iteration once, none is ever executed twice, and each *)
(* strand has the pedigree of the serial run, for any number of workers,   *)
(* iterations and any grain, whatever was stolen. *)
THEOREM FlatLoops ==
    ASSUME LoopAssumption, Kinds \subseteq {"plain", "numa"}
    PROVE  Spec => []LoopIsFlat
<1>1. Init => LoopInv
    BY InitOK
<1>2. LoopInv /\ [Next]_vars => LoopInv'
    BY NextOK
<1>3. LoopInv => LoopIsFlat
    BY Flat
<1> QED
    BY <1>1, <1>2, <1>3, PTL DEF Spec
=============================================================================

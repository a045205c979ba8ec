------------------------- MODULE UserThreads_proofs -------------------------
(***************************************************************************)
(* What the interface promises to user threads: the pedigrees of the       *)
(* strands they execute (ThreadPedigree), and the settings they ask for    *)
(* (Settings), for any number of threads, workers, calls and starts.       *)
(*                                                                         *)
(* That two strands draw different numbers is not inductive: a pedigree    *)
(* may be drawn again long after, in another worker or at another depth.   *)
(* PedigreeInv orders pedigrees by their first different rank from the     *)
(* root: what was drawn under a root is before what is executed there      *)
(* (OrderOK), and no two threads, dead or alive, have a root in common.    *)
(* SettingsInv says what is set between a change and the start             *)
(* (Settable, Granted) and what the start makes of it (SharedOut).         *)
(*                                                                         *)
(* And what they get for their entry: workers that are awake (SignalTree), *)
(* in a tree of any size.                                                  *)
(***************************************************************************)
EXTENDS SignalTree, ThreadPedigree, Settings, FiniteSetTheorems, SequenceTheorems, TLAPS

-----------------------------------------------------------------------------
(* The order of pedigrees *)

Pedigrees == {p \in Seq(Nat) : Len(p) >= 2 /\ Len(p) <= MaxDepth}
FromRoot(p, k) == p[Len(p) + 1 - k]
Base(p) == p[Len(p)]

(* Counted from the root, the first rank that differs is smaller in d.     *)
IsBefore(d, p) ==
    \E k \in 1..Len(d) :
        /\ k <= Len(p) /\ FromRoot(d, k) < FromRoot(p, k)
        /\ \A j \in 1..(k - 1) : FromRoot(d, j) = FromRoot(p, j)

(* A sequence with one number more in front. *)
LEMMA Prefixed ==
    ASSUME NEW x \in Nat, NEW r \in Seq(Nat)
    PROVE  /\ <<x>> \o r \in Seq(Nat) /\ Len(<<x>> \o r) = Len(r) + 1 /\ Len(r) \in Nat
           /\ (<<x>> \o r)[1] = x
           /\ \A i \in 1..Len(r) : (<<x>> \o r)[i + 1] = r[i]
<1>1. PICK l \in Nat : l = Len(r)
    OBVIOUS
<1>2. PICK h : h = <<x>>
    OBVIOUS
<1>3. h \in Seq(Nat)
    BY <1>2
<1>4. Len(h) = 1 /\ h[1] = x
    BY <1>2
<1>5. PICK m : m = h \o r
    OBVIOUS
<1>6. /\ m \in Seq(Nat) /\ Len(m) = 1 + l
      /\ \A i \in 1..(1 + l) : m[i] = IF i <= 1 THEN h[i] ELSE r[i - 1]
    <2>1. /\ m \in Seq(Nat) /\ Len(m) = Len(h) + Len(r)
          /\ \A i \in 1..(Len(h) + Len(r)) : m[i] = IF i <= Len(h) THEN h[i] ELSE r[i - Len(h)]
        BY <1>3, <1>5, ConcatProperties
    <2> QED
        BY <1>1, <1>4, <2>1
<1>7. m[1] = x
    BY <1>4, <1>6
<1>8. ASSUME NEW i \in 1..l PROVE m[i + 1] = r[i]
    <2>1. i + 1 \in 1..(1 + l) /\ ~(i + 1 <= 1) /\ (i + 1) - 1 = i
        OBVIOUS
    <2> QED
        BY <1>6, <2>1
<1> QED
    BY <1>1, <1>2, <1>5, <1>6, <1>7, <1>8

(* What a longer, a shorter and a later pedigree look like from the root.  *)
LEMMA RankMoved ==
    ASSUME NEW p \in Pedigrees, NEW n \in Nat
    PROVE  /\ MoveRank(p, n) \in Pedigrees /\ Len(MoveRank(p, n)) = Len(p)
           /\ MoveRank(p, n)[1] = p[1] + n
           /\ \A i \in 2..Len(p) : MoveRank(p, n)[i] = p[i]
<1>1. PICK l \in Nat : l = Len(p)
    BY DEF Pedigrees
<1>2. p \in Seq(Nat) /\ l >= 2 /\ l <= MaxDepth /\ p # <<>>
    BY <1>1 DEF Pedigrees
<1>3. Head(p) = p[1] /\ p[1] \in Nat
    BY <1>1, <1>2
<1>4. PICK x \in Nat : x = Head(p) + n
    BY <1>3
<1>6. PICK r \in Seq(Nat) : r = Tail(p)
    BY <1>2, HeadTailProperties
<1>7. Len(r) = l - 1 /\ \A i \in 1..(l - 1) : r[i] = p[i + 1]
    BY <1>1, <1>2, <1>6, HeadTailProperties
<1>8. PICK m : m = <<x>> \o r
    OBVIOUS
<1>9. m = MoveRank(p, n)
    BY <1>4, <1>6, <1>8 DEF MoveRank
<1>10. m \in Seq(Nat) /\ Len(m) = l /\ m[1] = x /\ \A i \in 1..(l - 1) : m[i + 1] = r[i]
    BY <1>2, <1>7, <1>8, Prefixed
<1>11. \A i \in 2..l : m[i] = p[i]
    <2> SUFFICES ASSUME NEW i \in 2..l PROVE m[i] = p[i]
        OBVIOUS
    <2>1. i - 1 \in 1..(l - 1) /\ (i - 1) + 1 = i
        OBVIOUS
    <2> QED
        BY <1>7, <1>10, <2>1
<1>12. m[1] = p[1] + n
    BY <1>3, <1>4, <1>10
<1> QED
    BY <1>1, <1>2, <1>9, <1>10, <1>11, <1>12 DEF Pedigrees

(* A spawn puts a rank in front. *)
LEMMA Spawned ==
    ASSUME NEW p \in Pedigrees, Len(p) < MaxDepth, MaxDepth \in Nat
    PROVE  /\ <<0>> \o p \in Pedigrees /\ Len(<<0>> \o p) = Len(p) + 1
           /\ \A i \in 1..Len(p) : (<<0>> \o p)[i + 1] = p[i]
<1>1. PICK l \in Nat : l = Len(p)
    BY DEF Pedigrees
<1>2. p \in Seq(Nat) /\ l >= 2 /\ l + 1 <= MaxDepth
    BY <1>1 DEF Pedigrees
<1> QED
    BY <1>1, <1>2, Prefixed DEF Pedigrees

(* A return takes the first rank away. *)
LEMMA Returned ==
    ASSUME NEW p \in Pedigrees, Len(p) > 2, MaxDepth \in Nat
    PROVE  /\ Tail(p) \in Pedigrees /\ Len(Tail(p)) = Len(p) - 1
           /\ \A i \in 1..(Len(p) - 1) : Tail(p)[i] = p[i + 1]
<1>1. PICK l \in Nat : l = Len(p)
    BY DEF Pedigrees
<1>2. p \in Seq(Nat) /\ l > 2 /\ l <= MaxDepth /\ p # <<>>
    BY <1>1 DEF Pedigrees
<1>3. PICK r \in Seq(Nat) : r = Tail(p)
    BY <1>2, HeadTailProperties
<1>4. Len(r) = l - 1 /\ \A i \in 1..(l - 1) : r[i] = p[i + 1]
    BY <1>1, <1>2, <1>3, HeadTailProperties
<1>5. l - 1 >= 2 /\ l - 1 <= MaxDepth
    BY <1>2
<1> QED
    BY <1>1, <1>3, <1>4, <1>5 DEF Pedigrees

(* What was before a strand, or its own pedigree, is before it when its    *)
(* rank has moved on.                                                      *)
LEMMA BeforeMoved ==
    ASSUME NEW d \in Pedigrees, NEW p \in Pedigrees, NEW n \in Nat \ {0}, IsBefore(d, p) \/ d = p
    PROVE  IsBefore(d, MoveRank(p, n))
<1>1. PICK l \in Nat, m \in Nat : l = Len(p) /\ m = Len(d)
    BY DEF Pedigrees
<1>2. PICK q \in Pedigrees : q = MoveRank(p, n)
    BY RankMoved
<1>3. Len(q) = l /\ q[1] = p[1] + n /\ \A i \in 2..l : q[i] = p[i]
    BY <1>1, <1>2, RankMoved
<1>4. l >= 2 /\ m >= 2 /\ \A i \in 1..l : p[i] \in Nat
    BY <1>1 DEF Pedigrees
<1>5. \A i \in 1..m : d[i] \in Nat
    BY <1>1 DEF Pedigrees
<1>6. \A k \in 1..(l - 1) : FromRoot(q, k) = FromRoot(p, k)
    <2> SUFFICES ASSUME NEW k \in 1..(l - 1) PROVE FromRoot(q, k) = FromRoot(p, k)
        OBVIOUS
    <2>1. l + 1 - k \in 2..l
        BY <1>4
    <2> QED
        BY <1>1, <1>3, <2>1 DEF FromRoot
<1>7. FromRoot(q, l) = p[1] + n /\ FromRoot(p, l) = p[1] /\ p[1] \in Nat
    <2>1. l + 1 - l = 1
        OBVIOUS
    <2> QED
        BY <1>1, <1>3, <1>4, <2>1 DEF FromRoot
<1>8. CASE d = p
    <2>1. l \in 1..Len(d) /\ l <= Len(q) /\ FromRoot(d, l) < FromRoot(q, l)
        BY <1>1, <1>3, <1>4, <1>7, <1>8
    <2>2. \A j \in 1..(l - 1) : FromRoot(d, j) = FromRoot(q, j)
        BY <1>6, <1>8
    <2> QED
        BY <1>2, <2>1, <2>2 DEF IsBefore
<1>9. CASE IsBefore(d, p)
    <2>1. PICK k \in 1..m : /\ k <= l /\ FromRoot(d, k) < FromRoot(p, k)
                            /\ \A j \in 1..(k - 1) : FromRoot(d, j) = FromRoot(p, j)
        BY <1>1, <1>9 DEF IsBefore
    <2>2. \A j \in 1..(k - 1) : j \in 1..(l - 1)
        BY <2>1
    <2>3. \A j \in 1..(k - 1) : FromRoot(d, j) = FromRoot(q, j)
        BY <1>6, <2>1, <2>2
    <2>4. FromRoot(d, k) < FromRoot(q, k)
        <3>1. FromRoot(d, k) \in Nat
            <4>1. m + 1 - k \in 1..m
                OBVIOUS
            <4> QED
                BY <1>1, <1>5, <4>1 DEF FromRoot
        <3>2. CASE k = l
            BY <1>7, <2>1, <3>1, <3>2
        <3>3. CASE k # l
            <4>1. k \in 1..(l - 1)
                BY <2>1, <3>3
            <4> QED
                BY <1>6, <2>1, <4>1
        <3> QED
            BY <3>2, <3>3
    <2> QED
        BY <1>1, <1>2, <1>3, <2>1, <2>3, <2>4 DEF IsBefore
<1> QED
    BY <1>8, <1>9

(* What was before the parent is before the child. *)
LEMMA BeforeSpawned ==
    ASSUME NEW d \in Pedigrees, NEW p \in Pedigrees, Len(p) < MaxDepth, MaxDepth \in Nat,
           IsBefore(d, p)
    PROVE  IsBefore(d, <<0>> \o p)
<1>1. PICK l \in Nat : l = Len(p)
    BY DEF Pedigrees
<1>2. PICK q \in Pedigrees : q = <<0>> \o p
    BY Spawned
<1>3. Len(q) = l + 1 /\ \A i \in 1..l : q[i + 1] = p[i]
    BY <1>1, <1>2, Spawned
<1>4. \A k \in 1..l : FromRoot(q, k) = FromRoot(p, k)
    <2> SUFFICES ASSUME NEW k \in 1..l PROVE FromRoot(q, k) = FromRoot(p, k)
        OBVIOUS
    <2>1. l + 1 - k \in 1..l /\ (l + 1 - k) + 1 = (l + 1) + 1 - k
        OBVIOUS
    <2> QED
        BY <1>1, <1>3, <2>1 DEF FromRoot
<1>5. PICK k \in 1..Len(d) : /\ k <= l /\ FromRoot(d, k) < FromRoot(p, k)
                             /\ \A j \in 1..(k - 1) : FromRoot(d, j) = FromRoot(p, j)
    BY <1>1 DEF IsBefore
<1>6. PICK m \in Nat : m = Len(d)
    BY DEF Pedigrees
<1>7. k \in 1..l /\ \A j \in 1..(k - 1) : j \in 1..l
    BY <1>5, <1>6
<1>8. k <= Len(q) /\ FromRoot(d, k) < FromRoot(q, k)
    BY <1>3, <1>4, <1>5, <1>6, <1>7
<1>9. \A j \in 1..(k - 1) : FromRoot(d, j) = FromRoot(q, j)
    BY <1>4, <1>5, <1>7
<1> QED
    BY <1>2, <1>5, <1>8, <1>9 DEF IsBefore

(* What was before the child is before the parent that goes on. *)
LEMMA BeforeReturned ==
    ASSUME NEW d \in Pedigrees, NEW p \in Pedigrees, Len(p) > 2, MaxDepth \in Nat,
           IsBefore(d, p)
    PROVE  IsBefore(d, MoveRank(Tail(p), 1))
<1>1. PICK l \in Nat, m \in Nat : l = Len(p) /\ m = Len(d) /\ l > 2
    BY DEF Pedigrees
<1>2. PICK r \in Pedigrees : r = Tail(p)
    BY Returned
<1>3. Len(r) = l - 1 /\ \A i \in 1..(l - 1) : r[i] = p[i + 1]
    BY <1>1, <1>2, Returned
<1>4. \A k \in 1..(l - 1) : FromRoot(r, k) = FromRoot(p, k)
    <2> SUFFICES ASSUME NEW k \in 1..(l - 1) PROVE FromRoot(r, k) = FromRoot(p, k)
        OBVIOUS
    <2>1. (l - 1) + 1 - k \in 1..(l - 1) /\ ((l - 1) + 1 - k) + 1 = l + 1 - k
        OBVIOUS
    <2> QED
        BY <1>1, <1>3, <2>1 DEF FromRoot
<1>5. PICK k \in 1..m : /\ k <= l /\ FromRoot(d, k) < FromRoot(p, k)
                        /\ \A j \in 1..(k - 1) : FromRoot(d, j) = FromRoot(p, j)
    BY <1>1 DEF IsBefore
<1>6. CASE k <= l - 1
    <2>1. k \in 1..(l - 1) /\ \A j \in 1..(k - 1) : j \in 1..(l - 1)
        BY <1>6
    <2>2. k <= Len(r) /\ FromRoot(d, k) < FromRoot(r, k)
        BY <1>3, <1>4, <1>5, <1>6, <2>1
    <2>3. \A j \in 1..(k - 1) : FromRoot(d, j) = FromRoot(r, j)
        BY <1>4, <1>5, <2>1
    <2>4. IsBefore(d, r)
        BY <1>1, <2>2, <2>3 DEF IsBefore
    <2> QED
        BY <1>2, <2>4, BeforeMoved
<1>7. CASE k = l
    <2>1. PICK q \in Pedigrees : q = MoveRank(r, 1)
        BY RankMoved
    <2>2. Len(q) = l - 1 /\ q[1] = r[1] + 1 /\ \A i \in 2..(l - 1) : q[i] = r[i]
        BY <1>3, <2>1, RankMoved
    <2>3. PICK h \in Nat : h = l - 1
        BY <1>1
    <2>4. h >= 2 /\ h \in 1..m /\ h <= Len(q) /\ h + 1 - h = 1
        BY <1>1, <1>7, <2>2, <2>3
    <2>5. FromRoot(q, h) = r[1] + 1 /\ FromRoot(r, h) = r[1] /\ r[1] \in Nat
        <3>1. Len(q) = h /\ Len(r) = h
            BY <1>3, <2>2, <2>3
        <3>2. r[1] \in Nat
            BY <2>4, <3>1 DEF Pedigrees
        <3> QED
            BY <2>2, <2>4, <3>1, <3>2 DEF FromRoot
    <2>6. FromRoot(d, h) = FromRoot(p, h) /\ FromRoot(p, h) = FromRoot(r, h)
        <3>1. h \in 1..(k - 1) /\ h \in 1..(l - 1)
            BY <1>7, <2>3, <2>4
        <3> QED
            BY <1>4, <1>5, <3>1
    <2>7. FromRoot(d, h) < FromRoot(q, h)
        BY <2>5, <2>6
    <2>8. ASSUME NEW j \in 1..(h - 1) PROVE FromRoot(d, j) = FromRoot(q, j)
        <3>1. j \in 1..(k - 1) /\ j \in 1..(l - 1) /\ h + 1 - j \in 2..(l - 1)
            BY <1>7, <2>3, <2>4
        <3>2. FromRoot(d, j) = FromRoot(r, j)
            BY <1>4, <1>5, <3>1
        <3>3. FromRoot(q, j) = FromRoot(r, j)
            BY <1>3, <2>2, <2>3, <3>1 DEF FromRoot
        <3> QED
            BY <3>2, <3>3
    <2> QED
        BY <1>1, <1>2, <2>1, <2>4, <2>7, <2>8 DEF IsBefore
<1>8. k <= l - 1 \/ k = l
    BY <1>1, <1>5
<1> QED
    BY <1>6, <1>7, <1>8

(* The order is strict. *)
LEMMA BeforeDiffers ==
    ASSUME NEW d \in Pedigrees, NEW p \in Pedigrees, IsBefore(d, p)
    PROVE  d # p
<1>1. PICK k \in 1..Len(d) : FromRoot(d, k) < FromRoot(p, k)
    BY DEF IsBefore
<1>2. PICK m \in Nat : m = Len(d)
    BY DEF Pedigrees
<1>5. \A i \in 1..m : d[i] \in Nat
    BY <1>2 DEF Pedigrees
<1>3. FromRoot(d, k) \in Nat
    <2>1. m + 1 - k \in 1..m
        BY <1>2
    <2> QED
        BY <1>2, <1>5, <2>1 DEF FromRoot
<1>4. FromRoot(d, k) # FromRoot(p, k)
    BY <1>1, <1>3
<1> QED
    BY <1>4

(* The root stays whatever a strand does.                                  *)
LEMMA RootStays ==
    ASSUME NEW p \in Pedigrees, MaxDepth \in Nat
    PROVE  /\ Base(p) \in Nat
           /\ \A n \in Nat : Base(MoveRank(p, n)) = Base(p)
           /\ Len(p) < MaxDepth => Base(<<0>> \o p) = Base(p)
           /\ Len(p) > 2 => Base(Tail(p)) = Base(p)
<1>1. PICK l \in Nat : l = Len(p) /\ l >= 2 /\ p \in Seq(Nat)
    BY DEF Pedigrees
<1>2. l \in 2..l /\ l \in 1..l
    BY <1>1
<1>3. Base(p) \in Nat
    BY <1>1, <1>2 DEF Base
<1>4. \A n \in Nat : Base(MoveRank(p, n)) = Base(p)
    BY <1>1, <1>2, RankMoved DEF Base
<1>5. Len(p) < MaxDepth => Base(<<0>> \o p) = Base(p)
    BY <1>1, <1>2, Spawned DEF Base
<1>6. ASSUME Len(p) > 2 PROVE Base(Tail(p)) = Base(p)
    <2>1. l - 1 \in 1..(l - 1) /\ (l - 1) + 1 = l
        BY <1>1
    <2> QED
        BY <1>1, <1>6, <2>1, Returned DEF Base
<1> QED
    BY <1>3, <1>4, <1>5, <1>6

-----------------------------------------------------------------------------
(* The invariant *)

(* The threads that have a leaf, and the pedigree of what each executes.   *)
Having == {t \in Threads : tls[t] # None}
Own(t) == IF bound[t] # None THEN pedigree[bound[t]] ELSE leaf[t]
Owned == [t \in Threads |-> Own(t)]

PedigreeTypes ==
    /\ leaf \in [Threads -> Seq(Nat)]
    /\ tls \in [Threads -> UserWorkers \cup {None, "leaf"}]
    /\ bound \in [Threads -> UserWorkers \cup {None}]
    /\ pedigree \in [UserWorkers -> Seq(Nat)]
    /\ original \in [UserWorkers -> Threads \cup {None}]
    /\ global_counter \in Int /\ global_counter >= -1
    /\ walk \in [Threads -> [context : Nat, birthranks : Seq(Nat)]]
    /\ IsFiniteSet(drawn) /\ draws = Cardinality(drawn)

(* The worker of a bound thread has its leaf, or one with a later rank.    *)
BoundOK(t) ==
    /\ tls[t] # None => Len(leaf[t]) = 2
    /\ bound[t] # None => /\ tls[t] = bound[t] /\ original[bound[t]] = t
                          /\ leaf[t][2] = Base(pedigree[bound[t]])
    /\ bound[t] = None => tls[t] \in {None, "leaf"}

(* No two threads have a root in common, now or earlier, and what was      *)
(* drawn under a root is before what is executed there.                    *)
OrderOK(having, owned, counter, old) ==
    /\ \A t \in having : owned[t] \in Pedigrees /\ Base(owned[t]) <= counter
    /\ \A t, u \in having : Base(owned[t]) = Base(owned[u]) => t = u
    /\ \A d \in old :
          /\ d \in Pedigrees /\ Base(d) <= counter
          /\ \A t \in having : Base(owned[t]) = Base(d) => IsBefore(d, owned[t])

(* A walk has given the ranks above the strand's own, as far as it came.   *)
Walked(k, p) ==
    IF k.context = Null THEN k.birthranks = <<>>
    ELSE /\ k.context < Len(p)
         /\ k.birthranks =
               [i \in 1..(Len(p) - (IF k.context = Complete THEN 1 ELSE k.context)) |-> p[i + 1]]
WalkOK(t) == /\ walk[t].context # Null => tls[t] # None
             /\ Walked(walk[t], Own(t))

PedigreeInv ==
    /\ PedigreeTypes
    /\ OrderOK(Having, Owned, global_counter, drawn)
    /\ \A t \in Threads : BoundOK(t) /\ WalkOK(t)

(* The order stays when one thread gets its leaf or goes on from what it   *)
(* had, and when it loses it.                                              *)
LEMMA OrderStays ==
    ASSUME NEW H \in SUBSET Threads, NEW G \in SUBSET Threads, NEW own, NEW new,
           NEW n \in Int, NEW m \in Int, NEW D, NEW E, OrderOK(H, own, n, D),
           NEW t \in G, G \ {t} = H \ {t}, \A u \in H \ {t} : new[u] = own[u],
           new[t] \in Pedigrees, Base(new[t]) \in Nat,
           \A d \in Pedigrees : Base(d) \in Nat,
           t \in H => /\ m = n /\ Base(new[t]) = Base(own[t])
                      /\ \A d \in Pedigrees : IsBefore(d, own[t]) => IsBefore(d, new[t]),
           t \notin H => m = n + 1 /\ Base(new[t]) = m,
           \A d \in E : d \in D \/ /\ d \in Pedigrees /\ Base(d) = Base(new[t])
                                   /\ IsBefore(d, new[t])
    PROVE  OrderOK(G, new, m, E)
<1>1. n <= m /\ Base(new[t]) <= m
    BY DEF OrderOK
<1>2. ASSUME NEW u \in G PROVE new[u] \in Pedigrees /\ Base(new[u]) <= m
    <2>1. CASE u # t
        <3>1. u \in H /\ new[u] = own[u] /\ own[u] \in Pedigrees /\ Base(own[u]) <= n
            BY <2>1 DEF OrderOK
        <3>2. Base(own[u]) \in Nat
            BY <3>1
        <3> QED
            BY <1>1, <3>1, <3>2
    <2> QED
        BY <1>1, <2>1
<1>3. ASSUME NEW u \in G, u # t PROVE Base(new[u]) # Base(new[t])
    <2>1. u \in H /\ new[u] = own[u] /\ own[u] \in Pedigrees /\ Base(own[u]) <= n
        BY <1>3 DEF OrderOK
    <2>2. CASE t \in H
        BY <1>3, <2>1, <2>2 DEF OrderOK
    <2>3. CASE t \notin H
        <3>1. Base(own[u]) \in Nat
            BY <2>1
        <3> QED
            BY <2>1, <2>3, <3>1
    <2> QED
        BY <2>2, <2>3
<1>4. ASSUME NEW u \in G, NEW v \in G, Base(new[u]) = Base(new[v]) PROVE u = v
    <2>1. CASE u # t /\ v # t
        BY <1>4, <2>1 DEF OrderOK
    <2> QED
        BY <1>3, <1>4, <2>1
<1>5. ASSUME NEW d \in E
      PROVE  /\ d \in Pedigrees /\ Base(d) <= m
             /\ \A u \in G : Base(new[u]) = Base(d) => IsBefore(d, new[u])
    <2>1. CASE d \in D
        <3>1. d \in Pedigrees /\ Base(d) \in Nat /\ Base(d) <= n
            BY <2>1 DEF OrderOK
        <3>2. ASSUME NEW u \in G, Base(new[u]) = Base(d) PROVE IsBefore(d, new[u])
            <4>1. CASE u # t
                BY <2>1, <3>2, <4>1 DEF OrderOK
            <4>2. CASE u = t
                <5>1. t \in H
                    BY <3>1, <3>2, <4>2
                <5>2. Base(own[t]) = Base(d)
                    BY <3>2, <4>2, <5>1
                <5>3. IsBefore(d, own[t])
                    BY <2>1, <5>1, <5>2 DEF OrderOK
                <5> QED
                    BY <3>1, <4>2, <5>1, <5>3
            <4> QED
                BY <4>1, <4>2
        <3> QED
            BY <1>1, <3>1, <3>2
    <2>2. CASE /\ d \in Pedigrees /\ Base(d) = Base(new[t]) /\ IsBefore(d, new[t])
        BY <1>1, <1>3, <2>2
    <2> QED
        BY <2>1, <2>2
<1> QED
    BY <1>2, <1>4, <1>5 DEF OrderOK

(* A thread that another one's step does not touch.                        *)
Untouched(u) ==
    /\ tls'[u] = tls[u] /\ walk'[u] = walk[u] /\ bound'[u] = bound[u] /\ leaf'[u] = leaf[u]
    /\ bound[u] # None =>
          pedigree'[bound[u]] = pedigree[bound[u]] /\ original'[bound[u]] = original[bound[u]]

(* A thread that a step leaves alone keeps its part of the invariant. *)
LEMMA UntouchedStays ==
    ASSUME NEW u \in Threads, BoundOK(u), WalkOK(u), Untouched(u)
    PROVE  BoundOK(u)' /\ WalkOK(u)' /\ Own(u)' = Own(u)
<1>1. Own(u)' = Own(u)
    BY DEF Untouched, Own
<1>2. BoundOK(u)'
    BY DEF Untouched, BoundOK
<1>3. WalkOK(u)'
    BY <1>1 DEF Untouched, WalkOK
<1> QED
    BY <1>1, <1>2, <1>3

(* What is to be shown of a thread that goes on from pedigree to pedigree. *)
LEMMA ThreadGoesOn ==
    ASSUME PedigreeAssumption, PedigreeInv, PedigreeTypes', NEW t \in Threads,
           \A u \in Threads \ {t} : Untouched(u),
           tls'[t] # None, BoundOK(t)', WalkOK(t)', Own(t)' \in Pedigrees,
           tls[t] # None => /\ UNCHANGED global_counter /\ Base(Own(t)') = Base(Own(t))
                            /\ \A d \in Pedigrees : IsBefore(d, Own(t)) => IsBefore(d, Own(t)'),
           tls[t] = None => /\ global_counter' = global_counter + 1
                            /\ Base(Own(t)') = global_counter',
           \A d \in drawn' : d \in drawn \/ /\ d \in Pedigrees /\ Base(d) = Base(Own(t)')
                                            /\ IsBefore(d, Own(t)')
    PROVE  PedigreeInv'
<1>1. \A u \in Threads \ {t} : BoundOK(u)' /\ WalkOK(u)' /\ Own(u)' = Own(u)
    BY UntouchedStays DEF PedigreeInv
<1>2. PICK H \in SUBSET Threads, G \in SUBSET Threads : H = Having /\ G = Having'
    BY DEF Having
<1>3. PICK own, new : own = Owned /\ new = Owned'
    OBVIOUS
<1>4. \A u \in Threads \ {t} : new[u] = own[u]
    BY <1>1, <1>3 DEF Owned
<1>5. own[t] = Own(t) /\ new[t] = Own(t)'
    BY <1>3 DEF Owned
<1>6. t \in G /\ G \ {t} = H \ {t} /\ (t \in H <=> tls[t] # None)
    BY <1>2 DEF Having, Untouched
<1>7. PICK n \in Int, m \in Int : n = global_counter /\ m = global_counter'
    BY DEF PedigreeInv, PedigreeTypes
<1>8. PICK D, E : D = drawn /\ E = drawn'
    OBVIOUS
<1>9. \A d \in Pedigrees : Base(d) \in Nat
    BY RootStays DEF PedigreeAssumption
<1>10. OrderOK(H, own, n, D)
    BY <1>2, <1>3, <1>7, <1>8 DEF PedigreeInv
<1>11. new[t] \in Pedigrees /\ Base(new[t]) \in Nat
    BY <1>5, <1>9
<1>12. t \in H => /\ m = n /\ Base(new[t]) = Base(own[t])
                  /\ \A d \in Pedigrees : IsBefore(d, own[t]) => IsBefore(d, new[t])
    BY <1>5, <1>6, <1>7
<1>13. t \notin H => m = n + 1 /\ Base(new[t]) = m
    BY <1>5, <1>6, <1>7
<1>14. \A d \in E : d \in D \/ /\ d \in Pedigrees /\ Base(d) = Base(new[t])
                               /\ IsBefore(d, new[t])
    BY <1>5, <1>8
<1>15. \A u \in H \ {t} : new[u] = own[u]
    BY <1>4
<1>16. OrderOK(G, new, m, E)
    BY <1>6, <1>9, <1>10, <1>11, <1>12, <1>13, <1>14, <1>15, OrderStays
<1>17. \A u \in Threads : BoundOK(u)' /\ WalkOK(u)'
    BY <1>1
<1> QED
    BY <1>2, <1>3, <1>7, <1>8, <1>16, <1>17 DEF PedigreeInv

-----------------------------------------------------------------------------
(* The steps *)

(* The leaf of a thread out of Cilk: its own, or the one it is going to    *)
(* get.                                                                    *)
LEMMA LeafIs ==
    ASSUME PedigreeAssumption, PedigreeInv, NEW t \in Threads, bound[t] = None
    PROVE  /\ Leaf(t) \in Pedigrees /\ Len(Leaf(t)) = 2 /\ GetPedigree(t) = Leaf(t)
           /\ tls[t] # None => Leaf(t) = leaf[t] /\ Leaf(t) = Own(t)
           /\ tls[t] = None => Base(Leaf(t)) = global_counter + 1
<1>1. CASE tls[t] # None
    <2>1. Own(t) = leaf[t] /\ Leaf(t) = leaf[t]
        BY <1>1 DEF Own, Leaf
    <2>2. t \in Having /\ Owned[t] = Own(t)
        BY <1>1 DEF Having, Owned
    <2>3. Own(t) \in Pedigrees
        BY <2>2 DEF PedigreeInv, OrderOK
    <2>4. Len(leaf[t]) = 2
        BY <1>1 DEF PedigreeInv, BoundOK
    <2> QED
        BY <1>1, <2>1, <2>3, <2>4 DEF GetPedigree
<1>2. CASE tls[t] = None
    <2>1. PICK c \in Nat : c = global_counter + 1
        BY DEF PedigreeInv, PedigreeTypes
    <2>2. PICK p : p = <<0, c>>
        OBVIOUS
    <2>3. p \in Seq(Nat) /\ Len(p) = 2 /\ p[2] = c
        BY <2>2
    <2>4. p \in Pedigrees /\ Base(p) = c
        <3>1. MaxDepth \in Nat /\ 2 <= MaxDepth
            BY DEF PedigreeAssumption
        <3>2. Base(p) = c
            BY <2>3 DEF Base
        <3>3. Len(p) >= 2 /\ Len(p) <= MaxDepth
            BY <2>3, <3>1
        <3> QED
            BY <2>3, <3>2, <3>3 DEF Pedigrees
    <2>5. Leaf(t) = p
        BY <1>2, <2>1, <2>2 DEF Leaf
    <2> QED
        BY <1>2, <2>1, <2>3, <2>4, <2>5 DEF GetPedigree
<1> QED
    BY <1>1, <1>2

(* A thread that has a leaf executes under the pedigree that the interface *)
(* gives.                                                                  *)
LEMMA OwnIs ==
    ASSUME PedigreeAssumption, PedigreeInv, NEW t \in Threads, tls[t] # None
    PROVE  Own(t) \in Pedigrees /\ GetPedigree(t) = Own(t)
<1>1. t \in Having /\ Owned[t] = Own(t)
    BY DEF Having, Owned
<1>2. Own(t) \in Pedigrees
    BY <1>1 DEF PedigreeInv, OrderOK
<1>3. GetPedigree(t) = Own(t)
    BY DEF GetPedigree, Own, Leaf
<1> QED
    BY <1>2, <1>3

(* A bound thread has a leaf, and its worker is no other thread's.         *)
LEMMA WorkerIsOwn ==
    ASSUME PedigreeAssumption, PedigreeInv, NEW t \in Threads, bound[t] # None
    PROVE  /\ tls[t] # None /\ bound[t] \in UserWorkers /\ Own(t) = pedigree[bound[t]]
           /\ \A u \in Threads \ {t} : bound[u] # bound[t]
<1>1. bound[t] \in UserWorkers
    BY DEF PedigreeInv, PedigreeTypes
<1>2. BoundOK(t) /\ \A u \in Threads : BoundOK(u)
    BY DEF PedigreeInv
<1>3. tls[t] = bound[t] /\ original[bound[t]] = t
    BY <1>2 DEF BoundOK
<1>4. ASSUME NEW u \in Threads \ {t} PROVE bound[u] # bound[t]
    BY <1>2, <1>3 DEF BoundOK
<1> QED
    BY <1>1, <1>3, <1>4 DEF PedigreeAssumption, Own

(* A counter that is advanced for a new leaf, and only then. *)
LEMMA LeafCreated ==
    ASSUME PedigreeInv, NEW t \in Threads, CreateLeaf(t)
    PROVE  /\ global_counter' \in Int /\ global_counter' >= -1
           /\ tls[t] # None => UNCHANGED global_counter
           /\ tls[t] = None => global_counter' = global_counter + 1
<1>1. global_counter \in Int /\ global_counter >= -1
    BY DEF PedigreeInv, PedigreeTypes
<1> QED
    BY <1>1 DEF CreateLeaf

(* A walk goes on when only the strand's own rank changes.                 *)
LEMMA WalkedMoved ==
    ASSUME NEW p \in Pedigrees, NEW k, k.context \in Nat, Walked(k, p)
    PROVE  Walked(k, MoveRank(p, 1))
<1>1. PICK l \in Nat : l = Len(p)
    BY DEF Pedigrees
<1>2. PICK q : q = MoveRank(p, 1)
    OBVIOUS
<1>3. Len(q) = l /\ \A i \in 2..l : q[i] = p[i]
    BY <1>1, <1>2, RankMoved
<1>4. CASE k.context = Null
    BY <1>4 DEF Walked
<1>5. CASE k.context # Null
    <2>1. PICK n \in Nat : n = IF k.context = Complete THEN 1 ELSE k.context
        OBVIOUS
    <2>2. n >= 1
        BY <2>1 DEF Complete
    <2>3. \A i \in 1..(l - n) : q[i + 1] = p[i + 1]
        BY <1>3, <2>2
    <2>4. [i \in 1..(l - n) |-> q[i + 1]] = [i \in 1..(l - n) |-> p[i + 1]]
        BY <2>3
    <2> QED
        BY <1>1, <1>2, <1>3, <1>5, <2>1, <2>4 DEF Walked
<1> QED
    BY <1>4, <1>5

(* The pedigree that is drawn is the strand's, and the strand's rank moves *)
(* on.                                                                     *)
LEMMA DrawKeeps ==
    ASSUME PedigreeAssumption, PedigreeInv, NEW t \in Threads, Draw(t)
    PROVE  PedigreeInv'
<1>1. PICK p : p = GetPedigree(t)
    OBVIOUS
<1>2. p \in Pedigrees /\ (tls[t] # None => p = Own(t))
    BY <1>1, LeafIs, OwnIs, WorkerIsOwn
<1>3. PICK q \in Pedigrees : q = MoveRank(p, 1)
    BY <1>2, RankMoved
<1>4. Len(q) = Len(p) /\ Base(q) = Base(p) /\ Base(p) \in Nat
    BY <1>2, <1>3, RankMoved, RootStays DEF PedigreeAssumption
<1>5. PedigreeTypes /\ \A u \in Threads : BoundOK(u) /\ WalkOK(u)
    BY DEF PedigreeInv
<1>6. /\ drawn' = drawn \cup {p} /\ draws' = draws + 1
      /\ UNCHANGED <<bound, original, walk>> /\ BumpWorkerRank(t)
    BY <1>1 DEF Draw
<1>7. p \notin drawn
    <2>1. ASSUME NEW d \in drawn PROVE d # p
        <3>1. d \in Pedigrees /\ Base(d) <= global_counter
            BY DEF PedigreeInv, OrderOK
        <3>2. CASE tls[t] # None
            <4>1. t \in Having /\ Owned[t] = p
                BY <1>2, <3>2 DEF Having, Owned
            <4>2. Base(p) = Base(d) => IsBefore(d, p)
                BY <4>1 DEF PedigreeInv, OrderOK
            <4> QED
                BY <1>2, <3>1, <4>2, BeforeDiffers
        <3>3. CASE tls[t] = None
            <4>1. bound[t] = None
                BY <3>3, WorkerIsOwn
            <4>2. Base(p) = global_counter + 1
                BY <1>1, <3>3, <4>1, LeafIs
            <4>3. global_counter \in Int
                BY <1>5 DEF PedigreeTypes
            <4> QED
                BY <3>1, <4>2, <4>3
        <3> QED
            BY <3>2, <3>3
    <2> QED
        BY <2>1
<1>8. IsFiniteSet(drawn') /\ draws' = Cardinality(drawn')
    <2>1. IsFiniteSet(drawn) /\ draws = Cardinality(drawn)
        BY <1>5 DEF PedigreeTypes
    <2>2. IsFiniteSet(drawn \cup {p}) /\ Cardinality(drawn \cup {p}) = Cardinality(drawn) + 1
        BY <1>7, <2>1, FS_AddElement
    <2> QED
        BY <1>6, <2>1, <2>2
<1>9. IsBefore(p, q) /\ \A d \in Pedigrees : IsBefore(d, p) => IsBefore(d, q)
    BY <1>2, <1>3, BeforeMoved
<1>10. q \in Seq(Nat)
    BY DEF Pedigrees
<1>11. \A d \in drawn' : d \in drawn \/ /\ d \in Pedigrees /\ Base(d) = Base(q) /\ IsBefore(d, q)
    BY <1>2, <1>4, <1>6, <1>9
<1>12. Walked(walk[t], Own(t)) => (tls[t] # None => Walked(walk[t], q))
    <2>1. walk[t].context \in Nat
        BY <1>5 DEF PedigreeTypes
    <2> QED
        BY <1>2, <1>3, <2>1, WalkedMoved
<1>13. CASE bound[t] # None
    <2>1. /\ tls[t] # None /\ bound[t] \in UserWorkers /\ Own(t) = pedigree[bound[t]]
          /\ \A u \in Threads \ {t} : bound[u] # bound[t]
        BY <1>13, WorkerIsOwn
    <2>2. /\ pedigree' = [pedigree EXCEPT ![bound[t]] = MoveRank(@, 1)]
          /\ UNCHANGED <<leaf, tls, global_counter>>
        BY <1>6, <1>13 DEF BumpWorkerRank
    <2>3. pedigree' = [pedigree EXCEPT ![bound[t]] = q]
        BY <1>2, <1>3, <2>1, <2>2
    <2>4. PedigreeTypes'
        BY <1>5, <1>6, <1>8, <1>10, <2>1, <2>2, <2>3 DEF PedigreeTypes
    <2>5. pedigree'[bound[t]] = q
        BY <1>5, <2>1, <2>3 DEF PedigreeTypes
    <2>6. Own(t)' = q
        BY <1>6, <1>13, <2>5 DEF Own
    <2>7. \A u \in Threads \ {t} : Untouched(u)
        BY <1>5, <1>6, <2>1, <2>2, <2>3 DEF Untouched, PedigreeTypes
    <2>8. BoundOK(t)'
        BY <1>2, <1>4, <1>5, <1>6, <2>1, <2>2, <2>5 DEF BoundOK
    <2>9. WalkOK(t)'
        BY <1>5, <1>6, <1>12, <2>1, <2>2, <2>6 DEF WalkOK
    <2>10. tls'[t] # None /\ UNCHANGED global_counter
        BY <2>1, <2>2
    <2> QED
        BY <1>2, <1>3, <1>4, <1>9, <1>11, <2>1, <2>4, <2>6, <2>7, <2>8, <2>9, <2>10, ThreadGoesOn
<1>14. CASE bound[t] = None
    <2>1. p = Leaf(t) /\ Len(p) = 2 /\ (tls[t] = None => Base(p) = global_counter + 1)
        BY <1>1, <1>14, LeafIs
    <2>2. /\ CreateLeaf(t) /\ leaf' = [leaf EXCEPT ![t] = q]
          /\ tls' = [tls EXCEPT ![t] = "leaf"] /\ UNCHANGED pedigree
        BY <1>3, <1>6, <1>14, <2>1 DEF BumpWorkerRank
    <2>3. /\ global_counter' \in Int /\ global_counter' >= -1
          /\ tls[t] # None => UNCHANGED global_counter
          /\ tls[t] = None => global_counter' = global_counter + 1
        BY <2>2, LeafCreated
    <2>4. PedigreeTypes'
        BY <1>5, <1>6, <1>8, <1>10, <2>2, <2>3 DEF PedigreeTypes
    <2>5. leaf'[t] = q /\ tls'[t] = "leaf" /\ "leaf" # None
        BY <1>5, <2>2 DEF PedigreeTypes, PedigreeAssumption
    <2>6. Own(t)' = q
        BY <1>6, <1>14, <2>5 DEF Own
    <2>7. \A u \in Threads \ {t} : Untouched(u)
        BY <1>5, <1>6, <2>2 DEF Untouched, PedigreeTypes
    <2>8. BoundOK(t)'
        BY <1>4, <1>6, <1>14, <2>1, <2>5 DEF BoundOK
    <2>9. WalkOK(t)'
        <3>1. CASE tls[t] # None
            BY <1>5, <1>6, <1>12, <2>5, <2>6, <3>1 DEF WalkOK
        <3>2. CASE tls[t] = None
            <4>1. walk[t].context = Null /\ walk[t].birthranks = <<>>
                BY <1>5, <3>2 DEF WalkOK, Walked
            <4> QED
                BY <1>6, <2>5, <4>1 DEF WalkOK, Walked, Null
        <3> QED
            BY <3>1, <3>2
    <2>10. tls[t] # None => UNCHANGED global_counter /\ Base(q) = Base(Own(t))
        BY <1>2, <1>4, <2>3
    <2>11. tls[t] = None => global_counter' = global_counter + 1 /\ Base(q) = global_counter'
        BY <1>4, <2>1, <2>3
    <2>12. tls[t] # None => \A d \in Pedigrees : IsBefore(d, Own(t)) => IsBefore(d, q)
        BY <1>2, <1>9
    <2> QED
        BY <1>11, <2>4, <2>5, <2>6, <2>7, <2>8, <2>9, <2>10, <2>11, <2>12, ThreadGoesOn
<1> QED
    BY <1>13, <1>14

(* A call that walks up may give the thread its leaf, and goes one node    *)
(* further.                                                                *)
LEMMA InfoKeeps ==
    ASSUME PedigreeAssumption, PedigreeInv, NEW t \in Threads, GetPedigreeInfo(t)
    PROVE  PedigreeInv'
<1>1. PICK p : p = GetPedigree(t)
    OBVIOUS
<1>2. p \in Pedigrees /\ (tls[t] # None => p = Own(t))
    BY <1>1, LeafIs, OwnIs, WorkerIsOwn
<1>3. PICK l \in Nat : l = Len(p) /\ l >= 2 /\ l <= MaxDepth
    BY <1>2 DEF Pedigrees
<1>4. p \in Seq(Nat) /\ \A i \in 1..l : p[i] \in Nat
    BY <1>2, <1>3 DEF Pedigrees
<1>5. PedigreeTypes /\ \A u \in Threads : BoundOK(u) /\ WalkOK(u)
    BY DEF PedigreeInv
<1>6. PICK k \in [context : Nat, birthranks : Seq(Nat)] : k = walk[t]
    BY <1>5 DEF PedigreeTypes
<1>7. k.context # Complete /\ (k.context # Null => tls[t] # None) /\ Walked(k, p)
    <2>1. CASE k.context = Null
        BY <1>5, <1>6, <2>1 DEF GetPedigreeInfo, WalkOK, Walked, Null, Complete, PedigreeAssumption
    <2>2. CASE k.context # Null
        BY <1>2, <1>5, <1>6, <2>2 DEF GetPedigreeInfo, WalkOK
    <2> QED
        BY <2>1, <2>2
<1>8. PICK node : node = (IF k.context = Null THEN l ELSE k.context) - 1
    OBVIOUS
<1>9. PICK new : new = IF node = 0 THEN [k EXCEPT !.context = Complete]
                       ELSE [context |-> node, birthranks |-> Append(k.birthranks, p[l - node + 1])]
    OBVIOUS
<1>10. walk' = [walk EXCEPT ![t] = new] /\ UNCHANGED <<bound, pedigree, original, drawn, draws>>
    BY <1>1, <1>3, <1>6, <1>8, <1>9 DEF GetPedigreeInfo
<1>11. node \in 0..(l - 1)
    <2>1. CASE k.context = Null
        BY <1>3, <1>8, <2>1
    <2>2. CASE k.context # Null
        <3>1. k.context \in Nat /\ k.context # 0 /\ k.context < l
            BY <1>3, <1>6, <1>7, <2>2 DEF Walked, Complete
        <3> QED
            BY <1>8, <2>2, <3>1
    <2> QED
        BY <2>1, <2>2
<1>12. node # Null /\ Complete # Null
    BY <1>3, <1>11 DEF Null, Complete, PedigreeAssumption
<1>13. /\ new \in [context : Nat, birthranks : Seq(Nat)] /\ new.context # Null
       /\ Walked(new, p)
    <2>1. CASE node = 0
        <3>1. new = [k EXCEPT !.context = Complete]
            BY <1>9, <2>1
        <3>2. k.context = 1
            <4>1. k.context # Null
                BY <1>3, <1>8, <2>1
            <4>2. k.context \in Nat
                BY <1>6
            <4> QED
                BY <1>8, <2>1, <4>1, <4>2
        <3>3. new.context = Complete /\ new.birthranks = k.birthranks
              /\ new \in [context : Nat, birthranks : Seq(Nat)]
            BY <1>6, <3>1 DEF Complete
        <3>4. k.birthranks = [i \in 1..(l - 1) |-> p[i + 1]]
            BY <1>3, <1>7, <1>8, <2>1, <3>2 DEF Walked, Complete
        <3> QED
            BY <1>3, <1>12, <3>3, <3>4 DEF Walked, Complete
    <2>2. CASE node # 0
        <3>1. new = [context |-> node, birthranks |-> Append(k.birthranks, p[l - node + 1])]
            BY <1>9, <2>2
        <3>2. PICK n \in Nat : n = l - node - 1
            BY <1>11
        <3>3. k.birthranks = [i \in 1..n |-> p[i + 1]]
            <4>1. CASE k.context = Null
                <5>1. n = 0
                    BY <1>3, <1>8, <3>2, <4>1
                <5>2. k.birthranks = <<>> /\ [i \in 1..n |-> p[i + 1]] = <<>>
                    BY <1>7, <4>1, <5>1 DEF Walked
                <5> QED
                    BY <5>2
            <4>2. CASE k.context # Null
                <5>1. k.context \in Nat
                    BY <1>6
                <5>2. n = l - k.context
                    BY <1>8, <3>2, <4>2, <5>1
                <5> QED
                    BY <1>3, <1>7, <4>2, <5>2 DEF Walked
            <4> QED
                BY <4>1, <4>2
        <3>4. PICK b \in Seq(Nat) : b = k.birthranks
            BY <1>6
        <3>5. Len(b) = n /\ \A i \in 1..n : b[i] = p[i + 1]
            BY <3>3, <3>4
        <3>6. PICK x \in Nat : x = p[l - node + 1]
            <4>1. l - node + 1 \in 1..l
                BY <1>11, <2>2
            <4> QED
                BY <1>4, <4>1
        <3>7. PICK c \in Seq(Nat) : c = Append(b, x)
            BY AppendProperties
        <3>8. Len(c) = n + 1 /\ c[n + 1] = x /\ \A i \in 1..n : c[i] = b[i]
            BY <3>5, <3>7
        <3>9. ASSUME NEW i \in 1..(n + 1) PROVE c[i] = p[i + 1]
            <4>1. CASE i = n + 1
                <5>1. (n + 1) + 1 = l - node + 1
                    BY <1>11, <3>2
                <5> QED
                    BY <3>6, <3>8, <4>1, <5>1
            <4>2. CASE i # n + 1
                <5>1. i \in 1..n
                    BY <4>2
                <5> QED
                    BY <3>5, <3>8, <5>1
            <4> QED
                BY <4>1, <4>2
        <3>10. l - node = n + 1
            BY <1>11, <3>2
        <3>11. c = [i \in 1..(l - node) |-> p[i + 1]]
            BY <3>8, <3>9, <3>10
        <3>12. /\ new.context = node /\ new.birthranks = c /\ node \in Nat
               /\ new \in [context : Nat, birthranks : Seq(Nat)]
            BY <1>11, <3>1, <3>4, <3>6, <3>7
        <3>13. node < l
            BY <1>11
        <3> QED
            BY <1>3, <1>12, <2>2, <3>11, <3>12, <3>13 DEF Walked, Complete
    <2> QED
        BY <2>1, <2>2
<1>14. walk'[t] = new
    BY <1>5, <1>10 DEF PedigreeTypes
<1>15. drawn' = drawn /\ IsFiniteSet(drawn') /\ draws' = Cardinality(drawn')
    BY <1>5, <1>10 DEF PedigreeTypes
<1>16. CASE bound[t] # None
    <2>1. tls[t] # None
        BY <1>16, WorkerIsOwn
    <2>2. UNCHANGED <<leaf, tls, global_counter>>
        BY <1>16 DEF GetPedigreeInfo
    <2>3. PedigreeTypes'
        BY <1>5, <1>10, <1>13, <1>15, <2>2 DEF PedigreeTypes
    <2>4. Own(t)' = p
        BY <1>2, <1>10, <2>1, <2>2 DEF Own
    <2>5. \A u \in Threads \ {t} : Untouched(u)
        BY <1>5, <1>10, <2>2 DEF Untouched, PedigreeTypes
    <2>6. BoundOK(t)'
        BY <1>5, <1>10, <2>2 DEF BoundOK
    <2>7. WalkOK(t)'
        BY <1>13, <1>14, <2>1, <2>2, <2>4 DEF WalkOK
    <2>8. tls'[t] # None /\ Own(t)' = Own(t)
        BY <1>2, <2>1, <2>2, <2>4
    <2> QED
        BY <1>2, <1>15, <2>1, <2>2, <2>3, <2>4, <2>5, <2>6, <2>7, <2>8, ThreadGoesOn
<1>17. CASE bound[t] = None
    <2>1. p = Leaf(t) /\ Len(p) = 2 /\ (tls[t] = None => Base(p) = global_counter + 1)
        BY <1>1, <1>17, LeafIs
    <2>2. /\ CreateLeaf(t) /\ leaf' = [leaf EXCEPT ![t] = p] /\ tls' = [tls EXCEPT ![t] = "leaf"]
        BY <1>17, <2>1 DEF GetPedigreeInfo
    <2>3. /\ global_counter' \in Int /\ global_counter' >= -1
          /\ tls[t] # None => UNCHANGED global_counter
          /\ tls[t] = None => global_counter' = global_counter + 1
        BY <2>2, LeafCreated
    <2>4. PedigreeTypes'
        BY <1>4, <1>5, <1>10, <1>13, <1>15, <2>2, <2>3 DEF PedigreeTypes
    <2>5. leaf'[t] = p /\ tls'[t] = "leaf" /\ "leaf" # None
        BY <1>5, <2>2 DEF PedigreeTypes, PedigreeAssumption
    <2>6. Own(t)' = p
        BY <1>10, <1>17, <2>5 DEF Own
    <2>7. \A u \in Threads \ {t} : Untouched(u)
        BY <1>5, <1>10, <2>2 DEF Untouched, PedigreeTypes
    <2>8. BoundOK(t)'
        BY <1>10, <1>17, <2>1, <2>5 DEF BoundOK
    <2>9. WalkOK(t)'
        BY <1>13, <1>14, <2>5, <2>6 DEF WalkOK
    <2>10. tls[t] # None => UNCHANGED global_counter /\ p = Own(t)
        BY <1>2, <2>3
    <2>11. tls[t] = None => global_counter' = global_counter + 1 /\ Base(p) = global_counter'
        BY <2>1, <2>3
    <2> QED
        BY <1>2, <1>15, <2>4, <2>5, <2>6, <2>7, <2>8, <2>9, <2>10, <2>11, ThreadGoesOn
<1> QED
    BY <1>16, <1>17

(* A thread that binds goes on in the worker from its own leaf. *)
LEMMA BindKeeps ==
    ASSUME PedigreeAssumption, PedigreeInv, NEW t \in Threads, NEW w \in UserWorkers, Bind(t, w)
    PROVE  PedigreeInv'
<1>1. bound[t] = None /\ \A u \in Threads : bound[u] # w
    BY DEF Bind
<1>2. PICK p \in Pedigrees : p = Leaf(t)
    BY <1>1, LeafIs
<1>3. /\ Len(p) = 2 /\ (tls[t] # None => p = Own(t))
      /\ tls[t] = None => Base(p) = global_counter + 1
    BY <1>1, <1>2, LeafIs
<1>4. /\ CreateLeaf(t) /\ leaf' = [leaf EXCEPT ![t] = p] /\ pedigree' = [pedigree EXCEPT ![w] = p]
      /\ original' = [original EXCEPT ![w] = t] /\ tls' = [tls EXCEPT ![t] = w]
      /\ bound' = [bound EXCEPT ![t] = w] /\ UNCHANGED <<walk, drawn, draws>>
    BY <1>2 DEF Bind, LoadPedigreeLeaf
<1>5. PedigreeTypes /\ \A u \in Threads : BoundOK(u) /\ WalkOK(u)
    BY DEF PedigreeInv
<1>6. /\ global_counter' \in Int /\ global_counter' >= -1
      /\ tls[t] # None => UNCHANGED global_counter
      /\ tls[t] = None => global_counter' = global_counter + 1
    BY <1>4, LeafCreated
<1>7. p \in Seq(Nat)
    BY DEF Pedigrees
<1>8. PedigreeTypes'
    BY <1>4, <1>5, <1>6, <1>7 DEF PedigreeTypes
<1>9. leaf'[t] = p /\ pedigree'[w] = p /\ original'[w] = t /\ tls'[t] = w /\ bound'[t] = w
      /\ w # None
    BY <1>4, <1>5 DEF PedigreeTypes, PedigreeAssumption
<1>10. Own(t)' = p
    BY <1>9 DEF Own
<1>11. \A u \in Threads \ {t} : Untouched(u)
    BY <1>1, <1>4, <1>5 DEF Untouched, PedigreeTypes
<1>12. BoundOK(t)'
    BY <1>3, <1>9 DEF BoundOK, Base
<1>13. WalkOK(t)'
    <2>1. CASE tls[t] # None
        BY <1>3, <1>4, <1>5, <1>9, <1>10, <2>1 DEF WalkOK
    <2>2. CASE tls[t] = None
        <3>1. walk[t].context = Null /\ walk[t].birthranks = <<>>
            BY <1>5, <2>2 DEF WalkOK, Walked
        <3> QED
            BY <1>4, <1>9, <3>1 DEF WalkOK, Walked, Null
    <2> QED
        BY <2>1, <2>2
<1>14. tls[t] # None => UNCHANGED global_counter /\ p = Own(t)
    BY <1>3, <1>6
<1>15. tls[t] = None => global_counter' = global_counter + 1 /\ Base(p) = global_counter'
    BY <1>3, <1>6
<1>16. tls'[t] # None /\ drawn' = drawn
    BY <1>4, <1>9
<1> QED
    BY <1>8, <1>10, <1>11, <1>12, <1>13, <1>14, <1>15, <1>16, ThreadGoesOn

(* A spawn, a return or a sync of a bound thread.                          *)
LEMMA MoveKeeps ==
    ASSUME PedigreeAssumption, PedigreeInv, NEW t \in Threads, NEW p \in Pedigrees, Move(t, p),
           Base(p) = Base(Own(t)), \A d \in Pedigrees : IsBefore(d, Own(t)) => IsBefore(d, p)
    PROVE  PedigreeInv'
<1>1. /\ bound[t] # None /\ pedigree' = [pedigree EXCEPT ![bound[t]] = p] /\ EndWalk(t)
      /\ UNCHANGED <<leaf, tls, bound, original, global_counter, drawn, draws>>
    BY DEF Move
<1>2. /\ tls[t] # None /\ bound[t] \in UserWorkers /\ Own(t) = pedigree[bound[t]]
      /\ \A u \in Threads \ {t} : bound[u] # bound[t]
    BY <1>1, WorkerIsOwn
<1>3. PedigreeTypes /\ \A u \in Threads : BoundOK(u) /\ WalkOK(u)
    BY DEF PedigreeInv
<1>4. p \in Seq(Nat) /\ NewWalk \in [context : Nat, birthranks : Seq(Nat)]
    <2>1. Null \in Nat
        BY DEF Null, PedigreeAssumption
    <2>2. <<>> \in Seq(Nat)
        BY EmptySeq
    <2> QED
        BY <2>1, <2>2 DEF NewWalk, Pedigrees
<1>5. PedigreeTypes'
    BY <1>1, <1>2, <1>3, <1>4 DEF PedigreeTypes, EndWalk
<1>6. pedigree'[bound[t]] = p /\ walk'[t] = NewWalk
    BY <1>1, <1>2, <1>3 DEF PedigreeTypes, EndWalk
<1>7. Own(t)' = p
    BY <1>1, <1>6 DEF Own
<1>8. \A u \in Threads \ {t} : Untouched(u)
    BY <1>1, <1>2, <1>3 DEF Untouched, PedigreeTypes, EndWalk
<1>9. BoundOK(t)'
    BY <1>1, <1>2, <1>3, <1>6 DEF BoundOK
<1>10. WalkOK(t)'
    BY <1>6 DEF WalkOK, Walked, NewWalk
<1>11. tls'[t] # None /\ drawn' = drawn /\ UNCHANGED global_counter
    BY <1>1, <1>2
<1> QED
    BY <1>2, <1>5, <1>7, <1>8, <1>9, <1>10, <1>11, ThreadGoesOn

(* A spawn, a return and a sync lead to pedigrees after those drawn        *)
(* before.                                                                 *)
LEMMA SpawnKeeps ==
    ASSUME PedigreeAssumption, PedigreeInv, NEW t \in Threads,
           Spawn(t) \/ ReturnFromSpawn(t) \/ Sync(t)
    PROVE  PedigreeInv'
<1>1. bound[t] # None
    BY DEF Spawn, ReturnFromSpawn, Sync, Move
<1>2. PICK p \in Pedigrees : p = GetPedigree(t) /\ p = Own(t)
    BY <1>1, OwnIs, WorkerIsOwn
<1>3. MaxDepth \in Nat /\ 1 \in Nat \ {0}
    BY DEF PedigreeAssumption
<1>4. CASE Spawn(t)
    <2>1. Len(p) < MaxDepth /\ Move(t, <<0>> \o p)
        BY <1>2, <1>4 DEF Spawn
    <2>2. PICK q \in Pedigrees : q = <<0>> \o p
        BY <1>3, <2>1, Spawned
    <2>3. Base(q) = Base(Own(t))
        BY <1>2, <1>3, <2>1, <2>2, RootStays
    <2>4. \A d \in Pedigrees : IsBefore(d, Own(t)) => IsBefore(d, q)
        BY <1>2, <1>3, <2>1, <2>2, BeforeSpawned
    <2> QED
        BY <2>1, <2>2, <2>3, <2>4, MoveKeeps
<1>5. CASE ReturnFromSpawn(t)
    <2>1. Len(p) > 2 /\ Move(t, MoveRank(Tail(p), 1))
        BY <1>2, <1>5 DEF ReturnFromSpawn
    <2>2. PICK r \in Pedigrees : r = Tail(p)
        BY <1>3, <2>1, Returned
    <2>3. PICK q \in Pedigrees : q = MoveRank(r, 1)
        BY <1>3, RankMoved
    <2>4. Base(q) = Base(Own(t))
        BY <1>2, <1>3, <2>1, <2>2, <2>3, RootStays
    <2>5. \A d \in Pedigrees : IsBefore(d, Own(t)) => IsBefore(d, q)
        BY <1>2, <1>3, <2>1, <2>2, <2>3, BeforeReturned
    <2> QED
        BY <2>1, <2>2, <2>3, <2>4, <2>5, MoveKeeps
<1>6. CASE Sync(t)
    <2>1. PICK q \in Pedigrees : q = MoveRank(p, 1)
        BY <1>3, RankMoved
    <2>2. Move(t, q)
        BY <1>2, <1>6, <2>1 DEF Sync
    <2>3. Base(q) = Base(Own(t))
        BY <1>2, <1>3, <2>1, RootStays
    <2>4. \A d \in Pedigrees : IsBefore(d, Own(t)) => IsBefore(d, q)
        BY <1>2, <1>3, <2>1, BeforeMoved
    <2> QED
        BY <2>2, <2>3, <2>4, MoveKeeps
<1> QED
    BY <1>4, <1>5, <1>6

(* The thread goes on from the rank that the worker had reached. *)
LEMMA UnbindKeeps ==
    ASSUME PedigreeAssumption, PedigreeInv, NEW t \in Threads, Unbind(t)
    PROVE  PedigreeInv'
<1>1. PICK w : w = bound[t]
    OBVIOUS
<1>2. /\ w # None /\ tls[t] # None /\ w \in UserWorkers /\ Own(t) = pedigree[w]
      /\ \A u \in Threads \ {t} : bound[u] # w
    BY <1>1, WorkerIsOwn DEF Unbind
<1>3. PICK p \in Pedigrees : p = pedigree[w] /\ p = Own(t) /\ p = GetPedigree(t)
    BY <1>2, OwnIs
<1>4. Len(p) = 2 /\ p \in Seq(Nat)
    BY <1>3 DEF Unbind, Pedigrees
<1>5. PedigreeTypes /\ \A u \in Threads : BoundOK(u) /\ WalkOK(u)
    BY DEF PedigreeInv
<1>6. original[w] = t /\ Len(leaf[t]) = 2 /\ leaf[t][2] = Base(p) /\ leaf[t] \in Seq(Nat)
    BY <1>1, <1>2, <1>3, <1>5 DEF BoundOK, PedigreeTypes
<1>7. /\ leaf' = [leaf EXCEPT ![original[w]] = <<Head(pedigree[w])>> \o Tail(@)]
      /\ tls' = [tls EXCEPT ![t] = "leaf"] /\ original' = [original EXCEPT ![w] = None]
      /\ bound' = [bound EXCEPT ![t] = None]
      /\ UNCHANGED <<pedigree, global_counter, walk, drawn, draws>>
    BY <1>1 DEF Unbind, SavePedigreeLeaf
<1>8. <<Head(p)>> \o Tail(leaf[t]) = p
    <2>1. PICK x \in Nat : x = Head(p) /\ x = p[1]
        BY <1>4
    <2>2. PICK r : r = Tail(leaf[t])
        OBVIOUS
    <2>8. r \in Seq(Nat) /\ Len(r) = 1 /\ r[1] = leaf[t][2]
        <3>1. leaf[t] # <<>>
            BY <1>6
        <3>2. /\ r \in Seq(Nat) /\ Len(r) = Len(leaf[t]) - 1
              /\ \A i \in 1..Len(r) : r[i] = leaf[t][i + 1]
            BY <1>6, <2>2, <3>1, HeadTailProperties
        <3>3. Len(r) = 1 /\ 1 \in 1..1 /\ 1 + 1 = 2
            BY <1>6, <3>2
        <3>4. r[1] = leaf[t][1 + 1]
            BY <3>2, <3>3
        <3> QED
            BY <3>2, <3>3, <3>4
    <2>3. PICK q : q = <<x>> \o r
        OBVIOUS
    <2>4. q \in Seq(Nat) /\ Len(q) = 2 /\ q[1] = x /\ q[2] = r[1]
        <3>1. /\ q \in Seq(Nat) /\ Len(q) = Len(r) + 1 /\ q[1] = x
              /\ \A i \in 1..Len(r) : q[i + 1] = r[i]
            BY <2>3, <2>8, Prefixed
        <3>2. q[1 + 1] = r[1]
            <4>1. 1 \in 1..Len(r)
                BY <2>8
            <4> QED
                BY <3>1, <4>1
        <3> QED
            BY <2>8, <3>1, <3>2
    <2>5. r[1] = p[2]
        BY <1>4, <1>6, <2>8 DEF Base
    <2>6. Len(q) = Len(p) /\ \A i \in 1..Len(q) : q[i] = p[i]
        BY <1>4, <2>1, <2>4, <2>5
    <2>7. q = p
        <3>1. q \in Seq(Nat) /\ p \in Seq(Nat)
            BY <1>4, <2>4
        <3> QED
            BY <2>6, <3>1
    <2> QED
        BY <2>1, <2>2, <2>3, <2>7
<1>9. leaf' = [leaf EXCEPT ![t] = p]
    BY <1>3, <1>6, <1>7, <1>8
<1>10. PedigreeTypes'
    BY <1>2, <1>4, <1>5, <1>7, <1>9 DEF PedigreeTypes
<1>11. leaf'[t] = p /\ tls'[t] = "leaf" /\ "leaf" # None /\ bound'[t] = None
    BY <1>5, <1>7, <1>9 DEF PedigreeTypes, PedigreeAssumption
<1>12. Own(t)' = p
    BY <1>11 DEF Own
<1>13. \A u \in Threads \ {t} : Untouched(u)
    BY <1>2, <1>5, <1>7, <1>9 DEF Untouched, PedigreeTypes
<1>14. BoundOK(t)'
    BY <1>4, <1>11 DEF BoundOK
<1>15. WalkOK(t)'
    BY <1>3, <1>5, <1>7, <1>11, <1>12 DEF WalkOK
<1>16. drawn' = drawn /\ UNCHANGED global_counter
    BY <1>7
<1> QED
    BY <1>2, <1>3, <1>10, <1>11, <1>12, <1>13, <1>14, <1>15, <1>16, ThreadGoesOn

(* A root whose thread has ended is not used again. *)
LEMMA EndKeeps ==
    ASSUME PedigreeAssumption, PedigreeInv, NEW t \in Threads, ThreadEnds(t)
    PROVE  PedigreeInv'
<1>1. /\ bound[t] = None /\ tls' = [tls EXCEPT ![t] = None] /\ leaf' = [leaf EXCEPT ![t] = <<>>]
      /\ walk' = [walk EXCEPT ![t] = NewWalk]
      /\ UNCHANGED <<bound, pedigree, original, global_counter, drawn, draws>>
    BY DEF ThreadEnds, EndWalk
<1>2. PedigreeTypes /\ \A u \in Threads : BoundOK(u) /\ WalkOK(u)
    BY DEF PedigreeInv
<1>3. <<>> \in Seq(Nat) /\ NewWalk \in [context : Nat, birthranks : Seq(Nat)]
    <2>1. Null \in Nat
        BY DEF Null, PedigreeAssumption
    <2>2. <<>> \in Seq(Nat)
        BY EmptySeq
    <2> QED
        BY <2>1, <2>2 DEF NewWalk
<1>4. PedigreeTypes'
    BY <1>1, <1>2, <1>3 DEF PedigreeTypes
<1>5. \A u \in Threads \ {t} : Untouched(u)
    BY <1>1, <1>2 DEF Untouched, PedigreeTypes
<1>6. \A u \in Threads \ {t} : BoundOK(u)' /\ WalkOK(u)' /\ Own(u)' = Own(u)
    BY <1>2, <1>5, UntouchedStays
<1>7. tls'[t] = None /\ bound'[t] = None /\ walk'[t] = NewWalk
    BY <1>1, <1>2 DEF PedigreeTypes
<1>8. BoundOK(t)' /\ WalkOK(t)'
    BY <1>7 DEF BoundOK, WalkOK, Walked, NewWalk
<1>9. PICK H, G, own, new : H = Having /\ G = Having' /\ own = Owned /\ new = Owned'
    OBVIOUS
<1>10. G \subseteq H \ {t} /\ \A u \in G : new[u] = own[u]
    <2>1. G \subseteq H \ {t}
        BY <1>5, <1>7, <1>9 DEF Having, Untouched
    <2>2. \A u \in Threads \ {t} : new[u] = own[u]
        BY <1>6, <1>9 DEF Owned
    <2>3. H \subseteq Threads
        BY <1>9 DEF Having
    <2> QED
        BY <2>1, <2>2, <2>3
<1>11. OrderOK(H, own, global_counter, drawn)
    BY <1>9 DEF PedigreeInv
<1>12. OrderOK(G, new, global_counter, drawn)
    BY <1>10, <1>11 DEF OrderOK
<1> QED
    BY <1>1, <1>4, <1>6, <1>8, <1>9, <1>12 DEF PedigreeInv

(* Every step keeps the invariant. *)
LEMMA PedigreeStep ==
    ASSUME PedigreeAssumption, PedigreeInv, [PNext]_pvars
    PROVE  PedigreeInv'
<1>1. CASE PNext
    <2>1. PICK t \in Threads :
             \/ Draw(t) \/ GetPedigreeInfo(t) \/ ThreadEnds(t)
             \/ Spawn(t) \/ ReturnFromSpawn(t) \/ Sync(t)
             \/ Unbind(t) \/ \E w \in UserWorkers : Bind(t, w)
        BY <1>1 DEF PNext
    <2> QED
        BY <2>1, DrawKeeps, InfoKeeps, EndKeeps, SpawnKeeps, UnbindKeeps, BindKeeps
<1>2. CASE UNCHANGED pvars
    <2>1. /\ leaf' = leaf /\ tls' = tls /\ bound' = bound /\ pedigree' = pedigree
          /\ original' = original /\ global_counter' = global_counter /\ walk' = walk
          /\ drawn' = drawn /\ draws' = draws
        BY <1>2 DEF pvars
    <2>2. PedigreeTypes'
        BY <2>1 DEF PedigreeInv, PedigreeTypes
    <2>3. \A u \in Threads : Untouched(u)
        BY <2>1 DEF Untouched
    <2>4. \A u \in Threads : BoundOK(u)' /\ WalkOK(u)'
        BY <2>3, UntouchedStays DEF PedigreeInv
    <2>5. Having' = Having /\ Owned' = Owned
        BY <2>1 DEF Having, Owned, Own
    <2> QED
        BY <2>1, <2>2, <2>4, <2>5 DEF PedigreeInv
<1> QED
    BY <1>1, <1>2

(* No thread has a leaf and nothing was drawn. *)
LEMMA PedigreeInit ==
    ASSUME PedigreeAssumption, PInit
    PROVE  PedigreeInv
<1>1. /\ leaf = [t \in Threads |-> <<>>] /\ tls = [t \in Threads |-> None]
      /\ bound = [t \in Threads |-> None] /\ pedigree = [w \in UserWorkers |-> <<>>]
      /\ original = [w \in UserWorkers |-> None] /\ global_counter = -1
      /\ walk = [t \in Threads |-> NewWalk] /\ drawn = {} /\ draws = 0
    BY DEF PInit
<1>2. <<>> \in Seq(Nat) /\ NewWalk \in [context : Nat, birthranks : Seq(Nat)]
    <2>1. Null \in Nat
        BY DEF Null, PedigreeAssumption
    <2>2. <<>> \in Seq(Nat)
        BY EmptySeq
    <2> QED
        BY <2>1, <2>2 DEF NewWalk
<1>3. IsFiniteSet(drawn) /\ draws = Cardinality(drawn)
    BY <1>1, FS_EmptySet
<1>4. PedigreeTypes
    BY <1>1, <1>2, <1>3 DEF PedigreeTypes
<1>5. \A t \in Threads : BoundOK(t) /\ WalkOK(t)
    BY <1>1 DEF BoundOK, WalkOK, Walked, NewWalk
<1>6. OrderOK(Having, Owned, global_counter, drawn)
    BY <1>1 DEF OrderOK, Having
<1> QED
    BY <1>4, <1>5, <1>6 DEF PedigreeInv

(* The invariant implies the property of the run. *)
LEMMA PedigreesFollow ==
    ASSUME PedigreeAssumption, PedigreeInv
    PROVE  PedigreesDiffer
<1>1. draws = Cardinality(drawn)
    BY DEF PedigreeInv, PedigreeTypes
<1>2. ASSUME NEW t \in Threads, walk[t].context = Complete
      PROVE  walk[t].birthranks = Tail(GetPedigree(t))
    <2>1. Complete # Null
        BY DEF Complete, Null, PedigreeAssumption
    <2>2. tls[t] # None /\ Walked(walk[t], Own(t))
        BY <1>2, <2>1 DEF PedigreeInv, WalkOK
    <2>3. PICK p \in Pedigrees : p = Own(t) /\ p = GetPedigree(t)
        BY <2>2, OwnIs
    <2>4. PICK l \in Nat : l = Len(p) /\ l >= 2 /\ p \in Seq(Nat)
        BY DEF Pedigrees
    <2>5. walk[t].birthranks = [i \in 1..(l - 1) |-> p[i + 1]]
        BY <1>2, <2>1, <2>2, <2>3, <2>4 DEF Walked
    <2>6. PICK r : r = Tail(p)
        OBVIOUS
    <2>7. r \in Seq(Nat) /\ Len(r) = l - 1 /\ \A i \in 1..(l - 1) : r[i] = p[i + 1]
        <3>1. p # <<>>
            BY <2>4
        <3>2. /\ r \in Seq(Nat) /\ Len(r) = Len(p) - 1 /\ \A i \in 1..Len(r) : r[i] = p[i + 1]
            BY <2>4, <2>6, <3>1, HeadTailProperties
        <3>3. Len(r) = l - 1
            BY <2>4, <3>2
        <3> QED
            BY <3>2, <3>3
    <2>8. r = [i \in 1..(l - 1) |-> p[i + 1]]
        BY <2>4, <2>7
    <2> QED
        BY <2>3, <2>5, <2>6, <2>8
<1>3. ASSUME NEW t \in Threads, bound[t] # None
      PROVE  /\ tls[t] = bound[t] /\ original[bound[t]] = t
             /\ pedigree[bound[t]][Len(pedigree[bound[t]])] = leaf[t][2]
    BY <1>3 DEF PedigreeInv, BoundOK, Base
<1> QED
    BY <1>1, <1>2, <1>3 DEF PedigreesDiffer

(* No two strands draw the same pedigree (pedigrees.c:66-113), a walk      *)
(* gives a strand's ranks up to its root whether or not the thread binds   *)
(* or leaves in the middle (cilk_api.c:166-266), and the thread's own leaf *)
(* is where its worker's pedigree began (os-unix.c:185-232), for any       *)
(* number of threads and workers and any depth of spawns.                  *)
THEOREM StrandsDiffer ==
    ASSUME PedigreeAssumption
    PROVE  PSpec => []PedigreesDiffer
<1>1. PInit => PedigreeInv
    BY PedigreeInit
<1>2. PedigreeInv /\ [PNext]_pvars => PedigreeInv'
    BY PedigreeStep
<1>3. PedigreeInv => PedigreesDiffer
    BY PedigreesFollow
<1> QED
    BY <1>1, <1>2, <1>3, PTL DEF PSpec

-----------------------------------------------------------------------------
(* The arithmetic *)

(* A quotient is a natural number, and what is left is less than the       *)
(* divisor.                                                                *)
LEMMA QuotientFits ==
    ASSUME NEW a \in Nat, NEW b \in Nat \ {0}
    PROVE  a \div b \in Nat /\ b * (a \div b) <= a /\ a < b * (a \div b) + b
OBVIOUS

(* What is given to each does not exceed what there is. *)
LEMMA SmallerShares ==
    ASSUME NEW p \in Nat, NEW x \in Nat, NEW y \in Nat, x <= y
    PROVE  p * x <= p * y
<1>1. PICK d \in Nat : y = x + d
    <2>1. y - x \in Nat /\ y = x + (y - x)
        OBVIOUS
    <2> QED
        BY <2>1
<1>2. p * (x + d) = p * x + p * d /\ p * x \in Nat /\ p * d \in Nat
    OBVIOUS
<1> QED
    BY <1>1, <1>2

(* Stack sizes are whole pages, and looking again does not change them.    *)
LEMMA Validated ==
    ASSUME NEW n \in Nat
    PROVE  /\ ValidateStackSize(n) \in Nat /\ ValidateStackSize(n) % PAGE = 0
           /\ ValidateStackSize(n) >= MinStackSize
           /\ ValidateStackSize(ValidateStackSize(n)) = ValidateStackSize(n)
<1>1. PICK v : v = ValidateStackSize(n)
    OBVIOUS
<1>2. v \in Nat /\ v % 4096 = 0 /\ v >= 16384
    BY <1>1 DEF ValidateStackSize, MinStackSize, PAGE
<1>3. ValidateStackSize(v) = v
    BY <1>2 DEF ValidateStackSize, MinStackSize, PAGE
<1> QED
    BY <1>1, <1>2, <1>3 DEF MinStackSize, PAGE

(* Whole pages, three at least, of which one is a guard; a stack's top is  *)
(* the end of a page.                                                      *)
LEMMA StackMade ==
    ASSUME SettingsAssumption, machine \in Machines, NEW n \in Nat
    PROVE  LET stack == MakeStack(n) IN
              /\ stack.stack_max >= stack.low + machine.page
              /\ FreeStack(stack) = RoundToPages(n)
<1>1. PICK page \in Nat \ {0} : page = machine.page /\ page % 32 = 0
    BY DEF SettingsAssumption
<1>2. PICK k \in Nat : page = 32 * k
    <2>1. page \div 32 \in Nat /\ page = 32 * (page \div 32)
        BY <1>1
    <2> QED
        BY <2>1
<1>3. PICK q \in Nat : RoundToPages(n) = page * q /\ page * q >= 3 * page
    <2>1. CASE n < 3 * page
        BY <1>1, <2>1 DEF RoundToPages
    <2>2. CASE ~(n < 3 * page)
        <3>1. PICK a \in Nat : a = n + page - 1
            OBVIOUS
        <3>2. PICK q \in Nat : q = a \div page /\ a < page * q + page
            BY QuotientFits
        <3>3. page * q \in Nat
            OBVIOUS
        <3>4. page * q >= n
            BY <3>1, <3>2, <3>3
        <3>5. page * q >= 3 * page
            BY <2>2, <3>3, <3>4
        <3>6. RoundToPages(n) = page * q
            BY <1>1, <2>2, <3>1, <3>2 DEF RoundToPages
        <3> QED
            BY <3>5, <3>6
    <2> QED
        BY <2>1, <2>2
<1>4. PICK b \in Nat : b = page * q - page /\ b >= 2 * page
    <2>1. page * q \in Nat
        OBVIOUS
    <2> QED
        BY <1>3, <2>1
<1>5. b % 32 = 0
    <2>1. PICK m \in Int : m = k * q - k
        OBVIOUS
    <2>2. page * q = 32 * (k * q)
        BY <1>2
    <2>3. k * q \in Nat
        OBVIOUS
    <2>4. b = 32 * m
        BY <1>2, <1>4, <2>1, <2>2, <2>3
    <2> QED
        BY <2>4
<1>6. MakeStack(n) = [low |-> page, stack_max |-> b]
    <2>1. RoundToPages(n) - machine.page = b
        BY <1>1, <1>3, <1>4
    <2>2. b - (b % 32) = b
        BY <1>5
    <2> QED
        BY <1>1, <2>1, <2>2 DEF MakeStack
<1>7. b >= page + page /\ b + page = page * q
    <2>1. page * q \in Nat
        OBVIOUS
    <2> QED
        BY <1>4, <2>1
<1>8. PICK stack : stack = MakeStack(n)
    OBVIOUS
<1>9. stack.stack_max = b /\ stack.low = page
    BY <1>6, <1>8
<1> QED
    BY <1>1, <1>3, <1>7, <1>8, <1>9 DEF FreeStack

(* The processors there are, and those the runtime counts on.              *)
LEMMA MachineHas ==
    ASSUME SettingsAssumption, machine \in Machines
    PROVE  /\ Cores \in Nat \ {0} /\ HardwareCpuCount \in 1..Cores /\ machine.ptool \in BOOLEAN
           /\ machine.ptool => HardwareCpuCount = 1
<1>1. /\ machine.online \in Nat \ {0} /\ machine.affinity \in Nat /\ machine.ptool \in BOOLEAN
    BY DEF SettingsAssumption
<1>2. Cores \in Nat \ {0}
    BY <1>1 DEF Cores
<1> QED
    BY <1>1, <1>2 DEF HardwareCpuCount

(* What a number of the environment, or of a call, can set.                *)
LEMMA Stored ==
    ASSUME SettingsAssumption, NEW old \in Int, NEW val \in Int \cup {Junk}, NEW min \in Int, NEW max \in Int
    PROVE  LET r == StoreInt(old, val, min, max) IN
              \/ r.ret = "xrange" /\ r.out = old
              \/ /\ r.ret = "success" /\ r.out \in min..max
                 /\ r.out = IF val = Junk THEN 0 ELSE val
<1>1. (IF val = Junk THEN 0 ELSE val) \in Int
    BY DEF SettingsAssumption
<1> QED
    BY <1>1 DEF StoreInt

-----------------------------------------------------------------------------
(* The invariant *)

GlobalState ==
    [P : Int, max_user_workers : Int, fiber_pool_size : Int, global_fiber_pool_size : Int,
     max_stacks : Nat, stack_size : Nat, force_reduce : Int, max_steal_failures : Int, total_workers : Int,
     record_or_replay : {"none", "record", "replay"}]

(* What the settings are before and after each change.                     *)
Settable(s) == /\ s.P \in 1..(16 * Cores) /\ (machine.ptool => s.P = 1)
               /\ s.max_user_workers \in 0..(16 * Cores)
               /\ s.fiber_pool_size \in Nat
               /\ s.max_steal_failures \in 1..INT_MAX

(* What the start makes of them.                                           *)
SharedOut(s) ==
    /\ s.P \in 1..(16 * Cores) /\ (machine.ptool => s.P = 1)
    /\ s.max_steal_failures \in 1..INT_MAX
    /\ s.total_workers - s.P + 1 \in {Larger(3, 2 * s.P)} \cup 1..(16 * Cores)
    /\ s.max_stacks > 0 => s.max_stacks >= s.P /\ s.P * s.fiber_pool_size <= s.max_stacks
    /\ s.stack_size \in Nat /\ s.stack_size % PAGE = 0 /\ s.stack_size >= MinStackSize

(* What was asked for is what is set.                                      *)
Granted(s) ==
    /\ asked["nworkers"] \notin {Unset, 0} => s.P = asked["nworkers"]
    /\ asked["nworkers"] = 0 => s.P = HardwareCpuCount
    /\ asked["stack_size"] # Unset => /\ asked["stack_size"] \in Nat
                                      /\ s.stack_size = ValidateStackSize(asked["stack_size"])

SettingTypes ==
    /\ machine \in Machines /\ env \in Env
    /\ initialized \in BOOLEAN /\ singleton \in BOOLEAN
    /\ g \in GlobalState /\ asked \in [Names -> Int \cup {Unset}]

SettingsInv ==
    /\ SettingTypes
    /\ initialized => Settable(g) /\ Granted(g)
    /\ ~initialized => ~singleton /\ asked = [n \in Names |-> Unset]
    /\ singleton => /\ SharedOut(running)
                    /\ running.P = g.P /\ running.stack_size = g.stack_size

(* The invariant implies the property of the run. *)
LEMMA SettingsFollow ==
    ASSUME SettingsAssumption, SettingsInv
    PROVE  SettingsHold
<1> SUFFICES ASSUME singleton PROVE SettingsHold
    BY DEF SettingsHold
<1>1. initialized /\ SharedOut(running) /\ running.P = g.P /\ running.stack_size = g.stack_size
    BY DEF SettingsInv
<1>2. Granted(g) /\ machine \in Machines
    BY <1>1 DEF SettingsInv, SettingTypes
<1>3. LET stack == MakeStack(running.stack_size) IN
         /\ stack.stack_max >= stack.low + machine.page
         /\ FreeStack(stack) = RoundToPages(running.stack_size)
    <2>1. running.stack_size \in Nat
        BY <1>1 DEF SharedOut
    <2> QED
        BY <1>2, <2>1, StackMade
<1>4. /\ asked["nworkers"] \notin {Unset, 0} => running.P = asked["nworkers"]
      /\ asked["nworkers"] = 0 => running.P = HardwareCpuCount
      /\ asked["stack_size"] # Unset => running.stack_size = ValidateStackSize(asked["stack_size"])
    BY <1>1, <1>2 DEF Granted
<1> QED
    BY <1>1, <1>3, <1>4 DEF SettingsHold, SharedOut

(* The first reading of the environment.                                   *)
LEMMA Read ==
    ASSUME SettingsAssumption, machine \in Machines, env \in Env, NEW first \in {Junk, 2}
    PROVE  /\ GetUserSettableValues(first) \in GlobalState
           /\ Settable(GetUserSettableValues(first))
<1>1. PICK limit : limit = 16 * HardwareCpuCount
    OBVIOUS
<1>2. PICK force : force = Getenv(env.force, first)
    OBVIOUS
<1>3. PICK nworkers : nworkers = Getenv(env.nworkers, force.buffer)
    OBVIOUS
<1>4. PICK users : users = Getenv(env.users, IF machine.ptool THEN force.buffer ELSE nworkers.buffer)
    OBVIOUS
<1>5. /\ env.nworkers \in Int \cup {Unset, Long, Junk} /\ env.users \in Int \cup {Unset, Long, Junk}
      /\ env.failures \in Int \cup {Unset, Long, Junk} /\ env.force \in Int \cup {Unset, Long, Junk}
    BY DEF SettingsAssumption
<1>6. force.buffer \in Int \cup {Junk}
    BY <1>2, <1>5 DEF Getenv
<1>7. nworkers.buffer \in Int \cup {Junk}
    BY <1>3, <1>5, <1>6 DEF Getenv
<1>8. users.buffer \in Int \cup {Junk}
    BY <1>4, <1>5, <1>6, <1>7 DEF Getenv
<1>9. PICK c \in Nat \ {0}, h \in Nat : c = Cores /\ h = HardwareCpuCount /\ h \in 1..c
    BY MachineHas
<1>10. limit \in Int /\ limit <= 16 * c /\ limit >= 16
    BY <1>1, <1>9
<1>11. PICK P : P = IF nworkers.set /\ ~machine.ptool
                    THEN StoreInt(HardwareCpuCount, nworkers.buffer, 1, limit).out
                    ELSE HardwareCpuCount
    OBVIOUS
<1>12. P \in 1..(16 * c) /\ (machine.ptool => P = 1)
    <2>1. CASE nworkers.set /\ ~machine.ptool
        <3>1. PICK x : x = StoreInt(h, nworkers.buffer, 1, limit).out
            OBVIOUS
        <3>2. x = h \/ x \in 1..limit
            <4>1. h \in Int /\ 1 \in Int /\ limit \in Int
                BY <1>9, <1>10
            <4>2. PICK r : r = StoreInt(h, nworkers.buffer, 1, limit)
                OBVIOUS
            <4>3. r.out = h \/ r.out \in 1..limit
                BY <1>7, <4>1, <4>2, Stored
            <4> QED
                BY <3>1, <4>2, <4>3
        <3> QED
            BY <1>9, <1>10, <1>11, <2>1, <3>1, <3>2
    <2>2. CASE ~(nworkers.set /\ ~machine.ptool)
        BY <1>9, <1>11, <2>2, MachineHas
    <2> QED
        BY <2>1, <2>2
<1>13. PICK u : u = IF users.set THEN StoreInt(0, users.buffer, 1, limit).out ELSE 0
    OBVIOUS
<1>14. u \in 0..(16 * c)
    <2>1. CASE users.set
        <3>1. u = 0 \/ u \in 1..limit
            <4>1. 0 \in Int /\ 1 \in Int /\ limit \in Int
                BY <1>10
            <4>2. PICK r : r = StoreInt(0, users.buffer, 1, limit)
                OBVIOUS
            <4>3. r.out = 0 \/ r.out \in 1..limit
                BY <1>8, <4>1, <4>2, Stored
            <4> QED
                BY <1>13, <2>1, <4>2, <4>3
        <3> QED
            BY <1>10, <3>1
    <2>2. CASE ~users.set
        BY <1>13, <2>2
    <2> QED
        BY <2>1, <2>2
<1>15. PICK f : f = IF force.set THEN StoreBool(0, force.buffer).out ELSE 0
    OBVIOUS
<1>16. f \in Int
    BY <1>15 DEF StoreBool
<1>17. PICK fails : fails = Getenv(env.failures, users.buffer)
    OBVIOUS
<1>18. fails.buffer \in Int \cup {Junk}
    BY <1>5, <1>8, <1>17 DEF Getenv
<1>19. PICK e : e = IF fails.set THEN StoreInt(128, fails.buffer, 1, INT_MAX).out ELSE 128
    OBVIOUS
<1>20. e \in 1..INT_MAX /\ e \in Int
    <2>1. PICK max \in Int : max = INT_MAX /\ max >= 128
        BY DEF INT_MAX
    <2>2. PICK default \in Int, one \in Int : default = 128 /\ one = 1
        OBVIOUS
    <2>3. PICK x : x = StoreInt(default, fails.buffer, one, max)
        OBVIOUS
    <2>4. x.out = default \/ x.out \in one..max
        BY <1>18, <2>3, Stored
    <2> QED
        BY <1>19, <2>1, <2>2, <2>3, <2>4
<1>21. PICK r : r = IF env.replay THEN "replay" ELSE IF env.record THEN "record" ELSE "none"
    OBVIOUS
<1>22. PICK new : new = [P |-> P, max_user_workers |-> u, fiber_pool_size |-> 7,
                         global_fiber_pool_size |-> 9 * HardwareCpuCount, max_stacks |-> Default,
                         stack_size |-> 0, force_reduce |-> f, max_steal_failures |-> e, total_workers |-> 0,
                         record_or_replay |-> r]
    OBVIOUS
<1>23. GetUserSettableValues(first) = [new EXCEPT !.total_workers = CalcTotalWorkers(new)]
    BY <1>1, <1>2, <1>3, <1>4, <1>11, <1>13, <1>15, <1>21, <1>22, <1>17, <1>19 DEF GetUserSettableValues
<1>24. CalcTotalWorkers(new) \in Int
    <2>1. new.P = P /\ new.max_user_workers = u /\ P \in Int /\ u \in Int
        BY <1>12, <1>14, <1>22
    <2> QED
        BY <2>1 DEF CalcTotalWorkers, CalcMaxUserWorkers, Larger
<1>25. PICK t \in Int : t = CalcTotalWorkers(new)
    BY <1>24
<1>26. PICK s : s = GetUserSettableValues(first)
    OBVIOUS
<1>27. s = [P |-> P, max_user_workers |-> u, fiber_pool_size |-> 7,
            global_fiber_pool_size |-> 9 * HardwareCpuCount, max_stacks |-> Default,
            stack_size |-> 0, force_reduce |-> f, max_steal_failures |-> e, total_workers |-> t,
            record_or_replay |-> r]
    BY <1>22, <1>23, <1>25, <1>26
<1>28. r \in {"none", "record", "replay"} /\ Default \in Nat /\ 9 * HardwareCpuCount \in Int
    BY <1>9, <1>21 DEF SettingsAssumption
<1>29. s \in GlobalState
    BY <1>12, <1>14, <1>16, <1>25, <1>27, <1>28, <1>20 DEF GlobalState
<1>30. Settable(s)
    BY <1>9, <1>12, <1>14, <1>27, <1>20 DEF Settable
<1> QED
    BY <1>26, <1>29, <1>30

(* The start shares out what may be alive.                                 *)
LEMMA Shared ==
    ASSUME SettingsAssumption, machine \in Machines, NEW s \in GlobalState, Settable(s)
    PROVE  LET new == InitGlobalState(LimitStacks(s)) IN
              /\ new \in GlobalState /\ Settable(new) /\ SharedOut(new)
              /\ new.P = s.P /\ new.stack_size = ValidateStackSize(s.stack_size)
<1>1. PICK c \in Nat \ {0} : c = Cores
    BY MachineHas
<1>2. PICK p \in Nat \ {0} : p = s.P /\ p <= 16 * c /\ (machine.ptool => p = 1)
    BY <1>1 DEF Settable
<1>3. PICK u \in Nat : u = s.max_user_workers /\ u <= 16 * c
    BY <1>1 DEF Settable
<1>4. PICK m \in Nat, f \in Nat, z \in Nat : m = s.max_stacks /\ f = s.fiber_pool_size /\ z = s.stack_size
    BY DEF Settable, GlobalState
<1>5. PICK e \in Int : e = s.max_steal_failures /\ e \in 1..INT_MAX
    BY DEF Settable, GlobalState
<1>6. PICK l : l = LimitStacks(s)
    OBVIOUS
<1>7. PICK y : y = ValidateStackSize(z)
    OBVIOUS
<1>8. y \in Nat /\ y % PAGE = 0 /\ y >= MinStackSize
    BY <1>7, Validated
<1>9. /\ l \in GlobalState /\ l.P = p /\ l.max_user_workers = u /\ l.stack_size = z
      /\ l.fiber_pool_size \in Nat /\ l.max_steal_failures = e
      /\ l.max_stacks > 0 => l.max_stacks >= p /\ p * l.fiber_pool_size <= l.max_stacks
    <2>1. CASE m = 0
        <3>1. l = s
            BY <1>4, <1>6, <2>1 DEF LimitStacks
        <3>2. s.max_stacks = 0
            BY <1>4, <2>1
        <3>3. ~(l.max_stacks > 0)
            BY <3>1, <3>2
        <3> QED
            BY <1>2, <1>3, <1>4, <1>5, <3>1, <3>3
    <2>2. CASE m # 0
        <3>1. PICK share \in Nat : share = m \div p /\ p * share <= m
            BY QuotientFits
        <3>2. PICK pool : pool = Larger(1, IF share < f THEN share ELSE f)
            OBVIOUS
        <3>3. pool \in Nat /\ (pool = 1 \/ pool <= share)
            BY <3>2 DEF Larger
        <3>4. PICK x : x = Larger(m, p)
            OBVIOUS
        <3>5. x \in Nat /\ x >= p /\ x >= m
            BY <3>4 DEF Larger
        <3>6. p * pool <= x
            <4>1. CASE pool = 1
                BY <3>5, <4>1
            <4>2. CASE pool <= share
                <5>1. p * pool <= p * share /\ p * pool \in Nat /\ p * share \in Nat
                    BY <3>3, <4>2, SmallerShares
                <5> QED
                    BY <3>1, <3>5, <5>1
            <4> QED
                BY <3>3, <4>1, <4>2
        <3>7. l = [s EXCEPT !.fiber_pool_size = pool, !.max_stacks = x,
                            !.global_fiber_pool_size = p * (pool + 1)]
            BY <1>2, <1>4, <1>6, <2>2, <3>1, <3>2, <3>4 DEF LimitStacks
        <3>8. p * (pool + 1) \in Int
            BY <3>3
        <3>9. PICK fibers \in Int : fibers = p * (pool + 1)
            BY <3>8
        <3>10. l = [P |-> s.P, max_user_workers |-> s.max_user_workers, fiber_pool_size |-> pool,
                    global_fiber_pool_size |-> fibers, max_stacks |-> x, stack_size |-> s.stack_size,
                    force_reduce |-> s.force_reduce, max_steal_failures |-> s.max_steal_failures,
                    total_workers |-> s.total_workers,
                    record_or_replay |-> s.record_or_replay]
            BY <3>7, <3>9 DEF GlobalState
        <3>11. l \in GlobalState
            BY <3>3, <3>5, <3>9, <3>10 DEF GlobalState
        <3>12. /\ l.P = s.P /\ l.max_user_workers = s.max_user_workers
               /\ l.stack_size = s.stack_size /\ l.fiber_pool_size = pool /\ l.max_stacks = x
               /\ l.max_steal_failures = s.max_steal_failures
            BY <3>10
        <3> QED
            BY <1>2, <1>3, <1>4, <1>5, <3>3, <3>5, <3>6, <3>11, <3>12
    <2> QED
        BY <2>1, <2>2
<1>10. PICK t : t = CalcTotalWorkers(l)
    OBVIOUS
<1>11. t \in Int /\ t - p + 1 \in {Larger(3, 2 * p)} \cup 1..(16 * c)
    <2>1. PICK v \in Int : v = CalcMaxUserWorkers(l)
        BY <1>9 DEF CalcMaxUserWorkers, Larger
    <2>2. v \in {Larger(3, 2 * p)} \cup 1..(16 * c)
        BY <1>3, <1>9, <2>1 DEF CalcMaxUserWorkers
    <2>3. t = p + v - 1
        BY <1>9, <1>10, <2>1 DEF CalcTotalWorkers
    <2>4. t \in Int /\ t - p + 1 = v
        BY <2>3
    <2> QED
        BY <2>2, <2>4
<1>12. PICK new : new = InitGlobalState(l)
    OBVIOUS
<1>13. new = [l EXCEPT !.total_workers = t, !.stack_size = y]
    BY <1>7, <1>9, <1>10, <1>12 DEF InitGlobalState
<1>14. /\ new \in GlobalState /\ new.P = p /\ new.max_user_workers = u /\ new.stack_size = y
       /\ new.total_workers = t /\ new.fiber_pool_size = l.fiber_pool_size
       /\ new.max_stacks = l.max_stacks /\ new.max_steal_failures = e
    BY <1>8, <1>9, <1>11, <1>13 DEF GlobalState
<1>15. Settable(new)
    BY <1>1, <1>2, <1>3, <1>9, <1>14, <1>5 DEF Settable
<1>16. SharedOut(new)
    BY <1>1, <1>2, <1>8, <1>9, <1>11, <1>14, <1>5 DEF SharedOut
<1> QED
    BY <1>2, <1>4, <1>6, <1>7, <1>12, <1>14, <1>15, <1>16

-----------------------------------------------------------------------------
(* The steps *)

(* A setting that no property but its type speaks of.                      *)
LEMMA OtherSet ==
    ASSUME SettingsAssumption, SettingsInv, initialized, NEW s \in GlobalState,
           s.P = g.P, s.stack_size = g.stack_size, s.max_user_workers \in 0..(16 * Cores),
           s.fiber_pool_size \in Nat, s.max_steal_failures = g.max_steal_failures, g' = s,
           NEW name \in Names \ {"nworkers", "stack_size"}, NEW v \in Int,
           asked' = asked \/ asked' = [asked EXCEPT ![name] = v],
           UNCHANGED <<machine, env, initialized, singleton, running>>
    PROVE  SettingsInv'
<1>1. SettingTypes /\ Settable(g) /\ Granted(g)
    BY DEF SettingsInv
<1>2. /\ asked'["nworkers"] = asked["nworkers"] /\ asked'["stack_size"] = asked["stack_size"]
      /\ asked' \in [Names -> Int \cup {Unset}]
    BY <1>1 DEF SettingTypes, Names
<1>3. SettingTypes'
    BY <1>1, <1>2 DEF SettingTypes
<1>4. Cores' = Cores /\ HardwareCpuCount' = HardwareCpuCount
    BY DEF Cores, HardwareCpuCount
<1>5. Settable(g)'
    BY <1>1, <1>4 DEF Settable
<1>6. Granted(g)'
    BY <1>1, <1>2, <1>4 DEF Granted
<1>7. singleton => /\ SharedOut(running)' /\ running'.P = g'.P
                   /\ running'.stack_size = g'.stack_size
    BY <1>4 DEF SettingsInv, SharedOut
<1> QED
    BY <1>3, <1>5, <1>6, <1>7 DEF SettingsInv

(* The number of workers: a number out of range changes nothing, and zero  *)
(* means one for each processor.                                           *)
LEMMA NWorkersSet ==
    ASSUME SettingsAssumption, SettingsInv, initialized, NEW val \in Int \cup {Junk},
           SetNWorkers(val), UNCHANGED <<machine, env, initialized, singleton, running>>
    PROVE  SettingsInv'
<1>1. SettingTypes /\ Settable(g) /\ Granted(g) /\ ~singleton
    BY DEF SettingsInv, SetNWorkers
<1>2. PICK c \in Nat \ {0}, h \in Nat : c = Cores /\ h = HardwareCpuCount /\ h \in 1..c
                                        /\ (machine.ptool => h = 1) /\ machine.ptool \in BOOLEAN
    BY <1>1, MachineHas DEF SettingTypes
<1>3. Cores' = Cores /\ HardwareCpuCount' = HardwareCpuCount
    BY DEF Cores, HardwareCpuCount
<1>4. PICK max \in Nat : max = IF machine.ptool THEN 1 ELSE 16 * c
    BY <1>2
<1>5. PICK r : r = StoreInt(g.P, val, 0, max)
    OBVIOUS
<1>6. PICK v \in Int : v = IF val = Junk THEN 0 ELSE val
    BY DEF SettingsAssumption
<1>7. \/ r.ret = "xrange" /\ r.out = g.P
      \/ r.ret = "success" /\ r.out \in 0..max /\ r.out = v
    <2>1. g.P \in Int /\ 0 \in Int /\ max \in Int
        BY <1>1 DEF SettingTypes, GlobalState
    <2> QED
        BY <1>5, <1>6, <2>1, Stored
<1>8. PICK p : p = IF r.out = 0 THEN h ELSE r.out
    OBVIOUS
<1>9. g' = [g EXCEPT !.P = p]
    BY <1>2, <1>4, <1>5, <1>8 DEF SetNWorkers
<1>10. Accept("nworkers", val, r.ret)
    BY <1>2, <1>4, <1>5 DEF SetNWorkers
<1>11. g.P \in 1..(16 * c) /\ (machine.ptool => g.P = 1)
    BY <1>1, <1>2 DEF Settable
<1>12. p \in 1..(16 * c) /\ (machine.ptool => p = 1)
    BY <1>2, <1>4, <1>7, <1>8, <1>11
<1>13. /\ g' \in GlobalState /\ g'.P = p /\ g'.max_user_workers = g.max_user_workers
       /\ g'.fiber_pool_size = g.fiber_pool_size /\ g'.stack_size = g.stack_size
       /\ g'.max_steal_failures = g.max_steal_failures
    BY <1>1, <1>9, <1>12 DEF SettingTypes, GlobalState
<1>14. /\ asked' \in [Names -> Int \cup {Unset}] /\ asked'["stack_size"] = asked["stack_size"]
       /\ asked'["nworkers"] = IF r.ret = "success" THEN v ELSE asked["nworkers"]
    BY <1>1, <1>6, <1>10 DEF Accept, SettingTypes, Names
<1>15. SettingTypes'
    BY <1>1, <1>13, <1>14 DEF SettingTypes
<1>16. Settable(g)'
    BY <1>1, <1>2, <1>3, <1>12, <1>13 DEF Settable
<1>17. Granted(g)'
    <2>1. CASE r.ret = "success"
        <3>1. asked'["nworkers"] = v /\ r.out = v /\ v # Unset
            BY <1>7, <1>14, <2>1 DEF SettingsAssumption
        <3>2. (v # 0 => p = v) /\ (v = 0 => p = h)
            BY <1>8, <3>1
        <3> QED
            BY <1>1, <1>2, <1>3, <1>13, <1>14, <3>1, <3>2 DEF Granted
    <2>2. CASE r.ret # "success"
        <3>1. asked'["nworkers"] = asked["nworkers"] /\ p = g.P
            BY <1>7, <1>8, <1>11, <1>14, <2>2
        <3> QED
            BY <1>1, <1>3, <1>13, <1>14, <3>1 DEF Granted
    <2> QED
        BY <2>1, <2>2
<1> QED
    BY <1>1, <1>15, <1>16, <1>17 DEF SettingsInv

(* The size of stacks, adjusted whether or not it was accepted. *)
LEMMA StackSizeSet ==
    ASSUME SettingsAssumption, SettingsInv, initialized, NEW val \in Int \cup {Junk},
           SetStackSize(val), UNCHANGED <<machine, env, initialized, singleton, running>>
    PROVE  SettingsInv'
<1>1. SettingTypes /\ Settable(g) /\ Granted(g) /\ ~singleton
    BY DEF SettingsInv, SetStackSize
<1>2. PICK max \in Int : max = INT_MAX
    BY DEF INT_MAX
<1>3. Cores' = Cores /\ HardwareCpuCount' = HardwareCpuCount
    BY DEF Cores, HardwareCpuCount
<1>4. PICK z \in Nat : z = g.stack_size
    BY <1>1 DEF SettingTypes, GlobalState
<1>5. PICK r : r = StoreInt(g.stack_size, val, 0, max)
    OBVIOUS
<1>6. PICK v \in Int : v = IF val = Junk THEN 0 ELSE val
    BY DEF SettingsAssumption
<1>7. \/ r.ret = "xrange" /\ r.out = z
      \/ r.ret = "success" /\ r.out \in Nat /\ r.out = v
    <2>1. z \in Int /\ 0 \in Int /\ max \in Int
        OBVIOUS
    <2> QED
        BY <1>4, <1>5, <1>6, <2>1, Stored
<1>8. PICK y \in Nat : y = ValidateStackSize(r.out)
    BY <1>7, Validated
<1>9. g' = [g EXCEPT !.stack_size = y]
    BY <1>2, <1>5, <1>8 DEF SetStackSize
<1>10. Accept("stack_size", val, r.ret)
    BY <1>2, <1>5 DEF SetStackSize
<1>11. /\ g' \in GlobalState /\ g'.P = g.P /\ g'.max_user_workers = g.max_user_workers
       /\ g'.fiber_pool_size = g.fiber_pool_size /\ g'.stack_size = y
       /\ g'.max_steal_failures = g.max_steal_failures
    BY <1>1, <1>9 DEF SettingTypes, GlobalState
<1>12. /\ asked' \in [Names -> Int \cup {Unset}] /\ asked'["nworkers"] = asked["nworkers"]
       /\ asked'["stack_size"] = IF r.ret = "success" THEN v ELSE asked["stack_size"]
    BY <1>1, <1>6, <1>10 DEF Accept, SettingTypes, Names
<1>13. SettingTypes'
    BY <1>1, <1>11, <1>12 DEF SettingTypes
<1>14. Settable(g)'
    BY <1>1, <1>3, <1>11 DEF Settable
<1>15. Granted(g)'
    <2>1. CASE r.ret = "success"
        <3>1. asked'["stack_size"] = v /\ v \in Nat /\ y = ValidateStackSize(v)
            BY <1>7, <1>8, <1>12, <2>1
        <3> QED
            BY <1>1, <1>3, <1>11, <1>12, <3>1 DEF Granted
    <2>2. CASE r.ret # "success"
        <3>1. asked'["stack_size"] = asked["stack_size"] /\ y = ValidateStackSize(z)
            BY <1>7, <1>8, <1>12, <2>2
        <3>2. asked["stack_size"] # Unset => asked["stack_size"] \in Nat /\ z = ValidateStackSize(asked["stack_size"])
            BY <1>1, <1>4 DEF Granted
        <3>3. asked["stack_size"] # Unset => y = ValidateStackSize(asked["stack_size"])
            BY <3>1, <3>2, Validated
        <3> QED
            BY <1>1, <1>3, <1>11, <1>12, <3>1, <3>2, <3>3 DEF Granted
    <2> QED
        BY <2>1, <2>2
<1> QED
    BY <1>1, <1>13, <1>14, <1>15 DEF SettingsInv

(* A setting that the runtime is given in a call.                          *)
LEMMA SetKeeps ==
    ASSUME SettingsAssumption, SettingsInv, NEW name \in Names, NEW val \in Inputs[name],
           Set(name, val)
    PROVE  SettingsInv'
<1>1. initialized /\ UNCHANGED <<machine, env, initialized, singleton, running>>
    BY DEF Set
<1>2. SettingTypes /\ Settable(g) /\ Granted(g)
    BY <1>1 DEF SettingsInv
<1>3. val \in Int \cup {Junk}
    BY DEF SettingsAssumption
<1>4. PICK v \in Int : v = IF val = Junk THEN 0 ELSE val
    BY <1>3 DEF SettingsAssumption
<1>5. PICK c \in Nat \ {0} : c = Cores
    BY <1>2, MachineHas DEF SettingTypes
<1>6. /\ g \in GlobalState /\ g.max_user_workers \in 0..(16 * Cores)
      /\ g.fiber_pool_size \in Nat /\ g.global_fiber_pool_size \in Int
      /\ g.max_user_workers \in Int
    BY <1>2 DEF SettingTypes, Settable, GlobalState
<1>7. CASE name = "force_reduce"
    <2>1. SetForceReduce(val)
        BY <1>7 DEF Set, SetParam
    <2>2. PICK r : r = StoreBool(g.force_reduce, val)
        OBVIOUS
    <2>3. r.out \in Int
        BY <1>6, <2>2 DEF StoreBool, GlobalState
    <2>4. PICK s : s = [g EXCEPT !.force_reduce = r.out]
        OBVIOUS
    <2>5. g' = s
        BY <2>1, <2>2, <2>4 DEF SetForceReduce
    <2>6. /\ s \in GlobalState /\ s.P = g.P /\ s.stack_size = g.stack_size /\ s.max_steal_failures = g.max_steal_failures
          /\ s.max_user_workers = g.max_user_workers /\ s.fiber_pool_size = g.fiber_pool_size
        BY <1>6, <2>3, <2>4 DEF GlobalState
    <2>7. asked' = asked \/ asked' = [asked EXCEPT !["force_reduce"] = v]
        BY <1>4, <2>1 DEF SetForceReduce, Accept
    <2> QED
        BY <1>1, <1>6, <2>5, <2>6, <2>7, OtherSet DEF Names
<1>8. CASE name = "nworkers"
    <2>1. SetNWorkers(val)
        BY <1>8 DEF Set, SetParam
    <2> QED
        BY <1>1, <1>3, <2>1, NWorkersSet
<1>9. CASE name = "max_user_workers"
    <2>1. SetMaxUserWorkers(val)
        BY <1>9 DEF Set, SetParam
    <2>2. PICK r : r = StoreInt(g.max_user_workers, val, 1, 16 * Cores)
        OBVIOUS
    <2>3. r.out \in 0..(16 * Cores)
        <3>1. 1 \in Int /\ 16 * Cores \in Int
            BY <1>5
        <3>2. PICK max \in Int : max = 16 * Cores
            BY <3>1
        <3>3. PICK given \in Int : given = g.max_user_workers
            BY <1>6
        <3>4. PICK one \in Int : one = 1
            OBVIOUS
        <3>5. r = StoreInt(given, val, one, max)
            BY <2>2, <3>2, <3>3, <3>4
        <3>6. r.out = given \/ r.out \in one..max
            BY <1>3, <3>5, Stored
        <3> QED
            BY <1>6, <3>2, <3>3, <3>4, <3>6
    <2>4. PICK s : s = [g EXCEPT !.max_user_workers = r.out]
        OBVIOUS
    <2>5. g' = s
        BY <2>1, <2>2, <2>4 DEF SetMaxUserWorkers
    <2>6. r.out \in Int
        BY <2>3
    <2>7. /\ s \in GlobalState /\ s.P = g.P /\ s.stack_size = g.stack_size /\ s.max_steal_failures = g.max_steal_failures
          /\ s.max_user_workers = r.out /\ s.fiber_pool_size = g.fiber_pool_size
        BY <1>6, <2>4, <2>6 DEF GlobalState
    <2>8. asked' = asked \/ asked' = [asked EXCEPT !["max_user_workers"] = v]
        BY <1>4, <2>1 DEF SetMaxUserWorkers, Accept
    <2> QED
        BY <1>1, <1>6, <2>3, <2>5, <2>7, <2>8, OtherSet DEF Names
<1>10. CASE name = "local_stacks"
    <2>1. SetLocalStacks(val)
        BY <1>10 DEF Set, SetParam
    <2>2. PICK r : r = StoreInt(g.fiber_pool_size, val, 0, 42)
        OBVIOUS
    <2>3. r.out \in Nat
        <3>1. PICK given \in Int, zero \in Int, max \in Int :
                  given = g.fiber_pool_size /\ zero = 0 /\ max = 42
            BY <1>6
        <3>2. r = StoreInt(given, val, zero, max)
            BY <2>2, <3>1
        <3>3. r.out = given \/ r.out \in zero..max
            BY <1>3, <3>2, Stored
        <3> QED
            BY <1>6, <3>1, <3>3
    <2>4. PICK s : s = [g EXCEPT !.fiber_pool_size = r.out]
        OBVIOUS
    <2>5. g' = s
        BY <2>1, <2>2, <2>4 DEF SetLocalStacks
    <2>6. /\ s \in GlobalState /\ s.P = g.P /\ s.stack_size = g.stack_size /\ s.max_steal_failures = g.max_steal_failures
          /\ s.max_user_workers = g.max_user_workers /\ s.fiber_pool_size = r.out
        BY <1>6, <2>3, <2>4 DEF GlobalState
    <2>7. asked' = asked \/ asked' = [asked EXCEPT !["local_stacks"] = v]
        BY <1>4, <2>1 DEF SetLocalStacks, Accept
    <2> QED
        BY <1>1, <1>6, <2>3, <2>5, <2>6, <2>7, OtherSet DEF Names
<1>11. CASE name = "shared_stacks"
    <2>1. SetSharedStacks(val)
        BY <1>11 DEF Set, SetParam
    <2>2. PICK r : r = StoreInt(g.global_fiber_pool_size, val, 0, 42)
        OBVIOUS
    <2>3. r.out \in Int
        BY <1>4, <1>6, <2>2 DEF StoreInt
    <2>4. PICK s : s = [g EXCEPT !.global_fiber_pool_size = r.out]
        OBVIOUS
    <2>5. g' = s
        BY <2>1, <2>2, <2>4 DEF SetSharedStacks
    <2>6. /\ s \in GlobalState /\ s.P = g.P /\ s.stack_size = g.stack_size /\ s.max_steal_failures = g.max_steal_failures
          /\ s.max_user_workers = g.max_user_workers /\ s.fiber_pool_size = g.fiber_pool_size
        BY <1>6, <2>3, <2>4 DEF GlobalState
    <2>7. asked' = asked \/ asked' = [asked EXCEPT !["shared_stacks"] = v]
        BY <1>4, <2>1 DEF SetSharedStacks, Accept
    <2> QED
        BY <1>1, <1>6, <2>5, <2>6, <2>7, OtherSet DEF Names
<1>12. CASE name = "nstacks"
    <2>1. SetNStacks(val)
        BY <1>12 DEF Set, SetParam
    <2>2. v \in Nat
        <3>1. val \in Nat \cup {Junk}
            BY <1>12 DEF SettingsAssumption
        <3> QED
            BY <1>4, <3>1
    <2>3. PICK s : s = [g EXCEPT !.max_stacks = v]
        OBVIOUS
    <2>4. g' = s
        BY <1>4, <2>1, <2>3 DEF SetNStacks
    <2>5. /\ s \in GlobalState /\ s.P = g.P /\ s.stack_size = g.stack_size /\ s.max_steal_failures = g.max_steal_failures
          /\ s.max_user_workers = g.max_user_workers /\ s.fiber_pool_size = g.fiber_pool_size
        BY <1>6, <2>2, <2>3 DEF GlobalState
    <2>6. asked' = asked \/ asked' = [asked EXCEPT !["nstacks"] = v]
        BY <1>4, <2>1 DEF SetNStacks, Accept
    <2> QED
        BY <1>1, <1>6, <2>4, <2>5, <2>6, OtherSet DEF Names
<1>13. CASE name = "stack_size"
    <2>1. SetStackSize(val)
        BY <1>13 DEF Set, SetParam
    <2> QED
        BY <1>1, <1>3, <2>1, StackSizeSet
<1> QED
    BY <1>7, <1>8, <1>9, <1>10, <1>11, <1>12, <1>13 DEF Names

(* What was asked for is still granted when it has been shared out: a      *)
(* stack size that was adjusted once is not adjusted again.                *)
LEMMA StartKeeps ==
    ASSUME SettingsAssumption, SettingsInv, Start
    PROVE  SettingsInv'
<1>1. /\ initialized /\ initialized' = initialized /\ singleton' = TRUE
      /\ g' = InitGlobalState(LimitStacks(g)) /\ running' = g'
      /\ UNCHANGED <<machine, env, asked>>
    BY DEF Start
<1>2. SettingTypes /\ Settable(g) /\ Granted(g)
    BY <1>1 DEF SettingsInv
<1>3. PICK s \in GlobalState : s = g
    BY <1>2 DEF SettingTypes
<1>4. PICK new : new = InitGlobalState(LimitStacks(s))
    OBVIOUS
<1>5. /\ new \in GlobalState /\ Settable(new) /\ SharedOut(new)
      /\ new.P = s.P /\ new.stack_size = ValidateStackSize(s.stack_size)
    BY <1>2, <1>3, <1>4, Shared DEF SettingTypes
<1>6. g' = new /\ running' = new
    BY <1>1, <1>3, <1>4
<1>7. Cores' = Cores /\ HardwareCpuCount' = HardwareCpuCount
    BY <1>1 DEF Cores, HardwareCpuCount
<1>8. SettingTypes'
    BY <1>1, <1>2, <1>5, <1>6 DEF SettingTypes
<1>9. Settable(g)'
    BY <1>1, <1>5, <1>6, <1>7 DEF Settable
<1>10. SharedOut(running)'
    BY <1>1, <1>5, <1>6, <1>7 DEF SharedOut
<1>11. Granted(g)'
    <2>1. PICK size : size = asked["stack_size"]
        OBVIOUS
    <2>2. size # Unset => size \in Nat /\ s.stack_size = ValidateStackSize(size)
        BY <1>2, <1>3, <2>1 DEF Granted
    <2>3. size # Unset => new.stack_size = ValidateStackSize(size)
        BY <1>5, <2>2, Validated
    <2> QED
        BY <1>1, <1>2, <1>3, <1>5, <1>6, <1>7, <2>1, <2>2, <2>3 DEF Granted
<1>12. (~initialized => ~singleton /\ asked = [n \in Names |-> Unset])'
    BY <1>1
<1> QED
    BY <1>6, <1>8, <1>9, <1>10, <1>11, <1>12 DEF SettingsInv

(* Whoever asks first reads the environment; nothing has been asked for.   *)
LEMMA AskKeeps ==
    ASSUME SettingsAssumption, SettingsInv, Ask
    PROVE  SettingsInv'
<1>1. ~initialized /\ initialized' = TRUE /\ UNCHANGED <<machine, env, singleton, running, asked>>
    BY DEF Ask
<1>2. SettingTypes /\ ~singleton /\ asked = [n \in Names |-> Unset]
    BY <1>1 DEF SettingsInv
<1>3. PICK first \in {Junk, 2} : g' = GetUserSettableValues(first)
    BY DEF Ask
<1>4. PICK s : s = GetUserSettableValues(first)
    OBVIOUS
<1>5. s \in GlobalState /\ Settable(s)
    BY <1>2, <1>4, Read DEF SettingTypes
<1>6. Cores' = Cores
    BY <1>1 DEF Cores
<1>7. SettingTypes'
    BY <1>1, <1>2, <1>3, <1>4, <1>5 DEF SettingTypes
<1>8. Settable(g)'
    BY <1>1, <1>3, <1>4, <1>5, <1>6 DEF Settable
<1>9. Granted(g)'
    <2>1. asked["nworkers"] = Unset /\ asked["stack_size"] = Unset
        BY <1>2 DEF Names
    <2>2. Unset # 0
        BY DEF SettingsAssumption
    <2> QED
        BY <1>1, <2>1, <2>2 DEF Granted
<1> QED
    BY <1>1, <1>2, <1>7, <1>8, <1>9 DEF SettingsInv

(* The runtime may end, and nothing of the settings goes with it.          *)
LEMMA SettingsStep ==
    ASSUME SettingsAssumption, SettingsInv, [CNext]_settings
    PROVE  SettingsInv'
<1>1. CASE Ask
    BY <1>1, AskKeeps
<1>2. CASE Start
    BY <1>2, StartKeeps
<1>3. CASE Deinit \/ UNCHANGED settings
    <2>1. /\ UNCHANGED <<machine, env, initialized, g, running, asked>>
          /\ singleton' = FALSE \/ singleton' = singleton
        BY <1>3 DEF Deinit, settings
    <2>2. Cores' = Cores /\ HardwareCpuCount' = HardwareCpuCount
        BY <2>1 DEF Cores, HardwareCpuCount
    <2>3. SettingTypes'
        BY <2>1 DEF SettingsInv, SettingTypes
    <2>4. (initialized => Settable(g) /\ Granted(g))'
        BY <2>1, <2>2 DEF SettingsInv, Settable, Granted
    <2>5. (~initialized => ~singleton /\ asked = [n \in Names |-> Unset])'
        BY <2>1 DEF SettingsInv
    <2>6. (singleton => /\ SharedOut(running)
                        /\ running.P = g.P /\ running.stack_size = g.stack_size)'
        BY <2>1, <2>2 DEF SettingsInv, SettingTypes, SharedOut
    <2> QED
        BY <2>3, <2>4, <2>5, <2>6 DEF SettingsInv
<1>4. ASSUME NEW name \in Names, NEW val \in Inputs[name], Set(name, val)
      PROVE  SettingsInv'
    BY <1>4, SetKeeps
<1> QED
    BY <1>1, <1>2, <1>3, <1>4 DEF CNext

(* Nothing has been read, asked for or started.                            *)
LEMMA SettingsInit ==
    ASSUME SettingsAssumption, CInit
    PROVE  SettingsInv
<1>1. g \in GlobalState
    BY DEF CInit, GlobalState
<1>2. SettingTypes
    BY <1>1 DEF CInit, SettingTypes
<1> QED
    BY <1>2 DEF CInit, SettingsInv

(* What runs is what was asked for last, whatever was refused, set or      *)
(* ended in the meantime, and its sizes fit each other: for every          *)
(* environment, every machine whose pages are a multiple of 32 bytes, and  *)
(* any number of calls and starts (global_state.cpp:183-308, 533-582).     *)
THEOREM SettingsAreGranted ==
    SettingsAssumption => (CSpec => []SettingsHold)
<1> SUFFICES ASSUME SettingsAssumption PROVE CSpec => []SettingsHold
    OBVIOUS
<1>1. CInit => SettingsInv
    BY SettingsInit
<1>2. SettingsInv /\ [CNext]_settings => SettingsInv'
    BY SettingsStep
<1>3. SettingsInv => SettingsHold
    BY SettingsFollow
<1> QED
    BY <1>1, <1>2, <1>3, PTL DEF CSpec

-----------------------------------------------------------------------------
(* The tree of workers.  Its invariants are inductive together with what a *)
(* worker that is telling its children knows of them: the child it is      *)
(* about to signal has its flag set (Sending), and one that is not telling *)
(* them is back at the first (AtFirst).  That a worker has one parent is   *)
(* what keeps other workers from disturbing this.                          *)

Telling == {"notify_wait", "notify_run", "notify_loop"}

Sending ==
    \A n \in Workers : posting[n] =>
        /\ pc[n] \in {"notify_run", "notify_loop"}
        /\ run[child[n]]

AtFirst ==
    \A n \in Workers : pc[n] \notin Telling => child[n] = FirstChild(n)

LockKnowsUsers ==
    /\ lock = "wake" => Q > 0 \/ work_done
    /\ lock = "post" => run[Root] /\ (Q > 0 \/ work_done)
    /\ lock = "sleep" => Q = 0 /\ ~work_done
    /\ work_done => Q = 0

(* The invariant in two halves: the tree, and the users at its root. *)
TreeInv == Sending /\ AtFirst /\ NoLostWakeup /\ ParentWillTell
UserInv == RootFollowsUsers /\ LockKnowsUsers
IInv == TypeOK /\ TreeInv /\ UserInv

-----------------------------------------------------------------------------
(* Afterwards by cases, for the provers. *)
LEMMA AfterwardsIs ==
    /\ DOMAIN Afterwards = Telling
    /\ Afterwards["notify_wait"] = "test"
    /\ Afterwards["notify_run"] = "search"
    /\ Afterwards["notify_loop"] = "busy"
  BY DEF Afterwards, Telling

(* A worker is the child of one worker only, and never the root. *)
LEMMA OneParent ==
    ASSUME NEW m \in Workers, NEW n \in Workers, NEW c \in ChildrenOf(n)
    PROVE  /\ c \in Workers
           /\ c \in Nat
           /\ c # Root
           /\ FirstChild(n) <= c
           /\ c \in ChildrenOf(m) => m = n
  BY TreeAssumption DEF Workers, Root, FirstChild, ChildrenOf

(* notify_children visits all the children there are, in order. *)
LEMMA InOrder ==
    ASSUME NEW n \in Workers
    PROVE  /\ FirstChild(n) \in Nat
           /\ ChildrenOf(n) # {} => FirstChild(n) \in ChildrenOf(n)
           /\ \A k, c \in ChildrenOf(n) :
                 k + 1 \notin ChildrenOf(n) => c <= k
  BY TreeAssumption DEF Workers, FirstChild, ChildrenOf

(* The root of the tree is a worker.                                       *)
LEMMA RootIsWorker == Root \in Workers
  BY TreeAssumption DEF Workers, Root

(* The initial states satisfy the invariant. *)
LEMMA Initially == Init => IInv
<1> SUFFICES ASSUME Init PROVE IInv  OBVIOUS
<1>1. TypeOK
  <2>1. run \in [Workers -> BOOLEAN] /\ posting \in [Workers -> BOOLEAN]
    BY Zenon DEF Init
  <2>2. \A n \in Workers : pc[n] \notin DOMAIN Afterwards
    BY AfterwardsIs DEF Init, Telling
  <2>3. sem \in [Workers -> Nat] /\ child \in [Workers -> Nat]
    BY InOrder DEF Init
  <2>4. pc \in [Workers -> {"test"}]
    BY DEF Init
  <2>5. /\ failures \in 0..max_steal_failures + 1
        /\ entries \in 0..MaxEntries
        /\ loops \in 0..MaxLoops
    BY TreeAssumption DEF Init
  <2>6. Q \in Nat /\ lock = "free" /\ work_done = FALSE
    BY DEF Init
  <2> HIDE DEF Init
  <2> QED  BY <2>1, <2>2, <2>3, <2>4, <2>5, <2>6 DEF TypeOK
<1>2. TreeInv
  BY DEF Init, TreeInv, Sending, AtFirst, NoLostWakeup, ParentWillTell, WillWake
<1>3. UserInv
  BY RootIsWorker DEF Init, UserInv, RootFollowsUsers, LockKnowsUsers
<1> QED  BY <1>1, <1>2, <1>3 DEF IInv

-----------------------------------------------------------------------------
(* A step that only moves a worker on, and does not move one that tells    *)
(* its children, leaves the tree in order if a worker that waits has seen  *)
(* its flag clear and one that wakes tells its children.                   *)
LEMMA Moving ==
    ASSUME TypeOK, TreeInv,
           NEW n \in Workers, NEW to,
           pc[n] \notin Telling,
           pc' = [pc EXCEPT ![n] = to],
           to = "blocked" => ~run[n],
           to \in Telling => ChildrenOf(n) # {},
           \/ ChildrenOf(n) = {}
           \/ pc[n] \notin {"test", "blocked"}
           \/ to \in {"test", "blocked", "notify_run"},
           \A m \in Workers \ {n} : sem'[m] = sem[m],
           to = "blocked" => sem' = sem,
           UNCHANGED <<run, child, posting, lock>>
    PROVE  TreeInv'
<1> USE DEF TypeOK, TreeInv
<1>1. ~posting[n] /\ child[n] = FirstChild(n)
  BY DEF Sending, AtFirst, Telling
<1>2. Sending'
  BY <1>1 DEF Sending
<1>3. AtFirst'
  BY <1>1 DEF AtFirst, Telling
<1>4. NoLostWakeup'
  <2> SUFFICES ASSUME NEW m \in Workers, pc'[m] = "blocked", run[m]
               PROVE  sem'[m] > 0 \/ PostPending(m)'
    BY DEF NoLostWakeup
  <2>1. m # n
    OBVIOUS
  <2>2. sem[m] > 0 \/ PostPending(m)
    BY <2>1 DEF NoLostWakeup
  <2> QED  BY <2>1, <2>2 DEF PostPending, Tells
<1>5. ParentWillTell'
  <2> SUFFICES ASSUME NEW m \in Workers, NEW c \in ChildrenOf(m), ~run[c]
               PROVE  WillWake(m, c)'
    BY DEF ParentWillTell
  <2>1. WillWake(m, c)
    BY DEF ParentWillTell
  <2>2. CASE m # n
    BY <2>1, <2>2 DEF WillWake
  <2>3. CASE m = n
    BY <2>1, <2>3, <1>1, OneParent DEF WillWake, Telling
  <2> QED  BY <2>2, <2>3
<1> QED  BY <1>2, <1>3, <1>4, <1>5

(* What the users rely on is out of the workers' reach. *)
LEMMA UsersUndisturbed ==
    ASSUME UserInv, UNCHANGED user_vars, run'[Root] = run[Root]
    PROVE  UserInv'
  BY DEF UserInv, RootFollowsUsers, LockKnowsUsers, user_vars

-----------------------------------------------------------------------------
(* A worker that sends its children to sleep is still to wake them. *)
LEMMA TellWaitKeeps ==
    ASSUME IInv, NEW n \in Workers, TellWait(n)
    PROVE  IInv'
<1> USE DEF IInv, TypeOK, TreeInv, TellWait, NextChild
<1> DEFINE k == child[n]
<1>1. k \in ChildrenOf(n) /\ k \in Workers /\ k # Root /\ pc[n] = "notify_wait"
  BY AfterwardsIs, OneParent DEF Telling
<1>2. ~posting[n]
  BY <1>1 DEF Sending
<1>3. \A m \in Workers : run'[m] = IF m = k THEN FALSE ELSE run[m]
  BY <1>1
<1>4. \A m \in Workers \ {n} : pc'[m] = pc[m] /\ child'[m] = child[m]
  OBVIOUS
<1>5. \/ pc'[n] = "notify_wait" /\ child'[n] = k + 1 /\ k + 1 \in ChildrenOf(n)
      \/ pc'[n] = "test" /\ child'[n] = FirstChild(n)
  BY <1>1, AfterwardsIs
<1>6. TypeOK'
  <2>1. \A m \in Workers : pc'[m] \in DOMAIN Afterwards => child'[m] \in ChildrenOf(m)
    BY <1>4, <1>5, AfterwardsIs DEF Telling
  <2>2. pc' \in [Workers -> {"test", "blocked", "search", "decide", "busy", "exited",
                             "notify_wait", "notify_run", "notify_loop"}]
    BY <1>1, <1>4, <1>5, AfterwardsIs
  <2>3. child' \in [Workers -> Nat]
    BY <1>1, <1>5, InOrder, OneParent
  <2> QED  BY <2>1, <2>2, <2>3 DEF user_vars
<1>7. Sending'
  <2> SUFFICES ASSUME NEW m \in Workers, posting[m]
               PROVE  pc'[m] \in {"notify_run", "notify_loop"} /\ run'[child'[m]]
    BY DEF Sending
  <2>1. m # n /\ pc[m] \in {"notify_run", "notify_loop"} /\ run[child[m]]
    BY <1>2 DEF Sending
  <2>2. child[m] \in ChildrenOf(m)
    BY <2>1, AfterwardsIs DEF Telling
  <2>3. child[m] \in Workers /\ child[m] # k
    BY <2>1, <2>2, <1>1, OneParent
  <2> QED  BY <2>1, <2>3, <1>3, <1>4
<1>8. AtFirst'
  BY <1>4, <1>5 DEF AtFirst, Telling
<1>9. NoLostWakeup'
  <2> SUFFICES ASSUME NEW m \in Workers, pc'[m] = "blocked", run'[m]
               PROVE  sem[m] > 0 \/ PostPending(m)'
    BY DEF NoLostWakeup
  <2>1. m # n /\ run[m] /\ pc[m] = "blocked"
    BY <1>3, <1>4, <1>5
  <2>2. sem[m] > 0 \/ PostPending(m)
    BY <2>1 DEF NoLostWakeup
  <2> QED  BY <2>2, <1>2, <1>4 DEF PostPending, Tells, user_vars
<1>10. ParentWillTell'
  <2> SUFFICES ASSUME NEW m \in Workers, NEW c \in ChildrenOf(m), ~run'[c]
               PROVE  WillWake(m, c)'
    BY DEF ParentWillTell
  <2>1. CASE m = n
    BY <2>1, <1>5 DEF WillWake
  <2>2. CASE m # n
    <3>1. c \in Workers /\ c # k
      BY <2>2, <1>1, OneParent
    <3> QED  BY <3>1, <2>2, <1>3, <1>4 DEF ParentWillTell, WillWake
  <2> QED  BY <2>1, <2>2
<1>11. UserInv'
  BY <1>1, <1>3, RootIsWorker, UsersUndisturbed
<1> QED  BY <1>6, <1>7, <1>8, <1>9, <1>10, <1>11

(* A wake-up that is under way is announced before it can be missed. *)
LEMMA TellRunKeeps ==
    ASSUME IInv, NEW n \in Workers, TellRun(n)
    PROVE  IInv'
<1> USE DEF IInv, TypeOK, TreeInv, TellRun
<1> DEFINE k == child[n]
<1>1. k \in ChildrenOf(n) /\ k \in Workers /\ k # Root
  BY AfterwardsIs, OneParent DEF Telling
<1>2. \A m \in Workers : run'[m] = IF m = k THEN TRUE ELSE run[m]
  BY <1>1
<1>3. posting'[n] /\ \A m \in Workers \ {n} : posting'[m] = posting[m]
  OBVIOUS
<1>4. TypeOK'
  BY <1>1 DEF user_vars
<1>5. Sending'
  <2> SUFFICES ASSUME NEW m \in Workers, posting'[m]
               PROVE  pc[m] \in {"notify_run", "notify_loop"} /\ run'[child[m]]
    BY DEF Sending
  <2>1. CASE m = n
    BY <2>1, <1>1, <1>2
  <2>2. CASE m # n
    <3>1. pc[m] \in {"notify_run", "notify_loop"} /\ run[child[m]]
      BY <2>2, <1>3 DEF Sending
    <3>2. child[m] \in Workers
      BY <3>1, AfterwardsIs, OneParent DEF Telling
    <3> QED  BY <3>1, <3>2, <1>2
  <2> QED  BY <2>1, <2>2
<1>6. AtFirst'
  BY DEF AtFirst
<1>7. NoLostWakeup'
  <2> SUFFICES ASSUME NEW m \in Workers, pc[m] = "blocked", run'[m]
               PROVE  sem[m] > 0 \/ PostPending(m)'
    BY DEF NoLostWakeup
  <2>1. CASE m = k
    BY <2>1, <1>3 DEF PostPending, Tells
  <2>2. CASE m # k
    <3>1. sem[m] > 0 \/ PostPending(m)
      BY <2>2, <1>2 DEF NoLostWakeup
    <3> QED  BY <3>1, <1>3 DEF PostPending, Tells, user_vars
  <2> QED  BY <2>1, <2>2
<1>8. ParentWillTell'
  BY <1>2, OneParent DEF ParentWillTell, WillWake
<1>9. UserInv'
  BY <1>1, <1>2, RootIsWorker, UsersUndisturbed
<1> QED  BY <1>4, <1>5, <1>6, <1>7, <1>8, <1>9

(* After the signal the worker goes on to the next child, or all are awake. *)
LEMMA PostChildKeeps ==
    ASSUME IInv, NEW n \in Workers, PostChild(n)
    PROVE  IInv'
<1> USE DEF IInv, TypeOK, TreeInv, PostChild, NextChild, Post
<1> DEFINE k == child[n]
<1>1. pc[n] \in {"notify_run", "notify_loop"} /\ run[k]
  BY DEF Sending
<1>2. k \in ChildrenOf(n) /\ k \in Workers /\ k \in Nat
  BY <1>1, AfterwardsIs, OneParent DEF Telling
<1>3. /\ \A m \in Workers \ {n} : /\ pc'[m] = pc[m]
                                  /\ child'[m] = child[m]
                                  /\ posting'[m] = posting[m]
      /\ ~posting'[n]
  OBVIOUS
<1>4. \/ pc'[n] = pc[n] /\ child'[n] = k + 1 /\ k + 1 \in ChildrenOf(n)
      \/ /\ pc'[n] \in {"search", "busy"}
         /\ child'[n] = FirstChild(n)
         /\ k + 1 \notin ChildrenOf(n)
  BY <1>1, AfterwardsIs
<1>5. \A m \in Workers : sem'[m] = IF m = k THEN sem[m] + 1 ELSE sem[m]
  BY <1>2
<1>6. TypeOK'
  <2>1. \A m \in Workers : pc'[m] \in DOMAIN Afterwards => child'[m] \in ChildrenOf(m)
    BY <1>1, <1>2, <1>3, <1>4, AfterwardsIs DEF Telling
  <2>2. pc' \in [Workers -> {"test", "blocked", "search", "decide", "busy", "exited",
                             "notify_wait", "notify_run", "notify_loop"}]
    BY <1>1, <1>3, <1>4, AfterwardsIs
  <2>3. child' \in [Workers -> Nat]
    BY <1>2, <1>4, InOrder
  <2> QED  BY <2>1, <2>2, <2>3, <1>2 DEF user_vars
<1>7. Sending'
  BY <1>3 DEF Sending
<1>8. AtFirst'
  BY <1>1, <1>3, <1>4 DEF AtFirst, Telling
<1>9. NoLostWakeup'
  <2> SUFFICES ASSUME NEW m \in Workers, pc'[m] = "blocked", run[m]
               PROVE  sem'[m] > 0 \/ PostPending(m)'
    BY DEF NoLostWakeup
  <2>1. CASE m = k
    BY <2>1, <1>5
  <2>2. CASE m # k
    <3>1. m # n /\ pc[m] = "blocked"
      BY <1>1, <1>3, <1>4
    <3>2. sem[m] > 0 \/ PostPending(m)
      BY <3>1 DEF NoLostWakeup
    <3> QED  BY <3>2, <2>2, <1>3, <1>5 DEF PostPending, Tells, user_vars
  <2> QED  BY <2>1, <2>2
<1>10. ParentWillTell'
  <2> SUFFICES ASSUME NEW m \in Workers, NEW c \in ChildrenOf(m), ~run[c]
               PROVE  WillWake(m, c)'
    BY DEF ParentWillTell
  <2>1. WillWake(m, c)
    BY DEF ParentWillTell
  <2>2. CASE m # n
    BY <2>1, <2>2, <1>3 DEF WillWake
  <2>3. CASE m = n
    <3>1. pc[n] = "notify_run" /\ k <= c /\ c # k /\ c \in Nat
      BY <2>1, <2>3, <1>1, OneParent DEF WillWake
    <3>2. k + 1 \in ChildrenOf(n)
      BY <3>1, <2>3, <1>2, InOrder
    <3> QED  BY <3>1, <3>2, <2>3, <1>2, <1>4 DEF WillWake
  <2> QED  BY <2>2, <2>3
<1>11. UserInv'
  BY UsersUndisturbed
<1> QED  BY <1>6, <1>7, <1>8, <1>9, <1>10, <1>11

-----------------------------------------------------------------------------
(* The steps that move a worker on, each by the lemma Moving. *)
MoveStep(n) ==
    \/ TestFlag(n) \/ SemWait(n) \/ WakeUp(n)
    \/ Exit(n) \/ GoOn(n) \/ ScheduleWait(n) \/ StealFails(n) \/ ProgramStep(n)

(* A worker's own step, in its code or in the scheduler, ...               *)
LEMMA NodeMoveKeeps ==
    ASSUME IInv, NEW n \in Workers, MoveStep(n)
    PROVE  IInv'
<1> USE DEF IInv, Goto, user_vars
<1>1. CASE TestFlag(n)
  <2>1. TypeOK'  BY <1>1, AfterwardsIs DEF TestFlag, TypeOK, Telling
  <2>2. TreeInv'  BY <1>1, Moving DEF TestFlag, Telling
  <2> QED  BY <2>1, <2>2, <1>1, UsersUndisturbed DEF TestFlag
<1>2. CASE SemWait(n)
  <2>1. TypeOK'  BY <1>2, AfterwardsIs DEF SemWait, TypeOK, Telling
  <2>2. TreeInv'
    <3>1. \A m \in Workers \ {n} : sem'[m] = sem[m]
      BY <1>2 DEF SemWait, TypeOK
    <3> QED  BY <3>1, <1>2, Moving DEF SemWait, Telling
  <2> QED  BY <2>1, <2>2, <1>2, UsersUndisturbed DEF SemWait
<1>3. CASE WakeUp(n)
  <2> DEFINE to == IF ChildrenOf(n) = {} THEN "search" ELSE "notify_run"
  <2>0. pc[n] = "test" /\ pc' = [pc EXCEPT ![n] = to]
    BY <1>3, AfterwardsIs DEF WakeUp, Notify
  <2>1. TypeOK'
    <3>1. to \in Telling => child[n] \in ChildrenOf(n)
      BY <2>0, InOrder DEF TreeInv, AtFirst, Telling
    <3> QED  BY <3>1, <2>0, <1>3, AfterwardsIs, TreeAssumption DEF WakeUp, TypeOK, Telling, ResetFailures
  <2>2. TreeInv'
    <3> HIDE DEF to
    <3>1. to = IF ChildrenOf(n) = {} THEN "search" ELSE "notify_run"
      BY DEF to
    <3> QED  BY <3>1, <2>0, <1>3, Moving DEF WakeUp, Telling
  <2> QED  BY <2>1, <2>2, <1>3, UsersUndisturbed DEF WakeUp
<1>4. CASE Exit(n)
  <2>1. TypeOK'  BY <1>4, AfterwardsIs DEF Exit, TypeOK, Telling
  <2>2. TreeInv'  BY <1>4, Moving DEF Exit, Telling
  <2> QED  BY <2>1, <2>2, <1>4, UsersUndisturbed DEF Exit
<1>5. CASE GoOn(n)
  <2>1. TypeOK'  BY <1>5, AfterwardsIs DEF GoOn, TypeOK, Telling
  <2>2. TreeInv'  BY <1>5, Moving DEF GoOn, Telling
  <2> QED  BY <2>1, <2>2, <1>5, UsersUndisturbed DEF GoOn
<1>6. CASE ScheduleWait(n)
  <2> DEFINE to == IF ChildrenOf(n) = {} THEN "test" ELSE "notify_wait"
  <2>0. pc[n] = "decide" /\ pc' = [pc EXCEPT ![n] = to]
    BY <1>6, AfterwardsIs DEF ScheduleWait, Notify
  <2>1. TypeOK'
    <3>1. to \in Telling => child[n] \in ChildrenOf(n)
      BY <2>0, InOrder DEF TreeInv, AtFirst, Telling
    <3> QED  BY <3>1, <2>0, <1>6, AfterwardsIs DEF ScheduleWait, TypeOK, Telling
  <2>2. TreeInv'
    <3> HIDE DEF to
    <3>1. to = IF ChildrenOf(n) = {} THEN "test" ELSE "notify_wait"
      BY DEF to
    <3> QED  BY <3>1, <2>0, <1>6, Moving DEF ScheduleWait, Telling
  <2> QED  BY <2>1, <2>2, <1>6, UsersUndisturbed DEF ScheduleWait
<1>7. CASE StealFails(n)
  <2>1. TypeOK'
    BY <1>7, AfterwardsIs, TreeAssumption DEF StealFails, AsksNode, TypeOK, Telling
  <2>2. TreeInv'  BY <1>7, Moving DEF StealFails, Telling
  <2> QED  BY <2>1, <2>2, <1>7, UsersUndisturbed DEF StealFails
<1>8. CASE FindWork(n)
  <2>1. TypeOK'
    BY <1>8, AfterwardsIs, TreeAssumption DEF FindWork, ResetFailures, TypeOK, Telling
  <2>2. TreeInv'  BY <1>8, Moving DEF FindWork, Telling
  <2> QED  BY <2>1, <2>2, <1>8, UsersUndisturbed DEF FindWork
<1>9. CASE FinishWork(n)
  <2>1. TypeOK'  BY <1>9, AfterwardsIs DEF FinishWork, TypeOK, Telling
  <2>2. TreeInv'  BY <1>9, Moving DEF FinishWork, Telling
  <2> QED  BY <2>1, <2>2, <1>9, UsersUndisturbed DEF FinishWork
<1>10. CASE StartLoop(n)
  <2> DEFINE to == IF ChildrenOf(n) = {} THEN "busy" ELSE "notify_loop"
  <2>0. pc[n] = "busy" /\ pc' = [pc EXCEPT ![n] = to]
    BY <1>10, AfterwardsIs DEF StartLoop, Notify
  <2>1. TypeOK'
    <3>1. to \in Telling => child[n] \in ChildrenOf(n)
      BY <2>0, InOrder DEF TreeInv, AtFirst, Telling
    <3> QED  BY <3>1, <2>0, <1>10, AfterwardsIs, TreeAssumption DEF StartLoop, TypeOK, Telling
  <2>2. TreeInv'
    <3> HIDE DEF to
    <3>1. to = IF ChildrenOf(n) = {} THEN "busy" ELSE "notify_loop"
      BY DEF to
    <3> QED  BY <3>1, <2>0, <1>10, Moving DEF StartLoop, Telling
  <2>3. UserInv'
    BY <1>10 DEF StartLoop, UserInv, RootFollowsUsers, LockKnowsUsers
  <2> QED  BY <2>1, <2>2, <2>3
<1> QED
  BY <1>1, <1>2, <1>3, <1>4, <1>5, <1>6, <1>7, <1>8, <1>9, <1>10
     DEF MoveStep, ProgramStep

-----------------------------------------------------------------------------
(* The tree does not look at the users' side, except for the root's flag.  *)
LEMMA CountingKeeps ==
    ASSUME IInv, EnterCilk \/ LeaveCilk \/ StopWorkers
    PROVE  IInv'
<1> USE DEF IInv, LockGoto
<1>1. lock = "free" /\ lock' # "post" /\ UNCHANGED <<run, sem, pc, child, posting>>
  BY DEF EnterCilk, LeaveCilk, StopWorkers
<1>2. TypeOK'
  <2>1. Q' \in Nat /\ entries' \in 0..MaxEntries
    BY TreeAssumption DEF EnterCilk, LeaveCilk, StopWorkers, TypeOK
  <2>3. work_done' \in BOOLEAN
    BY Zenon DEF EnterCilk, LeaveCilk, StopWorkers, TypeOK
  <2>2. lock' \in {"free", "wake", "post", "sleep"} /\ UNCHANGED <<failures, loops>>
    BY DEF EnterCilk, LeaveCilk, StopWorkers
  <2> QED  BY <2>1, <2>2, <2>3, <1>1 DEF TypeOK
<1>3. TreeInv'
  BY <1>1 DEF TreeInv, Sending, AtFirst, NoLostWakeup, PostPending, Tells,
              ParentWillTell, WillWake
<1>4. UserInv'
  BY DEF EnterCilk, LeaveCilk, StopWorkers, TypeOK, UserInv, RootFollowsUsers,
         LockKnowsUsers
<1> QED  BY <1>2, <1>3, <1>4

(* ... and a message on its way keep the invariant.                        *)
LEMMA MessagesKeep ==
    ASSUME IInv, Messages
    PROVE  IInv'
<1> USE RootIsWorker DEF IInv, LockGoto, Messages, TypeOK, TreeInv, UserInv
<1>0. \A n \in Workers : \A c \in ChildrenOf(n) : c \in Workers /\ c # Root
  BY OneParent
<1>a. \A n \in Workers : posting[n] => child[n] \in Workers /\ child[n] # Root
  BY <1>0, AfterwardsIs DEF Sending, Telling
<1>1. CASE SetRoot
  <2> USE <1>1 DEF SetRoot
  <2>1. TypeOK'  OBVIOUS
  <2>2. Sending'  BY <1>a DEF Sending
  <2>3. AtFirst'  BY DEF AtFirst
  <2>4. NoLostWakeup'  BY DEF NoLostWakeup, PostPending, Tells
  <2>5. ParentWillTell'  BY <1>0 DEF ParentWillTell, WillWake
  <2>6. UserInv'  BY DEF RootFollowsUsers, LockKnowsUsers
  <2> QED  BY <2>1, <2>2, <2>3, <2>4, <2>5, <2>6
<1>2. CASE PostRoot
  <2> USE <1>2 DEF PostRoot, Post
  <2>1. TypeOK'  OBVIOUS
  <2>2. Sending' /\ AtFirst' /\ ParentWillTell'
    BY DEF Sending, AtFirst, ParentWillTell, WillWake
  <2>3. NoLostWakeup'  BY DEF NoLostWakeup, PostPending, Tells
  <2>4. UserInv'  BY DEF RootFollowsUsers, LockKnowsUsers
  <2> QED  BY <2>1, <2>2, <2>3, <2>4
<1>3. CASE ClearRoot
  <2> USE <1>3 DEF ClearRoot
  <2>1. TypeOK'  OBVIOUS
  <2>2. Sending'  BY <1>a DEF Sending
  <2>3. AtFirst'  BY DEF AtFirst
  <2>4. NoLostWakeup'  BY DEF NoLostWakeup, PostPending, Tells
  <2>5. ParentWillTell'  BY <1>0 DEF ParentWillTell, WillWake
  <2>6. UserInv'  BY DEF RootFollowsUsers, LockKnowsUsers
  <2> QED  BY <2>1, <2>2, <2>3, <2>4, <2>5, <2>6
<1> QED  BY <1>1, <1>2, <1>3

-----------------------------------------------------------------------------
(* Every step keeps the invariant: it holds in every reachable state. *)
THEOREM Inductive == Spec => []IInv
<1>1. Init => IInv  BY Initially
<1>2. IInv /\ [Next]_vars => IInv'
  <2> SUFFICES ASSUME IInv, [Next]_vars PROVE IInv'  OBVIOUS
  <2>1. CASE UNCHANGED vars
    BY <2>1 DEF vars, IInv, TypeOK, TreeInv, UserInv, Sending, AtFirst, NoLostWakeup,
       PostPending, Tells, ParentWillTell, WillWake, RootFollowsUsers, LockKnowsUsers
  <2>2. CASE Next
    BY <2>2, TellWaitKeeps, TellRunKeeps, PostChildKeeps, NodeMoveKeeps,
       CountingKeeps, MessagesKeep DEF Next, RuntimeStep, MoveStep
  <2> QED  BY <2>1, <2>2
<1> QED  BY <1>1, <1>2, PTL DEF Spec

(* signal_node_msg against signal_node_wait: no wake-up is lost. *)
THEOREM WakeupNotLost == Spec => []NoLostWakeup
<1>1. IInv => NoLostWakeup  BY DEF IInv, TreeInv
<1> QED  BY <1>1, Inductive, PTL

(* notify_children: who sends a child to sleep will wake it. *)
THEOREM ParentsWakeWhomTheySendToSleep == Spec => []ParentWillTell
<1>1. IInv => ParentWillTell  BY DEF IInv, TreeInv
<1> QED  BY <1>1, Inductive, PTL

(* enter_cilk, leave_cilk and stop_workers keep the root informed. *)
THEOREM RootKnowsUsers == Spec => []RootFollowsUsers
<1>1. IInv => RootFollowsUsers  BY DEF IInv, UserInv
<1> QED  BY <1>1, Inductive, PTL

(* TreeFollowsUsers: the three together, from enter_cilk to signal_node.c. *)
THEOREM TreeKnowsUsers == Spec => []TreeFollowsUsers
  BY WakeupNotLost, ParentsWakeWhomTheySendToSleep, RootKnowsUsers, PTL
  DEF TreeFollowsUsers

(* The type invariant; notify_children never leaves the system workers. *)
THEOREM TypeCorrect == Spec => []TypeOK
<1>1. IInv => TypeOK  BY DEF IInv
<1> QED  BY <1>1, Inductive, PTL
=============================================================================

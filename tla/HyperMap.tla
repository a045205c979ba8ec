------------------------------ MODULE HyperMap ------------------------------
(***************************************************************************)
(* Reducer maps (runtime/reducer_impl.cpp): hash tables from hyperobjects  *)
(* to the views of a strand, and the life of a hyperobject.                *)
(*                                                                         *)
(* The strands that have not been joined are in serial order, the eldest   *)
(* first; a steal gives the continuation no map, and neighbours are joined *)
(* in any order (Reducers has the protocol that sees to that).  The key of *)
(* a hyperobject is the address of its leftmost view, the user's variable. *)
(* A global one is never registered: it gets into maps as it is used; one  *)
(* that is created by a strand is destroyed by a strand that has been      *)
(* joined with all that know of it.  A view is the sequence of updates it  *)
(* has seen.                                                               *)
(***************************************************************************)
EXTENDS Integers, FiniteSets, Sequences, SequencesExt

CONSTANTS Globals, Dynamic,   \* hyperobjects: small numbers, see HashFun
          NoMap,
          MaxStrands, MaxUpdates, MaxCreates

Keys == Globals \cup Dynamic

VARIABLES maps,      \* strand -> its map
          known,     \* strand -> the hyperobjects it knows of
          updates,   \* history: strand -> its updates in serial order
          created    \* hyperobjects created so far

vars == <<maps, known, updates, created>>

EmptyMap(left) == [buckets |-> [b \in {0} |-> <<>>], nelem |-> 0, is_leftmost |-> left]

Init ==
    /\ maps = <<EmptyMap(TRUE)>>
    /\ known = <<Globals>>
    /\ updates = <<<<>>>>
    /\ created = 0

Strands == DOMAIN maps
Elem(k, leftmost, view) == [key |-> k, leftmost |-> leftmost, view |-> view]

-----------------------------------------------------------------------------
(* The hash table.  The number of buckets is a power of two; the shifts of *)
(* hashfun change no number below eight.                                   *)

NBuckets(m) == Cardinality(DOMAIN m.buckets)
HashFun(m, k) == k % NBuckets(m)
Elements(m) == FlattenSeq([b \in 1..NBuckets(m) |-> m.buckets[b - 1]])

Lookup(m, k) == {e \in ToSet(m.buckets[HashFun(m, k)]) : e.key = k}
Has(m, k) == m # NoMap /\ Lookup(m, k) # {}
Get(m, k) == CHOOSE e \in Lookup(m, k) : TRUE

InsertNoRehash(m, e) ==
    [m EXCEPT !.buckets[HashFun(m, e.key)] = Append(@, e), !.nelem = @ + 1]

NeedRehash(m) == 1 + m.nelem + (m.nelem \div 8) > NBuckets(m)
Rehash(m) ==
    LET new == [m EXCEPT !.nelem = 0,
                  !.buckets = [b \in 0..(2 * NBuckets(m) - 1) |-> <<>>]]
    IN  FoldLeft(InsertNoRehash, new, Elements(m))

RehashAndInsert(m, e) == InsertNoRehash(IF NeedRehash(m) THEN Rehash(m) ELSE m, e)

Put(m, e) ==
    LET Renewed(old) == IF old.key = e.key THEN e ELSE old
        b == HashFun(m, e.key)
    IN  [m EXCEPT !.buckets[b] = [i \in DOMAIN @ |-> Renewed(@[i])]]

RemoveKey(m, k) ==
    LET Stays(e) == e.key # k
    IN  [m EXCEPT !.buckets[HashFun(m, k)] = SelectSeq(@, Stays), !.nelem = @ - 1]

-----------------------------------------------------------------------------
(* Variants of the definitions below with a plausible mistake in each:     *)
(* what the mutation runs put in their place.  No specification uses them. *)

(* A leftmost map takes over views of variables it has not met. *)
Bug_Missing(m, e) == RehashAndInsert(m, e)

-----------------------------------------------------------------------------
(* Merging.  The elements of one map go into the other, whichever has      *)
(* more, except that a leftmost map stays.  In a leftmost map a variable   *)
(* that is met for the first time comes first; a variable created to the   *)
(* right of it arrives as its own leftmost view.                           *)

Missing(m, e) ==
    IF m.is_leftmost /\ ~e.leftmost
    THEN RehashAndInsert(m, [e EXCEPT !.leftmost = TRUE])
    ELSE RehashAndInsert(m, e)

MergeIntoLeft(m, e) ==
    IF ~Has(m, e.key) THEN Missing(m, e)
    ELSE Put(m, [Get(m, e.key) EXCEPT !.view = @ \o e.view])

(* The views are swapped, so that the one on the left is kept. *)
MergeIntoRight(m, e) ==
    IF ~Has(m, e.key) THEN Missing(m, e)
    ELSE Put(m, [e EXCEPT !.view = @ \o Get(m, e.key).view])

MergeMaps(left, right) ==
    IF left = NoMap THEN right
    ELSE IF right = NoMap THEN left
    ELSE IF left.is_leftmost \/ left.nelem > right.nelem
    THEN FoldLeft(MergeIntoLeft, left, Elements(right))
    ELSE [FoldLeft(MergeIntoRight, right, Elements(left)) EXCEPT
             !.is_leftmost = @ \/ left.is_leftmost]

-----------------------------------------------------------------------------
(* What strands do *)

MapOf(s) == IF maps[s] = NoMap THEN EmptyMap(FALSE) ELSE maps[s]
Total == Len(FlattenSeq(updates))

(* __cilkrts_hyper_lookup, and an update through the view it returns. *)
Update(s, k) ==
    LET m == MapOf(s)
        found == IF Has(m, k) THEN m
                 ELSE RehashAndInsert(m, Elem(k, m.is_leftmost, <<>>))
        u == [key |-> k, number |-> Total + 1]
    IN  /\ k \in known[s] /\ Total < MaxUpdates
        /\ maps' = [maps EXCEPT ![s] =
                      Put(found, [Get(found, k) EXCEPT !.view = Append(@, u)])]
        /\ updates' = [updates EXCEPT ![s] = Append(@, u)]
        /\ UNCHANGED <<known, created>>

(* __cilkrts_hyper_create: the variable itself is the view. *)
Create(s, k) ==
    /\ k \in Dynamic /\ \A t \in Strands : k \notin known[t]
    /\ created < MaxCreates /\ created' = created + 1
    /\ known' = [known EXCEPT ![s] = @ \cup {k}]
    /\ maps' = [maps EXCEPT ![s] = RehashAndInsert(MapOf(s), Elem(k, TRUE, <<>>))]
    /\ UNCHANGED updates

(* __cilkrts_hyper_destroy ends the program if the element that the strand *)
(* finds is not that of the variable itself: see VariablesComeHome.        *)
Destroyable(s, k) ==
    k \in Dynamic \cap known[s] /\ \A t \in Strands \ {s} : k \notin known[t]

Destroy(s, k) ==
    LET Others(u) == u.key # k
    IN  /\ Destroyable(s, k) /\ Has(maps[s], k) /\ Get(maps[s], k).leftmost
        /\ maps' = [maps EXCEPT ![s] = RemoveKey(@, k)]
        /\ known' = [known EXCEPT ![s] = @ \ {k}]
        /\ updates' = [updates EXCEPT ![s] = SelectSeq(@, Others)]
        /\ UNCHANGED created

Steal(s) ==
    /\ Len(maps) < MaxStrands
    /\ maps' = InsertAt(maps, s + 1, NoMap)
    /\ known' = InsertAt(known, s + 1, known[s])
    /\ updates' = InsertAt(updates, s + 1, <<>>)
    /\ UNCHANGED created

Join(s) ==
    /\ s + 1 \in Strands
    /\ maps' = RemoveAt([maps EXCEPT ![s] = MergeMaps(maps[s], maps[s + 1])], s + 1)
    /\ known' = RemoveAt([known EXCEPT ![s] = @ \cup known[s + 1]], s + 1)
    /\ updates' = RemoveAt([updates EXCEPT ![s] = @ \o updates[s + 1]], s + 1)
    /\ UNCHANGED created

Next ==
    \E s \in Strands :
        \/ Steal(s) \/ Join(s)
        \/ \E k \in Keys : Update(s, k) \/ Create(s, k) \/ Destroy(s, k)

Spec == Init /\ [][Next]_vars

-----------------------------------------------------------------------------
(* "check consistency of a reducer map" (reducer_impl.cpp:374), and that   *)
(* each key is where a lookup will find it, and once.                      *)
Consistent(m) ==
    /\ m.nelem = Len(Elements(m))
    /\ Cardinality({e.key : e \in ToSet(Elements(m))}) = m.nelem
    /\ \A b \in DOMAIN m.buckets : \A e \in ToSet(m.buckets[b]) : HashFun(m, e.key) = b

ViewOf(s, k) == IF Has(maps[s], k) THEN Get(maps[s], k).view ELSE <<>>
UpdatesOf(s, k) == LET Is(u) == u.key = k IN SelectSeq(updates[s], Is)

(* The variable itself is among the views of the eldest strand that knows  *)
(* of it, or not in use yet, and nowhere else. *)
Home(k) == CHOOSE s \in Strands :
    k \in known[s] /\ \A t \in Strands : k \in known[t] => s <= t
AtHome(k) ==
    \A s \in Strands : Has(maps[s], k) => (Get(maps[s], k).leftmost <=> s = Home(k))

(* However maps grow, meet and change places, each strand's views are what *)
(* it and those joined with it have done, in serial order, and they end up *)
(* in the user's variable, which a destroy therefore finds.                *)
VariablesComeHome ==
    /\ \A s \in Strands : maps[s] # NoMap => Consistent(maps[s])
    /\ \A s \in Strands, k \in Keys : ViewOf(s, k) = UpdatesOf(s, k)
    /\ \A k \in UNION ToSet(known) : AtHome(k)
    /\ \A s \in Strands, k \in Keys : Destroyable(s, k) => Has(maps[s], k)
=============================================================================

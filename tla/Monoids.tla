------------------------------ MODULE Monoids ------------------------------
(***************************************************************************)
(* The reducers of the library (include/cilk/reducer_*.h, holder.h): what  *)
(* their views hold, how they are updated, and how two are reduced.        *)
(*                                                                         *)
(* One reducer of some kind is used by a program of which one strand after *)
(* the other is stolen; adjacent strands are joined in any order.  The     *)
(* leftmost view is the variable, another one starts as the identity when  *)
(* its strand first needs it.  Joined up to now, a view must mean what a   *)
(* plain variable would hold after the same operations in serial order.    *)
(*                                                                         *)
(* Numbers are of Bits bits, and a word of them is the set of its ones for *)
(* the bitwise reducers.  The kinds "..._by" are those with a comparison   *)
(* of the user's.  A "..._copying" list gets its elements by splicing from *)
(* lists with another allocator.                                           *)
(***************************************************************************)
EXTENDS Integers, FiniteSets, Sequences, SequencesExt

CONSTANTS Kinds,      \* the kinds of reducers to try
          Bits,
          NoView,
          MaxStrands, MaxOps

Modulus == 2^Bits
Numbers == 0..(Modulus - 1)
Positions == 0..(Bits - 1)

Maxima == {"max", "max_index", "max_by", "max_index_by"}
Minima == {"min", "min_index", "min_by", "min_index_by"}
Indexed == {"max_index", "max_index_by", "min_index", "min_index_by"}
Optimized == {"max", "min", "max_index", "min_index"}
Words == {"and", "or", "xor"}
Pieced == {"string", "vector"}

VARIABLES kind,   \* of the reducer
          views,  \* strand -> its view
          ops     \* history: strand -> the operations it and those joined did

vars == <<kind, views, ops>>

-----------------------------------------------------------------------------
(* What the operations get: numbers, words, elements with an index, or one *)
(* or two elements to add at once.  The number of an operation tells list  *)
(* elements, and the indices of values, apart.                             *)
Inputs(n) ==
    IF kind \in {"add", "mul"} THEN Numbers
    ELSE IF kind \in Words THEN SUBSET Positions
    ELSE IF kind \in Maxima \cup Minima
    THEN {[index |-> IF kind \in Indexed THEN n ELSE 0, value |-> v] : v \in Numbers}
    ELSE IF kind = "holder" THEN {n}
    ELSE {<<n>>, <<n, n>>, <<>>}

-----------------------------------------------------------------------------
(* Variants of the definitions below with a plausible mistake in each:     *)
(* what the mutation runs put in their place.  No specification uses them. *)

(* A view that was never set takes part in the comparison. *)
Bug_MinMaxReduce(left, right) ==
    IF (IF kind \in Maxima THEN left.value < right.value ELSE right.value < left.value)
    THEN [right EXCEPT !.is_set = TRUE] ELSE left

-----------------------------------------------------------------------------
(* Minima and maxima.  With the default comparison of numbers the identity *)
(* is the least value, or infinity: no look at is_set is needed to update. *)

Compare(a, b) == IF kind \in Maxima THEN a < b ELSE b < a

Extreme == IF kind \in Maxima THEN 0 ELSE Modulus - 1
MinMaxIdentity ==
    [index |-> 0, value |-> IF kind \in Optimized THEN Extreme ELSE 0,
     is_set |-> FALSE]

HasValue(view) == kind \in Optimized \/ view.is_set

MinMaxCalc(view, x) ==
    IF ~HasValue(view) \/ Compare(view.value, x.value)
    THEN [index |-> x.index, value |-> x.value, is_set |-> TRUE]
    ELSE [view EXCEPT !.is_set = TRUE]

MinMaxReduce(left, right) ==
    IF right.is_set /\ (~left.is_set \/ Compare(left.value, right.value))
    THEN right ELSE left

-----------------------------------------------------------------------------
(* Numbers *)

AddCalc(view, x) == (view + x) % Modulus
MulCalc(view, x) == (view * x) % Modulus
AndCalc(view, x) == view \cap x
OrCalc(view, x) == view \cup x
XorCalc(view, x) == (view \ x) \cup (x \ view)

-----------------------------------------------------------------------------
(* Sequences.  A string or a vector is a list of pieces and the piece that *)
(* is being written; reading it makes it one piece. *)

AppendList(view, x) == view \o x
PrependList(view, x) == x \o view

(* splice_front copies the elements before it clears the list they are in, *)
(* from the first to the first (reducer_list.h:687): none. *)
PrependCopying(view, x) == view

StringIdentity == [pieces |-> <<>>, last |-> <<>>]
StringAppend(view, x) == [view EXCEPT !.last = @ \o x]
Flatten(view) == [pieces |-> <<>>, last |-> FlattenSeq(view.pieces) \o view.last]

StringReduce(left, right) ==
    IF right.last = <<>> /\ right.pieces = <<>> THEN left
    ELSE [pieces |-> left.pieces \o (IF left.last = <<>> THEN <<>> ELSE <<left.last>>)
                       \o right.pieces,
          last |-> right.last]

(* The leftmost view writes to the stream, another one to its buffer. *)
StreamReduce(left, right) == IF right = <<>> THEN left ELSE left \o right

(* A holder whose policy is to keep the last value. *)
HolderReduce(left, right) == right

-----------------------------------------------------------------------------
Identity ==
    CASE kind = "add" -> 0
      [] kind = "mul" -> 1
      [] kind = "and" -> Positions
      [] kind \in {"or", "xor"} -> {}
      [] kind \in Maxima \cup Minima -> MinMaxIdentity
      [] kind \in Pieced -> StringIdentity
      [] kind = "holder" -> 0
      [] OTHER -> <<>>

Updated(view, x) ==
    CASE kind = "add" -> AddCalc(view, x)
      [] kind = "mul" -> MulCalc(view, x)
      [] kind = "and" -> AndCalc(view, x)
      [] kind = "or" -> OrCalc(view, x)
      [] kind = "xor" -> XorCalc(view, x)
      [] kind \in Maxima \cup Minima -> MinMaxCalc(view, x)
      [] kind \in Pieced -> StringAppend(view, x)
      [] kind \in {"list_append", "list_append_copying", "ostream"} -> AppendList(view, x)
      [] kind = "list_prepend" -> PrependList(view, x)
      [] kind = "list_prepend_copying" -> PrependCopying(view, x)
      [] kind = "holder" -> x

Reduced(left, right) ==
    CASE kind = "add" -> AddCalc(left, right)
      [] kind = "mul" -> MulCalc(left, right)
      [] kind = "and" -> AndCalc(left, right)
      [] kind = "or" -> OrCalc(left, right)
      [] kind = "xor" -> XorCalc(left, right)
      [] kind \in Maxima \cup Minima -> MinMaxReduce(left, right)
      [] kind \in Pieced -> StringReduce(left, right)
      [] kind = "ostream" -> StreamReduce(left, right)
      [] kind \in {"list_append", "list_append_copying"} -> AppendList(left, right)
      [] kind \in {"list_prepend", "list_prepend_copying"} -> PrependList(left, right)
      [] kind = "holder" -> HolderReduce(left, right)

(* The constructors that take a value, set_value and move_in. *)
Constructed(x) ==
    IF kind \in Maxima \cup Minima THEN [index |-> x.index, value |-> x.value, is_set |-> TRUE]
    ELSE IF kind \in Pieced THEN [pieces |-> <<>>, last |-> x]
    ELSE x

-----------------------------------------------------------------------------
Strands == DOMAIN views
Total == Len(FlattenSeq(ops))

Init ==
    /\ kind \in Kinds
    /\ views = <<Identity>> /\ ops = <<<<>>>>

(* Before the reduction, and when all strands have been joined again. *)
SetValue(x) ==
    /\ Total < MaxOps /\ Len(views) = 1 /\ kind # "ostream"
    /\ views' = <<Constructed(x)>> /\ ops' = <<<<x>>>>
    /\ UNCHANGED kind

View(s) == IF views[s] = NoView THEN Identity ELSE views[s]

Update(s, x) ==
    /\ Total < MaxOps
    /\ views' = [views EXCEPT ![s] = Updated(View(s), x)]
    /\ ops' = [ops EXCEPT ![s] = Append(@, x)]
    /\ UNCHANGED kind

(* Whatever looks at the view: that it is there may change.  A holder is   *)
(* put into a known state before it is looked at. *)
Look(s) ==
    /\ kind # "holder"
    /\ views' = [views EXCEPT ![s] =
                    IF kind \in Pieced THEN Flatten(View(s)) ELSE View(s)]
    /\ UNCHANGED <<kind, ops>>

Steal(s) ==
    /\ Len(views) < MaxStrands
    /\ views' = InsertAt(views, s + 1, NoView)
    /\ ops' = InsertAt(ops, s + 1, <<>>)
    /\ UNCHANGED kind

Join(s) ==
    LET l == views[s]
        r == views[s + 1]
        joined == IF l = NoView THEN r ELSE IF r = NoView THEN l ELSE Reduced(l, r)
    IN  /\ s + 1 \in Strands
        /\ views' = RemoveAt([views EXCEPT ![s] = joined], s + 1)
        /\ ops' = RemoveAt([ops EXCEPT ![s] = @ \o ops[s + 1]], s + 1)
        /\ UNCHANGED kind

Next ==
    \/ \E x \in Inputs(Total + 1) : SetValue(x) \/ \E s \in Strands : Update(s, x)
    \/ \E s \in Strands : Look(s) \/ Steal(s) \/ Join(s)

Spec == Init /\ [][Next]_vars

-----------------------------------------------------------------------------
(* What the operations done, in this order, mean. *)

BestOf(done) == CHOOSE i \in DOMAIN done :
    \A j \in DOMAIN done :
        /\ ~Compare(done[i].value, done[j].value)
        /\ Compare(done[j].value, done[i].value) \/ i <= j

(* "The index portion of the computed index/value pair will be wrong in    *)
(* the following special case" (reducer_min_max.h:257): not if another     *)
(* comparison is given. *)
IndexLost(done) ==
    kind \in Optimized /\ \A i \in DOMAIN done : done[i].value = Extreme

IsBest(view, done) ==
    /\ view.is_set <=> done # <<>>
    /\ done # <<>> =>
         LET best == done[BestOf(done)] IN
         /\ view.value = best.value
         /\ IndexLost(done) \/ view.index = best.index

Written(view) == IF kind \in Pieced THEN Flatten(view).last ELSE view

Means(view, done) ==
    CASE kind = "add" ->
           view = FoldLeft(LAMBDA a, b : a + b, 0, done) % Modulus
      [] kind = "mul" ->
           view = FoldLeft(LAMBDA a, b : a * b, 1, done) % Modulus
      [] kind = "and" ->
           view = {p \in Positions : \A i \in DOMAIN done : p \in done[i]}
      [] kind = "or" -> view = UNION ToSet(done)
      [] kind = "xor" ->
           view = {p \in Positions :
                     Cardinality({i \in DOMAIN done : p \in done[i]}) % 2 = 1}
      [] kind \in Maxima \cup Minima -> IsBest(view, done)
      [] kind = "holder" -> view = IF done = <<>> THEN 0 ELSE Last(done)
      [] kind \in {"list_prepend", "list_prepend_copying"} ->
           view = FlattenSeq(Reverse(done))
      [] OTHER -> Written(view) = FlattenSeq(done)

(* However the strands were cut and joined, and whether or not they only   *)
(* looked, each view means what the operations of its strands mean when    *)
(* they are done one after the other: "the same result in a parallel       *)
(* computation as in a serial computation" (reducers.md:168).              *)
ReductionsAreSerial ==
    \A s \in Strands : IF views[s] = NoView THEN ops[s] = <<>> ELSE Means(views[s], ops[s])
=============================================================================

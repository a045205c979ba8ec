----------------------------- MODULE CReducers -----------------------------
(***************************************************************************)
(* Reducers in C (reducer.h from line 1500, the C macros of                *)
(* reducer_op*.h and reducer_min_max.h, runtime/c_reducers.c): an object   *)
(* with a plain variable in it, and reduce and identity functions for each *)
(* operation and numeric type.                                             *)
(*                                                                         *)
(* A function run by a bound worker declares one, with an initial value,   *)
(* and registers it while strands use it.  REDUCER_VIEW looks the object   *)
(* up in the map of the strand; that map is the leftmost one of the        *)
(* program, or that of a stolen strand.  Outside of its registration the   *)
(* program may use the variable itself.                                    *)
(*                                                                         *)
(* Integers have Bits bits, with or without a sign; a word of them is the  *)
(* set of its ones.  The values of "double" are a few numbers between      *)
(* minus and plus infinity.                                                *)
(***************************************************************************)
EXTENDS Integers, FiniteSets, Sequences, SequencesExt

CONSTANTS Families,   \* the operations to try
          Types,      \* the numeric types to try
          CharSigned, \* whether plain char is signed
          Bits,
          MaxStrands, MaxOps

Modulus == 2^Bits
Positions == 0..(Bits - 1)

VARIABLES op, type,
          leftmost,   \* the function runs on the leftmost map
          phase,      \* of the object: "declared", "registered", "unregistered"
          variable,   \* the value in the object
          views,      \* strand -> its view, if any, and where that is
          ops,        \* history: strand -> what it and those joined have done
          stopped     \* an assertion has failed

vars == <<op, type, leftmost, phase, variable, views, ops, stopped>>

Maxima == {"max", "max_index"}
Minima == {"min", "min_index"}
Indexed == {"max_index", "min_index"}
Words == {"and", "or", "xor"}

-----------------------------------------------------------------------------
(* limits.h and math.h *)
Signed(t) == t \in {"schar", "int"} \/ (t = "char" /\ CharSigned)
Least(t) == IF t = "double" THEN -2 ELSE IF Signed(t) THEN -(Modulus \div 2) ELSE 0
Greatest(t) == IF t = "double" THEN 2
               ELSE IF Signed(t) THEN Modulus \div 2 - 1 ELSE Modulus - 1
InType(n) == Least(type) + ((n - Least(type)) % Modulus)

(* Maxima and minima carry an index, which is zero without one. *)
Inputs(n) ==
    IF op \in Words THEN SUBSET Positions
    ELSE IF op \in Maxima \cup Minima
    THEN [index : {IF op \in Indexed THEN n ELSE 0}, value : Least(type)..Greatest(type)]
    ELSE Least(type)..Greatest(type)

-----------------------------------------------------------------------------
(* The families: what an update or a reduce makes of two values, and the   *)
(* identity.  An update of the user's is that of the operation.            *)

OpAdd(l, r) == InType(l + r)
OpMul(l, r) == InType(l * r)
OpAnd(l, r) == l \cap r
OpOr(l, r) == l \cup r
OpXor(l, r) == (l \ r) \cup (r \ l)

(* Of equal values the one on the left stays. *)
OpMax(l, r) == IF l.value < r.value THEN r ELSE l
OpMaxIndex(l, r) == OpMax(l, r)
OpMin(l, r) == IF l.value > r.value THEN r ELSE l
OpMinIndex(l, r) == OpMin(l, r)

MaxIdentity == [index |-> 0, value |-> Least(type)]

(* The least of unsigned char starts from the greatest char. *)
MinIdentity ==
    [index |-> 0,
     value |-> Greatest(IF type = "uchar" THEN "char" ELSE type)]

Identity ==
    CASE op = "add" -> 0
      [] op = "mul" -> 1
      [] op = "and" -> Positions
      [] op \in {"or", "xor"} -> {}
      [] op \in Maxima -> MaxIdentity
      [] op \in Minima -> MinIdentity

Combined(l, r) ==
    CASE op = "add" -> OpAdd(l, r)
      [] op = "mul" -> OpMul(l, r)
      [] op = "and" -> OpAnd(l, r)
      [] op = "or" -> OpOr(l, r)
      [] op = "xor" -> OpXor(l, r)
      [] op = "max" -> OpMax(l, r)
      [] op = "max_index" -> OpMaxIndex(l, r)
      [] op = "min" -> OpMin(l, r)
      [] op = "min_index" -> OpMinIndex(l, r)

-----------------------------------------------------------------------------
Strands == DOMAIN views
Total == Len(FlattenSeq(ops))
Registered == phase = "registered"
Nowhere == [at |-> "nowhere", view |-> Identity]

(* CILK_C_DECLARE_REDUCER and CILK_C_INIT_REDUCER with a value. *)
Init ==
    /\ op \in Families /\ type \in Types
    /\ type = "double" => op \in Maxima \cup Minima
    /\ leftmost \in BOOLEAN
    /\ phase = "declared"
    /\ variable \in Inputs(1)
    /\ views = <<Nowhere>> /\ ops = <<<<variable>>>>
    /\ stopped = FALSE

(* __cilkrts_hyper_lookup: what is not in the map is put there, as the     *)
(* variable if the map is the leftmost one, or else as an identity.        *)
Found(s) ==
    IF views[s].at # "nowhere" THEN views[s]
    ELSE [at |-> IF s = 1 /\ leftmost THEN "variable" ELSE "heap", view |-> Identity]
Content(v) == IF v.at = "variable" THEN variable ELSE v.view

Store(s, v, x) ==
    /\ views' = [views EXCEPT ![s] = IF v.at = "variable" THEN v ELSE [v EXCEPT !.view = x]]
    /\ variable' = IF v.at = "variable" THEN x ELSE variable

(* The variable is given a value before it is registered, or again. *)
Assign(x) ==
    /\ ~Registered /\ ~stopped
    /\ phase' = "declared"
    /\ variable' = x /\ ops' = <<<<x>>>>
    /\ UNCHANGED <<op, type, leftmost, views, stopped>>

(* CILK_C_REGISTER_REDUCER asserts that the map has not got the object. *)
Register ==
    /\ ~Registered /\ ~stopped
    /\ IF views[1].at = "nowhere"
       THEN /\ phase' = "registered" /\ views' = <<[Nowhere EXCEPT !.at = "variable"]>>
            /\ UNCHANGED stopped
       ELSE stopped' = TRUE /\ UNCHANGED <<phase, views>>
    /\ UNCHANGED <<op, type, leftmost, variable, ops>>

(* CILK_C_UNREGISTER_REDUCER, after the sync. *)
Unregister ==
    /\ Registered /\ Len(views) = 1
    /\ phase' = "unregistered" /\ views' = <<Nowhere>>
    /\ UNCHANGED <<op, type, leftmost, variable, ops, stopped>>

(* An update through REDUCER_VIEW. *)
Update(s, x) ==
    /\ Registered /\ Total < MaxOps
    /\ LET v == Found(s) IN Store(s, v, Combined(Content(v), x))
    /\ ops' = [ops EXCEPT ![s] = Append(@, x)]
    /\ UNCHANGED <<op, type, leftmost, phase, stopped>>

(* A read through REDUCER_VIEW, at any time. *)
Look(s) ==
    /\ ~stopped
    /\ views' = [views EXCEPT ![s] = Found(s)]
    /\ UNCHANGED <<op, type, leftmost, phase, variable, ops, stopped>>

Steal(s) ==
    /\ Registered /\ Len(views) < MaxStrands
    /\ views' = InsertAt(views, s + 1, Nowhere)
    /\ ops' = InsertAt(ops, s + 1, <<>>)
    /\ UNCHANGED <<op, type, leftmost, phase, variable, stopped>>

Join(s) ==
    /\ s + 1 \in Strands
    /\ LET l == views[s]
           r == views[s + 1]
           joined == IF l.at = "nowhere" THEN r ELSE l
           both == l.at # "nowhere" /\ r.at # "nowhere"
           x == IF both THEN Combined(Content(l), r.view) ELSE Content(joined)
       IN  /\ views' = RemoveAt([views EXCEPT ![s] =
                           IF joined.at = "heap" THEN [joined EXCEPT !.view = x] ELSE joined],
                         s + 1)
           /\ variable' = IF joined.at = "variable" THEN x ELSE variable
    /\ ops' = RemoveAt([ops EXCEPT ![s] = @ \o ops[s + 1]], s + 1)
    /\ UNCHANGED <<op, type, leftmost, phase, stopped>>

Next ==
    \/ \E x \in Inputs(Total + 1) : \E s \in Strands : Update(s, x)
    \/ \E x \in Inputs(1) : Assign(x)
    \/ Register \/ Unregister
    \/ \E s \in Strands : Look(s) \/ Steal(s) \/ Join(s)

Spec == Init /\ [][Next]_vars

-----------------------------------------------------------------------------
(* What the operations done, in this order, mean. *)
Better(a, b) == IF op \in Maxima THEN a.value > b.value ELSE a.value < b.value
FirstBest(done) == CHOOSE i \in DOMAIN done :
    \A j \in DOMAIN done : ~Better(done[j], done[i]) /\ (Better(done[i], done[j]) \/ i <= j)

Worst == IF op \in Maxima THEN Least(type) ELSE Greatest(type)
IsBest(view, done) ==
    IF \A i \in DOMAIN done : done[i].value = Worst
    THEN view.value = Worst ELSE view = done[FirstBest(done)]

Means(view, done) ==
    CASE op = "add" -> view = InType(FoldLeft(LAMBDA a, b : a + b, 0, done))
      [] op = "mul" -> view = InType(FoldLeft(LAMBDA a, b : a * b, 1, done))
      [] op = "and" -> view = {p \in Positions : \A i \in DOMAIN done : p \in done[i]}
      [] op = "or" -> view = UNION ToSet(done)
      [] op = "xor" -> view = {p \in Positions :
             Cardinality({i \in DOMAIN done : p \in done[i]}) % 2 = 1}
      [] OTHER -> IsBest(view, done)

(* The result is the serial one, and so is each view on the way, except    *)
(* for the index that goes with the worst value of the type: the result    *)
(* has that right as well, since it starts from a value of the user's.     *)
CReductionsAreSerial ==
    /\ \A s \in Strands :
         Registered /\ views[s].at # "nowhere" => Means(Content(views[s]), ops[s])
    /\ Len(views) = 1 =>
         /\ Means(variable, ops[1])
         /\ op \in Maxima \cup Minima => variable = ops[1][FirstBest(ops[1])]

(* "CILK_C_UNREGISTER_REDUCER(sum); printf(..., REDUCER_VIEW(sum))"        *)
(* (reducer.h:1791): the view that is read after the registration is the   *)
(* result.                                                                 *)
ViewIsTheResult == phase = "unregistered" => Means(Content(Found(1)), ops[1])
=============================================================================

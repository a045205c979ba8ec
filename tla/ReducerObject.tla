---------------------------- MODULE ReducerObject ----------------------------
(* How reducers and holders come into being and go (reducer.h, holder.h):  *)
(* a reducer is registered, then its monoid and its leftmost view are      *)
(* built, in an order that depends on the monoid; the monoid of a holder   *)
(* owns an initializer with a value of its own on the heap.  Constructors, *)
(* copies and allocations are the user's and may throw after any part;     *)
(* guards on the stack then undo what was built.                           *)
EXTENDS Naturals

CONSTANTS Kinds,        \* of monoids
          MaxMade,      \* initializers made in a run
          MaxViews      \* views besides the leftmost one

VARIABLES kind,         \* of the reducer
          live,         \* the parts that have been built and not destroyed
          twice,        \* something was destroyed that was not there
          m_initializer,\* of the holder monoids
          made,         \* initializers made so far
          place,        \* where the reducer is
          broken,       \* holder monoids whose assignment has thrown
          assign_threw  \* some assignment of a monoid has

vars == <<kind, live, twice, m_initializer, made, place, broken, assign_threw>>

(* The user's monoids, and the one inside the reducer.                     *)
Users == {"m1", "m2"}
Holders == Users \cup {"own"}

-----------------------------------------------------------------------------
(* A construction: the parts that it builds, and what it may leave behind  *)
(* when it throws.                                                         *)
Part(p) == [done |-> {p}, fails |-> {{}}]
Nothing == [done |-> {}, fails |-> {}]

(* One after the other, without a guard on the first.                      *)
Then(c, d) == [done |-> c.done \cup d.done,
               fails |-> c.fails \cup {c.done \cup left : left \in d.fails}]

(* Variants of the definitions below with a plausible mistake in each: no  *)
(* guard holds the block of the stored value; the monoid's guard is        *)
(* confirmed before the view is built; delete_self forgets the value's     *)
(* block.                                                                  *)
Bug_StoredUnguarded(x, what) == Then(Part(<<what, "block", x>>), Part(<<what, "value", x>>))
Bug_ConfirmedTooSoon(monoid) == Then(monoid, Part(<<"leftmost">>))

(* One under the guard of the other: auto_deallocator, provisional_guard,  *)
(* new_aligned_pointer, or a base class that is complete.                  *)
Guarded(c, d) == [done |-> c.done \cup d.done, fails |-> c.fails \cup d.fails]

(* exemplar_init and functor_init keep a value in a block of its own.      *)
Stored(x, what) == Guarded(Part(<<what, "block", x>>), Part(<<what, "value", x>>))
ExemplarInit(x) == Stored(x, "exemplar")
FunctorInit(x) == Stored(x, "functor")

(* The static make() functions; default_init has a single instance, which  *)
(* is neither made nor deleted.                                            *)
MakeExemplar(x) == Guarded(Part(<<"self", "block", x>>), ExemplarInit(x))
MakeFunctor(x) == Guarded(Part(<<"self", "block", x>>), FunctorInit(x))
Make(init) == IF init.type = "exemplar" THEN MakeExemplar(init.id)
              ELSE IF init.type = "functor" THEN MakeFunctor(init.id)
              ELSE Nothing

(* delete_self destroys the stored value and gives both blocks back.       *)
DeleteExemplar(x) == MakeExemplar(x).done
DeleteFunctor(x) == MakeFunctor(x).done
DeleteSelf(init) == IF init.type = "exemplar" THEN DeleteExemplar(init.id)
                    ELSE IF init.type = "functor" THEN DeleteFunctor(init.id)
                    ELSE {}

(* construct() of the monoids: which of the two is built first, under a    *)
(* guard until the other is complete.                                      *)
MonoidFirst(monoid) == Guarded(monoid, Part(<<"leftmost">>))
MonoidCopiedFirst(monoid) == Guarded(monoid, Part(<<"leftmost">>))
MinMaxFirst(monoid) == Guarded(monoid, Part(<<"leftmost">>))
ListFirst(monoid) == Guarded(Part(<<"leftmost">>), monoid)
VectorFirst(monoid) == Guarded(Part(<<"leftmost">>), monoid)
StringFirst(monoid) == Guarded(Part(<<"leftmost">>), monoid)
OstreamFirst(monoid) == Guarded(Part(<<"leftmost">>), monoid)
Construct(monoid) ==
    CASE kind = "scalar" -> MonoidFirst(monoid)
      [] kind = "holder" -> MonoidCopiedFirst(monoid)
      [] kind = "min_max" -> MinMaxFirst(monoid)
      [] kind = "list" -> ListFirst(monoid)
      [] kind = "vector" -> VectorFirst(monoid)
      [] kind = "string" -> StringFirst(monoid)
      [] kind = "ostream" -> OstreamFirst(monoid)

(* aligned_new: the reducer in a block of its own.                         *)
AlignedNew(object) == Guarded(Part(<<"aligned">>), object)

-----------------------------------------------------------------------------
NoInit == [type |-> "none", id |-> 0]
Default == [type |-> "default", id |-> 0]
Exists(m) == m_initializer[m] # NoInit

Init ==
    /\ kind \in Kinds
    /\ live = {} /\ twice = FALSE
    /\ m_initializer = [m \in Holders |-> NoInit]
    /\ made = 0
    /\ place = "none"
    /\ broken = {}
    /\ assign_threw = FALSE

Destroy(parts) == /\ live' = live \ parts
                  /\ twice' = (twice \/ ~ parts \subseteq live)

(* An initializer of this type that is yet to be made.                     *)
Fresh(type) == IF type = "default" THEN Default ELSE [type |-> type, id |-> made + 1]
Made(type) == IF type = "default" THEN made' = made
              ELSE made < MaxMade /\ made' = made + 1

(* A construction from scratch: it may be completed, with an effect, or    *)
(* leave something behind.                                                 *)
Completes(c) == live' = live \cup c.done
Throws(c) == \E left \in c.fails : live' = live \cup left

(* The constructors of holder_monoid.                                      *)
NewMonoid(m, type) ==
    /\ kind = "holder" /\ ~Exists(m)
    /\ Made(type)
    /\ \/ /\ Completes(Make(Fresh(type)))
          /\ m_initializer' = [m_initializer EXCEPT ![m] = Fresh(type)]
       \/ Throws(Make(Fresh(type))) /\ UNCHANGED m_initializer
    /\ UNCHANGED <<kind, twice, place, broken, assign_threw>>

(* Its copy constructor clones the initializer.                            *)
CopyMonoid(m, rhs) ==
    rhs \notin broken /\ Exists(rhs) /\ NewMonoid(m, m_initializer[rhs].type)

(* The move constructor leaves the default initializer in the other.       *)
MoveMonoid(m, rhs) ==
    /\ ~Exists(m) /\ Exists(rhs) /\ rhs \notin broken
    /\ m_initializer' = [m_initializer EXCEPT ![m] = m_initializer[rhs], ![rhs] = Default]
    /\ UNCHANGED <<kind, live, twice, made, place, broken, assign_threw>>

(* operator= deletes the initializer before it clones the other's: if that *)
(* throws, the monoid keeps the address of the one deleted.                *)
AssignMonoid(m, rhs) ==
    /\ m # rhs /\ Exists(m) /\ Exists(rhs) /\ rhs \notin broken
    /\ LET old == DeleteSelf(m_initializer[m])
           init == Fresh(m_initializer[rhs].type)
       IN /\ Made(init.type)
          /\ twice' = (twice \/ ~ old \subseteq live)
          /\ \/ /\ live' = (live \ old) \cup Make(init).done
                /\ m_initializer' = [m_initializer EXCEPT ![m] = init]
                /\ broken' = broken \ {m}
                /\ UNCHANGED assign_threw
             \/ /\ \E left \in Make(init).fails : live' = (live \ old) \cup left
                /\ broken' = IF old = {} THEN broken ELSE broken \cup {m}
                /\ assign_threw' = TRUE
                /\ UNCHANGED m_initializer
    /\ UNCHANGED <<kind, place>>

(* swap(), and the move assignment.                                        *)
SwapMonoids(m, other) ==
    /\ m # other /\ Exists(m) /\ Exists(other) /\ {m, other} \cap broken = {}
    /\ m_initializer' = [m_initializer EXCEPT ![m] = m_initializer[other],
                                              ![other] = m_initializer[m]]
    /\ UNCHANGED <<kind, live, twice, made, place, broken, assign_threw>>

DestroyMonoid(m) ==
    /\ Exists(m)
    /\ Destroy(DeleteSelf(m_initializer[m]))
    /\ m_initializer' = [m_initializer EXCEPT ![m] = NoInit]
    /\ broken' = broken \ {m}
    /\ UNCHANGED <<kind, made, place, assign_threw>>

-----------------------------------------------------------------------------
(* The monoid inside the reducer: that of a holder is the copy of one.     *)
OwnMonoid(init) == IF kind = "holder" THEN Make(init) ELSE Part(<<"monoid">>)

(* reducer_base registers the reducer, and its destructor takes it out     *)
(* again, also when the rest of the constructor throws.                    *)
Registered(rest) == Guarded(Part(<<"registered">>), rest)

WholeReducer(where, init) ==
    LET reducer == Registered(Construct(OwnMonoid(init)))
    IN IF where = "heap" THEN AlignedNew(reducer) ELSE reducer

(* The constructors of reducer.                                            *)
NewReducer(where, type) ==
    /\ place = "none"
    /\ Made(type)
    /\ kind = "holder" \/ type = "default"
    /\ LET c == WholeReducer(where, Fresh(type))
       IN \/ /\ Completes(c)
             /\ place' = where
             /\ m_initializer' = [m_initializer EXCEPT !["own"] = Fresh(type)]
          \/ Throws(c) /\ UNCHANGED <<place, m_initializer>>
    /\ UNCHANGED <<kind, twice, broken, assign_threw>>

(* A strand's first use of the reducer allocates a view and builds the     *)
(* identity in it; nothing guards the memory meanwhile.                    *)
NewView(v) ==
    /\ place # "none" /\ <<"memory", v>> \notin live
    /\ LET c == Then(Part(<<"memory", v>>), Part(<<"view", v>>))
       IN Completes(c) \/ Throws(c)
    /\ UNCHANGED <<kind, twice, m_initializer, made, place, broken, assign_threw>>

(* After a reduce the right view is destroyed and its memory given back.   *)
DropView(v) ==
    /\ <<"view", v>> \in live
    /\ Destroy({<<"view", v>>, <<"memory", v>>})
    /\ UNCHANGED <<kind, m_initializer, made, place, broken, assign_threw>>

(* ~reducer, after every strand has returned, and aligned_delete.          *)
DestroyReducer ==
    /\ place # "none" /\ \A v \in 1 .. MaxViews : <<"view", v>> \notin live
    /\ Destroy({<<"leftmost">>, <<"registered">>}
               \cup (IF kind = "holder" THEN DeleteSelf(m_initializer["own"])
                     ELSE {<<"monoid">>})
               \cup (IF place = "heap" THEN {<<"aligned">>} ELSE {}))
    /\ m_initializer' = [m_initializer EXCEPT !["own"] = NoInit]
    /\ place' = "none"
    /\ UNCHANGED <<kind, made, broken, assign_threw>>

InitTypes == {"default", "exemplar", "functor"}
Next ==
    \/ \E m \in Users, type \in InitTypes : NewMonoid(m, type)
    \/ \E m, n \in Users : \/ CopyMonoid(m, n) \/ MoveMonoid(m, n)
                           \/ AssignMonoid(m, n) \/ SwapMonoids(m, n)
    \/ \E m \in Users : DestroyMonoid(m)
    \/ \E where \in {"stack", "heap"}, type \in InitTypes : NewReducer(where, type)
    \/ \E v \in 1 .. MaxViews : NewView(v) \/ DropView(v)
    \/ DestroyReducer

Spec == Init /\ [][Next]_vars

-----------------------------------------------------------------------------
(* What the monoids and the reducer that exist are made of.                *)
Owned ==
    UNION {DeleteSelf(m_initializer[m]) : m \in Holders \ broken}
      \cup (IF place = "none" THEN {}
            ELSE {<<"leftmost">>, <<"registered">>, <<"monoid">>, <<"aligned">>})
      \cup {<<"memory", v>> : v \in 1 .. MaxViews} \cup {<<"view", v>> : v \in 1 .. MaxViews}

(* Whichever constructor has thrown wherever: all that is left belongs to  *)
(* a monoid or a reducer that exists (or is the memory of a view whose     *)
(* identity has thrown), all of that is there, and nothing is destroyed    *)
(* twice, as long as no assignment of a monoid has thrown.                 *)
NothingLost ==
    /\ live \subseteq Owned
    /\ \A m \in Holders \ broken : DeleteSelf(m_initializer[m]) \subseteq live
    /\ place # "none" => {<<"leftmost">>, <<"registered">>} \subseteq live
    /\ twice => assign_threw
=============================================================================

----------------------------- MODULE MCReducers -----------------------------
(* Reducers from the frame down to the single view: the maps that strands  *)
(* leave to each other (Reducers, with as many children as it takes for    *)
(* two to meet in the middle), the tables that the maps are (HyperMap),    *)
(* what is in the views (Monoids, CReducers), and the objects themselves   *)
(* (ReducerObject); and the exceptions that take the way of the maps, on   *)
(* Unix (GccExceptions) and on Windows (Win64Exceptions).  They share no   *)
(* state: a behaviour is one of the level that its first state names.      *)
EXTENDS Reducers, TLC

CONSTANT NoView

VARIABLES level,
          tables, known, updates, created,    \* HyperMap
          kind, views, ops,                   \* Monoids
          op, type, leftmost, phase, variable, c_views, c_ops, stopped, \* CReducers
          of, live, twice, m_initializer, made, place, broken, assign_threw,
                                              \* ReducerObject
          pos, stolen, child, caught, kept, child_kept, run, flying, tail, pending,
          refs, thrown_now, alive, shut_for_good, failed, \* Win64Exceptions
          at, before, cxa, info, right_info, nkids, siblings, is_unsynched,
          except_data, handler, raised, living, infos, refuted \* GccExceptions

table_vars == <<tables, known, updates, created>>
view_vars == <<kind, views, ops>>
c_vars == <<op, type, leftmost, phase, variable, c_views, c_ops, stopped>>
object_vars == <<of, live, twice, m_initializer, made, place, broken, assign_threw>>

throw_vars == <<pos, stolen, child, caught, kept, child_kept, run, flying, tail,
                pending, refs, thrown_now, alive, shut_for_good, failed>>
gcc_vars == <<at, before, cxa, info, right_info, nkids, siblings, is_unsynched,
              except_data, handler, raised, living, infos, refuted>>

Tables == INSTANCE HyperMap WITH
    Globals <- {1}, Dynamic <- {3, 5}, MaxStrands <- 3, MaxUpdates <- 2,
    MaxCreates <- 2, maps <- tables

SomeKinds == {"add", "mul", "and", "or", "xor",
              "max", "min", "max_index", "min_index",
              "max_by", "min_by", "max_index_by", "min_index_by",
              "list_append", "list_append_copying", "list_prepend",
              "string", "vector", "ostream", "holder"}
OneView == INSTANCE Monoids WITH
    Kinds <- SomeKinds, Bits <- 2, MaxStrands <- 3, MaxOps <- 3

InC == INSTANCE CReducers WITH
    Families <- {"add", "mul", "and", "or", "xor", "max", "max_index", "min", "min_index"},
    Types <- {"char", "uchar", "schar", "int", "double"},
    CharSigned <- TRUE, Bits <- 2, MaxStrands <- 3, MaxOps <- 3,
    views <- c_views, ops <- c_ops

(* Not the minima of unsigned char, which start from the greatest char,    *)
(* and each of the others with the types that make a difference.           *)
SomeTypes ==
    /\ op \in {"min", "min_index"} => type # "uchar"
    /\ op \in {"add", "mul"} => type \in {"char", "uchar"}
    /\ op \in {"and", "or", "xor"} => type = "int"

Objects == INSTANCE ReducerObject WITH
    Kinds <- {"scalar", "holder", "min_max", "list", "vector", "string", "ostream"},
    MaxMade <- 3, MaxViews <- 1, kind <- of

Win == INSTANCE Win64Exceptions WITH
    Workers <- {"a", "b", "c"}, First <- "a", MaxThrows <- 3,
    thrown <- thrown_now, broken <- failed

Gcc == INSTANCE GccExceptions WITH MaxKids <- 3, MaxThrows <- 3

LevelsInit ==
    /\ level \in {"maps", "tables", "views", "c", "objects", "win64", "gcc"}
    /\ Init /\ Tables!Init /\ OneView!Init /\ InC!Init /\ Objects!Init /\ Win!WInit /\ Gcc!GInit
    /\ SomeTypes
    /\ level # "views" => kind = "add"
    /\ level # "c" => op = "add" /\ type = "uchar" /\ variable = 0 /\ leftmost
    /\ level # "objects" => of = "scalar"
    /\ level # "gcc" => before = [caught |-> <<>>, uncaught |-> 0]

(* As many events as there may be only if they are all updates of one      *)
(* reducer: of two reducers or with exceptions, one less.                  *)
FewEvents ==
    Cardinality(updated) + Cardinality(thrown) = MaxEvents =>
        thrown = {} /\ Cardinality({u[1] : u \in updated}) = 1

(* What belongs to the other levels stays as it is. *)
OthersUnchanged ==
    /\ UNCHANGED level
    /\ level # "maps" => UNCHANGED vars
    /\ level # "tables" => UNCHANGED table_vars
    /\ level # "views" => UNCHANGED view_vars
    /\ level # "c" => UNCHANGED c_vars
    /\ level # "objects" => UNCHANGED object_vars
    /\ level # "win64" => UNCHANGED throw_vars
    /\ level # "gcc" => UNCHANGED gcc_vars

LevelsNext ==
    /\ \/ level = "maps" /\ Next /\ FewEvents'
       \/ level = "tables" /\ Tables!Next
       \/ level = "views" /\ OneView!Next
       \/ level = "c" /\ InC!Next
       \/ level = "objects" /\ Objects!Next
       \/ level = "win64" /\ Win!WNext
       \/ level = "gcc" /\ Gcc!GNext
    /\ OthersUnchanged

LevelsSpec ==
    LevelsInit /\ [][LevelsNext]_<<level, vars, table_vars, view_vars, c_vars,
                                   object_vars, throw_vars, gcc_vars>>

(* HyperMap: the views of a variable end up in it, each update once.       *)
(* ReducerObject: what reducers and monoids are made of is theirs, also    *)
(* when a constructor throws.                                              *)
(* Win64Exceptions: an exception that crosses stolen frames is somebody's  *)
(* until it is destroyed, and shuts the deque of who has it till then.     *)
(* GccExceptions: the state of the C++ runtime is the serial program's.    *)
AllComesHome ==
    /\ level = "tables" => Tables!VariablesComeHome
    /\ level = "objects" => Objects!NothingLost
    /\ level = "win64" => Win!ExceptionsCross
    /\ level = "gcc" => Gcc!StateIsSerial

(* Monoids, CReducers: a view means what its operations mean in serial     *)
(* order.                                                                  *)
ReductionsAreSerial ==
    /\ level = "views" => OneView!ReductionsAreSerial
    /\ level = "c" => InC!CReductionsAreSerial

Symmetry == Permutations(Reducers)
=============================================================================

----------------------------- MODULE TaskOrder -----------------------------
(***************************************************************************)
(* What dataflow dependences promise: the tasks of one parent may run at   *)
(* the same time and in any order, except that a task starts only when     *)
(* every task spawned before it with a conflicting access has ended, so    *)
(* that each object sees its accesses as in the serial program.            *)
(***************************************************************************)
EXTENDS Naturals, Sequences

CONSTANTS Tasks,           \* numbered in the order of the spawns
          Accesses,        \* what a task may access
          Conflict(_, _)   \* two of them conflict

VARIABLES access,   \* the accesses of the tasks spawned so far
          begun,    \* the tasks whose body has begun
          ended     \* the tasks whose body has ended

Init == access = <<>> /\ begun = {} /\ ended = {}

Spawned == DOMAIN access

(* The parent spawns the next task. *)
Spawn(a) ==
    /\ access' = Append(access, a)
    /\ UNCHANGED <<begun, ended>>

Begin(t) ==
    /\ t \in Spawned \ begun
    /\ \A s \in Spawned : s < t /\ Conflict(access[s], access[t]) => s \in ended
    /\ begun' = begun \cup {t}
    /\ UNCHANGED <<access, ended>>

End(t) ==
    /\ t \in begun \ ended
    /\ ended' = ended \cup {t}
    /\ UNCHANGED <<access, begun>>

Next == \/ \E a \in Accesses : Spawn(a)
        \/ \E t \in Tasks : Begin(t) \/ End(t)

Spec == Init /\ [][Next]_<<access, begun, ended>>
=============================================================================

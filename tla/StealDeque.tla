----------------------------- MODULE StealDeque -----------------------------
(***************************************************************************)
(* What a worker's deque promises: a sequence of continuations that its    *)
(* worker pushes and takes back at one end and thieves take at the other.  *)
(* Each operation is one step; THE implements it without a lock on the     *)
(* worker's fast path.                                                     *)
(***************************************************************************)
EXTENDS Naturals, Sequences, SequencesExt

CONSTANT Continuations

VARIABLES avail,    \* the continuations on the deque, oldest first
          stolen    \* those that were stolen, in the order of the steals

Init == avail = <<>> /\ stolen = <<>>

(* The worker spawns: the parent's continuation becomes available. *)
Push(c) == avail' = Append(avail, c) /\ UNCHANGED stolen

(* The worker returns to the continuation it pushed last. *)
TakeNewest == avail # <<>> /\ avail' = Front(avail) /\ UNCHANGED stolen

(* Thieves, or the worker on their behalf, take those pushed first. *)
StealOldest(n) ==
    /\ avail' = SubSeq(avail, n + 1, Len(avail))
    /\ stolen' = stolen \o SubSeq(avail, 1, n)

Next == \/ \E c \in Continuations : Push(c)
        \/ TakeNewest
        \/ \E n \in 1..Len(avail) : StealOldest(n)

Spec == Init /\ [][Next]_<<avail, stolen>>
=============================================================================

---------------------------- MODULE MCFullFrames ----------------------------
(* FullFrames with few full frames at a time and three workers: a user     *)
(* thread and two workers of the runtime, or two threads and one worker.   *)
(* Workers of a kind are interchangeable.  With two threads, no calls      *)
(* between two spawns.                                                     *)
EXTENDS FullFrames, TLC

VARIABLE present  \* the workers that exist

Init3 ==
    /\ Init
    /\ present \in {P \in SUBSET Workers :
                        Cardinality(P) = 3 /\ P \cap Users # {} /\ P \cap Systems # {}}
Next3 == /\ \E w \in present : WorkerStep(w)
         /\ UNCHANGED present
         /\ Users \subseteq present => \A w \in present : calls'[w] <= 1
Spec3 == Init3 /\ [][Next3]_<<vars, present>>

Symmetry == Permutations(Users) \cup Permutations(Systems)
=============================================================================

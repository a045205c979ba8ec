------------------------------ MODULE MCTasks ------------------------------
(* The two halves of a dataflow task's life, which share no state but the  *)
(* fact that it is issued: who issues it (IssueRace), and what its issue   *)
(* and its release do to the objects it accesses (Dataflow).  A behaviour  *)
(* is one of the part that its first state names.                          *)
EXTENDS IssueRace, Dataflow, TLC

CONSTANTS x, y  \* the two objects

VARIABLE part   \* the part that runs

ASSUME TasksAssumption == DataflowAssumption

(* "pairs": every read and write of two objects, up to exchanging them.    *)
(* "joint": tasks that the writers of two objects, spawned first, release  *)
(* together; one task more.                                                *)
AccessesTo(objects, groups) == UNION {[os -> groups] : os \in SUBSET objects \ {{}}}
Pairs == AccessesTo({x, y}, {"read", "write"}) \ {y :> "read", x :> "write" @@ y :> "read"}
Joint == {x :> "write", y :> "write", x :> "read", x :> "commut",
          x :> "read" @@ y :> "read"}

Both == Pairs \cup Joint

TasksInit ==
    /\ part \in {"issue", "pairs", "joint"}
    /\ IssueInit /\ Init
    /\ part # "issue" => kind = [c \in Children |-> "dataflow"]

JointAt(n) == CASE n = 0 -> {x :> "write"} [] n = 1 -> {y :> "write"} [] OTHER -> Joint
Spawns == \/ part = "pairs" /\ newest < MaxTasks - 1 /\ \E a \in Pairs : Spawn(a)
          \/ part = "joint" /\ \E a \in JointAt(newest) : Spawn(a)

TasksNext ==
    /\ UNCHANGED part
    /\ \/ part = "issue" /\ IssueNext /\ UNCHANGED vars
       \/ /\ part # "issue" /\ UNCHANGED issue_vars
          /\ \/ Spawns \/ SpawnerStep \/ EndUnissued \/ StealParent
             \/ \E t \in Tasks : TaskStep(t)

(* The fairness of each part, for the behaviours in which it runs.         *)
TasksSpec ==
    /\ TasksInit /\ [][TasksNext]_<<part, issue_vars, vars>>
    /\ WF_issue_vars(part = "issue" /\ ThiefInside)
    /\ \A c \in Children : WF_issue_vars(part = "issue" /\ ChildReturns(c))
    /\ WF_vars(part # "issue" /\ SpawnerStep)
    /\ \A t \in Tasks : WF_vars(part # "issue" /\ TaskStep(t))
=============================================================================

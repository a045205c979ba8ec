----------------------------- MODULE IssueRace -----------------------------
(***************************************************************************)
(* Deferred issue of dataflow tasks (runtime/scheduler.c:955-982 and       *)
(* runtime/cilk-abi.c:118-204, 405-470).                                   *)
(*                                                                         *)
(* A dataflow task that is ready when it is spawned runs at once and is    *)
(* not entered into the metadata of its objects.  Only a thief of the      *)
(* parent, which may spawn tasks that depend on it, enters ("issues") it,  *)
(* through the parent's df_issue_child.  A task that ends must release     *)
(* what was issued, once and afterwards, and nothing else.  Parent, task   *)
(* and thief meet in that one field, without a lock.                       *)
(*                                                                         *)
(* The module follows one parent frame.  Its deque is the abstract one of  *)
(* StealDeque: of a steal and the task's undo_detach exactly one wins.     *)
(***************************************************************************)
EXTENDS Naturals

CONSTANTS MaxChildren,  \* bound on the number of spawns in the parent
          Null          \* the null frame pointer

ASSUME ChildrenAssumption == MaxChildren \in Nat /\ Null \notin 1..MaxChildren

Children == 1..MaxChildren
Dataflow == "dataflow"

VARIABLES df_issue_child, \* the pointer and its lowest bit, "issue in progress"
          parent,         \* what the worker that has the parent frame does
          youngest,       \* the number of children entered so far
          kind,           \* child -> dataflow task or plain spawn
          cpc,            \* what each child's worker is doing
          to_issue,       \* the thief's copy of df_issue_child
          issued,         \* history: how often each child was issued
          released        \* history: how often each child was released

issue_vars == <<df_issue_child, parent, youngest, kind, cpc, to_issue, issued, released>>

Pointer(c, busy) == [frame |-> c, busy |-> busy]

IssueInit ==
    /\ df_issue_child = Pointer(Null, FALSE)
    /\ parent = "running"
    /\ youngest = 0
    /\ kind \in [Children -> {Dataflow, "plain"}]
    /\ cpc = [c \in Children |-> "unborn"]
    /\ to_issue = Null
    /\ issued = [c \in Children |-> 0]
    /\ released = [c \in Children |-> 0]

ParentGoto(from, to) == parent = from /\ parent' = to
ChildGoto(c, from, to) == cpc[c] = from /\ cpc' = [cpc EXCEPT ![c] = to]

-----------------------------------------------------------------------------
(* Variants of the actions below with a plausible mistake in each: what    *)
(* the mutation runs put in their place.  No specification uses them.      *)

(* The parent's field keeps the last value when a plain child is entered.  *)
Bug_EnterKeepsPointer ==
    /\ youngest < MaxChildren
    /\ ParentGoto("running", "enter")
    /\ youngest' = youngest + 1
    /\ cpc' = [cpc EXCEPT ![youngest + 1] = "body"]
    /\ UNCHANGED <<df_issue_child, kind, to_issue, issued, released>>

(* A task that finds its issue in progress does not wait for its end. *)
Bug_NoWait(c) ==
    /\ kind[c] = Dataflow
    /\ df_issue_child = Pointer(c, TRUE)
    /\ ChildGoto(c, "body", "release")
    /\ UNCHANGED <<df_issue_child, parent, youngest, kind, to_issue, issued, released>>

(* The thief issues the task before it takes hold of the pointer. *)
Bug_TestThenIssue ==
    /\ ParentGoto("mark", "issue")
    /\ to_issue' = df_issue_child.frame
    /\ UNCHANGED <<df_issue_child, youngest, kind, cpc, issued, released>>

(* The parent continues before the task is issued. *)
Bug_ResumeUnissued ==
    /\ ParentGoto("mark", "running")
    /\ to_issue' = df_issue_child.frame
    /\ df_issue_child' = Pointer(Null, FALSE)
    /\ UNCHANGED <<youngest, kind, cpc, issued, released>>

(* The thief leaves the mark behind. *)
Bug_MarkStays ==
    /\ ParentGoto("unmark", "running")
    /\ UNCHANGED <<df_issue_child, youngest, kind, cpc, to_issue, issued, released>>

-----------------------------------------------------------------------------
(* __cilkrts_enter_frame*: a spawn helper clears the parent's field; a     *)
(* dataflow helper then points it to itself; the helper then detaches.     *)
EnterFrame ==
    /\ youngest < MaxChildren
    /\ ParentGoto("running", "enter")
    /\ df_issue_child' = Pointer(Null, FALSE)
    /\ youngest' = youngest + 1
    /\ cpc' = [cpc EXCEPT ![youngest + 1] = "body"]
    /\ UNCHANGED <<kind, to_issue, issued, released>>

EnterFrameDf ==
    /\ ParentGoto("enter", "detach")
    /\ kind[youngest] = Dataflow
    /\ df_issue_child' = Pointer(youngest, FALSE)
    /\ UNCHANGED <<youngest, kind, cpc, to_issue, issued, released>>

Detach ==
    /\ parent \in {"enter", "detach"}
    /\ parent = "enter" => kind[youngest] # Dataflow
    /\ parent' = "spawned"
    /\ UNCHANGED <<df_issue_child, youngest, kind, cpc, to_issue, issued, released>>

(* The body of a child runs only after its helper has detached. *)
Detached(c) == c # youngest \/ parent \notin {"enter", "detach"}

(* __cilkrts_pop_frame_df: compare-and-swap df_issue_child to null.  The   *)
(* three actions are its three outcomes.                                   *)
CancelIssue(c) ==
    /\ Detached(c) /\ kind[c] = Dataflow
    /\ df_issue_child = Pointer(c, FALSE)
    /\ ChildGoto(c, "body", "leave")
    /\ df_issue_child' = Pointer(Null, FALSE)
    /\ UNCHANGED <<parent, youngest, kind, to_issue, issued, released>>

IssueInProgress(c) ==
    /\ kind[c] = Dataflow
    /\ df_issue_child = Pointer(c, TRUE)
    /\ ChildGoto(c, "body", "wait")
    /\ UNCHANGED <<df_issue_child, parent, youngest, kind, to_issue, issued, released>>

AlreadyIssued(c) ==
    /\ Detached(c) /\ kind[c] = Dataflow
    /\ df_issue_child.frame # c
    /\ ChildGoto(c, "body", "release")
    /\ UNCHANGED <<df_issue_child, parent, youngest, kind, to_issue, issued, released>>

IssueEnded(c) ==
    /\ df_issue_child # Pointer(c, TRUE)
    /\ ChildGoto(c, "wait", "release")
    /\ UNCHANGED <<df_issue_child, parent, youngest, kind, to_issue, issued, released>>

ReleaseFn(c) ==
    /\ ChildGoto(c, "release", "leave")
    /\ released' = [released EXCEPT ![c] = @ + 1]
    /\ UNCHANGED <<df_issue_child, parent, youngest, kind, to_issue, issued>>

(* A plain child has nothing to release. *)
EndPlain(c) ==
    /\ Detached(c) /\ kind[c] # Dataflow
    /\ ChildGoto(c, "body", "leave")
    /\ UNCHANGED <<df_issue_child, parent, youngest, kind, to_issue, issued, released>>

(* __cilkrts_leave_frame: undo_detach succeeds, or the parent was stolen.  *)
LeaveToParent(c) ==
    /\ c = youngest
    /\ ParentGoto("spawned", "running")
    /\ ChildGoto(c, "leave", "gone")
    /\ UNCHANGED <<df_issue_child, youngest, kind, to_issue, issued, released>>

LeaveToRuntime(c) ==
    /\ c # youngest \/ parent # "spawned"
    /\ ChildGoto(c, "leave", "gone")
    /\ UNCHANGED <<df_issue_child, parent, youngest, kind, to_issue, issued, released>>

-----------------------------------------------------------------------------
(* detach_for_steal has claimed the parent: look, mark, issue, unmark. *)
Steal ==
    /\ ParentGoto("spawned", "look")
    /\ UNCHANGED <<df_issue_child, youngest, kind, cpc, to_issue, issued, released>>

NothingToIssue ==
    /\ df_issue_child = Pointer(Null, FALSE)
    /\ ParentGoto("look", "running")
    /\ UNCHANGED <<df_issue_child, youngest, kind, cpc, to_issue, issued, released>>

SomethingToIssue ==
    /\ df_issue_child # Pointer(Null, FALSE)
    /\ ParentGoto("look", "mark")
    /\ UNCHANGED <<df_issue_child, youngest, kind, cpc, to_issue, issued, released>>

(* __sync_fetch_and_or: the task may have cancelled since; the mark then   *)
(* stays on a null pointer.                                                *)
MarkBusy ==
    /\ ParentGoto("mark", IF df_issue_child.frame = Null THEN "running" ELSE "issue")
    /\ to_issue' = df_issue_child.frame
    /\ df_issue_child' = Pointer(df_issue_child.frame, TRUE)
    /\ UNCHANGED <<youngest, kind, cpc, issued, released>>

(* The task is entered into the metadata of its objects (df_issue_fn). *)
IssueFn ==
    /\ ParentGoto("issue", "unmark")
    /\ issued' = [issued EXCEPT ![to_issue] = @ + 1]
    /\ UNCHANGED <<df_issue_child, youngest, kind, cpc, to_issue, released>>

Unmark ==
    /\ ParentGoto("unmark", "running")
    /\ df_issue_child' = IF df_issue_child = Pointer(to_issue, TRUE)
                         THEN Pointer(Null, FALSE) ELSE df_issue_child
    /\ UNCHANGED <<youngest, kind, cpc, to_issue, issued, released>>

-----------------------------------------------------------------------------
BodyEnds(c) == CancelIssue(c) \/ IssueInProgress(c) \/ AlreadyIssued(c) \/ EndPlain(c)
ChildReturns(c) == IssueEnded(c) \/ ReleaseFn(c) \/ LeaveToParent(c) \/ LeaveToRuntime(c)
ChildStep(c) == BodyEnds(c) \/ ChildReturns(c)

ThiefInside == NothingToIssue \/ SomethingToIssue \/ MarkBusy \/ IssueFn \/ Unmark

ParentStep == EnterFrame \/ EnterFrameDf \/ Detach \/ Steal \/ ThiefInside

IssueNext == ParentStep \/ \E c \in Children : ChildStep(c)

IssueSpec == IssueInit /\ [][IssueNext]_issue_vars

(* The threads of the runtime are scheduled.  A program need not spawn, a  *)
(* task's body need not end, and no parent need ever be stolen.            *)
IssueFairness == WF_issue_vars(ThiefInside) /\ \A c \in Children : WF_issue_vars(ChildReturns(c))
IssueLiveSpec == IssueSpec /\ IssueFairness

-----------------------------------------------------------------------------
IssueTypeOK ==
    /\ df_issue_child \in [frame : Children \cup {Null}, busy : BOOLEAN]
    /\ parent \in {"running", "enter", "detach", "spawned", "look", "mark",
                   "issue", "unmark"}
    /\ youngest \in 0..MaxChildren
    /\ kind \in [Children -> {Dataflow, "plain"}]
    /\ cpc \in [Children -> {"unborn", "body", "wait", "release", "leave", "gone"}]
    /\ to_issue \in Children \cup {Null}
    /\ issued \in [Children -> Nat]
    /\ released \in [Children -> Nat]

(* What a task releases was issued before, and a task that has left has    *)
(* released exactly what was issued: "and so must be released"             *)
(* (cilk-abi.c:418-420, 458-461).  A release too many or too few corrupts  *)
(* the counts in the objects' metadata.                                    *)
ReleasedAsIssued ==
    \A c \in Children :
        /\ released[c] <= issued[c]
        /\ cpc[c] \in {"leave", "gone"} => released[c] = issued[c]

(* The frame the thief issues, whose function and arguments it reads from  *)
(* the victim's stack, has not been left.                                  *)
IssuesLiveFrame ==
    parent = "issue" =>
        to_issue \in Children /\ kind[to_issue] = Dataflow
            /\ cpc[to_issue] \in {"body", "wait"}

(* The mark that a cancelled issue leaves on the null pointer is gone      *)
(* before the next thief looks, which would follow the pointer 1.          *)
NoStaleMark == parent \in {"spawned", "look", "mark"} => ~df_issue_child.busy

(* What a thief follows is never the pointer 1, nor a frame that was left. *)
ThiefFollowsLiveFrame == IssuesLiveFrame /\ NoStaleMark

(* Between two tasks of one parent: when the parent continues after a      *)
(* steal, every task it spawned earlier is issued or has ended, so what    *)
(* it spawns next can depend on it.                                        *)
IssuedBeforeNext ==
    parent = "running" =>
        \A c \in Children : kind[c] = Dataflow /\ cpc[c] \in {"body", "wait", "release"}
                               => issued[c] = 1

(* "We just need to wait it out" (cilk-abi.c:451): again and again nobody  *)
(* waits, nor is anybody on the way from there out of its frame.           *)
WaitEnds == []<>(\A c \in Children : cpc[c] \notin {"wait", "release", "leave"})
=============================================================================

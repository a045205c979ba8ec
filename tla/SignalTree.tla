----------------------------- MODULE SignalTree -----------------------------
(***************************************************************************)
(* The tree along which system workers wake each other and send each other *)
(* to sleep (runtime/signal_node.c, runtime/scheduler.c:2196-2352 and      *)
(* 3619-3708, runtime/sysdep-unix.c:339-370).                              *)
(*                                                                         *)
(* Each system worker sleeps in its own node, a flag and a semaphore.      *)
(* User threads that enter or leave Cilk tell only the root, worker 0, and *)
(* each worker passes what it was told to its children 2n+1 and 2n+2: when *)
(* it goes to sleep, when it wakes and when it starts a static loop.  The  *)
(* flag and the semaphore are written and read in steps of their own and   *)
(* no lock covers them, save for the users, who hold the global lock.      *)
(*                                                                         *)
(* What a worker works on is not modelled: it may find work while a user   *)
(* is in Cilk, and the last user leaves when no worker works for it.       *)
(***************************************************************************)
EXTENDS Naturals

CONSTANTS SysWorkers,         \* how many system workers there are, P - 1
          max_steal_failures, \* unsuccessful steals after which the root asks
          MaxEntries,         \* bound on how often users enter Cilk
          MaxLoops            \* bound on how many static loops are started

ASSUME TreeAssumption ==
    /\ SysWorkers \in Nat \ {0}
    /\ max_steal_failures \in Nat
    /\ MaxEntries \in Nat
    /\ MaxLoops \in Nat

Workers == 0..SysWorkers - 1
Root == 0
FirstChild(n) == 2 * n + 1
ChildrenOf(n) == {FirstChild(n), FirstChild(n) + 1} \cap Workers

VARIABLES run,        \* node flag: "the worker should be awake"
          sem,        \* node semaphore
          pc,         \* what each worker is doing
          child,      \* the child a worker that notifies has reached
          posting,    \* has it set that child's flag but not yet posted?
          failures,   \* steal_failure_count of the root
          Q,          \* the number of users in Cilk
          lock,       \* what the holder of the global lock still has to do
          work_done,  \* the runtime is being shut down
          entries,    \* how often a user has entered Cilk
          loops       \* how many static loops were started

user_vars == <<Q, lock, work_done, entries, loops>>
vars == <<run, sem, pc, child, posting, failures, Q, lock, work_done, entries, loops>>

(* signal_node_create; a worker thread starts by waiting in its node. *)
Init ==
    /\ run = [n \in Workers |-> FALSE]
    /\ sem = [n \in Workers |-> 0]
    /\ pc = [n \in Workers |-> "test"]
    /\ child = [n \in Workers |-> FirstChild(n)]
    /\ posting = [n \in Workers |-> FALSE]
    /\ failures = 0
    /\ Q = 0
    /\ lock = "free"
    /\ work_done = FALSE
    /\ entries = 0
    /\ loops = 0

Goto(n, from, to) == pc[n] = from /\ pc' = [pc EXCEPT ![n] = to]
LockGoto(from, to) == lock = from /\ lock' = to
Post(n) == sem' = [sem EXCEPT ![n] = @ + 1]

(* The root looks at its node only after many failures. *)
AsksNode(n) == n = Root => failures > max_steal_failures
ResetFailures(n) == failures' = IF n = Root THEN 0 ELSE failures

(* notify_children goes on to the next child, if there is one; after the   *)
(* last the worker does what it was about to do.                           *)
Afterwards == [notify_wait |-> "test", notify_run |-> "search", notify_loop |-> "busy"]

NextChild(n) ==
    IF child[n] + 1 \in ChildrenOf(n)
    THEN child' = [child EXCEPT ![n] = @ + 1] /\ UNCHANGED pc
    ELSE /\ child' = [child EXCEPT ![n] = FirstChild(n)]
         /\ pc' = [pc EXCEPT ![n] = Afterwards[@]]

-----------------------------------------------------------------------------
(* Variants of the operators below with a plausible mistake in each: what  *)
(* the mutation runs put in their place.  No specification uses them.      *)

(* A message to run reaches only a worker that is awake. *)
Bug_PostsNothing(n) ==
    /\ posting[n]
    /\ posting' = [posting EXCEPT ![n] = FALSE]
    /\ NextChild(n)
    /\ UNCHANGED <<run, sem, failures, user_vars>>

(* A user wakes the root only if it sleeps already, although the message   *)
(* of the last user to leave may still send it there.                      *)
Bug_WakesOnlySleeper ==
    /\ ~work_done
    /\ entries < MaxEntries
    /\ entries' = entries + 1
    /\ Q' = Q + 1
    /\ LockGoto("free", IF Q = 0 /\ pc[Root] \in {"test", "blocked"} THEN "wake" ELSE "free")
    /\ UNCHANGED <<run, sem, pc, child, posting, failures, work_done, loops>>

(* A worker that goes to sleep does not send its children there. *)
Bug_WaitsAlone(n) ==
    /\ AsksNode(n)
    /\ ~run[n]
    /\ Goto(n, "decide", "test")
    /\ UNCHANGED <<run, sem, child, posting, failures, user_vars>>

(* The last user is looked for before the count goes down. *)
Bug_LeaveTestsFirst ==
    /\ Q > 0
    /\ Q = 1 => \A n \in Workers : pc[n] \notin {"busy", "notify_loop"}
    /\ Q' = Q - 1
    /\ LockGoto("free", IF Q = 0 THEN "sleep" ELSE "free")
    /\ UNCHANGED <<run, sem, pc, child, posting, failures, work_done, entries, loops>>

-----------------------------------------------------------------------------
(* notify_children starts with the first child, if there is one. *)
Notify(n, from, how) ==
    Goto(n, from, IF ChildrenOf(n) = {} THEN Afterwards[how] ELSE how)

(* notify_children, signal_node_msg: a child's flag, and the signal with a *)
(* message to run.                                                         *)
TellWait(n) ==
    /\ pc[n] = "notify_wait"
    /\ run' = [run EXCEPT ![child[n]] = FALSE]
    /\ NextChild(n)
    /\ UNCHANGED <<sem, posting, failures, user_vars>>

TellRun(n) ==
    /\ pc[n] \in {"notify_run", "notify_loop"}
    /\ ~posting[n]
    /\ run' = [run EXCEPT ![child[n]] = TRUE]
    /\ posting' = [posting EXCEPT ![n] = TRUE]
    /\ UNCHANGED <<sem, pc, child, failures, user_vars>>

PostChild(n) ==
    /\ posting[n]
    /\ Post(child[n])
    /\ posting' = [posting EXCEPT ![n] = FALSE]
    /\ NextChild(n)
    /\ UNCHANGED <<run, failures, user_vars>>

(* signal_node_wait: test the flag, wait on the semaphore, test again. *)
TestFlag(n) ==
    /\ ~run[n]
    /\ Goto(n, "test", "blocked")
    /\ UNCHANGED <<run, sem, child, posting, failures, user_vars>>

SemWait(n) ==
    /\ Goto(n, "blocked", "test")
    /\ sem[n] > 0
    /\ sem' = [sem EXCEPT ![n] = @ - 1]
    /\ UNCHANGED <<run, child, posting, failures, user_vars>>

(* The flag is set: the worker wakes its children, then looks for work. *)
WakeUp(n) ==
    /\ run[n]
    /\ Notify(n, "test", "notify_run")
    /\ ResetFailures(n)
    /\ UNCHANGED <<run, sem, child, posting, user_vars>>

(* worker_runnable: the end of the runtime comes before the node. *)
Exit(n) ==
    /\ work_done
    /\ Goto(n, "search", "exited")
    /\ UNCHANGED <<run, sem, child, posting, failures, user_vars>>

GoOn(n) ==
    /\ ~work_done
    /\ Goto(n, "search", "decide")
    /\ UNCHANGED <<run, sem, child, posting, failures, user_vars>>

ScheduleWait(n) ==
    /\ AsksNode(n)
    /\ ~run[n]
    /\ Notify(n, "decide", "notify_wait")
    /\ UNCHANGED <<run, sem, child, posting, failures, user_vars>>

(* SCHEDULE_RUN: check_for_work finds nothing, or something to run. *)
ScheduleRun(n) == AsksNode(n) => run[n]

StealFails(n) ==
    /\ ScheduleRun(n)
    /\ Goto(n, "decide", "search")
    /\ failures' = IF n # Root THEN failures ELSE IF AsksNode(n) THEN 1 ELSE failures + 1
    /\ UNCHANGED <<run, sem, child, posting, user_vars>>

FindWork(n) ==
    /\ Q > 0
    /\ ScheduleRun(n)
    /\ Goto(n, "decide", "busy")
    /\ ResetFailures(n)
    /\ UNCHANGED <<run, sem, child, posting, user_vars>>

FinishWork(n) ==
    /\ Goto(n, "busy", "search")
    /\ UNCHANGED <<run, sem, child, posting, failures, user_vars>>

(* cilk_for_root_static, called from the work: notify_children_run. *)
StartLoop(n) ==
    /\ loops < MaxLoops
    /\ loops' = loops + 1
    /\ Notify(n, "busy", "notify_loop")
    /\ UNCHANGED <<run, sem, child, posting, failures, Q, lock, work_done, entries>>

-----------------------------------------------------------------------------
(* Users, under the global lock.  __cilkrts_enter_cilk wakes the root for  *)
(* the first user, __cilkrts_leave_cilk sends it to sleep for the last.    *)
EnterCilk ==
    /\ ~work_done
    /\ entries < MaxEntries
    /\ entries' = entries + 1
    /\ Q' = Q + 1
    /\ LockGoto("free", IF Q = 0 THEN "wake" ELSE "free")
    /\ UNCHANGED <<run, sem, pc, child, posting, failures, work_done, loops>>

LeaveCilk ==
    /\ Q > 0
    /\ Q = 1 => \A n \in Workers : pc[n] \notin {"busy", "notify_loop"}
    /\ Q' = Q - 1
    /\ LockGoto("free", IF Q = 1 THEN "sleep" ELSE "free")
    /\ UNCHANGED <<run, sem, pc, child, posting, failures, work_done, entries, loops>>

(* __cilkrts_end_cilk, __cilkrts_stop_workers *)
StopWorkers ==
    /\ Q = 0
    /\ ~work_done
    /\ work_done' = TRUE
    /\ LockGoto("free", "wake")
    /\ UNCHANGED <<run, sem, pc, child, posting, failures, Q, entries, loops>>

(* wake_runtime and sleep_runtime: a message to the root. *)
SetRoot ==
    /\ LockGoto("wake", "post")
    /\ run' = [run EXCEPT ![Root] = TRUE]
    /\ UNCHANGED <<sem, pc, child, posting, failures, Q, work_done, entries, loops>>

PostRoot ==
    /\ LockGoto("post", "free")
    /\ Post(Root)
    /\ UNCHANGED <<run, pc, child, posting, failures, Q, work_done, entries, loops>>

ClearRoot ==
    /\ LockGoto("sleep", "free")
    /\ run' = [run EXCEPT ![Root] = FALSE]
    /\ UNCHANGED <<sem, pc, child, posting, failures, Q, work_done, entries, loops>>

-----------------------------------------------------------------------------
Messages == SetRoot \/ PostRoot \/ ClearRoot

(* What a worker does by itself, and what depends on the user's program. *)
RuntimeStep(n) ==
    \/ TellWait(n) \/ TellRun(n) \/ PostChild(n)
    \/ TestFlag(n) \/ SemWait(n) \/ WakeUp(n)
    \/ Exit(n) \/ GoOn(n) \/ ScheduleWait(n) \/ StealFails(n)

ProgramStep(n) == FindWork(n) \/ FinishWork(n) \/ StartLoop(n)

Next ==
    \/ \E n \in Workers : RuntimeStep(n) \/ ProgramStep(n)
    \/ EnterCilk \/ LeaveCilk \/ StopWorkers \/ Messages

Spec == Init /\ [][Next]_vars

(* Worker threads are scheduled, and a thread that holds the global lock   *)
(* sends its message.  Users may stay away, in Cilk, or busy for ever.     *)
Fairness ==
    /\ \A n \in Workers : WF_vars(RuntimeStep(n))
    /\ WF_vars(Messages)

LiveSpec == Spec /\ Fairness

-----------------------------------------------------------------------------
(* Every variable has its type, and a worker notifies a child that exists. *)
TypeOK ==
    /\ run \in [Workers -> BOOLEAN]
    /\ sem \in [Workers -> Nat]
    /\ pc \in [Workers -> {"test", "blocked", "search", "decide", "busy", "exited",
                            "notify_wait", "notify_run", "notify_loop"}]
    /\ child \in [Workers -> Nat]
    /\ \A n \in Workers : pc[n] \in DOMAIN Afterwards => child[n] \in ChildrenOf(n)
    /\ posting \in [Workers -> BOOLEAN]
    /\ failures \in 0..max_steal_failures + 1
    /\ Q \in Nat
    /\ lock \in {"free", "wake", "post", "sleep"}
    /\ work_done \in BOOLEAN
    /\ entries \in 0..MaxEntries
    /\ loops \in 0..MaxLoops

Tells(n, c) == child[n] = c /\ posting[n]
PostPending(c) ==
    \/ c = Root /\ lock = "post"
    \/ \E n \in Workers : Tells(n, c)

(* signal_node_wait tests the flag and then waits, signal_node_msg sets it *)
(* and then posts: a worker that waits although it is told to run has its  *)
(* signal, or somebody is about to send it.                                *)
NoLostWakeup ==
    \A n \in Workers : pc[n] = "blocked" /\ run[n] => sem[n] > 0 \/ PostPending(n)

(* A child is told to wait only by a parent that will tell it to run: its  *)
(* parent is going to sleep, asleep, or waking and has not come to it yet. *)
WillWake(n, c) ==
    \/ pc[n] \in {"notify_wait", "test", "blocked"}
    \/ pc[n] = "notify_run" /\ child[n] <= c

ParentWillTell ==
    \A n \in Workers : \A c \in ChildrenOf(n) : ~run[c] => WillWake(n, c)

(* The root's flag says whether a user is in Cilk, or the runtime stops.   *)
RootFollowsUsers == lock = "free" => (run[Root] <=> Q > 0 \/ work_done)

(* The three together: from the users down to the last worker, whoever is  *)
(* told to sleep while somebody is in Cilk will be told to run again.      *)
TreeFollowsUsers == NoLostWakeup /\ ParentWillTell /\ RootFollowsUsers

Asleep(n) == pc[n] \in {"notify_wait", "test", "blocked"}

(* While users stay in Cilk every worker ends up awake and remains so, in  *)
(* spite of what was under way when they came: the message of an earlier   *)
(* user that left, workers that pass it on, signals nobody waited for.     *)
AwakeWhileInUse == <>[](Q > 0) => <>[](\A n \in Workers : ~Asleep(n))

(* When the users stay away all workers end up waiting on their semaphore. *)
SleepWhenUnused ==
    <>[](Q = 0 /\ ~work_done) => <>[](\A n \in Workers : pc[n] = "blocked")

(* __cilkrts_stop_workers joins the threads: each must come to its end,    *)
(* though only the root is told.  Neither is ever undone.                  *)
StopEndsAll == <>[]work_done => <>[](\A n \in Workers : pc[n] = "exited")
=============================================================================

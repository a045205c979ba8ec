----------------------------- MODULE WorkerLock -----------------------------
(***************************************************************************)
(* The lock that protects one worker's deque, THE pointers, ready list and *)
(* frame_ff (runtime/scheduler.c:285-347, runtime/worker_mutex.c).         *)
(*                                                                         *)
(* A worker W announces itself with do_not_steal and then spins on `lock'. *)
(* A thief first competes for `steal_lock', looks at do_not_steal, and     *)
(* only then tries `lock', once.  The comment at scheduler.c:320 promises  *)
(* that W enters after the thief in the critical section, if any, and at   *)
(* most one other thief.                                                   *)
(*                                                                         *)
(* Every mutex is the code's pair: the word that TRY_ACQUIRE exchanges and *)
(* the `owner' field that the code writes separately and asserts about.    *)
(***************************************************************************)
EXTENDS Naturals, FiniteSets

CONSTANTS W,          \* the worker the lock belongs to
          Thieves,    \* the other workers that may try to steal from W
          NoOwner     \* the null owner of a free mutex

ASSUME WorkersAssumption ==
    /\ W \notin Thieves
    /\ NoOwner \notin Thieves \cup {W}

VARIABLES held,         \* mutex -> the word TRY_ACQUIRE sets, as a BOOLEAN
          owner,        \* mutex -> m->owner
          do_not_steal, \* W->l->do_not_steal
          wpc,          \* where W is in worker_lock / worker_unlock
          tpc,          \* where each thief is in trylock_other / unlock_other
          status,       \* thief -> its local variable `status'
          overtakes     \* history: thieves that took `lock' since W announced, up to 2

vars == <<held, owner, do_not_steal, wpc, tpc, status, overtakes>>

Mutexes == {"lock", "steal_lock"}

Init ==
    /\ held = [m \in Mutexes |-> FALSE]
    /\ owner = [m \in Mutexes |-> NoOwner]
    /\ do_not_steal = FALSE
    /\ wpc = "out"
    /\ tpc = [t \in Thieves |-> "out"]
    /\ status = [t \in Thieves |-> FALSE]
    /\ overtakes = 0

-----------------------------------------------------------------------------
(* One test-and-set attempt; the owner field is not written yet. *)
TryAcquire(m) == ~held[m] /\ held' = [held EXCEPT ![m] = TRUE]

(* The store to m->owner that follows a successful attempt. *)
SetOwner(m, p) == owner' = [owner EXCEPT ![m] = p]

(* __cilkrts_mutex_unlock clears the owner, then releases the word. *)
ClearOwner(m) == owner' = [owner EXCEPT ![m] = NoOwner]
Release(m) == held' = [held EXCEPT ![m] = FALSE]

(* A thief moves from one control point to the next. *)
Goto(t, from, to) == tpc[t] = from /\ tpc' = [tpc EXCEPT ![t] = to]

-----------------------------------------------------------------------------
(* Variants of the actions below with a plausible mistake in each: what    *)
(* the mutation runs put in their place.  No specification uses them.      *)
Bug_WReleaseKeepsOwner ==
    /\ wpc = "critical"
    /\ wpc' = "release"
    /\ UNCHANGED <<owner, held, do_not_steal, tpc, status, overtakes>>
Bug_LookIgnoresFlag(t) ==
    /\ Goto(t, "look", "try")
    /\ UNCHANGED <<held, owner, do_not_steal, wpc, status, overtakes>>
Bug_SpinWithoutTest ==
    /\ wpc = "spin"
    /\ held' = [held EXCEPT !["lock"] = TRUE]
    /\ wpc' = "own"
    /\ UNCHANGED <<owner, do_not_steal, tpc, status, overtakes>>

-----------------------------------------------------------------------------
(* __cilkrts_worker_lock(W) *)
Announce ==
    /\ wpc = "out"
    /\ do_not_steal' = TRUE
    /\ overtakes' = 0
    /\ wpc' = "spin"
    /\ UNCHANGED <<held, owner, tpc, status>>

WAcquire ==
    /\ wpc = "spin"
    /\ TryAcquire("lock")
    /\ wpc' = "own"
    /\ UNCHANGED <<owner, do_not_steal, tpc, status, overtakes>>

WOwns ==
    /\ wpc = "own"
    /\ SetOwner("lock", W)
    /\ wpc' = "critical"
    /\ UNCHANGED <<held, do_not_steal, tpc, status, overtakes>>

(* __cilkrts_worker_unlock(W) *)
WDisowns ==
    /\ wpc = "critical"
    /\ ClearOwner("lock")
    /\ wpc' = "release"
    /\ UNCHANGED <<held, do_not_steal, tpc, status, overtakes>>

WRelease ==
    /\ wpc = "release"
    /\ Release("lock")
    /\ wpc' = "withdraw"
    /\ UNCHANGED <<owner, do_not_steal, tpc, status, overtakes>>

Withdraw ==
    /\ wpc = "withdraw"
    /\ do_not_steal' = FALSE
    /\ wpc' = "out"
    /\ UNCHANGED <<held, owner, tpc, status, overtakes>>

-----------------------------------------------------------------------------
(* worker_trylock_other(t, W): the right to disturb W.  A failed attempt   *)
(* returns 0, with nothing changed.                                        *)
Disturb(t) ==
    /\ Goto(t, "out", "disturbing")
    /\ TryAcquire("steal_lock")
    /\ status' = [status EXCEPT ![t] = FALSE]
    /\ UNCHANGED <<owner, do_not_steal, wpc, overtakes>>

Disturbs(t) ==
    /\ Goto(t, "disturbing", "look")
    /\ SetOwner("steal_lock", t)
    /\ UNCHANGED <<held, do_not_steal, wpc, status, overtakes>>

LeaveAlone(t) ==
    /\ do_not_steal
    /\ Goto(t, "look", "disown")
    /\ UNCHANGED <<held, owner, do_not_steal, wpc, status, overtakes>>

SeesNoOwner(t) ==
    /\ ~do_not_steal
    /\ Goto(t, "look", "try")
    /\ UNCHANGED <<held, owner, do_not_steal, wpc, status, overtakes>>

TryLock(t) ==
    /\ Goto(t, "try", "own")
    /\ TryAcquire("lock")
    /\ overtakes' = IF wpc = "spin" /\ overtakes < 2 THEN overtakes + 1 ELSE overtakes
    /\ UNCHANGED <<owner, do_not_steal, wpc, status>>

TryLockFails(t) ==
    /\ held["lock"]
    /\ Goto(t, "try", "disown")
    /\ UNCHANGED <<held, owner, do_not_steal, wpc, status, overtakes>>

TOwns(t) ==
    /\ Goto(t, "own", "disown")
    /\ SetOwner("lock", t)
    /\ status' = [status EXCEPT ![t] = TRUE]
    /\ UNCHANGED <<held, do_not_steal, wpc, overtakes>>

StopDisturbing(t) ==
    /\ Goto(t, "disown", "undisturb")
    /\ ClearOwner("steal_lock")
    /\ UNCHANGED <<held, do_not_steal, wpc, status, overtakes>>

Undisturb(t) ==
    /\ Goto(t, "undisturb", IF status[t] THEN "critical" ELSE "out")
    /\ Release("steal_lock")
    /\ UNCHANGED <<owner, do_not_steal, wpc, status, overtakes>>

(* worker_unlock_other(t, W) *)
TDisowns(t) ==
    /\ Goto(t, "critical", "release")
    /\ ClearOwner("lock")
    /\ UNCHANGED <<held, do_not_steal, wpc, status, overtakes>>

TRelease(t) ==
    /\ Goto(t, "release", "out")
    /\ Release("lock")
    /\ UNCHANGED <<owner, do_not_steal, wpc, status, overtakes>>

WInCall == WAcquire \/ WOwns \/ WDisowns \/ WRelease \/ Withdraw
WorkerStep == Announce \/ WInCall

(* The steps of a call the thief has begun; it need never begin one. *)
ThiefInCall(t) ==
    \/ Disturbs(t) \/ LeaveAlone(t) \/ SeesNoOwner(t)
    \/ TryLock(t) \/ TryLockFails(t) \/ TOwns(t)
    \/ StopDisturbing(t) \/ Undisturb(t) \/ TDisowns(t) \/ TRelease(t)
ThiefStep(t) == Disturb(t) \/ ThiefInCall(t)

Next == WorkerStep \/ \E t \in Thieves : ThiefStep(t)

Spec == Init /\ [][Next]_vars

(* The operating system schedules every thread that is inside a call.      *)
(* Nothing stronger: W's spin is only WEAKLY fair, so a stream of thieves  *)
(* could starve it if do_not_steal did not keep them out.                  *)
Fairness == WF_vars(WInCall) /\ \A t \in Thieves : WF_vars(ThiefInCall(t))
LiveSpec == Spec /\ Fairness

-----------------------------------------------------------------------------
WLocations == {"out", "spin", "own", "critical", "release", "withdraw"}
TLocations == {"out", "disturbing", "look", "try", "own", "disown",
               "undisturb", "critical", "release"}

(* Type invariant of the lock words, the owners and the control points. *)
TypeOK ==
    /\ held \in [Mutexes -> BOOLEAN]
    /\ owner \in [Mutexes -> Thieves \cup {W, NoOwner}]
    /\ owner["steal_lock"] # W
    /\ do_not_steal \in BOOLEAN
    /\ wpc \in WLocations
    /\ tpc \in [Thieves -> TLocations]
    /\ status \in [Thieves -> BOOLEAN]
    /\ overtakes \in Nat

(* Where a participant owns the mutex word. *)
WHolds == wpc \in {"own", "critical", "release"}
THolds(t) == \/ tpc[t] \in {"own", "critical", "release"}
             \/ tpc[t] \in {"disown", "undisturb"} /\ status[t]
TDisturbs(t) == tpc[t] \in {"disturbing", "look", "try", "own", "disown", "undisturb"}

(* The code between lock and unlock never runs in two workers at once,     *)
(* although three different acquisition paths (spin, trylock, and the      *)
(* store to do_not_steal after the unlock) touch the lock.                 *)
MutualExclusion ==
    /\ \A t \in Thieves : ~(WHolds /\ THolds(t))
    /\ \A t, u \in Thieves : t # u => ~(THolds(t) /\ THolds(u))

(* CILK_ASSERT(m->owner == 0) after TRY_ACQUIRE and CILK_ASSERT(m->owner   *)
(* == w) on unlock (worker_mutex.c:103, 111, 121), and the two assertions  *)
(* on do_not_steal (scheduler.c:288, 300).                                 *)
MutexAssertions ==
    /\ wpc = "own" => owner["lock"] = NoOwner
    /\ wpc = "critical" => owner["lock"] = W
    /\ wpc = "out" => ~do_not_steal
    /\ wpc = "withdraw" => do_not_steal
    /\ \A t \in Thieves :
         /\ tpc[t] = "disturbing" => owner["steal_lock"] = NoOwner
         /\ tpc[t] = "disown" => owner["steal_lock"] = t
         /\ tpc[t] = "own" => owner["lock"] = NoOwner
         /\ tpc[t] = "critical" => owner["lock"] = t

(* One worker at a time is in the lock, and it is the one whose name the   *)
(* mutex bears, whichever way each of them came in.                        *)
LockIsExclusive == MutualExclusion /\ MutexAssertions

(* "worker W can enter its critical section after waiting for the thief    *)
(* currently in the critical section (if any) and at most one other thief" *)
(* (scheduler.c:320-323).                                                  *)
AtMostOneOvertakes == overtakes <= 1

(* Once W has announced itself it gets the lock, although every fairness   *)
(* assumption is weak (scheduler.c:290).                                   *)
WorkerGetsIn == wpc = "spin" ~> wpc = "critical"

=============================================================================

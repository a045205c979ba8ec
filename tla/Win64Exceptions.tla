-------------------------- MODULE Win64Exceptions --------------------------
(***************************************************************************)
(* C++ exceptions that cross stolen frames on 64-bit Windows               *)
(* (runtime/except-win64.c, except-win.c).                                 *)
(*                                                                         *)
(* The runtime cannot change the system's unwinder, but it is the handler  *)
(* of every frame that spawns and sees an exception on its way up, before  *)
(* anything is unwound.  Where the frame above has been stolen it unwinds  *)
(* this stack itself, wraps the exception, i.e. notes it as the worker's   *)
(* pending one and puts a hook on its destructor, and goes to the sync or  *)
(* returns from the spawn; who continues there raises it again.  From the  *)
(* time it is wrapped until the hook sees the object destroyed, nothing    *)
(* may be stolen from the worker that has it.                              *)
(*                                                                         *)
(* The program: R, the last frame, spawns a helper H1 that calls F, and F  *)
(* spawns a helper H2.  R and F go on after their spawn, call something    *)
(* (GR, GF), sync, go on again and return.  Everybody may throw; R, F and  *)
(* what they call may catch; out of a handler an exception may come again, *)
(* or another one.                                                         *)
(***************************************************************************)
EXTENDS Integers, Sequences, FiniteSets

CONSTANTS Workers, First,  \* and the worker that runs R at first
          MaxThrows        \* bound on the exceptions

Functions == {"F", "R"}
None == "none"
NoExc == 0

VARIABLES pos,             \* function -> where it is, see Positions
          stolen,          \* function -> CILK_FRAME_STOLEN
          child,           \* function -> its helper has not returned
          caught,          \* function -> the exception its handler has
          kept, child_kept,\* function -> pending_exception and
                           \* child_pending_exception of its full frame
          run,             \* worker -> the function it runs
          flying,          \* worker -> the exception on its way up
          tail,            \* worker -> "open", or "shut" to thieves
          pending,         \* worker -> pending_exception, with what it nests
          refs,            \* fiber -> references that exceptions hold
          thrown, alive,   \* (ghosts) number thrown, those not destroyed
          shut_for_good,   \* (ghost) workers a handler has left shut
          broken           \* (ghost) assertions that have failed

w64 == <<pos, stolen, child, caught, kept, child_kept, run, flying, tail, pending,
         refs, thrown, alive, shut_for_good, broken>>

(* In line: its continuation is on the deque; cont: beside its helper, so  *)
(* unsynched; wait: at its sync; body: synched; catch: in its handler.     *)
Positions == {"in line", "cont", "wait", "body", "catch", "over"}
Unsynched(f) == pos[f] \in {"cont", "wait"}

Helper(f) == IF f = "F" THEN "H2" ELSE "H1"
Callee(f) == IF f = "F" THEN "GF" ELSE "GR"
Parent(x) == IF x \in {"H2", "GF"} THEN "F" ELSE "R"

(* A function that was stolen runs on the thief's fiber up to its sync,    *)
(* and then on that of its leftmost child: the first one.                  *)
Fiber(x) == IF x \in Functions /\ Unsynched(x) THEN x
            ELSE IF x \in {"GF", "GR"} THEN Parent(x) ELSE "first"

WInit ==
    /\ pos = [f \in Functions |-> "in line"]
    /\ stolen = [f \in Functions |-> FALSE]
    /\ child = [f \in Functions |-> TRUE]
    /\ caught = [f \in Functions |-> NoExc]
    /\ kept = [f \in Functions |-> <<>>] /\ child_kept = [f \in Functions |-> <<>>]
    /\ run = [w \in Workers |-> IF w = First THEN "H2" ELSE None]
    /\ flying = [w \in Workers |-> [exc |-> NoExc, at |-> None]]
    /\ tail = [w \in Workers |-> "open"]
    /\ pending = [w \in Workers |-> <<>>]
    /\ refs = [x \in {"first", "F", "R"} |-> 0]
    /\ thrown = 0 /\ alive = {} /\ shut_for_good = {} /\ broken = {}

Flies(w) == flying[w].exc # NoExc
Running(w, x) == run[w] = x /\ ~Flies(w)

-----------------------------------------------------------------------------
(* The worker as a record, so that what a handler calls can be composed.   *)
Me(w) == [pending |-> pending[w], tail |-> tail[w], refs |-> refs,
          alive |-> alive, broken |-> broken]
IsNow(w, m) ==
    /\ pending' = [pending EXCEPT ![w] = m.pending]
    /\ tail' = [tail EXCEPT ![w] = m.tail]
    /\ refs' = m.refs /\ alive' = m.alive /\ broken' = m.broken

Failing(m, what, holds) == IF holds THEN m.broken ELSE m.broken \cup {what}
Top(m) == m.pending[1]

-----------------------------------------------------------------------------
(* Variants of the definitions below with a plausible mistake in each:     *)
(* what the mutation runs put in their place.  No specification uses them. *)

(* The worker that leaves its exception in the frame stays shut. *)
Bug_SaveExceptionState(m) == [m EXCEPT !.pending = <<>>]

-----------------------------------------------------------------------------
(* The hook on the destructor: the exception is no longer pending, and     *)
(* unless another one is, thieves may come again.  It gives back the fiber *)
(* that the object was on unless it runs on that fiber itself.             *)
DestructorWrapper(w, here, exc, m) ==
    LET pei == Top(m)
        rest == Tail(m.pending)
        restores == rest = <<>> /\ pei.saved # None
    IN  IF m.pending = <<>> \/ Top(m).exc # exc
        THEN [m EXCEPT !.broken = @ \cup {"pending"}, !.alive = @ \ {exc}]
        ELSE [m EXCEPT
                !.pending = rest,
                !.tail = IF restores THEN pei.saved ELSE @,
                !.refs[pei.fiber] = IF here \notin {None, pei.fiber} THEN @ - 1 ELSE @,
                !.alive = @ \ {exc},
                !.broken = Failing(m, "tail", restores => pei.by = w /\ pei.saved = "open")]

(* An exception object is destroyed at the end of its handler, by the hook *)
(* if it was wrapped.                                                      *)
Destroy(w, here, exc, m) ==
    IF \E i \in DOMAIN m.pending : m.pending[i].exc = exc
    THEN DestructorWrapper(w, here, exc, m)
    ELSE [m EXCEPT !.alive = @ \ {exc}]

(* The stack is unwound below the frame at hand: if F's handler is on it   *)
(* that handler is left, which ends the exception it had.                  *)
LeavesHandler(exc) == pos["F"] = "catch" /\ caught["F"] # exc
GlobalUnwind(w, exc, m) ==
    IF LeavesHandler(exc) THEN Destroy(w, Fiber("F"), caught["F"], m) ELSE m

(* An exception that is pending already keeps its entry, unless it is one  *)
(* thrown while that was handled.                                          *)
WrapException(w, at, exc, saved, m) ==
    IF m.pending # <<>> /\ ~Top(m).nested_exception_found THEN m
    ELSE [m EXCEPT
            !.pending = <<[exc |-> exc, saved |-> saved, by |-> w, fiber |-> Fiber(at),
                           nested_exception_found |-> FALSE]>> \o @,
            !.refs[Fiber(at)] = @ + 1]

SaveExceptionState(m) == [m EXCEPT !.pending = <<>>, !.tail = "open"]

(* Who takes over a frame with a pending exception shuts its own deque and *)
(* notes that in the exception's entry.                                    *)
SetupForExecution(w, chain, m) ==
    [m EXCEPT
       !.pending = IF chain = <<>> THEN <<>>
                   ELSE [chain EXCEPT ![1].saved = m.tail, ![1].by = w,
                                      ![1].nested_exception_found = FALSE],
       !.tail = IF chain = <<>> THEN @ ELSE "shut"]

(* The left one survives; the right one is destroyed, with what it nests,  *)
(* outside of any frame and without a tail to restore.                     *)
MergePendingExceptions(left, right) == IF left # <<>> THEN left ELSE right
Excs(chain) == {chain[i].exc : i \in DOMAIN chain}
Merged(left, right, m) ==
    [m EXCEPT !.alive = IF left # <<>> THEN @ \ Excs(right) ELSE @]

-----------------------------------------------------------------------------
(* What the frame handler does may end in four ways.                       *)

(* The handler of the function above looks at it next. *)
Up(w, at) == /\ flying' = [flying EXCEPT ![w].at = at]
             /\ UNCHANGED run

Goes(w, x) == /\ run' = [run EXCEPT ![w] = x]
              /\ flying' = [flying EXCEPT ![w] = [exc |-> NoExc, at |-> None]]

(* At f's sync, nothing outstanding: w goes on there; a pending exception  *)
(* it raises again (__cilkrts_rethrow).                                    *)
Resume(w, f, left, right, m) ==
    LET chain == MergePendingExceptions(left, right)
        n == SetupForExecution(w, chain, Merged(left, right, m))
    IN  /\ IsNow(w, n)
        /\ kept' = [kept EXCEPT ![f] = <<>>]
        /\ child_kept' = [child_kept EXCEPT ![f] = <<>>]
        /\ run' = [run EXCEPT ![w] = f]
        /\ flying' = [flying EXCEPT ![w] =
                        IF chain = <<>> THEN [exc |-> NoExc, at |-> None]
                        ELSE [exc |-> chain[1].exc, at |-> f]]

(* w arrives at the sync of f, which it runs, with what is pending in m.   *)
Sync(w, f, m) ==
    /\ IF child[f]
       THEN /\ pos' = [pos EXCEPT ![f] = "wait"]
            /\ kept' = [kept EXCEPT ![f] = m.pending]
            /\ IsNow(w, SaveExceptionState(m))
            /\ Goes(w, None)
            /\ UNCHANGED child_kept
       ELSE /\ pos' = [pos EXCEPT ![f] = "body"]
            /\ Resume(w, f, child_kept[f], m.pending, SaveExceptionState(m))
    /\ UNCHANGED <<stolen, child, caught, thrown>>
    /\ shut_for_good' = shut_for_good \ {w}

(* w ends the helper whose parent f was stolen, with what is pending in m. *)
ReturnFromSpawn(w, f, m) ==
    /\ child' = [child EXCEPT ![f] = FALSE]
    /\ IF pos[f] = "wait"
       THEN Resume(w, f, m.pending, kept[f], SaveExceptionState(m))
       ELSE /\ child_kept' = [child_kept EXCEPT ![f] = m.pending]
            /\ IsNow(w, SaveExceptionState(m))
            /\ Goes(w, None)
            /\ UNCHANGED kept
    /\ UNCHANGED <<stolen, thrown>>
    /\ shut_for_good' = shut_for_good \ {w}

-----------------------------------------------------------------------------
(* An exception is raised, anew or again, in x, and the vectored handler   *)
(* looks at it before any frame does: a deque is shut just when something  *)
(* is pending, and a new one is nested in what is pending.                 *)
VectoredHandler(w, x, exc, found) ==
    /\ flying' = [flying EXCEPT ![w] = [exc |-> exc, at |-> x]]
    /\ pending' = IF pending[w] = <<>> THEN pending
                  ELSE [pending EXCEPT ![w][1].nested_exception_found = found]
    /\ broken' = Failing(Me(w), "raise", w \notin shut_for_good =>
                           (pending[w] # <<>> <=> tail[w] = "shut"))
    /\ UNCHANGED <<pos, stolen, child, caught, kept, child_kept, run, tail, refs,
                   shut_for_good>>

Throw(w) ==
    /\ run[w] # None /\ ~Flies(w) /\ thrown < MaxThrows
    /\ ~(run[w] = "R" /\ pos["R"] = "catch")
    /\ thrown' = thrown + 1 /\ alive' = alive \cup {thrown + 1}
    /\ VectoredHandler(w, run[w], thrown + 1, TRUE)

ThrowAgain(w) ==
    /\ Running(w, "F") /\ pos["F"] = "catch"
    /\ VectoredHandler(w, "F", caught["F"], pending[w] # <<>> /\ pending[w][1].nested_exception_found)
    /\ UNCHANGED <<thrown, alive>>

(* The C++ handler of f finds a catch block: the second pass unwinds what  *)
(* is below.                                                               *)
Catches(w, f, m) ==
    LET exc == flying[w].exc
        over == f = "R" /\ pos["F"] = "catch"
    IN  /\ pos[f] = "body"
        /\ IsNow(w, IF over THEN GlobalUnwind(w, exc, m) ELSE m)
        /\ pos' = [g \in Functions |->
                     IF g = f THEN "catch" ELSE IF f = "R" THEN "over" ELSE pos[g]]
        /\ caught' = [g \in Functions |->
                        IF g = f THEN exc ELSE IF f = "R" THEN NoExc ELSE caught[g]]
        /\ Goes(w, f)

(* CilkEhFirstPass, by the kind of frame.  It begins by shutting the deque; *)
(* the tail before that is tail[w].                                        *)

(* A frame that is not synched: straight to the sync. *)
FirstPassUnsynched(w) ==
    LET f == flying[w].at
    IN  /\ f \in Functions /\ Unsynched(f)
        /\ Sync(w, f, WrapException(w, f, flying[w].exc, tail[w], Me(w)))

(* The last frame, or one with nothing special about it. *)
FirstPassPlain(w) ==
    LET f == flying[w].at
    IN  /\ f \in Functions /\ ~Unsynched(f)
        /\ f = "R" \/ ~stolen[f]
        /\ \/ Catches(w, f, Me(w))
           \/ /\ f = "F"
              /\ Up(w, "H1")
              /\ UNCHANGED <<pos, caught, tail, pending, refs, alive, broken>>
        /\ UNCHANGED <<stolen, child, kept, child_kept, thrown, shut_for_good>>

(* A helper whose parent is still on the deque: pop_tail takes it. *)
FirstPassDetached(w) ==
    LET f == Parent(flying[w].at)
    IN  /\ flying[w].at = Helper(f) /\ pos[f] = "in line"
        /\ pos' = [pos EXCEPT ![f] = "body"]
        /\ child' = [child EXCEPT ![f] = FALSE]
        /\ Up(w, f)
        /\ UNCHANGED <<stolen, caught, kept, child_kept, tail, pending, refs,
                       thrown, alive, shut_for_good, broken>>

(* A helper whose parent was stolen: __cilkrts_migrate_exception. *)
FirstPassOrphan(w) ==
    LET f == Parent(flying[w].at)
        m == IF f = "R" THEN GlobalUnwind(w, flying[w].exc, Me(w)) ELSE Me(w)
    IN  /\ flying[w].at = Helper(f) /\ pos[f] # "in line"
        /\ pos' = [pos EXCEPT !["F"] = IF f = "R" THEN "over" ELSE @,
                              ![f] = IF @ = "wait" THEN "body" ELSE @]
        /\ caught' = [caught EXCEPT !["F"] = IF f = "R" THEN NoExc ELSE @]
        /\ ReturnFromSpawn(w, f, WrapException(w, flying[w].at, flying[w].exc, tail[w], m))

(* A stolen frame after its sync: unless it catches, the worker returns to *)
(* the frame above before anything is unwound, and the exception passes    *)
(* through that frame's full frame.                                        *)
FirstPassStolen(w) ==
    LET m == SetupForExecution(w, pending[w], SaveExceptionState(Me(w)))
    IN  /\ flying[w].at = "F" /\ stolen["F"] /\ ~Unsynched("F")
        /\ \/ /\ Catches(w, "F", [Me(w) EXCEPT !.tail = "shut"])
              /\ shut_for_good' = IF tail[w] = "open" THEN shut_for_good \cup {w}
                                  ELSE shut_for_good
              /\ UNCHANGED stolen
           \/ /\ stolen' = [stolen EXCEPT !["F"] = FALSE]
              /\ IsNow(w, [m EXCEPT !.tail = tail[w]])
              /\ Up(w, "H1")
              /\ UNCHANGED <<pos, caught, shut_for_good>>
        /\ UNCHANGED <<child, kept, child_kept, thrown>>

(* The first frame on a thief's stack, called by the frame stolen: unless  *)
(* it catches, it goes to the sync of its caller.                          *)
FirstPassBottom(w) ==
    LET g == flying[w].at
        f == Parent(g)
    IN  /\ g = Callee(f)
        /\ \/ /\ IsNow(w, [Me(w) EXCEPT !.tail = "shut", !.alive = @ \ {flying[w].exc}])
              /\ shut_for_good' = shut_for_good \cup {w}
              /\ Goes(w, g)
              /\ UNCHANGED <<pos, stolen, child, caught, kept, child_kept, thrown>>
           \/ Sync(w, f, WrapException(w, g, flying[w].exc, tail[w], Me(w)))

FirstPass(w) ==
    \/ FirstPassUnsynched(w) \/ FirstPassPlain(w) \/ FirstPassDetached(w)
    \/ FirstPassOrphan(w) \/ FirstPassStolen(w) \/ FirstPassBottom(w)

FrameHandler(w) == Flies(w) /\ FirstPass(w)

EndCatch(w, f) ==
    /\ Running(w, f) /\ pos[f] = "catch"
    /\ IsNow(w, Destroy(w, Fiber(f), caught[f], Me(w)))
    /\ pos' = [pos EXCEPT ![f] = "body"]
    /\ caught' = [caught EXCEPT ![f] = NoExc]
    /\ UNCHANGED <<stolen, child, kept, child_kept, run, flying, thrown, shut_for_good>>

-----------------------------------------------------------------------------
(* The program when nothing is thrown. *)

(* The oldest continuation first, and only from a deque that is open. *)
Steal(w, f) ==
    /\ run[w] = None /\ run[First] # None
    /\ pos[f] = "in line" /\ (f = "F" => stolen["R"])
    /\ tail[First] = "open"
    /\ pos' = [pos EXCEPT ![f] = "cont"]
    /\ stolen' = [stolen EXCEPT ![f] = TRUE]
    /\ run' = [run EXCEPT ![w] = f]
    /\ UNCHANGED <<child, caught, kept, child_kept, flying, tail, pending, refs,
                   thrown, alive, shut_for_good, broken>>

Call(w, f) ==
    /\ Running(w, f) /\ pos[f] = "cont"
    /\ run' = [run EXCEPT ![w] = Callee(f)]
    /\ UNCHANGED <<pos, stolen, child, caught, kept, child_kept, flying, tail,
                   pending, refs, thrown, alive, shut_for_good, broken>>
Return(w, f) ==
    /\ Running(w, Callee(f))
    /\ run' = [run EXCEPT ![w] = f]
    /\ UNCHANGED <<pos, stolen, child, caught, kept, child_kept, flying, tail,
                   pending, refs, thrown, alive, shut_for_good, broken>>

SyncFunction(w, f) ==
    /\ Running(w, f) /\ pos[f] = "cont"
    /\ Sync(w, f, Me(w))

(* The helper of f returns, to the continuation on the deque or from f.    *)
(* H1 does so when F has returned.                                         *)
HelperReturns(w, f, p) ==
    IF p[f] = "in line"
    THEN /\ pos' = [p EXCEPT ![f] = "body"]
         /\ child' = [child EXCEPT ![f] = FALSE]
         /\ run' = [run EXCEPT ![w] = f]
         /\ UNCHANGED <<stolen, kept, child_kept, flying, tail, pending, refs,
                        thrown, alive, shut_for_good, broken>>
    ELSE /\ pos' = [p EXCEPT ![f] = IF @ = "wait" THEN "body" ELSE @]
         /\ ReturnFromSpawn(w, f, Me(w))

EndH2(w) == Running(w, "H2") /\ HelperReturns(w, "F", pos) /\ UNCHANGED caught

EndF(w) ==
    /\ Running(w, "F") /\ pos["F"] = "body"
    /\ HelperReturns(w, "R", [pos EXCEPT !["F"] = "over"])
    /\ UNCHANGED caught

EndR(w) ==
    /\ Running(w, "R") /\ pos["R"] = "body"
    /\ pos' = [pos EXCEPT !["R"] = "over"]
    /\ run' = [run EXCEPT ![w] = None]
    /\ UNCHANGED <<stolen, child, caught, kept, child_kept, flying, tail, pending,
                   refs, thrown, alive, shut_for_good, broken>>

WNext ==
    \E w \in Workers :
        \/ Throw(w) \/ ThrowAgain(w) \/ FrameHandler(w)
        \/ \E f \in Functions : \/ EndCatch(w, f) \/ Steal(w, f) \/ Call(w, f)
                                \/ Return(w, f) \/ SyncFunction(w, f)
        \/ EndH2(w) \/ EndF(w) \/ EndR(w)

WSpec == WInit /\ [][WNext]_w64

-----------------------------------------------------------------------------
TypeOK == /\ pos \in [Functions -> Positions]
          /\ tail \in [Workers -> {"open", "shut"}]
          /\ refs \in [{"first", "F", "R"} -> Nat]

Chains == {pending[w] : w \in Workers} \cup {kept[f] : f \in Functions}
          \cup {child_kept[f] : f \in Functions}
Peis == UNION {{c[i] : i \in DOMAIN c} : c \in Chains}

(* A thrown object is destroyed once, and until then it is on its way, in  *)
(* a handler, or pending at one place only.                                *)
ObjectsAccounted ==
    /\ alive = ({flying[w].exc : w \in Workers} \cup {caught[f] : f \in Functions}
                \cup {p.exc : p \in Peis}) \ {NoExc}
    /\ \A c, d \in {<<"pending", w>> : w \in Workers} \cup
                   {<<"kept", f>> : f \in Functions} \cup
                   {<<"child", f>> : f \in Functions} :
         LET Of(x) == Excs(IF x[1] = "pending" THEN pending[x[2]]
                           ELSE IF x[1] = "kept" THEN kept[x[2]] ELSE child_kept[x[2]])
         IN  c # d => Of(c) \cap Of(d) = {}

(* The stack that an object lies on stays until the object is destroyed.   *)
StacksKept == \A x \in DOMAIN refs : refs[x] >= Cardinality({p \in Peis : p.fiber = x})

(* "Before leaving this function, we must either pass the saved protected  *)
(* tail into the wrapped exception or restore stealing. Failure to do one  *)
(* of these two will result in a worker that can no longer be stolen from" *)
(* (except-win64.c:1421): a worker is shut just while something is pending *)
(* there, a handler in a stolen frame or at the bottom of a stack apart.   *)
ShutWhilePending ==
    \A w \in Workers \ shut_for_good :
        ~Flies(w) => (tail[w] = "shut" <=> pending[w] # <<>>)

ExceptionsCross == /\ TypeOK /\ ObjectsAccounted /\ StacksKept /\ ShutWhilePending
                   /\ broken = {}

(* The same without the exception. *)
ShutOnlyWhilePending ==
    \A w \in Workers : ~Flies(w) => (tail[w] = "shut" <=> pending[w] # <<>>)
=============================================================================

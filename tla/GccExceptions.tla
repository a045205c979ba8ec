---------------------------- MODULE GccExceptions ----------------------------
(***************************************************************************)
(* C++ exceptions that cross stolen frames on Unix (runtime/except-gcc.cpp, *)
(* scheduler.c 1545-1556, 1670-1696, 1814-1820, 2905-2931, 4264-4284).     *)
(*                                                                         *)
(* The C++ runtime keeps for every thread the chain of the exceptions that *)
(* are being handled and the number of those on their way.  Both belong to *)
(* the strand that the thread runs: they go from thread to thread in a     *)
(* record that takes the way of the reducer maps, with the exception that  *)
(* ended the strand.  The frame here is called with a state of its         *)
(* caller's (out of a handler, out of a destructor while an exception is   *)
(* on its way); it may spawn, sync, throw, catch and spawn in the handler. *)
(* The compiler syncs at the end of a handler and before it enters one,    *)
(* and it fills in except_data, so that `rethrow' stays false.             *)
(* How the strands meet, with all the steps in between, is in Reducers.    *)
(***************************************************************************)
EXTENDS Integers, Sequences, FiniteSets, SequencesExt

CONSTANTS MaxKids,    \* bound on the children whose spawn is stolen
          MaxThrows   \* bound on the exceptions

Frame == 0
Kids == 1..MaxKids
Strands == {Frame} \cup Kids
NoExc == 0
Outer == MaxThrows + 1    \* an exception that the caller handles

VARIABLES at,         \* strand -> what it does
          before,     \* the state of the C++ runtime the frame is called with
          cxa,        \* strand -> __cxa_get_globals of its thread
          info,       \* strand -> pending_exception of its full frame
          right_info, \* strand -> right_pending_exception; child_pending_exception
          nkids, siblings, \* children so far; those that have not left
          is_unsynched,    \* CILK_FRAME_UNSYNCHED
          except_data,\* the exception that unwinds the frame
          handler,    \* the exception the frame handles
          raised, living,  \* (ghosts) number thrown, those not destroyed
          infos,      \* (ghost) number of records allocated and not freed
          refuted     \* (ghost) assertions that have failed

gcc == <<at, before, cxa, info, right_info, nkids, siblings, is_unsynched, except_data,
         handler, raised, living, infos, refuted>>

NoInfo == [active |-> NoExc, caught |-> <<>>, uncaught |-> -1]   \* the null pointer
Clear == [caught |-> <<>>, uncaught |-> 0]

GInit ==
    /\ before \in [caught : {<<>>, <<Outer>>}, uncaught : {0, 1}]
    /\ cxa = [s \in Strands |-> IF s = Frame THEN before ELSE Clear]
    /\ at = [s \in Strands |-> IF s = Frame THEN "run" ELSE "unborn"]
    /\ info = [s \in Strands |-> NoInfo] /\ right_info = [s \in Strands |-> NoInfo]
    /\ nkids = 0 /\ siblings = <<>> /\ is_unsynched = FALSE
    /\ except_data = NoExc /\ handler = NoExc
    /\ raised = 0 /\ living = ToSet(before.caught) /\ infos = 0 /\ refuted = {}

-----------------------------------------------------------------------------
(* Variants of the definitions below with a plausible mistake in each:     *)
(* what the mutation runs put in their place.  No specification uses them. *)

(* The exception that is dropped still counts as on its way. *)
Bug_Uncaught(left, right) == left.uncaught + right.uncaught

-----------------------------------------------------------------------------
(* make: the thread's state goes into the record and leaves the thread.    *)
Make(state, exc) ==
    [active |-> exc, caught |-> state.caught, uncaught |-> state.uncaught]
IsEmpty(i) == i.active = NoExc /\ i.caught = <<>> /\ i.uncaught = 0

(* destruct: the active exception and those that were being handled.       *)
Destructed(i) == ({i.active} \ {NoExc}) \cup ToSet(i.caught)

Uncaught(left, right) ==
    IF left.active = NoExc THEN left.uncaught + right.uncaught
    ELSE left.uncaught + right.uncaught - (IF right.active # NoExc THEN 1 ELSE 0)

(* __cilkrts_merge_pending_exceptions, with what becomes of the exceptions *)
(* and records that are dropped.                                           *)
Merge(left, right) ==
    LET chain == IF left.caught # <<>> THEN left.caught ELSE right.caught
        kept == [active |-> IF left.active # NoExc THEN left.active ELSE right.active,
                 caught |-> chain, uncaught |-> Uncaught(left, right)]
        gone == [active |-> IF left.active # NoExc THEN right.active ELSE NoExc,
                 caught |-> IF left.caught # <<>> THEN right.caught ELSE <<>>,
                 uncaught |-> 0]
    IN  IF left = NoInfo \/ right = NoInfo
        THEN [info |-> IF left = NoInfo THEN right ELSE left, dead |-> {}, freed |-> 0, ok |-> TRUE]
        ELSE [info |-> IF IsEmpty(kept) THEN NoInfo ELSE kept,
              dead |-> Destructed(gone),
              freed |-> IF IsEmpty(kept) THEN 2 ELSE 1,
              ok |-> left.caught = <<>> \/ right.caught = <<>>]

-----------------------------------------------------------------------------
(* The thread's own exceptions (the C++ runtime). *)
Throwing(state) == [state EXCEPT !.uncaught = @ + 1]
NewException == /\ raised < MaxThrows
                /\ raised' = raised + 1
                /\ living' = living \cup {raised + 1}

Rethrows(s) == handler # NoExc /\ cxa[s].caught # <<>> /\ Head(cxa[s].caught) = handler

(* Strand s ends with a record of the state of its thread. *)
SaveExceptionInfo(s, state, exc) ==
    /\ info' = [info EXCEPT ![s] = Make(state, exc)]
    /\ cxa' = [cxa EXCEPT ![s] = Clear]
    /\ infos' = infos + 1
    /\ at' = [at EXCEPT ![s] = "ended"]
    /\ refuted' = IF info[s] = NoInfo THEN refuted ELSE refuted \cup {"pending"}

(* A spawn whose continuation is stolen: the child stays on the thread,    *)
(* and the frame goes on on one that has nothing to do.                    *)
Steal ==
    LET c == nkids + 1
    IN  /\ at[Frame] = "run" /\ nkids < MaxKids
        /\ nkids' = c /\ siblings' = Append(siblings, c) /\ is_unsynched' = TRUE
        /\ at' = [at EXCEPT ![c] = "run"]
        /\ cxa' = [cxa EXCEPT ![c] = cxa[Frame], ![Frame] = Clear]
        /\ UNCHANGED <<before, info, right_info, except_data, handler, raised, living,
                       infos, refuted>>

(* A child whose parent was stolen ends with an exception, its own or the  *)
(* one that the frame handles, ...                                         *)
ReturnException(c) ==
    /\ at[c] = "run"
    /\ \/ NewException /\ SaveExceptionInfo(c, Throwing(cxa[c]), raised + 1)
       \/ /\ Rethrows(c)
          /\ SaveExceptionInfo(c, Throwing(cxa[c]), handler)
          /\ UNCHANGED <<raised, living>>
    /\ UNCHANGED <<before, right_info, nkids, siblings, is_unsynched, except_data, handler>>

(* ... or without one. *)
SaveExceptionState(c) ==
    /\ at[c] = "run"
    /\ SaveExceptionInfo(c, cxa[c], NoExc)
    /\ UNCHANGED <<before, right_info, nkids, siblings, is_unsynched, except_data, handler, raised, living>>

(* The frame at a sync, with an exception of its own or without: then the  *)
(* state of the thread is not looked at.                                   *)
SyncExcept ==
    /\ at[Frame] = "run" /\ is_unsynched
    /\ NewException /\ SaveExceptionInfo(Frame, Throwing(cxa[Frame]), raised + 1)
    /\ UNCHANGED <<before, right_info, nkids, siblings, is_unsynched, except_data, handler>>

SyncNormally ==
    /\ at[Frame] = "run" /\ is_unsynched
    /\ at' = [at EXCEPT ![Frame] = "ended"]
    /\ UNCHANGED <<before, cxa, info, right_info, nkids, siblings, is_unsynched, except_data, handler,
                   raised, living, infos, refuted>>

-----------------------------------------------------------------------------
(* To the left under the lock of the frame: compute_left_ptrs,             *)
(* splice_exceptions_for_spawn, and for the frame itself at a sync.        *)
LeftOf(s) ==
    LET before_s == IF s = Frame THEN siblings ELSE SelectSeq(siblings, LAMBDA k : k < s)
    IN  IF before_s = <<>> THEN Frame ELSE Last(before_s)

Splice(s) ==
    LET own == Merge(right_info[LeftOf(s)], info[s])
        all == Merge(own.info, IF s = Frame THEN NoInfo ELSE right_info[s])
    IN  [info |-> all.info, dead |-> own.dead \cup all.dead,
         freed |-> own.freed + all.freed, ok |-> own.ok /\ all.ok]

(* Whoever comes last resumes the frame on its thread, which shall have no *)
(* state: __cilkrts_setup_for_execution_sysdep reinstates the record.      *)
SetupForExecution(s, i) ==
    /\ cxa' = [cxa EXCEPT ![s] = Clear,
                          ![Frame] = IF i = NoInfo THEN cxa[s]
                                     ELSE [caught |-> i.caught, uncaught |-> i.uncaught]]
    /\ is_unsynched' = FALSE
    /\ except_data' = i.active
    /\ at' = [at EXCEPT ![s] = "gone", ![Frame] = IF i.active = NoExc THEN "run" ELSE "unwind"]

Leave(s) ==
    LET to == Splice(s)
        last == \A t \in Strands \ {s} : at[t] \in {"unborn", "waits", "gone"}
        frees == to.freed + (IF last /\ to.info # NoInfo THEN 1 ELSE 0)
    IN  /\ at[s] = "ended"
        /\ siblings' = Remove(siblings, s)
        /\ info' = [info EXCEPT ![s] = NoInfo]
        /\ right_info' = [t \in Strands |->
               IF t = LeftOf(s) THEN IF last THEN NoInfo ELSE to.info
               ELSE IF t = s /\ s # Frame THEN NoInfo ELSE right_info[t]]
        /\ living' = living \ to.dead
        /\ infos' = infos - frees
        /\ refuted' = refuted \cup (IF to.ok THEN {} ELSE {"catch blocks"})
                      \cup (IF last /\ to.info # NoInfo /\ cxa[s] # Clear
                            THEN {"resuming with non-empty prior exception state"} ELSE {})
        /\ IF last THEN SetupForExecution(s, to.info)
           ELSE /\ at' = [at EXCEPT ![s] = IF s = Frame THEN "waits" ELSE "gone"]
                /\ UNCHANGED <<cxa, is_unsynched, except_data>>
        /\ UNCHANGED <<before, nkids, handler, raised>>

-----------------------------------------------------------------------------
(* The frame when it is synched: it throws, anew or again; ...             *)
Throw ==
    /\ at[Frame] = "run" /\ ~is_unsynched
    /\ at' = [at EXCEPT ![Frame] = "unwind"]
    /\ cxa' = [cxa EXCEPT ![Frame] = Throwing(@)]
    /\ \/ NewException /\ except_data' = raised + 1
       \/ Rethrows(Frame) /\ except_data' = handler /\ UNCHANGED <<raised, living>>
    /\ UNCHANGED <<before, info, right_info, nkids, siblings, is_unsynched, handler, infos, refuted>>

(* ... an exception, also one that was reinstated (__cilkrts_gcc_rethrow), *)
(* leaves the handler that the frame is in, and gets to an outer one; ...  *)
Catch ==
    LET outside == IF handler = NoExc THEN cxa[Frame].caught ELSE Tail(cxa[Frame].caught)
    IN  /\ at[Frame] = "unwind"
        /\ at' = [at EXCEPT ![Frame] = "run"]
        /\ cxa' = [cxa EXCEPT ![Frame] = [caught |-> <<except_data>> \o outside,
                                          uncaught |-> @.uncaught - 1]]
        /\ living' = living \ ({handler} \ {except_data})
        /\ handler' = except_data /\ except_data' = NoExc
        /\ UNCHANGED <<before, info, right_info, nkids, siblings, is_unsynched, raised, infos, refuted>>

(* ... and the handler ends. *)
EndCatch ==
    /\ at[Frame] = "run" /\ ~is_unsynched /\ handler # NoExc
    /\ cxa' = [cxa EXCEPT ![Frame].caught = Tail(@)]
    /\ living' = living \ {handler}
    /\ handler' = NoExc
    /\ UNCHANGED <<at, before, info, right_info, nkids, siblings, is_unsynched, except_data, 
                   raised, infos, refuted>>

GNext ==
    \/ Steal \/ SyncExcept \/ SyncNormally \/ Throw \/ Catch \/ EndCatch
    \/ \E c \in Kids : ReturnException(c) \/ SaveExceptionState(c)
    \/ \E s \in Strands : Leave(s)

GSpec == GInit /\ [][GNext]_gcc

-----------------------------------------------------------------------------
InfosFromLeft ==
    <<right_info[Frame]>>
    \o FlattenSeq([i \in 1..Len(siblings) |->
                      <<Make(cxa[siblings[i]], NoExc), info[siblings[i]], right_info[siblings[i]]>>])
    \o <<Make(cxa[Frame], except_data), info[Frame]>>
Holders == SelectSeq(InfosFromLeft, LAMBDA i : i # NoInfo)
OnTheirWay == {Holders[i].active : i \in DOMAIN Holders} \ {NoExc}

(* Taken together from left to right, the threads and the records have the *)
(* state that the serial program would have: the same chain of handlers,   *)
(* and one exception on its way for each that is and for those outside; no *)
(* exception is leaked or freed while it is needed, no record is leaked,   *)
(* threads without a strand are clean ("resuming with non-empty prior      *)
(* exception state", except-gcc.cpp:521) and the assertions hold.          *)
StateIsSerial ==
    /\ FlattenSeq([i \in DOMAIN Holders |-> Holders[i].caught]) =
          (IF handler = NoExc THEN <<>> ELSE <<handler>>) \o before.caught
    /\ FoldLeft(LAMBDA n, i : n + i.uncaught, 0, Holders) =
          before.uncaught + Cardinality(OnTheirWay)
    /\ \A i \in DOMAIN Holders : Holders[i].active # NoExc => Holders[i].uncaught > 0
    /\ living = OnTheirWay \cup ({handler} \ {NoExc}) \cup ToSet(before.caught)
    /\ infos = Cardinality({s \in Strands : info[s] # NoInfo})
               + Cardinality({s \in Strands : right_info[s] # NoInfo})
    /\ \A s \in Strands : at[s] \in {"ended", "waits", "gone"} => cxa[s] = Clear
    /\ refuted = {}
=============================================================================

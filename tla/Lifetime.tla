------------------------------ MODULE Lifetime ------------------------------
(***************************************************************************)
(* The start and the end of the runtime, and the threads that come and go  *)
(* in between (runtime/cilk-abi.c 506-655, runtime/scheduler.c 3195-3236,  *)
(* 3576-3665, 3759-3812, runtime/cilk_api.c 79-102,                        *)
(* runtime/global_state.cpp 525-628, runtime/sysdep-unix.c 297-370).       *)
(*                                                                         *)
(* A thread that enters binds to a worker of the user part of the table,   *)
(* or, when those are taken, to one made for it alone.  Whether the state  *)
(* is published and the workers run is looked at without the lock and      *)
(* again with it; what happens under the lock of the operating system is   *)
(* one step.  A thread that saw the state published and uses it after      *)
(* another thread has ended the runtime is what global_state.h:108-111     *)
(* rules out: it builds a state without the lock, or finds none, or the    *)
(* workers gone.  There, and where the runtime aborts, a behaviour ends.   *)
(***************************************************************************)
EXTENDS Integers, FiniteSets, FiniteSetsExt

CONSTANTS UserThreads,
          UserWorkers,  \* the workers from P - 1 on: numbers
          AdHoc,        \* a worker made on demand: its self is -1
          NoWorker,
          MaxEnds       \* bound on __cilkrts_end_cilk

VARIABLES stage,                      \* thread -> what it is doing
          start,                      \* thread -> it is to start the workers
          tls,                        \* thread -> its worker
          type,                       \* worker -> "free" or "user"
          published, workers_running, work_done, Q,
          starts,                     \* times the workers of this state were started
          ends                        \* times the runtime was ended

(* Needed by the proofs: workers of the table have numbers.                *)
LifetimeAssumption ==
    /\ UserWorkers \subseteq Nat
    /\ NoWorker \notin UserWorkers /\ AdHoc \notin UserWorkers /\ AdHoc # NoWorker

life_vars == <<stage, start, tls, type, published, workers_running, work_done, Q, starts, ends>>

LifeInit ==
    /\ stage = [t \in UserThreads |-> "out"] /\ start = [t \in UserThreads |-> FALSE]
    /\ tls = [t \in UserThreads |-> NoWorker]
    /\ type = [w \in UserWorkers |-> "free"]
    /\ published = FALSE /\ workers_running = FALSE /\ work_done = FALSE
    /\ Q = 0 /\ starts = 0 /\ ends = 0

Moves(t, from, to) == stage[t] = from /\ stage' = [stage EXCEPT ![t] = to]

-----------------------------------------------------------------------------
(* Initialisation, by __cilkrts_init or by a thread that binds. *)

Enter(t, starting) ==
    /\ tls[t] = NoWorker /\ Moves(t, "out", IF published THEN "fetch" ELSE "create")
    /\ start' = [start EXCEPT ![t] = starting]
    /\ UNCHANGED <<tls, type, published, workers_running, work_done, Q, starts, ends>>

Fetch(t) ==
    /\ Moves(t, "fetch", IF published THEN "look" ELSE "lost")
    /\ UNCHANGED <<start, tls, type, published, workers_running, work_done, Q, starts, ends>>

Create(t) ==
    /\ Moves(t, "create", "look")
    /\ published' = TRUE
    /\ IF published THEN UNCHANGED <<type, workers_running, work_done, Q, starts>>
       ELSE /\ type' = [w \in UserWorkers |-> "free"]
            /\ workers_running' = FALSE /\ work_done' = FALSE
            /\ Q' = 0 /\ starts' = 0
    /\ UNCHANGED <<start, tls, ends>>

Look(t) ==
    /\ Moves(t, "look", IF ~start[t] THEN "out"
                       ELSE IF workers_running THEN "get" ELSE "start")
    /\ UNCHANGED <<start, tls, type, published, workers_running, work_done, Q, starts, ends>>

-----------------------------------------------------------------------------
(* Variants of the definitions below with a plausible mistake in each:     *)
(* what the mutation runs put in their place.  No specification uses them. *)

(* Whoever saw that the workers do not run starts them. *)
Bug_StartWorkers(t) ==
    /\ Moves(t, "start", IF published THEN "get" ELSE "lost")
    /\ workers_running' = published
    /\ work_done' = (work_done /\ ~published)
    /\ starts' = starts + (IF published THEN 1 ELSE 0)
    /\ UNCHANGED <<start, tls, type, published, Q, ends>>

-----------------------------------------------------------------------------
(* A thread for each system worker, and at the end each is waited for.     *)
CreateThreads == workers_running' = TRUE /\ work_done' = FALSE /\ starts' = starts + 1
JoinThreads == workers_running' = FALSE /\ work_done' = TRUE

StartWorkers(t) ==
    /\ Moves(t, "start", IF workers_running \/ published THEN "get" ELSE "lost")
    /\ IF published /\ ~workers_running THEN CreateThreads
       ELSE UNCHANGED <<workers_running, work_done, starts>>
    /\ UNCHANGED <<start, tls, type, published, Q, ends>>

Get(t) ==
    /\ Moves(t, "get", IF published THEN "bind" ELSE "lost")
    /\ UNCHANGED <<start, tls, type, published, workers_running, work_done, Q, starts, ends>>

(* "Attempt to enter Cilk while Cilk is shutting down" *)
Refused(t) ==
    /\ work_done /\ Moves(t, "bind", "lost")
    /\ UNCHANGED <<start, tls, type, published, workers_running, work_done, Q, starts, ends>>

FreeWorkers == {w \in UserWorkers : type[w] = "free"}

(* __cilkrts_enter_cilk wakes the workers when Q leaves zero: SignalTree.  *)
Bind(t) ==
    /\ ~work_done /\ Moves(t, "bind", "out")
    /\ IF FreeWorkers = {}
       THEN /\ tls' = [tls EXCEPT ![t] = AdHoc]
            /\ UNCHANGED <<type, Q>>
       ELSE /\ tls' = [tls EXCEPT ![t] = Min(FreeWorkers)]
            /\ type' = [type EXCEPT ![Min(FreeWorkers)] = "user"]
            /\ Q' = Q + 1
    /\ UNCHANGED <<start, published, workers_running, work_done, starts, ends>>

(* At the return from the thread's first frame. *)
Unbind(t) ==
    /\ tls[t] # NoWorker /\ stage[t] = "out" /\ published
    /\ tls' = [tls EXCEPT ![t] = NoWorker]
    /\ IF tls[t] = AdHoc THEN UNCHANGED <<type, Q>>
       ELSE type' = [type EXCEPT ![tls[t]] = "free"] /\ Q' = Q - 1
    /\ UNCHANGED <<stage, start, published, workers_running, work_done, starts, ends>>

(* The thread stops the workers, waits for them and frees everything.      *)
EndCilk(t) ==
    /\ stage[t] = "out" /\ published /\ ends < MaxEnds
    /\ ends' = ends + 1
    /\ IF Q # 0 \/ tls[t] # NoWorker
       THEN /\ stage' = [stage EXCEPT ![t] = "lost"]
            /\ UNCHANGED <<published, workers_running, work_done>>
       ELSE JoinThreads /\ published' = FALSE /\ UNCHANGED stage
    /\ UNCHANGED <<start, tls, type, Q, starts>>

LifeNext ==
    /\ \A t \in UserThreads : stage[t] # "lost"
    /\ \E t \in UserThreads :
         \/ \E starting \in BOOLEAN : Enter(t, starting)
         \/ Fetch(t) \/ Create(t) \/ Look(t) \/ StartWorkers(t) \/ Get(t)
         \/ Refused(t) \/ Bind(t) \/ Unbind(t) \/ EndCilk(t)

LifeSpec == LifeInit /\ [][LifeNext]_life_vars

-----------------------------------------------------------------------------
Bound(w) == {t \in UserThreads : tls[t] = w}

(* Each worker of the table serves one thread, Q counts the threads served *)
(* (system workers sleep when it is zero), the state stays as long as one  *)
(* of them is inside, and the workers are started once per state, however  *)
(* many threads enter at the same time.  Workers made on demand are        *)
(* neither counted nor waited for: __cilkrts_end_cilk can take the state   *)
(* from under them (cilk_api.c:94).                                        *)
TableIsRight ==
    /\ \A w \in UserWorkers : Cardinality(Bound(w)) = (IF type[w] = "user" THEN 1 ELSE 0)
    /\ Q = Cardinality({w \in UserWorkers : type[w] = "user"})
    /\ Q > 0 => published
    /\ starts <= 1
    /\ workers_running <=> published /\ starts = 1
=============================================================================

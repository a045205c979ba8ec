------------------------------- MODULE Settings -------------------------------
(***************************************************************************)
(* The sizes that the runtime is started with: the environment, the calls  *)
(* of __cilkrts_set_param and what is computed from them                   *)
(* (runtime/global_state.cpp, os-unix.c 316-427, 458-548, cilk_api.c,      *)
(* cilk_fiber-unix.cpp 98-134, 270-324).                                   *)
(*                                                                         *)
(* Settings are read from the environment once, whoever asks first, may be *)
(* changed, some of them only until the runtime has started, and stay when *)
(* it ends and starts again.  One thread is looked at: two that ask first  *)
(* at the same time race (global_state.cpp:71, 390).                       *)
(***************************************************************************)
EXTENDS Integers, FiniteSets

CONSTANTS Machines,  \* [online, affinity, ptool, page]: processors, those
                     \* that the thread may use; whether under a sequential
                     \* tool; the size of a page, which need not be PAGE
          Env,       \* environments: [nworkers, users, failures, force,
                     \* replay, record]
          Unset,     \* a variable that is not set, or a setting nobody changed
          Long,      \* a value that does not fit into the buffer
          Junk,      \* a string without a number: strtol gives 0
          Inputs,    \* setting -> the values that it is given
          Default,   \* the default number of stacks
          MaxCalls,  \* bound on the calls of __cilkrts_set_param
          MaxStarts  \* bound on the starts of the runtime

VARIABLES machine, env,
          initialized,   \* cilkg_user_settable_values_initialized
          g,             \* the global state, as far as it is set here
          singleton,     \* cilkg_singleton_ptr is set
          running,       \* (ghost) the global state as the start left it
          asked,         \* (ghost) setting -> the last value accepted
          calls, starts_made

settings == <<machine, env, initialized, g, singleton, running, asked, calls, starts_made>>

Names == {"nworkers", "max_user_workers", "local_stacks", "shared_stacks", "nstacks",
          "stack_size", "force_reduce"}

(* Values are numbers, and what is none of these is not one; there is a    *)
(* processor; pages are a multiple of the 32 bytes that a stack's end is   *)
(* aligned to.  A number of stacks below zero is refused                   *)
(* (global_state.cpp:325).                                                 *)
SettingsAssumption ==
    /\ Unset \notin Int /\ Long \notin Int /\ Junk \notin Int /\ Default \in Nat
    /\ \A m \in Machines :
          /\ m.online \in Nat \ {0} /\ m.affinity \in Nat /\ m.ptool \in BOOLEAN
          /\ m.page \in Nat \ {0} /\ m.page % 32 = 0
    /\ \A e \in Env : e.nworkers \in Int \cup {Unset, Long, Junk} /\ e.users \in Int \cup {Unset, Long, Junk}
                      /\ e.failures \in Int \cup {Unset, Long, Junk} /\ e.force \in Int \cup {Unset, Long, Junk}
    /\ \A n \in Names : Inputs[n] \subseteq Int \cup {Junk}
    /\ Inputs["nstacks"] \subseteq Nat \cup {Junk}

INT_MAX == 2147483647
Larger(a, b) == IF a > b THEN a ELSE b

CInit ==
    /\ machine \in Machines /\ env \in Env
    /\ initialized = FALSE /\ singleton = FALSE
    /\ g = [P |-> 0, max_user_workers |-> 0, fiber_pool_size |-> 0,
            global_fiber_pool_size |-> 0, max_stacks |-> 0, stack_size |-> 0,
            force_reduce |-> 0, max_steal_failures |-> 0, total_workers |-> 0,
            record_or_replay |-> "none"]
    /\ running = g
    /\ asked = [n \in Names |-> Unset]
    /\ calls = 0 /\ starts_made = 0

-----------------------------------------------------------------------------
(* Variants of the definitions below with a plausible mistake in each:     *)
(* what the mutation runs put in their place.  No specification uses them. *)

(* The limit on the fibers a worker keeps is forgotten. *)
Bug_LimitStacks(s) == [s EXCEPT !.max_stacks = Larger(@, s.P)]

-----------------------------------------------------------------------------
StoreBool(old, val) ==
    IF val \in {0, 1} THEN [ret |-> "success", out |-> val]
    ELSE [ret |-> "invalid", out |-> old]

StoreInt(old, val, min, max) ==
    LET val_as_long == IF val = Junk THEN 0 ELSE val
    IN  IF val_as_long < min \/ val_as_long > max
        THEN [ret |-> "xrange", out |-> old]
        ELSE [ret |-> "success", out |-> val_as_long]

(* A value that is too long counts as set but is not copied: what is       *)
(* stored is what the variable asked for before has left in the buffer.    *)
Getenv(value, buffer) ==
    [set |-> value # Unset,
     buffer |-> IF value = Unset THEN Junk ELSE IF value = Long THEN buffer ELSE value]

(* linux_get_affinity_count: 0 if it cannot be found out. *)
Cores == IF machine.affinity = 0 THEN machine.online ELSE machine.affinity
HardwareCpuCount == IF machine.ptool THEN 1 ELSE Cores

CalcMaxUserWorkers(s) ==
    IF s.max_user_workers > 0 THEN s.max_user_workers ELSE Larger(3, 2 * s.P)
CalcTotalWorkers(s) == s.P + CalcMaxUserWorkers(s) - 1

PAGE == 4096
MinStackSize == 4 * PAGE
ValidateStackSize(size) ==
    IF size = 0 THEN 1048576
    ELSE IF size <= MinStackSize THEN MinStackSize
    ELSE IF size % PAGE > 0 THEN PAGE * (1 + size \div PAGE)
    ELSE size

(* A fiber's stack, if the system maps one: in whole pages of the machine, *)
(* with one for a guard at each end, and addressed from the lower.         *)
RoundToPages(size) ==
    LET page == machine.page IN
    IF size < 3 * page THEN 3 * page ELSE page * ((size + page - 1) \div page)

MakeStack(size) ==
    LET base == RoundToPages(size) - machine.page
    IN  [low |-> machine.page, stack_max |-> base - (base % 32)]

FreeStack(stack) == stack.stack_max + machine.page  \* what is unmapped

-----------------------------------------------------------------------------
(* The first call of cilkg_get_user_settable_values, in which the          *)
(* variables are read one after the other into one buffer.                 *)
GetUserSettableValues(first) ==
    LET limit == 16 * HardwareCpuCount
        force == Getenv(env.force, first)
        nworkers == Getenv(env.nworkers, force.buffer)
        users == Getenv(env.users, IF machine.ptool THEN force.buffer ELSE nworkers.buffer)
        failures == Getenv(env.failures, users.buffer)
        P == IF nworkers.set /\ ~machine.ptool
             THEN StoreInt(HardwareCpuCount, nworkers.buffer, 1, limit).out
             ELSE HardwareCpuCount
        new == [P |-> P,
                max_user_workers |-> IF users.set THEN StoreInt(0, users.buffer, 1, limit).out ELSE 0,
                fiber_pool_size |-> 7,
                global_fiber_pool_size |-> 9 * HardwareCpuCount,
                max_stacks |-> Default,
                stack_size |-> 0,
                force_reduce |-> IF force.set THEN StoreBool(0, force.buffer).out ELSE 0,
                max_steal_failures |-> IF failures.set THEN StoreInt(128, failures.buffer, 1, INT_MAX).out
                                       ELSE 128,
                total_workers |-> 0,
                record_or_replay |-> IF env.replay THEN "replay"
                                     ELSE IF env.record THEN "record" ELSE "none"]
    IN  [new EXCEPT !.total_workers = CalcTotalWorkers(new)]

(* A thread asks for a setting. *)
Ask ==
    /\ ~initialized /\ initialized' = TRUE
    /\ \E first \in {Junk, 2} : g' = GetUserSettableValues(first)
    /\ UNCHANGED <<machine, env, singleton, running, asked, calls, starts_made>>

-----------------------------------------------------------------------------
(* set_param_imp, a disjunct for each of its branches that differ. *)
Accept(name, val, ret) ==
    asked' = IF ret = "success" THEN [asked EXCEPT ![name] = IF val = Junk THEN 0 ELSE val]
             ELSE asked

SetForceReduce(val) ==
    LET r == StoreBool(g.force_reduce, val)
    IN  g' = [g EXCEPT !.force_reduce = r.out] /\ Accept("force_reduce", val, r.ret)

SetNWorkers(val) ==
    LET r == StoreInt(g.P, val, 0, IF machine.ptool THEN 1 ELSE 16 * Cores)
    IN  /\ ~singleton
        /\ g' = [g EXCEPT !.P = IF r.out = 0 THEN HardwareCpuCount ELSE r.out]
        /\ Accept("nworkers", val, r.ret)

SetMaxUserWorkers(val) ==
    LET r == StoreInt(g.max_user_workers, val, 1, 16 * Cores)
    IN  /\ g' = [g EXCEPT !.max_user_workers = r.out]
        /\ Accept("max_user_workers", val, r.ret)

SetLocalStacks(val) ==
    LET r == StoreInt(g.fiber_pool_size, val, 0, 42)
    IN  g' = [g EXCEPT !.fiber_pool_size = r.out] /\ Accept("local_stacks", val, r.ret)

SetSharedStacks(val) ==
    LET r == StoreInt(g.global_fiber_pool_size, val, 0, 42)
    IN  g' = [g EXCEPT !.global_fiber_pool_size = r.out] /\ Accept("shared_stacks", val, r.ret)

SetNStacks(val) ==
    /\ ~singleton
    /\ g' = [g EXCEPT !.max_stacks = IF val = Junk THEN 0 ELSE val]
    /\ Accept("nstacks", val, "success")

SetStackSize(val) ==
    LET r == StoreInt(g.stack_size, val, 0, INT_MAX)
    IN  /\ ~singleton
        /\ g' = [g EXCEPT !.stack_size = ValidateStackSize(r.out)]
        /\ Accept("stack_size", val, r.ret)

SetParam(name, val) ==
    CASE name = "force_reduce" -> SetForceReduce(val)
      [] name = "nworkers" -> SetNWorkers(val)
      [] name = "max_user_workers" -> SetMaxUserWorkers(val)
      [] name = "local_stacks" -> SetLocalStacks(val)
      [] name = "shared_stacks" -> SetSharedStacks(val)
      [] name = "nstacks" -> SetNStacks(val)
      [] name = "stack_size" -> SetStackSize(val)

Set(name, val) ==
    /\ initialized /\ calls < MaxCalls
    /\ calls' = calls + 1
    /\ SetParam(name, val)
    /\ UNCHANGED <<machine, env, initialized, singleton, running, starts_made>>

-----------------------------------------------------------------------------
(* The start: the fibers that may be alive are shared out among the pools. *)
LimitStacks(s) ==
    IF s.max_stacks = 0 THEN s
    ELSE LET share == s.max_stacks \div s.P
             pool == Larger(1, IF share < s.fiber_pool_size THEN share ELSE s.fiber_pool_size)
         IN  [s EXCEPT !.fiber_pool_size = pool,
                       !.max_stacks = Larger(@, s.P),
                       !.global_fiber_pool_size = s.P * (pool + 1)]

InitGlobalState(s) ==
    [s EXCEPT !.total_workers = CalcTotalWorkers(s),
              !.stack_size = ValidateStackSize(@)]

Start ==
    /\ initialized /\ ~singleton /\ starts_made < MaxStarts
    /\ singleton' = TRUE /\ starts_made' = starts_made + 1
    /\ g' = InitGlobalState(LimitStacks(g))
    /\ running' = g'
    /\ UNCHANGED <<machine, env, initialized, asked, calls>>

(* Settings outlive the runtime. *)
Deinit ==
    /\ singleton /\ singleton' = FALSE
    /\ UNCHANGED <<machine, env, initialized, g, running, asked, calls, starts_made>>

CNext ==
    \/ Ask \/ Start \/ Deinit
    \/ \E name \in Names : \E val \in Inputs[name] : Set(name, val)

CSpec == CInit /\ [][CNext]_settings

-----------------------------------------------------------------------------
(* What runs is what was asked for last, whatever was refused or set in    *)
(* the meantime and however often the runtime ended; the sizes fit each    *)
(* other: a worker for each processor asked for and one for each user      *)
(* thread without counting the first twice, a fiber for each worker, no    *)
(* worker keeping so many that another gets none, stacks in pages, and a   *)
(* root that asks its node after some failures (global_state.cpp:467-470,  *)
(* 533-569, 573-582).                                                      *)
SettingsHold ==
    singleton =>
        /\ running.P \in 1..(16 * Cores) /\ (machine.ptool => running.P = 1)
        /\ asked["nworkers"] \notin {Unset, 0} => running.P = asked["nworkers"]
        /\ asked["nworkers"] = 0 => running.P = HardwareCpuCount
        /\ running.max_steal_failures \in 1..INT_MAX
        /\ g.P = running.P /\ g.stack_size = running.stack_size
        /\ running.total_workers - running.P + 1 \in {Larger(3, 2 * running.P)} \cup 1..(16 * Cores)
        /\ running.max_stacks > 0 =>
              /\ running.max_stacks >= running.P
              /\ running.P * running.fiber_pool_size <= running.max_stacks
        /\ asked["stack_size"] # Unset =>
              running.stack_size = ValidateStackSize(asked["stack_size"])
        /\ running.stack_size % PAGE = 0 /\ running.stack_size >= MinStackSize
        /\ LET stack == MakeStack(running.stack_size) IN
              /\ stack.stack_max >= stack.low + machine.page
              /\ FreeStack(stack) = RoundToPages(running.stack_size)
=============================================================================

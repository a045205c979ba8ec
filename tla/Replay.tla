------------------------------- MODULE Replay -------------------------------
(***************************************************************************)
(* Recording a run and replaying it (runtime/record-replay.cpp, and its    *)
(* callers in runtime/scheduler.c and runtime/cilk-abi.c).                 *)
(*                                                                         *)
(* A program is a tree of frames, each of which spawns its children and    *)
(* syncs.  In the first run workers steal as they like, and each writes to *)
(* a log of its own the steals it makes, the returns that find the parent  *)
(* stolen and the syncs it continues from, by pedigree: <<f, k>> is frame  *)
(* f at its k-th spawn.  The second run reads the logs.  A worker steals   *)
(* only what its next entry says, a child whose return was an orphan's     *)
(* waits until its parent is stolen, and a worker that went on after a     *)
(* sync waits there until it is the last.  Steals and the race with them   *)
(* are single steps (see THE), and so are frames' joins (see FullFrames).  *)
(* No child throws: a return by exception is not recorded.                 *)
(***************************************************************************)
EXTENDS Integers, Sequences, SequencesExt

CONSTANTS Workers, User,   \* the user's worker, which starts the program
          NoFrame, NoWorker,
          Kids               \* the program: frame -> the children it spawns

Frames == DOMAIN Kids
Root == 1
Spawns(f) == Len(Kids[f])
ParentOf(c) == CHOOSE f \in Frames : c \in ToSet(Kids[f])
RankOf(c) == CHOOSE k \in DOMAIN Kids[ParentOf(c)] : Kids[ParentOf(c)][k] = c

VARIABLES mode,             \* "record", "replay" or "ended"
          frame, arriving,  \* worker -> the frame it runs; the sync it is at
          deque,            \* worker -> frames that can be stolen from it
          next_frame,       \* worker -> a frame given to it
          spawned, join, unsynched,   \* of each frame
          log,              \* worker -> its entries, those still to come
          ran,              \* history: strand -> the worker of the first run
          strayed           \* history: a strand of the second run was not there

tree == <<spawned, join, unsynched>>
vars == <<mode, frame, arriving, deque, next_frame, tree, log, ran, strayed>>

Strands == {<<f, k>> : f \in Frames, k \in 0..3}
NoSync == <<>>

Start ==
    /\ frame' = [w \in Workers |-> IF w = User THEN Root ELSE NoFrame]
    /\ spawned' = [f \in Frames |-> 0] /\ join' = [f \in Frames |-> 1]

Init ==
    /\ mode = "record"
    /\ frame = [w \in Workers |-> IF w = User THEN Root ELSE NoFrame]
    /\ arriving = [w \in Workers |-> NoSync]
    /\ deque = [w \in Workers |-> <<>>]
    /\ next_frame = [w \in Workers |-> NoFrame]
    /\ spawned = [f \in Frames |-> 0] /\ join = [f \in Frames |-> 1]
    /\ unsynched = [f \in Frames |-> FALSE]
    /\ log = [w \in Workers |-> <<>>]
    /\ ran = [s \in Strands |-> NoWorker] /\ strayed = FALSE

-----------------------------------------------------------------------------
(* The log *)

Entry(type, pedigree, victim) == [type |-> type, pedigree |-> pedigree, victim |-> victim]

Replaying == mode = "replay"
Expects(w, e) == Replaying /\ log[w] # <<>> /\ Head(log[w]) = e

(* An entry is written in the first run; in the second it is consumed if   *)
(* it is the next.                                                         *)
LogIt(w, e) ==
    log' = [log EXCEPT ![w] = IF ~Replaying THEN Append(@, e)
                              ELSE IF Expects(w, e) THEN Tail(@) ELSE @]

(* Loading: orphans whose parent nobody stole from this worker are skipped *)
(* by whoever advances, so that only the first entry may be such a one.    *)
Matched(w, e) ==
    \E v \in Workers : Entry("steal", e.pedigree, w) \in ToSet(log[v])
Kept(w) ==
    LET Keeps(e) == e.type = "orphaned" => Matched(w, e)
    IN  IF log[w] = <<>> THEN <<>>
        ELSE <<Head(log[w])>> \o SelectSeq(Tail(log[w]), Keeps)

(* Worker w executes a strand. *)
Runs(w, s) ==
    IF Replaying THEN strayed' = (strayed \/ ran[s] # w) /\ UNCHANGED ran
    ELSE ran' = [ran EXCEPT ![s] = w] /\ UNCHANGED strayed

-----------------------------------------------------------------------------
Running(w) == frame[w] # NoFrame /\ arriving[w] = NoSync
Idle(w) == frame[w] = NoFrame

Spawn(w) ==
    LET f == frame[w] IN
    /\ Running(w) /\ spawned[f] < Spawns(f)
    /\ deque' = [deque EXCEPT ![w] = Append(@, f)]
    /\ spawned' = [spawned EXCEPT ![f] = @ + 1]
    /\ frame' = [frame EXCEPT ![w] = Kids[f][spawned[f] + 1]]
    /\ Runs(w, <<Kids[f][spawned[f] + 1], 0>>)
    /\ UNCHANGED <<mode, arriving, next_frame, join, unsynched, log>>

(* A steal takes the oldest frame, and the child it has spawned must join. *)
Steal(w, v) ==
    LET f == Head(deque[v])
        e == Entry("steal", <<f, spawned[f]>>, v)
    IN  /\ v # w /\ Idle(w) /\ next_frame[w] = NoFrame /\ deque[v] # <<>>
        /\ Replaying => Expects(w, e)
        /\ deque' = [deque EXCEPT ![v] = Tail(@)]
        /\ join' = [join EXCEPT ![f] = @ + 1]
        /\ unsynched' = [unsynched EXCEPT ![f] = TRUE]
        /\ frame' = [frame EXCEPT ![w] = f]
        /\ LogIt(w, e) /\ Runs(w, <<f, spawned[f]>>)
        /\ UNCHANGED <<mode, arriving, next_frame, spawned>>

Returning(w) ==
    /\ Running(w) /\ frame[w] # Root
    /\ spawned[frame[w]] > Spawns(frame[w])
       \/ (spawned[frame[w]] = Spawns(frame[w]) /\ ~unsynched[frame[w]])

Orphaned(w) == Entry("orphaned", <<ParentOf(frame[w]), RankOf(frame[w])>>, NoWorker)

-----------------------------------------------------------------------------
(* Variants of the definitions below with a plausible mistake in each:     *)
(* what the mutation runs put in their place.  No specification uses them. *)

(* The worker does not wait at the sync it is to go on from. *)
Bug_MustWait(w) == FALSE

(* The return is attached whatever the log says. *)
Bug_ReturnAttached(w) ==
    LET p == Last(deque[w]) IN
    /\ Returning(w) /\ deque[w] # <<>>
    /\ deque' = [deque EXCEPT ![w] = Front(@)]
    /\ frame' = [frame EXCEPT ![w] = p]
    /\ Runs(w, <<p, spawned[p]>>)
    /\ UNCHANGED <<mode, arriving, next_frame, tree, log>>

-----------------------------------------------------------------------------
ReturnAttached(w) ==
    LET p == Last(deque[w]) IN
    /\ Returning(w) /\ deque[w] # <<>> /\ ~Expects(w, Orphaned(w))
    /\ deque' = [deque EXCEPT ![w] = Front(@)]
    /\ frame' = [frame EXCEPT ![w] = p]
    /\ Runs(w, <<p, spawned[p]>>)
    /\ UNCHANGED <<mode, arriving, next_frame, tree, log>>

ReturnOrphaned(w) ==
    /\ Returning(w) /\ deque[w] = <<>>
    /\ LogIt(w, Orphaned(w))
    /\ arriving' = [arriving EXCEPT ![w] = Orphaned(w).pedigree]
    /\ UNCHANGED <<mode, frame, deque, next_frame, tree, ran, strayed>>

Suspend(w) ==
    LET f == frame[w] IN
    /\ Running(w) /\ spawned[f] = Spawns(f) /\ unsynched[f]
    /\ arriving' = [arriving EXCEPT ![w] = <<f, spawned[f]>>]
    /\ UNCHANGED <<mode, frame, deque, next_frame, tree, log, ran, strayed>>

Synced(w) == Entry("sync", arriving[w], NoWorker)
MustWait(w) == Expects(w, Synced(w)) /\ join[arriving[w][1]] # 1

(* The last to arrive goes on with the frame; the root goes back to the    *)
(* user's worker, and only that one writes an entry then.                  *)
Arrive(w) ==
    LET f == arriving[w][1]
        last == join[f] = 1
        goes_on == last /\ (f = Root => w = User)
    IN  /\ arriving[w] # NoSync /\ ~MustWait(w)
        /\ join' = [join EXCEPT ![f] = IF last THEN 1 ELSE @ - 1]
        /\ arriving' = [arriving EXCEPT ![w] = NoSync]
        /\ IF last
           THEN /\ unsynched' = [unsynched EXCEPT ![f] = FALSE]
                /\ spawned' = [spawned EXCEPT ![f] = Spawns(f) + 1]
           ELSE UNCHANGED <<unsynched, spawned>>
        /\ IF goes_on
           THEN /\ frame' = [frame EXCEPT ![w] = f]
                /\ LogIt(w, Synced(w)) /\ Runs(w, <<f, Spawns(f) + 1>>)
           ELSE /\ frame' = [frame EXCEPT ![w] = NoFrame]
                /\ UNCHANGED <<log, ran, strayed>>
        /\ next_frame' = IF last /\ ~goes_on THEN [next_frame EXCEPT ![User] = f]
                         ELSE next_frame
        /\ UNCHANGED <<mode, deque>>

TakeNext(w) ==
    /\ Idle(w) /\ next_frame[w] # NoFrame
    /\ frame' = [frame EXCEPT ![w] = next_frame[w]]
    /\ next_frame' = [next_frame EXCEPT ![w] = NoFrame]
    /\ Runs(w, <<next_frame[w], Spawns(next_frame[w]) + 1>>)
    /\ UNCHANGED <<mode, arriving, deque, tree, log>>

(* The root returns: the logs are written, or should have been used up.    *)
RootReturns(w) ==
    /\ Running(w) /\ frame[w] = Root
    /\ spawned[Root] > Spawns(Root) \/ (spawned[Root] = Spawns(Root) /\ ~unsynched[Root])
    /\ IF Replaying THEN mode' = "ended" /\ UNCHANGED <<frame, spawned, join, log>>
       ELSE mode' = "replay" /\ Start /\ log' = [v \in Workers |-> Kept(v)]
    /\ UNCHANGED <<arriving, deque, next_frame, unsynched, ran, strayed>>

Progress(w) ==
    \/ Spawn(w) \/ ReturnAttached(w) \/ ReturnOrphaned(w) \/ Suspend(w)
    \/ Arrive(w) \/ TakeNext(w) \/ RootReturns(w)
    \/ Replaying /\ \E v \in Workers : Steal(w, v)

Next == mode # "ended" /\ \E w \in Workers :
            Progress(w) \/ \E v \in Workers : Steal(w, v)

(* Workers keep running, and under replay they keep trying to steal what   *)
(* the log says.  In the first run nobody has to steal.                    *)
Goes(w) == mode # "ended" /\ Progress(w)
Fairness == \A w \in Workers : WF_vars(Goes(w))

Spec == Init /\ [][Next]_vars /\ Fairness

-----------------------------------------------------------------------------
(* The replay comes to its end, nobody waits for a steal or a join that    *)
(* never comes, "We should have consumed the entire list"                  *)
(* (record-replay.cpp:765), and each strand of the second run was executed *)
(* by the worker that executed it in the first.                            *)
ReplayEnds ==
    <>(mode = "ended" /\ ~strayed /\ \A w \in Workers : log[w] = <<>>)
=============================================================================

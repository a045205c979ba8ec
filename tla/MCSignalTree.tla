--------------------------- MODULE MCSignalTree ---------------------------
(* SignalTree with three levels: worker 1 has both a parent and a child.  *)
(* The root asks after the fewest failures that can be set, one.          *)
EXTENDS SignalTree

(* What the first users leave behind is met by users that come back or by  *)
(* the end of the runtime, maybe after a loop: not by both in a behaviour. *)
OneKindOfReturn == entries' > 1 => loops' = 0 /\ ~work_done'

MCSpec == Init /\ [][Next /\ OneKindOfReturn]_vars /\ Fairness
=============================================================================

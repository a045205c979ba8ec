------------------------------- MODULE MCTHE -------------------------------
(* THE with a few slots, spawns and thieves, replaying a log over frames   *)
(* restricted to NUMA domains, but never a steal that fits neither: what   *)
(* the code does then is the matter of a run of its own.                   *)
EXTENDS THE

OneMismatch == \A t \in Thieves : ~(NumaMismatch(t) /\ ~proceed[t])

MCSpec == Init /\ [][Next /\ OneMismatch]_vars /\ Fairness
=============================================================================

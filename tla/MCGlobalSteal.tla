---------------------------- MODULE MCGlobalSteal ----------------------------
(* Tasks and closers are interchangeable; workers are not, a closer takes   *)
(* them in order.                                                           *)
EXTENDS GlobalStealThreadPool

Symmetry == Permutations(Tasks) \cup Permutations(Closers)
=============================================================================

----------------------------- MODULE MCStrategy -----------------------------
(* A small instance of Strategy: the owner, one thread that stops it, and  *)
(* two timer threads.                                                      *)
EXTENDS Strategy
====

------------------------ MODULE MCResourceVersionPool ------------------------
(* ResourceVersionPool is checked as it is; its constants are in the cfg.   *)
EXTENDS ResourceVersionPool
=============================================================================

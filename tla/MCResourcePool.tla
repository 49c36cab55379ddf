--------------------------- MODULE MCResourcePool ---------------------------
(* ResourcePool is checked as it is; its constants are in the cfg files.    *)
EXTENDS ResourcePool
=============================================================================

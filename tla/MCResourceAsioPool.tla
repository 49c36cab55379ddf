------------------------- MODULE MCResourceAsioPool -------------------------
(* ResourceAsioPool is checked as it is; its constants are in the cfg.      *)
EXTENDS ResourceAsioPool
=============================================================================

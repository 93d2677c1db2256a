------------------------------- MODULE MCPmm -------------------------------
(* Instances of Pmm for TLC.                                               *)
EXTENDS Pmm
=============================================================================

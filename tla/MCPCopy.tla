------------------------------- MODULE MCPCopy -------------------------------
(* Instances of PCopy for TLC.                                             *)
EXTENDS PCopy
=============================================================================

---------------------------- MODULE MCMRPProtocol ----------------------------
(* An instance of MRPProtocol for TLC: the values are in the .cfg file. *)
EXTENDS MRPProtocol
=============================================================================

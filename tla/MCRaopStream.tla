----------------------------- MODULE MCRaopStream -----------------------------
(* Instance of RaopStream: four numbers and a backlog of two, so that numbers *)
(* come back within a stream, and packets of two frames for a latency of three. *)
EXTENDS RaopStream
=============================================================================

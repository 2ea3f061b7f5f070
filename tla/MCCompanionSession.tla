------------------------ MODULE MCCompanionSession ------------------------
(* Instances of CompanionSession for TLC: the values are in the .cfg files. *)
EXTENDS CompanionSession, TLC

\* Calls of start() are interchangeable, and so are calls of stop().
Symmetry == Permutations(Starts) \cup Permutations(Stops)
=============================================================================

-------------------------- MODULE MCMRPPlayerState --------------------------
(* An instance of MRPPlayerState for TLC: two clients, the default player and *)
(* another one, and queues of up to two items.                                *)
EXTENDS MRPPlayerState, TLC

CONSTANTS b1, b2, i1, i2

MCBundles == {b1, b2}
MCItemIds == {i1, i2}

plain(i) == [id |-> i, available |-> FALSE, inline |-> FALSE]
withArtwork(i) == [id |-> i, available |-> TRUE, inline |-> FALSE]
inlined(i) == [id |-> i, available |-> TRUE, inline |-> TRUE]

MCQueues == {<<withArtwork(i1), inlined(i2)>>}
MCUpdates == {inlined(i1), plain(i2)}

Symmetry == Permutations(MCBundles)
=============================================================================

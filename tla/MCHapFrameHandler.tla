-------------------------- MODULE MCHapFrameHandler --------------------------
(* Streams made of frames of the given sizes, the last one maybe incomplete, *)
(* and the same streams with one header the code does not know.              *)
EXTENDS HapFrameHandler
CONSTANT Sizes

\* Frames start at the positions B; the last one has size `last'.
Cut(B, last) ==
  [p \in Position |->
     [size  |-> IF p \notin B THEN 0
                ELSE IF \E q \in B : q > p
                     THEN (CHOOSE q \in B : q > p /\ \A r \in B : r > p => q <= r) - p
                     ELSE last,
      known |-> p \in B]]

GoodStreams ==
  {s \in {Cut(B, last) : B \in SUBSET Position, last \in Sizes} :
     /\ WellFormed(s)
     /\ \A p \in Position : s[p].size \in {0} \cup Sizes
     /\ \E p \in Position : s[p].size # 0 /\ p + s[p].size >= Length}

\* One header of a type that is taken for a frame of another size, or refused.
ForeignStreams ==
  {[s EXCEPT ![p] = [size |-> n, known |-> FALSE]] :
     s \in GoodStreams, p \in {0, 2, 3}, n \in {0, 3}}

AllStreams == GoodStreams \cup ForeignStreams
=============================================================================

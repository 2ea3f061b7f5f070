------------------------ MODULE HapFrameHandler_proofs ------------------------
(***************************************************************************)
(* For every stream, buffer size and cut of the bytes into reads: the      *)
(* unread bytes stay in order; on a well-formed stream the parser stays    *)
(* on frame boundaries and the bounded buffer never overflows.             *)
(***************************************************************************)
EXTENDS HapFrameHandler, TLAPS

LEMMA InitType == Init => TypeOK /\ UnreadInOrder
  BY StreamAssumption DEF Init, TypeOK, UnreadInOrder, InOrder, Memory, Header, Garbage, Position

\* Copying n bytes behind unread bytes that end at w keeps types and order.
LEMMA CopiedInOrder ==
  ASSUME TypeOK, NEW n \in 1..MaxChunk, received + n <= Length,
         NEW size \in Nat, NEW r \in Nat, NEW w \in Nat, r <= w, w + n <= size,
         NEW m \in Memory(size), InOrder(m, r, w, received)
  PROVE  InOrder(Copied(m, w, n), r, w + n, received + n)
  <1>1. SUFFICES ASSUME NEW i \in r..(w + n - 1)
                 PROVE  Copied(m, w, n)[i] = (received + n) - ((w + n) - i)
    BY DEF InOrder
  <1>2. i \in DOMAIN m /\ received \in Nat /\ n \in Nat
    BY StreamAssumption DEF Memory, TypeOK
  <1>3. CASE i >= w
    <2>1. i \in w..(w + n - 1)
      BY <1>3, <1>2
    <2> QED BY <2>1, <1>2 DEF Copied
  <1>4. CASE i < w
    <2>1. m[i] = received - (w - i)
      BY <1>4 DEF InOrder
    <2>2. i \notin w..(w + n - 1)
      BY <1>4
    <2> QED BY <2>1, <2>2, <1>2 DEF Copied
  <1> QED BY <1>3, <1>4

LEMMA CopiedType ==
  ASSUME TypeOK, NEW n \in 1..MaxChunk, received + n <= Length,
         NEW size \in Nat, NEW w \in Nat, NEW m \in Memory(size)
  PROVE  Copied(m, w, n) \in Memory(size)
  <1>1. \A i \in w..(w + n - 1) : received + (i - w) \in Position
    BY StreamAssumption DEF TypeOK, Position
  <1> QED BY <1>1 DEF Copied, Memory

\* compact() and grow() keep the unread bytes and their order; only what lies
\* behind r is moved.
LEMMA MovedType ==
  ASSUME TypeOK, NEW r \in readPos..writePos, NEW size \in Nat
  PROVE  /\ Compacted(buffer, r, writePos) \in Memory(capacity)
         /\ Grown(buffer, r, writePos, size) \in Memory(size)
  <1>1. \A i \in Nat : i < writePos - r => r + i \in 0..(capacity - 1)
    BY StreamAssumption DEF TypeOK
  <1>2. Compacted(buffer, r, writePos) \in Memory(capacity)
    BY <1>1 DEF TypeOK, Compacted, Memory
  <1>3. Grown(buffer, r, writePos, size) \in Memory(size)
    BY <1>1 DEF TypeOK, Grown, Memory
  <1> QED BY <1>2, <1>3

LEMMA MovedInOrder ==
  ASSUME TypeOK, InOrder(buffer, readPos, writePos, received),
         NEW r \in readPos..writePos, NEW size \in Nat, writePos - r <= size
  PROVE  /\ InOrder(Compacted(buffer, r, writePos), 0, writePos - r, received)
         /\ InOrder(Grown(buffer, r, writePos, size), 0, writePos - r, received)
  <1>1. SUFFICES ASSUME NEW i \in 0..(writePos - r - 1)
        PROVE  /\ Compacted(buffer, r, writePos)[i] = received - ((writePos - r) - i)
               /\ Grown(buffer, r, writePos, size)[i] = received - ((writePos - r) - i)
    BY DEF InOrder
  <1>2. /\ r \in Nat /\ writePos \in Nat /\ capacity \in Nat /\ received \in Nat
        /\ writePos <= capacity /\ DOMAIN buffer = 0..(capacity - 1)
    BY StreamAssumption DEF TypeOK, Memory
  <1>3. /\ r + i \in readPos..(writePos - 1)
        /\ i \in 0..(capacity - 1) /\ i \in 0..(size - 1) /\ i < writePos - r
    BY <1>2 DEF TypeOK
  <1>4. buffer[r + i] = received - (writePos - (r + i))
    BY <1>3 DEF InOrder
  <1> QED BY <1>2, <1>3, <1>4 DEF Compacted, Grown

LEMMA Indices ==
  ASSUME TypeOK
  PROVE  /\ readPos \in Nat /\ writePos \in Nat /\ capacity \in Nat /\ received \in Nat
         /\ readPos <= writePos /\ writePos <= capacity /\ capacity <= MaxSize
         /\ available = writePos - readPos /\ available \in Nat /\ InitialSize <= capacity
         /\ Length \in Nat /\ MaxChunk \in Nat /\ MaxSize \in Nat /\ InitialSize \in Nat
         /\ buffer \in Memory(capacity) /\ received <= Length
  BY StreamAssumption DEF TypeOK, available

\* What process() takes from the buffer is there.
LEMMA FrameFits ==
  ASSUME TypeOK, FrameComplete
  PROVE  headerAt(buffer, readPos).size \in 1..available
  <1>1. readPos \in 0..(capacity - 1)
    BY Indices, StreamAssumption DEF FrameComplete
  <1> QED BY <1>1, Indices, StreamAssumption
          DEF FrameComplete, headerAt, TypeOK, Header, Memory

-----------------------------------------------------------------------------
LEMMA NextType == TypeOK /\ [Next]_vars => TypeOK'
  <1> SUFFICES ASSUME TypeOK, [Next]_vars PROVE TypeOK'
    OBVIOUS
  <1> USE Indices
  <1>1. ASSUME NEW n \in 1..MaxChunk, AppendFits(n) PROVE TypeOK'
    <2>1. received + n <= Length /\ writePos + n <= capacity
      BY <1>1 DEF AppendFits, pushed
    <2>2. Copied(buffer, writePos, n) \in Memory(capacity)
      BY <2>1, CopiedType
    <2>3. received' \in 0..Length /\ writePos' \in Nat
          /\ readPos' <= writePos' /\ writePos' <= capacity'
      BY <1>1, <2>1 DEF AppendFits, pushed
    <2> QED BY <1>1, <2>2, <2>3 DEF AppendFits, pushed, TypeOK
  <1>2. ASSUME NEW n \in 1..MaxChunk, AppendCompacts(n) PROVE TypeOK'
    <2>1. received + n <= Length /\ available + n <= capacity
      BY <1>2 DEF AppendCompacts, pushed
    <2>2. Compacted(buffer, readPos, writePos) \in Memory(capacity)
      BY MovedType
    <2>3. Copied(Compacted(buffer, readPos, writePos), available, n) \in Memory(capacity)
      BY <2>1, <2>2, CopiedType
    <2>4. received' \in 0..Length /\ writePos' \in Nat
          /\ readPos' <= writePos' /\ writePos' <= capacity'
      BY <1>2, <2>1 DEF AppendCompacts, pushed
    <2> QED BY <1>2, <2>3, <2>4 DEF AppendCompacts, pushed, TypeOK
  <1>3. ASSUME NEW n \in 1..MaxChunk, AppendGrows(n) PROVE TypeOK'
    <2>1. PICK size \in (available + n)..MaxSize :
             /\ capacity' = size
             /\ buffer' = Copied(Grown(buffer, readPos, writePos, size), available, n)
      BY <1>3 DEF AppendGrows
    <2>2. received + n <= Length /\ available + n > capacity
      BY <1>3 DEF AppendGrows, pushed
    <2>3. size \in Nat /\ size \in InitialSize..MaxSize
      BY <2>2
    <2>4. Grown(buffer, readPos, writePos, size) \in Memory(size)
      BY <2>3, MovedType
    <2>5. buffer' \in Memory(size)
      BY <2>1, <2>2, <2>3, <2>4, CopiedType
    <2>6. received' \in 0..Length /\ writePos' \in Nat
          /\ readPos' <= writePos' /\ writePos' <= capacity'
      BY <1>3, <2>1, <2>2, <2>3 DEF AppendGrows, pushed
    <2>7. capacity' \in InitialSize..MaxSize /\ buffer' \in Memory(capacity')
      BY <2>1, <2>3, <2>5
    <2>8. readPos' \in Nat /\ pc' \in {"idle", "scheduled", "process", "emit"}
          /\ stream' = stream /\ frames' = frames /\ lost' = lost /\ unparsed' = unparsed
      BY <1>3 DEF AppendGrows, pushed
    <2> QED BY <2>6, <2>7, <2>8 DEF TypeOK
  <1>4. ASSUME NEW n \in 1..MaxChunk, AppendOverflows(n) PROVE TypeOK'
    <2>1. Compacted(buffer, readPos, writePos) \in Memory(capacity)
      BY MovedType
    <2> QED BY <1>4, <2>1 DEF AppendOverflows, pushed, TypeOK
  <1>5. CASE ProcessFrame
    <2> DEFINE size == headerAt(buffer, readPos).size
    <2>1. size \in 1..available
      BY <1>5, FrameFits DEF ProcessFrame
    <2>2. consume(size) /\ UNCHANGED <<stream, received, capacity, lost>>
      BY <1>5 DEF ProcessFrame
    <2>3. /\ pc' \in {"idle", "scheduled", "process", "emit"}
          /\ frames' \in Seq(Slice)
          /\ unparsed' \in BOOLEAN
      <3> DEFINE parsed == headerAt(buffer', readPos)
      <3>1. \/ /\ parsed.size \in 1..size
               /\ frames' = Append(frames, [at |-> readPos, len |-> parsed.size])
               /\ pc' = pc /\ unparsed' = unparsed
            \/ pc' = "emit" /\ unparsed' = TRUE /\ frames' = frames
        BY <1>5 DEF ProcessFrame
      <3> HIDE DEF parsed
      <3>2. parsed.size \in 1..size => [at |-> readPos, len |-> parsed.size] \in Slice
        BY <2>1 DEF Slice
      <3>3. \A e \in Slice : Append(frames, e) \in Seq(Slice)
        BY DEF TypeOK
      <3> QED BY <3>1, <3>2, <3>3 DEF TypeOK
    <2> HIDE DEF size
    <2>4. Compacted(buffer, readPos + size, writePos) \in Memory(capacity)
      <3>1. readPos + size \in readPos..writePos
        BY <2>1
      <3> QED BY <3>1, MovedType
    <2>5. CASE 2 * (readPos + size) > capacity
      BY <2>1, <2>2, <2>3, <2>4, <2>5 DEF consume, TypeOK
    <2>6. CASE ~(2 * (readPos + size) > capacity)
      BY <2>1, <2>2, <2>3, <2>6 DEF consume, TypeOK
    <2> QED BY <2>5, <2>6
  <1>6. CASE processStart
    BY <1>6 DEF processStart, bufferVars, TypeOK
  <1>7. CASE processEnd
    BY <1>7 DEF processEnd, bufferVars, TypeOK
  <1>8. CASE EmitFrames
    BY <1>8 DEF EmitFrames, bufferVars, TypeOK
  <1>9. CASE UNCHANGED vars
    BY <1>9 DEF vars, bufferVars, TypeOK
  <1> QED BY <1>1, <1>2, <1>3, <1>4, <1>5, <1>6, <1>7, <1>8, <1>9 DEF Next, Done

\* Types: the indices never leave the memory, whose size stays within bounds.
THEOREM TypeCorrect == Spec => []TypeOK
  <1>1. Init => TypeOK
    BY InitType
  <1> QED BY <1>1, NextType, PTL DEF Spec

-----------------------------------------------------------------------------
LEMMA NextInOrder == TypeOK /\ UnreadInOrder /\ [Next]_vars => UnreadInOrder'
  <1> SUFFICES ASSUME TypeOK, ~lost, ~lost', InOrder(buffer, readPos, writePos, received),
                      [Next]_vars
               PROVE  InOrder(buffer', readPos', writePos', received')
    <2>1. ASSUME lost, [Next]_vars PROVE lost'
      BY <2>1 DEF Next, AppendFits, AppendCompacts, AppendGrows, AppendOverflows,
                  processStart, ProcessFrame, processEnd, EmitFrames, Done, vars
    <2>2. ASSUME TypeOK PROVE lost \in BOOLEAN
      BY <2>2 DEF TypeOK
    <2> QED BY <2>1, <2>2 DEF UnreadInOrder
  <1> USE Indices
  <1>1. ASSUME NEW n \in 1..MaxChunk, AppendFits(n)
        PROVE  InOrder(buffer', readPos', writePos', received')
    <2>1. received + n <= Length /\ writePos + n <= capacity
      BY <1>1 DEF AppendFits, pushed
    <2>2. InOrder(Copied(buffer, writePos, n), readPos, writePos + n, received + n)
      BY <2>1, CopiedInOrder
    <2> QED BY <1>1, <2>2 DEF AppendFits, pushed
  <1>2. ASSUME NEW n \in 1..MaxChunk, AppendCompacts(n)
        PROVE  InOrder(buffer', readPos', writePos', received')
    <2> DEFINE m == Compacted(buffer, readPos, writePos)
    <2>1. received + n <= Length /\ available + n <= capacity
      BY <1>2 DEF AppendCompacts, pushed
    <2>2. m \in Memory(capacity)
      BY MovedType
    <2>3. InOrder(m, 0, available, received)
      BY MovedInOrder
    <2>4. buffer' = Copied(m, available, n) /\ readPos' = 0
          /\ writePos' = available + n /\ received' = received + n
      BY <1>2 DEF AppendCompacts, pushed
    <2> HIDE DEF m
    <2>5. InOrder(Copied(m, available, n), 0, available + n, received + n)
      BY <2>1, <2>2, <2>3, CopiedInOrder
    <2> QED BY <2>4, <2>5
  <1>3. ASSUME NEW n \in 1..MaxChunk, AppendGrows(n)
        PROVE  InOrder(buffer', readPos', writePos', received')
    <2>1. PICK size \in (available + n)..MaxSize :
             buffer' = Copied(Grown(buffer, readPos, writePos, size), available, n)
      BY <1>3 DEF AppendGrows
    <2> DEFINE m == Grown(buffer, readPos, writePos, size)
    <2>2. /\ received + n <= Length /\ size \in Nat /\ available + n <= size
          /\ readPos' = 0 /\ writePos' = available + n /\ received' = received + n
      BY <1>3 DEF AppendGrows, pushed
    <2>3. m \in Memory(size)
      BY <2>2, MovedType
    <2>4. InOrder(m, 0, available, received)
      BY <2>2, MovedInOrder
    <2> HIDE DEF m
    <2>5. InOrder(Copied(m, available, n), 0, available + n, received + n)
      BY <2>2, <2>3, <2>4, CopiedInOrder
    <2> QED BY <2>1, <2>2, <2>5 DEF m
  <1>4. ASSUME NEW n \in 1..MaxChunk, AppendOverflows(n)
        PROVE  InOrder(buffer', readPos', writePos', received')
    BY <1>4 DEF AppendOverflows
  <1>5. CASE ProcessFrame
    <2> DEFINE size == headerAt(buffer, readPos).size
    <2>1. size \in 1..available
      BY <1>5, FrameFits DEF ProcessFrame
    <2>2. consume(size) /\ received' = received
      BY <1>5 DEF ProcessFrame
    <2> HIDE DEF size
    <2>3. CASE 2 * (readPos + size) > capacity
      <3>1. readPos + size \in readPos..writePos
            /\ writePos - (readPos + size) = available - size
        BY <2>1
      <3>2. InOrder(Compacted(buffer, readPos + size, writePos), 0,
                    writePos - (readPos + size), received)
        BY <3>1, MovedInOrder
      <3> QED BY <2>2, <2>3, <3>1, <3>2 DEF consume
    <2>4. CASE ~(2 * (readPos + size) > capacity)
      BY <2>1, <2>2, <2>4 DEF consume, InOrder
    <2> QED BY <2>3, <2>4
  <1>6. CASE processStart \/ processEnd \/ EmitFrames \/ UNCHANGED vars
    BY <1>6 DEF processStart, processEnd, EmitFrames, vars, bufferVars
  <1> QED BY <1>1, <1>2, <1>3, <1>4, <1>5, <1>6 DEF Next, Done

\* The unread bytes are those of the stream, in order: StreamBuffer is a FIFO.
THEOREM UnreadStaysInOrder == Spec => []UnreadInOrder
  <1>1. Init => TypeOK /\ UnreadInOrder
    BY InitType
  <1> QED BY <1>1, NextType, NextInOrder, PTL DEF Spec

-----------------------------------------------------------------------------
(* On a well-formed stream process() stops for one of two reasons: a frame   *)
(* is incomplete, or parseHAPFrame failed, and then compact() has just run   *)
(* because more than half of the memory was read.  Either bounds what stays. *)

InSync ==
  /\ available <= received
  /\ received - available < Length => stream[received - available].size # 0

Bounded ==
  pc \in {"idle", "emit"} => available < MaxFrame \/ 2 * available < capacity

IInv ==
  /\ TypeOK /\ stream \in Streams
  /\ ~lost /\ InOrder(buffer, readPos, writePos, received)
  /\ InSync /\ Bounded

AllWellFormed == Roomy /\ \A s \in Streams : WellFormed(s)

\* The header of the next frame, where there is an unread byte.
LEMMA NextHeader ==
  ASSUME AllWellFormed, IInv, available > 0
  PROVE  LET h == headerAt(buffer, readPos) IN
         /\ received - available \in Position
         /\ h = stream[received - available]
         /\ h.known /\ h.size \in HeaderSize..MaxFrame
         /\ received - available + h.size < Length =>
               stream[received - available + h.size].size # 0
  <1> USE Indices
  <1>1. received - available \in Position
    BY DEF IInv, InSync, Position
  <1>2. buffer[readPos] = received - available
    BY DEF IInv, InOrder
  <1>3. stream[received - available].size # 0
    BY <1>1 DEF IInv, InSync, Position
  <1>4. WellFormed(stream)
    BY DEF AllWellFormed, IInv
  <1> QED BY <1>1, <1>2, <1>3, <1>4 DEF WellFormed, headerAt

LEMMA InitIInv == ASSUME AllWellFormed PROVE Init => IInv
  <1> SUFFICES ASSUME Init PROVE IInv
    OBVIOUS
  <1>1. TypeOK /\ UnreadInOrder
    BY InitType
  <1>2. WellFormed(stream) /\ stream \in Streams
    BY DEF Init, AllWellFormed
  <1>3. InSync
    BY <1>2, StreamAssumption DEF Init, InSync, available, WellFormed
  <1>4. Bounded
    BY StreamAssumption DEF Init, Bounded, available
  <1> QED BY <1>1, <1>2, <1>3, <1>4 DEF IInv, UnreadInOrder, Init

LEMMA NextIInv == ASSUME AllWellFormed PROVE IInv /\ [Next]_vars => IInv'
  <1> SUFFICES ASSUME IInv, [Next]_vars PROVE IInv'
    OBVIOUS
  <1>0. TypeOK /\ UnreadInOrder
    BY DEF IInv, UnreadInOrder
  <1> USE Indices
  <1>1. TypeOK' /\ UnreadInOrder'
    BY <1>0, NextType, NextInOrder
  <1>2. stream' = stream
    BY DEF Next, AppendFits, AppendCompacts, AppendGrows, AppendOverflows, pushed,
           processStart, ProcessFrame, processEnd, EmitFrames, Done, vars
  <1>3. ASSUME NEW n \in 1..MaxChunk,
               AppendFits(n) \/ AppendCompacts(n) \/ AppendGrows(n)
        PROVE  ~lost' /\ InSync' /\ Bounded'
    <2>1. /\ available' = available + n /\ received' = received + n
          /\ pc' = "scheduled" /\ lost' = lost
      BY <1>0, <1>3 DEF AppendFits, AppendCompacts, AppendGrows, pushed, available
    <2> QED BY <2>1, <1>0, <1>2 DEF IInv, InSync, Bounded
  <1>4. ASSUME NEW n \in 1..MaxChunk, AppendOverflows(n) PROVE FALSE
    <2>1. available < MaxFrame \/ 2 * available < capacity
      BY <1>4 DEF AppendOverflows, pushed, IInv, Bounded
    <2>2. MaxFrame + MaxChunk <= MaxSize /\ 2 * MaxChunk <= MaxSize
      BY DEF AllWellFormed, Roomy
    <2>3. available + n > MaxSize
      BY <1>4 DEF AppendOverflows
    <2> QED BY <1>0, <2>1, <2>2, <2>3, StreamAssumption
  <1>5. ASSUME ProcessFrame PROVE ~lost' /\ InSync' /\ Bounded'
    <2> DEFINE size == headerAt(buffer, readPos).size
    <2>1. size \in 1..available
      BY <1>0, <1>5, FrameFits DEF ProcessFrame
    <2>2. /\ size = stream[received - available].size
          /\ headerAt(buffer, readPos).known
          /\ received - available + size < Length =>
                stream[received - available + size].size # 0
      BY <2>1, <1>0, NextHeader
    <2>3. consume(size) /\ UNCHANGED <<received, capacity, lost>>
      BY <1>5 DEF ProcessFrame
    <2>4. pc' = pc \/ buffer' # buffer
      BY <1>5, <2>1, <2>2 DEF ProcessFrame
    <2>5. pc = "process"
      BY <1>5 DEF ProcessFrame
    <2> HIDE DEF size
    <2>6. available' = available - size
      BY <2>1, <2>3, <1>0 DEF consume, available
    <2>7. InSync'
      BY <2>1, <2>2, <2>3, <2>6, <1>0, <1>2 DEF IInv, InSync
    <2>8. Bounded'
      BY <2>1, <2>3, <2>4, <2>5, <2>6, <1>0 DEF consume, Bounded
    <2> QED BY <2>3, <2>7, <2>8 DEF IInv
  <1>6. ASSUME processEnd PROVE ~lost' /\ InSync' /\ Bounded'
    <2>1. available < MaxFrame
      <3>1. CASE available > 0
        <4> DEFINE size == headerAt(buffer, readPos).size
        <4>1. size \in HeaderSize..MaxFrame
          BY <3>1, <1>0, NextHeader
        <4>2. available < HeaderSize \/ size = 0 \/ ~(size <= available)
          BY <1>0, <1>6, StreamAssumption DEF processEnd, FrameComplete
        <4> HIDE DEF size
        <4> QED BY <4>1, <4>2, <1>0, StreamAssumption
      <3>2. CASE available = 0
        <4>1. WellFormed(stream)
          BY DEF IInv, AllWellFormed
        <4>2. 0 \in Position
          BY StreamAssumption DEF Position
        <4> QED BY <3>2, <4>1, <4>2, StreamAssumption DEF WellFormed
      <3> QED BY <3>1, <3>2, <1>0
    <2>2. available' = available /\ received' = received /\ lost' = lost
      BY <1>6 DEF processEnd, bufferVars, available
    <2> QED BY <2>1, <2>2, <1>2 DEF IInv, InSync, Bounded
  <1>7. ASSUME processStart \/ EmitFrames \/ UNCHANGED vars PROVE ~lost' /\ InSync' /\ Bounded'
    <2>1. /\ available' = available /\ received' = received /\ capacity' = capacity
          /\ lost' = lost
      BY <1>7 DEF processStart, EmitFrames, vars, bufferVars, available
    <2>2. pc' \in {"idle", "emit"} => pc \in {"idle", "emit"}
      BY <1>7 DEF processStart, EmitFrames, vars
    <2> QED BY <2>1, <2>2, <1>2 DEF IInv, InSync, Bounded
  <1>8. ~lost' /\ InSync' /\ Bounded'
    BY <1>3, <1>4, <1>5, <1>6, <1>7 DEF Next, Done, IInv
  <1> QED BY <1>1, <1>2, <1>8 DEF IInv, UnreadInOrder

\* However the stream is cut, the parser is always at the start of a frame.
THEOREM StaysSynchronised ==
  ASSUME AllWellFormed PROVE Spec => []Synchronised
  <1>1. IInv => Synchronised
    BY Indices DEF IInv, InSync, Synchronised, Position
  <1> QED BY <1>1, InitIInv, NextIInv, PTL DEF Spec

\* The bounded buffer never drops a byte.
THEOREM NothingLost ==
  ASSUME AllWellFormed PROVE Spec => []NoByteLost
  <1>1. IInv => NoByteLost
    BY DEF IInv, NoByteLost
  <1> QED BY <1>1, InitIInv, NextIInv, PTL DEF Spec
=============================================================================

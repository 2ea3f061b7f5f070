--------------------------- MODULE HapFrameHandler ---------------------------
(***************************************************************************)
(* The receive path of the Companion channel: StreamBuffer collects the    *)
(* bytes of the socket, HapFrameHandler cuts them into frames.             *)
(*                                                                         *)
(* A byte is its position in the stream of the device, so that the memory  *)
(* shows what a slice of it really holds.  stream[p] is what the code      *)
(* reads in a header at position p: the size of the frame (header          *)
(* included), 0 when detectHAPFrame sees no frame there, and whether its   *)
(* type is one the code knows.  Slices stay views of the memory, as        *)
(* Buffer.subarray makes them: compaction moves bytes under them.          *)
(*                                                                         *)
(* push, process and the delivery of the frames run in one go of the event *)
(* loop (queueMicrotask); pc orders them.  Only BufferPool's recycling is  *)
(* left out: memory it hands out holds old bytes, here Garbage.            *)
(***************************************************************************)
EXTENDS Integers, Sequences

CONSTANTS
  Length,      \* bytes the device sends
  HeaderSize,  \* bytes of a frame header
  MaxFrame,    \* largest frame
  MaxChunk,    \* most bytes one read of the socket yields
  InitialSize, \* StreamBuffer's initialSize
  MaxSize,     \* StreamBuffer's maxSize
  Streams      \* the streams considered

Position == 0..(Length - 1)
Garbage  == Length

Header == [size : Nat, known : BOOLEAN]

\* A device that keeps to the format: frames of known types, without gaps.
WellFormed(s) ==
  /\ s[0].size # 0
  /\ \A p \in Position : s[p].size # 0 =>
        /\ s[p].known
        /\ s[p].size \in HeaderSize..MaxFrame
        /\ p + s[p].size < Length => s[p + s[p].size].size # 0

\* The buffer holds a frame and a read, and twice a read.
Roomy == MaxFrame + MaxChunk <= MaxSize /\ 2 * MaxChunk <= MaxSize

ASSUME StreamAssumption ==
  /\ Length \in Nat \ {0} /\ HeaderSize \in Nat \ {0}
  /\ MaxFrame \in Nat /\ MaxChunk \in Nat \ {0}
  /\ InitialSize \in Nat \ {0} /\ MaxSize \in Nat /\ InitialSize <= MaxSize
  /\ Streams \subseteq [Position -> Header]

VARIABLES
  stream,     \* what the device sends
  received,   \* bytes of it that arrived
  buffer, capacity, readPos, writePos,    \* the StreamBuffer
  pc,         \* "idle", "scheduled" (parse), "process", "emit"
  frames,     \* slices of buffer: frames parsed and not yet delivered
  delivered,  \* contents of the frames last delivered, as listeners see them
  lost,       \* an append threw: its bytes are gone
  unparsed    \* parseHAPFrame refused a frame detectHAPFrame had accepted

bufferVars == <<buffer, capacity, readPos, writePos>>
vars == <<stream, received, bufferVars, pc, frames, delivered, lost, unparsed>>

available == writePos - readPos

Memory(size) == [0..(size - 1) -> Position \cup {Garbage}]

Slice == [at : Nat, len : Nat]

TypeOK ==
  /\ stream \in [Position -> Header]
  /\ received \in 0..Length
  /\ capacity \in InitialSize..MaxSize
  /\ buffer \in Memory(capacity)
  /\ readPos \in Nat /\ writePos \in Nat
  /\ readPos <= writePos /\ writePos <= capacity
  /\ pc \in {"idle", "scheduled", "process", "emit"}
  /\ frames \in Seq(Slice)
  /\ lost \in BOOLEAN /\ unparsed \in BOOLEAN

Init ==
  /\ stream \in Streams
  /\ received = 0
  /\ capacity = InitialSize
  /\ buffer = [i \in 0..(InitialSize - 1) |-> Garbage]
  /\ readPos = 0 /\ writePos = 0
  /\ pc = "idle"
  /\ frames = <<>> /\ delivered = <<>>
  /\ lost = FALSE /\ unparsed = FALSE

-----------------------------------------------------------------------------
(* Memory *)

\* The bytes from position r up to w move to the front of m.
Compacted(m, r, w) ==
  [i \in DOMAIN m |-> IF i < w - r THEN m[r + i] ELSE m[i]]

\* The bytes are taken from the start of the memory, not from readPos on.
Grown_FromStart(m, r, w, size) ==
  [i \in 0..(size - 1) |-> IF i < w - r THEN m[i] ELSE Garbage]

\* The same bytes at the front of new memory of `size' bytes.
Grown(m, r, w, size) ==
  [i \in 0..(size - 1) |-> IF i < w - r THEN m[r + i] ELSE Garbage]

\* The next n bytes of the stream are copied to m from position w on.
Copied(m, w, n) ==
  [i \in DOMAIN m |-> IF i \in w..(w + n - 1) THEN received + (i - w) ELSE m[i]]

\* grow() doubles the capacity until `need' bytes fit, and stops at MaxSize.
DoublesTo(size, need) ==
  \E k \in 1..need :
     /\ capacity * 2^(k - 1) < need
     /\ size = IF capacity * 2^k < MaxSize THEN capacity * 2^k ELSE MaxSize

-----------------------------------------------------------------------------
(* push: StreamBuffer.append, then a microtask for process() is queued *)

pushed(n) ==
  /\ pc = "idle" /\ received + n <= Length
  /\ received' = received + n
  /\ UNCHANGED <<stream, frames, delivered, unparsed>>

AppendFits_NoCheck(n) ==
  /\ pushed(n)
  /\ buffer' = Copied(buffer, writePos, n)
  /\ writePos' = writePos + n
  /\ pc' = "scheduled"
  /\ UNCHANGED <<capacity, readPos, lost>>

AppendFits(n) ==
  /\ pushed(n)
  /\ writePos + n <= capacity
  /\ buffer' = Copied(buffer, writePos, n)
  /\ writePos' = writePos + n
  /\ pc' = "scheduled"
  /\ UNCHANGED <<capacity, readPos, lost>>

AppendCompacts(n) ==
  /\ pushed(n)
  /\ writePos + n > capacity /\ available + n <= capacity
  /\ buffer' = Copied(Compacted(buffer, readPos, writePos), available, n)
  /\ readPos' = 0 /\ writePos' = available + n
  /\ pc' = "scheduled"
  /\ UNCHANGED <<capacity, lost>>

\* compact() has run, if it could, before grow() moves the rest.
AppendGrows(n) ==
  /\ pushed(n)
  /\ available + n > capacity
  /\ \E size \in (available + n)..MaxSize :
        /\ DoublesTo(size, available + n)
        /\ capacity' = size
        /\ buffer' = Copied(Grown(buffer, readPos, writePos, size), available, n)
  /\ readPos' = 0 /\ writePos' = available + n
  /\ pc' = "scheduled"
  /\ UNCHANGED lost

\* The length checked is not computed again after compact().
AppendOverflows_StaleLength(n) ==
  /\ pushed(n)
  /\ writePos + n > capacity /\ writePos + n > MaxSize
  /\ buffer' = Compacted(buffer, readPos, writePos)
  /\ readPos' = 0 /\ writePos' = available
  /\ lost' = TRUE
  /\ UNCHANGED <<capacity, pc>>

\* grow() throws out of push(), after compact().
AppendOverflows(n) ==
  /\ pushed(n)
  /\ available + n > capacity /\ available + n > MaxSize
  /\ buffer' = Compacted(buffer, readPos, writePos)
  /\ readPos' = 0 /\ writePos' = available
  /\ lost' = TRUE
  /\ UNCHANGED <<capacity, pc>>

-----------------------------------------------------------------------------
(* process: one iteration of its loop, or its end *)

\* What the header at memory position i says; old bytes make no header.
headerAt(m, i) ==
  IF m[i] \in Position THEN stream[m[i]] ELSE [size |-> 0, known |-> FALSE]

\* Loop condition and breaks: a whole frame of a detectable header is there.
FrameComplete ==
  /\ available >= HeaderSize
  /\ headerAt(buffer, readPos).size # 0
  /\ headerAt(buffer, readPos).size <= available

consume_KeepsWritePos(size) ==
  IF 2 * (readPos + size) > capacity
  THEN /\ buffer' = Compacted(buffer, readPos + size, writePos)
       /\ readPos' = 0
       /\ UNCHANGED writePos
  ELSE /\ readPos' = readPos + size
       /\ UNCHANGED <<buffer, writePos>>

\* consume(size): the slice is a view, and compact() runs before it is used.
consume(size) ==
  IF 2 * (readPos + size) > capacity
  THEN /\ buffer' = Compacted(buffer, readPos + size, writePos)
       /\ readPos' = 0
       /\ writePos' = available - size
  ELSE /\ readPos' = readPos + size
       /\ UNCHANGED <<buffer, writePos>>

ProcessFrame_SkipsShort ==
  /\ pc = "process" /\ available >= HeaderSize
  /\ headerAt(buffer, readPos).size # 0
  /\ LET announced == headerAt(buffer, readPos).size
         size == IF announced <= available THEN announced ELSE available
     IN  /\ consume(size)
         /\ frames' = Append(frames, [at |-> readPos, len |-> size])
  /\ UNCHANGED <<stream, received, capacity, delivered, lost, pc, unparsed>>

\* parseHAPFrame reads the header again, from the slice as it is by then.
ProcessFrame ==
  /\ pc = "process" /\ FrameComplete
  /\ LET size   == headerAt(buffer, readPos).size
         parsed == headerAt(buffer', readPos)
     IN  /\ consume(size)
         /\ IF parsed.known /\ parsed.size \in 1..size
            THEN /\ frames' = Append(frames, [at |-> readPos, len |-> parsed.size])
                 /\ UNCHANGED <<pc, unparsed>>
            ELSE /\ pc' = "emit"
                 /\ unparsed' = TRUE
                 /\ UNCHANGED frames
  /\ UNCHANGED <<stream, received, capacity, delivered, lost>>

processStart ==
  /\ pc = "scheduled"
  /\ pc' = "process"
  /\ UNCHANGED <<stream, received, bufferVars, frames, delivered, lost, unparsed>>

processEnd ==
  /\ pc = "process" /\ ~FrameComplete
  /\ pc' = "emit"
  /\ UNCHANGED <<stream, received, bufferVars, frames, delivered, lost, unparsed>>

\* The microtasks that deliver the frames run after process() is over.
EmitFrames ==
  /\ pc = "emit"
  /\ delivered' = [k \in DOMAIN frames |->
                     [i \in 1..frames[k].len |-> buffer[frames[k].at + i - 1]]]
  /\ frames' = <<>>
  /\ pc' = "idle"
  /\ UNCHANGED <<stream, received, bufferVars, lost, unparsed>>

Done == pc = "idle" /\ received = Length /\ UNCHANGED vars

Next ==
  \/ \E n \in 1..MaxChunk :
        AppendFits(n) \/ AppendCompacts(n) \/ AppendGrows(n) \/ AppendOverflows(n)
  \/ processStart \/ ProcessFrame \/ processEnd \/ EmitFrames
  \/ Done

Spec == Init /\ [][Next]_vars

-----------------------------------------------------------------------------
(* Properties *)

\* m holds, from r up to w, the bytes of the stream up to position `end'.
InOrder(m, r, w, end) == \A i \in r..(w - 1) : m[i] = end - (w - i)

\* However the bytes are cut into reads, and whatever grows and moves: the
\* unread part of the memory is the last part of what was received, in order,
\* as long as no append threw (append, consume, grow, compact).
UnreadInOrder == ~lost => InOrder(buffer, readPos, writePos, received)

\* On a well-formed stream the next byte to be read starts a frame: no frame
\* is cut short, skipped in part or read from the middle (process).
Synchronised ==
  WellFormed(stream) /\ available > 0 =>
     /\ received - available \in Position
     /\ stream[received - available].size # 0

\* The buffer never overflows on a well-formed stream, though it is bounded:
\* what process() leaves behind is part of one frame.
NoByteLost == WellFormed(stream) => ~lost

\* Every frame that was detected parses, and reaches its listeners as the
\* device sent it.
FramesIntact ==
  /\ WellFormed(stream) => ~unparsed
  /\ \A k \in DOMAIN delivered :
       \A i \in DOMAIN delivered[k] :
          delivered[k][i] = delivered[k][1] + i - 1
=============================================================================

----------------------- MODULE BunTCPTransport_proofs -----------------------
(***************************************************************************)
(* Proofs about BunTCPTransport, for any number of sockets, calls of       *)
(* connect() and send(), and pieces of a message.                          *)
(***************************************************************************)
EXTENDS BunTCPTransport, SequenceTheorems, TLAPS

USE TransportAssumption
USE DEF timerVars, socketVars, sendVars, vars

Connection == {"disconnected", "connecting", "connected", "error"}
Status     == {"none", "opening", "open", "closing", "closed"}
Settlement == {"none", "pending", "resolved", "rejected"}

\* The types of what connecting and disconnecting change.
ConnectionTypes ==
  /\ state \in Connection
  /\ socket \in 0..MaxSockets
  /\ reconnectAttempts \in Nat /\ leaked \in Nat
  /\ status \in [Sockets -> Status]
  /\ connectTimer \subseteq Sockets
  /\ promise \in [Sockets -> Settlement]

\* The types of what sending changes.
SendTypes ==
  /\ send \in [Sends -> [pc : {"none", "drain", "ready", "done", "failed"},
                         offset : 0..Parts]]
  /\ waiting \in Seq(Sends) /\ ready \in Seq(Sends)
  /\ wire \in [Sockets -> Seq(Piece)]

LEMMA TypesTogether ==
  TypeOK <=> /\ ConnectionTypes /\ SendTypes
             /\ reconnectTimer \in BOOLEAN /\ connects \in 0..MaxConnects
BY DEF TypeOK, ConnectionTypes, SendTypes, Connection, Status, Settlement

-----------------------------------------------------------------------------
(* Sending *)

\* What a turn of the loop of send() may do: fail, or append pieces of the
\* message to the socket in use, an open one, and end or wait.
LEMMA WriteEffect ==
  ASSUME TypeOK, NEW s \in Sends, writeSome(s)
  PROVE  \/ send' = [send EXCEPT ![s].pc = "failed"] /\ UNCHANGED <<waiting, wire>>
         \/ /\ socket \in Sockets
            /\ \E k \in 0..(Parts - send[s].offset) :
                  /\ wire' = [wire EXCEPT ![socket] =
                       @ \o [i \in 1..k |->
                               [send |-> s, part |-> send[s].offset + i]]]
                  /\ \E pc \in {"done", "drain"} :
                       /\ pc = "done" => send[s].offset + k = Parts
                       /\ send' = [send EXCEPT ![s] =
                                     [pc |-> pc, offset |-> send[s].offset + k]]
                  /\ waiting' \in {waiting, Append(waiting, s)}
<1>1. CASE socket = 0 \/ (socket # 0 /\ status[socket] # "open")
  BY <1>1 DEF writeSome, fail
<1>2. CASE ~(socket = 0 \/ (socket # 0 /\ status[socket] # "open"))
  <2>1. socket \in Sockets
    BY <1>2 DEF TypeOK, Sockets
  <2>2. PICK k \in 0..(Parts - send[s].offset) :
          /\ wire' = [wire EXCEPT ![socket] =
               @ \o [i \in 1..k |-> [send |-> s, part |-> send[s].offset + i]]]
          /\ IF send[s].offset + k = Parts
             THEN /\ send' = [send EXCEPT ![s] = [pc |-> "done", offset |-> Parts]]
                  /\ UNCHANGED waiting
             ELSE /\ send' = [send EXCEPT ![s] =
                                [pc |-> "drain", offset |-> send[s].offset + k]]
                  /\ waiting' = Append(waiting, s)
    BY <1>2 DEF writeSome
  <2>3. CASE send[s].offset + k = Parts
    BY <2>1, <2>2, <2>3
  <2>4. CASE send[s].offset + k # Parts
    BY <2>1, <2>2, <2>4
  <2> QED  BY <2>3, <2>4
<1> QED  BY <1>1, <1>2

LEMMA WriteTypes ==
  ASSUME TypeOK, NEW s \in Sends, writeSome(s)
  PROVE  /\ send' \in [Sends -> [pc : {"none", "drain", "ready", "done", "failed"},
                                 offset : 0..Parts]]
         /\ waiting' \in Seq(Sends)
         /\ wire' \in [Sockets -> Seq(Piece)]
<1>1. CASE send' = [send EXCEPT ![s].pc = "failed"] /\ UNCHANGED <<waiting, wire>>
  BY <1>1 DEF TypeOK
<1>2. ASSUME socket \in Sockets, NEW k \in 0..(Parts - send[s].offset),
             wire' = [wire EXCEPT ![socket] =
               @ \o [i \in 1..k |-> [send |-> s, part |-> send[s].offset + i]]],
             NEW pc \in {"done", "drain"},
             send' = [send EXCEPT ![s] = [pc |-> pc, offset |-> send[s].offset + k]],
             waiting' \in {waiting, Append(waiting, s)}
      PROVE  /\ send' \in [Sends -> [pc : {"none", "drain", "ready", "done", "failed"},
                                     offset : 0..Parts]]
             /\ waiting' \in Seq(Sends)
             /\ wire' \in [Sockets -> Seq(Piece)]
  <2>1. send[s].offset \in 0..Parts /\ Parts \in Nat
    BY DEF TypeOK
  <2>2. send[s].offset + k \in 0..Parts
    BY <2>1, <1>2
  <2>3. send' \in [Sends -> [pc : {"none", "drain", "ready", "done", "failed"},
                             offset : 0..Parts]]
    BY <1>2, <2>2 DEF TypeOK
  <2>4. [i \in 1..k |-> [send |-> s, part |-> send[s].offset + i]] \in Seq(Piece)
    <3>1. k \in Nat
      BY <2>1, <1>2
    <3>2. \A i \in 1..k : [send |-> s, part |-> send[s].offset + i] \in Piece
      BY <2>1, <1>2 DEF Piece
    <3> QED  BY <3>1, <3>2
  <2>5. wire' \in [Sockets -> Seq(Piece)]
    BY <1>2, <2>4 DEF TypeOK
  <2>6. waiting' \in Seq(Sends)
    <3>1. waiting \in Seq(Sends) /\ Append(waiting, s) \in Seq(Sends)
      BY DEF TypeOK
    <3> QED  BY <1>2, <3>1
  <2> QED  BY <2>3, <2>5, <2>6
<1> QED  BY <1>1, <1>2, WriteEffect

-----------------------------------------------------------------------------
(* Types *)

\* A timer is set and counted.
LEMMA RejectTypes ==
  ASSUME TypeOK, NEW n \in Sockets, rejected(n)
  PROVE  /\ promise' \in [Sockets -> Settlement] /\ state' \in Connection
         /\ reconnectAttempts' \in Nat /\ leaked' \in Nat
         /\ reconnectTimer' \in BOOLEAN
<1>1. reconnectTimer' \in BOOLEAN
  BY DEF TypeOK, rejected, scheduleReconnect
<1>2. promise' \in [Sockets -> Settlement] /\ state' \in Connection
  BY DEF TypeOK, rejected, Settlement, Connection
<1>3. leaked' \in {leaked, leaked + 1}
  BY DEF rejected, scheduleReconnect
<1>4. reconnectAttempts' \in {reconnectAttempts, reconnectAttempts + 1}
  BY DEF rejected, scheduleReconnect
<1> QED  BY <1>1, <1>2, <1>3, <1>4 DEF TypeOK

LEMMA EstablishTypes ==
  ASSUME TypeOK, establishConnection
  PROVE  /\ status' \in [Sockets -> Status] /\ connectTimer' \subseteq Sockets
         /\ promise' \in [Sockets -> Settlement] /\ state' = "connecting"
BY DEF TypeOK, establishConnection, Status, Settlement

\* Every variable keeps its type (all of BunTCPTransport).
THEOREM TypeCorrect == Spec => []TypeOK
<1>1. Init => TypeOK
  <2> SUFFICES ASSUME Init PROVE TypeOK
    OBVIOUS
  <2>1. send \in [Sends -> [pc : {"none", "drain", "ready", "done", "failed"},
                            offset : 0..Parts]]
    BY DEF Init
  <2>2. /\ waiting \in Seq(Sends) /\ ready \in Seq(Sends)
        /\ wire \in [Sockets -> Seq(Piece)]
    BY DEF Init
  <2>3. ConnectionTypes
    BY DEF Init, ConnectionTypes, Connection, Status, Settlement
  <2>4. reconnectTimer \in BOOLEAN
    BY DEF Init
  <2>5. connects \in 0..MaxConnects
    BY DEF Init
  <2> QED  BY <2>1, <2>2, <2>3, <2>4, <2>5, TypesTogether DEF SendTypes
<1>2. TypeOK /\ [Next]_vars => TypeOK'
  <2> SUFFICES ASSUME TypeOK, [Next]_vars
      PROVE  /\ ConnectionTypes' /\ SendTypes'
             /\ reconnectTimer' \in BOOLEAN /\ connects' \in 0..MaxConnects
    BY TypesTogether DEF TypeOK, ConnectionTypes, SendTypes, Connection, Status,
                         Settlement
  <2> USE DEF Connection, Status, Settlement
  <2>1. ASSUME connect
        PROVE  /\ ConnectionTypes' /\ SendTypes'
               /\ reconnectTimer' \in BOOLEAN /\ connects' \in 0..MaxConnects
    BY <2>1, EstablishTypes DEF connect, TypeOK, ConnectionTypes, SendTypes
  <2>2. ASSUME ReconnectTimer
        PROVE  /\ ConnectionTypes' /\ SendTypes'
               /\ reconnectTimer' \in BOOLEAN /\ connects' \in 0..MaxConnects
    <3>1. reconnectTimer' \in BOOLEAN
      BY <2>2 DEF ReconnectTimer, TypeOK
    <3>2. leaked' \in Nat
      BY <2>2 DEF ReconnectTimer, TypeOK
    <3> QED  BY <2>2, <3>1, <3>2, EstablishTypes
                DEF ReconnectTimer, TypeOK, ConnectionTypes, SendTypes
  <2>3. ASSUME disconnect
        PROVE  /\ ConnectionTypes' /\ SendTypes'
               /\ reconnectTimer' \in BOOLEAN /\ connects' \in 0..MaxConnects
    <3>1. reconnectTimer' \in BOOLEAN
      BY <2>3 DEF disconnect
    <3>2. ConnectionTypes'
      BY <2>3 DEF disconnect, TypeOK, ConnectionTypes
    <3> QED  BY <2>3, <3>1, <3>2 DEF disconnect, TypeOK, SendTypes
  <2>4. ASSUME NEW n \in Sockets, ConnectTimeout(n)
        PROVE  /\ ConnectionTypes' /\ SendTypes'
               /\ reconnectTimer' \in BOOLEAN /\ connects' \in 0..MaxConnects
    BY <2>4, RejectTypes DEF ConnectTimeout, TypeOK, ConnectionTypes, SendTypes
  <2>5. ASSUME NEW n \in Sockets, ConnectFails(n)
        PROVE  /\ ConnectionTypes' /\ SendTypes'
               /\ reconnectTimer' \in BOOLEAN /\ connects' \in 0..MaxConnects
    BY <2>5, RejectTypes DEF ConnectFails, TypeOK, ConnectionTypes, SendTypes
  <2>6. ASSUME NEW n \in Sockets, SocketOpen(n)
        PROVE  /\ ConnectionTypes' /\ SendTypes'
               /\ reconnectTimer' \in BOOLEAN /\ connects' \in 0..MaxConnects
    BY <2>6 DEF SocketOpen, TypeOK, ConnectionTypes, SendTypes, Sockets
  <2>7. ASSUME NEW n \in Sockets, SocketError(n)
        PROVE  /\ ConnectionTypes' /\ SendTypes'
               /\ reconnectTimer' \in BOOLEAN /\ connects' \in 0..MaxConnects
    BY <2>7 DEF SocketError, TypeOK, ConnectionTypes, SendTypes
  <2>8. ASSUME NEW n \in Sockets, SocketClose(n)
        PROVE  /\ ConnectionTypes' /\ SendTypes'
               /\ reconnectTimer' \in BOOLEAN /\ connects' \in 0..MaxConnects
    <3>1. reconnectTimer' \in BOOLEAN
      BY <2>8 DEF SocketClose, TypeOK
    <3> QED  BY <2>8, <3>1 DEF SocketClose, TypeOK, ConnectionTypes, SendTypes
  <2>9. ASSUME NEW n \in Sockets, Drain(n)
        PROVE  /\ ConnectionTypes' /\ SendTypes'
               /\ reconnectTimer' \in BOOLEAN /\ connects' \in 0..MaxConnects
    <3>1. send' \in [Sends -> [pc : {"none", "drain", "ready", "done", "failed"},
                               offset : 0..Parts]]
      BY <2>9 DEF Drain, TypeOK
    <3> QED  BY <2>9, <3>1 DEF Drain, TypeOK, ConnectionTypes, SendTypes
  <2>10. ASSUME NEW s \in Sends, Send(s)
         PROVE  /\ ConnectionTypes' /\ SendTypes'
                /\ reconnectTimer' \in BOOLEAN /\ connects' \in 0..MaxConnects
    <3>1. SendTypes'
      <4>1. CASE state = "connected"
        BY <2>10, <4>1, WriteTypes DEF Send, SendTypes, TypeOK
      <4>2. CASE state # "connected"
        <5>1. send' = [send EXCEPT ![s].pc = "failed"] /\ UNCHANGED <<waiting, ready, wire>>
          BY <2>10, <4>2 DEF Send, fail
        <5> QED  BY <5>1 DEF SendTypes, TypeOK
      <4> QED  BY <4>1, <4>2
    <3> QED  BY <2>10, <3>1 DEF Send, TypeOK, ConnectionTypes
  <2>11. ASSUME SendResumes
         PROVE  /\ ConnectionTypes' /\ SendTypes'
                /\ reconnectTimer' \in BOOLEAN /\ connects' \in 0..MaxConnects
    <3>1. Head(ready) \in Sends /\ Tail(ready) \in Seq(Sends)
      BY <2>11 DEF SendResumes, TypeOK
    <3>2. SendTypes'
      BY <2>11, <3>1, WriteTypes DEF SendResumes, SendTypes
    <3> QED  BY <2>11, <3>2 DEF SendResumes, TypeOK, ConnectionTypes
  <2>12. ASSUME UNCHANGED vars
         PROVE  /\ ConnectionTypes' /\ SendTypes'
                /\ reconnectTimer' \in BOOLEAN /\ connects' \in 0..MaxConnects
    BY <2>12 DEF TypeOK, ConnectionTypes, SendTypes
  <2> QED  BY <2>1, <2>2, <2>3, <2>4, <2>5, <2>6, <2>7, <2>8, <2>9, <2>10, <2>11,
              <2>12 DEF Next
<1> QED  BY <1>1, <1>2, PTL DEF Spec

-----------------------------------------------------------------------------
(* A connected transport has a live socket *)

\* Late opens, stale timers and closes of old sockets never leave a transport
\* that says it is connected without an open socket (SocketOpen, SocketClose,
\* disconnect).  The invariant is inductive on its own.
THEOREM ConnectedSocket == Spec => []ConnectedHasSocket
<1>1. Init => ConnectedHasSocket
  BY DEF Init, ConnectedHasSocket
<1>2. TypeOK /\ ConnectedHasSocket /\ [Next]_vars => ConnectedHasSocket'
  <2> SUFFICES ASSUME TypeOK, ConnectedHasSocket, [Next]_vars PROVE ConnectedHasSocket'
    OBVIOUS
  <2>1. ASSUME state' # "connected" PROVE ConnectedHasSocket'
    BY <2>1 DEF ConnectedHasSocket
  <2>2. ASSUME UNCHANGED <<state, socket, status>> PROVE ConnectedHasSocket'
    BY <2>2 DEF ConnectedHasSocket
  <2>3. ASSUME connect PROVE ConnectedHasSocket'
    BY <2>1, <2>3 DEF connect, establishConnection
  <2>4. ASSUME ReconnectTimer PROVE ConnectedHasSocket'
    <3>1. CASE mayConnect
      BY <2>1, <2>4, <3>1 DEF ReconnectTimer, establishConnection
    <3>2. CASE ~mayConnect
      BY <2>2, <2>4, <3>2 DEF ReconnectTimer
    <3> QED  BY <3>1, <3>2
  <2>5. ASSUME disconnect PROVE ConnectedHasSocket'
    BY <2>1, <2>5 DEF disconnect
  <2>6. ASSUME NEW n \in Sockets, ConnectTimeout(n) PROVE ConnectedHasSocket'
    BY <2>1, <2>6 DEF ConnectTimeout, rejected
  <2>7. ASSUME NEW n \in Sockets, ConnectFails(n) PROVE ConnectedHasSocket'
    <3>1. CASE promise[n] = "pending"
      BY <2>1, <2>7, <3>1 DEF ConnectFails, rejected
    <3>2. CASE promise[n] # "pending"
      BY <2>7, <3>2 DEF ConnectFails, rejected, ConnectedHasSocket, TypeOK
    <3> QED  BY <3>1, <3>2
  <2>8. ASSUME NEW n \in Sockets, SocketOpen(n) PROVE ConnectedHasSocket'
    BY <2>8 DEF SocketOpen, ConnectedHasSocket, TypeOK, Sockets
  <2>9. ASSUME NEW n \in Sockets, SocketError(n) \/ SocketClose(n)
        PROVE  ConnectedHasSocket'
    BY <2>1, <2>9 DEF SocketError, SocketClose
  <2>10. ASSUME NEW n \in Sockets, Drain(n) PROVE ConnectedHasSocket'
    BY <2>2, <2>10 DEF Drain
  <2>11. ASSUME NEW s \in Sends, Send(s) PROVE ConnectedHasSocket'
    BY <2>2, <2>11 DEF Send
  <2>12. ASSUME SendResumes PROVE ConnectedHasSocket'
    BY <2>2, <2>12 DEF SendResumes
  <2> QED  BY <2>2, <2>3, <2>4, <2>5, <2>6, <2>7, <2>8, <2>9, <2>10, <2>11, <2>12
           DEF Next
<1> QED  BY <1>1, <1>2, TypeCorrect, PTL DEF Spec

-----------------------------------------------------------------------------
(* Each piece is written once *)

IsAt(s, p, n, i) ==
  n \in Sockets /\ i \in DOMAIN wire[n] /\ wire[n][i] = [send |-> s, part |-> p]

\* The offset of a send() says which of its pieces are on a wire, and none is
\* in two places.
OffsetIsWritten ==
  \A s \in Sends, p \in 1..Parts :
     /\ p <= send[s].offset => \E n, i : IsAt(s, p, n, i)
     /\ \A n, i : IsAt(s, p, n, i) => p <= send[s].offset
     /\ \A n, i, m, j : IsAt(s, p, n, i) /\ IsAt(s, p, m, j) => n = m /\ i = j

DoneIsWhole == \A s \in Sends : send[s].pc = "done" => send[s].offset = Parts

WireInv == OffsetIsWritten /\ DoneIsWhole

appends(s, n, o, k) ==
  wire' = [wire EXCEPT ![n] = @ \o [i \in 1..k |-> [send |-> s, part |-> o + i]]]

\* What a socket holds after k more pieces of s.
AppendedTo(s, n, o, k) ==
  /\ \A m \in Sockets : m # n => wire'[m] = wire[m]
  /\ DOMAIN wire'[n] = 1..(Len(wire[n]) + k)
  /\ \A i \in 1..Len(wire[n]) : wire'[n][i] = wire[n][i]
  /\ \A i \in (Len(wire[n]) + 1)..(Len(wire[n]) + k) :
        wire'[n][i] = [send |-> s, part |-> o + (i - Len(wire[n]))]

LEMMA AppendEffect ==
  ASSUME TypeOK, NEW s \in Sends, NEW n \in Sockets, NEW o \in Nat, NEW k \in Nat,
         o + k <= Parts, appends(s, n, o, k)
  PROVE  AppendedTo(s, n, o, k)
<1> DEFINE new == [i \in 1..k |-> [send |-> s, part |-> o + i]]
           len == Len(wire[n])
<1>1. wire[n] \in Seq(Piece) /\ wire'[n] = wire[n] \o new
  BY DEF TypeOK, appends
<1>2. new \in Seq(Piece) /\ Len(new) = k
  <2>1. \A i \in 1..k : [send |-> s, part |-> o + i] \in Piece
    BY DEF Piece
  <2> QED  BY <2>1
<1>3. \A i \in 1..k : new[i] = [send |-> s, part |-> o + i]
  OBVIOUS
<1> HIDE DEF new
<1>4. len \in Nat
  BY <1>1
<1>5. /\ wire[n] \o new \in Seq(Piece) /\ Len(wire[n] \o new) = len + k
      /\ \A i \in 1..(len + k) :
            (wire[n] \o new)[i] = IF i <= len THEN wire[n][i] ELSE new[i - len]
  BY <1>1, <1>2, ConcatProperties
<1> HIDE DEF len
<1>6. DOMAIN wire'[n] = 1..(len + k)
  BY <1>1, <1>5
<1>7. \A i \in 1..len : wire'[n][i] = wire[n][i]
  BY <1>1, <1>4, <1>5
<1>8. ASSUME NEW i \in (len + 1)..(len + k)
      PROVE  wire'[n][i] = [send |-> s, part |-> o + (i - len)]
  <2>1. i \in 1..(len + k) /\ ~(i <= len) /\ i - len \in 1..k
    BY <1>4
  <2>2. wire'[n][i] = new[i - len]
    BY <1>1, <1>5, <2>1
  <2> QED  BY <1>3, <2>1, <2>2
<1>9. \A m \in Sockets : m # n => wire'[m] = wire[m]
  BY DEF TypeOK, appends
<1> QED  BY <1>6, <1>7, <1>8, <1>9 DEF len, AppendedTo

\* So the pieces that have a place afterwards are those that had one, and the
\* k pieces of s, each at one place.
LEMMA PlacesAfter ==
  ASSUME TypeOK, NEW s \in Sends, NEW n \in Sockets, NEW o \in Nat, NEW k \in Nat,
         o + k <= Parts, appends(s, n, o, k),
         NEW t \in Sends, NEW p \in 1..Parts, NEW m, NEW i
  PROVE  IsAt(t, p, m, i)' <=>
           \/ IsAt(t, p, m, i)
           \/ t = s /\ m = n /\ p \in (o + 1)..(o + k) /\ i = Len(wire[n]) + (p - o)
<1>1. /\ \A x \in Sockets : x # n => wire'[x] = wire[x]
      /\ DOMAIN wire'[n] = 1..(Len(wire[n]) + k)
      /\ \A x \in 1..Len(wire[n]) : wire'[n][x] = wire[n][x]
      /\ \A x \in (Len(wire[n]) + 1)..(Len(wire[n]) + k) :
            wire'[n][x] = [send |-> s, part |-> o + (x - Len(wire[n]))]
  <2>1. AppendedTo(s, n, o, k)
    BY AppendEffect
  <2> QED  BY <2>1 DEF AppendedTo
<1>2. Len(wire[n]) \in Nat /\ DOMAIN wire[n] = 1..Len(wire[n])
  BY DEF TypeOK
<1>3. CASE m # n
  BY <1>1, <1>3 DEF IsAt
<1>4. CASE m = n /\ i \in 1..Len(wire[n])
  <2>1. wire'[n][i] = wire[n][i] /\ i \in DOMAIN wire'[n] /\ i \in DOMAIN wire[n]
    BY <1>1, <1>2, <1>4
  <2>2. ~(p \in (o + 1)..(o + k) /\ i = Len(wire[n]) + (p - o))
    BY <1>2, <1>4
  <2> QED  BY <1>4, <2>1, <2>2 DEF IsAt
<1>5. ASSUME m = n, i \in (Len(wire[n]) + 1)..(Len(wire[n]) + k)
      PROVE  IsAt(t, p, m, i)' <=>
               \/ IsAt(t, p, m, i)
               \/ t = s /\ m = n /\ p \in (o + 1)..(o + k) /\ i = Len(wire[n]) + (p - o)
  <2>1. wire'[n][i] = [send |-> s, part |-> o + (i - Len(wire[n]))]
    BY <1>1, <1>5
  <2>2. IsAt(t, p, m, i)' <=> [send |-> s, part |-> o + (i - Len(wire[n]))]
                                = [send |-> t, part |-> p]
    BY <1>1, <1>5, <2>1 DEF IsAt
  <2>3. ~IsAt(t, p, m, i)
    BY <1>2, <1>5 DEF IsAt
  <2>4. [send |-> s, part |-> o + (i - Len(wire[n]))] = [send |-> t, part |-> p]
          <=> t = s /\ p = o + (i - Len(wire[n]))
    BY <1>2, <1>5
  <2>5. p = o + (i - Len(wire[n]))
          <=> p \in (o + 1)..(o + k) /\ i = Len(wire[n]) + (p - o)
    BY <1>2, <1>5
  <2> QED  BY <1>5, <2>2, <2>3, <2>4, <2>5
<1>6. CASE m = n /\ i \notin 1..(Len(wire[n]) + k)
  BY <1>1, <1>2, <1>6 DEF IsAt
<1> QED  BY <1>2, <1>3, <1>4, <1>5, <1>6

\* A step that writes nothing and moves no offset.
LEMMA NothingWritten ==
  ASSUME TypeOK, WireInv, UNCHANGED wire,
         \A s \in Sends : /\ send'[s].offset = send[s].offset
                          /\ send'[s].pc = "done" => send[s].pc = "done"
  PROVE  WireInv'
<1>1. OffsetIsWritten'
  BY DEF WireInv, OffsetIsWritten, IsAt
<1>2. DoneIsWhole'
  BY DEF WireInv, DoneIsWhole
<1> QED  BY <1>1, <1>2 DEF WireInv

\* A turn of the loop of send() keeps the offset in step with the wires.
LEMMA WriteKeeps ==
  ASSUME TypeOK, WireInv, NEW s \in Sends, writeSome(s)
  PROVE  WireInv'
<1>1. CASE send' = [send EXCEPT ![s].pc = "failed"] /\ UNCHANGED <<waiting, wire>>
  <2>1. \A t \in Sends : /\ send'[t].offset = send[t].offset
                         /\ send'[t].pc = "done" => send[t].pc = "done"
    BY <1>1 DEF TypeOK
  <2> QED  BY <1>1, <2>1, NothingWritten
<1>2. ASSUME socket \in Sockets, NEW k \in 0..(Parts - send[s].offset),
             wire' = [wire EXCEPT ![socket] =
               @ \o [i \in 1..k |-> [send |-> s, part |-> send[s].offset + i]]],
             NEW pc \in {"done", "drain"},
             send' = [send EXCEPT ![s] = [pc |-> pc, offset |-> send[s].offset + k]],
             pc = "done" => send[s].offset + k = Parts
      PROVE  WireInv'
  <2> DEFINE o == send[s].offset
             len == Len(wire[socket])
  <2>1. o \in 0..Parts /\ k \in Nat /\ o + k <= Parts
    BY <1>2 DEF TypeOK
  <2>2. appends(s, socket, o, k)
    BY <1>2 DEF appends
  <2>3. len \in Nat
    BY <1>2 DEF TypeOK
  <2>4. \A t \in Sends, p \in 1..Parts : \A m, i :
           IsAt(t, p, m, i)' <=>
             \/ IsAt(t, p, m, i)
             \/ t = s /\ m = socket /\ p \in (o + 1)..(o + k) /\ i = len + (p - o)
    BY <1>2, <2>1, <2>2, PlacesAfter
  <2>5. \A t \in Sends : send'[t].offset = IF t = s THEN o + k ELSE send[t].offset
    BY <1>2 DEF TypeOK
  <2>6. \A t \in Sends : send'[t].pc = IF t = s THEN pc ELSE send[t].pc
    BY <1>2 DEF TypeOK
  <2>7. \A t \in Sends : send[t].offset \in 0..Parts
    BY DEF TypeOK
  <2>8. DoneIsWhole'
    BY <1>2, <2>5, <2>6 DEF WireInv, DoneIsWhole
  <2>9. ASSUME NEW t \in Sends, NEW p \in 1..Parts
        PROVE  /\ p <= send'[t].offset => \E n, i : IsAt(t, p, n, i)'
               /\ \A n, i : IsAt(t, p, n, i)' => p <= send'[t].offset
               /\ \A n, i, m, j : IsAt(t, p, n, i)' /\ IsAt(t, p, m, j)' => n = m /\ i = j
    <3>1. /\ p <= send[t].offset => \E n, i : IsAt(t, p, n, i)
          /\ \A n, i : IsAt(t, p, n, i) => p <= send[t].offset
          /\ \A n, i, m, j : IsAt(t, p, n, i) /\ IsAt(t, p, m, j) => n = m /\ i = j
      BY DEF WireInv, OffsetIsWritten
    <3>2. CASE t = s /\ p \in (o + 1)..(o + k)
      <4>1. ~(p <= send[t].offset) /\ p <= send'[t].offset
        BY <2>1, <2>5, <3>2
      <4>2. \A n, i : ~IsAt(t, p, n, i)
        BY <3>1, <4>1
      <4>3. \A n, i : IsAt(t, p, n, i)' <=> n = socket /\ i = len + (p - o)
        BY <2>4, <3>2, <4>2
      <4> QED  BY <4>1, <4>3
    <3>3. CASE ~(t = s /\ p \in (o + 1)..(o + k))
      <4>1. p <= send'[t].offset <=> p <= send[t].offset
        BY <2>1, <2>5, <2>7, <3>3
      <4>2. \A n, i : IsAt(t, p, n, i)' <=> IsAt(t, p, n, i)
        BY <2>4, <3>3
      <4> QED  BY <3>1, <4>1, <4>2
    <3> QED  BY <3>2, <3>3
  <2>10. OffsetIsWritten'
    BY <2>9 DEF OffsetIsWritten
  <2> QED  BY <2>8, <2>10 DEF WireInv
<1> QED  BY <1>1, <1>2, WriteEffect

\* send() over any number of waits writes each piece of its message once
\* (send, writeSome): the offset it keeps says exactly what is on the wires.
THEOREM EachPieceOnce == Spec => []SentOnce
<1>1. Init => WireInv
  <2> SUFFICES ASSUME Init PROVE WireInv
    OBVIOUS
  <2>1. \A s, p, n, i : ~IsAt(s, p, n, i)
    BY DEF Init, IsAt
  <2>2. \A s \in Sends : send[s].offset = 0 /\ send[s].pc = "none"
    BY DEF Init
  <2>3. OffsetIsWritten
    BY <2>1, <2>2 DEF OffsetIsWritten
  <2>4. DoneIsWhole
    BY <2>2 DEF DoneIsWhole
  <2> QED  BY <2>3, <2>4 DEF WireInv
<1>2. TypeOK /\ WireInv /\ [Next]_vars => WireInv'
  <2> SUFFICES ASSUME TypeOK, WireInv, [Next]_vars PROVE WireInv'
    OBVIOUS
  <2>1. ASSUME UNCHANGED <<send, wire>> PROVE WireInv'
    BY <2>1, NothingWritten
  <2>2. ASSUME NEW s \in Sends, Send(s) PROVE WireInv'
    <3>1. CASE state = "connected"
      BY <2>2, <3>1, WriteKeeps DEF Send
    <3>2. CASE state # "connected"
      <4>1. \A t \in Sends : /\ send'[t].offset = send[t].offset
                             /\ send'[t].pc = "done" => send[t].pc = "done"
        <5>1. send' = [send EXCEPT ![s].pc = "failed"]
          BY <2>2, <3>2 DEF Send, fail
        <5> QED  BY <5>1 DEF TypeOK
      <4> QED  BY <2>2, <3>2, <4>1, NothingWritten DEF Send, fail
    <3> QED  BY <3>1, <3>2
  <2>3. ASSUME SendResumes PROVE WireInv'
    <3>1. Head(ready) \in Sends
      BY <2>3 DEF SendResumes, TypeOK
    <3> QED  BY <2>3, <3>1, WriteKeeps DEF SendResumes
  <2>4. ASSUME NEW n \in Sockets, Drain(n) PROVE WireInv'
    <3>1. \A t \in Sends : /\ send'[t].offset = send[t].offset
                           /\ send'[t].pc = "done" => send[t].pc = "done"
      BY <2>4 DEF Drain, TypeOK
    <3> QED  BY <2>4, <3>1, NothingWritten DEF Drain
  <2> QED  BY <2>1, <2>2, <2>3, <2>4
           DEF Next, connect, ReconnectTimer, disconnect, ConnectTimeout,
               ConnectFails, SocketOpen, SocketError, SocketClose
<1>3. WireInv => SentOnce
  <2> SUFFICES ASSUME WireInv, NEW s \in Sends, send[s].pc = "done",
                      NEW p \in 1..Parts
      PROVE  \E n \in Sockets : \E i \in DOMAIN wire[n] :
                \A m \in Sockets : \A j \in DOMAIN wire[m] :
                   wire[m][j] = [send |-> s, part |-> p] <=> <<m, j>> = <<n, i>>
    BY DEF SentOnce
  <2>1. PICK n, i : IsAt(s, p, n, i)
    BY DEF WireInv, OffsetIsWritten, DoneIsWhole
  <2>2. ASSUME NEW m \in Sockets, NEW j \in DOMAIN wire[m]
        PROVE  wire[m][j] = [send |-> s, part |-> p] <=> <<m, j>> = <<n, i>>
    <3>1. IsAt(s, p, m, j) <=> wire[m][j] = [send |-> s, part |-> p]
      BY <2>2 DEF IsAt
    <3>2. IsAt(s, p, m, j) => m = n /\ j = i
      BY <2>1 DEF WireInv, OffsetIsWritten
    <3>3. m = n /\ j = i => IsAt(s, p, m, j)
      BY <2>1
    <3>4. <<m, j>> = <<n, i>> <=> m = n /\ j = i
      OBVIOUS
    <3> QED  BY <3>1, <3>2, <3>3, <3>4
  <2> QED  BY <2>1, <2>2 DEF IsAt
<1> QED  BY <1>1, <1>2, <1>3, TypeCorrect, PTL DEF Spec
=============================================================================

--------------------------- MODULE BunTCPTransport ---------------------------
(***************************************************************************)
(* BunTCPTransport: one connection state over a succession of sockets.     *)
(* Every call of establishConnection makes a socket with callbacks of its  *)
(* own, a connect timer and a promise; callbacks of old sockets and timers *)
(* stay alive and act on the same fields.                                  *)
(*                                                                         *)
(* A message is Parts pieces, the least a write of the socket can take;    *)
(* send() is a coroutine that waits for `drain' between writes.  The       *)
(* state "disconnecting" is left in the same step and never seen between   *)
(* two steps.                                                              *)
(***************************************************************************)
EXTENDS Integers, Sequences

CONSTANTS
  MaxSockets,           \* bound: calls of establishConnection
  MaxConnects,          \* bound: calls of connect() by users
  AutoReconnect,        \* options.autoReconnect
  MaxReconnectAttempts, \* options.maxReconnectAttempts
  Sends,                \* calls of send()
  Parts                 \* pieces of a message

Sockets == 1..MaxSockets

ASSUME TransportAssumption ==
  /\ MaxSockets \in Nat /\ MaxConnects \in Nat
  /\ AutoReconnect \in BOOLEAN /\ MaxReconnectAttempts \in Nat
  /\ Parts \in Nat \ {0}

VARIABLES
  state,             \* _connectionState
  socket,            \* the socket in use, 0 when undefined
  reconnectAttempts,
  reconnectTimer,    \* the timer the field names is armed
  leaked,            \* armed reconnect timers no field names any more
  connects,          \* calls of connect() so far
  status,            \* of each socket
  connectTimer,      \* sockets whose connect timer is armed
  promise,           \* of each establishConnection
  send,              \* the calls of send(): pc and offset
  waiting, ready,    \* those that wait for drain; those drain has resumed
  wire               \* the pieces written to each socket

timerVars  == <<reconnectAttempts, reconnectTimer, leaked>>
socketVars == <<status, connectTimer, promise>>
sendVars   == <<send, waiting, ready, wire>>
vars == <<state, socket, timerVars, connects, socketVars, sendVars>>

Piece == [send : Sends, part : 1..Parts]

TypeOK ==
  /\ state \in {"disconnected", "connecting", "connected", "error"}
  /\ socket \in 0..MaxSockets
  /\ reconnectAttempts \in Nat /\ reconnectTimer \in BOOLEAN /\ leaked \in Nat
  /\ connects \in 0..MaxConnects
  /\ status \in [Sockets -> {"none", "opening", "open", "closing", "closed"}]
  /\ connectTimer \subseteq Sockets
  /\ promise \in [Sockets -> {"none", "pending", "resolved", "rejected"}]
  /\ send \in [Sends -> [pc : {"none", "drain", "ready", "done", "failed"},
                         offset : 0..Parts]]
  /\ waiting \in Seq(Sends) /\ ready \in Seq(Sends)
  /\ wire \in [Sockets -> Seq(Piece)]

Init ==
  /\ state = "disconnected" /\ socket = 0
  /\ reconnectAttempts = 0 /\ reconnectTimer = FALSE /\ leaked = 0
  /\ connects = 0
  /\ status = [n \in Sockets |-> "none"]
  /\ connectTimer = {}
  /\ promise = [n \in Sockets |-> "none"]
  /\ send = [s \in Sends |-> [pc |-> "none", offset |-> 0]]
  /\ waiting = <<>> /\ ready = <<>>
  /\ wire = [n \in Sockets |-> <<>>]

-----------------------------------------------------------------------------
(* Connecting *)

\* Resumed sends run before the event loop takes the next callback.
turn == ready = <<>>

\* A pending timer the field named until now stays armed.
scheduleReconnect ==
  /\ reconnectAttempts' = reconnectAttempts + 1
  /\ leaked' = IF reconnectTimer THEN leaked + 1 ELSE leaked
  /\ reconnectTimer' = TRUE

mayConnect == state \notin {"connected", "connecting"}

establishConnection ==
  \E n \in Sockets :
     /\ status[n] = "none" /\ \A m \in 1..(n - 1) : status[m] # "none"
     /\ status' = [status EXCEPT ![n] = "opening"]
     /\ connectTimer' = connectTimer \cup {n}
     /\ promise' = [promise EXCEPT ![n] = "pending"]
     /\ state' = "connecting"

\* connect() throws, and changes nothing, while connecting or connected.
connect ==
  /\ turn
  /\ connects < MaxConnects
  /\ mayConnect
  /\ establishConnection
  /\ connects' = connects + 1
  /\ UNCHANGED <<socket, timerVars, sendVars>>

\* A reconnect timer fires; its connect() may be refused, which is reported.
ReconnectTimer ==
  /\ turn
  /\ \/ reconnectTimer /\ reconnectTimer' = FALSE /\ UNCHANGED leaked
     \/ leaked > 0 /\ leaked' = leaked - 1 /\ UNCHANGED reconnectTimer
  /\ IF mayConnect THEN establishConnection ELSE UNCHANGED <<state, socketVars>>
  /\ UNCHANGED <<socket, reconnectAttempts, connects, sendVars>>

\* The promise of establishConnection rejects, if it has not settled before,
\* and the catch of connect() runs.
rejected(n) ==
  IF promise[n] = "pending"
  THEN /\ promise' = [promise EXCEPT ![n] = "rejected"]
       /\ state' = "error"
       /\ IF AutoReconnect THEN scheduleReconnect ELSE UNCHANGED timerVars
  ELSE UNCHANGED <<promise, state, timerVars>>

\* The timer runs out before the socket opened; Bun.connect goes on.
ConnectTimeout(n) ==
  /\ turn
  /\ n \in connectTimer
  /\ connectTimer' = connectTimer \ {n}
  /\ IF promise[n] = "pending"
     THEN rejected(n)
     ELSE state' = "error" /\ UNCHANGED <<promise, timerVars>>
  /\ UNCHANGED <<socket, connects, status, sendVars>>

ConnectFails_Swallowed(n) ==
  /\ turn
  /\ status[n] = "opening"
  /\ status' = [status EXCEPT ![n] = "closed"]
  /\ connectTimer' = connectTimer \ {n}
  /\ UNCHANGED <<socket, connects, state, timerVars, promise, sendVars>>

\* Bun.connect rejects; the timer stays armed.
ConnectFails(n) ==
  /\ turn
  /\ status[n] = "opening"
  /\ status' = [status EXCEPT ![n] = "closed"]
  /\ rejected(n)
  /\ UNCHANGED <<socket, connects, connectTimer, sendVars>>

SocketOpen(n) ==
  /\ turn
  /\ status[n] = "opening"
  /\ status' = [status EXCEPT ![n] = "open"]
  /\ connectTimer' = connectTimer \ {n}
  /\ reconnectAttempts' = 0
  /\ socket' = n
  /\ state' = "connected"
  /\ promise' = [promise EXCEPT ![n] = IF @ = "pending" THEN "resolved" ELSE @]
  /\ UNCHANGED <<reconnectTimer, leaked, connects, sendVars>>

SocketError(n) ==
  /\ turn
  /\ status[n] = "open"
  /\ connectTimer' = connectTimer \ {n}
  /\ state' = "error"
  /\ UNCHANGED <<socket, timerVars, connects, status, promise, sendVars>>

SocketClose_KeepsState(n) ==
  /\ turn
  /\ status[n] \in {"open", "closing"}
  /\ status' = [status EXCEPT ![n] = "closed"]
  /\ UNCHANGED <<state, socket, timerVars, connects, connectTimer, promise, sendVars>>

\* close -> handleDisconnection, whichever socket it is.
SocketClose(n) ==
  /\ turn
  /\ status[n] \in {"open", "closing"}
  /\ status' = [status EXCEPT ![n] = "closed"]
  /\ state' = "disconnected" /\ socket' = 0
  /\ IF state = "connected" /\ AutoReconnect /\ reconnectAttempts < MaxReconnectAttempts
     THEN /\ reconnectAttempts' = reconnectAttempts + 1
          /\ reconnectTimer' = TRUE
     ELSE reconnectTimer' = FALSE /\ UNCHANGED reconnectAttempts
  /\ UNCHANGED <<leaked, connects, connectTimer, promise, sendVars>>

disconnect ==
  /\ turn
  /\ state # "disconnected"
  /\ state' = "disconnected" /\ socket' = 0
  /\ reconnectTimer' = FALSE
  /\ status' = [n \in Sockets |-> IF n = socket /\ status[n] = "open"
                                  THEN "closing" ELSE status[n]]
  /\ UNCHANGED <<reconnectAttempts, leaked, connects, connectTimer, promise, sendVars>>

-----------------------------------------------------------------------------
(* Sending *)

fail(s) == send' = [send EXCEPT ![s].pc = "failed"] /\ UNCHANGED <<waiting, wire>>

\* Starts from the beginning of the message after each wait.
writeSome_KeepsOffset(s) ==
  IF socket = 0 \/ (socket # 0 /\ status[socket] # "open")
  THEN fail(s)
  ELSE \E k \in 0..Parts :
          /\ wire' = [wire EXCEPT ![socket] =
                        @ \o [i \in 1..k |-> [send |-> s, part |-> i]]]
          /\ IF k = Parts
             THEN /\ send' = [send EXCEPT ![s] = [pc |-> "done", offset |-> Parts]]
                  /\ UNCHANGED waiting
             ELSE /\ send' = [send EXCEPT ![s] = [pc |-> "drain", offset |-> 0]]
                  /\ waiting' = Append(waiting, s)

\* One turn of the loop of send(): the socket takes some pieces, and the rest
\* waits for the next drain.  Writing to no socket or a closed one throws.
writeSome(s) ==
  IF socket = 0 \/ (socket # 0 /\ status[socket] # "open")
  THEN fail(s)
  ELSE LET offset == send[s].offset IN
       \E k \in 0..(Parts - offset) :
          /\ wire' = [wire EXCEPT ![socket] =
                        @ \o [i \in 1..k |-> [send |-> s, part |-> offset + i]]]
          /\ IF offset + k = Parts
             THEN /\ send' = [send EXCEPT ![s] = [pc |-> "done", offset |-> Parts]]
                  /\ UNCHANGED waiting
             ELSE /\ send' = [send EXCEPT ![s] = [pc |-> "drain", offset |-> offset + k]]
                  /\ waiting' = Append(waiting, s)

\* send() when connected; otherwise it throws and nothing is written.
Send(s) ==
  /\ turn
  /\ send[s].pc = "none"
  /\ IF state = "connected" THEN writeSome(s) ELSE fail(s)
  /\ UNCHANGED <<state, socket, timerVars, connects, socketVars, ready>>

\* Drain of any socket resumes every send() that waits.
Drain(n) ==
  /\ turn
  /\ status[n] = "open" /\ waiting # <<>>
  /\ ready' = waiting
  /\ waiting' = <<>>
  /\ send' = [s \in Sends |-> IF send[s].pc = "drain"
                              THEN [send[s] EXCEPT !.pc = "ready"] ELSE send[s]]
  /\ UNCHANGED <<state, socket, timerVars, connects, socketVars, wire>>

SendResumes ==
  /\ ready # <<>>
  /\ writeSome(Head(ready))
  /\ ready' = Tail(ready)
  /\ UNCHANGED <<state, socket, timerVars, connects, socketVars>>

-----------------------------------------------------------------------------
Next ==
  \/ connect \/ ReconnectTimer \/ disconnect \/ SendResumes
  \/ \E n \in Sockets : \/ ConnectTimeout(n) \/ ConnectFails(n) \/ SocketOpen(n)
                        \/ SocketError(n) \/ SocketClose(n) \/ Drain(n)
  \/ \E s \in Sends : Send(s)

Spec == Init /\ [][Next]_vars

\* Resumed sends run, and a timer that is due fires in one of the turns of the
\* event loop; the network and the users owe nothing.
FairSpec ==
  /\ Spec
  /\ WF_vars(SendResumes)
  /\ \A n \in Sockets : SF_vars(ConnectTimeout(n))

-----------------------------------------------------------------------------
(* Properties *)

\* Whatever old sockets and old timers still do, a connected transport has a
\* socket whose end nobody has reported (SocketOpen, handleDisconnection).
ConnectedHasSocket ==
  state = "connected" => socket # 0 /\ status[socket] = "open"

\* A send() that returned wrote each piece of its message exactly once, over
\* any number of waits (send).
SentOnce ==
  \A s \in Sends : send[s].pc = "done" =>
     \A p \in 1..Parts :
        \E n \in Sockets : \E i \in DOMAIN wire[n] :
           \A m \in Sockets : \A j \in DOMAIN wire[m] :
              wire[m][j] = [send |-> s, part |-> p] <=> <<m, j>> = <<n, i>>

\* Every connect() comes to an end, even if the network never answers and
\* somebody disconnects meanwhile (establishConnection).
ConnectSettles ==
  \A n \in Sockets : promise[n] = "pending" ~> promise[n] # "pending"

\* "Safe writes": on each socket messages follow each other whole.
MessagesWhole ==
  \A n \in Sockets : \A i \in DOMAIN wire[n] :
     IF wire[n][i].part = 1
     THEN i = 1 \/ (i > 1 /\ wire[n][i - 1].part = Parts)
     ELSE i > 1 /\ wire[n][i - 1] = [wire[n][i] EXCEPT !.part = @ - 1]
=============================================================================

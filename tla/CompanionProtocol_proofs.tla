------------------------ MODULE CompanionProtocol_proofs ------------------------
(***************************************************************************)
(* Proofs about CompanionProtocol, for any number of sockets and of calls. *)
(***************************************************************************)
EXTENDS CompanionProtocol, TLAPS

USE DEF Authenticating, Attempting, ConnectPc, cipherVars

-----------------------------------------------------------------------------
(* The inductive invariant *)

\* The call is between the start of an attempt and its end.
Busy(c) == connect[c].pc \in Attempting

Starting(c) == connect[c].pc \in Authenticating \cup {"save"}

\* Nothing has happened to the transport yet.
Fresh ==
  /\ conn = "disconnected" /\ socket = 0
  /\ \A n \in Sockets : status[n] = "none"
  /\ ~reconnectTimer /\ leaked = 0 /\ connectTimer = {}

\* Only socket n exists and the answer to it is awaited.
OnlyOpening(n) ==
  /\ n \in Sockets /\ status[n] = "opening"
  /\ \A k \in Sockets : k # n => status[k] = "none"
  /\ ~reconnectTimer /\ leaked = 0

\* One socket is in use, and nothing is under way that could replace it.
Steady ==
  /\ conn \in {"connected", "error"} /\ socket # 0
  /\ \A n \in Sockets : status[n] # "opening"
  /\ ~reconnectTimer /\ leaked = 0

SocketsInOrder ==
  /\ socket # 0 => status[socket] = "open"
  /\ \A n \in Sockets : promise[n] = "pending" => status[n] = "opening"

\* As long as the listeners are attached this is the object's first
\* connection, one attempt at most is at work, and the state says where.
OneAttempt ==
  listening =>
    /\ \A b, c \in Connects : Busy(b) /\ Busy(c) => b = c
    /\ state # "failed"
    /\ state = "idle" => Fresh /\ \A c \in Connects : ~Busy(c)
    /\ state = "connecting" =>
         \A c \in Connects : Busy(c) =>
            \/ /\ connect[c].pc = "transport"
               /\ OnlyOpening(connect[c].socket)
               /\ promise[connect[c].socket] = "pending"
            \/ connect[c].pc = "load" /\ Steady
    /\ state = "authenticating" => \A c \in Connects : Busy(c) => Starting(c)
    /\ state = "establishing-session" =>
         \A c \in Connects : Busy(c) => connect[c].pc = "session"
    /\ state \in {"ready", "disconnecting"} => \A c \in Connects : ~Busy(c)
    /\ state \in {"authenticating", "establishing-session", "ready"} => Steady

SessionMatches ==
  /\ session = "active" => state = "ready"
  /\ session = "stopping" => state = "disconnecting"
  /\ state = "ready" => /\ listening /\ session = "active"
                        /\ encryption # "disabled" /\ secured = socket
  /\ state = "disconnecting" => /\ listening /\ session = "stopping"
                                /\ encryption # "disabled" /\ secured # 0

OneDisconnect ==
  /\ \A d \in Disconnects : disconnect[d] = "stopping" => state = "disconnecting"
  /\ \A d, e \in Disconnects :
        disconnect[d] = "stopping" /\ disconnect[e] = "stopping" => d = e

IInv == TypeOK /\ SocketsInOrder /\ OneAttempt /\ SessionMatches /\ OneDisconnect

-----------------------------------------------------------------------------
(* What the actions of the transport do to the variables the proof is about *)

LEMMA ConnectEffect ==
  ASSUME Transport!connect
  PROVE  /\ conn \notin {"connected", "connecting"} /\ conn' = "connecting"
         /\ \E n \in Sockets :
               /\ status[n] = "none"
               /\ status' = [status EXCEPT ![n] = "opening"]
               /\ promise' = [promise EXCEPT ![n] = "pending"]
         /\ UNCHANGED <<socket, reconnectTimer, leaked>>
  BY DEF Transport!connect, Transport!establishConnection, Transport!mayConnect,
         Transport!timerVars, Transport!Sockets, Sockets

\* A rejection touches neither sockets nor, once settled, anything.
LEMMA TimeoutEffect ==
  ASSUME NEW n \in Sockets, Transport!ConnectTimeout(n)
  PROVE  /\ UNCHANGED <<socket, status>>
         /\ n \in connectTimer /\ conn' = "error"
         /\ promise[n] # "pending" => UNCHANGED <<promise, reconnectTimer, leaked>>
         /\ promise[n] = "pending" => promise' = [promise EXCEPT ![n] = "rejected"]
  BY DEF Transport!ConnectTimeout, Transport!rejected, Transport!timerVars

LEMMA FailEffect ==
  ASSUME NEW n \in Sockets, Transport!ConnectFails(n)
  PROVE  /\ status[n] = "opening" /\ status' = [status EXCEPT ![n] = "closed"]
         /\ UNCHANGED socket
         /\ conn' \in {conn, "error"}
         /\ promise' = IF promise[n] = "pending"
                       THEN [promise EXCEPT ![n] = "rejected"] ELSE promise
  BY DEF Transport!ConnectFails, Transport!rejected, Transport!timerVars

LEMMA OpenEffect ==
  ASSUME NEW n \in Sockets, Transport!SocketOpen(n)
  PROVE  /\ status[n] = "opening" /\ status' = [status EXCEPT ![n] = "open"]
         /\ socket' = n /\ conn' = "connected"
         /\ promise' = [promise EXCEPT ![n] = IF @ = "pending" THEN "resolved" ELSE @]
         /\ UNCHANGED <<reconnectTimer, leaked>>
  BY DEF Transport!SocketOpen

LEMMA ErrorEffect ==
  ASSUME NEW n \in Sockets, Transport!SocketError(n)
  PROVE  /\ conn' = "error" /\ status[n] = "open"
         /\ UNCHANGED <<socket, status, promise, reconnectTimer, leaked>>
  BY DEF Transport!SocketError, Transport!timerVars

LEMMA CloseEffect ==
  ASSUME NEW n \in Sockets, Transport!SocketClose(n)
  PROVE  /\ status[n] \in {"open", "closing"}
         /\ status' = [status EXCEPT ![n] = "closed"]
         /\ socket' = 0 /\ conn' = "disconnected" /\ UNCHANGED promise
  BY DEF Transport!SocketClose

LEMMA TimerEffect ==
  ASSUME Transport!ReconnectTimer
  PROVE  /\ reconnectTimer \/ leaked > 0
         /\ UNCHANGED socket
         /\ \/ UNCHANGED <<conn, status, promise>>
            \/ /\ conn' = "connecting"
               /\ \E n \in Sockets :
                     /\ status[n] = "none"
                     /\ status' = [status EXCEPT ![n] = "opening"]
                     /\ promise' = [promise EXCEPT ![n] = "pending"]
  BY DEF Transport!ReconnectTimer, Transport!establishConnection,
         Transport!socketVars, Transport!Sockets, Sockets

LEMMA DisconnectEffect ==
  ASSUME Transport!disconnect
  PROVE  /\ conn' = "disconnected" /\ socket' = 0 /\ UNCHANGED promise
         /\ status' = [n \in Sockets |-> IF n = socket /\ status[n] = "open"
                                         THEN "closing" ELSE status[n]]
  BY DEF Transport!disconnect, Transport!Sockets, Sockets

-----------------------------------------------------------------------------
(* Type correctness *)

LEMMA InitType == Init => TypeOK
  <1> SUFFICES ASSUME Init PROVE TypeOK
    OBVIOUS
  <1>1. listening \in BOOLEAN /\ authenticated \in BOOLEAN /\ pairingTimer \in BOOLEAN
    BY DEF Init
  <1> QED BY <1>1, ProtocolAssumption DEF Init, TypeOK, Sockets, ProtocolState

LEMMA NextType == TypeOK /\ [Next]_vars => TypeOK'
  <1> SUFFICES ASSUME TypeOK, [Next]_vars PROVE TypeOK'
    OBVIOUS
  <1> USE ProtocolAssumption
  <1>1. ASSUME NEW c \in Connects, Connect(c) \/ AttemptRefused(c) \/ AttemptBlocked(c)
        PROVE  TypeOK'
    BY <1>1 DEF TypeOK, Connect, AttemptRefused, AttemptBlocked, recover, counted,
            enter, transportVars, layerVars, ProtocolState
  <1>2. ASSUME NEW c \in Connects, Attempt(c) PROVE TypeOK'
    <2>1. /\ conn' = "connecting" /\ UNCHANGED socket
          /\ status' \in [Sockets -> {"none", "opening", "open", "closing", "closed"}]
          /\ promise' \in [Sockets -> {"none", "pending", "resolved", "rejected"}]
      <3>1. Transport!connect
        BY <1>2 DEF Attempt
      <3>2. PICK n \in Sockets : /\ status' = [status EXCEPT ![n] = "opening"]
                                /\ promise' = [promise EXCEPT ![n] = "pending"]
        BY <3>1, ConnectEffect
      <3>3. conn' = "connecting" /\ UNCHANGED socket
        BY <3>1, ConnectEffect
      <3> QED BY <3>2, <3>3 DEF TypeOK
    <2> QED BY <1>2, <2>1 DEF TypeOK, Attempt, counted, layerVars, Sockets, ProtocolState
  <1>3. ASSUME NEW c \in Connects, AttemptStep(c) PROVE TypeOK'
    <2>1. CASE Authenticated(c)
      <3>1. /\ listening' \in BOOLEAN /\ authenticated' \in BOOLEAN
            /\ pairingTimer' \in BOOLEAN
        BY <2>1 DEF Authenticated, TypeOK
      <3> QED BY <2>1, <3>1 DEF TypeOK, Authenticated, enter, transportVars
    <2>2. CASE LoadFails(c) \/ SaveFails(c) \/ Paired(c) \/ AuthFails(c)
      BY <2>2 DEF TypeOK, LoadFails, SaveFails, Paired, AuthFails, recover, enter,
              transportVars, layerVars
    <2>3. CASE Loaded(c) \/ Saved(c)
      <3>1. /\ state' \in ProtocolState
            /\ session' \in {"inactive", "starting", "active", "stopping", "stopped", "error"}
            /\ encryption' \in {"disabled", "enabled", "error"} /\ secured' \in 0..MaxSockets
        BY <2>3 DEF TypeOK, Loaded, Saved, secureSession, enable, ProtocolState
      <3>2. attempts' \in 0..MaxAttempts
        BY <2>3 DEF TypeOK, Loaded, Saved, secureSession, recover
      <3>3. \E pc \in ConnectPc : connect' = [connect EXCEPT ![c].pc = pc]
        BY <2>3 DEF Loaded, Saved, secureSession, recover, enter
      <3>4. connect' \in [Connects -> [pc : ConnectPc, socket : 0..MaxSockets]]
        BY <3>3 DEF TypeOK
      <3> QED BY <2>3, <3>1, <3>2, <3>4 DEF TypeOK, Loaded, Saved, transportVars
    <2>4. CASE SessionGranted(c) \/ SessionFails(c)
      BY <2>4 DEF TypeOK, SessionGranted, SessionFails, recover, enter, transportVars,
              ProtocolState
    <2> QED BY <1>3, <2>1, <2>2, <2>3, <2>4 DEF AttemptStep
  <1>4. ASSUME NEW c \in Connects, SessionRetries(c) PROVE TypeOK'
    BY <1>4 DEF TypeOK, SessionRetries, transportVars, callVars
  <1>5. ASSUME NEW n \in Sockets, ConnectTimeout(n) \/ ConnectFails(n) PROVE TypeOK'
    <2>1. /\ conn' \in {"disconnected", "connecting", "connected", "error"}
          /\ UNCHANGED socket
          /\ status' \in [Sockets -> {"none", "opening", "open", "closing", "closed"}]
          /\ promise' \in [Sockets -> {"none", "pending", "resolved", "rejected"}]
      BY <1>5, TimeoutEffect, FailEffect DEF ConnectTimeout, ConnectFails, TypeOK
    <2>2. attemptFails(n)
      BY <1>5 DEF ConnectTimeout, ConnectFails
    <2> QED BY <2>1, <2>2 DEF TypeOK, attemptFails, recover, enter, layerVars
  <1>6. ASSUME NEW n \in Sockets, SocketOpen(n) PROVE TypeOK'
    <2>1. /\ conn' = "connected" /\ socket' = n
          /\ status' \in [Sockets -> {"none", "opening", "open", "closing", "closed"}]
          /\ promise' \in [Sockets -> {"none", "pending", "resolved", "rejected"}]
      BY <1>6, OpenEffect DEF SocketOpen, TypeOK
    <2>2. connect' \in [Connects -> [pc : ConnectPc, socket : 0..MaxSockets]]
      BY <1>6 DEF TypeOK, SocketOpen, enter
    <2> QED BY <1>6, <2>1, <2>2 DEF TypeOK, SocketOpen, Sockets, layerVars
  <1>7. ASSUME NEW n \in Sockets, SocketError(n) PROVE TypeOK'
    BY <1>7, ErrorEffect DEF TypeOK, SocketError, layerVars, callVars
  <1>8. ASSUME NEW n \in Sockets, SocketClose(n) PROVE TypeOK'
    <2>1. /\ conn' = "disconnected" /\ socket' = 0 /\ UNCHANGED promise
          /\ status' \in [Sockets -> {"none", "opening", "open", "closing", "closed"}]
      BY <1>8, CloseEffect DEF SocketClose, TypeOK
    <2>2. listening' \in BOOLEAN
      BY <1>8 DEF SocketClose, TypeOK
    <2>3. /\ state' \in ProtocolState /\ secured' \in 0..MaxSockets
          /\ encryption' \in {"disabled", "enabled", "error"}
          /\ session' \in {"inactive", "starting", "active", "stopping", "stopped", "error"}
      BY <1>8 DEF SocketClose, TypeOK, sessionStopped, disable, ProtocolState
    <2> QED BY <1>8, <2>1, <2>2, <2>3 DEF TypeOK, SocketClose, callVars
  <1>9. ASSUME NEW d \in Disconnects, Disconnect(d) \/ DisconnectEnds(d) PROVE TypeOK'
    <2>1. closed(d) /\ session' \in {"inactive", "stopped"}
      BY <1>9 DEF Disconnect, DisconnectEnds, sessionStopped
    <2>2. /\ conn' = "disconnected" /\ socket' \in 0..MaxSockets /\ UNCHANGED promise
          /\ status' \in [Sockets -> {"none", "opening", "open", "closing", "closed"}]
      BY <2>1, DisconnectEffect DEF closed, transportVars, TypeOK
    <2>3. listening' \in BOOLEAN
      BY <2>1 DEF closed
    <2> QED BY <2>1, <2>2, <2>3 DEF TypeOK, closed, disable, ProtocolState
  <1>10. ASSUME NEW d \in Disconnects, DisconnectActive(d) PROVE TypeOK'
    BY <1>10 DEF TypeOK, DisconnectActive, transportVars, ProtocolState
  <1>11. ASSUME ReconnectTimer PROVE TypeOK'
    <2>1. /\ conn' \in {"disconnected", "connecting", "connected", "error"}
          /\ UNCHANGED socket
          /\ status' \in [Sockets -> {"none", "opening", "open", "closing", "closed"}]
          /\ promise' \in [Sockets -> {"none", "pending", "resolved", "rejected"}]
      BY <1>11, TimerEffect DEF ReconnectTimer, TypeOK
    <2> QED BY <1>11, <2>1 DEF TypeOK, ReconnectTimer, layerVars, callVars
  <1>12. CASE PairingTimeout
    BY <1>12 DEF TypeOK, PairingTimeout, transportVars, callVars
  <1>13. CASE UNCHANGED vars
    BY <1>13 DEF TypeOK, vars, transportVars, layerVars, callVars
  <1>14. CASE DecryptFails
    BY <1>14 DEF TypeOK, DecryptFails, transportVars, callVars
  <1>15. ASSUME NEW c \in Connects, M1Sent(c) PROVE TypeOK'
    <2>1. \E pc \in ConnectPc : connect' = [connect EXCEPT ![c].pc = pc]
      BY <1>15 DEF M1Sent, enter
    <2>2. connect' \in [Connects -> [pc : ConnectPc, socket : 0..MaxSockets]]
      BY <2>1 DEF TypeOK
    <2>3. pairingTimer' \in BOOLEAN
      BY <1>15 DEF M1Sent, TypeOK
    <2> QED BY <1>15, <2>2, <2>3 DEF TypeOK, M1Sent, transportVars
  <1>16. ASSUME NEW c \in Connects, M1Fails(c) PROVE TypeOK'
    BY <1>16 DEF TypeOK, M1Fails, recover, enter, transportVars, layerVars
  <1> QED
    BY <1>1, <1>2, <1>3, <1>4, <1>5, <1>6, <1>7, <1>8, <1>9, <1>10, <1>11, <1>12,
       <1>13, <1>14, <1>15, <1>16 DEF Next

\* Every variable keeps its type, for any number of sockets and of calls.
THEOREM TypeCorrect == Spec => []TypeOK
  BY InitType, NextType, PTL DEF Spec

-----------------------------------------------------------------------------
(* The invariant is inductive *)

\* All of the invariant but the types.
Rest == SocketsInOrder /\ OneAttempt /\ SessionMatches /\ OneDisconnect

LEMMA InitIInv == Init => IInv
  BY InitType DEF Init, IInv, SocketsInOrder, OneAttempt, SessionMatches, OneDisconnect,
                  Fresh, Busy

\* A step after which fewer calls are busy, and nothing else has changed.
LEMMA Unbusy ==
  ASSUME IInv, UNCHANGED <<transportVars, state, listening, layerVars, disconnect>>,
         \A b \in Connects : Busy(b)' => Busy(b) /\ connect'[b] = connect[b]
  PROVE  Rest'
  <1>1. OneAttempt'
    BY DEF IInv, OneAttempt, transportVars, layerVars, OnlyOpening, Fresh, Steady, Starting
  <1> QED BY <1>1 DEF IInv, Rest, SocketsInOrder, SessionMatches, OneDisconnect,
                      transportVars, layerVars

LEMMA NextIInv == IInv /\ [Next]_vars => IInv'
  <1> SUFFICES ASSUME IInv, [Next]_vars
               PROVE  Rest'
    BY NextType DEF IInv, Rest
  <1> USE ProtocolAssumption DEF IInv, Rest
  <1>1. ASSUME NEW c \in Connects, Connect(c) \/ AttemptRefused(c)
        PROVE  Rest'
    <2>1. \A b \in Connects : Busy(b)' => Busy(b) /\ connect'[b] = connect[b]
      BY <1>1 DEF Connect, AttemptRefused, recover, enter, Busy, TypeOK
    <2>2. UNCHANGED <<transportVars, state, listening, layerVars, disconnect>>
      BY <1>1 DEF Connect, AttemptRefused
    <2> QED BY <2>1, <2>2, Unbusy
  <1>2. ASSUME NEW c \in Connects, AttemptBlocked(c) PROVE Rest'
    <2>1. conn \in {"connected", "connecting"} /\ state = "idle" /\ state' = "connecting"
      BY <1>2 DEF AttemptBlocked, Transport!mayConnect
    <2>2. ~listening
      BY <2>1 DEF OneAttempt, Fresh
    <2>3. UNCHANGED <<socket, status, promise, listening, session, encryption, secured, disconnect>>
      BY <1>2 DEF AttemptBlocked, transportVars, layerVars
    <2> QED BY <2>1, <2>2, <2>3 DEF SocketsInOrder, OneAttempt, SessionMatches, OneDisconnect
  <1>3. ASSUME NEW c \in Connects, Attempt(c) PROVE Rest'
    <2>1. state = "idle" /\ state' = "connecting"
      BY <1>3 DEF Attempt
    <2>2. UNCHANGED <<socket, reconnectTimer, leaked, listening, session, encryption, secured, disconnect>>
      BY <1>3, ConnectEffect DEF Attempt, layerVars
    <2>3. PICK n \in Sockets :
             /\ status[n] = "none" /\ status'[n] = "opening"
             /\ connect' = [connect EXCEPT ![c] = [pc |-> "transport", socket |-> n]]
      BY <1>3 DEF Attempt
    <2>4. /\ status' = [status EXCEPT ![n] = "opening"]
          /\ promise' = [promise EXCEPT ![n] = "pending"]
      BY <1>3, <2>3, ConnectEffect DEF Attempt, TypeOK
    <2>5. SocketsInOrder'
      BY <2>2, <2>3, <2>4 DEF SocketsInOrder, TypeOK
    <2>6. ASSUME listening PROVE OneAttempt'
      <3>1. Fresh /\ \A b \in Connects : ~Busy(b)
        BY <2>1, <2>6 DEF OneAttempt
      <3>2. OnlyOpening(n)'
        BY <2>2, <2>3, <2>4, <3>1 DEF OnlyOpening, Fresh, TypeOK
      <3>3. \A b \in Connects : Busy(b)' => b = c
        BY <2>3, <3>1 DEF Busy, TypeOK
      <3>4. connect'[c] = [pc |-> "transport", socket |-> n] /\ promise'[n] = "pending"
        BY <2>3, <2>4 DEF TypeOK
      <3> QED BY <2>1, <3>2, <3>3, <3>4 DEF OneAttempt
    <2>7. OneAttempt'
      BY <2>2, <2>6 DEF OneAttempt
    <2>8. SessionMatches' /\ OneDisconnect'
      BY <2>1, <2>2 DEF SessionMatches, OneDisconnect
    <2> QED BY <2>5, <2>7, <2>8
  <1>4. ASSUME NEW c \in Connects, M1Sent(c) \/ Paired(c) \/ Authenticated(c) PROVE Rest'
    <2>1. UNCHANGED <<transportVars, state, listening, session, encryption, secured, disconnect>>
      BY <1>4 DEF M1Sent, Paired, Authenticated, layerVars
    <2>2. /\ connect[c].pc \in Authenticating
          /\ \E pc \in {"pair", "verify-m1", "verify", "save"} :
                connect' = [connect EXCEPT ![c].pc = pc]
      BY <1>4 DEF M1Sent, Paired, Authenticated, enter
    <2>3. \A b \in Connects : /\ Busy(b)' <=> Busy(b)
                              /\ Starting(b)' <=> Starting(b)
                              /\ b # c => connect'[b] = connect[b]
      BY <2>2 DEF Busy, Starting, TypeOK
    <2>4. Busy(c) /\ connect'[c].pc # "transport"
      BY <2>2 DEF Busy, TypeOK
    <2>5. OneAttempt'
      BY <2>1, <2>2, <2>3, <2>4 DEF OneAttempt, transportVars, OnlyOpening, Fresh, Steady, Starting
    <2> QED BY <2>1, <2>5 DEF transportVars, SocketsInOrder, SessionMatches, OneDisconnect
  <1>5. ASSUME NEW c \in Connects,
               LoadFails(c) \/ M1Fails(c) \/ AuthFails(c) \/ SaveFails(c)
        PROVE  Rest'
    <2>1. \A b \in Connects : Busy(b)' => Busy(b) /\ connect'[b] = connect[b]
      BY <1>5 DEF LoadFails, M1Fails, AuthFails, SaveFails, recover, enter, Busy, TypeOK
    <2>2. UNCHANGED <<transportVars, state, listening, layerVars, disconnect>>
      BY <1>5 DEF LoadFails, M1Fails, AuthFails, SaveFails
    <2> QED BY <2>1, <2>2, Unbusy
  <1>6. ASSUME NEW c \in Connects, Loaded(c) \/ Saved(c) PROVE Rest'
    <2>1. UNCHANGED <<transportVars, listening, disconnect>>
      BY <1>6 DEF Loaded, Saved
    <2>2. /\ connect[c].pc \in {"load", "save"}
          /\ session' \in {session, "starting"}
          /\ \E pc \in ConnectPc : connect' = [connect EXCEPT ![c].pc = pc]
          /\ \/ /\ state' = "establishing-session"
                /\ \E pc \in {"session", "sleep"} : connect' = [connect EXCEPT ![c].pc = pc]
             \/ /\ state' = "authenticating"
                /\ \E pc \in {"pair-m1", "verify-m1", "sleep"} :
                      connect' = [connect EXCEPT ![c].pc = pc]
      BY <1>6 DEF Loaded, Saved, secureSession, recover, enter
    <2>3. /\ \/ state' = "establishing-session" /\ connect'[c].pc \in {"session", "sleep"}
             \/ state' = "authenticating" /\ connect'[c].pc \in Authenticating \cup {"sleep"}
          /\ \A b \in Connects : b # c => connect'[b] = connect[b]
      BY <2>2 DEF TypeOK
    <2>4. state \notin {"ready", "disconnecting"}
      BY <2>2 DEF OneAttempt, SessionMatches, Busy
    <2>5. SessionMatches' /\ OneDisconnect' /\ SocketsInOrder'
      BY <2>1, <2>2, <2>4 DEF SessionMatches, OneDisconnect, SocketsInOrder, transportVars
    <2>6. ASSUME listening PROVE OneAttempt'
      <3>1. Busy(c) /\ Steady
        BY <2>2, <2>6 DEF OneAttempt, Busy, Starting, TypeOK, ProtocolState
      <3>2. Steady' /\ \A b \in Connects : Busy(b) => b = c
        BY <2>1, <2>6, <3>1 DEF OneAttempt, Steady, transportVars
      <3>3. \A b \in Connects : Busy(b)' => b = c
        BY <2>3, <3>2 DEF Busy
      <3> QED BY <2>3, <3>2, <3>3 DEF OneAttempt, Starting, Busy
    <2> QED BY <2>1, <2>5, <2>6 DEF OneAttempt
  <1>7. ASSUME NEW c \in Connects, SessionGranted(c) PROVE Rest'
    <2>1. UNCHANGED <<transportVars, listening, encryption, secured, disconnect>>
      BY <1>7 DEF SessionGranted
    <2>2. /\ listening /\ socket # 0 /\ encryption = "enabled" /\ secured = socket
          /\ session' = "active" /\ state' = "ready"
      BY <1>7 DEF SessionGranted, online
    <2>3. connect[c].pc = "session" /\ connect' = [connect EXCEPT ![c].pc = "done"]
      BY <1>7 DEF SessionGranted, enter
    <2>4. Busy(c) /\ state = "establishing-session"
      BY <2>2, <2>3 DEF OneAttempt, Busy, Starting, TypeOK, ProtocolState
    <2>5. \A b \in Connects : ~Busy(b)'
      BY <2>2, <2>3, <2>4 DEF OneAttempt, Busy, TypeOK
    <2>6. Steady'
      BY <2>1, <2>2, <2>4 DEF OneAttempt, Steady, transportVars
    <2>7. OneAttempt' /\ SessionMatches'
      BY <2>1, <2>2, <2>5, <2>6 DEF OneAttempt, SessionMatches, transportVars
    <2> QED BY <2>1, <2>4, <2>7 DEF SocketsInOrder, OneDisconnect, transportVars
  <1>8. ASSUME NEW c \in Connects, SessionRetries(c) \/ SessionFails(c) PROVE Rest'
    <2>1. UNCHANGED <<transportVars, state, listening, encryption, secured, disconnect>>
      BY <1>8 DEF SessionRetries, SessionFails, callVars
    <2>2. connect[c].pc = "session" /\ session' \in {"starting", "error"}
      BY <1>8 DEF SessionRetries, SessionFails
    <2>3. \A b \in Connects : Busy(b)' => Busy(b) /\ connect'[b] = connect[b]
      BY <1>8 DEF SessionRetries, SessionFails, recover, enter, callVars, Busy, TypeOK
    <2>4. state \notin {"ready", "disconnecting"}
      BY <2>2 DEF OneAttempt, SessionMatches, Busy
    <2>5. OneAttempt'
      BY <2>1, <2>3 DEF OneAttempt, transportVars, OnlyOpening, Fresh, Steady, Starting
    <2> QED BY <2>1, <2>2, <2>4, <2>5 DEF SessionMatches, SocketsInOrder, OneDisconnect, transportVars
  <1>9. ASSUME NEW n \in Sockets, ConnectTimeout(n) \/ ConnectFails(n) PROVE Rest'
    <2>1. /\ UNCHANGED <<socket, state, listening, session, encryption, secured, disconnect>>
          /\ \/ \E c \in Connects : awaits(c, n) /\ recover(c)
             \/ ~(\E c \in Connects : awaits(c, n)) /\ UNCHANGED connect
      BY <1>9, TimeoutEffect, FailEffect
      DEF ConnectTimeout, ConnectFails, attemptFails, layerVars
    <2>2. SocketsInOrder'
      <3>1. CASE ConnectTimeout(n)
        BY <2>1, <3>1, TimeoutEffect DEF ConnectTimeout, SocketsInOrder, TypeOK
      <3>2. CASE ConnectFails(n)
        <4>1. /\ status \in [Sockets -> {"none", "opening", "open", "closing", "closed"}]
              /\ promise \in [Sockets -> {"none", "pending", "resolved", "rejected"}]
              /\ socket # 0 => socket \in Sockets
          BY DEF TypeOK, Sockets
        <4>2. /\ status[n] = "opening" /\ status' = [status EXCEPT ![n] = "closed"]
              /\ promise' = IF promise[n] = "pending"
                            THEN [promise EXCEPT ![n] = "rejected"] ELSE promise
          BY <3>2, FailEffect DEF ConnectFails
        <4> QED BY <2>1, <4>1, <4>2 DEF SocketsInOrder
      <3> QED BY <1>9, <3>1, <3>2
    <2>3. SessionMatches' /\ OneDisconnect'
      BY <2>1 DEF SessionMatches, OneDisconnect
    <2>4. ASSUME listening, NEW b \in Connects, Busy(b)'
          PROVE  Busy(b) /\ connect'[b] = connect[b] /\ ~awaits(b, n)
      <3>1. CASE \E c \in Connects : awaits(c, n) /\ recover(c)
        <4>1. PICK c \in Connects : awaits(c, n) /\ recover(c)
          BY <3>1
        <4>2. Busy(c) /\ b # c /\ connect'[b] = connect[b]
          BY <2>4, <4>1 DEF recover, enter, awaits, Busy, TypeOK
        <4> QED BY <2>4, <4>2 DEF Busy, awaits, OneAttempt
      <3>2. CASE ~(\E c \in Connects : awaits(c, n)) /\ UNCHANGED connect
        BY <2>4, <3>2 DEF Busy
      <3> QED BY <2>1, <3>1, <3>2
    <2>5. ASSUME listening PROVE OneAttempt'
      <3>1. CASE promise[n] = "pending"
        <4>1. state \notin {"idle", "authenticating", "establishing-session", "ready"}
          BY <2>5, <3>1 DEF OneAttempt, SocketsInOrder, Fresh, Steady
        <4>2. state = "connecting" => \A b \in Connects : ~Busy(b)'
          BY <2>4, <2>5, <3>1 DEF OneAttempt, OnlyOpening, Steady, SocketsInOrder, awaits
        <4> QED BY <2>1, <2>4, <2>5, <4>1, <4>2 DEF OneAttempt
      <3>2. CASE promise[n] # "pending" /\ ConnectTimeout(n)
        <4>1. /\ n \in connectTimer /\ conn' = "error"
              /\ UNCHANGED <<socket, status, promise, reconnectTimer, leaked>>
          BY <3>2, TimeoutEffect DEF ConnectTimeout
        <4> QED BY <2>1, <2>4, <2>5, <4>1 DEF OneAttempt, OnlyOpening, Fresh, Steady, Starting
      <3>3. CASE promise[n] # "pending" /\ ConnectFails(n)
        <4>1. status[n] = "opening"
          BY <3>3, FailEffect DEF ConnectFails
        <4>2. state \notin {"idle", "authenticating", "establishing-session", "ready"}
          BY <2>5, <4>1 DEF OneAttempt, Fresh, Steady
        <4>3. state = "connecting" => \A b \in Connects : ~Busy(b)'
          BY <2>4, <2>5, <3>3, <4>1 DEF OneAttempt, OnlyOpening, Steady
        <4> QED BY <2>1, <2>4, <2>5, <4>2, <4>3 DEF OneAttempt
      <3> QED BY <1>9, <3>1, <3>2, <3>3
    <2> QED BY <2>1, <2>2, <2>3, <2>5 DEF OneAttempt
  <1>10. ASSUME NEW n \in Sockets, SocketOpen(n) PROVE Rest'
    <2>1. /\ status[n] = "opening" /\ status' = [status EXCEPT ![n] = "open"]
          /\ socket' = n /\ conn' = "connected" /\ UNCHANGED <<reconnectTimer, leaked>>
          /\ promise' = [promise EXCEPT ![n] = IF @ = "pending" THEN "resolved" ELSE @]
          /\ UNCHANGED <<listening, disconnect>>
      BY <1>10, OpenEffect DEF SocketOpen
    <2>2. SocketsInOrder'
      BY <2>1 DEF SocketsInOrder, TypeOK, Sockets
    <2>3. state # "ready" /\ UNCHANGED <<state, session, encryption, secured>>
      BY <1>10, <2>1 DEF SocketOpen, layerVars, OneAttempt, SessionMatches, Steady
    <2>4. SessionMatches' /\ OneDisconnect'
      BY <2>1, <2>3 DEF SessionMatches, OneDisconnect
    <2>5. ASSUME listening PROVE OneAttempt'
      <3>1. state \notin {"idle", "authenticating", "establishing-session", "ready"}
        BY <2>1, <2>5 DEF OneAttempt, Fresh, Steady
      <3>2. CASE UNCHANGED connect /\ ~(\E c \in Connects : awaits(c, n))
        <4>1. state = "connecting" => \A b \in Connects : ~Busy(b)
          BY <2>1, <2>5, <3>2 DEF OneAttempt, OnlyOpening, Steady, awaits
        <4>2. \A b \in Connects : Busy(b)' <=> Busy(b)
          BY <3>2 DEF Busy
        <4> QED BY <2>1, <2>3, <2>5, <3>1, <3>2, <4>1, <4>2 DEF OneAttempt
      <3>3. ASSUME NEW c \in Connects, awaits(c, n), enter(c, "load") PROVE OneAttempt'
        <4>1. Busy(c) /\ connect[c].pc = "transport" /\ connect[c].socket = n
          BY <3>3 DEF awaits, Busy
        <4>2. state = "connecting"
          BY <2>5, <3>1, <4>1 DEF OneAttempt, TypeOK, ProtocolState
        <4>3. OnlyOpening(n) /\ \A b \in Connects : Busy(b) => b = c
          BY <2>5, <4>1, <4>2 DEF OneAttempt
        <4>4. Steady'
          BY <2>1, <4>3 DEF Steady, OnlyOpening, TypeOK, Sockets
        <4>5. connect'[c].pc = "load" /\ \A b \in Connects : Busy(b)' => b = c
          BY <3>3, <4>3 DEF Busy, enter, TypeOK
        <4> QED BY <2>3, <4>2, <4>4, <4>5 DEF OneAttempt
      <3> QED BY <1>10, <3>2, <3>3 DEF SocketOpen
    <2> QED BY <2>1, <2>2, <2>4, <2>5 DEF OneAttempt
  <1>11. ASSUME NEW n \in Sockets, SocketError(n) PROVE Rest'
    <2>1. /\ conn' = "error" /\ status[n] = "open"
          /\ UNCHANGED <<socket, status, promise, reconnectTimer, leaked, state,
                         listening, session, encryption, secured, connect, disconnect>>
      BY <1>11, ErrorEffect DEF SocketError, layerVars, callVars
    <2>2. listening => state # "idle"
      BY <2>1 DEF OneAttempt, Fresh
    <2>3. OneAttempt'
      BY <2>1, <2>2 DEF OneAttempt, OnlyOpening, Steady, Starting, Busy
    <2> QED BY <2>1, <2>3 DEF SocketsInOrder, SessionMatches, OneDisconnect
  <1>12. ASSUME NEW n \in Sockets, SocketClose(n) PROVE Rest'
    <2>1. /\ status[n] \in {"open", "closing"}
          /\ status' = [status EXCEPT ![n] = "closed"]
          /\ socket' = 0 /\ conn' = "disconnected" /\ UNCHANGED <<promise, connect, disconnect>>
      BY <1>12, CloseEffect DEF SocketClose, callVars
    <2>2. SocketsInOrder'
      BY <2>1 DEF SocketsInOrder, TypeOK
    <2>3. CASE lossSeen /\ state \notin {"disconnecting", "idle"}
      <3>1. /\ session' \in {"inactive", "stopped"} /\ state' = "failed" /\ listening' = FALSE
        BY <1>12, <2>3 DEF SocketClose, sessionStopped
      <3> QED BY <2>1, <2>2, <2>3, <3>1 DEF OneAttempt, SessionMatches, OneDisconnect
    <2>4. CASE ~(lossSeen /\ state \notin {"disconnecting", "idle"})
      <3>1. UNCHANGED <<state, listening, session, encryption, secured>>
        BY <1>12, <2>4 DEF SocketClose
      <3>2. listening => /\ state \notin {"idle", "authenticating", "establishing-session", "ready"}
                         /\ state = "connecting" => \A b \in Connects : ~Busy(b)
        BY <2>1, <2>4 DEF OneAttempt, Fresh, Steady, OnlyOpening, lossSeen
      <3>3. OneAttempt'
        BY <2>1, <3>1, <3>2 DEF OneAttempt, Busy
      <3>4. state # "ready"
        BY <3>2 DEF SessionMatches
      <3> QED BY <2>1, <2>2, <3>1, <3>3, <3>4 DEF SessionMatches, OneDisconnect
    <2> QED BY <2>3, <2>4
  <1>13. ASSUME NEW d \in Disconnects, Disconnect(d) \/ DisconnectEnds(d) PROVE Rest'
    <2>1. closed(d) /\ session' \in {"inactive", "stopped"}
      BY <1>13 DEF Disconnect, DisconnectEnds, sessionStopped
    <2>2. SocketsInOrder'
      <3>1. CASE conn = "disconnected"
        BY <2>1, <3>1 DEF closed, transportVars, SocketsInOrder
      <3>2. CASE conn # "disconnected"
        BY <2>1, <3>2, DisconnectEffect DEF closed, SocketsInOrder
      <3> QED BY <3>1, <3>2
    <2>3. /\ listening' = FALSE /\ state' = "idle"
          /\ disconnect' = [disconnect EXCEPT ![d] = "done"]
      BY <2>1 DEF closed
    <2>4. \A e \in Disconnects : e # d => disconnect[e] # "stopping"
      BY <1>13 DEF Disconnect, DisconnectEnds, OneDisconnect
    <2>5. OneAttempt' /\ SessionMatches'
      BY <2>1, <2>3 DEF OneAttempt, SessionMatches
    <2>6. OneDisconnect'
      BY <2>3, <2>4 DEF OneDisconnect, TypeOK
    <2> QED BY <2>2, <2>5, <2>6
  <1>14. ASSUME NEW d \in Disconnects, DisconnectActive(d) PROVE Rest'
    <2>1. /\ UNCHANGED <<transportVars, listening, encryption, secured, connect>>
          /\ state' = "disconnecting" /\ session' = "stopping"
          /\ disconnect' = [disconnect EXCEPT ![d] = "stopping"]
      BY <1>14 DEF DisconnectActive
    <2>2. state = "ready" /\ listening /\ secured = socket
      BY <1>14 DEF DisconnectActive, SessionMatches
    <2>3. Steady /\ \A b \in Connects : ~Busy(b)
      BY <2>2 DEF OneAttempt
    <2>4. OneAttempt' /\ SessionMatches'
      BY <2>1, <2>2, <2>3 DEF OneAttempt, SessionMatches, Steady, Busy
    <2>5. OneDisconnect'
      BY <2>1, <2>2 DEF OneDisconnect, TypeOK
    <2> QED BY <2>1, <2>4, <2>5 DEF SocketsInOrder, transportVars
  <1>15. ASSUME ReconnectTimer PROVE Rest'
    <2>1. /\ reconnectTimer \/ leaked > 0
          /\ UNCHANGED <<socket, state, listening, session, encryption, secured, connect, disconnect>>
      BY <1>15, TimerEffect DEF ReconnectTimer, layerVars, callVars
    <2>2. SocketsInOrder'
      BY <1>15, <2>1, TimerEffect DEF ReconnectTimer, SocketsInOrder, TypeOK, Sockets
    <2>3. listening => /\ state \notin {"idle", "authenticating", "establishing-session", "ready"}
                       /\ state = "connecting" => \A b \in Connects : ~Busy(b)
      BY <2>1 DEF OneAttempt, Fresh, Steady, OnlyOpening
    <2>4. OneAttempt'
      BY <2>1, <2>3 DEF OneAttempt, Busy
    <2> QED BY <2>1, <2>2, <2>4 DEF SessionMatches, OneDisconnect
  <1>16. CASE PairingTimeout
    BY <1>16, Unbusy DEF PairingTimeout, transportVars, callVars, IInv, SocketsInOrder,
       OneAttempt, SessionMatches, OneDisconnect, Busy, OnlyOpening, Fresh, Steady, Starting
  <1>17. CASE UNCHANGED vars
    BY <1>17, Unbusy DEF vars, callVars, Busy
  <1>18. CASE DecryptFails
    <2>1. /\ encryption = "enabled" /\ encryption' = "error"
          /\ UNCHANGED <<transportVars, state, listening, session, secured, connect, disconnect>>
      BY <1>18 DEF DecryptFails, callVars
    <2>2. OneAttempt'
      BY <2>1 DEF OneAttempt, transportVars, Busy, OnlyOpening, Fresh, Steady, Starting
    <2> QED BY <2>1, <2>2 DEF SocketsInOrder, SessionMatches, OneDisconnect, transportVars
  <1> QED
    BY <1>1, <1>2, <1>3, <1>4, <1>5, <1>6, <1>7, <1>8, <1>9, <1>10, <1>11, <1>12,
       <1>13, <1>14, <1>15, <1>16, <1>17, <1>18 DEF Next, AttemptStep

LEMMA InvariantHolds == Spec => []IInv
  BY InitIInv, NextIInv, PTL DEF Spec

-----------------------------------------------------------------------------
(* The properties *)

\* Ready means ready, for any number of sockets and of calls: connect(), the
\* connectionStatus handler and disconnect() together.
THEOREM ReadyUsable == Spec => []ReadyIsUsable
  <1>1. IInv => ReadyIsUsable
    BY DEF IInv, ReadyIsUsable, OneAttempt, SessionMatches, SocketsInOrder, Steady, online
  <1> QED BY <1>1, InvariantHolds, PTL

\* No phase of setting up outlives its socket, the load of the credentials included
\* (the connectionStatus handler).
THEOREM LossIsNoticed == Spec => []LossNoticed
  <1>1. ASSUME IInv, listening, NEW c \in Connects, connect[c].pc = "load"
        PROVE  Steady
    BY <1>1 DEF IInv, OneAttempt, Busy, Starting, TypeOK, ProtocolState
  <1>2. IInv => LossNoticed
    BY <1>1 DEF IInv, LossNoticed, OneAttempt, SocketsInOrder, Steady, online
  <1> QED BY <1>2, InvariantHolds, PTL

\* Whatever ends enciphering before the session has ended, it is not the protocol's
\* own disable(): disconnect() and the loss come to it after the session only.
THEOREM KeysAreKept == Spec => []KeysOutliveSession
  <1>1. IInv => KeysOutliveSession
    BY DEF IInv, KeysOutliveSession, OneAttempt, SessionMatches, Steady
  <1> QED BY <1>1, InvariantHolds, PTL

-----------------------------------------------------------------------------
(* The transport under the protocol *)

\* Whatever the protocol does, the transport takes a step of its own or none.
LEMMA TransportStep == [Next]_vars => [Transport!Next]_(Transport!vars)
<1> SUFFICES ASSUME [Next]_vars PROVE [Transport!Next]_(Transport!vars)
  OBVIOUS
<1>1. UNCHANGED transportVars => UNCHANGED Transport!vars
  BY DEF transportVars, Transport!vars, Transport!timerVars, Transport!socketVars,
         Transport!sendVars, Sockets
<1> USE DEF Transport!Next, Transport!Sockets, Sockets
<1>2. ASSUME NEW c \in Connects, Attempt(c) PROVE Transport!Next
  BY <1>2 DEF Attempt
<1>3. ASSUME NEW c \in Connects,
             \/ Connect(c) \/ AttemptRefused(c) \/ AttemptBlocked(c)
             \/ AttemptStep(c) \/ SessionRetries(c) \/ M1Sent(c) \/ M1Fails(c)
      PROVE  UNCHANGED transportVars
  BY <1>3
     DEF Connect, AttemptRefused, AttemptBlocked, AttemptStep, SessionRetries, M1Sent,
         M1Fails, Loaded, LoadFails, Paired, Saved, SaveFails, Authenticated, AuthFails,
         SessionGranted, SessionFails
<1>4. ASSUME NEW n \in Sockets,
             \/ ConnectTimeout(n) \/ ConnectFails(n) \/ SocketOpen(n)
             \/ SocketError(n) \/ SocketClose(n)
      PROVE  Transport!Next
  BY <1>4 DEF ConnectTimeout, ConnectFails, SocketOpen, SocketError, SocketClose
<1>5. ASSUME NEW d \in Disconnects, Disconnect(d) \/ DisconnectEnds(d)
      PROVE  UNCHANGED transportVars \/ Transport!Next
  BY <1>5 DEF Disconnect, DisconnectEnds, closed
<1>6. ASSUME NEW d \in Disconnects, DisconnectActive(d) PROVE UNCHANGED transportVars
  BY <1>6 DEF DisconnectActive
<1>7. ASSUME ReconnectTimer PROVE Transport!Next
  BY <1>7 DEF ReconnectTimer
<1>8. ASSUME PairingTimeout \/ DecryptFails \/ UNCHANGED vars PROVE UNCHANGED transportVars
  BY <1>8 DEF PairingTimeout, DecryptFails, vars
<1> QED  BY <1>1, <1>2, <1>3, <1>4, <1>5, <1>6, <1>7, <1>8 DEF Next

\* The protocol uses the transport as it may be used: the part of its state that is
\* the transport's behaves as BunTCPTransport does when nothing is sent, so what
\* holds of that holds here (CompanionProtocol, connect and disconnect).
THEOREM TransportImplemented == Spec => Transport!Spec
<1>1. Init => Transport!Init
  <2> SUFFICES ASSUME Init PROVE Transport!Init
    OBVIOUS
  <2>1. <<>> = [s \in {} |-> [pc |-> "none", offset |-> 0]]
    OBVIOUS
  <2> QED  BY <2>1 DEF Init, Transport!Init, Transport!Sockets, Sockets
<1> QED  BY <1>1, TransportStep, PTL DEF Spec, Transport!Spec

\* A transport that says it is connected has an open socket, also under the protocol:
\* a session that starts then can be sent for, as secureSession takes for granted.
THEOREM ConnectedIsOnline == Spec => [](conn = "connected" => online)
<1> DEFINE Inv == conn = "connected" => online
<1>1. Init => Inv
  BY DEF Init
<1>2. TypeOK /\ Inv /\ [Transport!Next]_(Transport!vars) => Inv'
  <2> SUFFICES ASSUME TypeOK, Inv, [Transport!Next]_(Transport!vars) PROVE Inv'
    OBVIOUS
  <2>a. /\ status \in [Sockets -> {"none", "opening", "open", "closing", "closed"}]
        /\ socket # 0 => socket \in Sockets
    BY ProtocolAssumption DEF TypeOK, Sockets
  <2> USE DEF online
  <2>1. CASE Transport!connect \/ Transport!disconnect
    BY <2>1 DEF Transport!connect, Transport!disconnect, Transport!establishConnection
  <2>2. CASE Transport!ReconnectTimer
    BY <2>2 DEF Transport!ReconnectTimer, Transport!establishConnection, Transport!socketVars
  <2>3. ASSUME NEW n \in Sockets, Transport!ConnectTimeout(n) \/ Transport!SocketError(n)
        PROVE  Inv'
    BY <2>3, TimeoutEffect, ErrorEffect
  <2>4. ASSUME NEW n \in Sockets, Transport!ConnectFails(n) PROVE Inv'
    BY <2>a, <2>4, FailEffect
  <2>5. ASSUME NEW n \in Sockets, Transport!SocketOpen(n) PROVE Inv'
    <3>1. status' = [status EXCEPT ![n] = "open"] /\ socket' = n
      BY <2>5, OpenEffect
    <3> QED  BY <2>a, <3>1 DEF Sockets
  <2>6. ASSUME NEW n \in Sockets, Transport!SocketClose(n) PROVE Inv'
    BY <2>6, CloseEffect
  <2>7. CASE UNCHANGED Transport!vars
    BY <2>7 DEF Transport!vars, Transport!socketVars
  <2>8. ASSUME NEW n \in Sockets, Transport!Drain(n) PROVE Inv'
    BY <2>8 DEF Transport!Drain
  <2>9. CASE Transport!SendResumes
    BY <2>9 DEF Transport!SendResumes
  <2> QED  BY <2>1, <2>2, <2>3, <2>4, <2>5, <2>6, <2>7, <2>8, <2>9
           DEF Transport!Next, Transport!Sockets, Sockets
<1> QED  BY <1>1, <1>2, TransportStep, TypeCorrect, PTL DEF Spec
=============================================================================

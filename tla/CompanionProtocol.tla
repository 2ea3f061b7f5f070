-------------------------- MODULE CompanionProtocol --------------------------
(***************************************************************************)
(* CompanionProtocol: connect() with its recovery loop, the loss of the    *)
(* connection, and disconnect(), over BunTCPTransport's own actions.       *)
(*                                                                         *)
(* Each call of connect() and of disconnect() is a coroutine; an action is *)
(* one run of the event loop between two of its awaits.  Of the session    *)
(* service only the state is kept, and of authentication whether it is     *)
(* done, where its first message is and which socket its keys were agreed  *)
(* on: CompanionSession and HAPAuthenticationService have them in full.    *)
(* credentialStore.load and save are awaits: both read and write a file.   *)
(***************************************************************************)
EXTENDS Integers, Sequences

CONSTANTS
  MaxSockets,           \* bound: sockets made
  AutoReconnect,        \* options of the transport
  MaxReconnectAttempts,
  MaxAttempts,          \* maxAttempts of runWithRecovery
  Connects,             \* calls of connect()
  Disconnects           \* calls of disconnect() that are not ignored

ASSUME ProtocolAssumption ==
  /\ MaxSockets \in Nat /\ AutoReconnect \in BOOLEAN
  /\ MaxReconnectAttempts \in Nat /\ MaxAttempts \in Nat \ {0}

VARIABLES
  conn, socket, reconnectAttempts, reconnectTimer, leaked,  \* the transport
  connects, status, connectTimer, promise,
  state,         \* of the ProtocolStateMachine
  listening,     \* the listeners of the constructor are attached
  session,       \* state of the session service
  authenticated, \* authService.isAuthenticated
  pairingTimer,  \* its pairing timer is armed
  authKeys,      \* socket its keys were agreed on, 0 without keys
  encryption,    \* state of the encryption layer
  secured,       \* its keys, by the socket they were agreed on, 0 without
  attempts,      \* of the RecoveryManager
  connect,       \* the calls of connect(): pc, and socket waited for
  tries,         \* attempts each has made, counted up to MaxAttempts + 1
  disconnect     \* the calls of disconnect()

transportVars == <<conn, socket, reconnectAttempts, reconnectTimer, leaked,
                   connects, status, connectTimer, promise>>
cipherVars == <<encryption, secured>>
layerVars == <<session, authenticated, pairingTimer, authKeys, cipherVars>>
callVars  == <<attempts, connect, tries, disconnect>>
vars == <<transportVars, state, listening, layerVars, callVars>>

Sockets == 1..MaxSockets

Transport == INSTANCE BunTCPTransport
  WITH state <- conn, MaxConnects <- MaxSockets, Sends <- {}, Parts <- 1,
       send <- <<>>, waiting <- <<>>, ready <- <<>>,
       wire <- [n \in Sockets |-> <<>>]

ProtocolState == {"idle", "connecting", "authenticating",
                  "establishing-session", "ready", "failed", "disconnecting"}

\* A send of M1 waits in "pair-m1" and "verify-m1", the device's answers in
\* "pair" and "verify".
Authenticating == {"pair-m1", "pair", "verify-m1", "verify"}
Attempting == {"transport", "load", "save", "session"} \cup Authenticating
ConnectPc  == {"none", "sleep", "done"} \cup Attempting

\* The other variables of the transport are typed by BunTCPTransport's TypeOK;
\* "recovering" is a state of the code that nothing ever enters.
TypeOK ==
  /\ conn \in {"disconnected", "connecting", "connected", "error"}
  /\ socket \in 0..MaxSockets
  /\ status \in [Sockets -> {"none", "opening", "open", "closing", "closed"}]
  /\ promise \in [Sockets -> {"none", "pending", "resolved", "rejected"}]
  /\ state \in ProtocolState
  /\ listening \in BOOLEAN
  /\ session \in {"inactive", "starting", "active", "stopping", "stopped", "error"}
  /\ authenticated \in BOOLEAN /\ pairingTimer \in BOOLEAN
  /\ authKeys \in 0..MaxSockets
  /\ encryption \in {"disabled", "enabled", "error"} /\ secured \in 0..MaxSockets
  /\ attempts \in 0..MaxAttempts
  /\ connect \in [Connects -> [pc : ConnectPc, socket : 0..MaxSockets]]
  /\ tries \in [Connects -> 0..(MaxAttempts + 1)]
  /\ disconnect \in [Disconnects -> {"none", "stopping", "done"}]

Init ==
  /\ conn = "disconnected" /\ socket = 0
  /\ reconnectAttempts = 0 /\ reconnectTimer = FALSE /\ leaked = 0
  /\ connects = 0 /\ connectTimer = {}
  /\ status = [n \in Sockets |-> "none"]
  /\ promise = [n \in Sockets |-> "none"]
  /\ state = "idle" /\ listening = TRUE
  /\ session = "inactive"
  /\ authenticated = FALSE /\ pairingTimer = FALSE
  /\ authKeys = 0 /\ encryption = "disabled" /\ secured = 0
  /\ attempts = 0
  /\ connect = [c \in Connects |-> [pc |-> "none", socket |-> 0]]
  /\ tries = [c \in Connects |-> 0]
  /\ disconnect = [d \in Disconnects |-> "none"]

\* The device at the other end of the socket in use can be heard.
online == socket # 0 /\ status[socket] = "open"

enter(c, pc) == connect' = [connect EXCEPT ![c].pc = pc]

\* enable() and disable() of the encryption layer.
enable  == encryption' = "enabled" /\ secured' = authKeys
disable == encryption' = "disabled" /\ secured' = 0

-----------------------------------------------------------------------------
(* The recovery loop *)

\* RecoveryManager.run counts an attempt and sleeps before it.  When they are
\* used up it resets and throws, and runWithRecovery catches that and runs
\* again.
recover(c) ==
  /\ enter(c, "sleep")
  /\ attempts' = IF attempts >= MaxAttempts THEN 1 ELSE attempts + 1

\* A call of connect() enters the loop; the first attempt sleeps too.
Connect(c) ==
  /\ connect[c].pc = "none"
  /\ recover(c)
  /\ UNCHANGED <<transportVars, state, listening, layerVars, tries, disconnect>>

counted(c) ==
  tries' = [tries EXCEPT ![c] = IF @ <= MaxAttempts THEN @ + 1 ELSE @]

\* _connect is refused by assertState when the protocol is not idle.
AttemptRefused(c) ==
  /\ connect[c].pc = "sleep" /\ state # "idle"
  /\ counted(c)
  /\ recover(c)
  /\ UNCHANGED <<transportVars, state, listening, layerVars, disconnect>>

\* It starts, and the transport refuses: it connects already or is connected.
AttemptBlocked(c) ==
  /\ connect[c].pc = "sleep" /\ state = "idle" /\ ~Transport!mayConnect
  /\ counted(c)
  /\ recover(c)
  /\ state' = "connecting"
  /\ UNCHANGED <<transportVars, listening, layerVars, disconnect>>

Attempt(c) ==
  /\ connect[c].pc = "sleep" /\ state = "idle"
  /\ counted(c)
  /\ Transport!connect
  /\ \E n \in Sockets :
        /\ status[n] = "none" /\ status'[n] = "opening"
        /\ connect' = [connect EXCEPT ![c] = [pc |-> "transport", socket |-> n]]
  /\ state' = "connecting"
  /\ UNCHANGED <<listening, layerVars, attempts, disconnect>>

-----------------------------------------------------------------------------
(* The transport reports *)

awaits(c, n) == connect[c].pc = "transport" /\ connect[c].socket = n /\ promise[n] = "pending"

attemptFails_WhileConnecting(n) ==
  /\ \/ \E c \in Connects : awaits(c, n) /\ state = "connecting" /\ recover(c)
     \/ /\ ~(\E c \in Connects : awaits(c, n) /\ state = "connecting")
        /\ UNCHANGED <<attempts, connect>>
  /\ UNCHANGED <<state, listening, layerVars, tries, disconnect>>

\* transport.connect rejects and so does the attempt that awaits it.
attemptFails(n) ==
  /\ \/ \E c \in Connects : awaits(c, n) /\ recover(c)
     \/ ~(\E c \in Connects : awaits(c, n)) /\ UNCHANGED <<attempts, connect>>
  /\ UNCHANGED <<state, listening, layerVars, tries, disconnect>>

ConnectTimeout(n) == Transport!ConnectTimeout(n) /\ attemptFails(n)

ConnectFails(n) == Transport!ConnectFails(n) /\ attemptFails(n)

\* transport.connect resolves and the stored credentials are loaded.
SocketOpen(n) ==
  /\ Transport!SocketOpen(n)
  /\ \/ \E c \in Connects : awaits(c, n) /\ enter(c, "load")
     \/ ~(\E c \in Connects : awaits(c, n)) /\ UNCHANGED connect
  /\ UNCHANGED <<state, listening, layerVars, attempts, tries, disconnect>>

SocketError(n) ==
  /\ Transport!SocketError(n)
  /\ UNCHANGED <<state, listening, layerVars, callVars>>

sessionStopped == session' = IF session = "inactive" THEN session ELSE "stopped"

\* The transport has changed to "disconnected", and listeners are left.
lossSeen == conn # "disconnected" /\ listening

\* Only an established session is given up.
SocketClose_ReadyOnly(n) ==
  /\ Transport!SocketClose(n)
  /\ IF lossSeen /\ state = "ready"
     THEN /\ sessionStopped
          /\ disable
          /\ state' = "failed"
          /\ listening' = FALSE
     ELSE UNCHANGED <<state, listening, session, cipherVars>>
  /\ UNCHANGED <<authenticated, pairingTimer, authKeys, callVars>>

\* handleUnexpectedDisconnect.  Stopping the session takes no time: its
\* message cannot be sent any more.
SocketClose(n) ==
  /\ Transport!SocketClose(n)
  /\ IF lossSeen /\ state \notin {"disconnecting", "idle"}
     THEN /\ sessionStopped
          /\ disable
          /\ state' = "failed"
          /\ listening' = FALSE
     ELSE UNCHANGED <<state, listening, session, cipherVars>>
  /\ UNCHANGED <<authenticated, pairingTimer, authKeys, callVars>>

\* With autoReconnect the transport connects again; nobody awaits it.
ReconnectTimer ==
  /\ Transport!ReconnectTimer
  /\ UNCHANGED <<state, listening, layerVars, callVars>>

-----------------------------------------------------------------------------
(* Authentication and session *)

\* encryption.enable and session.start, which throws on a transport that is not
\* connected (any more).
secureSession(c) ==
  /\ enable
  /\ state' = "establishing-session"
  /\ IF conn = "connected"
     THEN session' = "starting" /\ enter(c, "session") /\ UNCHANGED attempts
     ELSE UNCHANGED session /\ recover(c)

\* The load ends, whatever has happened to socket and state in the meantime.  A
\* protocol that authenticated once does not do so again; one that has no
\* credentials pairs first.  authenticate() throws while another one is under way
\* and with neither credentials nor a callback for the PIN.
Loaded(c) ==
  /\ connect[c].pc = "load"
  /\ IF authenticated
     THEN secureSession(c)
     ELSE /\ state' = "authenticating"
          /\ \/ \E m1 \in {"pair-m1", "verify-m1"} : enter(c, m1) /\ UNCHANGED attempts
             \/ recover(c)
          /\ UNCHANGED <<session, cipherVars>>
  /\ UNCHANGED <<transportVars, listening, authenticated, pairingTimer, authKeys,
                 tries, disconnect>>

\* Reading the file, or writing the date of last use to it, fails.
LoadFails(c) ==
  /\ connect[c].pc = "load"
  /\ recover(c)
  /\ UNCHANGED <<transportVars, state, listening, layerVars, tries, disconnect>>

\* Only now is the timer of the operation armed.
M1Sent(c) ==
  /\ online
  /\ \/ /\ connect[c].pc = "pair-m1" /\ enter(c, "pair")
        /\ pairingTimer' = TRUE
     \/ /\ connect[c].pc = "verify-m1" /\ enter(c, "verify")
        /\ UNCHANGED pairingTimer
  /\ UNCHANGED <<transportVars, state, listening, session, authenticated, authKeys,
                 cipherVars, attempts, tries, disconnect>>

M1Fails(c) ==
  /\ connect[c].pc \in {"pair-m1", "verify-m1"}
  /\ recover(c)
  /\ UNCHANGED <<transportVars, state, listening, layerVars, tries, disconnect>>

\* The device's last message of the pairing; its new credentials are verified.
Paired(c) ==
  /\ connect[c].pc = "pair"
  /\ listening /\ online
  /\ enter(c, "verify-m1")
  /\ UNCHANGED <<transportVars, state, listening, layerVars, attempts, tries, disconnect>>

\* The device's last message verifies the keys.
Authenticated(c) ==
  /\ connect[c].pc = "verify"
  /\ listening /\ online
  /\ authenticated' = TRUE /\ authKeys' = socket
  /\ enter(c, "save")
  /\ UNCHANGED <<transportVars, state, listening, session, pairingTimer, cipherVars,
                 attempts, tries, disconnect>>

\* A refusal, a later send that fails or the timer of the operation.
AuthFails(c) ==
  /\ connect[c].pc \in {"pair", "verify"}
  /\ recover(c)
  /\ UNCHANGED <<transportVars, state, listening, layerVars, tries, disconnect>>

\* The timer of a pairing resets the service, the keys excepted.
PairingTimeout ==
  /\ pairingTimer
  /\ pairingTimer' = FALSE /\ authenticated' = FALSE
  /\ UNCHANGED <<transportVars, state, listening, session, authKeys, cipherVars, callVars>>

\* The credentials are stored and the session starts.
Saved(c) ==
  /\ connect[c].pc = "save"
  /\ secureSession(c)
  /\ UNCHANGED <<transportVars, listening, authenticated, pairingTimer, authKeys,
                 tries, disconnect>>

SaveFails(c) ==
  /\ connect[c].pc = "save"
  /\ recover(c)
  /\ UNCHANGED <<transportVars, state, listening, layerVars, tries, disconnect>>

\* One frame that cannot be deciphered, which the channel only logs, puts the
\* layer into its error state; from then on it lets everything through as it is,
\* and nothing the device sends is understood.
DecryptFails ==
  /\ listening /\ encryption = "enabled"
  /\ \E n \in Sockets : status[n] = "open"
  /\ encryption' = "error"
  /\ UNCHANGED <<transportVars, state, listening, session, authenticated,
                 pairingTimer, authKeys, secured, callVars>>

\* The response of the device, which must hold the keys in use.
SessionGranted(c) ==
  /\ connect[c].pc = "session"
  /\ listening /\ online
  /\ encryption = "enabled" /\ secured = socket
  /\ session' = "active"
  /\ state' = "ready"
  /\ enter(c, "done")
  /\ attempts' = 0
  /\ UNCHANGED <<transportVars, listening, authenticated, pairingTimer, authKeys,
                 cipherVars, tries, disconnect>>

\* The session service sends its request again, stopped or not.
SessionRetries(c) ==
  /\ connect[c].pc = "session" /\ session # "starting"
  /\ session' = "starting"
  /\ UNCHANGED <<transportVars, state, listening, authenticated, pairingTimer,
                 authKeys, cipherVars, callVars>>

SessionFails(c) ==
  /\ connect[c].pc = "session"
  /\ session' = "error"
  /\ recover(c)
  /\ UNCHANGED <<transportVars, state, listening, authenticated, pairingTimer,
                 authKeys, cipherVars, tries, disconnect>>

-----------------------------------------------------------------------------
(* Disconnecting; when idle or disconnecting the call is ignored. *)

\* All after session.stop(): nothing in it waits.
closed(d) ==
  /\ disable
  /\ IF conn = "disconnected" THEN UNCHANGED transportVars ELSE Transport!disconnect
  /\ listening' = FALSE
  /\ state' = "idle"
  /\ disconnect' = [disconnect EXCEPT ![d] = "done"]
  /\ UNCHANGED <<authenticated, pairingTimer, authKeys, attempts, connect, tries>>

Disconnect(d) ==
  /\ disconnect[d] = "none" /\ state \notin {"idle", "disconnecting"}
  /\ session \notin {"active", "stopping"}
  /\ sessionStopped
  /\ closed(d)

DisconnectActive_StateLater(d) ==
  /\ disconnect[d] = "none" /\ state \notin {"idle", "disconnecting"}
  /\ session \in {"active", "stopping"}
  /\ session' = "stopping"
  /\ disconnect' = [disconnect EXCEPT ![d] = "stopping"]
  /\ UNCHANGED <<transportVars, state, listening, authenticated, pairingTimer,
                 authKeys, cipherVars, attempts, connect, tries>>

DisconnectActive_DisablesFirst(d) ==
  /\ disconnect[d] = "none" /\ state \notin {"idle", "disconnecting"}
  /\ session \in {"active", "stopping"}
  /\ state' = "disconnecting"
  /\ session' = "stopping" /\ disable
  /\ disconnect' = [disconnect EXCEPT ![d] = "stopping"]
  /\ UNCHANGED <<transportVars, listening, authenticated, pairingTimer, authKeys,
                 attempts, connect, tries>>

\* session.stop() sends a message and waits for the answer.
DisconnectActive(d) ==
  /\ disconnect[d] = "none" /\ state \notin {"idle", "disconnecting"}
  /\ session \in {"active", "stopping"}
  /\ state' = "disconnecting"
  /\ session' = "stopping"
  /\ disconnect' = [disconnect EXCEPT ![d] = "stopping"]
  /\ UNCHANGED <<transportVars, listening, authenticated, pairingTimer, authKeys,
                 cipherVars, attempts, connect, tries>>

\* The answer, a failed send or the timeout of the request.
DisconnectEnds(d) ==
  /\ disconnect[d] = "stopping"
  /\ session' = "stopped"
  /\ closed(d)

-----------------------------------------------------------------------------
AttemptStep(c) ==
  \/ Loaded(c) \/ LoadFails(c) \/ Paired(c) \/ Authenticated(c) \/ AuthFails(c)
  \/ Saved(c) \/ SaveFails(c) \/ SessionGranted(c) \/ SessionFails(c)

Next ==
  \/ \E c \in Connects : \/ Connect(c) \/ AttemptRefused(c) \/ AttemptBlocked(c)
                         \/ Attempt(c) \/ AttemptStep(c) \/ SessionRetries(c)
                         \/ M1Sent(c) \/ M1Fails(c)
  \/ \E n \in Sockets : \/ ConnectTimeout(n) \/ ConnectFails(n) \/ SocketOpen(n)
                        \/ SocketError(n) \/ SocketClose(n)
  \/ \E d \in Disconnects : Disconnect(d) \/ DisconnectActive(d) \/ DisconnectEnds(d)
  \/ ReconnectTimer \/ PairingTimeout \/ DecryptFails

Spec == Init /\ [][Next]_vars

\* Requests time out, authentications too once M1 is sent, files are read and
\* written and timers that are due fire in one of the turns of the event loop; the
\* network owes nothing, and M1 waits for it without a timer.
FairSpec ==
  /\ Spec
  /\ \A c \in Connects : WF_vars(AttemptStep(c))
  /\ \A n \in Sockets : SF_vars(ConnectTimeout(n))
  /\ \A d \in Disconnects : WF_vars(DisconnectEnds(d))

-----------------------------------------------------------------------------
(* Properties *)

\* Ready means ready: the socket is open, the encryption layer holds the keys that
\* were agreed on it, the device has granted the session and its loss would be
\* noticed.  A failed decryption is all that may have ended the enciphering.
ReadyIsUsable ==
  state = "ready" => /\ listening /\ online /\ session = "active"
                     /\ encryption # "disabled" /\ secured = socket

\* While the listeners are attached, no phase of setting up outlives its socket,
\* whoever awaits a file or the device at the time, from the load of the
\* credentials on (the "connectionStatus" handler).
LossNoticed ==
  listening =>
    /\ state \in {"authenticating", "establishing-session"} => online
    /\ \A c \in Connects : connect[c].pc = "load" => online

\* The keys stay until the session has ended: neither disconnect() nor a loss
\* disables encryption under the request that ends it (disconnect).
KeysOutliveSession ==
  session \in {"active", "stopping"} => encryption # "disabled" /\ secured # 0

\* "Commands happen inside an encrypted session" (layers/README.md), the command
\* that ends it included; a failed decryption changes that.
SessionEncrypted == session \in {"active", "stopping"} => encryption = "enabled"

\* No attempt hangs: whatever the network does and whoever disconnects
\* meanwhile, it returns to the recovery loop or connects, unless its M1 never
\* gets out: that send waits for the socket to drain, and no timer is armed yet.
AttemptEnds ==
  \A c \in Connects :
     connect[c].pc \in Attempting
        ~> \/ connect[c].pc \in {"sleep", "done"}
           \/ [](connect[c].pc \in {"pair-m1", "verify-m1"})

\* "Max recovery attempts reached" ends a call of connect().
RetriesBounded == \A c \in Connects : tries[c] <= MaxAttempts

\* Idle is documented as "Not connected".
IdleNotConnected == state = "idle" => conn # "connected"
=============================================================================

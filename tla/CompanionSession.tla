-------------------------- MODULE CompanionSession --------------------------
(***************************************************************************)
(* CompanionSessionService: session start, stop and retry over the         *)
(* encrypted Companion channel, and the correlation of requests with       *)
(* responses by transaction id (_x).                                       *)
(*                                                                         *)
(* One action is one run of the event loop between two awaits.  A call to  *)
(* start() that begins an establishment and a call to stop() that sends    *)
(* _sessionStop are coroutines, named by Starts and Stops; `tx' is the     *)
(* request a coroutine awaits.  The bytes of a message, session ids and    *)
(* dates are abstracted: sessionInfo is the request whose response set it. *)
(***************************************************************************)
EXTENDS Integers, FiniteSets

CONSTANTS
  MaxTx,       \* bound: transaction ids handed out
  MaxCommands, \* bound: requests and events sent by callers
  MaxRetries,  \* config.maxRetries
  AutoRetry,   \* config.autoRetry
  Starts,      \* calls of start() that begin an establishment
  Stops,       \* calls of stop() that find the session started
  NoStart,     \* establishmentPromise = undefined
  EventIds     \* ids the device may put as _x on messages that are no responses

Tx == 1..MaxTx

ASSUME SessionAssumption ==
  /\ MaxTx \in Nat /\ MaxCommands \in Nat /\ MaxRetries \in Nat
  /\ AutoRetry \in BOOLEAN
  /\ NoStart \notin Starts
  /\ EventIds \subseteq Tx

VARIABLES
  state,                \* _state
  sessionInfo,          \* _sessionInfo: 0 when undefined
  establishmentPromise,
  retryCount,
  transactionId,
  pendingRequests,      \* keys of the map
  timers,               \* requests whose setTimeout is armed
  promise,              \* what the sender of each request holds
  wire,                 \* what became of the bytes of each request
  replied,              \* requests whose id a message of the device has carried
  sent,                 \* ids of the callers' own requests and events
  start, stop,          \* the coroutines
  channel               \* the channel below: HapFramedChannel

requestVars == <<pendingRequests, timers, promise>>
sessionVars == <<state, sessionInfo, establishmentPromise, retryCount>>
vars == <<sessionVars, transactionId, requestVars, wire, replied, sent,
          start, stop, channel>>

SessionState == {"inactive", "starting", "active", "stopping", "stopped", "error"}
Outcome  == {"none", "pending", "resolved", "rejected"}
Wire     == {"unsent", "cipher", "clear", "failing", "failed"}
StartPc  == {"none", "await", "delay", "done", "failed"}
StopPc   == {"none", "await", "done"}

TypeOK ==
  /\ state \in SessionState
  /\ sessionInfo \in 0..MaxTx
  /\ establishmentPromise \in Starts \cup {NoStart}
  /\ retryCount \in 0..MaxRetries
  /\ transactionId \in 1..(MaxTx + 1)
  /\ pendingRequests \subseteq Tx /\ timers \subseteq Tx
  /\ promise \in [Tx -> Outcome]
  /\ wire \in [Tx -> Wire]
  /\ replied \subseteq Tx /\ sent \subseteq Tx
  /\ start \in [Starts -> [pc : StartPc, tx : 0..MaxTx]]
  /\ stop \in [Stops -> [pc : StopPc, tx : 0..MaxTx]]
  /\ channel \in {"down", "plain", "secure"}

Init ==
  /\ state = "inactive" /\ sessionInfo = 0
  /\ establishmentPromise = NoStart /\ retryCount = 0
  /\ transactionId = 1
  /\ pendingRequests = {} /\ timers = {}
  /\ promise = [x \in Tx |-> "none"]
  /\ wire = [x \in Tx |-> "unsent"]
  /\ replied = {} /\ sent = {}
  /\ start = [i \in Starts |-> [pc |-> "none", tx |-> 0]]
  /\ stop = [j \in Stops |-> [pc |-> "none", tx |-> 0]]
  /\ channel \in {"down", "plain", "secure"}

Establishing(i) == start[i].pc \in {"await", "delay"}

isActive == state = "active" /\ sessionInfo # 0

-----------------------------------------------------------------------------
(* Requests *)

\* Resolving or rejecting a promise that is already settled does nothing.
Settle(S, outcome) ==
  promise' = [x \in Tx |-> IF x \in S /\ promise[x] = "pending"
                           THEN outcome ELSE promise[x]]

getNextTransactionId ==
  /\ transactionId \in Tx
  /\ transactionId' = transactionId + 1

\* The bytes leave enciphered or, when encryption is off, as they are; on a
\* closed socket, or one that closes during a wait for drain, the send fails.
sendFrame ==
  \E w \in Wire :
     /\ \/ w = "failing"
        \/ w = "cipher" /\ channel = "secure"
        \/ w = "clear"  /\ channel = "plain"
     /\ wire' = [wire EXCEPT ![transactionId] = w]

sendRequestAndWaitForResponse ==
  /\ getNextTransactionId
  /\ timers' = timers \cup {transactionId}
  /\ pendingRequests' = pendingRequests \cup {transactionId}
  /\ promise' = [promise EXCEPT ![transactionId] = "pending"]
  /\ sendFrame

\* A caller's command; sendCommandRaw only warns when the session is inactive.
sendCommand ==
  /\ Cardinality(sent) < MaxCommands
  /\ sendRequestAndWaitForResponse
  /\ sent' = sent \cup {transactionId}
  /\ UNCHANGED <<sessionVars, replied, start, stop, channel>>

\* A caller's event: it gets an id and nobody waits for an answer.
sendMessage ==
  /\ Cardinality(sent) < MaxCommands
  /\ getNextTransactionId
  /\ sendFrame
  /\ sent' = sent \cup {transactionId}
  /\ UNCHANGED <<sessionVars, requestVars, replied, start, stop, channel>>

SendFails_NoReject(x) ==
  /\ wire[x] = "failing"
  /\ wire' = [wire EXCEPT ![x] = "failed"]
  /\ timers' = timers \ {x}
  /\ pendingRequests' = pendingRequests \ {x}
  /\ UNCHANGED <<sessionVars, transactionId, promise, replied, sent, start, stop,
                 channel>>

\* The promise of the send rejects and its catch handler runs.
SendFails(x) ==
  /\ wire[x] = "failing"
  /\ wire' = [wire EXCEPT ![x] = "failed"]
  /\ timers' = timers \ {x}
  /\ pendingRequests' = pendingRequests \ {x}
  /\ Settle({x}, "rejected")
  /\ UNCHANGED <<sessionVars, transactionId, replied, sent, start, stop, channel>>

Timeout_KeepsEntry(x) ==
  /\ x \in timers
  /\ timers' = timers \ {x}
  /\ Settle({x}, "rejected")
  /\ UNCHANGED <<sessionVars, pendingRequests, transactionId, wire, replied, sent,
                 start, stop, channel>>

Timeout(x) ==
  /\ x \in timers
  /\ timers' = timers \ {x}
  /\ pendingRequests' = pendingRequests \ {x}
  /\ Settle({x}, "rejected")
  /\ UNCHANGED <<sessionVars, transactionId, wire, replied, sent, start, stop, channel>>

\* Messages matched to requests by their order, as HttpFramedChannel does.
handleMessage_Oldest(x) ==
  IF pendingRequests # {}
  THEN \E y \in pendingRequests, o \in {"resolved", "rejected"} :
         /\ \A z \in pendingRequests : y <= z
         /\ timers' = timers \ {y}
         /\ pendingRequests' = pendingRequests \ {y}
         /\ Settle({y}, o)
  ELSE UNCHANGED requestVars

\* A message with _x = x, of whatever type _t, settles the pending request of
\* that id, with an error when it carries _em or _ec; without a pending request
\* it is passed on as unsolicited.
handleMessage(x) ==
  IF x \in pendingRequests
  THEN /\ timers' = timers \ {x}
       /\ pendingRequests' = pendingRequests \ {x}
       /\ \E o \in {"resolved", "rejected"} : Settle({x}, o)
  ELSE UNCHANGED requestVars

\* The device answers a request it could decipher, once, in any order.  Of the
\* messages with one id only the first can find the request pending.
Response(x) ==
  /\ channel = "secure"
  /\ wire[x] = "cipher" /\ promise[x] # "none" /\ x \notin replied
  /\ replied' = replied \cup {x}
  /\ handleMessage(x)
  /\ UNCHANGED <<sessionVars, transactionId, wire, sent, start, stop, channel>>

\* A message of the device that is no response and carries an id of its own,
\* which may be the id of a request, answered or not.
DeviceMessage(x) ==
  /\ channel = "secure"
  /\ handleMessage(x)
  /\ replied' = IF promise[x] = "none" THEN replied ELSE replied \cup {x}
  /\ UNCHANGED <<sessionVars, transactionId, wire, sent, start, stop, channel>>

-----------------------------------------------------------------------------
(* Session start *)

performSessionStart(i) ==
  /\ state' = "starting"
  /\ sendRequestAndWaitForResponse
  /\ start' = [start EXCEPT ![i] = [pc |-> "await", tx |-> transactionId]]

Start_NoJoin(i) ==
  /\ start[i].pc = "none"
  /\ channel = "secure"
  /\ ~isActive
  /\ performSessionStart(i)
  /\ establishmentPromise' = i
  /\ UNCHANGED <<sessionInfo, retryCount, replied, sent, stop, channel>>

\* start(): the calls that throw (channel), return the running session or
\* join the running establishment leave the state as it is.
Start(i) ==
  /\ start[i].pc = "none"
  /\ channel = "secure"
  /\ ~isActive
  /\ ~(state = "starting" /\ establishmentPromise # NoStart)
  /\ performSessionStart(i)
  /\ establishmentPromise' = i
  /\ UNCHANGED <<sessionInfo, retryCount, replied, sent, stop, channel>>

createSessionInfo_AnyOutcome(i) ==
  /\ start[i].pc = "await" /\ promise[start[i].tx] # "pending"
  /\ sessionInfo' = start[i].tx
  /\ state' = "active"
  /\ start' = [start EXCEPT ![i].pc = "done"]
  /\ UNCHANGED <<establishmentPromise, retryCount, transactionId, requestVars,
                 wire, replied, sent, stop, channel>>

createSessionInfo(i) ==
  /\ start[i].pc = "await" /\ promise[start[i].tx] = "resolved"
  /\ sessionInfo' = start[i].tx
  /\ state' = "active"
  /\ start' = [start EXCEPT ![i].pc = "done"]
  /\ UNCHANGED <<establishmentPromise, retryCount, transactionId, requestVars,
                 wire, replied, sent, stop, channel>>

\* The request failed, or its response does not carry a session id.
StartFailed(i) ==
  start[i].pc = "await" /\ promise[start[i].tx] \in {"resolved", "rejected"}

StartBackoff_NotCounted(i) ==
  /\ StartFailed(i)
  /\ AutoRetry /\ retryCount < MaxRetries
  /\ start' = [start EXCEPT ![i].pc = "delay"]
  /\ UNCHANGED <<sessionVars, transactionId, requestVars, wire, replied, sent,
                 stop, channel>>

StartBackoff(i) ==
  /\ StartFailed(i)
  /\ AutoRetry /\ retryCount < MaxRetries
  /\ retryCount' = retryCount + 1
  /\ start' = [start EXCEPT ![i].pc = "delay"]
  /\ UNCHANGED <<state, sessionInfo, establishmentPromise, transactionId,
                 requestVars, wire, replied, sent, stop, channel>>

StartRetry(i) ==
  /\ start[i].pc = "delay"
  /\ performSessionStart(i)
  /\ UNCHANGED <<sessionInfo, establishmentPromise, retryCount, replied, sent,
                 stop, channel>>

StartGivesUp(i) ==
  /\ StartFailed(i)
  /\ ~(AutoRetry /\ retryCount < MaxRetries)
  /\ state' = "error"
  /\ start' = [start EXCEPT ![i].pc = "failed"]
  /\ UNCHANGED <<sessionInfo, establishmentPromise, retryCount, transactionId,
                 requestVars, wire, replied, sent, stop, channel>>

-----------------------------------------------------------------------------
(* Session stop; in "inactive" and "stopped" stop() returns at once. *)

cleanup ==
  /\ timers' = timers \ pendingRequests
  /\ Settle(pendingRequests, "rejected")
  /\ pendingRequests' = {}
  /\ sessionInfo' = 0
  /\ establishmentPromise' = NoStart
  /\ retryCount' = 0

\* Without a session there is nothing to send: stop() returns after one step.
StopUnestablished(j) ==
  /\ stop[j].pc = "none"
  /\ state \notin {"inactive", "stopped"} /\ sessionInfo = 0
  /\ state' = "stopped"
  /\ stop' = [stop EXCEPT ![j].pc = "done"]
  /\ UNCHANGED <<sessionInfo, establishmentPromise, retryCount, transactionId,
                 requestVars, wire, replied, sent, start, channel>>

Stop(j) ==
  /\ stop[j].pc = "none"
  /\ state \notin {"inactive", "stopped"} /\ sessionInfo # 0
  /\ state' = "stopping"
  /\ sendRequestAndWaitForResponse
  /\ stop' = [stop EXCEPT ![j] = [pc |-> "await", tx |-> transactionId]]
  /\ UNCHANGED <<sessionInfo, establishmentPromise, retryCount, replied, sent,
                 start, channel>>

StopEnds(j) ==
  /\ stop[j].pc = "await" /\ promise[stop[j].tx] # "pending"
  /\ cleanup
  /\ state' = "stopped"
  /\ stop' = [stop EXCEPT ![j].pc = "done"]
  /\ UNCHANGED <<transactionId, wire, replied, sent, start, channel>>

-----------------------------------------------------------------------------
(* The channel below connects, turns encryption on and off, and goes down. *)
ChannelChange ==
  /\ channel' \in {"down", "plain", "secure"} \ {channel}
  /\ ~(channel = "down" /\ channel' = "secure")
  /\ UNCHANGED <<sessionVars, transactionId, requestVars, wire, replied, sent, start, stop>>

StartStep(i) == createSessionInfo(i) \/ StartBackoff(i) \/ StartRetry(i) \/ StartGivesUp(i)

Next ==
  \/ sendCommand \/ sendMessage \/ ChannelChange
  \/ \E x \in Tx : SendFails(x) \/ Timeout(x) \/ Response(x)
  \/ \E x \in EventIds : DeviceMessage(x)
  \/ \E i \in Starts : Start(i) \/ StartStep(i)
  \/ \E j \in Stops : StopUnestablished(j) \/ Stop(j) \/ StopEnds(j)

Spec == Init /\ [][Next]_vars

\* The event loop fires timers that are due and runs continuations that are
\* ready; callers, the device and the socket owe nothing.
Fairness ==
  /\ \A x \in Tx : WF_vars(Timeout(x))
  /\ \A i \in Starts : WF_vars(StartStep(i))
  /\ \A j \in Stops : WF_vars(StopEnds(j))

FairSpec == Spec /\ Fairness

-----------------------------------------------------------------------------
(* Properties.  Definitions named <action>_<fault> above are faulty variants *)
(* of an action, used to see that the properties notice the fault.           *)

\* The map of pending requests, the armed timers and the unsettled promises
\* always name the same requests: no caller waits without a timer that ends
\* the wait, no timer outlives its request, no entry leaks
\* (sendRequestAndWaitForResponse, handleMessage, cleanup).
PendingConsistent ==
  /\ pendingRequests = {x \in Tx : promise[x] = "pending"}
  /\ timers = pendingRequests

\* While nobody has called stop(), concurrent calls of start() share one
\* establishment: two loops never send _sessionStart side by side.
SingleEstablishment ==
  (\A j \in Stops : stop[j].pc = "none") =>
     \A i, k \in Starts : Establishing(i) /\ Establishing(k) => i = k

\* An active session is one the device granted: sessionInfo is the message that
\* carried the id of the _sessionStart of a start() that returned it, and never
\* a request that timed out, failed or was given up.
ActiveWasGranted ==
  state = "active" =>
     /\ \E i \in Starts : start[i] = [pc |-> "done", tx |-> sessionInfo]
     /\ sessionInfo \in replied
     /\ promise[sessionInfo] = "resolved"

\* Every call of start() returns or throws: timeouts, refusals and stops by
\* others use the retries up (performSessionStart).
StartTerminates ==
  \A i \in Starts : Establishing(i) ~> (start[i].pc \in {"done", "failed"})

\* Callers see exactly the table of requests RequestTable promises, whatever ids
\* the device's own messages carry: one outcome for each request, success only
\* by a message of the device that carries its id (handleMessage 387-390).
Requests == INSTANCE RequestTable
RequestsSafe == Requests!Spec

\* Nobody waits for ever: each request is settled in the end, whatever fails.
RequestsSettle == Requests!EveryRequestSettles

\* Stopped is documented as "Session ended": only a new call of start() may
\* take the service out of it.
StopIsFinal ==
  [][state = "stopped" /\ state' # "stopped" =>
       \E i \in Starts : start[i].pc = "none" /\ start'[i].pc # "none"]_vars
=============================================================================

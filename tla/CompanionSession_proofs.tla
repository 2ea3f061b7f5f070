----------------------- MODULE CompanionSession_proofs -----------------------
(***************************************************************************)
(* Proofs about CompanionSession, for any number of requests, callers,     *)
(* starts, stops and retries.                                              *)
(***************************************************************************)
EXTENDS CompanionSession, TLAPS

USE DEF Tx, sessionVars, requestVars

-----------------------------------------------------------------------------
(* Types *)

\* What sending a request does to the variables it writes.
LEMMA SendTypes ==
  ASSUME SessionAssumption, TypeOK, sendRequestAndWaitForResponse
  PROVE  /\ transactionId \in Tx
         /\ transactionId' \in 1..(MaxTx + 1)
         /\ pendingRequests' \subseteq Tx /\ timers' \subseteq Tx
         /\ promise' \in [Tx -> Outcome]
         /\ wire' \in [Tx -> Wire]
<1>1. transactionId \in Tx /\ transactionId' = transactionId + 1
  BY DEF sendRequestAndWaitForResponse, getNextTransactionId
<1>2. promise' \in [Tx -> Outcome]
  BY <1>1 DEF sendRequestAndWaitForResponse, TypeOK, Outcome
<1>3. wire' \in [Tx -> Wire]
  <2>1. PICK w \in Wire : wire' = [wire EXCEPT ![transactionId] = w]
    BY DEF sendRequestAndWaitForResponse, sendFrame
  <2> QED  BY <2>1 DEF TypeOK
<1> QED  BY <1>1, <1>2, <1>3 DEF sendRequestAndWaitForResponse, TypeOK, SessionAssumption

\* Settling keeps the type of the promises.
LEMMA SettleTypes ==
  ASSUME TypeOK, NEW S, NEW o \in Outcome, Settle(S, o)
  PROVE  promise' \in [Tx -> Outcome]
BY DEF Settle, TypeOK, Outcome

\* handleMessage keeps the types of the request table.
LEMMA HandleTypes ==
  ASSUME TypeOK, NEW x \in Tx, handleMessage(x)
  PROVE  /\ pendingRequests' \subseteq Tx /\ timers' \subseteq Tx
         /\ promise' \in [Tx -> Outcome]
<1>1. CASE x \in pendingRequests
  <2>1. PICK o \in Outcome : Settle({x}, o)
    BY <1>1 DEF handleMessage, Outcome
  <2> QED  BY <1>1, <2>1, SettleTypes DEF handleMessage, TypeOK
<1>2. CASE x \notin pendingRequests
  BY <1>2 DEF handleMessage, TypeOK
<1> QED  BY <1>1, <1>2

\* Every variable keeps its type (all of CompanionSessionService).
THEOREM TypeCorrect == Spec => []TypeOK
<1>1. Init => TypeOK
  BY SessionAssumption DEF Init, TypeOK, SessionState, Outcome, Wire, StartPc, StopPc
<1>2. TypeOK /\ [Next]_vars => TypeOK'
  <2> SUFFICES ASSUME TypeOK, [Next]_vars PROVE TypeOK'
    OBVIOUS
  <2>1. CASE sendCommand
    BY <2>1, SendTypes, SessionAssumption DEF sendCommand, TypeOK
  <2>2. CASE sendMessage
    <3>1. PICK w \in Wire : wire' = [wire EXCEPT ![transactionId] = w]
      BY <2>2 DEF sendMessage, sendFrame
    <3>2. wire' \in [Tx -> Wire] /\ transactionId' \in 1..(MaxTx + 1) /\ sent' \subseteq Tx
      BY <2>2, <3>1, SessionAssumption DEF sendMessage, getNextTransactionId, TypeOK
    <3> QED  BY <2>2, <3>2 DEF sendMessage, TypeOK
  <2>3. CASE ChannelChange
    BY <2>3 DEF ChannelChange, TypeOK
  <2>4. ASSUME NEW x \in Tx, SendFails(x) PROVE TypeOK'
    <3>1. promise' \in [Tx -> Outcome]
      BY <2>4, SettleTypes DEF SendFails, Outcome
    <3> QED  BY <2>4, <3>1 DEF SendFails, TypeOK, Wire
  <2>5. ASSUME NEW x \in Tx, Timeout(x) PROVE TypeOK'
    <3>1. promise' \in [Tx -> Outcome]
      BY <2>5, SettleTypes DEF Timeout, Outcome
    <3> QED  BY <2>5, <3>1 DEF Timeout, TypeOK
  <2>6. ASSUME NEW x \in Tx, Response(x) PROVE TypeOK'
    BY <2>6, HandleTypes DEF Response, TypeOK
  <2>7. ASSUME NEW x \in EventIds, DeviceMessage(x) PROVE TypeOK'
    BY <2>7, HandleTypes, SessionAssumption DEF DeviceMessage, TypeOK
  <2>8. ASSUME NEW i \in Starts, Start(i) PROVE TypeOK'
    BY <2>8, SendTypes, SessionAssumption
      DEF Start, performSessionStart, TypeOK, SessionState, StartPc
  <2>9. ASSUME NEW i \in Starts, createSessionInfo(i) PROVE TypeOK'
    BY <2>9 DEF createSessionInfo, TypeOK, SessionState, StartPc
  <2>10. ASSUME NEW i \in Starts, StartBackoff(i) PROVE TypeOK'
    <3>1. retryCount < MaxRetries /\ retryCount' = retryCount + 1
      BY <2>10 DEF StartBackoff
    <3>2. start' = [start EXCEPT ![i].pc = "delay"]
      BY <2>10 DEF StartBackoff
    <3>3. retryCount' \in 0..MaxRetries
      BY <3>1, SessionAssumption DEF TypeOK
    <3>4. start' \in [Starts -> [pc : StartPc, tx : 0..MaxTx]]
      BY <3>2 DEF TypeOK, StartPc
    <3> QED  BY <2>10, <3>3, <3>4, Zenon DEF StartBackoff, TypeOK
  <2>11. ASSUME NEW i \in Starts, StartRetry(i) PROVE TypeOK'
    BY <2>11, SendTypes, SessionAssumption
      DEF StartRetry, performSessionStart, TypeOK, SessionState, StartPc
  <2>12. ASSUME NEW i \in Starts, StartGivesUp(i) PROVE TypeOK'
    BY <2>12 DEF StartGivesUp, TypeOK, SessionState, StartPc
  <2>13. ASSUME NEW j \in Stops, StopUnestablished(j) PROVE TypeOK'
    BY <2>13 DEF StopUnestablished, TypeOK, SessionState, StopPc
  <2>14. ASSUME NEW j \in Stops, Stop(j) PROVE TypeOK'
    BY <2>14, SendTypes, SessionAssumption DEF Stop, TypeOK, SessionState, StopPc
  <2>15. ASSUME NEW j \in Stops, StopEnds(j) PROVE TypeOK'
    <3>1. promise' \in [Tx -> Outcome]
      BY <2>15, SettleTypes DEF StopEnds, cleanup, Outcome
    <3> QED  BY <2>15, <3>1, SessionAssumption
               DEF StopEnds, cleanup, TypeOK, SessionState, StopPc
  <2>16. CASE UNCHANGED vars
    BY <2>16 DEF vars, TypeOK
  <2> QED
    BY <2>1, <2>2, <2>3, <2>4, <2>5, <2>6, <2>7, <2>8, <2>9, <2>10, <2>11,
       <2>12, <2>13, <2>14, <2>15, <2>16 DEF Next, StartStep
<1> QED  BY <1>1, <1>2, PTL DEF Spec

-----------------------------------------------------------------------------
(* The table of requests *)

\* Ids not handed out yet belong to no request.
FreshIds == \A x \in Tx : x >= transactionId => promise[x] = "none"

RequestInv == PendingConsistent /\ FreshIds

\* The first message with the id of a request leaves it settled.
HeardAreSettled == \A x \in replied : promise[x] \notin {"none", "pending"}

\* Sending a request adds it to map, timers and promises alike.
LEMMA SendKeepsRequests ==
  ASSUME SessionAssumption, TypeOK, RequestInv, sendRequestAndWaitForResponse
  PROVE  RequestInv'
<1>1. transactionId \in Tx /\ transactionId' = transactionId + 1
  BY DEF sendRequestAndWaitForResponse, getNextTransactionId
<1>2. promise' = [promise EXCEPT ![transactionId] = "pending"]
  BY DEF sendRequestAndWaitForResponse
<1>3. PendingConsistent'
  BY <1>1, <1>2 DEF sendRequestAndWaitForResponse, PendingConsistent, RequestInv, TypeOK
<1>4. FreshIds'
  BY <1>1, <1>2, SessionAssumption DEF RequestInv, FreshIds, TypeOK, SessionAssumption
<1> QED  BY <1>3, <1>4 DEF RequestInv

\* Settling a set of requests and striking it from map and timers.
LEMMA SettleKeepsRequests ==
  ASSUME TypeOK, RequestInv, NEW S, NEW o \in {"resolved", "rejected"}, Settle(S, o),
         pendingRequests' = pendingRequests \ S, timers' = timers \ S,
         transactionId' = transactionId
  PROVE  RequestInv'
<1>1. PendingConsistent'
  BY DEF Settle, PendingConsistent, RequestInv, TypeOK
<1>2. FreshIds'
  BY DEF Settle, FreshIds, RequestInv
<1> QED  BY <1>1, <1>2 DEF RequestInv

\* A step that touches neither the table nor the counter.
LEMMA IdleKeepsRequests ==
  ASSUME RequestInv, UNCHANGED requestVars, UNCHANGED transactionId
  PROVE  RequestInv'
BY DEF RequestInv, PendingConsistent, FreshIds

\* A message settles its request, or changes nothing.
LEMMA HandleKeepsRequests ==
  ASSUME TypeOK, RequestInv, NEW x \in Tx, handleMessage(x), transactionId' = transactionId
  PROVE  RequestInv'
<1>1. CASE x \in pendingRequests
  <2>1. PICK o \in {"resolved", "rejected"} : Settle({x}, o)
    BY <1>1 DEF handleMessage
  <2> QED  BY <1>1, <2>1, SettleKeepsRequests DEF handleMessage
<1>2. CASE x \notin pendingRequests
  BY <1>2, IdleKeepsRequests DEF handleMessage
<1> QED  BY <1>1, <1>2

LEMMA RequestInvStep == TypeOK /\ RequestInv /\ [Next]_vars => RequestInv'
<1> SUFFICES ASSUME TypeOK, RequestInv, [Next]_vars PROVE RequestInv'
  OBVIOUS
<1>1. CASE sendCommand
  BY <1>1, SendKeepsRequests, SessionAssumption DEF sendCommand
<1>2. CASE sendMessage
  <2>1. UNCHANGED requestVars /\ transactionId \in Tx /\ transactionId' = transactionId + 1
    BY <1>2 DEF sendMessage, getNextTransactionId
  <2>2. FreshIds'
    BY <2>1, SessionAssumption DEF RequestInv, FreshIds, SessionAssumption
  <2> QED  BY <2>1, <2>2 DEF RequestInv, PendingConsistent
<1>3. CASE ChannelChange
  BY <1>3, IdleKeepsRequests DEF ChannelChange
<1>4. ASSUME NEW x \in Tx, SendFails(x) PROVE RequestInv'
  BY <1>4, SettleKeepsRequests DEF SendFails
<1>5. ASSUME NEW x \in Tx, Timeout(x) PROVE RequestInv'
  BY <1>5, SettleKeepsRequests DEF Timeout
<1>6. ASSUME NEW x \in Tx, Response(x) PROVE RequestInv'
  BY <1>6, HandleKeepsRequests DEF Response
<1>7. ASSUME NEW x \in EventIds, DeviceMessage(x) PROVE RequestInv'
  BY <1>7, HandleKeepsRequests, SessionAssumption DEF DeviceMessage, SessionAssumption
<1>8. ASSUME NEW i \in Starts, Start(i) PROVE RequestInv'
  BY <1>8, SendKeepsRequests, SessionAssumption DEF Start, performSessionStart
<1>9. ASSUME NEW i \in Starts, StartStep(i) PROVE RequestInv'
  <2>1. CASE createSessionInfo(i)
    BY <2>1, IdleKeepsRequests DEF createSessionInfo
  <2>2. CASE StartBackoff(i)
    BY <2>2, IdleKeepsRequests DEF StartBackoff
  <2>3. CASE StartRetry(i)
    BY <2>3, SendKeepsRequests, SessionAssumption DEF StartRetry, performSessionStart
  <2>4. CASE StartGivesUp(i)
    BY <2>4, IdleKeepsRequests DEF StartGivesUp
  <2> QED  BY <1>9, <2>1, <2>2, <2>3, <2>4 DEF StartStep
<1>10. ASSUME NEW j \in Stops, StopUnestablished(j) PROVE RequestInv'
  BY <1>10, IdleKeepsRequests DEF StopUnestablished
<1>11. ASSUME NEW j \in Stops, Stop(j) PROVE RequestInv'
  BY <1>11, SendKeepsRequests, SessionAssumption DEF Stop
<1>12. ASSUME NEW j \in Stops, StopEnds(j) PROVE RequestInv'
  BY <1>12, SettleKeepsRequests DEF StopEnds, cleanup
<1>13. CASE UNCHANGED vars
  BY <1>13, IdleKeepsRequests DEF vars
<1> QED
  BY <1>1, <1>2, <1>3, <1>4, <1>5, <1>6, <1>7, <1>8, <1>9, <1>10, <1>11, <1>12, <1>13
  DEF Next

LEMMA RequestInvariant == Spec => []RequestInv
<1>1. Init => RequestInv
  BY DEF Init, RequestInv, PendingConsistent, FreshIds
<1> QED  BY <1>1, RequestInvStep, TypeCorrect, PTL DEF Spec

\* Map, timers and unsettled promises always name the same requests
\* (sendRequestAndWaitForResponse, handleMessage, cleanup).
THEOREM PendingIsConsistent == Spec => []PendingConsistent
BY RequestInvariant, PTL DEF RequestInv

-----------------------------------------------------------------------------
(* The service implements the abstract request table *)

\* Sending a request is issuing it in the table.
LEMMA SendIsIssue ==
  ASSUME RequestInv, sendRequestAndWaitForResponse, replied' = replied
  PROVE  Requests!Next
<1>1. transactionId \in Tx /\ promise' = [promise EXCEPT ![transactionId] = "pending"]
  BY DEF sendRequestAndWaitForResponse, getNextTransactionId
<1>2. promise[transactionId] = "none"
  BY <1>1 DEF RequestInv, FreshIds
<1> QED  BY <1>1, <1>2 DEF Requests!Next, Requests!Issue

\* Rejecting what is pending in a set of requests is a failure in the table.
LEMMA RejectIsFail ==
  ASSUME TypeOK, NEW S \in SUBSET Tx, Settle(S, "rejected"), replied' = replied
  PROVE  Requests!Next
<1> DEFINE P == {x \in S : promise[x] = "pending"}
<1>1. promise' = [x \in Tx |-> IF x \in P THEN "rejected" ELSE promise[x]]
  BY DEF Settle
<1>2. Requests!Fail(P)
  BY <1>1 DEF Requests!Fail
<1> QED  BY <1>2 DEF Requests!Next

\* A message of the device with the id of a request is a reply in the table
\* when it is the first one, and nothing in it afterwards.
LEMMA HandleIsReply ==
  ASSUME TypeOK, RequestInv, HeardAreSettled, NEW x \in Tx, handleMessage(x),
         replied' = IF promise[x] = "none" THEN replied ELSE replied \cup {x}
  PROVE  Requests!Next \/ UNCHANGED <<promise, replied>>
<1>1. CASE x \in pendingRequests
  <2>1. PICK o \in {"resolved", "rejected"} : Settle({x}, o)
    BY <1>1 DEF handleMessage
  <2>2. promise[x] = "pending"
    BY <1>1 DEF RequestInv, PendingConsistent
  <2>3. promise' = [promise EXCEPT ![x] = o]
    BY <2>1, <2>2 DEF Settle, TypeOK
  <2>4. x \notin replied /\ replied' = replied \cup {x}
    BY <2>2 DEF HeardAreSettled
  <2> QED  BY <2>2, <2>3, <2>4 DEF Requests!Next, Requests!Reply
<1>2. CASE x \notin pendingRequests
  <2>1. promise[x] # "pending" /\ UNCHANGED promise
    BY <1>2 DEF handleMessage, RequestInv, PendingConsistent
  <2> QED  BY <2>1 DEF Requests!Next, Requests!Reply
<1> QED  BY <1>1, <1>2

LEMMA HeardStep == TypeOK /\ RequestInv /\ HeardAreSettled /\ [Next]_vars => HeardAreSettled'
<1> SUFFICES ASSUME TypeOK, RequestInv, HeardAreSettled, [Next]_vars,
                    NEW x \in replied'
             PROVE  promise'[x] \notin {"none", "pending"}
  BY DEF HeardAreSettled
<1> USE DEF HeardAreSettled, TypeOK
<1>1. CASE sendRequestAndWaitForResponse /\ replied' = replied
  <2>1. promise[transactionId] = "none"
    BY <1>1 DEF sendRequestAndWaitForResponse, getNextTransactionId, RequestInv, FreshIds
  <2> QED  BY <1>1, <2>1 DEF sendRequestAndWaitForResponse
<1>2. ASSUME NEW S, Settle(S, "rejected"), replied' = replied
      PROVE  promise'[x] \notin {"none", "pending"}
  BY <1>2 DEF Settle
<1>3. ASSUME NEW y \in Tx, Response(y) \/ DeviceMessage(y)
      PROVE  promise'[x] \notin {"none", "pending"}
  <2>1. handleMessage(y) /\ (x \in replied \/ (x = y /\ promise[y] # "none"))
    BY <1>3 DEF Response, DeviceMessage
  <2>2. CASE y \in pendingRequests
    <3>1. PICK o \in {"resolved", "rejected"} : Settle({y}, o)
      BY <2>1, <2>2 DEF handleMessage
    <3> QED  BY <2>1, <3>1 DEF Settle
  <2>3. CASE y \notin pendingRequests
    BY <2>1, <2>3 DEF handleMessage, RequestInv, PendingConsistent
  <2> QED  BY <2>2, <2>3
<1>4. CASE UNCHANGED <<promise, replied>>
  BY <1>4
<1>5. ASSUME NEW y \in Tx, SendFails(y) \/ Timeout(y)
      PROVE  promise'[x] \notin {"none", "pending"}
  BY <1>5, <1>2 DEF SendFails, Timeout
<1>6. ASSUME NEW i \in Starts, Start(i) \/ StartStep(i)
      PROVE  promise'[x] \notin {"none", "pending"}
  BY <1>6, <1>1, <1>4 DEF Start, StartStep, StartRetry, performSessionStart,
     createSessionInfo, StartBackoff, StartGivesUp
<1>7. ASSUME NEW j \in Stops, StopUnestablished(j) \/ Stop(j) \/ StopEnds(j)
      PROVE  promise'[x] \notin {"none", "pending"}
  BY <1>7, <1>1, <1>2, <1>4 DEF StopUnestablished, Stop, StopEnds, cleanup
<1>8. CASE sendCommand \/ sendMessage \/ ChannelChange \/ UNCHANGED vars
  BY <1>8, <1>1, <1>4 DEF sendCommand, sendMessage, ChannelChange, vars
<1> QED
  BY <1>3, <1>5, <1>6, <1>7, <1>8, SessionAssumption DEF Next, SessionAssumption

LEMMA HeardInvariant == Spec => []HeardAreSettled
<1>1. Init => HeardAreSettled
  BY DEF Init, HeardAreSettled
<1> QED  BY <1>1, HeardStep, TypeCorrect, RequestInvariant, PTL DEF Spec

\* Whatever ids the device puts on messages of its own, callers see exactly the
\* table of requests: one outcome each, success only by the first message that
\* carries the id of the request (handleMessage 387-390).
THEOREM RequestsImplemented == Spec => RequestsSafe
<1>1. Init => Requests!Init
  BY DEF Init, Requests!Init
<1>2. TypeOK /\ RequestInv /\ HeardAreSettled /\ [Next]_vars
        => [Requests!Next]_(Requests!vars)
  <2> SUFFICES ASSUME TypeOK, RequestInv, HeardAreSettled, [Next]_vars
               PROVE  Requests!Next \/ UNCHANGED <<promise, replied>>
    BY DEF Requests!vars
  <2>1. CASE sendCommand
    BY <2>1, SendIsIssue DEF sendCommand
  <2>2. CASE sendMessage \/ ChannelChange \/ UNCHANGED vars
    BY <2>2 DEF sendMessage, ChannelChange, vars
  <2>3. ASSUME NEW x \in Tx, SendFails(x) \/ Timeout(x)
        PROVE  Requests!Next
    BY <2>3, RejectIsFail DEF SendFails, Timeout
  <2>4. ASSUME NEW x \in Tx, Response(x) \/ DeviceMessage(x)
        PROVE  Requests!Next \/ UNCHANGED <<promise, replied>>
    BY <2>4, HandleIsReply DEF Response, DeviceMessage
  <2>5. ASSUME NEW i \in Starts, Start(i) \/ StartStep(i)
        PROVE  Requests!Next \/ UNCHANGED <<promise, replied>>
    <3>1. CASE Start(i) \/ StartRetry(i)
      BY <3>1, SendIsIssue DEF Start, StartRetry, performSessionStart
    <3>2. CASE createSessionInfo(i) \/ StartBackoff(i) \/ StartGivesUp(i)
      BY <3>2 DEF createSessionInfo, StartBackoff, StartGivesUp
    <3> QED  BY <2>5, <3>1, <3>2 DEF StartStep
  <2>6. ASSUME NEW j \in Stops, StopUnestablished(j) \/ Stop(j) \/ StopEnds(j)
        PROVE  Requests!Next \/ UNCHANGED <<promise, replied>>
    <3>1. CASE StopUnestablished(j)
      BY <3>1 DEF StopUnestablished
    <3>2. CASE Stop(j)
      BY <3>2, SendIsIssue DEF Stop
    <3>3. CASE StopEnds(j)
      BY <3>3, RejectIsFail DEF StopEnds, cleanup, TypeOK
    <3> QED  BY <2>6, <3>1, <3>2, <3>3
  <2> QED
    BY <2>1, <2>2, <2>3, <2>4, <2>5, <2>6, SessionAssumption DEF Next, SessionAssumption
<1> QED
  BY <1>1, <1>2, TypeCorrect, RequestInvariant, HeardInvariant, PTL
  DEF Spec, RequestsSafe, Requests!Spec

-----------------------------------------------------------------------------
(* One establishment at a time *)

\* Until the first stop(), a running establishment owns state and promise.
LiveStartOwns ==
  (\A j \in Stops : stop[j].pc = "none") =>
     \A i \in Starts : Establishing(i) =>
        state = "starting" /\ establishmentPromise = i

LEMMA LiveStartStep == TypeOK /\ LiveStartOwns /\ [Next]_vars => LiveStartOwns'
<1> SUFFICES ASSUME TypeOK, LiveStartOwns, [Next]_vars,
                    \A j \in Stops : stop'[j].pc = "none",
                    NEW i \in Starts, Establishing(i)'
             PROVE  state' = "starting" /\ establishmentPromise' = i
  BY DEF LiveStartOwns
<1> USE DEF LiveStartOwns, TypeOK, Establishing
<1>1. CASE UNCHANGED <<state, establishmentPromise, start, stop>>
  BY <1>1
<1>2. ASSUME NEW k \in Starts, Start(k)
      PROVE  state' = "starting" /\ establishmentPromise' = i
  BY <1>2, SessionAssumption DEF Start, performSessionStart, isActive, SessionAssumption
<1>3. ASSUME NEW k \in Starts, createSessionInfo(k) \/ StartGivesUp(k)
      PROVE  state' = "starting" /\ establishmentPromise' = i
  BY <1>3 DEF createSessionInfo, StartGivesUp, StartFailed
<1>4. ASSUME NEW k \in Starts, StartBackoff(k)
      PROVE  state' = "starting" /\ establishmentPromise' = i
  BY <1>4 DEF StartBackoff, StartFailed
<1>5. ASSUME NEW k \in Starts, StartRetry(k)
      PROVE  state' = "starting" /\ establishmentPromise' = i
  BY <1>5 DEF StartRetry, performSessionStart
<1>6. ASSUME NEW j \in Stops, StopUnestablished(j) \/ Stop(j) \/ StopEnds(j)
      PROVE  FALSE
  BY <1>6 DEF StopUnestablished, Stop, StopEnds, StopPc
<1>7. ASSUME NEW x \in Tx, SendFails(x) \/ Timeout(x) \/ Response(x) \/ DeviceMessage(x)
      PROVE  UNCHANGED <<state, establishmentPromise, start, stop>>
  BY <1>7 DEF SendFails, Timeout, Response, DeviceMessage
<1>8. CASE sendCommand \/ sendMessage \/ ChannelChange \/ UNCHANGED vars
  BY <1>8, <1>1 DEF sendCommand, sendMessage, ChannelChange, vars
<1> QED
  BY <1>1, <1>2, <1>3, <1>4, <1>5, <1>6, <1>7, <1>8, SessionAssumption
  DEF Next, StartStep, SessionAssumption

\* Until somebody calls stop(), concurrent calls of start() share one loop.
THEOREM OneEstablishment == Spec => []SingleEstablishment
<1>1. Init => LiveStartOwns
  BY DEF Init, LiveStartOwns, Establishing
<1>2. TypeOK /\ LiveStartOwns => SingleEstablishment
  BY DEF LiveStartOwns, SingleEstablishment
<1> QED  BY <1>1, <1>2, LiveStartStep, TypeCorrect, PTL DEF Spec

-----------------------------------------------------------------------------
(* An active session was granted by the device *)

\* Only a message of the device with its id resolves a request.
OwnReplies == \A x \in Tx : promise[x] = "resolved" => x \in replied

LEMMA OwnRepliesStep == TypeOK /\ RequestInv /\ OwnReplies /\ [Next]_vars => OwnReplies'
<1> SUFFICES ASSUME TypeOK, RequestInv, OwnReplies, [Next]_vars,
                    NEW x \in Tx, promise'[x] = "resolved"
             PROVE  x \in replied'
  BY DEF OwnReplies
<1> USE DEF OwnReplies, TypeOK
<1>1. CASE sendRequestAndWaitForResponse /\ replied' = replied
  BY <1>1 DEF sendRequestAndWaitForResponse, getNextTransactionId
<1>2. ASSUME NEW S, Settle(S, "rejected"), replied' = replied
      PROVE  x \in replied'
  BY <1>2 DEF Settle
<1>3. ASSUME NEW y \in Tx, Response(y) \/ DeviceMessage(y) PROVE x \in replied'
  <2>1. promise'[x] = promise[x] \/ (x = y /\ y \in pendingRequests)
    BY <1>3 DEF Response, DeviceMessage, handleMessage, Settle
  <2>2. y \in pendingRequests => promise[y] = "pending"
    BY DEF RequestInv, PendingConsistent
  <2> QED  BY <1>3, <2>1, <2>2 DEF Response, DeviceMessage
<1>4. CASE UNCHANGED <<promise, replied>>
  BY <1>4
<1>5. ASSUME NEW y \in Tx, SendFails(y) \/ Timeout(y) PROVE x \in replied'
  BY <1>5, <1>2 DEF SendFails, Timeout
<1>6. ASSUME NEW i \in Starts, Start(i) \/ StartStep(i) PROVE x \in replied'
  BY <1>6, <1>1, <1>4 DEF Start, StartStep, StartRetry, performSessionStart,
     createSessionInfo, StartBackoff, StartGivesUp
<1>7. ASSUME NEW j \in Stops, StopUnestablished(j) \/ Stop(j) \/ StopEnds(j)
      PROVE  x \in replied'
  BY <1>7, <1>1, <1>2, <1>4 DEF StopUnestablished, Stop, StopEnds, cleanup
<1>8. CASE sendCommand \/ sendMessage \/ ChannelChange \/ UNCHANGED vars
  BY <1>8, <1>1, <1>4 DEF sendCommand, sendMessage, ChannelChange, vars
<1> QED
  BY <1>3, <1>5, <1>6, <1>7, <1>8, SessionAssumption DEF Next, SessionAssumption

\* A coroutine that waits, waits for a request of its own.
AwaitsRequest == \A i \in Starts : start[i].pc = "await" => start[i].tx \in Tx

LEMMA AwaitsStep == TypeOK /\ AwaitsRequest /\ [Next]_vars => AwaitsRequest'
<1> SUFFICES ASSUME TypeOK, AwaitsRequest, [Next]_vars,
                    NEW i \in Starts, start'[i].pc = "await"
             PROVE  start'[i].tx \in Tx
  BY DEF AwaitsRequest
<1> USE DEF AwaitsRequest, TypeOK
<1>1. CASE UNCHANGED start
  BY <1>1
<1>2. ASSUME NEW k \in Starts, performSessionStart(k) PROVE start'[i].tx \in Tx
  BY <1>2 DEF performSessionStart, sendRequestAndWaitForResponse, getNextTransactionId
<1>3. ASSUME NEW k \in Starts, Start(k) \/ StartStep(k) PROVE start'[i].tx \in Tx
  BY <1>3, <1>2 DEF Start, StartStep, StartRetry, createSessionInfo, StartBackoff,
     StartGivesUp
<1>4. ASSUME NEW j \in Stops, StopUnestablished(j) \/ Stop(j) \/ StopEnds(j)
      PROVE  UNCHANGED start
  BY <1>4 DEF StopUnestablished, Stop, StopEnds
<1>5. ASSUME NEW x \in Tx, SendFails(x) \/ Timeout(x) \/ Response(x) \/ DeviceMessage(x)
      PROVE  UNCHANGED start
  BY <1>5 DEF SendFails, Timeout, Response, DeviceMessage
<1>6. CASE sendCommand \/ sendMessage \/ ChannelChange \/ UNCHANGED vars
  BY <1>6, <1>1 DEF sendCommand, sendMessage, ChannelChange, vars
<1> QED  BY <1>1, <1>3, <1>4, <1>5, <1>6, SessionAssumption DEF Next, SessionAssumption

\* A request that has resolved stays resolved, and replies are never forgotten.
LEMMA ResolvedStays ==
  ASSUME TypeOK, RequestInv, [Next]_vars, NEW x \in Tx, promise[x] = "resolved"
  PROVE  promise'[x] = "resolved" /\ replied \subseteq replied'
<1> USE DEF TypeOK
<1>1. ASSUME sendRequestAndWaitForResponse PROVE promise'[x] = "resolved"
  <2>1. transactionId # x
    BY <1>1 DEF sendRequestAndWaitForResponse, getNextTransactionId, RequestInv, FreshIds
  <2> QED  BY <1>1, <2>1 DEF sendRequestAndWaitForResponse
<1>2. ASSUME NEW S, NEW o, Settle(S, o) PROVE promise'[x] = "resolved"
  BY <1>2 DEF Settle
<1>3. ASSUME NEW y, handleMessage(y) PROVE promise'[x] = "resolved"
  BY <1>3, <1>2 DEF handleMessage
<1>4. ASSUME NEW y \in Tx, SendFails(y) \/ Timeout(y) \/ Response(y) \/ DeviceMessage(y)
      PROVE  promise'[x] = "resolved" /\ replied \subseteq replied'
  BY <1>4, <1>2, <1>3 DEF SendFails, Timeout, Response, DeviceMessage
<1>5. ASSUME NEW i \in Starts, Start(i) \/ StartStep(i)
      PROVE  promise'[x] = "resolved" /\ replied \subseteq replied'
  BY <1>5, <1>1 DEF Start, StartStep, StartRetry, performSessionStart,
     createSessionInfo, StartBackoff, StartGivesUp
<1>6. ASSUME NEW j \in Stops, StopUnestablished(j) \/ Stop(j) \/ StopEnds(j)
      PROVE  promise'[x] = "resolved" /\ replied \subseteq replied'
  BY <1>6, <1>1, <1>2 DEF StopUnestablished, Stop, StopEnds, cleanup
<1>7. CASE sendCommand \/ sendMessage \/ ChannelChange \/ UNCHANGED vars
  BY <1>7, <1>1 DEF sendCommand, sendMessage, ChannelChange, vars
<1> QED  BY <1>4, <1>5, <1>6, <1>7, SessionAssumption DEF Next, SessionAssumption

LEMMA ActiveStep ==
  TypeOK /\ RequestInv /\ OwnReplies /\ AwaitsRequest /\ ActiveWasGranted /\ [Next]_vars
    => ActiveWasGranted'
<1> DEFINE Granted == /\ \E i \in Starts : start[i] = [pc |-> "done", tx |-> sessionInfo]
                      /\ sessionInfo \in replied
                      /\ promise[sessionInfo] = "resolved"
<1> SUFFICES ASSUME TypeOK, RequestInv, OwnReplies, AwaitsRequest, ActiveWasGranted,
                    [Next]_vars, state' = "active"
             PROVE  Granted'
  BY DEF ActiveWasGranted
<1>1. ASSUME NEW i \in Starts, createSessionInfo(i) PROVE Granted'
  <2>1. /\ start[i].pc = "await" /\ promise[start[i].tx] = "resolved"
        /\ sessionInfo' = start[i].tx
        /\ start' = [start EXCEPT ![i].pc = "done"]
        /\ promise' = promise /\ replied' = replied
    BY <1>1 DEF createSessionInfo
  <2>2. start'[i] = [pc |-> "done", tx |-> sessionInfo']
    BY <2>1 DEF TypeOK
  <2>3. sessionInfo' \in Tx
    BY <2>1 DEF AwaitsRequest
  <2> QED  BY <2>1, <2>2, <2>3 DEF OwnReplies
<1>2. CASE /\ state = "active" /\ sessionInfo' = sessionInfo
           /\ \A i \in Starts : start[i].pc = "done" => start'[i] = start[i]
  <2>1. Granted
    BY <1>2 DEF ActiveWasGranted
  <2>2. sessionInfo \in Tx
    BY <2>1 DEF TypeOK
  <2>3. promise'[sessionInfo] = "resolved" /\ sessionInfo \in replied'
    BY <2>1, <2>2, ResolvedStays
  <2>4. \E i \in Starts : start'[i] = [pc |-> "done", tx |-> sessionInfo]
    <3>1. PICK i \in Starts : start[i] = [pc |-> "done", tx |-> sessionInfo]
      BY <2>1
    <3>2. start[i].pc = "done"
      BY <3>1
    <3> QED  BY <1>2, <3>1, <3>2
  <2> QED  BY <1>2, <2>3, <2>4
<1>3. CASE UNCHANGED <<sessionVars, start>>
  BY <1>2, <1>3
<1>4. ASSUME NEW i \in Starts, Start(i) \/ StartRetry(i) \/ StartGivesUp(i)
      PROVE  FALSE
  BY <1>4 DEF Start, StartRetry, StartGivesUp, performSessionStart
<1>5. ASSUME NEW i \in Starts, StartBackoff(i) PROVE Granted'
  <2>1. \A k \in Starts : start[k].pc = "done" => start'[k] = start[k]
    BY <1>5 DEF StartBackoff, StartFailed, TypeOK
  <2> QED  BY <1>2, <1>5, <2>1 DEF StartBackoff
<1>6. ASSUME NEW j \in Stops, StopUnestablished(j) \/ Stop(j) \/ StopEnds(j)
      PROVE  FALSE
  BY <1>6 DEF StopUnestablished, Stop, StopEnds
<1>7. ASSUME NEW x \in Tx, SendFails(x) \/ Timeout(x) \/ Response(x) \/ DeviceMessage(x)
      PROVE  UNCHANGED <<sessionVars, start>>
  BY <1>7 DEF SendFails, Timeout, Response, DeviceMessage
<1>8. CASE sendCommand \/ sendMessage \/ ChannelChange \/ UNCHANGED vars
  BY <1>8, <1>3 DEF sendCommand, sendMessage, ChannelChange, vars
<1> QED
  BY <1>1, <1>3, <1>4, <1>5, <1>6, <1>7, <1>8, SessionAssumption
  DEF Next, StartStep, SessionAssumption

\* An active session was granted by a message of the device with the id of the
\* _sessionStart of a start() that has returned; a request that timed out, failed
\* or was given up grants nothing (createSessionInfo).
THEOREM ActiveIsGranted == Spec => []ActiveWasGranted
<1>1. Init => OwnReplies /\ AwaitsRequest /\ ActiveWasGranted
  BY DEF Init, OwnReplies, AwaitsRequest, ActiveWasGranted
<1> QED
  BY <1>1, OwnRepliesStep, AwaitsStep, ActiveStep, TypeCorrect, RequestInvariant, PTL DEF Spec
=============================================================================

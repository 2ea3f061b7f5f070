------------------- MODULE HAPAuthenticationService_proofs -------------------
(***************************************************************************)
(* Proofs about HAPAuthenticationService, for any number of calls of       *)
(* authenticate().                                                         *)
(***************************************************************************)
EXTENDS HAPAuthenticationService, TLAPS

USE DEF service, device, vars

-----------------------------------------------------------------------------
(* What the operators shared by the actions do *)

\* Settling the current operation, whatever becomes of its call.
LEMMA CurrentCallEffect ==
  ASSUME TypeOK, NEW pc \in {"verify-keys", "done", "failed"}, currentCall(pc)
  PROVE  /\ call' \in [Calls -> {"none"} \cup Starting \cup Flow \cup Settled]
         /\ \A c \in Calls : call'[c] = IF c = currentOperation THEN pc ELSE call[c]
BY DEF TypeOK, currentCall, Starting, Settled

\* A handler that begins or ends to wait.
LEMMA HandlingTypes ==
  ASSUME TypeOK, NEW h \in Handling, waits(h) \/ (handling[h] # 0 /\ resumed(h))
  PROVE  handling' \in [Handling -> Nat]
BY DEF TypeOK, waits, resumed

\* A handler that has answered.
LEMMA AnsweredTypes ==
  ASSUME TypeOK, NEW h \in Handling, handling[h] # 0, NEW flow \in Flow,
         NEW seq \in {1, 3, 5}, NEW next \in HAPAuthState, answered(h, flow, seq, next)
  PROVE  /\ handling' \in [Handling -> Nat]
         /\ toDevice' \in Seq(Message)
         /\ state' \in HAPAuthState
<1>1. [flow |-> flow, seq |-> seq, call |-> h.call] \in Message
  BY DEF Handling, Message
<1>2. handling' \in [Handling -> Nat]
  BY HandlingTypes DEF answered
<1> QED  BY <1>1, <1>2 DEF answered, TypeOK

\* An error rejects the current operation and leaves an idle service.
LEMMA ErrorTypes ==
  ASSUME TypeOK, handleError
  PROVE  /\ state' = "idle"
         /\ pairingHandler' = None /\ verificationHandler' = None
         /\ currentOperation' = None
         /\ call' \in [Calls -> {"none"} \cup Starting \cup Flow \cup Settled]
BY CurrentCallEffect DEF handleError, reset

\* The device takes a message.
LEMMA TakenTypes ==
  ASSUME TypeOK, taken
  PROVE  /\ Head(toDevice) \in Message
         /\ toDevice' \in Seq(Message)
         /\ exchange' \in (Calls \X Flow) \cup {None}
<1>1. Head(toDevice) \in Message /\ Tail(toDevice) \in Seq(Message)
  BY DEF TypeOK, taken
<1>2. origin(Head(toDevice)) \in Calls \X Flow
  BY <1>1 DEF origin, Message
<1> QED  BY <1>1, <1>2 DEF taken, TypeOK

-----------------------------------------------------------------------------
(* Types *)

\* The variables a frame handler may write keep their types.
HandlerTypes ==
  /\ state \in HAPAuthState
  /\ pairingHandler \in Calls \cup {None}
  /\ verificationHandler \in Calls \cup {None}
  /\ currentOperation \in Calls \cup {None}
  /\ session \in Calls \cup {None}
  /\ call \in [Calls -> {"none"} \cup Starting \cup Flow \cup Settled]
  /\ challenged \subseteq Calls /\ derived \subseteq Calls
  /\ handling \in [Handling -> Nat]

\* An error, when it writes nothing else.
LEMMA OnlyErrorTypes ==
  ASSUME TypeOK, handleError, UNCHANGED <<session, challenged, derived, handling>>
  PROVE  HandlerTypes'
BY ErrorTypes DEF HandlerTypes, TypeOK, HAPAuthState

\* Every handler of a message keeps the types.
LEMMA RouteTypes ==
  ASSUME TypeOK, NEW m \in Message, NEW good \in BOOLEAN, routeMessage(m, good)
  PROVE  HandlerTypes'
<1>1. CASE state = "pairing-m1" /\ m.seq = 1
  <2>1. handlePairingM2(m, good)
    BY <1>1 DEF routeMessage
  <2>2. CASE pairingHandler # None /\ good /\ m.flow = "pairing"
    <3>1. [at |-> "pin", call |-> pairingHandler] \in Handling
      BY <2>2 DEF TypeOK, Handling
    <3>2. handling' \in [Handling -> Nat]
      BY <2>1, <2>2, <3>1, HandlingTypes DEF handlePairingM2
    <3> QED  BY <2>1, <2>2, <3>2 DEF handlePairingM2, HandlerTypes, TypeOK, HAPAuthState
  <2>3. CASE ~(pairingHandler # None /\ good /\ m.flow = "pairing")
    BY <2>1, <2>3, OnlyErrorTypes DEF handlePairingM2
  <2> QED  BY <2>2, <2>3
<1>2. CASE state = "pairing-m3" /\ m.seq = 3
  <2>1. handlePairingM4(m, good)
    BY <1>2 DEF routeMessage
  <2>2. CASE pairingHandler # None /\ good /\ m.flow = "pairing" /\ m.call = pairingHandler
    <3>1. [at |-> "m5", call |-> pairingHandler] \in Handling
      BY <2>2 DEF TypeOK, Handling
    <3>2. handling' \in [Handling -> Nat]
      BY <2>1, <2>2, <3>1, HandlingTypes DEF handlePairingM4
    <3> QED  BY <2>1, <2>2, <3>2 DEF handlePairingM4, HandlerTypes, TypeOK, HAPAuthState
  <2>3. CASE ~(pairingHandler # None /\ good /\ m.flow = "pairing" /\ m.call = pairingHandler)
    BY <2>1, <2>3, OnlyErrorTypes DEF handlePairingM4
  <2> QED  BY <2>2, <2>3
<1>3. CASE state = "pairing-m5" /\ m.seq = 5
  <2>1. handlePairingM6(m, good)
    BY <1>3 DEF routeMessage
  <2>2. CASE pairingHandler # None /\ good /\ m.call = pairingHandler
    BY <2>1, <2>2, CurrentCallEffect DEF handlePairingM6, HandlerTypes, TypeOK, HAPAuthState
  <2>3. CASE ~(pairingHandler # None /\ good /\ m.call = pairingHandler)
    BY <2>1, <2>3, OnlyErrorTypes DEF handlePairingM6
  <2> QED  BY <2>2, <2>3
<1>4. CASE state = "verifying-m1" /\ m.seq = 1
  <2>1. handleVerifyM2(m, good)
    BY <1>4 DEF routeMessage
  <2>2. CASE /\ verificationHandler # None /\ good
             /\ m.flow = "verifying" /\ m.call = verificationHandler
    <3>1. [at |-> "verify-m3", call |-> verificationHandler] \in Handling
      BY <2>2 DEF TypeOK, Handling
    <3>2. handling' \in [Handling -> Nat]
      BY <2>1, <2>2, <3>1, HandlingTypes DEF handleVerifyM2
    <3> QED  BY <2>1, <2>2, <3>2 DEF handleVerifyM2, HandlerTypes, TypeOK, HAPAuthState
  <2>3. CASE ~(/\ verificationHandler # None /\ good
               /\ m.flow = "verifying" /\ m.call = verificationHandler)
    BY <2>1, <2>3, OnlyErrorTypes DEF handleVerifyM2
  <2> QED  BY <2>2, <2>3
<1>5. CASE state = "verifying-m3" /\ m.seq = 3
  <2>1. handleVerifyM4
    BY <1>5 DEF routeMessage
  <2>2. CASE verificationHandler \in derived
    BY <2>1, <2>2, CurrentCallEffect DEF handleVerifyM4, HandlerTypes, TypeOK, HAPAuthState
  <2>3. CASE verificationHandler \notin derived
    BY <2>1, <2>3, OnlyErrorTypes DEF handleVerifyM4
  <2> QED  BY <2>2, <2>3
<1>6. CASE /\ ~(state = "pairing-m1" /\ m.seq = 1) /\ ~(state = "pairing-m3" /\ m.seq = 3)
           /\ ~(state = "pairing-m5" /\ m.seq = 5) /\ ~(state = "verifying-m1" /\ m.seq = 1)
           /\ ~(state = "verifying-m3" /\ m.seq = 3)
  <2>1. UNCHANGED <<service, session, call, challenged, derived, handling>>
    BY <1>6 DEF routeMessage
  <2> QED  BY <2>1 DEF HandlerTypes, TypeOK
<1> QED  BY <1>1, <1>2, <1>3, <1>4, <1>5, <1>6

\* Every variable keeps its type (all of HAPAuthenticationService).
THEOREM TypeCorrect == Spec => []TypeOK
<1>1. Init => TypeOK
  BY DEF Init, TypeOK, HAPAuthState, Starting, Flow, Settled
<1>2. TypeOK /\ [Next]_vars => TypeOK'
  <2> SUFFICES ASSUME TypeOK, [Next]_vars PROVE TypeOK'
    OBVIOUS
  <2>1. ASSUME NEW c \in Calls, Authenticate(c) PROVE TypeOK'
    BY <2>1 DEF Authenticate, enter, TypeOK, Starting, Settled
  <2>2. ASSUME NEW c \in Calls, VerifyKeys(c) PROVE TypeOK'
    BY <2>2 DEF VerifyKeys, enter, TypeOK, Starting
  <2>3. ASSUME NEW c \in Calls, Started(c) PROVE TypeOK'
    <3>1. ASSUME NEW flow \in Flow, NEW first \in HAPAuthState, started(c, flow, first)
          PROVE  TypeOK'
      <4>1. toDevice' \in Seq(Message)
        BY <3>1 DEF started, TypeOK, Message
      <4> QED  BY <2>3, <3>1, <4>1 DEF Started, started, enter, TypeOK
    <3> QED  BY <2>3, <3>1 DEF Started, Flow, HAPAuthState
  <2>4. ASSUME NEW c \in Calls, StartFails(c) PROVE TypeOK'
    BY <2>4 DEF StartFails, enter, TypeOK, Settled
  <2>5. ASSUME NEW t \in timers, Timeout(t) PROVE TypeOK'
    BY <2>5, ErrorTypes DEF Timeout, TypeOK, HAPAuthState
  <2>6. ASSUME Frame PROVE TypeOK'
    <3>1. HandlerTypes'
      BY <2>6, TakenTypes, RouteTypes, OnlyErrorTypes DEF Frame
    <3>2. timers' \subseteq Calls \X Flow /\ listening' \in BOOLEAN
      BY <2>6 DEF Frame, TypeOK
    <3> QED  BY <2>6, <3>1, <3>2, TakenTypes DEF Frame, HandlerTypes, TypeOK
  <2>7. ASSUME NoAnswer PROVE TypeOK'
    BY <2>7, TakenTypes DEF NoAnswer, TypeOK
  <2>8. ASSUME SessionFrame PROVE TypeOK'
    BY <2>8, ErrorTypes DEF SessionFrame, TypeOK, HAPAuthState
  <2>9. ASSUME Detach PROVE TypeOK'
    BY <2>9 DEF Detach, TypeOK
  <2>10. ASSUME NEW h \in Handling, PinEntered(h) PROVE TypeOK'
    <3>1. [at |-> "m3", call |-> pairingHandler] \in Handling
      BY <2>10 DEF PinEntered, TypeOK, Handling
    <3>2. handling[h] \in Nat /\ handling[h] # 0 /\ handling \in [Handling -> Nat]
      BY <2>10 DEF PinEntered, TypeOK
    <3>3. [handling EXCEPT ![h] = @ - 1] \in [Handling -> Nat]
      BY <3>2
    <3>4. handling' = [[handling EXCEPT ![h] = @ - 1]
                         EXCEPT ![[at |-> "m3", call |-> pairingHandler]] = @ + 1]
      BY <2>10 DEF PinEntered
    <3>5. handling' \in [Handling -> Nat]
      BY <3>1, <3>3, <3>4
    <3> QED  BY <2>10, <3>5 DEF PinEntered, TypeOK
  <2>11. ASSUME NEW h \in Handling, M3Sent(h) \/ M5Sent(h) \/ VerifyM3Sent(h) PROVE TypeOK'
    <3>1. /\ handling' \in [Handling -> Nat] /\ toDevice' \in Seq(Message)
          /\ state' \in HAPAuthState
      BY <2>11, AnsweredTypes DEF M3Sent, M5Sent, VerifyM3Sent, Flow, HAPAuthState
    <3> QED  BY <2>11, <3>1 DEF M3Sent, M5Sent, VerifyM3Sent, TypeOK
  <2>12. ASSUME NEW h \in Handling, HandlerFails(h) PROVE TypeOK'
    BY <2>12, ErrorTypes, HandlingTypes DEF HandlerFails, TypeOK, HAPAuthState
  <2>13. ASSUME UNCHANGED vars PROVE TypeOK'
    BY <2>13 DEF TypeOK
  <2> QED  BY <2>1, <2>2, <2>3, <2>4, <2>5, <2>6, <2>7, <2>8, <2>9, <2>10, <2>11,
              <2>12, <2>13 DEF Next
<1> QED  BY <1>1, <1>2, PTL DEF Spec

-----------------------------------------------------------------------------
(* The promise a call waits for *)

Underway(c) == call[c] \in Starting \cup Flow

\* The protocol makes one call at a time.
Sequential == \A c, d \in Calls : Underway(c) /\ Underway(d) => c = d

WaiterInv == TypeOK /\ Sequential /\ WaiterIsCurrent

\* The two ways in which frames, timers and handlers bear on the calls: they
\* leave them alone, or settle the current operation and forget it.
KeepsWaiter == UNCHANGED <<call, currentOperation>>

SettlesWaiter ==
  /\ currentOperation' = None
  /\ \E pc \in {"verify-keys", "done", "failed"} : currentCall(pc)

LEMMA ErrorSettles ==
  ASSUME handleError
  PROVE  SettlesWaiter
BY DEF handleError, reset, SettlesWaiter

LEMMA RouteSettles ==
  ASSUME NEW m, NEW good, routeMessage(m, good)
  PROVE  KeepsWaiter \/ SettlesWaiter
<1>1. CASE state = "pairing-m1" /\ m.seq = 1
  <2>1. handlePairingM2(m, good)
    BY <1>1 DEF routeMessage
  <2> QED  BY <2>1, ErrorSettles DEF handlePairingM2, KeepsWaiter
<1>2. CASE state = "pairing-m3" /\ m.seq = 3
  <2>1. handlePairingM4(m, good)
    BY <1>2 DEF routeMessage
  <2> QED  BY <2>1, ErrorSettles DEF handlePairingM4, KeepsWaiter
<1>3. CASE state = "pairing-m5" /\ m.seq = 5
  <2>1. handlePairingM6(m, good)
    BY <1>3 DEF routeMessage
  <2> QED  BY <2>1, ErrorSettles DEF handlePairingM6, SettlesWaiter
<1>4. CASE state = "verifying-m1" /\ m.seq = 1
  <2>1. handleVerifyM2(m, good)
    BY <1>4 DEF routeMessage
  <2> QED  BY <2>1, ErrorSettles DEF handleVerifyM2, KeepsWaiter
<1>5. CASE state = "verifying-m3" /\ m.seq = 3
  <2>1. handleVerifyM4
    BY <1>5 DEF routeMessage
  <2> QED  BY <2>1, ErrorSettles DEF handleVerifyM4, SettlesWaiter
<1>6. CASE /\ ~(state = "pairing-m1" /\ m.seq = 1) /\ ~(state = "pairing-m3" /\ m.seq = 3)
           /\ ~(state = "pairing-m5" /\ m.seq = 5) /\ ~(state = "verifying-m1" /\ m.seq = 1)
           /\ ~(state = "verifying-m3" /\ m.seq = 3)
  BY <1>6 DEF routeMessage, KeepsWaiter
<1> QED  BY <1>1, <1>2, <1>3, <1>4, <1>5, <1>6

\* A settled operation has no waiter left, and a pairing that ended well puts
\* its own call, the only one underway, back to starting.
LEMMA SettlingKeeps ==
  ASSUME WaiterInv, SettlesWaiter
  PROVE  Sequential' /\ WaiterIsCurrent'
<1>1. PICK pc \in {"verify-keys", "done", "failed"} : currentCall(pc)
  BY DEF SettlesWaiter
<1>2. \A c \in Calls : call'[c] = IF c = currentOperation THEN pc ELSE call[c]
  BY <1>1, CurrentCallEffect DEF WaiterInv
<1>3. \A c \in Calls : call'[c] \notin Flow
  BY <1>2 DEF WaiterInv, WaiterIsCurrent, Flow
<1>4. WaiterIsCurrent'
  BY <1>3, CallsAssumption DEF SettlesWaiter, WaiterIsCurrent
<1>5. \A c \in Calls : Underway(c)' => Underway(c)
  BY <1>2 DEF WaiterInv, WaiterIsCurrent, Underway
<1>6. Sequential'
  BY <1>5 DEF WaiterInv, Sequential
<1> QED  BY <1>4, <1>6

\* One call changes its place.
LEMMA EnterKeeps ==
  ASSUME WaiterInv, NEW c \in Calls,
         NEW pc \in {"none"} \cup Starting \cup Flow \cup Settled, enter(c, pc),
         Underway(c) \/ \A d \in Calls : ~Underway(d)
  PROVE  /\ Sequential'
         /\ \A d \in Calls : call'[d] = IF d = c THEN pc ELSE call[d]
<1>1. \A d \in Calls : call'[d] = IF d = c THEN pc ELSE call[d]
  BY DEF WaiterInv, TypeOK, enter
<1>2. \A d \in Calls : Underway(d)' => d = c
  BY <1>1 DEF WaiterInv, Sequential, Underway
<1>3. Sequential'
  BY <1>2 DEF Sequential
<1> QED  BY <1>1, <1>3

\* One call is underway, and the promise it waits for is the current one
\* (HAPAuthenticationService.currentOperation).
THEOREM WaiterInvariant == Spec => []WaiterInv
<1>1. Init => WaiterInv
  BY CallsAssumption
     DEF Init, WaiterInv, TypeOK, HAPAuthState, Starting, Flow, Settled,
         Sequential, Underway, WaiterIsCurrent
<1>2. WaiterInv /\ TypeOK' /\ [Next]_vars => WaiterInv'
  <2> SUFFICES ASSUME WaiterInv, TypeOK', [Next]_vars PROVE Sequential' /\ WaiterIsCurrent'
    BY DEF WaiterInv
  <2>1. ASSUME KeepsWaiter PROVE Sequential' /\ WaiterIsCurrent'
    BY <2>1 DEF KeepsWaiter, WaiterInv, Sequential, Underway, WaiterIsCurrent
  <2>2. ASSUME SettlesWaiter PROVE Sequential' /\ WaiterIsCurrent'
    BY <2>2, SettlingKeeps
  <2>3. ASSUME NEW c \in Calls, NEW pc \in Starting \cup {"failed"}, enter(c, pc),
               UNCHANGED currentOperation, call[c] \notin Flow,
               Underway(c) \/ \A d \in Calls : ~Underway(d)
        PROVE  Sequential' /\ WaiterIsCurrent'
    <3>1. /\ Sequential'
          /\ \A d \in Calls : call'[d] = IF d = c THEN pc ELSE call[d]
      BY <2>3, EnterKeeps DEF Settled
    <3>2. pc \notin Flow
      BY DEF Starting, Flow
    <3>3. WaiterIsCurrent'
      BY <2>3, <3>1, <3>2 DEF WaiterInv, WaiterIsCurrent
    <3> QED  BY <3>1, <3>3
  <2>4. ASSUME NEW c \in Calls, Authenticate(c) PROVE Sequential' /\ WaiterIsCurrent'
    <3>1. PICK pc \in Starting \cup {"failed"} : enter(c, pc)
      BY <2>4 DEF Authenticate, Starting
    <3>2. call[c] \notin Flow /\ \A d \in Calls : ~Underway(d)
      BY <2>4 DEF Authenticate, Underway, Flow, Starting, Settled
    <3> QED  BY <2>3, <2>4, <3>1, <3>2 DEF Authenticate
  <2>5. ASSUME NEW c \in Calls, VerifyKeys(c) \/ StartFails(c)
        PROVE  Sequential' /\ WaiterIsCurrent'
    <3>1. PICK pc \in Starting \cup {"failed"} : enter(c, pc)
      BY <2>5 DEF VerifyKeys, StartFails, Starting
    <3>2. call[c] \in Starting
      BY <2>5 DEF VerifyKeys, StartFails, Starting
    <3>3. call[c] \notin Flow /\ Underway(c)
      BY <3>2 DEF Underway, Flow, Starting
    <3>4. UNCHANGED currentOperation
      BY <2>5 DEF VerifyKeys, StartFails
    <3> QED  BY <2>3, <3>1, <3>3, <3>4
  <2>6. ASSUME NEW c \in Calls, Started(c) PROVE Sequential' /\ WaiterIsCurrent'
    <3>1. PICK flow \in Flow : enter(c, flow) /\ currentOperation' = c
      BY <2>6 DEF Started, started, Flow
    <3>2. Underway(c)
      BY <2>6 DEF Started, Underway, Starting
    <3>3. /\ Sequential'
          /\ \A d \in Calls : call'[d] = IF d = c THEN flow ELSE call[d]
      BY <3>1, <3>2, EnterKeeps
    <3>4. \A d \in Calls : d # c => call[d] \notin Flow
      BY <3>2 DEF WaiterInv, Sequential, Underway
    <3>5. WaiterIsCurrent'
      BY <3>1, <3>3, <3>4 DEF WaiterIsCurrent
    <3> QED  BY <3>3, <3>5
  <2>7. ASSUME NEW t \in timers, Timeout(t) PROVE Sequential' /\ WaiterIsCurrent'
    BY <2>1, <2>2, <2>7, ErrorSettles DEF Timeout, KeepsWaiter
  <2>8. ASSUME Frame PROVE Sequential' /\ WaiterIsCurrent'
    BY <2>1, <2>2, <2>8, ErrorSettles, RouteSettles DEF Frame
  <2>9. ASSUME NoAnswer \/ Detach \/ UNCHANGED vars PROVE Sequential' /\ WaiterIsCurrent'
    BY <2>1, <2>9 DEF NoAnswer, Detach, KeepsWaiter
  <2>10. ASSUME SessionFrame PROVE Sequential' /\ WaiterIsCurrent'
    BY <2>2, <2>10, ErrorSettles DEF SessionFrame
  <2>11. ASSUME NEW h \in Handling,
                PinEntered(h) \/ M3Sent(h) \/ M5Sent(h) \/ VerifyM3Sent(h)
         PROVE  Sequential' /\ WaiterIsCurrent'
    BY <2>1, <2>11 DEF PinEntered, M3Sent, M5Sent, VerifyM3Sent, KeepsWaiter
  <2>12. ASSUME NEW h \in Handling, HandlerFails(h) PROVE Sequential' /\ WaiterIsCurrent'
    BY <2>2, <2>12, ErrorSettles DEF HandlerFails
  <2> QED  BY <2>4, <2>5, <2>6, <2>7, <2>8, <2>9, <2>10, <2>11, <2>12 DEF Next
<1> QED  BY <1>1, <1>2, TypeCorrect, PTL DEF Spec

\* No old handler or timer drops the promise of a waiting call
\* (HAPAuthenticationService.handleError, reset, currentOperation).
THEOREM WaiterCurrent == Spec => []WaiterIsCurrent
<1>1. WaiterInv => WaiterIsCurrent
  BY DEF WaiterInv
<1> QED  BY <1>1, WaiterInvariant, PTL

-----------------------------------------------------------------------------
(* What the device has still to answer *)

FirstVerify(c) == [flow |-> "verifying", seq |-> 1, call |-> c]

M5Pairs ==
  \A i \in 1..Len(toDevice) : toDevice[i].seq = 5 => toDevice[i].flow = "pairing"

NotYetVerifying ==
  \A c \in Calls, i \in 1..Len(toDevice) :
    call[c] \in {"none", "pairing-send"} => toDevice[i] # FirstVerify(c)

\* A call that verifies begins no other exchange with the device, and no
\* other call does while it is underway.
VerifyLast ==
  \A c \in Calls : Underway(c) =>
    \A i, j \in 1..Len(toDevice) :
      i < j /\ toDevice[i] = FirstVerify(c) /\ toDevice[j].seq = 1
        => toDevice[j] = FirstVerify(c)

QueueInv == M5Pairs /\ NotYetVerifying /\ VerifyLast

\* No step takes a call back to where it has not verified, and only a new one
\* gets underway.
CallsAdvance ==
  \A c \in Calls :
    /\ call'[c] \in {"none", "pairing-send"} => call[c] \in {"none", "pairing-send"}
    /\ Underway(c)' => Underway(c) \/ call[c] = "none"

\* Frames, timers and handlers do so: they leave the calls alone or settle one.
LEMMA SettlesAdvance ==
  ASSUME WaiterInv, KeepsWaiter \/ SettlesWaiter
  PROVE  CallsAdvance
<1>1. CASE KeepsWaiter
  BY <1>1 DEF KeepsWaiter, CallsAdvance, Underway
<1>2. CASE SettlesWaiter
  <2>1. PICK pc \in {"verify-keys", "done", "failed"} : currentCall(pc)
    BY <1>2 DEF SettlesWaiter
  <2>2. \A c \in Calls : call'[c] = IF c = currentOperation THEN pc ELSE call[c]
    BY <2>1, CurrentCallEffect DEF WaiterInv
  <2> QED  BY <2>2 DEF CallsAdvance, Underway, WaiterInv, WaiterIsCurrent
<1> QED  BY <1>1, <1>2

\* A call that has sent no message of its verification yet loses nothing by
\* getting underway.
LEMMA SameQueueKeeps ==
  ASSUME QueueInv, CallsAdvance, UNCHANGED toDevice
  PROVE  QueueInv'
<1>1. M5Pairs'
  BY DEF QueueInv, M5Pairs
<1>2. NotYetVerifying'
  BY DEF QueueInv, NotYetVerifying, CallsAdvance
<1>3. VerifyLast'
  <2> SUFFICES ASSUME NEW c \in Calls, Underway(c)',
                      NEW i \in 1..Len(toDevice), NEW j \in 1..Len(toDevice),
                      i < j, toDevice[i] = FirstVerify(c), toDevice[j].seq = 1
               PROVE  toDevice[j] = FirstVerify(c)
    BY DEF VerifyLast, FirstVerify
  <2>1. call[c] # "none"
    BY DEF QueueInv, NotYetVerifying
  <2>2. Underway(c)
    BY <2>1 DEF CallsAdvance
  <2> QED  BY <2>2 DEF QueueInv, VerifyLast
<1> QED  BY <1>1, <1>2, <1>3 DEF QueueInv

\* The oldest message is taken.
LEMMA TakenQueueKeeps ==
  ASSUME TypeOK, QueueInv, CallsAdvance, taken
  PROVE  QueueInv'
<1>1. /\ toDevice' \in Seq(Message)
      /\ \A i \in 1..Len(toDevice') : /\ i + 1 \in 1..Len(toDevice)
                                      /\ toDevice'[i] = toDevice[i + 1]
  BY DEF taken, TypeOK
<1>2. M5Pairs'
  BY <1>1 DEF QueueInv, M5Pairs
<1>3. NotYetVerifying'
  <2> SUFFICES ASSUME NEW c \in Calls, NEW i \in 1..Len(toDevice'),
                      call'[c] \in {"none", "pairing-send"}
               PROVE  toDevice'[i] # FirstVerify(c)
    BY DEF NotYetVerifying, FirstVerify
  <2>1. call[c] \in {"none", "pairing-send"}
    BY DEF CallsAdvance
  <2> QED  BY <1>1, <2>1 DEF QueueInv, NotYetVerifying
<1>4. VerifyLast'
  <2> SUFFICES ASSUME NEW c \in Calls, Underway(c)',
                      NEW i \in 1..Len(toDevice'), NEW j \in 1..Len(toDevice'),
                      i < j, toDevice'[i] = FirstVerify(c), toDevice'[j].seq = 1
               PROVE  toDevice'[j] = FirstVerify(c)
    BY DEF VerifyLast, FirstVerify
  <2>1. /\ i + 1 \in 1..Len(toDevice) /\ j + 1 \in 1..Len(toDevice) /\ i + 1 < j + 1
        /\ toDevice[i + 1] = FirstVerify(c) /\ toDevice[j + 1].seq = 1
        /\ toDevice'[j] = toDevice[j + 1]
    BY <1>1
  <2>2. Underway(c)
    BY <2>1 DEF CallsAdvance, QueueInv, NotYetVerifying
  <2> QED  BY <2>1, <2>2 DEF QueueInv, VerifyLast
<1> QED  BY <1>2, <1>3, <1>4 DEF QueueInv

\* A message is sent, which is an M1 only if its call may begin an exchange.
LEMMA SentQueueKeeps ==
  ASSUME TypeOK, QueueInv, CallsAdvance, NEW m \in Message,
         toDevice' = Append(toDevice, m),
         m.seq = 5 => m.flow = "pairing",
         \A c \in Calls : m = FirstVerify(c) => call'[c] \notin {"none", "pairing-send"},
         \A c \in Calls, i \in 1..Len(toDevice) :
           m.seq = 1 /\ Underway(c)' /\ toDevice[i] = FirstVerify(c) => m = FirstVerify(c)
  PROVE  QueueInv'
<1>1. /\ Len(toDevice') = Len(toDevice) + 1
      /\ Len(toDevice) \in Nat
      /\ \A i \in 1..Len(toDevice) : toDevice'[i] = toDevice[i]
      /\ toDevice'[Len(toDevice) + 1] = m
  BY DEF TypeOK
<1>2. \A i \in 1..Len(toDevice') : \/ i \in 1..Len(toDevice) /\ toDevice'[i] = toDevice[i]
                                   \/ i = Len(toDevice) + 1 /\ toDevice'[i] = m
  BY <1>1
<1>3. M5Pairs'
  BY <1>2 DEF QueueInv, M5Pairs
<1>4. NotYetVerifying'
  <2> SUFFICES ASSUME NEW c \in Calls, NEW i \in 1..Len(toDevice'),
                      call'[c] \in {"none", "pairing-send"}
               PROVE  toDevice'[i] # FirstVerify(c)
    BY DEF NotYetVerifying, FirstVerify
  <2>1. call[c] \in {"none", "pairing-send"}
    BY DEF CallsAdvance
  <2> QED  BY <1>2, <2>1 DEF QueueInv, NotYetVerifying
<1>5. VerifyLast'
  <2> SUFFICES ASSUME NEW c \in Calls, Underway(c)',
                      NEW i \in 1..Len(toDevice'), NEW j \in 1..Len(toDevice'),
                      i < j, toDevice'[i] = FirstVerify(c), toDevice'[j].seq = 1
               PROVE  toDevice'[j] = FirstVerify(c)
    BY DEF VerifyLast, FirstVerify
  <2>1. i \in 1..Len(toDevice) /\ toDevice[i] = FirstVerify(c)
    BY <1>1, <1>2
  <2>2. CASE j = Len(toDevice) + 1
    BY <1>1, <2>1, <2>2
  <2>3. CASE j \in 1..Len(toDevice)
    <3>1. Underway(c)
      BY <2>1 DEF CallsAdvance, QueueInv, NotYetVerifying
    <3> QED  BY <1>1, <2>1, <2>3, <3>1 DEF QueueInv, VerifyLast
  <2> QED  BY <1>2, <2>2, <2>3
<1> QED  BY <1>3, <1>4, <1>5 DEF QueueInv

\* Every step advances the calls.
LEMMA StepAdvances ==
  ASSUME WaiterInv, [Next]_vars
  PROVE  CallsAdvance
<1>1. ASSUME NEW c \in Calls, NEW pc \in {"none"} \cup Starting \cup Flow \cup Settled,
             enter(c, pc),
             pc \in {"none", "pairing-send"} => call[c] = "none",
             Underway(c) \/ call[c] = "none"
      PROVE  CallsAdvance
  <2>1. \A d \in Calls : call'[d] = IF d = c THEN pc ELSE call[d]
    BY <1>1 DEF WaiterInv, TypeOK, enter
  <2> QED  BY <1>1, <2>1 DEF CallsAdvance, Underway
<1>2. ASSUME NEW c \in Calls, Authenticate(c) PROVE CallsAdvance
  BY <1>1, <1>2 DEF Authenticate, Starting, Settled
<1>3. ASSUME NEW c \in Calls, VerifyKeys(c) \/ StartFails(c) PROVE CallsAdvance
  BY <1>1, <1>3 DEF VerifyKeys, StartFails, Starting, Settled, Underway
<1>4. ASSUME NEW c \in Calls, Started(c) PROVE CallsAdvance
  BY <1>1, <1>4 DEF Started, started, Starting, Flow, Underway
<1>5. ASSUME NEW t \in timers, Timeout(t) PROVE CallsAdvance
  BY <1>5, ErrorSettles, SettlesAdvance DEF Timeout, KeepsWaiter
<1>6. ASSUME Frame PROVE CallsAdvance
  BY <1>6, ErrorSettles, RouteSettles, SettlesAdvance DEF Frame
<1>7. ASSUME SessionFrame \/ \E h \in Handling : HandlerFails(h) PROVE CallsAdvance
  BY <1>7, ErrorSettles, SettlesAdvance DEF SessionFrame, HandlerFails
<1>8. ASSUME \/ NoAnswer \/ Detach \/ UNCHANGED vars
             \/ \E h \in Handling : \/ PinEntered(h) \/ M3Sent(h) \/ M5Sent(h)
                                    \/ VerifyM3Sent(h)
      PROVE  CallsAdvance
  BY <1>8, SettlesAdvance
     DEF NoAnswer, Detach, PinEntered, M3Sent, M5Sent, VerifyM3Sent, KeepsWaiter
<1> QED  BY <1>2, <1>3, <1>4, <1>5, <1>6, <1>7, <1>8 DEF Next

\* M1 goes out for the one call that is underway.
LEMMA StartedQueueKeeps ==
  ASSUME WaiterInv, QueueInv, CallsAdvance, NEW c \in Calls, Started(c)
  PROVE  QueueInv'
<1>1. PICK flow \in Flow : /\ toDevice' = Append(toDevice, [flow |-> flow, seq |-> 1, call |-> c])
                           /\ enter(c, flow)
                           /\ call[c] = IF flow = "pairing" THEN "pairing-send" ELSE "verify-send"
  BY DEF Started, started, Flow
<1> DEFINE m == [flow |-> flow, seq |-> 1, call |-> c]
<1>2. m \in Message
  BY DEF Message
<1>3. \A d \in Calls : call'[d] = IF d = c THEN flow ELSE call[d]
  BY <1>1 DEF WaiterInv, TypeOK, enter
<1>4. \A d \in Calls : m = FirstVerify(d) => call'[d] \notin {"none", "pairing-send"}
  BY <1>3 DEF FirstVerify
<1>5. \A d \in Calls : Underway(d)' => d = c
  <2>1. Underway(c)
    BY <1>1 DEF Underway, Starting
  <2> QED  BY <1>3, <2>1 DEF WaiterInv, Sequential, Underway
<1>6. \A d \in Calls, i \in 1..Len(toDevice) :
        m.seq = 1 /\ Underway(d)' /\ toDevice[i] = FirstVerify(d) => m = FirstVerify(d)
  <2> SUFFICES ASSUME NEW i \in 1..Len(toDevice), toDevice[i] = FirstVerify(c)
               PROVE  m = FirstVerify(c)
    BY <1>5
  <2>1. flow # "pairing"
    BY <1>1 DEF QueueInv, NotYetVerifying
  <2> QED  BY <2>1 DEF Flow, FirstVerify
<1> QED  BY <1>1, <1>2, <1>4, <1>6, SentQueueKeeps DEF WaiterInv

\* The order of what the device has still to answer (the writes of
\* startPairing, startVerification and the frame handlers).
THEOREM QueueInvariant == Spec => []QueueInv
<1>1. Init => QueueInv
  BY DEF Init, QueueInv, M5Pairs, NotYetVerifying, VerifyLast
<1>2. WaiterInv /\ QueueInv /\ [Next]_vars => QueueInv'
  <2> SUFFICES ASSUME WaiterInv, QueueInv, [Next]_vars PROVE QueueInv'
    OBVIOUS
  <2>1. CallsAdvance
    BY StepAdvances
  <2>2. TypeOK
    BY DEF WaiterInv
  <2>3. ASSUME UNCHANGED toDevice PROVE QueueInv'
    BY <2>1, <2>3, SameQueueKeeps
  <2>4. ASSUME NEW c \in Calls, Started(c) PROVE QueueInv'
    BY <2>1, <2>4, StartedQueueKeeps
  <2>5. ASSUME Frame \/ NoAnswer PROVE QueueInv'
    BY <2>1, <2>2, <2>5, TakenQueueKeeps DEF Frame, NoAnswer
  <2>6. ASSUME NEW h \in Handling, M3Sent(h) \/ M5Sent(h) \/ VerifyM3Sent(h) PROVE QueueInv'
    <3>1. PICK flow \in Flow, seq \in {3, 5} :
            /\ toDevice' = Append(toDevice, [flow |-> flow, seq |-> seq, call |-> h.call])
            /\ seq = 5 => flow = "pairing"
      BY <2>6 DEF M3Sent, M5Sent, VerifyM3Sent, answered, Flow
    <3> DEFINE m == [flow |-> flow, seq |-> seq, call |-> h.call]
    <3>2. m \in Message
      BY DEF Message, Handling
    <3>3. m.seq # 1 /\ \A c \in Calls : m # FirstVerify(c)
      BY DEF FirstVerify
    <3>4. m.seq = 5 => m.flow = "pairing"
      BY <3>1
    <3> HIDE DEF m
    <3> QED  BY <2>1, <2>2, <3>1, <3>2, <3>3, <3>4, SentQueueKeeps DEF m
  <2>7. ASSUME \/ \E c \in Calls : Authenticate(c) \/ VerifyKeys(c) \/ StartFails(c)
               \/ \E t \in timers : Timeout(t)
               \/ SessionFrame \/ Detach \/ UNCHANGED vars
               \/ \E h \in Handling : PinEntered(h) \/ HandlerFails(h)
        PROVE  QueueInv'
    <3>1. UNCHANGED toDevice
      BY <2>7 DEF Authenticate, VerifyKeys, StartFails, Timeout, SessionFrame, Detach,
                  PinEntered, HandlerFails
    <3> QED  BY <2>3, <3>1
  <2> QED  BY <2>4, <2>5, <2>6, <2>7 DEF Next
<1> QED  BY <1>1, <1>2, WaiterInvariant, PTL DEF Spec

-----------------------------------------------------------------------------
(* The keys of an authenticated service *)

VerifyingWaits ==
  state = "verifying-m1" =>
    \E c \in Calls : /\ currentOperation = c /\ call[c] = "verifying"
                     /\ verificationHandler \in {None, c}

SendingOwns ==
  \A c \in Calls : call[c] = "verify-send" => verificationHandler \in {None, c}

DerivedPlace == \A c \in derived : call[c] \in {"verifying", "done", "failed"}

\* The exchange with the device is the verification of c and will stay so.
Verifies(c) ==
  /\ exchange = <<c, "verifying">>
  /\ \A i \in 1..Len(toDevice) : toDevice[i].seq = 1 => toDevice[i] = FirstVerify(c)

DerivedExchange == \A c \in derived : currentOperation = c => Verifies(c)

DerivedCurrent ==
  verificationHandler \in derived /\ session = None
    => currentOperation = verificationHandler

KeysInv == /\ VerifyingWaits /\ SendingOwns /\ DerivedPlace
           /\ DerivedExchange /\ DerivedCurrent /\ AuthenticatedHasKeys

\* An error forgets the handlers and fails the call.
LEMMA ErrorKeys ==
  ASSUME WaiterInv, KeysInv, handleError, UNCHANGED <<session, derived>>
  PROVE  KeysInv'
<1>1. /\ state' = "idle" /\ verificationHandler' = None /\ currentOperation' = None
      /\ \A c \in Calls : call'[c] = IF c = currentOperation THEN "failed" ELSE call[c]
  BY CurrentCallEffect, ErrorTypes DEF handleError, WaiterInv
<1>2. None \notin derived /\ derived \subseteq Calls
  BY CallsAssumption DEF WaiterInv, TypeOK
<1>3. VerifyingWaits' /\ SendingOwns' /\ AuthenticatedHasKeys'
  BY <1>1 DEF VerifyingWaits, SendingOwns, AuthenticatedHasKeys
<1>4. DerivedPlace'
  BY <1>1, <1>2 DEF KeysInv, DerivedPlace
<1>5. DerivedExchange' /\ DerivedCurrent'
  BY <1>1, <1>2 DEF DerivedExchange, DerivedCurrent
<1> QED  BY <1>3, <1>4, <1>5 DEF KeysInv

\* What the device takes does not change the exchange of a verification that
\* is its last.
LEMMA TakenVerifies ==
  ASSUME TypeOK, NEW c \in Calls, Verifies(c), taken
  PROVE  Verifies(c)'
<1>1. /\ 1 \in 1..Len(toDevice) /\ Head(toDevice) = toDevice[1]
      /\ \A i \in 1..Len(toDevice') : /\ i + 1 \in 1..Len(toDevice)
                                      /\ toDevice'[i] = toDevice[i + 1]
  BY DEF taken, TypeOK
<1>2. exchange' = <<c, "verifying">>
  <2>1. CASE Head(toDevice).seq = 1
    <3>1. Head(toDevice) = FirstVerify(c)
      BY <1>1, <2>1 DEF Verifies
    <3> QED  BY <2>1, <3>1 DEF taken, origin, FirstVerify
  <2>2. CASE Head(toDevice).seq # 1
    BY <2>2 DEF taken, Verifies
  <2> QED  BY <2>1, <2>2
<1>3. \A i \in 1..Len(toDevice') : toDevice'[i].seq = 1 => toDevice'[i] = FirstVerify(c)
  BY <1>1 DEF Verifies
<1> QED  BY <1>2, <1>3 DEF Verifies, FirstVerify

\* The M1 of a call that is underway begins an exchange that stays.
LEMMA BegunVerifies ==
  ASSUME TypeOK, QueueInv, NEW c \in Calls, Underway(c), taken,
         Head(toDevice) = FirstVerify(c)
  PROVE  Verifies(c)'
<1>1. /\ 1 \in 1..Len(toDevice) /\ toDevice[1] = FirstVerify(c)
      /\ \A i \in 1..Len(toDevice') : /\ i + 1 \in 1..Len(toDevice) /\ 1 < i + 1
                                      /\ toDevice'[i] = toDevice[i + 1]
  BY DEF taken, TypeOK
<1>2. exchange' = <<c, "verifying">>
  BY DEF taken, origin, FirstVerify
<1>3. \A i \in 1..Len(toDevice') : toDevice'[i].seq = 1 => toDevice'[i] = FirstVerify(c)
  BY <1>1 DEF QueueInv, VerifyLast
<1> QED  BY <1>2, <1>3 DEF Verifies, FirstVerify

\* An answer of the handler goes out, which is no M1.
LEMMA AnswerVerifies ==
  ASSUME TypeOK, NEW c \in Calls, Verifies(c), UNCHANGED exchange,
         NEW m \in Message, m.seq # 1, toDevice' = Append(toDevice, m)
  PROVE  Verifies(c)'
<1>1. \A i \in 1..Len(toDevice') : \/ i \in 1..Len(toDevice) /\ toDevice'[i] = toDevice[i]
                                   \/ toDevice'[i] = m
  BY DEF TypeOK
<1>2. \A i \in 1..Len(toDevice') : toDevice'[i].seq = 1 => toDevice'[i] = FirstVerify(c)
  BY <1>1 DEF Verifies
<1> QED  BY <1>2 DEF Verifies, FirstVerify

\* Messages that answer the device begin no exchange.
LEMMA SentVerifies ==
  ASSUME TypeOK, NEW h \in Handling, M3Sent(h) \/ M5Sent(h) \/ VerifyM3Sent(h)
  PROVE  \A c \in Calls : Verifies(c) => Verifies(c)'
<1>1. PICK flow \in Flow, seq \in {3, 5} :
        toDevice' = Append(toDevice, [flow |-> flow, seq |-> seq, call |-> h.call])
  BY DEF M3Sent, M5Sent, VerifyM3Sent, answered, Flow
<1>2. /\ [flow |-> flow, seq |-> seq, call |-> h.call] \in Message
      /\ [flow |-> flow, seq |-> seq, call |-> h.call].seq # 1
  BY DEF Message, Handling
<1>3. UNCHANGED exchange
  BY DEF M3Sent, M5Sent, VerifyM3Sent
<1> QED  BY <1>1, <1>2, <1>3, AnswerVerifies

\* The service and its calls are left alone, up to a state that is neither
\* authenticated nor the one in which keys are derived.
LEMMA WaitingKeys ==
  ASSUME WaiterInv, KeysInv,
         UNCHANGED <<verificationHandler, currentOperation, session, call, derived>>,
         UNCHANGED state \/ state' \notin {"verifying-m1", "verified"},
         \A c \in Calls : Verifies(c) => Verifies(c)'
  PROVE  KeysInv'
<1>1. VerifyingWaits' /\ AuthenticatedHasKeys'
  BY DEF KeysInv, VerifyingWaits, AuthenticatedHasKeys
<1>2. SendingOwns' /\ DerivedPlace' /\ DerivedCurrent'
  BY DEF KeysInv, SendingOwns, DerivedPlace, DerivedCurrent
<1>3. DerivedExchange'
  BY DEF KeysInv, DerivedExchange, WaiterInv, TypeOK
<1> QED  BY <1>1, <1>2, <1>3 DEF KeysInv

\* A call changes its place before it has keys.
LEMMA EnteringKeys ==
  ASSUME WaiterInv, KeysInv, NEW c \in Calls,
         NEW pc \in Starting \cup {"failed"}, enter(c, pc),
         call[c] \in {"none"} \cup Starting,
         verificationHandler' = IF pc = "verify-send" THEN c ELSE verificationHandler,
         \A d \in Calls : Underway(d) => d = c,
         UNCHANGED <<state, currentOperation, session, derived, exchange, toDevice>>
  PROVE  KeysInv'
<1>1. \A d \in Calls : call'[d] = IF d = c THEN pc ELSE call[d]
  BY DEF WaiterInv, TypeOK, enter
<1>2. c \notin derived /\ derived \subseteq Calls
  BY DEF KeysInv, DerivedPlace, Starting, WaiterInv, TypeOK
<1>3. state # "verifying-m1"
  BY DEF KeysInv, VerifyingWaits, Underway, Starting, Flow
<1>4. VerifyingWaits' /\ AuthenticatedHasKeys'
  BY <1>3 DEF KeysInv, VerifyingWaits, AuthenticatedHasKeys
<1>5. SendingOwns'
  <2>1. \A d \in Calls : d # c => call'[d] # "verify-send"
    BY <1>1 DEF Underway, Starting
  <2>2. call'[c] = "verify-send" => verificationHandler' = c
    BY <1>1
  <2> QED  BY <2>1, <2>2 DEF SendingOwns
<1>6. DerivedPlace'
  BY <1>1, <1>2 DEF KeysInv, DerivedPlace
<1>7. DerivedExchange'
  BY DEF KeysInv, DerivedExchange, Verifies, FirstVerify
<1>8. DerivedCurrent'
  BY <1>2 DEF KeysInv, DerivedCurrent
<1> QED  BY <1>4, <1>5, <1>6, <1>7, <1>8 DEF KeysInv

\* M1 is out for a call that has no keys yet.
LEMMA StartedKeys ==
  ASSUME WaiterInv, KeysInv, NEW c \in Calls, Started(c)
  PROVE  KeysInv'
<1>1. PICK flow \in Flow :
        /\ enter(c, flow) /\ currentOperation' = c
        /\ state' = IF flow = "verifying" THEN "verifying-m1" ELSE "pairing-m1"
        /\ call[c] = IF flow = "verifying" THEN "verify-send" ELSE "pairing-send"
  BY DEF Started, started, Flow
<1>2. UNCHANGED <<verificationHandler, session, derived>>
  BY DEF Started
<1>3. \A d \in Calls : call'[d] = IF d = c THEN flow ELSE call[d]
  BY <1>1 DEF WaiterInv, TypeOK, enter
<1>4. c \notin derived /\ derived \subseteq Calls
  BY <1>1 DEF KeysInv, DerivedPlace, WaiterInv, TypeOK
<1>5. \A d \in Calls : Underway(d) => d = c
  BY <1>1 DEF WaiterInv, Sequential, Underway, Starting
<1>6. VerifyingWaits'
  <2> SUFFICES ASSUME flow = "verifying" PROVE VerifyingWaits'
    BY <1>1 DEF VerifyingWaits
  <2>1. verificationHandler \in {None, c}
    BY <1>1 DEF KeysInv, SendingOwns
  <2> QED  BY <1>1, <1>2, <1>3, <2>1 DEF VerifyingWaits
<1>7. SendingOwns'
  BY <1>3, <1>5 DEF SendingOwns, Underway, Starting, Flow
<1>8. DerivedPlace'
  BY <1>2, <1>3, <1>4 DEF KeysInv, DerivedPlace
<1>9. DerivedExchange'
  BY <1>1, <1>2, <1>4 DEF DerivedExchange
<1>10. DerivedCurrent'
  <2> SUFFICES ASSUME verificationHandler \in derived, session = None PROVE FALSE
    BY <1>2 DEF DerivedCurrent
  <2>1. PICK d \in Calls : d = verificationHandler /\ d = currentOperation
    BY <1>4 DEF KeysInv, DerivedCurrent
  <2>2. call[d] \in Flow
    BY <2>1 DEF WaiterInv, WaiterIsCurrent
  <2>3. d = c
    BY <1>5, <2>2 DEF Underway
  <2> QED  BY <1>4, <2>1, <2>3
<1>11. AuthenticatedHasKeys'
  BY <1>1 DEF AuthenticatedHasKeys
<1> QED  BY <1>6, <1>7, <1>8, <1>9, <1>10, <1>11 DEF KeysInv

\* M6 does not come for a call that has keys: the exchange is its
\* verification, and only a pairing has a fifth message.
LEMMA M6Keys ==
  ASSUME WaiterInv, QueueInv, KeysInv, taken,
         origin(Head(toDevice)) = exchange', Head(toDevice).seq = 5,
         NEW good \in BOOLEAN, handlePairingM6(Head(toDevice), good)
  PROVE  KeysInv'
<1>1. UNCHANGED <<session, derived>>
  BY DEF handlePairingM6
<1>2. CASE handleError
  BY <1>1, <1>2, ErrorKeys
<1>3. CASE /\ state' = "idle" /\ currentOperation' = None
           /\ currentCall("verify-keys") /\ UNCHANGED verificationHandler
  <2>1. \A c \in Calls : call'[c] = IF c = currentOperation THEN "verify-keys" ELSE call[c]
    BY <1>3, CurrentCallEffect DEF WaiterInv
  <2>2. derived \subseteq Calls /\ None \notin derived
    BY CallsAssumption DEF WaiterInv, TypeOK
  <2>3. Head(toDevice) = toDevice[1] /\ 1 \in 1..Len(toDevice)
    BY DEF taken, WaiterInv, TypeOK
  <2>4. Head(toDevice).flow = "pairing"
    BY <2>3 DEF QueueInv, M5Pairs
  <2>5. currentOperation \notin derived
    <3> SUFFICES ASSUME currentOperation \in derived PROVE FALSE
      OBVIOUS
    <3>1. exchange = <<currentOperation, "verifying">>
      BY DEF KeysInv, DerivedExchange, Verifies
    <3>2. exchange' = exchange
      BY DEF taken
    <3>3. exchange = <<Head(toDevice).call, "pairing">>
      BY <2>4, <3>2 DEF origin
    <3> QED  BY <3>1, <3>3
  <2>6. VerifyingWaits' /\ AuthenticatedHasKeys'
    BY <1>3 DEF VerifyingWaits, AuthenticatedHasKeys
  <2>7. SendingOwns'
    BY <1>3, <2>1 DEF KeysInv, SendingOwns
  <2>8. DerivedPlace'
    BY <1>1, <2>1, <2>2, <2>5 DEF KeysInv, DerivedPlace
  <2>9. DerivedExchange'
    BY <1>1, <1>3, <2>2 DEF DerivedExchange
  <2>10. DerivedCurrent'
    BY <1>1, <1>3, <2>5 DEF KeysInv, DerivedCurrent
  <2> QED  BY <2>6, <2>7, <2>8, <2>9, <2>10 DEF KeysInv
<1> QED  BY <1>2, <1>3 DEF handlePairingM6

\* M2 of a verification gives keys to the call that is current.
LEMMA VerifyM2Keys ==
  ASSUME WaiterInv, QueueInv, KeysInv, taken, state = "verifying-m1",
         Head(toDevice).seq = 1,
         NEW good \in BOOLEAN, handleVerifyM2(Head(toDevice), good)
  PROVE  KeysInv'
<1> DEFINE m == Head(toDevice)
<1>1. CASE handleError /\ UNCHANGED <<session, derived>>
  BY <1>1, ErrorKeys
<1>2. CASE /\ verificationHandler # None
           /\ m.flow = "verifying" /\ m.call = verificationHandler
           /\ state' = "verifying-m2"
           /\ derived' = derived \cup {verificationHandler}
           /\ UNCHANGED <<verificationHandler, currentOperation, session, call>>
  <2>1. PICK c \in Calls : /\ currentOperation = c /\ call[c] = "verifying"
                           /\ verificationHandler = c
    BY <1>2 DEF KeysInv, VerifyingWaits
  <2>2. m \in Message
    BY TakenTypes DEF WaiterInv
  <2>3. m = FirstVerify(c)
    BY <1>2, <2>1, <2>2 DEF FirstVerify, Message
  <2>4. Verifies(c)'
    BY <2>1, <2>3, BegunVerifies DEF WaiterInv, Underway, Flow
  <2>5. VerifyingWaits' /\ AuthenticatedHasKeys'
    BY <1>2 DEF VerifyingWaits, AuthenticatedHasKeys
  <2>6. SendingOwns'
    BY <1>2 DEF KeysInv, SendingOwns
  <2>7. DerivedPlace'
    BY <1>2, <2>1 DEF KeysInv, DerivedPlace
  <2>8. DerivedExchange'
    BY <1>2, <2>1, <2>4 DEF DerivedExchange
  <2>9. DerivedCurrent'
    BY <1>2, <2>1 DEF DerivedCurrent
  <2> QED  BY <2>5, <2>6, <2>7, <2>8, <2>9 DEF KeysInv
<1> QED  BY <1>1, <1>2 DEF handleVerifyM2

\* M4 makes the keys of the flow handler those of the session, unless the
\* session has some and nobody waits.
LEMMA VerifyM4Keys ==
  ASSUME WaiterInv, KeysInv, handleVerifyM4
  PROVE  KeysInv'
<1>1. UNCHANGED derived
  BY DEF handleVerifyM4
<1>2. CASE verificationHandler \notin derived
  BY <1>1, <1>2, ErrorKeys DEF handleVerifyM4
<1>3. CASE verificationHandler \in derived
  <2>1. /\ state' = "verified" /\ currentOperation' = None /\ currentCall("done")
        /\ session' = IF currentOperation # None THEN verificationHandler ELSE session
        /\ UNCHANGED verificationHandler
    BY <1>3 DEF handleVerifyM4
  <2>2. derived \subseteq Calls /\ None \notin derived
    BY CallsAssumption DEF WaiterInv, TypeOK
  <2>3. \A c \in Calls : call'[c] = IF c = currentOperation THEN "done" ELSE call[c]
    BY <2>1, CurrentCallEffect DEF WaiterInv
  <2>4. session' # None
    BY <1>3, <2>1, <2>2 DEF KeysInv, DerivedCurrent
  <2>5. VerifyingWaits' /\ AuthenticatedHasKeys'
    BY <2>1, <2>4 DEF VerifyingWaits, AuthenticatedHasKeys
  <2>6. SendingOwns'
    BY <2>1, <2>3 DEF KeysInv, SendingOwns
  <2>7. DerivedPlace'
    BY <1>1, <2>2, <2>3 DEF KeysInv, DerivedPlace
  <2>8. DerivedExchange' /\ DerivedCurrent'
    BY <1>1, <2>1, <2>2, <2>4 DEF DerivedExchange, DerivedCurrent
  <2> QED  BY <2>5, <2>6, <2>7, <2>8 DEF KeysInv
<1> QED  BY <1>2, <1>3

\* A frame that answers the oldest message.
LEMMA RouteKeys ==
  ASSUME WaiterInv, QueueInv, KeysInv, taken, origin(Head(toDevice)) = exchange',
         NEW good \in BOOLEAN, routeMessage(Head(toDevice), good)
  PROVE  KeysInv'
<1> DEFINE m == Head(toDevice)
<1>1. \A c \in Calls : Verifies(c) => Verifies(c)'
  BY TakenVerifies DEF WaiterInv
<1>2. CASE /\ UNCHANGED <<verificationHandler, currentOperation, session, call, derived>>
           /\ UNCHANGED state \/ state' \notin {"verifying-m1", "verified"}
  BY <1>1, <1>2, WaitingKeys
<1>3. CASE handleError /\ UNCHANGED <<session, derived>>
  BY <1>3, ErrorKeys
<1>4. CASE state = "pairing-m1" /\ m.seq = 1
  <2>1. handlePairingM2(m, good)
    BY <1>4 DEF routeMessage
  <2> QED  BY <2>1, <1>2, <1>3 DEF handlePairingM2
<1>5. CASE state = "pairing-m3" /\ m.seq = 3
  <2>1. handlePairingM4(m, good)
    BY <1>5 DEF routeMessage
  <2> QED  BY <2>1, <1>2, <1>3 DEF handlePairingM4
<1>6. CASE state = "pairing-m5" /\ m.seq = 5
  <2>1. handlePairingM6(m, good)
    BY <1>6 DEF routeMessage
  <2> QED  BY <1>6, <2>1, M6Keys
<1>7. CASE state = "verifying-m1" /\ m.seq = 1
  <2>1. handleVerifyM2(m, good)
    BY <1>7 DEF routeMessage
  <2> QED  BY <1>7, <2>1, VerifyM2Keys
<1>8. CASE state = "verifying-m3" /\ m.seq = 3
  <2>1. handleVerifyM4
    BY <1>8 DEF routeMessage
  <2> QED  BY <2>1, VerifyM4Keys
<1>9. CASE /\ ~(state = "pairing-m1" /\ m.seq = 1) /\ ~(state = "pairing-m3" /\ m.seq = 3)
           /\ ~(state = "pairing-m5" /\ m.seq = 5) /\ ~(state = "verifying-m1" /\ m.seq = 1)
           /\ ~(state = "verifying-m3" /\ m.seq = 3)
  <2>1. UNCHANGED <<service, session, call, challenged, derived, handling>>
    BY <1>9 DEF routeMessage
  <2> QED  BY <1>2, <2>1
<1> QED  BY <1>4, <1>5, <1>6, <1>7, <1>8, <1>9

\* Keys belong to the current call until it is authenticated
\* (HAPAuthenticationService.verificationHandler, currentOperation).
THEOREM KeysInvariant == Spec => []KeysInv
<1>1. Init => KeysInv
  BY CallsAssumption
     DEF Init, KeysInv, VerifyingWaits, SendingOwns, DerivedPlace, DerivedExchange,
         DerivedCurrent, AuthenticatedHasKeys
<1>2. WaiterInv /\ QueueInv /\ KeysInv /\ [Next]_vars => KeysInv'
  <2> SUFFICES ASSUME WaiterInv, QueueInv, KeysInv, [Next]_vars PROVE KeysInv'
    OBVIOUS
  <2>1. ASSUME NEW c \in Calls, Authenticate(c) PROVE KeysInv'
    <3>1. PICK pc \in {"failed", "pairing-send", "verify-keys"} : enter(c, pc)
      BY <2>1 DEF Authenticate
    <3>2. call[c] = "none" /\ \A d \in Calls : ~Underway(d)
      BY <2>1 DEF Authenticate, Underway, Starting, Flow, Settled
    <3> QED  BY <2>1, <3>1, <3>2, EnteringKeys DEF Authenticate, Starting
  <2>2. ASSUME NEW c \in Calls, VerifyKeys(c) \/ StartFails(c) PROVE KeysInv'
    <3>1. PICK pc \in {"failed", "verify-send"} :
            /\ enter(c, pc)
            /\ verificationHandler' = IF pc = "verify-send" THEN c ELSE verificationHandler
      BY <2>2 DEF VerifyKeys, StartFails
    <3>2. call[c] \in Starting
      BY <2>2 DEF VerifyKeys, StartFails, Starting
    <3>3. \A d \in Calls : Underway(d) => d = c
      BY <3>2 DEF WaiterInv, Sequential, Underway
    <3> QED  BY <2>2, <3>1, <3>2, <3>3, EnteringKeys DEF VerifyKeys, StartFails, Starting
  <2>3. ASSUME NEW c \in Calls, Started(c) PROVE KeysInv'
    BY <2>3, StartedKeys
  <2>4. ASSUME UNCHANGED <<service, session, call, derived, exchange, toDevice>>
        PROVE  KeysInv'
    BY <2>4, WaitingKeys DEF Verifies, FirstVerify
  <2>5. ASSUME NEW t \in timers, Timeout(t) PROVE KeysInv'
    BY <2>4, <2>5, ErrorKeys DEF Timeout
  <2>6. ASSUME Frame PROVE KeysInv'
    BY <2>6, RouteKeys, ErrorKeys DEF Frame
  <2>7. ASSUME NoAnswer PROVE KeysInv'
    BY <2>7, TakenVerifies, WaitingKeys DEF NoAnswer, WaiterInv
  <2>8. ASSUME SessionFrame \/ \E h \in Handling : HandlerFails(h) PROVE KeysInv'
    BY <2>8, ErrorKeys DEF SessionFrame, HandlerFails
  <2>9. ASSUME Detach \/ UNCHANGED vars \/ \E h \in Handling : PinEntered(h) PROVE KeysInv'
    BY <2>4, <2>9 DEF Detach, PinEntered
  <2>10. ASSUME NEW h \in Handling, M3Sent(h) \/ M5Sent(h) \/ VerifyM3Sent(h) PROVE KeysInv'
    <3>1. \A c \in Calls : Verifies(c) => Verifies(c)'
      BY <2>10, SentVerifies DEF WaiterInv
    <3>2. /\ UNCHANGED <<verificationHandler, currentOperation, session, call, derived>>
          /\ state' \notin {"verifying-m1", "verified"}
      BY <2>10 DEF M3Sent, M5Sent, VerifyM3Sent, answered
    <3> QED  BY <3>1, <3>2, WaitingKeys
  <2> QED  BY <2>1, <2>2, <2>3, <2>5, <2>6, <2>7, <2>8, <2>9, <2>10 DEF Next
<1> QED  BY <1>1, <1>2, WaiterInvariant, QueueInvariant, PTL DEF Spec

\* A service that says it is authenticated has keys, whatever old handlers
\* and timers do (HAPAuthenticationService.isAuthenticated, _session).
THEOREM KeysHeld == Spec => []AuthenticatedHasKeys
<1>1. KeysInv => AuthenticatedHasKeys
  BY DEF KeysInv
<1> QED  BY <1>1, KeysInvariant, PTL

-----------------------------------------------------------------------------
(* Whose keys a call returns *)

\* A handler with keys is that of the current call, if there is one, and of
\* the exchange; the service is not idle, so that nobody starts a pairing.
DerivedHandler ==
  verificationHandler \in derived =>
    /\ state # "idle"
    /\ currentOperation \in {None, verificationHandler}
    /\ Verifies(verificationHandler)
    /\ \A c \in Calls : call[c] # "pairing-send"

\* The service is left alone, or changes to a state that is not idle.
LEMMA WaitingDerived ==
  ASSUME WaiterInv, DerivedHandler,
         UNCHANGED <<verificationHandler, currentOperation, call, derived>>,
         UNCHANGED state \/ state' # "idle",
         \A c \in Calls : Verifies(c) => Verifies(c)'
  PROVE  DerivedHandler'
BY DEF DerivedHandler, WaiterInv, TypeOK

\* An error forgets the handler.
LEMMA ErrorDerived ==
  ASSUME WaiterInv, handleError, UNCHANGED derived
  PROVE  DerivedHandler'
BY ErrorTypes, CallsAssumption DEF DerivedHandler, WaiterInv, TypeOK

\* A frame that answers the oldest message.
LEMMA RouteDerived ==
  ASSUME WaiterInv, QueueInv, KeysInv, DerivedHandler, taken,
         origin(Head(toDevice)) = exchange',
         NEW good \in BOOLEAN, routeMessage(Head(toDevice), good)
  PROVE  DerivedHandler'
<1> DEFINE m == Head(toDevice)
<1>1. \A c \in Calls : Verifies(c) => Verifies(c)'
  BY TakenVerifies DEF WaiterInv
<1>2. CASE /\ UNCHANGED <<verificationHandler, currentOperation, call, derived>>
           /\ UNCHANGED state \/ state' # "idle"
  BY <1>1, <1>2, WaitingDerived
<1>3. CASE handleError /\ UNCHANGED derived
  BY <1>3, ErrorDerived
<1>4. CASE state = "pairing-m1" /\ m.seq = 1
  <2>1. handlePairingM2(m, good)
    BY <1>4 DEF routeMessage
  <2> QED  BY <2>1, <1>2, <1>3 DEF handlePairingM2
<1>5. CASE state = "pairing-m3" /\ m.seq = 3
  <2>1. handlePairingM4(m, good)
    BY <1>5 DEF routeMessage
  <2> QED  BY <2>1, <1>2, <1>3 DEF handlePairingM4
<1>6. CASE state = "pairing-m5" /\ m.seq = 5
  <2>1. handlePairingM6(m, good)
    BY <1>6 DEF routeMessage
  <2>2. CASE UNCHANGED <<verificationHandler, derived>>
    <3> SUFFICES ASSUME verificationHandler \in derived PROVE FALSE
      BY <2>2 DEF DerivedHandler
    <3>1. Head(toDevice) = toDevice[1] /\ 1 \in 1..Len(toDevice)
      BY DEF taken, WaiterInv, TypeOK
    <3>2. m.flow = "pairing"
      BY <1>6, <3>1 DEF QueueInv, M5Pairs
    <3>3. exchange = <<m.call, "pairing">>
      BY <1>6, <3>2 DEF taken, origin
    <3>4. exchange = <<verificationHandler, "verifying">>
      BY DEF DerivedHandler, Verifies
    <3> QED  BY <3>3, <3>4
  <2> QED  BY <2>1, <2>2, <1>3 DEF handlePairingM6
<1>7. CASE state = "verifying-m1" /\ m.seq = 1
  <2>1. handleVerifyM2(m, good)
    BY <1>7 DEF routeMessage
  <2>2. CASE /\ verificationHandler # None
             /\ m.flow = "verifying" /\ m.call = verificationHandler
             /\ state' = "verifying-m2"
             /\ UNCHANGED <<verificationHandler, currentOperation, call>>
    <3>1. PICK c \in Calls : /\ currentOperation = c /\ call[c] = "verifying"
                             /\ verificationHandler = c
      BY <1>7, <2>2 DEF KeysInv, VerifyingWaits
    <3>2. m = FirstVerify(c)
      BY <1>7, <2>2, <3>1, TakenTypes DEF FirstVerify, Message, WaiterInv
    <3>3. Verifies(c)'
      BY <3>1, <3>2, BegunVerifies DEF WaiterInv, Underway, Flow
    <3>4. \A d \in Calls : call[d] # "pairing-send"
      BY <3>1 DEF WaiterInv, Sequential, Underway, Starting, Flow
    <3> QED  BY <2>2, <3>1, <3>3, <3>4 DEF DerivedHandler
  <2> QED  BY <2>1, <2>2, <1>3 DEF handleVerifyM2
<1>8. CASE state = "verifying-m3" /\ m.seq = 3
  <2>1. handleVerifyM4
    BY <1>8 DEF routeMessage
  <2>2. CASE /\ state' = "verified" /\ currentOperation' = None /\ currentCall("done")
             /\ UNCHANGED <<verificationHandler, derived>>
    <3>1. \A c \in Calls : call'[c] = IF c = currentOperation THEN "done" ELSE call[c]
      BY <2>2, CurrentCallEffect DEF WaiterInv
    <3> QED  BY <1>1, <2>2, <3>1 DEF DerivedHandler, WaiterInv, TypeOK
  <2> QED  BY <2>1, <2>2, <1>3 DEF handleVerifyM4
<1>9. CASE /\ ~(state = "pairing-m1" /\ m.seq = 1) /\ ~(state = "pairing-m3" /\ m.seq = 3)
           /\ ~(state = "pairing-m5" /\ m.seq = 5) /\ ~(state = "verifying-m1" /\ m.seq = 1)
           /\ ~(state = "verifying-m3" /\ m.seq = 3)
  <2>1. UNCHANGED <<service, session, call, challenged, derived, handling>>
    BY <1>9 DEF routeMessage
  <2> QED  BY <1>2, <2>1
<1> QED  BY <1>4, <1>5, <1>6, <1>7, <1>8, <1>9

\* A handler with keys is the one the exchange with the device is about
\* (HAPAuthenticationService.verificationHandler).
THEOREM DerivedInvariant == Spec => []DerivedHandler
<1>1. Init => DerivedHandler
  BY DEF Init, DerivedHandler
<1>2. WaiterInv /\ QueueInv /\ KeysInv /\ DerivedHandler /\ [Next]_vars => DerivedHandler'
  <2> SUFFICES ASSUME WaiterInv, QueueInv, KeysInv, DerivedHandler, [Next]_vars
               PROVE  DerivedHandler'
    OBVIOUS
  <2>1. ASSUME UNCHANGED <<exchange, toDevice>> PROVE \A c \in Calls : Verifies(c) => Verifies(c)'
    BY <2>1 DEF Verifies, FirstVerify
  <2>2. ASSUME NEW c \in Calls, NEW pc, pc # "pairing-send" \/ state = "idle", enter(c, pc),
               UNCHANGED <<state, verificationHandler, currentOperation, derived, exchange,
                           toDevice>>
        PROVE  DerivedHandler'
    <3>1. \A d \in Calls : call'[d] = IF d = c THEN pc ELSE call[d]
      BY <2>2 DEF WaiterInv, TypeOK, enter
    <3>2. \A d \in Calls : Verifies(d) => Verifies(d)'
      BY <2>1, <2>2
    <3> QED  BY <2>2, <3>1, <3>2 DEF DerivedHandler, WaiterInv, TypeOK
  <2>3. ASSUME NEW c \in Calls, Authenticate(c) PROVE DerivedHandler'
    <3>1. PICK pc \in {"failed", "pairing-send", "verify-keys"} :
            enter(c, pc) /\ (pc # "pairing-send" \/ state = "idle")
      BY <2>3 DEF Authenticate
    <3> QED  BY <2>2, <2>3, <3>1 DEF Authenticate
  <2>4. ASSUME NEW c \in Calls, VerifyKeys(c) PROVE DerivedHandler'
    <3>1. c \notin derived
      BY <2>4 DEF VerifyKeys, KeysInv, DerivedPlace
    <3> QED  BY <2>4, <3>1 DEF VerifyKeys, DerivedHandler
  <2>5. ASSUME NEW c \in Calls, Started(c) PROVE DerivedHandler'
    <3> SUFFICES ASSUME verificationHandler \in derived PROVE FALSE
      BY <2>5 DEF Started, DerivedHandler
    <3>1. call[c] = "verify-send"
      BY <2>5 DEF Started, DerivedHandler
    <3>2. verificationHandler = c
      BY <3>1, CallsAssumption DEF KeysInv, SendingOwns, WaiterInv, TypeOK
    <3> QED  BY <3>1, <3>2 DEF KeysInv, DerivedPlace
  <2>6. ASSUME NEW c \in Calls, StartFails(c) PROVE DerivedHandler'
    BY <2>2, <2>6 DEF StartFails
  <2>7. ASSUME UNCHANGED <<service, call, derived, exchange, toDevice>> PROVE DerivedHandler'
    BY <2>1, <2>7, WaitingDerived
  <2>8. ASSUME NEW t \in timers, Timeout(t) PROVE DerivedHandler'
    BY <2>7, <2>8, ErrorDerived DEF Timeout
  <2>9. ASSUME Frame PROVE DerivedHandler'
    BY <2>9, RouteDerived, ErrorDerived DEF Frame
  <2>10. ASSUME NoAnswer PROVE DerivedHandler'
    BY <2>10, TakenVerifies, WaitingDerived DEF NoAnswer, WaiterInv
  <2>11. ASSUME SessionFrame \/ \E h \in Handling : HandlerFails(h) PROVE DerivedHandler'
    BY <2>11, ErrorDerived DEF SessionFrame, HandlerFails
  <2>12. ASSUME Detach \/ UNCHANGED vars \/ \E h \in Handling : PinEntered(h)
         PROVE  DerivedHandler'
    BY <2>7, <2>12 DEF Detach, PinEntered
  <2>13. ASSUME NEW h \in Handling, M3Sent(h) \/ M5Sent(h) \/ VerifyM3Sent(h)
         PROVE  DerivedHandler'
    <3>1. \A c \in Calls : Verifies(c) => Verifies(c)'
      BY <2>13, SentVerifies DEF WaiterInv
    <3>2. /\ UNCHANGED <<verificationHandler, currentOperation, call, derived>>
          /\ state' # "idle"
      BY <2>13 DEF M3Sent, M5Sent, VerifyM3Sent, answered
    <3> QED  BY <3>1, <3>2, WaitingDerived
  <2> QED  BY <2>3, <2>4, <2>5, <2>6, <2>8, <2>9, <2>10, <2>11, <2>12, <2>13 DEF Next
<1> QED  BY <1>1, <1>2, WaiterInvariant, QueueInvariant, KeysInvariant, PTL DEF Spec

\* A call returns its own keys, and not before the device has answered M3 of
\* its verification (HAPAuthenticationService.handleVerifyM4, _session).
THEOREM OwnKeysReturned == Spec => OwnKeys
<1> DEFINE Returns ==
      \A c \in Calls : call[c] # "done" /\ call'[c] = "done" =>
        /\ session' = c
        /\ Head(toDevice) = [flow |-> "verifying", seq |-> 3, call |-> c]
<1>1. WaiterInv /\ DerivedHandler /\ [Next]_vars => [Returns]_vars
  <2> SUFFICES ASSUME WaiterInv, DerivedHandler, Next,
                      NEW c \in Calls, call[c] # "done", call'[c] = "done"
               PROVE  /\ session' = c
                      /\ Head(toDevice) = [flow |-> "verifying", seq |-> 3, call |-> c]
    BY DEF Returns
  <2>1. ASSUME NEW d \in Calls, NEW pc \in Starting \cup Flow \cup {"failed"}, enter(d, pc)
        PROVE  FALSE
    BY <2>1 DEF enter, WaiterInv, TypeOK, Starting, Flow
  <2>2. ~handleError
    BY CurrentCallEffect DEF handleError, WaiterInv
  <2>3. ~currentCall("verify-keys")
    BY CurrentCallEffect DEF WaiterInv
  <2>4. ASSUME NEW d \in Calls,
               Authenticate(d) \/ VerifyKeys(d) \/ Started(d) \/ StartFails(d)
        PROVE  FALSE
    BY <2>1, <2>4 DEF Authenticate, VerifyKeys, Started, started, StartFails, Starting, Flow
  <2>5. Frame
    BY <2>2, <2>4
       DEF Next, Timeout, NoAnswer, SessionFrame, Detach, PinEntered, M3Sent, M5Sent,
           VerifyM3Sent, HandlerFails
  <2>6. PICK good \in BOOLEAN : /\ origin(Head(toDevice)) = exchange'
                                /\ routeMessage(Head(toDevice), good)
    BY <2>2, <2>5 DEF Frame
  <2>7. state = "verifying-m3" /\ Head(toDevice).seq = 3 /\ handleVerifyM4
    BY <2>2, <2>3, <2>6
       DEF routeMessage, handlePairingM2, handlePairingM4, handlePairingM6, handleVerifyM2
  <2>8. /\ verificationHandler \in derived /\ currentCall("done")
        /\ session' = IF currentOperation # None THEN verificationHandler ELSE session
    BY <2>2, <2>7 DEF handleVerifyM4
  <2>9. c = currentOperation
    BY <2>8, CurrentCallEffect DEF WaiterInv
  <2>10. verificationHandler = c /\ session' = c
    BY <2>8, <2>9, CallsAssumption DEF DerivedHandler
  <2>11. exchange = <<c, "verifying">> /\ exchange' = exchange
    BY <2>5, <2>7, <2>8, <2>10 DEF DerivedHandler, Verifies, Frame, taken
  <2>12. Head(toDevice).call = c /\ Head(toDevice).flow = "verifying"
    BY <2>6, <2>11 DEF origin
  <2>13. Head(toDevice) \in Message
    BY <2>5, TakenTypes DEF Frame, WaiterInv
  <2> QED  BY <2>7, <2>10, <2>12, <2>13 DEF Message
<1> QED  BY <1>1, WaiterInvariant, DerivedInvariant, PTL DEF Spec, OwnKeys
=============================================================================

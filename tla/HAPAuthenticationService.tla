---------------------- MODULE HAPAuthenticationService ----------------------
(***************************************************************************)
(* HAPAuthenticationService of the Companion protocol: authenticate(), as  *)
(* pair-setup followed by pair-verify or as pair-verify alone, the handler *)
(* of the device's frames and the timers of the operations.                *)
(*                                                                         *)
(* A handler that waits, for the PIN, for keys to be made or for its       *)
(* message to be sent, is counted in handling; frames and timers come in   *)
(* between.  A flow handler is an object of one call and is named by that  *)
(* call.  Cryptography is what it accepts: a frame is good or bad, and a   *)
(* good one belongs to the call whose message it answers.                  *)
(***************************************************************************)
EXTENDS Integers, Sequences

CONSTANTS Calls,  \* calls of authenticate()
          None

ASSUME CallsAssumption == None \notin Calls

VARIABLES
  state,                \* internalState
  pairingHandler,       \* call it belongs to, or None
  verificationHandler,
  currentOperation,     \* call whose promise it settles
  session,              \* call whose keys _session holds
  timers,               \* armed: call and flow
  call,                 \* where each call of authenticate() is
  challenged,           \* calls whose PairingFlowHandler has the data of M2
  derived,              \* calls whose VerificationFlowHandler has keys
  handling,             \* how many frame handlers wait, by place and flow handler
  toDevice,             \* messages sent that the device has not answered
  exchange,             \* the device's: call and flow of the last M1 it took
  listening             \* the channel still has the listener of the constructor

service == <<state, pairingHandler, verificationHandler, currentOperation>>
device  == <<toDevice, exchange, listening>>
vars == <<service, session, timers, call, challenged, derived, handling, device>>

HAPAuthState == {"idle", "pairing-m1", "pairing-m2", "pairing-m3", "pairing-m4",
                 "pairing-m5", "verifying-m1", "verifying-m2", "verifying-m3",
                 "verified"}
Flow     == {"pairing", "verifying"}
Message  == [flow : Flow, seq : {1, 3, 5}, call : Calls]
Handling == [at : {"pin", "m3", "m5", "verify-m3"}, call : Calls]
Starting == {"pairing-send", "verify-keys", "verify-send"}
Settled  == {"done", "failed"}

TypeOK ==
  /\ state \in HAPAuthState
  /\ pairingHandler \in Calls \cup {None}
  /\ verificationHandler \in Calls \cup {None}
  /\ currentOperation \in Calls \cup {None}
  /\ session \in Calls \cup {None}
  /\ timers \subseteq Calls \X Flow
  /\ call \in [Calls -> {"none"} \cup Starting \cup Flow \cup Settled]
  /\ challenged \subseteq Calls /\ derived \subseteq Calls
  /\ handling \in [Handling -> Nat]
  /\ toDevice \in Seq(Message)
  /\ exchange \in (Calls \X Flow) \cup {None}
  /\ listening \in BOOLEAN

Init ==
  /\ state = "idle"
  /\ pairingHandler = None /\ verificationHandler = None
  /\ currentOperation = None /\ session = None
  /\ timers = {}
  /\ call = [c \in Calls |-> "none"]
  /\ challenged = {} /\ derived = {}
  /\ handling = [h \in Handling |-> 0]
  /\ toDevice = <<>> /\ exchange = None
  /\ listening = TRUE

enter(c, pc) == call' = [call EXCEPT ![c] = pc]

reset_KeepsHandler ==
  /\ state' = "idle"
  /\ currentOperation' = None
  /\ UNCHANGED <<pairingHandler, verificationHandler>>

reset ==
  /\ state' = "idle"
  /\ pairingHandler' = None /\ verificationHandler' = None
  /\ currentOperation' = None

\* The promise of the current operation, if there is one, is settled.
currentCall(pc) ==
  call' = [c \in Calls |-> IF c = currentOperation THEN pc ELSE call[c]]

handleError == currentCall("failed") /\ reset

-----------------------------------------------------------------------------
(* Calls of authenticate() *)

\* The protocol makes one at a time.  A service that is not idle refuses, and
\* so does one that is given neither credentials to verify nor a callback for
\* the PIN to pair with.
Authenticate(c) ==
  /\ call[c] = "none"
  /\ \A d \in Calls : call[d] \in {"none"} \cup Settled
  /\ \/ enter(c, "failed") /\ UNCHANGED pairingHandler
     \/ state = "idle" /\ enter(c, "pairing-send") /\ pairingHandler' = c
     \/ state = "idle" /\ enter(c, "verify-keys") /\ UNCHANGED pairingHandler
  /\ UNCHANGED <<state, verificationHandler, currentOperation, session, timers,
                 challenged, derived, handling, device>>

\* The ephemeral key pair is there, and with it the flow handler.
VerifyKeys(c) ==
  /\ call[c] = "verify-keys"
  /\ enter(c, "verify-send")
  /\ verificationHandler' = c
  /\ UNCHANGED <<state, pairingHandler, currentOperation, session, timers,
                 challenged, derived, handling, device>>

started_NoTimer(c, flow, first) ==
  /\ toDevice' = Append(toDevice, [flow |-> flow, seq |-> 1, call |-> c])
  /\ state' = first
  /\ currentOperation' = c
  /\ enter(c, flow)
  /\ UNCHANGED timers

started(c, flow, first) ==
  /\ toDevice' = Append(toDevice, [flow |-> flow, seq |-> 1, call |-> c])
  /\ state' = first
  /\ currentOperation' = c
  /\ timers' = timers \cup {<<c, flow>>}
  /\ enter(c, flow)

\* M1 is out: the promise and its timer are made.
Started(c) ==
  /\ \/ call[c] = "pairing-send" /\ started(c, "pairing", "pairing-m1")
     \/ call[c] = "verify-send" /\ started(c, "verifying", "verifying-m1")
  /\ UNCHANGED <<pairingHandler, verificationHandler, session, challenged,
                 derived, handling, exchange, listening>>

\* M1 cannot be sent, or no keys be made: the flow handler stays.
StartFails(c) ==
  /\ call[c] \in Starting
  /\ enter(c, "failed")
  /\ UNCHANGED <<service, session, timers, challenged, derived, handling,
                 device>>

\* The timer of an operation, which nothing clears.  It rejects the operation
\* that is current, unless its own has ended in the state it looks for; a
\* pairing is never seen as "paired", as that state is left at once.
Timeout(t) ==
  /\ t \in timers
  /\ timers' = timers \ {t}
  /\ IF t[2] = "verifying" /\ state = "verified"
     THEN UNCHANGED <<service, call>>
     ELSE handleError
  /\ UNCHANGED <<session, challenged, derived, handling, device>>

-----------------------------------------------------------------------------
(* Frames of the device *)

waits(h)   == handling' = [handling EXCEPT ![h] = @ + 1]
resumed(h) == handling' = [handling EXCEPT ![h] = @ - 1]

\* A handler has answered: its message goes out and the next is awaited.
answered(h, flow, seq, next) ==
  /\ resumed(h)
  /\ toDevice' = Append(toDevice, [flow |-> flow, seq |-> seq, call |-> h.call])
  /\ state' = next

handlePairingM2(m, good) ==
  IF pairingHandler # None /\ good /\ m.flow = "pairing"
  THEN /\ state' = "pairing-m2"
       /\ challenged' = challenged \cup {pairingHandler}
       /\ waits([at |-> "pin", call |-> pairingHandler])
       /\ UNCHANGED <<pairingHandler, verificationHandler, currentOperation,
                      session, call, derived>>
  ELSE handleError /\ UNCHANGED <<session, challenged, derived, handling>>

handlePairingM4(m, good) ==
  IF pairingHandler # None /\ good /\ m.flow = "pairing" /\ m.call = pairingHandler
  THEN /\ state' = "pairing-m4"
       /\ waits([at |-> "m5", call |-> pairingHandler])
       /\ UNCHANGED <<pairingHandler, verificationHandler, currentOperation,
                      session, call, challenged, derived>>
  ELSE handleError /\ UNCHANGED <<session, challenged, derived, handling>>

handlePairingM6_KeepsOperation(m, good) ==
  /\ IF pairingHandler # None /\ good /\ m.call = pairingHandler
     THEN /\ state' = "idle"
          /\ currentCall("verify-keys")
          /\ UNCHANGED <<currentOperation, pairingHandler, verificationHandler>>
     ELSE handleError
  /\ UNCHANGED <<session, challenged, derived, handling>>

\* Paired, and idle at once: the call goes on to verify its credentials.
handlePairingM6(m, good) ==
  /\ IF pairingHandler # None /\ good /\ m.call = pairingHandler
     THEN /\ state' = "idle"
          /\ currentOperation' = None
          /\ currentCall("verify-keys")
          /\ UNCHANGED <<pairingHandler, verificationHandler>>
     ELSE handleError
  /\ UNCHANGED <<session, challenged, derived, handling>>

\* The call returns as soon as there are keys.
handleVerifyM2_Resolves(m, good) ==
  IF /\ verificationHandler # None /\ good
     /\ m.flow = "verifying" /\ m.call = verificationHandler
  THEN /\ state' = "verified"
       /\ derived' = derived \cup {verificationHandler}
       /\ currentOperation' = None
       /\ currentCall("done")
       /\ session' = IF currentOperation # None THEN verificationHandler ELSE session
       /\ UNCHANGED <<pairingHandler, verificationHandler, challenged,
                      handling>>
  ELSE handleError /\ UNCHANGED <<session, challenged, derived, handling>>

handleVerifyM2(m, good) ==
  IF /\ verificationHandler # None /\ good
     /\ m.flow = "verifying" /\ m.call = verificationHandler
  THEN /\ state' = "verifying-m2"
       /\ derived' = derived \cup {verificationHandler}
       /\ waits([at |-> "verify-m3", call |-> verificationHandler])
       /\ UNCHANGED <<pairingHandler, verificationHandler, currentOperation,
                      session, call, challenged>>
  ELSE handleError /\ UNCHANGED <<session, challenged, derived, handling>>

\* M4 is taken as it is; the keys are those of the flow handler.
handleVerifyM4 ==
  /\ IF verificationHandler \in derived
     THEN /\ state' = "verified"
          /\ currentOperation' = None
          /\ currentCall("done")
          /\ session' = IF currentOperation # None THEN verificationHandler ELSE session
          /\ UNCHANGED <<pairingHandler, verificationHandler>>
     ELSE handleError /\ UNCHANGED session
  /\ UNCHANGED <<challenged, derived, handling>>

\* By state and number; anything else is ignored.
routeMessage(m, good) ==
  CASE state = "pairing-m1" /\ m.seq = 1 -> handlePairingM2(m, good)
    [] state = "pairing-m3" /\ m.seq = 3 -> handlePairingM4(m, good)
    [] state = "pairing-m5" /\ m.seq = 5 -> handlePairingM6(m, good)
    [] state = "verifying-m1" /\ m.seq = 1 -> handleVerifyM2(m, good)
    [] state = "verifying-m3" /\ m.seq = 3 -> handleVerifyM4
    [] OTHER -> UNCHANGED <<service, session, call, challenged, derived,
                            handling>>

origin(m) == <<m.call, m.flow>>

\* The device has taken the oldest message.  It keeps one exchange, which M1
\* begins.
taken ==
  /\ toDevice # <<>>
  /\ toDevice' = Tail(toDevice)
  /\ exchange' = IF Head(toDevice).seq = 1 THEN origin(Head(toDevice)) ELSE exchange

\* It answers with the successor, if that is due, or with an error.
Frame ==
  /\ listening /\ taken
  /\ \/ /\ origin(Head(toDevice)) = exchange'
        /\ \E good \in BOOLEAN : routeMessage(Head(toDevice), good)
     \/ handleError /\ UNCHANGED <<session, challenged, derived, handling>>
  /\ UNCHANGED <<timers, listening>>

\* It does not answer, or nobody listens.
NoAnswer ==
  /\ taken
  /\ UNCHANGED <<service, session, timers, call, challenged, derived, handling,
                 listening>>

\* The frames of the session come here too, enciphered as they are; one that
\* reads as a TLV with an error resets the service.
SessionFrame ==
  /\ listening /\ state = "verified"
  /\ handleError
  /\ UNCHANGED <<session, timers, challenged, derived, handling, device>>

-----------------------------------------------------------------------------
(* Handlers that go on *)

\* The PIN is for the flow handler there is now.
PinEntered(h) ==
  /\ handling[h] # 0 /\ h.at = "pin"
  /\ pairingHandler \in challenged
  /\ handling' = [[handling EXCEPT ![h] = @ - 1]
                    EXCEPT ![[at |-> "m3", call |-> pairingHandler]] = @ + 1]
  /\ UNCHANGED <<service, session, timers, call, challenged, derived, device>>

M3Sent(h) ==
  /\ handling[h] # 0 /\ h.at = "m3"
  /\ answered(h, "pairing", 3, "pairing-m3")
  /\ UNCHANGED <<pairingHandler, verificationHandler, currentOperation, session,
                 timers, call, challenged, derived, exchange, listening>>

M5Sent(h) ==
  /\ handling[h] # 0 /\ h.at = "m5"
  /\ answered(h, "pairing", 5, "pairing-m5")
  /\ UNCHANGED <<pairingHandler, verificationHandler, currentOperation, session,
                 timers, call, challenged, derived, exchange, listening>>

VerifyM3Sent(h) ==
  /\ handling[h] # 0 /\ h.at = "verify-m3"
  /\ answered(h, "verifying", 3, "verifying-m3")
  /\ UNCHANGED <<pairingHandler, verificationHandler, currentOperation, session,
                 timers, call, challenged, derived, exchange, listening>>

\* An invalid PIN, one that comes when the flow handler is gone, or a message
\* that cannot be sent.
HandlerFails(h) ==
  /\ handling[h] # 0
  /\ resumed(h)
  /\ handleError
  /\ UNCHANGED <<session, timers, challenged, derived, device>>

\* The protocol has removed the listeners of the channel.
Detach ==
  /\ listening
  /\ listening' = FALSE
  /\ UNCHANGED <<service, session, timers, call, challenged, derived, handling,
                 toDevice, exchange>>

-----------------------------------------------------------------------------
Next ==
  \/ \E c \in Calls : Authenticate(c) \/ VerifyKeys(c) \/ Started(c) \/ StartFails(c)
  \/ \E t \in timers : Timeout(t)
  \/ Frame \/ NoAnswer \/ SessionFrame \/ Detach
  \/ \E h \in Handling : \/ PinEntered(h) \/ M3Sent(h) \/ M5Sent(h)
                         \/ VerifyM3Sent(h) \/ HandlerFails(h)

Spec == Init /\ [][Next]_vars

\* Key generation and sends end and timers fire; the user and the device
\* owe nothing.
FairSpec ==
  /\ Spec
  /\ \A c \in Calls : WF_vars(VerifyKeys(c) \/ Started(c) \/ StartFails(c))
  /\ \A t \in Calls \X Flow : WF_vars(Timeout(t))

-----------------------------------------------------------------------------
(* Properties *)

\* The promise of a call is the current operation as long as the call waits
\* for it, whatever old handlers and timers do: none is dropped unsettled.
WaiterIsCurrent ==
  \A c \in Calls : call[c] \in Flow <=> currentOperation = c

\* _connect of the protocol takes the keys of a service that says it is
\* authenticated without looking further.
AuthenticatedHasKeys == state = "verified" => session # None

\* The keys a call returns are its own, and the device has answered the very
\* message that proves them.
OwnKeys ==
  [][\A c \in Calls : call[c] # "done" /\ call'[c] = "done" =>
       /\ session' = c
       /\ Head(toDevice) = [flow |-> "verifying", seq |-> 3, call |-> c]]_vars

\* Every authenticate() returns or throws.
Settles ==
  \A c \in Calls : call[c] \in Starting \cup Flow ~> call[c] \in Settled

\* A timeout ends the operation it was set for ("Operation timeout") and no
\* other.
TimersOwn ==
  [][\A c \in Calls, f \in Flow :
       Timeout(<<c, f>>) => \/ currentOperation = None
                            \/ currentOperation = c /\ call[c] = f]_vars
=============================================================================

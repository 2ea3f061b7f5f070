----------------------------- MODULE MRPProtocol -----------------------------
(***************************************************************************)
(* MRPProtocol on the data channel of an AirPlay session: its connection   *)
(* state, its listeners on a channel it does not own, the table of         *)
(* outstanding requests, and the calls of connect(), disconnect() and      *)
(* sendAndReceive() that interleave at their awaits.  The channel is the   *)
(* environment: DataStreamChannel as far as its status and its listeners   *)
(* go, connected, lost and closed by AirPlay and by the network.           *)
(*                                                                         *)
(* A JavaScript callback runs to its end, and the promises it settles are  *)
(* continued before the next one: Next lets an event happen only when no   *)
(* connect() has a settled request to continue after.                      *)
(***************************************************************************)
EXTENDS Naturals, FiniteSets

CONSTANTS Conns,    \* calls of connect()
          App       \* calls of sendAndReceive() by the application

\* Requests of connect(): device information, client updates, keyboard.
Steps == 1..3
Setup == Conns \X Steps
Requests == App \cup Setup

ASSUME AppAssumption == App \cap Setup = {}
ASSUME FiniteAssumption == IsFiniteSet(Conns)

VARIABLES
  channel,      \* status of airPlaySession.dataChannel
  listeners,    \* connects whose protobuf handler is on the channel
  watchers,     \* connects whose "disconnected" watcher is on the channel
  handler,      \* the protobuf handler the fields remember, if any
  state,        \* stateMachine.state
  conn,         \* how far each connect() is
  step,         \* the request a running connect() waits for
  waited,       \* connects that took the path of waitFor()
  promise,      \* what the caller of each request holds
  capturing,    \* requests sent, whose capture is still being written
  outstanding,  \* the outstanding map
  timer,        \* requests whose timeout is armed
  sent,         \* requests the device may answer
  heard         \* requests whose answer found them registered or settled

chanVars == <<channel, listeners, watchers, handler>>
reqVars == <<promise, capturing, outstanding, timer, sent, heard>>
connVars == <<conn, step, waited>>
vars == <<channel, listeners, watchers, handler, state, conn, step, waited,
          promise, capturing, outstanding, timer, sent, heard>>

NoConn == "noConn"
ChannelStates == {"none", "connecting", "connected", "disconnected", "closed"}
States == {"idle", "connecting", "ready", "failed"}
ConnStates == {"unused", "waiting", "running", "returned", "thrown"}

TypeOK == /\ channel \in ChannelStates
          /\ listeners \subseteq Conns
          /\ watchers \subseteq Conns
          /\ handler \in Conns \cup {NoConn}
          /\ state \in States
          /\ conn \in [Conns -> ConnStates]
          /\ step \in [Conns -> Steps]
          /\ waited \subseteq Conns
          /\ promise \in [Requests -> {"none", "pending", "resolved", "rejected"}]
          /\ capturing \subseteq Requests
          /\ outstanding \subseteq Requests
          /\ timer \subseteq Requests
          /\ sent \subseteq Requests
          /\ heard \subseteq Requests

Init == /\ channel = "none"
        /\ listeners = {}
        /\ watchers = {}
        /\ handler = NoConn
        /\ state = "idle"
        /\ conn = [c \in Conns |-> "unused"]
        /\ step = [c \in Conns |-> 1]
        /\ waited = {}
        /\ promise = [r \in Requests |-> "none"]
        /\ capturing = {}
        /\ outstanding = {}
        /\ timer = {}
        /\ sent = {}
        /\ heard = {}

-----------------------------------------------------------------------------
(* The request table *)

\* sendAndReceive up to its first wait.  The message leaves at once; what is
\* awaited next is the capture of it on disk (no time at all once the capture
\* is closed), and only then receive() registers the request.
Issue(r) ==
  /\ promise' = [promise EXCEPT ![r] = "pending"]
  /\ capturing' = capturing \cup {r}
  /\ sent' = IF channel = "connected" THEN sent \cup {r} ELSE sent
  /\ UNCHANGED <<outstanding, timer, heard>>

TearDown_Forgets ==
  /\ outstanding' = {}
  /\ timer' = timer \ outstanding
  /\ UNCHANGED <<promise, capturing, sent, heard>>

\* tearDown: every registered request fails and every timer is cleared; a
\* request whose capture is being written is not registered yet.
TearDown ==
  /\ promise' = [r \in Requests |->
                   IF r \in outstanding THEN "rejected" ELSE promise[r]]
  /\ outstanding' = {}
  /\ timer' = timer \ outstanding
  /\ UNCHANGED <<capturing, sent, heard>>

\* The capture is on disk: receive() registers the request and its timeout.
Captured(r) ==
  /\ r \in capturing
  /\ capturing' = capturing \ {r}
  /\ outstanding' = outstanding \cup {r}
  /\ timer' = timer \cup {r}
  /\ UNCHANGED <<chanVars, state, connVars, promise, sent, heard>>

\* The capture could not be written: the call fails before it registers.
CaptureFails(r) ==
  /\ r \in capturing
  /\ capturing' = capturing \ {r}
  /\ promise' = [promise EXCEPT ![r] = "rejected"]
  /\ UNCHANGED <<chanVars, state, connVars, outstanding, timer, sent, heard>>

\* The timeout of receive().
Timeout(r) ==
  /\ r \in timer
  /\ timer' = timer \ {r}
  /\ outstanding' = outstanding \ {r}
  /\ promise' = [promise EXCEPT ![r] = "rejected"]
  /\ UNCHANGED <<chanVars, state, connVars, capturing, sent, heard>>

Answer_BeforeRegistration(r) ==
  /\ channel = "connected" /\ listeners # {} /\ r \in sent
  /\ sent' = sent \ {r}
  /\ promise' = [promise EXCEPT ![r] = IF @ = "pending" THEN "resolved" ELSE @]
  /\ outstanding' = outstanding \ {r} /\ timer' = timer \ {r}
  /\ heard' = IF r \in capturing THEN heard ELSE heard \cup {r}
  /\ UNCHANGED <<chanVars, state, connVars, capturing>>

\* messageReceived for the device's answer to r: it settles a registered
\* request, well or with its error code, and is only an event for any other.
Answer(r) ==
  /\ channel = "connected"
  /\ listeners # {}
  /\ r \in sent
  /\ sent' = sent \ {r}
  /\ IF r \in outstanding
       THEN /\ \E o \in {"resolved", "rejected"} :
                  promise' = [promise EXCEPT ![r] = o]
            /\ outstanding' = outstanding \ {r}
            /\ timer' = timer \ {r}
       ELSE UNCHANGED <<promise, outstanding, timer>>
  /\ heard' = IF r \in capturing THEN heard ELSE heard \cup {r}
  /\ UNCHANGED <<chanVars, state, connVars, capturing>>

\* The application calls sendAndReceive(), in whatever state.
SendAndReceive(r) ==
  /\ promise[r] = "none"
  /\ Issue(r)
  /\ UNCHANGED <<chanVars, state, connVars>>

-----------------------------------------------------------------------------
(* connect and disconnect *)

\* _setup: both listeners are installed and the first message is sent.
Begin(c) ==
  /\ listeners' = listeners \cup {c}
  /\ handler' = c
  /\ watchers' = watchers \cup {c}
  /\ conn' = [conn EXCEPT ![c] = "running"]
  /\ Issue(<<c, 1>>)
  /\ UNCHANGED <<channel, step>>

\* connect() without a data channel fails at once.
ConnectNoChannel(c) ==
  /\ conn[c] = "unused"
  /\ channel \in {"none", "closed"}
  /\ state' = "failed"
  /\ conn' = [conn EXCEPT ![c] = "thrown"]
  /\ UNCHANGED <<chanVars, step, waited, reqVars>>

\* connect() on a connected channel: whatever the state is.
ConnectDirect(c) ==
  /\ conn[c] = "unused"
  /\ channel = "connected"
  /\ state' = "connecting"
  /\ Begin(c)
  /\ UNCHANGED waited

\* connect() on a channel that is not connected waits until it is.
ConnectWait(c) ==
  /\ conn[c] = "unused"
  /\ channel \in {"connecting", "disconnected"}
  /\ state' = "connecting"
  /\ conn' = [conn EXCEPT ![c] = "waiting"]
  /\ UNCHANGED <<chanVars, step, waited, reqVars>>

\* The wait ends with the channel's event, whatever happened to the protocol
\* since, ...
WaitOver(c) ==
  /\ conn[c] = "waiting"
  /\ channel = "connected"
  /\ Begin(c)
  /\ waited' = waited \cup {c}
  /\ UNCHANGED state

\* ... or with its own timeout; the state is left as it was.
WaitTimeout(c) ==
  /\ conn[c] = "waiting"
  /\ conn' = [conn EXCEPT ![c] = "thrown"]
  /\ UNCHANGED <<chanVars, state, step, waited, reqVars>>

\* connect() goes on after its last request was answered: the next message,
\* or the end.  Only the path that waited sets the state.
Continue(c) ==
  /\ conn[c] = "running"
  /\ LET r == <<c, step[c]>> IN
       \/ /\ promise[r] = "rejected"
          /\ conn' = [conn EXCEPT ![c] = "thrown"]
          /\ UNCHANGED <<state, step, reqVars>>
       \/ /\ promise[r] = "resolved"
          /\ step[c] < 3
          /\ step' = [step EXCEPT ![c] = @ + 1]
          /\ Issue(<<c, step[c] + 1>>)
          /\ UNCHANGED <<state, conn>>
       \/ /\ promise[r] = "resolved"
          /\ step[c] = 3
          /\ conn' = [conn EXCEPT ![c] = "returned"]
          /\ state' = IF c \in waited THEN "ready" ELSE state
          /\ UNCHANGED <<step, reqVars>>
  /\ UNCHANGED <<chanVars, waited>>

\* disconnect().  The handler the field remembers is removed; the watcher is
\* not: EmitterEx registered a wrapper of it, which off() does not find.
Disconnect ==
  /\ state # "idle"
  /\ TearDown
  /\ listeners' = IF channel \in {"none", "closed"} THEN listeners
                  ELSE listeners \ {handler}
  /\ handler' = NoConn
  /\ state' = "idle"
  /\ UNCHANGED <<channel, watchers, connVars>>

-----------------------------------------------------------------------------
(* The data channel *)

\* AirPlay creates the channel and connects it.
ChannelOpen == /\ channel = "none"
               /\ channel' = "connecting"
               /\ UNCHANGED <<listeners, watchers, handler, state, connVars, reqVars>>

ChannelUp == /\ channel = "connecting"
             /\ channel' = "connected"
             /\ UNCHANGED <<listeners, watchers, handler, state, connVars, reqVars>>

Notify_NoFailure == /\ watchers' = {}
                    /\ IF watchers = {} THEN UNCHANGED reqVars ELSE TearDown
                    /\ UNCHANGED state

\* What the "disconnected" event does here: each watcher fires once.
Notify == /\ watchers' = {}
          /\ IF watchers = {} THEN UNCHANGED <<state, reqVars>>
             ELSE /\ TearDown
                  /\ state' = "failed"

\* The channel's transport is lost: teardown of the channel.
ChannelLost == /\ channel \in {"connecting", "connected"}
               /\ channel' = "disconnected"
               /\ Notify
               /\ UNCHANGED <<listeners, handler, connVars>>

\* AirPlay's disconnect(): the channel is torn down and all its listeners are
\* removed, the one of a waiting connect() among them, ...
ChannelClose == /\ channel \in {"connecting", "connected", "disconnected"}
                /\ channel' = "disconnected"
                /\ IF channel = "disconnected"
                     THEN /\ watchers' = {}
                          /\ UNCHANGED <<state, reqVars>>
                     ELSE Notify
                /\ listeners' = {}
                /\ UNCHANGED <<handler, connVars>>

\* ... and once its transport is closed too the session forgets it.
ChannelForget == /\ channel = "disconnected"
                 /\ listeners = {}
                 /\ watchers = {}
                 /\ channel' = "closed"
                 /\ UNCHANGED <<listeners, watchers, handler, state, connVars, reqVars>>

-----------------------------------------------------------------------------

\* A connect() whose request is settled continues before anything else.
Runnable(c) == /\ conn[c] = "running"
               /\ promise[<<c, step[c]>>] \in {"resolved", "rejected"}

\* A connect() that waits is continued by the event it waited for.
Woken(c) == conn[c] = "waiting" /\ channel = "connected"

Quiet == \A c \in Conns : ~Runnable(c) /\ ~Woken(c)

Connect(c) == ConnectNoChannel(c) \/ ConnectDirect(c) \/ ConnectWait(c)

Event == \/ \E c \in Conns : Connect(c) \/ WaitTimeout(c)
         \/ \E r \in App : SendAndReceive(r)
         \/ \E r \in Requests : \/ Captured(r)
                                \/ CaptureFails(r)
                                \/ Timeout(r)
                                \/ Answer(r)
         \/ Disconnect
         \/ ChannelOpen \/ ChannelUp \/ ChannelLost
         \/ ChannelClose \/ ChannelForget

Next == \/ \E c \in Conns : Continue(c) \/ WaitOver(c)
        \/ Quiet /\ Event

\* The event loop runs continuations and expired timers, and a write to disk
\* ends one way or the other.
Fairness == /\ WF_vars(\E c \in Conns : Continue(c) \/ WaitOver(c))
            /\ WF_vars(Quiet /\ \E c \in Conns : WaitTimeout(c))
            /\ WF_vars(Quiet /\ \E r \in Requests : Captured(r) \/ CaptureFails(r))
            /\ WF_vars(Quiet /\ \E r \in Requests : Timeout(r))

Spec == Init /\ [][Next]_vars

FairSpec == Spec /\ Fairness

-----------------------------------------------------------------------------
(* Properties *)

\* A request in flight is either still being captured or registered, never
\* both and never neither, and exactly the registered ones have a timer: no
\* timer of an answered request is left to fire, no registered request can
\* wait for ever.
PendingIsTracked ==
  /\ timer = outstanding
  /\ capturing \cap outstanding = {}
  /\ \A r \in Requests : promise[r] = "pending" <=> r \in capturing \cup outstanding

\* A protocol that says it is ready hears the device and will notice the loss
\* of the channel: however disconnects, losses, timeouts and a second
\* connect() fell between the steps of the connect() that made it ready.
ReadyIsAttached ==
  state = "ready" => /\ channel = "connected"
                     /\ listeners # {}
                     /\ watchers # {}

\* The table keeps the promise of RequestTable for every answer that comes
\* after the registration of its request.
Table == INSTANCE RequestTable WITH Tx <- Requests, replied <- heard
ImplementsTable == Table!Spec

\* Each sendAndReceive() is settled and each connect() returns or throws in
\* the end, whatever becomes of the channel, of the protocol and of the
\* captures.  (A call is made once here: when no call is in progress for ever
\* after, each of them has ended.)
NothingInProgress == /\ \A r \in Requests : promise[r] # "pending"
                     /\ \A c \in Conns : conn[c] \notin {"waiting", "running"}
CallsSettle == <>[]NothingInProgress

=============================================================================

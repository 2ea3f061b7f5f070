-------------------------- MODULE Airplay2Protocol --------------------------
(***************************************************************************)
(* Airplay2Protocol with the layers it drives: the HTTP channel and the    *)
(* RTSP session on its transport, the authentication that talks through    *)
(* them, the event and data channels with transports of their own, the     *)
(* keep-alive and the recovery loop around connect().                      *)
(*                                                                         *)
(* connect() is a script of waits: for a socket, for a file, for the user  *)
(* and for the responses of the Apple TV.  disconnect(), the loss of the   *)
(* connection and the keep-alive interleave at these waits.  One object    *)
(* makes one connection: DeviceApi creates it and calls connect() once.    *)
(***************************************************************************)
EXTENDS Naturals, Sequences, FiniteSets

CONSTANT MaxFeedbacks   \* bound on the keep-alives of a behaviour

ASSUME FeedbackAssumption == MaxFeedbacks \in Nat

VARIABLES
  state,       \* stateMachine.state
  step,        \* what connect() waits for
  paired,      \* whether credentials are stored
  transport,   \* the main connection; "error" is a socket that reported one
  listening,   \* whether the listeners on transport and channel are there
  encryption,  \* state of the encryption of the main connection
  event,       \* connection of the event channel
  data,        \* connection of the data channel
  keepAlive,   \* whether the keep-alive interval runs
  feedbacks,   \* keep-alives sent
  waiting,     \* requests that listen for a response
  wire,        \* requests the Apple TV has to answer, in order
  settled,     \* answered requests whose callers have yet to run
  closing,     \* whether disconnect() waits for TEARDOWN
  overlap      \* whether a disconnect() or a loss came during connect()

connVars == <<state, step, paired, encryption, keepAlive>>
channelVars == <<event, data>>
httpVars == <<waiting, wire>>
vars == <<connVars, transport, listening, channelVars, feedbacks, httpVars,
          settled, closing, overlap>>

\* The requests of pair-setup and pair-verify, and of the RTSP session.
Pairing == {"pinStart", "m1", "m3", "m5"}
Verifying == {"v1", "v3"}
Rtsp == {"setup", "record", "stream"}
ConnRequests == Pairing \cup Verifying \cup Rtsp
Requests == ConnRequests \cup {"feedback", "teardown"}

\* Those whose response is read; RECORD and TEARDOWN only ask for status 200,
\* pinStart and feedback not even for that.
Parsed == ConnRequests \ {"pinStart", "record"}

LocalWaits == {"load", "pin", "save"}
Waits == LocalWaits \cup {"delay", "open", "event", "data"}
Running == ConnRequests \cup Waits

States == {"idle", "connecting", "authenticating", "establishing", "ready",
           "failed", "disconnecting"}
Settlements == [of : Requests, by : Requests, ok : BOOLEAN]

TypeOK == /\ state \in States
          /\ step \in Running \cup {"unused", "returned"}
          /\ paired \in BOOLEAN
          /\ transport \in {"closed", "opening", "open", "error"}
          /\ listening \in BOOLEAN
          /\ encryption \in {"disabled", "enabled", "error"}
          /\ event \in {"none", "opening", "open", "closed"}
          /\ data \in {"none", "opening", "open", "closed"}
          /\ keepAlive \in BOOLEAN
          /\ feedbacks \in 0..MaxFeedbacks
          /\ waiting \subseteq Requests
          /\ wire \in Seq(Requests)
          /\ settled \subseteq Settlements
          /\ closing \in BOOLEAN
          /\ overlap \in BOOLEAN

Init == /\ state = "idle"
        /\ step = "unused"
        /\ paired \in BOOLEAN
        /\ transport = "closed"
        /\ listening = TRUE
        /\ encryption = "disabled"
        /\ event = "none"
        /\ data = "none"
        /\ keepAlive = FALSE
        /\ feedbacks = 0
        /\ waiting = {}
        /\ wire = <<>>
        /\ settled = {}
        /\ closing = FALSE
        /\ overlap = FALSE

\* Callers of settled requests run before the next event.
Quiet == settled = {}

-----------------------------------------------------------------------------
(* connect() *)

\* The wait that follows one that went well.  Pairing comes first without
\* stored credentials, and saves new ones after they were verified.
after == [open     |-> "load",
          load     |-> IF paired THEN "v1" ELSE "pinStart",
          pinStart |-> "m1",
          m1       |-> "pin",
          pin      |-> "m3",
          m3       |-> "m5",
          m5       |-> "v1",
          v1       |-> "v3",
          v3       |-> IF paired THEN "setup" ELSE "save",
          save     |-> "setup",
          setup    |-> "event",
          event    |-> "record",
          record   |-> "stream",
          stream   |-> "data",
          data     |-> "returned"]

\* What connect() sets on its way to a wait, whatever happened meanwhile.
stateAt(n) == CASE n = "load" -> "authenticating"
                [] n = "setup" -> "establishing"
                [] n = "returned" -> "ready"
                [] OTHER -> state

\* sendRequest on an open transport: listen for a response and send.  After a
\* failed decryption it sends plain text, of which the Apple TV makes nothing.
Sent(r) == /\ waiting' = waiting \cup {r}
           /\ wire' = IF encryption' = "error" THEN wire ELSE Append(wire, r)

\* The attempt throws: runWithRecovery tries again after a delay, for ever.
Throw == /\ step' = "delay"
         /\ UNCHANGED <<state, paired, encryption, keepAlive, httpVars>>

\* Keeps alive as soon as the event channel is connected.
GoOn_EarlyBeat(s) ==
  LET n == after[s] IN
    /\ state' = stateAt(n)
    /\ paired' = (paired \/ s = "save")
    /\ encryption' = IF n = "setup" THEN "enabled" ELSE encryption
    /\ keepAlive' = (keepAlive \/ n = "record")
    /\ IF n \in ConnRequests
       THEN IF transport' = "open"
            THEN step' = n /\ Sent(n)
            ELSE step' = "delay" /\ UNCHANGED httpVars
       ELSE step' = n /\ UNCHANGED httpVars

\* connect() goes on from s to its next wait.  A request on a transport that is
\* closed, or that had an error, throws at once.
GoOn(s) ==
  LET n == after[s] IN
    /\ state' = stateAt(n)
    /\ paired' = (paired \/ s = "save")
    /\ encryption' = IF n = "setup" THEN "enabled" ELSE encryption
    /\ keepAlive' = (keepAlive \/ n = "returned")
    /\ IF n \in ConnRequests
       THEN IF transport' = "open"
            THEN step' = n /\ Sent(n)
            ELSE step' = "delay" /\ UNCHANGED httpVars
       ELSE step' = n /\ UNCHANGED httpVars

\* The channel that connect() creates on its way to the wait n.
Created(n, channel, name) == IF n = name THEN "opening" ELSE channel

\* connect() waits before its first attempt too.
Connect == /\ Quiet
           /\ step = "unused"
           /\ step' = "delay"
           /\ UNCHANGED <<state, paired, encryption, keepAlive, transport, listening,
                          channelVars, feedbacks, httpVars, settled, closing, overlap>>

\* _connect insists on the idle state, and a transport that is not connected.
Attempt == /\ Quiet
           /\ step = "delay"
           /\ state = "idle"
           /\ state' = "connecting"
           /\ IF transport \in {"closed", "error"}
              THEN step' = "open" /\ transport' = "opening"
              ELSE UNCHANGED <<step, transport>>
           /\ UNCHANGED <<paired, listening, encryption, keepAlive, channelVars,
                          feedbacks, httpVars, settled, closing, overlap>>

\* The socket opens, even after disconnect() has given it up.
TransportOpen == /\ Quiet
                 /\ step = "open"
                 /\ transport' = "open"
                 /\ GoOn("open")
                 /\ UNCHANGED <<listening, channelVars, feedbacks, settled, closing,
                                overlap>>

TransportFails == /\ Quiet
                  /\ step = "open"
                  /\ transport' = "closed"
                  /\ Throw
                  /\ UNCHANGED <<listening, channelVars, feedbacks, settled, closing,
                                 overlap>>

\* A file is read or written, the user enters a PIN, or one of these throws.
LocalWait == /\ Quiet
             /\ step \in LocalWaits
             /\ UNCHANGED transport
             /\ GoOn(step) \/ Throw
             /\ UNCHANGED <<listening, channelVars, feedbacks, settled, closing, overlap>>

\* start() of the event channel ends; nothing watches this channel afterwards.
EventOpen == /\ Quiet
             /\ step = "event"
             /\ UNCHANGED <<transport, data>>
             /\ \/ event' = "open" /\ GoOn("event")
                \/ event' = "closed" /\ Throw
             /\ UNCHANGED <<listening, feedbacks, settled, closing, overlap>>

\* connect() of the data channel ends: the keep-alive starts, connect() returns.
DataOpen == /\ Quiet
            /\ step = "data"
            /\ UNCHANGED <<transport, event>>
            /\ \/ data' = "open" /\ GoOn("data")
               \/ data' = "closed" /\ Throw
            /\ UNCHANGED <<listening, feedbacks, settled, closing, overlap>>

-----------------------------------------------------------------------------
(* Requests and responses *)

\* A response arrives: every request that waits takes it for its own.
Respond(ok) ==
  /\ Quiet
  /\ wire # <<>>
  /\ wire' = Tail(wire)
  /\ IF listening
     THEN /\ settled' = {[of |-> r, by |-> Head(wire), ok |-> ok] : r \in waiting}
          /\ waiting' = {}
     ELSE UNCHANGED <<settled, waiting>>
  /\ UNCHANGED <<connVars, transport, listening, channelVars, feedbacks, closing, overlap>>

\* Whether the caller of the request goes on with the response.
Accepted(s) == \/ s.of = "pinStart"
               \/ s.ok /\ (s.of \in Parsed => s.by = s.of)

\* connect() runs with the response; an answer may also lack what is needed.
Continue ==
  \E s \in settled :
    /\ s.of = step
    /\ settled' = settled \ {s}
    /\ UNCHANGED transport
    /\ \/ /\ Accepted(s)
          /\ GoOn(step)
          /\ event' = Created(after[step], event, "event")
          /\ data' = Created(after[step], data, "data")
       \/ /\ ~Accepted(s) \/ step \in Parsed
          /\ Throw
          /\ UNCHANGED channelVars
    /\ UNCHANGED <<listening, feedbacks, closing, overlap>>

\* The keep-alive sends; without a connection it only reports an error.
Feedback == /\ Quiet
            /\ keepAlive
            /\ feedbacks < MaxFeedbacks
            /\ feedbacks' = feedbacks + 1
            /\ UNCHANGED <<connVars, transport, listening, channelVars, settled,
                           closing, overlap>>
            /\ IF transport = "open" THEN Sent("feedback") ELSE UNCHANGED httpVars

\* The keep-alive looks at no response.
FeedbackEnds == /\ \E s \in settled : s.of = "feedback" /\ settled' = settled \ {s}
                /\ UNCHANGED <<connVars, transport, listening, channelVars, feedbacks,
                               httpVars, closing, overlap>>

-----------------------------------------------------------------------------
(* disconnect() and the loss of the connection *)

Release_ForgetsKeys ==
  /\ state' = "idle"
  /\ event' = "none"
  /\ data' = "none"
  /\ transport' = "closed"
  /\ listening' = FALSE
  /\ waiting' = {}
  /\ wire' = <<>>
  /\ closing' = FALSE
  /\ UNCHANGED encryption

\* The end of disconnect(): the channels, the encryption, the transport and the
\* listeners go, and with the listeners the requests that still wait.
Release == /\ state' = "idle"
           /\ event' = "none"
           /\ data' = "none"
           /\ encryption' = "disabled"
           /\ transport' = "closed"
           /\ listening' = FALSE
           /\ waiting' = {}
           /\ wire' = <<>>
           /\ closing' = FALSE

\* Removes the listeners before the TEARDOWN.
Disconnect_DeafFirst ==
  /\ Quiet
  /\ state \notin {"idle", "disconnecting"}
  /\ keepAlive' = FALSE
  /\ overlap' = (overlap \/ step \in Running)
  /\ IF transport = "open"
     THEN /\ state' = "disconnecting"
          /\ closing' = TRUE
          /\ listening' = FALSE
          /\ UNCHANGED <<encryption, transport, channelVars>>
          /\ Sent("teardown")
     ELSE Release
  /\ UNCHANGED <<step, paired, feedbacks, settled>>

\* TEARDOWN goes first; on a transport that is not open it throws, which is
\* caught.
Disconnect == /\ Quiet
              /\ state \notin {"idle", "disconnecting"}
              /\ keepAlive' = FALSE
              /\ overlap' = (overlap \/ step \in Running)
              /\ IF transport = "open"
                 THEN /\ state' = "disconnecting"
                      /\ closing' = TRUE
                      /\ UNCHANGED <<encryption, transport, listening, channelVars>>
                      /\ Sent("teardown")
                 ELSE Release
              /\ UNCHANGED <<step, paired, feedbacks, settled>>

\* TEARDOWN was answered, well or badly.
TornDown == /\ \E s \in settled : s.of = "teardown" /\ settled' = settled \ {s}
            /\ Release
            /\ UNCHANGED <<step, paired, keepAlive, feedbacks, overlap>>

Lost_KeepsBeating ==
  /\ Quiet
  /\ transport \in {"open", "error"}
  /\ transport' = "closed"
  /\ wire' = <<>>
  /\ overlap' = (overlap \/ step \in Running)
  /\ IF listening /\ state \notin {"idle", "disconnecting"}
     THEN /\ state' = "failed"
          /\ listening' = FALSE
          /\ waiting' = {}
     ELSE UNCHANGED <<state, listening, waiting>>
  /\ UNCHANGED <<step, paired, encryption, keepAlive, channelVars, feedbacks, settled, closing>>

\* The main connection closes.  Listeners go with the first loss; requests that
\* wait are left to wait.
Lost == /\ Quiet
        /\ transport \in {"open", "error"}
        /\ transport' = "closed"
        /\ wire' = <<>>
        /\ overlap' = (overlap \/ step \in Running)
        /\ IF listening /\ state \notin {"idle", "disconnecting"}
           THEN /\ state' = "failed"
                /\ keepAlive' = FALSE
                /\ listening' = FALSE
                /\ waiting' = {}
           ELSE UNCHANGED <<state, keepAlive, listening, waiting>>
        /\ UNCHANGED <<step, paired, encryption, channelVars, feedbacks, settled, closing>>

\* The socket reports an error without closing: AirPlay does not react, and
\* every later request throws.
SocketError == /\ Quiet
               /\ transport = "open"
               /\ transport' = "error"
               /\ UNCHANGED <<connVars, listening, channelVars, feedbacks, httpVars,
                              settled, closing, overlap>>

\* A frame of the main connection does not decrypt: the encryption is over and no
\* later response can be read, but nobody is told.  decrypt() throws out of the
\* socket's data handler, which Bun may report as an error of the socket.
DecryptFails == /\ Quiet
                /\ listening
                /\ transport \in {"open", "error"}
                /\ encryption = "enabled"
                /\ encryption' = "error"
                /\ transport' \in {transport, "error"}
                /\ wire' = <<>>
                /\ UNCHANGED <<state, step, paired, keepAlive, listening, channelVars,
                               feedbacks, waiting, settled, closing, overlap>>

\* The event or the data channel breaks: AirPlay does not notice.
ChannelLost == /\ Quiet
               /\ \/ event = "open" /\ event' = "closed" /\ UNCHANGED data
                  \/ data = "open" /\ data' = "closed" /\ UNCHANGED event
               /\ UNCHANGED <<connVars, transport, listening, feedbacks, httpVars,
                              settled, closing, overlap>>

-----------------------------------------------------------------------------
Next == \/ Connect \/ Attempt \/ TransportOpen \/ TransportFails \/ LocalWait
        \/ EventOpen \/ DataOpen
        \/ \E ok \in BOOLEAN : Respond(ok)
        \/ Continue \/ Feedback \/ FeedbackEnds
        \/ Disconnect \/ TornDown \/ Lost \/ ChannelLost
        \/ SocketError \/ DecryptFails

Spec == Init /\ [][Next]_vars

\* Settled promises are continued, and the Apple TV answers what reaches it.
FairSpec == /\ Spec
            /\ WF_vars(Continue)
            /\ WF_vars(FeedbackEnds)
            /\ WF_vars(TornDown)
            /\ WF_vars(\E ok \in BOOLEAN : Respond(ok))

-----------------------------------------------------------------------------
(* Properties *)

\* The HTTP channel gives a response to everybody who waits.  As long as nobody
\* disturbs connect(), each of its requests still gets the response to it
\* (sendRequest, startKeepAlive).
OwnResponse == \A s \in settled : s.of \in ConnRequests /\ ~overlap => s.by = s.of

\* A session that no disconnect() and no close disturbed while it was made is
\* ready only after its keys were put to use, on a socket that is still there
\* and whose close will be noticed; and nothing keeps alive what is not ready
\* (handleUnexpectedDisconnect, _connect).  A socket that had an error, and keys
\* that a bad frame ended, may be below a ready session: see ReadyForCommands.
ReadyIsWatched ==
  ~overlap => /\ state = "ready" => /\ transport \in {"open", "error"} /\ listening
                                   /\ encryption # "disabled"
              /\ keepAlive => state = "ready"

\* After disconnect() nothing is left of the session (disconnect).
Released ==
  state = "idle" /\ ~overlap =>
    /\ transport = "closed" /\ event = "none" /\ data = "none"
    /\ encryption = "disabled" /\ ~keepAlive /\ waiting = {}

\* "Ready for commands": the connection of a ready session takes a command
\* (ProtocolState.Ready).  The code stays ready over a socket with an error.
ReadyForCommands == state = "ready" /\ ~overlap => transport = "open"
=============================================================================

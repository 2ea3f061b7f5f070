---------------------------- MODULE AirPlay_proofs ----------------------------
(***************************************************************************)
(* Proofs about Airplay2Protocol, for any number of keep-alives, about     *)
(* DeviceApi, whose AirPlay only takes steps of that protocol, and about   *)
(* RaopStream, for all sizes its constants may have.                       *)
(*                                                                         *)
(* The invariant of the protocol follows connect() along its script: as    *)
(* long as no loss and no disconnect() came in between, it says what each  *)
(* wait of the script finds.  The invariants of a stream say what its      *)
(* sequence of sent packets looks like: audio and then silence, numbered   *)
(* backwards from the context, with the backlog as its end.                *)
(***************************************************************************)
EXTENDS DeviceApi, RaopStream, SequenceTheorems, TLAPS

Script == {"open", "load", "pinStart", "m1", "pin", "m3", "m5", "v1", "v3", "save", "setup",
           "event", "record", "stream", "data"}

\* Waits that come once the keys are put to use.
Enciphered == {"setup", "event", "record", "stream", "data"}

LEMMA ScriptRuns ==
  /\ Script \cup {"delay"} = Running
  /\ ConnRequests \subseteq Script /\ "open" \notin ConnRequests
  /\ ConnRequests \subseteq Requests
  /\ "feedback" \notin ConnRequests /\ "teardown" \notin ConnRequests
  /\ {"load", "pin", "save", "event", "data"} \subseteq Script \ ConnRequests
  /\ LocalWaits \subseteq Script \ ConnRequests
BY DEF Script, Running, ConnRequests, Pairing, Verifying, Rtsp, Waits, LocalWaits, Requests

\* What comes after each wait of the script.
LEMMA AfterScript ==
  ASSUME NEW s \in Script
  PROVE  /\ after[s] \in (Script \ {"open"}) \cup {"returned"}
         /\ after[s] = "returned" <=> s = "data"
         /\ after[s] \in Enciphered \cup {"returned"} => s \in Enciphered \/ after[s] = "setup"
BY DEF Script, Enciphered, after

-----------------------------------------------------------------------------
(* Types *)

Encryptions == {"disabled", "enabled", "error"}
Transports == {"closed", "opening", "open", "error"}

\* The variables connect() writes.
ConnTyped == /\ state \in States
             /\ step \in Script \cup {"delay", "unused", "returned"}
             /\ paired \in BOOLEAN
             /\ encryption \in Encryptions
             /\ keepAlive \in BOOLEAN
             /\ waiting \subseteq Requests
             /\ wire \in Seq(Requests)

RestTyped == /\ transport \in Transports
             /\ listening \in BOOLEAN
             /\ event \in {"none", "opening", "open", "closed"}
             /\ data \in {"none", "opening", "open", "closed"}
             /\ feedbacks \in 0..MaxFeedbacks
             /\ settled \subseteq Settlements
             /\ closing \in BOOLEAN
             /\ overlap \in BOOLEAN

LEMMA TypesTogether == TypeOK <=> ConnTyped /\ RestTyped
<1>1. Script \cup {"delay", "unused", "returned"} = Running \cup {"unused", "returned"}
  BY ScriptRuns
<1> QED  BY <1>1 DEF TypeOK, ConnTyped, RestTyped, Encryptions, Transports

LEMMA SentTyped ==
  ASSUME waiting \subseteq Requests, wire \in Seq(Requests), NEW r \in Requests, Sent(r)
  PROVE  waiting' \subseteq Requests /\ wire' \in Seq(Requests)
BY AppendProperties DEF Sent

LEMMA GoOnTyped ==
  ASSUME ConnTyped, NEW s \in Script, GoOn(s) PROVE ConnTyped'
<1> DEFINE n == after[s]
<1>1. n \in Script \cup {"returned"}
  BY AfterScript
<1>2. state' \in States
  BY DEF GoOn, stateAt, ConnTyped, States
<1>3. paired' \in BOOLEAN /\ encryption' \in Encryptions /\ keepAlive' \in BOOLEAN
  BY DEF GoOn, ConnTyped, Encryptions
<1>4. step' \in {n, "delay"}
  BY DEF GoOn
<1>5. waiting' \subseteq Requests /\ wire' \in Seq(Requests)
  <2>1. CASE UNCHANGED httpVars
    BY <2>1 DEF httpVars, ConnTyped
  <2>2. CASE n \in ConnRequests /\ Sent(n)
    BY <2>2, ScriptRuns, SentTyped DEF ConnTyped
  <2> QED  BY <2>1, <2>2 DEF GoOn
<1> QED  BY <1>1, <1>2, <1>3, <1>4, <1>5 DEF ConnTyped

LEMMA ThrowTyped == ASSUME ConnTyped, Throw PROVE ConnTyped'
BY DEF Throw, ConnTyped, httpVars

LEMMA ReleaseTyped ==
  ASSUME Release
  PROVE  /\ state' \in States /\ encryption' \in Encryptions
         /\ waiting' \subseteq Requests /\ wire' \in Seq(Requests)
         /\ transport' \in Transports /\ listening' \in BOOLEAN
         /\ event' \in {"none", "opening", "open", "closed"}
         /\ data' \in {"none", "opening", "open", "closed"}
         /\ closing' \in BOOLEAN
BY EmptySeq DEF Release, States, Encryptions, Transports

LEMMA CreatedTyped ==
  ASSUME NEW n, NEW name, NEW c \in {"none", "opening", "open", "closed"}
  PROVE  Created(n, c, name) \in {"none", "opening", "open", "closed"}
BY DEF Created

LEMMA AirPlayTypeKept ==
  ASSUME FeedbackAssumption, TypeOK, [Next]_vars PROVE TypeOK'
<1>a. ConnTyped /\ RestTyped
  BY TypesTogether
<1> SUFFICES ConnTyped' /\ RestTyped'
  BY DEF TypeOK, ConnTyped, RestTyped, Script, Running, ConnRequests, Pairing, Verifying, Rtsp,
         Waits, LocalWaits, Encryptions, Transports
<1>1. CASE Connect
  BY <1>a, <1>1 DEF Connect, ConnTyped, RestTyped, channelVars, httpVars
<1>2. CASE Attempt
  BY <1>a, <1>2 DEF Attempt, ConnTyped, RestTyped, channelVars, httpVars, States, Script, Transports
<1>3. CASE TransportOpen
  <2>1. ConnTyped'
    BY <1>a, <1>3, GoOnTyped DEF TransportOpen, Script
  <2> QED  BY <1>a, <1>3, <2>1 DEF TransportOpen, RestTyped, channelVars, Transports
<1>4. CASE TransportFails
  <2>1. ConnTyped'
    BY <1>a, <1>4, ThrowTyped DEF TransportFails
  <2> QED  BY <1>a, <1>4, <2>1 DEF TransportFails, RestTyped, channelVars, Transports
<1>5. CASE LocalWait
  <2>1. ConnTyped'
    BY <1>a, <1>5, GoOnTyped, ThrowTyped, ScriptRuns DEF LocalWait
  <2> QED  BY <1>a, <1>5, <2>1 DEF LocalWait, RestTyped, channelVars
<1>6. CASE EventOpen \/ DataOpen
  <2>1. ConnTyped'
    BY <1>a, <1>6, GoOnTyped, ThrowTyped, ScriptRuns DEF EventOpen, DataOpen
  <2> QED  BY <1>a, <1>6, <2>1 DEF EventOpen, DataOpen, RestTyped, channelVars
<1>7. ASSUME NEW ok \in BOOLEAN, Respond(ok) PROVE ConnTyped' /\ RestTyped'
  <2>1. Head(wire) \in Requests /\ wire' \in Seq(Requests)
    BY <1>a, <1>7, HeadTailProperties DEF Respond, ConnTyped
  <2>2. waiting' \subseteq Requests
    BY <1>a, <1>7 DEF Respond, ConnTyped
  <2>3. settled' \subseteq Settlements
    BY <1>a, <1>7, <2>1 DEF Respond, ConnTyped, RestTyped, Settlements
  <2> QED  BY <1>a, <1>7, <2>1, <2>2, <2>3 DEF Respond, ConnTyped, RestTyped, connVars, channelVars
<1>8. CASE Continue
  <2>1. PICK s \in settled : s.of = step /\ settled' = settled \ {s}
                             /\ UNCHANGED <<transport, listening, feedbacks, closing, overlap>>
                             /\ \/ /\ GoOn(step)
                                   /\ event' = Created(after[step], event, "event")
                                   /\ data' = Created(after[step], data, "data")
                                \/ Throw /\ UNCHANGED channelVars
    BY <1>8 DEF Continue
  <2>2. step \in Requests
    BY <1>a, <2>1 DEF RestTyped, Settlements
  <2>3. step \in Script
    BY <1>a, <2>2 DEF ConnTyped, Requests, ConnRequests, Pairing, Verifying, Rtsp, Script
  <2>4. ConnTyped'
    BY <1>a, <2>1, <2>3, GoOnTyped, ThrowTyped
  <2>5. RestTyped'
    BY <1>a, <2>1, CreatedTyped DEF RestTyped, channelVars
  <2> QED  BY <2>4, <2>5
<1>9. CASE Feedback
  <2>1. "feedback" \in Requests /\ feedbacks' \in 0..MaxFeedbacks
    BY <1>a, <1>9 DEF Feedback, Requests, RestTyped, FeedbackAssumption
  <2>2. waiting' \subseteq Requests /\ wire' \in Seq(Requests)
    BY <1>a, <1>9, <2>1, SentTyped DEF Feedback, ConnTyped, httpVars
  <2> QED  BY <1>a, <1>9, <2>1, <2>2 DEF Feedback, ConnTyped, RestTyped, connVars, channelVars
<1>10. CASE FeedbackEnds
  BY <1>a, <1>10 DEF FeedbackEnds, ConnTyped, RestTyped, connVars, channelVars, httpVars
<1>11. CASE Disconnect
  <2>1. CASE transport = "open"
    <3>1. "teardown" \in Requests
      BY DEF Requests
    <3>2. waiting' \subseteq Requests /\ wire' \in Seq(Requests)
      BY <1>a, <1>11, <2>1, <3>1, SentTyped DEF Disconnect, ConnTyped
    <3> QED  BY <1>a, <1>11, <2>1, <3>2 DEF Disconnect, ConnTyped, RestTyped, channelVars, States
  <2>2. CASE transport # "open"
    BY <1>a, <1>11, <2>2, ReleaseTyped DEF Disconnect, ConnTyped, RestTyped
  <2> QED  BY <2>1, <2>2
<1>12. CASE TornDown
  BY <1>a, <1>12, ReleaseTyped DEF TornDown, ConnTyped, RestTyped
<1>13. CASE Lost
  BY <1>a, <1>13, EmptySeq DEF Lost, ConnTyped, RestTyped, channelVars, States, Transports
<1>14. CASE ChannelLost
  BY <1>a, <1>14 DEF ChannelLost, ConnTyped, RestTyped, connVars, httpVars
<1>15. CASE SocketError \/ DecryptFails
  BY <1>a, <1>15, EmptySeq DEF SocketError, DecryptFails, ConnTyped, RestTyped, connVars, channelVars,
     httpVars, Encryptions, Transports
<1>16. CASE UNCHANGED vars
  BY <1>a, <1>16 DEF vars, connVars, channelVars, httpVars, ConnTyped, RestTyped
<1> QED
  BY <1>1, <1>2, <1>3, <1>4, <1>5, <1>6, <1>7, <1>8, <1>9, <1>10, <1>11, <1>12, <1>13, <1>14,
     <1>15, <1>16 DEF Next

\* Every variable of AirPlay keeps its type, for any number of keep-alives.
THEOREM AirPlayTypeCorrect == Spec => []TypeOK
<1>1. Init => TypeOK
  <2> SUFFICES ASSUME Init PROVE TypeOK
    OBVIOUS
  <2>1. paired \in BOOLEAN /\ wire \in Seq(Requests) /\ feedbacks \in 0..MaxFeedbacks
    BY FeedbackAssumption, EmptySeq DEF Init
  <2> QED  BY <2>1 DEF Init, TypeOK, States
<1> QED  BY <1>1, AirPlayTypeKept, FeedbackAssumption, PTL DEF Spec

-----------------------------------------------------------------------------
(* The script of connect() *)

Answered(ok) == [of |-> step, by |-> step, ok |-> ok]

\* The request connect() waits for was sent, or its own response has come.  The
\* response never comes once the encryption has failed.
Exchange == /\ waiting = {step} /\ settled = {}
            /\ wire = <<step>> \/ (wire = <<>> /\ encryption = "error")

Reply == /\ waiting = {} /\ wire = <<>>
         /\ \E ok \in BOOLEAN : settled = {Answered(ok)}

Silent == waiting = {} /\ wire = <<>> /\ settled = {}

\* What a running connect() finds, when nobody disturbed it.
Steady == /\ listening /\ ~closing /\ ~keepAlive
          /\ state \notin {"ready", "disconnecting"}
          /\ IF step \in ConnRequests THEN Exchange \/ Reply ELSE Silent
          /\ step \in Script \ {"open"} => transport \in {"open", "error"}
          /\ step \in Script => state # "idle"
          /\ step \in Enciphered => encryption # "disabled"

\* Once it has returned, no request of it is left, and disconnect() has ended the
\* keep-alive before its TEARDOWN.
Settled == /\ waiting \cap ConnRequests = {}
           /\ \A s \in settled : s.of \notin ConnRequests
           /\ "teardown" \in waiting \/ (\E s \in settled : s.of = "teardown") => ~keepAlive

\* Nothing is open and nothing runs.
Clean == /\ transport = "closed" /\ event = "none" /\ data = "none"
         /\ encryption = "disabled" /\ ~keepAlive /\ waiting = {} /\ wire = <<>>

Undisturbed ==
  /\ step \in Script \cup {"delay", "unused"} => Steady
  /\ step = "unused" => state = "idle"
  /\ step = "returned" => Settled
  /\ state = "idle" => Clean
  /\ state = "ready" => /\ transport \in {"open", "error"} /\ listening
                       /\ encryption # "disabled"
  /\ keepAlive => state = "ready"

ScriptInv == ~overlap => Undisturbed

\* connect() goes on, with nothing under way.
LEMMA GoOnKeeps ==
  ASSUME TypeOK, NEW s \in Script, GoOn(s), transport' \in {"open", "error"},
         waiting = {}, wire = <<>>, settled' = {}, listening', ~closing', ~keepAlive,
         state \notin {"ready", "disconnecting", "idle"}, s \in Enciphered => encryption # "disabled"
  PROVE  Undisturbed'
<1> DEFINE n == after[s]
<1>1. n \in (Script \ {"open"}) \cup {"returned"}
  BY AfterScript
<1>2. /\ encryption' = IF n = "setup" THEN "enabled" ELSE encryption
      /\ keepAlive' = (keepAlive \/ n = "returned")
  BY DEF GoOn
<1>3. n \in Enciphered \cup {"returned"} => encryption' # "disabled"
  BY <1>2, AfterScript
<1>4. /\ state' # "idle" /\ state' # "disconnecting"
      /\ n = "returned" => state' = "ready"
      /\ n # "returned" => state' # "ready"
  BY DEF GoOn, stateAt
<1>5. "returned" \notin ConnRequests /\ "delay" \notin ConnRequests /\ "delay" \notin Script
      /\ "returned" \notin Script \cup {"delay", "unused"}
  BY DEF ConnRequests, Pairing, Verifying, Rtsp, Script
<1>6. CASE n \in ConnRequests /\ transport' # "open"
  <2>1. step' = "delay" /\ waiting' = {} /\ wire' = <<>> /\ ~keepAlive' /\ state' # "ready"
    BY <1>2, <1>4, <1>5, <1>6 DEF GoOn, httpVars
  <2>2. Steady'
    BY <1>4, <1>5, <2>1 DEF Steady, Silent, Enciphered
  <2> QED  BY <1>4, <2>1, <2>2 DEF Undisturbed
<1>7. CASE n = "returned"
  <2>1. step' = n /\ waiting' = {}
    BY <1>5, <1>7 DEF GoOn, httpVars
  <2>2. Settled'
    BY <2>1 DEF Settled
  <2> QED  BY <1>3, <1>4, <1>5, <1>7, <2>1, <2>2 DEF Undisturbed
<1>8. CASE n # "returned" /\ (n \in ConnRequests => transport' = "open")
  <2>1. n \in Script \ {"open"} /\ ~keepAlive' /\ step' = n
    BY <1>1, <1>2, <1>8 DEF GoOn
  <2>2. CASE n \in ConnRequests
    <3>1. waiting' = {n} /\ (wire' = <<n>> \/ (wire' = <<>> /\ encryption' = "error"))
      BY <1>8, <2>2 DEF GoOn, Sent
    <3>2. Exchange'
      BY <2>1, <3>1 DEF Exchange
    <3> QED  BY <1>3, <1>4, <1>8, <2>1, <2>2, <3>2 DEF Steady, Undisturbed, Script
  <2>3. CASE n \notin ConnRequests
    <3>1. waiting' = {} /\ wire' = <<>>
      BY <2>3 DEF GoOn, httpVars
    <3>2. Silent'
      BY <3>1 DEF Silent
    <3> QED  BY <1>3, <1>4, <1>8, <2>1, <2>3, <3>2 DEF Steady, Undisturbed, Script
  <2> QED  BY <2>2, <2>3
<1> QED  BY <1>6, <1>7, <1>8

\* The attempt throws, with nothing under way.
LEMMA ThrowKeeps ==
  ASSUME TypeOK, Throw, waiting = {}, wire = <<>>, settled' = {}, listening', ~closing',
         ~keepAlive, state \notin {"ready", "disconnecting", "idle"}
  PROVE  Undisturbed'
<1>1. step' = "delay" /\ UNCHANGED <<state, keepAlive, waiting, wire>>
  BY DEF Throw, httpVars
<1>2. "delay" \notin Script /\ "delay" \notin ConnRequests
  BY DEF Script, ConnRequests, Pairing, Verifying, Rtsp
<1>3. Steady'
  BY <1>1, <1>2 DEF Steady, Silent, Enciphered
<1> QED  BY <1>1, <1>3 DEF Undisturbed

LEMMA ScriptInvKept ==
  ASSUME TypeOK, ScriptInv, [Next]_vars PROVE ScriptInv'
<1>a. overlap \in BOOLEAN /\ overlap' \in BOOLEAN
  BY AirPlayTypeKept, FeedbackAssumption DEF TypeOK
<1>b. overlap => overlap'
  BY DEF Next, Connect, Attempt, TransportOpen, TransportFails, LocalWait, EventOpen, DataOpen,
         Respond, Continue, Feedback, FeedbackEnds, Disconnect, TornDown, Lost, ChannelLost,
         SocketError, DecryptFails, vars
<1> SUFFICES ASSUME ~overlap, ~overlap', Undisturbed PROVE Undisturbed'
  BY <1>a, <1>b DEF ScriptInv
<1>1. CASE Connect
  <2>1. step' = "delay" /\ step = "unused"
        /\ UNCHANGED <<state, keepAlive, encryption, transport, listening, event, data, waiting,
                       wire, settled, closing>>
    BY <1>1 DEF Connect, channelVars, httpVars
  <2>2. /\ "delay" \notin Script /\ "delay" \notin ConnRequests
        /\ "unused" \notin Script /\ "unused" \notin ConnRequests
    BY DEF Script, ConnRequests, Pairing, Verifying, Rtsp
  <2>3. Steady'
    BY <2>1, <2>2 DEF Undisturbed, Steady, Silent, Enciphered
  <2> QED  BY <2>1, <2>3 DEF Undisturbed, Clean
<1>2. CASE Attempt
  <2>1. /\ step = "delay" /\ state = "idle" /\ transport = "closed"
        /\ step' = "open" /\ state' = "connecting"
        /\ UNCHANGED <<keepAlive, encryption, listening, waiting, wire, settled, closing>>
    BY <1>2 DEF Attempt, Undisturbed, Clean, httpVars
  <2>2. "delay" \notin ConnRequests /\ "open" \notin ConnRequests
    BY DEF ConnRequests, Pairing, Verifying, Rtsp
  <2>3. Steady'
    BY <2>1, <2>2 DEF Undisturbed, Steady, Silent, Enciphered
  <2> QED  BY <2>1, <2>3 DEF Undisturbed
<1>3. CASE TransportOpen \/ TransportFails
  <2>1. /\ step = "open" /\ UNCHANGED <<listening, settled, closing>>
        /\ (transport' = "open" /\ GoOn("open")) \/ Throw
    BY <1>3 DEF TransportOpen, TransportFails
  <2>2. "open" \in Script /\ "open" \notin ConnRequests /\ "open" \notin Enciphered
    BY DEF Script, ConnRequests, Pairing, Verifying, Rtsp, Enciphered
  <2>3. Steady /\ Silent
    BY <2>1, <2>2 DEF Undisturbed, Steady
  <2> QED  BY <2>1, <2>2, <2>3, GoOnKeeps, ThrowKeeps DEF Steady, Silent
<1>4. CASE LocalWait \/ EventOpen \/ DataOpen
  <2>1. /\ step \in Script \ (ConnRequests \cup {"open"})
        /\ UNCHANGED <<transport, listening, settled, closing>>
        /\ GoOn(step) \/ Throw
    BY <1>4, ScriptRuns DEF LocalWait, EventOpen, DataOpen, LocalWaits
  <2>2. Steady /\ Silent /\ transport \in {"open", "error"}
    BY <2>1 DEF Undisturbed, Steady
  <2> QED  BY <2>1, <2>2, GoOnKeeps, ThrowKeeps DEF Steady, Silent
<1>5. ASSUME NEW ok \in BOOLEAN, Respond(ok) PROVE Undisturbed'
  <2>1. /\ wire # <<>> /\ settled = {} /\ wire' = Tail(wire)
        /\ UNCHANGED <<state, step, keepAlive, encryption, transport, listening, event, data,
                       closing>>
        /\ IF listening
           THEN /\ settled' = {[of |-> r, by |-> Head(wire), ok |-> ok] : r \in waiting}
                /\ waiting' = {}
           ELSE UNCHANGED <<settled, waiting>>
    BY <1>5 DEF Respond, Quiet, connVars, channelVars
  <2>2. state # "idle"
    BY <2>1 DEF Undisturbed, Clean
  <2>3. CASE step = "returned"
    <3>1. Settled'
      BY <2>1, <2>3 DEF Undisturbed, Settled
    <3>2. step \notin Script \cup {"delay", "unused"}
      BY <2>3 DEF Script
    <3> QED  BY <2>1, <2>2, <2>3, <3>1, <3>2 DEF Undisturbed
  <2>4. CASE step # "returned"
    <3>1. step \in Script \cup {"delay", "unused"} /\ Steady
      BY <2>4, TypesTogether DEF ConnTyped, Undisturbed
    <3>2. step \in ConnRequests /\ Exchange /\ step \in Script
      BY <2>1, <3>1, ScriptRuns DEF Steady, Silent, Reply
    <3>a. wire = <<step>> /\ waiting = {step} /\ listening
      BY <2>1, <3>1, <3>2 DEF Exchange, Steady
    <3>b. Head(<<step>>) = step /\ Tail(<<step>>) = <<>>
      OBVIOUS
    <3>3. waiting' = {} /\ wire' = <<>> /\ settled' = {[of |-> step, by |-> step, ok |-> ok]}
      BY <2>1, <3>a, <3>b
    <3>4. Reply'
      BY <2>1, <3>3 DEF Reply, Answered
    <3>5. Steady'
      BY <2>1, <3>1, <3>2, <3>4 DEF Steady
    <3> QED  BY <2>1, <2>2, <2>4, <3>2, <3>5 DEF Undisturbed, Script
  <2> QED  BY <2>3, <2>4
<1>6. CASE Continue
  <2>1. PICK s \in settled : s.of = step /\ settled' = settled \ {s}
                             /\ UNCHANGED <<transport, listening, closing>>
                             /\ (GoOn(step) \/ Throw)
    BY <1>6 DEF Continue
  <2>2. step \in Requests
    BY <2>1 DEF TypeOK, Settlements
  <2>3. step \in Script \cup {"delay", "unused", "returned"}
    BY TypesTogether DEF ConnTyped
  <2>4. step \in ConnRequests /\ step \in Script /\ step # "open"
    BY <2>2, <2>3 DEF Requests, Script, ConnRequests, Pairing, Verifying, Rtsp
  <2>5. Steady /\ Reply /\ transport \in {"open", "error"}
    BY <2>1, <2>4 DEF Undisturbed, Steady, Exchange
  <2>6. settled' = {}
    BY <2>1, <2>5 DEF Reply
  <2> QED  BY <2>1, <2>4, <2>5, <2>6, GoOnKeeps, ThrowKeeps DEF Steady, Reply
<1>7. CASE Feedback
  <2>1. keepAlive /\ state = "ready"
        /\ UNCHANGED <<state, step, keepAlive, encryption, transport, listening, event, data,
                       settled, closing>>
        /\ waiting' \subseteq waiting \cup {"feedback"}
    BY <1>7 DEF Feedback, Undisturbed, Sent, connVars, channelVars, httpVars
  <2>2. step = "returned"
    BY <2>1, TypesTogether DEF Undisturbed, Steady, ConnTyped
  <2>3. Settled'
    BY <2>1, <2>2, ScriptRuns DEF Undisturbed, Settled
  <2> QED  BY <2>1, <2>2, <2>3 DEF Undisturbed, Script
<1>8. CASE FeedbackEnds
  <2>1. PICK s \in settled : s.of = "feedback" /\ settled' = settled \ {s}
    BY <1>8 DEF FeedbackEnds
  <2>2. UNCHANGED <<state, step, keepAlive, encryption, transport, listening, event, data,
                    waiting, wire, closing>>
    BY <1>8 DEF FeedbackEnds, connVars, channelVars, httpVars
  <2>3. step = "returned"
    <3>1. CASE step \in Script \cup {"delay", "unused"}
      <4>1. step # "feedback"
        BY <3>1 DEF Script
      <4>2. settled = {} \/ \E ok \in BOOLEAN : settled = {Answered(ok)}
        BY <3>1 DEF Undisturbed, Steady, Exchange, Reply, Silent
      <4> QED  BY <2>1, <4>1, <4>2 DEF Answered
    <3> QED  BY <3>1, TypesTogether DEF ConnTyped
  <2>4. Settled'
    BY <2>1, <2>2, <2>3 DEF Undisturbed, Settled
  <2> QED  BY <2>2, <2>3, <2>4 DEF Undisturbed, Script, Clean
<1>9. CASE Disconnect
  <2>1. step \notin Running /\ step' = step /\ keepAlive' = FALSE /\ settled' = settled
        /\ settled = {} /\ state # "idle"
    BY <1>9 DEF Disconnect, Quiet
  <2>2. step = "returned"
    BY <2>1, ScriptRuns, TypesTogether DEF ConnTyped, Undisturbed
  <2>3. step' \notin Script \cup {"delay", "unused"}
    BY <2>1, <2>2 DEF Script
  <2>4. CASE transport = "open"
    <3>1. waiting' = waiting \cup {"teardown"} /\ state' = "disconnecting"
      BY <1>9, <2>4 DEF Disconnect, Sent
    <3>2. Settled'
      BY <2>1, <2>2, <3>1, ScriptRuns DEF Undisturbed, Settled
    <3> QED  BY <2>1, <2>3, <3>1, <3>2 DEF Undisturbed
  <2>5. CASE transport # "open"
    <3>1. Release
      BY <1>9, <2>5 DEF Disconnect
    <3>2. Settled' /\ Clean'
      BY <2>1, <3>1 DEF Release, Settled, Clean
    <3> QED  BY <2>1, <2>3, <3>1, <3>2 DEF Undisturbed, Release
  <2> QED  BY <2>4, <2>5
<1>10. CASE TornDown
  <2>1. PICK s \in settled : s.of = "teardown" /\ settled' = settled \ {s}
    BY <1>10 DEF TornDown
  <2>2. Release /\ step' = step /\ keepAlive' = keepAlive
    BY <1>10 DEF TornDown
  <2>3. step = "returned"
    <3>1. CASE step \in Script \cup {"delay", "unused"}
      <4>1. step # "teardown"
        BY <3>1 DEF Script
      <4>2. settled = {} \/ \E ok \in BOOLEAN : settled = {Answered(ok)}
        BY <3>1 DEF Undisturbed, Steady, Exchange, Reply, Silent
      <4> QED  BY <2>1, <4>1, <4>2 DEF Answered
    <3> QED  BY <3>1, TypesTogether DEF ConnTyped
  <2>4. ~keepAlive /\ Settled' /\ Clean'
    BY <2>1, <2>2, <2>3 DEF Undisturbed, Settled, Release, Clean
  <2> QED  BY <2>2, <2>3, <2>4 DEF Undisturbed, Release, Script
<1>11. CASE Lost
  <2>1. step \notin Running /\ step' = step /\ settled' = settled
        /\ transport \in {"open", "error"}
    BY <1>11 DEF Lost
  <2>2. state # "idle"
    BY <2>1 DEF Undisturbed, Clean
  <2>3. step = "returned"
    BY <2>1, <2>2, ScriptRuns, TypesTogether DEF ConnTyped, Undisturbed
  <2>4. /\ waiting' \subseteq waiting
        /\ \/ state' = "failed" /\ keepAlive' = FALSE
           \/ UNCHANGED <<state, keepAlive>> /\ state # "ready"
    BY <1>11, <2>2 DEF Lost, Undisturbed
  <2>5. Settled'
    BY <2>1, <2>3, <2>4 DEF Undisturbed, Settled
  <2> QED  BY <2>1, <2>2, <2>3, <2>4, <2>5 DEF Undisturbed, Script
<1>12. CASE ChannelLost
  <2>1. /\ UNCHANGED <<state, step, keepAlive, encryption, transport, listening, waiting, wire,
                       settled, closing>>
        /\ event = "open" \/ data = "open"
    BY <1>12 DEF ChannelLost, connVars, httpVars
  <2>2. state # "idle"
    BY <2>1 DEF Undisturbed, Clean
  <2> QED
    BY <2>1, <2>2 DEF Undisturbed, Steady, Settled, Exchange, Reply, Silent, Answered
<1>13. CASE SocketError \/ DecryptFails
  <2>1. /\ UNCHANGED <<state, step, keepAlive, listening, waiting, settled, closing>>
        /\ settled = {} /\ transport \in {"open", "error"} /\ transport' \in {"open", "error"}
        /\ \/ UNCHANGED <<encryption, wire>>
           \/ encryption' = "error" /\ wire' = <<>>
    BY <1>13 DEF SocketError, DecryptFails, Quiet, connVars, httpVars
  <2>2. state # "idle"
    BY <2>1 DEF Undisturbed, Clean
  <2>3. ~Reply
    BY <2>1 DEF Reply
  <2>4. ASSUME Steady PROVE Steady'
    BY <2>1, <2>3, <2>4 DEF Steady, Exchange, Silent
  <2>5. ASSUME Settled PROVE Settled'
    BY <2>1, <2>5 DEF Settled
  <2> QED  BY <2>1, <2>2, <2>4, <2>5 DEF Undisturbed
<1>14. CASE UNCHANGED vars
  BY <1>14 DEF vars, connVars, channelVars, httpVars, Undisturbed, Steady, Settled, Exchange,
               Reply, Silent, Answered, Clean
<1> QED
  BY <1>1, <1>2, <1>3, <1>4, <1>5, <1>6, <1>7, <1>8, <1>9, <1>10, <1>11, <1>12, <1>13,
     <1>14 DEF Next

-----------------------------------------------------------------------------
(* What follows for AirPlay *)

LEMMA ScriptInvHolds == Spec => []ScriptInv
<1>1. Init => ScriptInv
  <2>1. "unused" \notin Script /\ "unused" \notin ConnRequests /\ "unused" \notin Enciphered
    BY DEF Script, ConnRequests, Pairing, Verifying, Rtsp, Enciphered
  <2>2. Init => Undisturbed
    BY <2>1 DEF Init, Undisturbed, Steady, Silent, Clean
  <2> QED  BY <2>2 DEF ScriptInv
<1> QED  BY <1>1, ScriptInvKept, AirPlayTypeCorrect, PTL DEF Spec

\* While nothing disturbs connect(), the response each of its requests gets is
\* its own, although the HTTP channel gives a response to all that wait.
THEOREM OwnResponses == Spec => []OwnResponse
<1>1. TypeOK /\ ScriptInv => OwnResponse
  <2> SUFFICES ASSUME TypeOK, ScriptInv, NEW s \in settled, s.of \in ConnRequests, ~overlap
               PROVE  s.by = s.of
    BY DEF OwnResponse
  <2>1. Undisturbed
    BY DEF ScriptInv
  <2>2. step # "returned"
    BY <2>1 DEF Undisturbed, Settled
  <2>3. Steady
    BY <2>1, <2>2, TypesTogether DEF ConnTyped, Undisturbed
  <2> QED  BY <2>3 DEF Steady, Exchange, Reply, Silent, Answered
<1> QED  BY <1>1, ScriptInvHolds, AirPlayTypeCorrect, PTL

\* A session that no disconnect() and no close disturbed while it was made is ready
\* only after its keys were put to use, over a socket whose close will be noticed,
\* whatever frames fail to decrypt and whatever errors the socket has; and only a
\* ready session is kept alive (handleUnexpectedDisconnect, _connect).
THEOREM ReadyWatched == Spec => []ReadyIsWatched
<1>1. ScriptInv => ReadyIsWatched
  BY DEF ScriptInv, Undisturbed, ReadyIsWatched
<1> QED  BY <1>1, ScriptInvHolds, PTL

\* An idle session has nothing open, no keep-alive and no request that waits.
THEOREM AllReleased == Spec => []Released
<1>1. ScriptInv => Released
  BY DEF ScriptInv, Undisturbed, Clean, Released
<1> QED  BY <1>1, ScriptInvHolds, PTL

-----------------------------------------------------------------------------
(* The device *)

\* AirPlay, as the device drives it, is AirPlay as it is specified by itself:
\* what is proved of it holds within the device.
THEOREM DeviceImplements == DeviceSpec => Spec
<1>1. DeviceInit => Init
  BY DEF DeviceInit
<1>2. [DeviceNext]_deviceVars => [Next]_vars
  <2> SUFFICES ASSUME [DeviceNext]_deviceVars PROVE Next \/ UNCHANGED vars
    OBVIOUS
  <2>1. CASE ConnectCompanion \/ ConnectMRP \/ SetUpMRP \/ MRPTimesOut \/ InitializeApis
             \/ CompanionLost \/ EndMRP \/ EndCompanion
    BY <2>1 DEF ConnectCompanion, ConnectMRP, SetUpMRP, MRPTimesOut, InitializeApis,
                CompanionLost, EndMRP, EndCompanion
  <2>2. CASE ConnectAirPlay
    BY <2>2 DEF ConnectAirPlay, Next
  <2>3. CASE AirPlayStep
    BY <2>3 DEF AirPlayStep, Next
  <2>4. CASE EndAirPlay
    BY <2>4 DEF EndAirPlay, Next
  <2>5. CASE AirPlayEnded
    BY <2>5 DEF AirPlayEnded, Next
  <2>6. CASE UNCHANGED deviceVars
    BY <2>6 DEF deviceVars
  <2> QED  BY <2>1, <2>2, <2>3, <2>4, <2>5, <2>6 DEF DeviceNext
<1> QED  BY <1>1, <1>2, PTL DEF Spec, DeviceSpec

-----------------------------------------------------------------------------
(* No false alarm *)

\* What connect() of the device finds once it listens to the protocols, and how
\* far a disconnect() that came after it can be.
MRPWatched ==
  /\ api = "mrp" => step = "returned" /\ (ending = "none" => "mrp" \in held)
  /\ watched =>
       /\ api \in {"apis", "connected"}
       /\ step = "returned"
       /\ mrp \in {"up", "failed", "idle"}
       /\ ending = "none" => "mrp" \in held
  /\ ending # "none" /\ ~early =>
       /\ api \in {"connected", "failed"}
       /\ watched => mrp \in {"failed", "idle"}

WatchTyped == watched \in BOOLEAN /\ early \in BOOLEAN

\* A connect() of AirPlay that has returned is over.
LEMMA ReturnedStays ==
  ASSUME TypeOK, step = "returned", [Next]_vars PROVE step' = "returned"
<1>1. /\ "returned" \notin ConnRequests /\ "returned" \notin LocalWaits
      /\ "returned" \notin Requests
  BY DEF ConnRequests, Pairing, Verifying, Rtsp, LocalWaits, Requests
<1>2. ~Continue
  BY <1>1 DEF Continue, TypeOK, Settlements
<1> QED
  BY <1>1, <1>2 DEF Next, Connect, Attempt, TransportOpen, TransportFails, LocalWait, EventOpen,
     DataOpen, Respond, Feedback, FeedbackEnds, Disconnect, Release, TornDown, Lost, ChannelLost,
     SocketError, DecryptFails, vars, connVars

LEMMA WatchKept ==
  ASSUME TypeOK, WatchTyped, MRPWatched, [DeviceNext]_deviceVars PROVE WatchTyped' /\ MRPWatched'
<1>1. CASE ConnectCompanion
  BY <1>1 DEF ConnectCompanion, WatchTyped, MRPWatched, mrpVars
<1>2. CASE ConnectAirPlay
  BY <1>2 DEF ConnectAirPlay, WatchTyped, MRPWatched, mrpVars
<1>3. CASE ConnectMRP
  BY <1>3 DEF ConnectMRP, WatchTyped, MRPWatched, vars, connVars
<1>4. CASE SetUpMRP \/ MRPTimesOut \/ InitializeApis
  <2>1. CASE SetUpMRP
    BY <2>1 DEF SetUpMRP, WatchTyped, MRPWatched, vars, connVars
  <2>2. CASE MRPTimesOut
    BY <2>2 DEF MRPTimesOut, WatchTyped, MRPWatched, vars, connVars, mrpVars
  <2>3. CASE InitializeApis
    BY <2>3 DEF InitializeApis, WatchTyped, MRPWatched, vars, connVars, mrpVars
  <2> QED  BY <1>4, <2>1, <2>2, <2>3
<1>5. CASE CompanionLost
  BY <1>5 DEF CompanionLost, WatchTyped, MRPWatched, vars, connVars, apiVars, mrpVars
<1>6. CASE AirPlayStep
  <2>1. step = "returned" => step' = "returned"
    BY <1>6, ReturnedStays DEF AirPlayStep, Next
  <2>2. /\ UNCHANGED <<ending, held, early, watched>>
        /\ \/ mrp' = "failed" /\ api' = (IF api = "mrp" THEN "failed" ELSE api)
           \/ UNCHANGED <<mrp, api>>
    BY <1>6 DEF AirPlayStep, MRPReacts, mrpVars
  <2> QED  BY <2>1, <2>2 DEF WatchTyped, MRPWatched
<1>7. CASE EndMRP
  BY <1>7 DEF EndMRP, WatchTyped, MRPWatched, vars, connVars
<1>8. CASE EndAirPlay
  <2>1. step' = step
    BY <1>8 DEF EndAirPlay, Disconnect, vars, connVars
  <2>2. /\ watched' = watched
        /\ ending' \in {"teardown", "companion"}
        /\ \/ ending = "airplay" /\ early' = early
           \/ /\ ending = "none" /\ "mrp" \notin held
              /\ early' = (api \notin {"connected", "failed"})
        /\ \/ mrp' = "failed" /\ api' = (IF api = "mrp" THEN "failed" ELSE api)
           \/ UNCHANGED <<mrp, api>>
    BY <1>8 DEF EndAirPlay, MRPReacts, mrpVars
  <2>3. WatchTyped'
    BY <2>2 DEF WatchTyped
  <2>4. CASE ending = "airplay" /\ early' = early
    BY <2>1, <2>2, <2>3, <2>4 DEF MRPWatched
  <2>5. CASE ending = "none" /\ "mrp" \notin held /\ early' = (api \notin {"connected", "failed"})
    <3>1. ~watched' /\ api # "mrp"
      BY <2>2, <2>5 DEF MRPWatched, WatchTyped
    <3>2. api' = api
      BY <2>2, <3>1
    <3>3. ~early' => api \in {"connected", "failed"}
      BY <2>5
    <3> QED  BY <2>1, <2>2, <2>3, <3>1, <3>2, <3>3 DEF MRPWatched
  <2> QED  BY <2>2, <2>3, <2>4, <2>5
<1>9. CASE AirPlayEnded
  <2>1. step' = step
    BY <1>9 DEF AirPlayEnded, TornDown
  <2>2. /\ UNCHANGED <<watched, early>> /\ ending = "teardown" /\ ending' = "companion"
        /\ \/ mrp' = "failed" /\ api' = (IF api = "mrp" THEN "failed" ELSE api)
           \/ UNCHANGED <<mrp, api>>
    BY <1>9 DEF AirPlayEnded, MRPReacts, mrpVars
  <2> QED  BY <2>1, <2>2 DEF WatchTyped, MRPWatched
<1>10. CASE EndCompanion
  BY <1>10 DEF EndCompanion, WatchTyped, MRPWatched, vars, connVars, mrpVars
<1>11. CASE UNCHANGED deviceVars
  BY <1>11 DEF deviceVars, vars, connVars, apiVars, mrpVars, WatchTyped, MRPWatched
<1> QED
  BY <1>1, <1>2, <1>3, <1>4, <1>5, <1>6, <1>7, <1>8, <1>9, <1>10, <1>11 DEF DeviceNext

LEMMA WatchHolds == DeviceSpec => [](TypeOK /\ WatchTyped /\ MRPWatched)
<1>1. DeviceInit => WatchTyped /\ MRPWatched
  BY DEF DeviceInit, WatchTyped, MRPWatched
<1>2. DeviceSpec => []TypeOK
  BY DeviceImplements, AirPlayTypeCorrect, PTL
<1> QED  BY <1>1, <1>2, WatchKept, PTL DEF DeviceSpec

\* What AirPlay keeps by itself it keeps within the device: own responses, a watched
\* session and a full release (DeviceApi.connect, disconnect).
THEOREM DeviceInherits == DeviceSpec => [](OwnResponse /\ ReadyIsWatched /\ Released)
  BY DeviceImplements, OwnResponses, ReadyWatched, AllReleased, PTL

\* Every variable of the device keeps its type, those of its AirPlay included.
THEOREM DeviceTypeCorrect == DeviceSpec => []DeviceTypeOK
<1> DEFINE Rest == /\ api \in {"new", "companion", "airplay", "mrp", "apis", "connected",
                               "failed"}
                   /\ ending \in {"none", "airplay", "teardown", "companion", "done"}
                   /\ held \subseteq Protocols /\ reported \subseteq Protocols
                   /\ companion \in {"null", "connecting", "up", "failed", "idle"}
                   /\ mrp \in {"null", "waiting", "setup", "up", "failed", "idle"}
           Flags == attached \in BOOLEAN /\ watched \in BOOLEAN /\ early \in BOOLEAN
<1>1. DeviceInit => Rest /\ Flags
  BY DEF DeviceInit
<1>2. Rest /\ [DeviceNext]_deviceVars => Rest'
  <2> SUFFICES ASSUME Rest, [DeviceNext]_deviceVars PROVE Rest'
    OBVIOUS
  <2> USE DEF Protocols
  <2>1. CASE ConnectCompanion \/ ConnectAirPlay \/ InitializeApis \/ SetUpMRP \/ MRPTimesOut
    BY <2>1 DEF ConnectCompanion, ConnectAirPlay, InitializeApis, SetUpMRP, MRPTimesOut, mrpVars
  <2>2. CASE ConnectMRP
    BY <2>2 DEF ConnectMRP, mrpVars
  <2>3. ASSUME Reports PROVE reported' \subseteq Protocols
    BY <2>3 DEF Reports
  <2>4. ASSUME MRPReacts
        PROVE  /\ mrp' \in {mrp, "failed"}
               /\ api' \in {api, "failed"}
    BY <2>4 DEF MRPReacts, mrpVars
  <2>5. CASE CompanionLost
    BY <2>3, <2>5 DEF CompanionLost, apiVars, mrpVars
  <2>6. CASE AirPlayStep
    BY <2>3, <2>4, <2>6 DEF AirPlayStep
  <2>7. CASE EndAirPlay \/ AirPlayEnded
    BY <2>3, <2>4, <2>7 DEF EndAirPlay, AirPlayEnded
  <2>8. CASE EndMRP \/ EndCompanion
    BY <2>8 DEF EndMRP, EndCompanion, mrpVars
  <2>9. CASE UNCHANGED deviceVars
    BY <2>9 DEF deviceVars, apiVars, mrpVars
  <2> QED  BY <2>1, <2>2, <2>5, <2>6, <2>7, <2>8, <2>9 DEF DeviceNext
<1>3. Flags /\ [DeviceNext]_deviceVars => Flags'
  BY DEF DeviceNext, ConnectCompanion, ConnectAirPlay, ConnectMRP, SetUpMRP, MRPTimesOut,
         InitializeApis, CompanionLost, AirPlayStep, EndMRP, EndAirPlay, AirPlayEnded,
         EndCompanion, MRPReacts, apiVars, mrpVars, deviceVars
<1>4. TypeOK /\ Rest /\ Flags => DeviceTypeOK
  BY DEF DeviceTypeOK
<1> QED  BY <1>1, <1>2, <1>3, <1>4, WatchHolds, PTL DEF DeviceSpec

LastFailed == state # "failed" /\ state' = "failed"

\* Only the loss of its connection makes AirPlay fail.
LEMMA OnlyLostFails ==
  ASSUME [Next]_vars, LastFailed
  PROVE  transport \in {"open", "error"} /\ transport' = "closed" /\ state # "disconnecting"
<1>1. ASSUME NEW s, GoOn(s) PROVE FALSE
  BY <1>1 DEF GoOn, stateAt, LastFailed
<1>2. ~Throw
  BY DEF Throw, LastFailed
<1>3. ~Release
  BY DEF Release, LastFailed
<1>4. ~(TransportOpen \/ TransportFails \/ LocalWait \/ EventOpen \/ DataOpen \/ Continue)
  BY <1>1, <1>2 DEF TransportOpen, TransportFails, LocalWait, EventOpen, DataOpen, Continue
<1>5. ~(Disconnect \/ TornDown)
  BY <1>3 DEF Disconnect, TornDown, LastFailed
<1>6. /\ ~(Connect \/ Attempt \/ Feedback \/ FeedbackEnds \/ ChannelLost)
      /\ ~(SocketError \/ DecryptFails)
      /\ ~UNCHANGED vars
      /\ ~\E ok \in BOOLEAN : Respond(ok)
  BY DEF Connect, Attempt, Feedback, FeedbackEnds, ChannelLost, SocketError, DecryptFails, Respond,
         vars, connVars, LastFailed
<1>7. Lost
  BY <1>4, <1>5, <1>6 DEF Next
<1> QED  BY <1>7 DEF Lost, LastFailed

Alarm ==
  ~early' =>
    /\ "airplay" \in reported' \ reported => /\ transport \in {"open", "error"}
                                            /\ transport' = "closed"
                                            /\ state # "disconnecting"
    /\ "mrp" \in reported' \ reported => data = "open" /\ data' = "closed"

\* A loss is only reported of a protocol whose connection broke: disconnect(),
\* which closes the channel MRP watches, never raises the alarm.
THEOREM NoFalseAlarms == DeviceSpec => NoFalseAlarm
<1>1. ASSUME TypeOK, WatchTyped, MRPWatched, [DeviceNext]_deviceVars PROVE Alarm
  <2>1. CASE UNCHANGED reported
    BY <2>1 DEF Alarm
  <2>2. ASSUME [Next]_vars, Reports
        PROVE  "airplay" \in reported' \ reported => /\ transport \in {"open", "error"}
                                                   /\ transport' = "closed"
                                                   /\ state # "disconnecting"
    BY <2>2, OnlyLostFails DEF Reports, LastFailed
  <2>3. ASSUME Reports, "mrp" \in reported' \ reported
        PROVE  watched /\ mrp \notin {"idle", "failed"} /\ mrp' = "failed"
    BY <2>3, <1>1 DEF Reports, WatchTyped
  <2>4. CASE CompanionLost
    <3>1. [Next]_vars /\ Reports /\ mrp' = mrp
      BY <2>4 DEF CompanionLost, mrpVars
    <3> QED  BY <3>1, <2>2, <2>3 DEF Alarm
  <2>5. CASE AirPlayStep
    <3>1. [Next]_vars /\ Reports
      BY <2>5 DEF AirPlayStep, Next
    <3>2. ASSUME "mrp" \in reported' \ reported PROVE data = "open" /\ data' = "closed"
      <4>1. step = "returned" /\ data = "open" /\ data' # "open"
        BY <1>1, <2>3, <2>5, <3>1, <3>2 DEF MRPWatched, AirPlayStep, MRPReacts, mrpVars
      <4>2. "returned" \notin Requests /\ "returned" \notin LocalWaits
        BY DEF Requests, ConnRequests, Pairing, Verifying, Rtsp, LocalWaits
      <4>3. ~Continue
        BY <1>1, <4>1, <4>2 DEF Continue, TypeOK, Settlements
      <4>4. ChannelLost
        BY <2>5, <4>1, <4>2, <4>3 DEF AirPlayStep, Attempt, TransportOpen, TransportFails,
           LocalWait, EventOpen, DataOpen, Respond, Feedback, FeedbackEnds, Lost, SocketError,
           DecryptFails, channelVars
      <4> QED  BY <4>1, <4>4 DEF ChannelLost
    <3> QED  BY <3>1, <3>2, <2>2 DEF Alarm
  <2>6. CASE EndAirPlay
    <3>1. [Next]_vars /\ Reports
      BY <2>6 DEF EndAirPlay, Next
    <3>2. ASSUME ~early' PROVE "mrp" \notin reported' \ reported
      BY <1>1, <2>3, <2>6, <3>1, <3>2 DEF MRPWatched, EndAirPlay
    <3> QED  BY <3>1, <3>2, <2>2 DEF Alarm
  <2>7. CASE AirPlayEnded
    <3>1. [Next]_vars /\ Reports
      BY <2>7 DEF AirPlayEnded, Next
    <3>2. ASSUME ~early' PROVE "mrp" \notin reported' \ reported
      BY <1>1, <2>3, <2>7, <3>1, <3>2 DEF MRPWatched, AirPlayEnded
    <3> QED  BY <3>1, <3>2, <2>2 DEF Alarm
  <2>8. CASE ConnectCompanion \/ ConnectAirPlay \/ ConnectMRP \/ SetUpMRP \/ MRPTimesOut
             \/ InitializeApis \/ EndMRP \/ EndCompanion \/ UNCHANGED deviceVars
    BY <2>1, <2>8 DEF ConnectCompanion, ConnectAirPlay, ConnectMRP, SetUpMRP, MRPTimesOut,
       InitializeApis, EndMRP, EndCompanion, deviceVars
  <2> QED  BY <1>1, <2>4, <2>5, <2>6, <2>7, <2>8 DEF DeviceNext
<1>2. DeviceSpec => [][Alarm]_deviceVars
  BY <1>1, WatchHolds, PTL DEF DeviceSpec
<1> QED  BY <1>2 DEF NoFalseAlarm, Alarm

-----------------------------------------------------------------------------
(* RaopStream *)

\* Adding less than once around.
LEMMA Around ==
  ASSUME NEW m \in Nat, NEW x \in 0..(m - 1), NEW d \in 0..m
  PROVE  (x + d) % m = IF x + d < m THEN x + d ELSE x + d - m
<1>1. CASE x + d < m
  BY <1>1
<1>2. CASE x + d >= m
  <2>1. x + d - m \in 0..(m - 1)
    BY <1>2
  <2> QED  BY <1>2, <2>1, Z3
<1> QED  BY <1>1, <1>2

-----------------------------------------------------------------------------
(* Types *)

\* The bounds by themselves, without the product that bounds a stream.
LEMMA Limits ==
  /\ MaxBurst \in Nat /\ MaxAudio \in Nat /\ MaxStreams \in Nat
  /\ FramesPerPacket \in Nat \ {0} /\ Latency \in Nat \ {0}
  /\ TsMod \in Nat
BY FramesAssumption, TsAssumption, BoundAssumption

\* What the context starts from has its type.
LEMMA EmptyTypes ==
  /\ 0 \in Seqs /\ 0 \in 0..(TsMod - 1)
  /\ <<>> \in Seq(Packets)
  /\ NoPacket \in Packets
<1>1. 0 \in Seqs
  BY SeqAssumption DEF Seqs
<1>2. 0 \in 0..(TsMod - 1)
  <2>1. MaxAudio * FramesPerPacket \in Nat
    BY FramesAssumption, BoundAssumption
  <2> QED  BY <2>1, TsAssumption, FramesAssumption
<1>3. <<>> \in Seq(Packets)
  OBVIOUS
<1> QED  BY <1>1, <1>2, <1>3, BoundAssumption DEF NoPacket, Packets

\* Every variable of a stream keeps its type: the numbers wrap inside their range.
THEOREM RaopTypeCorrect == StreamSpec => []StreamTypeOK
<1> USE DEF ctxVars, loopVars, controlVars
<1>1. StreamInit => StreamTypeOK
  <2> SUFFICES ASSUME StreamInit PROVE StreamTypeOK
    OBVIOUS
  <2>1. sent \in Seq(Packets) /\ backlog \in Seq(Packets)
    BY EmptyTypes DEF StreamInit
  <2>2. /\ packet \in Packets /\ rtpseq \in Seqs
        /\ headTs \in 0..(TsMod - 1) /\ anchor \in 0..(TsMod - 1)
    BY EmptyTypes DEF StreamInit
  <2>3. streams \in 0..MaxStreams /\ burst \in 0..MaxBurst
    BY Limits DEF StreamInit
  <2>4. padding \in Nat /\ late \in Nat /\ streaming = "idle" /\ result = "none"
    BY DEF StreamInit
  <2>5. {isPlaying, ended, syncing, feedback, closed} \subseteq BOOLEAN
    BY DEF StreamInit
  <2> QED  BY <2>1, <2>2, <2>3, <2>4, <2>5 DEF StreamTypeOK
<1>2. StreamTypeOK /\ [StreamNext]_streamVars => StreamTypeOK'
  <2> SUFFICES ASSUME StreamTypeOK, [StreamNext]_streamVars PROVE StreamTypeOK'
    OBVIOUS
  <2>1. ASSUME SendAudio PROVE StreamTypeOK'
    <3>1. sent' \in Seq(Packets) /\ packet' \in Packets
      BY <2>1, EmptyTypes DEF SendAudio
    <3>2. streams' \in 0..MaxStreams
      BY <2>1, Limits DEF SendAudio, StreamTypeOK
    <3>3. burst' \in 0..MaxBurst
      BY <2>1, Limits DEF SendAudio
    <3>4. padding' \in Nat /\ late' \in Nat /\ ended' \in BOOLEAN
      BY <2>1 DEF SendAudio
    <3>5. streaming' = "socket" /\ result' = "none"
      BY <2>1 DEF SendAudio
    <3>6. /\ rtpseq' \in Seqs /\ headTs' \in 0..(TsMod - 1)
          /\ UNCHANGED <<isPlaying, backlog, anchor, syncing, feedback, closed>>
      BY <2>1 DEF SendAudio
    <3> QED  BY <3>1, <3>2, <3>3, <3>4, <3>5, <3>6 DEF StreamTypeOK
  <2>2. ASSUME \/ SocketReady \/ Published \/ LoopStarts \/ StreamTornDown
               \/ Stop \/ Close
        PROVE  StreamTypeOK'
    BY <2>2
       DEF SocketReady, Published, LoopStarts, StreamTornDown, Stop,
           Close, StreamTypeOK
  <2>3. ASSUME StepFails \/ Awake PROVE StreamTypeOK'
    BY <2>3, EmptyTypes DEF StepFails, Fails, Awake, Finally, StreamTypeOK
  <2>4. ASSUME SendPacket PROVE StreamTypeOK'
    <3>1. packet' \in Packets
      <4>1. Len(sent) \in Nat /\ MaxAudio \in Nat
        BY BoundAssumption DEF StreamTypeOK
      <4>2. \A plays \in 0..MaxAudio : Outgoing(plays) \in Packets
        BY <4>1 DEF Outgoing, Packets, StreamTypeOK
      <4> QED  BY <2>4, <4>1, <4>2 DEF SendPacket, StreamTypeOK, Silence
    <3>2. backlog' \in Seq(Packets)
      BY <2>4, EmptyTypes DEF SendPacket, Finally, StreamTypeOK
    <3>3. padding' \in Nat
      BY <2>4, FramesAssumption DEF SendPacket, StreamTypeOK
    <3> QED  BY <2>4, <3>1, <3>2, <3>3 DEF SendPacket, Finally, StreamTypeOK
  <2>5. ASSUME PacketSent PROVE StreamTypeOK'
    <3>1. rtpseq' \in Seqs
      BY <2>5, SeqAssumption DEF PacketSent, Seqs, StreamTypeOK
    <3>2. headTs' \in 0..(TsMod - 1)
      BY <2>5, EmptyTypes, TsAssumption, FramesAssumption DEF PacketSent, StreamTypeOK
    <3>3. burst' \in 0..MaxBurst /\ streaming' \in {"sleep", "read"}
      BY <2>5, BoundAssumption DEF PacketSent, AfterPacket, StreamTypeOK
    <3>4. sent' \in Seq(Packets)
      BY <2>5 DEF PacketSent, StreamTypeOK
    <3>5. backlog' \in Seq(Packets)
      <4>1. Append(backlog, packet) \in Seq(Packets) /\ Append(backlog, packet) # <<>>
        BY DEF StreamTypeOK
      <4>2. Tail(Append(backlog, packet)) \in Seq(Packets)
        BY <4>1
      <4> QED  BY <2>5, <4>1, <4>2 DEF PacketSent, Pushed, StreamTypeOK
    <3> QED  BY <2>5, <3>1, <3>2, <3>3, <3>4, <3>5 DEF PacketSent, StreamTypeOK
  <2>6. ASSUME UNCHANGED streamVars PROVE StreamTypeOK'
    BY <2>6 DEF streamVars, StreamTypeOK
  <2> QED  BY <2>1, <2>2, <2>3, <2>4, <2>5, <2>6 DEF StreamNext
<1> QED  BY <1>1, <1>2, PTL DEF StreamSpec

-----------------------------------------------------------------------------
(* What a stop leaves to send *)

\* The loop runs.
Looping == streaming \in {"read", "send", "sleep"}

\* A stream that has not begun to play has sent nothing.
Unplayed ==
  /\ streaming \in {"socket", "publish", "record"} =>
       /\ sent = <<>> /\ padding = 0 /\ burst = 0 /\ ~ended /\ late = 0
  /\ streaming # "teardown" /\ streaming # "idle" => result = "none"
  /\ ~Looping => backlog = <<>>

\* sendAudio() resets the context, and the finally block the backlog.
LEMMA NothingBefore == StreamSpec => []Unplayed
<1> USE DEF ctxVars, loopVars, controlVars, Unplayed, Looping
<1>1. StreamInit => Unplayed
  BY DEF StreamInit
<1>2. Unplayed /\ [StreamNext]_streamVars => Unplayed'
  <2> SUFFICES ASSUME Unplayed, [StreamNext]_streamVars PROVE Unplayed'
    OBVIOUS
  <2>1. ASSUME SendAudio PROVE Unplayed'
    BY <2>1 DEF SendAudio
  <2>2. ASSUME SocketReady \/ Published \/ LoopStarts \/ StreamTornDown
        PROVE  Unplayed'
    BY <2>2 DEF SocketReady, Published, LoopStarts, StreamTornDown
  <2>3. ASSUME StepFails \/ Awake PROVE Unplayed'
    BY <2>3 DEF StepFails, Fails, Awake, Finally
  <2>4. ASSUME SendPacket PROVE Unplayed'
    BY <2>4 DEF SendPacket, Finally
  <2>5. ASSUME PacketSent PROVE Unplayed'
    BY <2>5 DEF PacketSent, AfterPacket
  <2>6. ASSUME Stop \/ Close \/ UNCHANGED streamVars PROVE Unplayed'
    BY <2>6 DEF Stop, Close, streamVars
  <2> QED  BY <2>1, <2>2, <2>3, <2>4, <2>5, <2>6 DEF StreamNext
<1> QED  BY <1>1, <1>2, PTL DEF StreamSpec

\* After a stop only the packets of a burst that has begun are left.
LateBounded ==
  /\ isPlaying => late = 0
  /\ late <= MaxBurst + 1
  /\ streaming \in {"read", "send"} =>
       IF burst = 0 THEN late = 0 ELSE late + burst <= MaxBurst + 1

\* A packet of the round and one burst.
LEMMA OneAbove ==
  ASSUME NEW m \in Nat, NEW b \in 0..m, NEW d \in {0, 1}
  PROVE  d + b <= m + 1 /\ d <= m + 1
OBVIOUS

\* isPlaying is read after every sleep and a burst is not interrupted (streamLoop).
LEMMA LateKept ==
  ASSUME StreamTypeOK, Unplayed, LateBounded, [StreamNext]_streamVars
  PROVE  LateBounded'
<1> USE DEF ctxVars, loopVars, controlVars
<1>1. /\ MaxBurst \in Nat /\ late \in Nat /\ burst \in 0..MaxBurst /\ isPlaying \in BOOLEAN
  BY Limits DEF StreamTypeOK
<1>2. ASSUME SendAudio PROVE LateBounded'
  BY <1>1, <1>2 DEF SendAudio, LateBounded
<1>3. ASSUME SocketReady \/ Published \/ StreamTornDown \/ Stop \/ Close
      PROVE  LateBounded'
  BY <1>1, <1>3
     DEF SocketReady, Published, StreamTornDown, Stop, Close, LateBounded
<1>4. ASSUME LoopStarts PROVE LateBounded'
  BY <1>1, <1>4 DEF LoopStarts, LateBounded, Unplayed
<1>5. ASSUME StepFails \/ Awake PROVE LateBounded'
  <2>1. UNCHANGED <<late, burst, isPlaying>>
    BY <1>5 DEF StepFails, Fails, Awake
  <2>2. streaming' = "teardown" \/ (streaming' = "read" /\ isPlaying)
    BY <1>5 DEF StepFails, Fails, Awake, Finally
  <2> QED  BY <1>1, <2>1, <2>2 DEF LateBounded
<1>6. ASSUME SendPacket PROVE LateBounded'
  BY <1>1, <1>6 DEF SendPacket, Finally, LateBounded
<1>7. ASSUME PacketSent PROVE LateBounded'
  <2>1. streaming = "send" /\ UNCHANGED isPlaying /\ late' = IF isPlaying THEN late ELSE late + 1
    BY <1>7 DEF PacketSent
  <2>2. CASE burst = 0
    <3>1. burst' \in 0..MaxBurst /\ streaming' = IF burst' = 0 THEN "sleep" ELSE "read"
      BY <1>7, <2>2 DEF PacketSent, AfterPacket
    <3>2. late = 0 /\ late' \in {0, 1} /\ (isPlaying' => late' = 0)
      BY <2>1, <2>2 DEF LateBounded
    <3>3. CASE burst' = 0
      <4>1. streaming' = "sleep" /\ late' <= MaxBurst + 1
        BY <1>1, <3>1, <3>2, <3>3
      <4> QED  BY <3>2, <4>1 DEF LateBounded
    <3>4. CASE burst' # 0
      <4>1. late' + burst' <= MaxBurst + 1 /\ late' <= MaxBurst + 1
        BY <1>1, <3>1, <3>2, OneAbove
      <4> QED  BY <3>2, <3>4, <4>1 DEF LateBounded
    <3> QED  BY <3>3, <3>4
  <2>3. CASE burst # 0
    <3>1. burst' = burst - 1 /\ streaming' = IF burst = 1 THEN "sleep" ELSE "read"
      BY <1>7, <2>3 DEF PacketSent, AfterPacket
    <3> QED  BY <1>1, <2>1, <2>3, <3>1 DEF LateBounded
  <2> QED  BY <2>2, <2>3
<1>8. ASSUME UNCHANGED streamVars PROVE LateBounded'
  BY <1>8 DEF streamVars, LateBounded
<1> QED  BY <1>2, <1>3, <1>4, <1>5, <1>6, <1>7, <1>8 DEF StreamNext

\* After stop() at most one packet and one burst still go out (streamLoop, sendBurst).
THEOREM StopIsPrompt == StreamSpec => []StopPrompt
<1>1. StreamInit => LateBounded
  BY Limits DEF StreamInit, LateBounded
<1>2. StreamTypeOK /\ Unplayed /\ LateBounded /\ [StreamNext]_streamVars => LateBounded'
  BY LateKept
<1>3. LateBounded => StopPrompt
  BY DEF LateBounded, StopPrompt
<1> QED  BY <1>1, <1>2, <1>3, RaopTypeCorrect, NothingBefore, PTL DEF StreamSpec

-----------------------------------------------------------------------------
(* What plays *)

\* The packet that is on its way to the socket.
PacketInv ==
  streaming = "send" =>
    /\ packet = [n |-> Len(sent) + 1, seq |-> rtpseq,
                 plays |-> IF ended THEN Silence ELSE Len(sent) + 1]
    /\ ended \/ Len(sent) < MaxAudio

\* The packet is made from the context as it still is when the socket takes it.
LEMMA PacketFollows == StreamSpec => []PacketInv
<1> USE DEF ctxVars, loopVars, controlVars
<1>1. StreamInit => PacketInv
  BY DEF StreamInit, PacketInv
<1>2. StreamTypeOK /\ PacketInv /\ [StreamNext]_streamVars => PacketInv'
  <2> SUFFICES ASSUME StreamTypeOK, PacketInv, [StreamNext]_streamVars PROVE PacketInv'
    OBVIOUS
  <2>1. ASSUME \/ SendAudio \/ SocketReady \/ Published
               \/ LoopStarts \/ StreamTornDown
        PROVE  PacketInv'
    BY <2>1
       DEF SendAudio, SocketReady, Published, LoopStarts, StreamTornDown,
           PacketInv
  <2>2. ASSUME Stop \/ Close \/ UNCHANGED streamVars PROVE PacketInv'
    BY <2>2 DEF Stop, Close, streamVars, PacketInv
  <2>3. ASSUME StepFails \/ Awake PROVE PacketInv'
    BY <2>3 DEF StepFails, Fails, Awake, Finally, PacketInv
  <2>4. ASSUME SendPacket PROVE PacketInv'
    BY <2>4 DEF SendPacket, Finally, Outgoing, PacketInv, StreamTypeOK
  <2>5. ASSUME PacketSent PROVE PacketInv'
    BY <2>5 DEF PacketSent, AfterPacket, PacketInv
  <2> QED  BY <2>1, <2>2, <2>3, <2>4, <2>5 DEF StreamNext
<1> QED  BY <1>1, <1>2, RaopTypeCorrect, PTL DEF StreamSpec

\* What was sent is a packets of audio and then s of silence, which padding counts.
Shape(a, s) ==
  /\ Len(sent) = a + s
  /\ \A i \in DOMAIN sent : sent[i].plays = IF i <= a THEN i ELSE Silence
  /\ s * FramesPerPacket < Latency + FramesPerPacket
  /\ Looping /\ ~ended => s = 0
  /\ streaming \in {"read", "sleep"} \/ result = "played" => padding = s * FramesPerPacket
  /\ streaming = "send" /\ ~ended => padding = 0
  /\ streaming = "send" /\ ended => /\ padding = s * FramesPerPacket + FramesPerPacket
                                    /\ s * FramesPerPacket < Latency
  /\ result = "played" => padding >= Latency

ShapeInv == \E a \in 0..MaxAudio, s \in Nat : Shape(a, s)

\* One packet more.
LEMMA OneMore ==
  ASSUME NEW s \in Nat, NEW f \in Nat
  PROVE  /\ s * f \in Nat
         /\ (s + 1) * f = s * f + f
         /\ s = 0 => s * f = 0
OBVIOUS

\* sendPacket reads the source until it is exhausted and then counts the padding.
LEMMA ShapeKept ==
  ASSUME StreamTypeOK, Unplayed, PacketInv, ShapeInv, [StreamNext]_streamVars
  PROVE  ShapeInv'
<1> USE DEF ctxVars, loopVars, controlVars
<1> PICK a \in 0..MaxAudio, s \in Nat : Shape(a, s)
  BY DEF ShapeInv
<1>0. s * FramesPerPacket \in Nat /\ (s = 0 => s * FramesPerPacket = 0)
  BY OneMore, Limits
<1>1. ASSUME SendAudio PROVE ShapeInv'
  <2>1. Shape(0, 0)'
    BY <1>1, Limits DEF SendAudio, Shape, Looping
  <2> QED  BY <2>1, Limits DEF ShapeInv
<1>2. ASSUME Stop \/ Close \/ UNCHANGED streamVars PROVE Shape(a, s)'
  BY <1>2 DEF Stop, Close, streamVars, Shape, Looping
<1>a. ASSUME SocketReady \/ Published \/ StreamTornDown PROVE Shape(a, s)'
  BY <1>a DEF SocketReady, Published, StreamTornDown, Shape, Looping
<1>3. ASSUME LoopStarts PROVE Shape(a, s)'
  BY <1>3, <1>0 DEF LoopStarts, Shape, Looping, Unplayed, StreamTypeOK
<1>4. ASSUME StepFails \/ Awake PROVE Shape(a, s)'
  BY <1>4, <1>0
     DEF StepFails, Fails, Awake, Finally, Shape, Looping, Unplayed,
         StreamTypeOK
<1>5. ASSUME SendPacket PROVE Shape(a, s)'
  <2> DEFINE x == s * FramesPerPacket
  <2>1. /\ sent' = sent /\ Len(sent) = a + s /\ x < Latency + FramesPerPacket
        /\ \A i \in DOMAIN sent : sent[i].plays = IF i <= a THEN i ELSE Silence
        /\ padding = x /\ (~ended => s = 0) /\ result = "none"
    BY <1>5 DEF SendPacket, Shape, Looping, Unplayed
  <2>2. x \in Nat /\ (s = 0 => x = 0)
    BY <1>0
  <2> HIDE DEF x
  <2>3. CASE padding >= Latency
    <3>1. streaming' = "teardown" /\ padding' = x /\ padding' >= Latency
      BY <1>5, <2>1, <2>3 DEF SendPacket, Finally
    <3> QED  BY <2>1, <3>1 DEF Shape, Looping, x
  <2>4. CASE ~(padding >= Latency)
    <3>1. /\ streaming' = "send" /\ result' = "none" /\ x < Latency
          /\ \/ ~ended /\ ~ended' /\ padding' = 0 /\ s = 0
             \/ ended' /\ padding' = x + FramesPerPacket
      BY <1>5, <2>1, <2>2, <2>4, Limits DEF SendPacket, StreamTypeOK
    <3> QED  BY <2>1, <3>1 DEF Shape, Looping, x
  <2> QED  BY <2>3, <2>4
<1>6. ASSUME PacketSent PROVE ShapeInv'
  <2> DEFINE x == s * FramesPerPacket
  <2>1. /\ sent' = Append(sent, packet)
        /\ packet.plays = IF ended THEN Silence ELSE a + s + 1
        /\ Len(sent) = a + s /\ x < Latency + FramesPerPacket
        /\ \A i \in DOMAIN sent : sent[i].plays = IF i <= a THEN i ELSE Silence
        /\ result' = "none" /\ streaming' \in {"read", "sleep"}
        /\ padding' = padding /\ ended' = ended
    BY <1>6 DEF PacketSent, AfterPacket, PacketInv, Shape, Unplayed
  <2>2. /\ DOMAIN sent = 1..(a + s) /\ DOMAIN sent' = 1..(a + s + 1) /\ Len(sent') = a + s + 1
        /\ sent'[a + s + 1] = packet /\ \A i \in DOMAIN sent : sent'[i] = sent[i]
    BY <2>1 DEF StreamTypeOK
  <2>3. CASE ended
    <3>1. (s + 1) * FramesPerPacket = x + FramesPerPacket
      BY OneMore, Limits
    <3>2. padding = x + FramesPerPacket /\ x < Latency
      BY <1>6, <2>3 DEF Shape, PacketSent
    <3>3. \A i \in DOMAIN sent' : sent'[i].plays = IF i <= a THEN i ELSE Silence
      BY <2>1, <2>2, <2>3
    <3>4. (s + 1) * FramesPerPacket < Latency + FramesPerPacket
      BY <3>1, <3>2, Limits, <1>0
    <3>5. padding' = (s + 1) * FramesPerPacket
      BY <2>1, <3>1, <3>2
    <3>6. Shape(a, s + 1)'
      BY <2>1, <2>2, <2>3, <3>3, <3>4, <3>5 DEF Shape
    <3> QED  BY <3>6 DEF ShapeInv
  <2>4. CASE ~ended
    <3>1. s = 0 /\ a < MaxAudio /\ padding = 0
      BY <1>6, <2>1, <2>4, Limits DEF Shape, PacketSent, Looping, PacketInv
    <3>2. \A i \in DOMAIN sent' : sent'[i].plays = IF i <= a + 1 THEN i ELSE Silence
      BY <2>1, <2>2, <2>4, <3>1
    <3>3. Shape(a + 1, 0)'
      BY <2>1, <2>2, <2>4, <3>1, <3>2, Limits DEF Shape
    <3> QED  BY <3>1, <3>3, Limits DEF ShapeInv
  <2> QED  BY <2>3, <2>4
<1> QED  BY <1>1, <1>2, <1>a, <1>3, <1>4, <1>5, <1>6 DEF StreamNext, ShapeInv

\* Whatever was sent is audio and then silence.
LEMMA ShapeHolds == StreamSpec => []ShapeInv
<1>1. StreamInit => ShapeInv
  <2> SUFFICES ASSUME StreamInit PROVE ShapeInv
    OBVIOUS
  <2>1. Shape(0, 0)
    BY Limits DEF StreamInit, Shape, Looping
  <2> QED  BY <2>1, Limits DEF ShapeInv
<1>2. StreamTypeOK /\ Unplayed /\ PacketInv /\ ShapeInv /\ [StreamNext]_streamVars => ShapeInv'
  BY ShapeKept
<1> QED  BY <1>1, <1>2, RaopTypeCorrect, NothingBefore, PacketFollows, PTL DEF StreamSpec

\* A stream that ends by itself has played the source and the latency (sendPacket).
THEOREM AllPlayed == StreamSpec => []PlaysOut
<1>1. StreamTypeOK /\ ShapeInv => PlaysOut
  <2> SUFFICES ASSUME StreamTypeOK, ShapeInv, result = "played" PROVE PlaysOut
    BY DEF PlaysOut
  <2> PICK a \in 0..MaxAudio, s \in Nat : Shape(a, s)
    BY DEF ShapeInv
  <2>1. Len(sent) - a = s
    BY Limits DEF Shape
  <2>2. s * FramesPerPacket >= Latency /\ s * FramesPerPacket - FramesPerPacket < Latency
    BY OneMore, Limits DEF Shape
  <2> QED  BY <2>1, <2>2 DEF PlaysOut, Shape
<1> QED  BY <1>1, RaopTypeCorrect, ShapeHolds, PTL

-----------------------------------------------------------------------------
(* What the listener is promised *)

\* A stream that is over has its result.
EndInv == /\ streaming = "teardown" => result # "none"
          /\ streaming = "idle" => result # "none" \/ sent = <<>>

\* The finally block is entered with a result (sendAudio).
LEMMA EndHasResult == StreamSpec => []EndInv
<1> USE DEF ctxVars, loopVars, controlVars, EndInv
<1>1. StreamInit => EndInv
  BY DEF StreamInit
<1>2. EndInv /\ [StreamNext]_streamVars => EndInv'
  <2> SUFFICES ASSUME EndInv, [StreamNext]_streamVars PROVE EndInv'
    OBVIOUS
  <2>1. CASE SendAudio \/ SocketReady \/ Published \/ LoopStarts \/ StreamTornDown
    BY <2>1 DEF SendAudio, SocketReady, Published, LoopStarts, StreamTornDown
  <2>2. CASE StepFails \/ Awake \/ SendPacket
    BY <2>2 DEF StepFails, Fails, Awake, SendPacket, Finally
  <2>3. CASE PacketSent
    BY <2>3 DEF PacketSent, AfterPacket
  <2>4. CASE Stop \/ Close \/ UNCHANGED streamVars
    BY <2>4 DEF Stop, Close, streamVars
  <2> QED  BY <2>1, <2>2, <2>3, <2>4 DEF StreamNext
<1> QED  BY <1>1, <1>2, PTL DEF StreamSpec

\* What the packets of a sequence play.
Plays(s) == [i \in DOMAIN s |-> s[i].plays]

LEMMA PlaysAppend ==
  ASSUME NEW s \in Seq(Packets), NEW p \in Packets
  PROVE  Plays(Append(s, p)) = Append(Plays(s), p.plays)
<1> DEFINE h == Plays(s)
           new == Append(s, p)
<1>1. DOMAIN s = 1..Len(s) /\ Len(s) \in Nat
  OBVIOUS
<1>2. /\ DOMAIN new = 1..(Len(s) + 1)
      /\ \A i \in 1..Len(s) : new[i] = s[i]
      /\ new[Len(s) + 1] = p
  BY <1>1
<1>3. h \in Seq(0..MaxAudio) /\ Len(h) = Len(s) /\ \A i \in 1..Len(s) : h[i] = s[i].plays
  <2>1. \A i \in 1..Len(s) : s[i] \in Packets
    BY <1>1
  <2>2. \A q \in Packets : q.plays \in 0..MaxAudio
    BY DEF Packets
  <2>3. h \in [1..Len(s) -> 0..MaxAudio]
    BY <1>1, <2>1, <2>2 DEF Plays
  <2> QED  BY <1>1, <2>3 DEF Plays
<1>4. p.plays \in 0..MaxAudio
  BY DEF Packets
<1>5. /\ DOMAIN Append(h, p.plays) = 1..(Len(s) + 1)
      /\ \A i \in 1..Len(s) : Append(h, p.plays)[i] = s[i].plays
      /\ Append(h, p.plays)[Len(s) + 1] = p.plays
      /\ Append(h, p.plays) \in Seq(0..MaxAudio)
  <2> HIDE DEF h
  <2> QED  BY <1>1, <1>3, <1>4
<1>6. \A i \in 1..(Len(s) + 1) : Append(h, p.plays)[i] = new[i].plays
  BY <1>1, <1>2, <1>5
<1> HIDE DEF h, new
<1> QED  BY <1>2, <1>5, <1>6 DEF Plays, h, new

\* The packets sent are audio and then silence, as the listener counts them.
LEMMA ShapeIsHeard ==
  ASSUME StreamTypeOK, NEW a \in 0..MaxAudio, NEW s \in Nat, Shape(a, s)
  PROVE  Playback!Heard(a, s) /\ Len(Plays(sent)) = a + s
<1>1. DOMAIN sent = 1..(a + s)
  BY Limits DEF Shape, StreamTypeOK
<1>2. \A i \in 1..(a + s) : sent[i].plays = IF i <= a THEN i ELSE Silence
  BY <1>1 DEF Shape
<1> QED  BY <1>1, <1>2 DEF Playback!Heard, Playback!Silence, Silence, Plays

\* Every step of a stream is one the listener is promised, or none.
LEMMA PlaybackStep ==
  ASSUME StreamTypeOK, Unplayed, PacketInv, ShapeInv, EndInv, [StreamNext]_streamVars
  PROVE  [Playback!Next]_(Playback!vars)
<1> USE DEF ctxVars, loopVars, controlVars
<1> PICK a \in 0..MaxAudio, s \in Nat : Shape(a, s)
  BY DEF ShapeInv
<1>h. Playback!Heard(a, s) /\ Len(Plays(sent)) = a + s /\ s \in 0..(a + s)
  BY ShapeIsHeard, Limits
<1>1. UNCHANGED <<sent, result>> => UNCHANGED Playback!vars
  BY DEF Playback!vars
<1>2. ASSUME SendAudio PROVE Playback!Begin
  <2>1. streaming = "idle" /\ sent' = <<>> /\ result' = "none"
    BY <1>2 DEF SendAudio
  <2>2. Plays(sent)' = <<>> /\ (sent = <<>> => Plays(sent) = <<>>)
    BY <2>1 DEF Plays
  <2> QED  BY <2>1, <2>2 DEF Playback!Begin, EndInv, Plays
<1>3. ASSUME StepFails \/ Awake PROVE Playback!Abort \/ UNCHANGED <<sent, result>>
  BY <1>3 DEF StepFails, Fails, Awake, Finally, Unplayed, Playback!Abort
<1>4. ASSUME SendPacket PROVE Playback!Finish \/ UNCHANGED <<sent, result>>
  <2>1. sent' = sent /\ (result' = result \/ (padding >= Latency /\ result' = "played"))
    BY <1>4 DEF SendPacket, Finally
  <2>2. padding = s * FramesPerPacket /\ result = "none"
    BY <1>4 DEF SendPacket, Shape, Unplayed
  <2> QED  BY <1>h, <2>1, <2>2 DEF Playback!Finish, Plays
<1>5. ASSUME PacketSent PROVE Playback!Play \/ Playback!Pad
  <2>1. /\ streaming = "send" /\ sent' = Append(sent, packet) /\ UNCHANGED result
        /\ result = "none" /\ packet \in Packets
        /\ packet.plays = IF ended THEN Silence ELSE Len(sent) + 1
    BY <1>5 DEF PacketSent, Unplayed, PacketInv, StreamTypeOK
  <2>2. Plays(sent)' = Append(Plays(sent), packet.plays)
    BY <2>1, PlaysAppend DEF StreamTypeOK, Plays
  <2>3. CASE ended
    <3>1. s * FramesPerPacket < Latency
      BY <2>1, <2>3 DEF Shape
    <3> QED  BY <1>h, <2>1, <2>2, <2>3, <3>1
                DEF Playback!Pad, Playback!Silence, Silence, Plays
  <2>4. CASE ~ended
    <3>1. s = 0 /\ Len(sent) = a /\ a < MaxAudio
      BY <2>1, <2>4, Limits DEF Shape, Looping, PacketInv
    <3>2. a \in 0..(MaxAudio - 1)
      BY <3>1, Limits
    <3> QED  BY <1>h, <2>1, <2>2, <2>4, <3>1, <3>2 DEF Playback!Play, Plays
  <2> QED  BY <2>3, <2>4
<1>6. ASSUME \/ SocketReady \/ Published \/ LoopStarts \/ StreamTornDown
             \/ Stop \/ Close \/ UNCHANGED streamVars
      PROVE  UNCHANGED <<sent, result>>
  BY <1>6 DEF SocketReady, Published, LoopStarts, StreamTornDown, Stop, Close, streamVars
<1> QED  BY <1>1, <1>2, <1>3, <1>4, <1>5, <1>6 DEF StreamNext, Playback!Next

\* Streams give the listener what is promised, step by step: the source in order and
\* without a gap, silence only behind it, and no end that is called played before the
\* latency is filled (sendPacket, streamLoop, sendAudio).
THEOREM PlaybackImplemented == StreamSpec => ImplementsPlayback
<1>1. StreamInit => Playback!Init
  BY DEF StreamInit, Playback!Init
<1>2. /\ StreamTypeOK /\ Unplayed /\ PacketInv /\ ShapeInv /\ EndInv
      /\ [StreamNext]_streamVars
      => [Playback!Next]_(Playback!vars)
  BY PlaybackStep
<1> QED  BY <1>1, <1>2, RaopTypeCorrect, NothingBefore, PacketFollows, ShapeHolds,
            EndHasResult, PTL
            DEF StreamSpec, ImplementsPlayback, Playback!Spec

-----------------------------------------------------------------------------
(* The clock *)

\* A stream ends before the clock has gone around.
Short == Len(sent) * FramesPerPacket \in 0..(TsMod - 1)

\* The source and the padding together are bounded.
LEMMA StreamIsShort ==
  ASSUME StreamTypeOK, ShapeInv
  PROVE  Short
<1> PICK a \in 0..MaxAudio, s \in Nat : Shape(a, s)
  BY DEF ShapeInv
<1>1. a * FramesPerPacket <= MaxAudio * FramesPerPacket
  <2>1. MaxAudio - a \in Nat
    BY Limits
  <2>2. (MaxAudio - a) * FramesPerPacket \in Nat
    BY <2>1, OneMore, Limits
  <2>3. MaxAudio * FramesPerPacket = (MaxAudio - a) * FramesPerPacket + a * FramesPerPacket
    BY <2>1, Limits
  <2>4. a * FramesPerPacket \in Nat
    BY OneMore, Limits
  <2> QED  BY <2>2, <2>3, <2>4
<1>2. Len(sent) * FramesPerPacket = a * FramesPerPacket + s * FramesPerPacket
  BY Limits DEF Shape
<1>3. /\ a * FramesPerPacket \in Nat /\ s * FramesPerPacket \in Nat
      /\ MaxAudio * FramesPerPacket \in Nat
  BY OneMore, Limits
<1>4. s * FramesPerPacket < Latency + FramesPerPacket
  BY DEF Shape
<1>5. TsMod \in Nat /\ TsMod > MaxAudio * FramesPerPacket + Latency + FramesPerPacket
  BY TsAssumption
<1> DEFINE l == Len(sent) * FramesPerPacket
           x == a * FramesPerPacket
           y == s * FramesPerPacket
           z == MaxAudio * FramesPerPacket
<1>6. /\ l = x + y /\ x <= z /\ y < Latency + FramesPerPacket
      /\ x \in Nat /\ y \in Nat /\ z \in Nat /\ TsMod > z + Latency + FramesPerPacket
  BY <1>1, <1>2, <1>3, <1>4, <1>5
<1> HIDE DEF l, x, y, z
<1>7. l \in 0..(TsMod - 1)
  BY <1>6, Limits
<1> QED  BY <1>7 DEF l, Short

\* The head is where the sent packets have led from the anchor.
HeadAt(n) == headTs = IF anchor + n < TsMod THEN anchor + n ELSE anchor + n - TsMod

ClockInv ==
  syncing => streaming \notin {"idle", "socket"} /\ HeadAt(Len(sent) * FramesPerPacket)

\* The anchor is set once per stream, and the head moves with every packet.
LEMMA ClockKept ==
  ASSUME StreamTypeOK, Unplayed, Short, Short', ClockInv, [StreamNext]_streamVars
  PROVE  ClockInv'
<1> USE DEF ctxVars, loopVars, controlVars
<1>1. ASSUME SendAudio \/ StreamTornDown \/ Close PROVE ClockInv'
  BY <1>1 DEF SendAudio, StreamTornDown, Close, ClockInv
<1>2. ASSUME Published \/ LoopStarts \/ Stop \/ UNCHANGED streamVars
      PROVE  ClockInv'
  BY <1>2 DEF Published, LoopStarts, Stop, streamVars, ClockInv, HeadAt
<1>3. ASSUME StepFails \/ Awake PROVE ClockInv'
  BY <1>3 DEF StepFails, Fails, Awake, Finally, ClockInv, HeadAt
<1>4. ASSUME SendPacket PROVE ClockInv'
  BY <1>4 DEF SendPacket, Finally, ClockInv, HeadAt
<1>5. ASSUME SocketReady PROVE ClockInv'
  <2>1. Len(sent') = 0 /\ anchor' = headTs /\ headTs' = headTs /\ streaming' = "publish"
    BY <1>5 DEF SocketReady, Unplayed
  <2>2. Len(sent') * FramesPerPacket = 0
    BY <2>1, Limits
  <2>3. headTs < TsMod /\ headTs \in Nat
    BY Limits DEF StreamTypeOK
  <2>4. headTs' = IF anchor' + 0 < TsMod THEN anchor' + 0 ELSE anchor' + 0 - TsMod
    BY <2>1, <2>3, Limits
  <2> QED  BY <2>1, <2>2, <2>4 DEF ClockInv, HeadAt
<1>6. ASSUME PacketSent, syncing PROVE ClockInv'
  <2> DEFINE x == Len(sent) * FramesPerPacket
             y == Len(sent') * FramesPerPacket
  <2>1. Len(sent') = Len(sent) + 1 /\ Len(sent) \in Nat
    BY <1>6 DEF PacketSent, StreamTypeOK
  <2>2. y = x + FramesPerPacket
    BY <2>1, OneMore, Limits
  <2>3. x \in 0..(TsMod - 1) /\ y \in 0..(TsMod - 1)
    BY DEF Short
  <2>4. HeadAt(x)
    BY <1>6 DEF ClockInv
  <2> HIDE DEF x, y
  <2>5. /\ FramesPerPacket \in 0..TsMod /\ headTs \in 0..(TsMod - 1)
        /\ anchor \in 0..(TsMod - 1)
    BY <2>2, <2>3, Limits DEF StreamTypeOK
  <2>6. headTs' = IF headTs + FramesPerPacket < TsMod THEN headTs + FramesPerPacket
                  ELSE headTs + FramesPerPacket - TsMod
    BY <1>6, <2>5, Limits, Around DEF PacketSent
  <2>7. anchor' = anchor /\ streaming' \in {"read", "sleep"}
    BY <1>6 DEF PacketSent, AfterPacket
  <2>8. headTs' = IF anchor' + y < TsMod THEN anchor' + y ELSE anchor' + y - TsMod
    BY <2>2, <2>3, <2>4, <2>5, <2>6, <2>7, Limits DEF HeadAt
  <2> QED  BY <2>7, <2>8 DEF ClockInv, HeadAt, y
<1>7. ASSUME PacketSent, ~syncing PROVE ClockInv'
  BY <1>7 DEF PacketSent, ClockInv
<1> QED  BY <1>1, <1>2, <1>3, <1>4, <1>5, <1>6, <1>7 DEF StreamNext

\* The sync packets tell how much was sent (ntpFromRtp).
THEOREM ClockIsRight == StreamSpec => []SyncClock
<1>1. StreamInit => ClockInv
  BY DEF StreamInit, ClockInv
<1>2. /\ StreamTypeOK /\ Unplayed /\ Short /\ ClockInv
      /\ [StreamNext]_streamVars /\ Short'
      => ClockInv'
  BY ClockKept
<1>3. StreamTypeOK /\ ShapeInv => Short
  BY StreamIsShort
<1>4. StreamTypeOK /\ Short /\ ClockInv => SyncClock
  <2> SUFFICES ASSUME StreamTypeOK, Short, ClockInv, syncing
               PROVE  elapsed = Len(sent) * FramesPerPacket
    BY DEF SyncClock
  <2> DEFINE x == Len(sent) * FramesPerPacket
  <2>1. x \in 0..(TsMod - 1)
    BY DEF Short
  <2>2. HeadAt(x)
    BY DEF ClockInv
  <2> HIDE DEF x
  <2>3. elapsed = x
    BY <2>1, <2>2, Limits DEF HeadAt, elapsed, StreamTypeOK
  <2> QED  BY <2>3 DEF x
<1> QED  BY <1>1, <1>2, <1>3, <1>4, RaopTypeCorrect, NothingBefore, ShapeHolds, PTL
            DEF StreamSpec

-----------------------------------------------------------------------------
(* Retransmission *)

\* Packets are numbered without a gap, backwards from the number of the context.
Numbered(s, i) ==
  LET back == Len(s) + 1 - i IN
    /\ s[i].n = i
    /\ back < SeqMod =>
         s[i].seq = IF rtpseq >= back THEN rtpseq - back ELSE rtpseq - back + SeqMod

NumberInv == \A i \in DOMAIN sent : Numbered(sent, i)

\* The backlog is shorter than the numbers.
LEMMA SeqLimits ==
  SeqMod \in Nat /\ BacklogSize \in Nat /\ 1 <= BacklogSize /\ BacklogSize < SeqMod
BY SeqAssumption

\* The number moves on by one with every packet, over the wrap.
LEMMA NumberKept ==
  ASSUME StreamTypeOK, PacketInv, NumberInv, [StreamNext]_streamVars
  PROVE  NumberInv'
<1> USE DEF ctxVars, loopVars, controlVars
<1>1. ASSUME UNCHANGED <<rtpseq, sent>> PROVE NumberInv'
  BY <1>1 DEF NumberInv, Numbered
<1>2. ASSUME SendAudio PROVE NumberInv'
  BY <1>2 DEF SendAudio, NumberInv
<1>3. ASSUME PacketSent PROVE NumberInv'
  <2>1. /\ sent' = Append(sent, packet) /\ Len(sent) \in Nat
        /\ packet.n = Len(sent) + 1 /\ packet.seq = rtpseq
    BY <1>3 DEF PacketSent, PacketInv, StreamTypeOK
  <2>2. /\ Len(sent') = Len(sent) + 1 /\ DOMAIN sent' = 1..(Len(sent) + 1)
        /\ DOMAIN sent = 1..Len(sent)
        /\ sent'[Len(sent) + 1] = packet /\ \A i \in DOMAIN sent : sent'[i] = sent[i]
    BY <2>1 DEF StreamTypeOK
  <2>3. /\ rtpseq \in Nat /\ rtpseq < SeqMod
        /\ rtpseq' = IF rtpseq + 1 < SeqMod THEN rtpseq + 1 ELSE 0
    <3>1. rtpseq \in 0..(SeqMod - 1) /\ 1 \in 0..SeqMod
      BY SeqLimits DEF StreamTypeOK, Seqs
    <3>2. (rtpseq + 1) % SeqMod = IF rtpseq + 1 < SeqMod THEN rtpseq + 1
                                  ELSE rtpseq + 1 - SeqMod
      BY <3>1, SeqLimits, Around
    <3> QED  BY <1>3, <3>1, <3>2, SeqLimits DEF PacketSent
  <2>4. ASSUME NEW i \in DOMAIN sent' PROVE Numbered(sent, i)'
    <3>1. CASE i = Len(sent) + 1
      <4>1. /\ Len(sent') + 1 - i = 1 /\ sent'[i].n = i /\ sent'[i].seq = rtpseq
            /\ rtpseq = IF rtpseq' >= 1 THEN rtpseq' - 1 ELSE rtpseq' - 1 + SeqMod
        BY <2>1, <2>2, <2>3, <3>1, SeqLimits
      <4> QED  BY <4>1 DEF Numbered
    <3>2. CASE i \in DOMAIN sent
      <4>1. Numbered(sent, i)
        BY <3>2 DEF NumberInv
      <4> QED  BY <2>1, <2>2, <2>3, <3>2, <4>1, SeqLimits DEF Numbered
    <3> QED  BY <2>1, <2>2, <3>1, <3>2
  <2> QED  BY <2>4 DEF NumberInv
<1>4. [StreamNext]_streamVars => SendAudio \/ PacketSent \/ UNCHANGED <<rtpseq, sent>>
  BY
     DEF StreamNext, streamVars, SocketReady, Published, LoopStarts,
         StepFails, Fails, StreamTornDown, SendPacket,
         Awake, Stop, Close
<1> QED  BY <1>1, <1>2, <1>3, <1>4

\* Two packets of the last SeqMod - 1 have different numbers, and neither has the
\* number that comes next.
LEMMA NumbersDiffer ==
  ASSUME StreamTypeOK, NumberInv, NEW i \in DOMAIN sent,
         Len(sent) + 1 - i < SeqMod
  PROVE  /\ sent[i].seq # rtpseq
         /\ \A j \in DOMAIN sent : j > i => sent[j].seq # sent[i].seq
<1>1. /\ DOMAIN sent = 1..Len(sent) /\ Len(sent) \in Nat
      /\ rtpseq \in Nat /\ rtpseq < SeqMod
  BY SeqLimits DEF StreamTypeOK, Seqs
<1>2. \A j \in DOMAIN sent : Numbered(sent, j)
  BY DEF NumberInv
<1>3. sent[i].seq = IF rtpseq >= Len(sent) + 1 - i THEN rtpseq - (Len(sent) + 1 - i)
                    ELSE rtpseq - (Len(sent) + 1 - i) + SeqMod
  BY <1>2 DEF Numbered
<1>4. sent[i].seq # rtpseq
  BY <1>1, <1>3, SeqLimits
<1>5. ASSUME NEW j \in DOMAIN sent, j > i PROVE sent[j].seq # sent[i].seq
  <2>1. sent[j].seq = IF rtpseq >= Len(sent) + 1 - j THEN rtpseq - (Len(sent) + 1 - j)
                      ELSE rtpseq - (Len(sent) + 1 - j) + SeqMod
    BY <1>1, <1>2, <1>5, SeqLimits DEF Numbered
  <2> QED  BY <1>1, <1>3, <1>5, <2>1, SeqLimits
<1> QED  BY <1>4, <1>5

\* The backlog is the end of what was sent.
BacklogInv ==
  IF Looping
  THEN /\ Len(backlog) = IF Len(sent) < BacklogSize THEN Len(sent) ELSE BacklogSize
       /\ \A i \in 1..Len(backlog) : backlog[i] = sent[Len(sent) - Len(backlog) + i]
  ELSE backlog = <<>>

\* A backlog that is not full grows by one.
LEMMA OneOf ==
  ASSUME NEW l \in Nat, NEW b \in Nat, l < b
  PROVE  l + 1 = IF l + 1 < b THEN l + 1 ELSE b
OBVIOUS

\* PacketFifo never finds a number it already has, and drops the oldest.
LEMMA BacklogKept ==
  ASSUME StreamTypeOK, Unplayed, PacketInv, NumberInv, BacklogInv,
         [StreamNext]_streamVars
  PROVE  BacklogInv'
<1> USE DEF ctxVars, loopVars, controlVars
<1>1. ASSUME SendAudio \/ SocketReady \/ Published \/ StreamTornDown
      PROVE  BacklogInv'
  BY <1>1
     DEF SendAudio, SocketReady, Published, StreamTornDown, BacklogInv, Looping
<1>2. ASSUME LoopStarts PROVE BacklogInv'
  <2>1. backlog' = <<>> /\ sent' = <<>>
    BY <1>2 DEF LoopStarts, Unplayed, Looping
  <2>2. Len(backlog') = 0 /\ Len(sent') = 0
    BY <2>1
  <2> QED  BY <2>1, <2>2, SeqLimits DEF BacklogInv
<1>3. ASSUME StepFails PROVE BacklogInv'
  BY <1>3 DEF StepFails, Fails, Finally, BacklogInv, Looping
<1>4. ASSUME Awake \/ SendPacket PROVE BacklogInv'
  <2>1. \/ streaming' = "teardown" /\ backlog' = <<>>
        \/ Looping /\ Looping' /\ UNCHANGED <<backlog, sent>>
    BY <1>4 DEF Awake, SendPacket, Finally, Looping
  <2> QED  BY <2>1 DEF BacklogInv, Looping
<1>5. ASSUME Stop \/ Close \/ UNCHANGED streamVars PROVE BacklogInv'
  BY <1>5 DEF Stop, Close, streamVars, BacklogInv, Looping
<1>6. ASSUME PacketSent PROVE BacklogInv'
  <2> DEFINE l == Len(sent)
             k == Len(backlog)
             all == Append(backlog, packet)
  <2>0. l \in Nat /\ k \in Nat
    BY DEF StreamTypeOK
  <2>1. /\ l \in Nat /\ k \in Nat /\ k = (IF l < BacklogSize THEN l ELSE BacklogSize)
        /\ \A i \in 1..k : backlog[i] = sent[l - k + i]
        /\ packet.seq = rtpseq /\ packet \in Packets
        /\ sent' = Append(sent, packet) /\ Looping' /\ backlog' = Pushed
    BY <1>6 DEF PacketSent, AfterPacket, PacketInv, BacklogInv, Looping, StreamTypeOK
  <2>2. /\ DOMAIN sent = 1..l /\ Len(sent') = l + 1 /\ DOMAIN backlog = 1..k
        /\ sent'[l + 1] = packet /\ \A i \in 1..l : sent'[i] = sent[i]
    BY <2>1 DEF StreamTypeOK
  <2>3. /\ all \in Seq(Packets) /\ Len(all) = k + 1
        /\ all[k + 1] = packet /\ \A i \in 1..k : all[i] = backlog[i]
    BY <2>1 DEF StreamTypeOK
  <2>4. ~ \E i \in DOMAIN backlog : backlog[i].seq = packet.seq
    <3> SUFFICES ASSUME NEW i \in 1..k PROVE backlog[i].seq # rtpseq
      BY <2>1, <2>2
    <3>1. l - k + i \in DOMAIN sent /\ l + 1 - (l - k + i) < SeqMod
      BY <2>1, <2>2, SeqLimits
    <3> QED  BY <2>1, <3>1, NumbersDiffer
  <2>5. backlog' = IF k + 1 > BacklogSize THEN Tail(all) ELSE all
    BY <2>1, <2>3, <2>4 DEF Pushed
  <2>6. /\ Len(Tail(all)) = k
        /\ \A i \in 1..k : Tail(all)[i] = all[i + 1]
    <3> HIDE DEF k, all
    <3>1. all # <<>> /\ Len(all) - 1 = k
      BY <2>0, <2>3
    <3>2. /\ Len(Tail(all)) = Len(all) - 1
          /\ \A i \in 1..Len(Tail(all)) : Tail(all)[i] = all[i + 1]
      BY <2>3, <3>1, HeadTailProperties
    <3> QED  BY <3>1, <3>2
  <2> HIDE DEF l, k, all
  <2>7. \A i \in 1..(k + 1) : all[i] = sent'[l - k + i]
    BY <2>1, <2>2, <2>3, SeqLimits
  <2>8. /\ Len(backlog') = (IF l + 1 < BacklogSize THEN l + 1 ELSE BacklogSize)
        /\ \A i \in 1..Len(backlog') : backlog'[i] = sent'[l + 1 - Len(backlog') + i]
    <3>1. CASE k + 1 > BacklogSize
      <4>1. k = BacklogSize /\ l >= BacklogSize /\ backlog' = Tail(all) /\ Len(backlog') = k
        BY <2>1, <2>5, <2>6, <3>1, SeqLimits
      <4>2. ASSUME NEW i \in 1..k PROVE backlog'[i] = sent'[l + 1 - k + i]
        <5>1. i + 1 \in 1..(k + 1) /\ l - k + (i + 1) = l + 1 - k + i
          BY <2>1
        <5>2. all[i + 1] = sent'[l - k + (i + 1)]
          BY <2>7, <5>1
        <5> QED  BY <2>6, <4>1, <5>1, <5>2
      <4>3. k = IF l + 1 < BacklogSize THEN l + 1 ELSE BacklogSize
        BY <2>0, <4>1, SeqLimits
      <4> QED  BY <4>1, <4>2, <4>3
    <3>2. CASE ~(k + 1 > BacklogSize)
      <4>1. k = l /\ l < BacklogSize /\ backlog' = all /\ Len(backlog') = k + 1
        BY <2>1, <2>3, <2>5, <3>2, SeqLimits
      <4>2. l - k = 0 /\ l + 1 - (k + 1) = 0
        BY <2>1, <4>1
      <4>3. \A i \in 1..(k + 1) : backlog'[i] = sent'[l + 1 - (k + 1) + i]
        BY <2>7, <4>1, <4>2
      <4>4. k + 1 = IF l + 1 < BacklogSize THEN l + 1 ELSE BacklogSize
        <5>1. l + 1 = IF l + 1 < BacklogSize THEN l + 1 ELSE BacklogSize
          BY <2>0, <4>1, SeqLimits, OneOf
        <5> QED  BY <4>1, <5>1
      <4> QED  BY <4>1, <4>3, <4>4
    <3> QED  BY <3>1, <3>2
  <2>9. l + 1 = Len(sent') /\ Looping'
    BY <2>1, <2>2
  <2>10. Len(backlog') = IF Len(sent') < BacklogSize THEN Len(sent') ELSE BacklogSize
    BY <2>8, <2>9
  <2>11. ASSUME NEW i \in 1..Len(backlog')
         PROVE  backlog'[i] = sent'[Len(sent') - Len(backlog') + i]
    <3>1. backlog'[i] = sent'[l + 1 - Len(backlog') + i]
      BY <2>8
    <3>2. l + 1 - Len(backlog') + i = Len(sent') - Len(backlog') + i
      <4>1. Len(backlog') \in Nat
        BY <2>0, <2>8, SeqLimits
      <4> QED  BY <2>0, <2>9, <4>1
    <3> QED  BY <3>1, <3>2
  <2> QED  BY <2>9, <2>10, <2>11 DEF BacklogInv
<1> QED  BY <1>1, <1>2, <1>3, <1>4, <1>5, <1>6 DEF StreamNext

\* The numbers and the backlog follow what was sent.
LEMMA BacklogIsEnd == StreamSpec => [](NumberInv /\ BacklogInv)
<1>1. StreamInit => NumberInv /\ BacklogInv
  BY DEF StreamInit, NumberInv, BacklogInv, Looping
<1>2. /\ StreamTypeOK /\ Unplayed /\ PacketInv /\ NumberInv /\ BacklogInv
      /\ [StreamNext]_streamVars
      => NumberInv' /\ BacklogInv'
  BY NumberKept, BacklogKept
<1> QED  BY <1>1, <1>2, RaopTypeCorrect, NothingBefore, PacketFollows, PTL DEF StreamSpec

\* A number is answered with the latest packet that has it (handleRetransmit).
THEOREM RightAnswer == StreamSpec => []ResentIsRight
<1>1. StreamTypeOK /\ NumberInv /\ BacklogInv => ResentIsRight
  <2> SUFFICES ASSUME StreamTypeOK, NumberInv, BacklogInv, NEW seq \in Seqs
               PROVE  LET those == {i \in DOMAIN sent : sent[i].seq = seq}
                      IN IF Resent(seq) # NoPacket
                         THEN \E i \in those : /\ Resent(seq) = sent[i]
                                               /\ \A j \in those : j <= i
                         ELSE Looping => \A i \in those : i <= Len(sent) - BacklogSize
    BY DEF ResentIsRight, Looping
  <2> DEFINE l == Len(sent)
             k == Len(backlog)
             those == {i \in DOMAIN sent : sent[i].seq = seq}
             found == {i \in DOMAIN backlog : backlog[i].seq = seq}
  <2>1. /\ l \in Nat /\ DOMAIN sent = 1..l /\ k \in Nat /\ DOMAIN backlog = 1..k
    BY DEF StreamTypeOK
  <2>2. Resent(seq) = IF found = {} THEN NoPacket
                      ELSE backlog[CHOOSE i \in found : TRUE]
    BY DEF Resent
  <2>3. CASE found = {}
    <3> SUFFICES ASSUME Looping, NEW i \in those, i > l - BacklogSize PROVE FALSE
      BY <2>1, <2>2, <2>3, SeqLimits
    <3>1. k = IF l < BacklogSize THEN l ELSE BacklogSize
      BY DEF BacklogInv
    <3>2. i - (l - k) \in 1..k /\ l - k + (i - (l - k)) = i
      BY <2>1, <3>1, SeqLimits
    <3>3. backlog[i - (l - k)] = sent[i]
      BY <2>1, <3>2 DEF BacklogInv
    <3>4. i - (l - k) \in found
      BY <2>1, <3>2, <3>3
    <3> QED  BY <2>3, <3>4
  <2>4. CASE found # {}
    <3> DEFINE m == CHOOSE i \in found : TRUE
    <3>1. m \in found
      BY <2>4
    <3> HIDE DEF m
    <3>2. Looping
      <4>1. k # 0
        BY <2>1, <3>1
      <4>2. ~Looping => backlog = <<>>
        BY DEF BacklogInv
      <4> QED  BY <4>1, <4>2
    <3>3. /\ k = (IF l < BacklogSize THEN l ELSE BacklogSize)
          /\ backlog[m] = sent[l - k + m] /\ m \in 1..k
      BY <2>1, <3>1, <3>2 DEF BacklogInv
    <3>4. l - k + m \in DOMAIN sent /\ l + 1 - (l - k + m) < SeqMod
      BY <2>1, <3>3, SeqLimits
    <3>5. l - k + m \in those
      BY <3>1, <3>3, <3>4
    <3>6. \A j \in those : j <= l - k + m
      BY <2>1, <3>4, <3>5, NumbersDiffer
    <3>7. Resent(seq) = sent[l - k + m] /\ Resent(seq) # NoPacket
      <4>1. Resent(seq) = sent[l - k + m]
        BY <2>2, <2>4, <3>3 DEF m
      <4>2. sent[l - k + m].n = l - k + m /\ l - k + m >= 1
        BY <2>1, <3>4 DEF NumberInv, Numbered
      <4> QED  BY <4>1, <4>2 DEF NoPacket
    <3> QED  BY <3>5, <3>6, <3>7
  <2> QED  BY <2>3, <2>4
<1> QED  BY <1>1, RaopTypeCorrect, BacklogIsEnd, PTL
=============================================================================

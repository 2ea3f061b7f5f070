------------------------------ MODULE MRP_proofs ------------------------------
(***************************************************************************)
(* Proofs about MRPProtocol, for any number of connects and of requests of *)
(* the application, and about MRPPlayerState, for all clients, players,    *)
(* items and queues.                                                       *)
(*                                                                         *)
(* What a step does to the request table is one of six things              *)
(* (RequestStep), whatever else it does: each fact about the table is      *)
(* proved once for these six.  Every player state is good on its own       *)
(* (GoodPlayer), and the handlers only replace one good player by another. *)
(***************************************************************************)
EXTENDS MRPProtocol, MRPPlayerState, TLAPS

Outcomes == {"none", "pending", "resolved", "rejected"}

RequestTypes == /\ promise \in [Requests -> Outcomes]
                /\ capturing \subseteq Requests
                /\ outstanding \subseteq Requests
                /\ timer \subseteq Requests
                /\ sent \subseteq Requests
                /\ heard \subseteq Requests

ConnTypes == /\ channel \in ChannelStates
             /\ listeners \subseteq Conns
             /\ watchers \subseteq Conns
             /\ handler \in Conns \cup {NoConn}
             /\ state \in States
             /\ conn \in [Conns -> ConnStates]
             /\ step \in [Conns -> Steps]
             /\ waited \subseteq Conns

LEMMA TypesTogether == TypeOK <=> RequestTypes /\ ConnTypes
BY DEF TypeOK, RequestTypes, ConnTypes, Outcomes

-----------------------------------------------------------------------------
(* The request table *)

\* The requests a connect() has not come to yet were never issued.
NotYet(c, k) == conn[c] \in {"unused", "waiting"} \/ k > step[c]
SetupFresh == \A c \in Conns : \A k \in Steps : NotYet(c, k) => promise[<<c, k>>] = "none"

\* The device has not answered what it may still answer, and answers nothing
\* that was not issued.
AnsweredOnce == /\ sent \cap heard = {}
                /\ \A r \in sent \cup heard : promise[r] # "none"

IssueNew(r) == promise[r] = "none" /\ Issue(r)

RequestStep == \/ \E r \in Requests : IssueNew(r)
               \/ TearDown
               \/ \E r \in Requests : Captured(r) \/ CaptureFails(r) \/ Timeout(r) \/ Answer(r)
               \/ UNCHANGED reqVars

LEMMA SetupIsRequest == ASSUME NEW c \in Conns, NEW k \in Steps PROVE <<c, k>> \in Requests
BY DEF Requests, Setup

\* Every step of the protocol is one of these for the table.
LEMMA StepsOfRequests ==
  ASSUME TypeOK, SetupFresh, [Next]_vars PROVE RequestStep
<1> USE DEF RequestStep
<1>1. ASSUME NEW c \in Conns, Continue(c) PROVE RequestStep
  <2>1. step[c] \in Steps
    BY DEF TypeOK
  <2>2. CASE promise[<<c, step[c]>>] = "resolved" /\ step[c] < 3
    <3>1. step[c] + 1 \in Steps
      BY <2>1, <2>2 DEF Steps
    <3>2. <<c, step[c] + 1>> \in Requests
      BY <3>1, SetupIsRequest
    <3>3. promise[<<c, step[c] + 1>>] = "none"
      <4>1. step[c] + 1 > step[c]
        BY <2>1 DEF Steps
      <4> QED  BY <3>1, <4>1 DEF SetupFresh, NotYet
    <3>4. Issue(<<c, step[c] + 1>>)
      BY <1>1, <2>1, <2>2 DEF Continue, Steps
    <3> QED  BY <3>2, <3>3, <3>4 DEF IssueNew
  <2>3. CASE ~(promise[<<c, step[c]>>] = "resolved" /\ step[c] < 3)
    BY <1>1, <2>3 DEF Continue
  <2> QED  BY <2>2, <2>3
<1>2. ASSUME NEW c \in Conns, conn[c] \in {"unused", "waiting"}, Begin(c) PROVE RequestStep
  <2>1. 1 \in Steps
    BY DEF Steps
  <2>2. <<c, 1>> \in Requests /\ promise[<<c, 1>>] = "none"
    BY <1>2, <2>1, SetupIsRequest DEF SetupFresh, NotYet
  <2> QED  BY <1>2, <2>2 DEF Begin, IssueNew
<1>3. ASSUME NEW c \in Conns, WaitOver(c) PROVE RequestStep
  BY <1>2, <1>3 DEF WaitOver
<1>4. ASSUME NEW c \in Conns, Connect(c) PROVE RequestStep
  BY <1>2, <1>4 DEF Connect, ConnectNoChannel, ConnectDirect, ConnectWait
<1>5. ASSUME NEW c \in Conns, WaitTimeout(c) PROVE RequestStep
  BY <1>5 DEF WaitTimeout
<1>6. ASSUME NEW r \in App, SendAndReceive(r) PROVE RequestStep
  BY <1>6 DEF SendAndReceive, IssueNew, Requests
<1>7. CASE Disconnect
  BY <1>7 DEF Disconnect
<1>8. CASE ChannelOpen \/ ChannelUp \/ ChannelForget
  BY <1>8 DEF ChannelOpen, ChannelUp, ChannelForget
<1>9. CASE ChannelLost \/ ChannelClose
  BY <1>9 DEF ChannelLost, ChannelClose, Notify, reqVars
<1>10. CASE UNCHANGED vars
  BY <1>10 DEF vars, reqVars
<1> QED
  BY <1>1, <1>3, <1>4, <1>5, <1>6, <1>7, <1>8, <1>9, <1>10 DEF Next, Event

LEMMA RequestTypesKept ==
  ASSUME RequestTypes, RequestStep PROVE RequestTypes'
<1>1. ASSUME NEW r \in Requests, IssueNew(r) PROVE RequestTypes'
  BY <1>1 DEF IssueNew, Issue, RequestTypes, Outcomes
<1>2. CASE TearDown
  BY <1>2 DEF TearDown, RequestTypes, Outcomes
<1>3. ASSUME NEW r \in Requests, Captured(r) PROVE RequestTypes'
  BY <1>3 DEF Captured, RequestTypes, Outcomes
<1>4. ASSUME NEW r \in Requests, CaptureFails(r) PROVE RequestTypes'
  BY <1>4 DEF CaptureFails, RequestTypes, Outcomes
<1>5. ASSUME NEW r \in Requests, Timeout(r) PROVE RequestTypes'
  BY <1>5 DEF Timeout, RequestTypes, Outcomes
<1>6. ASSUME NEW r \in Requests, Answer(r) PROVE RequestTypes'
  BY <1>6 DEF Answer, RequestTypes, Outcomes
<1>7. CASE UNCHANGED reqVars
  BY <1>7 DEF reqVars, RequestTypes
<1> QED  BY <1>1, <1>2, <1>3, <1>4, <1>5, <1>6, <1>7 DEF RequestStep

\* The request table stays consistent (sendAndReceive, receive, tearDown).
LEMMA TrackedKept ==
  ASSUME RequestTypes, PendingIsTracked, RequestStep PROVE PendingIsTracked'
<1> USE DEF RequestTypes, PendingIsTracked, Outcomes
<1>1. ASSUME NEW r \in Requests, IssueNew(r) PROVE PendingIsTracked'
  BY <1>1 DEF IssueNew, Issue
<1>2. CASE TearDown
  BY <1>2 DEF TearDown
<1>3. ASSUME NEW r \in Requests, Captured(r) PROVE PendingIsTracked'
  BY <1>3 DEF Captured
<1>4. ASSUME NEW r \in Requests, CaptureFails(r) PROVE PendingIsTracked'
  BY <1>4 DEF CaptureFails
<1>5. ASSUME NEW r \in Requests, Timeout(r) PROVE PendingIsTracked'
  BY <1>5 DEF Timeout
<1>6. ASSUME NEW r \in Requests, Answer(r) PROVE PendingIsTracked'
  BY <1>6 DEF Answer
<1>7. CASE UNCHANGED reqVars
  BY <1>7 DEF reqVars
<1> QED  BY <1>1, <1>2, <1>3, <1>4, <1>5, <1>6, <1>7 DEF RequestStep

LEMMA AnsweredOnceKept ==
  ASSUME RequestTypes, PendingIsTracked, AnsweredOnce, RequestStep PROVE AnsweredOnce'
<1> USE DEF RequestTypes, PendingIsTracked, Outcomes, AnsweredOnce
<1>1. ASSUME NEW r \in Requests, IssueNew(r) PROVE AnsweredOnce'
  BY <1>1 DEF IssueNew, Issue
<1>2. CASE TearDown
  BY <1>2 DEF TearDown
<1>3. ASSUME NEW r \in Requests, Captured(r) PROVE AnsweredOnce'
  BY <1>3 DEF Captured
<1>4. ASSUME NEW r \in Requests, CaptureFails(r) PROVE AnsweredOnce'
  BY <1>4 DEF CaptureFails
<1>5. ASSUME NEW r \in Requests, Timeout(r) PROVE AnsweredOnce'
  BY <1>5 DEF Timeout
<1>6. ASSUME NEW r \in Requests, Answer(r) PROVE AnsweredOnce'
  BY <1>6 DEF Answer
<1>7. CASE UNCHANGED reqVars
  BY <1>7 DEF reqVars
<1> QED  BY <1>1, <1>2, <1>3, <1>4, <1>5, <1>6, <1>7 DEF RequestStep

-----------------------------------------------------------------------------
(* The connects *)

\* What a step of the table does to a request: it is issued, or settled, or keeps
\* what its caller holds.
Moves(r) == \/ promise'[r] = promise[r]
            \/ promise[r] = "none" /\ promise'[r] = "pending"
            \/ promise[r] = "pending" /\ promise'[r] \in {"resolved", "rejected"}

LEMMA MovesOnly ==
  ASSUME RequestTypes, PendingIsTracked, RequestStep, NEW q \in Requests PROVE Moves(q)
<1> USE DEF RequestTypes, PendingIsTracked, Outcomes, Moves
<1>1. ASSUME NEW r \in Requests, IssueNew(r) PROVE Moves(q)
  BY <1>1 DEF IssueNew, Issue
<1>2. CASE TearDown
  BY <1>2 DEF TearDown
<1>3. ASSUME NEW r \in Requests, Captured(r) PROVE Moves(q)
  BY <1>3 DEF Captured
<1>4. ASSUME NEW r \in Requests, CaptureFails(r) PROVE Moves(q)
  BY <1>4 DEF CaptureFails
<1>5. ASSUME NEW r \in Requests, Timeout(r) PROVE Moves(q)
  BY <1>5 DEF Timeout
<1>6. ASSUME NEW r \in Requests, Answer(r) PROVE Moves(q)
  BY <1>6 DEF Answer
<1>7. CASE UNCHANGED reqVars
  BY <1>7 DEF reqVars
<1> QED  BY <1>1, <1>2, <1>3, <1>4, <1>5, <1>6, <1>7 DEF RequestStep

LEMMA ConnTypesKept ==
  ASSUME TypeOK, [Next]_vars PROVE ConnTypes'
<1> USE DEF TypeOK, ConnTypes, ChannelStates, States, ConnStates, Steps, chanVars, connVars
<1>1. ASSUME NEW c \in Conns, Continue(c) PROVE ConnTypes'
  BY <1>1 DEF Continue
<1>2. ASSUME NEW c \in Conns, WaitOver(c) PROVE ConnTypes'
  BY <1>2 DEF WaitOver, Begin
<1>3. ASSUME NEW c \in Conns, Connect(c) PROVE ConnTypes'
  BY <1>3 DEF Connect, ConnectNoChannel, ConnectDirect, ConnectWait, Begin
<1>4. ASSUME NEW c \in Conns, WaitTimeout(c) PROVE ConnTypes'
  BY <1>4 DEF WaitTimeout
<1>5. ASSUME NEW r \in App, SendAndReceive(r) PROVE ConnTypes'
  BY <1>5 DEF SendAndReceive
<1>6. ASSUME NEW r \in Requests, Captured(r) \/ CaptureFails(r) \/ Timeout(r) \/ Answer(r)
      PROVE ConnTypes'
  BY <1>6 DEF Captured, CaptureFails, Timeout, Answer
<1>7. CASE Disconnect
  BY <1>7 DEF Disconnect
<1>8. CASE ChannelOpen \/ ChannelUp \/ ChannelForget
  BY <1>8 DEF ChannelOpen, ChannelUp, ChannelForget
<1>9. CASE ChannelLost \/ ChannelClose
  BY <1>9 DEF ChannelLost, ChannelClose, Notify
<1>10. CASE UNCHANGED vars
  BY <1>10 DEF vars
<1> QED
  BY <1>1, <1>2, <1>3, <1>4, <1>5, <1>6, <1>7, <1>8, <1>9, <1>10 DEF Next, Event

\* A request that is not the one a step issues stays unissued.
LEMMA UnissuedStays ==
  ASSUME RequestTypes, PendingIsTracked, NEW q \in Requests, promise[q] = "none",
         \/ \E r \in Requests \ {q} : Issue(r)
         \/ TearDown
         \/ \E r \in Requests : Captured(r) \/ CaptureFails(r) \/ Timeout(r) \/ Answer(r)
         \/ UNCHANGED reqVars
  PROVE  promise'[q] = "none"
<1> USE DEF RequestTypes, PendingIsTracked
<1>1. ASSUME NEW r \in Requests \ {q}, Issue(r) PROVE promise'[q] = "none"
  BY <1>1 DEF Issue
<1>2. CASE TearDown
  BY <1>2 DEF TearDown
<1>3. ASSUME NEW r \in Requests, Captured(r) \/ CaptureFails(r) \/ Timeout(r) \/ Answer(r)
      PROVE promise'[q] = "none"
  BY <1>3 DEF Captured, CaptureFails, Timeout, Answer
<1>4. CASE UNCHANGED reqVars
  BY <1>4 DEF reqVars
<1> QED  BY <1>1, <1>2, <1>3, <1>4

\* No request of connect() is issued before its turn (connect, _setup).
LEMMA SetupFreshKept ==
  ASSUME AppAssumption, TypeOK, PendingIsTracked, SetupFresh, [Next]_vars
  PROVE  SetupFresh'
<1> SUFFICES ASSUME NEW c \in Conns, NEW k \in Steps, NotYet(c, k)'
             PROVE  promise'[<<c, k>>] = "none"
  BY DEF SetupFresh
<1> DEFINE q == <<c, k>>
<1>a. q \in Requests /\ q \notin App
  BY SetupIsRequest, AppAssumption DEF Setup
<1>b. RequestTypes
  BY TypesTogether
<1> USE DEF NotYet
<1>1. ASSUME NEW d \in Conns, Continue(d) PROVE promise'[q] = "none"
  <2>1. step[d] \in Nat /\ step[c] \in Nat /\ k \in Nat
    BY DEF TypeOK, Steps
  <2>2. CASE promise[<<d, step[d]>>] = "resolved" /\ step[d] < 3
    <3>1. /\ step' = [step EXCEPT ![d] = @ + 1] /\ conn' = conn /\ conn[d] = "running"
          /\ Issue(<<d, step[d] + 1>>)
      BY <1>1, <2>1, <2>2 DEF Continue
    <3>2. NotYet(c, k) /\ <<d, step[d] + 1>> # q
      BY <2>1, <3>1 DEF TypeOK
    <3>3. <<d, step[d] + 1>> \in Requests
      <4>1. step[d] + 1 \in Steps
        BY <2>2 DEF Steps, TypeOK
      <4> QED  BY <4>1, SetupIsRequest
    <3> QED  BY <1>a, <1>b, <3>1, <3>2, <3>3, UnissuedStays DEF SetupFresh
  <2>3. CASE ~(promise[<<d, step[d]>>] = "resolved" /\ step[d] < 3)
    <3>1. NotYet(c, k) /\ UNCHANGED reqVars
      BY <1>1, <2>3 DEF Continue, TypeOK
    <3> QED  BY <1>a, <1>b, <3>1, UnissuedStays DEF SetupFresh
  <2> QED  BY <2>2, <2>3
<1>2. ASSUME NEW d \in Conns, conn[d] \in {"unused", "waiting"}, Begin(d)
      PROVE promise'[q] = "none"
  <2>1. step' = step /\ conn' = [conn EXCEPT ![d] = "running"] /\ Issue(<<d, 1>>)
    BY <1>2 DEF Begin
  <2>2. NotYet(c, k) /\ <<d, 1>> # q
    BY <1>2, <2>1 DEF TypeOK, Steps
  <2>3. <<d, 1>> \in Requests
    <3>1. 1 \in Steps
      BY DEF Steps
    <3> QED  BY <3>1, SetupIsRequest
  <2> QED  BY <1>a, <1>b, <2>1, <2>2, <2>3, UnissuedStays DEF SetupFresh
<1>3. ASSUME NEW d \in Conns, WaitOver(d) PROVE promise'[q] = "none"
  BY <1>2, <1>3 DEF WaitOver
<1>4. ASSUME NEW d \in Conns, Connect(d) PROVE promise'[q] = "none"
  <2>1. CASE ConnectDirect(d)
    BY <1>2, <2>1 DEF ConnectDirect
  <2>2. CASE ConnectNoChannel(d) \/ ConnectWait(d)
    <3>1. NotYet(c, k) /\ UNCHANGED reqVars
      BY <2>2 DEF ConnectNoChannel, ConnectWait, TypeOK
    <3> QED  BY <1>a, <1>b, <3>1, UnissuedStays DEF SetupFresh
  <2> QED  BY <1>4, <2>1, <2>2 DEF Connect
<1>5. ASSUME NEW d \in Conns, WaitTimeout(d) PROVE promise'[q] = "none"
  <2>1. NotYet(c, k) /\ UNCHANGED reqVars
    BY <1>5 DEF WaitTimeout, TypeOK
  <2> QED  BY <1>a, <1>b, <2>1, UnissuedStays DEF SetupFresh
<1>6. ASSUME NEW r \in App, SendAndReceive(r) PROVE promise'[q] = "none"
  <2>1. NotYet(c, k) /\ Issue(r) /\ r \in Requests \ {q}
    BY <1>a, <1>6 DEF SendAndReceive, connVars, Requests
  <2> QED  BY <1>a, <1>b, <2>1, UnissuedStays DEF SetupFresh
<1>7. ASSUME NEW r \in Requests, Captured(r) \/ CaptureFails(r) \/ Timeout(r) \/ Answer(r)
      PROVE promise'[q] = "none"
  <2>1. NotYet(c, k)
    BY <1>7 DEF Captured, CaptureFails, Timeout, Answer, connVars
  <2> QED  BY <1>a, <1>b, <1>7, <2>1, UnissuedStays DEF SetupFresh
<1>8. CASE Disconnect \/ ChannelLost \/ ChannelClose
  <2>1. NotYet(c, k) /\ (TearDown \/ UNCHANGED reqVars)
    BY <1>8 DEF Disconnect, ChannelLost, ChannelClose, Notify, connVars, reqVars
  <2> QED  BY <1>a, <1>b, <2>1, UnissuedStays DEF SetupFresh
<1>9. CASE ChannelOpen \/ ChannelUp \/ ChannelForget \/ UNCHANGED vars
  <2>1. NotYet(c, k) /\ UNCHANGED reqVars
    BY <1>9 DEF ChannelOpen, ChannelUp, ChannelForget, connVars, vars, reqVars
  <2> QED  BY <1>a, <1>b, <2>1, UnissuedStays DEF SetupFresh
<1> QED
  BY <1>1, <1>3, <1>4, <1>5, <1>6, <1>7, <1>8, <1>9 DEF Next, Event

-----------------------------------------------------------------------------
(* The table, from the initial state on *)

TableInv == TypeOK /\ PendingIsTracked /\ SetupFresh /\ AnsweredOnce

LEMMA TableInvHolds == Spec => []TableInv
<1>1. Init => TableInv
  BY DEF Init, TableInv, TypeOK, PendingIsTracked, SetupFresh, AnsweredOnce, ChannelStates,
         States, ConnStates, Steps, Requests, Setup
<1>2. TableInv /\ [Next]_vars => TableInv'
  <2> SUFFICES ASSUME TableInv, [Next]_vars PROVE TableInv'
    OBVIOUS
  <2>1. TypeOK /\ RequestTypes /\ PendingIsTracked /\ SetupFresh /\ AnsweredOnce
    BY TypesTogether DEF TableInv
  <2>2. RequestStep
    BY <2>1, StepsOfRequests
  <2>3. RequestTypes' /\ ConnTypes'
    BY <2>1, <2>2, RequestTypesKept, ConnTypesKept
  <2>4. TypeOK'
    BY <2>3 DEF TypeOK, RequestTypes, ConnTypes, Outcomes
  <2>5. PendingIsTracked'
    BY <2>1, <2>2, TrackedKept
  <2>6. AnsweredOnce'
    BY <2>1, <2>2, AnsweredOnceKept
  <2>7. SetupFresh'
    BY <2>1, AppAssumption, SetupFreshKept
  <2> QED  BY <2>4, <2>5, <2>6, <2>7 DEF TableInv
<1> QED  BY <1>1, <1>2, PTL DEF Spec

\* Every variable of the protocol keeps its type, for any number of calls.
THEOREM TypeCorrect == Spec => []TypeOK
BY TableInvHolds, PTL DEF TableInv

\* A request in flight is captured or registered and has its timer exactly when it
\* is registered, over any number of calls, losses and disconnects (receive, tearDown).
THEOREM PendingTracked == Spec => []PendingIsTracked
BY TableInvHolds, PTL DEF TableInv

-----------------------------------------------------------------------------
(* Readiness *)

\* Whoever hears the channel, before it is lost, also watches it.
WatchedWhileHeard ==
  channel \notin {"disconnected", "closed"} /\ listeners # {} => watchers # {}

\* A connect() is about to go on only because the device was heard just now.
AnsweredIsHeard ==
  \A c \in Conns : conn[c] = "running" /\ promise[<<c, step[c]>>] = "resolved" =>
                     channel = "connected" /\ listeners # {}

Attached == WatchedWhileHeard /\ AnsweredIsHeard /\ ReadyIsAttached

\* Nothing is answered while no request is being answered.
NoAnswer == \A q \in Requests : promise'[q] = "resolved" => promise[q] = "resolved"

LEMMA OnlyAnswersResolve ==
  ASSUME RequestTypes, PendingIsTracked,
         \/ \E r \in Requests : Issue(r)
         \/ TearDown
         \/ \E r \in Requests : Captured(r) \/ CaptureFails(r) \/ Timeout(r)
         \/ UNCHANGED reqVars
  PROVE  NoAnswer
<1> USE DEF RequestTypes, NoAnswer
<1>1. ASSUME NEW r \in Requests, Issue(r) PROVE NoAnswer
  BY <1>1 DEF Issue
<1>2. CASE TearDown
  BY <1>2 DEF TearDown
<1>3. ASSUME NEW r \in Requests, Captured(r) \/ CaptureFails(r) \/ Timeout(r) PROVE NoAnswer
  BY <1>3 DEF Captured, CaptureFails, Timeout
<1>4. CASE UNCHANGED reqVars
  BY <1>4 DEF reqVars
<1> QED  BY <1>1, <1>2, <1>3, <1>4

\* An event finds no connect() about to go on.
LEMMA EventFindsNone ==
  ASSUME Quiet, NEW c \in Conns, conn[c] = "running"
  PROVE  promise[<<c, step[c]>>] # "resolved"
BY DEF Quiet, Runnable

\* So unless it answers or starts a connect(), none is about to go on after it.
LEMMA AnsweredIsHeardByEvent ==
  ASSUME TypeOK, Quiet, NoAnswer, step' = step,
         \A c \in Conns : conn'[c] = "running" => conn[c] = "running"
  PROVE  AnsweredIsHeard'
<1> SUFFICES ASSUME NEW c \in Conns, conn'[c] = "running",
                    promise'[<<c, step'[c]>>] = "resolved"
             PROVE  FALSE
  BY DEF AnsweredIsHeard
<1>1. step[c] \in Steps /\ step'[c] = step[c] /\ conn[c] = "running"
  BY DEF TypeOK
<1>2. <<c, step[c]>> \in Requests
  BY <1>1, SetupIsRequest
<1>3. promise[<<c, step[c]>>] = "resolved"
  BY <1>1, <1>2 DEF NoAnswer
<1> QED  BY <1>1, <1>3, EventFindsNone

\* A connect() that begins waits for the answer to its first message.
LEMMA AttachedByBegin ==
  ASSUME TypeOK, PendingIsTracked, Attached, NEW c \in Conns, conn[c] \in {"unused", "waiting"},
         channel = "connected", Begin(c), state' \in {state, "connecting"}
  PROVE  Attached'
<1>1. /\ channel' = channel /\ step' = step /\ Issue(<<c, 1>>)
      /\ listeners' = listeners \cup {c} /\ watchers' = watchers \cup {c}
      /\ conn' = [conn EXCEPT ![c] = "running"]
  BY DEF Begin
<1>2. AnsweredIsHeard'
  BY <1>1 DEF AnsweredIsHeard
<1> QED  BY <1>1, <1>2 DEF Attached, WatchedWhileHeard, ReadyIsAttached

\* Hearing and watching survive every step that leaves the channel alone.
LEMMA AttachedAside ==
  ASSUME Attached, AnsweredIsHeard', UNCHANGED chanVars, state' \in {state, "failed", "connecting"}
  PROVE  Attached'
BY DEF Attached, WatchedWhileHeard, ReadyIsAttached, chanVars

LEMMA AttachedKept ==
  ASSUME TableInv, Attached, [Next]_vars PROVE Attached'
<1>a. TypeOK /\ RequestTypes /\ PendingIsTracked /\ WatchedWhileHeard /\ AnsweredIsHeard
      /\ ReadyIsAttached
  BY TypesTogether DEF TableInv, Attached
<1>1. ASSUME NEW c \in Conns, Continue(c) PROVE Attached'
  <2>a. step[c] \in Nat /\ UNCHANGED chanVars
    BY <1>a, <1>1 DEF TypeOK, Steps, Continue
  <2>1. CASE promise[<<c, step[c]>>] = "resolved" /\ step[c] < 3
    <3>1. /\ step' = [step EXCEPT ![c] = @ + 1] /\ conn' = conn /\ state' = state
          /\ Issue(<<c, step[c] + 1>>) /\ conn[c] = "running"
      BY <1>1, <2>a, <2>1 DEF Continue
    <3>2. AnsweredIsHeard'
      BY <1>a, <2>a, <2>1, <3>1 DEF AnsweredIsHeard, chanVars
    <3> QED  BY <2>a, <3>1, <3>2, AttachedAside
  <2>2. CASE ~(promise[<<c, step[c]>>] = "resolved" /\ step[c] < 3)
    <3>1. /\ UNCHANGED <<step, reqVars>> /\ conn' \in [Conns -> ConnStates]
          /\ \A d \in Conns : conn'[d] = "running" => conn[d] = "running"
      BY <1>a, <1>1, <2>2 DEF Continue, TypeOK, ConnStates
    <3>2. AnsweredIsHeard'
      BY <1>a, <2>a, <3>1 DEF AnsweredIsHeard, chanVars, reqVars
    <3>3. state' = "ready" => channel = "connected" /\ listeners # {} /\ watchers # {}
      BY <1>a, <1>1 DEF Continue, ReadyIsAttached, AnsweredIsHeard, WatchedWhileHeard
    <3> QED  BY <1>a, <2>a, <3>2, <3>3 DEF Attached, WatchedWhileHeard, ReadyIsAttached, chanVars
  <2> QED  BY <2>1, <2>2
<1>2. ASSUME NEW c \in Conns, WaitOver(c) PROVE Attached'
  BY <1>a, <1>2, AttachedByBegin DEF WaitOver
<1>3. ASSUME Quiet, NEW c \in Conns, Connect(c) PROVE Attached'
  <2>1. CASE ConnectDirect(c)
    BY <1>a, <2>1, AttachedByBegin DEF ConnectDirect
  <2>2. CASE ConnectNoChannel(c) \/ ConnectWait(c)
    <3>1. /\ UNCHANGED <<chanVars, step, reqVars>> /\ state' \in {"failed", "connecting"}
          /\ \A d \in Conns : conn'[d] = "running" => conn[d] = "running"
      BY <1>a, <2>2 DEF ConnectNoChannel, ConnectWait, TypeOK
    <3>2. AnsweredIsHeard'
      BY <1>a, <1>3, <3>1, OnlyAnswersResolve, AnsweredIsHeardByEvent
    <3> QED  BY <3>1, <3>2, AttachedAside
  <2> QED  BY <1>3, <2>1, <2>2 DEF Connect
<1>4. ASSUME Quiet, NEW c \in Conns, WaitTimeout(c) PROVE Attached'
  <2>1. /\ UNCHANGED <<chanVars, state, step, reqVars>>
        /\ \A d \in Conns : conn'[d] = "running" => conn[d] = "running"
    BY <1>a, <1>4 DEF WaitTimeout, TypeOK
  <2>2. AnsweredIsHeard'
    BY <1>a, <1>4, <2>1, OnlyAnswersResolve, AnsweredIsHeardByEvent
  <2> QED  BY <2>1, <2>2, AttachedAside
<1>5. ASSUME Quiet, UNCHANGED <<chanVars, state, connVars>>,
             \/ \E r \in Requests : Issue(r)
             \/ \E r \in Requests : Captured(r) \/ CaptureFails(r) \/ Timeout(r)
             \/ UNCHANGED reqVars
      PROVE Attached'
  <2>1. UNCHANGED <<state, step, conn>>
    BY <1>5 DEF connVars
  <2>2. AnsweredIsHeard'
    BY <1>a, <1>5, <2>1, OnlyAnswersResolve, AnsweredIsHeardByEvent
  <2> QED  BY <1>5, <2>1, <2>2, AttachedAside
<1>6. ASSUME NEW r \in Requests, Answer(r) PROVE Attached'
  BY <1>a, <1>6 DEF Answer, Attached, WatchedWhileHeard, AnsweredIsHeard, ReadyIsAttached,
                    chanVars, connVars
<1>7. ASSUME Quiet, TearDown \/ UNCHANGED reqVars, UNCHANGED connVars,
             WatchedWhileHeard', ReadyIsAttached'
      PROVE Attached'
  <2>1. UNCHANGED <<step, conn>>
    BY <1>7 DEF connVars
  <2>2. AnsweredIsHeard'
    BY <1>a, <1>7, <2>1, OnlyAnswersResolve, AnsweredIsHeardByEvent
  <2> QED  BY <1>7, <2>2 DEF Attached
<1>8. ASSUME Quiet, Disconnect PROVE Attached'
  BY <1>a, <1>7, <1>8 DEF Disconnect, WatchedWhileHeard, ReadyIsAttached
<1>9. ASSUME Quiet, ChannelLost \/ ChannelClose PROVE Attached'
  <2>1. channel' = "disconnected" /\ state' # "ready"
    BY <1>a, <1>9 DEF ChannelLost, ChannelClose, Notify, ReadyIsAttached
  <2>2. (TearDown \/ UNCHANGED reqVars) /\ UNCHANGED connVars
    BY <1>9 DEF ChannelLost, ChannelClose, Notify, reqVars
  <2> QED  BY <1>7, <1>9, <2>1, <2>2 DEF WatchedWhileHeard, ReadyIsAttached
<1>10. ASSUME Quiet, ChannelOpen \/ ChannelUp \/ ChannelForget PROVE Attached'
  BY <1>a, <1>7, <1>10 DEF ChannelOpen, ChannelUp, ChannelForget, WatchedWhileHeard,
                          ReadyIsAttached
<1>11. CASE UNCHANGED vars
  BY <1>a, <1>11 DEF vars, Attached, WatchedWhileHeard, AnsweredIsHeard, ReadyIsAttached
<1>12. ASSUME Quiet, Event PROVE Attached'
  <2>1. ASSUME NEW r \in App, SendAndReceive(r) PROVE Attached'
    BY <1>5, <1>12, <2>1 DEF SendAndReceive, Requests
  <2>2. ASSUME NEW r \in Requests, Captured(r) \/ CaptureFails(r) \/ Timeout(r)
        PROVE Attached'
    <3>1. UNCHANGED <<chanVars, state, connVars>>
      BY <2>2 DEF Captured, CaptureFails, Timeout
    <3> QED  BY <1>5, <1>12, <2>2, <3>1
  <2> QED  BY <1>3, <1>4, <1>6, <1>8, <1>9, <1>10, <1>12, <2>1, <2>2 DEF Event
<1> QED  BY <1>1, <1>2, <1>11, <1>12 DEF Next

\* A ready protocol hears the device and notices the loss of the channel, for any
\* number of connects, disconnects and requests (connect, disconnect, tearDown).
THEOREM ReadyAttached == Spec => []ReadyIsAttached
<1>1. Init => Attached
  BY DEF Init, Attached, WatchedWhileHeard, AnsweredIsHeard, ReadyIsAttached
<1>2. TableInv /\ Attached /\ [Next]_vars => Attached'
  BY AttachedKept
<1>3. Attached => ReadyIsAttached
  BY DEF Attached
<1> QED  BY <1>1, <1>2, <1>3, TableInvHolds, PTL DEF Spec

-----------------------------------------------------------------------------
(* Refinement *)

\* What a step of the table is to RequestTable.
LEMMA RequestsRefine ==
  ASSUME TableInv, RequestStep PROVE [Table!Next]_(Table!vars)
<1>a. RequestTypes /\ PendingIsTracked /\ AnsweredOnce
  BY TypesTogether DEF TableInv
<1> USE DEF RequestTypes, PendingIsTracked, AnsweredOnce, Outcomes
<1>1. ASSUME NEW r \in Requests, IssueNew(r) PROVE Table!Issue(r)
  BY <1>1 DEF IssueNew, Issue, Table!Issue
<1>2. ASSUME NEW S \in SUBSET Requests, \A r \in S : promise[r] = "pending", heard' = heard,
             promise' = [r \in Requests |-> IF r \in S THEN "rejected" ELSE promise[r]]
      PROVE Table!Next
  <2>1. Table!Fail(S)
    BY <1>2 DEF Table!Fail
  <2> QED  BY <2>1 DEF Table!Next
<1>3. CASE TearDown
  BY <1>a, <1>2, <1>3 DEF TearDown
<1>4. ASSUME NEW r \in Requests, CaptureFails(r) \/ Timeout(r) PROVE Table!Next
  <2>1. promise' = [q \in Requests |-> IF q \in {r} THEN "rejected" ELSE promise[q]]
    BY <1>a, <1>4 DEF CaptureFails, Timeout
  <2>2. promise[r] = "pending" /\ heard' = heard
    BY <1>a, <1>4 DEF CaptureFails, Timeout
  <2>3. {r} \in SUBSET Requests /\ \A q \in {r} : promise[q] = "pending"
    BY <2>2
  <2> HIDE DEF RequestTypes, PendingIsTracked, AnsweredOnce
  <2> QED  BY <1>2, <2>1, <2>2, <2>3
<1>5. ASSUME NEW r \in Requests, Captured(r) PROVE UNCHANGED Table!vars
  BY <1>5 DEF Captured, Table!vars
<1>6. ASSUME NEW r \in Requests, Answer(r) PROVE [Table!Next]_(Table!vars)
  <2>1. promise[r] # "none" /\ r \notin heard
    BY <1>a, <1>6 DEF Answer
  <2>2. CASE r \in outstanding
    <3>1. Table!Reply(r)
      BY <1>a, <1>6, <2>1, <2>2 DEF Answer, Table!Reply
    <3> QED  BY <3>1 DEF Table!Next
  <2>3. CASE r \in capturing
    BY <1>a, <1>6, <2>3 DEF Answer, Table!vars
  <2>4. CASE r \notin outstanding /\ r \notin capturing
    <3>1. Table!Reply(r)
      BY <1>a, <1>6, <2>1, <2>4 DEF Answer, Table!Reply
    <3> QED  BY <3>1 DEF Table!Next
  <2> QED  BY <2>2, <2>3, <2>4
<1>7. CASE UNCHANGED reqVars
  BY <1>7 DEF reqVars, Table!vars
<1> QED  BY <1>1, <1>3, <1>4, <1>5, <1>6, <1>7 DEF RequestStep, Table!Next

\* Requests of connect() and of the application keep the promise of RequestTable for
\* the answers that find them registered: each is settled once, and only by its own
\* answer, its timeout, its capture or the end (sendAndReceive, receive, tearDown).
THEOREM RequestsImplemented == Spec => ImplementsTable
<1>1. Init => Table!Init
  BY DEF Init, Table!Init
<1>2. TableInv /\ [Next]_vars => [Table!Next]_(Table!vars)
  BY StepsOfRequests, RequestsRefine DEF TableInv
<1> QED  BY <1>1, <1>2, TableInvHolds, PTL DEF Spec, ImplementsTable, Table!Spec

-----------------------------------------------------------------------------
(* MRPPlayerState *)

\* The players maps are functions over all bundle identifiers.
PlayersMaps == players = [b \in Bundles |-> players[b]]

\* What every player of every client is like: its timed states in order, and
\* its current item announced.
Newest(p) ==
  /\ p.state # 0 => p.state \in p.fresh /\ \A t \in p.fresh : t <= p.state
  /\ p.seen # {} => p.time \in p.seen /\ \A t \in p.seen : t <= p.time
  /\ p.time # 0 => p.time \in p.seen
  /\ p.fresh \subseteq p.seen

Announced(p) == p.last.id = currentItem(p).id

GoodPlayer(p) == p \in PlayerStates /\ Newest(p) /\ Announced(p)

PlayersInv ==
  \A b \in Bundles : /\ DOMAIN players[b] \subseteq Keys
                     /\ \A k \in DOMAIN players[b] : GoodPlayer(players[b][k])

\* A player that was just made shows nothing and has announced nothing.
LEMMA NewPlayerGood == GoodPlayer(NewPlayer)
<1>1. NewPlayer \in PlayerStates
  BY DEF NewPlayer, PlayerStates, NoItem
<1> QED  BY <1>1
            DEF GoodPlayer, NewPlayer, Newest, Announced, currentItem,
                NoItem

\* getOrCreatePlayer
LEMMA PlayerOfGood ==
  ASSUME PlayersInv, NEW b \in Bundles, NEW k
  PROVE  GoodPlayer(playerOf(b, k))
BY NewPlayerGood DEF PlayersInv, playerOf

\* What putting a player into the map of a client changes.
LEMMA WithPlayerEffect ==
  ASSUME PlayersMaps, NEW b \in Bundles, NEW k, NEW p, players' = withPlayer(b, k, p)
  PROVE  /\ PlayersMaps'
         /\ \A c \in Bundles : c # b => players'[c] = players[c]
         /\ DOMAIN players'[b] = DOMAIN players[b] \cup {k}
         /\ players'[b][k] = p
         /\ \A j \in DOMAIN players[b] \ {k} : players'[b][j] = players[b][j]
<1> DEFINE q == [j \in DOMAIN players[b] \cup {k} |-> IF j = k THEN p ELSE players[b][j]]
<1>1. players' = [players EXCEPT ![b] = q]
  BY DEF withPlayer
<1>2. /\ PlayersMaps'
      /\ \A c \in Bundles : c # b => players'[c] = players[c]
      /\ players'[b] = q
  <2>1. players' = [c \in Bundles |-> IF c = b THEN q ELSE players[c]]
    BY <1>1 DEF PlayersMaps
  <2> HIDE DEF q
  <2> QED  BY <2>1 DEF PlayersMaps
<1> QED  BY <1>2

\* A handler that replaces one good player by another keeps all of them good.
LEMMA WithPlayerKeeps ==
  ASSUME PlayersMaps, PlayersInv, NEW b \in Bundles, NEW k \in Keys, NEW p,
         GoodPlayer(p),
         players' = withPlayer(b, k, p)
  PROVE  PlayersMaps' /\ PlayersInv'
<1>1. /\ PlayersMaps'
      /\ \A c \in Bundles : c # b => players'[c] = players[c]
      /\ DOMAIN players'[b] = DOMAIN players[b] \cup {k}
      /\ players'[b][k] = p
      /\ \A j \in DOMAIN players[b] \ {k} : players'[b][j] = players[b][j]
  BY WithPlayerEffect
<1>2. ASSUME NEW c \in Bundles PROVE DOMAIN players'[c] \subseteq Keys
  BY <1>1, <1>2 DEF PlayersInv
<1>3. ASSUME NEW c \in Bundles, NEW j \in DOMAIN players'[c] PROVE GoodPlayer(players'[c][j])
  BY <1>1, <1>3 DEF PlayersInv
<1> QED  BY <1>1, <1>2, <1>3
            DEF PlayersInv, GoodPlayer, Newest, Announced, currentItem,
                PlayerStates, Items, NoItem, Keys, NoId

\* What the queue shows is an item or nothing.
LEMMA CurrentItemType ==
  ASSUME NEW p \in PlayerStates
  PROVE  currentItem(p) \in Items \cup {NoItem}
BY DEF PlayerStates, currentItem

\* emitIfItemChanged leaves a player whose current item is announced.
LEMMA AnnouncedEffect ==
  ASSUME NEW p \in PlayerStates
  PROVE  /\ announced(p) \in PlayerStates
         /\ Announced(announced(p))
         /\ announced(p).bound = p.bound
         /\ announced(p).time = p.time /\ announced(p).state = p.state
         /\ announced(p).seen = p.seen /\ announced(p).fresh = p.fresh
         /\ \/ announced(p).last = p.last
            \/ /\ announced(p).last = currentItem(p)
               /\ currentItem(p).id # p.last.id
<1> DEFINE i == currentItem(p)
<1>1. i \in Items \cup {NoItem}
  BY CurrentItemType
<1>2. announced(p) = [p EXCEPT !.last = IF i.id = p.last.id THEN p.last ELSE i]
  BY DEF announced
<1>3. currentItem(announced(p)) = i
  BY <1>2 DEF currentItem, PlayerStates
<1> HIDE DEF i
<1>4. announced(p) \in PlayerStates
  BY <1>1, <1>2 DEF PlayerStates
<1>5. announced(p).last = IF i.id = p.last.id THEN p.last ELSE i
  BY <1>2 DEF PlayerStates
<1>6. Announced(announced(p))
  BY <1>3, <1>5 DEF Announced
<1>7. /\ announced(p).bound = p.bound
      /\ announced(p).seen = p.seen /\ announced(p).fresh = p.fresh
      /\ announced(p).time = p.time /\ announced(p).state = p.state
  BY <1>2 DEF PlayerStates
<1> QED  BY <1>4, <1>5, <1>6, <1>7 DEF i

\* What a message adds to the history of a player.
LEMMA ToldEffect ==
  ASSUME NEW p \in PlayerStates, NEW time \in Times \cup {0}, NEW plays \in BOOLEAN
  PROVE  LET q == told(p, time, plays) IN
         /\ q \in PlayerStates /\ q.bound
         /\ q.time = p.time /\ q.state = p.state /\ q.seen = p.seen \cup ({time} \ {0})
         /\ q.fresh = IF plays /\ isFresh(p, time) THEN p.fresh \cup {time} ELSE p.fresh
         /\ q.last = p.last /\ q.items = p.items /\ q.location = p.location
<1> DEFINE q == told(p, time, plays)
           s == p.seen \cup ({time} \ {0})
           f == IF plays /\ isFresh(p, time) THEN p.fresh \cup {time} ELSE p.fresh
<1>1. q = [p EXCEPT !.bound = TRUE, !.seen = s, !.fresh = f]
  BY DEF told
<1>2. s \in SUBSET Times /\ f \in SUBSET Times
  BY DEF PlayerStates, isFresh
<1> HIDE DEF s, f, q
<1>3. /\ q \in PlayerStates /\ q.bound /\ q.seen = s /\ q.fresh = f
      /\ q.time = p.time /\ q.state = p.state
      /\ q.last = p.last /\ q.items = p.items /\ q.location = p.location
  BY <1>1, <1>2 DEF PlayerStates
<1> QED  BY <1>3 DEF s, f, q

\* The order of time stamps when a message is late, and when it is applied.
LEMMA LateKeepsOrder ==
  ASSUME NEW seen \in SUBSET Nat, NEW time \in Nat, NEW last \in seen, time < last
  PROVE  ~\A t \in seen : t <= time
OBVIOUS

\* SET_STATE
LEMMA AppliedGood ==
  ASSUME NEW p, GoodPlayer(p), NEW time \in Times \cup {0}, NEW plays \in BOOLEAN,
         NEW queue \in Queues \cup {None}, NEW location \in Nat
  PROVE  GoodPlayer(applied(told(p, time, plays), time, plays, queue, location))
<1> DEFINE q == told(p, time, plays)
           r == [q EXCEPT !.state = IF plays THEN time ELSE @,
                          !.time = IF time = 0 THEN @ ELSE time,
                          !.items = IF queue = None THEN @ ELSE queue,
                          !.location = IF queue = None THEN @ ELSE location]
<1>a. /\ p \in PlayerStates /\ Newest(p) /\ Announced(p)
      /\ p.time \in Times \cup {0} /\ p.state \in Times \cup {0}
      /\ p.seen \subseteq Times /\ p.fresh \subseteq Times
  BY DEF GoodPlayer, PlayerStates
<1>b. ASSUME NEW t \in Times \cup {0} PROVE t \in Nat
  BY TimeAssumption
<1>c. ASSUME NEW S, S \subseteq Times PROVE S \subseteq Nat \ {0}
  BY <1>c, TimeAssumption
<1>1. /\ p \in PlayerStates /\ Newest(p) /\ Announced(p)
      /\ p.time \in Nat /\ p.state \in Nat /\ time \in Nat
      /\ p.seen \subseteq Nat \ {0} /\ p.fresh \subseteq Nat \ {0}
  BY <1>a, <1>b, <1>c
<1>2. /\ q \in PlayerStates /\ q.bound
      /\ q.time = p.time /\ q.state = p.state /\ q.seen = p.seen \cup ({time} \ {0})
      /\ q.fresh = IF plays /\ isFresh(p, time) THEN p.fresh \cup {time} ELSE p.fresh
      /\ q.last = p.last /\ q.items = p.items /\ q.location = p.location
  BY <1>1, ToldEffect
<1> HIDE DEF q
<1>3. CASE ~shouldApply(q, time)
  <2>1. time # 0 /\ p.time # 0 /\ time < p.time
    BY <1>1, <1>2, <1>3 DEF shouldApply
  <2>2. p.time \in p.seen
    BY <1>1, <2>1 DEF Newest
  <2>3. q.fresh = p.fresh
    BY <1>1, <1>2, <2>1, <2>2, LateKeepsOrder DEF isFresh
  <2>4. Newest(q)
    BY <1>1, <1>2, <2>1, <2>2, <2>3 DEF Newest
  <2>5. Announced(q)
    BY <1>1, <1>2 DEF Announced, currentItem
  <2> QED  BY <1>2, <1>3, <2>4, <2>5 DEF applied, GoodPlayer, q
<1>4. CASE shouldApply(q, time)
  <2>1. /\ r \in PlayerStates
        /\ r.state = (IF plays THEN time ELSE p.state)
        /\ r.seen = q.seen /\ r.fresh = q.fresh
        /\ r.time = IF time = 0 THEN p.time ELSE time
    BY <1>1, <1>2, QueueAssumption DEF PlayerStates
  <2> HIDE DEF r
  <2>2. Newest(r)
    <3>1. CASE time = 0
      <4>1. r.seen = p.seen /\ r.fresh = p.fresh /\ r.time = p.time /\ r.state \in {0, p.state}
        BY <1>2, <2>1, <3>1 DEF isFresh
      <4> QED  BY <1>1, <4>1 DEF Newest
    <3>2. CASE time # 0
      <4>1. p.time # 0 => p.time <= time
        BY <1>1, <1>2, <1>4, <3>2 DEF shouldApply
      <4>2. \A t \in p.seen : t <= time
        <5> SUFFICES ASSUME NEW t \in p.seen PROVE t <= time
          OBVIOUS
        <5>1. p.time \in p.seen /\ t <= p.time
          BY <1>1 DEF Newest
        <5>2. t \in Nat /\ p.time # 0
          BY <1>1, <5>1
        <5> QED  BY <1>1, <4>1, <5>1, <5>2
      <4>3. r.seen = p.seen \cup {time} /\ r.time = time /\ time <= time
        BY <1>1, <1>2, <2>1, <3>2
      <4>4. r.fresh = IF plays THEN p.fresh \cup {time} ELSE p.fresh
        BY <1>2, <2>1, <3>2, <4>2 DEF isFresh
      <4>5. p.fresh \subseteq p.seen
        BY <1>1 DEF Newest
      <4>6. r.state # 0 => r.state \in r.fresh /\ \A t \in r.fresh : t <= r.state
        <5>1. CASE plays
          BY <2>1, <4>2, <4>3, <4>4, <4>5, <5>1
        <5>2. CASE ~plays
          BY <1>1, <2>1, <4>4, <5>2 DEF Newest
        <5> QED  BY <5>1, <5>2
      <4>7. r.fresh \subseteq r.seen
        BY <4>3, <4>4, <4>5
      <4> QED  BY <4>2, <4>3, <4>6, <4>7 DEF Newest
    <3> QED  BY <3>1, <3>2
  <2>3. applied(q, time, plays, queue, location) = announced(r)
    BY <1>4 DEF applied, r
  <2>4. /\ announced(r) \in PlayerStates /\ Announced(announced(r))
        /\ announced(r).state = r.state /\ announced(r).time = r.time
        /\ announced(r).seen = r.seen /\ announced(r).fresh = r.fresh
    BY <2>1, AnnouncedEffect
  <2>5. Newest(announced(r))
    BY <2>2, <2>4 DEF Newest
  <2> QED  BY <2>3, <2>4, <2>5 DEF GoodPlayer, q
<1> QED  BY <1>3, <1>4

\* SET_STATE announces an item only when its identifier is a new one.
LEMMA AppliedLast ==
  ASSUME NEW p \in PlayerStates, p.bound,
         NEW time \in Times \cup {0}, NEW plays \in BOOLEAN,
         NEW queue \in Queues \cup {None}, NEW location \in Nat
  PROVE  LET new == applied(p, time, plays, queue, location) IN
         new.bound /\ (new.last = p.last \/ new.last.id # p.last.id)
<1> DEFINE r == [p EXCEPT !.state = IF plays THEN time ELSE @,
                          !.time = IF time = 0 THEN @ ELSE time,
                          !.items = IF queue = None THEN @ ELSE queue,
                          !.location = IF queue = None THEN @ ELSE location]
<1>1. CASE ~shouldApply(p, time)
  BY <1>1 DEF applied
<1>2. CASE shouldApply(p, time)
  <2>1. r \in PlayerStates /\ r.bound /\ r.last = p.last
    BY QueueAssumption DEF PlayerStates
  <2>2. applied(p, time, plays, queue, location) = announced(r)
    BY <1>2 DEF applied
  <2> HIDE DEF r
  <2>3. /\ announced(r).bound
        /\ \/ announced(r).last = r.last
           \/ announced(r).last.id # r.last.id
    BY <2>1, AnnouncedEffect
  <2> QED  BY <2>1, <2>2, <2>3
<1> QED  BY <1>1, <1>2

\* merged only changes what it says of artwork.
LEMMA MergedType ==
  ASSUME NEW items \in Seq(Items), NEW update \in Items
  PROVE  merged(items, update) \in Seq(Items)
<1>1. ASSUME NEW e \in Items
      PROVE  [e EXCEPT !.available = update.available, !.inline = @ \/ update.inline]
               \in Items
  <2> DEFINE shown == e.inline \/ update.inline
  <2>1. shown \in BOOLEAN
    OBVIOUS
  <2> HIDE DEF shown
  <2>2. [e EXCEPT !.available = update.available, !.inline = shown] \in Items
    BY <2>1 DEF Items
  <2> QED  BY <2>2 DEF shown
<1> DEFINE new(n) == IF isFirst(items, n, update.id)
                       THEN [items[n] EXCEPT !.available = update.available,
                                             !.inline = @ \/ update.inline]
                       ELSE items[n]
<1>2. DOMAIN items = 1..Len(items) /\ Len(items) \in Nat
  OBVIOUS
<1>3. \A n \in DOMAIN items : new(n) \in Items
  <2> TAKE n \in DOMAIN items
  <2>1. items[n] \in Items
    OBVIOUS
  <2> QED  BY <1>1, <2>1
<1>4. merged(items, update) = [n \in 1..Len(items) |-> new(n)]
  BY <1>2 DEF merged
<1> HIDE DEF new
<1> QED  BY <1>2, <1>3, <1>4

\* UPDATE_CONTENT_ITEM
LEMMA UpdatedGood ==
  ASSUME NEW p, GoodPlayer(p), NEW update \in Items
  PROVE  LET q == [p EXCEPT !.bound = TRUE] IN
         GoodPlayer(announced([q EXCEPT !.items = merged(@, update)]))
<1> DEFINE q == [p EXCEPT !.bound = TRUE]
           r == [q EXCEPT !.items = merged(@, update)]
<1>1. p \in PlayerStates /\ p.items \in Seq(Items)
  BY DEF GoodPlayer, PlayerStates
<1>2. merged(p.items, update) \in Seq(Items)
  BY <1>1, MergedType
<1>3. /\ r \in PlayerStates
      /\ r.time = p.time /\ r.state = p.state /\ r.seen = p.seen /\ r.fresh = p.fresh
  BY <1>1, <1>2 DEF PlayerStates
<1>4. /\ announced(r) \in PlayerStates /\ Announced(announced(r))
      /\ announced(r).time = p.time /\ announced(r).state = p.state
      /\ announced(r).seen = p.seen /\ announced(r).fresh = p.fresh
  BY <1>3, AnnouncedEffect
<1>5. Newest(announced(r))
  BY <1>4 DEF Newest, GoodPlayer
<1> QED  BY <1>4, <1>5 DEF GoodPlayer

\* cleanup() leaves no player.
LEMMA EmptyMaps ==
  ASSUME players' = [b \in Bundles |-> NoPlayers]
  PROVE  PlayersMaps' /\ PlayersInv'
BY DEF PlayersMaps, PlayersInv, NoPlayers

\* Handlers that only drop players of one client.
LEMMA FewerPlayers ==
  ASSUME PlayersInv, PlayersMaps', NEW b \in Bundles,
         \A c \in Bundles : c # b => players'[c] = players[c],
         DOMAIN players'[b] \subseteq DOMAIN players[b],
         \A j \in DOMAIN players'[b] : players'[b][j] = players[b][j]
  PROVE  PlayersMaps' /\ PlayersInv'
<1>2. ASSUME NEW c \in Bundles PROVE DOMAIN players'[c] \subseteq Keys
  BY <1>2 DEF PlayersInv
<1>3. ASSUME NEW c \in Bundles, NEW j \in DOMAIN players'[c] PROVE GoodPlayer(players'[c][j])
  BY <1>3 DEF PlayersInv
<1> QED  BY <1>2, <1>3
            DEF PlayersInv, GoodPlayer, Newest, Announced, currentItem,
                PlayerStates, Items, NoItem, Keys, NoId

\* Handlers that touch no player.
LEMMA SamePlayers ==
  ASSUME PlayersMaps, PlayersInv, UNCHANGED players
  PROVE  PlayersMaps' /\ PlayersInv'
<1>1. PlayersMaps'
  BY DEF PlayersMaps
<1>2. ASSUME NEW c \in Bundles PROVE DOMAIN players'[c] \subseteq Keys
  BY <1>2 DEF PlayersInv
<1>3. ASSUME NEW c \in Bundles, NEW j \in DOMAIN players'[c] PROVE GoodPlayer(players'[c][j])
  BY <1>3 DEF PlayersInv
<1> QED  BY <1>1, <1>2, <1>3
            DEF PlayersInv, GoodPlayer, Newest, Announced, currentItem,
                PlayerStates, Items, NoItem, Keys, NoId

\* Every player of every client is good (getOrCreatePlayer and the handlers of a player).
THEOREM PlayersGood ==
  PlayerSpec => [](PlayersMaps /\ PlayersInv)
<1>1. PlayerInit => PlayersMaps /\ PlayersInv
  BY DEF PlayerInit, PlayersMaps, PlayersInv, NoPlayers
<1>2. PlayersMaps /\ PlayersInv /\ [PlayerNext]_playerVars => PlayersMaps' /\ PlayersInv'
  <2> SUFFICES ASSUME PlayersMaps, PlayersInv, [PlayerNext]_playerVars
               PROVE  PlayersMaps' /\ PlayersInv'
    OBVIOUS
  <2>1. ASSUME NEW b \in Bundles, UpdateClient(b) \/ SetNowPlayingClient(b)
        PROVE  PlayersMaps' /\ PlayersInv'
    BY <2>1, SamePlayers DEF UpdateClient, SetNowPlayingClient
  <2>2. ASSUME NEW b \in Bundles, RemoveClient(b) PROVE PlayersMaps' /\ PlayersInv'
    <3>1. players' = [c \in Bundles |-> IF c = b THEN NoPlayers ELSE players[c]]
      BY <2>2 DEF RemoveClient, PlayersMaps
    <3> QED  BY <3>1, FewerPlayers DEF PlayersMaps, NoPlayers
  <2>3. ASSUME NEW b \in Bundles, NEW k \in Keys, UpdatePlayer(b,
               k) \/ SetNowPlayingPlayer(b, k)
        PROVE  PlayersMaps' /\ PlayersInv'
    BY <2>3, PlayerOfGood, WithPlayerKeeps DEF UpdatePlayer, SetNowPlayingPlayer
  <2>4. ASSUME NEW b \in Bundles, NEW k \in Keys, RemovePlayer(b, k)
        PROVE  PlayersMaps' /\ PlayersInv'
    <3> DEFINE q == [j \in DOMAIN players[b] \ {k} |-> players[b][j]]
    <3>1. CASE k = NoId
      BY <2>4, <3>1, SamePlayers DEF RemovePlayer
    <3>2. CASE k # NoId
      <4>1. players' = [c \in Bundles |-> IF c = b THEN q ELSE players[c]]
        BY <2>4, <3>2 DEF RemovePlayer, PlayersMaps
      <4> QED  BY <4>1, FewerPlayers DEF PlayersMaps
    <3> QED  BY <3>1, <3>2
  <2>5. ASSUME NEW b \in Bundles, NEW k \in Keys, NEW t \in Times \cup {0},
               NEW plays \in BOOLEAN, NEW q \in Queues \cup {None}, NEW l \in Nat,
               SetState(b, k, t, plays, q, l)
        PROVE  PlayersMaps' /\ PlayersInv'
    BY <2>5, PlayerOfGood, AppliedGood, WithPlayerKeeps DEF SetState
  <2>6. ASSUME NEW b \in Bundles, NEW k \in Keys, NEW i \in Updates,
               UpdateContentItem(b, k, i)
        PROVE  PlayersMaps' /\ PlayersInv'
    BY <2>6, PlayerOfGood, UpdatedGood, WithPlayerKeeps, QueueAssumption DEF UpdateContentItem
  <2>7. ASSUME (\E i \in ItemIds : CacheForgets(i)) \/ UNCHANGED playerVars
        PROVE  PlayersMaps' /\ PlayersInv'
    BY <2>7, SamePlayers DEF CacheForgets, registry, playerVars
  <2>8. ASSUME cleanup PROVE PlayersMaps' /\ PlayersInv'
    BY <2>8, EmptyMaps DEF cleanup
  <2> QED  BY <2>1, <2>2, <2>3, <2>4, <2>5, <2>6, <2>7, <2>8, QueueAssumption DEF PlayerNext, stamps
<1> QED  BY <1>1, <1>2, PTL DEF PlayerSpec

-----------------------------------------------------------------------------
(* Types and selections *)

RegistryTypes ==
  /\ clients \subseteq Bundles
  /\ activeId \in [Bundles -> Players \cup {None}]
  /\ activeBundle \in Bundles \cup {None}
  /\ received \in 0..MaxMessages

ArtworkTypes == requested \subseteq ItemIds /\ cache \subseteq ItemIds

\* The listener of bindActiveItemChange asks for and keeps artwork of items.
LEMMA AnnounceTypes ==
  ASSUME ArtworkTypes, NEW old, NEW new \in PlayerStates, Announce(old, new)
  PROVE  ArtworkTypes'
<1>1. CASE UNCHANGED <<requested, cache>>
  BY <1>1 DEF ArtworkTypes
<1>2. CASE /\ cache' = cache \cup inlineArtwork(new.last)
           /\ requested' = requested \cup neededArtwork(new.last)
  <2>1. new.last \in Items \cup {NoItem}
    BY DEF PlayerStates
  <2>2. /\ inlineArtwork(new.last) \subseteq ItemIds
        /\ neededArtwork(new.last) \subseteq ItemIds
    BY <2>1 DEF inlineArtwork, neededArtwork, Items, NoItem
  <2> QED  BY <1>2, <2>2 DEF ArtworkTypes
<1> QED  BY <1>1, <1>2 DEF Announce

\* A step that only adds a player to a client it knows.
LEMMA MessageActive ==
  ASSUME PlayersMaps, RegistryTypes, ActiveExists,
         NEW b \in Bundles, Message(b), UNCHANGED <<activeId, activeBundle>>,
         UNCHANGED players \/ \E k, p : players' = withPlayer(b, k, p)
  PROVE  RegistryTypes' /\ ActiveExists'
<1>1. RegistryTypes'
  BY BoundAssumption DEF RegistryTypes, Message
<1>2. clients' = clients \cup {b}
  BY DEF Message
<1>3. CASE UNCHANGED players
  BY <1>1, <1>2, <1>3 DEF ActiveExists
<1>4. ASSUME NEW k, NEW p, players' = withPlayer(b, k, p) PROVE ActiveExists'
  <2>1. /\ \A c \in Bundles : c # b => players'[c] = players[c]
        /\ DOMAIN players'[b] = DOMAIN players[b] \cup {k}
    BY <1>4, WithPlayerEffect
  <2> QED  BY <1>2, <2>1 DEF ActiveExists
<1> QED  BY <1>1, <1>3, <1>4

\* The selection of every client and the active client stay in the registry.
THEOREM ActiveKept ==
  PlayerSpec => [](RegistryTypes /\ ArtworkTypes /\ ActiveExists)
<1> DEFINE Inv == RegistryTypes /\ ArtworkTypes /\ ActiveExists
<1>1. PlayerInit => Inv
  BY BoundAssumption DEF PlayerInit, RegistryTypes, ArtworkTypes, ActiveExists, NoPlayers
<1>2. PlayersMaps /\ PlayersInv /\ Inv /\ [PlayerNext]_playerVars => Inv'
  <2> SUFFICES ASSUME PlayersMaps, PlayersInv, RegistryTypes, ArtworkTypes, ActiveExists,
                      [PlayerNext]_playerVars
               PROVE  RegistryTypes' /\ ArtworkTypes' /\ ActiveExists'
    OBVIOUS
  <2>1. ASSUME UNCHANGED <<requested, cache>> PROVE ArtworkTypes'
    BY <2>1 DEF ArtworkTypes
  <2>2. ASSUME NEW b \in Bundles, UpdateClient(b)
        PROVE  RegistryTypes' /\ ArtworkTypes' /\ ActiveExists'
    BY <2>1, <2>2, MessageActive, BoundAssumption DEF UpdateClient
  <2>3. ASSUME NEW b \in Bundles, SetNowPlayingClient(b)
        PROVE  RegistryTypes' /\ ArtworkTypes' /\ ActiveExists'
    <3>1. ArtworkTypes'
      BY <2>1, <2>3 DEF SetNowPlayingClient
    <3>2. RegistryTypes'
      BY <2>3, BoundAssumption DEF SetNowPlayingClient, Message, RegistryTypes
    <3>3. ActiveExists'
      BY <2>3 DEF SetNowPlayingClient, Message, ActiveExists
    <3> QED  BY <3>1, <3>2, <3>3
  <2>4. ASSUME NEW b \in Bundles, RemoveClient(b)
        PROVE  RegistryTypes' /\ ArtworkTypes' /\ ActiveExists'
    <3>1. ArtworkTypes'
      BY <2>1, <2>4 DEF RemoveClient
    <3>2. RegistryTypes'
      BY <2>4, BoundAssumption DEF RemoveClient, RegistryTypes
    <3>3. /\ players' = [c \in Bundles |-> IF c = b THEN NoPlayers ELSE players[c]]
          /\ \A c \in Bundles : activeId'[c] = IF c = b THEN None ELSE activeId[c]
      BY <2>4 DEF RemoveClient, PlayersMaps, RegistryTypes
    <3>4. ActiveExists'
      BY <2>4, <3>3
         DEF RemoveClient, ActiveExists, RegistryTypes, NoPlayers
    <3> QED  BY <3>1, <3>2, <3>4
  <2>5. ASSUME NEW b \in Bundles, NEW k \in Keys, UpdatePlayer(b, k)
        PROVE  RegistryTypes' /\ ArtworkTypes' /\ ActiveExists'
    BY <2>1, <2>5, MessageActive, BoundAssumption DEF UpdatePlayer
  <2>6. ASSUME NEW b \in Bundles, NEW k \in Keys, SetNowPlayingPlayer(b, k)
        PROVE  RegistryTypes' /\ ArtworkTypes' /\ ActiveExists'
    <3>1. ArtworkTypes'
      BY <2>1, <2>6 DEF SetNowPlayingPlayer
    <3>2. RegistryTypes'
      BY <2>6, BoundAssumption DEF SetNowPlayingPlayer, Message, RegistryTypes, Keys
    <3>3. /\ \A c \in Bundles : c # b => players'[c] = players[c]
          /\ DOMAIN players'[b] = DOMAIN players[b] \cup {k}
      BY <2>6, WithPlayerEffect DEF SetNowPlayingPlayer
    <3>4. \A c \in Bundles : activeId'[c] =
            IF c = b THEN IF k = NoId THEN None ELSE k ELSE activeId[c]
      BY <2>6 DEF SetNowPlayingPlayer, RegistryTypes
    <3>5. ActiveExists'
      BY <2>6, <3>3, <3>4 DEF SetNowPlayingPlayer, Message, ActiveExists
    <3> QED  BY <3>1, <3>2, <3>5
  <2>7. ASSUME NEW b \in Bundles, NEW k \in Keys, RemovePlayer(b, k)
        PROVE  RegistryTypes' /\ ArtworkTypes' /\ ActiveExists'
    <3>1. ArtworkTypes'
      BY <2>1, <2>7 DEF RemovePlayer
    <3>2. CASE k = NoId
      BY <2>7, <3>1, <3>2, MessageActive, BoundAssumption DEF RemovePlayer
    <3>3. CASE k # NoId
      <4>1. RegistryTypes'
        BY <2>7, <3>3, BoundAssumption DEF RemovePlayer, Message, RegistryTypes
      <4>2. /\ \A c \in Bundles : c # b => players'[c] = players[c]
            /\ DOMAIN players'[b] = DOMAIN players[b] \ {k}
        <5>1. players' = [c \in Bundles |->
                 IF c = b THEN [j \in DOMAIN players[b] \ {k} |-> players[b][j]] ELSE players[c]]
          BY <2>7, <3>3 DEF RemovePlayer, PlayersMaps
        <5> QED  BY <5>1
      <4>3. \A c \in Bundles : activeId'[c] =
              IF c = b /\ activePlayer(b) = k THEN None ELSE activeId[c]
        BY <2>7, <3>3 DEF RemovePlayer, RegistryTypes
      <4>4. activeId[b] = k /\ k \in DOMAIN players[b] => k = None \/ activePlayer(b) = k
        BY DEF activePlayer, selected
      <4>5. ActiveExists'
        BY <2>7, <4>2, <4>3, <4>4 DEF RemovePlayer, Message, ActiveExists
      <4> QED  BY <3>1, <4>1, <4>5
    <3> QED  BY <3>2, <3>3
  <2>8. ASSUME NEW b \in Bundles, NEW k \in Keys, NEW t \in Times \cup {0},
               NEW plays \in BOOLEAN, NEW q \in Queues \cup {None}, NEW l \in Nat,
               SetState(b, k, t, plays, q, l)
        PROVE  RegistryTypes' /\ ArtworkTypes' /\ ActiveExists'
    <3>1. RegistryTypes' /\ ActiveExists'
      BY <2>8, MessageActive, BoundAssumption DEF SetState
    <3>2. ArtworkTypes'
      BY <2>8, PlayerOfGood, AppliedGood, AnnounceTypes DEF SetState, GoodPlayer
    <3> QED  BY <3>1, <3>2
  <2>9. ASSUME NEW b \in Bundles, NEW k \in Keys, NEW i \in Updates,
               UpdateContentItem(b, k, i)
        PROVE  RegistryTypes' /\ ArtworkTypes' /\ ActiveExists'
    <3>1. RegistryTypes' /\ ActiveExists'
      BY <2>9, MessageActive, BoundAssumption DEF UpdateContentItem
    <3>2. ArtworkTypes'
      BY <2>9, PlayerOfGood, UpdatedGood, AnnounceTypes, QueueAssumption
         DEF UpdateContentItem, GoodPlayer
    <3> QED  BY <3>1, <3>2
  <2>10. ASSUME (\E i \in ItemIds : CacheForgets(i)) \/ UNCHANGED playerVars
         PROVE  RegistryTypes' /\ ArtworkTypes' /\ ActiveExists'
    BY <2>10
       DEF CacheForgets, registry, playerVars, RegistryTypes, ArtworkTypes,
           ActiveExists
  <2>11. ASSUME cleanup PROVE RegistryTypes' /\ ArtworkTypes' /\ ActiveExists'
    BY <2>11
       DEF cleanup, RegistryTypes, ArtworkTypes, ActiveExists, NoPlayers
  <2> QED  BY <2>2, <2>3, <2>4, <2>5, <2>6, <2>7, <2>8, <2>9, <2>10, <2>11, QueueAssumption
              DEF PlayerNext, stamps
<1> QED  BY <1>1, <1>2, PlayersGood, PTL DEF PlayerSpec

\* Every variable of the player state keeps its type.
THEOREM PlayerTypeCorrect ==
  PlayerSpec => []PlayerTypeOK
<1>1. PlayersInv /\ RegistryTypes /\ ArtworkTypes => PlayerTypeOK
  BY DEF PlayersInv, GoodPlayer, RegistryTypes, ArtworkTypes, PlayerTypeOK
<1> QED  BY <1>1, PlayersGood, ActiveKept, PTL

\* What is active exists: the client that is active is known and the player that is
\* selected is one of its players (SET_NOW_PLAYING_CLIENT, SET_NOW_PLAYING_PLAYER and the
\* removals).
THEOREM ActiveThere ==
  PlayerSpec => []ActiveExists
BY ActiveKept, PTL

\* A timed state that is shown is the newest of those that came before anything newer
\* did, whatever came late, without a time stamp or without a playback state
\* (handleSetState, shouldApply).
THEOREM NewestShown ==
  PlayerSpec => []ShowsNewest
<1>1. PlayersInv => ShowsNewest
  BY DEF PlayersInv, GoodPlayer, Newest, ShowsNewest
<1> QED  BY <1>1, PlayersGood, PTL

\* The listeners know the current item of every player (emitIfItemChanged).
THEOREM CurrentAnnounced ==
  PlayerSpec => []AnnouncedIsCurrent
<1>1. PlayersInv => AnnouncedIsCurrent
  BY DEF PlayersInv, GoodPlayer, Announced, AnnouncedIsCurrent
<1> QED  BY <1>1, PlayersGood, PTL

-----------------------------------------------------------------------------
(* Artwork *)

\* What ArtworkPursued says of one step.
Pursued ==
  \A b \in Bundles : \A k \in DOMAIN players'[b] :
    LET i == players'[b][k].last IN
      (i.available /\ i # playerOf(b, k).last) => i.id \in cache' \cup requested'

\* A player that is taken over as it was, or is new, has nothing to pursue.
LEMMA KeptPursued ==
  ASSUME \A b \in Bundles : \A k \in DOMAIN players'[b] :
           players'[b][k] = playerOf(b, k)
  PROVE  Pursued
BY DEF Pursued

\* bindActiveItemChange listens before the change is emitted.
LEMMA AnnouncePursued ==
  ASSUME PlayersMaps, PlayersInv, ArtworkTypes, NEW b \in Bundles, NEW k \in Keys,
         NEW old, NEW new \in PlayerStates,
         players' = withPlayer(b, k, new), Announce(old, new), new.bound,
         old.last = playerOf(b, k).last,
         new.last = old.last \/ new.last.id # old.last.id
  PROVE  Pursued
<1>1. /\ \A c \in Bundles : c # b => players'[c] = players[c]
      /\ DOMAIN players'[b] = DOMAIN players[b] \cup {k}
      /\ players'[b][k] = new
      /\ \A j \in DOMAIN players[b] \ {k} : players'[b][j] = players[b][j]
  BY WithPlayerEffect
<1>2. ASSUME new.last.available, new.last # playerOf(b, k).last
      PROVE  new.last.id \in cache' \cup requested'
  <2>1. /\ cache' = cache \cup inlineArtwork(new.last)
        /\ requested' = requested \cup neededArtwork(new.last)
    BY <1>2 DEF Announce
  <2> QED  BY <1>2, <2>1 DEF inlineArtwork, neededArtwork
<1>3. ASSUME NEW c \in Bundles, NEW j \in DOMAIN players'[c], c # b \/ j # k
      PROVE  players'[c][j] = playerOf(c, j)
  BY <1>1, <1>3 DEF playerOf
<1> QED  BY <1>1, <1>2, <1>3 DEF Pursued

\* The artwork of an item that becomes current is at hand or asked for
\* (bindActiveItemChange).
THEOREM ArtworkFollows ==
  PlayerSpec => ArtworkPursued
<1>1. PlayersMaps /\ PlayersInv /\ ArtworkTypes /\ [PlayerNext]_playerVars
      => [Pursued]_playerVars
  <2> SUFFICES ASSUME PlayersMaps, PlayersInv, ArtworkTypes, PlayerNext PROVE Pursued
    OBVIOUS
  <2>1. ASSUME UNCHANGED players PROVE Pursued
    BY <2>1, KeptPursued DEF playerOf
  <2>2. ASSUME NEW b \in Bundles, RemoveClient(b) PROVE Pursued
    <3>1. players' = [c \in Bundles |-> IF c = b THEN NoPlayers ELSE players[c]]
      BY <2>2 DEF RemoveClient, PlayersMaps
    <3> QED  BY <3>1, KeptPursued DEF NoPlayers, playerOf
  <2>3. ASSUME NEW b \in Bundles, NEW k \in Keys, UpdatePlayer(b,
               k) \/ SetNowPlayingPlayer(b, k)
        PROVE  Pursued
    <3>1. players' = withPlayer(b, k, playerOf(b, k))
      BY <2>3 DEF UpdatePlayer, SetNowPlayingPlayer
    <3>2. /\ \A c \in Bundles : c # b => players'[c] = players[c]
          /\ DOMAIN players'[b] = DOMAIN players[b] \cup {k}
          /\ players'[b][k] = playerOf(b, k)
          /\ \A j \in DOMAIN players[b] \ {k} : players'[b][j] = players[b][j]
      BY <3>1, WithPlayerEffect
    <3> QED  BY <3>2, KeptPursued DEF playerOf
  <2>4. ASSUME NEW b \in Bundles, NEW k \in Keys, RemovePlayer(b, k) PROVE Pursued
    <3>1. CASE k = NoId
      BY <2>1, <2>4, <3>1 DEF RemovePlayer
    <3>2. CASE k # NoId
      <4>1. players' = [c \in Bundles |->
               IF c = b THEN [j \in DOMAIN players[b] \ {k} |-> players[b][j]] ELSE players[c]]
        BY <2>4, <3>2 DEF RemovePlayer, PlayersMaps
      <4> QED  BY <4>1, KeptPursued DEF playerOf
    <3> QED  BY <3>1, <3>2
  <2>5. ASSUME NEW b \in Bundles, NEW k \in Keys, NEW t \in Times \cup {0},
               NEW plays \in BOOLEAN, NEW q \in Queues \cup {None}, NEW l \in Nat,
               SetState(b, k, t, plays, q, l)
        PROVE  Pursued
    <3> DEFINE old == told(playerOf(b, k), t, plays)
               new == applied(old, t, plays, q, l)
    <3>1. /\ GoodPlayer(playerOf(b, k)) /\ GoodPlayer(new)
      BY PlayerOfGood, AppliedGood
    <3>2. /\ players' = withPlayer(b, k, new) /\ Announce(old, new)
      BY <2>5 DEF SetState
    <3>3. /\ old \in PlayerStates /\ old.bound /\ old.last = playerOf(b, k).last
      BY <3>1, ToldEffect DEF GoodPlayer
    <3>4. /\ new.bound /\ (new.last = old.last \/ new.last.id # old.last.id)
      BY <3>1, <3>3, AppliedLast
    <3> QED  BY <3>1, <3>2, <3>3, <3>4, AnnouncePursued DEF GoodPlayer
  <2>6. ASSUME NEW b \in Bundles, NEW k \in Keys, NEW i \in Updates,
               UpdateContentItem(b, k, i)
        PROVE  Pursued
    <3> DEFINE old == [playerOf(b, k) EXCEPT !.bound = TRUE]
               moved == [old EXCEPT !.items = merged(@, i)]
               new == announced(moved)
    <3>1. /\ GoodPlayer(playerOf(b, k)) /\ GoodPlayer(new)
      BY PlayerOfGood, UpdatedGood, QueueAssumption
    <3>2. /\ players' = withPlayer(b, k, new) /\ Announce(old, new)
      BY <2>6 DEF UpdateContentItem
    <3>3. /\ old.bound /\ old.last = playerOf(b, k).last
          /\ moved \in PlayerStates /\ moved.bound /\ moved.last = old.last
      BY <3>1, MergedType, QueueAssumption DEF GoodPlayer, PlayerStates
    <3>4. /\ new.bound /\ (new.last = old.last \/ new.last.id # old.last.id)
      <4> HIDE DEF moved
      <4> QED  BY <3>3, AnnouncedEffect
    <3> QED  BY <3>1, <3>2, <3>3, <3>4, AnnouncePursued DEF GoodPlayer
  <2>7. ASSUME cleanup PROVE Pursued
    BY <2>7, KeptPursued DEF cleanup, NoPlayers
  <2>8. ASSUME \/ \E b \in Bundles : UpdateClient(b) \/ SetNowPlayingClient(b)
               \/ \E i \in ItemIds : CacheForgets(i)
        PROVE  Pursued
    BY <2>1, <2>8
       DEF UpdateClient, SetNowPlayingClient, CacheForgets, registry
  <2> QED  BY <2>2, <2>3, <2>4, <2>5, <2>6, <2>7, <2>8, QueueAssumption DEF PlayerNext, stamps
<1> QED  BY <1>1, PlayersGood, ActiveKept, PTL DEF PlayerSpec, ArtworkPursued, Pursued
=============================================================================

# A verification of bunatv

bunatv is a TypeScript library (Bun runtime) that controls Apple TVs. This
directory holds TLA+ modules that model its protocol layers, TLC
configurations that check them on small instances, and TLAPS proofs of the
main theorems. Line numbers are those of the sources under `src/`.

## The system

Everything runs on one JavaScript event loop: a callback or the code between
two `await`s is atomic, and everything else interleaves. One TLA+ action is one
such stretch of code. A call that awaits is a coroutine whose program counter is
part of the state.

| component | state it keeps | operations | talks to | hard behaviours |
|---|---|---|---|---|
| `BunTCPTransport` | connection state, socket, reconnect timer and count | connect, disconnect, send; socket callbacks, timers | the network; emits data, status, error, drain | a late open after a timeout or disconnect, callbacks of old sockets, sends that wait for drain |
| `StreamBuffer`, `HapFrameHandler` | memory, read and write index, parse scheduled | append, consume, peek, grow, compact; push, process | transport data in, frames out | slices of memory that is moved later, partial frames, growth at the limit |
| `ChaCha20EncryptionLayer`, `HapFramedChannel` | keys, two nonces, state | enable, disable, encrypt, decrypt; send and receive a frame | transport, session, authentication | nonces of the two ends, failed decryption, traffic in clear |
| `HAPAuthenticationService` | pairing state, keys, operation timer | authenticate, frames M2..M6 | framed channel, credential store | timers that outlive their operation |
| `CompanionSessionService` | session state, pending requests, retry count | start, stop, sendCommand, sendMessage, handleMessage | framed channel | late answers, timeouts, retries during stop |
| `CompanionProtocol` | lifecycle state, retry loop | connect, disconnect, unexpected disconnect | all of the above | a disconnect in the middle of a connect, a loss of the connection at any await |
| `HttpFramedChannel`, `RtspSession` | buffered bytes, response waiters | request, response | transport | every response goes to all that wait |
| `Airplay2Protocol` and its channels | lifecycle, keepalive, data and event channel | connect, disconnect, keepalive | RTSP, data stream, MRP | teardown order, loss of one of three connections |
| `MRPProtocol`, `EmitterEx`, `MRPCapture` | lifecycle, outstanding requests, listeners on a channel of others | connect, disconnect, send, sendAndReceive | data stream | an answer before its waiter, wrapped listeners that `off()` does not find |
| `MRPPlayerState` | clients, players, queues, artwork asked for | message handlers | MRP | order of messages, removals of what is active |
| `DeviceApi` | protocols, listeners | connect, disconnect | protocols | one protocol of several failing, losses while connecting or disconnecting |
| RAOP streaming | packet backlog, sequence numbers, timestamps | sendAudio, stop, close, retransmit, sync | RTSP, UDP | numbers that wrap, a backlog that outlives a stream, stop before start |
| mDNS registry, discovery | services, addresses, TTLs, cache file | update, prune, resolve, save | mDNS packets, disk | stale entries, save during update |
| JSON storage | credentials in memory and on disk | load, save, mutate | disk | concurrent saves, crash while writing |

## The modules

| module | models | source |
|---|---|---|
| `RequestTable` | abstract: what a request/response layer promises its callers | - |
| `Playback` | abstract: what a listener is promised of a stream | - |
| `CompanionSession` | `CompanionSessionService`: start, stop, retry, correlation of requests | `protocols/companion/layers/CompanionSessionService.ts` |
| `HapFrameHandler` | `StreamBuffer` and `HapFrameHandler`: bytes in, frames out | `core/encoding/buffer-utils.ts`, `protocols/companion/layers/HapFrameHandler.ts` |
| `BunTCPTransport` | connection state over a succession of sockets, sends that wait for drain | `protocols/shared/layers/BunTCPTransport.ts` |
| `HAPAuthenticationService` | pair-setup, pair-verify, operation timers, late handlers | `protocols/companion/layers/HAPAuthenticationService.ts` |
| `CompanionProtocol` | lifecycle of the protocol, recovery loop, loss, disconnect | `protocols/companion/CompanionProtocol.ts`, `core/utils/RecoveryManager.ts`, `core/utils/ProtocolStateMachine.ts` |
| `MRPProtocol` | connect, disconnect, requests with capture, timeout and answer, listeners on the data channel | `protocols/mrp/MRPProtocol.ts`, `core/eventing/EmitterEx.ts`, `logging/MRPCapture.ts` |
| `MRPPlayerState` | the registry of clients and players, their queues, artwork | `protocols/mrp/MRPPlayerState.ts` |
| `Airplay2Protocol` | connect as a script of waits, HTTP correlation, keep-alive, loss, disconnect | `protocols/airplay/layers/*.ts`, `protocols/rtsp/RtspSession.ts` |
| `DeviceApi` | the device over `Airplay2Protocol`, MRP and Companion | `core/DeviceApi.ts` |
| `RaopStream` | streaming loop, backlog, retransmission, sync clock, stop | `protocols/raop/*.ts` |
| `JsonStorage` | memory and file, overlapping and failing saves, stops of the process | `core/storage/json-storage.ts` |
| `X_proofs` | theorems about module `X` and their proofs | - |
| `MRP_proofs`, `AirPlay_proofs` | theorems about `MRPProtocol` and `MRPPlayerState`; about `Airplay2Protocol`, `DeviceApi` and `RaopStream` | - |
| `MCX` | what TLC needs to run `X`: sets of streams or queues, symmetry | - |

How they fit together:

- `CompanionProtocol` INSTANCEs `BunTCPTransport` and conjoins its own reaction
  to each of the transport's actions (`SocketClose` of the protocol is
  `Transport!SocketClose` and `handleUnexpectedDisconnect` in one step, because
  the code emits its status event synchronously). The protocol sends nothing by
  itself, so the instance has no sends.
- `CompanionProtocol` keeps of `CompanionSession` the session's state and of
  `HAPAuthenticationService` whether it is authenticated, the pairing timer,
  the socket its keys were agreed on, and where its first message is. It and
  `Airplay2Protocol` keep the state of the encryption layer themselves.
- `CompanionSession` keeps of everything below it one variable, `channel`: down,
  connected in clear, or encrypted.
- `CompanionSession` and `MRPProtocol` implement `RequestTable`: the runs check the
  refinement and theorems `RequestsImplemented` of each prove it.
- `DeviceApi` EXTENDS `Airplay2Protocol` and conjoins what the device and MRP do to
  its actions: a step of AirPlay that closes the data channel is, in the same
  step, the failure of MRP and its report, because listeners run synchronously.
  It calls `Connect` and `Disconnect` of AirPlay itself. Of MRP and Companion it
  keeps what the device sees. `DeviceImplements` proves that its AirPlay takes
  only steps of `Airplay2Protocol`.

### Session: `CompanionSession`

`_state`, `_sessionInfo`, `establishmentPromise`, `retryCount`, `transactionId`
and `pendingRequests` are variables of the same names; `timers` are the armed
`setTimeout`s, `promise` what the senders hold, `wire` what became of the bytes.
A call of `start()` is a coroutine with the places `await` (the `_sessionStart`
request) and `delay` (the back-off); one of `stop()` has one place, `await`.
`sendRequestAndWaitForResponse` is one action up to its `await`; `SendFails`,
`Timeout` and `handleMessage` are what may happen later, in any order, twice, or
never. The channel may change at any time. A message of the device that is no
response may carry any id of `EventIds`, also one that is pending: the code does
not look at its type. `replied` is a history variable, what `RequestTable` calls
heard: the requests whose id came back on such a message or on a response.

### Frames: `HapFrameHandler`

A byte is its position in the device's stream, so the memory says what a slice
of it really contains. The header found at a position of the stream is chosen
with the stream (`Streams`): its size, and whether its type is known. The three
parts of the receive path (append, the queued `process()`, the queued delivery)
are actions ordered by `pc`, as microtasks run before the next read of the
socket. `Grown`, `Compacted` and `Copied` are the memory operations;
`DoublesTo` is the loop of `grow()`.

### Transport: `BunTCPTransport`

Each call of `establishConnection` makes a socket with a promise and a connect
timer of its own. All of them stay alive: the open of a socket whose timer has
fired, the close of an old one, and a reconnect timer nobody remembers
(`leaked`) act on the same fields, as the closures of the code do. `writeSome`
is one turn of the loop of `send()`; `Drain` resumes every send that waits, and
the resumed ones run before the next callback (`turn`).

### Authentication: `HAPAuthenticationService`

`authenticate()` is a coroutine: generating keys and sending M1 (`pairing-send`,
`verify-keys`, `verify-send`), then waiting for the promise of the current
operation. `handling` counts the frame handlers that wait for the PIN, for a
message to be sent or for keys, each with the flow handler object it began
with; `timers` are the timers of operations, which nothing clears. The device
answers in order, keeps one exchange, and answers well, badly, with an error,
or not at all. Cryptography is whether a frame is accepted: a good one of the
right flow belongs to the call whose message it answers.

### Lifecycle: `CompanionProtocol`

A call of `connect()` is a coroutine with the places `sleep` (the delay of
`RecoveryManager.run`), `transport`, `load`, the four of authentication
(`Authenticating`: M1 is being sent, or the answers are awaited, of a pairing and of
a verification), `save` and `session`; one of `disconnect()` waits at most once, for `session.stop()`. `recover` is what
`runWithRecovery` does with a failed attempt: it counts it, or resets the count
and begins again. `Loaded` and `LoadFails` end the load of the credentials, which
reads the file and writes the date of last use to it
(`core/storage/types.ts:129`): anything may have happened to the socket and the
protocol meanwhile. `DecryptFails` is a frame that the encryption layer cannot
decipher: it goes to its error state, keeps its keys (`secured`) and no longer
uses them, and neither protocol nor session hears of it.

### MRP: `MRPProtocol`

Every call of `connect()` is a coroutine: `waiting` for the data channel, or
`running` with the request it waits for. A request is sent, then `capturing` (the
capture of the message is awaited), and only then in `outstanding` with a `timer`;
an answer while it is captured is heard by nobody. `watchers` are the wrapped
`once(filter)` listeners: `Disconnect` cannot remove them. `connect()` on a
connected channel does not set Ready (`ConnectDirect`), the one through
`waitFor()` does. `Quiet` says that continuations run before the next event.
In `step`, the messages that wait for no answer go with the one before them.

### Players: `MRPPlayerState`

One action per kind of message. A player's queue, time stamp and last announced
item are fields of a record; `announced` is `emitIfItemChanged`, `Announce` the
listener of `bindActiveItemChange` with the artwork cache of the module and the
requests already made. A state, which a message may lack, is known by the time stamp it came with. `seen`
and `fresh` are history: the time stamps of all messages, and those of the states
that nothing newer had overtaken when they came. Handlers that only name a
client (`UPDATE_CLIENT`, default commands, client properties) are one action.

### AirPlay: `Airplay2Protocol`, and the device: `DeviceApi`

`step` is what `connect()` waits for and `after` its script: the socket, the
stored credentials, the requests of pairing and verification, the PIN, the save,
the RTSP set-up, the event channel, RECORD, the data stream, its channel. `GoOn`
is what runs between two waits. `waiting` are the `once("response")` listeners,
`wire` the requests the Apple TV answers in order; `Respond` settles all of
`waiting` with one response, as the emitter does. `Accepted` is what each caller
checks of a response. `Throw` is a failed attempt, which `runWithRecovery` tries
again for ever; it finds the state no longer idle. `SocketError` is a socket that
reports an error and does not close: the transport is in ERROR, where sends throw,
and AirPlay does not react. `DecryptFails` ends the encryption, after which requests
leave in clear and get no answer. `overlap` is a history
variable: a `disconnect()` or a loss came while `connect()` was running.
`DeviceApi` adds where `connect()` (`api`) and `disconnect()` (`ending`) of the
device are, which protocols it `held`, and which losses it `reported`.

### Streaming: `RaopStream`

`sendAudio()` is one coroutine (`streaming`); a round of the loop reads and sends one
packet, perhaps a `burst` of more, and sleeps. `PacketSent` does what follows the
`await` of the socket. A packet is its number in the stream and what it plays.
Sequence numbers and timestamps are modulo `SeqMod` and `TsMod` and start
anywhere. `late` is a history variable. `ImplementsPlayback` maps what the packets sent
play to what the abstract `Playback` lets the listener hear, and `result` to its outcome.

### Storage: `JsonStorage`

A save is a slot of `writes`: its snapshot is taken at once (`saveData`), the file
is then truncated and filled, in separate steps, while others do the same; two
writers in the file may leave a mixture. `phase` is how far `initialize()` is.
`durable`, `suspect` and `overlap` are history variables: what the last save that
met no other wrote, and whether anything disturbed the file since.



## The runs

| run | result | bounds | what it shows |
|---|---|---|---|
| `MCCompanionSession_safety` | pass | 2 starts, 1 stop, 5 ids, 1 command, 1 retry; the device may put the id 1 on messages of its own | Map, timers and promises name the same requests; concurrent starts share one establishment; an active session was granted; the service implements `RequestTable`. |
| `MCCompanionSession_live` | pass | 1 start, 1 stop, 4 ids, 1 command; the device may put the id 2, of a start, retry, stop or command, on messages of its own | Every request is settled, every `start()` ends. |
| `MCHapFrameHandler_safety` | pass | streams of 11 bytes, frames of 2, 3 and 5, reads of 1 to 4, memory 4 growing to 9 | The buffer is a FIFO, the parser stays on frame boundaries, nothing is dropped on good streams. |
| `MCHapFrameHandler_intact` | violation | the good streams | `FramesIntact`, see findings. |
| `MCBunTCPTransport_safety` | pass | 2 sockets, 2 connects, 1 reconnect attempt, 2 sends of 2 pieces | A connected transport has a live socket; a send that returned wrote each piece once; each `connect()` settles. |
| `MCHAPAuthenticationService_safety` | pass | 2 calls, one after the other | No promise is dropped; an authenticated service has keys; the keys returned are the call's own and proved; each call ends. |
| `MCCompanionProtocol_safety` | pass | 2 connects, 2 disconnects, 2 sockets, 1 attempt, autoReconnect | Ready is usable; losses during set-up are noticed; the keys are kept until the session has ended; no attempt hangs, unless its M1 never leaves. |
| `MCMRPProtocol_safety` | pass | 2 connects, 1 request of the application, each connect with 3 requests | Ready hears the device and watches for the loss; the outstanding map implements `RequestTable`; every call ends. |
| `MCMRPPlayerState_safety` | pass | 4 messages to 2 clients, 2 named players and the unnamed one, 2 items, 3 time stamps, on the messages to one of the players | What is active exists; no older state replaces a newer one that is shown, nor is one shown that something newer had overtaken; listeners know the current item, and its artwork is at hand or asked for. |
| `MCDeviceApi_safety` | pass | one device, 3 keep-alives, any answers, losses, errors and failures | Requests of an undisturbed `connect()` get their own responses; ready is watched; `disconnect()` releases everything, raises no false alarm and disconnects Companion too, unless it waits for a TEARDOWN nobody can answer. |
| `MCRaopStream_safety` | pass | 2 streams of up to 4 packets, 4 sequence numbers, 14 timestamps, backlog 2, bursts of 2 | Retransmissions are right, the loop implements `Playback`, the sync clock counts what was sent, `stop()` acts within a round. |
| `MCJsonStorage_safety` | pass | 1 device, 1 version, 2 saves at once, 1 stop of the process | An undisturbed save leaves in the file what memory holds, a restart finds it, `initialize()` ends. |

Why the bounds are enough to be interesting: 4 ids are a start, its retry, a
stop and a command, and a fifth a second start, so a stop meets a retry, a late
response and another start; 11 bytes hold up to five frames, and memory of 4 that may grow to 9 compacts in
`append` and in `consume`, grows once in full and once cut at the limit, and
overflows on the streams with a foreign header; two sockets are the least at
which a callback of an old one meets a new one; two calls of `authenticate()`
are the least at which a timer, a PIN or a suspended handler of the first meets
the second; with one attempt the recovery loop uses its attempts up and begins again at
the first failure, so that the second call and the next attempt meet what it left. With two calls of `connect()`, a leftover watcher of MRP meets a
later set-up, and a request of the application the requests of both. Four
messages make a player, give it a queue, move it and remove or overtake it. Three
time stamps are a state that is shown, one before it and one after it, with or without
a state, and untimed messages in between; players do not share them, so messages
to one player of each client carry them (`Stamped`). Three
keep-alives are one in the session, one that meets `TEARDOWN`, and one more.
Two streams of up to six packets over four sequence numbers wrap and reuse the
backlog's numbers; fourteen timestamps wrap inside a stream and are just more
than a stream needs. Two saves are the least that overlap, one stop of the
process the least that restarts. `CHECK_DEADLOCK FALSE` stands where a system in
which every caller is served has nothing left to do.

The type invariants of all modules are theorems and not repeated in the runs.

### Fairness

- Continuations that are ready run, and `setTimeout` callbacks fire: weak
  fairness of `StartStep`, `StopEnds`, `Timeout`, `SendResumes`, `AttemptStep`,
  `DisconnectEnds`, `VerifyKeys`, `Started`, and in `MRPProtocol` of `Continue`,
  `WaitOver`, `WaitTimeout` and `Timeout`. `AttemptStep` contains the failure
  of each step, which a timeout brings about: a request has one
  (`sendRequestAndWaitForResponse`), an authentication has one once its M1 is sent
  (`HAPAuthenticationService.ts:265`, `315`), a load or a save reads and writes a
  local file. `M1Sent` and `M1Fails` have no fairness: that send waits for a socket
  to drain, and `AttemptEnds` exempts it.
- Local files answer: the captures of `MRPProtocol` and the reads and writes of
  `JsonStorage` end, well or badly. `EnsureClientDeviceInfo` has strong fairness
  because the model's slots for saves may be taken; the code has no such limit.
- `ConnectTimeout` has strong fairness: resumed sends run before the event loop
  takes the next callback, and a timer that is due fires in one of the turns of
  the loop, even if it is not enabled in between.
- In `DeviceApi` alone the Apple TV answers what reaches it over an open
  connection (`Respond`): `DeviceDisconnects` says that `disconnect()` ends under
  this assumption and leaves nothing of Companion, or waits for good for the answer
  to a TEARDOWN whose connection has closed, had an error or can no longer be read.
  The code has no timeout there, so without the assumption nothing could be claimed.
- Elsewhere the network, the device, the user and the callers owe nothing: no
  fairness on opening, closing, answering, entering a PIN, or calling anything. A
  `send()` that waits for drain may wait for ever, and nothing is claimed about it.

### Faulty variants

A definition `<action>_<fault>` is a copy of an action with a plausible bug. It
is used by no specification: it documents which fault each property notices
(`PROJECT.json`, "mutants").

## Findings

`FramesIntact` is a run that ends with a counterexample: frames are views of the
receive buffer and are delivered after the buffer has been compacted under them
(`buffer-utils.ts:132`).

Four properties state what the repository says of itself and fail as well. They
stand in their modules beside the weaker property that holds; no run lists them,
and TLC finds each violated when it is added to the module's configuration:

- `CompanionProtocol!SessionEncrypted`: "commands happen inside an encrypted
  session" (`protocols/companion/layers/README.md:140`). One frame that does not
  decrypt turns the encryption layer off (`ChaCha20EncryptionLayer.ts:151`); session
  and protocol stay active and ready, and what they send leaves in clear. The code
  does keep the keys until the session has ended (`KeysOutliveSession`).
- `Airplay2Protocol!ReadyForCommands`: the state Ready is "Ready for commands"
  (`BaseProtocol.ts:37`). AirPlay stays in it over a socket that has reported an error
  (`BunTCPTransport.ts:147`), where every send throws. What Ready does mean is
  `ReadyIsWatched`.
- `DeviceApi!AllDisconnected`: "Disconnect all connected protocols in reverse
  dependency order." (`DeviceApi.ts:126`). When the connection of AirPlay is lost
  under its TEARDOWN, `disconnect()` waits for ever (`HttpFramedChannel.ts:287`), and
  Companion stays connected. That this is the only way is `DeviceDisconnects`.
- `RaopStream!StopAfterPacket`: "Signal the streaming loop to stop after the current
  packet." (`RaopStreamClient.ts:117`, likewise `RaopClient.ts:103`). The loop asks only
  after the sleep of a round, and a burst of packets may come before (line 278).
  What it does guarantee is `StopPrompt`.

Met while modelling, and likewise violated where a property is named:

- Companion session: `stop()` before the session is established leaves the retry
  loop alive, which takes the service from Stopped to Active (`StopIsFinal`).
  `sendCommandRaw` outside an active session only warns; with encryption off its
  frame leaves in clear (`sendFrame`). A message of the device that is no response
  settles the request whose id it carries (`DeviceMessage`).
- Transport: a second `send()` writes between the pieces of one that waits for
  drain (`MessagesWhole`). A reconnection that fails is scheduled again without a
  look at `maxReconnectAttempts` (`BunTCPTransport.ts:94`).
- Companion protocol: the recovery loop begins again when the attempts are used
  up, `connect()` never rejects (`RetriesBounded`). A socket that opens after
  `disconnect()` connects the transport of an idle protocol (`IdleNotConnected`).
  A loss while credentials are saved takes the lifecycle to Failed, and the
  continuation of `connect()` back to EstablishingSession (`Saved`); one while they
  are loaded likewise to Failed and back to Authenticating (`Loaded`). A send of M1
  that waits for drain has no timer, and with it `connect()` (`M1Sent`).
- Authentication: the timer of a pairing that succeeded rejects the verification
  that follows (`TimersOwn`). A frame handler that outlives its operation leaves
  the service in PairingM3, PairingM5 or VerifyingM3 with no operation; it then
  refuses every call until a frame with an error arrives. Frames of an
  established session reach it too (`SessionFrame`) and can reset it. Two
  simultaneous calls both find it Idle; the model makes one call at a time, as
  `CompanionProtocol` does.
- MRP: `connect()` on a connected channel never sets Ready. `disconnect()` leaves
  the wrapped watcher of the channel behind: when AirPlay closes it, the idle
  protocol becomes Failed (`MRPProtocol.ts:147`). A second `connect()` forgets the
  handler of the first, which stays on the channel. An answer that arrives while
  its request is captured is dropped and the request times out.
- Players: a removed client is made again by an update that was on its way, and
  `boundPlayers` keeps every player ever made. Artwork that an item gets only
  later is not asked for: the identifier did not change. A message without a
  playback state moves the time stamp on, so that a state which it overtook is
  dropped and never shown (`MRPPlayerState.ts:283`, `287`).
- AirPlay: a failed attempt, a wrong PIN for instance, leaves the state at
  Authenticating, and every further attempt is refused, for ever. `disconnect()`
  during `connect()` does not stop it: the continuation goes on and ends Ready
  without a connection, or opens a new one that nobody watches. A loss while the
  event or data channel is opened is overwritten by Ready in the same way. The
  response to a keep-alive ends the wait
  for TEARDOWN early. The loss of the event channel is noticed by nobody.
- Device: a loss before `connect()` has come as far as listening is never
  reported, although "when a protocol transitions to Failed, emit
  connection-lost" (`DeviceApi.ts:190`, `LossReported`).
- RAOP: `stop()` before the loop has started is lost, because the loop sets the flag
  again (`RaopStreamClient.ts:267`). After
  27 hours at 44.1 kHz the timestamp has come round and the sync clock begins
  again. Two simultaneous calls of `sendAudio()` share context and backlog.
- Storage: a stop of the process inside a save that has truncated the file loses
  all credentials. Two saves that overlap may leave the older state in the file.
  `flush()` before the load is done writes an empty store over the file. A first
  save that fails rejects every operation from then on. `clear()` and `import()`
  leave no client identity, which "should never happen" (`IdentityExists`,
  `json-storage.ts:261`).

## The theorems

Proved for every value of the constants that meets the named assumptions, by
`tlapm` with Z3, Zenon and LS4:

- **Session** (`CompanionSession_proofs`). `TypeCorrect`; `PendingIsConsistent` with the
  strengthening `RequestInv` = PendingConsistent and FreshIds (an id not handed
  out yet has no promise, or issuing it would overwrite one);
  `RequestsImplemented`, the refinement of `RequestTable` step by step, with
  `HeardAreSettled` (a request whose id came back is settled), whatever ids the
  device puts on messages of its own;
  `OneEstablishment` with `LiveStartOwns` (until the first stop, a start that is
  at work is the one `establishmentPromise` names and the state is Starting);
  `ActiveIsGranted` with `OwnReplies` and `AwaitsRequest`, and lemma
  `ResolvedStays`.
- **Frames** (`HapFrameHandler_proofs`). `TypeCorrect` (the indices stay in the
  memory, whatever the stream); `UnreadStaysInOrder` by lemmas about the memory
  operations; `StaysSynchronised` and `NothingLost` from `IInv` = types, order,
  `InSync` (the read position is at the start of a frame, no append has thrown) and
  `Bounded` (between two reads less than one frame is left), assuming
  `AllWellFormed`: the streams are well formed and the limit is roomy enough for
  a frame and a read.
- **Transport** (`BunTCPTransport_proofs`). `TypeCorrect`; `ConnectedSocket`, which is
  inductive on its own; `EachPieceOnce` from `WireInv` = OffsetIsWritten (the offset
  of a send says which of its pieces are on a wire, and none has two places) and
  DoneIsWhole. `AppendEffect` and `PlacesAfter` say what appending does to the
  places; a step that writes nothing keeps them (`NothingWritten`).
- **Authentication** (`HAPAuthenticationService_proofs`). `TypeCorrect`; `WaiterCurrent`
  with `Sequential` (one call is underway), because every frame, timer and
  handler either leaves calls and current operation alone or settles the
  current one and forgets it.
  `KeysHeld` from `KeysInv`: while M1 of a verification is
  unanswered its call is the current one (`VerifyingWaits`), a call with keys
  is not starting (`DerivedPlace`), and the exchange the device keeps is its
  verification and stays so (`DerivedExchange`), so that the M6 of a pairing cannot
  take the current operation away before M4 (`DerivedCurrent`). `QueueInv` says what
  the unanswered messages may be: only a pairing has a fifth one, and a call
  whose verification has begun begins no other exchange. `OwnKeysReturned` with
  `DerivedHandler`: a flow handler with keys is the current call's, the exchange is
  its own, and the service is not idle, so that no pairing starts beside it.
- **Lifecycle** (`CompanionProtocol_proofs`). `TypeCorrect`, `ReadyUsable`, `LossIsNoticed`,
  `KeysAreKept` from `IInv` = TypeOK, `SocketsInOrder` (the transport opens
  sockets one after the other), `OneAttempt` (at most one call is inside an
  attempt, and where it is says what the lifecycle, the transport and the layers
  are), `SessionMatches` and `OneDisconnect`. One effect lemma per action of
  `BunTCPTransport` says what the protocol needs to know of it.
  `TransportImplemented` is the composition: every step of the protocol is a step of the
  transport or none (`TransportStep`), so `Spec => Transport!Spec` and the protocol adds
  nothing to what `BunTCPTransport` allows. `ConnectedIsOnline` uses it: the transport's
  own guarantee in the protocol, which `secureSession` takes for granted when it looks
  at the connection state only.
- **MRP** (`MRP_proofs`). `TypeCorrect`; `PendingTracked` with `TableInv`: the
  requests a `connect()` has not come to are unissued (`SetupFresh`) and an answer
  is given once (`AnsweredOnce`), else issuing or answering would break the table;
  `ReadyAttached` with `Attached`: who hears the channel watches it, and a request
  that was answered was heard, so a `connect()` that goes on has its listeners;
  `RequestsImplemented`, the refinement of `RequestTable`, by reducing every action
  to the few ways requests move (`StepsOfRequests`, `RequestsRefine`).
- **Player state** (`MRP_proofs`). `PlayerTypeCorrect`, `NewestShown` and `CurrentAnnounced` from `PlayersInv`: every player of every client is good by
  itself (`GoodPlayer`). `Newest` says that the stored time stamp is the newest
  that was seen, without which `shouldApply` could refuse a newer state, and that a
  state shown is the newest of `fresh` (`ToldEffect`, `LateKeepsOrder`);
  `Announced` that the current item was announced. Each handler replaces one good
  player by another (`AppliedGood`, `UpdatedGood`, `WithPlayerKeeps`). `ActiveThere` from
  the same and the types of the selection (`ActiveKept`). `ArtworkFollows`, an action
  property, because a handler that announces an item has bound its listener
  first (`AnnouncePursued`, `AppliedLast`).
- **AirPlay and the device** (`AirPlay_proofs`). `AirPlayTypeCorrect`;
  `OwnResponses`, `ReadyWatched` and `AllReleased` from `ScriptInv`, which follows
  `connect()` along its script: as long as nothing disturbed it, a request it waits
  for is the only one that waits and the only one on the wire, which a failed
  decryption alone empties; nothing keeps alive before it has returned, and what was set on the way is still there
  (lemmas `GoOnKeeps`, `ThrowKeeps`). The named properties alone are not inductive:
  a second waiter would take the response. `DeviceImplements`: `DeviceSpec => Spec`,
  so these hold within the device (`DeviceInherits`). `DeviceTypeCorrect`;
  `NoFalseAlarms` from `MRPWatched` (a `disconnect()` after the end of `connect()`
  has ended MRP before it touches AirPlay) and `OnlyLostFails`.
- **RAOP** (`AirPlay_proofs`). `RaopTypeCorrect`; `StopIsPrompt` from
  `LateBounded`, which adds what is left of a burst to what went out since the
  stop. `AllPlayed` from `ShapeInv`: what was sent is some audio and then some
  silence, and `padding` is the length of that silence, the packet under way
  included. `ShapeInv` also bounds a stream (`StreamIsShort`), which `ClockIsRight`
  needs: the head is the anchor and what was sent, once around at most (`ClockInv`).
  With `EndInv` (a stream that is over has its result) it gives
  `PlaybackImplemented`: every step of the loop is one of `Playback` or none
  (`PlaybackStep`).
  `RightAnswer` from `NumberInv` (counting back from `rtpseq`, the last `SeqMod - 1`
  packets have the numbers below it, so no two have the same: `NumbersDiffer`) and
  `BacklogInv` (the backlog is the end of what was sent). Because of
  `BacklogSize < SeqMod`, `PacketFifo.set` never meets a number it has.
- **Storage** (`JsonStorage_proofs`). `TypeCorrect`; `FileMatchesMemory` and
  `RestartRestores` from `FileInv`: `Alone` (without overlap at most one save is
  under way), `Initial` (what a save of `initialize()` carries) and `FileHolds` (while
  nothing is suspect, the file holds `durable`, or the one save under way is about
  to make it so).

What the theorems assume of the constants is what the code gives them. Those of
`MRPPlayerState`: undefined is no identifier and time stamps are positive. Those of
`RaopStream`: the backlog is smaller than the range of sequence numbers (1000 and
65536 in the code), and a stream with its latency is shorter than the range of the
clock (2^32 frames, 27 hours). The runs evaluate them.

`MRPPlayerState` and `RaopStream` prefix the names they share with `MRPProtocol` and
`Airplay2Protocol` (`PlayerSpec`, `StreamSpec`), so that one module of proofs can
extend both.

Every safety property and every action property that a run checks is stated by a
theorem. Only model-checked is what is said about liveness (`RequestsSettle`,
`StartTerminates`, `ConnectSettles`, `AttemptEnds`, `Settles`, `CallsSettle`,
`DeviceDisconnects`, `InitializeEnds`), which is out of the prover's reach.

## Abstractions

- A header is what the code reads at the first byte of a frame; the recycling of
  memory by `BufferPool` is Garbage in fresh memory; `validateFrames` is off, as in
  `CompanionProtocol`.
- Commands, session ids, dates, names and payloads are left out; delays are
  steps that happen at some time.
- `MaxSockets`, `MaxConnects`, `MaxTx`, `MaxCommands` bound what may be opened and
  called. `tries` stops counting at `MaxAttempts + 1`.
- A device makes one `connect()` and one `disconnect()` and offers all three
  protocols. A socket of AirPlay that opens after its timer is left to
  `BunTCPTransport`, where it is modelled.
- RAOP streams follow each other; its RTSP requests only succeed or fail; packets
  are lost on the way at will, which is why any may be asked for again.
- `JsonStorage` saves after every change (`autoSave`, the default), makes an identity
  where none is stored, and keeps one credential per device.
- `MaxFeedbacks`, `MaxMessages`, `Stamped`, `MaxAudio`, `MaxStreams`, `MaxVersion`, `MaxWrites` and
  `MaxCrashes` bound what may happen in a behaviour.

## Not modelled, and why

- Generated protobuf code (`protocols/mrp/generated`) is most of the lines of the
  repository: encoders and decoders without state. The share of all lines that
  has a model therefore stays small; the hand-written protocol layers are covered.
- The codecs (OPACK, TLV8, plist, DAAP, the NTP packets) are sequential byte
  transformations with unit tests; cryptography wraps library primitives.
- `ChaCha20EncryptionLayer` is two keys and two counters. Its state, with the failed
  decryption that turns it off (line 151), is a variable of `CompanionProtocol` and
  of `Airplay2Protocol`, and part of the channel of `CompanionSession`. The nonces, the
  ciphers and an `encrypt()` that throws are left out.
- The parsing of bytes in `HttpFramedChannel`, `HapFrameLayer` and
  `DataStreamChannel`: the buffer beneath is `HapFrameHandler`'s `StreamBuffer`.
- mDNS registry and discovery: a cache of records with TTLs that no protocol
  state depends on. The load that overwrites records learned meanwhile
  (`mdns-service-registry.ts:576`) is its one race, and is listed as a hazard.
- `CompanionApi`, the controllers and `MRPApi` build or read one message each; the CLI
  and logging hold no protocol state (of `MRPCapture`, whether it throws is
  modelled, because callers wait for it); `memory-storage` is a Map.

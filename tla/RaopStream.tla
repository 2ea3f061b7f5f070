------------------------------ MODULE RaopStream ------------------------------
(***************************************************************************)
(* RaopStreamClient with its control channel and packet backlog: streams   *)
(* of RTP packets one after the other over one session, the silence that   *)
(* plays a stream out, bursts that catch up with real time, retransmission *)
(* of lost packets, the clock of the sync packets, and stop() and close()  *)
(* at any time.                                                            *)
(*                                                                         *)
(* A packet is its place in the stream and what it plays; a timestamp      *)
(* counts audio frames.                                                    *)
(***************************************************************************)
EXTENDS Integers, Sequences, FiniteSets

CONSTANTS SeqMod,          \* sequence numbers, 0x10000 in the code
          TsMod,           \* timestamps, 2^32 in the code
          BacklogSize,     \* PACKET_BACKLOG_SIZE
          FramesPerPacket, \* AUDIO_FRAMES_PER_PACKET
          Latency,         \* ctx.latency, in frames
          MaxBurst,        \* MAX_PACKETS_COMPENSATE
          MaxAudio,        \* bound on the packets a source has
          MaxStreams       \* bound on the streams of a behaviour

ASSUME SeqAssumption == SeqMod \in Nat /\ BacklogSize \in 1..(SeqMod - 1)
ASSUME FramesAssumption == FramesPerPacket \in Nat \ {0} /\ Latency \in Nat \ {0}
ASSUME TsAssumption ==
  TsMod \in Nat /\ TsMod > MaxAudio * FramesPerPacket + Latency + FramesPerPacket
ASSUME BoundAssumption == /\ MaxBurst \in Nat /\ MaxAudio \in Nat
                          /\ MaxStreams \in Nat

VARIABLES
  streaming,  \* what sendAudio() waits for
  streams,    \* calls of sendAudio()
  isPlaying,  \* #isPlaying
  rtpseq,     \* ctx.rtpseq
  headTs,     \* ctx.headTs
  padding,    \* ctx.paddingSent
  burst,      \* packets of the burst still to be sent
  packet,     \* the packet that is being sent
  sent,       \* packets of this stream the socket took, in order
  ended,      \* whether the source is exhausted
  backlog,    \* the packet FIFO: sequence numbers and packets
  anchor,     \* #anchorRtp
  syncing,    \* the sync timer
  feedback,   \* the feedback timer
  closed,     \* whether close() was called
  late,       \* packets sent since stop() of a stream that plays
  result      \* how the last stream ended

ctxVars == <<rtpseq, headTs, padding>>
loopVars == <<isPlaying, burst, packet, sent, ended>>
controlVars == <<anchor, syncing>>
streamVars == <<streaming, streams, ctxVars, loopVars, backlog, controlVars, feedback,
                closed, late, result>>

Seqs == 0..(SeqMod - 1)
Silence == 0
Packets == [n : Nat, plays : 0..MaxAudio, seq : Seqs]
NoPacket == [n |-> 0, plays |-> 0, seq |-> 0]

StreamTypeOK == /\ streaming \in {"idle", "socket", "publish", "record", "read", "send",
                                  "sleep", "teardown"}
                /\ streams \in 0..MaxStreams
                /\ isPlaying \in BOOLEAN
                /\ rtpseq \in Seqs
                /\ headTs \in 0..(TsMod - 1)
                /\ padding \in Nat
                /\ burst \in 0..MaxBurst
                /\ packet \in Packets
                /\ sent \in Seq(Packets)
                /\ ended \in BOOLEAN
                /\ backlog \in Seq(Packets)
                /\ anchor \in 0..(TsMod - 1)
                /\ syncing \in BOOLEAN
                /\ feedback \in BOOLEAN
                /\ closed \in BOOLEAN
                /\ late \in Nat
                /\ result \in {"none", "played", "stopped", "failed"}

StreamInit == /\ streaming = "idle"
              /\ streams = 0
              /\ isPlaying = FALSE
              /\ rtpseq = 0
              /\ headTs = 0
              /\ padding = 0
              /\ burst = 0
              /\ packet = NoPacket
              /\ sent = <<>>
              /\ ended = FALSE
              /\ backlog = <<>>
              /\ anchor = 0
              /\ syncing = FALSE
              /\ feedback = FALSE
              /\ closed = FALSE
              /\ late = 0
              /\ result = "none"

-----------------------------------------------------------------------------
(* Before and after the loop *)

\* sendAudio() resets the context to a random position and opens a socket.
SendAudio == /\ streaming = "idle"
             /\ ~closed
             /\ streams < MaxStreams
             /\ streams' = streams + 1
             /\ streaming' = "socket"
             /\ rtpseq' \in Seqs
             /\ headTs' \in 0..(TsMod - 1)
             /\ padding' = 0
             /\ burst' = 0
             /\ packet' = NoPacket
             /\ sent' = <<>>
             /\ ended' = FALSE
             /\ late' = 0
             /\ result' = "none"
             /\ UNCHANGED <<isPlaying, backlog, controlVars, feedback, closed>>

Finally_KeepsBacklog(r) == /\ streaming' = "teardown"
                           /\ feedback' = FALSE
                           /\ result' = r
                           /\ UNCHANGED backlog

\* The finally block up to its TEARDOWN.
Finally(r) == /\ streaming' = "teardown"
              /\ backlog' = <<>>
              /\ feedback' = FALSE
              /\ result' = r

Fails == /\ Finally("failed")
         /\ UNCHANGED <<streams, ctxVars, loopVars, controlVars, closed, late>>

\* The socket is connected: sync packets start, counted from the head.  After
\* close() there is no control channel to start.
SocketReady == /\ streaming = "socket"
               /\ ~closed
               /\ streaming' = "publish"
               /\ anchor' = headTs
               /\ syncing' = TRUE
               /\ UNCHANGED <<streams, ctxVars, loopVars, backlog, feedback, closed,
                              late, result>>

\* Progress, text and artwork were answered, well or badly, or not wanted.
Published == /\ streaming = "publish"
             /\ ~closed
             /\ streaming' = "record"
             /\ feedback' = TRUE
             /\ UNCHANGED <<streams, ctxVars, loopVars, backlog, controlVars, closed,
                            late, result>>

\* RECORD, FLUSH and the volume were answered: the loop begins, and plays even
\* if stop() came before.
LoopStarts == /\ streaming = "record"
              /\ ~closed
              /\ streaming' = "read"
              /\ isPlaying' = TRUE
              /\ UNCHANGED <<streams, ctxVars, burst, packet, sent, ended, backlog, controlVars,
                             feedback, closed, late, result>>

\* A socket, a request, the source or a send fails.
StepFails == /\ streaming \in {"socket", "publish", "record", "read", "send"}
             /\ Fails

\* TEARDOWN was answered or could not be sent.
StreamTornDown == /\ streaming = "teardown"
                  /\ streaming' = "idle"
                  /\ syncing' = FALSE
                  /\ UNCHANGED <<streams, ctxVars, loopVars, backlog, anchor, feedback,
                                 closed, late, result>>

-----------------------------------------------------------------------------
(* The loop *)

\* The packet the loop sends next, with the sequence number of the context.
Outgoing(plays) == [n |-> Len(sent) + 1, plays |-> plays, seq |-> rtpseq]

SendPacket_ShortPadding ==
  /\ streaming = "read"
  /\ IF padding + FramesPerPacket > Latency
     THEN /\ Finally("played")
          /\ UNCHANGED <<padding, packet, ended>>
     ELSE /\ streaming' = "send"
          /\ \/ /\ ~ended
                /\ Len(sent) < MaxAudio
                /\ packet' = Outgoing(Len(sent) + 1)
                /\ UNCHANGED <<padding, ended>>
             \/ /\ ended' = TRUE
                /\ packet' = Outgoing(Silence)
                /\ padding' = padding + FramesPerPacket
          /\ UNCHANGED <<backlog, feedback, result>>
  /\ UNCHANGED <<streams, rtpseq, headTs, isPlaying, burst, sent, controlVars, closed, late>>

\* A packet is read and sent: audio, or silence once the source is exhausted,
\* until the silence fills the latency.
SendPacket ==
  /\ streaming = "read"
  /\ IF padding >= Latency
     THEN /\ Finally("played")
          /\ UNCHANGED <<padding, packet, ended>>
     ELSE /\ streaming' = "send"
          /\ \/ /\ ~ended
                /\ Len(sent) < MaxAudio
                /\ packet' = Outgoing(Len(sent) + 1)
                /\ UNCHANGED <<padding, ended>>
             \/ /\ ended' = TRUE
                /\ packet' = Outgoing(Silence)
                /\ padding' = padding + FramesPerPacket
          /\ UNCHANGED <<backlog, feedback, result>>
  /\ UNCHANGED <<streams, rtpseq, headTs, isPlaying, burst, sent, controlVars, closed, late>>

\* PacketFifo.set: a number that is there keeps its packet, the oldest go.
Pushed == IF \E i \in DOMAIN backlog : backlog[i].seq = packet.seq THEN backlog
          ELSE LET all == Append(backlog, packet) IN
               IF Len(all) > BacklogSize THEN Tail(all) ELSE all

\* What the loop does after a packet: a burst when it is late, then a sleep.
AfterPacket == IF burst = 0
               THEN /\ burst' \in 0..MaxBurst
                    /\ streaming' = IF burst' = 0 THEN "sleep" ELSE "read"
               ELSE /\ burst' = burst - 1
                    /\ streaming' = IF burst = 1 THEN "sleep" ELSE "read"

\* The socket took the packet: it enters the backlog and the context moves on.
PacketSent ==
  /\ streaming = "send"
  /\ sent' = Append(sent, packet)
  /\ backlog' = Pushed
  /\ rtpseq' = (rtpseq + 1) % SeqMod
  /\ headTs' = (headTs + FramesPerPacket) % TsMod
  /\ AfterPacket
  /\ late' = IF isPlaying THEN late ELSE late + 1
  /\ UNCHANGED <<streams, padding, isPlaying, packet, ended, controlVars, feedback,
                 closed, result>>

Awake_PlaysOn ==
  /\ streaming = "sleep"
  /\ streaming' = "read"
  /\ UNCHANGED <<streams, backlog, feedback, result, ctxVars, loopVars, controlVars,
                 closed, late>>

\* The loop sleeps until the next packet is due, or goes on at once when late.
Awake == /\ streaming = "sleep"
         /\ IF isPlaying
            THEN streaming' = "read" /\ UNCHANGED <<backlog, feedback, result>>
            ELSE Finally("stopped")
         /\ UNCHANGED <<streams, ctxVars, loopVars, controlVars, closed, late>>

-----------------------------------------------------------------------------
(* The control channel and the user *)

\* handleRetransmit: the packet the backlog has for a number, or an empty answer.
Resent(seq) == LET found == {i \in DOMAIN backlog : backlog[i].seq = seq} IN
               IF found = {} THEN NoPacket ELSE backlog[CHOOSE i \in found : TRUE]

elapsed_Plain == headTs - anchor

\* ntpFromRtp: the frames between the anchor and the head, over the wrap.
elapsed == IF headTs >= anchor THEN headTs - anchor ELSE TsMod - anchor + headTs

Stop == /\ isPlaying
        /\ isPlaying' = FALSE
        /\ UNCHANGED <<streaming, streams, ctxVars, burst, packet, sent, ended, backlog,
                       controlVars, feedback, closed, late, result>>

\* close() ends the control channel and the RTSP connection, and no stream.
Close == /\ ~closed
         /\ closed' = TRUE
         /\ syncing' = FALSE
         /\ UNCHANGED <<streaming, streams, ctxVars, loopVars, backlog, anchor, feedback, late,
                       result>>

-----------------------------------------------------------------------------
StreamNext == \/ SendAudio \/ SocketReady \/ Published \/ LoopStarts \/ StepFails
              \/ StreamTornDown
              \/ SendPacket \/ PacketSent \/ Awake
              \/ Stop \/ Close

StreamSpec == StreamInit /\ [][StreamNext]_streamVars

-----------------------------------------------------------------------------
(* Properties *)

\* What the receiver gets for a number is the latest packet of this stream that
\* was sent under it, and none of the last BacklogSize packets is missing
\* (PacketFifo, handleRetransmit).
ResentIsRight ==
  \A seq \in Seqs :
    LET those == {i \in DOMAIN sent : sent[i].seq = seq}
    IN IF Resent(seq) # NoPacket
       THEN \E i \in those : Resent(seq) = sent[i] /\ \A j \in those : j <= i
       ELSE streaming \in {"read", "send", "sleep"} =>
              \A i \in those : i <= Len(sent) - BacklogSize

\* A stream that ends by itself has sent the whole source in order and then
\* silence for the latency and no packet more (sendPacket, streamLoop).
PlaysOut ==
  result = "played" =>
    \E audio \in 0..MaxAudio :
      /\ \A i \in DOMAIN sent : sent[i].plays = IF i <= audio THEN i ELSE Silence
      /\ LET silent == (Len(sent) - audio) * FramesPerPacket IN
         silent >= Latency /\ silent - FramesPerPacket < Latency

Playback == INSTANCE Playback WITH heard <- [i \in DOMAIN sent |-> sent[i].plays],
                                   outcome <- result

\* At every moment the receiver was sent the source from its beginning, in order
\* and without a gap, and silence only behind it; no stream begins before the one
\* before it has ended, and none counts as played that was cut short (sendPacket,
\* streamLoop, sendAudio).
ImplementsPlayback == Playback!Spec

\* While sync packets go out, their clock tells how much audio has been sent,
\* wherever the random timestamp started (start, ntpFromRtp).
SyncClock ==
  syncing => elapsed = Len(sent) * FramesPerPacket

\* Once stop() was called on a stream that plays, at most the packet of the round
\* and one burst still go out (stop, streamLoop, sendBurst).  This is what the code
\* does, and less than its comments say: see StopAfterPacket.
StopPrompt == late <= MaxBurst + 1

\* "Signal the streaming loop to stop after the current packet": once stop() was
\* called, the packet that is on its way is the last one (stop).  The code asks only
\* after the sleep that ends a round, and a burst may come before that.
StopAfterPacket == late <= 1
=============================================================================

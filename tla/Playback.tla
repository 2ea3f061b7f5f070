------------------------------ MODULE Playback ------------------------------
(***************************************************************************)
(* What a listener is promised of streams that follow each other: each     *)
(* plays its source from the beginning, in order and without a gap, and    *)
(* then as much silence as it takes for the last sound to leave the        *)
(* receiver's buffer; one that ends earlier was stopped or has failed.     *)
(* RaopStream is shown to implement this module.                           *)
(***************************************************************************)
EXTENDS Integers, Sequences

CONSTANTS MaxAudio,        \* packets a source may have
          FramesPerPacket, \* frames of a packet
          Latency          \* frames the receiver holds

VARIABLES heard,   \* packets of this stream: numbers of its source, then silence
          outcome  \* how it ended

vars == <<heard, outcome>>

Silence == 0

\* So far a packets of the source were played, and s of silence.
Heard(a, s) == heard = [i \in 1..(a + s) |-> IF i <= a THEN i ELSE Silence]

Init == /\ heard = <<>>
        /\ outcome = "none"

\* A stream begins once the one before it has ended.
Begin == /\ heard = <<>> \/ outcome # "none"
         /\ heard' = <<>>
         /\ outcome' = "none"

Play == /\ outcome = "none"
        /\ \E a \in 0..(MaxAudio - 1) : Heard(a, 0) /\ heard' = Append(heard, a + 1)
        /\ UNCHANGED outcome

\* The source is exhausted and the latency not yet filled.
Pad == /\ outcome = "none"
       /\ \E a \in 0..MaxAudio : \E s \in 0..Len(heard) :
             Heard(a, s) /\ s * FramesPerPacket < Latency
       /\ heard' = Append(heard, Silence)
       /\ UNCHANGED outcome

Finish == /\ outcome = "none"
          /\ \E a \in 0..MaxAudio : \E s \in 0..Len(heard) :
                Heard(a, s) /\ s * FramesPerPacket >= Latency
          /\ outcome' = "played"
          /\ UNCHANGED heard

Abort == /\ outcome = "none"
         /\ outcome' \in {"stopped", "failed"}
         /\ UNCHANGED heard

Next == Begin \/ Play \/ Pad \/ Finish \/ Abort

Spec == Init /\ [][Next]_vars
=============================================================================

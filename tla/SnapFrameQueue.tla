--------------------------- MODULE SnapFrameQueue ---------------------------
(***************************************************************************)
(* What a buffering processor (SnapProcessorRTOS, SnapProcessorRP2040,     *)
(* SnapProcessorBuffered) promises to the rest of the client: the encoded  *)
(* frames that writeAudio() accepts reach the decoder whole, each at most  *)
(* once and in the order they were accepted.  end() may discard what is    *)
(* still waiting, except a frame that is already on its way out.           *)
(*                                                                         *)
(* How a frame is cut into bytes, how the sizes travel beside the bytes    *)
(* and who moves them is the business of the implementations.              *)
(***************************************************************************)
EXTENDS Naturals, Sequences

CONSTANT Frames          \* the frames that can be offered to writeAudio()

VARIABLES queued,        \* accepted, not yet handed to the decoder
          delivered      \* handed to the decoder, in that order

vars == <<queued, delivered>>

TypeOK ==
  /\ queued \in Seq(Frames)
  /\ delivered \in Seq(Frames)

Init ==
  /\ queued = <<>>
  /\ delivered = <<>>

(* writeAudio() takes one more frame. *)
Accept(frame) ==
  /\ queued' = Append(queued, frame)
  /\ UNCHANGED delivered

(* The oldest frame goes to the decoder in one piece. *)
Deliver ==
  /\ queued # <<>>
  /\ delivered' = Append(delivered, Head(queued))
  /\ queued' = Tail(queued)

(* end(): everything is dropped but, at most, the frame in flight. *)
Flush ==
  /\ \/ queued' = <<>>
     \/ queued # <<>> /\ queued' = <<Head(queued)>>
  /\ UNCHANGED delivered

Next ==
  \/ \E frame \in Frames : Accept(frame)
  \/ Deliver
  \/ Flush

Spec == Init /\ [][Next]_vars
=============================================================================

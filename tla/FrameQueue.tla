----------------------------- MODULE FrameQueue -----------------------------
(***************************************************************************)
(* What framing promises the layers above it (src/framing.rs with          *)
(* send_frame and recv_frame of src/webrtc.rs): a queue of whole frames.   *)
(* The other modules use a connection through this promise.                *)
(*                                                                         *)
(* Frames come out in the order they went in, each exactly once.  When the *)
(* stream is damaged, by a frame sent in part or one of an illegal length, *)
(* that still holds for every frame sent before the damage.                *)
(***************************************************************************)
EXTENDS Naturals, Sequences

VARIABLES
  sent,    \* frames that went in before any damage
  got,     \* frames that came out
  intact

vars == <<sent, got, intact>>

Init == sent = <<>> /\ got = <<>> /\ intact = TRUE

\* One or several frames go in.
Send ==
  /\ intact
  /\ Len(sent') > Len(sent) /\ SubSeq(sent', 1, Len(sent)) = sent
  /\ UNCHANGED <<got, intact>>

Receive ==
  /\ Len(got) < Len(sent)
  /\ got' = Append(got, sent[Len(got) + 1])
  /\ UNCHANGED <<sent, intact>>

Damage ==
  /\ intact
  /\ intact' = FALSE
  /\ UNCHANGED <<sent, got>>

\* Past the damage the boundaries are lost: any frame may come out.
ReceiveGarbage ==
  /\ ~intact /\ Len(got) >= Len(sent)
  /\ Len(got') = Len(got) + 1 /\ SubSeq(got', 1, Len(got)) = got
  /\ UNCHANGED <<sent, intact>>

Next == Send \/ Receive \/ Damage \/ ReceiveGarbage

Spec == Init /\ [][Next]_vars
=============================================================================

------------------------------ MODULE Framing ------------------------------
(***************************************************************************)
(* src/framing.rs on bytes, between send_frame at one end of a data        *)
(* channel and recv_frame at the other (src/webrtc.rs).                    *)
(*                                                                         *)
(* A frame is a big-endian length prefix and a payload, cut into messages  *)
(* that the channel delivers reliably and in order.  The receiver collects *)
(* the messages in frame_buf and takes frames off its front.  The other    *)
(* end mirrors this code, but may cut its messages elsewhere and put       *)
(* several frames into one.                                                *)
(***************************************************************************)
EXTENDS Naturals, Sequences

CONSTANTS
  Base,             \* values of a byte (256 in the code)
  MaxMessage,       \* MAX_DC_MESSAGE_SIZE
  MaxFrame,         \* MAX_FRAME_SIZE
  MessageSizes,     \* sizes at which an end may cut its messages
  Payloads,         \* what is sent
  IllegalPayloads,  \* what only a faulty end sends: empty or too long
  MaxSends          \* bound: frames sent

ASSUME FramingAssumption ==
  /\ Base \in Nat \ {0, 1}
  /\ MaxMessage \in MessageSizes /\ MessageSizes \subseteq Nat \ {0}
  /\ MaxFrame \in 1..(Base * Base * Base * Base - 1)
  /\ MaxSends \in Nat

Byte == 0..(Base - 1)
ASSUME PayloadAssumption ==
  /\ \A p \in Payloads : p \in Seq(Byte) /\ Len(p) \in 1..MaxFrame
  /\ \A p \in IllegalPayloads : p \in Seq(Byte) /\ Len(p) \notin 1..MaxFrame

VARIABLES
  channel,    \* messages delivered or on their way, not yet read
  frame_buf,  \* the reassembly buffer
  pc,         \* "idle", or "await" inside recv_frame
  failed,     \* recv_frame has returned a length error
  sent, got,  \* history: the frames that went in (up to any damage) and came out
  damaged,    \* a frame went in torn or with an illegal length
  sends       \* counter for the bound

vars == <<channel, frame_buf, pc, failed, sent, got, damaged, sends>>

TypeOK ==
  /\ channel \in Seq(Seq(Byte) \ {<<>>})
  /\ frame_buf \in Seq(Byte)
  /\ pc \in {"idle", "await"}
  /\ failed \in BOOLEAN /\ damaged \in BOOLEAN
  /\ sent \in Seq(Payloads)
  /\ got \in Seq(Seq(Byte)) /\ \A i \in DOMAIN got : Len(got[i]) \in 1..MaxFrame
  /\ sends \in 0..MaxSends

Init ==
  /\ channel = <<>> /\ frame_buf = <<>>
  /\ pc = "idle" /\ failed = FALSE /\ damaged = FALSE
  /\ sent = <<>> /\ got = <<>>
  /\ sends = 0

-----------------------------------------------------------------------------
(* The sending end                                                         *)

\* (n as u32).to_be_bytes()
PrefixLen == 4
ToBe(n) ==
  LET h == n \div Base
      k == h \div Base
      m == k \div Base
  IN <<m % Base, k % Base, h % Base, n % Base>>

EncodeFrame(payload) == ToBe(Len(payload)) \o payload

WholeMessagesOnly(wire, size) ==
  [k \in 1..(Len(wire) \div size) |-> SubSeq(wire, (k - 1) * size + 1, k * size)]

\* wire.chunks(size): the last message is what remains.
SplitMessages(wire, size) ==
  [k \in 1..((Len(wire) + size - 1) \div size) |->
     SubSeq(wire, (k - 1) * size + 1, IF k * size < Len(wire) THEN k * size ELSE Len(wire))]

Batches == {<<p>> : p \in Payloads} \cup {<<p, q>> : p, q \in Payloads}
Wire(ps) == IF Len(ps) = 1 THEN EncodeFrame(ps[1])
                           ELSE EncodeFrame(ps[1]) \o EncodeFrame(ps[2])

\* send_frame is the case of one payload cut at MaxMessage.
SendFrames(payloads, size) ==
  /\ sends + Len(payloads) <= MaxSends
  /\ sends' = sends + Len(payloads)
  /\ channel' = channel \o SplitMessages(Wire(payloads), size)
  /\ sent' = IF damaged THEN sent ELSE sent \o payloads
  /\ UNCHANGED <<frame_buf, pc, failed, got, damaged>>

\* send_frame fails after k messages of the frame, or the other end sends a
\* frame of illegal length.
SendDamaged ==
  /\ ~damaged /\ damaged' = TRUE
  /\ sends < MaxSends
  /\ sends' = sends + 1
  /\ \/ \E p \in Payloads :
          LET messages == SplitMessages(EncodeFrame(p), MaxMessage)
          IN \E k \in 1..(Len(messages) - 1) : channel' = channel \o SubSeq(messages, 1, k)
     \/ \E p \in IllegalPayloads :
          channel' = channel \o SplitMessages(EncodeFrame(p), MaxMessage)
  /\ UNCHANGED <<frame_buf, pc, failed, sent, got>>

-----------------------------------------------------------------------------
(* The receiving end                                                       *)

\* u32::from_be_bytes of the first four bytes.
FromBe(d1, d2, d3, d4) == ((d1 * Base + d2) * Base + d3) * Base + d4
Declared(buf) == FromBe(buf[1], buf[2], buf[3], buf[4])

FoundUnchecked(buf) ==
  IF Len(buf) < PrefixLen \/ Len(buf) < PrefixLen + Declared(buf) THEN "none" ELSE "frame"

\* What FrameBuf::push finds at the front of the buffer.
Found(buf) ==
  IF Len(buf) < PrefixLen THEN "none"
  ELSE IF Declared(buf) \notin 1..MaxFrame THEN "error"
  ELSE IF Len(buf) < PrefixLen + Declared(buf) THEN "none"
  ELSE "frame"

FirstFrame(buf) == SubSeq(buf, PrefixLen + 1, PrefixLen + Declared(buf))

\* The buffer push leaves: only a complete frame is drained.
RemainderClearing(buf) ==
  IF Found(buf) = "frame" THEN SubSeq(buf, PrefixLen + Declared(buf) + 1, Len(buf))
  ELSE IF Found(buf) = "error" THEN <<>> ELSE buf
RemainderKept(buf) == buf
Remainder(buf) ==
  IF Found(buf) = "frame" THEN SubSeq(buf, PrefixLen + Declared(buf) + 1, Len(buf)) ELSE buf

\* push(data) inside recv_frame: return the frame or the error, or await.
Push(buf) ==
  /\ frame_buf' = Remainder(buf)
  /\ got' = IF Found(buf) = "frame" THEN Append(got, FirstFrame(buf)) ELSE got
  /\ failed' = (failed \/ Found(buf) = "error")
  /\ pc' = IF Found(buf) = "none" THEN "await" ELSE "idle"

RecvFrameUndrained ==
  /\ pc = "idle"
  /\ pc' = "await"
  /\ UNCHANGED <<channel, frame_buf, failed, sent, got, damaged, sends>>

\* recv_frame is called: push(&[]) first drains what is already buffered.
RecvFrame ==
  /\ pc = "idle"
  /\ Push(frame_buf)
  /\ UNCHANGED <<channel, sent, damaged, sends>>

\* The awaited message arrives.  Without a complete frame the loop pushes
\* nothing once more and awaits again.
MessageReceived ==
  /\ pc = "await" /\ channel # <<>>
  /\ channel' = Tail(channel)
  /\ Push(frame_buf \o Head(channel))
  /\ UNCHANGED <<sent, damaged, sends>>

-----------------------------------------------------------------------------
Next ==
  \/ \E ps \in Batches, size \in MessageSizes : SendFrames(ps, size)
  \/ SendDamaged
  \/ RecvFrame
  \/ MessageReceived

\* The layer above keeps receiving, and a message that arrived wakes it.
Spec == Init /\ [][Next]_vars /\ WF_vars(RecvFrame) /\ WF_vars(MessageReceived)

-----------------------------------------------------------------------------
(* Properties                                                              *)

\* However frames are cut into messages, recv_frame returns the frames that
\* send_frame was given: in order, each once, none merged or shortened; and
\* those sent before a torn or illegal frame are not affected by it.
Queue == INSTANCE FrameQueue WITH intact <- ~damaged
WholeFramesInOrder == Queue!Spec

\* recv_frame never waits for a message while a complete frame is buffered
\* (the second of two frames that came in one message would be late until
\* the node speaks again, and the caller waiting for it would hang).
NothingStranded == pc = "await" => Found(frame_buf) = "none"

\* A length error is final: the offending prefix stays at the front, and no
\* later recv_frame resynchronises on the bytes behind it and returns one of
\* them as a frame.
LengthErrorSticks == [][failed => got' = got /\ frame_buf' = frame_buf]_vars

\* Every frame sent before any damage is received.
EveryFrameArrives == \A n \in 1..MaxSends : Len(sent) >= n ~> Len(got) >= n
=============================================================================

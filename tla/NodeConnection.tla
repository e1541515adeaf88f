--------------------------- MODULE NodeConnection ---------------------------
(***************************************************************************)
(* One established connection to one node: src/conn.rs over the receive    *)
(* path of src/webrtc.rs, after the PQC handshake.                         *)
(*                                                                         *)
(* Any number of tasks share the connection through an Rc.  Each issues    *)
(* requests with get_verified, closest_peers, signal_relay or              *)
(* chunk_round_trip; all four go through round_trip, which holds           *)
(* request_lock from taking a sequence number until it has read one frame. *)
(* A task runs without interruption between two awaits, so every action    *)
(* below is the code between two awaits.                                   *)
(*                                                                         *)
(* The node and the browser's data channel are external: the node answers, *)
(* stays silent, repeats an answer or sends bytes that are no answer, and  *)
(* the channel closes at any moment.  A chunk's content is identified with *)
(* its BLAKE3 address, so "hashes to a" is "equals a".                     *)
(***************************************************************************)
EXTENDS Naturals, Sequences

CONSTANTS
  Callers,      \* tasks that hold an Rc to this connection
  Ops,          \* the operations they call (a subset of AllOps)
  Addresses,    \* content addresses, and the contents they name
  None,         \* no lock holder
  MaxSeq,       \* MAX_SEQ (u32::MAX - 1 in the code)
  MaxCalls,     \* bound: calls issued on the connection
  MaxFaults     \* bound: misbehaviours of the node and failed sends

ASSUME MaxSeqAssumption == MaxSeq \in Nat \ {0}
ASSUME BoundsAssumption == MaxCalls \in Nat /\ MaxFaults \in Nat
ASSUME NoneAssumption == None \notin Callers

AllOps == {"get_verified", "closest_peers", "signal_relay", "chunk_round_trip"}
ASSUME OpsAssumption == Ops \subseteq AllOps

\* PROTO_CHUNK, PROTO_DISCOVERY, PROTO_SIGNAL
Lanes == {1, 2, 3}
Lane(op) == CASE op = "closest_peers" -> 2
              [] op = "signal_relay"  -> 3
              [] OTHER                -> 1

VARIABLES
  pc,            \* "idle", "lock" (awaiting request_lock), "recv" (in recv_frame)
  req,           \* the request of a task's latest call
  seq,           \* the sequence number that call took, 0 before
  outcome,       \* what that call returned
  request_lock,  \* the task holding request_lock, or None
  next_seq,      \* next sequence number
  channel,       \* the data channel: "open", "closing", "closed"
  outgoing,      \* frames on their way to the node
  inbox,         \* frames received and not yet read, oldest first
  calls, faults, \* counters for the bounds
  silent,        \* the node took a request and will not answer it
  sealed         \* history: every (nonce, request) seal_request encrypted

taskVars == <<pc, req, seq, outcome>>
vars == <<pc, req, seq, outcome, request_lock, next_seq, channel,
          outgoing, inbox, calls, faults, silent, sealed>>

Request == [op : AllOps, addr : Addresses, id : Nat]
Outgoing == [seq : Nat, req : Request, torn : BOOLEAN]

\* "answer" opens under the session key; "junk" is a complete frame that does
\* not; "badlen" is a length prefix FrameBuf::push rejects.  A "garbled" body
\* opens and does not decode as a message of its lane.
Frame == [kind : {"answer", "junk", "badlen"}, seq : Nat, tag : Lanes,
          body : {"success", "refused", "garbled"},
          addr : Addresses, content : Addresses]

Outcome == [status : {"none", "ok", "err"}, seq : Nat, content : Addresses]

TypeOK ==
  /\ pc \in [Callers -> {"idle", "lock", "recv"}]
  /\ req \in [Callers -> Request]
  /\ seq \in [Callers -> Nat]
  /\ outcome \in [Callers -> Outcome]
  /\ request_lock \in Callers \cup {None}
  /\ next_seq \in 1..MaxSeq
  /\ channel \in {"open", "closing", "closed"}
  /\ outgoing \in Seq(Outgoing)
  /\ inbox \in Seq(Frame)
  /\ calls \in Nat /\ faults \in Nat
  /\ silent \in BOOLEAN
  /\ sealed \in Seq([seq : Nat, req : Request])

Init ==
  /\ pc = [c \in Callers |-> "idle"]
  /\ \E a \in Addresses :
       /\ req = [c \in Callers |-> [op |-> "get_verified", addr |-> a, id |-> 0]]
       /\ outcome = [c \in Callers |-> [status |-> "none", seq |-> 0, content |-> a]]
  /\ seq = [c \in Callers |-> 0]
  /\ request_lock = None
  /\ next_seq = 1
  /\ channel = "open"
  /\ outgoing = <<>> /\ inbox = <<>> /\ sealed = <<>>
  /\ calls = 0 /\ faults = 0
  /\ silent = FALSE

-----------------------------------------------------------------------------
(* The client                                                              *)

\* The call returns an error: the guard is dropped, the task is free again.
Fail(c) ==
  /\ outcome' = [outcome EXCEPT ![c].status = "err"]
  /\ pc' = [pc EXCEPT ![c] = "idle"]
  /\ request_lock' = None

\* A task builds a request and starts round_trip: it awaits request_lock.
Call(c, op, a) ==
  /\ pc[c] = "idle"
  /\ calls < MaxCalls
  /\ calls' = calls + 1
  /\ req' = [req EXCEPT ![c] = [op |-> op, addr |-> a, id |-> calls + 1]]
  /\ seq' = [seq EXCEPT ![c] = 0]
  /\ outcome' = [outcome EXCEPT ![c].status = "none"]
  /\ pc' = [pc EXCEPT ![c] = "lock"]
  /\ UNCHANGED <<request_lock, next_seq, channel, outgoing, inbox, faults, silent, sealed>>

LockIgnored == TRUE
LockFree == request_lock = None

ExhaustedLate(n) == n > MaxSeq
Exhausted(n) == n >= MaxSeq

\* round_trip up to the first failure: next_seq() refuses to go further.
SendExhausted(c) ==
  /\ pc[c] = "lock" /\ LockFree
  /\ Exhausted(next_seq)
  /\ Fail(c)
  /\ UNCHANGED <<req, seq, next_seq, channel, outgoing, inbox, calls, faults, silent, sealed>>

SealKeepingSeq(c) ==
  /\ pc[c] = "lock" /\ LockFree
  /\ ~Exhausted(next_seq)
  /\ next_seq' = IF channel = "open" THEN next_seq + 1 ELSE next_seq
  /\ seq' = [seq EXCEPT ![c] = next_seq]
  /\ sealed' = Append(sealed, [seq |-> next_seq, req |-> req[c]])

\* next_seq() and seal_request(): the number is taken and used as a nonce.
Seal(c) ==
  /\ pc[c] = "lock" /\ LockFree
  /\ ~Exhausted(next_seq)
  /\ next_seq' = next_seq + 1
  /\ seq' = [seq EXCEPT ![c] = next_seq]
  /\ sealed' = Append(sealed, [seq |-> next_seq, req |-> req[c]])

\* send_frame succeeds: the frame is on the wire and recv_frame is awaited
\* with the lock held.
SendFrame(c) ==
  /\ Seal(c)
  /\ channel = "open"
  /\ outgoing' = Append(outgoing, [seq |-> next_seq, req |-> req[c], torn |-> FALSE])
  /\ request_lock' = c
  /\ pc' = [pc EXCEPT ![c] = "recv"]
  /\ UNCHANGED <<req, outcome, channel, inbox, calls, faults, silent>>

\* send_frame fails on a channel that is no longer open: nothing was sent.
SendOnDeadChannel(c) ==
  /\ Seal(c)
  /\ channel # "open"
  /\ Fail(c)
  /\ UNCHANGED <<req, channel, outgoing, inbox, calls, faults, silent>>

\* send_frame fails after some of the frame's messages were sent (a full send
\* buffer): the stream to the node now starts with part of a frame.
SendTorn(c) ==
  /\ Seal(c)
  /\ channel = "open"
  /\ faults < MaxFaults
  /\ faults' = faults + 1
  /\ outgoing' = Append(outgoing, [seq |-> next_seq, req |-> req[c], torn |-> TRUE])
  /\ Fail(c)
  /\ UNCHANGED <<req, channel, inbox, calls, silent>>

\* What recv_frame leaves behind: a rejected length prefix stays in frame_buf.
AfterReadSkipping(q) == Tail(q)
AfterRead(q) == IF Head(q).kind = "badlen" THEN q ELSE Tail(q)

\* open_response, the sequence and tag checks of round_trip, then the caller's
\* decoding and its own match on the body: chunk_round_trip leaves that match to
\* its caller.
AcceptsAnySeq(r, s, f) ==
  /\ f.kind = "answer"
  /\ f.tag = Lane(r.op)
  /\ f.body = "success" \/ (r.op = "chunk_round_trip" /\ f.body = "refused")
  /\ r.op = "get_verified" => f.addr = r.addr /\ f.content = r.addr

Accepts(r, s, f) ==
  /\ f.kind = "answer"
  /\ f.seq = s
  /\ f.tag = Lane(r.op)
  /\ f.body = "success" \/ (r.op = "chunk_round_trip" /\ f.body = "refused")
  /\ r.op = "get_verified" => f.addr = r.addr /\ f.content = r.addr

\* recv_frame resolves with an acceptable response.
RecvOk(c) ==
  /\ pc[c] = "recv"
  /\ inbox # <<>>
  /\ Accepts(req[c], seq[c], Head(inbox))
  /\ inbox' = AfterRead(inbox)
  /\ outcome' = [outcome EXCEPT ![c] = [status |-> "ok", seq |-> Head(inbox).seq,
                                        content |-> Head(inbox).content]]
  /\ pc' = [pc EXCEPT ![c] = "idle"]
  /\ request_lock' = None
  /\ UNCHANGED <<req, seq, next_seq, channel, outgoing, calls, faults, silent, sealed>>

\* recv_frame fails on the length prefix, or resolves with a frame one of the
\* checks rejects.
RecvRejected(c) ==
  /\ pc[c] = "recv"
  /\ inbox # <<>>
  /\ ~Accepts(req[c], seq[c], Head(inbox))
  /\ inbox' = AfterRead(inbox)
  /\ Fail(c)
  /\ UNCHANGED <<req, seq, next_seq, channel, outgoing, calls, faults, silent, sealed>>

\* The receiver has ended: every frame that had arrived was read first.
RecvClosed(c) ==
  /\ pc[c] = "recv"
  /\ inbox = <<>>
  /\ channel = "closed"
  /\ Fail(c)
  /\ UNCHANGED <<req, seq, next_seq, channel, outgoing, inbox, calls, faults, silent, sealed>>

-----------------------------------------------------------------------------
(* The node and the channel (external)                                     *)

\* A misaligned stream yields no frame the node could open.
CanServe == channel # "closed" /\ outgoing # <<>> /\ ~Head(outgoing).torn

\* What a node may put in an answer to request o: it serves or refuses, and
\* the address it echoes and the content of a GET are its own choice; the
\* sequence number is the request's.
Answers(o) ==
  LET choice == IF o.req.op = "get_verified" THEN Addresses ELSE {o.req.addr}
  IN [kind : {"answer"}, seq : {o.seq}, tag : {Lane(o.req.op)},
      body : {"success"}, addr : choice, content : choice]
     \cup
     [kind : {"answer"}, seq : {o.seq}, tag : {Lane(o.req.op)},
      body : {"refused"}, addr : {o.req.addr}, content : {o.req.addr}]

NodeAnswers ==
  /\ CanServe
  /\ \E f \in Answers(Head(outgoing)) : inbox' = Append(inbox, f)
  /\ outgoing' = Tail(outgoing)
  /\ UNCHANGED <<taskVars, request_lock, next_seq, channel, calls, faults, silent, sealed>>

\* The node answers twice.
NodeRepeats ==
  /\ CanServe
  /\ faults < MaxFaults
  /\ faults' = faults + 1
  /\ \E f \in Answers(Head(outgoing)) : inbox' = inbox \o <<f, f>>
  /\ outgoing' = Tail(outgoing)
  /\ UNCHANGED <<taskVars, request_lock, next_seq, channel, calls, silent, sealed>>

\* The node answers with another lane's tag, with a body that does not decode, or
\* with bytes that are no answer.
NodeGarbles ==
  /\ CanServe
  /\ faults < MaxFaults
  /\ faults' = faults + 1
  /\ LET o == Head(outgoing)
         f == [kind |-> "answer", seq |-> o.seq, tag |-> Lane(o.req.op),
               body |-> "success", addr |-> o.req.addr, content |-> o.req.addr]
     IN \/ \E t \in Lanes \ {f.tag} : inbox' = Append(inbox, [f EXCEPT !.tag = t])
        \/ inbox' = Append(inbox, [f EXCEPT !.body = "garbled"])
        \/ \E k \in {"junk", "badlen"} : inbox' = Append(inbox, [f EXCEPT !.kind = k])
  /\ outgoing' = Tail(outgoing)
  /\ UNCHANGED <<taskVars, request_lock, next_seq, channel, calls, silent, sealed>>

\* The node takes a request and never answers it.
NodeIgnores ==
  /\ CanServe
  /\ faults < MaxFaults
  /\ faults' = faults + 1
  /\ silent' = TRUE
  /\ outgoing' = Tail(outgoing)
  /\ UNCHANGED <<taskVars, request_lock, next_seq, channel, inbox, calls, sealed>>

\* The channel leaves "open": sends fail from here on.
BeginClose ==
  /\ channel = "open"
  /\ channel' = "closing"
  /\ UNCHANGED <<taskVars, request_lock, next_seq, outgoing, inbox, calls, faults, silent, sealed>>

OnCloseUnwired ==
  channel = "closing" /\ UNCHANGED vars

\* The close event: on_close ends the receiver's channel.
OnClose ==
  /\ channel = "closing"
  /\ channel' = "closed"
  /\ UNCHANGED <<taskVars, request_lock, next_seq, outgoing, inbox, calls, faults, silent, sealed>>

-----------------------------------------------------------------------------
ClientStep(c) ==
  \/ SendExhausted(c) \/ SendFrame(c) \/ SendOnDeadChannel(c) \/ SendTorn(c)
  \/ RecvOk(c) \/ RecvRejected(c) \/ RecvClosed(c)

Environment ==
  NodeAnswers \/ NodeRepeats \/ NodeGarbles \/ NodeIgnores \/ BeginClose \/ OnClose

\* Every call that was allowed has returned.
Quiet == calls = MaxCalls /\ (\A c \in Callers : pc[c] = "idle") /\ UNCHANGED vars

Next ==
  \/ \E c \in Callers, op \in Ops, a \in Addresses : Call(c, op, a)
  \/ \E c \in Callers : ClientStep(c)
  \/ Environment
  \/ Quiet

Spec == Init /\ [][Next]_vars

\* Wasm tasks that can run are run, the browser delivers the close event of a
\* closing channel, and the node works off the requests that reach it.
Fairness ==
  /\ \A c \in Callers : WF_vars(ClientStep(c))
  /\ WF_vars(NodeAnswers)
  /\ WF_vars(OnClose)

FairSpec == Spec /\ Fairness

-----------------------------------------------------------------------------
(* Properties                                                              *)

\* src/webrtc.rs holds a RefCell borrow of the receiver across the await of
\* recv_frame; a second concurrent recv_frame would panic.  No two tasks are
\* ever in recv_frame, and the one that is holds request_lock.
OneReceiver ==
  \A c \in Callers : pc[c] = "recv" => /\ request_lock = c
                                       /\ \A d \in Callers : pc[d] = "recv" => d = c

\* ChaCha20-Poly1305 requires that seal_request never encrypts two plaintexts
\* under one nonce; the nonce is the sequence number.  Failed sends, retries
\* and concurrent callers never make it repeat.
NonceNeverReused ==
  \A i, j \in 1..Len(sealed) : sealed[i].seq = sealed[j].seq => i = j

\* A call that returns Ok returns the node's answer to the very request it
\* sealed, never the late or repeated answer to another task's request or to
\* an earlier one of its own; and get_verified returns the bytes the address
\* names (README: a node "cannot return different bytes").
OkIsOwnVerifiedAnswer ==
  \A c \in Callers : outcome[c].status = "ok" =>
    /\ \E i \in 1..Len(sealed) : sealed[i] = [seq |-> outcome[c].seq, req |-> req[c]]
    /\ req[c].op = "get_verified" => outcome[c].content = req[c].addr

\* Behind frames, sequence numbers and queued tasks, the connection is a
\* connection whose calls take turns (module VerifiedCalls): each Ok answer
\* ends the one exchange that is under way, and no exchange begins before.
Calls == INSTANCE VerifiedCalls WITH
  calling <- [c \in Callers |-> pc[c] # "idle"], request <- req, exchange <- request_lock
CallsTakeTurns == Calls!Spec

\* Once FrameBuf has met a length prefix it rejects, the frame boundaries are
\* lost: the connection never recovers, and no later call on it succeeds.
FramingLost == inbox # <<>> /\ Head(inbox).kind = "badlen"
FramingErrorIsFinal ==
  [][FramingLost =>
       /\ FramingLost'
       /\ \A c \in Callers : outcome'[c].status = "ok" => outcome'[c] = outcome[c]]_vars

\* round_trip has no timeout.  A call can only hang because the node stays
\* silent (or lost the frame boundaries) on a channel that stays open;
\* otherwise every call, queued ones included, returns.
NodeSilent == silent \/ (outgoing # <<>> /\ Head(outgoing).torn)
OnlySilenceBlocks ==
  \A c \in Callers :
    pc[c] # "idle" ~> (pc[c] = "idle" \/ (NodeSilent /\ channel = "open"))
=============================================================================

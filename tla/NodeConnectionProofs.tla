------------------------ MODULE NodeConnectionProofs ------------------------
(***************************************************************************)
(* Safety of NodeConnection for every set of callers, every set of          *)
(* contents and every MaxSeq, MaxCalls and MaxFaults.                        *)
(*                                                                         *)
(* The inductive invariant ties the three places that know a request: the   *)
(* history of sealed requests, numbered 1, 2, ... without a gap; the task    *)
(* in recv_frame, whose request and number are an entry of that history;    *)
(* and the lock, held exactly by that task.                                 *)
(***************************************************************************)
EXTENDS NodeConnection, TLAPS

\* The history is exactly the sequence numbers handed out so far, in order.
SealedInOrder ==
  /\ Len(sealed) = next_seq - 1
  /\ \A i \in 1..Len(sealed) : sealed[i].seq = i

\* The task that awaits an answer sealed its request under its number.
AwaitedIsSealed ==
  \A c \in Callers : pc[c] = "recv" =>
    \E i \in 1..Len(sealed) : sealed[i] = [seq |-> seq[c], req |-> req[c]]

\* Whoever holds request_lock between two awaits is in recv_frame.
HolderReceives ==
  request_lock # None => pc[request_lock] = "recv"

IInv ==
  /\ TypeOK
  /\ OneReceiver
  /\ HolderReceives
  /\ SealedInOrder
  /\ AwaitedIsSealed
  /\ OkIsOwnVerifiedAnswer

-----------------------------------------------------------------------------
\* Reading the inbox yields a frame and leaves a sequence of frames.
LEMMA ReadingTyped ==
  ASSUME NEW q \in Seq(Frame), q # <<>>
  PROVE  Head(q) \in Frame /\ AfterRead(q) \in Seq(Frame)
BY DEF AfterRead

\* The initial state satisfies the invariant.
LEMMA InitIInv == Init => IInv
<1> SUFFICES ASSUME Init PROVE IInv
  OBVIOUS
<1> USE MaxSeqAssumption DEF Init
<1>1. TypeOK
  <2>1. PICK a \in Addresses :
          /\ req = [c \in Callers |-> [op |-> "get_verified", addr |-> a, id |-> 0]]
          /\ outcome = [c \in Callers |-> [status |-> "none", seq |-> 0, content |-> a]]
    OBVIOUS
  <2>2. req \in [Callers -> Request]
    BY <2>1 DEF Request, AllOps
  <2>3. outcome \in [Callers -> Outcome]
    BY <2>1 DEF Outcome
  <2>4. next_seq \in 1..MaxSeq
    BY MaxSeqAssumption
  <2>5. pc \in [Callers -> {"idle", "lock", "recv"}] /\ seq \in [Callers -> Nat]
    OBVIOUS
  <2>6. outgoing \in Seq(Outgoing) /\ inbox \in Seq(Frame)
    OBVIOUS
  <2>7. sealed \in Seq([seq : Nat, req : Request])
    OBVIOUS
  <2>8. /\ request_lock \in Callers \cup {None} /\ channel \in {"open", "closing", "closed"}
        /\ silent \in BOOLEAN
    OBVIOUS
  <2>9. calls \in Nat /\ faults \in Nat
    OBVIOUS
  <2> QED
    BY <2>2, <2>3, <2>4, <2>5, <2>6, <2>7, <2>8, <2>9 DEF TypeOK
<1>2. OneReceiver /\ HolderReceives /\ AwaitedIsSealed
  BY DEF OneReceiver, HolderReceives, AwaitedIsSealed
<1>3. SealedInOrder
  BY DEF SealedInOrder
<1>4. OkIsOwnVerifiedAnswer
  BY DEF OkIsOwnVerifiedAnswer
<1> QED
  BY <1>1, <1>2, <1>3, <1>4 DEF IInv

\* Steps that append to the history keep every entry in it and add one.
LEMMA SealExtends ==
  ASSUME IInv, NEW c \in Callers, Seal(c)
  PROVE  /\ next_seq' \in 1..MaxSeq
         /\ seq' \in [Callers -> Nat]
         /\ sealed' \in Seq([seq : Nat, req : Request])
         /\ SealedInOrder'
         /\ Len(sealed') = Len(sealed) + 1
         /\ Len(sealed) \in Nat
         /\ \A i \in 1..Len(sealed) : i \in 1..Len(sealed') /\ sealed'[i] = sealed[i]
         /\ Len(sealed') \in 1..Len(sealed')
         /\ sealed'[Len(sealed')] = [seq |-> seq'[c], req |-> req[c]]
         /\ \A d \in Callers : pc[d] # "recv"
<1> DEFINE e == [seq |-> next_seq, req |-> req[c]]
<1>1. /\ next_seq \in 1..MaxSeq /\ ~(next_seq >= MaxSeq)
      /\ next_seq' = next_seq + 1
      /\ sealed' = Append(sealed, e)
      /\ seq' = [seq EXCEPT ![c] = next_seq]
      /\ request_lock = None
  BY DEF IInv, TypeOK, Seal, Exhausted, LockFree
<1>2. next_seq \in Nat /\ next_seq' \in 1..MaxSeq
  BY <1>1, MaxSeqAssumption
<1>3. e \in [seq : Nat, req : Request] /\ e.seq = next_seq
  BY <1>2 DEF IInv, TypeOK
<1>4. sealed \in Seq([seq : Nat, req : Request]) /\ seq \in [Callers -> Nat]
  BY DEF IInv, TypeOK
<1> HIDE DEF e
<1>5. /\ sealed' \in Seq([seq : Nat, req : Request])
      /\ Len(sealed') = Len(sealed) + 1
      /\ Len(sealed) \in Nat
      /\ \A i \in 1..Len(sealed) : i \in 1..Len(sealed') /\ sealed'[i] = sealed[i]
      /\ Len(sealed') \in 1..Len(sealed')
      /\ sealed'[Len(sealed')] = e
  BY <1>1, <1>3, <1>4
<1>6. seq' \in [Callers -> Nat] /\ seq'[c] = next_seq
  BY <1>1, <1>2, <1>4
<1>7. SealedInOrder'
  <2>1. Len(sealed) = next_seq - 1 /\ \A i \in 1..Len(sealed) : sealed[i].seq = i
    BY DEF IInv, SealedInOrder
  <2>2. Len(sealed') = next_seq' - 1
    BY <2>1, <1>1, <1>2, <1>5
  <2>3. ASSUME NEW i \in 1..Len(sealed') PROVE sealed'[i].seq = i
    <3>1. CASE i \in 1..Len(sealed)
      BY <3>1, <2>1, <1>5
    <3>2. CASE i = Len(sealed')
      BY <3>2, <2>1, <1>2, <1>3, <1>5
    <3> QED
      BY <3>1, <3>2, <1>4, <1>5
  <2> QED
    BY <2>2, <2>3 DEF SealedInOrder
<1>8. \A d \in Callers : pc[d] # "recv"
  BY <1>1, NoneAssumption DEF IInv, OneReceiver
<1> QED
  BY <1>2, <1>5, <1>6, <1>7, <1>8 DEF e

\* What a call that returned Ok rests on survives a step that extends the
\* history and leaves the request alone.
LEMMA OkKept ==
  ASSUME IInv,
         \A i \in 1..Len(sealed) : i \in 1..Len(sealed') /\ sealed'[i] = sealed[i],
         \A d \in Callers : outcome'[d].status = "ok" =>
            outcome'[d] = outcome[d] /\ req'[d] = req[d]
  PROVE  OkIsOwnVerifiedAnswer'
BY DEF IInv, OkIsOwnVerifiedAnswer

-----------------------------------------------------------------------------
\* No client step breaks the invariant.
LEMMA ClientIInv ==
  ASSUME IInv, NEW c \in Callers, ClientStep(c)
  PROVE  IInv'
<1> USE DEF IInv
<1>1. CASE SendExhausted(c)
  <2> USE <1>1 DEF SendExhausted, Fail, LockFree
  <2>1. TypeOK'
    BY DEF TypeOK, Outcome
  <2>2. OneReceiver' /\ HolderReceives' /\ AwaitedIsSealed'
    BY NoneAssumption DEF OneReceiver, HolderReceives, AwaitedIsSealed, TypeOK
  <2>3. SealedInOrder'
    BY DEF SealedInOrder
  <2>4. OkIsOwnVerifiedAnswer'
    BY DEF OkIsOwnVerifiedAnswer, TypeOK, Outcome
  <2> QED
    BY <2>1, <2>2, <2>3, <2>4
<1>2. CASE SendFrame(c)
  <2> USE <1>2 DEF SendFrame
  <2>0. Seal(c)
    OBVIOUS
  <2>1. TypeOK'
    <3>1. [seq |-> next_seq, req |-> req[c], torn |-> FALSE] \in Outgoing
      BY DEF TypeOK, Outgoing
    <3>2. outgoing' \in Seq(Outgoing)
      BY <3>1 DEF TypeOK
    <3> QED
      BY <2>0, <3>2, SealExtends DEF TypeOK
  <2>2. OneReceiver' /\ HolderReceives'
    BY <2>0, SealExtends, NoneAssumption DEF OneReceiver, HolderReceives, TypeOK
  <2>3. SealedInOrder'
    BY <2>0, SealExtends
  <2>4. AwaitedIsSealed'
    <3>1. Len(sealed') \in 1..Len(sealed')
      BY <2>0, SealExtends DEF TypeOK
    <3>2. \A d \in Callers : pc'[d] = "recv" => d = c
      BY <2>0, SealExtends DEF TypeOK
    <3> QED
      BY <2>0, <3>1, <3>2, SealExtends DEF AwaitedIsSealed
  <2>5. OkIsOwnVerifiedAnswer'
    <3>1. \A i \in 1..Len(sealed) : i \in 1..Len(sealed') /\ sealed'[i] = sealed[i]
      BY <2>0, SealExtends DEF TypeOK
    <3> QED
      BY <3>1, OkKept
  <2> QED
    BY <2>1, <2>2, <2>3, <2>4, <2>5
<1>3. CASE SendOnDeadChannel(c) \/ SendTorn(c)
  <2>0. /\ Seal(c) /\ Fail(c)
        /\ UNCHANGED <<req, channel, inbox, calls, silent>>
    BY <1>3 DEF SendOnDeadChannel, SendTorn
  <2>1. TypeOK'
    <3>1. [seq |-> next_seq, req |-> req[c], torn |-> TRUE] \in Outgoing
      BY DEF TypeOK, Outgoing
    <3>2. outgoing' \in Seq(Outgoing) /\ faults' \in Nat
      <4>1. outgoing \in Seq(Outgoing) /\ faults \in Nat
        BY DEF TypeOK
      <4>2. CASE SendOnDeadChannel(c)
        BY <4>1, <4>2 DEF SendOnDeadChannel
      <4>3. CASE SendTorn(c)
        BY <4>1, <4>3, <3>1 DEF SendTorn
      <4> QED
        BY <4>2, <4>3, <1>3
    <3>3. outcome' \in [Callers -> Outcome]
      BY <2>0 DEF TypeOK, Fail, Outcome
    <3> QED
      BY <2>0, <3>2, <3>3, SealExtends DEF TypeOK, Fail
  <2>2. \A d \in Callers : pc'[d] # "recv"
    BY <2>0, SealExtends DEF Fail, TypeOK
  <2>3. OneReceiver' /\ HolderReceives' /\ AwaitedIsSealed'
    BY <2>0, <2>2 DEF OneReceiver, HolderReceives, AwaitedIsSealed, Fail
  <2>4. SealedInOrder'
    BY <2>0, SealExtends
  <2>5. OkIsOwnVerifiedAnswer'
    <3>1. \A i \in 1..Len(sealed) : i \in 1..Len(sealed') /\ sealed'[i] = sealed[i]
      BY <2>0, SealExtends DEF TypeOK
    <3>2. \A d \in Callers : outcome'[d].status = "ok" =>
            outcome'[d] = outcome[d] /\ req'[d] = req[d]
      BY <2>0 DEF Fail, TypeOK, Outcome
    <3> QED
      BY <3>1, <3>2, OkKept
  <2> QED
    BY <2>1, <2>3, <2>4, <2>5
<1>4. CASE RecvOk(c)
  <2> USE <1>4 DEF RecvOk
  <2>0. Head(inbox) \in Frame /\ inbox' \in Seq(Frame)
    BY ReadingTyped DEF TypeOK
  <2>1. TypeOK'
    BY <2>0 DEF TypeOK, Outcome, Frame
  <2>2. \A d \in Callers : pc'[d] # "recv"
    BY DEF OneReceiver, TypeOK
  <2>3. OneReceiver' /\ HolderReceives' /\ AwaitedIsSealed'
    BY <2>2 DEF OneReceiver, HolderReceives, AwaitedIsSealed
  <2>4. SealedInOrder'
    BY DEF SealedInOrder
  <2>5. OkIsOwnVerifiedAnswer'
    <3> SUFFICES ASSUME NEW d \in Callers, outcome'[d].status = "ok"
                 PROVE /\ \E i \in 1..Len(sealed) :
                            sealed[i] = [seq |-> outcome'[d].seq, req |-> req[d]]
                       /\ req[d].op = "get_verified" => outcome'[d].content = req[d].addr
      BY DEF OkIsOwnVerifiedAnswer
    <3>1. CASE d = c
      <4>1. /\ outcome'[c].seq = Head(inbox).seq
            /\ outcome'[c].content = Head(inbox).content
        BY DEF TypeOK
      <4>2. /\ Head(inbox).seq = seq[c]
            /\ req[c].op = "get_verified" => Head(inbox).content = req[c].addr
        BY DEF Accepts
      <4>3. \E i \in 1..Len(sealed) : sealed[i] = [seq |-> seq[c], req |-> req[c]]
        BY DEF AwaitedIsSealed
      <4> QED
        BY <3>1, <4>1, <4>2, <4>3
    <3>2. CASE d # c
      BY <3>2 DEF TypeOK, OkIsOwnVerifiedAnswer
    <3> QED
      BY <3>1, <3>2
  <2> QED
    BY <2>1, <2>3, <2>4, <2>5
<1>5. CASE RecvRejected(c) \/ RecvClosed(c)
  <2>0. /\ Fail(c) /\ pc[c] = "recv"
        /\ UNCHANGED <<req, seq, next_seq, channel, outgoing, calls, faults, silent, sealed>>
    BY <1>5 DEF RecvRejected, RecvClosed
  <2>1. inbox' \in Seq(Frame)
    BY <1>5, ReadingTyped DEF TypeOK, RecvRejected, RecvClosed
  <2>2. TypeOK'
    BY <2>0, <2>1 DEF TypeOK, Outcome, Fail
  <2>3. \A d \in Callers : pc'[d] # "recv"
    BY <2>0 DEF OneReceiver, TypeOK, Fail
  <2>4. OneReceiver' /\ HolderReceives' /\ AwaitedIsSealed'
    BY <2>0, <2>3 DEF OneReceiver, HolderReceives, AwaitedIsSealed, Fail
  <2>5. SealedInOrder'
    BY <2>0 DEF SealedInOrder
  <2>6. OkIsOwnVerifiedAnswer'
    BY <2>0 DEF OkIsOwnVerifiedAnswer, TypeOK, Outcome, Fail
  <2> QED
    BY <2>2, <2>4, <2>5, <2>6
<1> QED
  BY <1>1, <1>2, <1>3, <1>4, <1>5 DEF ClientStep

\* A new call starts with no outcome and leaves the history alone.
LEMMA CallIInv ==
  ASSUME IInv, NEW c \in Callers, NEW op \in Ops, NEW a \in Addresses, Call(c, op, a)
  PROVE  IInv'
<1> USE DEF IInv, Call
<1>1. TypeOK'
  <2>1. calls' \in Nat
    BY DEF TypeOK
  <2>2. [op |-> op, addr |-> a, id |-> calls + 1] \in Request
    BY <2>1, OpsAssumption DEF Request
  <2>3. req' \in [Callers -> Request]
    BY <2>2 DEF TypeOK
  <2>4. outcome' \in [Callers -> Outcome]
    BY DEF TypeOK, Outcome
  <2>5. seq' \in [Callers -> Nat] /\ pc' \in [Callers -> {"idle", "lock", "recv"}]
    BY DEF TypeOK
  <2> QED
    BY <2>1, <2>3, <2>4, <2>5 DEF TypeOK
<1>2. \A d \in Callers : pc'[d] = "recv" => d # c /\ pc[d] = "recv"
  BY DEF TypeOK
<1>3. OneReceiver' /\ AwaitedIsSealed'
  BY <1>2 DEF OneReceiver, AwaitedIsSealed, TypeOK
<1>4. HolderReceives'
  BY DEF HolderReceives, TypeOK
<1>5. SealedInOrder'
  BY DEF SealedInOrder
<1>6. OkIsOwnVerifiedAnswer'
  BY DEF OkIsOwnVerifiedAnswer, TypeOK, Outcome
<1> QED
  BY <1>1, <1>3, <1>4, <1>5, <1>6

\* A frame that arrives goes behind the frames already there.
LEMMA ArrivalTyped ==
  ASSUME NEW q \in Seq(Frame), NEW f \in Frame
  PROVE  /\ Append(q, f) \in Seq(Frame) /\ q \o <<f, f>> \in Seq(Frame)
         /\ q # <<>> => /\ Append(q, f) # <<>> /\ Head(Append(q, f)) = Head(q)
                        /\ q \o <<f, f>> # <<>> /\ Head(q \o <<f, f>>) = Head(q)
OBVIOUS

\* The node adds nothing, one frame or one frame twice to the inbox, and takes
\* at most the oldest request.
LEMMA EnvironmentTraffic ==
  ASSUME TypeOK, Environment
  PROVE  /\ \/ inbox' = inbox
            \/ \E f \in Frame : inbox' = Append(inbox, f) \/ inbox' = inbox \o <<f, f>>
         /\ outgoing' \in Seq(Outgoing)
<1>1. ASSUME CanServe PROVE Head(outgoing) \in Outgoing /\ Tail(outgoing) \in Seq(Outgoing)
  BY <1>1 DEF CanServe, TypeOK
<1>2. ASSUME NEW o \in Outgoing PROVE Answers(o) \subseteq Frame
  BY <1>2 DEF Answers, Frame, Outgoing, Request, Lane, Lanes
<1>3. CASE NodeAnswers \/ NodeRepeats
  BY <1>1, <1>2, <1>3 DEF NodeAnswers, NodeRepeats
<1>4. CASE NodeGarbles
  <2> DEFINE o == Head(outgoing)
             f == [kind |-> "answer", seq |-> o.seq, tag |-> Lane(o.req.op),
                   body |-> "success", addr |-> o.req.addr, content |-> o.req.addr]
  <2>1. o \in Outgoing /\ outgoing' \in Seq(Outgoing)
    BY <1>4, <1>1 DEF NodeGarbles
  <2>2. f \in Frame
    BY <2>1 DEF Outgoing, Request, Frame, Lane, Lanes
  <2>3. /\ \A t \in Lanes : [f EXCEPT !.tag = t] \in Frame
        /\ [f EXCEPT !.body = "garbled"] \in Frame
        /\ \A k \in {"junk", "badlen"} : [f EXCEPT !.kind = k] \in Frame
    BY <2>2 DEF Frame
  <2>4. \/ \E t \in Lanes : inbox' = Append(inbox, [f EXCEPT !.tag = t])
        \/ inbox' = Append(inbox, [f EXCEPT !.body = "garbled"])
        \/ \E k \in {"junk", "badlen"} : inbox' = Append(inbox, [f EXCEPT !.kind = k])
    BY <1>4 DEF NodeGarbles
  <2> HIDE DEF f
  <2> QED
    BY <2>1, <2>3, <2>4
<1>5. CASE NodeIgnores \/ BeginClose \/ OnClose
  BY <1>1, <1>5 DEF NodeIgnores, BeginClose, OnClose, TypeOK
<1> QED
  BY <1>3, <1>4, <1>5 DEF Environment

\* The node and the channel touch neither the tasks, the lock nor the history.
LEMMA EnvironmentIInv ==
  ASSUME IInv, Environment
  PROVE  IInv'
<1> USE DEF IInv
<1>1. /\ UNCHANGED <<taskVars, request_lock, next_seq, calls, sealed>>
  BY DEF Environment, NodeAnswers, NodeRepeats, NodeGarbles, NodeIgnores,
         BeginClose, OnClose
<1>2. outgoing' \in Seq(Outgoing) /\ inbox' \in Seq(Frame)
  BY EnvironmentTraffic, ArrivalTyped DEF TypeOK
<1>3. faults' \in Nat
  BY DEF TypeOK, Environment, NodeAnswers, NodeRepeats, NodeGarbles, NodeIgnores,
         BeginClose, OnClose
<1>4. channel' \in {"open", "closing", "closed"}
  BY DEF TypeOK, Environment, NodeAnswers, NodeRepeats, NodeGarbles, NodeIgnores,
         BeginClose, OnClose
<1>5. silent' = silent \/ silent' = TRUE
  BY Zenon DEF Environment, NodeAnswers, NodeRepeats, NodeGarbles, NodeIgnores,
         BeginClose, OnClose
<1>6. TypeOK'
  BY <1>1, <1>2, <1>3, <1>4, <1>5 DEF TypeOK, taskVars
<1>7. OneReceiver' /\ HolderReceives' /\ SealedInOrder'
  BY <1>1 DEF taskVars, OneReceiver, HolderReceives, SealedInOrder
<1>8. AwaitedIsSealed' /\ OkIsOwnVerifiedAnswer'
  BY <1>1 DEF taskVars, AwaitedIsSealed, OkIsOwnVerifiedAnswer
<1> QED
  BY <1>6, <1>7, <1>8

\* Every step preserves the invariant.
LEMMA NextIInv == IInv /\ [Next]_vars => IInv'
<1> SUFFICES ASSUME IInv, [Next]_vars PROVE IInv'
  OBVIOUS
<1>1. CASE \E c \in Callers, op \in Ops, a \in Addresses : Call(c, op, a)
  BY <1>1, CallIInv
<1>2. CASE \E c \in Callers : ClientStep(c)
  BY <1>2, ClientIInv
<1>3. CASE Environment
  BY <1>3, EnvironmentIInv
<1>4. CASE UNCHANGED vars
  BY <1>4 DEF vars, IInv, TypeOK, OneReceiver, HolderReceives, SealedInOrder,
              AwaitedIsSealed, OkIsOwnVerifiedAnswer
<1> QED
  BY <1>1, <1>2, <1>3, <1>4 DEF Next, Quiet

\* Every reachable state of the connection satisfies the inductive invariant.
THEOREM Invariance == Spec => []IInv
BY InitIInv, NextIInv, PTL DEF Spec

-----------------------------------------------------------------------------
\* Type correctness; in particular next_seq() never hands out a number
\* outside 1..MaxSeq - 1 (src/conn.rs, next_seq).
THEOREM TypeCorrect == Spec => []TypeOK
<1>1. IInv => TypeOK
  BY DEF IInv
<1> QED
  BY <1>1, Invariance, PTL

\* However many tasks share a connection, at most one of them is in
\* recv_frame, so the RefCell borrow held across its await never clashes.
THEOREM SingleReceiver == Spec => []OneReceiver
<1>1. IInv => OneReceiver
  BY DEF IInv
<1> QED
  BY <1>1, Invariance, PTL

\* Two sealed requests never share a sequence number, hence never a nonce.
THEOREM NonceUnique == Spec => []NonceNeverReused
<1>1. IInv => NonceNeverReused
  BY DEF IInv, SealedInOrder, NonceNeverReused
<1> QED
  BY <1>1, Invariance, PTL

\* An Ok result is the answer to the caller's own request, whatever the node
\* repeats, delays or garbles, and a GET returns the content it asked for.
THEOREM AnswersAreOwn == Spec => []OkIsOwnVerifiedAnswer
<1>1. IInv => OkIsOwnVerifiedAnswer
  BY DEF IInv
<1> QED
  BY <1>1, Invariance, PTL

\* A rejected length prefix is never consumed and nothing succeeds after it.
THEOREM FramingFinal == Spec => FramingErrorIsFinal
<1> DEFINE Keeps == FramingLost =>
       /\ FramingLost'
       /\ \A c \in Callers : outcome'[c].status = "ok" => outcome'[c] = outcome[c]
<1>1. ASSUME IInv, [Next]_vars, FramingLost
      PROVE  /\ FramingLost'
             /\ \A c \in Callers : outcome'[c].status = "ok" => outcome'[c] = outcome[c]
  <2> USE <1>1 DEF IInv, FramingLost
  <2>0. inbox \in Seq(Frame) /\ inbox # <<>> /\ Head(inbox).kind = "badlen"
    BY DEF TypeOK
  <2>1. CASE \E c \in Callers, op \in Ops, a \in Addresses : Call(c, op, a)
    BY <2>1 DEF Call, TypeOK, Outcome
  <2>2. ASSUME NEW c \in Callers, ClientStep(c)
        PROVE  /\ FramingLost'
               /\ \A d \in Callers : outcome'[d].status = "ok" => outcome'[d] = outcome[d]
    <3>1. ~RecvOk(c)
      BY <2>0 DEF RecvOk, Accepts
    <3>2. inbox' = inbox
      BY <2>0, <2>2, <3>1 DEF ClientStep, SendExhausted, SendFrame, SendOnDeadChannel,
            SendTorn, RecvRejected, RecvClosed, AfterRead
    <3>3. Fail(c) \/ outcome' = outcome
      BY <2>2, <3>1 DEF ClientStep, SendExhausted, SendFrame, SendOnDeadChannel,
            SendTorn, RecvRejected, RecvClosed
    <3> QED
      BY <3>2, <3>3 DEF Fail, TypeOK, Outcome
  <2>3. CASE Environment
    <3>1. outcome' = outcome
      BY <2>3 DEF Environment, NodeAnswers, NodeRepeats, NodeGarbles, NodeIgnores,
                  BeginClose, OnClose, taskVars
    <3>2. inbox' # <<>> /\ Head(inbox') = Head(inbox)
      BY <2>0, <2>3, EnvironmentTraffic, ArrivalTyped
    <3> QED
      BY <2>0, <3>1, <3>2
  <2>4. CASE UNCHANGED vars
    BY <2>4 DEF vars
  <2> QED
    BY <2>1, <2>2, <2>3, <2>4 DEF Next, Quiet
<1>2. IInv /\ [Next]_vars => [Keeps]_vars
  BY <1>1
<1> QED
  BY <1>2, Invariance, PTL DEF Spec, FramingErrorIsFinal

-----------------------------------------------------------------------------
(* The connection implements VerifiedCalls.  The exchange of the abstract   *)
(* connection is the holder of request_lock; taking the lock and sending is *)
(* its Turn, the client's other steps end the call, and the node's and the  *)
(* channel's steps are stutters.                                            *)

\* A round_trip that sends its request begins an exchange; one that fails
\* before it awaits ends its call without having had one.
LEMMA ClientImplements ==
  ASSUME IInv, NEW c \in Callers, ClientStep(c)
  PROVE  Calls!Next
<1> USE DEF IInv, TypeOK, Outcome
<1>1. ASSUME Fail(c), UNCHANGED req, pc[c] # "idle", request_lock \in {c, None}
      PROVE  Calls!ReturnErr(c)
  BY <1>1 DEF Fail, Calls!ReturnErr, Calls!Result, Calls!Others
<1>2. CASE SendFrame(c)
  <2>1. Calls!Turn(c)
    BY <1>2 DEF SendFrame, Seal, LockFree, Calls!Turn
  <2> QED
    BY <2>1 DEF Calls!Next
<1>3. CASE SendExhausted(c) \/ SendOnDeadChannel(c) \/ SendTorn(c)
  <2>1. Calls!ReturnErr(c)
    BY <1>1, <1>3 DEF SendExhausted, SendOnDeadChannel, SendTorn, Seal, LockFree
  <2> QED
    BY <2>1 DEF Calls!Next
<1>4. CASE RecvRejected(c) \/ RecvClosed(c)
  <2>1. request_lock = c
    BY <1>4 DEF RecvRejected, RecvClosed, OneReceiver
  <2>2. Calls!ReturnErr(c)
    BY <1>1, <1>4, <2>1 DEF RecvRejected, RecvClosed
  <2> QED
    BY <2>2 DEF Calls!Next
<1>5. CASE RecvOk(c)
  <2>1. request_lock = c
    BY <1>5 DEF RecvOk, OneReceiver
  <2>2. Calls!Result(c, "ok")
    BY <1>5 DEF RecvOk, Calls!Result, Calls!Others
  <2>3. req[c].op = "get_verified" => outcome'[c].content = req[c].addr
    BY <1>5 DEF RecvOk, Accepts
  <2>4. Calls!ReturnOk(c)
    BY <1>5, <2>1, <2>2, <2>3 DEF RecvOk, Calls!ReturnOk
  <2> QED
    BY <2>4 DEF Calls!Next
<1> QED
  BY <1>2, <1>3, <1>4, <1>5 DEF ClientStep

\* Every step of the connection is a step of VerifiedCalls or changes nothing
\* that VerifiedCalls sees.
LEMMA StepImplements == IInv /\ [Next]_vars => [Calls!Next]_(Calls!vars)
<1> SUFFICES ASSUME IInv, [Next]_vars PROVE Calls!Next \/ UNCHANGED Calls!vars
  OBVIOUS
<1>1. ASSUME NEW c \in Callers, NEW op \in Ops, NEW a \in Addresses, Call(c, op, a)
      PROVE  Calls!Next
  <2>1. Calls!Call(c)
    BY <1>1 DEF IInv, TypeOK, Outcome, Call, Calls!Call, Calls!Others
  <2> QED
    BY <2>1 DEF Calls!Next
<1>2. CASE \E c \in Callers : ClientStep(c)
  BY <1>2, ClientImplements
<1>3. CASE Environment
  BY <1>3 DEF Environment, NodeAnswers, NodeRepeats, NodeGarbles, NodeIgnores,
              BeginClose, OnClose, taskVars, Calls!vars
<1>4. CASE UNCHANGED vars
  BY <1>4 DEF vars, Calls!vars
<1> QED
  BY <1>1, <1>2, <1>3, <1>4 DEF Next, Quiet

\* For any number of tasks, sequence numbers and faults, calls on one
\* connection take turns, each with the node to itself for one exchange, and
\* Ok from get_verified comes with the bytes asked for (src/conn.rs,
\* request_lock in round_trip).
THEOREM TurnsTaken == Spec => CallsTakeTurns
<1>1. ASSUME Init PROVE Calls!Init
  <2>1. \A c \in Callers : (pc[c] # "idle") = FALSE
    BY <1>1 DEF Init
  <2>2. [c \in Callers |-> pc[c] # "idle"] = [c \in Callers |-> FALSE]
    BY <2>1, Zenon
  <2>3. \A c \in Callers : outcome[c].status = "none"
    <3>1. PICK a \in Addresses :
            outcome = [c \in Callers |-> [status |-> "none", seq |-> 0, content |-> a]]
      BY <1>1 DEF Init
    <3> QED
      BY <3>1
  <2>4. request_lock = None
    BY <1>1 DEF Init
  <2> QED
    BY <2>2, <2>3, <2>4, Zenon DEF Calls!Init
<1>2. Init => Calls!Init
  BY <1>1
<1> QED
  BY <1>2, StepImplements, Invariance, PTL DEF Spec, CallsTakeTurns, Calls!Spec
=============================================================================

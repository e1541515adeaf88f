--------------------------- MODULE ConnectProofs ---------------------------
(***************************************************************************)
(* Safety of Connect for every set of nodes, every offer and any number of *)
(* attempts and faults.                                                    *)
(*                                                                         *)
(* The invariant speaks of one attempt at a time: a step of one attempt    *)
(* touches no other, except that the set of signed hellos grows and that   *)
(* the pool and the client are shared.                                     *)
(***************************************************************************)
EXTENDS Connect, TLAPS

Ongoing == {"offer", "local", "gather", "exchange", "remote", "open", "accept", "get"}

\* What an attempt knows of its peer and of the node behind the certificate.
Identity(n) ==
  /\ kind[n] # "bootstrap" => want[n] \in Peers
  /\ pc[n] \in Ongoing /\ kind[n] # "relayed" => far[n] \in Peers
  /\ pc[n] \in {"remote", "open", "accept", "get"} => far[n] \in Peers

\* The descriptions of a direct attempt carry its own credential.
Descriptions(n) ==
  /\ pc[n] \in {"gather", "exchange"} => kind[n] = "relayed"
  /\ pc[n] \in {"unborn", "offer"} => local[n] = <<>> /\ remote[n] = <<>>
  /\ kind[n] # "relayed" =>
       /\ \A i \in Credentials(local[n]) : local[n][i].val = n
       /\ remote[n] \in {<<>>, ServerAnswer(n)}

\* Handlers are set exactly where they are needed.
Handlers(n) ==
  /\ "ice" \in wired[n] => pc[n] = "gather"
  /\ "open" \in wired[n] => pc[n] = "open"
  /\ pc[n] \in {"accept", "get"} => "data" \in wired[n]
  /\ pc[n] \in {"accept", "get"} /\ channel[n] = "closed" => ended[n]

\* A proper accept was signed, whoever it was signed for.
Signatures(n) ==
  /\ \A f \in Accept : inbox[n] = <<f>> /\ f.form = "proper" => <<f.peer, f.hello>> \in signed
  /\ peer_id[n] # None => <<peer_id[n], n>> \in signed

Outcomes(n) == outcome[n] = "ok" => pc[n] = "done"

AttemptInv(n) ==
  Identity(n) /\ Descriptions(n) /\ Handlers(n) /\ Signatures(n) /\ Outcomes(n)

IInv ==
  /\ TypeOK
  /\ \A n \in Attempts : AttemptInv(n)
  /\ PoolKeyIsPeer

\* A step of attempt n leaves the others alone.
Only(n) ==
  \A m \in Attempts \ {n} :
    /\ pc'[m] = pc[m] /\ kind'[m] = kind[m] /\ want'[m] = want[m] /\ far'[m] = far[m]
    /\ local'[m] = local[m] /\ remote'[m] = remote[m]
    /\ channel'[m] = channel[m] /\ wired'[m] = wired[m]
    /\ inbox'[m] = inbox[m] /\ ended'[m] = ended[m]
    /\ outcome'[m] = outcome[m] /\ peer_id'[m] = peer_id[m]

\* So a step has to be looked at for its own attempt only.
LEMMA OneAttempt ==
  ASSUME IInv, NEW n \in Attempts, Only(n), signed \subseteq signed',
         TypeOK', AttemptInv(n)', PoolKeyIsPeer'
  PROVE  IInv'
<1>1. ASSUME NEW m \in Attempts, m # n PROVE AttemptInv(m)'
  <2>1. AttemptInv(m)
    BY DEF IInv
  <2>2. Identity(m)' /\ Outcomes(m)'
    BY <1>1, <2>1 DEF AttemptInv, Identity, Outcomes, Only
  <2>3. Descriptions(m)'
    BY <1>1, <2>1 DEF AttemptInv, Descriptions, Only, Credentials
  <2>4. Handlers(m)'
    BY <1>1, <2>1 DEF AttemptInv, Handlers, Only
  <2>5. Signatures(m)'
    BY <1>1, <2>1 DEF AttemptInv, Signatures, Only
  <2> QED
    BY <2>2, <2>3, <2>4, <2>5 DEF AttemptInv
<1> QED
  BY <1>1 DEF IInv

\* A step that hands out no connection leaves the pool right.
LEMMA PoolStays ==
  ASSUME IInv, NEW n \in Attempts, Only(n), UNCHANGED pool,
         pc[n] # "done" \/ UNCHANGED <<peer_id, outcome>>
  PROVE  PoolKeyIsPeer'
<1> SUFFICES ASSUME NEW p \in DOMAIN pool
             PROVE  peer_id'[pool[p]] = p /\ outcome'[pool[p]] = "ok"
  BY DEF PoolKeyIsPeer
<1>1. pool[p] \in Attempts /\ peer_id[pool[p]] = p /\ outcome[pool[p]] = "ok"
  BY DEF IInv, TypeOK, PoolKeyIsPeer
<1>2. pc[pool[p]] = "done"
  BY <1>1 DEF IInv, AttemptInv, Outcomes
<1> QED
  BY <1>1, <1>2 DEF Only

\* The two-line answer of a credential.
LEMMA AnswerType ==
  ASSUME NEW u \in BrowserOwn..NodeOwn
  PROVE  ServerAnswer(u) \in Seq(Line)
<1>1. [key |-> "ufrag", val |-> u] \in Line /\ [key |-> "pwd", val |-> u] \in Line
  BY DEF Line
<1> QED
  BY <1>1 DEF ServerAnswer

-----------------------------------------------------------------------------
(* The actions that keep an attempt going                                  *)

\* A call starts an attempt.
LEMMA StartIInv ==
  ASSUME IInv, NEW n \in Attempts,
         NEW k \in {"bootstrap", "direct", "relayed"},
         NEW p \in Peers \cup {None}, NEW q \in Peers \cup {None},
         k # "bootstrap" => p \in Peers, k # "relayed" => q \in Peers, Start(n, k, p, q)
  PROVE  IInv'
<1> USE DEF Start, Goto, setup, events, session, world
<1>1. AttemptInv(n) /\ TypeOK
  BY DEF IInv
<1>2. TypeOK'
  BY <1>1, BoundsAssumption DEF TypeOK
<1>3. Only(n)
  BY <1>1 DEF TypeOK, Only
<1>4. Identity(n)' /\ Outcomes(n)'
  BY <1>1 DEF TypeOK, AttemptInv, Identity, Outcomes, Ongoing
<1>5. Descriptions(n)'
  BY <1>1 DEF TypeOK, AttemptInv, Descriptions, Credentials
<1>6. Handlers(n)'
  BY <1>1 DEF TypeOK, AttemptInv, Handlers
<1>7. Signatures(n)'
  BY <1>1 DEF TypeOK, AttemptInv, Signatures
<1>8. PoolKeyIsPeer'
  BY <1>3, PoolStays
<1> QED
  BY <1>2, <1>3, <1>4, <1>5, <1>6, <1>7, <1>8, OneAttempt DEF AttemptInv

\* The synthesized answer repeats the attempt's own credential.
LEMMA AnswerLocallyIInv ==
  ASSUME IInv, NEW n \in Attempts, AnswerLocally(n)
  PROVE  IInv'
<1> USE DEF AnswerLocally, Goto, setup, events, session, world
<1>1. AttemptInv(n) /\ TypeOK
  BY DEF IInv
<1>2. TypeOK'
  <2>1. ServerAnswer(n) \in Seq(Line)
    BY AnswerType, BoundsAssumption DEF Attempts, BrowserOwn, NodeOwn
  <2> QED
    BY <1>1, <2>1, BoundsAssumption DEF TypeOK
<1>3. Only(n)
  BY <1>1 DEF TypeOK, Only
<1>4. Identity(n)' /\ Outcomes(n)'
  BY <1>1 DEF TypeOK, AttemptInv, Identity, Outcomes, Ongoing
<1>5. Descriptions(n)'
  BY <1>1 DEF TypeOK, AttemptInv, Descriptions, Credentials
<1>6. Handlers(n)'
  BY <1>1 DEF TypeOK, AttemptInv, Handlers
<1>7. Signatures(n)'
  BY <1>1 DEF TypeOK, AttemptInv, Signatures
<1>8. PoolKeyIsPeer'
  BY <1>3, PoolStays
<1> QED
  BY <1>2, <1>3, <1>4, <1>5, <1>6, <1>7, <1>8, OneAttempt DEF AttemptInv

\* The gathering handler is set only where the attempt goes to wait for it.
LEMMA WaitForIceIInv ==
  ASSUME IInv, NEW n \in Attempts, WaitForIce(n)
  PROVE  IInv'
<1> USE DEF WaitForIce, Goto, setup, events, session, world
<1>1. AttemptInv(n) /\ TypeOK
  BY DEF IInv
<1>2. TypeOK'
  BY <1>1, BoundsAssumption DEF TypeOK
<1>3. Only(n)
  BY <1>1 DEF TypeOK, Only
<1>4. Identity(n)' /\ Outcomes(n)'
  BY <1>1 DEF TypeOK, AttemptInv, Identity, Outcomes, Ongoing
<1>5. Descriptions(n)'
  BY <1>1 DEF TypeOK, AttemptInv, Descriptions, Credentials
<1>6. Handlers(n)'
  BY <1>1 DEF TypeOK, AttemptInv, Handlers
<1>7. Signatures(n)'
  BY <1>1 DEF TypeOK, AttemptInv, Signatures
<1>8. PoolKeyIsPeer'
  BY <1>3, PoolStays
<1> QED
  BY <1>2, <1>3, <1>4, <1>5, <1>6, <1>7, <1>8, OneAttempt DEF AttemptInv

\* Gathering completes.
LEMMA IceCompletesIInv ==
  ASSUME IInv, NEW n \in Attempts, IceCompletes(n)
  PROVE  IInv'
<1> USE DEF IceCompletes, Goto, setup, events, session, world
<1>1. AttemptInv(n) /\ TypeOK
  BY DEF IInv
<1>2. TypeOK'
  BY <1>1, BoundsAssumption DEF TypeOK
<1>3. Only(n)
  BY <1>1 DEF TypeOK, Only
<1>4. Identity(n)' /\ Outcomes(n)'
  BY <1>1 DEF TypeOK, AttemptInv, Identity, Outcomes, Ongoing
<1>5. Descriptions(n)'
  BY <1>1 DEF TypeOK, AttemptInv, Descriptions, Credentials
<1>6. Handlers(n)'
  BY <1>1 DEF TypeOK, AttemptInv, Handlers
<1>7. Signatures(n)'
  BY <1>1 DEF TypeOK, AttemptInv, Signatures
<1>8. PoolKeyIsPeer'
  BY <1>3, PoolStays
<1> QED
  BY <1>2, <1>3, <1>4, <1>5, <1>6, <1>7, <1>8, OneAttempt DEF AttemptInv

\* The gathering cap expires.
LEMMA GatherTimerIInv ==
  ASSUME IInv, NEW n \in Attempts, GatherTimer(n)
  PROVE  IInv'
<1> USE DEF GatherTimer, Goto, setup, events, session, world
<1>1. AttemptInv(n) /\ TypeOK
  BY DEF IInv
<1>2. TypeOK'
  BY <1>1, BoundsAssumption DEF TypeOK
<1>3. Only(n)
  BY <1>1 DEF TypeOK, Only
<1>4. Identity(n)' /\ Outcomes(n)'
  BY <1>1 DEF TypeOK, AttemptInv, Identity, Outcomes, Ongoing
<1>5. Descriptions(n)'
  BY <1>1 DEF TypeOK, AttemptInv, Descriptions, Credentials
<1>6. Handlers(n)'
  BY <1>1 DEF TypeOK, AttemptInv, Handlers
<1>7. Signatures(n)'
  BY <1>1 DEF TypeOK, AttemptInv, Signatures
<1>8. PoolKeyIsPeer'
  BY <1>3, PoolStays
<1> QED
  BY <1>2, <1>3, <1>4, <1>5, <1>6, <1>7, <1>8, OneAttempt DEF AttemptInv

\* The gathering handler is cleared before the attempt goes on.
LEMMA GatherResumesIInv ==
  ASSUME IInv, NEW n \in Attempts, GatherResumes(n)
  PROVE  IInv'
<1> USE DEF GatherResumes, Goto, setup, events, session, world
<1>1. AttemptInv(n) /\ TypeOK
  BY DEF IInv
<1>2. TypeOK'
  BY <1>1, BoundsAssumption DEF TypeOK
<1>3. Only(n)
  BY <1>1 DEF TypeOK, Only
<1>4. Identity(n)' /\ Outcomes(n)'
  BY <1>1 DEF TypeOK, AttemptInv, Identity, Outcomes, Ongoing
<1>5. Descriptions(n)'
  BY <1>1 DEF TypeOK, AttemptInv, Descriptions, Credentials
<1>6. Handlers(n)'
  BY <1>1 DEF TypeOK, AttemptInv, Handlers
<1>7. Signatures(n)'
  BY <1>1 DEF TypeOK, AttemptInv, Signatures
<1>8. PoolKeyIsPeer'
  BY <1>3, PoolStays
<1> QED
  BY <1>2, <1>3, <1>4, <1>5, <1>6, <1>7, <1>8, OneAttempt DEF AttemptInv

\* The relay answers with a node's certificate.
LEMMA RelayAnswersIInv ==
  ASSUME IInv, NEW n \in Attempts, RelayAnswers(n)
  PROVE  IInv'
<1> USE DEF RelayAnswers, Goto, setup, events, session, world
<1>1. AttemptInv(n) /\ TypeOK
  BY DEF IInv
<1>2. TypeOK'
  <2>1. TargetAnswer \in Seq(Line)
    BY AnswerType, BoundsAssumption DEF TargetAnswer, BrowserOwn, NodeOwn
  <2> QED
    BY <1>1, <2>1, BoundsAssumption DEF TypeOK
<1>3. Only(n)
  BY <1>1 DEF TypeOK, Only
<1>4. Identity(n)' /\ Outcomes(n)'
  BY <1>1 DEF TypeOK, AttemptInv, Identity, Outcomes, Ongoing
<1>5. Descriptions(n)'
  BY <1>1 DEF TypeOK, AttemptInv, Descriptions, Credentials
<1>6. Handlers(n)'
  BY <1>1 DEF TypeOK, AttemptInv, Handlers
<1>7. Signatures(n)'
  BY <1>1 DEF TypeOK, AttemptInv, Signatures
<1>8. PoolKeyIsPeer'
  BY <1>3, PoolStays
<1> QED
  BY <1>2, <1>3, <1>4, <1>5, <1>6, <1>7, <1>8, OneAttempt DEF AttemptInv

\* The channel opens.
LEMMA ChannelOpensIInv ==
  ASSUME IInv, NEW n \in Attempts, ChannelOpens(n)
  PROVE  IInv'
<1> USE DEF ChannelOpens, Goto, setup, events, session, world
<1>1. AttemptInv(n) /\ TypeOK
  BY DEF IInv
<1>2. TypeOK'
  BY <1>1, BoundsAssumption DEF TypeOK
<1>3. Only(n)
  BY <1>1 DEF TypeOK, Only
<1>4. Identity(n)' /\ Outcomes(n)'
  BY <1>1 DEF TypeOK, AttemptInv, Identity, Outcomes, Ongoing
<1>5. Descriptions(n)'
  BY <1>1 DEF TypeOK, AttemptInv, Descriptions, Credentials
<1>6. Handlers(n)'
  BY <1>1 DEF TypeOK, AttemptInv, Handlers
<1>7. Signatures(n)'
  BY <1>1 DEF TypeOK, AttemptInv, Signatures
<1>8. PoolKeyIsPeer'
  BY <1>3, PoolStays
<1> QED
  BY <1>2, <1>3, <1>4, <1>5, <1>6, <1>7, <1>8, OneAttempt DEF AttemptInv

\* The channel closes: an attempt that waits for a frame has the close handler set.
LEMMA ChannelClosesIInv ==
  ASSUME IInv, NEW n \in Attempts, ChannelCloses(n)
  PROVE  IInv'
<1> USE DEF ChannelCloses, Goto, setup, events, session, world
<1>1. AttemptInv(n) /\ TypeOK
  BY DEF IInv
<1>2. TypeOK'
  BY <1>1, BoundsAssumption DEF TypeOK
<1>3. Only(n)
  BY <1>1 DEF TypeOK, Only
<1>4. Identity(n)' /\ Outcomes(n)'
  BY <1>1 DEF TypeOK, AttemptInv, Identity, Outcomes, Ongoing
<1>5. Descriptions(n)'
  BY <1>1 DEF TypeOK, AttemptInv, Descriptions, Credentials
<1>6. Handlers(n)'
  BY <1>1 DEF TypeOK, AttemptInv, Handlers
<1>7. Signatures(n)'
  BY <1>1 DEF TypeOK, AttemptInv, Signatures
<1>8. PoolKeyIsPeer'
  BY <1>3, PoolStays
<1> QED
  BY <1>2, <1>3, <1>4, <1>5, <1>6, <1>7, <1>8, OneAttempt DEF AttemptInv

\* The timeout of wait_for_open expires.
LEMMA OpenTimerIInv ==
  ASSUME IInv, NEW n \in Attempts, OpenTimer(n)
  PROVE  IInv'
<1> USE DEF OpenTimer, Goto, setup, events, session, world
<1>1. AttemptInv(n) /\ TypeOK
  BY DEF IInv
<1>2. TypeOK'
  BY <1>1, BoundsAssumption DEF TypeOK
<1>3. Only(n)
  BY <1>1 DEF TypeOK, Only
<1>4. Identity(n)' /\ Outcomes(n)'
  BY <1>1 DEF TypeOK, AttemptInv, Identity, Outcomes, Ongoing
<1>5. Descriptions(n)'
  BY <1>1 DEF TypeOK, AttemptInv, Descriptions, Credentials
<1>6. Handlers(n)'
  BY <1>1 DEF TypeOK, AttemptInv, Handlers
<1>7. Signatures(n)'
  BY <1>1 DEF TypeOK, AttemptInv, Signatures
<1>8. PoolKeyIsPeer'
  BY <1>3, PoolStays
<1> QED
  BY <1>2, <1>3, <1>4, <1>5, <1>6, <1>7, <1>8, OneAttempt DEF AttemptInv

\* The node signs the hello and sends its accept.
LEMMA NodeAcceptsIInv ==
  ASSUME IInv, NEW n \in Attempts, NodeAccepts(n)
  PROVE  IInv'
<1> USE DEF NodeAccepts, CanSpeak, Goto, setup, events, session, world
<1>1. AttemptInv(n) /\ TypeOK
  BY DEF IInv
<1>2. TypeOK'
  <2>1. far[n] \in Peers
    BY <1>1 DEF AttemptInv, Identity
  <2>2. [form |-> "proper", peer |-> far[n], hello |-> n] \in Accept
    BY <2>1 DEF Accept
  <2> QED
    BY <1>1, <2>1, <2>2, BoundsAssumption DEF TypeOK
<1>3. Only(n)
  BY <1>1 DEF TypeOK, Only
<1>4. Identity(n)' /\ Outcomes(n)'
  BY <1>1 DEF TypeOK, AttemptInv, Identity, Outcomes, Ongoing
<1>5. Descriptions(n)'
  BY <1>1 DEF TypeOK, AttemptInv, Descriptions, Credentials
<1>6. Handlers(n)'
  BY <1>1 DEF TypeOK, AttemptInv, Handlers
<1>7. Signatures(n)'
  BY <1>1 DEF TypeOK, AttemptInv, Signatures
<1>8. PoolKeyIsPeer'
  BY <1>3, PoolStays
<1> QED
  BY <1>2, <1>3, <1>4, <1>5, <1>6, <1>7, <1>8, OneAttempt DEF AttemptInv

\* A proper accept that is sent again was signed before.
LEMMA NodeSendsOtherIInv ==
  ASSUME IInv, NEW n \in Attempts, NodeSendsOther(n)
  PROVE  IInv'
<1> USE DEF NodeSendsOther, CanSpeak, Goto, Fault, setup, events, session, world
<1>1. AttemptInv(n) /\ TypeOK
  BY DEF IInv
<1>2. TypeOK'
  BY <1>1, BoundsAssumption DEF TypeOK
<1>3. Only(n)
  BY <1>1 DEF TypeOK, Only
<1>4. Identity(n)' /\ Outcomes(n)'
  BY <1>1 DEF TypeOK, AttemptInv, Identity, Outcomes, Ongoing
<1>5. Descriptions(n)'
  BY <1>1 DEF TypeOK, AttemptInv, Descriptions, Credentials
<1>6. Handlers(n)'
  BY <1>1 DEF TypeOK, AttemptInv, Handlers
<1>7. Signatures(n)'
  <2>1. PICK f \in Accept : /\ f.form = "proper" => <<f.peer, f.hello>> \in signed
                           /\ inbox' = [inbox EXCEPT ![n] = <<f>>]
    OBVIOUS
  <2>2. inbox'[n] = <<f>> /\ UNCHANGED <<peer_id, signed>>
    BY <1>1, <2>1 DEF TypeOK
  <2> QED
    BY <1>1, <2>1, <2>2 DEF AttemptInv, Signatures
<1>8. PoolKeyIsPeer'
  BY <1>3, PoolStays
<1> QED
  BY <1>2, <1>3, <1>4, <1>5, <1>6, <1>7, <1>8, OneAttempt DEF AttemptInv

\* The node or the relay falls silent.
LEMMA SilenceIInv ==
  ASSUME IInv, NEW n \in Attempts, Silence(n)
  PROVE  IInv'
<1> USE DEF Silence, Goto, Fault, setup, events, session, world
<1>1. AttemptInv(n) /\ TypeOK
  BY DEF IInv
<1>2. TypeOK'
  BY <1>1, BoundsAssumption DEF TypeOK
<1>3. Only(n)
  BY <1>1 DEF TypeOK, Only
<1>4. Identity(n)' /\ Outcomes(n)'
  BY <1>1 DEF TypeOK, AttemptInv, Identity, Outcomes, Ongoing
<1>5. Descriptions(n)'
  BY <1>1 DEF TypeOK, AttemptInv, Descriptions, Credentials
<1>6. Handlers(n)'
  BY <1>1 DEF TypeOK, AttemptInv, Handlers
<1>7. Signatures(n)'
  BY <1>1 DEF TypeOK, AttemptInv, Signatures
<1>8. PoolKeyIsPeer'
  BY <1>3, PoolStays
<1> QED
  BY <1>2, <1>3, <1>4, <1>5, <1>6, <1>7, <1>8, OneAttempt DEF AttemptInv

-----------------------------------------------------------------------------
(* The actions in which a call may return                                  *)

\* A call returns without a connection to hand out: its handlers of the wait
\* are cleared, everything it had is dropped.
LEMMA ReturnIInv ==
  ASSUME IInv, NEW n \in Attempts, NEW o \in {"ok", "err"}, Return(n, o),
         pc[n] \in Ongoing,
         wired' \in [Attempts -> SUBSET {"ice", "open", "data"}],
         \A m \in Attempts \ {n} : wired'[m] = wired[m],
         "ice" \notin wired'[n], "open" \notin wired'[n],
         woken' \in [Attempts -> BOOLEAN],
         inbox' = inbox \/ inbox' = [inbox EXCEPT ![n] = <<>>],
         faults' \in 0..MaxFaults,
         UNCHANGED <<peer_id, client, pool, silent, signed>>
  PROVE  IInv'
<1> USE DEF Return, Goto
<1>1. AttemptInv(n) /\ TypeOK
  BY DEF IInv
<1>2. TypeOK'
  <2>1. inbox' \in [Attempts -> {<<>>} \cup {<<f>> : f \in Accept}]
    BY <1>1 DEF TypeOK
  <2> QED
    BY <1>1, <2>1 DEF TypeOK
<1>3. Only(n)
  BY <1>1 DEF TypeOK, Only
<1>4. Identity(n)' /\ Outcomes(n)'
  BY <1>1 DEF TypeOK, Identity, Outcomes, Ongoing
<1>5. Descriptions(n)'
  BY <1>1 DEF TypeOK, Descriptions, Credentials
<1>6. Handlers(n)'
  BY <1>1 DEF TypeOK, Handlers
<1>7. Signatures(n)'
  <2>1. inbox'[n] \in {<<>>, inbox[n]}
    BY <1>1 DEF TypeOK
  <2>2. \A f \in Accept : inbox'[n] = <<f>> => inbox[n] = <<f>>
    BY <2>1
  <2> QED
    BY <1>1, <2>2 DEF AttemptInv, Signatures
<1>8. PoolKeyIsPeer'
  BY <1>3, PoolStays DEF Ongoing
<1> QED
  BY <1>2, <1>3, <1>4, <1>5, <1>6, <1>7, <1>8, OneAttempt DEF AttemptInv

\* The failures that touch no handler.
LEMMA FailIInv ==
  ASSUME IInv, NEW n \in Attempts,
         BrowserCallFails(n) \/ RelayFails(n) \/ RecvClosed(n) \/ FetchReturns(n)
  PROVE  IInv'
<1>1. PICK o \in {"ok", "err"} : Return(n, o)
  BY DEF BrowserCallFails, RelayFails, RecvClosed, FetchReturns, Fail
<1>2. /\ pc[n] \in Ongoing \ {"gather", "open"}
      /\ UNCHANGED <<wired, woken, inbox, peer_id, client, pool, silent, signed>>
  BY DEF BrowserCallFails, RelayFails, RecvClosed, FetchReturns, world, Ongoing
<1>3. faults' \in 0..MaxFaults
  BY BoundsAssumption
     DEF BrowserCallFails, RelayFails, RecvClosed, FetchReturns, world, Fault, IInv, TypeOK
<1>4. "ice" \notin wired[n] /\ "open" \notin wired[n]
  BY <1>2 DEF IInv, AttemptInv, Handlers
<1>5. /\ wired' \in [Attempts -> SUBSET {"ice", "open", "data"}]
      /\ woken' \in [Attempts -> BOOLEAN]
  BY <1>2 DEF IInv, TypeOK
<1> QED
  BY <1>1, <1>2, <1>3, <1>4, <1>5, ReturnIInv

\* munge_offer writes the attempt's credential on every credential line.
LEMMA MungeFacts ==
  ASSUME NEW keys \in Offers, NEW u \in BrowserOwn..NodeOwn
  PROVE  /\ BrowserOffer(keys) \in Seq(Line)
         /\ Munge(BrowserOffer(keys), u) \in Seq(Line)
         /\ \A i \in Credentials(Munge(BrowserOffer(keys), u)) :
              Munge(BrowserOffer(keys), u)[i].val = u
<1> DEFINE sdp == BrowserOffer(keys)
<1>1. keys \in Seq({"ufrag", "pwd", "other"})
  BY OffersAssumption
<1>2. \A i \in DOMAIN keys : [key |-> keys[i], val |-> BrowserOwn] \in Line
  BY <1>1, BoundsAssumption DEF Line, BrowserOwn, NodeOwn
<1>3. sdp \in Seq(Line) /\ DOMAIN sdp = 1..Len(keys) /\ Len(keys) \in Nat
  BY <1>1, <1>2 DEF BrowserOffer
<1> HIDE DEF sdp
<1>4. ASSUME NEW i \in 1..Len(keys)
      PROVE  [sdp[i] EXCEPT !.val = u] \in Line /\ [sdp[i] EXCEPT !.val = u].val = u
  <2>1. sdp[i] \in Line
    BY <1>3
  <2> QED
    BY <2>1 DEF Line
<1>5. Munge(sdp, u) \in Seq(Line)
  BY <1>3, <1>4 DEF Munge
<1>6. ASSUME NEW i \in Credentials(Munge(sdp, u)) PROVE Munge(sdp, u)[i].val = u
  <2>1. i \in 1..Len(keys) /\ IsCredential(Munge(sdp, u)[i])
    BY <1>3 DEF Credentials, Munge
  <2>2. CASE IsCredential(sdp[i])
    BY <1>3, <1>4, <2>1, <2>2 DEF Munge
  <2>3. CASE ~IsCredential(sdp[i])
    BY <1>3, <2>1, <2>3 DEF Munge
  <2> QED
    BY <2>2, <2>3
<1> QED
  BY <1>3, <1>5, <1>6 DEF sdp

\* createOffer resolves.
LEMMA OfferReadyIInv ==
  ASSUME IInv, NEW n \in Attempts, OfferReady(n)
  PROVE  IInv'
<1>1. AttemptInv(n) /\ TypeOK
  BY DEF IInv
<1>2. pc[n] = "offer" /\ UNCHANGED <<wired, woken, inbox, peer_id, client, pool, silent, signed, faults>>
  BY DEF OfferReady, world
<1>3. CASE Fail(n)
  <2>1. "ice" \notin wired[n] /\ "open" \notin wired[n] /\ pc[n] \in Ongoing
    BY <1>1, <1>2 DEF AttemptInv, Handlers, Ongoing
  <2> QED
    BY <1>1, <1>2, <1>3, <2>1, ReturnIInv DEF Fail, TypeOK
<1>4. CASE ~Fail(n)
  <2>1. PICK keys \in Offers :
          /\ local' = [local EXCEPT ![n] = IF kind[n] = "relayed" THEN BrowserOffer(keys)
                                           ELSE Munge(BrowserOffer(keys), n)]
          /\ Goto(n, "local")
          /\ UNCHANGED <<kind, want, far, remote, channel, gathered, ended, outcome>>
    BY <1>4 DEF OfferReady
  <2>2. PICK sdp \in Seq(Line) :
          /\ local' = [local EXCEPT ![n] = sdp]
          /\ kind[n] # "relayed" => \A i \in Credentials(sdp) : sdp[i].val = n
    <3>1. n \in BrowserOwn..NodeOwn
      BY BoundsAssumption DEF Attempts, BrowserOwn, NodeOwn
    <3> QED
      BY <2>1, <3>1, MungeFacts
  <2> USE DEF Goto
  <2>3. TypeOK'
    BY <1>1, <1>2, <2>1, <2>2 DEF TypeOK
  <2>4. Only(n)
    BY <1>1, <1>2, <2>1 DEF TypeOK, Only
  <2>5. Identity(n)' /\ Outcomes(n)'
    BY <1>1, <1>2, <2>1 DEF TypeOK, AttemptInv, Identity, Outcomes, Ongoing
  <2>6. Descriptions(n)'
    BY <1>1, <1>2, <2>1, <2>2 DEF TypeOK, AttemptInv, Descriptions, Credentials
  <2>7. Handlers(n)'
    BY <1>1, <1>2, <2>1 DEF TypeOK, AttemptInv, Handlers
  <2>8. Signatures(n)'
    BY <1>1, <1>2 DEF TypeOK, AttemptInv, Signatures
  <2>9. PoolKeyIsPeer'
    BY <1>2, <2>4, PoolStays
  <2> QED
    BY <1>2, <2>3, <2>4, <2>5, <2>6, <2>7, <2>8, <2>9, OneAttempt DEF AttemptInv
<1> QED
  BY <1>3, <1>4

\* With both descriptions set the attempt waits, for the channel or, with the
\* close handler set on an open channel, for the accept.
LEMMA WaitIInv ==
  ASSUME IInv, NEW n \in Attempts, pc[n] \in {"remote", "open"},
         NEW label \in {"open", "accept"}, Goto(n, label),
         NEW W \in SUBSET {"ice", "open", "data"}, wired' = [wired EXCEPT ![n] = W],
         "ice" \notin W, "open" \in W => label = "open",
         label = "accept" => "data" \in W /\ channel[n] = "open",
         woken' \in [Attempts -> BOOLEAN],
         UNCHANGED <<kind, want, far, local, remote, channel, gathered, ended, outcome, faults,
                     inbox, peer_id, client, pool, silent, signed>>
  PROVE  IInv'
<1> USE DEF Goto
<1>1. AttemptInv(n) /\ TypeOK
  BY DEF IInv
<1>2. TypeOK'
  BY <1>1 DEF TypeOK
<1>3. Only(n)
  BY <1>1 DEF TypeOK, Only
<1>4. Identity(n)' /\ Outcomes(n)'
  BY <1>1 DEF TypeOK, AttemptInv, Identity, Outcomes, Ongoing
<1>5. Descriptions(n)'
  BY <1>1 DEF TypeOK, AttemptInv, Descriptions, Credentials
<1>6. Handlers(n)'
  BY <1>1 DEF TypeOK, AttemptInv, Handlers
<1>7. Signatures(n)'
  BY <1>1 DEF TypeOK, AttemptInv, Signatures
<1>8. PoolKeyIsPeer'
  BY <1>3, PoolStays
<1> QED
  BY <1>2, <1>3, <1>4, <1>5, <1>6, <1>7, <1>8, OneAttempt DEF AttemptInv

\* setRemoteDescription resolves.
LEMMA RemoteSetIInv ==
  ASSUME IInv, NEW n \in Attempts, RemoteSet(n)
  PROVE  IInv'
<1>1. AttemptInv(n) /\ TypeOK
  BY DEF IInv
<1>2. /\ pc[n] = "remote" /\ pc[n] \in Ongoing
      /\ UNCHANGED <<woken, inbox, peer_id, client, pool, silent, signed>>
  BY DEF RemoteSet, Ongoing
<1>3. "ice" \notin wired[n] /\ "open" \notin wired[n] /\ wired[n] \subseteq {"ice", "open", "data"}
  BY <1>1, <1>2 DEF AttemptInv, Handlers, TypeOK
<1>4. woken' \in [Attempts -> BOOLEAN]
  BY <1>1, <1>2 DEF TypeOK
<1>5. CASE channel[n] = "open"
  <2>1. Establish(n) /\ wired' = [wired EXCEPT ![n] = wired[n] \cup {"data"}]
    BY <1>5 DEF RemoteSet
  <2>2. PICK W : W = wired[n] \cup {"data"}
    OBVIOUS
  <2>3. CASE Fault /\ Fail(n)
    <3>1. faults' \in 0..MaxFaults
      BY <1>1, <2>3, BoundsAssumption DEF Fault, TypeOK
    <3>2. /\ wired' \in [Attempts -> SUBSET {"ice", "open", "data"}]
          /\ \A m \in Attempts \ {n} : wired'[m] = wired[m]
          /\ wired'[n] = W
      BY <1>1, <1>3, <2>1, <2>2 DEF TypeOK
    <3> QED
      BY <1>2, <1>3, <1>4, <2>2, <2>3, <3>1, <3>2, ReturnIInv DEF Fail
  <2>4. CASE Goto(n, "accept") /\ UNCHANGED <<setup, channel, gathered, ended, outcome, faults>>
    <3>1. UNCHANGED <<kind, want, far, local, remote>>
      BY <2>4 DEF setup
    <3> QED
      BY <1>2, <1>3, <1>4, <1>5, <2>1, <2>2, <2>4, <3>1, WaitIInv
  <2> QED
    BY <2>1, <2>3, <2>4 DEF Establish
<1>6. CASE channel[n] # "open"
  <2>1. /\ Goto(n, "open") /\ wired' = [wired EXCEPT ![n] = wired[n] \cup {"open"}]
        /\ UNCHANGED <<kind, want, far, local, remote, channel, gathered, ended, outcome, faults>>
    BY <1>6 DEF RemoteSet, setup
  <2>2. PICK W : W = wired[n] \cup {"open"}
    OBVIOUS
  <2> QED
    BY <1>2, <1>3, <1>4, <2>1, <2>2, WaitIInv
<1> QED
  BY <1>5, <1>6

\* wait_for_open returns.
LEMMA OpenResumesIInv ==
  ASSUME IInv, NEW n \in Attempts, OpenResumes(n)
  PROVE  IInv'
<1>1. AttemptInv(n) /\ TypeOK
  BY DEF IInv
<1>2. /\ pc[n] = "open" /\ pc[n] \in Ongoing
      /\ UNCHANGED <<inbox, peer_id, client, pool, silent, signed>>
  BY DEF OpenResumes, Ongoing
<1>3. /\ HandlersCleared(n) \subseteq {"ice", "open", "data"}
      /\ "ice" \notin HandlersCleared(n) /\ "open" \notin HandlersCleared(n)
  BY <1>1, <1>2 DEF AttemptInv, Handlers, TypeOK, HandlersCleared
<1>4. woken' \in [Attempts -> BOOLEAN]
  BY <1>1 DEF TypeOK, OpenResumes
<1>5. PICK W : W = IF Usable(n) THEN HandlersCleared(n) \cup {"data"} ELSE HandlersCleared(n)
  OBVIOUS
<1>6. /\ wired' = [wired EXCEPT ![n] = W]
      /\ W \in SUBSET {"ice", "open", "data"} /\ "ice" \notin W /\ "open" \notin W
  BY <1>3, <1>5 DEF OpenResumes
<1>7. CASE Fail(n)
  <2>1. faults' \in 0..MaxFaults
    BY <1>1, <1>7, BoundsAssumption DEF OpenResumes, Establish, Fault, TypeOK
  <2>2. /\ wired' \in [Attempts -> SUBSET {"ice", "open", "data"}]
        /\ \A m \in Attempts \ {n} : wired'[m] = wired[m]
        /\ wired'[n] = W
    BY <1>1, <1>6 DEF TypeOK
  <2> QED
    BY <1>2, <1>4, <1>6, <1>7, <2>1, <2>2, ReturnIInv DEF Fail
<1>8. CASE ~Fail(n)
  <2>1. /\ Usable(n) /\ Goto(n, "accept")
        /\ UNCHANGED <<kind, want, far, local, remote, channel, gathered, ended, outcome, faults>>
    BY <1>8 DEF OpenResumes, Establish, setup
  <2>2. channel[n] = "open" /\ "data" \in W
    BY <1>5, <2>1 DEF Usable
  <2> QED
    BY <1>2, <1>4, <1>6, <2>1, <2>2, WaitIInv
<1> QED
  BY <1>7, <1>8

\* A frame arrives: finish takes only an accept signed for this hello, by the
\* peer looked for, and the pool gets it under the name of that peer.
LEMMA RecvAcceptIInv ==
  ASSUME IInv, NEW n \in Attempts, RecvAccept(n)
  PROVE  IInv'
<1>1. AttemptInv(n) /\ TypeOK
  BY DEF IInv
<1>2. /\ pc[n] = "accept" /\ pc[n] \in Ongoing /\ inbox' = [inbox EXCEPT ![n] = <<>>]
      /\ UNCHANGED <<wired, woken, silent, signed, faults>>
  BY DEF RecvAccept, Ongoing
<1>3. PICK f \in Accept : inbox[n] = <<f>> /\ Head(inbox[n]) = f
  BY <1>1 DEF RecvAccept, TypeOK
<1>4. CASE ~Finish(n, f)
  <2>1. Return(n, "err") /\ UNCHANGED <<peer_id, client, pool>>
    BY <1>3, <1>4 DEF RecvAccept, Fail
  <2>2. /\ "ice" \notin wired[n] /\ "open" \notin wired[n]
        /\ wired' \in [Attempts -> SUBSET {"ice", "open", "data"}]
        /\ woken' \in [Attempts -> BOOLEAN] /\ faults' \in 0..MaxFaults
    BY <1>1, <1>2 DEF AttemptInv, Handlers, TypeOK
  <2> QED
    BY <1>2, <2>1, <2>2, ReturnIInv
<1>5. CASE Finish(n, f)
  <2>1. peer_id' = [peer_id EXCEPT ![n] = f.peer] /\ Hand(n, f.peer)
    BY <1>3, <1>5 DEF RecvAccept
  <2>2. /\ f.peer \in Peers /\ f.hello = n /\ f.form = "proper"
        /\ want[n] \in {None, f.peer} /\ <<f.peer, n>> \in signed
    BY <1>1, <1>3, <1>5 DEF Finish, Accept, AttemptInv, Signatures
  <2>3. Signatures(n)'
    <3>1. inbox'[n] = <<>> /\ peer_id'[n] = f.peer
      BY <1>1, <1>2, <2>1 DEF TypeOK
    <3>2. \A g \in Accept : inbox'[n] # <<g>>
      BY <3>1
    <3> QED
      BY <1>2, <2>2, <3>1, <3>2 DEF Signatures
  <2>4. CASE kind[n] = "relayed"
    <3>1. /\ Goto(n, "get")
          /\ UNCHANGED <<kind, want, far, local, remote, channel, gathered, ended, outcome,
                         client, pool>>
      BY <2>1, <2>4 DEF Hand, setup
    <3> USE DEF Goto
    <3>2. TypeOK'
      BY <1>1, <1>2, <2>1, <2>2, <3>1 DEF TypeOK
    <3>3. Only(n)
      BY <1>1, <1>2, <2>1, <3>1 DEF TypeOK, Only
    <3>4. Identity(n)' /\ Outcomes(n)'
      BY <1>1, <1>2, <3>1 DEF TypeOK, AttemptInv, Identity, Outcomes, Ongoing
    <3>5. Descriptions(n)'
      BY <1>1, <1>2, <3>1 DEF TypeOK, AttemptInv, Descriptions, Credentials
    <3>6. Handlers(n)'
      BY <1>1, <1>2, <3>1 DEF TypeOK, AttemptInv, Handlers
    <3>7. PoolKeyIsPeer'
      BY <1>2, <3>1, <3>3, PoolStays
    <3> QED
      BY <1>2, <2>3, <3>2, <3>3, <3>4, <3>5, <3>6, <3>7, OneAttempt DEF AttemptInv
  <2>5. CASE kind[n] # "relayed"
    <3>1. /\ Return(n, "ok")
          /\ pool' = [k \in DOMAIN pool \cup {PoolKey(n, f.peer)} |->
                        IF k = PoolKey(n, f.peer) THEN n ELSE pool[k]]
          /\ client' \in {n, client}
      BY <2>1, <2>5 DEF Hand
    <3>2. PoolKey(n, f.peer) = f.peer
      BY <1>1, <2>2, PeersAssumption DEF PoolKey, AttemptInv, Identity
    <3> USE DEF Return, Goto
    <3>3. TypeOK'
      <4>1. DOMAIN pool' \subseteq Peers /\ \A p \in DOMAIN pool' : pool'[p] \in Attempts
        BY <1>1, <2>2, <3>1, <3>2 DEF TypeOK
      <4>2. client' \in 0..MaxAttempts
        BY <1>1, <3>1, BoundsAssumption DEF TypeOK, Attempts
      <4>3. /\ local' \in [Attempts -> Seq(Line)] /\ remote' \in [Attempts -> Seq(Line)]
            /\ inbox' \in [Attempts -> {<<>>} \cup {<<g>> : g \in Accept}]
        BY <1>1, <1>2, <3>1 DEF TypeOK
      <4>4. /\ want' \in [Attempts -> Peers \cup {None}]
            /\ far' \in [Attempts -> Peers \cup {None}]
            /\ peer_id' \in [Attempts -> Peers \cup {None}]
        BY <1>1, <2>1, <2>2, <3>1 DEF TypeOK
      <4> QED
        BY <1>1, <1>2, <3>1, <4>1, <4>2, <4>3, <4>4 DEF TypeOK
    <3>4. Only(n)
      BY <1>1, <1>2, <2>1, <3>1 DEF TypeOK, Only
    <3>5. Identity(n)' /\ Outcomes(n)'
      BY <1>1, <3>1 DEF TypeOK, Identity, Outcomes, Ongoing
    <3>6. Descriptions(n)'
      BY <1>1, <3>1 DEF TypeOK, Descriptions, Credentials
    <3>7. Handlers(n)'
      BY <1>1, <1>2, <3>1 DEF TypeOK, AttemptInv, Handlers
    <3>8. PoolKeyIsPeer'
      <4> SUFFICES ASSUME NEW p \in DOMAIN pool'
                   PROVE  peer_id'[pool'[p]] = p /\ outcome'[pool'[p]] = "ok"
        BY DEF PoolKeyIsPeer
      <4>1. CASE p = f.peer
        BY <1>1, <2>1, <3>1, <3>2, <4>1 DEF TypeOK
      <4>2. CASE p # f.peer
        <5>1. p \in DOMAIN pool /\ pool'[p] = pool[p] /\ pool[p] \in Attempts
          BY <1>1, <3>1, <3>2, <4>2 DEF TypeOK
        <5>2. peer_id[pool[p]] = p /\ outcome[pool[p]] = "ok"
          BY <5>1 DEF IInv, PoolKeyIsPeer
        <5>3. pool[p] # n
          BY <1>1, <1>2, <5>2 DEF AttemptInv, Outcomes
        <5> QED
          BY <3>4, <5>1, <5>2, <5>3 DEF Only
      <4> QED
        BY <4>1, <4>2
    <3> QED
      BY <1>2, <2>3, <3>3, <3>4, <3>5, <3>6, <3>7, <3>8, OneAttempt DEF AttemptInv
  <2> QED
    BY <2>4, <2>5
<1> QED
  BY <1>4, <1>5

-----------------------------------------------------------------------------
(* The theorems                                                            *)

\* No attempt has started.
LEMMA InitIInv == Init => IInv
<1> SUFFICES ASSUME Init PROVE IInv
  OBVIOUS
<1> USE DEF Init
<1>1. TypeOK
  BY BoundsAssumption DEF TypeOK
<1>2. ASSUME NEW n \in Attempts PROVE AttemptInv(n)
  <2>1. Identity(n) /\ Outcomes(n) /\ Handlers(n)
    BY DEF Identity, Outcomes, Handlers, Ongoing
  <2>2. Descriptions(n)
    BY DEF Descriptions, Credentials
  <2>3. Signatures(n)
    <3>1. \A f \in Accept : inbox[n] # <<f>>
      OBVIOUS
    <3> QED
      BY <3>1 DEF Signatures
  <2> QED
    BY <2>1, <2>2, <2>3 DEF AttemptInv
<1>3. PoolKeyIsPeer
  BY DEF PoolKeyIsPeer
<1> QED
  BY <1>1, <1>2, <1>3 DEF IInv

\* Every step of an attempt, of the browser and of the nodes keeps the
\* invariant.
LEMMA NextIInv == IInv /\ [Next]_vars => IInv'
<1> SUFFICES ASSUME IInv, [Next]_vars PROVE IInv'
  OBVIOUS
<1>1. CASE UNCHANGED vars
  <2>1. UNCHANGED <<pc, kind, want, far, local, remote, channel, wired, gathered, woken,
                    inbox, ended, outcome, peer_id, client, pool, silent, signed, faults>>
    BY <1>1 DEF vars, setup, events, session, world
  <2>2. TypeOK' /\ PoolKeyIsPeer'
    BY <2>1 DEF IInv, TypeOK, PoolKeyIsPeer
  <2>3. ASSUME NEW n \in Attempts PROVE AttemptInv(n)'
    <3>1. AttemptInv(n)
      BY DEF IInv
    <3> QED
      BY <2>1, <3>1 DEF AttemptInv, Identity, Descriptions, Handlers, Signatures, Outcomes,
                        Credentials
  <2> QED
    BY <2>2, <2>3 DEF IInv
<1>2. ASSUME NEW n \in Attempts, ConnectBootstrap(n) \/ ConnectDirect(n) \/ ConnectRelayed(n)
      PROVE  IInv'
  <2>1. PICK k \in {"bootstrap", "direct", "relayed"}, p \in Peers \cup {None},
             q \in Peers \cup {None} :
          /\ k # "bootstrap" => p \in Peers
          /\ k # "relayed" => q \in Peers
          /\ Start(n, k, p, q)
    <3>1. CASE ConnectBootstrap(n)
      BY <3>1, PeersAssumption DEF ConnectBootstrap
    <3>2. CASE ConnectDirect(n)
      BY <3>2 DEF ConnectDirect
    <3>3. CASE ConnectRelayed(n)
      BY <3>3 DEF ConnectRelayed
    <3> QED
      BY <1>2, <3>1, <3>2, <3>3
  <2> QED
    BY <2>1, StartIInv
<1>3. ASSUME NEW n \in Attempts, ClientStep(n) PROVE IInv'
  BY <1>3, OfferReadyIInv, AnswerLocallyIInv, WaitForIceIInv, GatherResumesIInv, RemoteSetIInv,
     OpenResumesIInv, RecvAcceptIInv, FailIInv DEF ClientStep
<1>4. ASSUME NEW n \in Attempts, Timers(n) \/ Browser(n) PROVE IInv'
  BY <1>4, GatherTimerIInv, OpenTimerIInv, FailIInv, IceCompletesIInv, ChannelOpensIInv,
     ChannelClosesIInv DEF Timers, Browser
<1>5. ASSUME NEW n \in Attempts, Nodes(n) PROVE IInv'
  BY <1>5, RelayAnswersIInv, FailIInv, NodeAcceptsIInv, NodeSendsOtherIInv, SilenceIInv
     DEF Nodes
<1> QED
  BY <1>1, <1>2, <1>3, <1>4, <1>5 DEF Next

\* The inductive invariant holds in every reachable state.
THEOREM Invariance == Spec => []IInv
BY InitIInv, NextIInv, PTL DEF Spec

\* The state of every connection attempt (connect and connect_via_relay,
\* src/webrtc.rs; establish, src/conn.rs) is always well formed, and the pool
\* is keyed by peers alone.
THEOREM TypeCorrect == Spec => []TypeOK
<1>1. IInv => TypeOK
  BY DEF IInv
<1> QED
  BY <1>1, Invariance, PTL

\* A session is with a node that signed the hello of this very attempt (finish,
\* src/tunnel.rs), however attempts overlap and whatever nodes send again.
THEOREM FreshTheorem == Spec => []SessionIsFresh
<1>1. IInv => SessionIsFresh
  BY DEF IInv, AttemptInv, Signatures, SessionIsFresh
<1> QED
  BY <1>1, Invariance, PTL

\* A connection is pooled under the identity that its node proved (connect and
\* connection_for, src/lib.rs), whichever certificate came with the name.
THEOREM PoolTheorem == Spec => []PoolKeyIsPeer
<1>1. IInv => PoolKeyIsPeer
  BY DEF IInv
<1> QED
  BY <1>1, Invariance, PTL

\* The munged offer and the synthesized answer of a direct attempt carry its
\* one credential (munge_offer and server_answer, src/sdp.rs).
THEOREM CredentialsTheorem == Spec => []CredentialsAgree
<1>1. IInv => CredentialsAgree
  <2> SUFFICES ASSUME IInv, NEW n \in Attempts, kind[n] # "relayed", remote[n] # <<>>
               PROVE  /\ Connectable(n)
                      /\ \A i \in Credentials(local[n]) : local[n][i].val = n
    BY DEF CredentialsAgree
  <2>1. /\ \A i \in Credentials(local[n]) : local[n][i].val = n
        /\ remote[n] = ServerAnswer(n)
    BY DEF IInv, AttemptInv, Descriptions
  <2>2. \A j \in Credentials(remote[n]) : remote[n][j].val = n
    BY <2>1 DEF ServerAnswer, Credentials
  <2> QED
    BY <2>1, <2>2 DEF Connectable
<1> QED
  BY <1>1, Invariance, PTL

\* No gathering, open or error handler outlives the wait that set it
\* (wait_for_ice_complete and wait_for_open, src/webrtc.rs).
THEOREM HandlersTheorem == Spec => []NoHandlerDangles
<1>1. IInv => NoHandlerDangles
  BY DEF IInv, AttemptInv, Handlers, NoHandlerDangles
<1> QED
  BY <1>1, Invariance, PTL

\* An attempt that waits for a frame of a closed channel has been told of the
\* close (from_open, src/webrtc.rs), whenever the channel closed.
THEOREM ClosedTheorem == Spec => []ClosedIsNoticed
<1>1. IInv => ClosedIsNoticed
  BY DEF IInv, AttemptInv, Handlers, ClosedIsNoticed
<1> QED
  BY <1>1, Invariance, PTL
=============================================================================

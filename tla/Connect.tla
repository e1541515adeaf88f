------------------------------ MODULE Connect ------------------------------
(***************************************************************************)
(* From a call of WasmClient::connect, connection_for or relayed_fetch     *)
(* (src/lib.rs) to an authenticated connection: the WebRTC set-up of       *)
(* src/webrtc.rs with the SDP texts of src/sdp.rs, then the PQC handshake  *)
(* of src/conn.rs and src/tunnel.rs.                                       *)
(*                                                                         *)
(* Attempts are numbered in the order they start and run concurrently; an  *)
(* action is the code between two awaits.  Attempt n's random values (its  *)
(* ufrag and its ML-KEM key pair) are the number n.  A certificate and a   *)
(* public key are identified with the node that owns them.                 *)
(*                                                                         *)
(* The browser and the nodes are external: promises settle, ICE gathering  *)
(* completes and channels open, fail or close when they like, a node may   *)
(* be another one than named, stay silent, or send something else.         *)
(***************************************************************************)
EXTENDS Naturals, Sequences, FiniteSets

CONSTANTS
  Peers,        \* nodes
  Bootstraps,   \* nodes whose address and certificate a page has
  None,         \* no identity pinned, no node known yet
  Offers,       \* what the browser offers: sequences of "ufrag", "pwd", "other"
  MaxAttempts,  \* bound: connection attempts
  MaxFaults     \* bound: failing browser calls, misbehaving nodes and relays

ASSUME PeersAssumption == None \notin Peers /\ Bootstraps \subseteq Peers
ASSUME OffersAssumption == Offers \subseteq Seq({"ufrag", "pwd", "other"})
ASSUME BoundsAssumption == MaxAttempts \in Nat \ {0} /\ MaxFaults \in Nat

Attempts == 1..MaxAttempts
\* Values of a credential: the browser's own, an attempt's ufrag, a node's own.
BrowserOwn == 0
NodeOwn == MaxAttempts + 1
Line == [key : {"ufrag", "pwd", "other"}, val : BrowserOwn..NodeOwn]

VARIABLES
  pc,        \* where the attempt awaits; "unborn" before, "done" after
  kind,      \* "bootstrap", "direct" or "relayed"
  want,      \* expected_peer_id
  far,       \* the node behind the certificate the attempt pins
  local, remote, \* the session descriptions set so far
  channel,   \* ready_state: "connecting", "open", "closed"; "released" by the attempt
  wired,     \* handlers set: "ice", "open" (and error), "data" (message and close)
  gathered,  \* ice_gathering_state is complete
  woken,     \* the awaited oneshot or timer has fired
  inbox,     \* frames received, not read
  ended,     \* on_close has ended the receiver
  outcome,   \* "none", "ok", "err"
  peer_id,   \* of the established session
  client,    \* the attempt that became the client's bootstrap, 0 before
  pool,      \* attempts whose connection is in the pool, by key
  silent,    \* the node or relay the attempt waits for will not answer
  signed,    \* history: <<p, n>> when p accepted the hello of attempt n
  faults     \* counter for the bound

setup == <<kind, want, far, local, remote>>
events == <<channel, wired, gathered, woken>>
session == <<inbox, ended, outcome, peer_id>>
world == <<client, pool, silent, signed, faults>>
vars == <<pc, setup, events, session, world>>

\* A ServerAccept as finish sees it: cut or mistyped, of another protocol
\* version, with a ciphertext that does not parse, or proper; and the node and
\* hello its signature is by and for.
Accept == [form : {"malformed", "version", "ciphertext", "proper"},
           peer : Peers, hello : Attempts]

TypeOK ==
  /\ pc \in [Attempts -> {"unborn", "offer", "local", "gather", "exchange",
                          "remote", "open", "accept", "get", "done"}]
  /\ kind \in [Attempts -> {"bootstrap", "direct", "relayed"}]
  /\ want \in [Attempts -> Peers \cup {None}]
  /\ far \in [Attempts -> Peers \cup {None}]
  /\ local \in [Attempts -> Seq(Line)] /\ remote \in [Attempts -> Seq(Line)]
  /\ channel \in [Attempts -> {"connecting", "open", "closed", "released"}]
  /\ wired \in [Attempts -> SUBSET {"ice", "open", "data"}]
  /\ gathered \in [Attempts -> BOOLEAN] /\ woken \in [Attempts -> BOOLEAN]
  /\ inbox \in [Attempts -> {<<>>} \cup {<<f>> : f \in Accept}]
  /\ ended \in [Attempts -> BOOLEAN]
  /\ outcome \in [Attempts -> {"none", "ok", "err"}]
  /\ peer_id \in [Attempts -> Peers \cup {None}]
  /\ client \in 0..MaxAttempts
  /\ DOMAIN pool \subseteq Peers /\ \A p \in DOMAIN pool : pool[p] \in Attempts
  /\ silent \in [Attempts -> BOOLEAN]
  /\ signed \subseteq Peers \X Attempts
  /\ faults \in 0..MaxFaults

Init ==
  /\ pc = [n \in Attempts |-> "unborn"]
  /\ kind = [n \in Attempts |-> "bootstrap"]
  /\ want = [n \in Attempts |-> None] /\ far = [n \in Attempts |-> None]
  /\ local = [n \in Attempts |-> <<>>] /\ remote = [n \in Attempts |-> <<>>]
  /\ channel = [n \in Attempts |-> "connecting"]
  /\ wired = [n \in Attempts |-> {}]
  /\ gathered = [n \in Attempts |-> FALSE] /\ woken = [n \in Attempts |-> FALSE]
  /\ inbox = [n \in Attempts |-> <<>>] /\ ended = [n \in Attempts |-> FALSE]
  /\ outcome = [n \in Attempts |-> "none"] /\ peer_id = [n \in Attempts |-> None]
  /\ client = 0 /\ pool = <<>>
  /\ silent = [n \in Attempts |-> FALSE]
  /\ signed = {} /\ faults = 0

Goto(n, label) == pc' = [pc EXCEPT ![n] = label]
Fault == faults < MaxFaults /\ faults' = faults + 1

\* The call returns.  Its variables are dropped; a channel that no connection
\* took over is not closed, and keeps its handlers.
Return(n, o) ==
  /\ Goto(n, "done")
  /\ outcome' = [outcome EXCEPT ![n] = o]
  /\ want' = [want EXCEPT ![n] = None] /\ far' = [far EXCEPT ![n] = None]
  /\ local' = [local EXCEPT ![n] = <<>>] /\ remote' = [remote EXCEPT ![n] = <<>>]
  /\ channel' = [channel EXCEPT ![n] = "released"]
  /\ gathered' = [gathered EXCEPT ![n] = FALSE] /\ ended' = [ended EXCEPT ![n] = FALSE]
  /\ kind' = [kind EXCEPT ![n] = "bootstrap"]
Fail(n) == Return(n, "err")

-----------------------------------------------------------------------------
(* Offer and answer                                                        *)

Start(n, k, p, q) ==
  /\ pc[n] = "unborn" /\ \A m \in 1..(n - 1) : pc[m] # "unborn"
  /\ kind' = [kind EXCEPT ![n] = k]
  /\ want' = [want EXCEPT ![n] = p]
  /\ far' = [far EXCEPT ![n] = q]
  /\ Goto(n, "offer")
  /\ UNCHANGED <<local, remote, events, session, world>>

\* WasmClient::connect: the page names an address, a certificate and,
\* possibly, an identity.  It awaits the client before it uses or retries it.
ConnectBootstrap(n) ==
  /\ client = 0 /\ \A m \in Attempts : pc[m] \in {"unborn", "done"}
  /\ \E p \in Peers \cup {None}, q \in Bootstraps : Start(n, "bootstrap", p, q)

\* connection_for a peer discovery described, not in the pool.
ConnectDirect(n) ==
  /\ client # 0
  /\ \E p \in Peers \ DOMAIN pool, q \in Peers : Start(n, "direct", p, q)

\* relayed_fetch: the target's certificate comes with its answer.
ConnectRelayed(n) ==
  /\ client # 0
  /\ \E p \in Peers : Start(n, "relayed", p, None)

\* A promise or call of the browser fails (RTCPeerConnection, createOffer,
\* setLocalDescription, setRemoteDescription, a random source).
BrowserCallFails(n) ==
  /\ pc[n] \in {"offer", "local", "remote"}
  /\ Fault
  /\ Fail(n)
  /\ UNCHANGED <<wired, woken, inbox, peer_id, client, pool, silent, signed>>

BrowserOffer(keys) == [i \in DOMAIN keys |-> [key |-> keys[i], val |-> BrowserOwn]]

IsCredential(line) == line.key \in {"ufrag", "pwd"}
Credentials(sdp) == {i \in DOMAIN sdp : IsCredential(sdp[i])}

MungeUfragOnly(sdp, u) ==
  [i \in DOMAIN sdp |-> IF sdp[i].key = "ufrag" THEN [sdp[i] EXCEPT !.val = u] ELSE sdp[i]]
\* munge_offer on an offer it accepts: u is both ufrag and password.
Munge(sdp, u) ==
  [i \in DOMAIN sdp |-> IF IsCredential(sdp[i]) THEN [sdp[i] EXCEPT !.val = u] ELSE sdp[i]]
Mungeable(sdp) == Cardinality(Credentials(sdp)) = 2

\* server_answer, from the ufrag of the attempt.
ServerAnswer(u) == <<[key |-> "ufrag", val |-> u], [key |-> "pwd", val |-> u]>>
\* The answer a node makes itself (external).
TargetAnswer == ServerAnswer(NodeOwn)

\* createOffer resolves: munge (on the direct path), set the description.
OfferReady(n) ==
  /\ pc[n] = "offer"
  /\ \E keys \in Offers :
       LET sdp == BrowserOffer(keys)
       IN IF kind[n] # "relayed" /\ ~Mungeable(sdp)
          THEN Fail(n)
          ELSE /\ local' = [local EXCEPT ![n] = IF kind[n] = "relayed" THEN sdp ELSE Munge(sdp, n)]
               /\ Goto(n, "local")
               /\ UNCHANGED <<kind, want, far, remote, channel, gathered, ended, outcome>>
  /\ UNCHANGED <<wired, woken, inbox, peer_id, world>>

\* setLocalDescription resolves on the direct path: synthesize the answer.
AnswerLocally(n) ==
  /\ pc[n] = "local" /\ kind[n] # "relayed"
  /\ remote' = [remote EXCEPT ![n] = ServerAnswer(n)]
  /\ Goto(n, "remote")
  /\ UNCHANGED <<kind, want, far, local, events, session, world>>

-----------------------------------------------------------------------------
(* The relayed path                                                        *)

\* wait_for_ice_complete, up to its await; a finished gathering goes straight
\* on to the relay.
WaitForIce(n) ==
  /\ pc[n] = "local" /\ kind[n] = "relayed"
  /\ Goto(n, IF gathered[n] THEN "exchange" ELSE "gather")
  /\ wired' = [wired EXCEPT ![n] = IF gathered[n] THEN @ ELSE @ \cup {"ice"}]
  /\ UNCHANGED <<setup, channel, gathered, woken, session, world>>

\* Nobody looks at the gathering state after wait_for_ice_complete.
IceCompletes(n) ==
  /\ pc[n] \in {"local", "gather"} /\ kind[n] = "relayed" /\ ~gathered[n]
  /\ gathered' = [gathered EXCEPT ![n] = TRUE]
  /\ woken' = [woken EXCEPT ![n] = @ \/ "ice" \in wired[n]]
  /\ UNCHANGED <<pc, setup, channel, wired, session, world>>

\* The 5 s cap.
GatherTimer(n) ==
  /\ pc[n] = "gather" /\ ~woken[n]
  /\ woken' = [woken EXCEPT ![n] = TRUE]
  /\ UNCHANGED <<pc, setup, channel, wired, gathered, session, world>>

\* The rest of wait_for_ice_complete, then the offer goes out in signal_relay.
GatherResumes(n) ==
  /\ pc[n] = "gather" /\ woken[n]
  /\ wired' = [wired EXCEPT ![n] = @ \ {"ice"}]
  /\ woken' = [woken EXCEPT ![n] = FALSE]
  /\ Goto(n, "exchange")
  /\ UNCHANGED <<setup, channel, gathered, session, world>>

\* signal_relay returns the target's answer: the relay may have reached
\* another node than the target.
RelayAnswers(n) ==
  /\ pc[n] = "exchange" /\ ~silent[n]
  /\ \E q \in Peers : far' = [far EXCEPT ![n] = q]
  /\ remote' = [remote EXCEPT ![n] = TargetAnswer]
  /\ Goto(n, "remote")
  /\ UNCHANGED <<kind, want, local, events, session, world>>

\* signal_relay fails: the relay's error, or its connection is gone.
RelayFails(n) ==
  /\ pc[n] = "exchange"
  /\ Fault
  /\ Fail(n)
  /\ UNCHANGED <<wired, woken, inbox, peer_id, client, pool, silent, signed>>

-----------------------------------------------------------------------------
(* Waiting for the channel                                                 *)

\* The ICE credentials of both descriptions have to agree; on the direct path
\* the node takes them to be the ufrag the browser uses.
Connectable(n) ==
  /\ remote[n] # <<>>
  /\ kind[n] # "relayed" =>
       \A i \in Credentials(local[n]), j \in Credentials(remote[n]) :
         local[n][i].val = remote[n][j].val

\* What the channel of an attempt that has returned does, no attempt sees.
ChannelOpens(n) ==
  /\ channel[n] = "connecting" /\ Connectable(n)
  /\ channel' = [channel EXCEPT ![n] = "open"]
  /\ woken' = [woken EXCEPT ![n] = @ \/ "open" \in wired[n]]
  /\ UNCHANGED <<pc, setup, wired, gathered, session, world>>

\* The channel closes: the error event may come with it, the close event does.
ChannelCloses(n) ==
  /\ channel[n] \in {"connecting", "open"} /\ remote[n] # <<>>
  /\ channel' = [channel EXCEPT ![n] = "closed"]
  /\ \E error \in BOOLEAN :
       woken' = [woken EXCEPT ![n] = @ \/ (error /\ "open" \in wired[n])]
  /\ ended' = [ended EXCEPT ![n] = @ \/ "data" \in wired[n]]
  /\ UNCHANGED <<pc, setup, wired, gathered, inbox, outcome, peer_id, world>>

\* from_open sets the handlers of the transport, establish sends the hello and
\* awaits a frame, all in one run.  The send may fail.
Establish(n) ==
  \/ Goto(n, "accept") /\ UNCHANGED <<setup, channel, gathered, ended, outcome, faults>>
  \/ Fault /\ Fail(n)

\* setRemoteDescription resolves: an open channel is used at once.
RemoteSet(n) ==
  /\ pc[n] = "remote"
  /\ IF channel[n] = "open"
     THEN Establish(n) /\ wired' = [wired EXCEPT ![n] = @ \cup {"data"}]
     ELSE /\ Goto(n, "open") /\ wired' = [wired EXCEPT ![n] = @ \cup {"open"}]
          /\ UNCHANGED <<setup, channel, gathered, ended, outcome, faults>>
  /\ UNCHANGED <<woken, inbox, peer_id, client, pool, silent, signed>>

NoOpenTimer(n) == FALSE /\ UNCHANGED vars
\* The 15 s timeout.
OpenTimer(n) ==
  /\ pc[n] = "open" /\ ~woken[n]
  /\ woken' = [woken EXCEPT ![n] = TRUE]
  /\ UNCHANGED <<pc, setup, channel, wired, gathered, session, world>>

UsableIfNotified(n) == channel[n] # "connecting"
\* The verdict of wait_for_open, by the state and not by what woke it.
Usable(n) == channel[n] = "open"

HandlersKept(n) == wired[n]
HandlersCleared(n) == wired[n] \ {"open"}

\* The rest of wait_for_open, and on success from_open and establish.
OpenResumes(n) ==
  /\ pc[n] = "open" /\ woken[n]
  /\ IF Usable(n)
     THEN Establish(n) /\ wired' = [wired EXCEPT ![n] = HandlersCleared(n) \cup {"data"}]
     ELSE /\ Fail(n) /\ wired' = [wired EXCEPT ![n] = HandlersCleared(n)]
          /\ UNCHANGED faults
  /\ woken' = [woken EXCEPT ![n] = FALSE]
  /\ UNCHANGED <<inbox, peer_id, client, pool, silent, signed>>

-----------------------------------------------------------------------------
(* The handshake                                                           *)

CanSpeak(n) == pc[n] = "accept" /\ channel[n] = "open" /\ inbox[n] = <<>> /\ ~silent[n]

\* The node accepts the hello it was sent: it signs it, as itself.
NodeAccepts(n) ==
  /\ CanSpeak(n)
  /\ inbox' = [inbox EXCEPT ![n] = <<[form |-> "proper", peer |-> far[n], hello |-> n]>>]
  /\ signed' = signed \cup {<<far[n], n>>}
  /\ UNCHANGED <<pc, setup, events, ended, outcome, peer_id, client, pool, silent, faults>>

\* The node sends an accept of no use: not one of this protocol, or one that
\* was signed for another hello.
NodeSendsOther(n) ==
  /\ CanSpeak(n)
  /\ Fault
  /\ \E f \in Accept :
       /\ f.form = "proper" => <<f.peer, f.hello>> \in signed
       /\ f.form # "proper" => f.peer = far[n] /\ f.hello = n
       /\ inbox' = [inbox EXCEPT ![n] = <<f>>]
  /\ UNCHANGED <<pc, setup, events, ended, outcome, peer_id, client, pool, silent, signed>>

\* The node, or the relay, does not answer.
Silence(n) ==
  /\ pc[n] \in {"exchange", "accept", "get"} /\ inbox[n] = <<>> /\ ~silent[n]
  /\ Fault
  /\ silent' = [silent EXCEPT ![n] = TRUE]
  /\ UNCHANGED <<pc, setup, events, session, client, pool, signed>>

FinishUnpinned(n, f) == f.form = "proper" /\ f.hello = n
FinishWithoutHello(n, f) == f.form = "proper" /\ want[n] \in {None, f.peer}
\* finish: the frame's form, the signature over this attempt's own hello, and
\* the identity if one is expected.
Finish(n, f) ==
  /\ f.form = "proper"
  /\ f.hello = n
  /\ want[n] \in {None, f.peer}

KeyAsPinned(n, p) == want[n]
\* The pool of a new client holds its bootstrap under the identity it proved,
\* connection_for inserts under the identity it looked for.
PoolKey(n, p) == IF kind[n] = "bootstrap" THEN p ELSE want[n]

\* What the caller does with the connection; relayed_fetch goes on to fetch.
Hand(n, p) ==
  IF kind[n] = "relayed"
  THEN /\ Goto(n, "get")
       /\ UNCHANGED <<setup, channel, gathered, ended, outcome, client, pool>>
  ELSE /\ Return(n, "ok")
       /\ pool' = [k \in DOMAIN pool \cup {PoolKey(n, p)} |->
                     IF k = PoolKey(n, p) THEN n ELSE pool[k]]
       /\ client' = IF kind[n] = "bootstrap" THEN n ELSE client

\* recv_frame resolves with a frame, also on a channel that closed since.
RecvAccept(n) ==
  /\ pc[n] = "accept" /\ inbox[n] # <<>>
  /\ inbox' = [inbox EXCEPT ![n] = <<>>]
  /\ LET f == Head(inbox[n])
     IN IF Finish(n, f)
        THEN /\ peer_id' = [peer_id EXCEPT ![n] = f.peer]
             /\ Hand(n, f.peer)
        ELSE /\ Fail(n)
             /\ UNCHANGED <<peer_id, client, pool>>
  /\ UNCHANGED <<wired, woken, silent, signed, faults>>

RecvClosed(n) ==
  /\ pc[n] = "accept" /\ inbox[n] = <<>> /\ ended[n]
  /\ Fail(n)
  /\ UNCHANGED <<wired, woken, inbox, peer_id, world>>

\* get_verified on the relayed connection, which is then dropped.
FetchReturns(n) ==
  /\ pc[n] = "get" /\ (ended[n] \/ ~silent[n])
  /\ \E o \in IF ended[n] THEN {"err"} ELSE {"ok", "err"} : Return(n, o)
  /\ UNCHANGED <<wired, woken, inbox, peer_id, world>>

-----------------------------------------------------------------------------
ClientStep(n) ==
  \/ OfferReady(n) \/ AnswerLocally(n) \/ WaitForIce(n) \/ GatherResumes(n)
  \/ RemoteSet(n) \/ OpenResumes(n)
  \/ RecvAccept(n) \/ RecvClosed(n) \/ FetchReturns(n)

Timers(n) == GatherTimer(n) \/ OpenTimer(n)

Browser(n) ==
  BrowserCallFails(n) \/ IceCompletes(n) \/ ChannelOpens(n) \/ ChannelCloses(n)

Nodes(n) ==
  RelayAnswers(n) \/ RelayFails(n) \/ NodeAccepts(n) \/ NodeSendsOther(n) \/ Silence(n)

Next ==
  \E n \in Attempts :
    \/ ConnectBootstrap(n) \/ ConnectDirect(n) \/ ConnectRelayed(n)
    \/ ClientStep(n) \/ Timers(n) \/ Browser(n) \/ Nodes(n)

\* Promises settle, runnable tasks run and timers expire; a node or relay
\* that is not silent answers.  Nothing is assumed of gathering, and no
\* channel has to open or to close.
Fairness ==
  \A n \in Attempts :
    /\ WF_vars(ClientStep(n)) /\ WF_vars(Timers(n))
    /\ WF_vars(RelayAnswers(n)) /\ WF_vars(NodeAccepts(n))

Spec == Init /\ [][Next]_vars /\ Fairness

-----------------------------------------------------------------------------
(* Properties                                                              *)

\* ADR-0010's tunnel: a session is with a node that signed this very hello,
\* so an accept kept from another session is not taken for one, whoever else
\* is connecting at the same time.
SessionIsFresh ==
  \A n \in Attempts : peer_id[n] # None => <<peer_id[n], n>> \in signed

\* The pool finds a connection under a PeerId only if that node is at its
\* other end, whichever certificate discovery paired with the PeerId and
\* however many attempts for one peer overlap.
PoolKeyIsPeer ==
  \A p \in DOMAIN pool : peer_id[pool[p]] = p /\ outcome[pool[p]] = "ok"

\* While a direct attempt waits for its channel, the munged offer and the
\* synthesized answer carry one and the same credential, its own: otherwise
\* the channel could never open and the attempt would time out.
CredentialsAgree ==
  \A n \in Attempts : kind[n] # "relayed" /\ remote[n] # <<>> =>
    /\ Connectable(n)
    /\ \A i \in Credentials(local[n]) : local[n][i].val = n

\* The closures of wait_for_ice_complete and wait_for_open are dropped when
\* these return; calling a dropped closure throws.  No gathering, open or
\* error event that comes after the timeout can reach one.
NoHandlerDangles ==
  \A n \in Attempts : /\ "ice" \in wired[n] => pc[n] = "gather"
                      /\ "open" \in wired[n] => pc[n] = "open"

\* The close handler is set only once the channel is open.  A channel that
\* closed between its open event and that moment is not used: whoever waits
\* for a frame of a closed channel is told.
ClosedIsNoticed ==
  \A n \in Attempts : pc[n] \in {"accept", "get"} /\ channel[n] = "closed" => ended[n]

\* Every attempt ends, whatever the browser does; only the relay or the node
\* can hold it, by staying silent, as neither exchange nor handshake has a
\* timeout.
ConnectEnds ==
  \A n \in Attempts :
    pc[n] # "unborn" ~>
      (pc[n] = "done" \/ (silent[n] /\ (pc[n] = "exchange" \/ channel[n] = "open")))
=============================================================================

------------------------------- MODULE Upload -------------------------------
(***************************************************************************)
(* WasmClient::upload and store_one (src/lib.rs): store every content      *)
(* chunk, then the wrapper chunks, then the data map, each one quoted,     *)
(* paid for and PUT at its close group.                                    *)
(*                                                                         *)
(* One upload runs at a time on the client, and everything it awaits is a  *)
(* step.  The nodes, discovery, the wallet behind the pay callback and the *)
(* page are external: a request on an open connection is answered, refused *)
(* or lost, the callback may report a failure for a payment that is mined  *)
(* all the same, and the page may be closed or reloaded at any moment and  *)
(* upload the same file again.                                             *)
(***************************************************************************)
EXTENDS Naturals, Sequences, FiniteSets

CONSTANTS
  Peers,          \* the nodes
  Liars,          \* nodes whose claims of having stored a chunk may be false
  Bootstrap,      \* the peer of the bootstrap connection, pooled from the start
  Lists,          \* what discovery may answer: lists of distinct peers
  Content, Wrappers, Map,  \* the chunks of the file: two sequences, one address
  GroupSize,      \* CLOSE_GROUP_SIZE (7 in the code)
  Majority,       \* CLOSE_GROUP_MAJORITY (4)
  Attempts,       \* QUOTE_ATTEMPTS (3)
  MaxUploads,     \* bound: times the file is uploaded
  MaxFaults       \* bound: refusals, lost answers, broken connections, reloads

ASSUME GroupAssumption ==
  /\ IsFiniteSet(Peers) /\ Liars \subseteq Peers /\ Bootstrap \in Peers
  /\ GroupSize \in Nat /\ Majority \in 1..GroupSize /\ Attempts \in Nat \ {0}
\* Discovery (external) names a peer once; store_one relies on it.
ASSUME ListsAssumption ==
  \A l \in Lists : /\ l \in Seq(Peers)
                   /\ \A i, j \in 1..Len(l) : l[i] = l[j] => i = j
ASSUME UploadBoundsAssumption == MaxUploads \in Nat /\ MaxFaults \in Nat

ChunkSet(s) == {s[i] : i \in DOMAIN s}
\* The map's address is the hash of the map, which names all other chunks.
ASSUME FileAssumption ==
  /\ Content \in Seq(ChunkSet(Content)) /\ Wrappers \in Seq(ChunkSet(Wrappers))
  /\ Map \notin ChunkSet(Content) \cup ChunkSet(Wrappers)

\* The store list of upload: content first, the data map last.
MapFirst(content, wrappers, map) == <<map>> \o content \o wrappers
StoreOrder(content, wrappers, map) == content \o wrappers \o <<map>>

items == StoreOrder(Content, Wrappers, Map)
Addresses == {items[k] : k \in DOMAIN items}

VARIABLES
  pc,          \* the await upload is suspended in
  item,        \* index into items
  group,       \* the peers being quoted, in discovery's order
  peer,        \* index into group
  attempt,     \* attempts already made at this peer
  already,     \* already_stored_count
  accepted,    \* peers whose PUT succeeded
  link,        \* per peer, the pooled connection: "none", "open", "broken"
  stored,      \* per peer, the chunks it holds
  payments,    \* history: how often each chunk was paid for
  uploads, faults  \* counters for the bounds

vars == <<pc, item, group, peer, attempt, already, accepted, link, stored,
          payments, uploads, faults>>

TypeOK ==
  /\ pc \in {"idle", "discover", "connect", "quote", "approve", "pay", "put",
             "done", "failed"}
  /\ item \in DOMAIN items
  /\ group \in Seq(Peers) /\ Len(group) \in {0, GroupSize}
  /\ peer \in 1..GroupSize
  /\ attempt \in 0..(Attempts - 1)
  /\ already \in 0..GroupSize
  /\ accepted \in 0..GroupSize
  /\ link \in [Peers -> {"none", "open", "broken"}]
  /\ stored \in [Peers -> SUBSET Addresses]
  /\ payments \in [Addresses -> Nat]
  /\ uploads \in 0..MaxUploads /\ faults \in 0..MaxFaults

\* The pool of a client that has just connected.
FreshPool == [p \in Peers |-> IF p = Bootstrap THEN "open" ELSE "none"]

Init ==
  /\ pc = "idle"
  /\ item = 1 /\ group = <<>> /\ peer = 1 /\ attempt = 0
  /\ already = 0 /\ accepted = 0
  /\ link = FreshPool
  /\ stored = [p \in Peers |-> {}]
  /\ payments = [a \in Addresses |-> 0]
  /\ uploads = 0 /\ faults = 0

Current == group[peer]
Address == items[item]
Fault == faults < MaxFaults /\ faults' = faults + 1

netVars == <<stored, payments>>

-----------------------------------------------------------------------------
(* upload                                                                  *)

Upload ==
  /\ pc \in {"idle", "failed", "done"}
  /\ uploads < MaxUploads
  /\ uploads' = uploads + 1
  /\ pc' = "discover" /\ item' = 1
  /\ group' = <<>> /\ peer' = 1 /\ attempt' = 0 /\ already' = 0 /\ accepted' = 0
  /\ UNCHANGED <<link, netVars, faults>>

\* store_one returned Ok: the next item, or the address of the file.
ItemStored ==
  /\ IF item = Len(items) THEN pc' = "done" /\ UNCHANGED item
                          ELSE pc' = "discover" /\ item' = item + 1
  /\ group' = <<>> /\ peer' = 1 /\ attempt' = 0 /\ already' = 0 /\ accepted' = 0

UploadFails == pc' = "failed" /\ UNCHANGED <<item, group, peer, attempt, already, accepted>>

-----------------------------------------------------------------------------
(* store_one: quotes                                                       *)

\* connection_for: a pooled connection is used whatever its state.
QuoteOrConnect(p) == IF link'[p] = "none" THEN "connect" ELSE "quote"

Discovered(list) ==
  /\ pc = "discover"
  /\ link' = link
  /\ IF Len(list) < GroupSize
     THEN UploadFails
     ELSE /\ group' = SubSeq(list, 1, GroupSize)
          /\ pc' = QuoteOrConnect(list[1])
          /\ UNCHANGED <<item, peer, attempt, already, accepted>>
  /\ UNCHANGED <<netVars, uploads, faults>>

DiscoveryFails ==
  /\ pc = "discover" /\ Fault
  /\ UploadFails
  /\ UNCHANGED <<link, netVars, uploads>>

\* for attempt in 0..QUOTE_ATTEMPTS
MoreAttemptsLate(n) == n <= Attempts
MoreAttempts(n) == n < Attempts

\* The error arm of the retry loop: all but the last error evict the peer's
\* connection before the next attempt.
QuoteError(l) ==
  IF MoreAttempts(attempt + 1)
  THEN /\ link' = [link EXCEPT ![Current] = "none"]
       /\ attempt' = attempt + 1
       /\ pc' = "connect"
       /\ UNCHANGED <<item, group, peer, already, accepted>>
  ELSE link' = l /\ UploadFails

ConnectOk ==
  /\ pc = "connect"
  /\ link' = [link EXCEPT ![Current] = "open"]
  /\ pc' = "quote"
  /\ UNCHANGED <<item, group, peer, attempt, already, accepted, netVars, uploads, faults>>

ConnectFails ==
  /\ pc = "connect" /\ Fault
  /\ QuoteError(link)
  /\ UNCHANGED <<netVars, uploads>>

EnoughStoredLate(n) == n > Majority
EnoughStored(n) == n >= Majority

\* A verified quote.  The peer's connection is kept for the PUT; a majority
\* that has the chunk already ends store_one without a payment.
QuoteOk(flag) ==
  /\ pc = "quote" /\ link[Current] = "open"
  /\ flag = (Address \in stored[Current]) \/ Current \in Liars
  /\ link' = link
  /\ IF flag /\ EnoughStored(already + 1)
     THEN ItemStored
     ELSE /\ already' = IF flag THEN already + 1 ELSE already
          /\ attempt' = 0
          /\ IF peer = GroupSize THEN pc' = "approve" /\ peer' = 1
                                 ELSE pc' = QuoteOrConnect(group[peer + 1]) /\ peer' = peer + 1
          /\ UNCHANGED <<item, group, accepted>>
  /\ UNCHANGED <<netVars, uploads, faults>>

\* An Error, an answer to something else, a quote that does not verify, or an
\* answer that never arrives because the connection breaks.
QuoteFails ==
  /\ pc = "quote" /\ link[Current] = "open" /\ Fault
  /\ \E l \in {link, [link EXCEPT ![Current] = "broken"]} : QuoteError(l)
  /\ UNCHANGED <<netVars, uploads>>

QuoteOnBroken ==
  /\ pc = "quote" /\ link[Current] = "broken"
  /\ QuoteError(link)
  /\ UNCHANGED <<netVars, uploads, faults>>

-----------------------------------------------------------------------------
(* store_one: payment                                                      *)

Approved ==
  /\ pc = "approve"
  /\ pc' = "pay"
  /\ UNCHANGED <<item, group, peer, attempt, already, accepted, link, netVars, uploads, faults>>

ApproveFails ==
  /\ pc = "approve" /\ Fault
  /\ UploadFails
  /\ UNCHANGED <<link, netVars, uploads>>

Mined == payments' = [payments EXCEPT ![Address] = @ + 1]

Paid ==
  /\ pc = "pay"
  /\ Mined
  /\ pc' = "put"
  /\ UNCHANGED <<item, group, peer, attempt, already, accepted, link, stored, uploads, faults>>

\* The callback rejects, or resolves to no transaction hash; the payment may
\* be mined nevertheless (the page's payer gives up polling for the receipt).
PayFails ==
  /\ pc = "pay" /\ Fault
  /\ Mined \/ UNCHANGED payments
  /\ UploadFails
  /\ UNCHANGED <<link, stored, uploads>>

-----------------------------------------------------------------------------
(* store_one: PUT                                                          *)

\* After a peer was accepted or given up: the next one, or the verdict.
AcceptedMinority(n) == n >= Majority - 1
AcceptedEnough(n) == n >= Majority

NextPut(n) ==
  IF peer < GroupSize
  THEN /\ peer' = peer + 1 /\ attempt' = 0 /\ accepted' = n
       /\ UNCHANGED <<pc, item, group, already>>
  ELSE IF AcceptedEnough(n) THEN ItemStored ELSE UploadFails

\* The error arm of the PUT loop: the same connection is used again.
PutErrorUncounted ==
  UNCHANGED <<pc, item, group, peer, attempt, already, accepted>>
PutError ==
  IF MoreAttempts(attempt + 1)
  THEN attempt' = attempt + 1 /\ UNCHANGED <<pc, item, group, peer, already, accepted>>
  ELSE NextPut(accepted)

Store == stored' = [stored EXCEPT ![Current] = @ \cup {Address}]

\* What a node may answer to a PUT (ChunkPutResponse; "other" is any other
\* message), and what put_chunk makes of it: Ok(true) or an error.  It never
\* returns the Ok(false) store_one has an arm for.
PutResponse == {"Success", "AlreadyExists", "PaymentRequired", "Error", "other"}
PutChunkOk(response) == response \in {"Success", "AlreadyExists"}

\* The node says that it has stored the chunk, or had it already.
PutOk(response) ==
  /\ pc = "put" /\ link[Current] = "open"
  /\ PutChunkOk(response)
  /\ \/ response = "Success" /\ Store
     \/ response = "AlreadyExists" /\ Address \in stored[Current] /\ UNCHANGED stored
     \/ Current \in Liars /\ UNCHANGED stored
  /\ NextPut(accepted + 1)
  /\ UNCHANGED <<link, payments, uploads, faults>>

\* The node answers that it does not take the chunk.
PutRejected(response) ==
  /\ pc = "put" /\ link[Current] = "open" /\ Fault
  /\ ~PutChunkOk(response)
  /\ PutError
  /\ UNCHANGED <<link, netVars, uploads>>

\* No usable answer: the node may have stored the chunk, and the connection
\* may have broken.
PutLost ==
  /\ pc = "put" /\ link[Current] = "open" /\ Fault
  /\ Store \/ UNCHANGED stored
  /\ \E s \in {"open", "broken"} : link' = [link EXCEPT ![Current] = s]
  /\ PutError
  /\ UNCHANGED <<payments, uploads>>

PutOnBroken ==
  /\ pc = "put" /\ link[Current] = "broken"
  /\ PutError
  /\ UNCHANGED <<link, netVars, uploads, faults>>

-----------------------------------------------------------------------------
\* An idle pooled connection breaks.
Break(p) ==
  /\ link[p] = "open" /\ Fault
  /\ link' = [link EXCEPT ![p] = "broken"]
  /\ UNCHANGED <<pc, item, group, peer, attempt, already, accepted, netVars, uploads>>

\* The page is closed or reloaded in the middle of an upload: the client and
\* its connections are gone, what the nodes and the chain have stays; a later
\* upload runs on a new client.
Reload ==
  /\ pc \notin {"idle", "done", "failed"} /\ Fault
  /\ UploadFails
  /\ link' = FreshPool
  /\ UNCHANGED <<netVars, uploads>>

ClientStep ==
  \/ \E list \in Lists : Discovered(list)
  \/ DiscoveryFails
  \/ ConnectOk \/ ConnectFails
  \/ \E flag \in BOOLEAN : QuoteOk(flag)
  \/ QuoteFails \/ QuoteOnBroken
  \/ Approved \/ ApproveFails \/ Paid \/ PayFails
  \/ \E response \in PutResponse : PutOk(response) \/ PutRejected(response)
  \/ PutLost \/ PutOnBroken

Quiet == pc \in {"done", "failed"} /\ uploads = MaxUploads /\ UNCHANGED vars

Next ==
  \/ Upload
  \/ ClientStep
  \/ \E p \in Peers : Break(p)
  \/ Reload
  \/ Quiet

Spec == Init /\ [][Next]_vars

\* Whatever the upload awaits is eventually answered or fails.
FairSpec == Spec /\ WF_vars(ClientStep)

-----------------------------------------------------------------------------
(* Properties                                                              *)

Holders(a) == {p \in Peers : a \in stored[p]} \cup Liars
AtMajority(a) == Cardinality(Holders(a)) >= Majority

\* When upload returns the address of the file, every chunk of it is held by
\* a majority of a close group, peers with false claims aside, whatever was
\* refused, lost, retried or skipped as already stored on the way.
OkMeansStored ==
  pc = "done" => \A a \in Addresses : AtMajority(a)

\* No data map without its file: wherever an upload stops, by an error or a
\* closed page, a node that holds the data map implies that everything the
\* map leads to is stored already.
NoDanglingMap ==
  (\E p \in Peers : Map \in stored[p]) => \A a \in Addresses \ {Map} : AtMajority(a)

\* A chunk that a majority of the quoted peers already hold is never paid for
\* again: not when it occurs twice in a file, not when an upload is repeated
\* after a failure, and not after a PUT whose answers were lost.
HonestHolders(a) == {i \in 1..Len(group) : a \in stored[group[i]] /\ group[i] \notin Liars}
NeverPayForStored ==
  [][payments' # payments => Cardinality(HonestHolders(Address)) < Majority]_vars

\* Retries are bounded: an upload ends, whatever the peers and the wallet do,
\* as long as each request is answered or fails.
UploadEnds == pc \notin {"idle", "done", "failed"} ~> pc \in {"done", "failed"}

\* "Retry a peer whose connection blipped, same as the quote phase"
\* (src/lib.rs:435): a PUT is not retried over the connection that broke.
PutRetryReconnects ==
  [][(pc = "put" /\ pc' = "put" /\ peer' = peer /\ attempt' = attempt + 1)
       => link'[Current] # "broken"]_vars

\* "a definitive rejection, not a blip" (src/lib.rs:446): after a node has
\* answered that it does not take the chunk, that peer is not asked again.
RejectionEndsRetries ==
  [][\A response \in {"PaymentRequired", "Error"} :
       PutRejected(response) => ~(pc' = "put" /\ peer' = peer)]_vars
=============================================================================

# TLA+ models of ant-wasm-client

ant-wasm-client is a browser client (Rust compiled to WebAssembly) for
content-addressed storage nodes. It opens WebRTC data channels directly to
nodes, wraps each in a post-quantum tunnel, downloads and verifies files chunk
by chunk, and uploads files by quoting, paying for and storing each chunk at its
close group. This directory holds TLA+ models of that code, TLC configurations
that check them on small instances, and TLAPS proofs.

All tasks run in one browser thread: a task is interrupted only where it awaits.
So one action of a model is the code between two awaits.

## Inventory

| Part | State | Operations | What is hard |
|---|---|---|---|
| `conn.rs` node connection | `next_seq`, `request_lock`, cipher, transport | `round_trip` under `get_verified`, `closest_peers`, `signal_relay`, `chunk_round_trip`; `connect`, `connect_via_relay`, `establish` | tasks sharing a connection, stale answers, no timeouts |
| `webrtc.rs` transport | data channel, receive queue, `frame_buf` | open (direct or relayed), `send_frame`, `recv_frame`, `on_message`, `on_close` | borrow across an await, partial sends, open timeout, close at any time |
| `framing.rs` | reassembly buffer | `encode_frame`, `split_messages`, `push` | frames across messages, sticky length error |
| `tunnel.rs` | session key | handshake `start`/`finish`, `seal_request`, `open_response` | nonce uniqueness, identity pinning |
| `lib.rs` download | pool, `chunks_fetched` | `connection_for`, `get_direct`, `fetch_chunk`, `download` | concurrent fetches, check-then-await on the pool, closed pooled connections |
| `retrieval.rs` | map, `root_resolved`, cache | `begin`, `required_addresses`, `supply`, `advance`, `is_complete`, `finish` | wrapped maps, partial rounds |
| `lib.rs` upload | pool, per-item progress | `upload`, `store_one`, `try_quote`, `request_quote`, `put_chunk`, `call_pay` | retries, lost answers, payment without a receipt, a page closed half-way |
| `evm.rs` | none | 256-bit arithmetic, `payment_split`, `total_amount`, calldata | carries, ties, order of payments |
| `payment.rs`, `protocol.rs`, `discovery.rs`, `sdp.rs` | none | encodings, quote verification | wire layout |
| `web/index.html` | manifest, DOM | page handlers, payers | receipts that arrive after the payer gave up |

What makes each part correct: a connection gives every caller its own verified
answer or an error and never reuses a nonce; a download returns the whole file
or fails for a reason the network gave; an upload that reports success has
stored everything, one that stops half-way leaves no data map without its file,
and stored chunks are not paid for again; the payment is the one the nodes
expect. `PROJECT.json` lists the hazards behind these at their source lines.

## Modules

The parts are stacked as in the code. *Framing* turns messages into frames;
*Connect* opens a channel and authenticates it; *NodeConnection* exchanges
requests and answers over an authenticated connection, frame by frame;
*Download* and *Upload* use pooled connections, and *PaymentSplit* is the payment
inside one `store_one`. Two abstract modules state what a layer promises the next:
*FrameQueue* (frames come out whole, in order, once) is implemented by Framing
and is how NodeConnection uses a channel; *VerifiedCalls* (calls take turns, each
has the node to itself for one exchange, an Ok GET has the bytes asked for) is
implemented by NodeConnection and is how Download and Upload use a connection.

**Framing** models `framing.rs` on bytes, with `send_frame` and `recv_frame` of
`webrtc.rs` at the two ends of a channel. A frame has the code's four-byte
big-endian length prefix; a byte has `Base` values. `channel` holds the messages
under way and `frame_buf` the receiver's buffer; `SendFrames` encodes one or two
frames and cuts the bytes at any of several message sizes, since the node may cut
elsewhere; `SendDamaged` puts a torn frame, or one of an illegal length, on the
stream. `RecvFrame` is the first pass of `recv_frame`, with the `push(&[])` that
drains the buffer, and `MessageReceived` a pass after the await. `sent`, `got` and
`damaged` are history. The refinement maps `intact` to `~damaged`.

**Connect** models everything from a call of `WasmClient::connect`,
`connection_for` or `relayed_fetch` to an authenticated connection or an error:
offer, munging and local answer of the direct path, ICE gathering and the relay
exchange of the relayed path, `wait_for_open`, `from_open`, and the handshake.
Attempts run concurrently; `pc` is the await an attempt is at. `wired` is the set
of handlers that are installed on the connection and the channel, `woken` says
that the awaited oneshot or timer has fired, and `ended` that the close handler
ended the receiver. Attempt n's random values are the number n: its ufrag, which
the credential lines of `local` and `remote` carry, and its ML-KEM key pair,
which an accept frame is signed for. The certificate an attempt pins leads to
node `far`, which need not be the node `want` that discovery paired with it.
Nodes may stay silent, send something that is no accept, or an accept they signed
for another attempt. What the channel of an attempt does after the attempt has
returned is not followed: for a pooled connection that is NodeConnection's
subject. The page awaits its client, so bootstrap attempts do not overlap.

**NodeConnection** models `conn.rs` over the receive path of `webrtc.rs`, after
the handshake. `Callers` are the tasks holding the connection. `pc` says where a
task is: not in a call, awaiting `request_lock`, or in `recv_frame`. `Call`
builds a request; the `Send...` actions are `round_trip` from acquiring the lock
to the await of `recv_frame` (`next_seq`, `seal_request` and `send_frame` run
without interruption), with one action for each way it ends: sequence space
exhausted, sent, refused because the channel is not open, torn after some of its
messages. The `Recv...` actions read one frame, or the end of the channel, and
apply all checks of `round_trip` and of the caller. `sealed` is history. Frames
are whole: `inbox` holds what was received and not yet read; a length prefix
that `FrameBuf::push` rejects stays at its head as it stays in the buffer. The
request's `id` only names a call; the code's `request_id` is never compared. The
node (external) answers, refuses, lies about a GET's address or content, repeats
an answer, sends another lane's tag, a body that does not decode, an undecryptable
frame or a bad length, or takes a request and stays silent. Content is identified with its BLAKE3 hash.

**Retrieval** translates `retrieval.rs` into operators on a record
(`file, level, root_resolved, cache`). A file is a sequence of levels: level 1
lists the content chunks, level k > 1 the wrapper chunks that decrypt to the map
of level k - 1. `get_root_data_map` of the self_encryption crate (external)
walks to the root and takes every wrapper from the cache. The cache maps an
address to the bytes supplied for it; bytes are right for an address when they
are its content, and what a node serves can be anything. `Finish` is `finish()`:
it fails on an incomplete retrieval or an address the cache lacks, and otherwise
hands the cached bytes, in the map's order, to decryption. The addresses a round
requires are given by their indices in the map, so that a chunk the map lists
twice is asked for twice, as in the code.

**Download** models the client around it: `pool`, all connections ever opened,
and per task the `get_direct` futures of its current `join_all`. A future is in
discovery, connecting, in `get_verified`, or finished; `TryPeers` is the loop
head of `get_direct` with the pool lookup of `connection_for`. `MapFetched` and
`RoundFetched` run from the resolved `join_all` to the next one, with supply,
count, advance and finish. Connections are used through the contract that
NodeConnection establishes; a peer that is not `Good` may serve any bytes, and
`GetVerified` is the hash check of `get_verified`. `lone` is history: the task
whose download started last, if no other download was under way then. `excused` records that the network failed a healthy
client: discovery failed or named no `Good` peer, or a `Good` peer's connection
closed.

**Upload** models `upload` and `store_one`: `items` in store order, discovery,
quotes with retries and eviction, the early return when a majority has the
chunk, approve and pay, PUT with retries, and the two verdicts. `link` is the
pooled connection per peer; since one upload runs at a time, the connection a
quoted peer captured is that one. The bootstrap connection matters only through
discovery, which may fail at any time. Answers may be refused or lost (with the
chunk stored or not), a payment may be mined after the callback failed, `Liars`
claim to store without storing, and `Reload` stops the upload at any await.

**Words** translates the big-endian arithmetic of `evm.rs`. A word is `Width`
digits in base `Base` (32 and 256 in the code). `u256_add` and `u256_mul_u64` run
the same loop from the least significant column up and drop the last carry;
`Carried` is that loop and the two differ in their columns. `Value` is the number
a word stands for.

**QuoteWire** translates `payment.rs` into operators: the fields of an encoded
quote in order, with the two an older node omits, the bytes a signature covers,
verification, the quote hash, and the tagged proof. Keccak-256 and ML-DSA-65 are
ideal; the timestamp's nanoseconds, which nothing signs or reads, are left out.

**PaymentSplit** models one payment of `store_one`: quotes arrive, possibly
altered in one field after signing, kept from another chunk and relabelled, or
naming or signed with a key that is not the peer's, and pass or fail `try_quote`;
a commitment may come along with a quote, pinned by it or not, and goes into the
proof as a sidecar (`commitments`). `issued` is history: the key each accepted
quote was signed with, and for which terms. Then come the split, the approve
calldata, the approval, the `payForQuotes` calldata, the payment and the proof, in
the order of the code. The wallet may fail at either transaction, with the payment mined or not. Amounts are
the words of *Words*; addresses and hashes have their own lengths (`AddressLen`,
`HashLen`), since what a signature covers is a concatenation without separators.
The stable sort is modelled by the rank it gives each index. The contracts
(external) decode the calldata they are sent; the node (external) parses the proof
and looks for the median's payment.

**NodeConnectionProofs**, **FramingProofs**, **ConnectProofs**,
**DownloadProofs**, **UploadProofs**, **WordsProofs** and **PaymentProofs** hold
the TLAPS proofs, each about the module it extends. The `MC*` modules are TLC
instances. Operators that no action uses (`LockIgnored`, `ExhaustedLate`,
`SealKeepingSeq`, ...) are deliberate misreadings of the definition that follows
them: substituting one must break the property `PROJECT.json` pairs it with.

## Runs

| Run | Bounds | Shows |
|---|---|---|
| `framing` | binary digits for bytes, four-byte prefixes, payloads of 1 and 2 bytes, messages of 1, 5 or 16 bytes, 4 frames, damage at any point | implements FrameQueue; no frame stranded in the buffer; a length error is final; every frame sent arrives |
| `connect` | 2 nodes, 3 attempts, 1 fault, offers with and without a password line | sessions are fresh; a pooled connection is to the peer it is pooled as; offer and answer agree; no event reaches a dropped handler; a close is noticed; an attempt ends unless a node or relay is silent |
| `node_connection` | 2 callers, 2 contents, 4 calls, MaxSeq 4, 1 fault, symmetric | one receiver; no nonce twice; an Ok is the caller's own answer with the right content; a framing error is final; implements VerifiedCalls |
| `node_connection_live` | 2 callers, all 4 operations, 3 calls, 1 fault | a call hangs only on a silent node with an open channel |
| `download` | 2 tasks and 2 calls, overlapping or in a row, 2 peers, one of which fails or serves wrong bytes, a once-wrapped map with a repeated chunk, 1 close | whole file in its right bytes, or a cause; the race in `connection_for` and the shared pool harm neither task; exact count of a download with no other under way; every call ends |
| `upload` | 4 peers, groups of 3, majority 2, 2 attempts, 1 liar, 2 uploads, 2 faults, 4 items with a repeated chunk | Ok means stored; no dangling map; no payment for stored chunks; ends |
| `payment_split` | groups of 7, 3-digit binary words, 4 quotes with and without pin and commitment and one for another chunk, each also with any one field changed, a foreign key and another member's | an accepted quote is its peer's, for this chunk, and says what was signed; modular arithmetic; the median is paid; approve equals the payment; the proof a node parses is paid for |

Five runs are expected to fail; each refutes something the repository says:

- `connection_count`: "Number of open node connections" (`lib.rs:103`). The pool
  keeps closed connections, counts them and keeps handing them to `get_direct`.
- `chunk_count`: "Chunks the last `download` fetched over the network"
  (`lib.rs:109`). Two overlapping downloads share the counter: the later one
  resets it, and both add to it, so that it ends as the count of neither. Of a
  download with no other under way it is exact (`CountIsExact`).
- `multi_level_map`: "shrunk (multi-level) data maps are resolved round by round"
  (`README.md:26`). One wrapping works, as `download` shows. With two, the single
  `advance` asks for inner wrappers that no round has fetched. Such a map arises
  only when the serialized map itself needs more than three chunks, so only for
  very large files.
- `put_retry`: "Retry a peer whose connection blipped, same as the quote phase"
  (`lib.rs:435`). The PUT loop reuses the broken connection.
- `put_rejection`: "a definitive rejection, not a blip" (`lib.rs:446`).
  `put_chunk` never returns `Ok(false)`; rejections are retried.

**Why the bounds suffice.** A one-byte payload behind its four-byte prefix fits a
five-byte message exactly and a two-byte payload spans two; one-byte messages cut
every prefix, and a sixteen-byte message holds two frames; four frames leave some
before and after a damaged one. Three attempts are a bootstrap and two that
overlap for the same or for different peers, or a failed bootstrap, its repetition
and one more; two nodes suffice to be mistaken for one another. One fault is
enough because a fault ends or holds its attempt, and timers, late events, closing
channels and wrong certificates are not counted as faults. The connection's
hazards need two tasks, an earlier request whose answer arrives late, and the end
of the sequence space: four calls and `MaxSeq` 4 contain them all. The download
needs a wrapped level, a repeated chunk, a bad peer before and after a good one,
and a second call, during the first or on the pool it has warmed. The upload needs a majority that is neither one
nor all, one more peer than the group, a retry that fails, and a second upload;
two faults combine, for example, a lost PUT answer with a reload. Three binary
digits carry across every position and wrap; seven quotes is the real group size.
Counters that only bound the instance are `MaxSends`, `MaxAttempts`, `MaxCalls`,
`MaxFaults`, `MaxStarts`, `MaxCloses`, `MaxUploads`. The runs `framing` and
`connect` do not check for deadlock: once everything sent was received, or all
attempts have ended, the system stops.

**Fairness.** A wasm task that can run is run and a promise of the browser
settles (`ClientStep`, `TaskStep`, `RecvFrame`, `MessageReceived`), timers expire
(`Timers` in Connect), and the browser delivers the close event of a closing
channel (`OnClose`). `NodeAnswers`, `NodeAccepts` and `RelayAnswers` are fair,
with silence as an explicit fault that `OnlySilenceBlocks` and `ConnectEnds`
except. In Download the futures of a call are joined or make progress infinitely
often, and a task whose futures are joined runs. Connect assumes neither that gathering completes nor that a channel ever
opens or closes. Download and Upload assume that an awaited request and an
awaited connect resolve, which is what these two properties say of nodes that
are not silent. Sends that tear, faults and closes are never forced by fairness.

## Proofs

Every invariant, action property and refinement that a passing run checks is also
a theorem: for every set of peers, callers, tasks, files and payloads, every group
size, word width and limit, and all bounds. What a theorem assumes are the named
assumptions below and, for two theorems on Download, the hypotheses they state.

| Module | Theorem | States |
|---|---|---|
| NodeConnectionProofs | `TypeCorrect`, `SingleReceiver`, `NonceUnique`, `AnswersAreOwn` | `TypeOK`, `OneReceiver`, `NonceNeverReused`, `OkIsOwnVerifiedAnswer` |
| | `FramingFinal`, `TurnsTaken` | `FramingErrorIsFinal`; implements VerifiedCalls |
| FramingProofs | `TypeCorrect`, `StrandedTheorem`, `ErrorTheorem` | `TypeOK`, `NothingStranded`, `LengthErrorSticks` |
| | `QueueTheorem` | implements FrameQueue |
| ConnectProofs | `TypeCorrect`, `FreshTheorem`, `PoolTheorem`, `CredentialsTheorem`, `HandlersTheorem`, `ClosedTheorem` | `TypeOK`, `SessionIsFresh`, `PoolKeyIsPeer`, `CredentialsAgree`, `NoHandlerDangles`, `ClosedIsNoticed` |
| DownloadProofs | `TypeCorrect`, `DoneTheorem`, `FailTheorem`, `CountTheorem` | `TypeOK`, `DoneIsWholeFile`, `FailsOnlyForCause`, `CountIsExact` |
| UploadProofs | `TypeCorrect`, `OkTheorem`, `MapTheorem`, `PayTheorem` | `TypeOK`, `OkMeansStored`, `NoDanglingMap`, `NeverPayForStored` |
| WordsProofs | `AddTheorem`, `MulTheorem`, `FitsTheorem`, `CompareTheorem` | sums and products are exact modulo `Modulus`, no column overflows its machine integer, `u256_cmp` is numeric order |
| PaymentProofs | `TypeCorrect`, `BindingTheorem`, `AddIsModularTheorem`, `MulIsModularTheorem`, `MedianTheorem`, `ApproveTheorem`, `ProofTheorem` | `TypeOK`, `QuotesAreBinding`, `AddIsModular`, `MulIsModular`, `MedianIsPaid`, `ApproveCoversPayments`, `ProofIsPaid` |

Each proof has an inductive invariant `IInv`, a lemma or a step per action, and a
temporal theorem that combines them.

**NodeConnection.** `IInv` adds three facts to the properties: whoever holds
`request_lock` is in `recv_frame` (`HolderReceives`); the history of sealed
requests is numbered 1, 2, ... up to `next_seq` (`SealedInOrder`), which gives
nonce uniqueness; and the request a receiving task waits for is in the history
under its number (`AwaitedIsSealed`), which with the sequence check of
`round_trip` gives `OkIsOwnVerifiedAnswer`. The refinement needs `OneReceiver`: a
task that ends its call in `recv_frame` is the one whose exchange is under way.

**Framing.** The refinement rests on `Stream`: there is one byte string on which
the encodings of the frames sent lie one behind the other from its first byte,
with any damage after them, and on which the buffer starts where the next frame to
be returned does and the messages under way follow it, wherever they were cut. As
`FromBe` inverts `ToBe`, a stream that starts with a frame determines it, so
`push` finds in the buffer exactly the next frame sent, or that it is not yet
complete. `Stream` quantifies over all byte strings, so TLC does not check it; its
consequences are what the run checks. `ErrorStays` (the bad prefix is still at the
head of the buffer) makes the error final.

**Connect.** The invariant is one conjunction per attempt: what its states say of
its identities (`Identity`), of the two descriptions (`Descriptions`), of the
handlers and oneshots of the wait it is in (`Handlers`), of the accept frames on
its channel (`Signatures`) and of its result (`Outcomes`). A step touches only
its own attempt (`Only`), so that each action needs a proof for one attempt only.
The exceptions are the pool, which `PoolKeyIsPeer` covers, and replayed accepts,
which carry the number of the attempt they were signed for.

**Download.** A pooled connection is to the peer it is pooled as (`PoolInv`); as
long as nothing is `excused`, connections to `Good` peers are open (`Healthy`);
a fetch under way has a `Good` peer left to try and none has failed, again unless
something is excused (`FetchesInv`); and a task's round fetches exactly what its
retrieval requires, which is at the outermost map with nothing cached or at the
root with at most the outermost wrappers (`TasksInv`), and whose cache holds the
right bytes for every address it holds any for (`Verified`). `DoneIsWholeFile`
follows for maps wrapped any number of times: what `finish` reads from the cache
is there and is right. `FailTheorem` holds for files wrapped at
most once (`OnceWrapped`): the run `multi_level_map` is the counterexample
without. `CountTheorem` assumes that too, and that no content chunk is
also a wrapper chunk of the same file (`DistinctLevels`): such a chunk would be in
the cache when its round begins, so it is not fetched, and not counted, again.
Its invariant `CountInv` says how many chunks are due at each point of a call, as
long as no other download runs (`Alone`).

**Upload.** Every item before the current one is held by a majority
(`PrefixStored`); with the map last in the store order this is `NoDanglingMap`.
Within an item, the quoted group has distinct peers (`GroupChosen`), `already` is
at most the number of peers asked so far that hold the chunk or claim to, and at
least that of the honest ones (`AlreadyCounts`), and `accepted` is at most the
number of the former (`AcceptedCounts`). Between them they give the majority
behind an Ok and the refusal to pay for what is stored. Nodes never drop a chunk,
so the facts survive reloads and further uploads.

**Words.** What a loop over digits computes is proved by induction on the number
of columns. The library's induction rules cannot be instantiated by the provers
here, so each induction is a least-counterexample argument: the set of lengths at
which the statement fails has a least element, which the recursion contradicts.
`FitsTheorem` is the absence of overflow in the code's `u16` and `u128` columns.

**Payment.** Accepted quotes verified and are what the peers asked issued
(`GoodQuotes`), the payments are the split of the quotes (`SplitMade`), and what
the contracts and the node were handed comes from those (`Handed`).
`QuotesAreBinding` then needs that the signed bytes determine the fields although
they are concatenated without separators (all fixed length but the pin, which is
last): `SignedBytes`. `MedianIsPaid` needs that some quote has the middle rank
(`RankExists`, a pigeonhole argument over the ranks) and that at least half the
prices are on either side of it. `ApproveCoversPayments` and `ProofIsPaid` need
that the calldata decodes to the payments (`DecodeFacts`) and the proof to the
quotes (`ProofRoundTrip`).

**Assumptions.** Bounds are natural numbers and model values are distinct from
the sets they stand beside. Beyond that: `Peers` is finite and the majority is
between one and the group size (`GroupAssumption`); discovery names a peer once in
a list (`ListsAssumption`): nothing in `lib.rs` removes duplicates, so this is a
fact about the nodes the client relies on; the map's address is not among the
chunks it names (`FileAssumption`, `LevelsAssumption`: it would be a fixed point
of the hash); a browser's offer is a sequence of lines (`OffersAssumption`);
a legal payload is within `MaxFrame`, and `MaxFrame` fits the prefix
(`FramingAssumption`, `PayloadAssumption`); bytes have at least two values
(`RadixAssumption`); the number of quotes fits a calldata word and an address is
no longer than one (`GroupSizeAssumption`, `LengthsAssumption`); quotes have
well-formed fields, keys are numbers (`TermsAssumption`). TLC evaluates each in the runs of its module.

**Only model-checked.** Liveness: `ConnectEnds`, `EveryFrameArrives`,
`OnlySilenceBlocks`, `EveryCallEnds` and `UploadEnds`, as reasoning about fairness
is out of the prover's reach. The five expected violations are counterexamples
and need no proof.

## Not modelled

- Cryptographic primitives, and what serde derives: the bytes of postcard and of
  MessagePack. Of an SDP text only the credential lines are modelled.
- Overlapping uploads on one client. The second lookup of a quoted peer's
  connection (`lib.rs:385`) may then connect again, and fail without the retries
  of the quote loop.
- Events after a transport is dropped. Dropping one neither closes its channel nor
  removes its message and close handlers (`webrtc.rs:152`); a later event calls a
  dropped closure, which throws in the browser's event loop and changes no state
  of the client.
- The page's rendering, gallery and manifest loading (DOM and fetch code), and
  `closest_peers_json`, which formats an answer.
- `node_connection.rs`, a truncated file nothing includes.

## Plan

1. Overlapping uploads, and uploads against downloads, on one client: eviction
   in the quote loop against the second lookup of `connection_for`
   (`lib.rs:385`), with the invariants of Upload restated per upload.
2. A proof that Download and Upload use a connection within *VerifiedCalls*, so
   that the layers compose in one theorem; today each side is proved, and the
   step between them is this document's argument.

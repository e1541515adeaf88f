----------------------------- MODULE QuoteWire -----------------------------
(***************************************************************************)
(* src/payment.rs: a quote on the wire, what its signature and its hash    *)
(* cover, and the payment proof made of quotes.                            *)
(*                                                                         *)
(* rmp encodes a struct as the array of its fields, so an encoding is a    *)
(* tuple and only order and number of fields matter.  Contents, words,     *)
(* addresses and pins are sequences of digits of fixed length; an absent   *)
(* pin is the empty sequence.  Keccak-256 and ML-DSA-65 are ideal: a hash  *)
(* is its input, a signature is the key and the message it was made with.  *)
(* The nanoseconds of the timestamp are neither signed nor read, and left  *)
(* out.                                                                    *)
(***************************************************************************)
EXTENDS Naturals, SequencesExt

NoPin == <<>>
PROOF_TAG_SINGLE_NODE == 1

\* The six fields every node sends and the two an older one does not.
ParseQuote(w) ==
  [content |-> w[1], secs |-> w[2], price |-> w[3], rewards_address |-> w[4],
   pub_key |-> w[5], signature |-> w[6],
   committed_key_count |-> IF Len(w) >= 7 THEN w[7] ELSE 0,
   commitment_pin |-> IF Len(w) >= 8 THEN w[8] ELSE NoPin]

EncodeQuoteOld(q) ==
  <<q.content, q.secs, q.price, q.rewards_address, q.pub_key, q.signature>>
EncodeQuote(q) ==
  <<q.content, q.secs, q.price, q.rewards_address, q.pub_key, q.signature,
    q.committed_key_count, q.commitment_pin>>

\* What a node signs: the price with its least significant digit first, the
\* pin behind a tag that says whether there is one.
BytesForSig(q) ==
  q.content \o <<q.secs>> \o Reverse(q.price) \o q.rewards_address
    \o <<q.committed_key_count>>
    \o (IF q.commitment_pin = NoPin THEN <<0>> ELSE <<1>> \o q.commitment_pin)

\* An ML-DSA-65 signature (external).
Sign(key, message) == [key |-> key, message |-> message]

\* A key or signature of the wrong length or form is one that never verifies.
VerifyQuote(q) == q.signature = Sign(q.pub_key, BytesForSig(q))

\* Key and signature have fixed lengths in a verified quote, so that the
\* concatenation the code hashes determines its parts.
QuoteHash(q) == <<BytesForSig(q), q.pub_key, q.signature>>

EncodeProof(proof) ==
  <<PROOF_TAG_SINGLE_NODE,
    <<[i \in DOMAIN proof.peer_quotes |->
         <<proof.peer_quotes[i].peer, EncodeQuote(proof.peer_quotes[i].quote)>>],
      proof.tx_hashes, proof.sidecars>>>>

SerializeSingleNodeProof(peer_quotes, tx_hash, sidecars) ==
  EncodeProof([peer_quotes |-> peer_quotes, tx_hashes |-> <<tx_hash>>, sidecars |-> sidecars])

\* parse_single_node_proof, for bytes that carry the tag.
HasProofTag(bytes) == bytes # <<>> /\ Head(bytes) = PROOF_TAG_SINGLE_NODE
ParseSingleNodeProof(bytes) ==
  LET body == bytes[2]
  IN [peer_quotes |-> [i \in DOMAIN body[1] |->
                         [peer |-> body[1][i][1], quote |-> ParseQuote(body[1][i][2])]],
      tx_hashes |-> body[2], sidecars |-> body[3]]
=============================================================================

---------------------------- MODULE PaymentSplit ----------------------------
(***************************************************************************)
(* Paying for one chunk: from the quotes store_one (src/lib.rs) accepts to *)
(* the proof it PUTs, with the payment split and the ABI calldata of       *)
(* src/evm.rs.  Retries, connections and the PUTs themselves are module    *)
(* Upload's.                                                               *)
(*                                                                         *)
(* Calldata is a selector and words.  The wallet and the chain are         *)
(* external, and so is the node that checks the proof the way              *)
(* SingleNodePayment::from_quotes does.                                    *)
(***************************************************************************)
EXTENDS QuoteWire, Words, FiniteSets

CONSTANTS GroupSize,
  HashLen,      \* digits of a content address or a pin (32 in the code)
  AddressLen,   \* digits of an EVM address (20 in the code)
  Vault,        \* the payment vault's address
  Replies,      \* what a node may answer: the terms it quotes (for this chunk
                \* or another) and the commitment it sends along
  Keys,         \* keys a quote may carry or be signed with instead of the peer's
  Address,      \* the chunk to be stored
  Other         \* per field of a quote, a value some quote might have instead

ASSUME GroupSizeAssumption == GroupSize \in 1..(Modulus - 1)
ASSUME LengthsAssumption == HashLen \in Nat \ {0} /\ AddressLen \in 1..Width

Content == [1..HashLen -> Digit]
EvmAddress == [1..AddressLen -> Digit]
Term == [content : Content, secs : Nat, price : Word, rewards_address : EvmAddress,
         committed_key_count : Nat, commitment_pin : Content \cup {NoPin}]

\* A commitment is optional, and opaque: <<>> or <<c>>.
Reply == [terms : Term, commitment : Seq(Nat)]

ASSUME TermsAssumption ==
  /\ Replies \subseteq Reply /\ Keys \subseteq Nat
  /\ Other \in Term /\ Address \in Content /\ Vault \in EvmAddress

Signature == [key : Nat, message : Seq(Nat)]
Quote == [content : Content, secs : Nat, price : Word, rewards_address : EvmAddress,
          pub_key : Nat, signature : Signature,
          committed_key_count : Nat, commitment_pin : Content \cup {NoPin}]
DataPayment == [rewards : EvmAddress, amount : Word, hash : Seq(Nat) \X Nat \X Signature]

\* The position of quote i in the stable sort by price, counted from 0.
Rank(q, i) ==
  Cardinality({j \in DOMAIN q : \/ U256Less(q[j].price, q[i].price)
                                \/ q[j].price = q[i].price /\ j < i})

\* The quote ranked in the middle (ranked[3] of seven).
MedianIndexLate(q) == CHOOSE i \in DOMAIN q : Rank(q, i) = (GroupSize \div 2) + 1
MedianIndex(q) == CHOOSE i \in DOMAIN q : Rank(q, i) = GroupSize \div 2

\* payment_split of GroupSize quotes: a DataPayment for each, in their order.
Split(q) ==
  [i \in DOMAIN q |->
     [rewards |-> q[i].rewards_address,
      amount |-> IF i = MedianIndex(q) THEN U256Mul(q[i].price, 3) ELSE Zero,
      hash |-> QuoteHash(q[i])]]

\* The fold of u256_add over the amounts.
TotalLast(ps) == ps[Len(ps)].amount
TotalAmount(ps) ==
  LET total[n \in 0..Len(ps)] ==
        IF n = 0 THEN Zero ELSE U256Add(total[n - 1], ps[n].amount)
  IN total[Len(ps)]

\* Calldata.  The array of payments starts one word (0x20 bytes) after the
\* word that says so, with its length.
WordFromAddress(a) == [i \in 1..(Width - AddressLen) |-> 0] \o a
ApproveCalldata(spender, amount) == <<"approve", WordFromAddress(spender), amount>>
PayForQuotesCalldata(ps) ==
  <<"payForQuotes", Number(1), Number(Len(ps))>>
    \o FlattenSeq([i \in DOMAIN ps |->
                     <<WordFromAddress(ps[i].rewards), ps[i].amount, ps[i].hash>>])

\* What the contracts read from it (external).
AddressOfWord(w) == SubSeq(w, Width - AddressLen + 1, Width)
DecodedPayments(data) ==
  LET array == 2 + Value(data[2])
  IN [i \in 1..Value(data[array]) |->
        [rewards |-> AddressOfWord(data[array + 3 * i - 2]),
         amount |-> data[array + 3 * i - 1], hash |-> data[array + 3 * i]]]
Pulled(ps) ==
  LET sum[n \in 0..Len(ps)] == IF n = 0 THEN 0 ELSE sum[n - 1] + Value(ps[n].amount)
  IN sum[Len(ps)]

-----------------------------------------------------------------------------
VARIABLES
  pc,          \* "quoted": collecting; "approve", "pay": awaiting the wallet;
               \* "proved": the proof is built; "failed"
  quotes,      \* accepted so far, in the order the peers were asked
  commitments, \* what came along with each of them, <<>> or <<c>>
  issued,      \* history: the key each was signed with and the terms it was for
  payments,    \* the split
  calldata,    \* handed to the wallet last
  allowance,   \* what the token lets the vault pull (chain)
  paid,        \* payments the vault has recorded (chain)
  proof        \* the proof bytes, <<>> before

vars == <<pc, quotes, commitments, issued, payments, calldata, allowance, paid, proof>>

TypeOK ==
  /\ pc \in {"quoted", "approve", "pay", "proved", "failed"}
  /\ quotes \in Seq(Quote) /\ Len(quotes) <= GroupSize
  /\ commitments \in Seq(Seq(Nat)) /\ Len(commitments) = Len(quotes)
  /\ issued \in Seq([key : Nat, terms : Term]) /\ Len(issued) = Len(quotes)
  /\ payments \in Seq(DataPayment) /\ paid \in Seq(DataPayment)
  /\ allowance \in Word

Init ==
  /\ pc = "quoted"
  /\ quotes = <<>> /\ commitments = <<>> /\ issued = <<>>
  /\ payments = <<>> /\ calldata = <<>>
  /\ allowance = Zero /\ paid = <<>> /\ proof = <<>>

\* The i-th peer's identity: the hash of its key, which stands for it.
Peer(i) == i

\* The encoding of a quote that says t and names key p, made from one that key k
\* signed for terms s; in the six-field form when the tail has its defaults.
Answer(p, k, s, t) ==
  LET head == <<t.content, t.secs, t.price, t.rewards_address,
                p, Sign(k, BytesForSig(s))>>
      tail == <<t.committed_key_count, t.commitment_pin>>
  IN IF tail = <<0, NoPin>> THEN head ELSE head \o tail

\* The checks of try_quote after parsing: this chunk, this peer's key, signed.
AcceptableAnyKey(q, i) == q.content = Address /\ VerifyQuote(q)
Acceptable(q, i) == q.content = Address /\ q.pub_key = Peer(i) /\ VerifyQuote(q)

AsksOneMore(n) == n <= GroupSize
AsksMore(n) == n < GroupSize

\* t is s, or differs from it in one field, or is s relabelled for this chunk.
Variants(s) ==
  {s, [s EXCEPT !.content = Address]} \cup {[s EXCEPT ![f] = Other[f]] : f \in DOMAIN Other}

\* try_quote on the next peer's answer; a rejected one fails the store (after
\* the retries module Upload models).
TryQuote(p, k, r, t) ==
  /\ pc = "quoted" /\ AsksMore(Len(quotes))
  /\ LET i == Len(quotes) + 1
         q == ParseQuote(Answer(p, k, r.terms, t))
     IN IF Acceptable(q, i)
        THEN /\ quotes' = Append(quotes, q)
             /\ commitments' = Append(commitments, r.commitment)
             /\ issued' = Append(issued, [key |-> k, terms |-> r.terms])
             /\ UNCHANGED pc
        ELSE /\ pc' = "failed"
             /\ UNCHANGED <<quotes, commitments, issued>>
  /\ UNCHANGED <<payments, calldata, allowance, paid, proof>>

\* Split, total and the approve calldata, up to the await of the wallet.
AskApproval ==
  /\ pc = "quoted" /\ Len(quotes) = GroupSize
  /\ payments' = Split(quotes)
  /\ calldata' = ApproveCalldata(Vault, TotalAmount(payments'))
  /\ pc' = "approve"
  /\ UNCHANGED <<quotes, commitments, issued, allowance, paid, proof>>

\* payment_split called with any other number of quotes (it is public;
\* store_one never does).
PaymentSplitRefuses ==
  /\ pc = "quoted" /\ Len(quotes) # GroupSize
  /\ pc' = "failed"
  /\ UNCHANGED <<quotes, commitments, issued, payments, calldata, allowance, paid, proof>>

\* The approval is mined and the callback resolves; payForQuotes goes out.
Approved ==
  /\ pc = "approve"
  /\ allowance' = IF AddressOfWord(calldata[2]) = Vault THEN calldata[3] ELSE allowance
  /\ calldata' = PayForQuotesCalldata(payments)
  /\ pc' = "pay"
  /\ UNCHANGED <<quotes, commitments, issued, payments, paid, proof>>

CanPull == Pulled(DecodedPayments(calldata)) <= Value(allowance)

\* The payment is mined and the callback resolves to its hash; the proof is
\* built of all quotes, in their order, and the commitments that came along.
Paid ==
  /\ pc = "pay" /\ CanPull
  /\ paid' = DecodedPayments(calldata)
  /\ proof' = SerializeSingleNodeProof(
                [i \in DOMAIN quotes |-> [peer |-> Peer(i), quote |-> quotes[i]]],
                calldata, FlattenSeq(commitments))
  /\ pc' = "proved"
  /\ UNCHANGED <<quotes, commitments, issued, payments, calldata, allowance>>

\* The callback throws, rejects or resolves to no transaction hash; for a
\* payment, before or after it was mined.
WalletFails ==
  /\ pc \in {"approve", "pay"}
  /\ pc' = "failed"
  /\ \/ UNCHANGED paid
     \/ pc = "pay" /\ CanPull /\ paid' = DecodedPayments(calldata)
  /\ UNCHANGED <<quotes, commitments, issued, payments, calldata, allowance, proof>>

Next ==
  \/ \E p, k \in Keys \cup {Peer(Len(quotes) + 1)}, r \in Replies :
       \E t \in Variants(r.terms) : TryQuote(p, k, r, t)
  \/ AskApproval \/ PaymentSplitRefuses \/ Approved \/ Paid \/ WalletFails
  \/ pc \in {"proved", "failed"} /\ UNCHANGED vars

Spec == Init /\ [][Next]_vars

-----------------------------------------------------------------------------
(* Properties                                                              *)

\* A quote that passes try_quote was made by the peer it was asked of, for this
\* very chunk, and says what that peer signed in every field that decides whom
\* and how much to pay and which commitment the price rests on; a quote changed
\* on its way, kept from another chunk and relabelled, or made or signed by
\* somebody else, does not.
QuotesAreBinding ==
  \A i \in DOMAIN quotes :
    /\ issued[i].key = Peer(i) /\ issued[i].terms.content = Address
    /\ \A f \in DOMAIN issued[i].terms : quotes[i][f] = issued[i].terms[f]

\* The arithmetic of the digit loops is arithmetic modulo 2^256: for any two
\* quoted prices u256_add is their sum, u256_mul_u64 three times the price.
AddIsModular ==
  \A i, j \in DOMAIN quotes :
    LET a == quotes[i].price b == quotes[j].price
    IN Value(U256Add(a, b)) = (Value(a) + Value(b)) % Modulus
MulIsModular ==
  \A i \in DOMAIN quotes :
    Value(U256Mul(quotes[i].price, 3)) = (3 * Value(quotes[i].price)) % Modulus

\* Exactly one quote is paid, and it is the median by numeric value: no more
\* than half of the others are cheaper and no more than half dearer, ties
\* included; it gets three times its price and everybody else nothing.
MedianIsPaid ==
  payments # <<>> =>
    \E m \in DOMAIN quotes :
      LET price(i) == Value(quotes[i].price)
      IN /\ Cardinality({i \in DOMAIN quotes : price(i) < price(m)}) <= GroupSize \div 2
         /\ Cardinality({i \in DOMAIN quotes : price(i) > price(m)}) <= GroupSize \div 2
         /\ Value(payments[m].amount) = (3 * price(m)) % Modulus
         /\ \A i \in DOMAIN quotes \ {m} : payments[i].amount = Zero

\* What the vault pulls is what it was allowed: it is never short, so that the
\* second transaction does not fail after the first was paid for, and nothing
\* is left over for it to pull later.
ApproveCoversPayments ==
  pc = "pay" => Pulled(DecodedPayments(calldata)) = Value(allowance)

\* A node that parses the proof, sorts its quotes and looks up the median's
\* hash on chain finds the payment: three times the price, to the address that
\* quote names.  Split, calldata and proof agree on order, hashes and fields.
ProofIsPaid ==
  pc = "proved" =>
    /\ HasProofTag(proof)
    /\ LET pq == ParseSingleNodeProof(proof).peer_quotes
           qs == [i \in DOMAIN pq |-> pq[i].quote]
           m == MedianIndex(qs)
       IN /\ \A i \in DOMAIN qs : Acceptable(qs[i], pq[i].peer)
          /\ \E k \in DOMAIN paid :
               paid[k] = [rewards |-> qs[m].rewards_address,
                          amount |-> U256Mul(qs[m].price, 3), hash |-> QuoteHash(qs[m])]
=============================================================================

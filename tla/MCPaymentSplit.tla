--------------------------- MODULE MCPaymentSplit ---------------------------
(* Groups of seven as in the code and three-digit binary words; prices whose *)
(* sums and triples carry and wrap around, pins and commitments together and *)
(* apart, one quote for another chunk, a key of nobody's and one that is the *)
(* first peer's.                                                             *)
EXTENDS PaymentSplit

McAddress == <<0>>
McVault == <<1, 0>>
McReply(content, price, rewards, count, pin, commitment) ==
  [terms |-> [content |-> content, secs |-> 1, price |-> price, rewards_address |-> rewards,
              committed_key_count |-> count, commitment_pin |-> pin],
   commitment |-> commitment]
McReplies == {McReply(<<0>>, <<0, 0, 1>>, <<0, 1>>, 0, NoPin, <<>>),
              McReply(<<0>>, <<0, 1, 1>>, <<1, 0>>, 0, <<0>>, <<>>),
              McReply(<<0>>, <<1, 0, 1>>, <<1, 1>>, 1, <<0>>, <<5>>),
              McReply(<<0>>, <<1, 1, 0>>, <<0, 1>>, 1, NoPin, <<6>>),
              McReply(<<1>>, <<0, 0, 1>>, <<0, 1>>, 0, NoPin, <<>>)}
McKeys == {0, 1}
McOther == [content |-> <<1>>, secs |-> 0, price |-> <<1, 0, 0>>,
            rewards_address |-> <<0, 0>>, committed_key_count |-> 2,
            commitment_pin |-> <<1>>]
=============================================================================

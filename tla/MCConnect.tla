----------------------------- MODULE MCConnect -----------------------------
(* Two nodes and three attempts: one bootstrap and two that overlap, or a   *)
(* failed bootstrap and its repetition before one more.  The second offer   *)
(* lacks the password line munge_offer asks for.                            *)
EXTENDS Connect

MCOffers == {<<"other", "ufrag", "pwd", "other">>, <<"other", "ufrag">>}
=============================================================================

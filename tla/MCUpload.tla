------------------------------ MODULE MCUpload ------------------------------
(* TLC instance of Upload: four peers, close groups of three, a file whose  *)
(* content chunk occurs twice.  Discovery names the group in one order, in  *)
(* a churned one with a spare peer, or too few peers.                       *)
EXTENDS Upload

CONSTANTS p1, p2, p3, p4

McPeers == {p1, p2, p3, p4}
McLists == {<<p1, p2, p3>>, <<p4, p2, p1, p3>>, <<p1, p2>>}
McContent == <<"a", "a">>
McWrappers == <<"w">>
=============================================================================

----------------------------- MODULE MCDownload -----------------------------
(* TLC instances of Download: a file whose map repeats a chunk and is wrapped *)
(* once, and a file whose map is wrapped twice.                             *)
EXTENDS Download

WrappedLevels == [f \in Files |-> <<<<"c1", "c1">>, <<"w1">>>>]
TwiceWrappedLevels == [f \in Files |-> <<<<"c1">>, <<"w1">>, <<"v1">>>>]
=============================================================================

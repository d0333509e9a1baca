------------------------------- MODULE MCLifetime -------------------------------
(* Instances of Lifetime for TLC. *)
EXTENDS Lifetime

CONSTANTS d1, d2, d3, c1, c2

ThreeDaemons == {d1, d2, d3}
OneCli == {c1}
TwoClis == {c1, c2}
OneWithUnit == [s \in BOOLEAN |-> IF s THEN OneCli ELSE TwoClis]
OneAlways == [s \in BOOLEAN |-> OneCli]
BothModes == BOOLEAN
AdHoc == {FALSE}
AllFaults == {"term", "crash", "caddy"}
TermOnly == {"term"}
=============================================================================

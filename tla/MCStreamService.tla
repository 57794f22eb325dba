--------------------------- MODULE MCStreamService --------------------------
(* Small servers: a few streams of each kind.                              *)
EXTENDS StreamService

CONSTANTS c1, c2, w1, b1, r1

NoActors == {}
OneCall == {c1}
TwoCalls == {c1, c2}
OneSocket == {w1}
OneBulk == {b1}
OneStarter == {r1}
OneOrTwo == {1, 2}
OnlyOne == {1}
AllCommands == {"pause", "resume", "stop"}
OnlyStop == {"stop"}
NoCommands == {}
=============================================================================

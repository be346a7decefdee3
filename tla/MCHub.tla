-------------------------------- MODULE MCHub --------------------------------
(***************************************************************************)
(* Instances of Hub for TLC: who the connections belong to and which code  *)
(* each room draws.                                                        *)
(***************************************************************************)
EXTENDS HubProperties

\* Each connection is another user's.
OneUserEach == [c \in Clients |-> CASE c = "c1" -> "u1" [] c = "c2" -> "u2" [] c = "c3" -> "u3"]
\* No two rooms draw the same code.
DistinctCodes == [r \in Rooms |-> CASE r = "r1" -> "k1" [] r = "r2" -> "k2"]
\* The second room draws the code of the first.
SameCode == [r \in Rooms |-> "k1"]
==============================================================================

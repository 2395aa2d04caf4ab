-------------------------- MODULE MCServerChannels --------------------------
(* ServerChannels for TLC: two connections of one address and one of another. *)
EXTENDS ServerChannels

CONSTANTS c1, c2, c3, home, away

MCConns == {c1, c2, c3}
MCIps == {home, away}
MCIp == [x \in MCConns |-> IF x = c3 THEN away ELSE home]
=============================================================================

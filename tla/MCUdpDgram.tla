----------------------------- MODULE MCUdpDgram -----------------------------
(* Instance of UdpDgram for TLC: a server of a port, which is also one of  *)
(* those udpnxtp() may choose for the process that asks for any.           *)
EXTENDS UdpDgram

MCAsks == [a \in Apps |-> IF a = "server" THEN {ULPORT} ELSE {ULPORT, ANYLPORT}]
=============================================================================

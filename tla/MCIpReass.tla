----------------------------- MODULE MCIpReass -----------------------------
(* Datagrams of three fragments (a), of two (b), of two but too big (c) and  *)
(* whole (d); duplicates overflow a queue                                  *)
EXTENDS IpReass
MCSize == [d \in Datagrams |-> CASE d = "c" -> 4 [] d = "d" -> 1 [] OTHER -> 3]
MCCut == [d \in Datagrams |-> CASE d = "a" -> 1 [] OTHER -> 2]
=============================================================================

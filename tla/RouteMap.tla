------------------------------ MODULE RouteMap ------------------------------
(***************************************************************************)
(* What the routing table promises its callers, without hash chains, route *)
(* buffers or reference counts: a set of routes, at most one for a network *)
(* and mask, a default route, and for every process what it asks for and   *)
(* the route it was given and has not returned.  RtRip implements this     *)
(* module.                                                                 *)
(***************************************************************************)
EXTENDS Naturals, Sequences

CONSTANTS
    Processes,      \* who may ask for a route
    AddrBits,       \* bits of an address
    Inf             \* RTM_INF

VARIABLES
    map,        \* the routes: [net, mask, gw, metric, ifn, ttl] records
    dflt,       \* the default route: {} or one such record
    brc,        \* the broadcast addresses at the moment (isbrc)
    asked,      \* for every process the <<address, local>> it asks for, or <<>>
    got         \* for every process the <<net, mask>> it holds, or <<>>

vars == <<map, dflt, brc, asked, got>>

NetPart(a, mask) == a \div 2^(AddrBits - mask)

(* A route serves dest: the masked parts agree, and a broadcast address of *)
(* local origin is not sent to a host route.                               *)
Serves(r, dest, local) ==
    /\ r.metric < Inf
    /\ NetPart(dest, r.mask) = NetPart(r.net, r.mask)
    /\ local /\ dest \in brc => r.mask # AddrBits

Key(r) == <<r.net, r.mask>>

Best(dest, local) ==
    LET all == {r \in map : Serves(r, dest, local)}
        top == {r \in all : \A s \in all : s.mask <= r.mask}
    IN  IF all # {} THEN {Key(r) : r \in top}
        ELSE IF \E r \in dflt : r.metric < Inf THEN {Key(r) : r \in dflt}
        ELSE {<<>>}

(* The routes of start-up, at most one for a key.                          *)
Init ==
    /\ \A r, s \in map : Key(r) = Key(s) => r = s
    /\ dflt = {}
    /\ asked = [p \in Processes |-> <<>>]
    /\ got = [p \in Processes |-> <<>>]

Ask ==
    /\ \E p \in Processes :
        /\ asked[p] = <<>> /\ got[p] = <<>>
        /\ asked' = [asked EXCEPT ![p] = asked'[p]]
    /\ UNCHANGED <<map, dflt, brc, got>>

(* A process gets the most specific live route for what it asked, else the *)
(* default route, else none; it returns what it holds.                     *)
Get ==
    /\ \E p \in Processes :
        /\ asked[p] # <<>> /\ asked' = [asked EXCEPT ![p] = <<>>]
        /\ \E k \in Best(asked[p][1], asked[p][2]) : got' = [got EXCEPT ![p] = k]
    /\ UNCHANGED <<map, dflt, brc>>

Return ==
    /\ \E p \in Processes : got' = [got EXCEPT ![p] = <<>>]
    /\ UNCHANGED <<map, dflt, brc, asked>>

(* Adding a route: a new network and mask enters; a known one is changed   *)
(* by its own gateway at will, by another gateway only to a better metric. *)
Add ==
    /\ \E new \in map' :
        LET old == {r \in map : Key(r) = Key(new)} IN
        /\ map' = (map \ old) \cup {new}
        /\ \A r \in old : r.gw = new.gw \/ new.metric < r.metric
    /\ UNCHANGED <<dflt, brc, asked, got>>

AddDefault ==
    /\ dflt' # {}
    /\ UNCHANGED <<map, brc, asked, got>>

Delete ==
    /\ \/ UNCHANGED map /\ dflt' = {}
       \/ UNCHANGED dflt /\ \E r \in map : map' = map \ {r}
    /\ UNCHANGED <<brc, asked, got>>

(* Time passes: no route gains life except one that has just become        *)
(* unreachable, none changes its way, and none appears.                    *)
Older(new, old) ==
    /\ Key(new) = Key(old) /\ new.gw = old.gw /\ new.ifn = old.ifn
    /\ \/ new.metric = old.metric /\ new.ttl <= old.ttl
       \/ new.metric = Inf /\ old.metric < Inf

Age ==
    /\ \A new \in map' : \E old \in map : Older(new, old)
    /\ \A new \in dflt' : \E old \in dflt : Older(new, old)
    /\ UNCHANGED <<brc, asked, got>>

(* An interface gets another mask.                                         *)
Renumber == UNCHANGED <<map, dflt, asked, got>>

Next == Ask \/ Get \/ Return \/ Add \/ AddDefault \/ Delete \/ Age \/ Renumber

Spec == Init /\ [][Next]_vars
=============================================================================

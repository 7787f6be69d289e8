------------------------------- MODULE RtRip --------------------------------
(***************************************************************************)
(* The routing table (route/), the processes that read and change it, and  *)
(* RIP (rip/).  A call runs as the list of table operations it still has   *)
(* to do; every operation is one critical section of ri_mutex, and a       *)
(* process may lose the processor between two of them.  ripsend alone      *)
(* keeps ri_mutex over a call that may block (getbuf).                     *)
(*                                                                         *)
(* Addresses are numbers of RtW bits, of which the first RtClass are the   *)
(* network part of the address's class; a mask is its number of one bits,  *)
(* which is rt_key.  Address 0 is RT_DEFAULT.                              *)
(***************************************************************************)
EXTENDS Naturals, Sequences, FiniteSets, SequencesExt, TLC

CONSTANTS
    RtBpSize,       \* RT_BPSIZE, the buffers of ri_bpool
    RtW, RtClass,
    RtTSize,        \* RT_TSIZE
    RtMyIp,         \* ni_ip of the primary interface
    RtMasks,        \* the masks setmask is called with
    RtDests,        \* destinations looked up
    RtGws,          \* neighbouring gateways
    RipNets, RipMetrics,    \* networks and metrics they advertise
    RtmInf,         \* RTM_INF, RIP_INFINITY
    RtInf, RipRtTtl, RipZTime, IcRdTtl,    \* lifetimes
    MaxRipRoutes, MaxNRip,
    RtMaxInputs     \* bound on the messages that arrive

ASSUME RtRipAssumption ==
    /\ RtBpSize \in Nat /\ RtBpSize >= 3
    /\ RtW \in Nat /\ RtClass \in 1..RtW /\ RtMasks \subseteq 1..(RtW - 1)
    /\ RtTSize \in Nat \ {0} /\ MaxRipRoutes \in Nat \ {0} /\ MaxNRip \in Nat
    /\ RtMyIp \in Nat /\ \A m \in RtMasks \cup {RtClass} : RtMyIp \div 2^(RtW - m) # 0
    /\ RtDests \cup RtGws \cup RipNets \cup RipMetrics \subseteq Nat
    /\ RtBpSize <= MaxRipRoutes * MaxNRip
    /\ RtmInf \in Nat /\ RtInf \in Nat
    /\ {RipRtTtl, RipZTime, IcRdTtl} \subseteq 1..(RtInf - 1)

(* Masks are those of subnets, none shorter than the class's own.  The     *)
(* code does not see to it: icmp_in gives setmask any mask of a reply.  A  *)
(* route with a shorter one is in the chain of one network only, where     *)
(* rtget does not look for an address of another network it covers.        *)
RtSubnetted == RtMasks \subseteq RtClass..(RtW - 1)

RtIds == 1..RtBpSize
RtNone == 0      \* no route
RtNobody == "nobody"
RtProcs == {"ip", "ripin", "ripout", "slow"}

(* NI_LOCAL and NI_PRIMARY: the loopback and the one real interface.       *)
RtLocal == 0
RtPrimary == 1

VARIABLES
    rttable,    \* the chains: rttable[h] a sequence of buffers
    rtDefault,  \* Route.ri_default
    rtEnt,      \* the contents of the buffers, with rt_refcnt
    rtFree,     \* buffers of ri_bpool that are free
    riMutex,    \* who keeps ri_mutex between steps, or RtNobody
    rtMask,     \* ni_mask of the primary interface (0: ni_svalid FALSE)
    rtWork,     \* per process the operations it has still to do
    rtHeld,     \* per process the route rtget gave it, or RtNone
    rtFresh,    \* per process the route rtnew gave it, or RtNone
    dorip, riplock, ripMsg,     \* ripMsg: ripout has a message
    ripRq,      \* rq_cur per interface of the update under way
    ripDue,     \* history: a change ripout was told of is not announced yet
    rtInputs    \* messages that may still arrive (RtMaxInputs)

rtVars == <<rttable, rtDefault, rtEnt, rtFree, riMutex, rtMask, rtWork, rtHeld,
            rtFresh, dorip, riplock, ripMsg, ripRq, ripDue, rtInputs>>

-----------------------------------------------------------------------------
(* Addresses.                                                              *)

RtPart(a, mask) == a \div 2^(RtW - mask)
netnum(a) == RtPart(a, RtClass) * 2^(RtW - RtClass)
rthash(a) == RtPart(a, RtClass) % RtTSize
RtMaskAll == RtW

netmask(a) ==
    IF a = 0 THEN 0
    ELSE IF rtMask # 0 /\ netnum(a) = netnum(RtMyIp) THEN rtMask ELSE RtClass

RtSubnet == RtPart(RtMyIp, rtMask) * 2^(RtW - rtMask)
RtBrc == RtSubnet + 2^(RtW - rtMask) - 1

(* ni_nbrc is ni_brc: setmask asks netmask after it has set ni_svalid.     *)
isbrc ==
    {0, 2^RtW - 1} \cup
    IF rtMask = 0 THEN {} ELSE {RtBrc, RtSubnet, netnum(RtMyIp)}

netmatch(dst, net, mask, local) ==
    /\ RtPart(dst, mask) = RtPart(net, mask)
    /\ local /\ dst \in isbrc => mask # RtMaskAll

-----------------------------------------------------------------------------
(* Routes, and the operations a process may have to do.                    *)

(* A route as rtnew makes it, with one reference.                          *)
RtRec(net, mask, gw, metric, ifn, ttl) ==
    [net |-> net, mask |-> mask, gw |-> gw, metric |-> metric, ifn |-> ifn,
     ttl |-> ttl, ref |-> 1]

RtOp(op, arg) == [op |-> op, arg |-> arg]
OpGet(dst, local) == RtOp("get", <<dst, local>>)
OpFree == RtOp("free", <<>>)
OpDel(net, mask) == RtOp("del", <<net, mask>>)
OpAdd(r) == RtOp("add", r)
OpDo(op) == RtOp(op, <<>>)

(* The table is open to p for one critical section.                        *)
RtDoing(p, op) ==
    /\ rtWork[p] # <<>>
    /\ Head(rtWork[p]).op = op
RtMutexFree == riMutex = RtNobody
RtDone(p) == rtWork' = [rtWork EXCEPT ![p] = Tail(@)]
RtThen(p, ops) == rtWork' = [rtWork EXCEPT ![p] = ops \o Tail(@)]

(* RTFREE of every buffer of S.                                            *)
RTFREE(ent, S) == [i \in RtIds |->
    IF i \in S THEN [ent[i] EXCEPT !.ref = @ - 1] ELSE ent[i]]
RtFreed(ent, S) == rtFree' = rtFree \cup {i \in S : ent[i].ref <= 1}

RtSame(e, r) == e.net = r.net /\ e.mask = r.mask

(* The broadcast address is of all ones: BSDBRC is 0 in conf.h.            *)
setmaskAdds ==
    <<OpAdd(RtRec(RtSubnet, rtMask, RtMyIp, 0, RtPrimary, RtInf)),
      OpAdd(RtRec(RtBrc, RtMaskAll, RtMyIp, 0, RtLocal, RtInf)),
      OpAdd(RtRec(RtSubnet, RtMaskAll, RtMyIp, 0, RtLocal, RtInf))>>

setmask(mask) ==
    (IF rtMask # 0
     THEN <<OpDel(RtSubnet, rtMask), OpDel(RtBrc, RtMaskAll),
            OpDel(RtSubnet, RtMaskAll)>>
     ELSE <<>>)
    \o <<RtOp("mask", mask)>>

(* rtinit, and the routes setmask gave the primary interface at start-up,  *)
(* in the order rtadd chains them.  RIP output runs or does not.           *)
RtInit ==
    /\ rtMask \in RtMasks
    /\ rttable = [h \in 0..(RtTSize - 1) |->
                      (IF h = rthash(RtBrc) THEN <<2>> ELSE <<>>)
                      \o (IF h = rthash(RtSubnet) THEN <<3, 1>> ELSE <<>>)]
    /\ rtDefault = RtNone
    /\ rtEnt = [i \in RtIds |->
           IF i <= 3 THEN setmaskAdds[i].arg
           ELSE [RtRec(0, 0, 0, 0, 0, 0) EXCEPT !.ref = 0]]
    /\ rtFree = RtIds \ 1..3
    /\ riMutex = RtNobody
    /\ rtWork = [p \in RtProcs |-> <<>>]
    /\ rtHeld = [p \in RtProcs |-> RtNone]
    /\ rtFresh = [p \in RtProcs |-> RtNone]
    /\ dorip \in BOOLEAN
    /\ riplock = RtNobody
    /\ ripMsg = FALSE
    /\ ripRq = [f \in {RtLocal, RtPrimary} |-> 0]
    /\ ripDue = FALSE
    /\ rtInputs = RtMaxInputs

-----------------------------------------------------------------------------
(* Table operations.                                                       *)

(* send(rippid, 0): fails when ripout has not taken the last message.      *)
RipNotify == ripMsg' = TRUE

rtFound(dst, local) ==
    LET chain == rttable[rthash(dst)]
        live == {k \in DOMAIN chain : LET e == rtEnt[chain[k]] IN
                    /\ e.ttl > 0
                    /\ netmatch(dst, e.net, e.mask, local)
                    /\ e.metric < RtmInf}
    IN  IF live # {} THEN chain[Min(live)]
        ELSE IF rtDefault # RtNone /\ rtEnt[rtDefault].metric < RtmInf
             THEN rtDefault
        ELSE RtNone

(* rtget; every caller but riprepl gives up when there is no route.        *)
rtget(p) ==
    /\ RtDoing(p, "get") /\ RtMutexFree
    /\ LET a == Head(rtWork[p]).arg
           i == rtFound(a[1], a[2]) IN
        /\ rtHeld' = [rtHeld EXCEPT ![p] = i]
        /\ IF i = RtNone
           THEN rtWork' = [rtWork EXCEPT ![p] = <<>>] /\ UNCHANGED rtEnt
           ELSE RtDone(p) /\ rtEnt' = [rtEnt EXCEPT ![i].ref = @ + 1]
    /\ UNCHANGED <<rttable, rtDefault, rtFree, riMutex, rtMask, rtFresh, dorip,
                   riplock, ripMsg, ripRq, ripDue>>

rtfree(p) ==
    /\ RtDoing(p, "free") /\ RtMutexFree
    /\ RtDone(p)
    /\ rtHeld' = [rtHeld EXCEPT ![p] = RtNone]
    /\ rtEnt' = RTFREE(rtEnt, {rtHeld[p]})
    /\ RtFreed(rtEnt, {rtHeld[p]})
    /\ UNCHANGED <<rttable, rtDefault, riMutex, rtMask, rtFresh, dorip, riplock,
                   ripMsg, ripRq, ripDue>>

(* rtdel of the default's network drops the default whatever the mask.     *)
rtdel(p) ==
    /\ RtDoing(p, "del") /\ RtMutexFree
    /\ RtDone(p)
    /\ LET a == Head(rtWork[p]).arg
           h == rthash(a[1])
           hit == {k \in DOMAIN rttable[h] : LET e == rtEnt[rttable[h][k]] IN
                       e.net = a[1] /\ e.mask = a[2]} IN
        IF rtDefault # RtNone /\ rtEnt[rtDefault].net = a[1]
        THEN /\ rtEnt' = RTFREE(rtEnt, {rtDefault})
             /\ RtFreed(rtEnt, {rtDefault})
             /\ rtDefault' = RtNone
             /\ UNCHANGED rttable
        ELSE IF hit # {}
        THEN /\ rtEnt' = RTFREE(rtEnt, {rttable[h][Min(hit)]})
             /\ RtFreed(rtEnt, {rttable[h][Min(hit)]})
             /\ rttable' = [rttable EXCEPT ![h] = RemoveAt(@, Min(hit))]
             /\ UNCHANGED rtDefault
        ELSE UNCHANGED <<rtEnt, rtFree, rttable, rtDefault>>
    /\ UNCHANGED <<riMutex, rtMask, rtHeld, rtFresh, dorip, riplock, ripMsg,
                   ripRq, ripDue>>

(* rtadd up to the wait for ri_mutex: getbuf waits for a free buffer.      *)
rtnew(p) ==
    /\ RtDoing(p, "add") /\ rtFresh[p] = RtNone
    /\ rtFree # {}
    /\ LET i == Min(rtFree) IN
        /\ rtFree' = rtFree \ {i}
        /\ rtEnt' = [rtEnt EXCEPT ![i] = Head(rtWork[p]).arg]
        /\ rtFresh' = [rtFresh EXCEPT ![p] = i]
    /\ UNCHANGED <<rttable, rtDefault, riMutex, rtMask, rtWork, rtHeld, dorip,
                   riplock, ripMsg, ripRq, ripDue>>

(* A fault: the scan compares the keys the other way round.                *)
RtScanAscending(chain, n) ==
    LET stop == {k \in DOMAIN chain :
                    \/ rtEnt[n].mask < rtEnt[chain[k]].mask
                    \/ RtSame(rtEnt[chain[k]], rtEnt[n])}
    IN  IF stop = {} THEN Len(chain) + 1
        ELSE Min(stop)

(* Where the scan of a chain for the new route n stops.                    *)
RtScan(chain, n) ==
    LET stop == {k \in DOMAIN chain :
                    \/ rtEnt[n].mask > rtEnt[chain[k]].mask
                    \/ RtSame(rtEnt[chain[k]], rtEnt[n])}
    IN  IF stop = {} THEN Len(chain) + 1
        ELSE Min(stop)

RtRipTold == IF dorip THEN RipNotify /\ ripDue' = TRUE
             ELSE UNCHANGED <<ripMsg, ripDue>>

RtAddDefault(n) ==
    LET old == {rtDefault} \ {RtNone} IN
    /\ rtDefault' = n
    /\ rtEnt' = RTFREE(rtEnt, old)
    /\ RtFreed(rtEnt, old)
    /\ UNCHANGED <<rttable, ripMsg, ripDue>>

(* The route is known from the same gateway: only its metric, and with RIP *)
(* output its lifetime, change; the new buffer is dropped.                 *)
RtAddSameGw(n, s) ==
    LET new == rtEnt[n]
        zombie == rtEnt[s].metric # new.metric /\ new.metric = RtmInf
        ttl == IF ~dorip THEN rtEnt[s].ttl
               ELSE IF zombie THEN RipZTime ELSE new.ttl IN
    /\ rtEnt' = RTFREE([rtEnt EXCEPT ![s].metric = new.metric, ![s].ttl = ttl],
                       {n})
    /\ RtFreed(rtEnt, {n})
    /\ IF rtEnt[s].metric # new.metric THEN RtRipTold
       ELSE UNCHANGED <<ripMsg, ripDue>>
    /\ UNCHANGED <<rttable, rtDefault>>

RtAddWorse(n, s) ==
    /\ rtEnt' = RTFREE(rtEnt, {n})
    /\ RtFreed(rtEnt, {n})
    /\ UNCHANGED <<rttable, rtDefault, ripMsg, ripDue>>

(* A fault: the route that is replaced is not given up.                    *)
RtAddBetterKept(n, s, h, k) ==
    /\ rttable' = [rttable EXCEPT ![h][k] = n]
    /\ RtRipTold
    /\ UNCHANGED <<rtEnt, rtFree, rtDefault>>

RtAddBetter(n, s, h, k) ==
    /\ rttable' = [rttable EXCEPT ![h][k] = n]
    /\ rtEnt' = RTFREE(rtEnt, {s})
    /\ RtFreed(rtEnt, {s})
    /\ RtRipTold
    /\ UNCHANGED rtDefault

RtAddNew(n, h, k) ==
    /\ rttable' = [rttable EXCEPT ![h] = InsertAt(@, k, n)]
    /\ RtRipTold
    /\ UNCHANGED <<rtEnt, rtFree, rtDefault>>

rtadd(p) ==
    /\ RtDoing(p, "add") /\ rtFresh[p] # RtNone /\ RtMutexFree
    /\ RtDone(p)
    /\ rtFresh' = [rtFresh EXCEPT ![p] = RtNone]
    /\ LET n == rtFresh[p]
           h == rthash(rtEnt[n].net)
           k == RtScan(rttable[h], n)
           dup == k <= Len(rttable[h]) /\ RtSame(rtEnt[rttable[h][k]], rtEnt[n])
           s == rttable[h][k] IN
        IF rtEnt[n].net = 0 THEN RtAddDefault(n)
        ELSE IF ~dup THEN RtAddNew(n, h, k)
        ELSE IF rtEnt[s].gw = rtEnt[n].gw THEN RtAddSameGw(n, s)
        ELSE IF rtEnt[s].metric <= rtEnt[n].metric THEN RtAddWorse(n, s)
        ELSE RtAddBetter(n, s, h, k)
    /\ UNCHANGED <<riMutex, rtMask, rtHeld, dorip, riplock, ripRq>>

(* One second of a route's life.  A route that runs out under RIP output   *)
(* turns unreachable and, examined again in the same pass, loses another   *)
(* second; without RIP, or unreachable already, it goes.                   *)
RtOld(e) == e.ttl # RtInf /\ e.ttl <= 1
RtZombie(e) == RtOld(e) /\ dorip /\ e.metric < RtmInf
RtAged(e) ==
    IF RtZombie(e) THEN [e EXCEPT !.metric = RtmInf, !.ttl = RipZTime - 1]
    ELSE IF e.ttl = RtInf THEN e ELSE [e EXCEPT !.ttl = @ - 1]

RtGone(i) == RtOld(rtEnt[i]) /\ (~RtZombie(rtEnt[i]) \/ RipZTime <= 1)

RtLinked == UNION {Range(rttable[h]) : h \in DOMAIN rttable}

(* The entries of a chain that stay, in their order.                       *)
RtKeep(chain, gone) ==
    LET kept == {k \in DOMAIN chain : chain[k] \notin gone}
        nth(j) == CHOOSE k \in kept : Cardinality({i \in kept : i <= k}) = j
    IN  [j \in 1..Cardinality(kept) |-> chain[nth(j)]]

rttimer ==
    /\ rtWork["slow"] = <<>> /\ RtMutexFree
    /\ LET gone == {i \in RtLinked : RtGone(i)}
           d == {rtDefault} \ {RtNone}
           dgone == {i \in d : RtOld(rtEnt[i]) /\ ~RtZombie(rtEnt[i])}
           zombies == {i \in RtLinked : RtZombie(rtEnt[i])}
           aged == [i \in RtIds |->
               IF i \in RtLinked THEN RtAged(rtEnt[i])
               ELSE IF i \in d
               THEN IF RtZombie(rtEnt[i])
                    THEN [rtEnt[i] EXCEPT !.metric = RtmInf, !.ttl = RipZTime]
                    ELSE RtAged(rtEnt[i])
               ELSE rtEnt[i]] IN
        /\ rttable' = [h \in DOMAIN rttable |->
               RtKeep(rttable[h], gone)]
        /\ rtEnt' = RTFREE(aged, gone \cup dgone)
        /\ RtFreed(rtEnt, gone \cup dgone)
        /\ rtDefault' = IF dgone # {} THEN RtNone ELSE rtDefault
        /\ IF dorip /\ zombies # {}
           THEN /\ rtWork' = [rtWork EXCEPT !["slow"] = <<OpDo("notify")>>]
                /\ ripDue' = TRUE
           ELSE UNCHANGED <<rtWork, ripDue>>
    /\ UNCHANGED <<riMutex, rtMask, rtHeld, rtFresh, dorip, riplock, ripMsg,
                   ripRq>>

(* rttimer tells ripout after it has released ri_mutex.                    *)
rttimerNotify(p) ==
    /\ RtDoing(p, "notify")
    /\ RtDone(p)
    /\ RipNotify
    /\ UNCHANGED <<rttable, rtDefault, rtEnt, rtFree, riMutex, rtMask, rtHeld,
                   rtFresh, dorip, riplock, ripRq, ripDue>>

-----------------------------------------------------------------------------
(* Callers.                                                                *)

RtIdle(p) == rtWork[p] = <<>> /\ rtHeld[p] = RtNone
RtStart(p, ops) ==
    /\ RtIdle(p)
    /\ rtWork' = [rtWork EXCEPT ![p] = ops]
    /\ UNCHANGED <<rttable, rtDefault, rtEnt, rtFree, riMutex, rtMask, rtHeld,
                   rtFresh, dorip, riplock, ripMsg, ripRq, ripDue>>

(* ipsend, ipproc, udp: look up, use, return.                              *)
RtRoutePacket(p) ==
    \E dst \in RtDests, local \in BOOLEAN :
        RtStart(p, <<OpGet(dst, local), OpFree>>)

(* An ICMP redirect of dst to gw by the gateway src.                       *)
icredirect(dst, host, src, gw) ==
    RtStart("ip", <<OpGet(dst, TRUE),
                    RtOp("redirect", <<dst, IF host THEN RtMaskAll
                                            ELSE netmask(dst), src, gw>>)>>)

icredirectChange(p) ==
    /\ RtDoing(p, "redirect")
    /\ LET a == Head(rtWork[p]).arg
           e == rtEnt[rtHeld[p]] IN
        RtThen(p, (IF a[3] = e.gw
                   THEN <<OpDel(a[1], a[2]),
                          OpAdd(RtRec(a[1], a[2], a[4], e.metric, e.ifn,
                                      IcRdTtl))>>
                   ELSE <<>>) \o <<OpFree>>)
    /\ UNCHANGED <<rttable, rtDefault, rtEnt, rtFree, riMutex, rtMask, rtHeld,
                   rtFresh, dorip, riplock, ripMsg, ripRq, ripDue>>

(* An ICMP mask reply: the interface's old routes go, then the mask is set *)
(* and the new ones come.                                                  *)
icmpMaskReply == \E m \in RtMasks : m # rtMask /\ RtStart("ip", setmask(m))

setmaskSet(p) ==
    /\ RtDoing(p, "mask")
    /\ rtMask' = Head(rtWork[p]).arg
    /\ rtWork' = [rtWork EXCEPT ![p] = setmaskAdds']
    /\ UNCHANGED <<rttable, rtDefault, rtEnt, rtFree, riMutex, rtHeld, rtFresh,
                   dorip, riplock, ripMsg, ripRq, ripDue>>

(* RIP input.  A response of gw advertises one route.                      *)
ripok(net, metric) ==
    metric <= RtmInf /\ (RtPart(net, RtClass) = 0 => net = 0)

riprecv(gw, net, metric) ==
    RtStart("ripin", <<OpGet(gw, FALSE), RtOp("recv", <<gw, net, metric>>)>>)

riprecvAdd(p) ==
    /\ RtDoing(p, "recv")
    /\ LET a == Head(rtWork[p]).arg IN
        RtThen(p, <<OpFree, OpDo("lock")>>
            \o (IF ripok(a[2], a[3])
                THEN <<OpAdd(RtRec(a[2], netmask(a[2]), a[1], a[3],
                                   rtEnt[rtHeld[p]].ifn, RipRtTtl))>>
                ELSE <<>>)
            \o <<OpDo("unlock")>>)
    /\ UNCHANGED <<rttable, rtDefault, rtEnt, rtFree, riMutex, rtMask, rtHeld,
                   rtFresh, dorip, riplock, ripMsg, ripRq, ripDue>>

(* A request for single routes looks each up; one for the whole table is   *)
(* answered by ripsend to the asking host's interface.                     *)
riprepl(dst, whole) ==
    RtStart("ripin", IF whole THEN <<OpGet(dst, TRUE), OpDo("ifset")>>
                     ELSE <<OpGet(dst, TRUE), OpFree>>)

ripifset(p) ==
    /\ RtDoing(p, "ifset")
    /\ LET f == rtEnt[rtHeld[p]].ifn IN
        RtThen(p, <<OpFree>> \o
            IF f = RtLocal THEN <<>> ELSE <<RtOp("scan", {f}), OpDo("sent")>>)
    /\ UNCHANGED <<rttable, rtDefault, rtEnt, rtFree, riMutex, rtMask, rtHeld,
                   rtFresh, dorip, riplock, ripMsg, ripRq, ripDue>>

(* Routes an update on interface f carries, and rq_cur at the end: ripadd  *)
(* opens a packet whenever the last one is full, and ripstart counts it    *)
(* even when there is none to have.                                        *)
ripmetric(e, f) ==
    IF e.ifn = RtLocal /\ e.mask = RtMaskAll THEN {}
    ELSE IF e.ifn = f THEN {RtmInf} ELSE {e.metric + 1}
ripadds(f) == {i \in RtLinked \cup ({rtDefault} \ {RtNone}) :
                  ripmetric(rtEnt[i], f) # {}}
ripstart(f) == (Cardinality(ripadds(f)) + MaxRipRoutes - 1) \div MaxRipRoutes

(* ripsend takes ri_mutex and keeps it while it waits for packet buffers.  *)
ripsend(p) ==
    /\ RtDoing(p, "scan") /\ RtMutexFree
    /\ RtDone(p)
    /\ riMutex' = p
    /\ ripRq' = [f \in DOMAIN ripRq |->
                    IF f \in Head(rtWork[p]).arg THEN ripstart(f) ELSE 0]
    /\ ripDue' = (ripDue /\ p # "ripout")
    /\ UNCHANGED <<rttable, rtDefault, rtEnt, rtFree, rtMask, rtHeld, rtFresh,
                   dorip, riplock, ripMsg>>

(* ... then releases it and sends the packets.                             *)
ripsendOut(p) ==
    /\ RtDoing(p, "sent")
    /\ RtDone(p)
    /\ riMutex' = RtNobody
    /\ ripRq' = [f \in DOMAIN ripRq |-> 0]
    /\ UNCHANGED <<rttable, rtDefault, rtEnt, rtFree, rtMask, rtHeld, rtFresh,
                   dorip, riplock, ripMsg, ripDue>>

riplockWait(p) ==
    /\ RtDoing(p, "lock") /\ riplock = RtNobody
    /\ RtDone(p)
    /\ riplock' = p
    /\ UNCHANGED <<rttable, rtDefault, rtEnt, rtFree, riMutex, rtMask, rtHeld,
                   rtFresh, dorip, ripMsg, ripRq, ripDue>>

(* A fault: ripout clears its message after the update, not before it.     *)
riplockSignalClears(p) ==
    /\ RtDoing(p, "unlock")
    /\ RtDone(p)
    /\ riplock' = RtNobody
    /\ ripMsg' = (ripMsg /\ p # "ripout")
    /\ UNCHANGED <<rttable, rtDefault, rtEnt, rtFree, riMutex, rtMask, rtHeld,
                   rtFresh, dorip, ripRq, ripDue>>

riplockSignal(p) ==
    /\ RtDoing(p, "unlock")
    /\ RtDone(p)
    /\ riplock' = RtNobody
    /\ UNCHANGED <<rttable, rtDefault, rtEnt, rtFree, riMutex, rtMask, rtHeld,
                   rtFresh, dorip, ripMsg, ripRq, ripDue>>

(* ripout wakes for its message or for the interval (recvtim) and          *)
(* broadcasts the table on every interface but the loopback.               *)
ripout ==
    /\ dorip /\ RtIdle("ripout")
    /\ ripMsg' = FALSE
    /\ rtWork' = [rtWork EXCEPT !["ripout"] =
           <<OpDo("lock"), RtOp("scan", {RtPrimary}), OpDo("sent"),
             OpDo("unlock")>>]
    /\ UNCHANGED <<rttable, rtDefault, rtEnt, rtFree, riMutex, rtMask, rtHeld,
                   rtFresh, dorip, riplock, ripRq, ripDue>>

rip ==
    \/ \E gw \in RtGws, net \in RipNets, m \in RipMetrics : riprecv(gw, net, m)
    \/ \E dst \in RtGws, whole \in BOOLEAN : riprepl(dst, whole)

RtTableOp(p) ==
    \/ rtget(p) \/ rtfree(p) \/ rtdel(p) \/ rtnew(p) \/ rtadd(p)
    \/ rttimerNotify(p) \/ icredirectChange(p) \/ setmaskSet(p)
    \/ riprecvAdd(p) \/ ripifset(p) \/ ripsend(p) \/ ripsendOut(p)
    \/ riplockWait(p) \/ riplockSignal(p)

RtInput ==
    \/ RtRoutePacket("ip")
    \/ \E dst \in RtDests, host \in BOOLEAN, src, gw \in RtGws :
           src # gw /\ icredirect(dst, host, src, gw)
    \/ icmpMaskReply
    \/ rip

RtNext ==
    \/ rtInputs > 0 /\ RtInput /\ rtInputs' = rtInputs - 1
    \/ /\ \/ \E p \in RtProcs : RtTableOp(p)
          \/ ripout
          \/ rttimer
       /\ UNCHANGED rtInputs

-----------------------------------------------------------------------------
RtRefsOf(i) ==
    (IF i \in RtLinked \/ i = rtDefault THEN 1 ELSE 0)
    + Cardinality({p \in RtProcs : rtHeld[p] = i})
    + Cardinality({p \in RtProcs : rtFresh[p] = i})

(* rt_refcnt counts exactly who can still reach a route: its chain or the  *)
(* default, the callers of rtget that have not called rtfree, a rtadd      *)
(* between rtnew and the link; a buffer nobody reaches is back in the      *)
(* pool.  So no redirect, expiry, deletion or better route frees a route   *)
(* under a process that is using it, and none is lost.  Chains stay sorted *)
(* by rt_key without duplicates.                                           *)
RtRefs ==
    /\ \A i \in RtIds :
        IF i \in rtFree THEN RtRefsOf(i) = 0 ELSE rtEnt[i].ref = RtRefsOf(i)
    /\ \A i \in RtIds \ rtFree : rtEnt[i].ref > 0
    /\ \A h \in DOMAIN rttable : \A j, k \in DOMAIN rttable[h] : j < k =>
        LET a == rtEnt[rttable[h][j]]  b == rtEnt[rttable[h][k]] IN
        a.mask >= b.mask /\ ~RtSame(a, b)

(* A change ripout must announce (a new, better or changed route, a route  *)
(* run out) is either still ahead of its next scan of the table or has     *)
(* left it a message: a message sent while ripout sleeps, or dropped       *)
(* because one is pending, loses no announcement.  An update never runs    *)
(* past the packets of its queue (rq_pep).                                 *)
RipAnnounced ==
    /\ ripDue =>
        \/ ripMsg
        \/ rtWork["slow"] # <<>>
        \/ \E k \in DOMAIN rtWork["ripout"] : rtWork["ripout"][k].op = "scan"
    /\ \A f \in DOMAIN ripRq : ripRq[f] <= MaxNRip

(* What RouteMap sees of the table, its processes and their references.    *)
RtAbs(i) == [net |-> rtEnt[i].net, mask |-> rtEnt[i].mask, gw |-> rtEnt[i].gw,
             metric |-> rtEnt[i].metric, ifn |-> rtEnt[i].ifn,
             ttl |-> rtEnt[i].ttl]
Map == INSTANCE RouteMap WITH
    Processes <- RtProcs, AddrBits <- RtW, Inf <- RtmInf,
    map <- {RtAbs(i) : i \in RtLinked},
    dflt <- IF rtDefault = RtNone THEN {} ELSE {RtAbs(rtDefault)},
    brc <- isbrc,
    asked <- [p \in RtProcs |-> IF RtDoing(p, "get") THEN Head(rtWork[p]).arg ELSE <<>>],
    got <- [p \in RtProcs |-> IF rtHeld[p] = RtNone THEN <<>>
                              ELSE <<rtEnt[rtHeld[p]].net, rtEnt[rtHeld[p]].mask>>]

(* The hash chains, buffers and reference counts implement the plain map   *)
(* of routes of RouteMap: rtget gives the longest match, a route yields    *)
(* only to its own gateway or a better metric, and nothing gains life by   *)
(* ageing.                                                                 *)
RtImplements == Map!Spec

RtSpec == RtInit /\ [][RtNext]_rtVars
=============================================================================

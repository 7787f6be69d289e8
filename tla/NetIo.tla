---------------------------------- MODULE NetIo ----------------------------------
(* The network process netproc, the IP process ipproc, slowtimer and the process   *)
(* that runs netstart, on the one CTC interface NI_PRIMARY, with the ARP cache      *)
(* they share.  The processes have one priority and are never preempted: a step     *)
(* runs from one place where another process can get the processor (a message       *)
(* sent, a device write, a blocking call) to the next; cpu names a process that     *)
(* goes on without such a place.  A packet is its next hop; what ipproc finds in it *)
(* is chosen when it is taken from the input queue, whose length is kept.  inuse    *)
(* counts the buffers that getbuf gave out of Net.netpool and freebuf did not take  *)
(* back.  ctci_write copies a packet and nobody frees it then: it stays in use for  *)
(* good (spent), and so does one that is forgotten (lost).  The protocols' own      *)
(* getbufs are left out, they only empty the pool sooner.  As the checked-in        *)
(* Configuration has it the host is no gateway, and no ARP entry is permanent: no   *)
(* code sets ae_ttl to ARP_INF.                                                     *)
EXTENDS Naturals, Sequences, FiniteSetsExt, TLC

CONSTANTS NextHops,     \* addresses that routes lead to
          ArpSenders,   \* sender protocol addresses of arriving ARP packets
          TSize,        \* ARP_TSIZE
          QSize,        \* ARP_QSIZE
          InqMax,       \* NI_INQSZ
          MaxRetry,     \* ARP_MAXRETRY
          Resend,       \* ARP_RESEND
          Timeout,      \* ARP_TIMEOUT
          NetBufs,      \* NETBUFS
          MaxGran,      \* the longest delay slowtimer believes, 4*STGRAN
          MaxFrags,     \* bound: full fragments of a datagram before the last
          MaxArps       \* bound: ARP packets that arrive

ASSUME NetIoSizes ==
    /\ {TSize, QSize, InqMax, Resend, Timeout, NetBufs, MaxGran, MaxFrags} \subseteq Nat \ {0}
    /\ {MaxRetry, MaxArps} \subseteq Nat /\ Resend <= Timeout
    /\ NextHops /= {}

VARIABLES pc,      \* process -> where it is
          cpu,     \* the process that has not given up the processor, or "any"
          halted,  \* panic, or shutxinu after a failed read
          sema,    \* Net.sema
          inq,     \* packets in nif[NI_PRIMARY].ni_ipinq
          kind,    \* what is in the datagram ipproc has taken
          msg,     \* ipproc has a message
          config,  \* Config.nif[].type of the two interfaces
          nif,     \* their netif: ni_state, ni_ivalid, ni_svalid
          arp,     \* arptable
          aenext,  \* arpalloc's rotor
          at,      \* process -> the entry and next hop netwrite or the ARP code is at
          nfrag,   \* full fragments ipputp has still to send
          age,     \* arptimer's next entry
          gran,    \* its argument
          arps,    \* ARP packets so far
          held,    \* buffers a protocol or an application holds
          inuse,   \* buffers out of the pool
          waits,   \* processes in getbuf, in the order of the pool's semaphore
          spent,   \* buffers written to the device and not freed
          lost     \* buffers nothing refers to

pool  == <<inuse, waits, spent, lost>>
procs == <<sema, config, nif, arps>>
vars  == <<pc, cpu, halted, inq, kind, msg, arp, aenext, at, nfrag, age, gran, held, procs, pool>>

Procs   == {"main", "net", "ip", "slow"}
Ifs     == {"LOCAL", "PRIMARY"}
Down    == [state |-> "DOWN", ivalid |-> FALSE, svalid |-> FALSE]
Configs == {[LOCAL |-> l, PRIMARY |-> p] : l \in {"LOOP", "OTHER"}, p \in {"LOOP", "CTCI"}}
Entries == 1..TSize
Addrs   == NextHops \union ArpSenders
Free    == [state |-> "FREE", pra |-> CHOOSE a \in Addrs : TRUE, q |-> <<>>, ttl |-> 0, att |-> 0]
Nowhere == [pae |-> 1, e |-> 1, dst |-> CHOOSE a \in Addrs : TRUE, nh |-> CHOOSE a \in Addrs : TRUE, ok |-> "get", req |-> FALSE]

CanRun(p, l) == ~halted /\ cpu \in {"any", p} /\ pc[p] = l
Goto(p, l)   == pc' = [pc EXCEPT ![p] = l]

(* Start-up.  netstart runs once; nothing has arrived.                              *)
Init ==
    /\ pc = [p \in Procs |-> IF p = "main" THEN "start" ELSE "none"]
    /\ cpu = "any" /\ halted = FALSE /\ sema = 1 /\ inq = 0 /\ kind = "none" /\ msg = FALSE
    /\ config \in Configs /\ nif = [i \in Ifs |-> Down]
    /\ arp = [e \in Entries |-> Free] /\ aenext = 1
    /\ at = [p \in {"net", "ip"} |-> Nowhere] /\ nfrag = 0 /\ age = 1 /\ gran = 1
    /\ arps = 0 /\ held = 0 /\ inuse = 0 /\ waits = <<>> /\ spent = 0 /\ lost = 0

(* netup_nif: loopinit or efaceinit for each interface, by its type in Config; the  *)
(* loop routine panics on an interface other than NI_LOCAL.                         *)
Loopinit  == [state |-> "UP", ivalid |-> TRUE, svalid |-> FALSE]
Efaceinit == [state |-> "UP", ivalid |-> TRUE, svalid |-> TRUE]

NetupNif ==
    /\ CanRun("main", "start")
    /\ nif' = [i \in Ifs |-> CASE config[i] = "LOOP" -> Loopinit
                               [] config[i] = "CTCI" -> Efaceinit
                               [] OTHER -> Down]
    /\ halted' = (config["PRIMARY"] = "LOOP")
    /\ Goto("main", "rt")
    /\ UNCHANGED <<kind, cpu, sema, inq, msg, config, arp, aenext, at, nfrag, age, gran, arps, held, pool>>

(* netup_rt panics when NI_LOCAL is no loop interface.                              *)
NetupRt ==
    /\ CanRun("main", "rt")
    /\ halted' = (config["LOCAL"] /= "LOOP")
    /\ Goto("main", "ip")
    /\ UNCHANGED <<kind, cpu, inq, msg, arp, aenext, at, nfrag, age, gran, held, procs, pool>>

(* resume(create(...)): the new process is ready, and netstart waits for Net.sema.  *)
Create(p, next) ==
    /\ CanRun("main", p)
    /\ pc' = [pc EXCEPT ![p] = "born", !["main"] = next]
    /\ UNCHANGED <<kind, cpu, halted, inq, msg, arp, aenext, at, nfrag, age, gran, held, procs, pool>>

WaitSema(l, next) ==
    /\ CanRun("main", l) /\ sema > 0
    /\ sema' = sema - 1 /\ Goto("main", next)
    /\ UNCHANGED <<kind, cpu, halted, inq, msg, config, nif, arp, aenext, at, nfrag, age, gran, arps, held, pool>>

(* netup_gath sleeps for no time, finds address and mask valid (efaceinit has set   *)
(* them); then netproc is started.                                                  *)
StartNet ==
    /\ CanRun("main", "gath")
    /\ nif["PRIMARY"].ivalid /\ nif["PRIMARY"].svalid
    /\ pc' = [pc EXCEPT !["net"] = "getbuf", !["main"] = "done"]
    /\ UNCHANGED <<kind, cpu, halted, inq, msg, arp, aenext, at, nfrag, age, gran, held, procs, pool>>

Netstart ==
    \/ NetupNif \/ NetupRt \/ Create("ip", "waitip") \/ WaitSema("waitip", "slow")
    \/ Create("slow", "waitslow") \/ WaitSema("waitslow", "gath") \/ StartNet

(* ipproc and slowtimer begin with signal(Net.sema).                                *)
Begin(p, l) ==
    /\ CanRun(p, "born")
    /\ sema' = sema + 1 /\ Goto(p, l)
    /\ UNCHANGED <<kind, cpu, halted, inq, msg, config, nif, arp, aenext, at, nfrag, age, gran, arps, held, pool>>

--------------------------------------------------------------------------------
(* Net.netpool.  getbuf waits on the pool's semaphore: a buffer that is freed is    *)
(* promised to the first that waits, and one that comes later does not overtake it. *)
(* freebuf lets other processes run when it finds one waiting.                      *)
Waits(p) == \E i \in 1..Len(waits) : waits[i] = p

Getbuf(p) ==
    /\ inuse < NetBufs /\ inuse' = inuse + 1
    /\ \/ waits /= <<>> /\ Head(waits) = p /\ waits' = Tail(waits)
       \/ ~Waits(p) /\ inuse + Len(waits) < NetBufs /\ UNCHANGED waits

Freebuf(p) ==
    /\ inuse' = inuse - 1
    /\ cpu' = IF inuse + Len(waits) > NetBufs THEN "any" ELSE p

(* A process at one of the getbufs finds nothing left.                              *)
AtGetbuf(p) == pc[p] \in {"getbuf", "ask"} \/ (pc[p] = "frag" /\ nfrag > 0)

Blocks(p) ==
    /\ CanRun(p, pc[p]) /\ AtGetbuf(p)
    /\ ~Waits(p) /\ inuse + Len(waits) >= NetBufs
    /\ waits' = Append(waits, p) /\ cpu' = "any"
    /\ UNCHANGED <<pc, halted, inq, kind, msg, arp, aenext, at, nfrag, age, gran, held, procs>>
    /\ UNCHANGED <<inuse, spent, lost>>

--------------------------------------------------------------------------------
(* The ARP cache.                                                                   *)
Found(a) == {e \in Entries : arp[e].state /= "FREE" /\ arp[e].pra = a}
arpfind(a) == Min(Found(a))

(* The slot arpalloc takes: the first free one from aenext on, else aenext itself.  *)
From(i)  == ((aenext + i - 2) % TSize) + 1
arpalloc ==
    LET free == {i \in Entries : arp[From(i)].state = "FREE"}
    IN  IF free = {} THEN aenext ELSE From(Min(free))
Next1(e) == (e % TSize) + 1

Pending(a) == [state |-> "PENDING", pra |-> a, q |-> <<>>, ttl |-> Resend, att |-> 0]
arpadd(a) == [state |-> "RESOLVED", pra |-> a, q |-> <<>>, ttl |-> Timeout, att |-> 0]

(* The fields of a free entry, its queue excepted, are not looked at again, nor the *)
(* attempts of a resolved one: they are kept at one value.                          *)
Released(e) == [Free EXCEPT !.q = arp[e].q]

(* netwrite(nh) by process p, which goes on at ok when netwrite returns OK and at   *)
(* bad when it does not (a write returns the length written).                       *)
NwBroadcast(p, ok) ==
    /\ spent' = spent + 1 /\ Goto(p, ok) /\ cpu' = "any"
    /\ UNCHANGED <<arp, aenext, at, inuse, waits, lost>>

NwResolved(p, nh, bad) ==
    /\ Found(nh) /= {} /\ arp[arpfind(nh)].state = "RESOLVED"
    /\ spent' = spent + 1 /\ Goto(p, bad) /\ cpu' = "any"
    /\ UNCHANGED <<arp, aenext, at, inuse, waits, lost>>

(* A class D next hop that is not resolved is given back, and no caller frees it.   *)
NwClassD(p, bad) ==
    /\ lost' = lost + 1 /\ Goto(p, bad) /\ cpu' = p
    /\ UNCHANGED <<arp, aenext, at, inuse, waits, spent>>

(* Mutant: a packet that does not fit the queue is not freed.                       *)
EnqFullKept(p, e, nh) ==
    IF Len(arp[e].q) < QSize
    THEN arp' = [arp EXCEPT ![e].q = Append(@, nh)] /\ cpu' = p /\ UNCHANGED inuse
    ELSE cpu' = p /\ UNCHANGED <<arp, inuse>>

(* enq and, when the queue is full, freebuf.                                        *)
Enq(p, e, nh) ==
    IF Len(arp[e].q) < QSize
    THEN arp' = [arp EXCEPT ![e].q = Append(@, nh)] /\ cpu' = p /\ UNCHANGED inuse
    ELSE Freebuf(p) /\ UNCHANGED arp

NwPending(p, nh, ok) ==
    /\ Found(nh) /= {} /\ arp[arpfind(nh)].state = "PENDING"
    /\ Enq(p, arpfind(nh), nh)
    /\ Goto(p, ok)
    /\ UNCHANGED <<aenext, at, waits, spent, lost>>

(* arpalloc of an entry for address a, by netwrite or arp_in.  The packets of a     *)
(* pending entry are freed first (arpdq), one by one.                               *)
Alloc(p, a, ok, req) ==
    /\ aenext' = Next1(arpalloc)
    /\ at' = [at EXCEPT ![p].e = arpalloc, ![p].nh = a, ![p].ok = ok, ![p].req = req]
    /\ Goto(p, IF arp[arpalloc].state = "PENDING" THEN "dq" ELSE "alloc") /\ cpu' = p

NwAsk(p, nh, ok) ==
    /\ Found(nh) = {}
    /\ Alloc(p, nh, ok, at[p].req)
    /\ UNCHANGED <<arp, pool>>

Netwrite(p, nh, ok, bad) ==
    \/ NwResolved(p, nh, bad) \/ NwPending(p, nh, ok) \/ NwAsk(p, nh, ok)

(* arpdq looks at the entry's queue afresh after each packet it frees, whatever has *)
(* become of the entry.                                                             *)
DqEntry(p) == IF p = "slow" THEN age ELSE at[p].e

Arpdq(p) ==
    /\ CanRun(p, "dq") /\ arp[DqEntry(p)].q /= <<>>
    /\ arp' = [arp EXCEPT ![DqEntry(p)].q = Tail(@)]
    /\ Freebuf(p)
    /\ UNCHANGED <<pc, halted, inq, kind, msg, aenext, at, nfrag, age, gran, held, procs, waits, spent, lost>>

(* The entry is filled in.  Its ae_queue is set to EMPTY: what was on the queue of  *)
(* a free or resolved entry is forgotten.                                           *)
Filled(p) ==
    /\ CanRun(p, "alloc") \/ (CanRun(p, "dq") /\ arp[at[p].e].q = <<>>)
    /\ arp' = [arp EXCEPT ![at[p].e] = IF at[p].ok = "arpend" THEN arpadd(at[p].nh) ELSE Pending(at[p].nh)]
    /\ lost' = lost + Len(arp[at[p].e].q)
    /\ Goto(p, IF at[p].ok = "arpend" THEN "arpend" ELSE "ask") /\ cpu' = p
    /\ UNCHANGED <<halted, inq, kind, msg, aenext, at, nfrag, age, gran, held, procs, inuse, waits, spent>>

(* arpsend gets a buffer, for which it may have to wait, and writes it, and other   *)
(* processes may run meanwhile.                                                     *)
Arpsend(p, next) ==
    /\ CanRun(p, "ask") /\ Getbuf(p)
    /\ spent' = spent + 1 /\ cpu' = "any" /\ Goto(p, next)
    /\ UNCHANGED <<halted, inq, kind, msg, arp, aenext, at, nfrag, age, gran, held, procs, lost>>

(* The end of netwrite, on the entry whatever has become of it.                     *)
NwQueue(p) ==
    /\ CanRun(p, "queue")
    /\ Enq(p, at[p].e, at[p].nh)
    /\ Goto(p, at[p].ok)
    /\ UNCHANGED <<kind, halted, inq, msg, aenext, at, nfrag, age, gran, held, procs, waits, spent, lost>>

NetwriteRest(p) == Arpdq(p) \/ Filled(p) \/ Arpsend(p, "queue") \/ NwQueue(p)

--------------------------------------------------------------------------------
(* netproc.  getbuf, read and ni_in of one frame.                                   *)
NetIdle == UNCHANGED <<kind, halted, aenext, at, nfrag, age, gran, held, sema, config, nif>>

NetGetbuf ==
    /\ CanRun("net", "getbuf") /\ Getbuf("net")
    /\ Goto("net", "read") /\ cpu' = "any"
    /\ UNCHANGED <<inq, msg, arp, arps, spent, lost>> /\ NetIdle

ReadFails ==
    /\ CanRun("net", "read")
    /\ halted' = TRUE /\ Goto("net", "dead")
    /\ UNCHANGED <<kind, cpu, inq, msg, arp, aenext, at, nfrag, age, gran, held, procs, pool>>

(* Mutant: a packet is queued without a message to ipproc.                          *)
IpInUntold ==
    /\ CanRun("net", "read") /\ inq < InqMax
    /\ inq' = inq + 1 /\ Goto("net", "getbuf")
    /\ msg' = (msg /\ pc["ip"] /= "born") /\ cpu' = "any"
    /\ UNCHANGED <<arp, arps, pool>> /\ NetIdle

(* ip_in: the packet is queued and ipproc told, or it is discarded.                 *)
IpIn ==
    /\ CanRun("net", "read") /\ inq < InqMax
    /\ inq' = inq + 1 /\ Goto("net", "getbuf")
    /\ msg' = (pc["ip"] /= "born") /\ cpu' = "any"
    /\ UNCHANGED <<arp, arps, pool>> /\ NetIdle

IpInDiscard ==
    /\ CanRun("net", "read") /\ inq = InqMax
    /\ Freebuf("net") /\ Goto("net", "getbuf")
    /\ UNCHANGED <<inq, msg, arp, arps, waits, spent, lost>> /\ NetIdle

(* rarp_in: a reply for us sets address and mask and is freed; nobody waits for one *)
(* (rarppid), since efaceinit has the address from Config.  A frame of an unknown   *)
(* type is freed as well.                                                           *)
RarpIn ==
    /\ CanRun("net", "read") /\ Freebuf("net") /\ Goto("net", "getbuf")
    /\ nif' = [nif EXCEPT !["PRIMARY"].ivalid = TRUE, !["PRIMARY"].svalid = TRUE]
    /\ UNCHANGED <<halted, inq, kind, msg, arp, aenext, at, nfrag, age, gran, held, waits, spent, lost, sema, config, arps>>

(* arp_in of a packet from spa that is not for us, or of another kind than ours     *)
(* (which is freed unseen).                                                         *)
ArpNotOurs(spa) ==
    /\ CanRun("net", "read") /\ arps < MaxArps
    /\ arps' = arps + 1 /\ Freebuf("net") /\ Goto("net", "getbuf")
    /\ arp' = IF Found(spa) = {} THEN arp ELSE [arp EXCEPT ![arpfind(spa)].ttl = Timeout]
    /\ UNCHANGED <<inq, msg, waits, spent, lost>> /\ NetIdle

(* arp_in of a packet to us.  It holds its buffer until it replies or frees it.     *)
ArpNew(spa, req) ==
    /\ CanRun("net", "read") /\ arps < MaxArps /\ Found(spa) = {}
    /\ arps' = arps + 1 /\ Alloc("net", spa, "arpend", req)
    /\ UNCHANGED <<kind, halted, inq, msg, arp, nfrag, age, gran, held, sema, config, nif, pool>>

ArpKnown(spa, req) ==
    LET e == arpfind(spa)
        pending == arp[e].state = "PENDING"
    IN  /\ CanRun("net", "read") /\ arps < MaxArps /\ Found(spa) /= {}
        /\ arp' = [arp EXCEPT ![e].ttl = Timeout, ![e].state = "RESOLVED", ![e].att = 0]
        /\ at' = [at EXCEPT !["net"].pae = e, !["net"].req = req]
        /\ arps' = arps + 1 /\ cpu' = "net"
        /\ Goto("net", IF pending THEN "arpq" ELSE "arpend")
        /\ UNCHANGED <<kind, halted, inq, msg, aenext, nfrag, age, gran, held, sema, config, nif, pool>>

(* arpqsend: each packet of the entry's queue goes through netwrite, and the entry  *)
(* is looked at afresh after each.                                                  *)
ArpqEmpty ==
    /\ CanRun("net", "arpq") /\ arp[at["net"].pae].q = <<>>
    /\ Goto("net", "arpend") /\ cpu' = "net"
    /\ UNCHANGED <<inq, msg, arp, arps, pool>> /\ NetIdle

ArpqDeq ==
    LET e == at["net"].pae
    IN  /\ CanRun("net", "arpq") /\ arp[e].q /= <<>>
        /\ arp' = [arp EXCEPT ![e].q = Tail(@)]
        /\ at' = [at EXCEPT !["net"].nh = Head(arp[e].q)]
        /\ Goto("net", "write") /\ cpu' = "net"
        /\ UNCHANGED <<kind, halted, inq, msg, aenext, nfrag, age, gran, held, procs, pool>>

ArpqWrite ==
    /\ CanRun("net", "write")
    /\ Netwrite("net", at["net"].nh, "arpq", "arpq")
    /\ UNCHANGED <<kind, halted, inq, msg, nfrag, age, gran, held, procs>>

(* A request is turned into the reply and written, anything else is freed.          *)
ArpEnd ==
    /\ CanRun("net", "arpend") /\ Goto("net", "getbuf")
    /\ IF at["net"].req THEN spent' = spent + 1 /\ cpu' = "any" /\ UNCHANGED inuse
                        ELSE Freebuf("net") /\ UNCHANGED spent
    /\ at' = [at EXCEPT !["net"] = Nowhere]
    /\ UNCHANGED <<kind, halted, inq, msg, arp, aenext, nfrag, age, gran, held, waits, lost, procs>>

NetSteps ==
    \/ Blocks("net") \/ NetGetbuf \/ ArpqEmpty \/ ArpqDeq \/ ArpqWrite \/ ArpEnd
    \/ NetwriteRest("net")

Netproc ==
    \/ ReadFails \/ IpIn \/ IpInDiscard \/ RarpIn
    \/ \E a \in ArpSenders :
          ArpNotOurs(a) \/ \E req \in BOOLEAN : ArpNew(a, req) \/ ArpKnown(a, req)
    \/ NetSteps

--------------------------------------------------------------------------------
(* What may become of a datagram, by what ipproc finds in it.  An ICMP error goes   *)
(* back in the datagram's own buffer when icerrok allows one, else it is freed.     *)
IcError   == {"answer", "free"}
IpFate    == [VERSION |-> {"free"}, CLASSE |-> {"free"}, CHECKSUM |-> {"free"}, NOROUTE |-> {"free"},
              TTL |-> IcError, BROADCAST |-> {"panic"}, BACK |-> {"panic"}]
IpputpFate == [FITS |-> {"forward"}, TOOBIG |-> {"fragment"}, DONTFRAGMENT |-> IcError]
LocalFate == [PART |-> {"deliver"}, IGMP |-> {"deliver"}, TCP |-> {"deliver"}, UDP |-> {"deliver"},
              UNKNOWN |-> IcError]
IcmpFate  == [ECHORQ |-> {"answer"}, MASKRQ |-> {"free"}, MASKRP |-> {"free"}, REDIRECT |-> {"free"},
              ECHORP |-> {"deliver", "free"}, DESTUR |-> {"free"}, OTHERS |-> {"free"}]
Fate      == IpFate @@ IpputpFate @@ LocalFate @@ IcmpFate

IpHas(f) == CanRun("ip", "proc") /\ f \in Fate[kind] /\ kind' = "none"

(* ipproc.  ipgetp clears an old message, looks at the input queues and, when they  *)
(* are empty, waits for a message and looks again.                                  *)
IpIdle == UNCHANGED <<arp, aenext, at, age, gran, procs>>

Take ==
    IF inq > 0
    THEN inq' = inq - 1 /\ kind' \in DOMAIN Fate /\ Goto("ip", "proc") /\ cpu' = "ip"
    ELSE Goto("ip", "recv") /\ cpu' = "any" /\ UNCHANGED <<inq, kind>>

Ipgetp ==
    /\ CanRun("ip", "get")
    /\ msg' = FALSE /\ Take
    /\ at' = [at EXCEPT !["ip"] = Nowhere]
    /\ UNCHANGED <<halted, arp, aenext, nfrag, age, gran, held, procs, pool>>

Receive ==
    /\ CanRun("ip", "recv") /\ msg
    /\ msg' = FALSE /\ Take
    /\ UNCHANGED <<halted, nfrag, held, pool>> /\ IpIdle

IpFree ==
    /\ IpHas("free")
    /\ Freebuf("ip") /\ Goto("ip", "get")
    /\ UNCHANGED <<halted, inq, msg, nfrag, held, waits, spent, lost>> /\ IpIdle

(* icmp puts the answer into the buffer and ipsend writes it to the device.         *)
Ipsend == spent' = spent + 1 /\ cpu' = "any" /\ UNCHANGED <<inuse, waits, lost>>

IpAnswer ==
    /\ IpHas("answer")
    /\ Ipsend /\ Goto("ip", "get")
    /\ UNCHANGED <<halted, inq, msg, nfrag, held>> /\ IpIdle

(* TCP, UDP, IGMP or reassembly takes the buffer, or send gives an echo reply to    *)
(* the process that asked; the holder frees it in its own time, or at once when its *)
(* queue is full.  A reply that names ippid itself leaves ipproc a message.         *)
IpDeliver ==
    /\ IpHas("deliver")
    /\ IF held < InqMax THEN held' = held + 1 /\ UNCHANGED inuse
                       ELSE inuse' = inuse - 1 /\ UNCHANGED held
    /\ Goto("ip", "get") /\ cpu' = "any" /\ msg' \in {msg, TRUE}
    /\ UNCHANGED <<halted, inq, nfrag, waits, spent, lost>> /\ IpIdle

HolderFrees ==
    /\ ~halted /\ cpu = "any" /\ held > 0
    /\ held' = held - 1 /\ inuse' = inuse - 1
    /\ UNCHANGED <<kind, pc, cpu, halted, inq, msg, nfrag, waits, spent, lost>> /\ IpIdle

(* ipdbc meets a broadcast to us, ipredirect a datagram that goes back where it     *)
(* came from: panic.                                                                *)
IpPanic ==
    /\ IpHas("panic")
    /\ halted' = TRUE
    /\ UNCHANGED <<pc, cpu, inq, msg, nfrag, held, pool>> /\ IpIdle

(* ipputp of a datagram that fits the interface.                                    *)
IpForward ==
    /\ IpHas("forward")
    /\ \/ \E nh \in NextHops : Netwrite("ip", nh, "get", "get")
       \/ NwBroadcast("ip", "get") \/ NwClassD("ip", "get")
    /\ UNCHANGED <<halted, inq, msg, nfrag, age, gran, held, procs>>

(* ... of one that does not: n full fragments in buffers of their own, as long as   *)
(* ipfsend returns OK, then the rest in the datagram's own buffer.                  *)
IpFragment ==
    /\ IpHas("fragment")
    /\ \E n \in 1..MaxFrags, nh \in NextHops :
          nfrag' = n /\ at' = [at EXCEPT !["ip"].dst = nh]
    /\ Goto("ip", "frag") /\ cpu' = "ip"
    /\ UNCHANGED <<halted, inq, msg, arp, aenext, age, gran, held, procs, pool>>

Ipfsend ==
    /\ CanRun("ip", "frag") /\ nfrag > 0
    /\ nfrag' = nfrag - 1 /\ Getbuf("ip")
    /\ Goto("ip", "fwrite") /\ cpu' = "ip"
    /\ UNCHANGED <<kind, halted, inq, msg, held, spent, lost>> /\ IpIdle

IpfsendWrite ==
    /\ CanRun("ip", "fwrite")
    /\ Netwrite("ip", at["ip"].dst, "frag", "fragbad")
    /\ UNCHANGED <<kind, halted, inq, msg, nfrag, age, gran, held, procs>>

FragLast ==
    /\ CanRun("ip", "frag") /\ nfrag = 0
    /\ Netwrite("ip", at["ip"].dst, "get", "get")
    /\ UNCHANGED <<kind, halted, inq, msg, nfrag, age, gran, held, procs>>

FragBad ==
    /\ CanRun("ip", "fragbad")
    /\ Freebuf("ip") /\ nfrag' = 0 /\ Goto("ip", "get")
    /\ UNCHANGED <<kind, halted, inq, msg, held, waits, spent, lost>> /\ IpIdle

Ipproc ==
    \/ Begin("ip", "get") \/ Ipgetp \/ Receive
    \/ IpFree \/ IpAnswer \/ IpDeliver \/ IpPanic \/ IpForward
    \/ IpFragment \/ Ipfsend \/ IpfsendWrite \/ FragLast \/ FragBad
    \/ NetwriteRest("ip") \/ Blocks("ip")

--------------------------------------------------------------------------------
(* slowtimer.  Once a second, or later when it did not get the processor, arptimer  *)
(* goes through the table; it gives up the processor only where it writes a request *)
(* or frees a packet somebody waits for.                                            *)
SlowTick ==
    /\ CanRun("slow", "sleep")
    /\ gran' \in 1..MaxGran
    /\ age' = 1 /\ Goto("slow", "aging") /\ cpu' = "slow"
    /\ UNCHANGED <<kind, halted, inq, msg, arp, aenext, at, nfrag, held, procs, pool>>

Aged(e) == IF arp[e].ttl > gran THEN arp[e].ttl - gran ELSE 0

(* An entry that expires: a resolved one becomes free and keeps its queue, a        *)
(* pending one is asked for again or, after ARP_MAXRETRY, marked free and its queue *)
(* destroyed.                                                                       *)
Arptimer ==
    LET e == age
        gone == Aged(e) = 0 /\ arp[e].state /= "FREE"
        resolved == arp[e].state = "RESOLVED"
        again == gone /\ ~resolved /\ arp[e].att < MaxRetry
        over == gone /\ ~resolved /\ ~again
    IN  /\ CanRun("slow", "aging") /\ age <= TSize
        /\ arp' = [arp EXCEPT ![e] =
             CASE @.state = "FREE" -> @
               [] @.state /= "FREE" /\ ~gone -> [@ EXCEPT !.ttl = Aged(e)]
               [] again -> [@ EXCEPT !.ttl = Resend, !.att = @ + 1]
               [] OTHER -> Released(e)]
        /\ age' = (IF over THEN age ELSE age + 1) /\ cpu' = "slow"
        /\ Goto("slow", IF over THEN "dq" ELSE IF again THEN "ask" ELSE "aging")
        /\ UNCHANGED <<kind, halted, inq, msg, aenext, at, nfrag, gran, held, procs, pool>>

GivenUp ==
    /\ CanRun("slow", "dq") /\ arp[age].q = <<>>
    /\ age' = age + 1 /\ Goto("slow", "aging") /\ cpu' = "slow"
    /\ UNCHANGED <<kind, halted, inq, msg, arp, aenext, at, nfrag, gran, held, procs, pool>>

ArptimerEnd ==
    /\ CanRun("slow", "aging") /\ age > TSize
    /\ age' = 1 /\ gran' = 1 /\ Goto("slow", "sleep") /\ cpu' = "any"
    /\ UNCHANGED <<kind, halted, inq, msg, arp, aenext, at, nfrag, held, procs, pool>>

Slowtimer ==
    \/ Begin("slow", "sleep") \/ SlowTick \/ Arptimer \/ Arpdq("slow") \/ GivenUp
    \/ Arpsend("slow", "aging") \/ Blocks("slow") \/ ArptimerEnd

Next == Netstart \/ Netproc \/ Ipproc \/ Slowtimer \/ HolderFrees

(* Strong fairness: the ready list is first in, first out among processes of one    *)
(* priority, so one that can run again and again at the places where another gives  *)
(* up the processor does run.  That a frame arrives is nobody's duty.               *)
Spec ==
    /\ Init /\ [][Next]_vars
    /\ WF_vars(Netstart) /\ SF_vars(NetSteps) /\ SF_vars(Ipproc) /\ SF_vars(Slowtimer)

--------------------------------------------------------------------------------
TypeOK ==
    /\ pc \in [Procs -> {"start", "rt", "none", "born", "ip", "slow", "waitip", "waitslow", "gath", "done",
                         "getbuf", "read", "arpq", "write", "dq", "alloc", "ask", "queue", "arpend", "dead",
                         "get", "recv", "proc", "frag", "fwrite", "fragbad", "sleep", "aging"}]
    /\ cpu \in Procs \union {"any"} /\ halted \in BOOLEAN /\ msg \in BOOLEAN
    /\ sema \in 0..3 /\ inq \in 0..InqMax /\ held \in 0..InqMax
    /\ inuse \in 0..NetBufs /\ spent \in Nat /\ lost \in Nat /\ waits \in Seq(Procs)
    /\ arp \in [Entries -> [state : {"FREE", "PENDING", "RESOLVED"}, pra : Addrs, ttl : 0..Timeout,
                            att : 0..MaxRetry, q : {s \in Seq(NextHops) : Len(s) <= QSize}]]
    /\ aenext \in Entries /\ nfrag \in 0..MaxFrags /\ age \in 1..TSize + 1 /\ gran \in 1..MaxGran
    /\ arps \in 0..MaxArps

(* Buffers that a process holds: netproc the one it reads into or the ARP packet it *)
(* answers, and the packet netwrite has from it, ipproc the datagram and, while it  *)
(* cuts it, the fragment.                                                           *)
HeldByNet == CASE pc["net"] \in {"read", "dead", "arpq", "arpend"} -> 1
               [] pc["net"] \in {"write", "ask", "queue"} -> 2
               [] pc["net"] \in {"dq", "alloc"} -> IF at["net"].ok = "arpend" THEN 1 ELSE 2
               [] OTHER -> 0
HeldByIp  == CASE pc["ip"] \in {"proc", "frag", "fragbad"} -> 1
               [] pc["ip"] = "fwrite" -> 2
               [] pc["ip"] \in {"dq", "alloc", "ask", "queue"} -> IF at["ip"].ok = "frag" THEN 2 ELSE 1
               [] OTHER -> 0

\* The places of the ARP queues that are taken.
QueuedPackets == Cardinality({n \in Entries \X (1..QSize) : n[2] <= Len(arp[n[1]].q)})

(* The ledger of Net.netpool: a buffer that getbuf gave out is in exactly one       *)
(* place, an input or ARP queue, a process or a protocol, or it is written or       *)
(* forgotten and never comes back (netwrite does not free what it has written, nor  *)
(* what it meets on the queue of a reused entry).  Nothing else leaves the pool for *)
(* good, nothing is freed twice or while it is queued, however processes that wait  *)
(* for buffers, arpdq and arpqsend interleave on one entry.                         *)
BuffersAccounted ==
    TypeOK /\ inuse = spent + lost + inq + held + HeldByNet + HeldByIp + QueuedPackets

(* A packet that waits in the input queue while ipproc waits in receive has left a  *)
(* message: recvclr in ipgetp never throws away the only sign of it.                *)
InputSeen == pc["ip"] = "recv" /\ inq > 0 => msg

(* arp_in comes back to netproc when it has sent the packets that waited for the    *)
(* address, if there are buffers to be had: arp_in.c says that it SHOULD NOT BLOCK. *)
ArpInReturns == pc["net"] = "arpq" ~> pc["net"] = "read" \/ halted \/ inuse = NetBufs

=============================================================================

------------------------------ MODULE UdpDgram ------------------------------
(***************************************************************************)
(* UDP input and the datagram pseudo-devices: ipproc runs udp_in() for     *)
(* each datagram, applications open, read, clear and close devices, and    *)
(* the two meet in the tables upqs[] and dgtab[], in the Xinu ports that   *)
(* queue the datagrams, and in the messages that wake a timed read.        *)
(*                                                                         *)
(* A process keeps the CPU until it waits, or readies somebody (signal,    *)
(* send, sreset, sdelete): steps end where the code may lose it.  udpmutex *)
(* is a sequence, its head holds it.  A device is used by the process that *)
(* opened it, as by all callers in the repository, so a port has at most   *)
(* one reader; its only sender is ipproc.  A port is created and deleted   *)
(* with its entry of upqs[], in one hold of udpmutex, and is named by it   *)
(* here; dgmopen()'s lport and upi are kept in the device from the start.  *)
(***************************************************************************)
EXTENDS Integers, Sequences, FiniteSets

CONSTANTS
    Apps,       \* application processes
    Ndg,        \* datagram devices, and slots of upqs[] (UPPS)
    UPPLEN,     \* datagrams a port takes
    MAXMSGS,    \* message nodes of all ports together
    NETBUFS,    \* network buffers
    Asks,       \* the local ports, or ANYLPORT, each application asks for
    AnyPorts,   \* how many port numbers udpnxtp() deals out, from ULPORT
    Dests       \* destination ports of arriving datagrams

ULPORT == 2050
ANYLPORT == 0
BADPID == "badpid"
IPPROC == "ipproc"
NOBODY == -1

ASSUME UdpAssumption ==
    /\ Ndg \in Nat \ {0} /\ UPPLEN \in Nat \ {0} /\ MAXMSGS \in Nat
    /\ NETBUFS \in Nat /\ AnyPorts \in Nat \ {0}
    /\ Asks \in [Apps -> SUBSET Nat]
    /\ Dests \subseteq Nat \ {ANYLPORT}
    /\ BADPID \notin Apps /\ IPPROC \notin Apps /\ IsFiniteSet(Apps)

Slots == 0..Ndg-1           \* of dgtab[], of upqs[] and of ports[]
Ring == ULPORT..ULPORT+AnyPorts-1

VARIABLES
    dgtab,      \* state, lport, upq, timed (DG_TMODE)
    upqs,       \* valid, port, pid
    ports,      \* of each entry of upqs[]: state, msgs, counts of ptrsem and ptssem
    udpmutex,
    lastport,
    ipc, dst, iup, granted, stale,  \* ipproc in udp_in() and psend()
    apc, dev, got, hasmsg,   \* applications
    netfree, leaked,                \* buffers in the pool, and never freed
    halted                          \* panic()

tables == <<dgtab, upqs, lastport>>
ipVars == <<ipc, dst, iup, granted, stale>>
appVars == <<apc, dev, got, hasmsg>>
bufVars == <<netfree, leaked>>
vars == <<tables, ports, udpmutex, ipVars, appVars, bufVars, halted>>

FreeDev == [state |-> "FREE", lport |-> 0, upq |-> NOBODY, timed |-> FALSE]
FreeUp == [valid |-> FALSE, port |-> 0, pid |-> BADPID]
FreePort == [state |-> "FREE", msgs |-> <<>>, rsem |-> 0, ssem |-> 0]

\* udpinit(), dginit(), pinit()
Init ==
    /\ dgtab = [i \in Slots |-> FreeDev]
    /\ upqs = [i \in Slots |-> FreeUp]
    /\ ports = [i \in Slots |-> FreePort]
    /\ udpmutex = <<>> /\ lastport = ULPORT
    /\ ipc = "ipgetp" /\ dst = 0 /\ iup = NOBODY /\ granted = FALSE /\ stale = FALSE
    /\ apc = [a \in Apps |-> "closed"] /\ dev = [a \in Apps |-> NOBODY]
    /\ got = [a \in Apps |-> FALSE]
    /\ hasmsg = [a \in Apps |-> FALSE]
    /\ netfree = NETBUFS /\ leaked = 0
    /\ halted = FALSE

Holds(p) == udpmutex # <<>> /\ Head(udpmutex) = p
Wait(p) == udpmutex' = Append(udpmutex, p)
Signal == udpmutex' = Tail(udpmutex)

Queued == Cardinality({n \in Slots \X (1..MAXMSGS) : n[2] <= Len(ports[n[1]].msgs)})

\* pcount(): messages not yet granted to a reader, and senders that wait
Pcount(p) ==
    IF ports[p].state # "ALLOC" THEN -1
    ELSE ports[p].rsem + (IF ports[p].ssem < 0 THEN -ports[p].ssem ELSE 0)

-----------------------------------------------------------------------------
(* ipproc: udp_in() and psend().                                           *)

\* A datagram with a bad checksum, which udp_in frees before it takes any lock,
\* is as one that does not come.
Arrive(d) ==
    /\ ipc = "ipgetp" /\ netfree > 0
    /\ netfree' = netfree - 1
    /\ ipc' = "udp_in" /\ dst' = d /\ Wait(IPPROC)
    /\ UNCHANGED <<tables, ports, iup, granted, stale, appVars, leaked, halted>>

\* udp_in() looks for the first entry of upqs[] with the port
Matches(i) == upqs[i].port = dst /\ \A j \in 0..i-1 : upqs[j].port # dst
Searching == ipc = "udp_in" /\ Holds(IPPROC)
UdpReturn == ipc' = "ipgetp" /\ dst' = 0 /\ iup' = NOBODY /\ stale' = FALSE

\* nobody has the port: ICMP, whose buffer the device never frees, or
\* which icerrok() refuses
NoPort ==
    /\ Searching /\ \A i \in Slots : upqs[i].port # dst
    /\ \/ leaked' = leaked + 1 /\ UNCHANGED netfree
       \/ netfree' = netfree + 1 /\ UNCHANGED leaked
    /\ Signal /\ UdpReturn
    /\ UNCHANGED <<tables, ports, granted, appVars, halted>>

\* Mutant of udp_in(): the datagram that does not fit is not freed
DropFullKept ==
    /\ Searching /\ \E x \in Slots : Matches(x) /\ Pcount(x) >= UPPLEN
    /\ Signal /\ UdpReturn
    /\ UNCHANGED <<tables, ports, granted, appVars, bufVars, halted>>

\* the port is full: drop
DropFull ==
    /\ Searching /\ \E x \in Slots : Matches(x) /\ Pcount(x) >= UPPLEN
    /\ netfree' = netfree + 1
    /\ Signal /\ UdpReturn
    /\ UNCHANGED <<tables, ports, granted, appVars, leaked, halted>>

Fits(x) == Searching /\ Matches(x) /\ Pcount(x) < UPPLEN

\* psend() fails on a port being cleared, and udp_in() does not look:
\* the buffer is nobody's
PsendLimbo(x) ==
    /\ Fits(x) /\ ports[x].state # "ALLOC"
    /\ leaked' = leaked + 1
    /\ ipc' = "tell" /\ iup' = x
    /\ UNCHANGED <<tables, ports, udpmutex, dst, granted, stale, appVars, netfree, halted>>

\* psend() after wait(ptssem): queues the datagram and signals ptrsem, which
\* may grant it to the reader that waits; panic without a node.  left: what
\* ptssem counts now
PutNode(p, left) ==
    \/ /\ Queued < MAXMSGS /\ ipc' = "tell"
       /\ ports' = [ports EXCEPT ![p].msgs = Append(@, dst), ![p].rsem = @ + 1, ![p].ssem = left]
       /\ got' = [a \in Apps |-> got[a] \/ (apc[a] = "preceive" /\ dgtab[dev[a]].upq = p
                                             /\ ports[p].rsem < 0)]
       /\ UNCHANGED halted
    \/ /\ Queued = MAXMSGS /\ halted' = TRUE
       /\ UNCHANGED <<ports, got, ipc>>

Psend(x) ==
    /\ Fits(x) /\ ports[x].state = "ALLOC" /\ ports[x].ssem > 0
    /\ PutNode(x, ports[x].ssem - 1)
    /\ iup' = x
    /\ UNCHANGED <<tables, udpmutex, dst, granted, stale, apc, dev, hasmsg, bufVars>>

\* pcount() does not count what is granted but not taken yet: psend() waits,
\* with udpmutex held
PsendBlock(x) ==
    /\ Fits(x) /\ ports[x].state = "ALLOC" /\ ports[x].ssem <= 0
    /\ ports' = [ports EXCEPT ![x].ssem = @ - 1]
    /\ ipc' = "psend" /\ iup' = x /\ granted' = FALSE /\ stale' = FALSE
    /\ UNCHANGED <<tables, udpmutex, dst, appVars, bufVars, halted>>

\* back from wait(ptssem)
PsendResume ==
    /\ ipc = "psend" /\ granted
    /\ granted' = FALSE
    /\ \/ /\ ~stale /\ PutNode(iup, ports[iup].ssem)
          /\ UNCHANGED leaked
       \/ /\ stale /\ leaked' = leaked + 1 /\ ipc' = "tell"
          /\ UNCHANGED <<ports, got, halted>>
    /\ UNCHANGED <<tables, udpmutex, dst, iup, stale, apc, dev, hasmsg, netfree>>

\* Mutant of udp_in(): the reader in recvtim() is not told
TellNobody ==
    /\ ipc = "tell" /\ upqs[iup].pid # BADPID /\ ipc' = "told"
    /\ UNCHANGED <<tables, ports, udpmutex, dst, iup, granted, stale, appVars, bufVars, halted>>

\* send() to the process in up_pid
Tell ==
    /\ ipc = "tell" /\ upqs[iup].pid # BADPID /\ ipc' = "told"
    /\ hasmsg' = [hasmsg EXCEPT ![upqs[iup].pid] = TRUE]
    /\ UNCHANGED <<tables, ports, udpmutex, dst, iup, granted, stale, apc, dev, got, bufVars, halted>>

\* up_pid is cleared only after the receiver may have run
Told ==
    /\ \/ ipc = "told" /\ upqs' = [upqs EXCEPT ![iup].pid = BADPID]
       \/ ipc = "tell" /\ upqs[iup].pid = BADPID /\ UNCHANGED upqs
    /\ Signal /\ UdpReturn
    /\ UNCHANGED <<dgtab, lastport, ports, granted, appVars, bufVars, halted>>

UdpIn ==
    \/ NoPort \/ DropFull
    \/ \E x \in Slots : PsendLimbo(x) \/ Psend(x) \/ PsendBlock(x)
    \/ PsendResume \/ Tell \/ Told

-----------------------------------------------------------------------------
(* Applications: dgmopen().                                                *)

FreeDevice(i) == dgtab[i].state = "FREE" /\ \A j \in 0..i-1 : dgtab[j].state # "FREE"
InUse(n) == \E i \in Slots : upqs[i].valid /\ upqs[i].port = n
App(a, pc) == apc[a] = pc
Goto(a, pc) == apc' = [apc EXCEPT ![a] = pc]
Release(a) ==
    /\ dgtab' = [dgtab EXCEPT ![dev[a]] = FreeDev]
    /\ dev' = [dev EXCEPT ![a] = NOBODY]

\* dgalloc(), then wait(udpmutex)
Open(a, n) ==
    /\ App(a, "closed")
    /\ \E i \in Slots :
         /\ FreeDevice(i)
         /\ dgtab' = [dgtab EXCEPT ![i] = [FreeDev EXCEPT !.state = "INUSE", !.lport = n]]
         /\ dev' = [dev EXCEPT ![a] = i]
    /\ Goto(a, "check") /\ Wait(a)
    /\ UNCHANGED <<upqs, lastport, ports, ipVars, got, hasmsg, bufVars, halted>>

\* udpnxtp(): n is the next number, round the ring, that is not in use;
\* it loops when there is none
After(k) == ULPORT + ((lastport - ULPORT + k) % AnyPorts)
NextPort(n) ==
    \E k \in 1..AnyPorts : /\ n = After(k) /\ ~InUse(n)
                           /\ \A j \in 1..k-1 : InUse(After(j))

Asked(a) == dgtab[dev[a]].lport
PortFree(a) == Asked(a) = ANYLPORT \/ ~InUse(Asked(a))

\* the port is free, or chosen; the mutex is released before it is taken
Check(a) ==
    /\ App(a, "check") /\ Holds(a) /\ PortFree(a)
    /\ \/ Asked(a) # ANYLPORT /\ UNCHANGED <<dgtab, lastport>>
       \/ \E n \in Ring : /\ Asked(a) = ANYLPORT /\ NextPort(n)
                          /\ lastport' = n
                          /\ dgtab' = [dgtab EXCEPT ![dev[a]].lport = n]
    /\ Goto(a, "dnparse") /\ Signal
    /\ UNCHANGED <<upqs, ports, ipVars, dev, got, hasmsg, bufVars, halted>>

\* Mutant of dgmopen(): returns with udpmutex held
CheckFailsLocked(a) ==
    /\ App(a, "check") /\ Holds(a) /\ ~PortFree(a)
    /\ Release(a) /\ Goto(a, "closed")
    /\ UNCHANGED <<upqs, lastport, ports, udpmutex, ipVars, got, hasmsg, bufVars, halted>>

CheckFails(a) ==
    /\ App(a, "check") /\ Holds(a) /\ ~PortFree(a)
    /\ Release(a) /\ Goto(a, "closed") /\ Signal
    /\ UNCHANGED <<upqs, lastport, ports, ipVars, got, hasmsg, bufVars, halted>>

\* dnparse() fails
ParseFails(a) ==
    /\ App(a, "dnparse") /\ Release(a) /\ Goto(a, "closed")
    /\ UNCHANGED <<upqs, lastport, ports, udpmutex, ipVars, got, hasmsg, bufVars, halted>>

Parse(a) ==
    /\ App(a, "dnparse") /\ Goto(a, "upalloc") /\ Wait(a)
    /\ UNCHANGED <<tables, ports, ipVars, dev, got, hasmsg, bufVars, halted>>

FreeEntry(i) == ~upqs[i].valid /\ \A j \in 0..i-1 : upqs[j].valid

\* upalloc() and pcreate(); upqs[] has as many entries as there are devices,
\* so one is free
Upalloc(a) ==
    /\ App(a, "upalloc") /\ Holds(a)
    /\ \E u \in Slots :
         /\ FreeEntry(u)
         /\ ports' = [ports EXCEPT ![u] = [FreePort EXCEPT !.state = "ALLOC", !.ssem = UPPLEN]]
         /\ upqs' = [upqs EXCEPT ![u] = [FreeUp EXCEPT !.valid = TRUE]]
         /\ dgtab' = [dgtab EXCEPT ![dev[a]].upq = u]
    /\ Goto(a, "bind") /\ Signal
    /\ UNCHANGED <<lastport, ipVars, dev, got, hasmsg, bufVars, halted>>

\* Mutant of dgmopen(): the port assigned last, by now perhaps to another
BindLastport(a) ==
    /\ App(a, "bind")
    /\ upqs' = [upqs EXCEPT ![dgtab[dev[a]].upq].port = lastport]
    /\ Goto(a, "idle")
    /\ UNCHANGED <<dgtab, lastport, ports, udpmutex, ipVars, dev, got, hasmsg, bufVars, halted>>

\* the rest of dgmopen(), after upalloc() released the mutex
Bind(a) ==
    /\ App(a, "bind")
    /\ upqs' = [upqs EXCEPT ![dgtab[dev[a]].upq].port = Asked(a)]
    /\ Goto(a, "idle")
    /\ UNCHANGED <<dgtab, lastport, ports, udpmutex, ipVars, dev, got, hasmsg, bufVars, halted>>

-----------------------------------------------------------------------------
(* dgread() and preceive().                                                *)

MyUp(a) == dgtab[dev[a]].upq

\* preceive(): wait(ptrsem)
Preceive(a) ==
    /\ ports' = [ports EXCEPT ![MyUp(a)].rsem = @ - 1]
    /\ got' = [got EXCEPT ![a] = ports[MyUp(a)].rsem > 0]
    /\ Goto(a, "preceive")

\* a read that need not time out, or finds a datagram
Read(a) ==
    /\ App(a, "idle")
    /\ dgtab[dev[a]].timed => upqs[MyUp(a)].pid = BADPID /\ Pcount(MyUp(a)) > 0
    /\ Preceive(a)
    /\ UNCHANGED <<tables, udpmutex, ipVars, dev, hasmsg, bufVars, halted>>

\* a timed read of an empty port: recvtim(DG_TIME)
ReadTimed(a) ==
    /\ App(a, "idle") /\ dgtab[dev[a]].timed
    /\ upqs[MyUp(a)].pid = BADPID /\ Pcount(MyUp(a)) <= 0
    /\ upqs' = [upqs EXCEPT ![MyUp(a)].pid = a]
    /\ Goto(a, "recvtim")
    /\ UNCHANGED <<dgtab, lastport, ports, udpmutex, ipVars, dev, got, hasmsg, bufVars, halted>>

\* recvtim() returns a message, any message
ReadWoken(a) ==
    /\ App(a, "recvtim") /\ hasmsg[a]
    /\ hasmsg' = [hasmsg EXCEPT ![a] = FALSE]
    /\ Preceive(a)
    /\ UNCHANGED <<tables, udpmutex, ipVars, dev, bufVars, halted>>

ReadTimeout(a) ==
    /\ App(a, "recvtim") /\ ~hasmsg[a]
    /\ upqs' = [upqs EXCEPT ![MyUp(a)].pid = BADPID]
    /\ Goto(a, "idle")
    /\ UNCHANGED <<dgtab, lastport, ports, udpmutex, ipVars, dev, got, hasmsg, bufVars, halted>>

\* preceive() takes the first datagram and signals ptssem
Take(a) ==
    /\ App(a, "preceive") /\ got[a]
    /\ ports' = [ports EXCEPT ![MyUp(a)].msgs = Tail(@), ![MyUp(a)].ssem = @ + 1]
    /\ granted' = (granted \/ (ports[MyUp(a)].ssem < 0))
    /\ got' = [got EXCEPT ![a] = FALSE]
    /\ Goto(a, "copy")
    /\ UNCHANGED <<tables, udpmutex, ipc, dst, iup, stale, dev, hasmsg, bufVars, halted>>

\* the data copied, or too long for the caller: freebuf()
Copy(a) ==
    /\ App(a, "copy") /\ netfree' = netfree + 1 /\ Goto(a, "idle")
    /\ UNCHANGED <<tables, ports, udpmutex, ipVars, dev, got, hasmsg, leaked, halted>>

-----------------------------------------------------------------------------
(* dgwrite(), dgcntl() and dgclose().                                      *)

\* udpsend(): the buffer goes to the device, which never frees it
Udpsend == netfree' = netfree - 1 /\ leaked' = leaked + 1

Write(a) ==
    /\ App(a, "idle") /\ netfree > 0
    /\ Udpsend
    /\ UNCHANGED <<tables, ports, udpmutex, ipVars, appVars, halted>>

SetMode(a) ==
    /\ App(a, "idle")
    /\ dgtab' = [dgtab EXCEPT ![dev[a]].timed = ~@]
    /\ UNCHANGED <<upqs, lastport, ports, udpmutex, ipVars, appVars, bufVars, halted>>

\* DG_CLEAR: preset(), without udpmutex; _ptclear() puts the port in limbo,
\* with a new ptseq, and disposes of the queue
Clear(a) ==
    /\ App(a, "idle") /\ Goto(a, "preset")
    /\ ports' = [ports EXCEPT ![MyUp(a)].state = "LIMBO", ![MyUp(a)].msgs = <<>>]
    /\ netfree' = netfree + Len(ports[MyUp(a)].msgs)
    /\ stale' = (stale \/ (ipc = "psend" /\ iup = MyUp(a)))
    /\ UNCHANGED <<tables, udpmutex, ipc, dst, iup, granted, dev, got, hasmsg, leaked, halted>>

\* sreset(ptssem) frees the sender
ClearSender(a) ==
    /\ App(a, "preset")
    /\ ports' = [ports EXCEPT ![MyUp(a)].ssem = UPPLEN]
    /\ granted' = (granted \/ (ipc = "psend" /\ iup = MyUp(a)))
    /\ Goto(a, "sreset")
    /\ UNCHANGED <<tables, udpmutex, ipc, dst, iup, stale, dev, got, hasmsg, bufVars, halted>>

\* sreset(ptrsem); the port may be used again
ClearDone(a) ==
    /\ App(a, "sreset")
    /\ ports' = [ports EXCEPT ![MyUp(a)].state = "ALLOC", ![MyUp(a)].rsem = 0]
    /\ Goto(a, "idle")
    /\ UNCHANGED <<tables, udpmutex, ipVars, dev, got, hasmsg, bufVars, halted>>

CloseWait(a) ==
    /\ App(a, "idle") /\ Goto(a, "dgclose") /\ Wait(a)
    /\ UNCHANGED <<tables, ports, ipVars, dev, got, hasmsg, bufVars, halted>>

\* pdelete(), with what is queued.  No process can wait on the semaphores,
\* and no other looks at the port while udpmutex is held.
Pdelete(p) ==
    /\ ports' = [ports EXCEPT ![p] = FreePort]
    /\ netfree' = netfree + Len(ports[p].msgs)

\* dgclose(): up_port, the port and the entry; what is left in an invalid
\* entry upalloc() sets again
Close(a) ==
    /\ App(a, "dgclose") /\ Holds(a)
    /\ Pdelete(MyUp(a))
    /\ upqs' = [upqs EXCEPT ![MyUp(a)] = FreeUp]
    /\ Goto(a, "release") /\ Signal
    /\ UNCHANGED <<dgtab, lastport, ipVars, dev, got, hasmsg, leaked, halted>>

CloseDone(a) ==
    /\ App(a, "release") /\ Release(a) /\ Goto(a, "closed")
    /\ UNCHANGED <<upqs, lastport, ports, udpmutex, ipVars, got, hasmsg, bufVars, halted>>

\* a message from somebody else: send() of another process, or the echo
\* reply icmp_in() sends to the process named in it.  One that came before
\* recvtim() is found there just the same.
Stray(a) ==
    /\ App(a, "recvtim") /\ ~hasmsg[a] /\ hasmsg' = [hasmsg EXCEPT ![a] = TRUE]
    /\ UNCHANGED <<tables, ports, udpmutex, ipVars, apc, dev, got, bufVars, halted>>

-----------------------------------------------------------------------------
\* what an application does of its own accord
Choice(a) ==
    \/ \E n \in Asks[a] : Open(a, n)
    \/ Read(a) \/ ReadTimed(a) \/ Write(a) \/ SetMode(a) \/ Clear(a)
    \/ CloseWait(a) \/ Stray(a)

\* what it does when it gets the CPU in a call
Step(a) ==
    \/ Check(a) \/ CheckFails(a) \/ Parse(a) \/ ParseFails(a)
    \/ Upalloc(a) \/ Bind(a)
    \/ ReadWoken(a) \/ ReadTimeout(a) \/ Take(a) \/ Copy(a)
    \/ ClearSender(a) \/ ClearDone(a) \/ Close(a) \/ CloseDone(a)

Next ==
    /\ ~halted
    /\ \/ \E d \in Dests : Arrive(d)
       \/ UdpIn
       \/ \E a \in Apps : Choice(a) \/ Step(a)

Spec == Init /\ [][Next]_vars

\* processes inside a call run when they can
FairSpec == Spec /\ WF_vars(~halted /\ UdpIn)
                 /\ \A a \in Apps : WF_vars(~halted /\ Step(a))

-----------------------------------------------------------------------------
AppPCs == {"closed", "check", "dnparse", "upalloc", "bind", "idle", "recvtim", "preceive",
           "copy", "preset", "sreset", "dgclose", "release"}
IpPCs == {"ipgetp", "udp_in", "psend", "tell", "told"}

\* The variables have the shape the code gives them
TypeOK ==
    /\ \A i \in Slots :
         /\ dgtab[i].state \in {"FREE", "INUSE"}
         /\ upqs[i].pid \in Apps \cup {BADPID}
         /\ ports[i].state \in {"FREE", "LIMBO", "ALLOC"}
         /\ ports[i].rsem \in -1..UPPLEN /\ ports[i].ssem \in -1..UPPLEN
    /\ ipc \in IpPCs /\ apc \in [Apps -> AppPCs]
    /\ dev \in [Apps -> Slots \cup {NOBODY}]
    /\ netfree \in 0..NETBUFS /\ leaked \in 0..NETBUFS
    /\ lastport \in Ring

\* The buffer of every datagram is in the pool, in a port's queue, in the
\* hands of udp_in() or dgread(), with the device, or (psend() failed on a
\* port cleared under it, which udp_in() does not notice) lost: it is never
\* in two of them, whatever close, clear and read do meanwhile.
BuffersConserved ==
    /\ TypeOK
    /\ netfree + Queued + leaked
        + (IF ipc \in {"udp_in", "psend"} THEN 1 ELSE 0)
        + Cardinality({a \in Apps : apc[a] = "copy"}) = NETBUFS

\* a device whose entry of upqs[] and port are its own
Bound(i) ==
    /\ dgtab[i].state = "INUSE" /\ dgtab[i].upq # NOBODY
    /\ ~ \E a \in Apps : dev[a] = i /\ apc[a] = "release"

\* What waits in a port was sent to the UDP port of the device that reads
\* it: no datagram is queued to a device opened later on the same port slot,
\* or under another number.
QueuedAtOwner ==
    \A i \in Slots : Bound(i) =>
        \A j \in DOMAIN ports[dgtab[i].upq].msgs :
            ports[dgtab[i].upq].msgs[j] = dgtab[i].lport

\* A timed reader is not left waiting for its time to run out while a
\* datagram is queued for it: it has a message, or udp_in() is about to send
\* one.
TimedReaderTold ==
    \A a \in Apps : apc[a] = "recvtim" /\ ports[MyUp(a)].msgs # <<>> =>
        hasmsg[a] \/ (ipc = "tell" /\ iup = MyUp(a))

\* ipproc comes back from udp_in(), although psend() may wait for the reader
\* with udpmutex held, unless the message nodes run out (panic).
UdpInReturns == ipc # "ipgetp" ~> (ipc = "ipgetp" \/ halted)
=============================================================================

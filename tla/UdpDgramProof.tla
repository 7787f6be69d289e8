--------------------------- MODULE UdpDgramProof ---------------------------
(***************************************************************************)
(* UDP input and the datagram devices, for every number of processes,      *)
(* devices, ports and buffers: whose datagram a port holds, who is told of *)
(* it, and where its buffer is.                                            *)
(***************************************************************************)
EXTENDS UdpDgram, SequenceTheorems, FiniteSetTheorems, TLAPS

-----------------------------------------------------------------------------
DevT == [state : {"FREE", "INUSE"}, lport : Nat, upq : Slots \cup {NOBODY}, timed : BOOLEAN]
UpT == [valid : BOOLEAN, port : Nat, pid : Apps \cup {BADPID}]
PortT == [state : {"FREE", "LIMBO", "ALLOC"}, msgs : Seq(Nat), rsem : Int, ssem : Int]

Types ==
    /\ dgtab \in [Slots -> DevT] /\ upqs \in [Slots -> UpT] /\ ports \in [Slots -> PortT]
    /\ udpmutex \in Seq(Apps \cup {IPPROC}) /\ lastport \in Ring
    /\ ipc \in IpPCs /\ dst \in Nat /\ iup \in Slots \cup {NOBODY}
    /\ granted \in BOOLEAN /\ stale \in BOOLEAN
    /\ apc \in [Apps -> AppPCs] /\ dev \in [Apps -> Slots \cup {NOBODY}]
    /\ got \in [Apps -> BOOLEAN] /\ hasmsg \in [Apps -> BOOLEAN]

\* The process has an entry of upqs[] and a port; it has bound them.
OnPort == {"idle", "recvtim", "preceive", "copy", "preset", "sreset", "dgclose"}
HasPort == OnPort \cup {"bind"}
Limbo == {"preset", "sreset"}

\* A device is used by one process, which has it until it is free again.
Devices ==
    /\ \A a \in Apps : apc[a] = "closed" <=> dev[a] = NOBODY
    /\ \A a \in Apps : dev[a] # NOBODY => dgtab[dev[a]].state = "INUSE"
    /\ \A a, b \in Apps : a # b /\ dev[a] # NOBODY => dev[a] # dev[b]
    /\ \A i \in Slots : dgtab[i].state = "INUSE" => \E a \in Apps : dev[a] = i

\* So is an entry of upqs[], from upalloc() to the hold of udpmutex in
\* dgclose(); an entry that is not valid has no port number.
Entries ==
    /\ \A a \in Apps : apc[a] \in HasPort => MyUp(a) \in Slots
    /\ \A a \in Apps : apc[a] \in {"check", "dnparse", "upalloc"} => MyUp(a) = NOBODY
    /\ \A a, b \in Apps : a # b /\ apc[a] \in HasPort /\ apc[b] \in HasPort => MyUp(a) # MyUp(b)
    /\ \A u \in Slots :
        /\ upqs[u].valid => \E a \in Apps : apc[a] \in HasPort /\ MyUp(a) = u
        /\ ~upqs[u].valid => upqs[u].port = 0 /\ ports[u] = FreePort

\* From psend() on, udp_in() has udpmutex, and the entry it found is still
\* there.
Active == {"psend", "tell", "told"}
Sender ==
    /\ ipc # "ipgetp" => dst # 0
    /\ ipc \in Active => /\ Holds(IPPROC) /\ iup \in Slots
                         /\ upqs[iup].valid /\ upqs[iup].port = dst
    /\ granted => ipc = "psend"

\* What udp_in() is doing with port u: in psend() it waits, was granted a
\* node, or waits for a port that was cleared meanwhile.
Sending(u) ==
    IF ipc \notin Active \/ iup # u THEN "no"
    ELSE IF ipc # "psend" THEN ipc
    ELSE IF stale THEN "stale"
    ELSE IF granted THEN "granted" ELSE "psend"

\* Process a at pc has UDP port n, the entry e and the port p; it was
\* granted a datagram (g), has a message (h), and udp_in() does s.  The port
\* counts what is queued less what the reader waits for or was granted, and
\* the room there is less what the sender waits for or was granted.
PortOK(a, pc, n, e, p, g, h, s) ==
    /\ e.valid /\ e.port = (IF pc = "bind" THEN 0 ELSE n)
    /\ p.state = (IF pc \in Limbo THEN "LIMBO" ELSE "ALLOC")
    /\ pc \in Limbo => p.msgs = <<>> /\ p.rsem \in 0..UPPLEN /\ s \notin {"psend", "granted"}
    /\ pc \notin Limbo => p.rsem = Len(p.msgs) - (IF pc = "preceive" THEN 1 ELSE 0)
    /\ pc = "preceive" => (g <=> Len(p.msgs) > 0)
    /\ pc = "recvtim" => /\ e.pid = a \/ h
                         /\ s = "told" => h
                         /\ p.msgs # <<>> => h \/ s = "tell"
    /\ s = "told" => e.pid # BADPID
    /\ \A j \in DOMAIN p.msgs : p.msgs[j] = n
    /\ Len(p.msgs) <= UPPLEN /\ (s = "granted" => Len(p.msgs) < UPPLEN)
    /\ pc = "preset" => p.ssem \in -1..UPPLEN
    /\ pc # "preset" =>
        p.ssem = UPPLEN - Len(p.msgs) - (IF s \in {"psend", "granted"} THEN 1 ELSE 0)

Local(a) ==
    apc[a] \in HasPort =>
        PortOK(a, apc[a], Asked(a), upqs[MyUp(a)], ports[MyUp(a)], got[a], hasmsg[a],
               Sending(MyUp(a)))

UdpInv == Types /\ Devices /\ Entries /\ Sender /\ \A a \in Apps : Local(a)

\* Buffers.
Nodes == {n \in Slots \X (1..MAXMSGS) : n[2] <= Len(ports[n[1]].msgs)}
InCopy == {a \in Apps : apc[a] = "copy"}
InUdp == IF ipc \in {"udp_in", "psend"} THEN 1 ELSE 0
BufInv ==
    /\ netfree \in Nat /\ leaked \in Nat
    /\ \A i \in Slots : Len(ports[i].msgs) <= MAXMSGS
    /\ netfree + Queued + leaked + InUdp + Cardinality(InCopy) = NETBUFS

-----------------------------------------------------------------------------
LEMMA Numbers ==
    /\ Ndg \in Nat /\ UPPLEN \in Nat /\ UPPLEN > 0 /\ MAXMSGS \in Nat /\ NETBUFS \in Nat
    /\ NOBODY \notin Slots /\ \A i \in Slots : i \in Nat
    /\ BADPID \notin Apps /\ IPPROC \notin Apps
  BY UdpAssumption DEF Slots, NOBODY

\* A process with a port: its device, entry and port exist.
LEMMA Own ==
    ASSUME UdpInv, NEW a \in Apps, apc[a] \in HasPort
    PROVE  /\ dev[a] \in Slots /\ MyUp(a) \in Slots /\ dgtab[dev[a]] \in DevT /\ Asked(a) \in Nat
           /\ upqs[MyUp(a)] \in UpT /\ ports[MyUp(a)] \in PortT
           /\ got[a] \in BOOLEAN /\ hasmsg[a] \in BOOLEAN
           /\ PortOK(a, apc[a], Asked(a), upqs[MyUp(a)], ports[MyUp(a)], got[a], hasmsg[a],
                     Sending(MyUp(a)))
           /\ upqs[MyUp(a)].valid
<1>1. apc[a] # "closed"
  BY DEF HasPort, OnPort
<1>2. dev[a] \in Slots
  BY <1>1 DEF UdpInv, Types, Devices
<1>3. MyUp(a) \in Slots /\ Local(a)
  BY DEF UdpInv, Entries
<1>4. dgtab[dev[a]] \in DevT /\ upqs[MyUp(a)] \in UpT /\ ports[MyUp(a)] \in PortT
  BY <1>2, <1>3 DEF UdpInv, Types
<1>5. Asked(a) \in Nat
  BY <1>4 DEF Asked, DevT
<1>6. PortOK(a, apc[a], Asked(a), upqs[MyUp(a)], ports[MyUp(a)], got[a], hasmsg[a],
             Sending(MyUp(a)))
  BY <1>3 DEF Local
<1>7. upqs[MyUp(a)].valid
  BY <1>6 DEF PortOK
<1>8. got[a] \in BOOLEAN /\ hasmsg[a] \in BOOLEAN
  BY DEF UdpInv, Types
<1> QED  BY <1>2, <1>3, <1>4, <1>5, <1>6, <1>7, <1>8

\* f with y at x.
Put(f, x, y) == [f EXCEPT ![x] = y]

\* A process that has a port, and keeps it, does something to it: what
\* others have, and what udp_in() relies on, is as before.
LEMMA OwnStep ==
    ASSUME UdpInv, NEW a \in Apps, apc[a] \in HasPort, NEW pc \in OnPort,
           NEW e \in UpT, NEW p \in PortT, NEW g \in BOOLEAN, NEW h \in BOOLEAN,
           NEW u \in Slots, u = MyUp(a),
           apc' = Put(apc, a, pc), upqs' = Put(upqs, u, e),
           ports' = Put(ports, u, p), got' = Put(got, a, g),
           hasmsg' = Put(hasmsg, a, h),
           dgtab' \in [Slots -> DevT],
           \A i \in Slots : /\ dgtab'[i].state = dgtab[i].state
                            /\ dgtab'[i].lport = dgtab[i].lport
                            /\ dgtab'[i].upq = dgtab[i].upq,
           UNCHANGED <<dev, lastport, ipc, dst, iup>>,
           udpmutex' \in Seq(Apps \cup {IPPROC}), Holds(IPPROC) => Holds(IPPROC)',
           granted' \in BOOLEAN, stale' \in BOOLEAN, granted' => ipc = "psend",
           iup # u => stale' = stale /\ granted' = granted,
           PortOK(a, pc, Asked(a), e, p, g, h, Sending(u)')
    PROVE  UdpInv'
<1>0. Types /\ Devices /\ Entries /\ Sender
  BY DEF UdpInv
<1>1. /\ dev[a] \in Slots /\ u \in Slots /\ upqs[u].valid
      /\ e.valid /\ e.port = Asked(a) /\ e.port \in Nat
  <2>1. e.valid /\ e.port = Asked(a)
    BY DEF PortOK, OnPort
  <2> QED  BY <2>1, Own
<1>2. /\ apc' \in [Apps -> AppPCs] /\ apc'[a] = pc /\ \A b \in Apps \ {a} : apc'[b] = apc[b]
      /\ upqs' \in [Slots -> UpT] /\ upqs'[u] = e /\ \A v \in Slots \ {u} : upqs'[v] = upqs[v]
      /\ ports' \in [Slots -> PortT] /\ ports'[u] = p /\ \A v \in Slots \ {u} : ports'[v] = ports[v]
      /\ got' \in [Apps -> BOOLEAN] /\ got'[a] = g /\ \A b \in Apps \ {a} : got'[b] = got[b]
      /\ hasmsg' \in [Apps -> BOOLEAN] /\ hasmsg'[a] = h
      /\ \A b \in Apps \ {a} : hasmsg'[b] = hasmsg[b]
  <2>1. pc \in AppPCs
    BY DEF OnPort, AppPCs
  <2> QED  BY <1>0, <2>1 DEF Types, Put
<1>3. Types'
  BY <1>0, <1>2 DEF Types, DevT, UpT, PortT, Slots, Ring
<1>4. pc \in HasPort /\ pc # "closed" /\ apc[a] # "closed" /\ pc \notin {"check", "dnparse", "upalloc"}
  BY DEF HasPort, OnPort
<1>5. \A b \in Apps : /\ apc'[b] \in HasPort <=> apc[b] \in HasPort
                      /\ apc'[b] = "closed" <=> apc[b] = "closed"
                      /\ apc'[b] \in {"check", "dnparse", "upalloc"} => apc'[b] = apc[b]
  <2> HIDE DEF HasPort
  <2> SUFFICES ASSUME NEW b \in Apps
               PROVE  /\ apc'[b] \in HasPort <=> apc[b] \in HasPort
                      /\ apc'[b] = "closed" <=> apc[b] = "closed"
                      /\ apc'[b] \in {"check", "dnparse", "upalloc"} => apc'[b] = apc[b]
    OBVIOUS
  <2>1. CASE b = a
    BY <1>2, <1>4, <2>1
  <2>2. CASE b # a
    BY <1>2, <2>2
  <2> QED  BY <2>1, <2>2
<1>6. \A b \in Apps : dev[b] \in Slots => MyUp(b)' = MyUp(b) /\ Asked(b)' = Asked(b)
  BY DEF MyUp, Asked
<1>7. \A b \in Apps : apc[b] # "closed" => dev[b] \in Slots
  BY <1>0 DEF Types, Devices
<1>8. Devices'
  <2>1. \A b \in Apps : apc'[b] = "closed" <=> dev'[b] = NOBODY
    BY <1>0, <1>5 DEF Devices
  <2>2. \A b \in Apps : dev'[b] # NOBODY => dgtab'[dev'[b]].state = "INUSE"
    BY <1>0 DEF Devices, Types
  <2>3. \A b, c \in Apps : b # c /\ dev'[b] # NOBODY => dev'[b] # dev'[c]
    BY <1>0 DEF Devices
  <2>4. \A i \in Slots : dgtab'[i].state = "INUSE" => \E b \in Apps : dev'[b] = i
    BY <1>0 DEF Devices
  <2> QED  BY <2>1, <2>2, <2>3, <2>4 DEF Devices
<1>9. \A b \in Apps : apc[b] \in HasPort => apc[b] # "closed"
  BY DEF HasPort, OnPort
<1>10. Entries'
  <2>1. \A b \in Apps : apc'[b] \in HasPort => MyUp(b)' \in Slots
    BY <1>0, <1>5, <1>6, <1>7, <1>9 DEF Entries
  <2>2. ASSUME NEW b \in Apps, apc'[b] \in {"check", "dnparse", "upalloc"}
        PROVE  MyUp(b)' = NOBODY
    <3>1. apc[b] \in {"check", "dnparse", "upalloc"}
      BY <1>5, <2>2
    <3>2. apc[b] # "closed"
      BY <3>1
    <3>3. MyUp(b)' = MyUp(b)
      BY <1>6, <1>7, <3>2
    <3> QED  BY <1>0, <3>1, <3>3 DEF Entries
  <2>3. \A b, c \in Apps : b # c /\ apc'[b] \in HasPort /\ apc'[c] \in HasPort
                             => MyUp(b)' # MyUp(c)'
    BY <1>0, <1>5, <1>6, <1>7, <1>9 DEF Entries
  <2>4. ASSUME NEW v \in Slots, upqs'[v].valid
        PROVE  \E b \in Apps : apc'[b] \in HasPort /\ MyUp(b)' = v
    <3>1. upqs[v].valid
      BY <1>1, <1>2, <2>4
    <3>2. PICK b \in Apps : apc[b] \in HasPort /\ MyUp(b) = v
      BY <1>0, <3>1 DEF Entries
    <3>3. apc'[b] \in HasPort /\ MyUp(b)' = MyUp(b)
      BY <1>5, <1>6, <1>7, <1>9, <3>2
    <3> QED  BY <3>2, <3>3
  <2>5. \A v \in Slots : ~upqs'[v].valid => upqs'[v].port = 0 /\ ports'[v] = FreePort
    BY <1>0, <1>1, <1>2 DEF Entries
  <2> QED  BY <2>1, <2>2, <2>3, <2>4, <2>5 DEF Entries, FreePort
<1>11. Sender'
  <2>1. ipc \in Active => upqs'[iup].valid /\ upqs'[iup].port = dst
    <3> SUFFICES ASSUME ipc \in Active PROVE upqs'[iup].valid /\ upqs'[iup].port = dst
      OBVIOUS
    <3>1. upqs[iup].valid /\ upqs[iup].port = dst /\ iup \in Slots /\ dst # 0
      BY <1>0 DEF Sender, Active
    <3>2. CASE iup # u
      BY <1>2, <3>1, <3>2
    <3>3. CASE iup = u
      <4>1. upqs[u].port = (IF apc[a] = "bind" THEN 0 ELSE Asked(a))
        BY Own DEF PortOK
      <4>2. upqs[u].port = Asked(a)
        BY <3>1, <3>3, <4>1
      <4> QED  BY <1>1, <1>2, <3>1, <3>3, <4>2
    <3> QED  BY <3>2, <3>3
  <2> QED  BY <1>0, <2>1 DEF Sender
<1>12. ASSUME NEW b \in Apps PROVE Local(b)'
  <2> SUFFICES ASSUME apc'[b] \in HasPort
               PROVE  PortOK(b, apc'[b], Asked(b)', upqs'[MyUp(b)'], ports'[MyUp(b)'], got'[b],
                             hasmsg'[b], Sending(MyUp(b))')
    BY DEF Local, PortOK
  <2>1. apc[b] \in HasPort /\ MyUp(b)' = MyUp(b) /\ Asked(b)' = Asked(b)
    BY <1>5, <1>6, <1>7, <1>9
  <2>2. CASE b = a
    BY <1>2, <2>1, <2>2
  <2>3. CASE b # a
    <3>1. MyUp(b) \in Slots \ {u}
      BY <1>0, <2>1, <2>3 DEF Entries
    <3>2. Sending(MyUp(b))' = Sending(MyUp(b))
      BY <2>1, <3>1 DEF Sending
    <3>3. PortOK(b, apc[b], Asked(b), upqs[MyUp(b)], ports[MyUp(b)], got[b], hasmsg[b],
                 Sending(MyUp(b)))
      BY <2>1, Own
    <3> QED  BY <1>2, <2>1, <2>3, <3>1, <3>2, <3>3
  <2> QED  BY <2>2, <2>3
<1> QED  BY <1>3, <1>8, <1>10, <1>11, <1>12 DEF UdpInv

\* The same when udp_in() and udpmutex are left alone.
LEMMA OwnQuiet ==
    ASSUME UdpInv, NEW a \in Apps, apc[a] \in HasPort, NEW pc \in OnPort,
           NEW e \in UpT, NEW p \in PortT, NEW g \in BOOLEAN, NEW h \in BOOLEAN,
           apc' = Put(apc, a, pc), upqs' = Put(upqs, MyUp(a), e),
           ports' = Put(ports, MyUp(a), p), got' = Put(got, a, g),
           hasmsg' = Put(hasmsg, a, h),
           UNCHANGED <<dgtab, dev, lastport, ipVars, udpmutex>>,
           PortOK(a, pc, Asked(a), e, p, g, h, Sending(MyUp(a)))
    PROVE  UdpInv'
<1>1. MyUp(a) \in Slots
  BY Own
<1>2. UNCHANGED <<ipc, dst, iup, granted, stale>>
  BY DEF ipVars
<1>3. PICK u \in Slots : u = MyUp(a)
  BY <1>1
<1>4. Sending(u)' = Sending(u)
  BY <1>2 DEF Sending
<1>5. /\ dgtab' \in [Slots -> DevT] /\ udpmutex' \in Seq(Apps \cup {IPPROC})
      /\ granted' \in BOOLEAN /\ stale' \in BOOLEAN /\ (granted' => ipc = "psend")
      /\ (Holds(IPPROC) => Holds(IPPROC)')
  BY <1>2 DEF UdpInv, Types, Sender, Holds
<1>6. PortOK(a, pc, Asked(a), e, p, g, h, Sending(u)')
  BY <1>3, <1>4
<1>7. /\ upqs' = Put(upqs, u, e) /\ ports' = Put(ports, u, p)
      /\ iup # u => stale' = stale /\ granted' = granted
  BY <1>2, <1>3
<1>8. \A i \in Slots : /\ dgtab'[i].state = dgtab[i].state
                       /\ dgtab'[i].lport = dgtab[i].lport
                       /\ dgtab'[i].upq = dgtab[i].upq
  OBVIOUS
<1>9. UNCHANGED <<dev, lastport, ipc, dst, iup>>
  BY <1>2
<1> QED  BY <1>3, <1>5, <1>6, <1>7, <1>8, <1>9, OwnStep

\* What a process does not touch, as it stands in OwnStep.
LEMMA Untouched ==
    ASSUME UdpInv, NEW a \in Apps, apc[a] \in HasPort
    PROVE  /\ upqs = Put(upqs, MyUp(a), upqs[MyUp(a)])
           /\ ports = Put(ports, MyUp(a), ports[MyUp(a)])
           /\ got = Put(got, a, got[a]) /\ hasmsg = Put(hasmsg, a, hasmsg[a])
           /\ apc = Put(apc, a, apc[a])
  BY Own DEF UdpInv, Types, Put

\* A port after wait(ptrsem).
LEMMA ReadPort ==
    ASSUME NEW p \in PortT
    PROVE  /\ [p EXCEPT !.rsem = @ - 1] \in PortT
           /\ [p EXCEPT !.rsem = @ - 1].state = p.state /\ [p EXCEPT !.rsem = @ - 1].msgs = p.msgs
           /\ [p EXCEPT !.rsem = @ - 1].rsem = p.rsem - 1 /\ [p EXCEPT !.rsem = @ - 1].ssem = p.ssem
           /\ Len(p.msgs) \in Nat /\ p.rsem \in Int
  BY DEF PortT

LEMMA ReadOK ==
    ASSUME UdpInv, NEW a \in Apps, apc[a] \in {"idle", "recvtim"}, Preceive(a), NEW h \in BOOLEAN,
           hasmsg' = Put(hasmsg, a, h), upqs' = upqs,
           UNCHANGED <<dgtab, dev, lastport, ipVars, udpmutex>>
    PROVE  UdpInv'
<1> DEFINE u == MyUp(a)
           p == [ports[u] EXCEPT !.rsem = @ - 1]
           g == ports[u].rsem > 0
<1>1. apc[a] \in HasPort
  BY DEF HasPort, OnPort
<1>2. /\ u \in Slots /\ upqs[u] \in UpT /\ ports[u] \in PortT
      /\ PortOK(a, apc[a], Asked(a), upqs[u], ports[u], got[a], hasmsg[a], Sending(u))
  BY <1>1, Own
<1>3. /\ p \in PortT /\ p.state = ports[u].state /\ p.msgs = ports[u].msgs
      /\ p.rsem = ports[u].rsem - 1 /\ p.ssem = ports[u].ssem
      /\ Len(ports[u].msgs) \in Nat /\ ports[u].rsem \in Int
  BY <1>2, ReadPort
<1>4. /\ apc' = Put(apc, a, "preceive") /\ ports' = Put(ports, u, p)
      /\ got' = Put(got, a, g)
  BY DEF Preceive, Goto, Put
<1>5. PortOK(a, "preceive", Asked(a), upqs[u], p, g, h, Sending(u))
  <2>1. /\ upqs[u].valid /\ upqs[u].port = Asked(a)
        /\ ports[u].state = "ALLOC" /\ ports[u].rsem = Len(ports[u].msgs)
        /\ Sending(u) = "told" => upqs[u].pid # BADPID
        /\ \A j \in DOMAIN ports[u].msgs : ports[u].msgs[j] = Asked(a)
        /\ Len(ports[u].msgs) <= UPPLEN
        /\ Sending(u) = "granted" => Len(ports[u].msgs) < UPPLEN
        /\ ports[u].ssem = UPPLEN - Len(ports[u].msgs)
                              - (IF Sending(u) \in {"psend", "granted"} THEN 1 ELSE 0)
    <3>1. apc[a] \notin Limbo /\ apc[a] # "bind" /\ apc[a] # "preset" /\ apc[a] # "preceive"
      BY DEF Limbo
    <3> HIDE DEF u
    <3> QED  BY <1>2, <3>1 DEF PortOK
  <2>2. g <=> Len(p.msgs) > 0
    BY <1>3, <2>1
  <2> HIDE DEF u, p, g
  <2> QED  BY <1>3, <2>1, <2>2 DEF PortOK, Limbo
<1>6. "preceive" \in OnPort /\ g \in BOOLEAN
  BY DEF OnPort
<1>7. upqs' = Put(upqs, u, upqs[u])
  BY <1>1, Untouched
<1> HIDE DEF p, g
<1> QED  BY <1>1, <1>2, <1>3, <1>4, <1>5, <1>6, <1>7, OwnQuiet

LEMMA UdpRead == ASSUME UdpInv, NEW a \in Apps, Read(a) PROVE UdpInv'
<1>1. /\ apc[a] \in {"idle", "recvtim"} /\ Preceive(a) /\ upqs' = upqs /\ hasmsg' = hasmsg
      /\ UNCHANGED <<dgtab, dev, lastport, ipVars, udpmutex>>
  BY DEF Read, App, tables
<1>2. apc[a] \in HasPort
  BY <1>1 DEF HasPort, OnPort
<1>3. hasmsg' = Put(hasmsg, a, hasmsg[a]) /\ hasmsg[a] \in BOOLEAN
  BY <1>1, <1>2, Own, Untouched
<1> QED  BY <1>1, <1>3, ReadOK

LEMMA UdpReadWoken == ASSUME UdpInv, NEW a \in Apps, ReadWoken(a) PROVE UdpInv'
<1>1. /\ apc[a] \in {"idle", "recvtim"} /\ Preceive(a) /\ upqs' = upqs
      /\ hasmsg' = Put(hasmsg, a, FALSE)
      /\ UNCHANGED <<dgtab, dev, lastport, ipVars, udpmutex>>
  BY DEF ReadWoken, App, tables, Put
<1> QED  BY <1>1, ReadOK

\* The port of a process that reads nothing: its entry changes, or its pc.
LEMMA UdpReadTimed == ASSUME UdpInv, NEW a \in Apps, ReadTimed(a) PROVE UdpInv'
<1> DEFINE u == MyUp(a)
           e == [upqs[u] EXCEPT !.pid = a]
<1>1. apc[a] = "idle" /\ apc[a] \in HasPort /\ "recvtim" \in OnPort
  BY DEF HasPort, OnPort, ReadTimed, App
<1>2. /\ u \in Slots /\ upqs[u] \in UpT /\ ports[u] \in PortT
      /\ got[a] \in BOOLEAN /\ hasmsg[a] \in BOOLEAN
      /\ PortOK(a, apc[a], Asked(a), upqs[u], ports[u], got[a], hasmsg[a], Sending(u))
  BY <1>1, Own
<1>3. e \in UpT /\ e.valid = upqs[u].valid /\ e.port = upqs[u].port /\ e.pid = a
  BY <1>2 DEF UpT
<1>4. /\ apc' = Put(apc, a, "recvtim") /\ upqs' = Put(upqs, u, e)
      /\ upqs[u].pid = BADPID /\ Pcount(u) <= 0
      /\ UNCHANGED <<dgtab, dev, lastport, ipVars, udpmutex, ports, got, hasmsg>>
  BY DEF ReadTimed, Goto, Put
<1>5. ports[u].msgs = <<>>
  <2>1. ports[u].rsem = Len(ports[u].msgs) /\ ports[u].state = "ALLOC"
    BY <1>1, <1>2 DEF PortOK, Limbo
  <2>2. ports[u].msgs \in Seq(Nat) /\ ports[u].ssem \in Int /\ Len(ports[u].msgs) \in Nat
    BY <1>2 DEF PortT
  <2>3. Pcount(u) >= Len(ports[u].msgs)
    BY <2>1, <2>2 DEF Pcount
  <2>4. Len(ports[u].msgs) = 0
    BY <1>4, <2>1, <2>2 DEF Pcount
  <2> QED  BY <2>2, <2>4
<1>6. PortOK(a, "recvtim", Asked(a), e, ports[u], got[a], hasmsg[a], Sending(u))
  <2> HIDE DEF u, e
  <2> QED  BY <1>1, <1>2, <1>3, <1>4, <1>5, Numbers DEF PortOK, Limbo
<1>7. /\ ports' = Put(ports, u, ports[u]) /\ got' = Put(got, a, got[a])
      /\ hasmsg' = Put(hasmsg, a, hasmsg[a])
  BY <1>1, <1>4, Untouched
<1> HIDE DEF e
<1> QED  BY <1>1, <1>2, <1>3, <1>4, <1>6, <1>7, OwnQuiet

LEMMA UdpReadTimeout == ASSUME UdpInv, NEW a \in Apps, ReadTimeout(a) PROVE UdpInv'
<1> DEFINE u == MyUp(a)
           e == [upqs[u] EXCEPT !.pid = BADPID]
<1>1. apc[a] = "recvtim" /\ apc[a] \in HasPort /\ "idle" \in OnPort
  BY DEF HasPort, OnPort, ReadTimeout, App
<1>2. /\ u \in Slots /\ upqs[u] \in UpT /\ ports[u] \in PortT
      /\ got[a] \in BOOLEAN /\ hasmsg[a] \in BOOLEAN
      /\ PortOK(a, apc[a], Asked(a), upqs[u], ports[u], got[a], hasmsg[a], Sending(u))
  BY <1>1, Own
<1>3. e \in UpT /\ e.valid = upqs[u].valid /\ e.port = upqs[u].port
  BY <1>2 DEF UpT
<1>4. /\ apc' = Put(apc, a, "idle") /\ upqs' = Put(upqs, u, e) /\ ~hasmsg[a]
      /\ UNCHANGED <<dgtab, dev, lastport, ipVars, udpmutex, ports, got, hasmsg>>
  BY DEF ReadTimeout, Goto, Put
<1>5. Sending(u) # "told"
  BY <1>1, <1>2, <1>4 DEF PortOK
<1>6. PortOK(a, "idle", Asked(a), e, ports[u], got[a], hasmsg[a], Sending(u))
  <2> HIDE DEF u, e
  <2> QED  BY <1>1, <1>2, <1>3, <1>5 DEF PortOK, Limbo
<1>7. /\ ports' = Put(ports, u, ports[u]) /\ got' = Put(got, a, got[a])
      /\ hasmsg' = Put(hasmsg, a, hasmsg[a])
  BY <1>1, <1>4, Untouched
<1> HIDE DEF e
<1> QED  BY <1>1, <1>2, <1>3, <1>4, <1>6, <1>7, OwnQuiet

LEMMA UdpBind == ASSUME UdpInv, NEW a \in Apps, Bind(a) PROVE UdpInv'
<1> DEFINE u == MyUp(a)
           e == [upqs[u] EXCEPT !.port = Asked(a)]
<1>1. apc[a] = "bind" /\ apc[a] \in HasPort /\ "idle" \in OnPort
  BY DEF HasPort, OnPort, Bind, App
<1>2. /\ u \in Slots /\ upqs[u] \in UpT /\ ports[u] \in PortT /\ Asked(a) \in Nat
      /\ got[a] \in BOOLEAN /\ hasmsg[a] \in BOOLEAN
      /\ PortOK(a, apc[a], Asked(a), upqs[u], ports[u], got[a], hasmsg[a], Sending(u))
  BY <1>1, Own
<1>3. e \in UpT /\ e.valid = upqs[u].valid /\ e.port = Asked(a) /\ e.pid = upqs[u].pid
  BY <1>2 DEF UpT
<1>4. /\ apc' = Put(apc, a, "idle") /\ upqs' = Put(upqs, u, e)
      /\ UNCHANGED <<dgtab, dev, lastport, ipVars, udpmutex, ports, got, hasmsg>>
  BY DEF Bind, Goto, Put, MyUp
<1>5. PortOK(a, "idle", Asked(a), e, ports[u], got[a], hasmsg[a], Sending(u))
  <2> HIDE DEF u, e
  <2> QED  BY <1>1, <1>2, <1>3 DEF PortOK, Limbo
<1>6. /\ ports' = Put(ports, u, ports[u]) /\ got' = Put(got, a, got[a])
      /\ hasmsg' = Put(hasmsg, a, hasmsg[a])
  BY <1>1, <1>4, Untouched
<1> HIDE DEF e
<1> QED  BY <1>1, <1>2, <1>3, <1>4, <1>5, <1>6, OwnQuiet

\* Steps that leave the entry and the port alone.
LEMMA KeepPort ==
    ASSUME UdpInv, NEW a \in Apps, apc[a] \in OnPort, NEW pc \in OnPort, NEW h \in BOOLEAN,
           apc' = Put(apc, a, pc), hasmsg' = Put(hasmsg, a, h),
           UNCHANGED <<dgtab, dev, lastport, ipVars, udpmutex, upqs, ports, got>>,
           PortOK(a, pc, Asked(a), upqs[MyUp(a)], ports[MyUp(a)], got[a], h, Sending(MyUp(a)))
    PROVE  UdpInv'
<1>1. apc[a] \in HasPort
  BY DEF HasPort
<1>2. upqs[MyUp(a)] \in UpT /\ ports[MyUp(a)] \in PortT /\ got[a] \in BOOLEAN
  BY <1>1, Own
<1>3. /\ ports' = Put(ports, MyUp(a), ports[MyUp(a)]) /\ got' = Put(got, a, got[a])
      /\ upqs' = Put(upqs, MyUp(a), upqs[MyUp(a)])
  BY <1>1, Untouched
<1>4. UNCHANGED <<dgtab, dev, lastport, ipVars, udpmutex>>
  OBVIOUS
<1> QED  BY <1>1, <1>2, <1>3, <1>4, OwnQuiet

LEMMA UdpCopy == ASSUME UdpInv, NEW a \in Apps, Copy(a) PROVE UdpInv'
<1> DEFINE u == MyUp(a)
<1>1. /\ apc[a] = "copy" /\ apc' = Put(apc, a, "idle")
      /\ UNCHANGED <<dgtab, dev, lastport, ipVars, udpmutex, upqs, ports, got, hasmsg>>
  BY DEF Copy, App, Goto, Put, tables
<1>2. apc[a] \in HasPort /\ apc[a] \in OnPort /\ "idle" \in OnPort
  BY <1>1 DEF HasPort, OnPort
<1>3. /\ PortOK(a, apc[a], Asked(a), upqs[u], ports[u], got[a], hasmsg[a], Sending(u))
      /\ hasmsg[a] \in BOOLEAN /\ hasmsg' = Put(hasmsg, a, hasmsg[a])
  BY <1>1, <1>2, Own, Untouched
<1>4. PortOK(a, "idle", Asked(a), upqs[u], ports[u], got[a], hasmsg[a], Sending(u))
  <2> HIDE DEF u
  <2> QED  BY <1>1, <1>3 DEF PortOK, Limbo
<1> QED  BY <1>1, <1>2, <1>3, <1>4, KeepPort

LEMMA UdpStray == ASSUME UdpInv, NEW a \in Apps, Stray(a) PROVE UdpInv'
<1> DEFINE u == MyUp(a)
<1>1. /\ apc[a] = "recvtim" /\ hasmsg' = Put(hasmsg, a, TRUE)
      /\ UNCHANGED <<dgtab, dev, lastport, ipVars, udpmutex, upqs, ports, got, apc>>
  BY DEF Stray, App, Put, tables
<1>2. apc[a] \in HasPort /\ apc[a] \in OnPort
  BY <1>1 DEF HasPort, OnPort
<1>3. /\ PortOK(a, apc[a], Asked(a), upqs[u], ports[u], got[a], hasmsg[a], Sending(u))
      /\ apc' = Put(apc, a, apc[a])
  BY <1>1, <1>2, Own, Untouched
<1>4. PortOK(a, apc[a], Asked(a), upqs[u], ports[u], got[a], TRUE, Sending(u))
  <2> HIDE DEF u
  <2> QED  BY <1>1, <1>3 DEF PortOK, Limbo
<1> QED  BY <1>1, <1>2, <1>3, <1>4, KeepPort

\* dgwrite(), the mode of the device, and dgclose() up to udpmutex.
LEMMA UdpWrite == ASSUME UdpInv, NEW a \in Apps, Write(a) PROVE UdpInv'
<1>1. /\ apc[a] \in OnPort
      /\ UNCHANGED <<dgtab, dev, lastport, ipVars, udpmutex, upqs, ports, got, apc, hasmsg>>
  BY DEF Write, App, OnPort, tables, appVars
<1>2. apc[a] \in HasPort
  BY <1>1 DEF HasPort
<1>3. /\ PortOK(a, apc[a], Asked(a), upqs[MyUp(a)], ports[MyUp(a)], got[a], hasmsg[a],
               Sending(MyUp(a)))
      /\ apc' = Put(apc, a, apc[a]) /\ hasmsg' = Put(hasmsg, a, hasmsg[a])
      /\ hasmsg[a] \in BOOLEAN
  BY <1>1, <1>2, Own, Untouched
<1> QED  BY <1>1, <1>3, KeepPort

LEMMA Appends ==
    ASSUME UdpInv, NEW p \in Apps \cup {IPPROC}, Wait(p)
    PROVE  /\ udpmutex' \in Seq(Apps \cup {IPPROC})
           /\ \A q : Holds(q) => Holds(q)'
<1>1. udpmutex \in Seq(Apps \cup {IPPROC}) /\ udpmutex' = Append(udpmutex, p)
  BY DEF UdpInv, Types, Wait
<1>2. udpmutex # <<>> => udpmutex' # <<>> /\ Head(udpmutex') = Head(udpmutex)
  <2> SUFFICES ASSUME udpmutex # <<>> PROVE udpmutex' # <<>> /\ Head(udpmutex') = Head(udpmutex)
    OBVIOUS
  <2>1. Len(udpmutex) \in Nat /\ Len(udpmutex) > 0 /\ 1 \in 1..Len(udpmutex)
    BY <1>1
  <2>2. /\ udpmutex' \in Seq(Apps \cup {IPPROC}) /\ Len(udpmutex') = Len(udpmutex) + 1
        /\ udpmutex'[1] = udpmutex[1]
    BY <1>1, <2>1, AppendProperties
  <2>3. udpmutex' # <<>> /\ Head(udpmutex') = udpmutex'[1] /\ Head(udpmutex) = udpmutex[1]
    BY <1>1, <2>1, <2>2
  <2> QED  BY <2>2, <2>3
<1>3. udpmutex' \in Seq(Apps \cup {IPPROC})
  BY <1>1
<1> QED  BY <1>2, <1>3 DEF Holds

LEMMA UdpSetMode == ASSUME UdpInv, NEW a \in Apps, SetMode(a) PROVE UdpInv'
<1> DEFINE t == [dgtab[dev[a]] EXCEPT !.timed = ~@]
<1>1. /\ apc[a] = "idle" /\ dgtab' = [dgtab EXCEPT ![dev[a]] = t]
      /\ UNCHANGED <<dev, lastport, ipc, dst, iup, granted, stale, udpmutex, upqs, ports, got, apc, hasmsg>>
  BY DEF SetMode, App, appVars, ipVars
<1>2. apc[a] \in HasPort /\ apc[a] \in OnPort
  BY <1>1 DEF HasPort, OnPort
<1>3. PICK u \in Slots : u = MyUp(a)
  BY <1>2, Own
<1>4. /\ PortOK(a, apc[a], Asked(a), upqs[u], ports[u], got[a], hasmsg[a], Sending(u))
      /\ apc' = Put(apc, a, apc[a]) /\ hasmsg' = Put(hasmsg, a, hasmsg[a])
      /\ ports' = Put(ports, u, ports[u]) /\ got' = Put(got, a, got[a])
      /\ upqs' = Put(upqs, u, upqs[u])
      /\ hasmsg[a] \in BOOLEAN /\ got[a] \in BOOLEAN /\ upqs[u] \in UpT /\ ports[u] \in PortT
  BY <1>1, <1>2, <1>3, Own, Untouched
<1>5. dgtab[dev[a]] \in DevT /\ dev[a] \in Slots
  BY <1>2, Own
<1>6. /\ t \in DevT /\ t.state = dgtab[dev[a]].state /\ t.lport = dgtab[dev[a]].lport
      /\ t.upq = dgtab[dev[a]].upq
  BY <1>5 DEF DevT
<1> HIDE DEF t
<1>7. dgtab \in [Slots -> DevT]
  BY DEF UdpInv, Types
<1>8. /\ dgtab' \in [Slots -> DevT]
      /\ \A i \in Slots : /\ dgtab'[i].state = dgtab[i].state
                          /\ dgtab'[i].lport = dgtab[i].lport
                          /\ dgtab'[i].upq = dgtab[i].upq
  BY <1>1, <1>5, <1>6, <1>7
<1>9. /\ udpmutex' \in Seq(Apps \cup {IPPROC}) /\ (Holds(IPPROC) => Holds(IPPROC)')
      /\ granted' \in BOOLEAN /\ stale' \in BOOLEAN /\ (granted' => ipc = "psend")
      /\ (iup # u => stale' = stale /\ granted' = granted)
  BY <1>1 DEF UdpInv, Types, Sender, Holds
<1>10. Sending(u)' = Sending(u)
  BY <1>1 DEF Sending
<1>11. PortOK(a, apc[a], Asked(a), upqs[u], ports[u], got[a], hasmsg[a], Sending(u)')
  BY <1>4, <1>10
<1>12. UNCHANGED <<dev, lastport, ipc, dst, iup>>
  BY <1>1
<1> QED  BY <1>2, <1>3, <1>4, <1>8, <1>9, <1>11, <1>12, OwnStep

\* Steps in which udpmutex, or the sender, changes and the device does not.
LEMMA OwnSender ==
    ASSUME UdpInv, NEW a \in Apps, apc[a] \in HasPort, NEW pc \in OnPort,
           NEW p \in PortT, NEW g \in BOOLEAN, NEW u \in Slots, u = MyUp(a),
           apc' = Put(apc, a, pc), ports' = Put(ports, u, p), got' = Put(got, a, g),
           UNCHANGED <<dgtab, upqs, dev, lastport, hasmsg, ipc, dst, iup>>,
           udpmutex' \in Seq(Apps \cup {IPPROC}), Holds(IPPROC) => Holds(IPPROC)',
           granted' \in BOOLEAN, stale' \in BOOLEAN, granted' => ipc = "psend",
           iup # u => stale' = stale /\ granted' = granted,
           PortOK(a, pc, Asked(a), upqs[u], p, g, hasmsg[a], Sending(u)')
    PROVE  UdpInv'
<1>1. /\ upqs' = Put(upqs, u, upqs[u]) /\ hasmsg' = Put(hasmsg, a, hasmsg[a])
      /\ upqs[u] \in UpT /\ hasmsg[a] \in BOOLEAN
  BY Own, Untouched
<1>2. /\ dgtab' \in [Slots -> DevT]
      /\ \A i \in Slots : /\ dgtab'[i].state = dgtab[i].state
                          /\ dgtab'[i].lport = dgtab[i].lport
                          /\ dgtab'[i].upq = dgtab[i].upq
  BY DEF UdpInv, Types
<1>3. UNCHANGED <<dev, lastport, ipc, dst, iup>>
  OBVIOUS
<1> QED  BY <1>1, <1>2, <1>3, OwnStep

LEMMA UdpCloseWait == ASSUME UdpInv, NEW a \in Apps, CloseWait(a) PROVE UdpInv'
<1>1. /\ apc[a] = "idle" /\ apc' = Put(apc, a, "dgclose") /\ Wait(a)
      /\ UNCHANGED <<dgtab, dev, lastport, ipc, dst, iup, granted, stale, upqs, ports, got, hasmsg>>
  BY DEF CloseWait, App, Goto, Put, ipVars, tables
<1>2. apc[a] \in HasPort /\ "dgclose" \in OnPort
  BY <1>1 DEF HasPort, OnPort
<1>3. PICK u \in Slots : u = MyUp(a)
  BY <1>2, Own
<1>4. /\ PortOK(a, apc[a], Asked(a), upqs[u], ports[u], got[a], hasmsg[a], Sending(u))
      /\ ports' = Put(ports, u, ports[u]) /\ got' = Put(got, a, got[a])
      /\ got[a] \in BOOLEAN /\ ports[u] \in PortT
  BY <1>1, <1>2, <1>3, Own, Untouched
<1>5. /\ granted' \in BOOLEAN /\ stale' \in BOOLEAN /\ (granted' => ipc = "psend")
      /\ (iup # u => stale' = stale /\ granted' = granted)
  BY <1>1 DEF UdpInv, Types, Sender
<1>6. udpmutex' \in Seq(Apps \cup {IPPROC}) /\ (Holds(IPPROC) => Holds(IPPROC)')
  BY <1>1, Appends
<1>7. Sending(u)' = Sending(u)
  BY <1>1 DEF Sending
<1>8. PortOK(a, "dgclose", Asked(a), upqs[u], ports[u], got[a], hasmsg[a], Sending(u)')
  BY <1>1, <1>4, <1>7 DEF PortOK, Limbo
<1>9. UNCHANGED <<dgtab, upqs, dev, lastport, hasmsg, ipc, dst, iup>>
  BY <1>1
<1> QED  BY <1>1, <1>2, <1>3, <1>4, <1>5, <1>6, <1>8, <1>9, OwnSender

\* The port after Clear, ClearDone and Take.
LEMMA PutFields ==
    ASSUME NEW r \in PortT
    PROVE  /\ r.msgs \in Seq(Nat) /\ r.ssem \in Int
           /\ LET p == [r EXCEPT !.state = "ALLOC", !.rsem = 0]
              IN  p \in PortT /\ p.state = "ALLOC" /\ p.rsem = 0 /\ p.msgs = r.msgs /\ p.ssem = r.ssem
           /\ LET p == [r EXCEPT !.state = "LIMBO", !.msgs = <<>>]
              IN  /\ p \in PortT /\ p.state = "LIMBO" /\ p.msgs = <<>> /\ p.rsem = r.rsem
                  /\ p.ssem = r.ssem
           /\ LET p == [r EXCEPT !.msgs = Tail(@), !.ssem = @ + 1]
              IN  /\ p.state = r.state /\ p.msgs = Tail(r.msgs) /\ p.rsem = r.rsem
                  /\ p.ssem = r.ssem + 1 /\ (Tail(r.msgs) \in Seq(Nat) => p \in PortT)
<1>1. r.msgs \in Seq(Nat) /\ r.ssem \in Int
  BY DEF PortT
<1>2. LET p == [r EXCEPT !.state = "ALLOC", !.rsem = 0]
      IN  p \in PortT /\ p.state = "ALLOC" /\ p.rsem = 0 /\ p.msgs = r.msgs /\ p.ssem = r.ssem
  <2> DEFINE q == [r EXCEPT !.state = "ALLOC"]
             p == [r EXCEPT !.state = "ALLOC", !.rsem = 0]
  <2>1. q \in PortT
    BY DEF PortT
  <2>2. p = [q EXCEPT !.rsem = 0]
    BY DEF PortT
  <2>3. p.state = "ALLOC" /\ p.rsem = 0 /\ p.msgs = r.msgs /\ p.ssem = r.ssem
    BY DEF PortT
  <2> HIDE DEF q
  <2>4. [q EXCEPT !.rsem = 0] \in PortT
    BY <2>1 DEF PortT
  <2> QED  BY <2>2, <2>3, <2>4
<1>3. LET p == [r EXCEPT !.state = "LIMBO", !.msgs = <<>>]
      IN  /\ p \in PortT /\ p.state = "LIMBO" /\ p.msgs = <<>> /\ p.rsem = r.rsem
          /\ p.ssem = r.ssem
  <2> DEFINE q == [r EXCEPT !.state = "LIMBO"]
             p == [r EXCEPT !.state = "LIMBO", !.msgs = <<>>]
  <2>1. q \in PortT
    BY DEF PortT
  <2>2. p = [q EXCEPT !.msgs = <<>>]
    BY DEF PortT
  <2>3. p.state = "LIMBO" /\ p.msgs = <<>> /\ p.rsem = r.rsem /\ p.ssem = r.ssem
    BY DEF PortT
  <2> HIDE DEF q
  <2>4. [q EXCEPT !.msgs = <<>>] \in PortT
    <3> DEFINE z == <<>>
    <3>1. z \in Seq(Nat)
      OBVIOUS
    <3> HIDE DEF z
    <3>2. [q EXCEPT !.msgs = z] \in PortT
      BY <2>1, <3>1 DEF PortT
    <3> QED  BY <3>2 DEF z
  <2> QED  BY <2>2, <2>3, <2>4
<1>4. LET p == [r EXCEPT !.msgs = Tail(@), !.ssem = @ + 1]
      IN  /\ p.state = r.state /\ p.msgs = Tail(r.msgs) /\ p.rsem = r.rsem
          /\ p.ssem = r.ssem + 1 /\ (Tail(r.msgs) \in Seq(Nat) => p \in PortT)
  <2> DEFINE q == [r EXCEPT !.msgs = Tail(@)]
             p == [r EXCEPT !.msgs = Tail(@), !.ssem = @ + 1]
  <2>1. Tail(r.msgs) \in Seq(Nat) => q \in PortT
    BY DEF PortT
  <2>2. p = [q EXCEPT !.ssem = @ + 1]
    BY DEF PortT
  <2>3. p.state = r.state /\ p.msgs = Tail(r.msgs) /\ p.rsem = r.rsem /\ p.ssem = r.ssem + 1
    BY DEF PortT
  <2> HIDE DEF q
  <2>4. q \in PortT => [q EXCEPT !.ssem = @ + 1] \in PortT
    BY SMTT(40) DEF PortT
  <2> QED  BY <2>1, <2>2, <2>3, <2>4
<1> QED  BY <1>1, <1>2, <1>3, <1>4

LEMMA UdpClearDone == ASSUME UdpInv, NEW a \in Apps, ClearDone(a) PROVE UdpInv'
<1> DEFINE u == MyUp(a)
           p == [ports[u] EXCEPT !.state = "ALLOC", !.rsem = 0]
<1>1. apc[a] = "sreset" /\ apc[a] \in HasPort /\ "idle" \in OnPort
  BY DEF HasPort, OnPort, ClearDone, App
<1>2. /\ u \in Slots /\ upqs[u] \in UpT /\ ports[u] \in PortT /\ got[a] \in BOOLEAN /\ hasmsg[a] \in BOOLEAN
      /\ PortOK(a, apc[a], Asked(a), upqs[u], ports[u], got[a], hasmsg[a], Sending(u))
  BY <1>1, Own
<1>3. /\ p \in PortT /\ p.state = "ALLOC" /\ p.rsem = 0 /\ p.msgs = ports[u].msgs /\ p.ssem = ports[u].ssem
  BY <1>2, PutFields, ZenonT(40)
<1>4. /\ apc' = Put(apc, a, "idle") /\ ports' = Put(ports, u, p)
      /\ UNCHANGED <<dgtab, dev, lastport, ipVars, udpmutex, upqs, got, hasmsg>>
  BY DEF ClearDone, Goto, Put, tables
<1>5. PortOK(a, "idle", Asked(a), upqs[u], p, got[a], hasmsg[a], Sending(u))
  <2>1. ports[u].msgs = <<>> /\ Len(<<>>) = 0
    BY <1>1, <1>2 DEF PortOK, Limbo
  <2> HIDE DEF u, p
  <2> QED  BY <1>1, <1>2, <1>3, <2>1 DEF PortOK, Limbo
<1>6. /\ upqs' = Put(upqs, u, upqs[u]) /\ got' = Put(got, a, got[a])
      /\ hasmsg' = Put(hasmsg, a, hasmsg[a])
  BY <1>1, <1>4, Untouched
<1> HIDE DEF p
<1> QED  BY <1>1, <1>2, <1>3, <1>4, <1>5, <1>6, OwnQuiet

LEMMA UdpClear == ASSUME UdpInv, NEW a \in Apps, Clear(a) PROVE UdpInv'
<1>1. apc[a] = "idle" /\ apc[a] \in HasPort /\ "preset" \in OnPort
  BY DEF HasPort, OnPort, Clear, App
<1>2. PICK u \in Slots : u = MyUp(a)
  BY <1>1, Own
<1> DEFINE p == [ports[u] EXCEPT !.state = "LIMBO", !.msgs = <<>>]
<1>3. /\ ports[u] \in PortT /\ got[a] \in BOOLEAN
      /\ PortOK(a, "idle", Asked(a), upqs[u], ports[u], got[a], hasmsg[a], Sending(u))
  BY <1>1, <1>2, Own
<1>4. /\ p \in PortT /\ p.state = "LIMBO" /\ p.msgs = <<>> /\ p.rsem = ports[u].rsem
      /\ p.ssem = ports[u].ssem /\ ports[u].msgs \in Seq(Nat)
  BY <1>3, PutFields, ZenonT(40)
<1>5. /\ apc' = Put(apc, a, "preset") /\ ports' = Put(ports, u, p)
      /\ stale' = (stale \/ (ipc = "psend" /\ iup = u)) /\ granted' = granted
      /\ UNCHANGED <<dgtab, upqs, dev, lastport, hasmsg, ipc, dst, iup, udpmutex, got>>
  BY <1>2 DEF Clear, Goto, Put, tables
<1>6. Sending(u)' = IF Sending(u) \in {"psend", "granted"} THEN "stale" ELSE Sending(u)
  BY <1>5 DEF Sending, Active, UdpInv, Types
<1>7. PortOK(a, "preset", Asked(a), upqs[u], p, got[a], hasmsg[a], Sending(u)')
  <2>1. /\ Len(ports[u].msgs) \in Nat /\ Len(p.msgs) = 0 /\ DOMAIN p.msgs = {}
        /\ UPPLEN \in Nat
    BY <1>4, Numbers
  <2>2. ports[u].rsem \in 0..UPPLEN /\ ports[u].ssem \in -1..UPPLEN
    BY <1>3, <2>1 DEF PortOK, Limbo
  <2>3. Sending(u)' \notin {"psend", "granted"} /\ (Sending(u)' = "told" => Sending(u) = "told")
    BY <1>6
  <2>4. upqs[u].valid /\ upqs[u].port = Asked(a) /\ (Sending(u) = "told" => upqs[u].pid # BADPID)
    BY <1>3 DEF PortOK
  <2> HIDE DEF p
  <2> QED  BY <1>4, <2>1, <2>2, <2>3, <2>4 DEF PortOK, Limbo
<1>8. /\ udpmutex' \in Seq(Apps \cup {IPPROC}) /\ (Holds(IPPROC) => Holds(IPPROC)')
      /\ granted' \in BOOLEAN /\ stale' \in BOOLEAN /\ (granted' => ipc = "psend")
      /\ (iup # u => stale' = stale /\ granted' = granted)
  BY <1>5 DEF UdpInv, Types, Sender, Holds
<1>9. got' = Put(got, a, got[a]) /\ UNCHANGED <<dgtab, upqs, dev, lastport, hasmsg, ipc, dst, iup>>
  BY <1>1, <1>5, Untouched
<1> HIDE DEF p
<1> QED  BY <1>1, <1>2, <1>3, <1>4, <1>5, <1>7, <1>8, <1>9, OwnSender

LEMMA UdpClearSender == ASSUME UdpInv, NEW a \in Apps, ClearSender(a) PROVE UdpInv'
<1>1. apc[a] = "preset" /\ apc[a] \in HasPort /\ "sreset" \in OnPort
  BY DEF HasPort, OnPort, ClearSender, App
<1>2. PICK u \in Slots : u = MyUp(a)
  BY <1>1, Own
<1> DEFINE p == [ports[u] EXCEPT !.ssem = UPPLEN]
<1>3. /\ ports[u] \in PortT /\ got[a] \in BOOLEAN
      /\ PortOK(a, "preset", Asked(a), upqs[u], ports[u], got[a], hasmsg[a], Sending(u))
  BY <1>1, <1>2, Own
<1>4. /\ p \in PortT /\ p.state = ports[u].state /\ p.msgs = ports[u].msgs /\ p.rsem = ports[u].rsem
      /\ p.ssem = UPPLEN
  BY <1>3, Numbers DEF PortT
<1>5. /\ apc' = Put(apc, a, "sreset") /\ ports' = Put(ports, u, p)
      /\ granted' = (granted \/ (ipc = "psend" /\ iup = u)) /\ stale' = stale
      /\ UNCHANGED <<dgtab, upqs, dev, lastport, hasmsg, ipc, dst, iup, udpmutex, got>>
  BY <1>2 DEF ClearSender, Goto, Put, tables
<1>6. Sending(u) \notin {"psend", "granted"}
  BY <1>3 DEF PortOK, Limbo
<1>7. Sending(u)' = Sending(u)
  BY <1>5, <1>6 DEF Sending, Active, UdpInv, Types
<1>8. PortOK(a, "sreset", Asked(a), upqs[u], p, got[a], hasmsg[a], Sending(u)')
  <2>1. ports[u].msgs = <<>> /\ Len(<<>>) = 0 /\ UPPLEN \in Nat
    BY <1>3, Numbers DEF PortOK, Limbo
  <2> HIDE DEF p
  <2> QED  BY <1>3, <1>4, <1>6, <1>7, <2>1 DEF PortOK, Limbo
<1>9. /\ udpmutex' \in Seq(Apps \cup {IPPROC}) /\ (Holds(IPPROC) => Holds(IPPROC)')
      /\ granted' \in BOOLEAN /\ stale' \in BOOLEAN /\ (granted' => ipc = "psend")
      /\ (iup # u => stale' = stale /\ granted' = granted)
  BY <1>5 DEF UdpInv, Types, Sender, Holds
<1>10. got' = Put(got, a, got[a]) /\ UNCHANGED <<dgtab, upqs, dev, lastport, hasmsg, ipc, dst, iup>>
  BY <1>1, <1>5, Untouched
<1> HIDE DEF p
<1> QED  BY <1>1, <1>2, <1>3, <1>4, <1>5, <1>8, <1>9, <1>10, OwnSender

\* preceive() takes the first datagram: it was granted one, so there is one,
\* and a sender that waited is granted its node.
LEMMA TakeFacts ==
    ASSUME UdpInv, NEW a \in Apps, Take(a)
    PROVE  /\ apc[a] = "preceive" /\ apc[a] \in HasPort /\ MyUp(a) \in Slots
           /\ ports[MyUp(a)].msgs \in Seq(Nat) /\ Len(ports[MyUp(a)].msgs) > 0
<1>1. apc[a] = "preceive" /\ apc[a] \in HasPort /\ got[a]
  BY DEF HasPort, OnPort, Take, App
<1>2. /\ MyUp(a) \in Slots /\ ports[MyUp(a)] \in PortT
      /\ PortOK(a, "preceive", Asked(a), upqs[MyUp(a)], ports[MyUp(a)], got[a], hasmsg[a],
                Sending(MyUp(a)))
  BY <1>1, Own
<1> QED  BY <1>1, <1>2 DEF PortOK, PortT

LEMMA UdpTake == ASSUME UdpInv, NEW a \in Apps, Take(a) PROVE UdpInv'
<1>1. apc[a] = "preceive" /\ apc[a] \in HasPort /\ "copy" \in OnPort /\ FALSE \in BOOLEAN
  BY TakeFacts DEF OnPort
<1>2. PICK u \in Slots : u = MyUp(a)
  BY <1>1, Own
<1> DEFINE p == [ports[u] EXCEPT !.msgs = Tail(@), !.ssem = @ + 1]
           d == ports[u].msgs
<1>3. /\ ports[u] \in PortT
      /\ PortOK(a, "preceive", Asked(a), upqs[u], ports[u], got[a], hasmsg[a], Sending(u))
  BY <1>1, <1>2, Own
<1>4. /\ d \in Seq(Nat) /\ Len(d) > 0 /\ Len(d) \in Nat /\ Tail(d) \in Seq(Nat)
      /\ Len(Tail(d)) = Len(d) - 1 /\ \A j \in DOMAIN Tail(d) : j + 1 \in DOMAIN d /\ Tail(d)[j] = d[j + 1]
  BY <1>2, TakeFacts
<1>5. /\ p \in PortT /\ p.state = ports[u].state /\ p.msgs = Tail(d) /\ p.rsem = ports[u].rsem
      /\ p.ssem = ports[u].ssem + 1 /\ ports[u].ssem \in Int
  <2>1. Tail(ports[u].msgs) \in Seq(Nat)
    BY <1>4
  <2> QED  BY <1>3, <2>1, PutFields, ZenonT(40)
<1>6. /\ apc' = Put(apc, a, "copy") /\ ports' = Put(ports, u, p) /\ got' = Put(got, a, FALSE)
      /\ granted' = (granted \/ ports[u].ssem < 0) /\ stale' = stale
      /\ UNCHANGED <<dgtab, upqs, dev, lastport, hasmsg, ipc, dst, iup, udpmutex>>
  BY <1>2 DEF Take, Goto, Put, tables
<1>7. /\ upqs[u].valid /\ upqs[u].port = Asked(a) /\ ports[u].state = "ALLOC"
      /\ ports[u].rsem = Len(d) - 1 /\ (Sending(u) = "told" => upqs[u].pid # BADPID)
      /\ Len(d) <= UPPLEN /\ (Sending(u) = "granted" => Len(d) < UPPLEN)
      /\ ports[u].ssem = UPPLEN - Len(d) - (IF Sending(u) \in {"psend", "granted"} THEN 1 ELSE 0)
      /\ \A j \in DOMAIN d : d[j] = Asked(a)
  BY <1>3 DEF PortOK, Limbo
<1> HIDE DEF p, d
<1>8. ports[u].ssem < 0 => Sending(u) \in {"psend", "granted"}
  BY <1>4, <1>7, Numbers
<1>9. Sending(u) \in {"psend", "granted"} => ipc = "psend" /\ iup = u /\ ~stale
  BY DEF Sending, Active
<1>10. Sending(u)' = IF Sending(u) \in {"psend", "granted"}
                     THEN (IF granted' THEN "granted" ELSE "psend") ELSE Sending(u)
  BY <1>6, <1>8, <1>9 DEF Sending, Active, UdpInv, Types
<1>11. PortOK(a, "copy", Asked(a), upqs[u], p, FALSE, hasmsg[a], Sending(u)')
  <2>1. \A j \in DOMAIN p.msgs : p.msgs[j] = Asked(a)
    BY <1>4, <1>5, <1>7
  <2>2. UPPLEN \in Nat /\ Len(p.msgs) = Len(d) - 1
    BY <1>4, <1>5, Numbers
  <2>3. (Sending(u)' \in {"psend", "granted"}) <=> (Sending(u) \in {"psend", "granted"})
    BY <1>10
  <2>4. p.ssem = UPPLEN - Len(p.msgs) - (IF Sending(u)' \in {"psend", "granted"} THEN 1 ELSE 0)
    <3>1. Len(d) \in Nat /\ ports[u].ssem \in Int /\ p.ssem = ports[u].ssem + 1
      BY <1>4, <1>5
    <3>2. CASE Sending(u) \in {"psend", "granted"}
      <4>1. ports[u].ssem = UPPLEN - Len(d) - 1
        BY <1>7, <3>2
      <4> QED  BY <2>2, <2>3, <3>1, <3>2, <4>1
    <3>3. CASE Sending(u) \notin {"psend", "granted"}
      <4>1. ports[u].ssem = UPPLEN - Len(d) - 0
        BY <1>7, <3>3
      <4> QED  BY <2>2, <2>3, <3>1, <3>3, <4>1
    <3> QED  BY <3>2, <3>3
  <2>5. Len(p.msgs) <= UPPLEN /\ (Sending(u)' = "granted" => Len(p.msgs) < UPPLEN)
    <3>1. Len(d) <= UPPLEN /\ Len(d) \in Nat
      BY <1>4, <1>7
    <3> QED  BY <2>2, <3>1
  <2>6. Sending(u)' = "told" => upqs[u].pid # BADPID
    BY <1>7, <1>10
  <2>7. p.rsem = Len(p.msgs) /\ p.state = "ALLOC"
    BY <1>4, <1>5, <1>7, <2>2
  <2> QED  BY <1>7, <2>1, <2>2, <2>4, <2>5, <2>6, <2>7 DEF PortOK, Limbo
<1>12. /\ udpmutex' \in Seq(Apps \cup {IPPROC}) /\ (Holds(IPPROC) => Holds(IPPROC)')
       /\ granted' \in BOOLEAN /\ stale' \in BOOLEAN /\ (granted' => ipc = "psend")
       /\ (iup # u => stale' = stale /\ granted' = granted)
  BY <1>6, <1>8, <1>9 DEF UdpInv, Types, Sender, Holds
<1>13. UNCHANGED <<dgtab, upqs, dev, lastport, hasmsg, ipc, dst, iup>>
  BY <1>6
<1> QED  BY <1>1, <1>2, <1>5, <1>6, <1>11, <1>12, <1>13, OwnSender

-----------------------------------------------------------------------------
\* A process without a port opens or releases its device, or goes on in
\* dgmopen().
Early == {"check", "dnparse", "upalloc"}
LEMMA NoPortStep ==
    ASSUME UdpInv, NEW a \in Apps, apc[a] \notin HasPort, NEW pc \in AppPCs \ HasPort,
           NEW d \in Slots \cup {NOBODY}, apc' = Put(apc, a, pc), dev' = Put(dev, a, d),
           dgtab' \in [Slots -> DevT], pc = "closed" <=> d = NOBODY,
           pc \in Early => dgtab'[d].upq = NOBODY,
           d # NOBODY => dgtab'[d].state = "INUSE" /\ \A b \in Apps \ {a} : dev[b] # d,
           \A i \in Slots : dgtab'[i] = dgtab[i] \/ i = d \/ i = dev[a],
           \A i \in Slots : dgtab'[i].state = "INUSE" => i = d \/ (dgtab[i].state = "INUSE" /\ i # dev[a]),
           udpmutex' \in Seq(Apps \cup {IPPROC}), ipc \in Active => Holds(IPPROC)',
           lastport' \in Ring, UNCHANGED <<upqs, ports, ipVars, got, hasmsg>>
    PROVE  UdpInv'
<1>0. Types /\ Devices /\ Entries /\ Sender /\ UNCHANGED <<ipc, dst, iup, granted, stale>>
  BY DEF UdpInv, ipVars
<1>1. /\ apc' \in [Apps -> AppPCs] /\ apc'[a] = pc /\ \A b \in Apps \ {a} : apc'[b] = apc[b]
      /\ dev' \in [Apps -> Slots \cup {NOBODY}] /\ dev'[a] = d
      /\ \A b \in Apps \ {a} : dev'[b] = dev[b]
  BY <1>0 DEF Types, Put
<1>2. Types'
  BY <1>0, <1>1 DEF Types, DevT, UpT, PortT, Slots, Ring
<1>3. \A b \in Apps : apc[b] \in HasPort \/ apc[b] \in Early => apc[b] # "closed"
  BY DEF HasPort, OnPort, Early
<1>4. \A b \in Apps : apc[b] # "closed" => dev[b] \in Slots
  BY <1>0 DEF Types, Devices
<1>5. ASSUME NEW b \in Apps \ {a}, apc[b] # "closed"
      PROVE  dgtab'[dev[b]] = dgtab[dev[b]] /\ dev[b] # d /\ dev[b] # dev[a]
  <2>1. dev[b] \in Slots /\ dev[b] # NOBODY
    BY <1>4, <1>5, Numbers
  <2>2. dev[b] # dev[a]
    BY <1>0, <2>1 DEF Devices
  <2>3. dev[b] # d
    BY <2>1
  <2> QED  BY <2>1, <2>2, <2>3
<1>6. \A b \in Apps \ {a} : apc[b] # "closed" => MyUp(b)' = MyUp(b) /\ Asked(b)' = Asked(b)
  BY <1>1, <1>5 DEF MyUp, Asked
<1>7. Devices'
  <2>1. \A b \in Apps : apc'[b] = "closed" <=> dev'[b] = NOBODY
    BY <1>0, <1>1 DEF Devices
  <2>2. ASSUME NEW b \in Apps, dev'[b] # NOBODY PROVE dgtab'[dev'[b]].state = "INUSE"
    <3>1. CASE b = a
      BY <1>1, <2>2, <3>1
    <3>2. CASE b # a
      <4>1. dev'[b] = dev[b] /\ dev[b] # NOBODY /\ apc[b] # "closed"
        BY <1>0, <1>1, <2>2, <3>2 DEF Devices
      <4>2. dgtab'[dev[b]] = dgtab[dev[b]]
        BY <1>5, <3>2, <4>1
      <4> QED  BY <1>0, <4>1, <4>2 DEF Devices
    <3> QED  BY <3>1, <3>2
  <2>3. ASSUME NEW b \in Apps, NEW c \in Apps, b # c, dev'[b] # NOBODY PROVE dev'[b] # dev'[c]
    <3>1. CASE b = a
      BY <1>1, <2>3, <3>1
    <3>2. CASE c = a
      BY <1>0, <1>1, <2>3, <3>2 DEF Devices
    <3>3. CASE b # a /\ c # a
      BY <1>0, <1>1, <2>3, <3>3 DEF Devices
    <3> QED  BY <3>1, <3>2, <3>3
  <2>4. ASSUME NEW i \in Slots, dgtab'[i].state = "INUSE" PROVE \E b \in Apps : dev'[b] = i
    <3>1. CASE i = d
      BY <1>1, <3>1
    <3>2. CASE dgtab[i].state = "INUSE" /\ i # dev[a]
      <4>1. PICK b \in Apps : dev[b] = i
        BY <1>0, <3>2 DEF Devices
      <4> QED  BY <1>1, <3>2, <4>1
    <3> QED  BY <2>4, <3>1, <3>2
  <2> QED  BY <2>1, <2>2, <2>3, <2>4 DEF Devices
<1>8. Entries'
  <2>1. \A b \in Apps : apc'[b] \in HasPort => b # a /\ apc[b] \in HasPort /\ MyUp(b)' = MyUp(b)
    BY <1>1, <1>3, <1>6
  <2>2. ASSUME NEW b \in Apps, apc'[b] \in Early PROVE MyUp(b)' = NOBODY
    <3>1. CASE b = a
      BY <1>1, <2>2, <3>1 DEF MyUp
    <3>2. CASE b # a
      <4>1. apc[b] \in Early /\ apc[b] # "closed"
        BY <1>1, <1>3, <2>2, <3>2
      <4> QED  BY <1>0, <1>6, <3>2, <4>1 DEF Entries, Early
    <3> QED  BY <3>1, <3>2
  <2>3. ASSUME NEW v \in Slots, upqs[v].valid
        PROVE  \E b \in Apps : apc'[b] \in HasPort /\ MyUp(b)' = v
    <3>1. PICK b \in Apps : apc[b] \in HasPort /\ MyUp(b) = v
      BY <1>0, <2>3 DEF Entries
    <3>2. b # a /\ apc'[b] \in HasPort /\ MyUp(b)' = MyUp(b)
      BY <1>1, <1>3, <1>6, <3>1
    <3> QED  BY <3>1, <3>2
  <2>4. \A b \in Apps : apc'[b] \in HasPort => MyUp(b)' \in Slots
    BY <1>0, <2>1 DEF Entries
  <2>5. \A b, c \in Apps : b # c /\ apc'[b] \in HasPort /\ apc'[c] \in HasPort => MyUp(b)' # MyUp(c)'
    BY <1>0, <2>1 DEF Entries
  <2>6. \A v \in Slots : ~upqs'[v].valid => upqs'[v].port = 0 /\ ports'[v] = FreePort
    BY <1>0 DEF Entries
  <2> QED  BY <2>2, <2>3, <2>4, <2>5, <2>6 DEF Entries, Early, FreePort
<1>9. Sender'
  BY <1>0 DEF Sender
<1>10. ASSUME NEW b \in Apps PROVE Local(b)'
  <2> SUFFICES ASSUME apc'[b] \in HasPort
               PROVE  PortOK(b, apc'[b], Asked(b)', upqs'[MyUp(b)'], ports'[MyUp(b)'], got'[b],
                             hasmsg'[b], Sending(MyUp(b))')
    BY DEF Local, PortOK
  <2>1. /\ b # a /\ apc[b] \in HasPort /\ apc'[b] = apc[b] /\ MyUp(b)' = MyUp(b)
        /\ Asked(b)' = Asked(b)
    BY <1>1, <1>3, <1>6
  <2>2. Sending(MyUp(b))' = Sending(MyUp(b))
    BY <1>0, <2>1 DEF Sending
  <2>3. PortOK(b, apc[b], Asked(b), upqs[MyUp(b)], ports[MyUp(b)], got[b], hasmsg[b],
               Sending(MyUp(b)))
    BY <2>1, Own
  <2> QED  BY <2>1, <2>2, <2>3
<1> QED  BY <1>2, <1>7, <1>8, <1>9, <1>10 DEF UdpInv

\* A process that has udpmutex gives it up: udp_in() is not in psend().
LEMMA Signals ==
    ASSUME UdpInv, NEW a \in Apps, Holds(a), Signal
    PROVE  udpmutex' \in Seq(Apps \cup {IPPROC}) /\ ipc \notin Active
<1>1. udpmutex \in Seq(Apps \cup {IPPROC}) /\ udpmutex # <<>> /\ udpmutex' = Tail(udpmutex)
  BY DEF UdpInv, Types, Holds, Signal
<1>2. ipc \in Active => Head(udpmutex) = IPPROC
  BY DEF UdpInv, Sender, Holds
<1> QED  BY <1>1, <1>2, Numbers DEF Holds

LEMMA UdpOpen == ASSUME UdpInv, NEW a \in Apps, NEW n \in Asks[a], Open(a, n) PROVE UdpInv'
<1>1. /\ apc[a] = "closed" /\ apc' = Put(apc, a, "check") /\ Wait(a)
      /\ UNCHANGED <<upqs, lastport, ports, ipVars, got, hasmsg>>
  BY DEF Open, App, Goto, Put
<1>2. PICK i \in Slots : /\ dgtab[i].state = "FREE" /\ dev' = Put(dev, a, i)
                         /\ dgtab' = [dgtab EXCEPT ![i] = [FreeDev EXCEPT !.state = "INUSE", !.lport = n]]
  BY DEF Open, FreeDevice, Put
<1> DEFINE r == [FreeDev EXCEPT !.state = "INUSE", !.lport = n]
<1>3. r \in DevT /\ r.upq = NOBODY /\ r.state = "INUSE"
  <2>1. n \in Nat
    BY UdpAssumption
  <2> DEFINE q == [FreeDev EXCEPT !.state = "INUSE"]
  <2>2. q \in DevT /\ q.upq = NOBODY /\ q.state = "INUSE"
    BY DEF DevT, FreeDev
  <2>3. r = [q EXCEPT !.lport = n]
    BY DEF FreeDev
  <2> HIDE DEF q, r
  <2> QED  BY <2>1, <2>2, <2>3 DEF DevT
<1>4. dgtab' = [dgtab EXCEPT ![i] = r]
  BY <1>2
<1> HIDE DEF r
<1>5. dgtab \in [Slots -> DevT] /\ dev \in [Apps -> Slots \cup {NOBODY}] /\ dev[a] = NOBODY
  BY <1>1 DEF UdpInv, Types, Devices
<1>6. dgtab' \in [Slots -> DevT] /\ dgtab'[i] = r /\ \A j \in Slots \ {i} : dgtab'[j] = dgtab[j]
  BY <1>3, <1>4, <1>5
<1>7. \A b \in Apps \ {a} : dev[b] # i
  BY <1>2, Numbers DEF UdpInv, Devices
<1>8. i # NOBODY /\ dev[a] \notin Slots
  BY <1>5, Numbers
<1>9. \A j \in Slots : dgtab'[j] = dgtab[j] \/ j = i \/ j = dev[a]
  BY <1>6
<1>10. \A j \in Slots : dgtab'[j].state = "INUSE" => j = i \/ (dgtab[j].state = "INUSE" /\ j # dev[a])
  BY <1>6, <1>8
<1>11. udpmutex' \in Seq(Apps \cup {IPPROC}) /\ (ipc \in Active => Holds(IPPROC)')
  BY <1>1, Appends DEF UdpInv, Sender
<1>12. /\ apc[a] \notin HasPort /\ "check" \in AppPCs \ HasPort /\ ("check" = "closed" <=> i = NOBODY)
       /\ lastport' \in Ring
  BY <1>1, <1>8 DEF HasPort, OnPort, AppPCs, UdpInv, Types
<1>13. /\ "check" \in Early => dgtab'[i].upq = NOBODY
       /\ i # NOBODY => dgtab'[i].state = "INUSE" /\ \A b \in Apps \ {a} : dev[b] # i
  BY <1>3, <1>6, <1>7
<1>14. UNCHANGED <<upqs, ports, ipVars, got, hasmsg>>
  BY <1>1
<1> QED  BY <1>1, <1>2, <1>6, <1>9, <1>10, <1>11, <1>12, <1>13, <1>14, NoPortStep

\* The device of a process in dgmopen() before upalloc().
LEMMA EarlyDev ==
    ASSUME UdpInv, NEW a \in Apps, apc[a] \in Early \cup {"release"}
    PROVE  /\ dev[a] \in Slots /\ dev[a] # NOBODY /\ dgtab[dev[a]] \in DevT
           /\ dgtab[dev[a]].state = "INUSE" /\ apc[a] \notin HasPort
           /\ apc[a] \in Early => dgtab[dev[a]].upq = NOBODY
           /\ \A b \in Apps \ {a} : dev[b] # dev[a]
           /\ dgtab \in [Slots -> DevT] /\ dev \in [Apps -> Slots \cup {NOBODY}]
<1>1. apc[a] # "closed" /\ apc[a] \notin HasPort
  BY DEF Early, HasPort, OnPort
<1>2. dev[a] \in Slots /\ dev[a] # NOBODY
  BY <1>1 DEF UdpInv, Types, Devices
<1>3. apc[a] \in Early => dgtab[dev[a]].upq = NOBODY
  BY DEF UdpInv, Entries, Early, MyUp
<1>4. dgtab[dev[a]].state = "INUSE" /\ \A b \in Apps \ {a} : dev[b] # dev[a]
  BY <1>2 DEF UdpInv, Devices
<1> QED  BY <1>1, <1>2, <1>3, <1>4 DEF UdpInv, Types

\* It keeps the device, whose port number may have been chosen.
LEMMA EarlyStep ==
    ASSUME UdpInv, NEW a \in Apps, apc[a] \in Early, NEW pc \in Early, apc' = Put(apc, a, pc),
           NEW r \in DevT, r.state = "INUSE", r.upq = NOBODY, dgtab' = Put(dgtab, dev[a], r),
           udpmutex' \in Seq(Apps \cup {IPPROC}), ipc \in Active => Holds(IPPROC)',
           lastport' \in Ring, UNCHANGED <<dev, upqs, ports, ipVars, got, hasmsg>>
    PROVE  UdpInv'
<1>1. PICK d \in Slots : d = dev[a]
  BY EarlyDev
<1>2. /\ d # NOBODY /\ apc[a] \notin HasPort /\ dgtab \in [Slots -> DevT]
      /\ \A b \in Apps \ {a} : dev[b] # d
      /\ dev \in [Apps -> Slots \cup {NOBODY}]
  BY <1>1, EarlyDev
<1>3. dev' = Put(dev, a, d)
  BY <1>1, <1>2 DEF Put
<1>4. dgtab' \in [Slots -> DevT] /\ dgtab'[d] = r /\ \A j \in Slots \ {d} : dgtab'[j] = dgtab[j]
  BY <1>1, <1>2 DEF Put
<1>5. pc \in AppPCs \ HasPort /\ (pc = "closed" <=> d = NOBODY)
  BY <1>2 DEF Early, AppPCs, HasPort, OnPort
<1>6. \A i \in Slots : dgtab'[i] = dgtab[i] \/ i = d \/ i = dev[a]
  BY <1>4
<1>7. \A i \in Slots : dgtab'[i].state = "INUSE" => i = d \/ (dgtab[i].state = "INUSE" /\ i # dev[a])
  BY <1>1, <1>4
<1>8. /\ pc \in Early => dgtab'[d].upq = NOBODY
      /\ d # NOBODY => dgtab'[d].state = "INUSE" /\ \A b \in Apps \ {a} : dev[b] # d
  BY <1>2, <1>4
<1>9. UNCHANGED <<upqs, ports, ipVars, got, hasmsg>>
  OBVIOUS
<1>10. /\ pc \in AppPCs \ HasPort /\ d \in Slots \cup {NOBODY}
       /\ apc[a] \notin HasPort /\ dgtab' \in [Slots -> DevT]
  BY <1>2, <1>4, <1>5
<1> HIDE DEF Early, HasPort, AppPCs
<1>11. pc = "closed" <=> d = NOBODY
  BY <1>5
<1> QED  BY <1>3, <1>6, <1>7, <1>8, <1>9, <1>10, <1>11, NoPortStep, ZenonT(40)

\* It gives the device back.
LEMMA ReleaseStep ==
    ASSUME UdpInv, NEW a \in Apps, apc[a] \in Early \cup {"release"}, apc' = Put(apc, a, "closed"),
           Release(a), udpmutex' \in Seq(Apps \cup {IPPROC}), ipc \in Active => Holds(IPPROC)',
           UNCHANGED <<lastport, upqs, ports, ipVars, got, hasmsg>>
    PROVE  UdpInv'
<1>1. dev' = Put(dev, a, NOBODY) /\ dgtab' = [dgtab EXCEPT ![dev[a]] = FreeDev]
  BY DEF Release, Put
<1>2. /\ dev[a] \in Slots /\ apc[a] \notin HasPort /\ dgtab \in [Slots -> DevT]
      /\ lastport' \in Ring
  BY EarlyDev DEF UdpInv, Types
<1>3. FreeDev \in DevT /\ FreeDev.state = "FREE"
  BY DEF FreeDev, DevT
<1>4. /\ dgtab' \in [Slots -> DevT] /\ dgtab'[dev[a]] = FreeDev
      /\ \A j \in Slots \ {dev[a]} : dgtab'[j] = dgtab[j]
  BY <1>1, <1>2, <1>3
<1>5. "closed" \in AppPCs \ HasPort /\ NOBODY \in Slots \cup {NOBODY} /\ "closed" \notin Early
  BY DEF AppPCs, HasPort, OnPort, Early
<1>6. \A i \in Slots : dgtab'[i] = dgtab[i] \/ i = NOBODY \/ i = dev[a]
  BY <1>4
<1>7. \A i \in Slots : dgtab'[i].state = "INUSE" => i = NOBODY \/ (dgtab[i].state = "INUSE" /\ i # dev[a])
  BY <1>3, <1>4
<1>8. /\ "closed" = "closed" <=> NOBODY = NOBODY
      /\ "closed" \in Early => dgtab'[NOBODY].upq = NOBODY
      /\ NOBODY # NOBODY => dgtab'[NOBODY].state = "INUSE" /\ \A b \in Apps \ {a} : dev[b] # NOBODY
  BY <1>5
<1>9. UNCHANGED <<upqs, ports, ipVars, got, hasmsg>>
  OBVIOUS
<1> QED  BY <1>1, <1>2, <1>4, <1>5, <1>6, <1>7, <1>8, <1>9, NoPortStep

LEMMA UdpCheck == ASSUME UdpInv, NEW a \in Apps, Check(a) PROVE UdpInv'
<1>1. /\ apc[a] \in Early /\ "dnparse" \in Early /\ Holds(a) /\ Signal
      /\ apc' = Put(apc, a, "dnparse") /\ UNCHANGED <<dev, upqs, ports, ipVars, got, hasmsg>>
  BY DEF Check, App, Goto, Put, Early
<1>2. udpmutex' \in Seq(Apps \cup {IPPROC}) /\ (ipc \in Active => Holds(IPPROC)')
  BY <1>1, Signals
<1> DEFINE r == dgtab[dev[a]]
<1>3. /\ dev[a] \in Slots /\ r \in DevT /\ r.state = "INUSE" /\ r.upq = NOBODY
      /\ dgtab \in [Slots -> DevT] /\ lastport \in Ring
  BY <1>1, EarlyDev DEF UdpInv, Types
<1>4. CASE UNCHANGED <<dgtab, lastport>>
  <2>1. dgtab' = Put(dgtab, dev[a], r) /\ lastport' \in Ring
    BY <1>3, <1>4 DEF Put
  <2> HIDE DEF r
  <2> QED  BY <1>1, <1>2, <1>3, <2>1, EarlyStep
<1>5. CASE ~UNCHANGED <<dgtab, lastport>>
  <2>1. PICK n \in Ring : lastport' = n /\ dgtab' = [dgtab EXCEPT ![dev[a]].lport = n]
    BY <1>5 DEF Check
  <2> DEFINE t == [r EXCEPT !.lport = n]
  <2>2. n \in Nat
    BY UdpAssumption DEF Ring, ULPORT
  <2>3. t \in DevT /\ t.state = "INUSE" /\ t.upq = NOBODY
    BY <1>3, <2>2 DEF DevT
  <2>4. dgtab' = Put(dgtab, dev[a], t) /\ lastport' \in Ring
    BY <1>3, <2>1 DEF Put
  <2> HIDE DEF t, r
  <2> QED  BY <1>1, <1>2, <2>3, <2>4, EarlyStep
<1> QED  BY <1>4, <1>5

LEMMA UdpParse == ASSUME UdpInv, NEW a \in Apps, Parse(a) PROVE UdpInv'
<1>1. /\ apc[a] \in Early /\ "upalloc" \in Early /\ Wait(a) /\ apc' = Put(apc, a, "upalloc")
      /\ UNCHANGED <<dev, upqs, ports, ipVars, got, hasmsg, dgtab, lastport>>
  BY DEF Parse, App, Goto, Put, Early, tables
<1>2. udpmutex' \in Seq(Apps \cup {IPPROC}) /\ (ipc \in Active => Holds(IPPROC)')
  BY <1>1, Appends DEF UdpInv, Sender
<1> DEFINE r == dgtab[dev[a]]
<1>3. /\ dev[a] \in Slots /\ r \in DevT /\ r.state = "INUSE" /\ r.upq = NOBODY
      /\ dgtab \in [Slots -> DevT] /\ lastport' \in Ring
  BY <1>1, EarlyDev DEF UdpInv, Types
<1>4. dgtab' = Put(dgtab, dev[a], r)
  BY <1>1, <1>3 DEF Put
<1>5. UNCHANGED <<dev, upqs, ports, ipVars, got, hasmsg>>
  BY <1>1
<1> HIDE DEF r
<1> QED  BY <1>1, <1>2, <1>3, <1>4, <1>5, EarlyStep

LEMMA UdpReleases ==
    ASSUME UdpInv, NEW a \in Apps, CheckFails(a) \/ ParseFails(a) \/ CloseDone(a) PROVE UdpInv'
<1>1. /\ apc[a] \in Early \cup {"release"} /\ apc' = Put(apc, a, "closed") /\ Release(a)
      /\ UNCHANGED <<lastport, upqs, ports, ipVars, got, hasmsg>>
  BY DEF CheckFails, ParseFails, CloseDone, App, Goto, Put, Early
<1>2. (Holds(a) /\ Signal) \/ udpmutex' = udpmutex
  BY DEF CheckFails, ParseFails, CloseDone
<1>3. udpmutex' \in Seq(Apps \cup {IPPROC}) /\ (ipc \in Active => Holds(IPPROC)')
  BY <1>2, Signals DEF UdpInv, Types, Sender, Holds
<1> QED  BY <1>1, <1>3, ReleaseStep


\* A process that has udpmutex takes entry u and its port, or gives them up,
\* and signals: udp_in() was at neither.
LEMMA EntryStep ==
    ASSUME UdpInv, NEW a \in Apps, Holds(a), Signal, apc[a] # "closed",
           NEW pc \in {"bind", "release"}, apc' = Put(apc, a, pc),
           NEW u \in Slots, NEW e \in UpT, NEW p \in PortT, NEW t \in DevT,
           upqs' = Put(upqs, u, e), ports' = Put(ports, u, p), dgtab' = Put(dgtab, dev[a], t),
           UNCHANGED <<dev, lastport, ipVars, got, hasmsg>>,
           t.state = "INUSE",
           \A b \in Apps \ {a} : apc[b] \in HasPort => MyUp(b) # u,
           apc[a] \in HasPort => MyUp(a) = u,
           pc = "bind" => t.upq = u /\ PortOK(a, pc, t.lport, e, p, got[a], hasmsg[a], "no"),
           pc = "release" => e = FreeUp /\ p = FreePort
    PROVE  UdpInv'
<1>0. Types /\ Devices /\ Entries /\ Sender /\ UNCHANGED <<ipc, dst, iup, granted, stale>>
  BY DEF UdpInv, ipVars
<1>1. udpmutex' \in Seq(Apps \cup {IPPROC}) /\ ipc \notin Active
  BY Signals
<1>2. dev[a] \in Slots /\ dev[a] # NOBODY
  BY <1>0, Numbers DEF Types, Devices
<1>3. /\ apc' \in [Apps -> AppPCs] /\ apc'[a] = pc /\ \A b \in Apps \ {a} : apc'[b] = apc[b]
      /\ upqs' \in [Slots -> UpT] /\ upqs'[u] = e /\ \A v \in Slots \ {u} : upqs'[v] = upqs[v]
      /\ ports' \in [Slots -> PortT] /\ ports'[u] = p /\ \A v \in Slots \ {u} : ports'[v] = ports[v]
      /\ dgtab' \in [Slots -> DevT] /\ dgtab'[dev[a]] = t
      /\ \A i \in Slots \ {dev[a]} : dgtab'[i] = dgtab[i]
  <2>1. pc \in AppPCs
    BY DEF AppPCs
  <2> QED  BY <1>0, <1>2, <2>1 DEF Types, Put
<1>4. Types'
  BY <1>0, <1>1, <1>3 DEF Types, DevT, UpT, PortT, Slots, Ring
<1>5. ASSUME NEW b \in Apps \ {a}, apc[b] # "closed"
      PROVE  MyUp(b)' = MyUp(b) /\ Asked(b)' = Asked(b)
  <2>1. dev[b] \in Slots \ {dev[a]}
    BY <1>0, <1>2, <1>5 DEF Types, Devices
  <2> QED  BY <1>3, <2>1 DEF MyUp, Asked
<1>6. Devices'
  <2>1. \A b \in Apps : apc'[b] = "closed" <=> dev'[b] = NOBODY
    BY <1>0, <1>3 DEF Devices
  <2>2. \A b \in Apps : dev'[b] # NOBODY => dgtab'[dev'[b]].state = "INUSE"
    BY <1>0, <1>3 DEF Devices, Types
  <2>3. \A b, c \in Apps : b # c /\ dev'[b] # NOBODY => dev'[b] # dev'[c]
    BY <1>0 DEF Devices
  <2>4. \A i \in Slots : dgtab'[i].state = "INUSE" => \E b \in Apps : dev'[b] = i
    BY <1>0, <1>3 DEF Devices
  <2> QED  BY <2>1, <2>2, <2>3, <2>4 DEF Devices
<1>7. \A b \in Apps : apc[b] \in HasPort \/ apc[b] \in Early => apc[b] # "closed"
  BY DEF HasPort, OnPort, Early
<1>8. "bind" \in HasPort /\ "release" \notin HasPort /\ pc \notin Early
  BY DEF HasPort, OnPort, Early
<1>9. \A b \in Apps \ {a} : apc'[b] \in HasPort \/ apc'[b] \in Early =>
        /\ apc'[b] = apc[b] /\ MyUp(b)' = MyUp(b) /\ Asked(b)' = Asked(b)
  BY <1>3, <1>5, <1>7
<1>10. apc'[a] \in HasPort => pc = "bind" /\ MyUp(a)' = u /\ Asked(a)' = t.lport
  BY <1>3, <1>8 DEF MyUp, Asked
<1>11. \A b \in Apps \ {a} : apc'[b] \in HasPort => MyUp(b)' # u /\ MyUp(b)' \in Slots
  BY <1>0, <1>9 DEF Entries
<1>12. Entries'
  <2>1. \A b \in Apps : apc'[b] \in HasPort => MyUp(b)' \in Slots
    BY <1>10, <1>11
  <2>2. ASSUME NEW b \in Apps, apc'[b] \in Early PROVE MyUp(b)' = NOBODY
    <3>1. b # a /\ apc[b] \in Early
      BY <1>3, <1>8, <2>2
    <3> QED  BY <1>0, <1>9, <2>2, <3>1 DEF Entries, Early
  <2>3. ASSUME NEW b \in Apps, NEW c \in Apps, b # c, apc'[b] \in HasPort, apc'[c] \in HasPort
        PROVE  MyUp(b)' # MyUp(c)'
    <3>1. CASE b = a
      BY <1>10, <1>11, <2>3, <3>1
    <3>2. CASE c = a
      BY <1>10, <1>11, <2>3, <3>2
    <3>3. CASE b # a /\ c # a
      BY <1>0, <1>9, <2>3, <3>3 DEF Entries
    <3> QED  BY <3>1, <3>2, <3>3
  <2>4. ASSUME NEW v \in Slots, upqs'[v].valid
        PROVE  \E b \in Apps : apc'[b] \in HasPort /\ MyUp(b)' = v
    <3>1. CASE v = u
      <4>1. e.valid
        BY <1>3, <2>4, <3>1
      <4>2. pc = "bind"
        BY <4>1 DEF FreeUp
      <4> QED  BY <1>3, <1>8, <1>10, <3>1, <4>2
    <3>2. CASE v # u
      <4>1. PICK b \in Apps : apc[b] \in HasPort /\ MyUp(b) = v
        BY <1>0, <1>3, <2>4, <3>2 DEF Entries
      <4>2. b # a /\ apc'[b] = apc[b]
        BY <1>3, <3>2, <4>1
      <4> QED  BY <1>9, <4>1, <4>2
    <3> QED  BY <3>1, <3>2
  <2>5. ASSUME NEW v \in Slots, ~upqs'[v].valid
        PROVE  upqs'[v].port = 0 /\ ports'[v] = FreePort
    <3>1. CASE v = u
      <4>1. ~e.valid
        BY <1>3, <2>5, <3>1
      <4>2. pc = "release"
        BY <4>1 DEF PortOK
      <4> QED  BY <1>3, <3>1, <4>2 DEF FreeUp
    <3>2. CASE v # u
      BY <1>0, <1>3, <2>5, <3>2 DEF Entries
    <3> QED  BY <3>1, <3>2
  <2> QED  BY <2>1, <2>2, <2>3, <2>4, <2>5 DEF Entries, Early, FreePort
<1>13. Sender'
  BY <1>0, <1>1 DEF Sender, Active
<1>14. ASSUME NEW b \in Apps PROVE Local(b)'
  <2> SUFFICES ASSUME apc'[b] \in HasPort
               PROVE  PortOK(b, apc'[b], Asked(b)', upqs'[MyUp(b)'], ports'[MyUp(b)'], got'[b],
                             hasmsg'[b], Sending(MyUp(b))')
    BY DEF Local, PortOK
  <2>1. Sending(MyUp(b))' = "no"
    BY <1>0, <1>1 DEF Sending
  <2>2. CASE b = a
    BY <1>3, <1>10, <2>1, <2>2
  <2>3. CASE b # a
    <3>1. /\ apc'[b] = apc[b] /\ MyUp(b)' = MyUp(b) /\ Asked(b)' = Asked(b)
          /\ MyUp(b) \in Slots \ {u}
      BY <1>9, <1>11, <2>3
    <3>2. Sending(MyUp(b)) = "no"
      BY <1>1 DEF Sending
    <3>3. PortOK(b, apc[b], Asked(b), upqs[MyUp(b)], ports[MyUp(b)], got[b], hasmsg[b],
                 Sending(MyUp(b)))
      BY <3>1, Own
    <3> QED  BY <1>3, <2>1, <3>1, <3>2, <3>3
  <2> QED  BY <2>2, <2>3
<1> QED  BY <1>4, <1>6, <1>12, <1>13, <1>14 DEF UdpInv

LEMMA UdpUpalloc == ASSUME UdpInv, NEW a \in Apps, Upalloc(a) PROVE UdpInv'
<1> DEFINE e == [FreeUp EXCEPT !.valid = TRUE]
           p == [FreePort EXCEPT !.state = "ALLOC", !.ssem = UPPLEN]
<1>1. /\ apc[a] = "upalloc" /\ Holds(a) /\ Signal /\ apc' = Put(apc, a, "bind")
      /\ UNCHANGED <<dev, lastport, ipVars, got, hasmsg>>
  BY DEF Upalloc, App, Goto, Put
<1>2. PICK u \in Slots : /\ ~upqs[u].valid /\ ports' = Put(ports, u, p) /\ upqs' = Put(upqs, u, e)
                         /\ dgtab' = [dgtab EXCEPT ![dev[a]].upq = u]
  BY DEF Upalloc, FreeEntry, Put
<1>3. e \in UpT /\ e.valid /\ e.port = 0
  BY DEF UpT, FreeUp
<1>4. p \in PortT /\ p.state = "ALLOC" /\ p.msgs = <<>> /\ p.rsem = 0 /\ p.ssem = UPPLEN
  <2> DEFINE q == [FreePort EXCEPT !.state = "ALLOC"]
             z == <<>>
  <2>1. z \in Seq(Nat)
    OBVIOUS
  <2>2. q \in PortT
    <3>1. FreePort = [state |-> "FREE", msgs |-> z, rsem |-> 0, ssem |-> 0]
      BY DEF FreePort
    <3> HIDE DEF z
    <3> QED  BY <2>1, <3>1 DEF PortT
  <2>3. p = [q EXCEPT !.ssem = UPPLEN]
    BY DEF FreePort
  <2>4. p.state = "ALLOC" /\ p.msgs = <<>> /\ p.rsem = 0 /\ p.ssem = UPPLEN
    BY DEF FreePort
  <2> HIDE DEF q, p
  <2>5. p \in PortT
    BY <2>2, <2>3, Numbers DEF PortT
  <2> QED  BY <2>4, <2>5
<1>5. /\ dev[a] \in Slots /\ dgtab[dev[a]] \in DevT /\ dgtab[dev[a]].state = "INUSE"
      /\ apc[a] \notin HasPort /\ dgtab \in [Slots -> DevT]
  BY <1>1, EarlyDev DEF Early
<1> DEFINE t == [dgtab[dev[a]] EXCEPT !.upq = u]
<1>6. t \in DevT /\ t.state = "INUSE" /\ t.upq = u
  BY <1>5 DEF DevT
<1>7. dgtab' = Put(dgtab, dev[a], t)
  BY <1>2, <1>5 DEF Put
<1>8. \A b \in Apps \ {a} : apc[b] \in HasPort => MyUp(b) # u
  BY <1>2, Own
<1> HIDE DEF e, p, t
<1>9. PortOK(a, "bind", t.lport, e, p, got[a], hasmsg[a], "no")
  <2>1. Len(p.msgs) = 0 /\ DOMAIN p.msgs = {}
    BY <1>4
  <2> QED  BY <1>3, <1>4, <2>1, Numbers DEF PortOK, Limbo
<1>10. "bind" \in {"bind", "release"} /\ apc[a] # "closed"
  BY <1>1
<1>11. /\ "bind" = "bind" => t.upq = u /\ PortOK(a, "bind", t.lport, e, p, got[a], hasmsg[a], "no")
       /\ "bind" = "release" => e = FreeUp /\ p = FreePort
       /\ apc[a] \in HasPort => MyUp(a) = u
  BY <1>5, <1>6, <1>9
<1>12. e \in UpT /\ p \in PortT /\ t \in DevT /\ t.state = "INUSE"
  BY <1>3, <1>4, <1>6
<1>13. upqs' = Put(upqs, u, e) /\ ports' = Put(ports, u, p)
  BY <1>2
<1> QED  BY <1>1, <1>7, <1>8, <1>10, <1>11, <1>12, <1>13, EntryStep

LEMMA UdpClose == ASSUME UdpInv, NEW a \in Apps, Close(a) PROVE UdpInv'
<1>1. /\ apc[a] = "dgclose" /\ Holds(a) /\ Signal /\ apc' = Put(apc, a, "release")
      /\ UNCHANGED <<dgtab, dev, lastport, ipVars, got, hasmsg>>
  BY DEF Close, App, Goto, Put
<1>2. apc[a] \in HasPort /\ apc[a] # "closed"
  BY <1>1 DEF HasPort, OnPort
<1>3. PICK u \in Slots : u = MyUp(a)
  BY <1>2, Own
<1>4. upqs' = Put(upqs, u, FreeUp) /\ ports' = Put(ports, u, FreePort)
  BY <1>3 DEF Close, Pdelete, Put
<1>5. FreeUp \in UpT /\ FreePort \in PortT
  <2> DEFINE z == <<>>
  <2>1. z \in Seq(Nat)
    OBVIOUS
  <2>2. FreePort = [state |-> "FREE", msgs |-> z, rsem |-> 0, ssem |-> 0]
    BY DEF FreePort
  <2> HIDE DEF z
  <2> QED  BY <2>1, <2>2 DEF UpT, FreeUp, PortT
<1>6. /\ dev[a] \in Slots /\ dgtab[dev[a]] \in DevT /\ dgtab[dev[a]].state = "INUSE"
      /\ dgtab \in [Slots -> DevT]
  BY <1>2, Own, Numbers DEF UdpInv, Devices, Types
<1>7. PICK t \in DevT : t = dgtab[dev[a]]
  BY <1>6
<1>8. dgtab' = Put(dgtab, dev[a], t) /\ t.state = "INUSE"
  BY <1>1, <1>6, <1>7 DEF Put
<1>9. \A b \in Apps \ {a} : apc[b] \in HasPort => MyUp(b) # u
  BY <1>2, <1>3 DEF UdpInv, Entries
<1>10. "release" \in {"bind", "release"} /\ "bind" # "release"
  OBVIOUS
<1>11. UNCHANGED <<dev, lastport, ipVars, got, hasmsg>>
  BY <1>1
<1> QED  BY <1>1, <1>2, <1>3, <1>4, <1>5, <1>8, <1>9, <1>10, <1>11, EntryStep


-----------------------------------------------------------------------------
\* ipproc: devices and their processes go on as they were; what is left to
\* show is that each port is still as its process needs it.
LEMMA IpStep ==
    ASSUME UdpInv, UNCHANGED <<dgtab, dev, apc, lastport>>,
           upqs' \in [Slots -> UpT], ports' \in [Slots -> PortT],
           udpmutex' \in Seq(Apps \cup {IPPROC}), ipc' \in IpPCs, dst' \in Nat,
           iup' \in Slots \cup {NOBODY}, granted' \in BOOLEAN, stale' \in BOOLEAN,
           got' \in [Apps -> BOOLEAN], hasmsg' \in [Apps -> BOOLEAN],
           \A v \in Slots : /\ upqs'[v].valid = upqs[v].valid /\ upqs'[v].port = upqs[v].port
                            /\ ~upqs[v].valid => ports'[v] = ports[v],
           Sender',
           \A b \in Apps : apc[b] \in HasPort =>
               PortOK(b, apc[b], Asked(b), upqs'[MyUp(b)], ports'[MyUp(b)], got'[b], hasmsg'[b],
                      Sending(MyUp(b))')
    PROVE  UdpInv'
<1>0. Types /\ Devices /\ Entries
  BY DEF UdpInv
<1>1. Types'
  BY <1>0 DEF Types, DevT, UpT, PortT, Slots, Ring, IpPCs
<1>2. Devices'
  BY <1>0 DEF Devices
<1>3. \A b \in Apps : MyUp(b)' = MyUp(b) /\ Asked(b)' = Asked(b)
  BY DEF MyUp, Asked
<1>4. Entries'
  <2>1. \A b \in Apps : apc'[b] \in HasPort => MyUp(b)' \in Slots
    BY <1>0, <1>3 DEF Entries
  <2>2. \A b \in Apps : apc'[b] \in {"check", "dnparse", "upalloc"} => MyUp(b)' = NOBODY
    BY <1>0, <1>3 DEF Entries
  <2>3. \A b, c \in Apps : b # c /\ apc'[b] \in HasPort /\ apc'[c] \in HasPort => MyUp(b)' # MyUp(c)'
    BY <1>0, <1>3 DEF Entries
  <2>4. ASSUME NEW v \in Slots, upqs'[v].valid
        PROVE  \E b \in Apps : apc'[b] \in HasPort /\ MyUp(b)' = v
    BY <1>0, <1>3, <2>4 DEF Entries
  <2>5. \A v \in Slots : ~upqs'[v].valid => upqs'[v].port = 0 /\ ports'[v] = FreePort
    BY <1>0 DEF Entries
  <2> QED  BY <2>1, <2>2, <2>3, <2>4, <2>5 DEF Entries, FreePort
<1>5. ASSUME NEW b \in Apps PROVE Local(b)'
  <2> SUFFICES ASSUME apc'[b] \in HasPort
               PROVE  PortOK(b, apc'[b], Asked(b)', upqs'[MyUp(b)'], ports'[MyUp(b)'], got'[b],
                             hasmsg'[b], Sending(MyUp(b))')
    BY DEF Local, PortOK
  <2> QED  BY <1>3
<1> QED  BY <1>1, <1>2, <1>4, <1>5 DEF UdpInv

\* udp_in() does something to no port.
LEMMA IpQuiet ==
    ASSUME UdpInv, UNCHANGED <<dgtab, dev, apc, lastport, upqs, ports, got, hasmsg>>,
           udpmutex' \in Seq(Apps \cup {IPPROC}), ipc' \in IpPCs, dst' \in Nat,
           iup' \in Slots \cup {NOBODY}, granted' \in BOOLEAN, stale' \in BOOLEAN,
           Sender', \A v \in Slots : Sending(v)' = Sending(v)
    PROVE  UdpInv'
<1>1. /\ upqs' \in [Slots -> UpT] /\ ports' \in [Slots -> PortT]
      /\ got' \in [Apps -> BOOLEAN] /\ hasmsg' \in [Apps -> BOOLEAN]
      /\ UNCHANGED <<dgtab, dev, apc, lastport>>
  BY DEF UdpInv, Types
<1>2. \A v \in Slots : /\ upqs'[v].valid = upqs[v].valid /\ upqs'[v].port = upqs[v].port
                       /\ ~upqs[v].valid => ports'[v] = ports[v]
  OBVIOUS
<1>3. ASSUME NEW b \in Apps, apc[b] \in HasPort
      PROVE  PortOK(b, apc[b], Asked(b), upqs'[MyUp(b)], ports'[MyUp(b)], got'[b], hasmsg'[b],
                    Sending(MyUp(b))')
  <2>1. MyUp(b) \in Slots /\ MyUp(b)' = MyUp(b)
    BY <1>3, Own DEF MyUp
  <2>2. PICK v \in Slots : v = MyUp(b)
    BY <2>1
  <2>3. Sending(MyUp(b))' = Sending(v)'
    BY <2>1, <2>2 DEF Sending
  <2>4. Sending(MyUp(b))' = Sending(MyUp(b))
    BY <2>2, <2>3
  <2>5. PortOK(b, apc[b], Asked(b), upqs[MyUp(b)], ports[MyUp(b)], got[b], hasmsg[b],
               Sending(MyUp(b)))
    BY <1>3, Own
  <2> QED  BY <2>4, <2>5
<1> QED  BY <1>1, <1>2, <1>3, IpStep

\* udp_in() does something to port x, which process b has; it may tell
\* other processes too.
LEMMA IpPort ==
    ASSUME UdpInv, UNCHANGED <<dgtab, dev, apc, lastport>>, udpmutex' \in Seq(Apps \cup {IPPROC}),
           NEW x \in Slots, NEW b \in Apps, apc[b] \in HasPort, MyUp(b) = x,
           NEW e \in UpT, NEW p \in PortT, upqs' = Put(upqs, x, e), ports' = Put(ports, x, p),
           e.valid, e.port = upqs[x].port,
           ipc' \in IpPCs, dst' \in Nat, iup' \in Slots \cup {NOBODY}, granted' \in BOOLEAN,
           stale' \in BOOLEAN, got' \in [Apps -> BOOLEAN], hasmsg' \in [Apps -> BOOLEAN],
           \A c \in Apps \ {b} : apc[c] \in HasPort =>
               got'[c] = got[c] /\ (hasmsg'[c] = hasmsg[c] \/ hasmsg'[c]),
           Sender', \A v \in Slots \ {x} : Sending(v)' = Sending(v),
           PortOK(b, apc[b], Asked(b), e, p, got'[b], hasmsg'[b], Sending(x)')
    PROVE  UdpInv'
<1>1. /\ upqs' \in [Slots -> UpT] /\ upqs'[x] = e /\ \A v \in Slots \ {x} : upqs'[v] = upqs[v]
      /\ ports' \in [Slots -> PortT] /\ ports'[x] = p /\ \A v \in Slots \ {x} : ports'[v] = ports[v]
      /\ UNCHANGED <<dgtab, dev, apc, lastport>>
  BY DEF UdpInv, Types, Put
<1>2. upqs[x].valid
  BY Own
<1>3. \A v \in Slots : /\ upqs'[v].valid = upqs[v].valid /\ upqs'[v].port = upqs[v].port
                       /\ ~upqs[v].valid => ports'[v] = ports[v]
  <2>1. upqs[x].valid \in BOOLEAN /\ e.valid \in BOOLEAN
    BY DEF UdpInv, Types, UpT
  <2> QED  BY <1>1, <1>2, <2>1
<1>4. ASSUME NEW c \in Apps, apc[c] \in HasPort
      PROVE  PortOK(c, apc[c], Asked(c), upqs'[MyUp(c)], ports'[MyUp(c)], got'[c], hasmsg'[c],
                    Sending(MyUp(c))')
  <2>1. MyUp(c) \in Slots /\ MyUp(c)' = MyUp(c)
    BY <1>4, Own DEF MyUp
  <2>2. PICK v \in Slots : v = MyUp(c)
    BY <2>1
  <2>3. Sending(MyUp(c))' = Sending(v)'
    BY <2>1, <2>2 DEF Sending
  <2>4. CASE c = b
    <3>1. v = x
      BY <2>2, <2>4
    <3> QED  BY <1>1, <2>2, <2>3, <2>4, <3>1
  <2>5. CASE c # b
    <3>1. v # x
      BY <1>4, <2>2, <2>5 DEF UdpInv, Entries
    <3>2. PortOK(c, apc[c], Asked(c), upqs[v], ports[v], got[c], hasmsg[c], Sending(v))
      BY <1>4, <2>2, Own
    <3>3. PortOK(c, apc[c], Asked(c), upqs[v], ports[v], got[c], hasmsg'[c], Sending(v))
      <4>1. hasmsg[c] \in BOOLEAN /\ (hasmsg'[c] = hasmsg[c] \/ hasmsg'[c])
        BY <1>4, <2>5, Own
      <4> QED  BY <3>2, <4>1 DEF PortOK
    <3>4. upqs'[v] = upqs[v] /\ ports'[v] = ports[v] /\ got'[c] = got[c] /\ Sending(v)' = Sending(v)
      BY <1>1, <1>4, <2>5, <3>1
    <3> QED  BY <2>2, <2>3, <3>3, <3>4
  <2> QED  BY <2>4, <2>5
<1> QED  BY <1>1, <1>3, <1>4, IpStep


\* Before psend() and after the signal, udp_in() is at no port.
LEMMA Idle ==
    ASSUME UdpInv, ipc \notin Active
    PROVE  ~granted /\ \A v \in Slots : Sending(v) = "no"
  BY DEF UdpInv, Sender, Sending, Active

LEMMA UdpArrive == ASSUME UdpInv, NEW d \in Dests, Arrive(d) PROVE UdpInv'
<1>1. /\ ipc = "ipgetp" /\ ipc' = "udp_in" /\ dst' = d /\ udpmutex' = Append(udpmutex, IPPROC)
      /\ UNCHANGED <<iup, granted, stale>>
      /\ UNCHANGED <<dgtab, dev, apc, lastport, upqs, ports, got, hasmsg>>
  BY DEF Arrive, Wait, tables, appVars
<1>2. d \in Nat /\ d # 0
  BY UdpAssumption DEF ANYLPORT
<1>3. ipc \notin Active /\ ipc' \notin Active /\ ipc' \in IpPCs
  BY <1>1 DEF Active, IpPCs
<1>4. ~granted /\ \A v \in Slots : Sending(v) = "no"
  BY <1>3, Idle
<1>5. /\ udpmutex' \in Seq(Apps \cup {IPPROC}) /\ dst' \in Nat /\ iup' \in Slots \cup {NOBODY}
      /\ granted' \in BOOLEAN /\ stale' \in BOOLEAN
  BY <1>1, <1>2 DEF UdpInv, Types
<1>6. Sender' /\ \A v \in Slots : Sending(v)' = Sending(v)
  BY <1>1, <1>2, <1>3, <1>4 DEF Sender, Sending
<1>7. UNCHANGED <<dgtab, dev, apc, lastport, upqs, ports, got, hasmsg>>
  BY <1>1
<1> QED  BY <1>3, <1>5, <1>6, <1>7, IpQuiet

\* udp_in() signals udpmutex, which it has.
LEMMA IpSignals ==
    ASSUME UdpInv, Holds(IPPROC), Signal
    PROVE  udpmutex' \in Seq(Apps \cup {IPPROC})
<1>1. udpmutex \in Seq(Apps \cup {IPPROC}) /\ udpmutex # <<>> /\ udpmutex' = Tail(udpmutex)
  BY DEF UdpInv, Types, Holds, Signal
<1> QED  BY <1>1

LEMMA UdpDrops == ASSUME UdpInv, NoPort \/ DropFull PROVE UdpInv'
<1>1. /\ ipc = "udp_in" /\ Holds(IPPROC) /\ Signal
      /\ ipc' = "ipgetp" /\ dst' = 0 /\ iup' = NOBODY /\ stale' = FALSE /\ granted' = granted
      /\ UNCHANGED <<dgtab, dev, apc, lastport, upqs, ports, got, hasmsg>>
  BY DEF NoPort, DropFull, Searching, UdpReturn, tables, appVars
<1>2. ipc \notin Active /\ ipc' \notin Active /\ ipc' \in IpPCs
  BY <1>1 DEF Active, IpPCs
<1>3. ~granted /\ \A v \in Slots : Sending(v) = "no"
  BY <1>2, Idle
<1>4. /\ udpmutex' \in Seq(Apps \cup {IPPROC}) /\ dst' \in Nat /\ iup' \in Slots \cup {NOBODY}
      /\ granted' \in BOOLEAN /\ stale' \in BOOLEAN
  BY <1>1, IpSignals DEF UdpInv, Types
<1>5. Sender' /\ \A v \in Slots : Sending(v)' = Sending(v)
  BY <1>1, <1>2, <1>3 DEF Sender, Sending
<1>6. UNCHANGED <<dgtab, dev, apc, lastport, upqs, ports, got, hasmsg>>
  BY <1>1
<1> QED  BY <1>2, <1>4, <1>5, <1>6, IpQuiet

\* The port udp_in() found is that of a process which has bound it to the
\* datagram's number.
LEMMA Found ==
    ASSUME UdpInv, NEW x \in Slots, upqs[x].port = dst, dst # 0
    PROVE  /\ upqs[x] \in UpT /\ upqs[x].valid /\ ports[x] \in PortT
           /\ \E b \in Apps : apc[b] \in OnPort /\ MyUp(b) = x /\ Asked(b) = dst
<1>1. upqs[x] \in UpT /\ ports[x] \in PortT
  BY DEF UdpInv, Types
<1>2. upqs[x].valid
  BY DEF UdpInv, Entries
<1>3. PICK b \in Apps : apc[b] \in HasPort /\ MyUp(b) = x
  BY <1>2 DEF UdpInv, Entries
<1>4. upqs[x].port = (IF apc[b] = "bind" THEN 0 ELSE Asked(b))
  BY <1>3, Own DEF PortOK
<1>5. apc[b] \in OnPort /\ Asked(b) = dst
  BY <1>3, <1>4 DEF HasPort
<1> QED  BY <1>1, <1>2, <1>3, <1>5

LEMMA Searched ==
    ASSUME UdpInv, NEW x \in Slots, Fits(x)
    PROVE  /\ ipc = "udp_in" /\ Holds(IPPROC) /\ ~granted /\ stale \in BOOLEAN
           /\ upqs[x].port = dst /\ dst # 0 /\ dst \in Nat
           /\ \A v \in Slots : Sending(v) = "no"
           /\ udpmutex \in Seq(Apps \cup {IPPROC})
<1>1. ipc = "udp_in" /\ Holds(IPPROC) /\ upqs[x].port = dst
  BY DEF Fits, Searching, Matches
<1>2. dst # 0 /\ dst \in Nat /\ stale \in BOOLEAN /\ udpmutex \in Seq(Apps \cup {IPPROC})
  BY <1>1 DEF UdpInv, Sender, Types
<1>3. ~granted /\ \A v \in Slots : Sending(v) = "no"
  BY <1>1, Idle DEF Active
<1> QED  BY <1>1, <1>2, <1>3

\* What psend() leaves alone, as it stands in IpPort.
LEMMA IpUntouched ==
    ASSUME UdpInv, NEW x \in Slots
    PROVE  /\ upqs = Put(upqs, x, upqs[x]) /\ ports = Put(ports, x, ports[x])
           /\ got \in [Apps -> BOOLEAN] /\ hasmsg \in [Apps -> BOOLEAN]
  BY DEF UdpInv, Types, Put

LEMMA UdpPsendLimbo == ASSUME UdpInv, NEW x \in Slots, PsendLimbo(x) PROVE UdpInv'
<1>1. /\ Fits(x) /\ ports[x].state # "ALLOC" /\ ipc' = "tell" /\ iup' = x
      /\ UNCHANGED <<dgtab, dev, apc, lastport, upqs, ports, got, hasmsg, udpmutex, dst, granted, stale>>
  BY DEF PsendLimbo, tables, appVars
<1>2. /\ ipc = "udp_in" /\ Holds(IPPROC) /\ ~granted /\ stale \in BOOLEAN
      /\ upqs[x].port = dst /\ dst # 0 /\ dst \in Nat
      /\ (\A v \in Slots : Sending(v) = "no") /\ udpmutex \in Seq(Apps \cup {IPPROC})
  BY <1>1, Searched
<1>3. PICK b \in Apps : apc[b] \in OnPort /\ MyUp(b) = x /\ Asked(b) = dst
  BY <1>2, Found
<1>4. apc[b] \in HasPort /\ upqs[x] \in UpT /\ ports[x] \in PortT /\ upqs[x].valid
  BY <1>2, <1>3, Found DEF HasPort
<1>5. PortOK(b, apc[b], Asked(b), upqs[x], ports[x], got[b], hasmsg[b], "no")
  BY <1>2, <1>3, <1>4, Own
<1>6. Sending(x)' = "tell" /\ \A v \in Slots \ {x} : Sending(v)' = Sending(v)
  BY <1>1, <1>2 DEF Sending, Active
<1>7. PortOK(b, apc[b], Asked(b), upqs[x], ports[x], got'[b], hasmsg'[b], Sending(x)')
  <2>1. apc[b] \in Limbo
    BY <1>1, <1>5 DEF PortOK
  <2> QED  BY <1>1, <1>5, <1>6, <2>1 DEF PortOK, Limbo
<1>8. Sender'
  BY <1>1, <1>2, <1>4 DEF Sender, Active, Holds
<1>9. /\ udpmutex' \in Seq(Apps \cup {IPPROC}) /\ ipc' \in IpPCs /\ dst' \in Nat
      /\ iup' \in Slots \cup {NOBODY} /\ granted' \in BOOLEAN /\ stale' \in BOOLEAN
  BY <1>1, <1>2 DEF IpPCs, UdpInv, Types
<1>10. /\ upqs' = Put(upqs, x, upqs[x]) /\ ports' = Put(ports, x, ports[x])
       /\ got' \in [Apps -> BOOLEAN] /\ hasmsg' \in [Apps -> BOOLEAN]
  BY <1>1, IpUntouched
<1>11. UNCHANGED <<dgtab, dev, apc, lastport>>
  BY <1>1
<1>12. \A c \in Apps \ {b} : apc[c] \in HasPort =>
           got'[c] = got[c] /\ (hasmsg'[c] = hasmsg[c] \/ hasmsg'[c])
  BY <1>1
<1> QED  BY <1>3, <1>4, <1>6, <1>7, <1>8, <1>9, <1>10, <1>11, <1>12, IpPort


\* The port after psend() queued a datagram.
Node(r, d, left) == [r EXCEPT !.msgs = Append(@, d), !.rsem = @ + 1, !.ssem = left]

LEMMA NodeFields ==
    ASSUME NEW r \in PortT, NEW d \in Nat, NEW left \in Int
    PROVE  /\ Node(r, d, left) \in PortT /\ Node(r, d, left).state = r.state
           /\ Node(r, d, left).msgs = Append(r.msgs, d)
           /\ Node(r, d, left).rsem = r.rsem + 1 /\ Node(r, d, left).ssem = left
<1> DEFINE p == [r EXCEPT !.msgs = Append(@, d), !.rsem = @ + 1, !.ssem = left]
           q == [r EXCEPT !.msgs = Append(@, d)]
           s == [q EXCEPT !.rsem = @ + 1]
<1>1. q \in PortT
  <2> DEFINE w == Append(r.msgs, d)
  <2>1. r.msgs \in Seq(Nat) /\ q = [r EXCEPT !.msgs = w]
    BY DEF PortT
  <2>2. w \in Seq(Nat)
    BY <2>1
  <2> HIDE DEF w, q
  <2> QED  BY <2>1, <2>2 DEF PortT
<1>2. p = [s EXCEPT !.ssem = left]
  BY DEF PortT
<1>3. p.state = r.state /\ p.msgs = Append(r.msgs, d) /\ p.rsem = r.rsem + 1 /\ p.ssem = left
  BY DEF PortT
<1>4. s \in PortT
  <2> HIDE DEF q
  <2>1. q.rsem + 1 \in Int
    BY <1>1 DEF PortT
  <2> DEFINE w == q.rsem + 1
  <2>2. s = [q EXCEPT !.rsem = w]
    BY <1>1 DEF PortT
  <2> HIDE DEF w, s
  <2>3. w \in Int
    BY <2>1 DEF w
  <2> QED  BY <1>1, <2>2, <2>3 DEF PortT
<1>5. [s EXCEPT !.ssem = left] \in PortT
  <2> HIDE DEF s
  <2> QED  BY <1>4 DEF PortT
<1>6. p = Node(r, d, left)
  BY DEF Node
<1> HIDE DEF p
<1> QED  BY <1>2, <1>3, <1>5, <1>6

\* PutNode's two updates.
Placed(x, left) ==
    /\ ports' = [ports EXCEPT ![x].msgs = Append(@, dst), ![x].rsem = @ + 1, ![x].ssem = left]
    /\ got' = [a \in Apps |-> got[a] \/ (apc[a] = "preceive" /\ dgtab[dev[a]].upq = x
                                          /\ ports[x].rsem < 0)]

\* psend() queues the datagram: the reader that waits is granted it, one in
\* recvtim() is told next.
LEMMA NodePut ==
    ASSUME UdpInv, NEW x \in Slots, upqs[x].port = dst, dst # 0, Holds(IPPROC),
           Sending(x) \in {"no", "granted"}, ports[x].state = "ALLOC",
           \A v \in Slots \ {x} : Sending(v) = "no",
           NEW left \in Int, left = UPPLEN - Len(ports[x].msgs) - 1, Len(ports[x].msgs) < UPPLEN,
           ipc' = "tell", iup' = x, granted' = FALSE, stale' = stale,
           Placed(x, left), UNCHANGED <<dgtab, dev, apc, lastport, upqs, hasmsg, udpmutex, dst>>
    PROVE  UdpInv'
<1>1. PICK b \in Apps : apc[b] \in OnPort /\ MyUp(b) = x /\ Asked(b) = dst
  BY Found
<1>2. apc[b] \in HasPort /\ upqs[x] \in UpT /\ ports[x] \in PortT /\ upqs[x].valid
  BY <1>1, Found DEF HasPort
<1>3. PortOK(b, apc[b], Asked(b), upqs[x], ports[x], got[b], hasmsg[b], Sending(x))
  BY <1>1, <1>2, Own
<1>4. dst \in Nat /\ stale \in BOOLEAN /\ got \in [Apps -> BOOLEAN] /\ ports \in [Slots -> PortT]
  BY DEF UdpInv, Types
<1> DEFINE p == Node(ports[x], dst, left)
           m == ports[x].msgs
<1>5. /\ p \in PortT /\ p.state = ports[x].state /\ p.msgs = Append(m, dst)
      /\ p.rsem = ports[x].rsem + 1 /\ p.ssem = left /\ ports[x].rsem \in Int
  <2>1. PICK r \in PortT : r = ports[x]
    BY <1>2
  <2>2. PICK d \in Nat : d = dst
    BY <1>4
  <2>3. /\ Node(r, d, left) \in PortT /\ Node(r, d, left).state = r.state
        /\ Node(r, d, left).msgs = Append(r.msgs, d)
        /\ Node(r, d, left).rsem = r.rsem + 1 /\ Node(r, d, left).ssem = left
    BY NodeFields, ZenonT(50)
  <2>4. ports[x].rsem \in Int
    BY <2>1 DEF PortT
  <2> QED  BY <2>1, <2>2, <2>3, <2>4
<1>6. ports' = Put(ports, x, p)
  BY <1>4 DEF Put, Placed, Node
<1>7. /\ m \in Seq(Nat) /\ Len(m) \in Nat /\ Len(Append(m, dst)) = Len(m) + 1
      /\ \A j \in DOMAIN Append(m, dst) : (j \in DOMAIN m /\ Append(m, dst)[j] = m[j]) \/ Append(m, dst)[j] = dst
      /\ Append(m, dst) # <<>>
  <2>1. m \in Seq(Nat)
    BY <1>2 DEF PortT
  <2> HIDE DEF m
  <2> QED  BY <1>4, <2>1
<1>8. Sending(x)' = "tell" /\ \A v \in Slots \ {x} : Sending(v)' = Sending(v)
  BY DEF Sending, Active
<1>9. got' \in [Apps -> BOOLEAN]
  BY <1>4 DEF Placed
<1>10. /\ upqs[x].valid /\ upqs[x].port = Asked(b) /\ apc[b] \notin Limbo
       /\ ports[x].rsem = Len(m) - (IF apc[b] = "preceive" THEN 1 ELSE 0)
       /\ (apc[b] = "preceive" => (got[b] <=> Len(m) > 0))
       /\ (apc[b] = "recvtim" => upqs[x].pid = b \/ hasmsg[b])
       /\ \A j \in DOMAIN m : m[j] = Asked(b)
  BY <1>1, <1>3 DEF PortOK
<1>11. apc[b] = "preceive" => got'[b]
  <2> SUFFICES ASSUME apc[b] = "preceive" PROVE got'[b]
    OBVIOUS
  <2>1. got'[b] <=> got[b] \/ ports[x].rsem < 0
    BY <1>1 DEF MyUp, Placed
  <2> QED  BY <1>7, <1>10, <2>1
<1>12. PortOK(b, apc[b], Asked(b), upqs[x], p, got'[b], hasmsg'[b], Sending(x)')
  <2>1. \A j \in DOMAIN p.msgs : p.msgs[j] = Asked(b)
    <3> HIDE DEF p, m
    <3> QED  BY <1>1, <1>5, <1>7, <1>10
  <2>2. Len(p.msgs) = Len(m) + 1 /\ Len(p.msgs) \in Nat /\ Len(p.msgs) > 0 /\ p.msgs # <<>>
    BY <1>5, <1>7
  <2>3. p.rsem = Len(p.msgs) - (IF apc[b] = "preceive" THEN 1 ELSE 0)
    <3> HIDE DEF p, m
    <3> QED  BY <1>5, <1>7, <1>10, <2>2
  <2>4. Len(p.msgs) <= UPPLEN /\ p.ssem = UPPLEN - Len(p.msgs) - 0
    <3>1. UPPLEN \in Nat /\ left = UPPLEN - Len(m) - 1 /\ Len(m) < UPPLEN /\ p.ssem = left
      BY <1>5, Numbers
    <3> HIDE DEF p, m
    <3> QED  BY <1>7, <2>2, <3>1
  <2>5. apc[b] # "bind" /\ apc[b] # "preset"
    BY <1>1, <1>10 DEF OnPort, Limbo
  <2>6. got'[b] \in BOOLEAN /\ hasmsg'[b] = hasmsg[b]
    BY <1>9
  <2> HIDE DEF p, m
  <2> QED  BY <1>5, <1>8, <1>10, <1>11, <2>1, <2>2, <2>3, <2>4, <2>5, <2>6 DEF PortOK
<1>13. Sender'
  BY <1>2 DEF Sender, Active, Holds
<1>14. /\ udpmutex' \in Seq(Apps \cup {IPPROC}) /\ ipc' \in IpPCs /\ dst' \in Nat
       /\ iup' \in Slots \cup {NOBODY} /\ granted' \in BOOLEAN /\ stale' \in BOOLEAN
       /\ hasmsg' \in [Apps -> BOOLEAN] /\ upqs' = Put(upqs, x, upqs[x])
  BY <1>4, IpUntouched DEF IpPCs, UdpInv, Types
<1>15. \A c \in Apps \ {b} : apc[c] \in HasPort =>
           got'[c] = got[c] /\ (hasmsg'[c] = hasmsg[c] \/ hasmsg'[c])
  <2> SUFFICES ASSUME NEW c \in Apps \ {b}, apc[c] \in HasPort PROVE got'[c] = got[c]
    OBVIOUS
  <2>1. MyUp(c) # x
    BY <1>1, <1>2 DEF UdpInv, Entries
  <2> QED  BY <1>4, <2>1 DEF MyUp, Placed
<1>16. UNCHANGED <<dgtab, dev, apc, lastport>>
  OBVIOUS
<1>17. p \in PortT
  BY <1>5
<1> HIDE DEF p, m
<1> QED  BY <1>1, <1>2, <1>6, <1>8, <1>9, <1>12, <1>13, <1>14, <1>15, <1>16, <1>17, IpPort

\* The count of ptssem is the room in the port.
LEMMA Room ==
    ASSUME UdpInv, NEW x \in Slots, upqs[x].port = dst, dst # 0, ports[x].state = "ALLOC"
    PROVE  /\ Len(ports[x].msgs) \in Nat /\ UPPLEN \in Nat /\ ports[x].ssem \in Int
           /\ Sending(x) = "granted" => Len(ports[x].msgs) < UPPLEN
           /\ ports[x].ssem = UPPLEN - Len(ports[x].msgs)
                                - (IF Sending(x) \in {"psend", "granted"} THEN 1 ELSE 0)
<1>1. PICK b \in Apps : apc[b] \in OnPort /\ MyUp(b) = x /\ Asked(b) = dst
  BY Found
<1>2. PortOK(b, apc[b], Asked(b), upqs[x], ports[x], got[b], hasmsg[b], Sending(x)) /\ ports[x] \in PortT
  BY <1>1, Own DEF HasPort
<1>3. Len(ports[x].msgs) \in Nat /\ UPPLEN \in Nat /\ ports[x].ssem \in Int
  BY <1>2, Numbers DEF PortT
<1>4. apc[b] # "preset"
  BY <1>2 DEF PortOK, Limbo
<1> QED  BY <1>2, <1>3, <1>4 DEF PortOK


LEMMA UdpPsend == ASSUME UdpInv, NEW x \in Slots, Psend(x) PROVE UdpInv'
<1>1. /\ Fits(x) /\ ports[x].state = "ALLOC" /\ ports[x].ssem > 0 /\ iup' = x
      /\ PutNode(x, ports[x].ssem - 1)
      /\ UNCHANGED <<dgtab, dev, apc, lastport, upqs, hasmsg, udpmutex, dst>>
      /\ UNCHANGED <<granted, stale>>
  BY DEF Psend, tables
<1>2. /\ ipc = "udp_in" /\ Holds(IPPROC) /\ ~granted /\ stale \in BOOLEAN
      /\ upqs[x].port = dst /\ dst # 0 /\ dst \in Nat
      /\ (\A v \in Slots : Sending(v) = "no") /\ udpmutex \in Seq(Apps \cup {IPPROC})
  BY <1>1, Searched
<1>3. /\ Len(ports[x].msgs) \in Nat /\ UPPLEN \in Nat /\ ports[x].ssem \in Int
      /\ ports[x].ssem = UPPLEN - Len(ports[x].msgs)
  BY <1>1, <1>2, Room
<1>4. CASE ipc' = "tell" /\ Placed(x, ports[x].ssem - 1)
  <2>0. ports[x].ssem - 1 \in Int
    BY <1>3
  <2>1. PICK left \in Int : left = ports[x].ssem - 1
    BY <2>0
  <2>2. left = UPPLEN - Len(ports[x].msgs) - 1 /\ Len(ports[x].msgs) < UPPLEN
    BY <1>1, <1>3, <2>1
  <2>3. Placed(x, left)
    BY <1>4, <2>1
  <2>4. granted' = FALSE /\ stale' = stale
    BY <1>1, <1>2 DEF UdpInv, Types
  <2>5. Sending(x) \in {"no", "granted"} /\ \A v \in Slots \ {x} : Sending(v) = "no"
    BY <1>2
  <2> QED  BY <1>1, <1>2, <1>4, <2>2, <2>3, <2>4, <2>5, NodePut
<1>5. CASE UNCHANGED <<ports, got, ipc>>
  <2>1. ipc \notin Active
    BY <1>2 DEF Active
  <2>2. Sender' /\ \A v \in Slots : Sending(v)' = Sending(v)
    BY <1>1, <1>2, <1>5, <2>1 DEF Sender, Sending
  <2>3. /\ udpmutex' \in Seq(Apps \cup {IPPROC}) /\ ipc' \in IpPCs /\ dst' \in Nat
        /\ iup' \in Slots \cup {NOBODY} /\ granted' \in BOOLEAN /\ stale' \in BOOLEAN
    BY <1>1, <1>2, <1>5 DEF UdpInv, Types
  <2>4. UNCHANGED <<dgtab, dev, apc, lastport, upqs, ports, got, hasmsg>>
    BY <1>1, <1>5
  <2> QED  BY <2>2, <2>3, <2>4, IpQuiet
<1> QED  BY <1>1, <1>4, <1>5 DEF PutNode, Placed

LEMMA UdpPsendBlock == ASSUME UdpInv, NEW x \in Slots, PsendBlock(x) PROVE UdpInv'
<1>1. /\ Fits(x) /\ ports[x].state = "ALLOC" /\ iup' = x
      /\ ipc' = "psend" /\ granted' = FALSE /\ stale' = FALSE
      /\ ports' = [ports EXCEPT ![x].ssem = @ - 1]
      /\ UNCHANGED <<dgtab, dev, apc, lastport, upqs, got, hasmsg, udpmutex, dst>>
  BY DEF PsendBlock, tables, appVars
<1>2. /\ ipc = "udp_in" /\ Holds(IPPROC) /\ ~granted /\ stale \in BOOLEAN
      /\ upqs[x].port = dst /\ dst # 0 /\ dst \in Nat
      /\ (\A v \in Slots : Sending(v) = "no") /\ udpmutex \in Seq(Apps \cup {IPPROC})
  BY <1>1, Searched
<1>3. PICK b \in Apps : apc[b] \in OnPort /\ MyUp(b) = x /\ Asked(b) = dst
  BY <1>2, Found
<1>4. apc[b] \in HasPort /\ upqs[x] \in UpT /\ ports[x] \in PortT /\ upqs[x].valid
  BY <1>2, <1>3, Found DEF HasPort
<1>5. PortOK(b, apc[b], Asked(b), upqs[x], ports[x], got[b], hasmsg[b], "no")
  BY <1>2, <1>3, <1>4, Own
<1> DEFINE p == [ports[x] EXCEPT !.ssem = @ - 1]
<1>6. /\ p \in PortT /\ p.state = ports[x].state /\ p.msgs = ports[x].msgs
      /\ p.rsem = ports[x].rsem /\ p.ssem = ports[x].ssem - 1 /\ ports[x].ssem \in Int
      /\ Len(p.msgs) \in Nat
  BY <1>4 DEF PortT
<1>7. ports' = Put(ports, x, p)
  BY <1>1 DEF Put
<1>8. Sending(x)' = "psend" /\ \A v \in Slots \ {x} : Sending(v)' = Sending(v)
  BY <1>1, <1>2 DEF Sending, Active
<1>9. PortOK(b, apc[b], Asked(b), upqs[x], p, got'[b], hasmsg'[b], Sending(x)')
  <2>1. apc[b] \notin Limbo /\ apc[b] # "preset"
    BY <1>1, <1>5 DEF PortOK, Limbo
  <2>2. ports[x].ssem = UPPLEN - Len(ports[x].msgs) - 0
    BY <1>5, <2>1 DEF PortOK
  <2>3. p.ssem = UPPLEN - Len(p.msgs) - 1
    BY <1>6, <2>2, Numbers, SMTT(40)
  <2>4. apc[b] = "recvtim" => ports[x].msgs = <<>> \/ hasmsg[b]
    BY <1>5 DEF PortOK
  <2> HIDE DEF p
  <2> QED  BY <1>1, <1>5, <1>6, <1>8, <2>1, <2>3, <2>4 DEF PortOK
<1>10. Sender'
  BY <1>1, <1>2, <1>4 DEF Sender, Active, Holds
<1>11. /\ udpmutex' \in Seq(Apps \cup {IPPROC}) /\ ipc' \in IpPCs /\ dst' \in Nat
       /\ iup' \in Slots \cup {NOBODY} /\ granted' \in BOOLEAN /\ stale' \in BOOLEAN
  BY <1>1, <1>2 DEF IpPCs
<1>12. /\ upqs' = Put(upqs, x, upqs[x])
       /\ got' \in [Apps -> BOOLEAN] /\ hasmsg' \in [Apps -> BOOLEAN]
  BY <1>1, IpUntouched
<1>13. UNCHANGED <<dgtab, dev, apc, lastport>> /\ p \in PortT
  BY <1>1, <1>6
<1>14. \A c \in Apps \ {b} : apc[c] \in HasPort =>
           got'[c] = got[c] /\ (hasmsg'[c] = hasmsg[c] \/ hasmsg'[c])
  BY <1>1
<1> HIDE DEF p
<1> QED  BY <1>3, <1>4, <1>7, <1>8, <1>9, <1>10, <1>11, <1>12, <1>13, <1>14, IpPort

\* udp_in() from psend() on: it has udpmutex and its port.
LEMMA AtPort ==
    ASSUME UdpInv, ipc \in Active
    PROVE  /\ Holds(IPPROC) /\ iup \in Slots /\ upqs[iup].port = dst /\ dst # 0 /\ dst \in Nat
           /\ \A v \in Slots \ {iup} : Sending(v) = "no"
           /\ granted \in BOOLEAN /\ stale \in BOOLEAN /\ udpmutex \in Seq(Apps \cup {IPPROC})
           /\ granted => ipc = "psend"
<1>1. ipc # "ipgetp"
  BY DEF Active
<1>2. Holds(IPPROC) /\ iup \in Slots /\ upqs[iup].port = dst /\ dst # 0 /\ (granted => ipc = "psend")
  BY <1>1 DEF UdpInv, Sender
<1>3. \A v \in Slots \ {iup} : Sending(v) = "no"
  BY DEF Sending
<1> QED  BY <1>2, <1>3 DEF UdpInv, Types

LEMMA UdpPsendResume == ASSUME UdpInv, PsendResume PROVE UdpInv'
<1>1. /\ ipc = "psend" /\ granted /\ granted' = FALSE /\ ipc \in Active
      /\ UNCHANGED <<dgtab, dev, apc, lastport, upqs, hasmsg, udpmutex, dst>>
      /\ UNCHANGED <<iup, stale>>
      /\ \/ ~stale /\ PutNode(iup, ports[iup].ssem)
         \/ stale /\ ipc' = "tell" /\ UNCHANGED <<ports, got>>
  BY DEF PsendResume, tables, Active
<1>2. PICK x \in Slots : x = iup
  BY <1>1, AtPort
<1>3. /\ Holds(IPPROC) /\ upqs[x].port = dst /\ dst # 0 /\ dst \in Nat
      /\ (\A v \in Slots \ {x} : Sending(v) = "no") /\ stale \in BOOLEAN
      /\ udpmutex \in Seq(Apps \cup {IPPROC})
  BY <1>1, <1>2, AtPort
<1>4. PICK b \in Apps : apc[b] \in OnPort /\ MyUp(b) = x /\ Asked(b) = dst
  BY <1>3, Found
<1>5. apc[b] \in HasPort /\ upqs[x] \in UpT /\ ports[x] \in PortT /\ upqs[x].valid
  BY <1>3, <1>4, Found DEF HasPort
<1>6. PortOK(b, apc[b], Asked(b), upqs[x], ports[x], got[b], hasmsg[b], Sending(x))
  BY <1>4, <1>5, Own
<1>7. /\ udpmutex' \in Seq(Apps \cup {IPPROC}) /\ dst' \in Nat
      /\ iup' \in Slots \cup {NOBODY} /\ granted' \in BOOLEAN /\ stale' \in BOOLEAN
      /\ upqs' = Put(upqs, x, upqs[x]) /\ hasmsg' \in [Apps -> BOOLEAN]
      /\ UNCHANGED <<dgtab, dev, apc, lastport>>
  BY <1>1, <1>2, <1>3, IpUntouched
<1>8. CASE ~stale /\ ipc' = "tell" /\ Placed(iup, ports[iup].ssem)
  <2>1. Sending(x) = "granted"
    BY <1>1, <1>2, <1>8 DEF Sending
  <2>2. ports[x].state = "ALLOC"
    BY <1>6, <2>1 DEF PortOK
  <2>3. /\ Len(ports[x].msgs) < UPPLEN /\ ports[x].ssem \in Int
        /\ ports[x].ssem = UPPLEN - Len(ports[x].msgs) - 1
    BY <1>3, <2>1, <2>2, Room
  <2>4. Placed(x, ports[x].ssem) /\ iup' = x /\ stale' = stale
    BY <1>1, <1>2, <1>8
  <2>5. Sending(x) \in {"no", "granted"}
    BY <2>1
  <2> QED  BY <1>1, <1>3, <1>8, <2>2, <2>3, <2>4, <2>5, NodePut
<1>9. CASE ~stale /\ UNCHANGED <<ports, got, ipc>>
  <2>1. Sending(x) = "granted" /\ Sending(x)' = "psend"
    BY <1>1, <1>2, <1>9 DEF Sending, Active
  <2>2. PortOK(b, apc[b], Asked(b), upqs[x], ports[x], got[b], hasmsg[b], "psend")
    BY <1>6, <2>1 DEF PortOK
  <2>3. PortOK(b, apc[b], Asked(b), upqs[x], ports[x], got'[b], hasmsg'[b], Sending(x)')
    BY <1>1, <1>9, <2>1, <2>2
  <2>4. ports' = Put(ports, x, ports[x]) /\ got' \in [Apps -> BOOLEAN] /\ ipc' \in IpPCs
    BY <1>1, <1>9, IpUntouched DEF IpPCs
  <2>5. Sender' /\ \A v \in Slots \ {x} : Sending(v)' = Sending(v)
    BY <1>1, <1>2, <1>3, <1>5, <1>9 DEF Sender, Active, Holds, Sending
  <2>6. \A c \in Apps \ {b} : apc[c] \in HasPort =>
            got'[c] = got[c] /\ (hasmsg'[c] = hasmsg[c] \/ hasmsg'[c])
    BY <1>1, <1>9
  <2> QED  BY <1>4, <1>5, <1>7, <2>3, <2>4, <2>5, <2>6, IpPort
<1>10. CASE stale /\ ipc' = "tell" /\ UNCHANGED <<ports, got>>
  <2>1. Sending(x) = "stale" /\ Sending(x)' = "tell"
    BY <1>1, <1>2, <1>10 DEF Sending, Active
  <2>2. PortOK(b, apc[b], Asked(b), upqs[x], ports[x], got[b], hasmsg[b], "tell")
    BY <1>6, <2>1 DEF PortOK
  <2>3. PortOK(b, apc[b], Asked(b), upqs[x], ports[x], got'[b], hasmsg'[b], Sending(x)')
    BY <1>1, <1>10, <2>1, <2>2
  <2>4. ports' = Put(ports, x, ports[x]) /\ got' \in [Apps -> BOOLEAN] /\ ipc' \in IpPCs
    BY <1>1, <1>10, IpUntouched DEF IpPCs
  <2>5. Sender' /\ \A v \in Slots \ {x} : Sending(v)' = Sending(v)
    BY <1>1, <1>2, <1>3, <1>5, <1>10 DEF Sender, Active, Holds, Sending
  <2>6. \A c \in Apps \ {b} : apc[c] \in HasPort =>
            got'[c] = got[c] /\ (hasmsg'[c] = hasmsg[c] \/ hasmsg'[c])
    BY <1>1, <1>10
  <2> QED  BY <1>4, <1>5, <1>7, <2>3, <2>4, <2>5, <2>6, IpPort
<1> QED  BY <1>1, <1>8, <1>9, <1>10 DEF PutNode, Placed

LEMMA UdpTell == ASSUME UdpInv, Tell PROVE UdpInv'
<1>1. /\ ipc = "tell" /\ ipc' = "told" /\ upqs[iup].pid # BADPID /\ ipc \in Active
      /\ hasmsg' = [hasmsg EXCEPT ![upqs[iup].pid] = TRUE]
      /\ UNCHANGED <<dgtab, dev, apc, lastport, upqs, udpmutex, dst, ports, got, iup, granted, stale>>
  BY DEF Tell, tables, Active
<1>2. PICK x \in Slots : x = iup
  BY <1>1, AtPort
<1>3. /\ Holds(IPPROC) /\ upqs[x].port = dst /\ dst # 0 /\ dst \in Nat
      /\ (\A v \in Slots \ {x} : Sending(v) = "no") /\ stale \in BOOLEAN /\ granted = FALSE
      /\ udpmutex \in Seq(Apps \cup {IPPROC})
  BY <1>1, <1>2, AtPort
<1>4. PICK b \in Apps : apc[b] \in OnPort /\ MyUp(b) = x /\ Asked(b) = dst
  BY <1>3, Found
<1>5. apc[b] \in HasPort /\ upqs[x] \in UpT /\ ports[x] \in PortT /\ upqs[x].valid
  BY <1>3, <1>4, Found DEF HasPort
<1>6. PortOK(b, apc[b], Asked(b), upqs[x], ports[x], got[b], hasmsg[b], Sending(x))
  BY <1>4, <1>5, Own
<1>7. /\ hasmsg' \in [Apps -> BOOLEAN] /\ \A c \in Apps : hasmsg'[c] = hasmsg[c] \/ hasmsg'[c]
      /\ upqs[x].pid = b => hasmsg'[b]
  <2>1. hasmsg \in [Apps -> BOOLEAN] /\ upqs[x].pid \in Apps
    BY <1>1, <1>2, <1>5 DEF UdpInv, Types, UpT
  <2> QED  BY <1>1, <1>2, <2>1
<1>8. Sending(x) = "tell" /\ Sending(x)' = "told" /\ \A v \in Slots \ {x} : Sending(v)' = Sending(v)
  BY <1>1, <1>2 DEF Sending, Active
<1>9. PortOK(b, apc[b], Asked(b), upqs[x], ports[x], got'[b], hasmsg'[b], Sending(x)')
  <2>1. hasmsg[b] \in BOOLEAN /\ hasmsg'[b] \in BOOLEAN /\ got'[b] = got[b]
    BY <1>1, <1>7 DEF UdpInv, Types
  <2>2. apc[b] = "recvtim" => hasmsg'[b]
    BY <1>6, <1>7, <2>1 DEF PortOK
  <2>3. upqs[x].pid # BADPID
    BY <1>1, <1>2
  <2> QED  BY <1>6, <1>8, <2>1, <2>2, <2>3 DEF PortOK
<1>10. Sender'
  BY <1>1, <1>2, <1>3, <1>5 DEF Sender, Active, Holds
<1>11. /\ udpmutex' \in Seq(Apps \cup {IPPROC}) /\ ipc' \in IpPCs /\ dst' \in Nat
       /\ iup' \in Slots \cup {NOBODY} /\ granted' \in BOOLEAN /\ stale' \in BOOLEAN
  BY <1>1, <1>2, <1>3 DEF IpPCs
<1>12. /\ upqs' = Put(upqs, x, upqs[x]) /\ ports' = Put(ports, x, ports[x])
       /\ got' \in [Apps -> BOOLEAN]
  BY <1>1, IpUntouched
<1>13. UNCHANGED <<dgtab, dev, apc, lastport>>
  BY <1>1
<1>14. \A c \in Apps \ {b} : apc[c] \in HasPort =>
           got'[c] = got[c] /\ (hasmsg'[c] = hasmsg[c] \/ hasmsg'[c])
  BY <1>1, <1>7
<1>15. hasmsg' \in [Apps -> BOOLEAN] /\ \A v \in Slots \ {x} : Sending(v)' = Sending(v)
  BY <1>7, <1>8
<1> QED  BY <1>4, <1>5, <1>9, <1>10, <1>11, <1>12, <1>13, <1>14, <1>15, IpPort

LEMMA UdpTold == ASSUME UdpInv, Told PROVE UdpInv'
<1>1. /\ \/ ipc = "told" /\ upqs' = [upqs EXCEPT ![iup].pid = BADPID]
         \/ ipc = "tell" /\ upqs[iup].pid = BADPID /\ upqs' = upqs
      /\ Signal /\ ipc' = "ipgetp" /\ dst' = 0 /\ iup' = NOBODY /\ stale' = FALSE
      /\ UNCHANGED <<dgtab, dev, apc, lastport, ports, got, hasmsg, granted>>
  BY DEF Told, UdpReturn, appVars
<1>2. ipc \in Active
  BY <1>1 DEF Active
<1>3. PICK x \in Slots : x = iup
  BY <1>2, AtPort
<1>4. /\ Holds(IPPROC) /\ upqs[x].port = dst /\ dst # 0
      /\ (\A v \in Slots \ {x} : Sending(v) = "no") /\ granted = FALSE
  BY <1>1, <1>2, <1>3, AtPort
<1>5. PICK b \in Apps : apc[b] \in OnPort /\ MyUp(b) = x /\ Asked(b) = dst
  BY <1>4, Found
<1>6. apc[b] \in HasPort /\ upqs[x] \in UpT /\ ports[x] \in PortT /\ upqs[x].valid
  BY <1>4, <1>5, Found DEF HasPort
<1>7. PortOK(b, apc[b], Asked(b), upqs[x], ports[x], got[b], hasmsg[b], Sending(x))
  BY <1>5, <1>6, Own
<1> DEFINE e == [upqs[x] EXCEPT !.pid = BADPID]
<1>8. e \in UpT /\ e.valid = upqs[x].valid /\ e.port = upqs[x].port /\ e.pid = BADPID
  BY <1>6 DEF UpT
<1>9. upqs' = Put(upqs, x, e)
  <2>1. CASE ipc = "told"
    BY <1>1, <1>3, <2>1 DEF Put
  <2>2. CASE upqs[x].pid = BADPID /\ upqs' = upqs
    <3>1. e = upqs[x]
      BY <1>6, <2>2 DEF UpT
    <3> QED  BY <2>2, <3>1, IpUntouched
  <2> QED  BY <1>1, <1>3, <2>1, <2>2
<1>10. /\ Sending(x) = ipc /\ (ipc = "tell" => upqs[x].pid = BADPID)
       /\ \A v \in Slots : Sending(v)' = "no"
  BY <1>1, <1>2, <1>3 DEF Sending, Active
<1> HIDE DEF e
<1>11. PortOK(b, apc[b], Asked(b), e, ports[x], got'[b], hasmsg'[b], Sending(x)')
  <2>1. hasmsg'[b] = hasmsg[b] /\ got'[b] = got[b] /\ hasmsg[b] \in BOOLEAN
    BY <1>1, <1>6 DEF UdpInv, Types
  <2>2. apc[b] = "recvtim" => hasmsg[b]
    <3>1. CASE ipc = "told"
      BY <1>7, <1>10, <3>1 DEF PortOK
    <3>2. CASE ipc = "tell"
      BY <1>7, <1>10, <3>2, Numbers DEF PortOK
    <3> QED  BY <1>1, <3>1, <3>2
  <2>3. Sending(x)' = "no" /\ Sending(x) \in {"tell", "told"}
    BY <1>1, <1>10
  <2> QED  BY <1>7, <1>8, <2>1, <2>2, <2>3 DEF PortOK
<1>12. Sender'
  BY <1>1, <1>4 DEF Sender, Active
<1>13. /\ udpmutex' \in Seq(Apps \cup {IPPROC}) /\ ipc' \in IpPCs /\ dst' \in Nat
       /\ iup' \in Slots \cup {NOBODY} /\ granted' \in BOOLEAN /\ stale' \in BOOLEAN
  BY <1>1, <1>4, IpSignals DEF IpPCs
<1>14. /\ ports' = Put(ports, x, ports[x])
       /\ got' \in [Apps -> BOOLEAN] /\ hasmsg' \in [Apps -> BOOLEAN]
  BY <1>1, IpUntouched
<1>15. UNCHANGED <<dgtab, dev, apc, lastport>> /\ \A v \in Slots \ {x} : Sending(v)' = Sending(v)
  BY <1>1, <1>4, <1>10
<1>16. \A c \in Apps \ {b} : apc[c] \in HasPort =>
           got'[c] = got[c] /\ (hasmsg'[c] = hasmsg[c] \/ hasmsg'[c])
  BY <1>1
<1>17. e.valid /\ e.port = upqs[x].port /\ e \in UpT
  BY <1>6, <1>8
<1> QED  BY <1>5, <1>6, <1>9, <1>11, <1>12, <1>13, <1>14, <1>15, <1>16, <1>17, IpPort


-----------------------------------------------------------------------------
LEMMA UdpInit == Init => UdpInv
<1> SUFFICES ASSUME Init PROVE UdpInv
  OBVIOUS
<1>1. FreeUp \in UpT /\ FreePort \in PortT /\ FreeDev \in DevT
  <2> DEFINE z == <<>>
  <2>1. z \in Seq(Nat)
    OBVIOUS
  <2>2. FreePort = [state |-> "FREE", msgs |-> z, rsem |-> 0, ssem |-> 0]
    BY DEF FreePort
  <2> HIDE DEF z
  <2> QED  BY <2>1, <2>2 DEF UpT, FreeUp, PortT, FreeDev, DevT
<1>2. \A i \in Slots : dgtab[i] = FreeDev /\ upqs[i] = FreeUp /\ ports[i] = FreePort
  BY DEF Init
<1>3. \A a \in Apps : apc[a] = "closed" /\ dev[a] = NOBODY
  BY DEF Init
<1>4. \A a \in Apps : apc[a] \notin HasPort \cup Early
  BY <1>3 DEF HasPort, OnPort, Early
<1>5. Types
  <2>1. lastport \in Ring
    BY UdpAssumption DEF Init, Ring, ULPORT
  <2>2. dgtab \in [Slots -> DevT] /\ upqs \in [Slots -> UpT] /\ ports \in [Slots -> PortT]
    BY <1>1 DEF Init
  <2>3. udpmutex \in Seq(Apps \cup {IPPROC})
    <3>1. udpmutex = <<>>
      BY DEF Init
    <3> QED  BY <3>1
  <2>4. ipc \in IpPCs /\ apc \in [Apps -> AppPCs]
    BY DEF Init, IpPCs, AppPCs
  <2>5. /\ dst \in Nat /\ iup \in Slots \cup {NOBODY} /\ granted \in BOOLEAN /\ stale \in BOOLEAN
        /\ dev \in [Apps -> Slots \cup {NOBODY}]
        /\ got \in [Apps -> BOOLEAN] /\ hasmsg \in [Apps -> BOOLEAN]
    BY DEF Init
  <2> QED  BY <2>1, <2>2, <2>3, <2>4, <2>5 DEF Types
<1>6. Devices
  BY <1>2, <1>3 DEF Devices, FreeDev
<1>7. Entries
  BY <1>2, <1>4 DEF Entries, FreeUp, Early
<1>8. Sender
  BY DEF Init, Sender, Active
<1>9. \A a \in Apps : Local(a)
  BY <1>4 DEF Local
<1> QED  BY <1>5, <1>6, <1>7, <1>8, <1>9 DEF UdpInv

LEMMA UdpStutter == ASSUME UdpInv, UNCHANGED vars PROVE UdpInv'
<1>1. /\ UNCHANGED <<dgtab, dev, apc, lastport, upqs, ports, got, hasmsg>>
      /\ UNCHANGED <<udpmutex, ipc, dst, iup, granted, stale>>
  BY DEF vars, tables, ipVars, appVars
<1>2. Sender' /\ \A v \in Slots : Sending(v)' = Sending(v)
  BY <1>1 DEF UdpInv, Sender, Sending, Holds
<1>3. /\ udpmutex' \in Seq(Apps \cup {IPPROC}) /\ ipc' \in IpPCs /\ dst' \in Nat
      /\ iup' \in Slots \cup {NOBODY} /\ granted' \in BOOLEAN /\ stale' \in BOOLEAN
  BY <1>1 DEF UdpInv, Types
<1> QED  BY <1>1, <1>2, <1>3, IpQuiet

LEMMA UdpStep == ASSUME UdpInv, [Next]_vars PROVE UdpInv'
<1>1. CASE \E d \in Dests : Arrive(d)
  BY <1>1, UdpArrive
<1>2. CASE UdpIn
  BY <1>2, UdpDrops, UdpPsendLimbo, UdpPsend, UdpPsendBlock, UdpPsendResume, UdpTell, UdpTold
     DEF UdpIn
<1>3. ASSUME NEW a \in Apps, Choice(a) PROVE UdpInv'
  BY <1>3, UdpOpen, UdpRead, UdpReadTimed, UdpWrite, UdpSetMode, UdpClear, UdpCloseWait,
     UdpStray DEF Choice
<1>4. ASSUME NEW a \in Apps, Step(a) PROVE UdpInv'
  BY <1>4, UdpCheck, UdpParse, UdpReleases, UdpUpalloc, UdpBind, UdpReadWoken, UdpReadTimeout,
     UdpTake, UdpCopy, UdpClearSender, UdpClearDone, UdpClose DEF Step
<1>5. CASE UNCHANGED vars
  BY <1>5, UdpStutter
<1> QED  BY <1>1, <1>2, <1>3, <1>4, <1>5 DEF Next

\* For every number of applications, devices, ports and buffers: a port
\* counts exactly what is queued in it and the room left, less what reader
\* and sender wait for, and belongs to one process from upalloc() to
\* dgclose(), whatever open, read, clear, close and udp_in() interleave.
THEOREM UdpInvariant == Spec => []UdpInv
<1>1. UdpInv /\ [Next]_vars => UdpInv'
  BY UdpStep
<1> QED  BY UdpInit, <1>1, PTL DEF Spec

\* What waits in a port was sent to the UDP port of the device that reads
\* it: dgclose() and udp_in() cannot leave a datagram to a later owner.
THEOREM QueuedCorrect == Spec => []QueuedAtOwner
<1>1. UdpInv => QueuedAtOwner
  <2> SUFFICES ASSUME UdpInv, NEW i \in Slots, Bound(i), NEW j \in DOMAIN ports[dgtab[i].upq].msgs
               PROVE  ports[dgtab[i].upq].msgs[j] = dgtab[i].lport
    BY DEF QueuedAtOwner
  <2>1. PICK a \in Apps : dev[a] = i
    BY DEF UdpInv, Devices, Bound
  <2>2. apc[a] \in HasPort
    <3>1. apc[a] \in AppPCs /\ apc[a] # "closed" /\ apc[a] # "release"
      BY <2>1, Numbers DEF UdpInv, Types, Devices, Bound
    <3>2. apc[a] \notin {"check", "dnparse", "upalloc"}
      BY <2>1 DEF UdpInv, Entries, MyUp, Bound
    <3> QED  BY <3>1, <3>2 DEF AppPCs, HasPort, OnPort
  <2>3. \A k \in DOMAIN ports[MyUp(a)].msgs : ports[MyUp(a)].msgs[k] = Asked(a)
    BY <2>2, Own DEF PortOK
  <2>4. MyUp(a) = dgtab[i].upq /\ Asked(a) = dgtab[i].lport
    BY <2>1 DEF MyUp, Asked
  <2> QED  BY <2>3, <2>4
<1> QED  BY UdpInvariant, <1>1, PTL

\* A timed read never sleeps past a datagram that is queued for it: the
\* order in dgread() (up_pid after pcount()) and in udp_in() (psend(), then
\* send(), then up_pid cleared) loses no wake-up.
THEOREM TimedReaderCorrect == Spec => []TimedReaderTold
<1>1. UdpInv => TimedReaderTold
  <2> SUFFICES ASSUME UdpInv, NEW a \in Apps, apc[a] = "recvtim", ports[MyUp(a)].msgs # <<>>,
                      ~hasmsg[a]
               PROVE  ipc = "tell" /\ iup = MyUp(a)
    BY DEF TimedReaderTold
  <2>1. apc[a] \in HasPort
    BY DEF HasPort, OnPort
  <2>2. Sending(MyUp(a)) = "tell"
    BY <2>1, Own DEF PortOK
  <2> QED  BY <2>2 DEF Sending
<1> QED  BY UdpInvariant, <1>1, PTL


-----------------------------------------------------------------------------
\* Buffers.  The nodes in use are pairs of a port and a place in its queue.
LEMMA NodesFinite ==
    /\ IsFiniteSet(Slots \X (1..MAXMSGS)) /\ IsFiniteSet(Nodes) /\ Cardinality(Nodes) \in Nat
    /\ Queued = Cardinality(Nodes)
<1>1. IsFiniteSet(Slots) /\ IsFiniteSet(1..MAXMSGS)
  <2>1. 0 \in Int /\ Ndg - 1 \in Int /\ 1 \in Int /\ MAXMSGS \in Int
    BY Numbers
  <2> QED  BY <2>1, FS_Interval DEF Slots
<1>2. IsFiniteSet(Slots \X (1..MAXMSGS))
  BY <1>1, FS_Product
<1>3. IsFiniteSet(Nodes)
  <2>1. Nodes \in SUBSET (Slots \X (1..MAXMSGS))
    BY DEF Nodes
  <2> QED  BY <1>2, <2>1, FS_Subset
<1>4. Queued = Cardinality(Nodes)
  BY DEF Queued, Nodes
<1> QED  BY <1>2, <1>3, <1>4, FS_CardinalityType

LEMMA CopyFinite == IsFiniteSet(InCopy) /\ Cardinality(InCopy) \in Nat
<1>1. InCopy \in SUBSET Apps
  BY DEF InCopy
<1>2. IsFiniteSet(InCopy)
  BY <1>1, UdpAssumption, FS_Subset
<1> QED  BY <1>2, FS_CardinalityType

\* The queue of a port, as nodes.
Row(x, n) == {x} \X (1..n)

LEMMA RowCount ==
    ASSUME NEW x \in Slots, NEW n \in Nat
    PROVE  IsFiniteSet(Row(x, n)) /\ Cardinality(Row(x, n)) = n
<1>1. IsFiniteSet({x}) /\ Cardinality({x}) = 1
  BY FS_Singleton
<1>2. IsFiniteSet(1..n) /\ Cardinality(1..n) = n
  BY FS_Interval
<1>3. IsFiniteSet({x} \X (1..n)) /\ Cardinality({x} \X (1..n)) = Cardinality({x}) * Cardinality(1..n)
  BY <1>1, <1>2, FS_Product
<1> QED  BY <1>1, <1>2, <1>3 DEF Row

LEMMA Lengths ==
    ASSUME UdpInv, NEW i \in Slots
    PROVE  ports[i].msgs \in Seq(Nat) /\ Len(ports[i].msgs) \in Nat
<1>1. ports[i] \in PortT
  BY DEF UdpInv, Types
<1>2. ports[i].msgs \in Seq(Nat)
  BY <1>1 DEF PortT
<1> QED  BY <1>2

\* A port whose queue has room by its own count may still find no node.
LEMMA NodeLeft ==
    ASSUME UdpInv, NEW x \in Slots, Queued < MAXMSGS, BufInv
    PROVE  Len(ports[x].msgs) < MAXMSGS
<1>1. Len(ports[x].msgs) \in Nat /\ Len(ports[x].msgs) <= MAXMSGS /\ MAXMSGS \in Nat
  BY Lengths, Numbers DEF BufInv
<1>2. PICK n \in Nat : n = Len(ports[x].msgs)
  BY <1>1
<1>3. Row(x, n) \in SUBSET Nodes
  BY <1>1, <1>2 DEF Row, Nodes
<1>4. Cardinality(Row(x, n)) <= Cardinality(Nodes)
  BY <1>3, NodesFinite, FS_Subset
<1>5. n <= Cardinality(Nodes) /\ Cardinality(Nodes) \in Nat /\ Cardinality(Nodes) < MAXMSGS
  BY <1>2, <1>4, RowCount, NodesFinite
<1> QED  BY <1>1, <1>2, <1>5

\* psend() queues one at the end, preceive() takes one, preset() and
\* pdelete() take all.
LEMMA NodeAdded ==
    ASSUME UdpInv, BufInv, NEW x \in Slots, Queued < MAXMSGS,
           Len(ports'[x].msgs) = Len(ports[x].msgs) + 1,
           \A i \in Slots \ {x} : ports'[i] = ports[i]
    PROVE  Queued' = Queued + 1 /\ \A i \in Slots : Len(ports'[i].msgs) <= MAXMSGS
<1>1. Len(ports[x].msgs) \in Nat /\ Len(ports[x].msgs) < MAXMSGS /\ MAXMSGS \in Nat
  BY Lengths, NodeLeft, Numbers
<1>2. PICK n \in Nat : n = Len(ports[x].msgs)
  BY <1>1
<1>3. n < MAXMSGS /\ Len(ports'[x].msgs) = n + 1
  BY <1>1, <1>2
<1>4. Nodes' = Nodes \cup {<<x, n + 1>>}
  <2>1. ASSUME NEW i \in Slots, NEW k \in 1..MAXMSGS
        PROVE  <<i, k>> \in Nodes' <=> <<i, k>> \in Nodes \cup {<<x, n + 1>>}
    <3>1. CASE i = x
      BY <1>1, <1>2, <1>3, <3>1, SMTT(40) DEF Nodes
    <3>2. CASE i # x
      BY <3>2 DEF Nodes
    <3> QED  BY <3>1, <3>2
  <2>2. /\ Nodes' \subseteq Slots \X (1..MAXMSGS) /\ Nodes \subseteq Slots \X (1..MAXMSGS)
        /\ <<x, n + 1>> \in Slots \X (1..MAXMSGS)
    BY <1>1, <1>3 DEF Nodes
  <2> QED  BY <2>1, <2>2
<1>5. <<x, n + 1>> \notin Nodes
  BY <1>2 DEF Nodes
<1>6. Cardinality(Nodes') = Cardinality(Nodes) + 1
  BY <1>4, <1>5, NodesFinite, FS_AddElement
<1>7. Queued' = Cardinality(Nodes') /\ Queued = Cardinality(Nodes)
  BY DEF Queued, Nodes
<1>8. \A i \in Slots : Len(ports'[i].msgs) <= MAXMSGS
  BY <1>1, <1>3 DEF BufInv
<1> QED  BY <1>6, <1>7, <1>8

LEMMA NodeTaken ==
    ASSUME UdpInv, BufInv, NEW x \in Slots, Len(ports[x].msgs) > 0,
           Len(ports'[x].msgs) = Len(ports[x].msgs) - 1,
           \A i \in Slots \ {x} : ports'[i] = ports[i]
    PROVE  Queued' = Queued - 1 /\ \A i \in Slots : Len(ports'[i].msgs) <= MAXMSGS
<1>1. Len(ports[x].msgs) \in Nat /\ Len(ports[x].msgs) <= MAXMSGS /\ MAXMSGS \in Nat
  BY Lengths, Numbers DEF BufInv
<1>2. PICK n \in Nat : n = Len(ports[x].msgs)
  BY <1>1
<1>3. n <= MAXMSGS /\ n > 0 /\ Len(ports'[x].msgs) = n - 1
  BY <1>1, <1>2
<1>4. Nodes' = Nodes \ {<<x, n>>}
  <2>1. ASSUME NEW i \in Slots, NEW k \in 1..MAXMSGS
        PROVE  <<i, k>> \in Nodes' <=> <<i, k>> \in Nodes \ {<<x, n>>}
    <3>1. CASE i = x
      BY <1>1, <1>2, <1>3, <3>1 DEF Nodes
    <3>2. CASE i # x
      BY <3>2 DEF Nodes
    <3> QED  BY <3>1, <3>2
  <2>2. Nodes' \subseteq Slots \X (1..MAXMSGS) /\ Nodes \subseteq Slots \X (1..MAXMSGS)
    BY DEF Nodes
  <2> QED  BY <2>1, <2>2
<1>5. <<x, n>> \in Nodes
  BY <1>1, <1>2, <1>3 DEF Nodes
<1>6. Cardinality(Nodes') = Cardinality(Nodes) - 1
  BY <1>4, <1>5, NodesFinite, FS_RemoveElement
<1>7. Queued' = Cardinality(Nodes') /\ Queued = Cardinality(Nodes)
  BY DEF Queued, Nodes
<1>8. \A i \in Slots : Len(ports'[i].msgs) <= MAXMSGS
  BY <1>1, <1>3 DEF BufInv
<1> QED  BY <1>6, <1>7, <1>8

LEMMA NodesDropped ==
    ASSUME UdpInv, BufInv, NEW x \in Slots, Len(ports'[x].msgs) = 0,
           \A i \in Slots \ {x} : ports'[i] = ports[i]
    PROVE  Queued' = Queued - Len(ports[x].msgs) /\ \A i \in Slots : Len(ports'[i].msgs) <= MAXMSGS
<1>1. Len(ports[x].msgs) \in Nat /\ Len(ports[x].msgs) <= MAXMSGS /\ MAXMSGS \in Nat
  BY Lengths, Numbers DEF BufInv
<1>2. PICK n \in Nat : n = Len(ports[x].msgs)
  BY <1>1
<1>3. Nodes' = Nodes \ Row(x, n)
  <2>1. ASSUME NEW i \in Slots, NEW k \in 1..MAXMSGS
        PROVE  <<i, k>> \in Nodes' <=> <<i, k>> \in Nodes \ Row(x, n)
    <3>1. CASE i = x
      BY <1>1, <1>2, <3>1 DEF Nodes, Row
    <3>2. CASE i # x
      BY <3>2 DEF Nodes, Row
    <3> QED  BY <3>1, <3>2
  <2>2. Nodes' \subseteq Slots \X (1..MAXMSGS) /\ Nodes \subseteq Slots \X (1..MAXMSGS)
    BY DEF Nodes
  <2> QED  BY <2>1, <2>2
<1>4. Nodes \cap Row(x, n) = Row(x, n)
  BY <1>1, <1>2 DEF Nodes, Row
<1>5. Cardinality(Nodes') = Cardinality(Nodes) - n
  <2>1. Cardinality(Nodes \ Row(x, n)) = Cardinality(Nodes) - Cardinality(Nodes \cap Row(x, n))
    BY NodesFinite, FS_Difference
  <2>2. Cardinality(Row(x, n)) = n
    BY RowCount
  <2> QED  BY <1>3, <1>4, <2>1, <2>2
<1>6. Queued' = Cardinality(Nodes') /\ Queued = Cardinality(Nodes)
  BY DEF Queued, Nodes
<1>7. \A i \in Slots : Len(ports'[i].msgs) <= MAXMSGS
  BY <1>1 DEF BufInv
<1> QED  BY <1>2, <1>5, <1>6, <1>7


\* A step that moves buffers between the pool, the queues, udp_in() and the
\* device.
LEMMA BufMoved ==
    ASSUME UdpInv, BufInv, netfree' \in Nat, leaked' \in Nat, InCopy' = InCopy,
           \A i \in Slots : Len(ports'[i].msgs) <= MAXMSGS, Queued' \in Int,
           netfree' + Queued' + leaked' + InUdp' = netfree + Queued + leaked + InUdp
    PROVE  BufInv'
<1>1. /\ Cardinality(InCopy)' = Cardinality(InCopy) /\ Cardinality(InCopy) \in Nat
      /\ Queued \in Nat /\ InUdp \in Nat /\ InUdp' \in Nat
  BY NodesFinite, CopyFinite DEF InUdp
<1>2. netfree + Queued + leaked + InUdp + Cardinality(InCopy) = NETBUFS
  BY DEF BufInv
<1>3. netfree' + Queued' + leaked' + InUdp' + Cardinality(InCopy)' = NETBUFS
  BY <1>1, <1>2
<1> QED  BY <1>3 DEF BufInv

\* No queue changes.
QueuesKept == \A i \in Slots : ports'[i].msgs = ports[i].msgs

LEMMA BufKept ==
    ASSUME UdpInv, BufInv, netfree' \in Nat, leaked' \in Nat, InCopy' = InCopy,
           QueuesKept,
           netfree' + leaked' + InUdp' = netfree + leaked + InUdp
    PROVE  BufInv'
<1>1. Nodes' = Nodes
  BY DEF Nodes, QueuesKept
<1>2. Queued' = Queued /\ Queued \in Nat
  BY <1>1, NodesFinite DEF Queued, Nodes
<1>3. \A i \in Slots : Len(ports'[i].msgs) <= MAXMSGS
  BY DEF BufInv, QueuesKept
<1>4. netfree' + Queued' + leaked' + InUdp' = netfree + Queued + leaked + InUdp
  <2>1. netfree \in Nat /\ leaked \in Nat /\ InUdp \in Nat /\ InUdp' \in Nat
    BY DEF BufInv, InUdp
  <2>2. \A i, j, k, m \in Nat : i + j + k + m = i + m + j + k
    OBVIOUS
  <2>3. netfree' \in Nat /\ leaked' \in Nat /\ Queued' \in Nat
    BY <1>2
  <2>4. /\ netfree + leaked + InUdp + Queued = netfree + Queued + leaked + InUdp
        /\ netfree' + leaked' + InUdp' + Queued' = netfree' + Queued' + leaked' + InUdp'
    BY <1>2, <2>1, <2>2, <2>3
  <2>5. netfree' + leaked' + InUdp' + Queued' = netfree + leaked + InUdp + Queued
    BY <1>2
  <2> QED  BY <2>4, <2>5
<1> QED  BY <1>2, <1>3, <1>4, BufMoved

\* An application that goes from one place to another, neither of which is
\* dgread() with a datagram in hand.
LEMMA CopyKept ==
    ASSUME UdpInv, NEW a \in Apps, apc[a] # "copy", NEW pc \in AppPCs, pc # "copy", Goto(a, pc)
    PROVE  InCopy' = InCopy
<1>1. apc \in [Apps -> AppPCs] /\ apc' = [apc EXCEPT ![a] = pc]
  BY DEF UdpInv, Types, Goto
<1>2. \A b \in Apps : apc'[b] = "copy" <=> apc[b] = "copy"
  BY <1>1
<1> QED  BY <1>2 DEF InCopy

\* Most of what applications do leaves every buffer where it is.
LEMMA BufElsewhere ==
    ASSUME UdpInv, BufInv, NEW a \in Apps,
           \/ \E n \in Asks[a] : Open(a, n)
           \/ Check(a) \/ CheckFails(a) \/ Parse(a) \/ ParseFails(a) \/ Bind(a)
           \/ ReadTimed(a) \/ ReadTimeout(a) \/ CloseWait(a) \/ CloseDone(a)
    PROVE  BufInv'
<1>1. UNCHANGED <<ports, ipc, netfree, leaked>>
  BY ZenonT(40) DEF Open, Check, CheckFails, Parse, ParseFails, Bind, ReadTimed, ReadTimeout, CloseWait,
         CloseDone, ipVars, bufVars, tables
<1>2. apc[a] # "copy" /\ \E pc \in AppPCs \ {"copy"} : Goto(a, pc)
  BY ZenonT(40) DEF Open, Check, CheckFails, Parse, ParseFails, Bind, ReadTimed, ReadTimeout, CloseWait,
         CloseDone, App, AppPCs
<1>3. InCopy' = InCopy
  BY <1>2, CopyKept
<1>4. InUdp' = InUdp /\ netfree' \in Nat /\ leaked' \in Nat
  BY <1>1 DEF InUdp, BufInv
<1>5. QueuesKept
  BY <1>1 DEF QueuesKept
<1>6. netfree' + leaked' + InUdp' = netfree + leaked + InUdp
  BY <1>1, <1>4
<1> QED  BY <1>3, <1>4, <1>5, <1>6, BufKept

LEMMA BufModes == ASSUME UdpInv, BufInv, NEW a \in Apps, SetMode(a) \/ Stray(a) \/ Write(a) PROVE BufInv'
<1>1. UNCHANGED <<ports, ipc, apc>>
  BY DEF SetMode, Stray, Write, ipVars, appVars
<1>2. /\ netfree' \in Nat /\ leaked' \in Nat /\ netfree' + leaked' = netfree + leaked
      /\ netfree \in Nat /\ leaked \in Nat
  <2>1. netfree \in Nat /\ leaked \in Nat
    BY DEF BufInv
  <2>2. CASE Write(a)
    BY <2>1, <2>2 DEF Write, Udpsend
  <2>3. CASE SetMode(a) \/ Stray(a)
    BY <2>1, <2>3 DEF SetMode, Stray, bufVars
  <2> QED  BY <2>1, <2>2, <2>3
<1>3. InCopy' = InCopy /\ InUdp' = InUdp /\ InUdp \in Nat
  BY <1>1 DEF InCopy, InUdp
<1>4. QueuesKept
  BY <1>1 DEF QueuesKept
<1>5. netfree' + leaked' + InUdp' = netfree + leaked + InUdp
  BY <1>2, <1>3
<1> QED  BY <1>2, <1>3, <1>4, <1>5, BufKept

\* Semaphores of a port are counted, its queue is not touched.
LEMMA BufCounts ==
    ASSUME UdpInv, BufInv, NEW a \in Apps,
           Read(a) \/ ReadWoken(a) \/ Upalloc(a) \/ ClearSender(a) \/ ClearDone(a)
    PROVE  BufInv'
<1>1. UNCHANGED <<ipc, netfree, leaked>>
  BY DEF Read, ReadWoken, Upalloc, ClearSender, ClearDone, ipVars, bufVars
<1>2. apc[a] # "copy" /\ \E pc \in AppPCs \ {"copy"} : Goto(a, pc)
  BY DEF Read, ReadWoken, Upalloc, ClearSender, ClearDone, App, AppPCs, Preceive
<1>3. InCopy' = InCopy
  BY <1>2, CopyKept
<1>4. InUdp' = InUdp /\ netfree' \in Nat /\ leaked' \in Nat
  BY <1>1 DEF InUdp, BufInv
<1>5. QueuesKept
  <2> SUFFICES \A i \in Slots : ports'[i].msgs = ports[i].msgs
    BY DEF QueuesKept
  <2>0. ports \in [Slots -> PortT]
    BY DEF UdpInv, Types
  <2>1. CASE Upalloc(a)
    <3>1. PICK u \in Slots : /\ ~upqs[u].valid
                             /\ ports' = [ports EXCEPT ![u] = [FreePort EXCEPT !.state = "ALLOC", !.ssem = UPPLEN]]
      BY <2>1 DEF Upalloc, FreeEntry
    <3>2. ports[u] = FreePort
      BY <3>1 DEF UdpInv, Entries
    <3>3. [FreePort EXCEPT !.state = "ALLOC", !.ssem = UPPLEN].msgs = FreePort.msgs
      BY DEF FreePort
    <3> QED  BY <2>0, <3>1, <3>2, <3>3
  <2>2. CASE ~Upalloc(a)
    <3>1. \/ ports' = [ports EXCEPT ![MyUp(a)].rsem = @ - 1]
          \/ ports' = [ports EXCEPT ![MyUp(a)].ssem = UPPLEN]
          \/ ports' = [ports EXCEPT ![MyUp(a)].state = "ALLOC", ![MyUp(a)].rsem = 0]
      BY <2>2 DEF Read, ReadWoken, ClearSender, ClearDone, Preceive
    <3>2. MyUp(a) \in Slots /\ ports[MyUp(a)] \in PortT
      <4>1. apc[a] \in HasPort
        BY <2>2 DEF Read, ReadWoken, ClearSender, ClearDone, App, HasPort, OnPort
      <4> QED  BY <4>1, Own
    <3>3. PICK u \in Slots : u = MyUp(a)
      BY <3>2
    <3>4. CASE ports' = [ports EXCEPT ![u].rsem = @ - 1]
      BY <2>0, <3>4 DEF PortT
    <3>5. CASE ports' = [ports EXCEPT ![u].ssem = UPPLEN]
      BY <2>0, <3>5 DEF PortT
    <3>6. CASE ports' = [ports EXCEPT ![u].state = "ALLOC", ![u].rsem = 0]
      <4>1. ports'[u].msgs = ports[u].msgs /\ \A i \in Slots \ {u} : ports'[i] = ports[i]
        BY <2>0, <3>6 DEF PortT
      <4> QED  BY <4>1
    <3> QED  BY <3>1, <3>3, <3>4, <3>5, <3>6
  <2> QED  BY <2>1, <2>2
<1>6. netfree' + leaked' + InUdp' = netfree + leaked + InUdp
  BY <1>1, <1>4
<1> QED  BY <1>3, <1>4, <1>5, <1>6, BufKept

LEMMA BufTake == ASSUME UdpInv, BufInv, NEW a \in Apps, Take(a) PROVE BufInv'
<1>1. /\ apc[a] = "preceive" /\ apc' = [apc EXCEPT ![a] = "copy"] /\ UNCHANGED <<ipc, netfree, leaked>>
      /\ ports' = [ports EXCEPT ![MyUp(a)].msgs = Tail(@), ![MyUp(a)].ssem = @ + 1]
  BY DEF Take, App, Goto, bufVars
<1>2. PICK x \in Slots : x = MyUp(a)
  BY TakeFacts
<1>3. /\ ports[x].msgs \in Seq(Nat) /\ Len(ports[x].msgs) > 0 /\ ports[x] \in PortT
      /\ ports \in [Slots -> PortT]
  BY <1>2, TakeFacts DEF UdpInv, Types
<1>4. ports'[x].msgs = Tail(ports[x].msgs) /\ \A i \in Slots \ {x} : ports'[i] = ports[i]
  BY <1>1, <1>2, <1>3 DEF PortT
<1>5. Len(ports'[x].msgs) = Len(ports[x].msgs) - 1
  BY <1>3, <1>4
<1>6. Queued' = Queued - 1 /\ \A i \in Slots : Len(ports'[i].msgs) <= MAXMSGS
  BY <1>3, <1>4, <1>5, NodeTaken
<1>7. InCopy' = InCopy \cup {a} /\ a \notin InCopy
  <2>1. apc'[a] = "copy" /\ \A b \in Apps \ {a} : apc'[b] = apc[b]
    BY <1>1 DEF UdpInv, Types
  <2> QED  BY <1>1, <2>1 DEF InCopy
<1>8. Cardinality(InCopy)' = Cardinality(InCopy) + 1 /\ Cardinality(InCopy) \in Nat
  BY <1>7, CopyFinite, FS_AddElement
<1>9. /\ netfree + Queued + leaked + InUdp + Cardinality(InCopy) = NETBUFS
      /\ netfree \in Nat /\ leaked \in Nat /\ InUdp \in Nat /\ InUdp' = InUdp /\ Queued \in Nat
  BY <1>1, NodesFinite DEF BufInv, InUdp
<1>10. netfree' + Queued' + leaked' + InUdp' + Cardinality(InCopy)' = NETBUFS
  BY <1>1, <1>6, <1>8, <1>9
<1> QED  BY <1>1, <1>6, <1>9, <1>10 DEF BufInv

LEMMA BufCopy == ASSUME UdpInv, BufInv, NEW a \in Apps, Copy(a) PROVE BufInv'
<1>1. /\ apc[a] = "copy" /\ apc' = [apc EXCEPT ![a] = "idle"] /\ UNCHANGED <<ipc, ports, leaked>>
      /\ netfree' = netfree + 1
  BY DEF Copy, App, Goto, ipVars
<1>2. Queued' = Queued /\ Queued \in Nat
  BY <1>1, NodesFinite DEF Queued
<1>3. InCopy' = InCopy \ {a} /\ a \in InCopy
  <2>1. apc'[a] # "copy" /\ \A b \in Apps \ {a} : apc'[b] = apc[b]
    BY <1>1 DEF UdpInv, Types
  <2> QED  BY <1>1, <2>1 DEF InCopy
<1>4. Cardinality(InCopy)' = Cardinality(InCopy) - 1 /\ Cardinality(InCopy) \in Nat
  BY <1>3, CopyFinite, FS_RemoveElement
<1>5. /\ netfree + Queued + leaked + InUdp + Cardinality(InCopy) = NETBUFS
      /\ netfree \in Nat /\ leaked \in Nat /\ InUdp \in Nat /\ InUdp' = InUdp
  BY <1>1 DEF BufInv, InUdp
<1>6. netfree' + Queued' + leaked' + InUdp' + Cardinality(InCopy)' = NETBUFS
  BY <1>1, <1>2, <1>4, <1>5
<1>7. netfree' \in Nat /\ leaked' \in Nat /\ \A i \in Slots : Len(ports'[i].msgs) <= MAXMSGS
  BY <1>1, <1>5 DEF BufInv
<1> QED  BY <1>6, <1>7 DEF BufInv

\* preset() and pdelete() free what is queued.
LEMMA BufDrops == ASSUME UdpInv, BufInv, NEW a \in Apps, Clear(a) \/ Close(a) PROVE BufInv'
<1>1. /\ apc[a] \in {"idle", "dgclose"} /\ UNCHANGED <<ipc, leaked>>
      /\ netfree' = netfree + Len(ports[MyUp(a)].msgs)
      /\ \/ ports' = [ports EXCEPT ![MyUp(a)].state = "LIMBO", ![MyUp(a)].msgs = <<>>]
         \/ ports' = [ports EXCEPT ![MyUp(a)] = FreePort]
      /\ \E pc \in AppPCs \ {"copy"} : Goto(a, pc)
  BY DEF Clear, Close, Pdelete, App, AppPCs, ipVars
<1>2. apc[a] \in HasPort /\ apc[a] # "copy"
  BY <1>1 DEF HasPort, OnPort
<1>3. PICK x \in Slots : x = MyUp(a)
  BY <1>2, Own
<1>4. ports \in [Slots -> PortT] /\ Len(ports[x].msgs) \in Nat
  BY Lengths DEF UdpInv, Types
<1>5. ports'[x].msgs = <<>> /\ \A i \in Slots \ {x} : ports'[i] = ports[i]
  BY <1>1, <1>3, <1>4 DEF PortT, FreePort
<1>6. Len(ports'[x].msgs) = 0
  BY <1>5
<1>7. Queued' = Queued - Len(ports[x].msgs) /\ \A i \in Slots : Len(ports'[i].msgs) <= MAXMSGS
  BY <1>5, <1>6, NodesDropped
<1>8. InCopy' = InCopy
  BY <1>1, <1>2, CopyKept
<1>9. netfree \in Nat /\ leaked \in Nat /\ InUdp \in Nat /\ InUdp' = InUdp /\ Queued \in Nat
  BY <1>1, NodesFinite DEF BufInv, InUdp
<1>10. /\ netfree' \in Nat /\ leaked' \in Nat /\ Queued' \in Int
       /\ netfree' + Queued' + leaked' + InUdp' = netfree + Queued + leaked + InUdp
  BY <1>1, <1>3, <1>4, <1>7, <1>9
<1> QED  BY <1>7, <1>8, <1>10, BufMoved


\* udp_in() takes a buffer from the pool, and gives it back or leaves it
\* with the device.
LEMMA BufUdpIn ==
    ASSUME UdpInv, BufInv, (\E d \in Dests : Arrive(d)) \/ NoPort \/ DropFull
                             \/ (\E x \in Slots : PsendLimbo(x))
    PROVE  BufInv'
<1>1. UNCHANGED <<ports, apc>>
  BY DEF Arrive, NoPort, DropFull, PsendLimbo, appVars
<1>2. netfree \in Nat /\ leaked \in Nat
  BY DEF BufInv
<1>3. /\ netfree' \in Nat /\ leaked' \in Nat
      /\ netfree' + leaked' + InUdp' = netfree + leaked + InUdp
  <2>1. CASE \E d \in Dests : Arrive(d)
    <3>1. InUdp = 0 /\ InUdp' = 1 /\ netfree' = netfree - 1 /\ netfree > 0 /\ leaked' = leaked
      BY <2>1 DEF Arrive, InUdp
    <3> QED  BY <1>2, <3>1
  <2>2. CASE NoPort \/ DropFull
    <3>1. /\ InUdp = 1 /\ InUdp' = 0
          /\ \/ leaked' = leaked + 1 /\ netfree' = netfree
             \/ netfree' = netfree + 1 /\ leaked' = leaked
      BY <2>2 DEF NoPort, DropFull, Searching, UdpReturn, InUdp
    <3> QED  BY <1>2, <3>1
  <2>3. CASE \E x \in Slots : PsendLimbo(x)
    <3>1. InUdp = 1 /\ InUdp' = 0 /\ leaked' = leaked + 1 /\ netfree' = netfree
      BY <2>3 DEF PsendLimbo, Fits, Searching, InUdp
    <3> QED  BY <1>2, <3>1
  <2> QED  BY <2>1, <2>2, <2>3
<1>4. InCopy' = InCopy /\ QueuesKept
  BY <1>1 DEF InCopy, QueuesKept
<1> QED  BY <1>3, <1>4, BufKept

\* It queues the buffer.
LEMMA BufPlaced ==
    ASSUME UdpInv, BufInv, NEW x \in Slots, NEW left \in Int, Placed(x, left), Queued < MAXMSGS,
           dst \in Nat, ipc \in {"udp_in", "psend"}, ipc' = "tell",
           UNCHANGED <<apc, netfree, leaked>>
    PROVE  BufInv'
<1>1. ports \in [Slots -> PortT] /\ ports[x].msgs \in Seq(Nat) /\ Len(ports[x].msgs) \in Nat
  BY Lengths DEF UdpInv, Types
<1>2. /\ ports'[x].msgs = Append(ports[x].msgs, dst)
      /\ \A i \in Slots \ {x} : ports'[i] = ports[i]
  BY <1>1 DEF Placed, PortT
<1>3. Len(ports'[x].msgs) = Len(ports[x].msgs) + 1
  BY <1>1, <1>2
<1>4. Queued' = Queued + 1 /\ \A i \in Slots : Len(ports'[i].msgs) <= MAXMSGS
  BY <1>2, <1>3, NodeAdded
<1>5. InCopy' = InCopy /\ InUdp = 1 /\ InUdp' = 0
  BY DEF InCopy, InUdp
<1>6. netfree \in Nat /\ leaked \in Nat /\ Queued \in Nat
  BY NodesFinite DEF BufInv
<1>7. /\ netfree' \in Nat /\ leaked' \in Nat /\ Queued' \in Int
      /\ netfree' + Queued' + leaked' + InUdp' = netfree + Queued + leaked + InUdp
  BY <1>4, <1>5, <1>6
<1> QED  BY <1>4, <1>5, <1>7, BufMoved

\* Steps of udp_in() after which every buffer is where it was.
LEMMA BufStays ==
    ASSUME UdpInv, BufInv, InUdp' = InUdp, UNCHANGED <<netfree, leaked, apc>>, QueuesKept
    PROVE  BufInv'
<1>1. InCopy' = InCopy
  BY DEF InCopy
<1>2. netfree' \in Nat /\ leaked' \in Nat /\ netfree' + leaked' + InUdp' = netfree + leaked + InUdp
  BY DEF BufInv
<1> QED  BY <1>1, <1>2, BufKept

LEMMA BufPsend == ASSUME UdpInv, BufInv, NEW x \in Slots, Psend(x) PROVE BufInv'
<1>1. /\ Fits(x) /\ ports[x].state = "ALLOC" /\ PutNode(x, ports[x].ssem - 1)
      /\ UNCHANGED <<apc, netfree, leaked>>
  BY DEF Psend, bufVars
<1>2. ipc = "udp_in" /\ upqs[x].port = dst /\ dst # 0 /\ dst \in Nat
  BY <1>1, Searched
<1>3. ports[x].ssem \in Int
  BY <1>1, <1>2, Room
<1>4. CASE Queued < MAXMSGS /\ ipc' = "tell" /\ Placed(x, ports[x].ssem - 1)
  <2>1. ports[x].ssem - 1 \in Int
    BY <1>3
  <2>2. PICK left \in Int : left = ports[x].ssem - 1
    BY <2>1
  <2>3. Placed(x, left) /\ ipc \in {"udp_in", "psend"}
    BY <1>2, <1>4, <2>2
  <2> QED  BY <1>1, <1>2, <1>4, <2>3, BufPlaced
<1>5. CASE UNCHANGED <<ports, ipc>>
  <2>1. InUdp' = InUdp /\ QueuesKept
    BY <1>5 DEF InUdp, QueuesKept
  <2> QED  BY <1>1, <2>1, BufStays
<1> QED  BY <1>1, <1>4, <1>5 DEF PutNode, Placed

LEMMA BufPsendBlock == ASSUME UdpInv, BufInv, NEW x \in Slots, PsendBlock(x) PROVE BufInv'
<1>1. /\ ipc = "udp_in" /\ ipc' = "psend" /\ ports' = [ports EXCEPT ![x].ssem = @ - 1]
      /\ UNCHANGED <<apc, netfree, leaked>>
  BY DEF PsendBlock, Fits, Searching, appVars, bufVars
<1>2. InUdp' = InUdp
  BY <1>1 DEF InUdp
<1>3. ports \in [Slots -> PortT]
  BY DEF UdpInv, Types
<1>4. QueuesKept
  BY <1>1, <1>3 DEF QueuesKept, PortT
<1>5. UNCHANGED <<netfree, leaked, apc>>
  BY <1>1
<1> QED  BY <1>2, <1>4, <1>5, BufStays

LEMMA BufPsendResume == ASSUME UdpInv, BufInv, PsendResume PROVE BufInv'
<1>1. /\ ipc = "psend" /\ granted /\ UNCHANGED <<apc, netfree>>
      /\ \/ ~stale /\ PutNode(iup, ports[iup].ssem) /\ leaked' = leaked
         \/ stale /\ leaked' = leaked + 1 /\ ipc' = "tell" /\ ports' = ports
  BY DEF PsendResume
<1>2. ipc \in Active
  BY <1>1 DEF Active
<1>3. PICK x \in Slots : x = iup
  BY <1>2, AtPort
<1>4. dst \in Nat /\ ports[x].ssem \in Int
  <2>1. ports[x] \in PortT
    BY DEF UdpInv, Types
  <2> QED  BY <1>2, <2>1, AtPort DEF PortT
<1>5. CASE Queued < MAXMSGS /\ ipc' = "tell" /\ Placed(iup, ports[iup].ssem) /\ leaked' = leaked
  <2>1. Placed(x, ports[x].ssem) /\ ipc \in {"udp_in", "psend"}
    BY <1>1, <1>3, <1>5
  <2>2. UNCHANGED <<apc, netfree, leaked>>
    BY <1>1, <1>5
  <2> QED  BY <1>4, <1>5, <2>1, <2>2, BufPlaced
<1>6. CASE UNCHANGED <<ports, ipc, leaked>>
  <2>1. InUdp' = InUdp /\ QueuesKept /\ UNCHANGED <<netfree, leaked, apc>>
    BY <1>1, <1>6 DEF InUdp, QueuesKept
  <2> QED  BY <2>1, BufStays
<1>7. CASE leaked' = leaked + 1 /\ ipc' = "tell" /\ ports' = ports
  <2>1. InUdp = 1 /\ InUdp' = 0 /\ InCopy' = InCopy /\ QueuesKept
    BY <1>1, <1>7 DEF InUdp, InCopy, QueuesKept
  <2>2. netfree \in Nat /\ leaked \in Nat
    BY DEF BufInv
  <2>3. /\ netfree' \in Nat /\ leaked' \in Nat
        /\ netfree' + leaked' + InUdp' = netfree + leaked + InUdp
    BY <1>1, <1>7, <2>1, <2>2
  <2> QED  BY <2>1, <2>3, BufKept
<1> QED  BY <1>1, <1>5, <1>6, <1>7 DEF PutNode, Placed

LEMMA BufTells == ASSUME UdpInv, BufInv, Tell \/ Told PROVE BufInv'
<1>1. /\ ipc \in {"tell", "told"} /\ ipc' \in {"told", "ipgetp"}
      /\ UNCHANGED <<netfree, leaked, apc>> /\ ports' = ports
  BY DEF Tell, Told, UdpReturn, appVars, bufVars
<1>2. InUdp' = InUdp /\ QueuesKept
  BY <1>1 DEF InUdp, QueuesKept
<1>3. UNCHANGED <<netfree, leaked, apc>>
  BY <1>1
<1> QED  BY <1>2, <1>3, BufStays

LEMMA BufStutter == ASSUME UdpInv, BufInv, UNCHANGED vars PROVE BufInv'
<1>1. UNCHANGED <<netfree, leaked, apc>> /\ UNCHANGED <<ports, ipc>>
  BY DEF vars, appVars, ipVars, bufVars
<1>2. InUdp' = InUdp /\ QueuesKept /\ UNCHANGED <<netfree, leaked, apc>>
  BY <1>1 DEF InUdp, QueuesKept
<1> QED  BY <1>2, BufStays

LEMMA BufStep == ASSUME UdpInv, BufInv, [Next]_vars PROVE BufInv'
<1>1. CASE \E d \in Dests : Arrive(d)
  BY <1>1, BufUdpIn
<1>2. CASE UdpIn
  BY <1>2, BufUdpIn, BufPsend, BufPsendBlock, BufPsendResume, BufTells DEF UdpIn
<1>3. ASSUME NEW a \in Apps, Choice(a) PROVE BufInv'
  BY <1>3, BufElsewhere, BufCounts, BufModes, BufDrops DEF Choice
<1>4. ASSUME NEW a \in Apps, Step(a) PROVE BufInv'
  BY <1>4, BufElsewhere, BufCounts, BufTake, BufCopy, BufDrops DEF Step
<1>5. CASE UNCHANGED vars
  BY <1>5, BufStutter
<1> QED  BY <1>1, <1>2, <1>3, <1>4, <1>5 DEF Next

LEMMA BufInit == Init => BufInv
<1> SUFFICES ASSUME Init PROVE BufInv
  OBVIOUS
<1>1. \A i \in Slots : ports[i].msgs = <<>>
  BY DEF Init, FreePort
<1>2. \A i \in Slots : Len(ports[i].msgs) = 0
  BY <1>1
<1>3. Nodes = {} /\ InCopy = {}
  <2>1. Nodes = {}
    BY <1>2, Numbers DEF Nodes
  <2>2. InCopy = {}
    BY DEF Init, InCopy
  <2> QED  BY <2>1, <2>2
<1>4. Queued = 0 /\ Cardinality(InCopy) = 0
  <2>1. Queued = Cardinality(Nodes)
    BY NodesFinite
  <2> QED  BY <1>3, <2>1, FS_EmptySet
<1>5. netfree = NETBUFS /\ leaked = 0 /\ InUdp = 0
  BY DEF Init, InUdp
<1>6. \A i \in Slots : Len(ports[i].msgs) <= MAXMSGS
  BY <1>2, Numbers
<1> QED  BY <1>4, <1>5, <1>6, Numbers DEF BufInv

\* The counts of a port stay in their range.
LEMMA CountsBounded ==
    ASSUME UdpInv, NEW i \in Slots
    PROVE  ports[i].rsem \in -1..UPPLEN /\ ports[i].ssem \in -1..UPPLEN
<1>1. CASE ~upqs[i].valid
  <2>1. ports[i] = FreePort
    BY <1>1 DEF UdpInv, Entries
  <2> QED  BY <2>1, Numbers DEF FreePort
<1>2. CASE upqs[i].valid
  <2>1. PICK b \in Apps : apc[b] \in HasPort /\ MyUp(b) = i
    BY <1>2 DEF UdpInv, Entries
  <2>2. PortOK(b, apc[b], Asked(b), upqs[i], ports[i], got[b], hasmsg[b], Sending(i))
    BY <2>1, Own
  <2>3. Len(ports[i].msgs) \in Nat /\ UPPLEN \in Nat /\ Len(ports[i].msgs) <= UPPLEN
    BY <2>2, Lengths, Numbers DEF PortOK
  <2>4. ports[i].rsem \in -1..UPPLEN
    <3>1. CASE apc[b] \in Limbo
      <4>1. ports[i].rsem \in 0..UPPLEN
        BY <2>2, <3>1 DEF PortOK
      <4> QED  BY <2>3, <4>1
    <3>2. CASE apc[b] \notin Limbo
      <4>1. ports[i].rsem = Len(ports[i].msgs) - (IF apc[b] = "preceive" THEN 1 ELSE 0)
        BY <2>2, <3>2 DEF PortOK
      <4> QED  BY <2>3, <4>1
    <3> QED  BY <3>1, <3>2
  <2>5. ports[i].ssem \in -1..UPPLEN
    <3>1. CASE apc[b] = "preset"
      BY <2>2, <3>1 DEF PortOK
    <3>2. CASE apc[b] # "preset"
      <4>1. ports[i].ssem = UPPLEN - Len(ports[i].msgs)
                              - (IF Sending(i) \in {"psend", "granted"} THEN 1 ELSE 0)
        BY <2>2, <3>2 DEF PortOK
      <4>2. CASE Sending(i) \in {"psend", "granted"}
        BY <2>3, <4>1, <4>2
      <4>3. CASE Sending(i) \notin {"psend", "granted"}
        BY <2>3, <4>1, <4>3
      <4> QED  BY <4>2, <4>3
    <3> QED  BY <3>1, <3>2
  <2> QED  BY <2>4, <2>5
<1> QED  BY <1>1, <1>2

\* The buffer of every datagram is in exactly one place, and the counts of
\* the semaphores stay in range, for every number of processes, devices,
\* nodes and buffers: neither preset() and pdelete(), which free a queue,
\* nor a psend() that waited across them, frees or loses one twice.
THEOREM UdpBuffersCorrect == Spec => []BuffersConserved
<1>1. UdpInv /\ BufInv => BuffersConserved
  <2> SUFFICES ASSUME UdpInv, BufInv PROVE BuffersConserved
    OBVIOUS
  <2>1. netfree + Queued + leaked + InUdp + Cardinality(InCopy) = NETBUFS
    BY DEF BufInv
  <2>2. /\ netfree \in Nat /\ leaked \in Nat /\ Queued \in Nat /\ InUdp \in Nat
        /\ Cardinality(InCopy) \in Nat /\ NETBUFS \in Nat
    BY NodesFinite, CopyFinite, Numbers DEF BufInv, InUdp
  <2>3. netfree \in 0..NETBUFS /\ leaked \in 0..NETBUFS
    BY <2>1, <2>2
  <2>4. \A i \in Slots : /\ dgtab[i].state \in {"FREE", "INUSE"}
                         /\ upqs[i].pid \in Apps \cup {BADPID}
                         /\ ports[i].state \in {"FREE", "LIMBO", "ALLOC"}
    BY DEF UdpInv, Types, DevT, UpT, PortT
  <2>5. ipc \in IpPCs /\ apc \in [Apps -> AppPCs] /\ dev \in [Apps -> Slots \cup {NOBODY}] /\ lastport \in Ring
    BY DEF UdpInv, Types
  <2>6. TypeOK
    BY <2>3, <2>4, <2>5, CountsBounded DEF TypeOK
  <2> QED  BY <2>1, <2>6 DEF BuffersConserved, InUdp, InCopy
<1>2. UdpInv /\ BufInv /\ [Next]_vars => BufInv'
  BY BufStep
<1> QED  BY UdpInvariant, BufInit, <1>1, <1>2, PTL DEF Spec
=============================================================================

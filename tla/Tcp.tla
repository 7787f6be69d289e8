-------------------------------- MODULE Tcp --------------------------------
(***************************************************************************)
(* The processes around the control blocks of TcpBlock: tcpinp and tcpout, *)
(* the timers, and the applications in the device routines of tcpd/.       *)
(*                                                                         *)
(* tcpinp and tcpout run at priority 100, above the applications: an       *)
(* application moves when neither can (NetReady), and loses the processor  *)
(* at any point of its own.  A section under tcb_mutex is one step, taken  *)
(* after the wait for the mutex; so is one under tcps_tmutex.  The peer    *)
(* sends any piece of its stream, any number of times and in any order,    *)
(* acknowledges what it was sent, and may reset or start anew.             *)
(***************************************************************************)
EXTENDS TcpBlock

CONSTANTS
    Ntcp,           \* control blocks
    TcpProcs,       \* application processes
    TcpRoles,       \* "active" (clients) and "passive" (servers)
    TcpInQ,         \* TCPQLEN of tcps_iport
    TcpOutQ,        \* TCPQLEN of tcps_oport
    TcpLq,          \* tcps_lqsize
    TcpWins,        \* windows the peer advertises
    MssOpts,        \* MSS options of its SYNs, 0 for none
    WriteLens,      \* lengths of read and write, besides getc and putc
    PeerBytes,      \* bytes in the peer's stream
    Crossing,       \* a SYN of the peer may cross ours
    CloseAlone,     \* no other process needs a device when it is closed
    TcpMaxCalls,    \* bound on the calls of the applications, per role
    TcpMaxIn        \* bound on the segments that arrive

ASSUME TcpAssumption ==
    /\ {Ntcp, TcpInQ, TcpOutQ, TcpLq} \subseteq Nat \ {0}
    /\ PeerBytes \in Nat /\ WriteLens \subseteq Nat \ {0}
    /\ TcpRoles \subseteq {"active", "passive"} /\ TcpMaxCalls \in [TcpRoles -> Nat]

VARIABLES
    tcbtab, tcps_iport, tcps_oport,
    inp,        \* tcpinp: [pc, g, s], its segment and block
    out,        \* tcpout: [pc, ev, s]
    app,        \* per process [pc, s, n], n a length or a function code
    dev,        \* blocks the applications hold as open devices
    got,        \* history: per block the bytes its readers were given
    role,       \* what the applications of this behaviour open
    reused,     \* history: a block was given out under a process still in a call on it
    tcpCalls, tcpIns

tcpVars == <<tcbtab, tcps_iport, tcps_oport, inp, out, app, dev, got, role, reused, tcpCalls, tcpIns>>
ports == <<tcps_iport, tcps_oport>>
users == <<app, dev, got, reused, tcpCalls>>

Slots == 1..Ntcp
PeerIss == 1
PeerFin == PeerIss + PeerBytes + 1      \* the sequence number of its FIN
NoSeg == [code |-> {}, seq |-> 0, ack |-> 0, len |-> 0, win |-> 0, mss |-> 0]
AppIdle == [pc |-> "idle", s |-> 0, n |-> 0]
InpIdle == [pc |-> "idle", g |-> NoSeg, s |-> 0]
OutIdle == [pc |-> "idle", ev |-> "SEND", s |-> 0]
Tuple == <<role, "peer">>

(* tcpinit: every block is free.                                           *)
TcpInit ==
    /\ tcbtab = [s \in Slots |-> FreeTcb]
    /\ tcps_iport = <<>> /\ tcps_oport = <<>>
    /\ inp = InpIdle /\ out = OutIdle
    /\ app = [p \in TcpProcs |-> AppIdle]
    /\ dev = {} /\ got = [s \in Slots |-> <<>>]
    /\ role \in TcpRoles /\ reused = FALSE
    /\ tcpCalls = TcpMaxCalls[role] /\ tcpIns = TcpMaxIn

(* The step leaves block c at s: its kicks go to tcps_oport, the ones that *)
(* find it full are lost.                                                  *)
Clean(c) == [c EXCEPT !.kick = 0]
Kicked(s, c) ==
    tcps_oport \o [k \in 1..Least(c.kick, TcpOutQ - Len(tcps_oport)) |-> <<"SEND", s>>]
Leave(s, c) ==
    /\ tcbtab' = [tcbtab EXCEPT ![s] = Clean(c)]
    /\ tcps_oport' = Kicked(s, c)

(* signal(tcb_mutex), unless the block was given up.                       *)
Unlock(c) == IF c.st = "FREE" THEN c ELSE [c EXCEPT !.m = signal(@)]
(* wait(tcb_mutex): a deleted semaphore does not hold the caller.          *)
Lock(c, p) == IF c.st = "FREE" THEN c ELSE [c EXCEPT !.m = wait(@, p)]
Through(s, p) == ~Contains(tcbtab[s].m.q, p)

InpReady ==
    \/ inp.pc = "idle" /\ tcps_iport # <<>>
    \/ inp.pc = "lock" /\ Through(inp.s, "tcpinp")
    \/ inp.pc = "parent" /\ Through(tcbtab[inp.s].pptcb, "tcpinp")
OutReady ==
    \/ out.pc = "idle" /\ tcps_oport # <<>>
    \/ out.pc = "lock" /\ Through(out.s, "tcpout")
NetReady == InpReady \/ OutReady
(* Whoever is released from a wait runs before the one that released it    *)
(* takes up new work: resched, at equal priorities.                        *)
InpReleased == inp.pc # "idle" /\ InpReady
OutReleased == out.pc # "idle" /\ OutReady

-----------------------------------------------------------------------------
(* The network.                                                            *)

Matches == {s \in Slots : tcbtab[s].st # "FREE" /\ tcbtab[s].tuple = Tuple}
SentTo == Max({1} \cup {tcbtab[s].snext : s \in Matches})
AckedTo == Max({1} \cup {tcbtab[s].suna : s \in Matches})
Seg(code, seq, ack, len, win, mss) ==
    [code |-> code, seq |-> seq, ack |-> ack, len |-> len, win |-> win, mss |-> mss]

(* The peer acknowledges nothing new, one more, or all, with any window,   *)
(* or repeats its first acknowledgement; data and FIN come with the widest *)
(* window; a SYN or RST is of its connection or of one before or after it. *)
RcvdTo == Max({PeerIss + 1} \cup {tcbtab[s].rnext : s \in Matches})
PeerWin == Max(TcpWins)
PeerSegs ==
    {Seg({"SYN"}, PeerIss, 0, 0, PeerWin, o) : o \in MssOpts}
    \cup {Seg({"SYN", "ACK"}, PeerIss, SentTo, 0, PeerWin, 0)}
    \cup {Seg({"ACK"}, RcvdTo, a, 0, w, 0) :
            a \in {AckedTo, Least(AckedTo + 1, SentTo), SentTo}, w \in TcpWins}
    \cup {Seg({"ACK"}, PeerIss + 1, AckedTo, 0, PeerWin, 0)}
    \cup {Seg({"ACK"}, q, SentTo, n, PeerWin, 0) :
            q \in PeerIss + 1..PeerFin - 1, n \in 1..PeerBytes}
    \cup {Seg({"ACK", "FIN"}, q, a, PeerFin - q, PeerWin, 0) :
            q \in {PeerIss + 1, PeerFin}, a \in {AckedTo, SentTo}}
    \cup {Seg({"RST"}, PeerIss + 1, 0, 0, 0, 0), Seg({"RST", "ACK"}, 0, 1, 0, 0, 0),
          Seg({}, PeerIss + 1, 0, 0, 0, 0)}
(* A piece of the stream; without a block to go to only a SYN is of note,  *)
(* and one that crosses ours only with Crossing.                           *)
Plausible(g) ==
    /\ g.len > 0 => g.seq + g.len <= PeerFin
    /\ Matches = {} => g.code = {"SYN"}
    /\ g.code = {"SYN"} /\ role = "active" /\ ~Crossing =>
        \E s \in Matches : tcbtab[s].st \notin {"CLOSED", "SYNSENT"}

(* tcp_in: a full port drops the segment.  tcpinp and tcpout are idle or   *)
(* wait for a mutex when it comes (TcpNext).                               *)
tcp_in(g) ==
    /\ Plausible(g)
    /\ tcps_iport' = IF Len(tcps_iport) >= TcpInQ THEN tcps_iport ELSE Append(tcps_iport, g)
    /\ tcpIns' = tcpIns - 1
    /\ UNCHANGED <<tcbtab, tcps_oport, inp, out, users, role>>

(* A timer runs out: its event goes to tcps_oport, when that has room.     *)
(* tcptimer may run at any yield of the others.                            *)
TcpExpire(s, event) ==
    /\ event \in tcbtab[s].tm /\ Len(tcps_oport) < TcpOutQ
    /\ tcbtab' = [tcbtab EXCEPT ![s].tm = @ \ {event}]
    /\ tcps_oport' = Append(tcps_oport, <<event, s>>)
    /\ UNCHANGED <<tcps_iport, inp, out, users, role, tcpIns>>

-----------------------------------------------------------------------------
(* tcpinp.                                                                 *)

(* An exact match, or for a SYN the last listener.                         *)
Listeners == {s \in Slots : tcbtab[s].st = "LISTEN"}
DemuxSlot(g) ==
    IF Matches # {} THEN Min(Matches)
    ELSE IF "SYN" \in g.code /\ Listeners # {} THEN Max(Listeners) ELSE 0

InpKeeps == UNCHANGED <<out, users, role, tcpIns>>

(* The block is looked up and its mutex waited for; without one the        *)
(* segment ends here with a reset.  One with a bad checksum is as lost.    *)
tcpdemux ==
    /\ inp.pc = "idle" /\ tcps_iport # <<>> /\ ~OutReleased
    /\ LET g == Head(tcps_iport)  s == DemuxSlot(g) IN
        /\ s # 0
        /\ tcbtab' = [tcbtab EXCEPT ![s] = Lock(@, "tcpinp")]
        /\ inp' = [pc |-> "lock", g |-> g, s |-> s]
    /\ tcps_iport' = Tail(tcps_iport)
    /\ UNCHANGED tcps_oport /\ InpKeeps

tcpinpNone ==
    /\ inp.pc = "idle" /\ tcps_iport # <<>> /\ ~OutReleased
    /\ DemuxSlot(Head(tcps_iport)) = 0
    /\ tcps_iport' = Tail(tcps_iport)
    /\ UNCHANGED <<tcbtab, tcps_oport, inp>> /\ InpKeeps

InpHas == inp.pc = "lock" /\ Through(inp.s, "tcpinp")
InpTcb == [tcbtab[inp.s] EXCEPT !.re = {}]
InpDone(c) == Leave(inp.s, Unlock(c)) /\ inp' = InpIdle /\ UNCHANGED tcps_iport /\ InpKeeps

(* "OOPS! Lost it...": deleted while tcpinp waited for the mutex.          *)
tcpinpLost ==
    /\ InpHas /\ InpTcb.st = "FREE"
    /\ inp' = InpIdle
    /\ UNCHANGED <<tcbtab, ports>> /\ InpKeeps

tcpinp ==
    /\ InpHas /\ InpTcb.st \notin {"FREE", "LISTEN", "SYNRCVD"}
    /\ InpDone(IF tcpok(InpTcb, inp.g) THEN tcpswitch(tcpopts(InpTcb, inp.g), inp.g)
               ELSE tcpackit(InpTcb, Stripped(InpTcb, inp.g)))

(* tcpsync: a connection's buffers and semaphores.                         *)
tcpsync(c) ==
    [FreeTcb EXCEPT !.st = "CLOSED", !.type = "CONNECTION", !.m = c.m, !.err = c.err,
        !.tuple = c.tuple, !.pptcb = c.pptcb, !.tm = c.tm,
        !.ss = screate(1), !.code = {"SYN"}]

tcpwinit(c, n, g) ==
    LET mss == IF c.smss # 0 THEN Least(c.smss, TcpMss) ELSE TcpMss IN
    [n EXCEPT !.swindow = g.win, !.lwseq = g.seq, !.smss = mss, !.cwnd = mss,
        !.ssthresh = SbSize + 2, !.rnext = g.seq, !.cwin = g.seq + RbSize]

FreeSlots == {s \in Slots : tcbtab[s].st = "FREE"}
(* The block goes to a new connection although a process is still in a     *)
(* call on the one before it; only tcpwr's last kick does no harm there.   *)
InUse(s) == \E p \in TcpProcs : app[p].s = s /\ app[p].pc # "wkick"

tcplisten ==
    /\ InpHas /\ InpTcb.st = "LISTEN"
    /\ LET g == inp.g  c == tcpopts(InpTcb, g)  new == Min(FreeSlots) IN
        IF "RST" \in g.code THEN InpDone(c)
        ELSE IF "ACK" \in g.code \/ "SYN" \notin g.code THEN InpDone(tcpreset(c, g))
        ELSE IF FreeSlots = {} THEN InpDone(c)
        ELSE LET fresh == [tcpsync(tcbtab[new]) EXCEPT
                             !.st = "SYNRCVD", !.err = "OK", !.pptcb = inp.s,
                             !.tuple = Tuple, !.fl = {"NEEDOUT"}, !.m = screate(1)]
                 n == tcpdata(tcpwinit(c, fresh, g), g) IN
             /\ tcbtab' = [tcbtab EXCEPT ![new] = Clean(n),
                                         ![inp.s] = Unlock([c EXCEPT !.smss = 0])]
             /\ tcps_oport' = Kicked(new, n)
             /\ inp' = InpIdle
             /\ app' = app /\ dev' = dev /\ tcpCalls' = tcpCalls
             /\ got' = [got EXCEPT ![new] = <<>>] /\ reused' = (reused \/ InUse(new))
             /\ UNCHANGED <<tcps_iport, out, role, tcpIns>>

Established(c, g) == EndToClosewait(tcpdata([c EXCEPT !.st = "ESTABLISHED"], g))

tcpsynrcvd ==
    /\ InpHas /\ InpTcb.st = "SYNRCVD"
    /\ LET g == inp.g  c == tcpopts(InpTcb, g) IN
        IF ~tcpok(InpTcb, g) THEN InpDone(tcpackit(InpTcb, Stripped(InpTcb, g)))
        ELSE IF "RST" \in g.code
        THEN InpDone(IF c.pptcb # 0 THEN tcbdealloc(c) ELSE tcpabort(c, "REFUSED"))
        ELSE IF "SYN" \in g.code THEN InpDone(tcpabort(tcpreset(c, g), "RESET"))
        ELSE IF "ACK" \notin g.code THEN InpDone(c)
        ELSE IF c.pptcb = 0
        THEN InpDone(Established([tcpacked(c, g) EXCEPT !.oc = signal(@)], g))
        ELSE LET x == tcpacked(c, g) IN
             /\ tcbtab' = [tcbtab EXCEPT ![inp.s] = Clean(x),
                                         ![c.pptcb] = Lock(@, "tcpinp")]
             /\ tcps_oport' = Kicked(inp.s, x)
             /\ inp' = [inp EXCEPT !.pc = "parent"]
             /\ UNCHANGED tcps_iport /\ InpKeeps

(* The parent's mutex is held too: the child is queued for accept, or      *)
(* given up when the parent listens no more or its queue is full.          *)
tcpsynrcvdParent ==
    /\ inp.pc = "parent" /\ Through(tcbtab[inp.s].pptcb, "tcpinp")
    /\ LET c == tcbtab[inp.s]  up == tcbtab[c.pptcb]
           takes == up.st = "LISTEN" /\ Len(up.listenq) < up.lqsize
           x == IF takes THEN Established(c, inp.g) ELSE tcbdealloc(tcpreset(c, inp.g)) IN
        /\ tcbtab' = [tcbtab EXCEPT
            ![inp.s] = Clean(Unlock(x)),
            ![c.pptcb] = Unlock([@ EXCEPT !.listenq = IF takes THEN Append(@, inp.s) ELSE @])]
        /\ tcps_oport' = Kicked(inp.s, x)
    /\ inp' = InpIdle
    /\ UNCHANGED tcps_iport /\ InpKeeps

-----------------------------------------------------------------------------
(* tcpout.                                                                 *)

OutKeeps == UNCHANGED <<tcps_iport, inp, users, role, tcpIns>>

tcpout ==
    /\ out.pc = "idle" /\ tcps_oport # <<>> /\ ~InpReleased
    /\ tcps_oport' = Tail(tcps_oport)
    /\ LET e == Head(tcps_oport) IN
        IF tcbtab[e[2]].st \in {"FREE", "CLOSED"} THEN UNCHANGED <<tcbtab, out>>
        ELSE /\ tcbtab' = [tcbtab EXCEPT ![e[2]] = Lock(@, "tcpout")]
             /\ out' = [pc |-> "lock", ev |-> e[1], s |-> e[2]]
    /\ OutKeeps

(* continue: tcb_mutex of a CLOSED block is not released.                  *)
tcpoutGone ==
    /\ out.pc = "lock" /\ Through(out.s, "tcpout")
    /\ tcbtab[out.s].st \in {"FREE", "CLOSED"}
    /\ out' = OutIdle
    /\ UNCHANGED <<tcbtab, tcps_oport>> /\ OutKeeps

(* Mutant: an event handled without signal(tcb_mutex) after it.            *)
tcpoutEventHeld ==
    /\ out.pc = "lock" /\ Through(out.s, "tcpout")
    /\ tcbtab[out.s].st \notin {"FREE", "CLOSED"}
    /\ LET c == tcbtab[out.s] IN
        Leave(out.s, IF out.ev = "DELETE" THEN tcbdealloc(c) ELSE tcposwitch(c, out.ev))
    /\ out' = OutIdle
    /\ OutKeeps

tcpoutEvent ==
    /\ out.pc = "lock" /\ Through(out.s, "tcpout")
    /\ tcbtab[out.s].st \notin {"FREE", "CLOSED"}
    /\ LET c == tcbtab[out.s] IN
        Leave(out.s, Unlock(IF out.ev = "DELETE" THEN tcbdealloc(c) ELSE tcposwitch(c, out.ev)))
    /\ out' = OutIdle
    /\ OutKeeps
-----------------------------------------------------------------------------
(* The applications: the device routines.  AppKeeps: what no call touches. *)

At(p, pc) == app[p].pc = pc
Tcb(p) == tcbtab[app[p].s]
AppKeeps == UNCHANGED <<tcps_iport, inp, out, role, tcpIns>>
Goes(p, pc) == app' = [app EXCEPT ![p].pc = pc]
Returns(p) == app' = [app EXCEPT ![p] = AppIdle]
Has(p) == Through(app[p].s, p)

(* A call on device s: block c at s from now on, then the step pc.         *)
Calls(p, s, c, pc, n) ==
    /\ At(p, "idle")
    /\ tcpCalls' = tcpCalls - 1
    /\ app' = [app EXCEPT ![p] = [pc |-> pc, s |-> s, n |-> n]]
    /\ Leave(s, c)
    /\ AppKeeps

(* tcpmopen: tcballoc gives a block whose mutex the caller holds.          *)
tcballoc(p) ==
    /\ FreeSlots # {}
    /\ LET s == Min(FreeSlots) IN
        /\ Calls(p, s, [tcbtab[s] EXCEPT !.st = "CLOSED", !.m = screate(0), !.err = "OK"],
                 "open", 0)
        /\ got' = [got EXCEPT ![s] = <<>>] /\ reused' = (reused \/ InUse(s))
    /\ UNCHANGED dev

tcpserver(p) ==
    /\ At(p, "open") /\ role = "passive"
    /\ Leave(app[p].s, Unlock([Tcb(p) EXCEPT !.type = "SERVER", !.st = "LISTEN",
                                             !.lqsize = TcpLq, !.smss = 0]))
    /\ dev' = dev \cup {app[p].s}
    /\ Returns(p)
    /\ UNCHANGED <<got, tcpCalls, reused>> /\ AppKeeps

(* No such name, no route, or the address is taken.                        *)
tcpbindFails(p) ==
    /\ At(p, "open")
    /\ Leave(app[p].s, [Tcb(p) EXCEPT !.st = "FREE", !.m = screate(0)])
    /\ Returns(p)
    /\ UNCHANGED <<dev, got, tcpCalls, reused>> /\ AppKeeps

tcpcon(p) ==
    /\ At(p, "open") /\ role = "active"
    /\ \A s \in Slots \ {app[p].s} : tcbtab[s].st = "FREE" \/ tcbtab[s].tuple # Tuple
    /\ Leave(app[p].s, Unlock(tcpkick([tcpsync(Tcb(p)) EXCEPT
            !.tuple = Tuple, !.smss = TcpMss, !.swindow = TcpMss, !.cwnd = TcpMss,
            !.ssthresh = SbSize + 2, !.fl = {"NEEDOUT", "FIRSTSEND"}, !.st = "SYNSENT"])))
    /\ Goes(p, "con0")
    /\ UNCHANGED <<dev, got, tcpCalls, reused>> /\ AppKeeps

(* wait(tcb_ocsem), in tcpcon and tcpclose.                                *)
OcWait(p, from, to) ==
    /\ At(p, from)
    /\ Leave(app[p].s, IF Tcb(p).st = "FREE" THEN Tcb(p) ELSE [Tcb(p) EXCEPT !.oc = wait(@, p)])
    /\ Goes(p, to)
    /\ UNCHANGED <<dev, got, tcpCalls, reused>> /\ AppKeeps

tcpconDone(p) ==
    /\ At(p, "con") /\ ~Contains(Tcb(p).oc.q, p)
    /\ Leave(app[p].s, IF Tcb(p).err # "OK" THEN tcbdealloc(Tcb(p)) ELSE Tcb(p))
    /\ dev' = IF Tcb(p).err # "OK" THEN dev ELSE dev \cup {app[p].s}
    /\ Returns(p)
    /\ UNCHANGED <<got, tcpCalls, reused>> /\ AppKeeps

Usable(s) == s \in dev /\ tcbtab[s].st \in {"ESTABLISHED", "CLOSEWAIT"}

(* tcpread and tcpwr wait for their semaphore, then for the mutex.         *)
tcpread(p, s, n) ==
    /\ Usable(s) /\ Calls(p, s, [tcbtab[s] EXCEPT !.rs = wait(@, p)], "rsem", n)
    /\ UNCHANGED <<dev, got, reused>>
tcpwr(p, s, n) ==
    /\ Usable(s) /\ n <= SbSize
    /\ Calls(p, s, [tcbtab[s] EXCEPT !.ss = wait(@, p)], "wsem", n)
    /\ UNCHANGED <<dev, got, reused>>
tcpgetc(p, s) == tcpread(p, s, 1)
tcpputc(p, s) == tcpwr(p, s, 1)
tcpwrite(p, s, n) == tcpwr(p, s, n)

IoLock(p) ==
    /\ \/ At(p, "rsem") /\ ~Contains(Tcb(p).rs.q, p) /\ Goes(p, "rlock")
       \/ At(p, "wsem") /\ ~Contains(Tcb(p).ss.q, p) /\ Goes(p, "wlock")
    /\ Leave(app[p].s, Lock(Tcb(p), p))
    /\ UNCHANGED <<dev, got, tcpCalls, reused>> /\ AppKeeps

(* Takes k bytes; a window that was closed and opens enough is announced.  *)
tcpgetdata(c, k) ==
    LET x == [c EXCEPT !.rbstart = (@ + k) % RbSize, !.rbcount = @ - k,
                       !.fl = IF c.rbcount = k THEN @ \ {"PUSH"} ELSE @] IN
    IF c.cwin > c.rnext THEN x
    ELSE IF tcprwindow(x) = 0 THEN Advertise(x)
    ELSE tcpkick([Advertise(x) EXCEPT !.fl = @ \cup {"NEEDOUT"}])

tcpreadData(p) ==
    /\ At(p, "rlock") /\ Has(p)
    /\ LET c == Tcb(p)  k == Least(app[p].n, c.rbcount)
           again == "BUFFER" \in c.fl /\ app[p].n > c.rbcount /\ c.fl \cap {"PUSH", "RDONE"} = {} IN
        IF c.st = "FREE"
        THEN Returns(p) /\ UNCHANGED <<tcbtab, tcps_oport, got>>
        ELSE IF c.err # "OK"
        THEN Returns(p) /\ Leave(app[p].s, Unlock(tcpwakeup({"READERS"}, c))) /\ UNCHANGED got
        ELSE IF again
        THEN Goes(p, "rsem") /\ Leave(app[p].s, [Unlock(c) EXCEPT !.rs = wait(@, p)])
             /\ UNCHANGED got
        ELSE /\ Returns(p)
             /\ Leave(app[p].s, Unlock(tcpwakeup({"READERS"}, tcpgetdata(c, k))))
             /\ got' = [got EXCEPT ![app[p].s] =
                    @ \o [i \in 1..k |-> c.rbuf[(c.rbstart + i - 1) % RbSize]]]
    /\ UNCHANGED <<dev, tcpCalls, reused>> /\ AppKeeps

(* tcpgetspace and the copy; the kick comes after the mutex is released.   *)
tcpwrData(p) ==
    /\ At(p, "wlock") /\ Has(p)
    /\ LET c == Tcb(p)  n == app[p].n IN
        IF c.st = "FREE" THEN Returns(p) /\ UNCHANGED <<tcbtab, tcps_oport>>
        ELSE IF c.err # "OK"
        THEN Returns(p) /\ Leave(app[p].s, Unlock(tcpwakeup({"WRITERS"}, c)))
        ELSE IF n > SbSize - c.sbcount
        THEN Goes(p, "wsem") /\ Leave(app[p].s, [Unlock(c) EXCEPT !.ss = wait(@, p)])
        ELSE /\ Goes(p, "wkick")
             /\ Leave(app[p].s, Unlock(tcpwakeup({"WRITERS"},
                    [c EXCEPT !.sbcount = @ + n, !.fl = @ \cup {"NEEDOUT"}])))
    /\ UNCHANGED <<dev, got, tcpCalls, reused>> /\ AppKeeps

tcpwrKick(p) ==
    /\ At(p, "wkick")
    /\ Leave(app[p].s, IF Tcb(p).snext = Tcb(p).suna THEN tcpkick(Tcb(p)) ELSE Tcb(p))
    /\ Returns(p)
    /\ UNCHANGED <<dev, got, tcpCalls, reused>> /\ AppKeeps

tcpclose(p, s) ==
    /\ s \in dev
    /\ CloseAlone => \A o \in TcpProcs : app[o].s # s \/ app[o].pc = "wkick"
    /\ dev' = dev \ {s}
    /\ Calls(p, s, Lock(tcbtab[s], p), "clock", 0)
    /\ UNCHANGED <<got, reused>>

(* pdelete: whoever waits in preceive on the listen queue of s returns.    *)
Acceptors(s) == {o \in TcpProcs : app[o].pc = "accept" /\ app[o].s = s}
Turned(p, s) == [o \in TcpProcs |-> IF o = p \/ o \in Acceptors(s) THEN AppIdle ELSE app[o]]

tcpcloseFin(p) ==
    /\ At(p, "clock") /\ Has(p)
    /\ LET c == Tcb(p) IN
        IF c.st \notin {"LISTEN", "ESTABLISHED", "CLOSEWAIT"}
        THEN Returns(p) /\ Leave(app[p].s, Unlock(c))
        ELSE IF c.err # "OK" \/ c.st = "LISTEN"
        THEN app' = Turned(p, app[p].s) /\ Leave(app[p].s, tcbdealloc(c))
        ELSE /\ Goes(p, "close0")
             /\ Leave(app[p].s, Unlock(tcpkick([c EXCEPT
                    !.fl = @ \cup {"SNDFIN", "NEEDOUT"}, !.slast = c.suna + c.sbcount,
                    !.st = IF @ = "ESTABLISHED" THEN "FINWAIT1" ELSE "LASTACK"])))
    /\ UNCHANGED <<dev, got, tcpCalls, reused>> /\ AppKeeps

(* The closer is woken; the last block goes without its mutex.             *)
tcpcloseDone(p) ==
    /\ At(p, "close") /\ ~Contains(Tcb(p).oc.q, p)
    /\ Leave(app[p].s, IF Tcb(p).st = "LASTACK" THEN tcbdealloc(Tcb(p)) ELSE Tcb(p))
    /\ Returns(p)
    /\ UNCHANGED <<dev, got, tcpCalls, reused>> /\ AppKeeps

(* "STATUS" is also a call of the wrong type, which is refused or sets     *)
(* what nobody reads; TCPC_SENDURG goes with urgent data, left out.        *)
tcpcntl(p, s, func) ==
    /\ s \in dev /\ tcbtab[s].st # "FREE"
    /\ func = "OPT" => tcbtab[s].type # "SERVER"
    /\ func \in {"ACCEPT", "LISTENQ"} => tcbtab[s].type = "SERVER"
    /\ Calls(p, s, Lock(tcbtab[s], p), func, 0)
    /\ UNCHANGED <<dev, got, reused>>

(* TCPC_ACCEPT: the mutex is released before preceive.                     *)
tcpcntlAccept(p) ==
    /\ At(p, "ACCEPT") /\ Has(p)
    /\ IF Tcb(p).st = "FREE" THEN Returns(p) ELSE Goes(p, "accept")
    /\ Leave(app[p].s, Unlock(Tcb(p)))
    /\ UNCHANGED <<dev, got, tcpCalls, reused>> /\ AppKeeps
tcpAccepted(p) ==
    /\ At(p, "accept") /\ Tcb(p).listenq # <<>>
    /\ dev' = dev \cup {Head(Tcb(p).listenq)}
    /\ Leave(app[p].s, [Tcb(p) EXCEPT !.listenq = Tail(@)])
    /\ Returns(p)
    /\ UNCHANGED <<got, tcpCalls, reused>> /\ AppKeeps

(* TCPC_STATUS only reads: tcpstat, then signal(tcb_mutex).                *)
tcpstat(p) ==
    /\ At(p, "STATUS") /\ Has(p)
    /\ Leave(app[p].s, Unlock(Tcb(p))) /\ Returns(p)
    /\ UNCHANGED <<dev, got, tcpCalls, reused>> /\ AppKeeps

(* TCPC_LISTENQ: a server's queue is made anew, what it held is forgotten. *)
tcplq(p) ==
    /\ At(p, "LISTENQ") /\ Has(p)
    /\ app' = Turned(p, app[p].s)
    /\ Leave(app[p].s, IF Tcb(p).st = "FREE" THEN Tcb(p)
                       ELSE Unlock([Tcb(p) EXCEPT !.listenq = <<>>]))
    /\ UNCHANGED <<dev, got, tcpCalls, reused>> /\ AppKeeps

(* TCPC_SOPT and TCPC_COPT of TCP_BUFFER and TCP_DELACK, where they change *)
(* the flag.                                                               *)
tcpuopt(p) ==
    /\ At(p, "OPT") /\ Has(p)
    /\ \E f \in {"BUFFER", "DELACK"}, on \in BOOLEAN :
        /\ (f \in Tcb(p).fl) # on
        /\ Leave(app[p].s, IF Tcb(p).st = "FREE" THEN Tcb(p)
                           ELSE Unlock([Tcb(p) EXCEPT !.fl = IF on THEN @ \cup {f} ELSE @ \ {f}]))
    /\ Returns(p)
    /\ UNCHANGED <<dev, got, tcpCalls, reused>> /\ AppKeeps

-----------------------------------------------------------------------------
NetStep ==
    \/ tcpdemux \/ tcpinpNone \/ tcpinpLost \/ tcpinp
    \/ tcplisten \/ tcpsynrcvd \/ tcpsynrcvdParent
    \/ tcpout \/ tcpoutGone \/ tcpoutEvent

AppCall(p) ==
    /\ tcpCalls > 0
    /\ \/ tcballoc(p)
       \/ \E s \in dev :
           \/ \E n \in WriteLens : tcpread(p, s, n) \/ tcpwrite(p, s, n)
           \/ tcpgetc(p, s) \/ tcpputc(p, s)
           \/ tcpclose(p, s)
           \/ \E f \in {"ACCEPT", "LISTENQ", "OPT", "STATUS"} : tcpcntl(p, s, f)

AppStep(p) ==
    \/ tcpserver(p) \/ tcpbindFails(p) \/ tcpcon(p)
    \/ OcWait(p, "con0", "con") \/ tcpconDone(p)
    \/ IoLock(p) \/ tcpreadData(p) \/ tcpwrData(p) \/ tcpwrKick(p)
    \/ tcpcloseFin(p) \/ OcWait(p, "close0", "close") \/ tcpcloseDone(p)
    \/ tcpcntlAccept(p) \/ tcpAccepted(p) \/ tcplq(p) \/ tcpuopt(p) \/ tcpstat(p)

TcpNext ==
    \/ tcpIns > 0 /\ ~NetReady /\ \E g \in PeerSegs : tcp_in(g)
    \/ \E s \in Slots : \E e \in tcbtab[s].tm : TcpExpire(s, e)
    \/ NetStep
    \/ ~NetReady /\ \E p \in TcpProcs : AppCall(p) \/ AppStep(p)

TcpSpec == TcpInit /\ [][TcpNext]_tcpVars

-----------------------------------------------------------------------------
(* The readers of a connection are given the peer's bytes in order, each   *)
(* once, whatever was lost, repeated, overlapping or early; what waits in  *)
(* the circular buffer continues them; the end is only met after the last. *)
TcpStream ==
    \A s \in Slots : LET c == tcbtab[s] IN
        c.st \notin BelowEstablished =>
            LET all == got[s] \o
                    [i \in 1..c.rbcount |-> c.rbuf[(c.rbstart + i - 1) % RbSize]] IN
            /\ c.rbcount \in 0..RbSize
            /\ all = [i \in 1..Len(all) |-> PeerIss + i]
            /\ c.rnext = PeerIss + 1 + Len(all) + One("RDONE" \in c.fl /\ c.rnext > PeerFin)
            /\ "RDONE" \in c.fl /\ c.err = "OK" => Len(all) = PeerBytes

(* Nobody sleeps on: a reader sleeps only without data and before the end, *)
(* a writer only while data is to be acknowledged, an opener or closer     *)
(* only until the answer or an error; unless someone just woken passes     *)
(* the wakeup on.  This is until a block is given out again under a        *)
(* process in a call on it, which then waits for the wrong connection.     *)
Passes(s, pcs) == \E p \in TcpProcs :
    app[p].s = s /\ app[p].pc \in pcs /\ ~Contains(tcbtab[s].rs.q \o tcbtab[s].ss.q, p)
TcpWakeups ==
    reused \/ \A s \in Slots : LET c == tcbtab[s] IN
        /\ c.rs.q # <<>> =>
            \/ c.rbcount = 0 /\ "RDONE" \notin c.fl /\ c.err = "OK"
            \/ Passes(s, {"rsem", "rlock"})
        /\ c.ss.q # <<>> =>
            \/ c.sbcount > 0 /\ c.err = "OK"
            \/ Passes(s, {"wsem", "wlock"})
        /\ c.oc.q # <<>> =>
            /\ c.err = "OK"
            /\ \/ c.st \in {"SYNSENT", "SYNRCVD"}
               \/ c.st \in {"FINWAIT1", "CLOSING", "LASTACK"} /\ "SNDFIN" \in c.fl

(* Whoever tcpclose has let go without an error has had its FIN            *)
(* acknowledged, and with it all its data.                                 *)
CloseAcked ==
    \A p \in TcpProcs : LET c == tcbtab[app[p].s] IN
        /\ app[p].pc = "close" /\ c.st # "FREE" /\ c.err = "OK" /\ ~Contains(c.oc.q, p)
        => "SNDFIN" \notin c.fl

(* Holders of tcb_mutex of s: past their wait for it, not yet through.     *)
Holders(s) ==
    {p \in TcpProcs : /\ app[p].s = s
                      /\ app[p].pc \in {"open", "rlock", "wlock", "clock",
                                        "ACCEPT", "LISTENQ", "OPT", "STATUS"}
                      /\ Through(s, p)}
    \cup {x \in {"tcpinp"} : inp.s = s /\ inp.pc # "idle" /\ Through(s, x)}
    \cup {x \in {"tcpinp"} : inp.pc = "parent" /\ tcbtab[inp.s].pptcb = s /\ Through(s, x)}
    \cup {x \in {"tcpout"} : out.s = s /\ out.pc = "lock" /\ Through(s, x)}

(* Those who are about to give s up without its mutex: tcbdealloc in       *)
(* tcpclose after the wait for the FIN's acknowledgement, and in tcpcon    *)
(* after one that failed, although tcbdealloc ASSUMES tcb_mutex HELD.      *)
Deallocs(s) ==
    {p \in TcpProcs : /\ app[p].s = s /\ ~Contains(tcbtab[s].oc.q, p)
                      /\ \/ app[p].pc = "close" /\ tcbtab[s].st = "LASTACK"
                         \/ app[p].pc = "con" /\ tcbtab[s].err # "OK"}

(* Until a block is given out again under a process that is still in a     *)
(* call on it (reused): tcb_mutex has one holder or is free.  No process   *)
(* enters a section under it without it, not even tcpinp or tcpout when    *)
(* they waited while the block was given up, and none is left held by a    *)
(* process that went on, but for the CLOSED block that tcpout skips and    *)
(* its opener then gives up.  The two calls of tcbdealloc without the      *)
(* mutex are made while nobody holds it, and each by one process.          *)
MutexHanded ==
    reused \/ \A s \in Slots : LET c == tcbtab[s] IN
        c.st # "FREE" =>
            /\ \/ c.m.n + Cardinality(Holders(s)) = 1
               \/ /\ c.st = "CLOSED" /\ c.m.n = 0 /\ Holders(s) = {}
                  /\ \E p \in TcpProcs : app[p].s = s /\ app[p].pc \in {"con0", "con"}
            /\ Deallocs(s) # {} /\ ~NetReady =>
                  Holders(s) = {} /\ Cardinality(Deallocs(s)) = 1

(* Data not yet acknowledged, a SYN too, is never forgotten: a timer runs  *)
(* or an event of the block is on its way to tcpout, as long as nothing    *)
(* but this data (and the FIN) is in flight.                               *)
OutputScheduled ==
    \A s \in Slots : LET c == tcbtab[s] IN
        /\ c.err = "OK" /\ (c.sbcount > 0 \/ c.st \in {"SYNSENT", "SYNRCVD"})
        /\ c.snext <= c.suna + c.sbcount + One("SYN" \in c.code) + One("FIN" \in c.code)
        => \/ c.tm # {}
           \/ \E k \in DOMAIN tcps_oport : tcps_oport[k][2] = s
           \/ out.pc = "lock" /\ out.s = s
           \/ \E p \in TcpProcs : app[p].s = s /\ app[p].pc = "wkick"
           \/ inp.pc = "parent" /\ inp.s = s
=============================================================================

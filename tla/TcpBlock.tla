------------------------------ MODULE TcpBlock ------------------------------
(***************************************************************************)
(* The TCP control block (tcb.h) and what the routines of tcp/ make of it: *)
(* each operator takes the block a routine is called with and gives the    *)
(* block it leaves.  A block carries what the routine asks of others: the  *)
(* SEND events of tcpkick (kick) and the answer to the segment (re).       *)
(*                                                                         *)
(* Sequence numbers count from iss = 0; a byte of the peer is its sequence *)
(* number, so that rbuf shows which byte each place holds.  Left out: the  *)
(* wrap of sequence numbers, urgent data, PSH of the peer, the durations   *)
(* of timers (a timer is pending or not) and the round trip estimate.      *)
(***************************************************************************)
EXTENDS Integers, Sequences, FiniteSets, SequencesExt, FiniteSetsExt

CONSTANTS
    RbSize,         \* TCPRBS, the receive buffer
    SbSize,         \* TCPSBS, the send buffer
    TcpMss,         \* mss of tcpcon and tcpwinit
    NTcpFrag,       \* NTCPFRAG
    TcpMaxRetries   \* TCP_MAXRETRIES

ASSUME TcpBlockAssumption ==
    {RbSize, SbSize, TcpMss, NTcpFrag, TcpMaxRetries} \subseteq Nat \ {0}

Least(a, b) == IF a < b THEN a ELSE b
Most(a, b) == IF a > b THEN a ELSE b
One(P) == IF P THEN 1 ELSE 0

(* A semaphore: its count, and who waits, first come first served.         *)
screate(k) == [n |-> k, q |-> <<>>]
signal(s) == IF s.q # <<>> THEN [s EXCEPT !.q = Tail(@)] ELSE [s EXCEPT !.n = @ + 1]
wait(s, p) == IF s.n > 0 THEN [s EXCEPT !.n = @ - 1] ELSE [s EXCEPT !.q = Append(@, p)]

BelowSynrcvd == {"FREE", "CLOSED", "LISTEN", "SYNSENT"}
BelowEstablished == BelowSynrcvd \cup {"SYNRCVD"}
TcpStates == BelowEstablished \cup
    {"ESTABLISHED", "FINWAIT1", "FINWAIT2", "CLOSEWAIT", "LASTACK", "CLOSING", "TIMEWAIT"}

FreeTcb ==
    [st |-> "FREE", ost |-> "IDLE", type |-> "NONE", m |-> screate(0),
     code |-> {}, fl |-> {}, err |-> "OK", tuple |-> <<>>,
     suna |-> 0, snext |-> 0, slast |-> 0, swindow |-> 0, lwseq |-> 0, lwack |-> 0,
     cwnd |-> 0, ssthresh |-> 0, smss |-> 0, rexmtcount |-> 0, tm |-> {},
     rnext |-> 0, lqsize |-> 0, listenq |-> <<>>, pptcb |-> 0, oc |-> screate(0),
     ss |-> screate(0), sbcount |-> 0,
     rs |-> screate(0), rbuf |-> [k \in 0..RbSize - 1 |-> 0], rbstart |-> 0,
     rbcount |-> 0, cwin |-> 0, segq |-> {}, finseq |-> 0,
     kick |-> 0, re |-> {}]

-----------------------------------------------------------------------------
(* Timers, wakeups and the end of a connection.                            *)

tcpkick(c) ==
    IF "DELACK" \in c.fl /\ "SEND" \notin c.tm
    THEN [c EXCEPT !.tm = @ \cup {"SEND"}]
    ELSE [c EXCEPT !.kick = @ + 1]

tcpkilltimers(c) == [c EXCEPT !.tm = @ \ {"SEND", "RETRANSMIT", "PERSIST"}]

tcpwait(c) == [tcpkilltimers(c) EXCEPT !.tm = @ \cup {"DELETE"}]

tcpwakeup(who, c) ==
    LET readable == "RDONE" \in c.fl \/ c.rbcount > 0
        room == "SDONE" \in c.fl \/ c.sbcount < SbSize IN
    [c EXCEPT
        !.rs = IF "READERS" \in who /\ readable /\ @.n = 0 THEN signal(@) ELSE @,
        !.ss = IF "WRITERS" \in who /\ room /\ @.n = 0 THEN signal(@) ELSE @,
        !.oc = IF "WRITERS" \in who /\ c.err # "OK" THEN signal(@) ELSE @]

(* Mutant: nobody is told of the error.                                    *)
tcpabortSilent(c, error) ==
    [tcpkilltimers(c) EXCEPT !.fl = @ \cup {"RDONE", "SDONE"}, !.err = error]

tcpabort(c, error) ==
    tcpwakeup({"READERS", "WRITERS"},
        [tcpkilltimers(c) EXCEPT !.fl = @ \cup {"RDONE", "SDONE"}, !.err = error])

(* Everything is given back; sdelete releases whoever waits.  What the     *)
(* next user of the block finds: its addresses, its parent, a DELETE timer *)
(* (tcpkilltimers does not clear that one).                                *)
tcbdealloc(c) ==
    IF c.st = "FREE" THEN c
    ELSE LET k == IF c.type = "CONNECTION" THEN tcpkilltimers(c) ELSE c IN
         [FreeTcb EXCEPT !.type = c.type, !.tuple = c.tuple, !.pptcb = c.pptcb,
                         !.err = c.err, !.tm = k.tm]

-----------------------------------------------------------------------------
(* Answers: what tcpinp sends back on its own.                             *)

SegLen(g) == g.len + One("SYN" \in g.code) + One("FIN" \in g.code)

tcpresetAnswer(g) ==
    IF "RST" \in g.code THEN {}
    ELSE {[code |-> IF "ACK" \in g.code THEN {"RST"} ELSE {"RST", "ACK"},
           seq |-> IF "ACK" \in g.code THEN g.ack ELSE 0,
           ack |-> g.seq + SegLen(g)]}

tcpreset(c, g) == [c EXCEPT !.re = @ \cup tcpresetAnswer(g)]

(* Receiver side silly window avoidance; remembers what it advertises.     *)
tcprwindow(c) ==
    LET space == RbSize - c.rbcount
        wide == IF space * 4 < RbSize \/ space < TcpMss THEN 0 ELSE space IN
    IF c.st \in BelowEstablished THEN space ELSE Most(wide, c.cwin - c.rnext)

Advertise(c) ==
    IF c.st \in BelowEstablished THEN c
    ELSE [c EXCEPT !.cwin = c.rnext + tcprwindow(c)]

tcpackit(c, g) ==
    IF "RST" \in g.code \/ SegLen(g) = 0 THEN c
    ELSE [Advertise(c) EXCEPT
            !.re = @ \cup {[code |-> {"ACK"}, seq |-> c.snext, ack |-> c.rnext]}]

(* tcpok: does the segment touch the receive window?                       *)
tcpok(c, g) ==
    LET rwindow == RbSize - c.rbcount
        wlast == c.rnext + rwindow - 1
        slast == g.seq + SegLen(g) - 1
        In(x) == x >= c.rnext /\ x <= wlast IN
    \/ c.st \in BelowSynrcvd
    \/ IF rwindow = 0 /\ SegLen(g) = 0 THEN g.seq = c.rnext
       ELSE In(g.seq) \/ (SegLen(g) > 0 /\ In(slast))

(* With no window tcpok strips the data, and no such segment is            *)
(* acceptable: a probe of a closed window is left unanswered.              *)
Stripped(c, g) == IF c.st \notin BelowSynrcvd /\ c.rbcount = RbSize THEN [g EXCEPT !.len = 0] ELSE g

(* The MSS option of a SYN (0: none); other options are skipped.           *)
tcpsmss(c, g) ==
    IF "SYN" \notin g.code THEN c
    ELSE [c EXCEPT !.smss = IF @ # 0 THEN Least(g.mss, @) ELSE g.mss]

tcpopts(c, g) == IF g.mss = 0 THEN c ELSE tcpsmss(c, g)

-----------------------------------------------------------------------------
(* Acknowledgements and the send window.                                   *)

(* cwnd is cut off at what the send buffer can fill.                       *)
tcprtt(c) ==
    LET grown == IF c.cwnd < c.ssthresh THEN c.cwnd + c.smss
                 ELSE c.cwnd + (c.smss * c.smss) \div c.cwnd IN
    [c EXCEPT !.tm = @ \ {"RETRANSMIT"}, !.cwnd = Least(grown, SbSize + 2)]

(* Mutant: what is left to send waits for another event.                   *)
tcpostateNoKick(c, acked) ==
    LET x == IF c.ost = "REXMT" THEN [c EXCEPT !.rexmtcount = 0, !.ost = "XMIT"] ELSE c IN
    IF acked <= 0 THEN c
    ELSE IF c.sbcount = 0 THEN [x EXCEPT !.ost = "IDLE"] ELSE x

tcpostate(c, acked) ==
    LET x == IF c.ost = "REXMT" THEN [c EXCEPT !.rexmtcount = 0, !.ost = "XMIT"] ELSE c IN
    IF acked <= 0 THEN c
    ELSE IF c.sbcount = 0 THEN [x EXCEPT !.ost = "IDLE"] ELSE tcpkick(x)

(* The segment has an ACK; callers look at that first (SYSERR).            *)
tcpacked(c, g) ==
    LET acked == g.ack - c.suna
        syn == "SYN" \in c.code
        fin == "FIN" \in c.code /\ g.ack = c.snext
        bytes == acked - One(syn) - One(fin) IN
    IF acked <= 0 THEN c
    ELSE IF g.ack <= c.snext
    THEN tcpostate([tcprtt(c) EXCEPT
            !.suna = g.ack,
            !.code = (@ \ (IF syn THEN {"SYN"} ELSE {})) \ (IF fin THEN {"FIN"} ELSE {}),
            !.fl = (@ \ (IF syn THEN {"FIRSTSEND"} ELSE {})) \ (IF fin THEN {"SNDFIN"} ELSE {}),
            !.sbcount = @ - bytes,
            !.ss = IF bytes # 0 /\ @.n = 0 THEN signal(@) ELSE @], acked)
    ELSE IF c.st = "SYNRCVD" THEN tcpreset(c, g) ELSE tcpackit(c, g)

tcpswindow(c, g) ==
    LET old == g.seq < c.lwseq \/ (g.seq = c.lwseq /\ g.ack < c.lwack)
        x == [c EXCEPT !.swindow = g.win, !.lwseq = g.seq, !.lwack = g.ack]
        y == IF c.ost = "PERSIST"
             THEN [x EXCEPT !.tm = @ \ {"PERSIST"}, !.ost = "XMIT"] ELSE x IN
    IF old THEN c
    ELSE IF g.ack + g.win <= c.lwack + c.swindow THEN x ELSE tcpkick(y)

-----------------------------------------------------------------------------
(* Incoming data.                                                          *)

(* A fragment that came early; a full queue forgets it.                    *)
tfinsert(c, first, len) ==
    IF len = 0 \/ Cardinality(c.segq) >= NTcpFrag THEN c
    ELSE [c EXCEPT !.segq = @ \cup {<<first, len>>}]

(* Mutant: a fragment counts in full, also where it overlaps.              *)
tfcoalesceWhole(c, len) ==
    LET reached == {f \in c.segq : f[1] <= c.rnext + len}
        all == len + FoldSet(LAMBDA f, n : f[2] + n, 0, reached) IN
    [tcb |-> [c EXCEPT !.rnext = @ + all, !.rbcount = @ + all, !.segq = @ \ reached],
     fin |-> FALSE]

(* The bytes in order and the fragments they reach, lowest first, until    *)
(* one is still ahead or the FIN that came early is met.                   *)
tfcoalesce(c, len) ==
    LET Start == [r |-> c.rnext + len, fin |-> c.rnext + len = c.finseq, ahead |-> {}]
        Take(a, f) ==
            IF a.fin \/ f[1] > a.r THEN [a EXCEPT !.ahead = @ \cup {f}]
            ELSE LET r == Most(a.r, f[1] + f[2]) IN
                 [a EXCEPT !.r = r, !.fin = (r = c.finseq)]
        End == FoldLeft(Take, Start,
                    SetToSortSeq(c.segq, LAMBDA a, b : a[1] < b[1])) IN
    [tcb |-> [c EXCEPT !.rnext = End.r, !.rbcount = @ + End.r - c.rnext,
                       !.segq = IF End.fin THEN {} ELSE End.ahead],
     fin |-> End.fin]

(* pushseq is 0 without early PSH, so coalescing always pushes; t: the     *)
(* block with its data in order, and whether that met the early FIN.       *)
InOrder(t, fin, len) ==
    LET x == [t.tcb EXCEPT
                !.rnext = @ + One(fin),
                !.fl = @ \cup (IF fin THEN {"RDONE"} ELSE {})
                         \cup (IF len > 0 \/ fin THEN {"NEEDOUT"} ELSE {})
                         \cup (IF len > 0 /\ ~t.fin THEN {"PUSH"} ELSE {})] IN
    IF len > 0 \/ fin THEN tcpwakeup({"READERS"}, x) ELSE x

Coalesced(t, code, len) == InOrder(t, "FIN" \in code \/ t.fin, len)

tcpdodat(c, code, first, len) ==
    IF c.rnext = first
    THEN Coalesced(IF len > 0 THEN tfcoalesce(c, len) ELSE [tcb |-> c, fin |-> FALSE], code, len)
    ELSE tfinsert([c EXCEPT !.finseq = IF "FIN" \in code THEN first + len ELSE @], first, len)

(* len bytes from first on are copied to where they belong in the buffer.  *)
Copied(c, first, len) ==
    LET pb == (c.rbstart + c.rbcount + (first - c.rnext)) % RbSize IN
    [c EXCEPT !.rbuf = [k \in DOMAIN @ |->
        IF (k - pb) % RbSize < len THEN first + ((k - pb) % RbSize) ELSE @[k]]]

(* The part of the segment from first to over short of its end is new and  *)
(* within the window.                                                      *)
Trimmed(c, g, seq, first, over) ==
    LET len == g.len - (first - seq) - over IN
    tcpdodat(Copied(c, first, len), IF over > 0 THEN g.code \ {"FIN"} ELSE g.code, first, len)

WithData(c, g, seq) ==
    Trimmed(c, g, seq, Most(c.rnext, seq),
            Most(seq + g.len - (c.rnext + RbSize - c.rbcount), 0))

Synced(c) == [c EXCEPT !.rnext = @ + 1, !.fl = @ \cup {"NEEDOUT"}]
KickIfNeeded(c) == IF "NEEDOUT" \in c.fl THEN tcpkick(c) ELSE c

tcpdata(c, g) ==
    LET syn == "SYN" \in g.code IN
    KickIfNeeded(WithData(IF syn THEN Synced(c) ELSE c, g, g.seq + One(syn)))

-----------------------------------------------------------------------------
(* tcpswitch: one routine per state, for what needs no other block.        *)

(* tcpacked, by callers that do not look at what it returns.               *)
Acked(c, g) == IF "ACK" \in g.code THEN tcpacked(c, g) ELSE c

tcpclosed(c, g) == tcpreset(c, g)

SynAcked(c) ==
    IF "SYN" \in c.code THEN [c EXCEPT !.st = "SYNRCVD"]
    ELSE [c EXCEPT !.st = "ESTABLISHED", !.oc = signal(@)]

tcpsynsent(c, g) ==
    LET x == [c EXCEPT !.swindow = g.win, !.lwseq = g.seq, !.rnext = g.seq,
                       !.cwin = g.seq + RbSize] IN
    IF "ACK" \in g.code /\ g.ack \notin 1..c.snext THEN tcpreset(c, g)
    ELSE IF "RST" \in g.code
    THEN [tcpkilltimers(c) EXCEPT !.st = "CLOSED", !.err = "RESET", !.oc = signal(@)]
    ELSE IF "SYN" \notin g.code THEN c
    ELSE SynAcked(tcpdata(Acked(x, g), g))

(* RST and SYN on a connection: c is what the state makes of a reset.      *)
Resets(g) == g.code \cap {"RST", "SYN"} # {}
ResetBy(c, g) == IF "RST" \in g.code THEN c ELSE tcpreset(c, g)

(* What the state makes of a block after the segment's ACK and data.       *)
EndToClosewait(x) == IF "RDONE" \in x.fl THEN [x EXCEPT !.st = "CLOSEWAIT"] ELSE x
EndToTimewait(x) == IF "RDONE" \in x.fl THEN tcpwait([x EXCEPT !.st = "TIMEWAIT"]) ELSE x
Fin1Leaves(x) ==
    LET acked == "FIN" \notin x.code  done == "RDONE" \in x.fl IN
    IF done /\ ~acked THEN [x EXCEPT !.st = "CLOSING"]
    ELSE IF done THEN tcpwait([x EXCEPT !.st = "TIMEWAIT", !.oc = signal(@)])
    ELSE IF acked THEN [x EXCEPT !.st = "FINWAIT2", !.oc = signal(@)] ELSE x

tcpestablished(c, g) ==
    IF Resets(g) THEN tcpabort(ResetBy(c, g), "RESET")
    ELSE IF "ACK" \notin g.code THEN c
    ELSE EndToClosewait(tcpswindow(tcpdata(tcpacked(c, g), g), g))

tcpfin1(c, g) ==
    IF Resets(g) THEN tcpabort(ResetBy(c, g), "RESET")
    ELSE IF "ACK" \notin g.code THEN c
    ELSE Fin1Leaves(tcpswindow(tcpdata(tcpacked(c, g), g), g))

tcpfin2(c, g) ==
    IF Resets(g) THEN tcpabort(ResetBy(c, g), "RESET")
    ELSE IF "ACK" \notin g.code THEN c
    ELSE EndToTimewait(tcpdata(tcpacked(c, g), g))

tcpclosewait(c, g) ==
    IF Resets(g) THEN tcpabort(ResetBy(c, g), "RESET")
    ELSE tcpswindow(Acked(c, g), g)

(* close() deallocates.                                                    *)
LastLeaves(x) == IF "FIN" \in x.code THEN x ELSE [x EXCEPT !.oc = signal(@)]
ClosingLeaves(x) ==
    IF "FIN" \in x.code THEN x ELSE tcpwait([x EXCEPT !.st = "TIMEWAIT", !.oc = signal(@)])

tcplastack(c, g) ==
    IF Resets(g) THEN tcpabort(ResetBy(c, g), "RESET") ELSE LastLeaves(Acked(c, g))

tcpclosing(c, g) ==
    IF Resets(g) THEN tcbdealloc(ResetBy(c, g)) ELSE ClosingLeaves(Acked(c, g))

tcptimewait(c, g) ==
    IF Resets(g) THEN tcbdealloc(ResetBy(c, g))
    ELSE tcpwait(tcpdata(Acked(c, g), g))

tcpswitch(c, g) ==
    CASE c.st = "CLOSED" -> tcpclosed(c, g)
      [] c.st = "SYNSENT" -> tcpsynsent(c, g)
      [] c.st = "ESTABLISHED" -> tcpestablished(c, g)
      [] c.st = "FINWAIT1" -> tcpfin1(c, g)
      [] c.st = "FINWAIT2" -> tcpfin2(c, g)
      [] c.st = "CLOSEWAIT" -> tcpclosewait(c, g)
      [] c.st = "LASTACK" -> tcplastack(c, g)
      [] c.st = "CLOSING" -> tcpclosing(c, g)
      [] c.st = "TIMEWAIT" -> tcptimewait(c, g)

-----------------------------------------------------------------------------
(* Output.                                                                 *)

(* An offset past the data (a FIN or a second SYN is on its way) wraps:    *)
(* datalen is unsigned.                                                    *)
tcpsndlen(c, rexmt) ==
    LET off == IF rexmt \/ "SYN" \in c.code THEN 0 ELSE c.snext - c.suna
        left == IF off > c.sbcount THEN SbSize + c.smss ELSE c.sbcount - off IN
    Least(Least(left, c.swindow), c.smss)

tcphowmuch(c) ==
    c.suna + c.sbcount - c.snext + One("SYN" \in c.code) + One("SNDFIN" \in c.fl)

tcpsend(c, rexmt) ==
    LET len == tcpsndlen(c, rexmt)
        seq == IF rexmt THEN c.suna ELSE c.snext
        code == IF "SNDFIN" \in c.fl /\ seq + len = c.slast THEN c.code \cup {"FIN"} ELSE c.code
        new == IF rexmt THEN Most(c.suna + len - c.snext, 0)
               ELSE len + One("SYN" \in code) + One("FIN" \in code)
        x == [Advertise(c) EXCEPT !.code = code, !.fl = @ \ {"NEEDOUT"}, !.snext = @ + new] IN
    IF c.st = "TIMEWAIT" THEN tcpwait(x) ELSE x

tmset(c, event) == [c EXCEPT !.tm = @ \cup {event}]

tcprexmt(c, event) ==
    LET x == [c EXCEPT !.rexmtcount = @ + 1]
        half == Least(c.swindow, IF c.ost # "REXMT" THEN c.cwnd ELSE c.ssthresh) \div 2 IN
    IF event # "RETRANSMIT" THEN c
    ELSE IF x.rexmtcount > TcpMaxRetries THEN tcpabort(x, "TIMEDOUT")
    ELSE [tmset(tcpsend(x, TRUE), "RETRANSMIT") EXCEPT
            !.ssthresh = Most(half, c.smss), !.cwnd = c.smss]

(* Sends while there is something to send and the window is open.          *)
XmitLoop(c) ==
    FoldLeft(LAMBDA x, i : IF tcphowmuch(x) > 0 /\ x.snext - x.suna < Least(x.swindow, x.cwnd)
                           THEN tcpsend(x, FALSE) ELSE x,
             c, [i \in 1..SbSize + 2 |-> i])

AckOnly(x) == IF x.snext = x.suna THEN x ELSE tmset(x, "RETRANSMIT")

tcpxmit(c, event) ==
    IF event = "RETRANSMIT"
    THEN [tcprexmt([c EXCEPT !.tm = @ \ {"SEND"}], event) EXCEPT !.ost = "REXMT"]
    ELSE IF tcphowmuch(c) = 0
    THEN AckOnly(IF "NEEDOUT" \in c.fl THEN tcpsend(c, FALSE) ELSE c)
    ELSE IF c.swindow = 0
    THEN tmset(tcpsend([c EXCEPT !.ost = "PERSIST"], FALSE), "PERSIST")
    ELSE tmset(XmitLoop([c EXCEPT !.ost = "XMIT"]), "RETRANSMIT")

tcpidle(c, event) == IF event = "SEND" THEN tcpxmit(c, event) ELSE c

tcppersist(c, event) ==
    IF event \in {"PERSIST", "SEND"} THEN tmset(tcpsend(c, TRUE), "PERSIST") ELSE c

tcposwitch(c, event) ==
    CASE c.ost = "IDLE" -> tcpidle(c, event)
      [] c.ost = "PERSIST" -> tcppersist(c, event)
      [] c.ost = "XMIT" -> tcpxmit(c, event)
      [] c.ost = "REXMT" -> tcprexmt(c, event)
=============================================================================

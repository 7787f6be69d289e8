------------------------------- MODULE IpReass -------------------------------
(***************************************************************************)
(* IP fragmentation and reassembly.                                        *)
(*                                                                         *)
(* A peer cuts datagrams as ipputp() does; the network duplicates,         *)
(* reorders and loses the fragments; ipproc passes each one that arrives   *)
(* to ipreass(), while slowtimer runs ipftimer() over the same table.      *)
(* Both hold the semaphore ipfmutex: the head of `mutex` has it, the rest  *)
(* wait in order.  A holder can lose the CPU (in getbuf of a large buffer, *)
(* in freebuf when somebody waits for the buffer, in the device write of   *)
(* icmp()), so the calls to wait(ipfmutex) and the work done under the     *)
(* mutex are separate steps.                                               *)
(*                                                                         *)
(* Offsets and lengths are in units of 8 octets.  All fragments of a       *)
(* datagram come from one cut; a datagram is known by its ip_id and ip_src *)
(* alone, as in the code.                                                  *)
(***************************************************************************)
EXTENDS Integers, Sequences, FiniteSets, SequencesExt, FiniteSetsExt

CONSTANTS
    Datagrams,  \* the (ip_src, ip_id) pairs
    Size,       \* [Datagrams -> Nat]: payload of a datagram
    Cut,        \* [Datagrams -> Nat]: maxdlen of the interface it left by
    IP_FQSIZE,  \* slots of ipfqt[], and the length of a slot's queue
    IP_FTTL,    \* ticks without a new fragment before a slot expires
    MAXLRGBUF,  \* payload ipfjoin accepts
    NETBUFS,    \* network buffers
    LRGBUFS,    \* large buffers
    NETSTART_SLOWTIMER, \* does the build start slowtimer?
    MaxGran,    \* longest delay slowtimer takes for granted (4*STGRAN)
    MaxArrive   \* bound: fragments that arrive

ASSUME ReassAssumption ==
    /\ Size \in [Datagrams -> Nat \ {0}] /\ Cut \in [Datagrams -> Nat \ {0}]
    /\ IP_FQSIZE \in Nat \ {0} /\ IP_FTTL \in Nat \ {0} /\ MAXLRGBUF \in Nat
    /\ NETBUFS \in Nat \ {0} /\ LRGBUFS \in Nat /\ MaxArrive \in Nat
    /\ MaxGran \in Nat \ {0} /\ NETSTART_SLOWTIMER \in BOOLEAN

Slots == 0..IP_FQSIZE-1
NONE == -1
NoDatagram == "none"
NoFragment == [dg |-> NoDatagram, off |-> 0, len |-> 0, mf |-> FALSE]

(* ipputp(), ipfsend(): pieces of maxdlen with IP_MF, then the residual    *)
Fragments(d) ==
    {[dg |-> d, off |-> o, len |-> IF o + Cut[d] <= Size[d] THEN Cut[d]
                                   ELSE Size[d] - o, mf |-> o + Cut[d] < Size[d]] :
        o \in {Cut[d] * k : k \in 0..((Size[d] - 1) \div Cut[d])}}

AllFragments == UNION {Fragments(d) : d \in Datagrams}
End(f) == f.off + f.len
Free == [state |-> "FREE", dg |-> NoDatagram, ttl |-> 0, q |-> <<>>, seen |-> NONE]

VARIABLES
    ipfqt,      \* the table; seen is the seeq() cursor of the slot's queue
    mutex,      \* ipfmutex: who holds it, then who waits
    ipc, frag, islot,   \* ipproc: where it is, its fragment, slot to join
    tpc, tidx, gran,    \* slowtimer: where it is, next slot, time passed
    netfree, lrgfree,   \* buffers in the two pools
    upnet, uplrg,       \* buffers the upper protocols hold
    written,            \* buffers given to the device by icmp()
    out,                \* datagram ipreass() returned in this step
    arrived             \* fragments that arrived, for the bound

procVars == <<ipc, frag, islot>>
timerVars == <<tpc, tidx, gran>>
poolVars == <<netfree, lrgfree, upnet, uplrg, written>>
vars == <<ipfqt, mutex, procVars, timerVars, poolVars, out, arrived>>

Nobody == [dg |-> NoDatagram, data |-> <<>>]

\* ipfinit(), and the pools as netstart() makes them
Init ==
    /\ ipfqt = [i \in Slots |-> Free]
    /\ mutex = <<>>
    /\ ipc = "ipgetp" /\ frag = NoFragment /\ islot = NONE
    /\ tpc = "sleep" /\ tidx = 0 /\ gran = 1
    /\ netfree = NETBUFS /\ lrgfree = LRGBUFS
    /\ upnet = 0 /\ uplrg = 0 /\ written = 0
    /\ out = Nobody
    /\ arrived = 0

Holds(p) == mutex # <<>> /\ Head(mutex) = p
Wait(p) == mutex' = Append(mutex, p)
Signal == mutex' = Tail(mutex)

-----------------------------------------------------------------------------
(* The generic queue of a slot.                                            *)

\* enq() with key -fragoff: behind the fragments at or before its offset, which
\* are the first ones, as the queue is in order
Enq(q, f) == InsertAt(q, Cardinality({j \in DOMAIN q : q[j].off <= f.off}) + 1, f)

\* ipfjoin()'s loop: the fragments seeq() still shows, and where they stop
Seen(s) == SubSeq(s.q, s.seen + 2, Len(s.q))
HasGap(v) ==
    \E j \in 1..Len(v) : v[j].off > (IF j = 1 THEN 0 ELSE End(v[j-1]))
JoinedEnd(v) == IF v = <<>> THEN 0 ELSE End(Last(v))

\* Mutant of ipfjoin(): the cursor stays where the gap was found
AfterGapUndrained(s) ==
    [s EXCEPT !.seen = s.seen + Min({j \in 1..Len(Seen(s)) : 
        Seen(s)[j].off > (IF j = 1 THEN 0 ELSE End(Seen(s)[j-1]))})]

\* seeq() until it answers NULL: its cursor is back at the start
AfterGap(s) == [s EXCEPT !.seen = NONE]

\* what a copy of dlen units from position doff of a fragment's data reads
Copied(f, doff, dlen) ==
    [k \in 1..dlen |-> IF doff + k \in 1..f.len THEN f.off + doff + k - 1
                                                ELSE NONE]

\* ipfcons(): of each fragment, what lies beyond the data copied so far
Constructed(q) ==
    LET data[j \in 0..Len(q)] ==
            IF j = 0 THEN <<>>
            ELSE LET doff == Len(data[j-1]) - q[j].off
                 IN  data[j-1] \o Copied(q[j], doff, q[j].len - doff)
    IN  data[Len(q)]

-----------------------------------------------------------------------------
(* ipproc: ipgetp() ... local_out() -> ipreass().                          *)

\* a fragment arrived; wait(ipfmutex)
Arrive(f) ==
    /\ ipc = "ipgetp" /\ netfree > 0
    /\ arrived < MaxArrive /\ arrived' = arrived + 1
    /\ netfree' = netfree - 1
    /\ ipc' = "ipreass" /\ frag' = f /\ Wait("ipproc")
    /\ out' = Nobody
    /\ UNCHANGED <<ipfqt, islot, timerVars, lrgfree, upnet, uplrg, written>>

InReass == ipc = "ipreass" /\ Holds("ipproc")
Return == ipc' = "ipgetp" /\ frag' = NoFragment /\ Signal
Matching == {i \in Slots : ipfqt[i].state # "FREE" /\ ipfqt[i].dg = frag.dg}
FreeSlots == {i \in Slots : ipfqt[i].state = "FREE"}

\* not a fragment: returned as it is
NotFragmented ==
    /\ InReass /\ frag.off = 0 /\ ~frag.mf
    /\ out' = [dg |-> frag.dg, data |-> Copied(frag, 0, frag.len)]
    /\ upnet' = upnet + 1
    /\ Return
    /\ UNCHANGED <<ipfqt, islot, timerVars, netfree, lrgfree, uplrg, written, arrived>>

IsFragment == frag.off # 0 \/ frag.mf

\* Mutant of ipreass()/ipfadd(): the dropped fragment is not freed
DropKept == netfree' = netfree

DropFragment == netfree' = netfree + 1

\* no slot, or newq() fails: drop
NoRoom ==
    /\ InReass /\ IsFragment /\ Matching = {}
    /\ DropFragment /\ Return
    /\ out' = Nobody
    /\ UNCHANGED <<ipfqt, islot, timerVars, lrgfree, upnet, uplrg, written, arrived>>

NewSlot(f) == [state |-> "VALID", dg |-> f.dg, ttl |-> IP_FTTL, q |-> <<f>>, seen |-> NONE]

\* first fragment of its datagram: a new slot, and no attempt to join
FirstFragment ==
    /\ InReass /\ IsFragment /\ Matching = {} /\ FreeSlots # {}
    /\ ipfqt' = [ipfqt EXCEPT ![Min(FreeSlots)] = NewSlot(frag)]
    /\ Return
    /\ out' = Nobody
    /\ UNCHANGED <<islot, timerVars, poolVars, arrived>>

\* ipfadd() to a slot that overflowed earlier
Bogus ==
    /\ InReass /\ IsFragment /\ Matching # {}
    /\ ipfqt[Min(Matching)].state = "BOGUS"
    /\ DropFragment /\ Return
    /\ out' = Nobody
    /\ UNCHANGED <<ipfqt, islot, timerVars, lrgfree, upnet, uplrg, written, arrived>>

Slot == ipfqt[Min(Matching)]
ValidMatch == InReass /\ IsFragment /\ Matching # {} /\ Slot.state = "VALID"

\* ipfadd() to a full queue: every fragment of the datagram is dropped
Overflow ==
    /\ ValidMatch /\ Len(Slot.q) >= IP_FQSIZE
    /\ ipfqt' = [ipfqt EXCEPT ![Min(Matching)] =
                    [@ EXCEPT !.state = "BOGUS", !.q = <<>>, !.seen = NONE]]
    /\ netfree' = netfree + 1 + Len(Slot.q)
    /\ Return
    /\ out' = Nobody
    /\ UNCHANGED <<islot, timerVars, lrgfree, upnet, uplrg, written, arrived>>

Added == [Slot EXCEPT !.q = Enq(@, frag), !.ttl = IP_FTTL]
CanAdd == ValidMatch /\ Len(Slot.q) < IP_FQSIZE

\* ipfadd(), ipfjoin() finds a gap
AddGap ==
    /\ CanAdd /\ HasGap(Seen(Added))
    /\ ipfqt' = [ipfqt EXCEPT ![Min(Matching)] = AfterGap(Added)]
    /\ Return
    /\ out' = Nobody
    /\ UNCHANGED <<islot, timerVars, poolVars, arrived>>

\* ipfadd(), ipfjoin() finds more than a large buffer can take
AddTooBig ==
    /\ CanAdd /\ ~HasGap(Seen(Added)) /\ JoinedEnd(Seen(Added)) > MAXLRGBUF
    /\ ipfqt' = [ipfqt EXCEPT ![Min(Matching)] = Free]
    /\ netfree' = netfree + Len(Added.q)
    /\ Return
    /\ out' = Nobody
    /\ UNCHANGED <<islot, timerVars, lrgfree, upnet, uplrg, written, arrived>>

Whole(s) == ~HasGap(Seen(s)) /\ JoinedEnd(Seen(s)) <= MAXLRGBUF

\* Mutant of ipfjoin(): no gap is taken for complete
LastSeenAny(s) == TRUE

LastSeen(s) == Seen(s) = <<>> \/ ~Last(Seen(s)).mf

\* ipfadd(), ipfjoin(): no gap, but the last fragment is still to come
AddMore ==
    /\ CanAdd /\ Whole(Added) /\ ~LastSeen(Added)
    /\ ipfqt' = [ipfqt EXCEPT ![Min(Matching)] = [Added EXCEPT !.seen = NONE]]
    /\ Return
    /\ out' = Nobody
    /\ UNCHANGED <<islot, timerVars, poolVars, arrived>>

\* ipfadd(), ipfjoin() has them all: ipfcons() asks for a large buffer
AddLast ==
    /\ CanAdd /\ Whole(Added) /\ LastSeen(Added)
    /\ ipfqt' = [ipfqt EXCEPT ![Min(Matching)] = [Added EXCEPT !.seen = NONE]]
    /\ ipc' = "getbuf" /\ frag' = NoFragment /\ islot' = Min(Matching)
    /\ out' = Nobody
    /\ UNCHANGED <<mutex, timerVars, poolVars, arrived>>

GotLarge == ipc = "getbuf" /\ lrgfree > 0

\* ipfcons() after getbuf(Net.lrgpool), which blocks with ipfmutex held
Construct ==
    /\ GotLarge
    /\ LET s == ipfqt[islot] IN
         /\ out' = [dg |-> s.dg, data |-> Constructed(s.q)]
         /\ netfree' = netfree + Len(s.q)
    /\ lrgfree' = lrgfree - 1 /\ uplrg' = uplrg + 1
    /\ ipfqt' = [ipfqt EXCEPT ![islot] = Free]
    /\ islot' = NONE
    /\ Return
    /\ UNCHANGED <<timerVars, upnet, written, arrived>>

\* the readers of the upper protocols free the buffers passed to them
Consume ==
    /\ \/ /\ upnet > 0 /\ upnet' = upnet - 1 /\ netfree' = netfree + 1
          /\ UNCHANGED <<uplrg, lrgfree>>
       \/ /\ uplrg > 0 /\ uplrg' = uplrg - 1 /\ lrgfree' = lrgfree + 1
          /\ UNCHANGED <<upnet, netfree>>
    /\ out' = Nobody
    /\ UNCHANGED <<ipfqt, mutex, procVars, timerVars, written, arrived>>

-----------------------------------------------------------------------------
(* slowtimer: sleep(STGRAN), then ipftimer(delay).                         *)

TimerWake ==
    /\ NETSTART_SLOWTIMER
    /\ tpc = "sleep" /\ tpc' = "ipftimer" /\ tidx' = 0
    /\ gran' \in 1..MaxGran
    /\ Wait("slowtimer")
    /\ out' = Nobody
    /\ UNCHANGED <<ipfqt, procVars, poolVars, arrived>>

Scanning == tpc = "ipftimer" /\ Holds("slowtimer") /\ tidx \in Slots
NextSlot == tidx' = tidx + 1 /\ UNCHANGED <<tpc, gran>>
Aged == [ipfqt[tidx] EXCEPT !.ttl = @ - gran]

\* a free slot, or one with time left
TimerAge ==
    /\ Scanning
    /\ \/ ipfqt[tidx].state = "FREE" /\ UNCHANGED ipfqt
       \/ /\ ipfqt[tidx].state # "FREE" /\ Aged.ttl > 0
          /\ ipfqt' = [ipfqt EXCEPT ![tidx] = Aged]
    /\ NextSlot
    /\ out' = Nobody
    /\ UNCHANGED <<mutex, procVars, poolVars, arrived>>

\* Mutant of ipftimer(): a BOGUS slot is not given back
ExpireSlotKept == IF Aged.state = "BOGUS" THEN [Aged EXCEPT !.ttl = 0] ELSE Free

ExpiredSlot == Free

\* a BOGUS slot expires: its fragments are gone already
TimerExpireBogus ==
    /\ Scanning /\ ipfqt[tidx].state = "BOGUS" /\ Aged.ttl <= 0
    /\ ipfqt' = [ipfqt EXCEPT ![tidx] = ExpiredSlot]
    /\ NextSlot
    /\ out' = Nobody
    /\ UNCHANGED <<mutex, procVars, poolVars, arrived>>

\* icmp() writes the first fragment or frees it, ipftimer() frees the others
FreedByTimer(q, icmp) == IF icmp THEN Len(q) - 1 ELSE Len(q)

\* icerrok(): no error about a later fragment; the other reasons to refuse
\* (an ICMP error, a broadcast) are the choice of icmp = FALSE
IcErrOk(f) == f.off = 0

\* a VALID slot expires: ICMP time exceeded about a first fragment that
\* icerrok() lets pass; the buffer goes to the device, which never frees it
TimerExpire ==
    /\ Scanning /\ ipfqt[tidx].state = "VALID" /\ Aged.ttl <= 0
    /\ \E icmp \in {TRUE, FALSE} :
         /\ icmp => IcErrOk(Head(Aged.q))
         /\ netfree' = netfree + FreedByTimer(Aged.q, icmp)
         /\ written' = written + (IF icmp THEN 1 ELSE 0)
    /\ ipfqt' = [ipfqt EXCEPT ![tidx] = Free]
    /\ NextSlot
    /\ out' = Nobody
    /\ UNCHANGED <<mutex, procVars, lrgfree, upnet, uplrg, arrived>>

TimerDone ==
    /\ tpc = "ipftimer" /\ Holds("slowtimer") /\ tidx = IP_FQSIZE
    /\ tpc' = "sleep" /\ tidx' = 0 /\ gran' = 1 /\ Signal
    /\ out' = Nobody
    /\ UNCHANGED <<ipfqt, procVars, poolVars, arrived>>

-----------------------------------------------------------------------------
Ipreass ==
    \/ NotFragmented \/ NoRoom \/ FirstFragment \/ Bogus \/ Overflow
    \/ AddGap \/ AddTooBig \/ AddMore \/ AddLast \/ Construct

Ipftimer == TimerWake \/ TimerAge \/ TimerExpireBogus \/ TimerExpire \/ TimerDone

Next == (\E f \in AllFragments : Arrive(f)) \/ Ipreass \/ Consume \/ Ipftimer

\* ipproc and slowtimer run when they can (equal priorities, both yield);
\* the upper protocols read what they are given
Spec == Init /\ [][Next]_vars
FairSpec == Spec /\ WF_procVars(Ipreass) /\ WF_timerVars(Ipftimer) /\ WF_poolVars(Consume)

-----------------------------------------------------------------------------
Queued == Cardinality({n \in Slots \X (1..IP_FQSIZE) : n[2] <= Len(ipfqt[n[1]].q)})

\* The variables have the shape the code gives them
TypeOK ==
    /\ \A i \in Slots :
         /\ ipfqt[i].state \in {"FREE", "VALID", "BOGUS"}
         /\ ipfqt[i].ttl \in 0..IP_FTTL
         /\ ipfqt[i].q \in Seq(AllFragments) /\ Len(ipfqt[i].q) <= IP_FQSIZE
    /\ mutex \in {<<>>, <<"ipproc">>, <<"slowtimer">>,
                  <<"ipproc", "slowtimer">>, <<"slowtimer", "ipproc">>}
    /\ ipc \in {"ipgetp", "ipreass", "getbuf"} /\ tpc \in {"sleep", "ipftimer"}
    /\ frag \in AllFragments \cup {NoFragment}
    /\ islot \in Slots \cup {NONE} /\ tidx \in 0..IP_FQSIZE
    /\ netfree \in 0..NETBUFS /\ lrgfree \in 0..LRGBUFS

\* Whatever path a fragment takes (joined, overflow, too big, expired,
\* dropped), its buffer is in one place: no path of ipreass(), ipfadd(),
\* ipfjoin(), ipfcons() or ipftimer() loses a buffer or frees one twice.
BuffersConserved ==
    /\ TypeOK
    /\ netfree + Queued + upnet + written + (IF ipc = "ipreass" THEN 1 ELSE 0)
         = NETBUFS
    /\ lrgfree + uplrg = LRGBUFS

\* Whatever the order and duplication of the fragments, ipreass() returns
\* the datagram that was cut: all of its data, in order, nothing else.
WholeDatagram ==
    out.dg # NoDatagram => out.data = [k \in 1..Size[out.dg] |-> k - 1]

\* With ipfmutex free no slot holds a complete datagram: the fragment that
\* completes it is the one that joins it, wherever it lies in the datagram.
JoinedWhenComplete ==
    ~Holds("ipproc") =>
        \A i \in Slots : ipfqt[i].state = "VALID" =>
            \E f \in AllFragments :
                f.dg = ipfqt[i].dg /\ \A j \in 1..Len(ipfqt[i].q) : ipfqt[i].q[j] # f

\* Once fragments stop coming, every slot is given back (joined, or timed out
\* by ipftimer(), BOGUS or not) and ipproc is through, although it waits for
\* a large buffer with ipfmutex held, which keeps slowtimer waiting.
TableDrains ==
    (arrived = MaxArrive) ~>
        (ipc = "ipgetp" /\ \A i \in Slots : ipfqt[i].state = "FREE")
=============================================================================

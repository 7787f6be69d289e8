---------------------------- MODULE NetIoProof ----------------------------
(***************************************************************************)
(* NetIo for every size of the ARP table and of the queues, every set of   *)
(* next hops and ARP senders and every number of frames: no packet waits   *)
(* for ipproc unseen, and every network buffer is in one place.            *)
(***************************************************************************)
EXTENDS NetIo, QueueFacts

EntryT == [state : {"FREE", "PENDING", "RESOLVED"}, pra : Addrs, ttl : 0..Timeout,
           att : 0..MaxRetry, q : {s \in Seq(NextHops) : Len(s) <= QSize}]

AtT == [pae : Entries, e : Entries, dst : Addrs, nh : Addrs, ok : {"get", "frag", "arpq", "arpend"},
        req : BOOLEAN]

Spots == {"start", "rt", "none", "born", "ip", "slow", "waitip", "waitslow", "gath", "done",
          "getbuf", "read", "arpq", "write", "dq", "alloc", "ask", "queue", "arpend", "dead",
          "get", "recv", "proc", "frag", "fwrite", "fragbad", "sleep", "aging"}

NetSpots == {"getbuf", "read", "arpq", "write", "dq", "alloc", "ask", "queue", "arpend", "dead"}
IpSpots  == {"get", "recv", "proc", "frag", "fwrite", "fragbad", "dq", "alloc", "ask", "queue"}
SlowSpots == {"sleep", "aging", "dq", "ask"}

\* Where each process may be.
Places ==
    /\ pc \in [Procs -> Spots]
    /\ pc["main"] \in {"start", "rt", "ip", "waitip", "slow", "waitslow", "gath", "done"}
    /\ pc["net"] \in NetSpots \union {"none"}
    /\ pc["ip"] \in IpSpots \union {"none", "born"}
    /\ pc["slow"] \in SlowSpots \union {"none", "born"}

\* netstart creates each process once, and Net.sema has a unit for each one
\* that has begun.
Begun(p) == IF pc[p] \in {"none", "born"} THEN 0 ELSE 1

StartUp ==
    /\ pc["main"] /= "done" => pc["net"] = "none"
    /\ pc["main"] \in {"start", "rt", "ip"} => pc["ip"] = "none"
    /\ pc["main"] \in {"start", "rt", "ip", "waitip", "slow"} => pc["slow"] = "none"
    /\ sema \in Nat /\ sema <= 1 + Begun("ip") + Begun("slow")

Counters ==
    /\ cpu \in Procs \union {"any"} /\ halted \in BOOLEAN /\ msg \in BOOLEAN
    /\ inq \in 0..InqMax /\ held \in 0..InqMax
    /\ aenext \in Entries /\ nfrag \in 0..MaxFrags /\ age \in 1..TSize + 1 /\ gran \in 1..MaxGran
    /\ arps \in 0..MaxArps

\* What getbuf and freebuf keep.
Pool ==
    /\ inuse \in Int /\ inuse <= NetBufs /\ spent \in Nat /\ lost \in Nat
    /\ waits \in Seq(Procs)

Table == arp \in [Entries -> EntryT]

\* What a process that is in netwrite remembers across the places where it
\* may lose the processor.
Memory ==
    /\ at \in [{"net", "ip"} -> AtT]
    /\ pc["net"] \in {"write", "ask", "queue"} => at["net"].nh \in NextHops
    /\ pc["net"] \in {"ask", "queue"} => at["net"].ok = "arpq"
    /\ pc["net"] \in {"dq", "alloc"} =>
          at["net"].ok = "arpend" \/ (at["net"].ok = "arpq" /\ at["net"].nh \in NextHops)
    /\ pc["ip"] \in {"dq", "alloc", "ask", "queue"} =>
          at["ip"].nh \in NextHops /\ at["ip"].ok \in {"get", "frag"}
    /\ pc["ip"] \in {"dq", "alloc", "ask", "queue"} /\ at["ip"].ok = "frag" => at["ip"].dst \in NextHops
    /\ pc["ip"] \in {"frag", "fwrite"} => at["ip"].dst \in NextHops
    /\ pc["slow"] = "dq" => age \in Entries

\* The buffers that something still refers to, and of them those that are not
\* on an ARP queue.
Out   == inuse - spent - lost
Slack == Out - QueuedPackets

Count == Slack = inq + held + HeldByNet + HeldByIp

NetInv == Places /\ StartUp /\ Counters /\ Pool /\ Table /\ Memory /\ Count

-----------------------------------------------------------------------------
\* The constants.
LEMMA Sizes ==
    /\ TSize \in Nat /\ TSize > 0 /\ QSize \in Nat /\ QSize > 0 /\ InqMax \in Nat /\ InqMax > 0
    /\ Resend \in Nat /\ Timeout \in Nat /\ Resend <= Timeout /\ MaxFrags \in Nat
    /\ MaxRetry \in Nat /\ MaxArps \in Nat /\ NetBufs \in Nat /\ NetBufs > 0
    /\ MaxGran \in Nat /\ MaxGran > 0
  BY NetIoSizes

LEMMA Hops ==
    /\ (CHOOSE a \in Addrs : TRUE) \in Addrs
    /\ \A a \in NextHops : a \in Addrs
    /\ \A a \in ArpSenders : a \in Addrs
  BY NetIoSizes DEF Addrs

\* arpfind finds an entry of the table, arpalloc takes one.
LEMMA FindIn == ASSUME NEW a, Found(a) # {} PROVE arpfind(a) \in Entries /\ arpfind(a) \in Found(a)
<1>1. Found(a) \in SUBSET Nat /\ Found(a) \subseteq Entries
  BY DEF Found, Entries
<1> QED  BY <1>1, Smallest DEF arpfind

LEMMA Slot ==
    ASSUME NEW m \in Nat
    PROVE  (m % TSize) + 1 \in Entries
<1>1. m % TSize \in 0..(TSize - 1)
  BY Sizes
<1> QED  BY <1>1, Sizes DEF Entries

LEMMA AllocIn == ASSUME Counters PROVE arpalloc \in Entries /\ Next1(arpalloc) \in Entries
<1>1. aenext \in Entries /\ aenext \in Nat /\ aenext >= 1
  BY DEF Counters, Entries
<1>2. ASSUME NEW i \in Entries PROVE From(i) \in Entries
  <2>1. i \in Nat /\ i >= 1
    BY DEF Entries
  <2>2. aenext + i - 2 \in Nat
    BY <1>1, <2>1
  <2> QED  BY <2>2, Slot DEF From
<1> DEFINE free == {i \in Entries : arp[From(i)].state = "FREE"}
<1>3. ASSUME free = {} PROVE arpalloc \in Entries
  BY <1>1, <1>3 DEF arpalloc
<1>4. ASSUME free # {} PROVE arpalloc \in Entries
  <2>1. free \in SUBSET Nat
    BY DEF Entries
  <2>2. Min(free) \in free
    BY <1>4, <2>1, Smallest
  <2>3. From(Min(free)) \in Entries
    BY <1>2, <2>2
  <2>4. arpalloc = From(Min(free))
    BY <1>4 DEF arpalloc
  <2> QED  BY <2>3, <2>4
<1>5. arpalloc \in Entries
  BY <1>3, <1>4
<1>6. \A e \in Entries : e \in Nat
  BY DEF Entries
<1> QED  BY <1>5, <1>6, Slot DEF Next1

-----------------------------------------------------------------------------
\* The ARP queues.  The taken places are pairs of an entry and a place in its
\* queue; those of one entry are a row.
Taken == {n \in Entries \X (1..QSize) : n[2] <= Len(arp[n[1]].q)}

LEMMA TakenFinite ==
    ASSUME NEW S \in SUBSET (Entries \X (1..QSize))
    PROVE  IsFiniteSet(S) /\ Cardinality(S) \in Nat
<1>1. IsFiniteSet(Entries) /\ IsFiniteSet(1..QSize)
  <2>1. 1 \in Int /\ TSize \in Int /\ QSize \in Int
    BY Sizes
  <2> QED  BY <2>1, FS_Interval DEF Entries
<1>2. IsFiniteSet(Entries \X (1..QSize))
  BY <1>1, FS_Product
<1>3. IsFiniteSet(S)
  BY <1>2, FS_Subset
<1> QED  BY <1>3, FS_CardinalityType

LEMMA QueuedNat == QueuedPackets \in Nat /\ QueuedPackets = Cardinality(Taken)
<1>1. Taken \in SUBSET (Entries \X (1..QSize))
  BY DEF Taken
<1> QED  BY <1>1, TakenFinite DEF QueuedPackets, Taken

LEMMA QueuedCounted == QueuedPackets' \in Nat
<1>1. Taken' \in SUBSET (Entries \X (1..QSize))
  BY DEF Taken
<1>2. Cardinality(Taken') \in Nat
  BY <1>1, TakenFinite
<1> QED  BY <1>2 DEF QueuedPackets, Taken

LEMMA EntryFields ==
    ASSUME NEW r \in EntryT
    PROVE  /\ r.q \in Seq(NextHops) /\ Len(r.q) \in Nat /\ Len(r.q) <= QSize
           /\ r.ttl \in 0..Timeout /\ r.att \in 0..MaxRetry /\ r.pra \in Addrs
           /\ r.state \in {"FREE", "PENDING", "RESOLVED"}
  BY DEF EntryT

\* Whatever is put into one entry, the count follows the length of its queue.
LEMMA QueuedPut ==
    ASSUME Table, NEW e \in Entries, NEW r \in EntryT, arp' = [arp EXCEPT ![e] = r]
    PROVE  /\ Table'
           /\ QueuedPackets' = QueuedPackets - Len(arp[e].q) + Len(r.q)
<1>1. Table' /\ arp'[e] = r /\ \A i \in Entries \ {e} : arp'[i] = arp[i]
  BY DEF Table
<1>2. arp[e] \in EntryT
  BY DEF Table
<1>3. PICK k \in Nat : k = Len(arp[e].q) /\ k <= QSize
  BY <1>2, EntryFields
<1>4. PICK m \in Nat : m = Len(r.q) /\ m <= QSize
  BY EntryFields
<1> DEFINE rest == {n \in Taken : n[1] # e}
           rest1 == {n \in Taken' : n[1] # e}
<1>5. rest1 = rest
  BY <1>1 DEF Taken
<1>6. Taken = rest \cup Row(e, k) /\ rest \cap Row(e, k) = {}
  BY <1>3, Sizes DEF Taken, Row
<1>7. Taken' = rest1 \cup Row(e, m) /\ rest1 \cap Row(e, m) = {}
  BY <1>1, <1>4, Sizes DEF Taken, Row
<1>8. rest \in SUBSET (Entries \X (1..QSize))
  BY DEF Taken
<1> HIDE DEF rest, rest1
<1>9. IsFiniteSet(rest) /\ Cardinality(rest) \in Nat
  BY <1>8, TakenFinite
<1>10. ASSUME NEW n \in Nat, rest \cap Row(e, n) = {}
       PROVE  Cardinality(rest \cup Row(e, n)) = Cardinality(rest) + n
  <2>1. IsFiniteSet(Row(e, n)) /\ Cardinality(Row(e, n)) = n
    BY RowCount
  <2>2. Cardinality(rest \cup Row(e, n)) =
          Cardinality(rest) + Cardinality(Row(e, n)) - Cardinality(rest \cap Row(e, n))
    BY <1>9, <2>1, FS_Union
  <2>3. Cardinality(rest \cap Row(e, n)) = 0
    BY <1>10, FS_EmptySet
  <2> QED  BY <1>9, <2>1, <2>2, <2>3
<1>11. Cardinality(Taken) = Cardinality(rest) + k
  BY <1>6, <1>10
<1>12. Cardinality(Taken') = Cardinality(rest) + m
  BY <1>5, <1>7, <1>10
<1>13. QueuedPackets = Cardinality(Taken) /\ QueuedPackets' = Cardinality(Taken')
  BY DEF QueuedPackets, Taken
<1>14. QueuedPackets' = QueuedPackets - k + m
  BY <1>9, <1>11, <1>12, <1>13
<1> QED  BY <1>1, <1>3, <1>4, <1>14

\* Entries the program makes.
LEMMA Made ==
    /\ Free \in EntryT /\ Free.q = <<>> /\ Len(Free.q) = 0
    /\ \A a \in Addrs : /\ Pending(a) \in EntryT /\ Len(Pending(a).q) = 0
                        /\ arpadd(a) \in EntryT /\ Len(arpadd(a).q) = 0
<1> DEFINE z == <<>>
<1>1. z \in Seq(NextHops) /\ Len(z) = 0
  OBVIOUS
<1> HIDE DEF z
<1>2. z \in {s \in Seq(NextHops) : Len(s) <= QSize}
  BY <1>1, Sizes
<1>3. ASSUME NEW st \in {"FREE", "PENDING", "RESOLVED"}, NEW a \in Addrs, NEW t \in 0..Timeout
      PROVE  [state |-> st, pra |-> a, q |-> z, ttl |-> t, att |-> 0] \in EntryT
  BY <1>2, Sizes DEF EntryT
<1>4. 0 \in 0..Timeout /\ Resend \in 0..Timeout /\ Timeout \in 0..Timeout
  BY Sizes
<1>5. Free \in EntryT /\ Free.q = z
  BY <1>3, <1>4, Hops DEF Free, z
<1>6. ASSUME NEW a \in Addrs
      PROVE  /\ Pending(a) \in EntryT /\ Pending(a).q = z
             /\ arpadd(a) \in EntryT /\ arpadd(a).q = z
  BY <1>3, <1>4 DEF Pending, arpadd, z
<1> QED  BY <1>1, <1>5, <1>6 DEF z

\* An entry that keeps its queue, with other fields changed.
LEMMA Kept ==
    ASSUME NEW r \in EntryT, NEW t \in 0..Timeout
    PROVE  /\ [r EXCEPT !.ttl = t] \in EntryT /\ [r EXCEPT !.ttl = t].q = r.q
           /\ [Free EXCEPT !.q = r.q] \in EntryT /\ [Free EXCEPT !.q = r.q].q = r.q
<1>1. [r EXCEPT !.ttl = t] \in EntryT /\ [r EXCEPT !.ttl = t].q = r.q
  BY DEF EntryT
<1>2. Free \in EntryT /\ r.q \in {s \in Seq(NextHops) : Len(s) <= QSize}
  BY Made DEF EntryT
<1>3. [Free EXCEPT !.q = r.q] \in EntryT /\ [Free EXCEPT !.q = r.q].q = r.q
  BY <1>2 DEF EntryT
<1> QED  BY <1>1, <1>3

-----------------------------------------------------------------------------
(* The pool.  Getbuf and freebuf move one buffer, a write or a packet that *)
(* is forgotten takes one out of reach.                                    *)
LEMMA Amounts == ASSUME Pool PROVE Out \in Int /\ Slack \in Int
  BY QueuedNat DEF Pool, Out, Slack

LEMMA Amounts1 == ASSUME Pool' PROVE Out' \in Int /\ Slack' \in Int
  BY QueuedCounted DEF Pool, Out, Slack

LEMMA Gets ==
    ASSUME Pool, NEW p, Getbuf(p), UNCHANGED lost,
           NEW d \in {0, 1}, spent' = spent + d
    PROVE  Pool' /\ Out' = Out + 1 - d
<1>1. waits' \in Seq(Procs)
  <2>1. waits \in Seq(Procs)
    BY DEF Pool
  <2>2. waits # <<>> => Tail(waits) \in Seq(Procs)
    BY <2>1
  <2> QED  BY <2>1, <2>2 DEF Getbuf
<1>2. inuse < NetBufs /\ inuse' = inuse + 1
  BY DEF Getbuf
<1> QED  BY <1>1, <1>2, Sizes DEF Pool, Out

LEMMA Frees ==
    ASSUME Pool, NEW p \in Procs \union {"any"}, Freebuf(p), UNCHANGED <<waits, spent, lost>>
    PROVE  Pool' /\ Out' = Out - 1 /\ cpu' \in Procs \union {"any"}
<1>1. inuse' = inuse - 1 /\ cpu' \in Procs \union {"any"}
  BY DEF Freebuf
<1> QED  BY <1>1, Sizes DEF Pool, Out

LEMMA Leaves ==
    ASSUME Pool, UNCHANGED <<inuse, waits>>, NEW m \in Nat, NEW n \in Nat,
           spent' = spent + m, lost' = lost + n
    PROVE  Pool' /\ Out' = Out - m - n
  BY DEF Pool, Out

LEMMA PoolKept == ASSUME Pool, UNCHANGED pool PROVE Pool' /\ Out' = Out
  BY DEF Pool, Out, pool

\* No queue changes.
LEMMA Unqueued ==
    ASSUME Table, Pool, Pool', arp' = arp, NEW d \in Int, Out' = Out - d
    PROVE  Table' /\ Slack' = Slack - d
<1>1. QueuedPackets' = QueuedPackets /\ QueuedPackets \in Nat /\ Table'
  BY QueuedNat DEF QueuedPackets, Table
<1> QED  BY <1>1, Amounts DEF Slack

LEMMA Untouched ==
    ASSUME NetInv, arp' = arp, UNCHANGED pool
    PROVE  Table' /\ Pool' /\ Slack' = Slack
<1>1. Table /\ Pool /\ Pool' /\ Out' = Out
  BY PoolKept DEF NetInv
<1>2. QueuedPackets' = QueuedPackets
  BY DEF QueuedPackets
<1> QED  BY <1>1, <1>2 DEF Table, Slack

\* One entry changes and keeps its queue.
LEMMA QueuesKept ==
    ASSUME Table, Pool, Pool', NEW e \in Entries, NEW r \in EntryT, r.q = arp[e].q,
           arp' = [arp EXCEPT ![e] = r], NEW d \in Int, Out' = Out - d
    PROVE  Table' /\ Slack' = Slack - d
<1>1. Table' /\ QueuedPackets' = QueuedPackets - Len(arp[e].q) + Len(r.q)
  BY QueuedPut
<1>2. Len(r.q) = Len(arp[e].q) /\ Len(r.q) \in Nat /\ QueuedPackets \in Nat
  BY EntryFields, QueuedNat
<1>3. QueuedPackets' = QueuedPackets
  BY <1>1, <1>2
<1> QED  BY <1>2, <1>3, <1>1, Amounts DEF Slack

\* One entry changes and its queue is emptied.
LEMMA QueueGone ==
    ASSUME Table, Pool, Pool', NEW e \in Entries, NEW r \in EntryT, Len(r.q) = 0,
           arp' = [arp EXCEPT ![e] = r], Out' = Out - Len(arp[e].q)
    PROVE  Table' /\ Slack' = Slack
<1>1. Table' /\ QueuedPackets' = QueuedPackets - Len(arp[e].q) + Len(r.q)
  BY QueuedPut
<1>2. PICK k \in Nat : k = Len(arp[e].q)
  BY EntryFields DEF Table
<1>3. QueuedPackets \in Nat /\ QueuedPackets' = QueuedPackets - k /\ Out' = Out - k /\ Out \in Int
  BY <1>1, <1>2, QueuedNat, Amounts
<1> QED  BY <1>1, <1>3 DEF Slack

\* The first packet of a queue is taken.
LEMMA Dequeued ==
    ASSUME Table, Pool, Pool', NEW e \in Entries, arp[e].q # <<>>,
           arp' = [arp EXCEPT ![e].q = Tail(@)], NEW d \in Int, Out' = Out - d
    PROVE  Table' /\ Slack' = Slack + 1 - d /\ Head(arp[e].q) \in NextHops
<1>1. /\ arp[e] \in EntryT /\ arp[e].q \in Seq(NextHops) /\ Len(arp[e].q) \in Nat
      /\ Len(arp[e].q) <= QSize /\ QSize \in Nat
  BY EntryFields, Sizes DEF Table
<1>2. /\ Head(arp[e].q) \in NextHops /\ Tail(arp[e].q) \in Seq(NextHops)
      /\ Len(Tail(arp[e].q)) = Len(arp[e].q) - 1 /\ Len(arp[e].q) > 0
  BY <1>1
<1> DEFINE r == [arp[e] EXCEPT !.q = Tail(arp[e].q)]
<1>3. r \in EntryT /\ r.q = Tail(arp[e].q)
  <2>1. Tail(arp[e].q) \in {s \in Seq(NextHops) : Len(s) <= QSize}
    BY <1>1, <1>2
  <2> QED  BY <1>1, <2>1 DEF EntryT
<1>4. arp' = [arp EXCEPT ![e] = r]
  OBVIOUS
<1> HIDE DEF r
<1>5. Table' /\ QueuedPackets' = QueuedPackets - Len(arp[e].q) + Len(r.q)
  BY <1>3, <1>4, QueuedPut
<1>6. PICK k \in Nat : k = Len(arp[e].q) /\ Len(r.q) = k - 1
  BY <1>1, <1>2, <1>3
<1>7. QueuedPackets' = QueuedPackets - k + (k - 1) /\ QueuedPackets \in Nat
  BY <1>5, <1>6, QueuedNat
<1>8. Slack' = Slack + 1 - d
  BY <1>7, Amounts DEF Slack
<1> QED  BY <1>2, <1>5, <1>8

-----------------------------------------------------------------------------
(* What the steps of netwrite do.                                          *)

\* enq on an entry: the packet is on the queue or freed.
LEMMA EnqDoes ==
    ASSUME Table, Pool, NEW p \in Procs, NEW e \in Entries, NEW nh \in NextHops, Enq(p, e, nh),
           UNCHANGED <<waits, spent, lost>>
    PROVE  Table' /\ Pool' /\ Slack' = Slack - 1 /\ cpu' \in Procs \union {"any"}
<1>1. /\ arp[e] \in EntryT /\ arp[e].q \in Seq(NextHops) /\ Len(arp[e].q) \in Nat
      /\ QueuedPackets \in Nat /\ QSize \in Nat
  BY EntryFields, QueuedNat, Sizes DEF Table
<1>2. CASE Len(arp[e].q) < QSize
  <2> DEFINE r == [arp[e] EXCEPT !.q = Append(arp[e].q, nh)]
  <2>1. Append(arp[e].q, nh) \in Seq(NextHops) /\ Len(Append(arp[e].q, nh)) = Len(arp[e].q) + 1
    BY <1>1
  <2>2. Append(arp[e].q, nh) \in {s \in Seq(NextHops) : Len(s) <= QSize}
    BY <1>1, <1>2, <2>1
  <2>3. r \in EntryT /\ r.q = Append(arp[e].q, nh)
    BY <1>1, <2>2 DEF EntryT
  <2>4. arp' = [arp EXCEPT ![e] = r] /\ inuse' = inuse /\ cpu' = p
    BY <1>2 DEF Enq
  <2>5. Table' /\ QueuedPackets' = QueuedPackets - Len(arp[e].q) + Len(r.q)
    BY <2>3, <2>4, QueuedPut
  <2>6. QueuedPackets' = QueuedPackets + 1
    BY <1>1, <2>1, <2>3, <2>5
  <2>7. Pool' /\ Out' = Out
    BY <2>4 DEF Pool, Out
  <2>8. Slack' = Slack - 1
    BY <1>1, <2>6, <2>7, Amounts, SMTT(40) DEF Slack
  <2> QED  BY <2>4, <2>5, <2>7, <2>8
<1>3. CASE ~(Len(arp[e].q) < QSize)
  <2>1. arp' = arp /\ Freebuf(p)
    BY <1>3 DEF Enq
  <2>2. Pool' /\ Out' = Out - 1 /\ cpu' \in Procs \union {"any"}
    BY <2>1, Frees
  <2>3. Table' /\ Slack' = Slack - 1
    BY <2>1, <2>2, Unqueued
  <2> QED  BY <2>2, <2>3
<1> QED  BY <1>2, <1>3

\* arpalloc has chosen an entry and the process remembers what it is for.
AtKept(p, a, ok, req) ==
    /\ at' \in [{"net", "ip"} -> AtT] /\ \A o \in {"net", "ip"} \ {p} : at'[o] = at[o]
    /\ at'[p].nh = a /\ at'[p].ok = ok /\ at'[p].dst = at[p].dst

LEMMA AllocDoes ==
    ASSUME NetInv, NEW p \in {"net", "ip"}, NEW a \in Addrs, NEW req \in BOOLEAN,
           NEW ok \in {"get", "frag", "arpq", "arpend"}, Alloc(p, a, ok, req)
    PROVE  /\ aenext' \in Entries /\ cpu' = p /\ AtKept(p, a, ok, req)
           /\ \E l \in {"dq", "alloc"} : pc' = [pc EXCEPT ![p] = l]
<1>1. Counters
  BY DEF NetInv
<1>2. PICK e \in Entries : e = arpalloc /\ Next1(arpalloc) \in Entries
  BY <1>1, AllocIn
<1>3. at \in [{"net", "ip"} -> AtT]
  BY DEF NetInv, Memory
<1> DEFINE a1 == [at EXCEPT ![p].e = e]
           a2 == [a1 EXCEPT ![p].nh = a]
           a3 == [a2 EXCEPT ![p].ok = ok]
           a4 == [a3 EXCEPT ![p].req = req]
<1>4. at' = a4
  BY <1>2 DEF Alloc
<1>5. /\ a1 \in [{"net", "ip"} -> AtT] /\ \A o \in {"net", "ip"} \ {p} : a1[o] = at[o]
      /\ a1[p].dst = at[p].dst
  BY <1>3 DEF AtT
<1> HIDE DEF a1
<1>6. /\ a2 \in [{"net", "ip"} -> AtT] /\ \A o \in {"net", "ip"} \ {p} : a2[o] = at[o]
      /\ a2[p].dst = at[p].dst /\ a2[p].nh = a
  BY <1>5 DEF AtT
<1> HIDE DEF a2
<1>7. /\ a3 \in [{"net", "ip"} -> AtT] /\ \A o \in {"net", "ip"} \ {p} : a3[o] = at[o]
      /\ a3[p].dst = at[p].dst /\ a3[p].nh = a /\ a3[p].ok = ok
  BY <1>6 DEF AtT
<1> HIDE DEF a3
<1>8. /\ a4 \in [{"net", "ip"} -> AtT] /\ \A o \in {"net", "ip"} \ {p} : a4[o] = at[o]
      /\ a4[p].dst = at[p].dst /\ a4[p].nh = a /\ a4[p].ok = ok
  BY <1>7 DEF AtT
<1> HIDE DEF a4
<1>9. AtKept(p, a, ok, req)
  BY <1>4, <1>8 DEF AtKept
<1>10. aenext' \in Entries /\ cpu' = p
  BY <1>2 DEF Alloc
<1>11. \E l \in {"dq", "alloc"} : pc' = [pc EXCEPT ![p] = l]
  BY DEF Alloc, Goto
<1> QED  BY <1>9, <1>10, <1>11

\* netwrite of a packet: it is written, queued or freed, or an entry is
\* allocated and the process will ask and queue it.
Gone(p, l)    == pc' = [pc EXCEPT ![p] = l] /\ at' = at /\ Slack' = Slack - 1
Asked(p, nh, ok) ==
    /\ \E l \in {"dq", "alloc"} : pc' = [pc EXCEPT ![p] = l]
    /\ Slack' = Slack /\ AtKept(p, nh, ok, at[p].req)

LEMMA NetwriteDoes ==
    ASSUME NetInv, NEW p \in {"net", "ip"}, NEW nh \in NextHops,
           NEW ok \in {"get", "frag", "arpq"}, NEW bad, Netwrite(p, nh, ok, bad)
    PROVE  /\ Table' /\ Pool' /\ aenext' \in Entries /\ cpu' \in Procs \union {"any"}
           /\ Gone(p, bad) \/ Gone(p, ok) \/ Asked(p, nh, ok)
<1>1. Table /\ Pool /\ aenext \in Entries
  BY DEF NetInv, Counters
<1>2. p \in Procs
  BY DEF Procs
<1>3. CASE NwResolved(p, nh, bad)
  <2>1. /\ arp' = arp /\ aenext' = aenext /\ cpu' = "any" /\ pc' = [pc EXCEPT ![p] = bad] /\ at' = at
        /\ UNCHANGED <<inuse, waits>> /\ spent' = spent + 1 /\ lost' = lost
    BY <1>3 DEF NwResolved, Goto
  <2>2. Pool' /\ Out' = Out - 1
    BY <1>1, <2>1 DEF Pool, Out
  <2>3. Table' /\ Slack' = Slack - 1
    BY <1>1, <2>1, <2>2, Unqueued
  <2> QED  BY <1>1, <2>1, <2>2, <2>3 DEF Gone
<1>4. CASE NwPending(p, nh, ok)
  <2>1. /\ Found(nh) # {} /\ Enq(p, arpfind(nh), nh) /\ aenext' = aenext
        /\ pc' = [pc EXCEPT ![p] = ok] /\ at' = at /\ UNCHANGED <<waits, spent, lost>>
    BY <1>4 DEF NwPending, Goto
  <2>2. arpfind(nh) \in Entries
    BY <2>1, FindIn
  <2>3. Table' /\ Pool' /\ Slack' = Slack - 1 /\ cpu' \in Procs \union {"any"}
    BY <1>1, <1>2, <2>1, <2>2, EnqDoes
  <2> QED  BY <1>1, <2>1, <2>3 DEF Gone
<1>5. CASE NwAsk(p, nh, ok)
  <2>1. Alloc(p, nh, ok, at[p].req) /\ arp' = arp /\ UNCHANGED pool
    BY <1>5 DEF NwAsk
  <2>2. Table' /\ Pool' /\ Slack' = Slack
    BY <2>1, Untouched
  <2>3. PICK req \in BOOLEAN : req = at[p].req
    BY DEF NetInv, Memory, AtT
  <2>4. nh \in Addrs /\ ok \in {"get", "frag", "arpq", "arpend"} /\ Alloc(p, nh, ok, req)
    BY <2>1, <2>3, Hops
  <2>5. /\ aenext' \in Entries /\ cpu' = p /\ AtKept(p, nh, ok, req)
        /\ \E l \in {"dq", "alloc"} : pc' = [pc EXCEPT ![p] = l]
    BY <2>4, AllocDoes
  <2> QED  BY <1>2, <2>2, <2>3, <2>5 DEF Asked
<1> QED  BY <1>3, <1>4, <1>5 DEF Netwrite

-----------------------------------------------------------------------------
(* Steps of one process.  What it holds depends on where it is.            *)
NetHolds(l, ok) ==
    IF l \in {"read", "dead", "arpq", "arpend"} \/ (l \in {"dq", "alloc"} /\ ok = "arpend") THEN 1
    ELSE IF l \in {"write", "ask", "queue", "dq", "alloc"} THEN 2 ELSE 0
IpHolds(l, ok) ==
    IF l \in {"proc", "frag", "fragbad"} THEN 1
    ELSE IF l = "fwrite" \/ (l \in {"dq", "alloc", "ask", "queue"} /\ ok = "frag") THEN 2
    ELSE IF l \in {"dq", "alloc", "ask", "queue"} THEN 1 ELSE 0

LEMMA Holds ==
    /\ HeldByNet = NetHolds(pc["net"], at["net"].ok) /\ HeldByNet' = NetHolds(pc'["net"], at'["net"].ok)
    /\ HeldByIp = IpHolds(pc["ip"], at["ip"].ok) /\ HeldByIp' = IpHolds(pc'["ip"], at'["ip"].ok)
    /\ \A l, ok : NetHolds(l, ok) \in 0..2 /\ IpHolds(l, ok) \in 0..2
<1>1. HeldByNet = NetHolds(pc["net"], at["net"].ok)
  <2>1. CASE pc["net"] \in {"dq", "alloc"}
    BY <2>1 DEF HeldByNet, NetHolds
  <2>2. CASE pc["net"] \notin {"dq", "alloc"}
    BY <2>2 DEF HeldByNet, NetHolds
  <2> QED  BY <2>1, <2>2
<1>2. HeldByNet' = NetHolds(pc'["net"], at'["net"].ok)
  <2>1. CASE pc'["net"] \in {"dq", "alloc"}
    BY <2>1 DEF HeldByNet, NetHolds
  <2>2. CASE pc'["net"] \notin {"dq", "alloc"}
    BY <2>2 DEF HeldByNet, NetHolds
  <2> QED  BY <2>1, <2>2
<1>3. HeldByIp = IpHolds(pc["ip"], at["ip"].ok)
  <2>1. CASE pc["ip"] \in {"dq", "alloc", "ask", "queue"}
    BY <2>1 DEF HeldByIp, IpHolds
  <2>2. CASE pc["ip"] \notin {"dq", "alloc", "ask", "queue"}
    BY <2>2 DEF HeldByIp, IpHolds
  <2> QED  BY <2>1, <2>2
<1>4. HeldByIp' = IpHolds(pc'["ip"], at'["ip"].ok)
  <2>1. CASE pc'["ip"] \in {"dq", "alloc", "ask", "queue"}
    BY <2>1 DEF HeldByIp, IpHolds
  <2>2. CASE pc'["ip"] \notin {"dq", "alloc", "ask", "queue"}
    BY <2>2 DEF HeldByIp, IpHolds
  <2> QED  BY <2>1, <2>2
<1>5. \A l, ok : NetHolds(l, ok) \in 0..2 /\ IpHolds(l, ok) \in 0..2
  BY DEF NetHolds, IpHolds
<1> QED  BY <1>1, <1>2, <1>3, <1>4, <1>5

LEMMA Moves ==
    ASSUME NetInv, NEW p \in Procs, NEW l \in Spots, pc' = [pc EXCEPT ![p] = l]
    PROVE  pc' \in [Procs -> Spots] /\ pc'[p] = l /\ \A o \in Procs : o # p => pc'[o] = pc[o]
<1>1. pc \in [Procs -> Spots]
  BY DEF NetInv, Places
<1> QED  BY <1>1

LEMMA Stays == ASSUME NetInv, NEW p \in Procs, pc' = pc PROVE pc' = [pc EXCEPT ![p] = pc[p]]
<1>1. pc \in [Procs -> Spots]
  BY DEF NetInv, Places
<1> QED  BY <1>1

LEMMA Numbers == ASSUME NetInv PROVE Slack \in Int /\ inq \in Int /\ held \in Int
<1>1. Pool /\ inq \in Int /\ held \in Int
  BY DEF NetInv, Counters
<1> QED  BY <1>1, Amounts

\* The sum, after a step that moves buffers between the queues, the protocols
\* and one process.
LEMMA AddsUp ==
    ASSUME NetInv, Counters', Pool',
           Slack' - inq' - held' - HeldByNet' - HeldByIp' = Slack - inq - held - HeldByNet - HeldByIp
    PROVE  Count'
<1>1. PICK a \in Int, b \in Int, c \in Int, m \in Int, n \in Int :
           a = Slack /\ b = inq /\ c = held /\ m = HeldByNet /\ n = HeldByIp
  <2>1. HeldByNet \in 0..2 /\ HeldByIp \in 0..2
    BY Holds
  <2> QED  BY <2>1, Numbers
<1>2. PICK x \in Int, y \in Int, z \in Int, u \in Int, v \in Int :
           x = Slack' /\ y = inq' /\ z = held' /\ u = HeldByNet' /\ v = HeldByIp'
  <2>1. HeldByNet' \in 0..2 /\ HeldByIp' \in 0..2
    BY Holds
  <2>2. inq' \in Int /\ held' \in Int
    BY DEF Counters
  <2> QED  BY <2>1, <2>2, Amounts1
<1>3. x - y - z - u - v = a - b - c - m - n /\ a = b + c + m + n
  BY <1>1, <1>2 DEF NetInv, Count
<1>4. x = y + z + u + v
  BY <1>3
<1> QED  BY <1>2, <1>4 DEF Count

\* netproc goes to l; its buffers and those it gives away add up.
LEMMA NetStep ==
    ASSUME NetInv, pc["net"] # "none", UNCHANGED <<sema, age>>,
           NEW l \in NetSpots, pc' = [pc EXCEPT !["net"] = l],
           Counters', Pool', Table',
           at' \in [{"net", "ip"} -> AtT], at'["ip"] = at["ip"],
           l \in {"write", "ask", "queue"} => at'["net"].nh \in NextHops,
           l \in {"ask", "queue"} => at'["net"].ok = "arpq",
           l \in {"dq", "alloc"} =>
              at'["net"].ok = "arpend" \/ (at'["net"].ok = "arpq" /\ at'["net"].nh \in NextHops),
           Slack' - inq' - held' - NetHolds(l, at'["net"].ok)
             = Slack - inq - held - NetHolds(pc["net"], at["net"].ok)
    PROVE  NetInv'
<1>1. /\ pc' \in [Procs -> Spots] /\ pc'["net"] = l /\ pc'["main"] = pc["main"]
      /\ pc'["ip"] = pc["ip"] /\ pc'["slow"] = pc["slow"]
  <2>1. l \in Spots /\ "net" \in Procs
    BY DEF Spots, NetSpots, Procs
  <2>2. pc' \in [Procs -> Spots] /\ pc'["net"] = l /\ \A o \in Procs : o # "net" => pc'[o] = pc[o]
    BY <2>1, Moves
  <2> QED  BY <2>2 DEF Procs
<1>2. Places'
  BY <1>1 DEF NetInv, Places
<1>3. StartUp'
  BY <1>1 DEF NetInv, StartUp, Begun
<1>4. Memory'
  BY <1>1 DEF NetInv, Memory
<1>5. Count'
  <2>1. /\ HeldByNet = NetHolds(pc["net"], at["net"].ok) /\ HeldByNet' = NetHolds(l, at'["net"].ok)
        /\ HeldByIp' = HeldByIp /\ HeldByIp \in Int /\ HeldByNet \in Int /\ HeldByNet' \in Int
    BY <1>1, Holds
  <2>2. Slack \in Int /\ inq \in Int /\ held \in Int /\ Slack' \in Int /\ inq' \in Int /\ held' \in Int
    BY Numbers, Amounts1 DEF Counters
  <2>3. Slack' - inq' - held' - HeldByNet' = Slack - inq - held - HeldByNet
    BY <2>1
  <2>4. Slack' - inq' - held' - HeldByNet' - HeldByIp' = Slack - inq - held - HeldByNet - HeldByIp
    BY <2>1, <2>3
  <2> QED  BY <2>4, AddsUp
<1> QED  BY <1>2, <1>3, <1>4, <1>5 DEF NetInv

\* The same of ipproc.
LEMMA IpStep ==
    ASSUME NetInv, pc["ip"] \notin {"none", "born"}, UNCHANGED <<sema, age>>,
           NEW l \in IpSpots, pc' = [pc EXCEPT !["ip"] = l],
           Counters', Pool', Table',
           at' \in [{"net", "ip"} -> AtT], at'["net"] = at["net"],
           l \in {"dq", "alloc", "ask", "queue"} => at'["ip"].nh \in NextHops /\ at'["ip"].ok \in {"get", "frag"},
           l \in {"frag", "fwrite"} => at'["ip"].dst \in NextHops,
           l \in {"dq", "alloc", "ask", "queue"} /\ at'["ip"].ok = "frag" => at'["ip"].dst \in NextHops,
           Slack' - inq' - held' - IpHolds(l, at'["ip"].ok)
             = Slack - inq - held - IpHolds(pc["ip"], at["ip"].ok)
    PROVE  NetInv'
<1>1. /\ pc' \in [Procs -> Spots] /\ pc'["ip"] = l /\ pc'["main"] = pc["main"]
      /\ pc'["net"] = pc["net"] /\ pc'["slow"] = pc["slow"]
  <2>1. l \in Spots /\ "ip" \in Procs
    BY DEF Spots, IpSpots, Procs
  <2>2. pc' \in [Procs -> Spots] /\ pc'["ip"] = l /\ \A o \in Procs : o # "ip" => pc'[o] = pc[o]
    BY <2>1, Moves
  <2> QED  BY <2>2 DEF Procs
<1>2. Places'
  BY <1>1 DEF NetInv, Places
<1>3. StartUp'
  BY <1>1 DEF NetInv, StartUp, Begun, IpSpots
<1>4. Memory'
  BY <1>1 DEF NetInv, Memory
<1>5. Count'
  <2>1. /\ HeldByIp = IpHolds(pc["ip"], at["ip"].ok) /\ HeldByIp' = IpHolds(l, at'["ip"].ok)
        /\ HeldByNet' = HeldByNet /\ HeldByIp \in Int /\ HeldByNet \in Int /\ HeldByIp' \in Int
    BY <1>1, Holds
  <2>2. Slack \in Int /\ inq \in Int /\ held \in Int /\ Slack' \in Int /\ inq' \in Int /\ held' \in Int
    BY Numbers, Amounts1 DEF Counters
  <2>3. Slack' - inq' - held' - HeldByIp' = Slack - inq - held - HeldByIp
    BY <2>1
  <2>4. \A a, b, m \in Int : a - m = b - m <=> a = b
    OBVIOUS
  <2>5. Slack' - inq' - held' - HeldByNet' - HeldByIp' = Slack - inq - held - HeldByNet - HeldByIp
    BY <2>1, <2>2, <2>3
  <2> QED  BY <2>5, AddsUp
<1> QED  BY <1>2, <1>3, <1>4, <1>5 DEF NetInv

\* netstart and slowtimer hold nothing and leave the others where they are, or
\* let them begin.
LEMMA OtherStep ==
    ASSUME NetInv, Places', StartUp', Counters', Pool', Table', UNCHANGED at,
           pc'["slow"] = "dq" => age' \in Entries,
           Slack' - inq' - held' = Slack - inq - held,
           pc'["net"] = pc["net"] \/ (pc["net"] = "none" /\ pc'["net"] = "getbuf"),
           \/ pc'["ip"] = pc["ip"]
           \/ pc["ip"] \in {"none", "born"} /\ pc'["ip"] \in {"born", "get"}
    PROVE  NetInv'
<1>1. Memory'
  BY DEF NetInv, Memory
<1>2. HeldByNet' = HeldByNet /\ HeldByIp' = HeldByIp /\ HeldByNet \in Int /\ HeldByIp \in Int
  <2>1. HeldByNet' = HeldByNet
    BY Holds DEF NetHolds
  <2>2. HeldByIp' = HeldByIp
    BY Holds DEF IpHolds
  <2>3. HeldByNet \in 0..2 /\ HeldByIp \in 0..2
    BY Holds
  <2> QED  BY <2>1, <2>2, <2>3
<1>3. Slack' - inq' - held' - HeldByNet' - HeldByIp' = Slack - inq - held - HeldByNet - HeldByIp
  BY <1>2
<1>4. Count'
  BY <1>3, AddsUp
<1> QED  BY <1>1, <1>4 DEF NetInv

\* A process goes on waiting for a buffer.
LEMMA NetBlocks == ASSUME NetInv, NEW p \in Procs, Blocks(p) PROVE NetInv'
<1>1. /\ UNCHANGED <<pc, halted, inq, msg, arp, aenext, at, nfrag, age, gran, held, arps, sema, inuse, spent, lost>>
      /\ cpu' = "any" /\ waits' = Append(waits, p)
  BY DEF Blocks, procs
<1>2. Pool' /\ Out' = Out - 0
  BY <1>1 DEF NetInv, Pool, Out
<1>3. Table' /\ Slack' = Slack - 0
  <2>1. Table /\ Pool /\ 0 \in Int
    BY DEF NetInv
  <2> QED  BY <1>1, <1>2, <2>1, Unqueued
<1>4. Places' /\ StartUp' /\ Counters'
  BY <1>1 DEF NetInv, Places, StartUp, Begun, Counters
<1>5. Slack' - inq' - held' = Slack - inq - held
  BY <1>1, <1>3, Numbers
<1>6. pc'["slow"] = "dq" => age' \in Entries
  BY <1>1 DEF NetInv, Memory
<1> QED  BY <1>1, <1>2, <1>3, <1>4, <1>5, <1>6, OtherStep

-----------------------------------------------------------------------------
(* netproc.                                                                *)

\* netproc gets a buffer or is rid of the one it has read into.
LEMMA NetReads ==
    ASSUME NetInv, NetGetbuf \/ ReadFails \/ IpIn \/ IpInDiscard \/ RarpIn
    PROVE  NetInv'
<1>1. /\ pc["net"] \in {"getbuf", "read"}
      /\ UNCHANGED <<arp, at, sema, held, aenext, nfrag, age, gran, arps>>
  BY DEF NetGetbuf, ReadFails, IpIn, IpInDiscard, RarpIn, NetIdle, CanRun, procs
<1>2. /\ inq' \in 0..InqMax /\ cpu' \in Procs \union {"any"} /\ Pool'
      /\ \E l \in {"getbuf", "read", "dead"}, d \in -1..1 :
           /\ pc' = [pc EXCEPT !["net"] = l] /\ Out' = Out - d
           /\ inq' = inq + NetHolds(pc["net"], "get") - NetHolds(l, "get") - d
  <2>1. Pool /\ "net" \in Procs \union {"any"} /\ inq \in 0..InqMax /\ cpu \in Procs \union {"any"}
    BY DEF NetInv, Counters, Procs
  <2>2. CASE NetGetbuf
    <3>1. /\ pc["net"] = "getbuf" /\ pc' = [pc EXCEPT !["net"] = "read"] /\ inq' = inq /\ cpu' = "any"
          /\ Getbuf("net") /\ UNCHANGED lost /\ spent' = spent
      BY <2>2 DEF NetGetbuf, CanRun, Goto
    <3>2. spent' = spent + 0
      BY <2>1, <3>1 DEF Pool
    <3>3. Pool' /\ Out' = Out + 1 - 0
      BY <2>1, <3>1, <3>2, Gets
    <3>4. Out' = Out - (-1) /\ inq' = inq + 0 - 1 - (-1)
      BY <2>1, <3>1, <3>3, Amounts
    <3>5. NetHolds(pc["net"], "get") = 0 /\ NetHolds("read", "get") = 1
      BY <3>1 DEF NetHolds
    <3> QED  BY <2>1, <3>1, <3>3, <3>4, <3>5
  <2>3. CASE ReadFails \/ IpIn
    <3>1. /\ pc["net"] = "read" /\ UNCHANGED pool /\ cpu' \in {cpu, "any"}
          /\ \/ pc' = [pc EXCEPT !["net"] = "dead"] /\ inq' = inq
             \/ pc' = [pc EXCEPT !["net"] = "getbuf"] /\ inq' = inq + 1 /\ inq < InqMax
      BY <2>3 DEF ReadFails, IpIn, CanRun, Goto
    <3>2. Pool' /\ Out' = Out
      BY <2>1, <3>1, PoolKept
    <3>3. Out' = Out - 0 /\ inq' \in 0..InqMax
      BY <2>1, <3>1, <3>2, Amounts, Sizes
    <3>4. /\ NetHolds(pc["net"], "get") = 1 /\ NetHolds("dead", "get") = 1
          /\ NetHolds("getbuf", "get") = 0
      BY <3>1 DEF NetHolds
    <3> QED  BY <2>1, <3>1, <3>2, <3>3, <3>4
  <2>4. CASE IpInDiscard \/ RarpIn
    <3>1. /\ pc["net"] = "read" /\ pc' = [pc EXCEPT !["net"] = "getbuf"] /\ inq' = inq
          /\ Freebuf("net") /\ UNCHANGED <<waits, spent, lost>>
      BY <2>4 DEF IpInDiscard, RarpIn, CanRun, Goto
    <3>2. Pool' /\ Out' = Out - 1 /\ cpu' \in Procs \union {"any"}
      BY <2>1, <3>1, Frees
    <3>3. NetHolds(pc["net"], "get") = 1 /\ NetHolds("getbuf", "get") = 0
      BY <3>1 DEF NetHolds
    <3> QED  BY <2>1, <3>1, <3>2, <3>3
  <2> QED  BY <2>2, <2>3, <2>4
<1>3. Counters'
  <2>1. msg' \in BOOLEAN
    BY Zenon DEF NetInv, Counters, NetGetbuf, ReadFails, IpIn, IpInDiscard, RarpIn
  <2>2. halted' \in BOOLEAN
    BY Zenon DEF NetInv, Counters, NetGetbuf, ReadFails, IpIn, IpInDiscard, RarpIn, NetIdle
  <2> QED  BY <1>1, <1>2, <2>1, <2>2 DEF NetInv, Counters
<1>4. PICK l \in {"getbuf", "read", "dead"}, d \in -1..1 :
         /\ pc' = [pc EXCEPT !["net"] = l] /\ Out' = Out - d
         /\ inq' = inq + NetHolds(pc["net"], "get") - NetHolds(l, "get") - d
  BY <1>2
<1>5. Table' /\ Slack' = Slack - d
  <2>1. d \in Int /\ Table /\ Pool
    BY DEF NetInv
  <2> QED  BY <1>1, <1>2, <1>4, <2>1, Unqueued
<1>6. /\ NetHolds(pc["net"], at["net"].ok) = NetHolds(pc["net"], "get")
      /\ NetHolds(l, at'["net"].ok) = NetHolds(l, "get") /\ l \in NetSpots
      /\ NetHolds(l, "get") \in Int /\ NetHolds(pc["net"], "get") \in Int
  BY <1>1 DEF NetHolds, NetSpots
<1>7. Slack' - inq' - held' - NetHolds(l, at'["net"].ok)
        = Slack - inq - held - NetHolds(pc["net"], at["net"].ok)
  BY <1>1, <1>4, <1>5, <1>6, Numbers
<1>8. at' \in [{"net", "ip"} -> AtT] /\ at'["ip"] = at["ip"]
  BY <1>1 DEF NetInv, Memory
<1>9. pc["net"] # "none" /\ UNCHANGED <<sema, age>>
  BY <1>1
<1> QED  BY <1>2, <1>3, <1>4, <1>5, <1>6, <1>7, <1>8, <1>9, NetStep

LEMMA NetArpNotOurs == ASSUME NetInv, NEW a \in ArpSenders, ArpNotOurs(a) PROVE NetInv'
<1>1. /\ pc["net"] = "read" /\ UNCHANGED <<at, sema, inq, held, aenext, nfrag, age, gran, halted, msg>>
      /\ pc' = [pc EXCEPT !["net"] = "getbuf"] /\ Freebuf("net") /\ UNCHANGED <<waits, spent, lost>>
      /\ arps < MaxArps /\ arps' = arps + 1
  BY DEF ArpNotOurs, NetIdle, CanRun, Goto
<1>2. Pool' /\ Out' = Out - 1 /\ cpu' \in Procs \union {"any"}
  <2>1. "net" \in Procs \union {"any"} /\ Pool
    BY DEF NetInv, Procs
  <2> QED  BY <1>1, <2>1, Frees
<1>3. Counters'
  BY <1>1, <1>2, Sizes DEF NetInv, Counters
<1>4. Table' /\ Slack' = Slack - 1
  <2>1. CASE Found(a) = {}
    <3>1. arp' = arp /\ Table /\ Pool
      BY <2>1 DEF ArpNotOurs, NetInv
    <3> QED  BY <1>2, <3>1, Unqueued
  <2>2. CASE Found(a) # {}
    <3>1. PICK e \in Entries : e = arpfind(a)
      BY <2>2, FindIn
    <3>2. arp[e] \in EntryT /\ Timeout \in 0..Timeout /\ Table /\ Pool /\ 1 \in Int
      BY Sizes DEF NetInv, Table
    <3>3. PICK r \in EntryT : r = [arp[e] EXCEPT !.ttl = Timeout] /\ r.q = arp[e].q
      BY <3>2, Kept
    <3>4. arp' = [arp EXCEPT ![e] = r]
      BY <2>2, <3>1, <3>3 DEF ArpNotOurs
    <3> QED  BY <1>2, <3>2, <3>3, <3>4, QueuesKept
  <2> QED  BY <2>1, <2>2
<1>5. NetHolds(pc["net"], at["net"].ok) = 1 /\ NetHolds("getbuf", at'["net"].ok) = 0 /\ "getbuf" \in NetSpots
  BY <1>1 DEF NetHolds, NetSpots
<1>6. Slack' - inq' - held' - NetHolds("getbuf", at'["net"].ok)
        = Slack - inq - held - NetHolds(pc["net"], at["net"].ok)
  BY <1>1, <1>4, <1>5, Numbers
<1>7. at' \in [{"net", "ip"} -> AtT] /\ at'["ip"] = at["ip"]
  BY <1>1 DEF NetInv, Memory
<1> QED  BY <1>1, <1>2, <1>3, <1>4, <1>5, <1>6, <1>7, NetStep

LEMMA NetArpNew == ASSUME NetInv, NEW a \in ArpSenders, NEW req \in BOOLEAN, ArpNew(a, req) PROVE NetInv'
<1>1. /\ pc["net"] = "read" /\ UNCHANGED <<sema, inq, held, halted, msg, nfrag, age, gran, pool>> /\ arp' = arp
      /\ Alloc("net", a, "arpend", req) /\ arps < MaxArps /\ arps' = arps + 1
  BY DEF ArpNew, CanRun
<1>2. /\ aenext' \in Entries /\ cpu' = "net" /\ AtKept("net", a, "arpend", req)
      /\ \E l \in {"dq", "alloc"} : pc' = [pc EXCEPT !["net"] = l]
  BY <1>1, Hops, AllocDoes
<1>3. Table' /\ Pool' /\ Slack' = Slack
  BY <1>1, Untouched
<1>4. Counters'
  BY <1>1, <1>2, Sizes DEF NetInv, Counters, Procs
<1>5. PICK l \in {"dq", "alloc"} : pc' = [pc EXCEPT !["net"] = l]
  BY <1>2
<1>6. at' \in [{"net", "ip"} -> AtT] /\ at'["ip"] = at["ip"] /\ at'["net"].ok = "arpend"
  BY <1>2 DEF AtKept
<1>7. NetHolds(pc["net"], at["net"].ok) = 1 /\ NetHolds(l, at'["net"].ok) = 1 /\ l \in NetSpots
  BY <1>1, <1>6 DEF NetHolds, NetSpots
<1>8. Slack' - inq' - held' - NetHolds(l, at'["net"].ok)
        = Slack - inq - held - NetHolds(pc["net"], at["net"].ok)
  BY <1>1, <1>3, <1>7
<1>9. l \notin {"write", "ask", "queue"} /\ pc["net"] # "none" /\ UNCHANGED <<sema, age>>
  BY <1>1
<1> QED  BY <1>3, <1>4, <1>5, <1>6, <1>7, <1>8, <1>9, NetStep

LEMMA NetArpKnown == ASSUME NetInv, NEW a \in ArpSenders, NEW req \in BOOLEAN, ArpKnown(a, req) PROVE NetInv'
<1>1. /\ pc["net"] = "read" /\ UNCHANGED <<sema, inq, held, halted, msg, nfrag, age, gran, aenext, pool>>
      /\ cpu' = "net" /\ arps < MaxArps /\ arps' = arps + 1
      /\ \E l \in {"arpq", "arpend"} : pc' = [pc EXCEPT !["net"] = l]
  BY DEF ArpKnown, CanRun, Goto
<1>2. PICK e \in Entries : e = arpfind(a)
  BY FindIn DEF ArpKnown
<1>3. Pool /\ Pool' /\ Out' = Out - 0 /\ 0 \in Int
  <2>1. Pool /\ Pool' /\ Out' = Out /\ Out \in Int
    BY <1>1, PoolKept, Amounts DEF NetInv
  <2> QED  BY <2>1
<1>4. Table' /\ Slack' = Slack - 0
  <2>1. arp[e] \in EntryT /\ Timeout \in 0..Timeout /\ 0 \in 0..MaxRetry /\ Table
    BY Sizes DEF NetInv, Table
  <2> DEFINE r1 == [arp[e] EXCEPT !.ttl = Timeout]
             r2 == [r1 EXCEPT !.state = "RESOLVED"]
             r3 == [r2 EXCEPT !.att = 0]
  <2>2. arp' = [arp EXCEPT ![e] = r3]
    <3>1. arp' = [arp EXCEPT ![e].ttl = Timeout, ![e].state = "RESOLVED", ![e].att = 0]
      BY <1>2 DEF ArpKnown
    <3> QED  BY <2>1, <3>1 DEF Table
  <2>3. r1 \in EntryT /\ r1.q = arp[e].q
    BY <2>1, Kept
  <2> HIDE DEF r1
  <2>4. r2 \in EntryT /\ r2.q = arp[e].q
    BY <2>3 DEF EntryT
  <2> HIDE DEF r2
  <2>5. r3 \in EntryT /\ r3.q = arp[e].q
    BY <2>1, <2>4 DEF EntryT
  <2> HIDE DEF r3
  <2> QED  BY <1>3, <2>1, <2>2, <2>5, QueuesKept
<1>5. Counters'
  BY <1>1, Sizes DEF NetInv, Counters, Procs
<1>6. at' \in [{"net", "ip"} -> AtT] /\ at'["ip"] = at["ip"]
  <2>1. at' = [at EXCEPT !["net"].pae = e, !["net"].req = req]
    BY <1>2 DEF ArpKnown
  <2>2. at \in [{"net", "ip"} -> AtT]
    BY DEF NetInv, Memory
  <2> DEFINE g == [at EXCEPT !["net"].pae = e]
  <2>3. g \in [{"net", "ip"} -> AtT] /\ g["ip"] = at["ip"] /\ at' = [g EXCEPT !["net"].req = req]
    BY <2>1, <2>2 DEF AtT
  <2> HIDE DEF g
  <2> QED  BY <2>3 DEF AtT
<1>7. PICK l \in {"arpq", "arpend"} : pc' = [pc EXCEPT !["net"] = l]
  BY <1>1
<1>8. NetHolds(pc["net"], at["net"].ok) = 1 /\ NetHolds(l, at'["net"].ok) = 1 /\ l \in NetSpots
  BY <1>1 DEF NetHolds, NetSpots
<1>9. Slack' - inq' - held' - NetHolds(l, at'["net"].ok)
        = Slack - inq - held - NetHolds(pc["net"], at["net"].ok)
  BY <1>1, <1>4, <1>8, Numbers
<1>10. l \notin {"write", "ask", "queue", "dq", "alloc"} /\ pc["net"] # "none" /\ UNCHANGED <<sema, age>>
  BY <1>1
<1> QED  BY <1>3, <1>4, <1>5, <1>6, <1>7, <1>8, <1>9, <1>10, NetStep

LEMMA NetArpqEmpty == ASSUME NetInv, ArpqEmpty PROVE NetInv'
<1>1. /\ pc["net"] = "arpq" /\ pc' = [pc EXCEPT !["net"] = "arpend"] /\ cpu' = "net" /\ arp' = arp
      /\ UNCHANGED <<at, sema, inq, held, halted, msg, nfrag, age, gran, aenext, arps, pool>>
  BY DEF ArpqEmpty, CanRun, Goto, NetIdle
<1>2. Table' /\ Pool' /\ Slack' = Slack
  BY <1>1, Untouched
<1>3. Counters'
  BY <1>1 DEF NetInv, Counters, Procs
<1>4. NetHolds(pc["net"], at["net"].ok) = 1 /\ NetHolds("arpend", at'["net"].ok) = 1 /\ "arpend" \in NetSpots
  BY <1>1 DEF NetHolds, NetSpots
<1>5. Slack' - inq' - held' - NetHolds("arpend", at'["net"].ok)
        = Slack - inq - held - NetHolds(pc["net"], at["net"].ok)
  BY <1>1, <1>2, <1>4
<1>6. at' \in [{"net", "ip"} -> AtT] /\ at'["ip"] = at["ip"]
  BY <1>1 DEF NetInv, Memory
<1> QED  BY <1>1, <1>2, <1>3, <1>4, <1>5, <1>6, NetStep

LEMMA NetArpEnd == ASSUME NetInv, ArpEnd PROVE NetInv'
<1>1. /\ pc["net"] = "arpend" /\ pc' = [pc EXCEPT !["net"] = "getbuf"] /\ arp' = arp
      /\ UNCHANGED <<sema, inq, held, halted, msg, nfrag, age, gran, aenext, arps, waits, lost>>
  BY DEF ArpEnd, CanRun, Goto, procs
<1>2. Pool' /\ Out' = Out - 1 /\ cpu' \in Procs \union {"any"}
  <2>1. Pool /\ "net" \in Procs \union {"any"}
    BY DEF NetInv, Procs
  <2>2. CASE at["net"].req
    <3>1. spent' = spent + 1 /\ cpu' = "any" /\ UNCHANGED inuse
      BY <2>2 DEF ArpEnd
    <3> QED  BY <1>1, <2>1, <3>1 DEF Pool, Out
  <2>3. CASE ~at["net"].req
    <3>1. Freebuf("net") /\ UNCHANGED spent
      BY <2>3 DEF ArpEnd
    <3> QED  BY <1>1, <2>1, <3>1, Frees
  <2> QED  BY <2>2, <2>3
<1>3. Table' /\ Slack' = Slack - 1
  BY <1>1, <1>2, Unqueued DEF NetInv
<1>4. Counters'
  BY <1>1, <1>2 DEF NetInv, Counters
<1>5. at' \in [{"net", "ip"} -> AtT] /\ at'["ip"] = at["ip"]
  <2>1. at' = [at EXCEPT !["net"] = Nowhere]
    BY DEF ArpEnd
  <2>2. Nowhere \in AtT
    BY Hops, Sizes DEF Nowhere, AtT, Entries
  <2> QED  BY <2>1, <2>2 DEF NetInv, Memory
<1>6. NetHolds(pc["net"], at["net"].ok) = 1 /\ NetHolds("getbuf", at'["net"].ok) = 0 /\ "getbuf" \in NetSpots
  BY <1>1 DEF NetHolds, NetSpots
<1>7. Slack' - inq' - held' - NetHolds("getbuf", at'["net"].ok)
        = Slack - inq - held - NetHolds(pc["net"], at["net"].ok)
  BY <1>1, <1>3, <1>6, Numbers
<1> QED  BY <1>1, <1>2, <1>3, <1>4, <1>5, <1>6, <1>7, NetStep

LEMMA NetArpqDeq == ASSUME NetInv, ArpqDeq PROVE NetInv'
<1>1. /\ pc["net"] = "arpq" /\ pc' = [pc EXCEPT !["net"] = "write"] /\ cpu' = "net"
      /\ UNCHANGED <<sema, inq, held, halted, msg, nfrag, age, gran, aenext, arps, pool>>
  BY DEF ArpqDeq, CanRun, Goto, procs
<1>2. PICK e \in Entries : e = at["net"].pae
  BY DEF NetInv, Memory, AtT
<1>3. Pool /\ Pool' /\ Out' = Out - 0 /\ 0 \in Int /\ Table
  <2>1. Pool /\ Pool' /\ Out' = Out /\ Out \in Int /\ Table
    BY <1>1, PoolKept, Amounts DEF NetInv
  <2> QED  BY <2>1
<1>4. arp[e].q # <<>> /\ arp' = [arp EXCEPT ![e].q = Tail(@)] /\ at' = [at EXCEPT !["net"].nh = Head(arp[e].q)]
  BY <1>2 DEF ArpqDeq
<1>5. Table' /\ Slack' = Slack + 1 - 0 /\ Head(arp[e].q) \in NextHops
  BY <1>3, <1>4, Dequeued
<1>6. Counters'
  BY <1>1 DEF NetInv, Counters, Procs
<1>7. /\ at' \in [{"net", "ip"} -> AtT] /\ at'["ip"] = at["ip"] /\ at'["net"].nh \in NextHops
  <2>1. PICK h \in NextHops : h = Head(arp[e].q) /\ h \in Addrs
    BY <1>5, Hops
  <2>2. at' = [at EXCEPT !["net"].nh = h]
    BY <1>4, <2>1
  <2>3. at \in [{"net", "ip"} -> AtT]
    BY DEF NetInv, Memory
  <2> QED  BY <2>1, <2>2, <2>3 DEF AtT
<1>8. NetHolds(pc["net"], at["net"].ok) = 1 /\ NetHolds("write", at'["net"].ok) = 2 /\ "write" \in NetSpots
  BY <1>1 DEF NetHolds, NetSpots
<1>9. Slack' - inq' - held' - NetHolds("write", at'["net"].ok)
        = Slack - inq - held - NetHolds(pc["net"], at["net"].ok)
  BY <1>1, <1>5, <1>8, Numbers
<1> QED  BY <1>1, <1>3, <1>5, <1>6, <1>7, <1>8, <1>9, NetStep

LEMMA NetArpqWrite == ASSUME NetInv, ArpqWrite PROVE NetInv'
<1>1. /\ pc["net"] = "write" /\ UNCHANGED <<sema, inq, held, halted, msg, nfrag, age, gran, arps>>
  BY DEF ArpqWrite, CanRun, procs
<1>2. PICK nh \in NextHops : nh = at["net"].nh
  BY <1>1 DEF NetInv, Memory
<1>3. Netwrite("net", nh, "arpq", "arpq")
  BY <1>2 DEF ArpqWrite
<1>4. /\ Table' /\ Pool' /\ aenext' \in Entries /\ cpu' \in Procs \union {"any"}
      /\ Gone("net", "arpq") \/ Asked("net", nh, "arpq")
  BY <1>3, NetwriteDoes
<1>5. Counters'
  BY <1>1, <1>4 DEF NetInv, Counters
<1>6. at \in [{"net", "ip"} -> AtT] /\ NetHolds(pc["net"], at["net"].ok) = 2
  BY <1>1 DEF NetInv, Memory, NetHolds
<1>7. CASE Gone("net", "arpq")
  <2>1. pc' = [pc EXCEPT !["net"] = "arpq"] /\ at' = at /\ Slack' = Slack - 1
    BY <1>7 DEF Gone
  <2>2. NetHolds("arpq", at'["net"].ok) = 1 /\ "arpq" \in NetSpots
    BY DEF NetHolds, NetSpots
  <2>3. Slack' - inq' - held' - NetHolds("arpq", at'["net"].ok)
          = Slack - inq - held - NetHolds(pc["net"], at["net"].ok)
    BY <1>1, <1>6, <2>1, <2>2, Numbers
  <2> QED  BY <1>1, <1>4, <1>5, <1>6, <2>1, <2>2, <2>3, NetStep
<1>8. CASE Asked("net", nh, "arpq")
  <2>1. PICK l \in {"dq", "alloc"} : pc' = [pc EXCEPT !["net"] = l]
    BY <1>8 DEF Asked
  <2>2. /\ Slack' = Slack /\ at' \in [{"net", "ip"} -> AtT]
        /\ at'["ip"] = at["ip"] /\ at'["net"].nh \in NextHops /\ at'["net"].ok = "arpq"
    BY <1>8 DEF Asked, AtKept
  <2>3. NetHolds(l, at'["net"].ok) = 2 /\ l \in NetSpots
    BY <2>2 DEF NetHolds, NetSpots
  <2>4. Slack' - inq' - held' - NetHolds(l, at'["net"].ok)
          = Slack - inq - held - NetHolds(pc["net"], at["net"].ok)
    BY <1>1, <1>6, <2>2, <2>3
  <2> QED  BY <1>1, <1>4, <1>5, <2>1, <2>2, <2>3, <2>4, NetStep
<1> QED  BY <1>4, <1>7, <1>8

\* What arpdq, the entry that is filled in, arpsend and enq do, for netproc and
\* ipproc.
LEMMA RestDoes ==
    ASSUME NetInv, NEW p \in {"net", "ip"}, NetwriteRest(p)
    PROVE  /\ Table' /\ Pool' /\ cpu' \in Procs \union {"any"} /\ UNCHANGED at
           /\ UNCHANGED <<halted, inq, msg, aenext, nfrag, age, gran, held, arps, sema>>
           /\ \/ pc[p] = "dq" /\ pc' = pc /\ Slack' = Slack
              \/ /\ pc[p] \in {"dq", "alloc"} /\ Slack' = Slack
                 /\ pc' = [pc EXCEPT ![p] = IF at[p].ok = "arpend" THEN "arpend" ELSE "ask"]
              \/ pc[p] = "ask" /\ pc' = [pc EXCEPT ![p] = "queue"] /\ Slack' = Slack
              \/ pc[p] = "queue" /\ pc' = [pc EXCEPT ![p] = at[p].ok] /\ Slack' = Slack - 1
<1>1. Table /\ Pool /\ Slack \in Int /\ p \in Procs /\ p # "slow"
  BY Numbers DEF NetInv, Procs
<1>2. UNCHANGED <<at, halted, inq, msg, aenext, nfrag, age, gran, held, arps, sema>>
  BY DEF NetwriteRest, Arpdq, Filled, Arpsend, NwQueue, procs
<1>3. PICK e \in Entries : e = at[p].e
  BY DEF NetInv, Memory, AtT
<1>4. CASE Arpdq(p)
  <2>1. /\ pc[p] = "dq" /\ pc' = pc /\ arp[e].q # <<>> /\ arp' = [arp EXCEPT ![e].q = Tail(@)]
        /\ Freebuf(p) /\ UNCHANGED <<waits, spent, lost>>
    BY <1>1, <1>3, <1>4 DEF Arpdq, DqEntry, CanRun
  <2>2. Pool' /\ Out' = Out - 1 /\ cpu' \in Procs \union {"any"} /\ 1 \in Int
    BY <1>1, <2>1, Frees
  <2>3. Table' /\ Slack' = Slack + 1 - 1
    BY <1>1, <2>1, <2>2, Dequeued
  <2>4. Slack' = Slack
    BY <1>1, <2>3
  <2> QED  BY <1>2, <2>1, <2>2, <2>3, <2>4
<1>5. CASE Filled(p)
  <2>1. /\ pc[p] \in {"dq", "alloc"} /\ cpu' = p /\ UNCHANGED <<inuse, waits, spent>>
        /\ lost' = lost + Len(arp[e].q)
        /\ pc' = [pc EXCEPT ![p] = IF at[p].ok = "arpend" THEN "arpend" ELSE "ask"]
    BY <1>3, <1>5 DEF Filled, CanRun, Goto
  <2>2. PICK k \in Nat : k = Len(arp[e].q)
    BY <1>1, EntryFields DEF Table
  <2>3. Pool' /\ Out' = Out - Len(arp[e].q)
    BY <1>1, <2>1, <2>2 DEF Pool, Out
  <2>4. PICK a \in Addrs : a = at[p].nh
    BY DEF NetInv, Memory, AtT
  <2>5. PICK r \in EntryT : r = (IF at[p].ok = "arpend" THEN arpadd(at[p].nh) ELSE Pending(at[p].nh)) /\ Len(r.q) = 0
    BY <2>4, Made
  <2>6. arp' = [arp EXCEPT ![e] = r]
    BY <1>3, <1>5, <2>5 DEF Filled
  <2>7. Table' /\ Slack' = Slack
    BY <1>1, <2>3, <2>5, <2>6, QueueGone
  <2> QED  BY <1>1, <1>2, <2>1, <2>3, <2>7
<1>6. CASE Arpsend(p, "queue")
  <2>1. /\ pc[p] = "ask" /\ pc' = [pc EXCEPT ![p] = "queue"] /\ arp' = arp /\ cpu' = "any"
        /\ Getbuf(p) /\ UNCHANGED lost /\ spent' = spent + 1
    BY <1>6 DEF Arpsend, CanRun, Goto
  <2>2. Pool' /\ Out' = Out + 1 - 1
    BY <1>1, <2>1, Gets
  <2>3. Out' = Out - 0 /\ 0 \in Int
    BY <1>1, <2>2, Amounts
  <2>4. Table' /\ Slack' = Slack - 0
    BY <1>1, <2>1, <2>2, <2>3, Unqueued
  <2>5. Slack' = Slack
    BY <1>1, <2>4
  <2> QED  BY <1>2, <2>1, <2>2, <2>4, <2>5
<1>7. CASE NwQueue(p)
  <2>1. /\ pc[p] = "queue" /\ pc' = [pc EXCEPT ![p] = at[p].ok] /\ Enq(p, e, at[p].nh)
        /\ UNCHANGED <<waits, spent, lost>>
    BY <1>3, <1>7 DEF NwQueue, CanRun, Goto
  <2>2. at[p].nh \in NextHops
    BY <2>1 DEF NetInv, Memory
  <2>3. Table' /\ Pool' /\ Slack' = Slack - 1 /\ cpu' \in Procs \union {"any"}
    BY <1>1, <2>1, <2>2, EnqDoes
  <2> QED  BY <1>2, <2>1, <2>3
<1> QED  BY <1>4, <1>5, <1>6, <1>7 DEF NetwriteRest

LEMMA NetRest == ASSUME NetInv, NetwriteRest("net") PROVE NetInv'
<1>1. /\ Table' /\ Pool' /\ cpu' \in Procs \union {"any"} /\ UNCHANGED at
      /\ UNCHANGED <<halted, inq, msg, aenext, nfrag, age, gran, held, arps, sema>>
      /\ \/ pc["net"] = "dq" /\ pc' = pc /\ Slack' = Slack
         \/ /\ pc["net"] \in {"dq", "alloc"} /\ Slack' = Slack
            /\ pc' = [pc EXCEPT !["net"] = IF at["net"].ok = "arpend" THEN "arpend" ELSE "ask"]
         \/ pc["net"] = "ask" /\ pc' = [pc EXCEPT !["net"] = "queue"] /\ Slack' = Slack
         \/ pc["net"] = "queue" /\ pc' = [pc EXCEPT !["net"] = at["net"].ok] /\ Slack' = Slack - 1
  BY RestDoes
<1>2. Counters'
  BY <1>1 DEF NetInv, Counters
<1>3. /\ at \in [{"net", "ip"} -> AtT]
      /\ pc["net"] \in {"ask", "queue"} => at["net"].nh \in NextHops /\ at["net"].ok = "arpq"
      /\ pc["net"] \in {"dq", "alloc"} =>
            at["net"].ok = "arpend" \/ (at["net"].ok = "arpq" /\ at["net"].nh \in NextHops)
  BY DEF NetInv, Memory
<1>4. PICK l \in {"dq", "arpend", "ask", "queue", "arpq"} :
         /\ pc' = [pc EXCEPT !["net"] = l] /\ pc["net"] \in {"dq", "alloc", "ask", "queue"}
         /\ \/ l = "dq" /\ pc["net"] = "dq" /\ Slack' = Slack
            \/ l = "arpend" /\ pc["net"] \in {"dq", "alloc"} /\ at["net"].ok = "arpend" /\ Slack' = Slack
            \/ l = "ask" /\ pc["net"] \in {"dq", "alloc"} /\ at["net"].ok = "arpq" /\ Slack' = Slack
            \/ l = "queue" /\ pc["net"] = "ask" /\ Slack' = Slack
            \/ l = "arpq" /\ pc["net"] = "queue" /\ Slack' = Slack - 1
  <2>1. "net" \in Procs
    BY DEF Procs
  <2>2. CASE pc["net"] = "dq" /\ pc' = pc /\ Slack' = Slack
    BY <2>1, <2>2, Stays
  <2>3. CASE /\ pc["net"] \in {"dq", "alloc"} /\ Slack' = Slack
             /\ pc' = [pc EXCEPT !["net"] = IF at["net"].ok = "arpend" THEN "arpend" ELSE "ask"]
    BY <1>3, <2>3
  <2>4. CASE pc["net"] = "ask" /\ pc' = [pc EXCEPT !["net"] = "queue"] /\ Slack' = Slack
    BY <2>4
  <2>5. CASE pc["net"] = "queue" /\ pc' = [pc EXCEPT !["net"] = at["net"].ok] /\ Slack' = Slack - 1
    BY <1>3, <2>5
  <2> QED  BY <1>1, <2>2, <2>3, <2>4, <2>5
<1>5. \E m \in Int : Slack' = Slack - m /\ NetHolds(l, at["net"].ok) = NetHolds(pc["net"], at["net"].ok) - m
  <2>1. Slack - 0 = Slack
    BY Numbers
  <2>2. CASE l = "arpq"
    <3>1. NetHolds(l, at["net"].ok) = 1 /\ NetHolds(pc["net"], at["net"].ok) = 2 /\ Slack' = Slack - 1
      BY <1>4, <2>2 DEF NetHolds
    <3> QED  BY <3>1
  <2>3. CASE l # "arpq"
    <3>1. NetHolds(l, at["net"].ok) = NetHolds(pc["net"], at["net"].ok) /\ Slack' = Slack - 0
      BY <1>3, <1>4, <2>1, <2>3 DEF NetHolds
    <3>2. NetHolds(pc["net"], at["net"].ok) - 0 = NetHolds(pc["net"], at["net"].ok)
      BY Holds
    <3> QED  BY <3>1, <3>2
  <2> QED  BY <2>2, <2>3
<1>6. Slack' - inq' - held' - NetHolds(l, at'["net"].ok)
        = Slack - inq - held - NetHolds(pc["net"], at["net"].ok)
  <2>1. PICK m \in Int : Slack' = Slack - m /\ NetHolds(l, at["net"].ok) = NetHolds(pc["net"], at["net"].ok) - m
    BY <1>5
  <2>2. PICK h \in Int : h = NetHolds(pc["net"], at["net"].ok)
    BY Holds
  <2> QED  BY <1>1, <2>1, <2>2, Numbers
<1>7. /\ l \in NetSpots /\ pc["net"] # "none" /\ UNCHANGED <<sema, age>>
      /\ at' \in [{"net", "ip"} -> AtT] /\ at'["ip"] = at["ip"]
      /\ (l \in {"write", "ask", "queue"} => at'["net"].nh \in NextHops)
      /\ (l \in {"ask", "queue"} => at'["net"].ok = "arpq")
      /\ (l \in {"dq", "alloc"} =>
            at'["net"].ok = "arpend" \/ (at'["net"].ok = "arpq" /\ at'["net"].nh \in NextHops))
  BY <1>1, <1>3, <1>4 DEF NetSpots
<1> QED  BY <1>1, <1>2, <1>4, <1>6, <1>7, NetStep

-----------------------------------------------------------------------------
(* ipproc.                                                                 *)
LEMMA AtIp ==
    ASSUME Memory
    PROVE  /\ at \in [{"net", "ip"} -> AtT]
           /\ [at EXCEPT !["ip"] = Nowhere] \in [{"net", "ip"} -> AtT]
           /\ [at EXCEPT !["ip"] = Nowhere]["net"] = at["net"]
<1>1. Nowhere \in AtT
  BY Hops, Sizes DEF Nowhere, AtT, Entries
<1> QED  BY <1>1 DEF Memory

LEMMA IpTakes == ASSUME NetInv, Ipgetp \/ Receive PROVE NetInv'
<1>1. /\ pc["ip"] \in {"get", "recv"} /\ Take /\ msg' = FALSE /\ arp' = arp
      /\ UNCHANGED <<sema, held, halted, nfrag, age, gran, arps, aenext, pool>>
  BY DEF Ipgetp, Receive, CanRun, IpIdle, procs
<1>2. /\ cpu' \in {"ip", "any"}
      /\ \/ inq > 0 /\ inq' = inq - 1 /\ pc' = [pc EXCEPT !["ip"] = "proc"]
         \/ inq' = inq /\ pc' = [pc EXCEPT !["ip"] = "recv"]
  BY <1>1 DEF Take, Goto
<1>3. Table' /\ Pool' /\ Slack' = Slack
  BY <1>1, Untouched
<1>4. Counters'
  <2>1. inq' \in 0..InqMax
    BY <1>2, Sizes DEF NetInv, Counters
  <2>2. cpu' \in Procs \union {"any"} /\ msg' \in BOOLEAN
    BY <1>1, <1>2 DEF Procs
  <2> QED  BY <1>1, <2>1, <2>2 DEF NetInv, Counters
<1>5. at' \in [{"net", "ip"} -> AtT] /\ at'["net"] = at["net"]
  <2>1. at' = at \/ at' = [at EXCEPT !["ip"] = Nowhere]
    BY DEF Ipgetp, Receive, IpIdle
  <2> QED  BY <2>1, AtIp DEF NetInv
<1>6. IpHolds(pc["ip"], at["ip"].ok) = 0 /\ "proc" \in IpSpots /\ "recv" \in IpSpots
  BY <1>1 DEF IpHolds, IpSpots
<1>7. CASE inq > 0 /\ inq' = inq - 1 /\ pc' = [pc EXCEPT !["ip"] = "proc"]
  <2>1. IpHolds("proc", at'["ip"].ok) = 1
    BY DEF IpHolds
  <2>2. Slack' - inq' - held' - IpHolds("proc", at'["ip"].ok)
          = Slack - inq - held - IpHolds(pc["ip"], at["ip"].ok)
    BY <1>1, <1>3, <1>6, <1>7, <2>1, Numbers
  <2> QED  BY <1>1, <1>3, <1>4, <1>5, <1>6, <1>7, <2>2, IpStep
<1>8. CASE inq' = inq /\ pc' = [pc EXCEPT !["ip"] = "recv"]
  <2>1. IpHolds("recv", at'["ip"].ok) = 0
    BY DEF IpHolds
  <2>2. Slack' - inq' - held' - IpHolds("recv", at'["ip"].ok)
          = Slack - inq - held - IpHolds(pc["ip"], at["ip"].ok)
    BY <1>1, <1>3, <1>6, <1>8, <2>1, Numbers
  <2> QED  BY <1>1, <1>3, <1>4, <1>5, <1>6, <1>8, <2>2, IpStep
<1> QED  BY <1>2, <1>7, <1>8

\* ipproc is rid of the datagram: freed, answered, delivered or given up.
LEMMA IpDone ==
    ASSUME NetInv, IpFree \/ IpAnswer \/ IpDeliver \/ FragBad
    PROVE  NetInv'
<1>1. /\ pc["ip"] \in {"proc", "fragbad"} /\ pc' = [pc EXCEPT !["ip"] = "get"] /\ arp' = arp
      /\ UNCHANGED <<at, sema, inq, halted, age, gran, arps, aenext>>
  BY DEF IpFree, IpAnswer, IpDeliver, FragBad, IpHas, CanRun, Goto, IpIdle, Ipsend, procs
<1>2. nfrag' \in {nfrag, 0} /\ msg' \in {msg, TRUE}
  <2>1. nfrag' \in {nfrag, 0}
    BY DEF IpFree, IpAnswer, IpDeliver, FragBad
  <2>2. msg' \in {msg, TRUE}
    BY DEF IpFree, IpAnswer, IpDeliver, FragBad
  <2> QED  BY <2>1, <2>2
<1>3. /\ Pool' /\ cpu' \in Procs \union {"any"} /\ held' \in 0..InqMax
      /\ \E d \in {0, 1} : Out' = Out - d /\ held' = held + (1 - d)
  <2>1. /\ Pool /\ "ip" \in Procs \union {"any"} /\ held \in 0..InqMax /\ Out \in Int
        /\ held + (1 - 1) = held /\ held + (1 - 0) = held + 1 /\ Out - 0 = Out
    BY Sizes, Amounts DEF NetInv, Counters, Procs
  <2>2. CASE IpFree \/ FragBad
    <3>1. Freebuf("ip") /\ UNCHANGED <<waits, spent, lost>> /\ held' = held
      BY <2>2 DEF IpFree, FragBad
    <3>2. Pool' /\ Out' = Out - 1 /\ cpu' \in Procs \union {"any"}
      BY <2>1, <3>1, Frees
    <3> QED  BY <2>1, <3>1, <3>2
  <2>3. CASE IpAnswer
    <3>1. UNCHANGED <<inuse, waits, lost>> /\ spent' = spent + 1 /\ held' = held /\ cpu' = "any"
      BY <2>3 DEF IpAnswer, Ipsend
    <3>2. Pool' /\ Out' = Out - 1
      BY <2>1, <3>1 DEF Pool, Out
    <3> QED  BY <2>1, <3>1, <3>2
  <2>4. CASE IpDeliver /\ held < InqMax
    <3>1. UNCHANGED <<inuse, waits, spent, lost>> /\ held' = held + 1 /\ cpu' = "any"
      BY <2>4 DEF IpDeliver
    <3>2. Pool' /\ Out' = Out
      BY <2>1, <3>1 DEF Pool, Out
    <3>3. held' \in 0..InqMax
      BY <2>1, <2>4, <3>1, Sizes
    <3> QED  BY <2>1, <3>1, <3>2, <3>3
  <2>5. CASE IpDeliver /\ ~(held < InqMax)
    <3>1. inuse' = inuse - 1 /\ UNCHANGED <<waits, spent, lost, held>> /\ cpu' = "any"
      BY <2>5 DEF IpDeliver
    <3>2. Pool' /\ Out' = Out - 1
      BY <2>1, <3>1, Sizes DEF Pool, Out
    <3> QED  BY <2>1, <3>1, <3>2
  <2> QED  BY <2>2, <2>3, <2>4, <2>5
<1>4. PICK d \in {0, 1} : Out' = Out - d /\ held' = held + (1 - d)
  BY <1>3
<1>5. Table' /\ Slack' = Slack - d
  <2>1. d \in Int /\ Table /\ Pool
    BY DEF NetInv
  <2> QED  BY <1>1, <1>3, <1>4, <2>1, Unqueued
<1>6. Counters'
  <2>1. nfrag' \in 0..MaxFrags
    BY <1>2, Sizes DEF NetInv, Counters
  <2>2. msg' \in BOOLEAN /\ halted' \in BOOLEAN
    BY <1>1, <1>2, Zenon DEF NetInv, Counters
  <2> QED  BY <1>1, <1>3, <2>1, <2>2 DEF NetInv, Counters
<1>7. at' \in [{"net", "ip"} -> AtT] /\ at'["net"] = at["net"]
  BY <1>1, AtIp DEF NetInv
<1>8. IpHolds(pc["ip"], at["ip"].ok) = 1 /\ IpHolds("get", at'["ip"].ok) = 0 /\ "get" \in IpSpots
  BY <1>1 DEF IpHolds, IpSpots
<1>9. Slack' - inq' - held' - IpHolds("get", at'["ip"].ok)
        = Slack - inq - held - IpHolds(pc["ip"], at["ip"].ok)
  BY <1>1, <1>4, <1>5, <1>8, Numbers
<1> QED  BY <1>1, <1>3, <1>5, <1>6, <1>7, <1>8, <1>9, IpStep

LEMMA NetIpPanic == ASSUME NetInv, IpPanic PROVE NetInv'
<1>1. /\ pc["ip"] = "proc" /\ pc' = pc /\ halted' = TRUE /\ arp' = arp
      /\ UNCHANGED <<at, sema, inq, age, gran, arps, aenext, cpu, msg, nfrag, held, pool>>
  BY DEF IpPanic, IpHas, CanRun, IpIdle, procs
<1>2. Table' /\ Pool' /\ Slack' = Slack
  BY <1>1, Untouched
<1>3. Places' /\ StartUp' /\ Counters'
  BY <1>1 DEF NetInv, Places, StartUp, Begun, Counters
<1>4. pc'["slow"] = "dq" => age' \in Entries
  BY <1>1 DEF NetInv, Memory
<1> QED  BY <1>1, <1>2, <1>3, <1>4, OtherStep

LEMMA NetHolderFrees == ASSUME NetInv, HolderFrees PROVE NetInv'
<1>1. /\ pc' = pc /\ held > 0 /\ held' = held - 1 /\ inuse' = inuse - 1 /\ arp' = arp
      /\ UNCHANGED <<at, sema, inq, age, gran, arps, aenext, cpu, msg, nfrag, halted, waits, spent, lost>>
  BY DEF HolderFrees, IpIdle, procs
<1>2. Pool /\ Table /\ Pool' /\ Out' = Out - 1
  BY <1>1, Sizes DEF NetInv, Pool, Out
<1>3. Table' /\ Slack' = Slack - 1
  BY <1>1, <1>2, Unqueued
<1>4. Places' /\ StartUp'
  BY <1>1 DEF NetInv, Places, StartUp, Begun
<1>5. Counters'
  BY <1>1, Sizes DEF NetInv, Counters
<1>6. Slack' - inq' - held' = Slack - inq - held
  BY <1>1, <1>3, Numbers
<1>7. pc'["slow"] = "dq" => age' \in Entries
  BY <1>1 DEF NetInv, Memory
<1> QED  BY <1>1, <1>2, <1>3, <1>4, <1>5, <1>6, <1>7, OtherStep

\* ipproc's netwrite, of the datagram or of a fragment of it.
LEMMA IpWrites ==
    ASSUME NetInv, pc["ip"] \in {"proc", "frag", "fwrite"}, NEW nh \in NextHops,
           UNCHANGED <<sema, inq, held, halted, msg, nfrag, age, gran, arps>>,
           NEW ok \in {"get", "frag"}, NEW bad \in {"get", "fragbad"},
           Netwrite("ip", nh, ok, bad),
           ok = "frag" <=> pc["ip"] = "fwrite", bad = "fragbad" <=> pc["ip"] = "fwrite"
    PROVE  NetInv'
<1>1. /\ Table' /\ Pool' /\ aenext' \in Entries /\ cpu' \in Procs \union {"any"}
      /\ Gone("ip", bad) \/ Gone("ip", ok) \/ Asked("ip", nh, ok)
  <2>1. ok \in {"get", "frag", "arpq"}
    OBVIOUS
  <2> QED  BY <2>1, NetwriteDoes
<1>2. Counters'
  BY <1>1 DEF NetInv, Counters
<1>3. at \in [{"net", "ip"} -> AtT] /\ (ok = "frag" => at["ip"].dst \in NextHops)
  BY DEF NetInv, Memory
<1>4. PICK m \in {1, 2} : IpHolds(pc["ip"], at["ip"].ok) = m /\ (m = 2 <=> pc["ip"] = "fwrite")
  BY DEF IpHolds
<1>5. ASSUME NEW l \in {ok, bad}, Gone("ip", l) PROVE NetInv'
  <2>1. pc' = [pc EXCEPT !["ip"] = l] /\ at' = at /\ Slack' = Slack - 1
    BY <1>5 DEF Gone
  <2>2. IpHolds(l, at'["ip"].ok) = m - 1
    BY <1>4 DEF IpHolds
  <2>3. Slack' - inq' - held' - IpHolds(l, at'["ip"].ok)
          = Slack - inq - held - IpHolds(pc["ip"], at["ip"].ok)
    BY <1>4, <2>1, <2>2, Numbers
  <2>4. l \in IpSpots /\ l \notin {"dq", "alloc", "ask", "queue", "fwrite"} /\ pc["ip"] \notin {"none", "born"}
    BY DEF IpSpots
  <2>5. l = "frag" => at'["ip"].dst \in NextHops
    BY <1>3, <2>1
  <2> QED  BY <1>1, <1>2, <1>3, <2>1, <2>3, <2>4, <2>5, IpStep
<1>6. ASSUME Asked("ip", nh, ok) PROVE NetInv'
  <2>1. PICK l \in {"dq", "alloc"} : pc' = [pc EXCEPT !["ip"] = l]
    BY <1>6 DEF Asked
  <2>2. /\ Slack' = Slack /\ at' \in [{"net", "ip"} -> AtT]
        /\ at'["net"] = at["net"] /\ at'["ip"].nh \in NextHops /\ at'["ip"].ok = ok
        /\ at'["ip"].dst = at["ip"].dst
    BY <1>6 DEF Asked, AtKept
  <2>3. IpHolds(l, at'["ip"].ok) = m /\ l \in IpSpots /\ pc["ip"] \notin {"none", "born"}
    BY <1>4, <2>2 DEF IpHolds, IpSpots
  <2>4. Slack' - inq' - held' - IpHolds(l, at'["ip"].ok)
          = Slack - inq - held - IpHolds(pc["ip"], at["ip"].ok)
    BY <1>4, <2>2, <2>3
  <2>5. at'["ip"].ok = "frag" => at'["ip"].dst \in NextHops
    BY <1>3, <2>2
  <2> QED  BY <1>1, <1>2, <2>1, <2>2, <2>3, <2>4, <2>5, IpStep
<1> QED  BY <1>1, <1>5, <1>6

LEMMA NetIpForward == ASSUME NetInv, IpForward PROVE NetInv'
<1>1. pc["ip"] = "proc" /\ UNCHANGED <<sema, inq, held, halted, msg, nfrag, age, gran, arps>>
  BY DEF IpForward, IpHas, CanRun, procs
<1>2. CASE \E nh \in NextHops : Netwrite("ip", nh, "get", "get")
  BY <1>1, <1>2, IpWrites
<1>3. CASE NwBroadcast("ip", "get") \/ NwClassD("ip", "get")
  <2>1. /\ pc' = [pc EXCEPT !["ip"] = "get"] /\ cpu' \in {"any", "ip"} /\ arp' = arp
        /\ UNCHANGED <<aenext, at, inuse, waits>>
        /\ \/ spent' = spent + 1 /\ lost' = lost
           \/ lost' = lost + 1 /\ spent' = spent
    BY <1>3 DEF NwBroadcast, NwClassD, Goto
  <2>2. Table /\ Pool /\ Pool' /\ Out' = Out - 1
    <3>1. Table /\ Pool
      BY DEF NetInv
    <3>2. PICK m \in Nat, n \in Nat : spent' = spent + m /\ lost' = lost + n /\ m + n = 1
      <4>1. spent + 0 = spent /\ lost + 0 = lost
        BY <3>1 DEF Pool
      <4>2. 0 \in Nat /\ 1 \in Nat /\ 0 + 1 = 1 /\ 1 + 0 = 1
        OBVIOUS
      <4> QED  BY <2>1, <4>1, <4>2
    <3>3. Pool' /\ Out' = Out - m - n /\ Out \in Int
      BY <2>1, <3>1, <3>2, Leaves, Amounts
    <3> QED  BY <3>1, <3>2, <3>3
  <2>3. Table' /\ Slack' = Slack - 1
    BY <2>1, <2>2, Unqueued
  <2>4. Counters'
    BY <1>1, <2>1 DEF NetInv, Counters, Procs
  <2>5. IpHolds(pc["ip"], at["ip"].ok) = 1 /\ IpHolds("get", at'["ip"].ok) = 0 /\ "get" \in IpSpots
    BY <1>1 DEF IpHolds, IpSpots
  <2>6. Slack' - inq' - held' - IpHolds("get", at'["ip"].ok)
          = Slack - inq - held - IpHolds(pc["ip"], at["ip"].ok)
    BY <1>1, <2>3, <2>5, Numbers
  <2>7. at' \in [{"net", "ip"} -> AtT] /\ at'["net"] = at["net"]
    BY <2>1, AtIp DEF NetInv
  <2> QED  BY <1>1, <2>1, <2>2, <2>3, <2>4, <2>5, <2>6, <2>7, IpStep
<1> QED  BY <1>2, <1>3 DEF IpForward

LEMMA NetIpFragment == ASSUME NetInv, IpFragment PROVE NetInv'
<1>1. /\ pc["ip"] = "proc" /\ pc' = [pc EXCEPT !["ip"] = "frag"] /\ cpu' = "ip" /\ arp' = arp
      /\ UNCHANGED <<sema, inq, held, halted, msg, age, gran, arps, aenext, pool>>
  BY DEF IpFragment, IpHas, CanRun, Goto, procs
<1>2. PICK n \in 1..MaxFrags, nh \in NextHops : nfrag' = n /\ at' = [at EXCEPT !["ip"].dst = nh]
  BY DEF IpFragment
<1>3. Table' /\ Pool' /\ Slack' = Slack
  BY <1>1, Untouched
<1>4. Counters'
  <2>1. nfrag' \in 0..MaxFrags
    BY <1>2, Sizes
  <2> QED  BY <1>1, <2>1 DEF NetInv, Counters, Procs
<1>5. at' \in [{"net", "ip"} -> AtT] /\ at'["net"] = at["net"] /\ at'["ip"].dst \in NextHops
  <2>1. at \in [{"net", "ip"} -> AtT] /\ nh \in Addrs
    BY Hops DEF NetInv, Memory
  <2> QED  BY <1>2, <2>1 DEF AtT
<1>6. IpHolds(pc["ip"], at["ip"].ok) = 1 /\ IpHolds("frag", at'["ip"].ok) = 1 /\ "frag" \in IpSpots
  BY <1>1 DEF IpHolds, IpSpots
<1>7. Slack' - inq' - held' - IpHolds("frag", at'["ip"].ok)
        = Slack - inq - held - IpHolds(pc["ip"], at["ip"].ok)
  BY <1>1, <1>3, <1>6
<1> QED  BY <1>1, <1>3, <1>4, <1>5, <1>6, <1>7, IpStep

LEMMA NetIpfsend == ASSUME NetInv, Ipfsend PROVE NetInv'
<1>1. /\ pc["ip"] = "frag" /\ pc' = [pc EXCEPT !["ip"] = "fwrite"] /\ cpu' = "ip" /\ arp' = arp
      /\ UNCHANGED <<at, sema, inq, held, halted, msg, age, gran, arps, aenext, spent, lost>>
      /\ nfrag > 0 /\ nfrag' = nfrag - 1 /\ Getbuf("ip")
  BY DEF Ipfsend, CanRun, Goto, IpIdle, procs
<1>2. Pool /\ Table /\ spent' = spent + 0 /\ Out \in Int
  BY <1>1, Amounts DEF NetInv, Pool
<1>3. Pool' /\ Out' = Out + 1 - 0
  BY <1>1, <1>2, Gets
<1>4. Out' = Out - (-1) /\ -1 \in Int
  BY <1>2, <1>3
<1>5. Table' /\ Slack' = Slack - (-1)
  BY <1>1, <1>2, <1>3, <1>4, Unqueued
<1>6. Counters'
  <2>1. nfrag' \in 0..MaxFrags
    BY <1>1, Sizes DEF NetInv, Counters
  <2> QED  BY <1>1, <2>1 DEF NetInv, Counters, Procs
<1>7. at' \in [{"net", "ip"} -> AtT] /\ at'["net"] = at["net"] /\ at'["ip"].dst \in NextHops
  BY <1>1 DEF NetInv, Memory
<1>8. IpHolds(pc["ip"], at["ip"].ok) = 1 /\ IpHolds("fwrite", at'["ip"].ok) = 2 /\ "fwrite" \in IpSpots
  BY <1>1 DEF IpHolds, IpSpots
<1>9. Slack' - inq' - held' - IpHolds("fwrite", at'["ip"].ok)
        = Slack - inq - held - IpHolds(pc["ip"], at["ip"].ok)
  BY <1>1, <1>5, <1>8, Numbers
<1> QED  BY <1>1, <1>3, <1>5, <1>6, <1>7, <1>8, <1>9, IpStep

LEMMA NetFragments == ASSUME NetInv, IpfsendWrite \/ FragLast PROVE NetInv'
<1>1. UNCHANGED <<sema, inq, held, halted, msg, nfrag, age, gran, arps>>
  BY DEF IpfsendWrite, FragLast, procs
<1>2. pc["ip"] \in {"frag", "fwrite"}
  BY DEF IpfsendWrite, FragLast, CanRun
<1>3. PICK nh \in NextHops : nh = at["ip"].dst
  BY <1>2 DEF NetInv, Memory
<1>4. CASE IpfsendWrite
  <2>1. Netwrite("ip", nh, "frag", "fragbad") /\ pc["ip"] = "fwrite"
    BY <1>3, <1>4 DEF IpfsendWrite, CanRun
  <2> QED  BY <1>1, <2>1, IpWrites
<1>5. CASE FragLast
  <2>1. Netwrite("ip", nh, "get", "get") /\ pc["ip"] = "frag"
    BY <1>3, <1>5 DEF FragLast, CanRun
  <2> QED  BY <1>1, <2>1, IpWrites
<1> QED  BY <1>4, <1>5

LEMMA IpRest == ASSUME NetInv, NetwriteRest("ip") PROVE NetInv'
<1>1. /\ Table' /\ Pool' /\ cpu' \in Procs \union {"any"} /\ UNCHANGED at
      /\ UNCHANGED <<halted, inq, msg, aenext, nfrag, age, gran, held, arps, sema>>
      /\ \/ pc["ip"] = "dq" /\ pc' = pc /\ Slack' = Slack
         \/ /\ pc["ip"] \in {"dq", "alloc"} /\ Slack' = Slack
            /\ pc' = [pc EXCEPT !["ip"] = IF at["ip"].ok = "arpend" THEN "arpend" ELSE "ask"]
         \/ pc["ip"] = "ask" /\ pc' = [pc EXCEPT !["ip"] = "queue"] /\ Slack' = Slack
         \/ pc["ip"] = "queue" /\ pc' = [pc EXCEPT !["ip"] = at["ip"].ok] /\ Slack' = Slack - 1
  BY RestDoes
<1>2. Counters'
  BY <1>1 DEF NetInv, Counters
<1>3. /\ at \in [{"net", "ip"} -> AtT] /\ pc["ip"] \in {"dq", "alloc", "ask", "queue"}
      /\ at["ip"].nh \in NextHops /\ at["ip"].ok \in {"get", "frag"}
      /\ at["ip"].ok = "frag" => at["ip"].dst \in NextHops
  BY <1>1 DEF NetInv, Memory
<1>4. PICK l \in {"dq", "ask", "queue", "get", "frag"} :
         /\ pc' = [pc EXCEPT !["ip"] = l]
         /\ \/ l \in {"dq", "ask", "queue"} /\ Slack' = Slack
            \/ l = at["ip"].ok /\ Slack' = Slack - 1
  <2>1. "ip" \in Procs
    BY DEF Procs
  <2>2. CASE pc["ip"] = "dq" /\ pc' = pc /\ Slack' = Slack
    BY <2>1, <2>2, Stays
  <2>3. CASE /\ pc["ip"] \in {"dq", "alloc"} /\ Slack' = Slack
             /\ pc' = [pc EXCEPT !["ip"] = IF at["ip"].ok = "arpend" THEN "arpend" ELSE "ask"]
    BY <1>3, <2>3
  <2>4. CASE pc["ip"] = "ask" /\ pc' = [pc EXCEPT !["ip"] = "queue"] /\ Slack' = Slack
    BY <2>4
  <2>5. CASE pc["ip"] = "queue" /\ pc' = [pc EXCEPT !["ip"] = at["ip"].ok] /\ Slack' = Slack - 1
    BY <1>3, <2>5
  <2> QED  BY <1>1, <2>2, <2>3, <2>4, <2>5
<1>5. \E m \in Int : Slack' = Slack - m /\ IpHolds(l, at["ip"].ok) = IpHolds(pc["ip"], at["ip"].ok) - m
  <2>1. Slack - 0 = Slack
    BY Numbers
  <2>2. CASE l \in {"get", "frag"}
    <3>1. /\ Slack' = Slack - 1
          /\ \/ IpHolds(l, at["ip"].ok) = 0 /\ IpHolds(pc["ip"], at["ip"].ok) = 1
             \/ IpHolds(l, at["ip"].ok) = 1 /\ IpHolds(pc["ip"], at["ip"].ok) = 2
      BY <1>3, <1>4, <2>2 DEF IpHolds
    <3> QED  BY <3>1
  <2>3. CASE l \in {"dq", "ask", "queue"}
    <3>1. IpHolds(l, at["ip"].ok) = IpHolds(pc["ip"], at["ip"].ok) /\ Slack' = Slack - 0
      BY <1>3, <1>4, <2>1, <2>3 DEF IpHolds
    <3>2. IpHolds(pc["ip"], at["ip"].ok) - 0 = IpHolds(pc["ip"], at["ip"].ok)
      BY Holds
    <3> QED  BY <3>1, <3>2
  <2> QED  BY <2>2, <2>3
<1>6. Slack' - inq' - held' - IpHolds(l, at'["ip"].ok)
        = Slack - inq - held - IpHolds(pc["ip"], at["ip"].ok)
  <2>1. PICK m \in Int : Slack' = Slack - m /\ IpHolds(l, at["ip"].ok) = IpHolds(pc["ip"], at["ip"].ok) - m
    BY <1>5
  <2>2. PICK h \in Int : h = IpHolds(pc["ip"], at["ip"].ok)
    BY Holds
  <2> QED  BY <1>1, <2>1, <2>2, Numbers
<1>7. /\ l \in IpSpots /\ pc["ip"] \notin {"none", "born"} /\ UNCHANGED <<sema, age>>
      /\ at' \in [{"net", "ip"} -> AtT] /\ at'["net"] = at["net"]
      /\ at'["ip"].nh \in NextHops /\ at'["ip"].ok \in {"get", "frag"}
      /\ (at'["ip"].ok = "frag" => at'["ip"].dst \in NextHops)
      /\ (l \in {"frag", "fwrite"} => at'["ip"].dst \in NextHops)
  BY <1>1, <1>3, <1>4 DEF IpSpots
<1> QED  BY <1>1, <1>2, <1>4, <1>6, <1>7, IpStep

-----------------------------------------------------------------------------
(* netstart and slowtimer.                                                 *)
LEMMA NetStart ==
    ASSUME NetInv, Netstart \/ Begin("ip", "get") \/ Begin("slow", "sleep")
    PROVE  NetInv'
<1>1. arp' = arp /\ UNCHANGED <<at, inq, held, cpu, msg, aenext, nfrag, age, gran, arps, pool>>
  BY DEF Netstart, NetupNif, NetupRt, Create, WaitSema, StartNet, Begin, procs
<1>2. halted' \in BOOLEAN
  BY Zenon DEF NetInv, Counters, Netstart, NetupNif, NetupRt, Create, WaitSema, StartNet, Begin
<1>3. Counters'
  BY <1>1, <1>2 DEF NetInv, Counters
<1>4. Table' /\ Pool' /\ Slack' = Slack
  BY <1>1, Untouched
<1>5. pc \in [Procs -> Spots] /\ {"main", "net", "ip", "slow"} = Procs
  BY DEF NetInv, Places, Procs
<1>6. Slack' - inq' - held' = Slack - inq - held
  BY <1>1, <1>4
<1>7. pc'["slow"] \in {pc["slow"], "born", "sleep"} => (pc'["slow"] = "dq" => age' \in Entries)
  BY <1>1 DEF NetInv, Memory
<1>8. CASE NetupNif \/ NetupRt \/ WaitSema("waitip", "slow") \/ WaitSema("waitslow", "gath")
  <2>1. PICK l \in {"rt", "ip", "slow", "gath"} :
           /\ pc' = [pc EXCEPT !["main"] = l] /\ sema' \in Nat /\ sema' <= sema
           /\ \/ pc["main"] \in {"start", "rt"} /\ l \in {"rt", "ip"}
              \/ pc["main"] = "waitip" /\ l = "slow"
              \/ pc["main"] = "waitslow" /\ l = "gath"
    BY <1>8 DEF NetupNif, NetupRt, WaitSema, CanRun, Goto, procs, NetInv, StartUp
  <2>2. /\ pc' \in [Procs -> Spots] /\ pc'["main"] = l /\ pc'["net"] = pc["net"]
        /\ pc'["ip"] = pc["ip"] /\ pc'["slow"] = pc["slow"]
    BY <1>5, <2>1 DEF Spots
  <2>3. Places' /\ StartUp'
    BY <2>1, <2>2 DEF NetInv, Places, StartUp, Begun
  <2> QED  BY <1>1, <1>3, <1>4, <1>6, <1>7, <2>2, <2>3, OtherStep
<1>9. CASE Create("ip", "waitip") \/ Create("slow", "waitslow")
  <2>1. PICK p \in {"ip", "slow"}, l \in {"waitip", "waitslow"} :
           /\ pc' = [pc EXCEPT ![p] = "born", !["main"] = l] /\ sema' = sema
           /\ pc["main"] = p /\ (p = "ip" <=> l = "waitip")
    BY <1>9 DEF Create, CanRun, procs
  <2>2. /\ pc' \in [Procs -> Spots] /\ pc'["main"] = l /\ pc'[p] = "born" /\ pc'["net"] = pc["net"]
        /\ \A o \in {"ip", "slow"} : o # p => pc'[o] = pc[o]
    BY <1>5, <2>1 DEF Spots
  <2>3. pc[p] = "none"
    BY <2>1 DEF NetInv, StartUp
  <2>4. Places' /\ StartUp'
    BY <2>1, <2>2, <2>3 DEF NetInv, Places, StartUp, Begun
  <2> QED  BY <1>1, <1>3, <1>4, <1>6, <1>7, <2>1, <2>2, <2>3, <2>4, OtherStep
<1>10. CASE StartNet
  <2>1. /\ pc' = [pc EXCEPT !["net"] = "getbuf", !["main"] = "done"] /\ sema' = sema
        /\ pc["main"] = "gath"
    BY <1>10 DEF StartNet, CanRun, procs
  <2>2. /\ pc' \in [Procs -> Spots] /\ pc'["main"] = "done" /\ pc'["net"] = "getbuf"
        /\ \A o \in {"ip", "slow"} : pc'[o] = pc[o]
    BY <1>5, <2>1 DEF Spots
  <2>3. pc["net"] = "none"
    BY <2>1 DEF NetInv, StartUp
  <2>4. Places' /\ StartUp'
    BY <2>1, <2>2 DEF NetInv, Places, StartUp, Begun, NetSpots
  <2> QED  BY <1>1, <1>3, <1>4, <1>6, <1>7, <2>2, <2>3, <2>4, OtherStep
<1>11. CASE Begin("ip", "get") \/ Begin("slow", "sleep")
  <2>1. PICK p \in {"ip", "slow"}, l \in {"get", "sleep"} :
           /\ pc' = [pc EXCEPT ![p] = l] /\ sema' = sema + 1
           /\ pc[p] = "born" /\ (p = "ip" <=> l = "get")
    BY <1>11 DEF Begin, CanRun, Goto
  <2>2. /\ pc' \in [Procs -> Spots] /\ pc'["main"] = pc["main"] /\ pc'[p] = l /\ pc'["net"] = pc["net"]
        /\ \A o \in {"ip", "slow"} : o # p => pc'[o] = pc[o]
    BY <1>5, <2>1 DEF Spots
  <2>3. Places' /\ StartUp'
    BY <2>1, <2>2 DEF NetInv, Places, StartUp, Begun, IpSpots, SlowSpots
  <2> QED  BY <1>1, <1>3, <1>4, <1>6, <1>7, <2>1, <2>2, <2>3, OtherStep
<1> QED  BY <1>8, <1>9, <1>10, <1>11 DEF Netstart

\* slowtimer goes to l and holds nothing.
LEMMA SlowStep ==
    ASSUME NetInv, pc["slow"] \notin {"none", "born"}, UNCHANGED <<at, sema, inq, held>>,
           NEW l \in SlowSpots, pc' = [pc EXCEPT !["slow"] = l], l = "dq" => age' \in Entries,
           Counters', Pool', Table', Slack' = Slack
    PROVE  NetInv'
<1>1. /\ pc' \in [Procs -> Spots] /\ pc'["slow"] = l /\ pc'["main"] = pc["main"]
      /\ pc'["ip"] = pc["ip"] /\ pc'["net"] = pc["net"]
  <2>1. l \in Spots /\ "slow" \in Procs
    BY DEF Spots, SlowSpots, Procs
  <2>2. pc' \in [Procs -> Spots] /\ pc'["slow"] = l /\ \A o \in Procs : o # "slow" => pc'[o] = pc[o]
    BY <2>1, Moves
  <2> QED  BY <2>2 DEF Procs
<1>2. Places' /\ StartUp'
  BY <1>1 DEF NetInv, Places, StartUp, Begun, SlowSpots
<1>3. Slack' - inq' - held' = Slack - inq - held
  OBVIOUS
<1> QED  BY <1>1, <1>2, <1>3, OtherStep

LEMMA NetTicks == ASSUME NetInv, SlowTick \/ ArptimerEnd \/ GivenUp PROVE NetInv'
<1>1. PICK l \in {"sleep", "aging"} :
         /\ pc["slow"] \in {"sleep", "aging", "dq"} /\ pc' = [pc EXCEPT !["slow"] = l]
         /\ UNCHANGED <<arp, at, sema, inq, held, pool, halted, msg, aenext, nfrag, arps>>
         /\ age' = 1 \/ (age' = age + 1 /\ pc["slow"] = "dq")
         /\ gran' = gran \/ gran' \in 1..MaxGran \/ gran' = 1
         /\ cpu' \in {"slow", "any"}
  BY DEF SlowTick, ArptimerEnd, GivenUp, CanRun, Goto, procs
<1>2. Counters'
  <2>1. age' \in 1..TSize + 1
    BY <1>1, Sizes DEF NetInv, Counters, Memory, Entries
  <2>2. gran' \in 1..MaxGran
    BY <1>1, Sizes DEF NetInv, Counters
  <2> QED  BY <1>1, <2>1, <2>2 DEF NetInv, Counters, Procs
<1>3. Table' /\ Pool' /\ Slack' = Slack
  BY <1>1, Untouched
<1>4. l \in SlowSpots /\ l # "dq"
  BY DEF SlowSpots
<1> QED  BY <1>1, <1>2, <1>3, <1>4, SlowStep

\* The entry at its turn keeps its queue, whatever becomes of it.
LEMMA NetArptimer == ASSUME NetInv, Arptimer PROVE NetInv'
<1>1. /\ pc["slow"] = "aging" /\ cpu' = "slow" /\ age <= TSize /\ age' \in {age, age + 1}
      /\ UNCHANGED <<at, sema, inq, held, halted, msg, aenext, nfrag, gran, arps, pool>>
  BY DEF Arptimer, CanRun, procs
<1>2. PICK e \in Entries : e = age /\ age' \in 1..TSize + 1
  BY <1>1, Sizes DEF NetInv, Counters, Entries
<1>3. arp[e] \in EntryT /\ Table
  BY DEF NetInv, Table
<1> DEFINE gone == Aged(e) = 0 /\ arp[e].state /= "FREE"
           resolved == arp[e].state = "RESOLVED"
           again == gone /\ ~resolved /\ arp[e].att < MaxRetry
           over == gone /\ ~resolved /\ ~again
           r == CASE arp[e].state = "FREE" -> arp[e]
                  [] arp[e].state /= "FREE" /\ ~gone -> [arp[e] EXCEPT !.ttl = Aged(e)]
                  [] again -> [arp[e] EXCEPT !.ttl = Resend, !.att = @ + 1]
                  [] OTHER -> Released(e)
<1>4. arp' = [arp EXCEPT ![e] = r]
  BY <1>2 DEF Arptimer
<1>5. PICK l \in {"dq", "ask", "aging"} : pc' = [pc EXCEPT !["slow"] = l] /\ (l = "dq" => age' = age)
  BY <1>2 DEF Arptimer, Goto
<1>6. Aged(e) \in 0..Timeout
  <2>1. PICK t \in Nat : t = arp[e].ttl /\ t <= Timeout
    BY <1>3, EntryFields, Sizes
  <2>2. gran \in Nat
    BY Sizes DEF NetInv, Counters
  <2> QED  BY <2>1, <2>2, Sizes DEF Aged
<1>7. r \in EntryT /\ r.q = arp[e].q
  <2>1. CASE arp[e].state = "FREE"
    BY <1>3, <2>1
  <2>2. CASE arp[e].state # "FREE" /\ ~gone
    <3>1. r = [arp[e] EXCEPT !.ttl = Aged(e)]
      BY <2>2
    <3> HIDE DEF r
    <3> QED  BY <1>3, <1>6, <3>1, Kept
  <2>3. CASE again
    <3>1. r = [arp[e] EXCEPT !.ttl = Resend, !.att = arp[e].att + 1]
      BY <2>3
    <3>2. PICK x \in EntryT : x = [arp[e] EXCEPT !.ttl = Resend] /\ x.q = arp[e].q /\ x.att = arp[e].att
      <4>1. Resend \in 0..Timeout
        BY Sizes
      <4>2. [arp[e] EXCEPT !.ttl = Resend] \in EntryT /\ [arp[e] EXCEPT !.ttl = Resend].q = arp[e].q
        BY <1>3, <4>1, Kept
      <4>3. [arp[e] EXCEPT !.ttl = Resend].att = arp[e].att
        BY <1>3 DEF EntryT
      <4> QED  BY <4>2, <4>3
    <3>3. PICK n \in 0..MaxRetry : n = arp[e].att + 1
      BY <1>3, <2>3, EntryFields, Sizes
    <3>4. r = [x EXCEPT !.att = n]
      BY <3>1, <3>2, <3>3
    <3>5. [x EXCEPT !.att = n] \in EntryT /\ [x EXCEPT !.att = n].q = x.q
      BY DEF EntryT
    <3> HIDE DEF r
    <3> QED  BY <3>2, <3>4, <3>5
  <2>4. CASE gone /\ ~again
    <3>1. r = [Free EXCEPT !.q = arp[e].q]
      BY <2>4 DEF Released
    <3> HIDE DEF r
    <3> QED  BY <1>3, <1>6, <3>1, Kept
  <2> QED  BY <2>1, <2>2, <2>3, <2>4
<1> HIDE DEF r, gone, resolved, again, over
<1>8. Pool /\ Pool' /\ Out' = Out - 0 /\ 0 \in Int
  <2>1. Pool /\ Pool' /\ Out' = Out /\ Out \in Int
    BY <1>1, PoolKept, Amounts DEF NetInv
  <2> QED  BY <2>1
<1>9. Table' /\ Slack' = Slack - 0
  BY <1>3, <1>4, <1>7, <1>8, QueuesKept
<1>10. Slack' = Slack
  BY <1>9, Numbers
<1>11. Counters'
  BY <1>1, <1>2 DEF NetInv, Counters, Procs
<1>12. l \in SlowSpots /\ (l = "dq" => age' \in Entries) /\ pc["slow"] \notin {"none", "born"}
  BY <1>1, <1>2, <1>5 DEF SlowSpots
<1> QED  BY <1>1, <1>5, <1>8, <1>9, <1>10, <1>11, <1>12, SlowStep

\* arptimer's arpdq and arpsend.
LEMMA NetSlowDq == ASSUME NetInv, Arpdq("slow") PROVE NetInv'
<1>1. /\ pc["slow"] = "dq" /\ pc' = pc /\ arp[age].q # <<>> /\ arp' = [arp EXCEPT ![age].q = Tail(@)]
      /\ Freebuf("slow")
      /\ UNCHANGED <<at, sema, inq, held, halted, msg, aenext, nfrag, age, gran, arps, waits, spent, lost>>
  BY DEF Arpdq, DqEntry, CanRun, procs
<1>2. PICK e \in Entries : e = age
  BY <1>1 DEF NetInv, Memory
<1>3. Pool /\ Table /\ "slow" \in Procs
  BY DEF NetInv, Procs
<1>4. Pool' /\ Out' = Out - 1 /\ cpu' \in Procs \union {"any"} /\ 1 \in Int
  BY <1>1, <1>3, Frees
<1>5. arp[e].q # <<>> /\ arp' = [arp EXCEPT ![e].q = Tail(@)]
  BY <1>1, <1>2
<1>6. Table' /\ Slack' = Slack + 1 - 1
  BY <1>3, <1>4, <1>5, Dequeued
<1>7. Slack' = Slack
  BY <1>6, Numbers
<1>8. Counters'
  BY <1>1, <1>4 DEF NetInv, Counters
<1>9. "dq" \in SlowSpots /\ age' \in Entries /\ pc' = [pc EXCEPT !["slow"] = "dq"]
  <2>1. pc' = [pc EXCEPT !["slow"] = pc["slow"]]
    BY <1>1, <1>3, Stays
  <2> QED  BY <1>1, <1>2, <2>1 DEF SlowSpots
<1> QED  BY <1>1, <1>4, <1>6, <1>7, <1>8, <1>9, SlowStep

LEMMA NetSlowAsk == ASSUME NetInv, Arpsend("slow", "aging") PROVE NetInv'
<1>1. /\ pc["slow"] = "ask" /\ pc' = [pc EXCEPT !["slow"] = "aging"] /\ arp' = arp /\ cpu' = "any"
      /\ Getbuf("slow") /\ UNCHANGED lost /\ spent' = spent + 1
      /\ UNCHANGED <<at, sema, inq, held, halted, msg, aenext, nfrag, age, gran, arps>>
  BY DEF Arpsend, CanRun, Goto, procs
<1>2. Pool /\ Table
  BY DEF NetInv
<1>3. Pool' /\ Out' = Out + 1 - 1
  BY <1>1, <1>2, Gets
<1>4. Out' = Out - 0 /\ 0 \in Int
  BY <1>2, <1>3, Amounts
<1>5. Table' /\ Slack' = Slack - 0
  BY <1>1, <1>2, <1>3, <1>4, Unqueued
<1>6. Slack' = Slack
  BY <1>5, Numbers
<1>7. Counters'
  BY <1>1 DEF NetInv, Counters, Procs
<1>8. "aging" \in SlowSpots
  BY DEF SlowSpots
<1> QED  BY <1>1, <1>3, <1>5, <1>6, <1>7, <1>8, SlowStep

-----------------------------------------------------------------------------
LEMMA NetInit == Init => NetInv
<1> SUFFICES ASSUME Init PROVE NetInv
  OBVIOUS
<1>1. Places /\ StartUp
  BY DEF Init, Places, StartUp, Begun, Procs, Spots
<1>2. Counters
  <2>1. halted \in BOOLEAN /\ msg \in BOOLEAN
    BY Zenon DEF Init
  <2>2. aenext \in Entries /\ nfrag \in 0..MaxFrags /\ age \in 1..TSize + 1 /\ arps \in 0..MaxArps
    BY Sizes DEF Init, Entries
  <2>3. inq \in 0..InqMax /\ held \in 0..InqMax /\ gran \in 1..MaxGran /\ cpu = "any"
    BY Sizes DEF Init
  <2> QED  BY <2>1, <2>2, <2>3 DEF Counters
<1>3. Table /\ Pool
  BY Made, Sizes DEF Init, Table, Pool
<1>4. Memory
  <2>1. Nowhere \in AtT
    BY Hops, Sizes DEF Nowhere, AtT, Entries
  <2> QED  BY <2>1 DEF Init, Memory, Procs
<1>5. Count
  <2>1. Taken = {}
    <3>1. \A e \in Entries : Len(arp[e].q) = 0
      BY Made DEF Init
    <3> QED  BY <3>1 DEF Taken
  <2>2. QueuedPackets = 0
    BY <2>1, QueuedNat, FS_EmptySet
  <2>3. HeldByNet = 0 /\ HeldByIp = 0
    BY DEF Init, HeldByNet, HeldByIp, Procs
  <2>4. inuse = 0 /\ inq = 0 /\ held = 0 /\ spent = 0 /\ lost = 0
    BY DEF Init
  <2> QED  BY <2>2, <2>3, <2>4 DEF Count, Slack, Out
<1> QED  BY <1>1, <1>2, <1>3, <1>4, <1>5 DEF NetInv

LEMMA NetStutter == ASSUME NetInv, UNCHANGED vars PROVE NetInv'
<1>1. UNCHANGED <<pc, cpu, halted, sema, inq, msg, arp, aenext, at, nfrag, age, gran, arps, held, pool>>
  BY DEF vars, procs
<1>2. Places' /\ StartUp' /\ Counters'
  BY <1>1 DEF NetInv, Places, StartUp, Begun, Counters
<1>3. Table' /\ Pool' /\ Slack' = Slack
  BY <1>1, Untouched
<1>4. Slack' - inq' - held' = Slack - inq - held
  BY <1>1, <1>3
<1>5. pc'["slow"] = "dq" => age' \in Entries
  BY <1>1 DEF NetInv, Memory
<1> QED  BY <1>1, <1>2, <1>3, <1>4, <1>5, OtherStep

LEMMA NetKept == ASSUME NetInv, [Next]_vars PROVE NetInv'
<1>1. \A p \in Procs : Blocks(p) => NetInv'
  BY NetBlocks
<1>2. {"net", "ip", "slow"} \subseteq Procs
  BY DEF Procs
<1>3. CASE NetSteps
  <2>1. CASE NetGetbuf
    BY <2>1, NetReads
  <2>2. CASE Blocks("net")
    BY <1>1, <1>2, <2>2
  <2> QED  BY <1>3, <2>1, <2>2, NetArpqEmpty, NetArpqDeq, NetArpqWrite, NetArpEnd, NetRest DEF NetSteps
<1>4. CASE Netproc
  BY <1>3, <1>4, NetReads, NetArpNotOurs, NetArpNew, NetArpKnown DEF Netproc
<1>5. CASE Ipproc
  <2>1. CASE Blocks("ip")
    BY <1>1, <1>2, <2>1
  <2> QED
    BY <1>5, <2>1, NetStart, IpTakes, IpDone, NetIpPanic, NetIpForward, NetIpFragment, NetIpfsend,
       NetFragments, IpRest DEF Ipproc
<1>6. CASE Slowtimer
  <2>1. CASE Blocks("slow")
    BY <1>1, <1>2, <2>1
  <2> QED  BY <1>6, <2>1, NetStart, NetTicks, NetArptimer, NetSlowDq, NetSlowAsk DEF Slowtimer
<1>7. CASE Netstart \/ HolderFrees
  BY <1>7, NetStart, NetHolderFrees
<1>8. CASE UNCHANGED vars
  BY <1>8, NetStutter
<1> QED  BY <1>4, <1>5, <1>6, <1>7, <1>8 DEF Next

\* The inductive invariant holds of every behaviour.
THEOREM NetInvariant == Spec => []NetInv
<1>1. Init => NetInv
  BY NetInit
<1>2. NetInv /\ [Next]_vars => NetInv'
  BY NetKept
<1> QED  BY <1>1, <1>2, PTL DEF Spec

\* The ledger of Net.netpool: a buffer that getbuf gave out is on an input or
\* ARP queue, with a process or a protocol, or it was written to the device or
\* forgotten by netwrite and never freed, and in exactly one of these.
THEOREM BuffersAccountedCorrect == Spec => []BuffersAccounted
<1>1. NetInv => BuffersAccounted
  <2> SUFFICES ASSUME NetInv PROVE BuffersAccounted
    OBVIOUS
  <2>1. inuse = spent + lost + inq + held + HeldByNet + HeldByIp + QueuedPackets /\ inuse \in 0..NetBufs
    <3>1. PICK i \in Nat, h \in Nat, a \in Nat, b \in Nat, k \in Nat :
             i = inq /\ h = held /\ a = HeldByNet /\ b = HeldByIp /\ k = QueuedPackets
      <4>1. HeldByNet \in 0..2 /\ HeldByIp \in 0..2
        BY Holds
      <4>2. inq \in Nat /\ held \in Nat /\ QueuedPackets \in Nat
        BY QueuedNat, Sizes DEF NetInv, Counters
      <4> QED  BY <4>1, <4>2
    <3>2. PICK x \in Int, s \in Nat, t \in Nat : x = inuse /\ s = spent /\ t = lost /\ x <= NetBufs
      BY DEF NetInv, Pool
    <3>3. x - s - t - k = i + h + a + b
      BY <3>1, <3>2 DEF NetInv, Count, Slack, Out
    <3>4. x = s + t + i + h + a + b + k /\ x >= 0
      BY <3>3
    <3> QED  BY <3>1, <3>2, <3>4, Sizes
  <2>2. pc \in [Procs -> Spots]
    BY DEF NetInv, Places
  <2>3. sema \in 0..3
    BY DEF NetInv, StartUp, Begun
  <2>4. TypeOK
    BY <2>1, <2>2, <2>3 DEF TypeOK, NetInv, Counters, Pool, Table, EntryT, Spots
  <2> QED  BY <2>1, <2>4 DEF BuffersAccounted
<1> QED  BY <1>1, NetInvariant, PTL

-----------------------------------------------------------------------------
\* No step leaves a packet in the input queue that ipproc, in receive, does
\* not know of.
LEMMA Seen == ASSUME NetInv, InputSeen, [Next]_vars PROVE InputSeen'
<1>1. pc \in [Procs -> Spots] /\ Procs = {"main", "net", "ip", "slow"} /\ inq \in Nat
  BY Sizes DEF NetInv, Places, Procs, Counters
<1>2. CASE IpIn
  BY <1>1, <1>2 DEF IpIn, Goto, InputSeen
<1>3. CASE Ipgetp \/ Receive
  BY <1>1, <1>3 DEF Ipgetp, Receive, Take, Goto, InputSeen
<1>4. CASE \E l \in Spots \ {"recv"} : pc' = [pc EXCEPT !["ip"] = l]
  BY <1>1, <1>4 DEF InputSeen
<1>5. CASE pc'["ip"] = pc["ip"] /\ inq' = inq /\ msg' \in {msg, TRUE}
  BY <1>5 DEF InputSeen
<1>6. CASE \E p \in Procs : Blocks(p)
  BY <1>5, <1>6 DEF Blocks
<1>7. CASE Netproc
  <2>1. CASE NetwriteRest("net")
    <3>1. inq' = inq /\ msg' = msg /\ (pc' = pc \/ \E l : pc' = [pc EXCEPT !["net"] = l])
      BY <2>1 DEF NetwriteRest, Arpdq, Filled, Arpsend, NwQueue, Goto
    <3> QED  BY <1>1, <1>5, <3>1
  <2>2. CASE ArpqWrite
    <3>1. inq' = inq /\ msg' = msg /\ \E l : pc' = [pc EXCEPT !["net"] = l]
      BY <2>2 DEF ArpqWrite, Netwrite, NwResolved, NwPending, NwAsk, Alloc, Goto
    <3> QED  BY <1>1, <1>5, <3>1
  <2>3. CASE \E a \in ArpSenders :
                ArpNotOurs(a) \/ \E req \in BOOLEAN : ArpNew(a, req) \/ ArpKnown(a, req)
    <3>1. inq' = inq /\ msg' = msg /\ \E l : pc' = [pc EXCEPT !["net"] = l]
      BY <2>3 DEF ArpNotOurs, ArpNew, ArpKnown, Alloc, Goto
    <3> QED  BY <1>1, <1>5, <3>1
  <2>4. CASE ReadFails \/ IpInDiscard \/ RarpIn \/ NetGetbuf \/ ArpqEmpty \/ ArpqDeq \/ ArpEnd
    <3>1. inq' = inq /\ msg' = msg /\ \E l : pc' = [pc EXCEPT !["net"] = l]
      BY <2>4 DEF ReadFails, IpInDiscard, RarpIn, NetGetbuf, ArpqEmpty, ArpqDeq, ArpEnd, Goto
    <3> QED  BY <1>1, <1>5, <3>1
  <2> QED  BY <1>1, <1>2, <1>6, <1>7, <2>1, <2>2, <2>3, <2>4 DEF Netproc, NetSteps
<1>8. CASE Ipproc
  <2>1. CASE Begin("ip", "get") \/ IpFree \/ IpAnswer \/ IpDeliver \/ IpFragment \/ Ipfsend \/ FragBad
    <3>1. \E l \in {"get", "frag", "fwrite"} : pc' = [pc EXCEPT !["ip"] = l]
      BY <2>1 DEF Begin, IpFree, IpAnswer, IpDeliver, IpFragment, Ipfsend, FragBad, Goto
    <3> QED  BY <1>4, <3>1 DEF Spots
  <2>2. CASE IpPanic
    BY <1>5, <2>2 DEF IpPanic
  <2>3. CASE IpForward \/ IpfsendWrite \/ FragLast
    <3>1. \E l \in {"get", "frag", "fragbad", "dq", "alloc"} : pc' = [pc EXCEPT !["ip"] = l]
      BY <2>3 DEF IpForward, IpfsendWrite, FragLast, Goto, Netwrite, NwResolved, NwPending,
         NwAsk, Alloc, NwBroadcast, NwClassD
    <3> QED  BY <1>4, <3>1 DEF Spots
  <2>4. CASE NetwriteRest("ip")
    <3>1. /\ inq' = inq /\ msg' = msg
          /\ pc' = pc \/ \E l \in {"arpend", "ask", "queue", at["ip"].ok} : pc' = [pc EXCEPT !["ip"] = l]
      BY <2>4 DEF NetwriteRest, Arpdq, Filled, Arpsend, NwQueue, Goto
    <3>2. at["ip"].ok # "recv" /\ at["ip"].ok \in Spots
      BY DEF NetInv, Memory, AtT, Spots
    <3> QED  BY <1>4, <1>5, <3>1, <3>2 DEF Spots
  <2> QED  BY <1>1, <1>3, <1>6, <1>8, <2>1, <2>2, <2>3, <2>4 DEF Ipproc
<1>9. CASE Netstart \/ Slowtimer \/ HolderFrees \/ UNCHANGED vars
  <2>1. inq' = inq /\ msg' = msg
    BY <1>9 DEF Netstart, NetupNif, NetupRt, Create, WaitSema, StartNet, Slowtimer, Begin,
       SlowTick, Arptimer, Arpdq, GivenUp, Arpsend, Blocks, ArptimerEnd, HolderFrees, vars
  <2>2. pc'["ip"] = pc["ip"] \/ pc'["ip"] = "born"
    <3>1. CASE NetupNif \/ NetupRt \/ StartNet \/ WaitSema("waitip", "slow") \/ WaitSema("waitslow", "gath")
      BY <1>1, <3>1 DEF NetupNif, NetupRt, StartNet, WaitSema, Goto
    <3>2. CASE Create("ip", "waitip") \/ Create("slow", "waitslow")
      BY <1>1, <3>2 DEF Create
    <3>3. CASE Slowtimer
      <4>1. pc' = pc \/ \E l : pc' = [pc EXCEPT !["slow"] = l]
        BY <3>3 DEF Slowtimer, Begin, SlowTick, Arptimer, Arpdq, GivenUp, Arpsend, Blocks, ArptimerEnd, Goto
      <4> QED  BY <1>1, <4>1
    <3>4. CASE HolderFrees \/ UNCHANGED vars
      BY <3>4 DEF HolderFrees, vars
    <3> QED  BY <1>9, <3>1, <3>2, <3>3, <3>4 DEF Netstart
  <2> QED  BY <2>1, <2>2 DEF InputSeen
<1> QED  BY <1>7, <1>8, <1>9 DEF Next

\* A packet that waits in the input queue while ipproc waits in receive has
\* left a message.
THEOREM InputSeenCorrect == Spec => []InputSeen
<1>1. Init => InputSeen
  BY DEF Init, InputSeen, Procs
<1>2. NetInv /\ InputSeen /\ [Next]_vars => InputSeen'
  BY Seen
<1> QED  BY <1>1, <1>2, NetInvariant, PTL DEF Spec
=============================================================================

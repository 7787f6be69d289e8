------------------------------ MODULE IpProof -------------------------------
(***************************************************************************)
(* Reassembly for every set of datagrams, every cut of them, every size of *)
(* the table and of the pools: no buffer is lost, what ipreass() returns   *)
(* is what was cut, and the fragment that completes a datagram joins it.   *)
(*                                                                         *)
(* The queue of a slot holds fragments of one datagram in the order of     *)
(* their offsets, perhaps several times (SlotOK).  In such a queue a gap   *)
(* that ipfjoin() sees is a fragment that has not come, and without a gap  *)
(* each fragment adds to the copy exactly what lies behind its end.        *)
(*                                                                         *)
(* Below, the routing table for every width of addresses, every mask and   *)
(* every number of chains and routes: rt_refcnt counts who can reach a     *)
(* route, RIP announces every change, and chains, buffers and counts       *)
(* implement the map of routes of RouteMap.                                *)
(***************************************************************************)
EXTENDS IpReass, RtRip, QueueFacts

SlotT == [state : {"FREE", "VALID", "BOGUS"}, dg : Datagrams \cup {NoDatagram}, ttl : 0..IP_FTTL,
          q : Seq(AllFragments), seen : {NONE}]

\* Fragments of d in the order of their offsets.
InOrderOf(d, q) ==
    /\ \A j \in 1..Len(q) : q[j] \in Fragments(d)
    /\ \A i, j \in 1..Len(q) : i <= j => q[i].off <= q[j].off

SlotOK(s) ==
    /\ s \in SlotT /\ Len(s.q) <= IP_FQSIZE
    /\ s.state # "VALID" => s.q = <<>>
    /\ s.state = "VALID" => s.q # <<>> /\ s.dg \in Datagrams /\ InOrderOf(s.dg, s.q)

\* A fragment of the slot's datagram has not come.
Lacks(s) == \E f \in Fragments(s.dg) : \A j \in 1..Len(s.q) : s.q[j] # f

\* ipproc and slowtimer are in ipfmutex's line when they work on the table;
\* ipproc, when it waits for a large buffer, at its head.
Lines == {<<>>, <<"ipproc">>, <<"slowtimer">>, <<"ipproc", "slowtimer">>, <<"slowtimer", "ipproc">>}
Mutex ==
    /\ mutex \in Lines
    /\ ipc \in {"ipgetp", "ipreass", "getbuf"} /\ tpc \in {"sleep", "ipftimer"}
    /\ ipc = "ipgetp" <=> mutex \in {<<>>, <<"slowtimer">>}
    /\ tpc = "sleep" <=> mutex \in {<<>>, <<"ipproc">>}
    /\ ipc = "getbuf" => mutex \in {<<"ipproc">>, <<"ipproc", "slowtimer">>}

Counters ==
    /\ tidx \in 0..IP_FQSIZE /\ gran \in Nat \ {0}
    /\ netfree \in Nat /\ lrgfree \in Nat /\ upnet \in Nat /\ uplrg \in Nat /\ written \in Nat

\* What ipproc has in hand: a fragment, or the slot of a whole datagram.
InHand ==
    /\ frag \in AllFragments \cup {NoFragment} /\ islot \in Slots \cup {NONE}
    /\ ipc = "ipreass" => frag \in AllFragments
    /\ ipc = "getbuf" => /\ islot \in Slots /\ ipfqt[islot].state = "VALID"
                         /\ ~HasGap(ipfqt[islot].q) /\ ~Last(ipfqt[islot].q).mf
    /\ ipc # "getbuf" => islot = NONE

Table ==
    /\ ipfqt \in [Slots -> SlotT]
    /\ \A i \in Slots : SlotOK(ipfqt[i])

Waiting == \A i \in Slots : ipfqt[i].state = "VALID" /\ i # islot => Lacks(ipfqt[i])

Count ==
    /\ netfree + Queued + upnet + written + (IF ipc = "ipreass" THEN 1 ELSE 0) = NETBUFS
    /\ lrgfree + uplrg = LRGBUFS

ReassInv == Mutex /\ Counters /\ InHand /\ Table /\ Waiting /\ Count /\ WholeDatagram

-----------------------------------------------------------------------------
LEMMA Sizes ==
    /\ IP_FQSIZE \in Nat /\ IP_FQSIZE > 0 /\ IP_FTTL \in Nat /\ IP_FTTL > 0 /\ MAXLRGBUF \in Nat
    /\ NETBUFS \in Nat /\ LRGBUFS \in Nat /\ MaxGran \in Nat /\ MaxGran > 0
    /\ NONE \notin Slots /\ \A i \in Slots : i \in Nat
  BY ReassAssumption DEF Slots, NONE

-----------------------------------------------------------------------------
(* How a datagram is cut.                                                  *)

\* What a fragment says of itself.
LEMMA FragmentFields ==
    ASSUME NEW d \in Datagrams, NEW f \in Fragments(d)
    PROVE  /\ Size[d] \in Nat /\ Size[d] > 0 /\ Cut[d] \in Nat /\ Cut[d] > 0
           /\ f.dg = d /\ f.off \in Nat /\ f.len \in Nat /\ f.off < Size[d] /\ f.mf \in BOOLEAN
           /\ f.mf <=> f.off + Cut[d] < Size[d]
           /\ f.len = IF f.off + Cut[d] <= Size[d] THEN Cut[d] ELSE Size[d] - f.off
           /\ End(f) \in Nat
           /\ End(f) = IF f.off + Cut[d] <= Size[d] THEN f.off + Cut[d] ELSE Size[d]
<1>1. Size[d] \in Nat /\ Size[d] > 0 /\ Cut[d] \in Nat /\ Cut[d] > 0
  BY ReassAssumption
<1> DEFINE K == (Size[d] - 1) \div Cut[d]
<1>2. PICK k \in 0..K :
        f = [dg |-> d, off |-> Cut[d] * k,
             len |-> IF Cut[d] * k + Cut[d] <= Size[d] THEN Cut[d] ELSE Size[d] - Cut[d] * k,
             mf |-> Cut[d] * k + Cut[d] < Size[d]]
  BY DEF Fragments
<1>3. /\ f.dg = d /\ f.off = Cut[d] * k /\ f.mf = (Cut[d] * k + Cut[d] < Size[d])
      /\ f.len = IF Cut[d] * k + Cut[d] <= Size[d] THEN Cut[d] ELSE Size[d] - Cut[d] * k
  BY <1>2
<1>4. Cut[d] * k \in Nat /\ Cut[d] * k < Size[d]
  <2> DEFINE n == Size[d] - 1
             c == Cut[d]
  <2>1. n \in Nat /\ c \in Nat /\ c > 0
    BY <1>1
  <2>2. k \in Nat /\ k <= n \div c
    OBVIOUS
  <2> HIDE DEF n, c
  <2>3. n \div c \in Nat /\ c * (n \div c) <= n
    BY <2>1
  <2>4. c * k <= c * (n \div c) /\ c * k \in Nat
    BY <2>1, <2>2, <2>3
  <2>5. c * k <= n
    BY <2>1, <2>3, <2>4
  <2> QED  BY <1>1, <2>4, <2>5 DEF n, c
<1>5. PICK o \in Nat : o = Cut[d] * k
  BY <1>4
<1>6. f.off = o /\ f.off < Size[d] /\ f.mf \in BOOLEAN
  BY <1>3, <1>4, <1>5
<1>7. f.mf <=> f.off + Cut[d] < Size[d]
  BY <1>3, <1>5
<1>8. f.len = IF f.off + Cut[d] <= Size[d] THEN Cut[d] ELSE Size[d] - f.off
  BY <1>3, <1>5
<1>9. f.len \in Nat /\ End(f) \in Nat
      /\ End(f) = IF f.off + Cut[d] <= Size[d] THEN f.off + Cut[d] ELSE Size[d]
  BY <1>1, <1>6, <1>8 DEF End
<1> QED  BY <1>1, <1>3, <1>6, <1>7, <1>8, <1>9

\* There is a piece at every multiple of the cut before the end.
LEMMA PieceAt ==
    ASSUME NEW d \in Datagrams, NEW k \in Nat, Cut[d] * k < Size[d]
    PROVE  \E f \in Fragments(d) : f.off = Cut[d] * k
<1>1. Size[d] \in Nat /\ Size[d] > 0 /\ Cut[d] \in Nat /\ Cut[d] > 0
  BY ReassAssumption
<1>2. k <= (Size[d] - 1) \div Cut[d] /\ (Size[d] - 1) \div Cut[d] \in Nat
  <2> DEFINE n == Size[d] - 1
             c == Cut[d]
             K == n \div c
  <2>1. n \in Nat /\ c \in Nat /\ c > 0 /\ c * k <= n
    BY <1>1
  <2> HIDE DEF n, c
  <2>2. K \in Nat /\ n < c * K + c
    BY <2>1
  <2> HIDE DEF K
  <2>3. ASSUME K < k PROVE FALSE
    <3>1. PICK e \in Nat : k = K + 1 + e
      <4>1. k - K - 1 \in Nat
        BY <2>2, <2>3
      <4> QED  BY <2>2, <4>1
    <3>2. c * k = c * K + c + c * e /\ c * e \in Nat /\ c * K \in Nat
      BY <2>1, <2>2, <3>1
    <3> QED  BY <2>1, <2>2, <3>2
  <2> QED  BY <2>2, <2>3 DEF K, n, c
<1> DEFINE o == Cut[d] * k
           f == [dg |-> d, off |-> o, len |-> IF o + Cut[d] <= Size[d] THEN Cut[d] ELSE Size[d] - o,
                 mf |-> o + Cut[d] < Size[d]]
<1>3. k \in 0..((Size[d] - 1) \div Cut[d])
  BY <1>2
<1>4. f \in Fragments(d)
  BY <1>3 DEF Fragments
<1>5. f.off = o
  OBVIOUS
<1> QED  BY <1>4, <1>5

\* The first piece, the piece behind another, and the last one.
LEMMA FirstPiece == ASSUME NEW d \in Datagrams PROVE \E f \in Fragments(d) : f.off = 0
<1>1. Cut[d] * 0 = 0 /\ 0 < Size[d]
  BY ReassAssumption
<1> QED  BY <1>1, PieceAt

LEMMA NextPiece ==
    ASSUME NEW d \in Datagrams, NEW f \in Fragments(d), f.mf
    PROVE  \E g \in Fragments(d) : g.off = End(f)
<1>1. /\ Size[d] \in Nat /\ Cut[d] \in Nat /\ f.off \in Nat
      /\ f.off + Cut[d] < Size[d] /\ End(f) = f.off + Cut[d]
  BY FragmentFields
<1>2. PICK k \in Nat : f.off = Cut[d] * k
  <2>1. (Size[d] - 1) \div Cut[d] \in Nat
    BY ReassAssumption
  <2> QED  BY <2>1 DEF Fragments
<1>3. Cut[d] * (k + 1) = End(f) /\ k + 1 \in Nat
  <2>1. PICK c \in Nat : c = Cut[d]
    BY <1>1
  <2>2. c * (k + 1) = c * k + c
    OBVIOUS
  <2> QED  BY <1>1, <1>2, <2>1, <2>2
<1> QED  BY <1>1, <1>3, PieceAt

LEMMA LastPiece == ASSUME NEW d \in Datagrams PROVE \E f \in Fragments(d) : ~f.mf
<1>1. Size[d] \in Nat /\ Size[d] > 0 /\ Cut[d] \in Nat /\ Cut[d] > 0
  BY ReassAssumption
<1> DEFINE n == Size[d] - 1
           c == Cut[d]
           K == n \div c
<1>2. n \in Nat /\ c \in Nat /\ c > 0
  BY <1>1
<1> HIDE DEF n, c
<1>3. K \in Nat /\ c * K <= n /\ n < c * K + c
  BY <1>2
<1> HIDE DEF K
<1>4. Cut[d] * K < Size[d] /\ Size[d] <= Cut[d] * K + Cut[d] /\ Cut[d] * K \in Nat
  BY <1>1, <1>2, <1>3 DEF n, c
<1>5. PICK f \in Fragments(d) : f.off = Cut[d] * K
  BY <1>3, <1>4, PieceAt
<1>6. f.mf <=> f.off + Cut[d] < Size[d]
  BY FragmentFields
<1> QED  BY <1>1, <1>4, <1>5, <1>6

LEMMA Fragment ==
    /\ \A d \in Datagrams : \A f \in Fragments(d) : f \in AllFragments
    /\ \A f \in AllFragments : f.dg \in Datagrams /\ f \in Fragments(f.dg)
<1>1. ASSUME NEW f \in AllFragments PROVE f.dg \in Datagrams /\ f \in Fragments(f.dg)
  <2>1. PICK d \in Datagrams : f \in Fragments(d)
    BY DEF AllFragments
  <2>2. f.dg = d
    BY <2>1, FragmentFields
  <2> QED  BY <2>1, <2>2
<1> QED  BY <1>1 DEF AllFragments

-----------------------------------------------------------------------------
(* The queue of a slot.                                                    *)

\* Between calls the cursor of seeq() is at the start: it shows all.
LEMMA SeenAll ==
    ASSUME NEW s, s.seen = NONE, s.q \in Seq(AllFragments)
    PROVE  Seen(s) = s.q
<1>1. PICK q \in Seq(AllFragments) : q = s.q
  OBVIOUS
<1>2. Len(q) \in Nat
  OBVIOUS
<1>3. /\ SubSeq(q, 1, Len(q)) \in Seq(AllFragments) /\ Len(SubSeq(q, 1, Len(q))) = Len(q)
      /\ \A j \in 1..Len(q) : SubSeq(q, 1, Len(q))[j] = q[j]
  <2>1. 1 \in 1..(Len(q) + 1) /\ Len(q) \in 0..Len(q) /\ 1 <= Len(q) + 1
    BY <1>2
  <2>2. /\ SubSeq(q, 1, Len(q)) \in Seq(AllFragments) /\ Len(SubSeq(q, 1, Len(q))) = Len(q) - 1 + 1
        /\ \A j \in 1..(Len(q) - 1 + 1) : SubSeq(q, 1, Len(q))[j] = q[1 + j - 1]
    BY <2>1, SubSeqElements
  <2> QED  BY <1>2, <2>2
<1>4. SubSeq(q, 1, Len(q)) = q
  BY <1>3, SeqEqual
<1>5. s.seen + 2 = 1
  BY DEF NONE
<1> QED  BY <1>1, <1>4, <1>5 DEF Seen

\* enq() puts a fragment where it belongs.
LEMMA EnqOrder ==
    ASSUME NEW d \in Datagrams, NEW q \in Seq(AllFragments), InOrderOf(d, q), NEW f \in Fragments(d)
    PROVE  /\ Enq(q, f) \in Seq(AllFragments) /\ Len(Enq(q, f)) = Len(q) + 1
           /\ InOrderOf(d, Enq(q, f))
<1>1. Len(q) \in Nat /\ f \in AllFragments /\ f.off \in Nat
  BY Fragment, FragmentFields
<1>2. \A j \in 1..Len(q) : q[j] \in Fragments(d) /\ q[j].off \in Nat
  BY FragmentFields DEF InOrderOf
<1>3. PICK p \in 0..Len(q) : /\ Cardinality({j \in DOMAIN q : q[j].off <= f.off}) = p
                             /\ \A j \in 1..Len(q) : j <= p <=> q[j].off <= f.off
  <2> DEFINE h == [j \in 1..Len(q) |-> q[j].off]
  <2>1. h \in [1..Len(q) -> Int] /\ \A j \in 1..Len(q) : h[j] = q[j].off
    BY <1>2
  <2> HIDE DEF h
  <2>2. \A i, j \in 1..Len(q) : i <= j => h[i] <= h[j]
    BY <2>1 DEF InOrderOf
  <2>3. PICK p \in 0..Len(q) : /\ Cardinality({j \in 1..Len(q) : h[j] <= f.off}) = p
                               /\ \A j \in 1..Len(q) : j <= p <=> h[j] <= f.off
    <3>1. PICK n \in Nat, t \in Int : n = Len(q) /\ t = f.off
      BY <1>1
    <3>2. h \in [1..n -> Int] /\ \A i, j \in 1..n : i <= j => h[i] <= h[j]
      BY <2>1, <2>2, <3>1
    <3>3. \E p \in 0..n : /\ Cardinality({j \in 1..n : h[j] <= t}) = p
                          /\ \A j \in 1..n : j <= p <=> h[j] <= t
      BY <3>2, SortedPrefix
    <3> QED  BY <3>1, <3>3
  <2>4. {j \in DOMAIN q : q[j].off <= f.off} = {j \in 1..Len(q) : h[j] <= f.off}
    BY <2>1
  <2>5. \A j \in 1..Len(q) : j <= p <=> q[j].off <= f.off
    BY <2>1, <2>3
  <2> QED  BY <2>3, <2>4, <2>5
<1>4. p > 0 => p \in 1..Len(q) /\ q[p].off <= f.off
  BY <1>1, <1>3
<1>5. \A j \in 1..Len(q) : j > p => q[j].off > f.off
  BY <1>1, <1>2, <1>3
<1> DEFINE r == InsertAt(q, p + 1, f)
<1>6. Enq(q, f) = r
  BY <1>3 DEF Enq
<1>7. r \in Seq(AllFragments) /\ Inserted(r, q, p, f)
  BY <1>1, InsertAtPlace
<1> HIDE DEF r
<1>8. Len(r) = Len(q) + 1
  BY <1>7 DEF Inserted
<1>9. ASSUME NEW j \in 1..Len(r)
      PROVE  \/ j <= p /\ j \in 1..Len(q) /\ r[j] = q[j]
             \/ j = p + 1 /\ r[j] = f
             \/ j > p + 1 /\ j - 1 \in 1..Len(q) /\ r[j] = q[j - 1]
  BY <1>7 DEF Inserted
<1>10. \A j \in 1..Len(r) : r[j] \in Fragments(d)
  BY <1>2, <1>9
<1>11. ASSUME NEW i \in 1..Len(r), NEW j \in 1..Len(r), i <= j PROVE r[i].off <= r[j].off
  <2>1. \A a, b \in 1..Len(q) : a <= b => q[a].off <= q[b].off
    BY DEF InOrderOf
  <2>2. CASE i <= p
    <3>1. i \in 1..Len(q) /\ r[i] = q[i] /\ p \in 1..Len(q) /\ q[i].off <= f.off
      <4>1. i \in 1..Len(q) /\ r[i] = q[i] /\ p \in 1..Len(q)
        BY <1>1, <1>4, <1>9, <2>2
      <4>2. q[i].off <= q[p].off /\ q[p].off <= f.off
        BY <1>4, <2>1, <2>2, <4>1
      <4> QED  BY <1>1, <1>2, <4>1, <4>2
    <3>2. CASE j <= p
      BY <1>9, <1>11, <2>1, <3>1, <3>2
    <3>3. CASE j = p + 1
      BY <1>9, <3>1, <3>3
    <3>4. CASE j > p + 1
      <4>1. j - 1 \in 1..Len(q) /\ r[j] = q[j - 1]
        BY <1>4, <1>9, <3>4
      <4>2. i <= j - 1
        BY <1>4, <2>2, <3>4
      <4> QED  BY <2>1, <3>1, <4>1, <4>2
    <3> QED  BY <1>4, <3>2, <3>3, <3>4
  <2>3. CASE i = p + 1
    <3>1. CASE j = p + 1
      BY <1>1, <1>9, <2>3, <3>1
    <3>2. CASE j > p + 1
      <4>1. j - 1 \in 1..Len(q) /\ r[j] = q[j - 1] /\ j - 1 > p
        BY <1>4, <1>9, <3>2
      <4>2. q[j - 1].off > f.off /\ q[j - 1].off \in Nat
        BY <1>2, <1>5, <4>1
      <4> QED  BY <1>1, <1>9, <2>3, <4>1, <4>2
    <3> QED  BY <1>4, <1>11, <2>3, <3>1, <3>2
  <2>4. CASE i > p + 1
    <3>1. i - 1 \in 1..Len(q) /\ r[i] = q[i - 1]
      BY <1>4, <1>9, <2>4
    <3>2. j - 1 \in 1..Len(q) /\ r[j] = q[j - 1]
      BY <1>4, <1>9, <1>11, <2>4
    <3> QED  BY <1>11, <2>1, <3>1, <3>2, SMTT(40)
  <2> QED  BY <1>4, <2>2, <2>3, <2>4
<1> QED  BY <1>6, <1>7, <1>8, <1>10, <1>11 DEF InOrderOf

\* A gap is a fragment that has not come: the one that would begin where the
\* joined data ends.
LEMMA GapLacks ==
    ASSUME NEW d \in Datagrams, NEW q \in Seq(AllFragments), InOrderOf(d, q), HasGap(q)
    PROVE  \E f \in Fragments(d) : \A j \in 1..Len(q) : q[j] # f
<1>1. Len(q) \in Nat
  OBVIOUS
<1>2. PICK j \in 1..Len(q) : q[j].off > (IF j = 1 THEN 0 ELSE End(q[j - 1]))
  BY DEF HasGap
<1>3. \A i \in 1..Len(q) : q[i] \in Fragments(d)
  BY DEF InOrderOf
<1>4. \A a, b \in 1..Len(q) : a <= b => q[a].off <= q[b].off
  BY DEF InOrderOf
<1>5. q[j].off \in Nat /\ q[j].off < Size[d]
  BY <1>3, FragmentFields
<1>6. CASE j = 1
  <2>1. PICK f \in Fragments(d) : f.off = 0
    BY FirstPiece
  <2>2. ASSUME NEW i \in 1..Len(q) PROVE q[i] # f
    <3>1. q[1].off <= q[i].off /\ q[i].off \in Nat
      BY <1>1, <1>3, <1>4, FragmentFields
    <3> QED  BY <1>2, <1>5, <1>6, <2>1, <3>1
  <2> QED  BY <2>2
<1>7. CASE j # 1
  <2>1. j - 1 \in 1..Len(q) /\ q[j].off > End(q[j - 1])
    BY <1>1, <1>2, <1>7
  <2>2. PICK g \in Fragments(d) : g = q[j - 1]
    BY <1>3, <2>1
  <2>3. /\ Size[d] \in Nat /\ Cut[d] \in Nat /\ Cut[d] > 0 /\ g.off \in Nat /\ g.off < Size[d]
        /\ g.mf <=> g.off + Cut[d] < Size[d]
        /\ End(g) \in Nat
        /\ End(g) = IF g.off + Cut[d] <= Size[d] THEN g.off + Cut[d] ELSE Size[d]
    BY FragmentFields
  <2>4. g.mf /\ g.off < End(g) /\ End(g) < q[j].off
    BY <1>5, <2>1, <2>2, <2>3
  <2>5. PICK f \in Fragments(d) : f.off = End(g)
    BY <2>4, NextPiece
  <2>6. ASSUME NEW i \in 1..Len(q) PROVE q[i] # f
    <3>1. q[i].off \in Nat
      BY <1>3, FragmentFields
    <3>2. CASE i <= j - 1
      <4>1. q[i].off <= g.off
        BY <1>4, <2>1, <2>2, <3>2
      <4> QED  BY <2>3, <2>4, <2>5, <3>1, <4>1
    <3>3. CASE i >= j
      <4>1. q[j].off <= q[i].off
        BY <1>4, <3>3
      <4> QED  BY <1>5, <2>3, <2>4, <2>5, <3>1, <4>1
    <3> QED  BY <3>2, <3>3
  <2> QED  BY <2>6
<1> QED  BY <1>6, <1>7

\* Behind a fragment with IP_MF set there is one that has not come.
LEMMA MoreLacks ==
    ASSUME NEW d \in Datagrams, NEW q \in Seq(AllFragments), InOrderOf(d, q), q # <<>>, Last(q).mf
    PROVE  \E f \in Fragments(d) : \A j \in 1..Len(q) : q[j] # f
<1>1. Len(q) \in Nat /\ Len(q) > 0 /\ Len(q) \in 1..Len(q)
  OBVIOUS
<1>2. PICK g \in Fragments(d) : g = q[Len(q)]
  BY <1>1 DEF InOrderOf
<1>3. g.mf
  BY <1>2 DEF Last
<1>4. PICK f \in Fragments(d) : ~f.mf
  BY LastPiece
<1>5. /\ g.off \in Nat /\ f.off \in Nat /\ Size[d] \in Nat /\ Cut[d] \in Nat
      /\ g.off + Cut[d] < Size[d] /\ ~(f.off + Cut[d] < Size[d])
  BY <1>3, <1>4, FragmentFields
<1>6. ASSUME NEW j \in 1..Len(q) PROVE q[j] # f
  <2>1. q[j].off <= g.off
    BY <1>1, <1>2 DEF InOrderOf
  <2>2. q[j].off \in Nat
    BY FragmentFields DEF InOrderOf
  <2> QED  BY <1>5, <2>1, <2>2
<1> QED  BY <1>6

\* A fragment, as opposed to a whole datagram, is not alone.
LEMMA OneLacks ==
    ASSUME NEW d \in Datagrams, NEW f \in Fragments(d), f.off # 0 \/ f.mf
    PROVE  \E g \in Fragments(d) : g # f
<1>1. PICK g \in Fragments(d) : g.off = 0
  BY FirstPiece
<1>2. PICK h \in Fragments(d) : ~h.mf
  BY LastPiece
<1> QED  BY <1>1, <1>2

-----------------------------------------------------------------------------
(* ipfcons().                                                              *)

\* The data up to unit n of a datagram.
UpTo(n) == [k \in 1..n |-> k - 1]

\* A fragment that begins at or before the end of the copy, and ends at or
\* behind it, extends it to its own end.
LEMMA CopyMore ==
    ASSUME NEW n \in Nat, NEW d \in Datagrams, NEW f \in Fragments(d), f.off <= n, n <= End(f)
    PROVE  UpTo(n) \o Copied(f, n - f.off, f.len - (n - f.off)) = UpTo(End(f))
<1>1. PICK o \in Nat, l \in Nat : o = f.off /\ l = f.len /\ End(f) = o + l
  BY FragmentFields DEF End
<1>2. PICK m \in Nat : m = l - (n - o)
  <2>1. l - (n - o) \in Nat
    BY <1>1
  <2> QED  BY <2>1
<1> DEFINE c == [k \in 1..m |-> IF (n - o) + k \in 1..l THEN o + (n - o) + k - 1 ELSE NONE]
<1>3. Copied(f, n - f.off, f.len - (n - f.off)) = c
  BY <1>1, <1>2 DEF Copied
<1>4. c = [k \in 1..m |-> n + k - 1]
  <2>1. ASSUME NEW k \in 1..m
        PROVE  (n - o) + k \in 1..l /\ o + (n - o) + k - 1 = n + k - 1
    BY <1>1, <1>2
  <2> QED  BY <2>1
<1>5. c \in Seq(Int) /\ Len(c) = m /\ \A k \in 1..m : c[k] = n + k - 1
  <2> HIDE DEF c
  <2> QED  BY <1>4
<1>6. UpTo(n) \in Seq(Int) /\ Len(UpTo(n)) = n /\ \A k \in 1..n : UpTo(n)[k] = k - 1
  BY DEF UpTo
<1> DEFINE u == UpTo(n) \o c
           w == UpTo(n + m)
<1>7. w \in Seq(Int) /\ Len(w) = n + m /\ \A k \in 1..(n + m) : w[k] = k - 1
  BY DEF UpTo
<1> HIDE DEF c, w
<1>8. /\ u \in Seq(Int) /\ Len(u) = n + m
      /\ \A k \in 1..n : u[k] = k - 1
      /\ \A k \in 1..m : u[n + k] = n + k - 1
  <2>1. PICK a \in Seq(Int) : a = UpTo(n)
    BY <1>6
  <2>2. Len(a) = n /\ \A k \in 1..n : a[k] = k - 1
    BY <1>6, <2>1
  <2>3. /\ a \o c \in Seq(Int) /\ Len(a \o c) = Len(a) + Len(c)
        /\ \A k \in 1..Len(a) : (a \o c)[k] = a[k]
        /\ \A k \in 1..Len(c) : (a \o c)[Len(a) + k] = c[k]
    <3>1. PICK b \in Seq(Int) : b = c
      BY <1>5
    <3>2. /\ a \o b \in Seq(Int) /\ Len(a \o b) = Len(a) + Len(b)
          /\ \A k \in 1..Len(a) : (a \o b)[k] = a[k]
          /\ \A k \in 1..Len(b) : (a \o b)[Len(a) + k] = b[k]
      BY ConcatElements
    <3> QED  BY <3>1, <3>2
  <2>4. u = a \o c
    BY <2>1
  <2> HIDE DEF u
  <2> QED  BY <1>5, <2>2, <2>3, <2>4
<1> HIDE DEF u
<1>9. ASSUME NEW k \in 1..(n + m) PROVE u[k] = w[k]
  <2>1. CASE k <= n
    BY <1>7, <1>8, <2>1
  <2>2. CASE k > n
    <3>1. PICK e \in 1..m : k = n + e
      <4>1. k - n \in 1..m /\ k = n + (k - n)
        BY <2>2
      <4> QED  BY <4>1
    <3>2. u[n + e] = n + e - 1
      BY <1>8
    <3>3. w[k] = k - 1
      BY <1>7
    <3> QED  BY <3>1, <3>2, <3>3
  <2> QED  BY <2>1, <2>2
<1>10. u = w
  BY <1>7, <1>8, <1>9, SeqEqual
<1>11. n + m = End(f)
  BY <1>1, <1>2
<1> QED  BY <1>3, <1>10, <1>11 DEF u, w

\* What ipfcons() makes of a queue without gap: all the data, in order.
LEMMA WholeData ==
    ASSUME NEW d \in Datagrams, NEW q \in Seq(AllFragments), InOrderOf(d, q), q # <<>>,
           ~HasGap(q), ~Last(q).mf
    PROVE  Constructed(q) = UpTo(Size[d])
<1> DEFINE Step(x, j) == x \o Copied(q[j], Len(x) - q[j].off, q[j].len - (Len(x) - q[j].off))
           E(j) == IF j = 0 THEN 0 ELSE End(q[j])
           g == [j \in 0..Len(q) |-> UpTo(E(j))]
           Is(f) == f = [j \in 0..Len(q) |-> IF j = 0 THEN <<>> ELSE Step(f[j - 1], j)]
<1>1. Len(q) \in Nat /\ Len(q) > 0
  OBVIOUS
<1>2. \A j \in 1..Len(q) : q[j] \in Fragments(d)
  BY DEF InOrderOf
<1>3. \A j \in 0..Len(q) : E(j) \in Nat
  BY <1>2, FragmentFields
<1>4. ASSUME NEW j \in 1..Len(q) PROVE j - 1 \in 0..Len(q) /\ q[j].off <= E(j - 1) /\ E(j - 1) <= E(j)
  <2>1. j - 1 \in 0..Len(q) /\ q[j].off \in Nat /\ E(j - 1) \in Nat /\ End(q[j]) \in Nat /\ j # 0
    BY <1>1, <1>2, <1>3, FragmentFields
  <2>2. q[j].off <= E(j - 1)
    <3>1. ~(q[j].off > (IF j = 1 THEN 0 ELSE End(q[j - 1])))
      BY DEF HasGap
    <3> QED  BY <2>1, <3>1
  <2>3. E(j - 1) <= E(j)
    <3>1. CASE j = 1
      BY <2>1, <3>1
    <3>2. CASE j # 1
      <4>1. j - 1 \in 1..Len(q) /\ j - 1 <= j
        BY <3>2
      <4>2. q[j - 1].off <= q[j].off
        BY <4>1 DEF InOrderOf
      <4>3. PICK a \in Fragments(d), b \in Fragments(d) : a = q[j - 1] /\ b = q[j]
        BY <1>2, <4>1
      <4>4. End(a) <= End(b)
        <5>1. /\ Size[d] \in Nat /\ Cut[d] \in Nat /\ a.off \in Nat /\ b.off \in Nat /\ a.off < Size[d]
              /\ End(a) = IF a.off + Cut[d] <= Size[d] THEN a.off + Cut[d] ELSE Size[d]
              /\ End(b) = IF b.off + Cut[d] <= Size[d] THEN b.off + Cut[d] ELSE Size[d]
          BY FragmentFields
        <5> QED  BY <4>2, <4>3, <5>1
      <4> QED  BY <2>1, <3>2, <4>3, <4>4
    <3> QED  BY <3>1, <3>2
  <2> QED  BY <2>1, <2>2, <2>3
<1>5. ASSUME NEW n \in Nat PROVE Len(UpTo(n)) = n
  BY DEF UpTo
<1>6. ASSUME NEW j \in 1..Len(q) PROVE Step(UpTo(E(j - 1)), j) = UpTo(E(j))
  <2>1. PICK n \in Nat : n = E(j - 1) /\ q[j].off <= n /\ n <= End(q[j])
    <3>1. E(j) = End(q[j])
      OBVIOUS
    <3> HIDE DEF E
    <3> QED  BY <1>3, <1>4, <3>1
  <2>2. UpTo(n) \o Copied(q[j], n - q[j].off, q[j].len - (n - q[j].off)) = UpTo(End(q[j]))
    BY <1>2, <2>1, CopyMore
  <2>3. E(j) = End(q[j])
    OBVIOUS
  <2> HIDE DEF E
  <2> QED  BY <1>5, <2>1, <2>2, <2>3
<1>7. UpTo(E(0)) = <<>>
  BY DEF UpTo
<1>8. ASSUME NEW f, Is(f) PROVE \A j \in 0..Len(q) : f[j] = UpTo(E(j))
  <2> DEFINE Bad == {j \in 0..Len(q) : f[j] # UpTo(E(j))}
  <2>1. SUFFICES ASSUME Bad # {} PROVE FALSE
    OBVIOUS
  <2>2. PICK j \in Bad : \A i \in Bad : j <= i
    <3>1. Bad \in SUBSET Nat
      OBVIOUS
    <3> HIDE DEF Bad
    <3> QED  BY <2>1, <3>1, Smallest
  <2>3. f[j] = IF j = 0 THEN <<>> ELSE Step(f[j - 1], j)
    BY <1>8
  <2>4. j # 0
    BY <1>7, <2>3
  <2>5. j \in 1..Len(q) /\ j - 1 \in 0..Len(q) /\ j - 1 \notin Bad
    BY <2>2, <2>4
  <2>6. f[j - 1] = UpTo(E(j - 1))
    BY <2>5
  <2> HIDE DEF Step
  <2>7. f[j] = UpTo(E(j))
    BY <1>6, <2>3, <2>4, <2>5, <2>6
  <2> QED  BY <2>2, <2>7
<1>9. Is(g)
  <2>1. ASSUME NEW j \in 0..Len(q) PROVE g[j] = IF j = 0 THEN <<>> ELSE Step(g[j - 1], j)
    <3>1. CASE j = 0
      BY <1>7, <3>1
    <3>2. CASE j # 0
      <4>1. j \in 1..Len(q) /\ j - 1 \in 0..Len(q)
        BY <3>2
      <4>2. g[j - 1] = UpTo(E(j - 1)) /\ g[j] = UpTo(E(j))
        BY <4>1
      <4> HIDE DEF g, E, Step
      <4> QED  BY <1>6, <3>2, <4>1, <4>2
    <3> QED  BY <3>1, <3>2
  <2>2. g = [j \in 0..Len(q) |-> g[j]]
    OBVIOUS
  <2> HIDE DEF g, Step
  <2> QED  BY <2>1, <2>2
<1>10. PICK f : Is(f) /\ Constructed(q) = f[Len(q)]
  <2>1. Constructed(q) = (CHOOSE f : Is(f))[Len(q)]
    BY Zenon DEF Constructed
  <2> HIDE DEF Is
  <2> QED  BY <1>9, <2>1
<1>11. Constructed(q) = UpTo(E(Len(q)))
  <2> HIDE DEF Is, E
  <2> QED  BY <1>1, <1>8, <1>10
<1>12. E(Len(q)) = Size[d]
  <2>1. PICK l \in Fragments(d) : l = q[Len(q)]
    BY <1>1, <1>2
  <2>2. ~l.mf
    BY <2>1 DEF Last
  <2>3. End(l) = Size[d]
    <3>1. /\ Size[d] \in Nat /\ Cut[d] \in Nat /\ l.off \in Nat
          /\ l.mf <=> l.off + Cut[d] < Size[d]
          /\ End(l) = IF l.off + Cut[d] <= Size[d] THEN l.off + Cut[d] ELSE Size[d]
      BY FragmentFields
    <3> QED  BY <2>2, <3>1
  <2> QED  BY <1>1, <2>1, <2>3
<1> QED  BY <1>11, <1>12

-----------------------------------------------------------------------------
(* The table.                                                              *)

LEMMA MatchIn == ASSUME Matching # {} PROVE Min(Matching) \in Slots /\ Min(Matching) \in Matching
<1>1. Matching \in SUBSET Nat /\ Matching \subseteq Slots
  BY Sizes DEF Matching
<1> QED  BY <1>1, Smallest

LEMMA FreeIn == ASSUME FreeSlots # {} PROVE Min(FreeSlots) \in Slots /\ Min(FreeSlots) \in FreeSlots
<1>1. FreeSlots \in SUBSET Nat /\ FreeSlots \subseteq Slots
  BY Sizes DEF FreeSlots
<1> QED  BY <1>1, Smallest

LEMMA SlotsFinite == IsFiniteSet(Slots)
<1>1. 0 \in Int /\ IP_FQSIZE - 1 \in Int
  BY Sizes
<1> QED  BY <1>1, FS_Interval DEF Slots

LEMMA SlotFields ==
    ASSUME NEW s, SlotOK(s)
    PROVE  /\ s.q \in Seq(AllFragments) /\ Len(s.q) \in 0..IP_FQSIZE /\ s.seen = NONE
           /\ s.state \in {"FREE", "VALID", "BOGUS"} /\ s.ttl \in 0..IP_FTTL
           /\ s.dg \in Datagrams \cup {NoDatagram}
<1>1. s \in SlotT /\ Len(s.q) <= IP_FQSIZE
  BY DEF SlotOK
<1>2. s.q \in Seq(AllFragments) /\ s.seen = NONE /\ s.state \in {"FREE", "VALID", "BOGUS"}
      /\ s.ttl \in 0..IP_FTTL /\ s.dg \in Datagrams \cup {NoDatagram}
  BY <1>1 DEF SlotT
<1>3. Len(s.q) \in Nat
  BY <1>2
<1> QED  BY <1>1, <1>2, <1>3, Sizes

LEMMA FreeOK == SlotOK(Free) /\ Len(Free.q) = 0 /\ Free.state = "FREE"
<1> DEFINE z == <<>>
<1>1. z \in Seq(AllFragments) /\ Len(z) = 0
  OBVIOUS
<1> HIDE DEF z
<1>2. [state |-> "FREE", dg |-> NoDatagram, ttl |-> 0, q |-> z, seen |-> NONE] \in SlotT
  BY <1>1, Sizes DEF SlotT
<1>3. Free \in SlotT /\ Free.q = z /\ Free.state = "FREE"
  BY <1>2 DEF Free, z
<1>4. z = <<>>
  BY DEF z
<1> QED  BY <1>1, <1>3, <1>4, Sizes DEF SlotOK

\* Whatever is put into one slot, the count follows the length of its queue.
LEMMA PutSlot ==
    ASSUME Table, NEW i \in Slots, NEW s, SlotOK(s), ipfqt' = [ipfqt EXCEPT ![i] = s]
    PROVE  /\ Table' /\ ipfqt'[i] = s /\ \A j \in Slots : j # i => ipfqt'[j] = ipfqt[j]
           /\ Queued \in Nat /\ Queued' = Queued - Len(ipfqt[i].q) + Len(s.q)
<1>1. s \in SlotT
  BY DEF SlotOK
<1>2. ipfqt' \in [Slots -> SlotT] /\ ipfqt'[i] = s /\ \A j \in Slots : j # i => ipfqt'[j] = ipfqt[j]
  BY <1>1 DEF Table
<1>3. \A j \in Slots : SlotOK(ipfqt[j])
  BY DEF Table
<1>4. \A j \in Slots : SlotOK(ipfqt'[j])
  BY <1>2, <1>3
<1> DEFINE l == [j \in Slots |-> Len(ipfqt[j].q)]
           r == [j \in Slots |-> Len(ipfqt'[j].q)]
<1>5. l \in [Slots -> 0..IP_FQSIZE] /\ r \in [Slots -> 0..IP_FQSIZE]
  BY <1>3, <1>4, SlotFields
<1>6. \A j \in Slots : j # i => r[j] = l[j]
  BY <1>2
<1>7. l[i] = Len(ipfqt[i].q) /\ r[i] = Len(s.q)
  BY <1>2
<1>8. Queued = Cardinality(InTable(Slots, IP_FQSIZE, l))
  <2>1. InTable(Slots, IP_FQSIZE, l) = {n \in Slots \X (1..IP_FQSIZE) : n[2] <= Len(ipfqt[n[1]].q)}
    BY DEF InTable
  <2> QED  BY <2>1 DEF Queued
<1>9. Queued' = Cardinality(InTable(Slots, IP_FQSIZE, r))
  <2>1. InTable(Slots, IP_FQSIZE, r) = {n \in Slots \X (1..IP_FQSIZE) : n[2] <= Len(ipfqt'[n[1]].q)}
    BY DEF InTable
  <2> QED  BY <2>1 DEF Queued
<1> HIDE DEF l, r
<1>10. /\ Cardinality(InTable(Slots, IP_FQSIZE, l)) \in Nat
       /\ Cardinality(InTable(Slots, IP_FQSIZE, r)) = Cardinality(InTable(Slots, IP_FQSIZE, l)) - l[i] + r[i]
  BY <1>5, <1>6, Sizes, SlotsFinite, TableCount
<1>11. Table'
  BY <1>2, <1>4 DEF Table
<1> QED  BY <1>2, <1>7, <1>8, <1>9, <1>10, <1>11

LEMMA QueuedNat == Table => Queued \in Nat
<1> DEFINE P == {n \in Slots \X (1..IP_FQSIZE) : n[2] <= Len(ipfqt[n[1]].q)}
<1>1. P \in SUBSET (Slots \X (1..IP_FQSIZE))
  OBVIOUS
<1> HIDE DEF P
<1>2. Cardinality(P) \in Nat
  BY <1>1, Sizes, SlotsFinite, TableFinite
<1> QED  BY <1>2 DEF Queued, P

-----------------------------------------------------------------------------
(* ipfmutex.                                                               *)

\* The lines are different, and this is how they grow and shrink.
LEMMA LineShapes ==
    /\ <<"ipproc">> # <<>> /\ <<"slowtimer">> # <<>> /\ <<"ipproc">> # <<"slowtimer">>
    /\ <<"ipproc", "slowtimer">> \notin {<<>>, <<"ipproc">>, <<"slowtimer">>, <<"slowtimer", "ipproc">>}
    /\ <<"slowtimer", "ipproc">> \notin {<<>>, <<"ipproc">>, <<"slowtimer">>}
    /\ Append(<<"ipproc">>, "slowtimer") = <<"ipproc", "slowtimer">>
    /\ Append(<<"slowtimer">>, "ipproc") = <<"slowtimer", "ipproc">>
    /\ Tail(<<"ipproc", "slowtimer">>) = <<"slowtimer">>
    /\ Tail(<<"slowtimer", "ipproc">>) = <<"ipproc">>
<1> DEFINE P == {"ipproc", "slowtimer"}
<1>1. ASSUME NEW a \in P, NEW b \in P
      PROVE  /\ <<a>> \in Seq(P) /\ Len(<<a>>) = 1 /\ <<a>>[1] = a
             /\ <<a, b>> \in Seq(P) /\ Len(<<a, b>>) = 2 /\ <<a, b>>[1] = a /\ <<a, b>>[2] = b
             /\ Append(<<a>>, b) \in Seq(P) /\ Len(Append(<<a>>, b)) = 2
             /\ Append(<<a>>, b)[1] = a /\ Append(<<a>>, b)[2] = b
  OBVIOUS
<1>2. ASSUME NEW a \in P, NEW b \in P PROVE Append(<<a>>, b) = <<a, b>>
  <2> DEFINE s == Append(<<a>>, b)
             t == <<a, b>>
  <2>1. /\ s \in Seq(P) /\ t \in Seq(P) /\ Len(s) = 2 /\ Len(t) = 2
        /\ s[1] = a /\ s[2] = b /\ t[1] = a /\ t[2] = b
    BY <1>1
  <2> HIDE DEF s, t, P
  <2>2. \A i \in 1..Len(s) : s[i] = t[i]
    BY <2>1
  <2>3. s = t
    BY <2>1, <2>2, SeqEqual
  <2> QED  BY <2>3 DEF s, t
<1>3. "ipproc" \in P /\ "slowtimer" \in P
  OBVIOUS
<1>4. /\ Append(<<"ipproc">>, "slowtimer") = <<"ipproc", "slowtimer">>
      /\ Append(<<"slowtimer">>, "ipproc") = <<"slowtimer", "ipproc">>
  BY <1>2, <1>3
<1>5. /\ <<"ipproc">> # <<>> /\ <<"slowtimer">> # <<>> /\ <<"ipproc">> # <<"slowtimer">>
      /\ <<"ipproc", "slowtimer">> \notin {<<>>, <<"ipproc">>, <<"slowtimer">>, <<"slowtimer", "ipproc">>}
      /\ <<"slowtimer", "ipproc">> \notin {<<>>, <<"ipproc">>, <<"slowtimer">>}
  OBVIOUS
<1> QED  BY <1>4, <1>5

LEMMA LineHead ==
    ASSUME Mutex
    PROVE  /\ Holds("ipproc") <=> mutex \in {<<"ipproc">>, <<"ipproc", "slowtimer">>}
           /\ Holds("slowtimer") <=> mutex \in {<<"slowtimer">>, <<"slowtimer", "ipproc">>}
  BY DEF Mutex, Lines, Holds

LEMMA MutexReturn ==
    ASSUME Mutex, Holds("ipproc"), Return, UNCHANGED tpc
    PROVE  Mutex'
<1>1. mutex = <<"ipproc">> \/ mutex = <<"ipproc", "slowtimer">>
  BY LineHead
<1>2. mutex' = Tail(mutex) /\ ipc' = "ipgetp"
  BY DEF Return, Signal
<1>3. CASE mutex = <<"ipproc">>
  <2>1. mutex' = <<>>
    BY <1>2, <1>3
  <2>2. tpc = "sleep"
    BY <1>3 DEF Mutex
  <2> QED  BY <1>2, <2>1, <2>2 DEF Mutex, Lines
<1>4. CASE mutex = <<"ipproc", "slowtimer">>
  <2>1. mutex' = <<"slowtimer">>
    BY <1>2, <1>4
  <2>2. tpc = "ipftimer"
    BY <1>4 DEF Mutex
  <2> QED  BY <1>2, <2>1, <2>2, LineShapes DEF Mutex, Lines
<1> QED  BY <1>1, <1>3, <1>4

LEMMA MutexArrive ==
    ASSUME Mutex, ipc = "ipgetp", ipc' = "ipreass", Wait("ipproc"), UNCHANGED tpc
    PROVE  Mutex'
<1>1. mutex = <<>> \/ mutex = <<"slowtimer">>
  BY DEF Mutex
<1>2. mutex' = Append(mutex, "ipproc")
  BY DEF Wait
<1>3. CASE mutex = <<>>
  <2>1. mutex' = <<"ipproc">>
    BY <1>2, <1>3
  <2> QED  BY <1>3, <2>1 DEF Mutex, Lines
<1>4. CASE mutex = <<"slowtimer">>
  <2>1. mutex' = <<"slowtimer", "ipproc">>
    BY <1>2, <1>4, LineShapes
  <2> QED  BY <1>4, <2>1 DEF Mutex, Lines
<1> QED  BY <1>1, <1>3, <1>4

LEMMA MutexWake ==
    ASSUME Mutex, tpc = "sleep", tpc' = "ipftimer", Wait("slowtimer"), UNCHANGED ipc
    PROVE  Mutex'
<1>1. mutex = <<>> \/ mutex = <<"ipproc">>
  BY DEF Mutex
<1>2. mutex' = Append(mutex, "slowtimer")
  BY DEF Wait
<1>3. CASE mutex = <<>>
  <2>1. mutex' = <<"slowtimer">>
    BY <1>2, <1>3
  <2> QED  BY <1>3, <2>1 DEF Mutex, Lines
<1>4. CASE mutex = <<"ipproc">>
  <2>1. mutex' = <<"ipproc", "slowtimer">>
    BY <1>2, <1>4, LineShapes
  <2> QED  BY <1>4, <2>1 DEF Mutex, Lines
<1> QED  BY <1>1, <1>3, <1>4

LEMMA MutexDone ==
    ASSUME Mutex, Holds("slowtimer"), tpc' = "sleep", Signal, UNCHANGED ipc
    PROVE  Mutex'
<1>1. mutex = <<"slowtimer">> \/ mutex = <<"slowtimer", "ipproc">>
  BY LineHead
<1>2. mutex' = Tail(mutex)
  BY DEF Signal
<1>3. CASE mutex = <<"slowtimer">>
  <2>1. mutex' = <<>>
    BY <1>2, <1>3
  <2> QED  BY <1>3, <2>1 DEF Mutex, Lines
<1>4. CASE mutex = <<"slowtimer", "ipproc">>
  <2>1. mutex' = <<"ipproc">>
    BY <1>2, <1>4
  <2> QED  BY <1>4, <2>1 DEF Mutex, Lines
<1> QED  BY <1>1, <1>3, <1>4

-----------------------------------------------------------------------------
(* ipproc.                                                                 *)

LEMMA Clear == Nobody.dg = NoDatagram
  BY DEF Nobody

LEMMA NothingOut == out' = Nobody => WholeDatagram'
  BY Clear DEF WholeDatagram

\* Where ipreass() begins.
LEMMA AtReass ==
    ASSUME ReassInv, InReass
    PROVE  /\ frag \in AllFragments /\ frag.dg \in Datagrams /\ frag \in Fragments(frag.dg)
           /\ islot = NONE /\ Queued \in Nat
           /\ \A i \in Slots : SlotOK(ipfqt[i])
           /\ \A i \in Slots : ipfqt[i].state = "VALID" => Lacks(ipfqt[i])
           /\ netfree \in Nat /\ upnet \in Nat /\ written \in Nat
           /\ netfree + Queued + upnet + written + 1 = NETBUFS
<1>1. ipc = "ipreass"
  BY DEF InReass
<1>2. frag \in AllFragments /\ islot = NONE
  BY <1>1 DEF ReassInv, InHand
<1>3. \A i \in Slots : i # islot
  BY <1>2, Sizes
<1>4. \A i \in Slots : ipfqt[i].state = "VALID" => Lacks(ipfqt[i])
  BY <1>3 DEF ReassInv, Waiting
<1>5. \A i \in Slots : SlotOK(ipfqt[i])
  BY DEF ReassInv, Table
<1>6. netfree \in Nat /\ upnet \in Nat /\ written \in Nat /\ Queued \in Nat
  BY QueuedNat DEF ReassInv, Counters
<1>7. netfree + Queued + upnet + written + 1 = NETBUFS
  BY <1>1 DEF ReassInv, Count
<1> QED  BY <1>2, <1>4, <1>5, <1>6, <1>7, Fragment

\* How it ends, when the fragment's buffer has gone somewhere.
LEMMA Returned ==
    ASSUME ReassInv, InReass, Return, UNCHANGED <<islot, timerVars, lrgfree, uplrg, written>>,
           netfree' \in Nat, upnet' \in Nat, Table', WholeDatagram',
           \A i \in Slots : ipfqt'[i].state = "VALID" => Lacks(ipfqt'[i]),
           netfree' + Queued' + upnet' = netfree + Queued + upnet + 1
    PROVE  ReassInv'
<1>1. islot = NONE /\ netfree + Queued + upnet + written + 1 = NETBUFS
      /\ netfree \in Nat /\ upnet \in Nat /\ written \in Nat /\ Queued \in Nat
  BY AtReass
<1>2. Queued' \in Nat
  <2>1. Queued' = Cardinality({n \in Slots \X (1..IP_FQSIZE) : n[2] <= Len(ipfqt'[n[1]].q)})
    BY DEF Queued
  <2> DEFINE P == {n \in Slots \X (1..IP_FQSIZE) : n[2] <= Len(ipfqt'[n[1]].q)}
  <2>2. P \in SUBSET (Slots \X (1..IP_FQSIZE))
    OBVIOUS
  <2> HIDE DEF P
  <2>3. Cardinality(P) \in Nat
    BY <2>2, Sizes, SlotsFinite, TableFinite
  <2> QED  BY <2>1, <2>3 DEF P
<1>3. tpc' = tpc /\ tidx' = tidx /\ gran' = gran
  BY DEF timerVars
<1>4. Mutex'
  <2>1. Mutex /\ Holds("ipproc")
    BY DEF ReassInv, InReass
  <2> QED  BY <1>3, <2>1, MutexReturn
<1>5. Counters'
  BY <1>1, <1>3 DEF ReassInv, Counters
<1>6. ipc' = "ipgetp" /\ frag' = NoFragment /\ islot' = NONE
  BY <1>1 DEF Return
<1>7. InHand'
  BY <1>6 DEF InHand
<1>8. Waiting'
  BY DEF Waiting
<1>9. Count'
  <2>1. PICK a \in Nat, b \in Nat : a = Queued /\ b = Queued'
    BY <1>1, <1>2
  <2>2. netfree' + b + upnet' + written' = NETBUFS
    <3>1. netfree' + b + upnet' = netfree + a + upnet + 1 /\ written' = written
      BY <2>1
    <3>2. netfree + a + upnet + written + 1 = NETBUFS
      BY <1>1, <2>1
    <3>3. PICK m \in Nat, v \in Nat : m = netfree' /\ v = upnet'
      OBVIOUS
    <3>4. PICK n \in Nat, u \in Nat, w \in Nat : n = netfree /\ u = upnet /\ w = written
      BY <1>1
    <3>5. m + b + v = n + a + u + 1
      BY <3>1, <3>3, <3>4
    <3>6. n + a + u + w + 1 = NETBUFS
      BY <3>2, <3>4
    <3>7. m + b + v + w = NETBUFS
      BY <3>5, <3>6
    <3> QED  BY <3>1, <3>3, <3>4, <3>7
  <2>3. lrgfree' + uplrg' = LRGBUFS
    BY DEF ReassInv, Count
  <2>4. netfree' + Queued' + upnet' + written' + 0 = NETBUFS
    BY <1>1, <2>1, <2>2
  <2> QED  BY <1>6, <2>3, <2>4 DEF Count
<1> QED  BY <1>4, <1>5, <1>7, <1>8, <1>9 DEF ReassInv

LEMMA KeptTable ==
    ASSUME Table, UNCHANGED ipfqt
    PROVE  Table' /\ Queued' = Queued
  BY DEF Table, Queued

LEMMA ArriveStep == ASSUME ReassInv, NEW f \in AllFragments, Arrive(f) PROVE ReassInv'
<1>1. /\ ipc = "ipgetp" /\ netfree > 0 /\ netfree' = netfree - 1 /\ ipc' = "ipreass" /\ frag' = f
      /\ Wait("ipproc") /\ out' = Nobody /\ ipfqt' = ipfqt /\ islot' = islot
      /\ tpc' = tpc /\ tidx' = tidx /\ gran' = gran
      /\ lrgfree' = lrgfree /\ upnet' = upnet /\ uplrg' = uplrg /\ written' = written
  BY DEF Arrive, timerVars
<1>2. islot = NONE
  BY <1>1 DEF ReassInv, InHand
<1>3. Mutex'
  <2>1. Mutex
    BY DEF ReassInv
  <2> QED  BY <1>1, <2>1, MutexArrive
<1>4. Counters' /\ netfree \in Nat /\ upnet \in Nat /\ written \in Nat
  BY <1>1 DEF ReassInv, Counters
<1>5. InHand'
  BY <1>1, <1>2 DEF InHand
<1>6. Table /\ Table' /\ Queued' = Queued
  BY <1>1, KeptTable DEF ReassInv
<1>7. Waiting'
  BY <1>1 DEF ReassInv, Waiting
<1>8. Count'
  <2>1. netfree + Queued + upnet + written + 0 = NETBUFS /\ lrgfree + uplrg = LRGBUFS
    BY <1>1 DEF ReassInv, Count
  <2>2. Queued \in Nat
    BY <1>6, QueuedNat
  <2>3. PICK a \in Nat : a = Queued
    BY <2>2
  <2>4. netfree' + a + upnet' + written' + 1 = NETBUFS
    BY <1>1, <1>4, <2>1, <2>3
  <2>5. netfree' + Queued' + upnet' + written' + 1 = NETBUFS
    BY <1>6, <2>3, <2>4
  <2> QED  BY <1>1, <2>1, <2>5 DEF Count
<1> QED  BY <1>1, <1>3, <1>4, <1>5, <1>6, <1>7, <1>8, NothingOut DEF ReassInv

LEMMA NotFragmentedStep == ASSUME ReassInv, NotFragmented PROVE ReassInv'
<1>1. /\ InReass /\ frag.off = 0 /\ ~frag.mf /\ Return
      /\ out' = [dg |-> frag.dg, data |-> Copied(frag, 0, frag.len)] /\ upnet' = upnet + 1
      /\ ipfqt' = ipfqt /\ netfree' = netfree
      /\ UNCHANGED <<islot, timerVars, lrgfree, uplrg, written>>
  BY DEF NotFragmented
<1>2. /\ frag.dg \in Datagrams /\ frag \in Fragments(frag.dg)
      /\ \A i \in Slots : ipfqt[i].state = "VALID" => Lacks(ipfqt[i])
      /\ netfree \in Nat /\ upnet \in Nat /\ Queued \in Nat
  BY <1>1, AtReass
<1>3. Table' /\ Queued' = Queued
  BY <1>1, KeptTable DEF ReassInv
<1>4. WholeDatagram'
  <2>1. PICK n \in Nat : n = Size[frag.dg]
    BY <1>2, FragmentFields
  <2>2. frag.len = n
    <3>1. /\ Cut[frag.dg] \in Nat /\ ~(frag.off + Cut[frag.dg] < Size[frag.dg])
          /\ frag.len = IF frag.off + Cut[frag.dg] <= Size[frag.dg] THEN Cut[frag.dg]
                        ELSE Size[frag.dg] - frag.off
      BY <1>1, <1>2, FragmentFields
    <3> QED  BY <1>1, <2>1, <3>1
  <2>3. Copied(frag, 0, frag.len) = [k \in 1..n |-> k - 1]
    <3>1. Copied(frag, 0, frag.len) = [k \in 1..n |-> IF 0 + k \in 1..n THEN 0 + 0 + k - 1 ELSE NONE]
      BY <1>1, <2>2 DEF Copied
    <3> QED  BY <3>1
  <2>4. out'.dg = frag.dg /\ out'.data = Copied(frag, 0, frag.len)
    BY <1>1
  <2> QED  BY <2>1, <2>3, <2>4 DEF WholeDatagram
<1>5. netfree' + Queued' + upnet' = netfree + Queued + upnet + 1 /\ netfree' \in Nat /\ upnet' \in Nat
  BY <1>1, <1>2, <1>3
<1> QED  BY <1>1, <1>2, <1>3, <1>4, <1>5, Returned

\* The dropped fragment's buffer is free again.
LEMMA Dropped ==
    ASSUME ReassInv, InReass, Return, DropFragment, out' = Nobody, ipfqt' = ipfqt,
           UNCHANGED <<islot, timerVars, lrgfree, upnet, uplrg, written>>
    PROVE  ReassInv'
<1>1. /\ \A i \in Slots : ipfqt[i].state = "VALID" => Lacks(ipfqt[i])
      /\ netfree \in Nat /\ upnet \in Nat /\ Queued \in Nat
  BY AtReass
<1>2. Table' /\ Queued' = Queued
  BY KeptTable DEF ReassInv
<1>3. netfree' = netfree + 1 /\ upnet' = upnet
  BY DEF DropFragment
<1>4. netfree' + Queued' + upnet' = netfree + Queued + upnet + 1 /\ netfree' \in Nat /\ upnet' \in Nat
  BY <1>1, <1>2, <1>3
<1> QED  BY <1>1, <1>2, <1>4, NothingOut, Returned

LEMMA DropSteps == ASSUME ReassInv, NoRoom \/ Bogus PROVE ReassInv'
  BY Dropped DEF NoRoom, Bogus

LEMMA FirstFragmentStep == ASSUME ReassInv, FirstFragment PROVE ReassInv'
<1>1. /\ InReass /\ IsFragment /\ FreeSlots # {} /\ Return /\ out' = Nobody
      /\ ipfqt' = [ipfqt EXCEPT ![Min(FreeSlots)] = NewSlot(frag)]
      /\ netfree' = netfree /\ upnet' = upnet
      /\ UNCHANGED <<islot, timerVars, lrgfree, uplrg, written>>
  BY DEF FirstFragment, poolVars
<1>2. /\ frag \in AllFragments /\ frag.dg \in Datagrams /\ frag \in Fragments(frag.dg)
      /\ \A i \in Slots : ipfqt[i].state = "VALID" => Lacks(ipfqt[i])
      /\ \A i \in Slots : SlotOK(ipfqt[i])
      /\ netfree \in Nat /\ upnet \in Nat /\ Queued \in Nat
  BY <1>1, AtReass
<1>3. PICK i \in Slots : i = Min(FreeSlots) /\ ipfqt[i].state = "FREE"
  BY <1>1, FreeIn DEF FreeSlots
<1> DEFINE s == NewSlot(frag)
<1>4. SlotOK(s) /\ Len(s.q) = 1 /\ Lacks(s)
  <2>1. PICK z \in Seq(AllFragments) : z = <<frag>> /\ Len(z) = 1 /\ z[1] = frag
    <3>1. ASSUME NEW f \in AllFragments
          PROVE  <<f>> \in Seq(AllFragments) /\ Len(<<f>>) = 1 /\ <<f>>[1] = f
      OBVIOUS
    <3> QED  BY <1>2, <3>1
  <2>2. s = [state |-> "VALID", dg |-> frag.dg, ttl |-> IP_FTTL, q |-> z, seen |-> NONE]
    BY <2>1 DEF NewSlot
  <2>3. s \in SlotT /\ s.q = z /\ s.state = "VALID" /\ s.dg = frag.dg
    BY <1>2, <2>2, Sizes DEF SlotT
  <2>4. z # <<>> /\ InOrderOf(frag.dg, z)
    <3>1. frag.off \in Nat
      BY <1>2, FragmentFields
    <3>2. \A j \in 1..Len(z) : j = 1
      BY <2>1
    <3>3. \A j \in 1..Len(z) : z[j] = frag
      BY <2>1, <3>2
    <3> QED  BY <1>2, <2>1, <3>1, <3>3 DEF InOrderOf
  <2>5. SlotOK(s)
    BY <1>2, <2>1, <2>3, <2>4, Sizes DEF SlotOK
  <2>6. PICK g \in Fragments(frag.dg) : g # frag
    BY <1>1, <1>2, OneLacks DEF IsFragment
  <2>7. \A j \in 1..Len(z) : z[j] # g
    BY <2>1, <2>6
  <2> HIDE DEF s
  <2> QED  BY <2>1, <2>3, <2>5, <2>6, <2>7 DEF Lacks
<1> HIDE DEF s
<1>5. ipfqt' = [ipfqt EXCEPT ![i] = s]
  BY <1>1, <1>3 DEF s
<1>6. /\ Table' /\ ipfqt'[i] = s /\ \A j \in Slots : j # i => ipfqt'[j] = ipfqt[j]
      /\ Queued' = Queued - Len(ipfqt[i].q) + Len(s.q)
  BY <1>4, <1>5, PutSlot DEF ReassInv
<1>7. Len(ipfqt[i].q) = 0
  <2>1. ipfqt[i].q = <<>>
    BY <1>2, <1>3 DEF SlotOK
  <2> QED  BY <2>1
<1>8. \A j \in Slots : ipfqt'[j].state = "VALID" => Lacks(ipfqt'[j])
  BY <1>2, <1>4, <1>6
<1>9. netfree' + Queued' + upnet' = netfree + Queued + upnet + 1
  BY <1>1, <1>2, <1>4, <1>6, <1>7
<1> QED  BY <1>1, <1>2, <1>6, <1>8, <1>9, NothingOut, Returned

\* The slot ipfadd() adds to.
LEMMA AtSlot ==
    ASSUME ReassInv, ValidMatch
    PROVE  /\ InReass /\ IsFragment /\ Min(Matching) \in Slots /\ SlotOK(Slot) /\ Slot.state = "VALID"
           /\ Slot = ipfqt[Min(Matching)] /\ Slot.dg = frag.dg /\ InOrderOf(frag.dg, Slot.q)
<1>1. InReass /\ IsFragment /\ Matching # {} /\ Slot.state = "VALID"
  BY DEF ValidMatch
<1>2. Min(Matching) \in Slots /\ Min(Matching) \in Matching
  BY <1>1, MatchIn
<1>3. Slot = ipfqt[Min(Matching)] /\ SlotOK(Slot) /\ Slot.dg = frag.dg
  BY <1>2 DEF Slot, Matching, ReassInv, Table
<1> QED  BY <1>1, <1>2, <1>3 DEF SlotOK

LEMMA AddedOK ==
    ASSUME ReassInv, CanAdd
    PROVE  /\ ValidMatch /\ SlotOK(Added) /\ Added.state = "VALID" /\ Added.dg = frag.dg
           /\ Len(Added.q) = Len(Slot.q) + 1 /\ Len(Slot.q) \in Nat /\ Added.q # <<>>
           /\ Added.q \in Seq(AllFragments) /\ InOrderOf(frag.dg, Added.q)
           /\ Seen(Added) = Added.q /\ [Added EXCEPT !.seen = NONE] = Added
<1>1. ValidMatch /\ Len(Slot.q) < IP_FQSIZE
  BY DEF CanAdd
<1>2. InReass /\ SlotOK(Slot) /\ Slot.state = "VALID" /\ Slot.dg = frag.dg /\ InOrderOf(frag.dg, Slot.q)
  BY <1>1, AtSlot
<1>3. frag.dg \in Datagrams /\ frag \in Fragments(frag.dg)
  BY <1>2, AtReass
<1>4. PICK s \in SlotT : s = Slot
  BY <1>2 DEF SlotOK
<1>5. s.q \in Seq(AllFragments) /\ Len(s.q) \in Nat /\ s.seen = NONE
  BY <1>4 DEF SlotT
<1>6. PICK e : e = Enq(s.q, frag)
  OBVIOUS
<1>7. e \in Seq(AllFragments) /\ Len(e) = Len(s.q) + 1 /\ InOrderOf(frag.dg, e)
  BY <1>2, <1>3, <1>4, <1>5, <1>6, EnqOrder
<1> DEFINE a == [s EXCEPT !.q = e, !.ttl = IP_FTTL]
<1>8. Added = a
  BY <1>4, <1>6 DEF Added
<1>9. /\ a \in SlotT /\ a.q = e /\ a.state = s.state /\ a.dg = s.dg /\ a.seen = NONE
      /\ [a EXCEPT !.seen = NONE] = a
  <2> DEFINE b == [s EXCEPT !.q = e]
  <2>0. b \in SlotT
    BY <1>7 DEF SlotT
  <2>1. a \in SlotT
    <3>1. a = [b EXCEPT !.ttl = IP_FTTL]
      OBVIOUS
    <3> HIDE DEF a, b
    <3>2. IP_FTTL \in 0..IP_FTTL
      BY Sizes
    <3> QED  BY <2>0, <3>1, <3>2 DEF SlotT
  <2>2. a.q = e /\ a.state = s.state /\ a.dg = s.dg /\ a.seen = NONE
    BY <1>5 DEF SlotT
  <2> HIDE DEF a
  <2>3. a \in SlotT /\ a.q = e /\ a.state = s.state /\ a.dg = s.dg /\ a.seen = NONE
    BY <2>1, <2>2
  <2>4. [a EXCEPT !.seen = NONE] = a
    BY <2>3 DEF SlotT
  <2> QED  BY <2>3, <2>4
<1> HIDE DEF a
<1>10. e # <<>>
  BY <1>5, <1>7
<1>11. SlotOK(a)
  BY <1>1, <1>2, <1>3, <1>4, <1>5, <1>7, <1>9, <1>10, Sizes DEF SlotOK
<1>12. Seen(a) = a.q
  BY <1>7, <1>9, SeenAll
<1> QED  BY <1>1, <1>2, <1>4, <1>5, <1>7, <1>8, <1>9, <1>10, <1>11, <1>12

\* A slot is replaced, and the fragment is gone from ipproc's hands.
LEMMA Replaced ==
    ASSUME ReassInv, ValidMatch, Return, out' = Nobody, NEW s, SlotOK(s),
           s.state = "VALID" => Lacks(s), ipfqt' = [ipfqt EXCEPT ![Min(Matching)] = s],
           netfree' = netfree + 1 + Len(Slot.q) - Len(s.q), netfree' \in Nat,
           UNCHANGED <<islot, timerVars, lrgfree, upnet, uplrg, written>>
    PROVE  ReassInv'
<1>1. InReass /\ SlotOK(Slot)
  BY AtSlot
<1>2. PICK i \in Slots : i = Min(Matching) /\ Slot = ipfqt[i]
  BY AtSlot
<1>3. /\ \A j \in Slots : ipfqt[j].state = "VALID" => Lacks(ipfqt[j])
      /\ netfree \in Nat /\ upnet \in Nat /\ Queued \in Nat
  BY <1>1, AtReass
<1>4. ipfqt' = [ipfqt EXCEPT ![i] = s]
  BY <1>2
<1>5. /\ Table' /\ ipfqt'[i] = s /\ \A j \in Slots : j # i => ipfqt'[j] = ipfqt[j]
      /\ Queued' = Queued - Len(ipfqt[i].q) + Len(s.q)
  BY <1>4, PutSlot DEF ReassInv
<1>6. \A j \in Slots : ipfqt'[j].state = "VALID" => Lacks(ipfqt'[j])
  BY <1>3, <1>5
<1>7. netfree' + Queued' + upnet' = netfree + Queued + upnet + 1 /\ upnet' \in Nat
  <2>1. PICK k \in Nat, m \in Nat : k = Len(Slot.q) /\ m = Len(s.q)
    BY <1>1, SlotFields
  <2>2. PICK n \in Nat, u \in Nat, a \in Nat : n = netfree /\ u = upnet /\ a = Queued
    BY <1>3
  <2>3. Queued' = a - k + m /\ netfree' = n + 1 + k - m /\ upnet' = u
    BY <1>2, <1>5, <2>1, <2>2
  <2>4. (n + 1 + k - m) + (a - k + m) + u = n + a + u + 1
    OBVIOUS
  <2> QED  BY <2>2, <2>3, <2>4
<1> QED  BY <1>1, <1>5, <1>6, <1>7, NothingOut, Returned

LEMMA OverflowStep == ASSUME ReassInv, Overflow PROVE ReassInv'
<1>1. /\ ValidMatch /\ Return /\ out' = Nobody
      /\ ipfqt' = [ipfqt EXCEPT ![Min(Matching)] =
                    [@ EXCEPT !.state = "BOGUS", !.q = <<>>, !.seen = NONE]]
      /\ netfree' = netfree + 1 + Len(Slot.q)
      /\ UNCHANGED <<islot, timerVars, lrgfree, upnet, uplrg, written>>
  BY DEF Overflow
<1>2. InReass /\ SlotOK(Slot) /\ Slot = ipfqt[Min(Matching)] /\ Min(Matching) \in Slots
  BY <1>1, AtSlot
<1>3. netfree \in Nat
  BY <1>2, AtReass
<1>4. PICK o \in SlotT : o = Slot
  BY <1>2 DEF SlotOK
<1> DEFINE z == <<>>
           s == [o EXCEPT !.state = "BOGUS", !.q = z, !.seen = NONE]
<1>5. z \in Seq(AllFragments) /\ Len(z) = 0 /\ z = <<>>
  OBVIOUS
<1>6. ipfqt' = [ipfqt EXCEPT ![Min(Matching)] = s]
  <2>1. ipfqt \in [Slots -> SlotT]
    BY DEF ReassInv, Table
  <2> QED  BY <1>1, <1>2, <1>4, <2>1
<1> HIDE DEF z
<1>7. s \in SlotT /\ s.q = z /\ s.state = "BOGUS"
  BY <1>5 DEF SlotT
<1> HIDE DEF s
<1>8. SlotOK(s) /\ Len(s.q) = 0
  BY <1>5, <1>7, Sizes DEF SlotOK
<1>9. netfree' = netfree + 1 + Len(Slot.q) - Len(s.q) /\ netfree' \in Nat
  BY <1>1, <1>2, <1>3, <1>8, SlotFields
<1> QED  BY <1>1, <1>6, <1>7, <1>8, <1>9, Replaced

\* ipfadd() and an ipfjoin() that finds the datagram incomplete.
LEMMA AddWaits ==
    ASSUME ReassInv, CanAdd, HasGap(Added.q) \/ Last(Added.q).mf, Return, out' = Nobody,
           ipfqt' = [ipfqt EXCEPT ![Min(Matching)] = Added], netfree' = netfree,
           UNCHANGED <<islot, timerVars, lrgfree, upnet, uplrg, written>>
    PROVE  ReassInv'
<1>1. /\ ValidMatch /\ SlotOK(Added) /\ Added.dg = frag.dg
      /\ Len(Added.q) = Len(Slot.q) + 1 /\ Len(Slot.q) \in Nat /\ Added.q # <<>>
      /\ Added.q \in Seq(AllFragments) /\ InOrderOf(frag.dg, Added.q)
  BY AddedOK
<1>2. InReass
  BY <1>1, AtSlot
<1>3. frag.dg \in Datagrams /\ netfree \in Nat
  BY <1>2, AtReass
<1>4. \E f \in Fragments(frag.dg) : \A j \in 1..Len(Added.q) : Added.q[j] # f
  <2>1. CASE HasGap(Added.q)
    BY <1>1, <1>3, <2>1, GapLacks
  <2>2. CASE Last(Added.q).mf
    BY <1>1, <1>3, <2>2, MoreLacks
  <2> QED  BY <2>1, <2>2
<1>5. Lacks(Added)
  BY <1>1, <1>4 DEF Lacks
<1>6. netfree' = netfree + 1 + Len(Slot.q) - Len(Added.q) /\ netfree' \in Nat
  BY <1>1, <1>3
<1> QED  BY <1>1, <1>5, <1>6, Replaced

LEMMA AddGapStep == ASSUME ReassInv, AddGap PROVE ReassInv'
<1>1. /\ CanAdd /\ HasGap(Seen(Added)) /\ Return /\ out' = Nobody /\ netfree' = netfree
      /\ ipfqt' = [ipfqt EXCEPT ![Min(Matching)] = AfterGap(Added)]
      /\ UNCHANGED <<islot, timerVars, lrgfree, upnet, uplrg, written>>
  BY DEF AddGap, poolVars
<1>2. Seen(Added) = Added.q /\ AfterGap(Added) = Added
  BY <1>1, AddedOK DEF AfterGap
<1> QED  BY <1>1, <1>2, AddWaits

LEMMA AddMoreStep == ASSUME ReassInv, AddMore PROVE ReassInv'
<1>1. /\ CanAdd /\ ~LastSeen(Added) /\ Return /\ out' = Nobody /\ netfree' = netfree
      /\ ipfqt' = [ipfqt EXCEPT ![Min(Matching)] = [Added EXCEPT !.seen = NONE]]
      /\ UNCHANGED <<islot, timerVars, lrgfree, upnet, uplrg, written>>
  BY DEF AddMore, poolVars
<1>2. Seen(Added) = Added.q /\ [Added EXCEPT !.seen = NONE] = Added
  BY <1>1, AddedOK
<1>3. Last(Added.q).mf
  BY <1>1, <1>2 DEF LastSeen
<1> QED  BY <1>1, <1>2, <1>3, AddWaits

LEMMA AddTooBigStep == ASSUME ReassInv, AddTooBig PROVE ReassInv'
<1>1. /\ CanAdd /\ Return /\ out' = Nobody /\ netfree' = netfree + Len(Added.q)
      /\ ipfqt' = [ipfqt EXCEPT ![Min(Matching)] = Free]
      /\ UNCHANGED <<islot, timerVars, lrgfree, upnet, uplrg, written>>
  BY DEF AddTooBig
<1>2. ValidMatch /\ Len(Added.q) = Len(Slot.q) + 1 /\ Len(Slot.q) \in Nat
  BY <1>1, AddedOK
<1>3. netfree \in Nat
  BY <1>2, AtSlot, AtReass
<1>4. SlotOK(Free) /\ Len(Free.q) = 0 /\ Free.state # "VALID"
  BY FreeOK
<1>5. netfree' = netfree + 1 + Len(Slot.q) - Len(Free.q) /\ netfree' \in Nat
  <2>1. PICK k \in Nat : k = Len(Slot.q)
    BY <1>2
  <2>2. PICK n \in Nat : n = netfree
    BY <1>3
  <2>3. netfree' = n + (k + 1)
    BY <1>1, <1>2, <2>1, <2>2
  <2>4. n + (k + 1) = n + 1 + k - 0 /\ n + (k + 1) \in Nat
    OBVIOUS
  <2> QED  BY <1>4, <2>1, <2>2, <2>3, <2>4
<1> QED  BY <1>1, <1>2, <1>4, <1>5, Replaced

\* ipfjoin() has them all: the slot is complete until ipfcons() is through.
LEMMA AddLastStep == ASSUME ReassInv, AddLast PROVE ReassInv'
<1>1. /\ CanAdd /\ Whole(Added) /\ LastSeen(Added) /\ out' = Nobody
      /\ ipfqt' = [ipfqt EXCEPT ![Min(Matching)] = [Added EXCEPT !.seen = NONE]]
      /\ ipc' = "getbuf" /\ frag' = NoFragment /\ islot' = Min(Matching)
      /\ mutex' = mutex /\ tpc' = tpc /\ tidx' = tidx /\ gran' = gran
      /\ netfree' = netfree /\ lrgfree' = lrgfree /\ upnet' = upnet /\ uplrg' = uplrg
      /\ written' = written
  BY DEF AddLast, poolVars, timerVars
<1>2. /\ ValidMatch /\ SlotOK(Added) /\ Added.state = "VALID"
      /\ Len(Added.q) = Len(Slot.q) + 1 /\ Len(Slot.q) \in Nat /\ Added.q # <<>>
      /\ Seen(Added) = Added.q /\ [Added EXCEPT !.seen = NONE] = Added
  BY <1>1, AddedOK
<1>3. InReass
  BY <1>2, AtSlot
<1>4. PICK i \in Slots : i = Min(Matching) /\ Slot = ipfqt[i]
  BY <1>2, AtSlot
<1>5. /\ \A j \in Slots : ipfqt[j].state = "VALID" => Lacks(ipfqt[j])
      /\ netfree \in Nat /\ upnet \in Nat /\ written \in Nat /\ Queued \in Nat
      /\ netfree + Queued + upnet + written + 1 = NETBUFS
  BY <1>3, AtReass
<1>6. ~HasGap(Added.q) /\ ~Last(Added.q).mf
  BY <1>1, <1>2 DEF Whole, LastSeen
<1>7. PICK s : s = Added
  OBVIOUS
<1>8. /\ Table' /\ ipfqt'[i] = s /\ \A j \in Slots : j # i => ipfqt'[j] = ipfqt[j]
      /\ Queued' = Queued - Len(ipfqt[i].q) + Len(s.q)
  <2>1. ipfqt' = [ipfqt EXCEPT ![i] = s] /\ SlotOK(s)
    BY <1>1, <1>2, <1>4, <1>7
  <2> QED  BY <2>1, PutSlot DEF ReassInv
<1>9. Queued' = Queued + 1
  BY <1>2, <1>4, <1>5, <1>7, <1>8, SMTT(40)
<1>10. Mutex'
  <2>1. mutex \in {<<"ipproc">>, <<"ipproc", "slowtimer">>} /\ Mutex /\ ipc = "ipreass"
    BY <1>3, LineHead DEF ReassInv, InReass
  <2> QED  BY <1>1, <2>1 DEF Mutex
<1>11. Counters'
  BY <1>1 DEF ReassInv, Counters
<1>12. InHand'
  BY <1>1, <1>2, <1>4, <1>6, <1>7, <1>8 DEF InHand
<1>13. Waiting'
  BY <1>1, <1>4, <1>5, <1>8 DEF Waiting
<1>14. Count'
  <2>1. lrgfree' + uplrg' = LRGBUFS
    BY <1>1 DEF ReassInv, Count
  <2>2. PICK a \in Nat : a = Queued
    BY <1>5
  <2>3. netfree + (a + 1) + upnet + written + 0 = NETBUFS
    BY <1>5, <2>2
  <2> QED  BY <1>1, <1>9, <2>1, <2>2, <2>3 DEF Count
<1> QED  BY <1>1, <1>8, <1>10, <1>11, <1>12, <1>13, <1>14, NothingOut DEF ReassInv

LEMMA ConstructStep == ASSUME ReassInv, Construct PROVE ReassInv'
<1>1. /\ ipc = "getbuf" /\ lrgfree > 0 /\ Return /\ islot' = NONE
      /\ out' = [dg |-> ipfqt[islot].dg, data |-> Constructed(ipfqt[islot].q)]
      /\ netfree' = netfree + Len(ipfqt[islot].q)
      /\ lrgfree' = lrgfree - 1 /\ uplrg' = uplrg + 1
      /\ ipfqt' = [ipfqt EXCEPT ![islot] = Free]
      /\ tpc' = tpc /\ tidx' = tidx /\ gran' = gran /\ upnet' = upnet /\ written' = written
  BY DEF Construct, GotLarge, timerVars
<1>2. PICK i \in Slots : /\ i = islot /\ ipfqt[i].state = "VALID"
                         /\ ~HasGap(ipfqt[i].q) /\ ~Last(ipfqt[i].q).mf
  BY <1>1 DEF ReassInv, InHand
<1>3. SlotOK(ipfqt[i]) /\ Table
  BY DEF ReassInv, Table
<1>4. PICK q \in Seq(AllFragments), d \in Datagrams :
        q = ipfqt[i].q /\ d = ipfqt[i].dg /\ InOrderOf(d, q) /\ q # <<>> /\ Len(q) \in Nat
  <2>1. ipfqt[i].q \in Seq(AllFragments) /\ Len(ipfqt[i].q) \in Nat
    BY <1>3, SlotFields
  <2> QED  BY <1>2, <1>3, <2>1 DEF SlotOK
<1>5. WholeDatagram'
  <2>1. Constructed(q) = UpTo(Size[d])
    BY <1>2, <1>4, WholeData
  <2>2. out'.dg = d /\ out'.data = Constructed(q)
    BY <1>1, <1>2, <1>4
  <2> QED  BY <2>1, <2>2 DEF WholeDatagram, UpTo
<1>6. /\ Table' /\ ipfqt'[i] = Free /\ \A j \in Slots : j # i => ipfqt'[j] = ipfqt[j]
      /\ Queued \in Nat /\ Queued' = Queued - Len(ipfqt[i].q) + Len(Free.q)
  <2>1. ipfqt' = [ipfqt EXCEPT ![i] = Free]
    BY <1>1, <1>2
  <2> QED  BY <1>3, <2>1, FreeOK, PutSlot
<1>7. Mutex'
  <2>1. Mutex /\ Holds("ipproc")
    BY <1>1, LineHead DEF ReassInv, Mutex
  <2> QED  BY <1>1, <2>1, MutexReturn
<1>8. Counters' /\ netfree \in Nat /\ upnet \in Nat /\ written \in Nat /\ lrgfree \in Nat /\ uplrg \in Nat
  BY <1>1, <1>2, <1>4 DEF ReassInv, Counters
<1>9. ipc' = "ipgetp" /\ frag' = NoFragment
  BY <1>1 DEF Return
<1>10. InHand'
  BY <1>1, <1>9 DEF InHand
<1>11. Waiting'
  <2>1. \A j \in Slots : j # i /\ ipfqt[j].state = "VALID" => Lacks(ipfqt[j])
    BY <1>2 DEF ReassInv, Waiting
  <2>2. Free.state # "VALID"
    BY FreeOK
  <2> QED  BY <1>6, <2>1, <2>2 DEF Waiting
<1>12. Count'
  <2>1. netfree + Queued + upnet + written + 0 = NETBUFS /\ lrgfree + uplrg = LRGBUFS
    BY <1>1 DEF ReassInv, Count
  <2>2. PICK a \in Nat, k \in Nat : a = Queued /\ k = Len(q)
    BY <1>4, <1>6
  <2>3. Queued' = a - k /\ netfree' = netfree + k
    BY <1>1, <1>2, <1>4, <1>6, <2>2, FreeOK
  <2>4. (netfree + k) + (a - k) + upnet + written + 0 = NETBUFS
    BY <1>8, <2>1, <2>2
  <2>5. lrgfree' + uplrg' = LRGBUFS
    BY <1>1, <1>8, <2>1
  <2> QED  BY <1>1, <1>9, <2>3, <2>4, <2>5 DEF Count
<1> QED  BY <1>5, <1>6, <1>7, <1>8, <1>10, <1>11, <1>12 DEF ReassInv

-----------------------------------------------------------------------------
(* The upper protocols, and slowtimer.                                     *)

LEMMA ConsumeStep == ASSUME ReassInv, Consume PROVE ReassInv'
<1>1. /\ \/ /\ upnet > 0 /\ upnet' = upnet - 1 /\ netfree' = netfree + 1
            /\ uplrg' = uplrg /\ lrgfree' = lrgfree
         \/ /\ uplrg > 0 /\ uplrg' = uplrg - 1 /\ lrgfree' = lrgfree + 1
            /\ upnet' = upnet /\ netfree' = netfree
      /\ out' = Nobody /\ ipfqt' = ipfqt /\ mutex' = mutex /\ ipc' = ipc /\ frag' = frag /\ islot' = islot
      /\ tpc' = tpc /\ tidx' = tidx /\ gran' = gran /\ written' = written
  BY DEF Consume, procVars, timerVars
<1>2. netfree \in Nat /\ upnet \in Nat /\ lrgfree \in Nat /\ uplrg \in Nat /\ written \in Nat
  BY DEF ReassInv, Counters
<1>3. Counters'
  <2>1. netfree' \in Nat /\ upnet' \in Nat /\ lrgfree' \in Nat /\ uplrg' \in Nat /\ written' \in Nat
    BY <1>1, <1>2
  <2> QED  BY <1>1, <2>1 DEF ReassInv, Counters
<1>4. Mutex' /\ InHand' /\ Waiting'
  BY <1>1 DEF ReassInv, Mutex, InHand, Waiting
<1>5. Table' /\ Queued' = Queued
  BY <1>1, KeptTable DEF ReassInv
<1>6. Count'
  <2>1. PICK a \in Nat, b \in Nat : a = Queued /\ b = IF ipc = "ipreass" THEN 1 ELSE 0
    BY QueuedNat DEF ReassInv
  <2>2. netfree + a + upnet + written + b = NETBUFS /\ lrgfree + uplrg = LRGBUFS
    BY <2>1 DEF ReassInv, Count
  <2>3. netfree' + a + upnet' + written' + b = NETBUFS /\ lrgfree' + uplrg' = LRGBUFS
    BY <1>1, <1>2, <2>2
  <2> QED  BY <1>1, <1>5, <2>1, <2>3 DEF Count
<1> QED  BY <1>1, <1>3, <1>4, <1>5, <1>6, NothingOut DEF ReassInv

LEMMA TimerWakeStep == ASSUME ReassInv, TimerWake PROVE ReassInv'
<1>1. /\ tpc = "sleep" /\ tpc' = "ipftimer" /\ tidx' = 0 /\ gran' \in 1..MaxGran /\ Wait("slowtimer")
      /\ out' = Nobody /\ ipfqt' = ipfqt /\ ipc' = ipc /\ frag' = frag /\ islot' = islot
      /\ netfree' = netfree /\ lrgfree' = lrgfree /\ upnet' = upnet /\ uplrg' = uplrg
      /\ written' = written
  BY DEF TimerWake, procVars, poolVars
<1>2. Mutex'
  <2>1. Mutex
    BY DEF ReassInv
  <2> QED  BY <1>1, <2>1, MutexWake
<1>3. Counters'
  BY <1>1, Sizes DEF ReassInv, Counters
<1>4. InHand' /\ Waiting'
  BY <1>1 DEF ReassInv, InHand, Waiting
<1>5. Table' /\ Queued' = Queued
  BY <1>1, KeptTable DEF ReassInv
<1>6. Count'
  BY <1>1, <1>5 DEF ReassInv, Count
<1> QED  BY <1>1, <1>2, <1>3, <1>4, <1>5, <1>6, NothingOut DEF ReassInv

LEMMA TimerDoneStep == ASSUME ReassInv, TimerDone PROVE ReassInv'
<1>1. /\ Holds("slowtimer") /\ tpc' = "sleep" /\ tidx' = 0 /\ gran' = 1 /\ Signal
      /\ out' = Nobody /\ ipfqt' = ipfqt /\ ipc' = ipc /\ frag' = frag /\ islot' = islot
      /\ netfree' = netfree /\ lrgfree' = lrgfree /\ upnet' = upnet /\ uplrg' = uplrg
      /\ written' = written
  BY DEF TimerDone, procVars, poolVars
<1>2. Mutex'
  <2>1. Mutex
    BY DEF ReassInv
  <2> QED  BY <1>1, <2>1, MutexDone
<1>3. Counters'
  BY <1>1, Sizes DEF ReassInv, Counters
<1>4. InHand' /\ Waiting'
  BY <1>1 DEF ReassInv, InHand, Waiting
<1>5. Table' /\ Queued' = Queued
  BY <1>1, KeptTable DEF ReassInv
<1>6. Count'
  BY <1>1, <1>5 DEF ReassInv, Count
<1> QED  BY <1>1, <1>2, <1>3, <1>4, <1>5, <1>6, NothingOut DEF ReassInv

\* ipftimer() at one slot: nobody else is at the table.
LEMMA AtTimer ==
    ASSUME ReassInv, Scanning
    PROVE  /\ tidx \in Slots /\ SlotOK(ipfqt[tidx]) /\ ipc # "getbuf" /\ islot = NONE
           /\ \A i \in Slots : ipfqt[i].state = "VALID" => Lacks(ipfqt[i])
<1>1. tidx \in Slots /\ Holds("slowtimer") /\ Mutex
  BY DEF Scanning, ReassInv
<1>2. mutex \in {<<"slowtimer">>, <<"slowtimer", "ipproc">>}
  BY <1>1, LineHead
<1>3. ipc # "getbuf"
  BY <1>1, <1>2, LineShapes DEF Mutex
<1>4. islot = NONE
  BY <1>3 DEF ReassInv, InHand
<1>5. \A i \in Slots : i # islot
  BY <1>4, Sizes
<1> QED  BY <1>1, <1>3, <1>4, <1>5 DEF ReassInv, Table, Waiting

\* It leaves s in the slot, and k of its buffers behind.
LEMMA Scanned ==
    ASSUME ReassInv, Scanning, NextSlot, out' = Nobody,
           NEW s, SlotOK(s), s.state = "VALID" => Lacks(s), ipfqt' = [ipfqt EXCEPT ![tidx] = s],
           netfree' \in Nat, written' \in Nat,
           netfree' + written' = netfree + written + Len(ipfqt[tidx].q) - Len(s.q),
           UNCHANGED <<mutex, procVars, lrgfree, upnet, uplrg>>
    PROVE  ReassInv'
<1>1. /\ tpc' = tpc /\ tidx' = tidx + 1 /\ gran' = gran /\ mutex' = mutex
      /\ ipc' = ipc /\ frag' = frag /\ islot' = islot
      /\ lrgfree' = lrgfree /\ upnet' = upnet /\ uplrg' = uplrg
  BY DEF NextSlot, procVars
<1>2. PICK i \in Slots : i = tidx
  BY AtTimer
<1>3. /\ SlotOK(ipfqt[i]) /\ ipc # "getbuf" /\ islot = NONE
      /\ \A j \in Slots : ipfqt[j].state = "VALID" => Lacks(ipfqt[j])
  BY <1>2, AtTimer
<1>4. /\ Table' /\ ipfqt'[i] = s /\ \A j \in Slots : j # i => ipfqt'[j] = ipfqt[j]
      /\ Queued \in Nat /\ Queued' = Queued - Len(ipfqt[i].q) + Len(s.q)
  <2>1. ipfqt' = [ipfqt EXCEPT ![i] = s] /\ Table
    BY <1>2 DEF ReassInv
  <2> QED  BY <2>1, PutSlot
<1>5. Mutex'
  BY <1>1 DEF ReassInv, Mutex
<1>6. netfree \in Nat /\ written \in Nat /\ upnet \in Nat /\ tidx' \in 0..IP_FQSIZE
  <2>1. tidx + 1 \in 0..IP_FQSIZE
    BY <1>2, Sizes DEF Slots
  <2> QED  BY <1>1, <2>1 DEF ReassInv, Counters
<1>7. Counters'
  BY <1>1, <1>6 DEF ReassInv, Counters
<1>8. InHand'
  BY <1>1, <1>3 DEF ReassInv, InHand
<1>9. Waiting'
  BY <1>3, <1>4 DEF Waiting
<1>10. Count'
  <2>1. PICK a \in Nat, b \in Nat : a = Queued /\ b = IF ipc = "ipreass" THEN 1 ELSE 0
    BY <1>4
  <2>2. netfree + a + upnet + written + b = NETBUFS /\ lrgfree + uplrg = LRGBUFS
    BY <2>1 DEF ReassInv, Count
  <2>3. PICK k \in Nat, m \in Nat : k = Len(ipfqt[i].q) /\ m = Len(s.q)
    BY <1>3, SlotFields
  <2>4. PICK n \in Nat, w \in Nat, n1 \in Nat, w1 \in Nat, u \in Nat :
          n = netfree /\ w = written /\ n1 = netfree' /\ w1 = written' /\ u = upnet
    BY <1>6
  <2>5. Queued' = a - k + m /\ n1 + w1 = n + w + k - m
    BY <1>2, <1>4, <2>1, <2>3, <2>4
  <2>6. n + a + u + w + b = NETBUFS
    BY <2>2, <2>4
  <2>7. n1 + (a - k + m) + u + w1 + b = NETBUFS
    BY <2>5, <2>6
  <2> QED  BY <1>1, <2>1, <2>2, <2>4, <2>5, <2>7 DEF Count
<1> QED  BY <1>4, <1>5, <1>7, <1>8, <1>9, <1>10, NothingOut DEF ReassInv

LEMMA TimerAgeStep == ASSUME ReassInv, TimerAge PROVE ReassInv'
<1>1. /\ Scanning /\ NextSlot /\ out' = Nobody /\ netfree' = netfree /\ written' = written
      /\ UNCHANGED <<mutex, procVars, lrgfree, upnet, uplrg>>
      /\ \/ ipfqt' = ipfqt
         \/ Aged.ttl > 0 /\ ipfqt' = [ipfqt EXCEPT ![tidx] = Aged]
  BY DEF TimerAge, poolVars
<1>2. /\ tidx \in Slots /\ SlotOK(ipfqt[tidx])
      /\ \A i \in Slots : ipfqt[i].state = "VALID" => Lacks(ipfqt[i])
  BY <1>1, AtTimer
<1>3. netfree \in Nat /\ written \in Nat /\ gran \in Nat /\ gran > 0
  BY DEF ReassInv, Counters
<1>4. PICK o \in SlotT : o = ipfqt[tidx]
  BY <1>2 DEF SlotOK
<1>5. PICK k \in Nat : k = Len(o.q)
  BY <1>2, <1>4, SlotFields
<1>6. CASE ipfqt' = ipfqt
  <2>1. ipfqt' = [ipfqt EXCEPT ![tidx] = o]
    BY <1>4, <1>6 DEF ReassInv, Table
  <2>2. netfree' + written' = netfree + written + Len(ipfqt[tidx].q) - Len(o.q)
    BY <1>1, <1>3, <1>4, <1>5
  <2> QED  BY <1>1, <1>2, <1>3, <1>4, <2>1, <2>2, Scanned
<1>7. CASE Aged.ttl > 0 /\ ipfqt' = [ipfqt EXCEPT ![tidx] = Aged]
  <2> DEFINE s == [o EXCEPT !.ttl = o.ttl - gran]
  <2>1. Aged = s
    BY <1>4 DEF Aged
  <2>2. s.ttl = o.ttl - gran /\ o.ttl \in 0..IP_FTTL
    BY DEF SlotT
  <2>3. o.ttl - gran \in 0..IP_FTTL
    BY <1>3, <1>7, <2>1, <2>2, Sizes
  <2>4. s \in SlotT /\ s.q = o.q /\ s.state = o.state /\ s.dg = o.dg
    BY <2>3 DEF SlotT
  <2> HIDE DEF s
  <2>5. SlotOK(s)
    BY <1>2, <1>4, <2>4 DEF SlotOK
  <2>6. s.state = "VALID" => Lacks(s)
    <3>1. s.state = "VALID" => Lacks(o)
      BY <1>2, <1>4, <2>4
    <3> QED  BY <2>4, <3>1 DEF Lacks
  <2>7. netfree' + written' = netfree + written + Len(ipfqt[tidx].q) - Len(s.q)
    BY <1>1, <1>3, <1>4, <1>5, <2>4
  <2> QED  BY <1>1, <1>3, <1>7, <2>1, <2>5, <2>6, <2>7, Scanned
<1> QED  BY <1>1, <1>6, <1>7

LEMMA TimerExpireBogusStep == ASSUME ReassInv, TimerExpireBogus PROVE ReassInv'
<1>1. /\ Scanning /\ NextSlot /\ out' = Nobody /\ netfree' = netfree /\ written' = written
      /\ UNCHANGED <<mutex, procVars, lrgfree, upnet, uplrg>>
      /\ ipfqt[tidx].state = "BOGUS" /\ ipfqt' = [ipfqt EXCEPT ![tidx] = Free]
  BY DEF TimerExpireBogus, poolVars, ExpiredSlot
<1>2. SlotOK(ipfqt[tidx])
  BY <1>1, AtTimer
<1>3. Len(ipfqt[tidx].q) = 0
  <2>1. ipfqt[tidx].q = <<>>
    BY <1>1, <1>2 DEF SlotOK
  <2> QED  BY <2>1
<1>4. netfree \in Nat /\ written \in Nat
  BY DEF ReassInv, Counters
<1>5. SlotOK(Free) /\ Len(Free.q) = 0 /\ Free.state # "VALID"
  BY FreeOK
<1>6. netfree' + written' = netfree + written + Len(ipfqt[tidx].q) - Len(Free.q)
  BY <1>1, <1>3, <1>4, <1>5
<1> QED  BY <1>1, <1>4, <1>5, <1>6, Scanned

\* The first fragment goes to the device or back to the pool, the others to
\* the pool.
LEMMA TimerExpireStep == ASSUME ReassInv, TimerExpire PROVE ReassInv'
<1>1. /\ Scanning /\ NextSlot /\ out' = Nobody
      /\ UNCHANGED <<mutex, procVars, lrgfree, upnet, uplrg>>
      /\ ipfqt[tidx].state = "VALID" /\ ipfqt' = [ipfqt EXCEPT ![tidx] = Free]
  BY DEF TimerExpire
<1>2. \/ netfree' = netfree + (Len(Aged.q) - 1) /\ written' = written + 1
      \/ netfree' = netfree + Len(Aged.q) /\ written' = written + 0
  BY DEF TimerExpire, FreedByTimer
<1>3. SlotOK(ipfqt[tidx])
  BY <1>1, AtTimer
<1>4. PICK o \in SlotT : o = ipfqt[tidx]
  BY <1>3 DEF SlotOK
<1>5. Aged.q = o.q
  BY <1>4 DEF Aged, SlotT
<1>6. PICK k \in Nat \ {0} : k = Len(o.q)
  <2>1. o.q \in Seq(AllFragments) /\ o.q # <<>>
    BY <1>1, <1>3, <1>4, SlotFields DEF SlotOK
  <2>2. Len(o.q) \in Nat /\ Len(o.q) > 0
    BY <2>1
  <2> QED  BY <2>2
<1>7. netfree \in Nat /\ written \in Nat
  BY DEF ReassInv, Counters
<1>8. PICK n \in Nat, w \in Nat, n1 \in Nat, w1 \in Nat :
        n = netfree /\ w = written /\ n1 = netfree' /\ w1 = written' /\ n1 + w1 = n + w + k
  <2>0. PICK n \in Nat, w \in Nat : n = netfree /\ w = written
    BY <1>7
  <2>1. CASE netfree' = netfree + (Len(Aged.q) - 1) /\ written' = written + 1
    <3>1. netfree' = n + (k - 1) /\ written' = w + 1
      BY <1>5, <1>6, <2>0, <2>1
    <3>2. n + (k - 1) \in Nat /\ w + 1 \in Nat /\ (n + (k - 1)) + (w + 1) = n + w + k
      OBVIOUS
    <3> QED  BY <2>0, <3>1, <3>2
  <2>2. CASE netfree' = netfree + Len(Aged.q) /\ written' = written + 0
    <3>1. netfree' = n + k /\ written' = w
      BY <1>5, <1>6, <2>0, <2>2
    <3>2. n + k \in Nat /\ (n + k) + w = n + w + k
      OBVIOUS
    <3> QED  BY <2>0, <3>1, <3>2
  <2> QED  BY <1>2, <2>1, <2>2
<1>9. SlotOK(Free) /\ Len(Free.q) = 0 /\ Free.state # "VALID"
  BY FreeOK
<1>10. netfree' + written' = netfree + written + Len(ipfqt[tidx].q) - Len(Free.q)
  <2>1. n1 + w1 = n + w + k - 0
    <3>1. n1 + w1 = n + w + k
      BY <1>8
    <3> QED  BY <3>1
  <2> QED  BY <1>4, <1>6, <1>8, <1>9, <2>1
<1> QED  BY <1>1, <1>8, <1>9, <1>10, Scanned

-----------------------------------------------------------------------------
LEMMA InitReass == Init => ReassInv
<1> SUFFICES ASSUME Init PROVE ReassInv
  OBVIOUS
<1>1. /\ ipfqt = [i \in Slots |-> Free] /\ mutex = <<>> /\ ipc = "ipgetp" /\ frag = NoFragment
      /\ islot = NONE /\ tpc = "sleep" /\ tidx = 0 /\ gran = 1
      /\ netfree = NETBUFS /\ lrgfree = LRGBUFS /\ upnet = 0 /\ uplrg = 0 /\ written = 0 /\ out = Nobody
  BY DEF Init
<1>2. Mutex
  BY <1>1 DEF Mutex, Lines
<1>3. Counters
  BY <1>1, Sizes DEF Counters
<1>4. InHand
  BY <1>1 DEF InHand
<1>5. Table /\ Waiting
  BY <1>1, FreeOK DEF Table, Waiting, SlotOK
<1>6. Queued = 0
  <2>1. \A i \in Slots : Len(ipfqt[i].q) = 0
    BY <1>1, FreeOK
  <2>2. {n \in Slots \X (1..IP_FQSIZE) : n[2] <= Len(ipfqt[n[1]].q)} = {}
    BY <2>1
  <2> QED  BY <2>2, FS_EmptySet DEF Queued
<1>7. Count
  BY <1>1, <1>6, Sizes DEF Count
<1>8. WholeDatagram
  BY <1>1, Clear DEF WholeDatagram
<1> QED  BY <1>2, <1>3, <1>4, <1>5, <1>7, <1>8 DEF ReassInv

LEMMA NextReass == ReassInv /\ [Next]_vars => ReassInv'
<1> SUFFICES ASSUME ReassInv, [Next]_vars PROVE ReassInv'
  OBVIOUS
<1>1. CASE UNCHANGED vars
  BY <1>1 DEF vars, procVars, timerVars, poolVars, ReassInv, Mutex, Counters, InHand, Table,
     Waiting,
     Count, Queued, WholeDatagram
<1>2. CASE \E f \in AllFragments : Arrive(f)
  BY <1>2, ArriveStep
<1>3. CASE Ipreass
  BY <1>3, NotFragmentedStep, DropSteps, FirstFragmentStep, OverflowStep, AddGapStep,
     AddTooBigStep,
     AddMoreStep, AddLastStep, ConstructStep DEF Ipreass
<1>4. CASE Consume
  BY <1>4, ConsumeStep
<1>5. CASE Ipftimer
  BY <1>5, TimerWakeStep, TimerAgeStep, TimerExpireBogusStep, TimerExpireStep, TimerDoneStep
     DEF Ipftimer
<1> QED  BY <1>1, <1>2, <1>3, <1>4, <1>5 DEF Next

\* The table, the pools and ipfmutex as ipreass() and ipftimer() keep them:
\* each slot's queue holds fragments of its datagram in the order of their
\* offsets, and outside ipfcons() one is always missing.
THEOREM ReassInvariant == Spec => []ReassInv
BY InitReass, NextReass, PTL DEF Spec

\* Every network buffer is free, queued in a slot, with ipproc, with the upper
\* protocols or with the device, whatever path its fragment took.
THEOREM ReassBuffersCorrect == Spec => []BuffersConserved
<1>1. ReassInv => BuffersConserved
  <2> SUFFICES ASSUME ReassInv PROVE BuffersConserved
    OBVIOUS
  <2>1. /\ netfree + Queued + upnet + written + (IF ipc = "ipreass" THEN 1 ELSE 0) = NETBUFS
        /\ lrgfree + uplrg = LRGBUFS
    BY DEF ReassInv, Count
  <2>2. /\ netfree \in Nat /\ upnet \in Nat /\ written \in Nat /\ lrgfree \in Nat /\ uplrg \in Nat
        /\ Queued \in Nat
    BY QueuedNat DEF ReassInv, Counters
  <2>3. netfree \in 0..NETBUFS /\ lrgfree \in 0..LRGBUFS
    <3>1. PICK b \in Nat : b = IF ipc = "ipreass" THEN 1 ELSE 0
      OBVIOUS
    <3>2. PICK a \in Nat : a = Queued
      BY <2>2
    <3>3. netfree + a + upnet + written + b = NETBUFS
      BY <2>1, <3>1, <3>2
    <3> QED  BY <2>1, <2>2, <3>3, Sizes
  <2>4. \A i \in Slots : /\ ipfqt[i].state \in {"FREE", "VALID", "BOGUS"} /\ ipfqt[i].ttl \in 0..IP_FTTL
                         /\ ipfqt[i].q \in Seq(AllFragments) /\ Len(ipfqt[i].q) <= IP_FQSIZE
    BY SlotFields DEF ReassInv, Table, SlotOK
  <2>5. TypeOK
    BY <2>3, <2>4 DEF TypeOK, ReassInv, Mutex, Lines, InHand, Counters
  <2> QED  BY <2>1, <2>5 DEF BuffersConserved
<1> QED  BY <1>1, ReassInvariant, PTL

\* What ipreass() returns is the datagram that was cut, whatever the order,
\* the duplicates and the losses on the way.
THEOREM WholeDatagramCorrect == Spec => []WholeDatagram
<1>1. ReassInv => WholeDatagram
  BY DEF ReassInv
<1> QED  BY <1>1, ReassInvariant, PTL

\* While ipproc does not have ipfmutex, each slot in use lacks a fragment: the
\* one that completed a datagram would have joined it.
THEOREM JoinedCorrect == Spec => []JoinedWhenComplete
<1>1. ReassInv => JoinedWhenComplete
  <2> SUFFICES ASSUME ReassInv, ~Holds("ipproc"), NEW i \in Slots, ipfqt[i].state = "VALID"
               PROVE  \E f \in AllFragments :
                        f.dg = ipfqt[i].dg /\ \A j \in 1..Len(ipfqt[i].q) : ipfqt[i].q[j] # f
    BY DEF JoinedWhenComplete
  <2>1. ipc # "getbuf"
    BY LineHead DEF ReassInv, Mutex
  <2>2. islot = NONE /\ i # NONE
    BY <2>1, Sizes DEF ReassInv, InHand
  <2>3. Lacks(ipfqt[i]) /\ SlotOK(ipfqt[i])
    BY <2>2 DEF ReassInv, Waiting, Table
  <2>4. PICK f \in Fragments(ipfqt[i].dg) : \A j \in 1..Len(ipfqt[i].q) : ipfqt[i].q[j] # f
    BY <2>3 DEF Lacks
  <2>5. ipfqt[i].dg \in Datagrams
    BY <2>3 DEF SlotOK
  <2>6. f \in AllFragments /\ f.dg = ipfqt[i].dg
    BY <2>4, <2>5, Fragment, FragmentFields
  <2> QED  BY <2>4, <2>6
<1> QED  BY <1>1, ReassInvariant, PTL

-----------------------------------------------------------------------------
(* The routing table and RIP.                                              *)

\* The routes of ri_bpool, ...
RtRoutes == [net : Nat, mask : 0..RtW, gw : Nat, metric : Nat, ifn : {RtLocal, RtPrimary},
             ttl : Nat, ref : Nat]

\* The shortest mask: that of the class while the network is subnetted.
RtLow == IF RtSubnetted THEN RtClass ELSE 0

\* A route that may be linked: it lives, and only the default has a mask that
\* is shorter.
RtSound(r) == r.ttl > 0 /\ (r.net # 0 => r.mask >= RtLow)

\* No mask is shorter.
LEMMA RtLowest ==
    /\ RtLow \in Nat /\ RtLow <= RtClass /\ \A m \in RtMasks : RtLow <= m /\ m \in 1..(RtW - 1)
    /\ RtClass \in Nat /\ RtClass <= RtW /\ RtW \in Nat /\ (RtSubnetted => RtLow = RtClass)
BY RtRipAssumption DEF RtLow, RtSubnetted

\* A route that rtnew made and rtadd has not linked: nobody else can reach it.
RtMade(r) == RtSound(r) /\ r.ref = 1

\* ... the operations on the table with their arguments,
RtOps ==
    [op : {"get"}, arg : Nat \X BOOLEAN] \cup [op : {"del"}, arg : Nat \X (0..RtW)]
    \cup [op : {"add"}, arg : {r \in RtRoutes : r.ref = 1 /\ RtSound(r)}]
    \cup [op : {"mask"}, arg : RtMasks]
    \cup [op : {"redirect"},
          arg : {a \in Nat \X (0..RtW) \X Nat \X Nat : a[1] # 0 => a[2] >= RtLow}]
    \cup [op : {"recv"}, arg : Nat \X Nat \X Nat]
    \cup [op : {"scan"}, arg : SUBSET {RtLocal, RtPrimary}]
    \cup [op : {"free", "ifset", "lock", "unlock", "sent", "notify"}, arg : {<<>>}]

\* ... and the variables.
RtTypes ==
    /\ rttable \in [0..(RtTSize - 1) -> Seq(RtIds)] /\ rtDefault \in RtIds \cup {RtNone}
    /\ rtEnt \in [RtIds -> RtRoutes] /\ rtFree \in SUBSET RtIds /\ rtMask \in RtMasks
    /\ rtWork \in [RtProcs -> Seq(RtOps)]
    /\ rtHeld \in [RtProcs -> RtIds \cup {RtNone}] /\ rtFresh \in [RtProcs -> RtIds \cup {RtNone}]
    /\ ripRq \in [{RtLocal, RtPrimary} -> Nat]

\* The operations that need the route rtget gave, of which the last is rtfree.
RtUsing == {"free", "redirect", "recv", "ifset"}
RtUses(w) == {k \in DOMAIN w : w[k].op \in RtUsing}

\* What a process may still have to do while it holds h: it asks first if it
\* asks at all, uses what it got once, and has a route while it is to use one.
RtPlan(w, h) ==
    /\ \A k \in DOMAIN w : w[k].op = "get" => k = 1
    /\ \A j, k \in RtUses(w) : j = k
    /\ \A k \in DOMAIN w : w[k].op = "mask" => k = Len(w) /\ RtUses(w) = {}
    /\ w # <<>> /\ w[1].op = "get" => h = RtNone /\ RtUses(w) # {}
    /\ ~(w # <<>> /\ w[1].op = "get") => (h # RtNone <=> RtUses(w) # {})

\* Every process has such a plan, and a route rtnew made only on its way into rtadd.
RtPlans ==
    \A p \in RtProcs :
        /\ RtPlan(rtWork[p], rtHeld[p])
        /\ rtFresh[p] # RtNone =>
             rtWork[p] # <<>> /\ rtWork[p][1].op = "add" /\ RtMade(rtEnt[rtFresh[p]])

\* RIP output and the slow timer have plans of their own.
RtRoles ==
    /\ \A k \in DOMAIN rtWork["ripout"] : rtWork["ripout"][k].op \in {"lock", "scan", "sent", "unlock"}
    /\ \A k \in DOMAIN rtWork["slow"] : rtWork["slow"][k].op = "notify"

\* A linked route is in the chain of its network, once, and is no default.
RtPlaces ==
    /\ \A h \in DOMAIN rttable : IsInjective(rttable[h])
    /\ \A g, h \in DOMAIN rttable : g # h => Range(rttable[g]) \cap Range(rttable[h]) = {}
    /\ rtDefault \notin RtLinked /\ (rtDefault # RtNone => rtEnt[rtDefault].ttl > 0)
    /\ \A h \in DOMAIN rttable : \A i \in Range(rttable[h]) :
         rthash(rtEnt[i].net) = h /\ rtEnt[i].net # 0 /\ RtSound(rtEnt[i])

\* The parts of RtRefs.
RtCounts ==
    \A i \in RtIds : IF i \in rtFree THEN RtRefsOf(i) = 0
                     ELSE rtEnt[i].ref = RtRefsOf(i) /\ rtEnt[i].ref > 0
\* Chains are sorted by mask, without duplicates.
RtSorted ==
    \A h \in DOMAIN rttable : \A j, k \in DOMAIN rttable[h] : j < k =>
        LET a == rtEnt[rttable[h][j]]  b == rtEnt[rttable[h][k]] IN
        a.mask >= b.mask /\ ~RtSame(a, b)

\* The inductive invariant.
RtInv == RtTypes /\ RtPlans /\ RtRoles /\ RtPlaces /\ RtCounts /\ RtSorted /\ RipAnnounced

\* What an operation may carry.
LEMMA RtOpTypes ==
    ASSUME NEW o \in RtOps
    PROVE  /\ o.op = "get" => o.arg \in Nat \X BOOLEAN
           /\ o.op = "del" => o.arg \in Nat \X (0..RtW)
           /\ o.op = "add" => o.arg \in RtRoutes /\ o.arg.ref = 1 /\ RtSound(o.arg)
           /\ o.op = "mask" => o.arg \in RtMasks
           /\ o.op = "redirect" =>
                o.arg \in Nat \X (0..RtW) \X Nat \X Nat /\ (o.arg[1] # 0 => o.arg[2] >= RtLow)
           /\ o.op = "recv" => o.arg \in Nat \X Nat \X Nat
           /\ o.op = "scan" => o.arg \in SUBSET {RtLocal, RtPrimary}
BY DEF RtOps

\* The first operation of a plan, and the others.
LEMMA RtRest ==
    ASSUME NEW w \in Seq(RtOps), w # <<>>
    PROVE  /\ Head(w) = w[1] /\ w[1] \in RtOps /\ 1 \in DOMAIN w /\ Tail(w) \in Seq(RtOps)
           /\ Len(Tail(w)) = Len(w) - 1
           /\ \A k \in DOMAIN Tail(w) : k + 1 \in DOMAIN w /\ Tail(w)[k] = w[k + 1] /\ k + 1 # 1
           /\ \A k \in DOMAIN w : k # 1 => k - 1 \in DOMAIN Tail(w) /\ Tail(w)[k - 1] = w[k]
<1>1. Tail(w) \in Seq(RtOps) /\ Len(Tail(w)) = Len(w) - 1 /\ Len(w) \in Nat /\ Len(w) > 0
  OBVIOUS
<1>2. \A k \in 1..Len(Tail(w)) : Tail(w)[k] = w[k + 1]
  OBVIOUS
<1>3. Head(w) = w[1] /\ w[1] \in RtOps /\ DOMAIN w = 1..Len(w) /\ DOMAIN Tail(w) = 1..Len(Tail(w))
  BY <1>1
<1> QED BY <1>1, <1>2, <1>3

\* Which of the rest need the route.
LEMMA RtRestUses ==
    ASSUME NEW w \in Seq(RtOps), w # <<>>
    PROVE  /\ RtUses(w) = {} => RtUses(Tail(w)) = {}
           /\ w[1].op \notin RtUsing => (RtUses(w) = {} <=> RtUses(Tail(w)) = {})
           /\ (\A j, k \in RtUses(w) : j = k) =>
                /\ \A j, k \in RtUses(Tail(w)) : j = k
                /\ w[1].op \in RtUsing => RtUses(Tail(w)) = {}
<1>1. \A k \in RtUses(Tail(w)) : k \in Nat /\ k + 1 \in RtUses(w) /\ k + 1 # 1
  BY RtRest DEF RtUses
<1>2. \A k \in RtUses(w) : k # 1 => k - 1 \in RtUses(Tail(w))
  BY RtRest DEF RtUses
<1>3. w[1].op \in RtUsing <=> 1 \in RtUses(w)
  BY RtRest DEF RtUses
<1>4. ASSUME \A j, k \in RtUses(w) : j = k PROVE \A j, k \in RtUses(Tail(w)) : j = k
  <2> TAKE j \in RtUses(Tail(w)), k \in RtUses(Tail(w))
  <2>1. j + 1 = k + 1
    BY <1>1, <1>4
  <2> QED BY <1>1, <2>1
<1> QED BY <1>1, <1>2, <1>3, <1>4

\* An operation that has nothing to do with the route is done.
LEMMA RtPlanDone ==
    ASSUME NEW w \in Seq(RtOps), w # <<>>, NEW h, RtPlan(w, h), w[1].op \notin RtUsing \cup {"get"}
    PROVE  RtPlan(Tail(w), h)
<1>1. \A k \in DOMAIN Tail(w) : k \in Nat /\ k + 1 \in DOMAIN w /\ Tail(w)[k] = w[k + 1] /\ k + 1 # 1
  BY RtRest
<1>2. \A k \in DOMAIN Tail(w) : Tail(w)[k].op # "get"
  BY <1>1 DEF RtPlan
<1>3. /\ RtUses(w) = {} <=> RtUses(Tail(w)) = {}
      /\ \A j, k \in RtUses(Tail(w)) : j = k
  BY RtRestUses DEF RtPlan
<1>4. ASSUME NEW k \in DOMAIN Tail(w), Tail(w)[k].op = "mask" PROVE k = Len(Tail(w)) /\ RtUses(Tail(w)) = {}
  <2>1. k + 1 = Len(w) /\ RtUses(w) = {}
    BY <1>1, <1>4 DEF RtPlan
  <2> QED BY <1>1, <1>3, <2>1, RtRest
<1>5. Tail(w) # <<>> => Tail(w)[1].op # "get"
  BY <1>2, RtRest
<1>6. h # RtNone <=> RtUses(w) # {}
  BY DEF RtPlan
<1> QED BY <1>2, <1>3, <1>4, <1>5, <1>6 DEF RtPlan

\* rtget has given a route, rtfree has taken it back.
LEMMA RtPlanGot ==
    ASSUME NEW w \in Seq(RtOps), w # <<>>, NEW h, RtPlan(w, h), w[1].op = "get", NEW i, i # RtNone
    PROVE  RtPlan(Tail(w), i) /\ h = RtNone /\ (Tail(w) # <<>> => Tail(w)[1].op # "get")
<1>1. \A k \in DOMAIN Tail(w) : k \in Nat /\ k + 1 \in DOMAIN w /\ Tail(w)[k] = w[k + 1] /\ k + 1 # 1
  BY RtRest
<1>2. \A k \in DOMAIN Tail(w) : Tail(w)[k].op # "get"
  BY <1>1 DEF RtPlan
<1>3. RtUses(Tail(w)) # {} /\ \A j, k \in RtUses(Tail(w)) : j = k
  BY RtRestUses DEF RtPlan, RtUsing
<1>4. \A k \in DOMAIN Tail(w) : Tail(w)[k].op # "mask"
  BY <1>1 DEF RtPlan
<1>5. Tail(w) # <<>> => Tail(w)[1].op # "get"
  BY <1>2, RtRest
<1> QED BY <1>2, <1>3, <1>4, <1>5 DEF RtPlan

\* The use of the route is the last: nothing after it asks or sets a mask.
LEMMA RtPlanFreed ==
    ASSUME NEW w \in Seq(RtOps), w # <<>>, NEW h, RtPlan(w, h), w[1].op \in RtUsing
    PROVE  /\ h # RtNone /\ RtPlan(Tail(w), RtNone) /\ RtUses(Tail(w)) = {}
           /\ \A k \in DOMAIN Tail(w) : Tail(w)[k].op \notin {"get", "mask"}
<1>1. \A k \in DOMAIN Tail(w) : k \in Nat /\ k + 1 \in DOMAIN w /\ Tail(w)[k] = w[k + 1] /\ k + 1 # 1
  BY RtRest
<1>2. 1 \in RtUses(w) /\ w[1].op # "get"
  BY RtRest DEF RtUses, RtUsing
<1>3. RtUses(Tail(w)) = {}
  BY RtRestUses DEF RtPlan
<1>4. \A k \in DOMAIN Tail(w) : Tail(w)[k].op \notin {"get", "mask"}
  BY <1>1, <1>2 DEF RtPlan
<1>5. Tail(w) # <<>> => Tail(w)[1].op # "get"
  BY <1>4, RtRest
<1>6. h # RtNone
  BY <1>2 DEF RtPlan
<1> QED BY <1>3, <1>4, <1>5, <1>6 DEF RtPlan

\* The use of a route is worked out: ops, with rtfree at place f of them.
LEMMA RtPlanThen ==
    ASSUME NEW w \in Seq(RtOps), w # <<>>, NEW h, RtPlan(w, h), w[1].op \in RtUsing,
           NEW ops \in Seq(RtOps), NEW f \in DOMAIN ops,
           \A k \in DOMAIN ops : ops[k].op \notin {"get", "mask"} /\ (ops[k].op \in RtUsing <=> k = f)
    PROVE  RtPlan(ops \o Tail(w), h) /\ ops \o Tail(w) \in Seq(RtOps) /\ ops \o Tail(w) # <<>>
           /\ (ops \o Tail(w))[1] = ops[1]
<1> DEFINE t == Tail(w)
           r == ops \o t
<1>1. /\ h # RtNone /\ RtUses(t) = {} /\ t \in Seq(RtOps)
      /\ \A k \in DOMAIN t : t[k].op \notin {"get", "mask"}
  BY RtPlanFreed, RtRest
<1>2. \A k \in DOMAIN t : t[k].op \notin RtUsing
  BY <1>1 DEF RtUses
<1> HIDE DEF t
<1>3. PICK n \in Nat, m \in Nat : n = Len(ops) /\ m = Len(t) /\ DOMAIN ops = 1..n /\ DOMAIN t = 1..m
  BY <1>1
<1>4. /\ r \in Seq(RtOps) /\ Len(r) = n + m /\ DOMAIN r = 1..(n + m)
      /\ (\A k \in 1..n : r[k] = ops[k]) /\ \A k \in 1..m : r[n + k] = t[k]
  BY <1>1, <1>3
<1>5. \A k \in 1..(n + m) : (k \in 1..n /\ r[k] = ops[k]) \/ (k - n \in 1..m /\ r[k] = t[k - n])
  <2> TAKE k \in 1..(n + m)
  <2>1. CASE k <= n
    BY <1>4, <2>1
  <2>2. CASE k > n
    <3>1. k - n \in 1..m /\ n + (k - n) = k
      BY <2>2
    <3> QED BY <1>4, <3>1
  <2> QED BY <1>3, <2>1, <2>2
<1>6. f \in 1..n /\ 1 \in 1..n
  BY <1>3
<1> HIDE DEF r
<1>7. \A k \in DOMAIN r : r[k].op \notin {"get", "mask"} /\ (r[k].op \in RtUsing <=> k = f)
  <2> TAKE k \in DOMAIN r
  <2>1. CASE k \in 1..n /\ r[k] = ops[k]
    BY <1>3, <2>1
  <2>2. CASE k - n \in 1..m /\ r[k] = t[k - n]
    <3>1. k # f
      BY <1>6, <2>2
    <3> QED BY <1>1, <1>2, <1>3, <2>2, <3>1
  <2> QED BY <1>4, <1>5, <2>1, <2>2
<1>8. f \in DOMAIN r /\ 1 \in DOMAIN r /\ r[1] = ops[1] /\ r # <<>>
  BY <1>3, <1>4, <1>6
<1>9. RtUses(r) = {f}
  BY <1>7, <1>8 DEF RtUses
<1>10. RtPlan(r, h)
  BY <1>1, <1>7, <1>8, <1>9 DEF RtPlan
<1> QED BY <1>4, <1>8, <1>10 DEF r, t

\* A call begins with what it has to do, holding nothing.
LEMMA RtPlanNone == RtPlan(<<>>, RtNone)
BY DEF RtPlan, RtUses

\* A call that asks and then uses what it got.
LEMMA RtPlanAsk ==
    ASSUME NEW a \in RtOps, NEW b \in RtOps, a.op = "get", b.op \in RtUsing
    PROVE  <<a, b>> \in Seq(RtOps) /\ RtPlan(<<a, b>>, RtNone)
<1> DEFINE w == <<a, b>>
<1>1. w \in Seq(RtOps) /\ DOMAIN w = 1..2 /\ w[1] = a /\ w[2] = b /\ w # <<>> /\ Len(w) = 2
  OBVIOUS
<1> HIDE DEF w
<1>2. RtUses(w) = {2}
  BY <1>1 DEF RtUses, RtUsing
<1>3. RtPlan(w, RtNone)
  BY <1>1, <1>2 DEF RtPlan, RtUsing
<1> QED BY <1>1, <1>3 DEF w

\* ... or does without a route.
LEMMA RtPlanPlain ==
    ASSUME NEW w \in Seq(RtOps), \A k \in DOMAIN w : w[k].op \notin RtUsing \cup {"get"},
           \A k \in DOMAIN w : w[k].op = "mask" => k = Len(w)
    PROVE  RtPlan(w, RtNone)
<1>1. RtUses(w) = {}
  BY DEF RtUses
<1>2. ~(w # <<>> /\ w[1].op = "get")
  BY RtRest
<1> QED BY <1>1, <1>2 DEF RtPlan

-----------------------------------------------------------------------------
\* Powers of two, from the number of subsets of a set.
LEMMA RtPower ==
    ASSUME NEW n \in Nat
    PROVE  2^n \in Nat \ {0} /\ 2^(n + 1) = 2 * 2^n /\ 2^0 = 1
<1> DEFINE S == 1..n
           T == 1..(n + 1)
           A == SUBSET S
           B == {X \cup {n + 1} : X \in A}
           f == [X \in A |-> X \cup {n + 1}]
<1>1. IsFiniteSet(S) /\ Cardinality(S) = n /\ IsFiniteSet(T) /\ Cardinality(T) = n + 1
  <2>1. 1 \in Int /\ n \in Int /\ n + 1 \in Int
    OBVIOUS
  <2>2. IsFiniteSet(S) /\ Cardinality(S) = IF 1 > n THEN 0 ELSE n - 1 + 1
    BY <2>1, FS_Interval
  <2>3. IsFiniteSet(T) /\ Cardinality(T) = IF 1 > n + 1 THEN 0 ELSE (n + 1) - 1 + 1
    BY <2>1, FS_Interval
  <2> QED BY <2>2, <2>3
<1>2. IsFiniteSet(A) /\ Cardinality(A) = 2^n
  BY <1>1, FS_SUBSET
<1>3. IsFiniteSet(SUBSET T) /\ Cardinality(SUBSET T) = 2^(n + 1)
  BY <1>1, FS_SUBSET
<1>4. f \in Bijection(A, B)
  <2>1. f \in Surjection(A, B)
    BY DEF Surjection
  <2>2. ASSUME NEW X \in A, NEW Y \in A, f[X] = f[Y] PROVE X = Y
    <3>1. X \cup {n + 1} = Y \cup {n + 1} /\ n + 1 \notin X /\ n + 1 \notin Y
      BY <2>2
    <3> QED BY <3>1
  <2>3. f \in Injection(A, B)
    <3>1. f \in [A -> B]
      OBVIOUS
    <3>2. \A X, Y \in A : f[X] = f[Y] => X = Y
      BY <2>2
    <3> HIDE DEF f, A, B
    <3> QED BY <3>1, <3>2 DEF Injection, IsInjective
  <2> QED BY <2>1, <2>3 DEF Bijection
<1>5. IsFiniteSet(B) /\ Cardinality(B) = Cardinality(A)
  <2>1. ExistsBijection(A, B)
    BY <1>4, Zenon DEF ExistsBijection
  <2> HIDE DEF A, B
  <2> QED BY <1>2, <2>1, FS_Bijection
<1>6. SUBSET T = A \cup B
  <2>1. ASSUME NEW X \in SUBSET T PROVE X \in A \cup B
    <3>1. T = S \cup {n + 1}
      OBVIOUS
    <3>2. CASE n + 1 \in X
      <4>1. X \ {n + 1} \in A /\ X = (X \ {n + 1}) \cup {n + 1}
        BY <3>1, <3>2
      <4> QED BY <4>1
    <3>3. CASE n + 1 \notin X
      BY <3>1, <3>3
    <3> QED BY <3>2, <3>3
  <2>2. S \subseteq T /\ n + 1 \in T
    OBVIOUS
  <2>3. A \subseteq SUBSET T /\ B \subseteq SUBSET T
    <3> HIDE DEF S, T
    <3> QED BY <2>2
  <2> QED BY <2>1, <2>3
<1>7. A \cap B = {}
  OBVIOUS
<1> HIDE DEF A, B, T
<1>8. Cardinality(A \cup B) = Cardinality(A) + Cardinality(B) - Cardinality(A \cap B)
  BY <1>2, <1>5, FS_Union
<1>9. Cardinality(A \cap B) = 0
  BY <1>7, FS_EmptySet
<1>10. Cardinality(A) \in Nat
  BY <1>2, FS_CardinalityType
<1>11. 2^(n + 1) = 2 * 2^n /\ 2^n \in Nat
  <2>1. PICK c \in Nat : c = Cardinality(A)
    BY <1>10
  <2>2. Cardinality(A \cup B) = c + c
    BY <1>5, <1>8, <1>9, <2>1
  <2>3. 2^(n + 1) = c + c /\ 2^n = c
    BY <1>2, <1>3, <1>6, <2>1, <2>2
  <2> QED BY <2>1, <2>3
<1>12. 2^n # 0
  <2>1. {} \in A
    BY DEF A
  <2> QED BY <1>2, <2>1, FS_EmptySet
<1>13. 2^0 = 1
  <2>1. IsFiniteSet({}) /\ Cardinality({}) = 0
    BY FS_EmptySet
  <2>2. Cardinality(SUBSET {}) = 2^0
    BY <2>1, FS_SUBSET
  <2>3. SUBSET {} = {{}} /\ Cardinality({{}}) = 1
    BY FS_Singleton
  <2> QED BY <2>2, <2>3
<1> QED BY <1>11, <1>12, <1>13

\* Division with remainder, and what it determines.
LEMMA RtQuotient ==
    ASSUME NEW P \in Nat \ {0}, NEW a \in Nat
    PROVE  a \div P \in Nat /\ \E r \in 0..(P - 1) : a = (a \div P) * P + r
<1>1. a \div P \in Nat /\ a % P \in 0..(P - 1) /\ a = P * (a \div P) + (a % P)
  OBVIOUS
<1> QED BY <1>1

\* A number is the quotient of what it leaves no more than a remainder of.
LEMMA RtQuotientIs ==
    ASSUME NEW P \in Nat \ {0}, NEW q \in Nat, NEW r \in 0..(P - 1)
    PROVE  (q * P + r) \div P = q
<1>1. PICK a \in Nat : a = q * P + r
  OBVIOUS
<1>2. a \div P \in Nat
  BY RtQuotient
<1>3. PICK d \in Nat : d = a \div P
  BY <1>2
<1>4. PICK s \in 0..(P - 1) : a = d * P + s
  BY <1>3, RtQuotient
<1>5. d * P + s = q * P + r
  BY <1>1, <1>4
<1>6. ~(d >= q + 1)
  <2> SUFFICES ASSUME d >= q + 1 PROVE FALSE
    OBVIOUS
  <2>1. d * P >= (q + 1) * P
    OBVIOUS
  <2> QED BY <1>5, <2>1
<1>7. ~(q >= d + 1)
  <2> SUFFICES ASSUME q >= d + 1 PROVE FALSE
    OBVIOUS
  <2>1. q * P >= (d + 1) * P
    OBVIOUS
  <2> QED BY <1>5, <2>1
<1>8. d = q
  BY <1>6, <1>7
<1> QED BY <1>1, <1>3, <1>8

\* Dividing by P and then by 2 divides by 2P.
LEMMA RtHalf ==
    ASSUME NEW P \in Nat \ {0}, NEW a \in Nat
    PROVE  (a \div P) \div 2 = a \div (2 * P)
<1>1. PICK q \in Nat : q = a \div P
  BY RtQuotient
<1>2. PICK r \in 0..(P - 1) : a = q * P + r
  BY <1>1, RtQuotient
<1>3. PICK h \in Nat, e \in 0..1 : q = h * 2 + e /\ h = q \div 2
  OBVIOUS
<1>4. PICK R \in Nat \ {0} : R = 2 * P
  OBVIOUS
<1>5. e * P + r \in 0..(R - 1) /\ a = h * R + (e * P + r)
  <2>1. CASE e = 0
    BY <1>2, <1>3, <1>4, <2>1
  <2>2. CASE e = 1
    BY <1>2, <1>3, <1>4, <2>2
  <2> QED BY <2>1, <2>2
<1>6. PICK t \in 0..(R - 1) : t = e * P + r
  BY <1>5
<1>7. (h * R + t) \div R = h
  BY RtQuotientIs
<1> QED BY <1>1, <1>3, <1>4, <1>5, <1>6, <1>7

\* The part of an address under a mask, and under the mask one bit shorter.
LEMMA RtPartStep ==
    ASSUME NEW a \in Nat, NEW m \in 1..RtW
    PROVE  /\ RtPart(a, m) \in Nat /\ RtPart(a, m - 1) \in Nat
           /\ RtPart(a, m - 1) = RtPart(a, m) \div 2
<1>1. PICK n \in Nat : n = RtW - m
  BY RtRipAssumption
<1>2. RtW - (m - 1) = n + 1
  BY <1>1, RtRipAssumption
<1>3. PICK P \in Nat \ {0} : P = 2^n
  BY RtPower
<1>4. 2^(n + 1) = 2 * P /\ 2 * P \in Nat \ {0}
  BY <1>3, RtPower
<1>5. RtPart(a, m) = a \div P /\ RtPart(a, m - 1) = a \div (2 * P)
  BY <1>1, <1>2, <1>3, <1>4 DEF RtPart
<1>6. a \div P \in Nat /\ a \div (2 * P) \in Nat
  BY <1>4, RtQuotient
<1>7. (a \div P) \div 2 = a \div (2 * P)
  BY RtHalf
<1> QED BY <1>5, <1>6, <1>7

\* Addresses that agree under a mask agree under every shorter one.
LEMMA RtCoarser ==
    ASSUME NEW a \in Nat, NEW b \in Nat, NEW m \in 0..RtW, NEW c \in 0..m, RtPart(a, m) = RtPart(b, m)
    PROVE  RtPart(a, c) = RtPart(b, c)
<1> DEFINE S == {d \in 0..m : RtPart(a, m - d) # RtPart(b, m - d)}
<1> SUFFICES ASSUME RtPart(a, c) # RtPart(b, c) PROVE FALSE
  OBVIOUS
<1>0. RtW \in Nat
  BY RtRipAssumption
<1>1. S \in SUBSET Nat
  BY <1>0
<1>2. m - c \in S
  <2>1. m - c \in 0..m /\ m - (m - c) = c
    BY <1>0
  <2> QED BY <2>1
<1>3. Min(S) \in S /\ \A d \in S : Min(S) <= d
  BY <1>1, <1>2, Smallest
<1>4. PICK d \in S : \A e \in S : d <= e
  BY <1>3
<1>5. d # 0
  <2>1. m - 0 = m
    BY <1>0
  <2> QED BY <2>1
<1>6. d - 1 \in 0..m /\ d - 1 \notin S /\ m - (d - 1) = m - d + 1 /\ m - d + 1 \in 1..RtW
  BY <1>0, <1>4, <1>5
<1>7. PICK k \in 1..RtW : k = m - d + 1
  BY <1>6
<1>8. RtPart(a, k) = RtPart(b, k) /\ k - 1 = m - d
  BY <1>0, <1>6, <1>7
<1>9. RtPart(a, k - 1) = RtPart(b, k - 1)
  BY <1>8, RtPartStep
<1> QED BY <1>4, <1>8, <1>9

\* The masked part of an address is a number.
LEMMA RtPartType ==
    ASSUME NEW a \in Nat, NEW m \in 0..RtW
    PROVE  RtPart(a, m) \in Nat
<1>1. CASE m = 0
  <2>1. 1 \in 1..RtW /\ 1 - 1 = 0
    BY RtRipAssumption
  <2>2. RtPart(a, 1 - 1) \in Nat
    BY <2>1, RtPartStep
  <2> QED BY <1>1, <2>1, <2>2
<1>2. CASE m # 0
  BY <1>2, RtRipAssumption, RtPartStep
<1> QED BY <1>1, <1>2

\* The hash of a network and the mask of an address.
LEMMA RtAddress ==
    ASSUME NEW a \in Nat, rtMask \in RtMasks
    PROVE  /\ rthash(a) \in 0..(RtTSize - 1)
           /\ netmask(a) \in 0..RtW /\ (a # 0 => netmask(a) >= RtLow)
<1>1. RtPart(a, RtClass) \in Nat
  BY RtRipAssumption, RtPartType
<1>2. rthash(a) \in 0..(RtTSize - 1)
  BY <1>1, RtRipAssumption DEF rthash
<1>3. netmask(a) \in {0, rtMask, RtClass} /\ (a # 0 => netmask(a) \in {rtMask, RtClass})
  BY DEF netmask
<1>4. rtMask \in 0..RtW /\ rtMask >= RtLow /\ RtClass \in 0..RtW /\ RtClass >= RtLow
  BY RtLowest
<1>5. 0 \in 0..RtW
  BY RtLowest
<1> QED BY <1>2, <1>3, <1>4, <1>5

\* The addresses that setmask gives the interface with the mask m are in its
\* own network.
RtSubnetOf(m) == RtPart(RtMyIp, m) * 2^(RtW - m)
RtBrcOf(m) == RtSubnetOf(m) + 2^(RtW - m) - 1

\* The interface's own network: its subnet and its broadcast address differ and
\* are not 0.
LEMMA RtOwnNet ==
    ASSUME NEW m \in RtMasks
    PROVE  /\ RtSubnetOf(m) \in Nat /\ RtBrcOf(m) \in Nat /\ RtSubnetOf(m) # RtBrcOf(m)
           /\ RtSubnetOf(m) # 0 /\ RtBrcOf(m) # 0
<1>1. m \in 1..(RtW - 1) /\ RtW \in Nat /\ RtMyIp \in Nat /\ RtMyIp \div 2^(RtW - m) # 0
  BY RtRipAssumption
<1>2. PICK n \in Nat : n + 1 = RtW - m
  <2>1. RtW - m - 1 \in Nat /\ (RtW - m - 1) + 1 = RtW - m
    BY <1>1
  <2> QED BY <2>1
<1>3. PICK P \in Nat \ {0} : P = 2^(RtW - m) /\ P >= 2
  <2>1. PICK Q \in Nat \ {0} : Q = 2^n
    BY RtPower
  <2>2. 2^(n + 1) = 2 * Q
    BY <2>1, RtPower
  <2> QED BY <1>2, <2>1, <2>2
<1>4. PICK q \in Nat \ {0} : q = RtMyIp \div P
  BY <1>1, <1>3, RtQuotient
<1>5. RtPart(RtMyIp, m) = q /\ RtSubnetOf(m) = q * P /\ RtBrcOf(m) = q * P + P - 1
  BY <1>3, <1>4 DEF RtPart, RtSubnetOf, RtBrcOf
<1>6. q * P \in Nat /\ q * P # 0
  BY <1>3, <1>4, SMTT(30)
<1> QED BY <1>3, <1>5, <1>6

-----------------------------------------------------------------------------
\* Who holds a route, or is about to link one.
RtUsers(f, i) == {p \in RtProcs : f[p] = i}
\* The table's own reference to i.
RtLink(i) == IF i \in RtLinked \/ i = rtDefault THEN 1 ELSE 0

\* There are finitely many processes.
LEMMA RtProcsFinite == IsFiniteSet(RtProcs)
<1>1. IsFiniteSet({"slow"}) /\ IsFiniteSet({"ripout"}) /\ IsFiniteSet({"ripin"}) /\ IsFiniteSet({"ip"})
  BY FS_Singleton
<1>2. IsFiniteSet({"ip"} \cup {"ripin"}) /\ IsFiniteSet({"ripout"} \cup {"slow"})
  BY <1>1, FS_Union
<1>3. IsFiniteSet(({"ip"} \cup {"ripin"}) \cup ({"ripout"} \cup {"slow"}))
  BY <1>2, FS_Union
<1>4. {"ip", "ripin", "ripout", "slow"} = ({"ip"} \cup {"ripin"}) \cup ({"ripout"} \cup {"slow"})
  OBVIOUS
<1> QED BY <1>3, <1>4 DEF RtProcs

\* The processes that have a route can be counted.
LEMMA RtUsersCount ==
    ASSUME NEW f, NEW i
    PROVE  /\ Cardinality(RtUsers(f, i)) \in Nat /\ IsFiniteSet(RtUsers(f, i))
           /\ (\E p \in RtProcs : f[p] = i) <=> Cardinality(RtUsers(f, i)) > 0
<1>1. RtUsers(f, i) \subseteq RtProcs
  BY DEF RtUsers
<1>2. IsFiniteSet(RtUsers(f, i))
  BY <1>1, RtProcsFinite, FS_Subset
<1>3. Cardinality(RtUsers(f, i)) \in Nat
  BY <1>2, FS_CardinalityType
<1>4. Cardinality(RtUsers(f, i)) = 0 <=> RtUsers(f, i) = {}
  BY <1>2, FS_EmptySet
<1>5. (\E p \in RtProcs : f[p] = i) <=> RtUsers(f, i) # {}
  BY DEF RtUsers
<1> QED BY <1>2, <1>3, <1>4, <1>5

\* One process changes what it holds.
RtAlike(f, g, p) == \A q \in RtProcs \ {p} : g[q] = f[q]

\* How the count changes when one process takes or gives up a route.
LEMMA RtUsersStep ==
    ASSUME NEW f, NEW g, NEW p \in RtProcs, RtAlike(f, g, p), NEW i
    PROVE  /\ (f[p] = i <=> g[p] = i) => Cardinality(RtUsers(g, i)) = Cardinality(RtUsers(f, i))
           /\ f[p] # i /\ g[p] = i => Cardinality(RtUsers(g, i)) = Cardinality(RtUsers(f, i)) + 1
           /\ f[p] = i /\ g[p] # i => Cardinality(RtUsers(f, i)) = Cardinality(RtUsers(g, i)) + 1
<1> DEFINE A == RtUsers(f, i)
           B == RtUsers(g, i)
<1>1. IsFiniteSet(A) /\ IsFiniteSet(B)
  BY RtUsersCount
<1>2. ASSUME f[p] = i <=> g[p] = i PROVE A = B
  BY <1>2 DEF RtUsers, RtAlike
<1>3. ASSUME f[p] # i, g[p] = i PROVE Cardinality(B) = Cardinality(A) + 1
  <2>1. B = A \cup {p} /\ p \notin A
    BY <1>3 DEF RtUsers, RtAlike
  <2> QED BY <1>1, <2>1, FS_AddElement
<1>4. ASSUME f[p] = i, g[p] # i PROVE Cardinality(A) = Cardinality(B) + 1
  <2>1. A = B \cup {p} /\ p \notin B
    BY <1>4 DEF RtUsers, RtAlike
  <2> QED BY <1>1, <2>1, FS_AddElement
<1> QED BY <1>2, <1>3, <1>4

\* The references of a route, by their kind.
LEMMA RtRefsParts ==
    ASSUME NEW i
    PROVE  /\ RtRefsOf(i) = RtLink(i) + Cardinality(RtUsers(rtHeld, i)) + Cardinality(RtUsers(rtFresh, i))
           /\ Cardinality(RtUsers(rtHeld, i)) \in Nat /\ Cardinality(RtUsers(rtFresh, i)) \in Nat
           /\ RtLink(i) \in {0, 1} /\ RtRefsOf(i) \in Nat
<1>1. RtRefsOf(i) = RtLink(i) + Cardinality(RtUsers(rtHeld, i)) + Cardinality(RtUsers(rtFresh, i))
  BY DEF RtRefsOf, RtLink, RtUsers
<1>3. Cardinality(RtUsers(rtHeld, i)) \in Nat /\ Cardinality(RtUsers(rtFresh, i)) \in Nat
  BY RtUsersCount
<1>4. RtLink(i) \in {0, 1}
  BY DEF RtLink
<1> QED BY <1>1, <1>3, <1>4

\* A route that is held, about to be linked, linked or the default is not free.
LEMMA RtReached ==
    ASSUME RtTypes, RtCounts, NEW i \in RtIds,
           \/ i \in RtLinked \/ i = rtDefault \/ \E p \in RtProcs : rtHeld[p] = i \/ rtFresh[p] = i
    PROVE  i \notin rtFree /\ rtEnt[i].ref = RtRefsOf(i) /\ rtEnt[i].ref > 0 /\ RtRefsOf(i) > 0
<1>1. PICK l \in {0, 1}, n \in Nat, m \in Nat :
        /\ l = RtLink(i) /\ n = Cardinality(RtUsers(rtHeld, i)) /\ m = Cardinality(RtUsers(rtFresh, i))
        /\ RtRefsOf(i) = l + n + m
  BY RtRefsParts
<1>2. l + n + m # 0
  <2>1. CASE i \in RtLinked \/ i = rtDefault
    BY <1>1, <2>1 DEF RtLink
  <2>2. ASSUME NEW p \in RtProcs, rtHeld[p] = i PROVE n # 0
    BY <1>1, <2>2, RtUsersCount
  <2>3. ASSUME NEW p \in RtProcs, rtFresh[p] = i PROVE m # 0
    BY <1>1, <2>3, RtUsersCount
  <2> QED BY <1>1, <2>1, <2>2, <2>3
<1>3. RtRefsOf(i) # 0 /\ RtRefsOf(i) \in Nat
  BY <1>1, <1>2
<1>4. i \notin rtFree
  BY <1>3 DEF RtCounts
<1> QED BY <1>3, <1>4 DEF RtCounts

-----------------------------------------------------------------------------
\* The operations of a plan.
LEMMA RtOpsHas ==
    /\ OpFree \in RtOps /\ OpFree.op = "free"
    /\ \A x \in {"ifset", "lock", "unlock", "sent", "notify"} : OpDo(x) \in RtOps /\ OpDo(x).op = x
    /\ \A a \in Nat, b \in BOOLEAN : OpGet(a, b) \in RtOps /\ OpGet(a, b).op = "get"
    /\ \A a \in Nat, m \in 0..RtW : OpDel(a, m) \in RtOps /\ OpDel(a, m).op = "del"
    /\ \A r \in RtRoutes : r.ref = 1 /\ RtSound(r) => OpAdd(r) \in RtOps /\ OpAdd(r).op = "add"
    /\ \A m \in RtMasks : RtOp("mask", m) \in RtOps /\ RtOp("mask", m).op = "mask"
    /\ \A f \in {RtLocal, RtPrimary} : RtOp("scan", {f}) \in RtOps /\ RtOp("scan", {f}).op = "scan"
    /\ \A a \in Nat, b \in Nat, c \in Nat :
         RtOp("recv", <<a, b, c>>) \in RtOps /\ RtOp("recv", <<a, b, c>>).op = "recv"
    /\ \A a \in Nat, m \in 0..RtW, b \in Nat, c \in Nat : (a # 0 => m >= RtLow) =>
         /\ RtOp("redirect", <<a, m, b, c>>) \in RtOps
         /\ RtOp("redirect", <<a, m, b, c>>).op = "redirect"
<1>1. OpFree \in RtOps /\ OpFree.op = "free"
  BY DEF RtOps, RtOp, OpFree
<1>2. \A x \in {"ifset", "lock", "unlock", "sent", "notify"} : OpDo(x) \in RtOps /\ OpDo(x).op = x
  BY DEF RtOps, RtOp, OpDo
<1>3. \A a \in Nat, b \in BOOLEAN : OpGet(a, b) \in RtOps /\ OpGet(a, b).op = "get"
  BY DEF RtOps, RtOp, OpGet
<1>4. \A a \in Nat, m \in 0..RtW : OpDel(a, m) \in RtOps /\ OpDel(a, m).op = "del"
  BY DEF RtOps, RtOp, OpDel
<1>5. \A r \in RtRoutes : r.ref = 1 /\ RtSound(r) => OpAdd(r) \in RtOps /\ OpAdd(r).op = "add"
  <2> TAKE r \in RtRoutes
  <2> HAVE r.ref = 1 /\ RtSound(r)
  <2>1. r \in {s \in RtRoutes : s.ref = 1 /\ RtSound(s)}
    OBVIOUS
  <2> QED BY <2>1 DEF RtOps, RtOp, OpAdd
<1>6. \A m \in RtMasks : RtOp("mask", m) \in RtOps /\ RtOp("mask", m).op = "mask"
  BY DEF RtOps, RtOp
<1>7. \A f \in {RtLocal, RtPrimary} : RtOp("scan", {f}) \in RtOps /\ RtOp("scan", {f}).op = "scan"
  BY DEF RtOps, RtOp
<1>8. \A a \in Nat, b \in Nat, c \in Nat :
        RtOp("recv", <<a, b, c>>) \in RtOps /\ RtOp("recv", <<a, b, c>>).op = "recv"
  BY DEF RtOps, RtOp
<1>9. ASSUME NEW a \in Nat, NEW m \in 0..RtW, NEW b \in Nat, NEW c \in Nat, a # 0 => m >= RtLow
      PROVE  /\ RtOp("redirect", <<a, m, b, c>>) \in RtOps
             /\ RtOp("redirect", <<a, m, b, c>>).op = "redirect"
  <2>1. <<a, m, b, c>> \in {t \in Nat \X (0..RtW) \X Nat \X Nat : t[1] # 0 => t[2] >= RtLow}
    BY <1>9
  <2> QED BY <2>1 DEF RtOps, RtOp
<1> QED BY <1>1, <1>2, <1>3, <1>4, <1>5, <1>6, <1>7, <1>8, <1>9

\* A route as it is made.
LEMMA RtRecSound ==
    ASSUME NEW a \in Nat, NEW m \in 0..RtW, NEW g \in Nat, NEW c \in Nat,
           NEW f \in {RtLocal, RtPrimary}, NEW t \in Nat, t > 0, a # 0 => m >= RtLow
    PROVE  /\ RtRec(a, m, g, c, f, t) \in RtRoutes /\ RtRec(a, m, g, c, f, t).ref = 1
           /\ RtSound(RtRec(a, m, g, c, f, t))
           /\ RtRec(a, m, g, c, f, t).net = a /\ RtRec(a, m, g, c, f, t).mask = m
BY DEF RtRec, RtRoutes, RtSound

\* One process goes on to the plan w, with h from rtget and n from rtnew.
LEMMA RtPlansStep ==
    ASSUME RtTypes, RtPlans, RtRoles, NEW p \in RtProcs, NEW w \in Seq(RtOps),
           NEW h \in RtIds \cup {RtNone}, NEW n \in RtIds \cup {RtNone},
           rtWork' = [rtWork EXCEPT ![p] = w], rtHeld' = [rtHeld EXCEPT ![p] = h],
           rtFresh' = [rtFresh EXCEPT ![p] = n], RtPlan(w, h),
           n # RtNone => w # <<>> /\ w[1].op = "add" /\ RtMade(rtEnt'[n]),
           \A q \in RtProcs \ {p} : rtFresh[q] # RtNone => RtMade(rtEnt'[rtFresh[q]]),
           p = "ripout" => \A k \in DOMAIN w : w[k].op \in {"lock", "scan", "sent", "unlock"},
           p = "slow" => \A k \in DOMAIN w : w[k].op = "notify"
    PROVE  /\ RtPlans' /\ RtRoles' /\ rtWork' \in [RtProcs -> Seq(RtOps)]
           /\ rtHeld' \in [RtProcs -> RtIds \cup {RtNone}] /\ rtFresh' \in [RtProcs -> RtIds \cup {RtNone}]
<1>1. /\ rtWork \in [RtProcs -> Seq(RtOps)] /\ rtHeld \in [RtProcs -> RtIds \cup {RtNone}]
      /\ rtFresh \in [RtProcs -> RtIds \cup {RtNone}]
  BY DEF RtTypes
<1>2. /\ rtWork' \in [RtProcs -> Seq(RtOps)]
      /\ rtHeld' \in [RtProcs -> RtIds \cup {RtNone}] /\ rtFresh' \in [RtProcs -> RtIds \cup {RtNone}]
  BY <1>1
<1>3. \A q \in RtProcs : /\ rtWork'[q] = IF q = p THEN w ELSE rtWork[q]
                         /\ rtHeld'[q] = IF q = p THEN h ELSE rtHeld[q]
                         /\ rtFresh'[q] = IF q = p THEN n ELSE rtFresh[q]
  BY <1>1
<1>4. RtPlans'
  <2> SUFFICES ASSUME NEW q \in RtProcs
               PROVE  /\ RtPlan(rtWork'[q], rtHeld'[q])
                      /\ rtFresh'[q] # RtNone =>
                           rtWork'[q] # <<>> /\ rtWork'[q][1].op = "add" /\ RtMade(rtEnt'[rtFresh'[q]])
    BY DEF RtPlans, RtPlan, RtUses, RtMade, RtSound
  <2>1. CASE q = p
    BY <1>3, <2>1
  <2>2. CASE q # p
    BY <1>3, <2>2 DEF RtPlans
  <2> QED BY <2>1, <2>2
<1>5. RtRoles'
  <2>1. "ripout" \in RtProcs /\ "slow" \in RtProcs
    BY DEF RtProcs
  <2> QED BY <1>3, <2>1 DEF RtRoles
<1> QED BY <1>2, <1>4, <1>5

\* Nothing of the table changes.
LEMMA RtQuiet ==
    ASSUME RtPlaces, RtCounts, RtSorted, UNCHANGED <<rttable, rtDefault, rtEnt, rtFree, rtHeld, rtFresh>>
    PROVE  RtPlaces' /\ RtCounts' /\ RtSorted'
<1>1. RtLinked' = RtLinked
  BY DEF RtLinked
<1>2. \A i : RtRefsOf(i)' = RtRefsOf(i)
  BY <1>1 DEF RtRefsOf
<1>3. RtPlaces'
  BY <1>1 DEF RtPlaces, RtSound, rthash, RtPart
<1>4. RtCounts'
  BY <1>2 DEF RtCounts
<1>5. RtSorted'
  BY DEF RtSorted, RtSame
<1> QED BY <1>3, <1>4, <1>5

\* Who can be about to do op.
LEMMA RtWho ==
    ASSUME RtTypes, RtRoles, NEW p \in RtProcs, NEW op, RtDoing(p, op)
    PROVE  /\ rtWork[p] \in Seq(RtOps) /\ rtWork[p] # <<>> /\ rtWork[p][1].op = op
           /\ Head(rtWork[p]) = rtWork[p][1] /\ rtWork[p][1] \in RtOps
           /\ Tail(rtWork[p]) \in Seq(RtOps)
           /\ p = "ripout" => /\ op \in {"lock", "scan", "sent", "unlock"}
                              /\ \A k \in DOMAIN Tail(rtWork[p]) :
                                   Tail(rtWork[p])[k].op \in {"lock", "scan", "sent", "unlock"}
           /\ p = "slow" => /\ op = "notify"
                            /\ \A k \in DOMAIN Tail(rtWork[p]) : Tail(rtWork[p])[k].op = "notify"
           /\ op # "scan" =>
                ((\E k \in DOMAIN rtWork[p] : rtWork[p][k].op = "scan") =>
                  (\E k \in DOMAIN Tail(rtWork[p]) : Tail(rtWork[p])[k].op = "scan"))
<1>1. rtWork[p] \in Seq(RtOps) /\ rtWork[p] # <<>>
  BY DEF RtTypes, RtDoing
<1>2. /\ Head(rtWork[p]) = rtWork[p][1] /\ rtWork[p][1] \in RtOps /\ Tail(rtWork[p]) \in Seq(RtOps)
      /\ rtWork[p][1].op = op /\ 1 \in DOMAIN rtWork[p]
      /\ \A k \in DOMAIN Tail(rtWork[p]) : k + 1 \in DOMAIN rtWork[p] /\ Tail(rtWork[p])[k] = rtWork[p][k + 1]
      /\ \A k \in DOMAIN rtWork[p] : k # 1 =>
           k - 1 \in DOMAIN Tail(rtWork[p]) /\ Tail(rtWork[p])[k - 1] = rtWork[p][k]
  BY <1>1, RtRest DEF RtDoing
<1>3. p = "ripout" => /\ op \in {"lock", "scan", "sent", "unlock"}
                      /\ \A k \in DOMAIN Tail(rtWork[p]) :
                           Tail(rtWork[p])[k].op \in {"lock", "scan", "sent", "unlock"}
  BY <1>2 DEF RtRoles
<1>4. p = "slow" => /\ op = "notify"
                    /\ \A k \in DOMAIN Tail(rtWork[p]) : Tail(rtWork[p])[k].op = "notify"
  BY <1>2 DEF RtRoles
<1>5. ASSUME op # "scan", NEW k \in DOMAIN rtWork[p], rtWork[p][k].op = "scan"
      PROVE  \E j \in DOMAIN Tail(rtWork[p]) : Tail(rtWork[p])[j].op = "scan"
  BY <1>2, <1>5
<1> QED BY <1>1, <1>2, <1>3, <1>4, <1>5

\* A change is not forgotten when a process goes on.
LEMMA RtAnnouncedStep ==
    ASSUME RtTypes, RipAnnounced, NEW p \in RtProcs, NEW w, rtWork' = [rtWork EXCEPT ![p] = w],
           p = "slow" => ripMsg',
           p = "ripout" => ((\E k \in DOMAIN rtWork[p] : rtWork[p][k].op = "scan") =>
                              (\E k \in DOMAIN w : w[k].op = "scan")),
           ripMsg => ripMsg', ripDue' => ripDue \/ ripMsg', ripRq' = ripRq
    PROVE  RipAnnounced'
<1>1. rtWork \in [RtProcs -> Seq(RtOps)] /\ "ripout" \in RtProcs /\ "slow" \in RtProcs
  BY DEF RtTypes, RtProcs
<1>2. \A q \in RtProcs : rtWork'[q] = IF q = p THEN w ELSE rtWork[q]
  BY <1>1
<1>3. ASSUME ripDue', ~ripMsg'
      PROVE  rtWork'["slow"] # <<>> \/ \E k \in DOMAIN rtWork'["ripout"] : rtWork'["ripout"][k].op = "scan"
  <2>1. /\ p # "slow" /\ rtWork'["slow"] = rtWork["slow"]
        /\ \/ rtWork["slow"] # <<>>
           \/ \E k \in DOMAIN rtWork["ripout"] : rtWork["ripout"][k].op = "scan"
    BY <1>1, <1>2, <1>3 DEF RipAnnounced
  <2>2. CASE p = "ripout"
    BY <1>1, <1>2, <2>1, <2>2
  <2>3. CASE p # "ripout"
    BY <1>1, <1>2, <2>1, <2>3
  <2> QED BY <2>2, <2>3
<1> QED BY <1>3 DEF RipAnnounced

\* A process goes on and leaves the table alone.
LEMMA RtQuietStep ==
    ASSUME RtInv, NEW p \in RtProcs, NEW w \in Seq(RtOps), rtWork' = [rtWork EXCEPT ![p] = w],
           UNCHANGED <<rttable, rtDefault, rtEnt, rtFree, rtHeld, rtFresh>>,
           RtPlan(w, rtHeld[p]), rtFresh[p] = RtNone, rtMask' \in RtMasks,
           ripRq' \in [{RtLocal, RtPrimary} -> Nat], RipAnnounced',
           p = "ripout" => \A k \in DOMAIN w : w[k].op \in {"lock", "scan", "sent", "unlock"},
           p = "slow" => \A k \in DOMAIN w : w[k].op = "notify"
    PROVE  RtInv'
<1>1. RtTypes /\ RtPlans /\ RtRoles /\ RtPlaces /\ RtCounts /\ RtSorted
  BY DEF RtInv
<1>2. RtPlaces' /\ RtCounts' /\ RtSorted'
  BY <1>1, RtQuiet
<1>3. /\ rtHeld \in [RtProcs -> RtIds \cup {RtNone}] /\ rtFresh \in [RtProcs -> RtIds \cup {RtNone}]
      /\ rtHeld[p] \in RtIds \cup {RtNone} /\ RtNone \in RtIds \cup {RtNone}
  BY <1>1 DEF RtTypes
<1>4. rtHeld' = [rtHeld EXCEPT ![p] = rtHeld[p]] /\ rtFresh' = [rtFresh EXCEPT ![p] = RtNone]
  BY <1>3
<1>5. \A q \in RtProcs \ {p} : rtFresh[q] # RtNone => RtMade(rtEnt'[rtFresh[q]])
  BY <1>1 DEF RtPlans
<1>6. PICK h \in RtIds \cup {RtNone} : h = rtHeld[p]
  BY <1>3
<1>7. rtHeld' = [rtHeld EXCEPT ![p] = h] /\ RtPlan(w, h)
  BY <1>4, <1>6
<1>8. RtPlans' /\ RtRoles' /\ rtWork' \in [RtProcs -> Seq(RtOps)]
  BY <1>1, <1>3, <1>4, <1>5, <1>7, RtPlansStep
<1>9. RtTypes'
  BY <1>1, <1>8 DEF RtTypes
<1> QED BY <1>2, <1>8, <1>9 DEF RtInv

\* An operation that is no use of the route is done, as far as plans go.
LEMMA RtDoneStep ==
    ASSUME RtInv, NEW p \in RtProcs, NEW op, RtDoing(p, op), op \notin RtUsing \cup {"get", "add"},
           RtDone(p), UNCHANGED <<rttable, rtDefault, rtEnt, rtFree, rtHeld, rtFresh, rtMask>>,
           ripRq' \in [{RtLocal, RtPrimary} -> Nat], RipAnnounced'
    PROVE  RtInv'
<1>1. RtTypes /\ RtPlans /\ RtRoles
  BY DEF RtInv
<1> DEFINE w == Tail(rtWork[p])
<1>2. /\ rtWork[p] \in Seq(RtOps) /\ rtWork[p] # <<>> /\ rtWork[p][1].op = op /\ w \in Seq(RtOps)
      /\ p = "ripout" => \A k \in DOMAIN w : w[k].op \in {"lock", "scan", "sent", "unlock"}
      /\ p = "slow" => \A k \in DOMAIN w : w[k].op = "notify"
  BY <1>1, RtWho
<1>3. RtPlan(rtWork[p], rtHeld[p]) /\ rtFresh[p] = RtNone
  BY <1>1, <1>2 DEF RtPlans
<1>4. RtPlan(w, rtHeld[p])
  BY <1>2, <1>3, RtPlanDone
<1>5. rtWork' = [rtWork EXCEPT ![p] = w] /\ rtMask' \in RtMasks
  BY <1>1 DEF RtDone, RtTypes
<1> HIDE DEF w
<1> QED BY <1>2, <1>3, <1>4, <1>5, RtQuietStep

\* ripout is told, riplock is taken and given back.
LEMMA RtStepNotify ==
    ASSUME RtInv, NEW p \in RtProcs, rttimerNotify(p) \/ riplockWait(p) \/ riplockSignal(p)
    PROVE  RtInv'
<1>1. RtTypes /\ RtRoles /\ RipAnnounced
  BY DEF RtInv
<1>2. PICK op \in {"notify", "lock", "unlock"} :
        /\ RtDoing(p, op) /\ RtDone(p)
        /\ UNCHANGED <<rttable, rtDefault, rtEnt, rtFree, rtHeld, rtFresh, rtMask, ripRq, ripDue>>
        /\ IF op = "notify" THEN ripMsg' = TRUE ELSE ripMsg' = ripMsg
  BY DEF rttimerNotify, riplockWait, riplockSignal, RipNotify
<1> DEFINE w == Tail(rtWork[p])
<1>3. /\ p = "slow" => op = "notify"
      /\ ((\E k \in DOMAIN rtWork[p] : rtWork[p][k].op = "scan") => (\E k \in DOMAIN w : w[k].op = "scan"))
  <2>1. op # "scan"
    OBVIOUS
  <2> QED BY <1>1, <1>2, <2>1, RtWho
<1>4. rtWork' = [rtWork EXCEPT ![p] = w]
  BY <1>2 DEF RtDone
<1> HIDE DEF w
<1>5. RipAnnounced'
  <2>1. (p = "slow" => ripMsg') /\ (ripMsg => ripMsg') /\ (ripDue' => ripDue \/ ripMsg') /\ ripRq' = ripRq
    BY <1>2, <1>3
  <2> QED BY <1>1, <1>3, <1>4, <2>1, RtAnnouncedStep
<1>6. ripRq' \in [{RtLocal, RtPrimary} -> Nat] /\ op \notin RtUsing \cup {"get", "add"}
  BY <1>1, <1>2 DEF RtTypes, RtUsing
<1> QED BY <1>2, <1>5, <1>6, RtDoneStep

\* A use of the route is worked out.
LEMMA RtThenStep ==
    ASSUME RtInv, NEW p \in RtProcs, NEW op \in RtUsing, RtDoing(p, op),
           NEW ops \in Seq(RtOps), NEW f \in DOMAIN ops,
           \A k \in DOMAIN ops : ops[k].op \notin {"get", "mask"} /\ (ops[k].op \in RtUsing <=> k = f),
           RtThen(p, ops),
           UNCHANGED <<rttable, rtDefault, rtEnt, rtFree, rtHeld, rtFresh, rtMask, ripMsg, ripRq, ripDue>>
    PROVE  RtInv'
<1>1. RtTypes /\ RtPlans /\ RtRoles /\ RipAnnounced
  BY DEF RtInv
<1> DEFINE w == ops \o Tail(rtWork[p])
<1>2. rtWork[p] \in Seq(RtOps) /\ rtWork[p] # <<>> /\ rtWork[p][1].op = op /\ p \notin {"ripout", "slow"}
  BY <1>1, RtWho DEF RtUsing
<1>3. RtPlan(rtWork[p], rtHeld[p]) /\ rtFresh[p] = RtNone
  BY <1>1, <1>2 DEF RtPlans, RtUsing
<1>4. RtPlan(w, rtHeld[p]) /\ w \in Seq(RtOps)
  BY <1>2, <1>3, RtPlanThen
<1>5. rtWork' = [rtWork EXCEPT ![p] = w] /\ rtMask' \in RtMasks
      /\ ripRq' \in [{RtLocal, RtPrimary} -> Nat]
  BY <1>1 DEF RtThen, RtTypes
<1> HIDE DEF w
<1>6. RipAnnounced'
  BY <1>1, <1>2, <1>5, RtAnnouncedStep
<1> QED BY <1>2, <1>3, <1>4, <1>5, <1>6, RtQuietStep

\* Short sequences, one behind the other.
LEMMA RtTuples ==
    ASSUME NEW a, NEW b, NEW c
    PROVE  /\ <<>> \o <<a>> = <<a>> /\ <<a>> \o <<>> = <<a>> /\ <<a, b>> \o <<>> = <<a, b>>
           /\ <<a, b>> \o <<c>> = <<a, b, c>> /\ <<a>> \o <<b, c>> = <<a, b, c>>
           /\ <<a, b>> \o <<>> \o <<c>> = <<a, b, c>>
<1> DEFINE S == {a, b, c}
<1>1. <<>> \o <<a>> = <<a>> /\ <<a>> \o <<>> = <<a>> /\ <<a, b>> \o <<>> = <<a, b>>
  OBVIOUS
<1>2. /\ <<a>> \in Seq(S) /\ <<a, b>> \in Seq(S) /\ <<a, b, c>> \in Seq(S)
      /\ <<c>> \in Seq(S) /\ <<b, c>> \in Seq(S)
  OBVIOUS
<1> HIDE DEF S
<1>3. <<a, b>> \o <<c>> = <<a, b, c>>
  <2> DEFINE s == <<a, b>> \o <<c>>
             t == <<a, b, c>>
  <2>1. s \in Seq(S) /\ Len(s) = 3 /\ s[1] = a /\ s[2] = b /\ s[3] = c
    BY <1>2, ConcatElements
  <2>2. t \in Seq(S) /\ Len(t) = 3 /\ t[1] = a /\ t[2] = b /\ t[3] = c
    BY <1>2
  <2> HIDE DEF s, t
  <2>3. s = t
    BY <2>1, <2>2, SeqEqual
  <2> QED BY <2>3 DEF s, t
<1>4. <<a>> \o <<b, c>> = <<a, b, c>>
  <2> DEFINE s == <<a>> \o <<b, c>>
             t == <<a, b, c>>
  <2>1. s \in Seq(S) /\ Len(s) = 3 /\ s[1] = a /\ s[2] = b /\ s[3] = c
    BY <1>2, ConcatElements
  <2>2. t \in Seq(S) /\ Len(t) = 3 /\ t[1] = a /\ t[2] = b /\ t[3] = c
    BY <1>2
  <2> HIDE DEF s, t
  <2>3. s = t
    BY <2>1, <2>2, SeqEqual
  <2> QED BY <2>3 DEF s, t
<1> QED BY <1>1, <1>3, <1>4

\* Three operations and one are four.
LEMMA RtTuple4 == \A a, b, c, d : <<a, b, c>> \o <<d>> = <<a, b, c, d>>
<1> TAKE a, b, c, d
<1> DEFINE S == {a, b, c, d}
<1>2. <<a, b, c>> \in Seq(S) /\ <<a, b, c, d>> \in Seq(S) /\ <<d>> \in Seq(S)
  OBVIOUS
<1> HIDE DEF S
<1>5. <<a, b, c>> \o <<d>> = <<a, b, c, d>>
  <2> DEFINE s == <<a, b, c>> \o <<d>>
             t == <<a, b, c, d>>
  <2>1. s \in Seq(S) /\ Len(s) = 4 /\ s[1] = a /\ s[2] = b /\ s[3] = c /\ s[4] = d
    BY <1>2, ConcatElements
  <2>2. t \in Seq(S) /\ Len(t) = 4 /\ t[1] = a /\ t[2] = b /\ t[3] = c /\ t[4] = d
    BY <1>2
  <2> HIDE DEF s, t
  <2>3. s = t
    BY <2>1, <2>2, SeqEqual
  <2> QED BY <2>3 DEF s, t
<1> QED BY <1>5

\* A plan of four operations.
LEMMA RtFour ==
    ASSUME NEW a \in RtOps, NEW b \in RtOps, NEW c \in RtOps, NEW d \in RtOps
    PROVE  \E w \in Seq(RtOps) : /\ w = <<a, b, c, d>> /\ Len(w) = 4 /\ DOMAIN w = 1..4
                                 /\ w[1] = a /\ w[2] = b /\ w[3] = c /\ w[4] = d
<1> DEFINE w == <<a, b, c, d>>
<1>1. /\ w \in Seq(RtOps) /\ Len(w) = 4 /\ DOMAIN w = 1..4
      /\ w[1] = a /\ w[2] = b /\ w[3] = c /\ w[4] = d
  OBVIOUS
<1> HIDE DEF w
<1>2. \E u \in Seq(RtOps) : u = w /\ Len(u) = 4 /\ DOMAIN u = 1..4
                            /\ u[1] = a /\ u[2] = b /\ u[3] = c /\ u[4] = d
  BY <1>1
<1> QED BY <1>2 DEF w

\* What the process got a route for is worked out: an ICMP redirect, ...
LEMMA RtStepRedirect ==
    ASSUME RtInv, NEW p \in RtProcs, icredirectChange(p)
    PROVE  RtInv'
<1>1. RtTypes /\ RtPlans /\ RtRoles
  BY DEF RtInv
<1>2. /\ rtWork[p] \in Seq(RtOps) /\ rtWork[p] # <<>> /\ rtWork[p][1].op = "redirect"
      /\ Head(rtWork[p]) = rtWork[p][1] /\ rtWork[p][1] \in RtOps
  BY <1>1, RtWho DEF icredirectChange
<1> DEFINE a == Head(rtWork[p]).arg
           e == rtEnt[rtHeld[p]]
           r == RtRec(a[1], a[2], a[4], e.metric, e.ifn, IcRdTtl)
           ops == (IF a[3] = e.gw THEN <<OpDel(a[1], a[2]), OpAdd(r)>> ELSE <<>>) \o <<OpFree>>
<1>3. a[1] \in Nat /\ a[2] \in 0..RtW /\ a[4] \in Nat /\ (a[1] # 0 => a[2] >= RtLow)
  BY <1>2, RtOpTypes
<1>4. rtHeld[p] \in RtIds
  <2>1. rtHeld[p] # RtNone
    BY <1>1, <1>2, RtPlanFreed DEF RtPlans, RtUsing
  <2> QED BY <1>1, <2>1 DEF RtTypes
<1>5. e \in RtRoutes
  BY <1>1, <1>4 DEF RtTypes
<1>6. e.metric \in Nat /\ e.ifn \in {RtLocal, RtPrimary} /\ IcRdTtl \in Nat /\ IcRdTtl > 0
  BY <1>5, RtRipAssumption DEF RtRoutes
<1> HIDE DEF a, e
<1>7. r \in RtRoutes /\ r.ref = 1 /\ RtSound(r)
  <2>1. PICK x \in Nat, m \in 0..RtW, g \in Nat, c \in Nat, f \in {RtLocal, RtPrimary} :
          x = a[1] /\ m = a[2] /\ g = a[4] /\ c = e.metric /\ f = e.ifn
    BY <1>3, <1>6
  <2>2. x # 0 => m >= RtLow
    BY <1>3, <2>1
  <2>3. /\ RtRec(x, m, g, c, f, IcRdTtl) \in RtRoutes /\ RtRec(x, m, g, c, f, IcRdTtl).ref = 1
        /\ RtSound(RtRec(x, m, g, c, f, IcRdTtl))
    BY <1>6, <2>1, <2>2 DEF RtRec, RtRoutes, RtSound
  <2> QED BY <2>1, <2>3
<1> HIDE DEF r
<1>8. PICK f \in DOMAIN ops : ops \in Seq(RtOps) /\
        \A k \in DOMAIN ops : ops[k].op \notin {"get", "mask"} /\ (ops[k].op \in RtUsing <=> k = f)
  <2>1. /\ OpDel(a[1], a[2]) \in RtOps /\ OpAdd(r) \in RtOps /\ OpFree \in RtOps
        /\ OpDel(a[1], a[2]).op = "del" /\ OpAdd(r).op = "add" /\ OpFree.op = "free"
    BY <1>3, <1>7, RtOpsHas
  <2>2. CASE a[3] = e.gw
    <3>1. ops = <<OpDel(a[1], a[2]), OpAdd(r), OpFree>>
      BY <2>2, RtTuples
    <3> HIDE DEF ops
    <3>2. ops \in Seq(RtOps) /\ DOMAIN ops = 1..3 /\ ops[1].op = "del" /\ ops[2].op = "add" /\ ops[3].op = "free"
      BY <2>1, <3>1
    <3>3. 3 \in DOMAIN ops /\
            \A k \in DOMAIN ops : ops[k].op \notin {"get", "mask"} /\ (ops[k].op \in RtUsing <=> k = 3)
      BY <3>2 DEF RtUsing
    <3> QED BY <3>2, <3>3
  <2>3. CASE a[3] # e.gw
    <3>1. ops = <<OpFree>>
      BY <2>3
    <3> HIDE DEF ops
    <3>2. ops \in Seq(RtOps) /\ DOMAIN ops = 1..1 /\ ops[1].op = "free"
      BY <2>1, <3>1
    <3>3. 1 \in DOMAIN ops /\
            \A k \in DOMAIN ops : ops[k].op \notin {"get", "mask"} /\ (ops[k].op \in RtUsing <=> k = 1)
      BY <3>2 DEF RtUsing
    <3> QED BY <3>2, <3>3
  <2> QED BY <2>2, <2>3
<1>9. RtThen(p, ops)
  BY DEF icredirectChange, a, e, r
<1>10. "redirect" \in RtUsing /\ RtDoing(p, "redirect")
       /\ UNCHANGED <<rttable, rtDefault, rtEnt, rtFree, rtHeld, rtFresh, rtMask, ripMsg, ripRq, ripDue>>
  BY DEF icredirectChange, RtUsing
<1> HIDE DEF ops
<1> QED BY <1>8, <1>9, <1>10, RtThenStep

\* ... a RIP response, ...
LEMMA RtStepRecv ==
    ASSUME RtInv, NEW p \in RtProcs, riprecvAdd(p)
    PROVE  RtInv'
<1>1. RtTypes /\ RtPlans /\ RtRoles
  BY DEF RtInv
<1>2. /\ rtWork[p] \in Seq(RtOps) /\ rtWork[p] # <<>> /\ rtWork[p][1].op = "recv"
      /\ Head(rtWork[p]) = rtWork[p][1] /\ rtWork[p][1] \in RtOps
  BY <1>1, RtWho DEF riprecvAdd
<1> DEFINE a == Head(rtWork[p]).arg
           m == netmask(a[2])
           e == rtEnt[rtHeld[p]]
           r == RtRec(a[2], m, a[1], a[3], e.ifn, RipRtTtl)
           ops == <<OpFree, OpDo("lock")>> \o (IF ripok(a[2], a[3]) THEN <<OpAdd(r)>> ELSE <<>>)
                  \o <<OpDo("unlock")>>
<1>3. a[1] \in Nat /\ a[2] \in Nat /\ a[3] \in Nat
  BY <1>2, RtOpTypes
<1>4. rtHeld[p] \in RtIds
  <2>1. rtHeld[p] # RtNone
    BY <1>1, <1>2, RtPlanFreed DEF RtPlans, RtUsing
  <2> QED BY <1>1, <2>1 DEF RtTypes
<1>5. e \in RtRoutes
  BY <1>1, <1>4 DEF RtTypes
<1>6. e.ifn \in {RtLocal, RtPrimary} /\ RipRtTtl \in Nat /\ RipRtTtl > 0
  BY <1>5, RtRipAssumption DEF RtRoutes
<1>7. m \in 0..RtW /\ (a[2] # 0 => m >= RtLow)
  BY <1>1, <1>3, RtAddress DEF RtTypes
<1> HIDE DEF a, e, m
<1>8. r \in RtRoutes /\ r.ref = 1 /\ RtSound(r)
  <2>1. PICK x \in Nat, n \in 0..RtW, g \in Nat, c \in Nat, f \in {RtLocal, RtPrimary} :
          x = a[2] /\ n = m /\ g = a[1] /\ c = a[3] /\ f = e.ifn
    BY <1>3, <1>6, <1>7
  <2>2. x # 0 => n >= RtLow
    BY <1>7, <2>1
  <2>3. /\ RtRec(x, n, g, c, f, RipRtTtl) \in RtRoutes /\ RtRec(x, n, g, c, f, RipRtTtl).ref = 1
        /\ RtSound(RtRec(x, n, g, c, f, RipRtTtl))
    BY <1>6, <2>1, <2>2 DEF RtRec, RtRoutes, RtSound
  <2> QED BY <2>1, <2>3
<1> HIDE DEF r
<1>9. 1 \in DOMAIN ops /\ ops \in Seq(RtOps) /\
        \A k \in DOMAIN ops : ops[k].op \notin {"get", "mask"} /\ (ops[k].op \in RtUsing <=> k = 1)
  <2>1. /\ OpDo("lock") \in RtOps /\ OpDo("unlock") \in RtOps /\ OpAdd(r) \in RtOps /\ OpFree \in RtOps
        /\ OpDo("lock").op = "lock" /\ OpDo("unlock").op = "unlock"
        /\ OpAdd(r).op = "add" /\ OpFree.op = "free"
    BY <1>8, RtOpsHas
  <2>2. CASE ripok(a[2], a[3])
    <3>1. ops = <<OpFree, OpDo("lock")>> \o <<OpAdd(r)>> \o <<OpDo("unlock")>>
      BY <2>2
    <3>2. ops = <<OpFree, OpDo("lock"), OpAdd(r), OpDo("unlock")>>
      <4> HIDE DEF ops
      <4>1. <<OpFree, OpDo("lock")>> \o <<OpAdd(r)>> = <<OpFree, OpDo("lock"), OpAdd(r)>>
        BY RtTuples
      <4>2. <<OpFree, OpDo("lock"), OpAdd(r)>> \o <<OpDo("unlock")>>
              = <<OpFree, OpDo("lock"), OpAdd(r), OpDo("unlock")>>
        BY RtTuple4, Zenon
      <4> QED BY <3>1, <4>1, <4>2
    <3> HIDE DEF ops
    <3>3. /\ ops \in Seq(RtOps) /\ DOMAIN ops = 1..4 /\ ops[1].op = "free" /\ ops[2].op = "lock"
          /\ ops[3].op = "add" /\ ops[4].op = "unlock"
      BY <2>1, <3>2
    <3> QED BY <3>3 DEF RtUsing
  <2>3. CASE ~ripok(a[2], a[3])
    <3>1. ops = <<OpFree, OpDo("lock")>> \o <<>> \o <<OpDo("unlock")>>
      BY <2>3
    <3>2. ops = <<OpFree, OpDo("lock"), OpDo("unlock")>>
      <4> HIDE DEF ops
      <4> QED BY <3>1, RtTuples
    <3> HIDE DEF ops
    <3>3. /\ ops \in Seq(RtOps) /\ DOMAIN ops = 1..3 /\ ops[1].op = "free" /\ ops[2].op = "lock"
          /\ ops[3].op = "unlock"
      BY <2>1, <3>2
    <3> QED BY <3>3 DEF RtUsing
  <2> QED BY <2>2, <2>3
<1>10. RtThen(p, ops)
  BY DEF riprecvAdd, a, e, r, m
<1>11. "recv" \in RtUsing /\ RtDoing(p, "recv")
       /\ UNCHANGED <<rttable, rtDefault, rtEnt, rtFree, rtHeld, rtFresh, rtMask, ripMsg, ripRq, ripDue>>
  BY DEF riprecvAdd, RtUsing
<1> HIDE DEF ops
<1> QED BY <1>9, <1>10, <1>11, RtThenStep

\* ... a RIP request.
LEMMA RtStepIfset ==
    ASSUME RtInv, NEW p \in RtProcs, ripifset(p)
    PROVE  RtInv'
<1>1. RtTypes /\ RtPlans /\ RtRoles
  BY DEF RtInv
<1>2. rtWork[p] \in Seq(RtOps) /\ rtWork[p] # <<>> /\ rtWork[p][1].op = "ifset"
  BY <1>1, RtWho DEF ripifset
<1> DEFINE f == rtEnt[rtHeld[p]].ifn
           ops == <<OpFree>> \o IF f = RtLocal THEN <<>> ELSE <<RtOp("scan", {f}), OpDo("sent")>>
<1>3. rtHeld[p] \in RtIds
  <2>1. rtHeld[p] # RtNone
    BY <1>1, <1>2, RtPlanFreed DEF RtPlans, RtUsing
  <2> QED BY <1>1, <2>1 DEF RtTypes
<1>4. rtEnt[rtHeld[p]] \in RtRoutes
  BY <1>1, <1>3 DEF RtTypes
<1>5. f \in {RtLocal, RtPrimary}
  BY <1>4 DEF RtRoutes
<1> HIDE DEF f
<1>6. 1 \in DOMAIN ops /\ ops \in Seq(RtOps) /\
        \A k \in DOMAIN ops : ops[k].op \notin {"get", "mask"} /\ (ops[k].op \in RtUsing <=> k = 1)
  <2>1. /\ OpDo("sent") \in RtOps /\ RtOp("scan", {f}) \in RtOps /\ OpFree \in RtOps
        /\ OpDo("sent").op = "sent" /\ RtOp("scan", {f}).op = "scan" /\ OpFree.op = "free"
    BY <1>5, RtOpsHas
  <2>2. CASE f = RtLocal
    <3>1. ops = <<OpFree>>
      BY <2>2
    <3> HIDE DEF ops
    <3>2. ops \in Seq(RtOps) /\ DOMAIN ops = 1..1 /\ ops[1].op = "free"
      BY <2>1, <3>1
    <3> QED BY <3>2 DEF RtUsing
  <2>3. CASE f # RtLocal
    <3>1. ops = <<OpFree, RtOp("scan", {f}), OpDo("sent")>>
      BY <2>3, RtTuples
    <3> HIDE DEF ops
    <3>2. /\ ops \in Seq(RtOps) /\ DOMAIN ops = 1..3 /\ ops[1].op = "free" /\ ops[2].op = "scan"
          /\ ops[3].op = "sent"
      BY <2>1, <3>1
    <3> QED BY <3>2 DEF RtUsing
  <2> QED BY <2>2, <2>3
<1>7. RtThen(p, ops)
  BY DEF ripifset, f
<1>8. "ifset" \in RtUsing /\ RtDoing(p, "ifset")
       /\ UNCHANGED <<rttable, rtDefault, rtEnt, rtFree, rtHeld, rtFresh, rtMask, ripMsg, ripRq, ripDue>>
  BY DEF ripifset, RtUsing
<1> HIDE DEF ops
<1> QED BY <1>6, <1>7, <1>8, RtThenStep

-----------------------------------------------------------------------------
\* The routes setmask adds for the mask m.
RtAddsOf(m) ==
    <<OpAdd(RtRec(RtSubnetOf(m), m, RtMyIp, 0, RtPrimary, RtInf)),
      OpAdd(RtRec(RtBrcOf(m), RtMaskAll, RtMyIp, 0, RtLocal, RtInf)),
      OpAdd(RtRec(RtSubnetOf(m), RtMaskAll, RtMyIp, 0, RtLocal, RtInf))>>

\* What setmask adds are routes that may be linked.
LEMMA RtAddsSound ==
    ASSUME NEW m \in RtMasks
    PROVE  /\ RtAddsOf(m) \in Seq(RtOps) /\ DOMAIN RtAddsOf(m) = 1..3
           /\ \A k \in 1..3 : /\ RtAddsOf(m)[k].op = "add" /\ RtAddsOf(m)[k].arg \in RtRoutes
                              /\ RtAddsOf(m)[k].arg.ref = 1 /\ RtSound(RtAddsOf(m)[k].arg)
           /\ RtAddsOf(m)[1].arg.net = RtSubnetOf(m) /\ RtAddsOf(m)[1].arg.mask = m
           /\ RtAddsOf(m)[2].arg.net = RtBrcOf(m) /\ RtAddsOf(m)[2].arg.mask = RtW
           /\ RtAddsOf(m)[3].arg.net = RtSubnetOf(m) /\ RtAddsOf(m)[3].arg.mask = RtW
<1>1. PICK s \in Nat, b \in Nat : s = RtSubnetOf(m) /\ b = RtBrcOf(m)
  BY RtOwnNet
<1>2. /\ m \in 0..RtW /\ m >= RtLow /\ RtW \in 0..RtW /\ RtW >= RtLow /\ RtMyIp \in Nat
      /\ RtInf \in Nat /\ RtInf > 0 /\ RtLow \in Nat
  BY RtRipAssumption, RtLowest
<1> DEFINE x == RtRec(s, m, RtMyIp, 0, RtPrimary, RtInf)
           y == RtRec(b, RtW, RtMyIp, 0, RtLocal, RtInf)
           z == RtRec(s, RtW, RtMyIp, 0, RtLocal, RtInf)
<1>3. x \in RtRoutes /\ x.ref = 1 /\ RtSound(x) /\ x.net = s /\ x.mask = m
  BY <1>1, <1>2 DEF RtRec, RtRoutes, RtSound
<1>4. y \in RtRoutes /\ y.ref = 1 /\ RtSound(y) /\ y.net = b /\ y.mask = RtW
  BY <1>1, <1>2 DEF RtRec, RtRoutes, RtSound
<1>5. z \in RtRoutes /\ z.ref = 1 /\ RtSound(z) /\ z.net = s /\ z.mask = RtW
  BY <1>1, <1>2 DEF RtRec, RtRoutes, RtSound
<1>6. RtAddsOf(m) = <<OpAdd(x), OpAdd(y), OpAdd(z)>>
  BY <1>1 DEF RtAddsOf, RtMaskAll
<1> HIDE DEF x, y, z
<1>7. /\ OpAdd(x) \in RtOps /\ OpAdd(y) \in RtOps /\ OpAdd(z) \in RtOps
      /\ OpAdd(x).op = "add" /\ OpAdd(y).op = "add" /\ OpAdd(z).op = "add"
  BY <1>3, <1>4, <1>5, RtOpsHas
<1>8. OpAdd(x).arg = x /\ OpAdd(y).arg = y /\ OpAdd(z).arg = z
  BY DEF OpAdd, RtOp
<1>9. PICK t : t = RtAddsOf(m)
  OBVIOUS
<1>10. /\ t \in Seq(RtOps) /\ DOMAIN t = 1..3
       /\ t[1] = OpAdd(x) /\ t[2] = OpAdd(y) /\ t[3] = OpAdd(z)
  BY <1>6, <1>7, <1>9
<1>11. \A k \in 1..3 : k = 1 \/ k = 2 \/ k = 3
  OBVIOUS
<1>12. \A k \in 1..3 : t[k].op = "add" /\ t[k].arg \in RtRoutes /\ t[k].arg.ref = 1 /\ RtSound(t[k].arg)
  BY <1>3, <1>4, <1>5, <1>7, <1>8, <1>10, <1>11
<1> QED BY <1>1, <1>3, <1>4, <1>5, <1>8, <1>9, <1>10, <1>12

\* The interface gets its mask.
LEMMA RtStepMask ==
    ASSUME RtInv, NEW p \in RtProcs, setmaskSet(p)
    PROVE  RtInv'
<1>1. RtTypes /\ RtPlans /\ RtRoles /\ RipAnnounced
  BY DEF RtInv
<1>2. /\ rtWork[p] \in Seq(RtOps) /\ rtWork[p] # <<>> /\ rtWork[p][1].op = "mask"
      /\ Head(rtWork[p]) = rtWork[p][1] /\ rtWork[p][1] \in RtOps /\ p \notin {"ripout", "slow"}
  BY <1>1, RtWho DEF setmaskSet
<1>3. PICK m \in RtMasks : m = Head(rtWork[p]).arg
  BY <1>2, RtOpTypes
<1>4. rtMask' = m /\ rtWork' = [rtWork EXCEPT ![p] = setmaskAdds']
      /\ UNCHANGED <<rttable, rtDefault, rtEnt, rtFree, rtHeld, rtFresh, ripMsg, ripRq, ripDue>>
  BY <1>3 DEF setmaskSet
<1>5. setmaskAdds' = RtAddsOf(m)
  BY <1>4 DEF setmaskAdds, RtAddsOf, RtSubnet, RtBrc, RtSubnetOf, RtBrcOf
<1>6. PICK w \in Seq(RtOps) : w = RtAddsOf(m) /\ \A k \in DOMAIN w : w[k].op = "add"
  BY <1>3, RtAddsSound
<1>7. rtWork' = [rtWork EXCEPT ![p] = w]
  BY <1>4, <1>5, <1>6
<1>8. rtHeld[p] = RtNone /\ rtFresh[p] = RtNone
  <2>1. RtPlan(rtWork[p], rtHeld[p]) /\ 1 \in DOMAIN rtWork[p] /\ rtFresh[p] = RtNone
    BY <1>1, <1>2, RtRest DEF RtPlans
  <2> QED BY <1>2, <2>1 DEF RtPlan
<1>9. RtPlan(w, rtHeld[p])
  <2>1. \A k \in DOMAIN w : w[k].op \notin RtUsing \cup {"get"} /\ w[k].op # "mask"
    BY <1>6 DEF RtUsing
  <2> QED BY <1>6, <1>8, <2>1, RtPlanPlain
<1>10. ripRq' \in [{RtLocal, RtPrimary} -> Nat] /\ rtMask' \in RtMasks
  BY <1>1, <1>3, <1>4 DEF RtTypes
<1>11. RipAnnounced'
  BY <1>1, <1>2, <1>4, <1>7, RtAnnouncedStep
<1> QED BY <1>2, <1>4, <1>6, <1>7, <1>8, <1>9, <1>10, <1>11, RtQuietStep

-----------------------------------------------------------------------------
\* An update fits into the packets of its queue.
LEMMA RtLinkedIds ==
    ASSUME RtTypes
    PROVE  RtLinked \subseteq RtIds
<1>1. ASSUME NEW h \in DOMAIN rttable PROVE Range(rttable[h]) \subseteq RtIds
  <2>1. PICK q \in Seq(RtIds) : q = rttable[h]
    BY DEF RtTypes
  <2>2. \A k \in DOMAIN q : q[k] \in RtIds
    OBVIOUS
  <2> QED BY <2>1, <2>2 DEF Range
<1> QED BY <1>1 DEF RtLinked

\* An update has no more packets than the queue holds.
LEMMA RipFits ==
    ASSUME RtTypes, NEW f
    PROVE  ripstart(f) \in 0..MaxNRip
<1>1. ripadds(f) \subseteq 1..RtBpSize
  BY RtLinkedIds DEF RtTypes, ripadds, RtIds
<1>2. RtBpSize \in Nat /\ MaxRipRoutes \in Nat \ {0} /\ MaxNRip \in Nat /\ RtBpSize <= MaxRipRoutes * MaxNRip
  BY RtRipAssumption
<1>3. IsFiniteSet(1..RtBpSize) /\ Cardinality(1..RtBpSize) = RtBpSize
  <2>1. 1 \in Int /\ RtBpSize \in Int
    BY <1>2
  <2>2. IsFiniteSet(1..RtBpSize) /\ Cardinality(1..RtBpSize) = IF 1 > RtBpSize THEN 0 ELSE RtBpSize - 1 + 1
    BY <2>1, FS_Interval
  <2> QED BY <1>2, <2>2, RtRipAssumption
<1>4. IsFiniteSet(ripadds(f)) /\ Cardinality(ripadds(f)) <= RtBpSize
  BY <1>1, <1>3, FS_Subset
<1>5. Cardinality(ripadds(f)) \in Nat
  BY <1>4, FS_CardinalityType
<1>6. PICK c \in Nat, M \in Nat \ {0}, N \in Nat :
        c = Cardinality(ripadds(f)) /\ M = MaxRipRoutes /\ N = MaxNRip /\ c <= M * N
  <2>1. PICK c \in Nat, M \in Nat \ {0}, N \in Nat, B \in Nat :
          /\ c = Cardinality(ripadds(f)) /\ M = MaxRipRoutes /\ N = MaxNRip /\ B = RtBpSize
          /\ c <= B /\ B <= M * N
    BY <1>2, <1>4, <1>5
  <2>2. PICK P \in Nat : P = M * N
    BY <2>1
  <2> QED BY <2>1, <2>2
<1>7. PICK a \in Nat : a = c + M - 1
  BY <1>6
<1>8. PICK q \in Nat : q = a \div M
  BY <1>6, <1>7, RtQuotient
<1>9. PICK r \in 0..(M - 1) : a = q * M + r
  <2>1. PICK P \in Nat \ {0}, b \in Nat : P = M /\ b = a
    BY <1>6, <1>7
  <2>2. \E r \in 0..(P - 1) : b = (b \div P) * P + r
    BY <2>1, RtQuotient
  <2> QED BY <1>8, <2>1, <2>2
<1>10. q <= N
  <2> SUFFICES ASSUME q >= N + 1 PROVE FALSE
    BY <1>6, <1>8
  <2>1. q * M >= (N + 1) * M
    BY <1>6, <1>8
  <2>2. PICK x \in Nat, y \in Nat : x = q * M /\ y = N * M
    BY <1>6, <1>8
  <2>3. (N + 1) * M = y + M /\ M * N = y
    BY <1>6, <2>2
  <2> QED BY <1>6, <1>7, <1>9, <2>1, <2>2, <2>3
<1>11. ripstart(f) = q
  BY <1>6, <1>7, <1>8 DEF ripstart
<1> QED BY <1>6, <1>8, <1>10, <1>11

\* ripsend scans the table.
LEMMA RtStepSend ==
    ASSUME RtInv, NEW p \in RtProcs, ripsend(p)
    PROVE  RtInv'
<1>1. RtTypes /\ RtPlans /\ RtRoles /\ RipAnnounced
  BY DEF RtInv
<1>2. /\ RtDoing(p, "scan") /\ RtDone(p) /\ (ripDue' = (ripDue /\ p # "ripout"))
      /\ UNCHANGED <<rttable, rtDefault, rtEnt, rtFree, rtHeld, rtFresh, rtMask, ripMsg>>
      /\ ripRq' = [f \in DOMAIN ripRq |-> IF f \in Head(rtWork[p]).arg THEN ripstart(f) ELSE 0]
  BY DEF ripsend
<1>3. DOMAIN ripRq = {RtLocal, RtPrimary} /\ MaxNRip \in Nat
  BY <1>1, RtRipAssumption DEF RtTypes
<1>4. \A f \in {RtLocal, RtPrimary} : ripRq'[f] \in 0..MaxNRip
  BY <1>1, <1>2, <1>3, RipFits
<1>5. ripRq' \in [{RtLocal, RtPrimary} -> Nat] /\ \A f \in DOMAIN ripRq' : ripRq'[f] <= MaxNRip
  BY <1>2, <1>3, <1>4
<1>6. p # "slow"
  BY <1>1, <1>2, RtWho
<1>7. /\ rtWork' = [rtWork EXCEPT ![p] = Tail(rtWork[p])] /\ rtWork \in [RtProcs -> Seq(RtOps)]
      /\ "slow" \in RtProcs /\ "ripout" \in RtProcs
  BY <1>1, <1>2 DEF RtDone, RtTypes, RtProcs
<1>8. RipAnnounced'
  BY <1>1, <1>2, <1>5, <1>6, <1>7 DEF RipAnnounced
<1>9. "scan" \notin RtUsing \cup {"get", "add"}
  BY DEF RtUsing
<1> QED BY <1>2, <1>5, <1>8, <1>9, RtDoneStep

\* ripsend releases ri_mutex.
LEMMA RtStepSent ==
    ASSUME RtInv, NEW p \in RtProcs, ripsendOut(p)
    PROVE  RtInv'
<1>1. RtTypes /\ RtPlans /\ RtRoles /\ RipAnnounced
  BY DEF RtInv
<1>2. /\ RtDoing(p, "sent") /\ RtDone(p)
      /\ UNCHANGED <<rttable, rtDefault, rtEnt, rtFree, rtHeld, rtFresh, rtMask, ripMsg, ripDue>>
      /\ ripRq' = [f \in DOMAIN ripRq |-> 0]
  BY DEF ripsendOut
<1>3. DOMAIN ripRq = {RtLocal, RtPrimary} /\ MaxNRip \in Nat
  BY <1>1, RtRipAssumption DEF RtTypes
<1>4. ripRq' \in [{RtLocal, RtPrimary} -> Nat] /\ \A f \in DOMAIN ripRq' : ripRq'[f] <= MaxNRip
  BY <1>2, <1>3
<1> DEFINE w == Tail(rtWork[p])
<1>5. /\ p # "slow"
      /\ ((\E k \in DOMAIN rtWork[p] : rtWork[p][k].op = "scan") => (\E k \in DOMAIN w : w[k].op = "scan"))
  <2>1. "sent" # "scan" /\ "sent" # "notify"
    OBVIOUS
  <2> QED BY <1>1, <1>2, <2>1, RtWho
<1>6. /\ rtWork' = [rtWork EXCEPT ![p] = w] /\ rtWork \in [RtProcs -> Seq(RtOps)]
      /\ "slow" \in RtProcs /\ "ripout" \in RtProcs
  BY <1>1, <1>2 DEF RtDone, RtTypes, RtProcs
<1> HIDE DEF w
<1>7. /\ rtWork'["slow"] = rtWork["slow"]
      /\ (\E k \in DOMAIN rtWork["ripout"] : rtWork["ripout"][k].op = "scan") =>
           (\E k \in DOMAIN rtWork'["ripout"] : rtWork'["ripout"][k].op = "scan")
  <2>1. CASE p = "ripout"
    BY <1>5, <1>6, <2>1
  <2>2. CASE p # "ripout"
    BY <1>5, <1>6, <2>2
  <2> QED BY <2>1, <2>2
<1>8. RipAnnounced'
  BY <1>1, <1>2, <1>4, <1>7 DEF RipAnnounced
<1>9. "sent" \notin RtUsing \cup {"get", "add"}
  BY DEF RtUsing
<1> QED BY <1>2, <1>4, <1>8, <1>9, RtDoneStep

-----------------------------------------------------------------------------
\* A call comes in.
LEMMA RtStartStep ==
    ASSUME RtInv, NEW p \in {"ip", "ripin"}, NEW w \in Seq(RtOps), RtPlan(w, RtNone), RtStart(p, w)
    PROVE  RtInv'
<1>1. RtTypes /\ RtPlans /\ RtRoles /\ RipAnnounced
  BY DEF RtInv
<1>2. p \in RtProcs /\ p \notin {"ripout", "slow"}
  BY DEF RtProcs
<1>3. /\ rtHeld[p] = RtNone /\ rtWork[p] = <<>> /\ rtWork' = [rtWork EXCEPT ![p] = w]
      /\ UNCHANGED <<rttable, rtDefault, rtEnt, rtFree, rtMask, rtHeld, rtFresh, ripMsg, ripRq, ripDue>>
  BY DEF RtStart, RtIdle
<1>4. rtFresh[p] = RtNone
  BY <1>1, <1>2, <1>3 DEF RtPlans
<1>5. RipAnnounced'
  BY <1>1, <1>2, <1>3, RtAnnouncedStep
<1>6. rtMask' \in RtMasks /\ ripRq' \in [{RtLocal, RtPrimary} -> Nat] /\ RtPlan(w, rtHeld[p])
  BY <1>1, <1>3 DEF RtTypes
<1> QED BY <1>2, <1>3, <1>4, <1>5, <1>6, RtQuietStep

\* The calls: a packet to route, a redirect, RIP input, ...
LEMMA RtStepCall ==
    ASSUME RtInv,
           \/ RtRoutePacket("ip")
           \/ \E dst \in RtDests, host \in BOOLEAN, src, gw \in RtGws : icredirect(dst, host, src, gw)
           \/ rip
    PROVE  RtInv'
<1>1. RtTypes
  BY DEF RtInv
<1>2. PICK p \in {"ip", "ripin"}, a \in RtOps, b \in RtOps :
        a.op = "get" /\ b.op \in RtUsing /\ RtStart(p, <<a, b>>)
  <2>1. CASE RtRoutePacket("ip")
    <3>1. PICK dst \in RtDests, local \in BOOLEAN : RtStart("ip", <<OpGet(dst, local), OpFree>>)
      BY <2>1 DEF RtRoutePacket
    <3>2. dst \in Nat
      BY <3>1, RtRipAssumption
    <3>3. /\ OpGet(dst, local) \in RtOps /\ OpGet(dst, local).op = "get"
          /\ OpFree \in RtOps /\ OpFree.op \in RtUsing
      BY <3>1, <3>2, RtOpsHas DEF RtUsing
    <3> QED BY <3>1, <3>3
  <2>2. ASSUME NEW dst \in RtDests, NEW host \in BOOLEAN, NEW src \in RtGws, NEW gw \in RtGws,
               icredirect(dst, host, src, gw)
        PROVE  \E q \in {"ip", "ripin"}, x \in RtOps, y \in RtOps :
                 x.op = "get" /\ y.op \in RtUsing /\ RtStart(q, <<x, y>>)
    <3>1. dst \in Nat /\ src \in Nat /\ gw \in Nat
      BY RtRipAssumption
    <3>2. PICK m \in 0..RtW : (dst # 0 => m >= RtLow) /\ m = IF host THEN RtMaskAll ELSE netmask(dst)
      <4>1. netmask(dst) \in 0..RtW /\ (dst # 0 => netmask(dst) >= RtLow)
        BY <1>1, <3>1, RtAddress DEF RtTypes
      <4>2. RtMaskAll \in 0..RtW /\ RtMaskAll >= RtLow
        BY RtLowest DEF RtMaskAll
      <4> QED BY <4>1, <4>2
    <3> DEFINE y == RtOp("redirect", <<dst, m, src, gw>>)
               x == OpGet(dst, TRUE)
    <3>3. y \in RtOps /\ y.op \in RtUsing
      BY <3>1, <3>2, RtOpsHas DEF RtUsing
    <3>4. x \in RtOps /\ x.op = "get"
      BY <3>1, RtOpsHas
    <3>5. RtStart("ip", <<x, y>>)
      BY <2>2, <3>2 DEF icredirect
    <3> HIDE DEF x, y
    <3> QED BY <3>3, <3>4, <3>5
  <2>3. ASSUME NEW gw \in RtGws, NEW net \in RipNets, NEW m \in RipMetrics, riprecv(gw, net, m)
        PROVE  \E q \in {"ip", "ripin"}, x \in RtOps, y \in RtOps :
                 x.op = "get" /\ y.op \in RtUsing /\ RtStart(q, <<x, y>>)
    <3>1. gw \in Nat /\ net \in Nat /\ m \in Nat
      BY RtRipAssumption
    <3> DEFINE y == RtOp("recv", <<gw, net, m>>)
               x == OpGet(gw, FALSE)
    <3>2. y \in RtOps /\ y.op \in RtUsing
      BY <3>1, RtOpsHas DEF RtUsing
    <3>3. x \in RtOps /\ x.op = "get"
      BY <3>1, RtOpsHas
    <3>4. RtStart("ripin", <<x, y>>)
      BY <2>3 DEF riprecv
    <3> HIDE DEF x, y
    <3> QED BY <3>2, <3>3, <3>4
  <2>4. ASSUME NEW dst \in RtGws, NEW whole \in BOOLEAN, riprepl(dst, whole)
        PROVE  \E q \in {"ip", "ripin"}, x \in RtOps, y \in RtOps :
                 x.op = "get" /\ y.op \in RtUsing /\ RtStart(q, <<x, y>>)
    <3>1. dst \in Nat
      BY RtRipAssumption
    <3>2. OpGet(dst, TRUE) \in RtOps /\ OpGet(dst, TRUE).op = "get"
      BY <3>1, RtOpsHas
    <3>3. OpFree \in RtOps /\ OpFree.op \in RtUsing /\ OpDo("ifset") \in RtOps /\ OpDo("ifset").op \in RtUsing
      BY RtOpsHas DEF RtUsing
    <3>4. \/ RtStart("ripin", <<OpGet(dst, TRUE), OpFree>>)
          \/ RtStart("ripin", <<OpGet(dst, TRUE), OpDo("ifset")>>)
      BY <2>4 DEF riprepl
    <3> QED BY <3>2, <3>3, <3>4
  <2> QED BY <2>1, <2>2, <2>3, <2>4 DEF rip
<1>3. <<a, b>> \in Seq(RtOps) /\ RtPlan(<<a, b>>, RtNone)
  BY <1>2, RtPlanAsk
<1> QED BY <1>2, <1>3, RtStartStep

\* ... an ICMP mask reply.
LEMMA RtStepMaskReply ==
    ASSUME RtInv, icmpMaskReply
    PROVE  RtInv'
<1>1. RtTypes
  BY DEF RtInv
<1>2. PICK m \in RtMasks : RtStart("ip", setmask(m))
  BY DEF icmpMaskReply
<1>3. RtOp("mask", m) \in RtOps /\ RtOp("mask", m).op = "mask"
  BY <1>2, RtOpsHas
<1>4. rtMask \in RtMasks /\ rtMask # 0 /\ rtMask \in 0..RtW /\ RtMaskAll \in 0..RtW
  BY <1>1, RtRipAssumption DEF RtTypes, RtMaskAll
<1>5. RtSubnet \in Nat /\ RtBrc \in Nat
  BY <1>4, RtOwnNet DEF RtSubnet, RtBrc, RtSubnetOf, RtBrcOf
<1> DEFINE a == OpDel(RtSubnet, rtMask)
           b == OpDel(RtBrc, RtMaskAll)
           c == OpDel(RtSubnet, RtMaskAll)
           d == RtOp("mask", m)
<1>6. a \in RtOps /\ b \in RtOps /\ c \in RtOps /\ a.op = "del" /\ b.op = "del" /\ c.op = "del"
  BY <1>4, <1>5, RtOpsHas
<1>7. setmask(m) = <<a, b, c>> \o <<d>>
  BY <1>4 DEF setmask
<1> HIDE DEF a, b, c
<1>8. setmask(m) = <<a, b, c, d>>
  BY <1>7, RtTuple4, Zenon
<1>9. PICK w \in Seq(RtOps) : w = setmask(m) /\ Len(w) = 4 /\ DOMAIN w = 1..4
                             /\ w[1] = a /\ w[2] = b /\ w[3] = c /\ w[4] = d
  <2> HIDE DEF d
  <2>1. d \in RtOps
    BY <1>3 DEF d
  <2>2. PICK w \in Seq(RtOps) : /\ w = <<a, b, c, d>> /\ Len(w) = 4 /\ DOMAIN w = 1..4
                                /\ w[1] = a /\ w[2] = b /\ w[3] = c /\ w[4] = d
    BY <1>6, <2>1, RtFour, SMTT(40)
  <2>3. w = setmask(m)
    BY <1>8, <2>2
  <2> QED BY <2>2, <2>3
<1>10. \A k \in 1..4 : k = 1 \/ k = 2 \/ k = 3 \/ k = 4
  OBVIOUS
<1>11. \A k \in DOMAIN w : w[k].op \notin RtUsing \cup {"get"} /\ (w[k].op = "mask" => k = Len(w))
  BY <1>3, <1>6, <1>9, <1>10 DEF RtUsing
<1>12. RtPlan(w, RtNone)
  BY <1>11, RtPlanPlain
<1> QED BY <1>2, <1>9, <1>12, RtStartStep

\* ripout wakes.
LEMMA RtStepRipout ==
    ASSUME RtInv, ripout
    PROVE  RtInv'
<1>1. RtTypes /\ RtPlans /\ RtRoles /\ RipAnnounced
  BY DEF RtInv
<1> DEFINE b == RtOp("scan", {RtPrimary})
           v == <<OpDo("lock"), b, OpDo("sent"), OpDo("unlock")>>
<1>2. /\ OpDo("lock") \in RtOps /\ b \in RtOps /\ OpDo("sent") \in RtOps /\ OpDo("unlock") \in RtOps
      /\ OpDo("lock").op = "lock" /\ b.op = "scan" /\ OpDo("sent").op = "sent" /\ OpDo("unlock").op = "unlock"
  BY RtOpsHas
<1>3. /\ rtHeld["ripout"] = RtNone /\ rtWork["ripout"] = <<>> /\ rtWork' = [rtWork EXCEPT !["ripout"] = v]
      /\ UNCHANGED <<rttable, rtDefault, rtEnt, rtFree, rtMask, rtHeld, rtFresh, ripRq, ripDue>>
  BY DEF ripout, RtIdle
<1> HIDE DEF b
<1>4. PICK w \in Seq(RtOps) : w = v /\ DOMAIN w = 1..4
         /\ w[1].op = "lock" /\ w[2].op = "scan" /\ w[3].op = "sent" /\ w[4].op = "unlock"
  <2>1. PICK w \in Seq(RtOps) : /\ w = v /\ DOMAIN w = 1..4 /\ w[1] = OpDo("lock") /\ w[2] = b
                                /\ w[3] = OpDo("sent") /\ w[4] = OpDo("unlock")
    BY <1>2, RtFour, SMTT(40)
  <2> QED BY <1>2, <2>1
<1> HIDE DEF v
<1>5. \A k \in DOMAIN w : w[k].op \in {"lock", "scan", "sent", "unlock"}
  BY <1>4
<1>6. RtPlan(w, RtNone)
  <2>1. \A k \in DOMAIN w : w[k].op \notin RtUsing \cup {"get"} /\ w[k].op # "mask"
    BY <1>5 DEF RtUsing
  <2> QED BY <2>1, RtPlanPlain
<1>7. /\ "ripout" \in RtProcs /\ rtWork' = [rtWork EXCEPT !["ripout"] = w] /\ RtPlan(w, rtHeld["ripout"])
      /\ rtWork'["ripout"] = w /\ 2 \in DOMAIN w /\ w[2].op = "scan"
      /\ rtMask' \in RtMasks /\ ripRq' \in [{RtLocal, RtPrimary} -> Nat]
  BY <1>1, <1>3, <1>4, <1>6 DEF RtProcs, RtTypes
<1>8. rtFresh["ripout"] = RtNone
  BY <1>1, <1>3, <1>7 DEF RtPlans
<1>9. RipAnnounced'
  BY <1>1, <1>3, <1>7 DEF RipAnnounced
<1> QED BY <1>3, <1>5, <1>7, <1>8, <1>9, RtQuietStep

-----------------------------------------------------------------------------
\* The references of a route after a step of p.
RtOne(b) == IF b THEN 1 ELSE 0

\* How the references to a route change when one process takes a step.
LEMMA RtRefsStep ==
    ASSUME NEW p \in RtProcs, NEW i,
           \A q \in RtProcs \ {p} : rtHeld'[q] = rtHeld[q] /\ rtFresh'[q] = rtFresh[q]
    PROVE  /\ RtRefsOf(i) \in Nat /\ RtRefsOf(i)' \in Nat /\ RtLink(i) \in {0, 1} /\ RtLink(i)' \in {0, 1}
           /\ RtRefsOf(i)' + RtLink(i) + RtOne(rtHeld[p] = i) + RtOne(rtFresh[p] = i)
              = RtRefsOf(i) + RtLink(i)' + RtOne(rtHeld'[p] = i) + RtOne(rtFresh'[p] = i)
<1>1. PICK l \in {0, 1}, n \in Nat, m \in Nat :
        /\ l = RtLink(i) /\ n = Cardinality(RtUsers(rtHeld, i)) /\ m = Cardinality(RtUsers(rtFresh, i))
        /\ RtRefsOf(i) = l + n + m
  BY RtRefsParts
<1>2. /\ RtRefsOf(i)' = RtLink(i)' + Cardinality(RtUsers(rtHeld', i)) + Cardinality(RtUsers(rtFresh', i))
      /\ RtLink(i)' \in {0, 1}
  BY DEF RtRefsOf, RtLink, RtUsers
<1>3. Cardinality(RtUsers(rtHeld', i)) \in Nat /\ Cardinality(RtUsers(rtFresh', i)) \in Nat
  BY RtUsersCount
<1>4. PICK k \in {0, 1}, u \in Nat, v \in Nat :
        /\ k = RtLink(i)' /\ u = Cardinality(RtUsers(rtHeld', i)) /\ v = Cardinality(RtUsers(rtFresh', i))
        /\ RtRefsOf(i)' = k + u + v
  BY <1>2, <1>3
<1>5. u + RtOne(rtHeld[p] = i) = n + RtOne(rtHeld'[p] = i)
  <2>1. /\ (rtHeld[p] = i <=> rtHeld'[p] = i) => u = n
        /\ rtHeld[p] # i /\ rtHeld'[p] = i => u = n + 1
        /\ rtHeld[p] = i /\ rtHeld'[p] # i => n = u + 1
    <3>1. /\ (rtHeld[p] = i <=> rtHeld'[p] = i) =>
               Cardinality(RtUsers(rtHeld', i)) = Cardinality(RtUsers(rtHeld, i))
          /\ rtHeld[p] # i /\ rtHeld'[p] = i =>
               Cardinality(RtUsers(rtHeld', i)) = Cardinality(RtUsers(rtHeld, i)) + 1
          /\ rtHeld[p] = i /\ rtHeld'[p] # i =>
               Cardinality(RtUsers(rtHeld, i)) = Cardinality(RtUsers(rtHeld', i)) + 1
      <4>1. RtAlike(rtHeld, rtHeld', p)
        BY DEF RtAlike
      <4> QED BY <4>1, RtUsersStep
    <3> QED BY <1>1, <1>4, <3>1
  <2> QED BY <1>1, <1>4, <2>1 DEF RtOne
<1>6. v + RtOne(rtFresh[p] = i) = m + RtOne(rtFresh'[p] = i)
  <2>1. /\ (rtFresh[p] = i <=> rtFresh'[p] = i) => v = m
        /\ rtFresh[p] # i /\ rtFresh'[p] = i => v = m + 1
        /\ rtFresh[p] = i /\ rtFresh'[p] # i => m = v + 1
    <3>1. /\ (rtFresh[p] = i <=> rtFresh'[p] = i) =>
               Cardinality(RtUsers(rtFresh', i)) = Cardinality(RtUsers(rtFresh, i))
          /\ rtFresh[p] # i /\ rtFresh'[p] = i =>
               Cardinality(RtUsers(rtFresh', i)) = Cardinality(RtUsers(rtFresh, i)) + 1
          /\ rtFresh[p] = i /\ rtFresh'[p] # i =>
               Cardinality(RtUsers(rtFresh, i)) = Cardinality(RtUsers(rtFresh', i)) + 1
      <4>1. RtAlike(rtFresh, rtFresh', p)
        BY DEF RtAlike
      <4> QED BY <4>1, RtUsersStep
    <3> QED BY <1>1, <1>4, <3>1
  <2> QED BY <1>1, <1>4, <2>1 DEF RtOne
<1>7. PICK a \in {0, 1}, b \in {0, 1}, c \in {0, 1}, d \in {0, 1} :
        /\ a = RtOne(rtHeld[p] = i) /\ b = RtOne(rtHeld'[p] = i)
        /\ c = RtOne(rtFresh[p] = i) /\ d = RtOne(rtFresh'[p] = i)
  BY DEF RtOne
<1>8. u + a = n + b /\ v + c = m + d
  BY <1>5, <1>6, <1>7
<1>9. k + u + v + l + a + c = l + n + m + k + b + d
  BY <1>1, <1>4, <1>7, <1>8
<1> QED BY <1>1, <1>4, <1>7, <1>9

\* The ways in which the count of a route keeps its meaning.
RtBalanced(i) ==
    \/ /\ i \in rtFree' <=> i \in rtFree
       /\ rtEnt'[i].ref = rtEnt[i].ref /\ RtRefsOf(i)' = RtRefsOf(i)
    \/ /\ i \notin rtFree /\ i \notin rtFree'
       /\ rtEnt'[i].ref = rtEnt[i].ref + 1 /\ RtRefsOf(i)' = RtRefsOf(i) + 1
    \/ /\ i \notin rtFree /\ (i \in rtFree' <=> rtEnt[i].ref <= 1)
       /\ rtEnt'[i].ref = rtEnt[i].ref - 1 /\ RtRefsOf(i)' = RtRefsOf(i) - 1
    \/ i \notin rtFree' /\ rtEnt'[i].ref = 1 /\ RtRefsOf(i)' = 1

\* Balanced buffers keep the counts right.
LEMMA RtCountsStep ==
    ASSUME RtCounts, \A i \in RtIds : RtBalanced(i)
    PROVE  RtCounts'
<1> SUFFICES ASSUME NEW i \in RtIds
             PROVE  IF i \in rtFree' THEN RtRefsOf(i)' = 0
                    ELSE rtEnt'[i].ref = RtRefsOf(i)' /\ rtEnt'[i].ref > 0
  BY DEF RtCounts
<1>1. PICK n \in Nat : n = RtRefsOf(i)
  BY RtRefsParts
<1>2. IF i \in rtFree THEN n = 0 ELSE rtEnt[i].ref = n /\ n > 0
  BY <1>1 DEF RtCounts
<1> QED BY <1>1, <1>2 DEF RtBalanced

\* Nobody else reaches a route that is about to be linked.
LEMMA RtAlone ==
    ASSUME RtTypes, RtPlans, RtCounts, NEW p \in RtProcs, rtFresh[p] # RtNone
    PROVE  /\ rtFresh[p] \in RtIds /\ rtFresh[p] \notin RtLinked /\ rtFresh[p] # rtDefault
           /\ rtFresh[p] \notin rtFree /\ RtRefsOf(rtFresh[p]) = 1
           /\ RtMade(rtEnt[rtFresh[p]])
           /\ \A q \in RtProcs : rtHeld[q] # rtFresh[p]
           /\ \A q \in RtProcs \ {p} : rtFresh[q] # rtFresh[p]
<1>1. PICK i \in RtIds : i = rtFresh[p]
  BY DEF RtTypes
<1>2. RtMade(rtEnt[i]) /\ rtEnt[i].ref = 1
  BY <1>1 DEF RtPlans, RtMade
<1>3. i \notin rtFree /\ RtRefsOf(i) = 1
  BY <1>1, <1>2, RtReached
<1>4. PICK l \in {0, 1}, n \in Nat, m \in Nat :
        /\ l = RtLink(i) /\ n = Cardinality(RtUsers(rtHeld, i)) /\ m = Cardinality(RtUsers(rtFresh, i))
        /\ RtRefsOf(i) = l + n + m
  BY RtRefsParts
<1>5. PICK g : g = [rtFresh EXCEPT ![p] = RtNone]
  OBVIOUS
<1>6. (\A q \in RtProcs \ {p} : g[q] = rtFresh[q]) /\ g[p] = RtNone /\ RtNone # i
  BY <1>5 DEF RtTypes, RtIds, RtNone
<1>7. m = Cardinality(RtUsers(g, i)) + 1 /\ Cardinality(RtUsers(g, i)) \in Nat
  <2>1. Cardinality(RtUsers(rtFresh, i)) = Cardinality(RtUsers(g, i)) + 1
    <3>1. RtAlike(rtFresh, g, p)
      BY <1>6 DEF RtAlike
    <3> QED BY <1>1, <1>6, <3>1, RtUsersStep
  <2>2. Cardinality(RtUsers(g, i)) \in Nat
    BY RtUsersCount
  <2> QED BY <1>4, <2>1, <2>2
<1>8. l = 0 /\ n = 0 /\ Cardinality(RtUsers(g, i)) = 0
  BY <1>3, <1>4, <1>7
<1>9. \A q \in RtProcs : rtHeld[q] # i
  <2>1. Cardinality(RtUsers(rtHeld, i)) = 0
    BY <1>4, <1>8
  <2> QED BY <2>1, RtUsersCount
<1>10. \A q \in RtProcs : g[q] # i
  BY <1>8, RtUsersCount
<1>11. i \notin RtLinked /\ i # rtDefault
  BY <1>4, <1>8 DEF RtLink
<1> QED BY <1>1, <1>2, <1>3, <1>6, <1>9, <1>10, <1>11

\* The chains stay, and so do the networks and masks of their routes.
LEMMA RtSameChains ==
    ASSUME RtPlaces, RtSorted, rttable' = rttable, rtDefault' \notin RtLinked,
           rtDefault' # RtNone => rtEnt'[rtDefault'].ttl > 0,
           \A i \in RtLinked : /\ rtEnt'[i].net = rtEnt[i].net /\ rtEnt'[i].mask = rtEnt[i].mask
                               /\ rtEnt'[i].ttl > 0
    PROVE  RtPlaces' /\ RtSorted' /\ RtLinked' = RtLinked
<1>1. RtLinked' = RtLinked
  BY DEF RtLinked
<1>2. \A h \in DOMAIN rttable : \A i \in Range(rttable[h]) : i \in RtLinked
  BY DEF RtLinked
<1>3. \A h \in DOMAIN rttable : \A k \in DOMAIN rttable[h] : rttable[h][k] \in RtLinked
  BY <1>2 DEF Range
<1>4. RtPlaces'
  BY <1>1, <1>2 DEF RtPlaces, RtSound, rthash, RtPart
<1>5. RtSorted'
  BY <1>3 DEF RtSorted, RtSame
<1> QED BY <1>1, <1>4, <1>5

\* A route with another number of references.
LEMMA RtRouteRef ==
    ASSUME NEW r \in RtRoutes, NEW n \in Nat
    PROVE  /\ [r EXCEPT !.ref = n] \in RtRoutes /\ [r EXCEPT !.ref = n].ref = n
           /\ [r EXCEPT !.ref = n].net = r.net /\ [r EXCEPT !.ref = n].mask = r.mask
           /\ [r EXCEPT !.ref = n].gw = r.gw /\ [r EXCEPT !.ref = n].metric = r.metric
           /\ [r EXCEPT !.ref = n].ifn = r.ifn /\ [r EXCEPT !.ref = n].ttl = r.ttl
BY DEF RtRoutes

\* RTFREE leaves everything but the references.
LEMMA RtFreeing ==
    ASSUME NEW ent \in [RtIds -> RtRoutes], NEW S, \A i \in S : ent[i].ref > 0
    PROVE  /\ RTFREE(ent, S) \in [RtIds -> RtRoutes]
           /\ \A i \in RtIds :
                /\ RTFREE(ent, S)[i].net = ent[i].net /\ RTFREE(ent, S)[i].mask = ent[i].mask
                /\ RTFREE(ent, S)[i].gw = ent[i].gw /\ RTFREE(ent, S)[i].metric = ent[i].metric
                /\ RTFREE(ent, S)[i].ifn = ent[i].ifn /\ RTFREE(ent, S)[i].ttl = ent[i].ttl
                /\ i \notin S => RTFREE(ent, S)[i] = ent[i]
                /\ RTFREE(ent, S)[i].ref = IF i \in S THEN ent[i].ref - 1 ELSE ent[i].ref
<1> DEFINE f == RTFREE(ent, S)
<1>1. \A i \in RtIds : f[i] = IF i \in S THEN [ent[i] EXCEPT !.ref = @ - 1] ELSE ent[i]
  BY DEF RTFREE
<1>2. DOMAIN f = RtIds /\ f = [i \in RtIds |-> f[i]]
  BY DEF RTFREE
<1> HIDE DEF f
<1>3. ASSUME NEW i \in RtIds
      PROVE  /\ f[i] \in RtRoutes /\ f[i].net = ent[i].net /\ f[i].mask = ent[i].mask
             /\ f[i].gw = ent[i].gw /\ f[i].metric = ent[i].metric
             /\ f[i].ifn = ent[i].ifn /\ f[i].ttl = ent[i].ttl
             /\ i \notin S => f[i] = ent[i]
             /\ f[i].ref = IF i \in S THEN ent[i].ref - 1 ELSE ent[i].ref
  <2>1. PICK r \in RtRoutes : r = ent[i] /\ r.ref \in Nat
    BY DEF RtRoutes
  <2>2. CASE i \notin S
    BY <1>1, <2>1, <2>2
  <2>3. CASE i \in S
    <3>1. PICK n \in Nat : n = r.ref - 1
      BY <2>1, <2>3
    <3>2. f[i] = [r EXCEPT !.ref = n]
      BY <1>1, <2>1, <2>3, <3>1
    <3> QED BY <2>1, <2>3, <3>1, <3>2, RtRouteRef
  <2> QED BY <2>2, <2>3
<1>4. f \in [RtIds -> RtRoutes]
  BY <1>2, <1>3
<1> QED BY <1>3, <1>4 DEF f

-----------------------------------------------------------------------------
\* A chain and what is in it.
LEMMA RtChain ==
    ASSUME RtTypes, NEW h \in DOMAIN rttable
    PROVE  /\ rttable[h] \in Seq(RtIds) /\ DOMAIN rttable[h] = 1..Len(rttable[h]) /\ Len(rttable[h]) \in Nat
           /\ \A k \in DOMAIN rttable[h] :
                rttable[h][k] \in RtIds /\ rttable[h][k] \in Range(rttable[h]) /\ rttable[h][k] \in RtLinked
<1>1. rttable[h] \in Seq(RtIds)
  BY DEF RtTypes
<1>2. \A k \in DOMAIN rttable[h] : rttable[h][k] \in Range(rttable[h])
  BY DEF Range
<1>3. \A i \in Range(rttable[h]) : i \in RtLinked
  BY DEF RtLinked
<1> QED BY <1>1, <1>2, <1>3

\* The route of an address is linked or the default.
LEMMA RtFoundIs ==
    ASSUME RtTypes, NEW d \in Nat, NEW l
    PROVE  \/ rtFound(d, l) = RtNone
           \/ rtFound(d, l) \in RtIds /\ (rtFound(d, l) \in RtLinked \/ rtFound(d, l) = rtDefault)
<1>1. rthash(d) \in DOMAIN rttable
  BY RtAddress DEF RtTypes
<1> DEFINE chain == rttable[rthash(d)]
           live == {k \in DOMAIN chain : LET e == rtEnt[chain[k]] IN
                      e.ttl > 0 /\ netmatch(d, e.net, e.mask, l) /\ e.metric < RtmInf}
<1>2. CASE live # {}
  <2>1. live \in SUBSET Nat
    BY <1>1, RtChain
  <2>2. Min(live) \in live
    BY <1>2, <2>1, Smallest, ZenonT(40)
  <2>3. Min(live) \in DOMAIN chain
    BY <2>2, ZenonT(40)
  <2>4. chain[Min(live)] \in RtIds /\ chain[Min(live)] \in RtLinked
    BY <1>1, <2>3, RtChain
  <2>5. rtFound(d, l) = chain[Min(live)]
    BY <1>2 DEF rtFound
  <2> QED BY <2>4, <2>5
<1>3. CASE live = {}
  <2>1. rtFound(d, l) = IF rtDefault # RtNone /\ rtEnt[rtDefault].metric < RtmInf THEN rtDefault ELSE RtNone
    BY <1>3 DEF rtFound
  <2> QED BY <2>1 DEF RtTypes
<1> QED BY <1>2, <1>3

\* Routes of other processes that are about to be linked are left alone.
LEMMA RtOthersMade ==
    ASSUME RtTypes, RtPlans, RtCounts, NEW p,
           \A q \in RtProcs \ {p} : rtFresh[q] # RtNone => rtEnt'[rtFresh[q]] = rtEnt[rtFresh[q]]
    PROVE  \A q \in RtProcs \ {p} : rtFresh[q] # RtNone => RtMade(rtEnt'[rtFresh[q]])
BY DEF RtPlans

\* rtget.
LEMMA RtStepGet ==
    ASSUME RtInv, NEW p \in RtProcs, rtget(p)
    PROVE  RtInv'
<1>1. RtTypes /\ RtPlans /\ RtRoles /\ RtPlaces /\ RtCounts /\ RtSorted /\ RipAnnounced
  BY DEF RtInv
<1>2. /\ rtWork[p] \in Seq(RtOps) /\ rtWork[p] # <<>> /\ rtWork[p][1].op = "get"
      /\ Head(rtWork[p]) = rtWork[p][1] /\ rtWork[p][1] \in RtOps /\ p \notin {"ripout", "slow"}
      /\ Tail(rtWork[p]) \in Seq(RtOps)
  <2>1. RtDoing(p, "get")
    BY ZenonT(20) DEF rtget
  <2>2. /\ rtWork[p] \in Seq(RtOps) /\ rtWork[p] # <<>> /\ rtWork[p][1].op = "get"
        /\ Head(rtWork[p]) = rtWork[p][1] /\ rtWork[p][1] \in RtOps
        /\ Tail(rtWork[p]) \in Seq(RtOps)
        /\ p = "ripout" => "get" \in {"lock", "scan", "sent", "unlock"}
        /\ p = "slow" => "get" = "notify"
    BY <1>1, <2>1, RtWho, ZenonT(40)
  <2>3. "get" \notin {"lock", "scan", "sent", "unlock"} /\ "get" # "notify"
    OBVIOUS
  <2> QED BY <2>2, <2>3, ZenonT(40)
<1>3. PICK d \in Nat, l \in BOOLEAN : Head(rtWork[p]).arg[1] = d /\ Head(rtWork[p]).arg[2] = l
  BY <1>2, RtOpTypes
<1>4. PICK i : i = rtFound(d, l)
  OBVIOUS
<1>5. /\ rtHeld' = [rtHeld EXCEPT ![p] = i]
      /\ i = RtNone => rtWork' = [rtWork EXCEPT ![p] = <<>>] /\ rtEnt' = rtEnt
      /\ i # RtNone => rtWork' = [rtWork EXCEPT ![p] = Tail(rtWork[p])] /\ rtEnt' = [rtEnt EXCEPT ![i].ref = @ + 1]
      /\ UNCHANGED <<rttable, rtDefault, rtFree, rtMask, rtFresh, ripMsg, ripRq, ripDue>>
  BY <1>3, <1>4, ZenonT(40) DEF rtget, RtDone
<1>6. i = RtNone \/ (i \in RtIds /\ (i \in RtLinked \/ i = rtDefault))
  BY <1>1, <1>4, RtFoundIs
<1>7. RtPlan(rtWork[p], rtHeld[p]) /\ rtHeld[p] = RtNone /\ rtFresh[p] = RtNone
  BY <1>1, <1>2 DEF RtPlans, RtPlan
<1>8. PICK w \in Seq(RtOps) : w = IF i = RtNone THEN <<>> ELSE Tail(rtWork[p])
  <2>1. <<>> \in Seq(RtOps)
    OBVIOUS
  <2> QED BY <1>2, <2>1
<1>9. RtPlan(w, i)
  BY <1>2, <1>7, <1>8, RtPlanGot, RtPlanNone
<1>10. rtWork' = [rtWork EXCEPT ![p] = w]
  BY <1>5, <1>8
<1>11. rtFresh' = [rtFresh EXCEPT ![p] = RtNone] /\ RtNone \in RtIds \cup {RtNone} /\ i \in RtIds \cup {RtNone}
  BY <1>1, <1>5, <1>6, <1>7 DEF RtTypes
<1>12. \A j \in RtIds : /\ j # i => rtEnt'[j] = rtEnt[j]
                        /\ j = i => rtEnt'[j] = [rtEnt[j] EXCEPT !.ref = @ + 1]
  <2>1. rtEnt \in [RtIds -> RtRoutes] /\ RtNone \notin RtIds
    BY <1>1 DEF RtTypes, RtIds, RtNone
  <2> QED BY <1>5, <1>6, <2>1
<1>13. \A q \in RtProcs : rtFresh[q] # RtNone => rtFresh[q] \in RtIds /\ rtFresh[q] # i
  BY <1>1, <1>6, RtAlone
<1>14. \A q \in RtProcs \ {p} : rtFresh[q] # RtNone => RtMade(rtEnt'[rtFresh[q]])
  BY <1>1, <1>12, <1>13, RtOthersMade
<1>15. RtPlans' /\ RtRoles' /\ rtWork' \in [RtProcs -> Seq(RtOps)]
       /\ rtHeld' \in [RtProcs -> RtIds \cup {RtNone}] /\ rtFresh' \in [RtProcs -> RtIds \cup {RtNone}]
  BY <1>1, <1>2, <1>5, <1>9, <1>10, <1>11, <1>14, RtPlansStep
<1>16. \A j \in RtIds : /\ rtEnt'[j] \in RtRoutes
                        /\ rtEnt'[j].net = rtEnt[j].net /\ rtEnt'[j].mask = rtEnt[j].mask
                        /\ rtEnt'[j].ttl = rtEnt[j].ttl
                        /\ rtEnt'[j].ref = IF j = i THEN rtEnt[j].ref + 1 ELSE rtEnt[j].ref
  <2> TAKE j \in RtIds
  <2>1. rtEnt[j] \in RtRoutes
    BY <1>1 DEF RtTypes
  <2>2. CASE j # i
    BY <1>12, <2>1, <2>2
  <2>3. CASE j = i
    <3>1. PICK r \in RtRoutes, n \in Nat : r = rtEnt[j] /\ n = r.ref + 1
      BY <2>1 DEF RtRoutes
    <3>2. rtEnt'[j] = [r EXCEPT !.ref = n]
      BY <1>12, <2>3, <3>1
    <3> QED BY <2>3, <3>1, <3>2, RtRouteRef
  <2> QED BY <2>2, <2>3
<1>17. RtTypes'
  <2>1. rtEnt' \in [RtIds -> RtRoutes]
    <3>1. rtEnt \in [RtIds -> RtRoutes]
      BY <1>1 DEF RtTypes
    <3>2. DOMAIN rtEnt' = RtIds /\ rtEnt' = [j \in RtIds |-> rtEnt'[j]]
      BY <1>5, <3>1
    <3> QED BY <1>16, <3>2
  <2> QED BY <1>1, <1>5, <1>15, <2>1 DEF RtTypes
<1>18. RtPlaces' /\ RtSorted' /\ RtLinked' = RtLinked
  <2>1. \A j \in RtLinked : j \in RtIds /\ rtEnt[j].ttl > 0
    BY <1>1, RtLinkedIds DEF RtPlaces, RtSound, RtLinked
  <2>2. rtDefault' # RtNone => rtDefault' \in RtIds /\ rtEnt[rtDefault'].ttl > 0
    BY <1>1, <1>5 DEF RtTypes, RtPlaces
  <2>3. rtDefault' \notin RtLinked
    BY <1>1, <1>5 DEF RtPlaces
  <2> QED BY <1>1, <1>5, <1>16, <2>1, <2>2, <2>3, RtSameChains
<1>19. RtCounts'
  <2>1. ASSUME NEW j \in RtIds PROVE RtBalanced(j)
    <3>1. \A q \in RtProcs \ {p} : rtHeld'[q] = rtHeld[q] /\ rtFresh'[q] = rtFresh[q]
      BY <1>1, <1>5 DEF RtTypes
    <3>2. /\ RtRefsOf(j) \in Nat /\ RtRefsOf(j)' \in Nat /\ RtLink(j) \in {0, 1} /\ RtLink(j)' \in {0, 1}
          /\ RtRefsOf(j)' + RtLink(j) + RtOne(rtHeld[p] = j) + RtOne(rtFresh[p] = j)
             = RtRefsOf(j) + RtLink(j)' + RtOne(rtHeld'[p] = j) + RtOne(rtFresh'[p] = j)
      BY <3>1, RtRefsStep
    <3>3. RtLink(j)' = RtLink(j)
      BY <1>5, <1>18 DEF RtLink
    <3>4. rtHeld'[p] = i /\ rtFresh'[p] = RtNone /\ j # RtNone
      BY <1>1, <1>5, <1>7 DEF RtTypes, RtIds, RtNone
    <3>5. CASE j = i
      <4>1. j \notin rtFree
        BY <1>1, <1>6, <3>4, <3>5, RtReached
      <4>2. RtOne(rtHeld[p] = j) = 0 /\ RtOne(rtFresh[p] = j) = 0
            /\ RtOne(rtHeld'[p] = j) = 1 /\ RtOne(rtFresh'[p] = j) = 0
        BY <1>7, <3>4, <3>5 DEF RtOne
      <4>3. RtRefsOf(j)' = RtRefsOf(j) + 1
        BY <3>2, <3>3, <4>2
      <4> QED BY <1>5, <1>16, <3>5, <4>1, <4>3 DEF RtBalanced
    <3>6. CASE j # i
      <4>1. RtOne(rtHeld[p] = j) = 0 /\ RtOne(rtFresh[p] = j) = 0
            /\ RtOne(rtHeld'[p] = j) = 0 /\ RtOne(rtFresh'[p] = j) = 0
        BY <1>7, <3>4, <3>6 DEF RtOne
      <4>2. RtRefsOf(j)' = RtRefsOf(j)
        BY <3>2, <3>3, <4>1
      <4> QED BY <1>5, <1>16, <3>6, <4>2 DEF RtBalanced
    <3> QED BY <3>5, <3>6
  <2> QED BY <1>1, <2>1, RtCountsStep
<1>20. RipAnnounced'
  BY <1>1, <1>2, <1>5, <1>10, RtAnnouncedStep
<1> QED BY <1>15, <1>17, <1>18, <1>19, <1>20 DEF RtInv

-----------------------------------------------------------------------------
\* The references to j that the table and p have between them.
RtHas(p, j) == RtLink(j) + RtOne(rtHeld[p] = j) + RtOne(rtFresh[p] = j)

\* What of a route the table and one process have is a number.
LEMMA RtHasType ==
    ASSUME NEW p, NEW j
    PROVE  /\ RtHas(p, j) \in Nat /\ RtHas(p, j)' \in Nat
           /\ RtHas(p, j) > 0 <=> j \in RtLinked \/ j = rtDefault \/ rtHeld[p] = j \/ rtFresh[p] = j
<1>1. RtLink(j) \in {0, 1} /\ RtLink(j)' \in {0, 1} /\ (RtLink(j) = 1 <=> j \in RtLinked \/ j = rtDefault)
  BY DEF RtLink
<1>2. /\ RtOne(rtHeld[p] = j) \in {0, 1} /\ (RtOne(rtHeld[p] = j) = 1 <=> rtHeld[p] = j)
      /\ RtOne(rtFresh[p] = j) \in {0, 1} /\ (RtOne(rtFresh[p] = j) = 1 <=> rtFresh[p] = j)
      /\ RtOne(rtHeld'[p] = j) \in {0, 1} /\ RtOne(rtFresh'[p] = j) \in {0, 1}
  BY DEF RtOne
<1>3. RtHas(p, j) = RtLink(j) + RtOne(rtHeld[p] = j) + RtOne(rtFresh[p] = j)
      /\ RtHas(p, j)' = RtLink(j)' + RtOne(rtHeld'[p] = j) + RtOne(rtFresh'[p] = j)
  BY DEF RtHas
<1> QED BY <1>1, <1>2, <1>3

\* What p and the table give up is what nobody else loses.
LEMMA RtRefsHas ==
    ASSUME NEW p \in RtProcs, NEW j,
           \A q \in RtProcs \ {p} : rtHeld'[q] = rtHeld[q] /\ rtFresh'[q] = rtFresh[q]
    PROVE  /\ RtRefsOf(j) \in Nat /\ RtRefsOf(j)' \in Nat
           /\ RtRefsOf(j)' + RtHas(p, j) = RtRefsOf(j) + RtHas(p, j)'
<1>1. /\ RtRefsOf(j) \in Nat /\ RtRefsOf(j)' \in Nat /\ RtLink(j) \in {0, 1} /\ RtLink(j)' \in {0, 1}
      /\ RtRefsOf(j)' + RtLink(j) + RtOne(rtHeld[p] = j) + RtOne(rtFresh[p] = j)
         = RtRefsOf(j) + RtLink(j)' + RtOne(rtHeld'[p] = j) + RtOne(rtFresh'[p] = j)
  BY RtRefsStep
<1>2. /\ RtOne(rtHeld[p] = j) \in {0, 1} /\ RtOne(rtFresh[p] = j) \in {0, 1}
      /\ RtOne(rtHeld'[p] = j) \in {0, 1} /\ RtOne(rtFresh'[p] = j) \in {0, 1}
  BY DEF RtOne
<1>3. RtHas(p, j) = RtLink(j) + RtOne(rtHeld[p] = j) + RtOne(rtFresh[p] = j)
      /\ RtHas(p, j)' = RtLink(j)' + RtOne(rtHeld'[p] = j) + RtOne(rtFresh'[p] = j)
  BY DEF RtHas
<1> QED BY <1>1, <1>2, <1>3

\* Each route of S loses a reference that the table or p had; ent differs from
\* what was in the buffers at most in linked routes.
RtReleases(p, ent, S) ==
    /\ rtEnt' = RTFREE(ent, S) /\ rtFree' = rtFree \cup {i \in S : rtEnt[i].ref <= 1}
    /\ \A i \in RtIds : ent[i].ref = rtEnt[i].ref
    /\ \A i \in RtIds : i \notin RtLinked /\ i # rtDefault => ent[i] = rtEnt[i]
    /\ \A j \in RtIds : RtHas(p, j) = RtHas(p, j)' + RtOne(j \in S)

\* A process goes on to the plan w with h from rtget.
LEMMA RtReleaseStep ==
    ASSUME RtInv, NEW p \in RtProcs, NEW w \in Seq(RtOps), NEW h \in RtIds \cup {RtNone},
           NEW ent \in [RtIds -> RtRoutes], NEW S \in SUBSET RtIds,
           rtWork' = [rtWork EXCEPT ![p] = w], rtHeld' = [rtHeld EXCEPT ![p] = h],
           rtFresh' = [rtFresh EXCEPT ![p] = RtNone], RtPlan(w, h),
           p = "ripout" => \A k \in DOMAIN w : w[k].op \in {"lock", "scan", "sent", "unlock"},
           p = "slow" => \A k \in DOMAIN w : w[k].op = "notify",
           RtReleases(p, ent, S), rttable' \in [0..(RtTSize - 1) -> Seq(RtIds)],
           rtDefault' \in RtIds \cup {RtNone}, rtMask' = rtMask, ripRq' = ripRq,
           RtPlaces', RtSorted', RipAnnounced'
    PROVE  RtInv'
<1>1. RtTypes /\ RtPlans /\ RtRoles /\ RtPlaces /\ RtCounts /\ RtSorted
  BY DEF RtInv
<1> USE DEF RtReleases
<1>2. \A j \in S : j \notin rtFree /\ rtEnt[j].ref > 0
                   /\ \A q \in RtProcs \ {p} : rtFresh[q] # j
  <2> TAKE j \in S
  <2>1. j \in RtIds /\ RtOne(j \in S) = 1
    BY DEF RtOne
  <2>2. RtHas(p, j) > 0
    BY <2>1, RtHasType
  <2>3. j \in RtLinked \/ j = rtDefault \/ rtHeld[p] = j \/ rtFresh[p] = j
    BY <2>2, RtHasType
  <2>4. j \notin rtFree /\ rtEnt[j].ref > 0
    BY <1>1, <2>1, <2>3, RtReached
  <2>5. ASSUME NEW q \in RtProcs \ {p}, rtFresh[q] = j PROVE FALSE
    <3>1. rtFresh[q] # RtNone
      BY <2>1, <2>5 DEF RtIds, RtNone
    <3> QED BY <1>1, <2>3, <2>5, <3>1, RtAlone
  <2> QED BY <2>4, <2>5
<1>3. /\ rtEnt' \in [RtIds -> RtRoutes]
      /\ \A i \in RtIds : /\ i \notin S => rtEnt'[i] = ent[i]
                          /\ rtEnt'[i].ref = IF i \in S THEN rtEnt[i].ref - 1 ELSE rtEnt[i].ref
  <2>1. \A i \in S : ent[i].ref > 0
    BY <1>2
  <2> QED BY <2>1, RtFreeing
<1>4. \A q \in RtProcs \ {p} : rtFresh[q] # RtNone => RtMade(rtEnt'[rtFresh[q]])
  <2>1. ASSUME NEW q \in RtProcs \ {p}, rtFresh[q] # RtNone PROVE rtEnt'[rtFresh[q]] = rtEnt[rtFresh[q]]
    <3>1. rtFresh[q] \in RtIds /\ rtFresh[q] \notin RtLinked /\ rtFresh[q] # rtDefault
      BY <1>1, <2>1, RtAlone
    <3> QED BY <1>2, <1>3, <3>1
  <2> QED BY <1>1, <2>1, RtOthersMade
<1>5. RtPlans' /\ RtRoles' /\ rtWork' \in [RtProcs -> Seq(RtOps)]
      /\ rtHeld' \in [RtProcs -> RtIds \cup {RtNone}] /\ rtFresh' \in [RtProcs -> RtIds \cup {RtNone}]
  <2>1. RtNone \in RtIds \cup {RtNone}
    OBVIOUS
  <2> QED BY <1>1, <1>4, <2>1, RtPlansStep
<1>6. RtTypes'
  BY <1>1, <1>3, <1>5 DEF RtTypes
<1>7. RtCounts'
  <2>1. \A q \in RtProcs \ {p} : rtHeld'[q] = rtHeld[q] /\ rtFresh'[q] = rtFresh[q]
    BY <1>1 DEF RtTypes
  <2>2. ASSUME NEW j \in RtIds PROVE RtBalanced(j)
    <3>1. RtRefsOf(j) \in Nat /\ RtRefsOf(j)' \in Nat /\ RtRefsOf(j)' + RtHas(p, j) = RtRefsOf(j) + RtHas(p, j)'
      BY <2>1, RtRefsHas
    <3>2. RtHas(p, j) \in Nat /\ RtHas(p, j)' \in Nat /\ RtHas(p, j) = RtHas(p, j)' + RtOne(j \in S)
      BY RtHasType
    <3>3. CASE j \in S
      <4>1. RtRefsOf(j)' = RtRefsOf(j) - 1
        BY <3>1, <3>2, <3>3 DEF RtOne
      <4> QED BY <1>2, <1>3, <3>3, <4>1 DEF RtBalanced
    <3>4. CASE j \notin S
      <4>1. RtRefsOf(j)' = RtRefsOf(j)
        BY <3>1, <3>2, <3>4 DEF RtOne
      <4> QED BY <1>3, <3>4, <4>1 DEF RtBalanced
    <3> QED BY <3>3, <3>4
  <2> QED BY <1>1, <2>2, RtCountsStep
<1> QED BY <1>5, <1>6, <1>7 DEF RtInv

\* rtfree.
LEMMA RtStepFree ==
    ASSUME RtInv, NEW p \in RtProcs, rtfree(p)
    PROVE  RtInv'
<1>1. RtTypes /\ RtPlans /\ RtRoles /\ RtPlaces /\ RtCounts /\ RtSorted /\ RipAnnounced
  BY DEF RtInv
<1> DEFINE w == Tail(rtWork[p])
<1>2. /\ rtWork[p] \in Seq(RtOps) /\ rtWork[p] # <<>> /\ rtWork[p][1].op = "free"
      /\ p \notin {"ripout", "slow"} /\ w \in Seq(RtOps)
  BY <1>1, RtWho DEF rtfree
<1>3. RtPlan(rtWork[p], rtHeld[p]) /\ rtFresh[p] = RtNone
  BY <1>1, <1>2 DEF RtPlans
<1>4. rtHeld[p] # RtNone /\ RtPlan(w, RtNone)
  BY <1>2, <1>3, RtPlanFreed DEF RtUsing
<1>5. PICK i \in RtIds : i = rtHeld[p]
  BY <1>1, <1>4 DEF RtTypes
<1>6. /\ rtWork' = [rtWork EXCEPT ![p] = w] /\ rtHeld' = [rtHeld EXCEPT ![p] = RtNone]
      /\ rtEnt' = RTFREE(rtEnt, {i}) /\ rtFree' = rtFree \cup {j \in {i} : rtEnt[j].ref <= 1}
      /\ UNCHANGED <<rttable, rtDefault, rtMask, rtFresh, ripMsg, ripRq, ripDue>>
  BY <1>5 DEF rtfree, RtDone, RtFreed
<1>7. rtFresh' = [rtFresh EXCEPT ![p] = RtNone]
  BY <1>1, <1>3, <1>6 DEF RtTypes
<1>8. /\ rtEnt \in [RtIds -> RtRoutes] /\ rttable' \in [0..(RtTSize - 1) -> Seq(RtIds)]
      /\ rtDefault' \in RtIds \cup {RtNone} /\ {i} \in SUBSET RtIds /\ RtNone \in RtIds \cup {RtNone}
      /\ rtHeld \in [RtProcs -> RtIds \cup {RtNone}] /\ rtFresh \in [RtProcs -> RtIds \cup {RtNone}]
  BY <1>1, <1>6 DEF RtTypes
<1>9. \A j \in RtIds : rtEnt'[j].net = rtEnt[j].net /\ rtEnt'[j].mask = rtEnt[j].mask
                       /\ rtEnt'[j].ttl = rtEnt[j].ttl
  <2>1. rtEnt[i].ref > 0
    BY <1>1, <1>5, RtReached
  <2> QED BY <1>6, <1>8, <2>1, RtFreeing
<1>10. RtPlaces' /\ RtSorted' /\ RtLinked' = RtLinked
  <2>1. \A j \in RtLinked : j \in RtIds /\ rtEnt[j].ttl > 0
    BY <1>1, RtLinkedIds DEF RtPlaces, RtSound, RtLinked
  <2>2. rtDefault' # RtNone => rtDefault' \in RtIds /\ rtEnt[rtDefault'].ttl > 0
    BY <1>1, <1>6 DEF RtTypes, RtPlaces
  <2>3. rtDefault' \notin RtLinked
    BY <1>1, <1>6 DEF RtPlaces
  <2> QED BY <1>1, <1>6, <1>9, <2>1, <2>2, <2>3, RtSameChains
<1>11. \A j \in RtIds : RtHas(p, j) = RtHas(p, j)' + RtOne(j \in {i})
  <2> TAKE j \in RtIds
  <2>1. RtLink(j)' = RtLink(j) /\ RtLink(j) \in {0, 1}
    BY <1>6, <1>10 DEF RtLink
  <2>2. rtHeld'[p] = RtNone /\ rtFresh'[p] = rtFresh[p] /\ j # RtNone
    BY <1>6, <1>8 DEF RtIds, RtNone
  <2>3. RtOne(rtHeld[p] = j) = RtOne(rtHeld'[p] = j) + RtOne(j \in {i})
    BY <1>5, <2>2 DEF RtOne
  <2>4. RtOne(rtHeld'[p] = j) \in {0, 1} /\ RtOne(j \in {i}) \in {0, 1} /\ RtOne(rtFresh[p] = j) \in {0, 1}
    BY DEF RtOne
  <2>5. RtHas(p, j) = RtLink(j) + RtOne(rtHeld[p] = j) + RtOne(rtFresh[p] = j)
        /\ RtHas(p, j)' = RtLink(j)' + RtOne(rtHeld'[p] = j) + RtOne(rtFresh'[p] = j)
    BY DEF RtHas
  <2> QED BY <2>1, <2>2, <2>3, <2>4, <2>5
<1> HIDE DEF w
<1>12. RipAnnounced'
  BY <1>1, <1>2, <1>6, RtAnnouncedStep
<1>13. RtReleases(p, rtEnt, {i})
  BY <1>6, <1>11 DEF RtReleases
<1> QED BY <1>2, <1>4, <1>6, <1>7, <1>8, <1>10, <1>12, <1>13, RtReleaseStep

\* rtnew: a free buffer becomes the route that is to be linked.
LEMMA RtStepNew ==
    ASSUME RtInv, NEW p \in RtProcs, rtnew(p)
    PROVE  RtInv'
<1>1. RtTypes /\ RtPlans /\ RtRoles /\ RtPlaces /\ RtCounts /\ RtSorted /\ RipAnnounced
  BY DEF RtInv
<1>2. /\ rtWork[p] \in Seq(RtOps) /\ rtWork[p] # <<>> /\ rtWork[p][1].op = "add"
      /\ Head(rtWork[p]) = rtWork[p][1] /\ rtWork[p][1] \in RtOps /\ p \notin {"ripout", "slow"}
  BY <1>1, RtWho DEF rtnew
<1>3. PICK r \in RtRoutes : r = Head(rtWork[p]).arg /\ RtMade(r)
  BY <1>2, RtOpTypes DEF RtMade
<1>4. PICK i \in rtFree : i = Min(rtFree)
  <2>1. rtFree \in SUBSET Nat /\ rtFree # {}
    BY <1>1 DEF RtTypes, RtIds, rtnew
  <2> QED BY <2>1, Smallest
<1>5. /\ i \in RtIds /\ rtFree' = rtFree \ {i} /\ rtEnt' = [rtEnt EXCEPT ![i] = r]
      /\ rtFresh' = [rtFresh EXCEPT ![p] = i] /\ rtFresh[p] = RtNone
      /\ UNCHANGED <<rttable, rtDefault, rtMask, rtWork, rtHeld, ripMsg, ripRq, ripDue>>
  BY <1>1, <1>3, <1>4 DEF rtnew, RtTypes
<1>6. /\ rtEnt \in [RtIds -> RtRoutes] /\ rtHeld \in [RtProcs -> RtIds \cup {RtNone}]
      /\ rtFresh \in [RtProcs -> RtIds \cup {RtNone}] /\ rtWork \in [RtProcs -> Seq(RtOps)]
  BY <1>1 DEF RtTypes
<1>7. RtRefsOf(i) = 0
  BY <1>1, <1>4, <1>5 DEF RtCounts
<1>8. i \notin RtLinked /\ i # rtDefault /\ \A q \in RtProcs : rtHeld[q] # i /\ rtFresh[q] # i
  BY <1>1, <1>4, <1>5, RtReached
<1>9. \A j \in RtIds : j # i => rtEnt'[j] = rtEnt[j]
  BY <1>5, <1>6
<1>10. rtEnt' \in [RtIds -> RtRoutes] /\ rtEnt'[i] = r
  BY <1>5, <1>6
<1>11. RtPlans' /\ RtRoles' /\ rtWork' \in [RtProcs -> Seq(RtOps)]
       /\ rtHeld' \in [RtProcs -> RtIds \cup {RtNone}] /\ rtFresh' \in [RtProcs -> RtIds \cup {RtNone}]
  <2>1. \A q \in RtProcs \ {p} : rtFresh[q] # RtNone => rtEnt'[rtFresh[q]] = rtEnt[rtFresh[q]]
    BY <1>6, <1>8, <1>9
  <2>2. \A q \in RtProcs \ {p} : rtFresh[q] # RtNone => RtMade(rtEnt'[rtFresh[q]])
    BY <1>1, <2>1, RtOthersMade
  <2>3. PICK w \in Seq(RtOps), h \in RtIds \cup {RtNone} : w = rtWork[p] /\ h = rtHeld[p]
    BY <1>6
  <2>4. rtWork' = [rtWork EXCEPT ![p] = w] /\ rtHeld' = [rtHeld EXCEPT ![p] = h]
    BY <1>5, <1>6, <2>3
  <2>5. /\ RtPlan(w, h) /\ w # <<>> /\ w[1].op = "add" /\ RtMade(rtEnt'[i]) /\ i \in RtIds \cup {RtNone}
    BY <1>1, <1>2, <1>3, <1>5, <1>10, <2>3 DEF RtPlans
  <2> QED BY <1>1, <1>2, <1>5, <2>2, <2>4, <2>5, RtPlansStep
<1>12. RtTypes'
  BY <1>1, <1>5, <1>10, <1>11 DEF RtTypes
<1>13. RtPlaces' /\ RtSorted' /\ RtLinked' = RtLinked
  <2>1. \A j \in RtLinked : j \in RtIds /\ rtEnt[j].ttl > 0 /\ rtEnt'[j] = rtEnt[j]
    BY <1>1, <1>8, <1>9, RtLinkedIds DEF RtPlaces, RtSound, RtLinked
  <2>2. rtDefault' # RtNone => rtDefault' \in RtIds /\ rtEnt'[rtDefault'].ttl > 0
    BY <1>1, <1>5, <1>8, <1>9 DEF RtTypes, RtPlaces
  <2>3. rtDefault' \notin RtLinked
    BY <1>1, <1>5 DEF RtPlaces
  <2> QED BY <1>1, <1>5, <2>1, <2>2, <2>3, RtSameChains
<1>14. RtCounts'
  <2>1. \A q \in RtProcs \ {p} : rtHeld'[q] = rtHeld[q] /\ rtFresh'[q] = rtFresh[q]
    BY <1>5, <1>6
  <2>2. ASSUME NEW j \in RtIds PROVE RtBalanced(j)
    <3>1. /\ RtRefsOf(j) \in Nat /\ RtRefsOf(j)' \in Nat /\ RtLink(j) \in {0, 1} /\ RtLink(j)' \in {0, 1}
          /\ RtRefsOf(j)' + RtLink(j) + RtOne(rtHeld[p] = j) + RtOne(rtFresh[p] = j)
             = RtRefsOf(j) + RtLink(j)' + RtOne(rtHeld'[p] = j) + RtOne(rtFresh'[p] = j)
      BY <2>1, RtRefsStep
    <3>2. RtLink(j)' = RtLink(j) /\ rtHeld'[p] = rtHeld[p] /\ RtOne(rtHeld[p] = j) \in {0, 1}
      BY <1>5, <1>13 DEF RtLink, RtOne
    <3>3. RtOne(rtFresh[p] = j) = 0 /\ RtOne(rtFresh'[p] = j) = RtOne(i = j)
      BY <1>5, <1>6 DEF RtOne, RtIds, RtNone
    <3>4. CASE j = i
      <4>1. RtRefsOf(j)' = 1
        BY <1>7, <3>1, <3>2, <3>3, <3>4 DEF RtOne
      <4>2. rtEnt'[j].ref = 1
        BY <1>3, <1>10, <3>4 DEF RtMade
      <4> QED BY <1>5, <3>4, <4>1, <4>2 DEF RtBalanced
    <3>5. CASE j # i
      <4>1. RtRefsOf(j)' = RtRefsOf(j)
        BY <3>1, <3>2, <3>3, <3>5 DEF RtOne
      <4> QED BY <1>5, <1>9, <3>5, <4>1 DEF RtBalanced
    <3> QED BY <3>4, <3>5
  <2> QED BY <1>1, <2>2, RtCountsStep
<1>15. RipAnnounced'
  BY <1>1, <1>5 DEF RipAnnounced
<1> QED BY <1>11, <1>12, <1>13, <1>14, <1>15 DEF RtInv

-----------------------------------------------------------------------------
\* One chain changes, and with it what is linked.
LEMMA RtChainLinks ==
    ASSUME RtTypes, RtPlaces, NEW h \in DOMAIN rttable, NEW c, rttable' = [rttable EXCEPT ![h] = c]
    PROVE  RtLinked' = (RtLinked \ Range(rttable[h])) \cup Range(c)
<1>1. rttable \in [0..(RtTSize - 1) -> Seq(RtIds)] /\ DOMAIN rttable' = DOMAIN rttable
  BY DEF RtTypes
<1>2. \A g \in DOMAIN rttable : rttable'[g] = IF g = h THEN c ELSE rttable[g]
  BY <1>1
<1>3. \A g \in DOMAIN rttable : \A i \in Range(rttable[g]) : i \in RtLinked
  BY DEF RtLinked
<1>4. RtLinked' = UNION {Range(rttable'[g]) : g \in DOMAIN rttable}
  BY <1>1 DEF RtLinked
<1>5. ASSUME NEW i \in RtLinked' PROVE i \in (RtLinked \ Range(rttable[h])) \cup Range(c)
  <2>1. PICK g \in DOMAIN rttable : i \in Range(rttable'[g])
    BY <1>4
  <2>2. CASE g = h
    BY <1>2, <2>1, <2>2
  <2>3. CASE g # h
    <3>1. i \in Range(rttable[g]) /\ Range(rttable[g]) \cap Range(rttable[h]) = {}
      BY <1>2, <2>1, <2>3 DEF RtPlaces
    <3> QED BY <1>3, <2>1, <3>1
  <2> QED BY <2>2, <2>3
<1>6. ASSUME NEW i \in RtLinked, i \notin Range(rttable[h]) PROVE i \in RtLinked'
  <2>1. PICK g \in DOMAIN rttable : i \in Range(rttable[g])
    BY DEF RtLinked
  <2>2. g # h
    BY <1>6, <2>1
  <2> QED BY <1>2, <1>4, <2>1, <2>2
<1>7. Range(c) \subseteq RtLinked'
  BY <1>2, <1>4
<1> QED BY <1>5, <1>6, <1>7

\* One chain changes: it holds the routes of R, in an order that is sorted.
LEMMA RtChainStep ==
    ASSUME RtTypes, RtPlaces, RtSorted, NEW h \in DOMAIN rttable, NEW c \in Seq(RtIds),
           rttable' = [rttable EXCEPT ![h] = c], IsInjective(c),
           \A i \in Range(c) \ Range(rttable[h]) : i \notin RtLinked,
           rtDefault' \notin RtLinked \cup Range(c), rtDefault' # RtNone => rtEnt'[rtDefault'].ttl > 0,
           \A i \in RtLinked : /\ rtEnt'[i].net = rtEnt[i].net /\ rtEnt'[i].mask = rtEnt[i].mask
                               /\ rtEnt'[i].ttl > 0,
           \A i \in Range(c) :
             rthash(rtEnt'[i].net) = h /\ rtEnt'[i].net # 0 /\ RtSound(rtEnt'[i]),
           \A j, k \in DOMAIN c : j < k => /\ rtEnt'[c[j]].mask >= rtEnt'[c[k]].mask
                                           /\ ~RtSame(rtEnt'[c[j]], rtEnt'[c[k]])
    PROVE  /\ RtPlaces' /\ RtSorted' /\ rttable' \in [0..(RtTSize - 1) -> Seq(RtIds)]
           /\ RtLinked' = (RtLinked \ Range(rttable[h])) \cup Range(c)
<1>1. rttable \in [0..(RtTSize - 1) -> Seq(RtIds)] /\ DOMAIN rttable' = DOMAIN rttable
  BY DEF RtTypes
<1>2. \A g \in DOMAIN rttable : rttable'[g] = IF g = h THEN c ELSE rttable[g]
  BY <1>1
<1>3. rttable' \in [0..(RtTSize - 1) -> Seq(RtIds)]
  BY <1>1
<1>4. \A g \in DOMAIN rttable : \A i \in Range(rttable[g]) : i \in RtLinked
  BY DEF RtLinked
<1>5. \A g \in DOMAIN rttable : g # h => Range(rttable[g]) \cap Range(c) = {}
  <2> TAKE g \in DOMAIN rttable
  <2> HAVE g # h
  <2>1. Range(rttable[g]) \cap Range(rttable[h]) = {}
    BY DEF RtPlaces
  <2> QED BY <1>4, <2>1
<1>6. RtLinked' = (RtLinked \ Range(rttable[h])) \cup Range(c)
  BY RtChainLinks
<1>7. RtPlaces'
  <2>1. \A g \in DOMAIN rttable' : IsInjective(rttable'[g])
    BY <1>1, <1>2 DEF RtPlaces
  <2>2. \A f, g \in DOMAIN rttable' : f # g => Range(rttable'[f]) \cap Range(rttable'[g]) = {}
    <3> TAKE f \in DOMAIN rttable', g \in DOMAIN rttable'
    <3> HAVE f # g
    <3>1. CASE f = h
      BY <1>1, <1>2, <1>5, <3>1
    <3>2. CASE g = h
      BY <1>1, <1>2, <1>5, <3>2
    <3>3. CASE f # h /\ g # h
      BY <1>1, <1>2, <3>3 DEF RtPlaces
    <3> QED BY <3>1, <3>2, <3>3
  <2>3. \A g \in DOMAIN rttable' : \A i \in Range(rttable'[g]) :
          rthash(rtEnt'[i].net) = g /\ rtEnt'[i].net # 0 /\ RtSound(rtEnt'[i])
    <3> TAKE g \in DOMAIN rttable'
    <3> TAKE i \in Range(rttable'[g])
    <3>1. CASE g = h
      BY <1>1, <1>2, <3>1
    <3>2. CASE g # h
      <4>1. i \in Range(rttable[g]) /\ i \in RtLinked
        BY <1>1, <1>2, <1>4, <3>2
      <4>2. rthash(rtEnt[i].net) = g /\ rtEnt[i].net # 0 /\ RtSound(rtEnt[i])
        BY <1>1, <4>1 DEF RtPlaces
      <4> QED BY <4>1, <4>2 DEF RtSound
    <3> QED BY <3>1, <3>2
  <2>4. rtDefault' \notin RtLinked'
    BY <1>6
  <2> QED BY <2>1, <2>2, <2>3, <2>4 DEF RtPlaces, RtSound, rthash, RtPart
<1>8. RtSorted'
  <2> SUFFICES ASSUME NEW g \in DOMAIN rttable', NEW j \in DOMAIN rttable'[g], NEW k \in DOMAIN rttable'[g], j < k
               PROVE  /\ rtEnt'[rttable'[g][j]].mask >= rtEnt'[rttable'[g][k]].mask
                      /\ ~RtSame(rtEnt'[rttable'[g][j]], rtEnt'[rttable'[g][k]])
    BY DEF RtSorted, RtSame
  <2>1. CASE g = h
    BY <1>1, <1>2, <2>1
  <2>2. CASE g # h
    <3>1. rttable'[g] = rttable[g] /\ g \in DOMAIN rttable
      BY <1>1, <1>2, <2>2
    <3>2. rttable[g][j] \in RtLinked /\ rttable[g][k] \in RtLinked
      BY <3>1, RtChain
    <3>3. /\ rtEnt[rttable[g][j]].mask >= rtEnt[rttable[g][k]].mask
          /\ ~RtSame(rtEnt[rttable[g][j]], rtEnt[rttable[g][k]])
      BY <3>1 DEF RtSorted
    <3> QED BY <3>1, <3>2, <3>3 DEF RtSame
  <2> QED BY <2>1, <2>2
<1> QED BY <1>3, <1>6, <1>7, <1>8

\* Links change as the table does; p keeps what it holds.
LEMMA RtHasLinks ==
    ASSUME NEW p, NEW j, NEW b \in {0, 1}, rtHeld'[p] = rtHeld[p], rtFresh'[p] = rtFresh[p],
           RtLink(j) = RtLink(j)' + b
    PROVE  RtHas(p, j) = RtHas(p, j)' + b
<1>1. RtLink(j)' \in {0, 1}
  BY DEF RtLink
<1>2. RtOne(rtHeld[p] = j) \in {0, 1} /\ RtOne(rtFresh[p] = j) \in {0, 1}
  BY DEF RtOne
<1>3. RtHas(p, j) = RtLink(j) + RtOne(rtHeld[p] = j) + RtOne(rtFresh[p] = j)
      /\ RtHas(p, j)' = RtLink(j)' + RtOne(rtHeld'[p] = j) + RtOne(rtFresh'[p] = j)
  BY DEF RtHas
<1> QED BY <1>1, <1>2, <1>3

\* A chain without its m-th route.
LEMMA RtChainRemove ==
    ASSUME RtTypes, RtPlaces, RtSorted, NEW h \in DOMAIN rttable, NEW m \in DOMAIN rttable[h],
           NEW c, c = RemoveAt(rttable[h], m)
    PROVE  /\ c \in Seq(RtIds) /\ IsInjective(c) /\ Range(c) = Range(rttable[h]) \ {rttable[h][m]}
           /\ \A j, k \in DOMAIN c : j < k => /\ rtEnt[c[j]].mask >= rtEnt[c[k]].mask
                                              /\ ~RtSame(rtEnt[c[j]], rtEnt[c[k]])
<1>1. PICK q \in Seq(RtIds) : q = rttable[h] /\ IsInjective(q) /\ DOMAIN q = 1..Len(q) /\ Len(q) \in Nat
  BY RtChain DEF RtPlaces
<1>2. m \in 1..Len(q) /\ Lists(q, Range(q), RtIds)
  BY <1>1 DEF Lists
<1>3. Lists(RemoveAt(q, m), Range(q) \ {q[m]}, RtIds)
  BY <1>2, RemoveLists
<1>4. c = RemoveAt(q, m)
  BY <1>1
<1>5. c \in Seq(RtIds) /\ IsInjective(c) /\ Range(c) = Range(q) \ {q[m]}
  BY <1>3, <1>4 DEF Lists
<1>6. /\ Len(c) = Len(q) - 1
      /\ \A j \in 1..(Len(q)-1) : c[j] = IF j < m THEN q[j] ELSE q[j+1]
  BY <1>1, <1>2, <1>4, RemoveAtElements, ZenonT(40)
<1>7. ASSUME NEW j \in DOMAIN c, NEW k \in DOMAIN c, j < k
      PROVE  rtEnt[c[j]].mask >= rtEnt[c[k]].mask /\ ~RtSame(rtEnt[c[j]], rtEnt[c[k]])
  <2>1. j \in 1..(Len(q)-1) /\ k \in 1..(Len(q)-1)
    BY <1>5, <1>6
  <2>2. PICK a \in 1..Len(q), b \in 1..Len(q) : a < b /\ c[j] = q[a] /\ c[k] = q[b]
    <3>1. PICK a \in 1..Len(q) : c[j] = q[a] /\ a = IF j < m THEN j ELSE j + 1
      BY <1>1, <1>6, <2>1
    <3>2. PICK b \in 1..Len(q) : c[k] = q[b] /\ b = IF k < m THEN k ELSE k + 1
      BY <1>1, <1>6, <2>1
    <3>3. a < b
      BY <1>2, <1>7, <2>1, <3>1, <3>2
    <3> QED BY <3>1, <3>2, <3>3
  <2> QED BY <1>1, <2>2 DEF RtSorted
<1> QED BY <1>1, <1>5, <1>7

\* rtdel.
LEMMA RtStepDel ==
    ASSUME RtInv, NEW p \in RtProcs, rtdel(p)
    PROVE  RtInv'
<1>1. RtTypes /\ RtPlans /\ RtRoles /\ RtPlaces /\ RtCounts /\ RtSorted /\ RipAnnounced
  BY DEF RtInv
<1> DEFINE w == Tail(rtWork[p])
<1>2. /\ rtWork[p] \in Seq(RtOps) /\ rtWork[p] # <<>> /\ rtWork[p][1].op = "del"
      /\ p \notin {"ripout", "slow"} /\ w \in Seq(RtOps)
      /\ Head(rtWork[p]) = rtWork[p][1] /\ rtWork[p][1] \in RtOps
  <2>1. RtDoing(p, "del")
    BY ZenonT(40) DEF rtdel
  <2> QED BY <1>1, <2>1, RtWho
<1>3. PICK d \in Nat, m \in 0..RtW : Head(rtWork[p]).arg[1] = d /\ Head(rtWork[p]).arg[2] = m
  BY <1>2, RtOpTypes
<1>4. PICK h \in DOMAIN rttable : h = rthash(d)
  BY <1>1, <1>3, RtAddress DEF RtTypes
<1> DEFINE hit == {k \in DOMAIN rttable[h] : LET e == rtEnt[rttable[h][k]] IN e.net = d /\ e.mask = m}
<1>5. /\ RtDoing(p, "del") /\ RtDone(p)
      /\ UNCHANGED <<rtMask, rtHeld, rtFresh, ripMsg, ripRq, ripDue>>
      /\ IF rtDefault # RtNone /\ rtEnt[rtDefault].net = d
         THEN /\ rtEnt' = RTFREE(rtEnt, {rtDefault}) /\ RtFreed(rtEnt, {rtDefault})
              /\ rtDefault' = RtNone /\ rttable' = rttable
         ELSE IF hit # {}
         THEN /\ rtEnt' = RTFREE(rtEnt, {rttable[h][Min(hit)]})
              /\ RtFreed(rtEnt, {rttable[h][Min(hit)]})
              /\ rttable' = [rttable EXCEPT ![h] = RemoveAt(@, Min(hit))]
              /\ rtDefault' = rtDefault
         ELSE UNCHANGED <<rtEnt, rtFree, rttable, rtDefault>>
  BY <1>3, <1>4, ZenonT(40) DEF rtdel
<1>6. RtPlan(rtWork[p], rtHeld[p]) /\ rtFresh[p] = RtNone
  BY <1>1, <1>2 DEF RtPlans
<1>7. RtPlan(w, rtHeld[p])
  BY <1>2, <1>6, RtPlanDone DEF RtUsing
<1>8. /\ rtWork' = [rtWork EXCEPT ![p] = w] /\ rtHeld' = [rtHeld EXCEPT ![p] = rtHeld[p]]
      /\ rtFresh' = [rtFresh EXCEPT ![p] = RtNone] /\ rtHeld[p] \in RtIds \cup {RtNone}
      /\ rtEnt \in [RtIds -> RtRoutes] /\ RtNone \in RtIds \cup {RtNone}
      /\ rtDefault \in RtIds \cup {RtNone} /\ rttable \in [0..(RtTSize - 1) -> Seq(RtIds)]
  BY <1>1, <1>5, <1>6 DEF RtDone, RtTypes
<1>9. PICK u \in RtIds \cup {RtNone} : u = rtHeld[p]
  BY <1>8
<1> HIDE DEF w
<1>10. RipAnnounced'
  BY <1>1, <1>2, <1>5, <1>8, RtAnnouncedStep
<1>11. \A j \in RtLinked : j \in RtIds /\ rtEnt[j].ttl > 0
  BY <1>1, RtLinkedIds DEF RtPlaces, RtSound, RtLinked
<1>12. ASSUME NEW i \in RtIds, i \in RtLinked \/ i = rtDefault,
              rtEnt' = RTFREE(rtEnt, {i}), RtFreed(rtEnt, {i}),
              RtPlaces', RtSorted', rttable' \in [0..(RtTSize - 1) -> Seq(RtIds)],
              rtDefault' \in RtIds \cup {RtNone},
              \A j \in RtIds : RtLink(j) = RtLink(j)' + RtOne(j \in {i})
       PROVE  RtInv'
  <2>1. \A j \in RtIds : RtHas(p, j) = RtHas(p, j)' + RtOne(j \in {i})
    <3> TAKE j \in RtIds
    <3>1. PICK b \in {0, 1} : b = RtOne(j \in {i})
      BY DEF RtOne
    <3>2. RtHas(p, j) = RtHas(p, j)' + b
      BY <1>5, <1>12, <3>1, RtHasLinks
    <3> QED BY <3>1, <3>2
  <2>2. rtFree' = rtFree \cup {j \in {i} : rtEnt[j].ref <= 1}
    BY <1>12 DEF RtFreed
  <2>3. PICK S \in SUBSET RtIds : S = {i}
    BY <1>12
  <2>4. /\ rtHeld' = [rtHeld EXCEPT ![p] = u] /\ RtPlan(w, u)
        /\ rtEnt' = RTFREE(rtEnt, S) /\ rtFree' = rtFree \cup {j \in S : rtEnt[j].ref <= 1}
        /\ \A j \in RtIds : RtHas(p, j) = RtHas(p, j)' + RtOne(j \in S)
    BY <1>7, <1>8, <1>9, <1>12, <2>1, <2>2, <2>3
  <2>5. RtReleases(p, rtEnt, S)
    BY <2>4 DEF RtReleases
  <2> QED BY <1>2, <1>5, <1>8, <1>9, <1>10, <1>12, <2>3, <2>4, <2>5, RtReleaseStep
<1>13. CASE rtDefault # RtNone /\ rtEnt[rtDefault].net = d
  <2>1. PICK i \in RtIds : i = rtDefault
    BY <1>8, <1>13
  <2>2. /\ rtEnt' = RTFREE(rtEnt, {i}) /\ RtFreed(rtEnt, {i}) /\ rtDefault' = RtNone /\ rttable' = rttable
    BY <1>5, <1>13, <2>1
  <2>3. rtEnt[i].ref > 0
    BY <1>1, <2>1, RtReached
  <2>4. \A j \in RtIds : rtEnt'[j].net = rtEnt[j].net /\ rtEnt'[j].mask = rtEnt[j].mask
                         /\ rtEnt'[j].ttl = rtEnt[j].ttl
    BY <1>8, <2>2, <2>3, RtFreeing
  <2>5. RtNone \notin RtLinked
    BY <1>11 DEF RtIds, RtNone
  <2>6. RtPlaces' /\ RtSorted' /\ RtLinked' = RtLinked
    BY <1>1, <1>11, <2>2, <2>4, <2>5, RtSameChains
  <2>7. \A j \in RtIds : RtLink(j) = RtLink(j)' + RtOne(j \in {i})
    <3>1. \A j \in RtIds : j # RtNone
      BY DEF RtIds, RtNone
    <3>2. rtDefault \notin RtLinked
      BY <1>1 DEF RtPlaces
    <3> QED BY <2>1, <2>2, <2>6, <3>1, <3>2 DEF RtLink, RtOne
  <2> QED BY <1>8, <1>12, <2>1, <2>2, <2>6, <2>7
<1>14. CASE ~(rtDefault # RtNone /\ rtEnt[rtDefault].net = d) /\ hit # {}
  <2>1. hit \in SUBSET Nat
    BY <1>1, RtChain
  <2>2. PICK k \in hit : k = Min(hit)
    BY <1>14, <2>1, Smallest
  <2>3. k \in DOMAIN rttable[h]
    OBVIOUS
  <2>4. PICK i \in RtIds : i = rttable[h][k] /\ i \in RtLinked /\ i \in Range(rttable[h])
    BY <1>1, <2>3, RtChain
  <2>5. PICK c : c = RemoveAt(rttable[h], k)
    OBVIOUS
  <2>6. /\ rtEnt' = RTFREE(rtEnt, {i}) /\ RtFreed(rtEnt, {i}) /\ rtDefault' = rtDefault
        /\ rttable' = [rttable EXCEPT ![h] = c]
    BY <1>5, <1>8, <1>14, <2>2, <2>4, <2>5
  <2> HIDE DEF hit
  <2>7. /\ c \in Seq(RtIds) /\ IsInjective(c) /\ Range(c) = Range(rttable[h]) \ {i}
        /\ \A a, b \in DOMAIN c : a < b => /\ rtEnt[c[a]].mask >= rtEnt[c[b]].mask
                                           /\ ~RtSame(rtEnt[c[a]], rtEnt[c[b]])
    BY <1>1, <2>3, <2>4, <2>5, RtChainRemove
  <2>8. rtEnt[i].ref > 0
    BY <1>1, <2>4, RtReached
  <2>9. \A j \in RtIds : rtEnt'[j].net = rtEnt[j].net /\ rtEnt'[j].mask = rtEnt[j].mask
                         /\ rtEnt'[j].ttl = rtEnt[j].ttl
    BY <1>8, <2>6, <2>8, RtFreeing
  <2>10. \A j \in Range(c) : /\ j \in RtIds /\ j \in RtLinked /\ rthash(rtEnt[j].net) = h
                             /\ rtEnt[j].net # 0 /\ RtSound(rtEnt[j])
    <3>1. \A j \in Range(rttable[h]) : j \in RtLinked
      BY DEF RtLinked
    <3> QED BY <1>1, <1>11, <2>7, <3>1 DEF RtPlaces
  <2>11. \A a \in DOMAIN c : c[a] \in RtIds
    BY <2>7
  <2>12. /\ \A j \in Range(c) \ Range(rttable[h]) : j \notin RtLinked
         /\ rtDefault' \notin RtLinked \cup Range(c)
         /\ rtDefault' # RtNone => rtEnt'[rtDefault'].ttl > 0
    BY <1>1, <1>8, <2>6, <2>7, <2>9, <2>10 DEF RtPlaces
  <2>13. \A j \in RtLinked : /\ rtEnt'[j].net = rtEnt[j].net /\ rtEnt'[j].mask = rtEnt[j].mask
                             /\ rtEnt'[j].ttl > 0
    BY <1>11, <2>9
  <2>14. \A j \in Range(c) : rthash(rtEnt'[j].net) = h /\ rtEnt'[j].net # 0 /\ RtSound(rtEnt'[j])
    BY <2>9, <2>10 DEF RtSound
  <2>15. \A a, b \in DOMAIN c : a < b => /\ rtEnt'[c[a]].mask >= rtEnt'[c[b]].mask
                                         /\ ~RtSame(rtEnt'[c[a]], rtEnt'[c[b]])
    BY <2>7, <2>9, <2>11 DEF RtSame
  <2>16. /\ RtPlaces' /\ RtSorted' /\ rttable' \in [0..(RtTSize - 1) -> Seq(RtIds)]
         /\ RtLinked' = (RtLinked \ Range(rttable[h])) \cup Range(c)
    BY <1>1, <2>6, <2>7, <2>12, <2>13, <2>14, <2>15, RtChainStep
  <2>17. RtLinked' = RtLinked \ {i}
    <3>1. Range(rttable[h]) \subseteq RtLinked
      BY DEF RtLinked
    <3> QED BY <2>4, <2>7, <2>16, <3>1
  <2>18. \A j \in RtIds : RtLink(j) = RtLink(j)' + RtOne(j \in {i})
    <3>1. i # rtDefault
      BY <1>1, <2>4 DEF RtPlaces
    <3> QED BY <2>4, <2>6, <2>17, <3>1 DEF RtLink, RtOne
  <2> QED BY <1>8, <1>12, <2>4, <2>6, <2>16, <2>18
<1>15. CASE ~(rtDefault # RtNone /\ rtEnt[rtDefault].net = d) /\ hit = {}
  <2>1. /\ UNCHANGED <<rttable, rtDefault, rtEnt, rtFree, rtHeld, rtFresh, rtMask>>
        /\ RtDoing(p, "del") /\ RtDone(p) /\ ripRq' = ripRq
    BY <1>5, <1>15
  <2>2. ripRq' \in [{RtLocal, RtPrimary} -> Nat] /\ "del" \notin RtUsing \cup {"get", "add"}
    BY <1>1, <2>1 DEF RtTypes, RtUsing
  <2> QED BY <1>10, <2>1, <2>2, RtDoneStep
<1> QED BY <1>13, <1>14, <1>15

-----------------------------------------------------------------------------
\* Where the scan for the new route n stops.
LEMMA RtScanIs ==
    ASSUME RtTypes, NEW h \in DOMAIN rttable, NEW n
    PROVE  LET c == rttable[h]  k == RtScan(c, n) IN
           /\ k \in 1..(Len(c) + 1)
           /\ \A j \in 1..(k - 1) : ~(rtEnt[n].mask > rtEnt[c[j]].mask) /\ ~RtSame(rtEnt[c[j]], rtEnt[n])
           /\ k <= Len(c) => rtEnt[n].mask > rtEnt[c[k]].mask \/ RtSame(rtEnt[c[k]], rtEnt[n])
<1>1. PICK c \in Seq(RtIds), l \in Nat : c = rttable[h] /\ DOMAIN c = 1..Len(c) /\ l = Len(c)
  BY RtChain
<1> DEFINE stop == {k \in DOMAIN c : rtEnt[n].mask > rtEnt[c[k]].mask \/ RtSame(rtEnt[c[k]], rtEnt[n])}
<1>2. PICK k : k = RtScan(c, n)
  OBVIOUS
<1>3. k = IF stop = {} THEN Len(c) + 1 ELSE Min(stop)
  BY <1>2 DEF RtScan
<1>4. CASE stop = {}
  <2>1. k = l + 1 /\ \A j \in 1..(k - 1) : j \in DOMAIN c /\ j \notin stop
    BY <1>1, <1>3, <1>4
  <2>2. \A j \in 1..(k - 1) : ~(rtEnt[n].mask > rtEnt[c[j]].mask) /\ ~RtSame(rtEnt[c[j]], rtEnt[n])
    BY <2>1
  <2> QED BY <1>1, <1>2, <2>1, <2>2
<1>5. CASE stop # {}
  <2>1. stop \in SUBSET Nat
    BY <1>1
  <2>2. Min(stop) \in stop /\ \A j \in stop : Min(stop) <= j
    BY <1>5, <2>1, Smallest
  <2>3. k \in stop /\ \A j \in stop : k <= j
    BY <1>3, <1>5, <2>2
  <2>4. k \in 1..l /\ \A j \in 1..(k - 1) : j \in DOMAIN c /\ j \notin stop
    BY <1>1, <2>3
  <2>5. \A j \in 1..(k - 1) : ~(rtEnt[n].mask > rtEnt[c[j]].mask) /\ ~RtSame(rtEnt[c[j]], rtEnt[n])
    BY <2>4
  <2>6. rtEnt[n].mask > rtEnt[c[k]].mask \/ RtSame(rtEnt[c[k]], rtEnt[n])
    BY <2>3
  <2> HIDE DEF stop
  <2> QED BY <1>1, <1>2, <2>4, <2>5, <2>6
<1> QED BY <1>4, <1>5

\* rtadd moves its own reference into the table.
LEMMA RtHasAdds ==
    ASSUME NEW p, NEW j \in RtIds, NEW b \in {0, 1}, rtHeld'[p] = rtHeld[p], rtFresh'[p] = RtNone,
           RtLink(j) + RtOne(rtFresh[p] = j) = RtLink(j)' + b
    PROVE  RtHas(p, j) = RtHas(p, j)' + b
<1>1. RtLink(j)' \in {0, 1} /\ RtLink(j) \in {0, 1}
  BY DEF RtLink
<1>2. RtOne(rtHeld[p] = j) \in {0, 1} /\ RtOne(rtFresh[p] = j) \in {0, 1} /\ RtOne(rtFresh'[p] = j) = 0
  BY DEF RtOne, RtIds, RtNone
<1>3. RtHas(p, j) = RtLink(j) + RtOne(rtHeld[p] = j) + RtOne(rtFresh[p] = j)
      /\ RtHas(p, j)' = RtLink(j)' + RtOne(rtHeld'[p] = j) + RtOne(rtFresh'[p] = j)
  BY DEF RtHas
<1> QED BY <1>1, <1>2, <1>3

\* rtadd, whatever it did to the table.
RtAdds(p, ent, S) ==
    /\ rtEnt' = RTFREE(ent, S) /\ rtFree' = rtFree \cup {i \in S : rtEnt[i].ref <= 1}
    /\ \A i \in RtIds : ent[i].ref = rtEnt[i].ref
    /\ \A i \in RtIds : i \notin RtLinked /\ i # rtDefault => ent[i] = rtEnt[i]
    /\ \A j \in RtIds : RtLink(j) + RtOne(rtFresh[p] = j) = RtLink(j)' + RtOne(j \in S)

\* rtadd keeps the invariant once places and order are known.
LEMMA RtAddStep ==
    ASSUME RtInv, NEW p \in RtProcs, RtDoing(p, "add"), RtDone(p), NEW ent \in [RtIds -> RtRoutes],
           NEW S \in SUBSET RtIds, rtFresh' = [rtFresh EXCEPT ![p] = RtNone],
           UNCHANGED <<rtMask, rtHeld, ripRq>>, RtAdds(p, ent, S),
           rttable' \in [0..(RtTSize - 1) -> Seq(RtIds)], rtDefault' \in RtIds \cup {RtNone},
           RtPlaces', RtSorted', ripMsg => ripMsg', ripDue' => ripDue \/ ripMsg'
    PROVE  RtInv'
<1>1. RtTypes /\ RtPlans /\ RtRoles /\ RipAnnounced
  BY DEF RtInv
<1> DEFINE w == Tail(rtWork[p])
<1>2. /\ rtWork[p] \in Seq(RtOps) /\ rtWork[p] # <<>> /\ rtWork[p][1].op = "add"
      /\ p \notin {"ripout", "slow"} /\ w \in Seq(RtOps)
  BY <1>1, RtWho
<1>3. RtPlan(w, rtHeld[p])
  BY <1>1, <1>2, RtPlanDone DEF RtUsing, RtPlans
<1>4. PICK u \in RtIds \cup {RtNone} : u = rtHeld[p]
  BY <1>1 DEF RtTypes
<1>5. rtWork' = [rtWork EXCEPT ![p] = w] /\ rtHeld' = [rtHeld EXCEPT ![p] = u] /\ RtPlan(w, u)
      /\ rtHeld'[p] = rtHeld[p] /\ rtFresh'[p] = RtNone
  BY <1>1, <1>3, <1>4 DEF RtDone, RtTypes
<1> HIDE DEF w
<1>6. RipAnnounced'
  BY <1>1, <1>2, <1>5, RtAnnouncedStep
<1>7. \A j \in RtIds : RtHas(p, j) = RtHas(p, j)' + RtOne(j \in S)
  <2> TAKE j \in RtIds
  <2>1. PICK b \in {0, 1} : b = RtOne(j \in S)
    BY DEF RtOne
  <2>2. RtLink(j) + RtOne(rtFresh[p] = j) = RtLink(j)' + b
    BY <2>1 DEF RtAdds
  <2>3. RtHas(p, j) = RtHas(p, j)' + b
    BY <1>5, <2>2, RtHasAdds
  <2> QED BY <2>1, <2>3
<1>8. /\ p = "ripout" => \A k \in DOMAIN w : w[k].op \in {"lock", "scan", "sent", "unlock"}
      /\ p = "slow" => \A k \in DOMAIN w : w[k].op = "notify"
      /\ rtMask' = rtMask /\ ripRq' = ripRq
  BY <1>2
<1>9. RtReleases(p, ent, S)
  BY <1>7 DEF RtReleases, RtAdds
<1> QED BY <1>2, <1>4, <1>5, <1>6, <1>8, <1>9, RtReleaseStep

\* A chain with the new route n at the place k of its key.
LEMMA RtChainInsert ==
    ASSUME RtTypes, RtPlaces, RtSorted, NEW h \in DOMAIN rttable, NEW n \in RtIds, n \notin Range(rttable[h]),
           NEW k, k = RtScan(rttable[h], n), ~(k <= Len(rttable[h]) /\ RtSame(rtEnt[rttable[h][k]], rtEnt[n])),
           NEW c, c = InsertAt(rttable[h], k, n)
    PROVE  /\ c \in Seq(RtIds) /\ IsInjective(c) /\ Range(c) = Range(rttable[h]) \cup {n}
           /\ \A i, j \in DOMAIN c : i < j => /\ rtEnt[c[i]].mask >= rtEnt[c[j]].mask
                                              /\ ~RtSame(rtEnt[c[i]], rtEnt[c[j]])
<1>1. PICK q \in Seq(RtIds), l \in Nat : q = rttable[h] /\ IsInjective(q) /\ DOMAIN q = 1..Len(q) /\ l = Len(q)
  BY RtChain DEF RtPlaces
<1>2. /\ k \in 1..(Len(q) + 1)
      /\ \A j \in 1..(k - 1) : ~(rtEnt[n].mask > rtEnt[q[j]].mask) /\ ~RtSame(rtEnt[q[j]], rtEnt[n])
      /\ k <= Len(q) => rtEnt[n].mask > rtEnt[q[k]].mask
  BY <1>1, RtScanIs
<1>3. Lists(q, Range(q), RtIds) /\ n \notin Range(q)
  BY <1>1 DEF Lists
<1>4. c = InsertAt(q, k, n)
  BY <1>1
<1>5. Lists(InsertAt(q, k, n), Range(q) \cup {n}, RtIds)
  BY <1>2, <1>3, InsertLists
<1>6. c \in Seq(RtIds) /\ IsInjective(c) /\ Range(c) = Range(q) \cup {n}
  BY <1>4, <1>5 DEF Lists
<1>7. Len(c) = l + 1 /\ c[k] = n
  BY <1>1, <1>2, <1>4, InsertAtElements
<1>8. \A j \in 1..(k - 1) : c[j] = q[j]
  <2>1. PICK i \in 1..(Len(q) + 1) : i = k
    BY <1>2
  <2>2. \A j \in 1..(i - 1) : InsertAt(q, i, n)[j] = q[j]
    BY InsertAtElements
  <2> QED BY <1>4, <2>1, <2>2
<1>9. \A j \in k..l : c[j + 1] = q[j]
  BY <1>1, <1>2, <1>4, InsertAtElements
<1>10. \A j \in 1..l : rtEnt[q[j]].mask \in Int
  <2> TAKE j \in 1..l
  <2>1. rtEnt[q[j]] \in RtRoutes
    BY <1>1 DEF RtTypes
  <2> QED BY <2>1, RtRipAssumption DEF RtRoutes
<1>11. rtEnt[n].mask \in Int
  <2>1. rtEnt[n] \in RtRoutes
    BY DEF RtTypes
  <2> QED BY <2>1, RtRipAssumption DEF RtRoutes
<1>12. \A i, j \in 1..l : i < j => rtEnt[q[i]].mask >= rtEnt[q[j]].mask /\ ~RtSame(rtEnt[q[i]], rtEnt[q[j]])
  BY <1>1 DEF RtSorted
<1>13. ASSUME NEW i \in DOMAIN c, NEW j \in DOMAIN c, i < j
       PROVE  rtEnt[c[i]].mask >= rtEnt[c[j]].mask /\ ~RtSame(rtEnt[c[i]], rtEnt[c[j]])
  <2>1. i \in 1..(l + 1) /\ j \in 1..(l + 1) /\ k \in 1..(l + 1)
    BY <1>1, <1>2, <1>6, <1>7
  <2>2. CASE j < k
    <3>1. i \in 1..(k - 1) /\ j \in 1..(k - 1) /\ i \in 1..l /\ j \in 1..l
      BY <1>13, <2>1, <2>2
    <3> QED BY <1>8, <1>12, <1>13, <3>1
  <2>3. CASE j = k
    <3>1. i \in 1..(k - 1) /\ i \in 1..l
      BY <1>13, <2>1, <2>3
    <3>2. ~(rtEnt[n].mask > rtEnt[q[i]].mask) /\ ~RtSame(rtEnt[q[i]], rtEnt[n])
      BY <1>2, <3>1
    <3> QED BY <1>7, <1>8, <1>10, <1>11, <2>3, <3>1, <3>2
  <2>4. CASE j > k
    <3>1. PICK b \in k..l : j = b + 1 /\ b \in 1..l
      <4>1. j - 1 \in k..l /\ j = (j - 1) + 1 /\ j - 1 \in 1..l
        BY <2>1, <2>4
      <4> QED BY <4>1
    <3>2. c[j] = q[b]
      BY <1>9, <3>1
    <3>3. CASE i < k
      <4>1. i \in 1..(k - 1) /\ i \in 1..l /\ i < b
        BY <2>1, <3>1, <3>3
      <4> QED BY <1>8, <1>12, <3>1, <3>2, <4>1
    <3>4. CASE i = k
      <4>1. k \in 1..l /\ k <= Len(q)
        BY <1>1, <2>1, <3>1
      <4>2. rtEnt[n].mask > rtEnt[q[k]].mask
        BY <1>2, <4>1
      <4>3. rtEnt[q[k]].mask >= rtEnt[q[b]].mask
        BY <1>10, <1>12, <3>1, <4>1
      <4>4. rtEnt[n].mask > rtEnt[q[b]].mask
        BY <1>10, <1>11, <3>1, <4>1, <4>2, <4>3
      <4> QED BY <1>7, <1>10, <1>11, <3>1, <3>2, <3>4, <4>4 DEF RtSame
    <3>5. CASE i > k
      <4>1. PICK a \in k..l : i = a + 1 /\ a \in 1..l
        <5>1. i - 1 \in k..l /\ i = (i - 1) + 1 /\ i - 1 \in 1..l
          BY <1>13, <2>1, <2>4, <3>5
        <5> QED BY <5>1
      <4>2. c[i] = q[a] /\ a < b
        BY <1>9, <1>13, <3>1, <4>1
      <4> QED BY <1>12, <3>1, <3>2, <4>1, <4>2
    <3> QED BY <2>1, <3>3, <3>4, <3>5
  <2> QED BY <2>1, <2>2, <2>3, <2>4
<1> QED BY <1>1, <1>6, <1>13

\* A chain in which n replaces the k-th route, for the same network and mask.
LEMMA RtChainReplace ==
    ASSUME RtTypes, RtPlaces, RtSorted, NEW h \in DOMAIN rttable, NEW n \in RtIds, n \notin Range(rttable[h]),
           NEW k \in DOMAIN rttable[h], RtSame(rtEnt[rttable[h][k]], rtEnt[n]),
           NEW c, c = [rttable[h] EXCEPT ![k] = n]
    PROVE  /\ c \in Seq(RtIds) /\ IsInjective(c) /\ Range(c) = (Range(rttable[h]) \ {rttable[h][k]}) \cup {n}
           /\ \A i, j \in DOMAIN c : i < j => /\ rtEnt[c[i]].mask >= rtEnt[c[j]].mask
                                              /\ ~RtSame(rtEnt[c[i]], rtEnt[c[j]])
<1>1. PICK q \in Seq(RtIds) : q = rttable[h] /\ IsInjective(q) /\ DOMAIN q = 1..Len(q)
  BY RtChain DEF RtPlaces
<1>2. c \in Seq(RtIds) /\ DOMAIN c = DOMAIN q /\ \A j \in DOMAIN q : c[j] = IF j = k THEN n ELSE q[j]
  BY <1>1
<1>3. \A j \in DOMAIN q : q[j] # n /\ q[j] \in Range(q)
  BY <1>1 DEF Range
<1>4. \A i, j \in DOMAIN q : q[i] = q[j] => i = j
  BY <1>1 DEF IsInjective
<1>5. IsInjective(c)
  BY <1>2, <1>3, <1>4 DEF IsInjective
<1>6. Range(c) = (Range(q) \ {q[k]}) \cup {n}
  <2>1. \A x \in Range(c) : x \in (Range(q) \ {q[k]}) \cup {n}
    <3> TAKE x \in Range(c)
    <3>1. PICK j \in DOMAIN q : x = c[j]
      BY <1>2 DEF Range
    <3> QED BY <1>1, <1>2, <1>3, <1>4, <3>1
  <2>2. ASSUME NEW x \in Range(q), x # q[k] PROVE x \in Range(c)
    <3>1. PICK j \in DOMAIN q : x = q[j]
      BY DEF Range
    <3>2. c[j] = x
      BY <1>2, <2>2, <3>1
    <3> QED BY <1>2, <3>1, <3>2 DEF Range
  <2>3. n \in Range(c)
    BY <1>1, <1>2 DEF Range
  <2> QED BY <2>1, <2>2, <2>3
<1>7. \A j \in DOMAIN c : rtEnt[c[j]].mask = rtEnt[q[j]].mask /\ rtEnt[c[j]].net = rtEnt[q[j]].net
  BY <1>1, <1>2 DEF RtSame
<1>8. \A i, j \in DOMAIN c : i < j => /\ rtEnt[c[i]].mask >= rtEnt[c[j]].mask
                                      /\ ~RtSame(rtEnt[c[i]], rtEnt[c[j]])
  BY <1>1, <1>2, <1>7 DEF RtSorted, RtSame
<1> QED BY <1>1, <1>2, <1>5, <1>6, <1>8

\* What both give, in one word.
RtOrderly(c, R) ==
    /\ c \in Seq(RtIds) /\ IsInjective(c) /\ Range(c) = R
    /\ \A i, j \in DOMAIN c : i < j => /\ rtEnt[c[i]].mask >= rtEnt[c[j]].mask
                                       /\ ~RtSame(rtEnt[c[i]], rtEnt[c[j]])

LEMMA RtInserted ==
    ASSUME RtTypes, RtPlaces, RtSorted, NEW h \in DOMAIN rttable, NEW n \in RtIds, n \notin Range(rttable[h]),
           NEW k, k = RtScan(rttable[h], n), ~(k <= Len(rttable[h]) /\ RtSame(rtEnt[rttable[h][k]], rtEnt[n])),
           NEW c, c = InsertAt(rttable[h], k, n)
    PROVE  RtOrderly(c, Range(rttable[h]) \cup {n})
<1>1. /\ c \in Seq(RtIds) /\ IsInjective(c) /\ Range(c) = Range(rttable[h]) \cup {n}
      /\ \A i, j \in DOMAIN c : i < j => /\ rtEnt[c[i]].mask >= rtEnt[c[j]].mask
                                         /\ ~RtSame(rtEnt[c[i]], rtEnt[c[j]])
  BY RtChainInsert, ZenonT(60)
<1> QED BY <1>1, ZenonT(40) DEF RtOrderly

LEMMA RtReplaced ==
    ASSUME RtTypes, RtPlaces, RtSorted, NEW h \in DOMAIN rttable, NEW n \in RtIds, n \notin Range(rttable[h]),
           NEW k \in DOMAIN rttable[h], RtSame(rtEnt[rttable[h][k]], rtEnt[n]),
           NEW c, c = [rttable[h] EXCEPT ![k] = n]
    PROVE  RtOrderly(c, (Range(rttable[h]) \ {rttable[h][k]}) \cup {n})
<1>1. /\ c \in Seq(RtIds) /\ IsInjective(c) /\ Range(c) = (Range(rttable[h]) \ {rttable[h][k]}) \cup {n}
      /\ \A i, j \in DOMAIN c : i < j => /\ rtEnt[c[i]].mask >= rtEnt[c[j]].mask
                                         /\ ~RtSame(rtEnt[c[i]], rtEnt[c[j]])
  BY RtChainReplace, ZenonT(60)
<1> QED BY <1>1, ZenonT(40) DEF RtOrderly

\* Giving up nothing changes nothing.
LEMMA RtFreeNone ==
    ASSUME NEW ent \in [RtIds -> RtRoutes]
    PROVE  RTFREE(ent, {}) = ent
BY DEF RTFREE

\* What rtadd(p) starts from: the new route n, its chain h and place k.
LEMMA RtAddFrom ==
    ASSUME RtInv, NEW p \in RtProcs, rtadd(p)
    PROVE  \E n \in RtIds, h \in DOMAIN rttable : \E k \in 1..(Len(rttable[h]) + 1) :
             /\ n = rtFresh[p] /\ h = rthash(rtEnt[n].net) /\ k = RtScan(rttable[h], n)
             /\ n \notin RtLinked /\ n # rtDefault /\ n \notin rtFree /\ RtMade(rtEnt[n])
             /\ RtDoing(p, "add") /\ RtDone(p) /\ rtFresh' = [rtFresh EXCEPT ![p] = RtNone]
             /\ UNCHANGED <<rtMask, rtHeld, ripRq>>
             /\ \/ rtEnt[n].net = 0 /\ RtAddDefault(n)
                \/ /\ rtEnt[n].net # 0
                   /\ ~(k <= Len(rttable[h]) /\ RtSame(rtEnt[rttable[h][k]], rtEnt[n]))
                   /\ RtAddNew(n, h, k)
                \/ /\ k <= Len(rttable[h]) /\ RtSame(rtEnt[rttable[h][k]], rtEnt[n])
                   /\ \/ RtAddSameGw(n, rttable[h][k]) \/ RtAddWorse(n, rttable[h][k])
                      \/ /\ ~(rtEnt[rttable[h][k]].metric <= rtEnt[n].metric)
                         /\ RtAddBetter(n, rttable[h][k], h, k)
<1>1. RtTypes /\ RtPlans /\ RtCounts
  BY DEF RtInv
<1>2. rtFresh[p] # RtNone
  BY ZenonT(40) DEF rtadd
<1>3. PICK n \in RtIds : /\ n = rtFresh[p] /\ n \notin RtLinked /\ n # rtDefault /\ n \notin rtFree
                         /\ RtMade(rtEnt[n])
  BY <1>1, <1>2, RtAlone
<1>4. rtEnt[n].net \in Nat /\ rtMask \in RtMasks
  <2>1. rtEnt[n] \in RtRoutes
    BY <1>1 DEF RtTypes
  <2> QED BY <1>1, <2>1 DEF RtRoutes, RtTypes
<1>5. PICK h \in DOMAIN rttable : h = rthash(rtEnt[n].net)
  BY <1>1, <1>4, RtAddress DEF RtTypes
<1>6. PICK k \in 1..(Len(rttable[h]) + 1) : k = RtScan(rttable[h], n)
  BY <1>1, RtScanIs
<1>7. /\ RtDoing(p, "add") /\ RtDone(p) /\ rtFresh' = [rtFresh EXCEPT ![p] = RtNone]
      /\ UNCHANGED <<rtMask, rtHeld, ripRq>>
  BY ZenonT(40) DEF rtadd
<1>8. \/ rtEnt[n].net = 0 /\ RtAddDefault(n)
      \/ /\ rtEnt[n].net # 0
         /\ ~(k <= Len(rttable[h]) /\ RtSame(rtEnt[rttable[h][k]], rtEnt[n]))
         /\ RtAddNew(n, h, k)
      \/ /\ k <= Len(rttable[h]) /\ RtSame(rtEnt[rttable[h][k]], rtEnt[n])
         /\ \/ RtAddSameGw(n, rttable[h][k]) \/ RtAddWorse(n, rttable[h][k])
            \/ /\ ~(rtEnt[rttable[h][k]].metric <= rtEnt[n].metric)
               /\ RtAddBetter(n, rttable[h][k], h, k)
  <2> DEFINE dup == k <= Len(rttable[h]) /\ RtSame(rtEnt[rttable[h][k]], rtEnt[n])
             s == rttable[h][k]
  <2>1. IF rtEnt[n].net = 0 THEN RtAddDefault(n)
        ELSE IF ~dup THEN RtAddNew(n, h, k)
        ELSE IF rtEnt[s].gw = rtEnt[n].gw THEN RtAddSameGw(n, s)
        ELSE IF rtEnt[s].metric <= rtEnt[n].metric THEN RtAddWorse(n, s)
        ELSE RtAddBetter(n, s, h, k)
    BY <1>3, <1>5, <1>6, ZenonT(40) DEF rtadd
  <2> QED BY <2>1
<1> QED BY <1>3, <1>5, <1>6, <1>7, <1>8

\* rtadd makes n the default, ...
LEMMA RtStepAddDefault ==
    ASSUME RtInv, NEW p \in RtProcs, NEW n \in RtIds, n = rtFresh[p], n \notin RtLinked, n # rtDefault,
           RtMade(rtEnt[n]), RtDoing(p, "add"), RtDone(p), rtFresh' = [rtFresh EXCEPT ![p] = RtNone],
           UNCHANGED <<rtMask, rtHeld, ripRq>>, RtAddDefault(n)
    PROVE  RtInv'
<1>1. RtTypes /\ RtPlans /\ RtPlaces /\ RtCounts /\ RtSorted
  BY DEF RtInv
<1>2. /\ rtEnt \in [RtIds -> RtRoutes] /\ rtDefault \in RtIds \cup {RtNone}
      /\ rttable \in [0..(RtTSize - 1) -> Seq(RtIds)]
  BY <1>1 DEF RtTypes
<1>3. PICK S \in SUBSET RtIds : S = {rtDefault} \ {RtNone}
  BY <1>2
<1>4. /\ rtDefault' = n /\ rtEnt' = RTFREE(rtEnt, S) /\ rtFree' = rtFree \cup {i \in S : rtEnt[i].ref <= 1}
      /\ UNCHANGED <<rttable, ripMsg, ripDue>>
  BY <1>3 DEF RtAddDefault, RtFreed
<1>5. \A i \in S : rtEnt[i].ref > 0
  BY <1>1, <1>3, RtReached
<1>6. \A i \in RtIds : rtEnt'[i].net = rtEnt[i].net /\ rtEnt'[i].mask = rtEnt[i].mask /\ rtEnt'[i].ttl = rtEnt[i].ttl
  BY <1>2, <1>4, <1>5, RtFreeing
<1>7. \A i \in RtLinked : i \in RtIds /\ rtEnt[i].ttl > 0
  BY <1>1, RtLinkedIds DEF RtPlaces, RtSound, RtLinked
<1>8. rtEnt'[rtDefault'].ttl > 0
  BY <1>4, <1>6 DEF RtMade, RtSound
<1>9. RtPlaces' /\ RtSorted' /\ RtLinked' = RtLinked
  BY <1>1, <1>4, <1>6, <1>7, <1>8, RtSameChains
<1>10. \A j \in RtIds : RtLink(j) + RtOne(rtFresh[p] = j) = RtLink(j)' + RtOne(j \in S)
  <2> TAKE j \in RtIds
  <2>1. j # RtNone
    BY DEF RtIds, RtNone
  <2>2. rtDefault \notin RtLinked
    BY <1>1 DEF RtPlaces
  <2> QED BY <1>3, <1>4, <1>9, <2>1, <2>2 DEF RtLink, RtOne
<1>11. RtAdds(p, rtEnt, S)
  BY <1>4, <1>10 DEF RtAdds
<1>12. rttable' \in [0..(RtTSize - 1) -> Seq(RtIds)] /\ rtDefault' \in RtIds \cup {RtNone}
  BY <1>2, <1>4
<1> QED BY <1>2, <1>4, <1>9, <1>11, <1>12, RtAddStep

\* ... puts it into its chain, ...
LEMMA RtStepAddNew ==
    ASSUME RtInv, NEW p \in RtProcs, NEW n \in RtIds, NEW h \in DOMAIN rttable, NEW k,
           n = rtFresh[p], n \notin RtLinked, n # rtDefault, h = rthash(rtEnt[n].net), rtEnt[n].net # 0,
           k = RtScan(rttable[h], n), ~(k <= Len(rttable[h]) /\ RtSame(rtEnt[rttable[h][k]], rtEnt[n])),
           RtMade(rtEnt[n]), RtDoing(p, "add"), RtDone(p), rtFresh' = [rtFresh EXCEPT ![p] = RtNone],
           UNCHANGED <<rtMask, rtHeld, ripRq>>, RtAddNew(n, h, k)
    PROVE  RtInv'
<1>1. RtTypes /\ RtPlans /\ RtPlaces /\ RtCounts /\ RtSorted
  BY DEF RtInv
<1>2. /\ rtEnt \in [RtIds -> RtRoutes] /\ rtDefault \in RtIds \cup {RtNone}
      /\ rttable \in [0..(RtTSize - 1) -> Seq(RtIds)]
  BY <1>1 DEF RtTypes
<1>3. PICK c : c = InsertAt(rttable[h], k, n)
  OBVIOUS
<1>4. /\ rttable' = [rttable EXCEPT ![h] = c] /\ UNCHANGED <<rtEnt, rtFree, rtDefault>>
      /\ (ripMsg => ripMsg') /\ (ripDue' => ripDue \/ ripMsg')
  BY <1>3 DEF RtAddNew, RtRipTold, RipNotify
<1>5. \A g \in DOMAIN rttable : \A i \in Range(rttable[g]) : i \in RtLinked
  BY DEF RtLinked
<1>6. n \notin Range(rttable[h])
  BY <1>5
<1>7. /\ c \in Seq(RtIds) /\ IsInjective(c) /\ Range(c) = Range(rttable[h]) \cup {n}
      /\ \A i, j \in DOMAIN c : i < j => /\ rtEnt[c[i]].mask >= rtEnt[c[j]].mask
                                         /\ ~RtSame(rtEnt[c[i]], rtEnt[c[j]])
  <2>1. RtOrderly(c, Range(rttable[h]) \cup {n})
    BY <1>1, <1>3, <1>6, RtInserted, ZenonT(40)
  <2> QED BY <2>1, ZenonT(40) DEF RtOrderly
<1>8. \A i \in RtLinked : i \in RtIds /\ rtEnt'[i] = rtEnt[i] /\ rtEnt'[i].ttl > 0
  BY <1>1, <1>4, RtLinkedIds DEF RtPlaces, RtSound, RtLinked
<1>9. \A i \in Range(c) : rthash(rtEnt'[i].net) = h /\ rtEnt'[i].net # 0 /\ RtSound(rtEnt'[i])
  BY <1>1, <1>4, <1>7 DEF RtPlaces, RtMade
<1>10. /\ \A i \in Range(c) \ Range(rttable[h]) : i \notin RtLinked
       /\ rtDefault' \notin RtLinked \cup Range(c)
       /\ rtDefault' # RtNone => rtEnt'[rtDefault'].ttl > 0
  BY <1>1, <1>4, <1>5, <1>7 DEF RtPlaces
<1>11. \A i, j \in DOMAIN c : i < j => /\ rtEnt'[c[i]].mask >= rtEnt'[c[j]].mask
                                       /\ ~RtSame(rtEnt'[c[i]], rtEnt'[c[j]])
  BY <1>4, <1>7
<1>12. /\ RtPlaces' /\ RtSorted' /\ rttable' \in [0..(RtTSize - 1) -> Seq(RtIds)]
       /\ RtLinked' = (RtLinked \ Range(rttable[h])) \cup Range(c)
  BY <1>1, <1>4, <1>7, <1>8, <1>9, <1>10, <1>11, RtChainStep, ZenonT(40)
<1>13. RtLinked' = RtLinked \cup {n}
  BY <1>5, <1>7, <1>12
<1>14. \A j \in RtIds : RtLink(j) + RtOne(rtFresh[p] = j) = RtLink(j)' + RtOne(j \in {})
  BY <1>4, <1>13 DEF RtLink, RtOne
<1>15. RtAdds(p, rtEnt, {})
  <2>1. rtEnt' = RTFREE(rtEnt, {})
    BY <1>2, <1>4, RtFreeNone
  <2> QED BY <1>4, <1>14, <2>1 DEF RtAdds
<1>16. {} \in SUBSET RtIds /\ rtDefault' \in RtIds \cup {RtNone}
  BY <1>2, <1>4
<1> QED BY <1>2, <1>4, <1>12, <1>15, <1>16, RtAddStep

\* ... drops it, for the route s of the same gateway or with a metric as good,
LEMMA RtStepAddKnown ==
    ASSUME RtInv, NEW p \in RtProcs, NEW n \in RtIds, NEW s \in RtLinked,
           n = rtFresh[p], n \notin RtLinked, n # rtDefault,
           RtMade(rtEnt[n]), RtDoing(p, "add"), RtDone(p), rtFresh' = [rtFresh EXCEPT ![p] = RtNone],
           UNCHANGED <<rtMask, rtHeld, ripRq>>, RtAddSameGw(n, s) \/ RtAddWorse(n, s)
    PROVE  RtInv'
<1>1. RtTypes /\ RtPlans /\ RtPlaces /\ RtCounts /\ RtSorted
  BY DEF RtInv
<1>2. /\ rtEnt \in [RtIds -> RtRoutes] /\ rtDefault \in RtIds \cup {RtNone}
      /\ rttable \in [0..(RtTSize - 1) -> Seq(RtIds)] /\ s \in RtIds
  BY <1>1, RtLinkedIds DEF RtTypes
<1>3. \A i \in RtLinked : i \in RtIds /\ rtEnt[i].ttl > 0
  BY <1>1, RtLinkedIds DEF RtPlaces, RtSound, RtLinked
<1>4. PICK ent \in [RtIds -> RtRoutes] :
        /\ rtEnt' = RTFREE(ent, {n})
        /\ \A i \in RtIds : i # s => ent[i] = rtEnt[i]
        /\ ent[s].ref = rtEnt[s].ref /\ ent[s].net = rtEnt[s].net /\ ent[s].mask = rtEnt[s].mask
        /\ ent[s].ttl > 0
  <2>1. CASE RtAddWorse(n, s)
    BY <1>2, <1>3, <2>1 DEF RtAddWorse
  <2>2. CASE RtAddSameGw(n, s)
    <3> DEFINE zombie == rtEnt[s].metric # rtEnt[n].metric /\ rtEnt[n].metric = RtmInf
               ttl == IF ~dorip THEN rtEnt[s].ttl ELSE IF zombie THEN RipZTime ELSE rtEnt[n].ttl
    <3>1. PICK r \in RtRoutes, m \in Nat, t \in Nat : r = rtEnt[s] /\ m = rtEnt[n].metric /\ t = ttl /\ t > 0
      <4>1. rtEnt[s] \in RtRoutes /\ rtEnt[n] \in RtRoutes /\ rtEnt[s].ttl > 0 /\ rtEnt[n].ttl > 0
        BY <1>2, <1>3 DEF RtMade, RtSound
      <4>2. rtEnt[s].ttl \in Nat /\ rtEnt[n].ttl \in Nat /\ rtEnt[n].metric \in Nat
        BY <4>1 DEF RtRoutes
      <4>3. RipZTime \in Nat /\ RipZTime > 0
        BY RtRipAssumption
      <4> QED BY <4>1, <4>2, <4>3
    <3>2. PICK ent : ent = [rtEnt EXCEPT ![s] = [[r EXCEPT !.metric = m] EXCEPT !.ttl = t]]
      OBVIOUS
    <3>3. rtEnt' = RTFREE(ent, {n})
      <4>1. ent = [rtEnt EXCEPT ![s].metric = m, ![s].ttl = t]
        BY <1>2, <3>1, <3>2
      <4>2. rtEnt' = RTFREE([rtEnt EXCEPT ![s].metric = m, ![s].ttl = t], {n})
        BY <2>2, <3>1 DEF RtAddSameGw
      <4> QED BY <4>1, <4>2
    <3>4. ent[s] = [[r EXCEPT !.metric = m] EXCEPT !.ttl = t] /\ \A i \in RtIds : i # s => ent[i] = rtEnt[i]
      BY <1>2, <3>2
    <3>5. PICK y : y = [[r EXCEPT !.metric = m] EXCEPT !.ttl = t]
      OBVIOUS
    <3>6. y \in RtRoutes /\ y.ref = r.ref /\ y.net = r.net /\ y.mask = r.mask /\ y.ttl = t
      BY <3>1, <3>5 DEF RtRoutes
    <3>7. ent \in [RtIds -> RtRoutes]
      BY <1>2, <3>2, <3>5, <3>6
    <3>8. /\ \A i \in RtIds : i # s => ent[i] = rtEnt[i]
          /\ ent[s].ref = rtEnt[s].ref /\ ent[s].net = rtEnt[s].net /\ ent[s].mask = rtEnt[s].mask
          /\ ent[s].ttl > 0
      BY <3>1, <3>4, <3>5, <3>6
    <3> QED BY <3>3, <3>7, <3>8
  <2> QED BY <2>1, <2>2
<1>5. /\ rtFree' = rtFree \cup {i \in {n} : rtEnt[i].ref <= 1} /\ UNCHANGED <<rttable, rtDefault>>
      /\ (ripMsg => ripMsg') /\ (ripDue' => ripDue \/ ripMsg')
  BY DEF RtAddSameGw, RtAddWorse, RtFreed, RtRipTold, RipNotify
<1>6. rtEnt[n].ref > 0 /\ n # s
  BY DEF RtMade
<1>7. \A i \in RtIds : /\ rtEnt'[i].net = ent[i].net /\ rtEnt'[i].mask = ent[i].mask
                       /\ rtEnt'[i].ttl = ent[i].ttl
  <2>1. \A i \in {n} : ent[i].ref > 0
    BY <1>4, <1>6
  <2> QED BY <1>4, <2>1, RtFreeing
<1>8. \A i \in RtLinked : /\ rtEnt'[i].net = rtEnt[i].net /\ rtEnt'[i].mask = rtEnt[i].mask
                          /\ rtEnt'[i].ttl > 0
  <2> TAKE i \in RtLinked
  <2>1. i \in RtIds /\ rtEnt[i].ttl > 0
    BY <1>3
  <2>2. CASE i = s
    BY <1>2, <1>4, <1>7, <2>2
  <2>3. CASE i # s
    BY <1>4, <1>7, <2>1, <2>3
  <2> QED BY <2>2, <2>3
<1>9. rtDefault' \notin RtLinked /\ (rtDefault' # RtNone => rtEnt'[rtDefault'].ttl > 0)
  BY <1>1, <1>2, <1>4, <1>5, <1>7 DEF RtPlaces
<1>10. RtPlaces' /\ RtSorted' /\ RtLinked' = RtLinked
  BY <1>1, <1>5, <1>8, <1>9, RtSameChains
<1>11. \A j \in RtIds : RtLink(j) + RtOne(rtFresh[p] = j) = RtLink(j)' + RtOne(j \in {n})
  BY <1>5, <1>10 DEF RtLink, RtOne
<1>12. RtAdds(p, ent, {n})
  <2>1. \A i \in RtIds : ent[i].ref = rtEnt[i].ref
    BY <1>4
  <2>2. \A i \in RtIds : i \notin RtLinked /\ i # rtDefault => ent[i] = rtEnt[i]
    BY <1>4
  <2> QED BY <1>4, <1>5, <1>11, <2>1, <2>2 DEF RtAdds
<1>13. /\ {n} \in SUBSET RtIds /\ rtDefault' \in RtIds \cup {RtNone}
       /\ rttable' \in [0..(RtTSize - 1) -> Seq(RtIds)]
  BY <1>2, <1>5
<1> QED BY <1>4, <1>5, <1>10, <1>12, <1>13, RtAddStep

\* ... or puts it in the place of a worse one.
LEMMA RtStepAddBetter ==
    ASSUME RtInv, NEW p \in RtProcs, NEW n \in RtIds, NEW h \in DOMAIN rttable, NEW k \in DOMAIN rttable[h],
           n = rtFresh[p], n \notin RtLinked, n # rtDefault, RtSame(rtEnt[rttable[h][k]], rtEnt[n]),
           RtMade(rtEnt[n]), RtDoing(p, "add"), RtDone(p), rtFresh' = [rtFresh EXCEPT ![p] = RtNone],
           UNCHANGED <<rtMask, rtHeld, ripRq>>, RtAddBetter(n, rttable[h][k], h, k)
    PROVE  RtInv'
<1>1. RtTypes /\ RtPlans /\ RtPlaces /\ RtCounts /\ RtSorted
  BY DEF RtInv
<1>2. /\ rtEnt \in [RtIds -> RtRoutes] /\ rtDefault \in RtIds \cup {RtNone}
      /\ rttable \in [0..(RtTSize - 1) -> Seq(RtIds)]
  BY <1>1 DEF RtTypes
<1>3. PICK s \in RtIds : s = rttable[h][k] /\ s \in RtLinked /\ s \in Range(rttable[h])
  BY <1>1, RtChain
<1>4. PICK c : c = [rttable[h] EXCEPT ![k] = n]
  OBVIOUS
<1>5. /\ rttable' = [rttable EXCEPT ![h] = c] /\ rtEnt' = RTFREE(rtEnt, {s})
      /\ rtFree' = rtFree \cup {i \in {s} : rtEnt[i].ref <= 1} /\ rtDefault' = rtDefault
      /\ (ripMsg => ripMsg') /\ (ripDue' => ripDue \/ ripMsg')
  <2>1. rttable' = [rttable EXCEPT ![h][k] = n]
    BY DEF RtAddBetter
  <2>2. rttable' = [rttable EXCEPT ![h] = c]
    BY <1>2, <1>4, <2>1
  <2> QED BY <1>3, <2>2 DEF RtAddBetter, RtFreed, RtRipTold, RipNotify
<1>6. \A g \in DOMAIN rttable : \A i \in Range(rttable[g]) : i \in RtLinked
  BY DEF RtLinked
<1>7. n \notin Range(rttable[h])
  BY <1>6
<1>8. /\ c \in Seq(RtIds) /\ IsInjective(c) /\ Range(c) = (Range(rttable[h]) \ {s}) \cup {n}
      /\ \A i, j \in DOMAIN c : i < j => /\ rtEnt[c[i]].mask >= rtEnt[c[j]].mask
                                         /\ ~RtSame(rtEnt[c[i]], rtEnt[c[j]])
  <2>1. RtOrderly(c, (Range(rttable[h]) \ {rttable[h][k]}) \cup {n})
    BY <1>1, <1>4, <1>7, RtReplaced, ZenonT(40)
  <2> QED BY <1>3, <2>1, ZenonT(40) DEF RtOrderly
<1>9. rtEnt[s].ref > 0
  BY <1>1, <1>3, RtReached
<1>10. \A i \in RtIds : /\ rtEnt'[i].net = rtEnt[i].net /\ rtEnt'[i].mask = rtEnt[i].mask
                        /\ rtEnt'[i].ttl = rtEnt[i].ttl
  BY <1>2, <1>5, <1>9, RtFreeing
<1>11. \A i \in RtLinked : i \in RtIds /\ rtEnt[i].ttl > 0
  BY <1>1, RtLinkedIds DEF RtPlaces, RtSound, RtLinked
<1>12. \A i \in RtLinked : /\ rtEnt'[i].net = rtEnt[i].net /\ rtEnt'[i].mask = rtEnt[i].mask
                           /\ rtEnt'[i].ttl > 0
  BY <1>10, <1>11
<1>13. \A i \in Range(c) : rthash(rtEnt'[i].net) = h /\ rtEnt'[i].net # 0 /\ RtSound(rtEnt'[i])
  <2>1. \A i \in Range(rttable[h]) : rthash(rtEnt[i].net) = h /\ rtEnt[i].net # 0 /\ RtSound(rtEnt[i])
    BY <1>1 DEF RtPlaces
  <2>2. rthash(rtEnt[n].net) = h /\ rtEnt[n].net # 0 /\ RtSound(rtEnt[n])
    BY <1>3, <2>1 DEF RtSame, RtMade
  <2>3. ASSUME NEW i \in Range(c) PROVE /\ i \in RtIds /\ rthash(rtEnt[i].net) = h
                                        /\ rtEnt[i].net # 0 /\ RtSound(rtEnt[i])
    BY <1>6, <1>8, <1>11, <2>1, <2>2
  <2> QED BY <1>10, <2>3 DEF RtSound
<1>14. /\ \A i \in Range(c) \ Range(rttable[h]) : i \notin RtLinked
       /\ rtDefault' \notin RtLinked \cup Range(c)
       /\ rtDefault' # RtNone => rtEnt'[rtDefault'].ttl > 0
  BY <1>1, <1>2, <1>5, <1>6, <1>8, <1>10 DEF RtPlaces
<1>15. \A i, j \in DOMAIN c : i < j => /\ rtEnt'[c[i]].mask >= rtEnt'[c[j]].mask
                                       /\ ~RtSame(rtEnt'[c[i]], rtEnt'[c[j]])
  <2>1. \A i \in DOMAIN c : c[i] \in RtIds
    BY <1>8
  <2> QED BY <1>8, <1>10, <2>1 DEF RtSame
<1>16. /\ RtPlaces' /\ RtSorted' /\ rttable' \in [0..(RtTSize - 1) -> Seq(RtIds)]
       /\ RtLinked' = (RtLinked \ Range(rttable[h])) \cup Range(c)
  BY <1>1, <1>5, <1>8, <1>12, <1>13, <1>14, <1>15, RtChainStep
<1>17. RtLinked' = (RtLinked \ {s}) \cup {n}
  BY <1>3, <1>6, <1>8, <1>16
<1>18. \A j \in RtIds : RtLink(j) + RtOne(rtFresh[p] = j) = RtLink(j)' + RtOne(j \in {s})
  <2>1. s # rtDefault /\ s # n
    BY <1>1, <1>3 DEF RtPlaces
  <2> QED BY <1>3, <1>5, <1>17, <2>1 DEF RtLink, RtOne
<1>19. RtAdds(p, rtEnt, {s})
  BY <1>5, <1>18 DEF RtAdds
<1>20. {s} \in SUBSET RtIds /\ rtDefault' \in RtIds \cup {RtNone}
  BY <1>2, <1>5
<1> QED BY <1>2, <1>5, <1>16, <1>19, <1>20, RtAddStep

\* rtadd, all cases.
LEMMA RtStepAdd ==
    ASSUME RtInv, NEW p \in RtProcs, rtadd(p)
    PROVE  RtInv'
<1>1. RtTypes
  BY DEF RtInv
<1>2. PICK n \in RtIds, h \in DOMAIN rttable : \E k \in 1..(Len(rttable[h]) + 1) :
             /\ n = rtFresh[p] /\ h = rthash(rtEnt[n].net) /\ k = RtScan(rttable[h], n)
             /\ n \notin RtLinked /\ n # rtDefault /\ n \notin rtFree /\ RtMade(rtEnt[n])
             /\ RtDoing(p, "add") /\ RtDone(p) /\ rtFresh' = [rtFresh EXCEPT ![p] = RtNone]
             /\ UNCHANGED <<rtMask, rtHeld, ripRq>>
             /\ \/ rtEnt[n].net = 0 /\ RtAddDefault(n)
                \/ /\ rtEnt[n].net # 0
                   /\ ~(k <= Len(rttable[h]) /\ RtSame(rtEnt[rttable[h][k]], rtEnt[n]))
                   /\ RtAddNew(n, h, k)
                \/ /\ k <= Len(rttable[h]) /\ RtSame(rtEnt[rttable[h][k]], rtEnt[n])
                   /\ \/ RtAddSameGw(n, rttable[h][k]) \/ RtAddWorse(n, rttable[h][k])
                      \/ /\ ~(rtEnt[rttable[h][k]].metric <= rtEnt[n].metric)
                         /\ RtAddBetter(n, rttable[h][k], h, k)
  BY RtAddFrom
<1>3. PICK k \in 1..(Len(rttable[h]) + 1) :
             /\ n = rtFresh[p] /\ h = rthash(rtEnt[n].net) /\ k = RtScan(rttable[h], n)
             /\ n \notin RtLinked /\ n # rtDefault /\ n \notin rtFree /\ RtMade(rtEnt[n])
             /\ RtDoing(p, "add") /\ RtDone(p) /\ rtFresh' = [rtFresh EXCEPT ![p] = RtNone]
             /\ UNCHANGED <<rtMask, rtHeld, ripRq>>
             /\ \/ rtEnt[n].net = 0 /\ RtAddDefault(n)
                \/ /\ rtEnt[n].net # 0
                   /\ ~(k <= Len(rttable[h]) /\ RtSame(rtEnt[rttable[h][k]], rtEnt[n]))
                   /\ RtAddNew(n, h, k)
                \/ /\ k <= Len(rttable[h]) /\ RtSame(rtEnt[rttable[h][k]], rtEnt[n])
                   /\ \/ RtAddSameGw(n, rttable[h][k]) \/ RtAddWorse(n, rttable[h][k])
                      \/ /\ ~(rtEnt[rttable[h][k]].metric <= rtEnt[n].metric)
                         /\ RtAddBetter(n, rttable[h][k], h, k)
  BY <1>2, ZenonT(40)
<1>4. CASE RtAddDefault(n)
  BY <1>3, <1>4, RtStepAddDefault
<1>5. CASE /\ rtEnt[n].net # 0
           /\ ~(k <= Len(rttable[h]) /\ RtSame(rtEnt[rttable[h][k]], rtEnt[n]))
           /\ RtAddNew(n, h, k)
  BY <1>3, <1>5, RtStepAddNew, ZenonT(40)
<1>6. CASE /\ k <= Len(rttable[h]) /\ RtSame(rtEnt[rttable[h][k]], rtEnt[n])
           /\ \/ RtAddSameGw(n, rttable[h][k]) \/ RtAddWorse(n, rttable[h][k])
              \/ /\ ~(rtEnt[rttable[h][k]].metric <= rtEnt[n].metric)
                 /\ RtAddBetter(n, rttable[h][k], h, k)
  <2>1. k \in DOMAIN rttable[h] /\ rttable[h][k] \in RtLinked
    BY <1>1, <1>6, RtChain
  <2>2. CASE RtAddSameGw(n, rttable[h][k]) \/ RtAddWorse(n, rttable[h][k])
    BY <1>3, <2>1, <2>2, RtStepAddKnown
  <2>3. CASE RtAddBetter(n, rttable[h][k], h, k)
    BY <1>3, <1>6, <2>1, <2>3, RtStepAddBetter, ZenonT(40)
  <2> QED BY <1>6, <2>2, <2>3
<1> QED BY <1>3, <1>4, <1>5, <1>6, ZenonT(40)

\* The rank of each number of a finite set: how many there are up to it.
RtRank(K) == [k \in K |-> Cardinality({i \in K : i <= k})]
RtRankOk(K) ==
    /\ Cardinality(K) \in Nat /\ RtRank(K) \in [K -> 1..Cardinality(K)]
    /\ \A j, k \in K : j < k => RtRank(K)[j] < RtRank(K)[k]
    /\ \A j \in 1..Cardinality(K) : \E k \in K : RtRank(K)[k] = j
\* The members of a set of places rank from 1 without gaps.
LEMMA RtRanks ==
    ASSUME NEW n \in Nat, NEW K \in SUBSET (1..n)
    PROVE  RtRankOk(K)
<1> DEFINE r == RtRank(K)
<1>1. IsFiniteSet(K) /\ Cardinality(K) \in Nat
  <2>1. IsFiniteSet(1..n)
    BY FS_Interval
  <2>2. IsFiniteSet(K)
    BY <2>1, FS_Subset
  <2> QED BY <2>2, FS_CardinalityType
<1>2. ASSUME NEW k \in K PROVE /\ IsFiniteSet({i \in K : i <= k}) /\ r[k] = Cardinality({i \in K : i <= k})
                               /\ r[k] \in 1..Cardinality(K)
  <2>1. PICK T \in SUBSET K : T = {i \in K : i <= k} /\ k \in T
    <3>1. k <= k
      OBVIOUS
    <3> QED BY <3>1
  <2>2. IsFiniteSet(T) /\ Cardinality(T) <= Cardinality(K) /\ Cardinality(T) \in Nat
    BY <1>1, FS_Subset, FS_CardinalityType
  <2>3. Cardinality(T) # 0
    BY <2>1, <2>2, FS_EmptySet
  <2> QED BY <1>1, <2>1, <2>2, <2>3 DEF RtRank
<1>3. ASSUME NEW j \in K, NEW k \in K, j < k PROVE r[j] < r[k]
  <2>1. PICK T, S : T = {i \in K : i <= k} /\ S = {i \in K : i <= j}
    OBVIOUS
  <2>2. IsFiniteSet(T) /\ IsFiniteSet(S) /\ r[k] = Cardinality(T) /\ r[j] = Cardinality(S)
    BY <1>2, <2>1
  <2>3. k \in T /\ S \in SUBSET (T \ {k})
    <3>1. k \in T /\ k \in Nat /\ j \in Nat
      BY <2>1
    <3>2. \A i \in S : i \in T /\ i # k
      BY <1>3, <2>1, <3>1
    <3> QED BY <3>1, <3>2
  <2>4. IsFiniteSet(T \ {k}) /\ Cardinality(T \ {k}) = Cardinality(T) - 1
    BY <2>2, <2>3, FS_RemoveElement
  <2>5. Cardinality(S) <= Cardinality(T \ {k})
    BY <2>3, <2>4, FS_Subset
  <2>6. Cardinality(S) \in Nat /\ Cardinality(T) \in Nat
    BY <2>2, FS_CardinalityType
  <2> QED BY <2>2, <2>4, <2>5, <2>6
<1>4. r \in [K -> 1..Cardinality(K)]
  BY <1>2 DEF RtRank
<1>5. \A j, k \in K : r[j] = r[k] => j = k
  <2> TAKE j \in K, k \in K
  <2> HAVE r[j] = r[k]
  <2>1. j \in Nat /\ k \in Nat /\ r[j] \in Nat /\ (j < k => r[j] < r[k]) /\ (k < j => r[k] < r[j])
    BY <1>1, <1>3, <1>4
  <2> QED BY <2>1
<1>6. r \in Injection(K, 1..Cardinality(K))
  BY <1>4, <1>5 DEF Injection, IsInjective
<1>7. IsFiniteSet(1..Cardinality(K)) /\ Cardinality(1..Cardinality(K)) = Cardinality(K)
  BY <1>1, FS_Interval
<1>8. r \in Surjection(K, 1..Cardinality(K))
  BY <1>6, <1>7, FS_Injection
<1> QED BY <1>1, <1>3, <1>4, <1>8 DEF Surjection, RtRankOk

\* The entries of a chain that rttimer keeps, and their order.
LEMMA RtKept ==
    ASSUME NEW c \in Seq(RtIds), NEW gone, NEW d, d = RtKeep(c, gone)
    PROVE  /\ d \in Seq(RtIds) /\ Range(d) = Range(c) \ gone
           /\ \E f \in [DOMAIN d -> DOMAIN c] :
                /\ \A j, k \in DOMAIN d : j < k => f[j] < f[k]
                /\ \A j \in DOMAIN d : d[j] = c[f[j]]
<1> DEFINE kept == {k \in DOMAIN c : c[k] \notin gone}
           nth(j) == CHOOSE k \in kept : Cardinality({i \in kept : i <= k}) = j
<1>1. kept \in SUBSET (1..Len(c)) /\ Len(c) \in Nat /\ DOMAIN c = 1..Len(c)
  OBVIOUS
<1>2. PICK r : r = [k \in kept |-> Cardinality({i \in kept : i <= k})]
  OBVIOUS
<1>3. /\ Cardinality(kept) \in Nat /\ r \in [kept -> 1..Cardinality(kept)]
      /\ \A j, k \in kept : j < k => r[j] < r[k]
      /\ \A j \in 1..Cardinality(kept) : \E k \in kept : r[k] = j
  <2>1. PICK n \in Nat : n = Len(c)
    BY <1>1, ZenonT(40)
  <2>4. PICK K \in SUBSET (1..n) : K = kept
    BY <1>1, <2>1
  <2>2. r = RtRank(K)
    BY <1>2, <2>4 DEF RtRank
  <2>3. /\ Cardinality(K) \in Nat /\ r \in [K -> 1..Cardinality(K)]
        /\ \A j, k \in K : j < k => r[j] < r[k]
        /\ \A j \in 1..Cardinality(K) : \E k \in K : r[k] = j
    <3>1. RtRankOk(K)
      BY <2>4, RtRanks
    <3> QED BY <2>2, <3>1 DEF RtRankOk
  <2> QED BY <2>4, <2>3
<1>4. d = [j \in 1..Cardinality(kept) |-> c[nth(j)]]
  BY DEF RtKeep
<1>5. ASSUME NEW j \in 1..Cardinality(kept) PROVE nth(j) \in kept /\ r[nth(j)] = j
  <2>1. \E k \in kept : Cardinality({i \in kept : i <= k}) = j
    BY <1>2, <1>3
  <2>2. nth(j) \in kept /\ Cardinality({i \in kept : i <= nth(j)}) = j
    BY <2>1
  <2> QED BY <1>2, <2>2
<1>6. PICK f : f = [j \in 1..Cardinality(kept) |-> nth(j)]
  OBVIOUS
<1> HIDE DEF nth
<1>7. f \in [1..Cardinality(kept) -> kept] /\ \A j \in 1..Cardinality(kept) : f[j] = nth(j) /\ r[f[j]] = j
  BY <1>5, <1>6
<1>8. DOMAIN d = 1..Cardinality(kept) /\ \A j \in DOMAIN d : d[j] = c[f[j]]
  BY <1>4, <1>7
<1>9. ASSUME NEW j \in DOMAIN d, NEW k \in DOMAIN d, j < k PROVE f[j] < f[k]
  <2>1. f[j] \in kept /\ f[k] \in kept /\ r[f[j]] = j /\ r[f[k]] = k
    BY <1>7, <1>8
  <2>2. f[j] \in Nat /\ f[k] \in Nat /\ j \in Nat /\ k \in Nat
    BY <1>1, <1>3, <1>8, <2>1
  <2>3. (f[k] < f[j] => k < j) /\ (f[k] = f[j] => k = j)
    BY <1>3, <2>1
  <2> QED BY <1>9, <2>2, <2>3
<1>10. ASSUME NEW k \in kept PROVE \E j \in DOMAIN d : f[j] = k
  <2>1. r[k] \in 1..Cardinality(kept) /\ f[r[k]] \in kept /\ r[f[r[k]]] = r[k]
    BY <1>3, <1>7
  <2>2. f[r[k]] = k
    <3>1. k \in Nat /\ f[r[k]] \in Nat /\ r[k] \in Nat
      BY <1>1, <1>3, <2>1
    <3> QED BY <1>3, <2>1, <3>1
  <2> QED BY <1>8, <2>1, <2>2
<1>11. \A k \in kept : k \in DOMAIN c /\ c[k] \notin gone /\ c[k] \in RtIds
  BY <1>1
<1>12. \A j \in DOMAIN d : f[j] \in DOMAIN c /\ d[j] = c[f[j]] /\ d[j] \notin gone /\ d[j] \in RtIds
  BY <1>7, <1>8, <1>11
<1>13. Range(d) = Range(c) \ gone
  <2>1. ASSUME NEW x \in Range(d) PROVE x \in Range(c) /\ x \notin gone
    BY <1>12 DEF Range
  <2>2. ASSUME NEW x \in Range(c), x \notin gone PROVE x \in Range(d)
    <3>1. PICK k \in DOMAIN c : c[k] = x
      BY DEF Range
    <3>2. k \in kept
      BY <2>2, <3>1
    <3>3. PICK j \in DOMAIN d : f[j] = k
      BY <1>10, <3>2
    <3> QED BY <1>12, <3>1, <3>3 DEF Range
  <2> QED BY <2>1, <2>2
<1>14. d \in Seq(RtIds)
  <2>1. d \in [1..Cardinality(kept) -> RtIds]
    BY <1>4, <1>8, <1>12
  <2> QED BY <1>3, <2>1
<1>15. f \in [DOMAIN d -> DOMAIN c]
  BY <1>7, <1>8, <1>11
<1> QED BY <1>9, <1>12, <1>13, <1>14, <1>15

\* The chains without the routes of gone.
LEMMA RtChainsKeep ==
    ASSUME RtTypes, RtPlaces, RtSorted, NEW gone,
           rttable' = [h \in DOMAIN rttable |-> RtKeep(rttable[h], gone)],
           rtDefault' \notin RtLinked, rtDefault' # RtNone => rtEnt'[rtDefault'].ttl > 0,
           \A i \in RtLinked : /\ rtEnt'[i].net = rtEnt[i].net /\ rtEnt'[i].mask = rtEnt[i].mask
                               /\ i \notin gone => rtEnt'[i].ttl > 0
    PROVE  /\ RtPlaces' /\ RtSorted' /\ rttable' \in [0..(RtTSize - 1) -> Seq(RtIds)]
           /\ RtLinked' = RtLinked \ gone
<1>1. /\ rttable \in [0..(RtTSize - 1) -> Seq(RtIds)] /\ DOMAIN rttable' = DOMAIN rttable
      /\ DOMAIN rttable = 0..(RtTSize - 1)
      /\ \A h \in DOMAIN rttable : rttable'[h] = RtKeep(rttable[h], gone) /\ rttable[h] \in Seq(RtIds)
  BY DEF RtTypes
<1>2. ASSUME NEW h \in DOMAIN rttable
      PROVE  /\ rttable'[h] \in Seq(RtIds) /\ Range(rttable'[h]) = Range(rttable[h]) \ gone
             /\ \E f \in [DOMAIN rttable'[h] -> DOMAIN rttable[h]] :
                  /\ \A j, k \in DOMAIN rttable'[h] : j < k => f[j] < f[k]
                  /\ \A j \in DOMAIN rttable'[h] : rttable'[h][j] = rttable[h][f[j]]
  <2>1. PICK c \in Seq(RtIds) : c = rttable[h] /\ rttable'[h] = RtKeep(c, gone)
    BY <1>1
  <2>3. PICK d : d = rttable'[h]
    OBVIOUS
  <2>2. /\ d \in Seq(RtIds) /\ Range(d) = Range(c) \ gone
        /\ \E f \in [DOMAIN d -> DOMAIN c] :
             /\ \A j, k \in DOMAIN d : j < k => f[j] < f[k]
             /\ \A j \in DOMAIN d : d[j] = c[f[j]]
    BY <2>1, <2>3, RtKept
  <2> QED BY <2>1, <2>2, <2>3
<1>3. rttable' \in [0..(RtTSize - 1) -> Seq(RtIds)]
  BY <1>1, <1>2
<1>4. \A g \in DOMAIN rttable : \A i \in Range(rttable[g]) : i \in RtLinked
  BY DEF RtLinked
<1>5. RtLinked' = RtLinked \ gone
  <2>1. RtLinked' = UNION {Range(rttable'[g]) : g \in DOMAIN rttable}
    BY <1>1 DEF RtLinked
  <2>2. ASSUME NEW i \in RtLinked' PROVE i \in RtLinked \ gone
    <3>1. PICK g \in DOMAIN rttable : i \in Range(rttable'[g])
      BY <2>1
    <3> QED BY <1>2, <1>4, <3>1
  <2>3. ASSUME NEW i \in RtLinked, i \notin gone PROVE i \in RtLinked'
    <3>1. PICK g \in DOMAIN rttable : i \in Range(rttable[g])
      BY DEF RtLinked
    <3>2. i \in Range(rttable'[g])
      BY <1>2, <2>3, <3>1
    <3> QED BY <2>1, <3>2
  <2> QED BY <2>2, <2>3
<1>6. ASSUME NEW h \in DOMAIN rttable PROVE IsInjective(rttable'[h])
  <2> SUFFICES ASSUME NEW j \in DOMAIN rttable'[h], NEW k \in DOMAIN rttable'[h],
                      rttable'[h][j] = rttable'[h][k]
               PROVE  j = k
    BY DEF IsInjective
  <2>1. PICK f \in [DOMAIN rttable'[h] -> DOMAIN rttable[h]] :
          /\ \A a, b \in DOMAIN rttable'[h] : a < b => f[a] < f[b]
          /\ \A a \in DOMAIN rttable'[h] : rttable'[h][a] = rttable[h][f[a]]
    BY <1>2
  <2>2. IsInjective(rttable[h]) /\ f[j] \in DOMAIN rttable[h] /\ f[k] \in DOMAIN rttable[h]
    BY <2>1 DEF RtPlaces
  <2>3. f[j] = f[k]
    BY <2>1, <2>2 DEF IsInjective
  <2>4. j \in Nat /\ k \in Nat /\ f[j] \in Nat
    BY <1>1, <1>2, <2>2
  <2>5. ~(f[j] < f[k]) /\ ~(f[k] < f[j])
    BY <2>3, <2>4
  <2>6. ~(j < k) /\ ~(k < j)
    BY <2>1, <2>5
  <2> QED BY <2>4, <2>6
<1>7. \A h \in DOMAIN rttable : \A i \in Range(rttable'[h]) :
        rthash(rtEnt'[i].net) = h /\ rtEnt'[i].net # 0 /\ RtSound(rtEnt'[i])
  <2> TAKE h \in DOMAIN rttable
  <2> TAKE i \in Range(rttable'[h])
  <2>1. i \in Range(rttable[h]) /\ i \notin gone /\ i \in RtLinked
    BY <1>2, <1>4
  <2>2. rthash(rtEnt[i].net) = h /\ rtEnt[i].net # 0 /\ RtSound(rtEnt[i])
    BY <2>1 DEF RtPlaces
  <2> QED BY <2>1, <2>2 DEF RtSound
<1>8. RtPlaces'
  <2>1. \A f, g \in DOMAIN rttable : f # g => Range(rttable'[f]) \cap Range(rttable'[g]) = {}
    <3> TAKE f \in DOMAIN rttable, g \in DOMAIN rttable
    <3> HAVE f # g
    <3>1. Range(rttable[f]) \cap Range(rttable[g]) = {}
      BY DEF RtPlaces
    <3> QED BY <1>2, <3>1
  <2>2. rtDefault' \notin RtLinked'
    BY <1>5
  <2> QED BY <1>1, <1>6, <1>7, <2>1, <2>2 DEF RtPlaces, RtSound, rthash, RtPart
<1>9. RtSorted'
  <2> SUFFICES ASSUME NEW h \in DOMAIN rttable, NEW j \in DOMAIN rttable'[h], NEW k \in DOMAIN rttable'[h], j < k
               PROVE  /\ rtEnt'[rttable'[h][j]].mask >= rtEnt'[rttable'[h][k]].mask
                      /\ ~RtSame(rtEnt'[rttable'[h][j]], rtEnt'[rttable'[h][k]])
    BY <1>1 DEF RtSorted, RtSame
  <2>1. PICK f \in [DOMAIN rttable'[h] -> DOMAIN rttable[h]] :
          /\ \A a, b \in DOMAIN rttable'[h] : a < b => f[a] < f[b]
          /\ \A a \in DOMAIN rttable'[h] : rttable'[h][a] = rttable[h][f[a]]
    BY <1>2
  <2>2. f[j] < f[k] /\ f[j] \in DOMAIN rttable[h] /\ f[k] \in DOMAIN rttable[h]
    BY <2>1
  <2>3. /\ rtEnt[rttable[h][f[j]]].mask >= rtEnt[rttable[h][f[k]]].mask
        /\ ~RtSame(rtEnt[rttable[h][f[j]]], rtEnt[rttable[h][f[k]]])
    BY <2>2 DEF RtSorted
  <2>4. rttable[h][f[j]] \in RtLinked /\ rttable[h][f[k]] \in RtLinked
    BY <2>2, RtChain
  <2> QED BY <2>1, <2>3, <2>4 DEF RtSame
<1> QED BY <1>3, <1>5, <1>8, <1>9

\* A second of a route's life.
LEMMA RtAging ==
    ASSUME NEW e \in RtRoutes, e.ttl > 0
    PROVE  /\ RtAged(e) \in RtRoutes /\ RtAged(e).net = e.net /\ RtAged(e).mask = e.mask
           /\ RtAged(e).gw = e.gw /\ RtAged(e).ifn = e.ifn /\ RtAged(e).ref = e.ref
           /\ ~(RtOld(e) /\ (~RtZombie(e) \/ RipZTime <= 1)) => RtAged(e).ttl > 0
<1>1. RipZTime \in Nat /\ RipZTime > 0 /\ RtInf \in Nat /\ RtInf > 0 /\ RtmInf \in Nat /\ e.ttl \in Nat
  BY RtRipAssumption DEF RtRoutes
<1>2. CASE RtZombie(e)
  <2>1. RtAged(e) = [[e EXCEPT !.metric = RtmInf] EXCEPT !.ttl = RipZTime - 1] /\ RtOld(e)
    BY <1>2 DEF RtAged, RtZombie
  <2> HIDE DEF RtZombie, RtOld, RtAged
  <2>2. RipZTime - 1 \in Nat
    BY <1>1
  <2>3. /\ RtAged(e) \in RtRoutes /\ RtAged(e).net = e.net /\ RtAged(e).mask = e.mask
        /\ RtAged(e).gw = e.gw /\ RtAged(e).ifn = e.ifn /\ RtAged(e).ref = e.ref
        /\ RtAged(e).ttl = RipZTime - 1
    BY <1>1, <2>1, <2>2 DEF RtRoutes
  <2>4. ~(RipZTime <= 1) => RipZTime - 1 > 0
    BY <1>1
  <2> QED BY <2>1, <2>3, <2>4
<1>3. CASE ~RtZombie(e) /\ e.ttl = RtInf
  BY <1>1, <1>3 DEF RtAged
<1>4. CASE ~RtZombie(e) /\ e.ttl # RtInf
  <2>1. RtAged(e) = [e EXCEPT !.ttl = e.ttl - 1]
    BY <1>4 DEF RtAged
  <2>2. RtAged(e) \in RtRoutes /\ RtAged(e).ttl = e.ttl - 1
    BY <1>1, <2>1 DEF RtRoutes
  <2>3. ~RtOld(e) => e.ttl - 1 > 0
    BY <1>1, <1>4 DEF RtOld
  <2>4. /\ RtAged(e).net = e.net /\ RtAged(e).mask = e.mask
        /\ RtAged(e).gw = e.gw /\ RtAged(e).ifn = e.ifn /\ RtAged(e).ref = e.ref
    BY <2>1 DEF RtRoutes
  <2> QED BY <1>4, <2>2, <2>3, <2>4
<1> QED BY <1>2, <1>3, <1>4

\* The default turns unreachable but stays.
LEMMA RtLinger ==
    ASSUME NEW e \in RtRoutes, NEW z, z = [e EXCEPT !.metric = RtmInf, !.ttl = RipZTime]
    PROVE  /\ z \in RtRoutes /\ z.net = e.net /\ z.mask = e.mask /\ z.gw = e.gw /\ z.ifn = e.ifn
           /\ z.ref = e.ref /\ z.ttl > 0
<1>1. RipZTime \in Nat /\ RipZTime > 0 /\ RtmInf \in Nat
  BY RtRipAssumption
<1> QED BY <1>1 DEF RtRoutes

\* The slow timer's pass over the table.
LEMMA RtStepTimer ==
    ASSUME RtInv, rttimer
    PROVE  RtInv'
<1>1. RtTypes /\ RtPlans /\ RtRoles /\ RtPlaces /\ RtCounts /\ RtSorted /\ RipAnnounced
  BY DEF RtInv
<1>2. /\ rtEnt \in [RtIds -> RtRoutes] /\ rtDefault \in RtIds \cup {RtNone} /\ rtWork \in [RtProcs -> Seq(RtOps)]
      /\ rtHeld \in [RtProcs -> RtIds \cup {RtNone}] /\ rtFresh \in [RtProcs -> RtIds \cup {RtNone}]
      /\ RtLinked \subseteq RtIds /\ "slow" \in RtProcs
  BY <1>1, RtLinkedIds DEF RtTypes, RtProcs
<1>3. \A i \in RtLinked : i \in RtIds /\ rtEnt[i].ttl > 0 /\ rtEnt[i] \in RtRoutes /\ i # rtDefault
  BY <1>1, <1>2 DEF RtPlaces, RtSound, RtLinked
<1>4. rtDefault # RtNone => rtDefault \in RtIds /\ rtEnt[rtDefault].ttl > 0 /\ rtEnt[rtDefault] \in RtRoutes
  BY <1>1, <1>2 DEF RtPlaces
<1>5. PICK gone, d, dgone : /\ gone = {i \in RtLinked : RtGone(i)} /\ d = {rtDefault} \ {RtNone}
                            /\ dgone = {i \in d : RtOld(rtEnt[i]) /\ ~RtZombie(rtEnt[i])}
  OBVIOUS
<1>6. PICK aged : aged = [i \in RtIds |->
               IF i \in RtLinked THEN RtAged(rtEnt[i])
               ELSE IF i \in d
               THEN IF RtZombie(rtEnt[i])
                    THEN [rtEnt[i] EXCEPT !.metric = RtmInf, !.ttl = RipZTime]
                    ELSE RtAged(rtEnt[i])
               ELSE rtEnt[i]]
  OBVIOUS
<1>7. /\ rtWork["slow"] = <<>>
      /\ rttable' = [h \in DOMAIN rttable |-> RtKeep(rttable[h], gone)]
      /\ rtEnt' = RTFREE(aged, gone \cup dgone)
      /\ rtFree' = rtFree \cup {i \in gone \cup dgone : rtEnt[i].ref <= 1}
      /\ rtDefault' = (IF dgone # {} THEN RtNone ELSE rtDefault)
      /\ \/ rtWork' = [rtWork EXCEPT !["slow"] = <<OpDo("notify")>>] /\ ripDue' = TRUE
         \/ rtWork' = rtWork /\ ripDue' = ripDue
      /\ rtHeld' = rtHeld /\ rtFresh' = rtFresh /\ rtMask' = rtMask /\ ripMsg' = ripMsg /\ ripRq' = ripRq
  BY <1>5, <1>6 DEF rttimer, RtFreed
<1>8. ASSUME NEW i \in RtLinked
      PROVE  /\ aged[i] \in RtRoutes /\ aged[i].net = rtEnt[i].net /\ aged[i].mask = rtEnt[i].mask
             /\ aged[i].ref = rtEnt[i].ref /\ (i \notin gone => aged[i].ttl > 0)
  <2>1. aged[i] = RtAged(rtEnt[i])
    BY <1>3, <1>6
  <2>2. i \notin gone => ~(RtOld(rtEnt[i]) /\ (~RtZombie(rtEnt[i]) \/ RipZTime <= 1))
    BY <1>5 DEF RtGone
  <2> QED BY <1>3, <2>1, <2>2, RtAging
<1>9. ASSUME NEW i \in d
      PROVE  /\ aged[i] \in RtRoutes /\ aged[i].ref = rtEnt[i].ref /\ (i \notin dgone => aged[i].ttl > 0)
             /\ i = rtDefault /\ i # RtNone /\ i \in RtIds
  <2>1. i = rtDefault /\ i # RtNone /\ i \in RtIds /\ i \notin RtLinked
    BY <1>1, <1>4, <1>5 DEF RtPlaces
  <2>2. CASE RtZombie(rtEnt[i])
    <3>1. aged[i] = [rtEnt[i] EXCEPT !.metric = RtmInf, !.ttl = RipZTime]
      BY <1>6, <2>1, <2>2
    <3> QED BY <1>4, <2>1, <3>1, RtLinger
  <2>3. CASE ~RtZombie(rtEnt[i])
    <3>1. aged[i] = RtAged(rtEnt[i])
      BY <1>6, <2>1, <2>3
    <3>2. i \notin dgone => ~RtOld(rtEnt[i])
      BY <1>5, <2>3
    <3> QED BY <1>4, <2>1, <3>1, <3>2, RtAging
  <2> QED BY <2>2, <2>3
<1>10. ASSUME NEW i \in RtIds, i \notin RtLinked, i # rtDefault PROVE aged[i] = rtEnt[i]
  BY <1>5, <1>6, <1>10
<1>11. aged \in [RtIds -> RtRoutes] /\ \A i \in RtIds : aged[i].ref = rtEnt[i].ref
  <2>1. \A i \in RtIds : aged[i] \in RtRoutes /\ aged[i].ref = rtEnt[i].ref
    <3> TAKE i \in RtIds
    <3>1. CASE i \in RtLinked
      BY <1>8, <3>1
    <3>2. CASE i = rtDefault
      <4>1. i \in d
        BY <1>5, <3>2 DEF RtIds, RtNone
      <4> QED BY <1>9, <4>1
    <3>3. CASE i \notin RtLinked /\ i # rtDefault
      BY <1>2, <1>10, <3>3
    <3> QED BY <3>1, <3>2, <3>3
  <2> QED BY <1>6, <2>1
<1>12. PICK S \in SUBSET RtIds : S = gone \cup dgone
  BY <1>2, <1>4, <1>5
<1>13. \A i \in S : rtEnt[i].ref > 0 /\ (i \in RtLinked \/ i = rtDefault)
  <2> TAKE i \in S
  <2>1. i \in RtLinked \/ i = rtDefault
    BY <1>5, <1>12
  <2> QED BY <1>1, <2>1, RtReached
<1>14. \A i \in RtIds : /\ rtEnt'[i].net = aged[i].net /\ rtEnt'[i].mask = aged[i].mask
                        /\ rtEnt'[i].ttl = aged[i].ttl
  <2>1. rtEnt' = RTFREE(aged, S) /\ \A i \in S : aged[i].ref > 0
    BY <1>7, <1>11, <1>12, <1>13
  <2> QED BY <1>11, <2>1, RtFreeing
<1>15. rtDefault' \notin RtLinked /\ (rtDefault' # RtNone => rtEnt'[rtDefault'].ttl > 0)
  <2>1. RtNone \notin RtLinked
    BY <1>2 DEF RtIds, RtNone
  <2>2. CASE dgone # {}
    BY <1>7, <2>1, <2>2
  <2>3. CASE dgone = {}
    <3>1. rtDefault' = rtDefault
      BY <1>7, <2>3
    <3>2. rtDefault # RtNone => rtDefault \in d
      BY <1>5
    <3> QED BY <1>3, <1>9, <1>14, <2>3, <3>1, <3>2
  <2> QED BY <2>2, <2>3
<1>16. \A i \in RtLinked : /\ rtEnt'[i].net = rtEnt[i].net /\ rtEnt'[i].mask = rtEnt[i].mask
                           /\ i \notin gone => rtEnt'[i].ttl > 0
  BY <1>3, <1>8, <1>14
<1>17. /\ RtPlaces' /\ RtSorted' /\ rttable' \in [0..(RtTSize - 1) -> Seq(RtIds)]
       /\ RtLinked' = RtLinked \ gone
  BY <1>1, <1>7, <1>15, <1>16, RtChainsKeep
<1>18. RtReleases("slow", aged, S)
  <2>1. \A j \in RtIds : RtLink(j) = RtLink(j)' + RtOne(j \in S)
    <3> TAKE j \in RtIds
    <3>1. j # RtNone
      BY DEF RtIds, RtNone
    <3>2. CASE j \in RtLinked
      <4>1. j # rtDefault /\ j # rtDefault' /\ (j \in S <=> j \in gone)
        BY <1>3, <1>5, <1>12, <1>15, <3>2
      <4> QED BY <1>17, <3>2, <4>1 DEF RtLink, RtOne
    <3>3. CASE j = rtDefault
      <4>1. j \notin RtLinked /\ j \notin RtLinked' /\ (j \in S <=> j \in dgone) /\ j \in d
        BY <1>3, <1>5, <1>12, <1>17, <3>1, <3>3
      <4>2. dgone # {} <=> j \in dgone
        BY <1>5, <3>3
      <4>3. j = rtDefault' <=> j \notin dgone
        BY <1>7, <3>1, <3>3, <4>2
      <4> QED BY <3>3, <4>1, <4>3 DEF RtLink, RtOne
    <3>4. CASE j \notin RtLinked /\ j # rtDefault
      <4>1. j \notin S /\ j \notin RtLinked' /\ j # rtDefault'
        BY <1>7, <1>13, <1>17, <3>1, <3>4
      <4> QED BY <3>4, <4>1 DEF RtLink, RtOne
    <3> QED BY <3>2, <3>3, <3>4
  <2>2. \A j \in RtIds : RtHas("slow", j) = RtHas("slow", j)' + RtOne(j \in S)
    <3> TAKE j \in RtIds
    <3>1. PICK b \in {0, 1} : b = RtOne(j \in S)
      BY DEF RtOne
    <3> QED BY <1>7, <2>1, <3>1, RtHasLinks
  <2>3. rtEnt' = RTFREE(aged, S) /\ rtFree' = rtFree \cup {i \in S : rtEnt[i].ref <= 1}
    BY <1>7, <1>12
  <2> QED BY <1>10, <1>11, <2>2, <2>3 DEF RtReleases
<1>19. rtFresh["slow"] = RtNone /\ RtPlan(<<>>, rtHeld["slow"])
  BY <1>1, <1>2, <1>7 DEF RtPlans
<1>20. rtHeld["slow"] = RtNone
  BY <1>19 DEF RtPlan, RtUses
<1>21. PICK w \in Seq(RtOps) : /\ w = <<>> \/ w = <<OpDo("notify")>>
                               /\ rtWork' = [rtWork EXCEPT !["slow"] = w]
                               /\ ripDue' => ripDue \/ w # <<>>
  <2>1. <<OpDo("notify")>> \in Seq(RtOps) /\ <<>> \in Seq(RtOps) /\ <<OpDo("notify")>> # <<>>
    BY RtOpsHas
  <2>2. CASE rtWork' = [rtWork EXCEPT !["slow"] = <<OpDo("notify")>>] /\ ripDue' = TRUE
    BY <2>1, <2>2
  <2>3. CASE rtWork' = rtWork /\ ripDue' = ripDue
    <3>1. rtWork' = [rtWork EXCEPT !["slow"] = <<>>]
      BY <1>2, <1>7, <2>3
    <3> QED BY <2>1, <2>3, <3>1
  <2> QED BY <1>7, <2>2, <2>3
<1>22. RtPlan(w, RtNone) /\ \A k \in DOMAIN w : w[k].op = "notify"
  <2>1. CASE w = <<>>
    BY <1>19, <1>20, <2>1
  <2>2. CASE w = <<OpDo("notify")>>
    BY <2>2, RtOpsHas DEF RtPlan, RtUses, RtUsing
  <2> QED BY <1>21, <2>1, <2>2
<1>23. RipAnnounced'
  <2>1. rtWork'["ripout"] = rtWork["ripout"] /\ rtWork'["slow"] = w
    BY <1>2, <1>21 DEF RtProcs
  <2> QED BY <1>1, <1>7, <1>21, <2>1 DEF RipAnnounced
<1>24. rtHeld' = [rtHeld EXCEPT !["slow"] = RtNone] /\ rtFresh' = [rtFresh EXCEPT !["slow"] = RtNone]
  BY <1>2, <1>7, <1>19, <1>20
<1>25. rtDefault' \in RtIds \cup {RtNone} /\ RtNone \in RtIds \cup {RtNone} /\ rtMask' = rtMask /\ ripRq' = ripRq
  BY <1>2, <1>7
<1>26. "slow" \in RtProcs /\ "slow" # "ripout"
  BY DEF RtProcs
<1> QED BY <1>11, <1>17, <1>18, <1>21, <1>22, <1>23, <1>24, <1>25, <1>26, RtReleaseStep

\* The chains the table may start with.
LEMMA RtFirst ==
    /\ DOMAIN <<>> = {} /\ DOMAIN <<2>> = {1} /\ DOMAIN <<3, 1>> = {1, 2} /\ DOMAIN <<2, 3, 1>> = {1, 2, 3}
    /\ Range(<<>>) = {} /\ Range(<<2>>) = {2} /\ Range(<<3, 1>>) = {3, 1} /\ Range(<<2, 3, 1>>) = {2, 3, 1}
    /\ IsInjective(<<>>) /\ IsInjective(<<2>>) /\ IsInjective(<<3, 1>>) /\ IsInjective(<<2, 3, 1>>)
BY DEF Range, IsInjective

\* At the start the table has the three routes of the interface.
LEMMA RtStarts == RtInit => RtInv
<1> SUFFICES ASSUME RtInit PROVE RtInv
  OBVIOUS
<1>1. /\ rtMask \in RtMasks /\ rtDefault = RtNone /\ rtFree = RtIds \ 1..3
      /\ rtWork = [p \in RtProcs |-> <<>>] /\ rtHeld = [p \in RtProcs |-> RtNone]
      /\ rtFresh = [p \in RtProcs |-> RtNone] /\ ripRq = [f \in {RtLocal, RtPrimary} |-> 0]
      /\ ripDue = FALSE
  BY DEF RtInit
<1>2. RtBpSize \in Nat /\ RtBpSize >= 3 /\ RtW \in Nat /\ RtMyIp \in Nat /\ RtTSize \in Nat \ {0} /\ MaxNRip \in Nat
  BY RtRipAssumption
<1>3. 1 \in RtIds /\ 2 \in RtIds /\ 3 \in RtIds /\ RtNone \notin RtIds
  BY <1>2 DEF RtIds, RtNone
<1>4. PICK m \in RtMasks : m = rtMask
  BY <1>1
<1>5. m \in 0..(RtW - 1)
  BY RtRipAssumption
<1>6. setmaskAdds = RtAddsOf(m)
  BY <1>4 DEF setmaskAdds, RtAddsOf, RtSubnet, RtBrc, RtSubnetOf, RtBrcOf
<1>7. /\ rtEnt = [i \in RtIds |-> IF i <= 3 THEN RtAddsOf(m)[i].arg
                                  ELSE [RtRec(0, 0, 0, 0, 0, 0) EXCEPT !.ref = 0]]
      /\ rttable = [h \in 0..(RtTSize - 1) |->
                      (IF h = rthash(RtBrcOf(m)) THEN <<2>> ELSE <<>>)
                      \o (IF h = rthash(RtSubnetOf(m)) THEN <<3, 1>> ELSE <<>>)]
  BY <1>4, <1>6 DEF RtInit, RtSubnet, RtBrc, RtSubnetOf, RtBrcOf
<1>8. /\ \A k \in 1..3 : /\ RtAddsOf(m)[k].arg \in RtRoutes /\ RtAddsOf(m)[k].arg.ref = 1
                         /\ RtSound(RtAddsOf(m)[k].arg)
      /\ RtAddsOf(m)[1].arg.net = RtSubnetOf(m) /\ RtAddsOf(m)[1].arg.mask = m
      /\ RtAddsOf(m)[2].arg.net = RtBrcOf(m) /\ RtAddsOf(m)[2].arg.mask = RtW
      /\ RtAddsOf(m)[3].arg.net = RtSubnetOf(m) /\ RtAddsOf(m)[3].arg.mask = RtW
  BY RtAddsSound
<1>9. \A k \in 1..3 : rtEnt[k] = RtAddsOf(m)[k].arg
  BY <1>3, <1>7
<1>10. /\ \A k \in 1..3 : rtEnt[k] \in RtRoutes /\ rtEnt[k].ref = 1 /\ RtSound(rtEnt[k])
       /\ rtEnt[1].net = RtSubnetOf(m) /\ rtEnt[1].mask = m
       /\ rtEnt[2].net = RtBrcOf(m) /\ rtEnt[2].mask = RtW
       /\ rtEnt[3].net = RtSubnetOf(m) /\ rtEnt[3].mask = RtW
  BY <1>8, <1>9
<1>11. [RtRec(0, 0, 0, 0, 0, 0) EXCEPT !.ref = 0] \in RtRoutes
  BY <1>2 DEF RtRec, RtRoutes, RtLocal
<1>12. rtEnt \in [RtIds -> RtRoutes]
  <2>1. \A i \in RtIds : rtEnt[i] \in RtRoutes
    <3> TAKE i \in RtIds
    <3>1. CASE i <= 3
      <4>1. i \in 1..3
        BY <3>1 DEF RtIds
      <4> QED BY <1>10, <4>1
    <3>2. CASE ~(i <= 3)
      BY <1>7, <1>11, <3>2
    <3> QED BY <3>1, <3>2
  <2> QED BY <1>7, <2>1
<1>13. PICK hb \in 0..(RtTSize - 1), hs \in 0..(RtTSize - 1) :
         hb = rthash(RtBrcOf(m)) /\ hs = rthash(RtSubnetOf(m))
  BY <1>1, RtAddress, RtOwnNet
<1> DEFINE C == {<<>>, <<2>>, <<3, 1>>, <<2, 3, 1>>}
           In(h) == (IF h = hb THEN {2} ELSE {}) \cup (IF h = hs THEN {3, 1} ELSE {})
<1>14. \A h \in 0..(RtTSize - 1) : rttable[h] \in C /\ Range(rttable[h]) = In(h)
  <2>1. /\ <<>> \o <<>> = <<>> /\ <<2>> \o <<>> = <<2>> /\ <<>> \o <<3, 1>> = <<3, 1>>
        /\ <<2>> \o <<3, 1>> = <<2, 3, 1>>
    <3>1. <<>> \o <<>> = <<>> /\ <<>> \o <<3, 1>> = <<3, 1>>
      OBVIOUS
    <3>2. <<2>> \o <<>> = <<2>> /\ <<2>> \o <<3, 1>> = <<2, 3, 1>>
      BY RtTuples
    <3> QED BY <3>1, <3>2
  <2>2. /\ Range(<<>>) = {} /\ Range(<<2>>) = {2} /\ Range(<<3, 1>>) = {3, 1}
        /\ Range(<<2, 3, 1>>) = {2} \cup {3, 1}
    BY RtFirst
  <2> TAKE h \in 0..(RtTSize - 1)
  <2>3. rttable[h] = (IF h = hb THEN <<2>> ELSE <<>>) \o (IF h = hs THEN <<3, 1>> ELSE <<>>)
    BY <1>7, <1>13
  <2> QED BY <2>1, <2>2, <2>3
<1>15. \A c \in C : /\ c \in Seq(RtIds) /\ IsInjective(c)
                     /\ \A j, k \in DOMAIN c : j < k =>
                          (c[j] = 2 /\ c[k] = 3) \/ (c[j] = 2 /\ c[k] = 1) \/ (c[j] = 3 /\ c[k] = 1)
  <2>1. \A x, y, z \in RtIds : <<>> \in Seq(RtIds) /\ <<x>> \in Seq(RtIds) /\ <<x, y>> \in Seq(RtIds)
                              /\ <<x, y, z>> \in Seq(RtIds)
    OBVIOUS
  <2>2. /\ <<>> \in Seq(RtIds) /\ <<2>> \in Seq(RtIds) /\ <<3, 1>> \in Seq(RtIds)
        /\ <<2, 3, 1>> \in Seq(RtIds)
    BY <1>3, <2>1
  <2>3. <<3, 1>>[1] = 3 /\ <<3, 1>>[2] = 1
    OBVIOUS
  <2>4. <<2, 3, 1>>[1] = 2 /\ <<2, 3, 1>>[2] = 3 /\ <<2, 3, 1>>[3] = 1
    OBVIOUS
  <2> TAKE c \in C
  <2>5. CASE c = <<>> \/ c = <<2>>
    <3>1. c \in Seq(RtIds) /\ IsInjective(c)
      BY <2>2, <2>5, RtFirst, Zenon
    <3>2. DOMAIN c \subseteq {1}
      BY <2>5, RtFirst
    <3>3. \A j, k \in {1} : ~(j < k)
      OBVIOUS
    <3> QED BY <3>1, <3>2, <3>3
  <2>6. CASE c = <<3, 1>>
    BY <2>2, <2>3, <2>6, RtFirst
  <2>7. CASE c = <<2, 3, 1>>
    <3>1. DOMAIN c = {1, 2, 3} /\ c[1] = 2 /\ c[2] = 3 /\ c[3] = 1
      BY <2>4, <2>7, RtFirst
    <3>2. \A j, k \in {1, 2, 3} : j < k => (j = 1 /\ k = 2) \/ (j = 1 /\ k = 3) \/ (j = 2 /\ k = 3)
      OBVIOUS
    <3>3. c \in Seq(RtIds) /\ IsInjective(c)
      BY <2>2, <2>7, RtFirst
    <3> QED BY <3>1, <3>2, <3>3
  <2> QED BY <2>5, <2>6, <2>7
<1> HIDE DEF C
<1>16. rttable \in [0..(RtTSize - 1) -> Seq(RtIds)] /\ DOMAIN rttable = 0..(RtTSize - 1)
  BY <1>7, <1>14, <1>15
<1>17. \A h \in DOMAIN rttable : \A i \in Range(rttable[h]) : i \in 1..3 /\ rthash(rtEnt[i].net) = h
  <2>1. rthash(rtEnt[1].net) = hs /\ rthash(rtEnt[2].net) = hb /\ rthash(rtEnt[3].net) = hs
    BY <1>10, <1>13
  <2> SUFFICES ASSUME NEW h \in DOMAIN rttable, NEW i \in In(h) PROVE i \in 1..3 /\ rthash(rtEnt[i].net) = h
    BY <1>14, <1>16
  <2>2. (i = 2 /\ h = hb) \/ (i \in {1, 3} /\ h = hs)
    OBVIOUS
  <2> QED BY <2>1, <2>2
<1>18. \A g, h \in DOMAIN rttable : g # h => Range(rttable[g]) \cap Range(rttable[h]) = {}
  BY <1>17
<1>19. RtLinked = 1..3
  <2>1. 2 \in Range(rttable[hb]) /\ 1 \in Range(rttable[hs]) /\ 3 \in Range(rttable[hs])
    BY <1>14
  <2>2. 1..3 \subseteq RtLinked
    <3>1. \A i \in 1..3 : i = 1 \/ i = 2 \/ i = 3
      OBVIOUS
    <3> QED BY <1>16, <2>1, <3>1 DEF RtLinked
  <2>3. RtLinked \subseteq 1..3
    BY <1>17 DEF RtLinked
  <2> QED BY <2>2, <2>3
<1>20. RtTypes
  <2>1. rtWork \in [RtProcs -> Seq(RtOps)] /\ ripRq \in [{RtLocal, RtPrimary} -> Nat]
    BY <1>1
  <2>2. rtHeld \in [RtProcs -> RtIds \cup {RtNone}] /\ rtFresh \in [RtProcs -> RtIds \cup {RtNone}]
    BY <1>1
  <2> QED BY <1>1, <1>12, <1>16, <2>1, <2>2 DEF RtTypes
<1>21. RtPlans
  <2>1. RtPlan(<<>>, RtNone)
    BY DEF RtPlan, RtUses
  <2> QED BY <1>1, <2>1 DEF RtPlans
<1>22. RtRoles
  BY <1>1 DEF RtRoles, RtProcs
<1>23. RtPlaces
  <2>1. \A i \in 1..3 : rtEnt[i].net # 0 /\ RtSound(rtEnt[i])
    <3> TAKE i \in 1..3
    <3>1. i = 1 \/ i = 2 \/ i = 3
      OBVIOUS
    <3> QED BY <1>10, <3>1, RtOwnNet
  <2>2. rtDefault \notin RtLinked
    BY <1>1, <1>19 DEF RtNone
  <2>3. \A h \in DOMAIN rttable : IsInjective(rttable[h])
    BY <1>14, <1>15, <1>16
  <2> QED BY <1>1, <1>17, <1>18, <2>1, <2>2, <2>3 DEF RtPlaces
<1>24. RtCounts
  <2>1. \A i \in RtIds : RtUsers(rtHeld, i) = {} /\ RtUsers(rtFresh, i) = {}
    BY <1>1, <1>3 DEF RtUsers
  <2>2. \A i \in RtIds : RtRefsOf(i) = RtLink(i)
    <3> TAKE i \in RtIds
    <3>1. RtRefsOf(i) = RtLink(i) + Cardinality(RtUsers(rtHeld, i)) + Cardinality(RtUsers(rtFresh, i))
      BY RtRefsParts
    <3>2. Cardinality(RtUsers(rtHeld, i)) = 0 /\ Cardinality(RtUsers(rtFresh, i)) = 0 /\ RtLink(i) \in {0, 1}
      BY <2>1, FS_EmptySet DEF RtLink
    <3> QED BY <3>1, <3>2
  <2>3. \A i \in RtIds : RtLink(i) = IF i \in 1..3 THEN 1 ELSE 0
    BY <1>1, <1>3, <1>19 DEF RtLink
  <2> QED BY <1>1, <1>10, <2>2, <2>3 DEF RtCounts
<1>25. RtSorted
  <2> SUFFICES ASSUME NEW h \in DOMAIN rttable, NEW j \in DOMAIN rttable[h], NEW k \in DOMAIN rttable[h], j < k
               PROVE  /\ rtEnt[rttable[h][j]].mask >= rtEnt[rttable[h][k]].mask
                      /\ ~RtSame(rtEnt[rttable[h][j]], rtEnt[rttable[h][k]])
    BY DEF RtSorted, RtSame
  <2>1. PICK a, b : a = rttable[h][j] /\ b = rttable[h][k]
    OBVIOUS
  <2>2. (a = 2 /\ b = 3) \/ (a = 2 /\ b = 1) \/ (a = 3 /\ b = 1)
    BY <1>14, <1>15, <1>16, <2>1
  <2>3. RtSubnetOf(m) # RtBrcOf(m)
    BY RtOwnNet
  <2> QED BY <1>2, <1>5, <1>10, <2>1, <2>2, <2>3 DEF RtSame
<1>26. RipAnnounced
  BY <1>1, <1>2 DEF RipAnnounced
<1> QED BY <1>20, <1>21, <1>22, <1>23, <1>24, <1>25, <1>26 DEF RtInv

\* Every step of the table, its callers and RIP keeps the invariant.
LEMMA RtStep == RtInv /\ [RtNext]_rtVars => RtInv'
<1> SUFFICES ASSUME RtInv, [RtNext]_rtVars PROVE RtInv'
  OBVIOUS
<1>1. CASE UNCHANGED rtVars
  <2>1. /\ rttable' = rttable /\ rtDefault' = rtDefault /\ rtEnt' = rtEnt /\ rtFree' = rtFree
        /\ rtMask' = rtMask /\ rtWork' = rtWork /\ rtHeld' = rtHeld /\ rtFresh' = rtFresh
        /\ ripMsg' = ripMsg /\ ripRq' = ripRq /\ ripDue' = ripDue
    BY <1>1 DEF rtVars
  <2>2. RtTypes' /\ RtPlans' /\ RtRoles'
    BY <2>1 DEF RtInv, RtTypes, RtPlans, RtRoles, RtMade, RtSound
  <2>3. RtPlaces' /\ RtCounts' /\ RtSorted'
    <3>1. RtPlaces /\ RtCounts /\ RtSorted
      BY DEF RtInv
    <3> QED BY <2>1, <3>1, RtQuiet
  <2>4. RipAnnounced'
    BY <2>1 DEF RtInv, RipAnnounced
  <2> QED BY <2>2, <2>3, <2>4 DEF RtInv
<1>2. ASSUME NEW p \in RtProcs, RtTableOp(p) PROVE RtInv'
  <2>1. CASE rtget(p)
    BY <2>1, RtStepGet
  <2>2. CASE rtfree(p)
    BY <2>2, RtStepFree
  <2>3. CASE rtdel(p)
    BY <2>3, RtStepDel
  <2>4. CASE rtnew(p)
    BY <2>4, RtStepNew
  <2>5. CASE rtadd(p)
    BY <2>5, RtStepAdd
  <2>6. CASE rttimerNotify(p) \/ riplockWait(p) \/ riplockSignal(p)
    BY <2>6, RtStepNotify
  <2>7. CASE icredirectChange(p)
    BY <2>7, RtStepRedirect
  <2>8. CASE setmaskSet(p)
    BY <2>8, RtStepMask
  <2>9. CASE riprecvAdd(p)
    BY <2>9, RtStepRecv
  <2>10. CASE ripifset(p)
    BY <2>10, RtStepIfset
  <2>11. CASE ripsend(p)
    BY <2>11, RtStepSend
  <2>12. CASE ripsendOut(p)
    BY <2>12, RtStepSent
  <2> QED BY <1>2, <2>1, <2>2, <2>3, <2>4, <2>5, <2>6, <2>7, <2>8, <2>9, <2>10, <2>11, <2>12
             DEF RtTableOp
<1>3. CASE RtInput
  BY <1>3, RtStepCall, RtStepMaskReply DEF RtInput
<1>4. CASE ripout
  BY <1>4, RtStepRipout
<1>5. CASE rttimer
  BY <1>5, RtStepTimer
<1> QED BY <1>1, <1>2, <1>3, <1>4, <1>5 DEF RtNext

\* The routing table keeps its invariant: plans, places, counts, order and
\* announcements.
THEOREM RtInvariant == RtSpec => []RtInv
BY RtStarts, RtStep, PTL DEF RtSpec

\* rt_refcnt counts exactly who can still reach a route, a buffer that nobody
\* reaches is free, and chains are sorted without duplicates.
THEOREM RtRefsCorrect == RtSpec => []RtRefs
<1>1. RtInv => RtRefs
  BY DEF RtInv, RtCounts, RtSorted, RtRefs
<1> QED BY <1>1, RtInvariant, PTL

\* No change of the table is lost on the way to ripout, and an update never
\* runs past the packets of its queue.
THEOREM RipAnnouncedCorrect == RtSpec => []RipAnnounced
<1>1. RtInv => RipAnnounced
  BY DEF RtInv
<1> QED BY <1>1, RtInvariant, PTL

-----------------------------------------------------------------------------
(* The routing table implements the map of routes (RouteMap).              *)

\* The mapping: what RouteMap sees as its map, default, questions and answers.
RmMap == {RtAbs(i) : i \in RtLinked}
RmDflt == IF rtDefault = RtNone THEN {} ELSE {RtAbs(rtDefault)}
RmAsked == [p \in RtProcs |-> IF RtDoing(p, "get") THEN Head(rtWork[p]).arg ELSE <<>>]
RmGot == [p \in RtProcs |-> IF rtHeld[p] = RtNone THEN <<>>
                              ELSE <<rtEnt[rtHeld[p]].net, rtEnt[rtHeld[p]].mask>>]

\* What the steps of the map come to: nothing seen changes, ...
LEMMA RmStutter ==
    ASSUME RmMap' = RmMap, RmDflt' = RmDflt, isbrc' = isbrc, RmAsked' = RmAsked, RmGot' = RmGot
    PROVE  UNCHANGED Map!vars
BY DEF Map!vars, RmMap, RmDflt, RmAsked, RmGot

\* ... a process asks,
LEMMA RmAsk ==
    ASSUME NEW p \in RtProcs, RmAsked[p] = <<>>, RmGot[p] = <<>>, RtAlike(RmAsked, RmAsked', p),
           RmMap' = RmMap, RmDflt' = RmDflt, isbrc' = isbrc, RmGot' = RmGot
    PROVE  Map!Ask
<1>1. RmAsked' = [RmAsked EXCEPT ![p] = RmAsked'[p]]
  <2>1. RmAsked' = [q \in RtProcs |-> RmAsked'[q]] /\ RmAsked = [q \in RtProcs |-> RmAsked[q]]
    BY DEF RmAsked
  <2> QED BY <2>1 DEF RtAlike
<1> QED BY <1>1 DEF Map!Ask, RmMap, RmDflt, RmAsked, RmGot

\* ... gets a best route,
LEMMA RmGets ==
    ASSUME NEW p \in RtProcs, RmAsked[p] # <<>>, RmAsked' = [RmAsked EXCEPT ![p] = <<>>],
           NEW k \in Map!Best(RmAsked[p][1], RmAsked[p][2]), RmGot' = [RmGot EXCEPT ![p] = k],
           RmMap' = RmMap, RmDflt' = RmDflt, isbrc' = isbrc
    PROVE  Map!Get
BY DEF Map!Get, RmMap, RmDflt, RmAsked, RmGot

\* ... returns it,
LEMMA RmReturn ==
    ASSUME NEW p \in RtProcs, RmGot' = [RmGot EXCEPT ![p] = <<>>],
           RmMap' = RmMap, RmDflt' = RmDflt, isbrc' = isbrc, RmAsked' = RmAsked
    PROVE  Map!Return
BY DEF Map!Return, RmMap, RmDflt, RmAsked, RmGot

\* ... a route enters or replaces the one of its network and mask,
LEMMA RmAdd ==
    ASSUME NEW new \in RmMap', NEW old, old = {r \in RmMap : Map!Key(r) = Map!Key(new)},
           RmMap' = (RmMap \ old) \cup {new}, \A r \in old : r.gw = new.gw \/ new.metric < r.metric,
           RmDflt' = RmDflt, isbrc' = isbrc, RmAsked' = RmAsked, RmGot' = RmGot
    PROVE  Map!Add
BY DEF Map!Add, RmMap, RmDflt, RmAsked, RmGot

\* ... a default is set,
LEMMA RmAddDefault ==
    ASSUME RmDflt' # {}, RmMap' = RmMap, isbrc' = isbrc, RmAsked' = RmAsked, RmGot' = RmGot
    PROVE  Map!AddDefault
BY DEF Map!AddDefault, RmMap, RmDflt, RmAsked, RmGot

\* ... the default or one route goes,
LEMMA RmDelete ==
    ASSUME \/ RmMap' = RmMap /\ RmDflt' = {}
           \/ RmDflt' = RmDflt /\ \E r \in RmMap : RmMap' = RmMap \ {r},
           isbrc' = isbrc, RmAsked' = RmAsked, RmGot' = RmGot
    PROVE  Map!Delete
BY DEF Map!Delete, RmMap, RmDflt, RmAsked, RmGot

\* ... every route gets older,
LEMMA RmAge ==
    ASSUME \A new \in RmMap' : \E old \in RmMap : Map!Older(new, old),
           \A new \in RmDflt' : \E old \in RmDflt : Map!Older(new, old),
           isbrc' = isbrc, RmAsked' = RmAsked, RmGot' = RmGot
    PROVE  Map!Age
BY DEF Map!Age, RmMap, RmDflt, RmAsked, RmGot

\* ... the broadcast addresses change.
LEMMA RmRenumber ==
    ASSUME RmMap' = RmMap, RmDflt' = RmDflt, RmAsked' = RmAsked, RmGot' = RmGot
    PROVE  Map!Renumber
BY DEF Map!Renumber, RmMap, RmDflt, RmAsked, RmGot

\* The broadcast addresses depend on the mask alone.
LEMMA RmBrc ==
    ASSUME rtMask' = rtMask
    PROVE  isbrc' = isbrc
BY DEF isbrc, RtSubnet, RtBrc, netnum, RtPart

\* What a process that goes on to the plan w asks for.
RmAsks(w) == IF w # <<>> /\ Head(w).op = "get" THEN Head(w).arg ELSE <<>>
\* Only the process that moves changes what is asked.
LEMMA RmAskedStep ==
    ASSUME RtTypes, NEW p \in RtProcs, NEW w, rtWork' = [rtWork EXCEPT ![p] = w]
    PROVE  /\ RmAsked' = [RmAsked EXCEPT ![p] = RmAsks(w)] /\ RtAlike(RmAsked, RmAsked', p)
           /\ RmAsked[p] = RmAsks(rtWork[p])
           /\ RmAsks(w) = RmAsks(rtWork[p]) => RmAsked' = RmAsked
<1>1. rtWork \in [RtProcs -> Seq(RtOps)]
  BY DEF RtTypes
<1>2. RmAsked = [q \in RtProcs |-> RmAsks(rtWork[q])] /\ RmAsked' = [q \in RtProcs |-> RmAsks(rtWork'[q])]
  BY DEF RmAsked, RmAsks, RtDoing
<1>3. \A q \in RtProcs : rtWork'[q] = IF q = p THEN w ELSE rtWork[q]
  BY <1>1
<1>4. RmAsked' = [RmAsked EXCEPT ![p] = RmAsks(w)]
  BY <1>2, <1>3
<1>5. RtAlike(RmAsked, RmAsked', p)
  BY <1>2, <1>3 DEF RtAlike
<1> QED BY <1>2, <1>4, <1>5

\* Nobody asks in the middle of a plan.
LEMMA RmAskedDone ==
    ASSUME RtInv, NEW p \in RtProcs, NEW op, RtDoing(p, op), op # "get", RtDone(p)
    PROVE  RmAsked' = RmAsked
<1>1. RtTypes /\ RtPlans
  BY DEF RtInv
<1>2. PICK w \in Seq(RtOps) : w = rtWork[p] /\ w # <<>> /\ Head(w).op = op /\ RtPlan(w, rtHeld[p])
  BY <1>1 DEF RtTypes, RtPlans, RtDoing
<1>3. RmAsks(w) = <<>>
  BY <1>2 DEF RmAsks
<1>4. RmAsks(Tail(w)) = <<>>
  <2> SUFFICES ASSUME Tail(w) # <<>>, Head(Tail(w)).op = "get" PROVE FALSE
    BY DEF RmAsks
  <2>1. Tail(w) \in Seq(RtOps) /\ 1 \in DOMAIN Tail(w) /\ Head(Tail(w)) = Tail(w)[1]
    BY <1>2, RtRest
  <2>2. 1 + 1 \in DOMAIN w /\ w[1 + 1].op = "get" /\ 1 + 1 # 1
    BY <1>2, <2>1, RtRest
  <2> QED BY <1>2, <2>2 DEF RtPlan
<1>5. rtWork' = [rtWork EXCEPT ![p] = Tail(w)]
  BY <1>2 DEF RtDone
<1> QED BY <1>1, <1>2, <1>3, <1>4, <1>5, RmAskedStep

\* Nor does one that holds a route.
LEMMA RmAskedHolding ==
    ASSUME RtInv, RtInv', NEW p \in RtProcs, rtHeld[p] # RtNone, rtHeld' = rtHeld,
           NEW w, rtWork' = [rtWork EXCEPT ![p] = w]
    PROVE  RmAsked' = RmAsked
<1>1. RtTypes /\ RtPlan(rtWork[p], rtHeld[p])
  BY DEF RtInv, RtPlans
<1>2. rtWork'[p] = w /\ rtWork'[p] \in Seq(RtOps) /\ rtWork[p] \in Seq(RtOps) /\ RtPlan(rtWork'[p], rtHeld'[p])
  BY ZenonT(50) DEF RtInv, RtTypes, RtPlans, RtPlan, RtUses, RtUsing
<1>3. \A v \in Seq(RtOps) : RtPlan(v, rtHeld[p]) => RmAsks(v) = <<>>
  <2> SUFFICES ASSUME NEW v \in Seq(RtOps), RtPlan(v, rtHeld[p]), v # <<>>, Head(v).op = "get" PROVE FALSE
    BY DEF RmAsks
  <2>1. Head(v) = v[1]
    OBVIOUS
  <2> QED BY <2>1 DEF RtPlan
<1>4. RmAsks(rtWork[p]) = <<>> /\ RmAsks(w) = <<>>
  BY <1>1, <1>2, <1>3
<1> QED BY <1>1, <1>4, RmAskedStep

\* A step that leaves the table and what is held alone.
LEMMA RmQuiet ==
    ASSUME UNCHANGED <<rttable, rtDefault, rtEnt, rtMask, rtHeld>>
    PROVE  RmMap' = RmMap /\ RmDflt' = RmDflt /\ isbrc' = isbrc /\ RmGot' = RmGot
<1>1. rttable' = rttable /\ rtDefault' = rtDefault /\ rtEnt' = rtEnt /\ rtMask' = rtMask /\ rtHeld' = rtHeld
  OBVIOUS
<1> QED BY <1>1, RmBrc DEF RmMap, RmDflt, RmGot, RtAbs, RtLinked

\* The steps of RIP and of a plan that leave the map as it is.
LEMMA RmStepQuiet ==
    ASSUME RtInv, RtInv', NEW p \in RtProcs,
           \/ rttimerNotify(p) \/ riplockWait(p) \/ riplockSignal(p) \/ ripsend(p) \/ ripsendOut(p)
           \/ icredirectChange(p) \/ riprecvAdd(p) \/ ripifset(p)
    PROVE  UNCHANGED Map!vars
<1>1. UNCHANGED <<rttable, rtDefault, rtEnt, rtMask, rtHeld>>
  BY DEF rttimerNotify, riplockWait, riplockSignal, ripsend, ripsendOut, icredirectChange,
     riprecvAdd, ripifset
<1>2. RmAsked' = RmAsked
  <2>1. CASE rttimerNotify(p) \/ riplockWait(p) \/ riplockSignal(p) \/ ripsend(p) \/ ripsendOut(p)
    <3>1. \E op \in {"notify", "lock", "unlock", "scan", "sent"} : RtDoing(p, op) /\ RtDone(p)
      BY <2>1 DEF rttimerNotify, riplockWait, riplockSignal, ripsend, ripsendOut
    <3> QED BY <3>1, RmAskedDone
  <2>2. CASE icredirectChange(p) \/ riprecvAdd(p) \/ ripifset(p)
    <3>1. PICK op \in {"redirect", "recv", "ifset"} : RtDoing(p, op)
      BY <2>2 DEF icredirectChange, riprecvAdd, ripifset
    <3>2. \E w : rtWork' = [rtWork EXCEPT ![p] = w]
      BY <2>2, ZenonT(40) DEF icredirectChange, riprecvAdd, ripifset, RtThen
    <3>3. rtHeld[p] # RtNone
      <4>1. RtPlan(rtWork[p], rtHeld[p]) /\ RtTypes /\ RtRoles
        BY DEF RtInv, RtPlans
      <4>2. rtWork[p] \in Seq(RtOps) /\ rtWork[p] # <<>> /\ rtWork[p][1].op = op
        BY <3>1, <4>1, RtWho
      <4>3. 1 \in RtUses(rtWork[p])
        BY <4>2 DEF RtUses, RtUsing
      <4> QED BY <4>1, <4>2, <4>3 DEF RtPlan
    <3> QED BY <1>1, <3>2, <3>3, RmAskedHolding
  <2> QED BY <2>1, <2>2
<1> QED BY <1>1, <1>2, RmQuiet, RmStutter

\* An interface gets its mask.
LEMMA RmStepMask ==
    ASSUME RtInv, NEW p \in RtProcs, setmaskSet(p)
    PROVE  Map!Renumber
<1>1. RtTypes /\ RtDoing(p, "mask")
  BY DEF RtInv, setmaskSet
<1>2. PICK w : w = setmaskAdds' /\ rtWork' = [rtWork EXCEPT ![p] = w]
  BY DEF setmaskSet
<1>3. RmAsks(w) = <<>>
  <2>1. setmaskAdds = RtAddsOf(rtMask)
    BY DEF setmaskAdds, RtAddsOf, RtSubnet, RtBrc, RtSubnetOf, RtBrcOf
  <2>2. w # <<>> /\ Head(w) = w[1] /\ w[1].op = "add"
    BY <1>2 DEF setmaskAdds, OpAdd, RtOp
  <2> QED BY <2>2 DEF RmAsks
<1>4. RmAsks(rtWork[p]) = <<>>
  BY <1>1 DEF RmAsks, RtDoing
<1>5. RmAsked' = RmAsked
  BY <1>1, <1>2, <1>3, <1>4, RmAskedStep
<1>6. rttable' = rttable /\ rtDefault' = rtDefault /\ rtEnt' = rtEnt /\ rtHeld' = rtHeld
  BY DEF setmaskSet
<1>7. RmMap' = RmMap /\ RmDflt' = RmDflt /\ RmGot' = RmGot
  BY <1>6 DEF RmMap, RmDflt, RmGot, RtAbs, RtLinked
<1> QED BY <1>5, <1>7, RmRenumber

\* A call begins.
LEMMA RmStepCall ==
    ASSUME RtInv, NEW p \in RtProcs, NEW w, RtStart(p, w)
    PROVE  Map!Ask
<1>1. RtTypes
  BY DEF RtInv
<1>2. /\ rtWork[p] = <<>> /\ rtHeld[p] = RtNone /\ rtWork' = [rtWork EXCEPT ![p] = w]
      /\ UNCHANGED <<rttable, rtDefault, rtEnt, rtMask, rtHeld>>
  BY DEF RtStart, RtIdle
<1>3. RmAsked[p] = <<>> /\ RmGot[p] = <<>>
  BY <1>2 DEF RmAsked, RmGot, RtDoing
<1>4. RtAlike(RmAsked, RmAsked', p)
  BY <1>1, <1>2, RmAskedStep
<1> QED BY <1>2, <1>3, <1>4, RmQuiet, RmAsk

\* ripout wakes.
LEMMA RmStepRipout ==
    ASSUME RtInv, ripout
    PROVE  UNCHANGED Map!vars
<1>1. RtTypes /\ "ripout" \in RtProcs
  BY DEF RtInv, RtProcs
<1>2. PICK w : w = <<OpDo("lock"), RtOp("scan", {RtPrimary}), OpDo("sent"), OpDo("unlock")>>
  OBVIOUS
<1>3. rtWork["ripout"] = <<>> /\ rtWork' = [rtWork EXCEPT !["ripout"] = w]
  BY <1>2 DEF ripout, RtIdle
<1>4. RmAsks(w) = <<>> /\ RmAsks(<<>>) = <<>>
  BY <1>2 DEF RmAsks, OpDo, RtOp
<1>5. RmAsked' = RmAsked
  BY <1>1, <1>3, <1>4, RmAskedStep
<1>6. UNCHANGED <<rttable, rtDefault, rtEnt, rtMask, rtHeld>>
  BY DEF ripout
<1> QED BY <1>5, <1>6, RmQuiet, RmStutter

\* What the map shows of a route, and that it stays for the route i.
RmAbs(e) == [net |-> e.net, mask |-> e.mask, gw |-> e.gw, metric |-> e.metric, ifn |-> e.ifn, ttl |-> e.ttl]
\* ... that it stays for the route i in a step,
RmAlike(i) == RmAbs(rtEnt'[i]) = RmAbs(rtEnt[i])
\* The same chains of the same routes show the same map.
LEMMA RmTableSame ==
    ASSUME RtTypes, rttable' = rttable, rtDefault' = rtDefault,
           \A i \in RtIds : i \in RtLinked \/ i = rtDefault => RmAlike(i)
    PROVE  RmMap' = RmMap /\ RmDflt' = RmDflt
<1>1. RtLinked' = RtLinked /\ RtLinked \subseteq RtIds
  BY RtLinkedIds DEF RtLinked
<1>2. \A i \in RtLinked : RmAbs(rtEnt'[i]) = RmAbs(rtEnt[i])
  BY <1>1 DEF RmAlike
<1>3. RmMap' = RmMap
  <2>1. RmMap' = {RmAbs(rtEnt'[i]) : i \in RtLinked} /\ RmMap = {RmAbs(rtEnt[i]) : i \in RtLinked}
    BY <1>1 DEF RmMap, RtAbs, RmAbs
  <2> QED BY <1>2, <2>1
<1>4. CASE rtDefault = RtNone
  BY <1>3, <1>4 DEF RmDflt
<1>5. CASE rtDefault # RtNone
  <2>1. rtDefault \in RtIds
    BY <1>5 DEF RtTypes
  <2>2. PICK i \in RtIds : i = rtDefault
    BY <2>1
  <2>3. RmAbs(rtEnt'[i]) = RmAbs(rtEnt[i])
    BY <2>2 DEF RmAlike
  <2>4. RmDflt' = {RmAbs(rtEnt'[i])} /\ RmDflt = {RmAbs(rtEnt[i])}
    BY <1>5, <2>2 DEF RmDflt, RtAbs, RmAbs
  <2> QED BY <1>3, <2>3, <2>4
<1> QED BY <1>4, <1>5

\* A route keeps its network and mask while it can be reached.
RmKept == \A i \in RtIds : i \notin rtFree => rtEnt'[i].net = rtEnt[i].net /\ rtEnt'[i].mask = rtEnt[i].mask
RmGives(ent, i) == IF i = RtNone THEN <<>> ELSE <<ent[i].net, ent[i].mask>>
\* A process gets h, and the others keep what they have.
LEMMA RmGotStep ==
    ASSUME RtTypes, RtCounts, RmKept, NEW p \in RtProcs, NEW h \in RtIds \cup {RtNone},
           rtHeld' = [rtHeld EXCEPT ![p] = h], h # RtNone => h \notin rtFree
    PROVE  RmGot' = [RmGot EXCEPT ![p] = RmGives(rtEnt, h)]
<1>1. rtHeld \in [RtProcs -> RtIds \cup {RtNone}]
  BY DEF RtTypes
<1>2. RmGot = [q \in RtProcs |-> RmGives(rtEnt, rtHeld[q])] /\ RmGot' = [q \in RtProcs |-> RmGives(rtEnt', rtHeld'[q])]
  BY DEF RmGot, RmGives
<1>3. ASSUME NEW q \in RtProcs PROVE RmGives(rtEnt', rtHeld'[q]) = IF q = p THEN RmGives(rtEnt, h) ELSE RmGives(rtEnt, rtHeld[q])
  <2>1. PICK i \in RtIds \cup {RtNone} : i = rtHeld'[q] /\ i = IF q = p THEN h ELSE rtHeld[q]
    BY <1>1
  <2>2. i # RtNone => i \in RtIds /\ i \notin rtFree
    BY <1>1, <2>1, RtReached
  <2>3. RmGives(rtEnt', rtHeld'[q]) = IF i = RtNone THEN <<>> ELSE <<rtEnt'[i].net, rtEnt'[i].mask>>
    BY <2>1 DEF RmGives
  <2>4. i # RtNone => rtEnt'[i].net = rtEnt[i].net /\ rtEnt'[i].mask = rtEnt[i].mask
    BY <2>2 DEF RmKept
  <2>5. RmGives(rtEnt', rtHeld'[q]) = RmGives(rtEnt, i)
    BY <2>3, <2>4 DEF RmGives
  <2> QED BY <2>1, <2>5
<1> QED BY <1>2, <1>3

\* Nobody gets anything.
LEMMA RmGotSame ==
    ASSUME RtTypes, RtCounts, RmKept, rtHeld' = rtHeld
    PROVE  RmGot' = RmGot
<1>1. rtHeld \in [RtProcs -> RtIds \cup {RtNone}] /\ "ip" \in RtProcs
  BY DEF RtTypes, RtProcs
<1>2. PICK h \in RtIds \cup {RtNone} : h = rtHeld["ip"]
  BY <1>1
<1>3. rtHeld' = [rtHeld EXCEPT !["ip"] = h] /\ (h # RtNone => h \notin rtFree)
  BY <1>1, <1>2, RtReached
<1>4. RmGot' = [RmGot EXCEPT !["ip"] = RmGives(rtEnt, h)]
  BY <1>1, <1>3, RmGotStep
<1>5. RmGot = [q \in RtProcs |-> RmGives(rtEnt, rtHeld[q])]
  BY DEF RmGot, RmGives
<1> QED BY <1>1, <1>2, <1>4, <1>5

\* RTFREE shows nothing in the map.
LEMMA RmFreed ==
    ASSUME NEW ent \in [RtIds -> RtRoutes], NEW S, \A i \in S : ent[i].ref > 0, rtEnt' = RTFREE(ent, S),
           NEW i \in RtIds
    PROVE  /\ RmAbs(rtEnt'[i]) = RmAbs(ent[i])
           /\ rtEnt'[i].net = ent[i].net /\ rtEnt'[i].mask = ent[i].mask
<1>1. /\ rtEnt'[i].net = ent[i].net /\ rtEnt'[i].mask = ent[i].mask /\ rtEnt'[i].gw = ent[i].gw
      /\ rtEnt'[i].metric = ent[i].metric /\ rtEnt'[i].ifn = ent[i].ifn /\ rtEnt'[i].ttl = ent[i].ttl
  BY RtFreeing
<1> QED BY <1>1 DEF RmAbs

\* rtnew writes into a buffer that nobody reaches.
LEMMA RmStepNew ==
    ASSUME RtInv, NEW p \in RtProcs, rtnew(p)
    PROVE  UNCHANGED Map!vars
<1>1. RtTypes /\ RtCounts
  BY DEF RtInv
<1>2. PICK i \in rtFree : i = Min(rtFree)
  <2>1. rtFree \in SUBSET Nat /\ rtFree # {}
    BY <1>1 DEF RtTypes, RtIds, rtnew
  <2> QED BY <2>1, Smallest
<1>3. /\ rttable' = rttable /\ rtDefault' = rtDefault /\ rtHeld' = rtHeld /\ rtMask' = rtMask /\ rtWork' = rtWork
      /\ \A j \in RtIds : j # i => rtEnt'[j] = rtEnt[j]
  BY <1>1, <1>2 DEF rtnew, RtTypes
<1>4. RmMap' = RmMap /\ RmDflt' = RmDflt
  <2>1. ASSUME NEW j \in RtIds, j \in RtLinked \/ j = rtDefault PROVE RmAlike(j)
    <3>1. j \notin rtFree
      BY <1>1, <2>1, RtReached
    <3>2. rtEnt'[j] = rtEnt[j]
      BY <1>2, <1>3, <3>1
    <3> QED BY <3>2 DEF RmAlike
  <2> QED BY <1>1, <1>3, <2>1, RmTableSame
<1>5. RmGot' = RmGot
  <2>1. RmKept
    BY <1>2, <1>3 DEF RmKept
  <2> QED BY <1>1, <1>3, <2>1, RmGotSame
<1>6. RmAsked' = RmAsked
  BY <1>3 DEF RmAsked, RtDoing
<1> QED BY <1>3, <1>4, <1>5, <1>6, RmBrc, RmStutter

\* rtfree returns what is held.
LEMMA RmStepFree ==
    ASSUME RtInv, NEW p \in RtProcs, rtfree(p)
    PROVE  Map!Return
<1>1. RtTypes /\ RtCounts /\ RtPlans /\ RtRoles
  BY DEF RtInv
<1>2. /\ RtDoing(p, "free") /\ RtDone(p) /\ rtHeld' = [rtHeld EXCEPT ![p] = RtNone]
      /\ rtEnt' = RTFREE(rtEnt, {rtHeld[p]}) /\ rttable' = rttable /\ rtDefault' = rtDefault /\ rtMask' = rtMask
  BY DEF rtfree
<1>3. rtHeld[p] # RtNone
  <2>1. RtPlan(rtWork[p], rtHeld[p])
    BY <1>1 DEF RtPlans
  <2>2. rtWork[p] \in Seq(RtOps) /\ rtWork[p] # <<>> /\ rtWork[p][1].op = "free"
    BY <1>1, <1>2, RtWho
  <2>3. 1 \in RtUses(rtWork[p])
    BY <2>2 DEF RtUses, RtUsing
  <2> QED BY <2>1, <2>2, <2>3 DEF RtPlan
<1>4. PICK i \in RtIds : i = rtHeld[p]
  BY <1>1, <1>3 DEF RtTypes
<1>5. rtEnt \in [RtIds -> RtRoutes] /\ rtEnt[i].ref > 0 /\ rtEnt' = RTFREE(rtEnt, {i})
  BY <1>1, <1>2, <1>4, RtReached DEF RtTypes
<1>6. ASSUME NEW j \in RtIds PROVE RmAlike(j) /\ rtEnt'[j].net = rtEnt[j].net /\ rtEnt'[j].mask = rtEnt[j].mask
  <2>1. PICK e \in [RtIds -> RtRoutes], S \in SUBSET RtIds : e = rtEnt /\ S = {i}
    BY <1>5
  <2>2. (\A k \in S : e[k].ref > 0) /\ rtEnt' = RTFREE(e, S)
    BY <1>5, <2>1
  <2>3. RmAbs(rtEnt'[j]) = RmAbs(e[j]) /\ rtEnt'[j].net = e[j].net /\ rtEnt'[j].mask = e[j].mask
    BY <2>2, RmFreed
  <2> QED BY <2>1, <2>3 DEF RmAlike
<1>7. RmMap' = RmMap /\ RmDflt' = RmDflt
  BY <1>1, <1>2, <1>6, RmTableSame
<1>8. RmGot' = [RmGot EXCEPT ![p] = <<>>]
  <2>1. RmKept
    BY <1>6 DEF RmKept
  <2>2. RmGot' = [RmGot EXCEPT ![p] = RmGives(rtEnt, RtNone)]
    BY <1>1, <1>2, <2>1, RmGotStep
  <2> QED BY <2>2 DEF RmGives
<1>9. RmAsked' = RmAsked
  BY <1>2, RmAskedDone
<1> QED BY <1>2, <1>7, <1>8, <1>9, RmBrc, RmReturn

\* The longest match: the first live route of the chain that serves the address.
LEMMA RmBest ==
    ASSUME RtSubnetted, RtInv, NEW d \in Nat, NEW l \in BOOLEAN
    PROVE  RmGives(rtEnt, rtFound(d, l)) \in Map!Best(d, l)
<1>1. RtTypes /\ RtPlaces /\ RtSorted
  BY DEF RtInv
<1>2. rthash(d) \in DOMAIN rttable
  BY <1>1, RtAddress DEF RtTypes
<1>3. rtEnt \in [RtIds -> RtRoutes] /\ RtLinked \subseteq RtIds /\ RtNone \notin RtIds
  BY <1>1, RtLinkedIds DEF RtTypes, RtIds, RtNone
<1> DEFINE chain == rttable[rthash(d)]
           serves(e) == netmatch(d, e.net, e.mask, l) /\ e.metric < RtmInf
           live == {k \in DOMAIN chain : LET e == rtEnt[chain[k]] IN
                      e.ttl > 0 /\ netmatch(d, e.net, e.mask, l) /\ e.metric < RtmInf}
           all == {r \in RmMap : Map!Serves(r, d, l)}
           top == {r \in all : \A s \in all : s.mask <= r.mask}
<1>4. Map!Best(d, l) = IF all # {} THEN {Map!Key(r) : r \in top}
                       ELSE IF \E r \in RmDflt : r.metric < RtmInf THEN {Map!Key(r) : r \in RmDflt}
                       ELSE {<<>>}
  BY DEF Map!Best, RmMap, RmDflt
<1>5. \A i \in RtIds : /\ RtAbs(i).net = rtEnt[i].net /\ RtAbs(i).mask = rtEnt[i].mask
                       /\ RtAbs(i).metric = rtEnt[i].metric /\ Map!Key(RtAbs(i)) = <<rtEnt[i].net, rtEnt[i].mask>>
  BY DEF RtAbs, Map!Key
<1>6. \A i \in RtIds : Map!Serves(RtAbs(i), d, l) <=> serves(rtEnt[i])
  <2> TAKE i \in RtIds
  <2>1. Map!Serves(RtAbs(i), d, l) <=>
          /\ rtEnt[i].metric < RtmInf
          /\ d \div 2^(RtW - rtEnt[i].mask) = rtEnt[i].net \div 2^(RtW - rtEnt[i].mask)
          /\ l /\ d \in isbrc => rtEnt[i].mask # RtW
    BY <1>5 DEF Map!Serves, Map!NetPart
  <2> QED BY <2>1 DEF netmatch, RtPart, RtMaskAll
<1>7. ASSUME NEW i \in RtLinked, serves(rtEnt[i]) PROVE \E k \in live : chain[k] = i
  <2>1. PICK h \in DOMAIN rttable : i \in Range(rttable[h])
    BY DEF RtLinked
  <2>2. rthash(rtEnt[i].net) = h /\ rtEnt[i].ttl > 0 /\ rtEnt[i].mask >= RtClass
    BY <1>1, <2>1, RtLowest DEF RtPlaces, RtSound
  <2>3. PICK a \in Nat, m \in 0..RtW : a = rtEnt[i].net /\ m = rtEnt[i].mask
    BY <1>3 DEF RtRoutes
  <2>4. RtPart(d, m) = RtPart(a, m) /\ RtClass \in 0..m
    <3>1. RtPart(d, m) = RtPart(a, m)
      BY <1>7, <2>3 DEF netmatch
    <3>2. RtClass \in Nat /\ m \in Nat /\ m >= RtClass
      BY <2>2, <2>3, RtRipAssumption
    <3> QED BY <3>1, <3>2
  <2>5. RtPart(d, RtClass) = RtPart(a, RtClass)
    BY <2>4, RtCoarser
  <2>6. h = rthash(d)
    BY <2>2, <2>3, <2>5 DEF rthash
  <2>7. PICK k \in DOMAIN chain : chain[k] = i
    BY <2>1, <2>6 DEF Range
  <2> QED BY <1>7, <2>2, <2>7
<1>8. CASE live # {}
  <2>1. live \in SUBSET Nat
    BY <1>1, <1>2, RtChain
  <2>2. PICK k \in live : k = Min(live) /\ \A j \in live : k <= j
    BY <1>8, <2>1, Smallest, ZenonT(50)
  <2>3. PICK i \in RtIds : i = chain[k] /\ i \in RtLinked
    BY <1>1, <1>2, <2>2, RtChain, ZenonT(40)
  <2>4. rtFound(d, l) = i /\ serves(rtEnt[i])
    BY <1>8, <2>2, <2>3, ZenonT(40) DEF rtFound
  <2>5. RtAbs(i) \in all
    BY <1>6, <2>3, <2>4 DEF RmMap
  <2>6. ASSUME NEW s \in all PROVE s.mask <= RtAbs(i).mask
    <3>1. PICK j \in RtLinked : s = RtAbs(j)
      BY DEF RmMap
    <3>2. j \in RtIds /\ serves(rtEnt[j])
      BY <1>3, <1>6, <3>1
    <3>3. PICK n \in live : chain[n] = j
      BY <1>7, <3>2
    <3>4. rtEnt[j].mask \in 0..RtW /\ rtEnt[i].mask \in 0..RtW /\ RtW \in Nat
      BY <1>3, <3>2, RtRipAssumption DEF RtRoutes
    <3>5. CASE n = k
      BY <1>5, <2>3, <3>1, <3>3, <3>4, <3>5
    <3>6. CASE n # k
      <4>1. k <= n /\ k \in Nat /\ n \in Nat
        BY <2>1, <2>2, ZenonT(40)
      <4>2. k < n /\ k \in DOMAIN chain /\ n \in DOMAIN chain
        BY <3>6, <4>1
      <4>3. rtEnt[chain[k]].mask >= rtEnt[chain[n]].mask
        BY <1>1, <1>2, <4>2 DEF RtSorted
      <4> QED BY <1>5, <2>3, <3>1, <3>2, <3>3, <3>4, <4>3
    <3> QED BY <3>5, <3>6
  <2>7. RtAbs(i) \in top
    BY <2>5, <2>6
  <2>8. Map!Key(RtAbs(i)) \in Map!Best(d, l)
    BY <1>4, <2>5, <2>7
  <2> QED BY <1>3, <1>5, <2>3, <2>4, <2>8 DEF RmGives
<1>9. CASE live = {}
  <2>1. all = {}
    <3> SUFFICES ASSUME NEW s \in all PROVE FALSE
      OBVIOUS
    <3>1. PICK j \in RtLinked : s = RtAbs(j)
      BY DEF RmMap
    <3>2. j \in RtIds /\ serves(rtEnt[j])
      BY <1>3, <1>6, <3>1
    <3> QED BY <1>7, <1>9, <3>2
  <2>2. rtFound(d, l) = IF rtDefault # RtNone /\ rtEnt[rtDefault].metric < RtmInf THEN rtDefault ELSE RtNone
    BY <1>9 DEF rtFound
  <2> HIDE DEF all
  <2>3. CASE rtDefault # RtNone
    <3>1. rtDefault \in RtIds /\ RmDflt = {RtAbs(rtDefault)}
      BY <1>1, <2>3 DEF RmDflt, RtTypes
    <3>2. CASE rtEnt[rtDefault].metric < RtmInf
      <4>1. Map!Best(d, l) = {Map!Key(r) : r \in RmDflt}
        BY <1>4, <1>5, <2>1, <3>1, <3>2
      <4> QED BY <1>5, <2>2, <2>3, <3>1, <3>2, <4>1 DEF RmGives
    <3>3. CASE ~(rtEnt[rtDefault].metric < RtmInf)
      <4>1. Map!Best(d, l) = {<<>>}
        BY <1>4, <1>5, <2>1, <3>1, <3>3
      <4> QED BY <2>2, <3>3, <4>1 DEF RmGives
    <3> QED BY <3>2, <3>3
  <2>4. CASE rtDefault = RtNone
    <3>1. RmDflt = {}
      BY <2>4 DEF RmDflt
    <3>2. Map!Best(d, l) = {<<>>}
      BY <1>4, <2>1, <3>1
    <3> QED BY <2>2, <2>4, <3>2 DEF RmGives
  <2> QED BY <2>3, <2>4
<1> QED BY <1>8, <1>9

\* rtget gives the longest match.
LEMMA RmStepGet ==
    ASSUME RtSubnetted, RtInv, NEW p \in RtProcs, rtget(p)
    PROVE  Map!Get
<1>1. RtTypes /\ RtPlans /\ RtRoles /\ RtCounts
  BY DEF RtInv
<1>2. /\ rtWork[p] \in Seq(RtOps) /\ rtWork[p] # <<>> /\ rtWork[p][1].op = "get"
      /\ Head(rtWork[p]) = rtWork[p][1] /\ rtWork[p][1] \in RtOps
  BY <1>1, RtWho, ZenonT(40) DEF rtget
<1>3. PICK d \in Nat, l \in BOOLEAN : Head(rtWork[p]).arg = <<d, l>>
  BY <1>2, RtOpTypes
<1>4. PICK i : i = rtFound(d, l)
  OBVIOUS
<1>5. i = RtNone \/ (i \in RtIds /\ (i \in RtLinked \/ i = rtDefault))
  BY <1>1, <1>4, RtFoundIs
<1>6. /\ rtHeld' = [rtHeld EXCEPT ![p] = i] /\ rttable' = rttable /\ rtDefault' = rtDefault /\ rtMask' = rtMask
      /\ i = RtNone => rtWork' = [rtWork EXCEPT ![p] = <<>>] /\ rtEnt' = rtEnt
      /\ i # RtNone => rtWork' = [rtWork EXCEPT ![p] = Tail(rtWork[p])] /\ rtEnt' = [rtEnt EXCEPT ![i].ref = @ + 1]
  <2>1. Head(rtWork[p]).arg[1] = d /\ Head(rtWork[p]).arg[2] = l
    BY <1>3
  <2> QED BY <1>4, <2>1, ZenonT(40) DEF rtget, RtDone
<1>7. ASSUME NEW j \in RtIds PROVE RmAlike(j) /\ rtEnt'[j].net = rtEnt[j].net /\ rtEnt'[j].mask = rtEnt[j].mask
  <2>1. rtEnt[j] \in RtRoutes /\ rtEnt \in [RtIds -> RtRoutes]
    BY <1>1 DEF RtTypes
  <2>2. CASE i = RtNone \/ j # i
    <3>1. rtEnt'[j] = rtEnt[j]
      BY <1>5, <1>6, <2>1, <2>2
    <3> QED BY <3>1 DEF RmAlike
  <2>3. CASE i # RtNone /\ j = i
    <3>1. PICK r \in RtRoutes, n \in Nat : r = rtEnt[j] /\ n = r.ref + 1
      BY <2>1 DEF RtRoutes
    <3>2. rtEnt'[j] = [r EXCEPT !.ref = n]
      BY <1>6, <2>1, <2>3, <3>1
    <3> QED BY <3>1, <3>2, RtRouteRef DEF RmAlike, RmAbs
  <2> QED BY <2>2, <2>3
<1>8. RmMap' = RmMap /\ RmDflt' = RmDflt
  BY <1>1, <1>6, <1>7, RmTableSame
<1>9. RmGot' = [RmGot EXCEPT ![p] = RmGives(rtEnt, i)]
  <2>1. RmKept
    BY <1>7 DEF RmKept
  <2>2. i \in RtIds \cup {RtNone} /\ (i # RtNone => i \notin rtFree)
    BY <1>1, <1>5, RtReached
  <2> QED BY <1>1, <1>6, <2>1, <2>2, RmGotStep
<1>10. RmAsks(rtWork[p]) = <<d, l>> /\ RmAsks(<<>>) = <<>> /\ RmAsks(Tail(rtWork[p])) = <<>>
  <2>1. RmAsks(rtWork[p]) = <<d, l>> /\ RmAsks(<<>>) = <<>>
    BY <1>2, <1>3 DEF RmAsks
  <2>2. ASSUME Tail(rtWork[p]) # <<>>, Head(Tail(rtWork[p])).op = "get" PROVE FALSE
    <3>1. PICK w \in Seq(RtOps) : w = rtWork[p] /\ w # <<>> /\ RtPlan(w, rtHeld[p])
      BY <1>1, <1>2 DEF RtPlans
    <3>2. Tail(w) \in Seq(RtOps) /\ 1 \in DOMAIN Tail(w) /\ Head(Tail(w)) = Tail(w)[1]
      BY <2>2, <3>1, RtRest
    <3>3. 1 + 1 \in DOMAIN w /\ w[1 + 1].op = "get" /\ 1 + 1 # 1
      BY <2>2, <3>1, <3>2, RtRest
    <3> QED BY <3>1, <3>3 DEF RtPlan
  <2> QED BY <2>1, <2>2 DEF RmAsks
<1>11. RmAsked[p] = <<d, l>> /\ RmAsked' = [RmAsked EXCEPT ![p] = <<>>]
  <2>1. PICK w : rtWork' = [rtWork EXCEPT ![p] = w] /\ RmAsks(w) = <<>>
    BY <1>6, <1>10
  <2>2. RmAsked' = [RmAsked EXCEPT ![p] = RmAsks(w)] /\ RmAsked[p] = RmAsks(rtWork[p])
    BY <1>1, <2>1, RmAskedStep
  <2> QED BY <1>10, <2>1, <2>2
<1>12. RmGives(rtEnt, i) \in Map!Best(d, l)
  BY <1>4, RmBest
<1>13. RmAsked[p] # <<>> /\ RmAsked[p][1] = d /\ RmAsked[p][2] = l
  BY <1>11
<1>14. RmGives(rtEnt, i) \in Map!Best(RmAsked[p][1], RmAsked[p][2])
  BY <1>12, <1>13
<1> QED BY <1>6, <1>8, <1>9, <1>11, <1>13, <1>14, RmBrc, RmGets

\* RTFREE of routes that can be reached shows nothing anywhere.
LEMMA RmFreedAll ==
    ASSUME RtTypes, NEW S \in SUBSET RtIds, \A i \in S : rtEnt[i].ref > 0, rtEnt' = RTFREE(rtEnt, S)
    PROVE  \A j \in RtIds : RmAlike(j) /\ rtEnt'[j].net = rtEnt[j].net /\ rtEnt'[j].mask = rtEnt[j].mask
<1> TAKE j \in RtIds
<1>1. PICK e \in [RtIds -> RtRoutes] : e = rtEnt
  BY DEF RtTypes
<1>2. (\A k \in S : e[k].ref > 0) /\ rtEnt' = RTFREE(e, S)
  BY <1>1
<1>3. RmAbs(rtEnt'[j]) = RmAbs(e[j]) /\ rtEnt'[j].net = e[j].net /\ rtEnt'[j].mask = e[j].mask
  BY <1>2, RmFreed
<1> QED BY <1>1, <1>3 DEF RmAlike

\* The map before and after a step.
LEMMA RmMapIs ==
    /\ RmMap = {RmAbs(rtEnt[i]) : i \in RtLinked} /\ RmMap' = {RmAbs(rtEnt'[i]) : i \in RtLinked'}
    /\ \A i : RtAbs(i) = RmAbs(rtEnt[i])
BY DEF RmMap, RtAbs, RmAbs

\* The default before and after a step that keeps it.
LEMMA RmDfltSame ==
    ASSUME RtTypes, rtDefault' = rtDefault, rtDefault # RtNone => RmAlike(rtDefault)
    PROVE  RmDflt' = RmDflt
<1>1. CASE rtDefault = RtNone
  BY <1>1 DEF RmDflt
<1>2. CASE rtDefault # RtNone
  <2>1. PICK i \in RtIds : i = rtDefault
    BY <1>2 DEF RtTypes
  <2>2. RmAbs(rtEnt'[i]) = RmAbs(rtEnt[i])
    BY <1>2, <2>1 DEF RmAlike
  <2>3. RmDflt' = {RmAbs(rtEnt'[i])} /\ RmDflt = {RmAbs(rtEnt[i])}
    BY <1>2, <2>1 DEF RmDflt, RtAbs, RmAbs
  <2> QED BY <2>2, <2>3
<1> QED BY <1>1, <1>2

\* Two routes of the table differ in network or mask: chains hold no
\* duplicates, and routes of different chains differ in their networks.
LEMMA RmKeysApart ==
    ASSUME RtTypes, RtPlaces, RtSorted, NEW i \in RtLinked, NEW j \in RtLinked, i # j
    PROVE  ~RtSame(rtEnt[i], rtEnt[j])
<1>1. PICK g \in DOMAIN rttable : i \in Range(rttable[g])
  BY DEF RtLinked
<1>2. PICK h \in DOMAIN rttable : j \in Range(rttable[h])
  BY DEF RtLinked
<1>3. CASE g # h
  <2>1. rthash(rtEnt[i].net) = g /\ rthash(rtEnt[j].net) = h
    BY <1>1, <1>2 DEF RtPlaces
  <2> QED BY <1>3, <2>1 DEF RtSame
<1>4. CASE g = h
  <2>1. PICK k \in DOMAIN rttable[h] : rttable[h][k] = i
    BY <1>1, <1>4 DEF Range
  <2>2. PICK l \in DOMAIN rttable[h] : rttable[h][l] = j
    BY <1>2 DEF Range
  <2>3. k \in Nat /\ l \in Nat /\ k # l
    BY <2>1, <2>2, RtChain
  <2>4. CASE k < l
    BY <2>1, <2>2, <2>4 DEF RtSorted
  <2>5. CASE l < k
    <3>1. ~RtSame(rtEnt[j], rtEnt[i])
      BY <2>1, <2>2, <2>5 DEF RtSorted
    <3> QED BY <3>1 DEF RtSame
  <2> QED BY <2>3, <2>4, <2>5
<1> QED BY <1>3, <1>4

\* rtdel takes one route out, or the default, or nothing.
LEMMA RmStepDel ==
    ASSUME RtInv, NEW p \in RtProcs, rtdel(p)
    PROVE  Map!Delete \/ UNCHANGED Map!vars
<1>1. RtTypes /\ RtPlans /\ RtRoles /\ RtPlaces /\ RtCounts /\ RtSorted
  BY DEF RtInv
<1>2. PICK d, m : Head(rtWork[p]).arg[1] = d /\ Head(rtWork[p]).arg[2] = m
  OBVIOUS
<1>3. PICK h : h = rthash(d)
  OBVIOUS
<1> DEFINE hit == {k \in DOMAIN rttable[h] : LET e == rtEnt[rttable[h][k]] IN e.net = d /\ e.mask = m}
<1>4. /\ RtDoing(p, "del") /\ RtDone(p) /\ rtMask' = rtMask /\ rtHeld' = rtHeld
      /\ IF rtDefault # RtNone /\ rtEnt[rtDefault].net = d
         THEN /\ rtEnt' = RTFREE(rtEnt, {rtDefault}) /\ rtDefault' = RtNone /\ rttable' = rttable
         ELSE IF hit # {}
         THEN /\ rtEnt' = RTFREE(rtEnt, {rttable[h][Min(hit)]})
              /\ rttable' = [rttable EXCEPT ![h] = RemoveAt(@, Min(hit))]
              /\ rtDefault' = rtDefault
         ELSE rtEnt' = rtEnt /\ rttable' = rttable /\ rtDefault' = rtDefault
  BY <1>2, <1>3, ZenonT(40) DEF rtdel
<1>5. RmAsked' = RmAsked /\ isbrc' = isbrc
  BY <1>4, RmAskedDone, RmBrc
<1>6. RtLinked \subseteq RtIds /\ rtDefault \in RtIds \cup {RtNone}
  BY <1>1, RtLinkedIds DEF RtTypes
<1>7. ASSUME NEW i \in RtIds, i \in RtLinked \/ i = rtDefault, rtEnt' = RTFREE(rtEnt, {i})
      PROVE  (\A j \in RtIds : RmAlike(j)) /\ RmGot' = RmGot
  <2>1. PICK S \in SUBSET RtIds : S = {i}
    BY <1>7
  <2>2. (\A j \in S : rtEnt[j].ref > 0) /\ rtEnt' = RTFREE(rtEnt, S)
    BY <1>1, <1>7, <2>1, RtReached
  <2>3. \A j \in RtIds : RmAlike(j) /\ rtEnt'[j].net = rtEnt[j].net /\ rtEnt'[j].mask = rtEnt[j].mask
    BY <1>1, <2>2, RmFreedAll
  <2>4. RmKept
    BY <2>3 DEF RmKept
  <2> QED BY <1>1, <1>4, <2>3, <2>4, RmGotSame
<1>8. CASE rtDefault # RtNone /\ rtEnt[rtDefault].net = d
  <2>1. PICK i \in RtIds : i = rtDefault
    BY <1>6, <1>8
  <2>2. rtEnt' = RTFREE(rtEnt, {i}) /\ rtDefault' = RtNone /\ rttable' = rttable
    BY <1>4, <1>8, <2>1
  <2>3. (\A j \in RtIds : RmAlike(j)) /\ RmGot' = RmGot
    BY <1>7, <2>1, <2>2
  <2>4. RtLinked' = RtLinked
    BY <2>2 DEF RtLinked
  <2>5. RmMap' = RmMap
    BY <1>6, <2>3, <2>4, RmMapIs DEF RmAlike
  <2>6. RmDflt' = {}
    BY <2>2 DEF RmDflt
  <2> QED BY <1>5, <2>3, <2>5, <2>6, RmDelete
<1>9. CASE ~(rtDefault # RtNone /\ rtEnt[rtDefault].net = d) /\ hit # {}
  <2>1. h \in DOMAIN rttable
    <3>1. /\ rtWork[p] \in Seq(RtOps) /\ rtWork[p] # <<>> /\ rtWork[p][1].op = "del"
          /\ Head(rtWork[p]) = rtWork[p][1] /\ rtWork[p][1] \in RtOps
      BY <1>1, <1>4, RtWho
    <3>2. d \in Nat
      BY <1>2, <3>1, RtOpTypes
    <3> QED BY <1>1, <1>3, <3>2, RtAddress DEF RtTypes
  <2>2. hit \in SUBSET Nat
    BY <1>1, <2>1, RtChain
  <2>3. PICK k \in hit : k = Min(hit)
    BY <1>9, <2>2, Smallest
  <2>4. PICK i \in RtIds : i = rttable[h][k] /\ i \in RtLinked /\ i \in Range(rttable[h])
    BY <1>1, <2>1, <2>3, RtChain
  <2>5. PICK c : c = RemoveAt(rttable[h], k)
    OBVIOUS
  <2>6. rtEnt' = RTFREE(rtEnt, {i}) /\ rttable' = [rttable EXCEPT ![h] = c] /\ rtDefault' = rtDefault
    BY <1>4, <1>9, <2>3, <2>4, <2>5, ZenonT(40)
  <2>7. Range(c) = Range(rttable[h]) \ {i}
    BY <1>1, <2>1, <2>3, <2>4, <2>5, RtChainRemove
  <2>8. RtLinked' = (RtLinked \ Range(rttable[h])) \cup Range(c)
    BY <1>1, <2>1, <2>6, RtChainLinks
  <2>9. RtLinked' = RtLinked \ {i}
    <3>1. Range(rttable[h]) \subseteq RtLinked
      BY <2>1 DEF RtLinked
    <3> QED BY <2>4, <2>7, <2>8, <3>1
  <2>10. (\A j \in RtIds : RmAlike(j)) /\ RmGot' = RmGot
    BY <1>7, <2>4, <2>6
  <2>11. RmMap' = {RmAbs(rtEnt[j]) : j \in RtLinked \ {i}}
    BY <1>6, <2>9, <2>10, RmMapIs DEF RmAlike
  <2>12. \A j \in RtLinked \ {i} : RmAbs(rtEnt[j]) # RmAbs(rtEnt[i])
    <3> TAKE j \in RtLinked \ {i}
    <3>1. ~RtSame(rtEnt[j], rtEnt[i])
      BY <1>1, <2>4, RmKeysApart
    <3> QED BY <3>1 DEF RtSame, RmAbs
  <2>13. RmAbs(rtEnt[i]) \in RmMap /\ RmMap' = RmMap \ {RmAbs(rtEnt[i])}
    BY <2>4, <2>11, <2>12, RmMapIs
  <2>14. RmDflt' = RmDflt
    BY <1>1, <1>6, <2>6, <2>10, RmDfltSame
  <2> QED BY <1>5, <2>10, <2>13, <2>14, RmDelete
<1>10. CASE ~(rtDefault # RtNone /\ rtEnt[rtDefault].net = d) /\ hit = {}
  <2>1. UNCHANGED <<rttable, rtDefault, rtEnt, rtMask, rtHeld>>
    BY <1>4, <1>10
  <2> QED BY <1>5, <2>1, RmQuiet, RmStutter
<1> QED BY <1>8, <1>9, <1>10

\* The route n comes into the map, for the routes O of its network and mask.
LEMMA RmReplaced ==
    ASSUME NEW n, NEW O \in SUBSET RtLinked, RtLinked' = (RtLinked \ O) \cup {n},
           \A i \in RtLinked \ O : RmAlike(i) /\ ~RtSame(rtEnt[i], rtEnt'[n]),
           \A i \in O : /\ RtSame(rtEnt[i], rtEnt'[n])
                        /\ rtEnt[i].gw = rtEnt'[n].gw \/ rtEnt'[n].metric < rtEnt[i].metric,
           RmDflt' = RmDflt, isbrc' = isbrc, RmAsked' = RmAsked, RmGot' = RmGot
    PROVE  Map!Add
<1>1. PICK new : new = RmAbs(rtEnt'[n])
  OBVIOUS
<1>2. PICK old : old = {RmAbs(rtEnt[i]) : i \in O}
  OBVIOUS
<1>3. \A i \in RtLinked : Map!Key(RmAbs(rtEnt[i])) = Map!Key(new) <=> i \in O
  <2> TAKE i \in RtLinked
  <2>1. Map!Key(RmAbs(rtEnt[i])) = <<rtEnt[i].net, rtEnt[i].mask>> /\ Map!Key(new) = <<rtEnt'[n].net, rtEnt'[n].mask>>
    BY <1>1 DEF Map!Key, RmAbs
  <2> QED BY <2>1 DEF RtSame
<1>4. old = {r \in RmMap : Map!Key(r) = Map!Key(new)}
  BY <1>2, <1>3, RmMapIs
<1>5. RmMap \ old = {RmAbs(rtEnt[i]) : i \in RtLinked \ O}
  BY <1>3, <1>4, RmMapIs
<1>6. \A i \in RtLinked \ O : RmAbs(rtEnt'[i]) = RmAbs(rtEnt[i])
  BY DEF RmAlike
<1>7. RmMap' = (RmMap \ old) \cup {new} /\ new \in RmMap'
  BY <1>1, <1>5, <1>6, RmMapIs
<1>8. \A r \in old : r.gw = new.gw \/ new.metric < r.metric
  BY <1>1, <1>2 DEF RmAbs
<1> QED BY <1>4, <1>7, <1>8, RmAdd

\* rtadd enters a route, ...
LEMMA RmStepAddNew ==
    ASSUME RtInv, NEW n \in RtIds, NEW h \in DOMAIN rttable, NEW k,
           n \notin RtLinked, n # rtDefault, h = rthash(rtEnt[n].net),
           k = RtScan(rttable[h], n), ~(k <= Len(rttable[h]) /\ RtSame(rtEnt[rttable[h][k]], rtEnt[n])),
           rtHeld' = rtHeld, RtAddNew(n, h, k), isbrc' = isbrc, RmAsked' = RmAsked
    PROVE  Map!Add
<1>1. RtTypes /\ RtPlaces /\ RtCounts /\ RtSorted
  BY DEF RtInv
<1>2. PICK c : c = InsertAt(rttable[h], k, n)
  OBVIOUS
<1>3. rttable' = [rttable EXCEPT ![h] = c] /\ rtEnt' = rtEnt /\ rtDefault' = rtDefault
  BY <1>2 DEF RtAddNew
<1>4. \A g \in DOMAIN rttable : \A i \in Range(rttable[g]) : i \in RtLinked
  BY DEF RtLinked
<1>5. /\ c \in Seq(RtIds) /\ Range(c) = Range(rttable[h]) \cup {n} /\ IsInjective(c)
      /\ \A i, j \in DOMAIN c : i < j => /\ rtEnt[c[i]].mask >= rtEnt[c[j]].mask
                                         /\ ~RtSame(rtEnt[c[i]], rtEnt[c[j]])
  <2>1. n \notin Range(rttable[h])
    BY <1>4
  <2>2. RtOrderly(c, Range(rttable[h]) \cup {n})
    BY <1>1, <1>2, <2>1, RtInserted, ZenonT(40)
  <2> QED BY <2>2, ZenonT(40) DEF RtOrderly
<1>6. RtLinked' = (RtLinked \ Range(rttable[h])) \cup Range(c)
  BY <1>1, <1>3, RtChainLinks
<1>7. RtLinked' = (RtLinked \ {}) \cup {n}
  BY <1>4, <1>5, <1>6
<1>8. ASSUME NEW i \in RtLinked PROVE RmAlike(i) /\ ~RtSame(rtEnt[i], rtEnt'[n])
  <2>1. PICK g \in DOMAIN rttable : i \in Range(rttable[g])
    BY DEF RtLinked
  <2>2. CASE g # h
    <3>1. rthash(rtEnt[i].net) = g
      BY <1>1, <2>1 DEF RtPlaces
    <3> QED BY <1>3, <2>2, <3>1 DEF RtSame, RmAlike
  <2>3. CASE g = h
    <3>1. PICK a \in DOMAIN c : c[a] = i
      BY <1>5, <2>1, <2>3 DEF Range
    <3>2. PICK b \in DOMAIN c : c[b] = n
      BY <1>5 DEF Range
    <3>3. a \in Nat /\ b \in Nat /\ a # b
      BY <1>5, <3>1, <3>2
    <3>4. ~RtSame(rtEnt[c[a]], rtEnt[c[b]]) \/ ~RtSame(rtEnt[c[b]], rtEnt[c[a]])
      BY <1>5, <3>3
    <3>5. ~RtSame(rtEnt[i], rtEnt[n])
      BY <3>1, <3>2, <3>4 DEF RtSame
    <3> QED BY <1>3, <3>5 DEF RmAlike
  <2> QED BY <2>2, <2>3
<1>9. RmDflt' = RmDflt /\ RmGot' = RmGot
  BY <1>3 DEF RmDflt, RmGot, RtAbs
<1>10. {} \in SUBSET RtLinked
  OBVIOUS
<1> QED BY <1>7, <1>8, <1>9, <1>10, RmReplaced

\* ... puts it in the place of a worse one,
LEMMA RmStepAddBetter ==
    ASSUME RtInv, NEW n \in RtIds, NEW h \in DOMAIN rttable, NEW k \in DOMAIN rttable[h],
           n \notin RtLinked, n # rtDefault, RtSame(rtEnt[rttable[h][k]], rtEnt[n]),
           ~(rtEnt[rttable[h][k]].metric <= rtEnt[n].metric),
           rtHeld' = rtHeld, RtAddBetter(n, rttable[h][k], h, k), isbrc' = isbrc, RmAsked' = RmAsked
    PROVE  Map!Add
<1>1. RtTypes /\ RtPlaces /\ RtCounts /\ RtSorted
  BY DEF RtInv
<1>2. /\ rtEnt \in [RtIds -> RtRoutes] /\ rtDefault \in RtIds \cup {RtNone}
      /\ rttable \in [0..(RtTSize - 1) -> Seq(RtIds)]
  BY <1>1 DEF RtTypes
<1>3. PICK s \in RtIds : s = rttable[h][k] /\ s \in RtLinked /\ s \in Range(rttable[h])
  BY <1>1, RtChain
<1>4. PICK c : c = [rttable[h] EXCEPT ![k] = n]
  OBVIOUS
<1>5. rttable' = [rttable EXCEPT ![h] = c] /\ rtEnt' = RTFREE(rtEnt, {s}) /\ rtDefault' = rtDefault
  <2>1. rttable' = [rttable EXCEPT ![h][k] = n]
    BY DEF RtAddBetter
  <2>2. rttable' = [rttable EXCEPT ![h] = c]
    BY <1>2, <1>4, <2>1
  <2> QED BY <1>3, <2>2 DEF RtAddBetter
<1>6. \A g \in DOMAIN rttable : \A i \in Range(rttable[g]) : i \in RtLinked
  BY DEF RtLinked
<1>7. Range(c) = (Range(rttable[h]) \ {s}) \cup {n}
  <2>1. n \notin Range(rttable[h])
    BY <1>6
  <2>2. RtOrderly(c, (Range(rttable[h]) \ {rttable[h][k]}) \cup {n})
    BY <1>1, <1>4, <2>1, RtReplaced, ZenonT(40)
  <2> QED BY <1>3, <2>2, ZenonT(40) DEF RtOrderly
<1>8. RtLinked' = (RtLinked \ Range(rttable[h])) \cup Range(c)
  BY <1>1, <1>5, RtChainLinks
<1>9. RtLinked' = (RtLinked \ {s}) \cup {n}
  BY <1>3, <1>6, <1>7, <1>8
<1>10. PICK S \in SUBSET RtIds : S = {s}
  BY <1>3
<1>11. (\A j \in S : rtEnt[j].ref > 0) /\ rtEnt' = RTFREE(rtEnt, S)
  BY <1>1, <1>3, <1>5, <1>10, RtReached
<1>12. \A j \in RtIds : RmAlike(j) /\ rtEnt'[j].net = rtEnt[j].net /\ rtEnt'[j].mask = rtEnt[j].mask
  BY <1>1, <1>11, RmFreedAll
<1>13. rtEnt'[n].net = rtEnt[n].net /\ rtEnt'[n].mask = rtEnt[n].mask /\ rtEnt'[n].metric = rtEnt[n].metric
  BY <1>12 DEF RmAlike, RmAbs
<1>14. RtSame(rtEnt[s], rtEnt'[n]) /\ rtEnt'[n].metric < rtEnt[s].metric
  <2>1. rtEnt[s].metric \in Nat /\ rtEnt[n].metric \in Nat
    BY <1>2, <1>3 DEF RtRoutes
  <2> QED BY <1>3, <1>13, <2>1 DEF RtSame
<1>15. \A i \in RtLinked \ {s} : RmAlike(i) /\ ~RtSame(rtEnt[i], rtEnt'[n])
  <2> TAKE i \in RtLinked \ {s}
  <2>1. i \in RtIds /\ ~RtSame(rtEnt[i], rtEnt[s])
    BY <1>1, <1>3, RmKeysApart, RtLinkedIds
  <2> QED BY <1>12, <1>14, <2>1 DEF RtSame
<1>16. RmGot' = RmGot
  <2>1. RmKept
    BY <1>12 DEF RmKept
  <2> QED BY <1>1, <2>1, RmGotSame
<1>17. RmDflt' = RmDflt
  BY <1>1, <1>2, <1>5, <1>12, RmDfltSame
<1>18. PICK O \in SUBSET RtLinked : O = {s}
  BY <1>3
<1>19. /\ RtLinked' = (RtLinked \ O) \cup {n} /\ \A i \in RtLinked \ O : RmAlike(i) /\ ~RtSame(rtEnt[i], rtEnt'[n])
       /\ \A i \in O : /\ RtSame(rtEnt[i], rtEnt'[n])
                       /\ rtEnt[i].gw = rtEnt'[n].gw \/ rtEnt'[n].metric < rtEnt[i].metric
  BY <1>9, <1>14, <1>15, <1>18
<1> QED BY <1>16, <1>17, <1>19, RmReplaced

\* ... drops it, for the route of its gateway, which takes over its metric and
\* lifetime,
LEMMA RmStepAddSameGw ==
    ASSUME RtInv, NEW n \in RtIds, NEW s \in RtLinked, n \notin RtLinked, n # rtDefault, RtMade(rtEnt[n]),
           rtHeld' = rtHeld, RtAddSameGw(n, s), isbrc' = isbrc, RmAsked' = RmAsked
    PROVE  Map!Add
<1>1. RtTypes /\ RtPlaces /\ RtCounts /\ RtSorted
  BY DEF RtInv
<1>2. /\ rtEnt \in [RtIds -> RtRoutes] /\ rtDefault \in RtIds \cup {RtNone} /\ s \in RtIds
      /\ rttable' = rttable /\ rtDefault' = rtDefault /\ s # rtDefault
  BY <1>1, RtLinkedIds DEF RtTypes, RtPlaces, RtAddSameGw
<1> DEFINE zombie == rtEnt[s].metric # rtEnt[n].metric /\ rtEnt[n].metric = RtmInf
           ttl == IF ~dorip THEN rtEnt[s].ttl ELSE IF zombie THEN RipZTime ELSE rtEnt[n].ttl
<1>3. PICK r \in RtRoutes, m \in Nat, t \in Nat : r = rtEnt[s] /\ m = rtEnt[n].metric /\ t = ttl
  <2>1. rtEnt[s] \in RtRoutes /\ rtEnt[n] \in RtRoutes
    BY <1>2
  <2>2. rtEnt[s].ttl \in Nat /\ rtEnt[n].ttl \in Nat /\ rtEnt[n].metric \in Nat
    BY <2>1 DEF RtRoutes
  <2> QED BY <2>1, <2>2, RtRipAssumption
<1>4. PICK y : y = [[r EXCEPT !.metric = m] EXCEPT !.ttl = t]
  OBVIOUS
<1>5. y \in RtRoutes /\ y.net = r.net /\ y.mask = r.mask /\ y.gw = r.gw
  BY <1>3, <1>4 DEF RtRoutes
<1>6. PICK ent \in [RtIds -> RtRoutes] : ent = [rtEnt EXCEPT ![s] = y]
  BY <1>2, <1>5
<1>7. rtEnt' = RTFREE(ent, {n})
  <2>1. ent = [rtEnt EXCEPT ![s].metric = m, ![s].ttl = t]
    BY <1>2, <1>3, <1>4, <1>6
  <2>2. rtEnt' = RTFREE([rtEnt EXCEPT ![s].metric = m, ![s].ttl = t], {n})
    BY <1>3 DEF RtAddSameGw
  <2> QED BY <2>1, <2>2
<1>8. \A i \in RtIds : ent[i] = IF i = s THEN y ELSE rtEnt[i]
  BY <1>2, <1>6
<1>9. PICK S \in SUBSET RtIds : S = {n}
  OBVIOUS
<1>10. (\A i \in S : ent[i].ref > 0) /\ rtEnt' = RTFREE(ent, S)
  BY <1>7, <1>8, <1>9 DEF RtMade
<1>11. ASSUME NEW i \in RtIds PROVE /\ RmAbs(rtEnt'[i]) = RmAbs(ent[i])
                                    /\ rtEnt'[i].net = ent[i].net /\ rtEnt'[i].mask = ent[i].mask
  BY <1>10, RmFreed
<1>12. ASSUME NEW i \in RtIds PROVE rtEnt'[i].net = rtEnt[i].net /\ rtEnt'[i].mask = rtEnt[i].mask
  BY <1>3, <1>5, <1>8, <1>11
<1>13. \A i \in RtIds \ {s} : RmAlike(i)
  BY <1>8, <1>11 DEF RmAlike
<1>14. RtSame(rtEnt[s], rtEnt'[s]) /\ rtEnt'[s].gw = rtEnt[s].gw
  <2>1. RmAbs(rtEnt'[s]).gw = RmAbs(y).gw
    BY <1>2, <1>8, <1>11
  <2>2. rtEnt'[s].gw = y.gw
    BY <2>1 DEF RmAbs
  <2> QED BY <1>2, <1>3, <1>5, <1>12, <2>2 DEF RtSame
<1>15. \A i \in RtLinked \ {s} : RmAlike(i) /\ ~RtSame(rtEnt[i], rtEnt'[s])
  <2> TAKE i \in RtLinked \ {s}
  <2>1. i \in RtIds /\ ~RtSame(rtEnt[i], rtEnt[s])
    BY <1>1, RmKeysApart, RtLinkedIds
  <2> QED BY <1>13, <1>14, <2>1 DEF RtSame
<1>16. RmGot' = RmGot
  <2>1. RmKept
    BY <1>12 DEF RmKept
  <2> QED BY <1>1, <2>1, RmGotSame
<1>17. RmDflt' = RmDflt
  BY <1>1, <1>2, <1>13, RmDfltSame
<1>18. RtLinked' = RtLinked
  BY <1>2 DEF RtLinked
<1>19. PICK O \in SUBSET RtLinked : O = {s}
  OBVIOUS
<1>20. /\ RtLinked' = (RtLinked \ O) \cup {s} /\ \A i \in RtLinked \ O : RmAlike(i) /\ ~RtSame(rtEnt[i], rtEnt'[s])
       /\ s \in O
       /\ \A i \in O : /\ RtSame(rtEnt[i], rtEnt'[s])
                       /\ rtEnt[i].gw = rtEnt'[s].gw \/ rtEnt'[s].metric < rtEnt[i].metric
  BY <1>14, <1>15, <1>18, <1>19
<1> QED BY <1>16, <1>17, <1>20, RmReplaced

\* ... drops it for one that is as good, or makes it the default.
LEMMA RmStepAdd ==
    ASSUME RtInv, NEW p \in RtProcs, rtadd(p)
    PROVE  Map!Add \/ Map!AddDefault \/ UNCHANGED Map!vars
<1>1. RtTypes /\ RtPlaces /\ RtCounts /\ RtSorted
  BY DEF RtInv
<1>2. PICK n \in RtIds, h \in DOMAIN rttable : \E k \in 1..(Len(rttable[h]) + 1) :
         /\ n = rtFresh[p] /\ h = rthash(rtEnt[n].net) /\ k = RtScan(rttable[h], n)
         /\ n \notin RtLinked /\ n # rtDefault /\ n \notin rtFree /\ RtMade(rtEnt[n])
         /\ RtDoing(p, "add") /\ RtDone(p) /\ rtFresh' = [rtFresh EXCEPT ![p] = RtNone]
         /\ UNCHANGED <<rtMask, rtHeld, ripRq>>
         /\ \/ rtEnt[n].net = 0 /\ RtAddDefault(n)
            \/ /\ rtEnt[n].net # 0
               /\ ~(k <= Len(rttable[h]) /\ RtSame(rtEnt[rttable[h][k]], rtEnt[n]))
               /\ RtAddNew(n, h, k)
            \/ /\ k <= Len(rttable[h]) /\ RtSame(rtEnt[rttable[h][k]], rtEnt[n])
               /\ \/ RtAddSameGw(n, rttable[h][k]) \/ RtAddWorse(n, rttable[h][k])
                  \/ /\ ~(rtEnt[rttable[h][k]].metric <= rtEnt[n].metric)
                     /\ RtAddBetter(n, rttable[h][k], h, k)
  BY RtAddFrom
<1>3. PICK k \in 1..(Len(rttable[h]) + 1) :
         /\ h = rthash(rtEnt[n].net) /\ k = RtScan(rttable[h], n)
         /\ n \notin RtLinked /\ n # rtDefault /\ RtMade(rtEnt[n])
         /\ RtDoing(p, "add") /\ RtDone(p) /\ rtMask' = rtMask /\ rtHeld' = rtHeld
         /\ \/ RtAddDefault(n)
            \/ /\ ~(k <= Len(rttable[h]) /\ RtSame(rtEnt[rttable[h][k]], rtEnt[n]))
               /\ RtAddNew(n, h, k)
            \/ /\ k <= Len(rttable[h]) /\ RtSame(rtEnt[rttable[h][k]], rtEnt[n])
               /\ \/ RtAddSameGw(n, rttable[h][k]) \/ RtAddWorse(n, rttable[h][k])
                  \/ /\ ~(rtEnt[rttable[h][k]].metric <= rtEnt[n].metric)
                     /\ RtAddBetter(n, rttable[h][k], h, k)
  BY <1>2, ZenonT(40)
<1>4. RmAsked' = RmAsked /\ isbrc' = isbrc
  BY <1>3, RmAskedDone, RmBrc
<1>5. RtLinked \subseteq RtIds /\ rtDefault \in RtIds \cup {RtNone} /\ RtNone \notin RtIds
  BY <1>1, RtLinkedIds DEF RtTypes, RtIds, RtNone
<1>6. ASSUME NEW S \in SUBSET RtIds, \A j \in S : rtEnt[j].ref > 0, rtEnt' = RTFREE(rtEnt, S), rttable' = rttable
      PROVE  (\A j \in RtIds : RmAlike(j)) /\ RmGot' = RmGot /\ RmMap' = RmMap
  <2>1. \A j \in RtIds : RmAlike(j) /\ rtEnt'[j].net = rtEnt[j].net /\ rtEnt'[j].mask = rtEnt[j].mask
    BY <1>1, <1>6, RmFreedAll
  <2>2. RmKept
    BY <2>1 DEF RmKept
  <2>3. RmGot' = RmGot
    BY <1>1, <1>3, <2>2, RmGotSame
  <2>4. RtLinked' = RtLinked
    BY <1>6 DEF RtLinked
  <2>5. RmMap' = RmMap
    BY <1>5, <2>1, <2>4, RmMapIs DEF RmAlike
  <2> QED BY <2>1, <2>3, <2>5
<1>7. CASE RtAddDefault(n)
  <2>1. PICK S \in SUBSET RtIds : S = {rtDefault} \ {RtNone}
    BY <1>5
  <2>2. rtEnt' = RTFREE(rtEnt, S) /\ rttable' = rttable /\ rtDefault' = n
    BY <1>7, <2>1 DEF RtAddDefault
  <2>3. \A j \in S : rtEnt[j].ref > 0
    BY <1>1, <2>1, RtReached
  <2>4. RmGot' = RmGot /\ RmMap' = RmMap
    BY <1>6, <2>2, <2>3
  <2>5. RmDflt' # {}
    BY <1>5, <2>2 DEF RmDflt
  <2> QED BY <1>4, <2>4, <2>5, RmAddDefault
<1>8. CASE ~(k <= Len(rttable[h]) /\ RtSame(rtEnt[rttable[h][k]], rtEnt[n])) /\ RtAddNew(n, h, k)
  BY <1>3, <1>4, <1>8, RmStepAddNew
<1>9. CASE k <= Len(rttable[h]) /\ RtSame(rtEnt[rttable[h][k]], rtEnt[n])
  <2>1. k \in DOMAIN rttable[h]
    BY <1>1, <1>9, RtChain
  <2>2. PICK s \in RtLinked : s = rttable[h][k]
    BY <1>1, <2>1, RtChain
  <2>3. CASE RtAddSameGw(n, rttable[h][k])
    <3>1. RtAddSameGw(n, s)
      BY <2>2, <2>3
    <3> QED BY <1>3, <1>4, <3>1, RmStepAddSameGw
  <2>4. CASE RtAddWorse(n, rttable[h][k])
    <3>1. PICK S \in SUBSET RtIds : S = {n}
      OBVIOUS
    <3>2. rtEnt' = RTFREE(rtEnt, S) /\ rttable' = rttable /\ rtDefault' = rtDefault /\ \A j \in S : rtEnt[j].ref > 0
      BY <1>3, <2>4, <3>1 DEF RtAddWorse, RtMade
    <3>3. (\A j \in RtIds : RmAlike(j)) /\ RmGot' = RmGot /\ RmMap' = RmMap
      BY <1>6, <3>2
    <3>4. RmDflt' = RmDflt
      BY <1>1, <1>5, <3>2, <3>3, RmDfltSame
    <3> QED BY <1>4, <3>3, <3>4, RmStutter
  <2>5. CASE /\ ~(rtEnt[rttable[h][k]].metric <= rtEnt[n].metric)
             /\ RtAddBetter(n, rttable[h][k], h, k)
    BY <1>3, <1>4, <1>9, <2>1, <2>5, RmStepAddBetter
  <2> QED BY <1>3, <1>8, <1>9, <2>3, <2>4, <2>5, <1>7
<1> QED BY <1>3, <1>7, <1>8, <1>9

\* A route a second later.
RmOlder(z, e) ==
    /\ z.net = e.net /\ z.mask = e.mask /\ z.gw = e.gw /\ z.ifn = e.ifn
    /\ \/ z.metric = e.metric /\ z.ttl <= e.ttl
       \/ z.metric = RtmInf /\ e.metric < RtmInf
\* What RtAged makes of a route is that route, older.
LEMMA RmAging ==
    ASSUME NEW e \in RtRoutes, e.ttl > 0
    PROVE  RmOlder(RtAged(e), e)
<1>1. RipZTime \in Nat /\ RipZTime > 0 /\ RtInf \in Nat /\ RtmInf \in Nat /\ e.ttl \in Nat
  BY RtRipAssumption DEF RtRoutes
<1>2. /\ RtAged(e).net = e.net /\ RtAged(e).mask = e.mask
      /\ RtAged(e).gw = e.gw /\ RtAged(e).ifn = e.ifn
  BY RtAging
<1>3. CASE RtZombie(e)
  <2>1. RtAged(e) = [[e EXCEPT !.metric = RtmInf] EXCEPT !.ttl = RipZTime - 1] /\ e.metric < RtmInf
    BY <1>3 DEF RtAged, RtZombie
  <2>2. RtAged(e).metric = RtmInf
    BY <1>1, <2>1 DEF RtRoutes
  <2> QED BY <1>2, <2>1, <2>2 DEF RmOlder
<1>4. CASE ~RtZombie(e) /\ e.ttl = RtInf
  BY <1>1, <1>4 DEF RtAged, RmOlder
<1>5. CASE ~RtZombie(e) /\ e.ttl # RtInf
  <2>1. RtAged(e) = [e EXCEPT !.ttl = e.ttl - 1]
    BY <1>5 DEF RtAged
  <2>2. RtAged(e).ttl = e.ttl - 1 /\ RtAged(e).metric = e.metric
    BY <1>1, <2>1 DEF RtRoutes
  <2> QED BY <1>1, <1>2, <2>2 DEF RmOlder
<1> QED BY <1>3, <1>4, <1>5

\* The default that turns unreachable.
LEMMA RmLinger ==
    ASSUME NEW e \in RtRoutes, RtZombie(e), NEW z, z = [e EXCEPT !.metric = RtmInf, !.ttl = RipZTime]
    PROVE  RmOlder(z, e)
<1>1. z.net = e.net /\ z.mask = e.mask /\ z.gw = e.gw /\ z.ifn = e.ifn
  BY RtLinger
<1>2. z.metric = RtmInf
  BY DEF RtRoutes
<1> QED BY <1>1, <1>2 DEF RmOlder, RtZombie

\* What rttimer does to the routes: each one of the table and the default gets
\* older, and only they change.
LEMMA RmStepTimer ==
    ASSUME RtInv, RtInv', rttimer
    PROVE  Map!Age
<1>1. RtTypes /\ RtPlans /\ RtRoles /\ RtPlaces /\ RtCounts /\ RtSorted
  BY DEF RtInv
<1>2. /\ rtEnt \in [RtIds -> RtRoutes] /\ rtDefault \in RtIds \cup {RtNone} /\ rtWork \in [RtProcs -> Seq(RtOps)]
      /\ RtLinked \subseteq RtIds /\ "slow" \in RtProcs
  BY <1>1, RtLinkedIds DEF RtTypes, RtProcs
<1>3. \A i \in RtLinked : i \in RtIds /\ rtEnt[i].ttl > 0 /\ rtEnt[i] \in RtRoutes /\ i # rtDefault
  BY <1>1, <1>2 DEF RtPlaces, RtSound, RtLinked
<1>4. rtDefault # RtNone => rtDefault \in RtIds /\ rtEnt[rtDefault].ttl > 0 /\ rtEnt[rtDefault] \in RtRoutes
  BY <1>1, <1>2 DEF RtPlaces
<1>5. PICK gone, d, dgone : /\ gone = {i \in RtLinked : RtGone(i)} /\ d = {rtDefault} \ {RtNone}
                            /\ dgone = {i \in d : RtOld(rtEnt[i]) /\ ~RtZombie(rtEnt[i])}
  OBVIOUS
<1>6. PICK aged : aged = [i \in RtIds |->
               IF i \in RtLinked THEN RtAged(rtEnt[i])
               ELSE IF i \in d
               THEN IF RtZombie(rtEnt[i])
                    THEN [rtEnt[i] EXCEPT !.metric = RtmInf, !.ttl = RipZTime]
                    ELSE RtAged(rtEnt[i])
               ELSE rtEnt[i]]
  OBVIOUS
<1>7. /\ rtWork["slow"] = <<>>
      /\ rttable' = [h \in DOMAIN rttable |-> RtKeep(rttable[h], gone)]
      /\ rtEnt' = RTFREE(aged, gone \cup dgone)
      /\ rtDefault' = (IF dgone # {} THEN RtNone ELSE rtDefault)
      /\ \/ rtWork' = [rtWork EXCEPT !["slow"] = <<OpDo("notify")>>]
         \/ rtWork' = rtWork
      /\ rtHeld' = rtHeld /\ rtMask' = rtMask
  BY <1>5, <1>6 DEF rttimer
<1>8. ASSUME NEW i \in RtIds, i \in RtLinked \/ i = rtDefault
      PROVE  aged[i] \in RtRoutes /\ aged[i].ref = rtEnt[i].ref /\ RmOlder(aged[i], rtEnt[i])
  <2>1. rtEnt[i] \in RtRoutes /\ rtEnt[i].ttl > 0
    BY <1>3, <1>4, <1>8 DEF RtIds, RtNone
  <2>2. CASE i \in RtLinked \/ ~RtZombie(rtEnt[i])
    <3>1. i \in RtLinked \/ i \in d
      BY <1>5, <1>8 DEF RtIds, RtNone
    <3>2. aged[i] = RtAged(rtEnt[i])
      BY <1>6, <2>2, <3>1
    <3> QED BY <2>1, <3>2, RtAging, RmAging
  <2>3. CASE i \notin RtLinked /\ RtZombie(rtEnt[i])
    <3>1. i \in d
      BY <1>5, <1>8, <2>3 DEF RtIds, RtNone
    <3>2. aged[i] = [rtEnt[i] EXCEPT !.metric = RtmInf, !.ttl = RipZTime]
      BY <1>6, <2>3, <3>1
    <3> QED BY <2>1, <2>3, <3>2, RtLinger, RmLinger
  <2> QED BY <2>2, <2>3
<1>9. ASSUME NEW i \in RtIds, i \notin RtLinked, i # rtDefault PROVE aged[i] = rtEnt[i]
  BY <1>5, <1>6, <1>9
<1>10. aged \in [RtIds -> RtRoutes] /\ \A i \in RtIds : aged[i].ref = rtEnt[i].ref
  <2>1. \A i \in RtIds : aged[i] \in RtRoutes /\ aged[i].ref = rtEnt[i].ref
    BY <1>2, <1>8, <1>9
  <2> QED BY <1>6, <2>1
<1>11. PICK ent \in [RtIds -> RtRoutes], S \in SUBSET RtIds : ent = aged /\ S = gone \cup dgone
  BY <1>2, <1>4, <1>5, <1>10
<1>12. (\A i \in S : ent[i].ref > 0) /\ rtEnt' = RTFREE(ent, S)
  <2>1. \A i \in S : i \in RtLinked \/ i = rtDefault
    BY <1>5, <1>11
  <2>2. \A i \in S : rtEnt[i].ref > 0
    BY <1>1, <2>1, RtReached
  <2> QED BY <1>7, <1>10, <1>11, <2>2
<1>13. ASSUME NEW i \in RtIds PROVE /\ RmAbs(rtEnt'[i]) = RmAbs(aged[i])
                                    /\ rtEnt'[i].net = aged[i].net /\ rtEnt'[i].mask = aged[i].mask
  BY <1>11, <1>12, RmFreed
<1>14. ASSUME NEW i \in RtIds PROVE rtEnt'[i].net = rtEnt[i].net /\ rtEnt'[i].mask = rtEnt[i].mask
  BY <1>8, <1>9, <1>13 DEF RmOlder
<1>15. RmGot' = RmGot
  <2>1. RmKept
    BY <1>14 DEF RmKept
  <2> QED BY <1>1, <1>7, <2>1, RmGotSame
<1>16. RtLinked' \subseteq RtLinked
  <2>1. ASSUME NEW i \in RtLinked' PROVE i \in RtLinked
    <3>1. DOMAIN rttable' = DOMAIN rttable /\ \A h \in DOMAIN rttable : rttable'[h] = RtKeep(rttable[h], gone)
      BY <1>7
    <3>2. PICK h \in DOMAIN rttable : i \in Range(rttable'[h])
      BY <3>1 DEF RtLinked
    <3>3. PICK c \in Seq(RtIds) : c = rttable[h]
      BY <1>1, <3>2, RtChain
    <3>4. Range(RtKeep(c, gone)) = Range(c) \ gone
      BY RtKept
    <3>5. i \in Range(rttable[h])
      BY <3>1, <3>2, <3>3, <3>4
    <3> QED BY <3>5 DEF RtLinked
  <2> QED BY <2>1
<1>17. ASSUME NEW i \in RtIds, i \in RtLinked \/ i = rtDefault
       PROVE  Map!Older(RmAbs(rtEnt'[i]), RmAbs(rtEnt[i]))
  <2>1. RmOlder(aged[i], rtEnt[i]) /\ RmAbs(rtEnt'[i]) = RmAbs(aged[i])
    BY <1>8, <1>13, <1>17
  <2>2. Map!Older(RmAbs(aged[i]), RmAbs(rtEnt[i]))
    BY <2>1 DEF RmOlder, Map!Older, Map!Key, RmAbs
  <2> QED BY <2>1, <2>2
<1>18. \A new \in RmMap' : \E old \in RmMap : Map!Older(new, old)
  <2> SUFFICES ASSUME NEW new \in RmMap' PROVE \E old \in RmMap : Map!Older(new, old)
    OBVIOUS
  <2>1. PICK i \in RtLinked' : new = RmAbs(rtEnt'[i])
    BY RmMapIs
  <2>2. i \in RtIds /\ i \in RtLinked /\ RmAbs(rtEnt[i]) \in RmMap
    BY <1>2, <1>16, RmMapIs
  <2> QED BY <1>17, <2>1, <2>2
<1>19. \A new \in RmDflt' : \E old \in RmDflt : Map!Older(new, old)
  <2> SUFFICES ASSUME NEW new \in RmDflt' PROVE \E old \in RmDflt : Map!Older(new, old)
    OBVIOUS
  <2>1. rtDefault' # RtNone /\ new = RmAbs(rtEnt'[rtDefault'])
    BY DEF RmDflt, RtAbs, RmAbs
  <2>2. rtDefault' = rtDefault /\ rtDefault # RtNone /\ rtDefault \in RtIds
    BY <1>2, <1>7, <2>1
  <2>3. RmDflt = {RmAbs(rtEnt[rtDefault])}
    BY <2>2 DEF RmDflt, RtAbs, RmAbs
  <2>4. PICK i \in RtIds : i = rtDefault
    BY <2>2
  <2>5. new = RmAbs(rtEnt'[i]) /\ RmAbs(rtEnt[i]) \in RmDflt
    BY <2>1, <2>2, <2>3, <2>4
  <2> QED BY <1>17, <2>4, <2>5
<1>20. RmAsked' = RmAsked
  <2>1. CASE rtWork' = rtWork
    BY <2>1 DEF RmAsked, RtDoing
  <2>2. CASE rtWork' = [rtWork EXCEPT !["slow"] = <<OpDo("notify")>>]
    <3>1. PICK w : w = <<OpDo("notify")>> /\ rtWork' = [rtWork EXCEPT !["slow"] = w]
      BY <2>2
    <3>2. RmAsks(w) = <<>> /\ RmAsks(<<>>) = <<>>
      BY <3>1 DEF RmAsks, OpDo, RtOp
    <3>3. RmAsks(w) = RmAsks(rtWork["slow"])
      BY <1>7, <3>2
    <3> QED BY <1>1, <1>2, <3>1, <3>3, RmAskedStep
  <2> QED BY <1>7, <2>1, <2>2
<1> QED BY <1>7, <1>15, <1>18, <1>19, <1>20, RmBrc, RmAge

\* The map starts with routes of different networks or masks.
LEMMA RmStarts == RtInit => Map!Init
<1> SUFFICES ASSUME RtInit PROVE Map!Init
  OBVIOUS
<1>1. RtTypes /\ RtPlaces /\ RtSorted
  BY RtStarts DEF RtInv
<1>2. \A r, s \in RmMap : Map!Key(r) = Map!Key(s) => r = s
  <2> SUFFICES ASSUME NEW r \in RmMap, NEW s \in RmMap, Map!Key(r) = Map!Key(s) PROVE r = s
    OBVIOUS
  <2>1. PICK i \in RtLinked : r = RmAbs(rtEnt[i])
    BY RmMapIs
  <2>2. PICK j \in RtLinked : s = RmAbs(rtEnt[j])
    BY RmMapIs
  <2>3. RtSame(rtEnt[i], rtEnt[j])
    BY <2>1, <2>2 DEF Map!Key, RmAbs, RtSame
  <2> QED BY <1>1, <2>1, <2>2, <2>3, RmKeysApart
<1>3. RmDflt = {} /\ RmAsked = [p \in RtProcs |-> <<>>] /\ RmGot = [p \in RtProcs |-> <<>>]
  BY DEF RtInit, RmDflt, RmAsked, RmGot, RtDoing
<1> QED BY <1>2, <1>3 DEF Map!Init, RmMap, RmDflt, RmAsked, RmGot

\* Every step of the routing table is a step of the map, or none.
LEMMA RmStep == RtSubnetted /\ RtInv /\ RtInv' /\ [RtNext]_rtVars => [Map!Next]_(Map!vars)
<1> SUFFICES ASSUME RtSubnetted, RtInv, RtInv', [RtNext]_rtVars PROVE Map!Next \/ UNCHANGED Map!vars
  OBVIOUS
<1>1. CASE UNCHANGED rtVars
  <2>1. UNCHANGED <<rttable, rtDefault, rtEnt, rtMask, rtHeld>> /\ rtWork' = rtWork
    BY <1>1 DEF rtVars
  <2>2. RmAsked' = RmAsked
    BY <2>1 DEF RmAsked, RtDoing
  <2> QED BY <2>1, <2>2, RmQuiet, RmStutter
<1>2. ASSUME NEW p \in RtProcs, RtTableOp(p) PROVE Map!Next \/ UNCHANGED Map!vars
  <2>1. CASE rtget(p)
    BY <2>1, RmStepGet DEF Map!Next
  <2>2. CASE rtfree(p)
    BY <2>2, RmStepFree DEF Map!Next
  <2>3. CASE rtdel(p)
    BY <2>3, RmStepDel DEF Map!Next
  <2>4. CASE rtnew(p)
    BY <2>4, RmStepNew
  <2>5. CASE rtadd(p)
    BY <2>5, RmStepAdd DEF Map!Next
  <2>6. CASE setmaskSet(p)
    BY <2>6, RmStepMask DEF Map!Next
  <2>7. CASE \/ rttimerNotify(p) \/ riplockWait(p) \/ riplockSignal(p) \/ ripsend(p) \/ ripsendOut(p)
             \/ icredirectChange(p) \/ riprecvAdd(p) \/ ripifset(p)
    BY <2>7, RmStepQuiet
  <2> QED BY <1>2, <2>1, <2>2, <2>3, <2>4, <2>5, <2>6, <2>7 DEF RtTableOp
<1>3. CASE RtInput
  <2>1. "ip" \in RtProcs /\ "ripin" \in RtProcs
    BY DEF RtProcs
  <2>2. \E p \in RtProcs : \E w : RtStart(p, w)
    BY <1>3, <2>1 DEF RtInput, RtRoutePacket, icredirect, icmpMaskReply, rip, riprecv, riprepl
  <2> QED BY <2>2, RmStepCall DEF Map!Next
<1>4. CASE ripout
  BY <1>4, RmStepRipout
<1>5. CASE rttimer
  BY <1>5, RmStepTimer DEF Map!Next
<1> QED BY <1>1, <1>2, <1>3, <1>4, <1>5 DEF RtNext

\* While no mask is shorter than that of the class, the hash chains, buffers and
\* reference counts implement the plain map of routes: rtget gives the longest
\* match, a route yields only to its own gateway or to a better metric, and
\* nothing gains life by ageing.
THEOREM RtRefines ==
    ASSUME RtSubnetted
    PROVE  RtSpec => RtImplements
<1>1. RtInit => Map!Init
  BY RmStarts
<1>2. RtInv /\ RtInv' /\ [RtNext]_rtVars => [Map!Next]_(Map!vars)
  BY RmStep
<1> QED BY <1>1, <1>2, RtInvariant, PTL DEF RtSpec, RtImplements, Map!Spec
=============================================================================

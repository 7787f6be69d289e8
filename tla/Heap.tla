-------------------------------- MODULE Heap --------------------------------
(***************************************************************************)
(* Memory (memory/): the free list of getmem, getstk and freemem, and the  *)
(* buffer pools carved from it.  Addresses and lengths are in words; an    *)
(* mblock is two words.  A section under memlock is one step; a process    *)
(* may lose the processor between the semaphore of a pool and its chain.   *)
(* Processes free what they were given, with the size they asked for.      *)
(***************************************************************************)
EXTENDS Naturals, Sequences, FiniteSets, SequencesExt, FiniteSetsExt

CONSTANTS
    HeapProcs,
    HeapWords,      \* MVSPAGESIZE * MVSPAGES, in words
    HeapSizes,      \* sizes getmem is called with
    HeapStks,       \* stack sizes
    PoolBufs,       \* buffers of a pool, each a buffer of one word
    NBPools,        \* NBPOOLS
    HeapMaxCalls    \* bound on calls of getmem and getstk

(* The stack sizes of the processes are multiples of an mblock: getstk     *)
(* rounds to words but freestk to mblocks.                                 *)
ASSUME HeapAssumption ==
    /\ HeapWords \in Nat \ {0} /\ HeapWords % 2 = 0
    /\ HeapSizes \subseteq Nat \ {0} /\ HeapStks \subseteq Nat \ {0}
    /\ \A n \in HeapStks : n % 2 = 0
    /\ PoolBufs \in Nat \ {0} /\ IsFiniteSet(HeapProcs)

VARIABLES
    memlist,    \* the free blocks, a sequence of [addr, len]
    heapUsed,   \* blocks handed out: [addr, len, of]
    heapLost,   \* history: blocks freemem was given and refused
    bptab,      \* pools: [sem, chain, maxused], chain a sequence of buffers
    bufHeld,    \* <<pool, buffer>> in the hands of the callers
    poolPc,     \* per process <<>>, or the step and pool it is in
    heapCalls   \* calls left (HeapMaxCalls)

heapVars == <<memlist, heapUsed, heapLost, bptab, bufHeld, poolPc, heapCalls>>

roundmb(n) == 2 * ((n + 1) \div 2)
Block(a, n) == [addr |-> a, len |-> n]
End(b) == b.addr + b.len

(* meminit, poolinit: all memory is one block, there is no pool.           *)
HeapInit ==
    /\ memlist = <<Block(0, HeapWords)>>
    /\ heapUsed = {} /\ heapLost = {}
    /\ bptab = <<>>
    /\ bufHeld = {}
    /\ poolPc = [p \in HeapProcs |-> <<>>]
    /\ heapCalls = HeapMaxCalls

-----------------------------------------------------------------------------
Fits(n, k) == memlist[k].len >= n

(* First fit from the low end.                                             *)
FirstFit(n, k) == Fits(n, k) /\ \A j \in 1..(k - 1) : ~Fits(n, j)

HeapGet(n, of) ==
    \E k \in DOMAIN memlist : LET b == memlist[k] IN
        /\ FirstFit(n, k)
        /\ memlist' = IF b.len = n THEN RemoveAt(memlist, k)
                      ELSE [memlist EXCEPT ![k] = Block(b.addr + n, b.len - n)]
        /\ heapUsed' = heapUsed \cup {[addr |-> b.addr, len |-> n, of |-> of]}

NoFit(n) == \A k \in DOMAIN memlist : ~Fits(n, k)

getmem(n) ==
    /\ heapCalls > 0
    /\ heapCalls' = heapCalls - 1
    /\ \/ HeapGet(roundmb(n), "mem")
       \/ NoFit(roundmb(n)) /\ UNCHANGED <<memlist, heapUsed>>
    /\ UNCHANGED <<heapLost, bptab, bufHeld, poolPc>>

(* The high end of the last block that fits.                               *)
LastFit(n, k) == Fits(n, k) /\ \A j \in (k + 1)..Len(memlist) : ~Fits(n, j)

getstk(n) ==
    /\ heapCalls > 0
    /\ heapCalls' = heapCalls - 1
    /\ \/ NoFit(n) /\ UNCHANGED <<memlist, heapUsed>>
       \/ \E k \in DOMAIN memlist : LET b == memlist[k] IN
            /\ LastFit(n, k)
            /\ memlist' = IF b.len = n THEN RemoveAt(memlist, k)
                          ELSE [memlist EXCEPT ![k] = Block(b.addr, b.len - n)]
            /\ heapUsed' = heapUsed \cup {[addr |-> End(b) - n, len |-> n, of |-> "stk"]}
    /\ UNCHANGED <<heapLost, bptab, bufHeld, poolPc>>

(* freemem links the block in address order, joins it with the block below *)
(* and the block above; it refuses one that lies below the first free      *)
(* block or overlaps a free one.                                           *)
Refused(b) ==
    \/ memlist # <<>> /\ b.addr < memlist[1].addr
    \/ \E k \in DOMAIN memlist : /\ memlist[k].addr < End(b)
                                 /\ b.addr < End(memlist[k])

(* i free blocks are below b *)
Below(b, i) ==
    /\ \A k \in 1..i : memlist[k].addr < b.addr
    /\ \A k \in (i + 1)..Len(memlist) : memlist[k].addr >= b.addr

Joined(b, i) ==
    LET low == i > 0 /\ End(memlist[i]) = b.addr
        high == i < Len(memlist) /\ End(b) = memlist[i + 1].addr
        start == IF low THEN memlist[i].addr ELSE b.addr
        end == IF high THEN End(memlist[i + 1]) ELSE End(b)
    IN  SubSeq(memlist, 1, IF low THEN i - 1 ELSE i)
        \o <<Block(start, end - start)>>
        \o SubSeq(memlist, IF high THEN i + 2 ELSE i + 1, Len(memlist))

freemem(u) ==
    LET b == Block(u.addr, roundmb(u.len)) IN
    /\ u.of \in {"mem", "stk"}
    /\ heapUsed' = heapUsed \ {u}
    /\ IF Refused(b) THEN heapLost' = heapLost \cup {b} /\ UNCHANGED memlist
       ELSE /\ \E i \in 0..Len(memlist) : Below(b, i) /\ memlist' = Joined(b, i)
            /\ UNCHANGED heapLost
    /\ UNCHANGED <<bptab, bufHeld, poolPc, heapCalls>>

-----------------------------------------------------------------------------
(* mkpool: memory for the buffers and a word before each, the chain and a  *)
(* semaphore that counts it.                                               *)
mkpool ==
    /\ Len(bptab) < NBPools
    /\ HeapGet(roundmb(2 * PoolBufs), "pool")
    /\ bptab' = Append(bptab, [sem |-> PoolBufs, maxused |-> 0,
                               chain |-> [i \in 1..PoolBufs |-> i]])
    /\ UNCHANGED <<heapLost, bufHeld, poolPc, heapCalls>>

(* A buffer is cut from the chain's head; the high-water mark follows.     *)
PoolUsed(b) == IF PoolBufs - b.sem > b.maxused THEN PoolBufs - b.sem ELSE b.maxused
PoolCut(b) == [b EXCEPT !.chain = Tail(@), !.maxused = PoolUsed(b)]

getbufWait(p, q) ==
    /\ poolPc[p] = <<>> /\ bptab[q].sem > 0
    /\ bptab' = [bptab EXCEPT ![q].sem = @ - 1]
    /\ poolPc' = [poolPc EXCEPT ![p] = <<"take", q>>]
    /\ UNCHANGED <<memlist, heapUsed, heapLost, bufHeld, heapCalls>>

getbuf(p, q) ==
    /\ poolPc[p] = <<"take", q>>
    /\ bufHeld' = bufHeld \cup {<<q, Head(bptab[q].chain)>>}
    /\ bptab' = [bptab EXCEPT ![q] = PoolCut(@)]
    /\ poolPc' = [poolPc EXCEPT ![p] = <<>>]
    /\ UNCHANGED <<memlist, heapUsed, heapLost, heapCalls>>

(* nbgetbuf looks at the count first, all under memlock.                   *)
nbgetbuf(p, q) ==
    /\ poolPc[p] = <<>> /\ bptab[q].sem > 0
    /\ bufHeld' = bufHeld \cup {<<q, Head(bptab[q].chain)>>}
    /\ bptab' = [bptab EXCEPT ![q] = PoolCut([bptab[q] EXCEPT !.sem = @ - 1])]
    /\ UNCHANGED <<memlist, heapUsed, heapLost, poolPc, heapCalls>>

(* A fault: the semaphore is signalled before the buffer is on the chain.  *)
freebufEarly(p, q, i) ==
    /\ poolPc[p] = <<>> /\ <<q, i>> \in bufHeld
    /\ bufHeld' = bufHeld \ {<<q, i>>}
    /\ bptab' = [bptab EXCEPT ![q].sem = @ + 1]
    /\ poolPc' = [poolPc EXCEPT ![p] = <<"signal", q>>]
    /\ UNCHANGED <<memlist, heapUsed, heapLost, heapCalls>>

freebuf(p, q, i) ==
    /\ poolPc[p] = <<>> /\ <<q, i>> \in bufHeld
    /\ bufHeld' = bufHeld \ {<<q, i>>}
    /\ bptab' = [bptab EXCEPT ![q].chain = <<i>> \o @]
    /\ poolPc' = [poolPc EXCEPT ![p] = <<"signal", q>>]
    /\ UNCHANGED <<memlist, heapUsed, heapLost, heapCalls>>

freebufSignal(p, q) ==
    /\ poolPc[p] = <<"signal", q>>
    /\ bptab' = [bptab EXCEPT ![q].sem = @ + 1]
    /\ poolPc' = [poolPc EXCEPT ![p] = <<>>]
    /\ UNCHANGED <<memlist, heapUsed, heapLost, bufHeld, heapCalls>>

HeapNext ==
    \/ \E n \in HeapSizes : getmem(n)
    \/ \E n \in HeapStks : getstk(n)
    \/ \E u \in heapUsed : freemem(u)
    \/ mkpool
    \/ \E p \in HeapProcs, q \in DOMAIN bptab :
        \/ getbufWait(p, q) \/ getbuf(p, q) \/ nbgetbuf(p, q)
        \/ \E i \in 1..PoolBufs : freebuf(p, q, i)
        \/ freebufSignal(p, q)

HeapSpec == HeapInit /\ [][HeapNext]_heapVars

-----------------------------------------------------------------------------
Apart(b, c) == End(b) <= c.addr \/ End(c) <= b.addr
HeapBlocks == heapUsed \cup heapLost \cup ToSet(memlist)
PoolIn(q, l) == Cardinality({p \in HeapProcs : poolPc[p] = <<l, q>>})

(* Blocks in use, blocks freemem refused and free blocks do not overlap    *)
(* and make up the whole memory; the free list is in address order, and no *)
(* two of its blocks touch.                                                *)
MemDivided ==
    /\ \A u \in heapUsed :
        /\ \A v \in heapUsed : u # v => Apart(u, v)
        /\ \A c \in heapLost : Apart(u, c)
        /\ \A k \in DOMAIN memlist : Apart(u, memlist[k])
    /\ \A b \in heapLost :
        /\ \A c \in heapLost : b # c => Apart(b, c)
        /\ \A k \in DOMAIN memlist : Apart(b, memlist[k])
    /\ \A i, j \in DOMAIN memlist : i < j => End(memlist[i]) < memlist[j].addr
    /\ \A b \in HeapBlocks : End(b) <= HeapWords
    /\ \A w \in 0..(HeapWords - 1) : \E b \in HeapBlocks : b.addr <= w /\ w < End(b)

(* A pool's chain holds each free buffer once, and as many as the          *)
(* semaphore counts with those let through and those not yet signalled.    *)
PoolsDivided ==
    \A q \in DOMAIN bptab :
        LET b == bptab[q] IN
        /\ Len(b.chain) = b.sem + PoolIn(q, "take") + PoolIn(q, "signal")
        /\ ToSet(b.chain) = {i \in 1..PoolBufs : <<q, i>> \notin bufHeld}
        /\ IsInjective(b.chain)

(* However calls interleave, no word of memory is handed out twice or lost *)
(* from sight, and neither is a buffer; getbuf and nbgetbuf never follow   *)
(* the null pointer at the end of a chain.                                 *)
HeapDivided == MemDivided /\ PoolsDivided
=============================================================================

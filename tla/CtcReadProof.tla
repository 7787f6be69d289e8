---------------------------- MODULE CtcReadProof ----------------------------
(***************************************************************************)
(* Why ctci_ioread and ctci_read agree, for every number of buffers and    *)
(* every length of the segments.                                           *)
(*                                                                         *)
(* The argument has four parts.  The I/O process, once ready, is the next  *)
(* to run, so it never gives up the CPU while it holds the device, and the *)
(* reader never waits for the device (Owner).  The outcome of a read is    *)
(* awaited by a suspended I/O process until iohook resumes it (Awaited).   *)
(* The hung slots are a window of the ring that begins at avail, all of it *)
(* filled but the slot that is being read into, and it grows at bufndx     *)
(* (Window).  Frames grow along what was returned, what is left of the     *)
(* window, and the channel (Grows).                                        *)
(***************************************************************************)
EXTENDS CtcRead, FiniteSetTheorems, TLAPS

IoPCs == {"getbuf", "nobuf", "lock", "start", "suspend", "post", "publish", "tell"}
RdPCs == {"idle", "look", "suspend", "woken", "again", "copy", "free", "release",
          "refused", "ended"}

Types ==
    /\ TypeOK
    /\ ipc \in IoPCs /\ rpc \in RdPCs /\ narr \in Nat /\ ioerr \in BOOLEAN /\ userpid \in BOOLEAN
    /\ chan \in Seq(Nat) /\ got \in Seq(Nat)
    /\ buf \in [Slots -> Seq(Nat)] /\ hung \in [Slots -> BOOLEAN] /\ len \in [Slots -> {0, 1}]

\* The processes that hold the device, or wait for it.
IoWants == ipc \in {"start", "publish"}
RdWants == rpc \in {"look", "again", "copy", "free", "release"}

Owner ==
    /\ \/ sem = 1 /\ semq = <<>> /\ ~IoWants /\ ~RdWants
       \/ sem = 0 /\ semq = <<>> /\ (IoWants <=> ~RdWants)
       \/ sem = -1 /\ semq = <<IO>> /\ IoWants /\ RdWants
    /\ st[IO] = "ready" => cur \in {IO, "hook", "disp"}
    /\ cur = IO => st[IO] = "ready"
    /\ cur = RD => st[RD] = "ready"
    /\ st[IO] = "wait" <=> ipc = "nobuf" \/ (IoWants /\ RdWants)
    /\ st[RD] # "wait" /\ st[IO] # "dead"

Awaited ==
    /\ ipc = "suspend" => cur = IO
    /\ st[IO] = "susp" => ipc = "post"
    /\ IF ipc = "suspend" \/ st[IO] = "susp" THEN io \in {"pend", "complete"} ELSE io = "none"

\* Hung slots, those of them a read fills, and the distance of a slot from avail.
Hanging == CTC_READBUFS - free - InHand
Filling == ipc \in {"suspend", "post", "publish"}
Filled == IF Filling THEN Hanging - 1 ELSE Hanging
Ahead(i) == IF i >= avail THEN i - avail ELSE i - avail + CTC_READBUFS

Window ==
    /\ \A i \in Slots : hung[i] <=> Ahead(i) < Hanging
    /\ \A i \in Slots : len[i] = 1 <=> Ahead(i) < Filled
    /\ \A i \in Slots : buf[i] # <<>> <=> Ahead(i) < Filled + (IF ipc = "publish" THEN 1 ELSE 0)
    /\ Hanging \in 0..CTC_READBUFS
    /\ Ahead(bufndx) = IF Filling \/ ipc = "tell" THEN Hanging - 1
                       ELSE IF Hanging = CTC_READBUFS THEN 0 ELSE Hanging
    /\ rpc = "copy" \/ rpc = "again" \/ (rpc = "woken" /\ st[RD] # "susp") \/ pseg # 0 => Filled > 0
    /\ pseg <= Len(buf[avail])

\* What the channel has delivered and PostRead has not hung in its slot yet.
Arrived == io = "complete" \/ (ipc = "post" /\ st[IO] = "ready")

\* The place from which the frames of slot i are still to be returned.
From(i) == IF i = avail /\ pseg # 0 THEN pseg ELSE 1

Bounded ==
    /\ \A m \in DOMAIN got : got[m] <= narr
    /\ \A i \in Slots : \A k \in DOMAIN buf[i] : buf[i][k] <= narr
SlotsGrow ==
    /\ \A i \in Slots : \A k, l \in DOMAIN buf[i] : k < l => buf[i][k] < buf[i][l]
    /\ \A i, j \in Slots : Ahead(i) < Ahead(j) =>
           \A k \in DOMAIN buf[i], l \in DOMAIN buf[j] : buf[i][k] < buf[j][l]
GotFirst ==
    \A m \in DOMAIN got, i \in Slots : \A k \in DOMAIN buf[i] : k >= From(i) => got[m] < buf[i][k]
ChanLast ==
    Arrived =>
        /\ chan # <<>>
        /\ \A k \in DOMAIN chan : chan[k] <= narr
        /\ \A k, l \in DOMAIN chan : k < l => chan[k] < chan[l]
        /\ \A m \in DOMAIN got, k \in DOMAIN chan : got[m] < chan[k]
        /\ \A i \in Slots : \A l \in DOMAIN buf[i], k \in DOMAIN chan : buf[i][l] < chan[k]
Grows == InOrder /\ Bounded /\ SlotsGrow /\ GotFirst /\ ChanLast

IInv == Types /\ Owner /\ Awaited /\ Window /\ Grows /\ NoLogicError /\ BuffersConserved

-----------------------------------------------------------------------------
\* The next slot of the ring, without the remainder.
LEMMA NextSlot ==
    ASSUME NEW i \in Slots
    PROVE  /\ (i + 1) % CTC_READBUFS = IF i = CTC_READBUFS - 1 THEN 0 ELSE i + 1
           /\ (i + 1) % CTC_READBUFS \in Slots
BY CtcReadAssumption DEF Slots


\* What the queue of the device semaphore can be.
LEMMA SemTypes ==
    ASSUME NEW s, NEW q, (s \in {0, 1} /\ q = <<>>) \/ (s = -1 /\ q = <<IO>>)
    PROVE  s \in -1..1 /\ q \in Seq({IO, RD})
<1>1. <<>> \in Seq({IO, RD}) /\ <<IO>> \in Seq({IO, RD})
  OBVIOUS
<1>2. CASE s \in {0, 1} /\ q = <<>>
  BY <1>1, <1>2
<1>3. CASE s = -1 /\ q = <<IO>>
  BY <1>1, <1>3
<1> QED BY <1>2, <1>3

\* The first slot of the window.
LEMMA AheadOfAvail == ASSUME Types PROVE avail \in Slots /\ Ahead(avail) = 0
BY CtcReadAssumption DEF Types, TypeOK, Ahead, Slots

\* Every slot has a distance of its own, and the next slot the next distance.
LEMMA AheadOrder ==
    ASSUME Types
    PROVE  /\ \A i \in Slots : Ahead(i) \in 0..CTC_READBUFS-1
           /\ \A i, j \in Slots : Ahead(i) = Ahead(j) => i = j
           /\ Ahead((bufndx + 1) % CTC_READBUFS)
                = IF Ahead(bufndx) = CTC_READBUFS - 1 THEN 0 ELSE Ahead(bufndx) + 1
<1> USE CtcReadAssumption
<1>1. avail \in Slots /\ bufndx \in Slots
  BY DEF Types, TypeOK
<1>2. /\ (bufndx + 1) % CTC_READBUFS = IF bufndx = CTC_READBUFS - 1 THEN 0 ELSE bufndx + 1
      /\ (bufndx + 1) % CTC_READBUFS \in Slots
  BY <1>1, NextSlot
<1> QED BY <1>1, <1>2 DEF Ahead, Slots

\* avail moves on: every slot comes one nearer, the one left becomes the last.
LEMMA AheadShift ==
    ASSUME Types, avail' = (avail + 1) % CTC_READBUFS
    PROVE  \A i \in Slots : /\ Ahead(i) \in Nat /\ (i = avail <=> Ahead(i) = 0)
                            /\ Ahead(i)' = IF i = avail THEN CTC_READBUFS - 1 ELSE Ahead(i) - 1
<1>1. avail \in Slots
  BY DEF Types, TypeOK
<1>2. avail' = IF avail = CTC_READBUFS - 1 THEN 0 ELSE avail + 1
  BY <1>1, NextSlot
<1> QED BY <1>1, <1>2, CtcReadAssumption DEF Ahead, Slots

\* The length of the window, and of the part of it that is filled.
LEMMA WindowLengths ==
    ASSUME Types, Window
    PROVE  /\ Hanging \in 0..CTC_READBUFS /\ Filled \in Int
           /\ Filled = IF Filling THEN Hanging - 1 ELSE Hanging
BY CtcReadAssumption DEF Window, Filled

\* A step that moves no buffer and tells the reader nothing new.
LEMMA WindowKept ==
    ASSUME Window, UNCHANGED <<buf, hung, len, avail, pseg, bufndx>>,
           Hanging' = Hanging, Filling' <=> Filling,
           (ipc = "publish")' <=> ipc = "publish", (ipc = "tell")' <=> ipc = "tell",
           (rpc = "copy" \/ rpc = "again" \/ (rpc = "woken" /\ st[RD] # "susp"))' => Filled > 0
    PROVE  Window'
<1>1. Filled' = Filled
  BY DEF Filled
<1>2. \A i \in Slots : (hung[i] <=> Ahead(i) < Hanging)'
  BY DEF Window, Ahead
<1>3. \A i \in Slots : (len[i] = 1 <=> Ahead(i) < Filled)'
  BY <1>1 DEF Window, Ahead
<1>4. \A i \in Slots : (buf[i] # <<>> <=> Ahead(i) < Filled + (IF ipc = "publish" THEN 1 ELSE 0))'
  BY <1>1 DEF Window, Ahead
<1>5. (Ahead(bufndx) = IF Filling \/ ipc = "tell" THEN Hanging - 1
                       ELSE IF Hanging = CTC_READBUFS THEN 0 ELSE Hanging)'
  BY DEF Window, Ahead
<1> QED BY <1>1, <1>2, <1>3, <1>4, <1>5 DEF Window

\* A step that leaves the data alone, and of which nothing arrives.
LEMMA GrowsKept ==
    ASSUME Grows, UNCHANGED <<got, narr, chan, buf, avail, pseg>>, Arrived' => Arrived
    PROVE  Grows'
BY DEF Grows, InOrder, Bounded, SlotsGrow, GotFirst, ChanLast, From, Ahead

\* The number of buffers in the pool and in a hand does not change.
LEMMA BuffersKept ==
    ASSUME BuffersConserved, TypeOK', UNCHANGED hung, free' + InHand' = free + InHand
    PROVE  BuffersConserved'
BY DEF BuffersConserved

\* A step that changes nothing, unless it panics for an I/O error.
LEMMA Frame ==
    ASSUME IInv, panic' \in {panic, "I/O error"},
           UNCHANGED <<cur, st, io, ioerr, chan, sem, semq, free, buf, hung, len, avail, pseg, userpid,
                       ipc, bufndx, rpc, narr, got>>
    PROVE  IInv'
<1> USE DEF IInv
<1>1. Types' /\ Awaited' /\ NoLogicError'
  BY DEF Types, TypeOK, Awaited, NoLogicError
<1>2. Owner'
  BY DEF Owner, IoWants, RdWants
<1>3. Window'
  BY WindowKept DEF Hanging, Filling, InHand, Window
<1>4. Grows'
  BY GrowsKept DEF Arrived
<1>5. BuffersConserved'
  BY <1>1, BuffersKept DEF InHand, Types
<1> QED BY <1>1, <1>2, <1>3, <1>4, <1>5

-----------------------------------------------------------------------------
(* The device semaphore.  Whoever of the two acquires or releases it, only *)
(* the I/O process ever waits.                                             *)

LEMMA IoWaits ==
    ASSUME Types, Owner, cur = IO, ~IoWants, WaitSem(IO)
    PROVE  \/ ~RdWants /\ sem' = 0 /\ semq' = <<>> /\ UNCHANGED <<cur, st>>
           \/ RdWants /\ sem' = -1 /\ semq' = <<IO>> /\ cur' = "hook" /\ st' = [st EXCEPT ![IO] = "wait"]
<1>1. CASE RdWants
  <2>1. sem = 0 /\ semq = <<>>
    BY <1>1 DEF Owner
  <2> QED BY <1>1, <2>1 DEF WaitSem, Resched
<1>2. CASE ~RdWants
  <2>1. sem = 1 /\ semq = <<>>
    BY <1>2 DEF Owner
  <2> QED BY <1>2, <2>1 DEF WaitSem
<1> QED BY <1>1, <1>2

LEMMA RdWaits ==
    ASSUME Types, Owner, Awaited, cur = RD, ~RdWants, WaitSem(RD)
    PROVE  ~IoWants /\ sem' = 0 /\ semq' = <<>> /\ UNCHANGED <<cur, st>>
<1>1. ~IoWants
  BY DEF Owner, Types, TypeOK, IO, RD, IoWants, Awaited
<1>2. sem = 1 /\ semq = <<>>
  BY <1>1 DEF Owner
<1> QED BY <1>1, <1>2 DEF WaitSem

LEMMA IoSignals ==
    ASSUME Types, Owner, cur = IO, IoWants, SignalSem
    PROVE  ~RdWants /\ sem' = 1 /\ semq' = <<>> /\ UNCHANGED <<cur, st>>
<1>1. ~RdWants
  BY DEF Owner
<1>2. sem = 0 /\ semq = <<>>
  BY <1>1 DEF Owner
<1> QED BY <1>1, <1>2 DEF SignalSem

LEMMA RdSignals ==
    ASSUME Types, Owner, cur = RD, RdWants, SignalSem
    PROVE  \/ ~IoWants /\ sem' = 1 /\ semq' = <<>> /\ UNCHANGED <<cur, st>>
           \/ IoWants /\ sem' = 0 /\ semq' = <<>> /\ cur' = "hook" /\ st' = [st EXCEPT ![IO] = "ready"]
<1>1. CASE IoWants
  <2>1. sem = -1 /\ semq = <<IO>>
    BY <1>1 DEF Owner
  <2>2. Head(semq) = IO /\ Tail(semq) = <<>>
    BY <2>1
  <2> QED BY <1>1, <2>1, <2>2 DEF SignalSem, Resched
<1>2. CASE ~IoWants
  <2>1. sem = 0 /\ semq = <<>>
    BY <1>2 DEF Owner
  <2> QED BY <1>2, <2>1 DEF SignalSem
<1> QED BY <1>1, <1>2

-----------------------------------------------------------------------------
(* The actions.                                                            *)

LEMMA InitOK == Init => IInv
<1> SUFFICES ASSUME Init PROVE IInv
  OBVIOUS
<1> USE CtcReadAssumption DEF Init, Slots, NULL, IO, RD
<1>1. Types
  BY DEF Types, TypeOK, IoPCs, RdPCs
<1>2. Owner
  BY DEF Owner, IoWants, RdWants
<1>3. Awaited
  BY DEF Awaited
<1>4. Window
  <2>1. Hanging = 0 /\ Filled = 0 /\ ~Filling /\ \A i \in Slots : Ahead(i) = i
    <3>1. InHand = 0 /\ ~Filling
      BY DEF Filling, InHand
    <3>2. Hanging = 0 /\ Filled = 0
      BY <3>1 DEF Hanging, Filled
    <3>3. \A i \in Slots : Ahead(i) = i
      BY DEF Ahead
    <3> QED BY <3>1, <3>2, <3>3
  <2> QED BY <2>1 DEF Window
<1>5. Grows
  BY DEF Grows, InOrder, Bounded, SlotsGrow, GotFirst, ChanLast, Arrived, From
<1>6. NoLogicError
  BY DEF NoLogicError
<1>7. BuffersConserved
  <2>1. {i \in Slots : hung[i]} = {}
    OBVIOUS
  <2>2. Cardinality({i \in Slots : hung[i]}) = 0
    BY <2>1, FS_EmptySet
  <2>3. free + InHand = CTC_READBUFS
    BY DEF InHand
  <2> QED BY <1>1, <2>2, <2>3 DEF BuffersConserved, Types
<1> QED BY <1>1, <1>2, <1>3, <1>4, <1>5, <1>6, <1>7 DEF IInv




LEMMA HookOK == ASSUME IInv, Hook PROVE IInv'
<1> USE CtcReadAssumption DEF IInv
<1>1. Owner'
  BY DEF Hook, Runs, Resched, schedVars, ioVars, semVars, statVars, procVars, Types, TypeOK,
     IoPCs, RdPCs, Owner, IoWants, RdWants, Awaited, IO, RD
<1>2. Types'
  <2>1. (sem' \in {0, 1} /\ semq' = <<>>) \/ (sem' = -1 /\ semq' = <<IO>>)
    BY <1>1 DEF Owner
  <2>2. sem' \in -1..1 /\ semq' \in Seq({IO, RD})
    BY <2>1, SemTypes
  <2> QED BY <2>2 DEF Hook, Runs, Resched, schedVars, ioVars, semVars, statVars, procVars,
             Types, TypeOK, IoPCs, RdPCs, IO, RD
<1>3. Awaited'
  BY DEF Hook, Runs, Resched, schedVars, ioVars, semVars, statVars, procVars, Types, TypeOK,
     Owner, IoWants, RdWants, Awaited, IO, RD
<1>4. Window'
  BY WindowKept DEF Hook, Runs, Resched, schedVars, ioVars, semVars, statVars, procVars,
     Types, TypeOK, Owner, IoWants, RdWants, Window, Hanging, Filling, InHand, IO, RD
<1>5. Grows'
  BY GrowsKept DEF Hook, Runs, Resched, schedVars, ioVars, semVars, statVars, procVars, Types,
     TypeOK, Owner, IoWants, RdWants, Awaited, Arrived, IO, RD
<1>6. NoLogicError'
  BY DEF Hook, Runs, Resched, schedVars, ioVars, semVars, statVars, procVars, NoLogicError
<1>7. BuffersConserved'
  BY <1>2, BuffersKept DEF Hook, Runs, Resched, schedVars, ioVars, semVars, statVars,
     procVars, Types, TypeOK, InHand
<1> QED BY <1>1, <1>2, <1>3, <1>4, <1>5, <1>6, <1>7

LEMMA DispatchOK == ASSUME IInv, Dispatch PROVE IInv'
<1> USE CtcReadAssumption DEF IInv
<1>1. Owner'
  BY DEF Dispatch, Runs, Resched, schedVars, ioVars, semVars, statVars, procVars, Types,
     TypeOK, IoPCs, RdPCs, Owner, IoWants, RdWants, Awaited, IO, RD
<1>2. Types'
  <2>1. (sem' \in {0, 1} /\ semq' = <<>>) \/ (sem' = -1 /\ semq' = <<IO>>)
    BY <1>1 DEF Owner
  <2>2. sem' \in -1..1 /\ semq' \in Seq({IO, RD})
    BY <2>1, SemTypes
  <2> QED BY <2>2 DEF Dispatch, Runs, Resched, schedVars, ioVars, semVars, statVars, procVars,
             Types, TypeOK, IoPCs, RdPCs, IO, RD
<1>3. Awaited'
  BY DEF Dispatch, Runs, Resched, schedVars, ioVars, semVars, statVars, procVars, Types,
     TypeOK, Owner, IoWants, RdWants, Awaited, IO, RD
<1>4. Window'
  BY WindowKept DEF Dispatch, Runs, Resched, schedVars, ioVars, semVars, statVars, procVars,
     Types, TypeOK, Owner, IoWants, RdWants, Window, Hanging, Filling, InHand, IO, RD
<1>5. Grows'
  BY GrowsKept DEF Dispatch, Runs, Resched, schedVars, ioVars, semVars, statVars, procVars,
     Types, TypeOK, Owner, IoWants, RdWants, Awaited, Arrived, IO, RD
<1>6. NoLogicError'
  BY DEF Dispatch, Runs, Resched, schedVars, ioVars, semVars, statVars, procVars, NoLogicError
<1>7. BuffersConserved'
  BY <1>2, BuffersKept DEF Dispatch, Runs, Resched, schedVars, ioVars, semVars, statVars,
     procVars, Types, TypeOK, InHand
<1> QED BY <1>1, <1>2, <1>3, <1>4, <1>5, <1>6, <1>7

LEMMA OtherYieldsOK == ASSUME IInv, OtherYields PROVE IInv'
<1> USE CtcReadAssumption DEF IInv
<1>1. Owner'
  BY DEF OtherYields, Runs, Resched, schedVars, ioVars, semVars, statVars, procVars, Types,
     TypeOK, IoPCs, RdPCs, Owner, IoWants, RdWants, Awaited, IO, RD
<1>2. Types'
  <2>1. (sem' \in {0, 1} /\ semq' = <<>>) \/ (sem' = -1 /\ semq' = <<IO>>)
    BY <1>1 DEF Owner
  <2>2. sem' \in -1..1 /\ semq' \in Seq({IO, RD})
    BY <2>1, SemTypes
  <2> QED BY <2>2 DEF OtherYields, Runs, Resched, schedVars, ioVars, semVars, statVars,
             procVars, Types, TypeOK, IoPCs, RdPCs, IO, RD
<1>3. Awaited'
  BY DEF OtherYields, Runs, Resched, schedVars, ioVars, semVars, statVars, procVars, Types,
     TypeOK, Owner, IoWants, RdWants, Awaited, IO, RD
<1>4. Window'
  BY WindowKept DEF OtherYields, Runs, Resched, schedVars, ioVars, semVars, statVars,
     procVars, Types, TypeOK, Owner, IoWants, RdWants, Window, Hanging, Filling, InHand, IO, RD
<1>5. Grows'
  BY GrowsKept DEF OtherYields, Runs, Resched, schedVars, ioVars, semVars, statVars, procVars,
     Types, TypeOK, Owner, IoWants, RdWants, Awaited, Arrived, IO, RD
<1>6. NoLogicError'
  BY DEF OtherYields, Runs, Resched, schedVars, ioVars, semVars, statVars, procVars,
     NoLogicError
<1>7. BuffersConserved'
  BY <1>2, BuffersKept DEF OtherYields, Runs, Resched, schedVars, ioVars, semVars, statVars,
     procVars, Types, TypeOK, InHand
<1> QED BY <1>1, <1>2, <1>3, <1>4, <1>5, <1>6, <1>7

LEMMA ReaderYieldsOK == ASSUME IInv, ReaderYields PROVE IInv'
<1> USE CtcReadAssumption DEF IInv
<1>1. Owner'
  BY DEF ReaderYields, Runs, Resched, schedVars, ioVars, semVars, statVars, procVars, Types,
     TypeOK, IoPCs, RdPCs, Owner, IoWants, RdWants, Awaited, IO, RD
<1>2. Types'
  <2>1. (sem' \in {0, 1} /\ semq' = <<>>) \/ (sem' = -1 /\ semq' = <<IO>>)
    BY <1>1 DEF Owner
  <2>2. sem' \in -1..1 /\ semq' \in Seq({IO, RD})
    BY <2>1, SemTypes
  <2> QED BY <2>2 DEF ReaderYields, Runs, Resched, schedVars, ioVars, semVars, statVars,
             procVars, Types, TypeOK, IoPCs, RdPCs, IO, RD
<1>3. Awaited'
  BY DEF ReaderYields, Runs, Resched, schedVars, ioVars, semVars, statVars, procVars, Types,
     TypeOK, Owner, IoWants, RdWants, Awaited, IO, RD
<1>4. Window'
  BY WindowKept DEF ReaderYields, Runs, Resched, schedVars, ioVars, semVars, statVars,
     procVars, Types, TypeOK, Owner, IoWants, RdWants, Window, Hanging, Filling, InHand, IO, RD
<1>5. Grows'
  BY GrowsKept DEF ReaderYields, Runs, Resched, schedVars, ioVars, semVars, statVars,
     procVars, Types, TypeOK, Owner, IoWants, RdWants, Awaited, Arrived, IO, RD
<1>6. NoLogicError'
  BY DEF ReaderYields, Runs, Resched, schedVars, ioVars, semVars, statVars, procVars,
     NoLogicError
<1>7. BuffersConserved'
  BY <1>2, BuffersKept DEF ReaderYields, Runs, Resched, schedVars, ioVars, semVars, statVars,
     procVars, Types, TypeOK, InHand
<1> QED BY <1>1, <1>2, <1>3, <1>4, <1>5, <1>6, <1>7

LEMMA LockToStartOK == ASSUME IInv, LockToStart PROVE IInv'
<1> USE CtcReadAssumption DEF IInv
<1>a. /\ ~IoWants /\ ipc = "lock" /\ ipc' = "start" /\ cur = IO /\ panic = "none"
      /\ UNCHANGED <<ioVars, free, statVars, bufndx, rpc, narr, got, panic>>
  BY DEF LockToStart, Runs, IoWants
<1>b. \/ ~RdWants /\ sem' = 0 /\ semq' = <<>> /\ UNCHANGED <<cur, st>>
      \/ RdWants /\ sem' = -1 /\ semq' = <<IO>> /\ cur' = "hook" /\ st' = [st EXCEPT ![IO] = "wait"]
  BY <1>a, IoWaits DEF LockToStart
<1>1. Owner'
  BY <1>a, <1>b DEF schedVars, ioVars, semVars, statVars, procVars, Types, TypeOK, IoPCs,
     RdPCs, Owner, IoWants, RdWants, Awaited, IO, RD
<1>2. Types'
  <2>1. (sem' \in {0, 1} /\ semq' = <<>>) \/ (sem' = -1 /\ semq' = <<IO>>)
    BY <1>1 DEF Owner
  <2>2. sem' \in -1..1 /\ semq' \in Seq({IO, RD})
    BY <2>1, SemTypes
  <2> QED BY <1>a, <1>b, <2>2 DEF schedVars, ioVars, semVars, statVars, procVars, Types,
             TypeOK, IoPCs, RdPCs, IO, RD
<1>3. Awaited'
  BY <1>a, <1>b DEF schedVars, ioVars, semVars, statVars, procVars, Types, TypeOK, Owner,
     IoWants, RdWants, Awaited, IO, RD
<1>4. Window'
  BY <1>a, <1>b, WindowKept DEF schedVars, ioVars, semVars, statVars, procVars, Types, TypeOK,
     Owner, IoWants, RdWants, Window, Hanging, Filling, InHand, IO, RD
<1>5. Grows'
  BY <1>a, <1>b, GrowsKept DEF schedVars, ioVars, semVars, statVars, procVars, Types, TypeOK,
     Owner, IoWants, RdWants, Awaited, Arrived, IO, RD
<1>6. NoLogicError'
  BY <1>a, <1>b DEF schedVars, ioVars, semVars, statVars, procVars, NoLogicError
<1>7. BuffersConserved'
  BY <1>a, <1>b, <1>2, BuffersKept DEF schedVars, ioVars, semVars, statVars, procVars, Types,
     TypeOK, InHand
<1> QED BY <1>1, <1>2, <1>3, <1>4, <1>5, <1>6, <1>7

LEMMA SuspendIOOK == ASSUME IInv, SuspendIO PROVE IInv'
<1> USE CtcReadAssumption DEF IInv
<1>1. Owner'
  BY DEF SuspendIO, Runs, Resched, schedVars, ioVars, semVars, statVars, procVars, Types,
     TypeOK, IoPCs, RdPCs, Owner, IoWants, RdWants, Awaited, IO, RD
<1>2. Types'
  <2>1. (sem' \in {0, 1} /\ semq' = <<>>) \/ (sem' = -1 /\ semq' = <<IO>>)
    BY <1>1 DEF Owner
  <2>2. sem' \in -1..1 /\ semq' \in Seq({IO, RD})
    BY <2>1, SemTypes
  <2> QED BY <2>2 DEF SuspendIO, Runs, Resched, schedVars, ioVars, semVars, statVars,
             procVars, Types, TypeOK, IoPCs, RdPCs, IO, RD
<1>3. Awaited'
  BY DEF SuspendIO, Runs, Resched, schedVars, ioVars, semVars, statVars, procVars, Types,
     TypeOK, Owner, IoWants, RdWants, Awaited, IO, RD
<1>4. Window'
  BY WindowKept DEF SuspendIO, Runs, Resched, schedVars, ioVars, semVars, statVars, procVars,
     Types, TypeOK, Owner, IoWants, RdWants, Window, Hanging, Filling, InHand, IO, RD
<1>5. Grows'
  BY GrowsKept DEF SuspendIO, Runs, Resched, schedVars, ioVars, semVars, statVars, procVars,
     Types, TypeOK, Owner, IoWants, RdWants, Awaited, Arrived, IO, RD
<1>6. NoLogicError'
  BY DEF SuspendIO, Runs, Resched, schedVars, ioVars, semVars, statVars, procVars, NoLogicError
<1>7. BuffersConserved'
  BY <1>2, BuffersKept DEF SuspendIO, Runs, Resched, schedVars, ioVars, semVars, statVars,
     procVars, Types, TypeOK, InHand
<1> QED BY <1>1, <1>2, <1>3, <1>4, <1>5, <1>6, <1>7

LEMMA CtciReadOK == ASSUME IInv, CtciRead PROVE IInv'
<1> USE CtcReadAssumption DEF IInv
<1>a. /\ rpc = "idle" /\ rpc' = "look" /\ cur = RD /\ panic = "none"
      /\ UNCHANGED <<ioVars, free, statVars, ipc, bufndx, narr, got, panic>>
  BY DEF CtciRead, Runs
<1>b. ~IoWants /\ sem' = 0 /\ semq' = <<>> /\ UNCHANGED <<cur, st>>
  BY <1>a, RdWaits DEF CtciRead, RdWants
<1>1. Owner'
  BY <1>a, <1>b DEF schedVars, ioVars, semVars, statVars, procVars, Types, TypeOK, IoPCs,
     RdPCs, Owner, IoWants, RdWants, Awaited, IO, RD
<1>2. Types'
  <2>1. (sem' \in {0, 1} /\ semq' = <<>>) \/ (sem' = -1 /\ semq' = <<IO>>)
    BY <1>1 DEF Owner
  <2>2. sem' \in -1..1 /\ semq' \in Seq({IO, RD})
    BY <2>1, SemTypes
  <2> QED BY <1>a, <1>b, <2>2 DEF schedVars, ioVars, semVars, statVars, procVars, Types,
             TypeOK, IoPCs, RdPCs, IO, RD
<1>3. Awaited'
  BY <1>a, <1>b DEF schedVars, ioVars, semVars, statVars, procVars, Types, TypeOK, Owner,
     IoWants, RdWants, Awaited, IO, RD
<1>4. Window'
  BY <1>a, <1>b, WindowKept DEF schedVars, ioVars, semVars, statVars, procVars, Types, TypeOK,
     Owner, IoWants, RdWants, Window, Hanging, Filling, InHand, IO, RD
<1>5. Grows'
  BY <1>a, <1>b, GrowsKept DEF schedVars, ioVars, semVars, statVars, procVars, Types, TypeOK,
     Owner, IoWants, RdWants, Awaited, Arrived, IO, RD
<1>6. NoLogicError'
  BY <1>a, <1>b DEF schedVars, ioVars, semVars, statVars, procVars, NoLogicError
<1>7. BuffersConserved'
  BY <1>a, <1>b, <1>2, BuffersKept DEF schedVars, ioVars, semVars, statVars, procVars, Types,
     TypeOK, InHand
<1> QED BY <1>1, <1>2, <1>3, <1>4, <1>5, <1>6, <1>7

LEMMA SuspendReaderOK == ASSUME IInv, SuspendReader PROVE IInv'
<1> USE CtcReadAssumption DEF IInv
<1>1. Owner'
  BY DEF SuspendReader, Runs, Resched, schedVars, ioVars, semVars, statVars, procVars, Types,
     TypeOK, IoPCs, RdPCs, Owner, IoWants, RdWants, Awaited, IO, RD
<1>2. Types'
  <2>1. (sem' \in {0, 1} /\ semq' = <<>>) \/ (sem' = -1 /\ semq' = <<IO>>)
    BY <1>1 DEF Owner
  <2>2. sem' \in -1..1 /\ semq' \in Seq({IO, RD})
    BY <2>1, SemTypes
  <2> QED BY <2>2 DEF SuspendReader, Runs, Resched, schedVars, ioVars, semVars, statVars,
             procVars, Types, TypeOK, IoPCs, RdPCs, IO, RD
<1>3. Awaited'
  BY DEF SuspendReader, Runs, Resched, schedVars, ioVars, semVars, statVars, procVars, Types,
     TypeOK, Owner, IoWants, RdWants, Awaited, IO, RD
<1>4. Window'
  BY WindowKept DEF SuspendReader, Runs, Resched, schedVars, ioVars, semVars, statVars,
     procVars, Types, TypeOK, Owner, IoWants, RdWants, Window, Hanging, Filling, InHand, IO, RD
<1>5. Grows'
  BY GrowsKept DEF SuspendReader, Runs, Resched, schedVars, ioVars, semVars, statVars,
     procVars, Types, TypeOK, Owner, IoWants, RdWants, Awaited, Arrived, IO, RD
<1>6. NoLogicError'
  BY DEF SuspendReader, Runs, Resched, schedVars, ioVars, semVars, statVars, procVars,
     NoLogicError
<1>7. BuffersConserved'
  BY <1>2, BuffersKept DEF SuspendReader, Runs, Resched, schedVars, ioVars, semVars, statVars,
     procVars, Types, TypeOK, InHand
<1> QED BY <1>1, <1>2, <1>3, <1>4, <1>5, <1>6, <1>7

LEMMA WokenOK == ASSUME IInv, Woken PROVE IInv'
<1> USE CtcReadAssumption DEF IInv
<1>a. /\ rpc = "woken" /\ rpc' = "again" /\ cur = RD /\ userpid' = FALSE /\ panic = "none"
      /\ UNCHANGED <<ioVars, free, buf, hung, len, avail, pseg, ipc, bufndx, narr, got, panic>>
  BY DEF Woken, Runs
<1>b. ~IoWants /\ sem' = 0 /\ semq' = <<>> /\ UNCHANGED <<cur, st>>
  BY <1>a, RdWaits DEF Woken, RdWants
<1>1. Owner'
  BY <1>a, <1>b DEF schedVars, ioVars, semVars, statVars, procVars, Types, TypeOK, IoPCs,
     RdPCs, Owner, IoWants, RdWants, Awaited, IO, RD
<1>2. Types'
  <2>1. (sem' \in {0, 1} /\ semq' = <<>>) \/ (sem' = -1 /\ semq' = <<IO>>)
    BY <1>1 DEF Owner
  <2>2. sem' \in -1..1 /\ semq' \in Seq({IO, RD})
    BY <2>1, SemTypes
  <2> QED BY <1>a, <1>b, <2>2 DEF schedVars, ioVars, semVars, statVars, procVars, Types,
             TypeOK, IoPCs, RdPCs, IO, RD
<1>3. Awaited'
  BY <1>a, <1>b DEF schedVars, ioVars, semVars, statVars, procVars, Types, TypeOK, Owner,
     IoWants, RdWants, Awaited, IO, RD
<1>4. Window'
  BY <1>a, <1>b, WindowKept DEF schedVars, ioVars, semVars, statVars, procVars, Types, TypeOK,
     Owner, IoWants, RdWants, Window, Hanging, Filling, InHand, IO, RD
<1>5. Grows'
  BY <1>a, <1>b, GrowsKept DEF schedVars, ioVars, semVars, statVars, procVars, Types, TypeOK,
     Owner, IoWants, RdWants, Awaited, Arrived, IO, RD
<1>6. NoLogicError'
  BY <1>a, <1>b DEF schedVars, ioVars, semVars, statVars, procVars, NoLogicError
<1>7. BuffersConserved'
  BY <1>a, <1>b, <1>2, BuffersKept DEF schedVars, ioVars, semVars, statVars, procVars, Types,
     TypeOK, InHand
<1> QED BY <1>1, <1>2, <1>3, <1>4, <1>5, <1>6, <1>7

LEMMA LookOK == ASSUME IInv, Look PROVE IInv'
<1> USE CtcReadAssumption DEF IInv
<1>a. /\ rpc = "look" /\ cur = RD /\ panic = "none" /\ userpid' \in BOOLEAN
      /\ UNCHANGED <<ioVars, free, buf, hung, len, avail, pseg, ipc, bufndx, narr, got, panic>>
  BY DEF Look, Runs, Types
<1>b. \/ rpc' = "copy" /\ UNCHANGED <<cur, st, sem, semq>> /\ Filled > 0
      \/ rpc' = "suspend" /\ ~IoWants /\ sem' = 1 /\ semq' = <<>> /\ UNCHANGED <<cur, st>>
      \/ rpc' = "suspend" /\ IoWants /\ sem' = 0 /\ semq' = <<>> /\ cur' = "hook"
          /\ st' = [st EXCEPT ![IO] = "ready"]
  <2>1. CASE pseg = 0 /\ len[avail] = 0
    BY <1>a, <2>1, RdSignals DEF Look, RdWants
  <2>2. CASE ~(pseg = 0 /\ len[avail] = 0)
    <3>1. Filled > 0
      BY <2>2, AheadOfAvail DEF Types, Window
    <3> QED BY <2>2, <3>1 DEF Look, schedVars, semVars
  <2> QED BY <2>1, <2>2
<1>1. Owner'
  BY <1>a, <1>b DEF schedVars, ioVars, semVars, statVars, procVars, Types, TypeOK, IoPCs,
     RdPCs, Owner, IoWants, RdWants, Awaited, IO, RD
<1>2. Types'
  <2>1. (sem' \in {0, 1} /\ semq' = <<>>) \/ (sem' = -1 /\ semq' = <<IO>>)
    BY <1>1 DEF Owner
  <2>2. sem' \in -1..1 /\ semq' \in Seq({IO, RD})
    BY <2>1, SemTypes
  <2> QED BY <1>a, <1>b, <2>2 DEF schedVars, ioVars, semVars, statVars, procVars, Types,
             TypeOK, IoPCs, RdPCs, IO, RD
<1>3. Awaited'
  BY <1>a, <1>b DEF schedVars, ioVars, semVars, statVars, procVars, Types, TypeOK, Owner,
     IoWants, RdWants, Awaited, IO, RD
<1>4. Window'
  BY <1>a, <1>b, WindowKept DEF schedVars, ioVars, semVars, statVars, procVars, Types, TypeOK,
     Owner, IoWants, RdWants, Window, Hanging, Filling, InHand, IO, RD
<1>5. Grows'
  BY <1>a, <1>b, GrowsKept DEF schedVars, ioVars, semVars, statVars, procVars, Types, TypeOK,
     Owner, IoWants, RdWants, Awaited, Arrived, IO, RD
<1>6. NoLogicError'
  BY <1>a, <1>b DEF schedVars, ioVars, semVars, statVars, procVars, NoLogicError
<1>7. BuffersConserved'
  BY <1>a, <1>b, <1>2, BuffersKept DEF schedVars, ioVars, semVars, statVars, procVars, Types,
     TypeOK, InHand
<1> QED BY <1>1, <1>2, <1>3, <1>4, <1>5, <1>6, <1>7

LEMMA LookAgainOK == ASSUME IInv, LookAgain PROVE IInv'
<1> USE CtcReadAssumption DEF IInv
<1>a. len[avail] # 0
  <2>1. Filled > 0 /\ Filled \in Int
    BY WindowLengths DEF Window, LookAgain
  <2>2. avail \in Slots /\ Ahead(avail) < Filled
    BY <2>1, AheadOfAvail
  <2>3. len[avail] = 1
    BY <2>2 DEF Window
  <2> QED BY <2>3
<1>b. /\ rpc = "again" /\ rpc' = "copy" /\ cur = RD /\ panic = "none"
      /\ UNCHANGED <<schedVars, ioVars, semVars, free, statVars, ipc, bufndx, narr, got, panic>>
  BY <1>a DEF LookAgain, Runs
<1>1. Owner'
  BY <1>b DEF schedVars, ioVars, semVars, statVars, procVars, Types, TypeOK, IoPCs, RdPCs,
     Owner, IoWants, RdWants, Awaited, IO, RD
<1>2. Types'
  <2>1. (sem' \in {0, 1} /\ semq' = <<>>) \/ (sem' = -1 /\ semq' = <<IO>>)
    BY <1>1 DEF Owner
  <2>2. sem' \in -1..1 /\ semq' \in Seq({IO, RD})
    BY <2>1, SemTypes
  <2> QED BY <1>b, <2>2 DEF schedVars, ioVars, semVars, statVars, procVars, Types, TypeOK,
             IoPCs, RdPCs, IO, RD
<1>3. Awaited'
  BY <1>b DEF schedVars, ioVars, semVars, statVars, procVars, Types, TypeOK, Owner, IoWants,
     RdWants, Awaited, IO, RD
<1>4. Window'
  BY <1>b, WindowKept DEF schedVars, ioVars, semVars, statVars, procVars, Types, TypeOK,
     Owner, IoWants, RdWants, Window, Hanging, Filling, InHand, IO, RD
<1>5. Grows'
  BY <1>b, GrowsKept DEF schedVars, ioVars, semVars, statVars, procVars, Types, TypeOK, Owner,
     IoWants, RdWants, Awaited, Arrived, IO, RD
<1>6. NoLogicError'
  BY <1>b DEF schedVars, ioVars, semVars, statVars, procVars, NoLogicError
<1>7. BuffersConserved'
  BY <1>b, <1>2, BuffersKept DEF schedVars, ioVars, semVars, statVars, procVars, Types,
     TypeOK, InHand
<1> QED BY <1>1, <1>2, <1>3, <1>4, <1>5, <1>6, <1>7

LEMMA ReleaseOK == ASSUME IInv, Release PROVE IInv'
<1> USE CtcReadAssumption DEF IInv
<1>a. /\ rpc = "release" /\ rpc' = "idle" /\ cur = RD /\ panic = "none"
      /\ UNCHANGED <<ioVars, free, statVars, ipc, bufndx, narr, got, panic>>
  BY DEF Release, Runs
<1>b. \/ ~IoWants /\ sem' = 1 /\ semq' = <<>> /\ UNCHANGED <<cur, st>>
      \/ IoWants /\ sem' = 0 /\ semq' = <<>> /\ cur' = "hook" /\ st' = [st EXCEPT ![IO] = "ready"]
  BY <1>a, RdSignals DEF Release, RdWants
<1>1. Owner'
  BY <1>a, <1>b DEF schedVars, ioVars, semVars, statVars, procVars, Types, TypeOK, IoPCs,
     RdPCs, Owner, IoWants, RdWants, Awaited, IO, RD
<1>2. Types'
  <2>1. (sem' \in {0, 1} /\ semq' = <<>>) \/ (sem' = -1 /\ semq' = <<IO>>)
    BY <1>1 DEF Owner
  <2>2. sem' \in -1..1 /\ semq' \in Seq({IO, RD})
    BY <2>1, SemTypes
  <2> QED BY <1>a, <1>b, <2>2 DEF schedVars, ioVars, semVars, statVars, procVars, Types,
             TypeOK, IoPCs, RdPCs, IO, RD
<1>3. Awaited'
  BY <1>a, <1>b DEF schedVars, ioVars, semVars, statVars, procVars, Types, TypeOK, Owner,
     IoWants, RdWants, Awaited, IO, RD
<1>4. Window'
  BY <1>a, <1>b, WindowKept DEF schedVars, ioVars, semVars, statVars, procVars, Types, TypeOK,
     Owner, IoWants, RdWants, Window, Hanging, Filling, InHand, IO, RD
<1>5. Grows'
  BY <1>a, <1>b, GrowsKept DEF schedVars, ioVars, semVars, statVars, procVars, Types, TypeOK,
     Owner, IoWants, RdWants, Awaited, Arrived, IO, RD
<1>6. NoLogicError'
  BY <1>a, <1>b DEF schedVars, ioVars, semVars, statVars, procVars, NoLogicError
<1>7. BuffersConserved'
  BY <1>a, <1>b, <1>2, BuffersKept DEF schedVars, ioVars, semVars, statVars, procVars, Types,
     TypeOK, InHand
<1> QED BY <1>1, <1>2, <1>3, <1>4, <1>5, <1>6, <1>7

LEMMA RefuseOK == ASSUME IInv, Refuse PROVE IInv'
<1> USE CtcReadAssumption DEF IInv
<1>a. /\ rpc = "copy" /\ rpc' = "refused" /\ cur = RD /\ panic = "none"
      /\ UNCHANGED <<ioVars, free, statVars, ipc, bufndx, narr, got, panic>>
  BY DEF Refuse, Runs
<1>b. \/ ~IoWants /\ sem' = 1 /\ semq' = <<>> /\ UNCHANGED <<cur, st>>
      \/ IoWants /\ sem' = 0 /\ semq' = <<>> /\ cur' = "hook" /\ st' = [st EXCEPT ![IO] = "ready"]
  BY <1>a, RdSignals DEF Refuse, RdWants
<1>1. Owner'
  BY <1>a, <1>b DEF schedVars, ioVars, semVars, statVars, procVars, Types, TypeOK, IoPCs,
     RdPCs, Owner, IoWants, RdWants, Awaited, IO, RD
<1>2. Types'
  <2>1. (sem' \in {0, 1} /\ semq' = <<>>) \/ (sem' = -1 /\ semq' = <<IO>>)
    BY <1>1 DEF Owner
  <2>2. sem' \in -1..1 /\ semq' \in Seq({IO, RD})
    BY <2>1, SemTypes
  <2> QED BY <1>a, <1>b, <2>2 DEF schedVars, ioVars, semVars, statVars, procVars, Types,
             TypeOK, IoPCs, RdPCs, IO, RD
<1>3. Awaited'
  BY <1>a, <1>b DEF schedVars, ioVars, semVars, statVars, procVars, Types, TypeOK, Owner,
     IoWants, RdWants, Awaited, IO, RD
<1>4. Window'
  BY <1>a, <1>b, WindowKept DEF schedVars, ioVars, semVars, statVars, procVars, Types, TypeOK,
     Owner, IoWants, RdWants, Window, Hanging, Filling, InHand, IO, RD
<1>5. Grows'
  BY <1>a, <1>b, GrowsKept DEF schedVars, ioVars, semVars, statVars, procVars, Types, TypeOK,
     Owner, IoWants, RdWants, Awaited, Arrived, IO, RD
<1>6. NoLogicError'
  BY <1>a, <1>b DEF schedVars, ioVars, semVars, statVars, procVars, NoLogicError
<1>7. BuffersConserved'
  BY <1>a, <1>b, <1>2, BuffersKept DEF schedVars, ioVars, semVars, statVars, procVars, Types,
     TypeOK, InHand
<1> QED BY <1>1, <1>2, <1>3, <1>4, <1>5, <1>6, <1>7

LEMMA NetprocEndsOK == ASSUME IInv, NetprocEnds PROVE IInv'
<1> USE CtcReadAssumption DEF IInv
<1>1. Owner'
  BY DEF NetprocEnds, Runs, Resched, schedVars, ioVars, semVars, statVars, procVars, Types,
     TypeOK, IoPCs, RdPCs, Owner, IoWants, RdWants, Awaited, IO, RD
<1>2. Types'
  <2>1. (sem' \in {0, 1} /\ semq' = <<>>) \/ (sem' = -1 /\ semq' = <<IO>>)
    BY <1>1 DEF Owner
  <2>2. sem' \in -1..1 /\ semq' \in Seq({IO, RD})
    BY <2>1, SemTypes
  <2> QED BY <2>2 DEF NetprocEnds, Runs, Resched, schedVars, ioVars, semVars, statVars,
             procVars, Types, TypeOK, IoPCs, RdPCs, IO, RD
<1>3. Awaited'
  BY DEF NetprocEnds, Runs, Resched, schedVars, ioVars, semVars, statVars, procVars, Types,
     TypeOK, Owner, IoWants, RdWants, Awaited, IO, RD
<1>4. Window'
  BY WindowKept DEF NetprocEnds, Runs, Resched, schedVars, ioVars, semVars, statVars,
     procVars, Types, TypeOK, Owner, IoWants, RdWants, Window, Hanging, Filling, InHand, IO, RD
<1>5. Grows'
  BY GrowsKept DEF NetprocEnds, Runs, Resched, schedVars, ioVars, semVars, statVars,
     procVars, Types, TypeOK, Owner, IoWants, RdWants, Awaited, Arrived, IO, RD
<1>6. NoLogicError'
  BY DEF NetprocEnds, Runs, Resched, schedVars, ioVars, semVars, statVars, procVars,
     NoLogicError
<1>7. BuffersConserved'
  BY <1>2, BuffersKept DEF NetprocEnds, Runs, Resched, schedVars, ioVars, semVars, statVars,
     procVars, Types, TypeOK, InHand
<1> QED BY <1>1, <1>2, <1>3, <1>4, <1>5, <1>6, <1>7

LEMMA GetBufOK == ASSUME IInv, GetBuf PROVE IInv'
<1> USE CtcReadAssumption DEF IInv
<1>a. /\ free \in Int /\ InHand \in Int /\ ipc = "getbuf" /\ ipc' \in {"lock", "nobuf"}
      /\ \/ free' = free - 1 /\ InHand' = InHand + 1
         \/ free' = free /\ InHand' = InHand
  BY DEF GetBuf, InHand, Types, TypeOK
<1>b. Hanging' = Hanging
  BY <1>a DEF Hanging
<1>1. Owner'
  BY DEF GetBuf, Runs, Resched, schedVars, ioVars, semVars, statVars, procVars, Types, TypeOK,
     IoPCs, RdPCs, Owner, IoWants, RdWants, Awaited, IO, RD
<1>2. Types'
  <2>1. (sem' \in {0, 1} /\ semq' = <<>>) \/ (sem' = -1 /\ semq' = <<IO>>)
    BY <1>1 DEF Owner
  <2>2. sem' \in -1..1 /\ semq' \in Seq({IO, RD})
    BY <2>1, SemTypes
  <2> QED BY <2>2 DEF GetBuf, Runs, Resched, schedVars, ioVars, semVars, statVars, procVars,
             Types, TypeOK, IoPCs, RdPCs, IO, RD
<1>3. Awaited'
  BY DEF GetBuf, Runs, Resched, schedVars, ioVars, semVars, statVars, procVars, Types, TypeOK,
     Owner, IoWants, RdWants, Awaited, IO, RD
<1>4. Window'
  BY <1>a, <1>b, WindowKept DEF GetBuf, statVars, schedVars, Filling, Window, Types, TypeOK,
     IO, RD
<1>5. Grows'
  BY GrowsKept DEF GetBuf, Runs, Resched, schedVars, ioVars, semVars, statVars, procVars,
     Types, TypeOK, Owner, IoWants, RdWants, Awaited, Arrived, IO, RD
<1>6. NoLogicError'
  BY DEF GetBuf, Runs, Resched, schedVars, ioVars, semVars, statVars, procVars, NoLogicError
<1>7. BuffersConserved'
  <2>1. free' + InHand' = free + InHand
    BY <1>a
  <2> QED BY <1>2, <2>1, BuffersKept DEF GetBuf, statVars, Types
<1> QED BY <1>1, <1>2, <1>3, <1>4, <1>5, <1>6, <1>7

LEMMA FreeBufOK == ASSUME IInv, FreeBuf PROVE IInv'
<1> USE CtcReadAssumption DEF IInv
<1>a. free < CTC_READBUFS
  BY DEF FreeBuf, Types, TypeOK, Window, Hanging, InHand
<1>b. Hanging' = Hanging /\ free' + InHand' = free + InHand
  BY DEF Hanging, InHand, FreeBuf, Types, TypeOK, schedVars
<1>1. Owner'
  BY <1>a, <1>b DEF FreeBuf, Runs, Resched, schedVars, ioVars, semVars, statVars, procVars,
     Types, TypeOK, IoPCs, RdPCs, Owner, IoWants, RdWants, Awaited, IO, RD
<1>2. Types'
  <2>1. (sem' \in {0, 1} /\ semq' = <<>>) \/ (sem' = -1 /\ semq' = <<IO>>)
    BY <1>1 DEF Owner
  <2>2. sem' \in -1..1 /\ semq' \in Seq({IO, RD})
    BY <2>1, SemTypes
  <2> QED BY <1>a, <1>b, <2>2 DEF FreeBuf, Runs, Resched, schedVars, ioVars, semVars,
             statVars, procVars, Types, TypeOK, IoPCs, RdPCs, IO, RD
<1>3. Awaited'
  BY <1>a, <1>b DEF FreeBuf, Runs, Resched, schedVars, ioVars, semVars, statVars, procVars,
     Types, TypeOK, Owner, IoWants, RdWants, Awaited, IO, RD
<1>4. Window'
  BY <1>a, <1>b, WindowKept DEF FreeBuf, Runs, Resched, schedVars, ioVars, semVars, statVars,
     procVars, Types, TypeOK, Owner, IoWants, RdWants, Window, Hanging, Filling, InHand, IO, RD
<1>5. Grows'
  BY <1>a, <1>b, GrowsKept DEF FreeBuf, Runs, Resched, schedVars, ioVars, semVars, statVars,
     procVars, Types, TypeOK, Owner, IoWants, RdWants, Awaited, Arrived, IO, RD
<1>6. NoLogicError'
  BY <1>a, <1>b DEF FreeBuf, Runs, Resched, schedVars, ioVars, semVars, statVars, procVars,
     NoLogicError
<1>7. BuffersConserved'
  BY <1>a, <1>b, <1>2, BuffersKept DEF FreeBuf, Runs, Resched, schedVars, ioVars, semVars,
     statVars, procVars, Types, TypeOK, InHand
<1> QED BY <1>1, <1>2, <1>3, <1>4, <1>5, <1>6, <1>7

LEMMA PublishOK == ASSUME IInv, Publish PROVE IInv'
<1> USE CtcReadAssumption DEF IInv
<1>a. /\ ipc = "publish" /\ ipc' = "tell" /\ cur = IO /\ panic = "none"
      /\ len' = [len EXCEPT ![bufndx] = 1]
      /\ UNCHANGED <<ioVars, free, buf, hung, avail, pseg, userpid, bufndx, rpc, narr, got, panic>>
  BY DEF Publish, Runs
<1>b. ~RdWants /\ sem' = 1 /\ semq' = <<>> /\ UNCHANGED <<cur, st>>
  BY <1>a, IoSignals DEF Publish, IoWants
<1>1. Owner'
  BY <1>a, <1>b DEF schedVars, ioVars, semVars, statVars, procVars, Types, TypeOK, IoPCs,
     RdPCs, Owner, IoWants, RdWants, Awaited, IO, RD
<1>2. Types'
  <2>1. (sem' \in {0, 1} /\ semq' = <<>>) \/ (sem' = -1 /\ semq' = <<IO>>)
    BY <1>1 DEF Owner
  <2>2. sem' \in -1..1 /\ semq' \in Seq({IO, RD})
    BY <2>1, SemTypes
  <2> QED BY <1>a, <1>b, <2>2 DEF schedVars, ioVars, semVars, statVars, procVars, Types,
             TypeOK, IoPCs, RdPCs, IO, RD
<1>3. Awaited'
  BY <1>a, <1>b DEF schedVars, ioVars, semVars, statVars, procVars, Types, TypeOK, Owner,
     IoWants, RdWants, Awaited, IO, RD
<1>4. Window'
  <2>1. /\ Hanging' = Hanging /\ Filled = Hanging - 1 /\ Filled' = Hanging /\ Ahead(bufndx) = Hanging - 1
        /\ Hanging \in 0..CTC_READBUFS /\ bufndx \in Slots
    BY <1>a DEF Window, Hanging, Filled, Filling, InHand, Types, TypeOK
  <2>2. \A i \in Slots : Ahead(i) \in Int /\ (i = bufndx <=> Ahead(i) = Hanging - 1)
    BY <2>1, AheadOrder
  <2>3. \A i \in Slots : Ahead(i)' = Ahead(i)
    BY <1>a DEF Ahead
  <2>4. \A i \in Slots : (hung[i] <=> Ahead(i) < Hanging)'
    BY <1>a, <2>1, <2>3 DEF Window
  <2>5. \A i \in Slots : (len[i] = 1 <=> Ahead(i) < Filled)'
    BY <1>a, <2>1, <2>2, <2>3 DEF Window, Types
  <2>6. \A i \in Slots : (buf[i] # <<>> <=> Ahead(i) < Filled + (IF ipc = "publish" THEN 1 ELSE 0))'
    BY <1>a, <2>1, <2>2, <2>3 DEF Window
  <2>7. (Ahead(bufndx) = Hanging - 1)'
    BY <1>a, <2>1 DEF Ahead
  <2>8. (rpc = "copy" \/ rpc = "again" \/ (rpc = "woken" /\ st[RD] # "susp") \/ pseg # 0)' => Filled' > 0
    BY <1>a, <1>b, <2>1, AheadOrder
  <2>9. (pseg <= Len(buf[avail]))'
    BY <1>a DEF Window
  <2> QED BY <1>a, <2>1, <2>4, <2>5, <2>6, <2>7, <2>8, <2>9 DEF Window
<1>5. Grows'
  BY <1>a, <1>b, GrowsKept DEF schedVars, ioVars, semVars, statVars, procVars, Types, TypeOK,
     Owner, IoWants, RdWants, Awaited, Arrived, IO, RD
<1>6. NoLogicError'
  BY <1>a, <1>b DEF schedVars, ioVars, semVars, statVars, procVars, NoLogicError
<1>7. BuffersConserved'
  BY <1>a, <1>b, <1>2, BuffersKept DEF schedVars, ioVars, semVars, statVars, procVars, Types,
     TypeOK, InHand
<1> QED BY <1>1, <1>2, <1>3, <1>4, <1>5, <1>6, <1>7

LEMMA TellOK == ASSUME IInv, Tell PROVE IInv'
<1> USE CtcReadAssumption DEF IInv
<1>a. /\ ipc = "tell" /\ ipc' = "getbuf" /\ cur = IO /\ panic = "none"
      /\ bufndx' = (bufndx + 1) % CTC_READBUFS /\ bufndx' \in Slots
      /\ UNCHANGED <<ioVars, semVars, free, statVars, rpc, narr, got, panic>>
  BY NextSlot DEF Tell, Runs, Types, TypeOK
<1>b. \/ UNCHANGED <<cur, st>>
      \/ st' = [st EXCEPT ![RD] = "ready"] /\ cur' = "hook"
  BY DEF Tell, Resched, schedVars
<1>1. Owner'
  BY <1>a, <1>b DEF schedVars, ioVars, semVars, statVars, procVars, Types, TypeOK, IoPCs,
     RdPCs, Owner, IoWants, RdWants, Awaited, IO, RD
<1>2. Types'
  <2>1. (sem' \in {0, 1} /\ semq' = <<>>) \/ (sem' = -1 /\ semq' = <<IO>>)
    BY <1>1 DEF Owner
  <2>2. sem' \in -1..1 /\ semq' \in Seq({IO, RD})
    BY <2>1, SemTypes
  <2> QED BY <1>a, <1>b, <2>2 DEF schedVars, ioVars, semVars, statVars, procVars, Types,
             TypeOK, IoPCs, RdPCs, IO, RD
<1>3. Awaited'
  BY <1>a, <1>b DEF schedVars, ioVars, semVars, statVars, procVars, Types, TypeOK, Owner,
     IoWants, RdWants, Awaited, IO, RD
<1>4. Window'
  <2>1. /\ Hanging' = Hanging /\ Filled = Hanging /\ Filled' = Hanging /\ Ahead(bufndx) = Hanging - 1
        /\ Hanging \in 0..CTC_READBUFS /\ bufndx \in Slots /\ ~Filling'
    BY <1>a DEF Window, Hanging, Filled, Filling, InHand, Types, TypeOK
  <2>2. \A i \in Slots : Ahead(i)' = Ahead(i)
    BY <1>a DEF Ahead, statVars
  <2>3. Ahead(bufndx)' = Ahead((bufndx + 1) % CTC_READBUFS)
    BY <1>a DEF Ahead, statVars
  <2>4. Hanging > 0 /\ Ahead(bufndx)' = IF Hanging = CTC_READBUFS THEN 0 ELSE Hanging
    BY <2>1, <2>3, AheadOrder
  <2>5. \A i \in Slots : (hung[i] <=> Ahead(i) < Hanging)' /\ (len[i] = 1 <=> Ahead(i) < Filled)'
    BY <1>a, <2>1, <2>2 DEF Window, statVars
  <2>6. \A i \in Slots : (buf[i] # <<>> <=> Ahead(i) < Filled + (IF ipc = "publish" THEN 1 ELSE 0))'
    BY <1>a, <2>1, <2>2 DEF Window, statVars
  <2>7. (pseg <= Len(buf[avail]))'
    BY <1>a DEF Window, statVars
  <2> QED BY <1>a, <2>1, <2>4, <2>5, <2>6, <2>7 DEF Window
<1>5. Grows'
  BY <1>a, <1>b, GrowsKept DEF schedVars, ioVars, semVars, statVars, procVars, Types, TypeOK,
     Owner, IoWants, RdWants, Awaited, Arrived, IO, RD
<1>6. NoLogicError'
  BY <1>a, <1>b DEF schedVars, ioVars, semVars, statVars, procVars, NoLogicError
<1>7. BuffersConserved'
  BY <1>a, <1>b, <1>2, BuffersKept DEF schedVars, ioVars, semVars, statVars, procVars, Types,
     TypeOK, InHand
<1> QED BY <1>1, <1>2, <1>3, <1>4, <1>5, <1>6, <1>7

LEMMA ChannelEndOK == ASSUME IInv, ChannelEnd PROVE IInv'
<1> USE CtcReadAssumption DEF IInv
<1>1. Owner'
  BY DEF ChannelEnd, Runs, Resched, schedVars, ioVars, semVars, statVars, procVars, Types,
     TypeOK, IoPCs, RdPCs, Owner, IoWants, RdWants, Awaited, IO, RD
<1>2. Types'
  <2>1. chan' \in Seq(Nat) /\ narr' \in Nat
    <3>1. PICK n \in SegCounts : chan' = [k \in 1..n |-> narr + k] /\ narr' = narr + n
      BY DEF ChannelEnd
    <3>2. n \in Nat /\ narr \in Nat
      BY DEF Types
    <3> QED BY <3>1, <3>2
  <2>2. cur' = cur /\ st' = st /\ UNCHANGED <<semVars, free, statVars, procVars, got>> /\ io' = "complete" /\ ioerr' \in BOOLEAN
    BY DEF ChannelEnd, schedVars
  <2> QED BY <2>1, <2>2 DEF Types, TypeOK, semVars, statVars, procVars
<1>3. Awaited'
  BY DEF ChannelEnd, Runs, Resched, schedVars, ioVars, semVars, statVars, procVars, Types,
     TypeOK, Owner, IoWants, RdWants, Awaited, IO, RD
<1>4. Window'
  BY WindowKept DEF ChannelEnd, Runs, Resched, schedVars, ioVars, semVars, statVars, procVars,
     Types, TypeOK, Owner, IoWants, RdWants, Window, Hanging, Filling, InHand, IO, RD
<1>5. Grows'
  <2>1. PICK n \in SegCounts : chan' = [k \in 1..n |-> narr + k] /\ narr' = narr + n
    BY DEF ChannelEnd
  <2>2. n \in Nat \ {0} /\ narr \in Nat
    BY DEF Types
  <2>3. UNCHANGED <<got, buf, avail, pseg>>
    BY DEF ChannelEnd, statVars
  <2>4. InOrder' /\ SlotsGrow' /\ GotFirst'
    BY <2>3 DEF Grows, InOrder, SlotsGrow, GotFirst, From, Ahead
  <2>5. /\ \A m \in DOMAIN got : got[m] \in Nat /\ got[m] <= narr
        /\ \A i \in Slots : \A k \in DOMAIN buf[i] : buf[i][k] \in Nat /\ buf[i][k] <= narr
    BY DEF Grows, Bounded, Types
  <2>6. Bounded'
    BY <2>1, <2>2, <2>3, <2>5 DEF Bounded
  <2>7. chan' # <<>> /\ DOMAIN chan' = 1..n /\ \A k \in 1..n : chan'[k] = narr + k
    BY <2>1, <2>2
  <2>8. ChanLast'
    BY <2>1, <2>2, <2>3, <2>5, <2>7 DEF ChanLast
  <2> QED BY <2>4, <2>6, <2>8 DEF Grows
<1>6. NoLogicError'
  BY DEF ChannelEnd, Runs, Resched, schedVars, ioVars, semVars, statVars, procVars,
     NoLogicError
<1>7. BuffersConserved'
  BY <1>2, BuffersKept DEF ChannelEnd, Runs, Resched, schedVars, ioVars, semVars, statVars,
     procVars, Types, TypeOK, InHand
<1> QED BY <1>1, <1>2, <1>3, <1>4, <1>5, <1>6, <1>7

LEMMA StartReadOK == ASSUME IInv, StartRead PROVE IInv'
<1> USE CtcReadAssumption DEF IInv
<1>a. /\ ipc = "start" /\ cur = IO /\ panic = "none"
      /\ UNCHANGED <<ioerr, chan, free, buf, avail, pseg, userpid, bufndx, rpc, narr, got>>
  BY DEF StartRead, Runs
<1>b. Hanging < CTC_READBUFS /\ Ahead(bufndx) = Hanging
  BY <1>a DEF Window, Hanging, InHand, Filling, Types, TypeOK
<1>c. ~hung[bufndx]
  BY <1>b, WindowLengths DEF Window, Types, TypeOK
<1>d. /\ hung' = [hung EXCEPT ![bufndx] = TRUE] /\ len' = [len EXCEPT ![bufndx] = 0]
      /\ io' = "pend" /\ ipc' = "suspend" /\ panic' = panic /\ SignalSem
  BY <1>c DEF StartRead
<1>f. InHand' = InHand - 1 /\ InHand \in Int
  BY <1>a, <1>d DEF InHand
<1>e. ~RdWants /\ sem' = 1 /\ semq' = <<>> /\ UNCHANGED <<cur, st>>
  BY <1>a, <1>d, IoSignals DEF IoWants
<1>1. Owner'
  BY <1>a, <1>d, <1>e DEF schedVars, ioVars, semVars, statVars, procVars, Types, TypeOK,
     IoPCs, RdPCs, Owner, IoWants, RdWants, Awaited, IO, RD
<1>2. Types'
  <2>1. (sem' \in {0, 1} /\ semq' = <<>>) \/ (sem' = -1 /\ semq' = <<IO>>)
    BY <1>1 DEF Owner
  <2>2. sem' \in -1..1 /\ semq' \in Seq({IO, RD})
    BY <2>1, SemTypes
  <2> QED BY <1>a, <1>d, <1>e, <2>2 DEF schedVars, ioVars, semVars, statVars, procVars, Types,
             TypeOK, IoPCs, RdPCs, IO, RD
<1>3. Awaited'
  BY <1>a, <1>d, <1>e DEF schedVars, ioVars, semVars, statVars, procVars, Types, TypeOK,
     Owner, IoWants, RdWants, Awaited, IO, RD
<1>4. Window'
  <2>1. /\ Hanging' = Hanging + 1 /\ Filled = Hanging /\ Filled' = Hanging /\ Filling'
        /\ Hanging \in 0..CTC_READBUFS /\ bufndx \in Slots
    BY <1>a, <1>d, <1>f DEF Window, Hanging, Filled, Filling, Types, TypeOK
  <2>2. \A i \in Slots : Ahead(i) \in Int /\ (i = bufndx <=> Ahead(i) = Hanging)
    BY <1>b, <2>1, AheadOrder
  <2>3. \A i \in Slots : Ahead(i)' = Ahead(i)
    BY <1>a DEF Ahead
  <2>4. \A i \in Slots : (hung[i] <=> Ahead(i) < Hanging)'
    BY <1>d, <2>1, <2>2, <2>3 DEF Window, Types
  <2>5. \A i \in Slots : (len[i] = 1 <=> Ahead(i) < Filled)'
    BY <1>d, <2>1, <2>2, <2>3 DEF Window, Types
  <2>6. \A i \in Slots : (buf[i] # <<>> <=> Ahead(i) < Filled + (IF ipc = "publish" THEN 1 ELSE 0))'
    BY <1>a, <1>d, <2>1, <2>2, <2>3 DEF Window
  <2>7. (Ahead(bufndx) = Hanging - 1)'
    BY <1>a, <1>b, <2>1 DEF Ahead
  <2>8. (rpc = "copy" \/ rpc = "again" \/ (rpc = "woken" /\ st[RD] # "susp") \/ pseg # 0)' => Filled' > 0
    BY <1>a, <1>e, <2>1 DEF Window
  <2>9. (pseg <= Len(buf[avail]))'
    BY <1>a DEF Window
  <2> QED BY <1>b, <2>1, <2>4, <2>5, <2>6, <2>7, <2>8, <2>9 DEF Window
<1>5. Grows'
  BY <1>a, <1>d, <1>e, GrowsKept DEF schedVars, ioVars, semVars, statVars, procVars, Types,
     TypeOK, Owner, IoWants, RdWants, Awaited, Arrived, IO, RD
<1>6. NoLogicError'
  BY <1>a, <1>d, <1>e DEF schedVars, ioVars, semVars, statVars, procVars, NoLogicError
<1>7. BuffersConserved'
  <2> DEFINE H == {i \in Slots : hung[i]}
  <2>1. H' = H \cup {bufndx} /\ bufndx \notin H
    BY <1>c, <1>d DEF Types, TypeOK
  <2>2. IsFiniteSet(H)
    <3>1. IsFiniteSet(Slots)
      BY FS_Interval DEF Slots
    <3> QED BY <3>1, FS_Subset
  <2>3. Cardinality(H') = Cardinality(H) + 1 /\ Cardinality(H) \in Nat
    BY <2>1, <2>2, FS_AddElement, FS_CardinalityType
  <2> HIDE DEF H
  <2>4. free + InHand + Cardinality(H) = CTC_READBUFS /\ free \in Int
    BY DEF BuffersConserved, H, Types, TypeOK
  <2>5. free' + InHand' + Cardinality(H') = CTC_READBUFS
    BY <1>a, <1>f, <2>3, <2>4
  <2> QED BY <1>2, <2>5 DEF BuffersConserved, Types, H
<1> QED BY <1>1, <1>2, <1>3, <1>4, <1>5, <1>6, <1>7

LEMMA PostReadOK == ASSUME IInv, PostRead PROVE IInv'
<1> USE CtcReadAssumption DEF IInv
<1>a. CASE ioerr
  BY <1>a, Frame DEF PostRead, schedVars, ioVars, semVars
<1>0. CASE ~ioerr
 <2>a. /\ ipc = "post" /\ ipc' = "publish" /\ cur = IO /\ panic = "none" /\ io = "none" /\ st[IO] = "ready"
       /\ ~IoWants /\ buf' = [buf EXCEPT ![bufndx] = chan]
       /\ UNCHANGED <<ioVars, free, hung, len, avail, pseg, userpid, bufndx, rpc, narr, got, panic>>
  BY <1>0 DEF PostRead, Runs, IoWants, Awaited, Owner
 <2>b. \/ ~RdWants /\ sem' = 0 /\ semq' = <<>> /\ UNCHANGED <<cur, st>>
       \/ RdWants /\ sem' = -1 /\ semq' = <<IO>> /\ cur' = "hook" /\ st' = [st EXCEPT ![IO] = "wait"]
  BY <1>0, <2>a, IoWaits DEF PostRead
 <2>1. Owner'
  BY <2>a, <2>b DEF schedVars, ioVars, semVars, statVars, procVars, Types, TypeOK, IoPCs,
     RdPCs, Owner, IoWants, RdWants, Awaited, IO, RD
 <2>2. Types'
  <3>1. (sem' \in {0, 1} /\ semq' = <<>>) \/ (sem' = -1 /\ semq' = <<IO>>)
    BY <2>1 DEF Owner
  <3>2. sem' \in -1..1 /\ semq' \in Seq({IO, RD})
    BY <3>1, SemTypes
  <3> QED BY <2>a, <2>b, <3>2 DEF schedVars, ioVars, semVars, statVars, procVars, Types,
             TypeOK, IoPCs, RdPCs, IO, RD
 <2>3. Awaited'
  BY <2>a, <2>b DEF schedVars, ioVars, semVars, statVars, procVars, Types, TypeOK, Owner,
     IoWants, RdWants, Awaited, IO, RD
 <2>4. Window'
   <3>1. /\ Hanging' = Hanging /\ Filled = Hanging - 1 /\ Filled' = Hanging - 1 /\ Ahead(bufndx) = Hanging - 1
         /\ Hanging \in 0..CTC_READBUFS /\ bufndx \in Slots /\ avail \in Slots /\ Filling'
     BY <2>a DEF Window, Hanging, Filled, Filling, InHand, Types, TypeOK
   <3>2. \A i \in Slots : Ahead(i) \in Int /\ (i = bufndx <=> Ahead(i) = Hanging - 1)
     BY <3>1, AheadOrder
   <3>3. \A i \in Slots : Ahead(i)' = Ahead(i)
     BY <2>a DEF Ahead
   <3>4. \A i \in Slots : (hung[i] <=> Ahead(i) < Hanging)' /\ (len[i] = 1 <=> Ahead(i) < Filled)'
     BY <2>a, <3>1, <3>3 DEF Window
   <3>5. chan # <<>>
     BY <2>a DEF Grows, ChanLast, Arrived
   <3>6. \A i \in Slots : (buf[i] # <<>> <=> Ahead(i) < Filled + (IF ipc = "publish" THEN 1 ELSE 0))'
     BY <2>a, <3>1, <3>2, <3>3, <3>5 DEF Window, Types
   <3>7. (Ahead(bufndx) = Hanging - 1)'
     BY <2>a, <3>1 DEF Ahead
   <3>8. (rpc = "copy" \/ rpc = "again" \/ (rpc = "woken" /\ st[RD] # "susp") \/ pseg # 0)' => Filled' > 0
     BY <2>a, <2>b, <3>1 DEF Window, Types, TypeOK, IO, RD
   <3>9. (pseg <= Len(buf[avail]))'
     <4>1. CASE avail = bufndx
       <5>1. pseg = 0
         BY <3>1, <4>1, AheadOfAvail DEF Window
       <5> QED BY <2>a, <3>1, <4>1, <5>1 DEF Types
     <4>2. CASE avail # bufndx
       BY <2>a, <3>1, <4>2 DEF Window, Types
     <4> QED BY <4>1, <4>2
   <3> QED BY <3>1, <3>4, <3>6, <3>7, <3>8, <3>9 DEF Window
 <2>5. Grows'
   <3> DEFINE old == buf[bufndx]
   <3>1. /\ Arrived /\ ~Arrived' /\ chan \in Seq(Nat) /\ bufndx \in Slots /\ buf \in [Slots -> Seq(Nat)]
     BY <2>a DEF Arrived, Types, TypeOK, ioVars
   <3>2. ChanLast' /\ InOrder'
     BY <2>a, <3>1 DEF ChanLast, Grows, InOrder
   <3>3. \A i \in Slots : buf'[i] = IF i = bufndx THEN chan ELSE buf[i]
     BY <2>a, <3>1
   <3>4. Bounded'
     BY <2>a, <3>1, <3>3 DEF Bounded, Grows, ChanLast
   <3>5. \A i \in Slots : Ahead(i) > Ahead(bufndx) => buf[i] = <<>>
     BY <2>a, AheadOrder, SMTT(40) DEF Window, Filled, Filling, Hanging, InHand, Types, TypeOK
   <3>6. \A i, j \in Slots : Ahead(i) < Ahead(j) =>
             \A k \in DOMAIN buf'[i], l \in DOMAIN buf'[j] : buf'[i][k] < buf'[j][l]
     <4> SUFFICES ASSUME NEW i \in Slots, NEW j \in Slots, Ahead(i) < Ahead(j),
                         NEW k \in DOMAIN buf'[i], NEW l \in DOMAIN buf'[j]
                  PROVE  buf'[i][k] < buf'[j][l]
       OBVIOUS
     <4>0. Ahead(i) \in Int /\ Ahead(j) \in Int
       BY AheadOrder
     <4>1. CASE j = bufndx
       <5>1. i # bufndx
         BY <4>0, <4>1
       <5>2. buf'[i] = buf[i] /\ buf'[j] = chan
         BY <3>3, <4>1, <5>1
       <5> QED BY <3>1, <5>2 DEF Grows, ChanLast
     <4>2. CASE i = bufndx
       BY <3>3, <3>5, <4>0, <4>2
     <4>3. CASE i # bufndx /\ j # bufndx
       BY <3>3, <4>3 DEF Grows, SlotsGrow
     <4> QED BY <4>1, <4>2, <4>3
   <3>7. SlotsGrow'
     BY <2>a, <3>1, <3>3, <3>6 DEF SlotsGrow, Grows, ChanLast, Ahead
   <3>8. GotFirst'
     BY <2>a, <3>1, <3>3 DEF GotFirst, Grows, ChanLast, From
   <3> QED BY <3>2, <3>4, <3>7, <3>8 DEF Grows
 <2>6. NoLogicError'
  BY <2>a, <2>b DEF schedVars, ioVars, semVars, statVars, procVars, NoLogicError
 <2>7. BuffersConserved'
  BY <2>a, <2>b, <2>2, BuffersKept DEF schedVars, ioVars, semVars, statVars, procVars, Types,
     TypeOK, InHand
 <2> QED BY <2>1, <2>2, <2>3, <2>4, <2>5, <2>6, <2>7
<1> QED BY <1>a, <1>0

LEMMA CopyOK == ASSUME IInv, Copy PROVE IInv'
<1> USE CtcReadAssumption DEF IInv
<1> DEFINE at == IF pseg = 0 THEN 1 ELSE pseg
           next == at + SegStep
           f == buf[avail][at]
<1>a. /\ rpc = "copy" /\ cur = RD /\ panic = "none" /\ Filled > 0 /\ Filled \in Int /\ avail \in Slots
      /\ UNCHANGED <<schedVars, ioVars, semVars, free, userpid, ipc, bufndx, narr>>
  BY AheadOfAvail, WindowLengths DEF Copy, Runs, Window
<1>b. hung[avail] /\ buf[avail] # <<>> /\ Ahead(avail) = 0
  BY <1>a, AheadOfAvail, WindowLengths DEF Window
<1>c. /\ buf[avail] \in Seq(Nat) /\ pseg \in Nat /\ at \in DOMAIN buf[avail] /\ f \in Nat /\ at = From(avail)
  BY <1>a, <1>b DEF Types, TypeOK, Window, From
<1>d. /\ panic' = panic /\ got' = Append(got, f)
      /\ \/ /\ next > Len(buf[avail]) /\ buf' = [buf EXCEPT ![avail] = <<>>]
            /\ hung' = [hung EXCEPT ![avail] = FALSE] /\ len' = [len EXCEPT ![avail] = 0]
            /\ pseg' = 0 /\ avail' = (avail + 1) % CTC_READBUFS /\ rpc' = "free"
         \/ /\ next <= Len(buf[avail]) /\ pseg' = next /\ rpc' = "release"
            /\ UNCHANGED <<buf, hung, len, avail>>
  BY <1>a, <1>b, <1>c DEF Copy, NULL
<1>e. next \in Nat /\ next > at /\ next # 0
  BY <1>c
<1> HIDE DEF at, next, f
<1>f. avail' \in Slots
  BY <1>a, <1>d, NextSlot
<1>g. /\ got \in Seq(Nat) /\ Len(got') = Len(got) + 1 /\ got'[Len(got) + 1] = f
      /\ \A m \in 1..Len(got) : got'[m] = got[m]
      /\ got' \in Seq(Nat) /\ DOMAIN got = 1..Len(got) /\ DOMAIN got' = 1..(Len(got) + 1)
  BY <1>c, <1>d DEF Types
<1>h. ipc # "tell"
  BY <1>a DEF Owner, Awaited, Types, TypeOK, IoWants, IO, RD
<1>1. Owner'
  BY <1>a, <1>d DEF schedVars, ioVars, semVars, statVars, procVars, Types, TypeOK, IoPCs,
     RdPCs, Owner, IoWants, RdWants, Awaited, IO, RD
<1>2. Types'
  <2>1. (sem' \in {0, 1} /\ semq' = <<>>) \/ (sem' = -1 /\ semq' = <<IO>>)
    BY <1>1 DEF Owner
  <2>2. sem' \in -1..1 /\ semq' \in Seq({IO, RD})
    BY <2>1, SemTypes
  <2>3. buf' \in [Slots -> Seq(Nat)] /\ hung' \in [Slots -> BOOLEAN] /\ len' \in [Slots -> {0, 1}] /\ pseg' \in Nat
    <3>1. <<>> \in Seq(Nat)
      OBVIOUS
    <3>2. buf' \in [Slots -> Seq(Nat)]
      BY <1>d, <3>1 DEF Types
    <3>3. hung' \in [Slots -> BOOLEAN] /\ len' \in [Slots -> {0, 1}]
      BY <1>d DEF Types
    <3>4. pseg' \in Nat
      BY <1>d, <1>e
    <3> QED BY <3>2, <3>3, <3>4
  <2>4. rpc' \in RdPCs
    BY <1>d DEF RdPCs
  <2>5. cur' = cur /\ st' = st /\ UNCHANGED <<ioVars, free, userpid, ipc, bufndx, narr>>
    BY <1>a DEF schedVars
  <2> QED BY <1>f, <1>g, <2>2, <2>3, <2>4, <2>5 DEF Types, TypeOK, ioVars
<1>3. Awaited'
  BY <1>a, <1>d DEF schedVars, ioVars, semVars, statVars, procVars, Types, TypeOK, Owner,
     IoWants, RdWants, Awaited, IO, RD
<1>4. Window'
  <2>0. Hanging \in 0..CTC_READBUFS /\ Filled = (IF Filling THEN Hanging - 1 ELSE Hanging) /\ bufndx \in Slots
    BY WindowLengths DEF Types, TypeOK
  <2>1. CASE next <= Len(buf[avail]) /\ pseg' = next /\ rpc' = "release" /\ UNCHANGED <<buf, hung, len, avail>>
    <3>1. Hanging' = Hanging /\ (Filling' <=> Filling)
      BY <1>a, <2>1 DEF Hanging, InHand, Filling
    <3>2. Filled' = Filled
      BY <3>1 DEF Filled
    <3>3. \A i \in Slots : Ahead(i)' = Ahead(i)
      BY <2>1 DEF Ahead
    <3>4. (Ahead(bufndx) = IF Filling \/ ipc = "tell" THEN Hanging - 1
                           ELSE IF Hanging = CTC_READBUFS THEN 0 ELSE Hanging)'
      BY <1>a, <2>1, <3>1 DEF Ahead, Window
    <3>5. \A i \in Slots : /\ (hung[i] <=> Ahead(i) < Hanging)' /\ (len[i] = 1 <=> Ahead(i) < Filled)'
                           /\ (buf[i] # <<>> <=> Ahead(i) < Filled + (IF ipc = "publish" THEN 1 ELSE 0))'
      BY <1>a, <2>1, <3>1, <3>2, <3>3 DEF Window
    <3> QED BY <1>a, <2>0, <2>1, <3>1, <3>2, <3>4, <3>5 DEF Window
  <2>2. CASE /\ next > Len(buf[avail]) /\ buf' = [buf EXCEPT ![avail] = <<>>]
             /\ hung' = [hung EXCEPT ![avail] = FALSE] /\ len' = [len EXCEPT ![avail] = 0]
             /\ pseg' = 0 /\ avail' = (avail + 1) % CTC_READBUFS /\ rpc' = "free"
    <3>1. Hanging' = Hanging - 1 /\ (Filling' <=> Filling)
      BY <1>a, <2>2 DEF Hanging, InHand, Filling, Types, TypeOK
    <3>2. Filled' = Filled - 1
      BY <2>0, <3>1 DEF Filled
    <3>3. \A i \in Slots : /\ Ahead(i) \in Nat /\ (i = avail <=> Ahead(i) = 0)
                           /\ Ahead(i)' = IF i = avail THEN CTC_READBUFS - 1 ELSE Ahead(i) - 1
      BY <2>2, AheadShift
    <3>4. (Ahead(bufndx) = IF Filling \/ ipc = "tell" THEN Hanging - 1
                           ELSE IF Hanging = CTC_READBUFS THEN 0 ELSE Hanging)'
      <4>1. Ahead(bufndx) = IF Filling THEN Hanging - 1 ELSE IF Hanging = CTC_READBUFS THEN 0 ELSE Hanging
        BY <1>h DEF Window
      <4>2. Ahead(bufndx)' = IF Ahead(bufndx) = 0 THEN CTC_READBUFS - 1 ELSE Ahead(bufndx) - 1
        <5>1. bufndx' = bufndx
          BY <1>a
        <5>2. \A i \in Slots : i = bufndx => (Ahead(i)' = Ahead(bufndx)' /\ Ahead(i) = Ahead(bufndx))
          BY <5>1 DEF Ahead
        <5> QED BY <2>0, <3>3, <5>2
      <4>3. ipc' = ipc
        BY <1>a
      <4> QED BY <1>a, <1>h, <2>0, <3>1, <4>1, <4>2, <4>3
    <3>5. \A i \in Slots : (hung[i] <=> Ahead(i) < Hanging)'
      BY <2>0, <2>2, <3>1, <3>3 DEF Window, Types
    <3>6. \A i \in Slots : (len[i] = 1 <=> Ahead(i) < Filled)'
      BY <2>0, <2>2, <3>2, <3>3, SMTT(40) DEF Window, Types
    <3>7. \A i \in Slots : (buf[i] # <<>> <=> Ahead(i) < Filled + (IF ipc = "publish" THEN 1 ELSE 0))'
      <4>1. Filled + (IF ipc = "publish" THEN 1 ELSE 0) <= CTC_READBUFS
        BY <2>0 DEF Filling
      <4>2. SUFFICES ASSUME NEW i \in Slots
                     PROVE  buf'[i] # <<>> <=> Ahead(i)' < Filled' + (IF ipc = "publish" THEN 1 ELSE 0)
        BY <1>a
      <4>3. buf'[i] = IF i = avail THEN <<>> ELSE buf[i]
        BY <2>2 DEF Types
      <4>4. buf[i] # <<>> <=> Ahead(i) < Filled + (IF ipc = "publish" THEN 1 ELSE 0)
        BY DEF Window
      <4> QED BY <1>a, <3>2, <3>3, <4>1, <4>3, <4>4
    <3>8. (pseg <= Len(buf[avail]))'
      BY <1>2, <2>2, SMTT(40) DEF Types, TypeOK
    <3> QED BY <1>a, <2>0, <2>2, <3>1, <3>4, <3>5, <3>6, <3>7, <3>8 DEF Window
  <2> QED BY <1>d, <2>1, <2>2
<1>5. Grows'
  <2>1. /\ \A m \in DOMAIN got : got[m] < f
        /\ \A i \in Slots : \A k \in DOMAIN buf[i] : Ahead(i) > 0 \/ (i = avail /\ k > at) => f < buf[i][k]
        /\ Arrived => \A k \in DOMAIN chan : f < chan[k]
        /\ f <= narr
    <3>1. \A m \in DOMAIN got : got[m] < f
      BY <1>a, <1>c DEF Grows, GotFirst, f
    <3>2. \A i \in Slots : \A k \in DOMAIN buf[i] : Ahead(i) > 0 => f < buf[i][k]
      BY <1>a, <1>b, <1>c, AheadOrder DEF Grows, SlotsGrow, f
    <3>3. \A k \in DOMAIN buf[avail] : k > at => f < buf[avail][k]
      BY <1>a, <1>c DEF Grows, SlotsGrow, f
    <3>4. Arrived => \A k \in DOMAIN chan : f < chan[k]
      BY <1>a, <1>c DEF Grows, ChanLast, f
    <3>5. f <= narr
      BY <1>a, <1>c DEF Grows, Bounded, f
    <3> QED BY <3>1, <3>2, <3>3, <3>4, <3>5
  <2>2. InOrder'
    <3> SUFFICES ASSUME NEW i \in 1..(Len(got) + 1), NEW j \in 1..(Len(got) + 1), i < j
                 PROVE  got'[i] < got'[j]
      BY <1>g DEF InOrder
    <3>1. CASE j = Len(got) + 1
      BY <1>g, <2>1, <3>1
    <3>2. CASE j # Len(got) + 1
      <4>1. i \in 1..Len(got) /\ j \in 1..Len(got)
        BY <1>g, <3>2
      <4> QED BY <1>g, <4>1 DEF InOrder, Grows
    <3> QED BY <3>1, <3>2
  <2>3. \A i \in Slots : buf'[i] = buf[i] \/ (i = avail /\ buf'[i] = <<>>)
    BY <1>a, <1>d DEF Types
  <2>4. \A i \in Slots : i # avail => From(i) = 1 /\ From(i)' = 1
    BY <1>d DEF From
  <2>5. Bounded'
    BY <1>a, <1>g, <2>1, <2>3 DEF Bounded, Grows
  <2>6. ChanLast'
    BY <1>a, <1>g, <2>1, <2>3, SMTT(40) DEF ChanLast, Grows, Arrived, ioVars, schedVars
  <2>7. GotFirst'
    <3> SUFFICES ASSUME NEW m \in 1..(Len(got) + 1), NEW i \in Slots, NEW k \in DOMAIN buf'[i], k >= From(i)'
                 PROVE  got'[m] < buf'[i][k]
      BY <1>g DEF GotFirst
    <3>1. buf'[i] = buf[i] /\ k \in DOMAIN buf[i] /\ k \in Nat
      BY <2>3 DEF Types
    <3>2. k >= From(i) /\ (i = avail => k > at)
      <4>1. CASE i = avail
        <5>1. pseg' = next /\ avail' = avail
          BY <1>b, <1>d, <2>3, <3>1, <4>1 DEF Types
        <5>2. From(i)' = next
          BY <1>e, <4>1, <5>1 DEF From
        <5> QED BY <1>c, <1>e, <3>1, <4>1, <5>2 DEF Types
      <4>2. CASE i # avail
        BY <2>4, <4>2
      <4> QED BY <4>1, <4>2
    <3>3. i # avail => Ahead(i) > 0
      BY <1>a, <1>b, AheadOrder
    <3>4. CASE m = Len(got) + 1
      BY <1>g, <2>1, <3>1, <3>2, <3>3, <3>4
    <3>5. CASE m # Len(got) + 1
      <4>1. m \in DOMAIN got /\ got'[m] = got[m]
        BY <1>g, <3>5
      <4>2. GotFirst
        BY DEF Grows
      <4>3. got[m] < buf[i][k]
        BY <3>1, <3>2, <4>1, <4>2, ZenonT(40) DEF GotFirst
      <4> QED BY <3>1, <4>1, <4>3, ZenonT(40)
    <3> QED BY <3>4, <3>5
  <2>8. SlotsGrow'
    <3>1. \A i \in Slots : \A k, l \in DOMAIN buf'[i] : k < l => buf'[i][k] < buf'[i][l]
      BY <2>3 DEF SlotsGrow, Grows
    <3>2. ASSUME NEW i \in Slots, NEW j \in Slots, Ahead(i)' < Ahead(j)',
                 NEW k \in DOMAIN buf'[i], NEW l \in DOMAIN buf'[j]
          PROVE  buf'[i][k] < buf'[j][l]
      <4>1. buf'[i] = buf[i] /\ buf'[j] = buf[j]
        BY <2>3, <3>2
      <4>2. Ahead(i) < Ahead(j)
        <5>1. CASE UNCHANGED avail
          BY <3>2, <5>1 DEF Ahead
        <5>2. CASE avail' = (avail + 1) % CTC_READBUFS /\ buf' = [buf EXCEPT ![avail] = <<>>]
          <6>1. i # avail /\ j # avail
            BY <3>2, <5>2 DEF Types
          <6> QED BY <3>2, <5>2, <6>1, AheadShift
        <5> QED BY <1>d, <5>1, <5>2
      <4> QED BY <3>2, <4>1, <4>2 DEF SlotsGrow, Grows
    <3> QED BY <3>1, <3>2 DEF SlotsGrow
  <2> QED BY <2>2, <2>5, <2>6, <2>7, <2>8 DEF Grows
<1>6. NoLogicError'
  BY <1>a, <1>d DEF schedVars, ioVars, semVars, statVars, procVars, NoLogicError
<1>7. BuffersConserved'
  <2> DEFINE H == {i \in Slots : hung[i]}
  <2>1. CASE rpc' = "release" /\ UNCHANGED hung
    <3>1. free' + InHand' = free + InHand
      BY <1>a, <2>1 DEF InHand
    <3> QED BY <1>2, <2>1, <3>1, BuffersKept DEF Types
  <2>2. CASE rpc' = "free" /\ hung' = [hung EXCEPT ![avail] = FALSE]
    <3>1. H' = H \ {avail} /\ avail \in H
      BY <1>a, <1>b, <2>2 DEF Types, TypeOK
    <3>2. IsFiniteSet(H)
      <4>1. IsFiniteSet(Slots)
        BY FS_Interval DEF Slots
      <4> QED BY <4>1, FS_Subset
    <3>3. Cardinality(H') = Cardinality(H) - 1 /\ Cardinality(H) \in Nat
      BY <3>1, <3>2, FS_RemoveElement, FS_CardinalityType, ZenonT(50)
    <3> HIDE DEF H
    <3>4. free + InHand + Cardinality(H) = CTC_READBUFS /\ free \in Int
      BY DEF BuffersConserved, H, Types, TypeOK
    <3>5. InHand' = InHand + 1 /\ InHand \in Int /\ free' = free
      BY <1>a, <2>2 DEF InHand
    <3>6. free' + InHand' + Cardinality(H') = CTC_READBUFS
      BY <3>3, <3>4, <3>5
    <3> QED BY <1>2, <3>6 DEF BuffersConserved, Types, H
  <2> QED BY <1>d, <2>1, <2>2
<1> QED BY <1>1, <1>2, <1>3, <1>4, <1>5, <1>6, <1>7

\* IInv is inductive.
LEMMA NextOK == ASSUME IInv, [Next]_vars PROVE IInv'
<1>1. CASE Next
  BY <1>1, HookOK, DispatchOK, OtherYieldsOK, ReaderYieldsOK, LockToStartOK,
     SuspendIOOK, CtciReadOK, SuspendReaderOK, WokenOK, LookOK, LookAgainOK,
     ReleaseOK, RefuseOK, NetprocEndsOK, GetBufOK, FreeBufOK, PublishOK, TellOK, ChannelEndOK,
     StartReadOK, PostReadOK, CopyOK DEF Next, Kernel, IoProcess, Reader
<1>2. CASE UNCHANGED vars
  BY <1>2, Frame DEF vars, schedVars, ioVars, semVars, statVars, procVars
<1> QED BY <1>1, <1>2

-----------------------------------------------------------------------------
(* The results.                                                            *)

\* The invariant holds in every reachable state.
THEOREM CtcReadInvariant == Spec => []IInv
<1>1. Init => IInv
  BY InitOK
<1>2. IInv /\ [Next]_vars => IInv'
  BY NextOK
<1> QED BY <1>1, <1>2, PTL DEF Spec

\* ctci_ioread and ctci_read never panic with one of their logic errors, for
\* any number of buffers: the slot to hang a buffer in is free, a resumed
\* reader finds its slot filled, and the slot it copies from has a buffer.
THEOREM NoLogicErrorCorrect == Spec => []NoLogicError
<1>1. IInv => NoLogicError
  BY DEF IInv
<1> QED BY <1>1, CtcReadInvariant, PTL

\* No read buffer is lost or hung twice, and every variable keeps its type.
THEOREM BuffersCorrect == Spec => []BuffersConserved
<1>1. IInv => BuffersConserved
  BY DEF IInv
<1> QED BY <1>1, CtcReadInvariant, PTL

\* ctci_read returns frames in the order the channel delivered them, none
\* twice, whatever the number of segments and the step between them.
THEOREM InOrderCorrect == Spec => []InOrder
<1>1. IInv => InOrder
  BY DEF IInv, Grows
<1> QED BY <1>1, CtcReadInvariant, PTL

=============================================================================

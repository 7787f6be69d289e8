------------------------------ MODULE CtcRead ------------------------------
(***************************************************************************)
(* The read half of a CTC: the I/O process ctci_ioread, the reader that    *)
(* calls ctci_read (netproc), the channel end appendage IGG019X8, and      *)
(* iohook(), which resched() calls.  The two processes share the slots of  *)
(* ctreadstat and the device semaphore.                                    *)
(*                                                                         *)
(* Scheduling is cooperative: cur runs until a call of it blocks or wakes  *)
(* somebody, then cur goes through "hook" (iohook) and "disp" (the choice  *)
(* of the next process).  The I/O process has priority 300 and the others  *)
(* 100, so it always goes first; "other" is any other process or the null  *)
(* process.  The appendage runs at any time.                               *)
(*                                                                         *)
(* A frame is a number, in order of arrival; a buffer is a sequence of     *)
(* frames.  All segments have one length, so a position in a buffer is the *)
(* index of a segment.                                                     *)
(***************************************************************************)
EXTENDS Integers, Sequences, SequencesExt, FiniteSets

CONSTANTS
    CTC_READBUFS,   \* buffers, and slots of ctreadstat
    SegStep,        \* segments that pseg += pseg->seglen advances by
    SegCounts,      \* segments the channel puts into a buffer
    Errors,         \* whether a read may end with an I/O error
    TooLong,        \* whether a frame may be longer than netproc's buffer
    MaxFrames       \* bound: frames that arrive

ASSUME CtcReadAssumption ==
    /\ CTC_READBUFS \in Nat \ {0} /\ SegStep \in Nat \ {0}
    /\ SegCounts \subseteq Nat \ {0} /\ MaxFrames \in Nat
    /\ Errors \in BOOLEAN /\ TooLong \in BOOLEAN

IO == "ioread"
RD == "reader"
Slots == 0..CTC_READBUFS-1
NULL == <<>>                    \* no buffer

VARIABLES
    cur, st,                    \* running process; "ready", "susp", "wait", "dead"
    io, ioerr, chan,            \* ctdev.flag1 and the outcome of the I/O
    sem, semq,                  \* the device semaphore
    free,                       \* buffers in the pool
    buf, hung, len,             \* ctreadstat: data, buf[] set, len[] set
    avail, pseg, userpid,       \* ctreadstat, ctdev
    ipc, bufndx, rpc,           \* where the processes stand
    narr, got,                  \* history: frames arrived, frames returned
    panic

schedVars == <<cur, st>>
ioVars == <<io, ioerr, chan>>
semVars == <<sem, semq>>
statVars == <<buf, hung, len, avail, pseg, userpid>>
procVars == <<ipc, bufndx, rpc>>
vars == <<schedVars, ioVars, semVars, free, statVars, procVars, narr, got, panic>>

\* after both processes are created and ctci_ioread has signalled the device
Init ==
    /\ cur = IO /\ st = [p \in {IO, RD} |-> "ready"]
    /\ io = "none" /\ ioerr = FALSE /\ chan = <<>>
    /\ sem = 1 /\ semq = <<>> /\ free = CTC_READBUFS
    /\ buf = [i \in Slots |-> NULL] /\ hung = [i \in Slots |-> FALSE]
    /\ len = [i \in Slots |-> 0]
    /\ avail = 0 /\ pseg = 0 /\ userpid = FALSE
    /\ ipc = "getbuf" /\ bufndx = 0 /\ rpc = "idle"
    /\ narr = 0 /\ got = <<>> /\ panic = "none"

Runs(p) == cur = p /\ panic = "none"
Resched == cur' = "hook"

\* wait(pctdev->sem) by p
WaitSem(p) ==
    /\ sem' = sem - 1
    /\ IF sem <= 0 THEN /\ semq' = Append(semq, p)
                        /\ st' = [st EXCEPT ![p] = "wait"] /\ Resched
                   ELSE UNCHANGED <<semq, st, cur>>

\* signal(pctdev->sem)
SignalSem ==
    /\ sem' = sem + 1
    /\ IF sem < 0 THEN /\ semq' = Tail(semq)
                       /\ st' = [st EXCEPT ![Head(semq)] = "ready"] /\ Resched
                  ELSE UNCHANGED <<semq, st, cur>>

-----------------------------------------------------------------------------
(* resched(): iohook, then the dispatch by priority.                       *)

\* Mutant of iohook(): the completion flag is left on and nobody resumed
HookForgets ==
    /\ cur = "hook" /\ cur' = "disp"
    /\ io' = (IF io = "complete" THEN "none" ELSE io)
    /\ UNCHANGED <<st, ioerr, chan, semVars, free, statVars, procVars, narr, got, panic>>

\* iohook(): resume() of a process that is not suspended does nothing
Hook ==
    /\ cur = "hook" /\ cur' = "disp"
    /\ io' = (IF io = "complete" THEN "none" ELSE io)
    /\ st' = IF io = "complete" /\ st[IO] = "susp" THEN [st EXCEPT ![IO] = "ready"] ELSE st
    /\ UNCHANGED <<ioerr, chan, semVars, free, statVars, procVars, narr, got, panic>>

Dispatch ==
    /\ cur = "disp"
    /\ cur' \in (IF st[IO] = "ready" THEN {IO}
                 ELSE {"other"} \cup {p \in {RD} : st[p] = "ready"})
    /\ UNCHANGED <<st, ioVars, semVars, free, statVars, procVars, narr, got, panic>>

\* another process blocks, or nulluser is posted
OtherYields ==
    /\ Runs("other") /\ Resched
    /\ UNCHANGED <<st, ioVars, semVars, free, statVars, procVars, narr, got, panic>>

\* IGG019X8: channel end of the pending read
ChannelEnd ==
    /\ panic = "none" /\ io = "pend"
    /\ \E n \in SegCounts :
         /\ narr + n <= MaxFrames
         /\ chan' = [k \in 1..n |-> narr + k] /\ narr' = narr + n
    /\ ioerr' \in (IF Errors THEN BOOLEAN ELSE {FALSE})
    /\ io' = "complete"
    /\ UNCHANGED <<schedVars, semVars, free, statVars, procVars, got, panic>>

-----------------------------------------------------------------------------
(* ctci_ioread                                                             *)

\* getbuf(): block until a buffer is free
GetBuf ==
    /\ Runs(IO) /\ ipc = "getbuf"
    /\ IF free > 0
         THEN free' = free - 1 /\ ipc' = "lock" /\ UNCHANGED schedVars
         ELSE ipc' = "nobuf" /\ st' = [st EXCEPT ![IO] = "wait"] /\ Resched /\ UNCHANGED free
    /\ UNCHANGED <<ioVars, semVars, statVars, bufndx, rpc, narr, got, panic>>

LockToStart ==
    /\ Runs(IO) /\ ipc = "lock"
    /\ WaitSem(IO) /\ ipc' = "start"
    /\ UNCHANGED <<ioVars, free, statVars, bufndx, rpc, narr, got, panic>>

\* hang the buffer, start the read, release the device
StartRead ==
    /\ Runs(IO) /\ ipc = "start"
    /\ IF hung[bufndx]
         THEN panic' = "ioread logic error" /\ UNCHANGED <<schedVars, semVars, io, hung, len, ipc>>
         ELSE /\ hung' = [hung EXCEPT ![bufndx] = TRUE]
              /\ len' = [len EXCEPT ![bufndx] = 0]
              /\ io' = "pend"
              /\ SignalSem /\ ipc' = "suspend" /\ UNCHANGED panic
    /\ UNCHANGED <<ioerr, chan, free, buf, avail, pseg, userpid, bufndx, rpc, narr, got>>

SuspendIO ==
    /\ Runs(IO) /\ ipc = "suspend"
    /\ st' = [st EXCEPT ![IO] = "susp"] /\ Resched
    /\ ipc' = "post"
    /\ UNCHANGED <<ioVars, semVars, free, statVars, bufndx, rpc, narr, got, panic>>

\* ctcpostread(); the data are in the buffer
PostRead ==
    /\ Runs(IO) /\ ipc = "post"
    /\ IF ioerr THEN panic' = "I/O error" /\ UNCHANGED <<schedVars, semVars, ipc, buf>>
                ELSE /\ WaitSem(IO) /\ ipc' = "publish" /\ UNCHANGED panic
                     /\ buf' = [buf EXCEPT ![bufndx] = chan]
    /\ UNCHANGED <<ioVars, free, hung, len, avail, pseg, userpid, bufndx, rpc, narr, got>>

Publish ==
    /\ Runs(IO) /\ ipc = "publish"
    /\ len' = [len EXCEPT ![bufndx] = 1]
    /\ SignalSem /\ ipc' = "tell"
    /\ UNCHANGED <<ioVars, free, buf, hung, avail, pseg, userpid, bufndx, rpc, narr, got, panic>>

\* resume(userpid) if a reader waits; next slot
Tell ==
    /\ Runs(IO) /\ ipc = "tell"
    /\ IF userpid /\ st[RD] = "susp"
         THEN st' = [st EXCEPT ![RD] = "ready"] /\ Resched
         ELSE UNCHANGED schedVars
    /\ bufndx' = (bufndx + 1) % CTC_READBUFS /\ ipc' = "getbuf"
    /\ UNCHANGED <<ioVars, semVars, free, statVars, rpc, narr, got, panic>>

-----------------------------------------------------------------------------
(* ctci_read, called by netproc.                                           *)

\* between two reads netproc may block, or go on at once
ReaderYields ==
    /\ Runs(RD) /\ rpc = "idle" /\ Resched
    /\ UNCHANGED <<st, ioVars, semVars, free, statVars, procVars, narr, got, panic>>

CtciRead ==
    /\ Runs(RD) /\ rpc = "idle"
    /\ WaitSem(RD) /\ rpc' = "look"
    /\ UNCHANGED <<ioVars, free, statVars, ipc, bufndx, narr, got, panic>>

\* a segment is left from the last call, or a buffer is filled, or wait
Look ==
    /\ Runs(RD) /\ rpc = "look"
    /\ IF pseg = 0 /\ len[avail] = 0
         THEN userpid' = TRUE /\ SignalSem /\ rpc' = "suspend"
         ELSE rpc' = "copy" /\ UNCHANGED <<userpid, schedVars, semVars>>
    /\ UNCHANGED <<ioVars, free, buf, hung, len, avail, pseg, ipc, bufndx, narr, got, panic>>

SuspendReader ==
    /\ Runs(RD) /\ rpc = "suspend"
    /\ st' = [st EXCEPT ![RD] = "susp"] /\ Resched
    /\ rpc' = "woken"
    /\ UNCHANGED <<ioVars, semVars, free, statVars, ipc, bufndx, narr, got, panic>>

Woken ==
    /\ Runs(RD) /\ rpc = "woken"
    /\ userpid' = FALSE
    /\ WaitSem(RD) /\ rpc' = "again"
    /\ UNCHANGED <<ioVars, free, buf, hung, len, avail, pseg, ipc, bufndx, narr, got, panic>>

LookAgain ==
    /\ Runs(RD) /\ rpc = "again"
    /\ IF len[avail] = 0 THEN panic' = "read logic error 1" /\ UNCHANGED rpc
                         ELSE rpc' = "copy" /\ UNCHANGED panic
    /\ UNCHANGED <<schedVars, ioVars, semVars, free, statVars, ipc, bufndx, narr, got>>

\* Mutant: the slot of an exhausted buffer is not cleared
CopyKeepsSlot ==
    /\ Runs(RD) /\ rpc = "copy" /\ hung[avail]
    /\ LET at == IF pseg = 0 THEN 1 ELSE pseg
           next == at + SegStep
       IN /\ got' = Append(got, buf[avail][at])
          /\ IF next > Len(buf[avail])
               THEN /\ pseg' = 0 /\ avail' = (avail + 1) % CTC_READBUFS
                    /\ rpc' = "free"
               ELSE pseg' = next /\ rpc' = "release" /\ UNCHANGED avail
    /\ UNCHANGED <<schedVars, ioVars, semVars, free, buf, hung, len, userpid, ipc, bufndx, narr, panic>>

\* Mutants: pseg is not advanced; the exhausted buffer is not freed
CopySameSegment ==
    /\ Runs(RD) /\ rpc = "copy" /\ hung[avail]
    /\ got' = Append(got, buf[avail][1]) /\ Len(got) < MaxFrames
    /\ rpc' = "release"
    /\ UNCHANGED <<schedVars, ioVars, semVars, free, statVars, ipc, bufndx, narr, panic>>
CopyNoFree ==
    /\ Runs(RD) /\ rpc = "copy" /\ hung[avail]
    /\ got' = Append(got, buf[avail][1])
    /\ buf' = [buf EXCEPT ![avail] = NULL]
    /\ hung' = [hung EXCEPT ![avail] = FALSE]
    /\ len' = [len EXCEPT ![avail] = 0]
    /\ avail' = (avail + 1) % CTC_READBUFS
    /\ rpc' = "release"
    /\ UNCHANGED <<schedVars, ioVars, semVars, free, pseg, userpid, ipc, bufndx, narr, panic>>

\* return a frame; a buffer whose last segment is behind pseg is done
Copy ==
    /\ Runs(RD) /\ rpc = "copy"
    /\ IF ~hung[avail]
         THEN panic' = "read logic error 2" /\ UNCHANGED <<got, buf, hung, len, pseg, avail, rpc>>
         ELSE LET at == IF pseg = 0 THEN 1 ELSE pseg
                  next == at + SegStep
              IN /\ got' = Append(got, buf[avail][at])
                 /\ IF next > Len(buf[avail])
                      THEN /\ buf' = [buf EXCEPT ![avail] = NULL]
                           /\ hung' = [hung EXCEPT ![avail] = FALSE]
                           /\ len' = [len EXCEPT ![avail] = 0]
                           /\ pseg' = 0 /\ avail' = (avail + 1) % CTC_READBUFS
                           /\ rpc' = "free"
                      ELSE pseg' = next /\ rpc' = "release" /\ UNCHANGED <<buf, hung, len, avail>>
                 /\ UNCHANGED panic
    /\ UNCHANGED <<schedVars, ioVars, semVars, free, userpid, ipc, bufndx, narr>>

\* dl > len: the device is released, SYSERR returned, and the frame stays where
\* it is.  (The other early return, len <= 0, is not taken: netproc always
\* passes MAXNETBUF.)
Refuse ==
    /\ Runs(RD) /\ rpc = "copy" /\ hung[avail] /\ TooLong
    /\ SignalSem /\ rpc' = "refused"
    /\ UNCHANGED <<ioVars, free, statVars, ipc, bufndx, narr, got, panic>>

\* netproc, told SYSERR, asks for the shutdown of Xinu and ends
NetprocEnds ==
    /\ Runs(RD) /\ rpc = "refused"
    /\ st' = [st EXCEPT ![RD] = "dead"] /\ Resched
    /\ rpc' = "ended"
    /\ UNCHANGED <<ioVars, semVars, free, statVars, ipc, bufndx, narr, got, panic>>

\* freebuf(): the I/O process, if it waits for a buffer, is readied and runs
\* while the reader still owns the device
FreeBuf ==
    /\ Runs(RD) /\ rpc = "free"
    /\ free' = free + 1 /\ rpc' = "release"
    /\ IF ipc = "nobuf"
         THEN ipc' = "getbuf" /\ st' = [st EXCEPT ![IO] = "ready"] /\ Resched
         ELSE UNCHANGED <<ipc, schedVars>>
    /\ UNCHANGED <<ioVars, semVars, statVars, bufndx, narr, got, panic>>

Release ==
    /\ Runs(RD) /\ rpc = "release"
    /\ SignalSem /\ rpc' = "idle"
    /\ UNCHANGED <<ioVars, free, statVars, ipc, bufndx, narr, got, panic>>

-----------------------------------------------------------------------------
Kernel == Hook \/ Dispatch
IoProcess == \/ GetBuf \/ LockToStart \/ StartRead \/ SuspendIO \/ PostRead
             \/ Publish \/ Tell
Reader == \/ CtciRead \/ Look \/ SuspendReader \/ Woken \/ LookAgain
          \/ Copy \/ Refuse \/ NetprocEnds \/ FreeBuf \/ Release

Next == Kernel \/ OtherYields \/ ChannelEnd \/ IoProcess \/ ReaderYields \/ Reader

(* Fairness.  Every process that has the CPU goes on, netproc reads again   *)
(* and again, the other processes are cooperative, and a ready netproc is   *)
(* not passed over for ever by its equals (resched serves them in turn).    *)
Spec == Init /\ [][Next]_vars
FairSpec == /\ Spec
            /\ WF_vars(Kernel) /\ WF_vars(OtherYields)
            /\ WF_vars(IoProcess) /\ SF_vars(Reader)
            /\ SF_vars(Dispatch /\ cur' = RD)

-----------------------------------------------------------------------------
(* Properties.                                                             *)

\* Every variable keeps its type.
TypeOK ==
    /\ cur \in {IO, RD, "other", "hook", "disp"}
    /\ st \in [{IO, RD} -> {"ready", "susp", "wait", "dead"}]
    /\ io \in {"none", "pend", "complete"}
    /\ sem \in -1..1 /\ semq \in Seq({IO, RD}) /\ free \in 0..CTC_READBUFS
    /\ avail \in Slots /\ bufndx \in Slots /\ pseg \in Nat

\* None of the "logic error" panics of ctci_ioread and ctci_read is reached:
\* the slots are filled and emptied in the same cyclic order, and a reader
\* that is resumed finds its buffer filled.
NoLogicError ==
    panic \notin {"ioread logic error", "read logic error 1", "read logic error 2"}

\* buffers on their way between the pool and a slot
InHand == (IF ipc \in {"lock", "start"} THEN 1 ELSE 0) + (IF rpc = "free" THEN 1 ELSE 0)

\* Every buffer is in the pool, hung in a slot, or in the hands of
\* ctci_ioread or of the ctci_read that is about to free it: none is lost.
\* (With the types of the state.)
BuffersConserved ==
    TypeOK /\ free + InHand + Cardinality({i \in Slots : hung[i]}) = CTC_READBUFS

\* Frames are returned in the order they arrived, each at most once.
InOrder == \A i, j \in 1..Len(got) : i < j => got[i] < got[j]

\* The first frame of every buffer the channel fills is eventually returned
\* by ctci_read, and the channel end is never lost: the next read is started.
\* What ends both is a panic for an I/O error, and the end of netproc, which
\* gives up the device for good at the first frame that does not fit into its
\* buffer: that frame and all behind it stay in their slots.
FramesReturned ==
    LET over == panic # "none" \/ rpc = "ended"
    IN /\ \A f \in 1..MaxFrames : io = "complete" /\ chan[1] = f ~> f \in Range(got) \/ over
       /\ io = "complete" ~> io = "pend" \/ over

=============================================================================

------------------------------ MODULE CtcWrite ------------------------------
(***************************************************************************)
(* The write half of a CTC: ctci_write(), called by any process that sends *)
(* a frame, the I/O process ctci_iowrite, the channel end appendage and    *)
(* iohook().  They share ctwritestat (fillbuf, filled[], pidsleep), the    *)
(* buffer pool and the device semaphore.                                   *)
(*                                                                         *)
(* Scheduling is as in CtcRead: cooperative, the I/O process first.  All   *)
(* frames have one length and a buffer holds Cap of them.                  *)
(***************************************************************************)
EXTENDS Integers, Sequences, SequencesExt, FiniteSets

CONSTANTS
    Writers,        \* processes that send
    Bufs,           \* the CTC_WRITEBUFS buffers
    NULL,           \* no buffer
    Cap,            \* frames that fit into a buffer
    MaxFrames       \* bound: frames sent

IO == "iowrite"
Procs == Writers \cup {IO}

ASSUME CtcWriteAssumption ==
    /\ NULL \notin Bufs /\ IsFiniteSet(Bufs) /\ Cap \in Nat \ {0} /\ MaxFrames \in Nat
    /\ Writers \cap {IO, "other", "hook", "disp"} = {}

VARIABLES
    cur, st,                    \* running process; "ready", "susp" or "wait"
    io,                         \* ctdev.flag1 of the write device
    sem, semq,                  \* the device semaphore
    pool, poolq,                \* free buffers, last freed first; processes waiting for one
    data,                       \* frames in each buffer
    fillbuf, filled, pidsleep,  \* ctwritestat
    ipc, ibuf,                  \* ctci_iowrite: where it stands, its pbuf
    wpc, wbuf,                  \* ctci_write of each writer, its pcih
    nsent, onwire, dropped,     \* history: frames accepted, written, failed
    broken,                     \* the ready list is corrupted, or freebuf panics
    dry                         \* history: ctwfresh has found the pool empty

schedVars == <<cur, st>>
semVars == <<sem, semq>>
poolVars == <<pool, poolq>>
statVars == <<fillbuf, filled, pidsleep>>
ioProc == <<ipc, ibuf>>
wrProc == <<wpc, wbuf>>
history == <<nsent, onwire, dropped>>
vars == <<schedVars, io, semVars, poolVars, data, statVars, ioProc, wrProc, history, broken, dry>>

\* after ctci_iowrite has made its pool and signalled the device
Init ==
    /\ cur = IO /\ st = [p \in Procs |-> "ready"]
    /\ io = "none" /\ sem = 1 /\ semq = <<>>
    /\ pool = SetToSeq(Bufs) /\ poolq = <<>>
    /\ data = [b \in Bufs |-> <<>>]
    /\ fillbuf = NULL /\ filled = <<>> /\ pidsleep = FALSE
    /\ ipc = "lock" /\ ibuf = NULL
    /\ wpc = [w \in Writers |-> "idle"] /\ wbuf = [w \in Writers |-> NULL]
    /\ nsent = 0 /\ onwire = <<>> /\ dropped = {}
    /\ broken = FALSE /\ dry = FALSE

Runs(p) == cur = p /\ ~broken
Resched == cur' = "hook"

WaitSem(p) ==
    /\ sem' = sem - 1
    /\ IF sem <= 0 THEN /\ semq' = Append(semq, p)
                        /\ st' = [st EXCEPT ![p] = "wait"] /\ Resched
                   ELSE UNCHANGED <<semq, st, cur>>

SignalSem ==
    /\ sem' = sem + 1
    /\ IF sem < 0 THEN /\ semq' = Tail(semq)
                       /\ st' = [st EXCEPT ![Head(semq)] = "ready"] /\ Resched
                  ELSE UNCHANGED <<semq, st, cur>>

-----------------------------------------------------------------------------
(* resched() and the channel.                                              *)

Hook ==
    /\ cur = "hook" /\ cur' = "disp"
    /\ io' = (IF io = "complete" THEN "none" ELSE io)
    /\ st' = IF io = "complete" /\ st[IO] = "susp" THEN [st EXCEPT ![IO] = "ready"] ELSE st
    /\ UNCHANGED <<semVars, poolVars, data, statVars, ioProc, wrProc, history, broken, dry>>

Dispatch ==
    /\ cur = "disp"
    /\ cur' \in (IF st[IO] = "ready" THEN {IO}
                 ELSE {"other"} \cup {w \in Writers : st[w] = "ready"})
    /\ UNCHANGED <<st, io, semVars, poolVars, data, statVars, ioProc, wrProc, history, broken, dry>>

OtherYields ==
    /\ Runs("other") /\ Resched
    /\ UNCHANGED <<st, io, semVars, poolVars, data, statVars, ioProc, wrProc, history, broken, dry>>

\* channel end of the pending write, well or with an error
ChannelEnd ==
    /\ ~broken /\ io = "pend" /\ io' = "complete"
    /\ \/ onwire' = onwire \o data[ibuf] /\ UNCHANGED dropped
       \/ dropped' = dropped \cup Range(data[ibuf]) /\ UNCHANGED onwire
    /\ UNCHANGED <<schedVars, semVars, poolVars, data, statVars, ioProc, wrProc, nsent, broken, dry>>

-----------------------------------------------------------------------------
(* ctci_iowrite                                                            *)

Lock ==
    /\ Runs(IO) /\ ipc = "lock"
    /\ WaitSem(IO) /\ ipc' = "search"
    /\ UNCHANGED <<io, poolVars, data, statVars, ibuf, wrProc, history, broken, dry>>

\* Mutant: the buffer being filled is looked for before the filled ones
SearchStealsFirst ==
    /\ Runs(IO) /\ ipc = "search"
    /\ \/ /\ fillbuf # NULL
          /\ ibuf' = fillbuf /\ fillbuf' = NULL
          /\ ipc' = "start" /\ UNCHANGED <<filled, pidsleep, schedVars, semVars>>
       \/ /\ fillbuf = NULL /\ filled # <<>>
          /\ ibuf' = Head(filled) /\ filled' = Tail(filled)
          /\ ipc' = "start" /\ UNCHANGED <<fillbuf, pidsleep, schedVars, semVars>>
       \/ /\ filled = <<>> /\ fillbuf = NULL
          /\ pidsleep' = TRUE /\ SignalSem /\ ipc' = "sleep"
          /\ UNCHANGED <<ibuf, fillbuf, filled>>
    /\ UNCHANGED <<io, poolVars, data, wrProc, history, broken, dry>>

\* Mutant: fillbuf still points to the buffer taken from ctci_write
SearchKeepsFillbuf ==
    /\ Runs(IO) /\ ipc = "search"
    /\ \/ /\ filled # <<>>
          /\ ibuf' = Head(filled) /\ filled' = Tail(filled)
          /\ ipc' = "start" /\ UNCHANGED <<fillbuf, pidsleep, schedVars, semVars>>
       \/ /\ filled = <<>> /\ fillbuf # NULL
          /\ ibuf' = fillbuf
          /\ ipc' = "start" /\ UNCHANGED <<fillbuf, filled, pidsleep, schedVars, semVars>>
       \/ /\ filled = <<>> /\ fillbuf = NULL
          /\ pidsleep' = TRUE /\ SignalSem /\ ipc' = "sleep"
          /\ UNCHANGED <<ibuf, fillbuf, filled>>
    /\ UNCHANGED <<io, poolVars, data, wrProc, history, broken, dry>>

\* a filled buffer, or the one ctci_write is filling, or go to sleep
Search ==
    /\ Runs(IO) /\ ipc = "search"
    /\ \/ /\ filled # <<>>
          /\ ibuf' = Head(filled) /\ filled' = Tail(filled)
          /\ ipc' = "start" /\ UNCHANGED <<fillbuf, pidsleep, schedVars, semVars>>
       \/ /\ filled = <<>> /\ fillbuf # NULL
          /\ ibuf' = fillbuf /\ fillbuf' = NULL
          /\ ipc' = "start" /\ UNCHANGED <<filled, pidsleep, schedVars, semVars>>
       \/ /\ filled = <<>> /\ fillbuf = NULL
          /\ pidsleep' = TRUE /\ SignalSem /\ ipc' = "sleep"
          /\ UNCHANGED <<ibuf, fillbuf, filled>>
    /\ UNCHANGED <<io, poolVars, data, wrProc, history, broken, dry>>

Sleep ==
    /\ Runs(IO) /\ ipc = "sleep"
    /\ st' = [st EXCEPT ![IO] = "susp"] /\ Resched /\ ipc' = "woken"
    /\ UNCHANGED <<io, semVars, poolVars, data, statVars, ibuf, wrProc, history, broken, dry>>

Woken ==
    /\ Runs(IO) /\ ipc = "woken"
    /\ WaitSem(IO) /\ ipc' = "awake"
    /\ UNCHANGED <<io, poolVars, data, statVars, ibuf, wrProc, history, broken, dry>>

Awake ==
    /\ Runs(IO) /\ ipc = "awake"
    /\ pidsleep' = FALSE /\ ipc' = "search"
    /\ UNCHANGED <<schedVars, io, semVars, poolVars, data, fillbuf, filled, ibuf, wrProc, history, broken, dry>>

StartWrite ==
    /\ Runs(IO) /\ ipc = "start"
    /\ io' = "pend" /\ SignalSem /\ ipc' = "suspend"
    /\ UNCHANGED <<poolVars, data, statVars, ibuf, wrProc, history, broken, dry>>

SuspendIO ==
    /\ Runs(IO) /\ ipc = "suspend"
    /\ st' = [st EXCEPT ![IO] = "susp"] /\ Resched /\ ipc' = "post"
    /\ UNCHANGED <<io, semVars, poolVars, data, statVars, ibuf, wrProc, history, broken, dry>>

PostWrite ==
    /\ Runs(IO) /\ ipc = "post"
    /\ WaitSem(IO) /\ ipc' = "free"
    /\ UNCHANGED <<io, poolVars, data, statVars, ibuf, wrProc, history, broken, dry>>

\* freebuf(): CTC_RETRY is 0, so also after an error; a waiting ctwfresh is
\* readied, and runs when the I/O process next gives up the CPU.  The frames
\* stay in the buffer until getbuf gives it out again.  The word before a
\* buffer that is free already is no pool number: freebuf panics.
FreeWritten ==
    /\ Runs(IO) /\ ipc = "free"
    /\ broken' = (ibuf \in Range(pool))
    /\ pool' = <<ibuf>> \o pool /\ ibuf' = NULL /\ ipc' = "search"
    /\ IF poolq # <<>>
         THEN poolq' = Tail(poolq) /\ st' = [st EXCEPT ![Head(poolq)] = "ready"] /\ Resched
         ELSE UNCHANGED <<poolq, schedVars>>
    /\ UNCHANGED <<io, semVars, data, statVars, wrProc, history, dry>>

-----------------------------------------------------------------------------
(* ctci_write                                                              *)

Goto(w, pc) == wpc' = [wpc EXCEPT ![w] = pc]
InCall(w) == wpc[w] \notin {"idle", "done"}

Write(w) ==
    /\ Runs(w) /\ wpc[w] = "idle"
    /\ nsent + Cardinality({v \in Writers : InCall(v)}) < MaxFrames
    /\ WaitSem(w) /\ Goto(w, "look")
    /\ UNCHANGED <<io, poolVars, data, statVars, ioProc, wbuf, history, broken, dry>>

\* fillbuf has room, or it is queued as filled, or there is none; in the
\* last two cases ctwfresh() first releases the device.  (A frame always fits
\* into an empty buffer: CTC_BUFLEN is above any MTU.)
Look(w) ==
    /\ Runs(w) /\ wpc[w] = "look"
    /\ \/ /\ fillbuf # NULL /\ Len(data[fillbuf]) < Cap
          /\ wbuf' = [wbuf EXCEPT ![w] = fillbuf] /\ Goto(w, "put")
          /\ UNCHANGED <<filled, schedVars, semVars>>
       \/ /\ fillbuf # NULL /\ Len(data[fillbuf]) >= Cap
          /\ filled' = IF Len(filled) < Cardinality(Bufs) THEN Append(filled, fillbuf) ELSE filled
          /\ SignalSem /\ Goto(w, "fresh") /\ UNCHANGED wbuf
       \/ /\ fillbuf = NULL
          /\ SignalSem /\ Goto(w, "fresh") /\ UNCHANGED <<filled, wbuf>>
    /\ UNCHANGED <<io, poolVars, data, fillbuf, pidsleep, ioProc, history, broken, dry>>

\* getbuf(): takes a buffer, or waits to be readied with one in the pool.
\* While it waits fillbuf is still the buffer that Look queued: the others
\* fill it, queue it again, or write it a second time.
Fresh(w) ==
    /\ Runs(w) /\ wpc[w] = "fresh" /\ Goto(w, "take")
    /\ IF Len(pool) > Cardinality({v \in Writers : wpc[v] = "take"})
         THEN UNCHANGED <<poolq, schedVars, dry>>
         ELSE /\ poolq' = Append(poolq, w) /\ dry' = TRUE
              /\ st' = [st EXCEPT ![w] = "wait"] /\ Resched
    /\ UNCHANGED <<io, semVars, pool, data, statVars, ioProc, wbuf, history, broken>>

Take(w) ==
    /\ Runs(w) /\ wpc[w] = "take"
    /\ pool' = Tail(pool) /\ wbuf' = [wbuf EXCEPT ![w] = Head(pool)]
    /\ data' = [data EXCEPT ![Head(pool)] = <<>>]
    /\ WaitSem(w) /\ Goto(w, "hang")
    /\ UNCHANGED <<io, poolq, statVars, ioProc, history, broken, dry>>

Hang(w) ==
    /\ Runs(w) /\ wpc[w] = "hang"
    /\ fillbuf' = wbuf[w] /\ Goto(w, "put")
    /\ UNCHANGED <<schedVars, io, semVars, poolVars, data, filled, pidsleep, ioProc, wbuf, history, broken, dry>>

\* Mutant: a sleeping ctci_iowrite is not readied
PutNoReady(w) ==
    /\ Runs(w) /\ wpc[w] = "put"
    /\ data' = [data EXCEPT ![wbuf[w]] = Append(@, nsent + 1)]
    /\ nsent' = nsent + 1
    /\ SignalSem /\ wbuf' = [wbuf EXCEPT ![w] = NULL] /\ Goto(w, "done")
    /\ UNCHANGED <<io, poolVars, statVars, ioProc, onwire, dropped, broken, dry>>

\* copy the frame, ready(pidsleep, RESCHNO) without a look at its state: the
\* queue entry of a process that is ready, or in the queue of the device, is
\* linked into a second list; then release the device
Put(w) ==
    /\ Runs(w) /\ wpc[w] = "put"
    /\ data' = [data EXCEPT ![wbuf[w]] = Append(@, nsent + 1)]
    /\ nsent' = nsent + 1
    /\ sem' = sem + 1
    /\ st' = [p \in Procs |-> IF (p = IO /\ pidsleep) \/ (sem < 0 /\ p = Head(semq))
                                THEN "ready" ELSE st[p]]
    /\ broken' = (pidsleep /\ st[IO] # "susp")
    /\ IF sem < 0 THEN semq' = Tail(semq) /\ Resched ELSE UNCHANGED <<semq, cur>>
    /\ wbuf' = [wbuf EXCEPT ![w] = NULL] /\ Goto(w, "done")
    /\ UNCHANGED <<io, poolVars, statVars, ioProc, onwire, dropped, dry>>

\* the sender goes on: at once, or after a resched
Return(w) ==
    /\ Runs(w) /\ wpc[w] = "done"
    /\ Goto(w, "idle")
    /\ cur' \in {cur, "hook"}
    /\ UNCHANGED <<st, io, semVars, poolVars, data, statVars, ioProc, wbuf, history, broken, dry>>

\* a sender with nothing to send
Pause(w) ==
    /\ Runs(w) /\ wpc[w] = "idle" /\ Resched
    /\ UNCHANGED <<st, io, semVars, poolVars, data, statVars, ioProc, wrProc, history, broken, dry>>

-----------------------------------------------------------------------------
Kernel == Hook \/ Dispatch
IoProcess == \/ Lock \/ Search \/ Sleep \/ Woken \/ Awake \/ StartWrite
             \/ SuspendIO \/ PostWrite \/ FreeWritten
WriteStep(w) == \/ Look(w) \/ Fresh(w) \/ Take(w) \/ Hang(w) \/ Put(w) \/ Return(w)

Next == \/ Kernel \/ OtherYields \/ ChannelEnd \/ IoProcess
        \/ \E w \in Writers : Write(w) \/ Pause(w) \/ WriteStep(w)

(* Fairness.  Who has the CPU goes on, the others are cooperative, ready    *)
(* senders of equal priority are served in turn, and the channel ends every *)
(* I/O it has begun.                                                        *)
Spec == Init /\ [][Next]_vars
FairSpec == /\ Spec
            /\ WF_vars(Kernel) /\ WF_vars(OtherYields) /\ WF_vars(ChannelEnd)
            /\ WF_vars(IoProcess)
            /\ \A w \in Writers : /\ WF_vars(WriteStep(w) \/ Pause(w))
                                  /\ SF_vars(Dispatch /\ cur' = w)

-----------------------------------------------------------------------------
(* Properties.                                                             *)

\* Every variable keeps its type.
TypeOK ==
    /\ cur \in Procs \cup {"other", "hook", "disp"}
    /\ st \in [Procs -> {"ready", "susp", "wait"}]
    /\ io \in {"none", "pend", "complete"} /\ sem \in Int /\ sem <= 1
    /\ semq \in Seq(Procs) /\ pool \in Seq(Bufs) /\ poolq \in Seq(Writers)
    /\ data \in [Bufs -> Seq(1..MaxFrames)]
    /\ fillbuf \in Bufs \cup {NULL} /\ filled \in Seq(Bufs) /\ pidsleep \in BOOLEAN

WireGrows == \A i, j \in 1..Len(onwire) : i < j => onwire[i] < onwire[j]

\* Until ctwfresh meets an empty pool for the first time, frames go out in the
\* order in which ctci_write accepted them, each once.
InOrder == dry \/ WireGrows

\* Until then a buffer is in exactly one place: free, being filled, queued,
\* being written, or in the hands of a writer that has just got it.  Only while
\* ctwfresh gets the next one may fillbuf be a buffer that is already queued.
\* (With the types of the state, which hold after it too.)
OnePlace ==
    /\ TypeOK
    /\ \/ dry
       \/ /\ \A b \in Bufs : \/ b \in Range(pool \o filled) \cup {fillbuf, ibuf}
                               \/ \E w \in Writers : wbuf[w] = b
          /\ IsInjective(pool \o filled) /\ ibuf \notin Range(pool \o filled)
          /\ fillbuf \in Range(pool \o filled) \cup {ibuf} =>
                fillbuf = NULL \/ \E w \in Writers : wpc[w] \in {"fresh", "take", "hang"}

\* Every frame that is accepted is written, or dropped after an I/O error,
\* unless ctwfresh meets an empty pool, or a second frame comes before
\* ctci_iowrite, readied for the first, has run (ready() of a ready process).
FramesWritten ==
    \A f \in 1..MaxFrames : nsent >= f ~> f \in Range(onwire) \cup dropped \/ dry \/ broken

\* What ctcwrite.h says of fillbuf, "NULL or @ buffer ctci_write is filling",
\* for the processes that own the device and read it: it is not a buffer that
\* is queued, being written or free.  With an empty pool it is.
FillbufBeingFilled ==
    (Runs(IO) /\ ipc = "search") \/ (\E w \in Writers : Runs(w) /\ wpc[w] = "look")
        => fillbuf = NULL \/ fillbuf \notin Range(pool \o filled) \cup {ibuf}
=============================================================================

------------------------------- MODULE Kernel -------------------------------
(***************************************************************************)
(* The MVS-Xinu kernel: process table, ready list, semaphores, messages    *)
(* and the sleep (delta) list, under the cooperative scheduler resched().  *)
(*                                                                         *)
(* SCHED_NO_PREEMPT is defined and disable/restore generate nothing, so a  *)
(* kernel call of the current process runs to its next resched() without   *)
(* another process getting the CPU.  The variable kpc is where the current *)
(* process stands in its call: "run" between calls, "resched" inside       *)
(* resched(), or in a loop of a call ("signaln", "sreset", "sdelete",      *)
(* "insertd"), one iteration per step.  What a call still has to do after  *)
(* its resched() returns is cont[p].  A call that returns SYSERR changes   *)
(* nothing and is a stuttering step.                                       *)
(*                                                                         *)
(* The STIMER exit MVSTMPOP is taken here between kernel calls only; the   *)
(* races of the exit with the code that maintains sltop and slnempty are   *)
(* the subject of module SleepQueue.                                       *)
(***************************************************************************)
EXTENDS Integers, Sequences, FiniteSets, SequencesExt

CONSTANTS
    NPROC,      \* slots of proctab[]: 0 is the null process, NPROC-1 NullDisp
    NSEM,       \* slots of semaph[]
    QUANTUM,    \* timer pops before the running process must yield to equals
    Prios,      \* priorities given to create and chprio
    Msgs,       \* messages
    MaxSleep,   \* bound: longest sleep10/recvtim interval
    MaxLate,    \* bound: pops an expired sleeper may wait for a resched
    SemMax,     \* bound: largest semaphore count
    Calls       \* the calls the processes of the instance make

ASSUME KernelAssumption ==
    /\ NPROC \in Nat /\ NPROC >= 3
    /\ NSEM \in Nat /\ NSEM >= 1
    /\ QUANTUM \in Nat /\ QUANTUM >= 1
    /\ Prios \subseteq Nat
    /\ MaxSleep \in Nat /\ MaxLate \in Nat /\ SemMax \in Nat

Procs == 0..NPROC-1
NULLPROC == 0
NullDisp == NPROC-1             \* nulldisppid: first process created
MAXPRIORITY == 500              \* of NullDisp
Users == 1..NPROC-2
Sems == 0..NSEM-1

PStates == {"PRCURR", "PRFREE", "PRREADY", "PRRECV", "PRSLEEP", "PRSUSP",
            "PRWAIT", "PRTRECV", "PRDEAD"}
KPCs == {"run", "resched", "signaln", "sreset", "sdelete", "insertd",
         "wait", "posted", "halted"}
Conts == {"none", "receive", "recvtim"}

VARIABLES
    pstate, pprio, psem, pmsg, phasmsg, cont,   \* proctab[]
    sstate, semcnt, semq,                       \* semaph[] and its queues
    rdyq, clockq, qkey,                         \* ready list, sleep list, q[].qkey
    currpid, nextproc, nextsem, numproc, preempt,
    kpc, ksem, kcnt, kidx                       \* the current process's call

procVars == <<pstate, pprio, psem, pmsg, phasmsg, cont>>
semVars  == <<sstate, semcnt, semq>>
listVars == <<rdyq, clockq, qkey>>
schedVars == <<currpid, nextproc, nextsem, numproc, preempt>>
loopVars == <<ksem, kcnt, kidx>>
vars == <<procVars, semVars, listVars, schedVars, kpc, loopVars>>

-----------------------------------------------------------------------------
(* Helpers for the q[] lists.                                              *)

\* Mutant of insert(): stops at the first key above, so equals are passed
IsInsertPosBehindEquals(list, key, i) ==
    /\ \A j \in 1..(i-1) : qkey[list[j]] <= key
    /\ i <= Len(list) => qkey[list[i]] > key

\* insert(): before the first entry whose key is not below the new key
IsInsertPos(list, key, i) ==
    /\ \A j \in 1..(i-1) : qkey[list[j]] < key
    /\ i <= Len(list) => qkey[list[i]] >= key

\* ready(p, ...) where `list` is the ready list the caller has so far
InsertReady(p, list) ==
    /\ \E i \in 1..(Len(list)+1) :
         /\ IsInsertPos(list, pprio[p], i)
         /\ rdyq' = InsertAt(list, i, p)
    /\ qkey' = [qkey EXCEPT ![p] = pprio[p]]

\* dequeue(p) from `list`, the result in newlist
Dequeued(p, list, newlist) ==
    \E i \in 1..Len(list) : list[i] = p /\ newlist = RemoveAt(list, i)

\* unsleep(p): the successor inherits what p had left
Unsleep(p) ==
    \E i \in 1..Len(clockq) :
        /\ clockq[i] = p
        /\ clockq' = RemoveAt(clockq, i)
        /\ qkey' = IF i < Len(clockq)
                     THEN [qkey EXCEPT ![clockq[i+1]] = @ + qkey[p]]
                     ELSE qkey

\* getnext slot of newpid()/newsem(): the cyclic downward scan
IsScanned(x, next, size, free) ==
    /\ x \in free
    /\ \A y \in free : (next - x) % size <= (next - y) % size

AfterScan(x, size) == IF x <= 0 THEN size - 1 ELSE x - 1

Running == kpc = "run" /\ currpid \in Users /\ cont[currpid] = "none"
Call(c) == c \in Calls /\ Running
EnterResched == kpc' = "resched" /\ UNCHANGED loopVars

-----------------------------------------------------------------------------
(* The state sysinit() leaves: null process running, NullDisp suspended.   *)

Init ==
    /\ pstate = [p \in Procs |-> CASE p = NULLPROC     -> "PRCURR"
                                   [] p = NullDisp     -> "PRSUSP"
                                   [] p = NullDisp - 1 -> "PRREADY"
                                   [] OTHER            -> "PRFREE"]
    /\ \E x \in Prios \ {0}, m \in Msgs :
         /\ pprio = [p \in Procs |-> CASE p = NullDisp     -> MAXPRIORITY
                                       [] p = NullDisp - 1 -> x
                                       [] OTHER            -> 0]
         /\ pmsg = [p \in Procs |-> m]
    /\ psem = [p \in Procs |-> 0]
    /\ phasmsg = [p \in Procs |-> FALSE]
    /\ cont = [p \in Procs |-> "none"]
    /\ sstate = [s \in Sems |-> "SFREE"]
    /\ semcnt = [s \in Sems |-> 0]
    /\ semq = [s \in Sems |-> <<>>]
    /\ rdyq = <<NullDisp - 1>>
    /\ clockq = <<>>
    /\ qkey = pprio
    /\ currpid = NULLPROC
    /\ nextproc = AfterScan(NullDisp - 1, NPROC)
    /\ nextsem = NSEM - 1
    /\ numproc = 2
    /\ preempt = QUANTUM
    /\ kpc = "resched" /\ ksem = 0 /\ kcnt = 0 /\ kidx = 0

-----------------------------------------------------------------------------
(* resched(), one step per sleeper that wakeup() readies, then the choice  *)
(* of the process to run.                                                  *)

Expired == clockq # <<>> /\ qkey[Head(clockq)] <= 0

Wakeup ==
    /\ kpc = "resched" /\ Expired
    /\ InsertReady(Head(clockq), rdyq)
    /\ clockq' = Tail(clockq)
    /\ pstate' = [pstate EXCEPT ![Head(clockq)] = "PRREADY"]
    /\ UNCHANGED <<pprio, psem, pmsg, phasmsg, cont, semVars, schedVars, kpc, loopVars>>

\* iohook(), at the start of resched: the I/O process of a CTC whose channel
\* end was seen is resumed.  The resched() of that resume, nested in this one,
\* is taken as part of it: it would dispatch whom this one dispatches next, and
\* the caller, when it gets the CPU back, would go through resched() once more.
\* Which I/O completes when is the subject of modules CtcRead and CtcWrite.
Iohook(p) ==
    /\ kpc = "resched" /\ "iohook" \in Calls /\ pstate[p] = "PRSUSP"
    /\ pstate' = [pstate EXCEPT ![p] = "PRREADY"]
    /\ InsertReady(p, rdyq)
    /\ UNCHANGED <<pprio, psem, pmsg, phasmsg, cont, semVars, clockq, schedVars, kpc, loopVars>>

\* lastkey(rdytail): on an empty list it reads the head, whose key is MININT
MININT == -1
LastKey == IF rdyq = <<>> THEN MININT ELSE qkey[Last(rdyq)]

KeepsCpu == preempt > 0 /\ pstate[currpid] = "PRCURR" /\ LastKey < pprio[currpid]

ReschedKeep ==
    /\ kpc = "resched" /\ ~Expired /\ KeepsCpu
    /\ kpc' = "run"
    /\ UNCHANGED <<procVars, semVars, listVars, schedVars, loopVars>>

\* getlast(rdytail) on `list`, and the context switch to its result
Dispatch(list) ==
    /\ list # <<>>
    /\ rdyq' = Front(list)
    /\ currpid' = Last(list)
    /\ preempt' = QUANTUM
    /\ kpc' = "run"
    /\ UNCHANGED <<pprio, psem, pmsg, phasmsg, cont, semVars, clockq,
                   nextproc, nextsem, numproc, loopVars>>

ReschedYield ==
    /\ kpc = "resched" /\ ~Expired /\ ~KeepsCpu /\ pstate[currpid] = "PRCURR"
    /\ \E i \in 1..(Len(rdyq)+1) :
         /\ IsInsertPos(rdyq, pprio[currpid], i)
         /\ LET list == InsertAt(rdyq, i, currpid) IN
              /\ Dispatch(list)
              /\ pstate' = [pstate EXCEPT ![currpid] = "PRREADY",
                                          ![Last(list)] = "PRCURR"]
    /\ qkey' = [qkey EXCEPT ![currpid] = pprio[currpid]]

ReschedBlocked ==
    /\ kpc = "resched" /\ ~Expired /\ pstate[currpid] # "PRCURR"
    /\ Dispatch(rdyq)
    /\ pstate' = [pstate EXCEPT ![Last(rdyq)] = "PRCURR"]
    /\ UNCHANGED qkey

-----------------------------------------------------------------------------
(* Process management.                                                     *)

Create(prio) ==
    /\ Call("create") /\ prio >= 1
    /\ \E p \in Procs :
         /\ IsScanned(p, nextproc, NPROC, {x \in Procs : pstate[x] = "PRFREE"})
         /\ nextproc' = AfterScan(p, NPROC)
         /\ pstate' = [pstate EXCEPT ![p] = "PRSUSP"]
         /\ pprio' = [pprio EXCEPT ![p] = prio]
         /\ psem' = [psem EXCEPT ![p] = 0]
         /\ phasmsg' = [phasmsg EXCEPT ![p] = FALSE]
         /\ cont' = [cont EXCEPT ![p] = "none"]
    /\ numproc' = numproc + 1
    /\ UNCHANGED <<pmsg, semVars, listVars, currpid, nextsem, preempt, kpc, loopVars>>

\* Mutant of resume(): ready(pid, RESCHNO)
ResumeNoResched(p) ==
    /\ Call("resume") /\ pstate[p] = "PRSUSP"
    /\ pstate' = [pstate EXCEPT ![p] = "PRREADY"]
    /\ InsertReady(p, rdyq)
    /\ UNCHANGED <<pprio, psem, pmsg, phasmsg, cont, semVars, clockq, schedVars, kpc, loopVars>>

Resume(p) ==
    /\ Call("resume") /\ pstate[p] = "PRSUSP"
    /\ pstate' = [pstate EXCEPT ![p] = "PRREADY"]
    /\ InsertReady(p, rdyq)
    /\ EnterResched
    /\ UNCHANGED <<pprio, psem, pmsg, phasmsg, cont, semVars, clockq, schedVars>>

SuspendReady(p) ==
    /\ Call("suspend") /\ pstate[p] = "PRREADY"
    /\ pstate' = [pstate EXCEPT ![p] = "PRSUSP"]
    /\ Dequeued(p, rdyq, rdyq')
    /\ UNCHANGED <<pprio, psem, pmsg, phasmsg, cont, semVars, clockq, qkey, schedVars, kpc, loopVars>>

SuspendSelf ==
    /\ Call("suspend")
    /\ pstate' = [pstate EXCEPT ![currpid] = "PRSUSP"]
    /\ EnterResched
    /\ UNCHANGED <<pprio, psem, pmsg, phasmsg, cont, semVars, listVars, schedVars>>

Chprio(p, prio) ==
    /\ Call("chprio") /\ pstate[p] # "PRFREE"
    /\ pprio' = [pprio EXCEPT ![p] = prio]
    /\ IF pstate[p] = "PRREADY"
         THEN \E i \in 1..Len(rdyq), j \in 1..Len(rdyq) :
                /\ rdyq[i] = p
                /\ LET rest == RemoveAt(rdyq, i) IN
                     /\ IsInsertPos(rest, prio, j)
                     /\ rdyq' = InsertAt(rest, j, p)
                /\ qkey' = [qkey EXCEPT ![p] = prio]
         ELSE UNCHANGED <<rdyq, qkey>>
    /\ kpc' = IF pstate[p] \in {"PRREADY", "PRCURR"} THEN "resched" ELSE kpc
    /\ UNCHANGED <<pstate, psem, pmsg, phasmsg, cont, semVars, clockq, schedVars, loopVars>>

\* the last live process is gone: xdone() ends the address space
CountDown(next) ==
    /\ numproc' = numproc - 1
    /\ kpc' = IF numproc = 1 THEN "halted" ELSE next

\* a killed process leaves its call unfinished
Freed(p, state) ==
    /\ pstate' = [pstate EXCEPT ![p] = state]
    /\ cont' = [cont EXCEPT ![p] = "none"]
    /\ UNCHANGED <<pprio, psem, pmsg, phasmsg>>

KillSelf ==
    /\ Call("killpid")
    /\ Freed(currpid, "PRDEAD") /\ CountDown("resched")
    /\ UNCHANGED <<semVars, listVars, currpid, nextproc, nextsem, preempt, loopVars>>

\* Mutants of killpid() of a PRWAIT process: left on the semaphore's queue,
\* or the count not given back
KillWaitingKeptQueued(p) ==
    /\ Call("killpid") /\ pstate[p] = "PRWAIT"
    /\ Freed(p, "PRFREE") /\ CountDown("run")
    /\ semcnt' = [semcnt EXCEPT ![psem[p]] = @ + 1]
    /\ UNCHANGED <<sstate, semq, listVars, currpid, nextproc, nextsem, preempt, loopVars>>
KillWaitingUncounted(p) ==
    /\ Call("killpid") /\ pstate[p] = "PRWAIT"
    /\ Freed(p, "PRFREE") /\ CountDown("run")
    /\ \E i \in 1..Len(semq[psem[p]]) :
         /\ semq[psem[p]][i] = p
         /\ semq' = [semq EXCEPT ![psem[p]] = RemoveAt(@, i)]
    /\ UNCHANGED <<sstate, semcnt, listVars, currpid, nextproc, nextsem, preempt, loopVars>>

KillWaiting(p) ==
    /\ Call("killpid") /\ pstate[p] = "PRWAIT"
    /\ Freed(p, "PRFREE") /\ CountDown("run")
    /\ semcnt' = [semcnt EXCEPT ![psem[p]] = @ + 1]
    /\ \E i \in 1..Len(semq[psem[p]]) :
         /\ semq[psem[p]][i] = p
         /\ semq' = [semq EXCEPT ![psem[p]] = RemoveAt(@, i)]
    /\ UNCHANGED <<sstate, listVars, currpid, nextproc, nextsem, preempt, loopVars>>

KillReady(p) ==
    /\ Call("killpid") /\ pstate[p] = "PRREADY"
    /\ Freed(p, "PRFREE") /\ CountDown("run")
    /\ Dequeued(p, rdyq, rdyq')
    /\ UNCHANGED <<semVars, clockq, qkey, currpid, nextproc, nextsem, preempt, loopVars>>

KillTimed(p) ==
    /\ Call("killpid") /\ pstate[p] \in {"PRSLEEP", "PRTRECV"}
    /\ Freed(p, "PRFREE") /\ CountDown("run")
    /\ Unsleep(p)
    /\ UNCHANGED <<semVars, rdyq, currpid, nextproc, nextsem, preempt, loopVars>>

KillIdle(p) ==
    /\ Call("killpid") /\ pstate[p] \in {"PRSUSP", "PRRECV"}
    /\ Freed(p, "PRFREE") /\ CountDown("run")
    /\ UNCHANGED <<semVars, listVars, currpid, nextproc, nextsem, preempt, loopVars>>

\* killpid of a process that has already ended: its entry is kept, PRDEAD
KillDead(p) ==
    /\ Call("killdead") /\ pstate[p] = "PRDEAD"
    /\ CountDown("run")
    /\ UNCHANGED <<procVars, semVars, listVars, currpid, nextproc, nextsem, preempt, loopVars>>

\* the function of the process returns: resched longjmps to nulldisp, whose
\* nullkill marks and kills it and which then suspends itself again
ProcReturn ==
    /\ Call("return")
    /\ Freed(currpid, "PRDEAD") /\ CountDown("resched")
    /\ currpid' = NullDisp
    /\ UNCHANGED <<semVars, listVars, nextproc, nextsem, preempt, loopVars>>

-----------------------------------------------------------------------------
(* Semaphores.                                                             *)

Screate(n) ==
    /\ Call("screate")
    /\ \E s \in Sems :
         /\ IsScanned(s, nextsem, NSEM, {x \in Sems : sstate[x] = "SFREE"})
         /\ nextsem' = AfterScan(s, NSEM)
         /\ sstate' = [sstate EXCEPT ![s] = "SUSED"]
         /\ semcnt' = [semcnt EXCEPT ![s] = n]
    /\ UNCHANGED <<procVars, semq, listVars, currpid, nextproc, numproc, preempt, kpc, loopVars>>

Wait(s) ==
    /\ Call("wait") /\ sstate[s] = "SUSED"
    /\ semcnt' = [semcnt EXCEPT ![s] = @ - 1]
    /\ IF semcnt[s] - 1 < 0
         THEN /\ pstate' = [pstate EXCEPT ![currpid] = "PRWAIT"]
              /\ psem' = [psem EXCEPT ![currpid] = s]
              /\ semq' = [semq EXCEPT ![s] = Append(@, currpid)]
              /\ EnterResched
         ELSE UNCHANGED <<pstate, psem, semq, kpc, loopVars>>
    /\ UNCHANGED <<pprio, pmsg, phasmsg, cont, sstate, listVars, schedVars>>

\* Mutant: getlast in the place of getfirst
ReadyNewest(s) ==
    /\ semq' = [semq EXCEPT ![s] = Front(@)]
    /\ pstate' = [pstate EXCEPT ![Last(semq[s])] = "PRREADY"]
    /\ InsertReady(Last(semq[s]), rdyq)

\* getfirst of the semaphore's queue, made ready
ReadyFirst(s) ==
    /\ semq' = [semq EXCEPT ![s] = Tail(@)]
    /\ pstate' = [pstate EXCEPT ![Head(semq[s])] = "PRREADY"]
    /\ InsertReady(Head(semq[s]), rdyq)

Signal(s) ==
    /\ Call("signal") /\ sstate[s] = "SUSED" /\ semcnt[s] < SemMax
    /\ semcnt' = [semcnt EXCEPT ![s] = @ + 1]
    /\ IF semcnt[s] < 0
         THEN ReadyFirst(s) /\ EnterResched
         ELSE UNCHANGED <<semq, pstate, rdyq, qkey, kpc, loopVars>>
    /\ UNCHANGED <<pprio, psem, pmsg, phasmsg, cont, sstate, clockq, schedVars>>

Enter(loop, s, n) ==
    /\ kpc' = loop /\ ksem' = s /\ kcnt' = n
    /\ UNCHANGED <<procVars, listVars, schedVars, kidx>>
LeaveLoop == kpc' = "resched" /\ ksem' = 0 /\ kcnt' = 0 /\ kidx' = 0

Signaln(s, n) ==
    /\ Call("signaln") /\ sstate[s] = "SUSED" /\ n > 0 /\ semcnt[s] + n <= SemMax
    /\ Enter("signaln", s, n)
    /\ UNCHANGED semVars

SignalnStep ==
    /\ kpc = "signaln" /\ kcnt > 0
    /\ kcnt' = kcnt - 1
    /\ semcnt' = [semcnt EXCEPT ![ksem] = @ + 1]
    /\ IF semcnt[ksem] < 0
         THEN ReadyFirst(ksem)
         ELSE UNCHANGED <<semq, pstate, rdyq, qkey>>
    /\ UNCHANGED <<pprio, psem, pmsg, phasmsg, cont, sstate, clockq, schedVars, kpc, ksem, kidx>>

SignalnDone ==
    /\ kpc = "signaln" /\ kcnt = 0
    /\ LeaveLoop
    /\ UNCHANGED <<procVars, semVars, listVars, schedVars>>

Sreset(s, n) ==
    /\ Call("sreset") /\ sstate[s] = "SUSED"
    /\ Enter("sreset", s, n)
    /\ UNCHANGED semVars

Sdelete(s) ==
    /\ Call("sdelete") /\ sstate[s] = "SUSED"
    /\ sstate' = [sstate EXCEPT ![s] = "SFREE"]
    /\ IF semq[s] # <<>>
         THEN Enter("sdelete", s, 0)
         ELSE UNCHANGED <<procVars, listVars, schedVars, kpc, loopVars>>
    /\ UNCHANGED <<semcnt, semq>>

\* the loop of sreset() and of sdelete(): every waiter is made ready
FlushStep ==
    /\ kpc \in {"sreset", "sdelete"} /\ semq[ksem] # <<>>
    /\ ReadyFirst(ksem)
    /\ UNCHANGED <<pprio, psem, pmsg, phasmsg, cont, sstate, semcnt, clockq, schedVars, kpc, loopVars>>

SresetDone ==
    /\ kpc = "sreset" /\ semq[ksem] = <<>>
    /\ semcnt' = [semcnt EXCEPT ![ksem] = kcnt]
    /\ LeaveLoop
    /\ UNCHANGED <<procVars, sstate, semq, listVars, schedVars>>

SdeleteDone ==
    /\ kpc = "sdelete" /\ semq[ksem] = <<>>
    /\ LeaveLoop
    /\ UNCHANGED <<procVars, semVars, listVars, schedVars>>

-----------------------------------------------------------------------------
(* Messages and timed waiting.                                             *)

Deliver(p, m) ==
    /\ pmsg' = [pmsg EXCEPT ![p] = m]
    /\ phasmsg' = [phasmsg EXCEPT ![p] = TRUE]

Send(p, m) ==
    /\ Call("send") /\ pstate[p] # "PRFREE" /\ ~phasmsg[p]
    /\ Deliver(p, m)
    /\ CASE pstate[p] = "PRRECV" ->
              /\ pstate' = [pstate EXCEPT ![p] = "PRREADY"]
              /\ InsertReady(p, rdyq)
              /\ EnterResched /\ UNCHANGED clockq
         [] pstate[p] = "PRTRECV" ->
              /\ pstate' = [pstate EXCEPT ![p] = "PRREADY"]
              /\ \E i \in 1..Len(clockq), j \in 1..(Len(rdyq)+1) :
                   /\ clockq[i] = p
                   /\ clockq' = RemoveAt(clockq, i)
                   /\ IsInsertPos(rdyq, pprio[p], j)
                   /\ rdyq' = InsertAt(rdyq, j, p)
                   /\ qkey' = IF i < Len(clockq)
                                THEN [qkey EXCEPT ![clockq[i+1]] = @ + qkey[p], ![p] = pprio[p]]
                                ELSE [qkey EXCEPT ![p] = pprio[p]]
              /\ EnterResched
         [] OTHER -> UNCHANGED <<pstate, listVars, kpc, loopVars>>
    /\ UNCHANGED <<pprio, psem, cont, semVars, schedVars>>

\* Mutant of sendf(): the receiver is not readied
SendfNoReady(p, m) ==
    /\ Call("sendf") /\ pstate[p] # "PRFREE"
    /\ Deliver(p, m)
    /\ UNCHANGED <<pstate, pprio, psem, cont, listVars, semVars, schedVars, kpc, loopVars>>

\* sendf overwrites a pending message and does not look for PRTRECV; phasmsg++,
\* which would wrap at 256 messages that nobody receives, is a flag here
Sendf(p, m) ==
    /\ Call("sendf") /\ pstate[p] # "PRFREE"
    /\ Deliver(p, m)
    /\ IF pstate[p] = "PRRECV"
         THEN /\ pstate' = [pstate EXCEPT ![p] = "PRREADY"]
              /\ InsertReady(p, rdyq)
              /\ EnterResched
         ELSE UNCHANGED <<pstate, rdyq, qkey, kpc, loopVars>>
    /\ UNCHANGED <<pprio, psem, cont, clockq, semVars, schedVars>>

TakeMessage(next) ==
    /\ phasmsg' = [phasmsg EXCEPT ![currpid] = FALSE]
    /\ cont' = [cont EXCEPT ![currpid] = "none"]
    /\ kpc' = next
    /\ UNCHANGED <<pstate, pprio, psem, pmsg, semVars, listVars, schedVars, loopVars>>

Receive ==
    /\ Call("receive")
    /\ IF phasmsg[currpid]
         THEN TakeMessage("run")
         ELSE /\ pstate' = [pstate EXCEPT ![currpid] = "PRRECV"]
              /\ cont' = [cont EXCEPT ![currpid] = "receive"]
              /\ EnterResched
              /\ UNCHANGED <<pprio, psem, pmsg, phasmsg, semVars, listVars, schedVars>>

Recvclr == Call("recvclr") /\ phasmsg[currpid] /\ TakeMessage("run")

\* after the resched() of receive and of recvtim (TIMEOUT if still none)
ReceiveReturn ==
    /\ kpc = "run" /\ currpid \in Users /\ cont[currpid] # "none"
    /\ TakeMessage("run")

EnterInsertd(c, n) ==
    /\ cont' = [cont EXCEPT ![currpid] = c]
    /\ kpc' = "insertd" /\ kcnt' = n /\ kidx' = 1
    /\ UNCHANGED <<pstate, pprio, psem, pmsg, phasmsg, semVars, listVars, schedVars, ksem>>

Recvtim(n) ==
    /\ Call("recvtim")
    /\ IF phasmsg[currpid] THEN TakeMessage("run") ELSE EnterInsertd("recvtim", n)

Sleep10(n) ==
    /\ Call("sleep10") /\ n > 0
    /\ EnterInsertd("none", n)

\* sleep(0), sleep10(0): give up the CPU
Yield ==
    /\ Call("yield")
    /\ EnterResched
    /\ UNCHANGED <<procVars, semVars, listVars, schedVars>>

\* insertd(): pass an entry of the delta list
InsertdWalk ==
    /\ kpc = "insertd" /\ kidx <= Len(clockq) /\ qkey[clockq[kidx]] < kcnt
    /\ kcnt' = kcnt - qkey[clockq[kidx]]
    /\ kidx' = kidx + 1
    /\ UNCHANGED <<procVars, semVars, listVars, schedVars, kpc, ksem>>

\* insertd(): link the caller in; the call then blocks
InsertdLink ==
    /\ kpc = "insertd"
    /\ kidx <= Len(clockq) => qkey[clockq[kidx]] >= kcnt
    /\ clockq' = InsertAt(clockq, kidx, currpid)
    /\ qkey' = IF kidx <= Len(clockq)
                 THEN [qkey EXCEPT ![currpid] = kcnt, ![clockq[kidx]] = @ - kcnt]
                 ELSE [qkey EXCEPT ![currpid] = kcnt]
    /\ pstate' = [pstate EXCEPT ![currpid] =
                    IF cont[currpid] = "recvtim" THEN "PRTRECV" ELSE "PRSLEEP"]
    /\ LeaveLoop
    /\ UNCHANGED <<pprio, psem, pmsg, phasmsg, cont, semVars, rdyq, schedVars>>

-----------------------------------------------------------------------------
(* The null process and the timer.                                         *)

\* nulluser: clear nullecb and WAIT
NullWait ==
    /\ kpc = "run" /\ currpid = NULLPROC
    /\ kpc' = "wait"
    /\ UNCHANGED <<procVars, semVars, listVars, schedVars, loopVars>>

\* nulluser: the ECB is posted, look for work
NullWake ==
    /\ kpc = "posted"
    /\ EnterResched
    /\ UNCHANGED <<procVars, semVars, listVars, schedVars>>

\* MVSTMPOP (only the sign of preempt is ever read, so it stops at 0)
Tick ==
    /\ kpc \in {"run", "wait", "posted"}
    /\ IF clockq # <<>>
         THEN /\ kpc = "wait" \/ qkey[Head(clockq)] > 0 - MaxLate
              /\ qkey' = [qkey EXCEPT ![Head(clockq)] = @ - 1]
         ELSE UNCHANGED qkey
    /\ preempt' = IF preempt > 0 THEN preempt - 1 ELSE 0
    /\ kpc' = IF kpc = "wait" THEN "posted" ELSE kpc
    /\ UNCHANGED <<procVars, semVars, rdyq, clockq, currpid, nextproc, nextsem, numproc, loopVars>>

-----------------------------------------------------------------------------
Resched == \/ Wakeup \/ \E p \in Users : Iohook(p)
           \/ ReschedKeep \/ ReschedYield \/ ReschedBlocked

CallStep == \/ SignalnStep \/ SignalnDone \/ FlushStep \/ SresetDone \/ SdeleteDone
            \/ InsertdWalk \/ InsertdLink \/ ReceiveReturn

NullStep == NullWait \/ NullWake

ProcessCall ==
    \/ \E x \in Prios : Create(x)
    \/ \E p \in Users : \/ Resume(p) \/ SuspendReady(p)
                        \/ KillWaiting(p) \/ KillReady(p) \/ KillTimed(p)
                        \/ KillIdle(p) \/ KillDead(p)
                        \/ \E x \in Prios : Chprio(p, x)
    \/ SuspendSelf \/ KillSelf \/ ProcReturn

SemaphoreCall ==
    \/ \E n \in 0..SemMax : Screate(n)
    \/ \E s \in Sems : \/ Wait(s) \/ Signal(s) \/ Sdelete(s)
                       \/ \E n \in 0..SemMax : Sreset(s, n)
                       \/ \E n \in 1..(SemMax+1) : Signaln(s, n)

MessageCall ==
    \/ \E p \in Users, m \in Msgs : Send(p, m) \/ Sendf(p, m)
    \/ Receive \/ Recvclr
    \/ \E n \in 0..MaxSleep : Recvtim(n) \/ Sleep10(n)
    \/ Yield

Next == Resched \/ CallStep \/ NullStep \/ ProcessCall \/ SemaphoreCall
        \/ MessageCall \/ Tick

(* Fairness.  MVS gives the task the CPU, so the kernel's own steps happen; *)
(* the STIMER interval expires again and again; and the processes of this   *)
(* system are cooperative: while one runs it eventually yields.             *)
Spec == Init /\ [][Next]_vars
FairSpec == Spec /\ WF_vars(Resched) /\ WF_vars(CallStep) /\ WF_vars(NullStep)
                 /\ SF_vars(Tick) /\ WF_vars(Yield)
-----------------------------------------------------------------------------
(* Properties.                                                             *)

\* Every kernel variable keeps its type.
TypeOK ==
    /\ pstate \in [Procs -> PStates] /\ pprio \in [Procs -> Nat]
    /\ psem \in [Procs -> Sems] /\ pmsg \in [Procs -> Msgs]
    /\ phasmsg \in [Procs -> BOOLEAN] /\ cont \in [Procs -> Conts]
    /\ sstate \in [Sems -> {"SFREE", "SUSED"}] /\ semcnt \in [Sems -> Int]
    /\ semq \in [Sems -> Seq(Procs)]
    /\ rdyq \in Seq(Procs) /\ clockq \in Seq(Procs) /\ qkey \in [Procs -> Int]
    /\ currpid \in Procs /\ nextproc \in Procs /\ nextsem \in Sems
    /\ numproc \in Int /\ preempt \in 0..QUANTUM
    /\ kpc \in KPCs /\ ksem \in Sems /\ kcnt \in Int /\ kidx \in Nat

\* Every process is on exactly the list its pstate says and on it once: the
\* ready list holds the PRREADY processes, whatever sequence of ready(),
\* dequeue(), getlast() and killpid() got them there.
ReadyListOK == IsInjective(rdyq) /\ Range(rdyq) = {p \in Procs : pstate[p] = "PRREADY"}

\* The queue of a semaphore holds exactly the PRWAIT processes whose psem
\* names it, each once.
SemQueuesOK ==
    \A s \in Sems :
        /\ IsInjective(semq[s])
        /\ Range(semq[s]) = {p \in Procs : pstate[p] = "PRWAIT" /\ psem[p] = s}

\* The sleep list holds exactly the sleeping and timed-receive processes.
SleepListOK ==
    /\ IsInjective(clockq)
    /\ Range(clockq) = {p \in Procs : pstate[p] \in {"PRSLEEP", "PRTRECV"}}

\* A negative count is the number of waiters, a count that is not negative
\* means none waits, and a free semaphore has no waiters, also after waiters
\* were killed, flushed by sreset, or released by sdelete.
SemCountOK ==
    \A s \in Sems :
        /\ sstate[s] = "SUSED" /\ ~(kpc = "sreset" /\ ksem = s) =>
             Len(semq[s]) = IF semcnt[s] < 0 THEN 0 - semcnt[s] ELSE 0
        /\ sstate[s] = "SFREE" /\ ~(kpc = "sdelete" /\ ksem = s) => semq[s] = <<>>

\* At most currpid is PRCURR, it is whenever a process executes outside
\* resched, and resched always finds a process to dispatch because the null
\* process is ready or running.
CurrentOK ==
    /\ \A p \in Procs : pstate[p] = "PRCURR" => p = currpid
    /\ kpc \notin {"resched", "halted"} => pstate[currpid] = "PRCURR"
    /\ pstate[NULLPROC] \in {"PRCURR", "PRREADY"}

\* The tables keep their types, and
\* every process is on exactly the list its state names, on it once, or is
\* the one that runs; no call of any process leaves one on two lists or none.
ListsOK == TypeOK /\ ReadyListOK /\ SemQueuesOK /\ SleepListOK /\ CurrentOK

\* The ready list is in key order and its keys are the priorities the
\* processes have now, so chprio takes effect on a process already ready.
ReadyListSorted ==
    /\ \A i, j \in 1..Len(rdyq) : i < j => qkey[rdyq[i]] <= qkey[rdyq[j]]
    /\ \A i \in 1..Len(rdyq) : qkey[rdyq[i]] = pprio[rdyq[i]]

\* Whenever a process executes between kernel calls no ready process has a
\* higher priority, and the ready list is sorted by the priorities as they
\* are now: no call forgets its resched(), nor chprio() a process that is
\* already ready.
HighestPriorityRuns ==
    /\ ReadyListSorted
    /\ kpc \in {"run", "wait"} =>
          \A p \in Procs : pstate[p] = "PRREADY" => pprio[p] <= pprio[currpid]

\* receive() takes pmsg unconditionally after its resched(): it never runs
\* again before a message is there.
ReceiveHasMessage ==
    \A p \in Users : cont[p] = "receive" /\ pstate[p] \notin {"PRRECV", "PRDEAD"}
                       => phasmsg[p]

\* A process blocked in receive() has no undelivered message: the wakeup of
\* send and of sendf is never lost.
NoMessageLeftWaiting == \A p \in Users : pstate[p] = "PRRECV" => ~phasmsg[p]

\* send, sendf, receive, recvclr and recvtim neither lose a wakeup nor wake a
\* receiver without a message.
MessagesOK == ReceiveHasMessage /\ NoMessageLeftWaiting

\* First come, first served: wait() puts its caller behind all who wait for the
\* semaphore, whatever signal, sreset, sdelete and kill have made of its queue,
\* and a waiter is released only from the front.  A dead process never comes
\* back.
FifoWake ==
    [][\A p \in Users :
         /\ pstate[p] # "PRWAIT" /\ pstate'[p] = "PRWAIT" => p = Last(semq'[psem'[p]])
         /\ pstate[p] = "PRWAIT" /\ pstate'[p] = "PRREADY" => p = Head(semq[psem[p]])
         /\ pstate[p] = "PRDEAD" => pstate'[p] = "PRDEAD"]_vars

\* A process in sleep10 or recvtim is eventually made ready (or killed).
SleepersWake ==
    \A p \in Users : pstate[p] \in {"PRSLEEP", "PRTRECV"} ~> pstate[p] \notin {"PRSLEEP", "PRTRECV"}

\* A ready process runs, unless one of higher priority wants to.
ReadyRuns ==
    \A p \in Users : pstate[p] = "PRREADY" ~>
        \/ pstate[p] # "PRREADY"
        \/ \E q \in Users : pstate[q] \in {"PRCURR", "PRREADY"} /\ pprio[q] > pprio[p]

\* Every process that waits for the clock or for the processor gets it: the
\* timer exit posts the null process out of its idle wait, wakeup() readies
\* whoever is due, and ready() queues a process behind its equals.
Served == SleepersWake /\ ReadyRuns
=============================================================================

---------------------------- MODULE KernelProof ----------------------------
(***************************************************************************)
(* TLAPS proofs about Kernel: every process is on exactly the queue its    *)
(* state names, and a semaphore's count agrees with its queue, for every   *)
(* number of processes and semaphores and every mix of calls.  On top of   *)
(* that: the process that runs is one of highest priority, a receiver      *)
(* neither runs without a message nor sleeps on one, and a semaphore       *)
(* releases its waiters in the order in which they came.                   *)
(***************************************************************************)
EXTENDS Kernel, QueueFacts

Rdy == {p \in Procs : pstate[p] = "PRREADY"}
Slp == {p \in Procs : pstate[p] \in {"PRSLEEP", "PRTRECV"}}
Wtg(s) == {p \in Procs : pstate[p] = "PRWAIT" /\ psem[p] = s}

ReadyQ == Lists(rdyq, Rdy, Procs)
SleepQ == Lists(clockq, Slp, Procs)
WaitQ  == \A s \in Sems : Lists(semq[s], Wtg(s), Procs)

\* Where the loop of a call stands: the semaphore it works on is in the state
\* the call left it in, and insertd's walk is inside the sleep list.
LoopOK ==
    /\ kpc \in {"signaln", "sreset"} => sstate[ksem] = "SUSED"
    /\ kpc = "sreset" => kcnt >= 0
    /\ kpc = "sdelete" => sstate[ksem] = "SFREE"
    /\ kpc = "insertd" => kidx \in 1..(Len(clockq)+1) /\ currpid \in Users

\* The inductive invariant.
IInv == TypeOK /\ ReadyQ /\ SleepQ /\ WaitQ /\ SemCountOK /\ CurrentOK /\ LoopOK

-----------------------------------------------------------------------------
(* Facts used by many actions.                                             *)

\* The ranges of process and semaphore numbers.
LEMMA Ranges ==
    /\ Users \subseteq Procs /\ NullDisp \in Procs /\ NULLPROC \in Procs /\ 0 \in Sems
    /\ NULLPROC \notin Users /\ NullDisp \notin Users /\ NullDisp # NULLPROC
    /\ Procs \subseteq Nat /\ Sems \subseteq Nat
BY KernelAssumption DEF Users, Procs, NullDisp, NULLPROC, Sems

\* ready() puts one more process on the ready list.
LEMMA InsertReadyFact ==
    ASSUME TypeOK, ReadyQ, NEW p \in Procs, p \notin Rdy, InsertReady(p, rdyq)
    PROVE  /\ Lists(rdyq', Rdy \cup {p}, Procs)
           /\ rdyq' \in Seq(Procs) /\ qkey' \in [Procs -> Int]
<1>1. PICK i \in 1..(Len(rdyq)+1) : rdyq' = InsertAt(rdyq, i, p)
  BY DEF InsertReady
<1>2. Lists(rdyq', Rdy \cup {p}, Procs)
  BY <1>1, InsertLists DEF ReadyQ
<1> QED BY <1>2 DEF Lists, InsertReady, TypeOK

\* A step that moves no process on or off a list keeps the three lists right.
LEMMA ListsKept ==
    ASSUME IInv, UNCHANGED <<rdyq, clockq, semq, psem>>, NEW x \in Procs,
           pstate' \in [Procs -> PStates],
           \A p \in Procs \ {x} : pstate'[p] = pstate[p],
           pstate[x] \notin {"PRREADY", "PRSLEEP", "PRTRECV", "PRWAIT"},
           pstate'[x] \notin {"PRREADY", "PRSLEEP", "PRTRECV", "PRWAIT"}
    PROVE  ReadyQ' /\ SleepQ' /\ WaitQ'
<1>1. Rdy' = Rdy /\ Slp' = Slp /\ \A s \in Sems : Wtg(s)' = Wtg(s)
  BY DEF Rdy, Slp, Wtg, IInv, TypeOK
<1> QED BY <1>1 DEF ReadyQ, SleepQ, WaitQ, IInv

\* A step that changes no pstate and no list keeps the three lists right.
LEMMA ListsSame ==
    ASSUME IInv, UNCHANGED <<pstate, rdyq, clockq, semq, psem>>
    PROVE  ReadyQ' /\ SleepQ' /\ WaitQ'
<1>1. Rdy' = Rdy /\ Slp' = Slp /\ \A s \in Sems : Wtg(s)' = Wtg(s)
  BY DEF Rdy, Slp, Wtg
<1> QED BY <1>1 DEF ReadyQ, SleepQ, WaitQ, IInv

\* The current process of a call is a user process in state PRCURR.
LEMMA RunningFact ==
    ASSUME IInv, Running
    PROVE  currpid \in Users /\ currpid \in Procs /\ pstate[currpid] = "PRCURR" /\ kpc = "run"
BY Ranges DEF Running, IInv, CurrentOK

-----------------------------------------------------------------------------
(* Initially.                                                              *)
\* Init establishes the inductive invariant.
LEMMA InitIInv == Init => IInv
<1> SUFFICES ASSUME Init PROVE IInv
  OBVIOUS
<1>1. NullDisp - 1 \in Users /\ NullDisp - 1 \in Procs /\ NullDisp # NullDisp - 1
  BY KernelAssumption DEF NullDisp, Users, Procs
<1>2. PICK x \in Prios \ {0}, m \in Msgs :
         /\ pprio = [p \in Procs |-> CASE p = NullDisp     -> MAXPRIORITY
                                       [] p = NullDisp - 1 -> x
                                       [] OTHER            -> 0]
         /\ pmsg = [p \in Procs |-> m]
  BY DEF Init
<1>3. pprio \in [Procs -> Nat]
  BY <1>2, KernelAssumption DEF MAXPRIORITY
<1>4. nextproc \in Procs /\ nextsem \in Sems
  BY <1>1, KernelAssumption, SMTT(40) DEF Init, AfterScan, Procs, Sems, NullDisp
<1>5. TypeOK
  BY <1>1, <1>2, <1>3, <1>4, Ranges, KernelAssumption
     DEF Init, TypeOK, PStates, Conts, KPCs, MAXPRIORITY
<1>6. Rdy = {NullDisp - 1} /\ Slp = {} /\ \A s \in Sems : Wtg(s) = {}
  BY <1>1, Ranges DEF Init, Rdy, Slp, Wtg
<1>7. Lists(<<NullDisp - 1>>, {NullDisp - 1}, Procs)
  BY <1>1 DEF Lists, IsInjective, Range
<1>8. ReadyQ /\ SleepQ /\ WaitQ
  BY <1>6, <1>7, EmptyLists DEF Init, ReadyQ, SleepQ, WaitQ
<1>9. SemCountOK /\ CurrentOK /\ LoopOK
  BY <1>1, Ranges DEF Init, SemCountOK, CurrentOK, LoopOK
<1> QED BY <1>5, <1>8, <1>9 DEF IInv

-----------------------------------------------------------------------------
(* resched().                                                              *)

\* wakeup() moves the first sleeper to the ready list.
LEMMA WakeupStep == IInv /\ Wakeup => IInv'
<1> SUFFICES ASSUME IInv, Wakeup PROVE IInv'
  OBVIOUS
<1> DEFINE x == Head(clockq)
<1>1. /\ Lists(Tail(clockq), Slp \ {x}, Procs) /\ x \in Slp
      /\ x \in Procs /\ x \notin Rdy
  <2>1. clockq # <<>> /\ Lists(clockq, Slp, Procs)
    BY DEF Wakeup, Expired, IInv, SleepQ
  <2>2. Lists(Tail(clockq), Slp \ {x}, Procs) /\ x \in Slp
    BY <2>1, TailLists
  <2> QED BY <2>2 DEF Slp, Rdy
<1> HIDE DEF x
<1>2. Lists(rdyq', Rdy \cup {x}, Procs) /\ rdyq' \in Seq(Procs) /\ qkey' \in [Procs -> Int]
  BY <1>1, InsertReadyFact DEF Wakeup, IInv, x
<1>3. pstate' = [pstate EXCEPT ![x] = "PRREADY"] /\ clockq' = Tail(clockq)
  BY DEF Wakeup, x
<1>4. TypeOK'
  BY <1>1, <1>2, <1>3 DEF Wakeup, IInv, TypeOK, PStates, Lists, semVars, schedVars, loopVars
<1>5. Rdy' = Rdy \cup {x} /\ Slp' = Slp \ {x} /\ \A s \in Sems : Wtg(s)' = Wtg(s)
  BY <1>1, <1>3, ZenonT(50) DEF Wakeup, Rdy, Slp, Wtg, IInv, TypeOK
<1>6. ReadyQ' /\ SleepQ' /\ WaitQ'
  BY <1>1, <1>2, <1>3, <1>5 DEF ReadyQ, SleepQ, WaitQ, IInv, Wakeup, semVars
<1>7. SemCountOK' /\ CurrentOK' /\ LoopOK'
  BY <1>1, <1>3, Ranges
     DEF Wakeup, Slp, IInv, TypeOK, SemCountOK, CurrentOK, LoopOK, semVars, schedVars, loopVars
<1> QED BY <1>4, <1>6, <1>7 DEF IInv

\* The current process keeps the CPU.
LEMMA ReschedKeepStep == IInv /\ ReschedKeep => IInv'
<1> SUFFICES ASSUME IInv, ReschedKeep PROVE IInv'
  OBVIOUS
<1>1. TypeOK'
  BY DEF ReschedKeep, IInv, TypeOK, KPCs, procVars, semVars, listVars, schedVars, loopVars
<1>2. ReadyQ' /\ SleepQ' /\ WaitQ'
  BY ListsSame DEF ReschedKeep, procVars, semVars, listVars
<1>3. SemCountOK' /\ CurrentOK' /\ LoopOK'
  BY DEF ReschedKeep, KeepsCpu, IInv, SemCountOK, CurrentOK, LoopOK,
         procVars, semVars, listVars, schedVars, loopVars
<1> QED BY <1>1, <1>2, <1>3 DEF IInv

\* The current process goes back to the ready list and the last entry runs.
LEMMA ReschedYieldStep == IInv /\ ReschedYield => IInv'
<1> SUFFICES ASSUME IInv, ReschedYield PROVE IInv'
  OBVIOUS
<1>1. PICK i \in 1..(Len(rdyq)+1) :
         LET list == InsertAt(rdyq, i, currpid) IN
              /\ Dispatch(list)
              /\ pstate' = [pstate EXCEPT ![currpid] = "PRREADY", ![Last(list)] = "PRCURR"]
  BY DEF ReschedYield
<1> DEFINE list == InsertAt(rdyq, i, currpid)
           y == Last(list)
<1>2. currpid \in Procs /\ pstate[currpid] = "PRCURR" /\ currpid \notin Rdy
  BY DEF ReschedYield, IInv, TypeOK, Rdy
<1>3. Lists(list, Rdy \cup {currpid}, Procs)
  BY <1>2, InsertLists DEF IInv, ReadyQ
<1>4. list # <<>>
  BY <1>1 DEF Dispatch
<1>5. Lists(Front(list), (Rdy \cup {currpid}) \ {y}, Procs) /\ y \in Rdy \cup {currpid}
  BY <1>3, <1>4, FrontLists
<1>6. /\ rdyq' = Front(list) /\ currpid' = y /\ preempt' = QUANTUM /\ kpc' = "run"
      /\ pstate' = [pstate EXCEPT ![currpid] = "PRREADY", ![y] = "PRCURR"]
      /\ UNCHANGED <<pprio, psem, pmsg, phasmsg, cont, semVars, clockq,
                     nextproc, nextsem, numproc, loopVars>>
  BY <1>1 DEF Dispatch
<1> HIDE DEF list, y
<1>7. y \in Procs
  BY <1>2, <1>5 DEF Rdy
<1>8. TypeOK'
  <2>1. rdyq' \in Seq(Procs) /\ QUANTUM \in 0..QUANTUM
    BY <1>5, <1>6, KernelAssumption DEF Lists
  <2>2. qkey' \in [Procs -> Int]
    BY DEF ReschedYield, IInv, TypeOK
  <2> QED BY <1>2, <1>6, <1>7, <2>1, <2>2 DEF IInv, TypeOK, PStates, KPCs, semVars, loopVars
<1>9. /\ Rdy' = (Rdy \cup {currpid}) \ {y} /\ Slp' = Slp
      /\ \A s \in Sems : Wtg(s)' = Wtg(s)
  BY <1>2, <1>5, <1>6, <1>7 DEF Rdy, Slp, Wtg, IInv, TypeOK
<1>10. ReadyQ' /\ SleepQ' /\ WaitQ'
  BY <1>5, <1>6, <1>9 DEF ReadyQ, SleepQ, WaitQ, IInv, semVars
<1>11. SemCountOK' /\ LoopOK'
  BY <1>6 DEF IInv, SemCountOK, LoopOK, semVars, loopVars, ReschedYield
<1>12. CurrentOK'
  BY <1>2, <1>5, <1>6, <1>7, Ranges DEF IInv, TypeOK, CurrentOK, Rdy
<1> QED BY <1>8, <1>10, <1>11, <1>12 DEF IInv

\* The current process has blocked; the last entry of the ready list runs.
LEMMA ReschedBlockedStep == IInv /\ ReschedBlocked => IInv'
<1> SUFFICES ASSUME IInv, ReschedBlocked PROVE IInv'
  OBVIOUS
<1> DEFINE y == Last(rdyq)
<1>1. rdyq # <<>> /\ Lists(rdyq, Rdy, Procs)
  BY DEF ReschedBlocked, Dispatch, IInv, ReadyQ
<1>2. Lists(Front(rdyq), Rdy \ {y}, Procs) /\ y \in Rdy /\ y \in Procs
  BY <1>1, FrontLists DEF Rdy
<1>3. /\ rdyq' = Front(rdyq) /\ currpid' = y /\ preempt' = QUANTUM /\ kpc' = "run"
      /\ pstate' = [pstate EXCEPT ![y] = "PRCURR"]
      /\ UNCHANGED <<pprio, psem, pmsg, phasmsg, cont, semVars, clockq, qkey,
                     nextproc, nextsem, numproc, loopVars>>
      /\ pstate[currpid] # "PRCURR" /\ kpc = "resched"
  BY DEF ReschedBlocked, Dispatch
<1> HIDE DEF y
<1>4. TypeOK'
  <2>1. rdyq' \in Seq(Procs) /\ QUANTUM \in 0..QUANTUM
    BY <1>2, <1>3, KernelAssumption DEF Lists
  <2> QED BY <1>2, <1>3, <2>1 DEF IInv, TypeOK, PStates, KPCs, semVars, loopVars
<1>5. Rdy' = Rdy \ {y} /\ Slp' = Slp /\ \A s \in Sems : Wtg(s)' = Wtg(s)
  BY <1>2, <1>3 DEF Rdy, Slp, Wtg, IInv, TypeOK
<1>6. ReadyQ' /\ SleepQ' /\ WaitQ'
  BY <1>2, <1>3, <1>5 DEF ReadyQ, SleepQ, WaitQ, IInv, semVars
<1>7. SemCountOK' /\ LoopOK'
  BY <1>3 DEF IInv, SemCountOK, LoopOK, semVars, loopVars
<1>8. CurrentOK'
  BY <1>2, <1>3, Ranges DEF IInv, TypeOK, CurrentOK
<1> QED BY <1>4, <1>6, <1>7, <1>8 DEF IInv
-----------------------------------------------------------------------------
(* Calls that move no process between lists.                               *)

\* create() takes a free slot.
LEMMA CreateStep == ASSUME IInv, NEW x \in Prios, Create(x) PROVE IInv'
<1>1. PICK p \in Procs :
         /\ pstate[p] = "PRFREE"
         /\ nextproc' = AfterScan(p, NPROC)
         /\ pstate' = [pstate EXCEPT ![p] = "PRSUSP"]
         /\ pprio' = [pprio EXCEPT ![p] = x]
         /\ psem' = [psem EXCEPT ![p] = 0]
         /\ phasmsg' = [phasmsg EXCEPT ![p] = FALSE]
         /\ cont' = [cont EXCEPT ![p] = "none"]
  BY DEF Create, IsScanned
<1>2. /\ numproc' = numproc + 1 /\ kpc = "run" /\ pstate[currpid] = "PRCURR" /\ x \in Nat
      /\ UNCHANGED <<pmsg, semVars, listVars, currpid, nextsem, preempt, kpc, loopVars>>
  BY RunningFact, KernelAssumption DEF Create, Call
<1>3. nextproc' \in Procs
  BY <1>1, KernelAssumption DEF AfterScan, Procs
<1>4. TypeOK'
  <2>1. pstate' \in [Procs -> PStates]
    BY <1>1 DEF IInv, TypeOK, PStates
  <2>2. pprio' \in [Procs -> Nat] /\ psem' \in [Procs -> Sems]
    BY <1>1, <1>2, Ranges DEF IInv, TypeOK
  <2>3. phasmsg' \in [Procs -> BOOLEAN]
    BY <1>1 DEF IInv, TypeOK
  <2>4. cont' \in [Procs -> Conts]
    BY <1>1 DEF IInv, TypeOK, Conts
  <2>5. numproc' \in Int
    BY <1>2 DEF IInv, TypeOK
  <2> QED BY <1>2, <1>3, <2>1, <2>2, <2>3, <2>4, <2>5 DEF IInv, TypeOK, semVars, listVars, loopVars
<1>5. Rdy' = Rdy /\ Slp' = Slp /\ \A s \in Sems : Wtg(s)' = Wtg(s)
  BY <1>1, <1>2 DEF Rdy, Slp, Wtg, IInv, TypeOK
<1>6. ReadyQ' /\ SleepQ' /\ WaitQ'
  BY <1>2, <1>5 DEF ReadyQ, SleepQ, WaitQ, IInv, semVars, listVars
<1>7. SemCountOK' /\ LoopOK'
  BY <1>2 DEF IInv, SemCountOK, LoopOK, semVars, listVars, loopVars
<1>8. CurrentOK'
  BY <1>1, <1>2, Ranges DEF IInv, TypeOK, CurrentOK
<1> QED BY <1>4, <1>6, <1>7, <1>8 DEF IInv

\* suspend() of the caller.
LEMMA SuspendSelfStep == ASSUME IInv, SuspendSelf PROVE IInv'
<1>1. /\ currpid \in Users /\ currpid \in Procs /\ pstate[currpid] = "PRCURR" /\ kpc = "run"
      /\ pstate' = [pstate EXCEPT ![currpid] = "PRSUSP"] /\ kpc' = "resched"
      /\ UNCHANGED <<pprio, psem, pmsg, phasmsg, cont, semVars, listVars, schedVars, loopVars>>
  BY RunningFact DEF SuspendSelf, Call, EnterResched
<1>2. TypeOK'
  BY <1>1 DEF IInv, TypeOK, PStates, KPCs, semVars, listVars, schedVars, loopVars
<1>3. ReadyQ' /\ SleepQ' /\ WaitQ'
  BY <1>1, <1>2, ListsKept DEF IInv, TypeOK, semVars, listVars
<1>4. SemCountOK' /\ CurrentOK' /\ LoopOK'
  BY <1>1, Ranges DEF IInv, TypeOK, SemCountOK, CurrentOK, LoopOK, semVars, listVars, schedVars, loopVars
<1> QED BY <1>2, <1>3, <1>4 DEF IInv

\* killpid() of the caller, and the return of a process's function.
LEMMA KillSelfStep == ASSUME IInv, KillSelf \/ ProcReturn PROVE IInv'
<1>1. /\ currpid \in Users /\ currpid \in Procs /\ pstate[currpid] = "PRCURR" /\ kpc = "run"
      /\ pstate' = [pstate EXCEPT ![currpid] = "PRDEAD"] /\ kpc' \in {"resched", "halted"}
      /\ currpid' \in {currpid, NullDisp} /\ numproc' = numproc - 1
      /\ cont' = [cont EXCEPT ![currpid] = "none"]
      /\ UNCHANGED <<pprio, psem, pmsg, phasmsg, semVars, listVars, nextproc, nextsem, preempt, loopVars>>
  BY RunningFact DEF KillSelf, ProcReturn, Call, Freed, CountDown
<1>2. TypeOK'
  <2>1. pstate' \in [Procs -> PStates]
    BY <1>1 DEF IInv, TypeOK, PStates
  <2>2. cont' \in [Procs -> Conts]
    BY <1>1 DEF IInv, TypeOK, Conts
  <2>3. numproc' \in Int
    BY <1>1 DEF IInv, TypeOK
  <2>4. currpid' \in Procs /\ kpc' \in KPCs
    BY <1>1, Ranges DEF IInv, TypeOK, KPCs
  <2> QED BY <1>1, <2>1, <2>2, <2>3, <2>4 DEF IInv, TypeOK, semVars, listVars, loopVars
<1>3. ReadyQ' /\ SleepQ' /\ WaitQ'
  BY <1>1, <1>2, ListsKept DEF IInv, TypeOK, semVars, listVars
<1>4. SemCountOK' /\ LoopOK'
  BY <1>1 DEF IInv, TypeOK, SemCountOK, LoopOK, semVars, listVars, loopVars
<1>5. CurrentOK'
  BY <1>1, Ranges DEF IInv, TypeOK, CurrentOK
<1> QED BY <1>2, <1>3, <1>4, <1>5 DEF IInv

\* killpid() of a suspended or receiving process, or of a dead one.
LEMMA KillIdleStep == ASSUME IInv, NEW p \in Users, KillIdle(p) \/ KillDead(p) PROVE IInv'
<1>1. /\ p \in Procs /\ p # NULLPROC /\ pstate[currpid] = "PRCURR" /\ kpc = "run"
      /\ pstate[p] \in {"PRSUSP", "PRRECV", "PRDEAD"}
      /\ pstate' \in {pstate, [pstate EXCEPT ![p] = "PRFREE"]} /\ kpc' \in {"run", "halted"}
      /\ numproc' = numproc - 1 /\ cont' \in {cont, [cont EXCEPT ![p] = "none"]}
      /\ UNCHANGED <<pprio, psem, pmsg, phasmsg, semVars, listVars, currpid, nextproc, nextsem, preempt, loopVars>>
  BY RunningFact, Ranges DEF KillIdle, KillDead, Call, Freed, CountDown, procVars
<1>2. TypeOK'
  <2>1. pstate' \in [Procs -> PStates]
    BY <1>1, ZenonT(50) DEF IInv, TypeOK, PStates
  <2>2. cont' \in [Procs -> Conts]
    BY <1>1 DEF IInv, TypeOK, Conts
  <2>3. numproc' \in Int
    BY <1>1 DEF IInv, TypeOK
  <2>4. currpid' \in Procs /\ kpc' \in KPCs
    BY <1>1, Ranges DEF IInv, TypeOK, KPCs
  <2> QED BY <1>1, <2>1, <2>2, <2>3, <2>4 DEF IInv, TypeOK, semVars, listVars, loopVars
<1>3. ReadyQ' /\ SleepQ' /\ WaitQ'
  BY <1>1, <1>2, ListsKept DEF IInv, TypeOK, semVars, listVars
<1>4. SemCountOK' /\ LoopOK'
  BY <1>1 DEF IInv, TypeOK, SemCountOK, LoopOK, semVars, listVars, loopVars
<1>5. CurrentOK'
  BY <1>1, Ranges DEF IInv, TypeOK, CurrentOK
<1> QED BY <1>2, <1>3, <1>4, <1>5 DEF IInv

-----------------------------------------------------------------------------
(* Calls that make a process ready or take it off the ready list.          *)

\* ready() of a process that is on no list.
LEMMA ToReady ==
    ASSUME IInv, NEW p \in Procs, InsertReady(p, rdyq),
           pstate[p] \notin {"PRREADY", "PRSLEEP", "PRTRECV", "PRWAIT", "PRCURR"},
           pstate' = [pstate EXCEPT ![p] = "PRREADY"],
           UNCHANGED <<clockq, semq, psem>>
    PROVE  /\ ReadyQ' /\ SleepQ' /\ WaitQ'
           /\ pstate' \in [Procs -> PStates] /\ rdyq' \in Seq(Procs) /\ qkey' \in [Procs -> Int]
           /\ (currpid' = currpid /\ (kpc' = kpc \/ kpc' = "resched")) => CurrentOK'
<1>1. p \notin Rdy
  BY DEF Rdy
<1>2. Lists(rdyq', Rdy \cup {p}, Procs) /\ rdyq' \in Seq(Procs) /\ qkey' \in [Procs -> Int]
  BY <1>1, InsertReadyFact DEF IInv
<1>3. pstate' \in [Procs -> PStates]
  BY DEF IInv, TypeOK, PStates
<1>4. Rdy' = Rdy \cup {p} /\ Slp' = Slp /\ \A s \in Sems : Wtg(s)' = Wtg(s)
  BY DEF Rdy, Slp, Wtg, IInv, TypeOK
<1>5. ReadyQ' /\ SleepQ' /\ WaitQ'
  BY <1>2, <1>4 DEF ReadyQ, SleepQ, WaitQ, IInv
<1>6. (currpid' = currpid /\ (kpc' = kpc \/ kpc' = "resched")) => CurrentOK'
  BY Ranges DEF IInv, TypeOK, CurrentOK
<1> QED BY <1>2, <1>3, <1>5, <1>6

\* resume() of a suspended process, by a process or by iohook().
LEMMA ResumeStep == ASSUME IInv, NEW p \in Users, Resume(p) \/ Iohook(p) PROVE IInv'
<1>1. /\ p \in Procs /\ pstate[p] = "PRSUSP" /\ kpc \in {"run", "resched"} /\ kpc' = "resched"
      /\ pstate' = [pstate EXCEPT ![p] = "PRREADY"] /\ InsertReady(p, rdyq)
      /\ UNCHANGED <<pprio, psem, pmsg, phasmsg, cont, semVars, clockq, schedVars, loopVars>>
  BY RunningFact, Ranges DEF Resume, Iohook, Call, EnterResched
<1>2. /\ ReadyQ' /\ SleepQ' /\ WaitQ' /\ CurrentOK'
      /\ pstate' \in [Procs -> PStates] /\ rdyq' \in Seq(Procs) /\ qkey' \in [Procs -> Int]
  BY <1>1, ToReady DEF semVars, schedVars
<1>3. TypeOK'
  BY <1>1, <1>2 DEF IInv, TypeOK, KPCs, semVars, schedVars, loopVars
<1>4. SemCountOK' /\ LoopOK'
  BY <1>1 DEF IInv, SemCountOK, LoopOK, semVars, loopVars
<1> QED BY <1>2, <1>3, <1>4 DEF IInv

\* dequeue() of a ready process that leaves the ready list.
LEMMA OffReady ==
    ASSUME IInv, NEW p \in Users, pstate[p] = "PRREADY", Dequeued(p, rdyq, rdyq'),
           NEW st \in {"PRSUSP", "PRFREE"}, pstate' = [pstate EXCEPT ![p] = st],
           UNCHANGED <<clockq, semq, psem>>
    PROVE  /\ ReadyQ' /\ SleepQ' /\ WaitQ'
           /\ pstate' \in [Procs -> PStates] /\ rdyq' \in Seq(Procs)
<1>1. PICK i \in 1..Len(rdyq) : rdyq[i] = p /\ rdyq' = RemoveAt(rdyq, i)
  BY DEF Dequeued
<1>2. Lists(rdyq', Rdy \ {p}, Procs)
  BY <1>1, RemoveLists DEF IInv, ReadyQ
<1>3. pstate' \in [Procs -> PStates]
  BY Ranges DEF IInv, TypeOK, PStates
<1>4. Rdy' = Rdy \ {p} /\ Slp' = Slp /\ \A s \in Sems : Wtg(s)' = Wtg(s)
  BY Ranges DEF Rdy, Slp, Wtg, IInv, TypeOK
<1>5. ReadyQ' /\ SleepQ' /\ WaitQ'
  BY <1>2, <1>4 DEF ReadyQ, SleepQ, WaitQ, IInv
<1> QED BY <1>2, <1>3, <1>5 DEF Lists

\* suspend() of a ready process.
LEMMA SuspendReadyStep == ASSUME IInv, NEW p \in Users, SuspendReady(p) PROVE IInv'
<1>1. /\ pstate[p] = "PRREADY" /\ kpc = "run" /\ p \in Procs /\ p # NULLPROC
      /\ pstate' = [pstate EXCEPT ![p] = "PRSUSP"] /\ Dequeued(p, rdyq, rdyq')
      /\ UNCHANGED <<pprio, psem, pmsg, phasmsg, cont, semVars, clockq, qkey, schedVars, kpc, loopVars>>
  BY RunningFact, Ranges DEF SuspendReady, Call
<1>2. /\ ReadyQ' /\ SleepQ' /\ WaitQ'
      /\ pstate' \in [Procs -> PStates] /\ rdyq' \in Seq(Procs)
  BY <1>1, OffReady DEF semVars
<1>3. TypeOK'
  BY <1>1, <1>2 DEF IInv, TypeOK, semVars, schedVars, loopVars
<1>4. SemCountOK' /\ LoopOK'
  BY <1>1 DEF IInv, SemCountOK, LoopOK, semVars, loopVars
<1>5. CurrentOK'
  BY <1>1, Ranges DEF IInv, TypeOK, CurrentOK, schedVars
<1> QED BY <1>2, <1>3, <1>4, <1>5 DEF IInv

\* killpid() of a ready process.
LEMMA KillReadyStep == ASSUME IInv, NEW p \in Users, KillReady(p) PROVE IInv'
<1>1. /\ pstate[p] = "PRREADY" /\ kpc = "run" /\ p \in Procs /\ p # NULLPROC
      /\ pstate' = [pstate EXCEPT ![p] = "PRFREE"] /\ Dequeued(p, rdyq, rdyq')
      /\ cont' = [cont EXCEPT ![p] = "none"] /\ numproc' = numproc - 1 /\ kpc' \in {"run", "halted"}
      /\ UNCHANGED <<pprio, psem, pmsg, phasmsg, semVars, clockq, qkey, currpid, nextproc, nextsem, preempt, loopVars>>
  BY RunningFact, Ranges DEF KillReady, Call, Freed, CountDown
<1>2. /\ ReadyQ' /\ SleepQ' /\ WaitQ'
      /\ pstate' \in [Procs -> PStates] /\ rdyq' \in Seq(Procs)
  BY <1>1, OffReady DEF semVars
<1>3. TypeOK'
  <2>1. cont' \in [Procs -> Conts]
    BY <1>1 DEF IInv, TypeOK, Conts
  <2>2. numproc' \in Int
    BY <1>1 DEF IInv, TypeOK
  <2> QED BY <1>1, <1>2, <2>1, <2>2 DEF IInv, TypeOK, KPCs, semVars, loopVars
<1>4. SemCountOK' /\ LoopOK'
  BY <1>1 DEF IInv, SemCountOK, LoopOK, semVars, loopVars
<1>5. CurrentOK'
  BY <1>1, Ranges DEF IInv, TypeOK, CurrentOK
<1> QED BY <1>2, <1>3, <1>4, <1>5 DEF IInv

\* chprio(): a ready process is taken out and inserted at its new priority.
LEMMA ChprioStep == ASSUME IInv, NEW p \in Users, NEW x \in Prios, Chprio(p, x) PROVE IInv'
<1>1. /\ p \in Procs /\ kpc = "run" /\ kpc' \in {"run", "resched"} /\ x \in Nat
      /\ pprio' = [pprio EXCEPT ![p] = x]
      /\ UNCHANGED <<pstate, psem, pmsg, phasmsg, cont, semVars, clockq, schedVars, loopVars>>
  BY RunningFact, Ranges, KernelAssumption DEF Chprio, Call
<1>2. Lists(rdyq', Rdy, Procs) /\ qkey' \in [Procs -> Int]
  <2>1. CASE pstate[p] # "PRREADY"
    BY <2>1 DEF Chprio, IInv, TypeOK, ReadyQ
  <2>2. CASE pstate[p] = "PRREADY"
    <3>1. PICK i \in 1..Len(rdyq), j \in 1..Len(rdyq) :
             /\ rdyq[i] = p /\ rdyq' = InsertAt(RemoveAt(rdyq, i), j, p)
             /\ qkey' = [qkey EXCEPT ![p] = x]
      BY <2>2 DEF Chprio
    <3> DEFINE rest == RemoveAt(rdyq, i)
    <3>2. Lists(rest, Rdy \ {p}, Procs) /\ Len(rest) = Len(rdyq) - 1
      BY <3>1, RemoveLists DEF IInv, ReadyQ
    <3>3. Len(rdyq) \in Nat
      BY DEF IInv, TypeOK
    <3> HIDE DEF rest
    <3>4. j \in 1..(Len(rest)+1)
      BY <3>2, <3>3
    <3>5. Lists(InsertAt(rest, j, p), (Rdy \ {p}) \cup {p}, Procs)
      BY <1>1, <3>2, <3>4, InsertLists
    <3>6. (Rdy \ {p}) \cup {p} = Rdy
      BY <1>1, <2>2 DEF Rdy
    <3>7. qkey' \in [Procs -> Int]
      BY <1>1, <3>1, Ranges DEF IInv, TypeOK
    <3> QED BY <3>1, <3>5, <3>6, <3>7 DEF rest
  <2> QED BY <2>1, <2>2
<1>3. rdyq' \in Seq(Procs)
  BY <1>2 DEF Lists
<1>4. pprio' \in [Procs -> Nat]
  BY <1>1 DEF IInv, TypeOK
<1>5. TypeOK'
  BY <1>1, <1>2, <1>3, <1>4 DEF IInv, TypeOK, KPCs, semVars, schedVars, loopVars
<1>6. Rdy' = Rdy /\ Slp' = Slp /\ \A s \in Sems : Wtg(s)' = Wtg(s)
  BY <1>1 DEF Rdy, Slp, Wtg
<1>7. ReadyQ' /\ SleepQ' /\ WaitQ'
  BY <1>1, <1>2, <1>6 DEF ReadyQ, SleepQ, WaitQ, IInv, semVars
<1>8. SemCountOK' /\ CurrentOK' /\ LoopOK'
  BY <1>1 DEF IInv, SemCountOK, CurrentOK, LoopOK, semVars, schedVars, loopVars
<1> QED BY <1>5, <1>7, <1>8 DEF IInv

\* killpid() of a process waiting on a semaphore gives its unit back.
LEMMA KillWaitingStep == ASSUME IInv, NEW p \in Users, KillWaiting(p) PROVE IInv'
<1>0. PICK s \in Sems : s = psem[p]
  BY Ranges DEF IInv, TypeOK
<1>1. /\ pstate[p] = "PRWAIT" /\ kpc = "run" /\ p \in Procs /\ p # NULLPROC /\ s \in Sems
      /\ pstate' = [pstate EXCEPT ![p] = "PRFREE"]
      /\ cont' = [cont EXCEPT ![p] = "none"] /\ numproc' = numproc - 1 /\ kpc' \in {"run", "halted"}
      /\ semcnt' = [semcnt EXCEPT ![s] = semcnt[s] + 1]
      /\ UNCHANGED <<pprio, psem, pmsg, phasmsg, sstate, listVars, currpid, nextproc, nextsem, preempt, loopVars>>
  BY <1>0, RunningFact, Ranges DEF KillWaiting, Call, Freed, CountDown
<1>2. PICK i \in 1..Len(semq[s]) :
         semq[s][i] = p /\ semq' = [semq EXCEPT ![s] = RemoveAt(semq[s], i)]
  BY <1>0 DEF KillWaiting
<1>3. Lists(RemoveAt(semq[s], i), Wtg(s) \ {p}, Procs) /\ Len(RemoveAt(semq[s], i)) = Len(semq[s]) - 1
  BY <1>1, <1>2, RemoveLists DEF IInv, WaitQ
<1>4. /\ semq'[s] = RemoveAt(semq[s], i) /\ \A t \in Sems \ {s} : semq'[t] = semq[t]
      /\ semq' \in [Sems -> Seq(Procs)]
  <2>1. RemoveAt(semq[s], i) \in Seq(Procs)
    BY <1>3 DEF Lists
  <2> QED BY <1>1, <1>2, <2>1 DEF IInv, TypeOK
<1>5. TypeOK'
  <2>1. cont' \in [Procs -> Conts]
    BY <1>1 DEF IInv, TypeOK, Conts
  <2>2. numproc' \in Int /\ semcnt' \in [Sems -> Int]
    <3>1. numproc \in Int /\ semcnt \in [Sems -> Int]
      BY DEF IInv, TypeOK
    <3> QED BY <1>1, <3>1
  <2>3. pstate' \in [Procs -> PStates]
    BY <1>1 DEF IInv, TypeOK, PStates
  <2> QED BY <1>1, <1>4, <2>1, <2>2, <2>3 DEF IInv, TypeOK, KPCs, listVars, loopVars
<1>6. /\ Rdy' = Rdy /\ Slp' = Slp /\ Wtg(s)' = Wtg(s) \ {p}
      /\ \A t \in Sems \ {s} : Wtg(t)' = Wtg(t)
  BY <1>0, <1>1 DEF Rdy, Slp, Wtg, IInv, TypeOK
<1>7. ReadyQ' /\ SleepQ'
  BY <1>1, <1>6 DEF ReadyQ, SleepQ, IInv, listVars
<1>8. WaitQ'
  <2>1. ASSUME NEW t \in Sems PROVE Lists(semq'[t], Wtg(t)', Procs)
    <3>1. CASE t = s
      BY <1>3, <1>4, <1>6, <3>1
    <3>2. CASE t # s
      BY <1>4, <1>6, <3>2 DEF IInv, WaitQ
    <3> QED BY <3>1, <3>2
  <2> QED BY <2>1 DEF WaitQ
<1>9. SemCountOK'
  <2>1. ASSUME NEW t \in Sems, t # s
        PROVE  semq'[t] = semq[t] /\ semcnt'[t] = semcnt[t]
    BY <1>1, <1>4, <2>1 DEF IInv, TypeOK
  <2>2. /\ semcnt'[s] = semcnt[s] + 1 /\ Len(semq[s]) \in Nat /\ Len(semq[s]) > 0
        /\ Len(semq'[s]) = Len(semq[s]) - 1 /\ semcnt[s] \in Int /\ sstate[s] = "SUSED"
    <3>1. Len(semq[s]) \in Nat /\ semcnt[s] \in Int
      BY <1>1 DEF IInv, TypeOK
    <3>2. Len(semq[s]) > 0 /\ semcnt'[s] = semcnt[s] + 1
      BY <1>1, <1>2, <3>1 DEF IInv, TypeOK
    <3>3. semq[s] # <<>>
      BY <3>2
    <3>4. sstate[s] = "SUSED"
      BY <1>1, <3>3 DEF IInv, TypeOK, SemCountOK
    <3> QED BY <1>3, <1>4, <3>1, <3>2, <3>4
  <2>3. Len(semq'[s]) = IF semcnt'[s] < 0 THEN 0 - semcnt'[s] ELSE 0
    <3>1. Len(semq[s]) = IF semcnt[s] < 0 THEN 0 - semcnt[s] ELSE 0
      BY <1>1, <2>2 DEF IInv, SemCountOK
    <3> QED BY <2>2, <3>1
  <2> QED BY <1>1, <2>1, <2>2, <2>3 DEF IInv, SemCountOK, loopVars
<1>10. LoopOK'
  BY <1>1 DEF LoopOK
<1>11. CurrentOK'
  BY <1>1, Ranges DEF IInv, TypeOK, CurrentOK
<1> QED BY <1>5, <1>7, <1>8, <1>9, <1>10, <1>11 DEF IInv

\* killpid() of a sleeping process: unsleep() takes it off the sleep list.
LEMMA KillTimedStep == ASSUME IInv, NEW p \in Users, KillTimed(p) PROVE IInv'
<1>1. /\ pstate[p] \in {"PRSLEEP", "PRTRECV"} /\ kpc = "run" /\ p \in Procs /\ p # NULLPROC
      /\ pstate' = [pstate EXCEPT ![p] = "PRFREE"] /\ Unsleep(p)
      /\ cont' = [cont EXCEPT ![p] = "none"] /\ numproc' = numproc - 1 /\ kpc' \in {"run", "halted"}
      /\ UNCHANGED <<pprio, psem, pmsg, phasmsg, semVars, rdyq, currpid, nextproc, nextsem, preempt, loopVars>>
  BY RunningFact, Ranges DEF KillTimed, Call, Freed, CountDown
<1>2. PICK i \in 1..Len(clockq) :
         /\ clockq[i] = p /\ clockq' = RemoveAt(clockq, i)
         /\ qkey' = IF i < Len(clockq)
                     THEN [qkey EXCEPT ![clockq[i+1]] = @ + qkey[p]]
                     ELSE qkey
  BY <1>1 DEF Unsleep
<1>3. Lists(clockq', Slp \ {p}, Procs)
  BY <1>2, RemoveLists DEF IInv, SleepQ
<1>4. qkey' \in [Procs -> Int]
  <2>1. qkey \in [Procs -> Int] /\ clockq \in Seq(Procs)
    BY DEF IInv, TypeOK
  <2>2. i < Len(clockq) => clockq[i+1] \in Procs
    BY <2>1
  <2> QED BY <1>1, <1>2, <2>1, <2>2
<1>5. TypeOK'
  <2>1. cont' \in [Procs -> Conts]
    BY <1>1 DEF IInv, TypeOK, Conts
  <2>2. numproc' \in Int
    BY <1>1 DEF IInv, TypeOK
  <2>3. pstate' \in [Procs -> PStates]
    BY <1>1 DEF IInv, TypeOK, PStates
  <2>4. clockq' \in Seq(Procs)
    BY <1>3 DEF Lists
  <2> QED BY <1>1, <1>4, <2>1, <2>2, <2>3, <2>4 DEF IInv, TypeOK, KPCs, semVars, loopVars
<1>6. Rdy' = Rdy /\ Slp' = Slp \ {p} /\ \A s \in Sems : Wtg(s)' = Wtg(s)
  BY <1>1 DEF Rdy, Slp, Wtg, IInv, TypeOK
<1>7. ReadyQ' /\ SleepQ' /\ WaitQ'
  BY <1>1, <1>3, <1>6 DEF ReadyQ, SleepQ, WaitQ, IInv, semVars
<1>8. SemCountOK' /\ LoopOK'
  BY <1>1 DEF IInv, SemCountOK, LoopOK, semVars, loopVars
<1>9. CurrentOK'
  BY <1>1, Ranges DEF IInv, TypeOK, CurrentOK
<1> QED BY <1>5, <1>7, <1>8, <1>9 DEF IInv

-----------------------------------------------------------------------------
(* Semaphores.                                                             *)

\* screate() takes a free semaphore, whose queue is empty.
LEMMA ScreateStep == ASSUME IInv, NEW n \in 0..SemMax, Screate(n) PROVE IInv'
<1>1. PICK s \in Sems :
         /\ sstate[s] = "SFREE" /\ nextsem' = AfterScan(s, NSEM)
         /\ sstate' = [sstate EXCEPT ![s] = "SUSED"]
         /\ semcnt' = [semcnt EXCEPT ![s] = n]
  BY DEF Screate, IsScanned
<1>2. /\ kpc = "run" /\ n \in Int /\ n >= 0
      /\ UNCHANGED <<procVars, semq, listVars, currpid, nextproc, numproc, preempt, kpc, loopVars>>
  BY RunningFact, KernelAssumption DEF Screate, Call
<1>3. nextsem' \in Sems
  BY <1>1, KernelAssumption DEF AfterScan, Sems
<1>4. TypeOK'
  <2>1. sstate' \in [Sems -> {"SFREE", "SUSED"}]
    BY <1>1 DEF IInv, TypeOK
  <2>2. semcnt' \in [Sems -> Int]
    BY <1>1, <1>2 DEF IInv, TypeOK
  <2> QED BY <1>2, <1>3, <2>1, <2>2 DEF IInv, TypeOK, procVars, listVars, loopVars
<1>5. ReadyQ' /\ SleepQ' /\ WaitQ'
  BY <1>2, ListsSame DEF procVars, listVars
<1>6. SemCountOK'
  <2>1. ASSUME NEW t \in Sems, t # s
        PROVE  sstate'[t] = sstate[t] /\ semcnt'[t] = semcnt[t]
    BY <1>1, <2>1 DEF IInv, TypeOK
  <2>2. sstate'[s] = "SUSED" /\ semcnt'[s] = n
    BY <1>1 DEF IInv, TypeOK
  <2>3. semq[s] = <<>> /\ Len(<<>>) = 0
    BY <1>1, <1>2 DEF IInv, SemCountOK
  <2> QED BY <1>2, <2>1, <2>2, <2>3 DEF IInv, SemCountOK, loopVars
<1>7. CurrentOK' /\ LoopOK'
  BY <1>2 DEF IInv, CurrentOK, LoopOK, procVars
<1> QED BY <1>4, <1>5, <1>6, <1>7 DEF IInv

\* wait(): the caller takes a unit or joins the queue.
LEMMA WaitStep == ASSUME IInv, NEW s \in Sems, Wait(s) PROVE IInv'
<1>1. /\ currpid \in Procs /\ currpid # NULLPROC /\ pstate[currpid] = "PRCURR" /\ kpc = "run"
      /\ sstate[s] = "SUSED" /\ semcnt' = [semcnt EXCEPT ![s] = semcnt[s] - 1]
      /\ UNCHANGED <<pprio, pmsg, phasmsg, cont, sstate, listVars, schedVars, loopVars>>
  BY RunningFact, Ranges DEF Wait, Call, EnterResched
<1>2. semcnt[s] \in Int /\ semcnt'[s] = semcnt[s] - 1 /\ semcnt' \in [Sems -> Int]
  <2>1. semcnt \in [Sems -> Int]
    BY DEF IInv, TypeOK
  <2> QED BY <1>1, <2>1
<1>3. \A t \in Sems \ {s} : semcnt'[t] = semcnt[t]
  BY <1>1 DEF IInv, TypeOK
<1>4. CASE ~(semcnt[s] - 1 < 0)
  <2>1. UNCHANGED <<pstate, psem, semq, kpc>>
    BY <1>4 DEF Wait
  <2>2. TypeOK'
    BY <1>1, <1>2, <2>1 DEF IInv, TypeOK, listVars, schedVars, loopVars
  <2>3. ReadyQ' /\ SleepQ' /\ WaitQ'
    BY <1>1, <2>1, ListsSame DEF listVars
  <2>4. SemCountOK'
    BY <1>1, <1>2, <1>3, <1>4, <2>1 DEF IInv, SemCountOK
  <2>5. CurrentOK' /\ LoopOK'
    BY <1>1, <2>1 DEF IInv, CurrentOK, LoopOK, schedVars
  <2> QED BY <2>2, <2>3, <2>4, <2>5 DEF IInv
<1>5. CASE semcnt[s] - 1 < 0
  <2>1. /\ pstate' = [pstate EXCEPT ![currpid] = "PRWAIT"]
        /\ psem' = [psem EXCEPT ![currpid] = s]
        /\ semq' = [semq EXCEPT ![s] = Append(semq[s], currpid)]
        /\ kpc' = "resched"
    BY <1>5 DEF Wait, EnterResched
  <2>2. currpid \notin Wtg(s) /\ Lists(semq[s], Wtg(s), Procs)
    BY <1>1 DEF Wtg, IInv, WaitQ
  <2>3. /\ Lists(Append(semq[s], currpid), Wtg(s) \cup {currpid}, Procs)
        /\ Len(Append(semq[s], currpid)) = Len(semq[s]) + 1
    BY <1>1, <2>2, AppendLists
  <2>4. /\ semq'[s] = Append(semq[s], currpid) /\ \A t \in Sems \ {s} : semq'[t] = semq[t]
        /\ semq' \in [Sems -> Seq(Procs)]
    <3>1. Append(semq[s], currpid) \in Seq(Procs) /\ semq \in [Sems -> Seq(Procs)]
      BY <2>3 DEF Lists, IInv, TypeOK
    <3> QED BY <2>1, <3>1
  <2>5. TypeOK'
    <3>1. pstate' \in [Procs -> PStates]
      BY <2>1 DEF IInv, TypeOK, PStates
    <3>2. psem' \in [Procs -> Sems]
      BY <2>1 DEF IInv, TypeOK
    <3> QED BY <1>1, <1>2, <2>1, <2>4, <3>1, <3>2 DEF IInv, TypeOK, KPCs, listVars, schedVars, loopVars
  <2>6. /\ Rdy' = Rdy /\ Slp' = Slp /\ Wtg(s)' = Wtg(s) \cup {currpid}
        /\ \A t \in Sems \ {s} : Wtg(t)' = Wtg(t)
    BY <1>1, <2>1 DEF Rdy, Slp, Wtg, IInv, TypeOK
  <2>7. ReadyQ' /\ SleepQ'
    BY <1>1, <2>6 DEF ReadyQ, SleepQ, IInv, listVars
  <2>8. WaitQ'
    <3>1. ASSUME NEW t \in Sems PROVE Lists(semq'[t], Wtg(t)', Procs)
      <4>1. CASE t = s
        BY <2>3, <2>4, <2>6, <4>1
      <4>2. CASE t # s
        BY <2>4, <2>6, <4>2 DEF IInv, WaitQ
      <4> QED BY <4>1, <4>2
    <3> QED BY <3>1 DEF WaitQ
  <2>9. SemCountOK'
    <3>1. Len(semq[s]) = 0 - semcnt[s]
      BY <1>1, <1>2, <1>5 DEF IInv, SemCountOK
    <3>2. Len(semq'[s]) = IF semcnt'[s] < 0 THEN 0 - semcnt'[s] ELSE 0
      BY <1>2, <1>5, <2>3, <2>4, <3>1
    <3> QED BY <1>1, <1>3, <2>1, <2>4, <3>2 DEF IInv, SemCountOK
  <2>10. CurrentOK' /\ LoopOK'
    BY <1>1, <2>1, Ranges DEF IInv, TypeOK, CurrentOK, LoopOK, schedVars
  <2> QED BY <2>5, <2>7, <2>8, <2>9, <2>10 DEF IInv
<1> QED BY <1>4, <1>5

\* getfirst() and ready(): the head of a semaphore's queue becomes ready.
LEMMA ReadyFirstFact ==
    ASSUME IInv, NEW s \in Sems, semq[s] # <<>>, ReadyFirst(s), UNCHANGED <<clockq, psem>>
    PROVE  /\ ReadyQ' /\ SleepQ' /\ WaitQ'
           /\ pstate' \in [Procs -> PStates] /\ rdyq' \in Seq(Procs)
           /\ qkey' \in [Procs -> Int] /\ semq' \in [Sems -> Seq(Procs)]
           /\ Len(semq'[s]) = Len(semq[s]) - 1 /\ \A t \in Sems \ {s} : semq'[t] = semq[t]
           /\ (currpid' = currpid /\ (kpc' = kpc \/ kpc' = "resched")) => CurrentOK'
<1>1. PICK h \in Procs : h = Head(semq[s])
  <2>1. Lists(semq[s], Wtg(s), Procs)
    BY DEF IInv, WaitQ
  <2>2. Head(semq[s]) \in Wtg(s)
    BY <2>1, TailLists
  <2> QED BY <2>2 DEF Wtg
<1>2. /\ Lists(Tail(semq[s]), Wtg(s) \ {h}, Procs) /\ h \in Wtg(s)
      /\ Len(Tail(semq[s])) = Len(semq[s]) - 1
  BY <1>1, TailLists DEF IInv, WaitQ
<1>3. /\ semq' = [semq EXCEPT ![s] = Tail(semq[s])]
      /\ pstate' = [pstate EXCEPT ![h] = "PRREADY"] /\ InsertReady(h, rdyq)
  BY <1>1 DEF ReadyFirst
<1>4. h \notin Rdy /\ pstate[h] = "PRWAIT" /\ psem[h] = s
  BY <1>2 DEF Rdy, Wtg
<1>5. Lists(rdyq', Rdy \cup {h}, Procs) /\ rdyq' \in Seq(Procs) /\ qkey' \in [Procs -> Int]
  BY <1>3, <1>4, InsertReadyFact DEF IInv
<1>6. /\ semq'[s] = Tail(semq[s]) /\ \A t \in Sems \ {s} : semq'[t] = semq[t]
      /\ semq' \in [Sems -> Seq(Procs)]
  <2>1. Tail(semq[s]) \in Seq(Procs) /\ semq \in [Sems -> Seq(Procs)]
    BY <1>2 DEF Lists, IInv, TypeOK
  <2> QED BY <1>3, <2>1
<1>7. pstate' \in [Procs -> PStates]
  BY <1>3 DEF IInv, TypeOK, PStates
<1>8. /\ Rdy' = Rdy \cup {h} /\ Slp' = Slp /\ Wtg(s)' = Wtg(s) \ {h}
      /\ \A t \in Sems \ {s} : Wtg(t)' = Wtg(t)
  BY <1>3, <1>4 DEF Rdy, Slp, Wtg, IInv, TypeOK
<1>9. ReadyQ' /\ SleepQ'
  BY <1>5, <1>8 DEF ReadyQ, SleepQ, IInv
<1>10. WaitQ'
  <2>1. ASSUME NEW t \in Sems PROVE Lists(semq'[t], Wtg(t)', Procs)
    <3>1. CASE t = s
      BY <1>2, <1>6, <1>8, <3>1
    <3>2. CASE t # s
      BY <1>6, <1>8, <3>2 DEF IInv, WaitQ
    <3> QED BY <3>1, <3>2
  <2> QED BY <2>1 DEF WaitQ
<1>11. ASSUME currpid' = currpid, kpc' = kpc \/ kpc' = "resched" PROVE CurrentOK'
  BY <1>3, <1>4, <1>11, Ranges DEF IInv, TypeOK, CurrentOK
<1> QED BY <1>2, <1>5, <1>6, <1>7, <1>9, <1>10, <1>11

\* A unit is added to a semaphore and, if any waits, its first waiter made
\* ready: what signal() and an iteration of signaln() do.
LEMMA AddUnitFact ==
    ASSUME IInv, NEW s \in Sems, sstate[s] = "SUSED", kpc \in {"run", "signaln"},
           semcnt' = [semcnt EXCEPT ![s] = semcnt[s] + 1],
           IF semcnt[s] < 0 THEN ReadyFirst(s) ELSE UNCHANGED <<semq, pstate, rdyq, qkey>>,
           UNCHANGED <<clockq, psem, sstate, currpid>>, kpc' = kpc \/ kpc' = "resched"
    PROVE  /\ ReadyQ' /\ SleepQ' /\ WaitQ' /\ SemCountOK' /\ CurrentOK'
           /\ pstate' \in [Procs -> PStates] /\ rdyq' \in Seq(Procs) /\ qkey' \in [Procs -> Int]
           /\ semq' \in [Sems -> Seq(Procs)] /\ semcnt' \in [Sems -> Int]
<1>1. /\ semcnt[s] \in Int /\ semcnt'[s] = semcnt[s] + 1 /\ semcnt' \in [Sems -> Int]
      /\ \A t \in Sems \ {s} : semcnt'[t] = semcnt[t]
  <2>1. semcnt \in [Sems -> Int]
    BY DEF IInv, TypeOK
  <2> QED BY <2>1
<1>2. Len(semq[s]) = IF semcnt[s] < 0 THEN 0 - semcnt[s] ELSE 0
  BY DEF IInv, SemCountOK
<1>3. CASE semcnt[s] < 0
  <2>1. semq[s] # <<>> /\ ReadyFirst(s)
    <3>1. Len(semq[s]) # 0 /\ Len(<<>>) = 0
      BY <1>1, <1>2, <1>3
    <3> QED BY <1>3, <3>1
  <2>2. /\ ReadyQ' /\ SleepQ' /\ WaitQ' /\ CurrentOK'
        /\ pstate' \in [Procs -> PStates] /\ rdyq' \in Seq(Procs)
        /\ qkey' \in [Procs -> Int] /\ semq' \in [Sems -> Seq(Procs)]
        /\ Len(semq'[s]) = Len(semq[s]) - 1 /\ \A t \in Sems \ {s} : semq'[t] = semq[t]
    BY <2>1, ReadyFirstFact
  <2>3. Len(semq'[s]) = IF semcnt'[s] < 0 THEN 0 - semcnt'[s] ELSE 0
    BY <1>1, <1>2, <1>3, <2>2
  <2>4. SemCountOK'
    BY <1>1, <2>2, <2>3 DEF IInv, SemCountOK
  <2> QED BY <1>1, <2>2, <2>4
<1>4. CASE ~(semcnt[s] < 0)
  <2>1. UNCHANGED <<semq, pstate, rdyq, qkey>>
    BY <1>4
  <2>2. ReadyQ' /\ SleepQ' /\ WaitQ'
    BY <2>1, ListsSame
  <2>3. Len(semq'[s]) = IF semcnt'[s] < 0 THEN 0 - semcnt'[s] ELSE 0
    BY <1>1, <1>2, <1>4, <2>1
  <2>4. SemCountOK'
    BY <1>1, <2>1, <2>3 DEF IInv, SemCountOK
  <2>5. CurrentOK'
    BY <2>1 DEF IInv, CurrentOK
  <2> QED BY <1>1, <2>1, <2>2, <2>4, <2>5 DEF IInv, TypeOK
<1> QED BY <1>3, <1>4

\* signal().
LEMMA SignalStep == ASSUME IInv, NEW s \in Sems, Signal(s) PROVE IInv'
<1>1. /\ kpc = "run" /\ kpc' \in {"run", "resched"} /\ sstate[s] = "SUSED"
      /\ semcnt' = [semcnt EXCEPT ![s] = semcnt[s] + 1]
      /\ IF semcnt[s] < 0 THEN ReadyFirst(s) ELSE UNCHANGED <<semq, pstate, rdyq, qkey>>
      /\ UNCHANGED <<pprio, psem, pmsg, phasmsg, cont, sstate, clockq, schedVars, loopVars>>
  BY RunningFact DEF Signal, Call, EnterResched
<1>2. /\ ReadyQ' /\ SleepQ' /\ WaitQ' /\ SemCountOK' /\ CurrentOK'
      /\ pstate' \in [Procs -> PStates] /\ rdyq' \in Seq(Procs) /\ qkey' \in [Procs -> Int]
      /\ semq' \in [Sems -> Seq(Procs)] /\ semcnt' \in [Sems -> Int]
  BY <1>1, AddUnitFact DEF schedVars
<1>3. TypeOK'
  BY <1>1, <1>2 DEF IInv, TypeOK, KPCs, schedVars, loopVars
<1>4. LoopOK'
  BY <1>1 DEF LoopOK
<1> QED BY <1>2, <1>3, <1>4 DEF IInv

\* The end of a call's loop.
LEMMA LeaveLoopFact ==
    ASSUME LeaveLoop
    PROVE  /\ kpc' \in KPCs /\ ksem' \in Sems /\ kcnt' \in Int /\ kidx' \in Nat
           /\ kpc' = "resched" /\ LoopOK'
<1>1. kpc' = "resched" /\ ksem' = 0 /\ kcnt' = 0 /\ kidx' = 0
  BY DEF LeaveLoop
<1>2. kpc' \in KPCs
  BY <1>1 DEF KPCs
<1>3. LoopOK'
  BY <1>1 DEF LoopOK
<1> QED BY <1>1, <1>2, <1>3, Ranges

\* The loop of signaln().
LEMMA SignalnSteps ==
    /\ \A s \in Sems, n \in 1..(SemMax+1) : IInv /\ Signaln(s, n) => IInv'
    /\ IInv /\ (SignalnStep \/ SignalnDone) => IInv'
<1>1. ASSUME IInv, NEW s \in Sems, NEW n \in 1..(SemMax+1), Signaln(s, n) PROVE IInv'
  <2>1. /\ kpc = "run" /\ kpc' = "signaln" /\ sstate[s] = "SUSED" /\ n \in Int
        /\ ksem' = s /\ kcnt' = n /\ pstate[currpid] = "PRCURR"
        /\ UNCHANGED <<procVars, listVars, schedVars, kidx, semVars>>
    BY <1>1, RunningFact, KernelAssumption DEF Signaln, Call, Enter
  <2>2. TypeOK'
    BY <1>1, <2>1 DEF IInv, TypeOK, KPCs, procVars, listVars, schedVars, semVars
  <2>3. ReadyQ' /\ SleepQ' /\ WaitQ'
    BY <1>1, <2>1, ListsSame DEF procVars, listVars, semVars
  <2>4. SemCountOK' /\ CurrentOK' /\ LoopOK'
    BY <1>1, <2>1 DEF IInv, SemCountOK, CurrentOK, LoopOK, procVars, schedVars, semVars
  <2> QED BY <2>2, <2>3, <2>4 DEF IInv
<1>2. ASSUME IInv, SignalnStep PROVE IInv'
  <2>1. /\ kpc = "signaln" /\ kpc' = kpc /\ ksem \in Sems /\ sstate[ksem] = "SUSED"
        /\ semcnt' = [semcnt EXCEPT ![ksem] = semcnt[ksem] + 1] /\ kcnt' = kcnt - 1
        /\ IF semcnt[ksem] < 0 THEN ReadyFirst(ksem) ELSE UNCHANGED <<semq, pstate, rdyq, qkey>>
        /\ UNCHANGED <<pprio, psem, pmsg, phasmsg, cont, sstate, clockq, schedVars, ksem, kidx>>
    BY <1>2 DEF SignalnStep, IInv, TypeOK, LoopOK
  <2>2. PICK s \in Sems : s = ksem
    BY <2>1
  <2>3. /\ ReadyQ' /\ SleepQ' /\ WaitQ' /\ SemCountOK' /\ CurrentOK'
        /\ pstate' \in [Procs -> PStates] /\ rdyq' \in Seq(Procs) /\ qkey' \in [Procs -> Int]
        /\ semq' \in [Sems -> Seq(Procs)] /\ semcnt' \in [Sems -> Int]
    BY <1>2, <2>1, <2>2, AddUnitFact DEF schedVars
  <2>4. TypeOK'
    <3>1. kcnt' \in Int
      BY <1>2, <2>1 DEF IInv, TypeOK
    <3> QED BY <1>2, <2>1, <2>3, <3>1 DEF IInv, TypeOK, schedVars
  <2>5. LoopOK'
    BY <2>1 DEF LoopOK
  <2> QED BY <2>3, <2>4, <2>5 DEF IInv
<1>3. ASSUME IInv, SignalnDone PROVE IInv'
  <2>1. /\ kpc = "signaln" /\ UNCHANGED <<procVars, semVars, listVars, schedVars>>
        /\ kpc' \in KPCs /\ ksem' \in Sems /\ kcnt' \in Int /\ kidx' \in Nat
        /\ kpc' = "resched" /\ LoopOK'
    BY <1>3, LeaveLoopFact DEF SignalnDone
  <2>2. TypeOK'
    BY <1>3, <2>1 DEF IInv, TypeOK, procVars, listVars, schedVars, semVars
  <2>3. ReadyQ' /\ SleepQ' /\ WaitQ'
    BY <1>3, <2>1, ListsSame DEF procVars, listVars, semVars
  <2>4. SemCountOK' /\ CurrentOK'
    BY <1>3, <2>1 DEF IInv, SemCountOK, CurrentOK, procVars, schedVars, semVars
  <2> QED BY <2>1, <2>2, <2>3, <2>4 DEF IInv
<1> QED BY <1>1, <1>2, <1>3

\* sreset() and sdelete() start.
LEMMA FlushStart ==
    /\ \A s \in Sems, n \in 0..SemMax : IInv /\ Sreset(s, n) => IInv'
    /\ \A s \in Sems : IInv /\ Sdelete(s) => IInv'
<1>1. ASSUME IInv, NEW s \in Sems, NEW n \in 0..SemMax, Sreset(s, n) PROVE IInv'
  <2>1. /\ kpc = "run" /\ kpc' = "sreset" /\ sstate[s] = "SUSED" /\ n \in Int /\ n >= 0
        /\ ksem' = s /\ kcnt' = n /\ pstate[currpid] = "PRCURR"
        /\ UNCHANGED <<procVars, listVars, schedVars, kidx, semVars>>
    BY <1>1, RunningFact, KernelAssumption DEF Sreset, Call, Enter
  <2>2. TypeOK'
    BY <1>1, <2>1 DEF IInv, TypeOK, KPCs, procVars, listVars, schedVars, semVars
  <2>3. ReadyQ' /\ SleepQ' /\ WaitQ'
    BY <1>1, <2>1, ListsSame DEF procVars, listVars, semVars
  <2>4. SemCountOK' /\ CurrentOK' /\ LoopOK'
    BY <1>1, <2>1 DEF IInv, SemCountOK, CurrentOK, LoopOK, procVars, schedVars, semVars
  <2> QED BY <2>2, <2>3, <2>4 DEF IInv
<1>2. ASSUME IInv, NEW s \in Sems, Sdelete(s) PROVE IInv'
  <2>1. /\ kpc = "run" /\ sstate[s] = "SUSED" /\ pstate[currpid] = "PRCURR"
        /\ sstate' = [sstate EXCEPT ![s] = "SFREE"]
        /\ \/ semq[s] # <<>> /\ kpc' = "sdelete" /\ ksem' = s /\ kcnt' = 0
           \/ semq[s] = <<>> /\ UNCHANGED <<kpc, ksem, kcnt>>
        /\ UNCHANGED <<procVars, listVars, schedVars, kidx, semcnt, semq>>
    BY <1>2, RunningFact DEF Sdelete, Call, Enter, loopVars
  <2>2. /\ sstate'[s] = "SFREE" /\ \A t \in Sems \ {s} : sstate'[t] = sstate[t]
        /\ sstate' \in [Sems -> {"SFREE", "SUSED"}]
    BY <1>2, <2>1 DEF IInv, TypeOK
  <2>3. TypeOK'
    <3>1. kpc' \in KPCs /\ ksem' \in Sems /\ kcnt' \in Int
      BY <1>2, <2>1, SMTT(40) DEF IInv, TypeOK, KPCs
    <3> QED BY <1>2, <2>1, <2>2, <3>1 DEF IInv, TypeOK, procVars, listVars, schedVars
  <2>4. ReadyQ' /\ SleepQ' /\ WaitQ'
    BY <1>2, <2>1, ListsSame DEF procVars, listVars
  <2>5. SemCountOK'
    BY <1>2, <2>1, <2>2 DEF IInv, SemCountOK
  <2>6. CurrentOK' /\ LoopOK'
    BY <1>2, <2>1, <2>2 DEF IInv, CurrentOK, LoopOK, procVars, schedVars
  <2> QED BY <2>3, <2>4, <2>5, <2>6 DEF IInv
<1> QED BY <1>1, <1>2

\* The loops of sreset() and sdelete().
LEMMA FlushSteps == IInv /\ (FlushStep \/ SresetDone \/ SdeleteDone) => IInv'
<1>1. ASSUME IInv, FlushStep PROVE IInv'
  <2>1. /\ kpc \in {"sreset", "sdelete"} /\ semq[ksem] # <<>> /\ ReadyFirst(ksem) /\ ksem \in Sems
        /\ UNCHANGED <<pprio, psem, pmsg, phasmsg, cont, sstate, semcnt, clockq, schedVars, kpc, loopVars>>
    BY <1>1 DEF FlushStep, IInv, TypeOK
  <2>2. PICK s \in Sems : s = ksem
    BY <2>1
  <2>3. /\ ReadyQ' /\ SleepQ' /\ WaitQ' /\ CurrentOK'
        /\ pstate' \in [Procs -> PStates] /\ rdyq' \in Seq(Procs)
        /\ qkey' \in [Procs -> Int] /\ semq' \in [Sems -> Seq(Procs)]
        /\ \A t \in Sems \ {s} : semq'[t] = semq[t]
    BY <1>1, <2>1, <2>2, ReadyFirstFact DEF schedVars
  <2>4. TypeOK'
    BY <1>1, <2>1, <2>3 DEF IInv, TypeOK, schedVars, loopVars
  <2>5. SemCountOK'
    BY <1>1, <2>1, <2>2, <2>3 DEF IInv, SemCountOK, LoopOK, loopVars
  <2>6. LoopOK'
    BY <1>1, <2>1 DEF IInv, LoopOK, loopVars
  <2> QED BY <2>3, <2>4, <2>5, <2>6 DEF IInv
<1>2. ASSUME IInv, SresetDone PROVE IInv'
  <2>1. /\ kpc = "sreset" /\ UNCHANGED <<procVars, sstate, semq, listVars, schedVars>>
        /\ kpc' \in KPCs /\ ksem' \in Sems /\ kcnt' \in Int /\ kidx' \in Nat
        /\ kpc' = "resched" /\ LoopOK' /\ ksem \in Sems /\ semq[ksem] = <<>>
        /\ semcnt' = [semcnt EXCEPT ![ksem] = kcnt] /\ kcnt \in Int /\ kcnt >= 0
    BY <1>2, LeaveLoopFact DEF SresetDone, IInv, TypeOK, LoopOK
  <2>2. /\ semcnt'[ksem] = kcnt /\ \A t \in Sems \ {ksem} : semcnt'[t] = semcnt[t]
        /\ semcnt' \in [Sems -> Int]
    BY <1>2, <2>1 DEF IInv, TypeOK
  <2>3. TypeOK'
    BY <1>2, <2>1, <2>2 DEF IInv, TypeOK, procVars, listVars, schedVars
  <2>4. ReadyQ' /\ SleepQ' /\ WaitQ'
    BY <1>2, <2>1, ListsSame DEF procVars, listVars
  <2>5. SemCountOK'
    <3>1. Len(semq'[ksem]) = IF semcnt'[ksem] < 0 THEN 0 - semcnt'[ksem] ELSE 0
      BY <2>1, <2>2
    <3> QED BY <1>2, <2>1, <2>2, <3>1 DEF IInv, SemCountOK
  <2>6. CurrentOK'
    BY <1>2, <2>1 DEF IInv, CurrentOK, procVars, schedVars
  <2> QED BY <2>1, <2>3, <2>4, <2>5, <2>6 DEF IInv
<1>3. ASSUME IInv, SdeleteDone PROVE IInv'
  <2>1. /\ kpc = "sdelete" /\ UNCHANGED <<procVars, semVars, listVars, schedVars>>
        /\ kpc' \in KPCs /\ ksem' \in Sems /\ kcnt' \in Int /\ kidx' \in Nat
        /\ kpc' = "resched" /\ LoopOK' /\ semq[ksem] = <<>>
    BY <1>3, LeaveLoopFact DEF SdeleteDone
  <2>2. TypeOK'
    BY <1>3, <2>1 DEF IInv, TypeOK, procVars, listVars, schedVars, semVars
  <2>3. ReadyQ' /\ SleepQ' /\ WaitQ'
    BY <1>3, <2>1, ListsSame DEF procVars, listVars, semVars
  <2>4. SemCountOK' /\ CurrentOK'
    BY <1>3, <2>1 DEF IInv, SemCountOK, CurrentOK, procVars, schedVars, semVars
  <2> QED BY <2>1, <2>2, <2>3, <2>4 DEF IInv
<1> QED BY <1>1, <1>2, <1>3

-----------------------------------------------------------------------------
(* Messages and timed waiting.                                             *)

\* send() stores the message and makes a waiting receiver ready.
LEMMA SendStep == ASSUME IInv, NEW p \in Users, NEW m \in Msgs, Send(p, m) PROVE IInv'
<1>1. /\ kpc = "run" /\ p \in Procs /\ p # NULLPROC
      /\ pmsg' = [pmsg EXCEPT ![p] = m] /\ phasmsg' = [phasmsg EXCEPT ![p] = TRUE]
      /\ UNCHANGED <<pprio, psem, cont, semVars, schedVars>>
  BY RunningFact, Ranges DEF Send, Call, Deliver
<1>2. pmsg' \in [Procs -> Msgs]
  BY <1>1 DEF IInv, TypeOK
<1>3. phasmsg' \in [Procs -> BOOLEAN]
  BY <1>1 DEF IInv, TypeOK
<1>4. CASE pstate[p] = "PRRECV"
  <2>1. /\ kpc' = "resched" /\ UNCHANGED <<clockq, loopVars>>
        /\ pstate' = [pstate EXCEPT ![p] = "PRREADY"] /\ InsertReady(p, rdyq)
    BY <1>4 DEF Send, EnterResched
  <2>2. /\ ReadyQ' /\ SleepQ' /\ WaitQ' /\ CurrentOK'
        /\ pstate' \in [Procs -> PStates] /\ rdyq' \in Seq(Procs) /\ qkey' \in [Procs -> Int]
    BY <1>1, <1>4, <2>1, ToReady DEF semVars, schedVars
  <2>3. TypeOK'
    BY <1>1, <1>2, <1>3, <2>1, <2>2 DEF IInv, TypeOK, KPCs, semVars, schedVars, loopVars
  <2>4. SemCountOK' /\ LoopOK'
    BY <1>1, <2>1 DEF IInv, SemCountOK, LoopOK, semVars, loopVars
  <2> QED BY <2>2, <2>3, <2>4 DEF IInv
<1>5. CASE pstate[p] = "PRTRECV"
  <2>1. PICK i \in 1..Len(clockq), j \in 1..(Len(rdyq)+1) :
           /\ clockq[i] = p /\ clockq' = RemoveAt(clockq, i)
           /\ rdyq' = InsertAt(rdyq, j, p)
           /\ qkey' = IF i < Len(clockq)
                        THEN [qkey EXCEPT ![clockq[i+1]] = @ + qkey[p], ![p] = pprio[p]]
                        ELSE [qkey EXCEPT ![p] = pprio[p]]
    BY <1>5 DEF Send
  <2>2. /\ kpc' = "resched" /\ UNCHANGED loopVars
        /\ pstate' = [pstate EXCEPT ![p] = "PRREADY"]
    BY <1>5 DEF Send, EnterResched
  <2>3. Lists(clockq', Slp \ {p}, Procs)
    BY <2>1, RemoveLists DEF IInv, SleepQ
  <2>4. Lists(rdyq', Rdy \cup {p}, Procs)
    <3>1. p \notin Rdy /\ Lists(rdyq, Rdy, Procs)
      BY <1>5 DEF Rdy, IInv, ReadyQ
    <3> QED BY <1>1, <2>1, <3>1, InsertLists
  <2>5. qkey' \in [Procs -> Int]
    <3>1. qkey \in [Procs -> Int] /\ clockq \in Seq(Procs) /\ pprio[p] \in Int
      BY <1>1 DEF IInv, TypeOK
    <3>2. i < Len(clockq) => clockq[i+1] \in Procs
      BY <3>1
    <3> QED BY <1>1, <2>1, <3>1, <3>2
  <2>6. TypeOK'
    <3>1. pstate' \in [Procs -> PStates]
      BY <2>2 DEF IInv, TypeOK, PStates
    <3>2. clockq' \in Seq(Procs) /\ rdyq' \in Seq(Procs)
      BY <2>3, <2>4 DEF Lists
    <3> QED BY <1>1, <1>2, <1>3, <2>2, <2>5, <3>1, <3>2 DEF IInv, TypeOK, KPCs, semVars, schedVars, loopVars
  <2>7. Rdy' = Rdy \cup {p} /\ Slp' = Slp \ {p} /\ \A s \in Sems : Wtg(s)' = Wtg(s)
    BY <1>1, <1>5, <2>2 DEF Rdy, Slp, Wtg, IInv, TypeOK
  <2>8. ReadyQ' /\ SleepQ' /\ WaitQ'
    BY <1>1, <2>3, <2>4, <2>7 DEF ReadyQ, SleepQ, WaitQ, IInv, semVars
  <2>9. SemCountOK' /\ LoopOK'
    BY <1>1, <2>2 DEF IInv, SemCountOK, LoopOK, semVars, loopVars
  <2>10. CurrentOK'
    BY <1>1, <1>5, <2>2, Ranges DEF IInv, TypeOK, CurrentOK, schedVars
  <2> QED BY <2>6, <2>8, <2>9, <2>10 DEF IInv
<1>6. CASE pstate[p] \notin {"PRRECV", "PRTRECV"}
  <2>1. UNCHANGED <<pstate, listVars, kpc, loopVars>>
    BY <1>6 DEF Send
  <2>2. TypeOK'
    BY <1>1, <1>2, <1>3, <2>1 DEF IInv, TypeOK, semVars, schedVars, listVars, loopVars
  <2>3. ReadyQ' /\ SleepQ' /\ WaitQ'
    BY <1>1, <2>1, ListsSame DEF listVars, semVars
  <2>4. SemCountOK' /\ CurrentOK' /\ LoopOK'
    BY <1>1, <2>1 DEF IInv, SemCountOK, CurrentOK, LoopOK, semVars, schedVars, loopVars
  <2> QED BY <2>2, <2>3, <2>4 DEF IInv
<1> QED BY <1>4, <1>5, <1>6

\* sendf().
LEMMA SendfStep == ASSUME IInv, NEW p \in Users, NEW m \in Msgs, Sendf(p, m) PROVE IInv'
<1>1. /\ kpc = "run" /\ p \in Procs
      /\ pmsg' = [pmsg EXCEPT ![p] = m] /\ phasmsg' = [phasmsg EXCEPT ![p] = TRUE]
      /\ UNCHANGED <<pprio, psem, cont, clockq, semVars, schedVars>>
  BY RunningFact, Ranges DEF Sendf, Call, Deliver
<1>2. pmsg' \in [Procs -> Msgs]
  BY <1>1 DEF IInv, TypeOK
<1>3. phasmsg' \in [Procs -> BOOLEAN]
  BY <1>1 DEF IInv, TypeOK
<1>4. CASE pstate[p] = "PRRECV"
  <2>1. /\ kpc' = "resched" /\ UNCHANGED loopVars
        /\ pstate' = [pstate EXCEPT ![p] = "PRREADY"] /\ InsertReady(p, rdyq)
    BY <1>4 DEF Sendf, EnterResched
  <2>2. /\ ReadyQ' /\ SleepQ' /\ WaitQ' /\ CurrentOK'
        /\ pstate' \in [Procs -> PStates] /\ rdyq' \in Seq(Procs) /\ qkey' \in [Procs -> Int]
    BY <1>1, <1>4, <2>1, ToReady DEF semVars, schedVars
  <2>3. TypeOK'
    BY <1>1, <1>2, <1>3, <2>1, <2>2 DEF IInv, TypeOK, KPCs, semVars, schedVars, loopVars
  <2>4. SemCountOK' /\ LoopOK'
    BY <1>1, <2>1 DEF IInv, SemCountOK, LoopOK, semVars, loopVars
  <2> QED BY <2>2, <2>3, <2>4 DEF IInv
<1>5. CASE pstate[p] # "PRRECV"
  <2>1. UNCHANGED <<pstate, rdyq, qkey, kpc, loopVars>>
    BY <1>5 DEF Sendf
  <2>2. TypeOK'
    BY <1>1, <1>2, <1>3, <2>1 DEF IInv, TypeOK, semVars, schedVars, loopVars
  <2>3. ReadyQ' /\ SleepQ' /\ WaitQ'
    BY <1>1, <2>1, ListsSame DEF semVars
  <2>4. SemCountOK' /\ CurrentOK' /\ LoopOK'
    BY <1>1, <2>1 DEF IInv, SemCountOK, CurrentOK, LoopOK, semVars, schedVars, loopVars
  <2> QED BY <2>2, <2>3, <2>4 DEF IInv
<1> QED BY <1>4, <1>5

\* A message is taken, or its absence noticed, without blocking.
LEMMA TakeMessageFact ==
    ASSUME IInv, kpc = "run", currpid \in Users, TakeMessage("run")
    PROVE  IInv'
<1>1. /\ currpid \in Procs /\ phasmsg' = [phasmsg EXCEPT ![currpid] = FALSE]
      /\ cont' = [cont EXCEPT ![currpid] = "none"] /\ kpc' = "run"
      /\ UNCHANGED <<pstate, pprio, psem, pmsg, semVars, listVars, schedVars, loopVars>>
  BY Ranges DEF TakeMessage
<1>2. phasmsg' \in [Procs -> BOOLEAN]
  BY <1>1 DEF IInv, TypeOK
<1>3. cont' \in [Procs -> Conts]
  BY <1>1 DEF IInv, TypeOK, Conts
<1>4. TypeOK'
  BY <1>1, <1>2, <1>3 DEF IInv, TypeOK, KPCs, semVars, listVars, schedVars, loopVars
<1>5. ReadyQ' /\ SleepQ' /\ WaitQ'
  BY <1>1, ListsSame DEF listVars, semVars
<1>6. SemCountOK' /\ CurrentOK' /\ LoopOK'
  BY <1>1 DEF IInv, SemCountOK, CurrentOK, LoopOK, semVars, schedVars, loopVars
<1> QED BY <1>4, <1>5, <1>6 DEF IInv

\* receive(), recvclr() and the return of receive() and recvtim().
LEMMA ReceiveStep == IInv /\ (Receive \/ Recvclr \/ ReceiveReturn) => IInv'
<1>1. ASSUME IInv, Receive, phasmsg[currpid] PROVE IInv'
  BY <1>1, RunningFact, TakeMessageFact DEF Receive, Call
<1>2. ASSUME IInv, Recvclr \/ ReceiveReturn PROVE IInv'
  BY <1>2, RunningFact, TakeMessageFact DEF Recvclr, ReceiveReturn, Call
<1>3. ASSUME IInv, Receive, ~phasmsg[currpid] PROVE IInv'
  <2>1. /\ currpid \in Users /\ currpid \in Procs /\ pstate[currpid] = "PRCURR" /\ kpc = "run"
        /\ pstate' = [pstate EXCEPT ![currpid] = "PRRECV"] /\ kpc' = "resched"
        /\ cont' = [cont EXCEPT ![currpid] = "receive"]
        /\ UNCHANGED <<pprio, psem, pmsg, phasmsg, semVars, listVars, schedVars, loopVars>>
    BY <1>3, RunningFact DEF Receive, Call, EnterResched
  <2>2. TypeOK'
    <3>1. pstate' \in [Procs -> PStates]
      BY <1>3, <2>1 DEF IInv, TypeOK, PStates
    <3>2. cont' \in [Procs -> Conts]
      BY <1>3, <2>1 DEF IInv, TypeOK, Conts
    <3> QED BY <1>3, <2>1, <3>1, <3>2 DEF IInv, TypeOK, KPCs, semVars, listVars, schedVars, loopVars
  <2>3. ReadyQ' /\ SleepQ' /\ WaitQ'
    BY <1>3, <2>1, <2>2, ListsKept DEF IInv, TypeOK, semVars, listVars
  <2>4. SemCountOK' /\ CurrentOK' /\ LoopOK'
    BY <1>3, <2>1, Ranges DEF IInv, TypeOK, SemCountOK, CurrentOK, LoopOK, semVars, listVars, schedVars, loopVars
  <2> QED BY <2>2, <2>3, <2>4 DEF IInv
<1> QED BY <1>1, <1>2, <1>3

\* recvtim() and sleep10() start insertd's walk of the sleep list.
LEMMA InsertdStart ==
    ASSUME IInv, NEW n \in 0..MaxSleep, Recvtim(n) \/ Sleep10(n)
    PROVE  IInv'
<1>1. CASE TakeMessage("run") /\ Running
  BY <1>1, RunningFact, TakeMessageFact
<1>2. CASE \E c \in {"none", "recvtim"} : EnterInsertd(c, n) /\ Running
  <2>1. PICK c \in {"none", "recvtim"} : EnterInsertd(c, n) /\ Running
    BY <1>2
  <2>2. /\ currpid \in Users /\ currpid \in Procs /\ pstate[currpid] = "PRCURR"
        /\ kpc = "run" /\ n \in Int
        /\ cont' = [cont EXCEPT ![currpid] = c] /\ kpc' = "insertd" /\ kcnt' = n /\ kidx' = 1
        /\ UNCHANGED <<pstate, pprio, psem, pmsg, phasmsg, semVars, listVars, schedVars, ksem>>
    BY <2>1, RunningFact, KernelAssumption DEF EnterInsertd
  <2>3. cont' \in [Procs -> Conts]
    BY <2>2 DEF IInv, TypeOK, Conts
  <2>4. kidx' \in Nat /\ kcnt' \in Int /\ kpc' \in KPCs
    BY <2>2 DEF KPCs
  <2>5. TypeOK'
    BY <2>2, <2>3, <2>4 DEF IInv, TypeOK, semVars, listVars, schedVars
  <2>6. ReadyQ' /\ SleepQ' /\ WaitQ'
    BY <2>2, ListsSame DEF listVars, semVars
  <2>7. SemCountOK' /\ CurrentOK'
    BY <2>2 DEF IInv, SemCountOK, CurrentOK, semVars, schedVars
  <2>8. LoopOK'
    <3>1. Len(clockq) \in Nat
      BY DEF IInv, TypeOK
    <3>2. 1 \in 1..(Len(clockq)+1)
      BY <3>1
    <3> QED BY <2>2, <3>2 DEF LoopOK, listVars, schedVars
  <2> QED BY <2>5, <2>6, <2>7, <2>8 DEF IInv
<1> QED BY <1>1, <1>2 DEF Recvtim, Sleep10, Call

\* insertd() passes an entry.
LEMMA InsertdWalkStep == IInv /\ InsertdWalk => IInv'
<1> SUFFICES ASSUME IInv, InsertdWalk PROVE IInv'
  OBVIOUS
<1>1. /\ kpc = "insertd" /\ kidx <= Len(clockq) /\ kcnt' = kcnt - qkey[clockq[kidx]]
      /\ kidx' = kidx + 1 /\ UNCHANGED <<procVars, semVars, listVars, schedVars, kpc, ksem>>
  BY DEF InsertdWalk
<1>2. kidx \in 1..(Len(clockq)+1) /\ currpid \in Users
  BY <1>1 DEF IInv, LoopOK
<1>3. clockq \in Seq(Procs) /\ qkey \in [Procs -> Int] /\ Len(clockq) \in Nat /\ kcnt \in Int
  BY DEF IInv, TypeOK
<1>4. kidx' \in 1..(Len(clockq)+1) /\ kidx' \in Nat /\ kcnt' \in Int
  <2>1. clockq[kidx] \in Procs /\ kidx \in Int
    BY <1>1, <1>2, <1>3
  <2>2. kcnt' \in Int
    BY <1>1, <1>3, <2>1
  <2> QED BY <1>1, <1>2, <1>3, <2>2
<1>5. TypeOK'
  BY <1>1, <1>4 DEF IInv, TypeOK, procVars, semVars, listVars, schedVars
<1>6. ReadyQ' /\ SleepQ' /\ WaitQ'
  BY <1>1, ListsSame DEF procVars, semVars, listVars
<1>7. SemCountOK' /\ CurrentOK'
  BY <1>1 DEF IInv, SemCountOK, CurrentOK, procVars, semVars, schedVars
<1>8. LoopOK'
  BY <1>1, <1>2, <1>4 DEF LoopOK, listVars, schedVars
<1> QED BY <1>5, <1>6, <1>7, <1>8 DEF IInv

\* insertd() links the caller in, which then sleeps.
LEMMA InsertdLinkStep == IInv /\ InsertdLink => IInv'
<1> SUFFICES ASSUME IInv, InsertdLink PROVE IInv'
  OBVIOUS
<1>1. /\ kpc = "insertd" /\ kidx \in 1..(Len(clockq)+1) /\ currpid \in Users /\ currpid \in Procs
      /\ pstate[currpid] = "PRCURR"
  BY Ranges DEF InsertdLink, IInv, LoopOK, CurrentOK
<1>2. PICK st \in {"PRTRECV", "PRSLEEP"} : pstate' = [pstate EXCEPT ![currpid] = st]
  BY DEF InsertdLink
<1>3. /\ clockq' = InsertAt(clockq, kidx, currpid)
      /\ qkey' = IF kidx <= Len(clockq)
                   THEN [qkey EXCEPT ![currpid] = kcnt, ![clockq[kidx]] = @ - kcnt]
                   ELSE [qkey EXCEPT ![currpid] = kcnt]
      /\ kpc' \in KPCs /\ ksem' \in Sems /\ kcnt' \in Int /\ kidx' \in Nat
      /\ kpc' = "resched" /\ LoopOK'
      /\ UNCHANGED <<pprio, psem, pmsg, phasmsg, cont, semVars, rdyq, schedVars>>
  BY LeaveLoopFact DEF InsertdLink
<1>4. Lists(clockq', Slp \cup {currpid}, Procs)
  <2>1. currpid \notin Slp /\ Lists(clockq, Slp, Procs)
    BY <1>1 DEF Slp, IInv, SleepQ
  <2> QED BY <1>1, <1>3, <2>1, InsertLists
<1>5. qkey' \in [Procs -> Int]
  <2>1. qkey \in [Procs -> Int] /\ clockq \in Seq(Procs) /\ kcnt \in Int
    BY DEF IInv, TypeOK
  <2>2. kidx <= Len(clockq) => clockq[kidx] \in Procs
    BY <1>1, <2>1
  <2> QED BY <1>1, <1>3, <2>1, <2>2
<1>6. TypeOK'
  <2>1. pstate' \in [Procs -> PStates]
    BY <1>1, <1>2 DEF IInv, TypeOK, PStates
  <2>2. clockq' \in Seq(Procs)
    BY <1>4 DEF Lists
  <2> QED BY <1>3, <1>5, <2>1, <2>2 DEF IInv, TypeOK, semVars, schedVars
<1>7. Rdy' = Rdy /\ Slp' = Slp \cup {currpid} /\ \A s \in Sems : Wtg(s)' = Wtg(s)
  BY <1>1, <1>2, <1>3 DEF Rdy, Slp, Wtg, IInv, TypeOK
<1>8. ReadyQ' /\ SleepQ' /\ WaitQ'
  BY <1>3, <1>4, <1>7 DEF ReadyQ, SleepQ, WaitQ, IInv, semVars
<1>9. SemCountOK'
  BY <1>1, <1>3 DEF IInv, SemCountOK, semVars
<1>10. CurrentOK'
  BY <1>1, <1>2, <1>3, Ranges DEF IInv, TypeOK, CurrentOK, schedVars
<1> QED BY <1>3, <1>6, <1>8, <1>9, <1>10 DEF IInv

\* sleep(0), the null process, and the timer pop.
LEMMA IdleSteps == IInv /\ (Yield \/ NullStep \/ Tick) => IInv'
<1> SUFFICES ASSUME IInv, Yield \/ NullStep \/ Tick PROVE IInv'
  OBVIOUS
<1>1. /\ kpc \in {"run", "wait", "posted"} /\ kpc' \in {"run", "wait", "posted", "resched"}
      /\ UNCHANGED <<procVars, semVars, rdyq, clockq, currpid, nextproc, nextsem, numproc, loopVars>>
  BY DEF Yield, Call, Running, NullStep, NullWait, NullWake, Tick, EnterResched, listVars, schedVars
<1>2. qkey' \in [Procs -> Int]
  <2>1. qkey \in [Procs -> Int] /\ clockq \in Seq(Procs)
    BY DEF IInv, TypeOK
  <2>2. clockq # <<>> => Head(clockq) \in Procs
    BY <2>1
  <2> QED BY <2>1, <2>2 DEF Yield, NullStep, NullWait, NullWake, Tick, listVars
<1>3. preempt' \in 0..QUANTUM
  <2>1. preempt \in 0..QUANTUM
    BY DEF IInv, TypeOK
  <2> QED BY <2>1, KernelAssumption DEF Yield, NullStep, NullWait, NullWake, Tick, schedVars
<1>4. TypeOK'
  BY <1>1, <1>2, <1>3 DEF IInv, TypeOK, KPCs, procVars, semVars, loopVars
<1>5. ReadyQ' /\ SleepQ' /\ WaitQ'
  BY <1>1, ListsSame DEF procVars, semVars
<1>6. SemCountOK' /\ CurrentOK' /\ LoopOK'
  BY <1>1 DEF IInv, SemCountOK, CurrentOK, LoopOK, procVars, semVars, loopVars
<1> QED BY <1>4, <1>5, <1>6 DEF IInv

-----------------------------------------------------------------------------
(* The theorems.                                                           *)

\* Every step of the kernel preserves the inductive invariant.
LEMMA NextIInv == IInv /\ [Next]_vars => IInv'
<1> SUFFICES ASSUME IInv, [Next]_vars PROVE IInv'
  OBVIOUS
<1>1. CASE Resched
  BY <1>1, WakeupStep, ResumeStep, ReschedKeepStep, ReschedYieldStep, ReschedBlockedStep DEF Resched
<1>2. CASE CallStep
  BY <1>2, SignalnSteps, FlushSteps, InsertdWalkStep, InsertdLinkStep, ReceiveStep DEF CallStep
<1>3. CASE NullStep \/ Tick \/ Yield
  BY <1>3, IdleSteps
<1>4. CASE ProcessCall
  BY <1>4, CreateStep, ResumeStep, SuspendReadyStep, KillWaitingStep, KillReadyStep, KillTimedStep,
     KillIdleStep, ChprioStep, SuspendSelfStep, KillSelfStep DEF ProcessCall
<1>5. CASE SemaphoreCall
  BY <1>5, ScreateStep, WaitStep, SignalStep, FlushStart, SignalnSteps DEF SemaphoreCall
<1>6. CASE MessageCall
  BY <1>3, <1>6, SendStep, SendfStep, ReceiveStep, InsertdStart DEF MessageCall
<1>7. CASE UNCHANGED vars
  <2>1. UNCHANGED <<procVars, semVars, listVars, schedVars, kpc, loopVars>>
    BY <1>7 DEF vars
  <2>2. TypeOK'
    BY <2>1 DEF IInv, TypeOK, procVars, semVars, listVars, schedVars, loopVars
  <2>3. ReadyQ' /\ SleepQ' /\ WaitQ'
    BY <2>1, ListsSame DEF procVars, semVars, listVars
  <2>4. SemCountOK' /\ CurrentOK' /\ LoopOK'
    BY <2>1 DEF IInv, SemCountOK, CurrentOK, LoopOK, procVars, semVars, listVars, schedVars, loopVars
  <2> QED BY <2>2, <2>3, <2>4 DEF IInv
<1> QED BY <1>1, <1>2, <1>3, <1>4, <1>5, <1>6, <1>7 DEF Next

\* The inductive invariant holds in every reachable state.
THEOREM KernelInvariant == Spec => []IInv
BY InitIInv, NextIInv, PTL DEF Spec

\* Every kernel variable keeps its type, for every size of the tables.
THEOREM TypeCorrect == Spec => []TypeOK
<1>1. IInv => TypeOK
  BY DEF IInv
<1> QED BY <1>1, KernelInvariant, PTL

\* ready(), dequeue(), getlast(), chprio() and killpid() keep the ready list
\* exactly the PRREADY processes, each once.
THEOREM ReadyListCorrect == Spec => []ReadyListOK
<1>1. IInv => ReadyListOK
  BY DEF IInv, ReadyQ, Lists, Rdy, ReadyListOK
<1> QED BY <1>1, KernelInvariant, PTL

\* Every semaphore queue holds exactly the processes that wait on it.
THEOREM SemQueuesCorrect == Spec => []SemQueuesOK
<1>1. IInv => SemQueuesOK
  BY DEF IInv, WaitQ, Lists, Wtg, SemQueuesOK
<1> QED BY <1>1, KernelInvariant, PTL

\* insertd(), wakeup() and unsleep() keep the sleep list exactly the
\* processes in sleep10() and recvtim().
THEOREM SleepListCorrect == Spec => []SleepListOK
<1>1. IInv => SleepListOK
  BY DEF IInv, SleepQ, Lists, Slp, SleepListOK
<1> QED BY <1>1, KernelInvariant, PTL

\* A semaphore's count is minus the number of its waiters whenever it is
\* negative, through wait, signal, signaln, sreset, sdelete and killpid.
THEOREM SemCountCorrect == Spec => []SemCountOK
<1>1. IInv => SemCountOK
  BY DEF IInv
<1> QED BY <1>1, KernelInvariant, PTL

\* Only currpid is PRCURR, and resched() always has a process to dispatch.
THEOREM CurrentCorrect == Spec => []CurrentOK
<1>1. IInv => CurrentOK
  BY DEF IInv
<1> QED BY <1>1, KernelInvariant, PTL

\* All lists together: whatever calls the processes make, each of them is
\* on exactly the list its state names, or is the one that runs.
THEOREM ListsCorrect == Spec => []ListsOK
<1>1. TypeOK /\ ReadyListOK /\ SemQueuesOK /\ SleepListOK /\ CurrentOK => ListsOK
  BY DEF ListsOK
<1> QED
  BY <1>1, TypeCorrect, ReadyListCorrect, SemQueuesCorrect, SleepListCorrect, CurrentCorrect, PTL

-----------------------------------------------------------------------------
(* The order of the ready list.                                            *)

\* An entry of the sleep list is not ready.
LEMMA SleeperNotReady ==
    ASSUME IInv
    PROVE  /\ \A i \in 1..Len(clockq) : clockq[i] \in Procs /\ clockq[i] \notin Rdy
           /\ clockq # <<>> => Head(clockq) \in Procs /\ Head(clockq) \notin Rdy
<1>1. clockq \in Seq(Procs) /\ Range(clockq) = Slp
  BY DEF IInv, SleepQ, Lists
<1>2. \A i \in 1..Len(clockq) : clockq[i] \in Slp
  BY <1>1 DEF Range
<1>3. \A p \in Slp : p \in Procs /\ p \notin Rdy
  BY DEF Slp, Rdy
<1>4. clockq # <<>> => Head(clockq) = clockq[1] /\ 1 \in 1..Len(clockq)
  BY <1>1
<1> QED BY <1>2, <1>3, <1>4

\* The entries of the ready list are the ready processes.
LEMMA ReadyEntries ==
    ASSUME IInv
    PROVE  /\ rdyq \in Seq(Procs)
           /\ \A i \in 1..Len(rdyq) : rdyq[i] \in Rdy
           /\ \A p \in Rdy : \E i \in 1..Len(rdyq) : rdyq[i] = p
BY DEF IInv, ReadyQ, Lists, Range

\* ReadyListSorted says the list is sorted by the priorities.
LEMMA SortedByPrio ==
    ASSUME IInv
    PROVE  ReadyListSorted <=> /\ Sorted(rdyq, pprio)
                               /\ \A p \in Rdy : qkey[p] = pprio[p]
BY ReadyEntries DEF ReadyListSorted, Sorted

\* A step that leaves the ready list, and the keys and priorities of its
\* entries, alone keeps it sorted.
LEMMA SortedKept ==
    ASSUME IInv, ReadyListSorted, UNCHANGED rdyq,
           \A p \in Rdy : qkey'[p] = qkey[p] /\ pprio'[p] = pprio[p]
    PROVE  ReadyListSorted'
<1>1. \A i \in 1..Len(rdyq) : /\ qkey'[rdyq[i]] = qkey[rdyq[i]]
                              /\ pprio'[rdyq[i]] = pprio[rdyq[i]]
  BY ReadyEntries
<1> QED BY <1>1 DEF ReadyListSorted

\* A process taken off the ready list leaves it sorted.
LEMMA SortedOff ==
    ASSUME IInv, ReadyListSorted, NEW i \in 1..Len(rdyq), rdyq' = RemoveAt(rdyq, i),
           UNCHANGED <<qkey, pprio>>
    PROVE  ReadyListSorted'
<1>1. rdyq \in Seq(Procs) /\ qkey \in [Procs -> Int] /\ Sorted(rdyq, qkey)
  BY DEF IInv, TypeOK, ReadyListSorted, Sorted
<1>2. Sorted(rdyq', qkey)
  BY <1>1, RemoveSorted
<1>3. \A j \in 1..Len(rdyq') : \E k \in 1..Len(rdyq) : rdyq'[j] = rdyq[k]
  BY <1>1, RemoveAtOld
<1> QED BY <1>2, <1>3 DEF ReadyListSorted, Sorted

\* A process put at its place by insert() leaves the list sorted; the keys
\* of the entries may change only together with nothing else.
LEMMA SortedIn ==
    ASSUME NEW q \in Seq(Procs), Sorted(q, qkey), qkey \in [Procs -> Int],
           NEW p \in Procs, NEW i \in 1..(Len(q)+1), IsInsertPos(q, pprio'[p], i),
           rdyq' = InsertAt(q, i, p), qkey' \in [Procs -> Int], qkey'[p] = pprio'[p],
           \A j \in 1..Len(q) : qkey[q[j]] = pprio'[q[j]] /\ qkey'[q[j]] = qkey[q[j]]
    PROVE  ReadyListSorted'
<1>1. Len(q) \in Nat /\ \A j \in 1..Len(q) : q[j] \in Procs /\ qkey[q[j]] \in Int
  OBVIOUS
<1>2. \A j \in 1..(i-1) : qkey[q[j]] <= qkey'[p]
  <2> TAKE j \in 1..(i-1)
  <2>1. qkey[q[j]] < pprio'[p] /\ j \in 1..Len(q) /\ qkey'[p] \in Int
    BY <1>1, SMTT(40) DEF IsInsertPos
  <2> QED BY <1>1, <2>1
<1>3. i <= Len(q) => qkey[q[i]] >= qkey'[p]
  BY DEF IsInsertPos
<1>4. Sorted(rdyq', qkey')
  BY <1>2, <1>3, InsertSorted
<1>5. \A j \in 1..Len(rdyq') : rdyq'[j] = p \/ \E k \in 1..Len(q) : rdyq'[j] = q[k]
  BY InsertAtOld
<1>6. \A j \in 1..Len(rdyq') : qkey'[rdyq'[j]] = pprio'[rdyq'[j]]
  <2> TAKE j \in 1..Len(rdyq')
  <2>1. CASE rdyq'[j] = p
    BY <2>1
  <2>2. ASSUME NEW k \in 1..Len(q), rdyq'[j] = q[k] PROVE qkey'[rdyq'[j]] = pprio'[rdyq'[j]]
    <3>1. qkey'[q[k]] = pprio'[q[k]]
      OBVIOUS
    <3> QED BY <2>2, <3>1
  <2> QED BY <1>5, <2>1, <2>2
<1> QED BY <1>4, <1>6 DEF ReadyListSorted, Sorted

\* ready() leaves the list sorted.
LEMMA SortedReady ==
    ASSUME IInv, ReadyListSorted, NEW p \in Procs, p \notin Rdy,
           InsertReady(p, rdyq), UNCHANGED pprio
    PROVE  ReadyListSorted'
<1>1. PICK i \in 1..(Len(rdyq)+1) : IsInsertPos(rdyq, pprio[p], i) /\ rdyq' = InsertAt(rdyq, i, p)
  BY DEF InsertReady
<1>2. rdyq \in Seq(Procs) /\ qkey \in [Procs -> Int] /\ pprio \in [Procs -> Nat] /\ Sorted(rdyq, qkey)
  BY DEF IInv, TypeOK, ReadyListSorted, Sorted
<1>3. qkey' = [qkey EXCEPT ![p] = pprio[p]]
  BY DEF InsertReady
<1>4. qkey' \in [Procs -> Int] /\ qkey'[p] = pprio'[p]
  BY <1>2, <1>3
<1>5. \A j \in 1..Len(rdyq) : qkey[rdyq[j]] = pprio'[rdyq[j]] /\ qkey'[rdyq[j]] = qkey[rdyq[j]]
  BY <1>2, <1>3, ReadyEntries DEF ReadyListSorted
<1> QED BY <1>1, <1>2, <1>4, <1>5, SortedIn

\* The last entry of the sorted list has the highest priority on it.
LEMMA LastIsHighest ==
    ASSUME NEW q \in Seq(Procs), q # <<>>, NEW key \in [Procs -> Int], Sorted(q, key)
    PROVE  \A i \in 1..Len(q) : key[q[i]] <= key[Last(q)]
<1>1. Len(q) \in Nat /\ Last(q) = q[Len(q)] /\ Len(q) \in 1..Len(q)
  BY FrontRemoves
<1> TAKE i \in 1..Len(q)
<1>2. i < Len(q) \/ i = Len(q)
  BY <1>1
<1> QED BY <1>1, <1>2 DEF Sorted

-----------------------------------------------------------------------------
(* The process that runs has the highest priority.                         *)

\* The list part of HighestPriorityRuns is kept by the step, which makes no
\* process ready and raises no priority unless it ends in resched().
LEMMA PolicyKept ==
    ASSUME IInv, HighestPriorityRuns, ReadyListSorted',
           kpc' \in {"run", "wait"} =>
              /\ kpc \in {"run", "wait"} /\ currpid' = currpid /\ pprio'[currpid] = pprio[currpid]
              /\ \A p \in Procs : pstate'[p] = "PRREADY" =>
                    pstate[p] = "PRREADY" /\ pprio'[p] = pprio[p]
    PROVE  HighestPriorityRuns'
BY DEF HighestPriorityRuns

\* resched() with a current process that may go on keeps it only when no
\* ready process has its priority or a higher one.
LEMMA ReschedKeepPolicy == ASSUME IInv, HighestPriorityRuns, ReschedKeep PROVE HighestPriorityRuns'
<1>1. /\ kpc = "resched" /\ LastKey < pprio[currpid]
      /\ UNCHANGED <<pstate, pprio, rdyq, qkey, currpid>>
  BY DEF ReschedKeep, KeepsCpu, procVars, listVars, schedVars
<1>2. ReadyListSorted'
  BY <1>1, SortedKept DEF HighestPriorityRuns
<1>3. ASSUME NEW p \in Procs, pstate[p] = "PRREADY" PROVE pprio[p] <= pprio[currpid]
  <2>1. PICK i \in 1..Len(rdyq) : rdyq[i] = p
    BY <1>3, ReadyEntries DEF Rdy
  <2>2. rdyq \in Seq(Procs) /\ rdyq # <<>> /\ qkey \in [Procs -> Int] /\ Sorted(rdyq, qkey)
    <3>1. rdyq \in Seq(Procs) /\ qkey \in [Procs -> Int] /\ Sorted(rdyq, qkey)
      BY DEF IInv, TypeOK, HighestPriorityRuns, ReadyListSorted, Sorted
    <3>2. rdyq # <<>>
      BY <2>1
    <3> QED BY <3>1, <3>2
  <2>3. qkey[p] <= qkey[Last(rdyq)]
    BY <2>1, <2>2, LastIsHighest
  <2>4. qkey[Last(rdyq)] < pprio[currpid] /\ Last(rdyq) \in Procs
    BY <1>1, <2>2, FrontRemoves DEF LastKey
  <2>5. qkey[p] = pprio[p]
    BY <2>1 DEF HighestPriorityRuns, ReadyListSorted
  <2>6. qkey[p] \in Int /\ qkey[Last(rdyq)] \in Int /\ pprio[currpid] \in Int
    BY <2>2, <2>4 DEF IInv, TypeOK
  <2> QED BY <2>3, <2>4, <2>5, <2>6
<1> QED BY <1>1, <1>2, <1>3 DEF HighestPriorityRuns

\* The context switch of resched() takes the entry of highest priority.
LEMMA DispatchPolicy ==
    ASSUME IInv, IInv', NEW list \in Seq(Procs), list # <<>>, Sorted(list, pprio),
           rdyq' = Front(list), currpid' = Last(list), UNCHANGED pprio,
           qkey' \in [Procs -> Int], \A i \in 1..Len(list) : qkey'[list[i]] = pprio[list[i]]
    PROVE  HighestPriorityRuns'
<1>0. pprio \in [Procs -> Nat]
  BY DEF IInv, TypeOK
<1>1. pprio \in [Procs -> Int]
  BY <1>0
<1>2. Front(list) = RemoveAt(list, Len(list)) /\ Len(list) \in 1..Len(list)
  BY FrontRemoves
<1>3. Sorted(rdyq', pprio)
  BY <1>1, <1>2, RemoveSorted
<1>4. \A j \in 1..Len(rdyq') : \E k \in 1..Len(list) : rdyq'[j] = list[k]
  BY <1>2, RemoveAtOld
<1>5. \A j \in 1..Len(rdyq') : qkey'[rdyq'[j]] = pprio'[rdyq'[j]]
  BY <1>4
<1>6. ReadyListSorted'
  BY <1>3, <1>5 DEF ReadyListSorted, Sorted
<1>7. ASSUME NEW p \in Procs, pstate'[p] = "PRREADY" PROVE pprio'[p] <= pprio'[currpid']
  <2>1. PICK j \in 1..Len(rdyq') : rdyq'[j] = p
    BY <1>7 DEF IInv, ReadyQ, Lists, Range, Rdy
  <2>2. PICK k \in 1..Len(list) : list[k] = p
    BY <1>4, <2>1
  <2> QED BY <1>1, <2>2, LastIsHighest
<1> QED BY <1>6, <1>7 DEF HighestPriorityRuns

\* resched() of a process that must yield, and of one that has blocked.
LEMMA ReschedSwitchPolicy ==
    ASSUME IInv, HighestPriorityRuns, ReschedYield \/ ReschedBlocked PROVE HighestPriorityRuns'
<1>1. IInv'
  BY ReschedYieldStep, ReschedBlockedStep
<1>2. rdyq \in Seq(Procs) /\ qkey \in [Procs -> Int] /\ pprio \in [Procs -> Nat] /\ currpid \in Procs
  BY DEF IInv, TypeOK
<1>3. Sorted(rdyq, pprio) /\ \A j \in 1..Len(rdyq) : qkey[rdyq[j]] = pprio[rdyq[j]]
  BY SortedByPrio DEF HighestPriorityRuns, ReadyListSorted
<1>4. CASE ReschedYield
  <2>1. PICK i \in 1..(Len(rdyq)+1) :
           IsInsertPos(rdyq, pprio[currpid], i) /\ Dispatch(InsertAt(rdyq, i, currpid))
    BY <1>4 DEF ReschedYield
  <2> DEFINE list == InsertAt(rdyq, i, currpid)
  <2>2. list \in Seq(Procs)
    BY <1>2, InsertAtElements
  <2>3. \A j \in 1..(i-1) : pprio[rdyq[j]] <= pprio[currpid]
    <3> TAKE j \in 1..(i-1)
    <3>1. j \in 1..Len(rdyq) /\ Len(rdyq) \in Nat
      BY <1>2
    <3>2. qkey[rdyq[j]] < pprio[currpid] /\ rdyq[j] \in Procs
      BY <1>2, <2>1, <3>1 DEF IsInsertPos
    <3> QED BY <1>2, <1>3, <3>1, <3>2
  <2>4. i <= Len(rdyq) => pprio[rdyq[i]] >= pprio[currpid]
    BY <1>3, <2>1 DEF IsInsertPos
  <2>5. Sorted(list, pprio)
    <3>1. pprio \in [Procs -> Int]
      BY <1>2
    <3> QED BY <1>2, <1>3, <2>3, <2>4, <3>1, InsertSorted
  <2>6. \A j \in 1..Len(list) : list[j] = currpid \/ \E k \in 1..Len(rdyq) : list[j] = rdyq[k]
    BY <1>2, InsertAtOld
  <2>7. list # <<>> /\ rdyq' = Front(list) /\ currpid' = Last(list) /\ UNCHANGED pprio
    BY <2>1 DEF Dispatch
  <2> HIDE DEF list
  <2>8. qkey' = [qkey EXCEPT ![currpid] = pprio[currpid]]
    BY <1>4 DEF ReschedYield
  <2>9. qkey' \in [Procs -> Int] /\ \A j \in 1..Len(list) : qkey'[list[j]] = pprio[list[j]]
    <3>1. qkey'[currpid] = pprio[currpid]
      BY <1>2, <2>8
    <3>2. \A k \in 1..Len(rdyq) : qkey'[rdyq[k]] = pprio[rdyq[k]]
      BY <1>2, <1>3, <2>8, SMTT(40)
    <3>3. qkey' \in [Procs -> Int]
      BY <1>2, <2>8
    <3>4. \A j \in 1..Len(list) : qkey'[list[j]] = pprio[list[j]]
      BY <2>6, <3>1, <3>2
    <3> QED BY <3>3, <3>4
  <2> QED BY <1>1, <2>2, <2>5, <2>7, <2>9, DispatchPolicy
<1>5. CASE ReschedBlocked
  <2>1. rdyq # <<>> /\ rdyq' = Front(rdyq) /\ currpid' = Last(rdyq) /\ UNCHANGED <<pprio, qkey>>
    BY <1>5 DEF ReschedBlocked, Dispatch
  <2> QED BY <1>1, <1>2, <1>3, <2>1, DispatchPolicy
<1> QED BY <1>4, <1>5

\* wakeup(), and resume() by a process or by iohook(), end in resched().
LEMMA WakePolicy ==
    ASSUME IInv, HighestPriorityRuns, Wakeup \/ \E p \in Users : Resume(p) \/ Iohook(p)
    PROVE  HighestPriorityRuns'
<1>1. PICK p \in Procs : p \notin Rdy /\ InsertReady(p, rdyq)
  <2>1. CASE Wakeup
    <3>1. clockq # <<>> /\ InsertReady(Head(clockq), rdyq)
      BY <2>1 DEF Wakeup, Expired
    <3> QED BY <3>1, SleeperNotReady
  <2>2. ASSUME NEW p \in Users, Resume(p) \/ Iohook(p)
        PROVE  p \in Procs /\ p \notin Rdy /\ InsertReady(p, rdyq)
    BY <2>2, Ranges DEF Resume, Iohook, Rdy
  <2> QED BY <2>1, <2>2
<1>2. UNCHANGED pprio /\ kpc' = "resched"
  BY DEF Wakeup, Resume, Iohook, EnterResched
<1>3. ReadyListSorted'
  BY <1>1, <1>2, SortedReady DEF HighestPriorityRuns
<1> QED BY <1>2, <1>3, PolicyKept

\* create() sets the priority of a process that is not ready yet.
LEMMA CreatePolicy ==
    ASSUME IInv, HighestPriorityRuns, NEW x \in Prios, Create(x) PROVE HighestPriorityRuns'
<1>1. PICK p \in Procs :
         /\ pstate[p] = "PRFREE"
         /\ pstate' = [pstate EXCEPT ![p] = "PRSUSP"]
         /\ pprio' = [pprio EXCEPT ![p] = x]
  BY DEF Create, IsScanned
<1>2. kpc = "run" /\ pstate[currpid] = "PRCURR" /\ UNCHANGED <<rdyq, qkey, currpid, kpc>>
  BY RunningFact DEF Create, Call, listVars
<1>3. pstate \in [Procs -> PStates] /\ pprio \in [Procs -> Nat] /\ currpid \in Procs
  BY DEF IInv, TypeOK
<1>4. \A y \in Procs \ {p} : pprio'[y] = pprio[y] /\ pstate'[y] = pstate[y]
  BY <1>1, <1>3
<1>5. p \notin Rdy /\ p # currpid /\ pstate'[p] = "PRSUSP"
  BY <1>1, <1>2, <1>3 DEF Rdy
<1>6. ReadyListSorted'
  BY <1>2, <1>4, <1>5, SortedKept DEF HighestPriorityRuns, Rdy
<1> QED BY <1>2, <1>3, <1>4, <1>5, <1>6, PolicyKept

\* suspend() and killpid() of a ready process.
LEMMA OffReadyPolicy ==
    ASSUME IInv, HighestPriorityRuns, NEW p \in Users, SuspendReady(p) \/ KillReady(p)
    PROVE  HighestPriorityRuns'
<1>1. /\ Dequeued(p, rdyq, rdyq') /\ kpc = "run" /\ UNCHANGED <<pprio, qkey, currpid>>
      /\ \E st \in {"PRSUSP", "PRFREE"} : pstate' = [pstate EXCEPT ![p] = st]
  BY RunningFact DEF SuspendReady, KillReady, Call, Freed, schedVars
<1>2. \A y \in Procs : pstate'[y] = "PRREADY" => pstate[y] = "PRREADY"
  BY <1>1 DEF IInv, TypeOK
<1>3. ReadyListSorted'
  BY <1>1, SortedOff DEF Dequeued, HighestPriorityRuns
<1> QED BY <1>1, <1>2, <1>3, PolicyKept

\* chprio(): a ready process moves to the place of its new priority, and the
\* caller looks for a better one if the process was ready or running.
LEMMA ChprioPolicy ==
    ASSUME IInv, HighestPriorityRuns, NEW p \in Users, NEW x \in Prios, Chprio(p, x)
    PROVE  HighestPriorityRuns'
<1>1. /\ pprio' = [pprio EXCEPT ![p] = x] /\ UNCHANGED <<pstate, currpid>>
      /\ kpc = "run" /\ pstate[currpid] = "PRCURR"
      /\ pstate[p] \in {"PRREADY", "PRCURR"} => kpc' = "resched"
  BY RunningFact DEF Chprio, Call, schedVars
<1>2. /\ p \in Procs /\ x \in Nat /\ rdyq \in Seq(Procs) /\ Len(rdyq) \in Nat
      /\ qkey \in [Procs -> Int] /\ pprio \in [Procs -> Nat] /\ currpid \in Procs
  <2>1. p \in Procs /\ x \in Nat
    BY Ranges, KernelAssumption
  <2>2. rdyq \in Seq(Procs) /\ qkey \in [Procs -> Int] /\ pprio \in [Procs -> Nat] /\ currpid \in Procs
    BY DEF IInv, TypeOK
  <2> QED BY <2>1, <2>2
<1>3. pprio'[p] = x /\ \A y \in Procs \ {p} : pprio'[y] = pprio[y]
  BY <1>1, <1>2
<1>4. CASE pstate[p] # "PRREADY"
  <2>1. UNCHANGED <<rdyq, qkey>>
    BY <1>4 DEF Chprio
  <2>2. ReadyListSorted'
    BY <1>3, <1>4, <2>1, SortedKept DEF HighestPriorityRuns, Rdy
  <2>3. kpc' \in {"run", "wait"} => p # currpid
    BY <1>1
  <2> QED BY <1>1, <1>2, <1>3, <1>4, <2>2, <2>3, PolicyKept
<1>5. CASE pstate[p] = "PRREADY"
  <2>1. PICK i \in 1..Len(rdyq), j \in 1..Len(rdyq) :
           /\ rdyq[i] = p
           /\ IsInsertPos(RemoveAt(rdyq, i), x, j)
           /\ rdyq' = InsertAt(RemoveAt(rdyq, i), j, p)
           /\ qkey' = [qkey EXCEPT ![p] = x]
    BY <1>5 DEF Chprio
  <2> DEFINE rest == RemoveAt(rdyq, i)
  <2>2. /\ rest \in Seq(Procs) /\ Len(rest) = Len(rdyq) - 1
        /\ Lists(rest, Rdy \ {p}, Procs)
    <3>1. rest \in Seq(Procs) /\ Len(rest) = Len(rdyq) - 1
      BY <1>2, RemoveAtElements
    <3>2. Lists(rest, Rdy \ {p}, Procs)
      BY <2>1, RemoveLists DEF IInv, ReadyQ
    <3> QED BY <3>1, <3>2
  <2>3. Sorted(rest, qkey)
    <3>1. Sorted(rdyq, qkey)
      BY DEF HighestPriorityRuns, ReadyListSorted, Sorted
    <3> QED BY <1>2, <3>1, RemoveSorted
  <2>4. \A y \in Rdy : qkey[y] = pprio[y]
    BY SortedByPrio DEF HighestPriorityRuns
  <2>5. IsInsertPos(rest, x, j) /\ rdyq' = InsertAt(rest, j, p)
    BY <2>1
  <2> HIDE DEF rest
  <2>6. j \in 1..(Len(rest)+1)
    BY <1>2, <2>2
  <2>7. \A k \in 1..Len(rest) : rest[k] \in Rdy /\ rest[k] \in Procs \ {p}
    BY <2>2 DEF Lists, Range, Rdy
  <2>8. \A k \in 1..Len(rest) : qkey[rest[k]] = pprio[rest[k]]
    BY <2>4, <2>7
  <2>9. qkey' \in [Procs -> Int] /\ qkey'[p] = x /\ \A y \in Procs \ {p} : qkey'[y] = qkey[y]
    BY <1>2, <2>1
  <2>10. \A k \in 1..Len(rest) : qkey[rest[k]] = pprio'[rest[k]] /\ qkey'[rest[k]] = qkey[rest[k]]
    BY <1>3, <2>7, <2>8, <2>9
  <2>11. ReadyListSorted'
    BY <1>2, <1>3, <2>2, <2>3, <2>5, <2>6, <2>9, <2>10, SortedIn
  <2> QED BY <1>1, <1>5, <2>11, PolicyKept
<1> QED BY <1>4, <1>5

\* unsleep() of a killed process changes keys on the sleep list only.
LEMMA KillTimedPolicy ==
    ASSUME IInv, HighestPriorityRuns, NEW p \in Users, KillTimed(p) PROVE HighestPriorityRuns'
<1>1. /\ pstate' = [pstate EXCEPT ![p] = "PRFREE"] /\ kpc = "run"
      /\ UNCHANGED <<pprio, rdyq, currpid>> /\ Unsleep(p)
  BY RunningFact DEF KillTimed, Call, Freed
<1>2. PICK i \in 1..Len(clockq) :
         qkey' = IF i < Len(clockq) THEN [qkey EXCEPT ![clockq[i+1]] = @ + qkey[p]] ELSE qkey
  BY <1>1 DEF Unsleep
<1>3. qkey \in [Procs -> Int] /\ Len(clockq) \in Nat
  BY SMTT(40) DEF IInv, TypeOK
<1>4. i < Len(clockq) => clockq[i+1] \in Procs /\ clockq[i+1] \notin Rdy
  <2>1. i < Len(clockq) => i + 1 \in 1..Len(clockq)
    BY <1>3
  <2> QED BY <2>1, SleeperNotReady
<1>5. \A y \in Rdy : qkey'[y] = qkey[y]
  BY <1>2, <1>3, <1>4 DEF Rdy
<1>6. ReadyListSorted'
  BY <1>1, <1>5, SortedKept DEF HighestPriorityRuns
<1>7. \A y \in Procs : pstate'[y] = "PRREADY" => pstate[y] = "PRREADY"
  BY <1>1 DEF IInv, TypeOK
<1> QED BY <1>1, <1>6, <1>7, PolicyKept

\* Calls that touch neither the ready list nor a priority and ready nobody.
LEMMA PlainPolicy ==
    ASSUME IInv, HighestPriorityRuns, UNCHANGED <<rdyq, qkey, pprio>>,
           \/ UNCHANGED pstate
           \/ \E x \in Procs, st \in PStates \ {"PRREADY"} : pstate' = [pstate EXCEPT ![x] = st],
           kpc' \in {"run", "wait"} => kpc \in {"run", "wait"} /\ currpid' = currpid
    PROVE  HighestPriorityRuns'
<1>1. ReadyListSorted'
  BY SortedKept DEF HighestPriorityRuns
<1>2. \A y \in Procs : pstate'[y] = "PRREADY" => pstate[y] = "PRREADY"
  BY DEF IInv, TypeOK
<1> QED BY <1>1, <1>2, PolicyKept

\* The process calls that ready nobody and leave the ready list alone.
LEMMA ProcessPlain ==
    ASSUME IInv, HighestPriorityRuns,
           \/ SuspendSelf \/ KillSelf \/ ProcReturn
           \/ \E p \in Users : KillWaiting(p) \/ KillIdle(p) \/ KillDead(p)
    PROVE  HighestPriorityRuns'
<1>1. UNCHANGED <<rdyq, qkey, pprio>> /\ kpc = "run"
  BY RunningFact DEF SuspendSelf, KillSelf, ProcReturn, KillWaiting, KillIdle, KillDead, Call, Freed,
     listVars, procVars
<1>2. kpc' \in {"run", "wait"} => currpid' = currpid
  BY DEF SuspendSelf, KillSelf, ProcReturn, KillWaiting, KillIdle, KillDead, CountDown, EnterResched,
     schedVars
<1>3. \/ UNCHANGED pstate
      \/ \E x \in Procs, st \in PStates \ {"PRREADY"} : pstate' = [pstate EXCEPT ![x] = st]
  <2>1. currpid \in Procs /\ Users \subseteq Procs
    BY Ranges DEF IInv, TypeOK
  <2> QED BY <2>1 DEF SuspendSelf, KillSelf, ProcReturn, KillWaiting, KillIdle, KillDead, Freed,
             procVars, PStates
<1> QED BY <1>1, <1>2, <1>3, PlainPolicy

\* The semaphore calls and loop ends that ready nobody.
LEMMA SemaphorePlain ==
    ASSUME IInv, HighestPriorityRuns,
           \/ \E n \in 0..SemMax : Screate(n)
           \/ \E s \in Sems : Wait(s) \/ Sdelete(s) \/ \E n \in Int : Sreset(s, n) \/ Signaln(s, n)
           \/ SignalnDone \/ SresetDone \/ SdeleteDone
    PROVE  HighestPriorityRuns'
<1>1. UNCHANGED <<rdyq, qkey, pprio, currpid>>
  BY DEF Screate, Wait, Sdelete, Sreset, Signaln, SignalnDone, SresetDone, SdeleteDone, Enter,
     listVars, procVars, schedVars
<1>2. kpc' \in {"run", "wait"} => kpc \in {"run", "wait"}
  BY DEF Screate, Wait, Sdelete, Sreset, Signaln, SignalnDone, SresetDone, SdeleteDone, Enter,
     EnterResched, LeaveLoop
<1>3. \/ UNCHANGED pstate
      \/ \E x \in Procs, st \in PStates \ {"PRREADY"} : pstate' = [pstate EXCEPT ![x] = st]
  <2>1. currpid \in Procs
    BY DEF IInv, TypeOK
  <2> QED BY <2>1 DEF Screate, Wait, Sdelete, Sreset, Signaln, SignalnDone, SresetDone, SdeleteDone,
             Enter, procVars, PStates
<1> QED BY <1>1, <1>2, <1>3, PlainPolicy

\* The message calls, the walk of insertd() and the null process.
LEMMA MessagePlain ==
    ASSUME IInv, HighestPriorityRuns,
           \/ Receive \/ Recvclr \/ ReceiveReturn \/ InsertdWalk \/ Yield \/ NullStep
           \/ \E n \in 0..MaxSleep : Recvtim(n) \/ Sleep10(n)
    PROVE  HighestPriorityRuns'
<1>1. UNCHANGED <<rdyq, qkey, pprio, currpid>>
  BY DEF Receive, Recvclr, ReceiveReturn, InsertdWalk, Yield, NullStep, NullWait, NullWake, Recvtim,
     Sleep10, TakeMessage, EnterInsertd, listVars, procVars, schedVars
<1>2. kpc' \in {"run", "wait"} => kpc \in {"run", "wait"}
  BY DEF Receive, Recvclr, ReceiveReturn, InsertdWalk, Yield, NullStep, NullWait, NullWake, Recvtim,
     Sleep10, TakeMessage, EnterInsertd, EnterResched, Call, Running
<1>3. \/ UNCHANGED pstate
      \/ \E x \in Procs, st \in PStates \ {"PRREADY"} : pstate' = [pstate EXCEPT ![x] = st]
  <2>1. currpid \in Procs
    BY DEF IInv, TypeOK
  <2> QED BY <2>1 DEF Receive, Recvclr, ReceiveReturn, InsertdWalk, Yield, NullStep, NullWait,
             NullWake, Recvtim, Sleep10, TakeMessage, EnterInsertd, procVars, PStates
<1> QED BY <1>1, <1>2, <1>3, PlainPolicy

\* A waiter released by signal(), signaln(), sreset() or sdelete() goes to its
\* place on the ready list; the call then ends in resched().
LEMMA ReleasePolicy ==
    ASSUME IInv, HighestPriorityRuns, FlushStep \/ SignalnStep \/ \E s \in Sems : Signal(s)
    PROVE  HighestPriorityRuns'
<1>1. PICK s \in Sems :
         /\ UNCHANGED <<pprio, currpid>>
         /\ \/ /\ ReadyFirst(s) /\ semq[s] # <<>>
               /\ kpc' \notin {"run", "wait"}
            \/ UNCHANGED <<pstate, rdyq, qkey, kpc>>
  <2>1. CASE FlushStep
    <3>1. ksem \in Sems
      BY DEF IInv, TypeOK
    <3> QED BY <2>1, <3>1 DEF FlushStep, schedVars
  <2>2. ASSUME NEW s \in Sems, sstate[s] = "SUSED", semcnt[s] < 0, kpc # "sreset" PROVE semq[s] # <<>>
    <3>1. Len(semq[s]) = 0 - semcnt[s] /\ semcnt[s] \in Int
      BY <2>2 DEF IInv, TypeOK, SemCountOK
    <3>2. Len(semq[s]) # 0 /\ Len(<<>>) = 0
      BY <2>2, <3>1
    <3> QED BY <3>2
  <2>3. CASE SignalnStep
    <3>1. ksem \in Sems /\ kpc = "signaln" /\ sstate[ksem] = "SUSED" /\ kpc' = kpc
      BY <2>3 DEF IInv, TypeOK, LoopOK, SignalnStep
    <3> QED BY <2>2, <2>3, <3>1 DEF SignalnStep, schedVars
  <2>4. ASSUME NEW s \in Sems, Signal(s)
        PROVE  /\ UNCHANGED <<pprio, currpid>>
               /\ \/ /\ ReadyFirst(s) /\ semq[s] # <<>>
                     /\ kpc' \notin {"run", "wait"}
                  \/ UNCHANGED <<pstate, rdyq, qkey, kpc>>
    <3>1. kpc = "run" /\ sstate[s] = "SUSED"
      BY <2>4, RunningFact DEF Signal, Call
    <3> QED BY <2>2, <2>4, <3>1 DEF Signal, EnterResched, schedVars
  <2> QED BY <2>1, <2>3, <2>4
<1>2. CASE ReadyFirst(s) /\ semq[s] # <<>> /\ kpc' \notin {"run", "wait"}
  <2>1. Lists(semq[s], Wtg(s), Procs)
    BY DEF IInv, WaitQ
  <2>2. Head(semq[s]) \in Wtg(s)
    BY <1>2, <2>1, TailLists
  <2>3. Head(semq[s]) \in Procs /\ Head(semq[s]) \notin Rdy
    BY <2>2 DEF Wtg, Rdy
  <2>4. ReadyListSorted'
    BY <1>1, <1>2, <2>3, SortedReady DEF ReadyFirst, HighestPriorityRuns
  <2> QED BY <1>2, <2>4, PolicyKept
<1>3. CASE UNCHANGED <<pstate, rdyq, qkey, kpc>>
  BY <1>1, <1>3, PlainPolicy
<1> QED BY <1>1, <1>2, <1>3

\* send() and sendf(): a receiver that is made ready goes to its place.
LEMMA SendPolicy ==
    ASSUME IInv, HighestPriorityRuns, NEW p \in Users, NEW m \in Msgs, Send(p, m) \/ Sendf(p, m)
    PROVE  HighestPriorityRuns'
<1>1. /\ p \in Procs /\ UNCHANGED <<pprio, currpid>> /\ kpc = "run"
  BY RunningFact, Ranges DEF Send, Sendf, Call, schedVars
<1>2. CASE (Sendf(p, m) /\ pstate[p] # "PRRECV") \/ (Send(p, m) /\ pstate[p] \notin {"PRRECV", "PRTRECV"})
  <2>1. UNCHANGED <<pstate, rdyq, qkey, kpc>>
    BY <1>2 DEF Send, Sendf, listVars
  <2> QED BY <1>1, <2>1, PlainPolicy
<1>3. CASE pstate[p] = "PRRECV"
  <2>1. InsertReady(p, rdyq) /\ kpc' = "resched"
    BY <1>3 DEF Send, Sendf, EnterResched
  <2>2. ReadyListSorted'
    BY <1>1, <1>3, <2>1, SortedReady DEF HighestPriorityRuns, Rdy
  <2> QED BY <2>1, <2>2, PolicyKept
<1>4. CASE Send(p, m) /\ pstate[p] = "PRTRECV"
  <2>1. PICK i \in 1..Len(clockq), j \in 1..(Len(rdyq)+1) :
           /\ IsInsertPos(rdyq, pprio[p], j) /\ rdyq' = InsertAt(rdyq, j, p)
           /\ qkey' = IF i < Len(clockq)
                        THEN [qkey EXCEPT ![clockq[i+1]] = @ + qkey[p], ![p] = pprio[p]]
                        ELSE [qkey EXCEPT ![p] = pprio[p]]
           /\ kpc' = "resched"
    BY <1>4 DEF Send, EnterResched
  <2>2. /\ qkey \in [Procs -> Int] /\ Len(clockq) \in Nat /\ rdyq \in Seq(Procs)
        /\ pprio \in [Procs -> Nat] /\ Sorted(rdyq, qkey) /\ p \notin Rdy
    <3>1. qkey \in [Procs -> Int] /\ clockq \in Seq(Procs) /\ rdyq \in Seq(Procs) /\ pprio \in [Procs -> Nat]
      BY DEF IInv, TypeOK
    <3>2. Sorted(rdyq, qkey) /\ p \notin Rdy
      BY <1>4 DEF HighestPriorityRuns, ReadyListSorted, Sorted, Rdy
    <3> QED BY <3>1, <3>2
  <2>3. i < Len(clockq) => clockq[i+1] \in Procs /\ clockq[i+1] \notin Rdy
    <3>1. i < Len(clockq) => i + 1 \in 1..Len(clockq)
      BY <2>2
    <3> QED BY <3>1, SleeperNotReady
  <2>4. /\ qkey' \in [Procs -> Int] /\ qkey'[p] = pprio'[p]
        /\ \A y \in Rdy : qkey'[y] = qkey[y]
    <3>1. CASE i < Len(clockq)
      <4>1. qkey' = [qkey EXCEPT ![clockq[i+1]] = qkey[clockq[i+1]] + qkey[p], ![p] = pprio[p]]
        BY <2>1, <3>1
      <4>2. clockq[i+1] \in Procs /\ clockq[i+1] \notin Rdy /\ qkey[clockq[i+1]] + qkey[p] \in Int
            /\ pprio[p] \in Int
        BY <1>1, <2>2, <2>3, <3>1
      <4> QED BY <1>1, <2>2, <4>1, <4>2 DEF Rdy
    <3>2. CASE ~(i < Len(clockq))
      <4>1. qkey' = [qkey EXCEPT ![p] = pprio[p]] /\ pprio[p] \in Int
        BY <1>1, <2>1, <2>2, <3>2
      <4> QED BY <1>1, <2>2, <4>1 DEF Rdy
    <3> QED BY <3>1, <3>2
  <2>5. \A k \in 1..Len(rdyq) : qkey[rdyq[k]] = pprio'[rdyq[k]] /\ qkey'[rdyq[k]] = qkey[rdyq[k]]
    BY <1>1, <2>4, ReadyEntries DEF HighestPriorityRuns, ReadyListSorted
  <2>6. ReadyListSorted'
    BY <1>1, <2>1, <2>2, <2>4, <2>5, SortedIn
  <2> QED BY <2>1, <2>6, PolicyKept
<1>5. CASE Send(p, m)
  BY <1>2, <1>3, <1>4, <1>5
<1>6. CASE Sendf(p, m)
  BY <1>2, <1>3, <1>6
<1> QED BY <1>5, <1>6

\* The end of insertd() and the timer pop change keys on the sleep list only.
LEMMA ClockPolicy == ASSUME IInv, HighestPriorityRuns, InsertdLink \/ Tick PROVE HighestPriorityRuns'
<1>1. UNCHANGED <<rdyq, pprio, currpid>> /\ (kpc' \in {"run", "wait"} => kpc \in {"run", "wait"})
  BY DEF InsertdLink, Tick, LeaveLoop, procVars, schedVars
<1>2. qkey \in [Procs -> Int] /\ Len(clockq) \in Nat /\ pstate \in [Procs -> PStates]
  BY DEF IInv, TypeOK
<1>3. \A y \in Procs : pstate'[y] = "PRREADY" => pstate[y] = "PRREADY"
  BY <1>2 DEF InsertdLink, Tick, procVars
<1>4. \A y \in Rdy : qkey'[y] = qkey[y]
  <2>1. CASE Tick
    <3>1. clockq # <<>> => Head(clockq) \in Procs /\ Head(clockq) \notin Rdy
      BY SleeperNotReady
    <3> QED BY <1>2, <2>1, <3>1 DEF Tick, Rdy
  <2>2. CASE InsertdLink
    <3>1. /\ currpid \notin Rdy /\ kidx \in 1..(Len(clockq)+1)
          /\ qkey' = IF kidx <= Len(clockq)
                       THEN [qkey EXCEPT ![currpid] = kcnt, ![clockq[kidx]] = @ - kcnt]
                       ELSE [qkey EXCEPT ![currpid] = kcnt]
      BY <2>2 DEF InsertdLink, IInv, LoopOK, CurrentOK, Rdy
    <3>2. kidx <= Len(clockq) => clockq[kidx] \in Procs /\ clockq[kidx] \notin Rdy
      <4>1. kidx <= Len(clockq) => kidx \in 1..Len(clockq)
        BY <1>2, <3>1
      <4> QED BY <4>1, SleeperNotReady
    <3> QED BY <1>2, <3>1, <3>2 DEF Rdy
  <2> QED BY <2>1, <2>2
<1>5. ReadyListSorted'
  BY <1>1, <1>4, SortedKept DEF HighestPriorityRuns
<1> QED BY <1>1, <1>3, <1>5, PolicyKept

\* Initially the ready list has one entry, and sysinit() is inside resched().
LEMMA InitPolicy == Init => HighestPriorityRuns
<1> SUFFICES ASSUME Init PROVE HighestPriorityRuns
  OBVIOUS
<1>1. rdyq = <<NullDisp - 1>> /\ qkey = pprio /\ kpc = "resched"
  BY DEF Init
<1>2. Len(rdyq) = 1
  BY <1>1
<1> QED BY <1>1, <1>2 DEF HighestPriorityRuns, ReadyListSorted

\* Every step keeps the order of the ready list and the choice of resched().
LEMMA NextPolicy == IInv /\ HighestPriorityRuns /\ [Next]_vars => HighestPriorityRuns'
<1> SUFFICES ASSUME IInv, HighestPriorityRuns, [Next]_vars PROVE HighestPriorityRuns'
  OBVIOUS
<1>1. CASE Resched
  BY <1>1, WakePolicy, ReschedKeepPolicy, ReschedSwitchPolicy DEF Resched
<1>2. CASE CallStep
  BY <1>2, ReleasePolicy, SemaphorePlain, MessagePlain, ClockPolicy DEF CallStep
<1>3. CASE NullStep \/ Tick
  BY <1>3, MessagePlain, ClockPolicy
<1>4. CASE ProcessCall
  BY <1>4, CreatePolicy, WakePolicy, OffReadyPolicy, ChprioPolicy, KillTimedPolicy, ProcessPlain
     DEF ProcessCall
<1>5. CASE SemaphoreCall
  <2>1. 0..SemMax \subseteq Int /\ 1..(SemMax+1) \subseteq Int
    BY KernelAssumption
  <2> QED BY <1>5, <2>1, SemaphorePlain, ReleasePolicy DEF SemaphoreCall
<1>6. CASE MessageCall
  BY <1>6, SendPolicy, MessagePlain DEF MessageCall
<1>7. CASE UNCHANGED vars
  <2>1. UNCHANGED <<rdyq, qkey, pprio, pstate, kpc, currpid>>
    BY <1>7 DEF vars, procVars, listVars, schedVars
  <2> QED BY <2>1, PlainPolicy
<1> QED BY <1>1, <1>2, <1>3, <1>4, <1>5, <1>6, <1>7 DEF Next

\* Whenever a process executes between kernel calls no ready process has a
\* higher priority: ready(), insert(), chprio() and resched() keep the ready
\* list in priority order and every call that may change the choice ends in
\* resched(), for every number of processes and every set of priorities.
THEOREM HighestPriorityCorrect == Spec => []HighestPriorityRuns
BY KernelInvariant, InitPolicy, NextPolicy, PTL DEF Spec

-----------------------------------------------------------------------------
(* What one step of the kernel may do to one process.                      *)

Kept(p) == phasmsg'[p] = phasmsg[p] /\ cont'[p] = cont[p]
Joins(p) == pstate'[p] = "PRWAIT" => p = Last(semq'[psem'[p]])

Move(p) ==
    \* nothing, or it leaves or takes the processor, blocks, or is woken
    \/ pstate'[p] = pstate[p] /\ Kept(p)
    \/ /\ pstate[p] \notin {"PRWAIT", "PRRECV", "PRDEAD"} /\ pstate'[p] # "PRRECV" /\ Kept(p)
       /\ Joins(p)
    \* released from the front of the queue of its semaphore
    \/ /\ pstate[p] = "PRWAIT" /\ pstate'[p] = "PRREADY" /\ Kept(p)
       /\ p = Head(semq[psem[p]])
    \* created or killed
    \/ /\ pstate[p] # "PRDEAD" /\ pstate'[p] \notin {"PRREADY", "PRRECV", "PRWAIT"}
       /\ cont'[p] = "none"
    \* a message arrives
    \/ /\ phasmsg'[p] /\ cont'[p] = cont[p]
       /\ \/ pstate'[p] = pstate[p] /\ pstate[p] # "PRRECV"
          \/ pstate[p] \in {"PRRECV", "PRTRECV"} /\ pstate'[p] = "PRREADY"
    \* it runs: takes its message, starts or ends a timed receive, blocks in receive
    \/ pstate[p] = "PRCURR" /\ pstate'[p] = "PRCURR" /\ cont'[p] # "receive"
    \/ pstate[p] = "PRCURR" /\ pstate'[p] = "PRRECV" /\ ~phasmsg'[p]

\* One process moves; the messages and continuations of all stay.
LEMMA OneMoves ==
    ASSUME TypeOK, NEW x \in Procs, NEW st \in PStates, pstate' = [pstate EXCEPT ![x] = st],
           UNCHANGED <<phasmsg, cont>>,
           \/ /\ pstate[x] \notin {"PRWAIT", "PRRECV", "PRDEAD"} /\ st # "PRRECV"
              /\ st = "PRWAIT" => x = Last(semq'[psem'[x]])
           \/ pstate[x] = "PRWAIT" /\ st = "PRREADY" /\ x = Head(semq[psem[x]])
    PROVE  \A p \in Users : Move(p)
<1> TAKE p \in Users
<1>1. p \in Procs /\ pstate \in [Procs -> PStates]
  BY Ranges DEF TypeOK
<1>2. Kept(p)
  BY DEF Kept
<1>3. CASE p = x
  BY <1>1, <1>2, <1>3 DEF Move, Joins
<1>4. CASE p # x
  <2>1. pstate'[p] = pstate[p]
    BY <1>1, <1>4
  <2> QED BY <1>2, <2>1 DEF Move
<1> QED BY <1>3, <1>4

\* A step that leaves the states, the messages and the continuations alone.
LEMMA NoneMoves ==
    ASSUME UNCHANGED <<pstate, phasmsg, cont>> PROVE \A p \in Users : Move(p)
BY DEF Move, Kept

\* A process is created or killed.
LEMMA EndMoves ==
    ASSUME TypeOK, NEW x \in Procs, pstate[x] # "PRDEAD",
           NEW st \in {"PRFREE", "PRDEAD", "PRSUSP"}, pstate' = [pstate EXCEPT ![x] = st],
           cont' = [cont EXCEPT ![x] = "none"],
           \A p \in Procs \ {x} : phasmsg'[p] = phasmsg[p]
    PROVE  \A p \in Users : Move(p)
<1> TAKE p \in Users
<1>1. p \in Procs /\ pstate \in [Procs -> PStates] /\ cont \in [Procs -> Conts]
  BY Ranges DEF TypeOK
<1>2. CASE p = x
  BY <1>1, <1>2 DEF Move
<1>3. CASE p # x
  <2>1. pstate'[p] = pstate[p] /\ cont'[p] = cont[p] /\ phasmsg'[p] = phasmsg[p]
    BY <1>1, <1>3
  <2> QED BY <2>1 DEF Move, Kept
<1> QED BY <1>2, <1>3

\* resched() readies sleepers and suspended processes and switches to another.
LEMMA ReschedMoves == ASSUME IInv, Resched PROVE \A p \in Users : Move(p)
<1>1. CASE Wakeup
  <2>1. /\ pstate' = [pstate EXCEPT ![Head(clockq)] = "PRREADY"] /\ UNCHANGED <<phasmsg, cont>>
        /\ clockq # <<>>
    BY <1>1 DEF Wakeup, Expired
  <2>2. Head(clockq) \in Slp
    BY <2>1, TailLists DEF IInv, SleepQ
  <2>3. Head(clockq) \in Procs /\ pstate[Head(clockq)] \in {"PRSLEEP", "PRTRECV"}
    BY <2>2 DEF Slp
  <2> QED BY <2>1, <2>3, OneMoves DEF IInv, PStates
<1>2. ASSUME NEW x \in Users, Iohook(x) PROVE \A p \in Users : Move(p)
  BY <1>2, OneMoves, Ranges DEF Iohook, IInv, PStates
<1>3. CASE ReschedKeep
  BY <1>3, NoneMoves DEF ReschedKeep, procVars
<1>4. CASE ReschedBlocked
  <2>1. /\ pstate' = [pstate EXCEPT ![Last(rdyq)] = "PRCURR"] /\ UNCHANGED <<phasmsg, cont>>
        /\ rdyq # <<>>
    BY <1>4 DEF ReschedBlocked, Dispatch
  <2>2. Last(rdyq) \in Rdy
    BY <2>1, FrontLists DEF IInv, ReadyQ
  <2>3. Last(rdyq) \in Procs /\ pstate[Last(rdyq)] = "PRREADY"
    BY <2>2 DEF Rdy
  <2> QED BY <2>1, <2>3, OneMoves DEF IInv, PStates
<1>5. CASE ReschedYield
  <2>1. PICK i \in 1..(Len(rdyq)+1) :
           /\ Dispatch(InsertAt(rdyq, i, currpid))
           /\ pstate' = [pstate EXCEPT ![currpid] = "PRREADY",
                                       ![Last(InsertAt(rdyq, i, currpid))] = "PRCURR"]
    BY <1>5 DEF ReschedYield
  <2> DEFINE list == InsertAt(rdyq, i, currpid)
             y == Last(list)
  <2>2. currpid \in Procs /\ pstate[currpid] = "PRCURR" /\ currpid \notin Rdy
    BY <1>5 DEF ReschedYield, IInv, TypeOK, Rdy
  <2>3. Lists(list, Rdy \cup {currpid}, Procs) /\ list # <<>>
    BY <2>1, <2>2, InsertLists DEF IInv, ReadyQ, Dispatch
  <2>4. y \in Rdy \cup {currpid}
    BY <2>3, FrontLists
  <2>5. pstate' = [pstate EXCEPT ![currpid] = "PRREADY", ![y] = "PRCURR"] /\ UNCHANGED <<phasmsg, cont>>
    BY <2>1 DEF Dispatch
  <2> HIDE DEF y, list
  <2>6. y \in Procs /\ pstate[y] \in {"PRREADY", "PRCURR"}
    BY <2>2, <2>4 DEF Rdy
  <2> TAKE p \in Users
  <2>7. p \in Procs /\ pstate \in [Procs -> PStates] /\ Kept(p)
    BY <2>5, Ranges DEF IInv, TypeOK, Kept
  <2>8. CASE p = y \/ p = currpid
    <3>1. pstate[p] \in {"PRREADY", "PRCURR"} /\ pstate'[p] \in {"PRREADY", "PRCURR"}
      BY <2>2, <2>5, <2>6, <2>7, <2>8
    <3> QED BY <2>7, <3>1 DEF Move, Joins
  <2>9. CASE p # y /\ p # currpid
    <3>1. pstate'[p] = pstate[p]
      BY <2>5, <2>7, <2>9
    <3> QED BY <2>7, <3>1 DEF Move
  <2> QED BY <2>8, <2>9
<1> QED BY <1>1, <1>2, <1>3, <1>4, <1>5 DEF Resched

\* The process calls create, resume, suspend or kill one process.
LEMMA ProcessMoves == ASSUME IInv, ProcessCall PROVE \A p \in Users : Move(p)
<1>0. TypeOK /\ currpid \in Procs /\ Users \subseteq Procs
  BY Ranges DEF IInv, TypeOK
<1>1. ASSUME NEW x \in Prios, Create(x) PROVE \A p \in Users : Move(p)
  <2>1. PICK y \in Procs : /\ pstate[y] = "PRFREE"
                           /\ pstate' = [pstate EXCEPT ![y] = "PRSUSP"]
                           /\ phasmsg' = [phasmsg EXCEPT ![y] = FALSE]
                           /\ cont' = [cont EXCEPT ![y] = "none"]
    BY <1>1 DEF Create, IsScanned
  <2>2. \A p \in Procs \ {y} : phasmsg'[p] = phasmsg[p]
    BY <1>0, <2>1 DEF TypeOK
  <2> QED BY <1>0, <2>1, <2>2, EndMoves
<1>2. ASSUME NEW x \in Users, Resume(x) \/ SuspendReady(x) PROVE \A p \in Users : Move(p)
  <2>1. /\ pstate[x] \in {"PRSUSP", "PRREADY"} /\ UNCHANGED <<phasmsg, cont>>
        /\ \E st \in {"PRSUSP", "PRREADY"} : pstate' = [pstate EXCEPT ![x] = st]
    BY <1>2 DEF Resume, SuspendReady
  <2> QED BY <1>0, <2>1, OneMoves DEF PStates
<1>3. ASSUME NEW x \in Users, KillWaiting(x) \/ KillReady(x) \/ KillTimed(x) \/ KillIdle(x)
      PROVE  \A p \in Users : Move(p)
  <2>1. /\ pstate[x] # "PRDEAD" /\ pstate' = [pstate EXCEPT ![x] = "PRFREE"]
        /\ cont' = [cont EXCEPT ![x] = "none"] /\ UNCHANGED phasmsg
    BY <1>3 DEF KillWaiting, KillReady, KillTimed, KillIdle, Freed
  <2> QED BY <1>0, <2>1, EndMoves
<1>4. ASSUME NEW x \in Users, KillDead(x) \/ \E n \in Prios : Chprio(x, n)
      PROVE  \A p \in Users : Move(p)
  BY <1>4, NoneMoves DEF KillDead, Chprio, procVars
<1>5. CASE SuspendSelf
  <2>1. /\ pstate[currpid] = "PRCURR" /\ pstate' = [pstate EXCEPT ![currpid] = "PRSUSP"]
        /\ UNCHANGED <<phasmsg, cont>>
    BY <1>5, RunningFact DEF SuspendSelf, Call
  <2> QED BY <1>0, <2>1, OneMoves DEF PStates
<1>6. CASE KillSelf \/ ProcReturn
  <2>1. /\ pstate[currpid] = "PRCURR" /\ pstate' = [pstate EXCEPT ![currpid] = "PRDEAD"]
        /\ cont' = [cont EXCEPT ![currpid] = "none"] /\ UNCHANGED phasmsg
    BY <1>6, RunningFact DEF KillSelf, ProcReturn, Call, Freed
  <2> QED BY <1>0, <2>1, EndMoves
<1> QED BY <1>1, <1>2, <1>3, <1>4, <1>5, <1>6 DEF ProcessCall

\* getfirst() of a semaphore's queue releases the waiter at its front.
LEMMA ReleaseMoves ==
    ASSUME IInv, NEW s \in Sems, semq[s] # <<>>, ReadyFirst(s), UNCHANGED <<phasmsg, cont>>
    PROVE  \A p \in Users : Move(p)
<1>1. Lists(semq[s], Wtg(s), Procs)
  BY DEF IInv, WaitQ
<1>2. Head(semq[s]) \in Wtg(s)
  BY <1>1, TailLists
<1>3. /\ Head(semq[s]) \in Procs /\ pstate[Head(semq[s])] = "PRWAIT"
      /\ psem[Head(semq[s])] = s
  BY <1>2 DEF Wtg
<1> QED BY <1>3, OneMoves DEF ReadyFirst, IInv, PStates

\* A semaphore in use with a negative count has waiters.
LEMMA NegativeHasWaiter ==
    ASSUME IInv, NEW s \in Sems, sstate[s] = "SUSED", semcnt[s] < 0, kpc # "sreset"
    PROVE  semq[s] # <<>>
<1>1. Len(semq[s]) = 0 - semcnt[s] /\ semcnt[s] \in Int
  BY DEF IInv, TypeOK, SemCountOK
<1>2. Len(semq[s]) # 0 /\ Len(<<>>) = 0
  BY <1>1
<1> QED BY <1>2

\* The semaphore calls block the caller or release waiters from the front.
LEMMA SemaphoreMoves ==
    ASSUME IInv, SemaphoreCall \/ SignalnStep \/ SignalnDone \/ FlushStep \/ SresetDone \/ SdeleteDone
    PROVE  \A p \in Users : Move(p)
<1>0. TypeOK /\ currpid \in Procs /\ ksem \in Sems
  BY DEF IInv, TypeOK
<1>1. ASSUME NEW s \in Sems, Wait(s) PROVE \A p \in Users : Move(p)
  <2>1. /\ pstate[currpid] = "PRCURR" /\ UNCHANGED <<phasmsg, cont>>
        /\ \/ UNCHANGED pstate
           \/ /\ pstate' = [pstate EXCEPT ![currpid] = "PRWAIT"]
              /\ psem' = [psem EXCEPT ![currpid] = s]
              /\ semq' = [semq EXCEPT ![s] = Append(@, currpid)]
    BY <1>1, RunningFact DEF Wait, Call
  <2>2. CASE UNCHANGED pstate
    BY <2>1, <2>2, NoneMoves
  <2>3. CASE /\ pstate' = [pstate EXCEPT ![currpid] = "PRWAIT"]
             /\ psem' = [psem EXCEPT ![currpid] = s]
             /\ semq' = [semq EXCEPT ![s] = Append(@, currpid)]
    <3>1. psem'[currpid] = s /\ semq'[s] = Append(semq[s], currpid) /\ semq[s] \in Seq(Procs)
      BY <1>0, <2>3 DEF TypeOK
    <3>2. Last(Append(semq[s], currpid)) = currpid
      BY <1>0, <3>1 DEF Last
    <3>3. currpid = Last(semq'[psem'[currpid]])
      BY <3>1, <3>2
    <3> QED BY <1>0, <2>1, <2>3, <3>3, OneMoves DEF PStates
  <2> QED BY <2>1, <2>2, <2>3
<1>2. ASSUME NEW s \in Sems, Signal(s) PROVE \A p \in Users : Move(p)
  <2>1. sstate[s] = "SUSED" /\ kpc = "run" /\ UNCHANGED <<phasmsg, cont>>
    BY <1>2, RunningFact DEF Signal, Call
  <2>2. CASE semcnt[s] < 0
    BY <1>2, <2>1, <2>2, NegativeHasWaiter, ReleaseMoves DEF Signal
  <2>3. CASE ~(semcnt[s] < 0)
    BY <1>2, <2>1, <2>3, NoneMoves DEF Signal
  <2> QED BY <2>2, <2>3
<1>3. CASE SignalnStep
  <2>1. sstate[ksem] = "SUSED" /\ kpc = "signaln" /\ UNCHANGED <<phasmsg, cont>>
    BY <1>3 DEF SignalnStep, IInv, LoopOK
  <2>2. CASE semcnt[ksem] < 0
    BY <1>0, <1>3, <2>1, <2>2, NegativeHasWaiter, ReleaseMoves DEF SignalnStep
  <2>3. CASE ~(semcnt[ksem] < 0)
    BY <1>3, <2>1, <2>3, NoneMoves DEF SignalnStep
  <2> QED BY <2>2, <2>3
<1>4. CASE FlushStep
  BY <1>0, <1>4, ReleaseMoves DEF FlushStep
<1>5. CASE SignalnDone \/ SresetDone \/ SdeleteDone
  BY <1>5, NoneMoves DEF SignalnDone, SresetDone, SdeleteDone, procVars
<1>6. ASSUME NEW n, Screate(n) PROVE \A p \in Users : Move(p)
  BY <1>6, NoneMoves DEF Screate, procVars
<1>7. ASSUME NEW s \in Sems, NEW n, Sdelete(s) \/ Sreset(s, n) \/ Signaln(s, n)
      PROVE  \A p \in Users : Move(p)
  <2>1. UNCHANGED procVars
    BY <1>7 DEF Sdelete, Sreset, Signaln, Enter
  <2> QED BY <2>1, NoneMoves DEF procVars
<1> QED BY <1>1, <1>2, <1>3, <1>4, <1>5, <1>6, <1>7 DEF SemaphoreCall

\* send() and sendf() give p a message and ready it if it waits for one.
LEMMA SendMoves ==
    ASSUME IInv, NEW x \in Users, NEW m \in Msgs, Send(x, m) \/ Sendf(x, m)
    PROVE  \A p \in Users : Move(p)
<1> TAKE p \in Users
<1>1. /\ p \in Procs /\ x \in Procs /\ pstate \in [Procs -> PStates]
      /\ phasmsg \in [Procs -> BOOLEAN]
  BY Ranges DEF IInv, TypeOK
<1>2. phasmsg' = [phasmsg EXCEPT ![x] = TRUE] /\ UNCHANGED cont
  BY DEF Send, Sendf, Deliver
<1>3. \/ UNCHANGED pstate /\ pstate[x] # "PRRECV"
      \/ pstate' = [pstate EXCEPT ![x] = "PRREADY"] /\ pstate[x] \in {"PRRECV", "PRTRECV"}
  BY DEF Send, Sendf
<1>4. CASE p = x
  <2>1. phasmsg'[p] = TRUE
    BY <1>1, <1>2, <1>4
  <2>2. \/ pstate'[p] = pstate[p] /\ pstate[p] # "PRRECV"
        \/ pstate[p] \in {"PRRECV", "PRTRECV"} /\ pstate'[p] = "PRREADY"
    BY <1>1, <1>3, <1>4
  <2> QED BY <1>2, <2>1, <2>2 DEF Move
<1>5. CASE p # x
  <2>1. phasmsg'[p] = phasmsg[p] /\ pstate'[p] = pstate[p]
    BY <1>1, <1>2, <1>3, <1>5
  <2> QED BY <1>2, <2>1 DEF Move, Kept
<1> QED BY <1>4, <1>5

\* receive(), recvclr(), recvtim() and sleep10() concern the caller only.
LEMMA ReceiveMoves ==
    ASSUME IInv, \/ Receive \/ Recvclr \/ ReceiveReturn
                 \/ \E n \in 0..MaxSleep : Recvtim(n) \/ Sleep10(n)
    PROVE  \A p \in Users : Move(p)
<1>1. /\ currpid \in Procs /\ pstate[currpid] = "PRCURR" /\ pstate \in [Procs -> PStates]
      /\ cont \in [Procs -> Conts] /\ phasmsg \in [Procs -> BOOLEAN]
  BY RunningFact
     DEF Receive, Recvclr, ReceiveReturn, Recvtim, Sleep10, Call, IInv, TypeOK, CurrentOK
<1>2. \/ /\ UNCHANGED pstate /\ \E c \in {"none", "recvtim"} : cont' = [cont EXCEPT ![currpid] = c]
         /\ UNCHANGED phasmsg \/ phasmsg' = [phasmsg EXCEPT ![currpid] = FALSE]
      \/ /\ pstate' = [pstate EXCEPT ![currpid] = "PRRECV"] /\ UNCHANGED phasmsg /\ ~phasmsg[currpid]
         /\ cont' = [cont EXCEPT ![currpid] = "receive"]
  BY DEF Receive, Recvclr, ReceiveReturn, Recvtim, Sleep10, TakeMessage, EnterInsertd
<1> TAKE p \in Users
<1>3. p \in Procs
  BY Ranges
<1>4. CASE p # currpid
  <2>1. pstate'[p] = pstate[p] /\ cont'[p] = cont[p] /\ phasmsg'[p] = phasmsg[p]
    BY <1>1, <1>2, <1>3, <1>4
  <2> QED BY <2>1 DEF Move, Kept
<1>5. CASE p = currpid
  <2>1. \/ pstate'[p] = "PRCURR" /\ cont'[p] # "receive"
        \/ pstate'[p] = "PRRECV" /\ ~phasmsg'[p]
    BY <1>1, <1>2, <1>3, <1>5
  <2> QED BY <1>1, <1>5, <2>1 DEF Move
<1> QED BY <1>4, <1>5

\* Every step of the kernel is one of these moves for every process.
LEMMA NextMoves == ASSUME IInv, [Next]_vars PROVE \A p \in Users : Move(p)
<1>1. CASE InsertdLink
  <2>1. /\ currpid \in Procs /\ pstate[currpid] = "PRCURR" /\ UNCHANGED <<phasmsg, cont>>
        /\ \E st \in {"PRTRECV", "PRSLEEP"} : pstate' = [pstate EXCEPT ![currpid] = st]
    BY <1>1 DEF InsertdLink, IInv, TypeOK, CurrentOK
  <2> QED BY <2>1, OneMoves DEF IInv, PStates
<1>2. CASE InsertdWalk \/ Yield \/ NullStep \/ Tick \/ UNCHANGED vars
  <2>1. UNCHANGED procVars
    BY <1>2 DEF InsertdWalk, Yield, NullStep, NullWait, NullWake, Tick, vars
  <2> QED BY <2>1, NoneMoves DEF procVars
<1>3. CASE CallStep
  BY <1>1, <1>2, <1>3, SemaphoreMoves, ReceiveMoves DEF CallStep
<1>4. CASE MessageCall
  BY <1>2, <1>4, SendMoves, ReceiveMoves DEF MessageCall
<1> QED BY <1>2, <1>3, <1>4, ReschedMoves, ProcessMoves, SemaphoreMoves DEF Next

-----------------------------------------------------------------------------
(* The theorems that follow from the moves.                                *)

\* Every step keeps receivers and messages together.
LEMMA NextMessages == IInv /\ MessagesOK /\ [Next]_vars => MessagesOK'
<1> SUFFICES ASSUME IInv, MessagesOK, [Next]_vars, NEW p \in Users
             PROVE  /\ cont'[p] = "receive" /\ pstate'[p] \notin {"PRRECV", "PRDEAD"} => phasmsg'[p]
                    /\ pstate'[p] = "PRRECV" => ~phasmsg'[p]
  BY DEF MessagesOK, ReceiveHasMessage, NoMessageLeftWaiting
<1>1. Move(p)
  BY NextMoves
<1>2. /\ cont[p] = "receive" /\ pstate[p] \notin {"PRRECV", "PRDEAD"} => phasmsg[p]
      /\ pstate[p] = "PRRECV" => ~phasmsg[p]
  BY DEF MessagesOK, ReceiveHasMessage, NoMessageLeftWaiting
<1>3. p \in Procs /\ phasmsg[p] \in BOOLEAN
  BY Ranges DEF IInv, TypeOK
<1>4. phasmsg'[p] \in BOOLEAN
  BY <1>3, NextIInv DEF IInv, TypeOK
<1> QED BY <1>1, <1>2, <1>3, <1>4 DEF Move, Kept

\* A process blocked in receive() never has an undelivered message and never
\* comes back without one: no interleaving of send, sendf, receive, recvclr,
\* recvtim, suspend and kill loses the wakeup or fakes one.
THEOREM MessagesCorrect == Spec => []MessagesOK
<1>1. Init => MessagesOK
  BY Ranges DEF Init, MessagesOK, ReceiveHasMessage, NoMessageLeftWaiting
<1> QED BY <1>1, KernelInvariant, NextMessages, PTL DEF Spec

\* One step of FifoWake, for every process.
FifoStep == \A p \in Users :
              /\ pstate[p] # "PRWAIT" /\ pstate'[p] = "PRWAIT" => p = Last(semq'[psem'[p]])
              /\ pstate[p] = "PRWAIT" /\ pstate'[p] = "PRREADY" => p = Head(semq[psem[p]])
              /\ pstate[p] = "PRDEAD" => pstate'[p] = "PRDEAD"

\* A process joins the queue of its semaphore at the end, and is released from
\* the front only, by signal, signaln, sreset and sdelete alike; PRDEAD is final.
THEOREM FifoWakeCorrect == Spec => FifoWake
<1>1. IInv /\ [Next]_vars => [FifoStep]_vars
  <2> SUFFICES ASSUME IInv, [Next]_vars PROVE FifoStep
    OBVIOUS
  <2> SUFFICES ASSUME NEW p \in Users
               PROVE  /\ pstate[p] # "PRWAIT" /\ pstate'[p] = "PRWAIT" => p = Last(semq'[psem'[p]])
                      /\ pstate[p] = "PRWAIT" /\ pstate'[p] = "PRREADY" => p = Head(semq[psem[p]])
                      /\ pstate[p] = "PRDEAD" => pstate'[p] = "PRDEAD"
    BY DEF FifoStep
  <2>1. Move(p)
    BY NextMoves
  <2> QED BY <2>1 DEF Move, Kept, Joins
<1>2. Spec => [][FifoStep]_vars
  BY <1>1, KernelInvariant, PTL DEF Spec
<1> QED BY <1>2 DEF FifoWake, FifoStep
=============================================================================

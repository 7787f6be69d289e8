----------------------------- MODULE SleepQueue -----------------------------
(***************************************************************************)
(* The sleep (delta) list and the STIMER exit MVSTMPOP that counts it down *)
(* while the mainline code changes it.                                     *)
(*                                                                         *)
(* The exit interrupts the mainline between any two instructions, and it   *)
(* sees only slnempty, sltop and the qkey that sltop points to.  So every  *)
(* load or store of one of these is a step of its own here, and the links  *)
(* of the list, which the exit never reads, change with the step that      *)
(* makes them visible.  Processes do not preempt each other: one mainline  *)
(* operation (mpc, mself, ...) is in progress at a time.                   *)
(***************************************************************************)
EXTENDS Integers, Sequences, SequencesExt

CONSTANTS
    Procs,      \* processes
    Prio,       \* their priority: the qkey of a process on the ready list
    NULL,       \* the initial sltop
    Calls,      \* the blocking calls made: subset of {"sleep10", "recvtim"}
    MaxSleep,   \* bound: longest interval asked for
    MaxLate,    \* bound: pops between an expiry and the next resched
    MaxRaces    \* bound: pops in the middle of operations while someone sleeps

ASSUME SleepAssumption ==
    /\ Prio \in Nat /\ MaxSleep \in Nat /\ MaxLate \in Nat /\ MaxRaces \in Nat
    /\ NULL \notin Procs /\ Calls \subseteq {"sleep10", "recvtim"}

VARIABLES
    clockq, qkey, slnempty, sltop,
    where,      \* "ready", "sleep" or "off": which list the process is on
    mpc, mcall, mself, mkey, midx, mtmp,    \* mainline code and its locals
    left,       \* history: pops until the process has slept as it asked
    races       \* history: pops in the middle of operations

listVars == <<clockq, qkey, slnempty, sltop, where>>
mainVars == <<mpc, mcall, mself, mkey, midx, mtmp>>
history == <<left, races>>
vars == <<listVars, mainVars, history>>

Init ==
    /\ clockq = <<>> /\ slnempty = FALSE /\ sltop = NULL
    /\ qkey = [p \in Procs |-> Prio]
    /\ where = [p \in Procs |-> "ready"]
    /\ mpc = "idle" /\ mcall = "none" /\ mself \in Procs
    /\ mkey = 0 /\ midx = 1 /\ mtmp = 0
    /\ left = [p \in Procs |-> 0] /\ races = 0

At(pc) == mpc = pc
Goto(pc) == mpc' = pc /\ UNCHANGED <<mcall, mself>>
Locals == <<mkey, midx, mtmp>>
ClearLocals == mkey' = 0 /\ midx' = 1 /\ mtmp' = 0

-----------------------------------------------------------------------------
(* sleep10(n), recvtim(n): insertd, then sltop and slnempty, then resched. *)

Call(p, c, n) ==
    /\ At("idle") /\ c \in Calls /\ where[p] = "ready"
    /\ c = "sleep10" => n > 0
    /\ mpc' = "walk" /\ mcall' = c /\ mself' = p
    /\ mkey' = n /\ midx' = 1 /\ mtmp' = 0
    /\ left' = [left EXCEPT ![p] = n]
    /\ UNCHANGED <<listVars, races>>

\* the test of the for loop of insertd()
Compare ==
    /\ At("walk")
    /\ Goto(IF midx <= Len(clockq) /\ qkey[clockq[midx]] < mkey THEN "pass" ELSE "link")
    /\ UNCHANGED <<listVars, Locals, history>>

\* key -= q[next].qkey
Pass ==
    /\ At("pass")
    /\ mkey' = mkey - qkey[clockq[midx]]
    /\ midx' = midx + 1
    /\ Goto("walk")
    /\ UNCHANGED <<listVars, mtmp, history>>

Link ==
    /\ At("link")
    /\ clockq' = InsertAt(clockq, midx, mself)
    /\ qkey' = [qkey EXCEPT ![mself] = mkey]
    /\ where' = [where EXCEPT ![mself] = "sleep"]
    /\ Goto(IF midx <= Len(clockq) THEN "load" ELSE "post1")
    /\ UNCHANGED <<slnempty, sltop, Locals, history>>

\* q[next].qkey -= key, a load and a store
Load ==
    /\ At("load")
    /\ mtmp' = qkey[clockq[midx + 1]]
    /\ Goto("store")
    /\ UNCHANGED <<listVars, mkey, midx, history>>

Store ==
    /\ At("store")
    /\ qkey' = [qkey EXCEPT ![clockq[midx + 1]] = mtmp - mkey]
    /\ Goto("post1")
    /\ UNCHANGED <<clockq, slnempty, sltop, where, Locals, history>>

SetTop == sltop' = Head(clockq) /\ UNCHANGED slnempty
SetFlag == slnempty' = TRUE /\ UNCHANGED sltop

\* sleep10 sets sltop first, recvtim (and sleep100) slnempty
Post ==
    /\ \/ At("post1") /\ (IF mcall = "sleep10" THEN SetTop ELSE SetFlag) /\ Goto("post2")
       \/ At("post2") /\ (IF mcall = "sleep10" THEN SetFlag ELSE SetTop) /\ Goto("wakeup")
    /\ UNCHANGED <<clockq, qkey, where, Locals, history>>

-----------------------------------------------------------------------------
(* wakeup(), at the start of every resched().                              *)

Resched ==
    /\ At("idle")
    /\ mpc' = "wakeup" /\ mcall' = "none"
    /\ UNCHANGED <<listVars, mself, Locals, history>>

Expired == clockq # <<>> /\ qkey[Head(clockq)] <= 0

\* getfirst(clockq), then ready(): insert() writes the ready key
Awaken ==
    /\ At("wakeup") /\ Expired
    /\ clockq' = Tail(clockq)
    /\ qkey' = [qkey EXCEPT ![Head(clockq)] = Prio]
    /\ where' = [where EXCEPT ![Head(clockq)] = "ready"]
    /\ UNCHANGED <<slnempty, sltop, mainVars, history>>

\* Mutant: wakeup() clears slnempty whether or not sleepers are left
WakeupFlagCleared ==
    /\ At("wakeup") /\ ~Expired
    /\ slnempty' = FALSE
    /\ mpc' = (IF clockq # <<>> THEN "wtop" ELSE "idle") /\ mcall' = "none"
    /\ ClearLocals
    /\ races' = IF clockq = <<>> THEN 0 ELSE races
    /\ UNCHANGED <<clockq, qkey, sltop, where, mself, left>>

WakeupFlag ==
    /\ At("wakeup") /\ ~Expired
    /\ slnempty' = (clockq # <<>>)
    /\ mpc' = (IF clockq # <<>> THEN "wtop" ELSE "idle") /\ mcall' = "none"
    /\ ClearLocals
    /\ races' = IF clockq = <<>> THEN 0 ELSE races
    /\ UNCHANGED <<clockq, qkey, sltop, where, mself, left>>

WakeupTop ==
    /\ At("wtop")
    /\ SetTop
    /\ Goto("idle")
    /\ UNCHANGED <<clockq, qkey, where, Locals, history>>

-----------------------------------------------------------------------------
(* unsleep(p), by send() to a process in recvtim or by killpid(); p is then *)
(* readied again, by send() or when its slot is used for a new process.    *)

Unsleep(p) ==
    /\ At("idle") /\ where[p] = "sleep"
    /\ mpc' = "inherit" /\ mcall' = "unsleep" /\ mself' = p
    /\ mkey' = qkey[p]
    /\ UNCHANGED <<listVars, midx, mtmp, history>>

\* Mutant: the successor does not inherit what the process had left
InheritNothing ==
    /\ At("inherit")
    /\ Goto("unlink")
    /\ UNCHANGED <<listVars, Locals, history>>

\* q[next].qkey += remain
Inherit ==
    /\ At("inherit")
    /\ \E i \in 1..Len(clockq) :
         /\ clockq[i] = mself
         /\ qkey' = IF i < Len(clockq)
                      THEN [qkey EXCEPT ![clockq[i+1]] = @ + mkey] ELSE qkey
    /\ Goto("unlink")
    /\ UNCHANGED <<clockq, slnempty, sltop, where, Locals, history>>

Unlink ==
    /\ At("unlink")
    /\ \E i \in 1..Len(clockq) : clockq[i] = mself /\ clockq' = RemoveAt(clockq, i)
    /\ where' = [where EXCEPT ![mself] = "off"]
    /\ left' = [left EXCEPT ![mself] = 0]
    /\ Goto("untop")
    /\ UNCHANGED <<qkey, slnempty, sltop, Locals, races>>

UnsleepTop ==
    /\ At("untop")
    /\ IF clockq # <<>> THEN SetTop ELSE slnempty' = FALSE /\ UNCHANGED sltop
    /\ mpc' = "idle" /\ mcall' = "none" /\ ClearLocals
    /\ UNCHANGED <<clockq, qkey, where, mself, history>>

Ready(p) ==
    /\ At("idle") /\ where[p] = "off"
    /\ where' = [where EXCEPT ![p] = "ready"]
    /\ qkey' = [qkey EXCEPT ![p] = Prio]
    /\ UNCHANGED <<clockq, slnempty, sltop, mainVars, history>>

-----------------------------------------------------------------------------
(* The STIMER exit.  Decrementing through the initial sltop is a store     *)
(* into low storage: a protection exception, which ends the program.       *)

Asleep(p) == where[p] = "sleep" \/ (mself = p /\ mpc \in {"walk", "pass", "link"})

MVSTMPOP ==
    /\ ~At("abend")
    /\ IF At("idle") THEN UNCHANGED races ELSE races < MaxRaces /\ races' = races + 1
    /\ left' = [p \in Procs |-> IF Asleep(p) /\ left[p] > 0 THEN left[p] - 1 ELSE left[p]]
    /\ IF slnempty /\ sltop = NULL
         THEN mpc' = "abend" /\ UNCHANGED qkey
         ELSE /\ slnempty => qkey[sltop] > 0 - MaxLate
              /\ qkey' = IF slnempty THEN [qkey EXCEPT ![sltop] = @ - 1] ELSE qkey
              /\ UNCHANGED mpc
    /\ UNCHANGED <<clockq, slnempty, sltop, where, mcall, mself, Locals>>

-----------------------------------------------------------------------------
Insertd == Compare \/ Pass \/ Link \/ Load \/ Store \/ Post
Wakeup == Awaken \/ WakeupFlag \/ WakeupTop
UnsleepStep == Inherit \/ Unlink \/ UnsleepTop

Next ==
    \/ \E p \in Procs, c \in Calls, n \in 0..MaxSleep : Call(p, c, n)
    \/ \E p \in Procs : Unsleep(p) \/ Ready(p)
    \/ Insertd \/ Resched \/ Wakeup \/ UnsleepStep \/ MVSTMPOP

(* Fairness.  The mainline gets the CPU between interrupts, processes keep *)
(* calling resched(), and the exit asks for the next interval each time:   *)
(* a tenth of a second, where an operation takes a few instructions, so    *)
(* pops keep coming also while no operation is in progress.                *)
Spec == Init /\ [][Next]_vars
FairSpec == /\ Spec
            /\ WF_vars(Insertd) /\ WF_vars(Wakeup) /\ WF_vars(UnsleepStep)
            /\ SF_vars(Resched) /\ SF_vars(MVSTMPOP /\ At("idle"))

-----------------------------------------------------------------------------
(* Properties.                                                             *)

\* Every variable keeps its type, and the list holds the sleepers, each once.
TypeOK ==
    /\ clockq \in Seq(Procs) /\ IsInjective(clockq)
    /\ Range(clockq) = {p \in Procs : where[p] = "sleep"}
    /\ qkey \in [Procs -> Int] /\ slnempty \in BOOLEAN /\ sltop \in Procs \cup {NULL}
    /\ where \in [Procs -> {"ready", "sleep", "off"}]
    /\ mkey \in Int /\ midx \in Nat /\ mtmp \in Int /\ left \in [Procs -> Nat] /\ races \in 0..MaxRaces

\* A process is awakened by wakeup() only after as many pops as it asked for,
\* also when pops fall between the loads and stores of insertd and unsleep.
NeverEarly ==
    [][\A p \in Procs : where[p] = "sleep" /\ where'[p] = "ready" => left[p] = 0]_vars

\* Every sleeper wakes, unless the exit has abended: no pop is lost to a
\* stale sltop for ever.
SleepersWake == \A p \in Procs : where[p] = "sleep" ~> where[p] # "sleep" \/ mpc = "abend"

=============================================================================

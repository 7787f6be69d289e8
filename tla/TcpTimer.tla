------------------------------ MODULE TcpTimer ------------------------------
(***************************************************************************)
(* The fast timers of TCP and IGMP (tcp/tcptimer.c, tmset.c, tmclear.c,    *)
(* tmleft.c): a delta list under tqmutex, the process that serves it, the  *)
(* port it sends expired timers to and the process that receives from it.  *)
(* A timer is named by its message.  Only one process at a time works on a *)
(* given message (tcb_mutex, hi_mutex).  The time a round of tcptimer      *)
(* takes off the list is any of TmDeltas: what ctr100 shows, or the        *)
(* estimate when that is out of range.                                     *)
(***************************************************************************)
EXTENDS Integers, Sequences, FiniteSets, SequencesExt

CONSTANTS
    TmMsgs,         \* messages
    TmTimes,        \* times they are set to
    TmDeltas,       \* time between two rounds of tcptimer
    TmPortLen,      \* TCPQLEN
    TmMaxSets       \* bound on calls of tmset

TmClients == {"tcpinp", "tcpout"}
TmNobody == "nobody"

ASSUME TmAssumption == TmPortLen > 0 /\ TmTimes \cup TmDeltas \subseteq Nat

VARIABLES
    tqhead,     \* the delta list: [msg, left]
    tqmutex,    \* who keeps tqmutex between steps
    tmPc,       \* tcptimer: "sleep", "suspended", "wait" or "run"
    tmDelta,    \* tcptimer's delta
    tmPort,     \* messages in the port
    tmCall,     \* per client <<>>, or the call it has to finish
    tmDue,      \* history: time left of every timer set
    tmSets      \* calls of tmset left (TmMaxSets)

tmVars == <<tqhead, tqmutex, tmPc, tmDelta, tmPort, tmCall, tmDue, tmSets>>

TmInit ==
    /\ tqhead = <<>>
    /\ tqmutex = TmNobody
    /\ tmPc = "sleep"
    /\ tmDelta = 0
    /\ tmPort = <<>>
    /\ tmCall = [c \in TmClients |-> <<>>]
    /\ tmDue = [m \in TmMsgs |-> 0]
    /\ tmSets = TmMaxSets

(* Time until the k-th timer runs out; where a timer is.                   *)
tmleft(k) ==
    LET sum[j \in 0..k] == IF j = 0 THEN 0 ELSE sum[j-1] + tqhead[j].left
    IN  sum[k]
TmAt(m) == {k \in DOMAIN tqhead : tqhead[k].msg = m}

(* tmclear gives what is left of the timer to the one behind it.           *)
tmclearKeeps(m) ==
    IF TmAt(m) = {} THEN tqhead
    ELSE RemoveAt(tqhead, CHOOSE k \in TmAt(m) : TRUE)
tmclear(m) ==
    IF TmAt(m) = {} THEN tqhead
    ELSE LET k == CHOOSE k \in TmAt(m) : TRUE IN
         RemoveAt([j \in DOMAIN tqhead |->
             IF j = k + 1 THEN [tqhead[j] EXCEPT !.left = @ + tqhead[k].left]
             ELSE tqhead[j]], k)

(* Behind every timer that runs out no later, as tmset's scan finds it.    *)
TmInsert(m, time) ==
    LET k == Cardinality({j \in DOMAIN tqhead : tmleft(j) <= time})
        new == [msg |-> m, left |-> time - tmleft(k)]
    IN  InsertAt([j \in DOMAIN tqhead |->
            IF j = k + 1 THEN [tqhead[j] EXCEPT !.left = @ - new.left]
            ELSE tqhead[j]], k + 1, new)

(* A client calls tmset or tmclear for a message nobody else works on.     *)
TmFree(c, m) == {d \in TmClients \ {c} : /\ tmCall[d] # <<>>
                                         /\ tmCall[d][1] # "event"
                                         /\ tmCall[d][2] = m} = {}
TmCalls(c, m) ==
    /\ TmFree(c, m)
    /\ \/ /\ tmCall' = [tmCall EXCEPT ![c] = <<"clear", m>>]
          /\ UNCHANGED tmSets
       \/ /\ \E t \in TmTimes : tmCall' = [tmCall EXCEPT ![c] = <<"set", m, t>>]
          /\ tmSets > 0 /\ tmSets' = tmSets - 1
    /\ UNCHANGED <<tqhead, tqmutex, tmPc, tmDelta, tmDue, tmPort>>

TmTcpinp(m) == tmCall["tcpinp"] = <<>> /\ TmCalls("tcpinp", m)

(* tcpout receives an event, and waits for tcb_mutex before it acts on it. *)
TmTcpout ==
    /\ tmCall["tcpout"] = <<>> /\ tmPort # <<>>
    /\ tmPort' = Tail(tmPort)
    /\ tmCall' = [tmCall EXCEPT !["tcpout"] = <<"event", Head(tmPort)>>]
    /\ UNCHANGED <<tqhead, tqmutex, tmPc, tmDelta, tmDue, tmSets>>

TmTcpoutEvent ==
    /\ tmCall["tcpout"] # <<>> /\ tmCall["tcpout"][1] = "event"
    /\ TmCalls("tcpout", tmCall["tcpout"][2])

(* tmclear, on its own or first thing of tmset ...                         *)
TmClear(c) ==
    /\ tmCall[c] # <<>> /\ tqmutex = TmNobody
    /\ tmCall[c][1] \in {"set", "clear"}
    /\ tqhead' = tmclear(tmCall[c][2])
    /\ tmCall' = [tmCall EXCEPT ![c] = IF @[1] = "set" THEN <<"insert", @[2], @[3]>>
                                       ELSE <<>>]
    /\ UNCHANGED <<tqmutex, tmPc, tmDelta, tmPort, tmDue, tmSets>>

(* ... then tmset inserts; an empty list had let tcptimer suspend itself.  *)
tmset(c) ==
    /\ tmCall[c] # <<>> /\ tmCall[c][1] = "insert" /\ tqmutex = TmNobody
    /\ tqhead' = TmInsert(tmCall[c][2], tmCall[c][3])
    /\ tmDue' = [tmDue EXCEPT ![tmCall[c][2]] = tmCall[c][3]]
    /\ tmPc' = IF tqhead = <<>> /\ tmPc = "suspended" THEN "wait" ELSE tmPc
    /\ tmCall' = [tmCall EXCEPT ![c] = <<>>]
    /\ UNCHANGED <<tqmutex, tmDelta, tmPort, tmSets>>

-----------------------------------------------------------------------------
(* tcptimer wakes, suspends itself when there is no timer, waits for the   *)
(* mutex, sends what has run out, and takes the rest of delta off.         *)
tcptimerWake ==
    /\ tmPc = "sleep"
    /\ tmPc' = IF tqhead = <<>> THEN "suspended" ELSE "wait"
    /\ UNCHANGED <<tqhead, tqmutex, tmDelta, tmPort, tmCall, tmDue, tmSets>>

tcptimer ==
    /\ tmPc = "wait" /\ tqmutex = TmNobody
    /\ tqmutex' = "tcptimer" /\ tmPc' = "run"
    /\ tmDelta' \in TmDeltas
    /\ tmDue' = [m \in TmMsgs |-> IF TmAt(m) = {} THEN tmDue[m] ELSE tmDue[m] - tmDelta']
    /\ UNCHANGED <<tqhead, tmPort, tmCall, tmSets>>

TmExpired == tqhead # <<>> /\ Head(tqhead).left <= tmDelta

(* pcount <= tq_portlen always holds: psend waits while the port is full.  *)
tcptimerSend ==
    /\ tmPc = "run" /\ TmExpired
    /\ Len(tmPort) < TmPortLen
    /\ tmPort' = Append(tmPort, Head(tqhead).msg)
    /\ tmDelta' = tmDelta - Head(tqhead).left
    /\ tqhead' = Tail(tqhead)
    /\ UNCHANGED <<tqmutex, tmPc, tmCall, tmDue, tmSets>>

tcptimerEnd ==
    /\ tmPc = "run" /\ ~TmExpired
    /\ tqhead' = IF tqhead = <<>> THEN tqhead ELSE [tqhead EXCEPT ![1].left = @ - tmDelta]
    /\ tqmutex' = TmNobody /\ tmPc' = "sleep" /\ tmDelta' = 0
    /\ UNCHANGED <<tmPort, tmCall, tmDue, tmSets>>

TmTimerStep == tcptimerWake \/ tcptimer \/ tcptimerSend \/ tcptimerEnd
TmClientStep == \E c \in TmClients : TmClear(c) \/ tmset(c)
TmOutStep == TmTcpout \/ TmTcpoutEvent
TmNext == TmTimerStep \/ TmClientStep \/ TmOutStep \/ \E m \in TmMsgs : TmTcpinp(m)

(* Every process that can run runs: tcptimer, tcpout and a started call.   *)
TmSpec == TmInit /\ [][TmNext]_tmVars
    /\ WF_tmVars(TmTimerStep) /\ WF_tmVars(TmClientStep) /\ WF_tmVars(TmOutStep)

-----------------------------------------------------------------------------
(* The delta list tells every timer's time left whatever was set, cleared  *)
(* or sent around it: setting or clearing one moves no other, a round      *)
(* takes the same time off all of them, and only timers that have run out  *)
(* are sent.  A message has one timer, and a list is never left unserved.  *)
TmOnTime ==
    /\ \A k \in DOMAIN tqhead :
        /\ tmleft(k) - tmDelta = tmDue[tqhead[k].msg]
        /\ tqhead[k].left >= 0 /\ TmAt(tqhead[k].msg) = {k}
    /\ tqhead # <<>> => tmPc # "suspended"
=============================================================================

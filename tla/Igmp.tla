-------------------------------- MODULE Igmp --------------------------------
(***************************************************************************)
(* IGMP host groups (igmp/): applications join and leave groups, queries   *)
(* and reports arrive, delay timers run out and igmp_update reports.       *)
(* hi_mutex protects the table; hgjoin gives it up between the lookup and  *)
(* hgadd, and hgleave, igmp_in and igmp_update keep it over calls that may *)
(* block.  A fast timer is a member of hgTimer from tmset until tmclear or *)
(* until tcptimer sends its message to hi_uport (see TcpTimer).            *)
(***************************************************************************)
EXTENDS Naturals, Sequences, FiniteSets, TLC, FiniteSetsExt

CONSTANTS
    HgTSize,        \* HG_TSIZE, slots of hgtable and length of hi_uport
    HgApps,         \* application processes
    HgGroups,       \* the groups they join
    HgAllHosts,     \* ig_allhosts
    HgArpMax,       \* ARP entries left for groups
    HgMaxJoins,     \* bound on the joins of an application
    HgMaxIn         \* bound on the IGMP messages that arrive

HgSlots == 0..(HgTSize - 1)
HgNone == HgTSize       \* no slot
HgNobody == "nobody"
HgProcs == HgApps \cup {"ip", "update"}

ASSUME HgAssumption ==
    /\ HgTSize \in Nat /\ HgTSize > 1
    /\ HgAllHosts \notin HgGroups
    /\ IsFiniteSet(HgApps) /\ HgApps \cap {"ip", "update", HgNobody} = {}

VARIABLES
    hgtable,    \* [state, ipa, refs] per slot
    hgStart,    \* hgadd's static cursor
    hiMutex,    \* who keeps hi_mutex between steps
    hgPc,       \* per process where it is
    hgArg,      \* per process the group or slot it is at work on
    hgTimer,    \* slots whose delay timer runs
    hgPort,     \* slots in hi_uport
    hgArp,      \* groups with an ARP entry, once per entry
    hgRoutes,   \* groups with a route to the loopback
    hgMember,   \* history: per application and group its joins not left
    hgLeft,     \* joins an application may still make (HgMaxJoins)
    hgIn        \* IGMP messages that may still arrive (HgMaxIn)

hgVars == <<hgtable, hgStart, hiMutex, hgPc, hgArg, hgTimer, hgPort, hgArp,
            hgRoutes, hgMember, hgLeft, hgIn>>

HgFree == [state |-> "FREE", ipa |-> HgAllHosts, refs |-> 0]

(* hginit: 224.0.0.1 is joined statically, in the slot after the cursor.   *)
HgInit ==
    /\ hgtable = [s \in HgSlots |->
           IF s = 1 THEN [state |-> "STATIC", ipa |-> HgAllHosts, refs |-> 1]
           ELSE HgFree]
    /\ hgStart = 1
    /\ hiMutex = HgNobody
    /\ hgPc = [p \in HgProcs |-> "idle"]
    /\ hgArg = [p \in HgProcs |-> HgNone]
    /\ hgTimer = {}
    /\ hgPort = <<>>
    /\ hgArp = [g \in HgGroups |-> 0]
    /\ hgRoutes = {}
    /\ hgMember = [a \in HgApps |-> [g \in HgGroups |-> 0]]
    /\ hgLeft = [a \in HgApps |-> HgMaxJoins]
    /\ hgIn = HgMaxIn

-----------------------------------------------------------------------------
hglookup(g) ==
    LET hit == {s \in HgSlots : hgtable[s].state # "FREE" /\ hgtable[s].ipa = g}
    IN  IF hit = {} THEN HgNone ELSE Min(hit)

HgAt(p, l) == hgPc[p] = l
HgGoto(p, l) == hgPc' = [hgPc EXCEPT ![p] = l]
HgLock == hiMutex = HgNobody

(* The first free slot after the cursor; the cursor itself when all are    *)
(* taken, after a whole turn.                                              *)
HgNextFree ==
    LET free == {k \in 1..HgTSize :
                    hgtable[(hgStart + k) % HgTSize].state = "FREE"}
    IN  IF free = {} THEN hgStart ELSE (hgStart + Min(free)) % HgTSize

hgjoin(a, g) ==
    /\ HgAt(a, "idle") /\ hgLeft[a] > 0
    /\ HgLock
    /\ hgLeft' = [hgLeft EXCEPT ![a] = @ - 1]
    /\ LET s == hglookup(g) IN
        IF s # HgNone
        THEN /\ hgtable' = [hgtable EXCEPT ![s].refs = @ + 1]
             /\ hgMember' = [hgMember EXCEPT ![a][g] = @ + 1]
             /\ UNCHANGED <<hgPc, hgArg>>
        ELSE /\ HgGoto(a, "add")
             /\ hgArg' = [hgArg EXCEPT ![a] = g]
             /\ UNCHANGED <<hgtable, hgMember>>
    /\ UNCHANGED <<hgStart, hiMutex, hgTimer, hgPort, hgArp, hgRoutes, hgIn>>

(* hgadd fails when the table is full or hgarpadd finds no ARP entry.      *)
hgarpadd(g) == hgArp' = [hgArp EXCEPT ![g] = @ + 1]

hgadd(a) ==
    /\ HgAt(a, "add") /\ HgLock
    /\ hgStart' = HgNextFree
    /\ IF /\ hgtable[HgNextFree].state = "FREE"
          /\ MapThenSumSet(LAMBDA g : hgArp[g], HgGroups) < HgArpMax
       THEN /\ hgarpadd(hgArg[a])
            /\ hgtable' = [hgtable EXCEPT ![HgNextFree] =
                   [state |-> "IDLE", ipa |-> hgArg[a], refs |-> 1]]
            /\ hgMember' = [hgMember EXCEPT ![a][hgArg[a]] = @ + 1]
            /\ HgGoto(a, "route")
       ELSE HgGoto(a, "idle") /\ UNCHANGED <<hgArp, hgtable, hgMember>>
    /\ UNCHANGED <<hiMutex, hgArg, hgTimer, hgPort, hgRoutes, hgLeft, hgIn>>

(* hgjoin after hgadd: rtadd, then the first reports (igmp).               *)
hgjoinRoute(a) ==
    /\ HgAt(a, "route")
    /\ hgRoutes' = hgRoutes \cup {hgArg[a]}
    /\ HgGoto(a, "idle")
    /\ UNCHANGED <<hgtable, hgStart, hiMutex, hgArg, hgTimer, hgPort, hgArp,
                   hgMember, hgLeft, hgIn>>

(* hgleave: the last reference takes the route and the ARP entry away,     *)
(* hi_mutex held; tmclear may wait for tqmutex.                            *)
hgarpdel(g) == hgArp' = [hgArp EXCEPT ![g] = IF @ = 0 THEN 0 ELSE @ - 1]

hgleave(a, g) ==
    /\ HgAt(a, "idle") /\ hgMember[a][g] > 0
    /\ HgLock
    /\ hgMember' = [hgMember EXCEPT ![a][g] = @ - 1]
    /\ LET s == hglookup(g) IN
        IF hgtable[s].refs > 1
        THEN /\ hgtable' = [hgtable EXCEPT ![s].refs = @ - 1]
             /\ UNCHANGED <<hiMutex, hgPc, hgArg, hgArp, hgRoutes>>
        ELSE /\ hgRoutes' = hgRoutes \ {g}
             /\ hgarpdel(g)
             /\ IF hgtable[s].state = "DELAYING"
                THEN /\ hgtable' = [hgtable EXCEPT ![s].refs = 0]
                     /\ HgGoto(a, "clear")
                     /\ hgArg' = [hgArg EXCEPT ![a] = s]
                     /\ hiMutex' = a
                ELSE /\ hgtable' = [hgtable EXCEPT ![s].state = "FREE",
                                                   ![s].refs = 0]
                     /\ UNCHANGED <<hiMutex, hgPc, hgArg>>
    /\ UNCHANGED <<hgStart, hgTimer, hgPort, hgLeft, hgIn>>

(* tmclear, then the slot's new state; hi_mutex is released.               *)
HgTmclear(p, s, state) ==
    /\ hgTimer' = hgTimer \ {s}
    /\ hgtable' = [hgtable EXCEPT ![s].state = state]
    /\ HgGoto(p, "idle")
    /\ hiMutex' = HgNobody
    /\ UNCHANGED <<hgStart, hgArg, hgPort, hgArp, hgRoutes, hgMember, hgLeft, hgIn>>

hgleaveClear(a) == HgAt(a, "clear") /\ HgTmclear(a, hgArg[a], "FREE")

-----------------------------------------------------------------------------
(* igmp_in of a report somebody else made, and of a query.                 *)
HgReport(g) ==
    /\ HgAt("ip", "idle") /\ hgIn > 0
    /\ HgLock
    /\ hgIn' = hgIn - 1
    /\ LET s == hglookup(g) IN
        IF s # HgNone /\ hgtable[s].state = "DELAYING"
        THEN /\ HgGoto("ip", "report")
             /\ hgArg' = [hgArg EXCEPT !["ip"] = s]
             /\ hiMutex' = "ip"
        ELSE UNCHANGED <<hgPc, hgArg, hiMutex>>
    /\ UNCHANGED <<hgtable, hgStart, hgTimer, hgPort, hgArp, hgRoutes, hgMember,
                   hgLeft>>

HgReportClear == HgAt("ip", "report") /\ HgTmclear("ip", hgArg["ip"], "IDLE")

HgQuery ==
    /\ HgAt("ip", "idle") /\ hgIn > 0
    /\ HgLock
    /\ hgIn' = hgIn - 1
    /\ hiMutex' = "ip"
    /\ HgGoto("ip", "query")
    /\ UNCHANGED <<hgtable, hgStart, hgArg, hgTimer, hgPort, hgArp, hgRoutes,
                   hgMember, hgLeft>>

HgIdle == {s \in HgSlots : hgtable[s].state = "IDLE"}

(* One turn of igmp_settimers' loop; a turn waits for tqmutex.             *)
igmp_settimers ==
    /\ HgAt("ip", "query")
    /\ IF HgIdle # {}
       THEN /\ hgtable' = [hgtable EXCEPT ![Min(HgIdle)].state = "DELAYING"]
            /\ hgTimer' = hgTimer \cup {Min(HgIdle)}
            /\ UNCHANGED <<hgPc, hiMutex>>
       ELSE /\ HgGoto("ip", "idle")
            /\ hiMutex' = HgNobody
            /\ UNCHANGED <<hgtable, hgTimer>>
    /\ UNCHANGED <<hgStart, hgArg, hgPort, hgArp, hgRoutes, hgMember, hgLeft, hgIn>>

(* tcptimer sends an expired timer's slot to hi_uport.                     *)
HgExpire(s) ==
    /\ s \in hgTimer /\ Len(hgPort) < HgTSize
    /\ hgTimer' = hgTimer \ {s}
    /\ hgPort' = Append(hgPort, s)
    /\ UNCHANGED <<hgtable, hgStart, hiMutex, hgPc, hgArg, hgArp, hgRoutes,
                   hgMember, hgLeft, hgIn>>

igmp_update ==
    /\ HgAt("update", "idle") /\ hgPort # <<>>
    /\ hgPort' = Tail(hgPort)
    /\ hgArg' = [hgArg EXCEPT !["update"] = Head(hgPort)]
    /\ HgGoto("update", "lock")
    /\ UNCHANGED <<hgtable, hgStart, hiMutex, hgTimer, hgArp, hgRoutes, hgMember,
                   hgLeft, hgIn>>

(* A fault: the state is looked at before hi_mutex is held, so a report is *)
(* sent for a slot that changed hands.                                     *)
igmp_updateEarly ==
    /\ HgAt("update", "lock") /\ HgLock
    /\ hgtable' = [hgtable EXCEPT ![hgArg["update"]].state = "IDLE"]
    /\ hiMutex' = "update"
    /\ HgGoto("update", "send")
    /\ UNCHANGED <<hgStart, hgArg, hgTimer, hgPort, hgArp, hgRoutes, hgMember,
                   hgLeft, hgIn>>

igmp_updateReport ==
    /\ HgAt("update", "lock") /\ HgLock
    /\ LET s == hgArg["update"] IN
        IF hgtable[s].state = "DELAYING"
        THEN /\ hgtable' = [hgtable EXCEPT ![s].state = "IDLE"]
             /\ hiMutex' = "update"
             /\ HgGoto("update", "send")
        ELSE /\ HgGoto("update", "idle")
             /\ UNCHANGED <<hgtable, hiMutex>>
    /\ UNCHANGED <<hgStart, hgArg, hgTimer, hgPort, hgArp, hgRoutes, hgMember,
                   hgLeft, hgIn>>

(* igmp: a packet buffer, ipsend; then the mutex goes.                     *)
igmp ==
    /\ HgAt("update", "send")
    /\ hiMutex' = HgNobody
    /\ HgGoto("update", "idle")
    /\ UNCHANGED <<hgtable, hgStart, hgArg, hgTimer, hgPort, hgArp, hgRoutes,
                   hgMember, hgLeft, hgIn>>

HgNext ==
    \/ \E a \in HgApps, g \in HgGroups : hgjoin(a, g) \/ hgleave(a, g)
    \/ \E a \in HgApps : hgadd(a) \/ hgjoinRoute(a) \/ hgleaveClear(a)
    \/ \E g \in HgGroups : HgReport(g)
    \/ HgReportClear \/ HgQuery \/ igmp_settimers
    \/ \E s \in HgSlots : HgExpire(s)
    \/ igmp_update \/ igmp_updateReport \/ igmp

HgSpec == HgInit /\ [][HgNext]_hgVars

-----------------------------------------------------------------------------
(* The sum of n[x] over S, as the number of the pairs x, 1 to x, n[x].     *)
HgSum(S, n) == Cardinality(UNION {{x} \X (1..n[x]) : x \in S})

HgRefs(g) == HgSum(HgSlots, [s \in HgSlots |-> IF hgtable[s].ipa = g THEN hgtable[s].refs ELSE 0])
HgJoined(g) == HgSum(HgApps, [a \in HgApps |-> hgMember[a][g]])

(* Whatever joins, leaves, queries, reports and late timer messages meet,  *)
(* hg_refs counts the joins not left, so no member's entry is freed under  *)
(* it and none stays for nobody; a group in HGS_DELAYING has its timer, or *)
(* the timer's message on its way to igmp_update, so its report is not     *)
(* forgotten.                                                              *)
HgAccounted ==
    /\ \A g \in HgGroups : HgRefs(g) = HgJoined(g)
    /\ \A s \in HgSlots : hgtable[s].refs > 0 <=>
        hgtable[s].state # "FREE" /\ \A a \in HgApps : ~(HgAt(a, "clear") /\ hgArg[a] = s)
    /\ \A s \in HgSlots : hgtable[s].state = "DELAYING" =>
        \/ s \in hgTimer
        \/ \E k \in DOMAIN hgPort : hgPort[k] = s
        \/ hgArg["update"] = s /\ HgAt("update", "lock")
=============================================================================

---------------------------- MODULE TablesProof -----------------------------
(***************************************************************************)
(* Proofs about the fast timers, the heap, start-up, the host groups and   *)
(* the sleep list, which share no state: for any messages and times,       *)
(* whatever is set, cleared and sent; for every amount of memory, all      *)
(* sizes and every number of processes; for every job, whatever its        *)
(* configuration file says, whatever DDs it has and however the jobs       *)
(* before it ended; for every table of groups and all applications; for    *)
(* all sleepers and wherever the STIMER exit interrupts.                   *)
(***************************************************************************)
EXTENDS TcpTimer, Heap, Startup, Igmp, SleepQueue, QueueFacts

-----------------------------------------------------------------------------
(* The fast timers.                                                        *)

TmEntries == [msg : TmMsgs, left : Nat]

\* A delta list over due dates: an entry holds the time from the one before
\* it, the first one from now, of which delta is not yet taken off.
TmDated(q, due, delta) ==
    /\ \A k \in 1..Len(q) :
        q[k].left = due[q[k].msg] - (IF k = 1 THEN 0 - delta ELSE due[q[k-1].msg])
    /\ \A i, j \in 1..Len(q) : i <= j => due[q[i].msg] <= due[q[j].msg]

TmOnce(q) == \A i, j \in 1..Len(q) : q[i].msg = q[j].msg => i = j

TmLacks(r, m) == \A j \in 1..Len(r) : r[j].msg # m
TmAmong(r, q, M) == \A j \in 1..Len(r) : r[j].msg \in M \/ \E i \in 1..Len(q) : r[j].msg = q[i].msg

\* tmclear() takes the k-th timer out, tmset() puts e behind the k-th.
TmTakenOut(q, k) ==
    RemoveAt([j \in DOMAIN q |->
        IF j = k + 1 THEN [q[j] EXCEPT !.left = @ + q[k].left] ELSE q[j]], k)
TmPutIn(q, k, e) ==
    InsertAt([j \in DOMAIN q |->
        IF j = k + 1 THEN [q[j] EXCEPT !.left = @ - e.left] ELSE q[j]], k + 1, e)

TmList == tqhead \in Seq(TmEntries) /\ TmOnce(tqhead) /\ TmDated(tqhead, tmDue, tmDelta)

\* What a call is, and the message it is for.
TmCallT ==
    {<<>>} \cup {<<"clear", m>> : m \in TmMsgs} \cup {<<"event", m>> : m \in TmMsgs}
    \cup {<<"set", n[1], n[2]>> : n \in TmMsgs \X TmTimes}
    \cup {<<"insert", n[1], n[2]>> : n \in TmMsgs \X TmTimes}

TmWorking(c, m) == tmCall[c] # <<>> /\ tmCall[c][1] # "event" /\ tmCall[c][2] = m

\* A message is worked on by one process at a time, and while tmset has yet
\* to insert it, it is not in the list.
TmCallsOK ==
    /\ tmCall \in [TmClients -> TmCallT]
    /\ \A c, d \in TmClients, m \in TmMsgs : TmWorking(c, m) /\ TmWorking(d, m) => c = d
    /\ \A c \in TmClients : tmCall[c] # <<>> /\ tmCall[c][1] = "insert" =>
            TmLacks(tqhead, tmCall[c][2])

TmServed ==
    /\ tmPc \in {"sleep", "suspended", "wait", "run"}
    /\ tqmutex = TmNobody <=> tmPc # "run"
    /\ tmPc # "run" => tmDelta = 0
    /\ tmPc = "suspended" => tqhead = <<>>
    /\ tmDelta \in Nat /\ tmDue \in [TmMsgs -> Int] /\ tmPort \in Seq(TmMsgs)

TmInv == TmList /\ TmCallsOK /\ TmServed

-----------------------------------------------------------------------------
\* tmleft() of the k-th timer is the time until its due date.
LEMMA TmSums ==
    ASSUME TmList, tmDelta \in Nat, tmDue \in [TmMsgs -> Int], NEW k \in 0..Len(tqhead)
    PROVE  tmleft(k) = IF k = 0 THEN 0 ELSE tmDue[tqhead[k].msg] + tmDelta
<1> DEFINE Is(f) == f = [j \in 0..k |-> IF j = 0 THEN 0 ELSE f[j-1] + tqhead[j].left]
           g == [j \in 0..k |-> IF j = 0 THEN 0 ELSE tmDue[tqhead[j].msg] + tmDelta]
<1>1. Len(tqhead) \in Nat /\ k \in Nat
  BY DEF TmList
<1>2. ASSUME NEW j \in 1..k
      PROVE  /\ j \in 1..Len(tqhead) /\ tqhead[j].left \in Nat /\ tmDue[tqhead[j].msg] \in Int
             /\ j - 1 \in 0..k /\ j \in 0..k /\ g[j] \in Int /\ g[j-1] \in Int
             /\ g[j] = g[j-1] + tqhead[j].left
  <2>1. j \in 1..Len(tqhead) /\ j - 1 \in 0..k /\ j \in 0..k
    BY <1>1
  <2>2. tqhead[j] \in TmEntries
    BY <2>1 DEF TmList
  <2>3. tqhead[j].msg \in TmMsgs /\ tqhead[j].left \in Nat /\ tmDue[tqhead[j].msg] \in Int
    BY <2>2 DEF TmEntries
  <2>4. g[j] = tmDue[tqhead[j].msg] + tmDelta
    BY <2>1
  <2>5. CASE j = 1
    <3>1. tqhead[j].left = tmDue[tqhead[j].msg] - (0 - tmDelta) /\ g[j-1] = 0
      BY <2>1, <2>5 DEF TmList, TmDated
    <3> QED  BY <2>1, <2>3, <2>4, <3>1
  <2>6. CASE j # 1
    <3>1. j - 1 \in 1..Len(tqhead) /\ j - 1 # 0
      BY <1>1, <2>1, <2>6
    <3>2. tqhead[j-1] \in TmEntries
      BY <3>1 DEF TmList
    <3>3. tmDue[tqhead[j-1].msg] \in Int
      BY <3>2 DEF TmEntries
    <3>4. /\ tqhead[j].left = tmDue[tqhead[j].msg] - tmDue[tqhead[j-1].msg]
          /\ g[j-1] = tmDue[tqhead[j-1].msg] + tmDelta
      BY <2>1, <2>6, <3>1 DEF TmList, TmDated
    <3>5. PICK a \in Int, b \in Int : a = tmDue[tqhead[j].msg] /\ b = tmDue[tqhead[j-1].msg]
      BY <2>3, <3>3
    <3>6. /\ g[j] = a + tmDelta /\ g[j-1] = b + tmDelta /\ tqhead[j].left = a - b
      BY <2>4, <3>4, <3>5
    <3> HIDE DEF g
    <3>7. g[j] \in Int /\ g[j-1] \in Int /\ g[j] = g[j-1] + tqhead[j].left
      BY <3>6
    <3> QED  BY <2>1, <2>3, <3>7
  <2> QED  BY <2>5, <2>6
<1>3. g[0] = 0 /\ g = [j \in 0..k |-> g[j]]
  BY <1>1
<1> HIDE DEF g
<1>4. Is(g)
  <2>1. \A j \in 0..k : g[j] = IF j = 0 THEN 0 ELSE g[j-1] + tqhead[j].left
    <3>1. ASSUME NEW j \in 0..k, j # 0 PROVE g[j] = g[j-1] + tqhead[j].left
      <4>1. j \in 1..k
        BY <1>1, <3>1
      <4> QED  BY <1>2, <4>1
    <3> QED  BY <1>3, <3>1
  <2> QED  BY <1>3, <2>1
<1>5. PICK f : Is(f) /\ tmleft(k) = f[k]
  <2>1. tmleft(k) = (CHOOSE f : Is(f))[k]
    BY Zenon DEF tmleft
  <2> QED  BY <1>4, <2>1
<1>6. \A j \in 0..k : f[j] = IF j = 0 THEN 0 ELSE f[j-1] + tqhead[j].left
  BY <1>5
<1> HIDE DEF Is
<1> DEFINE S == {j \in 0..k : f[j] # g[j]}
<1>7. S = {}
  <2> SUFFICES ASSUME S # {} PROVE FALSE
    OBVIOUS
  <2>1. S \in SUBSET Nat
    BY <1>1
  <2>2. PICK j : j \in S /\ \A i \in S : j <= i
    <3> HIDE DEF S
    <3> QED  BY <2>1, Smallest
  <2>3. j \in 0..k /\ f[j] # g[j]
    BY <2>2
  <2>4. j # 0 /\ j \in 1..k
    BY <1>1, <1>3, <1>6, <2>3
  <2>5. f[j-1] = g[j-1]
    <3>1. j - 1 \in 0..k /\ ~(j <= j - 1)
      BY <1>1, <2>4
    <3> QED  BY <2>2, <3>1
  <2>6. f[j] = f[j-1] + tqhead[j].left
    BY <1>6, <2>3, <2>4
  <2>7. g[j] = g[j-1] + tqhead[j].left
    BY <1>2, <2>4
  <2> QED  BY <2>3, <2>5, <2>6, <2>7
<1>8. f[k] = g[k]
  <2>1. k \in 0..k
    BY <1>1
  <2> QED  BY <1>7, <2>1
<1>9. g[k] = IF k = 0 THEN 0 ELSE tmDue[tqhead[k].msg] + tmDelta
  BY <1>1 DEF g
<1> QED  BY <1>5, <1>8, <1>9

\* Taking the k-th timer out, with what is left of it given to the next one.
LEMMA TmDatedRemove ==
    ASSUME NEW q \in Seq(TmEntries), NEW due \in [TmMsgs -> Int], TmOnce(q), TmDated(q, due, 0),
           NEW k \in 1..Len(q), NEW r, r = TmTakenOut(q, k)
    PROVE  /\ r \in Seq(TmEntries) /\ TmOnce(r) /\ TmDated(r, due, 0)
           /\ TmAmong(r, q, {}) /\ TmLacks(r, q[k].msg)
<1> DEFINE p == [j \in DOMAIN q |->
                   IF j = k + 1 THEN [q[j] EXCEPT !.left = @ + q[k].left] ELSE q[j]]
<1>1. Len(q) \in Nat /\ DOMAIN q = 1..Len(q)
  OBVIOUS
<1>2. ASSUME NEW j \in 1..Len(q)
      PROVE  q[j] \in TmEntries /\ q[j].msg \in TmMsgs /\ q[j].left \in Nat /\ due[q[j].msg] \in Int
  <2>1. q[j] \in TmEntries
    OBVIOUS
  <2>2. q[j].msg \in TmMsgs /\ q[j].left \in Nat
    BY <2>1 DEF TmEntries
  <2> QED  BY <2>1, <2>2
<1>3. /\ p \in Seq(TmEntries) /\ Len(p) = Len(q)
      /\ \A j \in 1..Len(q) : p[j].msg = q[j].msg
      /\ \A j \in 1..Len(q) : p[j].left = IF j = k + 1 THEN q[j].left + q[k].left ELSE q[j].left
  <2>1. ASSUME NEW j \in 1..Len(q)
        PROVE  /\ p[j] \in TmEntries /\ p[j].msg = q[j].msg
               /\ p[j].left = IF j = k + 1 THEN q[j].left + q[k].left ELSE q[j].left
    <3>1. CASE j = k + 1
      <4>1. p[j] = [q[j] EXCEPT !.left = q[j].left + q[k].left]
        BY <1>1, <3>1
      <4>2. q[j].left + q[k].left \in Nat
        BY <1>2
      <4> HIDE DEF p
      <4> QED  BY <1>2, <3>1, <4>1, <4>2 DEF TmEntries
    <3>2. CASE j # k + 1
      <4>1. p[j] = q[j]
        BY <1>1, <3>2
      <4> HIDE DEF p
      <4> QED  BY <1>2, <3>2, <4>1
    <3> QED  BY <3>1, <3>2
  <2>2. p \in [1..Len(q) -> TmEntries]
    <3>1. p = [j \in 1..Len(q) |-> p[j]]
      BY <1>1
    <3> HIDE DEF p
    <3> QED  BY <2>1, <3>1
  <2> HIDE DEF p
  <2>3. p \in Seq(TmEntries) /\ Len(p) = Len(q)
    BY <1>1, <2>2
  <2> QED  BY <2>1, <2>3
<1>3a. \A j \in 1..Len(q) : j # 1 => q[j].left = due[q[j].msg] - due[q[j-1].msg]
  BY DEF TmDated
<1>4. r = RemoveAt(p, k)
  BY DEF TmTakenOut
<1> HIDE DEF p
<1>5. /\ r \in Seq(TmEntries) /\ Len(r) = Len(q) - 1
      /\ \A j \in 1..(Len(q)-1) : r[j] = IF j < k THEN p[j] ELSE p[j+1]
  <2>1. \A S : \A g \in Seq(S) : \A i \in 1..Len(g) :
          /\ RemoveAt(g, i) \in Seq(S)
          /\ Len(RemoveAt(g, i)) = Len(g) - 1
          /\ \A j \in 1..(Len(g)-1) : RemoveAt(g, i)[j] = IF j < i THEN g[j] ELSE g[j+1]
    BY RemoveAtElements, Zenon
  <2>2. p \in Seq(TmEntries) /\ Len(p) = Len(q) /\ k \in 1..Len(p)
    BY <1>3
  <2> QED  BY <1>4, <2>1, <2>2
<1> DEFINE Old(j) == IF j < k THEN j ELSE j + 1
<1>6. ASSUME NEW j \in 1..Len(r)
      PROVE  /\ Old(j) \in 1..Len(q) /\ Old(j) # k /\ r[j] = p[Old(j)]
             /\ r[j].msg = q[Old(j)].msg
             /\ r[j].left = IF j = k THEN q[k+1].left + q[k].left ELSE q[Old(j)].left
  <2>1. j \in 1..(Len(q)-1)
    BY <1>1, <1>5
  <2>2. CASE j < k
    <3>1. Old(j) = j /\ j \in 1..Len(q) /\ j # k /\ j # k + 1
      BY <1>1, <2>1, <2>2
    <3>2. r[j] = p[j]
      BY <1>5, <2>1, <2>2
    <3> QED  BY <1>3, <3>1, <3>2
  <2>3. CASE ~(j < k)
    <3>1. Old(j) = j + 1 /\ j + 1 \in 1..Len(q) /\ j + 1 # k /\ (j = k <=> j + 1 = k + 1)
      BY <1>1, <2>1, <2>3
    <3>2. r[j] = p[j+1]
      BY <1>5, <2>1, <2>3
    <3>3. p[j+1].msg = q[j+1].msg
      BY <1>3, <3>1
    <3>4. p[j+1].left = IF j + 1 = k + 1 THEN q[j+1].left + q[k].left ELSE q[j+1].left
      BY <1>3, <3>1
    <3> QED  BY <3>1, <3>2, <3>3, <3>4
  <2> QED  BY <2>2, <2>3
<1>7. \A i, j \in 1..Len(r) : i <= j => Old(i) <= Old(j)
  BY <1>1, <1>5
<1>8. \A i, j \in 1..Len(r) : Old(i) = Old(j) => i = j
  BY <1>1, <1>5
<1>9. TmOnce(r)
  <2> SUFFICES ASSUME NEW i \in 1..Len(r), NEW j \in 1..Len(r), r[i].msg = r[j].msg PROVE i = j
    BY DEF TmOnce
  <2>1. Old(i) \in 1..Len(q) /\ Old(j) \in 1..Len(q) /\ q[Old(i)].msg = q[Old(j)].msg
    BY <1>6
  <2> HIDE DEF Old
  <2> QED  BY <1>8, <2>1 DEF TmOnce
<1>10. \A i, j \in 1..Len(r) : i <= j => due[r[i].msg] <= due[r[j].msg]
  <2> SUFFICES ASSUME NEW i \in 1..Len(r), NEW j \in 1..Len(r), i <= j
               PROVE  due[r[i].msg] <= due[r[j].msg]
    OBVIOUS
  <2>1. /\ Old(i) \in 1..Len(q) /\ Old(j) \in 1..Len(q) /\ Old(i) <= Old(j)
        /\ r[i].msg = q[Old(i)].msg /\ r[j].msg = q[Old(j)].msg
    BY <1>6, <1>7
  <2> HIDE DEF Old
  <2> QED  BY <2>1 DEF TmDated
<1>11. ASSUME NEW j \in 1..Len(r)
       PROVE  r[j].left = due[r[j].msg] - (IF j = 1 THEN 0 - 0 ELSE due[r[j-1].msg])
  <2>0. j \in 1..(Len(q)-1) /\ j + 1 \in 1..Len(q)
    <3>1. Len(r) = Len(q) - 1
      BY <1>5
    <3>2. PICK n \in Nat : n = Len(q)
      BY <1>1, ZenonT(40)
    <3>3. j \in 1..(n - 1)
      BY <3>1, <3>2
    <3>4. j + 1 \in 1..n
      BY <3>3
    <3> QED  BY <3>2, <3>3, <3>4
  <2>1. CASE j < k
    <3>1. Old(j) = j /\ j \in 1..Len(q) /\ (j # 1 => j - 1 \in 1..Len(r) /\ Old(j-1) = j - 1)
      BY <1>1, <1>5, <2>0, <2>1
    <3>2. r[j].msg = q[j].msg /\ r[j].left = q[j].left /\ (j # 1 => r[j-1].msg = q[j-1].msg)
      BY <1>6, <2>1, <3>1
    <3> QED  BY <3>1, <3>2 DEF TmDated
  <2>2. CASE j = k
    <3>1. r[j].msg = q[k+1].msg /\ r[j].left = q[k+1].left + q[k].left
      BY <1>6, <2>2
    <3>2. j # 1 => r[j-1].msg = q[k-1].msg
      <4>1. j # 1 => j - 1 \in 1..Len(r) /\ Old(j-1) = k - 1
        BY <1>1, <1>5, <2>0, <2>2
      <4> QED  BY <1>6, <4>1
    <3>3. k + 1 \in 1..Len(q) /\ k + 1 # 1 /\ k + 1 - 1 = k
      BY <2>0, <2>2
    <3>4. PICK a \in Int, b \in Int, c \in Int :
            /\ a = due[q[k].msg] /\ b = due[q[k+1].msg]
            /\ c = IF k = 1 THEN 0 - 0 ELSE due[q[k-1].msg]
      <4>1. k # 1 => k - 1 \in 1..Len(q)
        BY <1>1
      <4>2. due[q[k].msg] \in Int /\ due[q[k+1].msg] \in Int
        BY <1>2, <3>3
      <4>3. PICK c : c = IF k = 1 THEN 0 - 0 ELSE due[q[k-1].msg]
        OBVIOUS
      <4>4. c \in Int
        <5>1. CASE k = 1
          BY <4>3, <5>1
        <5>2. CASE k # 1
          BY <1>2, <4>1, <4>3, <5>2
        <5> QED  BY <5>1, <5>2
      <4> QED  BY <4>2, <4>3, <4>4
    <3>5. q[k+1].left = b - a /\ q[k].left = a - c
      <4>1. q[k+1].left = due[q[k+1].msg] - due[q[k+1-1].msg]
        <5>1. PICK j2 \in 1..Len(q) : j2 = k + 1 /\ j2 # 1
          BY <3>3
        <5> QED  BY <1>3a, <5>1
      <4>2. q[k].left = due[q[k].msg] - (IF k = 1 THEN 0 - 0 ELSE due[q[k-1].msg])
        BY DEF TmDated
      <4> QED  BY <3>3, <3>4, <4>1, <4>2
    <3>6. r[j].left = b - c
      BY <3>1, <3>5
    <3>7. due[r[j].msg] = b /\ (IF j = 1 THEN 0 - 0 ELSE due[r[j-1].msg]) = c
      BY <2>2, <3>1, <3>2, <3>4
    <3> QED  BY <3>6, <3>7
  <2>3. CASE j > k
    <3>1. Old(j) = j + 1 /\ j - 1 \in 1..Len(r) /\ Old(j-1) = j /\ j # 1 /\ j # k /\ j + 1 # 1 /\ j + 1 - 1 = j
      BY <1>1, <1>5, <2>0, <2>3
    <3>2. r[j].msg = q[j+1].msg /\ r[j].left = q[j+1].left /\ r[j-1].msg = q[j].msg
      BY <1>6, <3>1
    <3>3. q[j+1].left = due[q[j+1].msg] - due[q[j+1-1].msg]
      <4>1. PICK j2 \in 1..Len(q) : j2 = j + 1 /\ j2 # 1
        BY <2>0, <3>1
      <4> QED  BY <1>3a, <4>1, SMTT(40)
    <3> QED  BY <3>1, <3>2, <3>3
  <2> QED  BY <1>1, <1>5, <2>1, <2>2, <2>3
<1>12. TmAmong(r, q, {}) /\ TmLacks(r, q[k].msg)
  <2>1. \A j \in 1..Len(r) : \E i \in 1..Len(q) : i # k /\ r[j].msg = q[i].msg
    BY <1>6
  <2>2. \A i \in 1..Len(q) : i # k => q[i].msg # q[k].msg
    BY DEF TmOnce
  <2> QED  BY <2>1, <2>2 DEF TmAmong, TmLacks
<1> QED  BY <1>5, <1>9, <1>10, <1>11, <1>12 DEF TmDated

\* Putting a timer behind the k that are due no later, its time taken off the
\* next one.
LEMMA TmDatedInsert ==
    ASSUME NEW q \in Seq(TmEntries), NEW due \in [TmMsgs -> Int], TmOnce(q), TmDated(q, due, 0),
           NEW m \in TmMsgs, NEW t \in Nat, TmLacks(q, m),
           NEW k \in 0..Len(q), \A j \in 1..Len(q) : j <= k <=> due[q[j].msg] <= t,
           NEW e, e = [msg |-> m, left |-> t - (IF k = 0 THEN 0 ELSE due[q[k].msg])],
           NEW r, r = TmPutIn(q, k, e)
    PROVE  /\ r \in Seq(TmEntries) /\ TmOnce(r) /\ TmDated(r, [due EXCEPT ![m] = t], 0)
           /\ TmAmong(r, q, {m})
<1> DEFINE p == [j \in DOMAIN q |->
                   IF j = k + 1 THEN [q[j] EXCEPT !.left = @ - e.left] ELSE q[j]]
           new == [due EXCEPT ![m] = t]
           D(j) == due[q[j].msg]
<1>1. Len(q) \in Nat /\ DOMAIN q = 1..Len(q) /\ k \in Nat /\ k <= Len(q)
  OBVIOUS
<1>2. ASSUME NEW j \in 1..Len(q)
      PROVE  /\ q[j] \in TmEntries /\ q[j].msg \in TmMsgs /\ q[j].left \in Nat /\ D(j) \in Int
             /\ new[q[j].msg] = D(j)
  <2>1. q[j] \in TmEntries
    OBVIOUS
  <2>2. q[j].msg \in TmMsgs /\ q[j].left \in Nat
    BY <2>1 DEF TmEntries
  <2> QED  BY <2>1, <2>2 DEF TmLacks
<1>3. \A i, j \in 1..Len(q) : i <= j => D(i) <= D(j)
  BY DEF TmDated
<1>4. \A j \in 1..Len(q) : j # 1 => q[j].left = D(j) - D(j-1)
  BY DEF TmDated
<1>5. 1 \in 1..Len(q) => q[1].left = D(1) - 0
  BY DEF TmDated
<1>6. \A j \in 1..Len(q) : j <= k <=> D(j) <= t
  OBVIOUS
<1>7. PICK b \in Int : b = (IF k = 0 THEN 0 ELSE D(k)) /\ b <= t
  <2>1. k # 0 => k \in 1..Len(q)
    BY <1>1
  <2> QED  BY <1>2, <1>6, <2>1
<1>8. e.msg = m /\ e.left = t - b /\ e.left \in Nat /\ e \in TmEntries
  <2>1. e = [msg |-> m, left |-> t - b] /\ t - b \in Nat
    BY <1>7
  <2> QED  BY <2>1, SMTT(40) DEF TmEntries
<1> HIDE DEF D
<1>9. k + 1 \in 1..Len(q) => q[k+1].left = D(k+1) - b /\ D(k+1) > t
  <2> SUFFICES ASSUME k + 1 \in 1..Len(q) PROVE q[k+1].left = D(k+1) - b /\ D(k+1) > t
    OBVIOUS
  <2>1. D(k+1) > t
    BY <1>1, <1>2, <1>6
  <2>2. CASE k = 0
    <3>1. k + 1 = 1 /\ b = 0
      BY <1>7, <2>2
    <3> QED  BY <1>5, <2>1, <3>1
  <2>3. CASE k # 0
    <3>1. k + 1 # 1 /\ k + 1 - 1 = k /\ b = D(k)
      BY <1>1, <1>7, <2>3
    <3>2. q[k+1].left = D(k+1) - D(k+1-1)
      BY <1>4, <3>1
    <3> QED  BY <2>1, <3>1, <3>2
  <2> QED  BY <2>2, <2>3
<1>10. /\ p \in Seq(TmEntries) /\ Len(p) = Len(q)
       /\ \A j \in 1..Len(q) : p[j].msg = q[j].msg
       /\ \A j \in 1..Len(q) : p[j].left = IF j = k + 1 THEN D(j) - t ELSE q[j].left
  <2>1. ASSUME NEW j \in 1..Len(q)
        PROVE  /\ p[j] \in TmEntries /\ p[j].msg = q[j].msg
               /\ p[j].left = IF j = k + 1 THEN D(j) - t ELSE q[j].left
    <3>1. CASE j = k + 1
      <4>1. p[j] = [q[j] EXCEPT !.left = q[j].left - e.left]
        BY <1>1, <3>1
      <4>2. q[j].left - e.left = D(j) - t /\ D(j) - t \in Nat
        <5>1. D(j) \in Int /\ D(j) > t /\ q[j].left = D(j) - b /\ e.left = t - b
          BY <1>2, <1>8, <1>9, <3>1
        <5> QED  BY <5>1
      <4>3. p[j] = [q[j] EXCEPT !.left = D(j) - t]
        BY <4>1, <4>2
      <4> HIDE DEF p
      <4> QED  BY <1>2, <3>1, <4>2, <4>3 DEF TmEntries
    <3>2. CASE j # k + 1
      <4>1. p[j] = q[j]
        BY <1>1, <3>2
      <4> HIDE DEF p
      <4> QED  BY <1>2, <3>2, <4>1
    <3> QED  BY <3>1, <3>2
  <2>2. p \in [1..Len(q) -> TmEntries]
    <3>1. p = [j \in 1..Len(q) |-> p[j]]
      BY <1>1
    <3> HIDE DEF p
    <3> QED  BY <2>1, <3>1
  <2> HIDE DEF p
  <2>3. p \in Seq(TmEntries) /\ Len(p) = Len(q)
    <3>1. PICK n \in Nat : n = Len(q)
      BY <1>1, ZenonT(40)
    <3>2. p \in [1..n -> TmEntries]
      BY <2>2, <3>1
    <3>3. p \in Seq(TmEntries) /\ Len(p) = n
      BY <3>2
    <3> QED  BY <3>1, <3>3
  <2> QED  BY <2>1, <2>3
<1>11. r = InsertAt(p, k + 1, e)
  BY DEF TmPutIn
<1> HIDE DEF p, new
<1>12. r \in Seq(TmEntries) /\ Inserted(r, p, k, e)
  <2>1. p \in Seq(TmEntries) /\ k \in 0..Len(p)
    BY <1>1, <1>10
  <2> QED  BY <1>8, <1>11, <2>1, InsertAtPlace
<1>12a. Len(r) = Len(q) + 1
  BY <1>10, <1>12 DEF Inserted
<1>13. ASSUME NEW j \in 1..Len(r)
       PROVE  \/ /\ j <= k /\ j \in 1..Len(q) /\ r[j].msg = q[j].msg /\ r[j].left = q[j].left
              \/ j = k + 1 /\ r[j] = e
              \/ /\ j > k + 1 /\ j - 1 \in 1..Len(q) /\ r[j].msg = q[j-1].msg
                 /\ r[j].left = IF j - 1 = k + 1 THEN D(j-1) - t ELSE q[j-1].left
  <2>1. \/ j <= k /\ j \in 1..Len(q) /\ r[j] = p[j]
        \/ j = k + 1 /\ r[j] = e
        \/ j > k + 1 /\ j - 1 \in 1..Len(q) /\ r[j] = p[j-1]
    BY <1>10, <1>12 DEF Inserted
  <2>2. CASE j <= k /\ j \in 1..Len(q) /\ r[j] = p[j]
    <3>1. j # k + 1
      BY <1>1, <2>2
    <3> QED  BY <1>10, <2>2, <3>1
  <2>3. CASE j = k + 1 /\ r[j] = e
    BY <2>3
  <2>4. CASE j > k + 1 /\ j - 1 \in 1..Len(q) /\ r[j] = p[j-1]
    BY <1>10, <2>4
  <2> QED  BY <2>1, <2>2, <2>3, <2>4
<1> DEFINE E(j) == new[r[j].msg]
<1>14. ASSUME NEW j \in 1..Len(r)
       PROVE  /\ E(j) = IF j <= k THEN D(j) ELSE IF j = k + 1 THEN t ELSE D(j-1)
              /\ r[j].msg = m <=> j = k + 1
  <2>1. new[m] = t
    BY DEF new
  <2>2. CASE j <= k /\ j \in 1..Len(q) /\ r[j].msg = q[j].msg
    BY <1>1, <1>2, <2>2 DEF TmLacks
  <2>3. CASE j = k + 1 /\ r[j] = e
    BY <1>1, <1>8, <2>1, <2>3
  <2>4. CASE j > k + 1 /\ j - 1 \in 1..Len(q) /\ r[j].msg = q[j-1].msg
    BY <1>1, <1>2, <2>4 DEF TmLacks
  <2> QED  BY <1>13, <2>2, <2>3, <2>4 
<1>15. TmOnce(r)
  <2> SUFFICES ASSUME NEW i \in 1..Len(r), NEW j \in 1..Len(r), r[i].msg = r[j].msg, i # j PROVE FALSE
    BY DEF TmOnce
  <2>1. i # k + 1 /\ j # k + 1
    BY <1>14
  <2> DEFINE Old(l) == IF l <= k THEN l ELSE l - 1
  <2>2. /\ Old(i) \in 1..Len(q) /\ Old(j) \in 1..Len(q)
        /\ r[i].msg = q[Old(i)].msg /\ r[j].msg = q[Old(j)].msg
    <3>1. ASSUME NEW l \in 1..Len(r), l # k + 1
          PROVE  Old(l) \in 1..Len(q) /\ r[l].msg = q[Old(l)].msg
      <4>1. CASE l <= k /\ l \in 1..Len(q) /\ r[l].msg = q[l].msg
        BY <4>1
      <4>2. CASE l > k + 1 /\ l - 1 \in 1..Len(q) /\ r[l].msg = q[l-1].msg
        <5>1. Old(l) = l - 1
          BY <1>1, <4>2
        <5> QED  BY <4>2, <5>1
      <4> QED  BY <1>13, <3>1, <4>1, <4>2
    <3> QED  BY <2>1, <3>1
  <2>3. Old(i) # Old(j)
    BY <1>1, <1>12a, <2>1
  <2> HIDE DEF Old
  <2> QED  BY <2>2, <2>3 DEF TmOnce
<1>16. ASSUME NEW i \in 1..Len(r), NEW j \in 1..Len(r), i <= j PROVE E(i) <= E(j)
  <2> DEFINE V(l) == IF l <= k THEN D(l) ELSE IF l = k + 1 THEN t ELSE D(l-1)
  <2>1. E(i) = V(i) /\ E(j) = V(j)
    BY <1>14
  <2>2. PICK n \in Nat : n = Len(q) /\ Len(r) = n + 1
    BY <1>1, <1>12a, ZenonT(40)
  <2> HIDE DEF E
  <2>3. CASE i <= k
    <3>1. i \in 1..n /\ V(i) = D(i) /\ D(i) <= t /\ D(i) \in Int
      BY <1>1, <1>2, <1>6, <2>2, <2>3
    <3>2. CASE j <= k
      BY <1>1, <1>3, <1>16, <2>1, <2>2, <3>1, <3>2
    <3>3. CASE j = k + 1
      BY <1>1, <2>1, <3>1, <3>3
    <3>4. CASE j > k + 1
      <4>1. j - 1 \in 1..n /\ i <= j - 1 /\ V(j) = D(j-1)
        BY <1>1, <2>2, <2>3, <3>4
      <4> QED  BY <1>3, <2>1, <2>2, <3>1, <4>1
    <3> QED  BY <1>1, <3>2, <3>3, <3>4
  <2>4. CASE i = k + 1
    <3>1. V(i) = t
      BY <1>1, <2>4
    <3>2. CASE j = k + 1
      BY <2>1, <3>1, <3>2, <2>4
    <3>3. CASE j > k + 1
      <4>1. j - 1 \in 1..n /\ ~(j - 1 <= k) /\ V(j) = D(j-1)
        BY <1>1, <2>2, <3>3
      <4>2. D(j-1) \in Int /\ ~(D(j-1) <= t)
        BY <1>2, <1>6, <2>2, <4>1
      <4> QED  BY <2>1, <3>1, <4>1, <4>2
    <3> QED  BY <1>1, <1>16, <2>4, <3>2, <3>3
  <2>5. CASE i > k + 1
    <3>1. /\ i - 1 \in 1..n /\ j - 1 \in 1..n /\ i - 1 <= j - 1
          /\ V(i) = D(i-1) /\ V(j) = D(j-1)
      BY <1>1, <1>16, <2>2, <2>5
    <3> QED  BY <1>3, <2>1, <2>2, <3>1
  <2> QED  BY <1>1, <2>3, <2>4, <2>5
<1>17. ASSUME NEW j \in 1..Len(r)
       PROVE  r[j].left = E(j) - (IF j = 1 THEN 0 - 0 ELSE E(j-1))
  <2>1. PICK n \in Nat : n = Len(q) /\ Len(r) = n + 1 /\ k \in 0..n /\ j \in 1..(n + 1)
    BY <1>1, <1>12a, ZenonT(40)
  <2>2. j # 1 => j - 1 \in 1..Len(r)
    BY <2>1
  <2>3. j # 1 => E(j-1) = IF j - 1 <= k THEN D(j-1) ELSE IF j - 1 = k + 1 THEN t ELSE D(j-1-1)
    BY <1>14, <2>2
  <2>4. E(j) = IF j <= k THEN D(j) ELSE IF j = k + 1 THEN t ELSE D(j-1)
    BY <1>14
  <2> HIDE DEF E
  <2>5. CASE j <= k
    <3>1. j \in 1..n /\ r[j].left = q[j].left /\ E(j) = D(j) /\ (j # 1 => E(j-1) = D(j-1))
      <4>1. j \in 1..n /\ ~(j = k + 1) /\ ~(j > k + 1) /\ (j # 1 => j - 1 <= k)
        BY <1>1, <2>1, <2>5
      <4>2. r[j].left = q[j].left
        BY <1>13, <4>1
      <4> QED  BY <2>3, <2>4, <2>5, <4>1, <4>2
    <3>2. D(j) \in Int
      BY <1>2, <2>1, <3>1
    <3>3. CASE j = 1
      BY <1>5, <2>1, <3>1, <3>2, <3>3
    <3>4. CASE j # 1
      BY <1>4, <2>1, <3>1, <3>4
    <3> QED  BY <3>3, <3>4
  <2>6. CASE j = k + 1
    <3>1. r[j].left = t - b /\ E(j) = t
      BY <1>1, <1>8, <1>13, <2>4, <2>6
    <3>2. j # 1 => E(j-1) = b
      BY <1>1, <1>7, <2>3, <2>6
    <3>3. j = 1 => b = 0
      BY <1>1, <1>7, <2>6
    <3> QED  BY <3>1, <3>2, <3>3, SMTT(40)
  <2>7. CASE j > k + 1
    <3>1. /\ j # 1 /\ j - 1 \in 1..n
          /\ r[j].left = IF j - 1 = k + 1 THEN D(j-1) - t ELSE q[j-1].left
      BY <1>1, <1>13, <2>1, <2>7
    <3>2. E(j) = D(j-1)
      BY <1>1, <2>4, <2>7
    <3>3. CASE j - 1 = k + 1
      BY <1>1, <2>3, <2>7, <3>1, <3>2, <3>3
    <3>4. CASE j - 1 # k + 1
      <4>1. j - 1 # 1 /\ j - 1 \in 1..n /\ j # 1 /\ E(j-1) = D(j-1-1) /\ r[j].left = q[j-1].left
        BY <1>1, <2>1, <2>3, <2>7, <3>1, <3>4
      <4>2. q[j-1].left = D(j-1) - D(j-1-1)
        BY <1>4, <2>1, <4>1
      <4> QED  BY <3>2, <4>1, <4>2
    <3> QED  BY <3>3, <3>4
  <2> QED  BY <1>1, <2>5, <2>6, <2>7
<1>18. TmAmong(r, q, {m})
  BY <1>8, <1>13 DEF TmAmong
<1>19. TmDated(r, new, 0)
  BY <1>16, <1>17, ZenonT(40) DEF TmDated
<1> QED  BY <1>12, <1>15, <1>18, <1>19 DEF new

\* A round of tcptimer begins: every timer in the list is due delta earlier.
LEMMA TmDatedShift ==
    ASSUME NEW q \in Seq(TmEntries), NEW due \in [TmMsgs -> Int], TmDated(q, due, 0),
           NEW delta \in Nat, NEW new \in [TmMsgs -> Int],
           \A j \in 1..Len(q) : new[q[j].msg] = due[q[j].msg] - delta
    PROVE  TmDated(q, new, delta)
<1>1. ASSUME NEW j \in 1..Len(q) PROVE q[j].msg \in TmMsgs /\ due[q[j].msg] \in Int
  <2>1. q[j] \in TmEntries
    OBVIOUS
  <2> QED  BY <2>1 DEF TmEntries
<1>2. \A i, j \in 1..Len(q) : i <= j => new[q[i].msg] <= new[q[j].msg]
  <2>1. ASSUME NEW i \in 1..Len(q), NEW j \in 1..Len(q), i <= j PROVE new[q[i].msg] <= new[q[j].msg]
    <3>1. PICK a \in Int, b \in Int : a = due[q[i].msg] /\ b = due[q[j].msg]
      BY <1>1
    <3>2. a <= b /\ new[q[i].msg] = a - delta /\ new[q[j].msg] = b - delta
      BY <2>1, <3>1 DEF TmDated
    <3> QED  BY <3>2
  <2> QED  BY <2>1
<1>3. ASSUME NEW k \in 1..Len(q)
      PROVE  q[k].left = new[q[k].msg] - (IF k = 1 THEN 0 - delta ELSE new[q[k-1].msg])
  <2>1. PICK a \in Int : a = due[q[k].msg] /\ new[q[k].msg] = a - delta
    BY <1>1
  <2>2. q[k].left = a - (IF k = 1 THEN 0 - 0 ELSE due[q[k-1].msg])
    BY <2>1 DEF TmDated
  <2>3. CASE k = 1
    BY <2>1, <2>2, <2>3
  <2>4. CASE k # 1
    <3>1. k - 1 \in 1..Len(q)
      BY <2>4
    <3>2. PICK b \in Int : b = due[q[k-1].msg] /\ new[q[k-1].msg] = b - delta
      BY <1>1, <3>1
    <3>3. q[k].left = a - b
      BY <2>2, <2>4, <3>2
    <3>4. a - b = (a - delta) - (b - delta)
      OBVIOUS
    <3> QED  BY <2>1, <2>4, <3>2, <3>3, <3>4
  <2> QED  BY <2>3, <2>4
<1> QED  BY <1>2, <1>3 DEF TmDated

\* The first timer has run out: what is left of delta counts from it.
LEMMA TmDatedTail ==
    ASSUME NEW q \in Seq(TmEntries), q # <<>>, NEW due \in [TmMsgs -> Int], TmOnce(q),
           NEW delta \in Nat, TmDated(q, due, delta), q[1].left <= delta
    PROVE  /\ Tail(q) \in Seq(TmEntries) /\ TmOnce(Tail(q))
           /\ TmDated(Tail(q), due, delta - q[1].left) /\ delta - q[1].left \in Nat
           /\ TmAmong(Tail(q), q, {})
<1>1. PICK n \in Nat : n = Len(q) /\ n > 0
  OBVIOUS
<1>2. ASSUME NEW j \in 1..Len(q)
      PROVE  q[j].msg \in TmMsgs /\ q[j].left \in Nat /\ due[q[j].msg] \in Int
  <2>1. q[j] \in TmEntries
    OBVIOUS
  <2> QED  BY <2>1 DEF TmEntries
<1>3. PICK r : r = Tail(q)
  OBVIOUS
<1>4. r \in Seq(TmEntries) /\ Len(r) = n - 1 /\ \A j \in 1..(n - 1) : r[j] = q[j+1] /\ j + 1 \in 1..Len(q)
  BY <1>1, <1>3
<1>5. 1 \in 1..Len(q) /\ delta - q[1].left \in Nat
  <2>1. 1 \in 1..Len(q)
    BY <1>1
  <2>2. q[1].left \in Nat
    BY <1>2, <2>1
  <2> QED  BY <2>1, <2>2
<1>6. TmOnce(r)
  <2> SUFFICES ASSUME NEW i \in 1..Len(r), NEW j \in 1..Len(r), r[i].msg = r[j].msg PROVE i = j
    BY DEF TmOnce
  <2>1. i + 1 \in 1..Len(q) /\ j + 1 \in 1..Len(q) /\ q[i+1].msg = q[j+1].msg
    BY <1>4
  <2>2. i + 1 = j + 1
    BY <2>1 DEF TmOnce
  <2> QED  BY <1>4, <2>2
<1>7. ASSUME NEW i \in 1..Len(r), NEW j \in 1..Len(r), i <= j PROVE due[r[i].msg] <= due[r[j].msg]
  <2>1. i + 1 \in 1..Len(q) /\ j + 1 \in 1..Len(q) /\ r[i] = q[i+1] /\ r[j] = q[j+1] /\ i + 1 <= j + 1
    BY <1>4, <1>7, SMTT(40)
  <2>2. due[q[i+1].msg] <= due[q[j+1].msg]
    BY <2>1 DEF TmDated
  <2> QED  BY <2>1, <2>2
<1>8. ASSUME NEW k \in 1..Len(r)
      PROVE  r[k].left = due[r[k].msg] - (IF k = 1 THEN 0 - (delta - q[1].left) ELSE due[r[k-1].msg])
  <2>1. k + 1 \in 1..Len(q) /\ r[k] = q[k+1] /\ k + 1 # 1 /\ k + 1 - 1 = k
    BY <1>4
  <2>2. q[k+1].left = due[q[k+1].msg] - due[q[k+1-1].msg]
    <3>1. \A j \in 1..Len(q) : j # 1 => q[j].left = due[q[j].msg] - due[q[j-1].msg]
      BY DEF TmDated
    <3>2. PICK j \in 1..Len(q) : j = k + 1 /\ j # 1
      BY <2>1
    <3> QED  BY <3>1, <3>2
  <2>3. CASE k = 1
    <3>1. PICK a \in Int, b \in Int, l \in Int : a = due[q[1].msg] /\ b = due[q[k+1].msg] /\ l = q[1].left
      BY <1>2, <1>5, <2>1
    <3>2. l = a - (0 - delta)
      BY <1>5, <3>1 DEF TmDated
    <3>3. r[k].left = b - a /\ due[r[k].msg] = b
      BY <2>1, <2>2, <2>3, <3>1
    <3>4. b - a = b - (0 - (delta - l))
      BY <3>2
    <3> QED  BY <2>3, <3>1, <3>3, <3>4
  <2>4. CASE k # 1
    <3>1. k - 1 \in 1..(n - 1) /\ k - 1 + 1 = k
      BY <1>4, <2>4
    <3>2. r[k-1] = q[k]
      BY <1>4, <3>1
    <3> QED  BY <2>1, <2>2, <2>4, <3>2
  <2> QED  BY <2>3, <2>4
<1>9. TmAmong(r, q, {})
  BY <1>4 DEF TmAmong
<1>10. TmDated(r, due, delta - q[1].left)
  BY <1>7, <1>8 DEF TmDated
<1> QED  BY <1>3, <1>4, <1>5, <1>6, <1>9, <1>10

\* The rest of delta is taken off the first timer.
LEMMA TmDatedLess ==
    ASSUME NEW q \in Seq(TmEntries), q # <<>>, NEW due \in [TmMsgs -> Int], TmOnce(q),
           NEW delta \in Nat, TmDated(q, due, delta), ~(q[1].left <= delta)
    PROVE  \E r \in Seq(TmEntries) :
            /\ r = [q EXCEPT ![1].left = @ - delta] /\ TmOnce(r) /\ TmDated(r, due, 0) /\ r # <<>>
            /\ TmAmong(r, q, {})
<1>1. PICK n \in Nat : n = Len(q) /\ n > 0
  OBVIOUS
<1>2. ASSUME NEW j \in 1..Len(q)
      PROVE  q[j] \in TmEntries /\ q[j].msg \in TmMsgs /\ q[j].left \in Nat /\ due[q[j].msg] \in Int
  <2>1. q[j] \in TmEntries
    OBVIOUS
  <2> QED  BY <2>1 DEF TmEntries
<1>3. 1 \in 1..Len(q) /\ q[1].left \in Nat /\ q[1].left - delta \in Nat
  <2>1. 1 \in 1..Len(q)
    BY <1>1
  <2>2. q[1].left \in Nat
    BY <1>2, <2>1
  <2> QED  BY <2>1, <2>2
<1> DEFINE e == [q[1] EXCEPT !.left = q[1].left - delta]
           r == [q EXCEPT ![1] = e]
<1>4. e \in TmEntries /\ e.msg = q[1].msg /\ e.left = q[1].left - delta
  BY <1>2, <1>3 DEF TmEntries
<1>5. r = [q EXCEPT ![1].left = @ - delta]
  OBVIOUS
<1> HIDE DEF e
<1>6. /\ r \in Seq(TmEntries) /\ Len(r) = Len(q)
      /\ \A j \in 1..Len(q) : r[j] = IF j = 1 THEN e ELSE q[j]
  BY <1>3, <1>4
<1> HIDE DEF r
<1>7. \A j \in 1..Len(q) : r[j].msg = q[j].msg
  BY <1>4, <1>6
<1>8. TmOnce(r) /\ \A i, j \in 1..Len(r) : i <= j => due[r[i].msg] <= due[r[j].msg]
  BY <1>6, <1>7 DEF TmOnce, TmDated
<1>9. ASSUME NEW k \in 1..Len(q)
      PROVE  r[k].left = due[r[k].msg] - (IF k = 1 THEN 0 - 0 ELSE due[r[k-1].msg])
  <2>1. q[k].left = due[q[k].msg] - (IF k = 1 THEN 0 - delta ELSE due[q[k-1].msg])
    BY DEF TmDated
  <2>2. CASE k = 1
    <3>1. PICK a \in Int : a = due[q[1].msg]
      BY <1>2, <1>3
    <3>2. q[1].left = a - (0 - delta) /\ r[k].left = q[1].left - delta /\ due[r[k].msg] = a
      BY <1>4, <1>6, <1>7, <2>1, <2>2, <3>1
    <3> QED  BY <2>2, <3>2
  <2>3. CASE k # 1
    <3>1. k - 1 \in 1..Len(q)
      BY <1>1, <2>3
    <3>2. r[k].left = q[k].left /\ r[k].msg = q[k].msg /\ r[k-1].msg = q[k-1].msg
      BY <1>6, <1>7, <2>3, <3>1
    <3> QED  BY <2>1, <2>3, <3>2
  <2> QED  BY <2>2, <2>3
<1>10. r # <<>>
  BY <1>1, <1>6
<1>11. TmDated(r, due, 0)
  BY <1>6, <1>8, <1>9 DEF TmDated
<1>12. TmAmong(r, q, {})
  BY <1>6, <1>7 DEF TmAmong
<1> QED  BY <1>5, <1>6, <1>8, <1>10, <1>11, <1>12

-----------------------------------------------------------------------------
\* What a call can be.
LEMMA TmCallCases ==
    ASSUME NEW x \in TmCallT, x # <<>>
    PROVE  \E m \in TmMsgs : \/ x = <<"clear", m>> \/ x = <<"event", m>>
                             \/ \E t \in TmTimes : x = <<"set", m, t>> \/ x = <<"insert", m, t>>
  BY DEF TmCallT

LEMMA TmCallIs ==
    ASSUME NEW m \in TmMsgs
    PROVE  /\ <<>> \in TmCallT /\ <<"clear", m>> \in TmCallT /\ <<"event", m>> \in TmCallT
           /\ \A t \in TmTimes : <<"set", m, t>> \in TmCallT /\ <<"insert", m, t>> \in TmCallT
<1>1. <<>> \in TmCallT /\ <<"clear", m>> \in TmCallT /\ <<"event", m>> \in TmCallT
  BY Zenon DEF TmCallT
<1>2. ASSUME NEW t \in TmTimes PROVE <<"set", m, t>> \in TmCallT /\ <<"insert", m, t>> \in TmCallT
  <2>1. PICK n \in TmMsgs \X TmTimes : n[1] = m /\ n[2] = t
    <3>1. <<m, t>> \in TmMsgs \X TmTimes /\ <<m, t>>[1] = m /\ <<m, t>>[2] = t
      OBVIOUS
    <3> QED  BY <3>1
  <2>2. <<"set", n[1], n[2]>> \in TmCallT /\ <<"insert", n[1], n[2]>> \in TmCallT
    BY Zenon DEF TmCallT
  <2> QED  BY <2>1, <2>2
<1> QED  BY <1>1, <1>2

\* No call changes, and no message enters the list.
LEMMA TmCallsFrame ==
    ASSUME TmCallsOK, tmCall' = tmCall,
           TmAmong(tqhead', tqhead, {})
    PROVE  TmCallsOK'
<1>1. \A c \in TmClients, m \in TmMsgs : TmWorking(c, m)' <=> TmWorking(c, m)
  BY DEF TmWorking
<1>2. ASSUME NEW c \in TmClients, tmCall[c] # <<>>, tmCall[c][1] = "insert", NEW k \in 1..Len(tqhead')
      PROVE  tqhead'[k].msg # tmCall[c][2]
  BY <1>2 DEF TmCallsOK, TmLacks, TmAmong
<1>3. \A c, d \in TmClients, m \in TmMsgs : TmWorking(c, m)' /\ TmWorking(d, m)' => c = d
  BY <1>1 DEF TmCallsOK
<1> QED  BY <1>2, <1>3 DEF TmCallsOK, TmLacks

\* The call of c changes to x, which nobody else is at work on.
LEMMA TmCallsStep ==
    ASSUME TmCallsOK, NEW c \in TmClients, NEW x \in TmCallT, tmCall' = [tmCall EXCEPT ![c] = x],
           x # <<>> /\ x[1] # "event" => \A d \in TmClients \ {c} : ~TmWorking(d, x[2]),
           x # <<>> /\ x[1] = "insert" => TmLacks(tqhead', x[2]),
           NEW M \in SUBSET TmMsgs, TmAmong(tqhead', tqhead, M), \A m \in M : TmWorking(c, m)
    PROVE  TmCallsOK'
<1>1. tmCall' \in [TmClients -> TmCallT] /\ tmCall'[c] = x
  BY DEF TmCallsOK
<1>2. \A d \in TmClients : d # c => tmCall'[d] = tmCall[d]
  BY DEF TmCallsOK
<1>3. \A d \in TmClients, m \in TmMsgs : d # c => (TmWorking(d, m)' <=> TmWorking(d, m))
  BY <1>2 DEF TmWorking
<1>4. \A m \in TmMsgs : TmWorking(c, m)' => x # <<>> /\ x[1] # "event" /\ x[2] = m
  BY <1>1 DEF TmWorking
<1>5. ASSUME NEW d \in TmClients, NEW b \in TmClients, NEW m \in TmMsgs, TmWorking(d, m)', TmWorking(b, m)'
      PROVE  d = b
  <2>1. CASE d # c /\ b # c
    BY <1>3, <1>5, <2>1 DEF TmCallsOK
  <2>2. CASE d = c /\ b # c
    BY <1>3, <1>4, <1>5, <2>2
  <2>3. CASE d # c /\ b = c
    BY <1>3, <1>4, <1>5, <2>3
  <2> QED  BY <2>1, <2>2, <2>3
<1>6. ASSUME NEW d \in TmClients, tmCall'[d] # <<>>, tmCall'[d][1] = "insert", NEW k \in 1..Len(tqhead')
      PROVE  tqhead'[k].msg # tmCall'[d][2]
  <2>1. CASE d = c
    BY <1>1, <1>6, <2>1 DEF TmLacks
  <2>2. CASE d # c
    <3>1. tmCall'[d] = tmCall[d]
      BY <1>2, <2>2
    <3>2. CASE \E j \in 1..Len(tqhead) : tqhead'[k].msg = tqhead[j].msg
      BY <1>6, <3>1, <3>2 DEF TmCallsOK, TmLacks
    <3>3. CASE tqhead'[k].msg \in M
      <4> SUFFICES ASSUME tqhead'[k].msg = tmCall[d][2] PROVE FALSE
        BY <3>1
      <4>1. TmWorking(d, tqhead'[k].msg)
        <5>1. tmCall[d][1] # "event"
          BY <1>6, <3>1
        <5> QED  BY <1>6, <3>1, <5>1 DEF TmWorking
      <4> QED  BY <2>2, <3>3, <4>1 DEF TmCallsOK
    <3> QED  BY <3>2, <3>3 DEF TmAmong
  <2> QED  BY <2>1, <2>2
<1> QED  BY <1>1, <1>5, <1>6 DEF TmCallsOK, TmLacks

-----------------------------------------------------------------------------
LEMMA TmStarts == TmInit => TmInv
<1> SUFFICES ASSUME TmInit PROVE TmInv
  OBVIOUS
<1>1. tqhead = <<>> /\ Len(tqhead) = 0 /\ tqhead \in Seq(TmEntries)
  BY DEF TmInit
<1>2. TmList
  BY <1>1 DEF TmList, TmOnce, TmDated
<1>3. \A c \in TmClients : tmCall[c] = <<>>
  BY DEF TmInit
<1>4. tmCall \in [TmClients -> TmCallT]
  <2>1. <<>> \in TmCallT
    BY Zenon DEF TmCallT
  <2> QED  BY <2>1 DEF TmInit
<1>5. TmCallsOK
  BY <1>3, <1>4 DEF TmCallsOK, TmWorking
<1>6. TmServed
  BY <1>1 DEF TmInit, TmServed, TmNobody
<1> QED  BY <1>2, <1>5, <1>6 DEF TmInv

\* tmset() or tmclear() is called.
LEMMA TmCallsKeep ==
    ASSUME TmInv, NEW c \in TmClients, NEW m \in TmMsgs, TmCalls(c, m)
    PROVE  TmInv'
<1>1. UNCHANGED <<tqhead, tqmutex, tmPc, tmDelta, tmDue, tmPort>> /\ TmFree(c, m)
  BY DEF TmCalls
<1>2. \A d \in TmClients \ {c} : ~TmWorking(d, m)
  BY <1>1 DEF TmFree, TmWorking
<1>3. PICK x \in TmCallT :
        /\ tmCall' = [tmCall EXCEPT ![c] = x] /\ x # <<>> /\ x[2] = m /\ x[1] # "insert"
  <2>1. CASE tmCall' = [tmCall EXCEPT ![c] = <<"clear", m>>]
    <3>1. <<"clear", m>> # <<>> /\ <<"clear", m>>[2] = m /\ <<"clear", m>>[1] # "insert"
      OBVIOUS
    <3> QED  BY <2>1, <3>1, TmCallIs
  <2>2. ASSUME NEW t \in TmTimes, tmCall' = [tmCall EXCEPT ![c] = <<"set", m, t>>]
        PROVE  \E x \in TmCallT :
                 /\ tmCall' = [tmCall EXCEPT ![c] = x] /\ x # <<>> /\ x[2] = m /\ x[1] # "insert"
    <3>1. <<"set", m, t>> # <<>> /\ <<"set", m, t>>[2] = m /\ <<"set", m, t>>[1] # "insert"
      OBVIOUS
    <3> QED  BY <2>2, <3>1, TmCallIs
  <2> QED  BY <2>1, <2>2 DEF TmCalls
<1>4. TmCallsOK'
  <2>1. TmAmong(tqhead', tqhead, {}) /\ {} \in SUBSET TmMsgs
    BY <1>1 DEF TmAmong
  <2>2. TmCallsOK
    BY DEF TmInv
  <2> QED  BY <1>2, <1>3, <2>1, <2>2, TmCallsStep
<1>5. TmList' /\ TmServed'
  BY <1>1 DEF TmInv, TmList, TmServed
<1> QED  BY <1>4, <1>5 DEF TmInv

\* tcpout receives an event.
LEMMA TmTcpoutKeeps == ASSUME TmInv, TmTcpout PROVE TmInv'
<1>1. /\ UNCHANGED <<tqhead, tqmutex, tmPc, tmDelta, tmDue>> /\ tmPort # <<>> /\ tmPort' = Tail(tmPort)
      /\ tmCall' = [tmCall EXCEPT !["tcpout"] = <<"event", Head(tmPort)>>]
  BY DEF TmTcpout
<1>2. tmPort \in Seq(TmMsgs)
  BY DEF TmInv, TmServed
<1>3. Head(tmPort) \in TmMsgs /\ Tail(tmPort) \in Seq(TmMsgs)
  BY <1>1, <1>2
<1>4. PICK x \in TmCallT : tmCall' = [tmCall EXCEPT !["tcpout"] = x] /\ x[1] = "event"
  <2>1. <<"event", Head(tmPort)>>[1] = "event"
    OBVIOUS
  <2> QED  BY <1>1, <1>3, <2>1, TmCallIs
<1>5. TmCallsOK'
  <2>1. TmAmong(tqhead', tqhead, {}) /\ {} \in SUBSET TmMsgs
    BY <1>1 DEF TmAmong
  <2>2. TmCallsOK /\ "tcpout" \in TmClients /\ x[1] # "insert" /\ ~(x[1] # "event")
    BY <1>4 DEF TmInv, TmClients
  <2> QED  BY <1>4, <2>1, <2>2, TmCallsStep
<1>6. TmList' /\ TmServed'
  BY <1>1, <1>3 DEF TmInv, TmList, TmServed
<1> QED  BY <1>5, <1>6 DEF TmInv

\* The call c has to finish, with its message.
LEMMA TmPending ==
    ASSUME TmInv, NEW c \in TmClients, tmCall[c] # <<>>, tmCall[c][1] # "event"
    PROVE  /\ tmCall[c][2] \in TmMsgs /\ TmWorking(c, tmCall[c][2])
           /\ \A d \in TmClients \ {c} : ~TmWorking(d, tmCall[c][2])
           /\ tmCall[c][1] \in {"set", "insert"} => tmCall[c][3] \in TmTimes
<1>1. tmCall[c] \in TmCallT
  BY DEF TmInv, TmCallsOK
<1>2. PICK m \in TmMsgs :
        \/ tmCall[c] = <<"clear", m>> \/ tmCall[c] = <<"event", m>>
        \/ \E t \in TmTimes : tmCall[c] = <<"set", m, t>> \/ tmCall[c] = <<"insert", m, t>>
  BY <1>1, TmCallCases
<1>3. tmCall[c][2] = m /\ (tmCall[c][1] \in {"set", "insert"} => tmCall[c][3] \in TmTimes)
  BY <1>2
<1>4. TmWorking(c, m)
  BY <1>3 DEF TmWorking
<1>5. \A d \in TmClients \ {c} : ~TmWorking(d, m)
  BY <1>4 DEF TmInv, TmCallsOK
<1> QED  BY <1>3, <1>4, <1>5

\* tmclear() takes the timer of a message out of the list, if it is there.
LEMMA TmCleared ==
    ASSUME TmInv, tmDelta = 0, NEW m \in TmMsgs
    PROVE  /\ tmclear(m) \in Seq(TmEntries) /\ TmOnce(tmclear(m)) /\ TmDated(tmclear(m), tmDue, 0)
           /\ TmLacks(tmclear(m), m) /\ TmAmong(tmclear(m), tqhead, {})
           /\ tqhead = <<>> => tmclear(m) = <<>>
<1>1. /\ tqhead \in Seq(TmEntries) /\ TmOnce(tqhead) /\ TmDated(tqhead, tmDue, 0)
      /\ tmDue \in [TmMsgs -> Int] /\ DOMAIN tqhead = 1..Len(tqhead)
  BY DEF TmInv, TmList, TmServed
<1>2. CASE TmAt(m) = {}
  <2>1. tmclear(m) = tqhead
    BY <1>2 DEF tmclear
  <2>2. TmLacks(tqhead, m) /\ TmAmong(tqhead, tqhead, {})
    BY <1>1, <1>2 DEF TmAt, TmLacks, TmAmong
  <2> QED  BY <1>1, <2>1, <2>2
<1>3. CASE TmAt(m) # {}
  <2>1. PICK k \in TmAt(m) : k = CHOOSE i \in TmAt(m) : TRUE
    BY <1>3
  <2>2. k \in 1..Len(tqhead) /\ tqhead[k].msg = m /\ tqhead # <<>>
    <3>1. k \in 1..Len(tqhead) /\ tqhead[k].msg = m
      BY <1>1 DEF TmAt
    <3> QED  BY <1>1, <3>1
  <2>3. PICK r : r = tmclear(m)
    OBVIOUS
  <2>4. r = TmTakenOut(tqhead, k)
    BY <1>3, <2>1, <2>3 DEF tmclear, TmTakenOut
  <2>5. /\ r \in Seq(TmEntries) /\ TmOnce(r) /\ TmDated(r, tmDue, 0)
        /\ TmAmong(r, tqhead, {}) /\ TmLacks(r, tqhead[k].msg)
    BY <1>1, <2>2, <2>4, TmDatedRemove
  <2>7. TmLacks(r, m) /\ TmAmong(r, tqhead, {})
    BY <2>2, <2>5
  <2> QED  BY <2>2, <2>3, <2>5, <2>7
<1> QED  BY <1>2, <1>3

LEMMA TmClearKeeps == ASSUME TmInv, NEW c \in TmClients, TmClear(c) PROVE TmInv'
<1>1. /\ tmCall[c] # <<>> /\ tmCall[c][1] \in {"set", "clear"} /\ tqmutex = TmNobody
      /\ UNCHANGED <<tqmutex, tmPc, tmDelta, tmPort, tmDue>>
      /\ tqhead' = tmclear(tmCall[c][2])
      /\ tmCall' = [tmCall EXCEPT ![c] = IF tmCall[c][1] = "set"
                                         THEN <<"insert", tmCall[c][2], tmCall[c][3]>> ELSE <<>>]
  BY DEF TmClear, TmInv, TmCallsOK
<1>2. PICK m : m = tmCall[c][2]
  OBVIOUS
<1>3. /\ m \in TmMsgs /\ TmWorking(c, m) /\ \A d \in TmClients \ {c} : ~TmWorking(d, m)
      /\ tmCall[c][1] = "set" => tmCall[c][3] \in TmTimes
  <2>1. tmCall[c][1] # "event"
    BY <1>1
  <2> QED  BY <1>1, <1>2, <2>1, TmPending
<1>4. tmDelta = 0
  BY <1>1 DEF TmInv, TmServed
<1>5. /\ tqhead' \in Seq(TmEntries) /\ TmOnce(tqhead') /\ TmDated(tqhead', tmDue, 0)
      /\ TmLacks(tqhead', m) /\ TmAmong(tqhead', tqhead, {})
      /\ tqhead = <<>> => tqhead' = <<>>
  BY <1>1, <1>2, <1>3, <1>4, TmCleared
<1>6. PICK x \in TmCallT :
        tmCall' = [tmCall EXCEPT ![c] = x] /\ (x = <<>> \/ x[2] = m)
  <2>1. CASE tmCall[c][1] = "set"
    <3>1. PICK t \in TmTimes : t = tmCall[c][3]
      BY <1>3, <2>1
    <3>2. <<"insert", m, t>> \in TmCallT /\ <<"insert", m, t>>[2] = m
      BY <1>3, TmCallIs
    <3>3. tmCall' = [tmCall EXCEPT ![c] = <<"insert", m, t>>]
      BY <1>1, <1>2, <2>1, <3>1
    <3> QED  BY <3>2, <3>3
  <2>2. CASE tmCall[c][1] # "set"
    <3>1. tmCall' = [tmCall EXCEPT ![c] = <<>>]
      BY <1>1, <2>2
    <3> QED  BY <1>3, <3>1, TmCallIs
  <2> QED  BY <2>1, <2>2
<1>7. TmCallsOK'
  <2>1. TmCallsOK /\ {} \in SUBSET TmMsgs
    BY DEF TmInv
  <2> QED  BY <1>3, <1>5, <1>6, <2>1, TmCallsStep
<1>8. TmList' /\ TmServed'
  BY <1>1, <1>4, <1>5 DEF TmInv, TmList, TmServed
<1> QED  BY <1>7, <1>8 DEF TmInv

\* The place tmset()'s scan finds is behind the timers that are due no later.
LEMMA TmInserted ==
    ASSUME TmInv, tmDelta = 0, NEW m \in TmMsgs, NEW t \in Nat,
           TmLacks(tqhead, m)
    PROVE  \E r \in Seq(TmEntries) :
            /\ r = TmInsert(m, t) /\ TmOnce(r) /\ TmDated(r, [tmDue EXCEPT ![m] = t], 0)
            /\ TmAmong(r, tqhead, {m})
<1>1. /\ tqhead \in Seq(TmEntries) /\ TmOnce(tqhead) /\ TmDated(tqhead, tmDue, 0)
      /\ tmDue \in [TmMsgs -> Int] /\ DOMAIN tqhead = 1..Len(tqhead) /\ TmList
  BY DEF TmInv, TmList, TmServed
<1>2. PICK n \in Nat : n = Len(tqhead)
  <2>1. tqhead \in Seq(TmEntries)
    BY <1>1
  <2> QED  BY <2>1
<1>3. ASSUME NEW j \in 1..n PROVE tmDue[tqhead[j].msg] \in Int
  <2>1. tqhead[j] \in TmEntries
    BY <1>1, <1>2
  <2> QED  BY <1>1, <2>1 DEF TmEntries
<1>4. ASSUME NEW j \in 0..n PROVE tmleft(j) = IF j = 0 THEN 0 ELSE tmDue[tqhead[j].msg]
  <2>1. tmleft(j) = IF j = 0 THEN 0 ELSE tmDue[tqhead[j].msg] + tmDelta
    BY <1>1, <1>2, TmSums
  <2>2. j # 0 => tmDue[tqhead[j].msg] + 0 = tmDue[tqhead[j].msg]
    <3>1. j # 0 => j \in 1..n
      OBVIOUS
    <3> QED  BY <1>3, <3>1
  <2> QED  BY <2>1, <2>2
<1> DEFINE h == [j \in 1..n |-> tmDue[tqhead[j].msg]]
<1>5. h \in [1..n -> Int] /\ \A j \in 1..n : h[j] = tmDue[tqhead[j].msg] /\ tmleft(j) = h[j]
  <2>1. \A j \in 1..n : j \in 0..n /\ j # 0
    OBVIOUS
  <2> QED  BY <1>3, <1>4, <2>1
<1> HIDE DEF h
<1>6. \A i, j \in 1..n : i <= j => h[i] <= h[j]
  BY <1>1, <1>2, <1>5 DEF TmDated
<1>7. PICK k \in 0..n : /\ Cardinality({j \in 1..n : h[j] <= t}) = k
                        /\ \A j \in 1..n : j <= k <=> h[j] <= t
  <2>1. t \in Int
    OBVIOUS
  <2> QED  BY <1>5, <1>6, <2>1, SortedPrefix
<1>8. Cardinality({j \in DOMAIN tqhead : tmleft(j) <= t}) = k
  <2>1. {j \in DOMAIN tqhead : tmleft(j) <= t} = {j \in 1..n : h[j] <= t}
    BY <1>1, <1>2, <1>5
  <2> QED  BY <1>7, <2>1
<1> DEFINE e == [msg |-> m, left |-> t - (IF k = 0 THEN 0 ELSE tmDue[tqhead[k].msg])]
           r == TmPutIn(tqhead, k, e)
<1>9. TmInsert(m, t) = r
  <2>1. tmleft(k) = IF k = 0 THEN 0 ELSE tmDue[tqhead[k].msg]
    BY <1>4
  <2>2. e = [msg |-> m, left |-> t - tmleft(k)]
    BY <2>1
  <2> HIDE DEF e
  <2> QED  BY <1>8, <2>2, Zenon DEF TmInsert, TmPutIn
<1>10. \A j \in 1..Len(tqhead) : j <= k <=> tmDue[tqhead[j].msg] <= t
  BY <1>2, <1>5, <1>7
<1>11. k \in 0..Len(tqhead)
  BY <1>2
<1>12. /\ r \in Seq(TmEntries) /\ TmOnce(r) /\ TmDated(r, [tmDue EXCEPT ![m] = t], 0)
       /\ TmAmong(r, tqhead, {m})
  BY <1>1, <1>10, <1>11, TmDatedInsert
<1> HIDE DEF r
<1> QED  BY <1>9, <1>12

LEMMA TmsetKeeps == ASSUME TmInv, NEW c \in TmClients, tmset(c) PROVE TmInv'
<1>1. /\ tmCall[c] # <<>> /\ tmCall[c][1] = "insert" /\ tqmutex = TmNobody
      /\ UNCHANGED <<tqmutex, tmDelta, tmPort>>
      /\ tqhead' = TmInsert(tmCall[c][2], tmCall[c][3])
      /\ tmDue' = [tmDue EXCEPT ![tmCall[c][2]] = tmCall[c][3]]
      /\ tmPc' = IF tqhead = <<>> /\ tmPc = "suspended" THEN "wait" ELSE tmPc
      /\ tmCall' = [tmCall EXCEPT ![c] = <<>>]
  BY DEF tmset
<1>2. PICK m, t : m = tmCall[c][2] /\ t = tmCall[c][3]
  OBVIOUS
<1>3. m \in TmMsgs /\ TmWorking(c, m) /\ t \in TmTimes
  <2>1. tmCall[c][1] # "event" /\ tmCall[c][1] \in {"set", "insert"}
    BY <1>1
  <2> QED  BY <1>1, <1>2, <2>1, TmPending
<1>4. t \in Nat
  BY <1>3, TmAssumption
<1>5. tmDelta = 0 /\ tmDelta' = 0
  BY <1>1 DEF TmInv, TmServed
<1>6. TmLacks(tqhead, m)
  BY <1>1, <1>2 DEF TmInv, TmCallsOK
<1>7. /\ tqhead' \in Seq(TmEntries) /\ TmOnce(tqhead') /\ TmDated(tqhead', tmDue', 0)
      /\ TmAmong(tqhead', tqhead, {m})
  <2>1. PICK r \in Seq(TmEntries) :
          /\ r = TmInsert(m, t) /\ TmOnce(r) /\ TmDated(r, [tmDue EXCEPT ![m] = t], 0)
          /\ TmAmong(r, tqhead, {m})
    BY <1>3, <1>4, <1>5, <1>6, TmInserted
  <2>2. tqhead' = r /\ tmDue' = [tmDue EXCEPT ![m] = t]
    BY <1>1, <1>2, <2>1
  <2> QED  BY <2>1, <2>2
<1>8. TmCallsOK'
  <2>1. TmCallsOK /\ {m} \in SUBSET TmMsgs /\ \A n \in {m} : TmWorking(c, n)
    BY <1>3 DEF TmInv
  <2>2. PICK x \in TmCallT : x = <<>>
    BY <1>3, TmCallIs
  <2>3. tmCall' = [tmCall EXCEPT ![c] = x]
    BY <1>1, <2>2
  <2> QED  BY <1>7, <2>1, <2>2, <2>3, TmCallsStep
<1>9. TmServed'
  <2>1. tmDue' \in [TmMsgs -> Int]
    BY <1>1, <1>2, <1>3, <1>4 DEF TmInv, TmServed
  <2>2. tmPc' # "suspended"
    BY <1>1 DEF TmInv, TmServed
  <2> QED  BY <1>1, <1>5, <2>1, <2>2 DEF TmInv, TmServed
<1>10. TmList'
  BY <1>5, <1>7 DEF TmList
<1> QED  BY <1>8, <1>9, <1>10 DEF TmInv

-----------------------------------------------------------------------------
LEMMA TcptimerWakeKeeps == ASSUME TmInv, tcptimerWake PROVE TmInv'
<1>1. /\ UNCHANGED <<tqhead, tqmutex, tmDelta, tmPort, tmCall, tmDue>>
      /\ tmPc = "sleep" /\ tmPc' = IF tqhead = <<>> THEN "suspended" ELSE "wait"
  BY DEF tcptimerWake
<1>2. TmCallsOK'
  <2>1. TmAmong(tqhead', tqhead, {}) /\ TmCallsOK
    BY <1>1 DEF TmAmong, TmInv
  <2> QED  BY <1>1, <2>1, TmCallsFrame
<1>3. TmList' /\ TmServed'
  BY <1>1 DEF TmInv, TmList, TmServed
<1> QED  BY <1>2, <1>3 DEF TmInv

LEMMA TcptimerKeeps == ASSUME TmInv, tcptimer PROVE TmInv'
<1>1. /\ UNCHANGED <<tqhead, tmPort, tmCall>>
      /\ tmPc = "wait" /\ tqmutex' = "tcptimer" /\ tmPc' = "run" /\ tmDelta' \in TmDeltas
      /\ tmDue' = [m \in TmMsgs |-> IF TmAt(m) = {} THEN tmDue[m] ELSE tmDue[m] - tmDelta']
  BY DEF tcptimer
<1>2. tmDelta' \in Nat /\ tmDelta = 0
  BY <1>1, TmAssumption DEF TmInv, TmServed
<1>3. TmCallsOK'
  <2>1. TmAmong(tqhead', tqhead, {}) /\ TmCallsOK
    BY <1>1 DEF TmAmong, TmInv
  <2> QED  BY <1>1, <2>1, TmCallsFrame
<1>4. /\ tqhead \in Seq(TmEntries) /\ TmOnce(tqhead) /\ TmDated(tqhead, tmDue, 0)
      /\ tmDue \in [TmMsgs -> Int] /\ DOMAIN tqhead = 1..Len(tqhead)
  BY <1>2 DEF TmInv, TmList, TmServed
<1>5. PICK delta \in Nat : delta = tmDelta'
  BY <1>2
<1>6. tmDue' \in [TmMsgs -> Int]
  <2>1. \A m \in TmMsgs : tmDue[m] \in Int /\ tmDue[m] - delta \in Int
    BY <1>4
  <2> QED  BY <1>1, <1>5, <2>1
<1>7. ASSUME NEW j \in 1..Len(tqhead) PROVE tmDue'[tqhead[j].msg] = tmDue[tqhead[j].msg] - delta
  <2>1. tqhead[j] \in TmEntries
    BY <1>4
  <2>2. tqhead[j].msg \in TmMsgs /\ TmAt(tqhead[j].msg) # {}
    BY <1>4, <2>1 DEF TmEntries, TmAt
  <2> QED  BY <1>1, <1>5, <2>2
<1>8. TmDated(tqhead, tmDue', delta)
  <2>1. PICK new \in [TmMsgs -> Int] : new = tmDue'
    BY <1>6
  <2>2. \A j \in 1..Len(tqhead) : new[tqhead[j].msg] = tmDue[tqhead[j].msg] - delta
    BY <1>7, <2>1
  <2>3. TmDated(tqhead, new, delta)
    BY <1>4, <2>2, TmDatedShift
  <2> QED  BY <2>1, <2>3
<1>9. TmList'
  BY <1>1, <1>4, <1>5, <1>8 DEF TmList
<1>10. TmServed'
  BY <1>1, <1>2, <1>6 DEF TmInv, TmServed, TmNobody
<1> QED  BY <1>3, <1>9, <1>10 DEF TmInv

LEMMA TcptimerSendKeeps == ASSUME TmInv, tcptimerSend PROVE TmInv'
<1>1. /\ UNCHANGED <<tqmutex, tmPc, tmCall, tmDue>> /\ tmPc = "run"
      /\ tqhead # <<>> /\ Head(tqhead).left <= tmDelta
      /\ tmPort' = Append(tmPort, Head(tqhead).msg)
      /\ tmDelta' = tmDelta - Head(tqhead).left
      /\ tqhead' = Tail(tqhead)
  BY DEF tcptimerSend, TmExpired
<1>2. /\ tqhead \in Seq(TmEntries) /\ TmOnce(tqhead) /\ TmDated(tqhead, tmDue, tmDelta)
      /\ tmDue \in [TmMsgs -> Int] /\ tmDelta \in Nat /\ tmPort \in Seq(TmMsgs)
  BY DEF TmInv, TmList, TmServed
<1>3. Head(tqhead) = tqhead[1] /\ Head(tqhead) \in TmEntries
  BY <1>1, <1>2
<1>4. Head(tqhead).msg \in TmMsgs /\ tqhead[1].left <= tmDelta
  BY <1>1, <1>3 DEF TmEntries
<1>5. /\ Tail(tqhead) \in Seq(TmEntries) /\ TmOnce(Tail(tqhead))
      /\ TmDated(Tail(tqhead), tmDue, tmDelta - tqhead[1].left) /\ tmDelta - tqhead[1].left \in Nat
      /\ TmAmong(Tail(tqhead), tqhead, {})
  BY <1>1, <1>2, <1>4, TmDatedTail
<1>6. TmCallsOK'
  <2>1. TmAmong(tqhead', tqhead, {}) /\ TmCallsOK
    BY <1>1, <1>5 DEF TmInv
  <2> QED  BY <1>1, <2>1, TmCallsFrame
<1>7. tmDelta' = tmDelta - tqhead[1].left
  BY <1>1, <1>3
<1>8. TmList'
  BY <1>1, <1>5, <1>7 DEF TmList
<1>9. tmPort' \in Seq(TmMsgs)
  BY <1>1, <1>2, <1>4
<1>10. TmServed'
  BY <1>1, <1>5, <1>7, <1>9 DEF TmInv, TmServed
<1> QED  BY <1>6, <1>8, <1>10 DEF TmInv

LEMMA TcptimerEndKeeps == ASSUME TmInv, tcptimerEnd PROVE TmInv'
<1>1. /\ UNCHANGED <<tmPort, tmCall, tmDue>> /\ tmPc = "run" /\ ~TmExpired
      /\ tqhead' = IF tqhead = <<>> THEN tqhead ELSE [tqhead EXCEPT ![1].left = @ - tmDelta]
      /\ tqmutex' = TmNobody /\ tmPc' = "sleep" /\ tmDelta' = 0
  BY DEF tcptimerEnd
<1>2. /\ tqhead \in Seq(TmEntries) /\ TmOnce(tqhead) /\ TmDated(tqhead, tmDue, tmDelta)
      /\ tmDue \in [TmMsgs -> Int] /\ tmDelta \in Nat
  BY DEF TmInv, TmList, TmServed
<1>3. /\ tqhead' \in Seq(TmEntries) /\ TmOnce(tqhead') /\ TmDated(tqhead', tmDue, 0)
      /\ TmAmong(tqhead', tqhead, {})
  <2>1. CASE tqhead = <<>>
    <3>1. tqhead' = tqhead /\ Len(tqhead) = 0
      BY <1>1, <2>1
    <3> QED  BY <1>2, <3>1 DEF TmDated, TmAmong
  <2>2. CASE tqhead # <<>>
    <3>1. tqhead' = [tqhead EXCEPT ![1].left = @ - tmDelta]
      BY <1>1, <2>2
    <3>2. ~(tqhead[1].left <= tmDelta)
      BY <1>1, <1>2, <2>2 DEF TmExpired
    <3>3. PICK r \in Seq(TmEntries) :
            /\ r = [tqhead EXCEPT ![1].left = @ - tmDelta] /\ TmOnce(r) /\ TmDated(r, tmDue, 0)
            /\ TmAmong(r, tqhead, {})
      BY <1>2, <2>2, <3>2, TmDatedLess
    <3> QED  BY <3>1, <3>3
  <2> QED  BY <2>1, <2>2
<1>4. TmCallsOK'
  <2>1. TmCallsOK
    BY DEF TmInv
  <2> QED  BY <1>1, <1>3, <2>1, TmCallsFrame
<1>5. TmList' /\ TmServed'
  BY <1>1, <1>2, <1>3 DEF TmInv, TmList, TmServed
<1> QED  BY <1>4, <1>5 DEF TmInv

-----------------------------------------------------------------------------
\* The inductive invariant of the fast timers.
THEOREM TimerInvariant == TmSpec => []TmInv
<1>1. TmInit => TmInv
  BY TmStarts
<1>2. TmInv /\ [TmNext]_tmVars => TmInv'
  <2> SUFFICES ASSUME TmInv, [TmNext]_tmVars PROVE TmInv'
    OBVIOUS
  <2>1. CASE UNCHANGED tmVars
    <3>1. UNCHANGED <<tqhead, tqmutex, tmPc, tmDelta, tmPort, tmCall, tmDue>>
      BY <2>1 DEF tmVars
    <3>2. TmCallsOK'
      <4>1. TmAmong(tqhead', tqhead, {}) /\ TmCallsOK
        BY <3>1 DEF TmAmong, TmInv
      <4> QED  BY <3>1, <4>1, TmCallsFrame
    <3>3. TmList' /\ TmServed'
      BY <3>1 DEF TmInv, TmList, TmServed
    <3> QED  BY <3>2, <3>3 DEF TmInv
  <2>2. CASE TmTimerStep
    BY <2>2, TcptimerWakeKeeps, TcptimerKeeps, TcptimerSendKeeps, TcptimerEndKeeps DEF
       TmTimerStep
  <2>3. CASE TmClientStep
    BY <2>3, TmClearKeeps, TmsetKeeps DEF TmClientStep
  <2>4. CASE TmTcpout
    BY <2>4, TmTcpoutKeeps
  <2>5. CASE TmTcpoutEvent
    <3>1. tmCall["tcpout"] # <<>> /\ TmCalls("tcpout", tmCall["tcpout"][2]) /\ "tcpout" \in TmClients
      BY <2>5 DEF TmTcpoutEvent, TmClients
    <3>2. tmCall["tcpout"] \in TmCallT
      BY <3>1 DEF TmInv, TmCallsOK
    <3>3. PICK m \in TmMsgs :
            \/ tmCall["tcpout"] = <<"clear", m>> \/ tmCall["tcpout"] = <<"event", m>>
            \/ \E t \in TmTimes : \/ tmCall["tcpout"] = <<"set", m, t>>
                                  \/ tmCall["tcpout"] = <<"insert", m, t>>
      BY <3>1, <3>2, TmCallCases
    <3>4. tmCall["tcpout"][2] = m
      BY <3>3
    <3> QED  BY <3>1, <3>4, TmCallsKeep
  <2>6. ASSUME NEW m \in TmMsgs, TmTcpinp(m) PROVE TmInv'
    <3>1. TmCalls("tcpinp", m) /\ "tcpinp" \in TmClients
      BY <2>6 DEF TmTcpinp, TmClients
    <3> QED  BY <3>1, TmCallsKeep
  <2> QED  BY <2>1, <2>2, <2>3, <2>4, <2>5, <2>6 DEF TmNext, TmOutStep
<1> QED  BY <1>1, <1>2, PTL DEF TmSpec

\* Whatever is set, cleared and sent around it, the delta list tells the time
\* left of each timer; a message has one timer, and no list is left unserved.
THEOREM TimersCorrect == TmSpec => []TmOnTime
<1>1. TmInv => TmOnTime
  <2> SUFFICES ASSUME TmInv PROVE TmOnTime
    OBVIOUS
  <2>1. /\ tqhead \in Seq(TmEntries) /\ TmOnce(tqhead) /\ TmList /\ DOMAIN tqhead = 1..Len(tqhead)
        /\ tmDue \in [TmMsgs -> Int] /\ tmDelta \in Nat
    BY DEF TmInv, TmList, TmServed
  <2>2. ASSUME NEW k \in 1..Len(tqhead)
        PROVE  /\ tmleft(k) - tmDelta = tmDue[tqhead[k].msg]
               /\ tqhead[k].left >= 0 /\ TmAt(tqhead[k].msg) = {k}
    <3>1. tqhead[k] \in TmEntries
      BY <2>1
    <3>2. tmDue[tqhead[k].msg] \in Int /\ tqhead[k].left \in Nat
      BY <2>1, <3>1 DEF TmEntries
    <3>3. k \in 0..Len(tqhead) /\ k # 0
      OBVIOUS
    <3>4. tmleft(k) = tmDue[tqhead[k].msg] + tmDelta
      BY <2>1, <3>3, TmSums
    <3>5. TmAt(tqhead[k].msg) = {k}
      BY <2>1 DEF TmAt, TmOnce
    <3> QED  BY <2>1, <3>2, <3>4, <3>5
  <2>3. tqhead # <<>> => tmPc # "suspended"
    BY DEF TmInv, TmServed
  <2> QED  BY <2>1, <2>2, <2>3 DEF TmOnTime
<1> QED  BY <1>1, TimerInvariant, PTL

-----------------------------------------------------------------------------
(* Memory.  Blocks are not empty, and those handed out are a whole number  *)
(* of mblocks long, so that freemem rounds nothing.                        *)
FreeT == [addr : Nat, len : Nat \ {0}]
UsedT == [addr : Nat, len : Nat \ {0}, of : {"mem", "stk", "pool"}]

MemTypes ==
    /\ memlist \in Seq(FreeT)
    /\ heapUsed \subseteq UsedT /\ \A u \in heapUsed : u.len % 2 = 0
    /\ heapLost \subseteq FreeT
MemInv == MemTypes /\ MemDivided

LEMMA Rounding ==
    ASSUME NEW n \in Nat \ {0}
    PROVE  /\ roundmb(n) \in Nat \ {0} /\ roundmb(n) % 2 = 0
           /\ n % 2 = 0 => roundmb(n) = n
<1>1. PICK k \in Nat : n = 2 * k \/ n = 2 * k + 1
  <2>1. n \div 2 \in Nat /\ n = 2 * (n \div 2) + (n % 2) /\ n % 2 \in 0..1
    OBVIOUS
  <2> QED  BY <2>1
<1>2. CASE n = 2 * k
  <2>1. (n + 1) \div 2 = k
    BY <1>2
  <2> QED  BY <1>2, <2>1 DEF roundmb
<1>3. CASE n = 2 * k + 1
  <2>1. (n + 1) \div 2 = k + 1
    BY <1>3
  <2>2. roundmb(n) = 2 * (k + 1) /\ (2 * (k + 1)) % 2 = 0 /\ n % 2 # 0
    BY <1>3, <2>1 DEF roundmb
  <2> QED  BY <2>2
<1> QED  BY <1>1, <1>2, <1>3

(* A piece of memory b lies within c.                                      *)
Within(b, c) == c.addr <= b.addr /\ End(b) <= End(c)

LEMMA WithinApart ==
    ASSUME NEW b, NEW c, NEW d, b.addr \in Nat, b.len \in Nat, c.addr \in Nat, c.len \in Nat,
           d.addr \in Nat, d.len \in Nat, Within(b, c), Apart(d, c)
    PROVE  Apart(d, b) /\ Apart(b, d)
  BY DEF Within, Apart, End

LEMMA FreeBlock ==
    ASSUME MemInv, NEW k \in DOMAIN memlist
    PROVE  /\ memlist[k].addr \in Nat /\ memlist[k].len \in Nat /\ memlist[k].len > 0
           /\ memlist[k] \in HeapBlocks /\ End(memlist[k]) <= HeapWords
<1>1. memlist[k] \in FreeT /\ memlist[k] \in ToSet(memlist)
  BY DEF MemInv, MemTypes, ToSet
<1> QED  BY <1>1 DEF MemInv, MemDivided, HeapBlocks, FreeT

LEMMA UsedBlock ==
    ASSUME MemInv, NEW u \in heapUsed
    PROVE  u.addr \in Nat /\ u.len \in Nat /\ u.len > 0 /\ u \in HeapBlocks /\ End(u) <= HeapWords
  BY DEF MemInv, MemTypes, MemDivided, HeapBlocks, UsedT

LEMMA LostBlock ==
    ASSUME MemInv, NEW b \in heapLost
    PROVE  b.addr \in Nat /\ b.len \in Nat /\ b.len > 0 /\ b \in HeapBlocks /\ End(b) <= HeapWords
  BY DEF MemInv, MemTypes, MemDivided, HeapBlocks, FreeT

(* A piece u of free block k is handed out, and what is left of the list   *)
(* is pieces of free blocks that are apart from u, in order.               *)
LEMMA Cut ==
    ASSUME MemInv, NEW k \in DOMAIN memlist, NEW u \in UsedT, u.len % 2 = 0,
           Within(u, memlist[k]), memlist' \in Seq(FreeT),
           heapUsed' = heapUsed \cup {u}, heapLost' = heapLost,
           \A j \in DOMAIN memlist' : /\ Apart(u, memlist'[j])
                                      /\ \E i \in DOMAIN memlist : Within(memlist'[j], memlist[i]),
           \A i, j \in DOMAIN memlist' : i < j => End(memlist'[i]) < memlist'[j].addr,
           \A i \in DOMAIN memlist : i # k => \E j \in DOMAIN memlist' : memlist'[j] = memlist[i],
           \A w \in Nat : memlist[k].addr <= w /\ w < End(memlist[k]) =>
                \/ u.addr <= w /\ w < End(u)
                \/ \E j \in DOMAIN memlist' : memlist'[j].addr <= w /\ w < End(memlist'[j])
    PROVE  MemInv'
<1>1. u.addr \in Nat /\ u.len \in Nat /\ u.len > 0
  BY DEF UsedT
<1>2. MemTypes'
  BY DEF MemInv, MemTypes
<1>3. ASSUME NEW j \in DOMAIN memlist'
      PROVE  /\ memlist'[j].addr \in Nat /\ memlist'[j].len \in Nat /\ memlist'[j].len > 0
             /\ memlist'[j] \in ToSet(memlist')
  <2>1. memlist'[j] \in FreeT /\ memlist'[j] \in ToSet(memlist')
    BY DEF ToSet
  <2> QED  BY <2>1 DEF FreeT
<1>4. ASSUME NEW v \in heapUsed PROVE Apart(u, v) /\ Apart(v, u)
  <2>1. Apart(v, memlist[k])
    BY DEF MemInv, MemDivided
  <2> QED  BY <1>1, <2>1, FreeBlock, UsedBlock, WithinApart
<1>5. ASSUME NEW v \in heapLost PROVE Apart(u, v)
  <2>1. Apart(v, memlist[k])
    BY DEF MemInv, MemDivided
  <2> QED  BY <1>1, <2>1, FreeBlock, LostBlock, WithinApart
<1>6. ASSUME NEW v \in heapUsed \cup heapLost, NEW j \in DOMAIN memlist' PROVE Apart(v, memlist'[j])
  <2>1. PICK i \in DOMAIN memlist : Within(memlist'[j], memlist[i])
    OBVIOUS
  <2>2. Apart(v, memlist[i])
    BY DEF MemInv, MemDivided
  <2> QED  BY <1>3, <2>1, <2>2, FreeBlock, UsedBlock, LostBlock, WithinApart
<1>7. ASSUME NEW b \in HeapBlocks' PROVE End(b) <= HeapWords
  <2>h. HeapWords \in Nat
    BY HeapAssumption
  <2>1. CASE b \in heapUsed \cup heapLost
    BY <2>1, UsedBlock, LostBlock
  <2>2. CASE b = u
    BY <1>1, <2>2, <2>h, FreeBlock DEF Within, End
  <2>3. CASE b \in ToSet(memlist')
    <3>1. PICK j \in DOMAIN memlist' : b = memlist'[j]
      BY <2>3 DEF ToSet
    <3>2. PICK i \in DOMAIN memlist : Within(memlist'[j], memlist[i])
      OBVIOUS
    <3> QED  BY <1>3, <2>h, <3>1, <3>2, FreeBlock DEF Within, End
  <2> QED  BY <2>1, <2>2, <2>3 DEF HeapBlocks
<1>8. ASSUME NEW w \in 0..(HeapWords - 1) PROVE \E b \in HeapBlocks' : b.addr <= w /\ w < End(b)
  <2>h. HeapWords \in Nat
    BY HeapAssumption
  <2>1. PICK b \in HeapBlocks : b.addr <= w /\ w < End(b)
    BY DEF MemInv, MemDivided
  <2>2. CASE b \in heapUsed \cup heapLost
    BY <2>1, <2>2 DEF HeapBlocks
  <2>3. CASE b \in ToSet(memlist)
    <3>1. PICK i \in DOMAIN memlist : b = memlist[i]
      BY <2>3 DEF ToSet
    <3>2. CASE i # k
      BY <1>3, <2>1, <3>1, <3>2 DEF HeapBlocks
    <3>3. CASE i = k
      <4>1. \/ u.addr <= w /\ w < End(u)
            \/ \E j \in DOMAIN memlist' : memlist'[j].addr <= w /\ w < End(memlist'[j])
        BY <2>1, <2>h, <3>1, <3>3
      <4> QED  BY <1>3, <4>1 DEF HeapBlocks
    <3> QED  BY <3>2, <3>3
  <2> QED  BY <2>1, <2>2, <2>3 DEF HeapBlocks
<1>9. MemDivided'
  <2>1. (\A v \in heapUsed : /\ \A x \in heapUsed : v # x => Apart(v, x)
                             /\ \A c \in heapLost : Apart(v, c)
                             /\ \A j \in DOMAIN memlist : Apart(v, memlist[j]))'
    BY <1>4, <1>5, <1>6 DEF MemInv, MemDivided
  <2>2. (\A b \in heapLost : /\ \A c \in heapLost : b # c => Apart(b, c)
                             /\ \A j \in DOMAIN memlist : Apart(b, memlist[j]))'
    BY <1>6 DEF MemInv, MemDivided
  <2> QED  BY <1>7, <1>8, <2>1, <2>2 DEF MemDivided
<1> QED  BY <1>2, <1>9 DEF MemInv

(* The low or the high end of free block k is handed out.                  *)
LEMMA CutBlock ==
    ASSUME MemInv, NEW k \in DOMAIN memlist, NEW u \in UsedT, u.len % 2 = 0,
           u.len <= memlist[k].len, NEW rest,
           \/ u.addr = memlist[k].addr /\ rest = Block(memlist[k].addr + u.len, memlist[k].len - u.len)
           \/ /\ u.addr = End(memlist[k]) - u.len
              /\ rest = Block(memlist[k].addr, memlist[k].len - u.len),
           memlist' = IF memlist[k].len = u.len THEN RemoveAt(memlist, k)
                      ELSE [memlist EXCEPT ![k] = rest],
           heapUsed' = heapUsed \cup {u}, heapLost' = heapLost
    PROVE  MemInv'
<1>1. u.addr \in Nat /\ u.len \in Nat /\ u.len > 0
  BY DEF UsedT
<1>2. memlist[k].addr \in Nat /\ memlist[k].len \in Nat /\ memlist[k].len > 0
  BY FreeBlock
<1>3. memlist \in Seq(FreeT) /\ Len(memlist) \in Nat /\ k \in 1..Len(memlist)
      /\ DOMAIN memlist = 1..Len(memlist)
  BY DEF MemInv, MemTypes
<1>4. Within(u, memlist[k])
  BY <1>1, <1>2 DEF Within, End
<1>o. \A i, j \in DOMAIN memlist : i < j => End(memlist[i]) < memlist[j].addr
  BY DEF MemInv, MemDivided
<1>b. \A i \in DOMAIN memlist : memlist[i].addr \in Nat /\ memlist[i].len \in Nat /\ memlist[i].len > 0
  BY FreeBlock
<1>a. \A i \in DOMAIN memlist : i # k => Apart(u, memlist[i])
  <2> SUFFICES ASSUME NEW i \in DOMAIN memlist, i # k PROVE Apart(u, memlist[i])
    OBVIOUS
  <2>1. CASE i < k
    BY <1>1, <1>2, <1>4, <1>o, <1>b, <2>1 DEF Apart, Within, End
  <2>2. CASE k < i
    BY <1>1, <1>2, <1>4, <1>o, <1>b, <2>2 DEF Apart, Within, End
  <2> QED  BY <1>3, <2>1, <2>2
<1>5. CASE memlist[k].len = u.len
  <2> DEFINE L == RemoveAt(memlist, k)
             at(j) == IF j < k THEN j ELSE j + 1
  <2>1. memlist' = L /\ L \in Seq(FreeT) /\ Len(L) = Len(memlist) - 1
    BY <1>3, <1>5, RemoveAtElements, ZenonT(40)
  <2>2. \A j \in 1..(Len(memlist) - 1) : L[j] = memlist[at(j)]
    BY <1>3, RemoveAtElements
  <2>3. DOMAIN L = 1..(Len(memlist) - 1)
    BY <1>3, <2>1
  <2> HIDE DEF L
  <2>4. \A j \in DOMAIN L : at(j) \in DOMAIN memlist /\ at(j) # k /\ L[j] = memlist[at(j)]
    BY <1>3, <2>2, <2>3
  <2>5. \A i, j \in DOMAIN L : i < j => at(i) < at(j)
    BY <1>3, <2>3
  <2>6. \A i \in DOMAIN memlist : i # k => \E j \in DOMAIN L : at(j) = i
    <3> SUFFICES ASSUME NEW i \in DOMAIN memlist, i # k PROVE \E j \in DOMAIN L : at(j) = i
      OBVIOUS
    <3>1. CASE i < k
      <4>1. i \in DOMAIN L /\ at(i) = i
        BY <1>3, <2>3, <3>1
      <4> QED  BY <4>1
    <3>2. CASE i > k
      <4>1. i - 1 \in DOMAIN L /\ at(i - 1) = i
        BY <1>3, <2>3, <3>2
      <4> QED  BY <4>1
    <3> QED  BY <1>3, <3>1, <3>2
  <2> HIDE DEF at
  <2>7. \A j \in DOMAIN L : Apart(u, L[j]) /\ \E i \in DOMAIN memlist : Within(L[j], memlist[i])
    BY <1>a, <1>b, <2>4 DEF Within, End
  <2>8. \A i, j \in DOMAIN L : i < j => End(L[i]) < L[j].addr
    BY <1>o, <2>4, <2>5
  <2>9. \A i \in DOMAIN memlist : i # k => \E j \in DOMAIN L : L[j] = memlist[i]
    BY <2>4, <2>6
  <2>10. \A w \in Nat : memlist[k].addr <= w /\ w < End(memlist[k]) => u.addr <= w /\ w < End(u)
    BY <1>1, <1>2, <1>5 DEF End, Block
  <2> QED  BY <1>4, <2>1, <2>7, <2>8, <2>9, <2>10, Cut
<1>6. CASE memlist[k].len # u.len
  <2> DEFINE L == [memlist EXCEPT ![k] = rest]
  <2>1. /\ rest \in FreeT /\ rest.addr \in Nat /\ rest.len \in Nat /\ rest.len > 0
        /\ Within(rest, memlist[k]) /\ Apart(u, rest)
        /\ \A w \in Nat : memlist[k].addr <= w /\ w < End(memlist[k]) =>
              (u.addr <= w /\ w < End(u)) \/ (rest.addr <= w /\ w < End(rest))
    <3>1. CASE /\ u.addr = memlist[k].addr
               /\ rest = Block(memlist[k].addr + u.len, memlist[k].len - u.len)
      <4>1. rest.addr = memlist[k].addr + u.len /\ rest.len = memlist[k].len - u.len /\ rest \in FreeT
        BY <1>1, <1>2, <1>6, <3>1 DEF Block, FreeT
      <4> QED  BY <1>1, <1>2, <1>6, <3>1, <4>1 DEF End, Within, Apart
    <3>2. CASE /\ u.addr = End(memlist[k]) - u.len
               /\ rest = Block(memlist[k].addr, memlist[k].len - u.len)
      <4>1. rest.addr = memlist[k].addr /\ rest.len = memlist[k].len - u.len /\ rest \in FreeT
        BY <1>1, <1>2, <1>6, <3>2 DEF Block, FreeT
      <4> QED  BY <1>1, <1>2, <1>6, <3>2, <4>1 DEF End, Within, Apart
    <3> QED  BY <3>1, <3>2
  <2>2. /\ memlist' = L /\ L \in Seq(FreeT) /\ DOMAIN L = DOMAIN memlist
        /\ L[k] = rest /\ \A i \in DOMAIN memlist : i # k => L[i] = memlist[i]
    BY <1>3, <1>6, <2>1
  <2> HIDE DEF L
  <2>3. \A j \in DOMAIN L : Apart(u, L[j]) /\ Within(L[j], memlist[j])
    BY <1>a, <1>b, <2>1, <2>2, SMTT(40) DEF Within, End
  <2>4. ASSUME NEW i \in DOMAIN L, NEW j \in DOMAIN L, i < j PROVE End(L[i]) < L[j].addr
    <3>1. End(memlist[i]) < memlist[j].addr
      BY <1>o, <2>2, <2>4
    <3>2. /\ L[i].addr \in Nat /\ L[i].len \in Nat /\ L[j].addr \in Nat /\ L[j].len \in Nat
      BY <1>b, <2>1, <2>2
    <3>3. Within(L[i], memlist[i]) /\ Within(L[j], memlist[j])
      BY <2>3
    <3>4. /\ memlist[i].addr \in Nat /\ memlist[i].len \in Nat
          /\ memlist[j].addr \in Nat /\ memlist[j].len \in Nat
      BY <1>b, <2>2
    <3> QED  BY <3>1, <3>2, <3>3, <3>4 DEF Within, End
  <2>5. \A i \in DOMAIN memlist : i # k => \E j \in DOMAIN memlist' : memlist'[j] = memlist[i]
    BY <2>2
  <2>6. \A w \in Nat : memlist[k].addr <= w /\ w < End(memlist[k]) =>
            \/ u.addr <= w /\ w < End(u)
            \/ \E j \in DOMAIN memlist' : memlist'[j].addr <= w /\ w < End(memlist'[j])
    BY <2>1, <2>2
  <2>7. \A j \in DOMAIN memlist' : Apart(u, memlist'[j]) /\ \E i \in DOMAIN memlist : Within(memlist'[j], memlist[i])
    BY <2>2, <2>3
  <2>8. \A i, j \in DOMAIN memlist' : i < j => End(memlist'[i]) < memlist'[j].addr
    BY <2>2, <2>4
  <2>9. memlist' \in Seq(FreeT)
    BY <2>2
  <2> QED  BY <1>4, <2>9, <2>5, <2>6, <2>7, <2>8, Cut
<1> QED  BY <1>5, <1>6

LEMMA MemGet ==
    ASSUME MemInv, NEW n \in Nat \ {0}, n % 2 = 0, NEW of \in {"mem", "pool"}, HeapGet(n, of),
           heapLost' = heapLost
    PROVE  MemInv'
<1>1. PICK k \in DOMAIN memlist :
         /\ memlist[k].len >= n
         /\ memlist' = IF memlist[k].len = n THEN RemoveAt(memlist, k)
                       ELSE [memlist EXCEPT ![k] = Block(memlist[k].addr + n, memlist[k].len - n)]
         /\ heapUsed' = heapUsed \cup {[addr |-> memlist[k].addr, len |-> n, of |-> of]}
  BY DEF HeapGet, FirstFit, Fits
<1> DEFINE u == [addr |-> memlist[k].addr, len |-> n, of |-> of]
           rest == Block(memlist[k].addr + n, memlist[k].len - n)
<1>2. memlist[k].addr \in Nat /\ memlist[k].len \in Nat
  BY FreeBlock
<1>3. u \in UsedT /\ u.len = n /\ u.addr = memlist[k].addr /\ n <= memlist[k].len
  BY <1>1, <1>2 DEF UsedT
<1> HIDE DEF u
<1>4. heapUsed' = heapUsed \cup {u}
  BY <1>1 DEF u
<1> QED  BY <1>1, <1>3, <1>4, CutBlock

LEMMA MemGetstk ==
    ASSUME MemInv, NEW n \in HeapStks, getstk(n) PROVE MemInv'
<1>1. n \in Nat \ {0} /\ n % 2 = 0 /\ heapLost' = heapLost
  BY HeapAssumption DEF getstk
<1>2. CASE UNCHANGED <<memlist, heapUsed>>
  BY <1>1, <1>2 DEF MemInv, MemTypes, MemDivided, HeapBlocks
<1>3. CASE ~UNCHANGED <<memlist, heapUsed>>
  <2>1. PICK k \in DOMAIN memlist :
           /\ memlist[k].len >= n
           /\ memlist' = IF memlist[k].len = n THEN RemoveAt(memlist, k)
                         ELSE [memlist EXCEPT ![k] = Block(memlist[k].addr, memlist[k].len - n)]
           /\ heapUsed' = heapUsed \cup {[addr |-> End(memlist[k]) - n, len |-> n, of |-> "stk"]}
    BY <1>3 DEF getstk, LastFit, Fits
  <2> DEFINE u == [addr |-> End(memlist[k]) - n, len |-> n, of |-> "stk"]
             rest == Block(memlist[k].addr, memlist[k].len - n)
  <2>2. memlist[k].addr \in Nat /\ memlist[k].len \in Nat
    BY FreeBlock
  <2>3. u \in UsedT /\ u.len = n /\ u.addr = End(memlist[k]) - n /\ n <= memlist[k].len
    BY <1>1, <2>1, <2>2 DEF UsedT, End
  <2> HIDE DEF u
  <2>4. heapUsed' = heapUsed \cup {u}
    BY <2>1 DEF u
  <2> QED  BY <1>1, <2>1, <2>3, <2>4, CutBlock
<1> QED  BY <1>2, <1>3

(* p entries of s, then m, then those of s from q on.                      *)
Splice(s, p, m, q) == SubSeq(s, 1, p) \o <<m>> \o SubSeq(s, q, Len(s))

LEMMA SpliceElements ==
    ASSUME NEW T, NEW s \in Seq(T), NEW m \in T, NEW p \in 0..Len(s),
           NEW q \in (p + 1)..(Len(s) + 1)
    PROVE  /\ Splice(s, p, m, q) \in Seq(T)
           /\ Len(Splice(s, p, m, q)) = Len(s) + p + 2 - q
           /\ \A j \in 1..p : Splice(s, p, m, q)[j] = s[j]
           /\ Splice(s, p, m, q)[p + 1] = m
           /\ \A i \in q..Len(s) : Splice(s, p, m, q)[i + p + 2 - q] = s[i]
<1> DEFINE a == SubSeq(s, 1, p)  c == SubSeq(s, q, Len(s))  e == <<m>>
           r == Splice(s, p, m, q)
<1>0. Len(s) \in Nat /\ p \in Nat /\ q \in Nat /\ q >= 1 /\ p < q
  OBVIOUS
<1>1. a \in Seq(T) /\ Len(a) = p /\ \A j \in 1..p : a[j] = s[j]
  <2>1. 1 \in 1..(Len(s) + 1) /\ p \in 0..Len(s) /\ 1 <= p + 1
    BY <1>0
  <2>2. /\ a \in Seq(T) /\ Len(a) = p - 1 + 1
        /\ \A j \in 1..(p - 1 + 1) : a[j] = s[1 + j - 1]
    BY <2>1, SubSeqElements
  <2> QED  BY <1>0, <2>2
<1>2. c \in Seq(T) /\ Len(c) = Len(s) - q + 1 /\ \A j \in 1..(Len(s) - q + 1) : c[j] = s[q + j - 1]
  <2>1. q \in 1..(Len(s) + 1) /\ Len(s) \in 0..Len(s) /\ q <= Len(s) + 1
    BY <1>0
  <2> QED  BY <2>1, SubSeqElements
<1>3. e \in Seq(T) /\ Len(e) = 1 /\ e[1] = m
  OBVIOUS
<1>4. r = (a \o e) \o c
  BY DEF Splice
<1> HIDE DEF a, c, e, r
<1> DEFINE ae == a \o e
<1>5. /\ ae \in Seq(T) /\ Len(ae) = p + 1 /\ ae[p + 1] = m
      /\ \A j \in 1..p : ae[j] = s[j]
  <2>1. /\ ae \in Seq(T) /\ Len(ae) = Len(a) + Len(e)
        /\ \A j \in 1..Len(a) : ae[j] = a[j]
        /\ \A k \in 1..Len(e) : ae[Len(a) + k] = e[k]
    BY <1>1, <1>3, ConcatElements, SMTT(40)
  <2>2. 1 \in 1..Len(e)
    BY <1>3
  <2> QED  BY <1>0, <1>1, <1>3, <2>1, <2>2
<1> HIDE DEF ae
<1>6. r = ae \o c
  BY <1>4 DEF ae
<1>c. /\ r \in Seq(T) /\ Len(r) = Len(ae) + Len(c)
      /\ \A j \in 1..Len(ae) : r[j] = ae[j]
      /\ \A k \in 1..Len(c) : r[Len(ae) + k] = c[k]
  <2>1. ae \in Seq(T) /\ c \in Seq(T)
    BY <1>2, <1>5
  <2> QED  BY <1>6, <2>1, ConcatElements
<1>7. r \in Seq(T) /\ Len(r) = Len(s) + p + 2 - q
  BY <1>0, <1>2, <1>5, <1>c
<1>8. \A j \in 1..(p + 1) : r[j] = ae[j]
  BY <1>5, <1>c
<1>9. ASSUME NEW i \in q..Len(s) PROVE r[i + p + 2 - q] = s[i]
  <2>1. i - q + 1 \in 1..Len(c) /\ c[i - q + 1] = s[i]
    <3>1. i - q + 1 \in 1..(Len(s) - q + 1) /\ q + (i - q + 1) - 1 = i
      BY <1>0
    <3> QED  BY <1>2, <3>1
  <2>2. r[Len(ae) + (i - q + 1)] = c[i - q + 1]
    BY <1>c, <2>1
  <2>3. Len(ae) + (i - q + 1) = i + p + 2 - q
    <3>1. Len(ae) = p + 1 /\ p \in Int /\ q \in Int /\ i \in Int
      BY <1>0, <1>5
    <3> QED
      BY <3>1
  <2> QED  BY <2>1, <2>2, <2>3
<1>10. r[p + 1] = m /\ \A j \in 1..p : r[j] = s[j]
  BY <1>0, <1>5, <1>8
<1> QED  BY <1>7, <1>9, <1>10 DEF r

(* Block u is given back: it joins the free blocks it touches, if any,     *)
(* to one block m that stands where they stood.                            *)
LEMMA MemJoin ==
    ASSUME MemInv, NEW u \in heapUsed, NEW b, b = Block(u.addr, u.len),
           ~Refused(b), NEW i \in 0..Len(memlist), Below(b, i), memlist' = Joined(b, i),
           heapUsed' = heapUsed \ {u}, heapLost' = heapLost
    PROVE  MemInv'
<1> DEFINE n == Len(memlist)
           low == i > 0 /\ End(memlist[i]) = b.addr
           high == i < n /\ End(b) = memlist[i + 1].addr
           start == IF low THEN memlist[i].addr ELSE b.addr
           end == IF high THEN End(memlist[i + 1]) ELSE End(b)
           m == Block(start, end - start)
           p == IF low THEN i - 1 ELSE i
           q == IF high THEN i + 2 ELSE i + 1
           L == memlist'
<1>1. memlist \in Seq(FreeT) /\ n \in Nat /\ i \in Nat /\ DOMAIN memlist = 1..n
  BY DEF MemInv, MemTypes
<1>2. /\ b.addr = u.addr /\ b.len = u.len /\ b.addr \in Nat /\ b.len \in Nat /\ b.len > 0
      /\ End(b) = End(u) /\ End(b) <= HeapWords
  BY UsedBlock DEF Block, End
<1>b. \A k \in 1..n : memlist[k].addr \in Nat /\ memlist[k].len \in Nat /\ memlist[k].len > 0
                      /\ End(memlist[k]) \in Nat /\ End(memlist[k]) <= HeapWords
  BY <1>1, FreeBlock DEF End
<1>o. \A k, l \in 1..n : k < l => End(memlist[k]) < memlist[l].addr
  BY <1>1 DEF MemInv, MemDivided
<1>a. \A k \in 1..n : Apart(b, memlist[k])
  BY <1>1, <1>2 DEF MemInv, MemDivided, Apart
<1>l. \A k \in 1..i : End(memlist[k]) <= b.addr
  <2> SUFFICES ASSUME NEW k \in 1..i PROVE End(memlist[k]) <= b.addr
    OBVIOUS
  <2>1. k \in 1..n /\ memlist[k].addr < b.addr
    BY <1>1 DEF Below
  <2>2. End(b) > b.addr /\ memlist[k].addr \in Nat /\ End(b) \in Nat
    BY <1>2, <1>b, <2>1 DEF End
  <2>3. End(b) <= memlist[k].addr \/ End(memlist[k]) <= b.addr
    BY <1>a, <2>1 DEF Apart
  <2> QED  BY <1>2, <2>1, <2>2, <2>3
<1>h. \A k \in (i + 1)..n : End(b) <= memlist[k].addr
  <2> SUFFICES ASSUME NEW k \in (i + 1)..n PROVE End(b) <= memlist[k].addr
    OBVIOUS
  <2>1. k \in 1..n /\ memlist[k].addr >= b.addr
    BY <1>1 DEF Below
  <2>2. End(memlist[k]) > memlist[k].addr /\ memlist[k].addr \in Nat /\ End(memlist[k]) \in Nat
    BY <1>b, <2>1 DEF End
  <2>3. End(b) <= memlist[k].addr \/ End(memlist[k]) <= b.addr
    BY <1>a, <2>1 DEF Apart
  <2> QED  BY <1>2, <2>1, <2>2, <2>3
<1>3. /\ p \in 0..n /\ q \in (p + 1)..(n + 1) /\ p <= i /\ i < q
      /\ \A k \in 1..n : k <= p \/ k >= q \/ (low /\ k = i) \/ (high /\ k = i + 1)
  BY <1>1
<1>4. /\ start \in Nat /\ end \in Nat /\ start <= b.addr /\ End(b) <= end
      /\ end <= HeapWords
  <2>1. low => i \in 1..n
    BY <1>1
  <2>2. high => i + 1 \in 1..n
    BY <1>1
  <2>e. End(b) \in Nat
    BY <1>2 DEF End
  <2>3. low => /\ memlist[i].addr \in Nat /\ memlist[i].addr <= b.addr
    BY <1>2, <1>b, <2>1 DEF End
  <2>4. high => /\ End(memlist[i + 1]) \in Nat /\ End(b) <= End(memlist[i + 1])
                /\ End(memlist[i + 1]) <= HeapWords
    BY <1>2, <1>b, <2>2, <2>e DEF End
  <2> QED  BY <1>2, <2>3, <2>4, <2>e
<1>5. m \in FreeT /\ m.addr = start /\ End(m) = end
  BY <1>2, <1>4, SMTT(40) DEF Block, End, FreeT
<1>6. /\ L \in Seq(FreeT) /\ Len(L) = n + p + 2 - q
      /\ \A j \in 1..p : L[j] = memlist[j]
      /\ L[p + 1] = m
      /\ \A k \in q..n : L[k + p + 2 - q] = memlist[k]
  <2>1. L = Splice(memlist, p, m, q)
    BY DEF Joined, Splice
  <2>2. memlist \in Seq(FreeT) /\ p \in 0..Len(memlist) /\ q \in (p + 1)..(Len(memlist) + 1)
    BY <1>1, <1>3
  <2>3. m \in FreeT
    BY <1>5
  <2> HIDE DEF m, p, q, L
  <2>4. /\ Splice(memlist, p, m, q) \in Seq(FreeT)
        /\ Len(Splice(memlist, p, m, q)) = Len(memlist) + p + 2 - q
        /\ \A j \in 1..p : Splice(memlist, p, m, q)[j] = memlist[j]
        /\ Splice(memlist, p, m, q)[p + 1] = m
        /\ \A k \in q..Len(memlist) : Splice(memlist, p, m, q)[k + p + 2 - q] = memlist[k]
    BY <2>2, <2>3, SpliceElements
  <2> QED  BY <2>1, <2>4
<1>p. \A k \in 1..p : End(memlist[k]) < start
  <2> SUFFICES ASSUME NEW k \in 1..p PROVE End(memlist[k]) < start
    OBVIOUS
  <2>1. k \in 1..n /\ k \in 1..i /\ (low => k < i /\ i \in 1..n)
    BY <1>1
  <2>2. CASE low
    BY <1>o, <2>1, <2>2
  <2>3. CASE ~low
    <3>1. i > 0 /\ i \in 1..n /\ End(memlist[i]) # b.addr /\ End(memlist[i]) <= b.addr
      BY <1>1, <1>l, <2>1, <2>3
    <3>2. k = i \/ (k < i /\ End(memlist[k]) < memlist[i].addr)
      BY <1>1, <1>o, <2>1, <3>1
    <3> QED  BY <1>2, <1>b, <2>1, <2>3, <3>1, <3>2, SMTT(40) DEF End
  <2> QED  BY <2>2, <2>3
<1>q. \A k \in q..n : end < memlist[k].addr
  <2> SUFFICES ASSUME NEW k \in q..n PROVE end < memlist[k].addr
    OBVIOUS
  <2>1. k \in 1..n /\ k \in (i + 1)..n /\ i + 1 \in 1..n /\ i + 1 \in (i + 1)..n /\ (high => i + 1 < k)
    BY <1>1
  <2>2. CASE high
    BY <1>o, <2>1, <2>2
  <2>3. CASE ~high
    <3>1. End(b) # memlist[i + 1].addr /\ End(b) <= memlist[i + 1].addr
      BY <1>1, <1>h, <2>1, <2>3
    <3>2. k = i + 1 \/ (i + 1 < k /\ End(memlist[i + 1]) < memlist[k].addr)
      BY <1>1, <1>o, <2>1
    <3>3. /\ memlist[i + 1].addr \in Nat /\ memlist[k].addr \in Nat
          /\ End(memlist[i + 1]) \in Nat /\ End(memlist[i + 1]) > memlist[i + 1].addr
      BY <1>b, <2>1 DEF End
    <3>4. end = End(b) /\ end \in Nat
      BY <1>4, <2>3
    <3> HIDE DEF end
    <3> QED  BY <3>1, <3>2, <3>3, <3>4
  <2> QED  BY <2>2, <2>3
<1>d. DOMAIN L = 1..Len(L) /\ Len(L) \in Nat
  <2>1. L \in Seq(FreeT)
    BY <1>6
  <2> HIDE DEF L
  <2> QED  BY <2>1
<1>e. ASSUME NEW j \in DOMAIN L
      PROVE  \/ j \in 1..p /\ L[j] = memlist[j]
             \/ j = p + 1 /\ L[j] = m
             \/ j + q - p - 2 \in q..n /\ L[j] = memlist[j + q - p - 2]
  <2> HIDE DEF p, q, m, L
  <2>1. j \in 1..(n + p + 2 - q)
    BY <1>6, <1>d
  <2>2. p \in Nat /\ q \in Nat /\ j \in Nat
    BY <1>1, <1>3, <2>1
  <2>3. CASE j <= p
    BY <1>6, <2>1, <2>2, <2>3
  <2>4. CASE j = p + 1
    BY <1>6, <2>4
  <2>5. CASE j > p + 1
    <3>1. j + q - p - 2 \in q..n /\ (j + q - p - 2) + p + 2 - q = j
      BY <1>1, <2>1, <2>2, <2>5
    <3> QED  BY <1>6, <3>1
  <2> QED  BY <2>2, <2>3, <2>4, <2>5
<1>7. /\ DOMAIN L = 1..(n + p + 2 - q)
      /\ \A j \in DOMAIN L : \/ j \in 1..p /\ L[j] = memlist[j]
                             \/ j = p + 1 /\ L[j] = m
                             \/ j + q - p - 2 \in q..n /\ L[j] = memlist[j + q - p - 2]
  <2> HIDE DEF p, q, m, L
  <2>1. DOMAIN L = 1..(n + p + 2 - q)
    BY <1>6, <1>d
  <2>2. \A j \in DOMAIN L : \/ j \in 1..p /\ L[j] = memlist[j]
                            \/ j = p + 1 /\ L[j] = m
                            \/ j + q - p - 2 \in q..n /\ L[j] = memlist[j + q - p - 2]
    BY <1>e
  <2> QED  BY <2>1, <2>2
<1>8. ASSUME NEW v, v.addr \in Nat, v.len \in Nat, v.len > 0, Apart(v, b),
             \A k \in 1..n : Apart(v, memlist[k])
      PROVE  \A j \in DOMAIN L : Apart(v, L[j])
  <2>1. Apart(v, m)
    <3>1. End(v) \in Nat /\ v.addr < End(v) /\ End(b) \in Nat /\ b.addr < End(b)
      BY <1>2, <1>8 DEF End
    <3>2. End(v) <= b.addr \/ End(b) <= v.addr
      BY <1>8 DEF Apart
    <3>3. low => /\ End(v) <= memlist[i].addr \/ b.addr <= v.addr
                 /\ memlist[i].addr \in Nat
      BY <1>1, <1>8, <1>b DEF Apart
    <3>4. high => /\ End(v) <= End(b) \/ End(memlist[i + 1]) <= v.addr
                  /\ End(memlist[i + 1]) \in Nat
      BY <1>1, <1>8, <1>b DEF Apart
    <3>5. End(v) <= start \/ end <= v.addr
      BY <1>2, <1>8, <3>1, <3>2, <3>3, <3>4
    <3> QED  BY <1>5, <3>5 DEF Apart
  <2> HIDE DEF p, q, m, L, n
  <2>2. \A k \in 1..p : k \in 1..n
    BY <1>1, <1>3
  <2>3. \A k \in q..n : k \in 1..n
    BY <1>1, <1>3
  <2> QED  BY <1>7, <1>8, <2>1, <2>2, <2>3
<1>9. ASSUME NEW j \in DOMAIN L, NEW l \in DOMAIN L, j < l PROVE End(L[j]) < L[l].addr
  <2>0. /\ j \in Nat /\ l \in Nat /\ p \in Nat /\ q \in Nat /\ p < q /\ p <= n
        /\ start \in Nat /\ end \in Nat /\ start < end
    <3>1. j \in Nat /\ l \in Nat
      <4> HIDE DEF L
      <4> QED  BY <1>9, <1>d
    <3>2. p \in Nat /\ q \in Nat /\ p < q /\ p <= n
      BY <1>1, <1>3
    <3>3. start < end
      BY <1>2, <1>4 DEF End
    <3> QED  BY <1>4, <3>1, <3>2, <3>3
  <2> HIDE DEF p, q, m, L, n, start, end
  <2>1. CASE j \in 1..p /\ L[j] = memlist[j]
    <3>1. j \in 1..n /\ End(memlist[j]) < start /\ End(memlist[j]) \in Nat
      BY <1>1, <1>b, <1>p, <2>0, <2>1
    <3>2. CASE l \in 1..p /\ L[l] = memlist[l]
      BY <1>1, <1>9, <1>o, <2>0, <2>1, <3>2
    <3>3. CASE L[l] = m
      BY <1>5, <2>1, <3>1, <3>3
    <3>4. CASE l + q - p - 2 \in q..n /\ L[l] = memlist[l + q - p - 2]
      <4>1. end < memlist[l + q - p - 2].addr /\ memlist[l + q - p - 2].addr \in Nat
        BY <1>1, <1>b, <1>q, <2>0, <3>4
      <4> QED  BY <2>0, <2>1, <3>1, <3>4, <4>1, SMTT(40)
    <3> QED  BY <1>7, <3>2, <3>3, <3>4
  <2>2. CASE j = p + 1 /\ L[j] = m
    <3>1. l + q - p - 2 \in q..n /\ L[l] = memlist[l + q - p - 2]
      BY <1>7, <1>9, <2>0, <2>2
    <3> QED  BY <1>5, <1>q, <2>2, <3>1
  <2>3. CASE j + q - p - 2 \in q..n /\ L[j] = memlist[j + q - p - 2]
    <3>1. l + q - p - 2 \in q..n /\ L[l] = memlist[l + q - p - 2]
      BY <1>1, <1>7, <1>9, <2>0, <2>3
    <3>2. j + q - p - 2 \in 1..n /\ l + q - p - 2 \in 1..n /\ j + q - p - 2 < l + q - p - 2
      BY <1>1, <1>9, <2>0, <2>3, <3>1
    <3> QED  BY <1>o, <2>3, <3>1, <3>2
  <2> QED  BY <1>7, <2>1, <2>2, <2>3
<1>10. /\ m \in ToSet(L)
       /\ \A k \in 1..n : memlist[k] \in ToSet(L) \/ Within(memlist[k], m)
  <2>0. p + 1 \in DOMAIN L
    BY <1>1, <1>3, <1>7
  <2>1. m \in ToSet(L)
    BY <1>6, <2>0 DEF ToSet
  <2>2. ASSUME NEW k \in 1..n PROVE memlist[k] \in ToSet(L) \/ Within(memlist[k], m)
    <3>1. CASE k <= p
      <4>1. k \in DOMAIN L /\ L[k] = memlist[k]
        BY <1>1, <1>3, <1>6, <1>7, <3>1
      <4> QED  BY <4>1 DEF ToSet
    <3>2. CASE k >= q
      <4> HIDE DEF L, p, q, m
      <4>1. k + p + 2 - q \in 1..(n + p + 2 - q) /\ k \in q..n
        BY <1>1, <1>3, <3>2
      <4>2. k + p + 2 - q \in DOMAIN L /\ L[k + p + 2 - q] = memlist[k]
        BY <1>6, <1>7, <4>1
      <4> QED  BY <4>2 DEF ToSet
    <3>3. CASE low /\ k = i
      <4>1. start = memlist[k].addr /\ End(memlist[k]) <= end
        BY <1>2, <1>4, <1>b, <3>3, SMTT(40) DEF End
      <4> QED  BY <1>5, <1>b, <4>1 DEF Within
    <3>4. CASE high /\ k = i + 1
      <4>1. end = End(memlist[k]) /\ start <= memlist[k].addr
        BY <1>2, <1>4, <1>b, <3>4 DEF End
      <4> QED  BY <1>5, <1>b, <4>1 DEF Within
    <3> QED  BY <1>3, <3>1, <3>2, <3>3, <3>4
  <2> QED  BY <2>1, <2>2
<1>w. HeapWords \in Nat
  BY HeapAssumption
<1>11. ASSUME NEW x \in HeapBlocks' PROVE End(x) <= HeapWords
  <2>1. CASE x \in heapUsed \cup heapLost
    BY <2>1, UsedBlock, LostBlock
  <2>2. CASE x \in ToSet(L)
    <3>1. PICK j \in DOMAIN L : x = L[j]
      BY <2>2 DEF ToSet
    <3>2. x = m \/ \E k \in 1..n : x = memlist[k]
      <4> HIDE DEF m, L, p, q
      <4>1. (\A k \in 1..p : k \in 1..n) /\ (\A k \in q..n : k \in 1..n)
        BY <1>1, <1>3
      <4> QED  BY <1>7, <3>1, <4>1
    <3> QED  BY <1>4, <1>5, <1>b, <3>2
  <2> QED  BY <2>1, <2>2 DEF HeapBlocks
<1>12. ASSUME NEW w \in 0..(HeapWords - 1) PROVE \E x \in HeapBlocks' : x.addr <= w /\ w < End(x)
  <2>0. w \in Nat
    BY <1>w
  <2>m. m.addr <= w /\ w < End(m) => \E x \in HeapBlocks' : x.addr <= w /\ w < End(x)
    BY <1>10 DEF HeapBlocks
  <2>1. PICK x \in HeapBlocks : x.addr <= w /\ w < End(x)
    BY DEF MemInv, MemDivided
  <2>2. CASE x \in (heapUsed \ {u}) \cup heapLost
    BY <2>1, <2>2 DEF HeapBlocks
  <2>3. CASE x = u
    <3>1. m.addr <= w /\ w < End(m)
      BY <1>2, <1>4, <1>5, <2>0, <2>1, <2>3 DEF End
    <3> QED  BY <2>m, <3>1
  <2>4. CASE x \in ToSet(memlist)
    <3>1. PICK k \in 1..n : x = memlist[k]
      BY <1>1, <2>4 DEF ToSet
    <3>2. CASE x \in ToSet(L)
      BY <2>1, <3>2 DEF HeapBlocks
    <3>3. CASE Within(x, m)
      <4>1. m.addr <= w /\ w < End(m)
        BY <1>4, <1>5, <1>b, <2>0, <2>1, <3>1, <3>3, SMTT(40) DEF Within
      <4> QED  BY <2>m, <4>1
    <3> QED  BY <1>10, <3>1, <3>2, <3>3
  <2> QED  BY <2>2, <2>3, <2>4 DEF HeapBlocks
<1>13. ASSUME NEW v \in (heapUsed \ {u}) \cup heapLost, NEW j \in DOMAIN L PROVE Apart(v, L[j])
  <2>1. v.addr \in Nat /\ v.len \in Nat /\ v.len > 0
    BY UsedBlock, LostBlock
  <2>2. Apart(v, b)
    BY <1>2 DEF MemInv, MemDivided, Apart
  <2>3. \A k \in 1..n : Apart(v, memlist[k])
    BY <1>1 DEF MemInv, MemDivided
  <2> HIDE DEF L
  <2> QED  BY <1>8, <2>1, <2>2, <2>3
<1>14. MemDivided'
  <2>1. (\A v \in heapUsed : /\ \A x \in heapUsed : v # x => Apart(v, x)
                             /\ \A c \in heapLost : Apart(v, c)
                             /\ \A j \in DOMAIN memlist : Apart(v, memlist[j]))'
    BY <1>13 DEF MemInv, MemDivided
  <2>2. (\A x \in heapLost : /\ \A c \in heapLost : x # c => Apart(x, c)
                             /\ \A j \in DOMAIN memlist : Apart(x, memlist[j]))'
    BY <1>13 DEF MemInv, MemDivided
  <2> QED  BY <1>9, <1>11, <1>12, <2>1, <2>2 DEF MemDivided
<1>15. MemTypes'
  BY <1>6 DEF MemInv, MemTypes
<1> QED  BY <1>14, <1>15 DEF MemInv

(* A block that freemem refuses stays where it is.                         *)
LEMMA MemRefuse ==
    ASSUME MemInv, NEW u \in heapUsed, heapUsed' = heapUsed \ {u},
           heapLost' = heapLost \cup {Block(u.addr, u.len)}, memlist' = memlist
    PROVE  MemInv'
<1> DEFINE b == Block(u.addr, u.len)
<1>1. /\ b.addr = u.addr /\ b.len = u.len /\ b.addr \in Nat /\ b.len \in Nat /\ b.len > 0
      /\ End(b) = End(u) /\ End(b) <= HeapWords /\ b \in FreeT
  BY UsedBlock DEF Block, End, FreeT
<1>2. heapLost' = heapLost \cup {b}
  OBVIOUS
<1> HIDE DEF b
<1>3. ASSUME NEW v \in heapUsed \ {u} PROVE Apart(v, b)
  BY <1>1 DEF MemInv, MemDivided, Apart
<1>4. ASSUME NEW c \in heapLost PROVE Apart(c, b) /\ Apart(b, c)
  BY <1>1 DEF MemInv, MemDivided, Apart
<1>5. ASSUME NEW k \in DOMAIN memlist PROVE Apart(b, memlist[k])
  BY <1>1 DEF MemInv, MemDivided, Apart
<1>6. ASSUME NEW x \in HeapBlocks' PROVE End(x) <= HeapWords
  <2>1. x \in HeapBlocks \/ x = b
    BY <1>2 DEF HeapBlocks
  <2> QED  BY <1>1, <2>1 DEF MemInv, MemDivided
<1>7. ASSUME NEW w \in 0..(HeapWords - 1) PROVE \E x \in HeapBlocks' : x.addr <= w /\ w < End(x)
  <2>1. PICK x \in HeapBlocks : x.addr <= w /\ w < End(x)
    BY DEF MemInv, MemDivided
  <2>2. CASE x = u
    BY <1>1, <1>2, <2>1, <2>2 DEF HeapBlocks
  <2>3. CASE x # u
    BY <1>2, <2>1, <2>3 DEF HeapBlocks
  <2> QED  BY <2>2, <2>3
<1>8. MemDivided'
  <2>1. (\A v \in heapUsed : /\ \A x \in heapUsed : v # x => Apart(v, x)
                             /\ \A c \in heapLost : Apart(v, c)
                             /\ \A j \in DOMAIN memlist : Apart(v, memlist[j]))'
    BY <1>2, <1>3 DEF MemInv, MemDivided
  <2>2. (\A x \in heapLost : /\ \A c \in heapLost : x # c => Apart(x, c)
                             /\ \A j \in DOMAIN memlist : Apart(x, memlist[j]))'
    BY <1>2, <1>4, <1>5 DEF MemInv, MemDivided
  <2>3. (\A i, j \in DOMAIN memlist : i < j => End(memlist[i]) < memlist[j].addr)'
    BY DEF MemInv, MemDivided
  <2> QED  BY <1>6, <1>7, <2>1, <2>2, <2>3 DEF MemDivided
<1>9. MemTypes'
  BY <1>1, <1>2 DEF MemInv, MemTypes
<1> QED  BY <1>8, <1>9 DEF MemInv

LEMMA MemFree == ASSUME MemInv, NEW u \in heapUsed, freemem(u) PROVE MemInv'
<1> DEFINE b == Block(u.addr, roundmb(u.len))
<1>1. roundmb(u.len) = u.len
  BY Rounding, UsedBlock DEF MemInv, MemTypes
<1>2. b = Block(u.addr, u.len)
  BY <1>1
<1> HIDE DEF b
<1>3. /\ heapUsed' = heapUsed \ {u}
      /\ \/ heapLost' = heapLost \cup {b} /\ memlist' = memlist
         \/ /\ ~Refused(b) /\ heapLost' = heapLost
            /\ \E i \in 0..Len(memlist) : Below(b, i) /\ memlist' = Joined(b, i)
  BY DEF freemem, b
<1> QED  BY <1>2, <1>3, MemRefuse, MemJoin

-----------------------------------------------------------------------------
(* Pools.  A process is between the two steps of getbuf or of freebuf on a *)
(* pool that exists, and buffers are held from such a pool.                *)
PoolT == [sem : Nat, maxused : Nat, chain : Seq(1..PoolBufs)]
PcT == {<<>>} \cup ({"take", "signal"} \X DOMAIN bptab)

PoolTypes ==
    /\ bptab \in Seq(PoolT)
    /\ poolPc \in [HeapProcs -> PcT]
    /\ bufHeld \subseteq (DOMAIN bptab) \X (1..PoolBufs)
PoolInv == PoolTypes /\ PoolsDivided

InStep(q, l) == {p \in HeapProcs : poolPc[p] = <<l, q>>}
FreeBufs(q) == {i \in 1..PoolBufs : <<q, i>> \notin bufHeld}

LEMMA PoolInType ==
    ASSUME NEW q, NEW l PROVE IsFiniteSet(InStep(q, l)) /\ PoolIn(q, l) \in Nat
<1>1. InStep(q, l) \in SUBSET HeapProcs /\ IsFiniteSet(HeapProcs)
  BY HeapAssumption DEF InStep
<1>2. IsFiniteSet(InStep(q, l))
  BY <1>1, FS_Subset
<1>3. Cardinality(InStep(q, l)) \in Nat
  BY <1>2, FS_CardinalityType
<1> QED  BY <1>2, <1>3 DEF PoolIn, InStep

(* A process passes the semaphore of pool q, or links a buffer to it.      *)
LEMMA StepIn ==
    ASSUME PoolTypes, NEW p \in HeapProcs, NEW q \in DOMAIN bptab, NEW l \in {"take", "signal"},
           poolPc[p] = <<>>, poolPc' = [poolPc EXCEPT ![p] = <<l, q>>],
           DOMAIN bptab' = DOMAIN bptab
    PROVE  /\ poolPc' \in [HeapProcs -> PcT']
           /\ PoolIn(q, l)' = PoolIn(q, l) + 1
           /\ \A r, k : <<k, r>> # <<l, q>> => PoolIn(r, k)' = PoolIn(r, k)
<1>1. poolPc \in [HeapProcs -> PcT]
  BY DEF PoolTypes
<1>2. <<l, q>> \in PcT /\ PcT' = PcT
  BY DEF PcT
<1>3. poolPc' \in [HeapProcs -> PcT']
  BY <1>1, <1>2
<1>e. <<>> # <<l, q>>
  OBVIOUS
<1>4. InStep(q, l)' = InStep(q, l) \cup {p} /\ p \notin InStep(q, l)
  BY <1>1, <1>e DEF InStep
<1>5. Cardinality(InStep(q, l) \cup {p}) = Cardinality(InStep(q, l)) + 1
  BY <1>4, PoolInType, FS_AddElement
<1>6. PoolIn(q, l)' = PoolIn(q, l) + 1
  BY <1>4, <1>5 DEF PoolIn, InStep
<1>7. ASSUME NEW r, NEW k, <<k, r>> # <<l, q>> PROVE PoolIn(r, k)' = PoolIn(r, k)
  <2>1. <<>> # <<k, r>>
    OBVIOUS
  <2>2. InStep(r, k)' = InStep(r, k)
    BY <1>1, <1>7, <2>1 DEF InStep
  <2> QED  BY <2>2 DEF PoolIn, InStep
<1> QED  BY <1>3, <1>6, <1>7

(* It has its buffer, or signals.                                          *)
LEMMA StepOut ==
    ASSUME PoolTypes, NEW p \in HeapProcs, NEW q \in DOMAIN bptab, NEW l \in {"take", "signal"},
           poolPc[p] = <<l, q>>, poolPc' = [poolPc EXCEPT ![p] = <<>>],
           DOMAIN bptab' = DOMAIN bptab
    PROVE  /\ poolPc' \in [HeapProcs -> PcT']
           /\ PoolIn(q, l) > 0
           /\ PoolIn(q, l)' = PoolIn(q, l) - 1
           /\ \A r, k : <<k, r>> # <<l, q>> => PoolIn(r, k)' = PoolIn(r, k)
<1>1. poolPc \in [HeapProcs -> PcT]
  BY DEF PoolTypes
<1>2. <<>> \in PcT /\ PcT' = PcT
  BY DEF PcT
<1>3. poolPc' \in [HeapProcs -> PcT']
  BY <1>1, <1>2
<1>e. <<>> # <<l, q>>
  OBVIOUS
<1>4. InStep(q, l)' = InStep(q, l) \ {p} /\ p \in InStep(q, l)
  BY <1>1, <1>e DEF InStep
<1>5. Cardinality(InStep(q, l) \ {p}) = Cardinality(InStep(q, l)) - 1
  BY <1>4, PoolInType, FS_RemoveElement
<1>6. PoolIn(q, l)' = PoolIn(q, l) - 1 /\ PoolIn(q, l)' \in Nat /\ PoolIn(q, l) \in Nat
  <2>1. PoolIn(q, l) = Cardinality(InStep(q, l)) /\ PoolIn(q, l)' = Cardinality(InStep(q, l)')
    BY DEF PoolIn, InStep
  <2>2. Cardinality(InStep(q, l) \ {p}) \in Nat
    BY PoolInType, FS_RemoveElement, FS_CardinalityType
  <2> QED  BY <1>4, <1>5, <2>1, <2>2, PoolInType
<1>7. ASSUME NEW r, NEW k, <<k, r>> # <<l, q>> PROVE PoolIn(r, k)' = PoolIn(r, k)
  <2>1. <<>> # <<k, r>>
    OBVIOUS
  <2>2. InStep(r, k)' = InStep(r, k)
    BY <1>1, <1>7, <2>1 DEF InStep
  <2> QED  BY <2>2 DEF PoolIn, InStep
<1>8. PoolIn(q, l) > 0
  BY <1>6
<1> QED  BY <1>3, <1>6, <1>7, <1>8

LEMMA PoolFacts ==
    ASSUME PoolInv, NEW q \in DOMAIN bptab
    PROVE  /\ bptab[q] \in PoolT /\ bptab[q].sem \in Nat
           /\ Lists(bptab[q].chain, FreeBufs(q), 1..PoolBufs)
           /\ Len(bptab[q].chain) = bptab[q].sem + PoolIn(q, "take") + PoolIn(q, "signal")
<1>1. bptab[q] \in PoolT
  BY DEF PoolInv, PoolTypes
<1>2. bptab[q].sem \in Nat /\ bptab[q].chain \in Seq(1..PoolBufs)
  BY <1>1 DEF PoolT
<1>3. /\ Len(bptab[q].chain) = bptab[q].sem + PoolIn(q, "take") + PoolIn(q, "signal")
      /\ ToSet(bptab[q].chain) = FreeBufs(q) /\ IsInjective(bptab[q].chain)
  BY DEF PoolInv, PoolsDivided, FreeBufs
<1> QED  BY <1>1, <1>2, <1>3 DEF Lists, ToSet, Range

(* What a step on pool q has to show.                                      *)
LEMMA PoolChange ==
    ASSUME PoolInv, NEW q \in DOMAIN bptab, NEW c \in PoolT, bptab' = [bptab EXCEPT ![q] = c],
           poolPc' \in [HeapProcs -> PcT'], bufHeld' \subseteq (DOMAIN bptab) \X (1..PoolBufs),
           \A r \in DOMAIN bptab \ {q} : /\ FreeBufs(r)' = FreeBufs(r)
                                         /\ PoolIn(r, "take")' = PoolIn(r, "take")
                                         /\ PoolIn(r, "signal")' = PoolIn(r, "signal"),
           Lists(c.chain, FreeBufs(q)', 1..PoolBufs),
           Len(c.chain) = c.sem + PoolIn(q, "take")' + PoolIn(q, "signal")'
    PROVE  PoolInv'
<1>1. bptab \in Seq(PoolT)
  BY DEF PoolInv, PoolTypes
<1>2. /\ bptab' \in Seq(PoolT) /\ DOMAIN bptab' = DOMAIN bptab /\ bptab'[q] = c
      /\ \A r \in DOMAIN bptab \ {q} : bptab'[r] = bptab[r]
  BY <1>1
<1>3. ASSUME NEW r \in DOMAIN bptab
      PROVE  /\ Lists(bptab'[r].chain, FreeBufs(r)', 1..PoolBufs)
             /\ Len(bptab'[r].chain)
                  = bptab'[r].sem + PoolIn(r, "take")' + PoolIn(r, "signal")'
  <2>1. CASE r = q
    BY <1>2, <2>1
  <2>2. CASE r # q
    BY <1>2, <2>2, PoolFacts
  <2> QED  BY <2>1, <2>2
<1>4. PoolsDivided'
  BY <1>2, <1>3 DEF PoolsDivided, FreeBufs, Lists, ToSet, Range
<1>5. bufHeld' \subseteq (DOMAIN bptab') \X (1..PoolBufs)
  BY <1>2
<1>6. PoolTypes'
  <2>1. bptab' \in Seq(PoolT) /\ PoolT' = PoolT
    BY <1>2 DEF PoolT
  <2> QED  BY <1>5, <2>1 DEF PoolTypes
<1> QED  BY <1>4, <1>6 DEF PoolInv

LEMMA PoolWait ==
    ASSUME PoolInv, NEW p \in HeapProcs, NEW q \in DOMAIN bptab, getbufWait(p, q) PROVE PoolInv'
<1> DEFINE b == bptab[q]
           c == [bptab[q] EXCEPT !.sem = @ - 1]
<1>0. bptab \in Seq(PoolT) /\ PoolTypes /\ bufHeld \subseteq (DOMAIN bptab) \X (1..PoolBufs)
  BY DEF PoolInv, PoolTypes
<1>1. /\ b \in PoolT /\ b.sem \in Nat /\ Lists(b.chain, FreeBufs(q), 1..PoolBufs)
      /\ Len(b.chain) = b.sem + PoolIn(q, "take") + PoolIn(q, "signal")
  BY PoolFacts
<1>2. /\ poolPc[p] = <<>> /\ b.sem > 0 /\ bptab' = [bptab EXCEPT ![q] = c]
      /\ poolPc' = [poolPc EXCEPT ![p] = <<"take", q>>] /\ bufHeld' = bufHeld
  BY DEF getbufWait
<1>3. c \in PoolT /\ c.sem = b.sem - 1 /\ c.chain = b.chain
  BY <1>1, <1>2 DEF PoolT
<1> HIDE DEF b, c
<1>4. DOMAIN bptab' = DOMAIN bptab
  BY <1>0, <1>2
<1>5. /\ poolPc' \in [HeapProcs -> PcT']
      /\ PoolIn(q, "take")' = PoolIn(q, "take") + 1
      /\ \A r, k : <<k, r>> # <<"take", q>> => PoolIn(r, k)' = PoolIn(r, k)
  BY <1>0, <1>2, <1>4, StepIn
<1>6. PoolIn(q, "take") \in Nat /\ PoolIn(q, "signal") \in Nat
  BY PoolInType
<1>7. PoolIn(q, "signal")' = PoolIn(q, "signal")
  BY <1>5
<1>8. \A r : FreeBufs(r)' = FreeBufs(r)
  BY <1>2 DEF FreeBufs
<1>9. Len(c.chain) = c.sem + PoolIn(q, "take")' + PoolIn(q, "signal")'
  BY <1>1, <1>3, <1>5, <1>6, <1>7
<1>10. \A r \in DOMAIN bptab \ {q} : /\ FreeBufs(r)' = FreeBufs(r)
                                     /\ PoolIn(r, "take")' = PoolIn(r, "take")
                                     /\ PoolIn(r, "signal")' = PoolIn(r, "signal")
  BY <1>5, <1>8
<1>11. Lists(c.chain, FreeBufs(q)', 1..PoolBufs)
  BY <1>1, <1>3, <1>8
<1> QED  BY <1>0, <1>2, <1>3, <1>5, <1>9, <1>10, <1>11, PoolChange

(* A buffer leaves the chain of pool q, which is not empty: the process    *)
(* that takes it was counted.                                              *)
LEMMA PoolTake ==
    ASSUME PoolInv, NEW q \in DOMAIN bptab, Len(bptab[q].chain) > 0,
           bufHeld' = bufHeld \cup {<<q, Head(bptab[q].chain)>>}
    PROVE  /\ Lists(Tail(bptab[q].chain), FreeBufs(q)', 1..PoolBufs)
           /\ Len(Tail(bptab[q].chain)) = Len(bptab[q].chain) - 1
           /\ bufHeld' \subseteq (DOMAIN bptab) \X (1..PoolBufs)
           /\ \A r \in DOMAIN bptab \ {q} : FreeBufs(r)' = FreeBufs(r)
<1> DEFINE d == bptab[q].chain
           i == Head(d)
<1>1. Lists(d, FreeBufs(q), 1..PoolBufs) /\ d # <<>>
  BY PoolFacts
<1>2. Lists(Tail(d), FreeBufs(q) \ {i}, 1..PoolBufs) /\ i \in FreeBufs(q) /\ Len(Tail(d)) = Len(d) - 1
  BY <1>1, TailLists
<1>3. bufHeld' = bufHeld \cup {<<q, i>>}
  OBVIOUS
<1> HIDE DEF d, i
<1>4. FreeBufs(q)' = FreeBufs(q) \ {i}
  BY <1>3 DEF FreeBufs
<1>5. i \in 1..PoolBufs
  BY <1>2 DEF FreeBufs
<1>6. bufHeld' \subseteq (DOMAIN bptab) \X (1..PoolBufs)
  BY <1>3, <1>5 DEF PoolInv, PoolTypes
<1>7. \A r \in DOMAIN bptab \ {q} : FreeBufs(r)' = FreeBufs(r)
  BY <1>3 DEF FreeBufs
<1> QED  BY <1>2, <1>4, <1>6, <1>7 DEF d

LEMMA CutFields ==
    ASSUME NEW b \in PoolT, Tail(b.chain) \in Seq(1..PoolBufs)
    PROVE  PoolCut(b) \in PoolT /\ PoolCut(b).sem = b.sem /\ PoolCut(b).chain = Tail(b.chain)
<1>1. b.sem \in Nat /\ b.maxused \in Nat /\ PoolBufs \in Nat
  BY HeapAssumption DEF PoolT
<1>2. PoolUsed(b) \in Nat
  BY <1>1 DEF PoolUsed
<1> QED  BY <1>2 DEF PoolCut, PoolT

(* getbuf after its semaphore.                                             *)
LEMMA PoolGetbuf ==
    ASSUME PoolInv, NEW p \in HeapProcs, NEW q \in DOMAIN bptab, getbuf(p, q) PROVE PoolInv'
<1> DEFINE b == bptab[q]
           c == PoolCut(bptab[q])
<1>0. bptab \in Seq(PoolT) /\ PoolTypes
  BY DEF PoolInv, PoolTypes
<1>1. /\ b \in PoolT /\ b.sem \in Nat /\ Lists(b.chain, FreeBufs(q), 1..PoolBufs)
      /\ Len(b.chain) = b.sem + PoolIn(q, "take") + PoolIn(q, "signal")
  BY PoolFacts
<1>2. /\ poolPc[p] = <<"take", q>> /\ bptab' = [bptab EXCEPT ![q] = c]
      /\ bufHeld' = bufHeld \cup {<<q, Head(b.chain)>>}
      /\ poolPc' = [poolPc EXCEPT ![p] = <<>>]
  BY DEF getbuf
<1>4. DOMAIN bptab' = DOMAIN bptab
  <2> HIDE DEF c
  <2> QED  BY <1>0, <1>2
<1>5. /\ poolPc' \in [HeapProcs -> PcT'] /\ PoolIn(q, "take") > 0
      /\ PoolIn(q, "take")' = PoolIn(q, "take") - 1
      /\ \A r, k : <<k, r>> # <<"take", q>> => PoolIn(r, k)' = PoolIn(r, k)
  BY <1>0, <1>2, <1>4, StepOut
<1>6. PoolIn(q, "take") \in Nat /\ PoolIn(q, "signal") \in Nat
  BY PoolInType
<1>7. PoolIn(q, "signal")' = PoolIn(q, "signal")
  BY <1>5
<1>8. Len(b.chain) > 0
  BY <1>1, <1>5, <1>6
<1>9. /\ Lists(Tail(b.chain), FreeBufs(q)', 1..PoolBufs)
      /\ Len(Tail(b.chain)) = Len(b.chain) - 1
      /\ bufHeld' \subseteq (DOMAIN bptab) \X (1..PoolBufs)
      /\ \A r \in DOMAIN bptab \ {q} : FreeBufs(r)' = FreeBufs(r)
  BY <1>2, <1>8, PoolTake
<1>3. c \in PoolT /\ c.sem = b.sem /\ c.chain = Tail(b.chain)
  <2>1. Tail(b.chain) \in Seq(1..PoolBufs)
    BY <1>9 DEF Lists
  <2> QED  BY <1>1, <2>1, CutFields
<1> HIDE DEF b, c
<1>10. Len(c.chain) = c.sem + PoolIn(q, "take")' + PoolIn(q, "signal")'
  BY <1>1, <1>3, <1>5, <1>6, <1>7, <1>9
<1>11. \A r \in DOMAIN bptab \ {q} : /\ FreeBufs(r)' = FreeBufs(r)
                                     /\ PoolIn(r, "take")' = PoolIn(r, "take")
                                     /\ PoolIn(r, "signal")' = PoolIn(r, "signal")
  BY <1>5, <1>9
<1>12. Lists(c.chain, FreeBufs(q)', 1..PoolBufs)
  BY <1>3, <1>9
<1> QED  BY <1>2, <1>3, <1>5, <1>9, <1>10, <1>11, <1>12, PoolChange

LEMMA PoolNbgetbuf ==
    ASSUME PoolInv, NEW p \in HeapProcs, NEW q \in DOMAIN bptab, nbgetbuf(p, q) PROVE PoolInv'
<1> DEFINE b == bptab[q]
           c == PoolCut([bptab[q] EXCEPT !.sem = @ - 1])
<1>0. bptab \in Seq(PoolT) /\ PoolTypes /\ poolPc \in [HeapProcs -> PcT]
  BY DEF PoolInv, PoolTypes
<1>1. /\ b \in PoolT /\ b.sem \in Nat /\ Lists(b.chain, FreeBufs(q), 1..PoolBufs)
      /\ Len(b.chain) = b.sem + PoolIn(q, "take") + PoolIn(q, "signal")
  BY PoolFacts
<1>2. /\ b.sem > 0 /\ bptab' = [bptab EXCEPT ![q] = c]
      /\ bufHeld' = bufHeld \cup {<<q, Head(b.chain)>>} /\ poolPc' = poolPc
  BY DEF nbgetbuf
<1>4. DOMAIN bptab' = DOMAIN bptab
  <2> HIDE DEF c
  <2> QED  BY <1>0, <1>2
<1>5. poolPc' \in [HeapProcs -> PcT'] /\ \A r, k : PoolIn(r, k)' = PoolIn(r, k)
  BY <1>0, <1>2, <1>4 DEF PoolIn, PcT
<1>6. PoolIn(q, "take") \in Nat /\ PoolIn(q, "signal") \in Nat
  BY PoolInType
<1>8. Len(b.chain) > 0
  BY <1>1, <1>2, <1>6
<1>9. /\ Lists(Tail(b.chain), FreeBufs(q)', 1..PoolBufs)
      /\ Len(Tail(b.chain)) = Len(b.chain) - 1
      /\ bufHeld' \subseteq (DOMAIN bptab) \X (1..PoolBufs)
      /\ \A r \in DOMAIN bptab \ {q} : FreeBufs(r)' = FreeBufs(r)
  BY <1>2, <1>8, PoolTake
<1>3. c \in PoolT /\ c.sem = b.sem - 1 /\ c.chain = Tail(b.chain)
  <2> DEFINE a == [bptab[q] EXCEPT !.sem = @ - 1]
  <2>1. a \in PoolT /\ a.sem = b.sem - 1 /\ a.chain = b.chain
    BY <1>1, <1>2 DEF PoolT
  <2>2. Tail(b.chain) \in Seq(1..PoolBufs)
    BY <1>9 DEF Lists
  <2>3. c = PoolCut(a)
    OBVIOUS
  <2> HIDE DEF a, b, c
  <2> QED  BY <2>1, <2>2, <2>3, CutFields
<1> HIDE DEF b, c
<1>10. Len(c.chain) = c.sem + PoolIn(q, "take")' + PoolIn(q, "signal")'
  BY <1>1, <1>3, <1>5, <1>6, <1>9
<1>11. \A r \in DOMAIN bptab \ {q} : /\ FreeBufs(r)' = FreeBufs(r)
                                     /\ PoolIn(r, "take")' = PoolIn(r, "take")
                                     /\ PoolIn(r, "signal")' = PoolIn(r, "signal")
  BY <1>5, <1>9
<1>12. Lists(c.chain, FreeBufs(q)', 1..PoolBufs)
  BY <1>3, <1>9
<1> QED  BY <1>2, <1>3, <1>5, <1>9, <1>10, <1>11, <1>12, PoolChange

(* A buffer is put before the chain.                                       *)
LEMMA PushLists ==
    ASSUME NEW T, NEW S, NEW d, Lists(d, S, T), NEW i \in T, i \notin S
    PROVE  Lists(<<i>> \o d, S \cup {i}, T) /\ Len(<<i>> \o d) = Len(d) + 1
<1> DEFINE e == <<i>>
           r == e \o d
           t == InsertAt(d, 1, i)
<1>1. d \in Seq(T) /\ Len(d) \in Nat /\ 1 \in 1..(Len(d) + 1)
  BY DEF Lists
<1>2. t \in Seq(T) /\ Len(t) = Len(d) + 1 /\ t[1] = i /\ \A j \in 1..Len(d) : t[j + 1] = d[j]
  BY <1>1, InsertAtElements
<1>3. e \in Seq(T) /\ Len(e) = 1 /\ e[1] = i
  OBVIOUS
<1> HIDE DEF e
<1>4. /\ r \in Seq(T) /\ Len(r) = Len(e) + Len(d)
      /\ \A j \in 1..Len(e) : r[j] = e[j]
      /\ \A k \in 1..Len(d) : r[Len(e) + k] = d[k]
  <2>1. e \in Seq(T) /\ d \in Seq(T)
    BY <1>1, <1>3
  <2> QED  BY <2>1, ConcatElements
<1> HIDE DEF r, t
<1>5. Len(t) = Len(r) /\ Len(r) = Len(d) + 1
  BY <1>1, <1>2, <1>3, <1>4
<1>6. ASSUME NEW j \in 1..Len(r) PROVE t[j] = r[j]
  <2>1. CASE j = 1
    BY <1>2, <1>3, <1>4, <2>1
  <2>2. CASE j # 1
    <3>1. j - 1 \in 1..Len(d) /\ (j - 1) + 1 = j /\ Len(e) + (j - 1) = j
      BY <1>1, <1>3, <1>5, <2>2
    <3>2. t[(j - 1) + 1] = d[j - 1] /\ r[Len(e) + (j - 1)] = d[j - 1]
      BY <1>2, <1>4, <3>1
    <3> QED  BY <3>1, <3>2
  <2> QED  BY <2>1, <2>2
<1>7. t = r
  BY <1>2, <1>4, <1>5, <1>6, SeqEqual
<1>8. Lists(t, S \cup {i}, T)
  BY <1>1, InsertLists DEF t
<1> QED  BY <1>5, <1>7, <1>8 DEF r, e

LEMMA PoolFreebuf ==
    ASSUME PoolInv, NEW p \in HeapProcs, NEW q \in DOMAIN bptab, NEW i \in 1..PoolBufs,
           freebuf(p, q, i)
    PROVE  PoolInv'
<1> DEFINE b == bptab[q]
           c == [bptab[q] EXCEPT !.chain = <<i>> \o @]
<1>0. /\ bptab \in Seq(PoolT) /\ PoolTypes
      /\ bufHeld \subseteq (DOMAIN bptab) \X (1..PoolBufs)
  BY DEF PoolInv, PoolTypes
<1>1. /\ b \in PoolT /\ b.sem \in Nat /\ Lists(b.chain, FreeBufs(q), 1..PoolBufs)
      /\ Len(b.chain) = b.sem + PoolIn(q, "take") + PoolIn(q, "signal")
  BY PoolFacts
<1>2. /\ poolPc[p] = <<>> /\ <<q, i>> \in bufHeld /\ bptab' = [bptab EXCEPT ![q] = c]
      /\ bufHeld' = bufHeld \ {<<q, i>>}
      /\ poolPc' = [poolPc EXCEPT ![p] = <<"signal", q>>]
  BY DEF freebuf
<1>3. /\ Lists(<<i>> \o b.chain, FreeBufs(q) \cup {i}, 1..PoolBufs)
      /\ Len(<<i>> \o b.chain) = Len(b.chain) + 1
  <2>1. i \notin FreeBufs(q)
    BY <1>2 DEF FreeBufs
  <2> QED  BY <1>1, <2>1, PushLists, ZenonT(50)
<1>4. c \in PoolT /\ c.sem = b.sem /\ c.chain = <<i>> \o b.chain
  BY <1>1, <1>3 DEF PoolT, Lists
<1> HIDE DEF b, c
<1>5. DOMAIN bptab' = DOMAIN bptab
  BY <1>0, <1>2
<1>6. /\ poolPc' \in [HeapProcs -> PcT']
      /\ PoolIn(q, "signal")' = PoolIn(q, "signal") + 1
      /\ \A r, k : <<k, r>> # <<"signal", q>> => PoolIn(r, k)' = PoolIn(r, k)
  BY <1>0, <1>2, <1>5, StepIn
<1>7. /\ PoolIn(q, "take") \in Nat /\ PoolIn(q, "signal") \in Nat
      /\ PoolIn(q, "take")' = PoolIn(q, "take")
  BY <1>6, PoolInType
<1>8. FreeBufs(q)' = FreeBufs(q) \cup {i} /\ \A r \in DOMAIN bptab \ {q} : FreeBufs(r)' = FreeBufs(r)
  BY <1>2 DEF FreeBufs
<1>9. Len(c.chain) = c.sem + PoolIn(q, "take")' + PoolIn(q, "signal")'
  BY <1>1, <1>3, <1>4, <1>6, <1>7
<1>10. \A r \in DOMAIN bptab \ {q} : /\ FreeBufs(r)' = FreeBufs(r)
                                     /\ PoolIn(r, "take")' = PoolIn(r, "take")
                                     /\ PoolIn(r, "signal")' = PoolIn(r, "signal")
  BY <1>6, <1>8
<1>11. Lists(c.chain, FreeBufs(q)', 1..PoolBufs)
  BY <1>3, <1>4, <1>8
<1>12. bufHeld' \subseteq (DOMAIN bptab) \X (1..PoolBufs)
  BY <1>0, <1>2
<1> QED  BY <1>2, <1>4, <1>6, <1>9, <1>10, <1>11, <1>12, PoolChange

LEMMA PoolSignal ==
    ASSUME PoolInv, NEW p \in HeapProcs, NEW q \in DOMAIN bptab, freebufSignal(p, q)
    PROVE  PoolInv'
<1> DEFINE b == bptab[q]
           c == [bptab[q] EXCEPT !.sem = @ + 1]
<1>0. /\ bptab \in Seq(PoolT) /\ PoolTypes
      /\ bufHeld \subseteq (DOMAIN bptab) \X (1..PoolBufs)
  BY DEF PoolInv, PoolTypes
<1>1. /\ b \in PoolT /\ b.sem \in Nat /\ Lists(b.chain, FreeBufs(q), 1..PoolBufs)
      /\ Len(b.chain) = b.sem + PoolIn(q, "take") + PoolIn(q, "signal")
  BY PoolFacts
<1>2. /\ poolPc[p] = <<"signal", q>> /\ bptab' = [bptab EXCEPT ![q] = c]
      /\ poolPc' = [poolPc EXCEPT ![p] = <<>>] /\ bufHeld' = bufHeld
  BY DEF freebufSignal
<1>3. c \in PoolT /\ c.sem = b.sem + 1 /\ c.chain = b.chain
  BY <1>1 DEF PoolT
<1> HIDE DEF b, c
<1>4. DOMAIN bptab' = DOMAIN bptab
  BY <1>0, <1>2
<1>5. /\ poolPc' \in [HeapProcs -> PcT']
      /\ PoolIn(q, "signal")' = PoolIn(q, "signal") - 1
      /\ \A r, k : <<k, r>> # <<"signal", q>> => PoolIn(r, k)' = PoolIn(r, k)
  BY <1>0, <1>2, <1>4, StepOut
<1>6. /\ PoolIn(q, "take") \in Nat /\ PoolIn(q, "signal") \in Nat
      /\ PoolIn(q, "take")' = PoolIn(q, "take")
  BY <1>5, PoolInType
<1>7. \A r : FreeBufs(r)' = FreeBufs(r)
  BY <1>2 DEF FreeBufs
<1>8. Len(c.chain) = c.sem + PoolIn(q, "take")' + PoolIn(q, "signal")'
  BY <1>1, <1>3, <1>5, <1>6
<1>9. \A r \in DOMAIN bptab \ {q} : /\ FreeBufs(r)' = FreeBufs(r)
                                    /\ PoolIn(r, "take")' = PoolIn(r, "take")
                                    /\ PoolIn(r, "signal")' = PoolIn(r, "signal")
  BY <1>5, <1>7
<1>10. Lists(c.chain, FreeBufs(q)', 1..PoolBufs)
  BY <1>1, <1>3, <1>7
<1> QED  BY <1>0, <1>2, <1>3, <1>5, <1>8, <1>9, <1>10, PoolChange

(* mkpool: a new pool has all its buffers, and nobody is in a step on it.  *)
LEMMA PoolMake == ASSUME PoolInv, mkpool PROVE PoolInv'
<1> DEFINE full == [i \in 1..PoolBufs |-> i]
           c == [sem |-> PoolBufs, maxused |-> 0, chain |-> full]
<1>n. PICK n \in Nat : n = Len(bptab)
  BY DEF PoolInv, PoolTypes
<1>0. /\ bptab \in Seq(PoolT) /\ poolPc \in [HeapProcs -> PcT] /\ DOMAIN bptab = 1..n
      /\ bufHeld \subseteq (DOMAIN bptab) \X (1..PoolBufs)
  BY <1>n DEF PoolInv, PoolTypes
<1>1. bptab' = Append(bptab, c) /\ bufHeld' = bufHeld /\ poolPc' = poolPc
  BY DEF mkpool
<1>2. PoolBufs \in Nat /\ full \in Seq(1..PoolBufs) /\ Len(full) = PoolBufs
  BY HeapAssumption
<1>3. c \in PoolT /\ c.sem = PoolBufs /\ c.chain = full
  BY <1>2 DEF PoolT
<1>4. Lists(full, 1..PoolBufs, 1..PoolBufs)
  BY <1>2 DEF Lists, IsInjective, Range
<1> HIDE DEF c, full
<1>5. /\ bptab' \in Seq(PoolT) /\ DOMAIN bptab' = 1..(n + 1) /\ bptab'[n + 1] = c
      /\ \A r \in 1..n : bptab'[r] = bptab[r]
  BY <1>n, <1>0, <1>1, <1>3
<1>6. poolPc' \in [HeapProcs -> PcT']
  BY <1>0, <1>1, <1>5 DEF PcT
<1>7. bufHeld' \subseteq (DOMAIN bptab') \X (1..PoolBufs)
  BY <1>0, <1>1, <1>5
<1>8. PoolTypes'
  BY <1>5, <1>6, <1>7 DEF PoolTypes, PoolT
<1>9. ASSUME NEW l PROVE PoolIn(n + 1, l)' = 0
  <2>1. ASSUME NEW p \in HeapProcs PROVE poolPc'[p] # <<l, n + 1>>
    <3>1. poolPc'[p] \in PcT /\ n + 1 \notin DOMAIN bptab
      BY <1>0, <1>1
    <3>2. <<>> # <<l, n + 1>> /\ <<l, n + 1>> \notin {"take", "signal"} \X DOMAIN bptab
      BY <3>1
    <3> QED  BY <3>1, <3>2 DEF PcT
  <2>2. InStep(n + 1, l)' = {}
    BY <2>1 DEF InStep
  <2> QED  BY <2>2, FS_EmptySet DEF PoolIn, InStep
<1>10. FreeBufs(n + 1)' = 1..PoolBufs
  BY <1>0, <1>1 DEF FreeBufs
<1>11. \A r \in 1..n, l \in {"take", "signal"} :
         FreeBufs(r)' = FreeBufs(r) /\ PoolIn(r, l)' = PoolIn(r, l)
  BY <1>1 DEF FreeBufs, PoolIn
<1>12. ASSUME NEW r \in DOMAIN bptab'
       PROVE  /\ Lists(bptab'[r].chain, FreeBufs(r)', 1..PoolBufs)
              /\ Len(bptab'[r].chain)
                   = bptab'[r].sem + PoolIn(r, "take")' + PoolIn(r, "signal")'
  <2>1. CASE r = n + 1
    <3>1. PoolIn(n + 1, "take")' = 0 /\ PoolIn(n + 1, "signal")' = 0
      BY <1>9
    <3>2. bptab'[r].chain = full /\ bptab'[r].sem = PoolBufs
      BY <1>3, <1>5, <2>1
    <3>3. FreeBufs(r)' = 1..PoolBufs /\ PoolIn(r, "take")' = 0 /\ PoolIn(r, "signal")' = 0
      BY <1>10, <2>1, <3>1
    <3> QED  BY <1>2, <1>4, <3>2, <3>3
  <2>2. CASE r # n + 1
    <3>1. r \in 1..n /\ r \in DOMAIN bptab
      BY <1>0, <1>5, <2>2
    <3>2. /\ Lists(bptab[r].chain, FreeBufs(r), 1..PoolBufs)
          /\ Len(bptab[r].chain) = bptab[r].sem + PoolIn(r, "take") + PoolIn(r, "signal")
      BY <3>1, PoolFacts
    <3> QED  BY <1>5, <1>11, <3>1, <3>2
  <2> QED  BY <2>1, <2>2
<1>13. PoolsDivided'
  BY <1>12 DEF PoolsDivided, FreeBufs, Lists, ToSet, Range
<1> QED  BY <1>8, <1>13 DEF PoolInv

-----------------------------------------------------------------------------
HeapInv == MemInv /\ PoolInv

LEMMA HeapStart == HeapInit => HeapInv
<1> SUFFICES ASSUME HeapInit PROVE HeapInv
  OBVIOUS
<1> DEFINE z == Block(0, HeapWords)
<1>1. HeapWords \in Nat \ {0}
  BY HeapAssumption
<1>2. z \in FreeT /\ z.addr = 0 /\ End(z) = HeapWords
  BY <1>1 DEF Block, FreeT, End
<1>3. memlist = <<z>> /\ heapUsed = {} /\ heapLost = {} /\ bptab = <<>> /\ bufHeld = {}
  BY DEF HeapInit
<1> HIDE DEF z
<1>4. memlist \in Seq(FreeT) /\ DOMAIN memlist = {1} /\ memlist[1] = z
  BY <1>2, <1>3
<1>5. HeapBlocks = {z}
  BY <1>3, <1>4 DEF HeapBlocks, ToSet
<1>6. MemInv
  <2>1. MemTypes
    BY <1>3, <1>4 DEF MemTypes
  <2>2. \A i, j \in DOMAIN memlist : i < j => End(memlist[i]) < memlist[j].addr
    BY <1>4
  <2>3. \A w \in 0..(HeapWords - 1) : z.addr <= w /\ w < End(z)
    BY <1>1, <1>2
  <2>4. End(z) <= HeapWords
    BY <1>1, <1>2
  <2> QED  BY <1>3, <1>5, <2>1, <2>2, <2>3, <2>4 DEF MemInv, MemDivided
<1>7. PoolInv
  <2>1. bptab \in Seq(PoolT) /\ DOMAIN bptab = {}
    BY <1>3
  <2>2. poolPc \in [HeapProcs -> PcT]
    BY DEF HeapInit, PcT
  <2> QED  BY <1>3, <2>1, <2>2 DEF PoolInv, PoolTypes, PoolsDivided
<1> QED  BY <1>6, <1>7 DEF HeapInv

LEMMA MemKeeps == ASSUME MemInv, UNCHANGED <<memlist, heapUsed, heapLost>> PROVE MemInv'
  BY DEF MemInv, MemTypes, MemDivided, HeapBlocks

LEMMA PoolKeeps == ASSUME PoolInv, UNCHANGED <<bptab, bufHeld, poolPc>> PROVE PoolInv'
  BY DEF PoolInv, PoolTypes, PcT, PoolsDivided, PoolIn

LEMMA HeapStep == HeapInv /\ [HeapNext]_heapVars => HeapInv'
<1> SUFFICES ASSUME HeapInv, [HeapNext]_heapVars PROVE HeapInv'
  OBVIOUS
<1>0. MemInv /\ PoolInv
  BY DEF HeapInv
<1>1. ASSUME NEW n \in HeapSizes, getmem(n) PROVE HeapInv'
  <2>1. UNCHANGED <<heapLost, bptab, bufHeld, poolPc>>
    BY <1>1 DEF getmem
  <2>2. roundmb(n) \in Nat \ {0} /\ roundmb(n) % 2 = 0
    BY Rounding, HeapAssumption
  <2>3. HeapGet(roundmb(n), "mem") \/ UNCHANGED <<memlist, heapUsed>>
    BY <1>1 DEF getmem
  <2>4. MemInv'
    BY <1>0, <2>1, <2>2, <2>3, MemGet, MemKeeps
  <2> QED  BY <1>0, <2>1, <2>4, PoolKeeps DEF HeapInv
<1>2. ASSUME NEW n \in HeapStks, getstk(n) PROVE HeapInv'
  <2>1. UNCHANGED <<bptab, bufHeld, poolPc>>
    BY <1>2 DEF getstk
  <2>2. MemInv'
    BY <1>0, <1>2, MemGetstk
  <2> QED  BY <1>0, <2>1, <2>2, PoolKeeps DEF HeapInv
<1>3. ASSUME NEW u \in heapUsed, freemem(u) PROVE HeapInv'
  <2>1. UNCHANGED <<bptab, bufHeld, poolPc>>
    BY <1>3 DEF freemem
  <2>2. MemInv'
    BY <1>0, <1>3, MemFree
  <2> QED  BY <1>0, <2>1, <2>2, PoolKeeps DEF HeapInv
<1>4. ASSUME mkpool PROVE HeapInv'
  <2>1. HeapGet(roundmb(2 * PoolBufs), "pool") /\ heapLost' = heapLost
    BY <1>4 DEF mkpool
  <2>2. 2 * PoolBufs \in Nat \ {0}
    BY HeapAssumption
  <2>3. roundmb(2 * PoolBufs) \in Nat \ {0} /\ roundmb(2 * PoolBufs) % 2 = 0
    BY <2>2, Rounding
  <2>4. MemInv'
    BY <1>0, <2>1, <2>3, MemGet
  <2> QED  BY <1>0, <1>4, <2>4, PoolMake DEF HeapInv
<1>5. ASSUME NEW p \in HeapProcs, NEW q \in DOMAIN bptab,
             \/ getbufWait(p, q) \/ getbuf(p, q) \/ nbgetbuf(p, q)
             \/ \E i \in 1..PoolBufs : freebuf(p, q, i)
             \/ freebufSignal(p, q)
      PROVE  HeapInv'
  <2>1. UNCHANGED <<memlist, heapUsed, heapLost>>
    BY <1>5 DEF getbufWait, getbuf, nbgetbuf, freebuf, freebufSignal
  <2>2. PoolInv'
    BY <1>0, <1>5, PoolWait, PoolGetbuf, PoolNbgetbuf, PoolFreebuf, PoolSignal
  <2> QED  BY <1>0, <2>1, <2>2, MemKeeps DEF HeapInv
<1>6. CASE UNCHANGED heapVars
  BY <1>0, <1>6, MemKeeps, PoolKeeps DEF HeapInv, heapVars
<1> QED  BY <1>1, <1>2, <1>3, <1>4, <1>5, <1>6 DEF HeapNext

(* HeapDivided holds in every reachable state: however calls of getmem,    *)
(* getstk, freemem, getbuf, nbgetbuf and freebuf interleave, every word of *)
(* memory is in exactly one block that is free, handed out or was refused  *)
(* by freemem, and every buffer of a pool is on its chain once or held,    *)
(* with the chain as long as its semaphore promises.                       *)
THEOREM HeapCorrect == HeapSpec => []HeapDivided
<1>1. HeapInv => HeapDivided
  BY DEF HeapInv, MemInv, PoolInv, HeapDivided
<1> QED  BY <1>1, HeapStart, HeapStep, PTL DEF HeapSpec

-----------------------------------------------------------------------------
(* Start-up.                                                               *)

(* Where a job stands: before its configuration is final, and after.       *)
EarlyPCs == {"auth", "sgd", "init", "xconfig", "xfigger", "lines", "iface", "gateway"}
CtcPCs == {"ctcread", "ctcwrite"}
SuPCs == EarlyPCs \cup CtcPCs \cup {"devices", "run", "ended"}

-----------------------------------------------------------------------------
(* The SGD and the XGDs.  A job that has not got its XGD yet has none of   *)
(* its number; every other one in common storage is of an earlier job.     *)
SgdInv ==
    /\ suPc \in SuPCs
    /\ suJob \in Nat /\ sgd \in Nat /\ \A j \in xgds : j \in 1..suJob
    /\ suPc # "ended" => suEnd = "none" /\ suJob # 0
    /\ suPc \in {"auth", "sgd"} => suJob \notin xgds
    /\ suPc = "sgd" => ~suSwap
    /\ SgdValid

(* A step of the job that leaves the MVS control blocks alone, and does    *)
(* not go back before the XGD.                                             *)
LEMMA SgdKept ==
    ASSUME SgdInv, UNCHANGED suMvs,
           \/ UNCHANGED <<suPc, suEnd>>
           \/ suPc' = "ended" /\ suEnd' \in {"exit", "abend", "return"}
           \/ /\ suPc \notin {"auth", "sgd", "ended"} /\ suEnd' = suEnd
              /\ suPc' \in SuPCs \ {"auth", "sgd", "ended"}
    PROVE  SgdInv'
  BY DEF SgdInv, SgdValid, suMvs, SuPCs, EarlyPCs, CtcPCs

LEMMA SgdStep == SgdInv /\ [SuNext]_suVars => SgdInv'
<1> SUFFICES ASSUME SgdInv, [SuNext]_suVars PROVE SgdInv'
  OBVIOUS
<1>1. CASE SuStart
  <2>1. /\ suPc' = "auth" /\ suEnd' = "none" /\ suJob' = suJob + 1
        /\ sgd' = sgd /\ xgds' = xgds
    BY <1>1 DEF SuStart
  <2> QED  BY <2>1 DEF SgdInv, SgdValid, SuPCs, EarlyPCs
<1>2. CASE SysAuth
  <2>1. CASE SuLeave("exit") /\ UNCHANGED suSwap
    BY <1>2, <2>1, SgdKept DEF SysAuth, SuLeave, suMvs
  <2>2. CASE SuGo("sgd") /\ suSwap' = FALSE
    BY <1>2, <2>2 DEF SysAuth, SuAt, SuGo, SgdInv, SgdValid, SuPCs, EarlyPCs
  <2> QED  BY <1>2, <2>1, <2>2 DEF SysAuth
<1>3. CASE SysXgd
  <2>1. CASE SuLeave("exit") /\ UNCHANGED <<sgd, xgds>>
    BY <1>3, <2>1, SgdKept DEF SysXgd, SuLeave, suMvs
  <2>2. CASE SuGo("init") /\ sgd' = suJob /\ xgds' = xgds \cup {suJob}
    <3>1. /\ suPc = "sgd" /\ suPc' = "init" /\ suEnd' = suEnd /\ suJob' = suJob /\ suSwap' = suSwap
      BY <1>3, <2>2 DEF SysXgd, SuAt, SuGo
    <3>2. suJob # 0 => suJob \in 1..suJob
      BY DEF SgdInv
    <3>3. suJob # 0
      BY <3>1 DEF SgdInv
    <3> QED  BY <2>2, <3>1, <3>2, <3>3 DEF SgdInv, SgdValid, SuPCs, EarlyPCs
  <2> QED  BY <1>3, <2>1, <2>2 DEF SysXgd
<1>4. CASE SysInit
  BY <1>4, SgdKept DEF SysInit, SuPanic, SuLeave, SuGo, SuAt, suMvs, SuPCs, EarlyPCs, CtcPCs
<1>5. CASE xconfig
  BY <1>5, SgdKept DEF xconfig, SuGo, SuAt, suMvs, SuPCs, EarlyPCs, CtcPCs
<1>6. CASE xfigger
  BY <1>6, SgdKept DEF xfigger, SuGo, SuAt, suMvs, SuPCs, EarlyPCs, CtcPCs
<1>7. CASE \E line \in SuLines : xfigline(line)
  BY <1>7, SgdKept DEF xfigline, SuGo, SuAt, suMvs, SuPCs, EarlyPCs, CtcPCs
<1>8. CASE xfig_gate
  BY <1>8, SgdKept DEF xfig_gate, FigNext, SuAt, suMvs, SuPCs, EarlyPCs, CtcPCs
<1>9. CASE xfig_iface
  <2>1. UNCHANGED suMvs /\ (FigPast \/ FigNext)
    BY <1>9 DEF xfig_iface, xfig_ifaceWord, xfig_ifaceNumber, xfig_ifaceType, xfig_ifaceAddr,
       xfig_ifaceHalf
  <2> QED  BY <2>1, SgdKept DEF FigPast, FigNext, SuLeave
<1>10. CASE FigDone
  BY <1>10, SgdKept DEF FigDone, SuGo, SuAt, suMvs, SuPCs, EarlyPCs, CtcPCs
<1>11. CASE xdevinit
  BY <1>11, SgdKept DEF xdevinit, suMvs, SuPCs, EarlyPCs, CtcPCs
<1>12. CASE ctci_init
  BY <1>12, SgdKept DEF ctci_init, SuGo, SuAt, suMvs, SuPCs, EarlyPCs, CtcPCs
<1>13. CASE \E h \in Halves : ctci_resume(h)
  BY <1>13, SgdKept DEF ctci_resume, SuPanic, SuLeave, SuGo, SuAt, suMvs, SuPCs, EarlyPCs,
     CtcPCs
<1>14. CASE SysNet
  BY <1>14, SgdKept DEF SysNet, SuGo, SuAt, suMvs, SuPCs, EarlyPCs, CtcPCs
<1>15. CASE \E x \in 0..(Neth - 1) : SuChannelEnd(x) \/ SuNextRead(x)
  BY <1>15, SgdKept, ZenonT(40) DEF SuChannelEnd, SuNextRead, SuPanic, SuLeave, suMvs, SuPCs, EarlyPCs,
     CtcPCs
<1>16. CASE SuResched
  BY <1>16, SgdKept DEF SuResched, suMvs, SuPCs, EarlyPCs, CtcPCs
<1>17. CASE SuKill
  <2>1. /\ suPc = "run" /\ suJob' = suJob
    BY <1>17 DEF SuKill, SuAt
  <2>2. CASE xdone
    BY <2>1, <2>2 DEF xdone, SuLeave, SgdInv, SgdValid, SuPCs
  <2>3. CASE UNCHANGED <<sgd, xgds, suSwap, suPc, suEnd>>
    BY <2>1, <2>3, SgdKept DEF suMvs
  <2> QED  BY <1>17, <2>2, <2>3 DEF SuKill
<1>18. CASE SuShut
  BY <1>18, SgdKept DEF SuShut, suMvs, SuPCs, EarlyPCs, CtcPCs
<1>19. CASE SuMain
  BY <1>19, SgdKept DEF SuMain, SuLeave, suMvs, SuPCs, EarlyPCs, CtcPCs
<1>20. CASE SuAt("run") /\ SuPanic
  BY <1>20, SgdKept DEF SuPanic, SuLeave, suMvs, SuPCs, EarlyPCs, CtcPCs
<1>21. CASE UNCHANGED suVars
  BY <1>21, SgdKept DEF suVars, suMvs, SuPCs, EarlyPCs, CtcPCs
<1> QED
  BY <1>1, <1>2, <1>3, <1>4, <1>5, <1>6, <1>7, <1>8, <1>9, <1>10, <1>11, <1>12, <1>13, <1>14,
     <1>15, <1>16, <1>17, <1>18, <1>19, <1>20, <1>21 DEF SuNext

(* SgdValid, for every number of jobs and every way in which they end.     *)
THEOREM SgdCorrect == SuSpec => []SgdValid
<1>1. SuInit => SgdInv
  BY DEF SuInit, SgdInv, SgdValid, SuPCs
<1>2. SgdInv => SgdValid
  BY DEF SgdInv
<1> QED  BY <1>1, <1>2, SgdStep, PTL DEF SuSpec

-----------------------------------------------------------------------------
(* The configuration: whatever the lines say, and whatever the statics of  *)
(* xfig_iface were left at, Config keeps its shape.                        *)
FigWords ==     \* what a field of the defaults, or a token, may be
    {"", "0", "LOOP", "127.0.0.1", "255.0.0.0", "192.168.200.1", "255.255.255.0", "192.168.0.1",
     "CTC500", "500", "CTC501", "501", "10.11.12.1", "CTC502", "504", "CTC5053", "505",
     "192.168.254.30", "CTC504", "510", "CTC505", "511"}
    \cup UNION {ToSet(line) : line \in SuLines}
NifFields == {"type", "ip", "mask", "gwip", "readdd", "readcuu", "writedd", "writecuu"}
NifType ==
    [type : FigWords, enabled : BOOLEAN, dfgw : BOOLEAN, ip : FigWords, mask : FigWords,
     gwip : FigWords, readdd : FigWords, readcuu : FigWords, writedd : FigWords, writecuu : FigWords]

ConfigInv ==
    /\ Config \in [megate : BOOLEAN, nif : [Nifs -> NifType]]
    /\ suTok \in Seq(FigWords)
    /\ suHalf # <<>> => suHalf[2] \in Halves

LEMMA DefaultsType == FigDefaults \in [megate : BOOLEAN, nif : [Nifs -> NifType]]
<1> DEFINE nif == FigDefaults.nif
<1>1. \A n \in Nifs : nif[n] \in NifType
  <2>1. ASSUME NEW e \in BOOLEAN, NEW ip \in FigWords, NEW mask \in FigWords, NEW rdd \in FigWords,
               NEW rcuu \in FigWords, NEW wdd \in FigWords, NEW wcuu \in FigWords
        PROVE  fignif(e, ip, mask, rdd, rcuu, wdd, wcuu) \in NifType
    <3>1. "LOOP" \in FigWords /\ "0" \in FigWords
      BY DEF FigWords
    <3> QED  BY <3>1 DEF fignif, NifType
  <2>2. nif[0] \in NifType
    <3>1. nif[0] = fignif(TRUE, "127.0.0.1", "255.0.0.0", "LOOP", "0", "LOOP", "0")
      BY DEF FigDefaults, Nifs
    <3> QED  BY <2>1, <3>1 DEF FigWords
  <2>3. nif[1] \in NifType
    <3> DEFINE r == fignif(TRUE, "192.168.200.1", "255.255.255.0", "CTC500", "500", "CTC501", "501")
    <3>1. nif[1] = [r EXCEPT !.gwip = "192.168.0.1", !.dfgw = TRUE]
      BY DEF FigDefaults, Nifs
    <3>2. r \in NifType
      BY <2>1 DEF FigWords
    <3> HIDE DEF r
    <3>3. [r EXCEPT !.gwip = "192.168.0.1", !.dfgw = TRUE] \in NifType
      <4>1. "192.168.0.1" \in FigWords
        BY DEF FigWords
      <4> QED  BY <3>2, <4>1 DEF NifType
    <3> QED  BY <3>1, <3>3
  <2>4. nif[2] \in NifType
    <3>1. nif[2] = fignif(FALSE, "10.11.12.1", "255.0.0.0", "CTC502", "504", "CTC5053", "505")
      BY DEF FigDefaults, Nifs
    <3> QED  BY <2>1, <3>1 DEF FigWords
  <2>5. nif[3] \in NifType
    <3>1. nif[3] = fignif(FALSE, "192.168.254.30", "255.255.255.0", "CTC504", "510", "CTC505", "511")
      BY DEF FigDefaults, Nifs
    <3> QED  BY <2>1, <3>1 DEF FigWords
  <2> QED  BY <2>2, <2>3, <2>4, <2>5 DEF Nifs
<1>2. nif \in [Nifs -> NifType]
  BY <1>1 DEF FigDefaults
<1> QED  BY <1>2 DEF FigDefaults

(* A field given a string, or a truth value, in whatever entry of nif.     *)
LEMMA NifText ==
    ASSUME NEW C \in [megate : BOOLEAN, nif : [Nifs -> NifType]], NEW n,
           NEW f \in NifFields, NEW v \in FigWords
    PROVE  [C EXCEPT !.nif[n][f] = v] \in [megate : BOOLEAN, nif : [Nifs -> NifType]]
<1>1. \A r \in NifType : [r EXCEPT ![f] = v] \in NifType
  BY DEF NifType, NifFields
<1>2. [C.nif EXCEPT ![n] = [C.nif[n] EXCEPT ![f] = v]] \in [Nifs -> NifType]
  BY <1>1
<1>3. [C EXCEPT !.nif[n][f] = v] = [C EXCEPT !.nif = [C.nif EXCEPT ![n] = [C.nif[n] EXCEPT ![f] = v]]]
  OBVIOUS
<1> QED  BY <1>2, <1>3

LEMMA NifFlag ==
    ASSUME NEW C \in [megate : BOOLEAN, nif : [Nifs -> NifType]], NEW n,
           NEW f \in {"enabled", "dfgw"}, NEW v \in BOOLEAN
    PROVE  [C EXCEPT !.nif[n][f] = v] \in [megate : BOOLEAN, nif : [Nifs -> NifType]]
<1>1. \A r \in NifType : [r EXCEPT ![f] = v] \in NifType
  BY DEF NifType
<1>2. [C.nif EXCEPT ![n] = [C.nif[n] EXCEPT ![f] = v]] \in [Nifs -> NifType]
  BY <1>1
<1>3. [C EXCEPT !.nif[n][f] = v] = [C EXCEPT !.nif = [C.nif EXCEPT ![n] = [C.nif[n] EXCEPT ![f] = v]]]
  OBVIOUS
<1> QED  BY <1>2, <1>3

LEMMA OperandType == ASSUME ConfigInv PROVE FigOperand \in FigWords
<1>1. Len(suTok) > 1 => suTok[2] \in FigWords
  BY DEF ConfigInv
<1>2. "0" \in FigWords
  BY DEF FigWords
<1> QED  BY <1>1, <1>2 DEF FigOperand

LEMMA TokType ==
    ASSUME ConfigInv, FigPast \/ (FigNext /\ suTok # <<>>) PROVE suTok' \in Seq(FigWords)
<1>0. suTok \in Seq(FigWords)
  BY DEF ConfigInv
<1>1. suTok # <<>> => Tail(suTok) \in Seq(FigWords) /\ Len(Tail(suTok)) = Len(suTok) - 1
  BY <1>0
<1>2. Len(suTok) > 1 => suTok # <<>> /\ Tail(suTok) # <<>>
  <2>1. Len(<<>>) = 0 /\ Len(suTok) \in Nat
    BY <1>0
  <2>2. Len(suTok) > 1 => Len(suTok) - 1 # 0 /\ Len(suTok) # 0
    BY <2>1
  <2> QED  BY <1>1, <2>1, <2>2
<1>3. Len(suTok) > 1 => Tail(Tail(suTok)) \in Seq(FigWords)
  BY <1>1, <1>2
<1>4. <<>> \in Seq(FigWords)
  OBVIOUS
<1> QED  BY <1>1, <1>3, <1>4 DEF FigPast, FigNext

LEMMA ConfigKept ==
    ASSUME ConfigInv, UNCHANGED <<Config, suTok, suHalf>> PROVE ConfigInv'
  BY DEF ConfigInv

LEMMA ConfigIface == ConfigInv /\ xfig_iface => ConfigInv'
<1> SUFFICES ASSUME ConfigInv, xfig_iface PROVE ConfigInv'
  OBVIOUS
<1>c. Config \in [megate : BOOLEAN, nif : [Nifs -> NifType]]
  BY DEF ConfigInv
<1>0. suTok' \in Seq(FigWords)
  <2>1. FigPast \/ (FigNext /\ suTok # <<>>)
    BY DEF xfig_iface, xfig_ifaceWord, xfig_ifaceNumber, xfig_ifaceType, xfig_ifaceAddr,
           xfig_ifaceHalf
  <2> QED  BY <2>1, TokType
<1>1. Config' \in [megate : BOOLEAN, nif : [Nifs -> NifType]]
  <2>1. CASE xfig_ifaceWord
    BY <1>c, <2>1, NifFlag DEF xfig_ifaceWord, FigSet
  <2>2. CASE xfig_ifaceNumber
    BY <1>c, <2>2 DEF xfig_ifaceNumber
  <2>3. CASE xfig_ifaceType
    <3>1. "type" \in NifFields
      BY DEF NifFields
    <3>2. CASE FigSet("type", FigOperand)
      BY <1>c, <3>1, <3>2, NifText, OperandType DEF FigSet
    <3>3. CASE FigSet("enabled", FALSE)
      BY <1>c, <3>3, NifFlag DEF FigSet
    <3> QED  BY <2>3, <3>2, <3>3 DEF xfig_ifaceType
  <2>4. CASE xfig_ifaceAddr
    <3>1. CASE FigIs({"ip", "mask"}) /\ FigSet(suTok[1], FigOperand)
      <4>1. suTok[1] \in NifFields
        BY <3>1 DEF FigIs, NifFields
      <4> QED  BY <1>c, <3>1, <4>1, NifText, OperandType DEF FigSet
    <3>2. CASE Config' = [Config EXCEPT !.nif[suIface].gwip = FigOperand, !.nif[suIface].dfgw = TRUE]
      <4> DEFINE C == [Config EXCEPT !.nif[suIface]["gwip"] = FigOperand]
      <4>1. C \in [megate : BOOLEAN, nif : [Nifs -> NifType]]
        BY <1>c, NifText, OperandType DEF NifFields
      <4>2. [C EXCEPT !.nif[suIface]["dfgw"] = TRUE] \in [megate : BOOLEAN, nif : [Nifs -> NifType]]
        BY <4>1, NifFlag
      <4> QED  BY <3>2, <4>2
    <3> QED  BY <2>4, <3>1, <3>2 DEF xfig_ifaceAddr
  <2>5. CASE xfig_ifaceHalf
    <3>1. HalfField[suHalf[2]][suTok[1]] \in NifFields
      BY <2>5 DEF xfig_ifaceHalf, FigIs, HalfField, NifFields, ConfigInv, Halves
    <3> QED  BY <1>c, <2>5, <3>1, NifText, OperandType DEF xfig_ifaceHalf
  <2> QED  BY <2>1, <2>2, <2>3, <2>4, <2>5 DEF xfig_iface
<1>2. suHalf' # <<>> => suHalf'[2] \in Halves
  <2>1. CASE xfig_ifaceWord
    <3>1. CASE UNCHANGED suHalf
      BY <3>1 DEF ConfigInv
    <3>2. CASE FigIs(Halves) /\ suHalf' = <<suIface, suTok[1]>>
      BY <3>2 DEF FigIs
    <3> QED  BY <2>1, <3>1, <3>2 DEF xfig_ifaceWord
  <2>2. CASE ~xfig_ifaceWord
    BY <2>2 DEF xfig_iface, xfig_ifaceNumber, xfig_ifaceType, xfig_ifaceAddr, xfig_ifaceHalf,
       ConfigInv
  <2> QED  BY <2>1, <2>2
<1> QED  BY <1>0, <1>1, <1>2 DEF ConfigInv

LEMMA ConfigStep == ConfigInv /\ [SuNext]_suVars => ConfigInv'
<1> SUFFICES ASSUME ConfigInv, [SuNext]_suVars PROVE ConfigInv'
  OBVIOUS
<1>1. CASE SuStart
  BY <1>1, DefaultsType DEF SuStart, SuFresh, ConfigInv
<1>2. CASE xconfig
  BY <1>2, DefaultsType DEF xconfig, ConfigInv
<1>3. CASE \E line \in SuLines : xfigline(line)
  <2>1. PICK line \in SuLines : xfigline(line)
    BY <1>3
  <2>2. tokenize(line) \in Seq(FigWords)
    <3>1. line \in Seq(FigWords)
      <4>1. line \in Seq(STRING)
        BY SuAssumption
      <4>2. \A i \in 1..Len(line) : line[i] \in ToSet(line)
        BY <4>1 DEF ToSet
      <4>3. \A i \in 1..Len(line) : line[i] \in FigWords
        BY <4>2 DEF FigWords
      <4> QED  BY <4>1, <4>3
    <3> DEFINE n == IF Len(line) > MAX_TOKENS THEN MAX_TOKENS + 1 ELSE Len(line)
    <3>2. n \in 0..Len(line)
      BY <3>1 DEF MAX_TOKENS
    <3>3. SubSeq(line, 1, n) \in Seq(FigWords)
      <4> HIDE DEF n
      <4> QED  BY <3>1, <3>2
    <3> QED  BY <3>3 DEF tokenize
  <2> QED  BY <2>1, <2>2 DEF xfigline, ConfigInv
<1>4. CASE xfig_gate
  <2>1. suTok' \in Seq(FigWords)
    BY <1>4, TokType DEF xfig_gate
  <2>2. Config' \in [megate : BOOLEAN, nif : [Nifs -> NifType]]
    BY <1>4 DEF xfig_gate, ConfigInv
  <2> QED  BY <1>4, <2>1, <2>2 DEF xfig_gate, ConfigInv
<1>5. CASE xfig_iface
  BY <1>5, ConfigIface
<1>6. CASE UNCHANGED suParse
  BY <1>6, ConfigKept DEF suParse
<1>7. SuNext => \/ SuStart \/ xconfig \/ (\E line \in SuLines : xfigline(line)) \/ xfig_gate
                \/ xfig_iface \/ UNCHANGED suParse
  <2>1. (\E h \in Halves : ctci_resume(h)) => UNCHANGED suParse
    BY DEF ctci_resume, SuPanic
  <2>2. (\E x \in 0..(Neth - 1) : SuChannelEnd(x) \/ SuNextRead(x)) => UNCHANGED suParse
    BY ZenonT(40) DEF SuChannelEnd, SuNextRead, SuPanic
  <2>3. \/ SysAuth \/ SysXgd \/ SysInit \/ xfigger \/ FigDone \/ xdevinit \/ ctci_init \/ SysNet
        \/ SuResched \/ SuKill \/ SuShut \/ SuMain \/ SuPanic
        => UNCHANGED suParse
    BY DEF SysAuth, SysXgd, SysInit, xfigger, FigDone, xdevinit, ctci_init, SysNet,
           SuResched, SuKill, SuShut, SuMain, SuPanic
  <2> QED  BY <2>1, <2>2, <2>3 DEF SuNext
<1> QED  BY <1>1, <1>2, <1>3, <1>4, <1>5, <1>6, <1>7 DEF suVars

-----------------------------------------------------------------------------
(* The chain.  The devices are initialized in the order of devtab, so the  *)
(* CTCs on the chain are those before suDev, and the pair that is appended *)
(* comes after all of them.                                                *)
Ctcs == 0..(Neth - 1)
CtdevType ==
    [iopid : {"none", "created", "runs"}, sem : {0, 1}, flag1 : {"none", "pend", "complete"},
     cuu : FigWords, ddname : FigWords]
CtcType == [ctcinit : BOOLEAN, read : CtdevType, write : CtdevType]

Opened == \A x \in Ctcs, h \in Halves :
    ctcdev[x][h].iopid = "runs" => ctcdev[x][h].ddname \in DOMAIN SuUnits

InTurn ==
    /\ suDev \in Nat /\ suDev > 0
    /\ suPc \in EarlyPCs => suDev = 1 /\ ctclink = <<>> /\ \A x \in Ctcs : ctcdev[x] = ctblk
    /\ suPc = "devices" => \A x \in SuOn : x < suDev - 2
    /\ suPc \in CtcPCs => /\ suDev - 2 \in SuOn /\ \A x \in SuOn : x <= suDev - 2
                          /\ devtab[suDev].minor = suDev - 2

ChainInv ==
    /\ ctcdev \in [Ctcs -> CtcType] /\ ctclink \in Seq(Ctcs \X Halves)
    /\ Opened /\ InTurn /\ ChainServed

LEMMA NethNat == Neth \in Nat /\ Neth <= 3
<1>1. Neth \in 1..3
  BY SuAssumption
<1> QED  BY <1>1

(* devtab: the CTCs are its entries from the second on.                    *)
LEMMA DevtabEth ==
    /\ devtab \in Seq([init : {"ionull", "ctci_init", "dginit", "tcpinit"}, minor : Nat])
    /\ \A i \in 1..Len(devtab) : devtab[i].init = "ctci_init" =>
            /\ i \in 2..(Neth + 1) /\ devtab[i].minor = i - 2
<1> DEFINE Ent == [init : {"ionull", "ctci_init", "dginit", "tcpinit"}, minor : Nat]
<1>1. ASSUME NEW n \in Nat, NEW f \in {"ionull", "ctci_init", "dginit", "tcpinit"}
      PROVE  /\ DevOf(f, n) \in Seq(Ent) /\ Len(DevOf(f, n)) = n
             /\ \A i \in 1..n : DevOf(f, n)[i].init = f /\ DevOf(f, n)[i].minor = i - 1
  BY DEF DevOf
<1>2. ASSUME NEW s \in Seq(Ent), NEW t \in Seq(Ent)
      PROVE  /\ s \o t \in Seq(Ent) /\ Len(s \o t) = Len(s) + Len(t)
             /\ \A i \in 1..Len(s \o t) : (s \o t)[i] = IF i <= Len(s) THEN s[i] ELSE t[i - Len(s)]
             /\ \A i \in 1..Len(s \o t) : i > Len(s) => (s \o t)[i] = t[i - Len(s)]
  OBVIOUS
<1> DEFINE good(s) == \A i \in 1..Len(s) : s[i].init = "ctci_init" =>
                        i \in 2..(Neth + 1) /\ s[i].minor = i - 2
           other(s) == \A i \in 1..Len(s) : s[i].init # "ctci_init"
<1>n. Neth \in Nat /\ SuNdg \in Nat /\ SuNtcp \in Nat
  BY NethNat, SuAssumption
<1>3. /\ DevConsole \in Seq(Ent) /\ Len(DevConsole) = 1 /\ other(DevConsole)
      /\ DevUdp \in Seq(Ent) /\ other(DevUdp) /\ DevTcpm \in Seq(Ent) /\ other(DevTcpm)
  BY <1>1 DEF DevConsole, DevUdp, DevTcpm
<1>4. /\ DevDg \in Seq(Ent) /\ other(DevDg) /\ DevTcp \in Seq(Ent) /\ other(DevTcp)
  BY <1>1, <1>n DEF DevDg, DevTcp
<1>5. DevEth \in Seq(Ent) /\ Len(DevEth) = Neth /\ \A i \in 1..Neth : DevEth[i].minor = i - 1
  BY <1>1, <1>n DEF DevEth
<1>6. ASSUME NEW s \in Seq(Ent), good(s), NEW t \in Seq(Ent), other(t) PROVE good(s \o t)
  BY <1>2, <1>6
<1>7. DevConsole \o DevEth \in Seq(Ent) /\ good(DevConsole \o DevEth)
  <2> HIDE DEF Ent
  <2>1. DevConsole \o DevEth \in Seq(Ent) /\ Len(DevConsole \o DevEth) = Neth + 1
    <3>1. Len(DevConsole) + Len(DevEth) = Neth + 1
      BY <1>3, <1>5, <1>n
    <3> QED  BY <1>2, <1>3, <1>5, <3>1
  <2>2. ASSUME NEW i \in 1..(Neth + 1), (DevConsole \o DevEth)[i].init = "ctci_init"
        PROVE  i \in 2..(Neth + 1) /\ (DevConsole \o DevEth)[i].minor = i - 2
    <3>1. i # 1
      BY <1>2, <1>3, <1>5, <1>n, <2>1, <2>2
    <3>2. (DevConsole \o DevEth)[i] = DevEth[i - 1]
      <4>1. i > Len(DevConsole) /\ i \in 1..Len(DevConsole \o DevEth)
        BY <1>3, <1>n, <2>1, <3>1
      <4>2. (DevConsole \o DevEth)[i] = DevEth[i - Len(DevConsole)]
        BY <1>2, <1>3, <1>5, <4>1
      <4> QED  BY <1>3, <4>2
    <3> QED  BY <1>5, <1>n, <3>1, <3>2
  <2> QED  BY <2>1, <2>2
<1> DEFINE d1 == DevConsole \o DevEth
           d2 == d1 \o DevUdp
           d3 == d2 \o DevDg
           d4 == d3 \o DevTcpm
           d5 == d4 \o DevTcp
<1> HIDE DEF good, other
<1>8. d2 \in Seq(Ent) /\ good(d2)
  BY <1>2, <1>3, <1>6, <1>7
<1>9. d3 \in Seq(Ent) /\ good(d3)
  <2> HIDE DEF d2
  <2> QED  BY <1>2, <1>4, <1>6, <1>8
<1>10. d4 \in Seq(Ent) /\ good(d4)
  <2> HIDE DEF d3
  <2> QED  BY <1>2, <1>3, <1>6, <1>9
<1>11. d5 \in Seq(Ent) /\ good(d5)
  <2> HIDE DEF d4
  <2> QED  BY <1>2, <1>4, <1>6, <1>10
<1> QED  BY <1>11 DEF devtab, Ent, good

(* iohook() only takes back completed I/O.                                 *)
LEMMA IohookKeeps ==
    ASSUME NEW devs \in [Ctcs -> CtcType]
    PROVE  /\ SuIohook(devs) \in [Ctcs -> CtcType]
           /\ \A x \in Ctcs, h \in Halves :
                LET d == devs[x][h]  e == SuIohook(devs)[x][h] IN
                /\ e.iopid = d.iopid /\ e.cuu = d.cuu /\ e.ddname = d.ddname
                /\ e.flag1 = "pend" <=> d.flag1 = "pend"
<1>1. ASSUME NEW d \in CtdevType
      PROVE  /\ Hooked(d) \in CtdevType /\ Hooked(d).iopid = d.iopid
             /\ Hooked(d).cuu = d.cuu /\ Hooked(d).ddname = d.ddname
             /\ Hooked(d).flag1 = "pend" <=> d.flag1 = "pend"
  BY DEF Hooked, CtdevType
<1>2. \A x \in Ctcs : devs[x].read \in CtdevType /\ devs[x].write \in CtdevType
                       /\ devs[x] \in CtcType
  BY DEF CtcType
<1> DEFINE hk(x) == [devs[x] EXCEPT !.read = Hooked(@), !.write = Hooked(@)]
<1>3. \A x \in Ctcs : hk(x) \in CtcType /\ hk(x).read = Hooked(devs[x].read)
                       /\ hk(x).write = Hooked(devs[x].write)
  <2> SUFFICES ASSUME NEW x \in Ctcs
               PROVE  /\ hk(x) \in CtcType /\ hk(x).read = Hooked(devs[x].read)
                      /\ hk(x).write = Hooked(devs[x].write)
    OBVIOUS
  <2> DEFINE r == Hooked(devs[x].read)  w == Hooked(devs[x].write)
  <2>0. devs[x].read \in CtdevType /\ devs[x].write \in CtdevType
    BY <1>2
  <2>1. r \in CtdevType /\ w \in CtdevType
    BY <1>1, <2>0
  <2>2. hk(x) = [devs[x] EXCEPT !.read = r, !.write = w]
    BY <1>2 DEF CtcType
  <2> HIDE DEF r, w
  <2>3. [devs[x] EXCEPT !.read = r, !.write = w] \in CtcType
    BY <1>2, <2>1 DEF CtcType
  <2>4. /\ [devs[x] EXCEPT !.read = r, !.write = w].read = r
        /\ [devs[x] EXCEPT !.read = r, !.write = w].write = w
    BY <1>2 DEF CtcType
  <2> QED  BY <2>2, <2>3, <2>4 DEF r, w
<1>4. \A x \in Ctcs : SuIohook(devs)[x] = hk(x) \/ SuIohook(devs)[x] = devs[x]
  BY DEF SuIohook
<1>5. SuIohook(devs) \in [Ctcs -> CtcType]
  <2>1. DOMAIN devs = Ctcs
    OBVIOUS
  <2> HIDE DEF hk
  <2> QED  BY <1>2, <1>3, <2>1 DEF SuIohook, hk
<1>6. ASSUME NEW x \in Ctcs, NEW h \in Halves
      PROVE  SuIohook(devs)[x][h] = devs[x][h] \/ SuIohook(devs)[x][h] = Hooked(devs[x][h])
  <2> HIDE DEF hk
  <2> QED  BY <1>3, <1>4 DEF Halves
<1>7. ASSUME NEW x \in Ctcs, NEW h \in Halves PROVE devs[x][h] \in CtdevType
  BY <1>2 DEF Halves
<1>8. ASSUME NEW x \in Ctcs, NEW h \in Halves
      PROVE  LET d == devs[x][h]  e == SuIohook(devs)[x][h] IN
             /\ e.iopid = d.iopid /\ e.cuu = d.cuu /\ e.ddname = d.ddname
             /\ e.flag1 = "pend" <=> d.flag1 = "pend"
  <2>1. devs[x][h] \in CtdevType
    BY <1>7
  <2>2. SuIohook(devs)[x][h] = devs[x][h] \/ SuIohook(devs)[x][h] = Hooked(devs[x][h])
    BY <1>6
  <2>3. CASE SuIohook(devs)[x][h] = devs[x][h]
    BY <2>3
  <2>4. CASE SuIohook(devs)[x][h] = Hooked(devs[x][h])
    BY <1>1, <2>1, <2>4
  <2> QED  BY <2>2, <2>3, <2>4
<1> QED  BY <1>5, <1>8

(* A step that does not change which CTCs are on, nor their names.         *)
LEMMA ChainKept ==
    ASSUME ChainInv, ctcdev' \in [Ctcs -> CtcType], UNCHANGED <<ctclink, Config>>,
           \A x \in Ctcs, h \in Halves :
                LET d == ctcdev[x][h]  e == ctcdev'[x][h] IN
                /\ h = "read" => (e.iopid = "none" <=> d.iopid = "none")
                /\ e.cuu = d.cuu /\ e.ddname = d.ddname
                /\ e.iopid = "runs" => e.ddname \in DOMAIN SuUnits
                /\ e.flag1 = "pend" => e.iopid = "runs"
    PROVE  /\ ctclink' \in Seq(Ctcs \X Halves) /\ Opened' /\ ChainServed'
           /\ SuOn' = SuOn
<1>1. SuOn' = SuOn
  BY DEF SuOn, Ctcs, Halves
<1>2. Opened'
  BY DEF Opened
<1>3. ToSet(ctclink)' = SuOn' \X Halves
  BY <1>1 DEF ChainInv, ChainServed
<1>4. (\A i, j \in DOMAIN ctclink : i < j => ChainRank(ctclink[i]) < ChainRank(ctclink[j]))'
  BY DEF ChainInv, ChainServed
<1>5. ASSUME NEW x \in Ctcs, NEW h \in Halves
      PROVE  LET e == ctcdev'[x][h]  n == Config'.nif[x + 1] IN
             /\ x \in SuOn' => /\ n.enabled /\ e.cuu = n[HalfField[h].cuu]
                               /\ e.ddname = n[HalfField[h].ddname]
             /\ e.flag1 = "pend" => e.iopid = "runs" /\ e.ddname \in DOMAIN SuUnits
  BY <1>1 DEF ChainInv, ChainServed, Ctcs
<1> QED  BY <1>1, <1>2, <1>3, <1>4, <1>5 DEF ChainInv, ChainServed, Ctcs

LEMMA CtcUnchanged ==
    ASSUME ChainInv, UNCHANGED suCtc, Config' = Config, suPc' = suPc \/ suPc' \in {"ended", "run"}
    PROVE  ChainInv'
<1>1. UNCHANGED <<suDev, ctclink, ctcdev>>
  BY DEF suCtc
<1>2. SuOn' = SuOn /\ Opened'
  BY <1>1 DEF SuOn, Opened, ChainInv
<1>3. ChainServed'
  BY <1>1, <1>2 DEF ChainInv, ChainServed
<1>4. InTurn'
  BY <1>1, <1>2 DEF ChainInv, InTurn, EarlyPCs, CtcPCs
<1> QED  BY <1>1, <1>2, <1>3, <1>4 DEF ChainInv

(* No CTC is on while the configuration may still change.                  *)
LEMMA NoneOn ==
    ASSUME ctclink' = <<>>, \A x \in Ctcs : ctcdev'[x] = ctblk, suDev' = 1,
           ctcdev' \in [Ctcs -> CtcType],
           suPc' \in EarlyPCs \cup {"devices", "ended"}
    PROVE  ChainInv'
<1>0. \A h \in Halves : ctblk[h].iopid = "none" /\ ctblk[h].flag1 = "none"
  <2>1. ctblk["read"] = ctdev /\ ctblk["write"] = ctdev
    BY DEF ctblk
  <2>2. ctdev.iopid = "none" /\ ctdev.flag1 = "none"
    BY DEF ctdev
  <2> QED  BY <2>1, <2>2 DEF Halves
<1>1. SuOn' = {}
  BY <1>0 DEF SuOn, Ctcs, Halves
<1>2. Opened'
  BY <1>0 DEF Opened
<1>3. ChainServed'
  <2>1. ToSet(ctclink)' = {}
    BY DEF ToSet
  <2>2. DOMAIN ctclink' = {}
    OBVIOUS
  <2>3. SuOn' \X Halves = {}
    BY <1>1
  <2>4. ASSUME NEW x \in Ctcs, NEW h \in Halves PROVE ctcdev'[x][h].flag1 # "pend"
    BY <1>0
  <2> QED  BY <1>1, <2>1, <2>2, <2>3, <2>4 DEF ChainServed, Ctcs
<1>4. InTurn'
  BY <1>1 DEF InTurn, EarlyPCs, CtcPCs
<1> QED  BY <1>2, <1>3, <1>4 DEF ChainInv

LEMMA EarlyKept ==
    ASSUME ChainInv, suPc \in EarlyPCs, UNCHANGED suCtc,
           suPc' \in EarlyPCs \cup {"devices", "ended"}
    PROVE  ChainInv'
  BY NoneOn DEF ChainInv, InTurn, suCtc

LEMMA BlkType == ctblk \in CtcType
  BY DEF ctblk, ctdev, CtcType, CtdevType, FigWords

LEMMA DevTurn ==
    ASSUME ChainInv, suPc = "devices", suDev <= Len(devtab), DevNow.init = "ctci_init"
    PROVE  CtcNow = suDev - 2 /\ CtcNow \in Ctcs /\ CtcNow \notin SuOn
<1>1. suDev \in 1..Len(devtab)
  BY DevtabEth DEF ChainInv, InTurn
<1>2. suDev \in 2..(Neth + 1) /\ devtab[suDev].minor = suDev - 2
  BY <1>1, DevtabEth DEF DevNow
<1>3. Neth \in Nat
  BY NethNat
<1> QED  BY <1>2, <1>3 DEF CtcNow, DevNow, Ctcs, ChainInv, InTurn

LEMMA ChainCtciInit ==
    ASSUME ChainInv, ConfigInv, ctci_init PROVE ChainInv'
<1> DEFINE c == CtcNow
           rd == <<c, "read">>  wr == <<c, "write">>
<1>1. /\ suPc = "devices" /\ suPc' = "ctcread" /\ suDev' = suDev /\ Config' = Config
      /\ ctclink' = ctclink \o <<rd, wr>> /\ ctcdev' = [ctcdev EXCEPT ![c] = CtcReady]
      /\ Config.nif[c + 1].enabled
  BY DEF ctci_init, SuAt, SuGo, suParse
<1>2. c = suDev - 2 /\ c \in Ctcs /\ c \notin SuOn
  BY DevTurn DEF ctci_init, SuAt
<1>n. Neth \in Nat /\ Neth <= 3
  BY NethNat
<1>t. /\ ctclink \in Seq(Ctcs \X Halves) /\ ctcdev \in [Ctcs -> CtcType]
      /\ suDev \in Nat /\ suDev > 0 /\ c \in Int
  BY <1>2 DEF ChainInv, InTurn, Ctcs
<1>o. \A x \in SuOn : x \in Ctcs /\ x < c
  BY <1>1, <1>2 DEF ChainInv, InTurn, SuOn, Ctcs
<1>3. /\ CtcReady \in CtcType
      /\ \A h \in Halves : /\ CtcReady[h].iopid = "created" /\ CtcReady[h].flag1 = "none"
                           /\ CtcReady[h].cuu = Config.nif[c + 1][HalfField[h].cuu]
                           /\ CtcReady[h].ddname = Config.nif[c + 1][HalfField[h].ddname]
  <2>1. Config.nif[c + 1] \in NifType
    <3>1. c + 1 \in Nifs
      BY <1>2, <1>n DEF Ctcs, Nifs
    <3> QED  BY <3>1 DEF ConfigInv
  <2>2. \A h \in Halves : /\ Config.nif[c + 1][HalfField[h].cuu] \in FigWords
                          /\ Config.nif[c + 1][HalfField[h].ddname] \in FigWords
    BY <2>1 DEF HalfField, Halves, NifType
  <2>3. ASSUME NEW h \in Halves
        PROVE  /\ CtcHalf(h) \in CtdevType
               /\ CtcHalf(h).iopid = "created" /\ CtcHalf(h).flag1 = "none"
               /\ CtcHalf(h).cuu = Config.nif[c + 1][HalfField[h].cuu]
               /\ CtcHalf(h).ddname = Config.nif[c + 1][HalfField[h].ddname]
    BY <2>2 DEF CtcHalf, ctdev, CtdevType
  <2>4. "read" \in Halves /\ "write" \in Halves /\ \A h \in Halves : CtcReady[h] = CtcHalf(h)
    BY DEF Halves, CtcReady
  <2>5. CtcReady \in CtcType
    BY <2>3, <2>4 DEF CtcReady, CtcType
  <2> QED  BY <2>3, <2>4, <2>5
<1>4. ctcdev' \in [Ctcs -> CtcType]
  BY <1>1, <1>3, <1>t
<1>5. SuOn' = SuOn \cup {c}
  <2>1. "read" \in Halves
    BY DEF Halves
  <2>2. \A x \in Ctcs : ctcdev'[x].read.iopid # "none" <=> (x = c \/ ctcdev[x].read.iopid # "none")
    BY <1>1, <1>2, <1>3, <1>t, <2>1
  <2> QED  BY <1>2, <2>2 DEF SuOn, Ctcs
<1>6. /\ ctclink' \in Seq(Ctcs \X Halves) /\ Len(ctclink') = Len(ctclink) + 2
      /\ \A i \in 1..Len(ctclink) : ctclink'[i] = ctclink[i]
      /\ ctclink'[Len(ctclink) + 1] = rd /\ ctclink'[Len(ctclink) + 2] = wr
  <2>1. rd \in Ctcs \X Halves /\ wr \in Ctcs \X Halves
    BY <1>2 DEF Halves
  <2> DEFINE p == <<rd, wr>>
  <2>2. p \in Seq(Ctcs \X Halves) /\ Len(p) = 2 /\ p[1] = rd /\ p[2] = wr
    BY <2>1
  <2> HIDE DEF p, rd, wr
  <2>3. ctclink' = ctclink \o p
    BY <1>1 DEF p
  <2>4. /\ ctclink \o p \in Seq(Ctcs \X Halves) /\ Len(ctclink \o p) = Len(ctclink) + 2
        /\ Len(ctclink) \in Nat
    <3>1. ctclink \o p \in Seq(Ctcs \X Halves) /\ Len(ctclink \o p) = Len(ctclink) + Len(p)
      BY <1>t, <2>2, ConcatElements
    <3> QED  BY <1>t, <2>2, <3>1
  <2>5. \A i \in 1..Len(ctclink) : (ctclink \o p)[i] = ctclink[i]
    BY <1>t, <2>2, ConcatElements
  <2>6. /\ (ctclink \o p)[Len(ctclink) + 1] = p[1]
        /\ (ctclink \o p)[Len(ctclink) + 2] = p[2]
    <3>1. 1 \in 1..Len(p) /\ 2 \in 1..Len(p)
      BY <2>2
    <3>2. ASSUME NEW k \in 1..Len(p) PROVE (ctclink \o p)[Len(ctclink) + k] = p[k]
      <4> DEFINE S == Ctcs \X Halves
      <4>1. ctclink \in Seq(S) /\ p \in Seq(S)
        BY <1>t, <2>2
      <4> HIDE DEF S
      <4> QED  BY <4>1, ConcatElements
    <3> QED  BY <3>1, <3>2
  <2> QED  BY <2>2, <2>3, <2>4, <2>5, <2>6
<1>7. ToSet(ctclink') = SuOn' \X Halves
  <2>1. ToSet(ctclink') = ToSet(ctclink) \cup {rd, wr}
    <3> HIDE DEF rd, wr
    <3>1. DOMAIN ctclink = 1..Len(ctclink) /\ DOMAIN ctclink' = 1..(Len(ctclink) + 2)
      BY <1>6, <1>t
    <3>2. \A i \in DOMAIN ctclink' : i \in DOMAIN ctclink \/ i = Len(ctclink) + 1 \/ i = Len(ctclink) + 2
      BY <1>t, <3>1
    <3>3. Len(ctclink) + 1 \in DOMAIN ctclink' /\ Len(ctclink) + 2 \in DOMAIN ctclink'
      BY <1>t, <3>1
    <3>4. ASSUME NEW e \in ToSet(ctclink') PROVE e \in ToSet(ctclink) \cup {rd, wr}
      <4>1. PICK i \in DOMAIN ctclink' : e = ctclink'[i]
        BY DEF ToSet
      <4> QED  BY <1>6, <3>1, <3>2, <4>1 DEF ToSet
    <3>5. ASSUME NEW e \in ToSet(ctclink) PROVE e \in ToSet(ctclink')
      <4>1. PICK i \in DOMAIN ctclink : e = ctclink[i]
        BY DEF ToSet
      <4>2. i \in DOMAIN ctclink' /\ ctclink'[i] = e
        BY <1>6, <1>t, <3>1, <4>1
      <4> QED  BY <4>2 DEF ToSet
    <3>6. rd \in ToSet(ctclink') /\ wr \in ToSet(ctclink')
      BY <1>6, <3>3 DEF ToSet
    <3> QED  BY <3>4, <3>5, <3>6
  <2>2. ToSet(ctclink) = SuOn \X Halves
    BY DEF ChainInv, ChainServed
  <2> QED  BY <1>5, <2>1, <2>2 DEF Halves
<1>8. ASSUME NEW i \in DOMAIN ctclink', NEW j \in DOMAIN ctclink', i < j
      PROVE  ChainRank(ctclink'[i]) < ChainRank(ctclink'[j])
  <2>0. i \in 1..(Len(ctclink) + 2) /\ j \in 1..(Len(ctclink) + 2) /\ Len(ctclink) \in Nat
    BY <1>6, <1>t
  <2>1. ChainRank(rd) = 2 * c /\ ChainRank(wr) = 2 * c + 1
    BY <1>t DEF ChainRank
  <2>2. ASSUME NEW k \in 1..Len(ctclink)
        PROVE  ChainRank(ctclink[k]) \in Int /\ ChainRank(ctclink[k]) < 2 * c
    <3>1. ctclink[k] \in ToSet(ctclink)
      BY <1>t DEF ToSet
    <3>2. ctclink[k] \in SuOn \X Halves
      BY <3>1 DEF ChainInv, ChainServed
    <3>3. ctclink[k][1] \in SuOn /\ ctclink[k][2] \in Halves
      BY <3>2
    <3>4. ctclink[k][1] \in Int /\ ctclink[k][1] < c
      BY <1>o, <3>3 DEF Ctcs
    <3> QED  BY <1>t, <3>4 DEF ChainRank
  <2> HIDE DEF rd, wr
  <2>3. CASE j <= Len(ctclink)
    <3>1. i \in DOMAIN ctclink /\ j \in DOMAIN ctclink
      BY <1>8, <1>t, <2>0, <2>3
    <3>2. ChainRank(ctclink[i]) < ChainRank(ctclink[j])
      BY <1>8, <3>1 DEF ChainInv, ChainServed
    <3>3. i \in 1..Len(ctclink) /\ j \in 1..Len(ctclink)
      BY <1>t, <3>1
    <3> QED  BY <1>6, <3>2, <3>3
  <2>4. CASE j = Len(ctclink) + 1
    <3>1. i \in 1..Len(ctclink)
      BY <1>8, <2>0, <2>4
    <3> QED  BY <1>6, <2>1, <2>2, <2>4, <3>1
  <2>5. CASE j = Len(ctclink) + 2
    <3>1. CASE i <= Len(ctclink)
      <4>1. i \in 1..Len(ctclink)
        BY <2>0, <3>1
      <4>2. ChainRank(ctclink'[i]) \in Int /\ ChainRank(ctclink'[i]) < 2 * c
        BY <1>6, <2>2, <4>1
      <4> QED  BY <1>6, <1>t, <2>1, <2>5, <4>2
    <3>2. CASE i = Len(ctclink) + 1
      BY <1>6, <1>t, <2>1, <2>5, <3>2
    <3> QED  BY <1>8, <2>0, <2>5, <3>1, <3>2
  <2> QED  BY <2>0, <2>3, <2>4, <2>5
<1>9. ASSUME NEW x \in Ctcs, NEW h \in Halves
      PROVE  LET e == ctcdev'[x][h]  n == Config'.nif[x + 1] IN
             /\ x \in SuOn' => /\ n.enabled /\ e.cuu = n[HalfField[h].cuu]
                               /\ e.ddname = n[HalfField[h].ddname]
             /\ e.flag1 = "pend" => e.iopid = "runs" /\ e.ddname \in DOMAIN SuUnits
             /\ e.iopid = "runs" => e.ddname \in DOMAIN SuUnits
  <2>1. CASE x = c
    <3>1. ctcdev'[x] = CtcReady
      BY <1>1, <1>t, <2>1
    <3> QED  BY <1>1, <1>3, <2>1, <3>1
  <2>2. CASE x # c
    <3>1. ctcdev'[x] = ctcdev[x] /\ (x \in SuOn' <=> x \in SuOn)
      BY <1>1, <1>5, <1>t, <2>2
    <3> QED  BY <1>1, <3>1 DEF ChainInv, ChainServed, Opened, Ctcs
  <2> QED  BY <2>1, <2>2
<1>10. ChainServed' /\ Opened'
  BY <1>7, <1>8, <1>9 DEF ChainServed, Opened, Ctcs
<1>11. InTurn'
  <2>1. devtab[suDev].minor = c
    BY DEF CtcNow, DevNow
  <2>2. suDev' - 2 \in SuOn'
    BY <1>1, <1>2, <1>5
  <2>3. \A x \in SuOn' : x <= suDev' - 2
    BY <1>1, <1>2, <1>5, <1>o, <1>t DEF Ctcs
  <2> QED  BY <1>1, <1>2, <1>t, <2>1, <2>2, <2>3 DEF InTurn, CtcPCs, EarlyPCs
<1> QED  BY <1>4, <1>6, <1>10, <1>11 DEF ChainInv

(* A change of one half that leaves its names alone.                       *)
SetHalf(devs, x, h, d) == [devs EXCEPT ![x][h] = d]

LEMMA HalfType ==
    ASSUME NEW devs \in [Ctcs -> CtcType], NEW x \in Ctcs, NEW h \in Halves, NEW d \in CtdevType
    PROVE  /\ SetHalf(devs, x, h, d) \in [Ctcs -> CtcType]
           /\ SetHalf(devs, x, h, d)[x][h] = d
           /\ \A y \in Ctcs, g \in Halves :
                    (y # x \/ g # h) => SetHalf(devs, x, h, d)[y][g] = devs[y][g]
<1>1. \A r \in CtcType : /\ [r EXCEPT ![h] = d] \in CtcType /\ [r EXCEPT ![h] = d][h] = d
                         /\ \A g \in Halves : g # h => [r EXCEPT ![h] = d][g] = r[g]
  BY DEF CtcType, Halves
<1>2. SetHalf(devs, x, h, d) = [devs EXCEPT ![x] = [devs[x] EXCEPT ![h] = d]]
  BY DEF SetHalf
<1> DEFINE n == [devs[x] EXCEPT ![h] = d]
<1>3. n \in CtcType /\ n[h] = d /\ \A g \in Halves : g # h => n[g] = devs[x][g]
  BY <1>1
<1> HIDE DEF n
<1> QED  BY <1>2, <1>3 DEF n

LEMMA HalfAt == ASSUME ChainInv, NEW x \in Ctcs, NEW h \in Halves PROVE ctcdev[x][h] \in CtdevType
  BY DEF ChainInv, CtcType, Halves

(* The turn of the devices does not change while the pc does not.          *)
LEMMA TurnKept ==
    ASSUME InTurn, suPc' = suPc, suDev' = suDev, SuOn' = SuOn, suPc \notin EarlyPCs PROVE InTurn'
  BY DEF InTurn

LEMMA EarlyOff ==
    ASSUME ChainInv, NEW x \in Ctcs, NEW h \in Halves, ctcdev[x][h].iopid = "runs" PROVE suPc \notin EarlyPCs
<1>1. ctblk["read"] = ctdev /\ ctblk["write"] = ctdev /\ ctdev.iopid = "none"
  BY DEF ctblk, ctdev
<1> QED  BY <1>1 DEF ChainInv, InTurn, Halves

LEMMA ChainNextRead ==
    ASSUME ChainInv, NEW x \in Ctcs, SuNextRead(x) PROVE ChainInv'
<1> DEFINE d == [ctcdev[x]["read"] EXCEPT !.flag1 = "pend"]
<1>0. "read" \in Halves
  BY DEF Halves
<1>1. /\ ctcdev[x]["read"].iopid = "runs" /\ ctcdev' = SetHalf(ctcdev, x, "read", d)
      /\ UNCHANGED <<suPc, suDev, ctclink, Config>>
  BY DEF SuNextRead, suParse, SetHalf
<1>2. /\ d \in CtdevType /\ d.iopid = "runs" /\ d.cuu = ctcdev[x]["read"].cuu
      /\ d.ddname = ctcdev[x]["read"].ddname
  BY <1>0, <1>1, HalfAt DEF CtdevType
<1> HIDE DEF d
<1>3. /\ ctcdev' \in [Ctcs -> CtcType] /\ ctcdev'[x]["read"] = d
      /\ \A y \in Ctcs, g \in Halves : (y # x \/ g # "read") => ctcdev'[y][g] = ctcdev[y][g]
  <2>1. ctcdev \in [Ctcs -> CtcType]
    BY DEF ChainInv
  <2> QED  BY <1>0, <1>1, <1>2, <2>1, HalfType
<1>4. d.ddname \in DOMAIN SuUnits
  BY <1>0, <1>1, <1>2 DEF ChainInv, Opened
<1>5. ASSUME NEW y \in Ctcs, NEW g \in Halves
      PROVE  LET a == ctcdev[y][g]  e == ctcdev'[y][g] IN
             /\ g = "read" => (e.iopid = "none" <=> a.iopid = "none")
             /\ e.cuu = a.cuu /\ e.ddname = a.ddname
             /\ e.iopid = "runs" => e.ddname \in DOMAIN SuUnits
             /\ e.flag1 = "pend" => e.iopid = "runs"
  <2>1. CASE y = x /\ g = "read"
    BY <1>1, <1>2, <1>3, <1>4, <2>1
  <2>2. CASE ~(y = x /\ g = "read")
    <3>1. ctcdev'[y][g] = ctcdev[y][g]
      BY <1>3, <2>2
    <3> QED  BY <3>1 DEF ChainInv, ChainServed, Opened, Ctcs
  <2> QED  BY <2>1, <2>2
<1>6. ctclink' \in Seq(Ctcs \X Halves) /\ Opened' /\ ChainServed' /\ SuOn' = SuOn
  BY <1>1, <1>3, <1>5, ChainKept
<1>7. InTurn'
  BY <1>0, <1>1, <1>6, TurnKept, EarlyOff DEF ChainInv
<1> QED  BY <1>3, <1>6, <1>7 DEF ChainInv

LEMMA ChainChannelEnd ==
    ASSUME ChainInv, NEW x \in Ctcs, SuChannelEnd(x) PROVE ChainInv'
<1>p. CASE SuPanic
  BY <1>p, CtcUnchanged DEF SuPanic, SuLeave, suParse
<1>q. CASE ~SuPanic
  <2>1. PICK i \in DOMAIN ctclink :
           /\ ctcdev' = [ctcdev EXCEPT ![ctclink[i][1]][ctclink[i][2]].flag1 = "complete"]
           /\ UNCHANGED <<suPc, suDev, ctclink, Config>>
    BY <1>q, ZenonT(40) DEF SuChannelEnd, suParse
  <2> DEFINE y == ctclink[i][1]  h == ctclink[i][2]
             d == [ctcdev[y][h] EXCEPT !.flag1 = "complete"]
  <2>2. y \in Ctcs /\ h \in Halves
    BY DEF ChainInv
  <2>3. ctcdev' = SetHalf(ctcdev, y, h, d)
    BY <2>1 DEF SetHalf
  <2> HIDE DEF y, h
  <2>4. /\ d \in CtdevType /\ d.iopid = ctcdev[y][h].iopid /\ d.cuu = ctcdev[y][h].cuu
        /\ d.ddname = ctcdev[y][h].ddname /\ d.flag1 = "complete"
    BY <2>2, HalfAt DEF CtdevType
  <2> HIDE DEF d
  <2>5. /\ ctcdev' \in [Ctcs -> CtcType] /\ ctcdev'[y][h] = d
        /\ \A z \in Ctcs, g \in Halves : (z # y \/ g # h) => ctcdev'[z][g] = ctcdev[z][g]
    <3>1. ctcdev \in [Ctcs -> CtcType]
      BY DEF ChainInv
    <3> QED  BY <2>2, <2>3, <2>4, <3>1, HalfType
  <2>6. ASSUME NEW z \in Ctcs, NEW g \in Halves
        PROVE  LET a == ctcdev[z][g]  e == ctcdev'[z][g] IN
               /\ g = "read" => (e.iopid = "none" <=> a.iopid = "none")
               /\ e.cuu = a.cuu /\ e.ddname = a.ddname
               /\ e.iopid = "runs" => e.ddname \in DOMAIN SuUnits
               /\ e.flag1 = "pend" => e.iopid = "runs"
    <3>1. CASE z = y /\ g = h
      BY <2>2, <2>4, <2>5, <3>1 DEF ChainInv, Opened
    <3>2. CASE ~(z = y /\ g = h)
      <4>1. ctcdev'[z][g] = ctcdev[z][g]
        BY <2>5, <3>2
      <4> QED  BY <4>1 DEF ChainInv, ChainServed, Opened, Ctcs
    <3> QED  BY <3>1, <3>2
  <2>7. ctclink' \in Seq(Ctcs \X Halves) /\ Opened' /\ ChainServed' /\ SuOn' = SuOn
    BY <2>1, <2>5, <2>6, ChainKept, ZenonT(40)
  <2>8. suPc \notin EarlyPCs
    <3>1. "read" \in Halves
      BY DEF Halves
    <3>2. ctcdev[x]["read"].flag1 = "pend"
      BY ZenonT(40) DEF SuChannelEnd
    <3> QED  BY <3>1, <3>2, EarlyOff DEF ChainInv, ChainServed, Ctcs
  <2>9. InTurn'
    BY <2>1, <2>7, <2>8, TurnKept DEF ChainInv
  <2> QED  BY <2>5, <2>7, <2>9 DEF ChainInv
<1> QED  BY <1>p, <1>q

(* The process of a half opens its DCB, and iohook() runs.                 *)
LEMMA ChainResume ==
    ASSUME ChainInv, NEW h \in Halves, ctci_resume(h) PROVE ChainInv'
<1>p. CASE SuPanic
  BY <1>p, CtcUnchanged DEF SuPanic, SuLeave, suParse
<1>q. CASE ~SuPanic
  <2> DEFINE c == CtcNow
             d == [ctcdev[c][h] EXCEPT !.iopid = "runs", !.sem = 1,
                                       !.flag1 = IF h = "read" THEN "pend" ELSE "none"]
             devs == SetHalf(ctcdev, c, h, d)
  <2>1. /\ suPc = IF h = "read" THEN "ctcread" ELSE "ctcwrite"
        /\ ctcdev[c][h].ddname \in DOMAIN SuUnits /\ ctcdev' = CtcStarted(h)
        /\ IF h = "read" THEN suPc' = "ctcwrite" /\ suDev' = suDev
           ELSE suPc' = "devices" /\ suDev' = suDev + 1
        /\ UNCHANGED <<ctclink, Config>>
    BY <1>q DEF ctci_resume, SuAt, SuGo, suParse
  <2>2. c = suDev - 2 /\ c \in SuOn /\ c \in Ctcs
    BY <2>1 DEF ChainInv, InTurn, CtcPCs, CtcNow, DevNow, SuOn, Ctcs
  <2>3. ctcdev' = SuIohook(devs)
    BY <2>1 DEF CtcStarted, SetHalf
  <2> HIDE DEF c
  <2>4. /\ d \in CtdevType /\ d.iopid = "runs" /\ d.cuu = ctcdev[c][h].cuu
        /\ d.ddname = ctcdev[c][h].ddname
    BY <2>2, HalfAt, ZenonT(50) DEF CtdevType
  <2> HIDE DEF d
  <2>5. /\ devs \in [Ctcs -> CtcType] /\ devs[c][h] = d
        /\ \A y \in Ctcs, g \in Halves : (y # c \/ g # h) => devs[y][g] = ctcdev[y][g]
    <3>1. ctcdev \in [Ctcs -> CtcType]
      BY DEF ChainInv
    <3> QED  BY <2>2, <2>4, <3>1, HalfType
  <2>6. h = "read" => ctcdev[c][h].iopid # "none"
    BY <2>2 DEF SuOn
  <2> HIDE DEF devs
  <2>7. /\ ctcdev' \in [Ctcs -> CtcType]
        /\ \A y \in Ctcs, g \in Halves :
             LET a == devs[y][g]  e == ctcdev'[y][g] IN
             /\ e.iopid = a.iopid /\ e.cuu = a.cuu /\ e.ddname = a.ddname
             /\ e.flag1 = "pend" <=> a.flag1 = "pend"
    BY <2>3, <2>5, IohookKeeps
  <2>8. ASSUME NEW y \in Ctcs, NEW g \in Halves
        PROVE  LET a == ctcdev[y][g]  e == ctcdev'[y][g] IN
               /\ g = "read" => (e.iopid = "none" <=> a.iopid = "none")
               /\ e.cuu = a.cuu /\ e.ddname = a.ddname
               /\ e.iopid = "runs" => e.ddname \in DOMAIN SuUnits
               /\ e.flag1 = "pend" => e.iopid = "runs"
    <3>1. CASE y = c /\ g = h
      BY <2>1, <2>4, <2>5, <2>6, <2>7, <3>1 DEF c
    <3>2. CASE ~(y = c /\ g = h)
      <4>1. devs[y][g] = ctcdev[y][g]
        BY <2>5, <3>2
      <4>2. ctcdev[y][g].iopid = "runs" => ctcdev[y][g].ddname \in DOMAIN SuUnits
        BY DEF ChainInv, Opened
      <4>3. ctcdev[y][g].flag1 = "pend" => ctcdev[y][g].iopid = "runs"
        BY DEF ChainInv, ChainServed, Ctcs
      <4> QED  BY <2>7, <4>1, <4>2, <4>3
    <3> QED  BY <3>1, <3>2
  <2>9. ctclink' \in Seq(Ctcs \X Halves) /\ Opened' /\ ChainServed' /\ SuOn' = SuOn
    BY <2>1, <2>7, <2>8, ChainKept
  <2>10. InTurn'
    <3>1. /\ suDev \in Nat /\ suDev > 0 /\ suDev - 2 \in SuOn /\ \A x \in SuOn : x <= suDev - 2
          /\ devtab[suDev].minor = suDev - 2
      BY <2>1 DEF ChainInv, InTurn, CtcPCs
    <3>2. \A x \in SuOn : x \in Int
      BY DEF SuOn
    <3>3. CASE h = "read"
      BY <2>1, <2>9, <3>1, <3>3 DEF InTurn, EarlyPCs, CtcPCs
    <3>4. CASE h # "read"
      <4>1. \A x \in SuOn : x < suDev + 1 - 2
        BY <3>1, <3>2
      <4> QED  BY <2>1, <2>9, <3>1, <3>4, <4>1 DEF InTurn, EarlyPCs, CtcPCs
    <3> QED  BY <3>3, <3>4
  <2> QED  BY <2>7, <2>9, <2>10 DEF ChainInv
<1> QED  BY <1>p, <1>q

(* iohook() alone, in a process that resched() dispatches.                 *)
LEMMA ChainIohook ==
    ASSUME ChainInv, ctcdev' = SuIohook(ctcdev), UNCHANGED <<suDev, ctclink, Config>>,
           suPc' = "run"
    PROVE  ChainInv'
<1>1. /\ ctcdev' \in [Ctcs -> CtcType]
      /\ \A y \in Ctcs, g \in Halves :
           LET a == ctcdev[y][g]  e == ctcdev'[y][g] IN
           /\ e.iopid = a.iopid /\ e.cuu = a.cuu /\ e.ddname = a.ddname
           /\ e.flag1 = "pend" <=> a.flag1 = "pend"
  BY IohookKeeps DEF ChainInv
<1>2. ASSUME NEW y \in Ctcs, NEW g \in Halves
      PROVE  LET a == ctcdev[y][g]  e == ctcdev'[y][g] IN
             /\ g = "read" => (e.iopid = "none" <=> a.iopid = "none")
             /\ e.cuu = a.cuu /\ e.ddname = a.ddname
             /\ e.iopid = "runs" => e.ddname \in DOMAIN SuUnits
             /\ e.flag1 = "pend" => e.iopid = "runs"
  BY <1>1 DEF ChainInv, ChainServed, Opened, Ctcs
<1>3. ctclink' \in Seq(Ctcs \X Halves) /\ Opened' /\ ChainServed' /\ SuOn' = SuOn
  BY <1>1, <1>2, ChainKept
<1>4. InTurn'
  BY DEF ChainInv, InTurn, EarlyPCs, CtcPCs
<1> QED  BY <1>1, <1>3, <1>4 DEF ChainInv

LEMMA ChainDevinit ==
    ASSUME ChainInv, xdevinit PROVE ChainInv'
<1>1. /\ suPc = "devices" /\ suPc' = "devices" /\ suDev' = suDev + 1
      /\ UNCHANGED <<ctclink, Config>>
  BY DEF xdevinit, SuAt, suParse
<1>2. /\ ctcdev' \in [Ctcs -> CtcType]
      /\ \A y \in Ctcs, g \in Halves : ctcdev'[y][g] = ctcdev[y][g]
  <2>1. CASE ctcdev' = ctcdev
    BY <2>1 DEF ChainInv
  <2>2. CASE ctcdev' = [ctcdev EXCEPT ![CtcNow].ctcinit = TRUE]
    <3>1. \A r \in CtcType : /\ [r EXCEPT !.ctcinit = TRUE] \in CtcType
                             /\ \A g \in Halves : [r EXCEPT !.ctcinit = TRUE][g] = r[g]
      BY DEF CtcType, Halves
    <3>2. ctcdev \in [Ctcs -> CtcType]
      BY DEF ChainInv
    <3>3. CASE CtcNow \in Ctcs
      <4> DEFINE r == [ctcdev[CtcNow] EXCEPT !.ctcinit = TRUE]
      <4>1. r \in CtcType /\ \A g \in Halves : r[g] = ctcdev[CtcNow][g]
        BY <3>1, <3>2, <3>3
      <4>2. ctcdev' = [ctcdev EXCEPT ![CtcNow] = r]
        BY <2>2
      <4> HIDE DEF r
      <4> QED  BY <3>2, <3>3, <4>1, <4>2
    <3>4. CASE CtcNow \notin Ctcs
      BY <2>2, <3>2, <3>4
    <3> QED  BY <3>3, <3>4
  <2> QED  BY <2>1, <2>2 DEF xdevinit
<1>3. ctclink' \in Seq(Ctcs \X Halves) /\ Opened' /\ ChainServed' /\ SuOn' = SuOn
  BY <1>1, <1>2, ChainKept DEF ChainInv, ChainServed, Opened, Ctcs
<1>4. InTurn'
  BY <1>1, <1>3 DEF ChainInv, InTurn, EarlyPCs, CtcPCs, SuOn, Ctcs
<1> QED  BY <1>2, <1>3, <1>4 DEF ChainInv

LEMMA ChainStep == ChainInv /\ ConfigInv /\ SgdInv /\ [SuNext]_suVars => ChainInv'
<1> SUFFICES ASSUME ChainInv, ConfigInv, SgdInv, [SuNext]_suVars PROVE ChainInv'
  OBVIOUS
<1>1. CASE SuStart
  <2>1. /\ ctclink' = <<>> /\ suDev' = 1 /\ suPc' \in EarlyPCs
        /\ ctcdev' = [x \in Ctcs |-> ctblk]
    BY <1>1 DEF SuStart, SuFresh, EarlyPCs, Ctcs
  <2>2. ctcdev' \in [Ctcs -> CtcType] /\ \A x \in Ctcs : ctcdev'[x] = ctblk
    BY <2>1, BlkType
  <2> QED  BY <2>1, <2>2, NoneOn
<1>2. CASE SysAuth \/ SysXgd \/ SysInit \/ xconfig \/ xfigger \/ FigDone
  BY <1>2, EarlyKept DEF SysAuth, SysXgd, SysInit, SuPanic, xconfig, xfigger, FigDone,
     SuAt, SuGo, SuLeave, EarlyPCs
<1>3. CASE \E line \in SuLines : xfigline(line)
  BY <1>3, EarlyKept DEF xfigline, SuAt, SuGo, EarlyPCs
<1>4. CASE xfig_gate
  BY <1>4, EarlyKept DEF xfig_gate, FigNext, SuAt, EarlyPCs
<1>5. CASE xfig_iface
  <2>1. suPc = "iface" /\ UNCHANGED suCtc /\ (FigPast \/ FigNext)
    BY <1>5 DEF xfig_iface, xfig_ifaceWord, xfig_ifaceNumber, xfig_ifaceType, xfig_ifaceAddr,
       xfig_ifaceHalf, SuAt
  <2> QED  BY <2>1, EarlyKept DEF FigPast, FigNext, SuLeave, EarlyPCs
<1>6. CASE xdevinit
  BY <1>6, ChainDevinit
<1>7. CASE ctci_init
  BY <1>7, ChainCtciInit
<1>8. CASE \E h \in Halves : ctci_resume(h)
  BY <1>8, ChainResume
<1>9. CASE SysNet
  BY <1>9, ChainIohook DEF SysNet, SuGo, suParse
<1>10. CASE \E x \in 0..(Neth - 1) : SuChannelEnd(x) \/ SuNextRead(x)
  BY <1>10, ChainChannelEnd, ChainNextRead DEF Ctcs
<1>11. CASE SuResched
  BY <1>11, ChainIohook DEF SuResched, SuAt, suParse
<1>12. CASE SuKill
  BY <1>12, CtcUnchanged DEF SuKill, xdone, SuLeave, suParse
<1>13. CASE SuShut \/ SuMain \/ SuPanic
  BY <1>13, CtcUnchanged DEF SuShut, SuMain, SuPanic, SuLeave, suParse
<1>14. CASE UNCHANGED suVars
  BY <1>14, CtcUnchanged DEF suVars, suParse
<1> QED
  BY <1>1, <1>2, <1>3, <1>4, <1>5, <1>6, <1>7, <1>8, <1>9, <1>10, <1>11, <1>12, <1>13, <1>14
  DEF SuNext

(* ChainServed, for every configuration file, every set of DDs and every   *)
(* number of devices: IGG019X8 and iohook() reach every I/O under way.     *)
THEOREM ChainCorrect == SuSpec => []ChainServed
<1>1. SuInit => ChainInv /\ ConfigInv /\ SgdInv
  <2> SUFFICES ASSUME SuInit PROVE ChainInv /\ ConfigInv /\ SgdInv
    OBVIOUS
  <2>1. SgdInv
    BY DEF SuInit, SgdInv, SgdValid, SuPCs
  <2>2. ConfigInv
    BY DefaultsType DEF SuInit, ConfigInv
  <2>3. /\ ctcdev \in [Ctcs -> CtcType] /\ \A x \in Ctcs : ctcdev[x] = ctblk
        /\ ctclink = <<>> /\ suDev = 1 /\ suPc = "ended"
    BY BlkType DEF SuInit, Ctcs
  <2>4. \A h \in Halves : ctblk[h].iopid = "none" /\ ctblk[h].flag1 = "none"
    <3>1. ctblk["read"] = ctdev /\ ctblk["write"] = ctdev
      BY DEF ctblk
    <3>2. ctdev.iopid = "none" /\ ctdev.flag1 = "none"
      BY DEF ctdev
    <3> QED  BY <3>1, <3>2 DEF Halves
  <2>5. SuOn = {} /\ ToSet(ctclink) = {} /\ DOMAIN ctclink = {}
    BY <2>3, <2>4 DEF SuOn, Ctcs, Halves, ToSet
  <2>6. Opened /\ InTurn
    BY <2>3, <2>4, <2>5 DEF Opened, InTurn, EarlyPCs, CtcPCs
  <2>7. ChainServed
    <3>1. SuOn \X Halves = {}
      BY <2>5
    <3>2. \A x \in Ctcs, h \in Halves : ctcdev[x][h].flag1 # "pend"
      BY <2>3, <2>4
    <3> QED  BY <2>5, <3>1, <3>2 DEF ChainServed, Ctcs
  <2> QED  BY <2>1, <2>2, <2>3, <2>6, <2>7 DEF ChainInv
<1>2. ChainInv /\ ConfigInv /\ SgdInv /\ [SuNext]_suVars => ChainInv' /\ ConfigInv' /\ SgdInv'
  BY ChainStep, ConfigStep, SgdStep
<1>3. ChainInv => ChainServed
  BY DEF ChainInv
<1> QED  BY <1>1, <1>2, <1>3, PTL DEF SuSpec

-----------------------------------------------------------------------------
(* What the configuration file means.  While xfig_iface is at work on the  *)
(* last line, the tokens before the ones it still has to handle have had   *)
(* their effect, and its statics say which interface and half they left it *)
(* at.                                                                     *)
FigAllPlain == \A l \in DOMAIN suFile : FigPlain(FigTokens(l))
FigNow == FigTokens(Len(suFile))
FigK == Len(FigNow) - Len(suTok)
FigHandled == {p \in FigPlaces : p[1] < Len(suFile) \/ p[2] <= FigK}

FigStatics(t, k, iface, half) ==
    /\ iface \in Nifs /\ FigIfaceAt(t, k) = NifNames[iface + 1]
    /\ half = IF FigHalfAt(t, k) = "none" THEN <<>> ELSE <<iface, FigHalfAt(t, k)>>

FigAtWork ==
    /\ Len(suFile) > 0 /\ FigNow # <<>> /\ FigNow[1] = "iface" /\ Len(suTok) <= Len(FigNow)
    /\ \A i \in 1..Len(suTok) : suTok[i] = FigNow[FigK + i]
    /\ FigAllPlain =>
        /\ FigSettled(FigHandled)
        /\ suTok # <<>> /\ FigK > 0 => FigStatics(FigNow, FigK, suIface, suHalf)

FigRead == {"lines", "gateway", "devices", "ctcread", "ctcwrite"}
FigInv ==
    /\ suFile \in Seq(SuLines)
    /\ suPc \in {"auth", "sgd", "init", "xconfig", "xfigger"} => suFile = <<>>
    /\ suPc = "xfigger" => Config = FigDefaults
    /\ suPc \in FigRead /\ FigAllPlain => FigSettled(FigPlaces)
    /\ suPc = "iface" => FigAtWork

LEMMA TokenizeLine ==
    ASSUME NEW line \in SuLines
    PROVE  /\ tokenize(line) \in Seq(STRING) /\ Len(tokenize(line)) <= MAX_TOKENS + 1
           /\ line # <<>> => tokenize(line) # <<>> /\ tokenize(line)[1] = line[1]
           /\ tokenize(line) # <<>> => line # <<>>
<1> DEFINE n == IF Len(line) > MAX_TOKENS THEN MAX_TOKENS + 1 ELSE Len(line)
<1>1. line \in Seq(STRING)
  BY SuAssumption
<1>2. n \in 0..Len(line) /\ n <= MAX_TOKENS + 1 /\ (line # <<>> => n >= 1)
  BY <1>1 DEF MAX_TOKENS
<1>3. /\ SubSeq(line, 1, n) \in Seq(STRING) /\ Len(SubSeq(line, 1, n)) = n
      /\ n >= 1 => SubSeq(line, 1, n)[1] = line[1]
  <2> HIDE DEF n
  <2> QED  BY <1>1, <1>2
<1>4. tokenize(line) = SubSeq(line, 1, n)
  BY DEF tokenize
<1> HIDE DEF n
<1>5. line # <<>> => SubSeq(line, 1, n) # <<>>
  <2>1. Len(<<>>) = 0
    OBVIOUS
  <2> QED  BY <1>2, <1>3, <2>1
<1>6. SubSeq(line, 1, n) # <<>> => line # <<>>
  <2>1. line = <<>> => n = 0
    BY <1>1, <1>2
  <2>2. n = 0 => SubSeq(line, 1, n) = <<>>
    BY <1>3
  <2> QED  BY <2>1, <2>2
<1> QED  BY <1>2, <1>3, <1>4, <1>5, <1>6

\* Tokens that are no keywords change neither the interface nor the half.
LEMMA FigStaticsStay ==
    ASSUME NEW t, NEW k \in Nat, NEW j \in Nat, k <= j, FigIfaces(t, k) # {},
           \A i \in (k + 1)..j : t[i] # "iface" /\ t[i] \notin Halves
    PROVE  FigIfaceAt(t, j) = FigIfaceAt(t, k) /\ FigHalfAt(t, j) = FigHalfAt(t, k)
<1>1. FigIfaces(t, j) = FigIfaces(t, k)
  BY DEF FigIfaces
<1>2. Max(FigIfaces(t, k)) \in 1..k
  <2>1. FigIfaces(t, k) \in SUBSET (0..k)
    BY DEF FigIfaces
  <2>2. Max(FigIfaces(t, k)) \in FigIfaces(t, k)
    BY <2>1, Largest
  <2> QED  BY <2>2 DEF FigIfaces
<1>3. FigHalves(t, j) = FigHalves(t, k)
  BY <1>1, <1>2 DEF FigHalves
<1> QED  BY <1>1, <1>3 DEF FigIfaceAt, FigHalfAt

LEMMA FigIfaceStays ==
    ASSUME NEW t, NEW k \in Nat, t[k + 1] # "iface"
    PROVE  FigIfaceAt(t, k + 1) = FigIfaceAt(t, k)
<1>1. FigIfaces(t, k + 1) = FigIfaces(t, k)
  BY DEF FigIfaces
<1> QED  BY <1>1 DEF FigIfaceAt

\* read and write choose the half.
LEMMA FigHalfChosen ==
    ASSUME NEW t, NEW k \in Nat, FigIfaces(t, k) # {}, t[k + 1] \in Halves
    PROVE  FigHalfAt(t, k + 1) = t[k + 1]
<1>1. FigIfaces(t, k + 1) = FigIfaces(t, k)
  BY DEF FigIfaces, Halves
<1>2. Max(FigIfaces(t, k)) \in 1..k
  <2>1. FigIfaces(t, k) \in SUBSET (0..k)
    BY DEF FigIfaces
  <2>2. Max(FigIfaces(t, k)) \in FigIfaces(t, k)
    BY <2>1, Largest
  <2> QED  BY <2>2 DEF FigIfaces
<1> DEFINE H == FigHalves(t, k + 1)
<1>3. k + 1 \in H /\ H \in SUBSET (0..(k + 1)) /\ \A i \in H : i <= k + 1
  BY <1>1, <1>2 DEF FigHalves
<1>4. Max(H) \in H /\ \A y \in H : Max(H) >= y
  <2> HIDE DEF H
  <2>1. H # {} /\ k + 1 \in Nat
    BY <1>3
  <2> QED  BY <1>3, <2>1, Largest
<1>5. Max(H) = k + 1
  <2>1. Max(H) \in Int /\ Max(H) <= k + 1 /\ Max(H) >= k + 1
    BY <1>3, <1>4
  <2> HIDE DEF H
  <2> QED  BY <2>1
<1> QED  BY <1>3, <1>5 DEF FigHalfAt

\* iface chooses the interface, and no half.
LEMMA FigIfaceChosen ==
    ASSUME NEW t, NEW k \in Nat, t[k + 1] = "iface", t[k + 2] # "iface", t[k + 2] \notin Halves
    PROVE  FigIfaceAt(t, k + 2) = t[k + 2] /\ FigHalfAt(t, k + 2) = "none"
<1> DEFINE I == FigIfaces(t, k + 2)
<1>1. k + 1 \in I /\ I \in SUBSET (0..(k + 2)) /\ \A i \in I : i <= k + 1
  BY DEF FigIfaces
<1>2. Max(I) \in I /\ \A y \in I : Max(I) >= y
  <2> HIDE DEF I
  <2>1. I # {} /\ k + 2 \in Nat
    BY <1>1
  <2> QED  BY <1>1, <2>1, Largest
<1>3. Max(I) = k + 1
  <2>1. Max(I) \in Int /\ Max(I) <= k + 1 /\ Max(I) >= k + 1
    BY <1>1, <1>2
  <2> HIDE DEF I
  <2> QED  BY <2>1
<1>4. FigIfaceAt(t, k + 2) = t[k + 2]
  <2>1. (k + 1) + 1 = k + 2
    OBVIOUS
  <2> HIDE DEF I
  <2>2. FigIfaceAt(t, k + 2) = t[Max(I) + 1]
    BY DEF FigIfaceAt, I
  <2> QED  BY <1>3, <2>1, <2>2
<1>5. FigHalves(t, k + 2) = {}
  <2>1. \A i \in (k + 1)..(k + 2) : t[i] \notin Halves
    <3>1. \A i \in (k + 1)..(k + 2) : i = k + 1 \/ i = k + 2
      OBVIOUS
    <3> QED  BY <3>1 DEF Halves
  <2> QED  BY <1>3, <2>1 DEF FigHalves
<1> QED  BY <1>4, <1>5 DEF FigHalfAt

\* What gives nothing, whatever its operand and its half.
LEMMA FigSilent ==
    ASSUME NEW word, word \notin FigKeywords \/ word \in Halves \/ word = "iface",
           NEW arg, NEW half, NEW f
    PROVE  FigValue(word, arg, half, f) = {}
<1>1. word \notin FigOn /\ word \notin FigOff /\ word \notin (FigTakesOperand \ {"iface"})
  BY DEF FigKeywords, FigTakesOperand, FigOn, FigOff, Halves
<1>2. /\ word # "type" /\ word \notin {"ip", "mask"} /\ word # "defaultgw"
      /\ word \notin {"ddname", "cuu"}
  BY <1>1 DEF FigTakesOperand
<1> QED  BY <1>1, <1>2 DEF FigValue

-----------------------------------------------------------------------------
(* The tokens at N come after the ones at P and give every field that they *)
(* change its value.                                                       *)
FigBefore(p, q) == p[1] < q[1] \/ (p[1] = q[1] /\ p[2] <= q[2])
FigSays(p, n, f) == FigGives(FigTokens(p[1]), p[2], n, f)

LEMMA FigExtend ==
    ASSUME NEW P, NEW N, FigSettled(P), DOMAIN Config'.nif[0] = DOMAIN Config.nif[0],
           \A p \in P : FigTokens(p[1])' = FigTokens(p[1]),
           \A p \in P, q \in N : FigBefore(p, q),
           \A n \in Nifs, f \in DOMAIN Config.nif[0] :
               \/ /\ Config'.nif[n][f] = Config.nif[n][f]
                  /\ \A q \in N : FigSays(q, n, f)' = {}
               \/ \E q \in N :
                   /\ Config'.nif[n][f] \in FigSays(q, n, f)'
                   /\ \A r \in N : FigSays(r, n, f)' # {} => FigBefore(r, q)
    PROVE  FigSettled(P \cup N)'
<1> SUFFICES ASSUME NEW n \in Nifs, NEW f \in DOMAIN Config.nif[0]
             PROVE  LET given == {p \in P \cup N : FigSays(p, n, f)' # {}}
                    IN  IF given = {} THEN Config'.nif[n][f] = FigDefaults.nif[n][f]
                        ELSE \E p \in given : /\ \A q \in given : FigBefore(q, p)
                                              /\ Config'.nif[n][f] \in FigSays(p, n, f)'
  BY DEF FigSettled, FigSays, FigBefore
<1> DEFINE old == {p \in P : FigSays(p, n, f) # {}}
           new == {p \in P \cup N : FigSays(p, n, f)' # {}}
<1>1. \A p \in P : FigSays(p, n, f)' = FigSays(p, n, f)
  BY DEF FigSays
<1>2. IF old = {} THEN Config.nif[n][f] = FigDefaults.nif[n][f]
      ELSE \E p \in old : /\ \A q \in old : FigBefore(q, p)
                          /\ Config.nif[n][f] \in FigSays(p, n, f)
  BY DEF FigSettled, FigSays, FigBefore
<1>3. CASE /\ Config'.nif[n][f] = Config.nif[n][f] /\ \A q \in N : FigSays(q, n, f)' = {}
  <2>1. new = old
    BY <1>1, <1>3
  <2>2. \A p \in old : FigSays(p, n, f)' = FigSays(p, n, f)
    BY <1>1
  <2> HIDE DEF old, new
  <2>3. CASE old = {}
    BY <1>2, <1>3, <2>1, <2>3 DEF new
  <2>4. CASE old # {}
    <3>1. PICK p \in old : /\ \A q \in old : FigBefore(q, p)
                           /\ Config.nif[n][f] \in FigSays(p, n, f)
      BY <1>2, <2>4
    <3>2. /\ p \in new /\ \A q \in new : FigBefore(q, p)
          /\ Config'.nif[n][f] \in FigSays(p, n, f)'
      BY <1>3, <2>1, <2>2, <3>1
    <3> QED  BY <2>1, <2>4, <3>2 DEF new
  <2> QED  BY <2>3, <2>4
<1>4. CASE \E q \in N : /\ Config'.nif[n][f] \in FigSays(q, n, f)'
                        /\ \A r \in N : FigSays(r, n, f)' # {} => FigBefore(r, q)
  <2>1. PICK q \in N : /\ Config'.nif[n][f] \in FigSays(q, n, f)'
                       /\ \A r \in N : FigSays(r, n, f)' # {} => FigBefore(r, q)
    BY <1>4
  <2>2. q \in new
    BY <2>1
  <2>3. \A r \in new : FigBefore(r, q)
    BY <2>1
  <2> HIDE DEF new
  <2> QED  BY <2>1, <2>2, <2>3 DEF new
<1> QED  BY <1>3, <1>4

-----------------------------------------------------------------------------
(* What xfig_iface does with a token is what the token gives: word, its    *)
(* operand and the half in force, for the interface in force.              *)
NifAll == NifFields \cup {"enabled", "dfgw"}
FigHalfNow == IF suHalf = <<>> THEN "none" ELSE suHalf[2]
FigApplied(arg) ==
    \A n \in Nifs, f \in NifAll :
        LET v == FigValue(suTok[1], arg, FigHalfNow, f) IN
        \/ Config'.nif[n][f] = Config.nif[n][f] /\ (n # suIface \/ v = {})
        \/ n = suIface /\ Config'.nif[n][f] \in v

LEMMA NifDomain ==
    ASSUME NEW C \in [megate : BOOLEAN, nif : [Nifs -> NifType]], NEW n \in Nifs
    PROVE  DOMAIN C.nif[n] = NifAll
<1>1. C.nif[n] \in NifType
  OBVIOUS
<1> QED  BY <1>1 DEF NifType, NifAll, NifFields

ConfigType == [megate : BOOLEAN, nif : [Nifs -> NifType]]
ConfigPut(C, i, f, v) == [C EXCEPT !.nif[i][f] = v]

LEMMA NifAfter ==
    ASSUME NEW C \in ConfigType, NEW i \in Nifs, NEW f \in NifAll, NEW v,
           NEW n \in Nifs, NEW g \in NifAll
    PROVE  ConfigPut(C, i, f, v).nif[n][g] = IF n = i /\ g = f THEN v ELSE C.nif[n][g]
<1>1. ConfigPut(C, i, f, v).nif = [C.nif EXCEPT ![i] = [C.nif[i] EXCEPT ![f] = v]]
  BY DEF ConfigPut, ConfigType
<1>2. PICK F : F = C.nif
  OBVIOUS
<1>3. F \in [Nifs -> NifType]
  BY <1>2 DEF ConfigType
<1>4. DOMAIN F = Nifs /\ DOMAIN F[i] = NifAll
  BY <1>3 DEF NifType, NifAll, NifFields
<1>5. [F EXCEPT ![i] = [F[i] EXCEPT ![f] = v]][n] = IF n = i THEN [F[i] EXCEPT ![f] = v] ELSE F[n]
  BY <1>4
<1>6. [F[i] EXCEPT ![f] = v][g] = IF g = f THEN v ELSE F[i][g]
  <2>1. PICK R : R = F[i]
    OBVIOUS
  <2>2. DOMAIN R = NifAll
    BY <1>4, <2>1
  <2>3. [R EXCEPT ![f] = v][g] = IF g = f THEN v ELSE R[g]
    BY <2>2
  <2> QED  BY <2>1, <2>3
<1> QED  BY <1>1, <1>2, <1>5, <1>6

\* A field that takes a value, in the interface in force, and no other does.
LEMMA FigFieldApplied ==
    ASSUME ConfigInv, suIface \in Nifs, NEW g \in NifAll, NEW v, NEW arg,
           Config' = [Config EXCEPT !.nif[suIface][g] = v],
           v \in FigValue(suTok[1], arg, FigHalfNow, g),
           \A f \in NifAll \ {g} : FigValue(suTok[1], arg, FigHalfNow, f) = {}
    PROVE  FigApplied(arg)
<1>1. Config \in ConfigType /\ Config' = ConfigPut(Config, suIface, g, v)
  BY DEF ConfigInv, ConfigType, ConfigPut
<1>2. \A n \in Nifs, f \in NifAll :
        Config'.nif[n][f] = IF n = suIface /\ f = g THEN v ELSE Config.nif[n][f]
  <2>1. \A n \in Nifs, f \in NifAll : ConfigPut(Config, suIface, g, v).nif[n][f]
                                       = IF n = suIface /\ f = g THEN v ELSE Config.nif[n][f]
    BY <1>1, NifAfter
  <2> QED  BY <1>1, <2>1
<1> QED  BY <1>2 DEF FigApplied

LEMMA FigNothingApplied ==
    ASSUME Config' = Config, NEW arg,
           \A f \in NifAll : FigValue(suTok[1], arg, FigHalfNow, f) = {}
    PROVE  FigApplied(arg)
  BY DEF FigApplied

LEMMA FigWordApplied ==
    ASSUME ConfigInv, xfig_ifaceWord, suIface \in Nifs, NEW arg, suTok[1] # "type"
    PROVE  FigApplied(arg)
<1>e. "enabled" \in NifAll
  BY DEF NifAll
<1>1. CASE FigIs(FigOn) /\ FigSet("enabled", TRUE)
  <2>1. suTok[1] \in {"enable", "enabled"}
    BY <1>1 DEF FigIs, FigOn
  <2>2. TRUE \in FigValue(suTok[1], arg, FigHalfNow, "enabled")
    BY <2>1 DEF FigValue, FigOn
  <2>3. \A f \in NifAll \ {"enabled"} : FigValue(suTok[1], arg, FigHalfNow, f) = {}
    BY <2>1 DEF FigValue
  <2> QED  BY <1>e, <1>1, <2>2, <2>3, FigFieldApplied DEF FigSet
<1>2. CASE FigIs(FigOff) /\ FigSet("enabled", FALSE)
  <2>1. suTok[1] \in {"disable", "disabled"}
    BY <1>2 DEF FigIs, FigOff
  <2>2. FALSE \in FigValue(suTok[1], arg, FigHalfNow, "enabled")
    BY <2>1 DEF FigValue, FigOff
  <2>3. \A f \in NifAll \ {"enabled"} : FigValue(suTok[1], arg, FigHalfNow, f) = {}
    BY <2>1 DEF FigValue
  <2> QED  BY <1>e, <1>2, <2>2, <2>3, FigFieldApplied DEF FigSet
<1>3. CASE FigIs(Halves) /\ UNCHANGED Config
  <2>1. suTok[1] \in Halves
    BY <1>3 DEF FigIs
  <2>2. \A f \in NifAll : FigValue(suTok[1], arg, FigHalfNow, f) = {}
    BY <2>1, FigSilent
  <2> QED  BY <1>3, <2>2, FigNothingApplied
<1>4. CASE FigUnknown /\ UNCHANGED Config
  <2>1. CASE suTok[1] \in {"ddname", "cuu"} /\ suHalf = <<>>
    <3>1. \A f \in NifAll : FigValue(suTok[1], arg, "none", f) = {}
      BY <2>1 DEF FigValue, FigOn, FigOff
    <3>2. FigHalfNow = "none"
      BY <2>1 DEF FigHalfNow
    <3> QED  BY <1>4, <3>1, <3>2, FigNothingApplied
  <2>2. CASE suTok[1] \notin FigKeywords
    <3>1. \A f \in NifAll : FigValue(suTok[1], arg, FigHalfNow, f) = {}
      BY <2>2, FigSilent
    <3> QED  BY <1>4, <3>1, FigNothingApplied
  <2> QED  BY <1>4, <2>1, <2>2 DEF FigUnknown
<1> QED  BY <1>1, <1>2, <1>3, <1>4 DEF xfig_ifaceWord

LEMMA FigTypeApplied ==
    ASSUME ConfigInv, xfig_ifaceType, suIface \in Nifs PROVE FigApplied(FigOperand)
<1>1. suTok[1] = "type"
  BY DEF xfig_ifaceType, FigIs
<1>2. CASE FigOperand \in FigTypes
  <2>1. FigOperand \in FigValue("type", FigOperand, FigHalfNow, "type")
    BY <1>2 DEF FigValue
  <2>2. \A f \in NifAll \ {"type"} : FigValue("type", FigOperand, FigHalfNow, f) = {}
    BY <1>2 DEF FigValue, FigOn, FigOff
  <2>3. FigSet("type", FigOperand)
    BY <1>2 DEF xfig_ifaceType
  <2>4. "type" \in NifAll
    BY DEF NifAll, NifFields
  <2> QED  BY <1>1, <2>1, <2>2, <2>3, <2>4, FigFieldApplied DEF FigSet
<1>3. CASE FigOperand \notin FigTypes
  <2>1. FALSE \in FigValue("type", FigOperand, FigHalfNow, "enabled")
    BY <1>3 DEF FigValue
  <2>2. \A f \in NifAll \ {"enabled"} : FigValue("type", FigOperand, FigHalfNow, f) = {}
    BY <1>3 DEF FigValue
  <2>3. FigSet("enabled", FALSE)
    BY <1>3 DEF xfig_ifaceType
  <2>4. "enabled" \in NifAll
    BY DEF NifAll
  <2> QED  BY <1>1, <2>1, <2>2, <2>3, <2>4, FigFieldApplied DEF FigSet
<1> QED  BY <1>2, <1>3

LEMMA FigAddrApplied ==
    ASSUME ConfigInv, xfig_ifaceAddr, suIface \in Nifs PROVE FigApplied(FigOperand)
<1> DEFINE a == FigOperand
<1>1. CASE FigIs({"ip", "mask"}) /\ FigSet(suTok[1], a)
  <2>1. suTok[1] \in {"ip", "mask"}
    BY <1>1 DEF FigIs
  <2>2. a \in FigValue(suTok[1], a, FigHalfNow, suTok[1])
    BY <2>1 DEF FigValue
  <2>3. \A f \in NifAll \ {suTok[1]} : FigValue(suTok[1], a, FigHalfNow, f) = {}
    BY <2>1 DEF FigValue, FigOn, FigOff
  <2>4. suTok[1] \in NifAll
    BY <2>1 DEF NifAll, NifFields
  <2> QED  BY <1>1, <2>2, <2>3, <2>4, FigFieldApplied DEF FigSet
<1>2. CASE /\ FigIs({"defaultgw"})
           /\ Config' = [Config EXCEPT !.nif[suIface].gwip = a, !.nif[suIface].dfgw = TRUE]
  <2>1. suTok[1] = "defaultgw"
    BY <1>2 DEF FigIs
  <2> DEFINE C == [Config EXCEPT !.nif[suIface]["gwip"] = a]
  <2>2. Config \in ConfigType /\ C = ConfigPut(Config, suIface, "gwip", a)
    BY DEF ConfigInv, ConfigType, ConfigPut
  <2>3. C \in ConfigType
    BY <2>2, NifText, OperandType DEF NifFields, ConfigType
  <2>4. Config' = ConfigPut(C, suIface, "dfgw", TRUE)
    BY <1>2 DEF ConfigPut
  <2>5. "gwip" \in NifAll /\ "dfgw" \in NifAll
    BY DEF NifAll, NifFields
  <2> HIDE DEF C, a
  <2>6. \A n \in Nifs, f \in NifAll :
          C.nif[n][f] = IF n = suIface /\ f = "gwip" THEN a ELSE Config.nif[n][f]
    BY <2>2, <2>5, NifAfter
  <2>7. \A n \in Nifs, f \in NifAll :
          Config'.nif[n][f] = IF n = suIface /\ f = "dfgw" THEN TRUE ELSE C.nif[n][f]
    <3>1. \A n \in Nifs, f \in NifAll : ConfigPut(C, suIface, "dfgw", TRUE).nif[n][f]
                                         = IF n = suIface /\ f = "dfgw" THEN TRUE ELSE C.nif[n][f]
      <4>1. ASSUME NEW v
            PROVE  \A n \in Nifs, f \in NifAll : ConfigPut(C, suIface, "dfgw", v).nif[n][f]
                                           = IF n = suIface /\ f = "dfgw" THEN v ELSE C.nif[n][f]
        BY <2>3, <2>5, NifAfter
      <4> QED  BY <4>1, Zenon
    <3> QED  BY <2>4, <3>1
  <2>8. /\ a \in FigValue("defaultgw", a, FigHalfNow, "gwip")
        /\ TRUE \in FigValue("defaultgw", a, FigHalfNow, "dfgw")
        /\ \A f \in NifAll \ {"gwip", "dfgw"} : FigValue("defaultgw", a, FigHalfNow, f) = {}
    BY DEF FigValue, FigOn, FigOff
  <2>9. FigApplied(a)
    <3> SUFFICES ASSUME NEW n \in Nifs, NEW f \in NifAll
                 PROVE  LET v == FigValue("defaultgw", a, FigHalfNow, f) IN
                        \/ Config'.nif[n][f] = Config.nif[n][f] /\ (n # suIface \/ v = {})
                        \/ n = suIface /\ Config'.nif[n][f] \in v
      BY <2>1 DEF FigApplied
    <3>1. CASE n # suIface \/ f \notin {"gwip", "dfgw"}
      BY <2>6, <2>7, <2>8, <3>1, ZenonT(50)
    <3>2. CASE n = suIface /\ f = "gwip"
      BY <2>5, <2>6, <2>7, <2>8, <3>2, ZenonT(50)
    <3>3. CASE n = suIface /\ f = "dfgw"
      BY <2>5, <2>7, <2>8, <3>3
    <3> QED  BY <3>1, <3>2, <3>3
  <2> QED  BY <2>9 DEF a
<1> QED  BY <1>1, <1>2 DEF xfig_ifaceAddr

LEMMA FigHalfApplied ==
    ASSUME ConfigInv, xfig_ifaceHalf, suIface \in Nifs, suHalf[1] = suIface
    PROVE  FigApplied(FigOperand)
<1> DEFINE a == FigOperand
           g == HalfField[suHalf[2]][suTok[1]]
<1>1. suTok[1] \in {"ddname", "cuu"} /\ suHalf # <<>> /\ suHalf[2] \in Halves
  BY DEF xfig_ifaceHalf, FigIs, ConfigInv
<1>2. g \in {"readdd", "readcuu", "writedd", "writecuu"}
  BY <1>1 DEF HalfField, Halves
<1>3. Config' = [Config EXCEPT !.nif[suIface][g] = a]
  BY DEF xfig_ifaceHalf
<1>4. FigHalfNow = suHalf[2] /\ FigHalfNow # "none"
  BY <1>1 DEF FigHalfNow, Halves
<1>5. \A f \in NifAll : FigValue(suTok[1], a, FigHalfNow, f) = IF f = g THEN {a} ELSE {}
  <2>1. suTok[1] \notin FigOn \cup FigOff /\ suTok[1] \notin {"type", "ip", "mask", "defaultgw"}
    BY <1>1 DEF FigOn, FigOff
  <2>2. g = HalfField[FigHalfNow][suTok[1]]
    BY <1>4
  <2> HIDE DEF g, a
  <2> QED  BY <1>1, <1>2, <1>4, <2>1, <2>2 DEF FigValue
<1>6. g \in NifAll
  BY <1>2 DEF NifAll, NifFields
<1> HIDE DEF g, a
<1>7. a \in FigValue(suTok[1], a, FigHalfNow, g)
  BY <1>5, <1>6
<1>8. \A f \in NifAll \ {g} : FigValue(suTok[1], a, FigHalfNow, f) = {}
  BY <1>5
<1>9. FigApplied(a)
  BY <1>3, <1>6, <1>7, <1>8, FigFieldApplied
<1> QED  BY <1>9 DEF a

-----------------------------------------------------------------------------
(* xfig_iface at token k + 1 of the line with the tokens t.                *)
FigHere(t, k) ==
    /\ t = FigNow /\ k = FigK
    /\ t \in Seq(STRING) /\ Len(t) \in 1..(MAX_TOKENS + 1) /\ t[1] = "iface"
    /\ k \in Nat /\ Len(suTok) \in Nat /\ Len(suTok) = Len(t) - k
    /\ suTok # <<>> <=> Len(suTok) > 0
    /\ \A i \in 1..Len(suTok) : suTok[i] = t[k + i]

LEMMA FigFileLine ==
    ASSUME FigInv, NEW l \in DOMAIN suFile
    PROVE  /\ suFile[l] \in SuLines /\ FigTokens(l) \in Seq(STRING)
           /\ Len(FigTokens(l)) \in 0..(MAX_TOKENS + 1) /\ l \in 1..Len(suFile)
<1>1. suFile \in Seq(SuLines)
  BY DEF FigInv
<1>2. suFile[l] \in SuLines /\ l \in 1..Len(suFile)
  BY <1>1
<1>3. Len(FigTokens(l)) \in Nat
  BY <1>2, TokenizeLine DEF FigTokens
<1>4. Len(FigTokens(l)) <= MAX_TOKENS + 1
  BY <1>2, TokenizeLine DEF FigTokens
<1>5. Len(FigTokens(l)) \in 0..(MAX_TOKENS + 1)
  <2>1. PICK m : m = Len(FigTokens(l))
    OBVIOUS
  <2>2. m \in Nat /\ m <= 10 + 1
    BY <1>3, <1>4, <2>1 DEF MAX_TOKENS
  <2>3. m \in 0..(10 + 1)
    BY <2>2
  <2> QED  BY <2>1, <2>3 DEF MAX_TOKENS
<1>6. FigTokens(l) \in Seq(STRING)
  BY <1>2, TokenizeLine DEF FigTokens
<1> QED  BY <1>2, <1>5, <1>6

LEMMA FigHereNow ==
    ASSUME FigInv, ConfigInv, suPc = "iface" PROVE \E t, k : FigHere(t, k)
<1>1. FigAtWork
  BY DEF FigInv
<1>2. Len(suFile) \in DOMAIN suFile
  <2>1. suFile \in Seq(SuLines) /\ Len(suFile) > 0
    BY <1>1 DEF FigInv, FigAtWork
  <2> QED  BY <2>1
<1>3. FigNow \in Seq(STRING) /\ Len(FigNow) \in 0..(MAX_TOKENS + 1)
  BY <1>2, FigFileLine DEF FigNow
<1>4. FigNow # <<>> /\ FigNow[1] = "iface"
  BY <1>1 DEF FigAtWork
<1>5. Len(FigNow) # 0
  BY <1>3, <1>4
<1>6. Len(FigNow) \in 1..(MAX_TOKENS + 1)
  BY <1>3, <1>5 DEF MAX_TOKENS
<1>7. suTok \in Seq(FigWords) /\ Len(suTok) <= Len(FigNow)
  BY <1>1 DEF ConfigInv, FigAtWork
<1>8. Len(suTok) \in Nat /\ (suTok # <<>> <=> Len(suTok) > 0)
  BY <1>7
<1>9. FigK \in Nat /\ Len(suTok) = Len(FigNow) - FigK
  BY <1>6, <1>7, <1>8 DEF FigK, MAX_TOKENS
<1>10. \A i \in 1..Len(suTok) : suTok[i] = FigNow[FigK + i]
  BY <1>1 DEF FigAtWork
<1>11. FigHere(FigNow, FigK)
  BY <1>3, <1>4, <1>6, <1>8, <1>9, <1>10 DEF FigHere
<1> QED  BY <1>11

\* The places handled, when j more tokens of the line are.
LEMMA FigHandledMore ==
    ASSUME FigInv, NEW t, NEW k, FigHere(t, k), Len(suFile) > 0, UNCHANGED suFile,
           NEW j \in Nat, j <= Len(suTok), Len(suTok') = Len(suTok) - j
    PROVE  FigHandled' = FigHandled \cup ({Len(suFile)} \X ((k + 1)..(k + j)))
<1> DEFINE L == Len(suFile)
           N == {L} \X ((k + 1)..(k + j))
<1>0. suFile \in Seq(SuLines) /\ L \in Nat /\ DOMAIN suFile = 1..L /\ L \in DOMAIN suFile
  BY DEF FigInv
<1>1. /\ t = FigTokens(L) /\ t # <<>> /\ t[1] = "iface" /\ k \in Nat /\ Len(t) \in Nat
      /\ Len(t) <= MAX_TOKENS + 1 /\ k + j <= Len(t)
  <2>1. /\ t = FigTokens(L) /\ t \in Seq(STRING) /\ t[1] = "iface" /\ k \in Nat
        /\ Len(t) \in 1..(MAX_TOKENS + 1) /\ Len(suTok) = Len(t) - k /\ Len(suTok) \in Nat
    BY DEF FigHere, FigNow
  <2>2. Len(t) \in Nat /\ Len(t) <= MAX_TOKENS + 1 /\ Len(t) >= 1 /\ k + j <= Len(t)
    BY <2>1, SMTT(40) DEF MAX_TOKENS
  <2>3. t # <<>>
    BY <2>1, <2>2
  <2> QED  BY <2>1, <2>2, <2>3
<1>2. FigPlaces' = FigPlaces /\ Len(suFile)' = L
  BY DEF FigPlaces, FigTokens
<1>3. FigK' = k + j
  <2>1. FigNow' = FigNow
    BY DEF FigNow, FigTokens
  <2>2. FigK' = Len(t) - (Len(suTok) - j)
    BY <2>1 DEF FigK, FigHere
  <2>3. Len(suTok) = Len(t) - k
    BY DEF FigHere
  <2> QED  BY <1>1, <2>2, <2>3
<1>4. FigHandled' = {p \in FigPlaces : p[1] < L \/ p[2] <= k + j}
  BY <1>2, <1>3 DEF FigHandled
<1>5. FigHandled = {p \in FigPlaces : p[1] < L \/ p[2] <= k}
  BY DEF FigHandled, FigHere
<1>6. ASSUME NEW p \in FigPlaces
      PROVE  /\ p = <<p[1], p[2]>> /\ p[1] \in Nat /\ p[1] <= L /\ p[2] \in Nat
  <2>1. p \in (DOMAIN suFile) \X (1..(MAX_TOKENS + 1))
    BY DEF FigPlaces
  <2> QED  BY <1>0, <2>1 DEF MAX_TOKENS
<1>7. ASSUME NEW p \in N PROVE p \in FigPlaces /\ p[1] = L /\ p[2] \in (k + 1)..(k + j)
  <2>1. p[1] = L /\ p[2] \in (k + 1)..(k + j) /\ p = <<p[1], p[2]>>
    BY <1>7
  <2>2. p[2] \in 1..(MAX_TOKENS + 1) /\ p[2] <= Len(t)
    <3>1. PICK m : m = p[2]
      OBVIOUS
    <3>2. PICK e : e = Len(t)
      OBVIOUS
    <3>3. m \in (k + 1)..(k + j) /\ k \in Nat /\ e \in Nat /\ e <= 11 /\ k + j <= e
      BY <1>1, <2>1, <3>1, <3>2 DEF MAX_TOKENS
    <3>4. m \in 1..11 /\ m <= e
      BY <3>3
    <3> QED  BY <3>1, <3>2, <3>4 DEF MAX_TOKENS
  <2>3. p \in (DOMAIN suFile) \X (1..(MAX_TOKENS + 1))
    BY <1>0, <2>1, <2>2
  <2> QED  BY <1>1, <2>1, <2>2, <2>3 DEF FigPlaces
<1>8. ASSUME NEW p \in FigPlaces, ~(p[1] < L \/ p[2] <= k), p[2] <= k + j PROVE p \in N
  <2>1. p[1] = L /\ p[2] \in (k + 1)..(k + j) /\ p = <<p[1], p[2]>>
    BY <1>0, <1>1, <1>6, <1>8
  <2> QED  BY <2>1
<1>9. \A p \in FigPlaces : p[1] < L \/ p[2] <= k => p[1] < L \/ p[2] <= k + j
  <2> SUFFICES ASSUME NEW p \in FigPlaces, p[2] <= k PROVE p[2] <= k + j
    OBVIOUS
  <2> QED  BY <1>1, <1>6
<1>10. \A p \in N : p[2] <= k + j
  BY <1>1, <1>7
<1> HIDE DEF N, L
<1> QED  BY <1>4, <1>5, <1>7, <1>8, <1>9, <1>10 DEF N, L

\* One keyword and, where it has one, its operand: the keyword gives every
\* field that changes its value.
LEMMA FigAdvance ==
    ASSUME FigInv, ConfigInv, ConfigInv', NEW t, NEW k, FigHere(t, k), Len(suFile) > 0,
           UNCHANGED suFile, FigSettled(FigHandled),
           NEW j \in {1, 2}, j <= Len(suTok), Len(suTok') = Len(suTok) - j,
           j = 2 => t[k + 2] \notin FigKeywords,
           \A n \in Nifs, f \in NifAll :
               \/ Config'.nif[n][f] = Config.nif[n][f] /\ FigGives(t, k + 1, n, f) = {}
               \/ Config'.nif[n][f] \in FigGives(t, k + 1, n, f)
    PROVE  FigSettled(FigHandled)'
<1> DEFINE L == Len(suFile)
           N == {L} \X ((k + 1)..(k + j))
<1>0. suFile \in Seq(SuLines) /\ L \in Nat /\ DOMAIN suFile = 1..L
  BY DEF FigInv
<1>1. k \in Nat /\ t = FigTokens(L)
  BY DEF FigHere, FigNow
<1>2. PICK P : P = FigHandled
  OBVIOUS
<1>3. FigHandled' = P \cup N
  BY <1>2, FigHandledMore
<1>4. \A p : FigTokens(p[1])' = FigTokens(p[1])
  BY DEF FigTokens
<1>5. \A p \in P, q \in N : FigBefore(p, q)
  <2> SUFFICES ASSUME NEW p \in P, NEW q \in N PROVE FigBefore(p, q)
    OBVIOUS
  <2>1. q[1] = L /\ q[2] \in (k + 1)..(k + j)
    OBVIOUS
  <2>2. /\ p \in (DOMAIN suFile) \X (1..(MAX_TOKENS + 1)) /\ (p[1] < L \/ p[2] <= k)
    BY <1>2 DEF FigHandled, FigPlaces, FigHere
  <2>3. p[1] \in 1..L /\ p[2] \in Nat
    BY <1>0, <2>2 DEF MAX_TOKENS
  <2> QED  BY <1>0, <1>1, <2>1, <2>2, <2>3 DEF FigBefore
<1>6. DOMAIN Config.nif[0] = NifAll /\ DOMAIN Config'.nif[0] = NifAll
  <2>1. /\ Config \in [megate : BOOLEAN, nif : [Nifs -> NifType]]
        /\ Config' \in [megate : BOOLEAN, nif : [Nifs -> NifType]]
    BY DEF ConfigInv
  <2>2. 0 \in Nifs
    BY DEF Nifs
  <2> QED  BY <2>1, <2>2, NifDomain
<1>7. ASSUME NEW n \in Nifs, NEW f \in NifAll
      PROVE  \/ /\ Config'.nif[n][f] = Config.nif[n][f]
                /\ \A q \in N : FigSays(q, n, f)' = {}
             \/ \E q \in N :
                 /\ Config'.nif[n][f] \in FigSays(q, n, f)'
                 /\ \A r \in N : FigSays(r, n, f)' # {} => FigBefore(r, q)
  <2>1. \A q \in N : q[1] = L /\ (q[2] = k + 1 \/ (q[2] = k + 2 /\ j = 2))
    BY <1>1
  <2>2. \A q \in N : FigSays(q, n, f)' = FigGives(t, q[2], n, f)
    BY <1>1, <1>4, <2>1 DEF FigSays
  <2>3. j = 2 => FigGives(t, k + 2, n, f) = {}
    BY FigSilent DEF FigGives
  <2>4. <<L, k + 1>> \in N
    BY <1>1
  <2>5. CASE Config'.nif[n][f] = Config.nif[n][f] /\ FigGives(t, k + 1, n, f) = {}
    BY <2>1, <2>2, <2>3, <2>5
  <2>6. CASE Config'.nif[n][f] \in FigGives(t, k + 1, n, f)
    <3>1. PICK q \in N : q = <<L, k + 1>>
      BY <2>4
    <3>2. q[1] = L /\ q[2] = k + 1
      BY <3>1
    <3>3. Config'.nif[n][f] \in FigSays(q, n, f)'
      BY <2>2, <2>6, <3>2
    <3>4. ASSUME NEW r \in N, FigSays(r, n, f)' # {} PROVE FigBefore(r, q)
      <4>1. FigGives(t, r[2], n, f) # {}
        BY <2>2, <3>4
      <4>2. r[1] = L /\ r[2] = k + 1
        BY <2>1, <2>3, <4>1
      <4> QED  BY <1>0, <1>1, <3>2, <4>2 DEF FigBefore
    <3> QED  BY <3>3, <3>4
  <2> QED  BY <2>5, <2>6
<1>8. FigSettled(P)
  BY <1>2
<1> HIDE DEF N, L
<1>9. FigSettled(P \cup N)'
  <2>1. PICK M : M = N
    OBVIOUS
  <2>2. FigSettled(P \cup M)'
    BY <1>4, <1>5, <1>6, <1>7, <1>8, <2>1, FigExtend
  <2>3. N' = M
    BY <2>1 DEF N, L
  <2> QED  BY <2>2, <2>3
<1>10. FigHandled' = (P \cup N)'
  BY <1>3 DEF N, L
<1> QED  BY <1>9, <1>10

LEMMA FigGivesNow ==
    ASSUME NEW t, NEW k, FigHere(t, k), suTok # <<>>, FigIfaces(t, k) # {},
           FigStatics(t, k, suIface, suHalf), suTok[1] # "iface", FigApplied(FigArg(t, k + 1)),
           NEW n \in Nifs, NEW f \in NifAll
    PROVE  \/ Config'.nif[n][f] = Config.nif[n][f] /\ FigGives(t, k + 1, n, f) = {}
           \/ Config'.nif[n][f] \in FigGives(t, k + 1, n, f)
<1> DEFINE arg == FigArg(t, k + 1)
<1>1. k \in Nat /\ suTok[1] = t[k + 1]
  BY DEF FigHere
<1>2. FigIfaceAt(t, k + 1) = NifNames[suIface + 1] /\ suIface \in Nifs
  BY <1>1, FigIfaceStays DEF FigStatics
<1>3. FigIfaceAt(t, k + 1) = NifNames[n + 1] <=> n = suIface
  BY <1>2 DEF NifNames, Nifs
<1>4. FigValue(t[k + 1], arg, FigHalfAt(t, k + 1), f) = FigValue(suTok[1], arg, FigHalfNow, f)
  <2>1. CASE suTok[1] \in Halves
    BY <1>1, <2>1, FigSilent
  <2>2. CASE suTok[1] \notin Halves
    <3>1. \A i \in (k + 1)..(k + 1) : t[i] # "iface" /\ t[i] \notin Halves
      BY <1>1, <2>2
    <3>2. FigHalfAt(t, k + 1) = FigHalfAt(t, k)
      <4>1. k + 1 \in Nat /\ k <= k + 1
        BY <1>1
      <4> QED  BY <1>1, <3>1, <4>1, FigStaticsStay
    <3>3. FigHalfNow = FigHalfAt(t, k)
      BY DEF FigStatics, FigHalfNow
    <3> QED  BY <1>1, <3>2, <3>3
  <2> QED  BY <2>1, <2>2
<1>5. FigGives(t, k + 1, n, f) = IF n = suIface THEN FigValue(suTok[1], arg, FigHalfNow, f) ELSE {}
  BY <1>3, <1>4 DEF FigGives
<1>6. \/ Config'.nif[n][f] = Config.nif[n][f]
         /\ (n # suIface \/ FigValue(suTok[1], arg, FigHalfNow, f) = {})
      \/ n = suIface /\ Config'.nif[n][f] \in FigValue(suTok[1], arg, FigHalfNow, f)
  BY DEF FigApplied
<1> QED  BY <1>5, <1>6

\* The tokens that are left after one, or two.
FigMoved(j) ==
    /\ j \in {1, 2} /\ j <= Len(suTok) /\ Len(suTok') = Len(suTok) - j
    /\ \A i \in 1..Len(suTok') : suTok'[i] = suTok[i + j]

LEMMA FigNextMoves == ASSUME ConfigInv, suTok # <<>>, FigNext PROVE FigMoved(1)
<1>1. suTok \in Seq(FigWords) /\ suTok' = Tail(suTok)
  BY DEF ConfigInv, FigNext
<1> QED  BY <1>1 DEF FigMoved

LEMMA FigPastMoves ==
    ASSUME ConfigInv, suTok # <<>>, FigPast, suPc' # "ended"
    PROVE  /\ UNCHANGED suPc
           /\ FigMoved(IF Len(suTok) > 1 THEN 2 ELSE 1)
<1>1. suTok \in Seq(FigWords) /\ Len(suTok) \in Nat /\ Len(suTok) > 0
  BY DEF ConfigInv
<1>2. CASE Len(suTok) > 1
  <2>1. suTok' = Tail(Tail(suTok)) /\ suPc' = suPc
    BY <1>2 DEF FigPast
  <2>2. PICK s : s = Tail(suTok)
    OBVIOUS
  <2>3. s \in Seq(FigWords) /\ Len(s) = Len(suTok) - 1 /\ \A i \in 1..Len(s) : s[i] = suTok[i + 1]
    BY <1>1, <2>2
  <2>4. s # <<>>
    BY <1>1, <1>2, <2>3
  <2>5. /\ Len(Tail(s)) = Len(s) - 1 /\ Tail(s) \in Seq(FigWords)
        /\ \A i \in 1..Len(Tail(s)) : Tail(s)[i] = s[i + 1]
    BY <2>3, <2>4
  <2>6. \A i \in 1..Len(Tail(s)) : Tail(s)[i] = suTok[i + 2]
    <3> SUFFICES ASSUME NEW i \in 1..Len(Tail(s)) PROVE Tail(s)[i] = suTok[i + 2]
      OBVIOUS
    <3>1. i \in Int /\ i + 1 \in 1..Len(s) /\ (i + 1) + 1 = i + 2
      BY <1>1, <2>3, <2>5
    <3> QED  BY <2>3, <2>5, <3>1
  <2>7. Len(Tail(s)) = Len(suTok) - 2
    BY <1>1, <2>3, <2>5
  <2>8. suTok' = Tail(s)
    BY <2>1, <2>2
  <2>9. FigMoved(2)
    <3>1. Len(suTok) >= 2 /\ Len(suTok') = Len(suTok) - 2
      BY <1>1, <1>2, <2>7, <2>8
    <3>2. \A i \in 1..Len(suTok') : suTok'[i] = suTok[i + 2]
      BY <2>6, <2>8
    <3> QED  BY <1>1, <3>1, <3>2 DEF FigMoved
  <2> QED  BY <1>2, <2>1, <2>9
<1>3. CASE ~(Len(suTok) > 1)
  <2>1. suTok' = <<>> /\ suPc' = suPc
    BY <1>3 DEF FigPast, SuLeave
  <2>2. Len(suTok') = 0 /\ Len(suTok) = 1
    <3>1. Len(<<>>) = 0
      OBVIOUS
    <3>2. Len(suTok) = 1
      <4>1. PICK m : m = Len(suTok)
        OBVIOUS
      <4>2. m \in Nat /\ m > 0 /\ ~(m > 1)
        BY <1>1, <1>3, <4>1
      <4>3. m = 1
        BY <4>2
      <4> QED  BY <4>1, <4>3
    <3> QED  BY <2>1, <3>1, <3>2
  <2>3. FigMoved(1)
    BY <2>2 DEF FigMoved
  <2> QED  BY <1>3, <2>1, <2>3
<1> QED  BY <1>2, <1>3

\* The rest of the line stays the rest of the line.
LEMMA FigWorkKept ==
    ASSUME FigInv, NEW t, NEW k, FigHere(t, k), suPc = "iface", suPc' = "iface", UNCHANGED suFile,
           NEW j \in {1, 2}, FigMoved(j),
           FigAllPlain => FigSettled(FigHandled)',
           FigAllPlain /\ suTok' # <<>> => FigStatics(t, k + j, suIface, suHalf)'
    PROVE  FigInv'
<1>1. FigAtWork
  BY DEF FigInv
<1>2. /\ Len(suTok) \in Nat /\ k \in Nat /\ Len(t) \in Nat /\ Len(suTok) = Len(t) - k
      /\ t = FigNow /\ \A i \in 1..Len(suTok) : suTok[i] = t[k + i]
  <2>1. Len(t) \in Nat
    BY DEF FigHere, MAX_TOKENS
  <2> QED  BY <2>1 DEF FigHere
<1>3. FigNow' = t /\ FigAllPlain' = FigAllPlain /\ Len(suFile)' = Len(suFile)
  BY <1>2 DEF FigNow, FigAllPlain, FigTokens, FigPlain
<1>4. /\ Len(suTok') = Len(suTok) - j /\ j <= Len(suTok)
      /\ \A i \in 1..Len(suTok') : suTok'[i] = suTok[i + j]
  BY DEF FigMoved
<1>5. FigK' = k + j
  <2>1. FigK' = Len(t) - Len(suTok')
    BY <1>3 DEF FigK
  <2> QED  BY <1>2, <1>4, <2>1
<1>6. \A i \in 1..Len(suTok') : suTok'[i] = t[(k + j) + i]
  <2> SUFFICES ASSUME NEW i \in 1..Len(suTok') PROVE suTok'[i] = t[(k + j) + i]
    OBVIOUS
  <2>1. i + j \in 1..Len(suTok) /\ k + (i + j) = (k + j) + i
    <3>1. PICK l \in Nat, m \in Nat : l = Len(suTok) /\ m = k
      BY <1>2
    <3>2. i \in 1..(l - j) /\ j <= l /\ j \in Nat
      BY <1>4, <3>1
    <3>3. i + j \in 1..l /\ m + (i + j) = (m + j) + i
      BY <3>2
    <3> QED
      BY <3>1, <3>3
  <2> QED  BY <1>2, <1>4, <2>1
<1>7. Len(suTok') <= Len(t)
  BY <1>2, <1>4
<1>8. FigAtWork'
  <2>1. Len(suFile)' > 0 /\ FigNow' # <<>> /\ FigNow'[1] = "iface"
    BY <1>1, <1>2, <1>3 DEF FigAtWork
  <2>2. FigAllPlain' => FigSettled(FigHandled)'
    BY <1>3
  <2>3. FigAllPlain' /\ suTok' # <<>> => FigStatics(FigNow, FigK, suIface, suHalf)'
    BY <1>3, <1>5 DEF FigStatics
  <2> QED  BY <1>3, <1>5, <1>6, <1>7, <2>1, <2>2, <2>3 DEF FigAtWork
<1>9. suFile' \in Seq(SuLines)
  BY DEF FigInv
<1> QED  BY <1>8, <1>9 DEF FigInv, FigRead

LEMMA FigLeft ==
    ASSUME FigInv, suPc' \in {"ended", "run"}, UNCHANGED suFile PROVE FigInv'
  BY DEF FigInv, FigRead

\* A keyword that is not iface: FigApplied says what it does, and it leaves
\* the statics as they are.
LEMMA FigKeywordStep ==
    ASSUME FigInv, ConfigInv, ConfigInv', NEW t, NEW k, FigHere(t, k), suPc = "iface",
           suPc' = "iface", UNCHANGED <<suFile, suIface, suHalf>>, suTok # <<>>,
           suTok[1] # "iface", suTok[1] \notin Halves,
           NEW j \in {1, 2}, FigMoved(j), j = 2 => suTok[1] \in FigTakesOperand,
           suIface \in Nifs /\ (suHalf # <<>> => suHalf[1] = suIface) => FigApplied(FigArg(t, k + 1))
    PROVE  FigInv'
<1>0. FigAtWork /\ Len(suFile) > 0
  BY DEF FigInv, FigAtWork
<1>1. /\ k \in Nat /\ t[1] = "iface" /\ Len(suTok) = Len(t) - k /\ Len(t) \in Nat
      /\ suTok[1] = t[k + 1] /\ Len(suTok) > 0 /\ Len(suTok) \in Nat
  BY DEF FigHere, MAX_TOKENS
<1>2. k > 0
  BY <1>1
<1>3. FigIfaces(t, k) # {}
  <2>1. 1 \in FigIfaces(t, k)
    BY <1>1, <1>2 DEF FigIfaces
  <2> QED  BY <2>1
<1>4. ASSUME FigAllPlain
      PROVE  /\ FigStatics(t, k, suIface, suHalf) /\ FigSettled(FigHandled)
             /\ j = 2 => t[k + 2] \notin FigKeywords
  <2>1. FigStatics(t, k, suIface, suHalf) /\ FigSettled(FigHandled)
    BY <1>0, <1>2, <1>4 DEF FigAtWork, FigHere
  <2>2. FigPlain(t)
    <3>1. Len(suFile) \in DOMAIN suFile
      <4>1. suFile \in Seq(SuLines)
        BY DEF FigInv
      <4> QED  BY <1>0, <4>1
    <3> QED  BY <1>4, <3>1 DEF FigAllPlain, FigHere, FigNow
  <2>3. j = 2 => k + 1 \in 1..(Len(t) - 1)
    BY <1>1 DEF FigMoved
  <2>4. (k + 1) + 1 = k + 2
    BY <1>1
  <2>5. j = 2 => t[(k + 1) + 1] \notin FigKeywords
    BY <1>1, <2>2, <2>3 DEF FigPlain
  <2> QED  BY <2>1, <2>4, <2>5
<1>5. FigAllPlain => FigSettled(FigHandled)'
  <2> SUFFICES ASSUME FigAllPlain PROVE FigSettled(FigHandled)'
    OBVIOUS
  <2>1. suHalf # <<>> => suHalf[1] = suIface
    BY <1>4 DEF FigStatics
  <2>2. FigApplied(FigArg(t, k + 1))
    BY <1>4, <2>1 DEF FigStatics
  <2>3. \A n \in Nifs, f \in NifAll :
          \/ Config'.nif[n][f] = Config.nif[n][f] /\ FigGives(t, k + 1, n, f) = {}
          \/ Config'.nif[n][f] \in FigGives(t, k + 1, n, f)
    BY <1>3, <1>4, <2>2, FigGivesNow
  <2>4. j <= Len(suTok) /\ Len(suTok') = Len(suTok) - j
    BY DEF FigMoved
  <2> QED  BY <1>0, <1>4, <2>3, <2>4, FigAdvance
<1>6. FigAllPlain /\ suTok' # <<>> => FigStatics(t, k + j, suIface, suHalf)'
  <2> SUFFICES ASSUME FigAllPlain PROVE FigStatics(t, k + j, suIface, suHalf)'
    OBVIOUS
  <2>1. \A i \in (k + 1)..(k + j) : t[i] # "iface" /\ t[i] \notin Halves
    <3> SUFFICES ASSUME NEW i \in (k + 1)..(k + j) PROVE t[i] # "iface" /\ t[i] \notin Halves
      OBVIOUS
    <3>1. i = k + 1 \/ (j = 2 /\ i = k + 2)
      BY <1>1
    <3>2. {"iface"} \cup Halves \subseteq FigKeywords
      BY DEF FigKeywords, FigTakesOperand
    <3> QED  BY <1>1, <1>4, <3>1, <3>2
  <2>2. k + j \in Nat /\ k <= k + j
    BY <1>1
  <2>3. FigIfaceAt(t, k + j) = FigIfaceAt(t, k) /\ FigHalfAt(t, k + j) = FigHalfAt(t, k)
    BY <1>1, <1>3, <2>1, <2>2, FigStaticsStay
  <2>4. FigStatics(t, k + j, suIface, suHalf)
    BY <1>4, <2>3 DEF FigStatics
  <2> QED  BY <2>4 DEF FigStatics
<1> QED  BY <1>5, <1>6, FigWorkKept

\* read and write.
LEMMA FigHalfStep ==
    ASSUME FigInv, ConfigInv, ConfigInv', NEW t, NEW k, FigHere(t, k), suPc = "iface",
           suPc' = "iface", UNCHANGED <<suFile, suIface, Config>>, suTok # <<>>,
           suTok[1] \in Halves, suHalf' = <<suIface, suTok[1]>>, FigMoved(1)
    PROVE  FigInv'
<1>0. FigAtWork /\ Len(suFile) > 0
  BY DEF FigInv, FigAtWork
<1>1. /\ k \in Nat /\ t[1] = "iface" /\ Len(suTok) = Len(t) - k /\ Len(t) \in Nat
      /\ suTok[1] = t[k + 1] /\ Len(suTok) > 0 /\ Len(suTok) \in Nat
  BY DEF FigHere, MAX_TOKENS
<1>2. k > 0
  <2>1. "iface" \notin Halves
    BY DEF Halves
  <2> QED  BY <1>1, <2>1
<1>3. FigIfaces(t, k) # {}
  <2>1. 1 \in FigIfaces(t, k)
    BY <1>1, <1>2 DEF FigIfaces
  <2> QED  BY <2>1
<1>4. FigAllPlain => FigStatics(t, k, suIface, suHalf) /\ FigSettled(FigHandled)
  BY <1>0, <1>2 DEF FigAtWork, FigHere
<1>5. FigAllPlain => FigSettled(FigHandled)'
  <2> SUFFICES ASSUME FigAllPlain PROVE FigSettled(FigHandled)'
    OBVIOUS
  <2>1. \A n \in Nifs, f \in NifAll :
          Config'.nif[n][f] = Config.nif[n][f] /\ FigGives(t, k + 1, n, f) = {}
    BY <1>1, FigSilent DEF FigGives
  <2>2. Len(suTok') = Len(suTok) - 1 /\ 1 <= Len(suTok)
    BY DEF FigMoved
  <2> QED  BY <1>0, <1>4, <2>1, <2>2, FigAdvance
<1>6. FigAllPlain /\ suTok' # <<>> => FigStatics(t, k + 1, suIface, suHalf)'
  <2> SUFFICES ASSUME FigAllPlain PROVE FigStatics(t, k + 1, suIface, suHalf)'
    OBVIOUS
  <2>1. t[k + 1] # "iface" /\ t[k + 1] # "none"
    BY <1>1 DEF Halves
  <2>2. FigIfaceAt(t, k + 1) = FigIfaceAt(t, k)
    BY <1>1, <2>1, FigIfaceStays
  <2>3. FigHalfAt(t, k + 1) = t[k + 1]
    BY <1>1, <1>3, FigHalfChosen
  <2>4. suIface' \in Nifs /\ FigIfaceAt(t, k + 1) = NifNames[suIface' + 1]
    BY <1>4, <2>2 DEF FigStatics
  <2>5. suHalf' = <<suIface', FigHalfAt(t, k + 1)>>
    BY <1>1, <2>3
  <2> QED  BY <2>1, <2>3, <2>4, <2>5 DEF FigStatics
<1> QED  BY <1>5, <1>6, FigWorkKept

\* iface and its number.
LEMMA FigNumberStep ==
    ASSUME FigInv, ConfigInv, ConfigInv', NEW t, NEW k, FigHere(t, k), suPc = "iface",
           suPc' = "iface", UNCHANGED <<suFile, Config>>, suTok # <<>>, suTok[1] = "iface",
           suHalf' = <<>>, suIface' = FigNumber, NEW j, j = IF Len(suTok) > 1 THEN 2 ELSE 1,
           FigMoved(j)
    PROVE  FigInv'
<1>0. FigAtWork /\ Len(suFile) > 0
  BY DEF FigInv, FigAtWork
<1>1. /\ k \in Nat /\ t[1] = "iface" /\ Len(suTok) = Len(t) - k /\ Len(t) \in Nat
      /\ suTok[1] = t[k + 1] /\ Len(suTok) > 0 /\ Len(suTok) \in Nat
      /\ \A i \in 1..Len(suTok) : suTok[i] = t[k + i]
  BY DEF FigHere, MAX_TOKENS
<1>2. j \in {1, 2} /\ j <= Len(suTok) /\ Len(suTok') = Len(suTok) - j
  BY DEF FigMoved
<1>3. ASSUME FigAllPlain, j = 2
      PROVE  t[k + 2] \notin FigKeywords /\ t[k + 2] \in ToSet(NifNames)
  <2>1. Len(suFile) \in DOMAIN suFile
    <3>1. suFile \in Seq(SuLines)
      BY DEF FigInv
    <3> QED  BY <1>0, <3>1
  <2>2. FigPlain(t)
    BY <1>3, <2>1 DEF FigAllPlain, FigHere, FigNow
  <2>3. k + 1 \in 1..(Len(t) - 1) /\ (k + 1) + 1 = k + 2
    BY <1>1, <1>2, <1>3
  <2>4. t[k + 1] = "iface" /\ "iface" \in FigTakesOperand
    BY <1>1 DEF FigTakesOperand
  <2>5. t[(k + 1) + 1] \notin FigKeywords /\ t[(k + 1) + 1] \in ToSet(NifNames)
    BY <2>2, <2>3, <2>4 DEF FigPlain
  <2> QED  BY <2>3, <2>5
<1>4. FigAllPlain => FigSettled(FigHandled)'
  <2> SUFFICES ASSUME FigAllPlain PROVE FigSettled(FigHandled)'
    OBVIOUS
  <2>1. \A n \in Nifs, f \in NifAll :
          Config'.nif[n][f] = Config.nif[n][f] /\ FigGives(t, k + 1, n, f) = {}
    BY <1>1, FigSilent DEF FigGives
  <2>2. FigSettled(FigHandled)
    BY <1>0 DEF FigAtWork
  <2>3. j = 2 => t[k + 2] \notin FigKeywords
    BY <1>3
  <2> QED  BY <1>0, <1>2, <2>1, <2>2, <2>3, FigAdvance
<1>5. FigAllPlain /\ suTok' # <<>> => FigStatics(t, k + j, suIface, suHalf)'
  <2> SUFFICES ASSUME FigAllPlain, suTok' # <<>> PROVE FigStatics(t, k + j, suIface, suHalf)'
    OBVIOUS
  <2>1. j = 2
    <3>1. suTok' \in Seq(FigWords)
      BY DEF ConfigInv
    <3>2. Len(suTok') > 0
      BY <3>1
    <3> QED  BY <1>1, <1>2, <3>2
  <2>2. t[k + 2] \notin FigKeywords /\ t[k + 2] \in ToSet(NifNames)
    BY <1>3, <2>1
  <2>3. t[k + 2] # "iface" /\ t[k + 2] \notin Halves
    BY <2>2 DEF FigKeywords, FigTakesOperand
  <2>4. FigIfaceAt(t, k + 2) = t[k + 2] /\ FigHalfAt(t, k + 2) = "none"
    BY <1>1, <2>3, FigIfaceChosen
  <2>5. FigOperand = t[k + 2]
    <3>1. 2 \in 1..Len(suTok) /\ Len(suTok) > 1
      BY <1>1, <1>2, <2>1
    <3> QED  BY <1>1, <3>1 DEF FigOperand
  <2>6. FigNumber \in Nifs /\ NifNames[FigNumber + 1] = t[k + 2]
    <3>1. \E n \in Nifs : NifNames[n + 1] = t[k + 2]
      BY <2>2 DEF NifNames, Nifs, ToSet
    <3> QED  BY <2>5, <3>1 DEF FigNumber
  <2> QED  BY <2>1, <2>4, <2>6 DEF FigStatics
<1> QED  BY <1>2, <1>4, <1>5, FigWorkKept

LEMMA FigIfaceStep == ASSUME FigInv, ConfigInv, ConfigInv', xfig_iface PROVE FigInv'
<1>1. suPc = "iface" /\ suTok # <<>> /\ UNCHANGED suFile
  BY DEF xfig_iface, xfig_ifaceWord, xfig_ifaceNumber, xfig_ifaceType, xfig_ifaceAddr,
     xfig_ifaceHalf, SuAt, FigIs
<1>2. PICK t, k : FigHere(t, k)
  BY <1>1, FigHereNow
<1>3. FigOperand = FigArg(t, k + 1)
  <2>1. /\ k \in Nat /\ Len(t) \in Nat /\ Len(suTok) \in Nat /\ Len(suTok) = Len(t) - k
        /\ \A i \in 1..Len(suTok) : suTok[i] = t[k + i]
    BY <1>2 DEF FigHere, MAX_TOKENS
  <2>2. Len(suTok) > 1 <=> k + 1 < Len(t)
    BY <2>1
  <2>3. Len(suTok) > 1 => suTok[2] = t[(k + 1) + 1]
    <3>1. (k + 1) + 1 = k + 2 /\ (Len(suTok) > 1 => 2 \in 1..Len(suTok))
      BY <2>1
    <3> QED  BY <2>1, <3>1
  <2> QED  BY <2>2, <2>3 DEF FigOperand, FigArg
<1>4. CASE xfig_ifaceWord
  <2>1. FigNext /\ suPc' = "iface" /\ suIface' = suIface
    BY <1>1, <1>4 DEF xfig_ifaceWord, FigNext
  <2>2. FigMoved(1)
    BY <1>1, <2>1, FigNextMoves
  <2>3. CASE FigIs(Halves) /\ suHalf' = <<suIface, suTok[1]>> /\ UNCHANGED Config
    <3>1. suTok[1] \in Halves
      BY <2>3 DEF FigIs
    <3> QED  BY <1>1, <1>2, <2>1, <2>2, <2>3, <3>1, FigHalfStep
  <2>4. CASE FigIs(FigOn) \/ FigIs(FigOff) \/ FigUnknown
    <3>1. suTok[1] # "iface" /\ suTok[1] \notin Halves /\ suTok[1] # "type"
      BY <2>4 DEF FigIs, FigUnknown, FigKeywords, FigTakesOperand, FigOn, FigOff, Halves
    <3>2. UNCHANGED suHalf
      BY <1>4, <3>1 DEF xfig_ifaceWord, FigIs
    <3>3. suIface \in Nifs => FigApplied(FigArg(t, k + 1))
      BY <1>4, <3>1, FigWordApplied
    <3> QED  BY <1>1, <1>2, <2>1, <2>2, <3>1, <3>2, <3>3, FigKeywordStep
  <2> QED  BY <1>4, <2>3, <2>4 DEF xfig_ifaceWord
<1>5. CASE FigPast /\ suPc' = "ended"
  BY <1>1, <1>5, FigLeft
<1>6. CASE FigPast /\ suPc' # "ended"
  <2> DEFINE j == IF Len(suTok) > 1 THEN 2 ELSE 1
  <2>1. suPc' = "iface" /\ FigMoved(j) /\ j \in {1, 2}
    BY <1>1, <1>6, FigPastMoves
  <2> HIDE DEF j
  <2>2. CASE xfig_ifaceNumber
    <3>1. /\ suTok[1] = "iface" /\ suHalf' = <<>> /\ suIface' = FigNumber /\ UNCHANGED Config
      BY <2>2 DEF xfig_ifaceNumber, FigIs
    <3>2. j = IF Len(suTok) > 1 THEN 2 ELSE 1
      BY DEF j
    <3> QED  BY <1>1, <1>2, <2>1, <3>1, <3>2, FigNumberStep
  <2>3. CASE xfig_ifaceType \/ xfig_ifaceAddr \/ xfig_ifaceHalf
    <3>1. suTok[1] \in FigTakesOperand /\ suTok[1] # "iface" /\ suTok[1] \notin Halves
      BY <2>3 DEF xfig_ifaceType, xfig_ifaceAddr, xfig_ifaceHalf, FigIs, FigTakesOperand,
         Halves
    <3>2. UNCHANGED <<suIface, suHalf>>
      BY <2>3 DEF xfig_ifaceType, xfig_ifaceAddr, xfig_ifaceHalf
    <3>3. suIface \in Nifs /\ (suHalf # <<>> => suHalf[1] = suIface) => FigApplied(FigArg(t, k + 1))
      <4>1. xfig_ifaceHalf => suHalf # <<>>
        BY DEF xfig_ifaceHalf
      <4> QED  BY <1>3, <2>3, <4>1, FigTypeApplied, FigAddrApplied, FigHalfApplied
    <3> QED  BY <1>1, <1>2, <2>1, <3>1, <3>2, <3>3, FigKeywordStep
  <2>4. CASE xfig_ifaceWord
    BY <1>4, <2>4
  <2> QED  BY <2>2, <2>3, <2>4 DEF xfig_iface
<1> QED
  BY <1>4, <1>5, <1>6 DEF xfig_iface, xfig_ifaceNumber, xfig_ifaceType, xfig_ifaceAddr,
     xfig_ifaceHalf

-----------------------------------------------------------------------------
(* The other steps.                                                        *)

\* The same Config, and no other iface statement than before.
LEMMA FigStays ==
    ASSUME FigSettled(FigPlaces), UNCHANGED Config, FigPlaces' = FigPlaces,
           \A p \in FigPlaces : FigTokens(p[1])' = FigTokens(p[1])
    PROVE  FigSettled(FigPlaces)'
<1>1. PICK P : P = FigPlaces
  OBVIOUS
<1>2. FigSettled(P \cup {})'
  <2>1. FigSettled(P) /\ \A p \in P : FigTokens(p[1])' = FigTokens(p[1])
    BY <1>1
  <2> QED  BY <2>1, FigExtend
<1>3. P \cup {} = P
  OBVIOUS
<1> QED  BY <1>1, <1>2, <1>3

LEMMA FigKept ==
    ASSUME FigInv, UNCHANGED <<suPc, suFile, suTok, suIface, suHalf, Config>> PROVE FigInv'
<1>1. /\ FigAllPlain' = FigAllPlain /\ FigPlaces' = FigPlaces /\ FigNow' = FigNow /\ FigK' = FigK
      /\ FigHandled' = FigHandled
  BY DEF FigAllPlain, FigPlain, FigPlaces, FigNow, FigK, FigHandled, FigTokens
<1>2. FigSettled(FigPlaces)' = FigSettled(FigPlaces)
  BY <1>1 DEF FigSettled, FigTokens
<1>3. FigSettled(FigHandled)' = FigSettled(FigHandled)
  BY <1>1 DEF FigSettled, FigTokens
<1>4. FigStatics(FigNow, FigK, suIface, suHalf)' = FigStatics(FigNow, FigK, suIface, suHalf)
  BY <1>1 DEF FigStatics
<1> HIDE DEF FigSettled
<1>5. FigAtWork' = FigAtWork
  BY <1>1, <1>3, <1>4 DEF FigAtWork
<1> QED  BY <1>1, <1>2, <1>5 DEF FigInv

\* Once the file is read the configuration is not touched again.
LEMMA FigFinal ==
    ASSUME FigInv, suPc \in FigRead, suPc' \in FigRead, UNCHANGED <<suFile, Config>>
    PROVE  FigInv'
<1>1. FigAllPlain' = FigAllPlain /\ FigPlaces' = FigPlaces /\ \A l : FigTokens(l)' = FigTokens(l)
  BY DEF FigAllPlain, FigPlain, FigPlaces, FigTokens
<1>2. FigAllPlain => FigSettled(FigPlaces)
  BY DEF FigInv
<1>3. FigAllPlain' => FigSettled(FigPlaces)'
  BY <1>1, <1>2, FigStays
<1> QED  BY <1>3 DEF FigInv, FigRead

\* Before the first line.
LEMMA FigEarly ==
    ASSUME FigInv, suPc' \in {"auth", "sgd", "init", "xconfig", "xfigger"}, suFile' = <<>>,
           suPc' = "xfigger" => Config' = FigDefaults
    PROVE  FigInv'
  BY DEF FigInv, FigRead

LEMMA FigOpened ==
    ASSUME FigInv, suPc = "xfigger", suPc' \in FigRead, UNCHANGED <<suFile, Config>>
    PROVE  FigInv'
<1>1. suFile' = <<>> /\ Config' = FigDefaults
  BY DEF FigInv
<1>2. FigPlaces' = {}
  BY <1>1 DEF FigPlaces
<1>3. FigSettled(FigPlaces)'
  BY <1>1, <1>2 DEF FigSettled
<1> QED  BY <1>1, <1>3 DEF FigInv, FigRead

LEMMA FigLineDone == ASSUME FigInv, ConfigInv, FigDone PROVE FigInv'
<1>1. suTok = <<>> /\ suPc' = "lines" /\ UNCHANGED <<suFile, Config>>
  BY DEF FigDone, SuGo, suParse
<1>2. CASE suPc = "gateway"
  BY <1>1, <1>2, FigFinal DEF FigRead
<1>3. CASE suPc = "iface"
  <2>1. FigAllPlain => FigSettled(FigHandled)
    BY <1>3 DEF FigInv, FigAtWork
  <2>2. FigHandled = FigPlaces
    <3>1. PICK t, k : FigHere(t, k)
      BY <1>3, FigHereNow
    <3>2. FigK = Len(FigNow) /\ Len(FigNow) \in Nat
      <4>1. Len(suTok) = 0
        BY <1>1
      <4>2. t = FigNow /\ k = FigK /\ Len(suTok) = Len(t) - k /\ k \in Nat /\ Len(t) \in Nat
        BY <3>1 DEF FigHere, MAX_TOKENS
      <4>3. k = Len(t)
        BY <4>1, <4>2
      <4> QED  BY <4>2, <4>3
    <3>3. ASSUME NEW p \in FigPlaces PROVE p[1] < Len(suFile) \/ p[2] <= FigK
      <4>1. /\ p \in (DOMAIN suFile) \X (1..(MAX_TOKENS + 1)) /\ p[2] <= Len(FigTokens(p[1]))
        BY DEF FigPlaces
      <4>2. suFile \in Seq(SuLines)
        BY DEF FigInv
      <4>3. p[1] \in 1..Len(suFile) /\ Len(suFile) \in Nat
        BY <4>1, <4>2
      <4>4. p[1] < Len(suFile) \/ p[1] = Len(suFile)
        BY <4>3
      <4> QED  BY <3>2, <4>1, <4>4 DEF FigNow
    <3> QED  BY <3>3 DEF FigHandled
  <2>3. FigAllPlain => FigSettled(FigPlaces)
    BY <2>1, <2>2
  <2>4. FigAllPlain' = FigAllPlain /\ FigPlaces' = FigPlaces /\ \A l : FigTokens(l)' = FigTokens(l)
    BY <1>1 DEF FigAllPlain, FigPlain, FigPlaces, FigTokens
  <2>5. FigAllPlain' => FigSettled(FigPlaces)'
    BY <1>1, <2>3, <2>4, FigStays
  <2> QED  BY <1>1, <2>5 DEF FigInv, FigRead
<1> QED  BY <1>2, <1>3 DEF FigDone

LEMMA FigGate == ASSUME FigInv, ConfigInv, ConfigInv', xfig_gate PROVE FigInv'
<1>1. suPc = "gateway" /\ suPc' = "gateway" /\ UNCHANGED suFile
  BY DEF xfig_gate, SuAt, FigNext
<1>2. Config'.nif = Config.nif
  BY DEF xfig_gate, ConfigInv
<1>3. FigAllPlain' = FigAllPlain /\ FigPlaces' = FigPlaces /\ \A l : FigTokens(l)' = FigTokens(l)
  BY <1>1 DEF FigAllPlain, FigPlain, FigPlaces, FigTokens
<1>4. FigAllPlain => FigSettled(FigPlaces)
  BY <1>1 DEF FigInv, FigRead
<1>5. FigAllPlain' => FigSettled(FigPlaces)'
  BY <1>2, <1>3, <1>4 DEF FigSettled
<1> QED  BY <1>1, <1>5 DEF FigInv, FigRead

LEMMA FigLineRead == ASSUME FigInv, NEW line \in SuLines, xfigline(line) PROVE FigInv'
<1> DEFINE L == Len(suFile)
<1>1. /\ suPc = "lines" /\ suFile' = Append(suFile, line) /\ UNCHANGED Config
      /\ suFile \in Seq(SuLines) /\ L \in Nat /\ DOMAIN suFile = 1..L
  BY DEF xfigline, SuAt, FigInv
<1>2. /\ suFile' \in Seq(SuLines) /\ Len(suFile') = L + 1 /\ DOMAIN suFile' = 1..(L + 1)
      /\ suFile'[L + 1] = line /\ \A l \in 1..L : suFile'[l] = suFile[l]
  BY <1>1
<1>3. /\ \A l \in 1..L : FigTokens(l)' = FigTokens(l)
      /\ \A l : l = L + 1 => FigTokens(l)' = tokenize(line)
  BY <1>2 DEF FigTokens
<1>4. FigAllPlain' => FigAllPlain
  <2>1. DOMAIN suFile \subseteq DOMAIN suFile'
    BY <1>1, <1>2
  <2> QED  BY <1>1, <1>3, <2>1 DEF FigAllPlain
<1>5. FigAllPlain => FigSettled(FigPlaces)
  BY <1>1 DEF FigInv, FigRead
<1>6. \A p \in FigPlaces : p[1] \in 1..L /\ FigTokens(p[1])' = FigTokens(p[1])
  BY <1>1, <1>3 DEF FigPlaces
<1>7. ASSUME NEW p
      PROVE  p \in FigPlaces' <=>
               \/ p \in FigPlaces
               \/ /\ p \in {L + 1} \X (1..(MAX_TOKENS + 1))
                  /\ tokenize(line) # <<>> /\ tokenize(line)[1] = "iface" /\ p[2] <= Len(tokenize(line))
  <2>1. p \in FigPlaces' <=>
          /\ p \in (1..(L + 1)) \X (1..(MAX_TOKENS + 1))
          /\ FigTokens(p[1])' # <<>> /\ FigTokens(p[1])'[1] = "iface"
          /\ p[2] <= Len(FigTokens(p[1])')
    BY <1>2 DEF FigPlaces
  <2>2. p \in FigPlaces <=>
          /\ p \in (1..L) \X (1..(MAX_TOKENS + 1))
          /\ FigTokens(p[1]) # <<>> /\ FigTokens(p[1])[1] = "iface"
          /\ p[2] <= Len(FigTokens(p[1]))
    BY <1>1 DEF FigPlaces
  <2>3. p \in (1..(L + 1)) \X (1..(MAX_TOKENS + 1)) <=>
          \/ p \in (1..L) \X (1..(MAX_TOKENS + 1))
          \/ p \in {L + 1} \X (1..(MAX_TOKENS + 1))
    <3>1. \A l : l \in 1..(L + 1) <=> l \in 1..L \/ l \in {L + 1}
      BY <1>1
    <3> QED  BY <3>1
  <2>4. CASE p \in (1..L) \X (1..(MAX_TOKENS + 1))
    <3>1. p[1] \in 1..L
      BY <2>4
    <3>2. FigTokens(p[1])' = FigTokens(p[1])
      BY <1>3, <3>1
    <3>3. p \notin {L + 1} \X (1..(MAX_TOKENS + 1))
      BY <1>1, <3>1
    <3> QED  BY <2>1, <2>2, <2>3, <2>4, <3>2, <3>3
  <2>5. CASE p \in {L + 1} \X (1..(MAX_TOKENS + 1))
    <3>1. p[1] = L + 1
      BY <2>5
    <3>2. FigTokens(p[1])' = tokenize(line)
      BY <1>3, <3>1
    <3>3. p \notin (1..L) \X (1..(MAX_TOKENS + 1))
      BY <1>1, <3>1
    <3> QED  BY <2>1, <2>2, <2>3, <2>5, <3>2, <3>3
  <2>6. CASE p \notin (1..(L + 1)) \X (1..(MAX_TOKENS + 1))
    BY <2>1, <2>2, <2>3, <2>6
  <2> QED  BY <2>3, <2>4, <2>5, <2>6
<1>8. CASE line # <<>> /\ line[1] = "iface"
  <2>1. suPc' = "iface" /\ suTok' = tokenize(line)
    BY <1>8 DEF xfigline, SuGo
  <2>2. /\ tokenize(line) # <<>> /\ tokenize(line)[1] = "iface" /\ tokenize(line) \in Seq(STRING)
    BY <1>8, TokenizeLine
  <2>3. FigNow' = tokenize(line)
    BY <1>2 DEF FigNow, FigTokens
  <2>4. FigK' = 0 /\ Len(tokenize(line)) \in Nat
    BY <2>1, <2>2, <2>3 DEF FigK
  <2>5. FigHandled' = FigPlaces
    <3>1. \A p \in FigPlaces' : p[1] < L + 1 \/ p[2] <= 0 <=> p \in FigPlaces
      <4> SUFFICES ASSUME NEW p \in FigPlaces' PROVE p[1] < L + 1 \/ p[2] <= 0 <=> p \in FigPlaces
        OBVIOUS
      <4>1. CASE p \in FigPlaces
        BY <1>1, <1>6, <4>1
      <4>2. CASE p \in {L + 1} \X (1..(MAX_TOKENS + 1))
        <5>1. p[1] = L + 1 /\ p[2] \in 1..(MAX_TOKENS + 1)
          BY <4>2
        <5>2. ~(p[1] < L + 1) /\ ~(p[2] <= 0)
          BY <1>1, <5>1 DEF MAX_TOKENS
        <5>3. p \notin FigPlaces
          BY <1>1, <1>6, <5>1
        <5> QED  BY <5>2, <5>3
      <4> QED  BY <1>7, <4>1, <4>2
    <3>2. FigPlaces \subseteq FigPlaces'
      BY <1>7
    <3>3. FigHandled' = {p \in FigPlaces' : p[1] < L + 1 \/ p[2] <= 0}
      BY <1>2, <2>4 DEF FigHandled
    <3> QED  BY <3>1, <3>2, <3>3
  <2>6. FigAllPlain' => FigSettled(FigHandled)'
    <3> SUFFICES ASSUME FigAllPlain' PROVE FigSettled(FigHandled)'
      OBVIOUS
    <3>1. PICK P : P = FigPlaces
      OBVIOUS
    <3>2. FigSettled(P) /\ \A p \in P : FigTokens(p[1])' = FigTokens(p[1])
      BY <1>4, <1>5, <1>6, <3>1
    <3>3. FigSettled(P \cup {})'
      BY <1>1, <3>2, FigExtend
    <3>4. FigHandled' = P \cup {}
      BY <2>5, <3>1
    <3> QED  BY <3>3, <3>4
  <2>7. \A i \in 1..Len(suTok') : suTok'[i] = FigNow'[FigK' + i]
    BY <2>1, <2>3, <2>4
  <2>8. Len(suFile') > 0 /\ Len(suTok') <= Len(FigNow')
    BY <1>1, <1>2, <2>1, <2>3, <2>4
  <2>9. FigAtWork'
    BY <2>2, <2>3, <2>4, <2>6, <2>7, <2>8 DEF FigAtWork
  <2> QED  BY <1>2, <2>1, <2>9 DEF FigInv, FigRead
<1>9. CASE ~(line # <<>> /\ line[1] = "iface")
  <2>1. suPc' \in {"lines", "gateway"}
    BY <1>1, <1>9 DEF xfigline, SuGo
  <2>2. ~(tokenize(line) # <<>> /\ tokenize(line)[1] = "iface")
    BY <1>9, TokenizeLine
  <2>3. FigPlaces' = FigPlaces
    BY <1>7, <2>2
  <2>4. FigAllPlain' => FigSettled(FigPlaces)'
    BY <1>1, <1>4, <1>5, <1>6, <2>3, FigStays
  <2> QED  BY <1>2, <2>1, <2>4 DEF FigInv, FigRead
<1> QED  BY <1>8, <1>9

LEMMA FigStep == FigInv /\ ConfigInv /\ [SuNext]_suVars => FigInv'
<1> SUFFICES ASSUME FigInv, ConfigInv, [SuNext]_suVars PROVE FigInv'
  OBVIOUS
<1>0. ConfigInv'
  BY ConfigStep
<1>1. CASE SuStart
  BY <1>1, FigEarly DEF SuStart, SuFresh
<1>2. CASE SysAuth \/ SysXgd \/ SysInit
  <2>1. /\ suPc \in {"auth", "sgd", "init"} /\ UNCHANGED suFile
        /\ suPc' \in {"ended", "sgd", "init", "xconfig"}
    BY <1>2 DEF SysAuth, SysXgd, SysInit, SuPanic, SuLeave, SuGo, SuAt, suParse
  <2>2. suFile = <<>>
    BY <2>1 DEF FigInv
  <2> QED  BY <2>1, <2>2, FigEarly, FigLeft
<1>3. CASE xconfig
  <2>1. suPc = "xconfig" /\ suPc' = "xfigger" /\ Config' = FigDefaults /\ UNCHANGED suFile
    BY <1>3 DEF xconfig, SuAt, SuGo
  <2>2. suFile = <<>>
    BY <2>1 DEF FigInv
  <2> QED  BY <2>1, <2>2, FigEarly
<1>4. CASE xfigger
  BY <1>4, FigOpened, FigFinal DEF xfigger, SuAt, SuGo, suParse, FigRead
<1>5. CASE \E line \in SuLines : xfigline(line)
  BY <1>5, FigLineRead
<1>6. CASE xfig_gate
  BY <1>0, <1>6, FigGate
<1>7. CASE xfig_iface
  BY <1>0, <1>7, FigIfaceStep
<1>8. CASE FigDone
  BY <1>8, FigLineDone
<1>9. CASE xdevinit \/ ctci_init
  BY <1>9, FigFinal DEF xdevinit, ctci_init, SuAt, SuGo, suParse, FigRead
<1>10. CASE \E h \in Halves : ctci_resume(h)
  <2>1. suPc \in FigRead /\ UNCHANGED <<suFile, Config>> /\ suPc' \in FigRead \cup {"ended"}
    BY <1>10 DEF ctci_resume, SuPanic, SuLeave, SuGo, SuAt, suParse, FigRead, Halves
  <2> QED  BY <2>1, FigFinal, FigLeft
<1>11. CASE SysNet \/ SuKill \/ SuShut \/ SuMain \/ SuResched \/ (SuAt("run") /\ SuPanic)
  <2>1. UNCHANGED suFile /\ suPc' \in {"run", "ended"}
    BY <1>11 DEF SysNet, SuKill, SuShut, SuMain, SuResched, SuPanic, SuLeave, SuGo, SuAt,
       suParse,
       xdone
  <2> QED  BY <2>1, FigLeft
<1>12. CASE \E x \in 0..(Neth - 1) : SuChannelEnd(x) \/ SuNextRead(x)
  <2>1. UNCHANGED suParse /\ (UNCHANGED suPc \/ suPc' = "ended")
    BY <1>12, ZenonT(40) DEF SuChannelEnd, SuNextRead, SuPanic, SuLeave
  <2> QED  BY <2>1, FigKept, FigLeft DEF suParse
<1>13. CASE UNCHANGED suVars
  BY <1>13, FigKept DEF suVars, suParse
<1> QED
  BY <1>1, <1>2, <1>3, <1>4, <1>5, <1>6, <1>7, <1>8, <1>9, <1>10, <1>11, <1>12, <1>13 DEF
     SuNext

(* FigMeaning, for every configuration file of any number of lines: the    *)
(* statics of xfig_iface carry nothing from one statement, or one line, to *)
(* another.                                                                *)
THEOREM FigCorrect == SuSpec => []FigMeaning
<1>1. SuInit => FigInv /\ ConfigInv
  <2> SUFFICES ASSUME SuInit PROVE FigInv /\ ConfigInv
    OBVIOUS
  <2>1. FigInv
    BY DEF SuInit, FigInv, FigRead
  <2>2. ConfigInv
    BY DefaultsType DEF SuInit, ConfigInv
  <2> QED  BY <2>1, <2>2
<1>2. FigInv /\ ConfigInv /\ [SuNext]_suVars => FigInv' /\ ConfigInv'
  BY FigStep, ConfigStep
<1>3. FigInv => FigMeaning
  BY DEF FigInv, FigMeaning, FigAllPlain, FigRead, SuAt
<1> QED  BY <1>1, <1>2, <1>3, PTL DEF SuSpec

-----------------------------------------------------------------------------
(* IGMP host groups.                                                       *)

HgStates == {"FREE", "IDLE", "DELAYING", "STATIC"}
HgEntries == [state : HgStates, ipa : HgGroups \cup {HgAllHosts}, refs : Nat]

HgType ==
    /\ hgtable \in [HgSlots -> HgEntries] /\ hgStart \in HgSlots
    /\ hgPc \in [HgProcs -> {"idle", "add", "route", "clear", "report", "query", "lock", "send"}]
    /\ hgArg \in [HgProcs -> HgGroups \cup (0..HgTSize)]
    /\ hgTimer \in SUBSET HgSlots /\ hgPort \in Seq(HgSlots)
    /\ hgMember \in [HgApps -> [HgGroups -> Nat]]

\* Who is where: a process between two steps that must not be parted keeps
\* hi_mutex, and the slot it is at work on is as it left it.
HgWork ==
    /\ \A a \in HgApps :
        /\ hgPc[a] \in {"idle", "add", "route", "clear"}
        /\ hgPc[a] \in {"add", "route"} => hgArg[a] \in HgGroups
        /\ hgPc[a] = "clear" => hgArg[a] \in HgSlots /\ hiMutex = a /\ hgtable[hgArg[a]].refs = 0
    /\ hgPc["ip"] \in {"idle", "report", "query"}
    /\ hgPc["ip"] # "idle" => hiMutex = "ip"
    /\ hgPc["ip"] = "report" => hgArg["ip"] \in HgSlots /\ hgtable[hgArg["ip"]].state = "DELAYING"
    /\ hgPc["update"] \in {"idle", "lock", "send"}
    /\ hgPc["update"] = "lock" => hgArg["update"] \in HgSlots
    /\ hgPc["update"] = "send" => hiMutex = "update"

\* The parts of HgAccounted.
HgCounted == \A g \in HgGroups : HgRefs(g) = HgJoined(g)
HgClearing(s) == \E a \in HgApps : HgAt(a, "clear") /\ hgArg[a] = s
HgUsed == \A s \in HgSlots : hgtable[s].refs > 0 <=> hgtable[s].state # "FREE" /\ ~HgClearing(s)
HgOnItsWay(s) ==
    \/ s \in hgTimer
    \/ \E k \in DOMAIN hgPort : hgPort[k] = s
    \/ hgArg["update"] = s /\ HgAt("update", "lock")
HgReported == \A s \in HgSlots : hgtable[s].state = "DELAYING" => HgOnItsWay(s)

HgInv == HgType /\ HgWork /\ HgCounted /\ HgUsed /\ HgReported

\* The pairs HgSum counts are finitely many.
LEMMA HgPairs ==
    ASSUME NEW S, IsFiniteSet(S), NEW l \in [S -> Nat]
    PROVE  LET C == UNION {{x} \X (1..l[x]) : x \in S}
           IN  /\ IsFiniteSet(C) /\ HgSum(S, l) = Cardinality(C) /\ HgSum(S, l) \in Nat
               /\ \A z : z \in C <=> \E y \in S : \E k \in 1..l[y] : z = <<y, k>>
<1> DEFINE T == {{x} \X (1..l[x]) : x \in S}
           f == [x \in S |-> {x} \X (1..l[x])]
<1>1. f \in Surjection(S, T)
  BY DEF Surjection
<1>2. IsFiniteSet(T)
  BY <1>1, FS_Surjection
<1>3. ASSUME NEW t \in T PROVE IsFiniteSet(t)
  <2>1. PICK x \in S : t = {x} \X (1..l[x])
    OBVIOUS
  <2>2. IsFiniteSet({x}) /\ IsFiniteSet(1..l[x])
    <3>1. 1 \in Int /\ l[x] \in Int
      OBVIOUS
    <3> QED BY <3>1, FS_Singleton, FS_Interval
  <2>3. IsFiniteSet({x} \X (1..l[x]))
    BY <2>2, FS_Product
  <2> QED BY <2>1, <2>3
<1>4. IsFiniteSet(UNION T)
  BY <1>2, <1>3, FS_UNION
<1>5. Cardinality(UNION T) \in Nat
  BY <1>4, FS_CardinalityType
<1>6. \A z : z \in UNION T <=> \E y \in S : \E k \in 1..l[y] : z = <<y, k>>
  OBVIOUS
<1> QED BY <1>4, <1>5, <1>6 DEF HgSum

\* One of the numbers grows by one.
LEMMA HgSumUp ==
    ASSUME NEW S, IsFiniteSet(S), NEW l \in [S -> Nat], NEW r \in [S -> Nat], NEW x \in S,
           r[x] = l[x] + 1, \A y \in S : y # x => r[y] = l[y]
    PROVE  HgSum(S, l) \in Nat /\ HgSum(S, r) = HgSum(S, l) + 1
<1> DEFINE C == UNION {{y} \X (1..l[y]) : y \in S}
           D == UNION {{y} \X (1..r[y]) : y \in S}
           e == <<x, l[x] + 1>>
<1>1. /\ IsFiniteSet(C) /\ HgSum(S, l) = Cardinality(C) /\ HgSum(S, l) \in Nat
      /\ \A z : z \in C <=> \E y \in S : \E k \in 1..l[y] : z = <<y, k>>
  BY HgPairs
<1>2. /\ HgSum(S, r) = Cardinality(D)
      /\ \A z : z \in D <=> \E y \in S : \E k \in 1..r[y] : z = <<y, k>>
  BY HgPairs
<1> HIDE DEF C, D
<1>3. e \notin C
  BY <1>1
<1>4. ASSUME NEW z \in D PROVE z \in C \cup {e}
  <2>a. PICK y \in S : \E k \in 1..r[y] : z = <<y, k>>
    BY <1>2
  <2>1. PICK k \in 1..r[y] : z = <<y, k>>
    BY <2>a
  <2>2. CASE y # x
    BY <1>1, <2>1, <2>2
  <2>3. CASE y = x /\ k = l[x] + 1
    BY <2>1, <2>3
  <2>4. CASE y = x /\ k # l[x] + 1
    <3>1. k \in 1..l[x]
      BY <2>4
    <3> QED BY <1>1, <2>1, <2>4, <3>1
  <2> QED BY <2>2, <2>3, <2>4
<1>5. ASSUME NEW z \in C PROVE z \in D
  <2>a. PICK y \in S : \E k \in 1..l[y] : z = <<y, k>>
    BY <1>1
  <2>1. PICK k \in 1..l[y] : z = <<y, k>>
    BY <2>a
  <2>2. k \in 1..r[y]
    <3>1. l[y] \in Nat /\ (r[y] = l[y] \/ r[y] = l[y] + 1)
      OBVIOUS
    <3> QED BY <3>1
  <2> QED BY <1>2, <2>1, <2>2
<1>6. e \in D
  <2>1. l[x] + 1 \in 1..r[x]
    OBVIOUS
  <2> QED BY <1>2, <2>1
<1>7. D = C \cup {e}
  BY <1>4, <1>5, <1>6
<1>8. Cardinality(D) = Cardinality(C) + 1
  BY <1>1, <1>3, <1>7, FS_AddElement
<1> QED BY <1>1, <1>2, <1>8

\* A sum is zero when and only when all its numbers are.
LEMMA HgSumZero ==
    ASSUME NEW S, IsFiniteSet(S), NEW l \in [S -> Nat]
    PROVE  HgSum(S, l) = 0 <=> \A x \in S : l[x] = 0
<1> DEFINE C == UNION {{y} \X (1..l[y]) : y \in S}
<1>1. /\ IsFiniteSet(C) /\ HgSum(S, l) = Cardinality(C)
      /\ \A z : z \in C <=> \E y \in S : \E k \in 1..l[y] : z = <<y, k>>
  BY HgPairs
<1>2. Cardinality(C) = 0 <=> C = {}
  BY <1>1, FS_EmptySet
<1> HIDE DEF C
<1>3. C = {} <=> \A x \in S : l[x] = 0
  <2>1. ASSUME C # {} PROVE \E x \in S : l[x] # 0
    <3>1. PICK z : z \in C
      BY <2>1
    <3>a. PICK y \in S : \E k \in 1..l[y] : z = <<y, k>>
      BY <1>1, <3>1
    <3>2. PICK k \in 1..l[y] : z = <<y, k>>
      BY <3>a
    <3> QED BY <3>2
  <2>2. ASSUME NEW x \in S, l[x] # 0 PROVE C # {}
    <3>1. 1 \in 1..l[x]
      BY <2>2
    <3> QED BY <1>1, <3>1
  <2> QED BY <2>1, <2>2
<1> QED BY <1>1, <1>2, <1>3

\* The two counts of a group, as sums of numbers.
HgRefsAt(g) == [s \in HgSlots |-> IF hgtable[s].ipa = g THEN hgtable[s].refs ELSE 0]
HgJoinsBy(g) == [a \in HgApps |-> hgMember[a][g]]

\* They are sums of finitely many numbers.
LEMMA HgSums ==
    ASSUME HgType, NEW g \in HgGroups
    PROVE  /\ HgRefs(g) = HgSum(HgSlots, HgRefsAt(g)) /\ HgJoined(g) = HgSum(HgApps, HgJoinsBy(g))
           /\ HgRefsAt(g) \in [HgSlots -> Nat] /\ HgJoinsBy(g) \in [HgApps -> Nat]
           /\ IsFiniteSet(HgSlots) /\ IsFiniteSet(HgApps)
<1>1. IsFiniteSet(HgSlots) /\ IsFiniteSet(HgApps)
  BY HgAssumption, FS_Interval DEF HgSlots
<1>2. HgRefsAt(g) \in [HgSlots -> Nat]
  BY DEF HgType, HgEntries, HgRefsAt
<1>3. HgJoinsBy(g) \in [HgApps -> Nat]
  BY DEF HgType, HgJoinsBy
<1> QED BY <1>1, <1>2, <1>3, Zenon DEF HgRefs, HgJoined, HgRefsAt, HgJoinsBy

\* Neither count changes when no reference and no membership does.
LEMMA HgCountKept ==
    ASSUME HgCounted, hgMember' = hgMember,
           \A s \in HgSlots : hgtable'[s].ipa = hgtable[s].ipa /\ hgtable'[s].refs = hgtable[s].refs
    PROVE  HgCounted'
<1> SUFFICES ASSUME NEW g \in HgGroups PROVE HgRefs(g)' = HgJoined(g)'
  BY DEF HgCounted
<1>1. [s \in HgSlots |-> IF hgtable'[s].ipa = g THEN hgtable'[s].refs ELSE 0]
        = [s \in HgSlots |-> IF hgtable[s].ipa = g THEN hgtable[s].refs ELSE 0]
  OBVIOUS
<1>2. HgRefs(g)' = HgRefs(g) /\ HgJoined(g)' = HgJoined(g)
  BY <1>1, Zenon DEF HgRefs, HgJoined
<1> QED BY <1>2 DEF HgCounted

\* A join: one slot of the group gains a reference, one member a membership.
LEMMA HgCountUp ==
    ASSUME HgType, HgType', HgCounted, NEW g \in HgGroups, NEW t \in HgSlots, NEW b \in HgApps,
           hgMember' = [hgMember EXCEPT ![b][g] = @ + 1],
           hgtable'[t].ipa = g,
           hgtable'[t].refs = (IF hgtable[t].ipa = g THEN hgtable[t].refs ELSE 0) + 1,
           hgtable[t].ipa # g => hgtable[t].refs = 0,
           \A s \in HgSlots : s # t => hgtable'[s] = hgtable[s]
    PROVE  HgCounted'
<1> SUFFICES ASSUME NEW i \in HgGroups PROVE HgRefs(i)' = HgJoined(i)'
  BY DEF HgCounted
<1>1. HgRefs(i) = HgJoined(i)
  BY DEF HgCounted
<1> DEFINE R == HgRefsAt(i)
           Q == [s \in HgSlots |-> IF hgtable'[s].ipa = i THEN hgtable'[s].refs ELSE 0]
           J == HgJoinsBy(i)
           K == [a \in HgApps |-> hgMember'[a][i]]
<1>2. /\ HgRefs(i) = HgSum(HgSlots, R) /\ HgJoined(i) = HgSum(HgApps, J)
      /\ R \in [HgSlots -> Nat] /\ J \in [HgApps -> Nat] /\ IsFiniteSet(HgSlots) /\ IsFiniteSet(HgApps)
  BY HgSums
<1>3. HgRefs(i)' = HgSum(HgSlots, Q) /\ HgJoined(i)' = HgSum(HgApps, K)
  BY Zenon DEF HgRefs, HgJoined
<1>4. Q \in [HgSlots -> Nat] /\ K \in [HgApps -> Nat]
  BY DEF HgType, HgEntries
<1>5. /\ \A s \in HgSlots : R[s] = IF hgtable[s].ipa = i THEN hgtable[s].refs ELSE 0
      /\ \A a \in HgApps : J[a] = hgMember[a][i]
  BY DEF HgRefsAt, HgJoinsBy
<1>6. hgMember \in [HgApps -> [HgGroups -> Nat]] /\ hgtable \in [HgSlots -> HgEntries]
  BY DEF HgType
<1>7. CASE i = g
  <2>1. Q[t] = R[t] + 1 /\ \A s \in HgSlots : s # t => Q[s] = R[s]
    BY <1>5, <1>7
  <2>2. K[b] = J[b] + 1 /\ \A a \in HgApps : a # b => K[a] = J[a]
    BY <1>5, <1>6, <1>7
  <2> HIDE DEF Q, K, R, J
  <2>3. HgSum(HgSlots, Q) = HgSum(HgSlots, R) + 1
    BY <1>2, <1>4, <2>1, HgSumUp
  <2>4. HgSum(HgApps, K) = HgSum(HgApps, J) + 1
    BY <1>2, <1>4, <2>2, HgSumUp
  <2> QED BY <1>1, <1>2, <1>3, <2>3, <2>4
<1>8. CASE i # g
  <2>1. \A s \in HgSlots : Q[s] = R[s]
    BY <1>5, <1>6, <1>8 DEF HgEntries
  <2>2. \A a \in HgApps : K[a] = J[a]
    BY <1>5, <1>6, <1>8
  <2>3. Q = R /\ K = J
    BY <1>2, <1>4, <2>1, <2>2
  <2> HIDE DEF Q, K, R, J
  <2> QED BY <1>1, <1>2, <1>3, <2>3
<1> QED BY <1>7, <1>8

\* A leave: the other way round.
LEMMA HgCountDown ==
    ASSUME HgType, HgType', HgCounted, NEW g \in HgGroups, NEW t \in HgSlots, NEW b \in HgApps,
           hgMember[b][g] > 0, hgMember' = [hgMember EXCEPT ![b][g] = @ - 1],
           hgtable[t].ipa = g, hgtable'[t].ipa = g, hgtable[t].refs > 0,
           hgtable'[t].refs = hgtable[t].refs - 1,
           \A s \in HgSlots : s # t => hgtable'[s] = hgtable[s]
    PROVE  HgCounted'
<1> SUFFICES ASSUME NEW i \in HgGroups PROVE HgRefs(i)' = HgJoined(i)'
  BY DEF HgCounted
<1>1. HgRefs(i) = HgJoined(i)
  BY DEF HgCounted
<1> DEFINE R == HgRefsAt(i)
           Q == [s \in HgSlots |-> IF hgtable'[s].ipa = i THEN hgtable'[s].refs ELSE 0]
           J == HgJoinsBy(i)
           K == [a \in HgApps |-> hgMember'[a][i]]
<1>2. /\ HgRefs(i) = HgSum(HgSlots, R) /\ HgJoined(i) = HgSum(HgApps, J)
      /\ R \in [HgSlots -> Nat] /\ J \in [HgApps -> Nat] /\ IsFiniteSet(HgSlots) /\ IsFiniteSet(HgApps)
  BY HgSums
<1>3. HgRefs(i)' = HgSum(HgSlots, Q) /\ HgJoined(i)' = HgSum(HgApps, K)
  BY Zenon DEF HgRefs, HgJoined
<1>4. Q \in [HgSlots -> Nat] /\ K \in [HgApps -> Nat]
  BY DEF HgType, HgEntries
<1>5. /\ \A s \in HgSlots : R[s] = IF hgtable[s].ipa = i THEN hgtable[s].refs ELSE 0
      /\ \A a \in HgApps : J[a] = hgMember[a][i]
  BY DEF HgRefsAt, HgJoinsBy
<1>6. hgMember \in [HgApps -> [HgGroups -> Nat]] /\ hgtable \in [HgSlots -> HgEntries]
  BY DEF HgType
<1>7. CASE i = g
  <2>0. hgtable[t].refs \in Nat /\ hgMember[b][g] \in Nat
    BY <1>6 DEF HgEntries
  <2>1. R[t] = Q[t] + 1 /\ \A s \in HgSlots : s # t => R[s] = Q[s]
    BY <1>5, <1>7, <2>0
  <2>2. J[b] = K[b] + 1 /\ \A a \in HgApps : a # b => J[a] = K[a]
    BY <1>5, <1>6, <1>7, <2>0
  <2> HIDE DEF Q, K, R, J
  <2>3. HgSum(HgSlots, Q) \in Nat /\ HgSum(HgSlots, R) = HgSum(HgSlots, Q) + 1
    BY <1>2, <1>4, <2>1, HgSumUp
  <2>4. HgSum(HgApps, K) \in Nat /\ HgSum(HgApps, J) = HgSum(HgApps, K) + 1
    BY <1>2, <1>4, <2>2, HgSumUp
  <2>5. PICK q \in Nat, k \in Nat : q = HgSum(HgSlots, Q) /\ k = HgSum(HgApps, K)
    BY <2>3, <2>4
  <2>6. q + 1 = k + 1
    BY <1>1, <1>2, <2>3, <2>4, <2>5
  <2> QED BY <1>3, <2>5, <2>6
<1>8. CASE i # g
  <2>1. \A s \in HgSlots : Q[s] = R[s]
    BY <1>5, <1>8
  <2>2. \A a \in HgApps : K[a] = J[a]
    BY <1>5, <1>6, <1>8
  <2>3. Q = R /\ K = J
    BY <1>2, <1>4, <2>1, <2>2
  <2> HIDE DEF Q, K, R, J
  <2> QED BY <1>1, <1>2, <1>3, <2>3
<1> QED BY <1>7, <1>8

\* Names of processes differ from each other and from no process.
LEMMA HgNames ==
    /\ "ip" \in HgProcs /\ "update" \in HgProcs /\ HgApps \subseteq HgProcs
    /\ \A a \in HgApps : a # "ip" /\ a # "update" /\ a # HgNobody
    /\ "ip" # HgNobody /\ "update" # HgNobody /\ HgNone \notin HgSlots
BY HgAssumption DEF HgProcs, HgNobody, HgNone, HgSlots

\* While hi_mutex is free nobody is in the middle of anything.
LEMMA HgUnlocked ==
    ASSUME HgWork, HgLock
    PROVE  /\ \A a \in HgApps : hgPc[a] # "clear"
           /\ hgPc["ip"] = "idle" /\ hgPc["update"] # "send" /\ \A s : ~HgClearing(s)
BY HgNames DEF HgWork, HgLock, HgClearing, HgAt

\* What hglookup() finds.
LEMMA HgLookup ==
    ASSUME HgType, NEW g
    PROVE  /\ hglookup(g) # HgNone =>
                /\ hglookup(g) \in HgSlots /\ hgtable[hglookup(g)].ipa = g
                /\ hgtable[hglookup(g)].state # "FREE"
           /\ (\E s \in HgSlots : hgtable[s].state # "FREE" /\ hgtable[s].ipa = g) => hglookup(g) # HgNone
<1> DEFINE hit == {s \in HgSlots : hgtable[s].state # "FREE" /\ hgtable[s].ipa = g}
<1>1. hglookup(g) = IF hit = {} THEN HgNone ELSE Min(hit)
  BY DEF hglookup
<1>2. hit \in SUBSET Nat
  BY HgAssumption DEF HgSlots
<1>3. hit # {} => Min(hit) \in hit
  BY <1>2, Smallest
<1> QED BY <1>1, <1>3, HgNames

\* The slot hgnextfree() stops at.
LEMMA HgNextSlot == ASSUME HgType PROVE HgNextFree \in HgSlots
<1> DEFINE free == {k \in 1..HgTSize : hgtable[(hgStart + k) % HgTSize].state = "FREE"}
<1>1. free \in SUBSET Nat /\ (free # {} => Min(free) \in free)
  BY HgAssumption, Smallest
<1>2. HgNextFree = IF free = {} THEN hgStart ELSE (hgStart + Min(free)) % HgTSize
  BY DEF HgNextFree
<1>3. \A k \in Nat : (hgStart + k) % HgTSize \in HgSlots
  BY HgAssumption DEF HgType, HgSlots
<1> QED BY <1>1, <1>2, <1>3 DEF HgType

\* A step that changes no slot: what is left to show.
LEMMA HgQuiet ==
    ASSUME HgInv, HgType', HgWork', UNCHANGED <<hgtable, hgMember>>,
           \A s \in HgSlots : HgClearing(s)' <=> HgClearing(s),
           \A s \in HgSlots : HgOnItsWay(s) => HgOnItsWay(s)'
    PROVE  HgInv'
<1>1. HgCounted'
  BY HgCountKept DEF HgInv
<1>2. HgUsed' /\ HgReported'
  BY DEF HgInv, HgUsed, HgReported
<1> QED BY <1>1, <1>2 DEF HgInv

\* hgjoin: a known group gains a reference, a new one is to be added.
LEMMA HgJoinStep == ASSUME HgInv, NEW a \in HgApps, NEW g \in HgGroups, hgjoin(a, g) PROVE HgInv'
<1> USE HgNames
<1>1. HgType /\ HgWork /\ HgCounted /\ HgUsed /\ HgReported /\ HgLock /\ hgPc[a] = "idle"
  BY DEF HgInv, hgjoin, HgAt
<1>2. (\A b \in HgApps : hgPc[b] # "clear") /\ hgPc["ip"] = "idle" /\ \A s : ~HgClearing(s)
  BY <1>1, HgUnlocked
<1>3. UNCHANGED <<hgStart, hiMutex, hgTimer, hgPort>>
  BY DEF hgjoin
<1>4. CASE hglookup(g) # HgNone
  <2> DEFINE t == hglookup(g)
  <2>1. t \in HgSlots /\ hgtable[t].ipa = g /\ hgtable[t].state # "FREE"
    BY <1>1, <1>4, HgLookup
  <2>2. /\ hgtable' = [hgtable EXCEPT ![t].refs = @ + 1]
        /\ hgMember' = [hgMember EXCEPT ![a][g] = @ + 1] /\ UNCHANGED <<hgPc, hgArg>>
    BY <1>4 DEF hgjoin
  <2> HIDE DEF t
  <2>3. hgtable \in [HgSlots -> HgEntries] /\ hgMember \in [HgApps -> [HgGroups -> Nat]]
    BY <1>1 DEF HgType
  <2>4. /\ hgtable'[t].refs = hgtable[t].refs + 1 /\ hgtable'[t].ipa = g /\ hgtable'[t].state = hgtable[t].state
        /\ \A s \in HgSlots : s # t => hgtable'[s] = hgtable[s]
        /\ hgtable' \in [HgSlots -> HgEntries] /\ hgMember' \in [HgApps -> [HgGroups -> Nat]]
    BY <2>1, <2>2, <2>3 DEF HgEntries
  <2>5. HgType'
    BY <1>1, <1>3, <2>2, <2>4 DEF HgType
  <2>6. HgWork'
    BY <1>1, <1>2, <1>3, <2>2, <2>4 DEF HgWork
  <2>7. HgCounted'
    BY <1>1, <2>1, <2>2, <2>4, <2>5, HgCountUp
  <2>8. HgUsed'
    <3>1. \A s \in HgSlots : ~HgClearing(s)'
      BY <1>2, <2>2 DEF HgClearing, HgAt
    <3>2. hgtable[t].refs \in Nat
      BY <2>1, <2>3 DEF HgEntries
    <3> QED BY <1>1, <1>2, <2>1, <2>4, <3>1, <3>2 DEF HgUsed
  <2>9. HgReported'
    BY <1>1, <1>3, <2>2, <2>4 DEF HgReported, HgOnItsWay, HgAt
  <2> QED BY <2>5, <2>6, <2>7, <2>8, <2>9 DEF HgInv
<1>5. CASE hglookup(g) = HgNone
  <2>1. /\ hgPc' = [hgPc EXCEPT ![a] = "add"] /\ hgArg' = [hgArg EXCEPT ![a] = g]
        /\ UNCHANGED <<hgtable, hgMember>>
    BY <1>5 DEF hgjoin, HgGoto
  <2>2. HgType'
    BY <1>1, <1>3, <2>1 DEF HgType
  <2>3. HgWork'
    BY <1>1, <1>3, <2>1 DEF HgWork, HgType
  <2>4. \A s \in HgSlots : HgClearing(s)' <=> HgClearing(s)
    BY <1>1, <1>2, <2>1 DEF HgClearing, HgAt, HgType
  <2>5. \A s \in HgSlots : HgOnItsWay(s) => HgOnItsWay(s)'
    BY <1>1, <1>3, <2>1 DEF HgOnItsWay, HgAt, HgType
  <2> QED BY <2>1, <2>2, <2>3, <2>4, <2>5, HgQuiet
<1> QED BY <1>4, <1>5

\* hgadd: the group gets a free slot and its first reference, or fails.
LEMMA HgAddStep == ASSUME HgInv, NEW a \in HgApps, hgadd(a) PROVE HgInv'
<1> USE HgNames
<1> DEFINE t == HgNextFree
           g == hgArg[a]
<1>1. HgType /\ HgWork /\ HgCounted /\ HgUsed /\ HgReported /\ HgLock /\ hgPc[a] = "add" /\ g \in HgGroups
  BY DEF HgInv, hgadd, HgAt, HgWork
<1>2. (\A b \in HgApps : hgPc[b] # "clear") /\ hgPc["ip"] = "idle" /\ \A s : ~HgClearing(s)
  BY <1>1, HgUnlocked
<1>3. UNCHANGED <<hiMutex, hgTimer, hgPort, hgArg>> /\ hgStart' = t /\ t \in HgSlots
  BY <1>1, HgNextSlot DEF hgadd
<1>4. CASE hgPc' = [hgPc EXCEPT ![a] = "idle"] /\ UNCHANGED <<hgtable, hgMember>>
  <2>1. HgType'
    BY <1>1, <1>3, <1>4 DEF HgType
  <2>2. HgWork'
    BY <1>1, <1>3, <1>4 DEF HgWork, HgType
  <2>3. \A s \in HgSlots : HgClearing(s)' <=> HgClearing(s)
    BY <1>1, <1>2, <1>3, <1>4 DEF HgClearing, HgAt, HgType
  <2>4. \A s \in HgSlots : HgOnItsWay(s) => HgOnItsWay(s)'
    BY <1>1, <1>3, <1>4 DEF HgOnItsWay, HgAt, HgType
  <2> QED BY <1>4, <2>1, <2>2, <2>3, <2>4, HgQuiet
<1>5. CASE /\ hgtable[t].state = "FREE" /\ hgPc' = [hgPc EXCEPT ![a] = "route"]
           /\ hgtable' = [hgtable EXCEPT ![t] = [state |-> "IDLE", ipa |-> g, refs |-> 1]]
           /\ hgMember' = [hgMember EXCEPT ![a][g] = @ + 1]
  <2>1. hgtable \in [HgSlots -> HgEntries] /\ hgMember \in [HgApps -> [HgGroups -> Nat]]
    BY <1>1 DEF HgType
  <2>2. hgtable[t].refs = 0
    BY <1>1, <1>3, <1>5, <2>1 DEF HgUsed, HgEntries
  <2> HIDE DEF t, g
  <2>3. /\ hgtable'[t].refs = 1 /\ hgtable'[t].ipa = g /\ hgtable'[t].state = "IDLE"
        /\ \A s \in HgSlots : s # t => hgtable'[s] = hgtable[s]
        /\ hgtable' \in [HgSlots -> HgEntries] /\ hgMember' \in [HgApps -> [HgGroups -> Nat]]
    BY <1>1, <1>3, <1>5, <2>1 DEF HgEntries, HgStates
  <2>4. HgType'
    BY <1>1, <1>3, <1>5, <2>3 DEF HgType
  <2>5. HgWork'
    BY <1>1, <1>2, <1>3, <1>5, <2>3 DEF HgWork, HgType, g
  <2>6. hgtable'[t].refs = (IF hgtable[t].ipa = g THEN hgtable[t].refs ELSE 0) + 1
    BY <2>2, <2>3
  <2>7. HgCounted'
    BY <1>1, <1>3, <1>5, <2>2, <2>3, <2>4, <2>6, HgCountUp
  <2>8. \A s \in HgSlots : ~HgClearing(s)'
    BY <1>1, <1>2, <1>3, <1>5 DEF HgClearing, HgAt, HgType
  <2>9. HgUsed'
    BY <1>1, <1>2, <1>3, <2>3, <2>8 DEF HgUsed
  <2>10. HgReported'
    BY <1>1, <1>3, <1>5, <2>3 DEF HgReported, HgOnItsWay, HgAt, HgType
  <2> QED BY <2>4, <2>5, <2>7, <2>9, <2>10 DEF HgInv
<1> QED BY <1>4, <1>5 DEF hgadd, HgGoto

\* hgjoin, after hgadd.
LEMMA HgRouteStep == ASSUME HgInv, NEW a \in HgApps, hgjoinRoute(a) PROVE HgInv'
<1> USE HgNames
<1>1. HgType /\ HgWork /\ hgPc[a] = "route" /\ hgPc' = [hgPc EXCEPT ![a] = "idle"]
  BY DEF HgInv, hgjoinRoute, HgAt, HgGoto
<1>2. UNCHANGED <<hgtable, hgStart, hiMutex, hgArg, hgTimer, hgPort, hgMember>>
  BY DEF hgjoinRoute
<1>3. HgType'
  BY <1>1, <1>2 DEF HgType
<1>4. HgWork'
  BY <1>1, <1>2 DEF HgWork, HgType
<1>5. \A s \in HgSlots : HgClearing(s)' <=> HgClearing(s)
  BY <1>1, <1>2 DEF HgClearing, HgAt, HgType
<1>6. \A s \in HgSlots : HgOnItsWay(s) => HgOnItsWay(s)'
  BY <1>1, <1>2 DEF HgOnItsWay, HgAt, HgType
<1> QED BY <1>2, <1>3, <1>4, <1>5, <1>6, HgQuiet

\* A member's group is in the table, with a reference.
LEMMA HgMemberHasSlot ==
    ASSUME HgInv, HgLock, NEW a \in HgApps, NEW g \in HgGroups, hgMember[a][g] > 0
    PROVE  /\ hglookup(g) \in HgSlots /\ hgtable[hglookup(g)].ipa = g
           /\ hgtable[hglookup(g)].state # "FREE" /\ hgtable[hglookup(g)].refs > 0
<1> USE HgNames
<1>1. HgType /\ HgCounted /\ HgUsed /\ \A s : ~HgClearing(s)
  BY HgUnlocked DEF HgInv
<1> DEFINE R == HgRefsAt(g)
           J == HgJoinsBy(g)
<1>2. /\ HgRefs(g) = HgSum(HgSlots, R) /\ HgJoined(g) = HgSum(HgApps, J)
      /\ R \in [HgSlots -> Nat] /\ J \in [HgApps -> Nat] /\ IsFiniteSet(HgSlots) /\ IsFiniteSet(HgApps)
  BY <1>1, HgSums
<1>3. /\ \A s \in HgSlots : R[s] = IF hgtable[s].ipa = g THEN hgtable[s].refs ELSE 0
      /\ J[a] = hgMember[a][g] /\ hgMember[a][g] \in Nat
  BY <1>1 DEF HgRefsAt, HgJoinsBy, HgType
<1> HIDE DEF R, J
<1>4. HgSum(HgApps, J) # 0
  BY <1>2, <1>3, HgSumZero
<1>5. HgSum(HgSlots, R) # 0
  BY <1>1, <1>2, <1>4 DEF HgCounted
<1>6. PICK s \in HgSlots : R[s] # 0
  BY <1>2, <1>5, HgSumZero
<1>7. hgtable[s].ipa = g /\ hgtable[s].refs > 0
  BY <1>2, <1>3, <1>6
<1>8. hgtable[s].state # "FREE"
  BY <1>1, <1>7 DEF HgUsed
<1>9. hglookup(g) # HgNone
  BY <1>1, <1>7, <1>8, HgLookup
<1>10. hglookup(g) \in HgSlots /\ hgtable[hglookup(g)].ipa = g /\ hgtable[hglookup(g)].state # "FREE"
  BY <1>1, <1>9, HgLookup
<1> QED BY <1>1, <1>10 DEF HgUsed

\* hgleave: a reference goes; the last one takes the slot with it.
LEMMA HgLeaveStep == ASSUME HgInv, NEW a \in HgApps, NEW g \in HgGroups, hgleave(a, g) PROVE HgInv'
<1> USE HgNames
<1> DEFINE t == hglookup(g)
<1>1. /\ HgType /\ HgWork /\ HgCounted /\ HgUsed /\ HgReported /\ HgLock /\ hgPc[a] = "idle"
      /\ hgMember[a][g] > 0
  BY DEF HgInv, hgleave, HgAt
<1>2. /\ (\A b \in HgApps : hgPc[b] # "clear") /\ hgPc["ip"] = "idle" /\ hgPc["update"] # "send"
      /\ \A s : ~HgClearing(s)
  BY <1>1, HgUnlocked
<1>3. t \in HgSlots /\ hgtable[t].ipa = g /\ hgtable[t].state # "FREE" /\ hgtable[t].refs > 0
  BY <1>1, HgMemberHasSlot
<1>4. /\ hgMember' = [hgMember EXCEPT ![a][g] = @ - 1] /\ UNCHANGED <<hgStart, hgTimer, hgPort>>
      /\ \/ /\ hgtable[t].refs > 1 /\ hgtable' = [hgtable EXCEPT ![t].refs = @ - 1]
            /\ UNCHANGED <<hiMutex, hgPc, hgArg>>
         \/ /\ ~(hgtable[t].refs > 1) /\ hgtable[t].state = "DELAYING"
            /\ hgtable' = [hgtable EXCEPT ![t].refs = 0] /\ hgPc' = [hgPc EXCEPT ![a] = "clear"]
            /\ hgArg' = [hgArg EXCEPT ![a] = t] /\ hiMutex' = a
         \/ /\ ~(hgtable[t].refs > 1) /\ hgtable[t].state # "DELAYING"
            /\ hgtable' = [hgtable EXCEPT ![t].state = "FREE", ![t].refs = 0]
            /\ UNCHANGED <<hiMutex, hgPc, hgArg>>
  BY DEF hgleave, HgGoto
<1>5. /\ hgtable \in [HgSlots -> HgEntries] /\ hgMember \in [HgApps -> [HgGroups -> Nat]]
      /\ hgtable[t].refs \in Nat /\ hgMember[a][g] \in Nat
  BY <1>1, <1>3 DEF HgType, HgEntries
<1> HIDE DEF t
<1>6. /\ hgtable' \in [HgSlots -> HgEntries] /\ hgtable'[t].ipa = g
      /\ hgtable'[t].refs = hgtable[t].refs - 1 /\ \A s \in HgSlots : s # t => hgtable'[s] = hgtable[s]
      /\ hgtable'[t].state \in {hgtable[t].state, "FREE"}
  <2>1. CASE hgtable[t].refs > 1 /\ hgtable' = [hgtable EXCEPT ![t].refs = @ - 1]
    BY <1>3, <1>5, <2>1 DEF HgEntries, HgStates
  <2>2. CASE ~(hgtable[t].refs > 1)
    <3>1. hgtable[t].refs = 1
      BY <1>3, <1>5, <2>2
    <3>2. CASE hgtable' = [hgtable EXCEPT ![t].refs = 0]
      BY <1>3, <1>5, <3>1, <3>2 DEF HgEntries, HgStates
    <3>3. CASE hgtable' = [hgtable EXCEPT ![t].state = "FREE", ![t].refs = 0]
      BY <1>3, <1>5, <3>1, <3>3 DEF HgEntries, HgStates
    <3> QED BY <1>4, <2>2, <3>2, <3>3
  <2> QED BY <1>4, <2>1, <2>2
<1>7. hgMember' \in [HgApps -> [HgGroups -> Nat]]
  BY <1>4, <1>5, <1>1
<1>8. HgType'
  <2>1. hgPc' \in [HgProcs -> {"idle", "add", "route", "clear", "report", "query", "lock", "send"}]
    BY <1>1, <1>4 DEF HgType
  <2>2. hgArg' \in [HgProcs -> HgGroups \cup (0..HgTSize)]
    <3>1. t \in 0..HgTSize
      BY <1>3, HgAssumption DEF HgSlots
    <3> QED BY <1>1, <1>4, <3>1 DEF HgType
  <2> QED BY <1>1, <1>4, <1>6, <1>7, <2>1, <2>2 DEF HgType
<1>9. HgCounted'
  BY <1>1, <1>3, <1>4, <1>6, <1>8, HgCountDown
<1>10. HgReported'
  <2>1. \A s \in HgSlots : HgOnItsWay(s)' <=> HgOnItsWay(s)
    BY <1>1, <1>4 DEF HgOnItsWay, HgAt, HgType
  <2> QED BY <1>1, <1>6, <2>1 DEF HgReported
<1>11. CASE hgPc' = hgPc /\ hgArg' = hgArg /\ hiMutex' = hiMutex
  <2>1. HgWork'
    BY <1>1, <1>2, <1>6, <1>11 DEF HgWork
  <2>2. \A s \in HgSlots : ~HgClearing(s)'
    BY <1>2, <1>11 DEF HgClearing, HgAt
  <2>3. hgtable'[t].refs > 0 <=> hgtable'[t].state # "FREE"
    <3>1. CASE hgtable[t].refs > 1
      BY <1>3, <1>4, <1>5, <1>6, <3>1 DEF HgEntries
    <3>2. CASE ~(hgtable[t].refs > 1)
      <4>1. hgPc[a] # "clear" /\ hgPc \in [HgProcs -> {"idle", "add", "route", "clear", "report", "query", "lock", "send"}]
        BY <1>1, <1>2 DEF HgType
      <4>2. hgPc # [hgPc EXCEPT ![a] = "clear"]
        BY <4>1
      <4>3. hgtable' = [hgtable EXCEPT ![t].state = "FREE", ![t].refs = 0]
        BY <1>4, <1>11, <3>2, <4>2
      <4> QED BY <1>3, <1>5, <4>3 DEF HgEntries
    <3> QED BY <3>1, <3>2
  <2>4. HgUsed'
    BY <1>1, <1>2, <1>6, <2>2, <2>3 DEF HgUsed
  <2> QED BY <1>8, <1>9, <1>10, <2>1, <2>4 DEF HgInv
<1>12. CASE /\ ~(hgtable[t].refs > 1) /\ hgPc' = [hgPc EXCEPT ![a] = "clear"]
            /\ hgArg' = [hgArg EXCEPT ![a] = t] /\ hiMutex' = a
  <2>1. hgtable'[t].refs = 0
    BY <1>3, <1>5, <1>6, <1>12
  <2>2. /\ hgPc'[a] = "clear" /\ hgArg'[a] = t
        /\ \A p \in HgProcs : p # a => hgPc'[p] = hgPc[p] /\ hgArg'[p] = hgArg[p]
    BY <1>1, <1>12 DEF HgType
  <2>3. HgWork'
    BY <1>1, <1>2, <1>3, <1>12, <2>1, <2>2 DEF HgWork
  <2>4. \A s \in HgSlots : HgClearing(s)' <=> s = t
    BY <1>2, <2>2 DEF HgClearing, HgAt
  <2>5. HgUsed'
    BY <1>1, <1>2, <1>6, <2>1, <2>4 DEF HgUsed
  <2> QED BY <1>8, <1>9, <1>10, <2>3, <2>5 DEF HgInv
<1> QED BY <1>4, <1>11, <1>12

\* hgleave, after tmclear: the slot is free.
LEMMA HgLeaveClearStep == ASSUME HgInv, NEW a \in HgApps, hgleaveClear(a) PROVE HgInv'
<1> USE HgNames
<1> DEFINE t == hgArg[a]
<1>1. /\ HgType /\ HgWork /\ HgCounted /\ HgUsed /\ HgReported /\ hgPc[a] = "clear"
      /\ t \in HgSlots /\ hiMutex = a /\ hgtable[t].refs = 0
  BY DEF HgInv, hgleaveClear, HgAt, HgWork
<1>2. (\A b \in HgApps : b # a => hgPc[b] # "clear") /\ hgPc["ip"] = "idle" /\ hgPc["update"] # "send"
  BY <1>1 DEF HgWork
<1>3. /\ hgTimer' = hgTimer \ {t} /\ hgtable' = [hgtable EXCEPT ![t].state = "FREE"]
      /\ hgPc' = [hgPc EXCEPT ![a] = "idle"] /\ hiMutex' = HgNobody
      /\ UNCHANGED <<hgStart, hgArg, hgPort, hgMember>>
  BY DEF hgleaveClear, HgTmclear, HgGoto
<1> HIDE DEF t
<1>4. /\ hgtable' \in [HgSlots -> HgEntries] /\ hgtable'[t].state = "FREE" /\ hgtable'[t].refs = 0
      /\ \A s \in HgSlots : /\ hgtable'[s].ipa = hgtable[s].ipa /\ hgtable'[s].refs = hgtable[s].refs
                            /\ s # t => hgtable'[s] = hgtable[s]
  BY <1>1, <1>3, ZenonT(50) DEF HgType, HgEntries, HgStates
<1>5. hgPc'[a] = "idle" /\ \A p \in HgProcs : p # a => hgPc'[p] = hgPc[p]
  BY <1>1, <1>3 DEF HgType
<1>6. HgType'
  BY <1>1, <1>3, <1>4 DEF HgType
<1>7. HgWork'
  BY <1>1, <1>2, <1>3, <1>5 DEF HgWork
<1>8. HgCounted'
  BY <1>1, <1>3, <1>4, HgCountKept
<1>9. \A s \in HgSlots : ~HgClearing(s)' /\ (s # t => ~HgClearing(s))
  BY <1>1, <1>2, <1>3, <1>5 DEF HgClearing, HgAt, t
<1>10. HgUsed'
  BY <1>1, <1>4, <1>9 DEF HgUsed
<1>11. HgReported'
  <2>1. \A s \in HgSlots : s # t /\ HgOnItsWay(s) => HgOnItsWay(s)'
    BY <1>1, <1>3, <1>5 DEF HgOnItsWay, HgAt
  <2> QED BY <1>1, <1>4, <2>1 DEF HgReported
<1> QED BY <1>6, <1>7, <1>8, <1>10, <1>11 DEF HgInv

\* igmp_in of a report looks its group up.
LEMMA HgReportStep == ASSUME HgInv, NEW g \in HgGroups, HgReport(g) PROVE HgInv'
<1> USE HgNames
<1> DEFINE t == hglookup(g)
<1>1. HgType /\ HgWork /\ HgLock /\ hgPc["ip"] = "idle"
  BY DEF HgInv, HgReport, HgAt
<1>2. (\A b \in HgApps : hgPc[b] # "clear") /\ hgPc["update"] # "send"
  BY <1>1, HgUnlocked
<1>3. UNCHANGED <<hgtable, hgStart, hgTimer, hgPort, hgMember>>
  BY DEF HgReport
<1>4. CASE UNCHANGED <<hgPc, hgArg, hiMutex>>
  <2>1. HgType' /\ HgWork'
    BY <1>1, <1>3, <1>4 DEF HgType, HgWork
  <2>2. \A s \in HgSlots : (HgClearing(s)' <=> HgClearing(s)) /\ (HgOnItsWay(s) => HgOnItsWay(s)')
    BY <1>3, <1>4 DEF HgClearing, HgOnItsWay, HgAt
  <2> QED BY <1>3, <2>1, <2>2, HgQuiet
<1>5. CASE /\ t # HgNone /\ hgtable[t].state = "DELAYING" /\ hgPc' = [hgPc EXCEPT !["ip"] = "report"]
           /\ hgArg' = [hgArg EXCEPT !["ip"] = t] /\ hiMutex' = "ip"
  <2>1. t \in HgSlots
    BY <1>1, <1>5, HgLookup
  <2> HIDE DEF t
  <2>2. t \in 0..HgTSize
    BY <2>1, HgAssumption DEF HgSlots
  <2>3. /\ hgPc'["ip"] = "report" /\ hgArg'["ip"] = t
        /\ \A p \in HgProcs : p # "ip" => hgPc'[p] = hgPc[p] /\ hgArg'[p] = hgArg[p]
    BY <1>1, <1>5 DEF HgType
  <2>4. HgType'
    BY <1>1, <1>3, <1>5, <2>2 DEF HgType
  <2>5. HgWork'
    BY <1>1, <1>2, <1>3, <1>5, <2>1, <2>3 DEF HgWork
  <2>6. \A s \in HgSlots : (HgClearing(s)' <=> HgClearing(s)) /\ (HgOnItsWay(s) => HgOnItsWay(s)')
    BY <1>3, <2>3 DEF HgClearing, HgOnItsWay, HgAt
  <2> QED BY <1>3, <2>4, <2>5, <2>6, HgQuiet
<1> QED BY <1>4, <1>5 DEF HgReport, HgGoto

\* igmp_in, after tmclear: the report of somebody else will do.
LEMMA HgReportClearStep == ASSUME HgInv, HgReportClear PROVE HgInv'
<1> USE HgNames
<1> DEFINE t == hgArg["ip"]
<1>1. /\ HgType /\ HgWork /\ HgCounted /\ HgUsed /\ HgReported /\ hgPc["ip"] = "report"
      /\ t \in HgSlots /\ hiMutex = "ip" /\ hgtable[t].state = "DELAYING"
  BY DEF HgInv, HgReportClear, HgAt, HgWork
<1>2. (\A b \in HgApps : hgPc[b] # "clear") /\ hgPc["update"] # "send"
  BY <1>1 DEF HgWork
<1>3. /\ hgTimer' = hgTimer \ {t} /\ hgtable' = [hgtable EXCEPT ![t].state = "IDLE"]
      /\ hgPc' = [hgPc EXCEPT !["ip"] = "idle"] /\ hiMutex' = HgNobody
      /\ UNCHANGED <<hgStart, hgArg, hgPort, hgMember>>
  BY DEF HgReportClear, HgTmclear, HgGoto
<1> HIDE DEF t
<1>4. /\ hgtable' \in [HgSlots -> HgEntries] /\ hgtable'[t].state = "IDLE"
      /\ \A s \in HgSlots : /\ hgtable'[s].ipa = hgtable[s].ipa /\ hgtable'[s].refs = hgtable[s].refs
                            /\ s # t => hgtable'[s] = hgtable[s]
  BY <1>1, <1>3 DEF HgType, HgEntries, HgStates
<1>5. hgPc'["ip"] = "idle" /\ \A p \in HgProcs : p # "ip" => hgPc'[p] = hgPc[p]
  BY <1>1, <1>3 DEF HgType
<1>6. HgType'
  BY <1>1, <1>3, <1>4 DEF HgType
<1>7. HgWork'
  BY <1>1, <1>2, <1>3, <1>5 DEF HgWork
<1>8. HgCounted'
  BY <1>1, <1>3, <1>4, HgCountKept
<1>9. \A s \in HgSlots : ~HgClearing(s)' /\ ~HgClearing(s)
  BY <1>2, <1>5 DEF HgClearing, HgAt
<1>10. HgUsed'
  BY <1>1, <1>4, <1>9 DEF HgUsed
<1>11. HgReported'
  <2>1. \A s \in HgSlots : s # t /\ HgOnItsWay(s) => HgOnItsWay(s)'
    BY <1>1, <1>3, <1>5 DEF HgOnItsWay, HgAt
  <2> QED BY <1>1, <1>4, <2>1 DEF HgReported
<1> QED BY <1>6, <1>7, <1>8, <1>10, <1>11 DEF HgInv

\* igmp_in of a query takes hi_mutex.
LEMMA HgQueryStep == ASSUME HgInv, HgQuery PROVE HgInv'
<1> USE HgNames
<1>1. HgType /\ HgWork /\ HgLock /\ hgPc["ip"] = "idle"
  BY DEF HgInv, HgQuery, HgAt
<1>2. (\A b \in HgApps : hgPc[b] # "clear") /\ hgPc["update"] # "send"
  BY <1>1, HgUnlocked
<1>3. /\ UNCHANGED <<hgtable, hgStart, hgArg, hgTimer, hgPort, hgMember>>
      /\ hgPc' = [hgPc EXCEPT !["ip"] = "query"] /\ hiMutex' = "ip"
  BY DEF HgQuery, HgGoto
<1>4. hgPc'["ip"] = "query" /\ \A p \in HgProcs : p # "ip" => hgPc'[p] = hgPc[p]
  BY <1>1, <1>3 DEF HgType
<1>5. HgType'
  BY <1>1, <1>3 DEF HgType
<1>6. HgWork'
  BY <1>1, <1>2, <1>3, <1>4 DEF HgWork
<1>7. \A s \in HgSlots : (HgClearing(s)' <=> HgClearing(s)) /\ (HgOnItsWay(s) => HgOnItsWay(s)')
  BY <1>3, <1>4 DEF HgClearing, HgOnItsWay, HgAt
<1> QED BY <1>3, <1>5, <1>6, <1>7, HgQuiet

\* One turn of igmp_settimers: the next idle slot delays, its timer runs.
LEMMA HgSettimersStep == ASSUME HgInv, igmp_settimers PROVE HgInv'
<1> USE HgNames
<1>1. /\ HgType /\ HgWork /\ HgCounted /\ HgUsed /\ HgReported /\ hgPc["ip"] = "query" /\ hiMutex = "ip"
  BY DEF HgInv, igmp_settimers, HgAt, HgWork
<1>2. (\A b \in HgApps : hgPc[b] # "clear") /\ hgPc["update"] # "send"
  BY <1>1 DEF HgWork
<1>3. UNCHANGED <<hgStart, hgArg, hgPort, hgMember>>
  BY DEF igmp_settimers
<1>4. CASE HgIdle # {}
  <2> DEFINE t == Min(HgIdle)
  <2>1. t \in HgSlots /\ hgtable[t].state = "IDLE"
    <3>1. HgIdle \in SUBSET Nat
      BY HgAssumption DEF HgIdle, HgSlots
    <3>2. t \in HgIdle
      BY <1>4, <3>1, Smallest
    <3> QED BY <3>2 DEF HgIdle
  <2>2. /\ hgtable' = [hgtable EXCEPT ![t].state = "DELAYING"] /\ hgTimer' = hgTimer \cup {t}
        /\ UNCHANGED <<hgPc, hiMutex>>
    BY <1>4 DEF igmp_settimers
  <2> HIDE DEF t
  <2>3. /\ hgtable' \in [HgSlots -> HgEntries] /\ hgtable'[t].state = "DELAYING"
        /\ \A s \in HgSlots : /\ hgtable'[s].ipa = hgtable[s].ipa /\ hgtable'[s].refs = hgtable[s].refs
                              /\ s # t => hgtable'[s] = hgtable[s]
    BY <1>1, <2>1, <2>2 DEF HgType, HgEntries, HgStates
  <2>4. HgType'
    BY <1>1, <1>3, <2>1, <2>2, <2>3 DEF HgType
  <2>5. HgWork'
    BY <1>1, <1>2, <1>3, <2>2 DEF HgWork
  <2>6. HgCounted'
    BY <1>1, <1>3, <2>3, HgCountKept
  <2>7. \A s \in HgSlots : ~HgClearing(s)' /\ ~HgClearing(s)
    BY <1>2, <2>2 DEF HgClearing, HgAt
  <2>8. HgUsed'
    BY <1>1, <2>1, <2>3, <2>7 DEF HgUsed
  <2>9. HgReported'
    <3>1. \A s \in HgSlots : s = t \/ HgOnItsWay(s) => HgOnItsWay(s)'
      BY <1>3, <2>2 DEF HgOnItsWay, HgAt
    <3> QED BY <1>1, <2>3, <3>1 DEF HgReported
  <2> QED BY <2>4, <2>5, <2>6, <2>8, <2>9 DEF HgInv
<1>5. CASE HgIdle = {}
  <2>1. /\ hgPc' = [hgPc EXCEPT !["ip"] = "idle"] /\ hiMutex' = HgNobody
        /\ UNCHANGED <<hgtable, hgTimer>>
    BY <1>5 DEF igmp_settimers, HgGoto
  <2>2. hgPc'["ip"] = "idle" /\ \A p \in HgProcs : p # "ip" => hgPc'[p] = hgPc[p]
    BY <1>1, <2>1 DEF HgType
  <2>3. HgType'
    BY <1>1, <1>3, <2>1 DEF HgType
  <2>4. HgWork'
    BY <1>1, <1>2, <1>3, <2>1, <2>2 DEF HgWork
  <2>5. \A s \in HgSlots : (HgClearing(s)' <=> HgClearing(s)) /\ (HgOnItsWay(s) => HgOnItsWay(s)')
    BY <1>3, <2>1, <2>2 DEF HgClearing, HgOnItsWay, HgAt
  <2> QED BY <1>3, <2>1, <2>3, <2>4, <2>5, HgQuiet
<1> QED BY <1>4, <1>5

\* tcptimer: the slot leaves the list of timers for the port.
LEMMA HgExpireStep == ASSUME HgInv, NEW t \in HgSlots, HgExpire(t) PROVE HgInv'
<1>1. HgType /\ HgWork /\ hgPort \in Seq(HgSlots)
  BY DEF HgInv, HgType
<1>2. /\ UNCHANGED <<hgtable, hgStart, hiMutex, hgPc, hgArg, hgMember>>
      /\ hgTimer' = hgTimer \ {t} /\ hgPort' = Append(hgPort, t)
  BY DEF HgExpire
<1>3. HgType'
  BY <1>1, <1>2 DEF HgType
<1>4. HgWork'
  BY <1>1, <1>2 DEF HgWork
<1>5. /\ Len(hgPort) + 1 \in DOMAIN hgPort' /\ hgPort'[Len(hgPort) + 1] = t
      /\ \A k \in DOMAIN hgPort : k \in DOMAIN hgPort' /\ hgPort'[k] = hgPort[k]
  BY <1>1, <1>2
<1>6. ASSUME NEW s \in HgSlots, HgOnItsWay(s) PROVE HgOnItsWay(s)'
  <2>1. CASE s = t
    BY <1>5, <2>1 DEF HgOnItsWay
  <2>2. CASE s # t
    BY <1>2, <1>5, <1>6, <2>2 DEF HgOnItsWay, HgAt
  <2> QED BY <2>1, <2>2
<1>7. \A s \in HgSlots : HgClearing(s)' <=> HgClearing(s)
  BY <1>2 DEF HgClearing, HgAt
<1> QED BY <1>2, <1>3, <1>4, <1>6, <1>7, HgQuiet

\* igmp_update takes the next slot from the port.
LEMMA HgUpdateStep == ASSUME HgInv, igmp_update PROVE HgInv'
<1> USE HgNames
<1>1. /\ HgType /\ HgWork /\ hgPort \in Seq(HgSlots) /\ hgPort # <<>> /\ hgPc["update"] = "idle"
  BY DEF HgInv, HgType, igmp_update, HgAt
<1>2. /\ UNCHANGED <<hgtable, hgStart, hiMutex, hgTimer, hgMember>> /\ hgPort' = Tail(hgPort)
      /\ hgArg' = [hgArg EXCEPT !["update"] = Head(hgPort)] /\ hgPc' = [hgPc EXCEPT !["update"] = "lock"]
  BY DEF igmp_update, HgGoto
<1>3. Head(hgPort) \in HgSlots /\ Tail(hgPort) \in Seq(HgSlots)
  BY <1>1
<1>4. Head(hgPort) \in 0..HgTSize
  BY <1>3, HgAssumption DEF HgSlots
<1>5. /\ hgPc'["update"] = "lock" /\ hgArg'["update"] = Head(hgPort)
      /\ \A p \in HgProcs : p # "update" => hgPc'[p] = hgPc[p] /\ hgArg'[p] = hgArg[p]
  BY <1>1, <1>2 DEF HgType
<1>6. HgType'
  BY <1>1, <1>2, <1>3, <1>4 DEF HgType
<1>7. HgWork'
  BY <1>1, <1>2, <1>3, <1>5 DEF HgWork
<1>8. ASSUME NEW s \in HgSlots, HgOnItsWay(s) PROVE HgOnItsWay(s)'
  <2>1. CASE \E k \in DOMAIN hgPort : hgPort[k] = s
    <3>1. PICK k \in 1..Len(hgPort) : hgPort[k] = s
      BY <1>1, <2>1
    <3>2. CASE k = 1
      BY <1>1, <1>5, <3>1, <3>2 DEF HgOnItsWay, HgAt
    <3>3. CASE k # 1
      <4>1. k - 1 \in 1..Len(Tail(hgPort)) /\ Tail(hgPort)[k - 1] = s
        BY <1>1, <3>1, <3>3
      <4>2. k - 1 \in DOMAIN hgPort' /\ hgPort'[k - 1] = s
        BY <1>2, <1>3, <4>1
      <4> QED BY <4>2 DEF HgOnItsWay
    <3> QED BY <3>2, <3>3
  <2>2. CASE s \in hgTimer
    BY <1>2, <2>2 DEF HgOnItsWay
  <2> QED BY <1>1, <1>8, <2>1, <2>2 DEF HgOnItsWay, HgAt
<1>9. \A s \in HgSlots : HgClearing(s)' <=> HgClearing(s)
  BY <1>5 DEF HgClearing, HgAt
<1> QED BY <1>2, <1>6, <1>7, <1>8, <1>9, HgQuiet

\* igmp_update with hi_mutex: a group that still delays is reported.
LEMMA HgUpdateReportStep == ASSUME HgInv, igmp_updateReport PROVE HgInv'
<1> USE HgNames
<1> DEFINE t == hgArg["update"]
<1>1. /\ HgType /\ HgWork /\ HgCounted /\ HgUsed /\ HgReported /\ HgLock /\ hgPc["update"] = "lock"
      /\ t \in HgSlots
  BY DEF HgInv, igmp_updateReport, HgAt, HgWork
<1>2. (\A b \in HgApps : hgPc[b] # "clear") /\ hgPc["ip"] = "idle"
  BY <1>1, HgUnlocked
<1>3. UNCHANGED <<hgStart, hgArg, hgTimer, hgPort, hgMember>>
  BY DEF igmp_updateReport
<1>4. \A s \in HgSlots : s # t /\ HgOnItsWay(s) => s \in hgTimer \/ \E k \in DOMAIN hgPort : hgPort[k] = s
  BY DEF HgOnItsWay
<1>5. CASE /\ hgtable' = [hgtable EXCEPT ![t].state = "IDLE"] /\ hgtable[t].state = "DELAYING"
           /\ hiMutex' = "update" /\ hgPc' = [hgPc EXCEPT !["update"] = "send"]
  <2> HIDE DEF t
  <2>1. /\ hgtable' \in [HgSlots -> HgEntries] /\ hgtable'[t].state = "IDLE"
        /\ \A s \in HgSlots : /\ hgtable'[s].ipa = hgtable[s].ipa /\ hgtable'[s].refs = hgtable[s].refs
                              /\ s # t => hgtable'[s] = hgtable[s]
    BY <1>1, <1>5 DEF HgType, HgEntries, HgStates
  <2>2. hgPc'["update"] = "send" /\ \A p \in HgProcs : p # "update" => hgPc'[p] = hgPc[p]
    BY <1>1, <1>5 DEF HgType
  <2>3. HgType'
    BY <1>1, <1>3, <1>5, <2>1 DEF HgType
  <2>4. HgWork'
    BY <1>1, <1>2, <1>3, <1>5, <2>2 DEF HgWork
  <2>5. HgCounted'
    BY <1>1, <1>3, <2>1, HgCountKept
  <2>6. \A s \in HgSlots : ~HgClearing(s)' /\ ~HgClearing(s)
    BY <1>2, <2>2 DEF HgClearing, HgAt
  <2>7. HgUsed'
    BY <1>1, <1>5, <2>1, <2>6 DEF HgUsed
  <2>8. HgReported'
    <3>1. \A s \in HgSlots : s # t /\ HgOnItsWay(s) => HgOnItsWay(s)'
      BY <1>3, <1>4 DEF HgOnItsWay
    <3> QED BY <1>1, <2>1, <3>1 DEF HgReported
  <2> QED BY <2>3, <2>4, <2>5, <2>7, <2>8 DEF HgInv
<1>6. CASE /\ hgtable[t].state # "DELAYING" /\ hgPc' = [hgPc EXCEPT !["update"] = "idle"]
           /\ UNCHANGED <<hgtable, hiMutex>>
  <2> HIDE DEF t
  <2>1. hgPc'["update"] = "idle" /\ \A p \in HgProcs : p # "update" => hgPc'[p] = hgPc[p]
    BY <1>1, <1>6 DEF HgType
  <2>2. HgType'
    BY <1>1, <1>3, <1>6 DEF HgType
  <2>3. HgWork'
    BY <1>1, <1>2, <1>3, <1>6, <2>1 DEF HgWork
  <2>4. HgCounted'
    BY <1>1, <1>3, <1>6, HgCountKept
  <2>5. \A s \in HgSlots : HgClearing(s)' <=> HgClearing(s)
    BY <1>3, <2>1 DEF HgClearing, HgAt
  <2>6. HgUsed'
    BY <1>1, <1>6, <2>5 DEF HgUsed
  <2>7. HgReported'
    <3>1. \A s \in HgSlots : s # t /\ HgOnItsWay(s) => HgOnItsWay(s)'
      BY <1>3, <1>4 DEF HgOnItsWay
    <3> QED BY <1>1, <1>6, <3>1 DEF HgReported
  <2> QED BY <2>2, <2>3, <2>4, <2>6, <2>7 DEF HgInv
<1> QED BY <1>5, <1>6 DEF igmp_updateReport, HgGoto

\* igmp has sent the report; hi_mutex goes.
LEMMA HgSentStep == ASSUME HgInv, igmp PROVE HgInv'
<1> USE HgNames
<1>1. HgType /\ HgWork /\ hgPc["update"] = "send" /\ hiMutex = "update"
  BY DEF HgInv, igmp, HgAt, HgWork
<1>2. (\A b \in HgApps : hgPc[b] # "clear") /\ hgPc["ip"] = "idle"
  BY <1>1 DEF HgWork
<1>3. /\ UNCHANGED <<hgtable, hgStart, hgArg, hgTimer, hgPort, hgMember>>
      /\ hgPc' = [hgPc EXCEPT !["update"] = "idle"] /\ hiMutex' = HgNobody
  BY DEF igmp, HgGoto
<1>4. hgPc'["update"] = "idle" /\ \A p \in HgProcs : p # "update" => hgPc'[p] = hgPc[p]
  BY <1>1, <1>3 DEF HgType
<1>5. HgType'
  BY <1>1, <1>3 DEF HgType
<1>6. HgWork'
  BY <1>1, <1>2, <1>3, <1>4 DEF HgWork
<1>7. \A s \in HgSlots : (HgClearing(s)' <=> HgClearing(s)) /\ (HgOnItsWay(s) => HgOnItsWay(s)')
  BY <1>1, <1>3, <1>4 DEF HgClearing, HgOnItsWay, HgAt
<1> QED BY <1>3, <1>5, <1>6, <1>7, HgQuiet

\* hginit: only the static slot has a reference, and no member stands for it.
LEMMA HgInitInvariant == HgInit => HgInv
<1> SUFFICES ASSUME HgInit PROVE HgInv
  OBVIOUS
<1> USE HgNames
<1>1. HgType
  <2>1. 1 \in HgSlots /\ HgNone \in 0..HgTSize
    BY HgAssumption DEF HgSlots, HgNone
  <2>2. hgtable \in [HgSlots -> HgEntries]
    BY DEF HgInit, HgFree, HgEntries, HgStates
  <2>3. hgMember \in [HgApps -> [HgGroups -> Nat]]
    BY DEF HgInit
  <2>4. hgPort \in Seq(HgSlots) /\ hgTimer \in SUBSET HgSlots
    BY DEF HgInit
  <2> QED BY <2>1, <2>2, <2>3, <2>4 DEF HgInit, HgType
<1>2. HgWork
  BY DEF HgInit, HgWork
<1>3. HgCounted
  <2> SUFFICES ASSUME NEW g \in HgGroups PROVE HgRefs(g) = HgJoined(g)
    BY DEF HgCounted
  <2> DEFINE R == HgRefsAt(g)
             J == HgJoinsBy(g)
  <2>1. /\ HgRefs(g) = HgSum(HgSlots, R) /\ HgJoined(g) = HgSum(HgApps, J)
        /\ R \in [HgSlots -> Nat] /\ J \in [HgApps -> Nat] /\ IsFiniteSet(HgSlots) /\ IsFiniteSet(HgApps)
    BY <1>1, HgSums
  <2>2. \A s \in HgSlots : R[s] = 0
    <3>1. g # HgAllHosts
      BY HgAssumption
    <3> QED BY <3>1 DEF HgInit, HgRefsAt, HgFree
  <2>3. \A a \in HgApps : J[a] = 0
    BY DEF HgInit, HgJoinsBy
  <2> HIDE DEF R, J
  <2>4. HgSum(HgSlots, R) = 0 /\ HgSum(HgApps, J) = 0
    BY <2>1, <2>2, <2>3, HgSumZero
  <2> QED BY <2>1, <2>4
<1>4. HgUsed
  <2>1. \A s \in HgSlots : ~HgClearing(s)
    BY DEF HgInit, HgClearing, HgAt
  <2> QED BY <2>1 DEF HgInit, HgUsed, HgFree
<1>5. HgReported
  BY DEF HgInit, HgReported, HgFree
<1> QED BY <1>1, <1>2, <1>3, <1>4, <1>5 DEF HgInv

\* Every step of the IGMP processes and of the applications keeps the invariant.
LEMMA HgNextInvariant == HgInv /\ [HgNext]_hgVars => HgInv'
<1> SUFFICES ASSUME HgInv, [HgNext]_hgVars PROVE HgInv'
  OBVIOUS
<1>1. CASE UNCHANGED hgVars
  <2>1. UNCHANGED <<hgtable, hgStart, hiMutex, hgPc, hgArg, hgTimer, hgPort, hgMember>>
    BY <1>1 DEF hgVars
  <2>2. HgType' /\ HgWork'
    BY <2>1 DEF HgInv, HgType, HgWork
  <2>3. \A s \in HgSlots : (HgClearing(s)' <=> HgClearing(s)) /\ (HgOnItsWay(s) => HgOnItsWay(s)')
    BY <2>1 DEF HgClearing, HgOnItsWay, HgAt
  <2> QED BY <2>1, <2>2, <2>3, HgQuiet
<1>2. ASSUME NEW a \in HgApps, NEW g \in HgGroups, hgjoin(a, g) \/ hgleave(a, g) PROVE HgInv'
  BY <1>2, HgJoinStep, HgLeaveStep
<1>3. ASSUME NEW a \in HgApps, hgadd(a) \/ hgjoinRoute(a) \/ hgleaveClear(a) PROVE HgInv'
  BY <1>3, HgAddStep, HgRouteStep, HgLeaveClearStep
<1>4. ASSUME NEW g \in HgGroups, HgReport(g) PROVE HgInv'
  BY <1>4, HgReportStep
<1>5. ASSUME HgReportClear \/ HgQuery \/ igmp_settimers PROVE HgInv'
  BY <1>5, HgReportClearStep, HgQueryStep, HgSettimersStep
<1>6. ASSUME NEW s \in HgSlots, HgExpire(s) PROVE HgInv'
  BY <1>6, HgExpireStep
<1>7. ASSUME igmp_update \/ igmp_updateReport \/ igmp PROVE HgInv'
  BY <1>7, HgUpdateStep, HgUpdateReportStep, HgSentStep
<1> QED BY <1>1, <1>2, <1>3, <1>4, <1>5, <1>6, <1>7 DEF HgNext

\* The host group table keeps its invariant for every size of hgtable, every
\* set of applications and of groups, and any number of messages.
THEOREM HgInvariant == HgSpec => []HgInv
<1>1. HgInit => HgInv
  BY HgInitInvariant
<1>2. HgInv /\ [HgNext]_hgVars => HgInv'
  BY HgNextInvariant
<1> QED BY <1>1, <1>2, PTL DEF HgSpec

\* Whatever joins, leaves, queries, reports and late timer messages meet, the
\* references of a group are its joins not left, a slot is used while and only
\* while it has references, and a delayed report is never forgotten.
THEOREM HgCorrect == HgSpec => []HgAccounted
<1>1. HgInv => HgAccounted
  BY DEF HgInv, HgCounted, HgUsed, HgReported, HgClearing, HgOnItsWay, HgAccounted
<1> QED BY <1>1, HgInvariant, PTL

-----------------------------------------------------------------------------
(* The sleep list.                                                         *)

\* S has the sums of the keys: the pops after which wakeup() takes a sleeper.
SqSums(S) ==
    S[0] = 0 /\ \A k \in 1..Len(clockq) : S[k] = S[k - 1] + qkey[clockq[k]]

\* The sleepers whose sums insertd() or unsleep() has yet to correct, or has
\* corrected too early, and what the rest of the operation adds to them.
SqBehind(k) ==
    \/ mpc \in {"load", "store"} /\ midx < k
    \/ mpc \in {"inherit", "unlink"} /\ \E i \in 1..(k - 1) : clockq[i] = mself
SqCredit ==
    CASE mpc = "load" -> 0 - mkey
      [] mpc = "store" -> mtmp - qkey[clockq[midx + 1]] - mkey
      [] mpc = "inherit" -> mkey - qkey[mself]
      [] mpc = "unlink" -> 0 - qkey[mself]
      [] OTHER -> 0

\* Nobody's turn comes before its time.
SqEnough(S) ==
    \A k \in 1..Len(clockq) :
        left[clockq[k]] > 0 =>
            left[clockq[k]] <= S[k] + (IF SqBehind(k) THEN SqCredit ELSE 0)

\* The same of the process insertd() finds a place for: before the entry it has
\* come to, with the key it has left.
SqWalked(S) ==
    mpc \in {"walk", "pass", "link"} /\ left[mself] > 0 => left[mself] <= S[midx - 1] + mkey

\* Where the mainline is, and what it works on.
SqAt ==
    /\ mpc \in {"walk", "pass", "link"} =>
        /\ where[mself] = "ready" /\ midx \in 1..(Len(clockq) + 1)
        /\ mpc = "pass" => midx <= Len(clockq)
    /\ mpc \in {"load", "store"} => midx \in 1..(Len(clockq) - 1) /\ clockq[midx] = mself
    /\ mpc \in {"post1", "post2", "wtop"} => clockq # <<>>
    /\ mpc \in {"inherit", "unlink"} => where[mself] = "sleep"

\* The list holds the sleepers, each once; types.
SqList == Lists(clockq, {p \in Procs : where[p] = "sleep"}, Procs)
SqKinds ==
    /\ qkey \in [Procs -> Int] /\ slnempty \in BOOLEAN /\ sltop \in Procs \cup {NULL}
    /\ where \in [Procs -> {"ready", "sleep", "off"}] /\ mself \in Procs
    /\ mkey \in Int /\ midx \in Nat /\ mtmp \in Int /\ left \in [Procs -> Nat] /\ races \in 0..MaxRaces
SqPcs ==
    mpc \in {"idle", "walk", "pass", "link", "load", "store", "post1", "post2", "wakeup", "wtop",
            "inherit", "unlink", "untop", "abend"}
SqType == SqList /\ SqKinds /\ SqPcs

SqOrder(S) == SqSums(S) /\ (mpc # "abend" => SqEnough(S)) /\ SqWalked(S)
SqHas(S) == SqType /\ SqAt /\ S \in [Nat -> Int] /\ SqOrder(S)
SqInv == \E S \in [Nat -> Int] : SqHas(S)

\* The list and its entries.
LEMMA SqFacts ==
    ASSUME SqType
    PROVE  /\ Len(clockq) \in Nat /\ mkey \in Int /\ midx \in Nat /\ mtmp \in Int /\ mself \in Procs
           /\ clockq \in Seq(Procs) /\ qkey \in [Procs -> Int] /\ left \in [Procs -> Nat]
           /\ where \in [Procs -> {"ready", "sleep", "off"}]
           /\ \A k \in 1..Len(clockq) :
                /\ clockq[k] \in Procs /\ where[clockq[k]] = "sleep"
                /\ qkey[clockq[k]] \in Int /\ left[clockq[k]] \in Nat
           /\ \A i, j \in 1..Len(clockq) : clockq[i] = clockq[j] => i = j
           /\ \A p \in Procs : where[p] = "sleep" => \E k \in 1..Len(clockq) : clockq[k] = p
<1>1. clockq \in Seq(Procs) /\ \A k \in 1..Len(clockq) : clockq[k] \in Procs
  BY DEF SqType, SqList, Lists
<1>2. /\ qkey \in [Procs -> Int] /\ left \in [Procs -> Nat] /\ mkey \in Int /\ midx \in Nat /\ mtmp \in Int
      /\ where \in [Procs -> {"ready", "sleep", "off"}] /\ mself \in Procs
  BY DEF SqType, SqKinds
<1>3. \A k \in 1..Len(clockq) : where[clockq[k]] = "sleep"
  BY <1>1 DEF SqType, SqList, Lists, Range
<1>4. \A i, j \in 1..Len(clockq) : clockq[i] = clockq[j] => i = j
  BY <1>1 DEF SqType, SqList, Lists, IsInjective
<1>5. \A p \in Procs : where[p] = "sleep" => \E k \in 1..Len(clockq) : clockq[k] = p
  BY <1>1 DEF SqType, SqList, Lists, Range
<1>6. \A k \in 1..Len(clockq) : qkey[clockq[k]] \in Int /\ left[clockq[k]] \in Nat
  BY <1>1, <1>2
<1> QED
  BY <1>1, <1>2, <1>3, <1>4, <1>5, <1>6

LEMMA SqStart == ASSUME SleepAssumption PROVE Init => SqInv
<1> SUFFICES ASSUME Init PROVE SqInv
  OBVIOUS
<1>1. SqType
  <2>1. SqList
    <3>1. {p \in Procs : where[p] = "sleep"} = {} /\ clockq = <<>>
      BY DEF Init
    <3> QED
      BY <3>1, EmptyLists DEF SqList
  <2>2. SqKinds
    <3>1. qkey \in [Procs -> Int] /\ left \in [Procs -> Nat] /\ races \in 0..MaxRaces
      BY DEF Init, SleepAssumption
    <3>2. /\ where \in [Procs -> {"ready", "sleep", "off"}]
          /\ sltop \in Procs \cup {NULL} /\ slnempty \in BOOLEAN
      BY DEF Init
    <3> QED
      BY <3>1, <3>2 DEF Init, SqKinds
  <2> QED
    BY <2>1, <2>2 DEF Init, SqType, SqPcs
<1>2. SqAt
  BY DEF Init, SqAt
<1>3. PICK S \in [Nat -> Int] : S = [k \in Nat |-> 0]
  <2>1. [k \in Nat |-> 0] \in [Nat -> Int]
    OBVIOUS
  <2> QED
    BY <2>1
<1>4. SqOrder(S)
  BY <1>3 DEF Init, SqOrder, SqSums, SqEnough, SqWalked
<1> QED
  BY <1>1, <1>2, <1>4 DEF SqInv, SqHas

\* Steps that leave the keys of the list alone.
LEMMA SqCallStep ==
    ASSUME SleepAssumption, NEW S, SqHas(S), NEW p \in Procs,
           NEW c \in Calls, NEW n \in 0..MaxSleep, Call(p, c, n)
    PROVE  SqHas(S)'
<1> USE DEF SqHas, Call, At, listVars
<1>1. SqType'
  <2>1. SqList'
    BY DEF SqType, SqList, SleepAssumption
  <2>2. SqKinds'
    BY DEF SqType, SqKinds, SleepAssumption, SqList
  <2>3. SqPcs'
    BY DEF SqType, SqPcs, SleepAssumption
  <2> QED
    BY <2>1, <2>2, <2>3 DEF SqType, SqList, SqKinds
<1>2. SqAt'
  BY DEF SqAt, SqType, SqList, SqKinds
<1>3. SqSums(S)'
  BY DEF SqOrder, SqSums
<1>4. SqEnough(S)'
  <2>1. SUFFICES ASSUME NEW k \in 1..Len(clockq), left'[clockq[k]] > 0
                 PROVE  left'[clockq[k]] <= S[k] + 0
    BY DEF SqEnough, SqBehind
  <2>2. clockq[k] # p /\ clockq[k] \in Procs /\ left \in [Procs -> Nat]
    BY SqFacts
  <2>3. left'[clockq[k]] = left[clockq[k]]
    BY <2>2
  <2>4. ~SqBehind(k)
    BY DEF SqBehind
  <2> QED
    BY <2>1, <2>3, <2>4 DEF SqOrder, SqEnough
<1>5. SqWalked(S)'
  <2>1. left \in [Procs -> Nat] /\ n \in Nat /\ S[0] = 0
    <3>1. MaxSleep \in Nat
      BY DEF SleepAssumption
    <3> QED
      BY SqFacts, <3>1 DEF SqOrder, SqSums
  <2>2. left'[mself'] = n /\ mkey' = n /\ midx' - 1 = 0
    BY <2>1
  <2> QED
    BY <2>1, <2>2 DEF SqWalked
<1> QED
  BY <1>1, <1>2, <1>3, <1>4, <1>5 DEF SqOrder

LEMMA SqCompareStep ==
    ASSUME NEW S, SqHas(S), Compare
    PROVE  SqHas(S)'
<1> USE DEF SqHas, Compare, At, Goto, listVars, Locals, history
<1>1. SqType'
  <2>1. SqList'
    BY DEF SqType, SqList
  <2>2. SqKinds'
    BY DEF SqType, SqKinds, SqList
  <2>3. SqPcs'
    BY DEF SqType, SqPcs
  <2> QED
    BY <2>1, <2>2, <2>3 DEF SqType, SqList, SqKinds
<1>2. SqAt'
  BY DEF SqAt, SqType, SqList, SqKinds
<1>3. SqSums(S)'
  BY DEF SqOrder, SqSums
<1>4. SqEnough(S)'
  BY DEF SqOrder, SqEnough, SqBehind, SqCredit
<1>5. SqWalked(S)'
  BY DEF SqOrder, SqWalked
<1> QED
  BY <1>1, <1>2, <1>3, <1>4, <1>5 DEF SqOrder

LEMMA SqPassStep ==
    ASSUME NEW S, SqHas(S), Pass
    PROVE  SqHas(S)'
<1> USE DEF SqHas, Pass, At, Goto, listVars, history
<1>1. SqType'
  <2>1. SqList'
    BY DEF SqType, SqList, SqAt
  <2>2. SqKinds'
    <3>1. midx \in 1..Len(clockq)
      <4>1. midx \in 1..(Len(clockq) + 1) /\ midx <= Len(clockq)
        BY DEF SqAt
      <4> QED
        BY <4>1, SqFacts
    <3>2. mkey' \in Int /\ midx' \in Nat
      <4>1. qkey[clockq[midx]] \in Int /\ mkey \in Int /\ midx \in Nat
        BY <3>1, SqFacts
      <4> QED
        BY <4>1
    <3> QED
      BY <3>2 DEF SqType, SqKinds
  <2>3. SqPcs'
    BY DEF SqType, SqPcs, SqAt
  <2> QED
    BY <2>1, <2>2, <2>3 DEF SqType, SqList, SqKinds
<1>2. SqAt'
  BY DEF SqAt, SqType, SqList, SqKinds
<1>3. SqSums(S)'
  BY DEF SqOrder, SqSums
<1>4. SqEnough(S)'
  BY DEF SqOrder, SqEnough, SqBehind, SqCredit
<1>5. SqWalked(S)'
  <2>1. /\ midx \in 1..Len(clockq) /\ clockq[midx] \in Procs /\ qkey[clockq[midx]] \in Int /\ mkey \in Int
        /\ S[midx - 1] \in Int
    <3>1. midx \in 1..Len(clockq)
      BY SqFacts DEF SqAt
    <3>2. midx - 1 \in Nat
      BY <3>1, SqFacts
    <3> QED
      BY <3>1, <3>2, SqFacts
  <2>2. S[midx] = S[midx - 1] + qkey[clockq[midx]]
    BY <2>1 DEF SqOrder, SqSums
  <2>3. midx' = midx + 1 /\ mkey' = mkey - qkey[clockq[midx]] /\ left' = left /\ mself' = mself
    OBVIOUS
  <2>4. midx' - 1 = midx
    BY <2>1, <2>3
  <2>5. left[mself] > 0 => left[mself] <= S[midx - 1] + mkey
    BY DEF SqOrder, SqWalked
  <2>6. left[mself] > 0 => left[mself] <= S[midx] + mkey'
    <3>1. left[mself] \in Nat /\ S[midx] + (mkey - qkey[clockq[midx]]) = S[midx - 1] + mkey
      <4>1. left[mself] \in Nat
        BY SqFacts
      <4>2. PICK x \in Int, y \in Int, z \in Int :
              x = S[midx - 1] /\ y = qkey[clockq[midx]] /\ z = mkey
        BY <2>1
      <4>3. (x + y) + (z - y) = x + z
        OBVIOUS
      <4> QED
        BY <2>2, <4>1, <4>2, <4>3
    <3> QED
      BY <2>3, <2>5, <3>1
  <2> QED
    BY <2>3, <2>4, <2>6 DEF SqWalked
<1> QED
  BY <1>1, <1>2, <1>3, <1>4, <1>5 DEF SqOrder

LEMMA SqLoadStep ==
    ASSUME NEW S, SqHas(S), Load
    PROVE  SqHas(S)'
<1> USE DEF SqHas, Load, At, Goto, listVars, history
<1>1. SqType'
  <2>1. SqList'
    BY DEF SqType, SqList, SqAt
  <2>2. SqKinds'
    <3>1. midx + 1 \in 1..Len(clockq)
      <4>1. midx \in 1..(Len(clockq) - 1)
        BY DEF SqAt
      <4> QED
        BY <4>1, SqFacts
    <3>2. mtmp' \in Int
      BY <3>1, SqFacts
    <3> QED
      BY <3>2 DEF SqType, SqKinds
  <2>3. SqPcs'
    BY DEF SqType, SqPcs, SqAt
  <2> QED
    BY <2>1, <2>2, <2>3 DEF SqType, SqList, SqKinds
<1>2. SqAt'
  BY DEF SqAt, SqType, SqList, SqKinds
<1>3. SqSums(S)'
  BY DEF SqOrder, SqSums
<1>4. SqEnough(S)'
  <2>1. /\ clockq[midx + 1] \in Procs /\ qkey[clockq[midx + 1]] \in Int /\ mkey \in Int
        /\ mtmp' = qkey[clockq[midx + 1]]
    <3>1. midx \in 1..(Len(clockq) - 1)
      BY DEF SqAt
    <3>2. midx + 1 \in 1..Len(clockq)
      BY <3>1, SqFacts
    <3> QED
      BY <3>2, SqFacts
  <2>2. SqCredit = 0 - mkey /\ SqCredit' = 0 - mkey
    BY <2>1 DEF SqCredit
  <2> QED
    BY <2>2 DEF SqOrder, SqEnough, SqBehind
<1>5. SqWalked(S)'
  BY DEF SqWalked
<1> QED
  BY <1>1, <1>2, <1>3, <1>4, <1>5 DEF SqOrder

LEMMA SqTopStep ==
    ASSUME SleepAssumption, NEW S, SqHas(S), Post \/ Resched \/ WakeupFlag \/ WakeupTop \/ UnsleepTop
    PROVE  SqHas(S)'
<1> USE DEF SqHas, Post, Resched, WakeupFlag, WakeupTop, UnsleepTop, At, Goto, listVars, history, Locals,
            ClearLocals, SetTop, SetFlag
<1>1. clockq' = clockq /\ qkey' = qkey /\ where' = where /\ left' = left /\ mself' = mself
  OBVIOUS
<1>2. /\ mpc \in {"post1", "post2", "idle", "wakeup", "wtop", "untop"}
      /\ mpc' \in {"post2", "wakeup", "wtop", "idle"}
      /\ mpc' \in {"post2", "wtop"} => clockq # <<>>
  BY DEF SqAt
<1>3. clockq # <<>> => Head(clockq) \in Procs
  BY SqFacts
<1>4. SqType'
  <2>1. sltop' \in Procs \cup {NULL} /\ slnempty' \in BOOLEAN
    <3>1. (sltop' = sltop \/ (clockq # <<>> /\ sltop' = Head(clockq)))
      BY <1>2 DEF SqAt
    <3>2. slnempty' \in BOOLEAN
      BY DEF SqType, SqKinds
    <3> QED
      BY <1>3, <3>1, <3>2 DEF SqType, SqKinds
  <2>2. mkey' \in Int /\ midx' \in Nat /\ mtmp' \in Int /\ races' \in 0..MaxRaces
    <3>1. MaxRaces \in Nat /\ 0 \in 0..MaxRaces
      BY ONLY SleepAssumption DEF SleepAssumption
    <3>2. /\ mkey' = mkey \/ mkey' = 0
          /\ midx' = midx \/ midx' = 1
          /\ mtmp' = mtmp \/ mtmp' = 0
          /\ races' = races \/ races' = 0
      OBVIOUS
    <3>3. mkey \in Int /\ midx \in Nat /\ mtmp \in Int /\ races \in 0..MaxRaces
      BY DEF SqType, SqKinds
    <3> QED
      BY ONLY <3>1, <3>2, <3>3
  <2> QED
    BY <1>1, <1>2, <2>1, <2>2 DEF SqType, SqList, SqKinds, SqPcs
<1>5. SqAt'
  BY <1>1, <1>2 DEF SqAt
<1>6. SqSums(S)'
  BY <1>1 DEF SqOrder, SqSums
<1>7. SqEnough(S)'
  BY <1>1, <1>2 DEF SqOrder, SqEnough, SqBehind
<1>8. SqWalked(S)'
  BY <1>2 DEF SqWalked
<1> QED
  BY <1>4, <1>5, <1>6, <1>7, <1>8 DEF SqOrder

LEMMA SqUnsleepStep ==
    ASSUME NEW S, SqHas(S), NEW p \in Procs, Unsleep(p)
    PROVE  SqHas(S)'
<1> USE DEF SqHas, Unsleep, At, listVars, history
<1>1. SqType'
  <2>1. SqList'
    BY DEF SqType, SqList
  <2>2. SqKinds'
    BY DEF SqType, SqKinds, SqList
  <2>3. SqPcs'
    BY DEF SqType, SqPcs
  <2> QED
    BY <2>1, <2>2, <2>3 DEF SqType, SqList, SqKinds
<1>2. SqAt'
  BY DEF SqAt, SqType, SqList, SqKinds
<1>3. SqSums(S)'
  BY DEF SqOrder, SqSums
<1>4. SqEnough(S)'
  <2>1. SqCredit' = 0
    BY SqFacts DEF SqCredit
  <2> QED
    BY <2>1 DEF SqOrder, SqEnough, SqBehind
<1>5. SqWalked(S)'
  BY DEF SqWalked
<1> QED
  BY <1>1, <1>2, <1>3, <1>4, <1>5 DEF SqOrder

LEMMA SqReadyStep ==
    ASSUME SleepAssumption, NEW S, SqHas(S), NEW p \in Procs, Ready(p)
    PROVE  SqHas(S)'
<1> USE DEF SqHas, Ready, At, mainVars, history
<1>1. SqType'
  <2>1. SqList'
    BY DEF SqType, SqList, SleepAssumption
  <2>2. SqKinds'
    BY DEF SqType, SqKinds, SleepAssumption, SqList
  <2>3. SqPcs'
    BY DEF SqType, SqPcs, SleepAssumption
  <2> QED
    BY <2>1, <2>2, <2>3 DEF SqType, SqList, SqKinds
<1>2. SqAt'
  BY DEF SqAt
<1>3. \A k \in 1..Len(clockq) : qkey'[clockq[k]] = qkey[clockq[k]]
  BY SqFacts
<1>4. SqSums(S)'
  BY <1>3 DEF SqOrder, SqSums
<1>5. SqEnough(S)'
  BY DEF SqOrder, SqEnough, SqBehind
<1>6. SqWalked(S)'
  BY DEF SqWalked
<1> QED
  BY <1>1, <1>2, <1>4, <1>5, <1>6 DEF SqOrder

\* insertd() links the process: it has the sum it asked for, and all behind it
\* have as much more, until q[next].qkey is corrected.
LEMMA SqLinkStep ==
    ASSUME NEW S, SqHas(S), Link
    PROVE  \E T \in [Nat -> Int] : SqHas(T)'
<1>0. SqType /\ S \in [Nat -> Int]
  BY DEF SqHas
<1>1. PICK n \in Nat, m \in Nat : n = Len(clockq) /\ m = midx
  BY <1>0, SqFacts
<1>2. /\ m \in 1..(n + 1) /\ mself \in Procs /\ where[mself] = "ready" /\ clockq \in Seq(Procs)
      /\ mkey \in Int /\ S \in [Nat -> Int] /\ qkey \in [Procs -> Int] /\ left \in [Procs -> Nat]
      /\ where \in [Procs -> {"ready", "sleep", "off"}]
  BY <1>0, <1>1, SqFacts DEF Link, At, SqHas, SqAt
<1>3. PICK T \in [Nat -> Int] : T = [k \in Nat |-> IF k < m THEN S[k] ELSE S[k - 1] + mkey]
  <2>1. \A k \in Nat : (IF k < m THEN S[k] ELSE S[k - 1] + mkey) \in Int
    BY <1>2
  <2> QED
    BY <2>1
<1>4. /\ mself' = mself /\ midx' = midx /\ mkey' = mkey /\ left' = left /\ mpc = "link"
      /\ mpc' = (IF m <= n THEN "load" ELSE "post1")
      /\ qkey' = [qkey EXCEPT ![mself] = mkey] /\ where' = [where EXCEPT ![mself] = "sleep"]
      /\ slnempty' = slnempty /\ sltop' = sltop /\ mtmp' = mtmp /\ races' = races
  BY <1>1 DEF Link, At, Goto, Locals, history
<1>5. /\ clockq' = InsertAt(clockq, m, mself) /\ Len(clockq') = n + 1 /\ clockq'[m] = mself
      /\ \A j \in 1..(m - 1) : clockq'[j] = clockq[j]
      /\ \A j \in m..n : clockq'[j + 1] = clockq[j]
  <2>1. clockq' = InsertAt(clockq, m, mself)
    BY <1>1 DEF Link
  <2> QED
    <3>1. m \in 1..(Len(clockq) + 1)
      BY <1>1, <1>2
    <3>2. /\ Len(InsertAt(clockq, m, mself)) = n + 1 /\ InsertAt(clockq, m, mself)[m] = mself
          /\ \A j \in 1..(m - 1) : InsertAt(clockq, m, mself)[j] = clockq[j]
          /\ \A j \in m..n : InsertAt(clockq, m, mself)[j + 1] = clockq[j]
      <4>1. /\ Len(InsertAt(clockq, m, mself)) = Len(clockq) + 1 /\ InsertAt(clockq, m, mself)[m] = mself
            /\ \A j \in 1..(m - 1) : InsertAt(clockq, m, mself)[j] = clockq[j]
            /\ \A j \in m..Len(clockq) : InsertAt(clockq, m, mself)[j + 1] = clockq[j]
        <5>1. clockq \in Seq(Procs) /\ mself \in Procs
          BY <1>2
        <5> QED
          BY <3>1, <5>1, InsertAtElements
      <4> QED
        BY <1>1, <4>1
    <3> QED
      BY <2>1, <3>2
<1>6. \A j \in (m + 1)..(n + 1) : j - 1 \in 1..n /\ clockq'[j] = clockq[j - 1]
  <2> SUFFICES ASSUME NEW j \in (m + 1)..(n + 1) PROVE j - 1 \in 1..n /\ clockq'[j] = clockq[j - 1]
    OBVIOUS
  <2>1. j - 1 \in m..n /\ (j - 1) + 1 = j /\ j - 1 \in 1..n
    BY <1>2
  <2> QED
    BY <1>5, <2>1
<1>7. \A k \in 1..n : clockq[k] \in Procs /\ clockq[k] # mself /\ qkey[clockq[k]] \in Int
                      /\ left[clockq[k]] \in Nat
  BY <1>0, <1>1, <1>2, SqFacts
<1>8. /\ \A j \in 1..(m - 1) : j \in 1..n /\ qkey'[clockq'[j]] = qkey[clockq[j]]
      /\ qkey'[clockq'[m]] = mkey
      /\ \A j \in (m + 1)..(n + 1) : qkey'[clockq'[j]] = qkey[clockq[j - 1]]
  <2>1. \A j \in 1..(m - 1) : j \in 1..n
    BY <1>2
  <2> QED
    BY <1>2, <1>4, <1>5, <1>6, <1>7, <2>1, ZenonT(40)
<1>9. SqType'
  <2>1. Lists(clockq', {p \in Procs : where[p] = "sleep"} \cup {mself}, Procs)
    BY <1>1, <1>2, <1>5, InsertLists DEF SqHas, SqType, SqList
  <2>2. {p \in Procs : where[p] = "sleep"} \cup {mself} = {p \in Procs : where'[p] = "sleep"}
    BY <1>2, <1>4
  <2>3. SqList'
    BY <2>1, <2>2 DEF SqList
  <2>4. SqKinds'
    BY <1>2, <1>4 DEF SqHas, SqType, SqKinds
  <2>5. SqPcs'
    BY <1>4 DEF SqPcs
  <2> QED
    BY <2>3, <2>4, <2>5 DEF SqType
<1>10. SqAt'
  <2>1. CASE m <= n
    <3>1. midx' \in 1..(Len(clockq') - 1) /\ clockq'[midx'] = mself' /\ mpc' = "load"
      BY <1>1, <1>2, <1>4, <1>5, <2>1
    <3> QED
      BY <3>1 DEF SqAt
  <2>2. CASE ~(m <= n)
    <3>1. clockq' # <<>> /\ mpc' = "post1"
      BY <1>4, <1>5, <2>2
    <3> QED
      BY <3>1 DEF SqAt
  <2> QED
    BY <2>1, <2>2
<1>11. SqSums(T)'
  <2>0. S[0] = 0 /\ \A j \in 1..n : S[j] = S[j - 1] + qkey[clockq[j]]
    BY <1>1 DEF SqHas, SqOrder, SqSums
  <2>1. T[0] = 0
    BY <1>2, <1>3, <2>0
  <2>2. ASSUME NEW k \in 1..(n + 1) PROVE T[k] = T[k - 1] + qkey'[clockq'[k]]
    <3>0. /\ k \in Nat /\ k - 1 \in Nat
          /\ T[k] = (IF k < m THEN S[k] ELSE S[k - 1] + mkey)
          /\ T[k - 1] = (IF k - 1 < m THEN S[k - 1] ELSE S[k - 1 - 1] + mkey)
      BY <1>3, <2>2
    <3>1. CASE k < m
      <4>1. k \in 1..n /\ k \in 1..(m - 1) /\ k - 1 < m
        BY <1>2, <3>1
      <4> QED
        BY <1>8, <2>0, <3>0, <3>1, <4>1
    <3>2. CASE k = m
      <4>1. k - 1 < m /\ ~(k < m)
        BY <3>2
      <4> QED
        BY <1>8, <3>0, <3>2, <4>1
    <3>3. CASE k > m
      <4>1. k \in (m + 1)..(n + 1) /\ ~(k - 1 < m) /\ ~(k < m)
        BY <1>2, <3>3
      <4>2. k - 1 \in 1..n /\ qkey'[clockq'[k]] = qkey[clockq[k - 1]] /\ qkey[clockq[k - 1]] \in Int
        BY <1>6, <1>7, <1>8, <4>1
      <4>3. S[k - 1] = S[k - 1 - 1] + qkey[clockq[k - 1]]
        BY <2>0, <4>2
      <4>4. S[k - 1 - 1] \in Int
        BY <1>2, <4>2
      <4> QED
        <5>1. T[k] = S[k - 1] + mkey /\ T[k - 1] = S[k - 1 - 1] + mkey
          BY <3>0, <4>1
        <5> QED
          <6>1. mkey \in Int
            BY <1>2
          <6> QED
            BY <4>2, <4>3, <4>4, <5>1, <6>1
    <3> QED
      BY <1>2, <3>1, <3>2, <3>3
  <2> QED
    BY <1>5, <2>1, <2>2 DEF SqSums
<1>12. SqEnough(T)'
  <2>0. \A j \in 1..n : left[clockq[j]] > 0 => left[clockq[j]] <= S[j]
    <3>1. \A j \in 1..n : ~SqBehind(j) /\ S[j] \in Int
      BY <1>2, <1>4 DEF SqBehind
    <3>2. \A j \in 1..n : left[clockq[j]] > 0 => left[clockq[j]] <= S[j] + 0
      <4>1. SqEnough(S)
        BY <1>4 DEF SqHas, SqOrder
      <4> QED
        BY <1>1, <3>1, <4>1 DEF SqEnough
    <3> QED
      BY <3>1, <3>2
  <2>1. ASSUME NEW k \in 1..(n + 1), left[clockq'[k]] > 0
        PROVE  left[clockq'[k]] <= T[k] + (IF SqBehind(k)' THEN SqCredit' ELSE 0)
    <3>0. /\ SqBehind(k)' <=> (m <= n /\ m < k)
          /\ T[k] = (IF k < m THEN S[k] ELSE S[k - 1] + mkey) /\ S[k] \in Int /\ S[k - 1] \in Int
      <4>1. SqBehind(k)' <=> (m <= n /\ m < k)
        BY <1>1, <1>4 DEF SqBehind
      <4>2. k \in Nat /\ k - 1 \in Nat
        OBVIOUS
      <4> QED
        BY <1>2, <1>3, <4>1, <4>2
    <3>1. CASE k < m
      <4>1. k \in 1..n /\ k \in 1..(m - 1) /\ ~(m < k)
        BY <1>2, <3>1
      <4>2. clockq'[k] = clockq[k] /\ T[k] = S[k] /\ ~SqBehind(k)'
        BY <1>5, <3>0, <3>1, <4>1
      <4>3. left[clockq[k]] <= S[k]
        BY <2>0, <2>1, <4>1, <4>2
      <4> QED
        BY <3>0, <4>2, <4>3
    <3>2. CASE k = m
      <4>1. left[mself] > 0 => left[mself] <= S[m - 1] + mkey
        BY <1>1, <1>4 DEF SqHas, SqOrder, SqWalked
      <4>2. clockq'[k] = mself /\ T[k] = S[m - 1] + mkey /\ ~SqBehind(k)' /\ T[k] \in Int
        BY <1>5, <3>0, <3>2
      <4> QED
        BY <2>1, <4>1, <4>2
    <3>3. CASE k > m
      <4>1. k \in (m + 1)..(n + 1) /\ m <= n /\ m < k /\ ~(k < m)
        BY <1>2, <3>3
      <4>2. clockq'[k] = clockq[k - 1] /\ k - 1 \in 1..n /\ left[clockq[k - 1]] \in Nat
        BY <1>6, <1>7, <4>1
      <4>3. SqBehind(k)' /\ SqCredit' = 0 - mkey /\ T[k] = S[k - 1] + mkey
        BY <1>4, <3>0, <4>1 DEF SqCredit
      <4>4. left[clockq[k - 1]] <= S[k - 1]
        BY <2>0, <2>1, <4>2
      <4> QED
        BY <1>2, <3>0, <4>2, <4>3, <4>4
    <3> QED
      BY <1>2, <3>1, <3>2, <3>3
  <2> QED
    BY <1>4, <1>5, <2>1 DEF SqEnough
<1>13. SqWalked(T)'
  BY <1>4 DEF SqWalked
<1>14. SqHas(T)'
  BY <1>9, <1>10, <1>11, <1>12, <1>13 DEF SqHas, SqOrder
<1> QED
  BY <1>14

\* The sums after the key of the j-th sleeper has changed by d, and after the
\* i-th sleeper has left.
SqAddsUp(S, a, n) == S[0] = 0 /\ \A k \in 1..n : S[k] = S[k - 1] + a[k]

LEMMA SqLess ==
    ASSUME NEW y \in Int, NEW z \in Int, NEW u \in Int, NEW v \in Int, v <= u
    PROVE  y - u - z \in Int /\ y - v - z \in Int /\ y - v - z >= y - u - z
  OBVIOUS

LEMMA SqRaise ==
    ASSUME NEW n \in Nat, NEW j \in 1..n, NEW d \in Int, NEW S \in [Nat -> Int],
           NEW a \in [1..n -> Int], NEW b \in [1..n -> Int],
           SqAddsUp(S, a, n),
           \A k \in 1..n : b[k] = IF k = j THEN a[k] + d ELSE a[k]
    PROVE  \E T \in [Nat -> Int] :
              /\ \A k \in Nat : T[k] = IF k < j THEN S[k] ELSE S[k] + d
              /\ SqAddsUp(T, b, n)
<1>1. PICK T \in [Nat -> Int] : T = [k \in Nat |-> IF k < j THEN S[k] ELSE S[k] + d]
  <2>1. [k \in Nat |-> IF k < j THEN S[k] ELSE S[k] + d] \in [Nat -> Int]
    OBVIOUS
  <2> QED
    BY <2>1
<1>2. \A k \in Nat : T[k] = IF k < j THEN S[k] ELSE S[k] + d
  BY <1>1
<1>3. T[0] = 0
  BY <1>2 DEF SqAddsUp
<1>4. ASSUME NEW k \in 1..n PROVE T[k] = T[k - 1] + b[k]
  <2>1. /\ S[k] = S[k - 1] + a[k] /\ S[k] \in Int /\ S[k - 1] \in Int /\ a[k] \in Int
        /\ T[k] = (IF k < j THEN S[k] ELSE S[k] + d)
        /\ T[k - 1] = (IF k - 1 < j THEN S[k - 1] ELSE S[k - 1] + d)
    <3>1. k \in Nat /\ k - 1 \in Nat
      OBVIOUS
    <3> QED
      BY <1>2, <3>1 DEF SqAddsUp
  <2>2. CASE k < j
    BY <2>1, <2>2
  <2>3. CASE k = j
    BY <2>1, <2>3
  <2>4. CASE k > j
    BY <2>1, <2>4
  <2> QED
    BY <2>2, <2>3, <2>4
<1> QED
  BY <1>2, <1>3, <1>4 DEF SqAddsUp

SqWithout(b, a, i, n) == \A k \in 1..(n - 1) : b[k] = IF k < i THEN a[k] ELSE a[k + 1]

LEMMA SqLeave ==
    ASSUME NEW n \in Nat, NEW i \in 1..n, NEW S \in [Nat -> Int],
           NEW a \in [1..n -> Int], NEW b \in [1..(n - 1) -> Int],
           SqAddsUp(S, a, n),
           SqWithout(b, a, i, n)
    PROVE  \E T \in [Nat -> Int] :
              /\ \A k \in Nat : T[k] = IF k < i THEN S[k] ELSE S[k + 1] - a[i]
              /\ SqAddsUp(T, b, n - 1)
<1>1. PICK T \in [Nat -> Int] : T = [k \in Nat |-> IF k < i THEN S[k] ELSE S[k + 1] - a[i]]
  <2>1. [k \in Nat |-> IF k < i THEN S[k] ELSE S[k + 1] - a[i]] \in [Nat -> Int]
    OBVIOUS
  <2> QED
    BY <2>1
<1>2. \A k \in Nat : T[k] = IF k < i THEN S[k] ELSE S[k + 1] - a[i]
  BY <1>1
<1>3. T[0] = 0
  BY <1>2 DEF SqAddsUp
<1>4. ASSUME NEW k \in 1..(n - 1) PROVE T[k] = T[k - 1] + b[k]
  <2>1. /\ T[k] = (IF k < i THEN S[k] ELSE S[k + 1] - a[i])
        /\ T[k - 1] = (IF k - 1 < i THEN S[k - 1] ELSE S[k] - a[i])
        /\ S[k] \in Int /\ S[k - 1] \in Int /\ S[k + 1] \in Int
    <3>1. k \in Nat /\ k - 1 \in Nat /\ k + 1 \in Nat /\ (k - 1) + 1 = k
      OBVIOUS
    <3> QED
      BY <1>2, <3>1
  <2>2. CASE k < i
    <3>0. k \in 1..n /\ k - 1 < i
      BY <2>2
    <3>1. b[k] = a[k] /\ S[k] = S[k - 1] + a[k] /\ k - 1 < i
      BY <2>2, <3>0 DEF SqAddsUp, SqWithout
    <3> QED
      BY <2>1, <2>2, <3>1
  <2>3. CASE k = i
    <3>1. b[k] = a[k + 1] /\ k + 1 \in 1..n /\ k \in 1..n /\ ~(k < i) /\ k - 1 < i
      BY <2>3 DEF SqWithout
    <3>2. S[k] = S[k - 1] + a[k] /\ S[k + 1] = S[k] + a[k + 1] /\ a[k] \in Int /\ a[k + 1] \in Int
      BY <3>1 DEF SqAddsUp
    <3>3. T[k] = S[k + 1] - a[k] /\ T[k - 1] = S[k - 1]
      BY <2>1, <2>3, <3>1
    <3>4. S[k - 1] \in Int /\ S[k] \in Int
      BY <2>1
    <3> QED
      BY <3>1, <3>2, <3>3, <3>4, SMTT(30)
  <2>4. CASE k > i
    <3>1. b[k] = a[k + 1] /\ k + 1 \in 1..n /\ ~(k < i) /\ ~(k - 1 < i)
      BY <2>4 DEF SqWithout
    <3>2. S[k + 1] = S[k] + a[k + 1] /\ a[i] \in Int /\ a[k + 1] \in Int
      BY <3>1 DEF SqAddsUp
    <3>3. T[k] = S[k + 1] - a[i] /\ T[k - 1] = S[k] - a[i]
      BY <2>1, <3>1
    <3>4. S[k - 1] \in Int /\ S[k] \in Int
      BY <2>1
    <3> QED
      <4>1. PICK x \in Int, y \in Int, z \in Int : x = S[k] /\ y = a[k + 1] /\ z = a[i]
        BY <3>2, <3>4
      <4>2. T[k] = (x + y) - z /\ T[k - 1] = x - z /\ b[k] = y
        BY <3>1, <3>2, <3>3, <4>1, Zenon
      <4>3. (x + y) - z = (x - z) + y
        OBVIOUS
      <4> QED
        BY <4>2, <4>3, Zenon
  <2> QED
    BY <2>2, <2>3, <2>4
<1> QED
  BY <1>2, <1>3, <1>4 DEF SqAddsUp

\* The same of the list itself.
LEMMA SqRaised ==
    ASSUME NEW S \in [Nat -> Int], SqType, SqSums(S), NEW j \in 1..Len(clockq), NEW d \in Int,
           clockq' = clockq,
           qkey' = [qkey EXCEPT ![clockq[j]] = qkey[clockq[j]] + d]
    PROVE  \E T \in [Nat -> Int] :
              SqSums(T)' /\ \A k \in Nat : T[k] = IF k < j THEN S[k] ELSE S[k] + d
<1>1. PICK n \in Nat : n = Len(clockq)
  BY SqFacts
<1>2. /\ clockq \in Seq(Procs) /\ qkey \in [Procs -> Int]
      /\ \A k \in 1..n : clockq[k] \in Procs /\ qkey[clockq[k]] \in Int
      /\ \A k \in 1..n : clockq[k] = clockq[j] => k = j
  BY <1>1, SqFacts
<1>3. PICK a \in [1..n -> Int] : \A k \in 1..n : a[k] = qkey[clockq[k]]
  <2>1. [k \in 1..n |-> qkey[clockq[k]]] \in [1..n -> Int]
    BY <1>2
  <2> QED
    BY <2>1
<1>4. \A k \in 1..n : qkey'[clockq[k]] = IF k = j THEN a[k] + d ELSE a[k]
  BY <1>1, <1>2, <1>3
<1>5. PICK b \in [1..n -> Int] : \A k \in 1..n : b[k] = qkey'[clockq[k]]
  <2>1. [k \in 1..n |-> IF k = j THEN a[k] + d ELSE a[k]] \in [1..n -> Int]
    OBVIOUS
  <2> QED
    BY <1>4, <2>1
<1>6. SqAddsUp(S, a, n)
  BY <1>1, <1>3 DEF SqSums, SqAddsUp
<1>7. PICK T \in [Nat -> Int] : /\ \A k \in Nat : T[k] = IF k < j THEN S[k] ELSE S[k] + d
                                /\ SqAddsUp(T, b, n)
  <2>1. j \in 1..n /\ \A k \in 1..n : b[k] = IF k = j THEN a[k] + d ELSE a[k]
    BY <1>1, <1>4, <1>5
  <2> QED
    BY <1>6, <2>1, SqRaise, ZenonT(40)
<1>8. SqSums(T)'
  <2>1. Len(clockq') = n /\ \A k \in 1..n : qkey'[clockq'[k]] = b[k]
    BY <1>1, <1>5
  <2>2. \A k \in 1..n : T[k] = T[k - 1] + qkey'[clockq'[k]]
    BY <1>7, <2>1, ZenonT(40) DEF SqAddsUp
  <2> QED
    BY <1>7, <2>1, <2>2 DEF SqSums, SqAddsUp
<1> QED
  BY <1>7, <1>8

LEMMA SqLeft ==
    ASSUME NEW S \in [Nat -> Int], SqType, SqSums(S), NEW i \in 1..Len(clockq),
           clockq' = RemoveAt(clockq, i),
           \A p \in Procs : p # clockq[i] => qkey'[p] = qkey[p]
    PROVE  /\ Len(clockq') = Len(clockq) - 1
           /\ \A k \in 1..(Len(clockq) - 1) : clockq'[k] = IF k < i THEN clockq[k] ELSE clockq[k + 1]
           /\ \E T \in [Nat -> Int] :
                SqSums(T)' /\ \A k \in Nat : T[k] = IF k < i THEN S[k] ELSE S[k + 1] - qkey[clockq[i]]
<1>1. PICK n \in Nat : n = Len(clockq)
  BY SqFacts
<1>2. /\ clockq \in Seq(Procs) /\ qkey \in [Procs -> Int]
      /\ \A k \in 1..n : clockq[k] \in Procs /\ qkey[clockq[k]] \in Int
      /\ \A k \in 1..n : clockq[k] = clockq[i] => k = i
  BY <1>1, SqFacts
<1>3. /\ Len(clockq') = n - 1
      /\ \A k \in 1..(n - 1) : clockq'[k] = IF k < i THEN clockq[k] ELSE clockq[k + 1]
  BY <1>1, <1>2, RemoveAtElements
<1>4. PICK a \in [1..n -> Int] : \A k \in 1..n : a[k] = qkey[clockq[k]]
  <2>1. [k \in 1..n |-> qkey[clockq[k]]] \in [1..n -> Int]
    BY <1>2
  <2> QED
    BY <2>1
<1>5. \A k \in 1..(n - 1) : qkey'[clockq'[k]] = IF k < i THEN a[k] ELSE a[k + 1]
  <2> SUFFICES ASSUME NEW k \in 1..(n - 1) PROVE qkey'[clockq'[k]] = IF k < i THEN a[k] ELSE a[k + 1]
    OBVIOUS
  <2>1. k \in 1..n /\ k + 1 \in 1..n
    BY SMTT(30)
  <2>2. CASE k < i
    <3>1. clockq'[k] = clockq[k] /\ clockq[k] # clockq[i]
      <4>1. k # i
        BY <2>2
      <4>2. clockq[k] # clockq[i]
        BY <1>2, <2>1, <4>1
      <4> QED
        BY <1>3, <2>2, <4>2
    <3> QED
      BY <1>2, <1>4, <2>1, <2>2, <3>1
  <2>3. CASE ~(k < i)
    <3>1. clockq'[k] = clockq[k + 1] /\ clockq[k + 1] # clockq[i]
      BY <1>1, <1>2, <1>3, <2>1, <2>3
    <3> QED
      BY <1>2, <1>4, <2>1, <2>3, <3>1
  <2> QED
    BY <2>2, <2>3
<1>6. PICK b \in [1..(n - 1) -> Int] : \A k \in 1..(n - 1) : b[k] = qkey'[clockq'[k]]
  <2>1. [k \in 1..(n - 1) |-> IF k < i THEN a[k] ELSE a[k + 1]] \in [1..(n - 1) -> Int]
    OBVIOUS
  <2> QED
    BY <1>5, <2>1
<1>7. SqAddsUp(S, a, n)
  BY <1>1, <1>4 DEF SqSums, SqAddsUp
<1>8. PICK T \in [Nat -> Int] : /\ \A k \in Nat : T[k] = IF k < i THEN S[k] ELSE S[k + 1] - a[i]
                                /\ SqAddsUp(T, b, n - 1)
  <2>1. i \in 1..n /\ SqWithout(b, a, i, n)
    BY <1>1, <1>5, <1>6 DEF SqWithout
  <2> QED
    <3>1. S \in [Nat -> Int] /\ a \in [1..n -> Int] /\ b \in [1..(n - 1) -> Int] /\ n \in Nat
      OBVIOUS
    <3> QED
      BY <1>7, <2>1, <3>1, SqLeave, ZenonT(80)
<1>9. SqSums(T)'
  <2>1. \A k \in 1..(n - 1) : T[k] = T[k - 1] + qkey'[clockq'[k]]
    <3>1. \A k \in 1..(n - 1) : T[k] = T[k - 1] + b[k]
      BY <1>8 DEF SqAddsUp
    <3>2. TAKE k \in 1..(n - 1)
    <3>3. T[k] = T[k - 1] + b[k]
      BY <3>1
    <3>4. b[k] = qkey'[clockq'[k]]
      BY <1>6
    <3> QED
      BY <3>3, <3>4
  <2> QED
    BY <1>3, <1>8, <2>1 DEF SqSums, SqAddsUp
<1>10. a[i] = qkey[clockq[i]]
  BY <1>1, <1>4
<1> QED
  BY <1>1, <1>3, <1>8, <1>9, <1>10

\* q[next].qkey is corrected, by what was loaded of it.
LEMMA SqStoreStep ==
    ASSUME NEW S, SqHas(S), Store
    PROVE  \E T \in [Nat -> Int] : SqHas(T)'
<1>0. SqType /\ S \in [Nat -> Int] /\ SqAt /\ mpc = "store" /\ SqSums(S) /\ SqEnough(S)
  BY DEF SqHas, SqOrder, Store, At
<1>1. PICK j \in 1..Len(clockq) : j = midx + 1
  <2>1. midx \in 1..(Len(clockq) - 1) /\ Len(clockq) \in Nat
    BY <1>0, SqFacts DEF SqAt
  <2> QED
    BY <2>1
<1>10. /\ clockq[j] \in Procs /\ qkey[clockq[j]] \in Int /\ mtmp \in Int /\ mkey \in Int /\ midx \in Nat
       /\ qkey \in [Procs -> Int] /\ Len(clockq) \in Nat
  BY <1>0, SqFacts
<1>2. PICK d \in Int : d = mtmp - qkey[clockq[j]] - mkey
  BY <1>10
<1>3. /\ clockq' = clockq /\ left' = left /\ mpc' = "post1" /\ mself' = mself
      /\ qkey' = [qkey EXCEPT ![clockq[j]] = qkey[clockq[j]] + d]
  <2>1. qkey' = [qkey EXCEPT ![clockq[j]] = mtmp - mkey]
    BY <1>1 DEF Store
  <2>2. mtmp - mkey = qkey[clockq[j]] + d
    BY <1>2, <1>10
  <2> QED
    BY <2>1, <2>2 DEF Store, Goto, history
<1>4. PICK T \in [Nat -> Int] : SqSums(T)' /\ \A k \in Nat : T[k] = IF k < j THEN S[k] ELSE S[k] + d
  BY <1>0, <1>3, SqRaised
<1>5. SqType'
  <2>1. qkey' \in [Procs -> Int]
    <3>1. qkey[clockq[j]] + d \in Int
      BY <1>10
    <3> QED
      BY <1>3, <1>10, <3>1
  <2>2. SqList'
    BY <1>0, <1>3 DEF SqType, SqList, Store
  <2>3. SqKinds'
    BY <1>0, <2>1 DEF SqType, SqKinds, Store, Goto, Locals, history
  <2> QED
    BY <1>3, <2>2, <2>3 DEF SqType, SqPcs
<1>6. SqAt'
  <2>1. clockq' # <<>>
    BY <1>0, <1>1, <1>3, SqFacts
  <2> QED
    BY <1>3, <2>1 DEF SqAt
<1>7. SqEnough(T)'
  <2>1. ASSUME NEW k \in 1..Len(clockq), left[clockq[k]] > 0 PROVE left[clockq[k]] <= T[k] + 0
    <3>0. k \in Nat /\ T[k] = (IF k < j THEN S[k] ELSE S[k] + d) /\ S[k] \in Int /\ left[clockq[k]] \in Nat
      <4>1. left[clockq[k]] \in Nat /\ k \in Nat
        BY <1>0, SqFacts
      <4> QED
        BY <1>0, <1>4, <4>1
    <3>1. SqBehind(k) <=> midx < k
      BY <1>0 DEF SqBehind
    <3>2. SqCredit = d
      BY <1>0, <1>1, <1>2 DEF SqCredit
    <3>3. left[clockq[k]] <= S[k] + (IF SqBehind(k) THEN SqCredit ELSE 0)
      BY <1>0, <2>1 DEF SqEnough
    <3>4. (midx < k) <=> ~(k < j)
      BY <1>1, <1>10
    <3> QED
      BY <3>0, <3>1, <3>2, <3>3, <3>4
  <2>2. \A k \in 1..Len(clockq) : ~SqBehind(k)'
    BY <1>3 DEF SqBehind
  <2> QED
    BY <1>3, <2>1, <2>2 DEF SqEnough
<1>8. SqWalked(T)'
  BY <1>3 DEF SqWalked
<1>9. SqHas(T)'
  BY <1>4, <1>5, <1>6, <1>7, <1>8 DEF SqHas, SqOrder
<1> QED
  BY <1>9

\* The next sleeper inherits what the leaving one had left.
LEMMA SqInheritStep ==
    ASSUME NEW S, SqHas(S), Inherit
    PROVE  \E T \in [Nat -> Int] : SqHas(T)'
<1>0. SqType /\ S \in [Nat -> Int] /\ SqAt /\ mpc = "inherit" /\ SqSums(S) /\ SqEnough(S)
  BY DEF SqHas, SqOrder, Inherit, At
<1>1. PICK i \in 1..Len(clockq) : /\ clockq[i] = mself
                                  /\ qkey' = IF i < Len(clockq)
                                               THEN [qkey EXCEPT ![clockq[i+1]] = @ + mkey] ELSE qkey
  BY DEF Inherit
<1>2. /\ clockq' = clockq /\ left' = left /\ mpc' = "unlink" /\ mself' = mself /\ where' = where
      /\ slnempty' = slnempty /\ sltop' = sltop
      /\ mkey' = mkey /\ midx' = midx /\ mtmp' = mtmp /\ races' = races
  BY DEF Inherit, Goto, Locals, history
<1>3. /\ mself \in Procs /\ mkey \in Int /\ qkey \in [Procs -> Int] /\ Len(clockq) \in Nat
      /\ \A k \in 1..Len(clockq) : clockq[k] \in Procs /\ left[clockq[k]] \in Nat
      /\ \A k, l \in 1..Len(clockq) : clockq[k] = clockq[l] => k = l
  BY <1>0, SqFacts
<1>4. \A k \in 1..Len(clockq) : SqBehind(k) <=> i < k
  <2>1. ASSUME NEW k \in 1..Len(clockq) PROVE SqBehind(k) <=> i < k
    <3>1. SqBehind(k) <=> \E l \in 1..(k - 1) : clockq[l] = mself
      BY <1>0 DEF SqBehind
    <3>2. ASSUME NEW l \in 1..(k - 1), clockq[l] = mself PROVE i < k
      BY <1>1, <1>3, <3>2
    <3>3. i < k => i \in 1..(k - 1)
      BY <1>3
    <3> QED
      BY <1>1, <3>1, <3>2, <3>3
  <2> QED
    BY <2>1
<1>5. \A k \in 1..Len(clockq) : SqBehind(k)' <=> i < k
  <2>1. \A k \in 1..Len(clockq) : SqBehind(k)' <=> SqBehind(k)
    BY <1>0, <1>2 DEF SqBehind
  <2> QED
    BY <1>4, <2>1
<1>6. \E T \in [Nat -> Int] :
         /\ SqSums(T)'
         /\ \A k \in 1..Len(clockq) : T[k] = IF i < k THEN S[k] + mkey ELSE S[k]
  <2>1. CASE i < Len(clockq)
    <3>1. PICK j \in 1..Len(clockq) : j = i + 1
      BY <1>3, <2>1
    <3>2. qkey' = [qkey EXCEPT ![clockq[j]] = qkey[clockq[j]] + mkey]
      BY <1>1, <2>1, <3>1
    <3>3. PICK T \in [Nat -> Int] : SqSums(T)' /\ \A k \in Nat : T[k] = IF k < j THEN S[k] ELSE S[k] + mkey
      BY <1>0, <1>2, <1>3, <3>2, SqRaised
    <3>4. \A k \in 1..Len(clockq) : T[k] = IF i < k THEN S[k] + mkey ELSE S[k]
      <4>1. \A k \in 1..Len(clockq) : k \in Nat /\ (i < k <=> ~(k < j))
        BY <1>3, <3>1
      <4>2. \A k \in 1..Len(clockq) : T[k] = IF k < j THEN S[k] ELSE S[k] + mkey
        BY <3>3, <4>1
      <4> QED
        BY <4>1, <4>2
    <3> QED
      BY <3>3, <3>4
  <2>2. CASE ~(i < Len(clockq))
    <3>1. SqSums(S)'
      BY <1>0, <1>1, <1>2, <2>2 DEF SqSums
    <3>2. \A k \in 1..Len(clockq) : S[k] = IF i < k THEN S[k] + mkey ELSE S[k]
      BY <1>3, <2>2
    <3> QED
      BY <1>0, <3>1, <3>2
  <2> QED
    BY <2>1, <2>2
<1>7. PICK T \in [Nat -> Int] :
         SqSums(T)' /\ \A k \in 1..Len(clockq) : T[k] = IF i < k THEN S[k] + mkey ELSE S[k]
  BY <1>6
<1>8. qkey' \in [Procs -> Int] /\ qkey'[mself] = qkey[mself]
  <2>1. i < Len(clockq) => i + 1 \in 1..Len(clockq) /\ clockq[i + 1] \in Procs /\ clockq[i + 1] # mself
    BY <1>1, <1>3
  <2> QED
    BY <1>1, <1>3, <2>1
<1>9. SqType'
  <2>1. SqList'
    BY <1>0, <1>2 DEF SqType, SqList
  <2>2. SqKinds'
    BY <1>0, <1>2, <1>8 DEF SqType, SqKinds
  <2> QED
    BY <1>2, <2>1, <2>2 DEF SqType, SqPcs
<1>10. SqAt'
  BY <1>0, <1>2 DEF SqAt
<1>11. SqEnough(T)'
  <2>1. ASSUME NEW k \in 1..Len(clockq), left[clockq[k]] > 0
        PROVE  left[clockq[k]] <= T[k] + (IF SqBehind(k)' THEN SqCredit' ELSE 0)
    <3>1. left[clockq[k]] <= S[k] + (IF SqBehind(k) THEN SqCredit ELSE 0)
      BY <1>0, <2>1 DEF SqEnough
    <3>2. SqCredit = mkey - qkey[mself] /\ SqCredit' = 0 - qkey[mself]
      BY <1>0, <1>2, <1>8 DEF SqCredit
    <3>3. T[k] = (IF i < k THEN S[k] + mkey ELSE S[k]) /\ S[k] \in Int /\ qkey[mself] \in Int
      BY <1>0, <1>3, <1>7
    <3>4. CASE i < k
      <4>1. PICK x \in Int, y \in Int, z \in Int : x = S[k] /\ y = mkey /\ z = qkey[mself]
        BY <1>3, <3>3
      <4>2. left[clockq[k]] <= x + (y - z)
        BY <1>4, <3>1, <3>2, <3>4, <4>1
      <4>3. T[k] = x + y
        BY <3>3, <3>4, <4>1
      <4>4. x + (y - z) = (x + y) + (0 - z)
        OBVIOUS
      <4> QED
        BY <1>5, <3>2, <3>4, <4>1, <4>2, <4>3, <4>4
    <3>5. CASE ~(i < k)
      <4>1. T[k] = S[k] /\ ~SqBehind(k) /\ ~SqBehind(k)'
        BY <1>4, <1>5, <3>3, <3>5
      <4> QED
        BY <3>1, <4>1
    <3> QED
      BY <3>4, <3>5
  <2> QED
    BY <1>2, <2>1 DEF SqEnough
<1>12. SqWalked(T)'
  BY <1>2 DEF SqWalked
<1>13. SqHas(T)'
  BY <1>7, <1>9, <1>10, <1>11, <1>12 DEF SqHas, SqOrder
<1> QED
  BY <1>13

\* The leaving process is taken out: nobody's sum is less than it was.
LEMMA SqUnlinkStep ==
    ASSUME NEW S, SqHas(S), Unlink
    PROVE  \E T \in [Nat -> Int] : SqHas(T)'
<1>0. SqType /\ S \in [Nat -> Int] /\ mpc = "unlink" /\ SqSums(S) /\ SqEnough(S)
  BY DEF SqHas, SqOrder, Unlink, At
<1>1. PICK i \in 1..Len(clockq) : clockq[i] = mself /\ clockq' = RemoveAt(clockq, i)
  BY DEF Unlink
<1>2. /\ left' = [left EXCEPT ![mself] = 0] /\ mpc' = "untop" /\ mself' = mself
      /\ where' = [where EXCEPT ![mself] = "off"]
      /\ qkey' = qkey
      /\ slnempty' = slnempty /\ sltop' = sltop
      /\ mkey' = mkey /\ midx' = midx /\ mtmp' = mtmp /\ races' = races
  BY DEF Unlink, Goto, Locals
<1>3. /\ mself \in Procs /\ qkey \in [Procs -> Int] /\ Len(clockq) \in Nat /\ left \in [Procs -> Nat]
      /\ where \in [Procs -> {"ready", "sleep", "off"}]
      /\ \A k \in 1..Len(clockq) : clockq[k] \in Procs /\ left[clockq[k]] \in Nat
      /\ \A k, l \in 1..Len(clockq) : clockq[k] = clockq[l] => k = l
  BY <1>0, SqFacts
<1>4. /\ Len(clockq') = Len(clockq) - 1
      /\ \A k \in 1..(Len(clockq) - 1) : clockq'[k] = IF k < i THEN clockq[k] ELSE clockq[k + 1]
      /\ \E T \in [Nat -> Int] :
           SqSums(T)' /\ \A k \in Nat : T[k] = IF k < i THEN S[k] ELSE S[k + 1] - qkey[clockq[i]]
  BY <1>0, <1>1, <1>2, SqLeft
<1>5. PICK T \in [Nat -> Int] :
         SqSums(T)' /\ \A k \in Nat : T[k] = IF k < i THEN S[k] ELSE S[k + 1] - qkey[clockq[i]]
  BY <1>4
<1>6. SqType'
  <2>1. Lists(clockq', {p \in Procs : where[p] = "sleep"} \ {mself}, Procs)
    BY <1>0, <1>1, RemoveLists DEF SqType, SqList
  <2>2. {p \in Procs : where[p] = "sleep"} \ {mself} = {p \in Procs : where'[p] = "sleep"}
    BY <1>2, <1>3
  <2>3. SqList'
    BY <2>1, <2>2 DEF SqList
  <2>4. left' \in [Procs -> Nat] /\ where' \in [Procs -> {"ready", "sleep", "off"}]
    BY <1>2, <1>3
  <2>5. SqKinds'
    BY <1>0, <1>2, <2>4 DEF SqType, SqKinds
  <2> QED
    BY <1>2, <2>3, <2>5 DEF SqType, SqPcs
<1>7. SqAt'
  BY <1>2 DEF SqAt
<1>8. SqEnough(T)'
  <2>0. \A k \in 1..Len(clockq') : ~SqBehind(k)'
    BY <1>2 DEF SqBehind
  <2>1. ASSUME NEW k \in 1..(Len(clockq) - 1), left'[clockq'[k]] > 0 PROVE left'[clockq'[k]] <= T[k] + 0
    <3>0. /\ k \in 1..Len(clockq) /\ k + 1 \in 1..Len(clockq) /\ k \in Nat /\ S[k] \in Int /\ S[k + 1] \in Int
          /\ qkey[mself] \in Int
      BY <1>0, <1>3, SMTT(30)
    <3>1. T[k] = (IF k < i THEN S[k] ELSE S[k + 1] - qkey[mself])
      BY <1>1, <1>5, <3>0
    <3>2. CASE k < i
      <4>1. clockq'[k] = clockq[k] /\ clockq[k] # mself
        <5>1. k # i
          BY <3>2
        <5>2. clockq[k] # mself
          BY <1>1, <1>3, <3>0, <5>1
        <5> QED
          BY <1>4, <3>2, <5>2
      <4>2. left'[clockq'[k]] = left[clockq[k]]
        BY <1>2, <1>3, <3>0, <4>1
      <4>3. ~SqBehind(k)
        <5>1. \A l \in 1..(k - 1) : l \in 1..Len(clockq) /\ l # i
          BY <1>3, <3>0, <3>2
        <5>2. \A l \in 1..(k - 1) : clockq[l] # mself
          BY <1>1, <1>3, <5>1
        <5> QED
          BY <1>0, <5>2 DEF SqBehind
      <4>4. left[clockq[k]] <= S[k] + 0
        BY <1>0, <2>1, <3>0, <4>2, <4>3 DEF SqEnough
      <4> QED
        BY <3>1, <3>2, <4>2, <4>4
    <3>3. CASE ~(k < i)
      <4>1. clockq'[k] = clockq[k + 1] /\ clockq[k + 1] # mself
        <5>1. k + 1 # i
          BY <3>0, <3>3
        <5> QED
          BY <1>1, <1>3, <1>4, <3>0, <3>3, <5>1
      <4>2. left'[clockq'[k]] = left[clockq[k + 1]] /\ left[clockq[k + 1]] \in Nat
        BY <1>2, <1>3, <3>0, <4>1
      <4>3. SqBehind(k + 1)
        <5>1. i \in 1..((k + 1) - 1)
          BY <3>0, <3>3
        <5> QED
          BY <1>0, <1>1, <5>1 DEF SqBehind
      <4>4. SqCredit = 0 - qkey[mself]
        BY <1>0 DEF SqCredit
      <4>5. left[clockq[k + 1]] <= S[k + 1] + SqCredit
        BY <1>0, <2>1, <3>0, <4>2, <4>3 DEF SqEnough
      <4>6. T[k] = S[k + 1] - qkey[mself]
        BY <3>1, <3>3
      <4>7. S[k + 1] \in Int /\ qkey[mself] \in Int
        BY <3>0
      <4>8. S[k + 1] + SqCredit = T[k] + 0
        BY <4>4, <4>6, <4>7, SMTT(30)
      <4> QED
        BY <4>2, <4>5, <4>8
    <3> QED
      BY <3>2, <3>3
  <2> QED
    BY <1>4, <2>0, <2>1 DEF SqEnough
<1>9. SqWalked(T)'
  BY <1>2 DEF SqWalked
<1>10. SqHas(T)'
  BY <1>5, <1>6, <1>7, <1>8, <1>9 DEF SqHas, SqOrder
<1> QED
  BY <1>10

\* wakeup() takes the first out, whose key is not positive: the others wait for
\* no less than before.
LEMMA SqAwakenStep ==
    ASSUME SleepAssumption, NEW S, SqHas(S), Awaken
    PROVE  /\ \E T \in [Nat -> Int] : SqHas(T)'
           /\ \A p \in Procs : where[p] = "sleep" /\ where'[p] = "ready" => left[p] = 0
<1>0. /\ SqType /\ S \in [Nat -> Int] /\ SqSums(S) /\ SqEnough(S)
      /\ mpc = "wakeup" /\ clockq # <<>> /\ Prio \in Nat
  BY DEF SqHas, SqOrder, Awaken, At, Expired, SleepAssumption
<1>1. /\ qkey \in [Procs -> Int] /\ Len(clockq) \in Nat /\ left \in [Procs -> Nat] /\ clockq \in Seq(Procs)
      /\ where \in [Procs -> {"ready", "sleep", "off"}]
      /\ \A k \in 1..Len(clockq) : clockq[k] \in Procs /\ left[clockq[k]] \in Nat
      /\ \A k, l \in 1..Len(clockq) : clockq[k] = clockq[l] => k = l
  BY <1>0, SqFacts
<1>2. 1 \in 1..Len(clockq) /\ Head(clockq) = clockq[1] /\ clockq[1] \in Procs /\ qkey[clockq[1]] \in Int
  <2>1. 1 \in 1..Len(clockq) /\ Head(clockq) = clockq[1]
    BY <1>0, <1>1
  <2> QED
    BY <1>1, <2>1
<1>3. /\ clockq' = Tail(clockq) /\ left' = left /\ mpc' = "wakeup" /\ mself' = mself
      /\ qkey' = [qkey EXCEPT ![clockq[1]] = Prio] /\ where' = [where EXCEPT ![clockq[1]] = "ready"]
      /\ qkey[clockq[1]] <= 0
      /\ slnempty' = slnempty /\ sltop' = sltop
      /\ mkey' = mkey /\ midx' = midx /\ mtmp' = mtmp /\ races' = races
  BY <1>0, <1>2 DEF Awaken, Expired, mainVars, history
<1>4. /\ Lists(clockq', {p \in Procs : where[p] = "sleep"} \ {clockq[1]}, Procs)
      /\ Len(clockq') = Len(clockq) - 1
      /\ \A k \in 1..(Len(clockq) - 1) : clockq'[k] = clockq[k + 1]
  <2>1. /\ Lists(clockq', {p \in Procs : where[p] = "sleep"} \ {clockq[1]}, Procs)
        /\ Len(clockq') = Len(clockq) - 1
    BY <1>0, <1>2, <1>3, TailLists DEF SqType, SqList
  <2> QED
    BY <1>0, <1>1, <1>3, <2>1
<1>5. clockq' = RemoveAt(clockq, 1)
  <2>1. /\ RemoveAt(clockq, 1) \in Seq(Procs) /\ Len(RemoveAt(clockq, 1)) = Len(clockq) - 1
        /\ \A k \in 1..(Len(clockq) - 1) : RemoveAt(clockq, 1)[k] = IF k < 1 THEN clockq[k] ELSE clockq[k + 1]
    BY <1>1, <1>2, RemoveAtElements
  <2>2. clockq' \in Seq(Procs)
    BY <1>4 DEF Lists
  <2>3. \A k \in 1..(Len(clockq) - 1) : RemoveAt(clockq, 1)[k] = clockq'[k]
    BY <1>4, <2>1
  <2> QED
    BY <1>4, <2>1, <2>2, <2>3
<1>6. PICK T \in [Nat -> Int] :
         SqSums(T)' /\ \A k \in Nat : T[k] = IF k < 1 THEN S[k] ELSE S[k + 1] - qkey[clockq[1]]
  <2>1. \A p \in Procs : p # clockq[1] => qkey'[p] = qkey[p]
    BY <1>1, <1>3
  <2> QED
    BY <1>0, <1>2, <1>5, <2>1, SqLeft
<1>7. SqType'
  <2>1. {p \in Procs : where[p] = "sleep"} \ {clockq[1]} = {p \in Procs : where'[p] = "sleep"}
    BY <1>1, <1>2, <1>3
  <2>2. SqList'
    BY <1>4, <2>1 DEF SqList
  <2>3. qkey' \in [Procs -> Int] /\ where' \in [Procs -> {"ready", "sleep", "off"}]
    <3>1. Prio \in Int /\ qkey \in [Procs -> Int] /\ where \in [Procs -> {"ready", "sleep", "off"}]
      <4>1. Prio \in Nat
        BY <1>0
      <4>2. qkey \in [Procs -> Int] /\ where \in [Procs -> {"ready", "sleep", "off"}]
        BY <1>1
      <4> QED
        BY <4>1, <4>2
    <3> QED
      BY <1>3, <3>1
  <2>4. SqKinds'
    BY <1>0, <1>3, <2>3 DEF SqType, SqKinds
  <2> QED
    BY <1>3, <2>2, <2>4 DEF SqType, SqPcs
<1>8. SqAt'
  BY <1>3 DEF SqAt
<1>9. \A k \in 1..Len(clockq) : left[clockq[k]] > 0 => left[clockq[k]] <= S[k] + 0
  <2>1. \A k \in 1..Len(clockq) : ~SqBehind(k)
    BY <1>0 DEF SqBehind
  <2> QED
    BY <1>0, <2>1 DEF SqEnough
<1>10. SqEnough(T)'
  <2>1. ASSUME NEW k \in 1..(Len(clockq) - 1), left[clockq'[k]] > 0 PROVE left[clockq'[k]] <= T[k] + 0
    <3>1. k + 1 \in 1..Len(clockq) /\ clockq'[k] = clockq[k + 1] /\ k \in Nat /\ ~(k < 1) /\ k + 1 \in Nat
      <4>1. Len(clockq) \in Nat
        BY <1>1
      <4> QED
        BY <1>4, <4>1
    <3>2. T[k] = S[k + 1] - qkey[clockq[1]] /\ S[k + 1] \in Int
      BY <1>0, <1>6, <3>1
    <3>3. left[clockq[k + 1]] <= S[k + 1] + 0 /\ left[clockq[k + 1]] \in Nat
      BY <1>1, <1>9, <2>1, <3>1
    <3> QED
      <4>1. qkey[clockq[1]] \in Int /\ qkey[clockq[1]] <= 0
        BY <1>2, <1>3
      <4>2. S[k + 1] <= T[k] + 0 /\ T[k] \in Int
        BY <3>2, <4>1
      <4> QED
        BY <3>1, <3>2, <3>3, <4>2
  <2>2. \A k \in 1..Len(clockq') : ~SqBehind(k)'
    BY <1>3 DEF SqBehind
  <2> QED
    BY <1>3, <1>4, <2>1, <2>2 DEF SqEnough
<1>11. SqWalked(T)'
  BY <1>3 DEF SqWalked
<1>12. SqHas(T)'
  BY <1>6, <1>7, <1>8, <1>10, <1>11 DEF SqHas, SqOrder
<1>13. left[clockq[1]] = 0
  <2>1. S[1] = qkey[clockq[1]]
    <3>1. S[0] = 0 /\ S[1] = S[1 - 1] + qkey[clockq[1]]
      BY <1>0, <1>2 DEF SqSums
    <3> QED
      BY <1>2, <3>1
  <2>2. left[clockq[1]] > 0 => left[clockq[1]] <= qkey[clockq[1]]
    BY <1>2, <1>9, <2>1
  <2> QED
    BY <1>1, <1>2, <1>3, <2>2, SMTT(30)
<1> QED
  BY <1>1, <1>3, <1>12, <1>13

\* A pop takes one from every sleeper's time and at most one from a sum.
LEMMA SqPopStep ==
    ASSUME SleepAssumption, NEW S, SqHas(S), MVSTMPOP
    PROVE  \E T \in [Nat -> Int] : SqHas(T)'
<1>0. /\ SqType /\ S \in [Nat -> Int] /\ SqAt /\ SqSums(S) /\ SqEnough(S) /\ SqWalked(S)
      /\ mpc # "abend" /\ MaxRaces \in Nat
  BY DEF SqHas, SqOrder, MVSTMPOP, At, SleepAssumption
<1>1. /\ qkey \in [Procs -> Int] /\ Len(clockq) \in Nat /\ left \in [Procs -> Nat] /\ clockq \in Seq(Procs)
      /\ mkey \in Int /\ midx \in Nat /\ mtmp \in Int /\ mself \in Procs
      /\ \A k \in 1..Len(clockq) : clockq[k] \in Procs /\ left[clockq[k]] \in Nat /\ where[clockq[k]] = "sleep"
      /\ \A k, l \in 1..Len(clockq) : clockq[k] = clockq[l] => k = l
  BY <1>0, SqFacts
<1>2. /\ clockq' = clockq /\ where' = where /\ mself' = mself /\ slnempty' = slnempty /\ sltop' = sltop
      /\ mkey' = mkey /\ midx' = midx /\ mtmp' = mtmp
      /\ left' = [p \in Procs |-> IF Asleep(p) /\ left[p] > 0 THEN left[p] - 1 ELSE left[p]]
      /\ mpc' = mpc \/ mpc' = "abend"
  BY DEF MVSTMPOP, Locals
<1>20. mkey \in Int /\ mtmp \in Int /\ midx \in Nat
  BY <1>1
<1>3. \/ qkey' = qkey
      \/ sltop \in Procs /\ qkey' = [qkey EXCEPT ![sltop] = qkey[sltop] + (0 - 1)]
  <2>1. CASE slnempty /\ sltop # NULL
    <3>1. sltop \in Procs /\ qkey' = [qkey EXCEPT ![sltop] = @ - 1]
      BY <1>0, <2>1 DEF MVSTMPOP, SqType, SqKinds
    <3>2. qkey[sltop] - 1 = qkey[sltop] + (0 - 1)
      BY <1>1, <3>1
    <3> QED
      BY <3>1, <3>2
  <2>2. CASE ~(slnempty /\ sltop # NULL)
    BY <2>2 DEF MVSTMPOP
  <2> QED
    BY <2>1, <2>2
<1>4. qkey' \in [Procs -> Int] /\ \A p \in Procs : qkey'[p] <= qkey[p]
  <2>0. qkey \in [Procs -> Int]
    BY <1>1
  <2>1. CASE qkey' = qkey
    BY <2>0, <2>1
  <2>2. CASE sltop \in Procs /\ qkey' = [qkey EXCEPT ![sltop] = qkey[sltop] + (0 - 1)]
    <3>1. qkey[sltop] \in Int /\ qkey[sltop] + (0 - 1) \in Int /\ qkey[sltop] + (0 - 1) <= qkey[sltop]
      BY <2>0, <2>2
    <3> QED
      BY <2>0, <2>2, <3>1
  <2> QED
    BY <1>3, <2>1, <2>2
<1>5. PICK T \in [Nat -> Int] : SqSums(T)' /\ \A k \in Nat : T[k] >= S[k] - 1
  <2>1. CASE \E j \in 1..Len(clockq) : qkey' = [qkey EXCEPT ![clockq[j]] = qkey[clockq[j]] + (0 - 1)]
    <3>1. PICK j \in 1..Len(clockq) : qkey' = [qkey EXCEPT ![clockq[j]] = qkey[clockq[j]] + (0 - 1)]
      BY <2>1
    <3>2. PICK T \in [Nat -> Int] :
            SqSums(T)' /\ \A k \in Nat : T[k] = IF k < j THEN S[k] ELSE S[k] + (0 - 1)
      <4>1. 0 - 1 \in Int
        OBVIOUS
      <4> QED
        BY <1>0, <1>2, <3>1, <4>1, SqRaised
    <3>3. \A k \in Nat : T[k] >= S[k] - 1
      <4>1. ASSUME NEW k \in Nat PROVE T[k] >= S[k] - 1
        <5>1. T[k] = (IF k < j THEN S[k] ELSE S[k] + (0 - 1)) /\ S[k] \in Int
          BY <1>0, <3>2
        <5> QED
          BY <5>1
      <4> QED
        BY <4>1
    <3> QED
      BY <3>2, <3>3
  <2>2. CASE ~\E j \in 1..Len(clockq) : qkey' = [qkey EXCEPT ![clockq[j]] = qkey[clockq[j]] + (0 - 1)]
    <3>1. \A k \in 1..Len(clockq) : qkey'[clockq[k]] = qkey[clockq[k]]
      BY <1>1, <1>3, <2>2
    <3>2. SqSums(S)'
      BY <1>0, <1>2, <3>1 DEF SqSums
    <3>3. \A k \in Nat : S[k] >= S[k] - 1
      BY <1>0
    <3> QED
      BY <1>0, <3>2, <3>3
  <2> QED
    BY <2>1, <2>2
<1>6. SqType'
  <2>1. left' \in [Procs -> Nat]
    BY <1>1, <1>2, SMTT(30)
  <2>2. races' \in 0..MaxRaces
    <3>1. races \in 0..MaxRaces /\ (races' = races \/ (races < MaxRaces /\ races' = races + 1))
      BY <1>0 DEF MVSTMPOP, SqType, SqKinds
    <3> QED
      BY <1>0, <3>1
  <2>3. SqList'
    BY <1>0, <1>2 DEF SqType, SqList
  <2>4. SqKinds'
    BY <1>0, <1>2, <1>4, <2>1, <2>2 DEF SqType, SqKinds
  <2> QED
    BY <1>0, <1>2, <2>3, <2>4 DEF SqType, SqPcs
<1>7. SqAt'
  BY <1>0, <1>2 DEF SqAt
<1>8. mpc' # "abend" => SqEnough(T)'
  <2>1. ASSUME NEW k \in 1..Len(clockq), left'[clockq[k]] > 0, mpc' = mpc
        PROVE  left'[clockq[k]] <= T[k] + (IF SqBehind(k)' THEN SqCredit' ELSE 0)
    <3>1. left'[clockq[k]] = left[clockq[k]] - 1 /\ left[clockq[k]] > 0 /\ left[clockq[k]] \in Nat
      BY <1>1, <1>2, <2>1 DEF Asleep
    <3>2. left[clockq[k]] <= S[k] + (IF SqBehind(k) THEN SqCredit ELSE 0)
      BY <1>0, <3>1 DEF SqEnough
    <3>3. T[k] >= S[k] - 1 /\ T[k] \in Int /\ S[k] \in Int
      BY <1>0, <1>5
    <3>4. SqBehind(k)' <=> SqBehind(k)
      BY <1>2, <2>1 DEF SqBehind
    <3>5. SqBehind(k) => SqCredit \in Int /\ SqCredit' \in Int /\ SqCredit' >= SqCredit
      <4>1. CASE mpc = "load"
        <5>1. SqCredit = 0 - mkey /\ SqCredit' = 0 - mkey
          BY <1>2, <2>1, <4>1 DEF SqCredit
        <5> QED
          BY <1>20, <5>1
      <4>2. CASE mpc = "store"
        <5>1. midx + 1 \in 1..Len(clockq)
          BY <1>0, <1>1, <4>2 DEF SqAt
        <5>2. PICK x \in Procs : x = clockq[midx + 1]
          BY <1>1, <5>1
        <5>3. SqCredit = mtmp - qkey[x] - mkey /\ SqCredit' = mtmp - qkey'[x] - mkey
          BY <1>2, <2>1, <4>2, <5>2 DEF SqCredit
        <5>4. qkey[x] \in Int /\ qkey'[x] \in Int /\ qkey'[x] <= qkey[x]
          BY <1>1, <1>4
        <5> QED
          <6>1. PICK u \in Int, v \in Int : u = qkey[x] /\ v = qkey'[x] /\ v <= u
            BY <5>4
          <6>2. SqCredit = mtmp - u - mkey /\ SqCredit' = mtmp - v - mkey
            BY <5>3, <6>1
          <6>3. PICK y \in Int, z \in Int : y = mtmp /\ z = mkey
            BY <1>20
          <6>4. y - u - z \in Int /\ y - v - z \in Int /\ y - v - z >= y - u - z
            BY <6>1, SqLess
          <6> QED
            BY <6>2, <6>3, <6>4
      <4>3. CASE mpc = "inherit"
        <5>1. SqCredit = mkey - qkey[mself] /\ SqCredit' = mkey - qkey'[mself]
          BY <1>2, <2>1, <4>3 DEF SqCredit
        <5>2. qkey[mself] \in Int /\ qkey'[mself] \in Int /\ qkey'[mself] <= qkey[mself]
          BY <1>1, <1>4
        <5> QED
          BY <1>20, <5>1, <5>2
      <4>4. CASE mpc = "unlink"
        <5>1. SqCredit = 0 - qkey[mself] /\ SqCredit' = 0 - qkey'[mself]
          BY <1>2, <2>1, <4>4 DEF SqCredit
        <5>2. qkey[mself] \in Int /\ qkey'[mself] \in Int /\ qkey'[mself] <= qkey[mself]
          BY <1>1, <1>4
        <5> QED
          BY <5>1, <5>2, SMTT(30)
      <4> QED
        BY <4>1, <4>2, <4>3, <4>4 DEF SqBehind
    <3>6. CASE SqBehind(k)
      <4>1. PICK c \in Int, e \in Int : c = SqCredit /\ e = SqCredit' /\ e >= c
        BY <3>5, <3>6
      <4>2. left[clockq[k]] <= S[k] + c
        BY <3>2, <3>6, <4>1
      <4>3. left[clockq[k]] - 1 <= T[k] + e
        <5>1. PICK x \in Int, y \in Int, z \in Int : x = S[k] /\ y = T[k] /\ z = left[clockq[k]]
          BY <3>1, <3>3
        <5>2. y >= x - 1 /\ z <= x + c /\ e >= c
          BY <3>3, <4>1, <4>2, <5>1
        <5>3. z - 1 <= y + e
          BY <5>2
        <5> QED
          BY <5>1, <5>3
      <4> QED
        BY <3>1, <3>4, <3>6, <4>1, <4>3
    <3>7. CASE ~SqBehind(k)
      BY <3>1, <3>2, <3>3, <3>4, <3>7
    <3> QED
      BY <3>6, <3>7
  <2> QED
    BY <1>2, <2>1 DEF SqEnough
<1>9. SqWalked(T)'
  <2>1. CASE mpc' \in {"walk", "pass", "link"} /\ left'[mself] > 0
    <3>1. mpc' = mpc /\ midx \in 1..(Len(clockq) + 1)
      BY <1>0, <1>2, <2>1 DEF SqAt
    <3>2. left'[mself] = left[mself] - 1 /\ left[mself] > 0 /\ left[mself] \in Nat
      BY <1>1, <1>2, <2>1, <3>1 DEF Asleep
    <3>3. left[mself] <= S[midx - 1] + mkey
      BY <1>0, <2>1, <3>1, <3>2 DEF SqWalked
    <3>4. midx - 1 \in Nat
      BY <1>1, <3>1
    <3>5. T[midx - 1] >= S[midx - 1] - 1 /\ T[midx - 1] \in Int /\ S[midx - 1] \in Int
      BY <1>0, <1>5, <3>4
    <3>6. left'[mself] <= T[midx - 1] + mkey
      BY <1>20, <3>2, <3>3, <3>5
    <3> QED
      BY <1>2, <3>6 DEF SqWalked
  <2>2. CASE ~(mpc' \in {"walk", "pass", "link"} /\ left'[mself] > 0)
    BY <1>2, <2>2 DEF SqWalked
  <2> QED
    BY <2>1, <2>2
<1>10. SqHas(T)'
  BY <1>5, <1>6, <1>7, <1>8, <1>9 DEF SqHas, SqOrder
<1> QED
  BY <1>10

\* Every step of the mainline and of the exit.
LEMMA SqStep == ASSUME SleepAssumption, SqInv, [Next]_vars PROVE SqInv'
<1>1. PICK S \in [Nat -> Int] : SqHas(S)
  BY DEF SqInv
<1>2. CASE \E p \in Procs, c \in Calls, n \in 0..MaxSleep : Call(p, c, n)
  BY <1>1, <1>2, SqCallStep DEF SqInv
<1>3. CASE \E p \in Procs : Unsleep(p)
  BY <1>1, <1>3, SqUnsleepStep DEF SqInv
<1>4. CASE \E p \in Procs : Ready(p)
  BY <1>1, <1>4, SqReadyStep DEF SqInv
<1>5. CASE Compare
  BY <1>1, <1>5, SqCompareStep DEF SqInv
<1>6. CASE Pass
  BY <1>1, <1>6, SqPassStep DEF SqInv
<1>7. CASE Link
  BY <1>1, <1>7, SqLinkStep DEF SqInv
<1>8. CASE Load
  BY <1>1, <1>8, SqLoadStep DEF SqInv
<1>9. CASE Store
  BY <1>1, <1>9, SqStoreStep DEF SqInv
<1>10. CASE Post \/ Resched \/ WakeupFlag \/ WakeupTop \/ UnsleepTop
  BY <1>1, <1>10, SqTopStep DEF SqInv
<1>11. CASE Awaken
  BY <1>1, <1>11, SqAwakenStep DEF SqInv
<1>12. CASE Inherit
  BY <1>1, <1>12, SqInheritStep DEF SqInv
<1>13. CASE Unlink
  BY <1>1, <1>13, SqUnlinkStep DEF SqInv
<1>14. CASE MVSTMPOP
  BY <1>1, <1>14, SqPopStep DEF SqInv
<1>15. CASE UNCHANGED vars
  <2>1. SqHas(S)'
    BY <1>1, <1>15, ZenonT(40) DEF vars, listVars, mainVars, history, SqHas, SqType, SqList, SqKinds,
       SqPcs, SqAt, SqOrder,
       SqSums, SqEnough, SqWalked, SqBehind, SqCredit
  <2> QED
    BY <2>1 DEF SqInv
<1> QED
  BY <1>2, <1>3, <1>4, <1>5, <1>6, <1>7, <1>8, <1>9, <1>10, <1>11, <1>12, <1>13, <1>14, <1>15
     DEF Next, Insertd, Wakeup, UnsleepStep

\* Only wakeup() makes a sleeper ready, and only one whose time is up.
LEMMA SqNotEarly ==
    ASSUME SleepAssumption, SqInv, [Next]_vars
    PROVE  [\A p \in Procs : where[p] = "sleep" /\ where'[p] = "ready" => left[p] = 0]_vars
<1> SUFFICES ASSUME NEW p \in Procs, where[p] = "sleep", where'[p] = "ready" PROVE left[p] = 0
  OBVIOUS
<1>1. PICK S \in [Nat -> Int] : SqHas(S)
  BY DEF SqInv
<1>2. where \in [Procs -> {"ready", "sleep", "off"}] /\ mself \in Procs
  BY <1>1 DEF SqHas, SqType, SqKinds
<1>3. CASE Awaken
  BY <1>1, <1>3, SqAwakenStep
<1>4. where' # where
  OBVIOUS
<1>5. ~Link /\ ~Unlink
  BY <1>2 DEF Link, Unlink
<1>6. ASSUME NEW r \in Procs, Ready(r) PROVE FALSE
  BY <1>2, <1>6 DEF Ready
<1>7. ~(MVSTMPOP \/ Compare \/ Pass \/ Load \/ Store \/ Post \/ Resched \/ WakeupFlag \/ WakeupTop
        \/ Inherit \/ UnsleepTop \/ UNCHANGED vars)
  BY <1>4 DEF MVSTMPOP, Compare, Pass, Load, Store, Post, Resched, WakeupFlag, WakeupTop,
     Inherit, UnsleepTop,
     vars, listVars
<1>8. /\ ~\E r \in Procs, c \in Calls, n \in 0..MaxSleep : Call(r, c, n)
      /\ ~\E r \in Procs : Unsleep(r)
  BY <1>4 DEF Call, Unsleep, listVars
<1> QED
  BY <1>3, <1>5, <1>6, <1>7, <1>8 DEF Next, Insertd, Wakeup, UnsleepStep

\* Whatever the exit interrupts, no sleeper's turn in the delta list comes before
\* the pops that sleep10 or recvtim asked for.
THEOREM SleepInvariant == Spec => []SqInv
<1>1. Init => SqInv
  BY SqStart, SleepAssumption
<1>2. SqInv /\ [Next]_vars => SqInv'
  BY SqStep, SleepAssumption
<1> QED
  BY <1>1, <1>2, PTL DEF Spec

\* wakeup() readies a process only after as many pops as it asked for, for every
\* number of processes, all intervals, and pops between any two loads and stores
\* of insertd, unsleep and wakeup.
THEOREM NeverEarlyCorrect == Spec => NeverEarly
<1>1. SqInv /\ [Next]_vars =>
        [\A p \in Procs : where[p] = "sleep" /\ where'[p] = "ready" => left[p] = 0]_vars
  BY SqNotEarly, SleepAssumption
<1> QED
  BY <1>1, SleepInvariant, PTL DEF Spec, NeverEarly
=============================================================================

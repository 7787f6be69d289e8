---------------------------- MODULE CtcWriteProof ---------------------------
(***************************************************************************)
(* Why ctci_write and ctci_iowrite agree, for every number of writers,     *)
(* buffers and frames per buffer, until ctwfresh meets an empty pool (dry) *)
(* for the first time.                                                     *)
(*                                                                         *)
(* The argument has three parts.  No process gives up the CPU while it     *)
(* holds the device or wants a buffer, so nobody ever waits for either     *)
(* (Control): this is what an empty pool breaks, since the writer then     *)
(* waits with fillbuf still pointing to the buffer it has queued.  A       *)
(* buffer has one place (Places).  Frames grow along what was written, the *)
(* buffer being written, the filled ones and fillbuf (Inside, Between,     *)
(* Gone).                                                                  *)
(***************************************************************************)
EXTENDS CtcWrite, QueueFacts

IoPCs == {"lock", "search", "sleep", "woken", "awake", "start", "suspend", "post", "free"}
WrPCs == {"idle", "look", "fresh", "take", "hang", "put", "done"}

Types ==
    /\ TypeOK
    /\ ipc \in IoPCs /\ ibuf \in Bufs \cup {NULL}
    /\ wpc \in [Writers -> WrPCs] /\ wbuf \in [Writers -> Bufs \cup {NULL}]
    /\ nsent \in 0..MaxFrames /\ onwire \in Seq(Nat) /\ dropped \in SUBSET (1..nsent)
    /\ broken \in BOOLEAN

\* Where the writer that has the CPU stands, and the buffer it has in hand.
Pc == IF cur \in Writers THEN wpc[cur] ELSE "idle"
Hand == IF cur \in Writers THEN wbuf[cur] ELSE NULL

\* The write of ibuf is still to end.
Unwritten == ipc = "start" \/ io = "pend"

Control ==
    /\ semq = <<>> /\ poolq = <<>>
    /\ sem = IF ipc \in {"search", "awake", "start", "free"} \/ Pc \in {"look", "hang", "put"}
                THEN 0 ELSE 1
    /\ \A w \in Writers : w # cur => wpc[w] = "idle" /\ wbuf[w] = NULL
    /\ IF cur = IO THEN st[IO] = "ready" ELSE ipc \in {"woken", "post"} /\ st[IO] # "wait"
    /\ pidsleep <=> ipc \in {"sleep", "woken", "awake"}
    /\ ibuf # NULL <=> ipc \in {"start", "suspend", "post", "free"}
    /\ IF ipc = "suspend" \/ (ipc = "post" /\ st[IO] # "ready")
         THEN io \in {"pend", "complete"} ELSE io = "none"

\* fillbuf is a buffer that ctwfresh is about to replace.
Stale == Pc \in {"fresh", "take", "hang"}

Places ==
    /\ IsInjective(pool) /\ IsInjective(filled) /\ Range(pool) \cap Range(filled) = {}
    /\ ibuf \notin Range(pool) \cup Range(filled)
    /\ Bufs \subseteq Range(pool) \cup Range(filled) \cup {fillbuf, ibuf, Hand}
    /\ fillbuf = NULL \/ IF Stale THEN fillbuf \in Range(filled)
                         ELSE fillbuf \notin Range(pool) \cup Range(filled) \cup {ibuf}
    /\ Hand # NULL <=> Pc \in {"hang", "put"}
    /\ Pc = "put" => Hand = fillbuf
    /\ Pc = "hang" => Hand \notin Range(pool) \cup Range(filled) \cup {ibuf}

\* Every frame in b is older than every frame in c.
Before(b, c) == \A k \in DOMAIN data[b], l \in DOMAIN data[c] : data[b][k] < data[c][l]

\* The buffers with frames not yet written.
Live == (Range(filled) \cup {fillbuf} \cup (IF Unwritten THEN {ibuf} ELSE {})) \ {NULL}

Inside ==
    /\ \A b \in Bufs : \A k \in DOMAIN data[b] : data[b][k] <= nsent
    /\ \A b \in Bufs : \A k, l \in DOMAIN data[b] : k < l => data[b][k] < data[b][l]
    /\ Pc = "hang" => data[Hand] = <<>>
    /\ \A b \in Range(filled) : data[b] # <<>>
    /\ fillbuf # NULL /\ Pc # "put" => data[fillbuf] # <<>>
Between ==
    /\ \A i, j \in DOMAIN filled : i < j => Before(filled[i], filled[j])
    /\ fillbuf # NULL /\ ~Stale => \A b \in Range(filled) : Before(b, fillbuf)
    /\ Unwritten => \A b \in Live : b # ibuf => Before(ibuf, b)
Gone ==
    /\ WireGrows
    /\ \A m \in DOMAIN onwire : onwire[m] \in 1..nsent /\ onwire[m] \notin dropped
    /\ \A b \in Live : \A k \in DOMAIN data[b] :
           /\ \A m \in DOMAIN onwire : onwire[m] < data[b][k]
           /\ \A f \in dropped : f < data[b][k]

Budget ==
    /\ Pc \notin {"idle", "done"} => nsent < MaxFrames
    /\ Pc = "take" => pool # <<>>

IInv == Types /\ Control /\ Places /\ Inside /\ Between /\ Gone /\ Budget

-----------------------------------------------------------------------------
\* Names of processes differ from the other values of cur.
LEMMA Names ==
    /\ IO \notin Writers /\ "other" \notin Writers /\ "hook" \notin Writers /\ "disp" \notin Writers
    /\ IO # "other" /\ IO # "hook" /\ IO # "disp" /\ IO \in Procs /\ Writers \subseteq Procs
    /\ \A w \in Writers : w # IO /\ w # "hook" /\ w # "disp" /\ w # "other"
BY CtcWriteAssumption DEF IO, Procs

\* wait() and signal() on a device nobody else has.
LEMMA WaitFree ==
    ASSUME NEW p, WaitSem(p), sem = 1
    PROVE  sem' = 0 /\ semq' = semq /\ st' = st /\ cur' = cur
BY DEF WaitSem

\* signal() on it with nobody waiting.
LEMMA SignalFree ==
    ASSUME SignalSem, sem = 0
    PROVE  sem' = 1 /\ semq' = semq /\ st' = st /\ cur' = cur
BY DEF SignalSem

\* What holds when a writer has the CPU.
LEMMA AtWriter ==
    ASSUME Control, NEW w \in Writers, cur = w
    PROVE  Pc = wpc[w] /\ Hand = wbuf[w] /\ ipc \in {"woken", "post"} /\ cur # IO
BY Names DEF Control, Pc, Hand

\* What holds when none has.
LEMMA NoWriter ==
    ASSUME cur \notin Writers
    PROVE  Pc = "idle" /\ Hand = NULL
BY DEF Pc, Hand

\* A step that moves no buffer and no frame, and does not begin a write.
LEMMA QuietStep ==
    ASSUME Places, Inside, Between, Gone, Budget,
           UNCHANGED <<pool, filled, fillbuf, ibuf, data, nsent, onwire, dropped>>,
           Pc \in {"idle", "done"}, Pc' \in {"idle", "done", "look"}, Hand' = NULL,
           Unwritten' => Unwritten,
           Pc' = "look" => nsent < MaxFrames
    PROVE  Places' /\ Inside' /\ Between' /\ Gone' /\ Budget'
<1>1. Pc # Pc' => Pc' # "put" /\ Pc' # "hang" /\ Pc' # "take" /\ Pc # "put"
  OBVIOUS
<1>2. ~Stale /\ ~Stale' /\ Hand = NULL
  BY DEF Stale, Places
<1>3. Live' \subseteq Live
  BY DEF Live
<1>4. Places'
  BY <1>2 DEF Places
<1>5. Inside'
  BY DEF Inside
<1>6. Between'
  BY <1>2, <1>3 DEF Between, Before
<1>7. Gone'
  BY <1>3 DEF Gone, WireGrows
<1>8. Budget'
  BY DEF Budget
<1> QED BY <1>4, <1>5, <1>6, <1>7, <1>8

-----------------------------------------------------------------------------
(* resched() and the steps that only move a process on.                    *)

\* resched's hook readies the I/O process when the channel has ended.
LEMMA HookStep == ASSUME IInv, Hook PROVE IInv'
<1> USE Names
<1>1. cur = "hook" /\ cur' = "disp" /\ cur \notin Writers /\ cur' \notin Writers /\ cur # IO /\ cur' # IO
  BY DEF Hook
<1>2. Pc = "idle" /\ Pc' = "idle" /\ Hand = NULL /\ Hand' = NULL
  BY <1>1 DEF Pc, Hand
<1>3. /\ UNCHANGED <<sem, semq, pool, poolq, data, fillbuf, filled, pidsleep, ipc, ibuf,
                     wpc, wbuf, nsent, onwire, dropped, broken>>
      /\ io' = (IF io = "complete" THEN "none" ELSE io)
      /\ st' = IF io = "complete" /\ st[IO] = "susp" THEN [st EXCEPT ![IO] = "ready"] ELSE st
  BY DEF Hook, semVars, poolVars, statVars, ioProc, wrProc, history
<1>4. st \in [Procs -> {"ready", "susp", "wait"}] /\ io \in {"none", "pend", "complete"}
  BY DEF IInv, Types, TypeOK
<1>5. st' \in [Procs -> {"ready", "susp", "wait"}] /\ io' \in {"none", "pend", "complete"}
  BY <1>3, <1>4
<1>6. Types'
  BY <1>1, <1>3, <1>5 DEF IInv, Types, TypeOK
<1>7. Unwritten' => Unwritten
  BY <1>3, <1>4 DEF Unwritten
<1>8. io = "complete" => ipc' = "post" /\ io' = "none" /\ st'[IO] = "ready"
  BY <1>1, <1>3, <1>4 DEF IInv, Control
<1>9. io # "complete" => io' = io /\ st' = st
  BY <1>3
<1>10. Control'
  BY <1>1, <1>2, <1>3, <1>8, <1>9 DEF IInv, Control
<1>11. Places' /\ Inside' /\ Between' /\ Gone' /\ Budget'
  BY <1>2, <1>3, <1>7, QuietStep DEF IInv
<1> QED BY <1>6, <1>10, <1>11 DEF IInv

\* The I/O process runs when it is ready, else somebody else does.
LEMMA DispatchStep == ASSUME IInv, Dispatch PROVE IInv'
<1> USE Names
<1>1. cur = "disp" /\ cur \notin Writers /\ cur # IO
  BY DEF Dispatch
<1>2. \A w \in Writers : wpc[w] = "idle" /\ wbuf[w] = NULL
  BY <1>1 DEF IInv, Control
<1>3. UNCHANGED <<st, io, sem, semq, pool, poolq, data, fillbuf, filled, pidsleep, ipc, ibuf,
                  wpc, wbuf, nsent, onwire, dropped, broken>>
  BY DEF Dispatch, semVars, poolVars, statVars, ioProc, wrProc, history
<1>4. Pc = "idle" /\ Pc' = "idle" /\ Hand = NULL /\ Hand' = NULL
  BY <1>1, <1>2, <1>3 DEF Pc, Hand
<1>5. cur' \in Procs \cup {"other"} /\ (cur' = IO => st[IO] = "ready")
  BY DEF Dispatch
<1>6. Types'
  BY <1>3, <1>5 DEF IInv, Types, TypeOK
<1>7. Control' /\ (Unwritten' => Unwritten)
  BY <1>1, <1>2, <1>3, <1>4, <1>5 DEF IInv, Control, Unwritten
<1>8. Places' /\ Inside' /\ Between' /\ Gone' /\ Budget'
  BY <1>3, <1>4, <1>7, QuietStep DEF IInv
<1> QED BY <1>6, <1>7, <1>8 DEF IInv

\* Another process gives the CPU up.
LEMMA OtherYieldsStep == ASSUME IInv, OtherYields PROVE IInv'
<1> USE Names
<1>1. cur = "other" /\ cur \notin Writers /\ cur # IO /\ cur' = "hook" /\ cur' \notin Writers
  BY DEF OtherYields, Runs, Resched
<1>2. UNCHANGED <<st, io, sem, semq, pool, poolq, data, fillbuf, filled, pidsleep, ipc, ibuf,
                  wpc, wbuf, nsent, onwire, dropped, broken>>
  BY DEF OtherYields, semVars, poolVars, statVars, ioProc, wrProc, history
<1>3. Pc = "idle" /\ Pc' = "idle" /\ Hand = NULL /\ Hand' = NULL
  BY <1>1 DEF Pc, Hand
<1>4. Types'
  BY <1>1, <1>2 DEF IInv, Types, TypeOK
<1>5. Control' /\ (Unwritten' => Unwritten)
  BY <1>1, <1>2, <1>3 DEF IInv, Control, Unwritten
<1>6. Places' /\ Inside' /\ Between' /\ Gone' /\ Budget'
  BY <1>2, <1>3, <1>5, QuietStep DEF IInv
<1> QED BY <1>4, <1>5, <1>6 DEF IInv

\* The I/O process moves on and nothing else happens: what it may do then.
LEMMA IoQuiet ==
    ASSUME IInv, cur = IO, cur' \in {IO, "hook"}, UNCHANGED <<semq, poolq, wpc, wbuf, broken>>,
           UNCHANGED <<pool, filled, fillbuf, ibuf, data, nsent, onwire, dropped>>,
           ipc' \in IoPCs, st' \in [Procs -> {"ready", "susp", "wait"}], pidsleep' \in BOOLEAN,
           io' \in {"none", "pend", "complete"}, sem' \in {0, 1},
           Unwritten' => Unwritten,
           sem' = IF ipc' \in {"search", "awake", "start", "free"} THEN 0 ELSE 1,
           IF cur' = IO THEN st'[IO] = "ready" ELSE ipc' \in {"woken", "post"} /\ st'[IO] # "wait",
           pidsleep' <=> ipc' \in {"sleep", "woken", "awake"},
           ibuf # NULL <=> ipc' \in {"start", "suspend", "post", "free"},
           IF ipc' = "suspend" \/ (ipc' = "post" /\ st'[IO] # "ready")
             THEN io' \in {"pend", "complete"} ELSE io' = "none"
    PROVE  IInv'
<1> USE Names
<1>1. cur \notin Writers /\ cur' \notin Writers
  OBVIOUS
<1>2. Pc = "idle" /\ Pc' = "idle" /\ Hand = NULL /\ Hand' = NULL
  BY <1>1 DEF Pc, Hand
<1>3. Types'
  BY DEF IInv, Types, TypeOK
<1>4. Control'
  BY <1>1, <1>2 DEF IInv, Control
<1>5. Places' /\ Inside' /\ Between' /\ Gone' /\ Budget'
  BY <1>2, QuietStep DEF IInv
<1> QED BY <1>3, <1>4, <1>5 DEF IInv

\* The steps of ctci_iowrite that move no buffer.
LEMMA IoQuietSteps ==
    ASSUME IInv, Lock \/ Sleep \/ Woken \/ Awake \/ StartWrite \/ SuspendIO \/ PostWrite
    PROVE  IInv'
<1> USE Names
<1>1. /\ cur = IO /\ st[IO] = "ready" /\ Pc = "idle"
      /\ UNCHANGED <<poolq, wpc, wbuf, broken, pool, filled, fillbuf, ibuf, data, nsent, onwire, dropped>>
  BY DEF IInv, Control, Pc, Lock, Sleep, Woken, Awake, StartWrite, SuspendIO, PostWrite, Runs,
     schedVars,
         semVars, poolVars, statVars, ioProc, wrProc, history
<1>2. /\ sem = IF ipc \in {"search", "awake", "start", "free"} THEN 0 ELSE 1
      /\ st \in [Procs -> {"ready", "susp", "wait"}] /\ io \in {"none", "pend", "complete"}
      /\ pidsleep \in BOOLEAN
      /\ pidsleep <=> ipc \in {"sleep", "woken", "awake"}
      /\ ibuf # NULL <=> ipc \in {"start", "suspend", "post", "free"}
      /\ IF ipc = "suspend" THEN io \in {"pend", "complete"} ELSE io = "none"
  BY <1>1 DEF IInv, Control, Types, TypeOK
<1>3. CASE Lock \/ Woken \/ PostWrite
  <2>1. sem = 1 /\ WaitSem(IO) /\ UNCHANGED <<io, pidsleep>>
    BY <1>2, <1>3 DEF Lock, Woken, PostWrite, statVars
  <2>2. sem' = 0 /\ UNCHANGED <<semq, st, cur>>
    BY <2>1, WaitFree
  <2>3. \/ ipc = "lock" /\ ipc' = "search"
        \/ ipc = "woken" /\ ipc' = "awake"
        \/ ipc = "post" /\ ipc' = "free"
    BY <1>3 DEF Lock, Woken, PostWrite
  <2> QED BY <1>1, <1>2, <2>1, <2>2, <2>3, IoQuiet DEF IoPCs, Unwritten
<1>4. CASE Sleep \/ SuspendIO
  <2>1. /\ cur' = "hook" /\ st' = [st EXCEPT ![IO] = "susp"] /\ UNCHANGED <<io, sem, semq, pidsleep>>
        /\ (ipc = "sleep" /\ ipc' = "woken") \/ (ipc = "suspend" /\ ipc' = "post")
    BY <1>4 DEF Sleep, SuspendIO, Resched, semVars, statVars
  <2>2. st' \in [Procs -> {"ready", "susp", "wait"}] /\ st'[IO] = "susp"
    BY <1>2, <2>1
  <2> QED BY <1>1, <1>2, <2>1, <2>2, IoQuiet DEF IoPCs, Unwritten
<1>5. CASE Awake
  <2>1. /\ pidsleep' = FALSE /\ ipc = "awake" /\ ipc' = "search" /\ UNCHANGED <<cur, st, io, sem, semq>>
    BY <1>5 DEF Awake, schedVars, semVars
  <2>2. ibuf = NULL /\ io = "none" /\ sem = 0
    BY <1>2, <2>1
  <2> QED BY <1>1, <1>2, <2>1, <2>2, IoQuiet DEF IoPCs, Unwritten
<1>6. CASE StartWrite
  <2>1. ipc = "start" /\ ipc' = "suspend" /\ io' = "pend" /\ SignalSem /\ sem = 0 /\ pidsleep' = pidsleep
    BY <1>2, <1>6 DEF StartWrite, statVars
  <2>2. sem' = 1 /\ UNCHANGED <<semq, st, cur>>
    BY <2>1, SignalFree
  <2> QED BY <1>1, <1>2, <2>1, <2>2, IoQuiet DEF IoPCs, Unwritten
<1> QED BY <1>3, <1>4, <1>5, <1>6

-----------------------------------------------------------------------------
(* ctci_write, outside the device.                                         *)

\* A writer gives the CPU up between two writes.
LEMMA PauseStep == ASSUME IInv, NEW w \in Writers, Pause(w) PROVE IInv'
<1> USE Names
<1>1. cur = w /\ cur # IO /\ wpc[w] = "idle" /\ cur' = "hook" /\ cur' \notin Writers /\ cur' # IO
  BY DEF Pause, Runs, Resched
<1>2. UNCHANGED <<st, io, sem, semq, pool, poolq, data, fillbuf, filled, pidsleep, ipc, ibuf,
                  wpc, wbuf, nsent, onwire, dropped, broken>>
  BY DEF Pause, semVars, poolVars, statVars, ioProc, wrProc, history
<1>3. Pc = "idle" /\ Hand = wbuf[w] /\ Pc' = "idle" /\ Hand' = NULL
  BY <1>1 DEF Pc, Hand
<1>4. Hand = NULL
  BY <1>3 DEF IInv, Places
<1>5. Types'
  BY <1>1, <1>2 DEF IInv, Types, TypeOK
<1>6. Control' /\ (Unwritten' => Unwritten)
  BY <1>1, <1>2, <1>3, <1>4 DEF IInv, Control, Unwritten
<1>7. Places' /\ Inside' /\ Between' /\ Gone' /\ Budget'
  BY <1>2, <1>3, <1>6, QuietStep DEF IInv
<1> QED BY <1>5, <1>6, <1>7 DEF IInv

\* A write returns.
LEMMA ReturnStep == ASSUME IInv, NEW w \in Writers, Return(w) PROVE IInv'
<1> USE Names
<1>1. cur = w /\ cur # IO /\ wpc[w] = "done" /\ cur' \in {w, "hook"} /\ cur' # IO
  BY DEF Return, Runs, Resched
<1>2. UNCHANGED <<st, io, sem, semq, pool, poolq, data, fillbuf, filled, pidsleep, ipc, ibuf,
                  wbuf, nsent, onwire, dropped, broken>>
  BY DEF Return, semVars, poolVars, statVars, ioProc, wrProc, history
<1>3. wpc' = [wpc EXCEPT ![w] = "idle"] /\ wpc \in [Writers -> WrPCs]
  BY DEF Return, Goto, IInv, Types
<1>4. wpc' \in [Writers -> WrPCs] /\ \A v \in Writers : wpc'[v] = IF v = w THEN "idle" ELSE wpc[v]
  BY <1>3 DEF WrPCs
<1>5. Pc = "done" /\ Hand = wbuf[w]
  BY <1>1 DEF Pc, Hand
<1>6. wbuf[w] = NULL
  BY <1>5 DEF IInv, Places
<1>7. Pc' = "idle" /\ Hand' = NULL
  BY <1>1, <1>2, <1>4, <1>6 DEF Pc, Hand
<1>8. Types'
  BY <1>1, <1>2, <1>4 DEF IInv, Types, TypeOK, Procs
<1>9. \A v \in Writers : wpc'[v] = "idle" /\ wbuf'[v] = NULL
  BY <1>1, <1>2, <1>4, <1>6 DEF IInv, Control
<1>10. Control' /\ (Unwritten' => Unwritten)
  BY <1>1, <1>2, <1>5, <1>7, <1>9 DEF IInv, Control, Unwritten
<1>11. Places' /\ Inside' /\ Between' /\ Gone' /\ Budget'
  BY <1>2, <1>5, <1>7, <1>10, QuietStep DEF IInv
<1> QED BY <1>8, <1>10, <1>11 DEF IInv

\* What a writer's step does to the control state when it keeps the CPU.
LEMMA WriterControl ==
    ASSUME Types, Control, NEW w \in Writers, cur = w, cur' = cur, NEW l \in WrPCs, NEW b \in Bufs \cup {NULL},
           wpc' = [wpc EXCEPT ![w] = l], wbuf' = [wbuf EXCEPT ![w] = b],
           UNCHANGED <<st, io, semq, poolq, ipc, ibuf, pidsleep>>,
           sem' = IF l \in {"look", "hang", "put"} THEN 0 ELSE 1
    PROVE  /\ Control' /\ Unwritten' = Unwritten /\ Pc' = l /\ Hand' = b
           /\ wpc' \in [Writers -> WrPCs] /\ wbuf' \in [Writers -> Bufs \cup {NULL}] /\ sem' \in {0, 1}
<1> USE Names
<1>1. /\ wpc' \in [Writers -> WrPCs] /\ \A v \in Writers : wpc'[v] = IF v = w THEN l ELSE wpc[v]
      /\ wbuf' \in [Writers -> Bufs \cup {NULL}] /\ \A v \in Writers : wbuf'[v] = IF v = w THEN b ELSE wbuf[v]
  BY DEF Types
<1>2. Pc' = l /\ Hand' = b /\ Unwritten' = Unwritten
  BY <1>1 DEF Pc, Hand, Unwritten
<1>3. cur # IO /\ ipc \in {"woken", "post"}
  BY DEF Control
<1>4. Control'
  BY <1>1, <1>2, <1>3 DEF Control
<1> QED BY <1>1, <1>2, <1>4

\* The writer's buffer as EXCEPT leaves it when nothing is assigned.
LEMMA SameHand ==
    ASSUME Types, NEW w \in Writers
    PROVE  wbuf = [wbuf EXCEPT ![w] = wbuf[w]] /\ wbuf[w] \in Bufs \cup {NULL}
BY DEF Types

\* A write begins: it has the device, and its frame is within the window.
LEMMA WriteStart == ASSUME IInv, NEW w \in Writers, Write(w) PROVE IInv'
<1>1. cur = w /\ wpc[w] = "idle" /\ Pc = "idle" /\ ipc \in {"woken", "post"} /\ Hand = wbuf[w]
  BY AtWriter DEF IInv, Write, Runs
<1>2. sem = 1 /\ wbuf[w] = NULL
  BY <1>1 DEF IInv, Control, Places
<1>3. sem' = 0 /\ UNCHANGED <<semq, st, cur>>
  BY <1>2, WaitFree DEF Write
<1>4. UNCHANGED <<io, pool, poolq, data, fillbuf, filled, pidsleep, ipc, ibuf, wbuf, nsent, onwire, dropped, broken>>
  BY DEF Write, poolVars, statVars, ioProc, history
<1>5. wpc' = [wpc EXCEPT ![w] = "look"] /\ "look" \in WrPCs /\ nsent < MaxFrames
  <2>1. {v \in Writers : InCall(v)} = {}
    BY <1>1 DEF IInv, Control, InCall
  <2>2. Cardinality({v \in Writers : InCall(v)}) = 0
    BY <2>1, FS_EmptySet, Zenon
  <2>3. nsent \in Nat /\ nsent + Cardinality({v \in Writers : InCall(v)}) < MaxFrames
    BY CtcWriteAssumption DEF IInv, Types, Write
  <2>4. nsent < MaxFrames
    BY <2>2, <2>3
  <2> QED BY <2>4 DEF Write, Goto, WrPCs
<1>6. /\ Control' /\ Unwritten' = Unwritten /\ Pc' = "look" /\ Hand' = NULL
      /\ wpc' \in [Writers -> WrPCs] /\ wbuf' \in [Writers -> Bufs \cup {NULL}]
  BY <1>1, <1>2, <1>3, <1>4, <1>5, WriterControl, SameHand DEF IInv
<1>7. Types'
  BY <1>3, <1>4, <1>6 DEF IInv, Types, TypeOK
<1>8. Places' /\ Inside' /\ Between' /\ Gone' /\ Budget'
  BY <1>1, <1>4, <1>5, <1>6, QuietStep DEF IInv
<1> QED BY <1>6, <1>7, <1>8 DEF IInv

-----------------------------------------------------------------------------
(* Counting buffers.                                                       *)

\* A sequence without repetition has as many members as places.
LEMMA SeqCount ==
    ASSUME NEW S, NEW q \in Seq(S), \A i, j \in DOMAIN q : q[i] = q[j] => i = j
    PROVE  IsFiniteSet(Range(q)) /\ Cardinality(Range(q)) = Len(q)
<1>1. Len(q) \in Nat /\ DOMAIN q = 1..Len(q)
  OBVIOUS
<1>2. IsFiniteSet(1..Len(q)) /\ Cardinality(1..Len(q)) = Len(q)
  BY <1>1, FS_Interval
<1>3. q \in Bijection(1..Len(q), Range(q))
  BY <1>1 DEF Bijection, Injection, Surjection, IsInjective, Range
<1>4. ExistsBijection(1..Len(q), Range(q))
  BY <1>3 DEF ExistsBijection
<1> QED BY <1>2, <1>4, FS_Bijection

\* The pool as mkpool makes it.
LEMMA WholePool ==
    LET p == SetToSeq(Bufs)
    IN  p \in Seq(Bufs) /\ IsInjective(p) /\ Range(p) = Bufs
<1> DEFINE n == Cardinality(Bufs)
<1>1. n \in Nat /\ ExistsBijection(1..n, Bufs)
  BY CtcWriteAssumption, FS_CardinalityType
<1>2. PICK g : g \in Bijection(1..n, Bufs)
  BY <1>1 DEF ExistsBijection
<1>3. g \in [1..n -> Bufs] /\ IsInjective(g)
  BY <1>2 DEF Bijection, Injection, IsInjective
<1>4. SetToSeq(Bufs) \in [1..n -> Bufs] /\ IsInjective(SetToSeq(Bufs))
  BY <1>3, Zenon DEF SetToSeq
<1> DEFINE p == SetToSeq(Bufs)
<1>5. p \in Injection(1..n, Bufs)
  BY <1>4 DEF Injection, IsInjective
<1>6. IsFiniteSet(1..n) /\ Cardinality(1..n) = n
  BY <1>1, FS_Interval
<1>7. p \in Surjection(1..n, Bufs)
  BY <1>5, <1>6, CtcWriteAssumption, FS_Injection
<1>8. p \in Seq(Bufs)
  BY <1>1, <1>4
<1>9. Range(p) = Bufs
  BY <1>4, <1>7 DEF Surjection, Range
<1> QED BY <1>4, <1>8, <1>9

\* There is room in filled[] for a buffer that is not there yet.
LEMMA FilledFits ==
    ASSUME Types, IsInjective(filled), fillbuf \in Bufs, fillbuf \notin Range(filled)
    PROVE  Len(filled) < Cardinality(Bufs)
<1>1. filled \in Seq(Bufs) /\ \A i, j \in DOMAIN filled : filled[i] = filled[j] => i = j
  BY DEF Types, TypeOK, IsInjective
<1>2. IsFiniteSet(Range(filled)) /\ Cardinality(Range(filled)) = Len(filled)
  BY <1>1, SeqCount
<1>3. Range(filled) \subseteq Bufs
  BY <1>1 DEF Range
<1>4. IsFiniteSet(Bufs)
  BY CtcWriteAssumption
<1>5. /\ Cardinality(Range(filled)) <= Cardinality(Bufs)
      /\ Cardinality(Bufs) = Cardinality(Range(filled)) => Bufs = Range(filled)
  BY <1>3, <1>4, FS_Subset
<1>6. Cardinality(Bufs) \in Nat /\ Len(filled) \in Nat
  BY <1>1, <1>4, FS_CardinalityType
<1> QED BY <1>2, <1>5, <1>6

-----------------------------------------------------------------------------
(* ctci_write, with the device.                                            *)

\* A step that moves the writer on and leaves the frames where they are.
LEMMA KeepFrames ==
    ASSUME Inside, Between, Gone, Budget,
           UNCHANGED <<pool, filled, fillbuf, ibuf, data, nsent, onwire, dropped>>, Unwritten' = Unwritten,
           Pc \notin {"idle", "done", "put"}, Pc' # "hang", Stale' \/ ~Stale, Pc' = "take" => pool # <<>>
    PROVE  Inside' /\ Between' /\ Gone' /\ Budget'
<1>1. Live' = Live
  BY DEF Live
<1>2. Inside'
  BY DEF Inside
<1>3. Between'
  BY <1>1 DEF Between, Before
<1>4. Gone'
  BY <1>1 DEF Gone, WireGrows
<1>5. Budget'
  BY DEF Budget
<1> QED BY <1>2, <1>3, <1>4, <1>5

\* ctci_write looks at fillbuf: room in it, none, or a new one wanted.
LEMMA LookStep == ASSUME IInv, NEW w \in Writers, Look(w) PROVE IInv'
<1>1. cur = w /\ wpc[w] = "look" /\ Pc = "look" /\ ipc \in {"woken", "post"} /\ Hand = wbuf[w]
  BY AtWriter DEF IInv, Look, Runs
<1>2. sem = 0 /\ wbuf[w] = NULL /\ Hand = NULL /\ ~Stale
  BY <1>1 DEF IInv, Control, Places, Stale
<1>3. UNCHANGED <<io, pool, poolq, data, fillbuf, pidsleep, ipc, ibuf, nsent, onwire, dropped, broken>>
  BY DEF Look, poolVars, ioProc, history
<1>4. /\ filled \in Seq(Bufs) /\ fillbuf \in Bufs \cup {NULL} /\ NULL \notin Bufs
      /\ "put" \in WrPCs /\ "fresh" \in WrPCs /\ wbuf = [wbuf EXCEPT ![w] = NULL]
  BY <1>2, CtcWriteAssumption, SameHand DEF IInv, Types, TypeOK, WrPCs
<1>5. CASE fillbuf # NULL /\ Len(data[fillbuf]) < Cap
  <2>0. data[fillbuf] \in Seq(1..MaxFrames) /\ Cap \in Nat
    BY <1>4, <1>5, CtcWriteAssumption DEF IInv, Types, TypeOK
  <2>1. /\ wbuf' = [wbuf EXCEPT ![w] = fillbuf] /\ wpc' = [wpc EXCEPT ![w] = "put"]
        /\ UNCHANGED <<filled, cur, st, sem, semq>>
    BY <1>5, <2>0 DEF Look, Goto, schedVars, semVars
  <2>2. /\ Control' /\ Unwritten' = Unwritten /\ Pc' = "put" /\ Hand' = fillbuf
        /\ wpc' \in [Writers -> WrPCs] /\ wbuf' \in [Writers -> Bufs \cup {NULL}]
    BY <1>1, <1>2, <1>3, <1>4, <2>1, WriterControl DEF IInv
  <2>3. Types'
    BY <1>3, <2>1, <2>2 DEF IInv, Types, TypeOK
  <2>4. ~Stale'
    BY <2>2 DEF Stale
  <2>5. Places'
    BY <1>2, <1>3, <1>4, <1>5, <2>1, <2>2, <2>4 DEF IInv, Places
  <2>6. Inside' /\ Between' /\ Gone' /\ Budget'
    BY <1>1, <1>2, <1>3, <2>1, <2>2, KeepFrames DEF IInv
  <2> QED BY <2>2, <2>3, <2>5, <2>6 DEF IInv
<1>6. CASE fillbuf = NULL
  <2>1. SignalSem /\ wpc' = [wpc EXCEPT ![w] = "fresh"] /\ UNCHANGED <<filled, wbuf>>
    BY <1>6 DEF Look, Goto
  <2>2. sem' = 1 /\ UNCHANGED <<semq, st, cur>>
    BY <1>2, <2>1, SignalFree
  <2>a. wbuf' = [wbuf EXCEPT ![w] = NULL] /\ NULL \in Bufs \cup {NULL}
    BY <1>4, <2>1, Zenon
  <2>b. sem' = IF "fresh" \in {"look", "hang", "put"} THEN 0 ELSE 1
    BY <2>2
  <2>3. /\ Control' /\ Unwritten' = Unwritten /\ Pc' = "fresh" /\ Hand' = NULL
        /\ wpc' \in [Writers -> WrPCs] /\ wbuf' \in [Writers -> Bufs \cup {NULL}]
    BY <1>1, <1>3, <2>1, <2>2, <2>a, <2>b, WriterControl DEF IInv, WrPCs
  <2>4. Types'
    BY <1>3, <2>1, <2>2, <2>3 DEF IInv, Types, TypeOK
  <2>5. Places'
    BY <1>2, <1>3, <1>6, <2>1, <2>3 DEF IInv, Places
  <2>6. Inside' /\ Between' /\ Gone' /\ Budget'
    BY <1>1, <1>2, <1>3, <2>1, <2>3, KeepFrames DEF IInv
  <2> QED BY <2>3, <2>4, <2>5, <2>6 DEF IInv
<1>7. CASE fillbuf # NULL /\ Len(data[fillbuf]) >= Cap
  <2>0. fillbuf \in Bufs /\ fillbuf \notin Range(filled) /\ IsInjective(filled)
    BY <1>2, <1>4, <1>7 DEF IInv, Places
  <2>1. Len(filled) < Cardinality(Bufs)
    BY <2>0, FilledFits DEF IInv
  <2>2. data[fillbuf] \in Seq(1..MaxFrames) /\ Cap \in Nat
    BY <2>0, CtcWriteAssumption DEF IInv, Types, TypeOK
  <2>3. /\ filled' = Append(filled, fillbuf) /\ SignalSem
        /\ wpc' = [wpc EXCEPT ![w] = "fresh"] /\ wbuf' = wbuf
    BY <1>7, <2>1, <2>2 DEF Look, Goto
  <2>4. sem' = 1 /\ UNCHANGED <<semq, st, cur>>
    BY <1>2, <2>3, SignalFree
  <2>a. wbuf' = [wbuf EXCEPT ![w] = NULL] /\ NULL \in Bufs \cup {NULL}
    BY <1>4, <2>3, Zenon
  <2>b. sem' = IF "fresh" \in {"look", "hang", "put"} THEN 0 ELSE 1
    BY <2>4
  <2>5. /\ Control' /\ Unwritten' = Unwritten /\ Pc' = "fresh" /\ Hand' = NULL
        /\ wpc' \in [Writers -> WrPCs] /\ wbuf' \in [Writers -> Bufs \cup {NULL}]
    BY <1>1, <1>3, <2>3, <2>4, <2>a, <2>b, WriterControl DEF IInv, WrPCs
  <2>6. /\ filled' \in Seq(Bufs) /\ IsInjective(filled') /\ Range(filled') = Range(filled) \cup {fillbuf}
    <3>1. Lists(filled, Range(filled), Bufs)
      BY <1>4, <2>0 DEF Lists
    <3>2. Lists(Append(filled, fillbuf), Range(filled) \cup {fillbuf}, Bufs)
      BY <2>0, <3>1, AppendLists
    <3> QED BY <2>3, <3>2 DEF Lists
  <2>7. Types'
    BY <1>3, <2>4, <2>5, <2>6 DEF IInv, Types, TypeOK
  <2>8. Stale' /\ Live' = Live
    BY <1>3, <2>0, <2>5, <2>6 DEF Stale, Live
  <2>9. Places'
    BY <1>2, <1>3, <1>7, <2>5, <2>6, <2>8 DEF IInv, Places
  <2>10. Inside'
    BY <1>1, <1>3, <1>7, <2>5, <2>6 DEF IInv, Inside
  <2>11. Between'
    <3>1. \A i \in DOMAIN filled : filled'[i] = filled[i] /\ filled[i] \in Range(filled)
      BY <1>4, <2>3 DEF Range
    <3>2. DOMAIN filled' = 1..(Len(filled) + 1) /\ filled'[Len(filled) + 1] = fillbuf
      BY <1>4, <2>0, <2>3
    <3>3. \A b \in Range(filled) : Before(b, fillbuf)
      BY <1>2, <1>7 DEF IInv, Between
    <3>4. \A b, c : Before(b, c)' <=> Before(b, c)
      BY <1>3 DEF Before
    <3>5. ASSUME NEW i \in DOMAIN filled', NEW j \in DOMAIN filled', i < j
          PROVE  Before(filled'[i], filled'[j])
      <4>1. PICK n \in Nat : n = Len(filled) /\ DOMAIN filled = 1..n
        BY <1>4
      <4>2. i \in 1..n
        BY <3>2, <3>5, <4>1
      <4>3. CASE j \in 1..n
        BY <3>1, <3>5, <4>1, <4>2, <4>3 DEF IInv, Between
      <4>4. CASE j = n + 1
        BY <3>1, <3>2, <3>3, <4>1, <4>2, <4>4
      <4> QED BY <3>2, <4>1, <4>3, <4>4
    <3>6. (\A i, j \in DOMAIN filled : i < j => Before(filled[i], filled[j]))'
      BY <3>4, <3>5
    <3>7. (Unwritten => \A b \in Live : b # ibuf => Before(ibuf, b))'
      BY <1>3, <2>5, <2>8, <3>4 DEF IInv, Between
    <3> QED BY <2>8, <3>6, <3>7 DEF Between
  <2>12. Gone'
    BY <1>3, <2>8 DEF IInv, Gone, WireGrows
  <2>13. Budget'
    BY <1>1, <1>3, <2>5 DEF IInv, Budget
  <2> QED BY <2>5, <2>7, <2>9, <2>10, <2>11, <2>12, <2>13 DEF IInv
<1> QED BY <1>5, <1>6, <1>7 DEF Look

\* ctwfresh finds a buffer in the pool.
LEMMA FreshStep ==
    ASSUME IInv, NEW w \in Writers, Fresh(w), ~dry'
    PROVE  IInv'
<1>1. cur = w /\ wpc[w] = "fresh" /\ Pc = "fresh" /\ ipc \in {"woken", "post"} /\ Hand = wbuf[w]
  BY AtWriter DEF IInv, Fresh, Runs
<1>2. sem = 1 /\ wbuf[w] = NULL /\ Hand = NULL /\ Stale
  BY <1>1 DEF IInv, Control, Places, Stale
<1>3. pool \in Seq(Bufs) /\ Len(pool) \in Nat
  BY DEF IInv, Types, TypeOK
<1>4. {v \in Writers : wpc[v] = "take"} = {}
  BY <1>1 DEF IInv, Control
<1>5. Len(pool) > Cardinality({v \in Writers : wpc[v] = "take"}) /\ pool # <<>>
  <2>1. Cardinality({v \in Writers : wpc[v] = "take"}) = 0
    BY <1>4, FS_EmptySet, Zenon
  <2>2. Len(pool) > Cardinality({v \in Writers : wpc[v] = "take"})
    BY DEF Fresh
  <2> QED BY <1>3, <2>1, <2>2
<1>6. /\ wpc' = [wpc EXCEPT ![w] = "take"] /\ cur' = cur
      /\ UNCHANGED <<st, io, sem, semq, pool, poolq, data, fillbuf, filled, pidsleep, ipc, ibuf, wbuf,
                     nsent, onwire, dropped, broken>>
  BY <1>5 DEF Fresh, Goto, schedVars, semVars, poolVars, statVars, ioProc, history
<1>7. wbuf' = [wbuf EXCEPT ![w] = NULL] /\ NULL \in Bufs \cup {NULL}
  BY <1>2, <1>6, SameHand DEF IInv
<1>8. sem' = IF "take" \in {"look", "hang", "put"} THEN 0 ELSE 1
  BY <1>2, <1>6
<1>9. /\ Control' /\ Unwritten' = Unwritten /\ Pc' = "take" /\ Hand' = NULL
      /\ wpc' \in [Writers -> WrPCs] /\ wbuf' \in [Writers -> Bufs \cup {NULL}]
  BY <1>1, <1>6, <1>7, <1>8, WriterControl DEF IInv, WrPCs
<1>10. Types'
  BY <1>6, <1>9 DEF IInv, Types, TypeOK
<1>11. Stale'
  BY <1>9 DEF Stale
<1>12. Places'
  BY <1>1, <1>2, <1>6, <1>9, <1>11 DEF IInv, Places
<1>13. Inside' /\ Between' /\ Gone' /\ Budget'
  BY <1>1, <1>5, <1>6, <1>9, <1>11, KeepFrames DEF IInv
<1> QED BY <1>9, <1>10, <1>12, <1>13 DEF IInv

\* ctwfresh takes it.
LEMMA TakeStep == ASSUME IInv, NEW w \in Writers, Take(w) PROVE IInv'
<1>1. cur = w /\ wpc[w] = "take" /\ Pc = "take" /\ ipc \in {"woken", "post"} /\ Hand = wbuf[w]
  BY AtWriter DEF IInv, Take, Runs
<1>2. sem = 1 /\ Hand = NULL /\ Stale /\ pool # <<>>
  BY <1>1 DEF IInv, Control, Places, Stale, Budget
<1>3. sem' = 0 /\ UNCHANGED <<semq, st, cur>>
  BY <1>2, WaitFree DEF Take
<1>4. UNCHANGED <<io, poolq, fillbuf, filled, pidsleep, ipc, ibuf, nsent, onwire, dropped, broken>>
  BY DEF Take, statVars, ioProc, history
<1> DEFINE h == Head(pool)
<1>5. /\ pool' = Tail(pool) /\ data' = [data EXCEPT ![h] = <<>>]
      /\ wpc' = [wpc EXCEPT ![w] = "hang"] /\ wbuf' = [wbuf EXCEPT ![w] = h]
  BY DEF Take, Goto
<1>6. /\ pool' \in Seq(Bufs) /\ IsInjective(pool') /\ Range(pool') = Range(pool) \ {h}
      /\ h \in Range(pool) /\ h \in Bufs /\ NULL \notin Bufs
  <2>1. Lists(pool, Range(pool), Bufs)
    BY DEF IInv, Types, TypeOK, Places, Lists
  <2>2. Lists(Tail(pool), Range(pool) \ {h}, Bufs) /\ h \in Range(pool)
    BY <1>2, <2>1, TailLists
  <2>3. h \in Bufs
    BY <2>1, <2>2 DEF Lists, Range
  <2> QED BY <1>5, <2>2, <2>3, CtcWriteAssumption DEF Lists
<1>7. h # ibuf /\ h \notin Range(filled) /\ h # fillbuf /\ h \notin Live
  BY <1>2, <1>6 DEF IInv, Places, Live
<1> HIDE DEF h
<1>8. /\ data \in [Bufs -> Seq(1..MaxFrames)] /\ data' \in [Bufs -> Seq(1..MaxFrames)]
      /\ data'[h] = <<>> /\ \A b \in Bufs : b # h => data'[b] = data[b]
  <2>1. <<>> \in Seq(1..MaxFrames) /\ data \in [Bufs -> Seq(1..MaxFrames)]
    BY DEF IInv, Types, TypeOK
  <2> QED BY <1>5, <1>6, <2>1
<1>9. sem' = IF "hang" \in {"look", "hang", "put"} THEN 0 ELSE 1
  BY <1>3
<1>10. /\ Control' /\ Unwritten' = Unwritten /\ Pc' = "hang" /\ Hand' = h
       /\ wpc' \in [Writers -> WrPCs] /\ wbuf' \in [Writers -> Bufs \cup {NULL}]
  BY <1>1, <1>3, <1>4, <1>5, <1>6, <1>9, WriterControl DEF IInv, WrPCs
<1>11. Types'
  BY <1>3, <1>4, <1>6, <1>8, <1>10 DEF IInv, Types, TypeOK
<1>12. Stale' /\ Live' = Live
  BY <1>4, <1>10 DEF Stale, Live
<1>13. Places'
  BY <1>1, <1>2, <1>4, <1>6, <1>7, <1>10, <1>12 DEF IInv, Places
<1>14. Live \subseteq Bufs /\ Range(filled) \subseteq Live
  BY <1>6, SMTT(40) DEF IInv, Types, TypeOK, Live, Range
<1>15. \A b \in Live : data'[b] = data[b]
  BY <1>7, <1>8, <1>14
<1>16. Inside'
  <2>1. \A b \in Bufs : data'[b] = data[b] \/ data'[b] = <<>>
    BY <1>8
  <2>2. \A b \in Bufs : \A k \in DOMAIN data'[b] : data'[b][k] <= nsent'
    BY <1>4, <2>1 DEF IInv, Inside
  <2>3. \A b \in Bufs : \A k, l \in DOMAIN data'[b] : k < l => data'[b][k] < data'[b][l]
    BY <2>1 DEF IInv, Inside
  <2>4. \A b \in Range(filled') : data'[b] # <<>>
    BY <1>4, <1>14, <1>15 DEF IInv, Inside
  <2>5. fillbuf' # NULL => data'[fillbuf'] # <<>>
    BY <1>1, <1>4, <1>15 DEF IInv, Inside, Live
  <2> QED BY <1>8, <1>10, <2>2, <2>3, <2>4, <2>5 DEF Inside
<1>17. Between'
  <2>1. \A b, c \in Live : Before(b, c) => Before(b, c)'
    BY <1>15 DEF Before
  <2>2. \A i \in DOMAIN filled : filled[i] \in Live
    BY <1>14 DEF Range
  <2>3. Unwritten => ibuf \in Live
    <3>1. Unwritten => ibuf # NULL
      BY DEF Unwritten, IInv, Control
    <3> QED BY <3>1 DEF Live
  <2> QED BY <1>4, <1>10, <1>12, <2>1, <2>2, <2>3 DEF IInv, Between
<1>18. Gone'
  BY <1>4, <1>12, <1>15 DEF IInv, Gone, WireGrows
<1>19. Budget'
  BY <1>1, <1>4, <1>10 DEF IInv, Budget
<1> QED BY <1>10, <1>11, <1>13, <1>16, <1>17, <1>18, <1>19 DEF IInv

\* ctwfresh makes it fillbuf.
LEMMA HangStep == ASSUME IInv, NEW w \in Writers, Hang(w) PROVE IInv'
<1>1. cur = w /\ wpc[w] = "hang" /\ Pc = "hang" /\ ipc \in {"woken", "post"} /\ Hand = wbuf[w]
  BY AtWriter DEF IInv, Hang, Runs
<1> DEFINE h == wbuf[w]
<1>2. sem = 0 /\ h # NULL /\ Stale /\ h \notin Range(pool) \cup Range(filled) \cup {ibuf}
  BY <1>1 DEF IInv, Control, Places, Stale
<1>3. UNCHANGED <<cur, st, io, sem, semq, pool, poolq, data, filled, pidsleep, ipc, ibuf, wbuf,
                  nsent, onwire, dropped, broken>>
  BY DEF Hang, schedVars, semVars, poolVars, ioProc, history
<1>4. fillbuf' = h /\ wpc' = [wpc EXCEPT ![w] = "put"]
  BY DEF Hang, Goto
<1>5. wbuf' = [wbuf EXCEPT ![w] = h] /\ h \in Bufs \cup {NULL}
  BY <1>3, SameHand DEF IInv
<1>6. sem' = IF "put" \in {"look", "hang", "put"} THEN 0 ELSE 1
  BY <1>2, <1>3
<1>7. /\ Control' /\ Unwritten' = Unwritten /\ Pc' = "put" /\ Hand' = h
      /\ wpc' \in [Writers -> WrPCs] /\ wbuf' \in [Writers -> Bufs \cup {NULL}]
  BY <1>1, <1>3, <1>4, <1>5, <1>6, WriterControl DEF IInv, WrPCs
<1>8. Types'
  BY <1>3, <1>4, <1>5, <1>7 DEF IInv, Types, TypeOK
<1>9. ~Stale' /\ NULL \notin Bufs
  BY <1>7, CtcWriteAssumption DEF Stale
<1>10. Places'
  BY <1>1, <1>2, <1>3, <1>4, <1>7, <1>9 DEF IInv, Places
<1>11. data[h] = <<>>
  BY <1>1 DEF IInv, Inside
<1>12. Inside'
  BY <1>3, <1>7 DEF IInv, Inside
<1>13. \A b \in Live' : b \in Live \/ b = h
  BY <1>3, <1>4, <1>7 DEF Live
<1>14. Between'
  BY <1>3, <1>4, <1>7, <1>11, <1>13 DEF IInv, Between, Before
<1>15. Gone'
  BY <1>3, <1>11, <1>13 DEF IInv, Gone, WireGrows
<1>16. Budget'
  BY <1>1, <1>3, <1>7 DEF IInv, Budget
<1> QED BY <1>7, <1>8, <1>10, <1>12, <1>14, <1>15, <1>16 DEF IInv

\* The frame goes into fillbuf, behind all others.
LEMMA PutStep == ASSUME IInv, NEW w \in Writers, Put(w) PROVE IInv'
<1> USE Names
<1>1. cur = w /\ wpc[w] = "put" /\ Pc = "put" /\ ipc \in {"woken", "post"} /\ cur # IO
  BY AtWriter DEF IInv, Put, Runs
<1>2. sem = 0 /\ ~Stale /\ Hand = fillbuf /\ wbuf[w] = fillbuf
  BY <1>1, AtWriter DEF IInv, Control, Places, Stale
<1>3. /\ fillbuf \in Bufs /\ NULL \notin Bufs
      /\ fillbuf \notin Range(pool) \cup Range(filled) \cup {ibuf}
  BY <1>1, <1>2, CtcWriteAssumption DEF IInv, Types, TypeOK, Places
<1>4. /\ data' = [data EXCEPT ![fillbuf] = Append(@, nsent + 1)] /\ nsent' = nsent + 1 /\ sem' = 1
      /\ st' = [p \in Procs |-> IF p = IO /\ pidsleep THEN "ready" ELSE st[p]]
      /\ UNCHANGED <<io, pool, poolq, fillbuf, filled, pidsleep, ipc, ibuf, onwire, dropped, semq, cur>>
      /\ wpc' = [wpc EXCEPT ![w] = "done"] /\ wbuf' = [wbuf EXCEPT ![w] = NULL] /\ broken' \in BOOLEAN
  BY <1>2 DEF Put, Goto, poolVars, statVars, ioProc
<1>5. /\ wpc' \in [Writers -> WrPCs] /\ wpc'[w] = "done"
      /\ wbuf' \in [Writers -> Bufs \cup {NULL}] /\ wbuf'[w] = NULL
      /\ \A v \in Writers : v # w => wpc'[v] = wpc[v] /\ wbuf'[v] = wbuf[v]
  BY <1>4 DEF IInv, Types, WrPCs
<1>6. Pc' = "done" /\ Hand' = NULL /\ ~Stale' /\ Unwritten' = Unwritten
  BY <1>1, <1>4, <1>5 DEF Pc, Hand, Stale, Unwritten
<1>7. st \in [Procs -> {"ready", "susp", "wait"}] /\ (pidsleep <=> ipc = "woken") /\ st[IO] # "wait"
  BY <1>1 DEF IInv, Types, TypeOK, Control
<1>8. st' \in [Procs -> {"ready", "susp", "wait"}] /\ st'[IO] # "wait" /\ (ipc = "post" => st'[IO] = st[IO])
  BY <1>1, <1>4, <1>7
<1>9. Control'
  <2>1. (\A v \in Writers : v # cur => wpc[v] = "idle" /\ wbuf[v] = NULL)'
    BY <1>1, <1>4, <1>5 DEF IInv, Control
  <2>2. IF ipc' = "suspend" \/ (ipc' = "post" /\ st'[IO] # "ready")
          THEN io' \in {"pend", "complete"} ELSE io' = "none"
    BY <1>1, <1>4, <1>8 DEF IInv, Control
  <2> QED BY <1>1, <1>4, <1>6, <1>8, <2>1, <2>2 DEF IInv, Control
<1>10. /\ nsent \in Nat /\ nsent' \in 0..MaxFrames /\ nsent + 1 \in 1..MaxFrames /\ dropped \subseteq 1..nsent
       /\ dropped \subseteq 1..nsent' /\ MaxFrames \in Nat
  <2>1. nsent \in 0..MaxFrames /\ nsent < MaxFrames /\ MaxFrames \in Nat /\ dropped \subseteq 1..nsent
    BY <1>1, CtcWriteAssumption DEF IInv, Types, Budget
  <2> QED BY <1>4, <2>1
<1> DEFINE d == data[fillbuf]
           n == nsent + 1
<1>11. /\ d \in Seq(1..MaxFrames) /\ data \in [Bufs -> Seq(1..MaxFrames)]
       /\ \A k \in DOMAIN d : d[k] <= nsent
       /\ \A k, l \in DOMAIN d : k < l => d[k] < d[l]
  BY <1>3 DEF IInv, Types, TypeOK, Inside
<1> DEFINE e == Append(d, n)
<1>12. /\ e \in Seq(1..MaxFrames) /\ e # <<>> /\ DOMAIN e = 1..(Len(d) + 1) /\ Len(d) \in Nat
       /\ DOMAIN d = 1..Len(d) /\ e[Len(d) + 1] = n /\ \A k \in 1..Len(d) : e[k] = d[k]
  BY <1>10, <1>11
<1>13. data' \in [Bufs -> Seq(1..MaxFrames)] /\ data'[fillbuf] = e /\ \A b \in Bufs : b # fillbuf => data'[b] = data[b]
  BY <1>3, <1>4, <1>11, <1>12
<1>14. \A k \in DOMAIN e : e[k] \in Nat /\ e[k] <= n /\ ((k \in DOMAIN d /\ e[k] = d[k]) \/ e[k] = n)
  <2> TAKE k \in DOMAIN e
  <2>1. CASE k \in 1..Len(d)
    <3>1. d[k] \in 1..MaxFrames /\ d[k] <= nsent /\ e[k] = d[k]
      BY <1>11, <1>12, <2>1, ElementOfSeq
    <3> QED BY <1>10, <1>12, <2>1, <3>1
  <2>2. CASE k = Len(d) + 1
    BY <1>10, <1>12, <2>2
  <2> QED BY <1>12, <2>1, <2>2
<1>15. \A k, l \in DOMAIN e : k < l => e[k] < e[l]
  <2> SUFFICES ASSUME NEW k \in DOMAIN e, NEW l \in DOMAIN e, k < l PROVE e[k] < e[l]
    OBVIOUS
  <2>1. k \in 1..Len(d)
    BY <1>12
  <2>2. d[k] \in 1..MaxFrames /\ d[k] <= nsent /\ e[k] = d[k]
    BY <1>11, <1>12, <2>1, ElementOfSeq
  <2>3. CASE l \in 1..Len(d)
    BY <1>11, <1>12, <2>1, <2>2, <2>3
  <2>4. CASE l = Len(d) + 1
    BY <1>10, <1>12, <2>2, <2>4
  <2> QED BY <1>12, <2>3, <2>4
<1> HIDE DEF e, d, n
<1>16. Types'
  BY <1>1, <1>4, <1>5, <1>8, <1>10, <1>13 DEF IInv, Types, TypeOK
<1>17. Places'
  BY <1>2, <1>3, <1>4, <1>6 DEF IInv, Places
<1>18. Live' = Live /\ Live \subseteq Bufs
  <2>1. Unwritten => ibuf # NULL /\ ibuf \in Bufs
    BY DEF Unwritten, IInv, Control, Types
  <2> QED BY <1>3, <1>4, <1>6, <2>1 DEF Live, IInv, Types, TypeOK, Range
<1>19. \A b \in Bufs : \A k \in DOMAIN data[b] : data[b][k] \in Nat /\ data[b][k] <= nsent
  <2> TAKE b \in Bufs
  <2> TAKE k \in DOMAIN data[b]
  <2>1. data[b] \in Seq(1..MaxFrames) /\ k \in 1..Len(data[b]) /\ data[b][k] <= nsent
    BY <1>11 DEF IInv, Inside
  <2>2. data[b][k] \in 1..MaxFrames
    BY <2>1, ElementOfSeq
  <2> QED BY <1>10, <2>1, <2>2
<1>20. n = nsent + 1
  BY DEF n
<1>21. Inside'
  <2>1. \A b \in Bufs : \A k \in DOMAIN data'[b] : data'[b][k] <= nsent'
    BY <1>4, <1>10, <1>13, <1>14, <1>19, <1>20
  <2>2. \A b \in Bufs : \A k, l \in DOMAIN data'[b] : k < l => data'[b][k] < data'[b][l]
    BY <1>13, <1>15 DEF IInv, Inside
  <2>3. \A b \in Range(filled') : data'[b] # <<>>
    BY <1>3, <1>4, <1>13, <1>18 DEF IInv, Inside, Types, TypeOK, Range
  <2>4. data'[fillbuf'] # <<>>
    BY <1>4, <1>12, <1>13
  <2> QED BY <1>6, <2>1, <2>2, <2>3, <2>4 DEF Inside
<1>22. Between'
  <2>1. \A b, c \in Bufs : b # fillbuf /\ c # fillbuf /\ Before(b, c) => Before(b, c)'
    BY <1>13 DEF Before
  <2>2. \A b \in Bufs : b # fillbuf /\ Before(b, fillbuf) => Before(b, fillbuf)'
    <3> SUFFICES ASSUME NEW b \in Bufs, b # fillbuf, Before(b, fillbuf),
                        NEW k \in DOMAIN data[b], NEW l \in DOMAIN e
                 PROVE  data[b][k] < e[l]
      BY <1>4, <1>13 DEF Before
    <3>1. data[b][k] \in Nat /\ data[b][k] <= nsent
      BY <1>19
    <3>2. CASE e[l] = n
      BY <1>10, <1>20, <3>1, <3>2
    <3>3. CASE l \in DOMAIN d /\ e[l] = d[l]
      BY <3>3 DEF Before, d
    <3> QED BY <1>14, <3>2, <3>3
  <2>3. Range(filled) \subseteq Bufs /\ \A i \in DOMAIN filled : filled[i] \in Range(filled)
    BY DEF IInv, Types, TypeOK, Range
  <2>4. (\A i, j \in DOMAIN filled : i < j => Before(filled[i], filled[j]))'
    BY <1>3, <1>4, <2>1, <2>3 DEF IInv, Between
  <2>5. (\A b \in Range(filled) : Before(b, fillbuf))'
    BY <1>2, <1>3, <1>4, <2>2, <2>3 DEF IInv, Between
  <2>6. Unwritten => ibuf \in Bufs
    BY DEF Unwritten, IInv, Control, Types
  <2>7. (Unwritten => \A b \in Live : b # ibuf => Before(ibuf, b))'
    BY <1>3, <1>4, <1>6, <1>18, <2>1, <2>2, <2>6 DEF IInv, Between
  <2> QED BY <1>6, <2>4, <2>5, <2>7 DEF Between
<1>23. Gone'
  <2>1. \A m \in DOMAIN onwire : onwire[m] \in 1..nsent /\ onwire[m] \notin dropped
    BY DEF IInv, Gone
  <2>2. \A m \in DOMAIN onwire' : onwire'[m] \in 1..nsent' /\ onwire'[m] \notin dropped'
    BY <1>4, <1>10, <2>1
  <2>3. ASSUME NEW b \in Live, NEW k \in DOMAIN data'[b]
        PROVE  /\ \A m \in DOMAIN onwire : onwire[m] < data'[b][k]
               /\ \A f \in dropped : f < data'[b][k]
    <3>1. CASE b # fillbuf
      BY <1>13, <1>18, <2>3, <3>1 DEF IInv, Gone
    <3>2. CASE b = fillbuf /\ k \in DOMAIN d /\ e[k] = d[k]
      BY <1>13, <2>3, <3>2 DEF IInv, Gone, d
    <3>3. CASE b = fillbuf /\ e[k] = n
      <4>1. data'[b][k] = nsent + 1 /\ \A x \in 1..nsent : x < nsent + 1
        BY <1>10, <1>13, <1>20, <3>3
      <4> QED BY <1>10, <2>1, <4>1
    <3> QED BY <1>13, <1>14, <2>3, <3>1, <3>2, <3>3
  <2> QED BY <1>4, <1>18, <2>2, <2>3 DEF IInv, Gone, WireGrows
<1>24. Budget'
  BY <1>6 DEF Budget
<1> QED BY <1>9, <1>16, <1>17, <1>21, <1>22, <1>23, <1>24 DEF IInv

-----------------------------------------------------------------------------
(* The channel and ctci_iowrite.                                           *)

\* A buffer put in front of a list it is not in.
LEMMA PushLists ==
    ASSUME NEW T, NEW q \in Seq(T), IsInjective(q), NEW e \in T, e \notin Range(q)
    PROVE  LET r == <<e>> \o q
           IN  r \in Seq(T) /\ IsInjective(r) /\ Range(r) = Range(q) \cup {e}
<1> DEFINE r == <<e>> \o q
<1>1. PICK n \in Nat : n = Len(q) /\ DOMAIN q = 1..n
  OBVIOUS
<1>2. r \in Seq(T) /\ DOMAIN r = 1..(n + 1) /\ r[1] = e /\ \A k \in 1..n : r[k + 1] = q[k]
  BY <1>1
<1>3. \A k \in 1..(n + 1) : (k = 1 /\ r[k] = e) \/ (k - 1 \in 1..n /\ r[k] = q[k - 1])
  BY <1>1, <1>2
<1>4. \A k \in 1..n : q[k] \in Range(q)
  BY <1>1 DEF Range
<1> HIDE DEF r
<1>5. ASSUME NEW i \in 1..(n + 1), NEW j \in 1..(n + 1), r[i] = r[j] PROVE i = j
  <2>1. CASE i = 1 \/ j = 1
    BY <1>3, <1>4, <1>5, <2>1
  <2>2. CASE i # 1 /\ j # 1
    <3>1. i - 1 \in 1..n /\ j - 1 \in 1..n /\ q[i - 1] = q[j - 1]
      BY <1>3, <1>5, <2>2
    <3>2. i - 1 = j - 1
      BY <1>1, <3>1 DEF IsInjective
    <3> QED BY <3>2
  <2> QED BY <2>1, <2>2
<1>6. IsInjective(r)
  BY <1>2, <1>5 DEF IsInjective
<1>7. Range(r) = Range(q) \cup {e}
  <2>1. \A x \in Range(r) : x \in Range(q) \cup {e}
    <3> TAKE x \in Range(r)
    <3>1. PICK k \in 1..(n + 1) : x = r[k]
      BY <1>2 DEF Range
    <3>2. CASE k - 1 \in 1..n /\ r[k] = q[k - 1]
      BY <1>4, <3>1, <3>2
    <3> QED BY <1>3, <3>1, <3>2
  <2>2. e \in Range(r)
    BY <1>2 DEF Range
  <2>3. ASSUME NEW x \in Range(q) PROVE x \in Range(r)
    <3>1. PICK k \in 1..n : x = q[k]
      BY <1>1 DEF Range
    <3>2. k + 1 \in DOMAIN r /\ r[k + 1] = x
      BY <1>2, <3>1
    <3> QED BY <3>2 DEF Range
  <2> QED BY <2>1, <2>2, <2>3
<1> QED BY <1>2, <1>6, <1>7 DEF r

\* Frames in buffers are numbers.
LEMMA FrameTypes ==
    ASSUME Types, Inside
    PROVE  \A b \in Bufs : /\ data[b] \in Seq(1..MaxFrames) /\ DOMAIN data[b] = 1..Len(data[b])
                           /\ \A k \in DOMAIN data[b] : data[b][k] \in 1..nsent
<1> TAKE b \in Bufs
<1>1. data[b] \in Seq(1..MaxFrames) /\ nsent \in Nat
  BY CtcWriteAssumption DEF Types, TypeOK
<1>2. ASSUME NEW k \in DOMAIN data[b] PROVE data[b][k] \in 1..nsent
  <2>1. k \in 1..Len(data[b]) /\ data[b][k] <= nsent
    BY <1>1 DEF Inside
  <2>2. data[b][k] \in 1..MaxFrames
    BY <1>1, <2>1, ElementOfSeq
  <2> QED BY <1>1, <2>1, <2>2
<1> QED BY <1>1, <1>2

\* The channel ends: ibuf is on the wire, or lost as a whole.
LEMMA ChannelEndStep == ASSUME IInv, ChannelEnd PROVE IInv'
<1>1. /\ io = "pend" /\ io' = "complete"
      /\ UNCHANGED <<cur, st, sem, semq, pool, poolq, data, fillbuf, filled, pidsleep, ipc, ibuf, wpc, wbuf,
                     nsent, broken>>
  BY DEF ChannelEnd, schedVars, semVars, poolVars, statVars, ioProc, wrProc
<1>2. Pc' = Pc /\ Hand' = Hand /\ (Stale' <=> Stale)
  BY <1>1 DEF Pc, Hand, Stale
<1>3. ipc \in {"suspend", "post"} /\ Unwritten /\ ~Unwritten'
  BY <1>1 DEF IInv, Control, Unwritten
<1>4. ibuf \in Bufs /\ ibuf # NULL /\ ibuf \in Live /\ NULL \notin Bufs
  BY <1>3, CtcWriteAssumption DEF IInv, Types, Control, Live
<1>5. Control'
  BY <1>1, <1>2, <1>3 DEF IInv, Control
<1>6. Places'
  BY <1>1, <1>2 DEF IInv, Places
<1>7. Inside'
  BY <1>1, <1>2 DEF IInv, Inside
<1>8. Live' = (Range(filled) \cup {fillbuf}) \ {NULL} /\ Live' \subseteq Live /\ ibuf \notin Live'
  BY <1>1, <1>3, <1>4 DEF IInv, Places, Live
<1>9. Between'
  BY <1>1, <1>2, <1>3 DEF IInv, Between, Before
<1> DEFINE d == data[ibuf]
<1>10. /\ d \in Seq(1..MaxFrames) /\ DOMAIN d = 1..Len(d) /\ \A k \in DOMAIN d : d[k] \in 1..nsent
       /\ \A k, l \in DOMAIN d : k < l => d[k] < d[l]
  BY <1>4, FrameTypes DEF IInv, Inside
<1>11. /\ \A k \in DOMAIN d, m \in DOMAIN onwire : onwire[m] < d[k]
       /\ \A k \in DOMAIN d, f \in dropped : f < d[k]
  BY <1>4 DEF IInv, Gone
<1>12. \A b \in Live' : \A k \in DOMAIN d, l \in DOMAIN data[b] : d[k] < data[b][l]
  BY <1>3, <1>8 DEF IInv, Between, Before
<1>13. /\ nsent \in Nat /\ onwire \in Seq(Nat) /\ dropped \subseteq 1..nsent
       /\ \A m \in DOMAIN onwire : onwire[m] \in 1..nsent /\ onwire[m] \notin dropped
       /\ \A i, j \in 1..Len(onwire) : i < j => onwire[i] < onwire[j]
  BY CtcWriteAssumption DEF IInv, Types, Gone, WireGrows
<1>14. \A b \in Live' : \A k \in DOMAIN data[b] :
           /\ \A m \in DOMAIN onwire : onwire[m] < data[b][k]
           /\ \A f \in dropped : f < data[b][k]
  BY <1>8 DEF IInv, Gone
<1>15. IsFiniteSet(dropped) /\ Cardinality(dropped) \in Nat
  <2>1. IsFiniteSet(1..nsent)
    BY <1>13, FS_Interval
  <2>2. IsFiniteSet(dropped)
    BY <1>13, <2>1, FS_Subset
  <2> QED BY <2>2, FS_CardinalityType
<1> HIDE DEF d
<1>16. CASE onwire' = onwire \o d /\ dropped' = dropped
  <2> DEFINE r == onwire \o d
  <2>1. PICK a \in Nat, c \in Nat : a = Len(onwire) /\ c = Len(d) /\ DOMAIN onwire = 1..a /\ DOMAIN d = 1..c
    <3>1. Len(onwire) \in Nat /\ DOMAIN onwire = 1..Len(onwire)
      BY <1>13
    <3>2. Len(d) \in Nat /\ DOMAIN d = 1..Len(d)
      BY <1>10
    <3> QED BY <3>1, <3>2, ZenonT(40)
  <2>2. d \in Seq(Nat)
    <3>1. \A k \in 1..Len(d) : d[k] \in Nat
      BY <1>10, <1>13
    <3> QED BY <1>10, <3>1
  <2>3. r \in Seq(Nat) /\ Len(r) = a + c /\ DOMAIN r = 1..(a + c)
    BY <1>13, <2>1, <2>2
  <2>4. \A m \in 1..(a + c) : (m \in 1..a /\ r[m] = onwire[m]) \/ (m - a \in 1..c /\ r[m] = d[m - a])
    BY <1>13, <2>1, <2>2
  <2> HIDE DEF r
  <2>5. \A m \in 1..(a + c) : r[m] \in 1..nsent /\ r[m] \notin dropped
    <3> TAKE m \in 1..(a + c)
    <3>1. CASE m \in 1..a /\ r[m] = onwire[m]
      BY <1>13, <2>1, <3>1
    <3>2. CASE m - a \in 1..c /\ r[m] = d[m - a]
      <4>1. PICK k \in 1..c : k = m - a
        BY <3>2
      <4>2. d[k] \in 1..nsent /\ \A f \in dropped : f < d[k]
        BY <1>10, <1>11, <2>1
      <4>3. d[k] \notin dropped
        BY <1>13, <4>2
      <4> QED BY <3>2, <4>1, <4>2, <4>3
    <3> QED BY <2>4, <3>1, <3>2
  <2>6. ASSUME NEW i \in 1..(a + c), NEW j \in 1..(a + c), i < j PROVE r[i] < r[j]
    <3>1. CASE i \in 1..a /\ j \in 1..a
      <4>1. r[i] = onwire[i] /\ r[j] = onwire[j]
        BY <2>4, <3>1
      <4> QED BY <1>13, <2>1, <2>6, <3>1, <4>1
    <3>2. CASE i \in 1..a /\ j - a \in 1..c
      <4>1. PICK k \in 1..c : k = j - a
        BY <3>2
      <4>2. r[i] = onwire[i] /\ r[j] = d[k]
        BY <2>4, <3>2, <4>1
      <4> QED BY <1>11, <2>1, <3>2, <4>2
    <3>3. CASE i - a \in 1..c /\ j - a \in 1..c
      <4>1. PICK k \in 1..c, l \in 1..c : k = i - a /\ l = j - a
        BY <3>3
      <4>2. r[i] = d[k] /\ r[j] = d[l] /\ k < l
        BY <2>4, <2>6, <3>3, <4>1
      <4> QED BY <1>10, <2>1, <4>2
    <3> QED BY <2>6, <3>1, <3>2, <3>3
  <2>7. ASSUME NEW b \in Live', NEW k \in DOMAIN data[b], NEW m \in 1..(a + c) PROVE r[m] < data[b][k]
    <3>1. CASE m \in 1..a /\ r[m] = onwire[m]
      BY <1>14, <2>1, <2>7, <3>1
    <3>2. CASE m - a \in 1..c /\ r[m] = d[m - a]
      <4>1. PICK l \in 1..c : l = m - a
        BY <3>2
      <4>2. d[l] < data[b][k]
        BY <1>12, <2>1, <2>7
      <4> QED BY <3>2, <4>1, <4>2
    <3> QED BY <2>4, <3>1, <3>2
  <2>8. onwire' = r
    BY <1>16 DEF r
  <2>9. Gone'
    BY <1>1, <1>14, <1>16, <2>3, <2>5, <2>6, <2>7, <2>8 DEF Gone, WireGrows
  <2>10. Types'
    BY <1>1, <1>16, <2>3, <2>8 DEF IInv, Types, TypeOK
  <2>13. Budget'
    BY <1>1, <1>2 DEF IInv, Budget
  <2> QED BY <1>5, <1>6, <1>7, <1>9, <2>9, <2>10, <2>13 DEF IInv
<1>17. CASE dropped' = dropped \cup Range(d) /\ onwire' = onwire
  <2>1. \A f \in Range(d) : \E k \in DOMAIN d : f = d[k]
    BY DEF Range
  <2>2. dropped' \subseteq 1..nsent
    BY <1>10, <1>13, <1>17, <2>1
  <2>3. \A m \in DOMAIN onwire : onwire[m] \notin Range(d)
    <3> TAKE m \in DOMAIN onwire
    <3>1. \A k \in DOMAIN d : onwire[m] \in Nat /\ d[k] \in Nat /\ onwire[m] < d[k]
      BY <1>10, <1>11, <1>13
    <3>2. \A k \in DOMAIN d : onwire[m] # d[k]
      BY <3>1
    <3> QED BY <2>1, <3>2
  <2>4. \A b \in Live' : \A k \in DOMAIN data[b] : \A f \in dropped' : f < data[b][k]
    BY <1>12, <1>14, <1>17, <2>1
  <2>5. Gone'
    BY <1>1, <1>13, <1>14, <1>17, <2>3, <2>4 DEF Gone, WireGrows
  <2>6. Types'
    BY <1>1, <1>17, <2>2 DEF IInv, Types, TypeOK
  <2>11. Budget'
    BY <1>1, <1>2 DEF IInv, Budget
  <2> QED BY <1>5, <1>6, <1>7, <1>9, <2>5, <2>6, <2>11 DEF IInv
<1> QED BY <1>16, <1>17 DEF ChannelEnd, d

\* ctci_iowrite takes the oldest buffer, or fillbuf, or sleeps.
LEMMA SearchStep == ASSUME IInv, Search PROVE IInv'
<1> USE Names
<1>1. /\ cur = IO /\ ipc = "search" /\ st[IO] = "ready" /\ cur \notin Writers /\ Pc = "idle" /\ Hand = NULL /\ ~Stale
      /\ sem = 0 /\ ibuf = NULL /\ io = "none" /\ ~Unwritten
  BY DEF IInv, Control, Search, Runs, Pc, Hand, Stale, Unwritten
<1>2. UNCHANGED <<io, pool, poolq, data, wpc, wbuf, nsent, onwire, dropped, broken>>
  BY DEF Search, poolVars, wrProc, history
<1>3. /\ filled \in Seq(Bufs) /\ fillbuf \in Bufs \cup {NULL} /\ NULL \notin Bufs /\ pidsleep \in BOOLEAN
      /\ st \in [Procs -> {"ready", "susp", "wait"}] /\ ~pidsleep
  BY <1>1, CtcWriteAssumption DEF IInv, Types, TypeOK, Control
<1>4. CASE filled = <<>> /\ fillbuf = NULL
  <2>1. pidsleep' = TRUE /\ SignalSem /\ ipc' = "sleep" /\ UNCHANGED <<ibuf, fillbuf, filled>>
    BY <1>4 DEF Search
  <2>2. sem' = 1 /\ UNCHANGED <<semq, st, cur>>
    BY <1>1, <2>1, SignalFree
  <2> QED BY <1>1, <1>2, <1>3, <2>1, <2>2, IoQuiet DEF IoPCs, Unwritten
<1>5. CASE filled # <<>> \/ fillbuf # NULL
  <2>1. ipc' = "start" /\ UNCHANGED <<pidsleep, cur, st, sem, semq>>
    BY <1>5 DEF Search, schedVars, semVars
  <2>2. Pc' = "idle" /\ Hand' = NULL /\ ~Stale' /\ Unwritten'
    BY <1>1, <2>1 DEF Pc, Hand, Stale, Unwritten
  <2>3. ASSUME ibuf' # NULL PROVE Control'
    BY <1>1, <1>2, <2>1, <2>2, <2>3 DEF IInv, Control
  <2>4. Budget'
    BY <2>2 DEF Budget
  <2>5. CASE filled # <<>>
    <3> DEFINE h == Head(filled)
    <3>1. ibuf' = h /\ filled' = Tail(filled) /\ fillbuf' = fillbuf
      BY <2>5 DEF Search
    <3>2. /\ filled' \in Seq(Bufs) /\ IsInjective(filled') /\ Range(filled') = Range(filled) \ {h}
          /\ h \in Range(filled) /\ h \in Bufs
      <4>1. Lists(filled, Range(filled), Bufs)
        BY <1>3 DEF IInv, Places, Lists
      <4>2. Lists(Tail(filled), Range(filled) \ {h}, Bufs) /\ h \in Range(filled)
        BY <2>5, <4>1, TailLists
      <4>3. h \in Bufs
        BY <1>3, <4>2 DEF Range
      <4> QED BY <3>1, <4>2, <4>3 DEF Lists
    <3>3. PICK n \in Nat : /\ n = Len(filled) /\ DOMAIN filled = 1..n /\ n >= 1 /\ filled[1] = h
                           /\ DOMAIN filled' = 1..(n - 1) /\ \A k \in 1..(n - 1) : filled'[k] = filled[k + 1]
      BY <1>3, <2>5, <3>1
    <3> HIDE DEF h
    <3>4. h # NULL /\ h # fillbuf /\ h \notin Range(pool)
      BY <1>1, <1>3, <3>2 DEF IInv, Places
    <3>5. Types'
      BY <1>2, <2>1, <3>1, <3>2 DEF IInv, Types, TypeOK, IoPCs
    <3>6. Control'
      BY <2>3, <3>1, <3>4
    <3>7. Places'
      BY <1>1, <1>2, <2>2, <3>1, <3>2, <3>4 DEF IInv, Places
    <3>8. Live' = Live
      BY <1>1, <2>2, <3>1, <3>2, <3>4 DEF Live
    <3>9. Inside'
      BY <1>1, <1>2, <2>2, <3>1, <3>2 DEF IInv, Inside
    <3>10. Between'
      <4>1. \A b, c : Before(b, c)' <=> Before(b, c)
        BY <1>2 DEF Before
      <4>2. \A i, j \in 1..n : i < j => Before(filled[i], filled[j])
        BY <3>3 DEF IInv, Between
      <4>3. ASSUME NEW i \in 1..(n - 1), NEW j \in 1..(n - 1), i < j PROVE Before(filled'[i], filled'[j])
        <5>1. PICK k \in 1..n, l \in 1..n : k = i + 1 /\ l = j + 1 /\ k < l
          BY <4>3
        <5>2. filled'[i] = filled[k] /\ filled'[j] = filled[l]
          BY <3>3, <5>1
        <5> QED BY <4>2, <5>1, <5>2
      <4>4. (\A i, j \in DOMAIN filled : i < j => Before(filled[i], filled[j]))'
        BY <3>3, <4>1, <4>3
      <4>5. (fillbuf # NULL => \A b \in Range(filled) : Before(b, fillbuf))'
        BY <1>1, <3>1, <3>2, <4>1 DEF IInv, Between
      <4>6. ASSUME NEW b \in Range(filled), b # h PROVE Before(h, b)
        <5>1. PICK k \in 1..n : b = filled[k]
          BY <3>3 DEF Range
        <5>2. 1 \in 1..n /\ 1 < k
          BY <3>3, <4>6, <5>1
        <5> QED BY <3>3, <4>2, <5>1, <5>2
      <4>7. fillbuf # NULL => Before(h, fillbuf)
        BY <1>1, <3>2 DEF IInv, Between
      <4>8. \A b \in Live : b # h => Before(h, b)
        BY <1>1, <4>6, <4>7 DEF Live
      <4> QED BY <3>1, <3>8, <4>1, <4>4, <4>5, <4>8 DEF Between
    <3>11. Gone'
      BY <1>2, <3>8 DEF IInv, Gone, WireGrows
    <3> QED BY <2>4, <3>5, <3>6, <3>7, <3>9, <3>10, <3>11 DEF IInv
  <2>6. CASE filled = <<>> /\ fillbuf # NULL
    <3>1. ibuf' = fillbuf /\ fillbuf' = NULL /\ filled' = <<>> /\ Range(filled) = {} /\ Range(filled') = {}
      BY <2>6 DEF Search, Range
    <3>2. Types'
      BY <1>2, <1>3, <2>1, <2>6, <3>1 DEF IInv, Types, TypeOK, IoPCs
    <3>3. Control'
      BY <2>3, <2>6, <3>1
    <3>4. Places'
      BY <1>1, <1>2, <1>3, <2>2, <2>6, <3>1 DEF IInv, Places
    <3>5. Live' = Live /\ Live' = {ibuf'}
      BY <1>1, <2>2, <2>6, <3>1 DEF Live
    <3>6. Inside'
      BY <1>1, <1>2, <2>2, <3>1 DEF IInv, Inside
    <3>7. Between'
      BY <3>1, <3>5 DEF Between
    <3>8. Gone'
      BY <1>2, <3>5 DEF IInv, Gone, WireGrows
    <3> QED BY <2>4, <3>2, <3>3, <3>4, <3>6, <3>7, <3>8 DEF IInv
  <2> QED BY <1>5, <2>5, <2>6
<1> QED BY <1>4, <1>5

\* The written buffer goes back to the pool.
LEMMA FreeWrittenStep == ASSUME IInv, FreeWritten PROVE IInv'
<1> USE Names
<1>1. /\ cur = IO /\ ipc = "free" /\ st[IO] = "ready" /\ cur \notin Writers /\ Pc = "idle" /\ Hand = NULL /\ ~Stale
      /\ sem = 0 /\ ibuf # NULL /\ io = "none" /\ ~Unwritten /\ ~pidsleep /\ poolq = <<>>
  BY DEF IInv, Control, FreeWritten, Runs, Pc, Hand, Stale, Unwritten
<1>2. /\ UNCHANGED <<io, sem, semq, fillbuf, filled, pidsleep, wpc, wbuf, nsent, onwire, dropped, data, poolq, cur, st>>
      /\ pool' = <<ibuf>> \o pool /\ ibuf' = NULL /\ ipc' = "search" /\ broken' \in BOOLEAN
  BY <1>1 DEF FreeWritten, schedVars, semVars, statVars, wrProc, history
<1>3. ibuf \in Bufs /\ NULL \notin Bufs /\ ibuf \notin Range(pool) \cup Range(filled) /\ ibuf # fillbuf
  BY <1>1, CtcWriteAssumption DEF IInv, Types, Places
<1>4. Pc' = "idle" /\ Hand' = NULL /\ ~Stale' /\ ~Unwritten'
  BY <1>1, <1>2 DEF Pc, Hand, Stale, Unwritten
<1>5. pool' \in Seq(Bufs) /\ IsInjective(pool') /\ Range(pool') = Range(pool) \cup {ibuf}
  <2>1. pool \in Seq(Bufs) /\ IsInjective(pool)
    BY DEF IInv, Types, TypeOK, Places
  <2> QED BY <1>2, <1>3, <2>1, PushLists
<1>7. Types'
  BY <1>2, <1>5 DEF IInv, Types, TypeOK, IoPCs
<1>8. Control'
  BY <1>1, <1>2, <1>4 DEF IInv, Control
<1>9. Places'
  <2>1. NULL \notin Range(pool') \cup Range(filled)
    BY <1>3, <1>5 DEF IInv, Types, TypeOK, Range
  <2>2. fillbuf = NULL \/ fillbuf \notin Range(pool') \cup Range(filled)
    BY <1>1, <1>3, <1>5 DEF IInv, Places
  <2> QED BY <1>1, <1>2, <1>3, <1>4, <1>5, <2>1, <2>2 DEF IInv, Places
<1>10. Live' = Live /\ Live = (Range(filled) \cup {fillbuf}) \ {NULL}
  BY <1>1, <1>2, <1>4 DEF Live
<1>12. Inside'
  BY <1>1, <1>2, <1>4 DEF IInv, Inside
<1>13. Between'
  BY <1>1, <1>2, <1>4, <1>10 DEF IInv, Between, Before
<1>14. Gone'
  BY <1>2, <1>10 DEF IInv, Gone, WireGrows
<1>15. Budget'
  BY <1>4 DEF Budget
<1> QED BY <1>7, <1>8, <1>9, <1>12, <1>13, <1>14, <1>15 DEF IInv

-----------------------------------------------------------------------------
(* The theorems.                                                           *)

\* Two lists with nothing in common, one behind the other.
LEMMA ConcatLists ==
    ASSUME NEW T, NEW p \in Seq(T), NEW q \in Seq(T), IsInjective(p), IsInjective(q),
           Range(p) \cap Range(q) = {}
    PROVE  Range(p \o q) = Range(p) \cup Range(q) /\ IsInjective(p \o q)
<1> DEFINE r == p \o q
<1>1. PICK a \in Nat, c \in Nat : a = Len(p) /\ c = Len(q) /\ DOMAIN p = 1..a /\ DOMAIN q = 1..c
  OBVIOUS
<1>2. DOMAIN r = 1..(a + c) /\ (\A k \in 1..a : r[k] = p[k]) /\ (\A k \in 1..c : r[k + a] = q[k])
  BY <1>1
<1>3. \A m \in 1..(a + c) : (m \in 1..a /\ r[m] = p[m]) \/ (m - a \in 1..c /\ r[m] = q[m - a])
  BY <1>1
<1> HIDE DEF r
<1>4. (\A k \in 1..a : p[k] \in Range(p)) /\ (\A k \in 1..c : q[k] \in Range(q))
  BY <1>1 DEF Range
<1>5. ASSUME NEW i \in 1..(a + c), NEW j \in 1..(a + c), r[i] = r[j] PROVE i = j
  <2>1. CASE i \in 1..a /\ r[i] = p[i] /\ j \in 1..a /\ r[j] = p[j]
    BY <1>1, <1>5, <2>1 DEF IsInjective
  <2>2. CASE i - a \in 1..c /\ r[i] = q[i - a] /\ j - a \in 1..c /\ r[j] = q[j - a]
    <3>1. i - a = j - a
      BY <1>1, <1>5, <2>2 DEF IsInjective
    <3> QED BY <3>1
  <2>3. CASE i \in 1..a /\ r[i] = p[i] /\ j - a \in 1..c /\ r[j] = q[j - a]
    BY <1>4, <1>5, <2>3
  <2>4. CASE i - a \in 1..c /\ r[i] = q[i - a] /\ j \in 1..a /\ r[j] = p[j]
    BY <1>4, <1>5, <2>4
  <2> QED BY <1>3, <2>1, <2>2, <2>3, <2>4
<1>6. IsInjective(r)
  BY <1>2, <1>5 DEF IsInjective
<1>7. ASSUME NEW x \in Range(r) PROVE x \in Range(p) \cup Range(q)
  <2>1. PICK m \in 1..(a + c) : x = r[m]
    BY <1>2 DEF Range
  <2> QED BY <1>3, <1>4, <2>1
<1>8. ASSUME NEW x \in Range(p) \cup Range(q) PROVE x \in Range(r)
  <2>1. CASE x \in Range(p)
    <3>1. PICK k \in 1..a : x = p[k]
      BY <1>1, <2>1 DEF Range
    <3>2. k \in DOMAIN r /\ r[k] = x
      BY <1>2, <3>1
    <3> QED BY <3>2 DEF Range
  <2>2. CASE x \in Range(q)
    <3>1. PICK k \in 1..c : x = q[k]
      BY <1>1, <2>2 DEF Range
    <3>2. k + a \in DOMAIN r /\ r[k + a] = x
      BY <1>2, <3>1
    <3> QED BY <3>2 DEF Range
  <2> QED BY <1>8, <2>1, <2>2
<1>9. Range(r) = Range(p) \cup Range(q)
  BY <1>7, <1>8
<1> QED BY <1>6, <1>9 DEF r

\* At the start every buffer is in the pool.
LEMMA InitInvariant == Init => IInv
<1> SUFFICES ASSUME Init PROVE IInv
  OBVIOUS
<1> USE Names, CtcWriteAssumption
<1>1. pool \in Seq(Bufs) /\ IsInjective(pool) /\ Range(pool) = Bufs
  BY WholePool DEF Init
<1>2. Pc = "idle" /\ Hand = NULL /\ ~Stale /\ ~Unwritten
  BY DEF Init, Pc, Hand, Stale, Unwritten
<1>3. Types
  <2>1. <<>> \in Seq(1..MaxFrames) /\ <<>> \in Seq(Procs) /\ <<>> \in Seq(Writers) /\ <<>> \in Seq(Bufs)
        /\ <<>> \in Seq(Nat)
    OBVIOUS
  <2>2. data \in [Bufs -> Seq(1..MaxFrames)] /\ st \in [Procs -> {"ready", "susp", "wait"}]
    BY <2>1 DEF Init
  <2>3. wpc \in [Writers -> WrPCs] /\ wbuf \in [Writers -> Bufs \cup {NULL}]
    BY DEF Init, WrPCs
  <2>4. nsent \in 0..MaxFrames /\ onwire \in Seq(Nat) /\ dropped \in SUBSET (1..nsent)
    BY <2>1 DEF Init
  <2>5. TypeOK
    <3>1. sem \in Int /\ sem <= 1
      BY DEF Init
    <3>2. cur \in Procs \cup {"other", "hook", "disp"} /\ io \in {"none", "pend", "complete"} /\ pidsleep \in BOOLEAN
      BY DEF Init
    <3>3. fillbuf \in Bufs \cup {NULL} /\ filled \in Seq(Bufs) /\ semq \in Seq(Procs) /\ poolq \in Seq(Writers)
      BY <2>1 DEF Init
    <3> QED BY <1>1, <2>2, <3>1, <3>2, <3>3 DEF TypeOK
  <2> QED BY <2>3, <2>4, <2>5 DEF Init, Types, IoPCs
<1>4. Control
  BY <1>2 DEF Init, Control
<1>5. Range(filled) = {} /\ DOMAIN filled = {} /\ DOMAIN onwire = {} /\ IsInjective(filled) /\ fillbuf = NULL
  BY DEF Init, Range, IsInjective
<1>6. Places
  BY <1>1, <1>2, <1>5 DEF Init, Places
<1>7. \A b \in Bufs : data[b] = <<>>
  BY DEF Init
<1>8. Inside
  BY <1>2, <1>5, <1>7 DEF Inside
<1>9. Between
  BY <1>2, <1>5 DEF Between
<1>10. Live = {} /\ WireGrows
  BY <1>2, <1>5 DEF Live, Init, WireGrows
<1>11. Gone
  BY <1>5, <1>10 DEF Gone
<1>12. Budget
  BY <1>2 DEF Budget
<1> QED BY <1>3, <1>4, <1>6, <1>8, <1>9, <1>11, <1>12 DEF IInv

\* Every step of a writer, the I/O process and the hook keeps the invariant,
\* but the one that finds the pool empty.
LEMMA NextInvariant ==
    ASSUME IInv, [Next]_vars, ~dry'
    PROVE  IInv'
<1>1. CASE UNCHANGED vars
  <2>1. UNCHANGED <<cur, st, io, sem, semq, pool, poolq, data, fillbuf, filled, pidsleep, ipc, ibuf,
                    wpc, wbuf, nsent, onwire, dropped, broken>>
    BY <1>1 DEF vars, schedVars, semVars, poolVars, statVars, ioProc, wrProc, history
  <2> QED BY <2>1, SMTT(40) DEF IInv, Types, TypeOK, Control, Places, Inside, Between, Gone, Budget,
             Live, Before, Unwritten,
                      Stale, Pc, Hand, WireGrows
<1>2. CASE Kernel \/ OtherYields
  BY <1>2, HookStep, DispatchStep, OtherYieldsStep DEF Kernel
<1>3. CASE ChannelEnd
  BY <1>3, ChannelEndStep
<1>4. CASE IoProcess
  BY <1>4, IoQuietSteps, SearchStep, FreeWrittenStep DEF IoProcess
<1>5. ASSUME NEW w \in Writers, Write(w) \/ Pause(w) PROVE IInv'
  BY <1>5, WriteStart, PauseStep
<1>6. ASSUME NEW w \in Writers, WriteStep(w) PROVE IInv'
  BY <1>6, LookStep, FreshStep, TakeStep, HangStep, PutStep, ReturnStep DEF WriteStep
<1> QED BY <1>1, <1>2, <1>3, <1>4, <1>5, <1>6 DEF Next

\* An empty pool is remembered.
LEMMA DryStays == ASSUME dry, [Next]_vars PROVE dry'
BY DEF Next, vars, Kernel, Hook, Dispatch, OtherYields, ChannelEnd, IoProcess, Lock, Search, Sleep,
   Woken, Awake, StartWrite, SuspendIO, PostWrite, FreeWritten, Write, Pause, WriteStep, Look, Fresh,
   Take, Hang, Put, Return

\* The invariant of the write half of the CTC driver, however many writers,
\* buffers and frames per buffer there are, and whether or not writers yield
\* between two frames: it holds until ctwfresh first meets an empty pool.
THEOREM CtcWriteInvariant == Spec => [](dry \/ IInv)
<1>1. Init => dry \/ IInv
  BY InitInvariant
<1>2. (dry \/ IInv) /\ [Next]_vars => (dry \/ IInv)'
  BY NextInvariant, DryStays
<1> QED BY <1>1, <1>2, PTL DEF Spec

\* As long as ctwfresh has found a buffer in the pool every time, frames leave
\* in the order in which ctci_write took them, each once, although ctci_iowrite
\* takes the buffer ctci_write is filling away from it when filled[] is empty,
\* and I/O errors drop whole buffers.
THEOREM WriteOrderCorrect == Spec => []InOrder
<1>1. dry \/ IInv => InOrder
  BY DEF IInv, Gone, InOrder
<1> QED BY <1>1, CtcWriteInvariant, PTL

\* As long as ctwfresh has found a buffer in the pool every time, no buffer is
\* lost, hung up twice or freed twice, and fillbuf is a queued buffer only
\* between ctci_write's look at it and the hanging of the next one.
THEOREM OnePlaceCorrect == Spec => [](dry \/ OnePlace)
<1>1. ASSUME IInv PROVE OnePlace
  <2>1. /\ pool \in Seq(Bufs) /\ filled \in Seq(Bufs) /\ IsInjective(pool) /\ IsInjective(filled)
        /\ Range(pool) \cap Range(filled) = {} /\ TypeOK
    BY <1>1 DEF IInv, Types, TypeOK, Places
  <2>2. Range(pool \o filled) = Range(pool) \cup Range(filled) /\ IsInjective(pool \o filled)
    BY <2>1, ConcatLists
  <2>3. Hand # NULL => \E w \in Writers : wbuf[w] = Hand
    BY DEF Hand
  <2>4. \A b \in Bufs : b \in Range(pool \o filled) \cup {fillbuf, ibuf} \/ \E w \in Writers : wbuf[w] = b
    <3> TAKE b \in Bufs
    <3>1. b \in Range(pool) \cup Range(filled) \cup {fillbuf, ibuf, Hand} /\ b # NULL
      BY <1>1, CtcWriteAssumption DEF IInv, Places
    <3> QED BY <2>2, <2>3, <3>1
  <2>5. Stale => \E w \in Writers : wpc[w] \in {"fresh", "take", "hang"}
    BY DEF Stale, Pc
  <2>6. fillbuf \in Range(pool \o filled) \cup {ibuf} =>
          fillbuf = NULL \/ \E w \in Writers : wpc[w] \in {"fresh", "take", "hang"}
    BY <1>1, <2>2, <2>5 DEF IInv, Places
  <2>7. ibuf \notin Range(pool \o filled)
    BY <1>1, <2>2 DEF IInv, Places
  <2> QED BY <2>1, <2>2, <2>4, <2>6, <2>7 DEF OnePlace
<1>2. dry \/ IInv => dry \/ OnePlace
  BY <1>1
<1> QED BY <1>2, CtcWriteInvariant, PTL
=============================================================================

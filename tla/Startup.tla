------------------------------- MODULE Startup -------------------------------
(***************************************************************************)
(* A job of MVS-Xinu from sysinit() to its end: authorization, the XGD in  *)
(* common storage that the subsystem's SGD points to, the configuration    *)
(* file, the device table, the two halves of every CTC with their I/O      *)
(* processes, and the ways in which the job ends.                          *)
(*                                                                         *)
(* The SGD and the XGDs survive the job, everything else is private to it. *)
(* A line of the configuration file is a sequence of tokens; numbers,      *)
(* addresses and DD names stand for themselves, as dot2ip and strtol read  *)
(* them.  Interface numbers are those of Config.nif.                       *)
(***************************************************************************)
EXTENDS Integers, Sequences, FiniteSets, SequencesExt, FiniteSetsExt

CONSTANTS
    SuLines,        \* lines a configuration file may have
    SuUnits,        \* unit of each DD of the job that an OPEN succeeds for
    Neth,           \* CTC devices
    SuNdg, SuNtcp,  \* devices of the classes dg and tcp
    SuMaxLines,     \* bound: lines of the file
    SuMaxJobs       \* bound: jobs

ASSUME SuAssumption ==
    /\ Neth \in 1..3 /\ SuNdg \in Nat /\ SuNtcp \in Nat
    /\ SuMaxLines \in Nat /\ SuMaxJobs \in Nat /\ "" \notin DOMAIN SuUnits
    /\ SuLines \subseteq Seq(STRING)

VARIABLES
    sgd,            \* sgd_xgd: the job whose XGD it points to, or 0
    xgds,           \* XGDs in common storage, by the job that got them
    suJob,          \* the job that runs or ran last
    suPc, suEnd,    \* where it stands, and how it ended
    suSwap,         \* whether its address space may be swapped
    suProcs,        \* numproc
    shutxinu,
    Config,
    suFile, suTok,  \* lines read; tokens of the line still to be handled
    suIface, suHalf,\* the statics iface and phalf of xfig_iface
    suDev,          \* next entry of devtab
    ctclink,        \* the chain of ctdevs anchored in the job's XGD
    ctcdev          \* per CTC its ctcinit and the halves of the pair

suParse == <<Config, suFile, suTok, suIface, suHalf>>
suCtc == <<suDev, ctclink, ctcdev>>
suMvs == <<sgd, xgds, suJob, suSwap>>
suVars == <<suMvs, suPc, suEnd, suProcs, shutxinu, suParse, suCtc>>

-----------------------------------------------------------------------------
(* Data of the program.                                                    *)

Nifs == 0..3
fignif(e, ip, mask, rdd, rcuu, wdd, wcuu) ==
    [type |-> "LOOP", enabled |-> e, dfgw |-> FALSE, ip |-> ip, mask |-> mask, gwip |-> "0",
     readdd |-> rdd, readcuu |-> rcuu, writedd |-> wdd, writecuu |-> wcuu]

FigDefaults ==
    [megate |-> FALSE,
     nif |-> [n \in Nifs |->
        CASE n = 0 -> fignif(TRUE, "127.0.0.1", "255.0.0.0", "LOOP", "0", "LOOP", "0")
          [] n = 1 -> [fignif(TRUE, "192.168.200.1", "255.255.255.0", "CTC500", "500", "CTC501", "501")
                         EXCEPT !.gwip = "192.168.0.1", !.dfgw = TRUE]
          [] n = 2 -> fignif(FALSE, "10.11.12.1", "255.0.0.0", "CTC502", "504", "CTC5053", "505")
          [] n = 3 -> fignif(FALSE, "192.168.254.30", "255.255.255.0", "CTC504", "510", "CTC505", "511")]]

(* devtab: what the initialization of an entry needs of it.                *)
DevOf(init, n) == [i \in 1..n |-> [init |-> init, minor |-> i - 1]]
DevConsole == DevOf("ionull", 1)
DevEth == DevOf("ctci_init", Neth)
DevUdp == DevOf("ionull", 1)
DevDg == DevOf("dginit", SuNdg)
DevTcpm == DevOf("ionull", 1)
DevTcp == DevOf("tcpinit", SuNtcp)
devtab == DevConsole \o DevEth \o DevUdp \o DevDg \o DevTcpm \o DevTcp

Halves == {"read", "write"}
ctdev == [iopid |-> "none", sem |-> 0, flag1 |-> "none", cuu |-> "0", ddname |-> ""]
ctblk == [ctcinit |-> FALSE, read |-> ctdev, write |-> ctdev]

SuFresh ==      \* the private storage of a job that starts
    /\ suProcs' = 0 /\ shutxinu' = FALSE
    /\ Config' = FigDefaults /\ suFile' = <<>> /\ suTok' = <<>>
    /\ suIface' = 0 /\ suHalf' = <<>>
    /\ suDev' = 1 /\ ctclink' = <<>> /\ ctcdev' = [x \in 0..(Neth - 1) |-> ctblk]

SuInit ==
    /\ sgd = 0 /\ xgds = {} /\ suJob = 0 /\ suPc = "ended" /\ suEnd = "none" /\ suSwap = TRUE
    /\ suProcs = 0 /\ shutxinu = FALSE
    /\ Config = FigDefaults /\ suFile = <<>> /\ suTok = <<>> /\ suIface = 0 /\ suHalf = <<>>
    /\ suDev = 1 /\ ctclink = <<>> /\ ctcdev = [x \in 0..(Neth - 1) |-> ctblk]

SuAt(l) == suPc = l
SuGo(l) == suPc' = l /\ UNCHANGED suEnd

(* exit, abend or return from main(): the job is gone, what it got from    *)
(* common storage stays as it is.                                          *)
SuLeave(how) == suPc' = "ended" /\ suEnd' = how

SuPanic == SuLeave("abend") /\ UNCHANGED <<suMvs, suProcs, shutxinu, suParse, suCtc>>

-----------------------------------------------------------------------------
(* sysinit()                                                               *)

SuStart ==
    /\ SuAt("ended") /\ suJob < SuMaxJobs
    /\ suJob' = suJob + 1 /\ suPc' = "auth" /\ suEnd' = "none" /\ suSwap' = TRUE
    /\ SuFresh
    /\ UNCHANGED <<sgd, xgds>>

\* setvbuf and testauth, supervisor state, SYSEVENT DONTSWAP
SysAuth ==
    /\ SuAt("auth")
    /\ \/ SuLeave("exit") /\ UNCHANGED suSwap
       \/ SuGo("sgd") /\ suSwap' = FALSE
    /\ UNCHANGED <<sgd, xgds, suJob, suProcs, shutxinu, suParse, suCtc>>

findsgd == {"sgd", "NULL"}

\* no subsystem, or an XGD for the SGD, cleared
SysXgd ==
    /\ SuAt("sgd")
    /\ \E r \in findsgd :
        IF r = "NULL" THEN SuLeave("exit") /\ UNCHANGED <<sgd, xgds>>
        ELSE SuGo("init") /\ sgd' = suJob /\ xgds' = xgds \cup {suJob}
    /\ UNCHANGED <<suJob, suSwap, suProcs, shutxinu, suParse, suCtc>>

\* meminit (panics without storage), queueinit, procinit, seminit, clkinit;
\* NullDisp.  numproc counts sysinit itself until it is through.
SysInit ==
    /\ SuAt("init")
    /\ \/ SuPanic
       \/ /\ SuGo("xconfig") /\ suProcs' = 2
          /\ UNCHANGED <<suMvs, shutxinu, suParse, suCtc>>

xconfig ==
    /\ SuAt("xconfig") /\ SuGo("xfigger")
    /\ Config' = FigDefaults
    /\ UNCHANGED <<suMvs, suProcs, shutxinu, suFile, suTok, suIface, suHalf, suCtc>>

-----------------------------------------------------------------------------
(* The configuration file.                                                 *)

MAX_TOKENS == 10

\* the test comes after a token has been stored: one more than MAX_TOKENS
tokenize(line) == SubSeq(line, 1, IF Len(line) > MAX_TOKENS THEN MAX_TOKENS + 1 ELSE Len(line))

xfigger ==
    /\ \/ SuAt("xfigger") /\ (SuGo("lines") \/ SuGo("devices"))
       \/ SuAt("lines") /\ SuGo("devices")
    /\ UNCHANGED <<suMvs, suProcs, shutxinu, suParse, suCtc>>

\* comments, blank lines and other statements are ignored
xfigline(line) ==
    /\ SuAt("lines") /\ Len(suFile) < SuMaxLines
    /\ suFile' = Append(suFile, line)
    /\ IF line # <<>> /\ line[1] \in {"iface", "gateway"}
         THEN SuGo(line[1]) /\ suTok' = tokenize(line)
         ELSE UNCHANGED <<suPc, suEnd, suTok>>
    /\ UNCHANGED <<suMvs, suProcs, shutxinu, Config, suIface, suHalf, suCtc>>

FigOn == {"enable", "enabled"}
FigOff == {"disable", "disabled"}
FigTypes == {"LOOP", "CTCI", "LCS"}

FigIs(words) == suTok # <<>> /\ suTok[1] \in words
FigSet(f, v) == Config' = [Config EXCEPT !.nif[suIface][f] = v]
FigNext == suTok' = Tail(suTok) /\ UNCHANGED <<suPc, suEnd>>

FigDone ==
    /\ suPc \in {"iface", "gateway"} /\ suTok = <<>>
    /\ SuGo("lines")
    /\ UNCHANGED <<suMvs, suProcs, shutxinu, suParse, suCtc>>

\* the statement's own name is a token like any other
xfig_gate ==
    /\ SuAt("gateway") /\ suTok # <<>> /\ FigNext
    /\ Config' = [Config EXCEPT !.megate = IF FigIs(FigOn) THEN TRUE
                                           ELSE IF FigIs(FigOff) THEN FALSE ELSE @]
    /\ UNCHANGED <<suMvs, suProcs, shutxinu, suFile, suIface, suHalf, suCtc>>

FigTakesOperand == {"iface", "type", "ip", "mask", "defaultgw", "ddname", "cuu"}
FigKeywords == FigOn \cup FigOff \cup Halves \cup FigTakesOperand
FigUnknown ==
    \/ suTok[1] \in {"ddname", "cuu"} /\ suHalf = <<>>
    \/ suTok[1] \notin FigKeywords

(* Tokens without an operand: enable and disable, read and write, and what *)
(* is not recognized.                                                      *)
xfig_ifaceWord ==
    /\ SuAt("iface") /\ suTok # <<>> /\ FigNext
    /\ \/ FigIs(FigOn) /\ FigSet("enabled", TRUE) /\ UNCHANGED suHalf
       \/ FigIs(FigOff) /\ FigSet("enabled", FALSE) /\ UNCHANGED suHalf
       \/ FigIs(Halves) /\ suHalf' = <<suIface, suTok[1]>> /\ UNCHANGED Config
       \/ FigUnknown /\ UNCHANGED <<Config, suHalf>>
    /\ UNCHANGED <<suMvs, suProcs, shutxinu, suFile, suIface, suCtc>>

(* A keyword that ends the line has the null pointer as its operand; the   *)
(* loop then steps over it, to a pointer of all ones, which abends the     *)
(* job, or past the end of tokens[].                                       *)
FigOperand == IF Len(suTok) > 1 THEN suTok[2] ELSE "0"
FigPast ==
    IF Len(suTok) > 1 THEN suTok' = Tail(Tail(suTok)) /\ UNCHANGED <<suPc, suEnd>>
    ELSE /\ suTok' = <<>>
         /\ \/ SuLeave("abend")
            \/ Len(Last(suFile)) > MAX_TOKENS /\ UNCHANGED <<suPc, suEnd>>

NifNames == <<"0", "1", "2", "3">>
FigNumber == CHOOSE n \in Nifs : NifNames[n + 1] = FigOperand

(* Mutant: iface leaves phalf at the CTC half of the line before.          *)
xfig_ifaceNumberHalf ==
    /\ SuAt("iface") /\ FigIs({"iface"}) /\ FigPast
    /\ suIface' = FigNumber
    /\ UNCHANGED <<suMvs, suProcs, shutxinu, Config, suHalf, suFile, suCtc>>

xfig_ifaceNumber ==
    /\ SuAt("iface") /\ FigIs({"iface"}) /\ FigPast
    /\ suIface' = FigNumber /\ suHalf' = <<>>
    /\ UNCHANGED <<suMvs, suProcs, shutxinu, Config, suFile, suCtc>>

xfig_ifaceType ==
    /\ SuAt("iface") /\ FigIs({"type"}) /\ FigPast
    /\ IF FigOperand \in FigTypes THEN FigSet("type", FigOperand) ELSE FigSet("enabled", FALSE)
    /\ UNCHANGED <<suMvs, suProcs, shutxinu, suFile, suIface, suHalf, suCtc>>

xfig_ifaceAddr ==
    /\ SuAt("iface") /\ FigPast
    /\ \/ FigIs({"ip", "mask"}) /\ FigSet(suTok[1], FigOperand)
       \/ /\ FigIs({"defaultgw"})
          /\ Config' = [Config EXCEPT !.nif[suIface].gwip = FigOperand, !.nif[suIface].dfgw = TRUE]
    /\ UNCHANGED <<suMvs, suProcs, shutxinu, suFile, suIface, suHalf, suCtc>>

HalfField ==
    [read |-> [ddname |-> "readdd", cuu |-> "readcuu"],
     write |-> [ddname |-> "writedd", cuu |-> "writecuu"]]

xfig_ifaceHalf ==
    /\ SuAt("iface") /\ FigIs({"ddname", "cuu"}) /\ suHalf # <<>> /\ FigPast
    /\ Config' = [Config EXCEPT !.nif[suHalf[1]][HalfField[suHalf[2]][suTok[1]]] = FigOperand]
    /\ UNCHANGED <<suMvs, suProcs, shutxinu, suFile, suIface, suHalf, suCtc>>

xfig_iface == \/ xfig_ifaceWord \/ xfig_ifaceNumber \/ xfig_ifaceType
              \/ xfig_ifaceAddr \/ xfig_ifaceHalf

-----------------------------------------------------------------------------
(* The devices, in the order of devtab.                                    *)

DevNow == devtab[suDev]
CtcNow == DevNow.minor

\* ionull, dginit, tcpinit; a CTC whose interface is disabled
xdevinit ==
    /\ SuAt("devices") /\ suDev <= Len(devtab)
    /\ \/ DevNow.init # "ctci_init" /\ UNCHANGED ctcdev
       \/ /\ DevNow.init = "ctci_init" /\ ~Config.nif[CtcNow + 1].enabled
          /\ ctcdev' = [ctcdev EXCEPT ![CtcNow].ctcinit = TRUE]
    /\ suDev' = suDev + 1
    /\ UNCHANGED <<suMvs, suPc, suEnd, suProcs, shutxinu, suParse, ctclink>>

CtcHalf(h) ==
    [ctdev EXCEPT !.iopid = "created",
                  !.cuu = Config.nif[CtcNow + 1][HalfField[h].cuu],
                  !.ddname = Config.nif[CtcNow + 1][HalfField[h].ddname]]
CtcReady == [ctcinit |-> TRUE, read |-> CtcHalf("read"), write |-> CtcHalf("write")]

(* Mutant: the pair is anchored in the XGD, whatever was there.            *)
ctci_initAnchor ==
    /\ SuAt("devices") /\ suDev <= Len(devtab)
    /\ DevNow.init = "ctci_init" /\ Config.nif[CtcNow + 1].enabled
    /\ ctclink' = <<<<CtcNow, "read">>, <<CtcNow, "write">>>>
    /\ ctcdev' = [ctcdev EXCEPT ![CtcNow] = CtcReady]
    /\ suProcs' = suProcs + 2 /\ SuGo("ctcread")
    /\ UNCHANGED <<suMvs, shutxinu, suParse, suDev>>

(* ctci_init() up to its first resume: the pair goes to the end of the     *)
(* chain, the semaphores are held for the I/O processes, which are created.*)
ctci_init ==
    /\ SuAt("devices") /\ suDev <= Len(devtab)
    /\ DevNow.init = "ctci_init" /\ Config.nif[CtcNow + 1].enabled
    /\ ctclink' = ctclink \o <<<<CtcNow, "read">>, <<CtcNow, "write">>>>
    /\ ctcdev' = [ctcdev EXCEPT ![CtcNow] = CtcReady]
    /\ suProcs' = suProcs + 2 /\ SuGo("ctcread")
    /\ UNCHANGED <<suMvs, shutxinu, suParse, suDev>>

\* iohook() in the resched of resume(): every completed I/O on the chain;
\* the process it resumes starts the next one when it has a buffer
Hooked(d) == IF d.flag1 = "complete" THEN [d EXCEPT !.flag1 = "none"] ELSE d
SuIohook(devs) ==
    [x \in DOMAIN devs |-> IF <<x, "read">> \in ToSet(ctclink)
                           THEN [devs[x] EXCEPT !.read = Hooked(@), !.write = Hooked(@)]
                           ELSE devs[x]]

\* resume(iopid): the process opens its DCB, makes its pool and signals the
\* device; ctci_ioread goes on to its first read, ctci_iowrite to sleep
CtcStarted(h) ==
    SuIohook([ctcdev EXCEPT ![CtcNow][h].iopid = "runs", ![CtcNow][h].sem = 1,
                            ![CtcNow][h].flag1 = IF h = "read" THEN "pend" ELSE "none"])

ctci_resume(h) ==
    /\ SuAt(IF h = "read" THEN "ctcread" ELSE "ctcwrite")
    /\ \/ SuPanic
       \/ /\ ctcdev[CtcNow][h].ddname \in DOMAIN SuUnits
          /\ ctcdev' = CtcStarted(h)
          /\ IF h = "read" THEN SuGo("ctcwrite") /\ UNCHANGED suDev
             ELSE SuGo("devices") /\ suDev' = suDev + 1
          /\ UNCHANGED <<suMvs, suProcs, shutxinu, suParse, ctclink>>

\* netstart is created and resumed, and sysinit no longer counts
SysNet ==
    /\ SuAt("devices") /\ suDev > Len(devtab) /\ SuGo("run")
    /\ ctcdev' = SuIohook(ctcdev)
    /\ UNCHANGED <<suMvs, suProcs, shutxinu, suParse, suDev, ctclink>>

-----------------------------------------------------------------------------
(* The running system and its end.                                         *)

(* IGG019X8 looks for the unit whose I/O ended along the chain, by the cuu *)
(* of the configuration file, and abends when no ctdev has it.             *)
SuChannelEnd(x) ==
    /\ ~SuAt("ended") /\ ctcdev[x].read.flag1 = "pend"
    /\ LET unit == SuUnits[ctcdev[x].read.ddname]
           has(i) == ctcdev[ctclink[i][1]][ctclink[i][2]].cuu = unit
       IN  \/ (\A i \in DOMAIN ctclink : ~has(i)) /\ SuPanic
           \/ \E i \in DOMAIN ctclink :
                /\ has(i) /\ \A j \in 1..(i - 1) : ~has(j)
                /\ ctcdev' = [ctcdev EXCEPT ![ctclink[i][1]][ctclink[i][2]].flag1 = "complete"]
                /\ UNCHANGED <<suMvs, suPc, suEnd, suProcs, shutxinu, suParse, suDev, ctclink>>

\* ctci_ioread() has a buffer for its next read
SuNextRead(x) ==
    /\ ~SuAt("ended") /\ ctcdev[x].read.iopid = "runs" /\ ctcdev[x].read.flag1 = "none"
    /\ ctcdev' = [ctcdev EXCEPT ![x].read.flag1 = "pend"]
    /\ UNCHANGED <<suMvs, suPc, suEnd, suProcs, shutxinu, suParse, suDev, ctclink>>

SuResched ==
    /\ SuAt("run")
    /\ ctcdev' = SuIohook(ctcdev) /\ ctcdev' # ctcdev
    /\ UNCHANGED <<suMvs, suPc, suEnd, suProcs, shutxinu, suParse, suDev, ctclink>>

(* Mutant: xdone() frees the XGD and leaves the SGD as it was.             *)
xdoneKept ==
    /\ xgds' = xgds \ {sgd} /\ suSwap' = TRUE /\ suProcs' = 0
    /\ SuLeave("xdone") /\ UNCHANGED sgd

xdone ==
    /\ sgd' = 0 /\ xgds' = xgds \ {sgd} /\ suSwap' = TRUE /\ suProcs' = 0
    /\ SuLeave("xdone")

\* killpid() of any process: the last one ends the job
SuKill ==
    /\ SuAt("run") /\ suProcs > 0
    /\ IF suProcs = 1 THEN xdone
       ELSE suProcs' = suProcs - 1 /\ UNCHANGED <<sgd, xgds, suSwap, suPc, suEnd>>
    /\ UNCHANGED <<suJob, shutxinu, suParse, suCtc>>

\* netproc() whose read fails
SuShut ==
    /\ SuAt("run") /\ ~shutxinu /\ shutxinu' = TRUE
    /\ UNCHANGED <<suMvs, suPc, suEnd, suProcs, suParse, suCtc>>

\* nulluser() returns to main(), which returns
SuMain ==
    /\ SuAt("run") /\ shutxinu /\ SuLeave("return")
    /\ UNCHANGED <<suMvs, suProcs, shutxinu, suParse, suCtc>>

SuNext ==
    \/ SuStart \/ SysAuth \/ SysXgd \/ SysInit
    \/ xconfig \/ xfigger \/ (\E line \in SuLines : xfigline(line))
    \/ xfig_gate \/ xfig_iface \/ FigDone
    \/ xdevinit \/ ctci_init \/ (\E h \in Halves : ctci_resume(h)) \/ SysNet
    \/ (\E x \in 0..(Neth - 1) : SuChannelEnd(x) \/ SuNextRead(x)) \/ SuResched
    \/ SuKill \/ SuShut \/ SuMain \/ (SuAt("run") /\ SuPanic)

SuSpec == SuInit /\ [][SuNext]_suVars

-----------------------------------------------------------------------------
(* Properties.                                                             *)

(* The SGD never points to an XGD that has been freed, also when jobs have *)
(* ended without xdone() and left theirs behind: a job that runs finds its *)
(* own XGD, and a job that ended by xdone() leaves nothing of its own and  *)
(* may be swapped again.                                                   *)
SgdValid ==
    /\ sgd # 0 => sgd \in xgds
    /\ suPc \notin {"auth", "sgd", "ended"} => sgd = suJob /\ ~suSwap
    /\ suEnd = "xdone" => sgd = 0 /\ suJob \notin xgds /\ suSwap

\* the CTCs whose processes were created, and a half's place in devtab
SuOn == {x \in 0..(Neth - 1) : ctcdev[x].read.iopid # "none"}
ChainRank(c) == 2 * c[1] + (IF c[2] = "write" THEN 1 ELSE 0)

(* IGG019X8 and iohook() reach every I/O that is under way: the chain of   *)
(* the XGD holds both halves of every enabled CTC that has been            *)
(* initialized, once and in the order of devtab, each half with the unit   *)
(* and the DD name the file gave its interface, and no half does I/O whose *)
(* process has not opened it.                                              *)
ChainServed ==
    /\ ToSet(ctclink) = SuOn \X Halves
    /\ \A i, j \in DOMAIN ctclink : i < j => ChainRank(ctclink[i]) < ChainRank(ctclink[j])
    /\ \A x \in 0..(Neth - 1), h \in Halves :
        LET d == ctcdev[x][h]  n == Config.nif[x + 1] IN
        /\ x \in SuOn => /\ n.enabled /\ d.cuu = n[HalfField[h].cuu]
                         /\ d.ddname = n[HalfField[h].ddname]
        /\ d.flag1 = "pend" => d.iopid = "runs" /\ d.ddname \in DOMAIN SuUnits

(* What the file means, line by line: of a line with the tokens t, the     *)
(* interface and the half that token k concerns, its operand, and the      *)
(* value, if any, that it gives field f of interface n.                    *)
FigIfaces(t, k) == {i \in 1..k : t[i] = "iface"}
FigIfaceAt(t, k) == t[Max(FigIfaces(t, k)) + 1]
FigHalves(t, k) == {i \in Max(FigIfaces(t, k))..k : t[i] \in Halves}
FigHalfAt(t, k) == IF FigHalves(t, k) = {} THEN "none" ELSE t[Max(FigHalves(t, k))]
FigArg(t, k) == IF k < Len(t) THEN t[k + 1] ELSE "0"

FigValue(word, arg, half, f) ==
    LET if(given, v) == IF given THEN {v} ELSE {}
    IN  CASE f = "enabled" -> if(word \in FigOn, TRUE) \cup
                    if(word \in FigOff \/ (word = "type" /\ arg \notin FigTypes), FALSE)
          [] f = "type" -> if(word = f /\ arg \in FigTypes, arg)
          [] f \in {"ip", "mask"} -> if(word = f, arg)
          [] f = "gwip" -> if(word = "defaultgw", arg)
          [] f = "dfgw" -> if(word = "defaultgw", TRUE)
          [] OTHER -> if(/\ word \in {"ddname", "cuu"} /\ half # "none"
                         /\ f = HalfField[half][word], arg)
FigGives(t, k, n, f) ==
    IF FigIfaceAt(t, k) # NifNames[n + 1] THEN {}
    ELSE FigValue(t[k], FigArg(t, k), FigHalfAt(t, k), f)

\* no operand that is a keyword itself, and only interfaces there are
FigPlain(t) ==
    \A k \in 1..(Len(t) - 1) :
        /\ t[k] \in FigTakesOperand => t[k + 1] \notin FigKeywords
        /\ t[k] = "iface" => t[k + 1] \in ToSet(NifNames)

FigTokens(l) == tokenize(suFile[l])
FigPlaces ==    \* the tokens of the iface statements
    {p \in (DOMAIN suFile) \X (1..(MAX_TOKENS + 1)) :
        FigTokens(p[1]) # <<>> /\ FigTokens(p[1])[1] = "iface" /\ p[2] <= Len(FigTokens(p[1]))}

(* After the tokens at P an interface has, field by field, what the last   *)
(* of them that concerns it gave, and the default where none did.          *)
FigSettled(P) ==
    \A n \in Nifs, f \in DOMAIN Config.nif[0] :
        LET given == {p \in P : FigGives(FigTokens(p[1]), p[2], n, f) # {}}
        IN  IF given = {} THEN Config.nif[n][f] = FigDefaults.nif[n][f]
            ELSE \E p \in given :
                   /\ \A q \in given : q[1] < p[1] \/ (q[1] = p[1] /\ q[2] <= p[2])
                   /\ Config.nif[n][f] \in FigGives(FigTokens(p[1]), p[2], n, f)

(* When the devices are initialized from it, Config says what the whole    *)
(* file says, its operands told from its keywords: neither an earlier line *)
(* nor a statement for another interface shows through the statics of      *)
(* xfig_iface.                                                             *)
FigMeaning ==
    SuAt("devices") /\ (\A l \in DOMAIN suFile : FigPlain(FigTokens(l))) => FigSettled(FigPlaces)
=============================================================================

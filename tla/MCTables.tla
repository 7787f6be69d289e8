------------------------------ MODULE MCTables ------------------------------
(* Components that share no state, checked together for TLC: a behaviour   *)
(* is one of the part that Init chooses, the other parts stay as they are. *)
EXTENDS SleepQueue, TcpTimer, RtRip, Igmp, Heap, Startup

CONSTANT Parts      \* the parts checked

VARIABLE part

(* Lines of a configuration file: every keyword, a statement for each      *)
(* interface, a keyword whose operand the limit on tokens cuts off, one    *)
(* without operand, and lines that are ignored.                            *)
MCSuLines == {
    <<"*", "iface", "1", "disable">>,
    <<"gateway", "enable">>, <<"gateway", "disable">>,
    <<"iface", "1", "disable">>, <<"iface", "1", "read", "cuu", "c2">>,
    <<"iface", "2", "type", "CTCI", "cuu", "c9", "enable">>,
    <<"iface", "2", "read", "ddname", "D2", "cuu", "c2", "write", "ddname", "D3">>,
    <<"iface", "3", "cuu", "c1", "enabled", "type", "ETH">>,
    <<"iface", "3", "ip", "a3", "mask", "m3", "write", "ddname", "D2", "read", "defaultgw", "a1">>,
    <<"iface", "2", "ip">>}
MCSuUnits == [CTC500 |-> "500", CTC501 |-> "501", D2 |-> "c2", D3 |-> "c3"]

sleepVars == vars
tablesVars == <<part, sleepVars, tmVars, rtVars, hgVars, heapVars, suVars>>

(* Parts that are not chosen start in one of their initial states.         *)
TablesInit ==
    /\ part \in Parts
    /\ Init /\ TmInit /\ RtInit /\ HgInit /\ HeapInit /\ SuInit
    /\ part # "sleep" => mself = CHOOSE p \in Procs : TRUE
    /\ part # "route" => ~dorip /\ rtMask = CHOOSE m \in RtMasks : TRUE

TablesNext ==
    /\ UNCHANGED part
    /\ \/ part = "sleep" /\ Next /\ UNCHANGED <<tmVars, rtVars, hgVars, heapVars, suVars>>
       \/ part = "timer" /\ TmNext /\ UNCHANGED <<sleepVars, rtVars, hgVars, heapVars, suVars>>
       \/ part = "route" /\ RtNext /\ UNCHANGED <<sleepVars, tmVars, hgVars, heapVars, suVars>>
       \/ part = "igmp" /\ HgNext /\ UNCHANGED <<sleepVars, tmVars, rtVars, heapVars, suVars>>
       \/ part = "heap" /\ HeapNext /\ UNCHANGED <<sleepVars, tmVars, rtVars, hgVars, suVars>>
       \/ part = "start" /\ SuNext /\ UNCHANGED <<sleepVars, tmVars, rtVars, hgVars, heapVars>>

(* The fairness of SleepQueue's FairSpec, for its part.                    *)
TablesSpec ==
    /\ TablesInit /\ [][TablesNext]_tablesVars
    /\ WF_vars(part = "sleep" /\ Insertd) /\ WF_vars(part = "sleep" /\ Wakeup)
    /\ WF_vars(part = "sleep" /\ UnsleepStep) /\ SF_vars(part = "sleep" /\ Resched)
    /\ SF_vars(part = "sleep" /\ MVSTMPOP /\ At("idle"))
=============================================================================

------------------------------ MODULE MCKernel ------------------------------
(* Instances of Kernel for TLC: each names the calls its processes make.   *)
EXTENDS Kernel

SemCalls == {"create", "resume", "suspend", "killpid", "return",
             "screate", "wait", "signal", "signaln", "sreset", "sdelete"}
MsgCalls == {"create", "resume", "killpid", "send", "sendf", "receive", "recvclr",
             "recvtim", "sleep10", "yield"}
IpcCalls == SemCalls \cup MsgCalls
SchedCalls == {"create", "resume", "suspend", "chprio", "return", "killpid", "killdead", "send",
               "recvtim", "sleep10", "yield", "iohook"}
=============================================================================

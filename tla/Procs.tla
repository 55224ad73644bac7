------------------------------- MODULE Procs -------------------------------
(***************************************************************************)
(* The tests that ltp-pan runs, as the kernel shows them to it: child      *)
(* processes that end with some status, that may be stopped and continued, *)
(* and process groups.  ltp-pan starts a test in its own process group     *)
(* (the setpgrp() of run_child() is compiled out), so a group with the     *)
(* test's pid exists only once the test has made itself a leader.  What a  *)
(* leader has forked stays in its group and may outlive it.                *)
(*                                                                         *)
(* This is the environment of src/pan/ltp-pan.c; Pan gives the steps in    *)
(* which ltp-pan forks, waits and kills.                                   *)
(***************************************************************************)
CONSTANTS
  Pids,        \* process ids a test may get
  Codes,       \* how tests end: a subset of {"0", "1", "130", "signal"}
  MayLead,     \* tests may call setpgrp() or setsid()
  MayStop      \* tests may be stopped and continued

ASSUME ProcsAssumption ==
  /\ Codes \subseteq {"0", "1", "130", "signal"}
  /\ MayLead \in BOOLEAN /\ MayStop \in BOOLEAN

VARIABLES
  st,          \* state of the child with each pid, "free" when there is none
  code,        \* how a zombie ended
  news,        \* children whose last stop or continue waitpid() has not told
  lead,        \* pids that are the id of a process group other than ltp-pan's
  kids,        \* those of them whose group has members beside the test
  failed,      \* some test has ended with something other than 0
  gaveOne      \* some test has exited with 1

procvars == <<st, code, news, lead, kids, failed, gaveOne>>

ProcsTypeOK ==
  /\ st \in [Pids -> {"free", "run", "stopped", "zombie"}]
  /\ code \in [Pids -> Codes \cup {"0", "signal"}]
  /\ news \subseteq Pids
  /\ kids \subseteq lead
  /\ lead \subseteq Pids
  /\ failed \in BOOLEAN /\ gaveOne \in BOOLEAN

ProcsInit ==
  /\ st = [p \in Pids |-> "free"]
  /\ code = [p \in Pids |-> "0"]
  /\ news = {} /\ lead = {} /\ kids = {}
  /\ failed = FALSE /\ gaveOne = FALSE

Children == {p \in Pids : st[p] # "free"}
Zombies == {p \in Pids : st[p] = "zombie"}

(* A pid is not given again while a process or a group has it.             *)
FreePids == {p \in Pids : st[p] = "free"} \ lead

-----------------------------------------------------------------------------

(***************************************************************************)
(* What tests do by themselves.                                            *)
(***************************************************************************)
TestEnds(p, how) ==
  /\ st[p] = "run"
  /\ st' = [st EXCEPT ![p] = "zombie"]
  /\ code' = [code EXCEPT ![p] = how]
  /\ failed' = (failed \/ how # "0")
  /\ gaveOne' = (gaveOne \/ how = "1")
  /\ UNCHANGED <<news, lead, kids>>

TestLeads(p) ==
  /\ MayLead /\ st[p] = "run" /\ p \notin lead
  /\ lead' = lead \cup {p}
  /\ UNCHANGED <<st, code, news, kids, failed, gaveOne>>

TestForks(p) ==
  /\ st[p] = "run" /\ p \in lead \ kids
  /\ kids' = kids \cup {p}
  /\ UNCHANGED <<st, code, news, lead, failed, gaveOne>>

KidsEnd(p) ==
  /\ p \in kids
  /\ kids' = kids \ {p}
  /\ lead' = IF st[p] = "free" THEN lead \ {p} ELSE lead
  /\ UNCHANGED <<st, code, news, failed, gaveOne>>

TestStops(p) ==
  /\ MayStop /\ st[p] = "run"
  /\ st' = [st EXCEPT ![p] = "stopped"]
  /\ news' = news \cup {p}
  /\ UNCHANGED <<code, lead, kids, failed, gaveOne>>

TestContinues(p) ==
  /\ st[p] = "stopped"
  /\ st' = [st EXCEPT ![p] = "run"]
  /\ news' = news \cup {p}
  /\ UNCHANGED <<code, lead, kids, failed, gaveOne>>

ProcsNext ==
  \E p \in Pids :
    \/ \E how \in Codes : TestEnds(p, how)
    \/ TestLeads(p) \/ TestForks(p) \/ KidsEnd(p)
    \/ TestStops(p) \/ TestContinues(p)

-----------------------------------------------------------------------------

(***************************************************************************)
(* What ltp-pan does to them.                                              *)
(***************************************************************************)
Forked(p) ==
  /\ st' = [st EXCEPT ![p] = "run"]
  /\ UNCHANGED <<code, news, lead, kids, failed, gaveOne>>

(* wait() tells that p has ended: the pid is free, its group may live on.  *)
Reaped(p) ==
  /\ st' = [st EXCEPT ![p] = "free"]
  /\ code' = [code EXCEPT ![p] = "0"]
  /\ news' = news \ {p}
  /\ lead' = IF p \in kids THEN lead ELSE lead \ {p}
  /\ UNCHANGED <<kids, failed, gaveOne>>

(* waitpid() tells that p was stopped or continued.                        *)
Told(p) ==
  /\ news' = news \ {p}
  /\ UNCHANGED <<st, code, lead, kids, failed, gaveOne>>

(***************************************************************************)
(* kill(-pid, sig) for each pid of P: without a group of that id nothing   *)
(* happens (ESRCH).  Only SIGKILL has an effect of its own, a test does    *)
(* about the other signals what it likes.                                  *)
(***************************************************************************)
Signalled(P, sig) ==
  LET Hit == IF sig = "KILL" THEN P \cap lead ELSE {}
      Dead == {p \in Hit : st[p] \in {"run", "stopped"}}
  IN  /\ st' = [p \in Pids |-> IF p \in Dead THEN "zombie" ELSE st[p]]
      /\ code' = [p \in Pids |-> IF p \in Dead THEN "signal" ELSE code[p]]
      /\ kids' = kids \ Hit
      /\ lead' = {p \in lead : p \in Hit => st[p] # "free"}
      /\ failed' = (failed \/ Dead # {})
      /\ UNCHANGED <<news, gaveOne>>

=============================================================================

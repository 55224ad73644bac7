------------------------------ MODULE ZooSpec ------------------------------
(***************************************************************************)
(* What the zoo of src/pan/zoolib.c promises to the programs that share    *)
(* it: a set of cages, each empty or holding one animal (the pid and the   *)
(* tag of something that runs).  A process asks for something, the request *)
(* takes effect at one instant, and the process is told how it went.  A    *)
(* new animal goes into an empty cage, only the animal that was asked for  *)
(* leaves, and "notfound" means there was none.  A request may fail before *)
(* it has taken effect or after: who is told "error" does not know which.  *)
(* Of a lookup nothing is promised (run zoo_stale shows why).              *)
(***************************************************************************)
CONSTANTS Proc,       \* processes that share the zoo
          Cage,       \* places in it
          Pid,        \* process ids that can be recorded
          Tag,        \* names under which processes are recorded
          NoRequest,  \* a process asks for nothing
          NoPid       \* a lookup found nothing

VARIABLES cages,      \* the occupied cages: records [cage, pid, tag]
          asked,      \* what each process asks for
          answer,     \* the outcome of its request, "none" before the effect
          told        \* what each process was told last

vars == <<cages, asked, answer, told>>

Request == [op : {"mark", "clear", "getpid"}, pid : Pid, tag : Tag]
Animal == [cage : Cage, pid : Pid, tag : Tag]

Init ==
  /\ cages = {}
  /\ asked = [p \in Proc |-> NoRequest]
  /\ answer = [p \in Proc |-> "none"]
  /\ told = [p \in Proc |-> "none"]

Ask(p, r) ==
  /\ asked[p] = NoRequest
  /\ asked' = [asked EXCEPT ![p] = r]
  /\ told' = [told EXCEPT ![p] = "none"]
  /\ UNCHANGED <<cages, answer>>

(* A request takes effect once: while its answer is open.                  *)
Answered(p, a) ==
  /\ answer[p] = "none"
  /\ answer' = [answer EXCEPT ![p] = a]
  /\ UNCHANGED <<asked, told>>

(***************************************************************************)
(* zoo_mark_cmdline(): the new animal gets a cage nobody is in.            *)
(***************************************************************************)
Mark(p, a) ==
  /\ asked[p] = [op |-> "mark", pid |-> a.pid, tag |-> a.tag]
  /\ \A b \in cages : b.cage # a.cage
  /\ cages' = cages \cup {a}
  /\ Answered(p, "ok")

(***************************************************************************)
(* zoo_clear(): one animal with the pid that was asked for goes, if any.   *)
(***************************************************************************)
Clear(p) ==
  /\ asked[p].op = "clear"
  /\ \E a \in cages : a.pid = asked[p].pid /\ cages' = cages \ {a}
  /\ Answered(p, "ok")

Missing(p) ==
  /\ asked[p].op = "clear"
  /\ \A a \in cages : a.pid # asked[p].pid
  /\ Answered(p, "notfound")
  /\ UNCHANGED cages

(***************************************************************************)
(* zoo_getpid(): some pid, or none.                                        *)
(***************************************************************************)
Lookup(p, pid) ==
  /\ asked[p].op = "getpid"
  /\ Answered(p, pid)
  /\ UNCHANGED cages

Over(p, a) ==
  /\ asked' = [asked EXCEPT ![p] = NoRequest]
  /\ answer' = [answer EXCEPT ![p] = "none"]
  /\ told' = [told EXCEPT ![p] = a]
  /\ UNCHANGED cages

(***************************************************************************)
(* The call returns: with the answer, or with an error in spite of it, or  *)
(* with an error before there is one.                                      *)
(***************************************************************************)
Tell(p) == answer[p] # "none" /\ Over(p, answer[p])
Fail(p) == asked[p] # NoRequest /\ Over(p, "error")

(***************************************************************************)
(* The process dies (and another takes its place).                         *)
(***************************************************************************)
Die(p) == Over(p, "none")

Next ==
  \E p \in Proc :
    \/ \E r \in Request : Ask(p, r)
    \/ \E a \in Animal : Mark(p, a)
    \/ Clear(p) \/ Missing(p) \/ Tell(p) \/ Fail(p) \/ Die(p)
    \/ \E pid \in Pid \cup {NoPid} : Lookup(p, pid)

Spec == Init /\ [][Next]_vars

=============================================================================

----------------------------- MODULE ZooClients -----------------------------
(***************************************************************************)
(* The programs that share a zoo: ltp-pan (src/pan/ltp-pan.c) writes down  *)
(* itself and every test it runs, ltp-bump (src/pan/ltp-bump.c) looks a    *)
(* tag up, signals the process and clears the entry of one that is gone.   *)
(* The library calls are those of Zoo, step by step; of ltp-pan only what  *)
(* touches the zoo is here (module Pan has the driver itself).             *)
(*                                                                         *)
(* A test that leads a process group of its own may leave the group behind *)
(* when it ends.  ltp-pan then lists the group, as "panorphan" and under   *)
(* the pid the test had, until a signal it sends finds the group gone.     *)
(***************************************************************************)
EXTENDS Zoo

CONSTANTS
  Pan,         \* running ltp-pan programs
  Bump,        \* running ltp-bump programs
  PidOf,       \* the pid of each ltp-pan
  PanTag,      \* the tag (-n) of each ltp-pan
  TestPid,     \* pids the kernel hands to tests
  TestTag,     \* tags of the command file
  OrphanTag,   \* "panorphan"
  BlankPid,    \* the numbers 0, 1, ... (-x of them) that reserve lines
  MaxStarts,   \* bound: the tests each ltp-pan starts at most
  MaxNames,    \* bound: names on ltp-bump's command line
  OwnGroups,   \* whether tests lead process groups that may outlive them
  IOErrors,    \* whether fcntl() and fseek() may fail on the zoo file
  Crashes      \* whether a ltp-pan may be killed by a signal it cannot catch

ASSUME ClientsAssumption ==
  /\ Proc = Pan \cup Bump /\ Pan \cap Bump = {}
  /\ Writer = Proc /\ Reader = Bump
  /\ DOMAIN PidOf = Pan /\ DOMAIN PanTag = Pan
  /\ \A n \in Pan : PidOf[n] \in Pid \ TestPid /\ PanTag[n] \in Tag
  /\ \A m, n \in Pan : PidOf[m] = PidOf[n] => m = n
  /\ BlankPid \in Seq(Pid \ (TestPid \cup {PidOf[n] : n \in Pan}))
  /\ TestPid \subseteq Pid /\ TestTag \subseteq Tag /\ OrphanTag \in Tag
  /\ MaxStarts \in [Pan -> Nat] /\ MaxNames \in Nat /\ OwnGroups \in BOOLEAN
  /\ IOErrors \in BOOLEAN /\ Crashes \in BOOLEAN

VARIABLES
  phase,       \* where each program stands
  tests,       \* the tests each ltp-pan has running: records [pid, tag]
  marked,      \* those of them whose zoo_mark_cmdline() has returned
  orphans,     \* how often each ltp-pan lists a pid as an orphaned group
  exists,      \* the processes there are, zombies included
  groups,      \* the process groups that have outlived their tests
  count,       \* tests started (ltp-pan) or names done (ltp-bump)
  target       \* the pid a program is at work with, NoPid before

clients == <<phase, tests, marked, orphans, exists, groups, count, target>>
allVars == <<vars, clients>>

Entry == [pid : Pid, tag : Tag]

ClientsTypeOK ==
  /\ TypeOK
  /\ phase \in [Proc -> {"begin", "marking", "blank", "unblank", "run",
                         "starting", "reaping", "orphaning", "hunting",
                         "leaving", "lookup", "signal", "clearing",
                         "done", "failed", "crashed"}]
  /\ tests \in [Pan -> SUBSET Entry]
  /\ marked \in [Pan -> SUBSET Entry]
  /\ orphans \in [Pan -> [TestPid -> Nat]]
  /\ exists \in SUBSET Pid
  /\ groups \in SUBSET Pid
  /\ count \in [Proc -> Nat]
  /\ target \in [Proc -> Pid \cup {NoPid}]

ClientsInit ==
  /\ Init
  /\ phase = [p \in Proc |-> IF p \in Pan THEN "begin" ELSE "run"]
  /\ tests = [n \in Pan |-> {}]
  /\ marked = [n \in Pan |-> {}]
  /\ orphans = [n \in Pan |-> [pid \in TestPid |-> 0]]
  /\ exists = {PidOf[n] : n \in Pan}
  /\ groups = {}
  /\ count = [p \in Proc |-> 0]
  /\ target = [p \in Proc |-> NoPid]

Phase(p, s) == phase' = [phase EXCEPT ![p] = s]
Idle(p, s) == phase[p] = s /\ pc[p] = "idle"

-----------------------------------------------------------------------------

(***************************************************************************)
(* main(): ltp-pan records itself before it starts anything.               *)
(***************************************************************************)
MarkSelf(n) ==
  /\ Idle(n, "begin")
  /\ CallMark(n, PidOf[n], PanTag[n])
  /\ Phase(n, "marking")
  /\ UNCHANGED <<tests, marked, orphans, exists, groups, count, target>>

SelfMarked(n) ==
  /\ Idle(n, "marking") /\ ret[n] = "ok"
  /\ Phase(n, "blank")
  /\ marked' = [marked EXCEPT
                  ![n] = @ \cup {[pid |-> PidOf[n], tag |-> PanTag[n]]}]
  /\ UNCHANGED <<vars, tests, orphans, exists, groups, count, target>>

(***************************************************************************)
(* "Active file cleanliness": ltp-pan marks and then clears one line for   *)
(* every test it may keep active, under its own tag and the pids 0, 1, ... *)
(***************************************************************************)
Blank(n, from, to) ==
  /\ Idle(n, from) /\ ret[n] = "ok"
  /\ IF count[n] < Len(BlankPid)
     THEN /\ IF from = "blank"
             THEN CallMark(n, BlankPid[count[n] + 1], PanTag[n])
             ELSE CallClear(n, BlankPid[count[n] + 1])
          /\ count' = [count EXCEPT ![n] = @ + 1]
          /\ UNCHANGED phase
     ELSE /\ Phase(n, to)
          /\ count' = [count EXCEPT ![n] = 0]
          /\ UNCHANGED vars
  /\ UNCHANGED <<tests, marked, orphans, exists, groups, target>>

MarkBlanks(n) == Blank(n, "blank", "unblank")
ClearBlanks(n) == Blank(n, "unblank", "run")

(***************************************************************************)
(* run_child(): fork() and exec, the test runs from here on, and then      *)
(* zoo_mark_cmdline() with the new pid.                                    *)
(***************************************************************************)
StartTest(n, e) ==
  /\ Idle(n, "run") /\ count[n] < MaxStarts[n]
  /\ e.pid \in TestPid \ (exists \cup groups) /\ e.tag \in TestTag
  /\ CallMark(n, e.pid, e.tag)
  /\ Phase(n, "starting")
  /\ tests' = [tests EXCEPT ![n] = @ \cup {e}]
  /\ exists' = exists \cup {e.pid}
  /\ count' = [count EXCEPT ![n] = @ + 1]
  /\ UNCHANGED <<marked, orphans, groups, target>>

TestMarked(n) ==
  /\ Idle(n, "starting") /\ ret[n] = "ok"
  /\ Phase(n, "run")
  /\ marked' = [marked EXCEPT ![n] = @ \cup tests[n]]
  /\ UNCHANGED <<vars, tests, orphans, exists, groups, count, target>>

(***************************************************************************)
(* A test is gone.  Its pid is free for another process, unless the test   *)
(* leaves a process group of that number behind.                           *)
(***************************************************************************)
Vacate(pid) ==
  /\ exists' = exists \ {pid}
  /\ \/ groups' = groups
     \/ OwnGroups /\ groups' = groups \cup {pid}

(***************************************************************************)
(* check_pids(): wait() returns a test that has ended; zoo_clear() comes   *)
(* after.                                                                  *)
(***************************************************************************)
Reap(n, e) ==
  /\ Idle(n, "run") /\ e \in tests[n]
  /\ CallClear(n, e.pid)
  /\ Phase(n, "reaping")
  /\ tests' = [tests EXCEPT ![n] = @ \ {e}]
  /\ marked' = [marked EXCEPT ![n] = @ \ {e}]
  /\ target' = [target EXCEPT ![n] = e.pid]
  /\ Vacate(e.pid)
  /\ UNCHANGED <<orphans, count>>

(***************************************************************************)
(* check_pids() goes on: kill(-pid, 0) finds no process group of that      *)
(* number.                                                                 *)
(***************************************************************************)
Reaped(n) ==
  /\ Idle(n, "reaping") /\ ret[n] = "ok"
  /\ target[n] \notin groups
  /\ Phase(n, "run")
  /\ target' = [target EXCEPT ![n] = NoPid]
  /\ UNCHANGED <<vars, tests, marked, orphans, exists, groups, count>>

(***************************************************************************)
(* It finds the group the test has left, or one that another test with     *)
(* that pid leads by now, and the pid is marked once more, as an orphan.   *)
(***************************************************************************)
Orphan(n) ==
  /\ Idle(n, "reaping") /\ ret[n] = "ok"
  /\ OwnGroups /\ target[n] \in groups \cup exists
  /\ CallMark(n, target[n], OrphanTag)
  /\ Phase(n, "orphaning")
  /\ UNCHANGED <<tests, marked, orphans, exists, groups, count, target>>

(* Mutant: the group is listed and then not remembered.                    *)
OrphanMarked_Lost(n) ==
  /\ Idle(n, "orphaning") /\ ret[n] = "ok"
  /\ Phase(n, "run")
  /\ UNCHANGED <<vars, tests, marked, orphans, exists, groups, count, target>>

(* mark_orphan().                                                          *)
OrphanMarked(n) ==
  /\ Idle(n, "orphaning") /\ ret[n] = "ok"
  /\ Phase(n, "run")
  /\ orphans' = [orphans EXCEPT ![n][target[n]] = @ + 1]
  /\ target' = [target EXCEPT ![n] = NoPid]
  /\ UNCHANGED <<vars, tests, marked, exists, groups, count>>

(***************************************************************************)
(* check_orphans(), which every signal that ltp-pan passes on comes to:    *)
(* where the group of an orphan is gone, its line is cleared and the       *)
(* orphan forgotten, whatever zoo_clear() returns.                         *)
(***************************************************************************)
Hunt(n, pid) ==
  /\ Idle(n, "run") /\ orphans[n][pid] > 0
  /\ pid \notin groups
  /\ CallClear(n, pid)
  /\ Phase(n, "hunting")
  /\ orphans' = [orphans EXCEPT ![n][pid] = @ - 1]
  /\ target' = [target EXCEPT ![n] = pid]
  /\ UNCHANGED <<tests, marked, exists, groups, count>>

Hunted(n) ==
  /\ Idle(n, "hunting")
  /\ Phase(n, "run")
  /\ target' = [target EXCEPT ![n] = NoPid]
  /\ UNCHANGED <<vars, tests, marked, orphans, exists, groups, count>>

(***************************************************************************)
(* What a test has left behind ends.                                       *)
(***************************************************************************)
GroupEnds(pid) ==
  /\ pid \in groups
  /\ groups' = groups \ {pid}
  /\ UNCHANGED <<vars, phase, tests, marked, orphans, exists, count, target>>

(***************************************************************************)
(* The end of main(): no test and no orphan is left, ltp-pan clears its    *)
(* own entry.                                                              *)
(***************************************************************************)
ClearSelf(n) ==
  /\ Idle(n, "run") /\ tests[n] = {}
  /\ \A pid \in TestPid : orphans[n][pid] = 0
  /\ CallClear(n, PidOf[n])
  /\ Phase(n, "leaving")
  /\ marked' = [marked EXCEPT ![n] = {}]
  /\ UNCHANGED <<tests, orphans, exists, groups, count, target>>

PanDone(n) ==
  /\ Idle(n, "leaving")
  /\ Phase(n, "done")
  /\ Exit(n)
  /\ exists' = exists \ {PidOf[n]}
  /\ UNCHANGED <<tests, marked, orphans, groups, count, target>>

(***************************************************************************)
(* Any failure of the zoo on the way is exit(1), at once.                  *)
(***************************************************************************)
PanFails(n) ==
  /\ pc[n] = "idle" /\ phase[n] \in {"marking", "blank", "unblank", "starting",
                                         "reaping", "orphaning"}
  /\ ret[n] # "ok"
  /\ Phase(n, "failed")
  /\ Exit(n)
  /\ exists' = exists \ {PidOf[n]}
  /\ target' = [target EXCEPT ![n] = NoPid]
  /\ UNCHANGED <<tests, marked, orphans, groups, count>>

(***************************************************************************)
(* A ltp-pan is killed; the tests it has started live on.                  *)
(***************************************************************************)
PanCrashes(n) ==
  /\ Crashes /\ phase[n] \notin {"done", "failed", "crashed"}
  /\ Phase(n, "crashed")
  /\ Exit(n)
  /\ exists' = exists \ {PidOf[n]}
  /\ target' = [target EXCEPT ![n] = NoPid]
  /\ UNCHANGED <<tests, marked, orphans, groups, count>>

(***************************************************************************)
(* A test whose ltp-pan is gone ends; init reaps it, its entry stays.      *)
(***************************************************************************)
StrayEnds(n, e) ==
  /\ phase[n] \in {"failed", "crashed"} /\ e \in tests[n]
  /\ tests' = [tests EXCEPT ![n] = @ \ {e}]
  /\ marked' = [marked EXCEPT ![n] = @ \ {e}]
  /\ Vacate(e.pid)
  /\ UNCHANGED <<vars, phase, orphans, count, target>>

-----------------------------------------------------------------------------

(***************************************************************************)
(* ltp-bump's loop over the names it was given: zoo_getpid(), kill(), and  *)
(* zoo_clear() when there is no such process.                              *)
(***************************************************************************)
Lookup(b, name) ==
  /\ Idle(b, "run") /\ count[b] < MaxNames
  /\ CallGetpid(b, name)
  /\ Phase(b, "lookup")
  /\ count' = [count EXCEPT ![b] = @ + 1]
  /\ target' = [target EXCEPT ![b] = NoPid]
  /\ UNCHANGED <<tests, marked, orphans, exists, groups>>

LookedUp(b) ==
  /\ Idle(b, "lookup")
  /\ Phase(b, IF ret[b] \in Pid THEN "signal" ELSE "run")
  /\ UNCHANGED <<vars, tests, marked, orphans, exists, groups, count,
                 target>>

Kill(b) ==
  /\ Idle(b, "signal")
  /\ target' = [target EXCEPT ![b] = ret[b]]
  /\ IF ret[b] \in exists
     THEN Phase(b, "run") /\ UNCHANGED vars
     ELSE Phase(b, "clearing") /\ CallClear(b, ret[b])
  /\ UNCHANGED <<tests, marked, orphans, exists, groups, count>>

Cleared(b) ==
  /\ Idle(b, "clearing")
  /\ Phase(b, "run")
  /\ UNCHANGED <<vars, tests, marked, orphans, exists, groups, count,
                 target>>

BumpDone(b) ==
  /\ Idle(b, "run")
  /\ Phase(b, "done")
  /\ Exit(b)
  /\ UNCHANGED <<tests, marked, orphans, exists, groups, count, target>>

-----------------------------------------------------------------------------

LibraryStep(p) ==
  /\ \/ Lock(p) \/ ScanMark(p) \/ ScanClear(p) \/ ScanGetpid(p)
     \/ Flush(p) \/ Unlock(p)
  /\ UNCHANGED clients

LibraryError(p) ==
  /\ IOErrors
  /\ LockFails(p) \/ SeekFails(p) \/ UnlockFails(p)
  /\ UNCHANGED clients

PanStep(n) ==
  \/ MarkSelf(n) \/ SelfMarked(n) \/ MarkBlanks(n) \/ ClearBlanks(n)
  \/ TestMarked(n) \/ Reaped(n) \/ Orphan(n) \/ OrphanMarked(n) \/ Hunted(n)
  \/ ClearSelf(n) \/ PanDone(n) \/ PanFails(n)
  \/ \E pid \in TestPid : Hunt(n, pid)
  \/ \E e \in Entry : StartTest(n, e)
  \/ \E e \in tests[n] : Reap(n, e)

BumpStep(b) ==
  \/ LookedUp(b) \/ Kill(b) \/ Cleared(b) \/ BumpDone(b)
  \/ \E name \in Tag : Lookup(b, name)

ClientsNext ==
  \/ \E p \in Proc : LibraryStep(p) \/ LibraryError(p)
  \/ \E n \in Pan : PanStep(n) \/ PanCrashes(n)
                    \/ \E e \in tests[n] : StrayEnds(n, e)
  \/ \E b \in Bump : BumpStep(b)
  \/ \E pid \in TestPid : GroupEnds(pid)

(***************************************************************************)
(* A program that can go on does; fcntl(F_SETLKW) queues the waiters, so a *)
(* process cannot find the lock taken again and again for ever; a test     *)
(* ends and is reaped.                                                     *)
(***************************************************************************)
ClientsFairness ==
  /\ \A p \in Proc : /\ WF_allVars(LibraryStep(p))
                     /\ SF_allVars(Lock(p) /\ UNCHANGED clients)
  /\ \A n \in Pan : WF_allVars(PanStep(n))
  /\ \A b \in Bump : WF_allVars(BumpStep(b))

ClientsSpec == ClientsInit /\ [][ClientsNext]_allVars /\ ClientsFairness

-----------------------------------------------------------------------------

(***************************************************************************)
(* Whether an entry keeps its tag.  wait() frees a test's pid before       *)
(* zoo_clear() finds the entry by the pid alone: when another ltp-pan has  *)
(* started a test with that pid meanwhile, the line that is cleared may be *)
(* the new test's, and the old one's, with its tag, stays in its place.    *)
(* The line of an orphan whose group has ended is in the same case.        *)
(***************************************************************************)
KeepsTag(e) ==
  \/ e.pid \notin TestPid
  \/ /\ ~ OwnGroups
     /\ (\A a, b \in TestTag : a = b) \/ (\A m, n \in Pan : m = n)

Tells(l, e) ==
  ~ l.free /\ l.pid = e.pid /\ (KeepsTag(e) => l.tag = e.tag)

(***************************************************************************)
(* What a ltp-pan has finished marking and not begun to clear: itself, its *)
(* tests, the process groups they have left behind.                        *)
(***************************************************************************)
Listed(n) ==
  marked[n] \cup {e \in Entry : e.pid \in TestPid /\ orphans[n][e.pid] > 0
                               /\ e.tag = OrphanTag}

(***************************************************************************)
(* The zoo's purpose ("we should be able to look at the zoo file to find   *)
(* out what was currently running"): everything a ltp-pan has finished     *)
(* marking and not begun to clear is listed, and under its tag as far as   *)
(* entries keep it, also after that ltp-pan has been killed, and whatever  *)
(* other programs did meanwhile.                                           *)
(***************************************************************************)
Recorded ==
  \A n \in Pan : \A e \in Listed(n) : \E i \in 1 .. Len(file) : Tells(file[i], e)

(***************************************************************************)
(* zoo_clear() of a pid that ltp-pan itself marked finds a line, so that   *)
(* no ltp-pan drops its tests and exits for want of an entry.              *)
(***************************************************************************)
ClearFindsItsEntry ==
  \A n \in Pan :
    phase[n] \in {"unblank", "reaping", "hunting"} => ret[n] # "notfound"

(***************************************************************************)
(* While no ltp-pan has been killed or failed, an entry is there for good  *)
(* reason: nothing is listed that its ltp-pan is not at work with, be it   *)
(* itself, a test, or the process group a test has left behind.            *)
(***************************************************************************)
NothingElseListed ==
  (\A n \in Pan : phase[n] \in {"run", "done"} /\ pc[n] = "idle") =>
    \A i \in 1 .. Len(file) : ~ file[i].free =>
      \E n \in Pan : \E e \in Listed(n) : Tells(file[i], e)

(***************************************************************************)
(* A call that waits for the write lock gets past it: nobody keeps the     *)
(* lock for ever, not a program that failed in the middle (zoo_mark and    *)
(* zoo_clear return from a seek error with the lock held) or was killed.   *)
(***************************************************************************)
LockIsGranted == \A p \in Proc : pc[p] = "lock" ~> pc[p] # "lock"

(***************************************************************************)
(* zoolib.h: zoo_clear() marks a pid as completed, and no other line.      *)
(***************************************************************************)
ClearsThatPid ==
  [][\A p \in Proc : Flush(p) /\ req[p].op = "clear"
        => file[pos[p]].pid = req[p].pid]_allVars

(***************************************************************************)
(* ltp-pan.1: ltp-pan does not terminate while a command is active.        *)
(***************************************************************************)
PanOutlivesItsTests ==
  \A n \in Pan : phase[n] \in {"done", "failed"} => tests[n] = {}

=============================================================================

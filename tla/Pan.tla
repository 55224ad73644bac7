-------------------------------- MODULE Pan --------------------------------
(***************************************************************************)
(* src/pan/ltp-pan.c: the driver that keeps -x commands active, starts new *)
(* ones until -s were started, passes signals on to them, and before it    *)
(* exits kills the process groups they left behind.  The program is one    *)
(* loop; its tests (Procs) run beside it, and its signal handler runs      *)
(* between any two of its steps, or interrupts a call that blocks.         *)
(*                                                                         *)
(* Without -l it waits with wait(); with -l (LogFile) it polls waitpid()   *)
(* for one slot after the other.  The zoo (module Zoo) is the number of    *)
(* entries it has for each pid.                                            *)
(***************************************************************************)
EXTENDS Procs, Integers, FiniteSets

CONSTANTS
  NoPid,          \* the 0 of an empty slot
  KeepActive,     \* the -x option
  CmdCount,       \* commands in the collection
  Unexecutable,   \* those of them that execvp() rejects
  Options,        \* sets of the other options: see OptionType
  LogFile,        \* the -l option
  StopFiles,      \* whether PAN_STOP_FILE may appear: a set of BOOLEANs
  Signals,        \* signals that ltp-pan may get
  MaxSignals,     \* bound: how many of them
  SignalsInExec,  \* they may come while run_child() waits for the execvp()
  MaxFaults,      \* bound: failures of fork(), pipe() and the zoo
  ExitCodes,      \* how many exit statuses a parent can tell apart: 256
  MaxBelow        \* bound: num_active sticks this far below 0

OptionType == [sequential : BOOLEAN, track_exit_stats : BOOLEAN,
               has_brakes : BOOLEAN, fork_in_road : BOOLEAN,
               timed : BOOLEAN, starts : Int]

Handled == {"INT", "TERM", "HUP", "ALRM", "USR1", "USR2"}

ASSUME PanAssumption ==
  /\ NoPid \notin Pids
  /\ KeepActive \in Nat \ {0} /\ CmdCount \in Nat \ {0}
  /\ Unexecutable \subseteq 1 .. CmdCount
  /\ Options \subseteq OptionType
  /\ \A o \in Options : /\ o.starts >= -1
                        /\ o.has_brakes => o.track_exit_stats
  /\ LogFile \in BOOLEAN /\ SignalsInExec \in BOOLEAN
  /\ StopFiles \subseteq BOOLEAN
  /\ Signals \subseteq Handled
  /\ MaxSignals \in Nat /\ MaxFaults \in Nat /\ ExitCodes \in Nat \ {0, 1}
  /\ MaxBelow \in Nat

VARIABLES
  pc,             \* where ltp-pan is
  leaving,        \* it has left the main loop for the one about orphans
  opt,            \* its options
  fork_in_road,   \* the -y option, until a SIGUSR1
  c,              \* index of the command to run next
  pgrp,           \* running[].pgrp
  stopping,       \* running[].stopping
  named,          \* running[0].cmd is set
  num_active,
  starts,
  stop,
  go_idle,
  rec_signal,
  send_signal,
  lastsent,       \* the static variable of wait_handler()
  i,              \* the slot a loop is at
  cpid,           \* the child run_child() waits for
  err,            \* what check_pids() returned
  exit_stat,      \* what the parent sees of it: its last eight bits
  wrapped,        \* it has come round to 0 again
  orphans,        \* entries for each pid in the list of orphans
  zoo,            \* entries for each pid in the active file
  signals,        \* signals that have come
  faults          \* failures that have happened

schedvars == <<opt, fork_in_road, c, named, num_active, starts, stop, go_idle>>
sigvars == <<rec_signal, send_signal, lastsent>>
slotvars == <<pgrp, stopping>>
bookvars == <<orphans, zoo>>
exitvars == <<exit_stat, wrapped>>
vars == <<pc, leaving, schedvars, slotvars, sigvars, i, cpid, err, exitvars,
          bookvars, signals, faults, procvars>>

Slots == 1 .. KeepActive
Sig == {"none", "KILL"} \cup Handled

PanTypeOK ==
  /\ ProcsTypeOK
  /\ pc \in {"sched", "start", "exec", "execwait", "signals", "prop",
             "proporph", "propreset", "check", "wait", "poll", "post",
             "orphans", "exited", "crashed", "reboot"}
  /\ leaving \in BOOLEAN
  /\ opt \in Options
  /\ fork_in_road \in BOOLEAN
  /\ c \in 1 .. CmdCount
  /\ pgrp \in [Slots -> Pids \cup {NoPid}]
  /\ stopping \in [Slots -> BOOLEAN]
  /\ named \in BOOLEAN
  /\ num_active \in - MaxBelow .. KeepActive
  /\ starts \in Int /\ starts >= -1
  /\ stop \in BOOLEAN /\ go_idle \in BOOLEAN
  /\ rec_signal \in Sig /\ send_signal \in Sig /\ lastsent \in Sig
  /\ i \in Slots
  /\ cpid \in Pids \cup {NoPid}
  /\ err \in BOOLEAN
  /\ exit_stat \in 0 .. ExitCodes - 1 /\ wrapped \in BOOLEAN
  /\ orphans \in [Pids -> Nat] /\ zoo \in [Pids -> Nat]
  /\ signals \in 0 .. MaxSignals /\ faults \in 0 .. MaxFaults

(***************************************************************************)
(* The number of starts: what -s says, 0 is no limit, and without it -t is *)
(* no limit, -S is once through the collection, and else it is one.        *)
(***************************************************************************)
FirstStarts(o) ==
  IF o.starts = -1 /\ o.timed THEN -1
  ELSE IF o.starts = -1 THEN IF o.sequential THEN CmdCount ELSE 1
  ELSE IF o.starts = 0 THEN -1
  ELSE IF o.starts < KeepActive THEN KeepActive ELSE o.starts

(***************************************************************************)
(* The main loop begins: ltp-pan is in the zoo, its handler is installed.  *)
(***************************************************************************)
Init ==
  /\ ProcsInit
  /\ pc = "sched" /\ leaving = FALSE
  /\ opt \in Options
  /\ fork_in_road = opt.fork_in_road
  /\ c = 1
  /\ pgrp = [s \in Slots |-> NoPid]
  /\ stopping = [s \in Slots |-> FALSE]
  /\ named = FALSE
  /\ num_active = 0
  /\ starts = FirstStarts(opt)
  /\ stop = FALSE /\ go_idle = FALSE
  /\ rec_signal = "none" /\ send_signal = "none" /\ lastsent = "none"
  /\ i = 1
  /\ cpid = NoPid
  /\ err = FALSE
  /\ exit_stat = 0 /\ wrapped = FALSE
  /\ orphans = [p \in Pids |-> 0]
  /\ zoo = [p \in Pids |-> 0]
  /\ signals = 0 /\ faults = 0

-----------------------------------------------------------------------------

(***************************************************************************)
(* wait_handler(): note the signal, move the ratchet on.  Mutant: the      *)
(* ratchet without its last tooth.                                         *)
(***************************************************************************)
Ratchet_NoKill(sig) ==
  IF lastsent = "none" THEN sig
  ELSE IF lastsent = "USR1" THEN "INT"
  ELSE IF lastsent = sig THEN "TERM"
  ELSE IF lastsent = "TERM" THEN "HUP"
  ELSE send_signal

Ratchet(sig) ==
  IF lastsent = "none" THEN sig
  ELSE IF lastsent = "USR1" THEN "INT"
  ELSE IF lastsent = sig THEN "TERM"
  ELSE IF lastsent = "TERM" THEN "HUP"
  ELSE IF lastsent = "HUP" THEN "KILL"
  ELSE send_signal

WaitHandler(sig) ==
  /\ rec_signal' = sig
  /\ IF sig = "USR2" THEN UNCHANGED <<send_signal, lastsent>>
     ELSE send_signal' = Ratchet(sig) /\ lastsent' = send_signal'

(***************************************************************************)
(* One failure more.  exit() hands the count's last eight bits to the      *)
(* parent, so that 256 failures are told like none.                        *)
(***************************************************************************)
CountExit ==
  IF exit_stat + 1 = ExitCodes
  THEN exit_stat' = 0 /\ wrapped' = TRUE
  ELSE exit_stat' = exit_stat + 1 /\ UNCHANGED wrapped

LoseActive == num_active' = IF num_active > - MaxBelow THEN num_active - 1
                            ELSE num_active

(***************************************************************************)
(* One failure more of the system calls and library calls that may fail.   *)
(***************************************************************************)
Fault == faults < MaxFaults /\ faults' = faults + 1

-----------------------------------------------------------------------------

(***************************************************************************)
(* The loop that starts commands.                                          *)
(***************************************************************************)
MayStart ==
  /\ num_active < KeepActive /\ starts # 0
  /\ ~ stop /\ rec_signal = "none" /\ ~ go_idle

FreeSlots == {s \in Slots : pgrp[s] = NoPid}
(* Mutant: a slot is taken without looking whether it is free.             *)
FirstFree_First == 1
FirstFree == CHOOSE s \in FreeSlots : \A t \in FreeSlots : s <= t

PickSlot ==
  /\ pc = "sched" /\ MayStart /\ FreeSlots # {}
  /\ IF opt.sequential THEN UNCHANGED c ELSE c' \in 1 .. CmdCount
  /\ i' = FirstFree
  /\ pc' = "start"
  /\ UNCHANGED <<leaving, opt, fork_in_road, named, num_active, starts, stop,
                 go_idle, slotvars, sigvars, cpid, err, exitvars, bookvars,
                 signals, faults, procvars>>

(***************************************************************************)
(* After that loop: stop once there are no starts left; without a limit    *)
(* the file PAN_STOP_FILE says when.  Mutant: a loop that does not stop.   *)
(***************************************************************************)
StopIfDone_Never == UNCHANGED stop

StopIfDone ==
  IF starts = 0 THEN stop' = TRUE
  ELSE IF starts = -1 THEN \E found \in StopFiles : stop' = (stop \/ found)
  ELSE UNCHANGED stop

EndStarts ==
  /\ pc = "sched" /\ ~ MayStart
  /\ StopIfDone
  /\ pc' = "signals"
  /\ UNCHANGED <<leaving, opt, fork_in_road, c, named, num_active, starts,
                 go_idle, slotvars, sigvars, i, cpid, err, exitvars, bookvars,
                 signals, faults, procvars>>

(* "Aborting": room for one more active command, and no slot for it.       *)
NoSlot ==
  /\ pc = "sched" /\ MayStart /\ FreeSlots = {}
  /\ IF opt.sequential THEN UNCHANGED c ELSE c' \in 1 .. CmdCount
  /\ WaitHandler("INT")
  /\ CountExit
  /\ StopIfDone
  /\ pc' = "signals"
  /\ UNCHANGED <<leaving, opt, fork_in_road, named, num_active, starts,
                 go_idle, slotvars, i, cpid, err, bookvars, signals, faults,
                 procvars>>

(***************************************************************************)
(* run_child() has returned: how the loop counts it.  Mutants: an index    *)
(* that runs past the collection; a command that counts as active though   *)
(* it did not start.                                                       *)
(***************************************************************************)
NextCommand_Past == c' = IF opt.sequential THEN c + 1 ELSE c

NextCommand == c' = IF ~ opt.sequential THEN c
                    ELSE IF c = CmdCount THEN 1 ELSE c + 1

Started ==
  /\ num_active' = num_active + 1
  /\ starts' = IF starts > 0 THEN starts - 1 ELSE starts
  /\ NextCommand

NotStarted_Counted ==
  /\ starts' = IF opt.sequential /\ starts > 0 THEN starts - 1 ELSE starts
  /\ NextCommand
  /\ num_active' = num_active + 1

NotStarted ==
  /\ starts' = IF opt.sequential /\ starts > 0 THEN starts - 1 ELSE starts
  /\ NextCommand
  /\ UNCHANGED num_active

(***************************************************************************)
(* run_child() gives up: no output file or no pipe; fork() fails, also for *)
(* want of a pid.                                                          *)
(***************************************************************************)
StartFails ==
  /\ pc = "start"
  /\ \/ Fault /\ named' \in {named, named \/ i = 1}
     \/ FreePids = {} /\ named' = (named \/ i = 1) /\ UNCHANGED faults
  /\ NotStarted
  /\ pc' = "sched"
  /\ UNCHANGED <<leaving, opt, fork_in_road, stop, go_idle, slotvars, sigvars,
                 i, cpid, err, exitvars, bookvars, signals, procvars>>

(***************************************************************************)
(* The child could not execute the command: it says so through the pipe,   *)
(* run_child() waits for it, logs it and returns -1.                       *)
(***************************************************************************)
ExecFails ==
  /\ pc = "start" /\ c \in Unexecutable
  /\ FreePids # {}
  /\ named' = (named \/ i = 1)
  /\ NotStarted
  /\ pc' = "sched"
  /\ UNCHANGED <<leaving, opt, fork_in_road, stop, go_idle, slotvars, sigvars,
                 i, cpid, err, exitvars, bookvars, signals, faults, procvars>>

Fork ==
  /\ pc = "start" /\ c \notin Unexecutable
  /\ \E p \in FreePids :
       /\ Forked(p)
       /\ cpid' = p
  /\ named' = (named \/ i = 1)
  /\ pc' = "exec"
  /\ UNCHANGED <<leaving, opt, fork_in_road, c, num_active, starts, stop,
                 go_idle, slotvars, sigvars, i, err, exitvars, bookvars,
                 signals, faults>>

(***************************************************************************)
(* The pipe closes without a word: the command runs.  It gets its slot and *)
(* its entry in the zoo; if that fails ltp-pan exits.                      *)
(***************************************************************************)
Executed ==
  /\ pc = "exec"
  /\ pgrp' = [pgrp EXCEPT ![i] = cpid]
  /\ stopping' = [stopping EXCEPT ![i] = FALSE]
  /\ cpid' = NoPid
  /\ \/ /\ zoo' = [zoo EXCEPT ![cpid] = @ + 1]
        /\ Started
        /\ pc' = "sched"
        /\ UNCHANGED faults
     \/ /\ Fault
        /\ pc' = "crashed"
        /\ UNCHANGED <<zoo, c, num_active, starts>>
  /\ UNCHANGED <<leaving, opt, fork_in_road, named, stop, go_idle, sigvars, i,
                 err, exitvars, orphans, signals, procvars>>

(***************************************************************************)
(* run_child() takes an interrupted read() for the message of a child that *)
(* could not execute its command, and waits for that child.                *)
(***************************************************************************)
ExecWait ==
  /\ pc = "execwait" /\ st[cpid] = "zombie"
  /\ Reaped(cpid)
  /\ cpid' = NoPid
  /\ NotStarted
  /\ pc' = "sched"
  /\ UNCHANGED <<leaving, opt, fork_in_road, named, stop, go_idle, slotvars,
                 sigvars, i, err, exitvars, bookvars, signals, faults>>

-----------------------------------------------------------------------------

(***************************************************************************)
(* A signal that came: SIGUSR2 only shuts the scheduler down, or idles it; *)
(* the others are passed on first, and SIGUSR1 also takes -y back.         *)
(***************************************************************************)
ShutDown == IF fork_in_road THEN go_idle' = TRUE /\ UNCHANGED stop
            ELSE stop' = TRUE /\ UNCHANGED go_idle

NoSignal ==
  /\ pc = "signals" /\ rec_signal = "none"
  /\ pc' = "check"
  /\ UNCHANGED <<leaving, schedvars, slotvars, sigvars, i, cpid, err,
                 exitvars, bookvars, signals, faults, procvars>>

Usr2 ==
  /\ pc = "signals" /\ rec_signal = "USR2"
  /\ ShutDown
  /\ rec_signal' = "none" /\ send_signal' = "none"
  /\ pc' = "check"
  /\ UNCHANGED <<leaving, opt, fork_in_road, c, named, num_active, starts,
                 slotvars, lastsent, i, cpid, err, exitvars, bookvars,
                 signals, faults, procvars>>

PassItOn ==
  /\ pc = "signals" /\ rec_signal \notin {"none", "USR2"}
  /\ fork_in_road' = (fork_in_road /\ rec_signal # "USR1")
  /\ i' = 1
  /\ pc' = "prop"
  /\ UNCHANGED <<leaving, opt, c, named, num_active, starts, stop, go_idle,
                 slotvars, sigvars, cpid, err, exitvars, bookvars, signals,
                 faults, procvars>>

(***************************************************************************)
(* propagate_signal(), slot by slot: kill() the group of each active test, *)
(* and note that the test is stopping, whether or not kill() reached it.   *)
(***************************************************************************)
Propagate ==
  /\ pc = "prop"
  /\ IF pgrp[i] = NoPid
     THEN UNCHANGED <<stopping, procvars>>
     ELSE /\ Signalled({pgrp[i]}, send_signal)
          /\ stopping' = [stopping EXCEPT ![i] = TRUE]
  /\ IF i < KeepActive THEN i' = i + 1 /\ UNCHANGED pc
     ELSE i' = 1 /\ pc' = "proporph"
  /\ UNCHANGED <<leaving, schedvars, pgrp, sigvars, cpid, err, exitvars,
                 bookvars, signals, faults>>

(***************************************************************************)
(* check_orphans(): signal each orphaned group; one that is gone (ESRCH)   *)
(* loses its entries.  A zoo_clear() that fails is only reported.          *)
(***************************************************************************)
Orphans == {p \in Pids : orphans[p] > 0}

CheckOrphans(sig) ==
  LET Gone == Orphans \ lead IN
  /\ orphans' = [p \in Pids |-> IF p \in Gone THEN 0 ELSE orphans[p]]
  /\ zoo' = [p \in Pids |->
               IF p \notin Gone THEN zoo[p]
               ELSE IF zoo[p] > orphans[p] THEN zoo[p] - orphans[p] ELSE 0]
  /\ Signalled(Orphans, sig)

PropagateOrphans ==
  /\ pc = "proporph"
  /\ CheckOrphans(send_signal)
  /\ pc' = "propreset"
  /\ UNCHANGED <<leaving, schedvars, slotvars, sigvars, i, cpid, err,
                 exitvars, signals, faults>>

(***************************************************************************)
(* The end of propagate_signal(): a signal that came in the meantime is    *)
(* forgotten.                                                              *)
(***************************************************************************)
PropagateEnds ==
  /\ pc = "propreset"
  /\ rec_signal' = "none" /\ send_signal' = "none"
  /\ IF leaving THEN pc' = "orphans" /\ UNCHANGED <<stop, go_idle>>
     ELSE pc' = "check" /\ ShutDown
  /\ UNCHANGED <<leaving, opt, fork_in_road, c, named, num_active, starts,
                 slotvars, lastsent, i, cpid, err, exitvars, bookvars,
                 signals, faults, procvars>>

-----------------------------------------------------------------------------

(***************************************************************************)
(* check_pids().  With a log it reads running->cmd->name, which is NULL    *)
(* until something was started in the first slot.                          *)
(***************************************************************************)
Check ==
  /\ pc = "check"
  /\ CheckOrphans("none")
  /\ i' = 1
  /\ pc' = IF ~ LogFile THEN "wait" ELSE IF named THEN "poll" ELSE "crashed"
  /\ UNCHANGED <<leaving, schedvars, slotvars, sigvars, cpid, err, exitvars,
                 signals, faults>>

(***************************************************************************)
(* What the wait status of p makes check_pids() do: a test that ended is   *)
(* no longer active; its slot, if it has one, is free and its entry leaves *)
(* the zoo.  A group that is still there is noted as an orphan.            *)
(*                                                                         *)
(* An exit 130 of a test that was to stop counts as 0, and a death by      *)
(* signal only counts for a test that was not to stop.                     *)
(***************************************************************************)
SlotsOf(p) == {s \in Slots : pgrp[s] = p}

(* Mutant: a test that was signalled is excused whatever its status.       *)
Failure_Excused(p, s) ==
  ~ stopping[s] /\ (st[p] # "zombie" \/ code[p] # "0")

Failure(p, s) ==
  \/ st[p] # "zombie"
  \/ code[p] = "1"
  \/ code[p] \in {"130", "signal"} /\ ~ stopping[s]

Unmatched(p) == st[p] # "zombie" \/ code[p] \in {"1", "130"}

(* Mutant: an orphan whose group is not looked for.                        *)
LeavesGroup_No(p) == FALSE

LeavesGroup(p) == p \in lead /\ (st[p] = "zombie" => p \in kids)

EmptySlot_Not(s) == UNCHANGED pgrp

PanOrphans(p) == IF LeavesGroup(p) THEN 1 ELSE 0
EmptySlot(s) == pgrp' = [pgrp EXCEPT ![s] = NoPid]

FreeSlot(p) ==
  LET s == CHOOSE s \in SlotsOf(p) : \A t \in SlotsOf(p) : s <= t
  IN  /\ EmptySlot(s)
      /\ err' = Failure(p, s)
      /\ \/ /\ zoo[p] > 0
            /\ zoo' = [zoo EXCEPT ![p] = @ - 1 + PanOrphans(p)]
            /\ orphans' = IF LeavesGroup(p) THEN [orphans EXCEPT ![p] = @ + 1]
                        ELSE orphans
            /\ pc' = "post"
            /\ UNCHANGED faults
         \/ /\ IF zoo[p] > 0 THEN Fault ELSE UNCHANGED faults
            /\ pc' = "crashed"
            /\ UNCHANGED bookvars

Report(p) ==
  /\ IF st[p] = "zombie" THEN Reaped(p) /\ LoseActive
     ELSE Told(p) /\ UNCHANGED num_active
  /\ IF SlotsOf(p) # {} THEN FreeSlot(p)
     ELSE /\ err' = Unmatched(p)
          /\ pc' = "post"
          /\ UNCHANGED <<pgrp, bookvars, faults>>
  /\ UNCHANGED <<leaving, opt, fork_in_road, c, named, starts, stop, go_idle,
                 stopping, sigvars, i, cpid, exitvars, signals>>

(***************************************************************************)
(* wait(): some test that has ended, or ECHILD.                            *)
(***************************************************************************)
WaitReports ==
  pc = "wait" /\ \E p \in Zombies : Report(p)

NoChild ==
  /\ pc = "wait" /\ Children = {}
  /\ err' = FALSE
  /\ pc' = "post"
  /\ UNCHANGED <<leaving, schedvars, slotvars, sigvars, i, cpid, exitvars,
                 bookvars, signals, faults, procvars>>

(***************************************************************************)
(* waitpid(pgrp, ..., WNOHANG | WUNTRACED | WCONTINUED) for slot i; the 0  *)
(* of an empty slot stands for all children in ltp-pan's own group.        *)
(* Mutant: nobody is waited for at an empty slot.                          *)
(***************************************************************************)
Waited_Slot == {pgrp[i]} \cap Children

Waited == IF pgrp[i] = NoPid THEN Children \ lead ELSE {pgrp[i]} \cap Children

PollReports ==
  pc = "poll" /\ \E p \in Waited \cap (Zombies \cup news) : Report(p)

PollQuiet ==
  /\ pc = "poll" /\ Waited # {} /\ Waited \cap (Zombies \cup news) = {}
  /\ i' = IF i < KeepActive THEN i + 1 ELSE 1
  /\ UNCHANGED <<pc, leaving, schedvars, slotvars, sigvars, cpid, err,
                 exitvars, bookvars, signals, faults, procvars>>

(* waitpid() fails (ECHILD): one less is active, all the same.             *)
PollFails ==
  /\ pc = "poll" /\ Waited = {}
  /\ LoseActive
  /\ EmptySlot(i)
  /\ err' = FALSE
  /\ pc' = "post"
  /\ UNCHANGED <<leaving, opt, fork_in_road, c, named, starts, stop, go_idle,
                 stopping, sigvars, i, cpid, exitvars, bookvars, signals,
                 faults, procvars>>

(* Nothing changed for too long: ltp-pan reboots the machine.              *)
PollTimesOut ==
  /\ pc = "poll" /\ Waited # {} /\ Waited \cap (Zombies \cup news) = {}
  /\ pc' = "reboot"
  /\ UNCHANGED <<leaving, schedvars, slotvars, sigvars, i, cpid, err,
                 exitvars, bookvars, signals, faults, procvars>>

(***************************************************************************)
(* The rest of the main loop.  After a failure -y idles the scheduler, -e  *)
(* counts it and -A sends ltp-pan a SIGINT.  With nothing active the loop  *)
(* ends, or an idle scheduler resumes, its ratchet reset.                  *)
(***************************************************************************)
Braked == err /\ opt.has_brakes

(* Mutants: a loop that ends while starts are left; one that stays idle.   *)
LoopEnds_Early == num_active = 0
IdleIsOver_Never == FALSE

LoopEnds == stop /\ num_active = 0
IdleIsOver == ~ LoopEnds /\ num_active = 0

Post ==
  LET idle == go_idle \/ (err /\ fork_in_road)
      resumes == idle /\ IdleIsOver
  IN
  /\ pc = "post"
  /\ IF err /\ opt.track_exit_stats THEN CountExit ELSE UNCHANGED exitvars
  /\ IF Braked THEN rec_signal' = "INT" /\ send_signal' = Ratchet("INT")
     ELSE UNCHANGED <<rec_signal, send_signal>>
  /\ lastsent' = IF resumes THEN "none"
                 ELSE IF Braked THEN Ratchet("INT") ELSE lastsent
  /\ go_idle' = (idle /\ ~ resumes)
  /\ leaving' = LoopEnds
  /\ pc' = IF LoopEnds THEN "orphans" ELSE "sched"
  /\ err' = FALSE
  /\ UNCHANGED <<opt, fork_in_road, c, named, num_active, starts, stop,
                 slotvars, i, cpid, bookvars, signals, faults, procvars>>

(***************************************************************************)
(* As long as there is an orphaned group: sleep, and take the next signal  *)
(* of the ratchet to it.                                                   *)
(***************************************************************************)
HuntOrphans ==
  /\ pc = "orphans" /\ Orphans # {}
  /\ IF rec_signal = "none" THEN WaitHandler("INT") ELSE UNCHANGED sigvars
  /\ i' = 1
  /\ pc' = "prop"
  /\ UNCHANGED <<leaving, schedvars, slotvars, cpid, err, exitvars, bookvars,
                 signals, faults, procvars>>

(* The end; ltp-pan's own entry may fail to go.                            *)
Exits ==
  /\ pc = "orphans" /\ Orphans = {}
  /\ \/ UNCHANGED <<exitvars, faults>>
     \/ Fault /\ CountExit
  /\ pc' = "exited"
  /\ UNCHANGED <<leaving, schedvars, slotvars, sigvars, i, cpid, err, bookvars,
                 signals, procvars>>

-----------------------------------------------------------------------------

(***************************************************************************)
(* A signal comes.  It interrupts wait() while no child can be told of,    *)
(* read() while the child has not executed its command (what comes then is *)
(* an error message of undefined length), and waitpid() after that (which  *)
(* leaves the child alone).                                                *)
(***************************************************************************)
Ended == pc \in {"exited", "crashed", "reboot"}

Signal(sig) ==
  /\ ~ Ended
  /\ signals < MaxSignals /\ signals' = signals + 1
  /\ pc \in {"exec", "execwait"} => SignalsInExec
  /\ WaitHandler(sig)
  /\ IF pc = "wait" /\ Children # {} /\ Zombies = {}
     THEN err' = FALSE /\ pc' = "post" /\ UNCHANGED <<cpid, c, num_active, starts>>
     ELSE IF pc = "exec"
     THEN pc' \in {"exec", "execwait", "crashed"}
          /\ UNCHANGED <<err, cpid, c, num_active, starts>>
     ELSE IF pc = "execwait" /\ st[cpid] # "zombie"
     THEN cpid' = NoPid /\ NotStarted /\ pc' = "sched" /\ UNCHANGED err
     ELSE UNCHANGED <<pc, err, cpid, c, num_active, starts>>
  /\ UNCHANGED <<leaving, opt, fork_in_road, named, stop, go_idle, slotvars, i,
                 exitvars, bookvars, faults, procvars>>

PanStep ==
  \/ PickSlot \/ EndStarts \/ NoSlot
  \/ StartFails \/ ExecFails \/ Fork \/ Executed \/ ExecWait
  \/ NoSignal \/ Usr2 \/ PassItOn
  \/ Propagate \/ PropagateOrphans \/ PropagateEnds
  \/ Check \/ WaitReports \/ NoChild
  \/ PollReports \/ PollQuiet \/ PollFails
  \/ Post \/ HuntOrphans \/ Exits

ProcsStep == ProcsNext /\ UNCHANGED <<pc, leaving, schedvars, slotvars, sigvars,
                i, cpid, err, exitvars, bookvars, signals, faults>>

Next ==
  \/ PanStep
  \/ PollTimesOut
  \/ \E sig \in Signals : Signal(sig)
  \/ ProcsStep

Spec == Init /\ [][Next]_vars

(***************************************************************************)
(* ltp-pan runs on; a test that runs (and is continued when stopped) ends  *)
(* some day, nothing is promised of what it has forked.                    *)
(***************************************************************************)
RunsOn == WF_vars(PanStep)

ATestEnds(p) == \E how \in Codes :
  TestEnds(p, how) /\ UNCHANGED <<pc, leaving, schedvars, slotvars, sigvars,
                      i, cpid, err, exitvars, bookvars, signals, faults>>

ATestContinues(p) ==
  TestContinues(p) /\ UNCHANGED <<pc, leaving, schedvars, slotvars, sigvars,
                      i, cpid, err, exitvars, bookvars, signals, faults>>

TestsEnd == \A p \in Pids : SF_vars(ATestEnds(p)) /\ WF_vars(ATestContinues(p))

FairSpec == Spec /\ RunsOn /\ TestsEnd
PanFairSpec == Spec /\ RunsOn

-----------------------------------------------------------------------------

(* A test that was forked, whether or not run_child() is done with it.     *)
Forking == {p \in {cpid} : p # NoPid}

(***************************************************************************)
(* num_active, on which the loop decides that it may start a command, and  *)
(* that it is done, counts the children that are not yet reaped.           *)
(***************************************************************************)
CountsItsChildren ==
  pc # "crashed" => num_active = Cardinality(Children \ Forking)

(***************************************************************************)
(* The pid in a slot is that of a child, and of no other slot: ltp-pan     *)
(* never signals a group whose id is, by now, some stranger's.  This holds *)
(* with and without a log, whatever goes wrong with num_active.            *)
(***************************************************************************)
SlotsHoldChildren ==
  pc # "crashed" =>
    \A s \in Slots : pgrp[s] # NoPid =>
      pgrp[s] \in Children \ Forking /\ SlotsOf(pgrp[s]) = {s}

(***************************************************************************)
(* Each test that was started and has not ended has its slot, and with it  *)
(* its entry in the zoo, and will be reported under its name.              *)
(***************************************************************************)
EachChildHasItsSlot ==
  pc # "crashed" => \A p \in Children \ Forking : SlotsOf(p) # {}

(***************************************************************************)
(* The zoo has an entry for each active test and one for each orphan that  *)
(* ltp-pan knows, and no other: the zoo_clear() calls find their entries.  *)
(***************************************************************************)
ZooListsThem ==
  pc # "crashed" =>
    \A p \in Pids : zoo[p] = Cardinality(SlotsOf(p)) + orphans[p]

(***************************************************************************)
(* With -e the exit status is not zero when a test exited with 1, however  *)
(* late and while whatever else was going on, unless so many failed that   *)
(* it has come round to 0; it is zero when every test exited with 0 and    *)
(* nothing failed.                                                         *)
(***************************************************************************)
ExitStatusTells ==
  pc = "exited" =>
    /\ opt.track_exit_stats /\ gaveOne => exit_stat # 0 \/ wrapped
    /\ exit_stat # 0 => faults # 0 \/ (opt.track_exit_stats /\ failed)

(***************************************************************************)
(* No start is left over when ltp-pan exits, unless it was told to stop.   *)
(***************************************************************************)
StartsAreUsed ==
  pc = "exited" => \/ starts = 0
                   \/ signals # 0
                   \/ opt.has_brakes /\ failed
                   \/ FirstStarts(opt) = -1

-----------------------------------------------------------------------------

(* Process groups that are alive without the test that made them.          *)
Orphaned == {p \in lead : st[p] = "free"}

Phase == CASE pc = "exited" -> "exited"
           [] pc \in {"crashed", "reboot"} -> "gone"
           [] OTHER -> "running"

Abstract == INSTANCE PanSpec
  WITH MaxActive <- KeepActive,
       FirstLeft <- {FirstStarts(o) : o \in Options},
       phase <- Phase, left <- starts, active <- Children \ Forking,
       orphaned <- Orphaned, shut <- stop

(***************************************************************************)
(* ltp-pan, waiting with wait(), keeps what PanSpec promises.              *)
(***************************************************************************)
ImplementsPanSpec == Abstract!Spec

-----------------------------------------------------------------------------

(***************************************************************************)
(* With a limit on the starts, or once it is to stop, ltp-pan comes to its *)
(* end if tests do: its loop counts down to 0 active tests, and its        *)
(* ratchet reaches SIGKILL for orphans that ignore everything else.        *)
(***************************************************************************)
Terminates == (starts # -1 \/ stop) ~> Ended

(***************************************************************************)
(* An idle scheduler resumes or shuts down.                                *)
(***************************************************************************)
IdleEnds == go_idle ~> (~ go_idle \/ Ended)

-----------------------------------------------------------------------------

(***************************************************************************)
(* What the manual page src/doc/man1/ltp-pan.1 says and the program does   *)
(* not keep.  Line 51: ltp-pan outlives what it has started.               *)
(***************************************************************************)
ExitsLast == pc = "exited" => Children = {} /\ Orphaned = {}

(***************************************************************************)
(* Lines 44 to 49: signalled again and again, ltp-pan kills its tests.    *)
(***************************************************************************)
SignalsKillTests == (lastsent = "KILL") ~> (Children = {})

=============================================================================

------------------------------ MODULE PanSpec ------------------------------
(***************************************************************************)
(* What ltp-pan promises about the commands it runs: at most MaxActive are *)
(* active, no more are started than were asked for, none once the          *)
(* scheduler is shut down, and it exits only when none is active and no    *)
(* process group that a command left behind is alive.                      *)
(***************************************************************************)
EXTENDS Integers, FiniteSets

CONSTANTS Pids,        \* process ids of commands
          MaxActive,   \* the -x option
          FirstLeft    \* possible numbers of starts, -1 for no limit

VARIABLES phase,       \* "running", "exited", or "gone" when it failed
          left,        \* starts that are left
          active,      \* commands that were started and not reaped
          orphaned,    \* process groups that reaped commands left behind
          shut         \* the scheduler is shut down

vars == <<phase, left, active, orphaned, shut>>

Init ==
  /\ phase = "running"
  /\ left \in FirstLeft
  /\ active = {} /\ orphaned = {}
  /\ shut = FALSE

Used == IF left > 0 THEN left - 1 ELSE left

Start(p) ==
  /\ phase = "running" /\ ~ shut
  /\ left # 0
  /\ p \notin active /\ Cardinality(active) < MaxActive
  /\ active' = active \cup {p}
  /\ left' = Used
  /\ UNCHANGED <<phase, orphaned, shut>>

(* A command that cannot be started.                                       *)
Skip ==
  /\ phase = "running" /\ ~ shut
  /\ left > 0
  /\ left' = Used
  /\ UNCHANGED <<phase, active, orphaned, shut>>

Finish(p) ==
  /\ p \in active
  /\ active' = active \ {p}
  /\ orphaned' \in {orphaned, orphaned \cup {p}}
  /\ UNCHANGED <<phase, left, shut>>

(* Groups die, in their own time or killed, also after ltp-pan has failed. *)
Clean ==
  /\ orphaned' \in SUBSET orphaned
  /\ UNCHANGED <<phase, left, active, shut>>

ShutDown ==
  /\ phase = "running"
  /\ shut' = TRUE
  /\ UNCHANGED <<phase, left, active, orphaned>>

Exit ==
  /\ phase = "running" /\ shut
  /\ active = {} /\ orphaned = {}
  /\ phase' = "exited"
  /\ UNCHANGED <<left, active, orphaned, shut>>

Fail ==
  /\ phase = "running"
  /\ phase' = "gone"
  /\ UNCHANGED shut

Next ==
  \/ \E p \in Pids : Start(p) \/ Finish(p)
  \/ Skip \/ Clean \/ ShutDown \/ Exit \/ Fail

Spec == Init /\ [][Next]_vars

=============================================================================

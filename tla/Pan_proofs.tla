----------------------------- MODULE Pan_proofs -----------------------------
(***************************************************************************)
(* Proofs about ltp-pan for any number of slots, commands, pids, signals   *)
(* and failures: types, and the books it keeps of its children, which are  *)
(* the slots, the zoo and the list of orphans (for every option, with and  *)
(* without a log, whatever interrupts it), and num_active (without a log). *)
(***************************************************************************)
EXTENDS Pan, FiniteSetTheorems, WellFoundedInduction, TLAPS

(***************************************************************************)
(* run_child() is only called with room for one more active command.       *)
(***************************************************************************)
RoomForOne ==
  pc \in {"start", "exec", "execwait"} => num_active < KeepActive

(***************************************************************************)
(* The child that run_child() waits for is a child.                        *)
(***************************************************************************)
CpidIsChild ==
  /\ pc \in {"exec", "execwait"} => cpid \in Children
  /\ pc \notin {"exec", "execwait", "crashed"} => cpid = NoPid

TypeInv == PanTypeOK /\ RoomForOne /\ CpidIsChild

-----------------------------------------------------------------------------

LEMMA Bounds ==
  /\ ExitCodes \in Nat /\ 0 < ExitCodes - 1
  /\ KeepActive \in Nat /\ 0 < KeepActive /\ MaxBelow \in Nat
<1>1. ExitCodes \in Nat \ {0, 1} /\ KeepActive \in Nat \ {0} /\ MaxBelow \in Nat
  BY PanAssumption
<1> QED BY <1>1

LEMMA InitTypeInv == Init => TypeInv
<1> SUFFICES ASSUME Init PROVE TypeInv
  OBVIOUS
<1>1. ProcsTypeOK
  BY DEF Init, ProcsInit, ProcsTypeOK
<1>2. starts \in Int /\ starts >= -1
  BY PanAssumption DEF Init, FirstStarts, OptionType
<1>3. c \in 1 .. CmdCount /\ i \in Slots
  BY PanAssumption DEF Init, Slots
<1>4. opt \in Options /\ fork_in_road \in BOOLEAN
  BY PanAssumption DEF Init, OptionType
<1>5. /\ num_active \in - MaxBelow .. KeepActive
      /\ exit_stat \in 0 .. ExitCodes - 1 /\ wrapped \in BOOLEAN
      /\ signals \in 0 .. MaxSignals /\ faults \in 0 .. MaxFaults
  <2>1. wrapped \in BOOLEAN
    BY DEF Init
  <2>2. exit_stat \in 0 .. ExitCodes - 1
    BY Bounds DEF Init
  <2> QED BY PanAssumption, Bounds, <2>1, <2>2 DEF Init
<1>6. RoomForOne /\ CpidIsChild
  BY DEF Init, RoomForOne, CpidIsChild
<1>7. /\ orphans \in [Pids -> Nat] /\ zoo \in [Pids -> Nat]
      /\ pgrp \in [Slots -> Pids \cup {NoPid}] /\ stopping \in [Slots -> BOOLEAN]
  BY DEF Init
<1> QED BY <1>1, <1>2, <1>3, <1>4, <1>5, <1>6, <1>7 DEF Init, PanTypeOK, TypeInv, Sig

(***************************************************************************)
(* What the pieces of the actions do to the types.                         *)
(***************************************************************************)
LEMMA ProcsSteps ==
  ASSUME ProcsTypeOK
  PROVE  /\ \A p \in Pids : Forked(p) => ProcsTypeOK'
         /\ \A p \in Pids : Reaped(p) => ProcsTypeOK'
         /\ \A p \in Pids : Told(p) => ProcsTypeOK'
         /\ \A P, sig : Signalled(P, sig) => ProcsTypeOK'
         /\ ProcsNext => ProcsTypeOK'
         /\ UNCHANGED procvars => ProcsTypeOK'
<1>1. ASSUME NEW p \in Pids, Forked(p) PROVE ProcsTypeOK'
  BY <1>1 DEF ProcsTypeOK, Forked
<1>2. ASSUME NEW p \in Pids, Reaped(p) PROVE ProcsTypeOK'
  BY <1>2 DEF ProcsTypeOK, Reaped
<1>3. ASSUME NEW p \in Pids, Told(p) PROVE ProcsTypeOK'
  BY <1>3 DEF ProcsTypeOK, Told
<1>4. ASSUME NEW P, NEW sig, Signalled(P, sig) PROVE ProcsTypeOK'
  BY <1>4 DEF ProcsTypeOK, Signalled
<1>5. ASSUME ProcsNext PROVE ProcsTypeOK'
  <2>1. ASSUME NEW p \in Pids, NEW how \in Codes, TestEnds(p, how)
        PROVE  ProcsTypeOK'
    BY <2>1 DEF ProcsTypeOK, TestEnds
  <2>2. ASSUME NEW p \in Pids, TestLeads(p) \/ TestForks(p) \/ KidsEnd(p)
        PROVE  ProcsTypeOK'
    BY <2>2 DEF ProcsTypeOK, TestLeads, TestForks, KidsEnd
  <2>3. ASSUME NEW p \in Pids, TestStops(p) \/ TestContinues(p)
        PROVE  ProcsTypeOK'
    BY <2>3 DEF ProcsTypeOK, TestStops, TestContinues
  <2> QED BY <1>5, <2>1, <2>2, <2>3 DEF ProcsNext
<1>6. ASSUME UNCHANGED procvars PROVE ProcsTypeOK'
  BY <1>6 DEF ProcsTypeOK, procvars
<1> QED BY <1>1, <1>2, <1>3, <1>4, <1>5, <1>6

LEMMA HandlerType ==
  ASSUME PanTypeOK, NEW sig \in Handled
  PROVE  /\ Ratchet(sig) \in Sig
         /\ WaitHandler(sig) =>
              rec_signal' \in Sig /\ send_signal' \in Sig /\ lastsent' \in Sig
BY DEF PanTypeOK, Sig, Handled, Ratchet, WaitHandler

LEMMA CountType ==
  ASSUME PanTypeOK
  PROVE  /\ CountExit => exit_stat' \in 0 .. ExitCodes - 1 /\ wrapped' \in BOOLEAN
         /\ LoseActive => /\ num_active' \in - MaxBelow .. KeepActive
                          /\ num_active' <= num_active
         /\ Fault => faults' \in 0 .. MaxFaults
<1>1. ASSUME CountExit
      PROVE  exit_stat' \in 0 .. ExitCodes - 1 /\ wrapped' \in BOOLEAN
  <2>1. exit_stat \in 0 .. ExitCodes - 1 /\ wrapped \in BOOLEAN
    BY DEF PanTypeOK
  <2>2. \/ exit_stat + 1 = ExitCodes /\ exit_stat' = 0 /\ wrapped' = TRUE
        \/ exit_stat + 1 # ExitCodes /\ exit_stat' = exit_stat + 1 /\ wrapped' = wrapped
    BY <1>1 DEF CountExit
  <2>3. exit_stat' \in 0 .. ExitCodes - 1
    <3>1. exit_stat \in Nat /\ exit_stat <= ExitCodes - 1
      BY <2>1, Bounds
    <3>2. CASE exit_stat' = 0
      BY <3>2, Bounds
    <3>3. CASE exit_stat + 1 # ExitCodes /\ exit_stat' = exit_stat + 1
      BY <3>1, <3>3, Bounds
    <3> QED BY <2>2, <3>2, <3>3
  <2>4. wrapped' \in BOOLEAN
    BY <2>1, <2>2
  <2> QED BY <2>3, <2>4
<1>2. ASSUME LoseActive
      PROVE  num_active' \in - MaxBelow .. KeepActive /\ num_active' <= num_active
  BY <1>2, Bounds DEF PanTypeOK, LoseActive
<1>3. ASSUME Fault PROVE faults' \in 0 .. MaxFaults
  BY <1>3, PanAssumption DEF PanTypeOK, Fault
<1> QED BY <1>1, <1>2, <1>3

LEMMA StartsType ==
  ASSUME PanTypeOK, num_active < KeepActive
  PROVE  /\ Started => /\ num_active' \in - MaxBelow .. KeepActive
                       /\ starts' \in Int /\ starts' >= -1
                       /\ c' \in 1 .. CmdCount
         /\ NotStarted => /\ num_active' = num_active
                          /\ starts' \in Int /\ starts' >= -1
                          /\ c' \in 1 .. CmdCount
<1>1. NextCommand => c' \in 1 .. CmdCount
  BY PanAssumption DEF PanTypeOK, NextCommand
<1>2. num_active \in Int /\ starts \in Int /\ starts >= -1
  BY PanAssumption DEF PanTypeOK
<1> QED BY <1>1, <1>2, PanAssumption DEF PanTypeOK, Started, NotStarted

LEMMA LeastOfSlots ==
  ASSUME NEW S, S \subseteq Slots, S # {}
  PROVE  \E s \in S : \A t \in S : s <= t
<1> DEFINE Less == {ss \in Nat \X Nat : ss[1] < ss[2]}
<1>1. S \subseteq Nat
  BY PanAssumption DEF Slots
<1>2. IsWellFoundedOn(Less, Nat)
  BY NatLessThanWellFounded, Zenon DEF OpToRel
<1>3. IsWellFoundedOn(Less, S)
  BY <1>1, <1>2, IsWellFoundedOnSubset
<1>4. PICK s \in S : \A t \in S : ~ (<<t, s>> \in Less)
  <2> HIDE DEF Less
  <2> QED BY <1>3, WFMin, Zenon
<1>5. ASSUME NEW t \in S PROVE s <= t
  <2>1. s \in Nat /\ t \in Nat /\ ~ (<<t, s>> \in Less)
    BY <1>1, <1>4
  <2>2. ASSUME t < s PROVE <<t, s>> \in Less
    BY <2>1, <2>2
  <2> QED BY <2>1, <2>2
<1> QED BY <1>5

LEMMA FirstFreeType ==
  ASSUME FreeSlots # {} PROVE FirstFree \in FreeSlots
BY LeastOfSlots DEF FirstFree, FreeSlots

(***************************************************************************)
(* Actions that leave the slots, the counts and the books alone.           *)
(***************************************************************************)
LEMMA SignalsType ==
  ASSUME TypeInv, NoSignal \/ Usr2 \/ PassItOn \/ PropagateEnds \/ EndStarts
  PROVE  TypeInv'
<1>1. ProcsTypeOK'
  BY ProcsSteps DEF TypeInv, PanTypeOK, NoSignal, Usr2, PassItOn, PropagateEnds,
     EndStarts
<1>2. stop' \in BOOLEAN /\ go_idle' \in BOOLEAN
  BY PanAssumption DEF TypeInv, PanTypeOK, NoSignal, Usr2, PassItOn,
     PropagateEnds, EndStarts, ShutDown, StopIfDone, schedvars
<1>3. i' \in Slots /\ fork_in_road' \in BOOLEAN
  <2>1. 1 \in Slots
    BY PanAssumption DEF Slots
  <2>2. CASE PassItOn
    BY <2>1, <2>2 DEF PassItOn
  <2>3. CASE NoSignal \/ Usr2 \/ PropagateEnds \/ EndStarts
    BY <2>3 DEF TypeInv, PanTypeOK, NoSignal, Usr2, PropagateEnds, EndStarts, schedvars
  <2> QED BY <2>2, <2>3
<1>4. RoomForOne' /\ CpidIsChild'
  BY DEF TypeInv, NoSignal, Usr2, PassItOn, PropagateEnds, EndStarts,
     RoomForOne, CpidIsChild
<1>5. /\ pc' \in {"check", "prop", "orphans", "signals"}
      /\ rec_signal' \in Sig /\ send_signal' \in Sig /\ lastsent' \in Sig
  BY DEF TypeInv, PanTypeOK, NoSignal, Usr2, PassItOn, PropagateEnds, EndStarts,
     Sig, sigvars
<1>6. /\ UNCHANGED <<leaving, opt, c, named, num_active, starts, slotvars, cpid,
                     err, exitvars, bookvars, signals, faults>>
  BY DEF NoSignal, Usr2, PassItOn, PropagateEnds, EndStarts, schedvars
<1> QED BY <1>1, <1>2, <1>3, <1>4, <1>5, <1>6
        DEF exitvars, TypeInv, PanTypeOK, slotvars, bookvars

LEMMA StartsLoopType ==
  ASSUME TypeInv, PickSlot \/ NoSlot \/ StartFails \/ ExecFails \/ Fork
  PROVE  TypeInv'
<1>1. ProcsTypeOK'
  BY ProcsSteps DEF TypeInv, PanTypeOK, PickSlot, NoSlot, StartFails, ExecFails,
     Fork, FreePids
<1>2. /\ num_active' = num_active
      /\ starts' \in Int /\ starts' >= -1
      /\ c' \in 1 .. CmdCount
  <2>1. CASE PickSlot \/ NoSlot \/ Fork
    BY <2>1 DEF PickSlot, NoSlot, Fork, TypeInv, PanTypeOK
  <2>2. CASE StartFails \/ ExecFails
    BY <2>2, StartsType DEF StartFails, ExecFails, TypeInv, RoomForOne
  <2> QED BY <2>1, <2>2
<1>3. i' \in Slots
  BY FirstFreeType DEF TypeInv, PanTypeOK, PickSlot, NoSlot, StartFails,
     ExecFails, Fork, FreeSlots
<1>4. /\ rec_signal' \in Sig /\ send_signal' \in Sig /\ lastsent' \in Sig
      /\ exit_stat' \in 0 .. ExitCodes - 1 /\ wrapped' \in BOOLEAN /\ stop' \in BOOLEAN
  <2>1. CASE NoSlot
    BY <2>1, HandlerType, CountType, PanAssumption
       DEF NoSlot, TypeInv, PanTypeOK, Handled, StopIfDone
  <2>2. CASE PickSlot \/ StartFails \/ ExecFails \/ Fork
    BY <2>2 DEF exitvars, PickSlot, StartFails, ExecFails, Fork, TypeInv, PanTypeOK, sigvars
  <2> QED BY <2>1, <2>2
<1>5. faults' \in 0 .. MaxFaults /\ named' \in BOOLEAN
  BY CountType DEF TypeInv, PanTypeOK, PickSlot, NoSlot, StartFails, ExecFails, Fork
<1>6. CpidIsChild' /\ cpid' \in Pids \cup {NoPid}
  BY DEF TypeInv, PanTypeOK, PickSlot, NoSlot, StartFails, ExecFails, Fork,
     CpidIsChild, Forked, FreePids, Children, ProcsTypeOK
<1>7. RoomForOne'
  BY DEF TypeInv, RoomForOne, PickSlot, NoSlot, StartFails, ExecFails, Fork, MayStart
<1>8. /\ pc' \in {"start", "sched", "exec", "signals"}
      /\ UNCHANGED <<leaving, opt, fork_in_road, go_idle, slotvars, err, bookvars,
                     signals>>
  BY DEF PickSlot, NoSlot, StartFails, ExecFails, Fork
<1> QED BY <1>1, <1>2, <1>3, <1>4, <1>5, <1>6, <1>7, <1>8
        DEF TypeInv, PanTypeOK, slotvars, bookvars

LEMMA ExecutedType ==
  ASSUME TypeInv, Executed \/ ExecWait PROVE TypeInv'
<1>1. ProcsTypeOK'
  BY ProcsSteps DEF TypeInv, PanTypeOK, Executed, ExecWait, CpidIsChild, Children
<1>2. /\ num_active' \in - MaxBelow .. KeepActive
      /\ starts' \in Int /\ starts' >= -1
      /\ c' \in 1 .. CmdCount
  BY StartsType DEF Executed, ExecWait, TypeInv, PanTypeOK, RoomForOne
<1>3. cpid \in Pids
  BY DEF Executed, ExecWait, TypeInv, CpidIsChild, Children
<1>4. /\ pgrp' \in [Slots -> Pids \cup {NoPid}]
      /\ stopping' \in [Slots -> BOOLEAN]
  BY <1>3 DEF Executed, ExecWait, TypeInv, PanTypeOK, slotvars
<1>5. zoo' \in [Pids -> Nat] /\ orphans' \in [Pids -> Nat]
  BY <1>3 DEF Executed, ExecWait, TypeInv, PanTypeOK, bookvars
<1>6. faults' \in 0 .. MaxFaults
  BY CountType DEF TypeInv, PanTypeOK, Executed, ExecWait
<1>7. /\ pc' \in {"sched", "crashed"} /\ cpid' = NoPid
      /\ UNCHANGED <<leaving, opt, fork_in_road, named, stop, go_idle, sigvars, i,
                     err, exitvars, signals>>
  BY DEF Executed, ExecWait
<1>8. RoomForOne' /\ CpidIsChild'
  BY <1>7 DEF RoomForOne, CpidIsChild
<1> QED BY <1>1, <1>2, <1>4, <1>5, <1>6, <1>7, <1>8
        DEF exitvars, TypeInv, PanTypeOK, sigvars

LEMMA PropagateType ==
  ASSUME TypeInv, Propagate \/ PropagateOrphans \/ Check \/ HuntOrphans
  PROVE  TypeInv'
<1>1. ProcsTypeOK'
  BY ProcsSteps DEF TypeInv, PanTypeOK, Propagate, PropagateOrphans, Check,
     CheckOrphans, HuntOrphans, procvars
<1>2. i' \in Slots
  BY PanAssumption DEF TypeInv, PanTypeOK, Propagate, PropagateOrphans, Check,
     HuntOrphans, Slots
<1>3. stopping' \in [Slots -> BOOLEAN] /\ pgrp' = pgrp
  BY DEF TypeInv, PanTypeOK, Propagate, PropagateOrphans, Check, HuntOrphans, slotvars
<1>4. zoo' \in [Pids -> Nat] /\ orphans' \in [Pids -> Nat]
  BY DEF TypeInv, PanTypeOK, Propagate, PropagateOrphans, Check, CheckOrphans,
     HuntOrphans, bookvars
<1>5. rec_signal' \in Sig /\ send_signal' \in Sig /\ lastsent' \in Sig
  <2>1. CASE HuntOrphans
    BY <2>1, HandlerType DEF HuntOrphans, TypeInv, PanTypeOK, Handled, sigvars
  <2>2. CASE Propagate \/ PropagateOrphans \/ Check
    BY <2>2 DEF Propagate, PropagateOrphans, Check, TypeInv, PanTypeOK, sigvars
  <2> QED BY <2>1, <2>2
<1>6. /\ pc' \in {"prop", "proporph", "propreset", "wait", "poll", "crashed"}
      /\ pc \notin {"exec", "execwait", "crashed"}
  BY DEF Propagate, PropagateOrphans, Check, HuntOrphans
<1>7. UNCHANGED <<leaving, schedvars, cpid, err, exitvars, signals, faults>>
  BY DEF Propagate, PropagateOrphans, Check, HuntOrphans
<1>8. RoomForOne' /\ CpidIsChild'
  BY <1>6, <1>7 DEF TypeInv, RoomForOne, CpidIsChild
<1> QED BY <1>1, <1>2, <1>3, <1>4, <1>5, <1>6, <1>7, <1>8
        DEF exitvars, TypeInv, PanTypeOK, schedvars

(***************************************************************************)
(* The first slot of a pid is one of its slots.                            *)
(***************************************************************************)
LEMMA FirstSlotType ==
  ASSUME NEW S, S \subseteq Slots, S # {}
  PROVE  (CHOOSE s \in S : \A t \in S : s <= t) \in S
<1> SUFFICES \E s \in S : \A t \in S : s <= t
  OBVIOUS
<1> QED BY LeastOfSlots

LEMMA ReportType ==
  ASSUME TypeInv, pc \in {"wait", "poll"}, NEW p \in Children, Report(p)
  PROVE  TypeInv'
<1> DEFINE s0 == CHOOSE s \in SlotsOf(p) : \A t \in SlotsOf(p) : s <= t
<1>0. p \in Pids
  BY DEF Children
<1>1. ProcsTypeOK'
  BY <1>0, ProcsSteps DEF TypeInv, PanTypeOK, Report
<1>2. num_active' \in - MaxBelow .. KeepActive
  BY CountType DEF Report, TypeInv, PanTypeOK
<1>3. /\ pgrp' \in [Slots -> Pids \cup {NoPid}] /\ err' \in BOOLEAN
      /\ zoo' \in [Pids -> Nat] /\ orphans' \in [Pids -> Nat]
      /\ faults' \in 0 .. MaxFaults /\ pc' \in {"post", "crashed"}
  <2>1. CASE SlotsOf(p) = {}
    BY <2>1 DEF Report, Unmatched, TypeInv, PanTypeOK, bookvars
  <2>2. CASE SlotsOf(p) # {}
    <3>1. FreeSlot(p)
      BY <2>2 DEF Report
    <3>2. s0 \in SlotsOf(p)
      BY <2>2, FirstSlotType DEF SlotsOf
    <3>3. err' = Failure(p, s0) /\ EmptySlot(s0)
      BY <3>1 DEF FreeSlot
    <3>4. err' \in BOOLEAN
      BY <3>3 DEF Failure
    <3>5. pgrp' \in [Slots -> Pids \cup {NoPid}]
      BY <3>2, <3>3 DEF EmptySlot, SlotsOf, TypeInv, PanTypeOK
    <3>6. /\ zoo' \in [Pids -> Nat] /\ orphans' \in [Pids -> Nat]
          /\ faults' \in 0 .. MaxFaults /\ pc' \in {"post", "crashed"}
      BY <1>0, <3>1, CountType
         DEF FreeSlot, PanOrphans, TypeInv, PanTypeOK, bookvars
    <3> QED BY <3>4, <3>5, <3>6
  <2> QED BY <2>1, <2>2
<1>4. UNCHANGED <<leaving, opt, fork_in_road, c, named, starts, stop, go_idle,
                 stopping, sigvars, i, cpid, exitvars, signals>>
  BY DEF Report
<1>5. RoomForOne' /\ CpidIsChild'
  BY <1>3, <1>4 DEF TypeInv, RoomForOne, CpidIsChild
<1> QED BY <1>1, <1>2, <1>3, <1>4, <1>5 DEF exitvars, TypeInv, PanTypeOK, sigvars

LEMMA WaitType ==
  ASSUME TypeInv, WaitReports \/ PollReports \/ NoChild \/ PollQuiet \/ PollFails
                  \/ PollTimesOut
  PROVE  TypeInv'
<1>1. CASE WaitReports
  BY <1>1, ReportType DEF WaitReports, Zombies, Children
<1>2. CASE PollReports
  <2>1. PICK p \in Waited : Report(p)
    BY <1>2 DEF PollReports
  <2>2. p \in Children /\ pc = "poll"
    BY <1>2, <2>1 DEF Waited, PollReports
  <2> QED BY <2>1, <2>2, ReportType
<1>3. CASE NoChild \/ PollQuiet \/ PollFails \/ PollTimesOut
  <2>1. ProcsTypeOK'
    BY <1>3, ProcsSteps DEF TypeInv, PanTypeOK, NoChild, PollQuiet, PollFails,
       PollTimesOut
  <2>2. num_active' \in - MaxBelow .. KeepActive
    BY <1>3, CountType DEF NoChild, PollQuiet, PollFails, PollTimesOut,
       TypeInv, PanTypeOK, schedvars
  <2>3. pgrp' \in [Slots -> Pids \cup {NoPid}]
    BY <1>3 DEF NoChild, PollQuiet, PollFails, PollTimesOut, TypeInv, PanTypeOK,
       slotvars, EmptySlot
  <2>4. i' \in Slots
    BY <1>3, PanAssumption DEF NoChild, PollQuiet, PollFails, PollTimesOut,
       TypeInv, PanTypeOK, Slots
  <2>5. /\ err' \in BOOLEAN /\ pc' \in {"post", "poll", "reboot"}
        /\ pc \in {"wait", "poll"}
    BY <1>3 DEF NoChild, PollQuiet, PollFails, PollTimesOut, TypeInv, PanTypeOK
  <2>6. UNCHANGED <<leaving, opt, fork_in_road, c, named, starts, stop, go_idle,
                    stopping, sigvars, cpid, exitvars, bookvars, signals, faults>>
    BY <1>3 DEF NoChild, PollQuiet, PollFails, PollTimesOut, schedvars, slotvars
  <2>7. RoomForOne' /\ CpidIsChild'
    BY <2>5, <2>6 DEF TypeInv, RoomForOne, CpidIsChild
  <2> QED BY <2>1, <2>2, <2>3, <2>4, <2>5, <2>6, <2>7
          DEF exitvars, TypeInv, PanTypeOK, sigvars, bookvars
<1> QED BY <1>1, <1>2, <1>3

LEMMA PostType ==
  ASSUME TypeInv, Post \/ Exits PROVE TypeInv'
<1>1. ProcsTypeOK'
  BY ProcsSteps DEF TypeInv, PanTypeOK, Post, Exits
<1>2. exit_stat' \in 0 .. ExitCodes - 1 /\ wrapped' \in BOOLEAN /\ faults' \in 0 .. MaxFaults
  BY CountType DEF exitvars, TypeInv, PanTypeOK, Post, Exits
<1>3. Ratchet("INT") \in Sig
  BY HandlerType DEF TypeInv, Handled
<1>4. rec_signal' \in Sig /\ send_signal' \in Sig /\ lastsent' \in Sig
  <2>1. CASE Post
    BY <1>3, <2>1 DEF Post, TypeInv, PanTypeOK, Sig, Handled
  <2>2. CASE Exits
    BY <2>2 DEF Exits, TypeInv, PanTypeOK, sigvars
  <2> QED BY <2>1, <2>2
<1>5. /\ leaving' \in BOOLEAN /\ go_idle' \in BOOLEAN /\ err' \in BOOLEAN
      /\ pc' \in {"orphans", "sched", "exited"} /\ pc \in {"post", "orphans"}
  <2>1. CASE Post
    BY <2>1 DEF Post, LoopEnds, TypeInv, PanTypeOK
  <2>2. CASE Exits
    BY <2>2 DEF Exits, TypeInv, PanTypeOK, schedvars
  <2> QED BY <2>1, <2>2
<1>6. UNCHANGED <<opt, fork_in_road, c, named, num_active, starts, stop, slotvars,
                  i, cpid, bookvars, signals>>
  BY DEF Post, Exits, schedvars
<1>7. RoomForOne' /\ CpidIsChild'
  BY <1>5, <1>6 DEF TypeInv, RoomForOne, CpidIsChild
<1> QED BY <1>1, <1>2, <1>4, <1>5, <1>6, <1>7
        DEF TypeInv, PanTypeOK, slotvars, bookvars

LEMMA SignalType ==
  ASSUME TypeInv, NEW sig \in Signals, Signal(sig) PROVE TypeInv'
<1>1. ProcsTypeOK'
  BY ProcsSteps DEF TypeInv, PanTypeOK, Signal
<1>2. rec_signal' \in Sig /\ send_signal' \in Sig /\ lastsent' \in Sig
  BY HandlerType, PanAssumption DEF TypeInv, Signal
<1>3. signals' \in 0 .. MaxSignals
  BY PanAssumption DEF Signal, TypeInv, PanTypeOK
<1>4. CASE pc = "execwait" /\ st[cpid] # "zombie"
  <2>1. cpid' = NoPid /\ NotStarted /\ pc' = "sched" /\ UNCHANGED err
    BY <1>4 DEF Signal
  <2>2. num_active' = num_active /\ starts' \in Int /\ starts' >= -1
        /\ c' \in 1 .. CmdCount
    BY <1>4, <2>1, StartsType DEF TypeInv, RoomForOne
  <2>3. RoomForOne' /\ CpidIsChild'
    BY <2>1 DEF RoomForOne, CpidIsChild
  <2> QED BY <1>1, <1>2, <1>3, <2>1, <2>2, <2>3
          DEF exitvars, Signal, TypeInv, PanTypeOK, slotvars, bookvars
<1>5. CASE ~ (pc = "execwait" /\ st[cpid] # "zombie")
  <2>1. /\ pc' = pc \/ (pc = "wait" /\ pc' = "post")
            \/ (pc = "exec" /\ pc' \in {"exec", "execwait", "crashed"})
        /\ err' \in BOOLEAN /\ UNCHANGED <<cpid, c, num_active, starts>>
    BY <1>5 DEF Signal, TypeInv, PanTypeOK
  <2>2. RoomForOne' /\ CpidIsChild'
    <3>1. Children' = Children
      BY DEF Signal, procvars, Children
    <3> QED BY <2>1, <3>1 DEF TypeInv, RoomForOne, CpidIsChild
  <2> QED BY <1>1, <1>2, <1>3, <2>1, <2>2
          DEF exitvars, Signal, TypeInv, PanTypeOK, slotvars, bookvars
<1> QED BY <1>4, <1>5

(***************************************************************************)
(* A step of a test leaves its pid taken.                                  *)
(***************************************************************************)
LEMMA ProcsKeepChildren ==
  ASSUME ProcsTypeOK, ProcsNext PROVE Children' = Children
<1>1. ASSUME NEW p \in Pids, NEW how \in Codes, TestEnds(p, how)
      PROVE  Children' = Children
  BY <1>1 DEF TestEnds, Children, ProcsTypeOK
<1>2. ASSUME NEW p \in Pids, TestLeads(p) \/ TestForks(p) \/ KidsEnd(p)
      PROVE  Children' = Children
  BY <1>2 DEF TestLeads, TestForks, KidsEnd, Children
<1>3. ASSUME NEW p \in Pids, TestStops(p) \/ TestContinues(p)
      PROVE  Children' = Children
  BY <1>3 DEF TestStops, TestContinues, Children, ProcsTypeOK
<1> QED BY <1>1, <1>2, <1>3 DEF ProcsNext

LEMMA ProcsType ==
  ASSUME TypeInv, ProcsStep \/ UNCHANGED vars PROVE TypeInv'
<1>1. ProcsTypeOK'
  BY ProcsSteps DEF TypeInv, PanTypeOK, ProcsStep, vars
<1>2. Children' = Children
  BY ProcsKeepChildren DEF TypeInv, PanTypeOK, ProcsStep, vars, procvars, Children
<1>3. UNCHANGED <<pc, leaving, schedvars, slotvars, sigvars, i, cpid, err,
                  exitvars, bookvars, signals, faults>>
  BY DEF ProcsStep, vars
<1>4. RoomForOne' /\ CpidIsChild'
  BY <1>2, <1>3 DEF TypeInv, RoomForOne, CpidIsChild, schedvars
<1> QED BY <1>1, <1>3, <1>4
        DEF exitvars, TypeInv, PanTypeOK, schedvars, slotvars, sigvars, bookvars

LEMMA NextTypeInv == TypeInv /\ [Next]_vars => TypeInv'
<1> SUFFICES ASSUME TypeInv, [Next]_vars PROVE TypeInv'
  OBVIOUS
<1>1. CASE PanStep
  BY <1>1, SignalsType, StartsLoopType, ExecutedType, PropagateType, WaitType,
     PostType DEF PanStep
<1>2. CASE PollTimesOut
  BY <1>2, WaitType
<1>3. CASE \E sig \in Signals : Signal(sig)
  BY <1>3, SignalType
<1>4. CASE ProcsStep \/ UNCHANGED vars
  BY <1>4, ProcsType
<1> QED BY <1>1, <1>2, <1>3, <1>4 DEF Next

(***************************************************************************)
(* In every state of ltp-pan each variable has its type: num_active never  *)
(* exceeds -x, the index of the next command stays in the collection, and  *)
(* the slots are indexed within running[].                                 *)
(***************************************************************************)
THEOREM PanTypeCorrect == Spec => []PanTypeOK
<1>1. TypeInv => PanTypeOK
  BY DEF TypeInv
<1> QED BY <1>1, InitTypeInv, NextTypeInv, PTL DEF Spec

-----------------------------------------------------------------------------

(* The children that run_child() is done with.                             *)
Known == Children \ {cpid}

SlotsInv ==
  pc # "crashed" =>
    \A s \in Slots : pgrp[s] # NoPid =>
      pgrp[s] \in Known /\ \A t \in Slots : pgrp[t] = pgrp[s] => t = s

(* run_child() is called for a slot that is free.                          *)
FreeInv == pc \in {"start", "exec"} => pgrp[i] = NoPid

Entry(p) == IF SlotsOf(p) # {} THEN 1 ELSE 0

ZooInv == pc # "crashed" => \A p \in Pids : zoo[p] = orphans[p] + Entry(p)

BooksInv == TypeInv /\ SlotsInv /\ FreeInv /\ ZooInv

LEMMA InitBooksInv == Init => BooksInv
<1> SUFFICES ASSUME Init PROVE BooksInv
  OBVIOUS
<1>1. SlotsInv /\ FreeInv
  BY PanAssumption DEF Init, SlotsInv, FreeInv
<1>2. \A p \in Pids : SlotsOf(p) = {}
  BY PanAssumption DEF Init, SlotsOf
<1>3. ASSUME NEW p \in Pids PROVE zoo[p] = orphans[p] + Entry(p)
  <2>1. zoo[p] = 0 /\ orphans[p] = 0 /\ Entry(p) = 0
    BY <1>2 DEF Init, Entry
  <2> QED BY <2>1
<1> QED BY <1>1, <1>3, InitTypeInv DEF BooksInv, ZooInv

-----------------------------------------------------------------------------

(***************************************************************************)
(* Which children there are after a step.                                  *)
(***************************************************************************)
LEMMA ChildrenSteps ==
  ASSUME ProcsTypeOK
  PROVE  /\ \A p \in FreePids : Forked(p) =>
              p \notin Children /\ Children' = Children \cup {p}
         /\ \A p \in Pids : Reaped(p) => Children' = Children \ {p}
         /\ \A p \in Pids : Told(p) => Children' = Children
         /\ \A P, sig : Signalled(P, sig) => Children' = Children
         /\ UNCHANGED procvars => Children' = Children
<1>1. ASSUME NEW p \in FreePids, Forked(p)
      PROVE  p \notin Children /\ Children' = Children \cup {p}
  BY <1>1 DEF ProcsTypeOK, FreePids, Forked, Children
<1>2. ASSUME NEW p \in Pids, Reaped(p) PROVE Children' = Children \ {p}
  BY <1>2 DEF ProcsTypeOK, Reaped, Children
<1>3. ASSUME NEW p \in Pids, Told(p) PROVE Children' = Children
  BY <1>3 DEF Told, Children
<1>4. ASSUME NEW P, NEW sig, Signalled(P, sig) PROVE Children' = Children
  BY <1>4 DEF ProcsTypeOK, Signalled, Children
<1>5. ASSUME UNCHANGED procvars PROVE Children' = Children
  BY <1>5 DEF procvars, Children
<1> QED BY <1>1, <1>2, <1>3, <1>4, <1>5

(***************************************************************************)
(* The steps that leave slots and books alone.                             *)
(***************************************************************************)
Quiet == /\ UNCHANGED <<pgrp, zoo, orphans>>
         /\ Known \subseteq Known'
         /\ pc = "crashed" => pc' = "crashed"

LEMMA QuietKeeps ==
  ASSUME BooksInv, Quiet PROVE SlotsInv' /\ ZooInv'
<1>1. SlotsInv'
  BY DEF BooksInv, SlotsInv, Quiet
<1>2. ZooInv'
  BY DEF BooksInv, ZooInv, Quiet, Entry, SlotsOf
<1> QED BY <1>1, <1>2

LEMMA QuietSteps ==
  ASSUME BooksInv,
         \/ PickSlot \/ EndStarts \/ NoSlot \/ StartFails \/ ExecFails \/ Fork
         \/ ExecWait \/ NoSignal \/ Usr2 \/ PassItOn \/ Propagate
         \/ PropagateEnds \/ NoChild \/ PollQuiet \/ PollTimesOut \/ Post
         \/ HuntOrphans \/ Exits
         \/ (\E sig \in Signals : Signal(sig)) \/ ProcsStep \/ UNCHANGED vars
  PROVE  Quiet /\ FreeInv'
<1> USE DEF BooksInv, TypeInv, PanTypeOK
<1>1. CASE PickSlot
  <2>1. Children' = Children
    BY <1>1, ChildrenSteps DEF PickSlot
  <2>2. pgrp[FirstFree] = NoPid
    BY <1>1, FirstFreeType DEF PickSlot, FreeSlots
  <2> QED BY <1>1, <2>1, <2>2
          DEF PickSlot, Quiet, FreeInv, Known, slotvars, bookvars
<1>2. CASE EndStarts \/ NoSlot \/ StartFails \/ ExecFails
  <2>1. Children' = Children
    BY <1>2, ChildrenSteps DEF EndStarts, NoSlot, StartFails, ExecFails
  <2> QED BY <1>2, <2>1 DEF EndStarts, NoSlot, StartFails, ExecFails, Quiet,
          FreeInv, Known, slotvars, bookvars
<1>3. CASE Fork
  <2>1. PICK p \in FreePids : Forked(p) /\ cpid' = p
    BY <1>3 DEF Fork
  <2>2. Children' = Children \cup {p} /\ p \notin Children
    BY <2>1, ChildrenSteps
  <2> QED BY <1>3, <2>1, <2>2
          DEF Fork, Quiet, FreeInv, Known, slotvars, bookvars
<1>4. CASE ExecWait
  <2>1. cpid \in Pids /\ cpid' = NoPid
    BY <1>4 DEF ExecWait, CpidIsChild, Children
  <2>2. Children' = Children \ {cpid} /\ NoPid \notin Children
    BY <1>4, <2>1, ChildrenSteps, PanAssumption DEF ExecWait, Children
  <2> QED BY <1>4, <2>1, <2>2
          DEF ExecWait, Quiet, FreeInv, Known, slotvars, bookvars
<1>5. CASE NoSignal \/ Usr2 \/ PassItOn \/ PropagateEnds \/ Post \/ HuntOrphans \/ Exits
  <2>1. Children' = Children
    BY <1>5, ChildrenSteps DEF NoSignal, Usr2, PassItOn, PropagateEnds, Post,
       HuntOrphans, Exits
  <2> QED BY <1>5, <2>1 DEF NoSignal, Usr2, PassItOn, PropagateEnds, Post,
          HuntOrphans, Exits, Quiet, FreeInv, Known, slotvars, bookvars
<1>6. CASE Propagate
  <2>1. Children' = Children
    BY <1>6, ChildrenSteps DEF Propagate
  <2> QED BY <1>6, <2>1 DEF Propagate, Quiet, FreeInv, Known, bookvars
<1>7. CASE NoChild \/ PollQuiet \/ PollTimesOut
  <2>1. Children' = Children
    BY <1>7, ChildrenSteps DEF NoChild, PollQuiet, PollTimesOut
  <2> QED BY <1>7, <2>1 DEF NoChild, PollQuiet, PollTimesOut, Quiet, FreeInv,
          Known, slotvars, bookvars
<1>8. ASSUME NEW sig \in Signals, Signal(sig) PROVE Quiet /\ FreeInv'
  <2>1. Children' = Children
    BY <1>8, ChildrenSteps DEF Signal
  <2>2. NoPid \notin Children /\ (cpid' = cpid \/ cpid' = NoPid)
    BY <1>8, PanAssumption DEF Children, Signal
  <2>3. pc' \in {"start", "exec"} => pc' = pc
    BY <1>8 DEF Signal
  <2> QED BY <1>8, <2>1, <2>2, <2>3
          DEF Signal, Ended, Quiet, FreeInv, Known, slotvars, bookvars
<1>9. CASE ProcsStep \/ UNCHANGED vars
  <2>1. Children' = Children
    BY <1>9, ProcsKeepChildren, ChildrenSteps DEF ProcsStep, vars
  <2> QED BY <1>9, <2>1
          DEF ProcsStep, vars, Quiet, FreeInv, Known, slotvars, bookvars
<1> QED BY <1>1, <1>2, <1>3, <1>4, <1>5, <1>6, <1>7, <1>8, <1>9

(***************************************************************************)
(* check_orphans() only takes the entries of groups that are gone.         *)
(***************************************************************************)
LEMMA OrphansSteps ==
  ASSUME BooksInv, PropagateOrphans \/ Check
  PROVE  SlotsInv' /\ FreeInv' /\ ZooInv'
<1> USE DEF BooksInv, TypeInv, PanTypeOK
<1>1. \E sig : CheckOrphans(sig)
  BY DEF PropagateOrphans, Check
<1>2. Children' = Children
  BY <1>1, ChildrenSteps DEF CheckOrphans
<1>3. /\ UNCHANGED <<cpid, pgrp>> /\ pc # "crashed"
      /\ pc' \notin {"start", "exec"}
  BY DEF PropagateOrphans, Check, slotvars
<1>4. SlotsInv' /\ FreeInv'
  BY <1>2, <1>3 DEF SlotsInv, FreeInv, Known
<1>5. ASSUME NEW p \in Pids PROVE zoo'[p] = orphans'[p] + Entry(p)'
  <2>1. zoo[p] = orphans[p] + Entry(p) /\ zoo[p] \in Nat /\ orphans[p] \in Nat
    BY <1>3 DEF ZooInv
  <2>2. Entry(p)' = Entry(p) /\ Entry(p) \in {0, 1}
    BY <1>3 DEF Entry, SlotsOf
  <2>3. \/ orphans'[p] = orphans[p] /\ zoo'[p] = zoo[p]
        \/ /\ orphans'[p] = 0
           /\ zoo'[p] = IF zoo[p] > orphans[p] THEN zoo[p] - orphans[p] ELSE 0
    BY <1>1 DEF CheckOrphans
  <2> QED BY <2>1, <2>2, <2>3
<1> QED BY <1>4, <1>5 DEF ZooInv

(***************************************************************************)
(* A command runs: its slot was free, its pid is in no other slot.         *)
(***************************************************************************)
LEMMA ExecutedKeeps ==
  ASSUME BooksInv, Executed
  PROVE  SlotsInv' /\ FreeInv' /\ ZooInv'
<1> USE DEF BooksInv, TypeInv, PanTypeOK
<1>0. CASE pc' = "crashed"
  BY <1>0 DEF SlotsInv, FreeInv, ZooInv
<1>1. CASE pc' # "crashed"
  <2>1. /\ pc = "exec" /\ pc' = "sched" /\ cpid' = NoPid
        /\ pgrp' = [pgrp EXCEPT ![i] = cpid]
        /\ zoo' = [zoo EXCEPT ![cpid] = @ + 1]
        /\ UNCHANGED orphans
    BY <1>1 DEF Executed
  <2>2. Children' = Children /\ NoPid \notin Children
    BY ChildrenSteps, PanAssumption DEF Executed, Children
  <2>3. cpid \in Children /\ cpid \in Pids /\ cpid # NoPid
    BY <2>1, <2>2 DEF CpidIsChild, Children
  <2>4. pgrp[i] = NoPid /\ i \in Slots
    BY <2>1 DEF FreeInv
  <2>5. \A s \in Slots : pgrp[s] # cpid
    BY <2>1, <2>3 DEF SlotsInv, Known
  <2>6. \A s \in Slots : pgrp'[s] = IF s = i THEN cpid ELSE pgrp[s]
    BY <2>1
  <2>7. SlotsInv'
    <3> SUFFICES ASSUME NEW s \in Slots, pgrp'[s] # NoPid
                 PROVE  /\ pgrp'[s] \in Known'
                        /\ \A t \in Slots : pgrp'[t] = pgrp'[s] => t = s
      BY DEF SlotsInv
    <3>1. CASE s = i
      BY <2>1, <2>2, <2>3, <2>5, <2>6, <3>1 DEF Known
    <3>2. CASE s # i
      <4>1. pgrp'[s] = pgrp[s] /\ pgrp[s] \in Known
        BY <2>1, <2>6, <3>2 DEF SlotsInv
      <4>2. pgrp'[s] \in Known'
        BY <2>1, <2>2, <4>1 DEF Known
      <4>3. \A t \in Slots : pgrp'[t] = pgrp'[s] => t = s
        BY <2>1, <2>5, <2>6, <3>2, <4>1 DEF SlotsInv
      <4> QED BY <4>2, <4>3
    <3> QED BY <3>1, <3>2
  <2>8. ASSUME NEW p \in Pids PROVE zoo'[p] = orphans'[p] + Entry(p)'
    <3>1. zoo[p] = orphans[p] + Entry(p) /\ orphans[p] \in Nat
      BY <2>1 DEF ZooInv
    <3>2. CASE p = cpid
      <4>1. SlotsOf(p) = {} /\ i \in SlotsOf(p)'
        BY <2>4, <2>5, <2>6, <3>2 DEF SlotsOf
      <4> QED BY <2>1, <2>3, <3>1, <3>2, <4>1 DEF Entry
    <3>3. CASE p # cpid
      <4>1. SlotsOf(p)' = SlotsOf(p)
        BY <2>4, <2>6, <3>3, PanAssumption DEF SlotsOf
      <4> QED BY <2>1, <2>3, <3>1, <3>3, <4>1 DEF Entry
    <3> QED BY <3>2, <3>3
  <2> QED BY <2>1, <2>7, <2>8 DEF FreeInv, ZooInv
<1> QED BY <1>0, <1>1

(***************************************************************************)
(* wait() or waitpid() tells of p.                                         *)
(***************************************************************************)
LEMMA ReportKeeps ==
  ASSUME BooksInv, pc \in {"wait", "poll"}, NEW p \in Children, Report(p)
  PROVE  SlotsInv' /\ FreeInv' /\ ZooInv'
<1> USE DEF BooksInv, TypeInv, PanTypeOK
<1>0. p \in Pids /\ cpid = NoPid /\ cpid' = NoPid /\ NoPid \notin Pids
  BY PanAssumption DEF Children, CpidIsChild, Report
<1>1. Children \ {p} \subseteq Children' /\ NoPid \notin Children'
  BY <1>0, ChildrenSteps DEF Report, Children
<1>2. CASE SlotsOf(p) = {}
  <2>1. UNCHANGED <<pgrp, zoo, orphans>> /\ pc' = "post"
    BY <1>2 DEF Report, bookvars
  <2>2. SlotsInv'
    BY <1>0, <1>1, <1>2, <2>1 DEF SlotsInv, Known, SlotsOf
  <2>3. ZooInv'
    BY <2>1 DEF ZooInv, Entry, SlotsOf
  <2> QED BY <2>1, <2>2, <2>3 DEF FreeInv
<1>3. CASE SlotsOf(p) # {}
  <2> DEFINE s0 == CHOOSE s \in SlotsOf(p) : \A t \in SlotsOf(p) : s <= t
  <2>1. FreeSlot(p)
    BY <1>3 DEF Report
  <2>2. s0 \in Slots /\ pgrp[s0] = p
    BY <1>3, FirstSlotType DEF SlotsOf
  <2>3. pgrp' = [pgrp EXCEPT ![s0] = NoPid] /\ pc' \in {"post", "crashed"}
    BY <2>1 DEF FreeSlot, EmptySlot
  <2> HIDE DEF s0
  <2>4. \A s \in Slots : pgrp'[s] = IF s = s0 THEN NoPid ELSE pgrp[s]
    BY <2>3
  <2>5. \A s \in Slots : pgrp[s] = p => s = s0
    BY <1>0, <2>2 DEF SlotsInv
  <2>6. SlotsInv'
    <3> SUFFICES ASSUME NEW s \in Slots, pgrp'[s] # NoPid
                 PROVE  /\ pgrp'[s] \in Known'
                        /\ \A t \in Slots : pgrp'[t] = pgrp'[s] => t = s
      BY DEF SlotsInv
    <3>1. pgrp'[s] = pgrp[s] /\ pgrp[s] \in Children /\ pgrp[s] # p
      BY <2>4, <2>5 DEF SlotsInv, Known
    <3>2. pgrp'[s] \in Known'
      BY <1>0, <1>1, <3>1 DEF Known
    <3>3. \A t \in Slots : pgrp'[t] = pgrp'[s] => t = s
      BY <2>4, <3>1 DEF SlotsInv
    <3> QED BY <3>2, <3>3
  <2>7. ASSUME pc' # "crashed", NEW q \in Pids
        PROVE  zoo'[q] = orphans'[q] + Entry(q)'
    <3>1. /\ zoo[p] > 0
          /\ zoo' = [zoo EXCEPT ![p] = @ - 1 + PanOrphans(p)]
          /\ orphans' = IF LeavesGroup(p) THEN [orphans EXCEPT ![p] = @ + 1]
                        ELSE orphans
      BY <2>1, <2>7 DEF FreeSlot
    <3>2. /\ zoo[q] = orphans[q] + Entry(q)
          /\ orphans[q] \in Nat /\ zoo[q] \in Nat
      BY DEF ZooInv
    <3>3. CASE q = p
      <4>1. Entry(q) = 1
        BY <1>3, <3>3 DEF Entry
      <4>2. Entry(q)' = 0
        BY <1>0, <2>4, <2>5, <3>3 DEF Entry, SlotsOf
      <4> QED BY <1>0, <3>1, <3>2, <3>3, <4>1, <4>2 DEF PanOrphans
    <3>4. CASE q # p
      <4>1. SlotsOf(q)' = SlotsOf(q)
        BY <1>0, <2>2, <2>4, <3>4 DEF SlotsOf
      <4> QED BY <1>0, <3>1, <3>2, <3>4, <4>1 DEF Entry
    <3> QED BY <3>3, <3>4
  <2> QED BY <2>3, <2>6, <2>7 DEF FreeInv, ZooInv
<1> QED BY <1>2, <1>3

(***************************************************************************)
(* waitpid() fails only for a slot that is empty.                          *)
(***************************************************************************)
LEMMA PollFailsKeeps ==
  ASSUME BooksInv, PollFails PROVE Quiet /\ FreeInv'
<1> USE DEF BooksInv, TypeInv, PanTypeOK
<1>1. pgrp[i] = NoPid
  BY DEF PollFails, Waited, SlotsInv, Known
<1>2. pgrp' = pgrp
  BY <1>1 DEF PollFails, EmptySlot
<1>3. Children' = Children
  BY ChildrenSteps DEF PollFails
<1> QED BY <1>2, <1>3 DEF PollFails, Quiet, FreeInv, Known, bookvars

LEMMA NextBooksInv == BooksInv /\ [Next]_vars => BooksInv'
<1> SUFFICES ASSUME BooksInv, [Next]_vars PROVE BooksInv'
  OBVIOUS
<1>1. TypeInv'
  BY NextTypeInv DEF BooksInv
<1>2. ASSUME Quiet, FreeInv' PROVE BooksInv'
  BY <1>1, <1>2, QuietKeeps DEF BooksInv
<1>3. CASE PropagateOrphans \/ Check
  BY <1>1, <1>3, OrphansSteps DEF BooksInv
<1>4. CASE Executed
  BY <1>1, <1>4, ExecutedKeeps DEF BooksInv
<1>5. CASE WaitReports
  BY <1>1, <1>5, ReportKeeps DEF BooksInv, WaitReports, Zombies, Children
<1>6. CASE PollReports
  <2>1. PICK p \in Waited : Report(p)
    BY <1>6 DEF PollReports
  <2>2. p \in Children /\ pc = "poll"
    BY <1>6, <2>1 DEF Waited, PollReports
  <2> QED BY <1>1, <2>1, <2>2, ReportKeeps DEF BooksInv
<1>7. CASE PollFails
  BY <1>2, <1>7, PollFailsKeeps
<1>8. CASE ~ (\/ PropagateOrphans \/ Check \/ Executed \/ WaitReports
              \/ PollReports \/ PollFails)
  BY <1>2, <1>8, QuietSteps DEF Next, PanStep
<1> QED BY <1>3, <1>4, <1>5, <1>6, <1>7, <1>8

(***************************************************************************)
(* ltp-pan never has the pid of a stranger in a slot, nor one pid twice.   *)
(***************************************************************************)
THEOREM SlotsCorrect == Spec => []SlotsHoldChildren
<1>1. BooksInv => SlotsHoldChildren
  BY DEF BooksInv, SlotsInv, SlotsHoldChildren, Known, SlotsOf, Forking
<1> QED BY <1>1, InitBooksInv, NextBooksInv, PTL DEF Spec

(***************************************************************************)
(* The zoo lists the tests in the slots and the orphans, each once.        *)
(***************************************************************************)
THEOREM ZooCorrect == Spec => []ZooListsThem
<1>1. ASSUME BooksInv, pc # "crashed", NEW p \in Pids
      PROVE  zoo[p] = Cardinality(SlotsOf(p)) + orphans[p]
  <2>1. zoo[p] = orphans[p] + Entry(p) /\ orphans[p] \in Nat
    BY <1>1 DEF BooksInv, ZooInv, TypeInv, PanTypeOK
  <2>2. CASE SlotsOf(p) = {}
    BY <2>1, <2>2, FS_EmptySet DEF Entry
  <2>3. CASE SlotsOf(p) # {}
    <3>1. PICK s \in SlotsOf(p) : TRUE
      BY <2>3
    <3>2. SlotsOf(p) = {s}
      BY <1>1, <3>1, PanAssumption DEF BooksInv, SlotsInv, SlotsOf
    <3>3. Cardinality(SlotsOf(p)) = 1
      BY <3>2, FS_Singleton
    <3> QED BY <2>1, <2>3, <3>3 DEF Entry
  <2> QED BY <2>2, <2>3
<1>2. BooksInv => ZooListsThem
  BY <1>1 DEF ZooListsThem
<1> QED BY <1>2, InitBooksInv, NextBooksInv, PTL DEF Spec

-----------------------------------------------------------------------------

(***************************************************************************)
(* num_active counts the tests that run_child() is done with: which steps  *)
(* keep it so, with and without a log.                                     *)
(***************************************************************************)
TallyInv ==
  pc # "crashed" => IsFiniteSet(Known) /\ num_active = Cardinality(Known)

(* Steps that neither start nor reap a test.                               *)
SameKnown == /\ Known' = Known
             /\ UNCHANGED <<num_active, pgrp>>
             /\ pc = "crashed" => pc' = "crashed"

LEMMA SameSteps ==
  ASSUME TypeInv, pc # "execwait", [Next]_vars,
         ~ (Executed \/ WaitReports \/ PollReports \/ PollFails)
  PROVE  SameKnown
<1> USE DEF TypeInv, PanTypeOK
<1>1. CASE PickSlot \/ EndStarts \/ NoSlot \/ NoSignal \/ Usr2 \/ PassItOn
           \/ PropagateEnds \/ NoChild \/ PollQuiet \/ PollTimesOut \/ Post
           \/ HuntOrphans \/ Exits
  <2>1. Children' = Children
    BY <1>1, ChildrenSteps DEF PickSlot, EndStarts, NoSlot, NoSignal, Usr2,
       PassItOn, PropagateEnds, NoChild, PollQuiet, PollTimesOut, Post,
       HuntOrphans, Exits
  <2> QED BY <1>1, <2>1 DEF PickSlot, EndStarts, NoSlot, NoSignal, Usr2,
          PassItOn, PropagateEnds, NoChild, PollQuiet, PollTimesOut, Post,
          HuntOrphans, Exits, SameKnown, Known, slotvars, schedvars
<1>2. CASE StartFails \/ ExecFails
  <2>1. Children' = Children
    BY <1>2, ChildrenSteps DEF StartFails, ExecFails
  <2> QED BY <1>2, <2>1 DEF StartFails, ExecFails, NotStarted, SameKnown, Known,
          slotvars
<1>3. CASE Fork
  <2>1. PICK p \in FreePids : Forked(p) /\ cpid' = p
    BY <1>3 DEF Fork
  <2>2. Children' = Children \cup {p} /\ p \notin Children
    BY <2>1, ChildrenSteps
  <2>3. cpid = NoPid /\ NoPid \notin Children
    BY <1>3, PanAssumption DEF Fork, CpidIsChild, Children
  <2> QED BY <1>3, <2>1, <2>2, <2>3 DEF Fork, SameKnown, Known, slotvars
<1>4. CASE Propagate \/ PropagateOrphans \/ Check
  <2>1. Children' = Children
    BY <1>4, ChildrenSteps DEF Propagate, PropagateOrphans, Check, CheckOrphans
  <2> QED BY <1>4, <2>1 DEF Propagate, PropagateOrphans, Check, SameKnown,
          Known, slotvars, schedvars
<1>5. ASSUME NEW sig \in Signals, Signal(sig) PROVE SameKnown
  <2>1. Children' = Children
    BY <1>5, ChildrenSteps DEF Signal
  <2>2. UNCHANGED <<num_active, cpid, pgrp>> /\ pc # "crashed"
    BY <1>5 DEF Signal, slotvars, Ended
  <2> QED BY <2>1, <2>2 DEF SameKnown, Known
<1>6. CASE ProcsStep \/ UNCHANGED vars
  <2>1. Children' = Children
    BY <1>6, ProcsKeepChildren, ChildrenSteps DEF ProcsStep, vars
  <2> QED BY <1>6, <2>1 DEF ProcsStep, vars, SameKnown, Known, slotvars, schedvars
<1>7. ~ ExecWait
  BY DEF ExecWait
<1> QED BY <1>1, <1>2, <1>3, <1>4, <1>5, <1>6, <1>7 DEF Next, PanStep

LEMMA ExecutedTally ==
  ASSUME BooksInv, TallyInv, Executed PROVE TallyInv'
<1> USE DEF BooksInv, TypeInv, PanTypeOK
<1>0. CASE pc' = "crashed"
  BY <1>0 DEF TallyInv
<1>1. CASE pc' # "crashed"
  <2>1. pc = "exec" /\ cpid' = NoPid /\ num_active' = num_active + 1
    BY <1>1 DEF Executed, Started
  <2>2. Children' = Children /\ NoPid \notin Children /\ cpid \in Children
    BY <2>1, ChildrenSteps, PanAssumption DEF Executed, Children, CpidIsChild
  <2>3. Known' = Known \cup {cpid} /\ cpid \notin Known
    BY <2>1, <2>2 DEF Known
  <2> QED BY <2>1, <2>3, FS_AddElement DEF TallyInv
<1> QED BY <1>0, <1>1

LEMMA ReportTally ==
  ASSUME BooksInv, TallyInv, pc \in {"wait", "poll"}, NEW p \in Children, Report(p)
  PROVE  TallyInv'
<1> USE DEF BooksInv, TypeInv, PanTypeOK
<1>1. p \in Pids /\ cpid = NoPid /\ cpid' = NoPid /\ NoPid \notin Children
  BY PanAssumption DEF Children, CpidIsChild, Report
<1>2. CASE st[p] = "zombie"
  <2>1. Reaped(p) /\ LoseActive
    BY <1>2 DEF Report
  <2>2. Known' = Known \ {p} /\ p \in Known
    BY <1>1, <2>1, ChildrenSteps DEF Known
  <2>3. IsFiniteSet(Known) /\ num_active = Cardinality(Known)
    BY DEF TallyInv
  <2>4. num_active > 0 /\ num_active \in Nat
    BY <2>2, <2>3, FS_EmptySet, FS_CardinalityType
  <2>5. num_active' = num_active - 1
    BY <2>1, <2>4, PanAssumption DEF LoseActive
  <2> QED BY <2>2, <2>3, <2>5, FS_RemoveElement DEF TallyInv
<1>3. CASE st[p] # "zombie"
  <2>1. Told(p) /\ UNCHANGED num_active
    BY <1>3 DEF Report
  <2>2. Known' = Known
    BY <1>1, <2>1, ChildrenSteps DEF Known
  <2> QED BY <2>1, <2>2 DEF TallyInv
<1> QED BY <1>2, <1>3

-----------------------------------------------------------------------------

(***************************************************************************)
(* Without a log, and as long as no signal interrupts run_child(), ltp-pan *)
(* neither polls nor leaves a child behind: it counts them rightly.        *)
(***************************************************************************)
Waits == ~ LogFile /\ ~ SignalsInExec

NoPoll == pc \notin {"poll", "execwait", "reboot"}

(* The tests it knows of: a finite set, of this size, each with a slot.    *)
KnownInv ==
  pc # "crashed" => /\ IsFiniteSet(Known)
                    /\ num_active = Cardinality(Known)
                    /\ \A p \in Known : SlotsOf(p) # {}

CountInv == BooksInv /\ NoPoll /\ KnownInv

LEMMA InitCountInv == Init => CountInv
<1> SUFFICES ASSUME Init PROVE CountInv
  OBVIOUS
<1>1. NoPoll
  BY DEF Init, NoPoll
<1>2. Known = {} /\ num_active = 0
  BY DEF Init, ProcsInit, Known, Children
<1>3. KnownInv
  BY <1>2, FS_EmptySet DEF KnownInv
<1> QED BY <1>1, <1>3, InitBooksInv DEF CountInv

LEMMA NextNoPoll ==
  ASSUME Waits, TypeInv, NoPoll, [Next]_vars PROVE NoPoll'
<1>1. CASE PanStep
  BY <1>1 DEF Waits, NoPoll, PanStep, PickSlot, EndStarts, NoSlot, StartFails,
     ExecFails, Fork, Executed, ExecWait, NoSignal, Usr2, PassItOn, Propagate,
     PropagateOrphans, PropagateEnds, Check, WaitReports, Report, FreeSlot,
     NoChild, PollReports, PollQuiet, PollFails, Post, HuntOrphans, Exits
<1>2. CASE PollTimesOut \/ ProcsStep \/ UNCHANGED vars
  BY <1>2 DEF NoPoll, PollTimesOut, ProcsStep, vars
<1>3. ASSUME NEW sig \in Signals, Signal(sig) PROVE NoPoll'
  BY <1>3 DEF Waits, NoPoll, Signal
<1> QED BY <1>1, <1>2, <1>3 DEF Next

LEMMA ExecutedCounts ==
  ASSUME CountInv, Executed PROVE KnownInv'
<1> USE DEF CountInv, BooksInv, TypeInv, PanTypeOK
<1>0. CASE pc' = "crashed"
  BY <1>0 DEF KnownInv
<1>1. CASE pc' # "crashed"
  <2>1. /\ pc = "exec" /\ cpid' = NoPid
        /\ pgrp' = [pgrp EXCEPT ![i] = cpid]
    BY <1>1 DEF Executed
  <2>2. Children' = Children /\ NoPid \notin Children /\ cpid \in Children
    BY <2>1, ChildrenSteps, PanAssumption DEF Executed, Children, CpidIsChild
  <2>3. Known' = Known \cup {cpid} /\ cpid \notin Known
    BY <2>1, <2>2 DEF Known
  <2>4. \A p \in Known : SlotsOf(p) # {}
    BY <2>1 DEF KnownInv
  <2>5. IsFiniteSet(Known') /\ num_active' = Cardinality(Known')
    BY <1>1, <2>1, ExecutedTally DEF KnownInv, TallyInv
  <2>6. \A s \in Slots : pgrp'[s] = IF s = i THEN cpid ELSE pgrp[s]
    BY <2>1
  <2>7. pgrp[i] = NoPid
    BY <2>1 DEF FreeInv
  <2>8. ASSUME NEW p \in Known' PROVE SlotsOf(p)' # {}
    <3>1. CASE p = cpid
      BY <2>6, <3>1 DEF SlotsOf
    <3>2. CASE p \in Known
      <4>1. PICK s \in Slots : pgrp[s] = p
        BY <2>4, <3>2 DEF SlotsOf
      <4>2. p # NoPid
        BY <2>2, <3>2 DEF Known
      <4> QED BY <2>6, <2>7, <4>1, <4>2 DEF SlotsOf
    <3> QED BY <2>3, <3>1, <3>2
  <2> QED BY <2>5, <2>8 DEF KnownInv
<1> QED BY <1>0, <1>1

LEMMA WaitCounts ==
  ASSUME CountInv, WaitReports PROVE KnownInv'
<1> USE DEF CountInv, BooksInv, TypeInv, PanTypeOK
<1>1. PICK p \in Zombies : Report(p)
  BY DEF WaitReports
<1>2. /\ pc = "wait" /\ p \in Pids /\ p \in Children /\ st[p] = "zombie"
      /\ cpid = NoPid /\ cpid' = NoPid /\ NoPid \notin Children
  BY <1>1, PanAssumption DEF WaitReports, Zombies, Children, CpidIsChild, Report
<1>3. Children' = Children \ {p}
  BY <1>1, <1>2, ChildrenSteps DEF Report
<1>4. Known' = Known \ {p} /\ p \in Known
  BY <1>2, <1>3 DEF Known
<1>5. \A q \in Known : SlotsOf(q) # {}
  BY <1>2 DEF KnownInv
<1>6. TallyInv'
  BY <1>1, <1>2, ReportTally DEF KnownInv, TallyInv
<1>7. ASSUME NEW q \in Known' PROVE SlotsOf(q)' # {}
  <2> DEFINE s0 == CHOOSE s \in SlotsOf(p) : \A t \in SlotsOf(p) : s <= t
  <2>1. q \in Known /\ q # p
    BY <1>4
  <2>2. PICK s \in Slots : pgrp[s] = q
    BY <1>5, <2>1 DEF SlotsOf
  <2>3. SlotsOf(p) # {}
    BY <1>4, <1>5
  <2>4. s0 \in Slots /\ pgrp[s0] = p
    BY <2>3, FirstSlotType DEF SlotsOf
  <2>5. pgrp' = [pgrp EXCEPT ![s0] = NoPid]
    BY <1>1, <2>3 DEF Report, FreeSlot, EmptySlot
  <2> HIDE DEF s0
  <2>6. pgrp'[s] = q
    BY <2>1, <2>2, <2>4, <2>5
  <2> QED BY <2>6, <2>2 DEF SlotsOf
<1> QED BY <1>6, <1>7 DEF KnownInv, TallyInv

LEMMA NextCountInv ==
  ASSUME Waits PROVE CountInv /\ [Next]_vars => CountInv'
<1> SUFFICES ASSUME CountInv, [Next]_vars PROVE CountInv'
  OBVIOUS
<1>1. BooksInv' /\ NoPoll'
  BY NextBooksInv, NextNoPoll DEF CountInv, BooksInv
<1>2. CASE Executed
  BY <1>1, <1>2, ExecutedCounts DEF CountInv
<1>3. CASE WaitReports
  BY <1>1, <1>3, WaitCounts DEF CountInv
<1>4. CASE ~ Executed /\ ~ WaitReports
  <2>1. SameKnown
    BY <1>4, SameSteps DEF CountInv, BooksInv, NoPoll, PollReports, PollFails
  <2>2. KnownInv'
    BY <2>1 DEF SameKnown, CountInv, KnownInv, SlotsOf
  <2> QED BY <1>1, <2>2 DEF CountInv
<1> QED BY <1>2, <1>3, <1>4

(***************************************************************************)
(* Without a log, num_active is the number of children: ltp-pan never has  *)
(* more than -x of them, and does not stop before they have.               *)
(***************************************************************************)
THEOREM CountCorrect ==
  ASSUME ~ LogFile, ~ SignalsInExec PROVE Spec => []CountsItsChildren
<1>1. Waits
  BY DEF Waits
<1>2. CountInv => CountsItsChildren
  <2>1. Children \ Forking = Known
    BY PanAssumption DEF Known, Forking, Children
  <2> QED BY <2>1 DEF CountInv, KnownInv, CountsItsChildren
<1>3. CountInv /\ [Next]_vars => CountInv'
  BY <1>1, NextCountInv
<1> QED BY <1>2, <1>3, InitCountInv, PTL DEF Spec

(***************************************************************************)
(* Without a log, each test that runs has a slot: it will be signalled     *)
(* with the others, and its end is reported under its name.                *)
(***************************************************************************)
THEOREM SlotPerChild ==
  ASSUME ~ LogFile, ~ SignalsInExec PROVE Spec => []EachChildHasItsSlot
<1>1. Waits
  BY DEF Waits
<1>2. CountInv => EachChildHasItsSlot
  <2>1. Children \ Forking = Known
    BY PanAssumption DEF Known, Forking, Children
  <2> QED BY <2>1 DEF CountInv, KnownInv, EachChildHasItsSlot
<1>3. CountInv /\ [Next]_vars => CountInv'
  BY <1>1, NextCountInv
<1> QED BY <1>2, <1>3, InitCountInv, PTL DEF Spec

-----------------------------------------------------------------------------

(***************************************************************************)
(* With a log ltp-pan counts rightly as well where it does not poll for a  *)
(* child that is not there: tests that stay in its group, so that the poll *)
(* of an empty slot sees them all; and nothing that stops the scheduler,   *)
(* or uses up its starts, while it has none.  Signals, failures of calls,  *)
(* commands that cannot be executed and -A each can do that.               *)
(***************************************************************************)
Calm == /\ ~ MayLead /\ MaxSignals = 0 /\ MaxFaults = 0
        /\ Unexecutable = {} /\ Pids # {}
        /\ \A o \in Options : ~ o.has_brakes

Propagating == {"prop", "proporph", "propreset"}
AtWork == {"signals", "check", "wait", "poll"} \cup Propagating

(* Where ltp-pan is, what signal it has noted there.                       *)
PhaseInv ==
  /\ pc # "execwait"
  /\ leaving => pc \in {"orphans", "exited"} \cup Propagating
  /\ pc = "orphans" => leaving
  /\ rec_signal # "none" => pc \in {"signals"} \cup Propagating

(* It waits only with something to wait for, and with nothing active it    *)
(* starts a command or is to stop.                                         *)
BusyInv ==
  /\ pc \in {"sched", "start"} =>
       num_active > 0 \/ (starts # 0 /\ ~ stop /\ ~ go_idle)
  /\ pc \in AtWork /\ ~ leaving => num_active > 0
  /\ pc \in AtWork \cup {"post"} /\ ~ leaving => (starts = 0 => stop)

PollInv == BooksInv /\ TallyInv /\ lead = {} /\ PhaseInv /\ BusyInv

LEMMA InitPollInv == Init => PollInv
<1> SUFFICES ASSUME Init PROVE PollInv
  OBVIOUS
<1>1. Known = {} /\ num_active = 0
  BY DEF Init, ProcsInit, Known, Children
<1>2. TallyInv
  BY <1>1, FS_EmptySet DEF TallyInv
<1>3. starts # 0
  BY PanAssumption DEF Init, FirstStarts, OptionType
<1>4. PhaseInv /\ BusyInv
  BY <1>3 DEF Init, PhaseInv, BusyInv, Propagating, AtWork
<1> QED BY <1>2, <1>4, InitBooksInv DEF PollInv, Init, ProcsInit

(***************************************************************************)
(* No test leads a group, and no signal and no failure comes.              *)
(***************************************************************************)
LEMMA NobodyLeads ==
  ASSUME Calm, lead = {}, [Next]_vars PROVE lead' = {}
<1>1. /\ \A P, sig : Signalled(P, sig) => lead' = {}
      /\ UNCHANGED procvars => lead' = {}
  BY DEF Signalled, procvars
<1>2. CASE PickSlot \/ EndStarts \/ NoSlot \/ StartFails \/ ExecFails \/ Executed
           \/ NoSignal \/ Usr2 \/ PassItOn \/ PropagateEnds \/ NoChild
           \/ PollQuiet \/ PollFails \/ PollTimesOut \/ Post \/ HuntOrphans \/ Exits
  BY <1>1, <1>2 DEF PickSlot, EndStarts, NoSlot, StartFails, ExecFails, Executed,
     NoSignal, Usr2, PassItOn, PropagateEnds, NoChild, PollQuiet, PollFails,
     PollTimesOut, Post, HuntOrphans, Exits
<1>5. CASE Fork \/ ExecWait
  BY <1>5 DEF Fork, Forked, ExecWait, Reaped
<1>6. CASE Propagate \/ PropagateOrphans \/ Check
  BY <1>1, <1>6 DEF Propagate, PropagateOrphans, Check, CheckOrphans
<1>7. CASE WaitReports \/ PollReports
  BY <1>7 DEF WaitReports, PollReports, Report, Reaped, Told
<1>3. CASE (\E sig \in Signals : Signal(sig)) \/ UNCHANGED vars
  BY <1>1, <1>3 DEF Signal, vars
<1>4. CASE ProcsStep
  BY <1>4 DEF Calm, ProcsStep, ProcsNext, TestEnds, TestLeads, TestForks,
     KidsEnd, TestStops, TestContinues
<1> QED BY <1>2, <1>3, <1>4, <1>5, <1>6, <1>7 DEF Next, PanStep

LEMMA NothingComes ==
  ASSUME Calm, TypeInv PROVE ~ Fault /\ ~ ExecFails /\ \A sig : ~ Signal(sig)
BY DEF Calm, TypeInv, PanTypeOK, Fault, ExecFails, Signal

(***************************************************************************)
(* Where ltp-pan waits there is a child, and the poll sees one.            *)
(***************************************************************************)
LEMMA SomeoneIsThere ==
  ASSUME PollInv, pc # "crashed", num_active > 0 PROVE Known # {}
BY FS_EmptySet DEF PollInv, TallyInv

LEMMA PollSees == ASSUME PollInv PROVE ~ PollFails
<1> SUFFICES ASSUME PollFails PROVE FALSE
  OBVIOUS
<1>1. pc = "poll" /\ Waited = {} /\ ~ leaving
  BY DEF PollFails, PollInv, PhaseInv, Propagating
<1>2. Known # {} /\ Known \subseteq Children
  BY <1>1, SomeoneIsThere DEF PollInv, BusyInv, AtWork, Known
<1>3. pgrp[i] # NoPid
  BY <1>1, <1>2 DEF Waited, PollInv
<1>4. pgrp[i] \in Children /\ i \in Slots
  BY <1>1, <1>3 DEF PollInv, BooksInv, SlotsInv, Known, TypeInv, PanTypeOK
<1> QED BY <1>1, <1>3, <1>4 DEF Waited

LEMMA NextTallyInv ==
  ASSUME Calm, PollInv, [Next]_vars PROVE TallyInv'
<1> USE DEF PollInv, BooksInv
<1>1. CASE Executed
  BY <1>1, ExecutedTally
<1>2. CASE WaitReports
  BY <1>2, ReportTally DEF WaitReports, Zombies, Children
<1>3. CASE PollReports
  <2>1. PICK p \in Waited : Report(p)
    BY <1>3 DEF PollReports
  <2>2. p \in Children /\ pc = "poll"
    BY <1>3, <2>1 DEF Waited, PollReports
  <2> QED BY <2>1, <2>2, ReportTally
<1>4. CASE ~ (Executed \/ WaitReports \/ PollReports)
  <2>1. SameKnown
    BY <1>4, SameSteps, PollSees DEF PhaseInv
  <2> QED BY <2>1 DEF SameKnown, TallyInv
<1> QED BY <1>1, <1>2, <1>3, <1>4

(***************************************************************************)
(* The loop that starts commands.                                          *)
(***************************************************************************)
LEMMA StartsStayBusy ==
  ASSUME Calm, PollInv,
         PickSlot \/ EndStarts \/ NoSlot \/ StartFails \/ Fork \/ Executed
  PROVE  PhaseInv' /\ BusyInv'
<1> USE DEF PollInv, BooksInv, TypeInv, PanTypeOK
<1>0. pc \in {"sched", "start", "exec"} /\ ~ leaving /\ rec_signal = "none"
  BY DEF PickSlot, EndStarts, NoSlot, StartFails, Fork, Executed, PhaseInv,
     Propagating
<1>1. num_active \in Nat
  BY <1>0, FS_CardinalityType DEF TallyInv
<1>2. CASE PickSlot
  BY <1>0, <1>2 DEF PickSlot, MayStart, PhaseInv, BusyInv, Propagating, AtWork, sigvars
<1>3. CASE EndStarts
  <2>1. num_active > 0
    BY <1>0, <1>1, <1>3, PanAssumption DEF EndStarts, MayStart, BusyInv
  <2>2. starts = 0 => stop'
    BY <1>3 DEF EndStarts, StopIfDone
  <2> QED BY <1>0, <1>3, <2>1, <2>2
          DEF EndStarts, PhaseInv, BusyInv, Propagating, AtWork, sigvars
<1>4. CASE NoSlot
  <2>0. 1 \in Slots
    BY PanAssumption DEF Slots
  <2>1. pgrp[1] # NoPid
    BY <1>4, <2>0 DEF NoSlot, FreeSlots
  <2>2. pgrp[1] \in Known
    BY <1>0, <2>0, <2>1 DEF SlotsInv
  <2>3. num_active > 0
    BY <1>0, <1>1, <2>2, FS_EmptySet DEF TallyInv
  <2>4. starts = 0 => stop'
    BY <1>4 DEF NoSlot, StopIfDone
  <2> QED BY <1>0, <1>4, <2>3, <2>4
          DEF NoSlot, PhaseInv, BusyInv, Propagating, AtWork
<1>5. CASE StartFails
  <2>1. FreePids = {} /\ pc = "start" /\ pc' = "sched" /\ UNCHANGED num_active
    BY <1>5, NothingComes DEF StartFails, NotStarted
  <2>2. Known # {}
    <3>1. PICK p \in Pids : TRUE
      BY DEF Calm
    <3>2. p \in Children /\ cpid = NoPid /\ NoPid \notin Pids
      BY <2>1, PanAssumption DEF FreePids, Children, CpidIsChild
    <3> QED BY <3>1, <3>2 DEF Known
  <2>3. num_active > 0
    BY <1>0, <1>1, <2>2, FS_EmptySet DEF TallyInv
  <2> QED BY <1>0, <1>5, <2>1, <2>3
          DEF StartFails, PhaseInv, BusyInv, Propagating, AtWork, sigvars
<1>6. CASE Fork
  BY <1>0, <1>6 DEF Fork, PhaseInv, BusyInv, Propagating, AtWork, sigvars
<1>7. CASE Executed
  <2>1. pc' = "sched" /\ num_active' = num_active + 1
    BY <1>7, NothingComes DEF Executed, Started
  <2> QED BY <1>0, <1>1, <1>7, <2>1
          DEF Executed, PhaseInv, BusyInv, Propagating, AtWork, sigvars
<1> QED BY <1>2, <1>3, <1>4, <1>5, <1>6, <1>7

(***************************************************************************)
(* From there to the wait, and the loop about orphans.                     *)
(***************************************************************************)
LEMMA WorkStaysBusy ==
  ASSUME PollInv,
         \/ NoSignal \/ Usr2 \/ PassItOn \/ Propagate \/ PropagateOrphans
         \/ PropagateEnds \/ Check \/ PollQuiet \/ PollTimesOut
         \/ HuntOrphans \/ Exits \/ ProcsStep \/ UNCHANGED vars
  PROVE  PhaseInv' /\ BusyInv'
<1> USE DEF PollInv, PhaseInv, BusyInv, Propagating, AtWork
<1>1. CASE NoSignal \/ Usr2 \/ PassItOn
  BY <1>1 DEF NoSignal, Usr2, PassItOn, ShutDown, schedvars, sigvars
<1>2. CASE Propagate \/ PropagateOrphans
  BY <1>2 DEF Propagate, PropagateOrphans, schedvars, sigvars
<1>3. CASE PropagateEnds
  BY <1>3 DEF PropagateEnds, ShutDown
<1>4. CASE Check \/ PollQuiet \/ PollTimesOut
  BY <1>4 DEF Check, PollQuiet, PollTimesOut, schedvars, sigvars
<1>5. CASE HuntOrphans \/ Exits
  BY <1>5 DEF HuntOrphans, Exits, schedvars, sigvars
<1>6. CASE ProcsStep \/ UNCHANGED vars
  BY <1>6 DEF ProcsStep, vars, schedvars, sigvars
<1> QED BY <1>1, <1>2, <1>3, <1>4, <1>5, <1>6

(***************************************************************************)
(* A report, and the end of the loop.                                      *)
(***************************************************************************)
LEMMA ReportStaysBusy ==
  ASSUME PollInv, WaitReports \/ PollReports PROVE PhaseInv' /\ BusyInv'
<1>1. PICK p : Report(p)
  BY DEF WaitReports, PollReports
<1>2. pc \in {"wait", "poll"} /\ pc' \in {"post", "crashed"}
  BY <1>1 DEF WaitReports, PollReports, Report, FreeSlot
<1> QED BY <1>1, <1>2 DEF Report, PollInv, PhaseInv, BusyInv, Propagating, AtWork,
        sigvars

LEMMA PostStaysBusy ==
  ASSUME Calm, PollInv, Post \/ NoChild PROVE PhaseInv' /\ BusyInv'
<1> USE DEF PollInv, BooksInv, TypeInv, PanTypeOK
<1>1. CASE NoChild
  BY <1>1 DEF NoChild, PhaseInv, BusyInv, Propagating, AtWork, schedvars, sigvars
<1>2. CASE Post
  <2>1. /\ pc = "post" /\ ~ leaving /\ rec_signal = "none" /\ ~ Braked
        /\ (starts = 0 => stop)
    BY <1>2 DEF Calm, Post, Braked, PhaseInv, BusyInv, Propagating
  <2>2. num_active \in Nat
    BY <2>1, FS_CardinalityType DEF TallyInv
  <2>3. CASE LoopEnds
    BY <1>2, <2>1, <2>3 DEF Post, PhaseInv, BusyInv, Propagating, AtWork
  <2>4. CASE ~ LoopEnds
    <3>1. num_active = 0 => ~ stop /\ starts # 0 /\ ~ go_idle'
      BY <1>2, <2>1, <2>4 DEF Post, LoopEnds, IdleIsOver
    <3>2. /\ pc' = "sched" /\ leaving' = FALSE /\ rec_signal' = rec_signal
          /\ UNCHANGED <<num_active, starts, stop>>
      BY <1>2, <2>1, <2>4 DEF Post
    <3> QED BY <2>1, <2>2, <3>1, <3>2 DEF PhaseInv, BusyInv, Propagating, AtWork
  <2> QED BY <2>3, <2>4
<1> QED BY <1>1, <1>2

LEMMA NextPollInv ==
  ASSUME Calm PROVE PollInv /\ [Next]_vars => PollInv'
<1> SUFFICES ASSUME PollInv, [Next]_vars PROVE PollInv'
  OBVIOUS
<1>1. BooksInv' /\ TallyInv' /\ lead' = {}
  BY NextBooksInv, NextTallyInv, NobodyLeads DEF PollInv
<1>2. ~ PollFails /\ ~ ExecFails /\ ~ ExecWait /\ \A sig : ~ Signal(sig)
  BY PollSees, NothingComes DEF PollInv, BooksInv, PhaseInv, ExecWait
<1>3. PhaseInv' /\ BusyInv'
  BY <1>2, StartsStayBusy, WorkStaysBusy, ReportStaysBusy, PostStaysBusy
     DEF Next, PanStep
<1> QED BY <1>1, <1>3 DEF PollInv

(***************************************************************************)
(* With or without a log, num_active is the number of children, for any    *)
(* number of slots, commands, starts and pids, for tests that stop and     *)
(* continue, with -y, -e, -S, -t and PAN_STOP_FILE, as long as tests stay  *)
(* in ltp-pan's group and nothing stops it while it has none.              *)
(***************************************************************************)
THEOREM PollCountCorrect ==
  ASSUME Calm PROVE Spec => []CountsItsChildren
<1>1. PollInv => CountsItsChildren
  <2>1. Children \ Forking = Known
    BY PanAssumption DEF Known, Forking, Children
  <2> QED BY <2>1 DEF PollInv, TallyInv, CountsItsChildren
<1>2. PollInv /\ [Next]_vars => PollInv'
  BY NextPollInv
<1> QED BY <1>1, <1>2, InitPollInv, PTL DEF Spec

=============================================================================

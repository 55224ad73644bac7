------------------------- MODULE PanRefines_proofs -------------------------
(***************************************************************************)
(* Proofs that ltp-pan implements PanSpec, waiting with wait(), and with a *)
(* log where it counts its children rightly; and about what it has done    *)
(* when it exits.                                                          *)
(***************************************************************************)
EXTENDS Pan_proofs

(* run_child() is only called while there is a start and nobody said stop. *)
StartInv == pc \in {"start", "exec"} => ~ stop /\ starts # 0

(* The loop about orphans is for a ltp-pan that is to stop, none active.   *)
LeavingInv ==
  /\ leaving => /\ stop /\ num_active = 0
                /\ pc \in {"prop", "proporph", "propreset", "orphans", "exited"}
  /\ pc \in {"orphans", "exited"} => leaving

(* Each group that a test left behind is in the list of orphans.           *)
OrphansInv == pc # "crashed" => Orphaned \subseteq Orphans

(* What the steps of ltp-pan need to be steps of PanSpec.                  *)
PlaceInv == /\ BooksInv /\ TallyInv /\ StartInv /\ LeavingInv /\ OrphansInv
            /\ pc # "execwait"

RefineInv == CountInv /\ StartInv /\ LeavingInv /\ OrphansInv

LEMMA RefineIsPlace == RefineInv => PlaceInv
BY DEF RefineInv, PlaceInv, CountInv, KnownInv, TallyInv, NoPoll

LEMMA InitRefineInv == Init => RefineInv
<1> SUFFICES ASSUME Init PROVE RefineInv
  OBVIOUS
<1>1. StartInv /\ LeavingInv
  BY DEF Init, StartInv, LeavingInv
<1>2. OrphansInv
  BY DEF Init, ProcsInit, OrphansInv, Orphaned
<1> QED BY <1>1, <1>2, InitCountInv DEF RefineInv

-----------------------------------------------------------------------------

(***************************************************************************)
(* Which groups are orphaned after a step.                                 *)
(***************************************************************************)
LEMMA GroupSteps ==
  ASSUME ProcsTypeOK
  PROVE  /\ \A p \in FreePids : Forked(p) => Orphaned' = Orphaned
         /\ \A p \in Children : Reaped(p) =>
              Orphaned' = Orphaned \cup ({p} \cap kids)
         /\ \A p \in Pids : Told(p) => Orphaned' = Orphaned
         /\ \A P, sig : Signalled(P, sig) => Orphaned' \subseteq Orphaned
         /\ ProcsNext => Orphaned' \subseteq Orphaned
         /\ UNCHANGED procvars => Orphaned' = Orphaned
<1> USE DEF ProcsTypeOK, Orphaned
<1>1. ASSUME NEW p \in FreePids, Forked(p) PROVE Orphaned' = Orphaned
  BY <1>1 DEF FreePids, Forked
<1>2. ASSUME NEW p \in Children, Reaped(p)
      PROVE  Orphaned' = Orphaned \cup ({p} \cap kids)
  BY <1>2 DEF Children, Reaped
<1>3. ASSUME NEW P, NEW sig, Signalled(P, sig)
      PROVE  Orphaned' \subseteq Orphaned
  BY <1>3 DEF Signalled
<1>4. ASSUME ProcsNext PROVE Orphaned' \subseteq Orphaned
  <2>1. ASSUME NEW p \in Pids, NEW how \in Codes, TestEnds(p, how)
        PROVE  Orphaned' \subseteq Orphaned
    BY <2>1 DEF TestEnds
  <2>2. ASSUME NEW p \in Pids, TestLeads(p) \/ TestForks(p) \/ KidsEnd(p)
        PROVE  Orphaned' \subseteq Orphaned
    BY <2>2 DEF TestLeads, TestForks, KidsEnd
  <2>3. ASSUME NEW p \in Pids, TestStops(p) \/ TestContinues(p)
        PROVE  Orphaned' \subseteq Orphaned
    BY <2>3 DEF TestStops, TestContinues
  <2> QED BY <1>4, <2>1, <2>2, <2>3 DEF ProcsNext
<1>5. ASSUME UNCHANGED procvars PROVE Orphaned' = Orphaned
  BY <1>5 DEF procvars
<1>6. ASSUME NEW p \in Pids, Told(p) PROVE Orphaned' = Orphaned
  BY <1>6 DEF Told
<1> QED BY <1>1, <1>2, <1>3, <1>4, <1>5, <1>6

(***************************************************************************)
(* A report that a test has ended, and one of something else.              *)
(***************************************************************************)
LEMMA ReportGroups ==
  ASSUME TypeInv, pc \in {"wait", "poll"}, NEW p \in Children, Report(p)
  PROVE  /\ st[p] = "zombie" =>
              /\ Known' = Known \ {p}
              /\ Orphaned' = Orphaned \cup ({p} \cap kids)
         /\ st[p] # "zombie" => Known' = Known /\ Orphaned' = Orphaned
<1> USE DEF TypeInv, PanTypeOK
<1>1. p \in Pids /\ cpid = NoPid /\ cpid' = NoPid /\ NoPid \notin Children
  BY PanAssumption DEF Children, CpidIsChild, Report
<1>2. CASE st[p] = "zombie"
  BY <1>1, <1>2, ChildrenSteps, GroupSteps DEF Report, Known
<1>3. CASE st[p] # "zombie"
  BY <1>1, <1>3, ChildrenSteps, GroupSteps DEF Report, Known
<1> QED BY <1>2, <1>3

(***************************************************************************)
(* A test that wait() tells of leaves a group only if it is noted.         *)
(***************************************************************************)
LEMMA WaitGroups ==
  ASSUME RefineInv, WaitReports PROVE OrphansInv'
<1> USE DEF RefineInv, CountInv, BooksInv, TypeInv, PanTypeOK
<1>1. PICK p \in Zombies : Report(p)
  BY DEF WaitReports
<1>2. /\ pc = "wait" /\ p \in Pids /\ p \in Children /\ st[p] = "zombie"
      /\ cpid = NoPid /\ cpid' = NoPid /\ NoPid \notin Children
  BY <1>1, PanAssumption DEF WaitReports, Zombies, Children, CpidIsChild, Report
<1>3. Orphaned' = Orphaned \cup ({p} \cap kids) /\ p \in Known
  BY <1>1, <1>2, ReportGroups DEF Known
<1>4. SlotsOf(p) # {}
  BY <1>2, <1>3 DEF KnownInv
<1>5. ASSUME pc' # "crashed" PROVE Orphaned' \subseteq Orphans'
  <2>1. orphans' = IF LeavesGroup(p) THEN [orphans EXCEPT ![p] = @ + 1]
                   ELSE orphans
    BY <1>1, <1>4, <1>5 DEF Report, FreeSlot
  <2>2. Orphaned \subseteq Orphans
    BY <1>2 DEF OrphansInv
  <2>3. Orphans \subseteq Orphans'
    BY <1>2, <2>1 DEF Orphans
  <2>4. p \in kids => p \in Orphans'
    BY <1>2, <2>1 DEF ProcsTypeOK, LeavesGroup, Orphans
  <2> QED BY <1>3, <2>2, <2>3, <2>4
<1> QED BY <1>5 DEF OrphansInv

(***************************************************************************)
(* Every other step keeps the list, or takes groups that are gone from it. *)
(***************************************************************************)
LEMMA OtherGroups ==
  ASSUME PlaceInv, [Next]_vars, ~ (WaitReports \/ PollReports \/ PollFails)
  PROVE  /\ Orphaned' \subseteq Orphaned
         /\ Propagate \/ PropagateOrphans \/ Check \/ ProcsStep
            \/ Orphaned' = Orphaned
         /\ OrphansInv'
<1> USE DEF PlaceInv, BooksInv, TypeInv, PanTypeOK
<1>1. CASE \/ PickSlot \/ EndStarts \/ NoSlot \/ NoSignal \/ Usr2 \/ PassItOn
           \/ PropagateEnds \/ NoChild \/ Post \/ HuntOrphans \/ Exits
           \/ StartFails \/ ExecFails \/ Executed \/ PollQuiet \/ PollTimesOut
           \/ (\E sig \in Signals : Signal(sig)) \/ UNCHANGED vars
  <2>1. UNCHANGED procvars /\ UNCHANGED orphans
    BY <1>1 DEF PickSlot, EndStarts, NoSlot, NoSignal, Usr2, PassItOn,
       PropagateEnds, NoChild, Post, HuntOrphans, Exits, StartFails, ExecFails,
       Executed, PollQuiet, PollTimesOut, Signal, vars, bookvars
  <2>2. pc = "crashed" => pc' = "crashed"
    BY <1>1 DEF PickSlot, EndStarts, NoSlot, NoSignal, Usr2, PassItOn,
       PropagateEnds, NoChild, Post, HuntOrphans, Exits, StartFails, ExecFails,
       Executed, PollQuiet, PollTimesOut, Signal, Ended, vars
  <2>3. Orphaned' = Orphaned
    BY <2>1, GroupSteps
  <2> QED BY <2>1, <2>2, <2>3 DEF OrphansInv, Orphans
<1>2. CASE Fork
  <2>1. PICK p \in FreePids : Forked(p)
    BY <1>2 DEF Fork
  <2>2. Orphaned' = Orphaned
    BY <2>1, GroupSteps
  <2> QED BY <1>2, <2>2 DEF Fork, OrphansInv, Orphans, bookvars
<1>3. CASE Propagate \/ ProcsStep
  <2>1. Orphaned' \subseteq Orphaned
    BY <1>3, GroupSteps DEF Propagate, ProcsStep
  <2> QED BY <1>3, <2>1
          DEF Propagate, ProcsStep, OrphansInv, Orphans, bookvars
<1>4. CASE PropagateOrphans \/ Check
  <2>1. PICK sig : CheckOrphans(sig)
    BY <1>4 DEF PropagateOrphans, Check
  <2>2. Orphaned' \subseteq Orphaned
    BY <2>1, GroupSteps DEF CheckOrphans
  <2>3. Orphaned \subseteq Orphans
    BY <1>4 DEF OrphansInv, PropagateOrphans, Check
  <2>4. Orphaned \subseteq lead
    BY DEF Orphaned
  <2>5. ASSUME NEW p \in Orphaned PROVE p \in Orphans'
    <3>1. p \in Pids /\ p \in Orphans /\ p \in lead
      BY <2>3, <2>4 DEF ProcsTypeOK
    <3>2. orphans'[p] = orphans[p]
      BY <2>1, <3>1 DEF CheckOrphans
    <3> QED BY <3>1, <3>2 DEF Orphans
  <2> QED BY <1>4, <2>2, <2>5 DEF OrphansInv
<1>5. ~ ExecWait
  BY DEF ExecWait
<1> QED BY <1>1, <1>2, <1>3, <1>4, <1>5 DEF Next, PanStep

(***************************************************************************)
(* Where ltp-pan is, whether it may start, and whether it leaves.          *)
(***************************************************************************)
LEMMA NextPlace ==
  ASSUME StartInv, LeavingInv, [Next]_vars PROVE StartInv' /\ LeavingInv'
<1> USE DEF StartInv, LeavingInv
<1>1. CASE PickSlot \/ EndStarts \/ NoSlot
  BY <1>1 DEF PickSlot, EndStarts, NoSlot, MayStart
<1>2. CASE StartFails \/ ExecFails \/ Fork \/ Executed \/ ExecWait
  BY <1>2 DEF StartFails, ExecFails, Fork, Executed, ExecWait
<1>3. CASE NoSignal \/ Usr2 \/ PassItOn
  BY <1>3 DEF NoSignal, Usr2, PassItOn, schedvars
<1>4. CASE Propagate \/ PropagateOrphans \/ PropagateEnds
  BY <1>4 DEF Propagate, PropagateOrphans, PropagateEnds, schedvars
<1>5. CASE Check \/ WaitReports \/ NoChild
  BY <1>5 DEF Check, WaitReports, Report, FreeSlot, NoChild, schedvars
<1>6. CASE PollReports \/ PollQuiet \/ PollFails \/ PollTimesOut
  BY <1>6 DEF PollReports, Report, FreeSlot, PollQuiet, PollFails, PollTimesOut,
     schedvars
<1>7. CASE Post \/ HuntOrphans \/ Exits
  BY <1>7 DEF Post, LoopEnds, HuntOrphans, Exits, schedvars
<1>8. ASSUME NEW sig \in Signals, Signal(sig) PROVE StartInv' /\ LeavingInv'
  BY <1>8 DEF Signal, Ended
<1>9. CASE ProcsStep \/ UNCHANGED vars
  BY <1>9 DEF ProcsStep, vars, schedvars
<1> QED BY <1>1, <1>2, <1>3, <1>4, <1>5, <1>6, <1>7, <1>8, <1>9 DEF Next, PanStep

LEMMA NextRefineInv ==
  ASSUME Waits PROVE RefineInv /\ [Next]_vars => RefineInv'
<1> SUFFICES ASSUME RefineInv, [Next]_vars PROVE RefineInv'
  OBVIOUS
<1>1. CountInv'
  BY NextCountInv DEF RefineInv
<1>2. StartInv' /\ LeavingInv'
  BY NextPlace DEF RefineInv
<1>3. OrphansInv'
  <2>1. ~ PollReports /\ ~ PollFails
    BY DEF RefineInv, CountInv, NoPoll, PollReports, PollFails
  <2> QED BY <2>1, RefineIsPlace, WaitGroups, OtherGroups
<1> QED BY <1>1, <1>2, <1>3 DEF RefineInv

-----------------------------------------------------------------------------

Active == Children \ Forking

LEMMA ActiveIsKnown == Active = Known /\ Active' = Known'
BY PanAssumption DEF Active, Known, Forking, Children

LEMMA PhaseIs ==
  /\ pc = "exited" => Phase = "exited"
  /\ pc \in {"crashed", "reboot"} => Phase = "gone"
  /\ pc \notin {"exited", "crashed", "reboot"} => Phase = "running"
  /\ pc' = "exited" => Phase' = "exited"
  /\ pc' \in {"crashed", "reboot"} => Phase' = "gone"
  /\ pc' \notin {"exited", "crashed", "reboot"} => Phase' = "running"
BY DEF Phase

(* PanSpec's Cardinality is that of FiniteSets.                            *)
LEMMA SameCardinality == \A S : Abstract!Cardinality(S) = Cardinality(S)
BY Zenon DEF Abstract!Cardinality, Cardinality

(***************************************************************************)
(* A command runs: there was room, and a start was left.                   *)
(***************************************************************************)
LEMMA StartImplemented ==
  ASSUME PlaceInv, Executed, Orphaned' = Orphaned
  PROVE  Abstract!Next
<1> USE DEF PlaceInv, BooksInv, TypeInv, PanTypeOK
<1>1. pc = "exec" /\ Phase = "running" /\ stop' = stop
  BY PhaseIs DEF Executed
<1>2. CASE pc' = "crashed"
  BY <1>1, <1>2, PhaseIs DEF Abstract!Fail, Abstract!Next
<1>3. CASE pc' # "crashed"
  <2>1. /\ pc' = "sched" /\ cpid' = NoPid
        /\ starts' = IF starts > 0 THEN starts - 1 ELSE starts
    BY <1>3 DEF Executed, Started
  <2>2. Children' = Children /\ NoPid \notin Children
    BY ChildrenSteps, PanAssumption DEF Executed, Children
  <2>3. cpid \in Children /\ cpid \in Pids
    BY <1>1 DEF CpidIsChild, Children
  <2>4. Active' = Active \cup {cpid} /\ cpid \notin Active
    BY <2>1, <2>2, <2>3, ActiveIsKnown DEF Known
  <2>5. Cardinality(Active) < KeepActive
    BY <1>1, ActiveIsKnown DEF TallyInv, RoomForOne
  <2>6. ~ stop /\ starts # 0
    BY <1>1 DEF StartInv
  <2>7. Phase' = Phase /\ starts' = Abstract!Used
    BY <1>1, <2>1, PhaseIs DEF Abstract!Used
  <2>8. Abstract!Start(cpid)
    BY <1>1, <2>4, <2>5, <2>6, <2>7, SameCardinality DEF Active, Abstract!Start
  <2> QED BY <2>3, <2>8 DEF Abstract!Next
<1> QED BY <1>2, <1>3

(***************************************************************************)
(* wait() or waitpid() tells of a test: that it has ended, or else of      *)
(* something that PanSpec does not see.                                    *)
(***************************************************************************)
LEMMA ReportImplemented ==
  ASSUME PlaceInv, pc \in {"wait", "poll"}, NEW p \in Children, Report(p),
         \/ Known' = Known \ {p} /\ Orphaned' \in {Orphaned, Orphaned \cup {p}}
         \/ Known' = Known /\ Orphaned' = Orphaned
  PROVE  Abstract!Next \/ UNCHANGED <<Phase, starts, Active, Orphaned, stop>>
<1>1. /\ Phase = "running" /\ pc' \in {"post", "crashed"}
      /\ starts' = starts /\ stop' = stop
  BY PhaseIs DEF Report, FreeSlot
<1>2. CASE pc' = "crashed"
  BY <1>1, <1>2, PhaseIs DEF Abstract!Fail, Abstract!Next
<1>3. CASE pc' = "post" /\ Known' = Known \ {p}
  <2>1. p \in Pids /\ p \in Known
    BY PanAssumption
       DEF PlaceInv, BooksInv, TypeInv, CpidIsChild, Known, Children
  <2>2. p \in Active /\ Active' = Active \ {p}
    BY <1>3, <2>1, ActiveIsKnown
  <2>3. Orphaned' \in {Orphaned, Orphaned \cup {p}}
    BY <1>3, <2>1
  <2>4. Abstract!Finish(p)
    BY <1>1, <1>3, <2>2, <2>3, PhaseIs DEF Active, Abstract!Finish
  <2> QED BY <2>1, <2>4 DEF Abstract!Next
<1>4. CASE pc' = "post" /\ Known' = Known /\ Orphaned' = Orphaned
  BY <1>1, <1>4, PhaseIs, ActiveIsKnown
<1> QED BY <1>1, <1>2, <1>3, <1>4

(***************************************************************************)
(* The other steps: groups die, ltp-pan is told to stop or to skip a       *)
(* command it cannot start, it exits; most of them PanSpec does not see.   *)
(***************************************************************************)
LEMMA OtherImplemented ==
  ASSUME PlaceInv, [Next]_vars,
         ~ (Executed \/ WaitReports \/ PollReports \/ PollFails)
  PROVE  Abstract!Next \/ UNCHANGED <<Phase, starts, Active, Orphaned, stop>>
<1> DEFINE Goal ==
      Abstract!Next \/ UNCHANGED <<Phase, starts, Active, Orphaned, stop>>
<1> USE DEF PlaceInv, BooksInv, TypeInv, PanTypeOK
<1>1. Active' = Active /\ Orphaned' \subseteq Orphaned
  BY SameSteps, OtherGroups, ActiveIsKnown DEF SameKnown
<1>0. ASSUME Phase = "running", Phase' = "gone", stop' = stop PROVE Goal
  BY <1>0 DEF Abstract!Fail, Abstract!Next
<1>2. CASE Propagate \/ PropagateOrphans \/ Check \/ ProcsStep
  <2>1. starts' = starts /\ stop' = stop
    BY <1>2 DEF Propagate, PropagateOrphans, Check, ProcsStep, schedvars
  <2>2. CASE Check /\ pc' = "crashed"
    BY <1>0, <2>1, <2>2, PhaseIs DEF Check
  <2>3. CASE ~ (Check /\ pc' = "crashed")
    <3>1. Phase' = Phase
      BY <1>2, <2>3, PhaseIs DEF Propagate, PropagateOrphans, Check, ProcsStep,
         Phase
    <3>2. Abstract!Clean
      BY <1>1, <2>1, <3>1 DEF Active, Abstract!Clean
    <3> QED BY <3>2 DEF Abstract!Next
  <2> QED BY <2>2, <2>3
<1>3. CASE Orphaned' = Orphaned
  <2>1. CASE \/ PickSlot \/ Fork \/ NoSignal \/ PassItOn \/ NoChild
             \/ HuntOrphans \/ Post \/ PollQuiet
    <3>1. starts' = starts /\ stop' = stop /\ Phase = "running"
      BY <2>1, PhaseIs DEF PickSlot, Fork, NoSignal, PassItOn, NoChild,
         HuntOrphans, Post, PollQuiet, schedvars
    <3>2. Phase' = "running"
      BY <2>1, PhaseIs DEF PickSlot, Fork, NoSignal, PassItOn, NoChild,
         HuntOrphans, Post, PollQuiet
    <3> QED BY <1>1, <1>3, <3>1, <3>2
  <2>2. ASSUME NEW sig \in Signals, Signal(sig) PROVE Goal
    <3>1. starts' = starts /\ stop' = stop /\ Phase = "running"
      BY <2>2, PhaseIs DEF Signal, Ended
    <3>2. pc' \notin {"exited", "reboot"}
      BY <2>2 DEF Signal, Ended
    <3> QED BY <1>0, <1>1, <1>3, <3>1, <3>2, PhaseIs
  <2>3. CASE UNCHANGED vars
    BY <1>1, <1>3, <2>3 DEF vars, schedvars, Phase
  <2>4. CASE EndStarts \/ NoSlot \/ Usr2 \/ PropagateEnds
    <3>1. Phase = "running" /\ Phase' = "running" /\ starts' = starts
      BY <2>4, PhaseIs DEF EndStarts, NoSlot, Usr2, PropagateEnds
    <3>2. stop' = TRUE \/ stop' = stop
      BY <2>4, PanAssumption
         DEF EndStarts, NoSlot, StopIfDone, Usr2, PropagateEnds, ShutDown
    <3>3. CASE stop' = TRUE
      <4>1. Abstract!ShutDown
        BY <1>1, <1>3, <3>1, <3>3 DEF Active, Abstract!ShutDown
      <4> QED BY <4>1 DEF Abstract!Next
    <3>4. CASE stop' = stop
      BY <1>1, <1>3, <3>1, <3>4
    <3> QED BY <3>2, <3>3, <3>4
  <2>5. CASE StartFails \/ ExecFails
    <3>1. /\ Phase = "running" /\ Phase' = "running"
          /\ ~ stop /\ stop' = stop
      BY <2>5, PhaseIs DEF StartFails, ExecFails, StartInv
    <3>2. starts' = starts \/ (starts > 0 /\ starts' = starts - 1)
      BY <2>5 DEF StartFails, ExecFails, NotStarted
    <3>3. CASE starts' = starts
      BY <1>1, <1>3, <3>1, <3>3
    <3>4. CASE starts > 0 /\ starts' = starts - 1
      <4>1. Abstract!Skip
        BY <1>1, <1>3, <3>1, <3>4 DEF Active, Abstract!Skip, Abstract!Used
      <4> QED BY <4>1 DEF Abstract!Next
    <3> QED BY <3>2, <3>3, <3>4
  <2>6. CASE Exits
    <3>1. /\ pc = "orphans" /\ Phase = "running" /\ Phase' = "exited"
          /\ starts' = starts /\ stop' = stop /\ Orphans = {}
      BY <2>6, PhaseIs DEF Exits, schedvars
    <3>2. stop /\ num_active = 0
      BY <3>1 DEF LeavingInv
    <3>3. Active = {}
      BY <3>1, <3>2, ActiveIsKnown, FS_EmptySet DEF TallyInv
    <3>4. Orphaned = {}
      BY <3>1 DEF OrphansInv
    <3>5. Abstract!Exit
      BY <1>1, <1>3, <3>1, <3>2, <3>3, <3>4 DEF Active, Abstract!Exit
    <3> QED BY <3>5 DEF Abstract!Next
  <2>7. CASE PollTimesOut
    BY <1>0, <2>7, PhaseIs DEF PollTimesOut, schedvars
  <2>8. ~ ExecWait
    BY DEF ExecWait
  <2> QED BY <1>2, <2>1, <2>2, <2>3, <2>4, <2>5, <2>6, <2>7, <2>8
         DEF Next, PanStep
<1> QED BY <1>2, <1>3, OtherGroups

LEMMA ExecutedImplemented ==
  ASSUME PlaceInv, Executed PROVE Abstract!Next
<1>1. Orphaned' = Orphaned
  BY GroupSteps DEF Executed, PlaceInv, BooksInv, TypeInv, PanTypeOK
<1> QED BY <1>1, StartImplemented

LEMMA InitImplemented == Init => Abstract!Init
<1> SUFFICES ASSUME Init PROVE Abstract!Init
  OBVIOUS
<1>1. Children \ Forking = {} /\ Orphaned = {}
  BY DEF Init, ProcsInit, Children, Orphaned
<1>2. Phase = "running" /\ starts \in {FirstStarts(o) : o \in Options}
  BY DEF Init, Phase
<1> QED BY <1>1, <1>2 DEF Init, Abstract!Init

(***************************************************************************)
(* ltp-pan, waiting with wait(), implements PanSpec, for any number of     *)
(* slots and commands and whatever is signalled or fails: never more than  *)
(* -x active, no more starts than were asked for, none after it was told   *)
(* to stop, and when it exits no test and no orphaned group is left.       *)
(***************************************************************************)
THEOREM PanRefinement ==
  ASSUME ~ LogFile, ~ SignalsInExec PROVE Spec => ImplementsPanSpec
<1>0. Waits
  BY DEF Waits
<1>1. RefineInv /\ [Next]_vars =>
        [Abstract!Next]_<<Phase, starts, Children \ Forking, Orphaned, stop>>
  <2> SUFFICES ASSUME RefineInv, [Next]_vars
               PROVE  \/ Abstract!Next
                      \/ UNCHANGED <<Phase, starts, Active, Orphaned, stop>>
    BY DEF Active
  <2>1. CASE Executed
    BY <2>1, ExecutedImplemented, RefineIsPlace
  <2>2. CASE WaitReports
    <3>1. PICK p \in Zombies : Report(p)
      BY <2>2 DEF WaitReports
    <3>2. p \in Children /\ pc = "wait"
      BY <2>2 DEF WaitReports, Zombies, Children
    <3>3. /\ Known' = Known \ {p}
          /\ Orphaned' \in {Orphaned, Orphaned \cup {p}}
      BY <3>1, <3>2, ReportGroups DEF RefineInv, CountInv, BooksInv, Zombies
    <3> QED BY <3>1, <3>2, <3>3, ReportImplemented, RefineIsPlace
  <2>3. CASE ~ Executed /\ ~ WaitReports
    <3>1. ~ PollReports /\ ~ PollFails
      BY DEF RefineInv, CountInv, NoPoll, PollReports, PollFails
    <3> QED BY <2>3, <3>1, OtherImplemented, RefineIsPlace
  <2> QED BY <2>1, <2>2, <2>3
<1>2. RefineInv /\ [Next]_vars => RefineInv'
  BY <1>0, NextRefineInv
<1>3. QED
  BY <1>1, <1>2, InitImplemented, InitRefineInv, PTL
     DEF Spec, ImplementsPanSpec, Abstract!Spec, Abstract!vars

-----------------------------------------------------------------------------

(***************************************************************************)
(* The same with a log.  No group is ever orphaned; a stop or a continue   *)
(* that waitpid() tells of, and a slot that is polled in vain, are nothing *)
(* to PanSpec, and the reboot is a failure.                                *)
(***************************************************************************)
PollRefineInv == PollInv /\ StartInv /\ LeavingInv

LEMMA PollIsPlace == PollRefineInv => PlaceInv
BY DEF PollRefineInv, PollInv, PhaseInv, PlaceInv, OrphansInv, Orphaned

LEMMA InitPollRefineInv == Init => PollRefineInv
BY InitRefineInv, InitPollInv DEF RefineInv, PollRefineInv

LEMMA NextPollRefineInv ==
  ASSUME Calm PROVE PollRefineInv /\ [Next]_vars => PollRefineInv'
BY NextPollInv, NextPlace DEF PollRefineInv

(***************************************************************************)
(* Each report is a test's end or nothing: there is no group to leave.     *)
(***************************************************************************)
LEMMA PollReportImplemented ==
  ASSUME PollRefineInv, WaitReports \/ PollReports
  PROVE  Abstract!Next \/ UNCHANGED <<Phase, starts, Active, Orphaned, stop>>
<1>1. PICK p \in Children : Report(p)
  BY DEF WaitReports, PollReports, Waited, Zombies, Children
<1>2. pc \in {"wait", "poll"}
  BY DEF WaitReports, PollReports
<1>3. kids = {} /\ TypeInv
  BY DEF PollRefineInv, PollInv, BooksInv, TypeInv, PanTypeOK, ProcsTypeOK
<1>4. \/ Known' = Known \ {p} /\ Orphaned' \in {Orphaned, Orphaned \cup {p}}
      \/ Known' = Known /\ Orphaned' = Orphaned
  BY <1>1, <1>2, <1>3, ReportGroups
<1> QED BY <1>1, <1>2, <1>4, PollIsPlace, ReportImplemented

(***************************************************************************)
(* With a log too ltp-pan implements PanSpec, under the conditions under   *)
(* which it counts its children: it keeps to -x and to its starts, and it  *)
(* exits only when no test is left.                                        *)
(***************************************************************************)
THEOREM PollRefinement ==
  ASSUME Calm PROVE Spec => ImplementsPanSpec
<1>1. PollRefineInv /\ [Next]_vars =>
        [Abstract!Next]_<<Phase, starts, Children \ Forking, Orphaned, stop>>
  <2> SUFFICES ASSUME PollRefineInv, [Next]_vars
               PROVE  \/ Abstract!Next
                      \/ UNCHANGED <<Phase, starts, Active, Orphaned, stop>>
    BY DEF Active
  <2>1. CASE Executed
    BY <2>1, ExecutedImplemented, PollIsPlace
  <2>2. CASE WaitReports \/ PollReports
    BY <2>2, PollReportImplemented
  <2>3. CASE ~ (Executed \/ WaitReports \/ PollReports)
    BY <2>3, PollSees, OtherImplemented, PollIsPlace DEF PollRefineInv
  <2> QED BY <2>1, <2>2, <2>3
<1>2. PollRefineInv /\ [Next]_vars => PollRefineInv'
  BY NextPollRefineInv
<1>3. QED
  BY <1>1, <1>2, InitImplemented, InitPollRefineInv, PTL
     DEF Spec, ImplementsPanSpec, Abstract!Spec, Abstract!vars

-----------------------------------------------------------------------------

(***************************************************************************)
(* What ltp-pan has done when it exits, waiting with wait(): its exit      *)
(* status tells of the tests that failed, and it has used its starts       *)
(* unless something made it stop.                                          *)
(***************************************************************************)

(***************************************************************************)
(* "Aborting" is never reached: each slot in use holds a child of its own, *)
(* so with fewer than -x children one of the -x slots is free.             *)
(***************************************************************************)
LEMMA ASlotIsFree == ASSUME BooksInv, TallyInv PROVE ~ NoSlot
<1> SUFFICES ASSUME NoSlot PROVE FALSE
  OBVIOUS
<1>1. /\ pc # "crashed" /\ num_active < KeepActive
      /\ \A s \in Slots : pgrp[s] # NoPid
  BY DEF NoSlot, MayStart, FreeSlots
<1>2. IsFiniteSet(Known) /\ num_active = Cardinality(Known)
  BY <1>1 DEF TallyInv
<1>3. pgrp \in [Slots -> Known]
  BY <1>1 DEF BooksInv, SlotsInv, TypeInv, PanTypeOK
<1>4. \A s, t \in Slots : pgrp[s] = pgrp[t] => s = t
  BY <1>1 DEF BooksInv, SlotsInv
<1>5. IsFiniteSet(Slots) /\ Cardinality(Slots) = KeepActive
  BY FS_Interval, PanAssumption DEF Slots
<1>6. Cardinality(Known) \in Nat /\ Cardinality(Known) < Cardinality(Slots)
  BY <1>1, <1>2, <1>5, FS_CardinalityType
<1>7. \E s, t \in Slots : s # t /\ pgrp[s] = pgrp[t]
  BY <1>2, <1>3, <1>5, <1>6, FS_PigeonHole
<1> QED BY <1>4, <1>7

-----------------------------------------------------------------------------

(***************************************************************************)
(* Why ltp-pan may stop.                                                   *)
(***************************************************************************)
Reason == \/ starts = 0
          \/ signals # 0
          \/ opt.has_brakes /\ failed
          \/ FirstStarts(opt) = -1

(* Only who began without a limit has none.                                *)
LimitInv == starts = -1 => FirstStarts(opt) = -1

(***************************************************************************)
(* A stop, a signal noted and one that is being passed on have a reason.   *)
(***************************************************************************)
StopInv ==
  (stop \/ rec_signal # "none" \/ pc \in {"prop", "proporph", "propreset"})
    => Reason

(***************************************************************************)
(* wait() tells of tests that have ended; waitpid() also of one that was   *)
(* stopped or continued, which counts as failed whatever becomes of it.    *)
(***************************************************************************)
ToldOfEnds == ~ LogFile \/ ~ MayStop

(***************************************************************************)
(* A failure that check_pids() has returned, a zombie's, and one counted:  *)
(* each is of a test that failed, and none that exited with 1 is lost on   *)
(* the way from its zombie through err to exit_stat.                       *)
(***************************************************************************)
FailedInv ==
  /\ err => pc \in {"post", "crashed"}
  /\ \A p \in Pids : st[p] = "zombie" /\ code[p] # "0" => failed
  /\ ToldOfEnds =>
       /\ err => failed
       /\ exit_stat # 0 => faults # 0 \/ (opt.track_exit_stats /\ failed)

GaveOneInv ==
  gaveOne => \/ ~ opt.track_exit_stats
             \/ exit_stat # 0 \/ wrapped
             \/ err
             \/ \E p \in Pids : st[p] = "zombie" /\ code[p] = "1"

EndInv == RefineInv /\ LimitInv /\ StopInv /\ FailedInv /\ GaveOneInv

LEMMA InitEndInv == Init => EndInv
<1> SUFFICES ASSUME Init PROVE EndInv
  OBVIOUS
<1>1. LimitInv /\ StopInv
  BY DEF Init, LimitInv, StopInv
<1>2. FailedInv /\ GaveOneInv
  BY DEF Init, ProcsInit, FailedInv, GaveOneInv
<1> QED BY <1>1, <1>2, InitRefineInv DEF EndInv

-----------------------------------------------------------------------------

(***************************************************************************)
(* What a step of the tests, or one of ltp-pan's about them, does to who   *)
(* has failed: nothing is taken back.                                      *)
(***************************************************************************)
TestsKeep ==
  /\ failed => failed'
  /\ \A p \in Pids : st'[p] = "zombie" /\ code'[p] # "0" => failed'
  /\ gaveOne' => \/ gaveOne
                 \/ \E p \in Pids : st'[p] = "zombie" /\ code'[p] = "1"
  /\ \A p \in Pids : st[p] = "zombie" /\ code[p] = "1" =>
                       st'[p] = "zombie" /\ code'[p] = "1"

LEMMA TestsSteps ==
  ASSUME ProcsTypeOK, FailedInv
  PROVE  /\ \A p \in FreePids : Forked(p) => TestsKeep
         /\ \A P, sig : Signalled(P, sig) => TestsKeep
         /\ ProcsNext => TestsKeep
         /\ UNCHANGED procvars => TestsKeep
<1> USE DEF ProcsTypeOK, FailedInv, TestsKeep
<1>1. ASSUME NEW p \in FreePids, Forked(p) PROVE TestsKeep
  BY <1>1 DEF FreePids, Forked
<1>2. ASSUME NEW P, NEW sig, Signalled(P, sig) PROVE TestsKeep
  <2> DEFINE Hit == IF sig = "KILL" THEN P \cap lead ELSE {}
             Dead == {p \in Hit : st[p] \in {"run", "stopped"}}
  <2>1. \A p \in Pids : /\ st'[p] = IF p \in Dead THEN "zombie" ELSE st[p]
                        /\ code'[p] = IF p \in Dead THEN "signal" ELSE code[p]
    BY <1>2 DEF Signalled
  <2>2. failed' = (failed \/ Dead # {}) /\ gaveOne' = gaveOne
    BY <1>2 DEF Signalled
  <2>3. \A p \in Pids : st[p] = "zombie" => p \notin Dead
    OBVIOUS
  <2> HIDE DEF Dead
  <2>4. \A p \in Pids : st'[p] = "zombie" /\ code'[p] # "0" => failed'
    BY <2>1, <2>2
  <2>5. \A p \in Pids : st[p] = "zombie" /\ code[p] = "1" =>
                          st'[p] = "zombie" /\ code'[p] = "1"
    BY <2>1, <2>3
  <2> QED BY <2>2, <2>4, <2>5
<1>3. ASSUME ProcsNext PROVE TestsKeep
  <2>1. ASSUME NEW p \in Pids, NEW how \in Codes, TestEnds(p, how)
        PROVE  TestsKeep
    <3>1. /\ st[p] = "run" /\ how \in Codes \cup {"0", "signal"}
          /\ \A q \in Pids : /\ st'[q] = IF q = p THEN "zombie" ELSE st[q]
                             /\ code'[q] = IF q = p THEN how ELSE code[q]
          /\ failed' = (failed \/ how # "0")
          /\ gaveOne' = (gaveOne \/ how = "1")
      BY <2>1 DEF TestEnds
    <3>2. \A q \in Pids : st'[q] = "zombie" /\ code'[q] # "0" => failed'
      BY <3>1
    <3>3. \A q \in Pids : st[q] = "zombie" /\ code[q] = "1" =>
                            st'[q] = "zombie" /\ code'[q] = "1"
      BY <3>1
    <3>4. gaveOne' => \/ gaveOne
                      \/ \E q \in Pids : st'[q] = "zombie" /\ code'[q] = "1"
      BY <3>1
    <3> QED BY <3>1, <3>2, <3>3, <3>4
  <2>2. ASSUME NEW p \in Pids, TestLeads(p) \/ TestForks(p) \/ KidsEnd(p)
        PROVE  TestsKeep
    BY <2>2 DEF TestLeads, TestForks, KidsEnd
  <2>3. ASSUME NEW p \in Pids, TestStops(p) \/ TestContinues(p)
        PROVE  TestsKeep
    BY <2>3 DEF TestStops, TestContinues
  <2> QED BY <1>3, <2>1, <2>2, <2>3 DEF ProcsNext
<1>4. ASSUME UNCHANGED procvars PROVE TestsKeep
  BY <1>4 DEF procvars
<1> QED BY <1>1, <1>2, <1>3, <1>4

(***************************************************************************)
(* The steps that look at no wait status and count no failure.             *)
(***************************************************************************)
Uncounted ==
  /\ TestsKeep
  /\ err' = err /\ (err => pc' = pc)
  /\ \/ UNCHANGED exitvars /\ (faults # 0 => faults' # 0)
     \/ (exit_stat' # 0 \/ wrapped') /\ faults' # 0
  /\ opt' = opt

LEMMA UncountedKeeps ==
  ASSUME FailedInv, GaveOneInv, Uncounted PROVE FailedInv' /\ GaveOneInv'
<1>1. FailedInv'
  BY DEF FailedInv, Uncounted, TestsKeep, exitvars
<1>2. exit_stat # 0 \/ wrapped => exit_stat' # 0 \/ wrapped'
  BY DEF Uncounted, exitvars
<1>3. GaveOneInv'
  BY <1>2 DEF GaveOneInv, Uncounted, TestsKeep
<1> QED BY <1>1, <1>3

LEMMA UncountedSteps ==
  ASSUME PlaceInv, FailedInv, pc # "execwait", [Next]_vars,
         ~ (WaitReports \/ PollReports \/ Post)
  PROVE  Uncounted
<1> USE DEF PlaceInv, BooksInv, TypeInv, PanTypeOK
<1>0. ~ NoSlot
  BY ASlotIsFree
<1>1. ASSUME PickSlot \/ EndStarts \/ StartFails \/ ExecFails \/ Executed
             \/ NoSignal \/ Usr2 \/ PassItOn \/ PropagateEnds \/ HuntOrphans
      PROVE  Uncounted
  <2>1. TestsKeep
    BY <1>1, TestsSteps DEF PickSlot, EndStarts, StartFails, ExecFails, Executed,
       NoSignal, Usr2, PassItOn, PropagateEnds, HuntOrphans
  <2>2. /\ UNCHANGED <<err, exitvars, opt>> /\ pc \notin {"post", "crashed"}
        /\ faults # 0 => faults' # 0
    BY <1>1, PanAssumption DEF PickSlot, EndStarts, StartFails, ExecFails,
       Executed, NoSignal, Usr2, PassItOn, PropagateEnds, HuntOrphans, Fault,
       schedvars
  <2> QED BY <2>1, <2>2 DEF Uncounted, FailedInv
<1>2. ASSUME Fork \/ Propagate \/ PropagateOrphans \/ Check PROVE Uncounted
  <2>1. TestsKeep
    BY <1>2, TestsSteps
       DEF Fork, Propagate, PropagateOrphans, Check, CheckOrphans
  <2>2. /\ UNCHANGED <<err, exitvars, opt, faults>>
        /\ pc \notin {"post", "crashed"}
    BY <1>2 DEF Fork, Propagate, PropagateOrphans, Check, schedvars
  <2> QED BY <2>1, <2>2 DEF Uncounted, FailedInv
<1>3. ASSUME NoChild \/ PollQuiet \/ PollFails \/ PollTimesOut PROVE Uncounted
  <2>1. TestsKeep
    BY <1>3, TestsSteps DEF NoChild, PollQuiet, PollFails, PollTimesOut
  <2> QED BY <1>3, <2>1 DEF NoChild, PollQuiet, PollFails, PollTimesOut,
          Uncounted, FailedInv, schedvars
<1>4. ASSUME Exits PROVE Uncounted
  <2>1. TestsKeep
    BY <1>4, TestsSteps DEF Exits
  <2>2. \/ UNCHANGED <<exitvars, faults>>
        \/ (exit_stat' # 0 \/ wrapped') /\ faults' # 0
    BY <1>4, PanAssumption DEF Exits, Fault, CountExit
  <2> QED BY <1>4, <2>1, <2>2 DEF Exits, Uncounted, FailedInv, schedvars
<1>5. ASSUME NEW sig \in Signals, Signal(sig) PROVE Uncounted
  <2>1. TestsKeep
    BY <1>5, TestsSteps DEF Signal
  <2>2. err' = err /\ (err => pc' = pc)
    BY <1>5 DEF Signal, FailedInv, Ended
  <2> QED BY <1>5, <2>1, <2>2 DEF Signal, Uncounted
<1>6. ASSUME ProcsStep \/ UNCHANGED vars PROVE Uncounted
  <2>1. TestsKeep
    BY <1>6, TestsSteps DEF ProcsStep, vars
  <2> QED BY <1>6, <2>1 DEF ProcsStep, vars, schedvars, Uncounted
<1>7. ~ ExecWait
  BY DEF ExecWait
<1> QED BY <1>0, <1>1, <1>2, <1>3, <1>4, <1>5, <1>6, <1>7 DEF Next, PanStep

(***************************************************************************)
(* wait() or waitpid() tells of a test: when it has exited with 1 err is   *)
(* set, whether or not the test was signalled.                             *)
(***************************************************************************)
LEMMA ReportTells ==
  ASSUME TypeInv, FailedInv, GaveOneInv, ~ err, NEW p \in Pids, Report(p),
         st[p] = "zombie" \/ ~ ToldOfEnds
  PROVE  FailedInv' /\ GaveOneInv'
<1> USE DEF TypeInv, PanTypeOK, ProcsTypeOK
<1>1. /\ UNCHANGED <<failed, gaveOne, opt, exit_stat, wrapped>>
      /\ \A q \in Pids : st'[q] = "zombie" =>
           st[q] = "zombie" /\ code'[q] = code[q]
      /\ \A q \in Pids : st[q] = "zombie" =>
           q = p \/ (st'[q] = "zombie" /\ code'[q] = code[q])
  BY DEF Reaped, Told, Report, exitvars
<1>2. /\ st[p] = "zombie" /\ code[p] = "1" => err'
      /\ err' /\ st[p] = "zombie" => code[p] # "0"
      /\ pc' \in {"post", "crashed"}
      /\ faults # 0 => faults' # 0
  <2>1. CASE SlotsOf(p) = {}
    BY <2>1 DEF Report, Unmatched
  <2>2. CASE SlotsOf(p) # {}
    <3>1. FreeSlot(p)
      BY <2>2 DEF Report
    <3>2. PICK s : err' = Failure(p, s)
      BY <3>1 DEF FreeSlot
    <3>3. /\ pc' \in {"post", "crashed"}
          /\ faults # 0 => faults' # 0
      BY <3>1, PanAssumption DEF FreeSlot, Fault
    <3> QED BY <3>2, <3>3 DEF Failure
  <2> QED BY <2>1, <2>2
<1>3. FailedInv'
  BY <1>1, <1>2 DEF FailedInv, ToldOfEnds
<1>4. st[p] = "zombie" \/ st'[p] = st[p]
  BY DEF Report, Told
<1>5. GaveOneInv'
  BY <1>1, <1>2, <1>4 DEF GaveOneInv
<1> QED BY <1>3, <1>5

(***************************************************************************)
(* The end of the loop counts it.                                          *)
(***************************************************************************)
LEMMA PostCounts ==
  ASSUME TypeInv, FailedInv, GaveOneInv, Post
  PROVE  FailedInv' /\ GaveOneInv'
<1> USE DEF TypeInv, PanTypeOK
<1>1. UNCHANGED <<procvars, opt, faults>> /\ err' = FALSE
  BY DEF Post
<1>2. IF err /\ opt.track_exit_stats THEN exit_stat' # 0 \/ wrapped'
      ELSE exit_stat' = exit_stat /\ wrapped' = wrapped
  BY PanAssumption DEF Post, CountExit, exitvars
<1>3. FailedInv'
  BY <1>1, <1>2 DEF FailedInv, procvars
<1>4. GaveOneInv'
  <2>1. exit_stat # 0 \/ wrapped => exit_stat' # 0 \/ wrapped'
    BY <1>2 DEF CountExit, Post, exitvars
  <2> QED BY <1>1, <1>2, <2>1 DEF GaveOneInv, procvars
<1> QED BY <1>3, <1>4

-----------------------------------------------------------------------------

(***************************************************************************)
(* Starts are only ever used up, and options stay.                         *)
(***************************************************************************)
LEMMA StartsFall ==
  ASSUME [Next]_vars
  PROVE  starts' = starts \/ (starts > 0 /\ starts' = starts - 1)
<1>1. CASE StartFails \/ ExecFails \/ ExecWait
  BY <1>1 DEF StartFails, ExecFails, ExecWait, NotStarted
<1>2. CASE Executed
  BY <1>2 DEF Executed, Started
<1>3. ASSUME NEW sig \in Signals, Signal(sig)
      PROVE  starts' = starts \/ (starts > 0 /\ starts' = starts - 1)
  BY <1>3 DEF Signal, NotStarted
<1>4. CASE ~ (\/ StartFails \/ ExecFails \/ ExecWait \/ Executed
              \/ \E sig \in Signals : Signal(sig))
  BY <1>4 DEF Next, PanStep, PickSlot, EndStarts, NoSlot, Fork, NoSignal, Usr2,
     PassItOn, Propagate, PropagateOrphans, PropagateEnds, Check, WaitReports,
     Report, NoChild, PollReports, PollQuiet, PollFails, PollTimesOut, Post,
     HuntOrphans, Exits, ProcsStep, vars, schedvars
<1> QED BY <1>1, <1>2, <1>3, <1>4

LEMMA OptionsStay == ASSUME [Next]_vars PROVE opt' = opt
BY DEF Next, PanStep, PickSlot, EndStarts, NoSlot, StartFails, ExecFails, Fork,
   Executed, ExecWait, NoSignal, Usr2, PassItOn, Propagate, PropagateOrphans,
   PropagateEnds, Check, WaitReports, Report, NoChild, PollReports, PollQuiet,
   PollFails, PollTimesOut, Post, HuntOrphans, Exits, Signal, ProcsStep, vars,
   schedvars

(***************************************************************************)
(* A reason stays one.                                                     *)
(***************************************************************************)
LEMMA ReasonKept ==
  ASSUME Waits, RefineInv, FailedInv, [Next]_vars
  PROVE  (Reason => Reason') /\ (LimitInv => LimitInv')
<1> USE DEF RefineInv, CountInv, BooksInv, TypeInv, PanTypeOK
<1>1. opt' = opt /\ (failed => failed')
  <2>1. CASE WaitReports
    BY <2>1 DEF WaitReports, Zombies, Report, Reaped
  <2>2. CASE Post
    BY <2>2 DEF Post, procvars
  <2>3. CASE ~ WaitReports /\ ~ Post
    BY <2>3, RefineIsPlace, UncountedSteps
       DEF NoPoll, PollReports, Uncounted, TestsKeep
  <2> QED BY <2>1, <2>2, <2>3
<1>2. starts' = starts \/ (starts > 0 /\ starts' = starts - 1)
  BY StartsFall
<1>3. signals # 0 => signals' # 0
  <2>1. CASE \E sig \in Signals : Signal(sig)
    BY <2>1, PanAssumption DEF Signal
  <2>2. CASE ~ \E sig \in Signals : Signal(sig)
    BY <2>2 DEF Next, PanStep, PickSlot, EndStarts, NoSlot, StartFails,
       ExecFails, Fork, Executed, ExecWait, NoSignal, Usr2, PassItOn, Propagate,
       PropagateOrphans, PropagateEnds, Check, WaitReports, Report, NoChild,
       PollReports, PollQuiet, PollFails, PollTimesOut, Post, HuntOrphans, Exits,
       ProcsStep, vars
  <2> QED BY <2>1, <2>2
<1>4. (starts = 0 => starts' = 0) /\ (starts' = -1 => starts = -1)
  BY <1>2
<1> QED BY <1>1, <1>3, <1>4 DEF Reason, LimitInv

(***************************************************************************)
(* ltp-pan stops, notes a signal or passes one on for a reason.            *)
(***************************************************************************)
LEMMA StopHasReason ==
  ASSUME Waits, EndInv, [Next]_vars PROVE StopInv'
<1> USE DEF EndInv, RefineInv, CountInv, BooksInv, TypeInv, PanTypeOK
<1>0. Reason => Reason'
  BY ReasonKept
<1> SUFFICES ASSUME \/ stop' \/ rec_signal' # "none"
                    \/ pc' \in {"prop", "proporph", "propreset"}
             PROVE  Reason \/ Reason'
  BY <1>0 DEF StopInv
<1>1. CASE EndStarts
  BY <1>1 DEF EndStarts, StopIfDone, sigvars, StopInv, LimitInv, Reason
<1>2. CASE NoSlot
  BY <1>2, ASlotIsFree, RefineIsPlace DEF PlaceInv
<1>3. CASE Usr2 \/ PassItOn \/ Propagate \/ PropagateOrphans \/ PropagateEnds
  BY <1>3 DEF Usr2, PassItOn, Propagate, PropagateOrphans, PropagateEnds,
     schedvars, sigvars, StopInv
<1>4. CASE Post
  <2>1. CASE Braked
    BY <2>1 DEF Waits, ToldOfEnds, Braked, FailedInv, Reason
  <2>2. CASE ~ Braked
    BY <1>4, <2>2 DEF Post, StopInv
  <2> QED BY <2>1, <2>2
<1>5. CASE HuntOrphans
  BY <1>5 DEF HuntOrphans, LeavingInv, StopInv
<1>6. CASE \E sig \in Signals : Signal(sig)
  <2>1. signals' # 0
    BY <1>6, PanAssumption DEF Signal
  <2> QED BY <2>1 DEF Reason
<1>7. CASE PickSlot \/ StartFails \/ ExecFails \/ Fork \/ Executed \/ ExecWait
  BY <1>7 DEF PickSlot, StartFails, ExecFails, Fork, Executed, ExecWait, sigvars,
     StopInv
<1>8. CASE NoSignal \/ Check \/ NoChild \/ Exits \/ ProcsStep \/ UNCHANGED vars
  BY <1>8 DEF NoSignal, Check, NoChild, Exits, ProcsStep, vars, schedvars,
     sigvars, StopInv
<1>9. CASE WaitReports
  BY <1>9 DEF WaitReports, Report, FreeSlot, sigvars, StopInv
<1>10. ~ (PollReports \/ PollQuiet \/ PollFails \/ PollTimesOut)
  BY DEF NoPoll, PollReports, PollQuiet, PollFails, PollTimesOut
<1> QED BY <1>1, <1>2, <1>3, <1>4, <1>5, <1>6, <1>7, <1>8, <1>9, <1>10
        DEF Next, PanStep

LEMMA NextEndInv ==
  ASSUME Waits PROVE EndInv /\ [Next]_vars => EndInv'
<1> SUFFICES ASSUME EndInv, [Next]_vars PROVE EndInv'
  OBVIOUS
<1>1. RefineInv'
  BY NextRefineInv DEF EndInv
<1>2. LimitInv' /\ StopInv'
  BY ReasonKept, StopHasReason DEF EndInv
<1>3. FailedInv' /\ GaveOneInv'
  <2> USE DEF EndInv, RefineInv, CountInv
  <2>1. CASE WaitReports
    BY <2>1, ReportTells DEF WaitReports, Zombies, BooksInv, FailedInv
  <2>2. CASE Post
    BY <2>2, PostCounts DEF BooksInv
  <2>3. CASE ~ WaitReports /\ ~ Post
    BY <2>3, RefineIsPlace, UncountedSteps, UncountedKeeps DEF NoPoll, PollReports
  <2> QED BY <2>1, <2>2, <2>3
<1> QED BY <1>1, <1>2, <1>3 DEF EndInv

-----------------------------------------------------------------------------

(***************************************************************************)
(* When ltp-pan exits, its status is not zero if it was to track statuses  *)
(* (-e, -A) and a test exited with 1, unless the count has passed what an  *)
(* exit status holds; and it is zero unless a test failed or a system call *)
(* did.                                                                    *)
(***************************************************************************)
THEOREM ExitStatusCorrect ==
  ASSUME ~ LogFile, ~ SignalsInExec PROVE Spec => []ExitStatusTells
<1>1. Waits
  BY DEF Waits
<1>2. EndInv => ExitStatusTells
  <2> SUFFICES ASSUME EndInv, pc = "exited" PROVE ExitStatusTells
    BY DEF ExitStatusTells
  <2>1. ~ err
    BY DEF EndInv, FailedInv
  <2>2. Known = {} /\ cpid = NoPid
    BY FS_EmptySet DEF EndInv, RefineInv, LeavingInv, CountInv, KnownInv,
       BooksInv, TypeInv, CpidIsChild
  <2>3. \A p \in Pids : st[p] # "zombie"
    BY <2>2, PanAssumption DEF Known, Children
  <2> QED BY <2>1, <2>3 DEF EndInv, FailedInv, GaveOneInv, ToldOfEnds,
          ExitStatusTells
<1>3. EndInv /\ [Next]_vars => EndInv'
  BY <1>1, NextEndInv
<1> QED BY <1>2, <1>3, InitEndInv, PTL DEF Spec

(***************************************************************************)
(* ltp-pan exits with starts left only if a signal came, or a test failed  *)
(* under -A, or it had no limit to begin with.                             *)
(***************************************************************************)
THEOREM StartsCorrect ==
  ASSUME ~ LogFile, ~ SignalsInExec PROVE Spec => []StartsAreUsed
<1>1. Waits
  BY DEF Waits
<1>2. EndInv => StartsAreUsed
  BY DEF EndInv, RefineInv, LeavingInv, StopInv, Reason, StartsAreUsed
<1>3. EndInv /\ [Next]_vars => EndInv'
  BY <1>1, NextEndInv
<1> QED BY <1>2, <1>3, InitEndInv, PTL DEF Spec

-----------------------------------------------------------------------------

(***************************************************************************)
(* With a log, under the conditions of Calm: nothing but its starts or a   *)
(* stop file makes ltp-pan stop.                                           *)
(***************************************************************************)
UsedUp == starts = 0 \/ FirstStarts(opt) = -1

PollStopInv ==
  (stop \/ rec_signal # "none" \/ pc \in Propagating) => UsedUp

PollEndInv == PollRefineInv /\ LimitInv /\ PollStopInv

LEMMA NextPollStopInv ==
  ASSUME Calm, PollEndInv, [Next]_vars PROVE LimitInv' /\ PollStopInv'
<1> USE DEF PollEndInv, PollRefineInv, PollInv, BooksInv, TypeInv, PanTypeOK
<1>1. opt' = opt /\ (starts' = starts \/ (starts > 0 /\ starts' = starts - 1))
  BY StartsFall, OptionsStay
<1>2. LimitInv' /\ (UsedUp => UsedUp')
  BY <1>1 DEF LimitInv, UsedUp
<1>3. ASSUME stop' \/ rec_signal' # "none" \/ pc' \in Propagating
      PROVE  UsedUp \/ UsedUp'
  <2> USE DEF PollStopInv, Propagating
  <2>1. CASE EndStarts
    BY <1>3, <2>1 DEF EndStarts, StopIfDone, sigvars, LimitInv, UsedUp
  <2>2. CASE Usr2 \/ PassItOn \/ Propagate \/ PropagateOrphans \/ PropagateEnds
    BY <1>3, <2>2 DEF Usr2, PassItOn, Propagate, PropagateOrphans, PropagateEnds,
       schedvars, sigvars
  <2>3. CASE Post
    <3>1. ~ Braked
      BY DEF Calm, Braked
    <3> QED BY <1>3, <2>3, <3>1 DEF Post
  <2>4. CASE HuntOrphans
    BY <2>4 DEF HuntOrphans, LeavingInv
  <2>5. CASE PickSlot \/ StartFails \/ Fork \/ Executed
    BY <1>3, <2>5 DEF PickSlot, StartFails, Fork, Executed, sigvars
  <2>6. CASE NoSignal \/ Check \/ NoChild \/ PollQuiet \/ PollTimesOut
             \/ Exits \/ ProcsStep \/ UNCHANGED vars
    BY <1>3, <2>6 DEF NoSignal, Check, NoChild, PollQuiet, PollTimesOut, Exits,
       ProcsStep, vars, schedvars, sigvars
  <2>7. CASE WaitReports \/ PollReports
    BY <1>3, <2>7 DEF WaitReports, PollReports, Report, FreeSlot, sigvars
  <2>8. /\ ~ NoSlot /\ ~ PollFails /\ ~ ExecFails /\ ~ ExecWait
        /\ \A sig : ~ Signal(sig)
    BY ASlotIsFree, PollSees, NothingComes DEF PhaseInv, ExecWait
  <2> QED BY <2>1, <2>2, <2>3, <2>4, <2>5, <2>6, <2>7, <2>8 DEF Next, PanStep
<1> QED BY <1>2, <1>3 DEF PollStopInv

(***************************************************************************)
(* With a log ltp-pan exits with starts left only if it had no limit.      *)
(***************************************************************************)
THEOREM PollStartsCorrect ==
  ASSUME Calm PROVE Spec => []StartsAreUsed
<1>1. Init => PollEndInv
  BY InitPollRefineInv, InitEndInv
     DEF PollEndInv, PollStopInv, EndInv, Init, Propagating
<1>2. PollEndInv /\ [Next]_vars => PollEndInv'
  BY NextPollStopInv, NextPollRefineInv DEF PollEndInv
<1>3. PollEndInv => StartsAreUsed
  BY DEF PollEndInv, PollRefineInv, LeavingInv, PollStopInv, UsedUp, StartsAreUsed
<1> QED BY <1>1, <1>2, <1>3, PTL DEF Spec


-----------------------------------------------------------------------------

(***************************************************************************)
(* The exit status with a log, under the conditions of Calm.  waitpid()    *)
(* tells of a test that has not ended only where tests are stopped.        *)
(***************************************************************************)
NewsInv ==
  /\ pc = "poll" => LogFile
  /\ ~ MayStop => news = {} /\ \A p \in Pids : st[p] # "stopped"

PollTellsInv == PollRefineInv /\ FailedInv /\ GaveOneInv /\ NewsInv

LEMMA NewsSteps ==
  ASSUME TypeInv, NewsInv, [Next]_vars PROVE NewsInv'
<1> USE DEF TypeInv, PanTypeOK, ProcsTypeOK, NewsInv
<1>1. pc' = "poll" => LogFile
  BY DEF Next, PanStep, PickSlot, EndStarts, NoSlot, StartFails, ExecFails, Fork,
     Executed, ExecWait, NoSignal, Usr2, PassItOn, Propagate, PropagateOrphans,
     PropagateEnds, Check, WaitReports, Report, FreeSlot, NoChild, PollReports,
     PollQuiet, PollFails, PollTimesOut, Post, HuntOrphans, Exits, Signal,
     ProcsStep, vars
<1> SUFFICES ASSUME ~ MayStop
             PROVE  news' = {} /\ \A p \in Pids : st'[p] # "stopped"
  BY <1>1
<1>2. CASE UNCHANGED procvars
  BY <1>2 DEF procvars
<1>3. ASSUME NEW P, NEW sig, Signalled(P, sig)
      PROVE  news' = {} /\ \A p \in Pids : st'[p] # "stopped"
  BY <1>3 DEF Signalled
<1>4. ASSUME NEW p \in Pids, Forked(p) \/ Reaped(p) \/ Told(p)
      PROVE  news' = {} /\ \A q \in Pids : st'[q] # "stopped"
  BY <1>4 DEF Forked, Reaped, Told
<1>5. CASE ProcsNext
  BY <1>5 DEF ProcsNext, TestEnds, TestLeads, TestForks, KidsEnd, TestStops,
     TestContinues
<1>6. CASE Propagate \/ PropagateOrphans \/ Check
  BY <1>2, <1>3, <1>6 DEF Propagate, PropagateOrphans, Check, CheckOrphans
<1>7. CASE Fork \/ ExecWait \/ WaitReports \/ PollReports
  BY <1>4, <1>7 DEF Fork, FreePids, ExecWait, CpidIsChild, Children, WaitReports,
     PollReports, Zombies, Report
<1> QED
  BY <1>2, <1>5, <1>6, <1>7
     DEF Next, PanStep, PickSlot, EndStarts, NoSlot, StartFails, ExecFails,
     Executed, NoSignal, Usr2, PassItOn, PropagateEnds, NoChild, PollQuiet,
     PollFails, PollTimesOut, Post, HuntOrphans, Exits, Signal, ProcsStep, vars

LEMMA NextPollTellsInv ==
  ASSUME Calm, PollTellsInv, [Next]_vars PROVE PollTellsInv'
<1> USE DEF PollTellsInv, PollRefineInv, PollInv, BooksInv
<1>1. PollRefineInv' /\ NewsInv'
  BY NextPollRefineInv, NewsSteps
<1>2. CASE WaitReports \/ PollReports
  <2>1. PICK p \in Pids : /\ p \in Zombies \/ (pc = "poll" /\ p \in news)
                         /\ Report(p)
    BY <1>2 DEF WaitReports, PollReports, Zombies, TypeInv, PanTypeOK, ProcsTypeOK
  <2>2. st[p] = "zombie" \/ ~ ToldOfEnds
    BY <2>1 DEF Zombies, NewsInv, ToldOfEnds
  <2>3. ~ err
    BY <1>2 DEF WaitReports, PollReports, FailedInv
  <2> QED BY <1>1, <2>1, <2>2, <2>3, ReportTells
<1>3. CASE Post
  BY <1>1, <1>3, PostCounts
<1>4. CASE ~ (WaitReports \/ PollReports \/ Post)
  BY <1>1, <1>4, PollIsPlace, UncountedSteps, UncountedKeeps DEF PhaseInv
<1> QED BY <1>2, <1>3, <1>4

(***************************************************************************)
(* ltp-pan has reaped every test when it exits.                            *)
(***************************************************************************)
LEMMA AllReaped ==
  ASSUME PlaceInv, TypeInv, pc = "exited"
  PROVE  \A p \in Pids : st[p] # "zombie"
<1>1. Known = {} /\ cpid = NoPid
  BY FS_EmptySet DEF PlaceInv, LeavingInv, TallyInv, TypeInv, CpidIsChild
<1> QED BY <1>1, PanAssumption DEF Known, Children

LEMMA PollTells ==
  ASSUME Calm PROVE Spec => []PollTellsInv
<1>1. Init => PollTellsInv
  BY InitPollRefineInv, InitEndInv
     DEF PollTellsInv, EndInv, NewsInv, Init, ProcsInit
<1>2. PollTellsInv /\ [Next]_vars => PollTellsInv'
  BY NextPollTellsInv
<1> QED BY <1>1, <1>2, PTL DEF Spec

(***************************************************************************)
(* With -e and a log, ltp-pan does not exit with 0 when a test has exited  *)
(* with 1, also one that it took for ended when it was only stopped, and   *)
(* that had no slot any more when it did end: unless the count of failures *)
(* has come round to 0.                                                    *)
(***************************************************************************)
FailuresTold ==
  pc = "exited" => (opt.track_exit_stats /\ gaveOne => exit_stat # 0 \/ wrapped)

THEOREM PollFailuresTold == ASSUME Calm PROVE Spec => []FailuresTold
<1>1. PollTellsInv => FailuresTold
  BY AllReaped, PollIsPlace
     DEF PollTellsInv, PlaceInv, BooksInv, FailedInv, GaveOneInv, FailuresTold
<1> QED BY <1>1, PollTells, PTL

(***************************************************************************)
(* And where no test is stopped it exits with 0 unless a test failed.      *)
(***************************************************************************)
THEOREM PollExitStatus ==
  ASSUME Calm, ~ MayStop PROVE Spec => []ExitStatusTells
<1>1. PollTellsInv => ExitStatusTells
  BY AllReaped, PollIsPlace
     DEF PollTellsInv, PlaceInv, BooksInv, FailedInv, GaveOneInv, ToldOfEnds,
     ExitStatusTells
<1> QED BY <1>1, PollTells, PTL

=============================================================================

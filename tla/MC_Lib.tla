------------------------------- MODULE MC_Lib -------------------------------
(***************************************************************************)
(* The parts of src/lib that a test program links, one at a time: they     *)
(* share no state, and `part' says which of them runs in a behaviour.  The *)
(* others stay in one initial state.                                       *)
(***************************************************************************)
EXTENDS TstRes, Checkpoint, SyncPipe, Forker, DoioLog, LogScan

VARIABLE part

Parts == {"results", "checkpoint", "pipe", "forker", "doio", "scan"}

Init ==
  /\ part \in Parts
  /\ TstInit /\ CpInit /\ SpInit /\ FkInit /\ WlInit /\ LsInit
  /\ part = "results" \/ mode = "NOPASS"
  /\ part = "checkpoint" \/ cpWay = "toChild"
  /\ part = "pipe" \/ spWay = "shared"
  /\ part = "forker" \/ (fkMode = 0 /\ \A m \in FkSizes : fkMax <= m)
  /\ part = "doio" \/ v_opt
  /\ part = "scan" \/ (lens = <<>> /\ nrecs = 0 /\ ~ charSigned)

vars == <<part, tstVars, cpVars, spVars, fkVars, wlVars, lsVars>>

Next ==
  \/ /\ part = "results" /\ TstNext
     /\ UNCHANGED <<part, cpVars, spVars, fkVars, wlVars, lsVars>>
  \/ /\ part = "checkpoint" /\ CpNext
     /\ UNCHANGED <<part, tstVars, spVars, fkVars, wlVars, lsVars>>
  \/ /\ part = "pipe" /\ SpNext
     /\ UNCHANGED <<part, tstVars, cpVars, fkVars, wlVars, lsVars>>
  \/ /\ part = "forker" /\ FkNext
     /\ UNCHANGED <<part, tstVars, cpVars, spVars, wlVars, lsVars>>
  \/ /\ part = "doio" /\ WlNext
     /\ UNCHANGED <<part, tstVars, cpVars, spVars, fkVars, lsVars>>
  \/ /\ part = "scan" /\ LsNext
     /\ UNCHANGED <<part, tstVars, cpVars, spVars, fkVars, wlVars>>

(* CpFairness, SpFairness, FkFairness and that of LsSpec, each where its   *)
(* part runs.                                                              *)
Fairness ==
  /\ WF_cpVars(part = "checkpoint" /\ ParentSteps)
  /\ WF_cpVars(part = "checkpoint" /\ ChildSteps)
  /\ WF_spVars(part = "pipe" /\ ParentStep)
  /\ \A i \in 1 .. SpRounds : WF_spVars(part = "pipe" /\ KidStep(i))
  /\ \A p \in CopyNos : WF_fkVars(part = "forker" /\ FkStep(p))
  /\ WF_lsVars(part = "scan" /\ LsNext)

Spec == Init /\ [][Next]_vars /\ Fairness

(* The variables of every part keep their types.                           *)
LibTypeOK ==
  TstTypeOK /\ CpTypeOK /\ SpTypeOK /\ FkTypeOK /\ WlTypeOK /\ LsTypeOK

=============================================================================

----------------------------- MODULE Lib_proofs -----------------------------
(***************************************************************************)
(* What is proved of the parts of src/lib one by one, of all of them side  *)
(* by side: MC_Lib runs one part in a behaviour and leaves the others      *)
(* alone, so that each keeps its own invariant.                            *)
(***************************************************************************)
EXTENDS MC_Lib, TstRes_proofs, Processes_proofs, WriteLog_proofs

LEMMA PartsStart ==
  Init => TstInit /\ CpInit /\ SpInit /\ FkInit /\ WlInit /\ LsInit
BY DEF Init

(***************************************************************************)
(* A step of one part is a stutter of each other part.                     *)
(***************************************************************************)
LEMMA PartsStep ==
  [Next]_vars => /\ [TstNext]_tstVars /\ [CpNext]_cpVars /\ [SpNext]_spVars
                 /\ [FkNext]_fkVars /\ [WlNext]_wlVars /\ [LsNext]_lsVars
<1>1. CASE UNCHANGED vars
  BY <1>1 DEF vars
<1>2. CASE Next
  BY <1>2 DEF Next
<1> QED BY <1>1, <1>2

LEMMA PartsRun ==
  Spec => /\ TstSpec /\ WlSpec
          /\ CpInit /\ [][CpNext]_cpVars
          /\ SpInit /\ [][SpNext]_spVars
          /\ FkInit /\ [][FkNext]_fkVars
          /\ LsInit /\ [][LsNext]_lsVars
BY PartsStart, PartsStep, PTL DEF Spec, TstSpec, WlSpec

(***************************************************************************)
(* The variables of every part of src/lib keep their types.                *)
(***************************************************************************)
THEOREM LibTypeCorrect == Spec => []LibTypeOK
<1>1. TstTypeOK /\ CpInv /\ SpInv /\ FkInv /\ WlTypeOK /\ LsInv => LibTypeOK
  BY CpInvTells, SpInvTells, FkInvTells, LsInvTells DEF LibTypeOK
<1> QED BY <1>1, PartsRun, TstTypeCorrect, CpInvariant, SpInvariant,
           FkInvariant, WlTypeCorrect, LsInvariant, PTL

(***************************************************************************)
(* What is proved of each part holds of the whole: what a test tells and   *)
(* what it exits with, who waits for whom, what the copies know of each    *)
(* other, and what the log of writes says and how it is read.              *)
(***************************************************************************)
THEOREM LibCorrect ==
  Spec => /\ [](FailuresToldOnce /\ StatusTells /\ CleanupsEnd
                /\ SuccessLeavesNothing)
          /\ BreakIsFinal
          /\ [](NobodyRunsAhead /\ HeardItsChild /\ SameFifo)
          /\ [](KnowsTheFirst /\ ReturnTells)
          /\ [](NoFalseAlarm /\ LogTellsFile /\ HandsBackwards)
<1>1. TstSpec => /\ [](FailuresToldOnce /\ StatusTells /\ CleanupsEnd
                       /\ SuccessLeavesNothing)
                 /\ BreakIsFinal
  BY FailuresToldOnceCorrect, StatusTellsCorrect, CleanupsEndCorrect,
     SuccessLeavesNothingCorrect, BreakIsFinalCorrect, PTL
<1>2. /\ CpInit /\ [][CpNext]_cpVars => []NobodyRunsAhead
      /\ SpInit /\ [][SpNext]_spVars => [](HeardItsChild /\ SameFifo)
  BY CpInvTells, CpInvariant, SpInvTells, SpInvariant, PTL
<1>3. FkInit /\ [][FkNext]_fkVars => [](KnowsTheFirst /\ ReturnTells)
  BY FkInvTells, FkInvariant, PTL
<1>4. /\ WlSpec => [](NoFalseAlarm /\ LogTellsFile)
      /\ LsInit /\ [][LsNext]_lsVars => []HandsBackwards
  BY NoFalseAlarmCorrect, LogTellsFileCorrect, LsInvTells, LsInvariant, PTL
<1> QED BY <1>1, <1>2, <1>3, <1>4, PartsRun, PTL

=============================================================================

-------------------------- MODULE ZooClients_proofs --------------------------
(***************************************************************************)
(* Proofs about the programs that share a zoo, for any number of ltp-pan   *)
(* and ltp-bump programs, tests, tags and pids: their steps are steps of   *)
(* the zoo library, so that what is proved of it holds for them; and where *)
(* no ltp-bump clears entries, the file lists what runs.                   *)
(***************************************************************************)
EXTENDS ZooClients, Zoo_proofs

(***************************************************************************)
(* ltp-bump signals a pid that zoo_getpid() has returned.                  *)
(***************************************************************************)
BumpKnows ==
  \A b \in Bump : phase[b] = "signal" => pc[b] = "idle" /\ ret[b] \in Pid

LEMMA EntryIsMade ==
  ASSUME NEW pid \in Pid, NEW tag \in Tag
  PROVE  [pid |-> pid, tag |-> tag] \in Entry
BY DEF Entry

(***************************************************************************)
(* What a ltp-pan or a ltp-bump does to the zoo is what the library's      *)
(* operations do, with pids and tags.                                      *)
(***************************************************************************)
LEMMA StepIsZooStep ==
  ASSUME ClientsTypeOK, BumpKnows, [ClientsNext]_allVars
  PROVE  [Next]_vars
<1> USE ClientsAssumption
<1>1. CASE UNCHANGED allVars
  BY <1>1 DEF allVars
<1>2. ASSUME NEW p \in Proc, LibraryStep(p) \/ LibraryError(p) PROVE Next
  BY <1>2 DEF LibraryStep, LibraryError, Next, Step
<1>3. ASSUME NEW n \in Pan, NEW pid \in Pid, NEW tag \in Tag,
             CallMark(n, pid, tag) \/ CallClear(n, pid)
      PROVE  Next
  BY <1>3 DEF Next
<1>4. ASSUME NEW n \in Proc, Exit(n) PROVE Next
  BY <1>4 DEF Next
<1>5. ASSUME NEW n \in Pan, MarkBlanks(n) \/ ClearBlanks(n) PROVE Next \/ UNCHANGED vars
  <2>1. count[n] \in Nat
    BY DEF ClientsTypeOK
  <2>2. Len(BlankPid) \in Nat /\ \A k \in 1 .. Len(BlankPid) : BlankPid[k] \in Pid
    OBVIOUS
  <2>3. CASE count[n] < Len(BlankPid)
    <3>1. BlankPid[count[n] + 1] \in Pid
      BY <2>1, <2>2, <2>3
    <3>2. \/ CallMark(n, BlankPid[count[n] + 1], PanTag[n])
          \/ CallClear(n, BlankPid[count[n] + 1])
      BY <1>5, <2>3 DEF MarkBlanks, ClearBlanks, Blank
    <3> QED BY <3>1, <3>2, <1>3
  <2>4. CASE ~ count[n] < Len(BlankPid)
    BY <1>5, <2>4 DEF MarkBlanks, ClearBlanks, Blank
  <2> QED BY <2>3, <2>4
<1>6. ASSUME NEW n \in Pan, NEW e \in Entry, StartTest(n, e) PROVE Next
  BY <1>6, <1>3 DEF StartTest, Entry
<1>7. ASSUME NEW n \in Pan, NEW e \in tests[n], Reap(n, e) PROVE Next
  <2>1. e \in Entry
    BY DEF ClientsTypeOK
  <2> QED BY <1>7, <2>1, <1>3 DEF Reap, Entry
<1>8. ASSUME NEW n \in Pan, PanStep(n) PROVE Next \/ UNCHANGED vars
  <2>1. CASE MarkSelf(n)
    BY <2>1, <1>3 DEF MarkSelf
  <2>2. CASE ClearSelf(n)
    BY <2>2, <1>3 DEF ClearSelf
  <2>3. CASE PanDone(n) \/ PanFails(n)
    BY <2>3, <1>4 DEF PanDone, PanFails
  <2>4. CASE SelfMarked(n) \/ TestMarked(n) \/ Reaped(n) \/ OrphanMarked(n) \/ Hunted(n)
    BY <2>4 DEF SelfMarked, TestMarked, Reaped, OrphanMarked, Hunted
  <2>5. CASE Orphan(n)
    <3>1. target[n] \in Pid /\ OrphanTag \in Tag
      BY <2>5 DEF Orphan, ClientsTypeOK
    <3> QED BY <2>5, <3>1, <1>3 DEF Orphan
  <2>6. ASSUME NEW pid \in TestPid, Hunt(n, pid) PROVE Next
    <3>1. pid \in Pid
      OBVIOUS
    <3> QED BY <2>6, <3>1, <1>3 DEF Hunt
  <2> QED BY <1>5, <1>6, <1>7, <1>8, <2>1, <2>2, <2>3, <2>4, <2>5, <2>6 DEF PanStep
<1>9. ASSUME NEW n \in Pan,
             PanCrashes(n) \/ \E e \in tests[n] : StrayEnds(n, e)
      PROVE  Next \/ UNCHANGED vars
  BY <1>9, <1>4 DEF PanCrashes, StrayEnds
<1>10. ASSUME NEW b \in Bump, BumpStep(b) PROVE Next \/ UNCHANGED vars
  <2>1. CASE LookedUp(b) \/ Cleared(b)
    BY <2>1 DEF LookedUp, Cleared
  <2>2. CASE BumpDone(b)
    BY <2>2, <1>4 DEF BumpDone
  <2>3. CASE Kill(b)
    <3>1. ret[b] \in Pid
      BY <2>3 DEF Kill, Idle, BumpKnows
    <3> QED BY <2>3, <3>1 DEF Kill, Next
  <2>4. ASSUME NEW name \in Tag, Lookup(b, name) PROVE Next
    BY <2>4 DEF Lookup, Next
  <2> QED BY <1>10, <2>1, <2>2, <2>3, <2>4 DEF BumpStep
<1>11. ASSUME NEW pid \in TestPid, GroupEnds(pid) PROVE UNCHANGED vars
  BY <1>11 DEF GroupEnds
<1> QED BY <1>1, <1>2, <1>8, <1>9, <1>10, <1>11 DEF ClientsNext

LEMMA NextBumpKnows ==
  ASSUME ClientsTypeOK, BumpKnows, [ClientsNext]_allVars
  PROVE  BumpKnows'
<1> SUFFICES ASSUME NEW b \in Bump, phase'[b] = "signal"
             PROVE  pc'[b] = "idle" /\ ret'[b] \in Pid
  BY DEF BumpKnows
<1> USE ClientsAssumption DEF ClientsTypeOK, TypeOK
<1>1. CASE UNCHANGED allVars
  BY <1>1 DEF allVars, vars, clients, BumpKnows
<1>2. ASSUME NEW p \in Proc, LibraryStep(p) \/ LibraryError(p)
      PROVE  pc'[b] = "idle" /\ ret'[b] \in Pid
  <2>1. phase[b] = "signal" /\ pc[b] = "idle" /\ ret[b] \in Pid
    BY <1>2 DEF LibraryStep, LibraryError, clients, BumpKnows
  <2>2. p # b
    BY <1>2, <2>1 DEF LibraryStep, LibraryError, Lock, LockFails, ScanMark,
       ScanClear, ScanGetpid, SeekFails, Flush, Unlock, UnlockFails
  <2>3. pc'[b] = pc[b]
    BY <1>2, <2>2 DEF LibraryStep, LibraryError, Lock, LockFails, ScanMark,
       ScanClear, ScanGetpid, SeekFails, Flush, Unlock, UnlockFails, Goto, Leave
  <2>4. ret'[b] = ret[b]
    BY <1>2, <2>2 DEF LibraryStep, LibraryError, Lock, LockFails, ScanMark,
       ScanClear, ScanGetpid, SeekFails, Flush, Unlock, UnlockFails, Return
  <2> QED BY <2>1, <2>3, <2>4
<1>3. ASSUME NEW n \in Pan, phase'[b] = phase[b], pc'[b] = pc[b], ret'[b] = ret[b]
      PROVE  pc'[b] = "idle" /\ ret'[b] \in Pid
  BY <1>3 DEF BumpKnows
<1>4. ASSUME NEW n \in Pan,
             PanStep(n) \/ PanCrashes(n) \/ \E e \in tests[n] : StrayEnds(n, e)
      PROVE  pc'[b] = "idle" /\ ret'[b] \in Pid
  <2>1. b # n
    OBVIOUS
  <2>2. phase'[b] = phase[b]
    BY <1>4, <2>1 DEF PanStep, PanCrashes, StrayEnds, MarkSelf, SelfMarked,
       MarkBlanks, ClearBlanks, Blank, TestMarked, Reaped, Orphan, OrphanMarked, Hunt, Hunted, ClearSelf, PanDone,
       PanFails, StartTest, Reap, Phase
  <2>3. pc'[b] = pc[b] /\ ret'[b] = ret[b]
    BY <1>4, <2>1 DEF PanStep, PanCrashes, StrayEnds, MarkSelf, SelfMarked,
       MarkBlanks, ClearBlanks, Blank, TestMarked, Reaped, Orphan, OrphanMarked, Hunt, Hunted, ClearSelf, PanDone,
       PanFails, StartTest, Reap, CallMark, CallClear, Call, Exit, Goto, Leave,
       Return, vars
  <2> QED BY <2>2, <2>3, <1>3
<1>5. ASSUME NEW c \in Bump, BumpStep(c), c # b
      PROVE  pc'[b] = "idle" /\ ret'[b] \in Pid
  <2>1. phase'[b] = phase[b]
    BY <1>5 DEF BumpStep, Lookup, LookedUp, Kill, Cleared, BumpDone, Phase
  <2>2. pc'[b] = pc[b] /\ ret'[b] = ret[b]
    BY <1>5 DEF BumpStep, Lookup, LookedUp, Kill, Cleared, BumpDone, CallGetpid,
       CallClear, Call, Exit, Goto, Leave, Return, vars
  <2> QED BY <2>1, <2>2 DEF BumpKnows
<1>6. ASSUME BumpStep(b) PROVE pc'[b] = "idle" /\ ret'[b] \in Pid
  BY <1>6 DEF BumpStep, Lookup, LookedUp, Kill, Cleared, BumpDone, Phase, Idle, vars
<1>7. ASSUME NEW pid \in TestPid, GroupEnds(pid) PROVE pc'[b] = "idle" /\ ret'[b] \in Pid
  BY <1>7 DEF GroupEnds, vars, BumpKnows
<1> QED BY <1>1, <1>2, <1>4, <1>5, <1>6, <1>7 DEF ClientsNext

(***************************************************************************)
(* The programs' own variables.                                            *)
(***************************************************************************)
Phases == {"begin", "marking", "blank", "unblank", "run", "starting", "reaping",
           "orphaning", "hunting", "leaving", "lookup", "signal", "clearing", "done", "failed", "crashed"}

LEMMA NextClientsTypeOK ==
  ASSUME ClientsTypeOK, BumpKnows, [ClientsNext]_allVars
  PROVE  ClientsTypeOK'
<1> USE ClientsAssumption
<1>0. TypeOK'
  BY StepIsZooStep, NextTypeOK DEF ClientsTypeOK
<1>1. CASE UNCHANGED clients
  BY <1>0, <1>1 DEF ClientsTypeOK, clients
<1>2. ASSUME NEW p \in Proc, NEW s \in Phases, Phase(p, s)
      PROVE  phase' \in [Proc -> Phases]
  BY <1>2 DEF ClientsTypeOK, Phase, Phases
<1>3. ASSUME NEW n \in Pan, PanStep(n) PROVE ClientsTypeOK'
  <2>1. phase' \in [Proc -> Phases]
    BY <1>3, <1>2 DEF ClientsTypeOK, PanStep, MarkSelf, SelfMarked, MarkBlanks,
       ClearBlanks, Blank, TestMarked, Reaped, Orphan, OrphanMarked, Hunt, Hunted, ClearSelf, PanDone, PanFails,
       StartTest, Reap, Phases
  <2>2. count' \in [Proc -> Nat]
    <3>1. \/ count' = count
          \/ count' = [count EXCEPT ![n] = count[n] + 1]
          \/ count' = [count EXCEPT ![n] = 0]
      BY <1>3 DEF PanStep, MarkSelf, SelfMarked, MarkBlanks, ClearBlanks, Blank,
         TestMarked, Reaped, Orphan, OrphanMarked, Hunt, Hunted, ClearSelf, PanDone, PanFails, StartTest, Reap
    <3>2. count \in [Proc -> Nat] /\ count[n] \in Nat
      BY DEF ClientsTypeOK
    <3> QED BY <3>1, <3>2
  <2>3. tests' \in [Pan -> SUBSET Entry]
    BY <1>3 DEF ClientsTypeOK, PanStep, MarkSelf, SelfMarked, MarkBlanks,
       ClearBlanks, Blank, TestMarked, Reaped, Orphan, OrphanMarked, Hunt, Hunted, ClearSelf, PanDone, PanFails,
       StartTest, Reap
  <2>4. marked' \in [Pan -> SUBSET Entry]
    <3>1. [pid |-> PidOf[n], tag |-> PanTag[n]] \in Entry
      BY EntryIsMade
    <3>2. \/ marked' = marked
          \/ \E S \in SUBSET Entry : marked' = [marked EXCEPT ![n] = S]
      <4>1. /\ marked[n] \in SUBSET Entry /\ tests[n] \in SUBSET Entry
            /\ \A e : marked[n] \ {e} \in SUBSET Entry
            /\ marked[n] \cup {[pid |-> PidOf[n], tag |-> PanTag[n]]} \in SUBSET Entry
            /\ marked[n] \cup tests[n] \in SUBSET Entry
        BY <3>1 DEF ClientsTypeOK
      <4> QED
        BY <1>3, <4>1 DEF PanStep, MarkSelf, SelfMarked, MarkBlanks, ClearBlanks,
           Blank, TestMarked, Reaped, Orphan, OrphanMarked, Hunt, Hunted, ClearSelf, PanDone, PanFails, StartTest, Reap
    <3> QED BY <3>2 DEF ClientsTypeOK
  <2>5. exists' \in SUBSET Pid /\ groups' \in SUBSET Pid
    <3>1. \A e \in tests[n] : e.pid \in Pid
      BY DEF ClientsTypeOK, Entry
    <3> QED
      BY <1>3, <3>1 DEF ClientsTypeOK, PanStep, MarkSelf, SelfMarked, MarkBlanks,
         ClearBlanks, Blank, TestMarked, Reaped, Orphan, OrphanMarked, Hunt,
         Hunted, ClearSelf, PanDone, PanFails, StartTest, Reap, Vacate, Entry
  <2>6. target' \in [Proc -> Pid \cup {NoPid}]
    <3>1. target \in [Proc -> Pid \cup {NoPid}] /\ \A e \in tests[n] : e.pid \in Pid
      BY DEF ClientsTypeOK, Entry
    <3>2. \/ target' = target
          \/ \E pid \in Pid \cup {NoPid} : target' = [target EXCEPT ![n] = pid]
      BY <1>3, <3>1 DEF PanStep, MarkSelf, SelfMarked, MarkBlanks, ClearBlanks,
         Blank, TestMarked, Reaped, Orphan, OrphanMarked, Hunt, Hunted, ClearSelf,
         PanDone, PanFails, StartTest, Reap
    <3> QED BY <3>1, <3>2
  <2>7. orphans' \in [Pan -> [TestPid -> Nat]]
    <3>1. orphans \in [Pan -> [TestPid -> Nat]] /\ orphans[n] \in [TestPid -> Nat]
      BY DEF ClientsTypeOK
    <3>2. CASE OrphanMarked(n)
      <4>1. orphans' = [orphans EXCEPT ![n] = [orphans[n] EXCEPT ![target[n]] = orphans[n][target[n]] + 1]]
        BY <3>1, <3>2 DEF OrphanMarked
      <4>3. \A pid \in TestPid : orphans[n][pid] + 1 \in Nat
        BY <3>1
      <4>2. [orphans[n] EXCEPT ![target[n]] = orphans[n][target[n]] + 1] \in [TestPid -> Nat]
        BY <3>1, <4>3
      <4> QED BY <3>1, <4>1, <4>2
    <3>3. ASSUME NEW pid \in TestPid, Hunt(n, pid) PROVE orphans' \in [Pan -> [TestPid -> Nat]]
      <4>1. /\ orphans' = [orphans EXCEPT ![n] = [orphans[n] EXCEPT ![pid] = orphans[n][pid] - 1]]
            /\ orphans[n][pid] > 0
        BY <3>1, <3>3 DEF Hunt
      <4>2. orphans[n][pid] - 1 \in Nat
        BY <3>1, <4>1
      <4>3. [orphans[n] EXCEPT ![pid] = orphans[n][pid] - 1] \in [TestPid -> Nat]
        BY <3>1, <4>2
      <4> QED BY <3>1, <4>1, <4>3
    <3>4. CASE ~ OrphanMarked(n) /\ \A pid \in TestPid : ~ Hunt(n, pid)
      BY <1>3, <3>1, <3>4 DEF PanStep, MarkSelf, SelfMarked, MarkBlanks, ClearBlanks,
         Blank, TestMarked, Reaped, Orphan, Hunted, ClearSelf, PanDone, PanFails,
         StartTest, Reap
    <3> QED BY <3>2, <3>3, <3>4
  <2> QED BY <1>0, <2>1, <2>2, <2>3, <2>4, <2>5, <2>6, <2>7 DEF ClientsTypeOK, Phases
<1>4. ASSUME NEW n \in Pan,
             PanCrashes(n) \/ \E e \in tests[n] : StrayEnds(n, e)
      PROVE  ClientsTypeOK'
  <2>1. phase' \in [Proc -> Phases]
    BY <1>4, <1>2 DEF ClientsTypeOK, PanCrashes, StrayEnds, Phases
  <2>2. /\ count' = count /\ orphans' = orphans
        /\ target' \in [Proc -> Pid \cup {NoPid}]
        /\ exists' \in SUBSET Pid /\ groups' \in SUBSET Pid
    <3>1. \A e \in tests[n] : e.pid \in Pid
      BY DEF ClientsTypeOK, Entry
    <3> QED BY <1>4, <3>1 DEF ClientsTypeOK, PanCrashes, StrayEnds, Vacate
  <2>3. tests' \in [Pan -> SUBSET Entry] /\ marked' \in [Pan -> SUBSET Entry]
    <3>1. /\ \A e : tests[n] \ {e} \in SUBSET Entry
          /\ \A e : marked[n] \ {e} \in SUBSET Entry
          /\ tests \in [Pan -> SUBSET Entry] /\ marked \in [Pan -> SUBSET Entry]
      BY DEF ClientsTypeOK
    <3>2. \/ tests' = tests /\ marked' = marked
          \/ \E e : /\ tests' = [tests EXCEPT ![n] = tests[n] \ {e}]
                    /\ marked' = [marked EXCEPT ![n] = marked[n] \ {e}]
      BY <1>4 DEF PanCrashes, StrayEnds
    <3> QED BY <3>1, <3>2
  <2> QED BY <1>0, <2>1, <2>2, <2>3 DEF ClientsTypeOK, Phases
<1>5. ASSUME NEW b \in Bump, BumpStep(b) PROVE ClientsTypeOK'
  <2>1. phase' \in [Proc -> Phases]
    BY <1>5, <1>2 DEF ClientsTypeOK, BumpStep, Lookup, LookedUp, Kill, Cleared,
       BumpDone, Phases
  <2>2. count' \in [Proc -> Nat]
    <3>1. count' = count \/ count' = [count EXCEPT ![b] = count[b] + 1]
      BY <1>5 DEF BumpStep, Lookup, LookedUp, Kill, Cleared, BumpDone
    <3>2. count \in [Proc -> Nat] /\ count[b] \in Nat
      BY DEF ClientsTypeOK
    <3> QED BY <3>1, <3>2
  <2>3. target' \in [Proc -> Pid \cup {NoPid}]
    BY <1>5 DEF ClientsTypeOK, BumpStep, Lookup, LookedUp, Kill, Cleared,
       BumpDone, BumpKnows, Idle
  <2>4. UNCHANGED <<tests, marked, orphans, exists, groups>>
    BY <1>5 DEF BumpStep, Lookup, LookedUp, Kill, Cleared, BumpDone
  <2> QED BY <1>0, <2>1, <2>2, <2>3, <2>4 DEF ClientsTypeOK, Phases
<1>6. ASSUME NEW p \in Proc, LibraryStep(p) \/ LibraryError(p) PROVE ClientsTypeOK'
  BY <1>1, <1>6 DEF LibraryStep, LibraryError
<1>7. ASSUME NEW pid \in TestPid, GroupEnds(pid) PROVE ClientsTypeOK'
  BY <1>0, <1>7 DEF GroupEnds, ClientsTypeOK
<1> QED BY <1>1, <1>3, <1>4, <1>5, <1>6, <1>7 DEF ClientsNext, allVars

LEMMA InitClientsTypeOK == ClientsInit => ClientsTypeOK /\ BumpKnows
<1> SUFFICES ASSUME ClientsInit PROVE ClientsTypeOK /\ BumpKnows
  OBVIOUS
<1>1. TypeOK
  BY InitTypeOK DEF ClientsInit
<1>2. ClientsTypeOK
  BY <1>1, ClientsAssumption DEF ClientsInit, ClientsTypeOK
<1>3. BumpKnows
  BY ClientsAssumption DEF ClientsInit, BumpKnows
<1> QED BY <1>2, <1>3

(***************************************************************************)
(* Every reachable state of the programs has its types, whoever runs, dies *)
(* or gets an error when.                                                  *)
(***************************************************************************)
THEOREM ClientsTypeCorrect == ClientsSpec => []ClientsTypeOK
<1>1. ClientsSpec => [](ClientsTypeOK /\ BumpKnows)
  BY InitClientsTypeOK, NextClientsTypeOK, NextBumpKnows, PTL DEF ClientsSpec
<1> QED BY <1>1, PTL

(***************************************************************************)
(* ltp-pan and ltp-bump use the zoo as its library allows: together they   *)
(* behave as processes that call it, so that what holds of the library     *)
(* (mutual exclusion, and each call one step of ZooSpec) holds of them.    *)
(***************************************************************************)
THEOREM ClientsUseZoo == ClientsSpec => Spec
<1>1. ClientsInit => Init
  BY DEF ClientsInit
<1>2. ClientsSpec => [](ClientsTypeOK /\ BumpKnows)
  BY InitClientsTypeOK, NextClientsTypeOK, NextBumpKnows, PTL DEF ClientsSpec
<1> QED BY <1>1, <1>2, StepIsZooStep, PTL DEF ClientsSpec, Spec

(***************************************************************************)
(* ltp-pan programs alone: each operation of each, wherever any of them is *)
(* killed, is one step of the zoo's contract.                              *)
(***************************************************************************)
THEOREM PansKeepTheContract ==
  ASSUME Bump = {}
  PROVE  ClientsSpec => ImplementsZooSpec
<1>1. Reader \cap Writer = {}
  BY ClientsAssumption
<1> QED BY <1>1, ClientsUseZoo, Refinement

-----------------------------------------------------------------------------

(***************************************************************************)
(* The lines of the file are matched with what the programs owe it.  A     *)
(* token stands for one line that a ltp-pan has written and has to clear.  *)
(***************************************************************************)
Token == [kind : {"entry", "blank", "orphan"}, pan : Pan, k : Nat, pid : Pid]

(* O: the tokens owed; T: pairs of a token and the tag its line must have; *)
(* all: every line in use is owed.                                         *)
Fits(m, O, T, f, all) ==
  /\ \A o \in O : m[o] \in 1 .. Len(f) /\ ~ f[m[o]].free /\ f[m[o]].pid = o.pid
  /\ \A o, q \in O : m[o] = m[q] => o = q
  /\ \A x \in T : f[m[x[1]]].tag = x[2]
  /\ all => \A i \in 1 .. Len(f) : ~ f[i].free => \E o \in O : m[o] = i

Matched(O, T, f, all) == \E m \in [Token -> Nat] : Fits(m, O, T, f, all)

(* Fewer lines are owed, when it does not matter what else is listed.      *)
LEMMA MatchLess ==
  ASSUME NEW O \in SUBSET Token, NEW T \in SUBSET (O \X Tag), NEW f \in Seq(Line),
         NEW all \in BOOLEAN, Matched(O, T, f, all),
         NEW P \in SUBSET O, NEW U \in SUBSET T, NEW some \in BOOLEAN,
         some => all /\ P = O
  PROVE  Matched(P, U, f, some)
<1>1. PICK m \in [Token -> Nat] : Fits(m, O, T, f, all)
  BY DEF Matched
<1>2. Fits(m, P, U, f, some)
  BY <1>1 DEF Fits
<1> QED BY <1>2 DEF Matched

(* zoo_mark(): one more line is owed, and it is there.                     *)
LEMMA MatchMark ==
  ASSUME NEW O \in SUBSET Token, NEW T \in SUBSET (O \X Tag), NEW f \in Seq(Line),
         NEW all \in BOOLEAN, Matched(O, T, f, all),
         NEW o \in Token \ O, NEW i \in Nat, NEW g \in Seq(Line),
         NEW U \in SUBSET (T \cup ({o} \X Tag)),
         i \in 1 .. Len(f) => f[i].free,
         Len(f) <= Len(g), i \in 1 .. Len(g),
         \A j \in 1 .. Len(g) : j # i => j \in 1 .. Len(f) /\ g[j] = f[j],
         ~ g[i].free, g[i].pid = o.pid,
         \A x \in U : x[1] = o => x[2] = g[i].tag
  PROVE  Matched(O \cup {o}, U, g, all)
<1>1. PICK m \in [Token -> Nat] : Fits(m, O, T, f, all)
  BY DEF Matched
<1> DEFINE M == [m EXCEPT ![o] = i]
<1>2. M \in [Token -> Nat] /\ M[o] = i /\ \A q \in O : M[q] = m[q] /\ m[q] # i
  BY <1>1 DEF Fits
<1> HIDE DEF M
<1>3. \A q \in O : M[q] \in 1 .. Len(g) /\ g[M[q]] = f[m[q]]
  BY <1>1, <1>2 DEF Fits
<1>4. \A x \in U : g[M[x[1]]].tag = x[2]
  <2> SUFFICES ASSUME NEW x \in U PROVE g[M[x[1]]].tag = x[2]
    OBVIOUS
  <2>1. CASE x[1] = o
    BY <2>1, <1>2
  <2>2. CASE x[1] # o
    <3>1. x \in T /\ x[1] \in O
      BY <2>2
    <3> QED BY <3>1, <1>1, <1>3 DEF Fits
  <2> QED BY <2>1, <2>2
<1>5. ASSUME all, NEW j \in 1 .. Len(g), ~ g[j].free
      PROVE  \E q \in O \cup {o} : M[q] = j
  <2>1. CASE j = i
    BY <2>1, <1>2
  <2>2. CASE j # i
    <3>1. PICK q \in O : m[q] = j
      BY <2>2, <1>1, <1>5 DEF Fits
    <3> QED BY <3>1, <1>2
  <2> QED BY <2>1, <2>2
<1>6. \A q \in O \cup {o} : M[q] \in 1 .. Len(g) /\ ~ g[M[q]].free /\ g[M[q]].pid = q.pid
  BY <1>1, <1>2, <1>3 DEF Fits
<1>7. \A q, r \in O \cup {o} : M[q] = M[r] => q = r
  BY <1>1, <1>2 DEF Fits
<1>8. Fits(M, O \cup {o}, U, g, all)
  BY <1>4, <1>5, <1>6, <1>7 DEF Fits
<1> QED BY <1>2, <1>8 DEF Matched

(* zoo_clear(): a line with the token's pid is freed.  It may be that of   *)
(* another token; that one gets the line of the token that is gone.        *)
LEMMA MatchClear ==
  ASSUME NEW O \in SUBSET Token, NEW T \in SUBSET (O \X Tag), NEW f \in Seq(Line),
         NEW all \in BOOLEAN, Matched(O, T, f, all),
         NEW o \in O, NEW i \in 1 .. Len(f), ~ f[i].free, f[i].pid = o.pid,
         NEW g \in Seq(Line), Len(g) = Len(f), g[i].free,
         \A j \in 1 .. Len(f) : j # i => g[j] = f[j],
         NEW U \in SUBSET T, \A x \in U : x[1] # o,
         \A x \in U : x[1].pid = o.pid =>
           \A j \in 1 .. Len(f) : ~ f[j].free /\ f[j].pid = o.pid => f[j].tag = x[2]
  PROVE  Matched(O \ {o}, U, g, all)
<1>1. PICK m \in [Token -> Nat] : Fits(m, O, T, f, all)
  BY DEF Matched
<1> DEFINE M == [q \in Token |-> IF m[q] = i THEN m[o] ELSE m[q]]
<1>2. M \in [Token -> Nat] /\ \A q \in Token : M[q] = IF m[q] = i THEN m[o] ELSE m[q]
  OBVIOUS
<1> HIDE DEF M
<1>3. \A q \in O \ {o} : /\ M[q] \in 1 .. Len(f) /\ M[q] # i
                         /\ ~ f[M[q]].free /\ f[M[q]].pid = q.pid
  BY <1>1, <1>2 DEF Fits
<1>4. \A q, r \in O \ {o} : M[q] = M[r] => q = r
  BY <1>1, <1>2 DEF Fits
<1>5. ASSUME NEW x \in U PROVE g[M[x[1]]].tag = x[2]
  <2>1. x[1] \in O \ {o} /\ x \in T
    OBVIOUS
  <2>2. M[x[1]] \in 1 .. Len(f) /\ g[M[x[1]]] = f[M[x[1]]]
    BY <2>1, <1>3
  <2>3. CASE m[x[1]] = i
    <3>1. x[1].pid = o.pid
      BY <2>1, <2>3, <1>1 DEF Fits
    <3>2. \A j \in 1 .. Len(f) : ~ f[j].free /\ f[j].pid = o.pid => f[j].tag = x[2]
      BY <3>1
    <3>3. ~ f[M[x[1]]].free /\ f[M[x[1]]].pid = o.pid
      BY <2>1, <3>1, <1>3
    <3> QED BY <2>2, <3>2, <3>3
  <2>4. CASE m[x[1]] # i
    <3>1. M[x[1]] = m[x[1]]
      BY <2>1, <2>4, <1>2
    <3> QED BY <2>1, <2>2, <3>1, <1>1 DEF Fits
  <2> QED BY <2>3, <2>4
<1>6. ASSUME all, NEW j \in 1 .. Len(g), ~ g[j].free
      PROVE  \E q \in O \ {o} : M[q] = j
  <2>1. j # i /\ j \in 1 .. Len(f) /\ ~ f[j].free
    BY <1>6
  <2>2. PICK q \in O : m[q] = j
    BY <2>1, <1>1, <1>6 DEF Fits
  <2>3. PICK r \in O : m[r] = i
    BY <1>1, <1>6 DEF Fits
  <2>4. CASE q # o
    BY <2>1, <2>2, <2>4, <1>2
  <2>5. CASE q = o
    <3>1. r # o /\ M[r] = j
      BY <2>1, <2>2, <2>3, <2>5, <1>2
    <3> QED BY <3>1
  <2> QED BY <2>4, <2>5
<1>7. \A q \in O \ {o} : M[q] \in 1 .. Len(g) /\ ~ g[M[q]].free /\ g[M[q]].pid = q.pid
  BY <1>3
<1>8. Fits(M, O \ {o}, U, g, all)
  BY <1>4, <1>5, <1>6, <1>7 DEF Fits
<1> QED BY <1>2, <1>8 DEF Matched

-----------------------------------------------------------------------------

(***************************************************************************)
(* Where each ltp-pan stands: which call it is in, which of its tests it   *)
(* has marked, what its last call may have returned.                       *)
(***************************************************************************)
Self(n) == [pid |-> PidOf[n], tag |-> PanTag[n]]

InCall(n, op, pid) == pc[n] # "idle" => req[n].op = op /\ req[n].pid = pid

MarksBlank(n) ==
  /\ count[n] \in 0 .. Len(BlankPid)
  /\ count[n] = 0 => pc[n] = "idle" /\ ret[n] = "ok"

PhaseOK(n) ==
  \/ /\ phase[n] = "begin" /\ pc[n] = "idle"
     /\ tests[n] = {} /\ marked[n] = {} /\ count[n] = 0
  \/ /\ phase[n] = "marking" /\ tests[n] = {} /\ marked[n] = {} /\ count[n] = 0
     /\ InCall(n, "mark", PidOf[n]) /\ (pc[n] # "idle" => req[n].tag = PanTag[n])
  \/ /\ phase[n] = "blank" /\ tests[n] = {} /\ marked[n] = {Self(n)} /\ MarksBlank(n)
     /\ InCall(n, "mark", BlankPid[count[n]])
  \/ /\ phase[n] = "unblank" /\ tests[n] = {} /\ marked[n] = {Self(n)} /\ MarksBlank(n)
     /\ InCall(n, "clear", BlankPid[count[n]])
  \/ phase[n] = "run" /\ pc[n] = "idle" /\ marked[n] = {Self(n)} \cup tests[n]
  \/ /\ phase[n] = "starting"
     /\ \E e \in tests[n] : /\ marked[n] = {Self(n)} \cup (tests[n] \ {e})
                            /\ InCall(n, "mark", e.pid)
                            /\ pc[n] # "idle" => req[n].tag = e.tag
  \/ /\ phase[n] = "reaping" /\ marked[n] = {Self(n)} \cup tests[n]
     /\ InCall(n, "clear", target[n]) /\ target[n] \in TestPid
     /\ \A e \in tests[n] : e.pid # target[n]
  \/ /\ phase[n] = "orphaning" /\ marked[n] = {Self(n)} \cup tests[n] /\ OwnGroups
     /\ InCall(n, "mark", target[n]) /\ target[n] \in TestPid
  \/ /\ phase[n] = "hunting" /\ marked[n] = {Self(n)} \cup tests[n] /\ OwnGroups
     /\ InCall(n, "clear", target[n]) /\ target[n] \in TestPid
  \/ /\ phase[n] = "leaving" /\ tests[n] = {} /\ marked[n] = {}
     /\ InCall(n, "clear", PidOf[n])
  \/ phase[n] = "done" /\ pc[n] = "idle" /\ tests[n] = {} /\ marked[n] = {}
  \/ /\ phase[n] \in {"failed", "crashed"} /\ pc[n] = "idle"
     /\ marked[n] \subseteq {Self(n)} \cup tests[n]

ReturnsOK(n) ==
  /\ pc[n] \in {"lock", "scan", "flush"} => ret[n] = "none"
  /\ pc[n] = "unlock" => ret[n] \in {"ok", "notfound"}
  /\ ret[n] = "notfound" => phase[n] \notin {"unblank", "reaping", "hunting", "leaving"}
  /\ ret[n] = "error" => IOErrors

TestsOK(n) ==
  \A e \in tests[n] : /\ e.pid \in TestPid /\ e.tag \in TestTag /\ e.pid \in exists
                      /\ \A m \in Pan : \A f \in tests[m] : f.pid = e.pid => m = n /\ f = e

OrphansOK(n) == ~ OwnGroups => \A pid \in TestPid : orphans[n][pid] = 0

LinesOK ==
  ~ OwnGroups => \A i \in 1 .. Len(file) :
    ~ file[i].free /\ file[i].pid \in TestPid => file[i].tag \in TestTag

(* The entries of a ltp-pan that are in the file and not being cleared.    *)
Entries(n) ==
  {e \in Entry : \/ e \in marked[n]
                 \/ phase[n] = "marking" /\ ret[n] = "ok" /\ e = Self(n)
                 \/ phase[n] = "starting" /\ ret[n] = "ok" /\ e \in tests[n]}

Clearing(n) ==
  phase[n] \in {"reaping", "leaving"} /\ pc[n] # "idle" /\ ret[n] # "ok"

(* A blank line is in the file from the effect of its zoo_mark() to that   *)
(* of its zoo_clear().                                                     *)
BlankIsIn(n, k) ==
  \/ phase[n] = "blank" /\ (k < count[n] \/ (k = count[n] /\ ret[n] = "ok"))
  \/ /\ phase[n] = "unblank"
     /\ k > count[n] \/ (k = count[n] /\ pc[n] # "idle" /\ ret[n] # "ok")

(* So is the line of an orphan; a pid may be listed more than once.        *)
OrphanIsIn(n, pid, k) ==
  \/ k \in 1 .. orphans[n][pid]
  \/ /\ k = orphans[n][pid] + 1 /\ pid = target[n]
     /\ \/ phase[n] = "orphaning" /\ ret[n] = "ok"
        \/ phase[n] = "hunting" /\ pc[n] # "idle" /\ ret[n] # "ok"

Owes(o) ==
  \/ /\ o.kind = "entry" /\ o.k = 0
     /\ \/ \E e \in Entries(o.pan) : e.pid = o.pid
        \/ Clearing(o.pan) /\ o.pid = req[o.pan].pid
  \/ /\ o.kind = "blank" /\ o.k \in 1 .. Len(BlankPid)
     /\ BlankIsIn(o.pan, o.k) /\ o.pid = BlankPid[o.k]
  \/ /\ o.kind = "orphan" /\ o.pid \in TestPid /\ OrphanIsIn(o.pan, o.pid, o.k)

Owed == {o \in Token : Owes(o)}

Tagged ==
  {x \in Token \X Tag :
     /\ x[1].kind = "entry" /\ x[1].k = 0
     /\ \E e \in Entries(x[1].pan) :
          e.pid = x[1].pid /\ e.tag = x[2] /\ KeepsTag(e)}

Clean == ~ IOErrors /\ \A n \in Pan : phase[n] \notin {"failed", "crashed"}

PansOK ==
  \A n \in Pan : PhaseOK(n) /\ ReturnsOK(n) /\ TestsOK(n) /\ OrphansOK(n)

ListedOK == Matched(Owed, Tagged, file, Clean)

-----------------------------------------------------------------------------

(***************************************************************************)
(* What a library step does to the ltp-pan that takes it.                  *)
(***************************************************************************)
LEMMA LibraryEffects ==
  ASSUME TypeOK, NEW n \in Proc, LibraryStep(n) \/ LibraryError(n)
  PROVE  /\ UNCHANGED clients
         /\ \/ /\ pc[n] = "lock" /\ pc'[n] = "scan"
               /\ ret'[n] = ret[n] /\ req'[n] = req[n] /\ file' = file
            \/ /\ pc[n] = "scan" /\ pc'[n] = "flush"
               /\ ret'[n] = ret[n] /\ req'[n] = req[n] /\ file' = file
            \/ /\ pc[n] = "scan" /\ pc'[n] = "unlock" /\ req[n].op = "clear"
               /\ ret'[n] = "notfound" /\ req'[n] = req[n] /\ file' = file
               /\ \A i \in 1 .. Len(file) : ~ HasPid(View(n, i), req[n].pid)
            \/ pc[n] = "scan" /\ req[n].op = "getpid"
            \/ /\ Flush(n) /\ pc[n] = "flush" /\ pc'[n] = "unlock"
               /\ ret'[n] = "ok" /\ req'[n] = req[n]
            \/ /\ pc[n] = "unlock" /\ pc'[n] = "idle"
               /\ ret'[n] = ret[n] /\ file' = file
            \/ /\ IOErrors /\ pc[n] \in {"lock", "scan", "unlock"} /\ pc'[n] = "idle"
               /\ ret'[n] = "error" /\ file' = file
<1> USE DEF TypeOK
<1>1. UNCHANGED clients
  BY DEF LibraryStep, LibraryError
<1>2. CASE Lock(n)
  BY <1>1, <1>2 DEF Lock, Goto
<1>3. CASE ScanMark(n)
  BY <1>1, <1>3 DEF ScanMark, Goto
<1>4. CASE ScanClear(n)
  <2>1. CASE \A i \in 1 .. Len(file) : ~ HasPid(View(n, i), req[n].pid)
    BY <1>1, <1>4, <2>1 DEF ScanClear, Goto, Return, FirstLine
  <2>2. CASE \E i \in 1 .. Len(file) : HasPid(View(n, i), req[n].pid)
    BY <1>1, <1>4, <2>2 DEF ScanClear, Goto, NoLine
  <2> QED BY <2>1, <2>2
<1>5. CASE ScanGetpid(n)
  BY <1>1, <1>5 DEF ScanGetpid
<1>6. CASE Flush(n)
  BY <1>1, <1>6 DEF Flush, Goto, Return
<1>7. CASE Unlock(n)
  BY <1>1, <1>7 DEF Unlock, Leave, Goto
<1>8. CASE IOErrors /\ (LockFails(n) \/ SeekFails(n) \/ UnlockFails(n))
  BY <1>1, <1>8 DEF LockFails, SeekFails, UnlockFails, Leave, Goto, Return
<1> QED BY <1>2, <1>3, <1>4, <1>5, <1>6, <1>7, <1>8 DEF LibraryStep, LibraryError

(***************************************************************************)
(* A step of one ltp-pan leaves every other where it is.                   *)
(***************************************************************************)
SameFor(m) ==
  /\ pc'[m] = pc[m] /\ req'[m] = req[m] /\ ret'[m] = ret[m]
  /\ phase'[m] = phase[m] /\ count'[m] = count[m]
  /\ tests'[m] = tests[m] /\ marked'[m] = marked[m]
  /\ orphans'[m] = orphans[m] /\ target'[m] = target[m]

StepOf(n) ==
  \/ LibraryStep(n) \/ LibraryError(n) \/ PanStep(n) \/ PanCrashes(n)
  \/ \E e \in tests[n] : StrayEnds(n, e)

LEMMA OthersStay ==
  ASSUME ClientsTypeOK, NEW n \in Pan, StepOf(n), NEW m \in Pan, m # n
  PROVE  SameFor(m)
<1> USE ClientsAssumption DEF ClientsTypeOK, TypeOK, SameFor
<1>1. CASE LibraryStep(n) \/ LibraryError(n)
  <2>1. UNCHANGED clients
    BY <1>1 DEF LibraryStep, LibraryError
  <2>2. pc'[m] = pc[m] /\ req'[m] = req[m]
    BY <1>1 DEF LibraryStep, LibraryError, Lock, LockFails, ScanMark, ScanClear,
       ScanGetpid, SeekFails, Flush, Unlock, UnlockFails, Goto, Leave
  <2>3. ret'[m] = ret[m]
    BY <1>1 DEF LibraryStep, LibraryError, Lock, LockFails, ScanMark, ScanClear,
       ScanGetpid, SeekFails, Flush, Unlock, UnlockFails, Return
  <2> QED BY <2>1, <2>2, <2>3 DEF clients
<1>2. CASE PanStep(n) \/ PanCrashes(n) \/ \E e \in tests[n] : StrayEnds(n, e)
  <2>1. phase'[m] = phase[m] /\ count'[m] = count[m]
    BY <1>2 DEF PanStep, PanCrashes, StrayEnds, MarkSelf, SelfMarked, MarkBlanks,
       ClearBlanks, Blank, TestMarked, Reaped, Orphan, OrphanMarked, Hunt, Hunted, ClearSelf, PanDone, PanFails,
       StartTest, Reap, Phase
  <2>2. tests'[m] = tests[m] /\ marked'[m] = marked[m]
    BY <1>2 DEF PanStep, PanCrashes, StrayEnds, MarkSelf, SelfMarked, MarkBlanks,
       ClearBlanks, Blank, TestMarked, Reaped, Orphan, OrphanMarked, Hunt, Hunted, ClearSelf, PanDone, PanFails,
       StartTest, Reap
  <2>4. orphans'[m] = orphans[m] /\ target'[m] = target[m]
    BY <1>2 DEF PanStep, PanCrashes, StrayEnds, MarkSelf, SelfMarked, MarkBlanks,
       ClearBlanks, Blank, TestMarked, Reaped, Orphan, OrphanMarked, Hunt, Hunted, ClearSelf, PanDone, PanFails,
       StartTest, Reap
  <2>3. pc'[m] = pc[m] /\ req'[m] = req[m] /\ ret'[m] = ret[m]
    BY <1>2 DEF PanStep, PanCrashes, StrayEnds, MarkSelf, SelfMarked, MarkBlanks,
       ClearBlanks, Blank, TestMarked, Reaped, Orphan, OrphanMarked, Hunt, Hunted, ClearSelf, PanDone, PanFails,
       StartTest, Reap, CallMark, CallClear, Call, Exit, Goto, Leave, Return, vars
  <2> QED BY <2>1, <2>2, <2>3, <2>4
<1> QED BY <1>1, <1>2 DEF StepOf

(***************************************************************************)
(* A ltp-pan keeps to its phases.                                          *)
(***************************************************************************)
LEMMA LibraryPhaseOK ==
  ASSUME ClientsTypeOK, NEW n \in Pan, PhaseOK(n), LibraryStep(n) \/ LibraryError(n)
  PROVE  PhaseOK(n)'
<1>1. n \in Proc /\ TypeOK
  BY ClientsAssumption DEF ClientsTypeOK
<1>2. UNCHANGED clients
  BY <1>1, LibraryEffects
<1>3. pc[n] # "idle"
  BY <1>1, LibraryEffects
<1>4. pc'[n] = "idle" \/ req'[n] = req[n]
  <2>1. req[n].op # "getpid"
    BY <1>3 DEF PhaseOK, InCall
  <2> QED BY <1>1, <2>1, LibraryEffects
<1>5. ~ (count[n] = 0 /\ phase[n] \in {"blank", "unblank"})
  BY <1>3 DEF PhaseOK, MarksBlank
<1> QED BY <1>2, <1>3, <1>4, <1>5 DEF clients, PhaseOK, InCall, MarksBlank, Self

LEMMA PanPhaseOK ==
  ASSUME ClientsTypeOK, NEW n \in Pan, PhaseOK(n), TestsOK(n), OrphansOK(n), PanStep(n)
  PROVE  PhaseOK(n)'
<1> USE ClientsAssumption
<1>0. /\ pc \in [Proc -> {"idle", "lock", "scan", "flush", "unlock"}]
      /\ req \in [Proc -> Request] /\ ret \in [Proc -> Result] /\ n \in Proc
      /\ phase \in [Proc -> Phases] /\ count \in [Proc -> Nat] /\ count[n] \in Nat
      /\ tests \in [Pan -> SUBSET Entry] /\ marked \in [Pan -> SUBSET Entry]
      /\ Len(BlankPid) \in Nat /\ PidOf[n] \notin TestPid
      /\ target \in [Proc -> Pid \cup {NoPid}]
  BY DEF ClientsTypeOK, TypeOK, Phases
<1>1. ASSUME NEW r, Call(n, r) PROVE pc'[n] = "lock" /\ req'[n] = r /\ pc[n] = "idle"
  BY <1>0, <1>1 DEF Call, Goto
<1>2. CASE MarkSelf(n)
  BY <1>0, <1>1, <1>2 DEF MarkSelf, CallMark, Phase, Idle, PhaseOK, InCall
<1>3. CASE SelfMarked(n)
  <2>1. /\ phase'[n] = "blank" /\ tests'[n] = {} /\ count'[n] = 0
        /\ pc'[n] = "idle" /\ ret'[n] = "ok" /\ marked'[n] = {Self(n)}
    BY <1>0, <1>3 DEF SelfMarked, Phase, Idle, PhaseOK, vars, Self
  <2> QED BY <1>0, <2>1 DEF PhaseOK, InCall, MarksBlank, Self
<1>4. CASE MarkBlanks(n)
  <2>1. /\ phase[n] = "blank" /\ tests'[n] = {} /\ marked'[n] = {Self(n)}
        /\ pc[n] = "idle" /\ ret[n] = "ok" /\ count[n] \in 0 .. Len(BlankPid)
    BY <1>0, <1>4 DEF MarkBlanks, Blank, Idle, PhaseOK, MarksBlank, Self
  <2>2. CASE count[n] < Len(BlankPid)
    <3>1. CallMark(n, BlankPid[count[n] + 1], PanTag[n])
      BY <1>4, <2>2 DEF MarkBlanks, Blank
    <3>2. /\ req'[n].op = "mark" /\ req'[n].pid = BlankPid[count[n] + 1]
          /\ phase'[n] = "blank" /\ count'[n] = count[n] + 1
      BY <1>0, <1>1, <1>4, <2>1, <2>2, <3>1 DEF MarkBlanks, Blank, CallMark
    <3> QED BY <1>0, <2>1, <2>2, <3>2 DEF PhaseOK, InCall, MarksBlank, Self
  <2>3. CASE ~ count[n] < Len(BlankPid)
    <3>1. /\ phase'[n] = "unblank" /\ count'[n] = 0
          /\ pc'[n] = "idle" /\ ret'[n] = "ok"
      BY <1>0, <1>4, <2>1, <2>3 DEF MarkBlanks, Blank, Phase, vars
    <3> QED BY <1>0, <2>1, <3>1 DEF PhaseOK, InCall, MarksBlank, Self
  <2> QED BY <2>2, <2>3
<1>5. CASE ClearBlanks(n)
  <2>1. /\ phase[n] = "unblank" /\ tests'[n] = {} /\ marked'[n] = {Self(n)}
        /\ pc[n] = "idle" /\ ret[n] = "ok" /\ count[n] \in 0 .. Len(BlankPid)
    BY <1>0, <1>5 DEF ClearBlanks, Blank, Idle, PhaseOK, MarksBlank, Self
  <2>2. CASE count[n] < Len(BlankPid)
    <3>1. CallClear(n, BlankPid[count[n] + 1])
      BY <1>5, <2>2 DEF ClearBlanks, Blank
    <3>2. /\ req'[n].op = "clear" /\ req'[n].pid = BlankPid[count[n] + 1]
          /\ phase'[n] = "unblank" /\ count'[n] = count[n] + 1
      BY <1>0, <1>1, <1>5, <2>1, <2>2, <3>1 DEF ClearBlanks, Blank, CallClear
    <3> QED BY <1>0, <2>1, <2>2, <3>2 DEF PhaseOK, InCall, MarksBlank, Self
  <2>3. CASE ~ count[n] < Len(BlankPid)
    <3>1. phase'[n] = "run" /\ pc'[n] = "idle"
      BY <1>0, <1>5, <2>1, <2>3 DEF ClearBlanks, Blank, Phase, vars
    <3> QED BY <1>0, <2>1, <3>1 DEF PhaseOK, Self
  <2> QED BY <2>2, <2>3
<1>6. ASSUME NEW e \in Entry, StartTest(n, e) PROVE PhaseOK(n)'
  <2>1. /\ e \notin tests[n] /\ phase[n] = "run"
        /\ marked[n] = {Self(n)} \cup tests[n]
    BY <1>6 DEF StartTest, Idle, PhaseOK, TestsOK
  <2>2. /\ phase'[n] = "starting" /\ tests'[n] = tests[n] \cup {e}
        /\ marked'[n] = marked[n]
        /\ req'[n].op = "mark" /\ req'[n].pid = e.pid /\ req'[n].tag = e.tag
    BY <1>0, <1>1, <1>6 DEF StartTest, CallMark, Phase
  <2>3. e \in tests'[n] /\ marked'[n] = {Self(n)} \cup (tests'[n] \ {e})
    BY <2>1, <2>2
  <2> QED BY <2>2, <2>3 DEF PhaseOK, InCall, Self
<1>7. CASE TestMarked(n)
  <2>1. PICK e \in tests[n] : marked[n] = {Self(n)} \cup (tests[n] \ {e})
    BY <1>7 DEF TestMarked, Idle, PhaseOK
  <2>2. /\ phase'[n] = "run" /\ pc'[n] = "idle" /\ tests'[n] = tests[n]
        /\ marked'[n] = marked[n] \cup tests[n]
    BY <1>0, <1>7 DEF TestMarked, Idle, Phase, vars
  <2> QED BY <2>1, <2>2 DEF PhaseOK, Self
<1>8. ASSUME NEW e \in tests[n], Reap(n, e) PROVE PhaseOK(n)'
  <2>1. phase[n] = "run" /\ marked[n] = {Self(n)} \cup tests[n]
    BY <1>8 DEF Reap, Idle, PhaseOK
  <2>2. /\ phase'[n] = "reaping" /\ tests'[n] = tests[n] \ {e}
        /\ marked'[n] = marked[n] \ {e}
        /\ req'[n].op = "clear" /\ req'[n].pid = e.pid /\ target'[n] = e.pid
    BY <1>0, <1>1, <1>8 DEF Reap, CallClear, Phase
  <2>3. e.pid \in TestPid /\ e # Self(n)
        /\ \A f \in tests[n] : f.pid = e.pid => f = e
    BY <1>0 DEF TestsOK, Self
  <2>4. /\ marked'[n] = {Self(n)} \cup tests'[n]
        /\ \A f \in tests'[n] : f.pid # target'[n]
    BY <2>1, <2>2, <2>3
  <2> QED BY <2>2, <2>3, <2>4 DEF PhaseOK, InCall, Self
<1>9. CASE Reaped(n)
  BY <1>0, <1>9 DEF Reaped, Idle, Phase, PhaseOK, Self, vars
<1>10. CASE ClearSelf(n)
  BY <1>0, <1>1, <1>10 DEF ClearSelf, CallClear, Idle, Phase, PhaseOK, InCall
<1>11. CASE PanDone(n)
  BY <1>0, <1>11 DEF PanDone, Idle, Phase, PhaseOK, Exit, Leave, Goto
<1>12. CASE PanFails(n)
  <2>1. /\ phase'[n] = "failed" /\ pc'[n] = "idle"
        /\ tests'[n] = tests[n] /\ marked'[n] = marked[n]
    BY <1>0, <1>12 DEF PanFails, Phase, Exit, Leave, Goto
  <2>2. marked[n] \subseteq {Self(n)} \cup tests[n]
    BY DEF PhaseOK
  <2> QED BY <2>1, <2>2 DEF PhaseOK, Self
<1>13. CASE Orphan(n)
  <2>1. /\ phase'[n] = "orphaning" /\ tests'[n] = tests[n] /\ marked'[n] = marked[n]
        /\ req'[n].op = "mark" /\ req'[n].pid = target[n] /\ target'[n] = target[n]
        /\ OwnGroups
    BY <1>0, <1>1, <1>13 DEF Orphan, CallMark, Phase
  <2>2. target[n] \in TestPid /\ marked[n] = {Self(n)} \cup tests[n]
    BY <1>13 DEF Orphan, Idle, PhaseOK
  <2> QED BY <2>1, <2>2 DEF PhaseOK, InCall, Self
<1>14. CASE OrphanMarked(n) \/ Hunted(n)
  <2>1. /\ phase'[n] = "run" /\ pc'[n] = "idle"
        /\ tests'[n] = tests[n] /\ marked'[n] = marked[n]
    BY <1>0, <1>14 DEF OrphanMarked, Hunted, Idle, Phase, vars
  <2>2. marked[n] = {Self(n)} \cup tests[n]
    BY <1>14 DEF OrphanMarked, Hunted, Idle, PhaseOK
  <2> QED BY <2>1, <2>2 DEF PhaseOK, Self
<1>15. ASSUME NEW pid \in TestPid, Hunt(n, pid), OrphansOK(n) PROVE PhaseOK(n)'
  <2>1. /\ phase'[n] = "hunting" /\ tests'[n] = tests[n] /\ marked'[n] = marked[n]
        /\ req'[n].op = "clear" /\ req'[n].pid = pid /\ target'[n] = pid
    BY <1>0, <1>1, <1>15 DEF Hunt, CallClear, Phase
  <2>2. marked[n] = {Self(n)} \cup tests[n] /\ OwnGroups
    BY <1>15 DEF Hunt, Idle, PhaseOK, OrphansOK
  <2> QED BY <2>1, <2>2 DEF PhaseOK, InCall, Self
<1> QED
  BY <1>2, <1>3, <1>4, <1>5, <1>6, <1>7, <1>8, <1>9, <1>10, <1>11, <1>12, <1>13,
     <1>14, <1>15
  DEF PanStep

LEMMA EndPhaseOK ==
  ASSUME ClientsTypeOK, NEW n \in Pan, PhaseOK(n),
         PanCrashes(n) \/ \E e \in tests[n] : StrayEnds(n, e)
  PROVE  PhaseOK(n)'
<1>0. /\ pc \in [Proc -> {"idle", "lock", "scan", "flush", "unlock"}] /\ n \in Proc
      /\ phase \in [Proc -> Phases]
      /\ tests \in [Pan -> SUBSET Entry] /\ marked \in [Pan -> SUBSET Entry]
  BY ClientsAssumption DEF ClientsTypeOK, TypeOK, Phases
<1>1. marked[n] \subseteq {Self(n)} \cup tests[n]
  BY DEF PhaseOK
<1>2. CASE PanCrashes(n)
  <2>1. /\ phase'[n] = "crashed" /\ pc'[n] = "idle"
        /\ tests'[n] = tests[n] /\ marked'[n] = marked[n]
    BY <1>0, <1>2 DEF PanCrashes, Phase, Exit, Leave, Goto
  <2> QED BY <1>1, <2>1 DEF PhaseOK, Self
<1>3. ASSUME NEW e \in tests[n], StrayEnds(n, e) PROVE PhaseOK(n)'
  <2>1. /\ phase'[n] = phase[n] /\ phase[n] \in {"failed", "crashed"}
        /\ pc[n] = "idle" /\ pc'[n] = pc[n]
        /\ tests'[n] = tests[n] \ {e} /\ marked'[n] = marked[n] \ {e}
    BY <1>0, <1>3 DEF StrayEnds, vars, PhaseOK
  <2> QED BY <1>1, <2>1 DEF PhaseOK, Self
<1> QED BY <1>2, <1>3

(***************************************************************************)
(* Tests that run have pids of their own.                                  *)
(***************************************************************************)
LEMMA NextTestsOK ==
  ASSUME ClientsTypeOK, NEW n \in Pan, StepOf(n), \A m \in Pan : TestsOK(m)
  PROVE  \A m \in Pan : TestsOK(m)'
<1> USE ClientsAssumption
<1>0. tests \in [Pan -> SUBSET Entry] /\ exists \in SUBSET Pid
  BY DEF ClientsTypeOK
<1>1. CASE tests' = tests /\ (exists' = exists \/ exists' = exists \ {PidOf[n]})
  <2>1. \A m \in Pan : \A e \in tests[m] : e.pid \in TestPid
    BY DEF TestsOK
  <2>2. \A m \in Pan : \A e \in tests[m] : e.pid # PidOf[n]
    BY <2>1
  <2> QED BY <1>1, <2>2 DEF TestsOK
<1>2. ASSUME NEW e \in Entry, StartTest(n, e) PROVE \A m \in Pan : TestsOK(m)'
  <2>1. /\ e.pid \in TestPid /\ e.pid \notin exists /\ e.tag \in TestTag
        /\ exists' = exists \cup {e.pid}
        /\ \A m \in Pan : tests'[m] = IF m = n THEN tests[n] \cup {e} ELSE tests[m]
    BY <1>0, <1>2 DEF StartTest
  <2>2. \A m \in Pan : \A f \in tests[m] : f.pid \in exists /\ f.pid # e.pid
    BY <2>1 DEF TestsOK
  <2>3. ASSUME NEW m \in Pan, NEW f \in tests'[m]
        PROVE  /\ f.pid \in TestPid /\ f.tag \in TestTag /\ f.pid \in exists'
               /\ f \in tests[m] \/ (f = e /\ m = n)
    <3>1. CASE f \in tests[m]
      BY <2>1, <3>1 DEF TestsOK
    <3>2. CASE f = e /\ m = n
      BY <2>1, <3>2
    <3> QED BY <2>1, <2>3, <3>1, <3>2
  <2>4. ASSUME NEW m \in Pan, NEW f \in tests'[m], NEW q \in Pan, NEW g \in tests'[q],
               g.pid = f.pid
        PROVE  q = m /\ g = f
    <3>1. CASE f \in tests[m] /\ g \in tests[q]
      BY <2>4, <3>1 DEF TestsOK
    <3>2. CASE f = e \/ g = e
      BY <2>2, <2>3, <2>4, <3>2
    <3> QED BY <2>3, <3>1, <3>2
  <2> QED BY <2>3, <2>4 DEF TestsOK
<1>3. ASSUME NEW e \in tests[n], Reap(n, e) \/ StrayEnds(n, e)
      PROVE  \A m \in Pan : TestsOK(m)'
  <2>1. /\ exists' = exists \ {e.pid}
        /\ \A m \in Pan : tests'[m] = IF m = n THEN tests[n] \ {e} ELSE tests[m]
    BY <1>0, <1>3 DEF Reap, StrayEnds, Vacate
  <2>2. \A m \in Pan : \A f \in tests'[m] : f \in tests[m] /\ f.pid # e.pid
    BY <2>1 DEF TestsOK
  <2> QED BY <2>1, <2>2 DEF TestsOK
<1>4. CASE LibraryStep(n) \/ LibraryError(n)
  BY <1>1, <1>4 DEF LibraryStep, LibraryError, clients
<1>5. CASE PanCrashes(n)
  BY <1>1, <1>5 DEF PanCrashes
<1>6. CASE PanStep(n)
  <2>1. CASE MarkSelf(n) \/ SelfMarked(n) \/ MarkBlanks(n) \/ ClearBlanks(n)
             \/ TestMarked(n) \/ Reaped(n) \/ Orphan(n) \/ OrphanMarked(n)
             \/ (\E pid \in TestPid : Hunt(n, pid)) \/ Hunted(n)
             \/ ClearSelf(n) \/ PanDone(n) \/ PanFails(n)
    BY <1>1, <2>1 DEF MarkSelf, SelfMarked, MarkBlanks, ClearBlanks, Blank,
       TestMarked, Reaped, Orphan, OrphanMarked, Hunt, Hunted, ClearSelf, PanDone, PanFails
  <2> QED BY <1>2, <1>3, <1>6, <2>1 DEF PanStep
<1> QED BY <1>3, <1>4, <1>5, <1>6 DEF StepOf

(***************************************************************************)
(* A test's line has a test's tag.                                         *)
(***************************************************************************)
LEMMA ClientStepFile ==
  ASSUME NEW n \in Pan, StepOf(n), ~ Flush(n)
  PROVE  file' = file
BY DEF StepOf, LibraryStep, LibraryError, Lock, LockFails, ScanMark, ScanClear,
   ScanGetpid, SeekFails, Unlock, UnlockFails, PanStep, PanCrashes, StrayEnds, MarkSelf,
   SelfMarked, MarkBlanks, ClearBlanks, Blank, TestMarked, Reaped, Orphan,
   OrphanMarked, Hunt, Hunted, ClearSelf, PanDone, PanFails, StartTest, Reap, CallMark, CallClear, Call, Exit, vars

LEMMA MarksTestTag ==
  ASSUME ClientsTypeOK, NEW n \in Pan, PhaseOK(n), TestsOK(n), Flush(n), req[n].op = "mark"
  PROVE  ~ OwnGroups /\ req[n].pid \in TestPid => req[n].tag \in TestTag
<1>1. pc[n] # "idle"
  BY DEF Flush
<1>2. CASE phase[n] = "marking"
  BY <1>1, <1>2, ClientsAssumption DEF PhaseOK, InCall
<1>3. CASE phase[n] = "blank"
  <2>1. req[n].pid = BlankPid[count[n]] /\ count[n] \in 1 .. Len(BlankPid)
    BY <1>1, <1>3, ClientsAssumption DEF PhaseOK, InCall, MarksBlank
  <2> QED BY <2>1, ClientsAssumption
<1>4. CASE phase[n] = "starting"
  BY <1>1, <1>4 DEF PhaseOK, InCall, TestsOK
<1>5. CASE phase[n] = "orphaning"
  BY <1>5 DEF PhaseOK
<1> QED BY <1>1, <1>2, <1>3, <1>4, <1>5 DEF PhaseOK, InCall

LEMMA NextLinesOK ==
  ASSUME ClientsTypeOK, IInv, NEW n \in Pan, PhaseOK(n), TestsOK(n), StepOf(n), LinesOK
  PROVE  LinesOK'
<1>1. CASE ~ Flush(n)
  BY <1>1, ClientStepFile DEF LinesOK
<1>2. CASE Flush(n)
  <2>0. /\ n \in Proc /\ file \in Seq(Line) /\ pos[n] \in Nat
        /\ req[n].pid \in Pid /\ req[n].tag \in Tag
    BY ClientsAssumption DEF IInv, TypeOK, Request
  <2> DEFINE l == [free |-> FALSE, pid |-> req[n].pid, tag |-> req[n].tag]
  <2>1. l \in Line
    BY <2>0 DEF Line
  <2>2. CASE req[n].op = "clear"
    <3>1. /\ pos[n] \in 1 .. Len(file)
          /\ file' = [file EXCEPT ![pos[n]] = Freed(file[pos[n]])]
      BY <1>2, <2>0, <2>2, FlushWrites
    <3>2. /\ Len(file') = Len(file) /\ file'[pos[n]].free
          /\ \A i \in 1 .. Len(file) : i # pos[n] => file'[i] = file[i]
      BY <2>0, <3>1 DEF Freed, Line
    <3> QED BY <3>2 DEF LinesOK
  <2>3. CASE req[n].op = "mark"
    <3>1. ~ OwnGroups /\ l.pid \in TestPid => l.tag \in TestTag
      BY <1>2, <2>3, MarksTestTag
    <3>2. /\ \A i \in 1 .. Len(file') : file'[i] = l \/ (i \in 1 .. Len(file) /\ file'[i] = file[i])
      <4>1. CASE pos[n] \in 1 .. Len(file) /\ file' = [file EXCEPT ![pos[n]] = l]
        BY <2>0, <2>1, <4>1
      <4>2. CASE file' = Append(file, l)
        BY <2>0, <2>1, <4>2, WriteLine
      <4> QED BY <1>2, <2>0, <2>3, <4>1, <4>2, FlushWrites
    <3> QED BY <3>1, <3>2 DEF LinesOK
  <2> QED BY <1>2, <2>0, <2>2, <2>3, FlushWrites
<1> QED BY <1>1, <1>2

(***************************************************************************)
(* What a ltp-pan is about to clear is owed, and so it is found.           *)
(***************************************************************************)
InHand(n) ==
  CASE phase[n] \in {"blank", "unblank"} ->
         [kind |-> "blank", pan |-> n, k |-> count[n], pid |-> req[n].pid]
    [] phase[n] \in {"orphaning", "hunting"} ->
         [kind |-> "orphan", pan |-> n, k |-> orphans[n][req[n].pid] + 1,
          pid |-> req[n].pid]
    [] OTHER ->
         [kind |-> "entry", pan |-> n, k |-> 0, pid |-> req[n].pid]

LEMMA InHandIsToken ==
  ASSUME ClientsTypeOK, NEW n \in Pan, PhaseOK(n), pc[n] # "idle"
  PROVE  InHand(n) \in Token /\ InHand(n).pan = n /\ InHand(n).pid = req[n].pid
<1>1. req[n].pid \in Pid /\ count[n] \in Nat
  BY ClientsAssumption DEF ClientsTypeOK, TypeOK, Request
<1>2. CASE phase[n] \in {"orphaning", "hunting"}
  <2>1. req[n].pid \in TestPid
    BY <1>2 DEF PhaseOK, InCall
  <2>2. orphans[n][req[n].pid] \in Nat
    BY <2>1 DEF ClientsTypeOK
  <2> QED BY <1>1, <1>2, <2>2 DEF InHand, Token
<1>3. CASE phase[n] \notin {"orphaning", "hunting"}
  BY <1>1, <1>3 DEF InHand, Token
<1> QED BY <1>2, <1>3

LEMMA ClearingIsOwed ==
  ASSUME ClientsTypeOK, NEW n \in Pan, PhaseOK(n), pc[n] # "idle", ret[n] = "none",
         req[n].op = "clear"
  PROVE  InHand(n) \in Owed
<1>1. req[n].pid \in Pid /\ count[n] \in Nat /\ InHand(n) \in Token
  BY ClientsAssumption, InHandIsToken DEF ClientsTypeOK, TypeOK, Request
<1>4. CASE phase[n] = "hunting"
  <2>1. /\ InHand(n) = [kind |-> "orphan", pan |-> n, k |-> orphans[n][req[n].pid] + 1,
                        pid |-> req[n].pid]
        /\ req[n].pid = target[n] /\ target[n] \in TestPid
    BY <1>4 DEF InHand, PhaseOK, InCall
  <2> QED BY <1>1, <1>4, <2>1 DEF Owed, Owes, OrphanIsIn
<1>2. CASE phase[n] = "unblank"
  <2>1. count[n] \in 1 .. Len(BlankPid) /\ req[n].pid = BlankPid[count[n]]
    BY <1>1, <1>2, ClientsAssumption DEF PhaseOK, MarksBlank, InCall
  <2> QED BY <1>1, <1>2, <2>1 DEF Owed, Owes, BlankIsIn, InHand
<1>3. CASE phase[n] \in {"reaping", "leaving"}
  BY <1>1, <1>3 DEF Owed, Owes, Clearing, InHand
<1> QED BY <1>2, <1>3, <1>4 DEF PhaseOK, InCall

LEMMA OwedIsListed ==
  ASSUME ListedOK, NEW o \in Owed
  PROVE  \E i \in 1 .. Len(file) : ~ file[i].free /\ file[i].pid = o.pid
BY DEF ListedOK, Matched, Fits

LEMMA NextReturnsOK ==
  ASSUME Bump = {}, ClientsTypeOK, IInv, ListedOK,
         NEW n \in Pan, PhaseOK(n), ReturnsOK(n), StepOf(n)
  PROVE  ReturnsOK(n)'
<1>0. /\ n \in Proc /\ TypeOK /\ pc \in [Proc -> {"idle", "lock", "scan", "flush", "unlock"}]
      /\ phase \in [Proc -> Phases] /\ ret \in [Proc -> Result]
  BY ClientsAssumption DEF ClientsTypeOK, TypeOK, Phases
<1>1. CASE LibraryStep(n) \/ LibraryError(n)
  <2>1. phase'[n] = phase[n]
    BY <1>0, <1>1, LibraryEffects DEF clients
  <2>2. ASSUME pc[n] = "scan", req[n].op = "clear",
               \A i \in 1 .. Len(file) : ~ HasPid(View(n, i), req[n].pid)
        PROVE  FALSE
    <3>1. InHand(n) \in Owed /\ InHand(n).pid = req[n].pid
      BY <2>2, ClearingIsOwed, InHandIsToken DEF ReturnsOK
    <3>2. PICK i \in 1 .. Len(file) : ~ file[i].free /\ file[i].pid = req[n].pid
      BY <3>1, OwedIsListed
    <3>3. cache[n] = <<>>
      BY <1>0, ClientsAssumption DEF IInv, WritersAreFresh
    <3>4. View(n, i) = file[i]
      BY <3>3 DEF View
    <3> QED BY <2>2, <3>2, <3>4 DEF HasPid
  <2>3. req[n].op # "getpid"
    <3>1. pc[n] # "idle"
      BY <1>0, <1>1, LibraryEffects
    <3> QED BY <3>1 DEF PhaseOK, InCall
  <2> QED BY <1>0, <1>1, <2>1, <2>2, <2>3, LibraryEffects DEF ReturnsOK
<1>2. CASE PanStep(n) \/ PanCrashes(n) \/ \E e \in tests[n] : StrayEnds(n, e)
  <2>1. CASE Orphan(n) \/ OrphanMarked(n) \/ (\E pid \in TestPid : Hunt(n, pid)) \/ Hunted(n)
    <3>1. \/ pc'[n] = "lock" /\ ret'[n] = "none"
          \/ pc'[n] = "idle" /\ ret'[n] = ret[n] /\ phase'[n] = "run"
      BY <1>0, <2>1 DEF Orphan, OrphanMarked, Hunt, Hunted, CallMark, CallClear, Call,
         Goto, Return, Phase, Idle, vars
    <3> QED BY <3>1 DEF ReturnsOK
  <2>2. CASE ~ (Orphan(n) \/ OrphanMarked(n) \/ (\E pid \in TestPid : Hunt(n, pid)) \/ Hunted(n))
    <3>1. \/ pc'[n] = "lock" /\ ret'[n] = "none"
          \/ pc'[n] = "idle" /\ ret'[n] = "none"
          \/ /\ pc'[n] = pc[n] /\ ret'[n] = ret[n]
             /\ ret[n] = "ok" \/ phase'[n] = phase[n]
      BY <1>0, <1>2, <2>2 DEF PanStep, PanCrashes, StrayEnds, MarkSelf, SelfMarked,
         MarkBlanks, ClearBlanks, Blank, TestMarked, Reaped, ClearSelf, PanDone,
         PanFails, StartTest, Reap, CallMark, CallClear, Call, Exit, Goto, Leave,
         Return, vars, Idle
    <3> QED BY <3>1 DEF ReturnsOK
  <2> QED BY <2>1, <2>2
<1> QED BY <1>1, <1>2 DEF StepOf

-----------------------------------------------------------------------------

(***************************************************************************)
(* How what is owed changes.                                               *)
(***************************************************************************)
LEMMA TaggedIsOwed == Tagged \in SUBSET (Owed \X Tag)
BY DEF Tagged, Owed, Owes

LEMMA SameOwes ==
  ASSUME NEW m \in Pan, SameFor(m)
  PROVE  /\ Entries(m)' = Entries(m)
         /\ \A o \in Token : o.pan = m => (Owes(o)' <=> Owes(o))
<1>1. Entries(m)' = Entries(m)
  BY DEF SameFor, Entries, Self
<1>2. Clearing(m)' = Clearing(m)
  BY DEF SameFor, Clearing
<1>3. \A k \in Nat : BlankIsIn(m, k)' <=> BlankIsIn(m, k)
  BY DEF SameFor, BlankIsIn
<1>4. req'[m] = req[m]
  BY DEF SameFor
<1>5. \A pid, k : OrphanIsIn(m, pid, k)' <=> OrphanIsIn(m, pid, k)
  BY DEF SameFor, OrphanIsIn
<1> QED BY <1>1, <1>2, <1>3, <1>4, <1>5 DEF Owes, Token

(* Nothing is written.                                                     *)
LEMMA ListedStays ==
  ASSUME ClientsTypeOK, ListedOK, file' = file, NEW n \in Pan,
         \A m \in Pan : m # n => SameFor(m),
         Entries(n)' \subseteq Entries(n),
         \A o \in Token : o.pan = n /\ Owes(o)' => Owes(o),
         Clean' => Clean /\ \A o \in Token : o.pan = n /\ Owes(o) => Owes(o)'
  PROVE  ListedOK'
<1>1. \A o \in Token : o.pan \in Pan
  BY DEF Token
<1>2. \A m \in Pan : Entries(m)' \subseteq Entries(m)
  BY SameOwes
<1>3. Owed' \in SUBSET Owed
  BY <1>1, SameOwes DEF Owed
<1>4. Tagged' \in SUBSET Tagged
  BY <1>1, <1>2 DEF Tagged
<1>5. Clean' => Clean /\ Owed' = Owed
  BY <1>1, SameOwes DEF Owed
<1>6. Owed \in SUBSET Token /\ Clean \in BOOLEAN /\ Clean' \in BOOLEAN /\ file \in Seq(Line)
  BY DEF Owed, Clean, ClientsTypeOK, TypeOK
<1>7. Matched(Owed, Tagged, file, Clean)
  BY DEF ListedOK
<1>8. Matched(Owed', Tagged', file, Clean')
  BY <1>3, <1>4, <1>5, <1>6, <1>7, TaggedIsOwed, MatchLess
<1> QED BY <1>8 DEF ListedOK

LEMMA QuietLibrary ==
  ASSUME ClientsTypeOK, NEW n \in Pan, PhaseOK(n), ReturnsOK(n), ReturnsOK(n)',
         LibraryStep(n) \/ LibraryError(n), ~ Flush(n)
  PROVE  /\ Entries(n)' \subseteq Entries(n)
         /\ \A o \in Token : o.pan = n /\ Owes(o)' => Owes(o)
         /\ Clean' => Clean /\ \A o \in Token : o.pan = n /\ Owes(o) => Owes(o)'
<1>0. /\ n \in Proc /\ TypeOK
      /\ pc[n] \in {"idle", "lock", "scan", "flush", "unlock"}
  BY ClientsAssumption DEF ClientsTypeOK, TypeOK
<1>1. UNCHANGED <<phase, count, tests, marked, orphans, target>>
  BY <1>0, LibraryEffects DEF clients
<1>2. pc[n] # "idle" /\ req[n].op \in {"mark", "clear"}
      /\ (req[n].op = "clear" => phase[n] \in {"unblank", "reaping", "hunting", "leaving"})
  <2>1. pc[n] # "idle"
    BY <1>0, LibraryEffects
  <2> QED BY <2>1 DEF PhaseOK, InCall
<1>3. \/ pc'[n] # "idle" /\ ret'[n] = ret[n] /\ req'[n] = req[n]
      \/ /\ pc[n] = "unlock" /\ pc'[n] = "idle" /\ ret'[n] = ret[n]
         /\ ret[n] \in {"ok", "notfound"}
      \/ IOErrors /\ pc'[n] = "idle" /\ ret'[n] = "error"
  BY <1>0, <1>1, <1>2, LibraryEffects DEF ReturnsOK
<1>9. pc[n] = "unlock" => ret[n] = "ok" \/ phase[n] \notin {"unblank", "reaping", "hunting", "leaving"}
  BY DEF ReturnsOK
<1>4. Entries(n)' \subseteq Entries(n) /\ (~ IOErrors => Entries(n)' = Entries(n))
  BY <1>1, <1>3 DEF Entries, Self
<1>5. \A k : /\ BlankIsIn(n, k)' => BlankIsIn(n, k)
             /\ ~ IOErrors => (BlankIsIn(n, k) => BlankIsIn(n, k)')
  BY <1>1, <1>2, <1>3, <1>9 DEF BlankIsIn
<1>10. \A pid, k : /\ OrphanIsIn(n, pid, k)' => OrphanIsIn(n, pid, k)
                   /\ ~ IOErrors => (OrphanIsIn(n, pid, k) => OrphanIsIn(n, pid, k)')
  BY <1>1, <1>2, <1>3, <1>9 DEF OrphanIsIn
<1>6. Clearing(n)' => Clearing(n) /\ req'[n] = req[n]
  BY <1>1, <1>2, <1>3 DEF Clearing
<1>7. ~ IOErrors /\ Clearing(n) => Clearing(n)' /\ req'[n] = req[n]
  BY <1>0, <1>1, <1>2, <1>3, <1>9 DEF Clearing
<1>8. Clean' <=> Clean
  BY <1>1 DEF Clean
<1>11. \A o \in Token : o.pan = n /\ Owes(o)' => Owes(o)
  BY <1>4, <1>5, <1>6, <1>10 DEF Owes
<1>12. ~ IOErrors => \A o \in Token : o.pan = n /\ Owes(o) => Owes(o)'
  BY <1>4, <1>5, <1>7, <1>10 DEF Owes
<1> QED BY <1>4, <1>8, <1>11, <1>12 DEF Clean

LEMMA QuietPan ==
  ASSUME ClientsTypeOK, NEW n \in Pan, PhaseOK(n), TestsOK(n), PanStep(n)
  PROVE  /\ Entries(n)' \subseteq Entries(n)
         /\ \A o \in Token : o.pan = n /\ Owes(o)' => Owes(o)
         /\ Clean' => Clean /\ \A o \in Token : o.pan = n /\ Owes(o) => Owes(o)'
<1> USE ClientsAssumption
<1>0. /\ pc \in [Proc -> {"idle", "lock", "scan", "flush", "unlock"}]
      /\ req \in [Proc -> Request] /\ ret \in [Proc -> Result] /\ n \in Proc
      /\ phase \in [Proc -> Phases] /\ count \in [Proc -> Nat] /\ count[n] \in Nat
      /\ tests \in [Pan -> SUBSET Entry] /\ marked \in [Pan -> SUBSET Entry]
      /\ tests[n] \subseteq Entry /\ marked[n] \subseteq Entry
      /\ Len(BlankPid) \in Nat /\ PidOf[n] \notin TestPid /\ Self(n) \in Entry
      /\ Self(n)' = Self(n)
  BY EntryIsMade DEF ClientsTypeOK, TypeOK, Phases, Self
<1>1. ASSUME NEW r, Call(n, r)
      PROVE  pc'[n] = "lock" /\ req'[n] = r /\ ret'[n] = "none" /\ pc[n] = "idle"
  BY <1>0, <1>1 DEF Call, Goto, Return
<1>2. Clean' => Clean
  <2>1. phase[n] \notin {"failed", "crashed"}
    BY DEF PanStep, MarkSelf, SelfMarked, MarkBlanks, ClearBlanks, Blank,
       TestMarked, Reaped, Orphan, OrphanMarked, Hunt, Hunted, ClearSelf, PanDone, PanFails, StartTest, Reap, Idle
  <2>2. \A m \in Pan : m # n => phase'[m] = phase[m]
    BY OthersStay DEF StepOf, SameFor
  <2> QED BY <2>1, <2>2 DEF Clean
<1> DEFINE Goal == /\ Entries(n)' \subseteq Entries(n)
                   /\ \A o \in Token : o.pan = n => (Owes(o)' <=> Owes(o))
<1>3. SUFFICES Goal \/ PanFails(n)
  <2>1. CASE Goal
    BY <1>2, <2>1
  <2>2. CASE PanFails(n)
    <3>1. /\ phase'[n] = "failed" /\ phase[n] \in {"marking", "blank", "unblank",
                                                  "starting", "reaping", "orphaning"}
          /\ pc'[n] = "idle" /\ ret[n] # "ok"
          /\ tests'[n] = tests[n] /\ marked'[n] = marked[n] /\ orphans'[n] = orphans[n]
      BY <1>0, <2>2 DEF PanFails, Phase, Exit, Leave, Goto
    <3>2. Entries(n)' = Entries(n)
      BY <1>0, <3>1 DEF Entries
    <3>3. /\ ~ Clearing(n)' /\ \A k \in Nat : ~ BlankIsIn(n, k)'
          /\ \A pid, k : OrphanIsIn(n, pid, k)' => OrphanIsIn(n, pid, k)
      BY <3>1 DEF Clearing, BlankIsIn, OrphanIsIn
    <3>4. ~ Clean'
      BY <3>1 DEF Clean
    <3> QED BY <3>2, <3>3, <3>4 DEF Owes, Token
  <2> QED BY <1>3, <2>1, <2>2
<1>16. ASSUME phase[n] \notin {"orphaning", "hunting"},
              phase'[n] \notin {"orphaning", "hunting"}
       PROVE  \A pid, k : OrphanIsIn(n, pid, k)' <=> OrphanIsIn(n, pid, k)
  <2>1. orphans' = orphans
    BY <1>0, <1>16 DEF PanStep, MarkSelf, SelfMarked, MarkBlanks, ClearBlanks, Blank,
       TestMarked, Reaped, Orphan, OrphanMarked, Hunt, Hunted, ClearSelf, PanDone,
       PanFails, StartTest, Reap, Idle, Phase
  <2> QED BY <1>16, <2>1 DEF OrphanIsIn
<1>4. ASSUME Entries(n)' = Entries(n), ~ Clearing(n), ~ Clearing(n)',
             \A k \in 1 .. Len(BlankPid) : BlankIsIn(n, k)' <=> BlankIsIn(n, k),
             \/ /\ phase[n] \notin {"orphaning", "hunting"}
                /\ phase'[n] \notin {"orphaning", "hunting"}
             \/ \A pid \in TestPid : \A k \in Nat :
                  OrphanIsIn(n, pid, k)' <=> OrphanIsIn(n, pid, k)
      PROVE  Goal
  <2>1. \A pid \in TestPid : \A k \in Nat : OrphanIsIn(n, pid, k)' <=> OrphanIsIn(n, pid, k)
    BY <1>4, <1>16
  <2>2. \A o \in Token : o.k \in Nat
    BY DEF Token
  <2> QED BY <1>4, <2>1, <2>2 DEF Owes
<1> HIDE DEF Goal
<1>5. CASE MarkSelf(n)
  <2>1. /\ phase[n] = "begin" /\ phase'[n] = "marking" /\ ret'[n] = "none"
        /\ marked'[n] = marked[n]
    BY <1>0, <1>1, <1>5 DEF MarkSelf, CallMark, Phase, Idle
  <2>2. Entries(n)' = Entries(n)
    BY <2>1 DEF Entries
  <2> QED BY <1>4, <2>1, <2>2 DEF Clearing, BlankIsIn
<1>6. CASE SelfMarked(n)
  <2>1. /\ phase[n] = "marking" /\ phase'[n] = "blank" /\ ret[n] = "ok" /\ ret'[n] = "ok"
        /\ marked[n] = {} /\ marked'[n] = {Self(n)} /\ count'[n] = 0
    BY <1>0, <1>6 DEF SelfMarked, Phase, Idle, PhaseOK, vars, Self
  <2>2. Entries(n)' = Entries(n)
    BY <1>0, <2>1 DEF Entries
  <2> QED BY <1>4, <2>1, <2>2 DEF Clearing, BlankIsIn
<1>7. CASE MarkBlanks(n)
  <2>1. /\ phase[n] = "blank" /\ marked'[n] = marked[n]
        /\ pc[n] = "idle" /\ ret[n] = "ok" /\ count[n] \in 0 .. Len(BlankPid)
    BY <1>0, <1>7 DEF MarkBlanks, Blank, Idle, PhaseOK, MarksBlank
  <2>2. CASE count[n] < Len(BlankPid)
    <3>1. CallMark(n, BlankPid[count[n] + 1], PanTag[n])
      BY <1>7, <2>2 DEF MarkBlanks, Blank
    <3>2. ret'[n] = "none" /\ phase'[n] = "blank" /\ count'[n] = count[n] + 1
      BY <1>0, <1>1, <1>7, <2>1, <2>2, <3>1 DEF MarkBlanks, Blank, CallMark
    <3>3. Entries(n)' = Entries(n)
      BY <2>1, <3>2 DEF Entries
    <3>4. \A k \in 1 .. Len(BlankPid) : BlankIsIn(n, k)' <=> BlankIsIn(n, k)
      <4>1. Len(BlankPid) \in Nat /\ count[n] \in Nat
        BY <1>0
      <4>2. ASSUME NEW k \in 1 .. Len(BlankPid)
            PROVE  BlankIsIn(n, k)' <=> BlankIsIn(n, k)
        <5>1. k \in Nat /\ 1 <= k /\ k <= Len(BlankPid)
          BY <4>1
        <5> QED BY <4>1, <5>1, <2>1, <3>2 DEF BlankIsIn
      <4> QED BY <4>2
    <3>5. ~ Clearing(n) /\ ~ Clearing(n)'
      BY <2>1, <3>2 DEF Clearing
    <3> QED BY <1>4, <2>1, <3>2, <3>3, <3>4, <3>5
  <2>3. CASE ~ count[n] < Len(BlankPid)
    <3>1. phase'[n] = "unblank" /\ count'[n] = 0 /\ ret'[n] = "ok"
      BY <1>0, <1>7, <2>1, <2>3 DEF MarkBlanks, Blank, Phase, vars
    <3>2. Entries(n)' = Entries(n)
      BY <2>1, <3>1 DEF Entries
    <3>3. \A k \in 1 .. Len(BlankPid) : BlankIsIn(n, k)' <=> BlankIsIn(n, k)
      <4>1. Len(BlankPid) \in Nat /\ count[n] \in Nat
        BY <1>0
      <4>2. ASSUME NEW k \in 1 .. Len(BlankPid)
            PROVE  BlankIsIn(n, k)' <=> BlankIsIn(n, k)
        <5>1. k \in Nat /\ 1 <= k /\ k <= Len(BlankPid)
          BY <4>1
        <5> QED BY <4>1, <5>1, <2>1, <2>3, <3>1 DEF BlankIsIn
      <4> QED BY <4>2
    <3>4. ~ Clearing(n) /\ ~ Clearing(n)'
      BY <2>1, <2>3, <3>1 DEF Clearing
    <3> QED BY <1>4, <2>1, <3>1, <3>2, <3>3, <3>4
  <2> QED BY <2>2, <2>3
<1>8. CASE ClearBlanks(n)
  <2>1. /\ phase[n] = "unblank" /\ marked'[n] = marked[n]
        /\ pc[n] = "idle" /\ ret[n] = "ok" /\ count[n] \in 0 .. Len(BlankPid)
    BY <1>0, <1>8 DEF ClearBlanks, Blank, Idle, PhaseOK, MarksBlank
  <2>2. CASE count[n] < Len(BlankPid)
    <3>1. CallClear(n, BlankPid[count[n] + 1])
      BY <1>8, <2>2 DEF ClearBlanks, Blank
    <3>2. /\ pc'[n] = "lock" /\ ret'[n] = "none"
          /\ phase'[n] = "unblank" /\ count'[n] = count[n] + 1
      BY <1>0, <1>1, <1>8, <2>1, <2>2, <3>1 DEF ClearBlanks, Blank, CallClear
    <3>3. Entries(n)' = Entries(n)
      BY <2>1, <3>2 DEF Entries
    <3>4. \A k \in 1 .. Len(BlankPid) : BlankIsIn(n, k)' <=> BlankIsIn(n, k)
      <4>1. Len(BlankPid) \in Nat /\ count[n] \in Nat
        BY <1>0
      <4>2. ASSUME NEW k \in 1 .. Len(BlankPid)
            PROVE  BlankIsIn(n, k)' <=> BlankIsIn(n, k)
        <5>1. k \in Nat /\ 1 <= k /\ k <= Len(BlankPid)
          BY <4>1
        <5> QED BY <4>1, <5>1, <2>1, <3>2 DEF BlankIsIn
      <4> QED BY <4>2
    <3>5. ~ Clearing(n) /\ ~ Clearing(n)'
      BY <2>1, <3>2 DEF Clearing
    <3> QED BY <1>4, <2>1, <3>2, <3>3, <3>4, <3>5
  <2>3. CASE ~ count[n] < Len(BlankPid)
    <3>1. phase'[n] = "run"
      BY <1>0, <1>8, <2>1, <2>3 DEF ClearBlanks, Blank, Phase
    <3>2. Entries(n)' = Entries(n)
      BY <2>1, <3>1 DEF Entries
    <3>3. \A k \in 1 .. Len(BlankPid) : BlankIsIn(n, k)' <=> BlankIsIn(n, k)
      <4>1. Len(BlankPid) \in Nat /\ count[n] \in Nat
        BY <1>0
      <4>2. ASSUME NEW k \in 1 .. Len(BlankPid)
            PROVE  BlankIsIn(n, k)' <=> BlankIsIn(n, k)
        <5>1. k \in Nat /\ 1 <= k /\ k <= Len(BlankPid)
          BY <4>1
        <5> QED BY <4>1, <5>1, <2>1, <2>3, <3>1 DEF BlankIsIn
      <4> QED BY <4>2
    <3>4. ~ Clearing(n) /\ ~ Clearing(n)'
      BY <2>1, <2>3, <3>1 DEF Clearing
    <3> QED BY <1>4, <2>1, <3>1, <3>2, <3>3, <3>4
  <2> QED BY <2>2, <2>3
<1>9. ASSUME NEW e \in Entry, StartTest(n, e) PROVE Goal
  <2>1. /\ phase[n] = "run" /\ phase'[n] = "starting" /\ marked'[n] = marked[n]
        /\ ret'[n] = "none"
    BY <1>0, <1>1, <1>9 DEF StartTest, CallMark, Phase, Idle
  <2>2. Entries(n)' = Entries(n)
    BY <2>1 DEF Entries
  <2> QED BY <1>4, <2>1, <2>2 DEF Clearing, BlankIsIn
<1>10. CASE TestMarked(n)
  <2>1. /\ phase[n] = "starting" /\ phase'[n] = "run" /\ ret[n] = "ok"
        /\ marked'[n] = marked[n] \cup tests[n]
    BY <1>0, <1>10 DEF TestMarked, Idle, Phase
  <2>2. Entries(n)' = Entries(n)
    BY <2>1 DEF Entries
  <2> QED BY <1>4, <2>1, <2>2 DEF Clearing, BlankIsIn
<1>11. ASSUME NEW e \in tests[n], Reap(n, e) PROVE Goal
  <2>1. /\ phase[n] = "run" /\ phase'[n] = "reaping" /\ marked'[n] = marked[n] \ {e}
        /\ pc'[n] = "lock" /\ ret'[n] = "none" /\ req'[n].pid = e.pid
        /\ e \in marked[n] /\ e \in Entry
    BY <1>0, <1>1, <1>11 DEF Reap, CallClear, Phase, Idle, PhaseOK
  <2>2. Entries(n)' = Entries(n) \ {e} /\ e \in Entries(n)
    BY <2>1 DEF Entries
  <2>3. \A f \in Entries(n) : f.pid = e.pid <=> f = e
    BY <1>0, <2>1 DEF Entries, PhaseOK, TestsOK, Self
  <2>4. ~ Clearing(n) /\ Clearing(n)' /\ \A k \in Nat : ~ BlankIsIn(n, k) /\ ~ BlankIsIn(n, k)'
    BY <2>1 DEF Clearing, BlankIsIn
  <2>6. \A pid, k : OrphanIsIn(n, pid, k)' <=> OrphanIsIn(n, pid, k)
    BY <1>16, <2>1
  <2>5. \A o \in Token : o.pan = n => (Owes(o)' <=> Owes(o))
    BY <2>1, <2>2, <2>3, <2>4, <2>6 DEF Owes, Token
  <2> QED BY <2>2, <2>5 DEF Goal
<1>12. CASE Reaped(n)
  <2>1. /\ phase[n] = "reaping" /\ phase'[n] = "run" /\ ret[n] = "ok"
        /\ marked'[n] = marked[n]
    BY <1>0, <1>12 DEF Reaped, Idle, Phase
  <2>2. Entries(n)' = Entries(n)
    BY <2>1 DEF Entries
  <2> QED BY <1>4, <2>1, <2>2 DEF Clearing, BlankIsIn
<1>13. CASE ClearSelf(n)
  <2>1. /\ phase[n] = "run" /\ phase'[n] = "leaving" /\ marked'[n] = {}
        /\ pc'[n] = "lock" /\ ret'[n] = "none" /\ req'[n].pid = PidOf[n]
        /\ marked[n] = {Self(n)}
    BY <1>0, <1>1, <1>13 DEF ClearSelf, CallClear, Phase, Idle, PhaseOK
  <2>2. Entries(n)' = {} /\ Entries(n) = {Self(n)} /\ Self(n).pid = PidOf[n]
    BY <1>0, <2>1 DEF Entries, Self
  <2>3. ~ Clearing(n) /\ Clearing(n)' /\ \A k \in Nat : ~ BlankIsIn(n, k) /\ ~ BlankIsIn(n, k)'
    BY <2>1 DEF Clearing, BlankIsIn
  <2>5. \A pid, k : OrphanIsIn(n, pid, k)' <=> OrphanIsIn(n, pid, k)
    BY <1>16, <2>1
  <2>4. \A o \in Token : o.pan = n => (Owes(o)' <=> Owes(o))
    BY <2>1, <2>2, <2>3, <2>5 DEF Owes, Token
  <2> QED BY <2>2, <2>4 DEF Goal
<1>14. CASE PanDone(n)
  <2>1. /\ phase[n] = "leaving" /\ phase'[n] = "done" /\ pc[n] = "idle"
        /\ marked'[n] = marked[n]
    BY <1>0, <1>14 DEF PanDone, Idle, Phase
  <2>2. Entries(n)' = Entries(n)
    BY <2>1 DEF Entries
  <2> QED BY <1>4, <2>1, <2>2 DEF Clearing, BlankIsIn
<1>15. CASE Orphan(n)
  <2>1. /\ phase[n] = "reaping" /\ phase'[n] = "orphaning" /\ ret[n] = "ok"
        /\ marked'[n] = marked[n] /\ ret'[n] = "none" /\ orphans'[n] = orphans[n]
    BY <1>0, <1>1, <1>15 DEF Orphan, CallMark, Idle, Phase
  <2>2. Entries(n)' = Entries(n)
    BY <2>1 DEF Entries
  <2>3. \A pid, k : OrphanIsIn(n, pid, k)' <=> OrphanIsIn(n, pid, k)
    BY <2>1 DEF OrphanIsIn
  <2> QED BY <1>4, <2>1, <2>2, <2>3 DEF Clearing, BlankIsIn
<1>17. CASE OrphanMarked(n)
  <2>1. /\ phase[n] = "orphaning" /\ phase'[n] = "run" /\ ret[n] = "ok"
        /\ marked'[n] = marked[n] /\ target[n] \in TestPid
        /\ \A pid \in TestPid : orphans'[n][pid] =
             IF pid = target[n] THEN orphans[n][pid] + 1 ELSE orphans[n][pid]
    BY <1>0, <1>17 DEF OrphanMarked, Idle, Phase, PhaseOK, ClientsTypeOK
  <2>2. Entries(n)' = Entries(n)
    BY <2>1 DEF Entries
  <2>3. ASSUME NEW pid \in TestPid, NEW k \in Nat
        PROVE  OrphanIsIn(n, pid, k)' <=> OrphanIsIn(n, pid, k)
    <3>1. orphans[n][pid] \in Nat
      BY DEF ClientsTypeOK
    <3> QED BY <2>1, <3>1 DEF OrphanIsIn
  <2> QED BY <1>4, <2>1, <2>2, <2>3 DEF Clearing, BlankIsIn
<1>18. ASSUME NEW q \in TestPid, Hunt(n, q) PROVE Goal
  <2>1. /\ phase[n] = "run" /\ phase'[n] = "hunting" /\ pc'[n] = "lock"
        /\ ret'[n] = "none" /\ marked'[n] = marked[n] /\ target'[n] = q
        /\ \A pid \in TestPid : orphans'[n][pid] =
             IF pid = q THEN orphans[n][pid] - 1 ELSE orphans[n][pid]
        /\ orphans[n][q] > 0
    BY <1>0, <1>1, <1>18 DEF Hunt, CallClear, Idle, Phase, ClientsTypeOK
  <2>2. Entries(n)' = Entries(n)
    BY <2>1 DEF Entries
  <2>3. ASSUME NEW pid \in TestPid, NEW k \in Nat
        PROVE  OrphanIsIn(n, pid, k)' <=> OrphanIsIn(n, pid, k)
    <3>1. orphans[n][pid] \in Nat
      BY DEF ClientsTypeOK
    <3> QED BY <2>1, <3>1 DEF OrphanIsIn
  <2> QED BY <1>4, <2>1, <2>2, <2>3 DEF Clearing, BlankIsIn
<1>19. CASE Hunted(n)
  <2>1. /\ phase[n] = "hunting" /\ phase'[n] = "run" /\ pc[n] = "idle"
        /\ marked'[n] = marked[n] /\ orphans'[n] = orphans[n]
    BY <1>0, <1>19 DEF Hunted, Idle, Phase
  <2>2. Entries(n)' = Entries(n)
    BY <2>1 DEF Entries
  <2>3. \A pid, k : OrphanIsIn(n, pid, k)' <=> OrphanIsIn(n, pid, k)
    BY <2>1 DEF OrphanIsIn
  <2> QED BY <1>4, <2>1, <2>2, <2>3 DEF Clearing, BlankIsIn
<1> QED
  BY <1>3, <1>5, <1>6, <1>7, <1>8, <1>9, <1>10, <1>11, <1>12, <1>13, <1>14, <1>15,
     <1>17, <1>18, <1>19 DEF PanStep

LEMMA QuietEnd ==
  ASSUME ClientsTypeOK, NEW n \in Pan, PhaseOK(n),
         PanCrashes(n) \/ \E e \in tests[n] : StrayEnds(n, e)
  PROVE  /\ Entries(n)' \subseteq Entries(n)
         /\ \A o \in Token : o.pan = n /\ Owes(o)' => Owes(o)
         /\ ~ Clean'
<1>0. /\ pc \in [Proc -> {"idle", "lock", "scan", "flush", "unlock"}] /\ n \in Proc
      /\ phase \in [Proc -> Phases]
      /\ tests \in [Pan -> SUBSET Entry] /\ marked \in [Pan -> SUBSET Entry]
  BY ClientsAssumption DEF ClientsTypeOK, TypeOK, Phases
<1>1. /\ phase'[n] \in {"failed", "crashed"} /\ marked'[n] \subseteq marked[n]
      /\ orphans'[n] = orphans[n]
  BY <1>0 DEF PanCrashes, StrayEnds, Phase
<1>2. Entries(n)' \subseteq Entries(n)
  BY <1>1 DEF Entries
<1>3. /\ ~ Clearing(n)' /\ \A k \in Nat : ~ BlankIsIn(n, k)'
      /\ \A pid, k : OrphanIsIn(n, pid, k)' => OrphanIsIn(n, pid, k)
  BY <1>1 DEF Clearing, BlankIsIn, OrphanIsIn
<1> QED BY <1>1, <1>2, <1>3 DEF Owes, Token, Clean

(***************************************************************************)
(* The write of zoo_mark(): the line in hand is owed from now on.          *)
(***************************************************************************)
LEMMA FlushMarkOwes ==
  ASSUME ClientsTypeOK, NEW n \in Pan, PhaseOK(n), ReturnsOK(n), TestsOK(n),
         LibraryStep(n), Flush(n), req[n].op = "mark"
  PROVE  /\ InHand(n) \in Token
         /\ \A o \in Token : o.pan = n => (Owes(o)' <=> Owes(o) \/ o = InHand(n))
         /\ ~ Owes(InHand(n))
         /\ \A e \in Entries(n)' :
              \/ e \in Entries(n)
              \/ InHand(n).kind = "entry" /\ e.pid = req[n].pid /\ e.tag = req[n].tag
         /\ \A e \in Entries(n) : InHand(n).kind = "entry" => e.pid # req[n].pid
<1> USE ClientsAssumption
<1>0. /\ n \in Proc /\ TypeOK /\ req[n].pid \in Pid /\ req[n].tag \in Tag
      /\ count[n] \in Nat /\ Len(BlankPid) \in Nat
      /\ tests[n] \subseteq Entry /\ marked[n] \subseteq Entry
      /\ PidOf[n] \notin TestPid /\ Self(n) \in Entry
  BY EntryIsMade DEF ClientsTypeOK, TypeOK, Request, Self
<1>1. /\ pc[n] = "flush" /\ ret[n] = "none" /\ ret'[n] = "ok" /\ req'[n] = req[n]
      /\ phase'[n] = phase[n] /\ count'[n] = count[n]
      /\ tests'[n] = tests[n] /\ marked'[n] = marked[n]
      /\ orphans'[n] = orphans[n] /\ target'[n] = target[n]
  BY <1>0 DEF Flush, Return, ReturnsOK, LibraryStep, clients, TypeOK
<1>2. InHand(n) \in Token
  BY <1>1, InHandIsToken
<1>7. \A pid, k : phase[n] \notin {"orphaning", "hunting"} =>
        (OrphanIsIn(n, pid, k)' <=> OrphanIsIn(n, pid, k))
  BY <1>1 DEF OrphanIsIn
<1>3. CASE phase[n] = "blank"
  <2>1. /\ count[n] \in 1 .. Len(BlankPid) /\ req[n].pid = BlankPid[count[n]]
        /\ InHand(n) = [kind |-> "blank", pan |-> n, k |-> count[n], pid |-> req[n].pid]
    BY <1>0, <1>1, <1>3 DEF PhaseOK, MarksBlank, InCall, InHand
  <2>2. Entries(n)' = Entries(n)
    BY <1>1, <1>3 DEF Entries
  <2>3. \A k \in Nat : BlankIsIn(n, k)' <=> BlankIsIn(n, k) \/ k = count[n]
    BY <1>1, <1>3 DEF BlankIsIn
  <2>4. ~ BlankIsIn(n, count[n]) /\ ~ Clearing(n) /\ ~ Clearing(n)'
    BY <1>0, <1>1, <1>3 DEF BlankIsIn, Clearing
  <2>5. ASSUME NEW o \in Token, o.pan = n
        PROVE  Owes(o)' <=> Owes(o) \/ o = InHand(n)
    <3>1. /\ o.k \in Nat /\ o.kind \in {"entry", "blank", "orphan"}
          /\ o = [kind |-> o.kind, pan |-> o.pan, k |-> o.k, pid |-> o.pid]
      BY DEF Token
    <3>2. CASE o.kind # "blank"
      <4>1. o # InHand(n)
        BY <2>1, <3>2
      <4> QED BY <1>3, <1>7, <2>2, <2>4, <2>5, <3>2, <4>1 DEF Owes
    <3>3. CASE o.kind = "blank"
      <4>1. o = InHand(n) <=> o.k = count[n] /\ o.pid = BlankPid[count[n]]
        BY <2>1, <2>5, <3>1, <3>3
      <4> QED BY <2>1, <2>3, <2>5, <3>1, <3>3, <4>1 DEF Owes
    <3> QED BY <3>2, <3>3
  <2>6. ~ Owes(InHand(n)) /\ InHand(n).kind # "entry"
    BY <2>1, <2>4 DEF Owes
  <2> QED BY <1>2, <2>2, <2>5, <2>6
<1>4. ASSUME NEW e \in Entry, e.pid = req[n].pid, e.tag = req[n].tag,
             Entries(n)' = Entries(n) \cup {e},
             \A f \in Entries(n) : f.pid # e.pid,
             phase[n] \in {"marking", "starting"}
      PROVE  /\ \A o \in Token : o.pan = n => (Owes(o)' <=> Owes(o) \/ o = InHand(n))
             /\ ~ Owes(InHand(n)) /\ InHand(n).kind = "entry"
  <2>1. InHand(n) = [kind |-> "entry", pan |-> n, k |-> 0, pid |-> e.pid]
    BY <1>4 DEF InHand
  <2>2. /\ ~ Clearing(n) /\ ~ Clearing(n)'
        /\ \A k \in Nat : ~ BlankIsIn(n, k) /\ ~ BlankIsIn(n, k)'
    BY <1>1, <1>4 DEF Clearing, BlankIsIn
  <2>3. ASSUME NEW o \in Token, o.pan = n
        PROVE  Owes(o)' <=> Owes(o) \/ o = InHand(n)
    <3>1. /\ o.k \in Nat /\ o.kind \in {"entry", "blank", "orphan"}
          /\ o = [kind |-> o.kind, pan |-> o.pan, k |-> o.k, pid |-> o.pid]
      BY DEF Token
    <3>2. CASE o.kind = "entry" /\ o.k = 0
      <4>1. o = InHand(n) <=> o.pid = e.pid
        BY <2>1, <2>3, <3>1, <3>2
      <4> QED BY <1>4, <2>2, <2>3, <3>2, <4>1 DEF Owes
    <3>3. CASE ~ (o.kind = "entry" /\ o.k = 0)
      <4>1. o # InHand(n)
        BY <2>1, <3>3
      <4> QED BY <1>4, <1>7, <2>1, <2>2, <2>3, <3>1, <3>3, <4>1 DEF Owes
    <3> QED BY <3>2, <3>3
  <2>4. ~ Owes(InHand(n)) /\ InHand(n).kind = "entry"
    BY <1>4, <2>1, <2>2 DEF Owes
  <2> QED BY <2>3, <2>4
<1>5. CASE phase[n] = "marking"
  <2>1. /\ marked[n] = {} /\ req[n].pid = Self(n).pid /\ req[n].tag = Self(n).tag
    BY <1>1, <1>5 DEF PhaseOK, InCall, Self
  <2>2. Entries(n) = {} /\ Entries(n)' = {Self(n)}
    BY <1>0, <1>1, <1>5, <2>1 DEF Entries, Self
  <2> QED BY <1>0, <1>2, <1>4, <1>5, <2>1, <2>2
<1>6. CASE phase[n] = "starting"
  <2>1. PICK e \in tests[n] : /\ marked[n] = {Self(n)} \cup (tests[n] \ {e})
                              /\ e.pid = req[n].pid /\ e.tag = req[n].tag
    BY <1>1, <1>6 DEF PhaseOK, InCall
  <2>2. Entries(n) = marked[n] /\ Entries(n)' = marked[n] \cup {e}
    BY <1>0, <1>1, <1>6, <2>1 DEF Entries
  <2>3. \A f \in Entries(n) : f.pid # e.pid
    BY <1>0, <2>1, <2>2 DEF TestsOK, Self
  <2> QED BY <1>0, <1>2, <1>4, <1>6, <2>1, <2>2, <2>3
<1>8. CASE phase[n] = "orphaning"
  <2> DEFINE k0 == orphans[n][target[n]] + 1
  <2>1. /\ target[n] \in TestPid /\ req[n].pid = target[n] /\ orphans[n][target[n]] \in Nat
        /\ InHand(n) = [kind |-> "orphan", pan |-> n, k |-> k0, pid |-> target[n]]
    BY <1>1, <1>8 DEF PhaseOK, InCall, InHand, ClientsTypeOK
  <2>2. Entries(n)' = Entries(n)
    BY <1>1, <1>8 DEF Entries
  <2>3. ASSUME NEW pid \in TestPid, NEW k \in Nat
        PROVE  OrphanIsIn(n, pid, k)' <=> OrphanIsIn(n, pid, k) \/ (k = k0 /\ pid = target[n])
    BY <1>1, <1>8 DEF OrphanIsIn
  <2>4. /\ ~ OrphanIsIn(n, target[n], k0) /\ ~ Clearing(n) /\ ~ Clearing(n)'
        /\ \A k \in Nat : ~ BlankIsIn(n, k) /\ ~ BlankIsIn(n, k)'
    BY <1>1, <1>8, <2>1 DEF OrphanIsIn, Clearing, BlankIsIn
  <2> HIDE DEF k0
  <2>5. ASSUME NEW o \in Token, o.pan = n
        PROVE  Owes(o)' <=> Owes(o) \/ o = InHand(n)
    <3>1. /\ o.k \in Nat /\ o.kind \in {"entry", "blank", "orphan"}
          /\ o = [kind |-> o.kind, pan |-> o.pan, k |-> o.k, pid |-> o.pid]
      BY DEF Token
    <3>2. CASE o.kind # "orphan"
      <4>1. o # InHand(n)
        BY <2>1, <3>2
      <4> QED BY <2>2, <2>4, <2>5, <3>1, <3>2, <4>1 DEF Owes
    <3>3. CASE o.kind = "orphan"
      <4>1. o = InHand(n) <=> o.k = k0 /\ o.pid = target[n]
        BY <2>1, <2>5, <3>1, <3>3
      <4> QED BY <2>1, <2>3, <2>5, <3>1, <3>3, <4>1 DEF Owes
    <3> QED BY <3>2, <3>3
  <2>6. ~ Owes(InHand(n)) /\ InHand(n).kind # "entry"
    BY <2>1, <2>4 DEF Owes
  <2> QED BY <1>2, <2>2, <2>5, <2>6
<1> QED BY <1>1, <1>3, <1>5, <1>6, <1>8 DEF PhaseOK, InCall

(***************************************************************************)
(* The write of zoo_clear(): the line in hand is owed no more.             *)
(***************************************************************************)
LEMMA FlushClearOwes ==
  ASSUME ClientsTypeOK, NEW n \in Pan, PhaseOK(n), ReturnsOK(n),
         LibraryStep(n), Flush(n), req[n].op = "clear"
  PROVE  /\ InHand(n) \in Owed
         /\ \A o \in Token : o.pan = n => (Owes(o)' <=> Owes(o) /\ o # InHand(n))
         /\ Entries(n)' = Entries(n)
         /\ \A e \in Entries(n) : InHand(n).kind = "entry" => e.pid # req[n].pid
         /\ \/ InHand(n).kind = "entry" /\ phase[n] = "leaving" /\ req[n].pid = PidOf[n]
            \/ InHand(n).kind = "entry" /\ phase[n] = "reaping" /\ req[n].pid \in TestPid
            \/ OwnGroups /\ phase[n] = "hunting" /\ req[n].pid \in TestPid
            \/ \E k \in 1 .. Len(BlankPid) : req[n].pid = BlankPid[k]
<1> USE ClientsAssumption
<1>0. /\ n \in Proc /\ TypeOK /\ req[n].pid \in Pid
      /\ count[n] \in Nat /\ Len(BlankPid) \in Nat
      /\ tests[n] \subseteq Entry /\ marked[n] \subseteq Entry
      /\ PidOf[n] \notin TestPid /\ Self(n) \in Entry
  BY EntryIsMade DEF ClientsTypeOK, TypeOK, Request, Self
<1>1. /\ pc[n] = "flush" /\ ret[n] = "none" /\ ret'[n] = "ok" /\ req'[n] = req[n]
      /\ phase'[n] = phase[n] /\ count'[n] = count[n]
      /\ tests'[n] = tests[n] /\ marked'[n] = marked[n]
      /\ orphans'[n] = orphans[n] /\ target'[n] = target[n]
  BY <1>0 DEF Flush, Return, ReturnsOK, LibraryStep, clients, TypeOK
<1>2. InHand(n) \in Owed
  BY <1>1, ClearingIsOwed
<1>7. \A pid, k : phase[n] \notin {"orphaning", "hunting"} =>
        (OrphanIsIn(n, pid, k)' <=> OrphanIsIn(n, pid, k))
  BY <1>1 DEF OrphanIsIn
<1>3. CASE phase[n] = "unblank"
  <2>1. /\ count[n] \in 1 .. Len(BlankPid) /\ req[n].pid = BlankPid[count[n]]
        /\ InHand(n) = [kind |-> "blank", pan |-> n, k |-> count[n], pid |-> req[n].pid]
    BY <1>0, <1>1, <1>3 DEF PhaseOK, MarksBlank, InCall, InHand
  <2>2. Entries(n)' = Entries(n)
    BY <1>1, <1>3 DEF Entries
  <2>3. \A k \in Nat : BlankIsIn(n, k)' <=> BlankIsIn(n, k) /\ k # count[n]
    BY <1>0, <1>1, <1>3 DEF BlankIsIn
  <2>4. ~ Clearing(n) /\ ~ Clearing(n)'
    BY <1>1, <1>3 DEF Clearing
  <2>5. ASSUME NEW o \in Token, o.pan = n
        PROVE  Owes(o)' <=> Owes(o) /\ o # InHand(n)
    <3>1. /\ o.k \in Nat /\ o.kind \in {"entry", "blank", "orphan"}
          /\ o = [kind |-> o.kind, pan |-> o.pan, k |-> o.k, pid |-> o.pid]
      BY DEF Token
    <3>2. CASE o.kind # "blank"
      <4>1. o # InHand(n)
        BY <2>1, <3>2
      <4> QED BY <1>3, <1>7, <2>2, <2>4, <2>5, <3>2, <4>1 DEF Owes
    <3>3. CASE o.kind = "blank"
      <4>1. o = InHand(n) <=> o.k = count[n] /\ o.pid = BlankPid[count[n]]
        BY <2>1, <2>5, <3>1, <3>3
      <4> QED BY <2>1, <2>3, <2>5, <3>1, <3>3, <4>1 DEF Owes
    <3> QED BY <3>2, <3>3
  <2> QED BY <1>2, <2>1, <2>2, <2>5
<1>4. CASE phase[n] \in {"reaping", "leaving"}
  <2>1. InHand(n) = [kind |-> "entry", pan |-> n, k |-> 0, pid |-> req[n].pid]
    BY <1>4 DEF InHand
  <2>2. /\ Clearing(n) /\ ~ Clearing(n)'
        /\ \A k \in Nat : ~ BlankIsIn(n, k) /\ ~ BlankIsIn(n, k)'
    BY <1>1, <1>4 DEF Clearing, BlankIsIn
  <2>3. Entries(n)' = Entries(n) /\ Entries(n) = marked[n]
    BY <1>0, <1>1, <1>4 DEF Entries
  <2>4. /\ \A e \in Entries(n) : e.pid # req[n].pid
        /\ \/ phase[n] = "leaving" /\ req[n].pid = PidOf[n]
           \/ phase[n] = "reaping" /\ req[n].pid \in TestPid
    BY <1>0, <1>1, <1>4, <2>3 DEF PhaseOK, InCall, Self
  <2>5. ASSUME NEW o \in Token, o.pan = n
        PROVE  Owes(o)' <=> Owes(o) /\ o # InHand(n)
    <3>1. /\ o.k \in Nat /\ o.kind \in {"entry", "blank", "orphan"}
          /\ o = [kind |-> o.kind, pan |-> o.pan, k |-> o.k, pid |-> o.pid]
      BY DEF Token
    <3>2. CASE o.kind = "entry" /\ o.k = 0
      <4>1. o = InHand(n) <=> o.pid = req[n].pid
        BY <2>1, <2>5, <3>1, <3>2
      <4>2. Owes(o)' <=> \E e \in Entries(n) : e.pid = o.pid
        BY <2>2, <2>3, <2>5, <3>2 DEF Owes
      <4>3. Owes(o) <=> (\E e \in Entries(n) : e.pid = o.pid) \/ o.pid = req[n].pid
        BY <2>2, <2>5, <3>2 DEF Owes
      <4> QED BY <2>4, <4>1, <4>2, <4>3
    <3>3. CASE ~ (o.kind = "entry" /\ o.k = 0)
      <4>1. o # InHand(n)
        BY <2>1, <3>3
      <4> QED BY <1>4, <1>7, <2>1, <2>2, <2>5, <3>1, <3>3, <4>1 DEF Owes
    <3> QED BY <3>2, <3>3
  <2> QED BY <1>2, <2>1, <2>3, <2>4, <2>5
<1>8. CASE phase[n] = "hunting"
  <2> DEFINE k0 == orphans[n][target[n]] + 1
  <2>1. /\ target[n] \in TestPid /\ req[n].pid = target[n] /\ orphans[n][target[n]] \in Nat
        /\ InHand(n) = [kind |-> "orphan", pan |-> n, k |-> k0, pid |-> target[n]]
        /\ OwnGroups
    BY <1>1, <1>8 DEF PhaseOK, InCall, InHand, ClientsTypeOK
  <2>2. Entries(n)' = Entries(n)
    BY <1>1, <1>8 DEF Entries
  <2>3. ASSUME NEW pid \in TestPid, NEW k \in Nat
        PROVE  OrphanIsIn(n, pid, k)' <=> OrphanIsIn(n, pid, k) /\ ~ (k = k0 /\ pid = target[n])
    BY <1>1, <1>8, <2>1 DEF OrphanIsIn
  <2>4. /\ ~ Clearing(n) /\ ~ Clearing(n)'
        /\ \A k \in Nat : ~ BlankIsIn(n, k) /\ ~ BlankIsIn(n, k)'
    BY <1>1, <1>8 DEF Clearing, BlankIsIn
  <2> HIDE DEF k0
  <2>5. ASSUME NEW o \in Token, o.pan = n
        PROVE  Owes(o)' <=> Owes(o) /\ o # InHand(n)
    <3>1. /\ o.k \in Nat /\ o.kind \in {"entry", "blank", "orphan"}
          /\ o = [kind |-> o.kind, pan |-> o.pan, k |-> o.k, pid |-> o.pid]
      BY DEF Token
    <3>2. CASE o.kind # "orphan"
      <4>1. o # InHand(n)
        BY <2>1, <3>2
      <4> QED BY <2>2, <2>4, <2>5, <3>1, <3>2, <4>1 DEF Owes
    <3>3. CASE o.kind = "orphan"
      <4>1. o = InHand(n) <=> o.k = k0 /\ o.pid = target[n]
        BY <2>1, <2>5, <3>1, <3>3
      <4> QED BY <2>1, <2>3, <2>5, <3>1, <3>3, <4>1 DEF Owes
    <3> QED BY <3>2, <3>3
  <2>6. InHand(n).kind # "entry"
    BY <2>1
  <2> QED BY <1>2, <1>8, <2>1, <2>2, <2>5, <2>6
<1> QED BY <1>1, <1>3, <1>4, <1>8 DEF PhaseOK, InCall

LEMMA WhoseEntry ==
  ASSUME NEW m \in Pan, PhaseOK(m), NEW e \in Entries(m)
  PROVE  e = Self(m) \/ e \in tests[m]
BY DEF Entries, PhaseOK

LEMMA MarkListed ==
  ASSUME ClientsTypeOK, IInv, PansOK, ListedOK,
         NEW n \in Pan, LibraryStep(n), Flush(n), req[n].op = "mark"
  PROVE  ListedOK'
<1> USE ClientsAssumption
<1> DEFINE o == InHand(n)
           l == [free |-> FALSE, pid |-> req[n].pid, tag |-> req[n].tag]
<1>0. /\ n \in Proc /\ file \in Seq(Line) /\ Len(file) \in Nat /\ pos[n] \in Nat
      /\ req[n].pid \in Pid /\ req[n].tag \in Tag /\ l \in Line
  BY DEF IInv, TypeOK, Request, Line
<1>1. /\ o \in Token /\ ~ Owes(o) /\ o.pan = n /\ o.pid = req[n].pid
      /\ \A q \in Token : q.pan = n => (Owes(q)' <=> Owes(q) \/ q = o)
      /\ \A e \in Entries(n)' :
           \/ e \in Entries(n)
           \/ o.kind = "entry" /\ e.pid = req[n].pid /\ e.tag = req[n].tag
      /\ \A e \in Entries(n) : o.kind = "entry" => e.pid # req[n].pid
  <2>1. PhaseOK(n) /\ ReturnsOK(n) /\ TestsOK(n)
    BY DEF PansOK
  <2> QED BY <2>1, FlushMarkOwes, InHandIsToken DEF Flush
<1>2. \A m \in Pan : m # n => SameFor(m)
  BY OthersStay DEF StepOf
<1>3. \A m \in Pan : m # n =>
        /\ Entries(m)' = Entries(m)
        /\ \A q \in Token : q.pan = m => (Owes(q)' <=> Owes(q))
  BY <1>2, SameOwes
<1>13. o.kind = "entry" => o.k = 0
  BY DEF InHand
<1> HIDE DEF o
<1>4. o \in Token \ Owed /\ Owed \in SUBSET Token
  BY <1>1 DEF Owed
<1>5. Owed' = Owed \cup {o}
  <2>1. \A q \in Token : Owes(q)' <=> Owes(q) \/ q = o
    <3> SUFFICES ASSUME NEW q \in Token PROVE Owes(q)' <=> Owes(q) \/ q = o
      OBVIOUS
    <3>1. q.pan \in Pan
      BY DEF Token
    <3>2. CASE q.pan = n
      BY <1>1, <3>2
    <3>3. CASE q.pan # n
      BY <1>1, <1>3, <3>1, <3>3
    <3> QED BY <3>2, <3>3
  <2> QED BY <1>1, <2>1 DEF Owed
<1>6. ASSUME NEW x \in Tagged'
      PROVE  \/ x \in Tagged /\ x[1] # o
             \/ x = <<o, req[n].tag>>
  <2>1. /\ x \in Token \X Tag /\ x[1].kind = "entry" /\ x[1].k = 0
    BY DEF Tagged
  <2>2. PICK e \in Entries(x[1].pan)' : e.pid = x[1].pid /\ e.tag = x[2] /\ KeepsTag(e)
    BY DEF Tagged, KeepsTag
  <2>3. x[1].pan \in Pan /\ x[1] \in Token /\ x = <<x[1], x[2]>>
    BY <2>1 DEF Token
  <2>4. CASE x[1].pan # n
    <3>1. e \in Entries(x[1].pan)
      BY <1>3, <2>3, <2>4
    <3>2. x[1] # o
      BY <1>1, <2>4
    <3> QED BY <2>1, <2>2, <3>1, <3>2 DEF Tagged
  <2>5. CASE x[1].pan = n /\ e \in Entries(n)
    <3>1. x[1] # o
      BY <1>1, <2>1, <2>2, <2>5
    <3> QED BY <2>1, <2>2, <2>5, <3>1 DEF Tagged
  <2>6. CASE x[1].pan = n /\ o.kind = "entry" /\ e.pid = req[n].pid /\ e.tag = req[n].tag
    <3>1. x[1].kind = o.kind /\ x[1].pan = o.pan /\ x[1].k = o.k /\ x[1].pid = o.pid
      BY <1>1, <1>13, <2>1, <2>2, <2>6
    <3>2. x[1] = o
      BY <1>1, <2>3, <3>1 DEF Token
    <3> QED BY <2>2, <2>3, <2>6, <3>2
  <2> QED BY <1>1, <2>2, <2>3, <2>4, <2>5, <2>6
<1>7. /\ Tagged' \in SUBSET (Tagged \cup ({o} \X Tag))
      /\ \A x \in Tagged' : x[1] = o => x[2] = req[n].tag
  BY <1>0, <1>6
<1>8. /\ file' \in Seq(Line) /\ Len(file) <= Len(file') /\ pos[n] \in 1 .. Len(file')
      /\ pos[n] \in 1 .. Len(file) => file[pos[n]].free
      /\ \A j \in 1 .. Len(file') : j # pos[n] =>
           j \in 1 .. Len(file) /\ file'[j] = file[j]
      /\ file'[pos[n]] = l
  <2>1. CASE pos[n] \in 1 .. Len(file) /\ file[pos[n]].free
             /\ file' = [file EXCEPT ![pos[n]] = l]
    <3>1. file' \in Seq(Line) /\ Len(file') = Len(file)
      BY <1>0, <2>1, WriteLine
    <3> QED BY <1>0, <2>1, <3>1
  <2>2. CASE pos[n] = Len(file) + 1 /\ file' = Append(file, l)
    <3>1. /\ file' \in Seq(Line) /\ Len(file') = Len(file) + 1
          /\ \A j \in 1 .. Len(file) : file'[j] = file[j]
          /\ file'[Len(file) + 1] = l
      BY <1>0, <2>2, WriteLine
    <3> QED BY <1>0, <2>2, <3>1
  <2> QED BY <1>0, <2>1, <2>2, FlushWrites
<1>9. Clean' = Clean /\ Clean \in BOOLEAN
  BY DEF Clean, LibraryStep, clients
<1>10. ~ file'[pos[n]].free /\ file'[pos[n]].pid = o.pid /\ file'[pos[n]].tag = req[n].tag
  BY <1>1, <1>8
<1>11. Matched(Owed, Tagged, file, Clean)
  BY DEF ListedOK
<1> HIDE DEF l
<1>12. Matched(Owed \cup {o}, Tagged', file', Clean)
  <2> DEFINE O == Owed  T == Tagged  U == Tagged'  g == file'  all == Clean  i == pos[n]
  <2>1. /\ O \in SUBSET Token /\ T \in SUBSET (O \X Tag) /\ file \in Seq(Line)
        /\ all \in BOOLEAN /\ Matched(O, T, file, all)
        /\ o \in Token \ O /\ i \in Nat /\ g \in Seq(Line)
        /\ U \in SUBSET (T \cup ({o} \X Tag))
    BY <1>0, <1>4, <1>7, <1>8, <1>9, <1>11, TaggedIsOwed
  <2>2. /\ i \in 1 .. Len(file) => file[i].free
        /\ Len(file) <= Len(g) /\ i \in 1 .. Len(g)
        /\ \A j \in 1 .. Len(g) : j # i => j \in 1 .. Len(file) /\ g[j] = file[j]
        /\ ~ g[i].free /\ g[i].pid = o.pid
        /\ \A x \in U : x[1] = o => x[2] = g[i].tag
    BY <1>7, <1>8, <1>10
  <2> HIDE DEF O, T, U, g, all, i
  <2>3. Matched(O \cup {o}, U, g, all)
    BY ONLY <2>1, <2>2, MatchMark, SMTT(60)
  <2> QED BY <2>3 DEF O, U, g, all
<1> QED BY <1>5, <1>9, <1>12 DEF ListedOK

LEMMA ClearListed ==
  ASSUME ClientsTypeOK, IInv, PansOK, LinesOK, ListedOK,
         NEW n \in Pan, LibraryStep(n), Flush(n), req[n].op = "clear"
  PROVE  ListedOK'
<1> USE ClientsAssumption
<1> DEFINE o == InHand(n)
<1>0. /\ n \in Proc /\ file \in Seq(Line) /\ Len(file) \in Nat /\ pos[n] \in Nat
  BY DEF IInv, TypeOK
<1>1. /\ o \in Owed /\ o.pan = n /\ o.pid = req[n].pid
      /\ \A q \in Token : q.pan = n => (Owes(q)' <=> Owes(q) /\ q # o)
      /\ Entries(n)' = Entries(n)
      /\ \A e \in Entries(n) : o.kind = "entry" => e.pid # req[n].pid
      /\ \/ o.kind = "entry" /\ phase[n] = "leaving" /\ req[n].pid = PidOf[n]
         \/ o.kind = "entry" /\ phase[n] = "reaping" /\ req[n].pid \in TestPid
         \/ OwnGroups /\ phase[n] = "hunting" /\ req[n].pid \in TestPid
         \/ \E k \in 1 .. Len(BlankPid) : req[n].pid = BlankPid[k]
  <2>1. PhaseOK(n) /\ ReturnsOK(n)
    BY DEF PansOK
  <2> QED BY <2>1, FlushClearOwes, InHandIsToken DEF Flush
<1>2. \A m \in Pan : m # n => SameFor(m)
  BY OthersStay DEF StepOf
<1>3. \A m \in Pan : m # n =>
        /\ Entries(m)' = Entries(m)
        /\ \A q \in Token : q.pan = m => (Owes(q)' <=> Owes(q))
  BY <1>2, SameOwes
<1> HIDE DEF o
<1>4. Owed \in SUBSET Token /\ \A q \in Owed : q.pan \in Pan
  BY DEF Owed, Token
<1>5. Owed' = Owed \ {o}
  <2>1. \A q \in Token : Owes(q)' <=> Owes(q) /\ q # o
    <3> SUFFICES ASSUME NEW q \in Token PROVE Owes(q)' <=> Owes(q) /\ q # o
      OBVIOUS
    <3>1. q.pan \in Pan
      BY DEF Token
    <3>2. CASE q.pan = n
      BY <1>1, <3>2
    <3>3. CASE q.pan # n
      BY <1>1, <1>3, <3>1, <3>3
    <3> QED BY <3>2, <3>3
  <2> QED BY <1>1, <2>1 DEF Owed
<1>6. Tagged' = Tagged
  <2>1. \A m \in Pan : Entries(m)' = Entries(m)
    BY <1>1, <1>3
  <2>2. \A x \in Token \X Tag : x[1].pan \in Pan
    BY DEF Token
  <2> QED BY <2>1, <2>2 DEF Tagged, KeepsTag
<1>7. ASSUME NEW x \in Tagged
      PROVE  /\ x[1] # o
             /\ x[1].pid = o.pid =>
                  \A j \in 1 .. Len(file) :
                    ~ file[j].free /\ file[j].pid = o.pid => file[j].tag = x[2]
  <2> DEFINE m == x[1].pan
  <2>1. x \in Token \X Tag /\ x[1].kind = "entry" /\ m \in Pan
    BY DEF Tagged, Token
  <2>2. PICK e \in Entries(m) : e.pid = x[1].pid /\ e.tag = x[2] /\ KeepsTag(e)
    BY DEF Tagged
  <2>3. x[1] # o
    BY <1>1, <2>1, <2>2
  <2>4. PhaseOK(m) /\ TestsOK(m)
    BY <2>1 DEF PansOK
  <2>5. \/ e = Self(m)
        \/ e \in tests[m] /\ e.pid \in TestPid /\ e.tag \in TestTag
    BY <2>1, <2>4, WhoseEntry DEF TestsOK
  <2>6. ASSUME e.pid = o.pid, NEW j \in 1 .. Len(file), ~ file[j].free, file[j].pid = o.pid
        PROVE  file[j].tag = x[2]
    <3>0. e.pid = req[n].pid /\ (m = n => o.kind # "entry")
      BY <1>1, <2>6
    <3>1. CASE \E k \in 1 .. Len(BlankPid) : req[n].pid = BlankPid[k]
      <4>1. PICK k \in 1 .. Len(BlankPid) : e.pid = BlankPid[k]
        BY <3>0, <3>1
      <4>2. BlankPid[k] \in Pid \ (TestPid \cup {PidOf[q] : q \in Pan})
        OBVIOUS
      <4> QED BY <2>1, <2>5, <4>1, <4>2 DEF Self
    <3>2. CASE o.kind = "entry" /\ req[n].pid = PidOf[n]
      <4>1. m # n /\ e.pid = PidOf[n] /\ e.pid \notin TestPid
        BY <3>0, <3>2
      <4> QED BY <2>1, <2>5, <4>1 DEF Self
    <3>4. CASE OwnGroups /\ req[n].pid \in TestPid
      BY <2>2, <3>0, <3>4 DEF KeepsTag
    <3>3. CASE ~ OwnGroups /\ o.kind = "entry" /\ req[n].pid \in TestPid
      <4>1. m # n /\ e.pid \in TestPid
        BY <3>0, <3>3
      <4>2. e.tag \in TestTag
        BY <2>1, <2>5, <4>1 DEF Self
      <4>3. file[j].tag \in TestTag
        BY <2>6, <3>0, <3>3, <4>1 DEF LinesOK
      <4> QED BY <2>1, <2>2, <4>1, <4>2, <4>3 DEF KeepsTag
    <3> QED BY <1>1, <3>1, <3>2, <3>3, <3>4
  <2> QED BY <2>2, <2>3, <2>6
<1>8. /\ pos[n] \in 1 .. Len(file) /\ HasPid(file[pos[n]], req[n].pid)
      /\ file' = [file EXCEPT ![pos[n]] = Freed(file[pos[n]])]
  BY <1>0, FlushWrites
<1>9. file[pos[n]] \in Line /\ Freed(file[pos[n]]) \in Line
  <2>1. file[pos[n]] \in Line
    BY <1>0, <1>8
  <2> QED BY <2>1 DEF Freed, Line
<1>10. /\ file' \in Seq(Line) /\ Len(file') = Len(file) /\ file'[pos[n]].free
       /\ \A j \in 1 .. Len(file) : j # pos[n] => file'[j] = file[j]
       /\ ~ file[pos[n]].free /\ file[pos[n]].pid = o.pid
  <2>1. file' \in Seq(Line) /\ Len(file') = Len(file)
    BY <1>0, <1>8, <1>9, WriteLine
  <2> QED BY <1>0, <1>1, <1>8, <1>9, <2>1 DEF Freed, Line, HasPid
<1>11. Clean' = Clean /\ Clean \in BOOLEAN
  BY DEF Clean, LibraryStep, clients
<1>12. Matched(Owed, Tagged, file, Clean)
  BY DEF ListedOK
<1>13. Matched(Owed \ {o}, Tagged, file', Clean)
  <2> DEFINE O == Owed  T == Tagged  g == file'  all == Clean  i == pos[n]
  <2>1. /\ O \in SUBSET Token /\ T \in SUBSET (O \X Tag) /\ file \in Seq(Line)
        /\ all \in BOOLEAN /\ Matched(O, T, file, all)
        /\ o \in O /\ i \in 1 .. Len(file) /\ ~ file[i].free /\ file[i].pid = o.pid
        /\ g \in Seq(Line) /\ Len(g) = Len(file) /\ g[i].free
        /\ \A j \in 1 .. Len(file) : j # i => g[j] = file[j]
    BY <1>0, <1>1, <1>4, <1>8, <1>10, <1>11, <1>12, TaggedIsOwed
  <2>2. /\ \A x \in T : x[1] # o
        /\ \A x \in T : x[1].pid = o.pid =>
             \A j \in 1 .. Len(file) :
               ~ file[j].free /\ file[j].pid = o.pid => file[j].tag = x[2]
    BY <1>7
  <2> HIDE DEF O, T, g, all, i
  <2>3. Matched(O \ {o}, T, g, all)
    BY ONLY <2>1, <2>2, MatchClear
  <2> QED BY <2>3 DEF O, T, g, all
<1> QED BY <1>5, <1>6, <1>11, <1>13 DEF ListedOK

LEMMA NextListedOK ==
  ASSUME ClientsTypeOK, IInv, PansOK, LinesOK, ListedOK,
         NEW n \in Pan, StepOf(n), ReturnsOK(n)'
  PROVE  ListedOK'
<1>1. \A m \in Pan : m # n => SameFor(m)
  BY OthersStay
<1>2. PhaseOK(n) /\ ReturnsOK(n) /\ TestsOK(n)
  BY DEF PansOK
<1>3. CASE Flush(n) /\ LibraryStep(n)
  <2>1. req[n].op \in {"mark", "clear"}
    BY <1>2, <1>3 DEF Flush, PhaseOK, InCall
  <2> QED BY <1>3, <2>1, MarkListed, ClearListed
<1>4. CASE ~ Flush(n) /\ (LibraryStep(n) \/ LibraryError(n))
  <2>1. file' = file
    BY <1>4, ClientStepFile DEF StepOf
  <2> QED BY <1>1, <1>2, <1>4, <2>1, QuietLibrary, ListedStays
<1>5. CASE LibraryError(n) /\ Flush(n)
  BY <1>5 DEF LibraryError, LockFails, SeekFails, UnlockFails, Flush
<1>6. CASE ~ Flush(n) /\ PanStep(n)
  <2>1. file' = file
    BY <1>6, ClientStepFile DEF StepOf
  <2> QED BY <1>1, <1>2, <1>6, <2>1, QuietPan, ListedStays
<1>7. CASE ~ Flush(n) /\ (PanCrashes(n) \/ \E e \in tests[n] : StrayEnds(n, e))
  <2>1. file' = file
    BY <1>7, ClientStepFile DEF StepOf
  <2> QED BY <1>1, <1>2, <1>7, <2>1, QuietEnd, ListedStays
<1>8. CASE Flush(n) /\ (PanStep(n) \/ PanCrashes(n) \/ \E e \in tests[n] : StrayEnds(n, e))
  <2>1. pc[n] = "flush" /\ pc'[n] = "unlock"
    BY <1>8, ClientsAssumption DEF Flush, Goto, ClientsTypeOK, TypeOK
  <2> QED
    BY <1>8, <2>1, ClientsAssumption DEF PanStep, PanCrashes, StrayEnds, MarkSelf,
       SelfMarked, MarkBlanks, ClearBlanks, Blank, TestMarked, Reaped, Orphan,
       OrphanMarked, Hunt, Hunted, ClearSelf, PanDone, PanFails, StartTest, Reap, Idle, Exit, Leave, Goto, vars,
       ClientsTypeOK, TypeOK
<1> QED BY <1>3, <1>4, <1>5, <1>6, <1>7, <1>8 DEF StepOf

-----------------------------------------------------------------------------

(***************************************************************************)
(* All of it together is inductive when no ltp-bump runs.                  *)
(***************************************************************************)
ClientsIInv ==
  /\ ClientsTypeOK /\ BumpKnows
  /\ IInv /\ PansOK /\ LinesOK /\ ListedOK

LEMMA InitClientsIInv == ClientsInit => ClientsIInv
<1> SUFFICES ASSUME ClientsInit PROVE ClientsIInv
  OBVIOUS
<1> USE ClientsAssumption
<1>1. ClientsTypeOK /\ BumpKnows /\ IInv
  BY InitClientsTypeOK, InitIInv DEF ClientsInit
<1>2. /\ file = <<>>
      /\ \A n \in Pan : /\ phase[n] = "begin" /\ pc[n] = "idle" /\ ret[n] = "none"
                        /\ tests[n] = {} /\ marked[n] = {} /\ count[n] = 0
                        /\ \A pid \in TestPid : orphans[n][pid] = 0
  BY DEF ClientsInit, Init
<1>3. PansOK
  BY <1>2 DEF PansOK, PhaseOK, ReturnsOK, TestsOK, OrphansOK
<1>4. LinesOK
  BY <1>2 DEF LinesOK
<1>5. \A n \in Pan : /\ Entries(n) = {} /\ ~ Clearing(n) /\ \A k \in Nat : ~ BlankIsIn(n, k)
                     /\ \A pid \in TestPid : \A k \in Nat : ~ OrphanIsIn(n, pid, k)
  BY <1>2 DEF Entries, Clearing, BlankIsIn, OrphanIsIn
<1>6. Owed = {} /\ Tagged = {}
  BY <1>5 DEF Owed, Owes, Tagged, Token
<1>7. ListedOK
  <2> DEFINE m == [o \in Token |-> 0]
  <2>1. m \in [Token -> Nat]
    OBVIOUS
  <2>2. Fits(m, Owed, Tagged, file, Clean)
    BY <1>2, <1>6 DEF Fits
  <2> HIDE DEF m
  <2> QED BY <2>1, <2>2 DEF ListedOK, Matched
<1> QED BY <1>1, <1>3, <1>4, <1>7 DEF ClientsIInv

LEMMA NextOrphansOK ==
  ASSUME ClientsTypeOK, NEW n \in Pan, PhaseOK(n), OrphansOK(n), StepOf(n)
  PROVE  OrphansOK(n)'
<1>1. SUFFICES ASSUME ~ OwnGroups PROVE orphans' = orphans
  BY <1>1 DEF OrphansOK
<1>2. CASE LibraryStep(n) \/ LibraryError(n)
  BY <1>2 DEF LibraryStep, LibraryError, clients
<1>3. ~ OrphanMarked(n)
  BY <1>1 DEF OrphanMarked, Idle, PhaseOK
<1>4. ASSUME NEW pid \in TestPid, Hunt(n, pid) PROVE FALSE
  BY <1>1, <1>4 DEF Hunt, OrphansOK
<1>5. CASE PanStep(n) \/ PanCrashes(n) \/ \E e \in tests[n] : StrayEnds(n, e)
  BY <1>3, <1>4, <1>5 DEF PanStep, PanCrashes, StrayEnds, MarkSelf, SelfMarked,
     MarkBlanks, ClearBlanks, Blank, TestMarked, Reaped, Orphan, Hunted, ClearSelf,
     PanDone, PanFails, StartTest, Reap
<1> QED BY <1>2, <1>5 DEF StepOf

LEMMA NextClientsIInv ==
  ASSUME Bump = {}, ClientsIInv, [ClientsNext]_allVars
  PROVE  ClientsIInv'
<1> USE ClientsAssumption
<1>0. ClientsTypeOK /\ BumpKnows /\ IInv /\ PansOK /\ LinesOK /\ ListedOK
  BY DEF ClientsIInv
<1>1. ClientsTypeOK' /\ BumpKnows'
  BY <1>0, NextClientsTypeOK, NextBumpKnows
<1>2. IInv'
  <2>1. Reader \cap Writer = {}
    OBVIOUS
  <2>2. [Next]_vars
    BY <1>0, StepIsZooStep
  <2> QED BY <1>0, <2>1, <2>2, NextIInv
<1>3. ASSUME NEW n \in Pan, StepOf(n) PROVE PansOK' /\ LinesOK' /\ ListedOK'
  <2>1. /\ PhaseOK(n) /\ ReturnsOK(n) /\ TestsOK(n) /\ OrphansOK(n)
        /\ \A m \in Pan : TestsOK(m)
    BY <1>0 DEF PansOK
  <2>2. PhaseOK(n)'
    BY <1>0, <1>3, <2>1, LibraryPhaseOK, PanPhaseOK, EndPhaseOK DEF StepOf
  <2>3. ReturnsOK(n)'
    BY <1>0, <1>3, <2>1, NextReturnsOK
  <2>4. \A m \in Pan : TestsOK(m)'
    BY <1>0, <1>3, <2>1, NextTestsOK
  <2>5. ASSUME NEW m \in Pan, m # n PROVE PhaseOK(m)' /\ ReturnsOK(m)'
    <3>1. SameFor(m)
      BY <1>0, <1>3, <2>5, OthersStay
    <3>2. PhaseOK(m) /\ ReturnsOK(m)
      BY <1>0 DEF PansOK
    <3>3. PhaseOK(m)'
      BY <3>1, <3>2 DEF SameFor, PhaseOK, InCall, MarksBlank, Self
    <3> QED BY <3>1, <3>2, <3>3 DEF SameFor, ReturnsOK
  <2>9. \A m \in Pan : OrphansOK(m)'
    <3>1. OrphansOK(n)'
      BY <1>0, <1>3, <2>1, NextOrphansOK
    <3>2. ASSUME NEW m \in Pan, m # n PROVE OrphansOK(m)'
      BY <1>0, <1>3, <3>2, OthersStay DEF SameFor, OrphansOK, PansOK
    <3> QED BY <3>1, <3>2
  <2>6. PansOK'
    BY <2>2, <2>3, <2>4, <2>5, <2>9 DEF PansOK
  <2>7. LinesOK'
    BY <1>0, <1>3, <2>1, NextLinesOK
  <2>8. ListedOK'
    BY <1>0, <1>3, <2>3, NextListedOK
  <2> QED BY <2>6, <2>7, <2>8
<1>4. CASE \E p \in Proc : LibraryStep(p) \/ LibraryError(p) \/ PanStep(p)
             \/ PanCrashes(p) \/ \E e \in tests[p] : StrayEnds(p, e)
  <2>1. \E n \in Pan : StepOf(n)
    BY <1>4 DEF StepOf
  <2> QED BY <1>0, <1>1, <1>2, <1>3, <2>1 DEF ClientsIInv
<1>5. CASE UNCHANGED allVars \/ \E pid \in TestPid : GroupEnds(pid)
  <2>1. UNCHANGED <<file, pc, req, ret, phase, tests, marked, orphans, exists, count,
                    target>>
    BY <1>5 DEF allVars, vars, clients, GroupEnds
  <2>2. PansOK'
    BY <1>0, <2>1 DEF PansOK, PhaseOK, ReturnsOK, TestsOK, OrphansOK, InCall,
       MarksBlank, Self
  <2>3. LinesOK'
    BY <1>0, <2>1 DEF LinesOK
  <2>4. \A n \in Pan : SameFor(n)
    BY <2>1 DEF SameFor
  <2>5. Owed' = Owed /\ Tagged' = Tagged
    <3>1. \A o \in Token : o.pan \in Pan
      BY DEF Token
    <3> QED BY <2>4, <3>1, SameOwes DEF Owed, Tagged, KeepsTag
  <2>6. Clean' = Clean
    BY <2>1 DEF Clean
  <2>7. ListedOK'
    BY <1>0, <2>1, <2>5, <2>6 DEF ListedOK
  <2> QED BY <1>1, <1>2, <2>2, <2>3, <2>7 DEF ClientsIInv
<1>6. Proc = Pan
  OBVIOUS
<1> QED BY <1>4, <1>5, <1>6 DEF ClientsNext

LEMMA ListedIsRecorded == ClientsTypeOK /\ PansOK /\ ListedOK => Recorded
<1> SUFFICES ASSUME ClientsTypeOK, PansOK, ListedOK, NEW n \in Pan, NEW e \in Listed(n)
             PROVE  \E i \in 1 .. Len(file) : Tells(file[i], e)
  BY DEF Recorded
<1>1. PICK m \in [Token -> Nat] : Fits(m, Owed, Tagged, file, Clean)
  BY DEF ListedOK, Matched
<1>2. CASE e \in marked[n]
  <2> DEFINE o == [kind |-> "entry", pan |-> n, k |-> 0, pid |-> e.pid]
  <2>1. e \in Entry /\ e \in Entries(n) /\ o \in Token
    BY <1>2 DEF ClientsTypeOK, Entry, Entries, Token
  <2>2. o \in Owed
    BY <2>1 DEF Owed, Owes
  <2>3. m[o] \in 1 .. Len(file) /\ ~ file[m[o]].free /\ file[m[o]].pid = e.pid
    BY <1>1, <2>2 DEF Fits
  <2>4. ASSUME KeepsTag(e) PROVE file[m[o]].tag = e.tag
    <3> DEFINE x == <<o, e.tag>>
    <3>1. x \in Tagged
      BY <2>1, <2>4 DEF Tagged, Entry
    <3> QED BY <1>1, <3>1 DEF Fits
  <2> QED BY <2>3, <2>4 DEF Tells
<1>3. CASE e \in Entry /\ e.pid \in TestPid /\ orphans[n][e.pid] > 0
  <2> DEFINE o == [kind |-> "orphan", pan |-> n, k |-> 1, pid |-> e.pid]
  <2>1. o \in Token /\ orphans[n][e.pid] \in Nat /\ OwnGroups
    BY <1>3 DEF ClientsTypeOK, Entry, Token, PansOK, OrphansOK
  <2>2. o \in Owed
    BY <1>3, <2>1 DEF Owed, Owes, OrphanIsIn
  <2>3. m[o] \in 1 .. Len(file) /\ ~ file[m[o]].free /\ file[m[o]].pid = e.pid
    BY <1>1, <2>2 DEF Fits
  <2> QED BY <1>3, <2>1, <2>3 DEF Tells, KeepsTag
<1> QED BY <1>2, <1>3 DEF Listed

LEMMA ListedIsMarked ==
  ASSUME ~ IOErrors, ClientsTypeOK, PansOK, ListedOK
  PROVE  NothingElseListed
<1> SUFFICES ASSUME \A n \in Pan : phase[n] \in {"run", "done"} /\ pc[n] = "idle",
                    NEW i \in 1 .. Len(file), ~ file[i].free
             PROVE  \E n \in Pan : \E e \in Listed(n) : Tells(file[i], e)
  BY DEF NothingElseListed
<1>1. Clean
  BY DEF Clean
<1>2. PICK m \in [Token -> Nat] : Fits(m, Owed, Tagged, file, Clean)
  BY DEF ListedOK, Matched
<1>3. PICK o \in Owed : m[o] = i
  BY <1>1, <1>2 DEF Fits
<1>4. o \in Token /\ Owes(o) /\ o.pan \in Pan /\ file[i].pid = o.pid
  BY <1>2, <1>3 DEF Owed, Token, Fits
<1>5. phase[o.pan] \in {"run", "done"}
  BY <1>4
<1>6. ~ Clearing(o.pan) /\ \A k \in Nat : ~ BlankIsIn(o.pan, k)
  BY <1>5 DEF Clearing, BlankIsIn
<1>7. CASE o.kind = "entry"
  <2>1. PICK e \in Entries(o.pan) : e.pid = o.pid
    BY <1>4, <1>6, <1>7 DEF Owes
  <2>2. e \in Listed(o.pan) /\ e \in Entry
    BY <1>5, <2>1 DEF Entries, Listed
  <2>3. ASSUME KeepsTag(e) PROVE file[i].tag = e.tag
    <3> DEFINE x == <<o, e.tag>>
    <3>1. x \in Tagged
      BY <1>4, <1>7, <2>1, <2>2, <2>3 DEF Tagged, Entry, Owes
    <3> QED BY <1>2, <1>3, <3>1 DEF Fits
  <2> QED BY <1>4, <2>1, <2>2, <2>3 DEF Tells
<1>8. CASE o.kind = "orphan"
  <2> DEFINE e == [pid |-> o.pid, tag |-> OrphanTag]
  <2>1. o.pid \in TestPid /\ o.k \in 1 .. orphans[o.pan][o.pid]
    BY <1>4, <1>5, <1>8 DEF Owes, OrphanIsIn
  <2>2. e \in Entry /\ orphans[o.pan][o.pid] \in Nat /\ orphans[o.pan][o.pid] > 0
    BY <1>4, <2>1, ClientsAssumption, EntryIsMade DEF ClientsTypeOK
  <2>3. OwnGroups
    BY <1>4, <2>1, <2>2 DEF PansOK, OrphansOK
  <2>4. e \in Listed(o.pan) /\ ~ KeepsTag(e)
    BY <2>1, <2>2, <2>3 DEF Listed, KeepsTag
  <2> QED BY <1>4, <2>4 DEF Tells
<1>9. o.kind \in {"entry", "orphan"}
  BY <1>4, <1>6 DEF Owes, Token
<1> QED BY <1>7, <1>8, <1>9

(***************************************************************************)
(* Whatever a ltp-pan has marked and not begun to clear is in the file,    *)
(* under its tag unless its pid can have been another ltp-pan's test's:    *)
(* for any number of ltp-pan programs and tests, with errors of the file   *)
(* and with ltp-pan programs killed anywhere.  No ltp-bump runs: it clears *)
(* lines that are not its own.                                             *)
(***************************************************************************)
THEOREM RecordedCorrect ==
  ASSUME Bump = {}
  PROVE  ClientsSpec => []Recorded
<1>1. ClientsIInv => Recorded
  BY ListedIsRecorded DEF ClientsIInv
<1> QED BY <1>1, InitClientsIInv, NextClientsIInv, PTL DEF ClientsSpec

(***************************************************************************)
(* A ltp-pan finds the line of every test it has reaped, and never exits   *)
(* with its other tests running because zoo_clear() returned 1.            *)
(***************************************************************************)
THEOREM ClearFindsCorrect ==
  ASSUME Bump = {}
  PROVE  ClientsSpec => []ClearFindsItsEntry
<1>1. ClientsIInv => ClearFindsItsEntry
  BY DEF ClientsIInv, PansOK, ReturnsOK, ClearFindsItsEntry
<1> QED BY <1>1, InitClientsIInv, NextClientsIInv, PTL DEF ClientsSpec

(***************************************************************************)
(* Without errors of the file, as long as no ltp-pan has been killed, the  *)
(* file lists nothing but what the ltp-pan programs run.                   *)
(***************************************************************************)
THEOREM NothingElseCorrect ==
  ASSUME Bump = {}, ~ IOErrors
  PROVE  ClientsSpec => []NothingElseListed
<1>1. ClientsIInv => NothingElseListed
  BY ListedIsMarked DEF ClientsIInv
<1> QED BY <1>1, InitClientsIInv, NextClientsIInv, PTL DEF ClientsSpec

=============================================================================

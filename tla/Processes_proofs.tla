-------------------------- MODULE Processes_proofs --------------------------
(***************************************************************************)
(* Proofs about the processes of a test: the two ways in which it and its  *)
(* children wait for each other, the checkpoints and the pipes of          *)
(* libtestsuite, for any number of rounds; and the copies forker() makes,  *)
(* for any number of copies and places in the array, wherever a fork()     *)
(* fails and whenever SIGUSR2 comes.                                       *)
(***************************************************************************)
EXTENDS Checkpoint, SyncPipe, Forker, TLAPS

(***************************************************************************)
(* NobodyRunsAhead is not inductive.  What makes it so: a byte is there    *)
(* only between the signal of one side and the read() of the other, which  *)
(* still has the FIFO open; and a side that has the FIFO open for reading  *)
(* has seen the other side open it in this round.                          *)
(***************************************************************************)
ByteIsThisRounds ==
  byte # 0 =>
    /\ byte = cpRound /\ signalled = cpRound
    /\ cpWay = "toParent" => parent = "reader" /\ child \in {"past"} \cup Dead
    /\ cpWay = "toChild" => child \in Opened /\ parent \in {"past", "ended"}

ParentPassed ==
  /\ parent = "past" => signalled = cpRound
  /\ parent = "reader" => cpWay = "toParent"
  /\ parent \in {"opening", "writer"} => cpWay = "toChild"

ChildPassed ==
  /\ child = "reader" => cpWay = "toChild" /\ parent # "ready"
  /\ child = "writer" => cpWay = "toParent"
  /\ child \in {"past", "gone"} =>
       signalled = cpRound \/ parent \in {"breaking", "ended"}

CpInv == CpTypeOK /\ ByteIsThisRounds /\ ParentPassed /\ ChildPassed

LEMMA RoundsNat == CpRounds \in Nat /\ CpRounds >= 1
BY CpAssumption

LEMMA CpInitInv == CpInit => CpInv
<1> SUFFICES ASSUME CpInit PROVE CpInv
  OBVIOUS
<1>1. fifo \in BOOLEAN /\ seen \in BOOLEAN
  BY DEF CpInit
<1>2. /\ cpWay \in {"toParent", "toChild"} /\ cpRound = 1
      /\ parent = "ready" /\ child = "ready" /\ byte = 0 /\ signalled = 0
  BY DEF CpInit
<1> QED
  BY RoundsNat, <1>1, <1>2
     DEF CpInv, CpTypeOK, ByteIsThisRounds, ParentPassed, ChildPassed,
         ParentStates, ChildStates

(***************************************************************************)
(* Each step keeps the invariant.                                          *)
(***************************************************************************)
LEMMA CpStepInv == CpInv /\ [CpNext]_cpVars => CpInv'
<1> SUFFICES ASSUME CpInv, [CpNext]_cpVars PROVE CpInv'
  OBVIOUS
<1> USE RoundsNat
    DEF CpInv, CpTypeOK, ByteIsThisRounds, ParentPassed, ChildPassed,
        ParentStates, ChildStates, Opened, Dead, Kept, Woken
<1>1. CASE ParentWait
  BY <1>1 DEF ParentWait, ParentOpens
<1>2. CASE ParentReads
  BY <1>2 DEF ParentReads, ReadTells
<1>3. CASE PollTimesOut
  BY <1>3 DEF PollTimesOut, Ready
<1>4. CASE SignalChild
  BY <1>4 DEF SignalChild
<1>5. CASE SignalsChild
  BY <1>5 DEF SignalsChild
<1>6. CASE NextRound
  <2>1. fifo' \in BOOLEAN /\ seen' \in BOOLEAN
    BY <1>6 DEF NextRound
  <2>2. /\ parent = "past" /\ child \in Dead /\ cpRound < CpRounds
        /\ cpRound' = cpRound + 1 /\ parent' = "ready" /\ child' = "ready"
        /\ UNCHANGED <<cpWay, byte, signalled>>
    BY <1>6 DEF NextRound, TestLooping
  <2> QED BY <2>1, <2>2
<1>7. CASE LastRound
  BY <1>7 DEF LastRound
<1>8. ASSUME NEW cleanup \in BOOLEAN, ParentBreaks(cleanup) PROVE CpInv'
  BY <1>8 DEF ParentBreaks
<1>9. CASE ChildOpens
  BY <1>9 DEF ChildOpens
<1>10. CASE SignalsParent
  BY <1>10 DEF SignalsParent
<1>11. CASE ChildEnds
  BY <1>11 DEF ChildEnds
<1>12. ASSUME NEW ch \in {"p", "other"}, ChildReads(ch) PROVE CpInv'
  BY <1>12 DEF ChildReads, MustWait
<1>13. CASE ChildDies
  BY <1>13 DEF ChildDies
<1>14. CASE ParentDies
  BY <1>14 DEF ParentDies
<1>15. CASE UNCHANGED cpVars
  BY <1>15 DEF cpVars
<1> QED
  BY <1>1, <1>2, <1>3, <1>4, <1>5, <1>6, <1>7, <1>8, <1>9, <1>10, <1>11,
     <1>12, <1>13, <1>14, <1>15 DEF CpNext, ParentSteps, ChildSteps

LEMMA CpInvariant == CpInit /\ [][CpNext]_cpVars => []CpInv
BY CpInitInv, CpStepInv, PTL

LEMMA CpInvTells == CpInv => CpTypeOK /\ NobodyRunsAhead
BY DEF CpInv, CpTypeOK, ByteIsThisRounds, ParentPassed, ChildPassed,
       NobodyRunsAhead

(***************************************************************************)
(* The variables of the checkpoint keep their types.                       *)
(***************************************************************************)
THEOREM CpTypeCorrect == CpSpec => []CpTypeOK
BY CpInvTells, CpInvariant, PTL DEF CpSpec

(***************************************************************************)
(* tst_checkpoint_*(): whoever is killed, times out or breaks at whatever  *)
(* point and in whatever round, no side is past the checkpoint before the  *)
(* other has signalled in this round, except for a child whose parent has  *)
(* gone; a byte of an earlier round is never read.                         *)
(***************************************************************************)
THEOREM NobodyRunsAheadCorrect == CpSpec => []NobodyRunsAhead
BY CpInvTells, CpInvariant, PTL DEF CpSpec

-----------------------------------------------------------------------------

Fields(pcs) == [pc : pcs, rd : Pipes \cup {Closed}, wr : Pipes \cup {Closed}]
WaiterPcs == {"create", "fork", "wait", "read", "close", "broken", "done"}
KidPcs == {"none", "create", "notify", "close", "past", "dead"}

(* How many pipes can have been made: one by the parent in each round, and *)
(* one by its child.                                                       *)
Most == IF waiter.pc = "create" THEN 2 * spRound - 2
        ELSE IF waiter.pc = "fork" \/ kids[spRound].pc = "create"
        THEN 2 * spRound - 1
        ELSE 2 * spRound

(* Only this round's child looks for its FIFO, while its parent waits; the *)
(* children still to come have not been forked.                            *)
KidsInv ==
  /\ \A i \in 1 .. SpRounds :
       /\ i > spRound => kids[i].pc = "none"
       /\ kids[i].pc = "create" => i = spRound /\ Named
       /\ kids[i].pc = "notify" => kids[i].wr # Closed
       /\ i \in told => kids[i].pc \in {"close", "past", "dead"}
  /\ waiter.pc \in {"create", "fork"} => kids[spRound].pc = "none"
  /\ waiter.pc \in {"fork", "wait", "read", "close", "broken"} <=>
       waiter.rd # Closed

(* A pipe is new to the parent that makes it: what is in it comes from     *)
(* this round's child.                                                     *)
PipesInv ==
  /\ spName <= spMade /\ waiter.rd <= spMade /\ waiter.wr <= spMade
  /\ \A i \in 1 .. SpRounds : kids[i].wr <= spMade
  /\ \A p \in Pipes : p > spMade => spBytes[p] = 0
  /\ waiter.rd # Closed =>
       /\ \A i \in 1 .. SpRounds : i # spRound => kids[i].wr # waiter.rd
       /\ spBytes[waiter.rd] # 0 => spRound \in told

NameInv ==
  /\ waiter.pc = "create" => spName = 0
  /\ waiter.pc = "fork" => waiter.wr = waiter.rd
  /\ spWay = "shared" => spName = 0
  /\ spWay = "named" /\ waiter.rd # Closed => spName = waiter.rd

SpInv == /\ SpTypeOK /\ spMade <= Most
         /\ KidsInv /\ PipesInv /\ NameInv /\ HeardItsChild /\ SameFifo

LEMMA SpNat == SpRounds \in Nat /\ SpRounds >= 1
BY SpAssumption

LEMMA SpInitInv == SpInit => SpInv
<1> SUFFICES ASSUME SpInit PROVE SpInv
  OBVIOUS
<1> USE SpNat DEF SpInit, At, Closed, Pipes
<1>1. SpTypeOK
  BY DEF SpTypeOK
<1>2. spMade <= Most /\ KidsInv /\ NameInv /\ HeardItsChild
  BY DEF Most, KidsInv, NameInv, HeardItsChild
<1>3. PipesInv /\ SameFifo
  BY DEF PipesInv, SameFifo
<1> QED BY <1>1, <1>2, <1>3 DEF SpInv

(***************************************************************************)
(* What sync_pipe_create() gives, called while there is a pipe left.       *)
(***************************************************************************)
LEMMA CreateGives ==
  ASSUME SpTypeOK, PipesInv, spMade < 2 * SpRounds, Create
  PROVE  /\ Created \in Pipes /\ Created <= spMade'
         /\ spMade' \in 0 .. 2 * SpRounds
         /\ spMade <= spMade' /\ spMade' <= spMade + 1
         /\ spName' \in Pipes \cup {0} /\ spName' <= spMade'
         /\ spName' = IF Named THEN Created ELSE 0
         /\ ~ Named \/ spName = 0 => Created = spMade + 1
BY SpNat DEF SpTypeOK, PipesInv, Create, Created, Pipes

LEMMA ParentCreatesInv == ASSUME SpInv, ParentCreates PROVE SpInv'
<1> USE SpNat DEF Pipes, Closed, Named
<1>0. /\ SpTypeOK /\ PipesInv /\ spMade <= Most /\ KidsInv /\ NameInv
      /\ waiter.pc = "create" /\ Create
      /\ spRound \in 1 .. SpRounds
  BY DEF SpInv, ParentCreates, SpTypeOK
<1>1. Most = 2 * spRound - 2 /\ spMade < 2 * SpRounds /\ spName = 0
  BY <1>0 DEF Most, NameInv, SpTypeOK
<1>2. /\ Created \in Pipes /\ Created = spMade + 1
      /\ spMade' \in 0 .. 2 * SpRounds /\ spMade' = spMade + 1
      /\ spName' \in Pipes \cup {0} /\ spName' <= spMade'
      /\ spName' = IF Named THEN Created ELSE 0
  BY <1>0, <1>1, CreateGives DEF SpTypeOK
<1>3. /\ waiter' = [pc |-> "fork", rd |-> Created, wr |-> Created]
      /\ UNCHANGED <<spWay, spRound, kids, spBytes, told>>
  BY DEF ParentCreates, At
<1>. HIDE DEF Pipes
<1>4. SpTypeOK'
  BY <1>0, <1>2, <1>3 DEF SpTypeOK
<1>5. KidsInv'
  BY <1>0, <1>2, <1>3 DEF KidsInv, Pipes
<1>6. PipesInv'
  <2>1. /\ waiter'.rd = Created /\ waiter'.wr = Created
        /\ \A j \in 1 .. SpRounds :
             kids[j].wr \in Nat /\ kids[j].wr <= spMade
        /\ Created \in Nat /\ spMade \in Nat
    BY <1>0, <1>2, <1>3 DEF PipesInv, SpTypeOK, Pipes
  <2>2. \A p \in Pipes : p > spMade' => spBytes'[p] = 0
    BY <1>0, <1>2, <1>3, <2>1 DEF PipesInv, Pipes
  <2>3. /\ \A j \in 1 .. SpRounds : kids'[j].wr <= spMade'
        /\ \A j \in 1 .. SpRounds : kids'[j].wr # waiter'.rd
    BY <1>2, <1>3, <2>1
  <2>4. spBytes'[waiter'.rd] = 0
    BY <1>0, <1>2, <1>3, <2>1 DEF PipesInv
  <2> QED BY <1>2, <1>3, <2>1, <2>2, <2>3, <2>4 DEF PipesInv
<1>7. NameInv'
  BY <1>0, <1>2, <1>3 DEF NameInv
<1>8. (spMade <= Most)'
  BY <1>0, <1>1, <1>2, <1>3 DEF Most, SpTypeOK
<1>9. HeardItsChild' /\ SameFifo'
  BY <1>0, <1>3 DEF HeardItsChild, SameFifo, KidsInv
<1> QED BY <1>4, <1>5, <1>6, <1>7, <1>8, <1>9 DEF SpInv

LEMMA SpForkInv == ASSUME SpInv, SpFork PROVE SpInv'
<1> USE SpNat DEF Closed, Named
<1>0. /\ SpTypeOK /\ PipesInv /\ spMade <= Most /\ KidsInv /\ NameInv
      /\ waiter.pc = "fork" /\ spRound \in 1 .. SpRounds
  BY DEF SpInv, SpFork, SpTypeOK
<1> DEFINE kid == [pc |-> IF Named THEN "create" ELSE "notify",
                   rd |-> waiter.rd, wr |-> waiter.wr]
<1>1. /\ waiter' = [waiter EXCEPT !.pc = "wait"]
      /\ kids' = [kids EXCEPT ![spRound] = kid]
      /\ UNCHANGED <<spWay, spRound, spName, spMade, spBytes, told>>
  BY DEF SpFork, At
<1>2. /\ waiter.rd \in Pipes /\ waiter.wr = waiter.rd
      /\ kids[spRound].pc = "none"
  BY <1>0 DEF KidsInv, NameInv, SpTypeOK
<1>3. /\ waiter'.pc = "wait" /\ waiter'.rd = waiter.rd /\ waiter'.wr = waiter.wr
      /\ kids'[spRound] = kid
      /\ \A i \in 1 .. SpRounds : i # spRound => kids'[i] = kids[i]
  BY <1>0, <1>1 DEF SpTypeOK
<1>4. SpTypeOK'
  BY <1>0, <1>1, <1>2 DEF SpTypeOK
<1>5. KidsInv'
  BY <1>0, <1>1, <1>2, <1>3 DEF KidsInv, Pipes
<1>6. PipesInv'
  BY <1>0, <1>1, <1>2, <1>3 DEF PipesInv, SpTypeOK
<1>7. NameInv'
  BY <1>0, <1>1, <1>2, <1>3 DEF NameInv
<1>8. (spMade <= Most)'
  BY <1>0, <1>1, <1>2, <1>3 DEF Most, SpTypeOK
<1>9. HeardItsChild' /\ SameFifo'
  BY <1>0, <1>1, <1>2, <1>3 DEF HeardItsChild, SameFifo
<1> QED BY <1>4, <1>5, <1>6, <1>7, <1>8, <1>9 DEF SpInv

LEMMA SyncPipeWaitInv == ASSUME SpInv, SyncPipeWait PROVE SpInv'
<1> USE SpNat DEF Closed, Named
<1>0. /\ SpTypeOK /\ PipesInv /\ spMade <= Most /\ KidsInv /\ NameInv
      /\ waiter.pc = "wait" /\ spRound \in 1 .. SpRounds /\ SameFifo
  BY DEF SpInv, SyncPipeWait, SpTypeOK
<1>1. /\ waiter' = [waiter EXCEPT !.pc = "read", !.wr = 0]
      /\ UNCHANGED <<spWay, spRound, kids, spName, spMade, spBytes, told>>
  BY DEF SyncPipeWait, WaitCloses
<1>3. waiter'.pc = "read" /\ waiter'.rd = waiter.rd /\ waiter'.wr = 0
  BY <1>0, <1>1 DEF SpTypeOK
<1>4. SpTypeOK'
  BY <1>0, <1>1 DEF SpTypeOK
<1>5. KidsInv'
  BY <1>0, <1>1, <1>3 DEF KidsInv
<1>6. PipesInv'
  BY <1>0, <1>1, <1>3 DEF PipesInv, SpTypeOK
<1>7. NameInv'
  BY <1>0, <1>1, <1>3 DEF NameInv
<1>8. (spMade <= Most)'
  BY <1>0, <1>1, <1>3 DEF Most
<1>9. HeardItsChild' /\ SameFifo'
  BY <1>0, <1>1, <1>3 DEF HeardItsChild, SameFifo
<1> QED BY <1>4, <1>5, <1>6, <1>7, <1>8, <1>9 DEF SpInv

LEMMA ParentGetsInv == ASSUME SpInv, ParentGets PROVE SpInv'
<1> USE SpNat DEF Closed, Named
<1>0. /\ SpTypeOK /\ PipesInv /\ spMade <= Most /\ KidsInv /\ NameInv
      /\ waiter.pc = "read" /\ spRound \in 1 .. SpRounds /\ SameFifo
  BY DEF SpInv, ParentGets, SpTypeOK
<1> DEFINE n == spBytes[waiter.rd]
<1>1. /\ waiter' = [waiter EXCEPT !.pc = IF n > 0 THEN "close" ELSE "broken"]
      /\ spBytes' = [spBytes EXCEPT ![waiter.rd] = IF n > 0 THEN n - 1 ELSE 0]
      /\ UNCHANGED <<spWay, spRound, kids, spName, spMade, told>>
  BY DEF ParentGets, WaitTells
<1>2. waiter.rd \in Pipes /\ n \in Nat
  BY <1>0 DEF KidsInv, SpTypeOK
<1>3. /\ waiter'.pc = IF n > 0 THEN "close" ELSE "broken"
      /\ waiter'.rd = waiter.rd /\ waiter'.wr = waiter.wr
      /\ spBytes' \in [Pipes -> Nat]
      /\ \A p \in Pipes : spBytes'[p] # 0 => spBytes[p] # 0
  BY <1>0, <1>1, <1>2 DEF SpTypeOK
<1>4. SpTypeOK'
  BY <1>0, <1>1, <1>2, <1>3 DEF SpTypeOK
<1>5. KidsInv'
  BY <1>0, <1>1, <1>3 DEF KidsInv
<1>6. PipesInv'
  BY <1>0, <1>1, <1>2, <1>3 DEF PipesInv, SpTypeOK
<1>7. NameInv'
  BY <1>0, <1>1, <1>3 DEF NameInv
<1>8. (spMade <= Most)'
  BY <1>0, <1>1, <1>3 DEF Most
<1>9. HeardItsChild'
  <2>1. waiter'.pc = "close" => n > 0
    BY <1>3
  <2>2. n > 0 => spRound \in told
    BY <1>0, <1>2 DEF PipesInv, Pipes
  <2> QED BY <1>1, <2>1, <2>2 DEF HeardItsChild
<1>10. SameFifo'
  BY <1>0, <1>1, <1>3 DEF SameFifo
<1> QED BY <1>4, <1>5, <1>6, <1>7, <1>8, <1>9, <1>10 DEF SpInv

LEMMA ParentClosesInv == ASSUME SpInv, ParentCloses PROVE SpInv'
<1> USE SpNat DEF Closed, Named
<1>0. /\ SpTypeOK /\ PipesInv /\ spMade <= Most /\ KidsInv /\ NameInv
      /\ waiter.pc = "close" /\ spRound \in 1 .. SpRounds /\ HeardItsChild
  BY DEF SpInv, ParentCloses, SpTypeOK
<1>1. /\ waiter' = [pc |-> IF spRound < SpRounds THEN "create" ELSE "done",
                    rd |-> 0, wr |-> 0]
      /\ spRound' = IF spRound < SpRounds THEN spRound + 1 ELSE spRound
      /\ spName' = 0
      /\ UNCHANGED <<spWay, kids, spMade, spBytes, told>>
  BY DEF ParentCloses, MoreKids, At
<1>2. kids[spRound].pc \in {"close", "past", "dead"}
  BY <1>0 DEF HeardItsChild, KidsInv
<1>4. SpTypeOK'
  BY <1>0, <1>1 DEF SpTypeOK
<1>5. KidsInv'
  BY <1>0, <1>1, <1>2 DEF KidsInv
<1>6. PipesInv'
  BY <1>0, <1>1 DEF PipesInv, SpTypeOK
<1>7. NameInv'
  BY <1>0, <1>1 DEF NameInv
<1>8. (spMade <= Most)'
  BY <1>0, <1>1, <1>2 DEF Most, SpTypeOK
<1>9. HeardItsChild' /\ SameFifo'
  BY <1>0, <1>1 DEF HeardItsChild, SameFifo
<1> QED BY <1>4, <1>5, <1>6, <1>7, <1>8, <1>9 DEF SpInv

-----------------------------------------------------------------------------

LEMMA KidCreatesInv ==
  ASSUME SpInv, NEW i \in 1 .. SpRounds, KidCreates(i) PROVE SpInv'
<1> USE SpNat DEF Closed, Named
<1>0. /\ SpTypeOK /\ PipesInv /\ spMade <= Most /\ KidsInv /\ NameInv
      /\ kids[i].pc = "create" /\ Create
      /\ spRound \in 1 .. SpRounds /\ HeardItsChild
  BY DEF SpInv, KidCreates, SpTypeOK
<1>1. /\ i = spRound /\ Named /\ waiter.pc \notin {"create", "fork"}
      /\ i \notin told
  BY <1>0 DEF KidsInv
<1>2. Most = 2 * spRound - 1 /\ spMade < 2 * SpRounds
  BY <1>0, <1>1 DEF Most, SpTypeOK
<1>3. /\ Created \in Pipes /\ Created <= spMade'
      /\ spMade' \in 0 .. 2 * SpRounds
      /\ spMade <= spMade' /\ spMade' <= spMade + 1
      /\ spName' \in Pipes \cup {0} /\ spName' <= spMade'
      /\ spName' = Created
      /\ Created = IF spName # 0 THEN spName ELSE spMade + 1
  BY <1>0, <1>1, <1>2, CreateGives DEF Created
<1> DEFINE kid == [pc |-> "notify", rd |-> Created, wr |-> Created]
<1>4. /\ kids' = [kids EXCEPT ![i] = kid]
      /\ UNCHANGED <<spWay, spRound, waiter, spBytes, told>>
  BY DEF KidCreates, At
<1>5. /\ kids'[i] = kid
      /\ \A j \in 1 .. SpRounds : j # i => kids'[j] = kids[j]
  BY <1>0, <1>4 DEF SpTypeOK
<1>6. SpTypeOK'
  BY <1>0, <1>3, <1>4 DEF SpTypeOK
<1>7. KidsInv'
  BY <1>0, <1>1, <1>3, <1>4, <1>5 DEF KidsInv, Pipes
<1>8. PipesInv'
  <2>1. /\ \A j \in 1 .. SpRounds :
             kids[j].wr \in Nat /\ kids[j].wr <= spMade
        /\ Created \in Nat /\ spMade \in Nat /\ spMade' \in Nat
        /\ waiter.rd \in Nat /\ waiter.wr \in Nat
        /\ waiter.rd <= spMade /\ waiter.wr <= spMade
    BY <1>0, <1>3 DEF PipesInv, SpTypeOK, Pipes
  <2>2. \A p \in Pipes : p > spMade' => spBytes'[p] = 0
    BY <1>0, <1>3, <1>4, <2>1 DEF PipesInv, Pipes
  <2>3. \A j \in 1 .. SpRounds : kids'[j].wr <= spMade'
    BY <1>3, <1>5, <2>1
  <2>4. waiter'.rd # 0 => \A j \in 1 .. SpRounds :
                            j # spRound' => kids'[j].wr # waiter'.rd
    BY <1>0, <1>1, <1>4, <1>5 DEF PipesInv
  <2>5. waiter'.rd # 0 /\ spBytes'[waiter'.rd] # 0 => spRound' \in told'
    BY <1>0, <1>4 DEF PipesInv
  <2> QED BY <1>3, <1>4, <2>1, <2>2, <2>3, <2>4, <2>5 DEF PipesInv
<1>9. NameInv'
  BY <1>0, <1>1, <1>3, <1>4, <1>5 DEF NameInv, KidsInv
<1>10. (spMade <= Most)'
  BY <1>0, <1>1, <1>2, <1>3, <1>4, <1>5 DEF Most, SpTypeOK
<1>11. HeardItsChild' /\ SameFifo'
  BY <1>0, <1>1, <1>3, <1>4, <1>5 DEF HeardItsChild, SameFifo, NameInv, SpTypeOK
<1> QED BY <1>6, <1>7, <1>8, <1>9, <1>10, <1>11 DEF SpInv

LEMMA SyncPipeNotifyInv ==
  ASSUME SpInv, NEW i \in 1 .. SpRounds, SyncPipeNotify(i) PROVE SpInv'
<1> USE SpNat DEF Closed, Named
<1> DEFINE p == kids[i].wr
           heard == Named \/ Reads(waiter, p)
           kid == IF heard THEN [pc |-> "close", rd |-> 0, wr |-> p]
                  ELSE [pc |-> "dead", rd |-> 0, wr |-> 0]
<1>0. /\ SpTypeOK /\ PipesInv /\ spMade <= Most /\ KidsInv /\ NameInv
      /\ kids[i].pc = "notify"
      /\ spRound \in 1 .. SpRounds /\ HeardItsChild /\ SameFifo
  BY DEF SpInv, SyncPipeNotify, SpTypeOK
<1>1. /\ kids' = [kids EXCEPT ![i] = kid]
      /\ spBytes' = [spBytes EXCEPT ![p] = IF heard THEN spBytes[p] + 1
                                           ELSE spBytes[p]]
      /\ told' = IF heard THEN told \cup {i} ELSE told
      /\ UNCHANGED <<spWay, spRound, waiter, spName, spMade>>
  BY <1>0 DEF SyncPipeNotify, At, SpTypeOK
<1>2. /\ i \notin told /\ i <= spRound
      /\ p \in Pipes /\ p <= spMade /\ spBytes[p] \in Nat
  BY <1>0 DEF KidsInv, SpTypeOK, PipesInv
<1>3. /\ kid.pc \in {"close", "dead"} /\ kid.rd = 0 /\ kid.wr \in {0, p}
      /\ (heard => kid.pc = "close")
      /\ kid \in [pc : KidPcs, rd : Pipes \cup {0}, wr : Pipes \cup {0}]
  BY <1>2 DEF KidPcs
<1>4. /\ kids'[i] = kid
      /\ \A j \in 1 .. SpRounds : j # i => kids'[j] = kids[j]
      /\ \A q \in Pipes : q # p => spBytes'[q] = spBytes[q]
      /\ spBytes' \in [Pipes -> Nat]
      /\ spBytes'[p] # spBytes[p] => i \in told'
      /\ told \subseteq told' /\ told' \subseteq told \cup {i}
      /\ i \in told' => kid.pc = "close"
  BY <1>0, <1>1, <1>2, <1>3 DEF SpTypeOK
<1>. HIDE DEF kid, heard
<1>6. SpTypeOK'
  BY <1>0, <1>1, <1>3, <1>4 DEF SpTypeOK, KidPcs
<1>7. KidsInv'
  BY <1>0, <1>1, <1>2, <1>3, <1>4 DEF KidsInv
<1>8. PipesInv'
  <2>1. \A q \in Pipes : q > spMade' => spBytes'[q] = 0
    BY <1>0, <1>1, <1>2, <1>4 DEF PipesInv, Pipes, SpTypeOK
  <2>2. \A j \in 1 .. SpRounds : kids'[j].wr \in {0, kids[j].wr}
    BY <1>3, <1>4
  <2>3. \A j \in 1 .. SpRounds : kids'[j].wr <= spMade'
    BY <1>0, <1>1, <2>2 DEF PipesInv, SpTypeOK
  <2>4. waiter'.rd # 0 => \A j \in 1 .. SpRounds :
                            j # spRound' => kids'[j].wr # waiter'.rd
    BY <1>0, <1>1, <2>2 DEF PipesInv
  <2>5. waiter'.rd # 0 /\ spBytes'[waiter'.rd] # 0 => spRound' \in told'
    <3> SUFFICES ASSUME waiter.rd # 0, spBytes'[waiter.rd] # 0
                 PROVE  spRound \in told'
      BY <1>1
    <3>1. waiter.rd \in Pipes
      BY <1>0 DEF SpTypeOK
    <3>2. CASE p = waiter.rd
      <4>1. i = spRound
        BY <1>0, <3>2 DEF PipesInv
      <4>2. CASE spBytes'[p] = spBytes[p]
        BY <1>0, <1>4, <3>2, <4>2 DEF PipesInv
      <4> QED BY <1>4, <4>1, <4>2
    <3>3. CASE p # waiter.rd
      BY <1>0, <1>4, <3>1, <3>3 DEF PipesInv
    <3> QED BY <3>2, <3>3
  <2> QED BY <1>0, <1>1, <2>1, <2>3, <2>4, <2>5 DEF PipesInv
<1>9. NameInv'
  BY <1>0, <1>1 DEF NameInv
<1>10. (spMade <= Most)'
  BY <1>0, <1>1, <1>3, <1>4 DEF Most, SpTypeOK
<1>11. HeardItsChild' /\ SameFifo'
  BY <1>0, <1>1, <1>2, <1>3, <1>4 DEF HeardItsChild, SameFifo
<1> QED BY <1>6, <1>7, <1>8, <1>9, <1>10, <1>11 DEF SpInv

(***************************************************************************)
(* A child that has closed or died, and maybe removed a name it may.       *)
(***************************************************************************)
LEMMA KidGoneInv ==
  ASSUME SpInv, NEW i \in 1 .. SpRounds, NEW state \in {"past", "dead"},
         kids[i].pc \in {"create", "notify", "close"},
         kids' = [kids EXCEPT ![i] = At(state, Closed, Closed)],
         spName' = spName \/ (spName' = 0 /\ spWay = "unlinks"),
         UNCHANGED <<spWay, spRound, waiter, spMade, spBytes, told>>
  PROVE  SpInv'
<1> USE SpNat DEF Closed, Named
<1>0. /\ SpTypeOK /\ PipesInv /\ spMade <= Most /\ KidsInv /\ NameInv
      /\ spRound \in 1 .. SpRounds /\ HeardItsChild /\ SameFifo
  BY DEF SpInv, SpTypeOK
<1>1. i <= spRound
  BY <1>0 DEF KidsInv
<1>2. /\ kids'[i] = [pc |-> state, rd |-> 0, wr |-> 0]
      /\ \A j \in 1 .. SpRounds : j # i => kids'[j] = kids[j]
  BY <1>0 DEF SpTypeOK, At
<1>3. SpTypeOK'
  BY <1>0 DEF SpTypeOK, At
<1>4. KidsInv'
  BY <1>0, <1>1, <1>2 DEF KidsInv
<1>5. PipesInv'
  BY <1>0, <1>2 DEF PipesInv, SpTypeOK
<1>6. NameInv'
  BY <1>0 DEF NameInv
<1>7. (spMade <= Most)'
  BY <1>0, <1>1, <1>2 DEF Most, SpTypeOK, KidsInv
<1>8. HeardItsChild' /\ SameFifo'
  BY <1>0, <1>1, <1>2 DEF HeardItsChild, SameFifo
<1> QED BY <1>3, <1>4, <1>5, <1>6, <1>7, <1>8 DEF SpInv

LEMMA SpStepInv == SpInv /\ [SpNext]_spVars => SpInv'
<1> SUFFICES ASSUME SpInv, [SpNext]_spVars PROVE SpInv'
  OBVIOUS
<1>1. CASE ParentStep
  BY <1>1, ParentCreatesInv, SpForkInv, SyncPipeWaitInv, ParentGetsInv,
     ParentClosesInv DEF ParentStep
<1>2. ASSUME NEW i \in 1 .. SpRounds, KidStep(i) PROVE SpInv'
  <2>1. CASE KidCreates(i)
    BY <2>1, KidCreatesInv
  <2>2. CASE SyncPipeNotify(i)
    BY <2>2, SyncPipeNotifyInv
  <2>3. CASE KidCloses(i)
    BY <2>3, KidGoneInv DEF KidCloses, KidUnlinks
  <2> QED BY <1>2, <2>1, <2>2, <2>3 DEF KidStep
<1>3. ASSUME NEW i \in 1 .. SpRounds, KidDies(i) PROVE SpInv'
  BY <1>3, KidGoneInv DEF KidDies
<1>4. CASE UNCHANGED spVars
  BY <1>4 DEF spVars, SpInv, SpTypeOK, Most, KidsInv, PipesInv, NameInv, Named,
       HeardItsChild, SameFifo
<1> QED BY <1>1, <1>2, <1>3, <1>4 DEF SpNext

LEMMA SpInvariant == SpInit /\ [][SpNext]_spVars => []SpInv
BY SpInitInv, SpStepInv, PTL

LEMMA SpInvTells == SpInv => SpTypeOK /\ HeardItsChild /\ SameFifo
BY DEF SpInv

(***************************************************************************)
(* The variables of the pipes keep their types: the parent and its         *)
(* children never make more than two pipes or FIFOs per child.             *)
(***************************************************************************)
THEOREM SpTypeCorrect == SpSpec => []SpTypeOK
BY SpInvTells, SpInvariant, PTL DEF SpSpec

(***************************************************************************)
(* sync_pipe_wait(): the parent goes on only when this round's child has   *)
(* notified, for any number of children and whoever dies.                  *)
(***************************************************************************)
THEOREM HeardItsChildCorrect == SpSpec => []HeardItsChild
BY SpInvTells, SpInvariant, PTL DEF SpSpec

(***************************************************************************)
(* sync_pipe_create() by name: the child finds the FIFO its parent waits   *)
(* at, as long as no earlier child removes the name.                       *)
(***************************************************************************)
THEOREM SameFifoCorrect == SpSpec => []SameFifo
BY SpInvTells, SpInvariant, PTL DEF SpSpec

-----------------------------------------------------------------------------

(* The fields of a copy, as the steps of forker() change them.             *)
Copy == [pc : CopyStates, cnt : 1 .. FkCopies, kid : CopyNos,
         npids : CopyNos, pids : [Places -> CopyNos], ret : CopyNos, ind : Nat,
         failed : BOOLEAN, sent : BOOLEAN, handler : BOOLEAN, pending : BOOLEAN]

FkTypes ==
  fkMode \in {0, 1} /\ fkMax \in FkSizes /\ copies \in [CopyNos -> Copy]

(* The one process that will go on with the loop of forker().              *)
Active(p, c) == \/ c.pc = "forker"
                \/ c.pc \in {"count", "store"} /\ ((c.kid = p) = (fkMode = 1))

(* The number of the process that was forked last.                         *)
Newest(c) == IF c.pc = "forker" THEN c.cnt - 1 ELSE c.cnt

ActiveInv ==
  \A p \in CopyNos : Active(p, copies[p]) =>
    /\ \A q \in CopyNos : Active(q, copies[q]) => p = q
    /\ \A q \in CopyNos : Forked(q) <=> q <= Newest(copies[p])

PidsInv(c) ==
  \A i \in Places :
    /\ c.pids[i] \in {0, i}
    /\ i > c.npids => c.pids[i] = 0
    /\ i < fkMax /\ (i < c.npids \/ (i = c.npids /\ c.pc \in {"forker", "count", "copy"}))
         => c.pids[i] = i

(* What a process has counted, at each point of forker().                  *)
CountInv(p, c) ==
  /\ c.pc = "forker" => /\ c.cnt = c.npids + 1
                        /\ p = IF fkMode = 0 THEN 0 ELSE c.npids
  /\ c.pc = "count" => /\ c.cnt = c.npids + 1 /\ c.kid = c.cnt
                       /\ p \in {c.cnt, IF fkMode = 0 THEN 0 ELSE c.npids}
                       /\ c.cnt < FkCopies
  /\ c.pc = "store" => /\ c.cnt = c.npids /\ c.kid = c.cnt
                       /\ p \in {c.cnt, IF fkMode = 0 THEN 0 ELSE c.npids - 1}
                       /\ c.cnt < FkCopies

CopyInv(p, c) ==
  c.pc = "copy" =>
    /\ c.npids >= p /\ c.npids <= c.cnt
    /\ c.ret = IF p > 0 THEN IF fkMode = 1 /\ c.npids = p /\ p < FkCopies - 1
                             THEN 0 ELSE p
               ELSE IF fkMode = 1 THEN 0 ELSE c.npids

EachInv == \A p \in CopyNos : /\ PidsInv(copies[p])
                              /\ CountInv(p, copies[p])
                              /\ CopyInv(p, copies[p])

(* In a chain a copy that has a successor has forked it itself.            *)
Follows(p, c) ==
  fkMode = 1 /\ c.pc = "copy" => \A q \in CopyNos : p < q /\ Forked(q) => c.npids > p

ChainInv == \A p \in CopyNos : Follows(p, copies[p])

FkInv == FkTypes /\ ActiveInv /\ EachInv /\ ChainInv

LEMMA FkNat == FkCopies \in Nat /\ FkCopies >= 1 /\ FkSizes \subseteq Nat \ {0}
BY FkAssumption

LEMMA FkTypesSame == FkTypes <=> FkTypeOK
BY DEF FkTypes, FkTypeOK, Copy

LEMMA FkInitInv == FkInit => FkInv
<1> SUFFICES ASSUME FkInit PROVE FkInv
  OBVIOUS
<1> USE FkNat DEF CopyNos
<1>1. Original \in Copy
  BY DEF Original, Copy, CopyStates
<1>2. /\ copies[0] = Original
      /\ \A p \in CopyNos \ {0} : copies[p] = [Original EXCEPT !.pc = "none"]
      /\ fkMode \in {0, 1}
  BY DEF FkInit
<1>3. /\ Original.pc = "forker" /\ Original.cnt = 1
      /\ \A p \in CopyNos \ {0} : copies[p].pc = "none"
      /\ \A p \in CopyNos : /\ copies[p].npids = 0
                            /\ \A i \in Places : copies[p].pids[i] = 0
  BY <1>2 DEF Original
<1>4. FkTypes
  <2>1. [Original EXCEPT !.pc = "none"] \in Copy
    BY <1>1 DEF Copy, CopyStates
  <2> QED BY <1>1, <2>1 DEF FkInit, FkTypes
<1>5. ActiveInv
  BY <1>2, <1>3 DEF ActiveInv, Active, Newest, Forked
<1>6. EachInv
  <2>1. \A p \in CopyNos : PidsInv(copies[p])
    BY <1>3, FkNat DEF PidsInv, Places, FkInit
  <2>2. \A p \in CopyNos : CountInv(p, copies[p]) /\ CopyInv(p, copies[p])
    BY <1>2, <1>3 DEF CountInv, CopyInv
  <2> QED BY <2>1, <2>2 DEF EachInv
<1>7. ChainInv
  BY <1>2, <1>3 DEF ChainInv, Follows, Forked
<1> QED BY <1>4, <1>5, <1>6, <1>7 DEF FkInv

-----------------------------------------------------------------------------

(***************************************************************************)
(* Steps in which no process gets on in the loop of forker(): one leaves   *)
(* it or is behind it, the others at most have a signal more.              *)
(***************************************************************************)
Behind == {"copy", "notify", "exited"}

Alike(c, d) == /\ d.pc = c.pc /\ d.cnt = c.cnt /\ d.kid = c.kid
               /\ d.npids = c.npids /\ d.pids = c.pids /\ d.ret = c.ret

LEMMA LeavesLoop ==
  ASSUME FkInv, UNCHANGED fkConfig, copies' \in [CopyNos -> Copy],
         \A q \in CopyNos :
           \/ Alike(copies[q], copies'[q])
           \/ /\ Forked(q) /\ copies'[q].pc \in Behind
              /\ PidsInv(copies'[q]) /\ CopyInv(q, copies'[q])
              /\ Follows(q, copies'[q])
  PROVE  FkInv'
<1>0. /\ fkMode' = fkMode /\ fkMax' = fkMax
      /\ Places' = Places /\ Copy' = Copy
  BY DEF fkConfig, Places, Copy
<1>1. FkTypes'
  BY <1>0 DEF FkInv, FkTypes
<1>2. \A q \in CopyNos :
        /\ Forked(q)' <=> Forked(q)
        /\ Active(q, copies[q])' => /\ Active(q, copies[q])
                                    /\ Newest(copies'[q]) = Newest(copies[q])
  BY <1>0 DEF Forked, Active, Newest, Alike, Behind
<1>3. ActiveInv'
  BY <1>2 DEF FkInv, ActiveInv, Newest
<1>4. EachInv'
  <2> SUFFICES ASSUME NEW q \in CopyNos
               PROVE  /\ PidsInv(copies[q])' /\ CountInv(q, copies[q])'
                      /\ CopyInv(q, copies[q])'
    BY DEF EachInv
  <2>1. PidsInv(copies[q]) /\ CountInv(q, copies[q]) /\ CopyInv(q, copies[q])
    BY DEF FkInv, EachInv
  <2>2. CASE Alike(copies[q], copies'[q])
    BY <1>0, <2>1, <2>2 DEF Alike, PidsInv, CountInv, CopyInv
  <2>3. CASE /\ copies'[q].pc \in Behind
             /\ PidsInv(copies'[q]) /\ CopyInv(q, copies'[q])
    BY <1>0, <2>3 DEF Behind, PidsInv, CountInv, CopyInv
  <2> QED BY <2>2, <2>3
<1>5. ChainInv'
  <2> SUFFICES ASSUME NEW q \in CopyNos PROVE Follows(q, copies[q])'
    BY DEF ChainInv
  <2>1. Follows(q, copies'[q])
    BY DEF FkInv, ChainInv, Follows, Alike
  <2> QED BY <1>0, <1>2, <2>1 DEF Follows
<1> QED BY <1>1, <1>3, <1>4, <1>5 DEF FkInv

LEMMA OneLeaves ==
  ASSUME FkInv, UNCHANGED fkConfig, NEW p \in CopyNos, Forked(p),
         NEW d \in Copy, d.pc \in Behind, PidsInv(d), CopyInv(p, d),
         Follows(p, d), copies' = [copies EXCEPT ![p] = d]
  PROVE  FkInv'
<1>1. copies \in [CopyNos -> Copy]
  BY DEF FkInv, FkTypes
<1>2. copies' \in [CopyNos -> Copy] /\ copies'[p] = d
      /\ \A q \in CopyNos : q # p => copies'[q] = copies[q]
  BY <1>1
<1>3. \A q \in CopyNos : q # p => Alike(copies[q], copies'[q])
  BY <1>2 DEF Alike
<1> QED BY <1>2, <1>3, LeavesLoop

(* What one copy is known to be.                                           *)
LEMMA OneCopy ==
  ASSUME FkInv, NEW p \in CopyNos
  PROVE  /\ copies[p] \in Copy /\ copies \in [CopyNos -> Copy]
         /\ PidsInv(copies[p]) /\ CountInv(p, copies[p])
         /\ CopyInv(p, copies[p]) /\ Follows(p, copies[p])
         /\ copies[p].npids \in Nat /\ copies[p].cnt \in Nat
         /\ fkMode \in {0, 1} /\ fkMax \in Nat
<1>1. copies[p] \in Copy /\ copies \in [CopyNos -> Copy]
      /\ fkMode \in {0, 1} /\ fkMax \in FkSizes
  BY DEF FkInv, FkTypes
<1>2. PidsInv(copies[p]) /\ CountInv(p, copies[p]) /\ CopyInv(p, copies[p])
      /\ Follows(p, copies[p])
  BY DEF FkInv, EachInv, ChainInv
<1>3. copies[p].npids \in Nat /\ copies[p].cnt \in Nat
  BY <1>1, FkNat DEF Copy, CopyNos
<1> QED BY <1>1, <1>2, <1>3, FkNat

(* A process in the loop is the newest, and in a chain nobody follows it.  *)
LEMMA LoopNewest ==
  ASSUME FkInv, NEW p \in CopyNos, copies[p].pc = "forker"
  PROVE  /\ \A q \in CopyNos : Forked(q) <=> q <= copies[p].cnt - 1
         /\ \A q \in CopyNos : Active(q, copies[q]) => q = p
         /\ fkMode = 1 => \A q \in CopyNos : ~ (p < q /\ Forked(q))
<1>1. Active(p, copies[p]) /\ Newest(copies[p]) = copies[p].cnt - 1
  BY DEF Active, Newest
<1>2. /\ \A q \in CopyNos : Forked(q) <=> q <= copies[p].cnt - 1
      /\ \A q \in CopyNos : Active(q, copies[q]) => q = p
  BY <1>1 DEF FkInv, ActiveInv
<1>3. fkMode = 1 => p = copies[p].cnt - 1
  BY OneCopy DEF CountInv
<1> QED BY <1>2, <1>3, FkNat DEF CopyNos

(* forker() returns r.                                                     *)
LEMMA ReturnsCopy ==
  ASSUME NEW c \in Copy, NEW r \in CopyNos
  PROVE  LET d == [c EXCEPT !.pc = "copy", !.ret = r] IN
         /\ d \in Copy /\ d.pc = "copy" /\ d.ret = r
         /\ d.npids = c.npids /\ d.pids = c.pids /\ d.cnt = c.cnt
BY DEF Copy, CopyStates

LEMMA FailsInv ==
  ASSUME FkInv, NEW p \in CopyNos, FkForkFails(p) \/ FkReturns(p) PROVE FkInv'
<1> USE FkNat DEF CopyNos
<1> DEFINE c == copies[p]
           r == IF FkForkFails(p) /\ fkMode = 1 THEN 0 ELSE c.cnt - 1
           d == [c EXCEPT !.pc = "copy", !.ret = r]
<1>1. /\ c \in Copy /\ PidsInv(c) /\ CountInv(p, c)
      /\ c.npids \in Nat /\ c.cnt \in Nat
      /\ copies \in [CopyNos -> Copy] /\ fkMode \in {0, 1}
  BY OneCopy
<1>2. /\ c.pc = "forker" /\ UNCHANGED fkConfig
      /\ (FkForkFails(p) /\ c.cnt < FkCopies) \/ (~ FkForkFails(p) /\ c.cnt = FkCopies)
      /\ copies' = [copies EXCEPT ![p] = d]
  BY <1>1 DEF FkForkFails, FkReturns, Made
<1>3. d \in Copy /\ d.pc = "copy" /\ d.pids = c.pids /\ d.npids = c.npids
      /\ d.cnt = c.cnt /\ d.ret = r
  <2>1. r \in CopyNos
    BY <1>1, <1>2 DEF Copy
  <2>. HIDE DEF r, CopyNos
  <2> QED BY <1>1, <2>1, ReturnsCopy
<1>4. c.cnt = c.npids + 1 /\ p = IF fkMode = 0 THEN 0 ELSE c.npids
  BY <1>1, <1>2 DEF CountInv
<1>. HIDE DEF d
<1>5. PidsInv(d) /\ Forked(p) /\ Follows(p, d)
  <2>1. PidsInv(d)
    BY <1>1, <1>2, <1>3 DEF PidsInv
  <2> QED BY <1>2, <1>3, <2>1, LoopNewest DEF Forked, Follows
<1>6. CopyInv(p, d)
  BY <1>1, <1>2, <1>3, <1>4 DEF CopyInv
<1> QED BY <1>2, <1>3, <1>5, <1>6, OneLeaves DEF Behind

(***************************************************************************)
(* What a copy does once it has returned, or a signal has taken it out of  *)
(* forker(): its pids stay as they are.                                    *)
(***************************************************************************)
LEMMA EndsInv ==
  ASSUME FkInv, UNCHANGED fkConfig, NEW p \in CopyNos, Forked(p),
         NEW d \in Copy, d.pc \in {"notify", "exited"},
         d.pids = copies[p].pids, d.npids = copies[p].npids,
         copies' = [copies EXCEPT ![p] = d]
  PROVE  FkInv'
<1>1. PidsInv(d)
  BY OneCopy DEF PidsInv
<1>2. CopyInv(p, d) /\ Follows(p, d)
  BY DEF CopyInv, Follows
<1> QED BY <1>1, <1>2, OneLeaves DEF Behind

LEMMA StoppingCopy ==
  ASSUME NEW c \in Copy
  PROVE  /\ Stopping(c) \in Copy
         /\ Stopping(c).pids = c.pids /\ Stopping(c).npids = c.npids
<1>1. 1 \in 1 .. FkCopies /\ 0 \in CopyNos
  BY FkNat DEF CopyNos
<1> QED BY <1>1 DEF Stopping, Copy

LEMMA GoneCopy ==
  ASSUME NEW c \in Copy
  PROVE  /\ Gone(c) \in Copy /\ Gone(c).pc = "exited"
         /\ Gone(c).pids = c.pids /\ Gone(c).npids = c.npids
<1> DEFINE b == Stopping(c)
           d == [b EXCEPT !.pc = "exited", !.ind = 1, !.handler = FALSE,
                          !.pending = FALSE]
<1>1. b \in Copy /\ b.pids = c.pids /\ b.npids = c.npids
  BY StoppingCopy
<1>2. d \in Copy /\ d.pc = "exited" /\ d.pids = c.pids /\ d.npids = c.npids
  <2>. HIDE DEF b
  <2> QED BY <1>1 DEF Copy, CopyStates
<1> QED BY <1>2 DEF Gone

LEMMA NotifiesCopy ==
  ASSUME NEW c \in Copy
  PROVE  /\ Notifies(c) \in Copy /\ Notifies(c).pc \in {"notify", "exited"}
         /\ Notifies(c).pids = c.pids /\ Notifies(c).npids = c.npids
<1> DEFINE b == Stopping(c)
           d == [b EXCEPT !.pc = "notify", !.sent = TRUE]
<1>1. b \in Copy /\ b.pids = c.pids /\ b.npids = c.npids
  BY StoppingCopy
<1>2. d \in Copy /\ d.pc = "notify" /\ d.pids = c.pids /\ d.npids = c.npids
  <2>. HIDE DEF b
  <2> QED BY <1>1 DEF Copy, CopyStates
<1> QED BY <1>2, GoneCopy DEF Notifies

LEMMA CopyEndsInv ==
  ASSUME FkInv, NEW p \in CopyNos,
         FkFails(p) \/ FkDone(p) \/ FkExits(p) \/ SigHandler(p)
  PROVE  FkInv'
<1> DEFINE c == copies[p]
<1>1. c \in Copy /\ copies \in [CopyNos -> Copy]
  BY OneCopy
<1>2. CASE FkFails(p)
  <2> DEFINE b == [c EXCEPT !.failed = TRUE]
             d == Notifies(b)
  <2>1. b \in Copy /\ b.pids = c.pids /\ b.npids = c.npids
    BY <1>1 DEF Copy
  <2>2. d \in Copy /\ d.pc \in {"notify", "exited"} /\ d.pids = c.pids
        /\ d.npids = c.npids
    BY <2>1, NotifiesCopy
  <2>3. copies' = [copies EXCEPT ![p] = d] /\ Forked(p) /\ UNCHANGED fkConfig
    BY <1>2 DEF FkFails, Forked
  <2>. HIDE DEF d
  <2> QED BY <2>2, <2>3, EndsInv
<1>3. CASE FkDone(p) \/ FkExits(p)
  <2>1. Gone(c) \in Copy /\ Gone(c).pc = "exited" /\ Gone(c).pids = c.pids
        /\ Gone(c).npids = c.npids
    BY <1>1, GoneCopy
  <2>2. copies' = [copies EXCEPT ![p] = Gone(c)] /\ Forked(p) /\ UNCHANGED fkConfig
    BY <1>3 DEF FkDone, FkExits, Forked
  <2> QED BY <2>1, <2>2, EndsInv
<1>4. CASE SigHandler(p)
  <2> DEFINE b == [c EXCEPT !.handler = TRUE, !.pending = FALSE]
             d == Notifies(b)
  <2>1. b \in Copy /\ b.pids = c.pids /\ b.npids = c.npids
    BY <1>1 DEF Copy
  <2>2. d \in Copy /\ d.pc \in {"notify", "exited"} /\ d.pids = c.pids
        /\ d.npids = c.npids
    BY <2>1, NotifiesCopy
  <2>3. copies' = [copies EXCEPT ![p] = d] /\ Forked(p) /\ UNCHANGED fkConfig
    BY <1>4 DEF SigHandler, Forked, Runs
  <2>. HIDE DEF d
  <2> QED BY <2>2, <2>3, EndsInv
<1> QED BY <1>2, <1>3, <1>4

LEMMA SendsInv == ASSUME FkInv, NEW p \in CopyNos, Sends(p) PROVE FkInv'
<1> DEFINE c == copies[p]
<1>1. c \in Copy /\ copies \in [CopyNos -> Copy] /\ PidsInv(c)
  BY OneCopy
<1>2. PICK hit \in Targets(c, c.ind) :
        copies' = [q \in CopyNos |->
           IF q = p
           THEN IF p \in hit /\ ~ c.handler THEN Gone(c)
                ELSE [c EXCEPT !.ind = @ + 1]
           ELSE IF q \in hit /\ Runs(copies[q])
                THEN [copies[q] EXCEPT !.pending = TRUE] ELSE copies[q]]
  BY DEF Sends
<1>3. c.pc = "notify" /\ UNCHANGED fkConfig
  BY DEF Sends
<1>4. /\ Gone(c) \in Copy /\ Gone(c).pc = "exited" /\ Gone(c).pids = c.pids
      /\ Gone(c).npids = c.npids
      /\ [c EXCEPT !.ind = @ + 1] \in Copy
      /\ Alike(c, [c EXCEPT !.ind = @ + 1])
  BY <1>1, GoneCopy DEF Copy, Alike
<1>5. ASSUME NEW q \in CopyNos
      PROVE  /\ [copies[q] EXCEPT !.pending = TRUE] \in Copy
             /\ Alike(copies[q], [copies[q] EXCEPT !.pending = TRUE])
  <2>1. copies[q] \in Copy
    BY <1>1
  <2> QED BY <2>1 DEF Copy, Alike
<1>6. copies' \in [CopyNos -> Copy]
  BY <1>1, <1>2, <1>4, <1>5
<1>7. ASSUME NEW q \in CopyNos
      PROVE  \/ Alike(copies[q], copies'[q])
             \/ /\ Forked(q) /\ copies'[q].pc \in Behind
                /\ PidsInv(copies'[q]) /\ CopyInv(q, copies'[q])
                /\ Follows(q, copies'[q])
  <2>1. CASE q = p /\ copies'[q] = Gone(c)
    BY <1>1, <1>3, <1>4, <2>1 DEF Forked, Behind, PidsInv, CopyInv, Follows
  <2>2. CASE q = p /\ copies'[q] = [c EXCEPT !.ind = @ + 1]
    BY <1>4, <2>2
  <2>3. CASE q # p /\ copies'[q] = copies[q]
    BY <2>3 DEF Alike
  <2>4. CASE copies'[q] = [copies[q] EXCEPT !.pending = TRUE]
    BY <1>5, <2>4
  <2> QED BY <1>2, <2>1, <2>2, <2>3, <2>4
<1> QED BY <1>3, <1>6, <1>7, LeavesLoop

-----------------------------------------------------------------------------

(***************************************************************************)
(* fork(): the new process is the next one; of the two sides the one that  *)
(* goes on with the loop is now active.                                    *)
(***************************************************************************)
LEMMA ForkInv == ASSUME FkInv, NEW p \in CopyNos, FkFork(p) PROVE FkInv'
<1> USE FkNat DEF CopyNos
<1> DEFINE c == copies[p]
<1>1. /\ c \in Copy /\ PidsInv(c) /\ CountInv(p, c)
      /\ c.npids \in Nat /\ c.cnt \in Nat
      /\ copies \in [CopyNos -> Copy] /\ fkMode \in {0, 1}
  BY OneCopy
<1>2. PICK q \in CopyNos :
        /\ c.pc = "forker" /\ c.cnt < FkCopies
        /\ ~ Forked(q) /\ \A r \in 0 .. q - 1 : Forked(r)
        /\ copies' = [copies EXCEPT
             ![p] = [c EXCEPT !.pc = "count", !.kid = q],
             ![q] = [c EXCEPT !.pc = "count", !.kid = q, !.pending = FALSE]]
        /\ UNCHANGED fkConfig
  BY <1>1 DEF FkFork
<1>3. /\ c.cnt = c.npids + 1
      /\ p = IF fkMode = 0 THEN 0 ELSE c.npids
  BY <1>1, <1>2 DEF CountInv
<1>4. /\ \A r \in CopyNos : Forked(r) <=> r <= c.cnt - 1
      /\ \A r \in CopyNos : Active(r, copies[r]) => r = p
  BY <1>2, LoopNewest
<1>5. q = c.cnt /\ q # p
  <2>1. q > c.cnt - 1
    BY <1>1, <1>2, <1>3, <1>4
  <2>2. ~ c.cnt < q
    BY <1>1, <1>2, <1>3, <1>4
  <2>3. q = c.cnt /\ q \in Nat
    BY <1>1, <1>3, <2>1, <2>2
  <2>4. p <= c.cnt - 1
    BY <1>2, <1>4 DEF Forked
  <2> QED BY <1>1, <1>3, <2>3, <2>4
<1> DEFINE f == [c EXCEPT !.pc = "count", !.kid = q]
           k == [c EXCEPT !.pc = "count", !.kid = q, !.pending = FALSE]
<1>6. f \in Copy /\ k \in Copy
  <2>. HIDE DEF CopyNos
  <2> QED BY <1>1, <1>2 DEF Copy, CopyStates
<1>7. /\ f.pc = "count" /\ f.kid = q /\ f.cnt = c.cnt /\ f.pids = c.pids
      /\ k.pc = "count" /\ k.kid = q /\ k.cnt = c.cnt /\ k.pids = c.pids
      /\ f.npids = c.npids /\ k.npids = c.npids
  BY <1>1 DEF Copy
<1>. HIDE DEF f, k
<1>8. /\ copies' \in [CopyNos -> Copy]
      /\ copies'[p] = f /\ copies'[q] = k
      /\ \A r \in CopyNos \ {p, q} : copies'[r] = copies[r]
      /\ fkMode' = fkMode /\ fkMax' = fkMax /\ Places' = Places /\ Copy' = Copy
  BY <1>1, <1>2, <1>5, <1>6 DEF f, k, fkConfig, Places, Copy
<1>9. \A r \in CopyNos : Forked(r)' <=> r <= c.cnt
  <2> SUFFICES ASSUME NEW r \in CopyNos PROVE Forked(r)' <=> r <= c.cnt
    OBVIOUS
  <2>1. CASE r \in {p, q}
    BY <1>1, <1>2, <1>3, <1>4, <1>5, <1>7, <1>8, <2>1 DEF Forked
  <2>2. CASE r \notin {p, q}
    BY <1>1, <1>3, <1>4, <1>5, <1>8, <2>2 DEF Forked
  <2> QED BY <2>1, <2>2
<1>10. ActiveInv'
  <2>1. \A r \in CopyNos : Active(r, copies[r])' =>
          /\ r = IF fkMode = 0 THEN p ELSE q
          /\ Newest(copies[r])' = c.cnt
    <3> SUFFICES ASSUME NEW r \in CopyNos, Active(r, copies[r])'
                 PROVE  /\ r = IF fkMode = 0 THEN p ELSE q
                        /\ Newest(copies[r])' = c.cnt
      OBVIOUS
    <3>1. r \in {p, q}
      BY <1>4, <1>8 DEF Active
    <3>2. copies'[r].pc = "count" /\ copies'[r].kid = q /\ copies'[r].cnt = c.cnt
      BY <1>7, <1>8, <3>1
    <3>3. (q = r) = (fkMode = 1)
      BY <1>8, <3>2 DEF Active
    <3>4. r = IF fkMode = 0 THEN p ELSE q
      BY <1>1, <1>5, <3>1, <3>3
    <3> QED BY <3>2, <3>4 DEF Newest
  <2>. HIDE DEF CopyNos
  <2> QED BY <1>9, <2>1 DEF ActiveInv
<1>11. EachInv'
  <2> SUFFICES ASSUME NEW r \in CopyNos
               PROVE  /\ PidsInv(copies[r])' /\ CountInv(r, copies[r])'
                      /\ CopyInv(r, copies[r])'
    BY DEF EachInv
  <2>1. CASE r \in {p, q}
    <3>1. copies'[r].pc = "count" /\ copies'[r].kid = q /\ copies'[r].cnt = c.cnt
          /\ copies'[r].npids = c.npids /\ copies'[r].pids = c.pids
      BY <1>7, <1>8, <2>1
    <3>2. PidsInv(copies[r])'
      BY <1>1, <1>2, <1>8, <3>1 DEF PidsInv
    <3>3. CountInv(r, copies[r])' /\ CopyInv(r, copies[r])'
      BY <1>1, <1>2, <1>3, <1>5, <1>8, <2>1, <3>1 DEF CountInv, CopyInv
    <3> QED BY <3>2, <3>3
  <2>2. CASE r \notin {p, q}
    <3>1. PidsInv(copies[r]) /\ CountInv(r, copies[r]) /\ CopyInv(r, copies[r])
      BY OneCopy
    <3>2. copies'[r] = copies[r]
      BY <1>8, <2>2
    <3> QED BY <1>8, <3>1, <3>2 DEF PidsInv, CountInv, CopyInv
  <2> QED BY <2>1, <2>2
<1>12. ChainInv'
  <2> SUFFICES ASSUME NEW r \in CopyNos, NEW s \in CopyNos,
                      fkMode = 1, copies'[r].pc = "copy", r < s, Forked(s)'
               PROVE  copies'[r].npids > r
    BY <1>8 DEF ChainInv, Follows
  <2>1. r \notin {p, q} /\ copies'[r] = copies[r]
    BY <1>7, <1>8
  <2>2. r < p /\ Forked(p)
    BY <1>1, <1>2, <1>3, <1>5, <1>9, <2>1 DEF Forked
  <2> QED BY <2>1, <2>2, OneCopy DEF Follows
<1> QED BY <1>1, <1>8, <1>10, <1>11, <1>12 DEF FkInv, FkTypes

-----------------------------------------------------------------------------

(***************************************************************************)
(* A step of one process between fork() and the next turn of the loop: who *)
(* goes on with it, and who has been forked, stay the same.                *)
(***************************************************************************)
LEMMA StaysInLoop ==
  ASSUME FkInv, UNCHANGED fkConfig, NEW p \in CopyNos, Forked(p),
         NEW d \in Copy, d.pc \in {"forker", "store"},
         Active(p, d) => Active(p, copies[p]) /\ Newest(d) = Newest(copies[p]),
         PidsInv(d), CountInv(p, d), copies' = [copies EXCEPT ![p] = d]
  PROVE  FkInv'
<1>1. /\ copies' \in [CopyNos -> Copy] /\ copies'[p] = d
      /\ \A q \in CopyNos \ {p} : copies'[q] = copies[q]
      /\ fkMode' = fkMode /\ fkMax' = fkMax /\ Places' = Places /\ Copy' = Copy
  BY OneCopy DEF fkConfig, Places, Copy
<1>2. \A q \in CopyNos :
        /\ Forked(q)' <=> Forked(q)
        /\ Active(q, copies[q])' => /\ Active(q, copies[q])
                                    /\ Newest(copies[q])' = Newest(copies[q])
  BY <1>1 DEF Forked, Active, Newest
<1>3. ActiveInv'
  BY <1>2 DEF FkInv, ActiveInv
<1>4. EachInv'
  <2> SUFFICES ASSUME NEW q \in CopyNos
               PROVE  /\ PidsInv(copies[q])' /\ CountInv(q, copies[q])'
                      /\ CopyInv(q, copies[q])'
    BY DEF EachInv
  <2>1. CASE q = p
    BY <1>1, <2>1 DEF PidsInv, CountInv, CopyInv
  <2>2. CASE q # p
    <3>1. PidsInv(copies[q]) /\ CountInv(q, copies[q]) /\ CopyInv(q, copies[q])
      BY OneCopy
    <3>2. copies'[q] = copies[q]
      BY <1>1, <2>2
    <3> QED BY <1>1, <3>1, <3>2 DEF PidsInv, CountInv, CopyInv
  <2> QED BY <2>1, <2>2
<1>5. ChainInv'
  BY <1>1, <1>2 DEF FkInv, ChainInv, Follows
<1> QED BY <1>1, <1>3, <1>4, <1>5 DEF FkInv, FkTypes

LEMMA CountsInv == ASSUME FkInv, NEW p \in CopyNos, FkCount(p) PROVE FkInv'
<1> USE FkNat DEF CopyNos
<1> DEFINE c == copies[p]
           d == [c EXCEPT !.pc = "store", !.npids = @ + 1]
<1>1. /\ c \in Copy /\ PidsInv(c) /\ CountInv(p, c)
      /\ c.npids \in Nat /\ c.cnt \in Nat /\ fkMax \in Nat
      /\ copies \in [CopyNos -> Copy] /\ fkMode \in {0, 1}
  BY OneCopy
<1>2. /\ c.pc = "count" /\ UNCHANGED fkConfig
      /\ copies' = [copies EXCEPT ![p] = d]
  BY <1>1 DEF FkCount
<1>3. c.cnt = c.npids + 1 /\ c.kid = c.cnt /\ c.cnt < FkCopies
  BY <1>1, <1>2 DEF CountInv
<1>4. /\ d \in Copy /\ d.pc = "store" /\ d.npids = c.npids + 1
      /\ d.cnt = c.cnt /\ d.kid = c.kid /\ d.pids = c.pids
  <2>1. c.npids + 1 \in CopyNos
    BY <1>1, <1>3
  <2>. HIDE DEF CopyNos
  <2> QED BY <1>1, <2>1 DEF Copy, CopyStates
<1>. HIDE DEF d
<1>5. PidsInv(d)
  BY <1>1, <1>2, <1>4 DEF PidsInv, Places
<1>6. CountInv(p, d)
  BY <1>1, <1>2, <1>3, <1>4 DEF CountInv
<1>7. Forked(p) /\ (Active(p, d) => Active(p, c)) /\ Newest(d) = Newest(c)
  BY <1>2, <1>4 DEF Forked, Active, Newest
<1> QED BY <1>2, <1>4, <1>5, <1>6, <1>7, StaysInLoop

(***************************************************************************)
(* The entry is the number of the new process, on both sides.              *)
(***************************************************************************)
LEMMA StoreInv == ASSUME FkInv, NEW p \in CopyNos, FkStore(p) PROVE FkInv'
<1> USE FkNat DEF CopyNos
<1> DEFINE c == copies[p]
           s == IF c.npids < fkMax THEN [c.pids EXCEPT ![c.npids] = c.kid]
                ELSE c.pids
           b == [c EXCEPT !.pids = s]
           on == (c.kid = p) = (fkMode = 1)
           g == [b EXCEPT !.pc = "forker", !.cnt = @ + 1]
           r == IF fkMode = 1 THEN c.cnt - 1 ELSE c.cnt
           h == [b EXCEPT !.pc = "copy", !.ret = r]
<1>1. /\ c \in Copy /\ PidsInv(c) /\ CountInv(p, c)
      /\ c.npids \in Nat /\ c.cnt \in Nat /\ fkMax \in Nat
      /\ copies \in [CopyNos -> Copy] /\ fkMode \in {0, 1}
  BY OneCopy
<1>2. /\ c.cnt = c.npids /\ c.kid = c.npids /\ c.cnt < FkCopies
      /\ p \in {c.npids, IF fkMode = 0 THEN 0 ELSE c.npids - 1}
      /\ c.pc = "store" /\ UNCHANGED fkConfig /\ c.npids >= 1
  BY <1>1 DEF FkStore, CountInv, Copy
<1>3. /\ s \in [Places -> CopyNos]
      /\ \A i \in Places : s[i] = IF i = c.npids /\ i < fkMax THEN i ELSE c.pids[i]
  BY <1>1, <1>2 DEF Copy, Places
<1>4. c = [c EXCEPT !.pids = c.pids]
  BY <1>1 DEF Copy
<1>5. copies' = [copies EXCEPT ![p] = IF on THEN g ELSE h]
  BY <1>1, <1>4 DEF FkStore, Stored, ReturnsNow, Made
<1>6. r \in CopyNos /\ c.cnt + 1 \in 1 .. FkCopies
  BY <1>1, <1>2
<1>. HIDE DEF s, r, CopyNos
<1>7. /\ b \in Copy /\ b.cnt = c.cnt /\ b.pids = s /\ b.npids = c.npids
      /\ b.kid = c.kid
  BY <1>1, <1>3 DEF Copy
<1>. HIDE DEF b
<1>8. /\ g \in Copy /\ g.pc = "forker" /\ g.cnt = c.cnt + 1 /\ g.pids = s
      /\ g.npids = c.npids
  BY <1>6, <1>7 DEF Copy, CopyStates
<1>9. /\ h \in Copy /\ h.pc = "copy" /\ h.cnt = c.cnt /\ h.pids = s
      /\ h.npids = c.npids /\ h.ret = r
  BY <1>6, <1>7, ReturnsCopy
<1>. HIDE DEF g, h
<1>10. PidsInv(g) /\ PidsInv(h)
  BY <1>1, <1>2, <1>3, <1>8, <1>9 DEF PidsInv, Places
<1>11. CASE ~ on
  <2>1. copies' = [copies EXCEPT ![p] = h] /\ Forked(p)
    BY <1>2, <1>5, <1>11 DEF Forked
  <2>2. p = IF fkMode = 0 THEN c.npids ELSE c.npids - 1
    BY <1>1, <1>2, <1>11 DEF CopyNos
  <2>3. CopyInv(p, h) /\ Follows(p, h)
    BY <1>1, <1>2, <1>9, <2>2 DEF CopyInv, Follows, r, CopyNos
  <2> QED BY <1>2, <1>9, <1>10, <2>1, <2>3, OneLeaves DEF Behind
<1>12. CASE on
  <2>1. copies' = [copies EXCEPT ![p] = g] /\ Forked(p)
    BY <1>2, <1>5, <1>12 DEF Forked
  <2>2. p = IF fkMode = 0 THEN 0 ELSE c.npids
    BY <1>1, <1>2, <1>12 DEF CopyNos
  <2>3. CountInv(p, g)
    BY <1>1, <1>2, <1>8, <2>2 DEF CountInv
  <2>4. Active(p, c) /\ Newest(g) = Newest(c)
    BY <1>1, <1>2, <1>8, <1>12 DEF Active, Newest
  <2> QED BY <1>2, <1>8, <1>10, <2>1, <2>3, <2>4, StaysInLoop
<1> QED BY <1>11, <1>12

-----------------------------------------------------------------------------

LEMMA FkStepInv == FkInv /\ [FkNext]_fkVars => FkInv'
<1> SUFFICES ASSUME FkInv, [FkNext]_fkVars PROVE FkInv'
  OBVIOUS
<1>1. ASSUME NEW p \in CopyNos, FkStep(p) PROVE FkInv'
  BY <1>1, ForkInv, CountsInv, StoreInv, FailsInv, CopyEndsInv, SendsInv DEF FkStep
<1>2. ASSUME NEW p \in CopyNos, FkForkFails(p) \/ FkFails(p) \/ FkDone(p)
      PROVE  FkInv'
  BY <1>2, FailsInv, CopyEndsInv
<1>3. CASE UNCHANGED fkVars
  <2>1. UNCHANGED fkConfig /\ copies' = copies
    BY <1>3 DEF fkVars
  <2>2. copies' \in [CopyNos -> Copy]
    BY <2>1 DEF FkInv, FkTypes
  <2>3. \A q \in CopyNos : Alike(copies[q], copies'[q])
    BY <2>1 DEF Alike
  <2> QED BY <2>1, <2>2, <2>3, LeavesLoop
<1> QED BY <1>1, <1>2, <1>3 DEF FkNext

LEMMA FkInvariant == FkInit /\ [][FkNext]_fkVars => []FkInv
BY FkInitInv, FkStepInv, PTL

LEMMA FkInvTells == FkInv => FkTypeOK /\ KnowsTheFirst /\ ReturnTells
<1> SUFFICES ASSUME FkInv PROVE FkTypeOK /\ KnowsTheFirst /\ ReturnTells
  OBVIOUS
<1>1. FkTypeOK
  BY FkTypesSame DEF FkInv
<1>2. KnowsTheFirst
  BY DEF FkInv, EachInv, PidsInv, CopyInv, KnowsTheFirst
<1>3. ReturnTells
  <2> SUFFICES ASSUME NEW p \in CopyNos, NEW q \in CopyNos, p < q,
                      copies[p].pc = "copy", copies[q].pc = "copy",
                      copies[p].ret = copies[q].ret
               PROVE  /\ p = 0
                      /\ IF fkMode = 0 THEN copies[0].npids = q
                         ELSE copies[q].npids = q /\ q < FkCopies - 1
    BY DEF ReturnTells
  <2>1. /\ CopyInv(p, copies[p]) /\ CopyInv(q, copies[q])
        /\ Follows(p, copies[p]) /\ fkMode \in {0, 1}
        /\ copies[p].npids \in Nat /\ copies[q].npids \in Nat
    BY OneCopy
  <2>2. Forked(q)
    BY DEF Forked
  <2>3. p = 0
    BY <2>1, <2>2, FkNat DEF CopyInv, Follows, CopyNos
  <2> QED BY <2>1, <2>3, FkNat DEF CopyInv, CopyNos
<1> QED BY <1>1, <1>2, <1>3

(***************************************************************************)
(* The variables of the copies keep their types: no count, return value or *)
(* entry of Forker_pids is beyond the copies asked for.                    *)
(***************************************************************************)
THEOREM FkTypeCorrect == FkSpec => []FkTypeOK
BY FkInvTells, FkInvariant, PTL DEF FkSpec

(***************************************************************************)
(* Forker_pids: what a copy has there are the processes forked before it,  *)
(* itself and its own, for any number of copies and places, although the   *)
(* two sides of each fork() count on their own and a signal may come       *)
(* between the count and the entry.                                        *)
(***************************************************************************)
THEOREM KnowsTheFirstCorrect == FkSpec => []KnowsTheFirst
BY FkInvTells, FkInvariant, PTL DEF FkSpec

(***************************************************************************)
(* forker(): no two copies return the same value but the original and one  *)
(* other, its last child or the copy in which the chain broke.             *)
(***************************************************************************)
THEOREM ReturnTellsCorrect == FkSpec => []ReturnTells
BY FkInvTells, FkInvariant, PTL DEF FkSpec

=============================================================================

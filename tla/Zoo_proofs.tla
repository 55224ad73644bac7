----------------------------- MODULE Zoo_proofs -----------------------------
(***************************************************************************)
(* Proofs about the zoo library for any number of processes, pids, tags    *)
(* and lines: type correctness, mutual exclusion of its critical section,  *)
(* and, when no process both looks tags up and writes, that every          *)
(* operation is one step of ZooSpec.                                       *)
(***************************************************************************)
EXTENDS Zoo, SequenceTheorems, TLAPS

(***************************************************************************)
(* The locals of a call that is over have the type of a call's.            *)
(***************************************************************************)
LEMMA NoRequestType == NoRequest \in Request
BY ZooAssumption DEF NoRequest, Request, AnyPid, AnyTag

(***************************************************************************)
(* Writing a line in place, or one more at the end, leaves a file of       *)
(* lines that differs there only.                                          *)
(***************************************************************************)
LEMMA WriteLine ==
  ASSUME NEW f \in Seq(Line), NEW l \in Line, NEW i \in Nat
  PROVE  /\ [f EXCEPT ![i] = l] \in Seq(Line)
         /\ Len([f EXCEPT ![i] = l]) = Len(f)
         /\ Append(f, l) \in Seq(Line)
         /\ Len(Append(f, l)) = Len(f) + 1
         /\ \A j \in 1 .. Len(f) : Append(f, l)[j] = f[j]
         /\ Append(f, l)[Len(f) + 1] = l
<1>1. [f EXCEPT ![i] = l] \in Seq(Line) /\ Len([f EXCEPT ![i] = l]) = Len(f)
  <2>1. CASE i \in 1 .. Len(f)
    BY <2>1, ExceptSeq
  <2>2. CASE i \notin 1 .. Len(f)
    <3>1. DOMAIN f = 1 .. Len(f) /\ f = [j \in DOMAIN f |-> f[j]]
      OBVIOUS
    <3>2. [f EXCEPT ![i] = l] = f
      BY <2>2, <3>1
    <3> QED BY <3>2
  <2> QED BY <2>1, <2>2
<1>2. QED BY <1>1, AppendProperties

-----------------------------------------------------------------------------

(***************************************************************************)
(* Every reachable state has the types of the C declarations, with the     *)
(* file a sequence of complete lines.                                      *)
(***************************************************************************)
LEMMA InitTypeOK == Init => TypeOK
BY NoRequestType, ZooAssumption DEF Init, TypeOK, Result

(***************************************************************************)
(* A step that leaves each call's locals alone or ends the call.           *)
(***************************************************************************)
LEMMA LocalsTypeOK ==
  ASSUME TypeOK, NEW p \in Proc,
         NEW l \in {"idle", "lock", "scan", "flush", "unlock"},
         NEW r \in Result
  PROVE  /\ Goto(p, l) =>
              pc' \in [Proc -> {"idle", "lock", "scan", "flush", "unlock"}]
         /\ Return(p, r) => ret' \in [Proc -> Result]
         /\ Leave(p) => /\ pc' \in [Proc -> {"idle", "lock", "scan", "flush", "unlock"}]
                        /\ req' \in [Proc -> Request]
                        /\ pos' \in [Proc -> Nat]
<1>1. ASSUME NEW s \in {"idle", "lock", "scan", "flush", "unlock"}, Goto(p, s)
      PROVE  pc' \in [Proc -> {"idle", "lock", "scan", "flush", "unlock"}]
  BY <1>1 DEF TypeOK, Goto
<1>2. Return(p, r) => ret' \in [Proc -> Result]
  BY DEF TypeOK, Return
<1>3. Leave(p) => /\ req' \in [Proc -> Request]
                  /\ pos' \in [Proc -> Nat]
  BY NoRequestType DEF TypeOK, Leave
<1> QED BY <1>1, <1>2, <1>3 DEF Leave

LEMMA Results ==
  /\ "none" \in Result /\ "ok" \in Result
  /\ "notfound" \in Result /\ "error" \in Result
  /\ NoPid \in Result
  /\ \A pid \in Pid : pid \in Result
BY DEF Result

LEMMA ViewType ==
  ASSUME TypeOK, NEW p \in Proc, NEW i \in 1 .. Len(file)
  PROVE  View(p, i) \in Line
<1>1. file[i] \in Line
  BY ElementOfSeq DEF TypeOK
<1>2. CASE i <= Len(cache[p])
  <2>1. cache[p] \in Seq(Line) /\ i \in 1 .. Len(cache[p])
    BY <1>2 DEF TypeOK
  <2> QED BY <1>2, <2>1, ElementOfSeq DEF View
<1> QED BY <1>1, <1>2 DEF View

LEMMA NextTypeOK == TypeOK /\ [Next]_vars => TypeOK'
<1> SUFFICES ASSUME TypeOK, [Next]_vars PROVE TypeOK'
  OBVIOUS
<1> USE Results
<1>1. CASE UNCHANGED vars
  BY <1>1 DEF vars, TypeOK
<1>2. ASSUME NEW p \in Proc, NEW r \in Request, Call(p, r) PROVE TypeOK'
  BY <1>2, LocalsTypeOK DEF Call, TypeOK
<1>3. ASSUME NEW p \in Proc, Lock(p) PROVE TypeOK'
  BY <1>3, LocalsTypeOK DEF Lock, TypeOK
<1>4. ASSUME NEW p \in Proc, LockFails(p) \/ SeekFails(p) \/ UnlockFails(p)
      PROVE  TypeOK'
  BY <1>4, LocalsTypeOK DEF LockFails, SeekFails, UnlockFails, TypeOK
<1>5. ASSUME NEW p \in Proc, ScanMark(p) PROVE TypeOK'
  <2>1. pos' \in [Proc -> Nat]
    BY <1>5 DEF ScanMark, TypeOK
  <2> QED BY <1>5, <2>1, LocalsTypeOK DEF ScanMark, TypeOK
<1>6. ASSUME NEW p \in Proc, ScanClear(p) PROVE TypeOK'
  <2>1. pos' \in [Proc -> Nat]
    <3>1. \A i \in 1 .. Len(file) : [pos EXCEPT ![p] = i] \in [Proc -> Nat]
      BY DEF TypeOK
    <3> QED BY <1>6, <3>1 DEF ScanClear, TypeOK
  <2>2. cache' \in [Proc -> Seq(Line)]
    <3>1. [cache EXCEPT ![p] = <<>>] \in [Proc -> Seq(Line)]
      BY EmptySeq DEF TypeOK
    <3> QED BY <1>6, <3>1 DEF ScanClear, TypeOK
  <2>3. pc' \in [Proc -> {"idle", "lock", "scan", "flush", "unlock"}]
    BY <1>6, LocalsTypeOK DEF ScanClear, TypeOK
  <2>4. ret' \in [Proc -> Result]
    BY <1>6, LocalsTypeOK DEF ScanClear, TypeOK
  <2> QED BY <1>6, <2>1, <2>2, <2>3, <2>4 DEF ScanClear, TypeOK
<1>7. ASSUME NEW p \in Proc, ScanGetpid(p) PROVE TypeOK'
  <2>1. \A i \in 1 .. Len(file) : View(p, i) \in Line
    BY ViewType
  <2>2. \A i \in 1 .. Len(file) : View(p, i).pid \in Pid
    BY <2>1 DEF Line
  <2>3. \A i \in 1 .. Len(file) : Buffered(p, i) \in Seq(Line)
    <3>1. file \in Seq(Line) /\ cache[p] \in Seq(Line) /\ <<>> \in Seq(Line)
      BY DEF TypeOK
    <3> QED BY <3>1 DEF Buffered
  <2>4. cache' \in [Proc -> Seq(Line)]
    <3>1. \A c \in Seq(Line) : [cache EXCEPT ![p] = c] \in [Proc -> Seq(Line)]
      BY DEF TypeOK
    <3>2. <<>> \in Seq(Line)
      OBVIOUS
    <3> QED BY <1>7, <2>3, <3>1, <3>2 DEF ScanGetpid
  <2>5. ret' \in [Proc -> Result]
    BY <1>7, <2>2, LocalsTypeOK DEF ScanGetpid, TypeOK
  <2> QED BY <1>7, <2>4, <2>5, LocalsTypeOK DEF ScanGetpid, TypeOK
<1>8. ASSUME NEW p \in Proc, Flush(p) PROVE TypeOK'
  <2> DEFINE l == [free |-> FALSE, pid |-> req[p].pid, tag |-> req[p].tag]
  <2>1. l \in Line
    BY DEF Request, Line, TypeOK
  <2>2. file \in Seq(Line) /\ pos[p] \in Nat
    BY DEF TypeOK
  <2>3. file' \in Seq(Line)
    <3>1. CASE req[p].op = "clear" /\ pos[p] \in 1 .. Len(file)
      <4>1. file[pos[p]] \in Line
        BY <3>1, <2>2, ElementOfSeq
      <4>2. Freed(file[pos[p]]) \in Line
        BY <4>1 DEF Freed, Line
      <4>3. file' = [file EXCEPT ![pos[p]] = Freed(file[pos[p]])]
        BY <1>8, <3>1, <2>2 DEF Flush
      <4> QED BY <4>2, <4>3, <2>2, WriteLine
    <3>2. CASE req[p].op = "clear" /\ pos[p] \notin 1 .. Len(file)
      <4>1. file' = [file EXCEPT ![pos[p]] = Freed(file[pos[p]])]
        BY <1>8, <3>2 DEF Flush
      <4>2. DOMAIN file = 1 .. Len(file) /\ file = [j \in DOMAIN file |-> file[j]]
        BY <2>2
      <4> QED BY <3>2, <4>1, <4>2, <2>2
    <3>3. CASE req[p].op # "clear"
      <4>1. \/ file' = [file EXCEPT ![pos[p]] = l]
            \/ file' = Append(file, l)
        BY <1>8, <3>3 DEF Flush
      <4> QED BY <4>1, <2>1, <2>2, WriteLine
    <3> QED BY <3>1, <3>2, <3>3
  <2>4. cache' \in [Proc -> Seq(Line)]
    BY <1>8 DEF Flush, TypeOK
  <2> QED BY <1>8, <2>3, <2>4, LocalsTypeOK DEF Flush, TypeOK
<1>9. ASSUME NEW p \in Proc, Unlock(p) PROVE TypeOK'
  BY <1>9, LocalsTypeOK DEF Unlock, TypeOK
<1>10. ASSUME NEW p \in Proc, Exit(p) PROVE TypeOK'
  <2>1. cache' \in [Proc -> Seq(Line)]
    BY <1>10 DEF Exit, TypeOK
  <2> QED BY <1>10, <2>1, LocalsTypeOK DEF Exit, TypeOK
<1>11. ASSUME NEW p \in Proc, NEW pid \in Pid, NEW tag \in Tag
       PROVE  /\ CallMark(p, pid, tag) => TypeOK'
              /\ CallClear(p, pid) => TypeOK'
              /\ CallGetpid(p, tag) => TypeOK'
  BY <1>2, ZooAssumption
     DEF CallMark, CallClear, CallGetpid, Request, AnyPid, AnyTag
<1>12. QED
  BY <1>1, <1>3, <1>4, <1>5, <1>6, <1>7, <1>8, <1>9, <1>10, <1>11, ZooAssumption
     DEF Next, Step

THEOREM TypeCorrect == Spec => []TypeOK
BY InitTypeOK, NextTypeOK, PTL DEF Spec

-----------------------------------------------------------------------------

(***************************************************************************)
(* Who is between zoo_lock() and zoo_unlock() holds the lock.              *)
(***************************************************************************)
HoldsTheLock == \A p \in Proc : Critical(p) => lock = p

LEMMA NextHoldsTheLock == TypeOK /\ HoldsTheLock /\ [Next]_vars => HoldsTheLock'
<1> SUFFICES ASSUME TypeOK, HoldsTheLock, [Next]_vars,
                    NEW q \in Proc, Critical(q)'
             PROVE  lock' = q
  BY DEF HoldsTheLock
<1> USE DEF TypeOK, HoldsTheLock, Critical, Goto, Leave
<1>1. CASE UNCHANGED vars
  BY <1>1 DEF vars
<1>2. ASSUME NEW p \in Proc, NEW r, Call(p, r) PROVE lock' = q
  BY <1>2 DEF Call
<1>3. ASSUME NEW p \in Proc, Lock(p) PROVE lock' = q
  BY <1>3, ZooAssumption DEF Lock, Grantable
<1>4. ASSUME NEW p \in Proc, LockFails(p) \/ SeekFails(p) \/ UnlockFails(p)
      PROVE  lock' = q
  BY <1>4 DEF LockFails, SeekFails, UnlockFails
<1>5. ASSUME NEW p \in Proc, ScanMark(p) PROVE lock' = q
  BY <1>5 DEF ScanMark
<1>6. ASSUME NEW p \in Proc, ScanClear(p) PROVE lock' = q
  <2>1. /\ pc[p] = "scan" /\ lock' = lock
        /\ Goto(p, "flush") \/ Goto(p, "unlock")
    BY <1>6 DEF ScanClear
  <2>2. CASE Goto(p, "flush")
    BY <2>1, <2>2
  <2>3. CASE Goto(p, "unlock")
    BY <2>1, <2>3
  <2> QED BY <2>1, <2>2, <2>3
<1>7. ASSUME NEW p \in Proc, ScanGetpid(p) PROVE lock' = q
  BY <1>7 DEF ScanGetpid
<1>8. ASSUME NEW p \in Proc, Flush(p) PROVE lock' = q
  BY <1>8 DEF Flush
<1>9. ASSUME NEW p \in Proc, Unlock(p) \/ Exit(p) PROVE lock' = q
  <2>1. p # q /\ pc[q] = pc'[q]
    BY <1>9 DEF Unlock, Exit
  <2>2. lock = q
    BY <2>1
  <2>3. CASE Unlock(p)
    BY <2>1, <2>2, <2>3 DEF Unlock
  <2>4. CASE Exit(p)
    BY <2>1, <2>2, <2>4 DEF Exit
  <2> QED BY <1>9, <2>3, <2>4
<1> HIDE DEF TypeOK, HoldsTheLock, Critical, Goto, Leave
<1>10. QED
  BY <1>1, <1>2, <1>3, <1>4, <1>5, <1>6, <1>7, <1>8, <1>9
     DEF Next, Step, CallMark, CallClear, CallGetpid

(***************************************************************************)
(* No two processes are between zoo_lock() and zoo_unlock(), whatever they *)
(* call, fail at or die of.                                                *)
(***************************************************************************)
THEOREM MutexCorrect == Spec => []MutualExclusion
<1>1. Init => HoldsTheLock
  BY DEF Init, HoldsTheLock, Critical
<1>2. HoldsTheLock => MutualExclusion
  BY DEF HoldsTheLock, MutualExclusion
<1>3. QED
  BY <1>1, <1>2, NextHoldsTheLock, TypeCorrect, PTL DEF Spec

-----------------------------------------------------------------------------

(***************************************************************************)
(* What else it takes for an operation to have its effect where it should: *)
(* a process that writes never has old lines in its buffer, a call comes   *)
(* from a process that makes such calls, only writers get to the write,    *)
(* and before the unlock the answer is there.                              *)
(***************************************************************************)
WritersAreFresh == \A p \in Proc \ Reader : cache[p] = <<>>

CallsAreTheirs ==
  \A p \in Proc : pc[p] # "idle" =>
    /\ req[p].op = "getpid" => p \in Reader /\ pc[p] # "flush"
    /\ req[p].op # "getpid" => p \in Writer

IdleAsksNothing ==
  \A p \in Proc : /\ pc[p] = "idle" => req[p] = NoRequest
                  /\ pc[p] # "idle" => req[p].op # "none"

AnswerKnown == \A p \in Proc : pc[p] = "unlock" => ret[p] # "none"

FileFits == Len(file) <= MaxLines
RoomForIt == \A p \in Proc : pc[p] = "flush" => pos[p] <= MaxLines

IInv == /\ TypeOK /\ HoldsTheLock
        /\ WritersAreFresh /\ CallsAreTheirs /\ IdleAsksNothing
        /\ AnswerKnown /\ FileFits /\ RoomForIt /\ WritesItsLine

LEMMA InitIInv == Init => IInv
<1> SUFFICES ASSUME Init PROVE IInv
  OBVIOUS
<1>1. TypeOK
  BY InitTypeOK
<1>2. /\ HoldsTheLock /\ WritersAreFresh /\ CallsAreTheirs
      /\ IdleAsksNothing /\ AnswerKnown /\ RoomForIt /\ WritesItsLine
  BY DEF Init, HoldsTheLock, Critical, WritersAreFresh, CallsAreTheirs,
         IdleAsksNothing, AnswerKnown, RoomForIt, WritesItsLine
<1>3. FileFits
  BY ZooAssumption DEF Init, FileFits
<1> QED BY <1>1, <1>2, <1>3 DEF IInv

(***************************************************************************)
(* Only lookups fill a buffer.                                             *)
(***************************************************************************)
LEMMA NextWritersAreFresh == IInv /\ [Next]_vars => WritersAreFresh'
<1> SUFFICES ASSUME IInv, [Next]_vars, NEW q \in Proc \ Reader
             PROVE  cache'[q] = <<>>
  BY DEF WritersAreFresh
<1>0. cache[q] = <<>> /\ cache \in [Proc -> Seq(Line)]
  BY DEF IInv, WritersAreFresh, TypeOK
<1>1. CASE UNCHANGED cache
  BY <1>0, <1>1
<1>2. ASSUME NEW p \in Proc, cache' = [cache EXCEPT ![p] = <<>>]
      PROVE  cache'[q] = <<>>
  BY <1>0, <1>2
<1>3. ASSUME NEW p \in Proc, ScanGetpid(p) PROVE cache'[q] = <<>>
  <2>1. p # q
    BY <1>3 DEF IInv, CallsAreTheirs, ScanGetpid
  <2> QED BY <1>0, <1>3, <2>1 DEF ScanGetpid
<1>4. ASSUME NEW p \in Proc, ScanClear(p) PROVE cache'[q] = <<>>
  BY <1>1, <1>2, <1>4 DEF ScanClear
<1>5. ASSUME NEW p \in Proc, Flush(p) \/ Exit(p) PROVE cache'[q] = <<>>
  BY <1>2, <1>5 DEF Flush, Exit
<1>6. ASSUME NEW p \in Proc, NEW r,
             \/ Call(p, r) \/ Lock(p) \/ LockFails(p) \/ ScanMark(p)
             \/ SeekFails(p) \/ Unlock(p) \/ UnlockFails(p)
      PROVE  cache'[q] = <<>>
  BY <1>1, <1>6 DEF Call, Lock, LockFails, ScanMark, SeekFails, Unlock, UnlockFails
<1>7. QED
  BY <1>1, <1>3, <1>4, <1>5, <1>6
     DEF Next, Step, CallMark, CallClear, CallGetpid, vars

(***************************************************************************)
(* A call is made by a process that makes such calls and keeps its kind    *)
(* until it is over.                                                       *)
(***************************************************************************)
LEMMA NextCallsAreTheirs == IInv /\ [Next]_vars => CallsAreTheirs'
<1> SUFFICES ASSUME IInv, [Next]_vars, NEW q \in Proc, pc'[q] # "idle"
             PROVE  /\ req'[q].op = "getpid" => q \in Reader /\ pc'[q] # "flush"
                    /\ req'[q].op # "getpid" => q \in Writer
  BY DEF CallsAreTheirs
<1> DEFINE Q == /\ req'[q].op = "getpid" => q \in Reader /\ pc'[q] # "flush"
                /\ req'[q].op # "getpid" => q \in Writer
<1>0. /\ pc \in [Proc -> {"idle", "lock", "scan", "flush", "unlock"}]
      /\ req \in [Proc -> Request]
      /\ pc[q] # "idle" => /\ req[q].op = "getpid" => q \in Reader /\ pc[q] # "flush"
                           /\ req[q].op # "getpid" => q \in Writer
  BY DEF IInv, TypeOK, CallsAreTheirs
<1>1. CASE UNCHANGED <<pc, req>>
  BY <1>0, <1>1
<1>2. ASSUME NEW p \in Proc, NEW l \in {"lock", "scan", "flush", "unlock"},
             req' = req, Goto(p, l), pc[p] # "idle",
             l = "flush" => req[p].op # "getpid"
      PROVE  Q
  BY <1>0, <1>2 DEF Goto
<1>3. ASSUME NEW p \in Proc, Leave(p) PROVE Q
  BY <1>0, <1>3 DEF Leave, Goto
<1>4. ASSUME NEW p \in Writer, NEW pid \in Pid,
             (\E tag \in Tag : CallMark(p, pid, tag)) \/ CallClear(p, pid)
      PROVE  Q
  BY <1>0, <1>4, ZooAssumption DEF CallMark, CallClear, Call, Goto
<1>5. ASSUME NEW p \in Reader, NEW tag \in Tag, CallGetpid(p, tag) PROVE Q
  BY <1>0, <1>5, ZooAssumption DEF CallGetpid, Call, Goto
<1>6. ASSUME NEW p \in Proc,
             ScanMark(p) \/ ScanClear(p) \/ ScanGetpid(p)
      PROVE  Q
  <2>1. CASE ScanMark(p)
    BY <1>2, <2>1 DEF ScanMark
  <2>2. CASE ScanClear(p)
    <3>1. /\ pc[p] = "scan" /\ req[p].op # "getpid" /\ req' = req
          /\ Goto(p, "flush") \/ Goto(p, "unlock")
      BY <2>2 DEF ScanClear
    <3> QED BY <1>2, <3>1
  <2>3. CASE ScanGetpid(p)
    BY <1>2, <2>3 DEF ScanGetpid
  <2> QED BY <1>6, <2>1, <2>2, <2>3
<1>7. ASSUME NEW p \in Proc, Lock(p) \/ Flush(p) PROVE Q
  BY <1>2, <1>7 DEF Lock, Flush
<1>8. ASSUME NEW p \in Proc,
             LockFails(p) \/ SeekFails(p) \/ UnlockFails(p) \/ Unlock(p) \/ Exit(p)
      PROVE  Q
  BY <1>3, <1>8 DEF LockFails, SeekFails, UnlockFails, Unlock, Exit
<1>9. QED
  BY <1>1, <1>4, <1>5, <1>6, <1>7, <1>8 DEF Next, Step, vars

(***************************************************************************)
(* The request of a process is there exactly as long as its call.          *)
(***************************************************************************)
LEMMA NextIdleAsksNothing == IInv /\ [Next]_vars => IdleAsksNothing'
<1> SUFFICES ASSUME IInv, [Next]_vars, NEW q \in Proc
             PROVE  /\ pc'[q] = "idle" => req'[q] = NoRequest
                    /\ pc'[q] # "idle" => req'[q].op # "none"
  BY DEF IdleAsksNothing, NoRequest, AnyPid, AnyTag
<1> DEFINE Q == /\ pc'[q] = "idle" => req'[q] = NoRequest
                /\ pc'[q] # "idle" => req'[q].op # "none"
<1>0. /\ pc \in [Proc -> {"idle", "lock", "scan", "flush", "unlock"}]
      /\ req \in [Proc -> Request]
      /\ pc[q] = "idle" => req[q] = NoRequest
      /\ pc[q] # "idle" => req[q].op # "none"
  BY DEF IInv, TypeOK, IdleAsksNothing
<1>1. CASE UNCHANGED <<pc, req>>
  BY <1>0, <1>1
<1>2. ASSUME NEW p \in Proc, NEW l \in {"lock", "scan", "flush", "unlock"},
             req' = req, Goto(p, l), pc[p] # "idle"
      PROVE  Q
  BY <1>0, <1>2 DEF Goto
<1>3. ASSUME NEW p \in Proc, Leave(p) PROVE Q
  BY <1>0, <1>3 DEF Leave, Goto
<1>4. ASSUME NEW p \in Proc, NEW r, r.op # "none", Call(p, r) PROVE Q
  BY <1>0, <1>4 DEF Call, Goto
<1>5. ASSUME NEW p \in Proc, NEW pid \in Pid, NEW tag \in Tag
      PROVE  /\ CallMark(p, pid, tag) => Q
             /\ CallClear(p, pid) => Q
             /\ CallGetpid(p, tag) => Q
  BY <1>4 DEF CallMark, CallClear, CallGetpid
<1>6. ASSUME NEW p \in Proc, ScanMark(p) \/ ScanGetpid(p) PROVE Q
  BY <1>2, <1>6 DEF ScanMark, ScanGetpid
<1>7. ASSUME NEW p \in Proc, ScanClear(p) PROVE Q
  <2>1. /\ pc[p] = "scan" /\ req' = req
        /\ Goto(p, "flush") \/ Goto(p, "unlock")
    BY <1>7 DEF ScanClear
  <2> QED BY <1>2, <2>1
<1>8. ASSUME NEW p \in Proc, Lock(p) \/ Flush(p) PROVE Q
  BY <1>2, <1>8 DEF Lock, Flush
<1>9. ASSUME NEW p \in Proc,
             LockFails(p) \/ SeekFails(p) \/ UnlockFails(p) \/ Unlock(p) \/ Exit(p)
      PROVE  Q
  BY <1>3, <1>9 DEF LockFails, SeekFails, UnlockFails, Unlock, Exit
<1>10. QED
  BY <1>1, <1>5, <1>6, <1>7, <1>8, <1>9, ZooAssumption DEF Next, Step, vars

(***************************************************************************)
(* A scan and a write leave an answer to be told.                          *)
(***************************************************************************)
LEMMA NextAnswerKnown == IInv /\ [Next]_vars => AnswerKnown'
<1> SUFFICES ASSUME IInv, [Next]_vars, NEW q \in Proc, pc'[q] = "unlock"
             PROVE  ret'[q] # "none"
  BY DEF AnswerKnown
<1>0. /\ pc \in [Proc -> {"idle", "lock", "scan", "flush", "unlock"}]
      /\ ret \in [Proc -> Result]
      /\ pc[q] = "unlock" => ret[q] # "none"
  BY DEF IInv, TypeOK, AnswerKnown
<1>1. CASE UNCHANGED <<pc, ret>>
  BY <1>0, <1>1
<1>2. ASSUME NEW p \in Proc, NEW r \in Result \ {"none"},
             Goto(p, "unlock"), Return(p, r)
      PROVE  ret'[q] # "none"
  BY <1>0, <1>2 DEF Goto, Return
<1>3. ASSUME NEW p \in Proc, NEW l \in {"idle", "lock", "scan", "flush"},
             NEW r, Goto(p, l), Return(p, r) \/ UNCHANGED ret
      PROVE  ret'[q] # "none"
  BY <1>0, <1>3 DEF Goto, Return
<1>4. ASSUME NEW p \in Proc, Lock(p) \/ ScanMark(p) PROVE ret'[q] # "none"
  BY <1>3, <1>4 DEF Lock, ScanMark
<1>5. ASSUME NEW p \in Proc, ScanClear(p) PROVE ret'[q] # "none"
  <2>1. \/ Goto(p, "flush") /\ UNCHANGED ret
        \/ Goto(p, "unlock") /\ Return(p, "notfound")
    BY <1>5 DEF ScanClear
  <2>2. "notfound" \in Result \ {"none"}
    BY DEF Result
  <2> QED BY <1>2, <1>3, <2>1, <2>2
<1>6. ASSUME NEW p \in Proc, ScanGetpid(p) PROVE ret'[q] # "none"
  <2>1. \A i \in 1 .. Len(file) : View(p, i).pid \in Pid
    BY ViewType DEF IInv, Line
  <2>2. \E r \in Pid \cup {NoPid} : Return(p, r)
    BY <1>6, <2>1 DEF ScanGetpid
  <2>3. Pid \cup {NoPid} \subseteq Result \ {"none"}
    BY ZooAssumption DEF Result
  <2> QED BY <1>2, <1>6, <2>2, <2>3 DEF ScanGetpid
<1>7. ASSUME NEW p \in Proc, Flush(p) PROVE ret'[q] # "none"
  <2>1. "ok" \in Result \ {"none"}
    BY DEF Result
  <2> QED BY <1>2, <1>7, <2>1 DEF Flush
<1>8. ASSUME NEW p \in Proc,
             LockFails(p) \/ SeekFails(p) \/ UnlockFails(p) \/ Unlock(p) \/ Exit(p)
      PROVE  ret'[q] # "none"
  BY <1>3, <1>8 DEF LockFails, SeekFails, UnlockFails, Unlock, Exit, Leave
<1>9. ASSUME NEW p \in Proc, NEW r, Call(p, r) PROVE ret'[q] # "none"
  BY <1>3, <1>9 DEF Call
<1>10. QED
  BY <1>1, <1>4, <1>5, <1>6, <1>7, <1>8, <1>9
     DEF Next, Step, CallMark, CallClear, CallGetpid, vars

(***************************************************************************)
(* What a write does to the file: only the line it is positioned at        *)
(* changes, or one line comes after the last.                              *)
(***************************************************************************)
LEMMA FlushWrites ==
  ASSUME IInv, NEW p \in Proc, Flush(p)
  PROVE  \/ /\ req[p].op = "clear"
            /\ pos[p] \in 1 .. Len(file) /\ HasPid(file[pos[p]], req[p].pid)
            /\ file' = [file EXCEPT ![pos[p]] = Freed(file[pos[p]])]
         \/ /\ req[p].op = "mark"
            /\ pos[p] \in 1 .. Len(file) /\ file[pos[p]].free
            /\ file' = [file EXCEPT ![pos[p]] =
                         [free |-> FALSE, pid |-> req[p].pid, tag |-> req[p].tag]]
         \/ /\ req[p].op = "mark"
            /\ pos[p] = Len(file) + 1
            /\ file' = Append(file,
                         [free |-> FALSE, pid |-> req[p].pid, tag |-> req[p].tag])
<1>1. /\ file \in Seq(Line) /\ pos[p] \in Nat /\ Len(file) \in Nat
      /\ pc[p] = "flush"
  BY LenProperties DEF IInv, TypeOK, Flush
<1>2. \/ /\ req[p].op = "mark"
         /\ \/ pos[p] = Len(file) + 1
            \/ pos[p] \in 1 .. Len(file) /\ file[pos[p]].free
      \/ /\ req[p].op = "clear"
         /\ pos[p] \in 1 .. Len(file)
         /\ HasPid(file[pos[p]], req[p].pid)
  BY <1>1 DEF IInv, WritesItsLine
<1> QED BY <1>1, <1>2 DEF Flush

(***************************************************************************)
(* Every other action leaves the file as it is.                            *)
(***************************************************************************)
LEMMA OnlyFlushWrites ==
  ASSUME [Next]_vars, \A p \in Proc : ~ Flush(p)
  PROVE  file' = file
BY DEF Next, Step, CallMark, CallClear, CallGetpid, Call, Lock, LockFails,
       ScanMark, ScanClear, ScanGetpid, SeekFails, Unlock, UnlockFails, Exit, vars

(***************************************************************************)
(* The file does not outgrow its bound: a position past the end was chosen *)
(* when there was room for one line more, and nobody wrote since.          *)
(***************************************************************************)
LEMMA NextRoom == IInv /\ [Next]_vars => RoomForIt'
<1> SUFFICES ASSUME IInv, [Next]_vars,
                    NEW q \in Proc, pc'[q] = "flush"
             PROVE  pos'[q] <= MaxLines
  BY DEF RoomForIt
<1>0. /\ pc \in [Proc -> {"idle", "lock", "scan", "flush", "unlock"}]
      /\ pos \in [Proc -> Nat] /\ Len(file) \in Nat /\ MaxLines \in Nat
      /\ Len(file) <= MaxLines
      /\ pc[q] = "flush" => pos[q] <= MaxLines
  BY LenProperties, ZooAssumption DEF IInv, TypeOK, RoomForIt, FileFits
<1>1. CASE UNCHANGED <<pc, pos>>
  BY <1>0, <1>1
<1>2. ASSUME NEW p \in Proc, NEW l \in {"lock", "scan", "unlock"},
             Goto(p, l), UNCHANGED pos
      PROVE  pos'[q] <= MaxLines
  BY <1>0, <1>2 DEF Goto
<1>3. ASSUME NEW p \in Proc, Leave(p) PROVE pos'[q] <= MaxLines
  BY <1>0, <1>3 DEF Leave, Goto
<1>4. ASSUME NEW p \in Proc, NEW i \in 1 .. MaxLines,
             Goto(p, "flush"), pos' = [pos EXCEPT ![p] = i]
      PROVE  pos'[q] <= MaxLines
  BY <1>0, <1>4 DEF Goto
<1>5. ASSUME NEW p \in Proc, ScanMark(p) PROVE pos'[q] <= MaxLines
  <2>1. \E i \in 1 .. MaxLines : pos' = [pos EXCEPT ![p] = i]
    BY <1>0, <1>5 DEF ScanMark
  <2> QED BY <1>4, <1>5, <2>1 DEF ScanMark
<1>6. ASSUME NEW p \in Proc, ScanClear(p) PROVE pos'[q] <= MaxLines
  <2>1. \/ UNCHANGED pos /\ Goto(p, "unlock")
        \/ \E i \in 1 .. Len(file) : Goto(p, "flush") /\ pos' = [pos EXCEPT ![p] = i]
    BY <1>6 DEF ScanClear
  <2>2. \A i \in 1 .. Len(file) : i \in 1 .. MaxLines
    BY <1>0
  <2> QED BY <1>2, <1>4, <2>1, <2>2
<1>7. ASSUME NEW p \in Proc, ScanGetpid(p) \/ Lock(p) \/ Flush(p)
      PROVE  pos'[q] <= MaxLines
  BY <1>2, <1>7 DEF ScanGetpid, Lock, Flush
<1>8. ASSUME NEW p \in Proc,
             LockFails(p) \/ SeekFails(p) \/ UnlockFails(p) \/ Unlock(p) \/ Exit(p)
      PROVE  pos'[q] <= MaxLines
  BY <1>3, <1>8 DEF LockFails, SeekFails, UnlockFails, Unlock, Exit
<1>9. ASSUME NEW p \in Proc, NEW r, Call(p, r) PROVE pos'[q] <= MaxLines
  BY <1>2, <1>9 DEF Call
<1>10. QED
  BY <1>1, <1>5, <1>6, <1>7, <1>8, <1>9
     DEF Next, Step, CallMark, CallClear, CallGetpid, vars

LEMMA NextFileFits == IInv /\ [Next]_vars => FileFits'
<1> SUFFICES ASSUME IInv, [Next]_vars PROVE Len(file') <= MaxLines
  BY DEF FileFits
<1>0. /\ file \in Seq(Line) /\ Len(file) \in Nat /\ MaxLines \in Nat
      /\ Len(file) <= MaxLines
  BY LenProperties, ZooAssumption DEF IInv, TypeOK, FileFits
<1>1. CASE \A p \in Proc : ~ Flush(p)
  BY <1>0, <1>1, OnlyFlushWrites
<1>2. ASSUME NEW p \in Proc, Flush(p) PROVE Len(file') <= MaxLines
  <2>1. pos[p] <= MaxLines
    BY <1>2 DEF IInv, RoomForIt, Flush
  <2> DEFINE l == [free |-> FALSE, pid |-> req[p].pid, tag |-> req[p].tag]
  <2>2. pos[p] \in Nat /\ l \in Line
    BY DEF IInv, TypeOK, Request, Line
  <2>3. ASSUME NEW k \in Line, pos[p] \in 1 .. Len(file),
               file' = [file EXCEPT ![pos[p]] = k]
        PROVE  Len(file') <= MaxLines
    BY <1>0, <2>2, <2>3, WriteLine
  <2>4. ASSUME pos[p] = Len(file) + 1, file' = Append(file, l)
        PROVE  Len(file') <= MaxLines
    BY <1>0, <2>1, <2>2, <2>4, WriteLine
  <2>5. \A i \in 1 .. Len(file) : Freed(file[i]) \in Line
    <3>1. \A i \in 1 .. Len(file) : file[i] \in Line
      BY <1>0, ElementOfSeq
    <3> QED BY <3>1 DEF Freed, Line
  <2> QED BY <1>2, <2>2, <2>3, <2>4, <2>5, FlushWrites
<1> QED BY <1>1, <1>2

(***************************************************************************)
(* With no process that both looks up and writes, a writer's scan sees the *)
(* file as it is, and the line it chose is still that line when it writes. *)
(***************************************************************************)
LEMMA NextWritesItsLine ==
  ASSUME Reader \cap Writer = {}
  PROVE  IInv /\ [Next]_vars => WritesItsLine'
<1> SUFFICES ASSUME IInv, [Next]_vars, NEW q \in Proc, pc'[q] = "flush"
             PROVE  \/ /\ req'[q].op = "mark"
                       /\ \/ pos'[q] = Len(file') + 1
                          \/ pos'[q] \in 1 .. Len(file') /\ file'[pos'[q]].free
                    \/ /\ req'[q].op = "clear"
                       /\ pos'[q] \in 1 .. Len(file')
                       /\ HasPid(file'[pos'[q]], req'[q].pid)
  BY DEF WritesItsLine, HasPid
<1> DEFINE Right(f, r, i) ==
             \/ /\ r.op = "mark"
                /\ i = Len(f) + 1 \/ (i \in 1 .. Len(f) /\ f[i].free)
             \/ /\ r.op = "clear"
                /\ i \in 1 .. Len(f) /\ HasPid(f[i], r.pid)
<1> SUFFICES Right(file', req'[q], pos'[q])
  OBVIOUS
<1>0. /\ pc \in [Proc -> {"idle", "lock", "scan", "flush", "unlock"}]
      /\ req \in [Proc -> Request] /\ pos \in [Proc -> Nat]
      /\ file \in Seq(Line) /\ Len(file) \in Nat
  BY LenProperties DEF IInv, TypeOK
<1>1. pc[q] = "flush" => Right(file, req[q], pos[q])
  BY DEF IInv, WritesItsLine
<1> HIDE DEF Right
<1>2. ASSUME UNCHANGED <<file, pc, req, pos>> PROVE Right(file', req'[q], pos'[q])
  BY <1>1, <1>2
<1>3. ASSUME NEW p \in Proc, NEW l \in {"lock", "scan", "unlock"},
             Goto(p, l), UNCHANGED <<file, pos>>,
             \A x \in Proc \ {p} : req'[x] = req[x]
      PROVE  Right(file', req'[q], pos'[q])
  BY <1>0, <1>1, <1>3 DEF Goto
<1>4. ASSUME NEW p \in Proc, Leave(p), UNCHANGED file
      PROVE  Right(file', req'[q], pos'[q])
  <2>1. p # q /\ pc[q] = "flush" /\ req'[q] = req[q] /\ pos'[q] = pos[q]
    BY <1>0, <1>4 DEF Leave, Goto
  <2> QED BY <1>1, <1>4, <2>1
<1>5. ASSUME NEW p \in Proc, NEW i \in Nat, Goto(p, "flush"),
             pos' = [pos EXCEPT ![p] = i], UNCHANGED <<file, req>>,
             Right(file, req[p], i)
      PROVE  Right(file', req'[q], pos'[q])
  <2>1. CASE p = q
    BY <1>0, <1>5, <2>1
  <2>2. CASE p # q
    BY <1>0, <1>1, <1>5, <2>2 DEF Goto
  <2> QED BY <2>1, <2>2
<1>6. ASSUME NEW p \in Proc, pc[p] = "scan", req[p].op # "getpid"
      PROVE  \A i \in 1 .. Len(file) : View(p, i) = file[i]
  <2>1. cache[p] = <<>>
    BY <1>6 DEF IInv, CallsAreTheirs, WritersAreFresh
  <2>2. Len(cache[p]) = 0
    BY <2>1, EmptySeq
  <2> QED BY <2>2 DEF View
<1>7. ASSUME NEW p \in Proc, ScanMark(p)
      PROVE  Right(file', req'[q], pos'[q])
  <2>1. \A i \in 1 .. Len(file) : View(p, i) = file[i]
    BY <1>6, <1>7 DEF ScanMark
  <2>2. \/ pos' = [pos EXCEPT ![p] = Len(file) + 1]
        \/ \E i \in 1 .. Len(file) :
              IsFree(View(p, i)) /\ pos' = [pos EXCEPT ![p] = i]
    BY <1>7 DEF ScanMark, FirstLine
  <2>5. Goto(p, "flush") /\ UNCHANGED <<file, req>> /\ req[p].op = "mark"
    BY <1>7 DEF ScanMark
  <2>3. CASE pos' = [pos EXCEPT ![p] = Len(file) + 1]
    <3>1. Right(file, req[p], Len(file) + 1) /\ Len(file) + 1 \in Nat
      BY <1>0, <2>5 DEF Right
    <3> QED BY <1>5, <2>3, <2>5, <3>1
  <2>4. ASSUME NEW i \in 1 .. Len(file), IsFree(View(p, i)),
               pos' = [pos EXCEPT ![p] = i]
        PROVE  Right(file', req'[q], pos'[q])
    <3>1. Right(file, req[p], i) /\ i \in Nat
      BY <2>1, <2>4, <2>5 DEF IsFree, Right
    <3> QED BY <1>5, <2>4, <2>5, <3>1
  <2> QED BY <2>2, <2>3, <2>4
<1>8. ASSUME NEW p \in Proc, ScanClear(p)
      PROVE  Right(file', req'[q], pos'[q])
  <2>1. \A i \in 1 .. Len(file) : View(p, i) = file[i]
    BY <1>6, <1>8 DEF ScanClear
  <2>2. UNCHANGED <<file, req>> /\ req[p].op = "clear"
    BY <1>8 DEF ScanClear
  <2>3. \/ UNCHANGED pos /\ Goto(p, "unlock")
        \/ \E i \in 1 .. Len(file) :
              /\ HasPid(View(p, i), req[p].pid)
              /\ pos' = [pos EXCEPT ![p] = i] /\ Goto(p, "flush")
    BY <1>8 DEF ScanClear, FirstLine
  <2>4. ASSUME NEW i \in 1 .. Len(file), HasPid(View(p, i), req[p].pid),
               pos' = [pos EXCEPT ![p] = i], Goto(p, "flush")
        PROVE  Right(file', req'[q], pos'[q])
    <3>1. Right(file, req[p], i) /\ i \in Nat
      BY <2>1, <2>2, <2>4 DEF Right
    <3> QED BY <1>5, <2>2, <2>4, <3>1
  <2> QED BY <1>3, <2>2, <2>3, <2>4
<1>9. ASSUME NEW p \in Proc, ScanGetpid(p) \/ Lock(p)
      PROVE  Right(file', req'[q], pos'[q])
  BY <1>3, <1>9 DEF ScanGetpid, Lock
<1>10. ASSUME NEW p \in Proc, Flush(p)
       PROVE  Right(file', req'[q], pos'[q])
  <2>1. p # q /\ pc[p] = "flush" /\ pc[q] = "flush"
    BY <1>0, <1>10 DEF Flush, Goto
  <2> QED BY <2>1 DEF IInv, HoldsTheLock, Critical
<1>11. ASSUME NEW p \in Proc,
              LockFails(p) \/ SeekFails(p) \/ UnlockFails(p) \/ Unlock(p) \/ Exit(p)
       PROVE  Right(file', req'[q], pos'[q])
  BY <1>4, <1>11 DEF LockFails, SeekFails, UnlockFails, Unlock, Exit
<1>12. ASSUME NEW p \in Proc, NEW r, Call(p, r)
       PROVE  Right(file', req'[q], pos'[q])
  BY <1>0, <1>3, <1>12 DEF Call
<1>13. QED
  BY <1>2, <1>7, <1>8, <1>9, <1>10, <1>11, <1>12
     DEF Next, Step, CallMark, CallClear, CallGetpid, vars

(***************************************************************************)
(* The invariant is inductive.                                             *)
(***************************************************************************)
LEMMA NextIInv ==
  ASSUME Reader \cap Writer = {}
  PROVE  IInv /\ [Next]_vars => IInv'
BY NextTypeOK, NextHoldsTheLock, NextWritersAreFresh, NextCallsAreTheirs,
   NextIdleAsksNothing, NextAnswerKnown, NextFileFits, NextRoom, NextWritesItsLine DEF IInv

(***************************************************************************)
(* A process that is about to write still has the line its scan chose.     *)
(***************************************************************************)
THEOREM WriteCorrect ==
  ASSUME Reader \cap Writer = {}
  PROVE  Spec => []WritesItsLine
<1>1. IInv => WritesItsLine
  BY DEF IInv
<1> QED BY <1>1, InitIInv, NextIInv, PTL DEF Spec

-----------------------------------------------------------------------------

CageOf(f, i) == [cage |-> i, pid |-> f[i].pid, tag |-> f[i].tag]

LEMMA InCages ==
  \A a : a \in Cages <=> \E i \in 1 .. Len(file) :
                            ~ file[i].free /\ a = CageOf(file, i)
BY DEF Cages, CageOf

(***************************************************************************)
(* Clearing a line takes its animal, and no other, out of the zoo.         *)
(***************************************************************************)
LEMMA ClearStep ==
  ASSUME TypeOK, NEW i \in 1 .. Len(file), ~ file[i].free,
         file' = [file EXCEPT ![i] = Freed(file[i])]
  PROVE  Cages' = Cages \ {CageOf(file, i)} /\ CageOf(file, i) \in Cages
<1>1. /\ Len(file') = Len(file)
      /\ \A j \in 1 .. Len(file) : file'[j] = IF j = i THEN Freed(file[i]) ELSE file[j]
  <2>1. file \in Seq(Line) /\ file[i] \in Line
    BY ElementOfSeq DEF TypeOK
  <2>2. Freed(file[i]) \in Line
    BY <2>1 DEF Freed, Line
  <2> QED BY <2>1, <2>2, ExceptSeq
<1>2. Freed(file[i]).free
  <2>1. file[i] \in Line
    BY ElementOfSeq DEF TypeOK
  <2> QED BY <2>1 DEF Freed, Line
<1>3. \A a : a \in Cages' <=> \E j \in 1 .. Len(file') :
                                ~ file'[j].free /\ a = CageOf(file', j)
  BY DEF Cages, CageOf
<1>4. \A a : a \in Cages' => a \in Cages \ {CageOf(file, i)}
  BY <1>1, <1>2, <1>3, InCages DEF CageOf
<1>5. \A a : a \in Cages \ {CageOf(file, i)} => a \in Cages'
  BY <1>1, <1>2, <1>3, InCages DEF CageOf
<1>6. CageOf(file, i) \in Cages
  BY InCages
<1> QED BY <1>4, <1>5, <1>6

(***************************************************************************)
(* Marking an available line, or one more at the end, puts one animal in a *)
(* cage that was empty.                                                    *)
(***************************************************************************)
LEMMA MarkStep ==
  ASSUME TypeOK, NEW l \in Line, ~ l.free, NEW i \in Nat,
         \/ /\ i \in 1 .. Len(file) /\ file[i].free
            /\ file' = [file EXCEPT ![i] = l]
         \/ i = Len(file) + 1 /\ file' = Append(file, l)
  PROVE  LET a == [cage |-> i, pid |-> l.pid, tag |-> l.tag]
         IN  Cages' = Cages \cup {a} /\ \A b \in Cages : b.cage # i
<1> DEFINE a == [cage |-> i, pid |-> l.pid, tag |-> l.tag]
<1>0. file \in Seq(Line) /\ Len(file) \in Nat
  BY LenProperties DEF TypeOK
<1>1. /\ Len(file') = IF i = Len(file) + 1 THEN Len(file) + 1 ELSE Len(file)
      /\ i \in 1 .. Len(file')
      /\ \A j \in 1 .. Len(file') : file'[j] = IF j = i THEN l ELSE file[j]
  <2>1. CASE i \in 1 .. Len(file) /\ file' = [file EXCEPT ![i] = l]
    BY <1>0, <2>1, ExceptSeq
  <2>2. CASE i = Len(file) + 1 /\ file' = Append(file, l)
    BY <1>0, <2>2, AppendProperties
  <2> QED BY <2>1, <2>2
<1>2. \A j \in 1 .. Len(file) : j = i => file[j].free
  BY <1>0
<1>3. \A x : x \in Cages' <=> \E j \in 1 .. Len(file') :
                                ~ file'[j].free /\ x = CageOf(file', j)
  BY DEF Cages, CageOf
<1>4. \A j : j \in 1 .. Len(file') <=> (j \in 1 .. Len(file) \/ j = i)
  BY <1>0, <1>1
<1>5. a \in Cages'
  BY <1>1, <1>3 DEF CageOf
<1>6. \A x : x \in Cages' => x \in Cages \cup {a}
  BY <1>1, <1>3, <1>4, InCages DEF CageOf
<1>7. \A x : x \in Cages => x \in Cages'
  BY <1>1, <1>2, <1>3, <1>4, InCages DEF CageOf
<1>8. \A b \in Cages : b.cage # i
  BY <1>2, InCages DEF CageOf
<1> QED BY <1>5, <1>6, <1>7, <1>8

(***************************************************************************)
(* A clear that reports "notfound" has looked at every animal.             *)
(***************************************************************************)
LEMMA NotFoundIsSo ==
  ASSUME IInv, Reader \cap Writer = {}, NEW p \in Proc, ScanClear(p),
         \A i \in 1 .. Len(file) : ~ HasPid(View(p, i), req[p].pid)
  PROVE  \A a \in Cages : a.pid # req[p].pid
<1>1. cache[p] = <<>>
  BY DEF IInv, CallsAreTheirs, WritersAreFresh, ScanClear
<1>2. Len(cache[p]) = 0
  BY <1>1
<1>3. \A i \in 1 .. Len(file) : View(p, i) = file[i]
  BY <1>2, LenProperties DEF View, IInv, TypeOK
<1>4. \A i \in 1 .. Len(file) : ~ HasPid(file[i], req[p].pid)
  BY <1>3
<1> QED BY <1>4, InCages DEF HasPid, CageOf

(***************************************************************************)
(* What is answered and told when a call begins, goes on, has taken effect *)
(* and is over.                                                            *)
(***************************************************************************)
LEMMA GoesOn ==
  ASSUME IInv, NEW p \in Proc, NEW l \in {"lock", "scan", "flush"}, Goto(p, l),
         pc[p] \notin {"idle", "unlock"}, ret' = ret
  PROVE  Answer' = Answer /\ Told' = Told
BY DEF IInv, TypeOK, Answer, Told, Goto

LEMMA Begins ==
  ASSUME IInv, NEW p \in Proc, Goto(p, "lock"), Return(p, "none"), pc[p] = "idle"
  PROVE  Answer' = Answer /\ Told' = [Told EXCEPT ![p] = "none"]
BY DEF IInv, TypeOK, Answer, Told, Goto, Return

LEMMA TakesEffect ==
  ASSUME IInv, NEW p \in Proc, NEW r, Goto(p, "unlock"), Return(p, r),
         pc[p] \notin {"idle", "unlock"}
  PROVE  /\ Answer[p] = "none" /\ Answer' = [Answer EXCEPT ![p] = r]
         /\ Told' = Told
BY DEF IInv, TypeOK, Answer, Told, Goto, Return

LEMMA IsOver ==
  ASSUME IInv, NEW p \in Proc, NEW r, Goto(p, "idle"),
         Return(p, r) \/ (ret' = ret /\ r = ret[p])
  PROVE  /\ Answer' = [Answer EXCEPT ![p] = "none"]
         /\ Told' = [Told EXCEPT ![p] = r]
<1>1. /\ pc \in [Proc -> {"idle", "lock", "scan", "flush", "unlock"}]
      /\ ret \in [Proc -> Result]
  BY DEF IInv, TypeOK
<1>2. /\ DOMAIN Answer' = Proc /\ DOMAIN Told' = Proc
      /\ \A q \in Proc : /\ Answer'[q] = IF q = p THEN "none" ELSE Answer[q]
                         /\ Told'[q] = IF q = p THEN r ELSE Told[q]
  BY <1>1 DEF Answer, Told, Goto, Return
<1> QED BY <1>2 DEF Answer, Told

(***************************************************************************)
(* zoolib.c implements the contract ZooSpec, for any number of processes:  *)
(* each write is the one mark or the one clear of the zoo by the process   *)
(* that asked for it, "ok" is told only after it and "notfound" only when  *)
(* it is so, an error before or after it, wherever a process fails or      *)
(* dies; everything else is a stuttering step.                             *)
(***************************************************************************)
THEOREM Refinement ==
  ASSUME Reader \cap Writer = {}
  PROVE  Spec => ImplementsZooSpec
<1>1. Init => Abstract!Init
  <2> SUFFICES ASSUME Init PROVE Abstract!Init
    OBVIOUS
  <2>1. Cages = {}
    BY DEF Init, Cages
  <2>2. /\ Answer = [p \in Proc |-> "none"]
        /\ Told = [p \in Proc |-> "none"]
    BY DEF Init, Answer, Told
  <2> QED BY <2>1, <2>2 DEF Init, Abstract!Init
<1>2. IInv /\ [Next]_vars => [Abstract!Next]_<<Cages, req, Answer, Told>>
  <2> SUFFICES ASSUME IInv, [Next]_vars
               PROVE  Abstract!Next \/ UNCHANGED <<Cages, req, Answer, Told>>
    OBVIOUS
  <2> DEFINE Goal == Abstract!Next \/ UNCHANGED <<Cages, req, Answer, Told>>
  <2>0. file' = file => Cages' = Cages
    BY DEF Cages
  <2>1. CASE UNCHANGED vars
    BY <2>0, <2>1 DEF vars, Answer, Told
  <2>2. ASSUME NEW p \in Proc, Lock(p) PROVE Goal
    <3>1. Answer' = Answer /\ Told' = Told
      BY <2>2, GoesOn DEF Lock
    <3> QED BY <2>0, <2>2, <3>1 DEF Lock
  <2>3. ASSUME NEW p \in Proc, ScanMark(p) PROVE Goal
    <3>1. Answer' = Answer /\ Told' = Told
      BY <2>3, GoesOn DEF ScanMark
    <3> QED BY <2>0, <2>3, <3>1 DEF ScanMark
  <2>4. ASSUME NEW p \in Proc, NEW r \in Abstract!Request, Call(p, r) PROVE Goal
    <3>1. Answer' = Answer /\ Told' = [Told EXCEPT ![p] = "none"]
      BY <2>4, Begins DEF Call
    <3>2. req[p] = NoRequest
      BY <2>4 DEF Call, IInv, IdleAsksNothing
    <3>3. Abstract!Ask(p, r)
      BY <2>0, <2>4, <3>1, <3>2 DEF Call, Abstract!Ask
    <3> QED BY <3>3 DEF Abstract!Next
  <2>5. ASSUME NEW p \in Proc, NEW pid \in Pid, NEW tag \in Tag
        PROVE  /\ CallMark(p, pid, tag) => Goal
               /\ CallClear(p, pid) => Goal
               /\ CallGetpid(p, tag) => Goal
    <3>1. /\ [op |-> "mark", pid |-> pid, tag |-> tag] \in Abstract!Request
          /\ [op |-> "clear", pid |-> pid, tag |-> AnyTag] \in Abstract!Request
          /\ [op |-> "getpid", pid |-> AnyPid, tag |-> tag] \in Abstract!Request
      BY ZooAssumption DEF Abstract!Request, AnyPid, AnyTag
    <3> QED BY <2>4, <3>1 DEF CallMark, CallClear, CallGetpid
  <2>6. ASSUME NEW p \in Proc, LockFails(p) \/ SeekFails(p) \/ UnlockFails(p)
        PROVE  Goal
    <3>1. /\ pc[p] # "idle" /\ Leave(p) /\ Return(p, "error") /\ file' = file
      BY <2>6 DEF LockFails, SeekFails, UnlockFails
    <3>2. req[p] # NoRequest
      BY <3>1 DEF IInv, IdleAsksNothing, NoRequest
    <3>3. /\ Answer' = [Answer EXCEPT ![p] = "none"]
          /\ Told' = [Told EXCEPT ![p] = "error"]
      BY <3>1, IsOver DEF Leave
    <3>4. Abstract!Fail(p)
      BY <2>0, <3>1, <3>2, <3>3 DEF Leave, Abstract!Fail, Abstract!Over
    <3> QED BY <3>4 DEF Abstract!Next
  <2>7. ASSUME NEW p \in Proc, Unlock(p) PROVE Goal
    <3>1. pc[p] = "unlock" /\ Leave(p) /\ UNCHANGED <<file, ret>>
      BY <2>7 DEF Unlock
    <3>2. Answer[p] = ret[p] /\ Answer[p] # "none"
      BY <3>1 DEF Answer, IInv, AnswerKnown
    <3>3. /\ Answer' = [Answer EXCEPT ![p] = "none"]
          /\ Told' = [Told EXCEPT ![p] = Answer[p]]
      BY <3>1, <3>2, IsOver DEF Leave
    <3>4. Abstract!Tell(p)
      BY <2>0, <3>1, <3>2, <3>3 DEF Leave, Abstract!Tell, Abstract!Over
    <3> QED BY <3>4 DEF Abstract!Next
  <2>8. ASSUME NEW p \in Proc, Exit(p) PROVE Goal
    <3>1. Leave(p) /\ Return(p, "none") /\ file' = file
      BY <2>8 DEF Exit
    <3>2. /\ Answer' = [Answer EXCEPT ![p] = "none"]
          /\ Told' = [Told EXCEPT ![p] = "none"]
      BY <3>1, IsOver DEF Leave
    <3>3. Abstract!Die(p)
      BY <2>0, <3>1, <3>2 DEF Leave, Abstract!Die, Abstract!Over
    <3> QED BY <3>3 DEF Abstract!Next
  <2>9. ASSUME NEW p \in Proc, ScanGetpid(p) PROVE Goal
    <3>1. /\ pc[p] = "scan" /\ Goto(p, "unlock")
          /\ req[p].op = "getpid" /\ UNCHANGED <<file, req>>
      BY <2>9 DEF ScanGetpid
    <3>2. \E pid \in Pid \cup {NoPid} : Return(p, pid)
      <4>1. \A i \in 1 .. Len(file) : View(p, i).pid \in Pid
        BY ViewType DEF IInv, Line
      <4> QED BY <2>9, <4>1 DEF ScanGetpid
    <3>3. PICK pid \in Pid \cup {NoPid} : Return(p, pid)
      BY <3>2
    <3>4. /\ Answer[p] = "none" /\ Answer' = [Answer EXCEPT ![p] = pid]
          /\ Told' = Told
      BY <3>1, <3>3, TakesEffect
    <3>5. Abstract!Lookup(p, pid)
      BY <2>0, <3>1, <3>4 DEF Abstract!Lookup, Abstract!Answered
    <3> QED BY <3>5 DEF Abstract!Next
  <2>10. ASSUME NEW p \in Proc, ScanClear(p) PROVE Goal
    <3>0. pc[p] = "scan" /\ req[p].op = "clear" /\ UNCHANGED <<file, req>>
      BY <2>10 DEF ScanClear
    <3>1. CASE Goto(p, "flush") /\ UNCHANGED ret
      <4>1. Answer' = Answer /\ Told' = Told
        BY <3>0, <3>1, GoesOn
      <4> QED BY <2>0, <3>0, <4>1
    <3>2. CASE /\ \A i \in 1 .. Len(file) : ~ HasPid(View(p, i), req[p].pid)
               /\ Goto(p, "unlock") /\ Return(p, "notfound")
      <4>1. /\ Answer[p] = "none" /\ Answer' = [Answer EXCEPT ![p] = "notfound"]
            /\ Told' = Told
        BY <3>0, <3>2, TakesEffect
      <4>2. \A a \in Cages : a.pid # req[p].pid
        BY <2>10, <3>2, NotFoundIsSo
      <4>3. Abstract!Missing(p)
        BY <2>0, <3>0, <4>1, <4>2 DEF Abstract!Missing, Abstract!Answered
      <4> QED BY <4>3 DEF Abstract!Next
    <3> QED BY <2>10, <3>1, <3>2, Zenon DEF ScanClear, NoLine
  <2>11. ASSUME NEW p \in Proc, Flush(p) PROVE Goal
    <3> DEFINE l == [free |-> FALSE, pid |-> req[p].pid, tag |-> req[p].tag]
               i == pos[p]
    <3>0. TypeOK /\ req[p] \in Request /\ i \in Nat /\ Len(file) \in Nat
      BY LenProperties DEF IInv, TypeOK
    <3>1. l \in Line /\ ~ l.free /\ req[p].pid \in Pid /\ req[p].tag \in Tag
      BY <3>0 DEF Request, Line
    <3>2. /\ pc[p] = "flush" /\ Goto(p, "unlock") /\ Return(p, "ok") /\ req' = req
      BY <2>11 DEF Flush
    <3>3. /\ Answer[p] = "none" /\ Answer' = [Answer EXCEPT ![p] = "ok"]
          /\ Told' = Told
      BY <3>2, TakesEffect
    <3>4. CASE /\ req[p].op = "clear"
               /\ i \in 1 .. Len(file) /\ HasPid(file[i], req[p].pid)
               /\ file' = [file EXCEPT ![i] = Freed(file[i])]
      <4>1. Cages' = Cages \ {CageOf(file, i)} /\ CageOf(file, i) \in Cages
        BY <3>0, <3>4, ClearStep DEF HasPid
      <4>2. CageOf(file, i).pid = req[p].pid
        BY <3>4 DEF HasPid, CageOf
      <4>3. Abstract!Clear(p)
        BY <3>2, <3>3, <3>4, <4>1, <4>2 DEF Abstract!Clear, Abstract!Answered
      <4> QED BY <4>3 DEF Abstract!Next
    <3>5. CASE /\ req[p].op = "mark"
               /\ \/ /\ i \in 1 .. Len(file) /\ file[i].free
                     /\ file' = [file EXCEPT ![i] = l]
                  \/ i = Len(file) + 1 /\ file' = Append(file, l)
      <4> DEFINE a == [cage |-> i, pid |-> l.pid, tag |-> l.tag]
      <4>1. Cages' = Cages \cup {a} /\ \A b \in Cages : b.cage # i
        BY <3>0, <3>1, <3>5, MarkStep
      <4>2. a \in Abstract!Animal
        <5>1. i \in 1 .. MaxLines
          BY <2>11, <3>0, <3>5, ZooAssumption DEF IInv, RoomForIt, Flush
        <5> QED BY <3>1, <5>1 DEF Abstract!Animal
      <4>3. req[p] = [op |-> "mark", pid |-> a.pid, tag |-> a.tag]
        BY <3>0, <3>5 DEF Request
      <4>4. Abstract!Mark(p, a)
        BY <3>2, <3>3, <4>1, <4>3 DEF Abstract!Mark, Abstract!Answered
      <4> QED BY <4>2, <4>4 DEF Abstract!Next
    <3> QED BY <2>11, <3>4, <3>5, FlushWrites
  <2> QED
    BY <2>1, <2>2, <2>3, <2>5, <2>6, <2>7, <2>8, <2>9, <2>10, <2>11,
       ZooAssumption
       DEF Next, Step
<1>3. QED
  BY <1>1, <1>2, InitIInv, NextIInv, PTL
     DEF Spec, ImplementsZooSpec, Abstract!Spec, Abstract!vars

=============================================================================

-------------------------------- MODULE Zoo --------------------------------
(***************************************************************************)
(* src/pan/zoolib.c: the "zoo" (active file) in which every ltp-pan writes *)
(* down what it runs.  It is one file of 80 byte lines; a line that starts *)
(* with '#' is available, any other reads "pid,tag,cmdline".  Processes    *)
(* that share it serialise with a write lock on the whole file, taken and  *)
(* released inside each operation.                                         *)
(*                                                                         *)
(* Each process reads the file through a stdio stream.  What rewind() does *)
(* with the stream's read buffer matters: a scan that stops at a matching  *)
(* line and writes nothing (zoo_getpid) leaves the lines it has read in    *)
(* the buffer, and the next scan of that process sees those lines and not  *)
(* the file's.  A scan that reaches the end of the file, and every write   *)
(* with its fflush(), leave the buffer empty.                              *)
(*                                                                         *)
(* Any process may call any operation here, at any time and with any       *)
(* argument; ZooClients adds what ltp-pan and ltp-bump really do.          *)
(***************************************************************************)
EXTENDS Naturals, Sequences

CONSTANTS
  Proc,        \* processes that have the zoo open
  Reader,      \* those that call zoo_getpid()
  Writer,      \* those that call zoo_mark_*() and zoo_clear()
  Pid,         \* process ids that get recorded
  Tag,         \* tags that get recorded
  PrefixOf,    \* PrefixOf[name]: the tags whose line passes the name test
  MaxLines,    \* bound: lines the file may grow to
  NoProc,      \* nobody holds the lock
  NoPid        \* the -1 of zoo_getpid()

ASSUME ZooAssumption ==
  /\ Reader \subseteq Proc
  /\ Writer \subseteq Proc
  /\ NoProc \notin Proc
  /\ NoPid \notin Pid /\ "none" \notin Pid \cup {NoPid}
  /\ Pid # {} /\ Tag # {}
  /\ DOMAIN PrefixOf = Tag
  /\ \A name \in Tag : name \in PrefixOf[name] /\ PrefixOf[name] \subseteq Tag
  /\ MaxLines \in Nat

VARIABLES
  file,        \* the lines on disk
  lock,        \* who holds the write lock
  pc,          \* where each process stands in its call
  req,         \* the call it is in
  pos,         \* the line its stream is positioned at
  cache,       \* the lines its stream has buffered
  ret          \* what its last call returned

vars == <<file, lock, pc, req, pos, cache, ret>>

Line == [free : BOOLEAN, pid : Pid, tag : Tag]
Request == [op : {"none", "mark", "clear", "getpid"}, pid : Pid, tag : Tag]
Result == {"none", "ok", "notfound", "error"} \cup Pid \cup {NoPid}

(* The argument a call does not have; the locals of no call.               *)
AnyPid == CHOOSE pid \in Pid : TRUE
AnyTag == CHOOSE tag \in Tag : TRUE
NoRequest == [op |-> "none", pid |-> AnyPid, tag |-> AnyTag]

TypeOK ==
  /\ file \in Seq(Line)
  /\ lock \in Proc \cup {NoProc}
  /\ pc \in [Proc -> {"idle", "lock", "scan", "flush", "unlock"}]
  /\ req \in [Proc -> Request]
  /\ pos \in [Proc -> Nat]
  /\ cache \in [Proc -> Seq(Line)]
  /\ ret \in [Proc -> Result]

Init ==
  /\ file = <<>>
  /\ lock = NoProc
  /\ pc = [p \in Proc |-> "idle"]
  /\ req = [p \in Proc |-> NoRequest]
  /\ pos = [p \in Proc |-> 0]
  /\ cache = [p \in Proc |-> <<>>]
  /\ ret = [p \in Proc |-> "none"]

-----------------------------------------------------------------------------

(***************************************************************************)
(* What the stream of p delivers for line i, fgets() after rewind().       *)
(***************************************************************************)
View(p, i) == IF i <= Len(cache[p]) THEN cache[p][i] ELSE file[i]

(***************************************************************************)
(* The first line of the file, as p sees it, that satisfies the test T.    *)
(***************************************************************************)
FirstLine(p, T(_), i) ==
  /\ i \in 1 .. Len(file)
  /\ T(View(p, i))
  /\ \A j \in 1 .. i - 1 : ~ T(View(p, j))

NoLine(p, T(_)) == \A j \in 1 .. Len(file) : ~ T(View(p, j))

(* Mutants: first fit without the test for '#'; a clear without the test   *)
(* of the pid.                                                             *)
IsFree_Any(l) == TRUE
HasPid_Any(l, pid) == ~ l.free

IsFree(l) == l.free
HasPid(l, pid) == ~ l.free /\ l.pid = pid
HasTag(l, name) == ~ l.free /\ l.tag \in PrefixOf[name]

Goto(p, l) == pc' = [pc EXCEPT ![p] = l]
Return(p, r) == ret' = [ret EXCEPT ![p] = r]

(* The call is over and its locals are gone.                               *)
Leave(p) == /\ Goto(p, "idle")
            /\ req' = [req EXCEPT ![p] = NoRequest]
            /\ pos' = [pos EXCEPT ![p] = 0]

-----------------------------------------------------------------------------

(***************************************************************************)
(* A process calls one of the operations.                                  *)
(***************************************************************************)
Call(p, r) ==
  /\ pc[p] = "idle"
  /\ req' = [req EXCEPT ![p] = r]
  /\ Return(p, "none")
  /\ Goto(p, "lock")
  /\ UNCHANGED <<file, lock, pos, cache>>

CallMark(p, pid, tag) == Call(p, [op |-> "mark", pid |-> pid, tag |-> tag])
CallClear(p, pid) ==
  Call(p, [op |-> "clear", pid |-> pid, tag |-> AnyTag])
CallGetpid(p, name) ==
  Call(p, [op |-> "getpid", pid |-> AnyPid, tag |-> name])

(* Mutants: a lock that does not exclude (F_RDLCK), a lock that does not   *)
(* know its owner (a process that still holds it waits for itself).        *)
Grantable_Shared(p) == TRUE
Grantable_NotOwn(p) == lock = NoProc

Grantable(p) == lock \in {NoProc, p}

(***************************************************************************)
(* zoo_lock(): fcntl(F_SETLKW) sleeps until no other process holds a lock  *)
(* on the file; EINTR is retried, so a signal never shows here.            *)
(***************************************************************************)
Lock(p) ==
  /\ pc[p] = "lock"
  /\ Grantable(p)
  /\ lock' = p
  /\ Goto(p, "scan")
  /\ UNCHANGED <<file, req, pos, cache, ret>>

(***************************************************************************)
(* zoo_lock() gives up on an fcntl() error other than EINTR.               *)
(***************************************************************************)
LockFails(p) ==
  /\ pc[p] = "lock"
  /\ Leave(p)
  /\ Return(p, "error")
  /\ UNCHANGED <<file, lock, cache>>

(***************************************************************************)
(* zoo_mark(): first fit, the first available line or the end of the file. *)
(***************************************************************************)
ScanMark(p) ==
  /\ pc[p] = "scan" /\ req[p].op = "mark"
  /\ \/ \E i \in 1 .. Len(file) :
          /\ FirstLine(p, IsFree, i)
          /\ pos' = [pos EXCEPT ![p] = i]
     \/ /\ NoLine(p, IsFree)
        /\ Len(file) < MaxLines
        /\ pos' = [pos EXCEPT ![p] = Len(file) + 1]
  /\ Goto(p, "flush")
  /\ UNCHANGED <<file, lock, req, cache, ret>>

(***************************************************************************)
(* zoo_clear(): the first line in use whose number is the pid; without one *)
(* the scan has read to the end of the file, and 1 is returned.            *)
(***************************************************************************)
ScanClear(p) ==
  LET Mine(l) == HasPid(l, req[p].pid) IN
  /\ pc[p] = "scan" /\ req[p].op = "clear"
  /\ \/ \E i \in 1 .. Len(file) :
          /\ FirstLine(p, Mine, i)
          /\ pos' = [pos EXCEPT ![p] = i]
          /\ Goto(p, "flush")
          /\ UNCHANGED <<cache, ret>>
     \/ /\ NoLine(p, Mine)
        /\ cache' = [cache EXCEPT ![p] = <<>>]
        /\ Return(p, "notfound")
        /\ Goto(p, "unlock")
        /\ UNCHANGED pos
  /\ UNCHANGED <<file, lock, req>>

(***************************************************************************)
(* What the stream keeps buffered when a scan stops at line i: the lines   *)
(* it has read so far, unless it had to read past them, in which case the  *)
(* buffer no longer starts at the first line and rewind() drops it.        *)
(***************************************************************************)
Buffered(p, i) ==
  CASE cache[p] = <<>>     -> file
    [] i <= Len(cache[p])  -> cache[p]
    [] OTHER               -> <<>>

(***************************************************************************)
(* zoo_getpid(): the pid of the first line in use whose tag begins with    *)
(* the name (strncmp over the name's length), or -1.                       *)
(***************************************************************************)
ScanGetpid(p) ==
  LET Named(l) == HasTag(l, req[p].tag) IN
  /\ pc[p] = "scan" /\ req[p].op = "getpid"
  /\ \/ \E i \in 1 .. Len(file) :
          /\ FirstLine(p, Named, i)
          /\ Return(p, View(p, i).pid)
          /\ cache' = [cache EXCEPT ![p] = Buffered(p, i)]
     \/ /\ NoLine(p, Named)
        /\ Return(p, NoPid)
        /\ cache' = [cache EXCEPT ![p] = <<>>]
  /\ Goto(p, "unlock")
  /\ UNCHANGED <<file, lock, req, pos>>

(***************************************************************************)
(* An fseek() error: the caller gets -1 and the lock is left held.         *)
(***************************************************************************)
SeekFails(p) ==
  /\ pc[p] = "scan" /\ req[p].op \in {"mark", "clear"}
  /\ Leave(p)
  /\ Return(p, "error")
  /\ UNCHANGED <<file, lock, cache>>

(* Mutant: a clear that wipes the number out, not its first character.     *)
Freed_Wiped(l) == [l EXCEPT !.free = TRUE, !.pid = NoPid]

Freed(l) == [l EXCEPT !.free = TRUE]

(***************************************************************************)
(* fprintf() or fputs() at the position found, and fflush(): a mark writes *)
(* the whole line, a clear only the '#' of whatever line is there.         *)
(***************************************************************************)
Flush(p) ==
  LET r == req[p] IN
  /\ pc[p] = "flush"
  /\ file' = IF r.op = "clear"
             THEN [file EXCEPT ![pos[p]] = Freed(@)]
             ELSE LET l == [free |-> FALSE, pid |-> r.pid, tag |-> r.tag]
                  IN  IF pos[p] <= Len(file)
                      THEN [file EXCEPT ![pos[p]] = l]
                      ELSE Append(file, l)
  /\ cache' = [cache EXCEPT ![p] = <<>>]
  /\ Return(p, "ok")
  /\ Goto(p, "unlock")
  /\ UNCHANGED <<lock, req, pos>>

(***************************************************************************)
(* zoo_unlock(), and the call returns.                                     *)
(***************************************************************************)
Unlock(p) ==
  /\ pc[p] = "unlock"
  /\ lock' = NoProc
  /\ Leave(p)
  /\ UNCHANGED <<file, cache, ret>>

(***************************************************************************)
(* The fcntl() of zoo_unlock() fails, like the one of zoo_lock() not with  *)
(* EINTR: every caller returns -1, whatever it has done or found, and the  *)
(* lock stays with the process.                                            *)
(***************************************************************************)
UnlockFails(p) ==
  /\ pc[p] = "unlock"
  /\ Leave(p)
  /\ Return(p, "error")
  /\ UNCHANGED <<file, lock, cache>>

(***************************************************************************)
(* The process ends, killed or not, at any point of a call: the kernel     *)
(* drops its lock, what its stream had not written is gone.                *)
(***************************************************************************)
Exit(p) ==
  /\ lock' = IF lock = p THEN NoProc ELSE lock
  /\ cache' = [cache EXCEPT ![p] = <<>>]
  /\ Leave(p)
  /\ Return(p, "none")
  /\ UNCHANGED file

Step(p) ==
  \/ Lock(p) \/ LockFails(p)
  \/ ScanMark(p) \/ ScanClear(p) \/ ScanGetpid(p) \/ SeekFails(p)
  \/ Flush(p) \/ Unlock(p) \/ UnlockFails(p)

Next ==
  \E p \in Proc :
    \/ /\ p \in Writer
       /\ \E pid \in Pid : \/ \E tag \in Tag : CallMark(p, pid, tag)
                           \/ CallClear(p, pid)
    \/ /\ p \in Reader
       /\ \E name \in Tag : CallGetpid(p, name)
    \/ Step(p)
    \/ Exit(p)

Spec == Init /\ [][Next]_vars

-----------------------------------------------------------------------------

(***************************************************************************)
(* Between zoo_lock() and zoo_unlock() a process is alone: this is what    *)
(* keeps two first-fit scans from choosing the same line.                  *)
(***************************************************************************)
Critical(p) == pc[p] \in {"scan", "flush", "unlock"}

MutualExclusion ==
  \A p, q \in Proc : Critical(p) /\ Critical(q) => p = q

(***************************************************************************)
(* The line a process is about to write is, on disk, one it may write: an  *)
(* available line or the end of the file for a mark, a line of the pid to  *)
(* be cleared for a clear.  It was chosen two steps earlier.               *)
(***************************************************************************)
WritesItsLine ==
  \A p \in Proc : pc[p] = "flush" =>
    \/ /\ req[p].op = "mark"
       /\ \/ pos[p] = Len(file) + 1
          \/ pos[p] \in 1 .. Len(file) /\ file[pos[p]].free
    \/ /\ req[p].op = "clear"
       /\ pos[p] \in 1 .. Len(file)
       /\ HasPid(file[pos[p]], req[p].pid)

(***************************************************************************)
(* The zoo that the file stands for.                                       *)
(***************************************************************************)
Cages ==
  {[cage |-> i, pid |-> file[i].pid, tag |-> file[i].tag] :
      i \in {j \in 1 .. Len(file) : ~ file[j].free}}

(* From the effect of a request until its call is over its answer is known *)
(* and not yet told.                                                       *)
Answer == [p \in Proc |-> IF pc[p] = "unlock" THEN ret[p] ELSE "none"]
Told == [p \in Proc |-> IF pc[p] = "idle" THEN ret[p] ELSE "none"]

Abstract ==
  INSTANCE ZooSpec WITH Cage <- 1 .. MaxLines, cages <- Cages, asked <- req,
                        answer <- Answer, told <- Told

(***************************************************************************)
(* Every operation on the shared file, however the processes interleave    *)
(* and wherever one fails or dies, takes effect as one step of the zoo's   *)
(* contract, once at most: nothing is overwritten, nothing else is         *)
(* cleared, and who is told that it went well, or that there was no such   *)
(* entry, is told so rightly.                                              *)
(***************************************************************************)
ImplementsZooSpec == Abstract!Spec

=============================================================================

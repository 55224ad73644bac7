----------------------------- MODULE Checkpoint -----------------------------
(***************************************************************************)
(* The checkpoints of src/lib/tst_checkpoint.c: a parent and its child     *)
(* meet over a FIFO in the test's temporary directory.  In every round of  *)
(* the test (TEST_LOOPING) the parent forks a child, one of the two waits  *)
(* at the checkpoint for the other, and the parent then waits for the      *)
(* child to end, as flock03, creat07 and src/lib/tests/tst_checkpoint_*.c  *)
(* do.                                                                     *)
(*                                                                         *)
(* External is what a FIFO does: open() of one side blocks until the other *)
(* side is open too, and a process that waits in it counts as a reader or  *)
(* a writer already; what is in the FIFO is lost when nobody has it open.  *)
(***************************************************************************)
EXTENDS Naturals

CONSTANTS
  CpRounds       \* bound: rounds of the test

ASSUME CpAssumption == CpRounds \in Nat \ {0}

VARIABLES
  cpWay,         \* "toParent": the parent waits, "toChild": the child does
  cpRound,
  parent,        \* where the parent is, see ParentStates
  child,         \* where the child of this round is, see ChildStates
  fifo,          \* the FIFO has a name
  byte,          \* the byte in the FIFO: the round it was written in, 0: none
  seen,          \* the parent's open file has had a writer
  signalled      \* the last round whose signal has been written

cpVars == <<cpWay, cpRound, parent, child, fifo, byte, seen, signalled>>

(* "ready" is before the call, "opening" in a blocking open(), "reader"    *)
(* and "writer" with the FIFO open, "past" behind the checkpoint;          *)
(* "breaking" is in tst_brkm() before its cleanup function.                *)
ParentStates == {"ready", "opening", "reader", "writer", "past", "breaking",
                 "ended"}
ChildStates == {"ready", "opening", "reader", "writer", "past", "gone",
                "failed"}

CpTypeOK ==
  /\ cpWay \in {"toParent", "toChild"}
  /\ cpRound \in 1 .. CpRounds
  /\ parent \in ParentStates /\ child \in ChildStates
  /\ fifo \in BOOLEAN /\ seen \in BOOLEAN
  /\ byte \in 0 .. CpRounds /\ signalled \in 0 .. CpRounds

(* tst_checkpoint_init() and the first fork().                             *)
CpInit ==
  /\ cpWay \in {"toParent", "toChild"}
  /\ cpRound = 1
  /\ parent = "ready" /\ child = "ready"
  /\ fifo = TRUE /\ byte = 0 /\ seen = FALSE /\ signalled = 0

Opened == {"opening", "reader", "writer"}
Dead == {"gone", "failed"}

(* What the FIFO keeps once one side has closed it.                        *)
Kept(other) == IF other \in Opened THEN byte ELSE 0

(* The other side's open() returns when this side opens.                   *)
Woken(other, as) == IF other = "opening" THEN as ELSE other

-----------------------------------------------------------------------------

(***************************************************************************)
(* tst_checkpoint_parent_wait()                                            *)
(***************************************************************************)

(* Mutant: the open() of the parent is a blocking one.                     *)
ParentOpens_Blocking == IF child = "opening" THEN "reader" ELSE "opening"

(* O_RDONLY | O_NONBLOCK: it does not wait for the child.                  *)
ParentOpens == "reader"

ParentWait ==
  /\ cpWay = "toParent" /\ parent = "ready"
  /\ parent' = ParentOpens
  /\ child' = Woken(child, "writer")
  /\ seen' = (child = "opening")
  /\ UNCHANGED <<cpWay, cpRound, fifo, byte, signalled>>

Ready == byte # 0 \/ (seen /\ child \notin Opened)

(* Mutant: a FIFO that is ready has been signalled.                        *)
ReadTells_Ready == TRUE

(* read() returns 0 when the child has closed the FIFO without a signal.   *)
ReadTells == byte # 0

(***************************************************************************)
(* poll() says that there is a byte or that the writer has gone; the       *)
(* parent reads and closes.                                                *)
(***************************************************************************)
ParentReads ==
  /\ parent = "reader" /\ Ready
  /\ parent' = IF ReadTells THEN "past" ELSE "breaking"
  /\ byte' = 0
  /\ UNCHANGED <<cpWay, cpRound, child, fifo, seen, signalled>>

(* The timeout of 5000 ms, whoever is slow.                                *)
PollTimesOut ==
  /\ parent = "reader" /\ ~ Ready
  /\ parent' = "breaking"
  /\ byte' = Kept(child)
  /\ UNCHANGED <<cpWay, cpRound, child, fifo, seen, signalled>>

(***************************************************************************)
(* The end of tst_brkm(): a cleanup function removes the directory, a      *)
(* NULL one, as in creat07, leaves the FIFO there.                         *)
(***************************************************************************)
ParentBreaks(cleanup) ==
  /\ parent = "breaking"
  /\ parent' = "ended"
  /\ fifo' = ~ cleanup
  /\ UNCHANGED <<cpWay, cpRound, child, byte, seen, signalled>>

(* tst_checkpoint_signal_child(): there is no timeout.                     *)
SignalChild ==
  /\ cpWay = "toChild" /\ parent = "ready"
  /\ parent' = IF child = "opening" THEN "writer" ELSE "opening"
  /\ child' = Woken(child, "reader")
  /\ UNCHANGED <<cpWay, cpRound, fifo, byte, seen, signalled>>

(* Its write(), which fails (EPIPE, SIGPIPE) without a reader, and close().*)
SignalsChild ==
  /\ parent = "writer"
  /\ IF child \in Opened
     THEN parent' = "past" /\ byte' = cpRound /\ signalled' = cpRound
     ELSE parent' = "breaking" /\ UNCHANGED <<byte, signalled>>
  /\ UNCHANGED <<cpWay, cpRound, child, fifo, seen>>

-----------------------------------------------------------------------------

(***************************************************************************)
(* tst_checkpoint_signal_parent() and tst_checkpoint_child_wait(): the     *)
(* blocking open() of the child; without the FIFO it does exit(retval).    *)
(***************************************************************************)
ChildOpens ==
  LET mine == IF cpWay = "toParent" THEN "writer" ELSE "reader" IN
  /\ child = "ready"
  /\ child' = IF ~ fifo THEN "failed"
              ELSE IF parent \in Opened THEN mine ELSE "opening"
  /\ IF fifo
     THEN /\ parent' = Woken(parent, "writer")
          /\ seen' = (cpWay = "toParent" /\ parent = "reader")
     ELSE UNCHANGED <<parent, seen>>
  /\ UNCHANGED <<cpWay, cpRound, fifo, byte, signalled>>

SignalsParent ==
  /\ child = "writer"
  /\ IF parent \in Opened
     THEN child' = "past" /\ byte' = cpRound /\ signalled' = cpRound
     ELSE child' = "failed" /\ UNCHANGED <<byte, signalled>>
  /\ UNCHANGED <<cpWay, cpRound, parent, fifo, seen>>

(* read() blocks as long as there is a writer and no byte.                 *)
MustWait == byte = 0 /\ parent \in Opened

(***************************************************************************)
(* The child reads; when the parent has gone without a byte, read()        *)
(* returns 0, which is not looked at: ch has never been written, and what  *)
(* it happens to hold decides.                                             *)
(***************************************************************************)
ChildReads(ch) ==
  /\ child = "reader" /\ ~ MustWait
  /\ byte # 0 => ch = "p"
  /\ child' = IF ch = "p" THEN "past" ELSE "failed"
  /\ byte' = 0
  /\ UNCHANGED <<cpWay, cpRound, parent, fifo, seen, signalled>>

-----------------------------------------------------------------------------

(* The child goes on with the test and ends.                               *)
ChildEnds ==
  /\ child = "past" /\ child' = "gone"
  /\ UNCHANGED <<cpWay, cpRound, parent, fifo, byte, seen, signalled>>

(* A child may be killed or exit before the checkpoint, a parent be killed.*)
ChildDies ==
  /\ child \notin Dead /\ child' = "failed"
  /\ byte' = Kept(parent)
  /\ UNCHANGED <<cpWay, cpRound, parent, fifo, seen, signalled>>

ParentDies ==
  /\ parent # "ended" /\ parent' = "ended"
  /\ byte' = Kept(child)
  /\ UNCHANGED <<cpWay, cpRound, child, fifo, seen, signalled>>

(* usc_test_looping()                                                      *)
TestLooping(n) == n < CpRounds

(* The parent has waited for the child: the next round or the end.         *)
NextRound ==
  /\ parent = "past" /\ child \in Dead /\ TestLooping(cpRound)
  /\ cpRound' = cpRound + 1
  /\ parent' = "ready" /\ child' = "ready" /\ seen' = FALSE
  /\ UNCHANGED <<cpWay, fifo, byte, signalled>>

LastRound ==
  /\ parent = "past" /\ child \in Dead
  /\ parent' = "ended" /\ fifo' = FALSE
  /\ UNCHANGED <<cpWay, cpRound, child, byte, seen, signalled>>

ParentSteps ==
  \/ ParentWait \/ ParentReads \/ PollTimesOut \/ SignalChild \/ SignalsChild
  \/ NextRound \/ LastRound
  \/ \E cleanup \in BOOLEAN : ParentBreaks(cleanup)

ChildSteps ==
  \/ ChildOpens \/ SignalsParent \/ ChildEnds
  \/ \E ch \in {"p", "other"} : ChildReads(ch)

CpNext == ParentSteps \/ ChildSteps \/ ChildDies \/ ParentDies

(* Both processes are scheduled; poll() ends after its timeout.            *)
CpFairness == WF_cpVars(ParentSteps) /\ WF_cpVars(ChildSteps)

CpSpec == CpInit /\ [][CpNext]_cpVars /\ CpFairness

-----------------------------------------------------------------------------

(***************************************************************************)
(* Neither side passes the checkpoint before the other has reached it in   *)
(* the same round: the parent is past only if this round's child has       *)
(* signalled, and a byte of an earlier round is never taken for it; the    *)
(* child is past only if the parent has signalled, or has ended without    *)
(* (the read() that is not looked at).                                     *)
(***************************************************************************)
NobodyRunsAhead ==
  /\ byte \in {0, cpRound}
  /\ parent = "past" => signalled = cpRound
  /\ child \in {"past", "gone"} =>
       signalled = cpRound \/ parent \in {"breaking", "ended"}

(***************************************************************************)
(* tst_checkpoint_parent_wait() comes back whatever the child does: it     *)
(* opens without waiting and polls with a timeout.  And nobody else waits  *)
(* for ever for a process that goes on: a child in its open() or read()    *)
(* comes back, or the parent has ended before it opened the FIFO itself; a *)
(* parent in its open() comes back, or the child has ended.  A parent      *)
(* behind the checkpoint, which waits for its child, gets to an end.       *)
(***************************************************************************)
Waits == cpWay = "toParent" /\ parent \in {"ready"} \cup Opened

HangsOnlyAlone ==
  /\ Waits ~> ~ Waits
  /\ child \in Opened ~> child \notin Opened \/ parent \in {"breaking", "ended"}
  /\ parent \in Opened ~> parent \notin Opened \/ child \in Dead
  /\ parent = "past" ~> parent # "past"

=============================================================================

------------------------------ MODULE SyncPipe ------------------------------
(***************************************************************************)
(* The pipes between a test and its children of src/lib/libtestsuite.c, as *)
(* semctl01, semop05, shmctl01 and the msg*05 tests use them: for every    *)
(* child the parent creates a pipe, forks, waits for the child's byte and  *)
(* closes; the child notifies and closes.                                  *)
(*                                                                         *)
(* With fork() the two share a pipe().  Without it (UCLINUX) the child is  *)
(* executed anew and finds a FIFO by its name, opened O_RDWR, in /tmp; its *)
(* sync_pipe_close() then removes the name ("unlinks", as in semop05) or   *)
(* not ("named", as in semctl01).  External: pipes, FIFOs and their names. *)
(***************************************************************************)
EXTENDS Naturals, FiniteSets

CONSTANTS
  SpRounds       \* bound: children, one after the other

ASSUME SpAssumption == SpRounds \in Nat \ {0}

VARIABLES
  spWay,         \* "shared", "named" or "unlinks"
  spRound,
  waiter,        \* the parent: where it is, and fd[0] and fd[1]
  kids,          \* the same of each round's child
  spName,        \* the FIFO the name stands for, 0: none
  spMade,        \* pipes and FIFOs made so far
  spBytes,       \* bytes in each of them
  told           \* rounds whose child has notified

spVars == <<spWay, spRound, waiter, kids, spName, spMade, spBytes, told>>

Pipes == 1 .. 2 * SpRounds
Closed == 0                    \* -1 in the code
At(pc, rd, wr) == [pc |-> pc, rd |-> rd, wr |-> wr]

SpTypeOK ==
  LET Descriptors(pcs) == [pc : pcs, rd : Pipes \cup {Closed},
                           wr : Pipes \cup {Closed}]
  IN
  /\ spWay \in {"shared", "named", "unlinks"}
  /\ spRound \in 1 .. SpRounds
  /\ waiter \in Descriptors({"create", "fork", "wait", "read", "close",
                             "broken", "done"})
  /\ kids \in [1 .. SpRounds -> Descriptors({"none", "create", "notify",
                                             "close", "past", "dead"})]
  /\ spName \in Pipes \cup {0} /\ spMade \in 0 .. 2 * SpRounds
  /\ spBytes \in [Pipes -> Nat]
  /\ told \subseteq 1 .. SpRounds

SpInit ==
  /\ spWay \in {"shared", "named", "unlinks"}
  /\ spRound = 1
  /\ waiter = At("create", Closed, Closed)
  /\ kids = [i \in 1 .. SpRounds |-> At("none", Closed, Closed)]
  /\ spName = 0 /\ spMade = 0 /\ spBytes = [p \in Pipes |-> 0]
  /\ told = {}

Named == spWay # "shared"

(* A FIFO is opened O_RDWR on both descriptors.                            *)
Writes(proc, p) == proc.wr = p \/ (Named /\ proc.rd = p)
Writers(p) == {i \in 1 .. SpRounds : Writes(kids[i], p)}
Reads(proc, p) == proc.rd = p \/ (Named /\ proc.wr = p)

(* sync_pipe_create(): the FIFO of that name, a new one, or a pipe().      *)
Created == IF Named /\ spName # 0 THEN spName ELSE spMade + 1

Create ==
  /\ spMade' = IF Created > spMade THEN Created ELSE spMade
  /\ spName' = IF Named THEN Created ELSE 0

-----------------------------------------------------------------------------

ParentCreates ==
  /\ waiter.pc = "create" /\ Create
  /\ waiter' = At("fork", Created, Created)
  /\ UNCHANGED <<spWay, spRound, kids, spBytes, told>>

(* fork(), and self_exec() without it: the child has yet to find the FIFO. *)
SpFork ==
  /\ waiter.pc = "fork"
  /\ waiter' = [waiter EXCEPT !.pc = "wait"]
  /\ kids' = [kids EXCEPT ![spRound] =
                At(IF Named THEN "create" ELSE "notify", waiter.rd, waiter.wr)]
  /\ UNCHANGED <<spWay, spRound, spName, spMade, spBytes, told>>

(* Mutant: the waiting side keeps its end for writing.                     *)
WaitCloses_No(p) == p
WaitCloses(p) == Closed

(* sync_pipe_wait(), up to its read().                                     *)
SyncPipeWait ==
  /\ waiter.pc = "wait"
  /\ waiter' = [waiter EXCEPT !.pc = "read", !.wr = WaitCloses(@)]
  /\ UNCHANGED <<spWay, spRound, kids, spName, spMade, spBytes, told>>

(* Mutant: what read() returns is not looked at.                           *)
WaitTells_Always(n) == TRUE
WaitTells(n) == n > 0

(***************************************************************************)
(* The read() blocks while there is no byte and somebody could write one;  *)
(* the end of file is an error, on which the test breaks.                  *)
(***************************************************************************)
ParentGets ==
  LET n == spBytes[waiter.rd] IN
  /\ waiter.pc = "read"
  /\ n > 0 \/ ~ (Writes(waiter, waiter.rd) \/ Writers(waiter.rd) # {})
  /\ waiter' = [waiter EXCEPT !.pc = IF WaitTells(n) THEN "close" ELSE "broken"]
  /\ spBytes' = [spBytes EXCEPT ![waiter.rd] = IF n > 0 THEN n - 1 ELSE 0]
  /\ UNCHANGED <<spWay, spRound, kids, spName, spMade, told>>

(* The loop over the children.                                             *)
MoreKids(n) == n < SpRounds

(* sync_pipe_close() of the parent removes the name; the next child.       *)
ParentCloses ==
  /\ waiter.pc = "close"
  /\ waiter' = At(IF MoreKids(spRound) THEN "create" ELSE "done",
                  Closed, Closed)
  /\ spRound' = IF MoreKids(spRound) THEN spRound + 1 ELSE spRound
  /\ spName' = 0
  /\ UNCHANGED <<spWay, kids, spMade, spBytes, told>>

-----------------------------------------------------------------------------

KidCreates(i) ==
  /\ kids[i].pc = "create" /\ Create
  /\ kids' = [kids EXCEPT ![i] = At("notify", Created, Created)]
  /\ UNCHANGED <<spWay, spRound, waiter, spBytes, told>>

(* sync_pipe_notify(): it closes fd[0]; without a reader SIGPIPE kills it. *)
SyncPipeNotify(i) ==
  LET p == kids[i].wr
      heard == Named \/ Reads(waiter, p)
  IN
  /\ kids[i].pc = "notify"
  /\ kids' = [kids EXCEPT ![i] = IF heard THEN At("close", Closed, p)
                                 ELSE At("dead", Closed, Closed)]
  /\ spBytes' = [spBytes EXCEPT ![p] = IF heard THEN @ + 1 ELSE @]
  /\ told' = IF heard THEN told \cup {i} ELSE told
  /\ UNCHANGED <<spWay, spRound, waiter, spName, spMade>>

(* Mutant: a child removes the name it has not made.                       *)
KidUnlinks_Any == Named
KidUnlinks == spWay = "unlinks"

KidCloses(i) ==
  /\ kids[i].pc = "close"
  /\ kids' = [kids EXCEPT ![i] = At("past", Closed, Closed)]
  /\ spName' = IF KidUnlinks THEN 0 ELSE spName
  /\ UNCHANGED <<spWay, spRound, waiter, spMade, spBytes, told>>

KidDies(i) ==
  /\ kids[i].pc \in {"create", "notify", "close"}
  /\ kids' = [kids EXCEPT ![i] = At("dead", Closed, Closed)]
  /\ UNCHANGED <<spWay, spRound, waiter, spName, spMade, spBytes, told>>

ParentStep ==
  ParentCreates \/ SpFork \/ SyncPipeWait \/ ParentGets \/ ParentCloses
KidStep(i) == KidCreates(i) \/ SyncPipeNotify(i) \/ KidCloses(i)

SpNext == ParentStep \/ \E i \in 1 .. SpRounds : KidStep(i) \/ KidDies(i)

(* Every process is scheduled.                                             *)
SpFairness ==
  WF_spVars(ParentStep) /\ \A i \in 1 .. SpRounds : WF_spVars(KidStep(i))

SpSpec == SpInit /\ [][SpNext]_spVars /\ SpFairness

-----------------------------------------------------------------------------

(***************************************************************************)
(* The parent goes on only when this round's child has notified, though    *)
(* the children of earlier rounds may still be closing, and FIFOs of one   *)
(* name come and go.                                                       *)
(***************************************************************************)
HeardItsChild == waiter.pc = "close" => spRound \in told

(***************************************************************************)
(* A child that looks for the FIFO by its name notifies the very FIFO its  *)
(* parent waits at, as long as no earlier child removes the name.          *)
(***************************************************************************)
SameFifo ==
  spWay # "unlinks" /\ kids[spRound].pc = "notify" /\ waiter.rd # Closed =>
    kids[spRound].wr = waiter.rd

(***************************************************************************)
(* sync_pipe_wait() on a shared pipe comes back even if the child dies     *)
(* first, and a child that has notified is heard in any case.              *)
(***************************************************************************)
InWait == waiter.pc \in {"wait", "read"}
SyncWaitEnds ==
  /\ spWay = "shared" /\ InWait ~> ~ InWait
  /\ \A i \in 1 .. SpRounds :
       spWay # "unlinks" /\ i \in told ~>
         spRound > i \/ waiter.pc \in {"close", "done"}

=============================================================================

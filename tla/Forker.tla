------------------------------- MODULE Forker -------------------------------
(***************************************************************************)
(* forker() of src/lib/forker.c and the copies it makes of growfiles, the  *)
(* program that calls it: with -y a copy that has had too many errors      *)
(* tells the others to stop with SIGUSR2, and so does a copy that is told. *)
(* A copy is known by its number, 0 is the original process and the others *)
(* come in the order of their fork(); all are in one process group.        *)
(***************************************************************************)
EXTENDS Naturals

CONSTANTS
  FkCopies,      \* ncopies
  FkSizes        \* what FORKER_MAX_PIDS may be

ASSUME FkAssumption == FkCopies \in Nat \ {0} /\ FkSizes \subseteq Nat \ {0}

VARIABLES
  fkMode,        \* 0: all are children of the original, 1: a chain
  fkMax,         \* FORKER_MAX_PIDS
  copies         \* what each copy has

fkConfig == <<fkMode, fkMax>>
fkVars == <<fkConfig, copies>>

CopyNos == 0 .. FkCopies - 1

(***************************************************************************)
(* "none" is not forked yet, "forker" in the loop of forker(), "count" and *)
(* "store" behind a fork(), on either side, before Forker_npids++ and      *)
(* before the entry of kid in Forker_pids, "copy" has returned, "notify"   *)
(* is in notify_others().  Places of Forker_pids count from 1; one that    *)
(* has never been written is 0.                                            *)
(***************************************************************************)
CopyStates == {"none", "forker", "count", "store", "copy", "notify", "exited"}
Places == 1 .. fkMax

FkTypeOK ==
  /\ fkMode \in {0, 1} /\ fkMax \in FkSizes
  /\ copies \in [CopyNos ->
       [pc : CopyStates, cnt : 1 .. FkCopies, kid : CopyNos,
        npids : CopyNos, pids : [Places -> CopyNos], ret : CopyNos, ind : Nat,
        failed : BOOLEAN, sent : BOOLEAN, handler : BOOLEAN, pending : BOOLEAN]]

Original == [pc |-> "forker", cnt |-> 1, kid |-> 0, npids |-> 0,
             pids |-> [i \in Places |-> 0], ret |-> 0, ind |-> 1,
             failed |-> FALSE, sent |-> FALSE, handler |-> FALSE,
             pending |-> FALSE]

FkInit ==
  /\ fkMode \in {0, 1} /\ fkMax \in FkSizes
  /\ copies = [p \in CopyNos |->
                 IF p = 0 THEN Original ELSE [Original EXCEPT !.pc = "none"]]

Forked(p) == copies[p].pc # "none"
Runs(c) == c.pc \notin {"none", "exited"}

-----------------------------------------------------------------------------

(***************************************************************************)
(* fork() in forker(); neither side has counted the new process yet.       *)
(***************************************************************************)
FkFork(p) ==
  \E q \in CopyNos :
    /\ copies[p].pc = "forker" /\ copies[p].cnt < FkCopies
    /\ ~ Forked(q) /\ \A r \in 0 .. q - 1 : Forked(r)
    /\ copies' = [copies EXCEPT
         ![p] = [@ EXCEPT !.pc = "count", !.kid = q],
         ![q] = [copies[p] EXCEPT !.pc = "count", !.kid = q,
                                  !.pending = FALSE]]
    /\ UNCHANGED fkConfig

(* The copies made so far, without the process itself.                     *)
Made(cnt) == cnt - 1

(* fork() fails: forker() returns what it has made, or 0 in a chain.       *)
FkForkFails(p) ==
  /\ copies[p].pc = "forker" /\ copies[p].cnt < FkCopies
  /\ copies' = [copies EXCEPT ![p].pc = "copy",
                  ![p].ret = IF fkMode = 1 THEN 0 ELSE Made(copies[p].cnt)]
  /\ UNCHANGED fkConfig

(* Mutant: the place is looked up after the count has gone up.             *)
Stored_Next(n) == n + 1 < fkMax
Stored(n) == n < fkMax

(* Mutant: the parent in a chain returns what the child would.             *)
ReturnsNow_Cnt(cnt) == cnt
ReturnsNow(cnt) == IF fkMode = 1 THEN Made(cnt) ELSE cnt

(* Forker_npids++, on both sides, before the entry.  (Where the compiler   *)
(* turns the two stores round nobody sees it: the entry is not read before *)
(* it is counted.)                                                         *)
FkCount(p) ==
  /\ copies[p].pc = "count"
  /\ copies' = [copies EXCEPT ![p].pc = "store", ![p].npids = @ + 1]
  /\ UNCHANGED fkConfig

(***************************************************************************)
(* The entry in Forker_pids.  In mode 0 the child returns and the parent   *)
(* goes on, in mode 1 the other way round.                                 *)
(***************************************************************************)
FkStore(p) ==
  LET c == copies[p]
      d == IF Stored(c.npids) THEN [c EXCEPT !.pids[c.npids] = c.kid] ELSE c
  IN
  /\ c.pc = "store"
  /\ copies' = [copies EXCEPT ![p] =
       IF (c.kid = p) = (fkMode = 1)
       THEN [d EXCEPT !.pc = "forker", !.cnt = @ + 1]
       ELSE [d EXCEPT !.pc = "copy", !.ret = ReturnsNow(c.cnt)]]
  /\ UNCHANGED fkConfig

FkReturns(p) ==
  /\ copies[p].pc = "forker" /\ copies[p].cnt = FkCopies
  /\ copies' = [copies EXCEPT ![p].pc = "copy", ![p].ret = Made(copies[p].cnt)]
  /\ UNCHANGED fkConfig

-----------------------------------------------------------------------------

(***************************************************************************)
(* What forker() had in hand is of no account once a copy has to stop, nor *)
(* where it was and what it had been sent once it is gone.                 *)
(***************************************************************************)
Stopping(c) == [c EXCEPT !.cnt = 1, !.kid = 0, !.ret = 0]
Gone(c) == [Stopping(c) EXCEPT !.pc = "exited", !.ind = 1, !.handler = FALSE,
                               !.pending = FALSE]

(* notify_others() is entered: it sends only once.                         *)
Notifies(c) == IF c.sent THEN Gone(c)
               ELSE [Stopping(c) EXCEPT !.pc = "notify", !.sent = TRUE]

(* handle_error() has hit Maxerrs.                                         *)
FkFails(p) ==
  /\ copies[p].pc = "copy"
  /\ copies' = [copies EXCEPT ![p] = Notifies([@ EXCEPT !.failed = TRUE])]
  /\ UNCHANGED fkConfig

(* A copy has done its work.                                               *)
FkDone(p) ==
  /\ copies[p].pc = "copy"
  /\ copies' = [copies EXCEPT ![p] = Gone(@)]
  /\ UNCHANGED fkConfig

(***************************************************************************)
(* sig_handler(): SIGUSR2, which is blocked while it runs, comes at any    *)
(* point of the program, also inside forker().                             *)
(***************************************************************************)
SigHandler(p) ==
  /\ Runs(copies[p]) /\ copies[p].pending /\ ~ copies[p].handler
  /\ copies' = [copies EXCEPT ![p] =
                  Notifies([@ EXCEPT !.handler = TRUE, !.pending = FALSE])]
  /\ UNCHANGED fkConfig

(* Mutant: a copy that is told to stop does not tell its own.              *)
PassesOn_No(c) == ~ c.handler
PassesOn(c) == TRUE

(***************************************************************************)
(* Whom kill() reaches at a place: 0 means the process group, and behind   *)
(* the array the loop reads what happens to be in memory there.            *)
(***************************************************************************)
Targets(c, i) ==
  IF i \notin Places THEN {{}, CopyNos} \cup {{q} : q \in CopyNos}
  ELSE IF c.pids[i] = 0 THEN {CopyNos} ELSE {{c.pids[i]}}

(***************************************************************************)
(* One turn of the loop: kill() is called for every entry, the copy's own  *)
(* too (the condition above it guards the message alone).  Its own signal  *)
(* is delivered before kill() comes back, unless the copy is in the        *)
(* handler: there is no second notify_others() then, and the handler       *)
(* exits.                                                                  *)
(***************************************************************************)
Sends(p) ==
  LET c == copies[p] IN
  /\ c.pc = "notify" /\ c.ind <= c.npids /\ PassesOn(c)
  /\ \E hit \in Targets(c, c.ind) :
       copies' = [q \in CopyNos |->
         IF q = p
         THEN IF p \in hit /\ ~ c.handler THEN Gone(c)
              ELSE [c EXCEPT !.ind = @ + 1]
         ELSE IF q \in hit /\ Runs(copies[q])
              THEN [copies[q] EXCEPT !.pending = TRUE] ELSE copies[q]]
  /\ UNCHANGED fkConfig

(* cleanup() and exit() after it.                                          *)
FkExits(p) ==
  /\ copies[p].pc = "notify"
  /\ copies[p].ind > copies[p].npids \/ ~ PassesOn(copies[p])
  /\ copies' = [copies EXCEPT ![p] = Gone(@)]
  /\ UNCHANGED fkConfig

FkStep(p) ==
  FkFork(p) \/ FkCount(p) \/ FkStore(p) \/ FkReturns(p) \/ SigHandler(p)
  \/ Sends(p) \/ FkExits(p)

FkNext ==
  \E p \in CopyNos : FkStep(p) \/ FkForkFails(p) \/ FkFails(p) \/ FkDone(p)

(* Every copy is scheduled.                                                *)
FkFairness == \A p \in CopyNos : WF_fkVars(FkStep(p))

FkSpec == FkInit /\ [][FkNext]_fkVars /\ FkFairness

-----------------------------------------------------------------------------

(***************************************************************************)
(* "Not all processes will have access to all pids": what a copy has in    *)
(* Forker_pids are the processes forked before it, itself and those it has *)
(* forked, in this order and nothing else, so in mode 0 the original and   *)
(* the last child, in mode 1 the newest child know them all.  A place it   *)
(* has counted is still 0 only when a signal has come between the count    *)
(* and the entry; the last place of the array always is: one pid fewer     *)
(* is stored than the array has room for, and than the manual says.        *)
(***************************************************************************)
KnowsTheFirst ==
  \A p \in CopyNos : LET c == copies[p] IN
    /\ \A i \in Places :
         /\ c.pids[i] \in {0, i}
         /\ i > c.npids => c.pids[i] = 0
         /\ i < fkMax /\ (i < c.npids \/ (i = c.npids /\ c.pc = "copy"))
              => c.pids[i] = i
    /\ c.pc = "copy" => c.npids >= p /\ c.npids <= c.cnt

(***************************************************************************)
(* How far what forker() returns tells the copies apart: two that return   *)
(* the same value are the original and its last child in mode 0, or the    *)
(* original and the copy in which the chain broke in mode 1.               *)
(***************************************************************************)
ReturnTells ==
  \A p, q \in CopyNos :
    /\ p < q /\ copies[p].pc = "copy" /\ copies[q].pc = "copy"
    /\ copies[p].ret = copies[q].ret
    => /\ p = 0
       /\ IF fkMode = 0 THEN copies[0].npids = q
          ELSE copies[q].npids = q /\ q < FkCopies - 1

(***************************************************************************)
(* When the original has too many errors every copy in its Forker_pids     *)
(* ends, and a copy that is told to stop passes it on to every copy in its *)
(* own before it exits, also if it is told inside forker().                *)
(***************************************************************************)
Stops(c) == c.sent /\ ~ c.failed
StopIsPassedOn ==
  \A q \in CopyNos \ {0} :
    (\E p \in CopyNos :
       /\ \E i \in Places : copies[p].pids[i] = q
       /\ Stops(copies[p]) \/ (p = 0 /\ copies[p].failed))
      ~> copies[q].pc = "exited"

=============================================================================

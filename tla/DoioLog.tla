------------------------------ MODULE DoioLog ------------------------------
(***************************************************************************)
(* The writers of doio (src/testcases/kernel/fs/doio/doio.c) and their     *)
(* common write log (src/lib/write_log.c).  With -k and -w a child locks   *)
(* the region of its request, appends a record with w_done clear, writes,  *)
(* with -v reads back, overlays the record with w_done set and unlocks.    *)
(* What the log says of the file must hold whatever child was killed or    *)
(* failed at whatever point: that is what it is written for.               *)
(*                                                                         *)
(* The file is a row of blocks, the log a sequence of records; a record's  *)
(* place in it stands for its byte offset.  A record is whole unless only  *)
(* the first bytes of it were written, or another was laid over its end.   *)
(* Every request writes data of its own.  External: fcntl() locks,         *)
(* O_APPEND and read().                                                    *)
(***************************************************************************)
EXTENDS Naturals, Sequences, FiniteSets, Functions

CONSTANTS
  Doios,         \* the children of doio
  Blocks,        \* the file has the blocks 1 .. Blocks
  MaxReqs        \* bound: requests of all of them together

ASSUME WlAssumption == Blocks \in Nat \ {0} /\ MaxReqs \in Nat

VARIABLES
  v_opt,         \* -v: writes are read back
  wlog,          \* the records of the log
  file,          \* what each block of the file holds
  doio,          \* the children
  flocks         \* the blocks each child has locked

wlVars == <<v_opt, wlog, file, doio, flocks>>

Nothing == [who |-> "nobody", n |-> 0]
Data == [who : Doios, n : Nat] \cup {Nothing}
Regions == {r \in SUBSET (1 .. Blocks) :
              \E a, b \in 1 .. Blocks : a <= b /\ r = a .. b}
Records == [data : Data, region : Regions, done : BOOLEAN, whole : BOOLEAN]

(***************************************************************************)
(* rec is woffset, 0 for a write that could not be logged, and short tells *)
(* that it was counted back from the end of a record that is not whole;    *)
(* good tells that write() wrote all; pos is the file position of the      *)
(* O_APPEND descriptor.  A child that exits with E_COMPARE is in "compare" *)
(* if it has compared the data, in "unread" if it could not read them.     *)
(***************************************************************************)
Children == [pc : {"idle", "lock", "log", "seek", "write", "verify", "done",
                   "unlock", "exited", "killed", "compare", "unread"},
             n : Nat, region : Regions \cup {{}}, rec : Nat, short : BOOLEAN,
             pos : Nat, good : BOOLEAN]

WlTypeOK ==
  /\ v_opt \in BOOLEAN
  /\ wlog \in Seq(Records)
  /\ file \in [1 .. Blocks -> Data]
  /\ doio \in [Doios -> Children]
  /\ flocks \in [Doios -> SUBSET (1 .. Blocks)]
  /\ \A p \in Doios : doio[p].rec <= Len(wlog) /\ doio[p].pos <= Len(wlog)

(* wlog_open(): the parent has truncated the log, each child opens its own *)
(* descriptors.                                                            *)
WlInit ==
  /\ v_opt \in BOOLEAN
  /\ wlog = <<>>
  /\ file = [b \in 1 .. Blocks |-> Nothing]
  /\ doio = [p \in Doios |-> [pc |-> "idle", n |-> 0, region |-> {}, rec |-> 0,
                              short |-> FALSE, pos |-> 0, good |-> TRUE]]
  /\ flocks = [p \in Doios |-> {}]

Reqs == SumFunction([p \in Doios |-> doio[p].n])
Mine(p) == [who |-> p, n |-> doio[p].n]
Goes(p, pc) == doio' = [doio EXCEPT ![p].pc = pc]
Ended(c) == c.pc \in {"exited", "killed", "compare", "unread"}

(* exit() and a signal close the descriptors, which drops the locks.       *)
Exits(p, how) ==
  /\ Goes(p, how)
  /\ flocks' = [flocks EXCEPT ![p] = {}]
  /\ UNCHANGED <<v_opt, wlog, file>>

-----------------------------------------------------------------------------

(* do_write(): the next request.                                           *)
Request(p, region) ==
  /\ doio[p].pc = "idle" /\ Reqs < MaxReqs
  /\ doio' = [doio EXCEPT ![p] = [@ EXCEPT !.pc = "lock",
                                  !.n = doio[p].n + 1,
                                  !.region = region, !.rec = 0,
                                  !.short = FALSE]]
  /\ UNCHANGED <<v_opt, wlog, file, flocks>>

(* Mutant: the lock is one byte, not nbytes, long.                         *)
LockRegion_First(r) == {b \in r : \A c \in r : b <= c}
LockRegion(r) == r

(* lock_file_region(F_WRLCK) waits for the locks of the others.            *)
LockFileRegion(p) ==
  LET r == LockRegion(doio[p].region) IN
  /\ doio[p].pc = "lock"
  /\ \A q \in Doios \ {p} : flocks[q] \cap r = {}
  /\ flocks' = [flocks EXCEPT ![p] = @ \cup r]
  /\ Goes(p, "log")
  /\ UNCHANGED <<v_opt, wlog, file>>

LockFails(p) == doio[p].pc = "lock" /\ Exits(p, "exited")

Record(p, done, whole) == [data |-> Mine(p), region |-> doio[p].region,
                           done |-> done, whole |-> whole]

(***************************************************************************)
(* wlog_record_write() with offset -1: O_APPEND puts the record at the end *)
(* and leaves this descriptor's position behind it.  A write() of only the *)
(* first bytes of it is taken for success.                                 *)
(***************************************************************************)
LogAppend(p, whole) ==
  /\ doio[p].pc = "log"
  /\ wlog' = Append(wlog, Record(p, FALSE, whole))
  /\ doio' = [doio EXCEPT ![p].pc = "seek", ![p].pos = Len(wlog) + 1,
                          ![p].short = ~ whole]
  /\ UNCHANGED <<v_opt, file, flocks>>

(* Mutant: the position is the end of the log.                             *)
Offset_AtEnd(p) == Len(wlog)

(* lseek(w_afd, 0, SEEK_CUR) - reclen: where the record begins, if it is   *)
(* whole.                                                                  *)
Offset(p) == doio[p].pos

LogSeek(p) ==
  /\ doio[p].pc = "seek"
  /\ doio' = [doio EXCEPT ![p].pc = "write", ![p].rec = Offset(p)]
  /\ UNCHANGED <<v_opt, wlog, file, flocks>>

(* The record could not be written: the request goes on without one.       *)
LogFails(p) ==
  /\ doio[p].pc = "log"
  /\ Goes(p, "write")
  /\ UNCHANGED <<v_opt, wlog, file, flocks>>

(* lseek() in the file fails: do_write() returns -1, on which doio exits.  *)
SeekFileFails(p) == doio[p].pc = "write" /\ Exits(p, "exited")

(***************************************************************************)
(* write() writes the region, the first blocks of it, or nothing; what it  *)
(* returns decides only what do_write() will return.                       *)
(***************************************************************************)
Write(p, written) ==
  /\ doio[p].pc = "write"
  /\ \A b \in written, c \in doio[p].region \ written : b < c
  /\ file' = [b \in 1 .. Blocks |-> IF b \in written THEN Mine(p) ELSE file[b]]
  /\ doio' = [doio EXCEPT ![p].good = (written = doio[p].region),
                          ![p].pc = IF v_opt THEN "verify" ELSE "done"]
  /\ UNCHANGED <<v_opt, wlog, flocks>>

Checks(r, d) == \A b \in r : file[b] = d

(* check_file() reads the region back; if it differs doio exits.           *)
Verify(p) ==
  /\ doio[p].pc = "verify"
  /\ IF Checks(doio[p].region, Mine(p))
     THEN Goes(p, "done") /\ UNCHANGED <<v_opt, wlog, file, flocks>>
     ELSE Exits(p, "compare")

(* check_file() cannot open or read the file, or reads too little: for     *)
(* do_write() this is a difference, too.                                   *)
VerifyFails(p) == doio[p].pc = "verify" /\ Exits(p, "unread")

(***************************************************************************)
(* What wlog_record_write() at woffset, with w_done set, makes of the log. *)
(* If woffset was counted back from the end of a record that is not whole  *)
(* it lies in a record before it, which is spoilt, or before the log, and  *)
(* a negative offset means once more to append.  (If it is -1 the record   *)
(* counts as not logged, and nothing happens here.)  How long each record  *)
(* is is not modelled: all of this may come of any such offset.            *)
(***************************************************************************)
Overlaid(p) ==
  LET i == doio[p].rec IN
  IF ~ doio[p].short THEN {[wlog EXCEPT ![i].done = TRUE]}
  ELSE {[wlog EXCEPT ![j].whole = FALSE] : j \in 1 .. (i - 1)}
         \cup {Append(wlog, Record(p, whole, whole)) : whole \in BOOLEAN}

(* It is called if the write was logged, and its failure is not noticed.   *)
LogDone(p) ==
  /\ doio[p].pc = "done"
  /\ wlog' \in {wlog} \cup IF doio[p].rec = 0 THEN {} ELSE Overlaid(p)
  /\ Goes(p, "unlock")
  /\ UNCHANGED <<v_opt, file, flocks>>

(* lock_file_region(F_UNLCK); after a write() that failed doio exits.      *)
UnlockFileRegion(p) ==
  /\ doio[p].pc = "unlock"
  /\ flocks' = [flocks EXCEPT ![p] = IF doio[p].good
                                     THEN @ \ LockRegion(doio[p].region)
                                     ELSE {}]
  /\ Goes(p, IF doio[p].good THEN "idle" ELSE "exited")
  /\ UNCHANGED <<v_opt, wlog, file>>

UnlockFails(p) == doio[p].pc = "unlock" /\ Exits(p, "exited")

(* SIGINT of the parent, after a compare error of another, or any other.   *)
Killed(p) == ~ Ended(doio[p]) /\ Exits(p, "killed")

WlNext ==
  \E p \in Doios :
    \/ LockFileRegion(p) \/ LockFails(p) \/ LogSeek(p) \/ LogFails(p)
    \/ SeekFileFails(p) \/ Verify(p) \/ VerifyFails(p) \/ LogDone(p)
    \/ UnlockFileRegion(p) \/ UnlockFails(p) \/ Killed(p)
    \/ \E whole \in BOOLEAN : LogAppend(p, whole)
    \/ \E r \in Regions : Request(p, r)
    \/ \E w \in SUBSET doio[p].region : Write(p, w)

WlSpec == WlInit /\ [][WlNext]_wlVars

-----------------------------------------------------------------------------

(* The log is read backwards, as far as the last record that is not whole. *)
Readable(i) == \A j \in i .. Len(wlog) : wlog[j].whole
Covering(b) == {i \in 1 .. Len(wlog) : Readable(i) /\ b \in wlog[i].region}
LastOf(S) == CHOOSE i \in S : \A j \in S : j <= i
Logged(d) == \E i \in 1 .. Len(wlog) : wlog[i].data = d
GoodOf(d) == \A p \in Doios : d = Mine(p) => doio[p].good

(***************************************************************************)
(* "doio_check can do corruption detection across an interrupt/crash": the *)
(* last record that covers a block, of those that can be read, names what  *)
(* the block holds if its w_done is set, whoever wrote the other blocks of *)
(* that region since and whoever was killed where, also in the middle of a *)
(* record.  Without -v a write() that failed is recorded as done all the   *)
(* same (see README), and what could not be logged cannot be found in the  *)
(* log.                                                                    *)
(***************************************************************************)
LogTellsFile ==
  \A b \in 1 .. Blocks :
    Covering(b) # {} /\ (file[b] = Nothing \/ Logged(file[b])) =>
      LET r == wlog[LastOf(Covering(b))] IN
      r.done /\ (v_opt \/ GoodOf(r.data)) => file[b] = r.data

(***************************************************************************)
(* Data that were read and compared differ only if the child's own write() *)
(* failed: what another child writes in the meantime is never taken for    *)
(* corruption.  (E_COMPARE alone does not say so: a child whose check_file *)
(* could not read exits with it as well.)                                  *)
(***************************************************************************)
NoFalseAlarm == \A p \in Doios : doio[p].pc = "compare" => ~ doio[p].good

=============================================================================

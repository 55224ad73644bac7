------------------------------- MODULE LogScan -------------------------------
(***************************************************************************)
(* wlog_scan_backward() of src/lib/write_log.c: the records of a write log *)
(* are handed out from the last to the first.  A record is followed by its *)
(* length in two bytes; the log is read backwards through a buffer, and    *)
(* what is left at its beginning, a piece of a record, is moved to its end *)
(* before the next read.                                                   *)
(*                                                                         *)
(* Positions are byte offsets in the log.  The buffer holds what is        *)
(* between offset and its end; cp is the place of the code's cp.  Where no *)
(* record ends the two bytes before cp may be any.                         *)
(***************************************************************************)
EXTENDS Integers, Sequences

CONSTANTS
  BufSize,       \* sizeof(buf)
  Base,          \* values of a byte
  RecLens,       \* lengths of records
  RecMax,        \* WLOG_REC_MAX_SIZE, sizeof(albuf)
  MaxRecs,       \* bound: records in the log
  NRecs          \* values of nrecs, 0: all

(* A record fits into the buffers with its length, and the length into two *)
(* bytes ("length is asumed to fit into 2 bytes").                         *)
ASSUME LsAssumption ==
  /\ BufSize \in Nat /\ Base \in Nat /\ MaxRecs \in Nat /\ NRecs \subseteq Nat
  /\ RecLens \subseteq Nat \ {0} /\ RecMax \in Nat
  /\ \A n \in RecLens : n + 2 <= BufSize /\ n < Base * Base /\ n <= RecMax

VARIABLES
  charSigned,    \* char has a sign: it has on the x86, not on the ARM boards
  lens,          \* the lengths of the log's records
  nrecs,         \* the argument nrecs
  offset,        \* offset
  cp,            \* cp
  leftover,      \* leftover
  recnum,        \* recnum
  handed,        \* what the user's function has been called for, newest last
  stopped,       \* length of handed at the first WLOG_STOP_SCAN, 0 if none
  scan           \* "fill", "scan"; "crashed", "done"

lsVars == <<charSigned, lens, nrecs, offset, cp, leftover, recnum, handed,
            stopped, scan>>

(* Where record i ends, with its length.                                   *)
RecEnd[i \in 0 .. Len(lens)] ==
  IF i = 0 THEN 0 ELSE RecEnd[i - 1] + lens[i] + 2

Broken == 0                    \* in handed: not a record of the log

LsTypeOK ==
  /\ charSigned \in BOOLEAN
  /\ lens \in Seq(RecLens) /\ Len(lens) <= MaxRecs /\ nrecs \in NRecs
  /\ offset \in 0 .. RecEnd[Len(lens)] /\ cp \in offset .. RecEnd[Len(lens)]
  /\ leftover \in 0 .. BufSize
  /\ recnum \in 0 .. Len(handed) /\ handed \in Seq(0 .. MaxRecs)
  /\ stopped \in 0 .. Len(handed)
  /\ scan \in {"fill", "scan", "crashed", "done"}

LsInit ==
  /\ charSigned \in BOOLEAN
  /\ lens \in UNION {[1 .. n -> RecLens] : n \in 0 .. MaxRecs}
  /\ nrecs \in NRecs
  /\ offset = RecEnd[Len(lens)] /\ cp = offset
  /\ leftover = 0 /\ recnum = 0 /\ handed = <<>> /\ stopped = 0
  /\ scan = "fill"

-----------------------------------------------------------------------------

(* *(cp - 2) * 256 + *(cp - 1), as wlog_record_write() has put it.         *)
Decode(n) ==
  n - (IF charSigned /\ n % Base >= Base \div 2 THEN Base ELSE 0)
    - (IF charSigned /\ n \div Base >= Base \div 2 THEN Base * Base ELSE 0)

(* The record that ends at a position, 0 if none does.                     *)
EndsAt(p) == IF \E i \in 1 .. Len(lens) : RecEnd[i] = p
             THEN CHOOSE i \in 1 .. Len(lens) : RecEnd[i] = p ELSE 0

(* What reclen may be at a position.                                       *)
RecLengths(p) ==
  IF EndsAt(p) # 0 THEN {Decode(lens[EndsAt(p)])}
  ELSE {Decode(n) : n \in 0 .. Base * Base - 1}

(* Mutant: the length is taken to begin one byte further off.              *)
Whole_More(room, n) == room >= n + 3
Whole(room, n) == room >= n + 2

(* The buffer is filled up to its size, or from the beginning of the log.  *)
FillFrom ==
  IF offset + leftover < BufSize THEN 0 ELSE offset - (BufSize - leftover)

(* The head of the outer loop, and the read.                               *)
Fill ==
  /\ scan = "fill"
  /\ IF (nrecs = 0 \/ recnum < nrecs) /\ offset > 0
     THEN /\ offset' = FillFrom /\ cp' = offset + leftover
          /\ leftover' = 0 /\ scan' = "scan"
     ELSE scan' = "done" /\ UNCHANGED <<offset, cp, leftover>>
  /\ UNCHANGED <<charSigned, lens, nrecs, recnum, handed, stopped>>

(* Mutant: the bytes before cp are not kept.                               *)
Rest_None == 0
Rest == cp - offset

(* What is not a whole record is kept for the next buffer.                 *)
Keep(n) ==
  /\ scan = "scan"
  /\ cp - offset < 2 \/ ~ Whole(cp - offset, n)
  /\ leftover' = Rest /\ scan' = "fill"
  /\ UNCHANGED <<charSigned, lens, nrecs, offset, cp, recnum, handed, stopped>>

(* memcpy() of fewer than 0 bytes, or of more than albuf has room for: the *)
(* program need not survive it.                                            *)
Crash(n) ==
  /\ scan = "scan"
  /\ cp - offset >= 2 /\ Whole(cp - offset, n)
  /\ n < 0 \/ n > RecMax
  /\ scan' = "crashed"
  /\ UNCHANGED <<charSigned, lens, nrecs, offset, cp, leftover, recnum, handed,
                 stopped>>

(***************************************************************************)
(* A record is handed to the function; when that says WLOG_STOP_SCAN, or   *)
(* the last one that was asked for is reached, only the inner loop ends,   *)
(* with nothing kept.  After WLOG_STOP_SCAN the outer loop goes on with    *)
(* the buffer before this one, of which the end is taken for that of a     *)
(* record (see README).                                                    *)
(***************************************************************************)
Hand(n, stop) ==
  /\ scan = "scan"
  /\ cp - offset >= 2 /\ Whole(cp - offset, n) /\ n >= 0
  /\ cp' = cp - (n + 2)
  /\ handed' = Append(handed, IF EndsAt(cp) # 0 /\ n = lens[EndsAt(cp)]
                              THEN EndsAt(cp) ELSE Broken)
  /\ recnum' = IF stop THEN recnum ELSE recnum + 1
  /\ stopped' = IF stop /\ stopped = 0 THEN Len(handed) + 1 ELSE stopped
  /\ scan' = IF stop \/ (nrecs > 0 /\ recnum + 1 >= nrecs) THEN "fill"
             ELSE "scan"
  /\ UNCHANGED <<charSigned, lens, nrecs, offset, leftover>>

LsNext ==
  \/ Fill
  \/ \E n \in RecLengths(cp) :
       Keep(n) \/ Crash(n) \/ \E stop \in BOOLEAN : Hand(n, stop)

LsSpec == LsInit /\ [][LsNext]_lsVars /\ WF_lsVars(LsNext)

-----------------------------------------------------------------------------

(* Each length reads back as it was written: always, if char has no sign.  *)
Legible == \A i \in 1 .. Len(lens) : Decode(lens[i]) = lens[i]

(***************************************************************************)
(* If the lengths read back as written, the function gets the records of   *)
(* the log one after the other from the last one on, none twice, none left *)
(* out and no piece of one, wherever the buffers cut the log, until it     *)
(* says WLOG_STOP_SCAN; if it never does, at the end it has got all of     *)
(* them, or nrecs.                                                         *)
(***************************************************************************)
HandsBackwards ==
  Legible =>
    /\ \A k \in 1 .. Len(handed) :
         stopped = 0 \/ k <= stopped => handed[k] = Len(lens) + 1 - k
    /\ stopped = 0 /\ scan = "done" /\ Len(handed) < Len(lens) =>
         nrecs > 0 /\ Len(handed) = nrecs
    /\ stopped = 0 => scan # "crashed"

(* Only a scan that has gone on after WLOG_STOP_SCAN, or that misreads a   *)
(* length, can be left with a piece as long as the buffer.                 *)
Stuck == leftover = BufSize /\ (stopped # 0 \/ ~ Legible)

(* The scan comes to an end, also after WLOG_STOP_SCAN and with lengths    *)
(* that were misread, or the buffer is full of what it keeps and nothing   *)
(* more can be read into it, for which there is no way out.                *)
ScanEnds == scan = "scan" ~> scan \in {"crashed", "done"} \/ Stuck

=============================================================================

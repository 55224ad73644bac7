---------------------------- MODULE TstRes_proofs ----------------------------
(***************************************************************************)
(* Proofs about a test and the library that tells its results, for any     *)
(* number of results, signals and nested tst_brk() calls.                  *)
(***************************************************************************)
EXTENDS TstRes, SequenceTheorems, TLAPS

(***************************************************************************)
(* What the statics of tst_res.c always are: the held result is a case,    *)
(* and the type of everything told is in T_exitval.                        *)
(***************************************************************************)
RsType == [exitval : SUBSET Types, cases : Seq(Case), others : Seq(Note),
           held : Nat, file : Files, out : Seq(OutLine)]

RsOK(s) ==
  /\ s \in RsType
  /\ s.held <= Len(s.cases)
  /\ \A k \in 1 .. Len(s.cases) : s.cases[k].type \in s.exitval
  /\ \A k \in 1 .. Len(s.others) : s.others[k].type \in s.exitval

-----------------------------------------------------------------------------

(* tst_print() counts the type and changes nothing of what was told.       *)
LEMMA PrintOK ==
  ASSUME NEW s, RsOK(s), NEW type \in Types, NEW num \in Nat
  PROVE  /\ RsOK(TstPrint(s, type, num))
         /\ TstPrint(s, type, num).exitval = s.exitval \cup {type}
         /\ TstPrint(s, type, num).cases = s.cases
         /\ TstPrint(s, type, num).others = s.others
<1> DEFINE t == [s EXCEPT !.exitval = @ \cup {type}]
           line == [type |-> type, num |-> num, file |-> s.file]
           u == [t EXCEPT !.out = Append(@, line), !.file = 0]
<1>1. /\ t \in RsType /\ t.exitval = s.exitval \cup {type}
      /\ t.cases = s.cases /\ t.others = s.others /\ t.held = s.held
      /\ t.out = s.out
  BY DEF RsOK, RsType
<1>2. line \in OutLine
  BY DEF RsOK, RsType, OutLine
<1>3. Append(t.out, line) \in Seq(OutLine)
  BY <1>1, <1>2 DEF RsType
<1> HIDE DEF line, t
<1>4. /\ u \in RsType /\ u.exitval = t.exitval /\ u.cases = t.cases
      /\ u.others = t.others /\ u.held = t.held
  BY <1>1, <1>3 DEF RsType, Files
<1> HIDE DEF u
<1>5. TstPrint(s, type, num) = t \/ TstPrint(s, type, num) = u
  BY DEF TstPrint, t, u, line
<1>6. RsOK(t) /\ RsOK(u)
  BY <1>1, <1>4 DEF RsOK
<1> QED BY <1>1, <1>4, <1>5, <1>6

(* A warning or an information is counted as well.                         *)
LEMMA UncountOK ==
  ASSUME NEW s, RsOK(s), NEW type \in Uncounted, NEW file \in BOOLEAN
  PROVE  /\ RsOK(Uncount(s, type, file))
         /\ Uncount(s, type, file).exitval = s.exitval \cup {type}
<1> DEFINE t == TstPrint(s, type, 0)
           note == [type |-> type, file |-> file]
           u == [t EXCEPT !.others = Append(@, note)]
<1>1. type \in Types /\ 0 \in Nat
  BY DEF Uncounted, Types
<1>2. RsOK(t) /\ t.exitval = s.exitval \cup {type} /\ t.others = s.others
  BY <1>1, PrintOK
<1> HIDE DEF t
<1>0. note \in Note /\ note.type = type
  BY DEF Note
<1> HIDE DEF note
<1>3. Append(t.others, note) \in Seq(Note)
  BY <1>0, <1>2 DEF RsOK, RsType
<1>4. u \in RsType /\ u.exitval = t.exitval /\ u.cases = t.cases
      /\ u.others = Append(t.others, note) /\ u.held = t.held
  BY <1>2, <1>3 DEF RsOK, RsType
<1> HIDE DEF u
<1>5. \A k \in 1 .. Len(u.others) : u.others[k].type \in u.exitval
  <2>1. t.others \in Seq(Note) /\ note.type \in t.exitval
    BY <1>0, <1>2 DEF RsOK, RsType
  <2>2. \A k \in 1 .. Len(t.others) : t.others[k].type \in t.exitval
    BY <1>2 DEF RsOK
  <2>3. /\ Len(u.others) = Len(t.others) + 1 /\ Len(t.others) \in Nat
        /\ \A k \in 1 .. Len(t.others) + 1 :
             u.others[k] = IF k = Len(t.others) + 1 THEN note ELSE t.others[k]
    BY <1>4, <2>1
  <2> QED BY <1>4, <2>1, <2>2, <2>3
<1> QED BY <1>2, <1>4, <1>5 DEF RsOK, Uncount, t, u, note

(* The held result is printed: nothing but the output changes.             *)
LEMMA PrintHeldOK ==
  ASSUME NEW s, RsOK(s)
  PROVE  /\ RsOK(PrintHeld(s))
         /\ PrintHeld(s).exitval = s.exitval
         /\ PrintHeld(s).cases = s.cases
         /\ PrintHeld(s).others = s.others
<1>1. CASE s.held = 0
  BY <1>1 DEF PrintHeld
<1>2. CASE s.held # 0
  <2> DEFINE type == s.cases[s.held].type
             t == TstPrint(s, type, s.held)
             u == [t EXCEPT !.held = 0]
  <2>2. s.held \in 1 .. Len(s.cases) /\ s.held \in Nat
    BY <1>2 DEF RsOK, RsType
  <2>3. type \in s.exitval
    BY <2>2 DEF RsOK
  <2>4. type \in Types
    BY <2>3 DEF RsOK, RsType
  <2> HIDE DEF type
  <2>5. /\ RsOK(t) /\ t.exitval = s.exitval /\ t.cases = s.cases
        /\ t.others = s.others
    <3>1. s.exitval \cup {type} = s.exitval
      BY <2>3
    <3> DEFINE num == s.held
    <3>2. num \in Nat /\ type \in Types
      BY <2>2, <2>4
    <3> HIDE DEF num
    <3>3. /\ RsOK(TstPrint(s, type, num))
          /\ TstPrint(s, type, num).exitval = s.exitval \cup {type}
          /\ TstPrint(s, type, num).cases = s.cases
          /\ TstPrint(s, type, num).others = s.others
      BY <3>2, PrintOK
    <3> QED BY <3>1, <3>3 DEF num
  <2> HIDE DEF t
  <2>6. /\ RsOK(u) /\ u.exitval = t.exitval /\ u.cases = t.cases
        /\ u.others = t.others
    <3>1. /\ u \in RsType /\ u.exitval = t.exitval /\ u.cases = t.cases
          /\ u.others = t.others /\ u.held = 0
      BY <2>2, <2>5 DEF RsOK, RsType
    <3>2. 0 <= Len(t.cases)
      BY <2>5 DEF RsOK, RsType
    <3> QED BY <2>5, <3>1, <3>2 DEF RsOK
  <2> QED BY <1>2, <2>5, <2>6 DEF PrintHeld, t, type
<1> QED BY <1>1, <1>2

LEMMA CondenseOK ==
  ASSUME NEW s, RsOK(s), NEW num \in 1 .. Len(s.cases)
  PROVE  /\ RsOK(TstCondense(s, num)) /\ TstCondense(s, num).exitval = s.exitval
         /\ TstCondense(s, num).cases = s.cases
         /\ TstCondense(s, num).others = s.others
<1> DEFINE r == [s EXCEPT !.file = 0]
           p == PrintHeld(r)
           t == [p EXCEPT !.file = s.file]
           u == TstPrint(t, s.cases[num].type, num)
           v == [t EXCEPT !.held = num]
<1>0. /\ RsOK(r) /\ r.exitval = s.exitval /\ r.cases = s.cases
      /\ r.others = s.others /\ s.file \in Files
  BY DEF RsOK, RsType, Files
<1> HIDE DEF r
<1>7. /\ RsOK(p) /\ p.exitval = s.exitval /\ p.cases = s.cases
      /\ p.others = s.others
  BY <1>0, PrintHeldOK
<1> HIDE DEF p
<1>1. /\ RsOK(t) /\ t.exitval = s.exitval /\ t.cases = s.cases
      /\ t.others = s.others
  BY <1>0, <1>7 DEF RsOK, RsType
<1> HIDE DEF t
<1>2. s.cases[num].type \in s.exitval /\ s.cases[num].type \in Types /\ num \in Nat
  BY DEF RsOK, RsType
<1>3. /\ RsOK(u) /\ u.exitval = s.exitval
      /\ u.cases = s.cases /\ u.others = s.others
  <2> DEFINE type == s.cases[num].type
  <2>1. s.exitval \cup {type} = s.exitval
    BY <1>2
  <2>2. type \in Types /\ num \in Nat
    BY <1>2
  <2> HIDE DEF type
  <2>3. /\ RsOK(TstPrint(t, type, num))
        /\ TstPrint(t, type, num).exitval = t.exitval \cup {type}
        /\ TstPrint(t, type, num).cases = t.cases
        /\ TstPrint(t, type, num).others = t.others
    BY <1>1, <2>2, PrintOK
  <2> QED BY <1>1, <2>1, <2>3 DEF type
<1> HIDE DEF u
<1>4. /\ RsOK(v) /\ v.exitval = s.exitval
      /\ v.cases = s.cases /\ v.others = s.others
  <2>1. /\ v \in RsType /\ v.exitval = t.exitval /\ v.cases = t.cases
        /\ v.others = t.others /\ v.held = num
    BY <1>1, <1>2 DEF RsOK, RsType
  <2>2. num <= Len(t.cases)
    BY <1>1, <1>2 DEF RsOK, RsType
  <2> QED BY <1>1, <2>1, <2>2 DEF RsOK
<1> HIDE DEF v
<1>5. TstCondense(s, num) \in {s, u, v}
  BY <1>1 DEF TstCondense, t, u, v, p, r
<1> QED BY <1>3, <1>4, <1>5

LEMMA FlushOK ==
  ASSUME NEW s, RsOK(s)
  PROVE  RsOK(TstFlush(s)) /\ TstFlush(s).exitval = s.exitval
<1> DEFINE t == PrintHeld(s)
<1>1. RsOK(t) /\ t.exitval = s.exitval
  BY PrintHeldOK
<1> HIDE DEF t
<1>2. TstFlush(s) \in {s, t}
  BY DEF TstFlush, t
<1> QED BY <1>1, <1>2

(* tst_res(): what it is told is in T_exitval, and so is all it was before.*)
LEMMA ResultOK ==
  ASSUME mode \in Modes, NEW s, RsOK(s),
         NEW type \in Types, NEW mesg \in Texts, NEW file \in BOOLEAN
  PROVE  /\ RsOK(Result(s, type, mesg, file))
         /\ Result(s, type, mesg, file).exitval = s.exitval \cup {type}
<1> DEFINE num == Len(s.cases) + 1
           own == IF type \in Uncounted THEN OtherFile ELSE num
           f == IF file THEN own ELSE s.file
           t == [s EXCEPT !.exitval = @ \cup {type}, !.file = f]
           new == [type |-> type, mesg |-> mesg, file |-> file]
           u == [t EXCEPT !.cases = Append(@, new)]
<1>3. num \in Nat /\ f \in Files
  BY DEF RsOK, RsType, Files
<1> HIDE DEF f
<1>1. /\ RsOK(t) /\ t.exitval = s.exitval \cup {type} /\ t.cases = s.cases
  BY <1>3 DEF RsOK, RsType
<1>2. new \in Case /\ new.type = type
  BY DEF Case
<1> HIDE DEF t, new
<1>4. /\ Append(t.cases, new) \in Seq(Case)
      /\ Len(Append(t.cases, new)) = num
      /\ \A k \in 1 .. num :
           Append(t.cases, new)[k] = IF k = num THEN new ELSE t.cases[k]
  BY <1>1, <1>2 DEF RsOK, RsType
<1> HIDE DEF num
<1>5. /\ u \in RsType /\ u.cases = Append(t.cases, new)
      /\ u.exitval = t.exitval /\ u.others = t.others /\ u.held = t.held
  BY <1>1, <1>4 DEF RsOK, RsType
<1>6. Len(u.cases) = Len(s.cases) + 1
  BY <1>4, <1>5 DEF num
<1>7. u.held <= Len(u.cases)
  BY <1>1, <1>5, <1>6 DEF RsOK, RsType
<1>8. \A k \in 1 .. Len(u.cases) : u.cases[k].type \in u.exitval
  <2>1. \A k \in 1 .. Len(t.cases) : t.cases[k].type \in t.exitval
    BY <1>1 DEF RsOK
  <2>2. new.type \in t.exitval
    BY <1>1, <1>2
  <2>3. Len(u.cases) = num /\ num = Len(t.cases) + 1 /\ Len(t.cases) \in Nat
    BY <1>1, <1>4, <1>5 DEF num, RsOK, RsType
  <2>4. \A k \in 1 .. num : u.cases[k] = IF k = num THEN new ELSE t.cases[k]
    BY <1>4, <1>5
  <2> HIDE DEF u
  <2>5. u.exitval = t.exitval
    BY <1>5
  <2> QED BY <2>1, <2>2, <2>3, <2>4, <2>5
<1>9. RsOK(u)
  BY <1>1, <1>5, <1>7, <1>8 DEF RsOK
<1>10. num \in 1 .. Len(u.cases)
  BY <1>3, <1>4, <1>5 DEF num, RsOK, RsType
<1>11. u.exitval = s.exitval \cup {type}
  BY <1>1, <1>5
<1> HIDE DEF u
<1>12. CASE type \in Uncounted
  <2>1. /\ RsOK(Uncount(t, type, file))
        /\ Uncount(t, type, file).exitval = s.exitval \cup {type}
    BY <1>1, <1>12, UncountOK
  <2>2. t = [s EXCEPT !.exitval = @ \cup {type},
                      !.file = IF file THEN own ELSE @]
    BY DEF t, f, RsOK, RsType
  <2>3. Result(s, type, mesg, file) = Uncount(t, type, file)
    BY <1>12, <2>2 DEF Result, num
  <2> QED BY <2>1, <2>3
<1>13. CASE type \notin Uncounted
  <2>1. Result(s, type, mesg, file) =
          CASE mode = "DISCARD" -> u
            [] mode = "NOPASS"  -> TstCondense(u, num)
            [] mode = "VERBOSE" -> TstPrint(u, type, num)
    <3>1. t = [s EXCEPT !.exitval = @ \cup {type},
                        !.file = IF file THEN own ELSE @]
      BY DEF t, f, RsOK, RsType
    <3> QED BY <1>13, <3>1 DEF Result, u, num, new
  <2>2. RsOK(TstCondense(u, num)) /\ TstCondense(u, num).exitval = u.exitval
    BY <1>9, <1>10, CondenseOK
  <2>3. /\ RsOK(TstPrint(u, type, num))
        /\ TstPrint(u, type, num).exitval = u.exitval \cup {type}
    BY <1>3, <1>9, PrintOK
  <2>4. mode \in {"DISCARD", "NOPASS", "VERBOSE"}
    BY TstAssumption
  <2> QED BY <1>9, <1>11, <2>1, <2>2, <2>3, <2>4
<1> QED BY <1>12, <1>13

(* tst_brk(): the break leaves its mark, an unsupported type that of BROK. *)
LEMMA BrkResultsOK ==
  ASSUME mode \in Modes, NEW s, RsOK(s),
         NEW type \in Types, NEW mesg \in Texts, NEW file \in BOOLEAN
  PROVE  /\ RsOK(BrkResults(s, type, mesg, file))
         /\ s.exitval \cup {IF type \in Supported THEN type ELSE "BROK"}
              \subseteq BrkResults(s, type, mesg, file).exitval
<1> DEFINE t == IF type \in Supported THEN type ELSE "BROK"
           r1 == IF type \in Supported THEN s ELSE Uncount(s, "WARN", FALSE)
           r2 == Result(r1, t, mesg, file)
           r3 == Result(r2, type, "remaining", FALSE)
<1>1. RsOK(r1) /\ s.exitval \subseteq r1.exitval
  BY UncountOK DEF Uncounted
<1>2. t \in Types /\ "remaining" \in Texts
  BY DEF Types, Texts
<1> HIDE DEF r1, t
<1>3. RsOK(r2) /\ r2.exitval = r1.exitval \cup {t}
  BY <1>1, <1>2, ResultOK
<1> HIDE DEF r2
<1>4. RsOK(r3) /\ r3.exitval = r2.exitval \cup {type}
  BY <1>2, <1>3, ResultOK
<1> HIDE DEF r3
<1>5. BrkResults(s, type, mesg, file) \in {r2, r3}
  BY DEF BrkResults, r1, r2, r3, t
<1> QED BY <1>1, <1>3, <1>4, <1>5 DEF t

LEMMA ExitOK ==
  ASSUME NEW s, RsOK(s), TstExit(s)
  PROVE  RsOK(rs') /\ rs'.exitval = s.exitval /\ status' = s.exitval \ Masked
BY FlushOK DEF TstExit

-----------------------------------------------------------------------------

RsInv == mode \in Modes /\ RsOK(rs)

(***************************************************************************)
(* What tst_brk() does to the data: the break is counted, and if it exits  *)
(* the status has it.                                                      *)
(***************************************************************************)
LEMMA BrkData ==
  ASSUME RsInv, NEW from, RsOK(from), rs.exitval \subseteq from.exitval,
         NEW type \in Types, NEW mesg \in Texts, NEW file \in BOOLEAN,
         NEW cleanup \in BOOLEAN, TstBrk(from, type, mesg, file, cleanup)
  PROVE  /\ RsInv'
         /\ rs.exitval \cup {IF type \in Supported THEN type ELSE "BROK"}
              \subseteq rs'.exitval
         /\ status' \in {status, rs'.exitval \ Masked}
<1> DEFINE s == BrkResults(from, type, mesg, file)
           t == IF type \in Supported THEN type ELSE "BROK"
<1>1. RsOK(s) /\ rs.exitval \cup {t} \subseteq s.exitval
  BY BrkResultsOK DEF RsInv
<1>2. /\ mode' = mode
      /\ (rs' = s /\ status' = status) \/ TstExit(s)
  BY DEF TstBrk
<1> HIDE DEF s, t
<1>3. RsOK(rs') /\ rs'.exitval = s.exitval /\ status' \in {status, s.exitval \ Masked}
  BY <1>1, <1>2, ExitOK
<1>4. RsInv'
  BY <1>2, <1>3 DEF RsInv, RsOK
<1> QED BY <1>1, <1>3, <1>4 DEF t

(* A result that is told is counted.                                       *)
LEMMA ResultData ==
  ASSUME RsInv, NEW type \in Types, NEW mesg \in Texts, NEW file \in BOOLEAN
  PROVE  /\ RsOK(Result(rs, type, mesg, file))
         /\ Result(rs, type, mesg, file).exitval = rs.exitval \cup {type}
BY ResultOK DEF RsInv

(* So is a warning of tst_rmdir().                                         *)
LEMMA RmdirData ==
  ASSUME RsInv, NEW s, RsOK(s)
  PROVE  /\ RsOK(Result(s, "WARN", "rmdir", FALSE))
         /\ Result(s, "WARN", "rmdir", FALSE).exitval = s.exitval \cup {"WARN"}
<1>1. "WARN" \in Types /\ "rmdir" \in Texts /\ FALSE \in BOOLEAN
  BY DEF Types, Texts
<1> QED BY <1>1, ResultOK DEF RsInv

LEMMA TmpdirData ==
  ASSUME RsInv, NEW made \in BOOLEAN, NEW chdir \in BOOLEAN,
         TmpdirFails(made, chdir)
  PROVE  /\ RsInv'
         /\ rs.exitval \cup {"BROK"} \subseteq rs'.exitval
         /\ status' = rs'.exitval \ Masked
<1> DEFINE s == BrkResults(rs, "BROK", "tmpdir", FALSE)
           w == Uncount(s, "WARN", FALSE)
           u == Result(w, "BROK", "tmpdir", FALSE)
<1>1. "BROK" \in Types /\ "tmpdir" \in Texts /\ "WARN" \in Uncounted
      /\ FALSE \in BOOLEAN /\ "BROK" \in Supported
  BY DEF Types, Texts, Uncounted, Supported
<1>2. RsOK(s) /\ rs.exitval \cup {"BROK"} \subseteq s.exitval
  BY <1>1, BrkResultsOK DEF RsInv
<1>3. TstExit(IF chdir THEN s ELSE u) /\ mode' = mode
  BY DEF TmpdirFails
<1> HIDE DEF s
<1>4. RsOK(w) /\ s.exitval \subseteq w.exitval
  BY <1>1, <1>2, UncountOK
<1> HIDE DEF w
<1>5. RsOK(u) /\ w.exitval \subseteq u.exitval
  <2>1. RsOK(u) /\ u.exitval = w.exitval \cup {"BROK"}
    BY <1>1, <1>4, ResultOK DEF RsInv
  <2> QED BY <2>1
<1> HIDE DEF u
<1> DEFINE v == IF chdir THEN s ELSE u
<1>6. RsOK(v) /\ rs.exitval \cup {"BROK"} \subseteq v.exitval
  BY <1>2, <1>4, <1>5
<1>7. TstExit(v)
  BY <1>3
<1> HIDE DEF v
<1>8. RsOK(rs') /\ rs'.exitval = v.exitval /\ status' = v.exitval \ Masked
  BY <1>6, <1>7, ExitOK
<1>9. RsInv'
  BY <1>3, <1>8 DEF RsInv, RsOK
<1> QED BY <1>6, <1>8, <1>9

(* Interrupted, tst_res() and tst_flush() have counted what they print.    *)
LEMMA HalfToldOK ==
  ASSUME NEW s, RsOK(s), NEW type \in Types, NEW t \in HalfTold(s, type)
  PROVE  RsOK(t) /\ s.exitval \subseteq t.exitval
<1> DEFINE c == [s EXCEPT !.exitval = @ \cup {type}]
<1>1. RsOK(c) /\ c.exitval = s.exitval \cup {type} /\ c.cases = s.cases
  BY DEF RsOK, RsType
<1> HIDE DEF c
<1>2. \A f \in Files : /\ RsOK([c EXCEPT !.file = f])
                       /\ [c EXCEPT !.file = f].exitval = c.exitval
  BY <1>1 DEF RsOK, RsType
<1>3. s.file \in Files /\ 0 \in Files /\ OtherFile \in Files
  BY DEF RsOK, RsType, Files
<1>4. CASE t \in {c, [c EXCEPT !.file = OtherFile]}
  BY <1>1, <1>2, <1>3, <1>4
<1>5. CASE s.held # 0 /\ \E f \in {0, s.file} :
             t = TstPrint([c EXCEPT !.file = f], s.cases[s.held].type, s.held)
  <2>1. PICK f \in {0, s.file} :
          t = TstPrint([c EXCEPT !.file = f], s.cases[s.held].type, s.held)
    BY <1>5
  <2> DEFINE d == [c EXCEPT !.file = f]
             heldType == s.cases[s.held].type
             num == s.held
  <2>2. num \in 1 .. Len(s.cases) /\ num \in Nat
    BY <1>5 DEF RsOK, RsType
  <2>3. heldType \in Types
    BY <2>2 DEF RsOK, RsType
  <2>4. RsOK(d) /\ d.exitval = c.exitval
    BY <1>2, <1>3
  <2> HIDE DEF d, heldType, num
  <2>7. num \in Nat
    BY <2>2
  <2>5. RsOK(TstPrint(d, heldType, num))
        /\ TstPrint(d, heldType, num).exitval = d.exitval \cup {heldType}
    BY <2>3, <2>4, <2>7, PrintOK
  <2>6. t = TstPrint(d, heldType, num)
    BY <2>1 DEF d, heldType, num
  <2> QED BY <1>1, <2>4, <2>5, <2>6
<1> QED BY <1>4, <1>5 DEF HalfTold, c

(***************************************************************************)
(* Every step: what is counted stays counted, and the status is computed   *)
(* of it.                                                                  *)
(***************************************************************************)
DataStep ==
  /\ RsInv'
  /\ rs.exitval \subseteq rs'.exitval
  /\ status' \in {status, rs'.exitval \ Masked}

LEMMA DataStepOK == ASSUME RsInv, [TstNext]_tstVars PROVE DataStep
<1>1. ASSUME rs' = rs, status' = status, mode' = mode PROVE DataStep
  BY <1>1 DEF DataStep, RsInv, RsOK
<1>2. ASSUME TstExit(rs), mode' = mode PROVE DataStep
  <2>1. RsOK(rs') /\ rs'.exitval = rs.exitval /\ status' = rs.exitval \ Masked
    BY <1>2, ExitOK DEF RsInv
  <2>2. RsInv'
    BY <1>2, <2>1 DEF RsInv, RsOK
  <2> QED BY <2>1, <2>2 DEF DataStep
<1>3. ASSUME NEW type \in Types, NEW mesg \in Texts, NEW file \in BOOLEAN,
             rs' = Result(rs, type, mesg, file), status' = status, mode' = mode
      PROVE  DataStep
  <2>1. RsOK(rs') /\ rs'.exitval = rs.exitval \cup {type}
    BY <1>3, ResultData
  <2>2. RsInv'
    BY <1>3, <2>1 DEF RsInv, RsOK
  <2> QED BY <1>3, <2>1, <2>2 DEF DataStep
<1>4. ASSUME NEW from, RsOK(from), rs.exitval \subseteq from.exitval,
             NEW type \in Types, NEW mesg \in Texts, NEW file \in BOOLEAN,
             NEW cleanup \in BOOLEAN, TstBrk(from, type, mesg, file, cleanup)
      PROVE  DataStep
  BY <1>4, BrkData DEF DataStep
<1>5. /\ Mesg \subseteq Texts /\ "signal" \in Texts /\ "rmdir" \in Texts
      /\ "BROK" \in Types /\ "WARN" \in Types /\ RsOK(rs)
  BY DEF Texts, Types, RsInv
<1>6. CASE UNCHANGED tstVars \/ TstTmpdir
  BY <1>1, <1>6 DEF tstVars, TstTmpdir
<1>7. CASE Finish
  <2>1. mode' = mode /\ ((rs' = rs /\ status' = status) \/ TstExit(rs))
    BY <1>7 DEF Finish
  <2> QED BY <1>1, <1>2, <2>1
<1>8. CASE CleanupReturns
  <2>1. mode' = mode /\ ((rs' = rs /\ status' = status) \/ TstExit(rs))
    BY <1>8 DEF CleanupReturns
  <2> QED BY <1>1, <1>2, <2>1
<1>9. CASE CleanupCallsExit
  BY <1>2, <1>9 DEF CleanupCallsExit
<1>10. CASE Signal
  BY <1>4, <1>5, <1>10 DEF Signal
<1>15. ASSUME NEW type \in ResTypes, SignalInside(type) PROVE DataStep
  <2>1. PICK s \in HalfTold(rs, type) :
          TstBrk(s, "BROK", "signal", FALSE, TRUE)
    BY <1>15 DEF SignalInside
  <2>2. RsOK(s) /\ rs.exitval \subseteq s.exitval
    BY <1>5, <1>15, HalfToldOK, TstAssumption
  <2> QED BY <1>4, <1>5, <2>1, <2>2
<1>16. CASE RmdirNoMemory
  <2> DEFINE s == BrkResults(rs, "BROK", "rmdir", FALSE)
  <2>1. RsOK(s) /\ rs.exitval \subseteq s.exitval
    BY <1>5, BrkResultsOK DEF RsInv
  <2>2. mode' = mode /\ ((rs' = s /\ status' = status) \/ TstExit(s))
    BY <1>16 DEF RmdirNoMemory
  <2> HIDE DEF s
  <2>3. RsOK(rs') /\ rs'.exitval = s.exitval
        /\ status' \in {status, s.exitval \ Masked}
    BY <2>1, <2>2, ExitOK
  <2>4. RsInv'
    BY <2>2, <2>3 DEF RsInv, RsOK
  <2> QED BY <2>1, <2>3, <2>4 DEF DataStep
<1>11. ASSUME NEW left \in BOOLEAN, NEW removed \in BOOLEAN,
              TstRmdir(left, removed)
       PROVE  DataStep
  <2>1. PICK s, t : /\ mode' = mode /\ status' = status /\ rs' = t
                    /\ s = rs \/ s = Result(rs, "WARN", "rmdir", FALSE)
                    /\ t = s \/ t = Result(s, "WARN", "rmdir", FALSE)
    BY <1>11 DEF TstRmdir
  <2>2. RsOK(s) /\ rs.exitval \subseteq s.exitval
    BY <1>5, <2>1, RmdirData
  <2>3. RsOK(t) /\ s.exitval \subseteq t.exitval
    BY <2>1, <2>2, RmdirData
  <2>4. RsInv'
    BY <2>1, <2>3 DEF RsInv, RsOK
  <2> QED BY <2>1, <2>2, <2>3, <2>4 DEF DataStep
<1>12. ASSUME NEW type \in ResTypes, NEW mesg \in Mesg, NEW file \in BOOLEAN,
              Report(type, mesg, file)
       PROVE  DataStep
  BY <1>3, <1>5, <1>12, TstAssumption DEF Report
<1>13. ASSUME NEW type \in BrkTypes, NEW mesg \in Mesg, NEW cleanup \in BOOLEAN,
              Break(type, mesg, FALSE, cleanup)
       PROVE  DataStep
  BY <1>4, <1>5, <1>13, TstAssumption DEF Break
<1>14. ASSUME NEW made \in BOOLEAN, NEW chdir \in BOOLEAN,
              TmpdirFails(made, chdir)
       PROVE  DataStep
  BY <1>14, TmpdirData DEF DataStep
<1> QED
  BY <1>6, <1>7, <1>8, <1>9, <1>10, <1>11, <1>12, <1>13, <1>14, <1>15, <1>16
  DEF TstNext

(* A program that has exited does nothing.                                 *)
LEMMA ExitIsEnd == ASSUME TstNext PROVE Running
BY DEF TstNext, TstTmpdir, Finish, CleanupReturns, CleanupCallsExit, Signal,
       SignalInside, RmdirNoMemory, TstRmdir, Report, Break, TmpdirFails, InCode

StatusInv == ~ Running => status = rs.exitval \ Masked

LEMMA InitData == TstInit => RsInv /\ StatusInv
<1> SUFFICES ASSUME TstInit PROVE RsInv /\ StatusInv
  OBVIOUS
<1> DEFINE r == [exitval |-> {}, cases |-> <<>>, others |-> <<>>,
                 held |-> 0, file |-> 0, out |-> <<>>]
<1>1. /\ r \in RsType /\ r.held = 0 /\ Len(r.cases) = 0 /\ Len(r.others) = 0
  BY DEF RsType, Files
<1>2. rs = r
  BY DEF TstInit
<1> HIDE DEF r
<1>3. RsOK(r)
  BY <1>1 DEF RsOK
<1> QED BY <1>2, <1>3 DEF TstInit, RsInv, StatusInv, Running

LEMMA DataInvariant == TstSpec => [](RsInv /\ StatusInv)
<1>1. RsInv /\ StatusInv /\ [TstNext]_tstVars => (RsInv /\ StatusInv)'
  <2> SUFFICES ASSUME RsInv, StatusInv, [TstNext]_tstVars
               PROVE  RsInv' /\ StatusInv'
    OBVIOUS
  <2>1. DataStep
    BY DataStepOK
  <2>2. CASE UNCHANGED tstVars
    BY <2>1, <2>2 DEF tstVars, StatusInv, Running, DataStep
  <2>3. CASE TstNext
    BY <2>1, <2>3, ExitIsEnd DEF StatusInv, Running, DataStep
  <2> QED BY <2>1, <2>2, <2>3 DEF DataStep
<1> QED BY <1>1, InitData, PTL DEF TstSpec

(***************************************************************************)
(* tst_exit(): a test that exits with 0 has not failed, broken or warned,  *)
(* whatever was held back, broken off or interrupted on the way.           *)
(***************************************************************************)
THEOREM StatusTellsCorrect == TstSpec => []StatusTells
<1>1. RsInv /\ StatusInv => StatusTells
  <2> SUFFICES ASSUME RsInv, StatusInv, ~ Running, status = {}
               PROVE  /\ \A i \in 1 .. Len(rs.others) : rs.others[i].type # "WARN"
                      /\ \A i \in 1 .. Len(rs.cases) :
                           rs.cases[i].type \notin Failing
    BY DEF StatusTells
  <2>1. \A type \in rs.exitval : type \in Masked
    BY DEF StatusInv
  <2> QED BY <2>1 DEF RsInv, RsOK, Masked, Failing
<1> QED BY <1>1, DataInvariant, PTL

-----------------------------------------------------------------------------

(***************************************************************************)
(* The shape of the stack while the program runs: main(), or its last call *)
(* of the cleanup function, and on top of it a tst_brk() with its cleanup  *)
(* function for each that tst_brk_entered counts.                          *)
(***************************************************************************)
CleanupFrames == {"cleanup", "cleaned", "exit", "fault"}
Frames == {"main", "end", "brk"} \cup CleanupFrames
Below == IF stack[1] = "main" THEN 1 ELSE 2

Shape ==
  /\ stack[1] \in {"main", "end"}
  /\ stack[1] = "end" => stack[2] \in CleanupFrames
  /\ Len(stack) = Below + 2 * entered
  /\ \A j \in 1 .. entered : /\ stack[Below + 2 * j - 1] = "brk"
                             /\ stack[Below + 2 * j] \in CleanupFrames

StackType == stack \in Seq(Frames) /\ entered \in Nat

StackInv == StackType /\ (Running => Shape) /\ CleanupsEnd

(* What the shape says of the top of the stack.                            *)
LEMMA ShapeFacts ==
  ASSUME StackType, Shape
  PROVE  /\ Len(stack) \in Nat /\ Len(stack) >= Below /\ Below \in {1, 2}
         /\ Top = "main" => Len(stack) = 1 /\ entered = 0 /\ stack[1] = "main"
         /\ Len(stack) = 1 => Top = "main" /\ entered = 0
         /\ entered = 0 => \A k \in 1 .. Len(stack) - 1 : stack[k] # "brk"
         /\ entered > 0 => stack[Len(stack) - 1] = "brk"
         /\ entered = 1 => \A k \in 1 .. Len(stack) - 2 : stack[k] # "brk"
         /\ Top \in {"cleanup", "cleaned"} => Len(stack) > 1
<1>1. Below \in {1, 2} /\ Len(stack) = Below + 2 * entered /\ entered \in Nat
  BY DEF Below, StackType, Shape
<1>2. CASE entered = 0
  <2>1. Len(stack) = Below
    BY <1>1, <1>2
  <2>2. Below = 1 => stack[1] = "main"
    BY DEF Below
  <2>3. Below = 2 => stack[1] = "end" /\ stack[2] \in CleanupFrames
    BY DEF Below, Shape
  <2> QED BY <1>1, <1>2, <2>1, <2>2, <2>3 DEF Top, CleanupFrames
<1>3. CASE entered > 0
  <2>1. entered \in 1 .. entered
    BY <1>1, <1>3
  <2>2. /\ stack[Below + 2 * entered - 1] = "brk"
        /\ stack[Below + 2 * entered] \in CleanupFrames
    BY <2>1 DEF Shape
  <2>3. stack[Len(stack) - 1] = "brk" /\ stack[Len(stack)] \in CleanupFrames
    BY <1>1, <2>2
  <2>4. Len(stack) > 1
    BY <1>1, <1>3
  <2>5. entered = 1 => \A k \in 1 .. Len(stack) - 2 : stack[k] # "brk"
    <3>1. Below = 1 => stack[1] = "main"
      BY DEF Below
    <3>2. Below = 2 => stack[1] = "end" /\ stack[2] \in CleanupFrames
      BY DEF Below, Shape
    <3> QED BY <1>1, <3>1, <3>2 DEF CleanupFrames
  <2> QED BY <1>1, <1>3, <2>3, <2>4, <2>5 DEF Top, CleanupFrames
<1> QED BY <1>1, <1>2, <1>3

(* tst_brk() puts itself and its cleanup function on the stack.            *)
LEMMA PushShape ==
  ASSUME StackType, Shape, stack' = stack \o <<"brk", "cleanup">>,
         entered' = entered + 1
  PROVE  StackType' /\ Shape'
<1> DEFINE top == <<"brk", "cleanup">>
<1>1. top \in Seq(Frames) /\ Len(top) = 2 /\ top[1] = "brk" /\ top[2] = "cleanup"
  BY DEF Frames, CleanupFrames
<1> HIDE DEF top
<1>2. /\ stack' \in Seq(Frames) /\ Len(stack') = Len(stack) + 2
      /\ \A k \in 1 .. Len(stack) + 2 :
           stack'[k] = IF k <= Len(stack) THEN stack[k] ELSE top[k - Len(stack)]
  BY <1>1, ConcatProperties DEF StackType, top
<1>3. /\ Len(stack) \in Nat /\ Len(stack) >= Below /\ Below \in {1, 2}
      /\ Len(stack) = Below + 2 * entered /\ entered \in Nat
  BY ShapeFacts DEF Shape, StackType
<1>4. /\ \A k \in 1 .. Len(stack) : stack'[k] = stack[k]
      /\ stack'[Len(stack) + 1] = "brk" /\ stack'[Len(stack) + 2] = "cleanup"
  BY <1>1, <1>2, <1>3
<1>5. Below' = Below /\ stack'[1] = stack[1]
  BY <1>3, <1>4 DEF Below
<1>6. stack'[1] = "end" => stack'[2] \in CleanupFrames
  BY <1>3, <1>4, <1>5 DEF Shape, Below
<1>7. ASSUME NEW j \in 1 .. entered'
      PROVE  /\ stack'[Below' + 2 * j - 1] = "brk"
             /\ stack'[Below' + 2 * j] \in CleanupFrames
  <2>1. CASE j = entered + 1
    <3>1. /\ Below' + 2 * j - 1 = Len(stack) + 1
          /\ Below' + 2 * j = Len(stack) + 2
      BY <1>3, <1>5, <2>1
    <3> QED BY <1>4, <3>1 DEF CleanupFrames
  <2>2. CASE j # entered + 1
    <3>1. j \in 1 .. entered
      BY <1>3, <2>2
    <3>2. /\ stack[Below + 2 * j - 1] = "brk"
          /\ stack[Below + 2 * j] \in CleanupFrames
      BY <3>1 DEF Shape
    <3>3. /\ Below + 2 * j - 1 \in 1 .. Len(stack)
          /\ Below + 2 * j \in 1 .. Len(stack)
      BY <1>3, <3>1
    <3> QED BY <1>4, <1>5, <3>2, <3>3
  <2> QED BY <2>1, <2>2
<1>8. Len(stack') = Below' + 2 * entered'
  BY <1>2, <1>3, <1>5
<1> QED BY <1>2, <1>3, <1>5, <1>6, <1>7, <1>8 DEF StackType, Shape

(* An inner tst_brk() returns to its caller.                               *)
LEMMA PopShape ==
  ASSUME StackType, Shape, entered > 1, stack' = Pop(2),
         entered' = entered - 1
  PROVE  StackType' /\ Shape' /\ Len(stack') > 1
<1>1. /\ Len(stack) \in Nat /\ Below \in {1, 2}
      /\ Len(stack) = Below + 2 * entered /\ entered \in Nat
  BY ShapeFacts DEF Shape, StackType
<1> DEFINE n == Len(stack) - 2
<1>2. n \in Int /\ n >= 3
  BY <1>1
<1>3. \A k \in 1 .. n : stack[k] \in Frames
  BY <1>1, ElementOfSeq DEF StackType
<1>4. stack' = SubSeq(stack, 1, n)
  BY DEF Pop
<1> HIDE DEF n
<1>5. /\ stack' \in Seq(Frames) /\ Len(stack') = n
      /\ \A k \in 1 .. n : stack'[k] = stack[k]
  BY <1>2, <1>3, <1>4, SubSeqProperties
<1>6. Below' = Below /\ stack'[1] = stack[1] /\ stack'[2] = stack[2]
  BY <1>2, <1>5 DEF Below
<1>7. ASSUME NEW j \in 1 .. entered'
      PROVE  /\ stack'[Below' + 2 * j - 1] = "brk"
             /\ stack'[Below' + 2 * j] \in CleanupFrames
  <2>1. j \in 1 .. entered
    BY <1>1
  <2>2. /\ stack[Below + 2 * j - 1] = "brk"
        /\ stack[Below + 2 * j] \in CleanupFrames
    BY <2>1 DEF Shape
  <2>3. Below + 2 * j - 1 \in 1 .. n /\ Below + 2 * j \in 1 .. n
    BY <1>1 DEF n
  <2> QED BY <1>5, <1>6, <2>2, <2>3
<1>8. Len(stack') = Below' + 2 * entered' /\ Len(stack') > 1
  BY <1>1, <1>2, <1>5, <1>6 DEF n
<1>9. entered' \in Nat
  BY <1>1
<1> QED BY <1>5, <1>6, <1>7, <1>8, <1>9 DEF StackType, Shape

(* The cleanup function has called tst_rmdir(), or tst_exit().             *)
LEMMA TopShape ==
  ASSUME StackType, Shape, Top \in CleanupFrames, UNCHANGED entered,
         NEW frame \in CleanupFrames,
         stack' = [stack EXCEPT ![Len(stack)] = frame]
  PROVE  /\ StackType' /\ Shape' /\ Len(stack') = Len(stack)
         /\ Top' = frame
<1>1. /\ Len(stack) \in Nat /\ Below \in {1, 2} /\ Len(stack) >= Below
      /\ Len(stack) = Below + 2 * entered /\ entered \in Nat
  BY ShapeFacts DEF Shape, StackType
<1>2. Len(stack) \in 1 .. Len(stack) /\ frame \in Frames
  BY <1>1 DEF Frames
<1>3. /\ stack' \in Seq(Frames) /\ Len(stack') = Len(stack)
      /\ \A k \in 1 .. Len(stack) :
           stack'[k] = IF k = Len(stack) THEN frame ELSE stack[k]
  BY <1>2, ExceptSeq DEF StackType
<1>4. Len(stack) # 1
  BY ShapeFacts DEF CleanupFrames
<1>5. Below' = Below /\ stack'[1] = stack[1]
  BY <1>1, <1>3, <1>4 DEF Below
<1>6. stack'[1] = "end" => stack'[2] \in CleanupFrames
  BY <1>1, <1>3, <1>4, <1>5 DEF Shape
<1>7. ASSUME NEW j \in 1 .. entered'
      PROVE  /\ stack'[Below' + 2 * j - 1] = "brk"
             /\ stack'[Below' + 2 * j] \in CleanupFrames
  <2>1. j \in 1 .. entered
    OBVIOUS
  <2>2. /\ stack[Below + 2 * j - 1] = "brk"
        /\ stack[Below + 2 * j] \in CleanupFrames
    BY <2>1 DEF Shape
  <2>3. /\ Below + 2 * j - 1 \in 1 .. Len(stack) - 1
        /\ Below + 2 * j \in 1 .. Len(stack)
    BY <1>1, <2>1
  <2> QED BY <1>1, <1>3, <1>5, <2>2, <2>3
<1>8. Top' = frame
  BY <1>2, <1>3 DEF Top
<1> QED BY <1>1, <1>3, <1>5, <1>6, <1>7, <1>8 DEF StackType, Shape

StackStep == StackInv' /\ (Len(stack) > 1 => Len(stack') > 1)

LEMMA StackKept ==
  ASSUME StackInv, Running, UNCHANGED <<stack, entered>>,
         entered = 0 \/ UNCHANGED status
  PROVE  StackStep
<1>1. StackType /\ Shape
  BY DEF StackInv
<1>2. StackType' /\ Shape'
  BY <1>1 DEF StackType, Shape, Below
<1>3. entered = 0 => \A k \in 1 .. Len(stack) - 1 : stack[k] # "brk"
  BY <1>1, ShapeFacts
<1>4. CleanupsEnd'
  BY <1>3 DEF CleanupsEnd, Running
<1> QED BY <1>2, <1>4 DEF StackStep, StackInv

LEMMA StackPushed ==
  ASSUME StackInv, Running, stack' = stack \o <<"brk", "cleanup">>,
         entered' = entered + 1, UNCHANGED status
  PROVE  StackStep
<1>1. StackType' /\ Shape'
  BY PushShape DEF StackInv
<1>2. Len(stack') > 1
  <2>1. entered \in Nat
    BY DEF StackInv, StackType
  <2>2. Len(stack') = Below' + 2 * (entered + 1) /\ Below' \in {1, 2}
    BY <1>1 DEF Shape, Below
  <2> QED BY <2>1, <2>2
<1>3. CleanupsEnd'
  BY DEF CleanupsEnd, Running
<1> QED BY <1>1, <1>2, <1>3 DEF StackStep, StackInv

LEMMA StackBrk ==
  ASSUME StackInv, Running, NEW s, NEW type, NEW mesg, NEW file, NEW cleanup,
         TstBrk(s, type, mesg, file, cleanup)
  PROVE  StackStep
<1>1. \/ /\ stack' = stack \o <<"brk", "cleanup">> /\ status' = status
         /\ entered' = entered + 1
      \/ /\ stack' = stack /\ entered' = entered
         /\ entered = 0 \/ status' = status
  BY DEF TstBrk, BrkEnters
<1> QED BY <1>1, StackKept, StackPushed

LEMMA StackReturns ==
  ASSUME StackInv, RsInv, CleanupReturns
  PROVE  StackStep
<1>1. StackType /\ Shape /\ Top = "cleaned" /\ Running
  BY DEF StackInv, CleanupReturns
<1>2. /\ Len(stack) \in Nat /\ Len(stack) > 1 /\ entered \in Nat
      /\ stack[Len(stack) - 1] = "brk" => entered > 0
  <2>1. Len(stack) \in Nat /\ Len(stack) > 1 /\ entered \in Nat
    BY <1>1, ShapeFacts DEF StackType
  <2>2. entered = 0 => stack[Len(stack) - 1] # "brk"
    BY <1>1, <2>1, ShapeFacts
  <2> QED BY <2>1, <2>2
<1>3. CASE stack[Len(stack) - 1] # "brk"
  <2>1. UNCHANGED <<stack, entered>> /\ entered = 0
    BY <1>1, <1>2, <1>3, ShapeFacts DEF CleanupReturns
  <2> QED BY <1>1, <2>1, StackKept
<1>4. CASE stack[Len(stack) - 1] = "brk" /\ entered = 1
  <2>1. TstExit(rs) /\ stack' = stack /\ entered' = 0
    BY <1>4 DEF CleanupReturns, BrkLeaves, Outermost
  <2>2. ~ Running'
    <3>1. status' = rs.exitval \ Masked /\ rs.exitval \subseteq Types
      BY <2>1, ExitOK DEF RsInv, RsOK, RsType
    <3>2. "running" \notin Types
      BY DEF Types
    <3> QED BY <3>1, <3>2 DEF Running, Alive
  <2>3. \A k \in 1 .. Len(stack) - 2 : stack[k] # "brk"
    BY <1>1, <1>4, ShapeFacts
  <2>4. CleanupsEnd'
    <3>1. stack[Len(stack) - 1 + 1] # "cleanup"
      BY <1>1, <1>2 DEF Top
    <3>2. ASSUME NEW k \in 1 .. Len(stack) - 1, stack[k] = "brk"
          PROVE  stack[k + 1] # "cleanup"
      <4>1. k = Len(stack) - 1
        BY <1>2, <2>3, <3>2
      <4> QED BY <3>1, <4>1
    <3> QED BY <2>1, <3>2 DEF CleanupsEnd
  <2>5. StackType'
    BY <1>1, <2>1 DEF StackType
  <2> QED BY <1>2, <2>1, <2>2, <2>4, <2>5 DEF StackStep, StackInv
<1>5. CASE stack[Len(stack) - 1] = "brk" /\ entered # 1
  <2>1. stack' = Pop(2) /\ entered' = entered - 1 /\ entered > 1
        /\ status' = status
    BY <1>2, <1>5 DEF CleanupReturns, BrkLeaves, Outermost
  <2>2. StackType' /\ Shape' /\ Len(stack') > 1
    BY <1>1, <2>1, PopShape
  <2>3. CleanupsEnd'
    BY <1>1, <2>1 DEF CleanupsEnd, Running
  <2> QED BY <2>2, <2>3 DEF StackStep, StackInv
<1> QED BY <1>3, <1>4, <1>5

LEMMA StackStepOK ==
  ASSUME StackInv, RsInv, [TstNext]_tstVars PROVE StackStep
<1>1. CASE UNCHANGED tstVars
  BY <1>1 DEF tstVars, StackStep, StackInv, StackType, Shape, Below, Running,
              CleanupsEnd, Top
<1> SUFFICES ASSUME TstNext PROVE StackStep
  BY <1>1
<1>2. Running /\ StackType /\ Shape
  BY ExitIsEnd DEF StackInv
<1>3. CASE TstTmpdir
  BY <1>2, <1>3, StackKept DEF TstTmpdir
<1>4. CASE Finish
  <2>1. Top = "main"
    BY <1>4 DEF Finish
  <2>2. Len(stack) = 1 /\ entered = 0
    BY <1>2, <2>1, ShapeFacts
  <2>3. CASE stack' = <<"end", "cleanup">> /\ status' = status /\ entered' = entered
    <3>1. Len(stack') = 2 /\ stack'[1] = "end" /\ stack'[2] = "cleanup"
      BY <2>3
    <3>2. stack' \in Seq(Frames)
      BY <2>3 DEF Frames, CleanupFrames
    <3>3. StackType' /\ Shape'
      BY <2>2, <2>3, <3>1, <3>2 DEF StackType, Shape, Below, CleanupFrames
    <3>4. CleanupsEnd'
      BY <1>2, <2>3 DEF CleanupsEnd, Running
    <3> QED BY <3>1, <3>3, <3>4 DEF StackStep, StackInv
  <2>4. CASE UNCHANGED <<stack, entered>>
    BY <1>2, <2>2, <2>4, StackKept
  <2> QED BY <1>4, <2>3, <2>4 DEF Finish
<1>5. CASE CleanupReturns
  BY <1>5, StackReturns
<1>6. CASE CleanupCallsExit
  <2>1. /\ StackType' /\ Shape' /\ Len(stack') = Len(stack) /\ Top' = "exit"
    BY <1>2, <1>6, TopShape DEF CleanupCallsExit, CleanupFrames
  <2>2. CleanupsEnd'
    BY <2>1 DEF CleanupsEnd
  <2> QED BY <2>1, <2>2 DEF StackStep, StackInv
<1>7. CASE Signal
  BY <1>2, <1>7, StackBrk DEF Signal
<1>12. ASSUME NEW type \in ResTypes, SignalInside(type) PROVE StackStep
  BY <1>2, <1>12, StackBrk DEF SignalInside
<1>13. CASE RmdirNoMemory
  <2>1. CASE entered = 0
    BY <1>2, <1>13, <2>1, StackKept DEF RmdirNoMemory
  <2>2. CASE entered # 0
    <3>1. /\ StackType' /\ Shape' /\ Len(stack') = Len(stack)
      BY <1>2, <1>13, <2>2, TopShape DEF RmdirNoMemory, CleanupFrames
    <3>2. CleanupsEnd'
      BY <1>2, <1>13, <2>2 DEF CleanupsEnd, RmdirNoMemory, Running
    <3> QED BY <3>1, <3>2 DEF StackStep, StackInv
  <2> QED BY <2>1, <2>2
<1>8. ASSUME NEW left \in BOOLEAN, NEW removed \in BOOLEAN,
             TstRmdir(left, removed)
      PROVE  StackStep
  <2>1. /\ StackType' /\ Shape' /\ Len(stack') = Len(stack)
    BY <1>2, <1>8, TopShape DEF TstRmdir, CleanupFrames
  <2>2. CleanupsEnd'
    BY <1>2, <1>8 DEF CleanupsEnd, TstRmdir, Running
  <2> QED BY <2>1, <2>2 DEF StackStep, StackInv
<1>9. ASSUME NEW type \in ResTypes, NEW mesg \in Mesg, NEW file \in BOOLEAN,
             Report(type, mesg, file)
      PROVE  StackStep
  BY <1>2, <1>9, StackKept DEF Report
<1>10. ASSUME NEW type \in BrkTypes, NEW mesg \in Mesg, NEW cleanup \in BOOLEAN,
              Break(type, mesg, FALSE, cleanup)
       PROVE  StackStep
  BY <1>2, <1>10, StackBrk DEF Break
<1>11. ASSUME NEW made \in BOOLEAN, NEW chdir \in BOOLEAN,
              TmpdirFails(made, chdir)
       PROVE  StackStep
  <2>1. entered = 0
    BY <1>2, <1>11, ShapeFacts DEF TmpdirFails
  <2> QED BY <1>2, <1>11, <2>1, StackKept DEF TmpdirFails
<1> QED
  BY <1>3, <1>4, <1>5, <1>6, <1>7, <1>8, <1>9, <1>10, <1>11, <1>12, <1>13
  DEF TstNext

LEMMA InitStack == TstInit => StackInv
<1> SUFFICES ASSUME TstInit PROVE StackInv
  OBVIOUS
<1>1. stack = <<"main">> /\ entered = 0 /\ status = Alive
  BY DEF TstInit
<1>2. Len(stack) = 1 /\ stack[1] = "main" /\ stack \in Seq(Frames)
  BY <1>1 DEF Frames
<1>3. StackType /\ Shape
  BY <1>1, <1>2 DEF StackType, Shape, Below
<1> QED BY <1>1, <1>3 DEF StackInv, CleanupsEnd, Running

LEMMA StackInvariant == TstSpec => [](RsInv /\ StackInv)
<1>1. RsInv /\ StackInv /\ [TstNext]_tstVars => (RsInv /\ StackInv)'
  BY DataStepOK, StackStepOK DEF DataStep, StackStep
<1> QED BY <1>1, InitData, InitStack, PTL DEF TstSpec

(***************************************************************************)
(* tst_brk() is reentrant: for any nesting of breaks and signals no        *)
(* cleanup function that tst_brk() called is cut off by the exit of        *)
(* another tst_brk().                                                      *)
(***************************************************************************)
THEOREM CleanupsEndCorrect == TstSpec => []CleanupsEnd
<1>1. StackInv => CleanupsEnd
  BY DEF StackInv
<1> QED BY <1>1, StackInvariant, PTL

(***************************************************************************)
(* A break is final: main() never goes on after its tst_brk() with a       *)
(* cleanup function, or after an unexpected signal.                        *)
(***************************************************************************)
THEOREM BreakIsFinalCorrect == TstSpec => BreakIsFinal
<1>1. RsInv /\ StackInv /\ [TstNext]_tstVars =>
        [Len(stack) > 1 => Len(stack') > 1]_tstVars
  BY StackStepOK DEF StackStep
<1> QED BY <1>1, StackInvariant, PTL DEF TstSpec, BreakIsFinal

-----------------------------------------------------------------------------

(***************************************************************************)
(* Where a cleanup function has called tst_rmdir() the directory is gone,  *)
(* or the warning is counted.                                              *)
(***************************************************************************)
HasCleaned == \E k \in 1 .. Len(stack) : stack[k] = "cleaned"
Tidy == dir # "there" \/ "WARN" \in rs.exitval

CleanInv ==
  /\ ~ testdir => dir = "none"
  /\ Running /\ HasCleaned => Tidy
  /\ SuccessLeavesNothing

(* A step that exits with nothing lost or makes nothing untidy.            *)
LEMMA CleanKept ==
  ASSUME CleanInv, DataStep, UNCHANGED <<testdir, dir>>, Running,
         HasCleaned' => HasCleaned,
         status' = status \/ Tidy \/ "BROK" \in rs'.exitval
  PROVE  CleanInv'
<1>1. Tidy => Tidy'
  BY DEF Tidy, DataStep
<1>2. CASE status' = status
  BY <1>1, <1>2 DEF CleanInv, SuccessLeavesNothing, Running
<1>3. CASE status' = rs'.exitval \ Masked /\ (Tidy \/ "BROK" \in rs'.exitval)
  <2>1. SuccessLeavesNothing'
    BY <1>1, <1>3 DEF SuccessLeavesNothing, Tidy, Masked
  <2>2. Running' /\ HasCleaned' => Tidy'
    BY <1>1 DEF CleanInv
  <2> QED BY <2>1, <2>2 DEF CleanInv
<1> QED BY <1>2, <1>3 DEF DataStep

LEMMA CleanedKept ==
  ASSUME StackType, Shape,
         \/ UNCHANGED stack
         \/ stack' = stack \o <<"brk", "cleanup">>
         \/ stack' = <<"end", "cleanup">>
         \/ Len(stack) > 2 /\ stack' = Pop(2)
  PROVE  HasCleaned' => HasCleaned
<1>1. Len(stack) \in Nat
  BY ShapeFacts
<1>2. CASE UNCHANGED stack \/ stack' = <<"end", "cleanup">>
  BY <1>2 DEF HasCleaned
<1>3. CASE stack' = stack \o <<"brk", "cleanup">>
  <2> DEFINE top == <<"brk", "cleanup">>
  <2>1. /\ top \in Seq(Frames) /\ Len(top) = 2
        /\ top[1] # "cleaned" /\ top[2] # "cleaned"
    BY DEF Frames, CleanupFrames
  <2> HIDE DEF top
  <2>2. /\ Len(stack') = Len(stack) + 2
        /\ \A k \in 1 .. Len(stack) + 2 :
             stack'[k] = IF k <= Len(stack) THEN stack[k]
                         ELSE top[k - Len(stack)]
    BY <1>3, <2>1, ConcatProperties DEF StackType, top
  <2>3. \A k \in 1 .. Len(stack) + 2 :
          stack'[k] = "cleaned" => k \in 1 .. Len(stack) /\ stack[k] = "cleaned"
    BY <1>1, <2>1, <2>2
  <2> QED BY <2>2, <2>3 DEF HasCleaned
<1>4. CASE Len(stack) > 2 /\ stack' = Pop(2)
  <2> DEFINE n == Len(stack) - 2
  <2>1. n \in Int /\ n >= 1 /\ n <= Len(stack)
    BY <1>1, <1>4
  <2>2. \A k \in 1 .. n : stack[k] \in Frames
    BY <1>1, ElementOfSeq DEF StackType
  <2>3. stack' = SubSeq(stack, 1, n)
    BY <1>4 DEF Pop
  <2> HIDE DEF n
  <2>4. Len(stack') = n /\ \A k \in 1 .. n : stack'[k] = stack[k]
    BY <2>1, <2>2, <2>3, SubSeqProperties
  <2> QED BY <1>1, <2>1, <2>4 DEF HasCleaned
<1> QED BY <1>2, <1>3, <1>4

LEMMA CleanBrk ==
  ASSUME CleanInv, StackInv, RsInv, Running, DataStep,
         NEW s, RsOK(s), rs.exitval \subseteq s.exitval, NEW type \in Types,
         NEW mesg \in Texts, NEW file \in BOOLEAN, NEW cleanup \in BOOLEAN,
         TstBrk(s, type, mesg, file, cleanup),
         cleanup \/ Tidy \/ type \in {"BROK", "WARN"}
  PROVE  CleanInv'
<1>1. StackType /\ Shape
  BY DEF StackInv
<1>2. UNCHANGED stack \/ stack' = stack \o <<"brk", "cleanup">>
  BY DEF TstBrk
<1>3. HasCleaned' => HasCleaned
  BY <1>1, <1>2, CleanedKept
<1>4. type \in {"BROK", "WARN"} => "BROK" \in rs'.exitval
  BY BrkData DEF Supported
<1>5. cleanup => status' = status
  BY DEF TstBrk
<1>6. UNCHANGED <<testdir, dir>>
  BY DEF TstBrk
<1> QED BY <1>3, <1>4, <1>5, <1>6, CleanKept

LEMMA CleanStepOK ==
  ASSUME CleanInv, StackInv, RsInv, [TstNext]_tstVars PROVE CleanInv'
<1>1. CASE UNCHANGED tstVars
  BY <1>1 DEF tstVars, CleanInv, SuccessLeavesNothing, Running, HasCleaned, Tidy
<1> SUFFICES ASSUME TstNext PROVE CleanInv'
  BY <1>1
<1>2. Running /\ StackType /\ Shape /\ DataStep
  BY ExitIsEnd, DataStepOK DEF StackInv
<1>3. /\ Mesg \subseteq Texts /\ "signal" \in Texts /\ "rmdir" \in Texts
      /\ "BROK" \in Types /\ "WARN" \in Types /\ RsOK(rs)
  BY DEF Texts, Types, RsInv
<1>4. Top = "main" => ~ HasCleaned
  <2>1. Top = "main" => Len(stack) = 1 /\ stack[1] = "main"
    BY <1>2, ShapeFacts
  <2> QED BY <2>1 DEF HasCleaned
<1>5. Top = "cleaned" => HasCleaned
  BY <1>2, ShapeFacts DEF HasCleaned, Top
<1>6. CASE TstTmpdir
  <2>1. ~ HasCleaned' /\ testdir' /\ status' = status
    BY <1>4, <1>6 DEF TstTmpdir, HasCleaned
  <2> QED BY <1>2, <2>1 DEF CleanInv, SuccessLeavesNothing, Running
<1>7. CASE Finish
  <2>1. HasCleaned' => HasCleaned
    BY <1>2, <1>7, CleanedKept DEF Finish
  <2>2. status' = status \/ Tidy
    BY <1>7 DEF Finish, CleanInv, Tidy
  <2>3. UNCHANGED <<testdir, dir>>
    BY <1>7 DEF Finish
  <2> QED BY <1>2, <2>1, <2>2, <2>3, CleanKept
<1>8. CASE CleanupReturns
  <2>1. UNCHANGED stack \/ (Len(stack) > 2 /\ stack' = Pop(2))
    <3>1. UNCHANGED stack \/ stack' = Pop(2)
      BY <1>8 DEF CleanupReturns
    <3>2. stack[Len(stack) - 1] = "brk" => Len(stack) > 2
      <4>1. entered = 0 => stack[Len(stack) - 1] # "brk"
        BY <1>2, <1>8, ShapeFacts DEF CleanupReturns
      <4>2. /\ Len(stack) = Below + 2 * entered /\ Below \in {1, 2}
            /\ entered \in Nat
        BY <1>2 DEF Shape, Below, StackType
      <4> QED BY <4>1, <4>2
    <3>3. stack[Len(stack) - 1] # "brk" => UNCHANGED stack
      BY <1>8 DEF CleanupReturns
    <3> QED BY <3>1, <3>2, <3>3
  <2>2. HasCleaned' => HasCleaned
    BY <1>2, <2>1, CleanedKept
  <2>3. Tidy
    BY <1>2, <1>5, <1>8 DEF CleanupReturns, CleanInv
  <2>4. UNCHANGED <<testdir, dir>>
    BY <1>8 DEF CleanupReturns
  <2> QED BY <1>2, <2>2, <2>3, <2>4, CleanKept
<1>9. CASE CleanupCallsExit
  <2>1. Tidy
    BY <1>2, <1>5, <1>9 DEF CleanupCallsExit, CleanInv
  <2>2. HasCleaned
    BY <1>5, <1>9 DEF CleanupCallsExit
  <2>3. UNCHANGED <<testdir, dir>>
    BY <1>9 DEF CleanupCallsExit
  <2> QED BY <1>2, <2>1, <2>2, <2>3, CleanKept
<1>10. CASE Signal
  BY <1>2, <1>3, <1>10, CleanBrk DEF Signal
<1>15. ASSUME NEW type \in ResTypes, SignalInside(type) PROVE CleanInv'
  <2>1. PICK s \in HalfTold(rs, type) :
          TstBrk(s, "BROK", "signal", FALSE, TRUE)
    BY <1>15 DEF SignalInside
  <2>2. RsOK(s) /\ rs.exitval \subseteq s.exitval
    BY <1>3, <1>15, HalfToldOK, TstAssumption
  <2> QED BY <1>2, <1>3, <2>1, <2>2, CleanBrk
<1>16. CASE RmdirNoMemory
  <2> DEFINE s == BrkResults(rs, "BROK", "rmdir", FALSE)
  <2>1. RsOK(s) /\ "BROK" \in s.exitval
    BY <1>3, BrkResultsOK DEF RsInv, Supported
  <2>2. UNCHANGED <<testdir, dir>> /\ (rs' = s \/ TstExit(s))
    BY <1>16 DEF RmdirNoMemory
  <2> HIDE DEF s
  <2>3. "BROK" \in rs'.exitval
    BY <2>1, <2>2, ExitOK
  <2>4. HasCleaned' => HasCleaned
    <3>1. CASE UNCHANGED stack
      BY <3>1 DEF HasCleaned
    <3>2. CASE stack' = [stack EXCEPT ![Len(stack)] = "fault"]
      <4>1. Len(stack) \in Nat /\ Len(stack) > 1
        BY <1>2, <1>16, ShapeFacts DEF RmdirNoMemory
      <4>2. Len(stack) \in 1 .. Len(stack) /\ "fault" \in Frames
        BY <4>1 DEF Frames, CleanupFrames
      <4>3. /\ Len(stack') = Len(stack)
            /\ \A k \in 1 .. Len(stack) :
                 stack'[k] = IF k = Len(stack) THEN "fault" ELSE stack[k]
        BY <1>2, <3>2, <4>2, ExceptSeq DEF StackType
      <4> QED BY <4>3 DEF HasCleaned
    <3> QED BY <1>16, <3>1, <3>2 DEF RmdirNoMemory
  <2> QED BY <1>2, <2>2, <2>3, <2>4, CleanKept
<1>11. ASSUME NEW left \in BOOLEAN, NEW removed \in BOOLEAN,
              TstRmdir(left, removed)
       PROVE  CleanInv'
  <2>1. /\ status' = status /\ testdir' = testdir /\ dir' \in {dir, "gone"}
        /\ removed => dir' = "gone" /\ dir = "there"
        /\ ~ removed => dir' = dir
    BY <1>11 DEF TstRmdir
  <2>2. ~ removed => "WARN" \in rs'.exitval
    <3>1. PICK s : /\ s = rs \/ s = Result(rs, "WARN", "rmdir", FALSE)
                   /\ ~ removed => rs' = Result(s, "WARN", "rmdir", FALSE)
      BY <1>11 DEF TstRmdir, RmdirTells
    <3>2. RsOK(s)
      BY <1>3, <3>1, RmdirData
    <3>3. "WARN" \in Result(s, "WARN", "rmdir", FALSE).exitval
      BY <3>2, RmdirData
    <3> QED BY <3>1, <3>3
  <2>3. Tidy'
    BY <2>1, <2>2 DEF Tidy
  <2>4. ~ testdir' => dir' = "none"
    BY <2>1 DEF CleanInv
  <2>5. SuccessLeavesNothing'
    BY <1>2, <2>1 DEF SuccessLeavesNothing, Running
  <2> QED BY <2>3, <2>4, <2>5 DEF CleanInv
<1>12. ASSUME NEW type \in ResTypes, NEW mesg \in Mesg, NEW file \in BOOLEAN,
              Report(type, mesg, file)
       PROVE  CleanInv'
  BY <1>2, <1>12, CleanKept DEF Report, HasCleaned
<1>13. ASSUME NEW type \in BrkTypes, NEW mesg \in Mesg, NEW cleanup \in BOOLEAN,
              Break(type, mesg, FALSE, cleanup)
       PROVE  CleanInv'
  <2>1. cleanup \/ Tidy \/ type \in {"BROK", "WARN"}
    BY <1>13 DEF Break, Tidy
  <2>2. type \in Types /\ mesg \in Texts /\ FALSE \in BOOLEAN
    BY <1>3, TstAssumption
  <2>3. TstBrk(rs, type, mesg, FALSE, cleanup)
    BY <1>13 DEF Break
  <2> QED BY <1>2, <1>3, <2>1, <2>2, <2>3, CleanBrk
<1>14. ASSUME NEW made \in BOOLEAN, NEW chdir \in BOOLEAN,
              TmpdirFails(made, chdir)
       PROVE  CleanInv'
  <2>1. "BROK" \in rs'.exitval /\ status' = rs'.exitval \ Masked
    BY <1>14, TmpdirData
  <2>2. /\ UNCHANGED stack /\ Top = "main"
        /\ testdir' = made /\ dir' = IF made THEN "there" ELSE "none"
    BY <1>14 DEF TmpdirFails
  <2>3. ~ HasCleaned'
    BY <1>4, <2>2 DEF HasCleaned
  <2> QED BY <2>1, <2>2, <2>3 DEF CleanInv, SuccessLeavesNothing, Masked
<1> QED
  BY <1>6, <1>7, <1>8, <1>9, <1>10, <1>11, <1>12, <1>13, <1>14, <1>15, <1>16
  DEF TstNext

(***************************************************************************)
(* A test that exits with 0 has removed its temporary directory, wherever  *)
(* tst_tmpdir(), rmobj() or the test failed.                               *)
(***************************************************************************)
THEOREM SuccessLeavesNothingCorrect == TstSpec => []SuccessLeavesNothing
<1>1. TstInit => CleanInv
  BY DEF TstInit, CleanInv, SuccessLeavesNothing, Running, HasCleaned
<1>2. CleanInv /\ (RsInv /\ StackInv) /\ [TstNext]_tstVars => CleanInv'
  BY CleanStepOK
<1>3. CleanInv => SuccessLeavesNothing
  BY DEF CleanInv
<1> QED BY <1>1, <1>2, <1>3, StackInvariant, PTL DEF TstSpec

(***************************************************************************)
(* The statics of tst_res.c, the stack and the rest keep their types.      *)
(***************************************************************************)
THEOREM TstTypeCorrect == TstSpec => []TstTypeOK
<1> DEFINE Rest == /\ testdir \in BOOLEAN /\ dir \in {"none", "there", "gone"}
                   /\ status \in SUBSET (Types \cup Alive) /\ sigs \in Nat
                   /\ torn \in BOOLEAN
<1>1. TstInit => Rest
  <2> SUFFICES ASSUME TstInit PROVE Rest
    OBVIOUS
  <2>1. testdir \in BOOLEAN
    BY DEF TstInit
  <2>2. status = Alive /\ dir = "none" /\ sigs = 0
    BY DEF TstInit
  <2>3. torn \in BOOLEAN
    BY DEF TstInit
  <2> QED BY <2>1, <2>2, <2>3
<1>2. Rest /\ (RsInv /\ StackInv) /\ [TstNext]_tstVars => Rest'
  <2> SUFFICES ASSUME Rest, RsInv, StackInv, [TstNext]_tstVars PROVE Rest'
    OBVIOUS
  <2>1. status' \in SUBSET (Types \cup Alive)
    <3>1. DataStep
      BY DataStepOK
    <3>2. rs'.exitval \subseteq Types
      BY <3>1 DEF DataStep, RsInv, RsOK, RsType
    <3> QED BY <3>1, <3>2 DEF DataStep
  <2> USE DEF tstVars, TstNext, TstTmpdir, Finish, CleanupReturns,
              CleanupCallsExit, Signal, SignalInside, RmdirNoMemory, TstRmdir,
              Report, Break, TmpdirFails, TstBrk
  <2>2. testdir' \in BOOLEAN
    <3>1. testdir' = testdir \/ testdir' = TRUE \/ testdir' \in BOOLEAN
      OBVIOUS
    <3> QED BY <3>1
  <2>3. dir' \in {"none", "there", "gone"}
    OBVIOUS
  <2>4. sigs' = sigs \/ sigs' = sigs + 1
    OBVIOUS
  <2>5. torn' \in BOOLEAN
    <3>1. torn' = torn \/ torn' = TRUE
      OBVIOUS
    <3> QED BY <3>1
  <2> QED BY <2>1, <2>2, <2>3, <2>4, <2>5
<1>3. RsInv /\ StackInv /\ Rest => TstTypeOK
  <2> SUFFICES ASSUME RsInv, StackInv, Rest PROVE TstTypeOK
    OBVIOUS
  <2>1. stack \in Seq({"main", "end", "brk", "cleanup", "cleaned", "exit", "fault"})
    <3>1. Frames = {"main", "end", "brk", "cleanup", "cleaned", "exit", "fault"}
      BY DEF Frames, CleanupFrames
    <3> QED BY <3>1 DEF StackInv, StackType
  <2> QED BY <2>1 DEF RsInv, RsOK, RsType, StackInv, StackType, TstTypeOK
<1> QED BY <1>1, <1>2, <1>3, StackInvariant, PTL DEF TstSpec

-----------------------------------------------------------------------------

(***************************************************************************)
(* What FailuresToldOnce says, for cases, output and held result apart:    *)
(* the cases up to the m-th that are to be told have been printed.         *)
(***************************************************************************)
First(cases, i) ==
  \/ i = 1
  \/ ~ SameResult(cases[i - 1], cases[i])
  \/ cases[i].file \/ cases[i - 1].file

ToTell(cases, m) ==
  {i \in 1 .. m : cases[i].type \in Failing /\ First(cases, i)}

NumsOf(out) == {out[k].num : k \in 1 .. Len(out)} \ {0}
Ascending(out) ==
  \A j, k \in 1 .. Len(out) :
    j < k /\ out[j].num # 0 /\ out[k].num # 0 => out[j].num < out[k].num
FilesFollow(out) ==
  \A k \in 1 .. Len(out) : out[k].file # 0 => out[k].file = OwnFile(out[k].num)

Printed(s, m) == /\ NumsOf(s.out) = ToTell(s.cases, m)
                 /\ Ascending(s.out) /\ FilesFollow(s.out)

(***************************************************************************)
(* Of n cases nothing is held only after one with a file; the one held is  *)
(* the first of its kind, and all cases after it repeat it.                *)
(***************************************************************************)
HeldInv(cases, held, n) ==
  IF held = 0 THEN n = 0 \/ cases[n].file
  ELSE /\ held \in 1 .. n
       /\ ~ cases[held].file /\ First(cases, held)
       /\ \A i \in held + 1 .. n :
            SameResult(cases[held], cases[i]) /\ ~ cases[i].file

Until(held, n) == IF held = 0 THEN n ELSE held - 1

FilesFail(cases) ==
  \A i \in 1 .. Len(cases) : cases[i].file => cases[i].type \in Failing

OthersFail(others) ==
  \A i \in 1 .. Len(others) : others[i].file => others[i].type \in Failing

FilesShown(s) == FilesFail(s.cases) /\ OthersFail(s.others)

LiveInv(s) ==
  FilesShown(s) =>
    /\ s.file = 0
    /\ HeldInv(s.cases, s.held, Len(s.cases))
    /\ Printed(s, Until(s.held, Len(s.cases)))

ExitInv(s) ==
  FilesShown(s) => s.held = 0 /\ Printed(s, Len(s.cases))

(* A warning or an information is about to be told, File is set for it.    *)
NoteReady(s, type, file) ==
  FilesShown(s) /\ (file => type \in Failing) =>
    /\ s.file = IF file THEN OtherFile ELSE 0
    /\ HeldInv(s.cases, s.held, Len(s.cases))
    /\ Printed(s, Until(s.held, Len(s.cases)))

ToldInv ==
  mode = "NOPASS" /\ ~ torn => IF Running THEN LiveInv(rs) ELSE ExitInv(rs)

(***************************************************************************)
(* One line more in the output, of a number above all that are there.      *)
(***************************************************************************)
LEMMA LineAppended ==
  ASSUME NEW out \in Seq(OutLine), NEW line \in OutLine,
         Ascending(out), FilesFollow(out),
         line.num = 0 \/ (\A i \in NumsOf(out) : i < line.num),
         line.file \in {0, OwnFile(line.num)}
  PROVE  /\ Append(out, line) \in Seq(OutLine)
         /\ NumsOf(Append(out, line)) = NumsOf(out) \cup ({line.num} \ {0})
         /\ Ascending(Append(out, line)) /\ FilesFollow(Append(out, line))
<1> DEFINE new == Append(out, line)
           n == Len(out)
<1>1. /\ new \in Seq(OutLine) /\ Len(new) = n + 1 /\ n \in Nat
      /\ \A k \in 1 .. n : new[k] = out[k]
      /\ new[n + 1] = line
  OBVIOUS
<1>2. \A k \in 1 .. n : out[k] \in OutLine
  OBVIOUS
<1> HIDE DEF new, n
<1>3. NumsOf(new) = NumsOf(out) \cup ({line.num} \ {0})
  <2>1. {new[k].num : k \in 1 .. n + 1} =
          {out[k].num : k \in 1 .. n} \cup {line.num}
    <3>1. ASSUME NEW x \in {new[k].num : k \in 1 .. n + 1}
          PROVE  x \in {out[k].num : k \in 1 .. n} \cup {line.num}
      BY <1>1
    <3>2. ASSUME NEW k \in 1 .. n
          PROVE  out[k].num \in {new[j].num : j \in 1 .. n + 1}
      BY <1>1
    <3>3. line.num \in {new[k].num : k \in 1 .. n + 1}
      BY <1>1
    <3> QED BY <3>1, <3>2, <3>3
  <2> QED BY <1>1, <2>1 DEF NumsOf, n
<1>4. Ascending(new)
  <2> SUFFICES ASSUME NEW j \in 1 .. n + 1, NEW k \in 1 .. n + 1, j < k,
                      new[j].num # 0, new[k].num # 0
               PROVE  new[j].num < new[k].num
    BY <1>1 DEF Ascending
  <2>1. j \in 1 .. n /\ new[j] = out[j]
    BY <1>1
  <2>2. CASE k \in 1 .. n
    BY <1>1, <2>1, <2>2 DEF Ascending, n
  <2>3. CASE k = n + 1
    <3>1. out[j].num \in NumsOf(out)
      BY <2>1 DEF NumsOf, n
    <3> QED BY <1>1, <2>1, <2>3, <3>1
  <2> QED BY <1>1, <2>2, <2>3
<1>5. FilesFollow(new)
  <2> SUFFICES ASSUME NEW k \in 1 .. n + 1, new[k].file # 0
               PROVE  new[k].file = OwnFile(new[k].num)
    BY <1>1 DEF FilesFollow
  <2>1. CASE k \in 1 .. n
    BY <1>1, <2>1 DEF FilesFollow, n
  <2>2. CASE k = n + 1
    BY <1>1, <2>2
  <2> QED BY <1>1, <2>1, <2>2
<1> QED BY <1>1, <1>3, <1>4, <1>5 DEF new

(***************************************************************************)
(* tst_print() in NOPASS mode, field by field.                             *)
(***************************************************************************)
LEMMA PrintLine ==
  ASSUME mode = "NOPASS", NEW s \in RsType, NEW type \in Types, NEW num \in Nat
  PROVE  LET t == TstPrint(s, type, num)
             line == [type |-> type, num |-> num, file |-> s.file]
         IN  /\ t \in RsType /\ t.cases = s.cases /\ t.held = s.held
             /\ t.others = s.others /\ line \in OutLine
             /\ IF type \in Failing
                THEN t.out = Append(s.out, line) /\ t.file = 0
                ELSE t.out = s.out /\ t.file = s.file
<1> DEFINE t == [s EXCEPT !.exitval = @ \cup {type}]
           line == [type |-> type, num |-> num, file |-> s.file]
           new == Append(t.out, line)
           u == [t EXCEPT !.out = new, !.file = 0]
<1>1. /\ t \in RsType /\ t.cases = s.cases /\ t.held = s.held
      /\ t.others = s.others /\ t.out = s.out /\ t.file = s.file
  BY DEF RsType
<1>2. line \in OutLine
  BY DEF RsType, OutLine
<1>3. new \in Seq(OutLine)
  BY <1>1, <1>2 DEF RsType
<1> HIDE DEF t, new, line
<1>4. /\ u \in RsType /\ u.cases = t.cases /\ u.held = t.held
      /\ u.others = t.others /\ u.out = new /\ u.file = 0
  BY <1>1, <1>3 DEF RsType, Files
<1>5. TstPrint(s, type, num) = IF type \in Failing THEN u ELSE t
  <2>1. line = [type |-> type, num |-> num, file |-> t.file]
    BY <1>1 DEF line
  <2>2. u = [t EXCEPT !.out = Append(@, line), !.file = 0]
    BY <1>1, <1>3 DEF RsType, new
  <2>3. TstPrint(s, type, num) =
          IF type \in Failing THEN [t EXCEPT !.out = Append(@, line), !.file = 0]
          ELSE t
    BY <1>1 DEF TstPrint, t, line
  <2> HIDE DEF u
  <2> QED BY <2>2, <2>3
<1> HIDE DEF u
<1> QED BY <1>1, <1>2, <1>4, <1>5 DEF new, line

(***************************************************************************)
(* The next case to be told is printed if it failed.                       *)
(***************************************************************************)
LEMMA CasePrinted ==
  ASSUME mode = "NOPASS", NEW s \in RsType, NEW m \in Nat, Printed(s, m),
         NEW num \in 1 .. Len(s.cases), num = m + 1, First(s.cases, num),
         s.file \in {0, num}
  PROVE  LET t == TstPrint(s, s.cases[num].type, num)
         IN  /\ t \in RsType /\ t.cases = s.cases /\ t.held = s.held
             /\ Printed(t, num)
             /\ s.cases[num].type \in Failing => t.file = 0
             /\ s.file = 0 => t.file = 0
<1> DEFINE type == s.cases[num].type
           t == TstPrint(s, type, num)
           line == [type |-> type, num |-> num, file |-> s.file]
<1>1. num \in Nat /\ num # 0 /\ type \in Types
  <2>1. s.cases \in Seq(Case)
    BY DEF RsType
  <2>2. s.cases[num] \in Case /\ num \in Nat /\ num # 0
    BY <2>1
  <2> QED BY <2>2 DEF Case
<1>2. /\ s.out \in Seq(OutLine) /\ line.num = num /\ line.file = s.file
      /\ NumsOf(s.out) = ToTell(s.cases, m)
      /\ Ascending(s.out) /\ FilesFollow(s.out)
  BY DEF RsType, Printed
<1>3. \A i \in NumsOf(s.out) : i < num
  BY <1>2 DEF ToTell
<1>4. ToTell(s.cases, num) =
        ToTell(s.cases, m) \cup (IF type \in Failing THEN {num} ELSE {})
  BY <1>1 DEF ToTell
<1> HIDE DEF type
<1>5. /\ t \in RsType /\ t.cases = s.cases /\ t.held = s.held /\ line \in OutLine
      /\ IF type \in Failing THEN t.out = Append(s.out, line) /\ t.file = 0
         ELSE t.out = s.out /\ t.file = s.file
  BY <1>1, PrintLine
<1> HIDE DEF t
<1>6. Printed(t, num)
  <2>1. CASE type \in Failing
    <3>1. /\ NumsOf(Append(s.out, line)) = NumsOf(s.out) \cup ({line.num} \ {0})
          /\ Ascending(Append(s.out, line)) /\ FilesFollow(Append(s.out, line))
      <4>1. line.file \in {0, OwnFile(line.num)}
        BY <1>1, <1>2 DEF OwnFile
      <4> HIDE DEF line
      <4> QED BY <1>2, <1>3, <1>5, <4>1, LineAppended
    <3> QED BY <1>1, <1>2, <1>4, <1>5, <2>1, <3>1 DEF Printed
  <2>2. CASE type \notin Failing
    BY <1>2, <1>4, <1>5, <2>2 DEF Printed
  <2> QED BY <2>1, <2>2
<1> QED BY <1>5, <1>6 DEF t, type

(* The cases after the one held are none to be told.                       *)
LEMMA OthersRepeat ==
  ASSUME NEW cases, NEW n \in Nat, NEW held, held # 0, HeldInv(cases, held, n)
  PROVE  ToTell(cases, n) = ToTell(cases, held)
<1>1. /\ held \in 1 .. n /\ ~ cases[held].file
      /\ \A i \in held + 1 .. n :
           SameResult(cases[held], cases[i]) /\ ~ cases[i].file
  BY DEF HeldInv
<1>2. \A i \in held + 1 .. n : ~ First(cases, i)
  <2> SUFFICES ASSUME NEW i \in held + 1 .. n PROVE ~ First(cases, i)
    OBVIOUS
  <2>1. i # 1 /\ ~ cases[i].file /\ ~ cases[i - 1].file
    BY <1>1
  <2>2. SameResult(cases[i - 1], cases[i])
    <3>1. CASE i = held + 1
      BY <1>1, <3>1
    <3>2. CASE i # held + 1
      <4>1. i - 1 \in held + 1 .. n
        BY <1>1, <3>2
      <4>2. SameResult(cases[held], cases[i - 1]) /\ SameResult(cases[held], cases[i])
        BY <1>1, <4>1
      <4> QED BY <4>2 DEF SameResult
    <3> QED BY <3>1, <3>2
  <2> QED BY <2>1, <2>2 DEF First
<1> QED BY <1>1, <1>2 DEF ToTell

(***************************************************************************)
(* The held result is printed; then all the n cases have been.             *)
(***************************************************************************)
LEMMA HeldPrinted ==
  ASSUME mode = "NOPASS", NEW s \in RsType, NEW n \in 0 .. Len(s.cases),
         s.file = 0,
         HeldInv(s.cases, s.held, n), Printed(s, Until(s.held, n))
  PROVE  /\ PrintHeld(s) \in RsType /\ PrintHeld(s).cases = s.cases
         /\ PrintHeld(s).file = 0 /\ PrintHeld(s).held = 0
         /\ Printed(PrintHeld(s), n)
<1>1. CASE s.held = 0
  BY <1>1 DEF PrintHeld, Until
<1>2. CASE s.held # 0
  <2> DEFINE held == s.held
             t == TstPrint(s, s.cases[held].type, held)
             u == [t EXCEPT !.held = 0]
  <2>1. /\ held \in 1 .. n /\ n \in Nat /\ Len(s.cases) \in Nat
        /\ First(s.cases, held) /\ Printed(s, held - 1)
        /\ \A i \in held + 1 .. n :
             SameResult(s.cases[held], s.cases[i]) /\ ~ s.cases[i].file
        /\ ~ s.cases[held].file
    BY <1>2 DEF HeldInv, Until, RsType
  <2> HIDE DEF held
  <2>4. /\ t \in RsType /\ t.cases = s.cases /\ Printed(t, held) /\ t.file = 0
    BY <2>1, CasePrinted
  <2> HIDE DEF t
  <2>5. /\ u \in RsType /\ u.cases = t.cases /\ u.file = 0 /\ u.held = 0
        /\ u.out = t.out
    BY <2>4 DEF RsType
  <2> HIDE DEF u
  <2>6. ToTell(s.cases, n) = ToTell(s.cases, held)
    BY <1>2, OthersRepeat DEF held
  <2>7. Printed(u, n)
    BY <2>4, <2>5, <2>6 DEF Printed
  <2>8. PrintHeld(s) = u
    BY <1>2 DEF PrintHeld, u, t, held
  <2> QED BY <2>4, <2>5, <2>7, <2>8
<1> QED BY <1>1, <1>2

(***************************************************************************)
(* tst_condense(), which is given the num-th case.                         *)
(***************************************************************************)
LEMMA CondenseTold ==
  ASSUME mode = "NOPASS", NEW s \in RsType, NEW n \in Nat,
         NEW num \in Nat, num = n + 1, Len(s.cases) = num,
         FilesFail(s.cases), s.file = IF s.cases[num].file THEN num ELSE 0,
         HeldInv(s.cases, s.held, n), Printed(s, Until(s.held, n))
  PROVE  LET v == TstCondense(s, num)
         IN  /\ v.cases = s.cases /\ v.file = 0
             /\ HeldInv(v.cases, v.held, num)
             /\ Printed(v, Until(v.held, num))
<1> DEFINE v == TstCondense(s, num)
<1>1. CASE Repeats(s, num)
  <2>1. /\ v = s /\ s.held # 0 /\ s.file = 0
        /\ SameResult(s.cases[s.held], s.cases[num])
    BY <1>1 DEF Repeats, TstCondense
  <2>2. ~ s.cases[num].file
    BY <2>1
  <2>3. HeldInv(s.cases, s.held, num)
    BY <2>1, <2>2 DEF HeldInv
  <2>4. Until(s.held, num) = Until(s.held, n)
    BY <2>1 DEF Until
  <2> HIDE DEF v
  <2> QED BY <2>1, <2>3, <2>4 DEF v
<1>2. CASE ~ Repeats(s, num)
  <2> DEFINE r == [s EXCEPT !.file = 0]
             q == PrintHeld(r)
             t == [q EXCEPT !.file = s.file]
             p == TstPrint(t, t.cases[num].type, num)
             h == [t EXCEPT !.held = num]
  <2>6. /\ r \in RsType /\ r.cases = s.cases /\ r.file = 0 /\ r.held = s.held
        /\ r.out = s.out /\ s.file \in Files /\ n \in 0 .. Len(s.cases)
    <3>1. n \in 0 .. Len(s.cases)
      OBVIOUS
    <3>2. 0 \in Files
      BY DEF Files
    <3> QED BY <3>1, <3>2 DEF RsType
  <2>7. HeldInv(r.cases, r.held, n) /\ Printed(r, Until(r.held, n))
    BY <2>6 DEF Printed
  <2> HIDE DEF r
  <2>8. /\ q \in RsType /\ q.cases = s.cases /\ q.held = 0 /\ Printed(q, n)
    BY <2>6, <2>7, HeldPrinted
  <2> HIDE DEF q
  <2>1. /\ t \in RsType /\ t.cases = s.cases /\ t.file = s.file /\ t.held = 0
        /\ Printed(t, n)
    <3>1. /\ t \in RsType /\ t.cases = q.cases /\ t.file = s.file
          /\ t.held = q.held /\ t.out = q.out
      BY <2>6, <2>8 DEF RsType
    <3> QED BY <2>8, <3>1 DEF Printed
  <2>2. v = IF t.file # 0 THEN p ELSE h
    BY <1>2, <2>1 DEF TstCondense, t, q, r
  <2> HIDE DEF t, v
  <2>3. First(s.cases, num)
    <3>1. CASE s.cases[num].file
      BY <3>1 DEF First
    <3>2. CASE ~ s.cases[num].file /\ s.held = 0
      BY <3>2 DEF First, HeldInv
    <3>3. CASE ~ s.cases[num].file /\ s.held # 0
      <4>1. ~ SameResult(s.cases[s.held], s.cases[num])
        BY <1>2, <3>3 DEF Repeats
      <4>2. s.held = n \/ SameResult(s.cases[s.held], s.cases[n])
        BY <3>3 DEF HeldInv
      <4>3. ~ SameResult(s.cases[n], s.cases[num])
        BY <4>1, <4>2 DEF SameResult
      <4> QED BY <4>3 DEF First
    <3> QED BY <3>1, <3>2, <3>3
  <2>4. CASE s.cases[num].file
    <3>1. t.file = num /\ num # 0 /\ v = p
      BY <2>1, <2>2, <2>4
    <3>2. s.cases[num].type \in Failing
      BY <2>4 DEF FilesFail
    <3>3. /\ p.cases = t.cases /\ p.held = t.held /\ p.file = 0
          /\ Printed(p, num)
      BY <2>1, <2>3, <3>1, <3>2, CasePrinted
    <3> HIDE DEF p
    <3> QED BY <2>1, <2>4, <3>1, <3>3 DEF HeldInv, Until, v
  <2>5. CASE ~ s.cases[num].file
    <3>1. t.file = 0 /\ v = h
      BY <2>1, <2>2, <2>5
    <3>2. h.cases = t.cases /\ h.held = num /\ h.file = 0 /\ h.out = t.out
      BY <2>1, <3>1 DEF RsType
    <3> HIDE DEF h
    <3>3. HeldInv(h.cases, h.held, num)
      BY <2>1, <2>3, <2>5, <3>2 DEF HeldInv
    <3>4. Printed(h, Until(h.held, num))
      BY <2>1, <3>2 DEF Printed, Until
    <3> QED BY <2>1, <3>1, <3>2, <3>3, <3>4 DEF v
  <2> QED BY <2>4, <2>5
<1> QED BY <1>1, <1>2

(* tst_condense() changes nothing of what was told.                        *)
LEMMA CasesStay ==
  ASSUME mode = "NOPASS", NEW s \in RsType, s.held <= Len(s.cases),
         NEW num \in 1 .. Len(s.cases)
  PROVE  /\ TstCondense(s, num).cases = s.cases
         /\ TstCondense(s, num).others = s.others
<1>1. /\ s.cases \in Seq(Case) /\ s.held \in Nat /\ s.file \in Files
      /\ \A i \in 1 .. Len(s.cases) : s.cases[i].type \in Types /\ i \in Nat
  <2>1. s.cases \in Seq(Case) /\ s.held \in Nat /\ s.file \in Files
    BY DEF RsType
  <2>2. \A i \in 1 .. Len(s.cases) : s.cases[i] \in Case /\ i \in Nat
    BY <2>1
  <2> QED BY <2>1, <2>2 DEF Case
<1> DEFINE r == [s EXCEPT !.file = 0]
           q == PrintHeld(r)
           t == [q EXCEPT !.file = s.file]
<1>0. /\ r \in RsType /\ r.cases = s.cases /\ r.others = s.others
      /\ r.held = s.held
  BY DEF RsType, Files
<1> HIDE DEF r
<1>6. q \in RsType /\ q.cases = s.cases /\ q.others = s.others
  <2>1. CASE r.held = 0
    BY <1>0, <2>1 DEF PrintHeld
  <2>2. CASE r.held # 0
    <3> DEFINE held == r.held
               type == r.cases[held].type
               p == TstPrint(r, type, held)
               u == [p EXCEPT !.held = 0]
    <3>2. type \in Types /\ held \in Nat
      BY <1>0, <1>1, <2>2
    <3> HIDE DEF held, type
    <3>3. p \in RsType /\ p.cases = r.cases /\ p.others = r.others
      BY <1>0, <3>2, PrintLine
    <3> HIDE DEF p
    <3>4. u \in RsType /\ u.cases = p.cases /\ u.others = p.others
      BY <3>3 DEF RsType
    <3> HIDE DEF u
    <3> QED BY <1>0, <2>2, <3>3, <3>4 DEF PrintHeld, u, p, type, held
  <2> QED BY <2>1, <2>2
<1> HIDE DEF q
<1>2. t \in RsType /\ t.cases = s.cases /\ t.others = s.others
  BY <1>1, <1>6 DEF RsType
<1> HIDE DEF t
<1> DEFINE type == s.cases[num].type
           p == TstPrint(t, type, num)
           h == [t EXCEPT !.held = num]
<1>3. type \in Types /\ num \in Nat
  BY <1>1
<1> HIDE DEF type
<1>4. /\ p.cases = t.cases /\ h.cases = t.cases
      /\ p.others = t.others /\ h.others = t.others
  BY <1>2, <1>3, PrintLine DEF RsType
<1> HIDE DEF p, h
<1>5. TstCondense(s, num) \in {s, p, h}
  BY <1>2 DEF TstCondense, t, q, r, p, h, type
<1> QED BY <1>2, <1>4, <1>5

(* A case more says nothing else of those before it.                       *)
LEMMA CaseAppended ==
  ASSUME NEW cases \in Seq(Case), NEW new \in Case, NEW held \in Nat
  PROVE  LET more == Append(cases, new)
             n == Len(cases)
         IN  /\ FilesFail(more) => FilesFail(cases)
             /\ HeldInv(cases, held, n) => HeldInv(more, held, n)
             /\ \A m \in 0 .. n : ToTell(more, m) = ToTell(cases, m)
<1> DEFINE more == Append(cases, new)
           n == Len(cases)
<1>1. /\ more \in Seq(Case) /\ Len(more) = n + 1 /\ n \in Nat
      /\ \A k \in 1 .. n : more[k] = cases[k]
  OBVIOUS
<1> HIDE DEF more, n
<1>2. \A i \in 1 .. n : First(more, i) <=> First(cases, i)
  BY <1>1 DEF First
<1>3. FilesFail(more) => FilesFail(cases)
  BY <1>1 DEF FilesFail, n
<1>4. HeldInv(cases, held, n) => HeldInv(more, held, n)
  BY <1>1, <1>2 DEF HeldInv
<1>5. \A m \in 0 .. n : ToTell(more, m) = ToTell(cases, m)
  BY <1>1, <1>2 DEF ToTell
<1> QED BY <1>3, <1>4, <1>5 DEF more, n

LEMMA UncountTold ==
  ASSUME mode = "NOPASS", NEW s \in RsType, NEW type \in Uncounted,
         NEW file \in BOOLEAN, NoteReady(s, type, file)
  PROVE  LiveInv(Uncount(s, type, file))
<1> DEFINE t == TstPrint(s, type, 0)
           line == [type |-> type, num |-> 0, file |-> s.file]
           note == [type |-> type, file |-> file]
           u == [t EXCEPT !.others = Append(@, note)]
<1>1. /\ t \in RsType /\ t.cases = s.cases /\ t.held = s.held /\ line \in OutLine
      /\ t.others = s.others
      /\ IF type \in Failing THEN t.out = Append(s.out, line) /\ t.file = 0
         ELSE t.out = s.out /\ t.file = s.file
  BY PrintLine DEF Uncounted, Types
<1> HIDE DEF t
<1>2. /\ u.cases = t.cases /\ u.held = t.held /\ u.file = t.file
      /\ u.out = t.out /\ u.others = Append(s.others, note)
  BY <1>1 DEF RsType
<1> HIDE DEF u
<1>5. FilesShown(u) => FilesShown(s) /\ (file => type \in Failing)
  <2>1. note.file = file /\ note.type = type /\ note \in Note
    BY DEF Note
  <2> HIDE DEF note
  <2>2. /\ Len(u.others) = Len(s.others) + 1 /\ Len(s.others) \in Nat
        /\ \A i \in 1 .. Len(s.others) : u.others[i] = s.others[i]
        /\ u.others[Len(s.others) + 1] = note
    BY <1>2, <2>1 DEF RsType
  <2>3. OthersFail(u.others) => OthersFail(s.others) /\ (file => type \in Failing)
    BY <2>1, <2>2 DEF OthersFail
  <2> QED BY <1>1, <1>2, <2>3 DEF FilesShown
<1> HIDE DEF note
<1> DEFINE m == Until(s.held, Len(s.cases))
<1>3. ASSUME file => type \in Failing, s.file = IF file THEN OtherFile ELSE 0,
             Printed(s, m)
      PROVE  u.file = 0 /\ Printed(u, m)
  <2>1. /\ s.out \in Seq(OutLine) /\ Ascending(s.out) /\ FilesFollow(s.out)
        /\ line.num = 0 /\ line.file \in {0, OwnFile(line.num)}
    BY <1>3 DEF RsType, Printed, OwnFile
  <2> HIDE DEF line, m
  <2>2. /\ NumsOf(Append(s.out, line)) = NumsOf(s.out) \cup ({0} \ {0})
        /\ Ascending(Append(s.out, line)) /\ FilesFollow(Append(s.out, line))
    BY <1>1, <2>1, LineAppended
  <2>3. u.out = s.out \/ u.out = Append(s.out, line)
    BY <1>1, <1>2
  <2>4. /\ NumsOf(u.out) = NumsOf(s.out)
        /\ Ascending(u.out) /\ FilesFollow(u.out)
    BY <2>1, <2>2, <2>3
  <2> QED BY <1>1, <1>2, <1>3, <2>4 DEF Printed
<1> HIDE DEF m
<1>4. LiveInv(u)
  BY <1>1, <1>2, <1>3, <1>5 DEF LiveInv, NoteReady, m
<1> QED BY <1>4 DEF u, t, note, Uncount

(* An internal warning of tst_brk(), which has no file.                    *)
LEMMA WarnTold ==
  ASSUME mode = "NOPASS", NEW s \in RsType, LiveInv(s)
  PROVE  LiveInv(Uncount(s, "WARN", FALSE))
BY UncountTold DEF LiveInv, NoteReady, Uncounted

LEMMA ResultTold ==
  ASSUME mode = "NOPASS", NEW s, RsOK(s), LiveInv(s),
         NEW type \in Types, NEW mesg \in Texts, NEW file \in BOOLEAN
  PROVE  LiveInv(Result(s, type, mesg, file))
<1> DEFINE num == Len(s.cases) + 1
           own == IF type \in Uncounted THEN OtherFile ELSE num
           f == IF file THEN own ELSE s.file
           t == [s EXCEPT !.exitval = @ \cup {type}, !.file = f]
           new == [type |-> type, mesg |-> mesg, file |-> file]
           more == Append(s.cases, new)
           u == [t EXCEPT !.cases = more]
<1>0. s \in RsType /\ s.held <= Len(s.cases)
  BY DEF RsOK
<1>5. t = [s EXCEPT !.exitval = @ \cup {type}, !.file = IF file THEN own ELSE @]
  BY <1>0 DEF RsType
<1>1. /\ t \in RsType /\ t.cases = s.cases /\ t.file = f
      /\ t.held = s.held /\ t.out = s.out /\ t.others = s.others
  <2>1. f \in Files
    BY <1>0 DEF RsType, Files
  <2> HIDE DEF f
  <2> QED BY <1>0, <2>1 DEF RsType
<1> HIDE DEF t
<1>2. CASE type \in Uncounted
  <2>1. NoteReady(t, type, file)
    BY <1>1, <1>2 DEF LiveInv, NoteReady, FilesShown, Printed
  <2>2. Result(s, type, mesg, file) = Uncount(t, type, file)
    BY <1>2, <1>5 DEF Result
  <2> QED BY <1>1, <1>2, <2>1, <2>2, UncountTold
<1>3. CASE type \notin Uncounted
  <2>1. new \in Case /\ new.file = file /\ s.cases \in Seq(Case)
    BY <1>0 DEF Case, RsType
  <2> HIDE DEF new
  <2>2. /\ Len(s.cases) \in Nat /\ num \in Nat
        /\ more \in Seq(Case) /\ Len(more) = num /\ more[num] = new
    BY <1>0, <2>1 DEF RsType
  <2>6. f = IF file THEN num ELSE s.file
    BY <1>3
  <2> HIDE DEF f, more
  <2>3. /\ u \in RsType /\ u.cases = more /\ u.file = f /\ u.held = s.held
        /\ u.out = s.out /\ u.others = s.others
    BY <1>1, <2>2 DEF RsType
  <2>4. Result(s, type, mesg, file) = TstCondense(u, num)
    <3>1. u = [t EXCEPT !.cases = Append(@, new)]
      BY <1>1 DEF more, RsType
    <3> HIDE DEF u
    <3> QED BY <1>3, <1>5, <3>1 DEF Result, new
  <2> HIDE DEF u
  <2> DEFINE n == Len(s.cases)
  <2>5. LiveInv(TstCondense(u, num))
    <3>1. /\ TstCondense(u, num).cases = u.cases
          /\ TstCondense(u, num).others = s.others
      <4>1. u.held <= Len(u.cases) /\ num \in 1 .. Len(u.cases)
        BY <1>0, <2>2, <2>3 DEF RsType
      <4> HIDE DEF num
      <4> QED BY <2>3, <4>1, CasesStay
    <3>2. CASE ~ (FilesFail(u.cases) /\ OthersFail(s.others))
      BY <3>1, <3>2 DEF LiveInv, FilesShown
    <3>3. CASE FilesFail(u.cases) /\ OthersFail(s.others)
      <4>1. /\ FilesFail(s.cases) /\ s.held \in Nat
            /\ HeldInv(s.cases, s.held, n) => HeldInv(more, s.held, n)
            /\ \A m \in 0 .. n : ToTell(more, m) = ToTell(s.cases, m)
        BY <1>0, <2>1, <2>3, <3>3, CaseAppended DEF more, RsType
      <4>2. /\ s.file = 0 /\ HeldInv(s.cases, s.held, n)
            /\ Printed(s, Until(s.held, n))
        BY <3>3, <4>1 DEF LiveInv, FilesShown
      <4>3. HeldInv(u.cases, u.held, n)
        BY <2>3, <4>1, <4>2
      <4>4. Until(s.held, n) \in 0 .. n
        BY <2>2, <4>1, <4>2 DEF Until, HeldInv
      <4>5. Printed(u, Until(u.held, n))
        BY <2>3, <4>1, <4>2, <4>4 DEF Printed
      <4>6. u.file = IF u.cases[num].file THEN num ELSE 0
        BY <2>1, <2>2, <2>3, <2>6, <4>2
      <4>7. n \in Nat /\ num = n + 1 /\ Len(u.cases) = num /\ num \in Nat
        BY <2>2, <2>3
      <4> HIDE DEF n, num
      <4>8. LET v == TstCondense(u, num)
            IN  /\ v.cases = u.cases /\ v.file = 0
                /\ HeldInv(v.cases, v.held, num)
                /\ Printed(v, Until(v.held, num))
        BY <2>3, <3>3, <4>3, <4>5, <4>6, <4>7, CondenseTold
      <4> QED BY <4>7, <4>8 DEF LiveInv
    <3> QED BY <3>2, <3>3
  <2> QED BY <2>4, <2>5
<1> QED BY <1>2, <1>3

LEMMA BrkTold ==
  ASSUME mode = "NOPASS", mode \in Modes, NEW s, RsOK(s), LiveInv(s),
         NEW type \in Types, NEW mesg \in Texts, NEW file \in BOOLEAN
  PROVE  LiveInv(BrkResults(s, type, mesg, file))
<1> DEFINE t == IF type \in Supported THEN type ELSE "BROK"
           r1 == IF type \in Supported THEN s ELSE Uncount(s, "WARN", FALSE)
           r2 == Result(r1, t, mesg, file)
           r3 == Result(r2, type, "remaining", FALSE)
<1>1. RsOK(r1) /\ LiveInv(r1)
  <2>1. RsOK(Uncount(s, "WARN", FALSE))
    BY UncountOK DEF Uncounted
  <2>2. LiveInv(Uncount(s, "WARN", FALSE))
    BY WarnTold DEF RsOK
  <2> QED BY <2>1, <2>2
<1>2. t \in Types /\ "remaining" \in Texts
  BY DEF Types, Texts
<1> HIDE DEF r1, t
<1>3. RsOK(r2) /\ LiveInv(r2)
  BY <1>1, <1>2, ResultOK, ResultTold
<1> HIDE DEF r2
<1>4. LiveInv(r3)
  BY <1>2, <1>3, ResultTold
<1> HIDE DEF r3
<1>5. BrkResults(s, type, mesg, file) \in {r2, r3}
  BY DEF BrkResults, r1, r2, r3, t
<1> QED BY <1>3, <1>4, <1>5

(* tst_flush(), in tst_exit(): what was held back is told.                 *)
LEMMA ExitTold ==
  ASSUME mode = "NOPASS", NEW s, RsOK(s), LiveInv(s), TstExit(s)
  PROVE  ExitInv(rs')
<1> DEFINE t == PrintHeld(s)
           n == Len(s.cases)
<1>1. s \in RsType /\ n \in Nat /\ n \in 0 .. n
  BY DEF RsOK, RsType
<1>2. t.cases = s.cases /\ t.others = s.others
  BY PrintHeldOK
<1>3. FilesShown(s) => t.held = 0 /\ Printed(t, n)
  <2> SUFFICES ASSUME FilesShown(s) PROVE t.held = 0 /\ Printed(t, n)
    OBVIOUS
  <2>1. /\ s.file = 0 /\ HeldInv(s.cases, s.held, n)
        /\ Printed(s, Until(s.held, n))
    BY DEF LiveInv
  <2> HIDE DEF t
  <2>2. n \in 0 .. Len(s.cases)
    BY <1>1
  <2> HIDE DEF n
  <2> QED BY <1>1, <2>1, <2>2, HeldPrinted DEF t
<1>5. rs' = t
  BY DEF TstExit, TstFlush
<1> HIDE DEF t
<1> QED BY <1>2, <1>3, <1>5 DEF ExitInv, FilesShown, Printed

LEMMA TmpdirTold ==
  ASSUME mode = "NOPASS", RsInv, LiveInv(rs),
         NEW made \in BOOLEAN, NEW chdir \in BOOLEAN, TmpdirFails(made, chdir)
  PROVE  ExitInv(rs')
<1> DEFINE s == BrkResults(rs, "BROK", "tmpdir", FALSE)
           w == Uncount(s, "WARN", FALSE)
           u == Result(w, "BROK", "tmpdir", FALSE)
<1>1. "BROK" \in Types /\ "tmpdir" \in Texts /\ "WARN" \in Uncounted
      /\ FALSE \in BOOLEAN /\ mode \in Modes
  BY DEF Types, Texts, Uncounted, RsInv
<1>2. RsOK(s) /\ LiveInv(s)
  BY <1>1, BrkResultsOK, BrkTold DEF RsInv
<1>3. TstExit(IF chdir THEN s ELSE u)
  BY DEF TmpdirFails
<1> HIDE DEF s
<1>4. RsOK(w) /\ LiveInv(w)
  <2>1. RsOK(w)
    BY <1>1, <1>2, UncountOK
  <2>2. LiveInv(w)
    BY <1>2, WarnTold DEF RsOK
  <2> QED BY <2>1, <2>2
<1> HIDE DEF w
<1>5. RsOK(u) /\ LiveInv(u)
  BY <1>1, <1>4, ResultOK, ResultTold
<1> HIDE DEF u
<1> QED BY <1>2, <1>3, <1>5, ExitTold

-----------------------------------------------------------------------------

(* A step does not exit and keeps LiveInv, or it exits and gives ExitInv.  *)
ToldStep == \/ status' = status /\ LiveInv(rs')
            \/ ExitInv(rs') /\ status' # Alive

LEMMA ExitIsSeen == ASSUME NEW s, RsOK(s), TstExit(s) PROVE status' # Alive
<1>1. rs'.exitval \subseteq Types /\ status' \subseteq rs'.exitval
  BY ExitOK DEF RsOK, RsType
<1>2. "running" \notin Types
  BY DEF Types
<1> QED BY <1>1, <1>2 DEF Alive

LEMMA ToldStepOK ==
  ASSUME mode = "NOPASS", ~ torn', RsInv, LiveInv(rs), TstNext
  PROVE  ToldStep
<1>1. ASSUME rs' = rs, status' = status PROVE ToldStep
  BY <1>1 DEF ToldStep
<1>2. ASSUME NEW s, RsOK(s), LiveInv(s), TstExit(s) PROVE ToldStep
  BY <1>2, ExitTold, ExitIsSeen DEF ToldStep
<1>3. ASSUME NEW type \in Types, NEW mesg \in Texts, NEW file \in BOOLEAN,
             rs' = Result(rs, type, mesg, file), status' = status
      PROVE  ToldStep
  BY <1>3, ResultTold DEF ToldStep, RsInv
<1>4. ASSUME NEW type \in Types, NEW mesg \in Texts, NEW file \in BOOLEAN,
             NEW cleanup \in BOOLEAN, TstBrk(rs, type, mesg, file, cleanup)
      PROVE  ToldStep
  <2> DEFINE s == BrkResults(rs, type, mesg, file)
  <2>1. RsOK(s) /\ LiveInv(s)
    BY BrkResultsOK, BrkTold DEF RsInv
  <2>2. (rs' = s /\ status' = status) \/ TstExit(s)
    BY <1>4 DEF TstBrk
  <2> HIDE DEF s
  <2> QED BY <1>2, <2>1, <2>2 DEF ToldStep
<1>5. /\ Mesg \subseteq Texts /\ "signal" \in Texts /\ "rmdir" \in Texts
      /\ "BROK" \in Types /\ "WARN" \in Types /\ RsOK(rs)
  BY DEF Texts, Types, RsInv
<1>6. CASE TstTmpdir
  BY <1>1, <1>6 DEF TstTmpdir
<1>7. CASE Finish
  <2>1. (rs' = rs /\ status' = status) \/ TstExit(rs)
    BY <1>7 DEF Finish
  <2> QED BY <1>1, <1>2, <1>5, <2>1
<1>8. CASE CleanupReturns
  <2>1. (rs' = rs /\ status' = status) \/ TstExit(rs)
    BY <1>8 DEF CleanupReturns
  <2> QED BY <1>1, <1>2, <1>5, <2>1
<1>9. CASE CleanupCallsExit
  BY <1>2, <1>5, <1>9 DEF CleanupCallsExit
<1>10. CASE Signal
  BY <1>4, <1>5, <1>10 DEF Signal
<1>15. CASE RmdirNoMemory
  <2> DEFINE s == BrkResults(rs, "BROK", "rmdir", FALSE)
  <2>1. RsOK(s) /\ LiveInv(s)
    BY <1>5, BrkResultsOK, BrkTold DEF RsInv
  <2>2. (rs' = s /\ status' = status) \/ TstExit(s)
    BY <1>15 DEF RmdirNoMemory
  <2> HIDE DEF s
  <2> QED BY <1>2, <2>1, <2>2 DEF ToldStep
<1>11. ASSUME NEW left \in BOOLEAN, NEW removed \in BOOLEAN,
              TstRmdir(left, removed)
       PROVE  ToldStep
  <2>1. PICK s, t : /\ status' = status /\ rs' = t
                    /\ s = rs \/ s = Result(rs, "WARN", "rmdir", FALSE)
                    /\ t = s \/ t = Result(s, "WARN", "rmdir", FALSE)
    BY <1>11 DEF TstRmdir
  <2>2. RsOK(s) /\ LiveInv(s)
    BY <1>5, <2>1, RmdirData, ResultTold
  <2>3. LiveInv(t)
    BY <1>5, <2>1, <2>2, ResultTold
  <2> QED BY <2>1, <2>3 DEF ToldStep
<1>12. ASSUME NEW type \in ResTypes, NEW mesg \in Mesg, NEW file \in BOOLEAN,
              Report(type, mesg, file)
       PROVE  ToldStep
  BY <1>3, <1>5, <1>12, TstAssumption DEF Report
<1>13. ASSUME NEW type \in BrkTypes, NEW mesg \in Mesg, NEW cleanup \in BOOLEAN,
              Break(type, mesg, FALSE, cleanup)
       PROVE  ToldStep
  BY <1>4, <1>5, <1>13, TstAssumption DEF Break
<1>14. ASSUME NEW made \in BOOLEAN, NEW chdir \in BOOLEAN,
              TmpdirFails(made, chdir)
       PROVE  ToldStep
  <2>1. ExitInv(rs')
    BY <1>14, TmpdirTold
  <2>2. status' # Alive
    <3>1. status' = rs'.exitval \ Masked /\ rs'.exitval \subseteq Types
      BY <1>14, TmpdirData DEF RsInv, RsOK, RsType
    <3>2. "running" \notin Types
      BY DEF Types
    <3> QED BY <3>1, <3>2 DEF Alive
  <2> QED BY <2>1, <2>2 DEF ToldStep
<1>16. \A type \in ResTypes : ~ SignalInside(type)
  BY DEF SignalInside
<1> QED
  BY <1>6, <1>7, <1>8, <1>9, <1>10, <1>11, <1>12, <1>13, <1>14, <1>15, <1>16
  DEF TstNext

LEMMA InitTold == TstInit => ToldInv
<1> SUFFICES ASSUME TstInit PROVE LiveInv(rs)
  BY DEF TstInit, ToldInv, Running
<1>1. /\ rs.cases = <<>> /\ rs.out = <<>> /\ rs.file = 0 /\ rs.held = 0
      /\ Len(rs.cases) = 0 /\ Len(rs.out) = 0
  BY DEF TstInit
<1>2. HeldInv(rs.cases, 0, 0) /\ Until(0, 0) = 0
  BY DEF HeldInv, Until
<1>3. Printed(rs, 0)
  BY <1>1 DEF Printed, NumsOf, ToTell, Ascending, FilesFollow
<1> QED BY <1>1, <1>2, <1>3 DEF LiveInv

LEMMA ToldKept == RsInv /\ ToldInv /\ [TstNext]_tstVars => ToldInv'
<1> SUFFICES ASSUME RsInv, ToldInv, [TstNext]_tstVars, mode' = "NOPASS", ~ torn'
             PROVE  (IF Running THEN LiveInv(rs) ELSE ExitInv(rs))'
  BY DEF ToldInv
<1>1. mode = "NOPASS" /\ ~ torn
  <2>1. mode' = mode
    BY DEF TstNext, tstVars, TstTmpdir, Finish, CleanupReturns,
           CleanupCallsExit, Signal, SignalInside, RmdirNoMemory, TstBrk,
           TstRmdir, Report, Break, TmpdirFails
  <2>2. torn' \/ (torn' <=> torn)
    BY DEF TstNext, tstVars, TstTmpdir, Finish, CleanupReturns,
           CleanupCallsExit, Signal, SignalInside, RmdirNoMemory,
           TstRmdir, Report, Break, TmpdirFails
  <2> QED BY <2>1, <2>2
<1>2. CASE UNCHANGED tstVars
  BY <1>1, <1>2 DEF ToldInv, tstVars, Running, LiveInv, ExitInv, FilesShown,
                    Printed
<1>3. CASE TstNext
  <2>1. Running
    BY <1>3, ExitIsEnd
  <2>2. LiveInv(rs)
    BY <1>1, <2>1 DEF ToldInv
  <2>3. ToldStep
    BY <1>1, <1>3, <2>2, ToldStepOK
  <2>4. LiveInv(rs)' <=> LiveInv(rs')
    BY DEF LiveInv, FilesShown, Printed
  <2>5. ExitInv(rs)' <=> ExitInv(rs')
    BY DEF ExitInv, FilesShown, Printed
  <2> QED BY <2>1, <2>3, <2>4, <2>5 DEF ToldStep, Running
<1> QED BY <1>2, <1>3

(***************************************************************************)
(* tst_condense(), tst_flush(): in NOPASS mode each failing case that does *)
(* not repeat the one before is told once, in order and with its own file, *)
(* and nothing is held back at the exit, for any number of results and     *)
(* however the program is broken off, unless by a signal inside tst_res()  *)
(* or tst_flush(), as long as files come with failures and warnings only.  *)
(***************************************************************************)
THEOREM FailuresToldOnceCorrect == TstSpec => []FailuresToldOnce
<1>1. RsInv /\ ToldInv => FailuresToldOnce
  <2> SUFFICES ASSUME RsInv, ToldInv, mode = "NOPASS", ~ torn, FilesShown(rs)
               PROVE  /\ Numbers \cup ToPrint = ToTell(rs.cases, Len(rs.cases))
                      /\ Numbers \cap ToPrint = {}
                      /\ Ascending(rs.out) /\ FilesFollow(rs.out)
                      /\ ~ Running => rs.held = 0
    BY DEF FailuresToldOnce, FilesWithFailures, FilesShown, FilesFail,
           OthersFail, ToTell, First, FirstOfItsKind, Ascending, FilesFollow
  <2> DEFINE n == Len(rs.cases)
  <2>1. Numbers = NumsOf(rs.out) /\ n \in Nat
    BY DEF Numbers, NumsOf, RsInv, RsOK, RsType
  <2>2. CASE rs.held = 0
    <3>1. Printed(rs, n) /\ ToPrint = {}
      BY <2>2 DEF ToldInv, LiveInv, ExitInv, Until, ToPrint
    <3> QED BY <2>1, <2>2, <3>1 DEF Printed
  <2>3. CASE rs.held # 0
    <3>1. Running /\ LiveInv(rs)
      BY <2>3 DEF ToldInv, ExitInv
    <3>2. HeldInv(rs.cases, rs.held, n) /\ Printed(rs, rs.held - 1)
      BY <2>3, <3>1 DEF LiveInv, Until
    <3>3. /\ rs.held \in 1 .. n /\ First(rs.cases, rs.held)
          /\ ToTell(rs.cases, n) = ToTell(rs.cases, rs.held)
      BY <2>1, <2>3, <3>2, OthersRepeat DEF HeldInv
    <3>4. /\ Numbers = ToTell(rs.cases, rs.held - 1)
          /\ ToTell(rs.cases, rs.held) = ToTell(rs.cases, rs.held - 1) \cup ToPrint
          /\ rs.held \notin ToTell(rs.cases, rs.held - 1)
          /\ ToPrint \subseteq {rs.held}
      BY <2>1, <3>2, <3>3 DEF Printed, ToTell, ToPrint
    <3> QED BY <3>1, <3>2, <3>3, <3>4 DEF Printed
  <2> QED BY <2>2, <2>3
<1>2. RsInv /\ ToldInv /\ [TstNext]_tstVars => ToldInv'
  BY ToldKept
<1> QED BY <1>1, <1>2, InitTold, DataInvariant, PTL DEF TstSpec

=============================================================================

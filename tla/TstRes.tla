------------------------------- MODULE TstRes -------------------------------
(***************************************************************************)
(* One test program and the library that tells its results:                *)
(* src/lib/tst_res.c, the handler of unexpected signals of tst_sig.c, the  *)
(* temporary directory of tst_tmpdir.c and rmobj.c.                        *)
(*                                                                         *)
(* The program's own code, main() and the cleanup function, calls the      *)
(* library as the tests of the suite do.  The stack has what main() called *)
(* and what tst_brk() or a signal put on top of it: "brk" is a tst_brk()   *)
(* that waits for its cleanup function, "cleanup" that function before its *)
(* tst_rmdir(), "cleaned" after it, "exit" one that has called tst_exit()  *)
(* itself, "fault" one that faulted, "end" a main() that called the cleanup *)
(* function and goes on to tst_exit().                                     *)
(***************************************************************************)
EXTENDS Integers, Sequences, FiniteSets

CONSTANTS
  Modes,         \* values of TOUTPUT: of "VERBOSE", "NOPASS", "DISCARD"
  Mesg,          \* messages of the test itself
  ResTypes,      \* types it gives to tst_res()
  BrkTypes,      \* types it gives to tst_brk()
  MaxTold,       \* bound: results told
  MaxSignals     \* bound: unexpected signals

Types == {"PASS", "FAIL", "BROK", "CONF", "WARN", "RETR", "INFO"}
Failing == {"FAIL", "BROK", "WARN"}
Uncounted == {"WARN", "INFO"}

ASSUME TstAssumption ==
  /\ Modes \subseteq {"VERBOSE", "NOPASS", "DISCARD"}
  /\ ResTypes \subseteq Types /\ BrkTypes \subseteq Types
  /\ MaxTold \in Nat /\ MaxSignals \in Nat

VARIABLES
  mode,          \* T_mode
  rs,            \* what the statics of tst_res.c hold, and the output
  entered,       \* tst_brk_entered
  stack,         \* who called whom
  testdir,       \* TESTDIR is set
  dir,           \* the temporary directory
  status,        \* the exit status, as a set of types
  sigs,          \* unexpected signals that have come
  torn           \* one came inside tst_res() or tst_flush()

tstVars == <<mode, rs, entered, stack, testdir, dir, status, sigs, torn>>

Alive == {"running"}      \* the status of a program that has not exited
Texts == Mesg \cup {"remaining", "signal", "tmpdir", "rmdir", "type"}

(* A case is a result with its message and whether it came with a file; in *)
(* the output it has its number, 0 for a warning or an information, and    *)
(* the number of the case whose file follows it: OtherFile for the file of *)
(* a warning or an information, 0 for no file.                             *)
OtherFile == -1
Files == Nat \cup {OtherFile}
Case == [type : Types, mesg : Texts, file : BOOLEAN]
Note == [type : Uncounted, file : BOOLEAN]
OutLine == [type : Types, num : Nat, file : Files]

TstTypeOK ==
  /\ mode \in Modes
  /\ rs \in [exitval : SUBSET Types, cases : Seq(Case), others : Seq(Note),
             held : Nat, file : Files, out : Seq(OutLine)]
  /\ entered \in Nat
  /\ stack \in Seq({"main", "end", "brk", "cleanup", "cleaned", "exit", "fault"})
  /\ testdir \in BOOLEAN
  /\ dir \in {"none", "there", "gone"}
  /\ status \in SUBSET (Types \cup Alive)
  /\ sigs \in Nat
  /\ torn \in BOOLEAN

TstInit ==
  /\ mode \in Modes
  /\ rs = [exitval |-> {}, cases |-> <<>>, others |-> <<>>,
           held |-> 0, file |-> 0, out |-> <<>>]
  /\ entered = 0
  /\ stack = <<"main">>
  /\ testdir = FALSE /\ dir = "none"
  /\ status = Alive
  /\ sigs = 0
  /\ torn = FALSE

-----------------------------------------------------------------------------

(***************************************************************************)
(* tst_print(): the type counts for the exit value even if nothing is      *)
(* printed; File is forgotten only if something is.                        *)
(***************************************************************************)
TstPrint(s, type, num) ==
  LET t == [s EXCEPT !.exitval = @ \cup {type}] IN
  IF mode = "DISCARD" \/ (mode = "NOPASS" /\ type \notin Failing) THEN t
  ELSE [t EXCEPT !.out = Append(@, [type |-> type, num |-> num,
                                    file |-> s.file]),
                 !.file = 0]

(* A warning or an information has no number and is never held.            *)
Uncount(s, type, file) ==
  [TstPrint(s, type, 0) EXCEPT !.others = Append(@, [type |-> type,
                                                     file |-> file])]

SameResult(a, b) == a.type = b.type /\ a.mesg = b.mesg

(* Mutant: the held result is overwritten by one that differs in nothing   *)
(* but its message.                                                        *)
Repeats_Type(s, num) ==
  s.held # 0 /\ s.file = 0 /\ s.cases[s.held].type = s.cases[num].type

(* tst_condense(): the held result again, and no file to show.             *)
Repeats(s, num) ==
  s.held # 0 /\ s.file = 0 /\ SameResult(s.cases[s.held], s.cases[num])

(* The held result is printed.                                             *)
PrintHeld(s) ==
  IF s.held = 0 THEN s
  ELSE [TstPrint(s, s.cases[s.held].type, s.held) EXCEPT !.held = 0]

(***************************************************************************)
(* tst_condense(): a repeated result is dropped; else the one held before  *)
(* is printed, without the file of this one, and this one is held, or      *)
(* printed at once if File is set.                                         *)
(***************************************************************************)
TstCondense(s, num) ==
  IF Repeats(s, num) THEN s
  ELSE LET t == [PrintHeld([s EXCEPT !.file = 0]) EXCEPT !.file = s.file] IN
       IF t.file # 0 THEN TstPrint(t, s.cases[num].type, num)
       ELSE [t EXCEPT !.held = num]

(***************************************************************************)
(* tst_res(): the number is tst_count + 1, the length of cases here.  File *)
(* is set before the type is looked at.                                    *)
(***************************************************************************)
Result(s, type, mesg, file) ==
  LET num == Len(s.cases) + 1
      own == IF type \in Uncounted THEN OtherFile ELSE num
      t == [s EXCEPT !.exitval = @ \cup {type},
                     !.file = IF file THEN own ELSE @]
      u == [t EXCEPT !.cases = Append(@, [type |-> type, mesg |-> mesg,
                                          file |-> file])]
  IN  IF type \in Uncounted THEN Uncount(t, type, file)
      ELSE CASE mode = "DISCARD" -> u
             [] mode = "NOPASS"  -> TstCondense(u, num)
             [] mode = "VERBOSE" -> TstPrint(u, type, num)

(* tst_flush(), at the beginning of tst_exit(): with File as it is.        *)
TstFlush(s) == IF mode = "NOPASS" THEN PrintHeld(s) ELSE s

(***************************************************************************)
(* tst_brk() up to its cleanup function: an unsupported type becomes BROK, *)
(* with a warning; the outermost call breaks the remaining cases as well.  *)
(***************************************************************************)
Supported == {"FAIL", "BROK", "CONF", "RETR"}

BrkResults(s, type, mesg, file) ==
  LET bad == type \notin Supported
      t == IF bad THEN "BROK" ELSE type
      r1 == IF bad THEN Uncount(s, "WARN", FALSE) ELSE s
      r2 == Result(r1, t, mesg, file)
  IN  IF entered = 0 /\ type \in {"CONF", "RETR", "BROK"}
      THEN Result(r2, type, "remaining", FALSE)
      ELSE r2

Told == Len(rs.cases) + Len(rs.others)
Running == status = Alive
Top == stack[Len(stack)]
Pop(n) == SubSeq(stack, 1, Len(stack) - n)

Own == {"main", "cleanup", "cleaned"}
InCode == Running /\ Top \in Own

(* Mutant: a warning is no failure.                                        *)
Masked_Warn == {"RETR", "INFO", "CONF", "PASS", "WARN"}

(* RETR, INFO and CONF leave no trace in the status, and TPASS is 0.       *)
Masked == {"RETR", "INFO", "CONF", "PASS"}

(* tst_exit()                                                              *)
TstExit(s) ==
  /\ rs' = TstFlush(s)
  /\ status' = TstFlush(s).exitval \ Masked

-----------------------------------------------------------------------------

(* tst_resm() and tst_res() from the test.                                 *)
Report(type, mesg, file) ==
  /\ InCode /\ Told < MaxTold
  /\ rs' = Result(rs, type, mesg, file)
  /\ UNCHANGED <<mode, entered, stack, testdir, dir, status, sigs, torn>>

(* Mutant: tst_brk() is not reentrant.                                     *)
BrkEnters_No(n) == n
BrkEnters(n) == n + 1

(***************************************************************************)
(* tst_brk(): with a cleanup function that one is called; without one an   *)
(* outermost tst_brk() exits and an inner one returns to its caller.       *)
(***************************************************************************)
TstBrk(from, type, mesg, file, cleanup) ==
  LET s == BrkResults(from, type, mesg, file) IN
  /\ IF cleanup
     THEN /\ rs' = s
          /\ entered' = BrkEnters(entered)
          /\ stack' = stack \o <<"brk", "cleanup">>
          /\ UNCHANGED status
     ELSE /\ IF entered = 0 THEN TstExit(s) ELSE rs' = s /\ UNCHANGED status
          /\ UNCHANGED <<entered, stack>>
  /\ UNCHANGED <<mode, testdir, dir>>

(***************************************************************************)
(* A test hands its cleanup function to tst_brk() once it has a directory. *)
(* The cleanup function itself may meet an error in a SAFE_ macro.         *)
(***************************************************************************)
Break(type, mesg, file, cleanup) ==
  /\ InCode /\ Told < MaxTold
  /\ IF Top = "main" THEN dir = "there" => cleanup
     ELSE type \in {"BROK", "WARN"}
  /\ TstBrk(rs, type, mesg, file, cleanup)
  /\ UNCHANGED <<sigs, torn>>

(***************************************************************************)
(* def_handler(): the cleanup function it was given runs in the handler,   *)
(* on top of whatever the program was in.                                  *)
(***************************************************************************)
Signal ==
  /\ Running /\ sigs < MaxSignals
  /\ sigs' = sigs + 1
  /\ TstBrk(rs, "BROK", "signal", FALSE, TRUE)
  /\ UNCHANGED torn

(***************************************************************************)
(* What the handler finds if it interrupts tst_res() or tst_flush(): the   *)
(* type is counted and File may be set; or the held result is printed and  *)
(* Buffered is still TRUE, so that it will be printed again.               *)
(***************************************************************************)
HalfTold(s, type) ==
  LET t == [s EXCEPT !.exitval = @ \cup {type}] IN
  {t, [t EXCEPT !.file = OtherFile]} \cup
  (IF mode = "NOPASS" /\ s.held # 0
   THEN {TstPrint([t EXCEPT !.file = f], s.cases[s.held].type, s.held) :
           f \in {0, s.file}}
   ELSE {})

(***************************************************************************)
(* The interrupted call never goes on if the handler's is the outermost    *)
(* tst_brk(), which exits.  If it goes on, in a cleanup function, it does  *)
(* so with strings the handler may have freed: what the program tells from *)
(* here on is not followed.                                                *)
(***************************************************************************)
SignalInside(type) ==
  /\ InCode /\ Told < MaxTold /\ sigs < MaxSignals
  /\ sigs' = sigs + 1
  /\ \E s \in HalfTold(rs, type) : TstBrk(s, "BROK", "signal", FALSE, TRUE)
  /\ torn' = TRUE

(***************************************************************************)
(* tst_tmpdir() in main(): it makes the directory, sets TESTDIR, gives the *)
(* directory its group and mode and changes to it.                         *)
(***************************************************************************)
TstTmpdir ==
  /\ InCode /\ Top = "main" /\ ~ testdir
  /\ testdir' = TRUE /\ dir' = "there"
  /\ UNCHANGED <<mode, rs, entered, stack, status, sigs, torn>>

(***************************************************************************)
(* A failure of mkdtemp(), chown() or chmod() goes through tmpdir_cleanup, *)
(* whose tst_brkm(TWARN) is a BROK and a warning; one of chdir() has no    *)
(* cleanup, so that tst_brkm() does not come back to remove the directory. *)
(***************************************************************************)
TmpdirFails(made, chdir) ==
  LET s == BrkResults(rs, "BROK", "tmpdir", FALSE)
      w == Uncount(s, "WARN", FALSE)
  IN
  /\ InCode /\ Top = "main" /\ ~ testdir
  /\ chdir => made
  /\ TstExit(IF chdir THEN s ELSE Result(w, "BROK", "tmpdir", FALSE))
  /\ testdir' = made
  /\ dir' = IF made THEN "there" ELSE "none"
  /\ UNCHANGED <<mode, entered, stack, sigs, torn>>

(* Mutant: tst_rmdir() says nothing when rmobj() has failed.               *)
RmdirTells_No(removed) == FALSE
RmdirTells(removed) == ~ removed

(***************************************************************************)
(* tst_rmdir() in the cleanup function: it warns if there was no           *)
(* tst_tmpdir(), if it could not leave the directory, and if rmobj()       *)
(* failed, because something in the directory could not be removed or      *)
(* because it is gone: TESTDIR stays set.                                  *)
(***************************************************************************)
TstRmdir(left, removed) ==
  LET warned == Result(rs, "WARN", "rmdir", FALSE)
      s == IF left THEN rs ELSE warned
  IN
  /\ Running /\ Top = "cleanup"
  /\ removed => dir = "there"
  /\ ~ left => testdir
  /\ dir' = IF removed THEN "gone" ELSE dir
  /\ rs' = IF RmdirTells(removed) THEN Result(s, "WARN", "rmdir", FALSE) ELSE s
  /\ stack' = [stack EXCEPT ![Len(stack)] = "cleaned"]
  /\ UNCHANGED <<mode, entered, testdir, status, sigs, torn>>

(***************************************************************************)
(* tst_rmdir() without memory: its tst_brkm() exits, unless it is an inner *)
(* one, which returns; then strcpy() faults, again after every signal.     *)
(***************************************************************************)
RmdirNoMemory ==
  /\ Running /\ Top = "cleanup" /\ testdir /\ Told < MaxTold
  /\ IF entered = 0
     THEN TstExit(BrkResults(rs, "BROK", "rmdir", FALSE)) /\ UNCHANGED stack
     ELSE /\ rs' = BrkResults(rs, "BROK", "rmdir", FALSE)
          /\ stack' = [stack EXCEPT ![Len(stack)] = "fault"]
          /\ UNCHANGED status
  /\ UNCHANGED <<mode, entered, testdir, dir, sigs, torn>>

(* Mutant: a tst_brk() exits as soon as its own cleanup function is back.  *)
Outermost_Any(n) == TRUE
Outermost(n) == n = 0

(* Mutant: tst_brk() does not leave.                                       *)
BrkLeaves_No(n) == n
BrkLeaves(n) == n - 1

(***************************************************************************)
(* The cleanup function returns: to tst_brk(), which exits if it is the    *)
(* outermost one and else returns to its caller, or to the end of main().  *)
(***************************************************************************)
CleanupReturns ==
  /\ Running /\ Top = "cleaned"
  /\ IF stack[Len(stack) - 1] = "brk"
     THEN /\ entered' = BrkLeaves(entered)
          /\ IF Outermost(BrkLeaves(entered))
             THEN TstExit(rs) /\ UNCHANGED stack
             ELSE stack' = Pop(2) /\ UNCHANGED <<rs, status>>
     ELSE TstExit(rs) /\ UNCHANGED <<entered, stack>>
  /\ UNCHANGED <<mode, testdir, dir, sigs, torn>>

(* The cleanup function calls tst_exit() as its last statement.            *)
CleanupCallsExit ==
  /\ Running /\ Top = "cleaned"
  /\ TstExit(rs)
  /\ stack' = [stack EXCEPT ![Len(stack)] = "exit"]
  /\ UNCHANGED <<mode, entered, testdir, dir, sigs, torn>>

(* main() has done its work: cleanup(), if there is a directory, and       *)
(* tst_exit().                                                             *)
Finish ==
  /\ InCode /\ Top = "main"
  /\ IF testdir THEN stack' = <<"end", "cleanup">> /\ UNCHANGED <<rs, status>>
     ELSE TstExit(rs) /\ UNCHANGED stack
  /\ UNCHANGED <<mode, entered, testdir, dir, sigs, torn>>

TstNext ==
  \/ TstTmpdir \/ Finish \/ CleanupReturns \/ CleanupCallsExit \/ Signal
  \/ RmdirNoMemory
  \/ \E type \in ResTypes : SignalInside(type)
  \/ \E left, removed \in BOOLEAN : TstRmdir(left, removed)
  \/ \E type \in ResTypes, mesg \in Mesg, file \in BOOLEAN :
       Report(type, mesg, file)
  \/ \E type \in BrkTypes, mesg \in Mesg, cleanup \in BOOLEAN :
       Break(type, mesg, FALSE, cleanup)
  \/ \E made, chdir \in BOOLEAN : TmpdirFails(made, chdir)

TstSpec == TstInit /\ [][TstNext]_tstVars

-----------------------------------------------------------------------------

(***************************************************************************)
(* tst_condense() and tst_flush() in NOPASS mode, where results are held   *)
(* back, dropped and printed later: every failing case that does not       *)
(* repeat the one before is printed or held, none twice, in their order,   *)
(* and no other case is, each file follows its own result, and at the exit *)
(* nothing is held.  Neither holds of the code without two restrictions    *)
(* (README, section 5): that no signal came inside tst_res() or            *)
(* tst_flush(), where the held result can be printed twice; and that files *)
(* come with results that are printed only, because the file of another    *)
(* stays in File for a result that is not its own.                         *)
(***************************************************************************)
FirstOfItsKind(i) ==
  \/ i = 1
  \/ ~ SameResult(rs.cases[i - 1], rs.cases[i])
  \/ rs.cases[i].file \/ rs.cases[i - 1].file

Numbers == {rs.out[k].num : k \in 1 .. Len(rs.out)} \ {0}
ToPrint == {rs.held} \cap {i \in 1 .. Len(rs.cases) :
                             rs.cases[i].type \in Failing}

FilesWithFailures ==
  /\ \A i \in 1 .. Len(rs.cases) : rs.cases[i].file => rs.cases[i].type \in Failing
  /\ \A i \in 1 .. Len(rs.others) : rs.others[i].file => rs.others[i].type \in Failing

OwnFile(num) == IF num = 0 THEN OtherFile ELSE num

FailuresToldOnce ==
  mode = "NOPASS" /\ ~ torn /\ FilesWithFailures =>
    /\ Numbers \cup ToPrint =
         {i \in 1 .. Len(rs.cases) :
            rs.cases[i].type \in Failing /\ FirstOfItsKind(i)}
    /\ Numbers \cap ToPrint = {}
    /\ \A j, k \in 1 .. Len(rs.out) :
         j < k /\ rs.out[j].num # 0 /\ rs.out[k].num # 0 =>
           rs.out[j].num < rs.out[k].num
    /\ \A k \in 1 .. Len(rs.out) :
         rs.out[k].file # 0 => rs.out[k].file = OwnFile(rs.out[k].num)
    /\ ~ Running => rs.held = 0

(***************************************************************************)
(* The exit status of tst_exit(), which is all that ltp-pan sees: it is 0  *)
(* only if no case failed, none broke and nothing was warned of, wherever  *)
(* it was told: in main(), in a cleanup function or in a signal handler.   *)
(***************************************************************************)
StatusTells ==
  ~ Running /\ status = {} =>
    /\ \A i \in 1 .. Len(rs.others) : rs.others[i].type # "WARN"
    /\ \A i \in 1 .. Len(rs.cases) : rs.cases[i].type \notin Failing

(***************************************************************************)
(* "Make tst_brk reentrant so that one can call the SAFE_* macros from     *)
(* within user-defined cleanup functions": the program does not exit while *)
(* a cleanup function that tst_brk() called has not run to its end,        *)
(* however many tst_brk() calls and signals came in between, unless one of  *)
(* these functions calls tst_exit() itself.                                *)
(***************************************************************************)
CleanupsEnd ==
  ~ Running /\ Top # "exit" =>
    \A i \in 1 .. Len(stack) - 1 :
      stack[i] = "brk" => stack[i + 1] # "cleanup"

(***************************************************************************)
(* A program that exits with 0 has left no temporary directory behind,     *)
(* whatever failed in tst_tmpdir() and rmobj() on the way.                 *)
(***************************************************************************)
SuccessLeavesNothing == ~ Running /\ status = {} => dir # "there"

(***************************************************************************)
(* A break is final: once main() has called tst_brk() with a cleanup       *)
(* function, or an unexpected signal has interrupted it, it never goes on, *)
(* however many tst_brk() calls return into cleanup functions on the way.  *)
(***************************************************************************)
BreakIsFinal == [][Len(stack) > 1 => Len(stack') > 1]_tstVars

=============================================================================

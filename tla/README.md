# Verification of the LTP harness: ltp-pan, the active file, and the test library

The repository is the Linux Test Project with the i.MX tests of a board support
package. Thousands of test programs under `testcases/` check a kernel; what
makes them a system is the harness that runs them: the driver **ltp-pan**
(`src/pan/ltp-pan.c`), the **active file** or *zoo* in which it writes down what
is running (`src/pan/zoolib.c`), the program **ltp-bump** that reads it
(`src/pan/ltp-bump.c`), and the library `src/lib` that each test is linked with.
This directory models the first three, and of the library what has a state of its
own: results and cleanup, checkpoints, pipes between processes, forked copies, and
the write log with the program `doio` that keeps it.

`PROJECT.json` lists the components, runs, mutants, hazards and theorems, and
maps each definition to the lines it stands for.

## 1. Inventory

| Component | State it keeps | Operations | What makes it correct |
|---|---|---|---|
| active file library, `pan/zoolib.c` | a text file of lines `pid,tag,cmd`, free ones begin with `#`; a record lock on it; the read buffer of each process's stream | `zoo_open`, `zoo_mark`, `zoo_clear`, `zoo_getpid`, `zoo_lock`, `zoo_unlock` | one writer at a time; a mark takes a free line; a clear frees the line asked for; a lock is not kept for ever |
| ltp-bump, `pan/ltp-bump.c` | the pid it has looked up | for each name: look up, `kill()`, clear the entry of a process that is gone | clears no entry of a live process |
| ltp-pan in the active file | its entry, blank lines, an entry per test and per process group a test has left | mark self, reserve lines, mark and clear tests and orphaned groups, clear self | what runs is listed, also while others write and after a kill; its own clears succeed |
| ltp-pan, the scheduler | slots `running[]` with `pgrp` and `stopping`; `num_active`, `starts`, `stop`, `go_idle`, `fork_in_road`; the list of orphans; `rec_signal`, `send_signal`, the ratchet's `lastsent` | start commands, pass signals on, wait or poll, free slots, hunt orphans, exit | never more than `-x`; counts its children; the active file agrees with the slots; uses its starts; tells failure by its status; ends |
| ltp-pan, collection and logs | command list, log and output files | parse, write `test_start` and `test_end` | no output lost |
| pan helpers | - | `splitstr`, debug flags | - |
| ltp-scanner, reporter | symbol tree of tags | scan a finished log, print tables | each result under its tag |
| `tst_res.c` | exit value, held-back result, counters, `tst_brk_entered` | `tst_res`, `tst_brk`, `tst_flush`, `tst_exit` | exit value holds every result; each is told once; cleanup may call it again and runs to its end |
| `tst_sig.c`, `tst_tmpdir.c`, `rmobj.c` | handlers, `TESTDIR` | unexpected signal, make and remove the directory | a test that succeeds leaves no directory |
| `tst_checkpoint.c` | a named FIFO | wait and signal on both sides | nobody passes before the other; nobody waits for ever when the other lives |
| `libtestsuite.c` | pipes between processes | `sync_pipe_*` | a notify is not lost, and is that of this round's child |
| `forker.c`, with `growfiles.c` | `Forker_pids`, `Forker_npids` of each copy | fork copies, as a chain or as a fan; tell the others to stop | copies can tell themselves apart, as far as the return value does; all are counted; a stop reaches everyone |
| `file_lock.c` | - | `fcntl` locks, with retries | returns when the lock can be had |
| `parse_opts.c` | options, loop counters | `usc_test_looping`, copies and a pause | a loop ends on its count or its time |
| `write_log.c`, with `doio.c` | a log of write records, the file written, record locks, each child's request | append, write, verify, overlay when done, scan backwards | what the log says is done is in the file, whoever is killed; no false alarm; the scan hands out every record once and ends |
| `random_range.c`, `bytes_by_prefix.c` | - | choose a number, read a size | in the range; no overflow |
| `data*.c`, `pattern.c` | - | fill and check buffers | check accepts what fill wrote |
| `tlibio.c`, `safe_*.c`, platform helpers | - | one system call each | - |
| `runltp` and other scripts | files | write the command file, start ltp-pan | - |
| test cases, vendored code, build | - | - | - |

**How they interact.** `runltp` writes a command file and starts ltp-pan. ltp-pan
forks each test, records it in the active file, waits for it and takes the entry
away again. The user signals ltp-pan directly, or by name through ltp-bump, which
finds the pid in the active file. A test talks to ltp-pan by its exit status only
(`StatusTells` is about what it says, `ExitStatusTells` about what ltp-pan makes of
it). Inside a test the library's parts share nothing but the temporary directory:
the FIFO of a checkpoint lives in it, and the cleanup function of `tst_brk()`, which
an unexpected signal also runs, removes it.
Several ltp-pan and ltp-bump may share one active file; they are synchronised by
nothing but the record lock of `zoo_lock()`.

The library's parts and the active file are joined by one process, ltp-pan's test,
and by nothing else; they are modelled apart, and what ties them together is the exit
status, which `Procs` takes from a set.

**What is hard.** Programs that write the same file and may be killed anywhere; a
C library stream that keeps in memory what another program has since changed; a
loop whose decisions hang on a counter kept in four places; signals that arrive
between any two of its steps; tests that stop, lead process groups, and leave
processes behind; pids that are given again. In the library: a cleanup function that
calls the function that called it, in a signal handler that interrupted both; a FIFO
whose `open()` blocks on one side and has a timeout on the other; processes that
learn of each other only what was forked before them; a log that must be right about
a file at the moment its writer is killed. Each is a hazard in `PROJECT.json`
at the line where it bites, with the properties that watch over it.

## 2. What is modelled

### The active file: `ZooSpec`, `Zoo`, `ZooClients`

`ZooSpec` is the contract: a set of cages, each empty or holding an animal (pid and
tag). A process asks; the request takes effect at one instant, once at most; the
process is told how it went. A mark needs a cage nobody is in, a clear takes one animal
with the pid asked for, `"notfound"` is told only if there is none. Who is told
`"error"` does not know whether there was an effect: an `fseek()` fails before it,
the unlocking `fcntl()` after it. Of a lookup nothing is promised, for the reason that
the run `zoo_stale` shows.

`Zoo` is `zoolib.c`, one system call a step.

| Zoo | zoolib.c |
|---|---|
| `file` | the lines: free or not, pid, tag (a clear changes one character; the pid stays in the line) |
| `lock` | the owner of the `fcntl()` lock |
| `pc`, `req`, `pos` | a call's place, arguments and `ftell()` |
| `cache` | the lines the process's stream still has in its buffer |
| `Call`, `Lock`, `LockFails` | entry, `zoo_lock()`, its error |
| `ScanMark`, `ScanClear`, `ScanGetpid` | the loops of `fgets()` under the lock |
| `SeekFails` | `fseek()` fails: returns with the lock held |
| `Flush`, `Unlock` | `fprintf`/`fputs` with `fflush`; `zoo_unlock()` |
| `UnlockFails` | `fcntl(F_UNLCK)` fails: every caller returns -1 after what it has done, with the lock held |
| `Exit` | the process ends or is killed: the kernel drops the lock |

`cache` is the point of this module. A read-only scan leaves its lines in the
stream's buffer; `rewind()` does not discard a buffer that begins at offset 0, so
the next scan may see what the file was under an earlier lock. A write empties the
buffer, as does a scan that reaches the end of the file. Lines are all of one
length in the code's use; a whole file is taken to fit the buffer unless a scan
goes on beyond what is buffered. Text is reduced to state, pid and tag, and a name
matches by `PrefixOf`, since `zoo_getpid()` compares only the name's length.

`ZooClients` puts ltp-pan and ltp-bump on top of those steps: `MarkSelf`,
`MarkBlanks`, `ClearBlanks`, `StartTest`, `Reap`, `ClearSelf`, and `Lookup`, `Kill`,
the clear that follows; any failure of the zoo but two is `exit(1)` (`PanFails`), a kill
may come anywhere (`PanCrashes`), tests outlive their ltp-pan (`StrayEnds`), pids are
given again. A test that ends may leave its process group behind (`OwnGroups`,
`Vacate`); after clearing its line `check_pids()` finds the group, or that of another
test that has the pid by now, lists the pid as "panorphan" and notes it (`Orphan`,
`OrphanMarked`), and `check_orphans()`, which each signal ltp-pan passes on comes to,
clears the line of a group that is gone (`Hunt`, `Hunted`). What `zoo_clear()` returns
there, and at ltp-pan's own line, is not acted upon.

### The scheduler: `Procs`, `PanSpec`, `Pan`

`Procs` is the kernel's side: children that run, stop, end with a code, and are
zombies until waited for; process groups that a test may make and leave behind.
ltp-pan's `setpgrp()` in `run_child()` is compiled out, so a group with the test's
pid exists only when the test has made it.

`PanSpec` is the promise: at most `MaxActive` are active, no more started than was
asked for, none once shut down; an exit only when none is active and no group is
left behind.

`Pan` is `main()` from line 495 on, with `run_child()`, `propagate_signal()`,
`check_pids()`, `check_orphans()` and `wait_handler()`.

| Pan | ltp-pan.c |
|---|---|
| `PickSlot`, `EndStarts`, `NoSlot` | the loop of lines 501-534 and the stop after it |
| `StartFails`, `ExecFails`, `Fork`, `Executed`, `ExecWait` | `run_child()`: an error before the fork; the child's error message; the fork; the pipe closing without a word and the entry in the active file; an interrupted `read()` taken for an error message |
| `NoSignal`, `Usr2`, `PassItOn` | lines 551-569 |
| `Propagate`, `PropagateOrphans`, `PropagateEnds` | `propagate_signal()`, slot by slot, then the orphans, then the reset |
| `Check` | `check_pids()` up to the wait, with `check_orphans(0)` |
| `WaitReports`, `NoChild` | `wait()` of a run without `-l` |
| `PollReports`, `PollQuiet`, `PollFails`, `PollTimesOut` | the `waitpid()` loop with `-l`, which ends in a reboot |
| `Report`, `FreeSlot` | what a status does to the slot, the orphans and the active file |
| `Post` | lines 578-596 |
| `HuntOrphans`, `Exits` | lines 599-643 |
| `Signal`, `WaitHandler`, `Ratchet` | the handler, between any two steps or interrupting the call ltp-pan blocks in |

The active file is here the number of entries of each pid (`zoo`); a test's entry
that vanishes or a mark that fails is one of `MaxFaults` failures. `pc = "crashed"`
is `exit(1)` from an error path, or the read of `running->cmd` before it is set (line
713); the invariants claim nothing about a ltp-pan that has crashed. The count that
`exit(exit_stat)` hands over is kept modulo `ExitCodes` (`CountExit`), which stands for
the 256 of an exit status, and `wrapped` remembers that it has come round. `ExecFails`,
a command that cannot be executed, is one step from `fork()` to the `waitpid()` of the
child that said so (1023-1197): nothing of ltp-pan's that another step looks at changes
in between but what `ExecWait` has, a signal that interrupts the `read()`.

### Results, signals and the temporary directory: `TstRes`

One test program: its own code, which calls the library as the tests do, and
`tst_res.c`, `def_handler()` of `tst_sig.c`, `tst_tmpdir.c` and `rmobj.c`.

| TstRes | code |
|---|---|
| `rs` | `T_exitval`, `tst_count` (the length of `cases`), the held result of `tst_condense()`, `File` (by the number of the case it came with), and what was printed |
| `entered` | `tst_brk_entered` |
| `stack` | `main()` and, on top of it, each `tst_brk()` that waits for its cleanup function, and that function before and after its `tst_rmdir()` |
| `status` | what `tst_exit()` gives to `exit()`, as the set of its bits |
| `Report`, `Break` | `tst_res()` and `tst_brk()` from the test or from a cleanup function |
| `Signal` | `def_handler()`, on top of whatever is on the stack |
| `SignalInside` | the same inside `tst_res()` or `tst_flush()`: the type is in `T_exitval`, `File` may be set, or the held result is printed and `Buffered` still TRUE (`HalfTold`); `torn` remembers it |
| `TstTmpdir`, `TmpdirFails` | `tst_tmpdir()`, each of its failures |
| `TstRmdir`, `RmdirNoMemory` | `tst_rmdir()` in the cleanup function: a `chdir()` or `rmobj()` that fails warns; a `malloc()` that fails exits or, in a cleanup function, faults |
| `CleanupReturns`, `CleanupCallsExit`, `Finish` | the ways out |

The operators `TstPrint`, `TstCondense`, `Result`, `TstFlush` and `BrkResults` are the
functions of those names on `rs`. A test is taken to hand its cleanup function to
`tst_brk()` once it has a directory, which is what the suite's tests do.

### Checkpoints: `Checkpoint`

Parent and child over one FIFO, in both directions (`cpWay`), round after round of
`TEST_LOOPING`. The parent waits with a non-blocking `open()`, `poll()` and `read()`
(`ParentWait`, `ParentReads`, `PollTimesOut`) and signals with blocking calls
(`SignalChild`, `SignalsChild`); the child's calls all block (`ChildOpens`,
`SignalsParent`, `ChildReads`). Either dies anywhere; a parent that breaks removes the
FIFO or, with a NULL cleanup, leaves it. What the kernel does to a FIFO is external:
an `open()` returns when the other side opens, a byte is lost when nobody has the
FIFO open, and a poll is told of a writer that has gone.

### Pipes between processes: `SyncPipe`

`sync_pipe_create()`, `_wait()`, `_notify()`, `_close()` for one child after the other,
in the three ways the tests use them: a `pipe()` shared by `fork()`; under UCLINUX a
FIFO found by its name, opened `O_RDWR`; and the same with children that remove the
name, as in `semop05`. `waiter` and `kids` are program counters with the two
descriptors; `spBytes` is what each pipe holds.

### Forked copies: `Forker`

`forker()` in mode 0 (a fan) and mode 1 (a chain), a `fork()` that fails anywhere, and
the SIGUSR2 with which the copies of `growfiles` stop each other (`notify_others()`,
`sig_handler()`), which may arrive inside `forker()`, also between `Forker_npids++`
(`FkCount`) and the entry (`FkStore`). Each copy has its own `Forker_pids`, since it has
what its parent had at the `fork()`. A copy's number is the order of its `fork()`. An
entry that has not been written is 0, for which `kill()` means the process group; behind
the array `notify_others()` reads what is in memory there, and `Targets` lets that be
nobody, one copy, or the group.

### The write log: `DoioLog`, `LogScan`

`DoioLog` is `do_write()` of `doio.c` with `-k`, `-w` and with or without `-v`: lock
the region, append a record (`wlog_record_write()` with offset -1), find its place,
write, read back, set `w_done`, unlock. A child may be killed or meet an error at each
step, `check_file()` that cannot read (`VerifyFails`) and the unlocking (`UnlockFails`)
among them; a `write()` may be short, that of the file and that of a record. The log is
a sequence, a record's index its offset. Of a record that is written in part
(`whole`) the offset that `wlog_record_write()` counts back lies in a record before it or
before the log, and the overlay with `w_done` spoils the one or appends another
(`Overlaid`); as the lengths of records are not in this model it may be any of them. The
file holds for each block who wrote it and with which request, so that equal contents
mean equal writes.

`LogScan` is `wlog_scan_backward()` with its buffer, its `leftover` and its two-byte
lengths, byte by byte. `Keep`, `Hand` and `Crash` are the ways on from a length: too
little is left, the record is handed out, or `memcpy()` gets a length that is negative
or too large. The length is put together from two `char`s (`Decode`), with a sign
(`charSigned`, as on the x86) or without (as on the ARM boards). After WLOG_STOP_SCAN the
scan goes on in the buffer before, as the code does, from a place where no record need
end; what it takes for a length there may be anything (`RecLengths`).

### `MC_Lib`

The six modules share no variable. `MC_Lib` runs one of them per behaviour (`part`)
and keeps the others in one initial state, so that one run checks them all.

## 3. Order of the work

Most important first, and done in this order.

1. `ZooSpec`, `Zoo`, `Zoo_proofs`, `ZooClients`, `ZooClients_proofs`: the file that
   programs share.
2. `Procs`, `PanSpec`, `Pan`, `Pan_proofs`: the scheduler, its slots, its counter and
   what it has in the active file.
3. `PanRefines_proofs`: that it implements `PanSpec`; its exit status and its starts.
4. `TstRes`, `TstRes_proofs`: results, cleanup, signals, the directory.
5. `Checkpoint`, `SyncPipe`, `Forker`, and `Processes_proofs` about all three: processes
   of one test that wait for each other, and copies.
6. `DoioLog`, `LogScan`, and `WriteLog_proofs` about both: the write log.
7. `MC_Lib` and `Lib_proofs`: the parts of `src/lib` side by side.

What else was considered, and why it stays out, is at the end of this file.

## 4. Runs

| Run | Instance | Shows |
|---|---|---|
| `zoo_library` | 2 writers, a reader, 2 pids, a tag, 2 lines, errors and deaths anywhere | `TypeOK`, `MutualExclusion`, `WritesItsLine`, and `ImplementsZooSpec`: every call is one step of the contract |
| `zoo_pans` | 2 ltp-pan, 2 test pids to share, a test tag and "panorphan", groups left behind, a blank line, 2 starts and 1, kills | `Recorded`, `ClearFindsItsEntry`, `NothingElseListed` |
| `zoo_lock` | a ltp-pan and a ltp-bump, I/O errors, kills, 2 starts, 2 names | `LockIsGranted` (liveness) |
| `zoo_stale` | a ltp-pan with 3 starts, a ltp-bump with 2 names | `ClearsThatPid` is violated |
| `zoo_bump_race` | a ltp-pan with 2 starts, a ltp-bump with 1 name | `PanOutlivesItsTests` is violated |
| `pan_wait` | `-x 2`, 2 pids, 2 commands of which one cannot be executed, a signal, a failure, `-S -A -s 3`, `-S -e -y -s 4`, fair | the books of ltp-pan, its exit status, its starts, `ImplementsPanSpec`, and `Terminates`, `IdleEnds` (liveness) |
| `pan_poll` | with `-l`, 2 pids, tests that stop and continue, a stop file, `-S -e -y`, `-S -t` | `CountsItsChildren`, `ZooListsThem`, `Terminates` |
| `pan_poll_any` | with `-l`, 3 pids, tests that lead groups, a signal that may come during `run_child()` | `SlotsHoldChildren` even when `num_active` is wrong |
| `pan_brakes` | `-S -A -l` | `Terminates` is violated |
| `pan_own_group` | `-l`, tests that lead groups | `ExitsLast` is violated |
| `pan_unreached` | no log, tests that stay in ltp-pan's group and need not end, 4 signals | `SignalsKillTests` is violated |
| `test_library` | one part of the library per behaviour, see below | types, 12 invariants, an action property and 4 liveness properties of the test library |

`test_library` has these instances.

| Part | Instance | Properties |
|---|---|---|
| `TstRes` | three modes, 2 results of 3 types and 2 messages with and without files, breaks of 2 types, a signal anywhere, every failure of the directory | `FailuresToldOnce`, `StatusTells`, `CleanupsEnd`, `SuccessLeavesNothing`, `BreakIsFinal` |
| `Checkpoint` | both directions, 2 rounds, either side dies anywhere | `NobodyRunsAhead`, `HangsOnlyAlone` |
| `SyncPipe` | three ways, 3 children | `HeardItsChild`, `SameFifo`, `SyncWaitEnds` |
| `Forker` | two modes, 3 copies, `FORKER_MAX_PIDS` 1 to 3, a `fork()` that fails anywhere, any copies that fail | `KnowsTheFirst`, `ReturnTells`, `StopIsPassedOn` |
| `DoioLog` | 2 children, 2 blocks, 2 requests, with and without `-v`, kills and errors anywhere, records written in part | `NoFalseAlarm`, `LogTellsFile` |
| `LogScan` | logs of up to 3 records of 1, 2 or 6 bytes, a buffer of 8, bytes of 4 values with a sign and without, all records or the last 2, a stop anywhere | `HandsBackwards`, `ScanEnds` |

**Bounds.** Two writers are enough for any conflict over a line; the reader brings
the stale buffer; two lines let one be free and one taken. Two slots are the least in
which a child can be in the wrong slot, and the first slot can be empty while the
second is not; with two pids a pid comes back as soon as it is free, and a command
finds none when a group keeps one; more starts than commands make the command index
wrap. A signal comes at any step, and -A adds another of ltp-pan's own while it is
passed on. In `pan_poll_any` three pids leave one that is free while both slots are in
use. The books, the exit status and the starts are proved for every number of these
(section 6). `MaxFaults` = 1 lets any one call fail at any place. `ExitCodes` = 3 or 4,
for 256, lets the count of failures come round with as many failures as there are starts;
`MaxBelow` is where a negative `num_active` sticks; the properties only ask for zero.
`MaxLines`, `MaxStarts`, `MaxNames` bound the file and the programs' work.
Symmetry is used only in runs without liveness, over processes, pids or tags that the
specification never names (in `zoo_pans` nobody looks a tag up).

In the library: two results, with those of `tst_brk()` and of the signal after them, are
one held back and one that repeats it or does not, and every two that can meet in `File`;
a signal on a `tst_brk()` in a cleanup function nests three deep. Two rounds
are a FIFO used before, three children one whose predecessor is still closing. Three
copies are the least in which a chain can break in the middle, a copy that is told can pass
the stop on to another, and a copy knows some of the others only; with tables of one, two and
three an entry is not stored, or lies behind the array, or fits. Two requests on two blocks, of one
child or of two, overlap, follow each other, or do not. Records of 1, 2 and 6 bytes in
a buffer of 8 are cut at each place, the length included; a byte of four values makes
the length 6 need its second byte as 256 does, and gives the length 2 a byte that is
negative with a sign as 128 is.

`CHECK_DEADLOCK FALSE` is said where the program ends.

**Fairness.** `ClientsFairness`: each program that can take a step does (they are
ordinary processes), and `F_SETLKW` queues its waiters, hence strong fairness of
`Lock`. `FairSpec`: ltp-pan runs on (weak fairness of `PanStep`); each test ends some
day, though it may be stopped again and again on the way (strong fairness of
`TestEnds`), and is continued when stopped. Nothing is assumed of what tests have
forked: `Terminates` must hold because ltp-pan's own ratchet reaches `SIGKILL`.
Nothing is assumed of signals or of failures either.
In the library (`Fairness` of `MC_Lib`): each process or copy is scheduled, and a
`poll()` ends after its timeout. That is weak fairness of all steps of a process
together, none of its choices is forced, and no process has to die.
`pan_unreached` asks what signals do to tests that would not end by themselves, and
assumes only that ltp-pan runs on (`PanFairSpec`).

## 5. What the code does otherwise than its documents say

Kept as runs:

- `zoo_stale` (`zoolib.c:242`): ltp-bump's `zoo_clear()` scans the lines that
  `zoo_getpid()` left in the stream's buffer, and writes `#` over a line that is by
  now another test's.
- `zoo_bump_race` (`ltp-pan.c:945`): when ltp-bump clears the entry of a test
  between ltp-pan's `wait()` and its `zoo_clear()`, ltp-pan exits with the others
  running.
- `pan_brakes` (`ltp-pan.c:739`): with a log, a poll for which there is no child left
  counts `num_active` below 0 and the loop never ends; the manual page's own example.
- `pan_own_group` (`ltp-pan.c:731`): with a log, an empty slot is polled as
  `waitpid(0)`, which does not see a test that leads its own group.
- `pan_unreached` (`ltp-pan.c:667`): without `setpgrp()` no signal reaches a test.

Met while modelling, in the model, and not kept as runs: the manual page orders the
ratchet TERM, HUP, INT, KILL, the code sends what came first and then TERM, HUP, KILL,
and a repeated SIGTERM stays at TERM; the exit status does not tell that ltp-pan was
signalled (`ltp-pan.1:261-262`); of the number of failed tests, which with `-e` is the
exit status (`ltp-pan.c:642`), the parent sees 8 bits, so that 256 failed tests exit with 0
where `ltp-pan.1:97-99` and 261-262 promise non-zero (`ExitStatusTells` says "or the count
has come round", and is violated without it); with `WUNTRACED` a test that is stopped loses its
slot and its entry although it has not terminated (`ltp-pan.1:59`, the comment at
`ltp-pan.c:839`), and counts as failed in the exit status although it may end well; `-y`
with a failing command idles and kills nothing; `zoo_getpid()` returns -1, not the 0 of
`zoolib.h:80`, when it finds nothing, and matches a prefix.
Two ltp-pan on one file can take each other's entries: `wait()` frees the pid of a test,
another ltp-pan starts a test that gets it and marks it, and only then the first one's
`zoo_clear()` looks for an entry by the pid alone. When it takes the new test's line, the
old line stays and stands for the new test with the old one's tag (`zoolib.c:38-41` says
that the file is to tell what is running). The number of lines is right, so that both
clears succeed; `Recorded` and `NothingElseListed` ask for the tag only where `KeepsTag`
says that it cannot be another's.

In the library, in the model as the code has it:

- `tst_res.c:291-298`: `File` is set before the type is looked at, and `tst_print()` leaves
  it set when it prints nothing (460-463). The file of a result that is not printed, a
  passing one or an information in NOPASS mode, is printed with the next that is, or keeps
  the next from being held; `tst_flush()` (395-398) prints the held result with `File` as it
  is. `FailuresToldOnce` is about programs that give files with failing results only.
- `tst_res.c:356-377` and 395-398: `Buffered` is still TRUE after the held result is
  printed. A signal there makes the handler's `tst_brk()` print it again, and free strings
  that are freed (357-358). `FailuresToldOnce` is about programs in which no signal came
  inside `tst_res()` or `tst_flush()` (`~ torn`); without that, or without the condition
  on files, it is violated. The model does not follow what the program tells after the
  interrupted call has gone on, in a cleanup function, with the freed strings; nor that
  `tst_count++` (312) comes after the line, so that the handler's result then has the
  number of the one interrupted: a case's number is here its identity.
- `tst_tmpdir.c:195-209`: a `malloc()` that fails calls `tst_brkm()`, which in a cleanup
  function returns; the next line copies to NULL.
- `tst_checkpoint.c:126`: a child whose parent ended before it opened the FIFO waits for
  ever when the FIFO stays, which it does with the NULL cleanup of `creat07`.
  `read()` returning 0 is not looked at in `tst_checkpoint_child_wait()`, and `ch` then
  has never been written: the child may take the parent's end for its signal.
- `libtestsuite.c:140`: a FIFO opened `O_RDWR` has a writer, its reader, and never
  ends when the notifier dies. With children that remove the name, as in `semop05`, the
  next child can make another FIFO than the one its parent waits at.
  `SyncWaitEnds` and `SameFifo` say in which ways this cannot happen.
- `forker.c:71-75` and `forker.h:59` say that the return value is the number of children
  forked, different for the parent and each child, and 1 for the parent in mode 1. In mode
  0 the last child returns what the parent returns; in mode 1 the parent returns 0, and so
  does a copy whose `fork()` failed. So the value does not tell all copies apart;
  `ReturnTells` says which two can coincide and that no others do.
- `forker.c:104-106` says that the first `FORKER_MAX_PIDS` pids are stored. The condition at
  186, 192, 212 and 218 is `Forker_npids < FORKER_MAX_PIDS` after the count has gone up, so that one
  fewer is; `KnowsTheFirst` says all but the last place.
- `growfiles.c:1722-1728`: the condition guards the message only, so a copy also sends
  SIGUSR2 to itself, and ends before it has told the copies after it; nobody has the
  original in his table. `StopIsPassedOn` is about those that are told, and the
  original's own failure. An entry that is not written yet, or the last of the array, is 0,
  and `kill(0)` reaches the whole group; the loop goes to `Forker_npids`, behind the array
  if there are more copies than `FORKER_MAX_PIDS`.
- `growfiles.c:1151-1170` takes `Forker_npids` for the number of the copy; in mode 1 two
  copies can have the same.
- `doio.c:1931` says that `w_done` means a verified write. Without `-v` it is also set
  after a `write()` that failed or was short; `LogTellsFile` leaves those out.
- `doio.c:1909-1922`: a `check_file()` that cannot open, seek or read the file, or reads too
  little, returns a message like one that has found a difference, and the child exits with
  E_COMPARE though the write was good. `NoFalseAlarm` is about data that were compared
  (`"compare"`), not about these (`"unread"`).
- `write_log.c:225` takes a short `write()` of a record for success; 231 then counts the
  record's offset back from the end of a piece, and the overlay with `w_done` clobbers the
  end of a record before it. `LogTellsFile` is about the records a backward scan can reach.
- `write_log.c:388-390` says "stop if instructed to"; 392-394 leave the inner loop only, with
  nothing kept. The outer loop reads the bytes before this buffer, and their end, where as
  a rule no record ends, is taken for the end of one: pieces are handed out, `memcpy()` may
  get any length, and a piece as long as the buffer is kept for ever (`Stuck`), for which
  the loop has no way out. `HandsBackwards` ends at the first stop; `ScanEnds` and
  `ScanGetsOn` go on. No program in the repository calls `wlog_scan_backward()`.
- `write_log.c:360` puts the length together from `char`s. Where they have a sign, as on
  the x86, a length with a byte above 127 reads back wrong (the structure, a path of up to
  127 bytes, a host and a pattern of up to 63 do get there); where they have none, as on the
  boards of this suite, it does not (lemma `UnsignedIsLegible`). `HandsBackwards` is
  about logs whose lengths read back as written (`Legible`).
- `write_log.h:78-79` says that the length includes its own two bytes; the code writes
  (221-222) and reads it without them.
- `write_log.h:102-104` wants enough bits for the lengths of path and pattern; `w_pathlen`
  has 7 for `WLOG_MAX_PATH` 128, `w_patternlen` 6 for 64.

## 6. Proofs

TLAPS checks the theorems for every value of the constants that satisfies the named
assumptions (`ZooAssumption`, `ClientsAssumption`, `ProcsAssumption`, `PanAssumption`,
`TstAssumption`, `CpAssumption`, `SpAssumption`, `FkAssumption`, `WlAssumption`,
`LsAssumption`).

**`Zoo_proofs`**
- `TypeCorrect`: `Spec => []TypeOK`.
- `MutexCorrect`: `Spec => []MutualExclusion`. The strengthening `HoldsTheLock` says
  that who is between lock and unlock owns the lock; it must allow for a process that
  owns the lock and is nowhere in a call, because `SeekFails` leaves it so.
- `WriteCorrect` and `Refinement`, assuming `Reader \cap Writer = {}`. The inductive
  invariant `IInv` adds that a writer's buffer is empty (`WritersAreFresh`), which is
  what fails for ltp-bump; that calls are made by those who may
  (`CallsAreTheirs`); that an idle process asks nothing; that before `zoo_unlock()` the
  answer is known (`AnswerKnown`); and that the file keeps to `MaxLines`. Under it each
  step maps to a step of `ZooSpec` or a stutter: `Call` to `Ask`, `Flush` to `Mark` or
  `Clear`, a scan that finds nothing to `Missing`, a lookup's scan to `Lookup`, `Unlock` to
  `Tell`, errors (that of `zoo_unlock()` after the effect) to `Fail`, ends to `Die`.

**`ZooClients_proofs`** (for any number of programs, tests, tags, pids and lines)
- `ClientsTypeCorrect`, and `ClientsUseZoo`: `ClientsSpec => Spec`, each step of a client
  being a call, an end, or nothing to the library, so that what is proved in `Zoo_proofs`
  holds of the programs. `PansKeepTheContract` adds that without ltp-bump nobody both
  looks up and writes, hence `ImplementsZooSpec`.
- `RecordedCorrect`, `ClearFindsCorrect`, `NothingElseCorrect`, assuming that no ltp-bump
  runs; the last one also without I/O errors. A ltp-bump clears lines that are not its
  own, and the runs `zoo_stale` and `zoo_bump_race` show what comes of it. After an error
  the lock stays taken and a line may stay that nobody will clear.
  "Each marked entry has a line" is not inductive: pids are given again, two ltp-pan may
  have lines of one pid, and a clear takes the first it finds. `ClientsIInv` therefore
  counts. A token is one line that some ltp-pan has written and has yet to clear (its
  own, a blank one, a test's, one of each time it lists a pid as an orphan), and `ListedOK` says that the tokens can be matched one to
  one with lines in use, of the same pid, and of the same tag where entries keep theirs;
  and, while nothing has failed, onto all of them. `MatchMark` adds a pair; `MatchClear`
  takes the line that the scan has found, and when that was another token's gives it the
  line of the token that goes. `PansOK` says where each ltp-pan stands, what its last call
  may have returned, and that tests that run have pids of their own; `LinesOK` that a
  test's line has a test's tag where tests leave no groups behind (where they do, the tag
  is not kept: an orphan's clear may take the line of a test that has its pid).

**`Pan_proofs`**
- `PanTypeCorrect`: `Spec => []PanTypeOK`, in both modes. `TypeInv` adds `RoomForOne`
  (while `run_child()` is at work `num_active` is below `-x`, which is why the
  counter never passes it) and `CpidIsChild`.
- `SlotsCorrect`, `ZooCorrect`, in both modes and whatever signals interrupt:
  a slot holds a child, in no other slot; the active file has one entry for each slot
  in use and for each orphan remembered. `BooksInv` adds that `run_child()` is called
  for a free slot (`FreeInv`).
- `CountCorrect`, `SlotPerChild`, assuming `~ LogFile` and `~ SignalsInExec`:
  `num_active` is the number of children, and each has a slot. `CountInv` adds that
  ltp-pan never polls then, and that a child is in a slot or in `run_child()`'s hands.
  Both assumptions are needed: `PollFails` counts down without a child, and an
  interrupted `read()` leaves a child without a slot.
- `PollCountCorrect`, with or without a log, assuming `Calm`: tests stay in ltp-pan's
  group and can be executed, no signal comes, no call fails, no `-A`. These are the
  cases in which ltp-pan never polls for a child it does not have. Where one of them
  fails, a poll can be made with nothing active: an empty slot does not see the leader
  of another group (`pan_own_group`), a failing test under `-A` (`pan_brakes`) or a signal
  makes ltp-pan stop, and commands that cannot be executed use up the starts, while
  nothing is active. The other assumption, `Pids # {}`, is that a process can have a pid.
  `PollInv` adds to `BooksInv` and to the tally of children (`TallyInv`) where the loop can
  stand when nothing is active (`BusyInv`: it starts, or it is to leave) and when it is to
  stop (`PhaseInv`).

**`PanRefines_proofs`**
- `PanRefinement`, under the same assumptions: `Spec => ImplementsPanSpec`. The
  inductive invariant `RefineInv` adds to `CountInv` that at `start` and `exec` a
  start is left and nobody has said stop (`StartInv`); that in the loop about orphans
  ltp-pan is to stop and nothing is active (`LeavingInv`); and that each group a test
  left behind is in the list of orphans (`OrphansInv`), which rests on every child
  having a slot, since only a test with a slot has its group looked for. `Executed`
  maps to `Start`, a command that does not start to `Skip`, `WaitReports` to `Finish`,
  signals and the end of groups to `Clean`, what sets `stop` to `ShutDown`, `Exits` to
  `Exit`, a crash to `Fail`, the rest to stuttering.
- `ExitStatusCorrect`, `StartsCorrect`, under the same assumptions. What the exit status
  tells it tells unless the count of failures has come round to 0 (`wrapped`). `EndInv` adds to
  `RefineInv` that whatever makes ltp-pan stop, note a signal or pass one on has a
  reason that stays one (`StopInv`: no starts left, a signal, a failure under `-A`, or no
  limit); that a failure returned or counted is one of a test (`FailedInv`); and that a
  test that exited with 1 is a zombie not yet waited for, or in `err`, or counted
  (`GaveOneInv`). The lemma `ASlotIsFree` shows that "Aborting" (line 515) is never
  reached: fewer than `-x` children leave a slot free, by the pigeonhole principle.
- `PollRefinement`, `PollStartsCorrect`, with or without a log, assuming `Calm`: ltp-pan
  implements `PanSpec` there too, and leaves a start only when it had no limit. The steps'
  lemmas need only `PlaceInv`, the part of `RefineInv` that does not say how ltp-pan waits,
  so that both refinements use them; what is proved anew is that a polling wait never
  meets `PollFails`.
- `PollFailuresTold`, `PollExitStatus`, with or without a log, assuming `Calm`: with `-e`
  ltp-pan does not exit with 0 when a test has exited with 1, even one that lost its slot
  when it was stopped, unless the count has come round; and, assuming `~ MayStop` too, `ExitStatusTells`. `FailedInv` says of
  `err` and the status only where ltp-pan is told of nothing but ends (`ToldOfEnds`) that
  a test has failed, and `NewsInv` that without stops there is no other news.

**`TstRes_proofs`** (for any number of results, signals and nested calls)
- `TstTypeCorrect`, `StatusTellsCorrect`. `RsInv`: the type of everything told is in
  `T_exitval`, and the held result is a case, through every operator on `rs`; `StatusInv`:
  the status is `T_exitval` without the masked bits.
- `CleanupsEndCorrect`, `BreakIsFinalCorrect`. `StackInv` is the shape of the stack while
  the program runs: `main` or `end` at the bottom, then pairs of a `brk` and its cleanup
  function, `entered` of them; hence the outermost `tst_brk()` is the only one that can
  exit after its cleanup function, and it does not return to `main()`.
- `SuccessLeavesNothingCorrect`. `CleanInv`: where a cleanup function has been through
  `tst_rmdir()`, the directory is gone or a warning is in `T_exitval`.
- `FailuresToldOnceCorrect`. `LiveInv`, through every operator on `rs`: between two calls
  `File` is empty; the held case is the first of its kind and all cases after it repeat it
  (`HeldInv`); what has been printed are exactly the cases to be told before the held one,
  each with its own file. `ExitInv`: `tst_flush()` has told the held one as well. All of it
  under the two conditions the property names, that only failing results come with a file
  and that no signal came inside `tst_res()` or `tst_flush()`; section 5 says what happens
  without them.

**`Processes_proofs`** (for any number of rounds, copies and places in the table)
- `CpTypeCorrect`, `NobodyRunsAheadCorrect`. `CpInv`: a byte in the FIFO is this round's
  (`ByteIsThisRounds`) since none survives a round in which nobody has it open, and what
  each side can conclude from having passed (`ParentPassed`, `ChildPassed`).
- `SpTypeCorrect`, `HeardItsChildCorrect`, `SameFifoCorrect`. `SpInv`: only this round's
  child looks for its FIFO, while its parent waits (`KidsInv`); the pipe the parent waits
  at is new in this round, so that no other child has it and a byte in it is from this
  round's child (`PipesInv`); and whose FIFO the name stands for (`NameInv`). That there is
  always a pipe left rests on a count of those made so far (`Most`).
- `FkTypeCorrect`, `KnowsTheFirstCorrect`, `ReturnTellsCorrect`. `FkInv`: at most one
  process will go on with the loop of `forker()`, and the processes forked so far are
  those up to the last it knows (`ActiveInv`), which is why the new process's number is
  the count on both sides of `fork()`; what a copy has counted at each point, that its
  table is filled up to there but for an entry a signal has come before, and what it
  returns (`EachInv`); and that a copy of the chain with a successor has forked it itself
  (`ChainInv`), so that only the last one can have met a `fork()` that failed.

**`WriteLog_proofs`** (for any number of children, blocks and requests; for logs of any
length, records of any lengths and buffers of any size that holds a record)
- `WlTypeCorrect`, `NoFalseAlarmCorrect`, `LogTellsFileCorrect`. `WlInv`: locks of two
  children are disjoint and cover the request between lock and unlock; a child's record is
  the last one that covers any block of its region until it is done; what a child has
  written is still in the file until it unlocks; and `LogTellsFile` record by record. A
  record that is spoilt takes itself and all before it out of what a scan reaches, and adds
  nothing to it; one that was written in part can only be overlaid as a new one of the same
  write.
- `LsTypeCorrect`, `HandsBackwardsCorrect`. `LsInv`: its places stay in the log and what is
  kept fits the buffer, whatever was misread (`Fits`); what is handed out are the last
  records, in order, as long as lengths read back as written and no stop was asked for
  (`HandedOK`); and then the scan stands at the end of the next one, or, at a read, with so
  many bytes of it kept (`PlaceOK`). `UnsignedIsLegible`: without a sign they do read back. That a record's place tells which
  record it is (`EndsAtIs`), and that the length put together from two bytes is its own
  (`AtARecord`), rests on `RecEnd`, a recursive function over the records, growing
  (`RecEndsGrow`). The library's induction theorem takes an operator and cannot be
  instantiated here; `EveryNumber` has induction for a set of numbers instead, from a
  least counterexample.
- `ScanGetsOn`: each step goes down in the offset, then in the place in the buffer, then
  from scanning to reading to done, also after WLOG_STOP_SCAN and with misread lengths,
  except a read with a buffer full of a kept piece (`Stuck`). With weak fairness this is why
  `ScanEnds` holds.

**`Lib_proofs`** (for all values of the constants of `TstRes`, `Checkpoint`, `SyncPipe`,
`Forker`, `DoioLog`, `LogScan`)
- `LibTypeCorrect`, `LibCorrect`: what is proved of each part, under the conditions its
  properties name, holds in `MC_Lib`, the module
  the run checks. `PartsStep`: a step of one part is a stutter of each other. Only the
  safety half of a part's specification follows (`PartsRun`), which is why `CpInvariant`,
  `SpInvariant`, `FkInvariant` and `LsInvariant` do not use the fairness of theirs.

Every invariant, action property and refinement that a passing run checks is stated by a
theorem, under assumptions that the constants of the run satisfy. Not beyond them:
`CountsItsChildren` and `ImplementsPanSpec` with a log do not hold in general
(`PollFails`), and are proved under `Calm`; `ExitStatusTells` with a log needs tests that
are not stopped as well, since a test that is only stopped counts as failed (section 5).
Only model-checked, since it is out of the prover's reach: liveness (`LockIsGranted`,
`Terminates`, `IdleEnds`, `HangsOnlyAlone`, `SyncWaitEnds`, `StopIsPassedOn`, `ScanEnds`)
and what rests on `ENABLED`. `RECURSIVE` operators do not occur.

## 7. Not modelled

- **Time.** The lengths of `-t`, `sleep`, alarms and the poll's seconds, with the counter
  and the letters L, H, U of `ltp-pan.c:710-796`: an alarm is a signal, a poll may time
  out at any moment. So are the 5000 ms of a checkpoint.
- **Text.** Options, the command file, `%f` names, logs and reports, captured output,
  `system("dmesg")`, `ltp-scanner` and its lexer, `splitstr`, the CGI scripts, `runltp`:
  none decides what another process does next. Commands differ only in whether
  `execvp()` accepts them.
- **Errors of the file system** inside stdio other than `fseek()` and `fcntl()`, and those of
  printing the file of a result (`cat_file()`); a `wait()`
  that fails with something other than `EINTR` or `ECHILD`; `rmobj()` that removes a part;
  `malloc()` or stdio interrupted by `def_handler()`; a `fork()` while `tst_condense()`
  holds a result, which then both processes print.
- **`usc_global_setup_hook()`**: copies that pause until SIGUSR1 wait for ever when it comes
  early (`parse_opts.c:677`). Nothing in the repository sends that signal, so there is no
  other side to model. Of `usc_test_looping()` the count is modelled, as the rounds of
  `Checkpoint`; the loop by time is not.
- **`file_lock.c`**: wrappers around one `fcntl()`. Its loop repeats for EACCES and EINTR,
  Linux answers EAGAIN for a lock that is held, so nothing spins. Locks are modelled where
  they protect something: the zoo and doio.
- **`doio`'s** other requests (reads, listio, aio, mmap), and the closing of a cached
  descriptor when there are too many (`alloc_fdcache()`), which drops the process's lock
  on that file. `doio_check`, which reads the log, is not in the repository; `LogTellsFile`
  is what `doio.c` says it relies on.
- **Pure functions** over text and buffers: `random_range.c`, `bytes_by_prefix.c`,
  `data*.c`, `pattern.c`, `tlibio.c`, `safe_*.c`, platform helpers: no state that lasts and
  nobody to interfere.
- **Test cases** (one process each to the harness, `Procs`), vendored libraries, build files.

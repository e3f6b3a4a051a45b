# A TLA+ model of arsenal-os

`arsenal-os` is a fault injection tool for Linux: `arsenal-os inject process choking
--pid 7 --interval 1` makes a fault, the same line with `remove` clears it. This
directory holds TLA+ modules of the parts that carry its logic, the configurations with
which TLC checks them, and proofs for TLAPS.

What makes so small a program hard is that nothing joins an injection and its removal.
Each invocation is an OS process of its own; it takes no lock, keeps no record, and
recognises what another left behind by a file name or by the text of a command line in
`ps`. Whatever two invocations do at the same time, and whatever one leaves when it is
killed half way, the next has to cope with.

## The system

| component | state | operations | hard part | module |
|---|---|---|---|---|
| dispatcher (`main.go`, `pkg/base`, `submodules.go`, `internal/operations`) | two registries, fixed at start | `RunCmd`: look up the fault, `Prepare`, look up the operation, run it | `Prepare` always runs, also before an operation that does not exist | `SystemFaults.RunCmd` |
| parser (`internal/parse`) | none | flags to a map | a flag given twice, a flag without a value | `Arguments` |
| inode exhaustion (`moutpoint_inode_exhausted.go`) | the mount point; in an injection: goroutines, a mutex, a counter, a channel | inject (rounds of goroutines), remove (kill the injection, delete in batches) | the channel as a barrier; two removals; an injection that lives on | `InodeInject`, `InodeRemove` |
| space full (`moutpoint_space_full.go`, `filesystem.go`) | the image file, a `dd` | inject, remove | what df rounds; check, then start; a `dd` that is not yet there | `SpaceFull` |
| process faults (`submodules/process`) | the target's state | choking (a loop in the background), hang, exit-abnormal, removals | signals of several processes in any order; a kill in the middle of a signal | `ProcessFaults` |
| file faults (`submodules/file`, `util/chattr.go`) | the path and the backups beside it | lost, corruption, readonly, unexecuted, removals | failure or kill between two system calls; faults that overlap on a path | `FileFaults`, `CorruptionRange`, `FaultLedger` |
| load faults (`stress_ng.go`, cpu and memory `overload.go`, `ioload.go`) | stress-ng processes | PreRun (a test run), Run, Destroy (ps, grep, kill) | what the text search finds; pids that have ended; test runs of others | `StressNg` |
| cpu offline (`offline.go`) | the CPUs | parser of lists, inject, remove | partial failure without rollback; a shell that outlives its invocation | `CpuOffline` |
| services (`service*.go`) | a service, systemd's job for it | inject, remove | a deadline shorter than a stop; jobs that replace each other | `SystemFaults` |
| time jump (`time_jump.go`) | two clocks | inject, remove | midnight; texts the pattern lets through; another jump between the reading and the setting | `SystemFaults` |
| sysrq faults (`oom.go`, `panic.go`, `reboot_abnormal.go`, `file_systems_readonly.go`) | the machine, its disks | inject; the removal of a read-only disk reboots | a letter is answered before it has had its effect | `SystemFaults` |
| `util.go` | none | commands with a deadline, or in the background | a command killed at its deadline | in the modules whose faults wait for a shell |

Components interact only through the operating system: the file system, the process
table (`ps`), signals, and the shell commands of `util.go`. There are no messages,
callbacks or shared memory between invocations. Inside one invocation there is
concurrency only in the two halves of inode exhaustion.

## Modules

`Arguments` - the parser, as far as every `Prepare` uses it: the flags as a map. Words
are values; `NameOf` says which of them are flags. `CpuOffline` extends it. The other
function of the parser gives a text of the flags in the order of their names, for the
searches of the load faults; there a command line is a value (`StressNg`).

`InodeInject` - the injection of inode exhaustion. One action for each step of
`FaultInject` that another goroutine can come between (`MakeTestDir`, `Spawn`,
`Receive`, `CheckInodes`, ...) and for each of `createFile` (`Lock`, `Bump`, `Take`, the
outcomes of `os.Mkdir` and `os.Create`, the three sends, `Return`). `exitChan` is the
number of messages in it, since the code never looks at their values. The mount point is
its free inodes and free blocks: both give "no space left on device". Files stay open
until the goroutine returns (the `defer` is in the loop), so descriptors may run out as
well.

`InodeRemove` - its removal. Several removals delete the same tree, each with its own
list of directories, batches and channel; names are listed in their order, the
directories are given to deleters from the end of the list, the files are taken from its
beginning. The injection is here a program that adds directories and files as long as it
lives, and `visible` says whether its command line is the one the removal looks for.
SIGKILL is not waited for: an injection that was killed is `dying` and completes the
calls it is in, and one that has ended may take the signal (it is not reaped) or not. A
`ps` or `kill` that fails ends the removal before its deletions (`refused`). The error
paths the code ignores (`ReadDir`, `RemoveAll` in a deleter) are ignored here, and the
one that panics ends the process.

`SpaceFull` - the mount point filled by a `dd`. `Tenths` and `UnitOf` are what `df -h`
prints; `transSizeToMb` and `CountOf` are what the code makes of it. The text is parsed
with 32 bits: `Scale` says in what parts of a megabyte, once it is in terabytes, the
nearest such number is given, and a size is a number of those parts. A `dd` is first the
shell of its injection, then a process that has not opened the image, then one that
writes it block by block. A signal may come inside a system call, which then still
completes: killed inside `open`, a `dd` leaves an image. An image without a name takes
space until its `dd` closes it. The kill of a removal goes from pid to pid, each a step
of its own, and succeeds when one of them was reached, as bash's does: the removal then
deletes the image though another may be missed.

`ProcessFaults` - choking, hang and exit-abnormal on one target. A signal of the choking
is entered in one step and takes effect in another, so that an injector can be killed in
between, and its signal comes late or never. `Found` gives the injectors whose command
line contains the one that a removal looks for. The SIGKILL of a removal is delivered to
an injector in any state until it is reaped, so two removals that listed the same one
both go on to their SIGCONT.

`FileFaults` - the four faults on one path. The directory maps names to inodes; an inode
has a kind, contents, permissions and the immutable bit. Each system call that changes
the disk or decides what follows is an action; each may fail as its conditions allow,
and the invocation may be killed before it (`MaxMishaps` bounds the kills and the copies
that fail half way). The bit goes to the inode that file-readonly has opened, wherever
it is by the time of the ioctl. FS_IOC_GETFLAGS and FS_IOC_SETFLAGS are one action,
since the model has the one bit that the second writes whatever the first has read; a
word read before another changed the other flags is not seen. Contents are the original,
corrupt, partial, or another program's. Permissions are of four classes, of which
`stripped` tells a file whose execute bits were taken off from one that never had any;
no action tells them apart.

`FaultLedger` - the abstract specification that `FileFaults` implements: the trace of a
fault appears at one moment, in an injection of it, and goes at one moment, in a removal
of it. `KeepsLedger` is the refinement: `active` is the set of faults whose trace is
there (a backup; for file-readonly an immutable bit on the path or on one of the
backups), `busy` what each invocation is at; every step of `FileFaults` is one of the
ledger or a stutter.

`CorruptionRange` - the arithmetic of file-corruption that `FileFaults` leaves out:
offset and length in w-bit integers with sums that wrap, and the order of checks, backup
and write. The copy, the open, the random numbers and the write may fail, the copy
before or after it has made the backup; `broken` records it.

`StressNg` - the load faults. A command line is one of a few, with a relation that says
whose text contains whose, and sets of those that stress-ng refuses, that end by
themselves, and whose private arguments `--nice` puts in brackets. Invocations prepare,
inject or remove; processes are test runs or faults, may expire, and are killed by
removals and by the deadline of `ExecCommandBlock`. The kill of a removal goes from pid
to pid and succeeds when it has reached one of them.

`CpuOffline` - the list is parsed part by part as `cpuListParser` does, with its
overflow; then one shell per CPU writes the control file. The kernel refuses to take the
last CPU and a driver may refuse any; a shell may be late, and one whose invocation was
killed writes all the same (`orphans`). All CPUs of the machine have a control file.

`SystemFaults` - time jump, the service faults and the sysrq faults on one machine, and
what `RunCmd` does before any of them. `parseDuration` splits the text at its colons as
the code does, on whatever its pattern lets through; durations wrap. The code computes a
time of day in one step and sets it in another. systemd has one job for the service; a
stop and another job replace each other; `systemctl` waits for the job and is killed
after five seconds, the job is not. The other commands may fail without an effect
(`CommandFails`), or have it and be reported as failed, killed at the deadline after it.
A reboot ends everything and sets the clock from the hardware; what has been reported
before it stays reported.

`*Proofs` - the theorems of a module. `MC*` - the instances for TLC.

## What the runs check

Properties that hold:

| run | property | what it says |
|---|---|---|
| inode_inject | `Barrier` | main never waits for more messages than are queued or owed |
| | `DistinctDirs` | no two goroutines at work have the same directory number |
| | `ExactUntilFull` | until the mount point is first full, a round ends with all its goroutines |
| | `Exhausts` | with blocks enough the injection ends, whatever is left of an earlier one and however few descriptors there are |
| inode_remove | `DeleterLimit` | a removal has at most N deleters, and all are done before the last step |
| | `BatchBarrier` | a batch waits for exactly the messages queued and to come, none of another batch |
| | `PanicTakesTwo` | a deleter panics only when another removal has come to its deletions; one that was refused at its `ps` or `kill` is not enough |
| | `BatchesClear` | a removal that listed the directories when the injection had gone has deleted them all, cycles and remainder, before its last `RemoveAll` |
| space_full | `Enough` | the count of blocks fills a mount point whose unit is known, in spite of df's rounding and the 32 bits of the parse, except that between 4T and 10T it may be less than half a block short; and it is never more than a tenth and a block too much |
| | `Fills` | an injection whose `dd` nobody kills fills the mount point, also when another has truncated its image |
| | `Freed` | a removal that reports success gives the space back, also when its kill reached only some of its pids, and of a `dd` its search has missed |
| process | `RemovedRuns` | after a successful removal its injector has no stop outstanding, unless it was killed inside its signal call |
| | `HungOrFree` | when all have ended, and no injector was killed from outside or inside a signal call, a target that is stopped was stopped by a hang: no two removals leave the SIGCONT to each other |
| | `Alternates` | a choking keeps stopping and keeps resuming its target |
| | `EndWithTarget` | its loop ends when the target is gone |
| file | `OriginalSurvives` | no order of operations, killed anywhere but inside a copy, loses the content |
| | `CleanMeansOriginal` | when no backup is left, the path has its content, under the same conditions |
| | `BackedUpFirst` | nothing is corrupted before its backup is whole, wherever invocations fail or die |
| file, file_overlap | `ExecRecoverable` | a path whose execute bits file-unexecuted took off has them in its backup, wherever invocations die; also for two injections at once. Bits lost because the backup of file-corruption is made with 0644 are another matter, said below |
| file_overlap | `KeepsLedger` | the four faults, two invocations at a time, implement `FaultLedger`: no fault's backup or bit appears or goes but in its own injection or removal, also when the path is renamed between open and ioctl |
| corruption_range | `WritesInside` | nothing is written outside the file, overflow included |
| | `NoStrayBackup` | a range inside the file ends in an error with a backup left only when a system call failed: the checks after the backup refuse nothing that those before it let through |
| stress | `Cleared` | a removal that reached its kill leaves nothing of its command that was there when it began |
| | `TestsEnd`, `Returns` | test runs end and invocations return, also when they are killed or kill each other's processes |
| cpu_offline | `ParsedExactly` | what is switched is exactly the ids of the list, each once, each with a control file; a bad list switches nothing |
| | `PrefixDone` | while nobody else switches CPUs, what an invocation has done is a beginning of its list, wherever it fails or is killed |
| | `SuccessIsWhole` | an undisturbed invocation that reports success has switched all of its list and nothing else |
| system | `JumpExact` | an undisturbed jump moves the clock by what the text says, within its day; over midnight it stays in the day, a whole day off |
| | `ServiceAsReported` | a service fault or removal that reports success has had its effect, also among jobs that replace each other |
| | `ReadonlyCleared` | once a removal of the read-only fault has reported success the disks become writable, also when the remount is still under way or another comes before the machine is down; only a panic may come first |

Each run but `file` also checks the type invariant of its module (`corruption_range` has
none: its integers are the question).

Deadlock is checked in every run: where the system may stop, there is an action that
says so (`Exited`, `AllEnded`, `AllFinished`, `Ended`), or something that may always
begin. In `inode_inject` that is the statement that no goroutine blocks for ever on
`exitChan`.

Properties that the source states and the code does not keep, each a run of its own that
ends in a counterexample:

| run | statement | what happens |
|---|---|---|
| inode_inject_all_exited | moutpoint_inode_exhausted.go:86, wait for all goroutines | goroutines that meet ENOSPC send two or three messages |
| file_partial | submodules.go:52, clears the fault | a partial backup replaces an intact file |

Seen while modelling, in the models where they matter, without a run of their own:

- inode exhaustion: more goroutines than `numberOfCoroutines` are at work when a round
  begins beside what is left of the one before (moutpoint_inode_exhausted.go:53, :82);
  the injection is looked for under its absolute path and one order of flags, so
  deletion can begin under it (:105, against the comment at :127);
- process: an injector that is already gone, or two that match, make the removal of a
  choking return before its SIGCONT (choking.go:97, against the comment at :104);
  SIGKILL is not waited for, so an injector killed inside kill(2) can stop the target
  after the removal's SIGCONT (:100); the removal of `--interval 1` can kill the
  injector of `--interval 10` (:90);
- files: the backup of permissions has no setuid, setgid or sticky (unexecuted.go:71);
  file-lost renames directories too (lost.go:60, against file.go:60); a range that ends
  exactly at the end of the file is refused (corruption.go:149); of two overlapping
  injections of file-corruption the second truncates the backup of the first after it
  has corrupted the file (file.go:142); a removal killed between its os.Remove and its
  mv cannot be repeated, since Prepare requires the path (corruption.go:184); the backup
  of file-corruption is made with the permissions of a new file, so its removal takes
  execute bits away (file.go:146); a file-lost between the open and the ioctl of
  file-readonly leaves an immutable backup, which the removal of file-lost cannot move
  back and the removal of file-readonly does not reach (file.go:68, :78);
- load: the search for a command is not for whole words, so `--cpu 1` is found in `--cpu
  10` (stress_ng.go:152, against the comment at :144); with `--nice` the arguments meant
  for the tool itself are printed in brackets for stress-ng to refuse (:90);
- space: a size is parsed with 32 bits (filesystem.go:79), and at 4.2T and at 9.9T,
  among others, the count can be a block too few; a removal whose kill reaches the
  shell's pid of one `dd` too late and another process in time goes on to delete the
  image, and the first `dd` makes it again (moutpoint_space_full.go:96); a mount point
  whose superblock has gone read-only passes the check of its mount options, and the
  injection reports success though its `dd` fails; a `dd` killed inside `open` leaves an
  empty image, which refuses the next injection; after the mount point has grown a
  removal computes another count and misses the `dd`;
- CPUs: a range that ends at the greatest integer never ends (offline.go:82); the CPUs
  before the one that fails stay switched;
- time: a jump forwards over midnight goes backwards, and the other way round; `1h1m`
  passes the pattern and is refused later, an empty part panics; hours enough overflow a
  duration;
- services: the job of a `systemctl` killed at its deadline goes on, and a fault that is
  reported as failed then takes place;
- sysrq: the letter u is answered before the disks are remounted.

### Bounds

- `inode_inject`: rounds of two goroutines and three identities, so a round can begin
  beside a goroutine of the one before; two files a directory and two descriptors, so a
  single goroutine can exhaust both; two inodes and three blocks, or one inode and no
  block, so either is missing first; one inode given back by another program, so "full"
  is not for ever; five directory numbers. `AtBound` says where the numbers or
  identities end: a mount point without blocks is tried for ever by the code too.
  `Exhausts` is about disks with blocks enough, to which nobody gives inodes back; it
  stays within the bounds.
- `inode_remove`: N = 2 with zero to three directories, that is no batch, a remainder, a
  cycle, and both; two removals; one file a directory; an injection that is found, or
  not, that is killed and still completes calls, or ends at any time. Removals are
  symmetric.
- `space_full`: a K of 16 instead of 1024, which keeps all the cases of df (tenths,
  whole units, five units) small: sizes on both sides of every change, and all the
  tenths of a T, where the 32 bits round, are converted (`Samples`), and mount points of
  15K (refused: no unit M), 16K and 20K (one block and two) are filled; two invocations,
  two `dd`, one mishap (growth, read-only superblock, or kill). A kill takes its pids in
  one order; which `dd` has which slot is free, so each comes first in some behaviour.
- `process`: two injectors and two removals (one more than a removal accepts), one of
  each other invocation, one crash.
- `file`: one invocation at a time, as many inodes as names and open files can hold, two
  kills or failures (of an injection and of what is to repair it), one file made anew by
  another program. `file_overlap`: two invocations, one of which may be killed or break
  off its copy, a path with execute bits that is made anew once; all operations but the
  removal of file-unexecuted, which deletes what an overlapping injection has just
  written. States that differ only in which inode is which, or in which of the two slots
  an invocation has, are one (`View`, `Symmetry`).
- `corruption_range`: 5-bit integers, all of them.
- `stress`: two invocations, two processes at a time (a fault that is there and a test
  run, or two of a kind), a command, one that contains it and ends by itself, and one
  with `--nice` and private arguments; one kill.
- `cpu_offline`: three CPUs in any state, two invocations, lists that name some, all in
  two orders, overlap, run backwards, are absent, or reach the greatest integer (7) or
  the end of memory (4 ids); one kill, late shell or veto.
- `system`: a day of two hours of four seconds, a clock that stops at the end of the
  first day, durations up to 20 seconds and numbers up to 30, so that texts cross
  midnight, overflow either, or neither; two invocations of one of the sets of requests
  of `McMenus`: those that touch the same state come together.

### Fairness

Go runs every goroutine that can run, and channel and mutex waiters queue, so each
goroutine of `InodeInject` and its main have weak fairness. In `ProcessFaults` only
injectors that were started are fair; nobody has to start an invocation. In `SpaceFull`
every `dd` is fair: the kernel runs it, and nothing holds it up but its own system
calls. In `StressNg` an invocation that was started is fair, and so is the end of a test
run, which carries its own `-t 4s`. In `SystemFaults` started invocations, the job, an
orderly shutdown and the boot after a reset are fair; the boot after a panic needs an
operator, the clock and the remount owe nothing. Other programs, crashes, targets and
users are never fair.

## What is proved

TLAPS checks, for every value of the constants:

- `InodeInjectProofs`: `TypeCorrect`, `BarrierHolds`, `DirectoriesDistinct`,
  `ExactRounds`. `Barrier` is not inductive: main's count has to be carried from the
  goroutine that is spawned to the wait that follows (the invariant `Counting`), on
  lemmas that say how each step changes the finite set `Owing`. `DistinctDirs` needs
  `Mutex` (who holds the lock is between `Lock` and `Take`, and every number given out
  is at most the counter). `ExactUntilFull` needs `Tally` (messages and goroutines of a
  round add up exactly while nobody has met ENOSPC), with `FullForEver` and `NoReports`.
  The same invariants, with the numbers handed out (`Made`, `Carried`), give three more
  results. `RoundsComplete`: a round that ends before the mount point was first full
  leaves nobody at work, no message, and a directory for each number. `AllButLastRound`:
  with a block for every inode (`BlocksSuffice`) and none given back by other programs
  (`NothingBack`), the comment that the run inode_inject_all_exited refutes is true of
  every round but the last. `RoundsBounded`, under the same two conditions: while an
  inode is free no more numbers are handed out than there were directories and inodes at
  the start, which is the safety half of `Exhausts` and why it needs both conditions.
- `InodeRemoveProofs`: `TypeCorrect`; `BatchBarrierHolds` and `DeletersLimited` from
  `Batches`: while a batch is started its size is what is still to be started, the
  messages queued and the deleters at work, while it is waited for so is the number of
  messages that are still to be received, and between batches the channel is empty and
  no deleter is at work; `PanicTakesTwoHolds` from `Reading`, `Theirs` and `Panics`
  (while a removal is alone past its search, a name its deleter has listed is a file
  that is there); `BatchesClearHolds` from `Coverage`: the directories that a removal
  which listed them when the injection had gone has still to do: those on its list and
  those its deleters are at, and no others are left in the tree, since nobody makes one.
- `SpaceFullProofs`: `TypeCorrect` and `EnoughHolds`. The second is arithmetic: what the
  two roundings up of df and the division by a unit add and never take, for every size
  and every K above ten, and of the 32-bit parse, which loses at most half a part
  (`Scale`), so that only between 4T and 10T can it take a block, and then less than
  half of one; it is proved of `EnoughFor` at every natural number. The first counts
  blocks as pairs of file and number, and needs that only the image and open files have
  blocks, finitely many, and that a count is never zero from Prepare to `dd` (`Machine`,
  `Files`, `Dds`, `Invocations`). `SpaceReleased` is the safety half of `Freed`: a
  removal that begins with no injection under way and reports success leaves blocks only
  to files without a name that a `dd` has open. Its invariant says which `dd` can only
  end (`Doomed`), what is true once the image has no name (`Emptied`), and what a
  removal at work still owes (`Owes`).
- `ProcessFaultsProofs`: `TypeCorrect`, and `RemovalLetsRun`, from an invariant on what
  a removal's phase says of its victim; `StopsAnswered`, the safety half of
  `Alternates`: a stopped target is held by a hang that reported success, by an injector
  between its stop and its resume, by a signal that was late, by an injector that was
  killed in between, or by a removal that has its SIGCONT still to send; and
  `OnlyHangsHold`, that `HungOrFree` holds, which is what is left of that when every
  invocation has ended.
- `FileFaultsProofs`, for any number of invocations at once: `TypeCorrect`, and
  `LedgerKept`, that the four faults implement `FaultLedger`. The invariant: no two
  names are one inode (`Apart`), what each call has to hold is held (`Holding`), and the
  backups of file-corruption and file-unexecuted are never immutable (`Backups`),
  because nobody about to write the bit has one of them open (`Aimed`): what is opened
  is the path, which only file-lost moves before the ioctl. The same module proves what
  the faults promise for the file, wherever invocations fail or are killed:
  `ContentSurvives` and `CleanIsOriginal`, under `[]Alone("corruption")` (no two
  invocations of file-corruption overlap; those of the other faults may as they like);
  `BitsRecoverable`, under `[]RemovedAlone("unexecuted")` (no removal of file-unexecuted
  overlaps another invocation of it); `InjectionsRecoverable`, where it is not removed
  at all; `WriteAheadAmongOthers`, under the first condition while nobody makes the path
  anew; and `WriteAhead`, where files may be made anew but invocations come one after
  the other (`OneAtATime`). The invariants: no open descriptor is that of another
  fault's backup (`Descriptors`); the file of the path has one name at a time
  (`OnePath`); where the execute bits are at each call of file-unexecuted (`Kept`); one
  of the three names exists, what is corrupt under the path's names has a backup, and a
  backup is never corrupt (`Contents`). Both conditions are needed: without the first,
  the code loses the content as said above for file.go:142, without the second the bits,
  when a removal deletes the backup that another injection has just written
  (unexecuted.go:128). Invocations one after the other satisfy both. It ends with
  `RangeSafe` and `NoBackupLeft`, about `CorruptionRange` for integers of every width
  and with calls that fail wherever they may, from the invariant that what a check
  established still holds at the later steps, and the lemma that an accepted sum of two
  valid numbers does not wrap.
- `StressNgProofs`: `TypeCorrect`, and `RemovalClears` from `Lists`: a removal that
  comes to its kill has in its list every process of its command that is older than the
  removal and still alive. `TestsWatched` is the safety half of `TestsEnd`: an
  invocation waits for a test run of its own (`Own`), never for a fault (`Kind`), and
  unless an invocation is killed no test run goes on that none waits for (`Minded`).
- `CpuOfflineProofs`: `TypeCorrect`, `ParserExact`, `PrefixHolds`, `SuccessWhole`, from
  one invariant: the ids parsed so far are those of the parts parsed so far (`Parsing`),
  and, while nobody else switches CPUs, the machine is what the invocation saw with
  those CPUs switched (`Prefix`).
- `SystemFaultsProofs`, for any length of day, any texts, any width of a duration and
  any number of invocations: `TypeCorrect`; `ReportsHold`, that `ServiceAsReported`
  holds, from who waits for which job (`Waiters`, `Agreed`); `JumpsExactly`, that
  `JumpExact` holds, from what a time of day about to be set was computed from (`Aimed`,
  `Clocks`). The second rests on arithmetic: a day divides time in one way only
  (`DivisionUnique`), a time of day that is set stays in its day (`SetWithinDay`), and
  the sum over the parts of a text that the pattern lets through and the parser takes is
  what the text says (`DurationOfText`). That sum is a recursive function; a text that
  is understood has at most three parts, and the proof gives the function with its
  values (`SumOfParts`), so no induction is needed. The assumption on the units is only
  that a minute is more than a second and less than an hour.

The assumptions are the named ASSUMEs of the modules, which TLC evaluates on each
instance, and, where a theorem states them: `OneAtATime`, `Alone` and `RemovedAlone` on
which invocations overlap, `BlocksSuffice` and `NothingBack` on the mount point, and
that file-unexecuted is never removed. The proofs use no other.

Only model-checked are the liveness properties (`Exhausts`, `Alternates`,
`EndWithTarget`, `TestsEnd`, `Returns`, `Fills`, `Freed`, `ReadonlyCleared`), since the
provers do not handle fairness here; the safety halves of `Exhausts`, `Alternates`,
`Freed` and `TestsEnd` are proved as said above. Every invariant and every action
property of the runs, and the refinement, is proved.

## Not modelled

- The wording of messages and logs, and the help of the command line.
- File attributes other than the immutable bit; permissions beyond the four classes.
- `CheckEnvShellCommand` looks for a command in the PATH and changes nothing; a missing
  command is a `Prepare` that fails, which every module has.
- A pid that is used again by another process (choking.go:58, and the pids of
  moutpoint_inode_exhausted.go:118 and stress_ng.go:160): the models have one target and
  never use a pid twice while an invocation holds it.
- Machines some of whose CPUs have no control file.
- Corruption with `--backup-path` on another file system, where `mv` copies.

What could follow: `InodeInject` and `InodeRemove` in one state space, with the kill
between them, instead of the coarse injection that `InodeRemove` has; an instance of
`FaultLedger` for process-hang.

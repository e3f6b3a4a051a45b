------------------------------ MODULE InodeRemove ------------------------------
(***************************************************************************)
(* The remove half of filesystem-mountpoint-inode-exhaustion: kill the     *)
(* injection that may still run, list the directories it made, delete them *)
(* in batches of N goroutines with a channel as the barrier of each batch, *)
(* then the directory they were in.  Several removals may run, and the     *)
(* injection may be one that ps and grep do not find.                      *)
(*                                                                         *)
(* Abstracted: a directory and a file are their places in the order of     *)
(* names, in which ReadDir lists them; the injection (modelled in          *)
(* InodeInject) is a program that adds directories and files.  A process   *)
(* that kill -9 has signalled still completes its calls in flight; one     *)
(* that has ended can be signalled until its parent reaps it.              *)
(***************************************************************************)
EXTENDS Integers, FiniteSets

CONSTANTS
  Remover,   \* invocations of remove filesystem mountpoint-inode-exhaustion
  N,         \* numberOfCoroutines: deleters per batch, capacity of exitChan
  DirNum,    \* directories
  FileIdx,   \* files
  Visibles   \* may the injection's command line be the one ps is searched for

ASSUME RemoveAssumption ==
  /\ N \in Nat \ {0}
  /\ DirNum \subseteq Nat /\ IsFiniteSet(DirNum)
  /\ FileIdx \subseteq Nat /\ IsFiniteSet(FileIdx)
  /\ Visibles \subseteq BOOLEAN

VARIABLES
  testDir,   \* does arsenal_test_dir exist
  tree,      \* directory number -> its files, for those that exist
  injecting, \* the injection: running ("yes"), killed and not yet gone ("dying"), gone ("no")
  visible,   \* is its command line the one that ps is searched for
  pc,        \* where each removal is
  dirList,   \* directories each removal has listed and not given to a deleter
  batch,     \* deleters of the batch at hand: N of a cycle, or the remainder
  left,      \* deleters to start ("spawn") or messages to receive ("wait")
  queued,    \* messages in each removal's exitChan
  at,        \* where each removal's deleter of each directory is
  fileList,  \* files that deleter has read and not removed yet
  quiet      \* history: had the injection gone when each removal listed the directories

disk  == <<testDir, tree, injecting, visible>>
mains == <<pc, dirList, batch, left, queued, quiet>>
jobs  == <<at, fileList>>
vars  == <<disk, mains, jobs>>

\* A removal that ends before its deletions is refused, later it has failed.
Ended   == {"ok", "refused", "failed", "panicked"}
Busy(r) == {d \in DirNum : at[r][d] # "none"}

IsFirst(n, names) == n \in names /\ \A m \in names : n <= m
IsLast(n, names) == n \in names /\ \A m \in names : m <= n

Goto(r, from, to) == pc[r] = from /\ pc' = [pc EXCEPT ![r] = to]
\* The size of the next batch when n directories are to go.
Batch(n) == IF n >= N THEN N ELSE n
Without(ds) == [e \in DOMAIN tree \ ds |-> tree[e]]
--------------------------------------------------------------------------------
Init ==
  /\ \E ds \in SUBSET DirNum : tree \in [ds -> SUBSET FileIdx]
  /\ testDir \in BOOLEAN /\ (DOMAIN tree # {} => testDir)
  /\ injecting \in {"yes", "no"} /\ (injecting = "yes" => testDir)
  /\ visible \in Visibles
  /\ pc = [r \in Remover |-> "ps"]
  /\ dirList = [r \in Remover |-> {}]
  /\ batch = [r \in Remover |-> 0] /\ left = [r \in Remover |-> 0] /\ queued = [r \in Remover |-> 0]
  /\ at = [r \in Remover |-> [d \in DirNum |-> "none"]]
  /\ fileList = [r \in Remover |-> [d \in DirNum |-> {}]]
  /\ quiet = [r \in Remover |-> FALSE]

\* killBackgroundInjectProcess: nobody found is no error.  A dying process may
\* still show its command line.
Ps(r) ==
  /\ \/ visible /\ injecting # "no" /\ Goto(r, "ps", "kill")
     \/ (visible => injecting # "yes") /\ Goto(r, "ps", "list")
  /\ UNCHANGED <<disk, dirList, batch, left, queued, quiet, jobs>>
\* The command is killed at its deadline.
PsFails(r) ==
  /\ Goto(r, "ps", "refused")
  /\ UNCHANGED <<disk, dirList, batch, left, queued, quiet, jobs>>
Signalled == IF injecting = "yes" THEN "dying" ELSE injecting
\* One that has ended and is not reaped takes the signal as well.
Kill(r) ==
  /\ Goto(r, "kill", "list")
  /\ injecting' = Signalled
  /\ UNCHANGED <<testDir, tree, visible, dirList, batch, left, queued, quiet, jobs>>
\* The pid is gone, or the deadline comes before or after the signal.
KillFails(r) ==
  /\ Goto(r, "kill", "refused")
  /\ injecting' \in {injecting, Signalled}
  /\ UNCHANGED <<testDir, tree, visible, dirList, batch, left, queued, quiet, jobs>>

\* Mutant: the remainder is forgotten.
NextBatchWhole(r, dirs, from) ==
  /\ Goto(r, from, IF Cardinality(dirs) < N THEN "last" ELSE "spawn")
  /\ batch' = [batch EXCEPT ![r] = Batch(Cardinality(dirs))]
  /\ left' = [left EXCEPT ![r] = Batch(Cardinality(dirs))]
NextBatch(r, dirs, from) ==
  /\ Goto(r, from, IF dirs = {} THEN "last" ELSE "spawn")
  /\ batch' = [batch EXCEPT ![r] = Batch(Cardinality(dirs))]
  /\ left' = [left EXCEPT ![r] = Batch(Cardinality(dirs))]
\* getTestDirNum; an error of ReadDir is an empty list.
ListDirs(r) ==
  /\ NextBatch(r, DOMAIN tree, "list")
  /\ dirList' = [dirList EXCEPT ![r] = DOMAIN tree]
  /\ quiet' = [quiet EXCEPT ![r] = injecting = "no"]
  /\ UNCHANGED <<disk, queued, jobs>>

\* dirNum--, then go deleteFIle(dirList[dirNum], m.exitChan)
Spawn(r, d) ==
  /\ pc[r] = "spawn" /\ left[r] > 0 /\ IsLast(d, dirList[r])
  /\ dirList' = [dirList EXCEPT ![r] = @ \ {d}]
  /\ left' = [left EXCEPT ![r] = @ - 1]
  /\ at' = [at EXCEPT ![r][d] = "read"]
  /\ UNCHANGED <<disk, pc, batch, queued, fileList, quiet>>

\* Mutant: the remainder is waited for as if it were a cycle of N.
AllSpawnedFull(r) ==
  /\ left[r] = 0
  /\ Goto(r, "spawn", "wait")
  /\ left' = [left EXCEPT ![r] = N]
  /\ UNCHANGED <<disk, dirList, batch, queued, quiet, jobs>>

AllSpawned(r) ==
  /\ left[r] = 0
  /\ Goto(r, "spawn", "wait")
  /\ left' = [left EXCEPT ![r] = batch[r]]
  /\ UNCHANGED <<disk, dirList, batch, queued, quiet, jobs>>

\* Mutant: a receive that does not wait for a message.
ReceiveUnblocked(r) ==
  /\ pc[r] = "wait" /\ left[r] > 0
  /\ left' = [left EXCEPT ![r] = @ - 1]
  /\ queued' = [queued EXCEPT ![r] = @ - 1]
  /\ UNCHANGED <<disk, pc, dirList, batch, quiet, jobs>>
Receive(r) ==
  /\ pc[r] = "wait" /\ left[r] > 0 /\ queued[r] > 0
  /\ left' = [left EXCEPT ![r] = @ - 1]
  /\ queued' = [queued EXCEPT ![r] = @ - 1]
  /\ UNCHANGED <<disk, pc, dirList, batch, quiet, jobs>>

\* Mutant: the next batch starts when one message of the last has come.
AllReceivedEarly(r) ==
  /\ left[r] < batch[r]
  /\ NextBatch(r, dirList[r], "wait")
  /\ UNCHANGED <<disk, dirList, queued, quiet, jobs>>

AllReceived(r) ==
  /\ left[r] = 0
  /\ NextBatch(r, dirList[r], "wait")
  /\ UNCHANGED <<disk, dirList, queued, quiet, jobs>>

\* The process ends: its goroutines are gone.
Exit(r, from, how) ==
  /\ Goto(r, from, how)
  /\ at' = [at EXCEPT ![r] = [d \in DirNum |-> "none"]]
  /\ fileList' = [fileList EXCEPT ![r] = [d \in DirNum |-> {}]]
  /\ UNCHANGED <<dirList, batch, left, queued, quiet>>

\* os.RemoveAll of arsenal_test_dir, with whatever is in it by now.
RemoveTestDir(r) ==
  /\ Exit(r, "last", "ok")
  /\ testDir' = FALSE /\ tree' = Without(DOMAIN tree)
  /\ UNCHANGED <<injecting, visible>>
\* It fails when somebody keeps adding to it; some of it is gone.
RemoveTestDirFails(r) ==
  /\ testDir /\ injecting # "no"
  /\ Exit(r, "last", "failed")
  /\ \E ds \in SUBSET DOMAIN tree : tree' = Without(ds)
  /\ UNCHANGED <<testDir, injecting, visible>>
--------------------------------------------------------------------------------
\* deleteFIle, one file at a time; an error of ReadDir is an empty list.
JobTo(r, d, from, to) ==
  /\ pc[r] \notin Ended /\ at[r][d] = from
  /\ at' = [at EXCEPT ![r][d] = to]

\* Mutant: the names the injection would give, not those in the directory.
ReadDirGuessed(r, d) ==
  /\ JobTo(r, d, "read", "remove")
  /\ fileList' = [fileList EXCEPT ![r][d] = FileIdx]
  /\ UNCHANGED <<disk, mains>>
ReadDir(r, d) ==
  /\ JobTo(r, d, "read", "remove")
  /\ fileList' = [fileList EXCEPT ![r][d] = IF d \in DOMAIN tree THEN tree[d] ELSE {}]
  /\ UNCHANGED <<disk, mains>>
RemoveFile(r, d, f) ==
  /\ IsFirst(f, fileList[r][d])
  /\ d \in DOMAIN tree /\ f \in tree[d]
  /\ JobTo(r, d, "remove", "remove")
  /\ tree' = [tree EXCEPT ![d] = @ \ {f}]
  /\ fileList' = [fileList EXCEPT ![r][d] = @ \ {f}]
  /\ UNCHANGED <<testDir, injecting, visible, mains>>
\* panic(err), with which the whole removal ends: somebody else removed it.
RemoveFilePanics(r, d, f) ==
  /\ at[r][d] = "remove" /\ IsFirst(f, fileList[r][d])
  /\ ~(d \in DOMAIN tree /\ f \in tree[d])
  /\ Exit(r, pc[r], "panicked")
  /\ UNCHANGED disk
FilesRemoved(r, d) ==
  /\ fileList[r][d] = {}
  /\ JobTo(r, d, "remove", "removeAll")
  /\ UNCHANGED <<disk, mains, fileList>>
RemoveDir(r, d) ==
  /\ JobTo(r, d, "removeAll", "send")
  /\ tree' = Without({d})
  /\ UNCHANGED <<testDir, injecting, visible, mains, fileList>>
\* The error is printed, and that is all; some of its files are gone.
RemoveDirFails(r, d) ==
  /\ d \in DOMAIN tree /\ injecting # "no"
  /\ JobTo(r, d, "removeAll", "send")
  /\ \E fs \in SUBSET tree[d] : tree' = [tree EXCEPT ![d] = fs]
  /\ UNCHANGED <<testDir, injecting, visible, mains, fileList>>
SendExit(r, d) ==
  /\ queued[r] < N
  /\ JobTo(r, d, "send", "none")
  /\ queued' = [queued EXCEPT ![r] = @ + 1]
  /\ UNCHANGED <<disk, pc, dirList, batch, left, fileList, quiet>>
--------------------------------------------------------------------------------
\* The injection goes on until it is gone: a directory, a file, the end.
InjectDir(d) ==
  /\ injecting # "no" /\ testDir /\ d \notin DOMAIN tree
  /\ tree' = [e \in DOMAIN tree \cup {d} |-> IF e = d THEN {} ELSE tree[e]]
  /\ UNCHANGED <<testDir, injecting, visible, mains, jobs>>
InjectFile(d, f) ==
  /\ injecting # "no" /\ d \in DOMAIN tree /\ f \notin tree[d]
  /\ tree' = [tree EXCEPT ![d] = @ \cup {f}]
  /\ UNCHANGED <<testDir, injecting, visible, mains, jobs>>
InjectEnds ==
  /\ injecting # "no" /\ injecting' = "no"
  /\ UNCHANGED <<testDir, tree, visible, mains, jobs>>

AllEnded == (\A r \in Remover : pc[r] \in Ended) /\ injecting = "no" /\ UNCHANGED vars

Main(r) ==
  \/ Ps(r) \/ PsFails(r) \/ Kill(r) \/ KillFails(r) \/ ListDirs(r)
  \/ (\E d \in DirNum : Spawn(r, d)) \/ AllSpawned(r) \/ Receive(r) \/ AllReceived(r)
  \/ RemoveTestDir(r) \/ RemoveTestDirFails(r)
Deleter(r, d) ==
  \/ ReadDir(r, d) \/ FilesRemoved(r, d)
  \/ \E f \in FileIdx : RemoveFile(r, d, f) \/ RemoveFilePanics(r, d, f)
  \/ RemoveDir(r, d) \/ RemoveDirFails(r, d) \/ SendExit(r, d)

Next ==
  \/ \E r \in Remover : Main(r) \/ \E d \in DirNum : Deleter(r, d)
  \/ \E d \in DirNum : InjectDir(d) \/ \E f \in FileIdx : InjectFile(d, f)
  \/ InjectEnds
  \/ AllEnded

Spec == Init /\ [][Next]_vars
--------------------------------------------------------------------------------
TypeOK ==
  /\ testDir \in BOOLEAN /\ injecting \in {"yes", "dying", "no"} /\ visible \in BOOLEAN
  /\ DOMAIN tree \subseteq DirNum /\ \A d \in DOMAIN tree : tree[d] \subseteq FileIdx
  /\ pc \in [Remover -> Ended \cup {"ps", "kill", "list", "spawn", "wait", "last"}]
  /\ dirList \in [Remover -> SUBSET DirNum]
  /\ batch \in [Remover -> 0..N] /\ left \in [Remover -> 0..N]
  /\ queued \in [Remover -> 0..N]
  /\ at \in [Remover -> [DirNum -> {"none", "read", "remove", "removeAll", "send"}]]
  /\ fileList \in [Remover -> [DirNum -> SUBSET FileIdx]]
  /\ quiet \in [Remover -> BOOLEAN]

\* The comment on numberOfCoroutines, for the deletion: at most that many
\* deleters of one removal are at work, whatever else is going on; and when a
\* removal goes on to the test directory itself all of them have ended and
\* every directory it listed has had its deleter.
DeleterLimit ==
  \A r \in Remover :
    /\ Cardinality(Busy(r)) <= N
    /\ pc[r] = "last" => Busy(r) = {} /\ dirList[r] = {}

\* The cycles of N deleters and the remainder together are the whole list: a
\* removal that listed the directories when the injection had gone has deleted
\* every one of them when it comes to its last step, whatever other removals
\* did in between, so that nothing is left to that RemoveAll, which is not
\* parallel.
BatchesClear == \A r \in Remover : quiet[r] /\ pc[r] = "last" => DOMAIN tree = {}

\* deleteFIle panics on a file that is gone only when another removal has come
\* to its deletions: an injection that was not found, and the goroutines and
\* RemoveAll of the same removal, never take a file away from it.
PanicTakesTwo ==
  \A r \in Remover :
    pc[r] = "panicked" => \E s \in Remover \ {r} : pc[s] \notin {"ps", "kill", "list", "refused"}

\* No batch waits for a message that nobody sends, nor leaves one behind for the
\* next batch to take for its own: a removal that waits still has to receive
\* what is queued and what its deleters at work will send.
BatchBarrier ==
  \A r \in Remover : pc[r] = "wait" => left[r] = queued[r] + Cardinality(Busy(r))
================================================================================

------------------------------ MODULE InodeInject ------------------------------
(***************************************************************************)
(* The inject half of filesystem-mountpoint-inode-exhaustion: rounds of    *)
(* N goroutines that each make one numbered directory and fill it with     *)
(* files, a mutex around the directory counter, and a buffered channel     *)
(* on which the main goroutine counts N messages before it asks statfs     *)
(* whether the mount point still has a free inode.                         *)
(*                                                                         *)
(* Abstracted: a directory is its number, a file its index; the values     *)
(* sent on the channel are never read by the code, so the channel is the   *)
(* number of messages in it.  The mount point is what ENOSPC depends on:   *)
(* its free inodes and its free blocks (a directory takes one of each, an  *)
(* empty file an inode).                                                   *)
(***************************************************************************)
EXTENDS Integers, FiniteSets, Functions

CONSTANTS
  Routine,      \* goroutine identities; one is reused after its goroutine returned
  NoRoutine,    \* nobody holds the mutex
  N,            \* numberOfCoroutines: goroutines per round, capacity of exitChan
  FilesPerDir,  \* files a goroutine creates in its directory (10000 in the code)
  MaxOpen,      \* file descriptors the process may hold open
  Disks,        \* <<free inodes, free blocks>> of the mount point at the start
  MaxDir,       \* bound: directory numbers handed out
  MaxLeft,      \* bound: directories an earlier injection left behind
  MaxRelease    \* bound: inodes other programs give back while we run

ASSUME InodeAssumption ==
  /\ N \in Nat \ {0}
  /\ FilesPerDir \in Nat
  /\ MaxOpen \in Nat
  /\ Disks \subseteq Nat \X Nat
  /\ MaxDir \in Nat
  /\ MaxLeft \in 0..MaxDir
  /\ MaxRelease \in Nat
  /\ IsFiniteSet(Routine)
  /\ NoRoutine \notin Routine

VARIABLES
  main,      \* where FaultInject is
  left,      \* goroutines to start ("spawn") or messages to receive ("wait")
  queued,    \* messages in exitChan
  pc,        \* where each goroutine is
  holder,    \* the goroutine that holds lock, or NoRoutine
  numOfDir,  \* the shared counter
  mine,      \* the directory number each goroutine took
  idx,       \* loop index j of each goroutine
  held,      \* files each goroutine holds open until it returns
  testDir,   \* does arsenal_test_dir exist
  tree,      \* directory number -> indices of its files, for those that exist
  inode,     \* free inodes
  block,     \* free blocks
  released   \* inodes other programs gave back so far

mainVars == <<main, left, queued>>
numVars  == <<holder, numOfDir, mine>>
fillVars == <<idx, held>>
diskVars == <<testDir, tree, inode, block, released>>
vars     == <<mainVars, pc, numVars, fillVars, diskVars>>

FileIdx  == 0..(FilesPerDir - 1)
Phase    == {"free", "lock", "bump", "take", "mkdir", "sendFull",
             "create", "sendBreak", "sendExit", "return"}
Ended    == {"done", "failed"}

\* Goroutines of this process that have yet to send their last message.
Owing == {r \in Routine : pc[r] \notin {"free", "return"}}

\* Descriptors in use.
OpenFiles == FoldFunction(+, 0, held)

Step(r, from, to) ==
  /\ main \notin Ended
  /\ pc[r] = from
  /\ pc' = [pc EXCEPT ![r] = to]
--------------------------------------------------------------------------------
\* The state a run may find: nothing, or what a killed injection left.
Init ==
  /\ main = "start" /\ left = 0 /\ queued = 0
  /\ pc = [r \in Routine |-> "free"]
  /\ holder = NoRoutine /\ numOfDir = 0
  /\ mine = [r \in Routine |-> 0]
  /\ idx = [r \in Routine |-> 0]
  /\ held = [r \in Routine |-> 0]
  /\ testDir \in BOOLEAN
  /\ \E n \in 0..MaxLeft : tree \in [1..n -> SUBSET FileIdx]
  /\ DOMAIN tree # {} => testDir
  /\ \E d \in Disks : inode = d[1] /\ block = d[2]
  /\ released = 0

\* FaultInject, before its loop: make the directory all the others go under.
MakeTestDir ==
  /\ main = "start"
  /\ \/ testDir /\ main' = "spawn" /\ left' = N
        /\ UNCHANGED <<testDir, inode, block>>
     \/ /\ ~testDir /\ inode > 0 /\ block > 0
        /\ testDir' = TRUE /\ inode' = inode - 1 /\ block' = block - 1
        /\ main' = "spawn" /\ left' = N
     \/ /\ ~testDir /\ (inode = 0 \/ block = 0)
        /\ main' = "failed"
        /\ UNCHANGED <<left, testDir, inode, block>>
  /\ UNCHANGED <<queued, pc, numVars, fillVars, tree, released>>

\* go m.createFile(), N times a round.
NumbersLeft ==
  numOfDir + Cardinality({s \in Routine : pc[s] \in {"lock", "bump"}}) < MaxDir
Spawn(r) ==
  /\ main = "spawn" /\ left > 0
  /\ NumbersLeft
  /\ Step(r, "free", "lock")
  /\ left' = left - 1
  /\ UNCHANGED <<main, queued, numVars, fillVars, diskVars>>

\* The last goroutine of the round is started: go and receive N messages.
AllSpawned ==
  /\ main = "spawn" /\ left = 0
  /\ main' = "wait" /\ left' = N
  /\ UNCHANGED <<queued, pc, numVars, fillVars, diskVars>>

\* Mutant: a receive that does not wait for a message.
ReceiveUnblocked ==
  /\ main = "wait" /\ left > 0
  /\ queued' = queued - 1 /\ left' = left - 1
  /\ UNCHANGED <<main, pc, numVars, fillVars, diskVars>>

Receive ==
  /\ main = "wait" /\ left > 0
  /\ queued > 0
  /\ queued' = queued - 1 /\ left' = left - 1
  /\ UNCHANGED <<main, pc, numVars, fillVars, diskVars>>

AllReceived ==
  /\ main = "wait" /\ left = 0
  /\ main' = "check"
  /\ UNCHANGED <<left, queued, pc, numVars, fillVars, diskVars>>

\* mntInodeIsFree: no free inode ends the injection, and with it the process
\* and whatever goroutine is left; so does a statfs that fails.
CheckInodes ==
  /\ main = "check"
  /\ \/ inode > 0 /\ main' = "spawn" /\ left' = N /\ UNCHANGED <<pc, holder>>
     \/ /\ inode = 0 /\ main' = "done"
        /\ pc' = [r \in Routine |-> "free"] /\ holder' = NoRoutine
        /\ UNCHANGED left
     \/ /\ main' = "failed"
        /\ pc' = [r \in Routine |-> "free"] /\ holder' = NoRoutine
        /\ UNCHANGED left
  /\ UNCHANGED <<queued, numOfDir, mine, fillVars, diskVars>>
--------------------------------------------------------------------------------
\* Mutant: the counter is incremented and read without the mutex.
LockUnheld(r) ==
  /\ Step(r, "lock", "bump")
  /\ holder' = r
  /\ UNCHANGED <<mainVars, numOfDir, mine, fillVars, diskVars>>

Lock(r) ==
  /\ holder = NoRoutine
  /\ Step(r, "lock", "bump")
  /\ holder' = r
  /\ UNCHANGED <<mainVars, numOfDir, mine, fillVars, diskVars>>

Bump(r) ==
  /\ Step(r, "bump", "take")
  /\ numOfDir' = numOfDir + 1
  /\ UNCHANGED <<mainVars, holder, mine, fillVars, diskVars>>

\* strconv.Itoa(numOfDir), then lock.Unlock().
Take(r) ==
  /\ Step(r, "take", "mkdir")
  /\ mine' = [mine EXCEPT ![r] = numOfDir]
  /\ holder' = NoRoutine
  /\ UNCHANGED <<mainVars, numOfDir, fillVars, diskVars>>

\* os.Mkdir.  A directory that is already there is an error the code ignores.
MkdirMakes(r) ==
  /\ mine[r] \notin DOMAIN tree /\ inode > 0 /\ block > 0
  /\ Step(r, "mkdir", "create")
  /\ tree' = [d \in DOMAIN tree \cup {mine[r]} |->
                IF d = mine[r] THEN {} ELSE tree[d]]
  /\ inode' = inode - 1 /\ block' = block - 1
  /\ idx' = [idx EXCEPT ![r] = 0]
  /\ UNCHANGED <<mainVars, numVars, held, testDir, released>>

MkdirExists(r) ==
  /\ mine[r] \in DOMAIN tree
  /\ Step(r, "mkdir", "create")
  /\ idx' = [idx EXCEPT ![r] = 0]
  /\ UNCHANGED <<mainVars, numVars, held, diskVars>>

\* "no space left on device", from want of an inode or of a block: the
\* goroutine reports it and goes on to its files all the same.
MkdirNoSpace(r) ==
  /\ mine[r] \notin DOMAIN tree /\ (inode = 0 \/ block = 0)
  /\ Step(r, "mkdir", "sendFull")
  /\ idx' = [idx EXCEPT ![r] = 0]
  /\ UNCHANGED <<mainVars, numVars, held, diskVars>>

SendFull(r) ==
  /\ queued < N
  /\ Step(r, "sendFull", "create")
  /\ queued' = queued + 1
  /\ UNCHANGED <<main, left, numVars, fillVars, diskVars>>

\* os.Create succeeds; the descriptor stays open until the goroutine returns.
CreateOpens(r) ==
  /\ idx[r] < FilesPerDir /\ OpenFiles < MaxOpen
  /\ mine[r] \in DOMAIN tree
  /\ idx[r] \in tree[mine[r]] \/ inode > 0
  /\ Step(r, "create", "create")
  /\ tree' = [tree EXCEPT ![mine[r]] = @ \cup {idx[r]}]
  /\ inode' = IF idx[r] \in tree[mine[r]] THEN inode ELSE inode - 1
  /\ idx' = [idx EXCEPT ![r] = @ + 1]
  /\ held' = [held EXCEPT ![r] = @ + 1]
  /\ UNCHANGED <<mainVars, numVars, testDir, block, released>>

\* Mutant: a file that cannot be created is tried again, not skipped.
CreateSkipsRetries(r) ==
  /\ idx[r] < FilesPerDir
  /\ OpenFiles >= MaxOpen \/ mine[r] \notin DOMAIN tree
  /\ Step(r, "create", "create")
  /\ UNCHANGED <<mainVars, numVars, fillVars, diskVars>>

\* os.Create fails for want of a descriptor or of the directory: not the error
\* the code looks for, so the loop goes on to the next file.
CreateSkips(r) ==
  /\ idx[r] < FilesPerDir
  /\ OpenFiles >= MaxOpen \/ mine[r] \notin DOMAIN tree
  /\ Step(r, "create", "create")
  /\ idx' = [idx EXCEPT ![r] = @ + 1]
  /\ UNCHANGED <<mainVars, numVars, held, diskVars>>

CreateNoSpace(r) ==
  /\ idx[r] < FilesPerDir /\ OpenFiles < MaxOpen
  /\ mine[r] \in DOMAIN tree /\ idx[r] \notin tree[mine[r]] /\ inode = 0
  /\ Step(r, "create", "sendBreak")
  /\ UNCHANGED <<mainVars, numVars, fillVars, diskVars>>

SendBreak(r) ==
  /\ queued < N
  /\ Step(r, "sendBreak", "sendExit")
  /\ queued' = queued + 1
  /\ UNCHANGED <<main, left, numVars, fillVars, diskVars>>

\* Mutant: a goroutine that filled its directory reports that, then its exit.
LoopEndsReports(r) ==
  /\ idx[r] = FilesPerDir
  /\ Step(r, "create", "sendBreak")
  /\ UNCHANGED <<mainVars, numVars, fillVars, diskVars>>

LoopEnds(r) ==
  /\ idx[r] = FilesPerDir
  /\ Step(r, "create", "sendExit")
  /\ UNCHANGED <<mainVars, numVars, fillVars, diskVars>>

\* Mutant: the goroutine returns without its last message.
SendExitSilent(r) ==
  /\ Step(r, "sendExit", "return")
  /\ UNCHANGED <<mainVars, numVars, fillVars, diskVars>>

SendExit(r) ==
  /\ queued < N
  /\ Step(r, "sendExit", "return")
  /\ queued' = queued + 1
  /\ UNCHANGED <<main, left, numVars, fillVars, diskVars>>

\* The deferred Closes run, and the goroutine's locals are gone.
Return(r) ==
  /\ Step(r, "return", "free")
  /\ held' = [held EXCEPT ![r] = 0]
  /\ idx' = [idx EXCEPT ![r] = 0]
  /\ mine' = [mine EXCEPT ![r] = 0]
  /\ UNCHANGED <<mainVars, holder, numOfDir, diskVars>>
--------------------------------------------------------------------------------
\* Another program deletes a file of its own on the same mount point.
OtherReleases ==
  /\ main \notin Ended
  /\ released < MaxRelease
  /\ released' = released + 1 /\ inode' = inode + 1
  /\ UNCHANGED <<mainVars, pc, numVars, fillVars, testDir, tree, block>>

\* The bounds on directory numbers and identities: a mount point that has run
\* out of blocks but not of inodes is tried for ever, and each round leaves more
\* goroutines that wait to send.
AtBound ==
  /\ main = "spawn" /\ left > 0
  /\ NumbersLeft => \A r \in Routine : pc[r] # "free"
  /\ UNCHANGED vars

\* The process has exited.
Exited == main \in Ended /\ UNCHANGED vars

MainStep == MakeTestDir \/ AllSpawned \/ Receive \/ AllReceived \/ CheckInodes

RoutineStep(r) ==
  \/ Lock(r) \/ Bump(r) \/ Take(r)
  \/ MkdirMakes(r) \/ MkdirExists(r) \/ MkdirNoSpace(r) \/ SendFull(r)
  \/ CreateOpens(r) \/ CreateSkips(r) \/ CreateNoSpace(r) \/ SendBreak(r)
  \/ LoopEnds(r) \/ SendExit(r) \/ Return(r)

Next ==
  \/ MainStep
  \/ \E r \in Routine : Spawn(r) \/ RoutineStep(r)
  \/ OtherReleases
  \/ AtBound
  \/ Exited

Spec == Init /\ [][Next]_vars

\* The Go scheduler runs every goroutine that can run; mutex and channel
\* waiters queue, so one that can proceed is not passed over for ever.
FairSpec ==
  /\ Spec
  /\ WF_vars(MainStep)
  /\ WF_vars(\E r \in Routine : Spawn(r))
  /\ \A r \in Routine : WF_vars(RoutineStep(r))
--------------------------------------------------------------------------------
TypeOK ==
  /\ main \in {"start", "spawn", "wait", "check", "done", "failed"}
  /\ left \in 0..N
  /\ queued \in 0..N
  /\ pc \in [Routine -> Phase]
  /\ holder \in Routine \cup {NoRoutine}
  /\ numOfDir \in Nat
  /\ mine \in [Routine -> Nat]
  /\ idx \in [Routine -> 0..FilesPerDir]
  /\ held \in [Routine -> Nat]
  /\ testDir \in BOOLEAN
  /\ DOMAIN tree \subseteq Nat /\ \A d \in DOMAIN tree : tree[d] \subseteq FileIdx
  /\ inode \in Nat
  /\ block \in Nat
  /\ released \in 0..MaxRelease

\* The main goroutine never waits for more messages than are queued or can
\* still come: no round of FaultInject blocks on exitChan for ever, whichever
\* way its goroutines ended.
Barrier == main = "wait" => left <= queued + Cardinality(Owing)

\* Two goroutines of a process never work in the same numbered directory: the
\* mutex keeps the increment and the read of numOfDir together.
Numbered == {"mkdir", "sendFull", "create", "sendBreak", "sendExit"}
DistinctDirs ==
  \A r, s \in Routine :
    r # s /\ pc[r] \in Numbered /\ pc[s] \in Numbered => mine[r] # mine[s]

\* While the mount point has never been full, a round ends only when every
\* goroutine it started has sent its last message: the extra messages that
\* break the barrier are all reports of "no space left on device".
NeverFull == inode > 0 /\ block > 0 /\ released = 0
ExactUntilFull == NeverFull /\ main = "check" => Owing = {} /\ queued = 0

\* If the mount point has a block for every directory it can be asked for, and
\* other programs give no inode back meanwhile, the injection ends, however few
\* descriptors it has and whatever an earlier, killed injection left under the
\* same names.
BlocksSuffice == block > inode
Exhausts == BlocksSuffice /\ [](released = 0) => <>(main \in Ended)

\* The comment over the receive loop: all the goroutines of the round have
\* exited when main goes on to the inode check.
AllExited == main = "check" => Owing = {}
================================================================================

--------------------------- MODULE InodeRemoveProofs ---------------------------
(***************************************************************************)
(* What holds of InodeRemove for every number of removals, size of batch,  *)
(* and tree: the typing, what one removal's batches owe each other, and    *)
(* what removals do to each other.                                         *)
(***************************************************************************)
EXTENDS InodeRemove, TLAPS, FiniteSetTheorems

\* The size of a batch is a number of goroutines, whatever is left to delete.
LEMMA BatchSize ==
  ASSUME NEW ds, ds \subseteq DirNum
  PROVE  Batch(Cardinality(ds)) \in 0..N
<1>1. Cardinality(ds) \in Nat
  BY RemoveAssumption, FS_Subset, FS_CardinalityType
<1> QED
  BY <1>1, RemoveAssumption DEF Batch

\* The variables keep their types in every run of every instance: the channel
\* never holds more than its capacity, no count goes below zero.
THEOREM TypeCorrect == Spec => []TypeOK
<1>1. Init => TypeOK
  BY RemoveAssumption DEF Init, TypeOK, Ended
<1>2. TypeOK /\ [Next]_vars => TypeOK'
  <2> SUFFICES ASSUME TypeOK, [Next]_vars PROVE TypeOK'
    OBVIOUS
  <2> USE RemoveAssumption DEF TypeOK, Ended, disk, mains, jobs, Goto, JobTo
  <2>1. ASSUME NEW r \in Remover, Main(r) PROVE TypeOK'
    <3>1. CASE Ps(r) \/ PsFails(r)
      BY <3>1 DEF Ps, PsFails
    <3>2. CASE Kill(r)
      BY <3>2 DEF Kill, Signalled
    <3>3. CASE KillFails(r)
      BY <3>3 DEF KillFails, Signalled
    <3>4. CASE ListDirs(r)
      <4>1. Batch(Cardinality(DOMAIN tree)) \in 0..N
        BY BatchSize
      <4> QED
        BY <3>4, <4>1 DEF ListDirs, NextBatch
    <3>5. ASSUME NEW d \in DirNum, Spawn(r, d) PROVE TypeOK'
      BY <3>5 DEF Spawn
    <3>6. CASE AllSpawned(r)
      BY <3>6 DEF AllSpawned
    <3>7. CASE Receive(r)
      BY <3>7 DEF Receive
    <3>8. CASE AllReceived(r)
      <4>1. Batch(Cardinality(dirList[r])) \in 0..N
        BY BatchSize
      <4> QED
        BY <3>8, <4>1 DEF AllReceived, NextBatch
    <3>9. CASE RemoveTestDir(r)
      BY <3>9 DEF RemoveTestDir, Exit, Without
    <3>10. CASE RemoveTestDirFails(r)
      BY <3>10 DEF RemoveTestDirFails, Exit, Without
    <3> QED
      BY <2>1, <3>1, <3>2, <3>3, <3>4, <3>5, <3>6, <3>7, <3>8, <3>9, <3>10 DEF Main
  <2>2. ASSUME NEW r \in Remover, NEW d \in DirNum, Deleter(r, d) PROVE TypeOK'
    <3>1. CASE ReadDir(r, d)
      BY <3>1 DEF ReadDir
    <3>2. ASSUME NEW f \in FileIdx, RemoveFile(r, d, f) PROVE TypeOK'
      BY <3>2 DEF RemoveFile
    <3>3. ASSUME NEW f \in FileIdx, RemoveFilePanics(r, d, f) PROVE TypeOK'
      BY <3>3 DEF RemoveFilePanics, Exit
    <3>4. CASE FilesRemoved(r, d)
      BY <3>4 DEF FilesRemoved
    <3>5. CASE RemoveDir(r, d)
      BY <3>5 DEF RemoveDir, Without
    <3>6. CASE RemoveDirFails(r, d)
      BY <3>6 DEF RemoveDirFails
    <3>7. CASE SendExit(r, d)
      BY <3>7 DEF SendExit
    <3> QED
      BY <2>2, <3>1, <3>2, <3>3, <3>4, <3>5, <3>6, <3>7 DEF Deleter
  <2>3. ASSUME NEW d \in DirNum, InjectDir(d) PROVE TypeOK'
    BY <2>3 DEF InjectDir
  <2>4. ASSUME NEW d \in DirNum, NEW f \in FileIdx, InjectFile(d, f) PROVE TypeOK'
    BY <2>4 DEF InjectFile
  <2>5. CASE InjectEnds
    BY <2>5 DEF InjectEnds
  <2>6. CASE UNCHANGED vars
    BY <2>6 DEF vars
  <2> QED
    BY <2>1, <2>2, <2>3, <2>4, <2>5, <2>6 DEF Next, AllEnded
<1> QED
  BY <1>1, <1>2, PTL DEF Spec
--------------------------------------------------------------------------------
(***************************************************************************)
(* The batches of one removal.  While it starts the deleters of a batch,   *)
(* those it started are at work or have sent; while it waits, what is to   *)
(* be received is queued or will be sent by a deleter at work; at every    *)
(* other place no deleter is at work, and the next batch begins with an    *)
(* empty channel.  A directory in the list has no deleter.                 *)
(***************************************************************************)
Batching(r) ==
  /\ pc[r] = "spawn" => batch[r] = left[r] + queued[r] + Cardinality(Busy(r))
  /\ pc[r] = "wait" => left[r] = queued[r] + Cardinality(Busy(r))
  /\ pc[r] \in {"ps", "kill", "list", "last"} => queued[r] = 0
  /\ pc[r] \notin {"spawn", "wait"} => Busy(r) = {}
  /\ Busy(r) \cap dirList[r] = {}
  /\ pc[r] = "last" => dirList[r] = {}

Batches == \A r \in Remover : Batching(r)

\* The deleters at work are finitely many, in this state and in the next.
LEMMA BusyFinite ==
  ASSUME NEW r \in Remover
  PROVE  /\ IsFiniteSet(Busy(r)) /\ Cardinality(Busy(r)) \in Nat
         /\ IsFiniteSet(Busy(r)') /\ Cardinality(Busy(r)') \in Nat
         /\ (Cardinality(Busy(r)) = 0 <=> Busy(r) = {})
<1>1. Busy(r) \subseteq DirNum /\ Busy(r)' \subseteq DirNum
  BY DEF Busy
<1> QED
  BY <1>1, RemoveAssumption, FS_Subset, FS_CardinalityType, FS_EmptySet

\* What the step of a deleter does to the deleters at work: they are as many,
\* or, when it has sent its message, one less.
LEMMA DeleterMoves ==
  ASSUME TypeOK, NEW r \in Remover, NEW d \in DirNum, NEW from, NEW to,
         from # "none", JobTo(r, d, from, to)
  PROVE  /\ to # "none" => Busy(r)' = Busy(r)
         /\ to = "none" => d \in Busy(r) /\ Busy(r)' = Busy(r) \ {d}
         /\ \A s \in Remover \ {r} : Busy(s)' = Busy(s)
<1>1. \A s \in Remover, e \in DirNum : at'[s][e] = IF s = r /\ e = d THEN to ELSE at[s][e]
  BY DEF JobTo, TypeOK
<1>2. at[r][d] = from
  BY DEF JobTo
<1> QED
  BY <1>1, <1>2 DEF Busy

\* What one removal does leaves the others' batches as they were.
LEMMA OthersKeep ==
  ASSUME NEW s \in Remover, Batching(s), at'[s] = at[s], pc'[s] = pc[s],
         dirList'[s] = dirList[s], batch'[s] = batch[s], left'[s] = left[s],
         queued'[s] = queued[s]
  PROVE  Batching(s)'
<1>1. Busy(s)' = Busy(s)
  BY DEF Busy
<1> QED
  BY <1>1 DEF Batching

\* A batch that begins with no deleter at work and an empty channel is in order.
LEMMA BatchBegins ==
  ASSUME TypeOK, NEW r \in Remover, NEW ds, NEW from, ds \subseteq DirNum,
         NextBatch(r, ds, from), dirList'[r] = ds, queued'[r] = 0, Busy(r)' = {}
  PROVE  Batching(r)'
<1>1. Batch(Cardinality(ds)) \in 0..N
  BY BatchSize
<1>2. /\ pc'[r] = IF ds = {} THEN "last" ELSE "spawn"
      /\ batch'[r] = left'[r] /\ left'[r] \in 0..N
  BY <1>1 DEF NextBatch, Goto, TypeOK
<1>3. Cardinality(Busy(r)') = 0
  BY FS_EmptySet
<1>4. pc'[r] = "spawn" => batch'[r] = left'[r] + queued'[r] + Cardinality(Busy(r)')
  BY <1>2, <1>3, RemoveAssumption
<1> QED
  BY <1>2, <1>4 DEF Batching

\* Every step of a removal outside its deleters keeps the batches in order.
LEMMA MainKeeps ==
  ASSUME TypeOK, Batches, NEW r \in Remover, Main(r)
  PROVE  Batches'
<1> USE RemoveAssumption DEF mains, jobs, Goto
<1>1. Batching(r)
  BY DEF Batches
<1>2. ASSUME UNCHANGED jobs, Batching(r)',
             \A s \in Remover \ {r} :
               /\ pc'[s] = pc[s] /\ dirList'[s] = dirList[s] /\ batch'[s] = batch[s]
               /\ left'[s] = left[s] /\ queued'[s] = queued[s]
      PROVE  Batches'
  <2>1. ASSUME NEW s \in Remover \ {r} PROVE Batching(s)'
    BY <1>2, <2>1, OthersKeep DEF Batches
  <2> QED
    BY <1>2, <2>1 DEF Batches
<1> USE DEF TypeOK
<1>3. CASE UNCHANGED jobs
  <2>0. Busy(r)' = Busy(r)
    BY <1>3 DEF Busy
  <2>1. CASE Ps(r) \/ PsFails(r) \/ Kill(r) \/ KillFails(r)
    BY <1>1, <1>2, <1>3, <2>0, <2>1 DEF Ps, PsFails, Kill, KillFails, Batching
  <2>2. CASE ListDirs(r)
    <3>1. Busy(r) = {} /\ queued[r] = 0
      BY <1>1, <2>2 DEF ListDirs, NextBatch, Batching
    <3>2. Batching(r)'
      BY <2>0, <2>2, <3>1, BatchBegins DEF ListDirs
    <3> QED
      BY <1>2, <1>3, <2>2, <3>2 DEF ListDirs, NextBatch
  <2>3. CASE AllSpawned(r)
    <3>1. Batching(r)'
      BY <1>1, <2>0, <2>3, BusyFinite DEF AllSpawned, Batching
    <3> QED
      BY <1>2, <1>3, <2>3, <3>1 DEF AllSpawned
  <2>4. CASE Receive(r)
    <3>1. Batching(r)'
      BY <1>1, <2>0, <2>4, BusyFinite DEF Receive, Batching
    <3> QED
      BY <1>2, <1>3, <2>4, <3>1 DEF Receive
  <2>5. CASE AllReceived(r)
    <3>1. Busy(r) = {} /\ queued[r] = 0
      BY <1>1, <2>5, BusyFinite DEF AllReceived, NextBatch, Batching
    <3>2. Batching(r)'
      BY <2>0, <2>5, <3>1, BatchBegins DEF AllReceived
    <3> QED
      BY <1>2, <1>3, <2>5, <3>2 DEF AllReceived, NextBatch
  <2>6. ASSUME NEW d \in DirNum, Spawn(r, d) PROVE FALSE
    <3>1. at[r][d] = "none"
      BY <1>1, <2>6 DEF Spawn, IsLast, Batching, Busy
    <3> QED
      BY <1>3, <2>6, <3>1 DEF Spawn
  <2>7. CASE RemoveTestDir(r) \/ RemoveTestDirFails(r)
    BY <1>1, <1>2, <1>3, <2>0, <2>7 DEF RemoveTestDir, RemoveTestDirFails, Exit, Batching
  <2> QED
    BY <2>1, <2>2, <2>3, <2>4, <2>5, <2>6, <2>7 DEF Main
<1>4. ASSUME NEW d \in DirNum, Spawn(r, d) PROVE Batches'
  <2>1. d \in dirList[r] /\ d \notin Busy(r)
    BY <1>1, <1>4 DEF Spawn, IsLast, Batching
  <2>2. Busy(r)' = Busy(r) \cup {d}
    BY <1>4 DEF Spawn, Busy
  <2>3. Cardinality(Busy(r)') = Cardinality(Busy(r)) + 1
    BY <2>1, <2>2, BusyFinite, FS_AddElement
  <2>4. batch'[r] = left'[r] + queued'[r] + Cardinality(Busy(r)')
    BY <1>1, <1>4, <2>3, BusyFinite DEF Spawn, Batching
  <2>5. Batching(r)'
    BY <1>1, <1>4, <2>1, <2>2, <2>4 DEF Spawn, Batching
  <2>6. ASSUME NEW s \in Remover \ {r} PROVE Batching(s)'
    BY <1>4, <2>6, OthersKeep DEF Spawn, Batches
  <2> QED
    BY <2>5, <2>6 DEF Batches
<1>5. CASE RemoveTestDir(r) \/ RemoveTestDirFails(r)
  <2>1. Busy(r)' = {}
    BY <1>5 DEF RemoveTestDir, RemoveTestDirFails, Exit, Busy
  <2>2. Batching(r)'
    BY <1>1, <1>5, <2>1 DEF RemoveTestDir, RemoveTestDirFails, Exit, Batching
  <2>3. ASSUME NEW s \in Remover \ {r} PROVE Batching(s)'
    BY <1>5, <2>3, OthersKeep DEF RemoveTestDir, RemoveTestDirFails, Exit, Batches
  <2> QED
    BY <2>2, <2>3 DEF Batches
<1> QED
  BY <1>3, <1>4, <1>5
  DEF Main, Ps, PsFails, Kill, KillFails, ListDirs, NextBatch, AllSpawned, Receive, AllReceived

\* Every step of a deleter keeps the batches in order: one that ends turns
\* itself into a message.
LEMMA DeleterKeeps ==
  ASSUME TypeOK, Batches, NEW r \in Remover, NEW d \in DirNum, Deleter(r, d)
  PROVE  Batches'
<1> USE DEF mains
<1>1. Batching(r)
  BY DEF Batches
<1>2. ASSUME UNCHANGED mains, \A s \in Remover : Busy(s)' = Busy(s)
      PROVE  Batches'
  <2> SUFFICES ASSUME NEW s \in Remover PROVE Batching(s)'
    BY DEF Batches
  <2> QED
    BY <1>2 DEF Batches, Batching
<1>3. ASSUME UNCHANGED mains, NEW from, NEW to,
             from # "none", to # "none", JobTo(r, d, from, to)
      PROVE  Batches'
  BY <1>2, <1>3, DeleterMoves
<1>4. CASE ReadDir(r, d)
  BY <1>3, <1>4 DEF ReadDir
<1>5. ASSUME NEW f \in FileIdx, RemoveFile(r, d, f) PROVE Batches'
  BY <1>3, <1>5 DEF RemoveFile
<1>6. ASSUME NEW f \in FileIdx, RemoveFilePanics(r, d, f) PROVE Batches'
  <2>1. Busy(r)' = {}
    BY <1>6 DEF RemoveFilePanics, Exit, Busy, TypeOK
  <2>2. Batching(r)'
    BY <1>6, <2>1 DEF RemoveFilePanics, Exit, Goto, Batching, TypeOK
  <2>3. ASSUME NEW s \in Remover \ {r} PROVE Batching(s)'
    BY <1>6, <2>3, OthersKeep DEF RemoveFilePanics, Exit, Goto, Batches, TypeOK
  <2> QED
    BY <2>2, <2>3 DEF Batches
<1>7. CASE FilesRemoved(r, d)
  BY <1>3, <1>7 DEF FilesRemoved
<1>8. CASE RemoveDir(r, d)
  BY <1>3, <1>8 DEF RemoveDir
<1>9. CASE RemoveDirFails(r, d)
  BY <1>3, <1>9 DEF RemoveDirFails
<1>10. CASE SendExit(r, d)
  <2>1. /\ d \in Busy(r) /\ Busy(r)' = Busy(r) \ {d}
        /\ \A s \in Remover \ {r} : Busy(s)' = Busy(s)
    BY <1>10, DeleterMoves DEF SendExit
  <2>2. Cardinality(Busy(r)') = Cardinality(Busy(r)) - 1
    BY <2>1, BusyFinite, FS_RemoveElement
  <2>3. queued'[r] = queued[r] + 1
    BY <1>10 DEF SendExit, TypeOK
  <2>4. queued[r] \in Nat /\ left[r] \in Nat /\ batch[r] \in Nat
    BY DEF TypeOK
  <2>5. queued'[r] + Cardinality(Busy(r)') = queued[r] + Cardinality(Busy(r))
    BY <2>2, <2>3, <2>4, BusyFinite
  <2>6. /\ pc[r] = "spawn" => batch[r] = left[r] + queued'[r] + Cardinality(Busy(r)')
        /\ pc[r] = "wait" => left[r] = queued'[r] + Cardinality(Busy(r)')
    BY <1>1, <2>2, <2>3, <2>4, <2>5, BusyFinite DEF Batching
  <2>7. pc[r] \in {"spawn", "wait"}
    BY <1>1, <2>1 DEF Batching
  <2>8. UNCHANGED <<pc, dirList, batch, left>>
    BY <1>10 DEF SendExit
  <2>9. Batching(r)'
    BY <1>1, <2>1, <2>6, <2>7, <2>8 DEF Batching
  <2>10. ASSUME NEW s \in Remover \ {r} PROVE Batching(s)'
    <3>1. queued'[s] = queued[s]
      BY <1>10, <2>10 DEF SendExit, TypeOK
    <3> QED
      BY <2>1, <2>8, <2>10, <3>1 DEF Batches, Batching
  <2> QED
    BY <2>9, <2>10 DEF Batches
<1> QED
  BY <1>4, <1>5, <1>6, <1>7, <1>8, <1>9, <1>10 DEF Deleter

\* The batches stay in order, whatever other removals and the injection do.
THEOREM BatchesInOrder == Spec => []Batches
<1>1. Init => Batches
  <2> SUFFICES ASSUME Init, NEW r \in Remover PROVE Batching(r)
    BY DEF Batches
  <2> QED
    BY DEF Init, Batching, Busy
<1>2. TypeOK /\ Batches /\ [Next]_vars => Batches'
  <2> SUFFICES ASSUME TypeOK, Batches, [Next]_vars PROVE Batches'
    OBVIOUS
  <2>1. ASSUME UNCHANGED <<mains, jobs>> PROVE Batches'
    BY <2>1, OthersKeep DEF Batches, mains, jobs
  <2>2. ASSUME NEW r \in Remover, Main(r) PROVE Batches'
    BY <2>2, MainKeeps
  <2>3. ASSUME NEW r \in Remover, NEW d \in DirNum, Deleter(r, d) PROVE Batches'
    BY <2>3, DeleterKeeps
  <2>4. ASSUME NEW d \in DirNum, InjectDir(d) PROVE Batches'
    BY <2>1, <2>4 DEF InjectDir
  <2>5. ASSUME NEW d \in DirNum, NEW f \in FileIdx, InjectFile(d, f) PROVE Batches'
    BY <2>1, <2>5 DEF InjectFile
  <2>6. CASE InjectEnds
    BY <2>1, <2>6 DEF InjectEnds
  <2>7. CASE UNCHANGED vars
    BY <2>1, <2>7 DEF vars
  <2> QED
    BY <2>2, <2>3, <2>4, <2>5, <2>6, <2>7 DEF Next, AllEnded
<1> QED
  BY <1>1, <1>2, TypeCorrect, PTL DEF Spec

\* No batch waits for a message that nobody sends, nor leaves one behind.
THEOREM BatchBarrierHolds == Spec => []BatchBarrier
<1>1. Batches => BatchBarrier
  BY DEF Batches, Batching, BatchBarrier
<1> QED
  BY <1>1, BatchesInOrder, PTL

\* A removal never has more than N deleters at work, and before its last step
\* it has none and no directory left to give to one.
THEOREM DeletersLimited == Spec => []DeleterLimit
<1>1. TypeOK /\ Batches => DeleterLimit
  <2> SUFFICES ASSUME TypeOK, Batches, NEW r \in Remover
               PROVE  /\ Cardinality(Busy(r)) <= N
                      /\ pc[r] = "last" => Busy(r) = {} /\ dirList[r] = {}
    BY DEF DeleterLimit
  <2>1. Batching(r)
    BY DEF Batches
  <2>2. /\ batch[r] \in Nat /\ batch[r] <= N
        /\ left[r] \in Nat /\ left[r] <= N /\ queued[r] \in Nat
    BY RemoveAssumption DEF TypeOK
  <2>3. Cardinality(Busy(r)) <= N
    <3>1. CASE pc[r] = "spawn"
      BY <2>1, <2>2, <3>1, BusyFinite, RemoveAssumption DEF Batching
    <3>2. CASE pc[r] = "wait"
      BY <2>1, <2>2, <3>2, BusyFinite, RemoveAssumption DEF Batching
    <3>3. CASE pc[r] \notin {"spawn", "wait"}
      BY <2>1, <3>3, BusyFinite, RemoveAssumption DEF Batching
    <3> QED
      BY <3>1, <3>2, <3>3
  <2> QED
    BY <2>1, <2>3 DEF Batching
<1> QED
  BY <1>1, TypeCorrect, BatchesInOrder, PTL
--------------------------------------------------------------------------------
(***************************************************************************)
(* What removals do to each other.  A removal reads a file it is about to  *)
(* remove in a directory, and the file is there when it comes to it, as    *)
(* long as no other removal has listed the directories; only a deleter     *)
(* that removes files has any to remove.                                   *)
(***************************************************************************)
Early == {"ps", "kill", "list", "refused"}
Alone(r) == \A s \in Remover \ {r} : pc[s] \in Early

Reading ==
  \A r \in Remover, d \in DirNum :
    fileList[r][d] # {} => at[r][d] = "remove"
Theirs ==
  \A r \in Remover, d \in DirNum :
    Alone(r) => \A f \in fileList[r][d] : d \in DOMAIN tree /\ f \in tree[d]
Panics == \A r \in Remover : pc[r] = "panicked" => ~Alone(r)

\* A removal that has listed the directories never comes back to before it.
LEMMA LateForEver ==
  ASSUME TypeOK, [Next]_vars, NEW s \in Remover, pc'[s] \in Early
  PROVE  pc[s] \in Early
<1> USE DEF TypeOK, Early, Ended, disk, mains, jobs, Goto, JobTo
<1>1. ASSUME NEW r \in Remover, Main(r) PROVE pc[s] \in Early
  BY <1>1 DEF Main, Ps, PsFails, Kill, KillFails, ListDirs, NextBatch, Spawn, AllSpawned,
       Receive, AllReceived, RemoveTestDir, RemoveTestDirFails, Exit
<1>2. ASSUME NEW r \in Remover, NEW d \in DirNum, Deleter(r, d) PROVE pc[s] \in Early
  BY <1>2 DEF Deleter, ReadDir, RemoveFile, RemoveFilePanics, Exit, FilesRemoved,
       RemoveDir, RemoveDirFails, SendExit
<1>3. CASE UNCHANGED vars
  BY <1>3 DEF vars
<1> QED
  BY <1>1, <1>2, <1>3 DEF Next, InjectDir, InjectFile, InjectEnds, AllEnded

LEMMA AloneBefore ==
  ASSUME TypeOK, [Next]_vars, NEW r \in Remover, Alone(r)'
  PROVE  Alone(r)
BY LateForEver DEF Alone

\* Only a deleter that removes files has any, after every step.
LEMMA ReadingKept == TypeOK /\ Batches /\ Reading /\ [Next]_vars => Reading'
<1> SUFFICES ASSUME TypeOK, Batches, Reading, [Next]_vars PROVE Reading'
  OBVIOUS
<1> USE DEF TypeOK, Reading, disk, mains, jobs, JobTo
<1>1. ASSUME UNCHANGED jobs PROVE Reading'
  BY <1>1
<1>2. ASSUME NEW r \in Remover, NEW from, NEW how, Exit(r, from, how) PROVE Reading'
  BY <1>2 DEF Exit
<1>3. ASSUME NEW r \in Remover, Main(r) PROVE Reading'
  <2>1. ASSUME NEW d \in DirNum, Spawn(r, d) PROVE Reading'
    <3>1. at[r][d] = "none"
      BY <2>1 DEF Spawn, IsLast, Batches, Batching, Busy
    <3>2. fileList[r][d] = {}
      BY <3>1
    <3> QED
      BY <2>1, <3>2 DEF Spawn
  <2> QED
    BY <1>1, <1>2, <1>3, <2>1 DEF Main, Ps, PsFails, Kill, KillFails, ListDirs, AllSpawned,
       Receive, AllReceived, RemoveTestDir, RemoveTestDirFails
<1>4. ASSUME NEW r \in Remover, NEW d \in DirNum, Deleter(r, d) PROVE Reading'
  <2>1. ASSUME NEW f \in FileIdx, RemoveFile(r, d, f) PROVE Reading'
    <3>1. at'[r][d] = "remove"
      BY <2>1 DEF RemoveFile
    <3>2. \A s \in Remover, e \in DirNum :
            s # r \/ e # d => at'[s][e] = at[s][e] /\ fileList'[s][e] = fileList[s][e]
      BY <2>1 DEF RemoveFile
    <3> QED
      BY <3>1, <3>2
  <2>2. ASSUME NEW f \in FileIdx, RemoveFilePanics(r, d, f) PROVE Reading'
    BY <1>2, <2>2 DEF RemoveFilePanics
  <2>3. CASE ReadDir(r, d)
    BY <2>3 DEF ReadDir
  <2>4. CASE FilesRemoved(r, d)
    BY <2>4 DEF FilesRemoved
  <2>5. CASE RemoveDir(r, d) \/ RemoveDirFails(r, d) \/ SendExit(r, d)
    <3>1. fileList[r][d] = {} /\ fileList' = fileList
      BY <2>5 DEF RemoveDir, RemoveDirFails, SendExit
    <3>2. \A s \in Remover, e \in DirNum : s # r \/ e # d => at'[s][e] = at[s][e]
      BY <2>5 DEF RemoveDir, RemoveDirFails, SendExit
    <3>3. ASSUME NEW s \in Remover, NEW e \in DirNum, fileList'[s][e] # {}
          PROVE  at'[s][e] = "remove"
      <4>1. (s # r \/ e # d) /\ at[s][e] = "remove"
        BY <3>1, <3>3
      <4> QED
        BY <3>2, <4>1
    <3> QED
      BY <3>3
  <2> QED
    BY <1>4, <2>1, <2>2, <2>3, <2>4, <2>5 DEF Deleter
<1> QED
  BY <1>1, <1>3, <1>4 DEF Next, InjectDir, InjectFile, InjectEnds, AllEnded, vars

\* The files a removal is about to remove stay there as long as it is alone:
\* the injection only adds, and a removal takes none from itself.
LEMMA TheirsKept ==
  TypeOK /\ Batches /\ Reading /\ Theirs /\ [Next]_vars => Theirs'
<1> SUFFICES ASSUME TypeOK, Batches, Reading, Theirs, [Next]_vars,
                    NEW r \in Remover, NEW d \in DirNum, Alone(r)',
                    NEW f \in fileList'[r][d]
             PROVE  d \in DOMAIN tree' /\ f \in tree'[d]
  BY DEF Theirs
<1> USE DEF TypeOK, disk, mains, jobs, JobTo
<1>1. Alone(r)
  BY AloneBefore
<1>2. \A g \in fileList[r][d] : d \in DOMAIN tree /\ g \in tree[d]
  BY <1>1 DEF Theirs
<1>3. \A s \in Remover \ {r} : pc[s] \in Early /\ Busy(s) = {}
  BY <1>1 DEF Alone, Early, Batches, Batching
<1>4. CASE tree' = tree /\ fileList'[r][d] = fileList[r][d]
  BY <1>2, <1>4
<1>5. ASSUME NEW s \in Remover \ {r}, Main(s) PROVE tree' = tree /\ fileList' = fileList
  BY <1>3, <1>5 DEF Early, Goto, Main, Ps, PsFails, Kill, KillFails, ListDirs, NextBatch, Spawn,
     AllSpawned, Receive, AllReceived, RemoveTestDir, RemoveTestDirFails, Exit
<1>6. ASSUME NEW s \in Remover \ {r}, NEW e \in DirNum, Deleter(s, e) PROVE FALSE
  BY <1>3, <1>6 DEF Busy, Deleter, ReadDir, RemoveFile, RemoveFilePanics, FilesRemoved,
     RemoveDir, RemoveDirFails, SendExit
<1>7. CASE Main(r)
  <2>1. CASE RemoveTestDir(r) \/ RemoveTestDirFails(r)
    BY <2>1 DEF RemoveTestDir, RemoveTestDirFails, Exit
  <2> QED
    BY <1>4, <1>7, <2>1 DEF Main, Ps, PsFails, Kill, KillFails, ListDirs, NextBatch, Spawn,
       AllSpawned, Receive, AllReceived
<1>8. ASSUME NEW e \in DirNum, Deleter(r, e) PROVE d \in DOMAIN tree' /\ f \in tree'[d]
  <2>1. CASE ReadDir(r, e)
    BY <1>2, <2>1 DEF ReadDir
  <2>2. ASSUME NEW g \in FileIdx, RemoveFile(r, e, g)
        PROVE  d \in DOMAIN tree' /\ f \in tree'[d]
    BY <1>2, <2>2 DEF RemoveFile
  <2>3. ASSUME NEW g \in FileIdx, RemoveFilePanics(r, e, g) PROVE FALSE
    BY <2>3 DEF RemoveFilePanics, Exit
  <2>4. CASE FilesRemoved(r, e) \/ SendExit(r, e)
    BY <1>4, <2>4 DEF FilesRemoved, SendExit
  <2>5. CASE RemoveDir(r, e) \/ RemoveDirFails(r, e)
    <3>1. fileList' = fileList /\ e # d
      BY <2>5 DEF RemoveDir, RemoveDirFails, Reading
    <3> QED
      BY <1>2, <2>5, <3>1 DEF RemoveDir, RemoveDirFails, Without
  <2> QED
    BY <1>8, <2>1, <2>2, <2>3, <2>4, <2>5 DEF Deleter
<1>9. ASSUME NEW e \in DirNum, InjectDir(e) PROVE d \in DOMAIN tree' /\ f \in tree'[d]
  BY <1>2, <1>9 DEF InjectDir
<1>10. ASSUME NEW e \in DirNum, NEW g \in FileIdx, InjectFile(e, g)
       PROVE  d \in DOMAIN tree' /\ f \in tree'[d]
  BY <1>2, <1>10 DEF InjectFile
<1>11. CASE InjectEnds \/ AllEnded \/ UNCHANGED vars
  BY <1>4, <1>11 DEF InjectEnds, AllEnded, vars
<1> QED
  BY <1>4, <1>5, <1>6, <1>7, <1>8, <1>9, <1>10, <1>11 DEF Next

\* A removal that panicked was not alone, and never will be.
LEMMA PanicsKept == TypeOK /\ Theirs /\ Panics /\ [Next]_vars => Panics'
<1> SUFFICES ASSUME TypeOK, Theirs, Panics, [Next]_vars,
                    NEW r \in Remover, Alone(r)'
             PROVE  pc'[r] # "panicked"
  BY DEF Panics
<1> USE DEF TypeOK, Ended, disk, mains, jobs, Goto, JobTo
<1>1. Alone(r) /\ pc[r] # "panicked"
  BY AloneBefore DEF Panics
<1>2. ASSUME NEW s \in Remover, Main(s) PROVE pc'[r] # "panicked"
  BY <1>1, <1>2 DEF Main, Ps, PsFails, Kill, KillFails, ListDirs, NextBatch, Spawn, AllSpawned,
     Receive, AllReceived, RemoveTestDir, RemoveTestDirFails, Exit
<1>3. ASSUME NEW s \in Remover, NEW d \in DirNum, Deleter(s, d)
      PROVE  pc'[r] # "panicked"
  <2>1. ASSUME NEW f \in FileIdx, RemoveFilePanics(s, d, f) PROVE s # r
    BY <1>1, <2>1 DEF RemoveFilePanics, IsFirst, Theirs
  <2>2. ASSUME NEW f \in FileIdx, RemoveFilePanics(s, d, f) PROVE pc'[r] = pc[r]
    BY <2>1, <2>2 DEF RemoveFilePanics, Exit
  <2> QED
    BY <1>1, <1>3, <2>2 DEF Deleter, ReadDir, RemoveFile, FilesRemoved,
       RemoveDir, RemoveDirFails, SendExit
<1> QED
  BY <1>1, <1>2, <1>3 DEF Next, InjectDir, InjectFile, InjectEnds, AllEnded, vars

\* deleteFIle meets a file that is gone only when another removal has come to
\* its deletions, in every order of their steps.
THEOREM PanicTakesTwoHolds == Spec => []PanicTakesTwo
<1>1. Init => Reading /\ Theirs /\ Panics
  BY DEF Init, Reading, Theirs, Panics
<1>2. TypeOK /\ Batches /\ Reading /\ Theirs /\ Panics /\ [Next]_vars
        => Reading' /\ Theirs' /\ Panics'
  BY ReadingKept, TheirsKept, PanicsKept
<1>3. Panics => PanicTakesTwo
  BY DEF Panics, Alone, Early, PanicTakesTwo
<1> QED
  BY <1>1, <1>2, <1>3, TypeCorrect, BatchesInOrder, PTL DEF Spec
--------------------------------------------------------------------------------
(***************************************************************************)
(* What the batches leave.  A removal that listed the directories when the *)
(* injection had gone has every directory there still is in its list or    *)
(* with a deleter that has not come to its RemoveAll.                      *)
(***************************************************************************)
Covered(r, d) ==
  d \in dirList[r] \/ at[r][d] \in {"read", "remove", "removeAll"}
Coverage ==
  \A r \in Remover :
    quiet[r] =>
      /\ injecting = "no"
      /\ pc[r] \in {"spawn", "wait", "last"} => \A d \in DOMAIN tree : Covered(r, d)

\* Only a deleter, or the last step of a removal, takes a directory out of what
\* a removal still has to delete, and then it is gone.
LEMMA CoverageKept == TypeOK /\ Coverage /\ [Next]_vars => Coverage'
<1> SUFFICES ASSUME TypeOK, Coverage, [Next]_vars PROVE Coverage'
  OBVIOUS
<1> USE DEF TypeOK, Ended, disk, mains, jobs, Goto, JobTo
\* Steps that add no directory, and neither list, take nor delete one.
<1>1. ASSUME DOMAIN tree' \subseteq DOMAIN tree, UNCHANGED quiet,
             injecting = "no" => injecting' = "no",
             \A r \in Remover :
               pc'[r] \in {"spawn", "wait", "last"} =>
                 /\ pc[r] \in {"spawn", "wait", "last"}
                 /\ \A d \in DOMAIN tree' : Covered(r, d) => Covered(r, d)'
      PROVE  Coverage'
  BY <1>1 DEF Coverage
<1> HIDE DEF Coverage
<1>2. ASSUME NEW r \in Remover, Main(r) PROVE Coverage'
  <2>1. CASE ListDirs(r)
    <3>1. /\ tree' = tree /\ injecting' = injecting /\ at' = at
          /\ dirList'[r] = DOMAIN tree /\ quiet'[r] = (injecting = "no")
      BY <2>1 DEF ListDirs
    <3>2. \A s \in Remover \ {r} :
            pc'[s] = pc[s] /\ dirList'[s] = dirList[s] /\ quiet'[s] = quiet[s]
      BY <2>1 DEF ListDirs, NextBatch
    <3> QED
      BY <3>1, <3>2 DEF Coverage, Covered
  <2>2. ASSUME NEW d \in DirNum, Spawn(r, d) PROVE Coverage'
    BY <1>1, <2>2 DEF Spawn, Covered
  <2>3. CASE Ps(r) \/ PsFails(r) \/ Kill(r) \/ KillFails(r)
    BY <1>1, <2>3 DEF Ps, PsFails, Kill, KillFails, Signalled, Covered
  <2>4. CASE AllSpawned(r) \/ Receive(r)
    BY <1>1, <2>4 DEF AllSpawned, Receive, Covered
  <2>5. CASE AllReceived(r)
    BY <1>1, <2>5 DEF AllReceived, NextBatch, Covered
  <2>6. CASE RemoveTestDir(r) \/ RemoveTestDirFails(r)
    <3>1. /\ DOMAIN tree' \subseteq DOMAIN tree
          /\ UNCHANGED <<dirList, quiet, injecting>> /\ pc'[r] \in Ended
          /\ \A s \in Remover \ {r} : pc'[s] = pc[s] /\ at'[s] = at[s]
      BY <2>6 DEF RemoveTestDir, RemoveTestDirFails, Exit, Without
    <3> QED
      BY <1>1, <3>1 DEF Covered
  <2> QED
    BY <1>2, <2>1, <2>2, <2>3, <2>4, <2>5, <2>6 DEF Main
<1>3. ASSUME NEW r \in Remover, NEW d \in DirNum, Deleter(r, d) PROVE Coverage'
  <2>1. ASSUME NEW f \in FileIdx, RemoveFile(r, d, f) PROVE Coverage'
    BY <1>1, <2>1 DEF RemoveFile, Covered
  <2>2. ASSUME NEW f \in FileIdx, RemoveFilePanics(r, d, f) PROVE Coverage'
    BY <1>1, <2>2 DEF RemoveFilePanics, Exit, Covered
  <2>3. CASE ReadDir(r, d) \/ FilesRemoved(r, d)
    BY <1>1, <2>3 DEF ReadDir, FilesRemoved, Covered
  <2>4. CASE RemoveDir(r, d)
    BY <1>1, <2>4 DEF RemoveDir, Without, Covered
  <2>5. CASE RemoveDirFails(r, d)
    <3>1. \A s \in Remover : ~quiet'[s]
      BY <2>5 DEF RemoveDirFails, Coverage
    <3> QED
      BY <3>1 DEF Coverage
  <2>6. CASE SendExit(r, d)
    BY <1>1, <2>6 DEF SendExit, Covered
  <2> QED
    BY <1>3, <2>1, <2>2, <2>3, <2>4, <2>5, <2>6 DEF Deleter
<1>4. ASSUME NEW d \in DirNum, InjectDir(d) PROVE Coverage'
  BY <1>4 DEF InjectDir, Coverage
<1>5. ASSUME NEW d \in DirNum, NEW f \in FileIdx, InjectFile(d, f) PROVE Coverage'
  BY <1>1, <1>5 DEF InjectFile, Covered
<1>6. CASE InjectEnds \/ AllEnded \/ UNCHANGED vars
  BY <1>1, <1>6 DEF InjectEnds, AllEnded, vars, Covered
<1> QED
  BY <1>2, <1>3, <1>4, <1>5, <1>6 DEF Next

\* The batches of a removal that had no injection to fear delete every directory
\* before its last step, for any size of a batch, whatever other removals do.
THEOREM BatchesClearHolds == Spec => []BatchesClear
<1>1. Init => Coverage
  BY DEF Init, Coverage
<1>2. TypeOK /\ Batches /\ Coverage => BatchesClear
  <2> SUFFICES ASSUME TypeOK, Batches, Coverage, NEW r \in Remover, quiet[r], pc[r] = "last",
                      NEW d \in DOMAIN tree
               PROVE  FALSE
    BY DEF BatchesClear
  <2>1. Covered(r, d)
    BY DEF Coverage
  <2>2. Busy(r) = {} /\ dirList[r] = {}
    BY DEF Batches, Batching
  <2>3. at[r][d] = "none"
    BY <2>2 DEF Busy, TypeOK
  <2> QED
    BY <2>1, <2>2, <2>3 DEF Covered
<1> QED
  BY <1>1, <1>2, CoverageKept, TypeCorrect, BatchesInOrder, PTL DEF Spec
================================================================================

--------------------------- MODULE InodeInjectProofs ---------------------------
(***************************************************************************)
(* What holds of InodeInject for every number of goroutines, capacity,     *)
(* directory size and mount point.  Each result is an invariant with a     *)
(* strengthening of its own; all of them rest on the typing.               *)
(***************************************************************************)
EXTENDS InodeInject, TLAPS, FiniteSetTheorems

\* The variables keep their types in every run of every instance: the queue
\* never holds more than its capacity, no count goes below zero.
THEOREM TypeCorrect == Spec => []TypeOK
<1>1. Init => TypeOK
  BY InodeAssumption DEF Init, TypeOK, Phase, FileIdx
<1>2. TypeOK /\ [Next]_vars => TypeOK'
  <2> SUFFICES ASSUME TypeOK, [Next]_vars PROVE TypeOK'
    OBVIOUS
  <2> USE InodeAssumption DEF TypeOK, Phase, FileIdx, mainVars, numVars, fillVars, diskVars
  <2>1. CASE MakeTestDir
    <3>1. testDir' \in BOOLEAN
      BY <2>1, Zenon DEF MakeTestDir
    <3>2. inode' \in Nat /\ block' \in Nat
      BY <2>1 DEF MakeTestDir
    <3>3. main' \in {"spawn", "failed"} /\ left' \in 0..N
      BY <2>1 DEF MakeTestDir
    <3> QED
      BY <2>1, <3>1, <3>2, <3>3 DEF MakeTestDir
  <2>2. CASE AllSpawned
    BY <2>2 DEF AllSpawned
  <2>3. CASE Receive
    BY <2>3 DEF Receive
  <2>4. CASE AllReceived
    BY <2>4 DEF AllReceived
  <2>5. CASE CheckInodes
    BY <2>5 DEF CheckInodes
  <2>6. ASSUME NEW r \in Routine, Spawn(r) PROVE TypeOK'
    BY <2>6 DEF Spawn, Step
  <2>7. ASSUME NEW r \in Routine, RoutineStep(r) PROVE TypeOK'
    <3>1. CASE Lock(r)
      BY <3>1 DEF Lock, Step
    <3>2. CASE Bump(r)
      BY <3>2 DEF Bump, Step
    <3>3. CASE Take(r)
      BY <3>3 DEF Take, Step
    <3>4. CASE MkdirMakes(r)
      BY <3>4 DEF MkdirMakes, Step
    <3>5. CASE MkdirExists(r)
      BY <3>5 DEF MkdirExists, Step
    <3>6. CASE MkdirNoSpace(r)
      BY <3>6 DEF MkdirNoSpace, Step
    <3>7. CASE SendFull(r)
      BY <3>7 DEF SendFull, Step
    <3>8. CASE CreateOpens(r)
      <4>1. idx[r] \in 0..(FilesPerDir - 1)
        BY <3>8 DEF CreateOpens
      <4>2. /\ DOMAIN tree' \subseteq Nat
            /\ \A d \in DOMAIN tree' : tree'[d] \subseteq FileIdx
        BY <3>8, <4>1 DEF CreateOpens
      <4>3. inode' \in Nat
        BY <3>8 DEF CreateOpens
      <4> QED
        BY <3>8, <4>1, <4>2, <4>3 DEF CreateOpens, Step
    <3>9. CASE CreateSkips(r)
      BY <3>9 DEF CreateSkips, Step
    <3>10. CASE CreateNoSpace(r)
      BY <3>10 DEF CreateNoSpace, Step
    <3>11. CASE SendBreak(r)
      BY <3>11 DEF SendBreak, Step
    <3>12. CASE LoopEnds(r)
      BY <3>12 DEF LoopEnds, Step
    <3>13. CASE SendExit(r)
      BY <3>13 DEF SendExit, Step
    <3>14. CASE Return(r)
      BY <3>14 DEF Return, Step
    <3> QED
      BY <2>7, <3>1, <3>2, <3>3, <3>4, <3>5, <3>6, <3>7, <3>8, <3>9, <3>10,
         <3>11, <3>12, <3>13, <3>14 DEF RoutineStep
  <2>8. CASE OtherReleases
    BY <2>8 DEF OtherReleases
  <2>9. CASE UNCHANGED vars
    BY <2>9 DEF vars
  <2> QED
    BY <2>1, <2>2, <2>3, <2>4, <2>5, <2>6, <2>7, <2>8, <2>9
    DEF Next, MainStep, AtBound, Exited
<1> QED
  BY <1>1, <1>2, PTL DEF Spec
--------------------------------------------------------------------------------
(***************************************************************************)
(* The barrier.  While main starts goroutines, those it started minus the  *)
(* messages queued are at most those that still owe one; this is what is   *)
(* left of the promise when some goroutine sends more than one message.    *)
(***************************************************************************)
Counting ==
  /\ main = "spawn" => N - left <= queued + Cardinality(Owing)
  /\ main = "wait" => left <= queued + Cardinality(Owing)

\* How one goroutine's step changes the set of those that owe a message.
LEMMA OwingMoves ==
  ASSUME TypeOK, NEW r \in Routine, NEW from \in Phase, NEW to \in Phase,
         Step(r, from, to)
  PROVE  /\ from \notin {"free", "return"} /\ to \notin {"free", "return"}
              => Owing' = Owing
         /\ from \in {"free", "return"} /\ to \in {"free", "return"}
              => Owing' = Owing
         /\ from \in {"free", "return"} /\ to \notin {"free", "return"}
              => Owing' = Owing \cup {r} /\ r \notin Owing
         /\ from \notin {"free", "return"} /\ to \in {"free", "return"}
              => Owing' = Owing \ {r} /\ r \in Owing
<1>1. \A s \in Routine : pc'[s] = IF s = r THEN to ELSE pc[s]
  BY DEF Step, TypeOK
<1>2. pc[r] = from
  BY DEF Step
<1> QED
  BY <1>1, <1>2 DEF Owing

\* Those that owe a message are finitely many, in this state and in the next.
LEMMA OwingFinite ==
  /\ IsFiniteSet(Owing) /\ Cardinality(Owing) \in Nat
  /\ IsFiniteSet(Owing') /\ Cardinality(Owing') \in Nat
<1>1. Owing \subseteq Routine /\ Owing' \subseteq Routine
  BY DEF Owing
<1> QED
  BY <1>1, InodeAssumption, FS_Subset, FS_CardinalityType

\* What a goroutine's step does to the number of those that owe a message and
\* to the queue: it starts, it reports a full disk, it ends, or neither moves.
LEMMA RoutineEffect ==
  ASSUME TypeOK, NEW r \in Routine, RoutineStep(r)
  PROVE  /\ main' = main /\ left' = left
         /\ \/ queued' = queued /\ Owing' = Owing
            \/ /\ queued' = queued + 1 /\ Owing' = Owing
               /\ pc[r] \in {"sendFull", "sendBreak"}
            \/ /\ queued' = queued + 1
               /\ Cardinality(Owing') = Cardinality(Owing) - 1
<1>1. main' = main /\ left' = left
  BY DEF RoutineStep, Lock, Bump, Take, MkdirMakes, MkdirExists, MkdirNoSpace,
         SendFull, CreateOpens, CreateSkips, CreateNoSpace, SendBreak, LoopEnds,
         SendExit, Return, mainVars
<1>2. CASE SendExit(r)
  <2>1. Owing' = Owing \ {r} /\ r \in Owing
    BY <1>2, OwingMoves DEF SendExit, Phase
  <2>2. Cardinality(Owing') = Cardinality(Owing) - 1
    BY <2>1, OwingFinite, FS_RemoveElement
  <2> QED
    BY <1>1, <1>2, <2>2 DEF SendExit
<1>3. CASE SendFull(r)
  BY <1>1, <1>3, OwingMoves DEF SendFull, Phase, Step
<1>4. CASE SendBreak(r)
  BY <1>1, <1>4, OwingMoves DEF SendBreak, Phase, Step
<1>5. CASE Lock(r)
  BY <1>1, <1>5, OwingMoves DEF Lock, Phase, mainVars
<1>6. CASE Bump(r)
  BY <1>1, <1>6, OwingMoves DEF Bump, Phase, mainVars
<1>7. CASE Take(r)
  BY <1>1, <1>7, OwingMoves DEF Take, Phase, mainVars
<1>8. CASE MkdirMakes(r)
  BY <1>1, <1>8, OwingMoves DEF MkdirMakes, Phase, mainVars
<1>9. CASE MkdirExists(r)
  BY <1>1, <1>9, OwingMoves DEF MkdirExists, Phase, mainVars
<1>10. CASE MkdirNoSpace(r)
  BY <1>1, <1>10, OwingMoves DEF MkdirNoSpace, Phase, mainVars
<1>11. CASE CreateOpens(r)
  BY <1>1, <1>11, OwingMoves DEF CreateOpens, Phase, mainVars
<1>12. CASE CreateSkips(r)
  BY <1>1, <1>12, OwingMoves DEF CreateSkips, Phase, mainVars
<1>13. CASE CreateNoSpace(r)
  BY <1>1, <1>13, OwingMoves DEF CreateNoSpace, Phase, mainVars
<1>14. CASE LoopEnds(r)
  BY <1>1, <1>14, OwingMoves DEF LoopEnds, Phase, mainVars
<1>15. CASE Return(r)
  BY <1>1, <1>15, OwingMoves DEF Return, Phase, mainVars
<1> QED
  BY <1>2, <1>3, <1>4, <1>5, <1>6, <1>7, <1>8, <1>9, <1>10, <1>11, <1>12,
     <1>13, <1>14, <1>15 DEF RoutineStep

\* A goroutine that is started owes one message more.
LEMMA SpawnEffect ==
  ASSUME TypeOK, NEW r \in Routine, Spawn(r)
  PROVE  /\ main = "spawn" /\ main' = "spawn"
         /\ left' = left - 1 /\ queued' = queued
         /\ Cardinality(Owing') = Cardinality(Owing) + 1
<1>1. Owing' = Owing \cup {r} /\ r \notin Owing
  BY OwingMoves DEF Spawn, Phase
<1>2. Cardinality(Owing') = Cardinality(Owing) + 1
  BY <1>1, OwingFinite, FS_AddElement
<1> QED
  BY <1>2 DEF Spawn

\* No round of FaultInject waits on exitChan for a message that nobody will
\* send, for any number of goroutines and any way of their ending.
THEOREM BarrierHolds == Spec => []Barrier
<1>1. Init => Counting
  BY DEF Init, Counting
<1>2. TypeOK /\ Counting /\ [Next]_vars => Counting'
  <2> SUFFICES ASSUME TypeOK, Counting, [Next]_vars PROVE Counting'
    OBVIOUS
  <2>0. /\ N \in Nat /\ left \in Int /\ queued \in Int
        /\ Cardinality(Owing) \in Nat /\ Cardinality(Owing') \in Nat
    BY OwingFinite, InodeAssumption DEF TypeOK
  <2>1. CASE MakeTestDir
    BY <2>0, <2>1 DEF MakeTestDir, Counting, TypeOK
  <2>2. CASE AllSpawned
    BY <2>0, <2>2 DEF AllSpawned, Counting, Owing
  <2>3. CASE Receive
    BY <2>0, <2>3 DEF Receive, Counting, Owing
  <2>4. CASE AllReceived
    BY <2>0, <2>4 DEF AllReceived, Counting
  <2>5. CASE CheckInodes
    BY <2>0, <2>5 DEF CheckInodes, Counting, TypeOK
  <2>6. ASSUME NEW r \in Routine, Spawn(r) PROVE Counting'
    BY <2>0, <2>6, SpawnEffect DEF Counting
  <2>7. ASSUME NEW r \in Routine, RoutineStep(r) PROVE Counting'
    BY <2>0, <2>7, RoutineEffect DEF Counting
  <2>8. CASE OtherReleases
    BY <2>8 DEF OtherReleases, mainVars, Counting, Owing
  <2>9. CASE UNCHANGED vars
    BY <2>9 DEF vars, mainVars, Counting, Owing
  <2> QED
    BY <2>1, <2>2, <2>3, <2>4, <2>5, <2>6, <2>7, <2>8, <2>9
    DEF Next, MainStep, AtBound, Exited
<1>3. Counting => Barrier
  BY DEF Counting, Barrier
<1> QED
  BY <1>1, <1>2, <1>3, TypeCorrect, PTL DEF Spec
--------------------------------------------------------------------------------
(***************************************************************************)
(* The directory numbers.  Who is between the increment and the read holds *)
(* the mutex, every number in use is at most the counter, and is below it  *)
(* while somebody has incremented it and not yet read it.                  *)
(***************************************************************************)
Mutex ==
  /\ \A r \in Routine : pc[r] \in {"bump", "take"} => holder = r
  /\ \A s \in Routine : pc[s] \in Numbered => mine[s] <= numOfDir
  /\ \A r, s \in Routine :
       pc[r] = "take" /\ pc[s] \in Numbered => mine[s] < numOfDir

\* A step of one goroutine that neither takes the mutex nor a number: it stays
\* among those with a number, or leaves them.
LEMMA NumbersKept ==
  ASSUME TypeOK, Mutex, DistinctDirs, NEW r \in Routine,
         \A s \in Routine \ {r} : pc'[s] = pc[s] /\ mine'[s] = mine[s],
         \/ pc[r] \in Numbered /\ pc'[r] \in Numbered /\ mine'[r] = mine[r]
         \/ pc'[r] \in {"free", "lock", "return"},
         numOfDir' = numOfDir, holder' = holder
  PROVE  Mutex' /\ DistinctDirs'
BY DEF Mutex, DistinctDirs, Numbered, TypeOK, Phase

\* Who holds the mutex, and what that says of the numbers.
THEOREM MutexHolds == Spec => [](Mutex /\ DistinctDirs)
<1>1. Init => Mutex /\ DistinctDirs
  BY DEF Init, Mutex, DistinctDirs, Numbered
<1>2. TypeOK /\ Mutex /\ DistinctDirs /\ [Next]_vars => (Mutex /\ DistinctDirs)'
  <2> SUFFICES ASSUME TypeOK, Mutex, DistinctDirs, [Next]_vars
               PROVE  Mutex' /\ DistinctDirs'
    OBVIOUS
  <2>1. CASE UNCHANGED <<pc, numVars>>
    BY <2>1 DEF numVars, Mutex, DistinctDirs
  <2>2. CASE MakeTestDir \/ AllSpawned \/ Receive \/ AllReceived \/ OtherReleases
    BY <2>1, <2>2
    DEF MakeTestDir, AllSpawned, Receive, AllReceived, OtherReleases
  <2>3. CASE CheckInodes
    <3>1. CASE UNCHANGED <<pc, holder>>
      BY <2>1, <2>3, <3>1 DEF CheckInodes, numVars
    <3>2. CASE pc' = [r \in Routine |-> "free"]
      BY <2>3, <3>2 DEF Mutex, DistinctDirs, Numbered
    <3> QED
      BY <2>3, <3>1, <3>2 DEF CheckInodes
  <2>4. ASSUME NEW r \in Routine, Spawn(r) PROVE Mutex' /\ DistinctDirs'
    BY <2>4, NumbersKept DEF Spawn, Step, TypeOK, numVars
  <2>5. ASSUME NEW r \in Routine, RoutineStep(r) PROVE Mutex' /\ DistinctDirs'
    <3>1. CASE Lock(r)
      BY <3>1, InodeAssumption
      DEF Lock, Step, TypeOK, Mutex, DistinctDirs, Numbered
    <3>2. CASE Bump(r)
      <4>1. \A s \in Routine : pc'[s] = "take" => s = r
        BY <3>2 DEF Bump, Step, TypeOK, Mutex
      <4>2. \A s \in Routine : pc'[s] \in Numbered => mine'[s] < numOfDir'
        BY <3>2 DEF Bump, Step, TypeOK, Mutex, Numbered
      <4>3. DistinctDirs'
        BY <3>2 DEF Bump, Step, TypeOK, DistinctDirs, Numbered
      <4>4. \A s \in Routine : pc'[s] \in {"bump", "take"} => holder' = s
        BY <3>2 DEF Bump, Step, TypeOK, Mutex
      <4> QED
        BY <4>1, <4>2, <4>3, <4>4, <3>2 DEF Mutex, Bump, TypeOK
    <3>3. CASE Take(r)
      <4>1. \A s \in Routine : pc'[s] \notin {"bump", "take"}
        BY <3>3 DEF Take, Step, TypeOK, Mutex
      <4>2. \A s \in Routine \ {r} : pc'[s] = pc[s] /\ mine'[s] = mine[s]
        BY <3>3 DEF Take, Step, TypeOK
      <4>3. pc[r] = "take" /\ mine'[r] = numOfDir /\ numOfDir' = numOfDir
        BY <3>3 DEF Take, Step, TypeOK
      <4>4. \A s \in Routine \ {r} : pc'[s] \in Numbered => mine'[s] < mine'[r]
        BY <4>2, <4>3 DEF Mutex
      <4> QED
        BY <4>1, <4>2, <4>3, <4>4 DEF Mutex, DistinctDirs, TypeOK
    <3>4. CASE Return(r)
      BY <3>4, NumbersKept DEF Return, Step, TypeOK
    <3>5. CASE SendExit(r)
      BY <3>5, NumbersKept DEF SendExit, Step, TypeOK, numVars
    <3>6. CASE \/ MkdirMakes(r) \/ MkdirExists(r) \/ MkdirNoSpace(r) \/ SendFull(r)
               \/ CreateOpens(r) \/ CreateSkips(r) \/ CreateNoSpace(r)
               \/ SendBreak(r) \/ LoopEnds(r)
      <4>1. /\ pc[r] \in Numbered /\ pc'[r] \in Numbered
            /\ \A s \in Routine \ {r} : pc'[s] = pc[s]
        BY <3>6 DEF Numbered, Step, TypeOK, MkdirMakes, MkdirExists,
           MkdirNoSpace, SendFull, CreateOpens, CreateSkips, CreateNoSpace,
           SendBreak, LoopEnds
      <4>2. UNCHANGED numVars
        BY <3>6 DEF MkdirMakes, MkdirExists, MkdirNoSpace, SendFull,
           CreateOpens, CreateSkips, CreateNoSpace, SendBreak, LoopEnds
      <4> QED
        BY <4>1, <4>2, NumbersKept DEF numVars
    <3> QED
      BY <2>5, <3>1, <3>2, <3>3, <3>4, <3>5, <3>6 DEF RoutineStep
  <2>6. CASE UNCHANGED vars
    BY <2>1, <2>6 DEF vars
  <2> QED
    BY <2>2, <2>3, <2>4, <2>5, <2>6 DEF Next, MainStep, AtBound, Exited
<1> QED
  BY <1>1, <1>2, TypeCorrect, PTL DEF Spec

\* No two goroutines of the injecting process fill the same directory, for any
\* number of goroutines at work at the same time.
THEOREM DirectoriesDistinct == Spec => []DistinctDirs
BY MutexHolds, PTL
--------------------------------------------------------------------------------
(***************************************************************************)
(* The barrier is exact until the mount point is first full: the counts of *)
(* Counting are then equalities, because nobody is about to report it.     *)
(***************************************************************************)
Tally ==
  NeverFull =>
    /\ \A r \in Routine : pc[r] \notin {"sendFull", "sendBreak"}
    /\ main = "start" => queued = 0 /\ Cardinality(Owing) = 0
    /\ main = "spawn" => N - left = queued + Cardinality(Owing)
    /\ main = "wait" => left = queued + Cardinality(Owing)
    /\ main = "check" => queued = 0 /\ Cardinality(Owing) = 0

\* Inodes and blocks are only given back by other programs, so what was never
\* full after a step was never full before it.
LEMMA FullForEver == TypeOK /\ [Next]_vars /\ NeverFull' => NeverFull
<1> SUFFICES ASSUME TypeOK, [Next]_vars, NeverFull' PROVE NeverFull
  OBVIOUS
<1> USE DEF TypeOK, NeverFull, diskVars
<1>1. CASE MainStep
  BY <1>1 DEF MainStep, MakeTestDir, AllSpawned, Receive, AllReceived, CheckInodes
<1>2. ASSUME NEW r \in Routine, Spawn(r) PROVE NeverFull
  BY <1>2 DEF Spawn
<1>3. ASSUME NEW r \in Routine, RoutineStep(r) PROVE NeverFull
  BY <1>3 DEF RoutineStep, Lock, Bump, Take, MkdirMakes, MkdirExists,
     MkdirNoSpace, SendFull, CreateOpens, CreateSkips, CreateNoSpace,
     SendBreak, LoopEnds, SendExit, Return
<1>4. CASE OtherReleases
  BY <1>4 DEF OtherReleases
<1>5. CASE UNCHANGED vars
  BY <1>5 DEF vars
<1> QED
  BY <1>1, <1>2, <1>3, <1>4, <1>5 DEF Next, AtBound, Exited

\* While the mount point has never been full, a goroutine's step sends nothing
\* but its last message, and leads to no report.
LEMMA NoReports ==
  ASSUME TypeOK, NEW r \in Routine, RoutineStep(r), NeverFull, NeverFull',
         \A s \in Routine : pc[s] \notin {"sendFull", "sendBreak"}
  PROVE  \A s \in Routine : pc'[s] \notin {"sendFull", "sendBreak"}
BY DEF TypeOK, NeverFull, Step, RoutineStep, Lock, Bump, Take, MkdirMakes,
   MkdirExists, MkdirNoSpace, SendFull, CreateOpens, CreateSkips,
   CreateNoSpace, SendBreak, LoopEnds, SendExit, Return

\* Until the mount point is first full, every goroutine of a round has sent its
\* last message when main goes on to the inode check, for any number of them.
THEOREM ExactRounds == Spec => []ExactUntilFull
<1>1. Init => Tally
  <2>1. Init => Owing = {}
    BY DEF Init, Owing
  <2> QED
    BY <2>1, FS_EmptySet DEF Init, Tally
<1>2. TypeOK /\ Tally /\ [Next]_vars => Tally'
  <2> SUFFICES ASSUME TypeOK, Tally, [Next]_vars, NeverFull', NeverFull
               PROVE  Tally'
    BY FullForEver DEF Tally
  <2>0. /\ N \in Nat /\ left \in Int /\ queued \in Int
        /\ Cardinality(Owing) \in Nat /\ Cardinality(Owing') \in Nat
    BY OwingFinite, InodeAssumption DEF TypeOK
  <2>1. CASE MakeTestDir
    BY <2>0, <2>1 DEF MakeTestDir, Tally, Owing, NeverFull
  <2>2. CASE AllSpawned
    BY <2>0, <2>2 DEF AllSpawned, Tally, Owing
  <2>3. CASE Receive
    BY <2>0, <2>3 DEF Receive, Tally, Owing
  <2>4. CASE AllReceived
    BY <2>0, <2>4 DEF AllReceived, Tally, Owing, TypeOK
  <2>5. CASE CheckInodes
    <3>1. CASE main' = "spawn"
      BY <2>0, <2>5, <3>1 DEF CheckInodes, Tally, Owing
    <3>2. CASE main' \in Ended
      BY <2>5, <3>2 DEF CheckInodes, Tally, Ended
    <3> QED
      BY <2>5, <3>1, <3>2 DEF CheckInodes, Ended
  <2>6. ASSUME NEW r \in Routine, Spawn(r) PROVE Tally'
    <3>1. \A s \in Routine : pc'[s] \notin {"sendFull", "sendBreak"}
      BY <2>6 DEF Tally, Spawn, Step, TypeOK
    <3> QED
      BY <2>0, <2>6, <3>1, SpawnEffect DEF Tally
  <2>7. ASSUME NEW r \in Routine, RoutineStep(r) PROVE Tally'
    BY <2>0, <2>7, RoutineEffect, NoReports DEF Tally
  <2>8. CASE OtherReleases
    BY <2>8 DEF OtherReleases, NeverFull, TypeOK
  <2>9. CASE UNCHANGED vars
    BY <2>9 DEF vars, mainVars, Tally, Owing
  <2> QED
    BY <2>1, <2>2, <2>3, <2>4, <2>5, <2>6, <2>7, <2>8, <2>9
    DEF Next, MainStep, AtBound, Exited
<1>3. Tally => ExactUntilFull
  BY OwingFinite, FS_EmptySet DEF Tally, ExactUntilFull
<1> QED
  BY <1>1, <1>2, <1>3, TypeCorrect, PTL DEF Spec
--------------------------------------------------------------------------------
(***************************************************************************)
(* What a round leaves on the mount point.  Every number that was handed   *)
(* out has its directory, or is still with the goroutine that is to make   *)
(* it.                                                                     *)
(***************************************************************************)
Carried(n) ==
  \E r \in Routine : \/ pc[r] = "take" /\ n = numOfDir
                     \/ pc[r] = "mkdir" /\ n = mine[r]
Made ==
  NeverFull /\ main \notin Ended =>
    \A n \in 1 .. numOfDir : n \in DOMAIN tree \/ Carried(n)

\* No number is lost by a goroutine that neither takes one nor makes its directory.
LEMMA MadeStill ==
  ASSUME Made, NeverFull' => NeverFull, main' \notin Ended => main \notin Ended,
         numOfDir' = numOfDir, DOMAIN tree \subseteq DOMAIN tree',
         main' \notin Ended =>
           \A r \in Routine : pc[r] \in {"take", "mkdir"} =>
             pc'[r] = pc[r] /\ mine'[r] = mine[r]
  PROVE  Made'
<1> SUFFICES ASSUME NeverFull, main \notin Ended, main' \notin Ended,
                    NEW n \in 1 .. numOfDir
             PROVE  n \in DOMAIN tree' \/ Carried(n)'
  BY DEF Made
<1>1. CASE n \in DOMAIN tree BY <1>1
<1>2. CASE Carried(n) BY <1>2 DEF Carried
<1> QED BY <1>1, <1>2 DEF Made

LEMMA MadeKept ==
  ASSUME TypeOK, Mutex, Made, [Next]_vars PROVE Made'
<1> USE DEF mainVars, numVars, fillVars, diskVars
<1>0. /\ pc \in [Routine -> Phase] /\ mine \in [Routine -> Nat] /\ numOfDir \in Nat
      /\ NeverFull' => NeverFull
  BY FullForEver DEF TypeOK
<1>1. CASE MakeTestDir \/ AllSpawned \/ Receive \/ AllReceived \/ OtherReleases
  <2>1. UNCHANGED <<pc, numVars, tree>> /\ main \notin Ended
    BY <1>1 DEF MakeTestDir, AllSpawned, Receive, AllReceived, OtherReleases, Ended
  <2> QED BY <1>0, <2>1, MadeStill
<1>2. CASE CheckInodes
  <2>1. UNCHANGED <<numOfDir, mine, tree>> /\ main \notin Ended
        /\ (main' \notin Ended => pc' = pc)
    BY <1>2 DEF CheckInodes, Ended
  <2> QED BY <1>0, <2>1, MadeStill
<1>3. ASSUME NEW r \in Routine, Spawn(r) PROVE Made'
  <2>1. /\ UNCHANGED <<numVars, tree, main>> /\ pc[r] = "free"
        /\ \A s \in Routine \ {r} : pc'[s] = pc[s]
    BY <1>0, <1>3 DEF Spawn, Step
  <2> QED BY <1>0, <2>1, MadeStill
<1>4. ASSUME NEW r \in Routine, RoutineStep(r) PROVE Made'
  <2>1. main' = main /\ \A s \in Routine \ {r} : pc'[s] = pc[s]
    BY <1>0, <1>4 DEF RoutineStep, Lock, Bump, Take, MkdirMakes, MkdirExists,
       MkdirNoSpace, SendFull, CreateOpens, CreateSkips, CreateNoSpace, SendBreak,
       LoopEnds, SendExit, Return, Step
  <2>2. CASE Bump(r)
    <3>1. /\ pc[r] = "bump" /\ pc'[r] = "take" /\ numOfDir' = numOfDir + 1
          /\ UNCHANGED <<mine, tree>>
      BY <1>0, <2>2 DEF Bump, Step
    <3>2. \A s \in Routine : pc[s] # "take" BY <3>1 DEF Mutex
    <3> SUFFICES ASSUME NeverFull, main \notin Ended, NEW n \in 1 .. numOfDir'
                 PROVE  n \in DOMAIN tree' \/ Carried(n)'
      BY <1>0, <2>1 DEF Made
    <3>3. CASE n = numOfDir' BY <3>1, <3>3 DEF Carried
    <3>4. CASE n # numOfDir'
      <4>1. n \in 1 .. numOfDir BY <1>0, <3>1, <3>4
      <4>2. n \in DOMAIN tree \/ \E s \in Routine : pc[s] = "mkdir" /\ n = mine[s]
        BY <3>2, <4>1 DEF Made, Carried
      <4> QED BY <2>1, <3>1, <4>2 DEF Carried
    <3> QED BY <3>3, <3>4
  <2>3. CASE Take(r)
    <3>1. /\ pc[r] = "take" /\ pc'[r] = "mkdir" /\ mine'[r] = numOfDir
          /\ numOfDir' = numOfDir /\ tree' = tree
          /\ \A s \in Routine \ {r} : mine'[s] = mine[s]
      BY <1>0, <2>3 DEF Take, Step
    <3> SUFFICES ASSUME NeverFull, main \notin Ended, NEW n \in 1 .. numOfDir
                 PROVE  n \in DOMAIN tree \/ Carried(n)'
      BY <1>0, <2>1, <3>1 DEF Made
    <3>2. CASE n = numOfDir BY <3>1, <3>2 DEF Carried
    <3>3. CASE n # numOfDir
      <4>1. n \in DOMAIN tree \/ \E s \in Routine : pc[s] = "mkdir" /\ n = mine[s]
        BY <3>3 DEF Made, Carried
      <4> QED BY <2>1, <3>1, <4>1 DEF Carried
    <3> QED BY <3>2, <3>3
  <2>4. CASE MkdirMakes(r) \/ MkdirExists(r)
    <3>1. /\ pc[r] = "mkdir" /\ UNCHANGED <<numOfDir, mine>>
          /\ DOMAIN tree' = DOMAIN tree \cup {mine[r]}
      BY <1>0, <2>4 DEF MkdirMakes, MkdirExists, Step
    <3> SUFFICES ASSUME NeverFull, main \notin Ended, NEW n \in 1 .. numOfDir
                 PROVE  n \in DOMAIN tree' \/ Carried(n)'
      BY <1>0, <2>1, <3>1 DEF Made
    <3>2. CASE n \in DOMAIN tree BY <3>1, <3>2
    <3>3. CASE Carried(n)
      <4>1. PICK s \in Routine : \/ pc[s] = "take" /\ n = numOfDir
                                 \/ pc[s] = "mkdir" /\ n = mine[s]
        BY <3>3 DEF Carried
      <4>2. CASE s = r BY <3>1, <4>1, <4>2
      <4>3. CASE s # r BY <2>1, <3>1, <4>1, <4>3 DEF Carried
      <4> QED BY <4>2, <4>3
    <3> QED BY <3>2, <3>3 DEF Made
  <2>5. CASE MkdirNoSpace(r)
    BY <2>5, <1>0 DEF MkdirNoSpace, NeverFull, Made
  <2>6. CASE \/ Lock(r) \/ SendFull(r) \/ CreateOpens(r) \/ CreateSkips(r)
             \/ CreateNoSpace(r) \/ SendBreak(r) \/ LoopEnds(r) \/ SendExit(r) \/ Return(r)
    <3>1. /\ pc[r] \notin {"take", "mkdir"} /\ numOfDir' = numOfDir
          /\ \A s \in Routine \ {r} : mine'[s] = mine[s]
      BY <1>0, <2>6 DEF Lock, SendFull, CreateOpens, CreateSkips, CreateNoSpace,
         SendBreak, LoopEnds, SendExit, Return, Step
    <3>2. DOMAIN tree' = DOMAIN tree
      BY <2>6 DEF Lock, SendFull, CreateOpens, CreateSkips, CreateNoSpace,
         SendBreak, LoopEnds, SendExit, Return
    <3> QED BY <1>0, <2>1, <3>1, <3>2, MadeStill
  <2> QED BY <1>4, <2>2, <2>3, <2>4, <2>5, <2>6 DEF RoutineStep
<1>5. CASE UNCHANGED vars
  BY <1>5 DEF vars, Made, Carried, NeverFull
<1> QED BY <1>1, <1>2, <1>3, <1>4, <1>5 DEF Next, MainStep, AtBound, Exited

\* A round that ends before the mount point was ever full has done all of its work:
\* main goes on to the inode check with nobody at work and no message left over, and
\* every number that was handed out has its directory.
RoundDone == Owing = {} /\ queued = 0 /\ 1 .. numOfDir \subseteq DOMAIN tree
WholeRounds == NeverFull /\ main = "check" => RoundDone

\* For any number of goroutines, and whatever directories an earlier injection left.
THEOREM RoundsComplete == Spec => []WholeRounds
<1>1. Init => Made
  BY DEF Init, Made
<1>2. ASSUME ExactUntilFull, Made PROVE WholeRounds
  <2> SUFFICES ASSUME NeverFull, main = "check"
               PROVE  RoundDone
    BY DEF WholeRounds
  <2>1. Owing = {} /\ queued = 0 BY <1>2 DEF ExactUntilFull
  <2>2. \A r \in Routine : pc[r] \notin {"take", "mkdir"} BY <2>1 DEF Owing
  <2>3. \A n \in 1 .. numOfDir : n \in DOMAIN tree
    BY <1>2, <2>2 DEF Made, Carried, Ended
  <2> QED BY <2>1, <2>3 DEF RoundDone
<1> QED BY <1>1, <1>2, MadeKept, TypeCorrect, MutexHolds, ExactRounds, PTL DEF Spec

NothingBack == released = 0
AllButLast  == main = "check" /\ inode > 0 => RoundDone

\* Where the mount point has a block for every inode, and nobody else gives an inode
\* back, the comment over the receive loop holds of every round but the last: while
\* there is an inode free, main comes to the inode check when all the goroutines of
\* the round have ended.  This is why Exhausts needs both conditions: each round
\* that is not the last takes an inode for each directory that was not there.
THEOREM AllButLastRound ==
  Spec /\ BlocksSuffice /\ []NothingBack => [](BlocksSuffice /\ AllButLast)
<1>1. TypeOK /\ BlocksSuffice /\ [Next]_vars /\ NothingBack' => BlocksSuffice'
  <2> SUFFICES ASSUME TypeOK, BlocksSuffice, [Next]_vars, NothingBack'
               PROVE  BlocksSuffice'
    OBVIOUS
  <2> USE DEF NothingBack, mainVars, numVars, fillVars, diskVars, BlocksSuffice
  <2>0. inode \in Nat /\ block \in Nat /\ released \in Nat BY DEF TypeOK
  <2>1. CASE MakeTestDir BY <2>0, <2>1 DEF MakeTestDir
  <2>2. CASE AllSpawned \/ Receive \/ AllReceived \/ CheckInodes
    BY <2>2 DEF AllSpawned, Receive, AllReceived, CheckInodes
  <2>3. ASSUME NEW r \in Routine, Spawn(r) PROVE BlocksSuffice'
    BY <2>3 DEF Spawn
  <2>4. ASSUME NEW r \in Routine, RoutineStep(r) PROVE BlocksSuffice'
    BY <2>0, <2>4
       DEF RoutineStep, Lock, Bump, Take, MkdirMakes, MkdirExists, MkdirNoSpace, SendFull,
           CreateOpens, CreateSkips, CreateNoSpace, SendBreak, LoopEnds, SendExit, Return
  <2>5. CASE OtherReleases BY <2>0, <2>5 DEF OtherReleases
  <2>6. CASE UNCHANGED vars BY <2>6 DEF vars
  <2> QED BY <2>1, <2>2, <2>3, <2>4, <2>5, <2>6 DEF Next, MainStep, AtBound, Exited
<1>2. TypeOK /\ WholeRounds /\ BlocksSuffice /\ NothingBack => AllButLast
  BY DEF TypeOK, BlocksSuffice, NeverFull, NothingBack, WholeRounds, AllButLast
<1> QED BY <1>1, <1>2, TypeCorrect, RoundsComplete, PTL DEF Spec

\* Nothing the injection does adds to the directories and the free inodes together.
Within(b) == IsFiniteSet(DOMAIN tree) /\ Cardinality(DOMAIN tree) + inode <= b

LEMMA WithinKept ==
  ASSUME NEW b \in Nat, TypeOK, Within(b), [Next]_vars, NothingBack'
  PROVE  Within(b)'
<1> USE DEF mainVars, numVars, fillVars, diskVars, Within
<1>0. /\ inode \in Nat /\ released \in Nat /\ released' = 0
      /\ IsFiniteSet(DOMAIN tree) /\ Cardinality(DOMAIN tree) \in Nat
  BY FS_CardinalityType DEF TypeOK, NothingBack
<1>1. ASSUME DOMAIN tree' = DOMAIN tree, inode' \in {inode, inode - 1} PROVE Within(b)'
  BY <1>0, <1>1
<1>2. CASE MainStep
  <2>1. tree' = tree /\ inode' \in {inode, inode - 1}
    BY <1>0, <1>2
       DEF MainStep, MakeTestDir, AllSpawned, Receive, AllReceived, CheckInodes
  <2> QED BY <1>1, <2>1
<1>3. ASSUME NEW r \in Routine, Spawn(r) PROVE Within(b)'
  BY <1>0, <1>1, <1>3 DEF Spawn
<1>4. ASSUME NEW r \in Routine, RoutineStep(r) PROVE Within(b)'
  <2>1. CASE MkdirMakes(r)
    <3>1. /\ DOMAIN tree' = DOMAIN tree \cup {mine[r]} /\ mine[r] \notin DOMAIN tree
          /\ inode' = inode - 1
      BY <2>1 DEF MkdirMakes
    <3> DEFINE d == DOMAIN tree
               x == mine[r]
    <3>2. IsFiniteSet(d) /\ x \notin d /\ DOMAIN tree' = d \cup {x} BY <1>0, <3>1
    <3> HIDE DEF d, x
    <3>3. IsFiniteSet(d \cup {x}) /\ Cardinality(d \cup {x}) = Cardinality(d) + 1
      BY <3>2, FS_AddElement
    <3>4. Cardinality(d) \in Nat /\ Cardinality(d) + inode <= b BY <1>0 DEF d
    <3> QED BY <1>0, <3>1, <3>2, <3>3, <3>4
  <2>2. CASE ~MkdirMakes(r)
    <3>1. DOMAIN tree' = DOMAIN tree
      BY <1>4, <2>2 DEF RoutineStep, Lock, Bump, Take, MkdirExists, MkdirNoSpace, SendFull,
         CreateOpens, CreateSkips, CreateNoSpace, SendBreak, LoopEnds, SendExit, Return
    <3>2. CASE CreateOpens(r) BY <1>1, <3>1, <3>2 DEF CreateOpens
    <3>3. CASE ~CreateOpens(r)
      <4>1. inode' = inode
        BY <1>4, <2>2, <3>3 DEF RoutineStep, Lock, Bump, Take, MkdirExists, MkdirNoSpace,
           SendFull, CreateSkips, CreateNoSpace, SendBreak, LoopEnds, SendExit, Return
      <4> QED BY <1>1, <3>1, <4>1
    <3> QED BY <3>2, <3>3
  <2> QED BY <2>1, <2>2
<1>5. CASE OtherReleases BY <1>0, <1>5 DEF OtherReleases
<1>6. CASE UNCHANGED vars BY <1>0, <1>1, <1>6 DEF vars
<1> QED BY <1>2, <1>3, <1>4, <1>5, <1>6 DEF Next, AtBound, Exited

\* The number of rounds is bounded, which is the safety half of Exhausts: as long as
\* there is an inode free after a round, no more directory numbers have been handed
\* out than there were directories and free inodes at the start, and the next round
\* hands out N more.
FewNumbers(b) == main = "check" /\ inode > 0 => numOfDir <= b

THEOREM RoundsBounded ==
  ASSUME NEW b \in Nat
  PROVE  Spec /\ BlocksSuffice /\ Cardinality(DOMAIN tree) + inode <= b /\ []NothingBack
           => []FewNumbers(b)
<1>1. Init => IsFiniteSet(DOMAIN tree)
  <2> SUFFICES ASSUME Init PROVE IsFiniteSet(DOMAIN tree)
    OBVIOUS
  <2>1. PICK n \in 0 .. MaxLeft : DOMAIN tree = 1 .. n BY DEF Init
  <2>2. n \in Int BY InodeAssumption
  <2> QED BY <2>1, <2>2, FS_Interval
<1>2. Init /\ Cardinality(DOMAIN tree) + inode <= b => Within(b)
  BY <1>1 DEF Within
<1>3. TypeOK /\ Within(b) /\ [Next]_vars /\ NothingBack' => Within(b)'
  BY WithinKept
<1>4. TypeOK /\ BlocksSuffice /\ AllButLast /\ Within(b) => FewNumbers(b)
  <2> SUFFICES ASSUME TypeOK, AllButLast, Within(b), main = "check", inode > 0
               PROVE  numOfDir <= b
    BY DEF FewNumbers
  <2>1. numOfDir \in Nat /\ inode \in Nat /\ 1 .. numOfDir \subseteq DOMAIN tree
    BY DEF AllButLast, RoundDone, TypeOK
  <2>2. Cardinality(1 .. numOfDir) <= Cardinality(DOMAIN tree)
    BY <2>1, FS_Subset DEF Within
  <2>3. Cardinality(1 .. numOfDir) = numOfDir
    BY <2>1, FS_Interval
  <2>4. Cardinality(DOMAIN tree) \in Nat BY FS_CardinalityType DEF Within
  <2> QED BY <2>1, <2>2, <2>3, <2>4 DEF Within
<1> QED BY <1>2, <1>3, <1>4, TypeCorrect, AllButLastRound, PTL DEF Spec
================================================================================

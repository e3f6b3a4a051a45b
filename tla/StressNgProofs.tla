----------------------------- MODULE StressNgProofs -----------------------------
(***************************************************************************)
(* What holds of StressNg for every number of invocations, processes and   *)
(* commands, and every relation of their texts.                            *)
(***************************************************************************)
EXTENDS StressNg, TLAPS

\* There is always a request that stands for none.
LEMMA Requests == NoCommand \in Cmd /\ NoRequest \in Request
BY StressAssumption DEF NoCommand, NoRequest, Request, Op

\* An invocation that ends keeps the types, its own variables and the others'.
LEMMA LeaveTypes ==
  ASSUME TypeOK, NEW p \in Proc, NEW r \in {"none", "ok", "failed"}, Leave(p, r),
         binary' \in {"missing", "plain", "exec"},
         life' \in [Pid -> {"unused", "test", "fault", "exited", "killed"}],
         cmdline' \in [Pid -> Cmd], crashes' \in 0..MaxCrashes
  PROVE  TypeOK'
BY Requests DEF TypeOK, Leave, Request, NoRequest

\* The variables keep their types in every run of every instance; only a
\* removal looks and kills, and only who waits has a test run.
THEOREM TypeCorrect == Spec => []TypeOK
<1>1. Init => TypeOK
  BY Requests, StressAssumption DEF Init, TypeOK
<1>2. TypeOK /\ [Next]_vars => TypeOK'
  <2> SUFFICES ASSUME TypeOK, [Next]_vars PROVE TypeOK'
    OBVIOUS
  <2> USE StressAssumption DEF procs, locals
  <2>1. ASSUME NEW p \in Proc, Step(p) PROVE TypeOK'
    <3>1. CASE PermCheck(p)
      BY <3>1 DEF PermCheck, Goto, TypeOK, Request
    <3>2. CASE PermFails(p)
      BY <3>2, LeaveTypes DEF PermFails, Ends, TypeOK
    <3>3. CASE TestStart(p)
      <4>1. asked[p].cmd \in Cmd
        BY DEF TypeOK, Request
      <4> QED
        BY <3>3, <4>1 DEF TestStart, Goto, Spawn, Unused, TypeOK
    <3>4. CASE TestRefused(p)
      BY <3>4, LeaveTypes DEF TestRefused, Ends, TypeOK
    <3>5. CASE TestPassed(p)
      <4>1. CASE asked[p].op = "prepare" /\ Ends(p, "wait", "ok")
        BY <3>5, <4>1, LeaveTypes DEF TestPassed, Ends, TypeOK
      <4>2. CASE asked[p].op = "inject" /\ Goto(p, "wait", "run")
        BY <3>5, <4>2 DEF TestPassed, Goto, Ends, TypeOK
      <4> QED
        BY <3>5, <4>1, <4>2 DEF TestPassed
    <3>6. CASE TestKilled(p)
      BY <3>6, LeaveTypes DEF TestKilled, Ends, TypeOK
    <3>7. CASE TestTimesOut(p)
      BY <3>7, LeaveTypes DEF TestTimesOut, Ends, TypeOK
    <3>8. CASE Run(p)
      <4>1. asked[p].cmd \in Cmd
        BY DEF TypeOK, Request
      <4> QED
        BY <3>8, <4>1, LeaveTypes DEF Run, Ends, Spawn, Unused, TypeOK
    <3>9. CASE Look(p)
      BY <3>9 DEF Look, Found, Goto, TypeOK
    <3>10. CASE LookFails(p)
      BY <3>10, LeaveTypes DEF LookFails, Ends, TypeOK
    <3>11. CASE Kill(p)
      <4>1. hit' \in [Proc -> BOOLEAN]
        <5>1. PICK r \in pids[p] :
                hit' \in {[hit EXCEPT ![p] = @ \/ reached] : reached \in Reached(r)}
          BY <3>11 DEF Kill
        <5>2. PICK reached \in BOOLEAN : hit' = [hit EXCEPT ![p] = @ \/ reached]
          BY <5>1 DEF Reached
        <5> QED
          BY <5>2 DEF TypeOK
      <4> QED
        BY <3>11, <4>1 DEF Kill, Goto, TypeOK
    <3>12. CASE Destroyed(p)
      BY <3>12, LeaveTypes DEF Destroyed, Ends, TypeOK
    <3> QED
      BY <2>1, <3>1, <3>2, <3>3, <3>4, <3>5, <3>6, <3>7, <3>8, <3>9, <3>10,
         <3>11, <3>12 DEF Step
  <2>2. ASSUME NEW p \in Proc, Crash(p) PROVE TypeOK'
    <3>1. crashes' \in 0..MaxCrashes
      BY <2>2 DEF Crash, TypeOK
    <3> QED
      BY <2>2, <3>1, LeaveTypes DEF Crash, TypeOK
  <2>3. ASSUME NEW p \in Proc, NEW op \in Op, NEW c \in Cmd, Start(p, op, c) PROVE TypeOK'
    BY <2>3 DEF Start, TypeOK, Request
  <2>4. ASSUME NEW r \in Pid, TestEnds(r) \/ Expire(r) PROVE TypeOK'
    BY <2>4 DEF TestEnds, Expire, TypeOK
  <2>5. CASE UNCHANGED vars
    BY <2>5 DEF vars, TypeOK
  <2> QED
    BY <2>1, <2>2, <2>3, <2>4, <2>5 DEF Next
<1> QED
  BY <1>1, <1>2, PTL DEF Spec
--------------------------------------------------------------------------------
(***************************************************************************)
(* What a removal has in its list.  Everything of its command that was     *)
(* there when it was invoked and is alive is in it: the command is         *)
(* contained in itself, and a pid that somebody remembers is not used      *)
(* again.  A process that was there is not one that never started.         *)
(***************************************************************************)
Listing(p) ==
  /\ pc[p] = "kill" =>
       \A r \in older[p] : Alive(r) /\ cmdline[r] = asked[p].cmd => r \in pids[p]
  /\ \A r \in older[p] : r \in Pid /\ life[r] # "unused"
  /\ pc[p] # "idle" => result[p] = "none"

Lists == \A p \in Proc : Listing(p)

\* What any step does to a process an invocation remembers: it is the same
\* process afterwards, and if it was not alive it still is not.
Ages ==
  \A q \in Proc : \A r \in older[q] :
    /\ life'[r] # "unused"
    /\ life'[r] \in {"test", "fault"} => Alive(r)
    /\ cmdline'[r] = cmdline[r]
Keeps(q) ==
  /\ pc'[q] = pc[q] /\ asked'[q] = asked[q] /\ pids'[q] = pids[q]
  /\ older'[q] = older[q] /\ result'[q] = result[q]

\* Processes change; a list that does not is still right.
LEMMA ListingKept == ASSUME NEW q \in Proc, Lists, Ages, Keeps(q) PROVE Listing(q)'
BY DEF Lists, Listing, Ages, Keeps, Alive

\* A new process takes a pid that nobody remembers.
LEMMA SpawnAges ==
  ASSUME TypeOK, Lists, NEW p \in Proc, NEW r \in Pid, NEW kind, Spawn(p, r, kind)
  PROVE  Ages
BY DEF TypeOK, Lists, Listing, Spawn, Unused, Ages, Alive

LEMMA SameAges == ASSUME Lists, UNCHANGED procs PROVE Ages
BY DEF procs, Lists, Listing, Ages, Alive

\* A process that is killed or ends stays what it was otherwise.
LEMMA EndAges ==
  ASSUME TypeOK, Lists, NEW r \in Pid, NEW how \in {"exited", "killed", life[r]},
         life' = [life EXCEPT ![r] = how], cmdline' = cmdline
  PROVE  Ages
BY DEF TypeOK, Lists, Listing, Ages, Alive

\* The invocation that ends remembers nothing.
LEMMA LeaveLists ==
  ASSUME TypeOK, Lists, Ages, NEW p \in Proc, NEW how, Leave(p, how)
  PROVE  Lists'
<1>1. Listing(p)'
  BY DEF Leave, Listing, TypeOK
<1>2. ASSUME NEW q \in Proc \ {p} PROVE Listing(q)'
  BY <1>2, ListingKept DEF Leave, Keeps, TypeOK
<1> QED
  BY <1>1, <1>2 DEF Lists

\* One step of an invocation that goes on keeps the lists.
LEMMA GoLists ==
  ASSUME TypeOK, Lists, Ages, NEW p \in Proc, NEW from, NEW to, Goto(p, from, to),
         UNCHANGED <<asked, older, pids>>, from # "idle", from # "kill", to # "kill"
  PROVE  Lists'
<1>1. Listing(p)'
  BY DEF Goto, Lists, Listing, Ages, TypeOK
<1>2. ASSUME NEW q \in Proc \ {p} PROVE Listing(q)'
  BY <1>2, ListingKept DEF Goto, Keeps, TypeOK
<1> QED
  BY <1>1, <1>2 DEF Lists

\* Every step keeps every list right.
LEMMA ListsKept == TypeOK /\ Lists /\ [Next]_vars => Lists'
<1> SUFFICES ASSUME TypeOK, Lists, [Next]_vars PROVE Lists'
  OBVIOUS
<1> USE DEF procs, locals
<1>1. ASSUME NEW p \in Proc, Step(p) PROVE Lists'
  <2>1. CASE PermCheck(p)
    BY <2>1, GoLists, SameAges DEF PermCheck
  <2>2. CASE PermFails(p)
    BY <2>2, LeaveLists, SameAges DEF PermFails, Ends
  <2>3. CASE TestStart(p)
    BY <2>3, GoLists, SpawnAges DEF TestStart, Unused
  <2>4. CASE TestRefused(p)
    BY <2>4, LeaveLists, SameAges DEF TestRefused, Ends
  <2>5. CASE TestPassed(p)
    BY <2>5, LeaveLists, GoLists, SameAges DEF TestPassed, Ends
  <2>6. CASE TestKilled(p)
    BY <2>6, LeaveLists, SameAges DEF TestKilled, Ends
  <2>7. CASE TestTimesOut(p)
    <3>1. test[p] \in Pid
      BY <2>7, StressAssumption DEF TestTimesOut, TypeOK
    <3> QED
      BY <2>7, <3>1, LeaveLists, EndAges DEF TestTimesOut, Ends
  <2>8. CASE Run(p)
    BY <2>8, LeaveLists, SpawnAges DEF Run, Ends, Unused
  <2>9. CASE Look(p)
    <3>1. Ages
      BY <2>9, SameAges DEF Look
    <3>2. Found(asked[p].cmd) = {r \in Pid : Alive(r) /\ cmdline[r] \in Longer[asked[p].cmd]}
      BY <2>9 DEF Look, Found
    <3>3. asked[p].cmd \in Longer[asked[p].cmd]
      BY StressAssumption DEF TypeOK, Request
    <3>4. Listing(p)'
      BY <2>9, <3>1, <3>2, <3>3 DEF Look, Goto, Lists, Listing, Alive, TypeOK
    <3>5. ASSUME NEW q \in Proc \ {p} PROVE Listing(q)'
      BY <2>9, <3>1, <3>5, ListingKept DEF Look, Goto, Keeps, TypeOK
    <3> QED
      BY <3>4, <3>5 DEF Lists
  <2>10. CASE LookFails(p)
    BY <2>10, LeaveLists, SameAges DEF LookFails, Ends
  <2>11. CASE Kill(p)
    <3>1. PICK r \in pids[p] :
            /\ Goto(p, "kill", "kill")
            /\ pids' = [pids EXCEPT ![p] = @ \ {r}]
            /\ life' = [life EXCEPT ![r] = IF Alive(r) THEN "killed" ELSE @]
      BY <2>11 DEF Kill
    <3>2. r \in Pid /\ cmdline' = cmdline /\ asked' = asked /\ older' = older
      BY <2>11, <3>1 DEF Kill, TypeOK
    <3>3. Ages
      BY <3>1, <3>2, EndAges DEF TypeOK
    <3>4. life'[r] \notin {"test", "fault"}
      BY <3>1, <3>2 DEF Alive, TypeOK
    <3>5. Listing(p)'
      BY <3>1, <3>2, <3>3, <3>4 DEF Goto, Lists, Listing, Ages, Alive, TypeOK
    <3>6. ASSUME NEW q \in Proc \ {p} PROVE Listing(q)'
      BY <3>1, <3>2, <3>3, <3>6, ListingKept DEF Goto, Keeps, TypeOK
    <3> QED
      BY <3>5, <3>6 DEF Lists
  <2>12. CASE Destroyed(p)
    BY <2>12, LeaveLists, SameAges DEF Destroyed, Ends
  <2> QED
    BY <1>1, <2>1, <2>2, <2>3, <2>4, <2>5, <2>6, <2>7, <2>8, <2>9, <2>10,
       <2>11, <2>12 DEF Step
<1>2. ASSUME NEW p \in Proc, Crash(p) PROVE Lists'
  BY <1>2, LeaveLists, SameAges DEF Crash
<1>3. ASSUME NEW p \in Proc, NEW op \in Op, NEW c \in Cmd, Start(p, op, c) PROVE Lists'
  <2>1. Ages
    BY <1>3, SameAges DEF Start
  <2>2. Listing(p)'
    BY <1>3 DEF Start, Listing, Alive, TypeOK
  <2>3. ASSUME NEW q \in Proc \ {p} PROVE Listing(q)'
    BY <1>3, <2>1, <2>3, ListingKept DEF Start, Keeps, TypeOK
  <2> QED
    BY <2>2, <2>3 DEF Lists
<1>4. ASSUME NEW r \in Pid, TestEnds(r) \/ Expire(r) PROVE Lists'
  <2>1. Ages
    BY <1>4, EndAges DEF TestEnds, Expire
  <2> QED
    BY <1>4, <2>1, ListingKept DEF TestEnds, Expire, Keeps, Lists
<1>5. CASE UNCHANGED vars
  BY <1>5, SameAges, ListingKept DEF vars, Keeps, Lists
<1> QED
  BY <1>1, <1>2, <1>3, <1>4, <1>5 DEF Next

\* The step in which a removal reports is the one that found its list empty:
\* nothing of its command that was there when it was invoked is alive.
LEMMA ReportClears ==
  ASSUME TypeOK, Lists, [Next]_vars,
         NEW p \in Proc, pc[p] = "kill", result'[p] # result[p],
         NEW r \in older[p], cmdline[r] = asked[p].cmd
  PROVE  life'[r] \in {"exited", "killed"}
<1> USE DEF procs, locals
<1>1. r \in Pid /\ life[r] # "unused" /\ (Alive(r) => r \in pids[p]) /\ result[p] = "none"
  BY DEF Lists, Listing
<1>2. CASE Destroyed(p)
  BY <1>1, <1>2 DEF Destroyed, Alive, TypeOK
<1>3. ASSUME NEW q \in Proc \ {p}, Step(q) PROVE FALSE
  BY <1>3 DEF Step, PermCheck, PermFails, TestStart, TestRefused, TestPassed, TestKilled,
     TestTimesOut, Run, Look, LookFails, Kill, Destroyed, Ends, Goto, Leave, TypeOK
<1>4. CASE Step(p)
  BY <1>2, <1>4 DEF Step, PermCheck, PermFails, TestStart, TestRefused, TestPassed,
     TestKilled, TestTimesOut, Run, Look, LookFails, Kill, Ends, Goto
<1>5. ASSUME NEW q \in Proc, Crash(q) PROVE FALSE
  BY <1>1, <1>5 DEF Crash, Leave, TypeOK
<1>6. ASSUME NEW q \in Proc, NEW op \in Op, NEW c \in Cmd, Start(q, op, c) PROVE FALSE
  BY <1>1, <1>6 DEF Start, TypeOK
<1>7. ASSUME NEW s \in Pid, TestEnds(s) \/ Expire(s) PROVE FALSE
  BY <1>7 DEF TestEnds, Expire
<1>8. CASE UNCHANGED vars
  BY <1>8 DEF vars
<1> QED
  BY <1>3, <1>4, <1>5, <1>6, <1>7, <1>8 DEF Next

\* Destroy kills all there is of its command, whatever is done meanwhile: for
\* every number of invocations and every relation of command lines.
THEOREM RemovalClears == Spec => Cleared
<1>1. Init => Lists
  BY DEF Init, Lists, Listing
<1>2. TypeOK /\ Lists /\ [Next]_vars
        => [\A p \in Proc :
              pc[p] = "kill" /\ result'[p] # result[p]
                => \A r \in older[p] :
                     cmdline[r] = asked[p].cmd => life'[r] \in {"exited", "killed"}]_vars
  BY ReportClears
<1> QED
  BY <1>1, <1>2, TypeCorrect, ListsKept, PTL DEF Spec, Cleared
--------------------------------------------------------------------------------
\* What an invocation waits for is its own test run, neither that of another nor
\* a fault, and as long as no invocation is killed there is no other test run.
Own  == \A p, q \in Proc : test[p] # None /\ test[p] = test[q] => p = q
Kind == \A p \in Proc : test[p] # None => life[test[p]] \in {"test", "exited", "killed"}
Minded ==
  crashes = 0 => \A r \in Pid : life[r] = "test" => \E p \in Proc : test[p] = r
Watched == Own /\ Kind /\ Minded

\* A process that is killed or ends while the invocations wait on.
LEMMA EndWatched ==
  ASSUME TypeOK, Watched, NEW r \in Pid, NEW how \in {"exited", "killed", life[r]},
         life[r] \in {"test", "fault"} \/ how = life[r],
         life' = [life EXCEPT ![r] = how], UNCHANGED <<test, crashes>>
  PROVE  Watched'
<1>1. Own'
  BY DEF Watched, Own
<1>2. Kind'
  BY DEF TypeOK, Watched, Kind
<1>3. Minded'
  BY DEF TypeOK, Watched, Minded
<1> QED
  BY <1>1, <1>2, <1>3 DEF Watched

\* An invocation that stops waiting, when what it waited for is no test run, or
\* when an invocation has been killed.
LEMMA LeftWatched ==
  ASSUME TypeOK, Watched, NEW p \in Proc, test' = [test EXCEPT ![p] = None], UNCHANGED life,
         \/ crashes' # 0
         \/ crashes' = crashes /\ (test[p] # None => life[test[p]] # "test")
  PROVE  Watched'
<1>1. Own'
  BY DEF TypeOK, Watched, Own
<1>2. Kind'
  BY DEF TypeOK, Watched, Kind
<1>3. Minded'
  BY StressAssumption DEF TypeOK, Watched, Minded
<1> QED
  BY <1>1, <1>2, <1>3 DEF Watched

\* Every step keeps the test runs watched: a new process takes a pid that nobody
\* waits for, and a wait ends when the process has ended, or ends it.
LEMMA WatchedKept == TypeOK /\ Watched /\ [Next]_vars => Watched'
<1> SUFFICES ASSUME TypeOK, Watched, [Next]_vars PROVE Watched'
  OBVIOUS
<1> USE DEF procs, locals
<1>0. ASSUME UNCHANGED <<life, test, crashes>> PROVE Watched'
  BY <1>0 DEF Watched, Own, Kind, Minded
<1>1. ASSUME NEW p \in Proc, Step(p) PROVE Watched'
  <2>1. CASE PermCheck(p) \/ Look(p)
    BY <2>1, <1>0 DEF PermCheck, Look, Goto
  <2>2. CASE PermFails(p) \/ TestRefused(p) \/ LookFails(p) \/ Destroyed(p)
    <3>1. test[p] = None
      BY <2>2 DEF PermFails, TestRefused, LookFails, Destroyed, Ends, TypeOK
    <3>2. test' = [test EXCEPT ![p] = None] /\ UNCHANGED <<life, crashes>>
      BY <2>2 DEF PermFails, TestRefused, LookFails, Destroyed, Ends, Leave
    <3> QED
      BY <3>1, <3>2, <1>0 DEF TypeOK
  <2>3. CASE TestStart(p)
    <3>1. PICK r \in Unused : Spawn(p, r, "test") /\ test' = [test EXCEPT ![p] = r]
      BY <2>3 DEF TestStart
    <3>2. /\ r \in Pid /\ r # None /\ \A q \in Proc : test[q] # r
          /\ life' = [life EXCEPT ![r] = "test"] /\ crashes' = crashes
      BY <2>3, <3>1, StressAssumption DEF TestStart, Unused, Spawn, Goto
    <3>3. test[p] = None
      BY <2>3 DEF TestStart, Goto, TypeOK
    <3>4. Own'
      BY <3>1, <3>2 DEF TypeOK, Watched, Own
    <3>5. Kind'
      BY <3>1, <3>2 DEF TypeOK, Watched, Kind
    <3>6. Minded'
      <4> SUFFICES ASSUME crashes = 0, NEW s \in Pid, life'[s] = "test"
                   PROVE  \E q \in Proc : test'[q] = s
        BY <3>2 DEF Minded
      <4>1. CASE s = r
        BY <3>1, <4>1 DEF TypeOK
      <4>2. CASE s # r
        <5>1. PICK q \in Proc : test[q] = s
          BY <3>2, <4>2 DEF TypeOK, Watched, Minded
        <5>2. q # p
          BY <5>1, <3>3, StressAssumption
        <5> QED
          BY <3>1, <5>1, <5>2 DEF TypeOK
      <4> QED
        BY <4>1, <4>2
    <3> QED
      BY <3>4, <3>5, <3>6 DEF Watched
  <2>4. CASE TestPassed(p)
    <3>1. /\ life[test[p]] = "exited"
          /\ test' = [test EXCEPT ![p] = None] /\ UNCHANGED <<life, crashes>>
      BY <2>4 DEF TestPassed, Ends, Leave, Goto
    <3> QED
      BY <3>1, LeftWatched DEF TypeOK
  <2>5. CASE TestKilled(p)
    <3>1. /\ life[test[p]] = "killed"
          /\ test' = [test EXCEPT ![p] = None] /\ UNCHANGED <<life, crashes>>
      BY <2>5 DEF TestKilled, Ends, Leave
    <3> QED
      BY <3>1, LeftWatched DEF TypeOK
  <2>6. CASE TestTimesOut(p)
    <3>1. /\ test[p] \in Pid /\ test' = [test EXCEPT ![p] = None]
          /\ life' = [life EXCEPT ![test[p]] = "killed"] /\ crashes' = crashes
      BY <2>6, StressAssumption DEF TestTimesOut, Ends, Leave, TypeOK
    <3>2. Own'
      BY <3>1 DEF TypeOK, Watched, Own
    <3>3. Kind'
      BY <3>1 DEF TypeOK, Watched, Kind
    <3>4. Minded'
      BY <3>1 DEF TypeOK, Watched, Minded
    <3> QED
      BY <3>2, <3>3, <3>4 DEF Watched
  <2>7. CASE Run(p)
    <3>1. PICK r \in Unused : Spawn(p, r, "fault")
      BY <2>7 DEF Run
    <3>2. /\ r \in Pid /\ \A q \in Proc : test[q] # r
          /\ life' = [life EXCEPT ![r] = "fault"] /\ crashes' = crashes
      BY <2>7, <3>1 DEF Run, Unused, Spawn, Ends
    <3>3. test[p] = None /\ test' = test
      BY <2>7 DEF Run, Ends, Leave, TypeOK
    <3>4. Own'
      BY <3>3 DEF Watched, Own
    <3>5. Kind'
      BY <3>2, <3>3 DEF TypeOK, Watched, Kind
    <3>6. Minded'
      BY <3>2, <3>3 DEF TypeOK, Watched, Minded
    <3> QED
      BY <3>4, <3>5, <3>6 DEF Watched
  <2>8. CASE Kill(p)
    <3>1. PICK r \in pids[p] :
            life' = [life EXCEPT ![r] = IF Alive(r) THEN "killed" ELSE @]
      BY <2>8 DEF Kill
    <3>2. r \in Pid /\ UNCHANGED <<test, crashes>>
      BY <2>8, <3>1 DEF Kill, Goto, TypeOK
    <3>3. life' = [life EXCEPT ![r] = IF Alive(r) THEN "killed" ELSE life[r]]
      BY <3>1
    <3> QED
      BY <3>2, <3>3, EndWatched DEF Alive
  <2> QED
    BY <1>1, <2>1, <2>2, <2>3, <2>4, <2>5, <2>6, <2>7, <2>8 DEF Step
<1>2. ASSUME NEW p \in Proc, Crash(p) PROVE Watched'
  <2>1. test' = [test EXCEPT ![p] = None] /\ UNCHANGED life /\ crashes' # 0
    BY <1>2 DEF Crash, Leave, TypeOK
  <2> QED
    BY <2>1, LeftWatched DEF TypeOK
<1>3. ASSUME NEW p \in Proc, NEW op \in Op, NEW c \in Cmd, Start(p, op, c) PROVE Watched'
  BY <1>0, <1>3 DEF Start
<1>4. ASSUME NEW r \in Pid, TestEnds(r) \/ Expire(r) PROVE Watched'
  BY <1>4, EndWatched DEF TestEnds, Expire
<1>5. CASE UNCHANGED vars
  BY <1>0, <1>5 DEF vars
<1> QED
  BY <1>1, <1>2, <1>3, <1>4, <1>5 DEF Next

\* What TestsEnd says that no fairness is needed for: PreRun waits for a test run
\* of its own, which no other invocation waits for and which is never a fault,
\* and unless an invocation is killed no test run goes on that none waits for,
\* among removals that kill each other's processes and however slow the machine.
THEOREM TestsWatched == Spec => []Watched
<1>1. Init => Watched
  BY DEF Init, Watched, Own, Kind, Minded
<1> QED
  BY <1>1, TypeCorrect, WatchedKept, PTL DEF Spec
================================================================================

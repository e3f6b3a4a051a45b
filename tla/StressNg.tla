-------------------------------- MODULE StressNg --------------------------------
(***************************************************************************)
(* The load faults (cpu-overload, memory-overload, filesystem-io-overload) *)
(* put stress-ng in the background and, in another invocation, find it     *)
(* again by the text of its command line and kill it.                      *)
(*                                                                         *)
(* A command line is a member of Cmd: the path of stress-ng and its flags. *)
(* Both start alike, so that one contains another exactly when it is a     *)
(* prefix of it ("--cpu 1" of "--cpu 10", of "--cpu 1 --timeout 60", and   *)
(* of the test run "--cpu 1 -t 4s").  A process is its pid; a pid is not   *)
(* used again while a removal has it in its list.                          *)
(***************************************************************************)
EXTENDS Naturals, FiniteSets

CONSTANTS
  Proc,        \* slots for invocations at work at the same time
  Pid,         \* stress-ng processes; their number is a bound
  Cmd,         \* commands that are invoked
  Longer,      \* command -> commands whose text contains it, itself included
  Refused,     \* commands stress-ng does not accept
  Timed,       \* commands with a --timeout of their own
  Private,     \* commands of memory-overload: with private arguments
  Nice,        \* commands given with --nice
  MaxCrashes,  \* bound: invocations killed
  None

Op == {"prepare", "inject", "remove"}

ASSUME StressAssumption ==
  /\ IsFiniteSet(Proc) /\ IsFiniteSet(Pid) /\ Cmd # {}
  /\ Longer \in [Cmd -> SUBSET Cmd]
  /\ \A c \in Cmd : c \in Longer[c]
  /\ \A c \in Cmd : \A d \in Longer[c] : Longer[d] \subseteq Longer[c]
  /\ Refused \subseteq Cmd /\ Timed \subseteq Cmd /\ Private \subseteq Cmd
  /\ Nice \subseteq Cmd
  /\ MaxCrashes \in Nat
  /\ None \notin Pid

VARIABLES
  binary,   \* the stress-ng file: missing, plain or exec
  life,     \* pid -> unused, test run, fault, exited or killed
  cmdline,  \* pid -> command
  pc,       \* where each invocation is
  asked,    \* operation and command of each invocation
  test,     \* pid of the test run each invocation waits for
  pids,     \* pids each removal has yet to kill
  hit,      \* a kill of this removal has reached a process
  result,   \* what the last invocation of each slot reported
  older,    \* history: processes alive when the invocation started
  crashes

procs  == <<life, cmdline>>
locals == <<asked, test, pids, hit, older>>
vars   == <<binary, procs, pc, locals, result, crashes>>

Alive(r) == life[r] \in {"test", "fault"}
Unused   == {r \in Pid : ~Alive(r) /\ \A p \in Proc : r \notin pids[p] \cup older[p] \cup {test[p]}}

\* With --nice the private arguments are printed as a slice, in brackets:
\* stress-ng does not know them, and grep reads them as a character class.
Bracketed  == Nice \cap Private
Accepts(c) == c \notin Refused \cup Bracketed

Goto(p, from, to) ==
  pc[p] = from /\ pc' = [pc EXCEPT ![p] = to] /\ UNCHANGED <<result, crashes>>

\* What is there before the first use and after the last; nobody reads it.
NoCommand == CHOOSE c \in Cmd : TRUE
NoRequest == [op |-> "prepare", cmd |-> NoCommand]

\* The invocation ends and reports; what it held is gone.
Leave(p, r) ==
  /\ pc' = [pc EXCEPT ![p] = "idle"]
  /\ result' = [result EXCEPT ![p] = r]
  /\ test' = [test EXCEPT ![p] = None]
  /\ pids' = [pids EXCEPT ![p] = {}]
  /\ hit' = [hit EXCEPT ![p] = FALSE]
  /\ older' = [older EXCEPT ![p] = {}]
  /\ asked' = [asked EXCEPT ![p] = NoRequest]
Ends(p, from, r) == pc[p] = from /\ Leave(p, r) /\ UNCHANGED crashes

Spawn(p, r, kind) ==
  /\ r \in Unused
  /\ life' = [life EXCEPT ![r] = kind]
  /\ cmdline' = [cmdline EXCEPT ![r] = asked[p].cmd]
--------------------------------------------------------------------------------
Init ==
  /\ binary \in {"missing", "plain", "exec"}
  /\ life = [r \in Pid |-> "unused"]
  /\ cmdline = [r \in Pid |-> NoCommand]
  /\ asked = [p \in Proc |-> NoRequest]
  /\ pc = [p \in Proc |-> "idle"]
  /\ test = [p \in Proc |-> None]
  /\ pids = [p \in Proc |-> {}] /\ older = [p \in Proc |-> {}]
  /\ hit = [p \in Proc |-> FALSE]
  /\ result = [p \in Proc |-> "none"]
  /\ crashes = 0

\* RunCmd: Prepare comes first, whatever the operation.  Bound: an injection
\* starts only when a pid is left for its fault.
Spawning == {p \in Proc : pc[p] \in {"perm", "test", "wait", "run"} /\ asked[p].op # "remove"}
Start(p, op, c) ==
  /\ op # "remove" =>
       Cardinality({r \in Pid : life[r] = "fault"} \cup Spawning) < Cardinality(Pid)
  /\ pc[p] = "idle" /\ pc' = [pc EXCEPT ![p] = "perm"]
  /\ asked' = [asked EXCEPT ![p] = [op |-> op, cmd |-> c]]
  /\ result' = [result EXCEPT ![p] = "none"]
  /\ older' = [older EXCEPT ![p] = IF op = "remove" THEN {r \in Pid : Alive(r)} ELSE {}]
  /\ UNCHANGED <<binary, procs, test, pids, hit, crashes>>

\* Mutant: the test run comes before a removal too.
PermCheckTests(p) ==
  /\ binary # "missing"
  /\ Goto(p, "perm", "test")
  /\ binary' = "exec"
  /\ UNCHANGED <<procs, locals>>
\* stressNgExecPermCheck, and PreRun's early return for a removal.
PermCheck(p) ==
  /\ binary # "missing"
  /\ Goto(p, "perm", IF asked[p].op = "remove" THEN "ps" ELSE "test")
  /\ binary' = "exec"
  /\ UNCHANGED <<procs, locals>>
\* There is no stress-ng, or its mode cannot be changed.
PermFails(p) ==
  /\ binary # "exec"
  /\ Ends(p, "perm", "failed")
  /\ UNCHANGED <<binary, procs>>

\* Mutant: the test run lacks "-t 4s": it is the fault itself.
TestStartForever(p) ==
  /\ Accepts(asked[p].cmd)
  /\ Goto(p, "test", "wait")
  /\ \E r \in Unused : Spawn(p, r, "fault") /\ test' = [test EXCEPT ![p] = r]
  /\ UNCHANGED <<binary, asked, pids, hit, older>>
\* PreRun: the command with "-t 4s", and a deadline of five seconds.
TestStart(p) ==
  /\ Accepts(asked[p].cmd)
  /\ Goto(p, "test", "wait")
  /\ \E r \in Unused : Spawn(p, r, "test") /\ test' = [test EXCEPT ![p] = r]
  /\ UNCHANGED <<binary, asked, pids, hit, older>>
TestRefused(p) ==
  /\ ~Accepts(asked[p].cmd)
  /\ Ends(p, "test", "failed")
  /\ UNCHANGED <<binary, procs>>
TestEnds(r) ==
  /\ life[r] = "test"
  /\ life' = [life EXCEPT ![r] = "exited"]
  /\ UNCHANGED <<binary, cmdline, pc, locals, result, crashes>>
TestPassed(p) ==
  /\ pc[p] = "wait" /\ life[test[p]] = "exited"
  /\ \/ /\ asked[p].op = "prepare"
        /\ Ends(p, "wait", "ok")
     \/ /\ asked[p].op = "inject"
        /\ Goto(p, "wait", "run")
        /\ test' = [test EXCEPT ![p] = None]
        /\ UNCHANGED <<asked, pids, hit, older>>
  /\ UNCHANGED <<binary, procs>>
\* Killed by a removal, or by the deadline on a machine that is too slow.
TestKilled(p) ==
  /\ pc[p] = "wait" /\ life[test[p]] = "killed"
  /\ Ends(p, "wait", "failed")
  /\ UNCHANGED <<binary, procs>>
TestTimesOut(p) ==
  /\ pc[p] = "wait" /\ life[test[p]] = "test"
  /\ Ends(p, "wait", "failed")
  /\ life' = [life EXCEPT ![test[p]] = "killed"]
  /\ UNCHANGED <<binary, cmdline>>

\* StressNg.Run, in the background.
Run(p) ==
  /\ Ends(p, "run", "ok")
  /\ \E r \in Unused : Spawn(p, r, "fault")
  /\ UNCHANGED binary
Expire(r) ==
  /\ life[r] = "fault" /\ cmdline[r] \in Timed
  /\ life' = [life EXCEPT ![r] = "exited"]
  /\ UNCHANGED <<binary, cmdline, pc, locals, result, crashes>>
--------------------------------------------------------------------------------
\* Destroy: ps | grep of the command line, then one kill -9 of all the pids.
Found(c) ==
  IF c \in Bracketed THEN {} ELSE {r \in Pid : Alive(r) /\ cmdline[r] \in Longer[c]}

\* Mutant: only one of the pids is taken.
LookFirst(p) ==
  /\ Goto(p, "ps", "kill")
  /\ \E r \in Found(asked[p].cmd) : pids' = [pids EXCEPT ![p] = {r}]
  /\ UNCHANGED <<binary, procs, asked, test, hit, older>>
Look(p) ==
  /\ Found(asked[p].cmd) # {}
  /\ Goto(p, "ps", "kill")
  /\ pids' = [pids EXCEPT ![p] = Found(asked[p].cmd)]
  /\ UNCHANGED <<binary, procs, asked, test, hit, older>>
\* Nothing is found, or ps does not answer within the deadline.
LookFails(p) == Ends(p, "ps", "failed") /\ UNCHANGED <<binary, procs>>

\* kill(2) reaches a process that is there, and one that has ended as long as
\* nobody has waited for it.
Reached(r) == IF Alive(r) THEN {TRUE} ELSE BOOLEAN

\* Mutant: a pid without a process is tried again.
KillAgain(p) ==
  /\ \E r \in pids[p] :
       /\ Goto(p, "kill", "kill")
       /\ pids' = [pids EXCEPT ![p] = IF Alive(r) THEN @ \ {r} ELSE @]
       /\ hit' \in {[hit EXCEPT ![p] = @ \/ reached] : reached \in Reached(r)}
       /\ life' = [life EXCEPT ![r] = IF Alive(r) THEN "killed" ELSE @]
  /\ UNCHANGED <<binary, cmdline, asked, test, older>>
\* The shell's kill goes through its pids; one without a process does not stop it.
Kill(p) ==
  /\ \E r \in pids[p] :
       /\ Goto(p, "kill", "kill")
       /\ pids' = [pids EXCEPT ![p] = @ \ {r}]
       /\ hit' \in {[hit EXCEPT ![p] = @ \/ reached] : reached \in Reached(r)}
       /\ life' = [life EXCEPT ![r] = IF Alive(r) THEN "killed" ELSE @]
  /\ UNCHANGED <<binary, cmdline, asked, test, older>>
\* The shell's kill succeeds when it has sent a signal to one of its pids.
Destroyed(p) ==
  /\ pids[p] = {}
  /\ Ends(p, "kill", IF hit[p] THEN "ok" ELSE "failed")
  /\ UNCHANGED <<binary, procs>>
--------------------------------------------------------------------------------
\* The invocation is killed; what it started goes on.
Crash(p) ==
  /\ pc[p] # "idle" /\ crashes < MaxCrashes
  /\ Leave(p, "none")
  /\ crashes' = crashes + 1
  /\ UNCHANGED <<binary, procs>>

Step(p) ==
  \/ PermCheck(p) \/ PermFails(p)
  \/ TestStart(p) \/ TestRefused(p) \/ TestPassed(p) \/ TestKilled(p) \/ TestTimesOut(p)
  \/ Run(p)
  \/ Look(p) \/ LookFails(p) \/ Kill(p) \/ Destroyed(p)

Next ==
  \/ \E p \in Proc :
       \/ Step(p) \/ Crash(p)
       \/ \E op \in Op, c \in Cmd : Start(p, op, c)
  \/ \E r \in Pid : TestEnds(r) \/ Expire(r)

Spec == Init /\ [][Next]_vars

\* Invocations are scheduled, and a test run keeps its "-t 4s".
FairSpec ==
  /\ Spec
  /\ \A p \in Proc : WF_vars(Step(p))
  /\ \A r \in Pid : WF_vars(TestEnds(r))
--------------------------------------------------------------------------------
Request == [op : Op, cmd : Cmd]

TypeOK ==
  /\ binary \in {"missing", "plain", "exec"}
  /\ life \in [Pid -> {"unused", "test", "fault", "exited", "killed"}]
  /\ cmdline \in [Pid -> Cmd]
  /\ pc \in [Proc -> {"idle", "perm", "test", "wait", "run", "ps", "kill"}]
  /\ asked \in [Proc -> Request]
  /\ test \in [Proc -> Pid \cup {None}]
  /\ pids \in [Proc -> SUBSET Pid] /\ older \in [Proc -> SUBSET Pid]
  /\ hit \in [Proc -> BOOLEAN]
  /\ result \in [Proc -> {"none", "ok", "failed"}]
  /\ crashes \in 0..MaxCrashes
  /\ \A p \in Proc : /\ pc[p] \in {"test", "wait", "run"} => asked[p].op # "remove"
                     /\ pc[p] \in {"ps", "kill"} => asked[p].op = "remove"
                     /\ pc[p] = "wait" <=> test[p] # None

\* Destroy kills all there is, as its comment on several processes has it: when
\* a removal has gone through its kill, whether it reports success or that
\* nothing was left to kill, no process of its command is left that was
\* there when it was invoked, whatever other invocations did meanwhile.
Cleared ==
  [][\A p \in Proc :
       pc[p] = "kill" /\ result'[p] # result[p]
         => \A r \in older[p] :
              cmdline[r] = asked[p].cmd => life'[r] \in {"exited", "killed"}]_vars

\* The process an invocation starts to try the command ends: Prepare leaves no
\* load behind, not even when the invocation that waits for it is killed.
TestsEnd ==
  \A r \in Pid : Alive(r) /\ (\E p \in Proc : test[p] = r) ~> ~Alive(r)

\* Each invocation comes to its end, although removals kill each other's
\* processes and the test runs of injections.
Returns == \A p \in Proc : pc[p] # "idle" ~> pc[p] = "idle"
================================================================================

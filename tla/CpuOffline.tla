------------------------------- MODULE CpuOffline -------------------------------
(***************************************************************************)
(* cpu-offline: Prepare parses the list of --cpuid and looks for the       *)
(* control file of each CPU; the injection then writes "0", the removal    *)
(* "1", to one file after the other and stops at the first that fails.     *)
(* Each write is a shell of its own, which outlives an invocation that is  *)
(* killed and writes all the same.                                         *)
(***************************************************************************)
EXTENDS Arguments, FiniteSets, Functions

CONSTANTS
  Proc,       \* slots for invocations at work at the same time
  Cpu,        \* CPUs of the machine, each with its control file
  Args,       \* argument lists
  ListOf,     \* texts of the form n, n-m, ... -> the parts between the commas
  MaxInt,     \* the greatest int64
  MaxIds,     \* ids the memory of the machine has room for
  MaxMishaps  \* bound: invocations killed, late shells, vetoes of the kernel

Op   == {"prepare", "inject", "remove"}
Part == [start : Nat, end : Nat, dash : BOOLEAN]

ASSUME CpuAssumption ==
  /\ Cpu \subseteq Nat /\ IsFiniteSet(Cpu) /\ Cpu # {}
  /\ \A t \in DOMAIN ListOf : ListOf[t] \in Seq(Part)
  /\ \A t \in DOMAIN ListOf : \A i \in DOMAIN ListOf[t] :
       ~ListOf[t][i].dash => ListOf[t][i].end = ListOf[t][i].start
  /\ MaxInt \in Nat /\ MaxIds \in Nat /\ MaxMishaps \in Nat

VARIABLES
  online,   \* CPUs that are online
  orphans,  \* writes of shells whose invocation was killed: CPU and operation
  pc,       \* where each invocation is
  op,       \* its operation
  parts,    \* parts of the list it has to parse
  cpuList,  \* ids it has parsed
  at,       \* part, then CPU, it is at
  result,   \* what the last invocation of each slot reported
  seen,     \* history: CPUs online when the invocation came to its first write;
            \* none when somebody else has switched one since
  mishaps

machine == <<online, orphans>>
request == <<op, parts>>
vars    == <<machine, pc, request, cpuList, at, result, seen, mishaps>>

Goto(p, from, to) == pc[p] = from /\ pc' = [pc EXCEPT ![p] = to] /\ UNCHANGED result

\* The invocation ends; what it held is gone.
End(p, r) ==
  /\ pc' = [pc EXCEPT ![p] = "idle"]
  /\ result' = [result EXCEPT ![p] = r]
  /\ op' = [op EXCEPT ![p] = "prepare"]
  /\ parts' = [parts EXCEPT ![p] = <<>>]
  /\ cpuList' = [cpuList EXCEPT ![p] = <<>>]
  /\ at' = [at EXCEPT ![p] = 1]
Ends(p, from, r) == pc[p] = from /\ End(p, r)
Mishap == mishaps < MaxMishaps /\ mishaps' = mishaps + 1

Switched(o, cpus, these) == IF o = "inject" THEN cpus \ these ELSE cpus \cup these
\* The kernel keeps the last CPU.
Allowed(o, c) == Switched(o, online, {c}) # {}
Switch(o, c)  == online' = Switched(o, online, {c})
Forget(these) == seen' = [p \in Proc |-> IF p \in these THEN {} ELSE seen[p]]
--------------------------------------------------------------------------------
Init ==
  /\ online \in (SUBSET Cpu) \ {{}}
  /\ orphans = {}
  /\ pc = [p \in Proc |-> "idle"]
  /\ op = [p \in Proc |-> "prepare"] /\ parts = [p \in Proc |-> <<>>]
  /\ cpuList = [p \in Proc |-> <<>>]
  /\ at = [p \in Proc |-> 1]
  /\ result = [p \in Proc |-> "none"]
  /\ seen = [p \in Proc |-> {}]
  /\ mishaps = 0

\* Prepare, with the flags of the command line.
Start(p, o, args) ==
  LET flags == TransInputFlagsToMap(args)
  IN  /\ pc[p] = "idle"
      /\ \/ /\ "cpuid" \in DOMAIN flags /\ flags["cpuid"] \in DOMAIN ListOf
            /\ pc' = [pc EXCEPT ![p] = "parse"]
            /\ op' = [op EXCEPT ![p] = o]
            /\ parts' = [parts EXCEPT ![p] = ListOf[flags["cpuid"]]]
            /\ result' = [result EXCEPT ![p] = "none"]
            /\ cpuList' = [cpuList EXCEPT ![p] = <<>>]
            /\ at' = [at EXCEPT ![p] = 1]
         \/ /\ ~("cpuid" \in DOMAIN flags /\ flags["cpuid"] \in DOMAIN ListOf)
            /\ End(p, "failed")
      /\ UNCHANGED <<machine, seen, mishaps>>

\* cpuListParser, one part at a time.
ThisPart(p)  == parts[p][at[p]]
Ids(part)    == [i \in 1 .. part.end - part.start + 1 |-> part.start + i - 1]
isDuplicateCPUID(p, id) == id \in Range(cpuList[p])
Valid(p) ==
  LET part == ThisPart(p)
  IN  /\ part.end <= MaxInt /\ part.start <= part.end
      /\ \A id \in Range(Ids(part)) : ~isDuplicateCPUID(p, id)
\* i++ wraps around at the greatest integer: the loop over a range that ends
\* there goes on until there is no memory left.
Fits(p) ==
  LET part == ThisPart(p)
  IN  /\ part.dash => part.end < MaxInt
      /\ Len(cpuList[p]) + part.end - part.start + 1 <= MaxIds

\* Mutant: a range is taken without looking for its ids in the list.
ParsePartUnchecked(p) ==
  /\ Goto(p, "parse", "parse")
  /\ at[p] <= Len(parts[p]) /\ ThisPart(p).start <= ThisPart(p).end /\ Fits(p)
  /\ cpuList' = [cpuList EXCEPT ![p] = @ \o Ids(ThisPart(p))]
  /\ at' = [at EXCEPT ![p] = @ + 1]
  /\ UNCHANGED <<machine, request, seen, mishaps>>
ParsePart(p) ==
  /\ Goto(p, "parse", "parse")
  /\ at[p] <= Len(parts[p]) /\ Valid(p) /\ Fits(p)
  /\ cpuList' = [cpuList EXCEPT ![p] = @ \o Ids(ThisPart(p))]
  /\ at' = [at EXCEPT ![p] = @ + 1]
  /\ UNCHANGED <<machine, request, seen, mishaps>>
ParseFails(p) ==
  /\ Ends(p, "parse", "failed")
  /\ at[p] <= Len(parts[p]) /\ ~Valid(p)
  /\ UNCHANGED <<machine, seen, mishaps>>
\* The kernel kills the process that has all the memory.
ParseDies(p) ==
  /\ Ends(p, "parse", "none")
  /\ at[p] <= Len(parts[p]) /\ Valid(p) /\ ~Fits(p)
  /\ UNCHANGED <<machine, seen, mishaps>>

\* cpuExistenceCheck, after which an injection or a removal begins.
Parsed(p) == pc[p] = "parse" /\ at[p] > Len(parts[p])
Present(p) == Range(cpuList[p]) \subseteq Cpu
\* Mutant: the control files are not looked for.
BeginUnchecked(p) ==
  /\ Parsed(p) /\ op[p] # "prepare"
  /\ Goto(p, "parse", "exec")
  /\ at' = [at EXCEPT ![p] = 1]
  /\ seen' = [seen EXCEPT ![p] = online]
  /\ UNCHANGED <<machine, request, cpuList, mishaps>>
Begin(p) ==
  /\ Parsed(p) /\ Present(p) /\ op[p] # "prepare"
  /\ Goto(p, "parse", "exec")
  /\ at' = [at EXCEPT ![p] = 1]
  /\ seen' = [seen EXCEPT ![p] = online]
  /\ UNCHANGED <<machine, request, cpuList, mishaps>>
PrepareEnds(p) ==
  /\ Parsed(p)
  /\ \/ Present(p) /\ op[p] = "prepare" /\ End(p, "ok")
     \/ ~Present(p) /\ End(p, "failed")
  /\ UNCHANGED <<machine, seen, mishaps>>
--------------------------------------------------------------------------------
\* executor: one shell per CPU.
ThisCpu(p) == cpuList[p][at[p]]

Launch(p) ==
  /\ Goto(p, "exec", "shell")
  /\ at[p] <= Len(cpuList[p])
  /\ UNCHANGED <<machine, request, cpuList, at, seen, mishaps>>
Write(p) ==
  /\ Goto(p, "shell", "exec")
  /\ Allowed(op[p], ThisCpu(p))
  /\ Switch(op[p], ThisCpu(p)) /\ Forget(Proc \ {p})
  /\ at' = [at EXCEPT ![p] = @ + 1]
  /\ UNCHANGED <<orphans, request, cpuList, mishaps>>
\* Mutant: a CPU the kernel refuses to switch is passed over.
RefusedGoesOn(p) ==
  /\ Goto(p, "shell", "exec")
  /\ \/ ~Allowed(op[p], ThisCpu(p)) /\ UNCHANGED mishaps
     \/ Mishap
  /\ at' = [at EXCEPT ![p] = @ + 1]
  /\ UNCHANGED <<machine, request, cpuList, seen>>
\* The last CPU is busy; a driver may veto any.
Refused(p) ==
  /\ Ends(p, "shell", "failed")
  /\ \/ ~Allowed(op[p], ThisCpu(p)) /\ UNCHANGED mishaps
     \/ Mishap
  /\ Forget({p})
  /\ UNCHANGED machine
\* Five seconds are over.  A shell that is already in the kernel is waited for,
\* and its write takes place.
TimesOut(p) ==
  /\ Ends(p, "shell", "failed")
  /\ Mishap
  /\ \/ Allowed(op[p], ThisCpu(p)) /\ Switch(op[p], ThisCpu(p)) /\ Forget(Proc)
     \/ UNCHANGED online /\ Forget({p})
  /\ UNCHANGED orphans
\* Mutant: the loop ends one CPU early.
FinishEarly(p) ==
  /\ Ends(p, "exec", "ok")
  /\ at[p] >= Len(cpuList[p])
  /\ Forget({p})
  /\ UNCHANGED <<machine, mishaps>>
Finish(p) ==
  /\ Ends(p, "exec", "ok")
  /\ at[p] > Len(cpuList[p])
  /\ Forget({p})
  /\ UNCHANGED <<machine, mishaps>>
--------------------------------------------------------------------------------
\* kill -9 of the invocation; its shell goes on.
Crash(p) ==
  /\ pc[p] # "idle" /\ Mishap
  /\ End(p, "none")
  /\ orphans' = IF pc[p] = "shell" THEN orphans \cup {[cpu |-> ThisCpu(p), op |-> op[p]]}
                ELSE orphans
  /\ Forget({p})
  /\ UNCHANGED online
OrphanWrites ==
  \E w \in orphans :
    /\ orphans' = orphans \ {w}
    /\ \/ Allowed(w.op, w.cpu) /\ Switch(w.op, w.cpu)
       \/ ~Allowed(w.op, w.cpu) /\ UNCHANGED online
    /\ Forget(Proc)
    /\ UNCHANGED <<pc, request, cpuList, at, result, mishaps>>

Step(p) ==
  \/ ParsePart(p) \/ ParseFails(p) \/ ParseDies(p)
  \/ Begin(p) \/ PrepareEnds(p)
  \/ Launch(p) \/ Write(p) \/ Refused(p) \/ TimesOut(p) \/ Finish(p)

Next ==
  \/ \E p \in Proc : Step(p) \/ Crash(p) \/ \E o \in Op, a \in Args : Start(p, o, a)
  \/ OrphanWrites

Spec == Init /\ [][Next]_vars
--------------------------------------------------------------------------------
TypeOK ==
  /\ online \in (SUBSET Cpu) \ {{}}
  /\ orphans \subseteq [cpu : Cpu, op : Op]
  /\ pc \in [Proc -> {"idle", "parse", "exec", "shell"}]
  /\ op \in [Proc -> Op]
  /\ parts \in [Proc -> Seq(Part)]
  /\ cpuList \in [Proc -> Seq(Nat)]
  /\ at \in [Proc -> Nat \ {0}]
  /\ result \in [Proc -> {"none", "ok", "failed"}]
  /\ seen \in [Proc -> SUBSET Cpu]
  /\ mishaps \in 0 .. MaxMishaps

Busy(p)    == pc[p] \in {"exec", "shell"}
Alone(p)   == Busy(p) /\ seen[p] # {}
Covered(p) == UNION {Range(Ids(parts[p][i])) : i \in DOMAIN parts[p]}
Done(p)    == {cpuList[p][i] : i \in 1 .. at[p] - 1}

\* cpuListParser: what is switched is every id the parts of the list name, each
\* once, and each has its control file; a list that overlaps itself, runs
\* backwards or ends beyond the integers switches nothing.
ParsedExactly ==
  \A p \in Proc : Busy(p) =>
    /\ Range(cpuList[p]) = Covered(p) /\ Covered(p) \subseteq Cpu
    /\ IsInjective(cpuList[p])

\* executor: while nobody else switches CPUs, what an invocation has done is a
\* beginning of its list and nothing more, at every moment at which it may fail
\* or be killed.
PrefixDone ==
  \A p \in Proc : Alone(p) => online = Switched(op[p], seen[p], Done(p))

\* An injection or a removal that reports success, and beside which nobody else
\* switched CPUs, has switched all the CPUs of its list and no other.
SuccessIsWhole ==
  [][\A p \in Proc :
       Alone(p) /\ result'[p] = "ok"
         => online' = Switched(op[p], seen[p], Covered(p))]_vars
================================================================================

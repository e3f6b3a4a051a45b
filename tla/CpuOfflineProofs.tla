---------------------------- MODULE CpuOfflineProofs ----------------------------
(***************************************************************************)
(* What holds of CpuOffline for every set of CPUs, every argument list,    *)
(* any number of invocations, and shells that write late.                  *)
(***************************************************************************)
EXTENDS CpuOffline, TLAPS, SequenceTheorems

\* A part that runs forwards stands for the ids between its ends, each once.
LEMMA IdsOfPart ==
  ASSUME NEW part \in Part, part.start <= part.end
  PROVE  /\ Ids(part) \in Seq(Nat)
         /\ IsInjective(Ids(part))
<1> DEFINE n == part.end - part.start + 1
<1>1. n \in Nat /\ part.start \in Nat
  BY DEF Part
<1>2. Ids(part) \in [1 .. n -> Nat]
  BY <1>1 DEF Ids
<1>3. Ids(part) \in Seq(Nat)
  BY <1>1, <1>2, SeqDef
<1>4. IsInjective(Ids(part))
  BY <1>1 DEF Ids, IsInjective
<1> QED
  BY <1>3, <1>4

\* Appending a list that shares no element with a list adds its elements, and
\* repeats none.
LEMMA Appended ==
  ASSUME NEW s \in Seq(Nat), NEW t \in Seq(Nat),
         IsInjective(s), IsInjective(t), \A x \in Range(t) : x \notin Range(s)
  PROVE  /\ s \o t \in Seq(Nat)
         /\ Range(s \o t) = Range(s) \cup Range(t)
         /\ IsInjective(s \o t)
<1>1. /\ s \o t \in Seq(Nat)
      /\ Len(s \o t) = Len(s) + Len(t)
      /\ \A i \in 1 .. Len(s) + Len(t) :
           (s \o t)[i] = IF i <= Len(s) THEN s[i] ELSE t[i - Len(s)]
  BY ConcatProperties
<1>2. /\ DOMAIN s = 1 .. Len(s) /\ DOMAIN t = 1 .. Len(t)
      /\ DOMAIN (s \o t) = 1 .. Len(s) + Len(t)
      /\ Len(s) \in Nat /\ Len(t) \in Nat
  BY <1>1, LenProperties
<1>3. Range(s \o t) \subseteq Range(s) \cup Range(t)
  BY <1>1, <1>2 DEF Range
<1>4. Range(s) \subseteq Range(s \o t)
  <2> SUFFICES ASSUME NEW i \in DOMAIN s PROVE s[i] \in Range(s \o t)
    BY DEF Range
  <2>1. i \in DOMAIN (s \o t) /\ (s \o t)[i] = s[i]
    BY <1>1, <1>2
  <2> QED
    BY <2>1 DEF Range
<1>5. Range(t) \subseteq Range(s \o t)
  <2> SUFFICES ASSUME NEW i \in DOMAIN t PROVE t[i] \in Range(s \o t)
    BY DEF Range
  <2>1. i + Len(s) \in DOMAIN (s \o t) /\ (s \o t)[i + Len(s)] = t[i]
    BY <1>1, <1>2
  <2> QED
    BY <2>1 DEF Range
<1>6. ASSUME NEW i \in DOMAIN (s \o t), NEW j \in DOMAIN (s \o t),
             (s \o t)[i] = (s \o t)[j]
      PROVE  i = j
  <2>1. CASE i <= Len(s) /\ j <= Len(s)
    BY <1>1, <1>2, <1>6, <2>1 DEF IsInjective
  <2>2. CASE i > Len(s) /\ j > Len(s)
    <3>1. i - Len(s) \in DOMAIN t /\ j - Len(s) \in DOMAIN t
      BY <1>2, <2>2
    <3>2. t[i - Len(s)] = t[j - Len(s)]
      BY <1>1, <1>2, <1>6, <2>2
    <3>3. i - Len(s) = j - Len(s)
      BY <3>1, <3>2 DEF IsInjective
    <3> QED
      BY <1>2, <3>3
  <2>3. ASSUME NEW k \in 1 .. Len(s), NEW l \in 1 .. Len(t) PROVE s[k] # t[l]
    BY <1>2 DEF Range
  <2>4. CASE i <= Len(s) /\ j > Len(s)
    BY <1>1, <1>2, <1>6, <2>3, <2>4
  <2>5. CASE i > Len(s) /\ j <= Len(s)
    BY <1>1, <1>2, <1>6, <2>3, <2>5
  <2> QED
    BY <1>2, <2>1, <2>2, <2>4, <2>5
<1> QED
  BY <1>1, <1>3, <1>4, <1>5, <1>6 DEF IsInjective
--------------------------------------------------------------------------------
\* Where an invocation is in its list, and what it has of it.
Taken(p) == IF pc[p] = "parse" THEN at[p] - 1 ELSE Len(parts[p])
Parsing(p) ==
  pc[p] # "idle" =>
    /\ result[p] = "none"
    /\ Range(cpuList[p]) = UNION {Range(Ids(parts[p][i])) : i \in 1 .. Taken(p)}
    /\ IsInjective(cpuList[p])
    /\ pc[p] = "parse" => at[p] <= Len(parts[p]) + 1
    /\ Busy(p) => Range(cpuList[p]) \subseteq Cpu
    /\ pc[p] = "exec" => at[p] <= Len(cpuList[p]) + 1
    /\ pc[p] = "shell" => at[p] <= Len(cpuList[p])

\* What PrefixDone says of one invocation.
Prefix(p) == Alone(p) => online = Switched(op[p], seen[p], Done(p))

IInv == TypeOK /\ \A p \in Proc : Parsing(p) /\ Prefix(p)

\* An invocation whose own state stays as it is.
Untouched(q) ==
  /\ pc'[q] = pc[q] /\ op'[q] = op[q] /\ parts'[q] = parts[q]
  /\ cpuList'[q] = cpuList[q] /\ at'[q] = at[q] /\ result'[q] = result[q]

\* To an invocation that stays as it is nothing changes, unless a CPU was switched
\* and it has been told.
LEMMA UntouchedKeeps ==
  ASSUME NEW q \in Proc, Untouched(q), Parsing(q), Prefix(q),
         (online' = online /\ seen'[q] = seen[q]) \/ seen'[q] = {}
  PROVE  Parsing(q)' /\ Prefix(q)'
<1>1. Parsing(q)'
  BY DEF Untouched, Parsing, Taken, Busy
<1>2. Done(q)' = Done(q)
  BY DEF Untouched, Done
<1>3. Prefix(q)'
  BY <1>2 DEF Untouched, Prefix, Alone, Busy, Switched
<1> QED
  BY <1>1, <1>3

\* An invocation that ends leaves nothing to say about it, and the others as they
\* were.
LEMMA EndKeeps ==
  ASSUME TypeOK, NEW p \in Proc, NEW r \in {"none", "ok", "failed"}, End(p, r)
  PROVE  /\ \A q \in Proc \ {p} : Untouched(q)
         /\ Parsing(p)' /\ Prefix(p)'
         /\ pc' \in [Proc -> {"idle", "parse", "exec", "shell"}]
         /\ op' \in [Proc -> Op]
         /\ parts' \in [Proc -> Seq(Part)]
         /\ cpuList' \in [Proc -> Seq(Nat)]
         /\ at' \in [Proc -> Nat \ {0}]
         /\ result' \in [Proc -> {"none", "ok", "failed"}]
<1>1. <<>> \in Seq(Part) /\ <<>> \in Seq(Nat)
  BY EmptySeq
<1>2. \A q \in Proc \ {p} : Untouched(q)
  BY DEF End, TypeOK, Untouched
<1>3. pc'[p] = "idle"
  BY DEF End, TypeOK
<1>4. Parsing(p)' /\ Prefix(p)'
  BY <1>3 DEF Parsing, Prefix, Alone, Busy
<1> QED
  BY <1>1, <1>2, <1>4 DEF End, TypeOK, Op

\* The step that takes a part of the list.
LEMMA ParsePartKeeps ==
  ASSUME CpuAssumption, IInv, NEW p \in Proc, ParsePart(p)
  PROVE  IInv'
<1> USE DEF machine, request
<1> DEFINE part == parts[p][at[p]]
<1>1. /\ pc[p] = "parse" /\ at[p] \in 1 .. Len(parts[p])
      /\ parts[p] \in Seq(Part) /\ cpuList[p] \in Seq(Nat)
      /\ Len(parts[p]) \in Nat
  BY LenProperties DEF IInv, TypeOK, ParsePart, Goto
<1>2. part \in Part /\ part.start <= part.end
  BY <1>1, ElementOfSeq DEF ParsePart, Valid, ThisPart
<1>3. Ids(part) \in Seq(Nat) /\ IsInjective(Ids(part))
  BY <1>2, IdsOfPart
<1>4. \A x \in Range(Ids(part)) : x \notin Range(cpuList[p])
  BY DEF ParsePart, Valid, ThisPart, isDuplicateCPUID
<1>5. /\ cpuList[p] \o Ids(part) \in Seq(Nat)
      /\ Range(cpuList[p] \o Ids(part)) = Range(cpuList[p]) \cup Range(Ids(part))
      /\ IsInjective(cpuList[p] \o Ids(part))
  <2>1. IsInjective(cpuList[p])
    BY <1>1 DEF IInv, Parsing
  <2> HIDE DEF part
  <2> QED
    BY <1>1, <1>3, <1>4, <2>1, Appended
<1>6. /\ cpuList'[p] = cpuList[p] \o Ids(part) /\ at'[p] = at[p] + 1
      /\ pc'[p] = "parse" /\ parts' = parts /\ result' = result /\ result[p] = "none"
      /\ \A q \in Proc \ {p} : cpuList'[q] = cpuList[q] /\ at'[q] = at[q] /\ pc'[q] = pc[q]
  BY <1>1 DEF IInv, TypeOK, Parsing, ParsePart, Goto, ThisPart
<1>7. TypeOK'
  BY <1>1, <1>5, <1>6 DEF IInv, TypeOK, ParsePart, Goto, ThisPart
<1>8. Parsing(p)'
  <2>1. Range(cpuList[p]) = UNION {Range(Ids(parts[p][i])) : i \in 1 .. at[p] - 1}
    BY <1>1 DEF IInv, Parsing, Taken
  <2>2. 1 .. at[p] = (1 .. at[p] - 1) \cup {at[p]}
    BY <1>1
  <2>3. Range(cpuList'[p]) = UNION {Range(Ids(parts[p][i])) : i \in 1 .. at[p]}
    BY <1>5, <1>6, <2>1, <2>2
  <2>4. 1 .. at'[p] - 1 = 1 .. at[p]
    BY <1>1, <1>6
  <2>5. at'[p] <= Len(parts'[p]) + 1
    BY <1>1, <1>6
  <2>6. IsInjective(cpuList'[p])
    BY <1>5, <1>6
  <2> QED
    BY <1>6, <2>3, <2>4, <2>5, <2>6 DEF Parsing, Taken, Busy
<1>9. Prefix(p)'
  BY <1>6 DEF Prefix, Alone, Busy
<1>10. ASSUME NEW q \in Proc \ {p} PROVE Parsing(q)' /\ Prefix(q)'
  <2>1. Untouched(q) /\ online' = online /\ seen'[q] = seen[q]
    BY <1>6 DEF Untouched, ParsePart
  <2> QED
    BY <2>1, UntouchedKeeps DEF IInv
<1> QED
  BY <1>7, <1>8, <1>9, <1>10 DEF IInv

\* The end of Prepare: the whole list has been taken, and every CPU is there.
LEMMA BeginKeeps ==
  ASSUME IInv, NEW p \in Proc, Begin(p)
  PROVE  IInv'
<1> USE DEF machine, request
<1>1. /\ pc[p] = "parse" /\ at[p] > Len(parts[p]) /\ Range(cpuList[p]) \subseteq Cpu
      /\ at[p] \in Nat /\ Len(parts[p]) \in Nat /\ Len(cpuList[p]) \in Nat
  BY LenProperties DEF IInv, TypeOK, Begin, Parsed, Present
<1>2. /\ pc'[p] = "exec" /\ at'[p] = 1 /\ seen'[p] = online /\ online' = online
      /\ parts' = parts /\ cpuList' = cpuList /\ op' = op /\ result'[p] = "none"
  BY <1>1 DEF IInv, TypeOK, Parsing, Begin, Goto
<1>3. TypeOK'
  BY DEF IInv, TypeOK, Begin, Goto
<1>4. Parsing(p)'
  <2>1. at[p] - 1 = Len(parts[p])
    BY <1>1 DEF IInv, Parsing
  <2>2. Range(cpuList[p]) = UNION {Range(Ids(parts[p][i])) : i \in 1 .. Len(parts[p])}
    BY <1>1, <2>1 DEF IInv, Parsing, Taken
  <2>3. IsInjective(cpuList[p])
    BY <1>1 DEF IInv, Parsing
  <2> QED
    BY <1>1, <1>2, <2>2, <2>3 DEF Parsing, Taken, Busy
<1>5. Prefix(p)'
  <2>1. Done(p)' = {}
    BY <1>2 DEF Done
  <2> QED
    BY <1>2, <2>1 DEF Prefix, Switched
<1>6. ASSUME NEW q \in Proc \ {p} PROVE Parsing(q)' /\ Prefix(q)'
  <2>1. Untouched(q) /\ online' = online /\ seen'[q] = seen[q]
    BY DEF IInv, TypeOK, Untouched, Begin, Goto
  <2> QED
    BY <2>1, UntouchedKeeps DEF IInv
<1> QED
  BY <1>3, <1>4, <1>5, <1>6 DEF IInv

\* A CPU that is switched is one of the machine, and is not its last.
LEMMA SwitchTyped ==
  ASSUME TypeOK, NEW o, NEW c \in Cpu, Allowed(o, c), Switch(o, c)
  PROVE  online' \in (SUBSET Cpu) \ {{}}
BY DEF TypeOK, Allowed, Switch, Switched

\* A write that succeeds adds its CPU to what the invocation has done, and tells
\* the others.
LEMMA WriteKeeps ==
  ASSUME IInv, NEW p \in Proc, Write(p)
  PROVE  IInv'
<1> USE DEF request
<1> DEFINE c == cpuList[p][at[p]]
<1>1. /\ pc[p] = "shell" /\ at[p] \in 1 .. Len(cpuList[p])
      /\ cpuList[p] \in Seq(Nat) /\ Len(cpuList[p]) \in Nat
      /\ DOMAIN cpuList[p] = 1 .. Len(cpuList[p])
  BY LenProperties DEF IInv, TypeOK, Parsing, Write, Goto
<1>2. c \in Cpu
  BY <1>1 DEF IInv, Parsing, Busy, Range
<1>3. /\ pc'[p] = "exec" /\ at'[p] = at[p] + 1
      /\ parts' = parts /\ cpuList' = cpuList /\ op' = op /\ result' = result
      /\ online' = Switched(op[p], online, {c})
      /\ seen'[p] = seen[p] /\ \A q \in Proc \ {p} : seen'[q] = {}
  BY DEF IInv, TypeOK, Write, Goto, Switch, ThisCpu, Forget
<1>4. online' \in (SUBSET Cpu) \ {{}}
  BY <1>2, SwitchTyped DEF IInv, Write, ThisCpu
<1>5. TypeOK'
  BY <1>1, <1>4 DEF IInv, TypeOK, Write, Goto, Forget
<1>6. Parsing(p)'
  <2>1. /\ result[p] = "none" /\ IsInjective(cpuList[p]) /\ Range(cpuList[p]) \subseteq Cpu
        /\ Range(cpuList[p]) = UNION {Range(Ids(parts[p][i])) : i \in 1 .. Len(parts[p])}
    BY <1>1 DEF IInv, Parsing, Taken, Busy
  <2>2. at'[p] <= Len(cpuList[p]) + 1
    BY <1>1, <1>3
  <2> QED
    BY <1>3, <2>1, <2>2 DEF Parsing, Taken, Busy
<1>7. Prefix(p)'
  <2> DEFINE k == at[p]
  <2>1. k \in Nat \ {0} /\ at'[p] - 1 = k
    BY <1>1, <1>3
  <2>2. 1 .. k = (1 .. k - 1) \cup {k}
    <3> HIDE DEF k
    <3> QED
      BY <2>1
  <2> HIDE DEF k
  <2>4. Done(p)' = {cpuList[p][i] : i \in 1 .. k}
    BY <1>3, <2>1 DEF Done
  <2>5. Done(p) = {cpuList[p][i] : i \in 1 .. k - 1} /\ c = cpuList[p][k]
    BY DEF Done, k
  <2>6. Done(p)' = Done(p) \cup {c}
    BY <2>2, <2>4, <2>5
  <2>3. Alone(p)' => online = Switched(op[p], seen[p], Done(p))
    BY <1>1, <1>3 DEF IInv, Prefix, Alone, Busy
  <2> QED
    BY <1>3, <2>3, <2>6 DEF Prefix, Switched
<1>8. ASSUME NEW q \in Proc \ {p} PROVE Parsing(q)' /\ Prefix(q)'
  <2>1. Untouched(q) /\ seen'[q] = {}
    BY <1>3 DEF IInv, TypeOK, Untouched, Write, Goto
  <2> QED
    BY <2>1, UntouchedKeeps DEF IInv
<1> QED
  BY <1>5, <1>6, <1>7, <1>8 DEF IInv

\* Steps that end an invocation, whatever they do to a CPU.
LEMMA EndingKeeps ==
  ASSUME IInv, NEW p \in Proc, NEW r \in {"none", "ok", "failed"}, End(p, r),
         online' \in (SUBSET Cpu) \ {{}},
         orphans' \subseteq [cpu : Cpu, op : Op],
         mishaps' \in 0 .. MaxMishaps,
         seen' \in [Proc -> SUBSET Cpu],
         \A q \in Proc \ {p} : (online' = online /\ seen'[q] = seen[q]) \/ seen'[q] = {}
  PROVE  IInv'
<1>1. TypeOK'
  BY EndKeeps DEF IInv, TypeOK
<1>2. ASSUME NEW q \in Proc \ {p} PROVE Parsing(q)' /\ Prefix(q)'
  BY EndKeeps, UntouchedKeeps DEF IInv
<1>3. Parsing(p)' /\ Prefix(p)'
  BY EndKeeps DEF IInv
<1> QED
  BY <1>1, <1>2, <1>3 DEF IInv

\* A command that is started: an argument holds a list, or it fails.
LEMMA StartKeeps ==
  ASSUME CpuAssumption, IInv, NEW p \in Proc, NEW o \in Op, NEW a \in Args, Start(p, o, a)
  PROVE  IInv'
<1> DEFINE flags == TransInputFlagsToMap(a)
<1> USE DEF machine
<1>1. CASE "cpuid" \in DOMAIN flags /\ flags["cpuid"] \in DOMAIN ListOf
  <2> DEFINE list == ListOf[flags["cpuid"]]
  <2>1. list \in Seq(Part)
    BY <1>1 DEF CpuAssumption
  <2>2. /\ pc' = [pc EXCEPT ![p] = "parse"] /\ op' = [op EXCEPT ![p] = o]
        /\ parts' = [parts EXCEPT ![p] = list]
        /\ result' = [result EXCEPT ![p] = "none"]
        /\ cpuList' = [cpuList EXCEPT ![p] = <<>>] /\ at' = [at EXCEPT ![p] = 1]
        /\ UNCHANGED <<machine, seen, mishaps>>
    BY <1>1 DEF Start
  <2>3. <<>> \in Seq(Nat) /\ Len(list) \in Nat
    BY <2>1, EmptySeq, LenProperties
  <2> HIDE DEF list, flags
  <2>4. TypeOK'
    BY <2>1, <2>2, <2>3 DEF IInv, TypeOK
  <2>5. /\ pc'[p] = "parse" /\ at'[p] = 1 /\ cpuList'[p] = <<>> /\ parts'[p] = list
          /\ result'[p] = "none"
    BY <2>2 DEF IInv, TypeOK
  <2>6. Range(<<>>) = {} /\ IsInjective(<<>>)
    BY DEF Range, IsInjective
  <2>7. Parsing(p)'
    <3>1. 1 .. at'[p] - 1 = {}
      BY <2>5
    <3>2. UNION {Range(Ids(parts'[p][i])) : i \in 1 .. at'[p] - 1} = {}
      BY <3>1
    <3> QED
      BY <2>3, <2>5, <2>6, <3>2 DEF Parsing, Taken, Busy
  <2>8. Prefix(p)'
    BY <2>5 DEF Prefix, Alone, Busy
  <2>9. ASSUME NEW q \in Proc \ {p} PROVE Parsing(q)' /\ Prefix(q)'
    <3>1. Untouched(q) /\ online' = online /\ seen'[q] = seen[q]
      BY <2>2 DEF IInv, TypeOK, Untouched
    <3> QED
      BY <3>1, UntouchedKeeps DEF IInv
  <2> QED
    BY <2>4, <2>7, <2>8, <2>9 DEF IInv
<1>2. CASE ~("cpuid" \in DOMAIN flags /\ flags["cpuid"] \in DOMAIN ListOf)
  <2>1. End(p, "failed") /\ UNCHANGED <<machine, seen, mishaps>>
    BY <1>2 DEF Start
  <2> HIDE DEF flags
  <2> QED
    BY <2>1, EndingKeeps DEF IInv, TypeOK
<1> QED
  BY <1>1, <1>2

\* The shell of a CPU is started.
LEMMA LaunchKeeps ==
  ASSUME IInv, NEW p \in Proc, Launch(p)
  PROVE  IInv'
<1> USE DEF machine, request
<1>1. TypeOK'
  BY DEF IInv, TypeOK, Launch, Goto
<1>2. /\ pc[p] = "exec" /\ pc'[p] = "shell" /\ at[p] <= Len(cpuList[p])
      /\ UNCHANGED <<online, op, parts, cpuList, at, result, seen>>
  BY DEF IInv, TypeOK, Launch, Goto
<1>3. Parsing(p)'
  BY <1>2 DEF IInv, Parsing, Taken, Busy
<1>4. Prefix(p)'
  BY <1>2 DEF IInv, Prefix, Alone, Busy, Done, Switched
<1>5. ASSUME NEW q \in Proc \ {p} PROVE Parsing(q)' /\ Prefix(q)'
  <2>1. Untouched(q) /\ online' = online /\ seen'[q] = seen[q]
    BY DEF IInv, TypeOK, Untouched, Launch, Goto
  <2> QED
    BY <2>1, UntouchedKeeps DEF IInv
<1> QED
  BY <1>1, <1>3, <1>4, <1>5 DEF IInv

\* The CPU an invocation is at when it waits for a shell is one of the machine.
LEMMA ThisCpuThere ==
  ASSUME IInv, NEW p \in Proc, pc[p] = "shell"
  PROVE  ThisCpu(p) \in Cpu
<1>1. at[p] \in 1 .. Len(cpuList[p]) /\ DOMAIN cpuList[p] = 1 .. Len(cpuList[p])
  BY LenProperties DEF IInv, TypeOK, Parsing
<1> QED
  BY <1>1 DEF IInv, Parsing, Busy, Range, ThisCpu

\* Each step keeps the invariant.
LEMMA StepKeeps ==
  ASSUME CpuAssumption, IInv, [Next]_vars
  PROVE  IInv'
<1> USE DEF machine, request
<1>1. ASSUME NEW p \in Proc, Step(p) PROVE IInv'
  <2>1. CASE ParsePart(p)
    BY <2>1, ParsePartKeeps
  <2>2. CASE ParseFails(p) \/ ParseDies(p)
    BY <2>2, EndingKeeps DEF ParseFails, ParseDies, Ends, IInv, TypeOK
  <2>3. CASE Begin(p)
    BY <2>3, BeginKeeps
  <2>4. CASE PrepareEnds(p)
    BY <2>4, EndingKeeps DEF PrepareEnds, IInv, TypeOK
  <2>5. CASE Launch(p)
    BY <2>5, LaunchKeeps
  <2>6. CASE Write(p)
    BY <2>6, WriteKeeps
  <2>7. CASE Refused(p)
    <3>1. mishaps' \in 0 .. MaxMishaps
      BY <2>7, CpuAssumption DEF Refused, Mishap, IInv, TypeOK, CpuAssumption
    <3> QED
      BY <2>7, <3>1, EndingKeeps DEF Refused, Ends, Forget, IInv, TypeOK
  <2>8. CASE TimesOut(p)
    <3>1. mishaps' \in 0 .. MaxMishaps
      BY <2>8, CpuAssumption DEF TimesOut, Mishap, IInv, TypeOK, CpuAssumption
    <3>2. online' \in (SUBSET Cpu) \ {{}}
      BY <2>8, ThisCpuThere, SwitchTyped DEF TimesOut, Ends, IInv, TypeOK
    <3>3. \A q \in Proc \ {p} : (online' = online /\ seen'[q] = seen[q]) \/ seen'[q] = {}
      BY <2>8 DEF TimesOut, Forget, IInv, TypeOK
    <3> QED
      BY <2>8, <3>1, <3>2, <3>3, EndingKeeps DEF TimesOut, Ends, Forget, IInv, TypeOK
  <2>9. CASE Finish(p)
    BY <2>9, EndingKeeps DEF Finish, Ends, Forget, IInv, TypeOK
  <2> QED
    BY <1>1, <2>1, <2>2, <2>3, <2>4, <2>5, <2>6, <2>7, <2>8, <2>9 DEF Step
<1>2. ASSUME NEW p \in Proc, Crash(p) PROVE IInv'
  <2>1. mishaps' \in 0 .. MaxMishaps
    BY <1>2, CpuAssumption DEF Crash, Mishap, IInv, TypeOK, CpuAssumption
  <2>2. orphans' \subseteq [cpu : Cpu, op : Op]
    BY <1>2, ThisCpuThere DEF Crash, IInv, TypeOK
  <2> QED
    BY <1>2, <2>1, <2>2, EndingKeeps DEF Crash, Forget, IInv, TypeOK
<1>3. ASSUME NEW p \in Proc, NEW o \in Op, NEW a \in Args, Start(p, o, a) PROVE IInv'
  BY <1>3, StartKeeps
<1>4. CASE OrphanWrites
  <2>1. PICK w \in orphans :
          /\ orphans' = orphans \ {w}
          /\ \/ Allowed(w.op, w.cpu) /\ Switch(w.op, w.cpu)
             \/ ~Allowed(w.op, w.cpu) /\ UNCHANGED online
    BY <1>4 DEF OrphanWrites
  <2>2. w.cpu \in Cpu
    BY DEF IInv, TypeOK
  <2>3. online' \in (SUBSET Cpu) \ {{}}
    BY <2>1, <2>2, SwitchTyped DEF IInv, TypeOK
  <2>4. TypeOK'
    BY <1>4, <2>1, <2>3 DEF OrphanWrites, Forget, IInv, TypeOK
  <2>5. ASSUME NEW q \in Proc PROVE Parsing(q)' /\ Prefix(q)'
    <3>1. Untouched(q) /\ seen'[q] = {}
      BY <1>4 DEF OrphanWrites, Forget, Untouched
    <3> QED
      BY <3>1, UntouchedKeeps DEF IInv
  <2> QED
    BY <2>4, <2>5 DEF IInv
<1>5. CASE UNCHANGED vars
  <2>1. TypeOK'
    BY <1>5 DEF vars, IInv, TypeOK
  <2>2. ASSUME NEW q \in Proc PROVE Parsing(q)' /\ Prefix(q)'
    <3>1. Untouched(q) /\ online' = online /\ seen'[q] = seen[q]
      BY <1>5 DEF vars, Untouched
    <3> QED
      BY <3>1, UntouchedKeeps DEF IInv
  <2> QED
    BY <2>1, <2>2 DEF IInv
<1> QED
  BY <1>1, <1>2, <1>3, <1>4, <1>5 DEF Next
--------------------------------------------------------------------------------
\* The strengthening holds in every run.
LEMMA Invariant == Spec => []IInv
<1>1. Init => IInv
  <2> SUFFICES ASSUME Init PROVE IInv
    OBVIOUS
  <2>1. <<>> \in Seq(Part) /\ <<>> \in Seq(Nat)
    BY EmptySeq
  <2>2. TypeOK
    BY <2>1, CpuAssumption DEF Init, TypeOK, CpuAssumption, Op
  <2>3. \A p \in Proc : pc[p] = "idle"
    BY DEF Init
  <2> QED
    BY <2>2, <2>3 DEF IInv, Parsing, Prefix, Alone, Busy
<1>2. IInv /\ [Next]_vars => IInv'
  BY CpuAssumption, StepKeeps
<1> QED
  BY <1>1, <1>2, PTL DEF Spec

\* The machine keeps a CPU online, and no write goes to a CPU it has not: in
\* every run, whatever the argument lists.
THEOREM TypeCorrect == Spec => []TypeOK
<1>1. IInv => TypeOK
  BY DEF IInv
<1> QED
  BY <1>1, Invariant, PTL

\* cpuListParser takes exactly the ids its text names, each once, for every text
\* and every width of the integers.
THEOREM ParserExact == Spec => []ParsedExactly
<1>1. IInv => ParsedExactly
  <2> SUFFICES ASSUME IInv, NEW p \in Proc, Busy(p)
               PROVE  /\ Range(cpuList[p]) = Covered(p) /\ Covered(p) \subseteq Cpu
                      /\ IsInjective(cpuList[p])
    BY DEF ParsedExactly
  <2>1. DOMAIN parts[p] = 1 .. Len(parts[p])
    BY LenProperties DEF IInv, TypeOK
  <2>2. /\ Range(cpuList[p]) = UNION {Range(Ids(parts[p][i])) : i \in 1 .. Len(parts[p])}
        /\ IsInjective(cpuList[p]) /\ Range(cpuList[p]) \subseteq Cpu
    BY DEF IInv, Parsing, Taken, Busy
  <2> QED
    BY <2>1, <2>2 DEF Covered
<1> QED
  BY <1>1, Invariant, PTL

\* An invocation that nobody disturbs has done a beginning of its list, wherever
\* it fails or is killed.
THEOREM PrefixHolds == Spec => []PrefixDone
<1>1. IInv => PrefixDone
  BY DEF IInv, Prefix, PrefixDone
<1> QED
  BY <1>1, Invariant, PTL

\* Of an invocation that is at its writes only Finish reports success.
LEMMA OkIsFinish ==
  ASSUME IInv, [Next]_vars, NEW p \in Proc, Busy(p), result'[p] = "ok"
  PROVE  Finish(p)
<1>1. result[p] = "none" /\ pc[p] \in {"exec", "shell"} /\ TypeOK
  BY DEF IInv, Parsing, Busy
<1>2. ASSUME NEW q \in Proc, NEW r \in {"none", "failed"}, End(q, r) PROVE FALSE
  <2>1. CASE q = p
    BY <1>1, <1>2, <2>1 DEF End, TypeOK
  <2>2. CASE q # p
    BY <1>1, <1>2, <2>2 DEF End, TypeOK
  <2> QED
    BY <2>1, <2>2
<1>3. ASSUME NEW q \in Proc, q # p, End(q, "ok") PROVE FALSE
  BY <1>1, <1>3 DEF End, TypeOK
<1>4. ~UNCHANGED result
  BY <1>1
<1>5. ASSUME NEW q \in Proc, Step(q) PROVE Finish(p)
  <2>1. CASE ParsePart(q) \/ Begin(q) \/ Launch(q) \/ Write(q)
    BY <1>4, <2>1 DEF ParsePart, Begin, Launch, Write, Goto
  <2>2. CASE ParseFails(q) \/ ParseDies(q) \/ Refused(q) \/ TimesOut(q)
    BY <1>2, <2>2 DEF ParseFails, ParseDies, Refused, TimesOut, Ends
  <2>3. CASE PrepareEnds(q)
    <3>1. pc[q] = "parse"
      BY <2>3 DEF PrepareEnds, Parsed
    <3>2. q # p
      BY <1>1, <3>1
    <3> QED
      BY <1>2, <1>3, <2>3, <3>2 DEF PrepareEnds
  <2>4. CASE Finish(q)
    BY <1>3, <2>4 DEF Finish, Ends
  <2> QED
    BY <1>5, <2>1, <2>2, <2>3, <2>4 DEF Step
<1>6. ASSUME NEW q \in Proc, Crash(q) PROVE FALSE
  BY <1>2, <1>6 DEF Crash
<1>7. ASSUME NEW q \in Proc, NEW o \in Op, NEW a \in Args, Start(q, o, a) PROVE FALSE
  <2>1. CASE End(q, "failed")
    BY <1>2, <2>1
  <2>2. CASE pc[q] = "idle" /\ result' = [result EXCEPT ![q] = "none"]
    BY <1>1, <2>2 DEF TypeOK
  <2> QED
    BY <1>7, <2>1, <2>2 DEF Start
<1>8. CASE OrphanWrites \/ UNCHANGED vars
  BY <1>4, <1>8 DEF OrphanWrites, vars
<1> QED
  BY <1>5, <1>6, <1>7, <1>8 DEF Next

\* One that reports success has done it all.
THEOREM SuccessWhole == Spec => SuccessIsWhole
<1> DEFINE Whole(p) == Alone(p) /\ result'[p] = "ok" =>
                         online' = Switched(op[p], seen[p], Covered(p))
<1>1. ASSUME IInv, [Next]_vars, NEW p \in Proc PROVE Whole(p)
  <2> SUFFICES ASSUME Alone(p), result'[p] = "ok"
               PROVE  online' = Switched(op[p], seen[p], Covered(p))
    OBVIOUS
  <2>1. Finish(p)
    BY <1>1, OkIsFinish DEF Alone
  <2>2. /\ at[p] > Len(cpuList[p]) /\ pc[p] = "exec" /\ online' = online
        /\ at[p] \in Nat /\ Len(cpuList[p]) \in Nat
        /\ DOMAIN cpuList[p] = 1 .. Len(cpuList[p])
        /\ DOMAIN parts[p] = 1 .. Len(parts[p])
    BY <1>1, <2>1, LenProperties DEF Finish, Ends, machine, IInv, TypeOK
  <2>3. /\ Range(cpuList[p]) = UNION {Range(Ids(parts[p][i])) : i \in 1 .. Taken(p)}
        /\ at[p] <= Len(cpuList[p]) + 1 /\ Taken(p) = Len(parts[p])
        /\ online = Switched(op[p], seen[p], Done(p))
    BY <1>1, <2>2 DEF IInv, Parsing, Prefix, Taken
  <2>4. at[p] - 1 = Len(cpuList[p])
    BY <2>2, <2>3
  <2>5. Done(p) = Range(cpuList[p])
    BY <2>2, <2>4 DEF Done, Range
  <2>6. Covered(p) = Range(cpuList[p])
    BY <2>2, <2>3 DEF Covered
  <2> QED
    BY <2>2, <2>3, <2>5, <2>6
<1>2. IInv /\ [Next]_vars => [\A p \in Proc : Whole(p)]_vars
  BY <1>1
<1> QED
  BY <1>2, Invariant, PTL DEF Spec, SuccessIsWhole
================================================================================

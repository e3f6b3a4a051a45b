------------------------------- MODULE SystemFaults -------------------------------
(***************************************************************************)
(* The system faults on one machine: system-time-jump, the two service     *)
(* faults, and those that write a letter to /proc/sysrq-trigger; and what  *)
(* RunCmd does with a request before it hands it to one of them.  The      *)
(* clock, systemd's job for the service and the remount of the disk go on  *)
(* after the invocation that set them off, and a reboot ends them all.     *)
(***************************************************************************)
EXTENDS Integers, Sequences, FiniteSets

CONSTANTS
  Proc,      \* slots for invocations at work at the same time
  Menus,     \* sets of requests that may come together; a request is a fault, an
             \* operation, and the flags name, direction and interval, or None
  TextOf,    \* texts of the form the pattern of parseDuration lets through ->
             \* hours, minutes, seconds (or None) and the colons between them
  None,
  Hour, Minute, Day,  \* their lengths, in seconds
  MaxInt, MaxLength,  \* the greatest number, and the seconds of the greatest duration
  MaxTime             \* bound: the clock stops there

Sysrq  == {"oom", "panic", "reboot-abnormal", "file-systems-readonly"}
Faults == Sysrq \cup {"time-jump", "service-stop", "service-restart"}
Operations == {"inject", "remove"}
Text   == [h : Nat \cup {None}, c1 : BOOLEAN, m : Nat \cup {None}, c2 : BOOLEAN,
           s : Nat \cup {None}]

ASSUME SystemAssumption ==
  /\ {Hour, Minute, Day, MaxInt, MaxLength, MaxTime} \subseteq Nat \ {0}
  /\ 1 < Minute /\ Minute < Hour /\ None \notin Nat
  /\ \A t \in DOMAIN TextOf : TextOf[t] \in Text

VARIABLES
  sys, rtc,  \* the system's clock and the hardware's
  menu,      \* the requests that come
  svc, job,  \* the service, and systemd's job for it
  waiting,   \* invocations whose systemctl waits for the job
  disk,      \* rw, remounting, ro
  machine,   \* up, stopping, booting, panicked
  due,       \* history: a removal that reboots has reported success since the start
  pc, req,   \* where each invocation is, and its request
  target,    \* the time of day it is about to set
  result,    \* what the last invocation of each slot reported
  fresh      \* history: the clock shows what the invocation has read

clock   == <<sys, rtc>>
service == <<svc, job, waiting>>
local   == <<pc, req, target, result>>
state   == <<clock, service, disk, machine, due, local, fresh>>
vars    == <<menu, state>>

Nothing == [fault |-> "none", op |-> "prepare", name |-> None, direction |-> None,
            interval |-> None]
Goto(p, from, to) ==
  /\ pc[p] = from /\ pc' = [pc EXCEPT ![p] = to] /\ UNCHANGED <<req, result>>
\* Invocations end, each with what it reports.
EndAll(out) ==
  /\ pc' = [p \in Proc |-> IF p \in DOMAIN out THEN "idle" ELSE pc[p]]
  /\ req' = [p \in Proc |-> IF p \in DOMAIN out THEN Nothing ELSE req[p]]
  /\ target' = [p \in Proc |-> IF p \in DOMAIN out THEN 0 ELSE target[p]]
  /\ result' = [p \in Proc |-> IF p \in DOMAIN out THEN out[p] ELSE result[p]]
End(p, r) == EndAll([q \in {p} |-> r])
Runs(p, fault, op) == pc[p] = "exec" /\ req[p].fault \in fault /\ req[p].op = op
Reports == {"ok", "failed"}
Set(t) == sys' = t /\ fresh' = [p \in Proc |-> FALSE] /\ UNCHANGED rtc
--------------------------------------------------------------------------------
Init ==
  /\ menu \in Menus
  /\ sys \in 0 .. Day - 1 /\ rtc = sys
  /\ svc \in {"active", "inactive", "absent"} /\ job = "none" /\ waiting = {}
  /\ disk = "rw" /\ machine = "up" /\ due = FALSE
  /\ pc = [p \in Proc |-> "idle"] /\ req = [p \in Proc |-> Nothing]
  /\ target = [p \in Proc |-> 0] /\ result = [p \in Proc |-> "none"]
  /\ fresh = [p \in Proc |-> FALSE]

\* serviceOps.PreRun: the status of the service matters to injections only.
PreRun(r) == r.name # None /\ (r.op = "inject" => svc = "active" /\ job = "none")
\* timeJump.Prepare.
JumpPrepared(r) == r.direction \in {"backwards", "forwards"} /\ r.interval # None
Prepared(r) ==
  CASE r.fault \in Sysrq    -> TRUE
    [] r.fault = "time-jump" -> JumpPrepared(r)
    [] OTHER                -> PreRun(r)

MayLackTrigger(r) == r.fault \in Sysrq

\* The request of an unknown fault, or of an unknown operation on one that is
\* prepared, is refused; so is a sysrq fault without its file in /proc.
RunCmd(p, r) ==
  LET ready == r.fault \in Faults /\ Prepared(r)
  IN  /\ machine \in {"up", "stopping"} /\ pc[p] = "idle"
      /\ \/ /\ ready /\ r.op \in Operations
            /\ pc' = [pc EXCEPT ![p] = "exec"] /\ req' = [req EXCEPT ![p] = r]
            /\ result' = [result EXCEPT ![p] = "none"] /\ UNCHANGED target
         \/ ready /\ r.op = "prepare" /\ End(p, "ok")
         \/ /\ ~ready \/ r.op \notin {"prepare"} \cup Operations \/ MayLackTrigger(r)
            /\ End(p, "failed")
      /\ UNCHANGED <<clock, service, disk, machine, due, fresh>>
--------------------------------------------------------------------------------
\* parseDuration: the text is split at its colons; each part is digits and a unit.
Split(t) ==
  LET h == IF t.h = None THEN {} ELSE {<<t.h, Hour>>}
      m == IF t.m = None THEN {} ELSE {<<t.m, Minute>>}
      s == IF t.s = None THEN {} ELSE {<<t.s, 1>>}
  IN  CASE t.c1 /\ t.c2   -> <<h, m, s>>
        [] t.c1 /\ ~t.c2  -> <<h, m \cup s>>
        [] ~t.c1 /\ t.c2  -> <<h \cup m, s>>
        [] OTHER          -> <<h \cup m \cup s>>
\* A part without a unit makes the program panic, one with two units or with a
\* number beyond the integers is refused.
Sound(part) == Cardinality(part) = 1 /\ \A x \in part : x[1] <= MaxInt
Understood(t) ==
  t \in DOMAIN TextOf /\ \A i \in DOMAIN Split(TextOf[t]) : Sound(Split(TextOf[t])[i])
Wrap(x) == ((x + MaxLength + 1) % (2 * MaxLength + 2)) - MaxLength - 1
LengthOf(part) == LET x == CHOOSE y \in part : TRUE IN Wrap(x[1] * x[2])
parseDuration(t) ==
  LET parts == Split(t)
      sum[i \in 0 .. Len(parts)] ==
        IF i = 0 THEN 0 ELSE Wrap(sum[i - 1] + LengthOf(parts[i]))
  IN  sum[Len(parts)]

\* timeJump.FaultInject: the time of day that is set is computed first.
\* Mutant: the day goes into the text as well.
ReadDay(p, time) ==
  /\ Goto(p, "exec", "date")
  /\ target' = [target EXCEPT ![p] = time]
  /\ fresh' = [fresh EXCEPT ![p] = TRUE]
Read(p, time) ==
  /\ Goto(p, "exec", "date")
  /\ target' = [target EXCEPT ![p] = time % Day]
  /\ fresh' = [fresh EXCEPT ![p] = TRUE]
Interval(p) == parseDuration(TextOf[req[p].interval])
\* Mutant: the interval is added in both directions.
JumpReadForwards(p) ==
  /\ Runs(p, {"time-jump"}, "inject") /\ Understood(req[p].interval)
  /\ Read(p, sys + Interval(p))
  /\ UNCHANGED <<clock, service, disk, machine, due>>
JumpRead(p) ==
  /\ Runs(p, {"time-jump"}, "inject") /\ Understood(req[p].interval)
  /\ Read(p, IF req[p].direction = "backwards" THEN sys - Interval(p) ELSE sys + Interval(p))
  /\ UNCHANGED <<clock, service, disk, machine, due>>
JumpRefused(p) ==
  /\ Runs(p, {"time-jump"}, "inject") /\ ~Understood(req[p].interval)
  /\ End(p, "failed")
  /\ UNCHANGED <<clock, service, disk, machine, due, fresh>>
\* date -s hh:mm:ss keeps the day.  It may end after its deadline.
SetDate(p) ==
  /\ pc[p] = "date"
  /\ \E r \in Reports : End(p, r)
  /\ Set((sys \div Day) * Day + target[p])
  /\ UNCHANGED <<service, disk, machine, due>>
\* hwclock -s.
FromHardware(p) ==
  /\ Runs(p, {"time-jump"}, "remove") /\ \E r \in Reports : End(p, r)
  /\ Set(rtc)
  /\ UNCHANGED <<service, disk, machine, due>>
--------------------------------------------------------------------------------
\* Mutant: the removal of service-stop stops the service again.
CommandStops(r) == IF r.fault = "service-stop" THEN "stop" ELSE "restart"
Command(r) ==
  IF r.op = "remove" THEN "start" ELSE IF r.fault = "service-stop" THEN "stop" ELSE "restart"
\* serviceOps.executor: systemctl waits for its job.  A stop and another job take
\* the place of each other, and who waits for the former is told so; a start and
\* a restart are one job.
Execute(p) ==
  /\ pc[p] = "exec" /\ req[p].fault \in {"service-stop", "service-restart"}
  /\ <<req[p].fault, req[p].op>> # <<"service-restart", "remove">>
  /\ IF svc = "absent"
     THEN End(p, "failed") /\ UNCHANGED service
     ELSE LET new == Command(req[p])
              out == IF job # new /\ "stop" \in {job, new} THEN waiting ELSE {}
          IN  /\ job' = IF {job, new} = {"start", "restart"} THEN "restart" ELSE new
              /\ waiting' = (waiting \ out) \cup {p}
              /\ pc' = [q \in Proc |-> CASE q = p -> "wait" [] q \in out -> "idle"
                                          [] OTHER -> pc[q]]
              /\ req' = [q \in Proc |-> IF q \in out THEN Nothing ELSE req[q]]
              /\ result' = [q \in Proc |-> IF q \in out THEN "failed" ELSE result[q]]
              /\ UNCHANGED <<svc, target>>
  /\ UNCHANGED <<clock, disk, machine, due, fresh>>
\* systemd does the job; a service may fail to start.
JobDone ==
  /\ job # "none" /\ job' = "none" /\ waiting' = {}
  /\ \/ /\ svc' = (IF job = "stop" THEN "inactive" ELSE "active")
        /\ EndAll([q \in waiting |-> "ok"])
     \/ /\ job # "stop" /\ svc' = "inactive"
        /\ EndAll([q \in waiting |-> "failed"])
  /\ UNCHANGED <<clock, disk, machine, due, fresh>>
\* Five seconds are over: the shell is killed, the job goes on.
TimesOut(p) ==
  /\ pc[p] \in {"wait", "date"} /\ End(p, "failed")
  /\ waiting' = waiting \ {p}
  /\ UNCHANGED <<clock, svc, job, disk, machine, due, fresh>>
--------------------------------------------------------------------------------
\* A command that fails, or is killed at its deadline before it has had an effect;
\* one that is killed after that reports failure as well.
Commands(r) ==
  \/ r.op = "inject" /\ r.fault \in Sysrq
  \/ r.op = "remove" /\ r.fault \in {"time-jump", "file-systems-readonly"}
CommandFails(p) ==
  /\ pc[p] = "exec" /\ Commands(req[p]) /\ End(p, "failed")
  /\ UNCHANGED <<clock, service, disk, machine, due, fresh>>
\* Everything that runs ends, without a report.
Halted ==
  /\ EndAll([q \in {x \in Proc : pc[x] # "idle"} |-> "none"])
  /\ job' = "none" /\ waiting' = {}
  /\ svc' = (IF svc = "active" THEN "inactive" ELSE svc)
  /\ fresh' = [p \in Proc |-> FALSE]
\* The letters c and b.
Panic(p) ==
  /\ Runs(p, {"panic"}, "inject") /\ machine' = "panicked" /\ due' = FALSE
  /\ Halted /\ UNCHANGED <<clock, disk>>
RebootAbnormal(p) ==
  /\ Runs(p, {"reboot-abnormal"}, "inject") /\ machine' = "booting"
  /\ Halted /\ UNCHANGED <<clock, disk, due>>
\* The letter f: the kernel kills a process that has much memory, if there is one.
OutOfMemory(p) ==
  /\ Runs(p, {"oom"}, "inject")
  /\ \E r \in Reports :
       \/ End(p, r) /\ UNCHANGED <<svc, waiting>>
       \/ End(p, r) /\ svc = "active" /\ svc' = "inactive" /\ UNCHANGED waiting
       \/ \E q \in Proc \ {p} :
            /\ pc[q] # "idle" /\ EndAll([x \in {p, q} |-> IF x = p THEN r ELSE "none"])
            /\ waiting' = waiting \ {q} /\ UNCHANGED svc
  /\ UNCHANGED <<clock, job, disk, machine, due, fresh>>
\* The letter u is answered before the disks are remounted.
Remount(p) ==
  /\ Runs(p, {"file-systems-readonly"}, "inject") /\ \E r \in Reports : End(p, r)
  /\ disk' = IF disk = "rw" THEN "remounting" ELSE disk
  /\ UNCHANGED <<clock, service, machine, due, fresh>>
Remounted ==
  /\ disk = "remounting" /\ disk' = "ro"
  /\ UNCHANGED <<clock, service, machine, due, local, fresh>>
\* Mutant: the removal leaves a machine alone whose disks are not read-only yet.
RebootIfReadonly(p) ==
  /\ Runs(p, {"file-systems-readonly"}, "remove")
  /\ machine' = IF disk = "ro" THEN "stopping" ELSE machine
  /\ \E r \in Reports : End(p, r) /\ due' = (due \/ r = "ok")
  /\ UNCHANGED <<clock, service, disk, fresh>>
Reboot(p) ==
  /\ Runs(p, {"file-systems-readonly"}, "remove") /\ machine' = "stopping"
  /\ \E r \in Reports : End(p, r) /\ due' = (due \/ r = "ok")
  /\ UNCHANGED <<clock, service, disk, fresh>>
\* The removals that have nothing to do.
Leave(p) ==
  /\ Runs(p, {"oom", "panic", "reboot-abnormal", "service-restart"}, "remove")
  /\ End(p, "ok")
  /\ UNCHANGED <<clock, service, disk, machine, due, fresh>>
--------------------------------------------------------------------------------
\* The machine: both clocks go on; an orderly stop; a start, after a panic by an
\* operator.
Tick ==
  /\ sys < MaxTime /\ rtc < MaxTime
  /\ sys' = sys + 1 /\ rtc' = rtc + 1
  /\ fresh' = [p \in Proc |-> FALSE]
  /\ UNCHANGED <<service, disk, machine, due, local>>
ShutDown ==
  /\ machine = "stopping" /\ machine' = "booting"
  /\ Halted /\ UNCHANGED <<clock, disk, due>>
Boot ==
  /\ machine \in {"booting", "panicked"} /\ machine' = "up" /\ disk' = "rw" /\ due' = FALSE
  /\ svc' = (IF svc = "absent" THEN svc ELSE "active") /\ UNCHANGED <<job, waiting>>
  /\ Set(rtc)
  /\ UNCHANGED local

Step(p) ==
  \/ JumpRead(p) \/ JumpRefused(p) \/ SetDate(p) \/ FromHardware(p)
  \/ Execute(p) \/ TimesOut(p) \/ CommandFails(p)
  \/ Panic(p) \/ RebootAbnormal(p) \/ OutOfMemory(p) \/ Remount(p) \/ Reboot(p) \/ Leave(p)

Next ==
  /\ \/ \E p \in Proc : Step(p) \/ \E r \in menu : RunCmd(p, r)
     \/ JobDone \/ Remounted \/ Tick \/ ShutDown \/ Boot
  /\ UNCHANGED menu

Spec == Init /\ [][Next]_vars
\* The machine runs what is started, and starts again after a reboot.
FairSpec ==
  /\ Spec
  /\ \A p \in Proc : WF_state(Step(p))
  /\ WF_state(ShutDown) /\ WF_state(machine = "booting" /\ Boot) /\ WF_state(JobDone)
--------------------------------------------------------------------------------
TypeOK ==
  /\ {sys, rtc} \subseteq 0 .. MaxTime + Day
  /\ svc \in {"active", "inactive", "absent"}
  /\ job \in {"none", "stop", "start", "restart"} /\ (svc = "absent" => job = "none")
  /\ waiting = {p \in Proc : pc[p] = "wait"} /\ (waiting # {} => job # "none")
  /\ disk \in {"rw", "remounting", "ro"}
  /\ machine \in {"up", "stopping", "booting", "panicked"} /\ due \in BOOLEAN
  /\ pc \in [Proc -> {"idle", "exec", "date", "wait"}]
  /\ \A p \in Proc : IF pc[p] = "idle" THEN req[p] = Nothing ELSE req[p] \in menu
  /\ target \in [Proc -> 0 .. Day - 1]
  /\ result \in [Proc -> {"none", "ok", "failed"}]
  /\ fresh \in [Proc -> BOOLEAN]

\* The seconds the user asked for: the sum of what the text says.
Asked(r) ==
  LET t == TextOf[r.interval]
      n(x) == IF x = None THEN 0 ELSE x
      length == n(t.h) * Hour + n(t.m) * Minute + n(t.s)
  IN  IF r.direction = "backwards" THEN -length ELSE length

\* A jump that nobody disturbs, of no more than a duration holds, moves the clock
\* by the hours, minutes and seconds of the text in its direction, as long as
\* that does not cross midnight; over midnight it stays in the day it was begun
\* in, a whole day from where it should be.
JumpExact ==
  [][\A p \in Proc :
       LET asked == Asked(req[p])
       IN  pc[p] = "date" /\ fresh[p] /\ result'[p] = "ok" /\ asked \in -MaxLength .. MaxLength =>
             /\ sys' \div Day = sys \div Day
             /\ (sys' - sys - asked) % Day = 0
             /\ (sys + asked) \div Day = sys \div Day => sys' = sys + asked]_vars

\* A service fault or removal that reports success has had its effect, and the
\* one that others have replaced, or that is still at work at its deadline, does
\* not report it.
ServiceAsReported ==
  [][\A p \in Proc :
       pc[p] = "wait" /\ result'[p] = "ok" =>
         svc' = (IF req[p].fault = "service-stop" /\ req[p].op = "inject"
                 THEN "inactive" ELSE "active")]_vars

\* Once a removal of file-systems-readonly has reported success, the disks become
\* writable: those a remount under way would still have reached, and those that
\* are remounted while the machine goes down; only a panic may come first.
ReadonlyCleared == due ~> disk = "rw" \/ machine = "panicked"
================================================================================

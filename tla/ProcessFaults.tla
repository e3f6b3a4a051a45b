----------------------------- MODULE ProcessFaults -----------------------------
(***************************************************************************)
(* The faults on one target process: process-choking, a background         *)
(* injector that stops and resumes the target until it is killed, with the *)
(* removal that finds that injector by the text of its command line;       *)
(* process-hang, one SIGSTOP or one SIGCONT; process-exit-abnormal, one    *)
(* SIGKILL.  Every invocation of arsenal-os is an OS process of its own,   *)
(* and they interleave freely with each other and with the target.         *)
(*                                                                         *)
(* Abstracted: time (a sleep is a state a process may stay in), and the    *)
(* text of command lines, of which only what grep finds is kept.           *)
(***************************************************************************)
EXTENDS Integers, FiniteSets

CONSTANTS
  Choker,     \* invocations of inject process choking
  Unchoker,   \* invocations of remove process choking
  Hanger,     \* invocations of inject process hang
  Unhanger,   \* invocations of remove process hang
  Killer,     \* invocations of inject process exit-abnormal
  Nobody,     \* no choker found yet
  Found,      \* Unchoker -> the chokers whose command line contains its own,
              \*   "remove" replaced by "inject"
  MaxCrashes  \* bound: chokers killed by something else than a removal

Invocation == Choker \cup Unchoker \cup Hanger \cup Unhanger \cup Killer

ASSUME ProcessAssumption ==
  /\ Found \in [Unchoker -> SUBSET Choker]
  /\ MaxCrashes \in Nat
  /\ Nobody \notin Choker
  /\ Choker \cap (Unchoker \cup Hanger \cup Unhanger \cup Killer) = {}
  /\ Unchoker \cap (Hanger \cup Unhanger \cup Killer) = {}
  /\ Hanger \cap (Unhanger \cup Killer) = {} /\ Unhanger \cap Killer = {}

VARIABLES
  target,    \* "running", "stopped", "zombie" (exited, not reaped) or "gone"
  stoppers,  \* who sent SIGSTOP since the target last ran
  pc,        \* where each invocation is
  victim,    \* the choker each removal found
  crashes    \* chokers killed by something else so far

vars == <<target, stoppers, pc, victim, crashes>>

ChokerPhase == {"stop", "stopCall", "paused", "contCall", "resumed",
                "dyingStop", "dyingCont"}
Phase == {"idle", "ready", "kill", "cont", "ok", "failed", "ended", "late"}
           \cup ChokerPhase

\* What ps shows of the chokers: a process is listed until it is gone.
Listed == {c \in Choker : pc[c] \in ChokerPhase}
Dying == {"dyingStop", "dyingCont"}
\* Killed inside a signal call, which is still to take effect or took it late.
Late  == Dying \cup {"late"}

Goto(i, from, to) == pc[i] = from /\ pc' = [pc EXCEPT ![i] = to]

\* kill(2) by i.  It succeeds on a zombie, without effect, and fails with ESRCH
\* once the target has been reaped.
Reached == target # "gone"
SendStop(i) ==
  IF target \in {"running", "stopped"}
  THEN target' = "stopped" /\ stoppers' = stoppers \cup {i}
  ELSE UNCHANGED <<target, stoppers>>
SendCont ==
  IF target \in {"running", "stopped"}
  THEN target' = "running" /\ stoppers' = {}
  ELSE UNCHANGED <<target, stoppers>>
--------------------------------------------------------------------------------
Init ==
  /\ target = "running" /\ stoppers = {}
  /\ pc = [i \in Invocation |-> "idle"]
  /\ victim = [r \in Unchoker |-> Nobody]
  /\ crashes = 0

\* GetProcessPidAndExistCheck: /proc/<pid> must exist, as it does for a zombie.
PidExists == target # "gone"

\* Prepare, which every operation runs first.
Prepare(i) ==
  /\ Goto(i, "idle", IF PidExists THEN (IF i \in Choker THEN "stop" ELSE "ready")
                     ELSE "failed")
  /\ UNCHANGED <<target, stoppers, victim, crashes>>
--------------------------------------------------------------------------------
\* choking.FaultInject: SIGSTOP, sleep, SIGCONT, sleep, for ever; a signal that
\* fails ends it.  A call is entered in one step and takes effect in another.
EnterStop(c) == Goto(c, "stop", "stopCall") /\ UNCHANGED <<target, stoppers, victim, crashes>>
EnterCont(c) == Goto(c, "paused", "contCall") /\ UNCHANGED <<target, stoppers, victim, crashes>>
Again(c)     == Goto(c, "resumed", "stop") /\ UNCHANGED <<target, stoppers, victim, crashes>>

ChokeStop(c) ==
  /\ Reached
  /\ Goto(c, "stopCall", "paused")
  /\ SendStop(c)
  /\ UNCHANGED <<victim, crashes>>

\* Mutant: the resuming half of the loop is lost.
ChokeContLost(c) ==
  /\ Reached
  /\ Goto(c, "contCall", "resumed")
  /\ UNCHANGED <<target, stoppers, victim, crashes>>

ChokeCont(c) ==
  /\ Reached
  /\ Goto(c, "contCall", "resumed")
  /\ SendCont
  /\ UNCHANGED <<victim, crashes>>

\* Mutant: the error of a signal is ignored and the loop goes on.
ChokeFailsOn(c) ==
  /\ ~Reached
  /\ Goto(c, "stopCall", "paused") \/ Goto(c, "contCall", "resumed")
  /\ UNCHANGED <<target, stoppers, victim, crashes>>

ChokeFails(c) ==
  /\ ~Reached
  /\ Goto(c, "stopCall", "ended") \/ Goto(c, "contCall", "ended")
  /\ UNCHANGED <<target, stoppers, victim, crashes>>

\* The call of a choker that was killed inside it completes all the same.
DyingStop(c) ==
  /\ Goto(c, "dyingStop", "late")
  /\ SendStop(c)
  /\ UNCHANGED <<victim, crashes>>
DyingCont(c) ==
  /\ Goto(c, "dyingCont", "late")
  /\ SendCont
  /\ UNCHANGED <<victim, crashes>>

\* Where SIGKILL leaves a choker.
KilledAt(phase) ==
  CASE phase = "stopCall" -> "dyingStop"
    [] phase = "contCall" -> "dyingCont"
    [] phase \in Late     -> phase
    [] OTHER              -> "ended"

\* The injector dies of something else: kill -9 by hand, the OOM killer.
Crash(c) ==
  /\ crashes < MaxCrashes
  /\ c \in Listed /\ pc[c] \notin Dying
  /\ pc' = [pc EXCEPT ![c] = KilledAt(pc[c])]
  /\ crashes' = crashes + 1
  /\ UNCHANGED <<target, stoppers, victim>>
--------------------------------------------------------------------------------
\* Mutant: an empty list of pids is not an error.
UnchokeListEmpty(r) ==
  \E found \in {Found[r] \cap Listed} :
    /\ Goto(r, "ready", IF Cardinality(found) <= 1 THEN "kill" ELSE "failed")
    /\ victim' = [victim EXCEPT ![r] =
                    IF Cardinality(found) = 1 THEN CHOOSE c \in found : TRUE ELSE @]
    /\ UNCHANGED <<target, stoppers, crashes>>

\* choking.FaultRemove: the pids ps and grep find must be one number.
UnchokeList(r) ==
  \E found \in {Found[r] \cap Listed} :
    /\ Goto(r, "ready", IF Cardinality(found) = 1 THEN "kill" ELSE "failed")
    /\ victim' = [victim EXCEPT ![r] =
                    IF Cardinality(found) = 1 THEN CHOOSE c \in found : TRUE ELSE @]
    /\ UNCHANGED <<target, stoppers, crashes>>

\* The command fails, or is killed at its deadline.
UnchokeListFails(r) ==
  /\ Goto(r, "ready", "failed")
  /\ UNCHANGED <<target, stoppers, victim, crashes>>

\* Mutant: the removal returns once the injector is killed.
UnchokeKillReturns(r) ==
  /\ pc[r] = "kill"
  /\ pc' = [pc EXCEPT ![r] = "ok", ![victim[r]] = KilledAt(@)]
  /\ UNCHANGED <<target, stoppers, victim, crashes>>

\* SIGKILL is not waited for, and its target takes it, without effect, while it
\* is dying and until it is reaped.
UnchokeKill(r) ==
  /\ pc[r] = "kill"
  /\ pc' = [pc EXCEPT ![r] = "cont", ![victim[r]] = KilledAt(@)]
  /\ UNCHANGED <<target, stoppers, victim, crashes>>

\* The injector ended between ps and kill, and has been reaped.
UnchokeKillFails(r) ==
  /\ victim[r] \notin Listed
  /\ Goto(r, "kill", "failed")
  /\ UNCHANGED <<target, stoppers, victim, crashes>>

\* Mutant: the SIGCONT is forgotten.
UnchokeContLost(r) ==
  /\ Reached
  /\ Goto(r, "cont", "ok")
  /\ UNCHANGED <<target, stoppers, victim, crashes>>

\* The SIGCONT for a target the injector may have left stopped.
UnchokeCont(r) ==
  /\ Reached
  /\ Goto(r, "cont", "ok")
  /\ SendCont
  /\ UNCHANGED <<victim, crashes>>

UnchokeContFails(r) ==
  /\ ~Reached
  /\ Goto(r, "cont", "failed")
  /\ UNCHANGED <<target, stoppers, victim, crashes>>
--------------------------------------------------------------------------------
Hang(h) ==
  /\ Reached
  /\ Goto(h, "ready", "ok")
  /\ SendStop(h)
  /\ UNCHANGED <<victim, crashes>>

Unhang(u) ==
  /\ Reached
  /\ Goto(u, "ready", "ok")
  /\ SendCont
  /\ UNCHANGED <<victim, crashes>>

ExitAbnormally(k) ==
  /\ Reached
  /\ Goto(k, "ready", "ok")
  /\ target' = "zombie" /\ stoppers' = {}
  /\ UNCHANGED <<victim, crashes>>

\* The target was reaped between Prepare and the one signal of a hang, of its
\* removal or of an abnormal exit.
SignalFails(i) ==
  /\ ~Reached
  /\ Goto(i, "ready", "failed")
  /\ UNCHANGED <<target, stoppers, victim, crashes>>

\* The target ends by itself, which it does only while it runs.
TargetExits ==
  /\ target = "running"
  /\ target' = "zombie"
  /\ UNCHANGED <<stoppers, pc, victim, crashes>>

TargetReaped ==
  /\ target = "zombie"
  /\ target' = "gone"
  /\ UNCHANGED <<stoppers, pc, victim, crashes>>

Finished == {"ok", "failed", "ended", "late"}
AllFinished == (\A i \in Invocation : pc[i] \in Finished) /\ UNCHANGED vars
--------------------------------------------------------------------------------
ChokerLoop(c) ==
  \/ EnterStop(c) \/ EnterCont(c) \/ Again(c)
  \/ ChokeStop(c) \/ ChokeCont(c) \/ ChokeFails(c) \/ DyingStop(c) \/ DyingCont(c)

UnchokerStep(r) ==
  \/ Prepare(r) \/ UnchokeList(r) \/ UnchokeListFails(r)
  \/ UnchokeKill(r) \/ UnchokeKillFails(r) \/ UnchokeCont(r) \/ UnchokeContFails(r)

Next ==
  \/ \E c \in Choker : Prepare(c) \/ ChokerLoop(c) \/ Crash(c)
  \/ \E r \in Unchoker : UnchokerStep(r)
  \/ \E h \in Hanger : Prepare(h) \/ Hang(h) \/ SignalFails(h)
  \/ \E u \in Unhanger : Prepare(u) \/ Unhang(u) \/ SignalFails(u)
  \/ \E k \in Killer : Prepare(k) \/ ExitAbnormally(k) \/ SignalFails(k)
  \/ TargetExits \/ TargetReaped
  \/ AllFinished

Spec == Init /\ [][Next]_vars

\* An injector that was started runs, and its sleeps end; nobody has to start it.
FairSpec == Spec /\ \A c \in Choker : WF_vars(ChokerLoop(c))
--------------------------------------------------------------------------------
TypeOK ==
  /\ target \in {"running", "stopped", "zombie", "gone"}
  /\ stoppers \subseteq Choker \cup Hanger
  /\ pc \in [Invocation -> Phase]
  /\ victim \in [Unchoker -> Choker \cup {Nobody}]
  /\ \A r \in Unchoker : pc[r] \in {"kill", "cont", "ok"} => victim[r] \in Choker
  /\ crashes \in 0..MaxCrashes

\* choking.FaultRemove, comment on the SIGCONT: a removal that succeeded leaves
\* the target running as far as its injector goes, wherever in its loop the
\* injector was and whatever other injections and removals run at the time;
\* all but the injector that is killed inside a signal call, which kill -9 does
\* not wait for.
RemovedRuns ==
  \A r \in Unchoker :
    pc[r] = "ok" /\ pc[victim[r]] \notin Late => victim[r] \notin stoppers

\* Nobody is at work any more, and no injector was killed from outside, nor
\* inside a signal call.
AtRest == crashes = 0 /\ \A i \in Invocation : pc[i] \in {"idle", "ok", "failed", "ended"}

\* Injections of process-choking and their removals, overlapping as they like,
\* leave nothing of their own on the target when they have all ended, though a
\* removal that finds its injector gone, or two that match, returns before its
\* SIGCONT: what is still stopped was stopped by a hang that reported success.
HungOrFree ==
  AtRest /\ target = "stopped" => \E h \in Hanger : h \in stoppers /\ pc[h] = "ok"

\* An injector that is left alone alternates: the target is stopped again and
\* again, and runs again and again, also when two of them are out of step.
Alternates ==
  \A c \in Choker :
    <>[](pc[c] \in ChokerPhase /\ Reached) =>
      []<>(target \in {"stopped", "zombie"}) /\ []<>(target \in {"running", "zombie"})

\* Once the target is gone no injector keeps signalling its pid: the loops end.
EndWithTarget == \A c \in Choker : target = "gone" ~> pc[c] \in Finished \cup {"idle"}
================================================================================

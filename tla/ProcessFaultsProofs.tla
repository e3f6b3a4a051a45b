-------------------------- MODULE ProcessFaultsProofs --------------------------
(***************************************************************************)
(* What holds of ProcessFaults for any number of injections, removals and  *)
(* signals, and any text of their command lines.                           *)
(***************************************************************************)
EXTENDS ProcessFaults, TLAPS, FiniteSetTheorems

\* Every signal leaves the target in one of its four states, and only an
\* injection is ever recorded as having stopped it.
LEMMA SignalTypes ==
  ASSUME TypeOK, NEW i \in Choker \cup Hanger
  PROVE  /\ SendStop(i) => /\ target' \in {"running", "stopped", "zombie", "gone"}
                           /\ stoppers' \subseteq Choker \cup Hanger
         /\ SendCont => /\ target' \in {"running", "stopped", "zombie", "gone"}
                        /\ stoppers' \subseteq Choker \cup Hanger
BY DEF TypeOK, SendStop, SendCont

\* A removal goes on to the kill only with a choker that it found.
LEMMA OneFound ==
  ASSUME NEW r \in Unchoker, NEW found, found = Found[r] \cap Listed,
         Cardinality(found) = 1
  PROVE  (CHOOSE c \in found : TRUE) \in Choker
<1>1. found # {}
  BY FS_EmptySet
<1> QED
  BY <1>1 DEF Listed

\* The variables keep their types; in particular a removal never signals a pid
\* it did not find.
THEOREM TypeCorrect == Spec => []TypeOK
<1>1. Init => TypeOK
  BY ProcessAssumption DEF Init, TypeOK, Phase, Invocation
<1>2. TypeOK /\ [Next]_vars => TypeOK'
  <2> SUFFICES ASSUME TypeOK, [Next]_vars PROVE TypeOK'
    OBVIOUS
  <2> USE ProcessAssumption DEF TypeOK, Phase, ChokerPhase, Invocation, Goto
  <2>1. ASSUME NEW i \in Invocation, Prepare(i) PROVE TypeOK'
    BY <2>1 DEF Prepare
  <2>2. ASSUME NEW c \in Choker, ChokerLoop(c) PROVE TypeOK'
    <3>1. CASE EnterStop(c) \/ EnterCont(c) \/ Again(c)
      BY <3>1 DEF EnterStop, EnterCont, Again
    <3>2. CASE ChokeStop(c)
      BY <3>2, SignalTypes DEF ChokeStop
    <3>3. CASE ChokeCont(c)
      BY <3>3, SignalTypes DEF ChokeCont
    <3>4. CASE ChokeFails(c)
      BY <3>4 DEF ChokeFails
    <3>5. CASE DyingStop(c)
      BY <3>5, SignalTypes DEF DyingStop
    <3>6. CASE DyingCont(c)
      BY <3>6, SignalTypes DEF DyingCont
    <3> QED
      BY <2>2, <3>1, <3>2, <3>3, <3>4, <3>5, <3>6 DEF ChokerLoop
  <2>3. ASSUME NEW c \in Choker, Crash(c) PROVE TypeOK'
    BY <2>3 DEF Crash, KilledAt, Listed, Late, Dying
  <2>4. ASSUME NEW r \in Unchoker, UnchokerStep(r) PROVE TypeOK'
    <3>1. CASE UnchokeList(r)
      BY <3>1, OneFound DEF UnchokeList
    <3>2. CASE UnchokeKill(r)
      BY <3>2 DEF UnchokeKill, KilledAt, Late, Dying
    <3>3. CASE UnchokeListFails(r) \/ UnchokeKillFails(r) \/ UnchokeContFails(r)
      BY <3>3 DEF UnchokeListFails, UnchokeKillFails, UnchokeContFails
    <3>4. CASE UnchokeCont(r)
      BY <3>4 DEF UnchokeCont, SendCont
    <3> QED
      BY <2>1, <2>4, <3>1, <3>2, <3>3, <3>4 DEF UnchokerStep
  <2>5. ASSUME NEW h \in Hanger, Hang(h) PROVE TypeOK'
    BY <2>5, SignalTypes DEF Hang
  <2>6. ASSUME NEW u \in Unhanger, Unhang(u) PROVE TypeOK'
    BY <2>6 DEF Unhang, SendCont
  <2>7. ASSUME NEW k \in Killer, ExitAbnormally(k) PROVE TypeOK'
    BY <2>7 DEF ExitAbnormally
  <2>8. ASSUME NEW i \in Hanger \cup Unhanger \cup Killer, SignalFails(i)
        PROVE  TypeOK'
    BY <2>8 DEF SignalFails
  <2>9. CASE TargetExits \/ TargetReaped \/ UNCHANGED vars
    BY <2>9 DEF TargetExits, TargetReaped, vars
  <2> QED
    BY <2>1, <2>2, <2>3, <2>4, <2>5, <2>6, <2>7, <2>8, <2>9 DEF Next, AllFinished
<1> QED
  BY <1>1, <1>2, PTL DEF Spec
--------------------------------------------------------------------------------
(***************************************************************************)
(* Removals: from its kill on a victim is gone, or late in a signal call;  *)
(* of one that is gone the SIGCONT that follows is later than anything it  *)
(* sent.  A target that is not stopped is blamed on nobody, so a SIGCONT   *)
(* to a zombie has nothing to undo.                                        *)
(***************************************************************************)
Claimed(r) == pc[r] \in {"cont", "ok"}

Removal ==
  /\ target # "stopped" => stoppers = {}
  /\ \A r \in Unchoker : Claimed(r) => pc[victim[r]] \in Late \cup {"ended"}
  /\ RemovedRuns

\* A step in which no removal moves, no choker that ended moves, and only
\* chokers that have not ended, or hangs, are recorded as stoppers.
LEMMA RemovalKept ==
  ASSUME TypeOK, Removal, UNCHANGED victim,
         target' # "stopped" => stoppers' = {},
         \A r \in Unchoker : Claimed(r)' => pc'[r] = pc[r],
         \A c \in Choker : pc[c] = "ended" => pc'[c] = "ended",
         \A c \in Choker : pc[c] \in Late => pc'[c] \in Late,
         \A c \in Choker : pc[c] = "ended" /\ c \in stoppers' => c \in stoppers
  PROVE  Removal'
<1>1. \A r \in Unchoker :
        Claimed(r)' => /\ Claimed(r) /\ victim[r] \in Choker /\ victim'[r] = victim[r]
                       /\ pc[victim[r]] \in Late \/ pc[victim[r]] = "ended"
  BY DEF Removal, Claimed, TypeOK
<1> QED
  BY <1>1 DEF Removal, RemovedRuns, Claimed, Late, Dying

\* The invariant behind the results below, for every set of invocations.
THEOREM RemovalInvariant == Spec => []Removal
<1>1. Init => Removal
  BY DEF Init, Removal, RemovedRuns, Claimed, Invocation
<1>2. TypeOK /\ Removal /\ [Next]_vars => Removal'
  <2> SUFFICES ASSUME TypeOK, Removal, [Next]_vars PROVE Removal'
    OBVIOUS
  <2> USE ProcessAssumption DEF Invocation, Goto
  <2>1. ASSUME NEW i \in Invocation, Prepare(i) PROVE Removal'
    BY <2>1, RemovalKept DEF Prepare, TypeOK, Removal, Claimed, Dying, Late
  <2>2. ASSUME NEW c \in Choker, ChokerLoop(c) PROVE Removal'
    <3>1. /\ pc[c] # "ended" /\ (pc[c] \in Late => pc'[c] \in Late)
          /\ \A i \in Invocation \ {c} : pc'[i] = pc[i]
          /\ UNCHANGED victim
      BY <2>2 DEF ChokerLoop, EnterStop, EnterCont, Again, ChokeStop, ChokeCont,
         ChokeFails, DyingStop, DyingCont, TypeOK, Dying, Late
    <3>2. /\ stoppers' \subseteq stoppers \cup {c}
          /\ target' # "stopped" => stoppers' = {}
      BY <2>2 DEF ChokerLoop, EnterStop, EnterCont, Again, ChokeStop, ChokeCont,
         ChokeFails, DyingStop, DyingCont, SendStop, SendCont, Removal
    <3> QED
      BY <3>1, <3>2, RemovalKept DEF Removal, Claimed
  <2>3. ASSUME NEW c \in Choker, Crash(c) PROVE Removal'
    BY <2>3, RemovalKept
    DEF Crash, KilledAt, Listed, Dying, Late, ChokerPhase, TypeOK, Removal, Claimed
  <2>4. ASSUME NEW r \in Unchoker, UnchokerStep(r) PROVE Removal'
    <3>1. CASE UnchokeList(r)
      BY <3>1 DEF UnchokeList, TypeOK, Removal, RemovedRuns, Claimed
    <3>2. CASE UnchokeKill(r)
      <4>1. /\ victim[r] \in Choker
            /\ pc'[victim[r]] \in Late \cup {"ended"}
            /\ pc[victim[r]] \in Late \cup {"ended"} => pc'[victim[r]] = pc[victim[r]]
            /\ pc[r] = "kill" /\ pc'[r] = "cont"
            /\ \A i \in Invocation \ {r, victim[r]} : pc'[i] = pc[i]
            /\ UNCHANGED <<victim, stoppers, target>>
        BY <3>2 DEF UnchokeKill, KilledAt, Dying, Late, Phase, TypeOK
      <4>2. \A s \in Unchoker \ {r} :
              /\ pc'[s] = pc[s]
              /\ Claimed(s) => pc'[victim[s]] = pc[victim[s]]
        BY <4>1 DEF TypeOK, Removal, Claimed
      <4>3. \A s \in Unchoker : Claimed(s)' => pc'[victim[s]] \in Late \cup {"ended"}
        BY <4>1, <4>2 DEF Removal, Claimed
      <4>4. RemovedRuns'
        BY <4>1, <4>2 DEF Removal, RemovedRuns, Claimed
      <4> QED
        BY <4>1, <4>3, <4>4 DEF Removal
    <3>3. CASE UnchokeCont(r)
      <4>1. /\ pc[r] = "cont" /\ pc'[r] = "ok"
            /\ \A i \in Invocation \ {r} : pc'[i] = pc[i]
            /\ UNCHANGED victim
        BY <3>3 DEF UnchokeCont, TypeOK
      <4>2. stoppers' = {}
        BY <3>3 DEF UnchokeCont, SendCont, TypeOK, Reached, Removal
      <4> QED
        BY <4>1, <4>2 DEF TypeOK, Removal, RemovedRuns, Claimed
    <3>4. CASE UnchokeListFails(r) \/ UnchokeKillFails(r) \/ UnchokeContFails(r)
      BY <3>4, RemovalKept
      DEF UnchokeListFails, UnchokeKillFails, UnchokeContFails, TypeOK, Removal, Claimed, Late, Dying
    <3> QED
      BY <2>1, <2>4, <3>1, <3>2, <3>3, <3>4 DEF UnchokerStep
  <2>5. ASSUME NEW i \in Hanger \cup Unhanger \cup Killer,
               Hang(i) \/ Unhang(i) \/ ExitAbnormally(i) \/ SignalFails(i)
        PROVE  Removal'
    <3>1. /\ \A j \in Invocation \ {i} : pc'[j] = pc[j]
          /\ UNCHANGED victim
          /\ stoppers' \subseteq stoppers \cup {i}
          /\ target' # "stopped" => stoppers' = {}
      BY <2>5 DEF Hang, Unhang, ExitAbnormally, SignalFails, SendStop, SendCont,
         TypeOK, Removal
    <3> QED
      BY <3>1, RemovalKept DEF Removal, Claimed
  <2>6. CASE TargetExits \/ TargetReaped \/ UNCHANGED vars
    BY <2>6 DEF TargetExits, TargetReaped, vars, Removal, RemovedRuns, Claimed
  <2> QED
    BY <2>1, <2>2, <2>3, <2>4, <2>5, <2>6 DEF Next, AllFinished
<1> QED
  BY <1>1, <1>2, TypeCorrect, PTL DEF Spec

\* A removal that succeeded leaves the target running as far as its injector
\* goes, unless it killed the injector inside a signal call.
THEOREM RemovalLetsRun == Spec => []RemovedRuns
BY RemovalInvariant, PTL DEF Removal

--------------------------------------------------------------------------------
(***************************************************************************)
(* Who holds a target that is stopped.                                     *)
(***************************************************************************)
Owed(c) ==
  \/ pc[c] \in {"paused", "contCall"} \cup Late
  \/ /\ pc[c] = "ended"
     /\ crashes > 0 \/ \E r \in Unchoker : pc[r] = "cont" /\ victim[r] = c
\* A target that is stopped is stopped by somebody: by a hang that reported success,
\* or by an injector that has still to resume it.  When that injector has ended, it
\* was killed inside a signal call, or by something else than a removal, or the
\* removal that killed it has its SIGCONT still to send.
StopsOwed ==
  /\ target = "stopped" => stoppers # {}
  /\ \A h \in stoppers \cap Hanger : pc[h] = "ok"
  /\ \A c \in stoppers \cap Choker : Owed(c)

\* Nobody is recorded anew, and whoever is was not moved from where it owes.
LEMMA OwedStill ==
  ASSUME StopsOwed, stoppers' \subseteq stoppers, target' = "stopped" => stoppers' # {},
         crashes' >= crashes, crashes \in Nat, crashes' \in Nat,
         \A h \in Hanger : pc[h] = "ok" => pc'[h] = "ok",
         \A c \in stoppers' \cap Choker :
           \/ pc'[c] = pc[c]
           \/ pc'[c] \in {"paused", "contCall"} \cup Late
           \/ pc'[c] = "ended" /\ crashes' > 0,
         \A r \in Unchoker : pc[r] = "cont" => pc'[r] = "cont" /\ victim'[r] = victim[r]
  PROVE  StopsOwed'
<1>1. ASSUME NEW c \in stoppers' \cap Choker PROVE Owed(c)'
  <2>1. Owed(c) BY DEF StopsOwed
  <2>2. CASE pc'[c] = pc[c] BY <2>1, <2>2 DEF Owed
  <2> QED BY <2>2 DEF Owed
<1> QED BY <1>1 DEF StopsOwed

LEMMA StopsOwedKept ==
  ASSUME TypeOK, Removal, StopsOwed, [Next]_vars PROVE StopsOwed'
<1> USE ProcessAssumption DEF Invocation, Goto
<1>0. /\ pc \in [Invocation -> Phase] /\ crashes \in Nat
      /\ target # "stopped" => stoppers = {} BY DEF TypeOK, Removal
<1>1. ASSUME NEW i \in Invocation, Prepare(i) PROVE StopsOwed'
  <2>1. /\ pc[i] = "idle" /\ \A j \in Invocation \ {i} : pc'[j] = pc[j]
        /\ UNCHANGED <<target, stoppers, victim, crashes>>
    BY <1>0, <1>1 DEF Prepare
  <2>2. i \notin stoppers BY <2>1 DEF StopsOwed, Owed, Late, Dying, TypeOK
  <2> QED BY <1>0, <2>1, <2>2, OwedStill DEF StopsOwed
<1>2. ASSUME NEW c \in Choker, ChokerLoop(c) PROVE StopsOwed'
  <2>1. \A i \in Invocation \ {c} : pc'[i] = pc[i]
    BY <1>0, <1>2 DEF ChokerLoop, EnterStop, EnterCont, Again, ChokeStop, ChokeCont,
       ChokeFails, DyingStop, DyingCont
  <2>2. UNCHANGED <<victim, crashes>>
    BY <1>2 DEF ChokerLoop, EnterStop, EnterCont, Again, ChokeStop, ChokeCont,
       ChokeFails, DyingStop, DyingCont
  <2>3. CASE EnterStop(c) \/ Again(c)
    <3>1. pc[c] \in {"stop", "resumed"} /\ UNCHANGED <<target, stoppers>>
      BY <2>3 DEF EnterStop, Again
    <3>2. c \notin stoppers BY <3>1 DEF StopsOwed, Owed, Late, Dying
    <3> QED BY <1>0, <2>1, <2>2, <3>1, <3>2, OwedStill DEF StopsOwed
  <2>4. CASE EnterCont(c)
    <3>1. pc'[c] = "contCall" /\ UNCHANGED <<target, stoppers>> BY <1>0, <2>4 DEF EnterCont
    <3> QED BY <1>0, <2>1, <2>2, <3>1, OwedStill DEF StopsOwed
  <2>5. CASE ChokeStop(c) \/ DyingStop(c)
    <3>1. SendStop(c) /\ pc'[c] \in {"paused"} \cup Late
      BY <1>0, <2>5 DEF ChokeStop, DyingStop, Late
    <3>2. \A i \in Choker \cap (stoppers \ {c}) : Owed(i)'
      BY <2>1, <2>2 DEF StopsOwed, Owed
    <3> QED BY <1>0, <2>1, <3>1, <3>2 DEF SendStop, StopsOwed, Owed
  <2>6. CASE ChokeCont(c) \/ DyingCont(c)
    <3>1. stoppers' = {} /\ target' # "stopped"
      BY <1>0, <2>6 DEF ChokeCont, DyingCont, SendCont
    <3> QED BY <3>1 DEF StopsOwed
  <2>7. CASE ChokeFails(c)
    <3>1. stoppers' = {} /\ target' # "stopped"
      BY <1>0, <2>7 DEF ChokeFails, Reached
    <3> QED BY <3>1 DEF StopsOwed
  <2> QED BY <1>2, <2>3, <2>4, <2>5, <2>6, <2>7 DEF ChokerLoop
<1>3. ASSUME NEW c \in Choker, Crash(c) PROVE StopsOwed'
  <2>1. /\ crashes' = crashes + 1 /\ UNCHANGED <<target, stoppers, victim>>
        /\ pc'[c] \in Late \cup {"ended"} /\ \A i \in Invocation \ {c} : pc'[i] = pc[i]
    BY <1>0, <1>3 DEF Crash, KilledAt, Late, Dying
  <2> QED BY <1>0, <2>1, OwedStill DEF StopsOwed
<1>4. ASSUME NEW r \in Unchoker, UnchokerStep(r) PROVE StopsOwed'
  <2>1. CASE UnchokeList(r) \/ UnchokeListFails(r) \/ UnchokeKillFails(r)
    <3>1. /\ pc[r] # "cont" /\ \A i \in Invocation \ {r} : pc'[i] = pc[i]
          /\ UNCHANGED <<target, stoppers, crashes>>
          /\ \A s \in Unchoker \ {r} : victim'[s] = victim[s]
      BY <1>0, <2>1 DEF UnchokeList, UnchokeListFails, UnchokeKillFails, TypeOK
    <3> QED BY <1>0, <3>1, OwedStill DEF StopsOwed
  <2>2. CASE UnchokeKill(r)
    <3>1. /\ pc[r] = "kill" /\ pc'[r] = "cont" /\ victim[r] \in Choker
          /\ pc'[victim[r]] \in Late \cup {"ended"}
          /\ \A i \in Invocation \ {r, victim[r]} : pc'[i] = pc[i]
          /\ UNCHANGED <<victim, stoppers, target, crashes>>
      BY <1>0, <2>2 DEF UnchokeKill, KilledAt, Dying, Late, TypeOK
    <3>2. ASSUME NEW c \in stoppers' \cap Choker PROVE Owed(c)'
      <4>1. CASE c = victim[r] BY <3>1, <4>1 DEF Owed, Late, Dying
      <4>2. CASE c # victim[r]
        <5>1. Owed(c) /\ pc'[c] = pc[c] BY <3>1, <4>2 DEF StopsOwed
        <5>2. \A s \in Unchoker : pc[s] = "cont" => pc'[s] = "cont" BY <3>1
        <5> QED BY <3>1, <5>1, <5>2 DEF Owed
      <4> QED BY <4>1, <4>2
    <3>3. \A h \in Hanger : pc'[h] = pc[h] BY <3>1
    <3> QED BY <3>1, <3>2, <3>3 DEF StopsOwed
  <2>3. CASE UnchokeCont(r)
    <3>1. stoppers' = {} /\ target' # "stopped" BY <1>0, <2>3 DEF UnchokeCont, SendCont
    <3> QED BY <3>1 DEF StopsOwed
  <2>4. CASE UnchokeContFails(r)
    <3>1. stoppers' = {} /\ target' # "stopped" BY <1>0, <2>4 DEF UnchokeContFails, Reached
    <3> QED BY <3>1 DEF StopsOwed
  <2> QED BY <1>1, <1>4, <2>1, <2>2, <2>3, <2>4 DEF UnchokerStep
<1>5. ASSUME NEW h \in Hanger, Hang(h) PROVE StopsOwed'
  <2>1. /\ pc'[h] = "ok" /\ \A i \in Invocation \ {h} : pc'[i] = pc[i]
        /\ SendStop(h) /\ UNCHANGED <<victim, crashes>>
    BY <1>0, <1>5 DEF Hang
  <2>2. \A i \in Choker \cap stoppers : Owed(i)' BY <2>1 DEF StopsOwed, Owed
  <2> QED BY <1>0, <2>1, <2>2 DEF SendStop, StopsOwed
<1>6. ASSUME NEW i \in Unhanger \cup Killer, Unhang(i) \/ ExitAbnormally(i) PROVE StopsOwed'
  <2>1. stoppers' = {} /\ target' # "stopped"
    BY <1>0, <1>6 DEF Unhang, ExitAbnormally, SendCont
  <2> QED BY <2>1 DEF StopsOwed
<1>7. ASSUME NEW i \in Hanger \cup Unhanger \cup Killer, SignalFails(i) PROVE StopsOwed'
  <2>1. stoppers' = {} /\ target' # "stopped" BY <1>0, <1>7 DEF SignalFails, Reached
  <2> QED BY <2>1 DEF StopsOwed
<1>8. CASE TargetExits \/ TargetReaped \/ UNCHANGED vars
  BY <1>8 DEF TargetExits, TargetReaped, vars, StopsOwed, Owed, Late
<1> QED BY <1>1, <1>2, <1>3, <1>4, <1>5, <1>6, <1>7, <1>8 DEF Next, AllFinished

\* A target never stays stopped for no reason: the safety half of Alternates, for
\* every set of invocations.
THEOREM StopsAnswered == Spec => []StopsOwed
<1>1. Init => StopsOwed BY DEF Init, StopsOwed
<1> QED BY <1>1, StopsOwedKept, TypeCorrect, RemovalInvariant, PTL DEF Spec

\* Injections of process-choking and their removals, in any number and overlapping as
\* they like, leave nothing of their own on the target when they have all ended:
\* the SIGCONT that a removal owes is sent by it, or by another that found the same.
THEOREM OnlyHangsHold == Spec => []HungOrFree
<1>1. ASSUME TypeOK, StopsOwed PROVE HungOrFree
  <2> SUFFICES ASSUME target = "stopped", crashes = 0,
                      \A i \in Invocation : pc[i] \in {"idle", "ok", "failed", "ended"}
               PROVE  \E h \in Hanger : h \in stoppers /\ pc[h] = "ok"
    BY DEF HungOrFree, AtRest
  <2>1. PICK i \in stoppers : TRUE BY <1>1 DEF StopsOwed
  <2>2. i \in Choker \cup Hanger BY <1>1 DEF TypeOK
  <2>3. ASSUME i \in Choker PROVE FALSE
    <3>1. Owed(i) BY <1>1, <2>1, <2>3 DEF StopsOwed
    <3>2. \A r \in Unchoker : pc[r] # "cont" BY DEF Invocation, Finished
    <3> QED BY <1>1, <2>3, <3>1, <3>2 DEF Owed, Late, Dying, Finished, Invocation
  <2> QED BY <1>1, <2>1, <2>2, <2>3 DEF StopsOwed
<1> QED BY <1>1, StopsAnswered, TypeCorrect, PTL
================================================================================

------------------------------- MODULE FaultLedger -------------------------------
(***************************************************************************)
(* What FaultOperations promises of the faults that leave a trace behind:  *)
(* the trace of a fault appears at one moment, in an injection of that     *)
(* fault, and goes at one moment, in a removal of it.  Whatever else an    *)
(* invocation does, wherever it fails or is killed, and whatever runs      *)
(* beside it, the traces of the other faults are as they were.             *)
(***************************************************************************)
CONSTANTS Proc, Fault, Ops

VARIABLES
  active,  \* faults whose trace is there
  busy     \* the fault and the operation each invocation is at, or none

vars == <<active, busy>>

Invocation == [fault : Fault, op : {"inject", "remove"}]
NoWork     == [fault |-> "none", op |-> "none"]

Init == active = {} /\ busy = [p \in Proc |-> NoWork]

Begins(p, i) == busy[p] = NoWork /\ busy' = [busy EXCEPT ![p] = i] /\ UNCHANGED active
\* At its moment, an invocation may also be over.
MayEnd(p)  == busy' = busy \/ busy' = [busy EXCEPT ![p] = NoWork]
Injects(p) == /\ busy[p].op = "inject" /\ MayEnd(p)
              /\ active' = active \cup {busy[p].fault}
Removes(p) == /\ busy[p].op = "remove" /\ MayEnd(p)
              /\ active' = active \ {busy[p].fault}
Ends(p)    == busy' = [busy EXCEPT ![p] = NoWork] /\ UNCHANGED active

Next == \E p \in Proc :
          \/ \E i \in Ops : Begins(p, i)
          \/ Injects(p) \/ Removes(p) \/ Ends(p)
Spec == Init /\ [][Next]_vars
================================================================================

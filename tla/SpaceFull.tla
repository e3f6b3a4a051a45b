-------------------------------- MODULE SpaceFull --------------------------------
(***************************************************************************)
(* filesystem-mountpoint-space-full: the injection leaves a dd behind that *)
(* writes an image of as many blocks of 1M as df says the mount point has; *)
(* the removal looks for that dd by the text of its command line, kills    *)
(* it, and deletes the image.                                              *)
(***************************************************************************)
EXTENDS Integers, FiniteSets

CONSTANTS
  Proc,       \* slots for invocations at work at the same time
  Dd,         \* slots for the shell of an injection, then its dd
  Inode,      \* files that can be the image
  None,       \* no file
  Kb,         \* 1 << 10
  Sizes,      \* sizes a mount point may have, in K
  Samples,    \* sizes of which only the conversion is looked at
  MaxMishaps  \* bound: mount points grown or remounted, invocations killed

ASSUME SpaceAssumption ==
  /\ Kb \in Nat /\ Kb > 10 /\ Kb % 2 = 0 /\ Sizes \cup Samples \subseteq Nat
  /\ MaxMishaps \in Nat /\ None \notin Inode
  /\ IsFiniteSet(Inode) /\ IsFiniteSet(Dd) /\ Cardinality(Inode) >= Cardinality(Dd)

VARIABLES
  size,     \* of the mount point, in K
  mount,    \* none: not a mount point; ro: mounted read-only; error: mounted to
            \* be written, but its superblock has become read-only; rw
  image,    \* the file that has the name of the image
  blocks,   \* blocks each file has
  dd,       \* each shell or dd: phase, file, next block, count, and whether it
            \* is killed: "in" when a system call may still complete
  pc,       \* where each invocation is
  count,    \* blocks its Prepare computed
  pids,     \* processes it has yet to kill
  hit,      \* a kill of it has reached a process
  mine,     \* the shell it waits for
  due,      \* history: the removal, begun with no injection under way, owes the
            \* mount point its space
  mishaps

fs   == <<size, mount, image, blocks>>
own  == <<count, pids, hit, mine>>
vars == <<fs, dd, pc, own, due, mishaps>>

Mishap == mishaps < MaxMishaps /\ mishaps' = mishaps + 1
Goto(p, from, to) == pc[p] = from /\ pc' = [pc EXCEPT ![p] = to]
End(p) ==
  /\ pc' = [pc EXCEPT ![p] = "idle"]
  /\ count' = [count EXCEPT ![p] = 0] /\ pids' = [pids EXCEPT ![p] = {}]
  /\ hit' = [hit EXCEPT ![p] = FALSE] /\ mine' = [mine EXCEPT ![p] = {}]
Ends(p, from)  == pc[p] = from /\ End(p)
Fails(p, from) == Ends(p, from) /\ due' = [due EXCEPT ![p] = FALSE]

CeilDiv(a, b) == (a + b - 1) \div b
--------------------------------------------------------------------------------
\* df -h: tenths of the unit below ten of it, whole units above, rounded up.
Unit   == <<"K", "M", "G", "T", "P">>
InUnit == <<1, Kb, Kb * Kb, Kb * Kb * Kb, Kb * Kb * Kb * Kb>>
Tenths(k, u) ==
  LET t == CeilDiv(10 * k, InUnit[u])
  IN  IF t <= 100 THEN t ELSE 10 * CeilDiv(k, InUnit[u])
UnitOf(k) ==
  CHOOSE u \in 1 .. 5 :
    /\ u = 5 \/ Tenths(k, u) < 10 * Kb
    /\ \A v \in 1 .. u - 1 : Tenths(k, v) >= 10 * Kb

\* strconv.ParseFloat to 32 bits: of a number of tenths, the nearest that has 24
\* binary digits.  With 2^20 for Kb * Kb, 23 of them follow the point below two,
\* 20 from eight to ten; a number without a tenth is exact.
Scale(tenths) ==
  LET parts == CASE tenths < 20           -> 8
                 [] tenths \in 20 .. 39 -> 4
                 [] tenths \in 40 .. 79 -> 2
                 [] OTHER                 -> 1
  IN  parts * Kb * Kb
ParseFloat(tenths) == (2 * tenths * Scale(tenths) + 10) \div 20

\* Megabytes, in parts of Scale; none of the other units is known.
\* Mutant: a unit that is not known is as good as nothing.
transSizeToMbAny(tenths, unit) ==
  CASE unit = "M" -> ParseFloat(tenths)
    [] unit = "G" -> ParseFloat(tenths) * Kb
    [] unit = "T" -> ParseFloat(tenths) * Kb * Kb
    [] OTHER      -> 0
transSizeToMb(tenths, unit) ==
  CASE unit = "M" -> ParseFloat(tenths)
    [] unit = "G" -> ParseFloat(tenths) * Kb
    [] unit = "T" -> ParseFloat(tenths) * Kb * Kb
    [] OTHER      -> -1
Printed(k)           == Tenths(k, UnitOf(k))
getMountPointSize(k) == transSizeToMb(Printed(k), Unit[UnitOf(k)])
Readable(k)    == getMountPointSize(k) >= 0
\* Mutant: the size is cut to whole blocks.
CountOfCut(k)  == getMountPointSize(k) \div Scale(Printed(k))
CountOf(k)     == CeilDiv(getMountPointSize(k), Scale(Printed(k)))

Room       == CeilDiv(size, Kb)
Used       == Cardinality(UNION {{i} \X blocks[i] : i \in Inode})
mountPointCheck == mount \in {"rw", "error"}
--------------------------------------------------------------------------------
NoDd == [phase |-> "none", file |-> None, next |-> 0, count |-> 0, killed |-> "no"]

Init ==
  /\ size \in Sizes /\ mount \in {"none", "ro", "error", "rw"}
  /\ image = None /\ blocks = [i \in Inode |-> {}]
  /\ dd = [d \in Dd |-> NoDd]
  /\ pc = [p \in Proc |-> "idle"]
  /\ count = [p \in Proc |-> 0] /\ pids = [p \in Proc |-> {}]
  /\ hit = [p \in Proc |-> FALSE] /\ mine = [p \in Proc |-> {}]
  /\ due = [p \in Proc |-> FALSE] /\ mishaps = 0

Live == {d \in Dd : dd[d].phase # "none"}
\* No injection is on its way: what has begun has opened the image, or is found
\* by the text of its command line.
Settled ==
  /\ \A q \in Proc : pc[q] \notin {"check", "wait"}
  /\ \A d \in Live :
       \/ dd[d].phase = "fork" /\ dd[d].count = CountOf(size)
       \/ dd[d].phase = "open"

\* Prepare.
Start(p, o) ==
  /\ pc[p] = "idle"
  /\ \/ /\ mountPointCheck /\ Readable(size)
        /\ IF o = "prepare" THEN UNCHANGED <<pc, own>>
           ELSE /\ pc' = [pc EXCEPT ![p] = IF o = "inject" THEN "check" ELSE "search"]
                /\ count' = [count EXCEPT ![p] = CountOf(size)]
                /\ UNCHANGED <<pids, hit, mine>>
        /\ due' = IF o = "inject" THEN [q \in Proc |-> FALSE]
                  ELSE [due EXCEPT ![p] = o = "remove" /\ Settled]
     \/ ~(mountPointCheck /\ Readable(size)) /\ UNCHANGED <<pc, own, due>>
  /\ UNCHANGED <<fs, dd, mishaps>>

\* FaultInject: refused when there is an image; else a shell is started, and
\* waited for until it has put dd in the background.
Check(p) ==
  /\ \/ Fails(p, "check") /\ image # None /\ UNCHANGED dd
     \/ /\ Goto(p, "check", "wait") /\ image = None
        /\ \E d \in Dd \ Live :
             /\ \A q \in Proc : d \notin {x[1] : x \in pids[q]} \cup mine[q]
             /\ dd' = [dd EXCEPT ![d] = [NoDd EXCEPT !.phase = "bash", !.count = count[p]]]
             /\ mine' = [mine EXCEPT ![p] = {d}]
        /\ UNCHANGED <<count, pids, hit, due>>
  /\ UNCHANGED <<fs, mishaps>>
Injected(p) ==
  /\ Fails(p, "wait") /\ \A d \in mine[p] : dd[d].phase # "bash"
  /\ UNCHANGED <<fs, dd, mishaps>>

\* killBackgroundInjectProcess: the shell of an injection has the text as well.
\* Mutant: only what ps shows as dd, no longer as its shell.
SearchDdOnly(p) ==
  LET found == {<<d, dd[d].phase>> :
                  d \in {e \in Live : dd[e].phase = "open" /\ dd[e].count = count[p]}}
  IN  /\ Goto(p, "search", IF found = {} THEN "stat" ELSE "kill")
      /\ pids' = [pids EXCEPT ![p] = {<<x[1], x[2] # "bash">> : x \in found}]
      /\ UNCHANGED <<fs, dd, count, hit, mine, due, mishaps>>
Search(p) ==
  LET found == {<<d, dd[d].phase>> : d \in {e \in Live : dd[e].count = count[p]}}
  IN  /\ Goto(p, "search", IF found = {} THEN "stat" ELSE "kill")
      /\ pids' = [pids EXCEPT ![p] = {<<x[1], x[2] # "bash">> : x \in found}]
      /\ UNCHANGED <<fs, dd, count, hit, mine, due, mishaps>>
\* ps does not answer within the deadline.
SearchFails(p) == Fails(p, "search") /\ UNCHANGED <<fs, dd, mishaps>>

\* The shell's kill goes through its pids, and succeeds when it has sent a signal
\* to one of them.  A signal reaches a process that is there, and one that has
\* ended as long as nobody has waited for it.
There(x)   == dd[x[1]].phase \in IF x[2] THEN {"fork", "open"} ELSE {"bash"}
Reached(x) == IF There(x) THEN {TRUE} ELSE BOOLEAN
Signal(x) ==
  dd' = IF There(x) /\ dd[x[1]].killed = "no" THEN [dd EXCEPT ![x[1]].killed = "in"] ELSE dd
\* In the order of ps.  Which of two comes first is as free as the choice of their
\* slots in Check.
First(found) == CHOOSE x \in found : TRUE
Kill(p) ==
  /\ pc[p] = "kill" /\ pids[p] # {}
  /\ Signal(First(pids[p]))
  /\ \E reached \in Reached(First(pids[p])) :
       \/ /\ pids[p] # {First(pids[p])}
          /\ pids' = [pids EXCEPT ![p] = @ \ {First(@)}]
          /\ hit' = [hit EXCEPT ![p] = @ \/ reached]
          /\ UNCHANGED <<pc, count, mine, due>>
       \/ /\ pids[p] = {First(pids[p])} /\ (hit[p] \/ reached)
          /\ Goto(p, "kill", "stat")
          /\ pids' = [pids EXCEPT ![p] = {}] /\ hit' = [hit EXCEPT ![p] = FALSE]
          /\ UNCHANGED <<count, mine, due>>
       \/ pids[p] = {First(pids[p])} /\ ~(hit[p] \/ reached) /\ Fails(p, "kill")
  /\ UNCHANGED <<fs, mishaps>>

\* A file that has no name any more goes when its last dd closes it.
Opened(i, ds) == \E d \in ds : dd[d].phase = "open" /\ dd[d].file = i
Stat(p) ==
  /\ \/ Goto(p, "stat", "unlink") /\ image # None /\ UNCHANGED own
     \/ Ends(p, "stat") /\ image = None
  /\ UNCHANGED <<fs, dd, due, mishaps>>
Unlink(p) ==
  \/ /\ Ends(p, "unlink") /\ image # None /\ mount = "rw"
     /\ image' = None
     /\ blocks' = IF Opened(image, Dd) THEN blocks ELSE [blocks EXCEPT ![image] = {}]
     /\ UNCHANGED <<size, mount, dd, due, mishaps>>
  \/ /\ Fails(p, "unlink") /\ (image = None \/ mount # "rw")
     /\ UNCHANGED <<fs, dd, mishaps>>
--------------------------------------------------------------------------------
\* The shell puts dd in the background and ends.
Fork(d) ==
  /\ dd[d].phase = "bash" /\ dd[d].killed = "no"
  /\ dd' = [dd EXCEPT ![d].phase = "fork"]
  /\ UNCHANGED <<fs, pc, own, due, mishaps>>
\* The signal of a kill takes effect after the system call dd is in.
Called(d)  == dd[d].killed # "out"
Pending(d) == IF dd[d].killed = "in" THEN "out" ELSE dd[d].killed

\* dd opens the image, truncates it, and writes block after block.
Open(d) ==
  /\ dd[d].phase = "fork" /\ Called(d) /\ mount = "rw"
  /\ LET i == IF image # None THEN image ELSE CHOOSE j \in Inode : ~Opened(j, Dd)
     IN  /\ image' = i /\ blocks' = [blocks EXCEPT ![i] = {}]
         /\ dd' = [dd EXCEPT ![d].phase = "open", ![d].file = i, ![d].killed = Pending(d)]
  /\ UNCHANGED <<size, mount, pc, own, due, mishaps>>
Writable(d) ==
  /\ mount = "rw" /\ dd[d].next < dd[d].count
  /\ dd[d].next \in blocks[dd[d].file] \/ Used < Room
WriteBlock(d) ==
  /\ dd[d].phase = "open" /\ Called(d) /\ Writable(d)
  /\ blocks' = [blocks EXCEPT ![dd[d].file] = @ \cup {dd[d].next}]
  /\ dd' = [dd EXCEPT ![d].next = @ + 1, ![d].killed = Pending(d)]
  /\ UNCHANGED <<size, mount, image, pc, own, due, mishaps>>
\* All is written, or nothing more can be; or it is killed.
DdEnds(d) ==
  /\ d \in Live
  /\ \/ dd[d].killed # "no"
     \/ dd[d].phase = "fork" /\ mount # "rw"
     \/ dd[d].phase = "open" /\ ~Writable(d)
  /\ dd' = [dd EXCEPT ![d] = NoDd]
  /\ blocks' = [i \in Inode |->
                  IF i = image \/ Opened(i, Dd \ {d}) THEN blocks[i] ELSE {}]
  /\ UNCHANGED <<size, mount, image, pc, own, due, mishaps>>
--------------------------------------------------------------------------------
\* The mount point is grown; its superblock becomes read-only after an error.
Grow ==
  /\ Mishap
  /\ \E s \in Sizes : s > size /\ size' = s
  /\ due' = [p \in Proc |-> FALSE]
  /\ UNCHANGED <<mount, image, blocks, dd, pc, own>>
Remount ==
  /\ mount = "rw" /\ Mishap /\ mount' = "error"
  /\ UNCHANGED <<size, image, blocks, dd, pc, own, due>>
\* kill -9 of an invocation; its shell goes on.
Crash(p) ==
  /\ pc[p] # "idle" /\ Mishap /\ Fails(p, pc[p])
  /\ UNCHANGED <<fs, dd>>

DdStep(d) == Fork(d) \/ Open(d) \/ WriteBlock(d) \/ DdEnds(d)
Step(p)   ==
  \/ Check(p) \/ Injected(p)
  \/ Search(p) \/ SearchFails(p) \/ Kill(p) \/ Stat(p) \/ Unlink(p)

Next ==
  \/ \E p \in Proc : Step(p) \/ Crash(p)
  \/ \E p \in Proc, o \in {"prepare", "inject", "remove"} : Start(p, o)
  \/ \E d \in Dd : DdStep(d)
  \/ Grow \/ Remount

Spec == Init /\ [][Next]_vars
\* The machine runs what is started.
FairSpec == Spec /\ \A d \in Dd : WF_vars(DdStep(d))
--------------------------------------------------------------------------------
DdType == [phase : {"none", "bash", "fork", "open"}, file : Inode \cup {None},
           next : Nat, count : Nat, killed : {"no", "in", "out"}]
\* Only the image and what a dd has open take space, and no more than there is;
\* the count of a dd is never nothing.
TypeOK ==
  /\ size \in Sizes /\ mount \in {"none", "ro", "error", "rw"}
  /\ image \in Inode \cup {None}
  /\ blocks \in [Inode -> SUBSET Nat]
  /\ \A i \in Inode : blocks[i] # {} => i = image \/ Opened(i, Dd)
  /\ Used <= Room
  /\ dd \in [Dd -> DdType] /\ \A d \in Live : dd[d].count > 0
  /\ pc \in [Proc -> {"idle", "check", "wait", "search", "kill", "stat", "unlink"}]
  /\ count \in [Proc -> Nat]
  /\ pids \in [Proc -> SUBSET (Dd \X BOOLEAN)] /\ mine \in [Proc -> SUBSET Dd]
  /\ hit \in [Proc -> BOOLEAN] /\ due \in [Proc -> BOOLEAN] /\ mishaps \in 0 .. MaxMishaps

\* getMountPointSize: df rounds up and cuts to three digits, the number is read
\* with 32 bits, and the count of dd is still enough to fill a mount point of any
\* size whose unit is known, and never more than a tenth and a block too much.
\* Only between 4T and 10T, where the tenths have too few digits left, may it fall
\* short, and then by less than half a block.
Coarse(k) == Unit[UnitOf(k)] = "T" /\ 40 < Printed(k) /\ Printed(k) < 100
EnoughFor(k) ==
  Readable(k) =>
    /\ CountOf(k) * Kb >= k \/ (Coarse(k) /\ 2 * (k - CountOf(k) * Kb) < Kb)
    /\ 10 * (CountOf(k) - 1) * Kb < 11 * k
EnoughForAll == \A k \in Samples : EnoughFor(k)
Enough == EnoughForAll /\ EnoughFor(size)

\* An injection whose dd nobody kills fills the mount point, also when another
\* has truncated its image, unless the mount point has grown since Prepare or
\* can no longer be written.
Fills ==
  (\E d \in Dd : dd[d].phase = "fork") ~>
    \/ Used = Room
    \/ \E d \in Live : dd[d].killed # "no" \/ dd[d].count # CountOf(size)
    \/ mount # "rw"

\* A removal that was begun when no injection was under way and reports success
\* gives the space back, even of a dd its search has missed, unless a new
\* injection or a growing of the mount point comes in between.
Freed ==
  (\E p \in Proc : due[p] /\ pc[p] = "idle") ~> Used = 0 \/ \A p \in Proc : ~due[p]
================================================================================

---------------------------- MODULE FileFaultsProofs ---------------------------
(***************************************************************************)
(* Proofs about FileFaults.  For any number of invocations at work at      *)
(* once: type correctness, and that the four faults implement FaultLedger. *)
(* Backups come before the harm, and contents and execute bits survive,    *)
(* when invocations come one after the other, each failing or killed       *)
(* anywhere; and also when they overlap, as long as those of one and the   *)
(* same fault do not.                                                      *)
(* Last, the arithmetic of CorruptionRange at every width of the integers, *)
(* size of the file and limit of the allocator.                            *)
(***************************************************************************)
EXTENDS FileFaults, CorruptionRange, TLAPS

\* No two names are one file.
Apart == \A m, n \in Name : m # n /\ ent[m] = ent[n] => ent[m] = None
\* The backup of a corruption and that of permissions are never immutable: nobody
\* who is about to write the bit has one of them open.
Beside   == {"corruptionBackup", "attrBackup"}
Flagger == {"setAttr", "unsetAttr"}
Backups == \A n \in Beside : Exists(n) => ~At(n).imm
Aimed   == \A p \in Proc : pc[p] \in Flagger => \A n \in Beside : src[p] # ent[n]
\* What an invocation has to hold for its next call.
Holding ==
  \A p \in Proc :
    /\ pc[p] \in {"copyStat", "copyCreate", "copyWrite"} \cup Flagger => src[p] \in Ino
    /\ pc[p] = "copyWrite" => out[p] \in Ino
    /\ pc[p] \in {"openAttr", "writeAttr", "chmodBack"} => mode[p] \in Mode
IInv == TypeOK /\ Holding /\ Apart /\ Backups /\ Aimed

\* What it takes to keep the parts of IInv that speak of the directory.
Placed  == ent \in [Name -> Ino \cup {None}] /\ Apart
Inodes  == ino \in [Ino -> [kind : {"file", "dir"}, data : Data \cup Mode, mode : Mode,
                            imm : BOOLEAN]]
Locals  == /\ pc \in [Proc -> Label]
           /\ src \in [Proc -> Ino \cup {None}]
           /\ out \in [Proc -> Ino \cup {None}]
           /\ mode \in [Proc -> Mode \cup {None}]
Counted == mishaps \in 0..MaxMishaps /\ recreated \in 0..MaxRecreated

\* What keeps Aimed, but where a file is opened: a copy that appears is an inode
\* that nobody has open, and who is about to write the bit has opened it before.
SameOrNew ==
  \A n \in Beside :
    \/ ent'[n] \in {ent[n], None}
    \/ ent'[n] \in Ino /\ \A p \in Proc : src[p] # ent'[n]
SameAim ==
  \A p \in Proc : pc'[p] \in Flagger => pc'[p] = pc[p] /\ src'[p] = src[p]
--------------------------------------------------------------------------------
LEMMA Parts ==
  /\ IInv <=> Placed /\ Inodes /\ Locals /\ Counted /\ Holding /\ Backups /\ Aimed
  /\ IInv' <=> Placed' /\ Inodes' /\ Locals' /\ Counted' /\ Holding' /\ Backups' /\ Aimed'
BY FileAssumption DEF IInv, TypeOK, Placed, Inodes, Locals, Counted, Holding, Flagger

LEMMA AimedKept ==
  ASSUME Aimed, Locals, Holding, SameOrNew, SameAim
  PROVE  Aimed'
BY FileAssumption DEF Aimed, Locals, Holding, SameOrNew, SameAim

\* What a step that opens no file to flag has to keep.
LEMMA AllKept ==
  ASSUME IInv, Placed', Inodes', Backups', SameOrNew, Locals', Holding', SameAim, Counted'
  PROVE  IInv'
BY Parts, AimedKept

\* The inode a new file gets is one that no name and no invocation has.
LEMMA New ==
  ASSUME ~(Ino \subseteq InUse)
  PROVE  NewIno \in Ino /\ NewIno \notin InUse
BY DEF NewIno

\* Ends, and steps that only look, keep what invocations hold.
LEMMA EndKeeps ==
  ASSUME Locals, Holding, NEW p \in Proc, End(p)
  PROVE  Locals' /\ Holding' /\ SameAim
BY FileAssumption DEF Locals, Holding, End, Label, Flagger, SameAim

LEMMA InitHolds == Init => IInv
<1> SUFFICES ASSUME Init PROVE IInv OBVIOUS
<1>1. PICK i \in {CHOOSE j \in Ino : TRUE}, k \in Kinds, m \in Modes :
        /\ ent = [n \in Name |-> IF n = "file" THEN i ELSE None]
        /\ ino = [j \in Ino |->
                    IF j = i THEN [Fresh("original") EXCEPT !.kind = k, !.mode = m]
                    ELSE Fresh("other")]
  BY DEF Init
<1>2. i \in Ino /\ k \in {"file", "dir"} /\ m \in Mode BY FileAssumption
<1>3. Placed /\ Backups
  BY <1>1, <1>2, FileAssumption DEF Placed, Apart, Backups, Exists, Name, Beside
<1>4. Inodes BY <1>1, <1>2 DEF Inodes, Fresh, Data, Mode
<1>5. Locals /\ Holding /\ Aimed
  BY FileAssumption DEF Init, Locals, Holding, Label, Aimed, Flagger
<1>6. Counted BY FileAssumption DEF Init, Counted
<1> QED BY <1>3, <1>4, <1>5, <1>6, Parts
--------------------------------------------------------------------------------
\* What the kinds of step do to the directory and the inodes.
LEMMA DiskKept ==
  ASSUME IInv, UNCHANGED disk
  PROVE  Placed' /\ Inodes' /\ Backups' /\ SameOrNew
BY Parts DEF disk, Placed, Apart, Inodes, Backups, SameOrNew, Beside, Name, Exists, At

LEMMA Renamed ==
  ASSUME IInv, NEW from \in Name, NEW to \in Name \ Beside, from # to,
         CanRename(from, to), Rename(from, to)
  PROVE  Placed' /\ Inodes' /\ Backups' /\ SameOrNew
<1> USE Parts, AllKept
<1>1. Inodes' BY DEF Inodes, Rename
<1>2. ent' \in [Name -> Ino \cup {None}] BY DEF Placed, Rename
<1>3. /\ \A n \in Name \ {from, to} : ent'[n] = ent[n]
      /\ ent'[to] = ent[from] /\ ent'[from] = None
  BY DEF Placed, Rename
<1>4. Apart' BY <1>3 DEF Placed, Apart
<1>5. ~At(from).imm /\ ent[from] # None BY DEF CanRename, Writable, Exists
<1>6. Backups' /\ SameOrNew
  BY <1>3 DEF Backups, SameOrNew, Beside, Name, Exists, At, Rename
<1> QED BY <1>1, <1>2, <1>4, <1>6 DEF Placed

LEMMA Unlinked ==
  ASSUME IInv, NEW n \in Name, ent' = [ent EXCEPT ![n] = None], ino' = ino
  PROVE  Placed' /\ Inodes' /\ Backups' /\ SameOrNew
BY Parts DEF Placed, Apart, Inodes, Backups, SameOrNew, Beside, Name, Exists, At

LEMMA Made ==
  ASSUME IInv, NEW n \in Name, NEW d \in Data, Make(n, d)
  PROVE  Placed' /\ Inodes' /\ Backups' /\ SameOrNew
<1> USE Parts, AllKept
<1>1. NewIno \in Ino /\ NewIno \notin InUse BY New DEF Make
<1>2. \A m \in Name : ent[m] # NewIno BY <1>1 DEF InUse, Range, Placed
<1>3. ent' = [ent EXCEPT ![n] = NewIno] /\ ino' = [ino EXCEPT ![NewIno] = Fresh(d)]
  BY DEF Make
<1>4. Placed' BY <1>1, <1>2, <1>3 DEF Placed, Apart
<1>5. Inodes' BY <1>1, <1>3 DEF Inodes, Fresh, Data, Mode
<1>6. Backups'
  BY <1>1, <1>2, <1>3 DEF Backups, Beside, Name, Exists, At, Fresh, Placed, Inodes
<1>7. \A p \in Proc : src[p] # NewIno BY <1>1 DEF InUse, Range, Locals
<1>8. SameOrNew BY <1>1, <1>3, <1>7 DEF SameOrNew, Beside, Name, Placed
<1> QED BY <1>4, <1>5, <1>6, <1>8

LEMMA Filled ==
  ASSUME IInv, ent' = ent, NEW i, NEW d \in Data \cup Mode,
         ino' = [ino EXCEPT ![i].data = d]
  PROVE  Placed' /\ Inodes' /\ Backups' /\ SameOrNew
<1> USE Parts, AllKept
<1>1. Inodes' BY DEF Inodes
<1>2. Placed' BY DEF Placed, Apart
<1>3. \A n \in Name : Exists(n) => ent[n] \in Ino BY DEF Placed, Exists
<1>4. \A j \in Ino : ino'[j].imm = ino[j].imm BY DEF Inodes
<1>5. Backups' /\ SameOrNew
  BY <1>3, <1>4 DEF Backups, SameOrNew, Beside, Name, Exists, At
<1> QED BY <1>1, <1>2, <1>5

LEMMA Chmodded ==
  ASSUME IInv, ent' = ent, NEW i, NEW m \in Mode, ino' = [ino EXCEPT ![i].mode = m]
  PROVE  Placed' /\ Inodes' /\ Backups' /\ SameOrNew
<1> USE Parts, AllKept
<1>1. Inodes' BY DEF Inodes
<1>2. Placed' BY DEF Placed, Apart
<1>3. \A n \in Name : Exists(n) => ent[n] \in Ino BY DEF Placed, Exists
<1>4. \A j \in Ino : ino'[j].imm = ino[j].imm BY DEF Inodes
<1>5. Backups' /\ SameOrNew
  BY <1>3, <1>4 DEF Backups, SameOrNew, Beside, Name, Exists, At
<1> QED BY <1>1, <1>2, <1>5

LEMMA Flagged ==
  ASSUME IInv, NEW p \in Proc, pc[p] \in Flagger, ent' = ent, NEW b \in BOOLEAN,
         ino' = [ino EXCEPT ![src[p]].imm = b]
  PROVE  Placed' /\ Inodes' /\ Backups' /\ SameOrNew
<1> USE Parts, AllKept
<1>1. Placed' /\ Inodes' BY DEF Placed, Apart, Inodes
<1>2. src[p] \in Ino /\ \A n \in Beside : src[p] # ent[n] BY DEF Holding, Aimed
<1>3. \A n \in Beside : Exists(n) => ent[n] \in Ino BY DEF Placed, Exists, Beside, Name
<1>4. Backups' BY <1>2, <1>3 DEF Backups, Exists, At, Inodes
<1>5. SameOrNew BY DEF SameOrNew
<1> QED BY <1>1, <1>4, <1>5
--------------------------------------------------------------------------------
\* Labels at which an invocation holds something.
Holds == {"copyStat", "copyCreate", "copyWrite", "openAttr", "writeAttr", "chmodBack",
          "setAttr", "unsetAttr"}

LEMMA Goes ==
  ASSUME IInv, NEW p \in Proc, NEW from, NEW to \in Label \ Holds,
         Goto(p, from, to), UNCHANGED locals, Placed', Inodes', Backups', SameOrNew
  PROVE  IInv'
<1> USE Parts, AllKept
<1>1. Locals' /\ Holding' /\ SameAim
  BY DEF Goto, locals, Locals, Holding, Holds, Flagger, SameAim
<1>2. Counted' BY DEF Goto, env, Counted
<1> QED BY <1>1, <1>2

LEMMA Looked ==
  ASSUME IInv, NEW p \in Proc, NEW from, NEW to \in Label \ Holds, NEW c,
         LooksIf(p, from, to, c)
  PROVE  IInv'
BY DiskKept, Goes DEF LooksIf

LEMMA Failed ==
  ASSUME IInv, NEW p \in Proc, NEW at, NEW c, FailsIf(p, at, c)
  PROVE  IInv'
<1> USE Parts, AllKept
<1>1. Locals' /\ Holding' /\ SameAim BY EndKeeps DEF FailsIf
<1>2. Counted' BY DEF FailsIf, env, Counted
<1>3. Placed' /\ Inodes' /\ Backups' /\ SameOrNew BY DiskKept DEF FailsIf
<1> QED BY <1>1, <1>2, <1>3

LEMMA Broke ==
  ASSUME IInv, NEW p \in Proc, NEW at, Breaks(p, at)
  PROVE  IInv'
<1> USE Parts, AllKept
<1>1. Locals' /\ Holding' /\ SameAim BY EndKeeps DEF Breaks
<1>2. Counted' BY FileAssumption DEF Breaks, Counted
<1>3. Placed' /\ Inodes' /\ Backups' /\ SameOrNew BY DiskKept DEF Breaks
<1> QED BY <1>1, <1>2, <1>3

LEMMA Finished ==
  ASSUME IInv, NEW p \in Proc, NEW from, Finishes(p, from),
         Placed', Inodes', Backups', SameOrNew
  PROVE  IInv'
<1> USE Parts, AllKept
<1>1. Locals' /\ Holding' /\ SameAim BY EndKeeps DEF Finishes
<1>2. Counted' BY DEF Finishes, env, Counted
<1> QED BY <1>1, <1>2

\* The steps in which an invocation comes to hold something, or lets it go.
LEMMA CopyOpenKeeps ==
  ASSUME IInv, NEW p \in Proc, CopyOpen(p) \/ CorruptOpen(p)
  PROVE  IInv'
<1> USE Parts, AllKept
<1>1. Locals' /\ Holding' /\ SameAim
  BY DEF CopyOpen, CorruptOpen, Good, Exists, Goto, Locals, Holding, Label, Placed, Name,
         Flagger, SameAim
<1>2. Counted' BY DEF CopyOpen, CorruptOpen, Goto, env, Counted
<1>3. UNCHANGED disk BY DEF CopyOpen, CorruptOpen
<1> QED BY <1>1, <1>2, <1>3, DiskKept

LEMMA CopyStatKeeps ==
  ASSUME IInv, NEW p \in Proc, CopyStat(p)
  PROVE  IInv'
<1> USE Parts, AllKept
<1>1. Locals' /\ Holding' /\ SameAim
  BY DEF CopyStat, LooksIf, Goto, locals, Locals, Holding, Label, Flagger, SameAim
<1>2. Counted' BY DEF CopyStat, LooksIf, Goto, env, Counted
<1>3. UNCHANGED disk BY DEF CopyStat, LooksIf
<1> QED BY <1>1, <1>2, <1>3, DiskKept

LEMMA CopyCreateKeeps ==
  ASSUME IInv, NEW p \in Proc, CopyCreate(p)
  PROVE  IInv'
<1> USE Parts, AllKept
<1>1. /\ Goto(p, "copyCreate", "copyWrite")
      /\ UNCHANGED <<src, mode>>
  BY DEF CopyCreate
<1>2. CASE /\ ~Exists("corruptionBackup")
           /\ Make("corruptionBackup", "partial")
           /\ out' = [out EXCEPT ![p] = NewIno]
  <2>1. Placed' /\ Inodes' /\ Backups' /\ SameOrNew BY <1>2, Made DEF Name, Data
  <2>2. NewIno \in Ino BY <1>2, New DEF Make
  <2> QED BY <1>1, <1>2, <2>1, <2>2
         DEF Goto, Locals, Holding, Label, Flagger, SameAim, Counted, env
<1>3. CASE /\ Exists("corruptionBackup")
           /\ ino' = [ino EXCEPT ![ent["corruptionBackup"]].data = "partial"]
           /\ out' = [out EXCEPT ![p] = ent["corruptionBackup"]]
           /\ UNCHANGED ent
  <2>1. Placed' /\ Inodes' /\ Backups' /\ SameOrNew BY <1>3, Filled DEF Data
  <2>2. ent["corruptionBackup"] \in Ino BY <1>3 DEF Placed, Exists, Name
  <2> QED BY <1>1, <1>3, <2>1, <2>2
         DEF Goto, Locals, Holding, Label, Flagger, SameAim, Counted, env
<1> QED BY <1>2, <1>3 DEF CopyCreate

LEMMA CopyWriteKeeps ==
  ASSUME IInv, NEW p \in Proc, CopyWrite(p)
  PROVE  IInv'
<1> USE Parts, AllKept
<1>1. pc[p] = "copyWrite" BY DEF CopyWrite, Goto
<1>2. ino[src[p]].data \in Data \cup Mode BY <1>1 DEF Holding, Inodes
<1>3. Placed' /\ Inodes' /\ Backups' /\ SameOrNew BY <1>2, Filled DEF CopyWrite
<1>4. Locals' /\ Holding' /\ SameAim
  BY DEF CopyWrite, Goto, Locals, Holding, Label, Flagger, SameAim
<1>5. Counted' BY DEF CopyWrite, Goto, env, Counted
<1> QED BY <1>3, <1>4, <1>5

LEMMA OpenAttrKeeps ==
  ASSUME IInv, NEW p \in Proc, OpenAttr(p)
  PROVE  IInv'
<1> USE Parts, AllKept
<1>1. Goto(p, "openAttr", "writeAttr") /\ UNCHANGED <<src, mode>> BY DEF OpenAttr
<1>2. CASE /\ ~Exists("attrBackup")
           /\ Make("attrBackup", "partial")
           /\ out' = [out EXCEPT ![p] = NewIno]
  <2>1. Placed' /\ Inodes' /\ Backups' /\ SameOrNew BY <1>2, Made DEF Name, Data
  <2>2. NewIno \in Ino BY <1>2, New DEF Make
  <2> QED BY <1>1, <1>2, <2>1, <2>2
         DEF Goto, Locals, Holding, Label, Flagger, SameAim, Counted, env
<1>3. CASE /\ Exists("attrBackup")
           /\ out' = [out EXCEPT ![p] = ent["attrBackup"]]
           /\ UNCHANGED disk
  <2>1. Placed' /\ Inodes' /\ Backups' /\ SameOrNew BY <1>3, DiskKept
  <2>2. ent["attrBackup"] \in Ino BY <1>3 DEF Placed, Exists, Name
  <2> QED BY <1>1, <1>3, <2>1, <2>2
         DEF Goto, Locals, Holding, Label, Flagger, SameAim, Counted, env
<1> QED BY <1>2, <1>3 DEF OpenAttr

LEMMA WriteAttrKeeps ==
  ASSUME IInv, NEW p \in Proc, WriteAttr(p)
  PROVE  IInv'
<1> USE Parts, AllKept
<1>1. mode[p] \in Mode BY DEF WriteAttr, Goto, Holding
<1>2. Perm(mode[p]) \in Data \cup Mode BY <1>1 DEF Perm, Mode
<1>3. Placed' /\ Inodes' /\ Backups' /\ SameOrNew BY <1>2, Filled DEF WriteAttr
<1>4. Locals' /\ Holding' /\ SameAim
  BY DEF WriteAttr, Goto, Locals, Holding, Label, Flagger, SameAim
<1>5. Counted' BY DEF WriteAttr, Goto, env, Counted
<1> QED BY <1>3, <1>4, <1>5

LEMMA ReadsModeKeeps ==
  ASSUME IInv, NEW p \in Proc, UnexecPrepare(p) \/ ReadAttr(p)
  PROVE  IInv'
<1> USE Parts, AllKept
<1>1. CASE FailsIf(p, {"unexecuted-inject"}, Good /\ At("file").mode \in {"plain", "stripped"})
  BY <1>1, Failed
<1>2. CASE /\ Good /\ At("file").mode \in {"exec", "special"}
           /\ Goto(p, "unexecuted-inject", "openAttr")
           /\ mode' = [mode EXCEPT ![p] = At("file").mode]
           /\ UNCHANGED <<disk, src, out>>
  <2>1. Placed' /\ Inodes' /\ Backups' /\ SameOrNew BY <1>2, DiskKept
  <2>2. At("file").mode \in Mode BY <1>2 DEF Mode
  <2> QED BY <1>2, <2>1, <2>2
         DEF Goto, Locals, Holding, Label, Flagger, SameAim, Counted, env
<1>3. CASE ReadAttr(p)
  <2>1. Placed' /\ Inodes' /\ Backups' /\ SameOrNew BY <1>3, DiskKept DEF ReadAttr
  <2>2. At("attrBackup").data \in Mode BY <1>3 DEF ReadAttr, Parses
  <2>3. Locals' /\ Holding' /\ SameAim
    BY <1>3, <2>2 DEF ReadAttr, Goto, Locals, Holding, Label, Flagger, SameAim
  <2>4. Counted' BY <1>3 DEF ReadAttr, Goto, env, Counted
  <2> QED BY <2>1, <2>3, <2>4
<1> QED BY <1>1, <1>2, <1>3 DEF UnexecPrepare
--------------------------------------------------------------------------------
LEMMA LostKeeps ==
  ASSUME IInv, NEW p \in Proc,
         \/ LostStat(p) \/ LostRename(p) \/ LostFails(p)
         \/ UnlostStat(p) \/ UnlostRename(p) \/ UnlostFails(p)
  PROVE  IInv'
<1>1. CASE LostStat(p) \/ UnlostStat(p)
  BY <1>1, Looked DEF LostStat, UnlostStat, Label, Holds
<1>2. CASE LostRename(p)
  BY <1>2, Renamed, Finished DEF LostRename, Name, Beside
<1>3. CASE UnlostRename(p)
  BY <1>3, Renamed, Finished DEF UnlostRename, Name, Beside
<1>4. CASE LostFails(p) \/ UnlostFails(p)
  BY <1>4, Failed DEF LostFails, UnlostFails
<1> QED BY <1>1, <1>2, <1>3, <1>4

LEMMA CorruptionKeeps ==
  ASSUME IInv, NEW p \in Proc,
         \/ CorruptPrepare(p) \/ CorruptCheck(p) \/ CorruptWrite(p) \/ CorruptFails(p)
         \/ RepairPrepare(p) \/ FindBackup(p) \/ RepairRemove(p) \/ RepairMv(p)
         \/ RepairFails(p)
  PROVE  IInv'
<1>1. CASE CorruptPrepare(p) \/ CorruptCheck(p) \/ RepairPrepare(p) \/ FindBackup(p)
  BY <1>1, Looked DEF CorruptPrepare, CorruptCheck, RepairPrepare, FindBackup, Label, Holds
<1>2. CASE CorruptWrite(p)
  BY <1>2, Filled, Finished DEF CorruptWrite, Data
<1>3. CASE CorruptFails(p)
  BY <1>3, Failed, Broke DEF CorruptFails
<1>4. CASE RepairRemove(p)
  <2>1. Placed' /\ Inodes' /\ Backups' /\ SameOrNew BY <1>4, Unlinked DEF RepairRemove, Name
  <2> QED BY <1>4, <2>1, Goes DEF RepairRemove, Label, Holds
<1>5. CASE RepairMv(p)
  BY <1>5, Renamed, Finished DEF RepairMv, Name, Beside
<1>6. CASE RepairFails(p)
  BY <1>6, Failed DEF RepairFails
<1> QED BY <1>1, <1>2, <1>3, <1>4, <1>5, <1>6

\* The opens of file-readonly: the path is none of the copies.
LEMMA OpenToFlagKeeps ==
  ASSUME IInv, NEW p \in Proc, NEW from, NEW to \in Flagger, OpenToFlag(p, from, to)
  PROVE  IInv'
<1> USE Parts
<1>1. /\ pc' = [pc EXCEPT ![p] = to] /\ src' = [src EXCEPT ![p] = ent["file"]]
      /\ UNCHANGED <<disk, out, mode, env>>
  BY DEF OpenToFlag, Goto
<1>2. ent["file"] \in Ino /\ \A n \in Beside : ent["file"] # ent[n]
  BY FileAssumption DEF OpenToFlag, Exists, Placed, Apart, Name, Beside
<1>3. Locals' /\ Holding' BY <1>1, <1>2 DEF Locals, Holding, Label, Flagger
<1>4. Aimed' BY <1>1, <1>2 DEF Aimed, Locals, disk
<1>5. Placed' /\ Inodes' /\ Backups' BY <1>1, DiskKept
<1>6. Counted' BY <1>1 DEF Counted, env
<1> QED BY <1>3, <1>4, <1>5, <1>6

LEMMA ReadonlyKeeps ==
  ASSUME IInv, NEW p \in Proc,
         \/ ReadonlyPrepare(p) \/ OpenSet(p) \/ SetAttr(p) \/ OpenUnset(p) \/ UnsetAttr(p)
         \/ AttrFails(p)
  PROVE  IInv'
<1>1. CASE ReadonlyPrepare(p)
  BY <1>1, Looked, Failed DEF ReadonlyPrepare, Label, Holds
<1>2. CASE OpenSet(p) \/ OpenUnset(p)
  BY <1>2, OpenToFlagKeeps DEF OpenSet, OpenUnset, Flagger
<1>3. CASE SetAttr(p)
  <2>1. pc[p] \in Flagger BY <1>3 DEF SetAttr, Finishes, Flagger
  <2> QED BY <1>3, <2>1, Flagged, Finished DEF SetAttr, SetBit
<1>4. CASE UnsetAttr(p)
  <2>1. pc[p] \in Flagger BY <1>4 DEF UnsetAttr, Finishes, Flagger
  <2> QED BY <1>4, <2>1, Flagged, Finished DEF UnsetAttr, UnsetBit
<1>5. CASE AttrFails(p)
  BY <1>5, Failed DEF AttrFails
<1> QED BY <1>1, <1>2, <1>3, <1>4, <1>5

LEMMA UnexecutedKeeps ==
  ASSUME IInv, NEW p \in Proc,
         \/ ChmodOff(p) \/ UnexecFails(p) \/ ReexecPrepare(p)
         \/ ChmodBack(p) \/ DropAttr(p) \/ ReexecFails(p)
  PROVE  IInv'
<1>1. CASE ChmodOff(p)
  BY <1>1, Chmodded, Finished DEF ChmodOff, Mode
<1>2. CASE UnexecFails(p)
  BY <1>2, Failed, Broke DEF UnexecFails
<1>3. CASE ReexecPrepare(p)
  BY <1>3, Looked DEF ReexecPrepare, Label, Holds
<1>4. CASE ChmodBack(p)
  <2>1. mode[p] \in Mode BY <1>4, Parts DEF ChmodBack, Goto, Holding
  <2>2. Placed' /\ Inodes' /\ Backups' /\ SameOrNew BY <1>4, <2>1, Chmodded DEF ChmodBack
  <2> QED BY <1>4, <2>2, Goes DEF ChmodBack, Label, Holds
<1>5. CASE DropAttr(p)
  BY <1>5, Unlinked, Finished DEF DropAttr, Name
<1>6. CASE ReexecFails(p)
  BY <1>6, Failed DEF ReexecFails
<1> QED BY <1>1, <1>2, <1>3, <1>4, <1>5, <1>6

LEMMA StartKeeps ==
  ASSUME IInv, NEW p \in Proc, NEW op \in Ops, Start(p, op)
  PROVE  IInv'
<1> DEFINE to == CASE op = "lost-inject" -> "lostStat"
                   [] op = "lost-remove" -> "unlostStat"
                   [] OTHER              -> op
<1>1. to \in Label \ Holds BY FileAssumption DEF AllOps, Label, Holds
<1>2. Goto(p, "idle", to) /\ UNCHANGED locals /\ UNCHANGED disk BY DEF Start
<1>3. Placed' /\ Inodes' /\ Backups' /\ SameOrNew BY <1>2, DiskKept
<1> HIDE DEF to
<1> QED BY <1>1, <1>2, <1>3, Goes

LEMMA CrashKeeps ==
  ASSUME IInv, NEW p \in Proc, Crash(p)
  PROVE  IInv'
<1> USE Parts, AllKept
<1>1. Locals' /\ Holding' /\ SameAim BY EndKeeps DEF Crash
<1>2. Counted' BY FileAssumption DEF Crash, Counted
<1>3. Placed' /\ Inodes' /\ Backups' /\ SameOrNew BY DiskKept DEF Crash
<1> QED BY <1>1, <1>2, <1>3

LEMMA RecreateKeeps ==
  ASSUME IInv, Recreate
  PROVE  IInv'
<1> USE Parts, AllKept
<1>1. Placed' /\ Inodes' /\ Backups' /\ SameOrNew BY Made DEF Recreate, Name, Data
<1>2. Locals' /\ Holding' /\ SameAim
  BY DEF Recreate, locals, Locals, Holding, Flagger, SameAim
<1>3. Counted' BY FileAssumption DEF Recreate, Counted
<1> QED BY <1>1, <1>2, <1>3

LEMMA NextKeeps == IInv /\ [Next]_vars => IInv'
<1> SUFFICES ASSUME IInv, [Next]_vars PROVE IInv' OBVIOUS
<1>1. CASE UNCHANGED vars
  <2>1. Placed' /\ Inodes' /\ Backups' /\ SameOrNew BY <1>1, DiskKept DEF vars
  <2>2. Locals' /\ Holding' /\ SameAim
    BY <1>1, Parts DEF vars, locals, Locals, Holding, SameAim
  <2>3. Counted' BY <1>1, Parts DEF vars, env, Counted
  <2> QED BY <2>1, <2>2, <2>3, AllKept
<1>2. CASE Recreate BY <1>2, RecreateKeeps
<1>3. ASSUME NEW p \in Proc, Step(p) PROVE IInv'
  <2>1. CASE PrepareFails(p) BY <2>1, Failed DEF PrepareFails
  <2> QED BY <1>3, <2>1, LostKeeps, CorruptionKeeps, ReadonlyKeeps, UnexecutedKeeps,
             CopyOpenKeeps, CopyStatKeeps, CopyCreateKeeps, CopyWriteKeeps,
             OpenAttrKeeps, WriteAttrKeeps, ReadsModeKeeps
          DEF Step
<1>4. ASSUME NEW p \in Proc, Crash(p) PROVE IInv' BY <1>4, CrashKeeps
<1>5. ASSUME NEW p \in Proc, NEW op \in Ops, Start(p, op) PROVE IInv'
  BY <1>5, StartKeeps
<1> QED BY <1>1, <1>2, <1>3, <1>4, <1>5 DEF Next

\* The directory, the inodes and what each invocation holds are of their types; an
\* injection that is about to copy holds both ends of the copy.
THEOREM TypeCorrect == Spec => []TypeOK
<1>1. IInv => TypeOK BY DEF IInv
<1> QED BY InitHolds, NextKeeps, <1>1, PTL DEF Spec
--------------------------------------------------------------------------------
\* Refinement: each step is a stutter of FaultLedger or one of its actions.
Busy    == [p \in Proc |-> Doing(pc[p])]
SameTraces ==
  /\ Exists("lostBackup")' = Exists("lostBackup")
  /\ Exists("corruptionBackup")' = Exists("corruptionBackup")
  /\ LockedUp' = LockedUp
  /\ Exists("attrBackup")' = Exists("attrBackup")
LedgerStep == [Ledger!Next]_(Ledger!vars)

LEMMA TracesKept ==
  ASSUME SameTraces
  PROVE  Traces' = Traces
BY DEF SameTraces, Traces, LockedUp, Exists, At

LEMMA DiskTraces ==
  ASSUME UNCHANGED disk
  PROVE  Traces' = Traces
BY TracesKept DEF disk, SameTraces, LockedUp, Exists, At

\* What leaves the immutable bits on the path and its backups as they are: a call
\* that no such bit refuses, a new inode, and whatever writes no bit.
LEMMA RenameLocks ==
  ASSUME IInv, NEW from \in Name, NEW to \in Name, from # to,
         CanRename(from, to), Rename(from, to)
  PROVE  LockedUp' = LockedUp
<1>1. /\ \A n \in Name \ {from, to} : ent'[n] = ent[n]
      /\ ent'[to] = ent[from] /\ ent'[from] = None /\ ino' = ino
  BY Parts DEF Placed, Rename
<1>2. ~At(from).imm /\ (Exists(to) => ~At(to).imm) BY DEF CanRename, Writable
<1> QED BY <1>1, <1>2 DEF LockedUp, Exists, At

LEMMA UnlinkLocks ==
  ASSUME IInv, NEW n \in Name, Exists(n) => ~At(n).imm,
         ent' = [ent EXCEPT ![n] = None], ino' = ino
  PROVE  LockedUp' = LockedUp
BY Parts DEF Placed, LockedUp, Exists, At

LEMMA MakeLocks ==
  ASSUME IInv, NEW n \in Name, NEW d, ~Exists(n), Make(n, d)
  PROVE  LockedUp' = LockedUp
<1> USE Parts DEF Placed, Inodes
<1>1. NewIno \in Ino /\ NewIno \notin InUse BY New DEF Make
<1>2. \A m \in Name : ent[m] # NewIno BY <1>1 DEF InUse, Range
<1>3. ent' = [ent EXCEPT ![n] = NewIno] /\ ino' = [ino EXCEPT ![NewIno] = Fresh(d)]
  BY DEF Make
<1>4. ~ino'[NewIno].imm BY <1>1, <1>3 DEF Fresh
<1>5. \A j \in Ino \ {NewIno} : ino'[j] = ino[j] BY <1>3
<1>6. \A m \in Name \ {n} : ent'[m] = ent[m] BY <1>3
<1>7. ent'[n] = NewIno BY <1>3
<1>8. \A m \in Name \ {n} : Exists(m) => ino'[ent[m]] = ino[ent[m]]
  BY <1>2, <1>5 DEF Exists
<1> QED BY <1>4, <1>6, <1>7, <1>8 DEF LockedUp, Exists, At

LEMMA BitsLocks ==
  ASSUME IInv, ent' = ent, \A j \in Ino : ino'[j].imm = ino[j].imm
  PROVE  LockedUp' = LockedUp
BY Parts DEF Placed, LockedUp, Exists, At

LEMMA BusyMoves ==
  ASSUME Locals, NEW p \in Proc, NEW l, pc' = [pc EXCEPT ![p] = l]
  PROVE  Busy' = [Busy EXCEPT ![p] = Doing(l)]
<1>1. \A q \in Proc : pc'[q] = IF q = p THEN l ELSE pc[q] BY DEF Locals
<1>2. \A q \in Proc : Busy'[q] = IF q = p THEN Doing(l) ELSE Busy[q] BY <1>1 DEF Busy
<1> QED BY <1>2 DEF Busy

\* A step inside an invocation that leaves the traces alone.
LEMMA Stutters ==
  ASSUME IInv, NEW p \in Proc, NEW from, NEW to, Goto(p, from, to),
         Doing(from) = Doing(to), Traces' = Traces
  PROVE  LedgerStep
<1>1. Busy' = [Busy EXCEPT ![p] = Doing(to)] BY BusyMoves, Parts DEF Goto
<1>2. Busy[p] = Doing(to) BY DEF Busy, Goto
<1>3. Busy' = Busy BY <1>1, <1>2 DEF Busy
<1> QED BY <1>3 DEF LedgerStep, Ledger!vars, Busy

\* One that ends it.
LEMMA Leaves ==
  ASSUME IInv, NEW p \in Proc, End(p), Traces' = Traces
  PROVE  LedgerStep
<1>1. Busy' = [Busy EXCEPT ![p] = Doing("idle")] BY BusyMoves, Parts DEF End
<1>2. Doing("idle") = Ledger!NoWork BY DEF Doing, Ledger!NoWork
<1> QED BY <1>1, <1>2 DEF LedgerStep, Ledger!Next, Ledger!Ends, Busy

LEMMA LooksStutters ==
  ASSUME IInv, NEW p \in Proc, NEW from, NEW to, NEW c, LooksIf(p, from, to, c),
         Doing(from) = Doing(to)
  PROVE  LedgerStep
BY DiskTraces, Stutters DEF LooksIf

LEMMA FailsEnds ==
  ASSUME IInv, NEW p \in Proc, NEW at, NEW c, FailsIf(p, at, c)
  PROVE  LedgerStep
BY DiskTraces, Leaves DEF FailsIf

LEMMA BreaksEnds ==
  ASSUME IInv, NEW p \in Proc, NEW at, Breaks(p, at)
  PROVE  LedgerStep
BY DiskTraces, Leaves DEF Breaks

\* One at which the trace of fault f appears, or goes.
LEMMA InjectsAt ==
  ASSUME IInv, NEW p \in Proc, NEW from, NEW to, NEW f,
         pc[p] = from, pc' = [pc EXCEPT ![p] = to],
         Doing(from) = [fault |-> f, op |-> "inject"],
         Doing(to) = Doing(from) \/ Doing(to) = Ledger!NoWork,
         Traces' = Traces \cup {f}
  PROVE  LedgerStep
<1>1. Busy' = [Busy EXCEPT ![p] = Doing(to)] BY BusyMoves, Parts
<1>2. Busy[p] = Doing(from) BY DEF Busy
<1>3. Busy' = Busy \/ Busy' = [Busy EXCEPT ![p] = Ledger!NoWork]
  <2>1. CASE Doing(to) = Doing(from) BY <1>1, <1>2, <2>1 DEF Busy
  <2>2. CASE Doing(to) = Ledger!NoWork BY <1>1, <2>2
  <2> QED BY <2>1, <2>2
<1>4. Busy[p].op = "inject" /\ Busy[p].fault = f BY <1>2
<1>5. Ledger!Injects(p) BY <1>3, <1>4 DEF Ledger!Injects, Ledger!MayEnd, Busy
<1> QED BY <1>5 DEF LedgerStep, Ledger!Next

LEMMA RemovesAt ==
  ASSUME IInv, NEW p \in Proc, NEW from, NEW f,
         pc[p] = from, pc' = [pc EXCEPT ![p] = "idle"],
         Doing(from) = [fault |-> f, op |-> "remove"],
         Traces' = Traces \ {f}
  PROVE  LedgerStep
<1>1. Busy' = [Busy EXCEPT ![p] = Doing("idle")] BY BusyMoves, Parts
<1>2. Doing("idle") = Ledger!NoWork BY DEF Doing, Ledger!NoWork
<1>3. Busy[p].op = "remove" /\ Busy[p].fault = f BY DEF Busy
<1>4. Ledger!Removes(p) BY <1>1, <1>2, <1>3 DEF Ledger!Removes, Ledger!MayEnd, Busy
<1> QED BY <1>4 DEF LedgerStep, Ledger!Next
--------------------------------------------------------------------------------
LEMMA LostSteps ==
  ASSUME IInv, NEW p \in Proc,
         \/ LostStat(p) \/ LostRename(p) \/ LostFails(p)
         \/ UnlostStat(p) \/ UnlostRename(p) \/ UnlostFails(p)
  PROVE  LedgerStep
<1> USE Parts DEF Name
<1>1. CASE LostStat(p)
  <2>1. Doing("lostStat") = Doing("lostRename") BY DEF Doing
  <2> QED BY <1>1, <2>1, LooksStutters DEF LostStat
<1>2. CASE UnlostStat(p)
  <2>1. Doing("unlostStat") = Doing("unlostRename") BY DEF Doing
  <2> QED BY <1>2, <2>1, LooksStutters DEF UnlostStat
<1>3. CASE LostRename(p)
  <2>1. ent["file"] # None /\ LockedUp' = LockedUp
    BY <1>3, RenameLocks DEF LostRename, CanRename, Writable, Exists
  <2>2. ent' = [ent EXCEPT !["lostBackup"] = ent["file"], !["file"] = None] /\ ino' = ino
    BY <1>3 DEF LostRename, Rename
  <2>3. Traces' = Traces \cup {"lost"} BY <2>1, <2>2 DEF Traces, Exists, Placed
  <2>4. pc[p] = "lostRename" /\ pc' = [pc EXCEPT ![p] = "idle"]
    BY <1>3 DEF LostRename, Finishes, End
  <2>5. /\ Doing("lostRename") = [fault |-> "lost", op |-> "inject"]
        /\ Doing("idle") = Ledger!NoWork
    BY DEF Doing, Ledger!NoWork
  <2> QED BY <2>3, <2>4, <2>5, InjectsAt
<1>4. CASE UnlostRename(p)
  <2>1. LockedUp' = LockedUp BY <1>4, RenameLocks DEF UnlostRename
  <2>2. ent' = [ent EXCEPT !["file"] = ent["lostBackup"], !["lostBackup"] = None] /\ ino' = ino
    BY <1>4 DEF UnlostRename, Rename
  <2>3. Traces' = Traces \ {"lost"} BY <2>1, <2>2 DEF Traces, Exists, Placed
  <2>4. pc[p] = "unlostRename" /\ pc' = [pc EXCEPT ![p] = "idle"]
    BY <1>4 DEF UnlostRename, Finishes, End
  <2>5. Doing("unlostRename") = [fault |-> "lost", op |-> "remove"] BY DEF Doing
  <2> QED BY <2>3, <2>4, <2>5, RemovesAt
<1>5. CASE LostFails(p) \/ UnlostFails(p)
  BY <1>5, FailsEnds DEF LostFails, UnlostFails
<1> QED BY <1>1, <1>2, <1>3, <1>4, <1>5

LEMMA CopySteps ==
  ASSUME IInv, NEW p \in Proc,
         \/ CorruptPrepare(p) \/ CorruptCheck(p) \/ CopyOpen(p) \/ CopyStat(p)
         \/ CopyCreate(p) \/ CopyWrite(p) \/ CorruptOpen(p) \/ CorruptWrite(p)
         \/ CorruptFails(p)
  PROVE  LedgerStep
<1> USE Parts DEF Name
<1> DEFINE Here == [fault |-> "corruption", op |-> "inject"]
<1>1. \A l \in {"corruption-inject", "check", "copyOpen", "copyStat", "copyCreate",
                "copyWrite", "open", "write"} : Doing(l) = Here
  BY DEF Doing
<1>2. CASE CorruptPrepare(p) \/ CorruptCheck(p) \/ CopyStat(p)
  BY <1>1, <1>2, LooksStutters DEF CorruptPrepare, CorruptCheck, CopyStat
<1>3. CASE CopyOpen(p) \/ CorruptOpen(p)
  <2>1. Traces' = Traces BY <1>3, DiskTraces DEF CopyOpen, CorruptOpen
  <2> QED BY <1>1, <1>3, <2>1, Stutters DEF CopyOpen, CorruptOpen
<1>4. CASE CopyCreate(p)
  <2>1. Goto(p, "copyCreate", "copyWrite") BY <1>4 DEF CopyCreate
  <2>2. Traces' = Traces \cup {"corruption"}
    <3>1. CASE ~Exists("corruptionBackup") /\ Make("corruptionBackup", "partial")
      <4>1. NewIno \in Ino BY <3>1, New DEF Make
      <4>2. ent' = [ent EXCEPT !["corruptionBackup"] = NewIno] BY <3>1 DEF Make
      <4>3. /\ ent'["lostBackup"] = ent["lostBackup"]
            /\ ent'["attrBackup"] = ent["attrBackup"]
            /\ ent'["corruptionBackup"] # None
        BY <4>1, <4>2, FileAssumption DEF Placed
      <4>4. LockedUp' = LockedUp BY <3>1, MakeLocks
      <4> QED BY <4>3, <4>4 DEF Traces, Exists
    <3>2. CASE /\ Exists("corruptionBackup")
               /\ ino' = [ino EXCEPT ![ent["corruptionBackup"]].data = "partial"]
               /\ UNCHANGED ent
      <4>1. LockedUp' = LockedUp BY <3>2, BitsLocks DEF Inodes
      <4> QED BY <3>2, <4>1 DEF Traces, Exists
    <3> QED BY <1>4, <3>1, <3>2 DEF CopyCreate
  <2> QED BY <1>1, <2>1, <2>2, InjectsAt DEF Goto
<1>5. CASE CopyWrite(p) \/ CorruptWrite(p)
  <2>1. ent' = ent /\ \A j \in Ino : ino'[j].imm = ino[j].imm
    BY <1>5 DEF CopyWrite, CorruptWrite, Inodes
  <2>2. Traces' = Traces BY <2>1, BitsLocks, TracesKept DEF SameTraces, Exists
  <2>3. CASE CopyWrite(p) BY <1>1, <2>2, <2>3, Stutters DEF CopyWrite
  <2>4. CASE CorruptWrite(p) BY <2>2, <2>4, Leaves DEF CorruptWrite, Finishes
  <2> QED BY <1>5, <2>3, <2>4
<1>6. CASE CorruptFails(p) BY <1>6, FailsEnds, BreaksEnds DEF CorruptFails
<1> QED BY <1>2, <1>3, <1>4, <1>5, <1>6

LEMMA RepairSteps ==
  ASSUME IInv, NEW p \in Proc,
         \/ RepairPrepare(p) \/ FindBackup(p) \/ RepairRemove(p) \/ RepairMv(p)
         \/ RepairFails(p)
  PROVE  LedgerStep
<1> USE Parts DEF Name
<1>1. \A l \in {"corruption-remove", "findBackup", "remove", "mv"} :
        Doing(l) = [fault |-> "corruption", op |-> "remove"]
  BY DEF Doing
<1>2. CASE RepairPrepare(p) \/ FindBackup(p)
  BY <1>1, <1>2, LooksStutters DEF RepairPrepare, FindBackup
<1>3. CASE RepairRemove(p)
  <2>1. ent' = [ent EXCEPT !["file"] = None] /\ ino' = ino BY <1>3 DEF RepairRemove
  <2>2. LockedUp' = LockedUp BY <1>3, <2>1, UnlinkLocks DEF RepairRemove, Writable
  <2>3. SameTraces BY <2>1, <2>2 DEF SameTraces, Exists, Placed
  <2> QED BY <1>1, <1>3, <2>3, TracesKept, Stutters DEF RepairRemove
<1>4. CASE RepairMv(p)
  <2>1. LockedUp' = LockedUp BY <1>4, RenameLocks DEF RepairMv
  <2>2. ent' = [ent EXCEPT !["file"] = ent["corruptionBackup"], !["corruptionBackup"] = None]
        /\ ino' = ino
    BY <1>4 DEF RepairMv, Rename
  <2>3. Traces' = Traces \ {"corruption"} BY <2>1, <2>2 DEF Traces, Exists, Placed
  <2>4. pc[p] = "mv" /\ pc' = [pc EXCEPT ![p] = "idle"]
    BY <1>4 DEF RepairMv, Finishes, End
  <2> QED BY <1>1, <2>3, <2>4, RemovesAt
<1>5. CASE RepairFails(p) BY <1>5, FailsEnds DEF RepairFails
<1> QED BY <1>2, <1>3, <1>4, <1>5

\* The bit may be written to an inode that no name has any more: then an injection
\* leaves no trace, and a removal may leave the trace of another behind.
LEMMA ReadonlySteps ==
  ASSUME IInv, NEW p \in Proc,
         \/ ReadonlyPrepare(p) \/ OpenSet(p) \/ SetAttr(p) \/ OpenUnset(p) \/ UnsetAttr(p)
         \/ AttrFails(p)
  PROVE  LedgerStep
<1> USE Parts
<1>1. /\ \A l \in {"readonly-inject", "openSet", "setAttr"} :
           Doing(l) = [fault |-> "readonly", op |-> "inject"]
      /\ \A l \in {"readonly-remove", "openUnset", "unsetAttr"} :
           Doing(l) = [fault |-> "readonly", op |-> "remove"]
      /\ Doing("idle") = Ledger!NoWork
  BY DEF Doing, Ledger!NoWork
<1>2. CASE ReadonlyPrepare(p)
  BY <1>1, <1>2, LooksStutters, FailsEnds DEF ReadonlyPrepare
<1>3. CASE OpenSet(p) \/ OpenUnset(p)
  <2>1. Traces' = Traces BY <1>3, DiskTraces DEF OpenSet, OpenUnset, OpenToFlag
  <2> QED BY <1>1, <1>3, <2>1, Stutters DEF OpenSet, OpenUnset, OpenToFlag
<1>4. CASE SetAttr(p)
  <2>1. /\ pc[p] = "setAttr" /\ pc' = [pc EXCEPT ![p] = "idle"] /\ End(p)
        /\ ent' = ent /\ ino' = [ino EXCEPT ![src[p]].imm = TRUE]
    BY <1>4 DEF SetAttr, SetBit, Finishes, End
  <2>2. src[p] \in Ino BY <2>1 DEF Holding, Flagger
  <2>3. CASE \E n \in Name : ent[n] = src[p]
    <3>1. LockedUp' BY <2>1, <2>2, <2>3, FileAssumption DEF LockedUp, Exists, At, Inodes
    <3>2. Traces' = Traces \cup {"readonly"} BY <2>1, <3>1 DEF Traces, Exists
    <3> QED BY <1>1, <2>1, <3>2, InjectsAt
  <2>4. CASE \A n \in Name : ent[n] # src[p]
    <3>1. \A j \in Ino \ {src[p]} : ino'[j] = ino[j] BY <2>1 DEF Inodes
    <3>2. LockedUp' = LockedUp BY <2>1, <2>4, <3>1 DEF LockedUp, Exists, At, Placed
    <3>3. Traces' = Traces BY <2>1, <3>2, TracesKept DEF SameTraces, Exists
    <3> QED BY <2>1, <3>3, Leaves
  <2> QED BY <2>3, <2>4
<1>5. CASE UnsetAttr(p)
  <2>1. /\ pc[p] = "unsetAttr" /\ pc' = [pc EXCEPT ![p] = "idle"] /\ End(p)
        /\ ent' = ent /\ ino' = [ino EXCEPT ![src[p]].imm = FALSE]
    BY <1>5 DEF UnsetAttr, UnsetBit, Finishes, End
  <2>2. CASE LockedUp'
    <3>1. \A j \in Ino : ino'[j].imm => ino[j].imm BY <2>1 DEF Inodes
    <3>2. LockedUp BY <2>1, <2>2, <3>1 DEF LockedUp, Exists, At, Placed
    <3>3. Traces' = Traces BY <2>1, <2>2, <3>2, TracesKept DEF SameTraces, Exists
    <3> QED BY <2>1, <3>3, Leaves
  <2>3. CASE ~LockedUp'
    <3>1. Traces' = Traces \ {"readonly"} BY <2>1, <2>3 DEF Traces, Exists
    <3> QED BY <1>1, <2>1, <3>1, RemovesAt
  <2> QED BY <2>2, <2>3
<1>6. CASE AttrFails(p) BY <1>6, FailsEnds DEF AttrFails
<1> QED BY <1>2, <1>3, <1>4, <1>5, <1>6

LEMMA UnexecSteps ==
  ASSUME IInv, NEW p \in Proc,
         \/ UnexecPrepare(p) \/ OpenAttr(p) \/ WriteAttr(p) \/ ChmodOff(p)
         \/ UnexecFails(p)
  PROVE  LedgerStep
<1> USE Parts DEF Name
<1>1. \A l \in {"unexecuted-inject", "openAttr", "writeAttr", "chmodOff"} :
        Doing(l) = [fault |-> "unexecuted", op |-> "inject"]
  BY DEF Doing
<1>2. CASE UnexecPrepare(p)
  <2>1. CASE Goto(p, "unexecuted-inject", "openAttr") /\ UNCHANGED disk
    BY <1>1, <2>1, DiskTraces, Stutters
  <2> QED BY <1>2, <2>1, FailsEnds DEF UnexecPrepare
<1>3. CASE OpenAttr(p)
  <2>1. Goto(p, "openAttr", "writeAttr") BY <1>3 DEF OpenAttr
  <2>2. Traces' = Traces \cup {"unexecuted"}
    <3>1. CASE ~Exists("attrBackup") /\ Make("attrBackup", "partial")
      <4>1. NewIno \in Ino BY <3>1, New DEF Make
      <4>2. ent' = [ent EXCEPT !["attrBackup"] = NewIno] BY <3>1 DEF Make
      <4>3. /\ ent'["lostBackup"] = ent["lostBackup"]
            /\ ent'["corruptionBackup"] = ent["corruptionBackup"]
            /\ ent'["attrBackup"] # None
        BY <4>1, <4>2, FileAssumption DEF Placed
      <4>4. LockedUp' = LockedUp BY <3>1, MakeLocks
      <4> QED BY <4>3, <4>4 DEF Traces, Exists
    <3>2. CASE Exists("attrBackup") /\ UNCHANGED disk
      <4>1. Traces' = Traces BY <3>2, DiskTraces
      <4> QED BY <3>2, <4>1 DEF Traces
    <3> QED BY <1>3, <3>1, <3>2 DEF OpenAttr
  <2> QED BY <1>1, <2>1, <2>2, InjectsAt DEF Goto
<1>4. CASE WriteAttr(p) \/ ChmodOff(p)
  <2>1. ent' = ent /\ \A j \in Ino : ino'[j].imm = ino[j].imm
    BY <1>4 DEF WriteAttr, ChmodOff, Inodes
  <2>2. Traces' = Traces BY <2>1, BitsLocks, TracesKept DEF SameTraces, Exists
  <2>3. CASE WriteAttr(p) BY <1>1, <2>2, <2>3, Stutters DEF WriteAttr
  <2>4. CASE ChmodOff(p) BY <2>2, <2>4, Leaves DEF ChmodOff, Finishes
  <2> QED BY <1>4, <2>3, <2>4
<1>5. CASE UnexecFails(p) BY <1>5, FailsEnds, BreaksEnds DEF UnexecFails
<1> QED BY <1>2, <1>3, <1>4, <1>5

LEMMA ReexecSteps ==
  ASSUME IInv, NEW p \in Proc,
         \/ ReexecPrepare(p) \/ ReadAttr(p) \/ ChmodBack(p) \/ DropAttr(p)
         \/ ReexecFails(p)
  PROVE  LedgerStep
<1> USE Parts DEF Name
<1>1. \A l \in {"unexecuted-remove", "readAttr", "chmodBack", "dropAttr"} :
        Doing(l) = [fault |-> "unexecuted", op |-> "remove"]
  BY DEF Doing
<1>2. CASE ReexecPrepare(p)
  BY <1>1, <1>2, LooksStutters DEF ReexecPrepare
<1>3. CASE ReadAttr(p)
  <2>1. Traces' = Traces BY <1>3, DiskTraces DEF ReadAttr
  <2> QED BY <1>1, <1>3, <2>1, Stutters DEF ReadAttr
<1>4. CASE ChmodBack(p)
  <2>1. ent' = ent /\ \A j \in Ino : ino'[j].imm = ino[j].imm
    BY <1>4 DEF ChmodBack, Inodes
  <2>2. Traces' = Traces BY <2>1, BitsLocks, TracesKept DEF SameTraces, Exists
  <2> QED BY <1>1, <1>4, <2>2, Stutters DEF ChmodBack
<1>5. CASE DropAttr(p)
  <2>3. LockedUp' = LockedUp
    BY <1>5, UnlinkLocks DEF DropAttr, Backups, Beside
  <2>1. Traces' = Traces \ {"unexecuted"}
    BY <1>5, <2>3 DEF DropAttr, Traces, Exists, Placed
  <2>2. pc[p] = "dropAttr" /\ pc' = [pc EXCEPT ![p] = "idle"]
    BY <1>5 DEF DropAttr, Finishes, End
  <2> QED BY <1>1, <2>1, <2>2, RemovesAt
<1>6. CASE ReexecFails(p) BY <1>6, FailsEnds DEF ReexecFails
<1> QED BY <1>2, <1>3, <1>4, <1>5, <1>6

LEMMA StartStep ==
  ASSUME IInv, NEW p \in Proc, NEW op \in Ops, Start(p, op)
  PROVE  LedgerStep
<1> DEFINE to == CASE op = "lost-inject" -> "lostStat"
                   [] op = "lost-remove" -> "unlostStat"
                   [] OTHER              -> op
<1>1. Traces' = Traces BY DiskTraces DEF Start
<1>2. pc[p] = "idle" /\ pc' = [pc EXCEPT ![p] = to] BY DEF Start, Goto
<1>3. Doing(to) = Doing(op) BY FileAssumption DEF AllOps, Doing
<1> HIDE DEF to
<1>4. Busy' = [Busy EXCEPT ![p] = Doing(op)] BY <1>2, <1>3, BusyMoves, Parts
<1>5. Busy[p] = Ledger!NoWork BY <1>2 DEF Busy, Doing, Ledger!NoWork
<1>6. Ledger!Begins(p, Doing(op)) BY <1>1, <1>4, <1>5 DEF Ledger!Begins, Busy
<1> QED BY <1>6 DEF LedgerStep, Ledger!Next

LEMMA RecreateStep ==
  ASSUME IInv, Recreate
  PROVE  LedgerStep
<1> USE Parts DEF Name
<1>1. ~Exists("file") /\ Make("file", "other") BY DEF Recreate
<1>2. LockedUp' = LockedUp BY <1>1, MakeLocks
<1>3. ent' = [ent EXCEPT !["file"] = NewIno] BY <1>1 DEF Make
<1>4. SameTraces BY <1>2, <1>3 DEF SameTraces, Exists, Placed
<1>5. Busy' = Busy BY DEF Recreate, Busy
<1> QED BY <1>4, <1>5, TracesKept DEF LedgerStep, Ledger!vars, Busy

\* Every step of FileFaults is a step of FaultLedger, or leaves its state alone.
LEMMA StepSimulation == IInv /\ [Next]_vars => LedgerStep
<1> SUFFICES ASSUME IInv, [Next]_vars PROVE LedgerStep OBVIOUS
<1>1. CASE UNCHANGED vars
  <2>1. Traces' = Traces BY <1>1, DiskTraces DEF vars
  <2>2. Busy' = Busy BY <1>1 DEF vars, Busy
  <2> QED BY <2>1, <2>2 DEF LedgerStep, Ledger!vars, Busy
<1>2. CASE Recreate BY <1>2, RecreateStep
<1>3. ASSUME NEW p \in Proc, Step(p) PROVE LedgerStep
  <2>1. CASE PrepareFails(p) BY <2>1, FailsEnds DEF PrepareFails
  <2> QED BY <1>3, <2>1, LostSteps, CopySteps, RepairSteps, ReadonlySteps, UnexecSteps,
             ReexecSteps
          DEF Step
<1>4. ASSUME NEW p \in Proc, Crash(p) PROVE LedgerStep
  BY <1>4, DiskTraces, Leaves DEF Crash
<1>5. ASSUME NEW p \in Proc, NEW op \in Ops, Start(p, op) PROVE LedgerStep
  BY <1>5, StartStep
<1> QED BY <1>1, <1>2, <1>3, <1>4, <1>5 DEF Next

\* The four faults on one path keep the promise of FaultLedger: whatever fails, is
\* killed or runs at the same time, the trace of a fault (its backup, or an immutable
\* bit on the path or on a backup of it) appears only in an injection of that fault
\* and goes only in a removal of it.  That the backups of the other faults can carry
\* the bit at all is the rename between the open and the ioctl of a file-readonly.
THEOREM LedgerKept == Spec => KeepsLedger
<1>1. Init => Ledger!Init
  <2> SUFFICES ASSUME Init PROVE Ledger!Init OBVIOUS
  <2>1. Placed /\ Inodes BY InitHolds, Parts
  <2>2. /\ ~Exists("lostBackup") /\ ~Exists("corruptionBackup") /\ ~Exists("attrBackup")
        /\ ~LockedUp
    BY <2>1, FileAssumption DEF Init, Exists, At, LockedUp, Fresh, Name
  <2>3. Traces = {} BY <2>2 DEF Traces, LockedUp
  <2>4. \A p \in Proc : Doing(pc[p]) = Ledger!NoWork BY DEF Init, Doing, Ledger!NoWork
  <2> QED BY <2>3, <2>4 DEF Ledger!Init
<1>2. IInv /\ [Next]_vars => [Ledger!Next]_(Ledger!vars)
  BY StepSimulation DEF LedgerStep
<1> QED BY InitHolds, NextKeeps, <1>1, <1>2, PTL DEF Spec, KeepsLedger, Ledger!Spec
--------------------------------------------------------------------------------
\* One invocation at a time.
OneAtATime == \A p, q \in Proc : p = q

\* What an injection of file-corruption knows at each of its calls.
Reads(p) ==
  pc[p] \in {"copyStat", "copyCreate", "copyWrite"}
    => Exists("file") /\ src[p] = ent["file"]
Writes(p) ==
  pc[p] = "copyWrite" => Exists("corruptionBackup") /\ out[p] = ent["corruptionBackup"]
BackedUp(p) ==
  pc[p] \in {"open", "write"}
    => /\ Exists("file") /\ Exists("corruptionBackup")
       /\ At("corruptionBackup").data = At("file").data
       /\ pc[p] = "write" => src[p] = ent["file"]
Copied == \A p \in Proc : Reads(p) /\ Writes(p) /\ BackedUp(p)

\* Which calls hold a file, or knowledge, of file-corruption.
Corrupting == {"copyStat", "copyCreate", "copyWrite", "open", "write"}

\* Where there is nothing to know after a step.
LEMMA CopiedElsewhere ==
  ASSUME OneAtATime, NEW p \in Proc, pc'[p] \notin Corrupting
  PROVE  Copied'
BY DEF OneAtATime, Copied, Reads, Writes, BackedUp, Corrupting

\* Every step but those of an injection of file-corruption ends elsewhere.
LEMMA Elsewhere ==
  ASSUME IInv, NEW p \in Proc,
         \/ Step(p) /\ pc[p] \notin {"check", "copyOpen", "copyStat", "copyCreate",
                                     "copyWrite", "open"}
         \/ Crash(p) \/ \E op \in Ops : Start(p, op)
  PROVE  pc'[p] \notin Corrupting
<1> USE Parts DEF Locals, Corrupting
<1>1. CASE \/ Crash(p) \/ \E op \in Ops : Start(p, op)
  BY <1>1, FileAssumption DEF Crash, End, Start, Goto, AllOps
<1>2. CASE Step(p) /\ pc[p] \notin {"check", "copyOpen", "copyStat", "copyCreate",
                                    "copyWrite", "open"}
  <2>1. \A at, c : FailsIf(p, at, c) => pc'[p] = "idle" BY DEF FailsIf, End
  <2>2. \A at : Breaks(p, at) => pc'[p] = "idle" BY DEF Breaks, End
  <2>3. \A from : Finishes(p, from) => pc'[p] = "idle" BY DEF Finishes, End
  <2>4. \A from, to, c : LooksIf(p, from, to, c) => pc[p] = from /\ pc'[p] = to
    BY DEF LooksIf, Goto
  <2>5. \A from, to : Goto(p, from, to) => pc[p] = from /\ pc'[p] = to BY DEF Goto
  <2>6. CASE \/ PrepareFails(p)
             \/ LostStat(p) \/ LostRename(p) \/ LostFails(p)
             \/ UnlostStat(p) \/ UnlostRename(p) \/ UnlostFails(p)
    BY <1>2, <2>1, <2>3, <2>4, <2>6
       DEF PrepareFails, LostStat, LostRename, LostFails, UnlostStat, UnlostRename, UnlostFails
  <2>7. CASE \/ CorruptPrepare(p) \/ CorruptCheck(p) \/ CopyOpen(p) \/ CopyStat(p)
             \/ CopyCreate(p) \/ CopyWrite(p) \/ CorruptOpen(p) \/ CorruptWrite(p)
    BY <1>2, <2>3, <2>4, <2>5, <2>7
       DEF CorruptPrepare, CorruptCheck, CopyOpen, CopyStat, CopyCreate, CopyWrite,
           CorruptOpen, CorruptWrite
  <2>12. CASE CorruptFails(p)
    BY <2>12 DEF CorruptFails, FailsIf, Breaks, End
  <2>8. CASE \/ RepairPrepare(p) \/ FindBackup(p) \/ RepairRemove(p) \/ RepairMv(p)
             \/ RepairFails(p)
    BY <1>2, <2>1, <2>3, <2>4, <2>5, <2>8
       DEF RepairPrepare, FindBackup, RepairRemove, RepairMv, RepairFails
  <2>9. CASE ReadonlyPrepare(p) \/ SetAttr(p) \/ UnsetAttr(p)
    BY <1>2, <2>1, <2>3, <2>4, <2>9 DEF ReadonlyPrepare, SetAttr, UnsetAttr
  <2>14. CASE AttrFails(p) BY <2>14 DEF AttrFails, FailsIf, End
  <2>13. CASE OpenSet(p) \/ OpenUnset(p)
    BY <2>5, <2>13 DEF OpenSet, OpenUnset, OpenToFlag
  <2>10. CASE UnexecPrepare(p) \/ OpenAttr(p) \/ WriteAttr(p) \/ ChmodOff(p) \/ UnexecFails(p)
    BY <1>2, <2>1, <2>2, <2>3, <2>5, <2>10
       DEF UnexecPrepare, OpenAttr, WriteAttr, ChmodOff, UnexecFails
  <2>11. CASE \/ ReexecPrepare(p) \/ ReadAttr(p) \/ ChmodBack(p) \/ DropAttr(p)
              \/ ReexecFails(p)
    BY <1>2, <2>1, <2>3, <2>4, <2>5, <2>11
       DEF ReexecPrepare, ReadAttr, ChmodBack, DropAttr, ReexecFails
  <2> QED BY <1>2, <2>6, <2>7, <2>8, <2>9, <2>10, <2>11, <2>12, <2>13, <2>14
          DEF Step
<1> QED BY <1>1, <1>2

\* The calls of an injection of file-corruption, with no other between them.
LEMMA CorruptingKeeps ==
  ASSUME OneAtATime, IInv, Copied, NEW p \in Proc, Step(p),
         pc[p] \in {"check", "copyOpen", "copyStat", "copyCreate", "copyWrite", "open"}
  PROVE  Copied'
<1> USE Parts DEF Placed, Inodes, Locals
<1>1. \A q \in Proc : q = p BY DEF OneAtATime
<1>2. Reads(p) /\ Writes(p) /\ BackedUp(p) BY DEF Copied
<1>3. SUFFICES (Reads(p) /\ Writes(p) /\ BackedUp(p))' BY <1>1 DEF Copied
<1>4. \/ CorruptCheck(p) \/ CopyOpen(p) \/ CopyStat(p) \/ CopyCreate(p)
      \/ CopyWrite(p) \/ CorruptOpen(p) \/ CorruptFails(p)
  <2>1. ~PrepareFails(p) BY DEF PrepareFails, FailsIf, Prepared
  <2>2. /\ ~LostStat(p) /\ ~LostRename(p) /\ ~LostFails(p)
        /\ ~UnlostStat(p) /\ ~UnlostRename(p) /\ ~UnlostFails(p)
    BY DEF LostStat, LostRename, LostFails, UnlostStat, UnlostRename, UnlostFails,
           FailsIf, LooksIf, Goto, Finishes
  <2>3. /\ ~CorruptPrepare(p) /\ ~CorruptWrite(p) /\ ~RepairPrepare(p) /\ ~FindBackup(p)
        /\ ~RepairRemove(p) /\ ~RepairMv(p) /\ ~RepairFails(p)
    BY DEF CorruptPrepare, CorruptWrite, RepairPrepare, FindBackup, RepairRemove, RepairMv,
           RepairFails, FailsIf, LooksIf, Goto, Finishes
  <2>4. /\ ~ReadonlyPrepare(p) /\ ~OpenSet(p) /\ ~SetAttr(p) /\ ~OpenUnset(p)
        /\ ~UnsetAttr(p) /\ ~AttrFails(p)
    BY DEF ReadonlyPrepare, OpenSet, OpenUnset, OpenToFlag, SetAttr, UnsetAttr, AttrFails,
           FailsIf, LooksIf, Goto, Finishes
  <2>5. /\ ~UnexecPrepare(p) /\ ~OpenAttr(p) /\ ~WriteAttr(p) /\ ~ChmodOff(p)
        /\ ~UnexecFails(p)
    BY DEF UnexecPrepare, OpenAttr, WriteAttr, ChmodOff, UnexecFails, FailsIf, Breaks, Goto,
           Finishes
  <2>6. /\ ~ReexecPrepare(p) /\ ~ReadAttr(p) /\ ~ChmodBack(p) /\ ~DropAttr(p)
        /\ ~ReexecFails(p)
    BY DEF ReexecPrepare, ReadAttr, ChmodBack, DropAttr, ReexecFails, FailsIf, LooksIf, Goto,
           Finishes
  <2> QED BY <2>1, <2>2, <2>3, <2>4, <2>5, <2>6 DEF Step
<1>5. CASE CorruptCheck(p)
  BY <1>5 DEF CorruptCheck, LooksIf, Goto, Reads, Writes, BackedUp
<1>6. CASE CopyOpen(p) \/ CopyStat(p)
  BY <1>2, <1>6
     DEF CopyOpen, CopyStat, Good, LooksIf, Goto, Reads, Writes, BackedUp, Exists, disk,
         locals
<1>7. CASE CopyCreate(p)
  <2>1. pc[p] = "copyCreate" /\ pc'[p] = "copyWrite" /\ src' = src
    BY <1>7 DEF CopyCreate, Goto
  <2>2. Exists("file") /\ src[p] = ent["file"] BY <1>2, <2>1 DEF Reads
  <2>3. /\ ent'["file"] = ent["file"]
        /\ Exists("corruptionBackup")' /\ out'[p] = ent'["corruptionBackup"]
    <3>1. CASE Exists("corruptionBackup")
      BY <1>7, <3>1 DEF CopyCreate, Exists, Name
    <3>2. CASE ~Exists("corruptionBackup")
      <4>1. NewIno \in Ino BY <1>7, <3>2, New DEF CopyCreate, Make
      <4> QED BY <1>7, <3>2, <4>1, FileAssumption DEF CopyCreate, Make, Exists, Name
    <3> QED BY <3>1, <3>2
  <2> QED BY <2>1, <2>2, <2>3 DEF Reads, Writes, BackedUp, Exists
<1>8. CASE CopyWrite(p)
  <2>1. pc[p] = "copyWrite" /\ pc'[p] = "open" /\ ent' = ent
    BY <1>8 DEF CopyWrite, Goto
  <2>2. /\ Exists("file") /\ src[p] = ent["file"]
        /\ Exists("corruptionBackup") /\ out[p] = ent["corruptionBackup"]
    BY <1>2, <2>1 DEF Reads, Writes
  <2>3. ent["file"] # ent["corruptionBackup"] BY <2>2 DEF Apart, Exists, Name
  <2>4. ino' = [ino EXCEPT ![out[p]].data = ino[src[p]].data] BY <1>8 DEF CopyWrite
  <2>5. ent["file"] \in Ino /\ ent["corruptionBackup"] \in Ino BY <2>2 DEF Exists, Name
  <2>6. ino'[ent["corruptionBackup"]].data = ino'[ent["file"]].data
    BY <2>2, <2>3, <2>4, <2>5
  <2> QED BY <2>1, <2>2, <2>6 DEF Reads, Writes, BackedUp, Exists, At
<1>9. CASE CorruptOpen(p)
  BY <1>2, <1>9 DEF CorruptOpen, Goto, Reads, Writes, BackedUp, Exists, At, disk
<1>10. CASE CorruptFails(p)
  <2>1. pc'[p] = "idle" BY <1>10 DEF CorruptFails, FailsIf, Breaks, End
  <2> QED BY <2>1 DEF Reads, Writes, BackedUp
<1> QED BY <1>4, <1>5, <1>6, <1>7, <1>8, <1>9, <1>10

LEMMA CopiedKeeps ==
  ASSUME OneAtATime, IInv, Copied, [Next]_vars
  PROVE  Copied'
<1>1. CASE UNCHANGED vars
  BY <1>1 DEF vars, disk, locals, Copied, Reads, Writes, BackedUp, Exists, At
<1>2. CASE Recreate
  BY <1>2 DEF Recreate, Copied, Reads, Writes, BackedUp
<1>3. ASSUME NEW p \in Proc, Step(p) \/ Crash(p) \/ \E op \in Ops : Start(p, op)
      PROVE  Copied'
  BY <1>3, CopiedElsewhere, Elsewhere, CorruptingKeeps
<1> QED BY <1>1, <1>2, <1>3 DEF Next

\* The one step that corrupts a file writes over the path, and its backup is whole.
\* The other steps that write into the path's file never leave "corrupt" there.
LEMMA OnlyWriteCorrupts ==
  ASSUME IInv, [Next]_vars, Exists("file"),
         \A p \in Proc : pc[p] = "copyWrite" => out[p] # ent["file"],
         At("file").data # "corrupt", ino'[ent["file"]].data = "corrupt"
  PROVE  \E p \in Proc : CorruptWrite(p)
<1> USE Parts DEF Placed, Inodes, Locals
<1> DEFINE f == ent["file"]
<1>1. f \in Ino BY DEF Exists, Name
<1>2. ino' # ino BY DEF At
<1>3. ASSUME NEW n \in Name, NEW d \in Data \ {"corrupt"}, Make(n, d) PROVE FALSE
  <2>1. NewIno \in Ino /\ NewIno # f BY <1>3, <1>1, New DEF Make, InUse, Range, Name
  <2> QED BY <1>1, <1>3, <2>1 DEF Make, At
<1>4. ~Recreate BY DEF Recreate
<1>5. ASSUME NEW p \in Proc, Crash(p) \/ \E op \in Ops : Start(p, op) PROVE FALSE
  BY <1>2, <1>5 DEF Crash, Start, disk
<1>6. ASSUME NEW p \in Proc, Step(p), ~CorruptWrite(p) PROVE FALSE
  <2>1. /\ ~PrepareFails(p)
        /\ ~LostStat(p) /\ ~LostRename(p) /\ ~LostFails(p)
        /\ ~UnlostStat(p) /\ ~UnlostRename(p) /\ ~UnlostFails(p)
    BY <1>2 DEF PrepareFails, LostStat, LostRename, LostFails, UnlostStat, UnlostRename,
       UnlostFails, FailsIf, LooksIf, Rename, disk
  <2>2. /\ ~CorruptPrepare(p) /\ ~CorruptCheck(p) /\ ~CopyOpen(p) /\ ~CopyStat(p)
        /\ ~CorruptOpen(p) /\ ~CorruptFails(p)
    BY <1>2 DEF CorruptPrepare, CorruptCheck, CopyOpen, CopyStat, CorruptOpen, CorruptFails,
       FailsIf, Breaks, LooksIf, disk
  <2>3. /\ ~RepairPrepare(p) /\ ~FindBackup(p) /\ ~RepairRemove(p) /\ ~RepairMv(p)
        /\ ~RepairFails(p)
    BY <1>2 DEF RepairPrepare, FindBackup, RepairRemove, RepairMv, RepairFails, FailsIf,
       LooksIf, Rename, disk
  <2>4. /\ ~ReadonlyPrepare(p) /\ ~OpenSet(p) /\ ~SetAttr(p) /\ ~OpenUnset(p)
        /\ ~UnsetAttr(p) /\ ~AttrFails(p)
    BY <1>1, <1>2 DEF ReadonlyPrepare, OpenSet, OpenUnset, OpenToFlag, SetAttr, UnsetAttr,
       SetBit, UnsetBit, AttrFails, FailsIf, LooksIf, At, disk
  <2>5. ~CopyCreate(p)
    <3>1. ~Make("corruptionBackup", "partial") BY <1>3 DEF Name, Data
    <3> QED BY <1>1, <3>1 DEF CopyCreate, At
  <2>6. ~CopyWrite(p)
    <3> SUFFICES ASSUME CopyWrite(p) PROVE FALSE OBVIOUS
    <3>1. pc[p] = "copyWrite" BY DEF CopyWrite, Goto
    <3>2. out[p] # f BY <3>1
    <3> QED BY <1>1, <3>2 DEF CopyWrite, At
  <2>7. ~UnexecPrepare(p) /\ ~UnexecFails(p) /\ ~ReexecPrepare(p) /\ ~ReadAttr(p)
        /\ ~DropAttr(p) /\ ~ReexecFails(p)
    BY <1>2 DEF UnexecPrepare, UnexecFails, ReexecPrepare, ReadAttr, DropAttr, ReexecFails,
       FailsIf, Breaks, LooksIf, disk
  <2>8. ~OpenAttr(p)
    <3>1. ~Make("attrBackup", "partial") BY <1>3 DEF Name, Data
    <3> QED BY <1>2, <3>1 DEF OpenAttr, disk
  <2>9. ~WriteAttr(p)
    <3> SUFFICES ASSUME WriteAttr(p) PROVE FALSE OBVIOUS
    <3>1. mode[p] \in Mode BY DEF WriteAttr, Goto, Holding
    <3>2. Perm(mode[p]) # "corrupt" BY <3>1 DEF Perm, Mode
    <3> QED BY <1>1, <3>2 DEF WriteAttr, At
  <2>10. ~ChmodOff(p) /\ ~ChmodBack(p)
    BY <1>1, <1>2 DEF ChmodOff, ChmodBack, At
  <2> QED BY <1>6, <2>1, <2>2, <2>3, <2>4, <2>5, <2>6, <2>7, <2>8, <2>9, <2>10 DEF Step
<1>7. ~UNCHANGED vars BY <1>2 DEF vars, disk
<1> QED BY <1>4, <1>5, <1>6, <1>7 DEF Next

\* One invocation at a time, which may be killed or fail at any of its calls, and be
\* followed by any number of others: no byte of the path is corrupted before its
\* backup is whole.
THEOREM WriteAhead ==
  ASSUME OneAtATime
  PROVE  Spec => BackedUpFirst
<1> DEFINE First == \A i \in Ino :
              ent["file"] = i /\ ino[i].data # "corrupt" /\ ino'[i].data = "corrupt"
                => Exists("corruptionBackup") /\ At("corruptionBackup").data = ino[i].data
<1>1. Init => Copied BY DEF Init, Copied, Reads, Writes, BackedUp
<1>2. IInv /\ Copied /\ [Next]_vars => Copied' BY CopiedKeeps
<1>3. ASSUME IInv, Copied, [Next]_vars PROVE First
  <2> SUFFICES ASSUME NEW i \in Ino, ent["file"] = i, ino[i].data # "corrupt",
                      ino'[i].data = "corrupt"
               PROVE  Exists("corruptionBackup") /\ At("corruptionBackup").data = ino[i].data
    OBVIOUS
  <2>1. Exists("file") BY FileAssumption DEF Exists
  <2>4. \A p \in Proc : pc[p] = "copyWrite" => out[p] # ent["file"]
    BY <1>3, Parts DEF Placed, Copied, Reads, Writes, Apart, Exists, Name
  <2>2. PICK p \in Proc : CorruptWrite(p) BY <1>3, <2>1, <2>4, OnlyWriteCorrupts DEF At
  <2>3. pc[p] = "write" BY <2>2 DEF CorruptWrite, Finishes
  <2> QED BY <1>3, <2>3 DEF Copied, BackedUp, At
<1>4. IInv /\ Copied /\ [Next]_vars => [First]_vars BY <1>3
<1> QED BY InitHolds, NextKeeps, <1>1, <1>2, <1>4, PTL DEF Spec, BackedUpFirst
--------------------------------------------------------------------------------
\* Invocations that overlap.  The faults may meet as they like; what the invariants
\* below need is that those of one fault do not, or that its removals do not.
Works(p, f) == Doing(pc[p]).fault = f
Alone(f) == \A p, q \in Proc : Works(p, f) /\ Works(q, f) => p = q
RemovedAlone(f) ==
  \A p, q \in Proc : Works(p, f) /\ Doing(pc[p]).op = "remove" /\ Works(q, f) => p = q

\* No write goes astray: an open descriptor is never that of another fault's backup.
Descriptors ==
  /\ Exists("corruptionBackup") => At("corruptionBackup").mode = "plain"
  /\ \A p \in Proc :
       /\ pc[p] = "writeAttr" => out[p] \in Ino /\ \A n \in Content : ent[n] # out[p]
       /\ pc[p] = "copyWrite" => out[p] \in Ino /\ out[p] # ent["attrBackup"]
       /\ pc[p] = "write" => src[p] \in Ino /\ src[p] # ent["attrBackup"]

\* The names the file of the path goes under.  Unless somebody makes the path anew
\* there is one such file, or none between the two calls of a repair.
Path == {"file", "lostBackup"}
OnePath ==
  recreated = 0 =>
    /\ ~(Exists("file") /\ Exists("lostBackup"))
    /\ \A p \in Proc : pc[p] = "mv" => /\ \A n \in Path : ~Exists(n)
                                       /\ \A q \in Proc : pc[q] = "mv" => q = p

\* The calls that something has to be known at.
Critical == {"copyStat", "copyCreate", "copyWrite", "open", "write", "remove", "mv",
             "openAttr", "writeAttr", "chmodOff", "chmodBack", "dropAttr"}
\* A step that tells no invariant anything.
Quiet(p) ==
  /\ UNCHANGED disk /\ recreated' = recreated
  /\ pc'[p] \notin Critical
  /\ mishaps' = 0 => mishaps = 0 /\ pc[p] # "copyWrite"
Undisturbed(q) == pc'[q] = pc[q] /\ src'[q] = src[q] /\ out'[q] = out[q] /\ mode'[q] = mode[q]
Steps(p) == Step(p) \/ Crash(p) \/ \E op \in Ops : Start(p, op)
\* The other steps, by what they do.
Unexecutes(p) ==
  /\ Good /\ At("file").mode \in {"exec", "special"}
  /\ Goto(p, "unexecuted-inject", "openAttr")
  /\ mode' = [mode EXCEPT ![p] = At("file").mode]
  /\ UNCHANGED <<disk, src, out>>
Opens(p)     == CopyOpen(p) \/ CopyStat(p) \/ CorruptOpen(p) \/ FindBackup(p)
Copies(p)    == CopyCreate(p) \/ CopyWrite(p) \/ CorruptWrite(p)
Repairs(p)   == RepairRemove(p) \/ RepairMv(p)
Loses(p)     == LostRename(p) \/ UnlostRename(p)
Flags(p)     == SetAttr(p) \/ UnsetAttr(p)
Strips(p)    == Unexecutes(p) \/ OpenAttr(p) \/ WriteAttr(p) \/ ChmodOff(p)
Restores(p)  == ReadAttr(p) \/ ChmodBack(p) \/ DropAttr(p)

\* The locals of an invocation change only in its own steps.
LEMMA Others ==
  ASSUME Locals, NEW p \in Proc, Steps(p)
  PROVE  \A q \in Proc \ {p} : Undisturbed(q)
<1> USE DEF Locals, Undisturbed
<1>1. End(p) => \A q \in Proc \ {p} : Undisturbed(q) BY DEF End
<1>2. \A from, to : Goto(p, from, to) /\ UNCHANGED locals => \A q \in Proc \ {p} : Undisturbed(q)
  BY DEF Goto, locals
<1>3. \A at, c : FailsIf(p, at, c) => End(p) BY DEF FailsIf
<1>4. \A at : Breaks(p, at) => End(p) BY DEF Breaks
<1>5. \A from : Finishes(p, from) => End(p) BY DEF Finishes
<1>6. \A from, to, c : LooksIf(p, from, to, c) => Goto(p, from, to) /\ UNCHANGED locals
  BY DEF LooksIf
<1>7. CASE Crash(p) \/ PrepareFails(p) BY <1>1, <1>3, <1>7 DEF Crash, PrepareFails
<1>8. CASE \E op \in Ops : Start(p, op) BY <1>2, <1>8 DEF Start
<1>9. CASE LostStat(p) \/ LostRename(p) \/ LostFails(p)
  BY <1>1, <1>2, <1>3, <1>5, <1>6, <1>9 DEF LostStat, LostRename, LostFails
<1>10. CASE UnlostStat(p) \/ UnlostRename(p) \/ UnlostFails(p)
  BY <1>1, <1>2, <1>3, <1>5, <1>6, <1>10 DEF UnlostStat, UnlostRename, UnlostFails
<1>11. CASE CorruptPrepare(p) \/ CorruptCheck(p) \/ CopyStat(p) \/ CorruptWrite(p)
  BY <1>1, <1>2, <1>5, <1>6, <1>11 DEF CorruptPrepare, CorruptCheck, CopyStat, CorruptWrite
<1>12. CASE \/ CopyOpen(p) \/ CopyCreate(p) \/ CopyWrite(p) \/ CorruptOpen(p)
            \/ OpenSet(p) \/ OpenUnset(p)
  BY <1>12
     DEF CopyOpen, CopyCreate, CopyWrite, CorruptOpen, OpenSet, OpenUnset, OpenToFlag, Goto
<1>13. CASE CorruptFails(p) BY <1>1, <1>3, <1>4, <1>13 DEF CorruptFails
<1>14. CASE RepairPrepare(p) \/ FindBackup(p) \/ RepairRemove(p) \/ RepairMv(p) \/ RepairFails(p)
  BY <1>1, <1>2, <1>3, <1>5, <1>6, <1>14
     DEF RepairPrepare, FindBackup, RepairRemove, RepairMv, RepairFails
<1>15. CASE ReadonlyPrepare(p) \/ SetAttr(p) \/ UnsetAttr(p) \/ AttrFails(p)
  BY <1>1, <1>2, <1>3, <1>5, <1>6, <1>15 DEF ReadonlyPrepare, SetAttr, UnsetAttr, AttrFails
<1>16. CASE UnexecPrepare(p)
  <2>1. CASE FailsIf(p, {"unexecuted-inject"},
                     Good /\ At("file").mode \in {"plain", "stripped"})
    BY <1>1, <1>3, <2>1
  <2>2. CASE Unexecutes(p) BY <2>2 DEF Unexecutes, Goto
  <2> QED BY <1>16, <2>1, <2>2 DEF UnexecPrepare, Unexecutes
<1>17. CASE OpenAttr(p) \/ WriteAttr(p) \/ ReadAttr(p)
  BY <1>17 DEF OpenAttr, WriteAttr, ReadAttr, Goto
<1>18. CASE ChmodOff(p) \/ UnexecFails(p)
  BY <1>1, <1>3, <1>4, <1>5, <1>18 DEF ChmodOff, UnexecFails
<1>19. CASE ReexecPrepare(p) \/ ChmodBack(p) \/ DropAttr(p) \/ ReexecFails(p)
  BY <1>1, <1>2, <1>3, <1>5, <1>6, <1>19 DEF ReexecPrepare, ChmodBack, DropAttr, ReexecFails
<1> QED BY <1>7, <1>8, <1>9, <1>10, <1>11, <1>12, <1>13, <1>14, <1>15, <1>16, <1>17, <1>18,
           <1>19
        DEF Steps, Step

\* What a step of an invocation can be.
LEMMA StepKinds ==
  ASSUME IInv, NEW p \in Proc, Steps(p)
  PROVE  \/ Quiet(p) \/ Opens(p) \/ Copies(p) \/ Repairs(p) \/ Loses(p) \/ Flags(p)
         \/ Strips(p) \/ Restores(p)
<1> USE Parts DEF Locals, Counted, Critical
<1>1. ASSUME NEW at, NEW c, FailsIf(p, at, c), "copyWrite" \notin at PROVE Quiet(p)
  BY <1>1 DEF FailsIf, End, env, Quiet
<1>2. ASSUME NEW at, Breaks(p, at) PROVE Quiet(p)
  BY <1>2 DEF Breaks, End, Quiet
<1>3. ASSUME NEW from, NEW to, NEW c, LooksIf(p, from, to, c), to \notin Critical,
             from # "copyWrite"
      PROVE  Quiet(p)
  BY <1>3 DEF LooksIf, Goto, env, Quiet
<1>4. CASE Crash(p) BY <1>4 DEF Crash, End, Quiet
<1>5. CASE \E op \in Ops : Start(p, op)
  BY <1>5, FileAssumption DEF Start, Goto, env, AllOps, Quiet
<1>6. CASE Step(p)
  <2>1. CASE PrepareFails(p) BY <1>1, <2>1 DEF PrepareFails, Prepared
  <2>2. CASE LostStat(p) \/ LostFails(p) \/ UnlostStat(p) \/ UnlostFails(p)
    BY <1>1, <1>3, <2>2 DEF LostStat, LostFails, UnlostStat, UnlostFails
  <2>3. CASE CorruptPrepare(p) \/ CorruptCheck(p)
    BY <1>3, <2>3 DEF CorruptPrepare, CorruptCheck
  <2>4. CASE CorruptFails(p) BY <1>1, <1>2, <2>4 DEF CorruptFails
  <2>5. CASE RepairPrepare(p) \/ RepairFails(p)
    BY <1>1, <1>3, <2>5 DEF RepairPrepare, RepairFails
  <2>6. CASE ReadonlyPrepare(p) \/ AttrFails(p)
    BY <1>1, <1>3, <2>6 DEF ReadonlyPrepare, AttrFails
  <2>13. CASE OpenSet(p) \/ OpenUnset(p)
    BY <2>13 DEF OpenSet, OpenUnset, OpenToFlag, Goto, env, Quiet
  <2>7. CASE UnexecPrepare(p)
    <3>1. CASE FailsIf(p, {"unexecuted-inject"},
                       Good /\ At("file").mode \in {"plain", "stripped"})
      BY <1>1, <3>1
    <3>2. CASE Unexecutes(p) BY <3>2 DEF Strips
    <3> QED BY <2>7, <3>1, <3>2 DEF UnexecPrepare, Unexecutes
  <2>8. CASE UnexecFails(p) BY <1>1, <1>2, <2>8 DEF UnexecFails
  <2>9. CASE ReexecPrepare(p) \/ ReexecFails(p)
    BY <1>1, <1>3, <2>9 DEF ReexecPrepare, ReexecFails
  <2>10. CASE CopyOpen(p) \/ CopyStat(p) \/ CorruptOpen(p) \/ FindBackup(p)
    BY <2>10 DEF Opens
  <2>11. CASE \/ CopyCreate(p) \/ CopyWrite(p) \/ CorruptWrite(p) \/ RepairRemove(p)
              \/ RepairMv(p) \/ LostRename(p) \/ UnlostRename(p) \/ SetAttr(p) \/ UnsetAttr(p)
    BY <2>11 DEF Copies, Repairs, Loses, Flags
  <2>12. CASE \/ OpenAttr(p) \/ WriteAttr(p) \/ ChmodOff(p) \/ ReadAttr(p) \/ ChmodBack(p)
              \/ DropAttr(p)
    BY <2>12 DEF Strips, Restores
  <2> QED BY <1>6, <2>1, <2>2, <2>3, <2>4, <2>5, <2>6, <2>7, <2>8, <2>9, <2>10, <2>11, <2>12,
             <2>13
          DEF Step
<1> QED BY <1>4, <1>5, <1>6 DEF Steps

\* What a new file is, and what stays.
LEMMA NewFile ==
  ASSUME IInv, NEW n \in Name, NEW d, Make(n, d)
  PROVE  /\ ent' = [ent EXCEPT ![n] = NewIno] /\ ino' = [ino EXCEPT ![NewIno] = Fresh(d)]
         /\ NewIno \in Ino /\ Exists(n)' /\ At(n)' = Fresh(d)
         /\ \A m \in Name : ent[m] # NewIno
         /\ \A q \in Proc : src[q] # NewIno /\ out[q] # NewIno
         /\ \A m \in Name \ {n} : /\ ent'[m] = ent[m] /\ Exists(m)' = Exists(m)
                                  /\ Exists(m) => At(m)' = At(m)
<1> USE Parts DEF Placed, Inodes, Locals
<1>1. NewIno \in Ino /\ NewIno \notin InUse BY New DEF Make
<1>2. /\ \A m \in Name : ent[m] # NewIno
      /\ \A q \in Proc : src[q] # NewIno /\ out[q] # NewIno
  BY <1>1 DEF InUse, Range
<1>3. ent' = [ent EXCEPT ![n] = NewIno] /\ ino' = [ino EXCEPT ![NewIno] = Fresh(d)]
  BY DEF Make
<1>4. Exists(n)' /\ At(n)' = Fresh(d) BY <1>1, <1>3, FileAssumption DEF Exists, At
<1>5. \A m \in Name \ {n} : /\ ent'[m] = ent[m] /\ Exists(m)' = Exists(m)
                            /\ Exists(m) => At(m)' = At(m)
  BY <1>2, <1>3 DEF Exists, At
<1> QED BY <1>1, <1>2, <1>3, <1>4, <1>5

\* A step whose own descriptor is none of those, and that makes no name for an
\* inode that had none.
LEMMA DescriptorsElsewhere ==
  ASSUME Descriptors, NEW p \in Proc,
         \A q \in Proc \ {p} : Undisturbed(q),
         pc'[p] \notin {"writeAttr", "copyWrite", "write"},
         ent'["attrBackup"] \in {ent["attrBackup"], None}, None \notin Ino,
         \A n \in Content : ent'[n] = None \/ \E m \in Content : ent'[n] = ent[m],
         Exists("corruptionBackup")' => Exists("corruptionBackup")
                                        /\ At("corruptionBackup")'.mode = At("corruptionBackup").mode
  PROVE  Descriptors'
<1>1. ASSUME NEW q \in Proc, pc'[q] \in {"writeAttr", "copyWrite", "write"}
      PROVE  q # p /\ Undisturbed(q)
  BY <1>1
<1>2. (Exists("corruptionBackup") => At("corruptionBackup").mode = "plain")'
  BY DEF Descriptors
<1>3. ASSUME NEW q \in Proc
      PROVE  /\ pc'[q] = "writeAttr" => out'[q] \in Ino /\ \A n \in Content : ent'[n] # out'[q]
             /\ pc'[q] = "copyWrite" => out'[q] \in Ino /\ out'[q] # ent'["attrBackup"]
             /\ pc'[q] = "write" => src'[q] \in Ino /\ src'[q] # ent'["attrBackup"]
  BY <1>1 DEF Descriptors, Undisturbed
<1> QED BY <1>2, <1>3 DEF Descriptors

LEMMA DescriptorsKeep ==
  ASSUME IInv, Descriptors, [Next]_vars
  PROVE  Descriptors'
<1> USE Parts, FileAssumption DEF Placed, Inodes, Locals
<1>1. CASE UNCHANGED vars
  BY <1>1 DEF vars, disk, locals, Descriptors, Exists, At
<1>2. CASE Recreate
  <2>1. Make("file", "other") /\ UNCHANGED <<pc, src, out>> BY <1>2 DEF Recreate, locals
  <2>2. /\ \A q \in Proc : out[q] # NewIno
        /\ ent'["file"] = NewIno
        /\ \A m \in Name \ {"file"} : /\ ent'[m] = ent[m] /\ Exists(m)' = Exists(m)
                                      /\ Exists(m) => At(m)' = At(m)
    BY <2>1, NewFile DEF Name
  <2> QED BY <2>1, <2>2 DEF Descriptors, Content, Name
<1>3. ASSUME NEW p \in Proc, Steps(p) PROVE Descriptors'
  <2> DEFINE SameMode == Exists("corruptionBackup")' => Exists("corruptionBackup")
                       /\ At("corruptionBackup")'.mode = At("corruptionBackup").mode
  <2>0. \A q \in Proc \ {p} : Undisturbed(q) BY <1>3, Others
  <2>1. ASSUME pc'[p] \notin {"writeAttr", "copyWrite", "write"}, ent' = ent,
               ent["corruptionBackup"] \in Ino
                 => ino'[ent["corruptionBackup"]].mode = ino[ent["corruptionBackup"]].mode
        PROVE  Descriptors'
    <3>1. SameMode BY <2>1 DEF Exists, At, Name
    <3> QED BY <2>0, <2>1, <3>1, DescriptorsElsewhere
  <2>2. CASE Quiet(p) BY <2>1, <2>2 DEF Quiet, Critical, disk
  <2>3. CASE CopyOpen(p) \/ CopyStat(p) \/ FindBackup(p)
    BY <2>1, <2>3 DEF CopyOpen, CopyStat, FindBackup, LooksIf, Goto, disk
  <2>4. CASE CorruptOpen(p)
    <3>1. /\ pc'[p] = "write" /\ src'[p] = ent["file"] /\ UNCHANGED disk /\ Exists("file")
      BY <2>4 DEF CorruptOpen, Goto, Writable
    <3>2. ent["file"] \in Ino /\ ent["file"] # ent["attrBackup"]
      BY <3>1 DEF Exists, Apart, Name
    <3> QED BY <2>0, <3>1, <3>2 DEF Descriptors, Undisturbed, disk, Exists, At
  <2>5. CASE CopyCreate(p)
    <3>1. pc'[p] = "copyWrite" BY <2>5 DEF CopyCreate, Goto
    <3>2. CASE Exists("corruptionBackup")
      <4>1. /\ ent' = ent /\ out'[p] = ent["corruptionBackup"]
            /\ ino' = [ino EXCEPT ![ent["corruptionBackup"]].data = "partial"]
        BY <2>5, <3>2 DEF CopyCreate
      <4>2. /\ ent["corruptionBackup"] \in Ino
            /\ ent["corruptionBackup"] # ent["attrBackup"]
        BY <3>2 DEF Exists, Apart, Name
      <4>3. At("corruptionBackup")'.mode = At("corruptionBackup").mode
        BY <4>1, <4>2 DEF At
      <4> QED BY <2>0, <3>1, <3>2, <4>1, <4>2, <4>3 DEF Descriptors, Undisturbed
    <3>3. CASE ~Exists("corruptionBackup")
      <4>1. Make("corruptionBackup", "partial") /\ out'[p] = NewIno
        BY <2>5, <3>3 DEF CopyCreate
      <4>2. /\ NewIno \in Ino /\ \A m \in Name : ent[m] # NewIno
            /\ \A q \in Proc : out[q] # NewIno
            /\ ent'["corruptionBackup"] = NewIno
            /\ \A m \in Name \ {"corruptionBackup"} : ent'[m] = ent[m]
            /\ At("corruptionBackup")' = Fresh("partial")
        BY <4>1, NewFile DEF Name
      <4>3. At("corruptionBackup")'.mode = "plain" BY <4>2 DEF Fresh
      <4> QED BY <2>0, <3>1, <4>1, <4>2, <4>3 DEF Descriptors, Undisturbed, Content, Name
    <3> QED BY <3>2, <3>3
  <2>6. CASE CopyWrite(p) \/ CorruptWrite(p)
    BY <2>1, <2>6 DEF CopyWrite, CorruptWrite, Goto, Finishes, End
  <2>7. CASE RepairRemove(p) \/ RepairMv(p) \/ LostRename(p) \/ UnlostRename(p) \/ DropAttr(p)
    <3>1. /\ pc'[p] \in {"mv", "idle"} /\ ino' = ino
          /\ ent'["attrBackup"] \in {ent["attrBackup"], None}
          /\ \A n \in Content : ent'[n] = None \/ \E m \in Content : ent'[n] = ent[m]
          /\ ent'["corruptionBackup"] \in {ent["corruptionBackup"], None}
      BY <2>7 DEF RepairRemove, RepairMv, LostRename, UnlostRename, DropAttr, Rename, Goto,
                  Finishes, End, Content, Name
    <3>2. SameMode BY <3>1 DEF Exists, At
    <3> QED BY <2>0, <3>1, <3>2, DescriptorsElsewhere
  <2>8. CASE Flags(p) \/ ChmodOff(p) \/ ChmodBack(p)
    <3>1. /\ pc'[p] \notin {"writeAttr", "copyWrite", "write"} /\ ent' = ent
          /\ Flags(p) \/ Exists("file")
      BY <2>8 DEF Flags, SetAttr, UnsetAttr, ChmodOff, ChmodBack, Writable, Finishes, Goto, End
    <3>2. Exists("file") /\ ent["corruptionBackup"] \in Ino
            => ent["corruptionBackup"] # ent["file"]
      BY DEF Exists, Apart, Name
    <3>3. CASE Flags(p)
      <4>1. \A i \in Ino : ino'[i].mode = ino[i].mode
        BY <3>3 DEF Flags, SetAttr, UnsetAttr, SetBit, UnsetBit
      <4> QED BY <2>1, <3>1, <4>1
    <3>4. CASE ChmodOff(p) \/ ChmodBack(p)
      <4>1. Exists("file") BY <3>4 DEF ChmodOff, ChmodBack, Writable
      <4>2. ent["corruptionBackup"] \in Ino
              => ino'[ent["corruptionBackup"]].mode = ino[ent["corruptionBackup"]].mode
        BY <3>2, <3>4, <4>1 DEF ChmodOff, ChmodBack
      <4> QED BY <2>1, <3>1, <4>2
    <3> QED BY <2>8, <3>3, <3>4
  <2>9. CASE Unexecutes(p) \/ ReadAttr(p)
    BY <2>1, <2>9 DEF Unexecutes, ReadAttr, Goto, disk
  <2>10. CASE WriteAttr(p)
    BY <2>1, <2>10 DEF WriteAttr, Goto
  <2>11. CASE OpenAttr(p)
    <3>1. pc'[p] = "writeAttr" BY <2>11 DEF OpenAttr, Goto
    <3>2. CASE Exists("attrBackup")
      <4>1. UNCHANGED disk /\ out'[p] = ent["attrBackup"] BY <2>11, <3>2 DEF OpenAttr
      <4>2. ent["attrBackup"] \in Ino /\ \A n \in Content : ent[n] # ent["attrBackup"]
        BY <3>2 DEF Exists, Apart, Content, Name
      <4> QED BY <2>0, <3>1, <4>1, <4>2 DEF Descriptors, Undisturbed, disk, Exists, At
    <3>3. CASE ~Exists("attrBackup")
      <4>1. Make("attrBackup", "partial") /\ out'[p] = NewIno BY <2>11, <3>3 DEF OpenAttr
      <4>2. /\ NewIno \in Ino /\ \A m \in Name : ent[m] # NewIno
            /\ \A q \in Proc : src[q] # NewIno /\ out[q] # NewIno
            /\ ent'["attrBackup"] = NewIno
            /\ \A m \in Content : /\ ent'[m] = ent[m] /\ Exists(m)' = Exists(m)
                                  /\ Exists(m) => At(m)' = At(m)
        BY <4>1, NewFile DEF Name, Content
      <4> QED BY <2>0, <3>1, <4>1, <4>2 DEF Descriptors, Undisturbed, Content, Name
    <3> QED BY <3>2, <3>3
  <2> QED BY <1>3, <2>2, <2>3, <2>4, <2>5, <2>6, <2>7, <2>8, <2>9, <2>10, <2>11, StepKinds
          DEF Opens, Copies, Repairs, Loses, Strips, Restores
<1> QED BY <1>1, <1>2, <1>3 DEF Next, Steps

\* Only Recreate makes the path anew.
LEMMA SameRecreated ==
  ASSUME IInv, NEW p \in Proc, Steps(p)
  PROVE  recreated' = recreated
BY StepKinds
   DEF Quiet, Opens, Copies, Repairs, Loses, Flags, Strips, Restores, CopyOpen, CopyStat,
       LooksIf, CorruptOpen, FindBackup, CopyCreate, CopyWrite, CorruptWrite, RepairRemove,
       RepairMv, LostRename, UnlostRename, SetAttr, UnsetAttr, Unexecutes, OpenAttr,
       WriteAttr, ChmodOff, ReadAttr, ChmodBack, DropAttr, Goto, Finishes, env

\* Renames within Path, and a repair that finds nobody else at its second call.
LEMMA OnePathKeeps ==
  ASSUME IInv, OnePath, [Next]_vars
  PROVE  OnePath'
<1> USE Parts, FileAssumption DEF Placed, Locals
<1>1. CASE UNCHANGED vars
  BY <1>1 DEF vars, disk, env, OnePath, Exists
<1>2. CASE Recreate
  BY <1>2 DEF Recreate, Counted, OnePath
<1>3. ASSUME NEW p \in Proc, Steps(p), recreated' = 0 PROVE OnePath'
  <2>0. \A q \in Proc \ {p} : pc'[q] = pc[q] BY <1>3, Others DEF Undisturbed
  <2>1. recreated = 0 BY <1>3, SameRecreated
  <2>2. /\ ~(Exists("file") /\ Exists("lostBackup"))
        /\ \A q \in Proc : pc[q] = "mv" => /\ \A n \in Path : ~Exists(n)
                                           /\ \A r \in Proc : pc[r] = "mv" => r = q
    BY <2>1 DEF OnePath
  <2>3. ASSUME pc'[p] # "mv", \A n \in Path : ent'[n] = ent[n] PROVE OnePath'
    BY <2>0, <2>2, <2>3 DEF OnePath, Path, Exists
  <2>4. CASE Quiet(p) BY <2>3, <2>4 DEF Quiet, Critical, disk
  <2>5. CASE Opens(p)
    BY <2>3, <2>5 DEF Opens, CopyOpen, CopyStat, CorruptOpen, FindBackup, LooksIf, Goto, disk
  <2>6. CASE CopyCreate(p)
    <3>1. \A n \in Path : ent'[n] = ent[n] BY <2>6 DEF CopyCreate, Make, Path, Name
    <3> QED BY <2>3, <2>6, <3>1 DEF CopyCreate, Goto
  <2>7. CASE CopyWrite(p) \/ CorruptWrite(p) \/ Flags(p)
    BY <2>3, <2>7 DEF CopyWrite, CorruptWrite, Flags, SetAttr, UnsetAttr, Goto, Finishes, End
  <2>8. CASE RepairRemove(p)
    <3>1. /\ Exists("file") /\ ent'["file"] = None /\ ent'["lostBackup"] = ent["lostBackup"]
      BY <2>8 DEF RepairRemove, Writable, Name
    <3>2. \A q \in Proc : pc[q] # "mv" BY <2>2, <3>1 DEF Path
    <3> QED BY <2>0, <2>2, <3>1, <3>2 DEF OnePath, Path, Exists
  <2>9. CASE RepairMv(p)
    <3>1. /\ pc[p] = "mv" /\ pc'[p] = "idle" /\ ent'["lostBackup"] = ent["lostBackup"]
      BY <2>9 DEF RepairMv, Finishes, End, Rename, Name
    <3>2. \A q \in Proc : pc'[q] # "mv" BY <2>0, <2>2, <3>1
    <3> QED BY <2>2, <3>1, <3>2 DEF OnePath, Path, Exists
  <2>10. CASE Loses(p)
    <3>1. /\ pc'[p] = "idle"
          /\ \/ ent'["file"] = None /\ Exists("file")
             \/ ent'["lostBackup"] = None /\ Exists("lostBackup")
      BY <2>10 DEF Loses, LostRename, UnlostRename, CanRename, Writable, Finishes, End,
                   Rename, Name
    <3>2. \A q \in Proc : pc[q] # "mv" BY <2>2, <3>1 DEF Path
    <3> QED BY <2>0, <2>2, <3>1, <3>2 DEF OnePath, Path, Exists
  <2>11. CASE Strips(p)
    <3>1. \A n \in Path : ent'[n] = ent[n]
      BY <2>11 DEF Strips, Unexecutes, OpenAttr, WriteAttr, ChmodOff, Make, Path, Name, disk
    <3> QED BY <2>3, <2>11, <3>1
            DEF Strips, Unexecutes, OpenAttr, WriteAttr, ChmodOff, Goto, Finishes, End
  <2>12. CASE Restores(p)
    <3>1. \A n \in Path : ent'[n] = ent[n]
      BY <2>12 DEF Restores, ReadAttr, ChmodBack, DropAttr, Path, Name, disk
    <3> QED BY <2>3, <2>12, <3>1 DEF Restores, ReadAttr, ChmodBack, DropAttr, Goto, Finishes, End
  <2> QED BY <1>3, <2>4, <2>5, <2>6, <2>7, <2>8, <2>9, <2>10, <2>11, <2>12, StepKinds
          DEF Copies, Repairs
<1> QED BY <1>1, <1>2, <1>3 DEF Next, Steps, OnePath
--------------------------------------------------------------------------------
\* What file-unexecuted knows, when nobody made the path anew.
Stripped == \E n \in Path : Exists(n) /\ At(n).mode = "stripped"
Saved    == Exists("attrBackup") /\ At("attrBackup").data = "exec"
Knows(p) ==
  /\ pc[p] \in {"openAttr", "writeAttr"} => mode[p] \in {"exec", "special"}
  /\ pc[p] = "writeAttr" => Exists("attrBackup") /\ out[p] = ent["attrBackup"]
  /\ pc[p] = "chmodOff" => Saved
  /\ pc[p] = "chmodBack" => mode[p] = "exec"
  /\ pc[p] = "dropAttr" => ~Stripped
Kept ==
  recreated = 0 =>
    /\ Stripped => Saved
    /\ Exists("attrBackup") => At("attrBackup").data \in {"partial", "exec"}
    /\ \A p \in Proc : Knows(p)
AttrCalls == {"openAttr", "writeAttr", "chmodOff", "chmodBack", "dropAttr"}

\* A removal of file-unexecuted that is alone finds nobody at a call of it.
LEMMA NobodyElse ==
  ASSUME RemovedAlone("unexecuted"), NEW p \in Proc, pc[p] = "dropAttr",
         NEW q \in Proc \ {p}
  PROVE  pc[q] \notin AttrCalls
<1>1. Works(p, "unexecuted") /\ Doing(pc[p]).op = "remove" BY DEF Works, Doing
<1>2. pc[q] \in AttrCalls => Works(q, "unexecuted") BY DEF Works, Doing, AttrCalls
<1> QED BY <1>1, <1>2 DEF RemovedAlone

\* Steps that strip no file, and leave the backup of the permissions as it is.
LEMMA KeptElsewhere ==
  ASSUME Kept, NEW p \in Proc, \A q \in Proc \ {p} : Undisturbed(q),
         recreated' = recreated, pc'[p] \notin AttrCalls,
         Stripped' => Stripped,
         ent'["attrBackup"] = ent["attrBackup"],
         Exists("attrBackup") => At("attrBackup")'.data = At("attrBackup").data
  PROVE  Kept'
<1> SUFFICES ASSUME recreated = 0 PROVE Kept' BY DEF Kept
<1>1. /\ Exists("attrBackup")' <=> Exists("attrBackup")
      /\ Saved => Saved'
  BY DEF Exists, Saved
<1>2. ASSUME NEW q \in Proc PROVE Knows(q)'
  <2>1. CASE q = p BY <2>1 DEF Knows, AttrCalls
  <2>2. CASE q # p
    <3>1. Knows(q) /\ Undisturbed(q) BY <2>2 DEF Kept
    <3> QED BY <1>1, <3>1 DEF Knows, Undisturbed
  <2> QED BY <2>1, <2>2
<1> QED BY <1>1, <1>2 DEF Kept

\* Where Path leads, and what can be run, is as before.
LEMMA SamePath ==
  ASSUME \A n \in Path : /\ Exists(n)' => Exists(n)
                         /\ Exists(n)' => At(n)'.mode = At(n).mode
  PROVE  Stripped' => Stripped
BY DEF Stripped

LEMMA LostKeepsBits ==
  ASSUME IInv, Kept, NEW p \in Proc, \A q \in Proc \ {p} : Undisturbed(q), Loses(p)
  PROVE  Kept'
<1> USE Parts DEF Placed, Locals
<1>1. /\ ino' = ino /\ pc'[p] = "idle" /\ recreated' = recreated
      /\ ent'["attrBackup"] = ent["attrBackup"]
      /\ \A n \in Path : ent'[n] = None \/ \E m \in Path : ent'[n] = ent[m]
  BY DEF Loses, LostRename, UnlostRename, Finishes, End, Rename, Path, Name, env
<1>2. Stripped' => Stripped BY <1>1 DEF Stripped, Exists, At
<1> QED BY <1>1, <1>2, KeptElsewhere DEF AttrCalls, At

LEMMA CopyKeepsBits ==
  ASSUME IInv, Descriptors, Kept, NEW p \in Proc, \A q \in Proc \ {p} : Undisturbed(q),
         Copies(p)
  PROVE  Kept'
<1> USE Parts DEF Placed, Inodes, Locals
<1>1. recreated' = recreated /\ pc'[p] \notin AttrCalls
  BY DEF Copies, CopyCreate, CopyWrite, CorruptWrite, Goto, Finishes, End, env, AttrCalls
<1>2. ASSUME NEW i \in Ino, i # ent["attrBackup"], NEW d, ent' = ent,
             ino' = [ino EXCEPT ![i].data = d]
      PROVE  Kept'
  <2>1. \A n \in Name : Exists(n)' = Exists(n) /\ (Exists(n) => At(n)'.mode = At(n).mode)
    BY <1>2 DEF Exists, At
  <2>2. Exists("attrBackup") => At("attrBackup")'.data = At("attrBackup").data
    BY <1>2 DEF At, Exists, Name
  <2>3. Stripped' => Stripped BY <2>1, SamePath DEF Path, Name
  <2> QED BY <1>1, <1>2, <2>2, <2>3, KeptElsewhere
<1>3. CASE CopyWrite(p)
  <2>1. /\ pc[p] = "copyWrite" /\ ent' = ent
        /\ ino' = [ino EXCEPT ![out[p]].data = ino[src[p]].data]
    BY <1>3 DEF CopyWrite, Goto
  <2>2. out[p] \in Ino /\ out[p] # ent["attrBackup"] BY <2>1 DEF Descriptors
  <2> QED BY <1>2, <2>1, <2>2
<1>4. CASE CorruptWrite(p)
  <2>1. /\ pc[p] = "write" /\ ent' = ent
        /\ ino' = [ino EXCEPT ![src[p]].data = "corrupt"]
    BY <1>4 DEF CorruptWrite, Finishes
  <2>2. src[p] \in Ino /\ src[p] # ent["attrBackup"] BY <2>1 DEF Descriptors
  <2> QED BY <1>2, <2>1, <2>2
<1>5. CASE CopyCreate(p) /\ Exists("corruptionBackup")
  <2>1. /\ ino' = [ino EXCEPT ![ent["corruptionBackup"]].data = "partial"]
        /\ ent' = ent
    BY <1>5 DEF CopyCreate
  <2>2. ent["corruptionBackup"] \in Ino /\ ent["corruptionBackup"] # ent["attrBackup"]
    BY <1>5 DEF Apart, Exists, Name
  <2> QED BY <1>2, <2>1, <2>2
<1>6. CASE CopyCreate(p) /\ ~Exists("corruptionBackup")
  <2>1. Make("corruptionBackup", "partial") BY <1>6 DEF CopyCreate
  <2>2. \A m \in Name \ {"corruptionBackup"} :
          ent'[m] = ent[m] /\ Exists(m)' = Exists(m) /\ (Exists(m) => At(m)' = At(m))
    BY <2>1, NewFile DEF Name
  <2>3. Stripped' => Stripped BY <2>2, SamePath DEF Path, Name
  <2> QED BY <1>1, <2>2, <2>3, KeptElsewhere DEF Name
<1> QED BY <1>3, <1>4, <1>5, <1>6 DEF Copies

LEMMA RepairKeepsBits ==
  ASSUME IInv, Descriptors, OnePath, Kept, NEW p \in Proc,
         \A q \in Proc \ {p} : Undisturbed(q), Repairs(p)
  PROVE  Kept'
<1> USE Parts DEF Placed, Inodes, Locals
<1>1. /\ recreated' = recreated /\ pc'[p] \notin AttrCalls /\ ino' = ino
      /\ ent'["attrBackup"] = ent["attrBackup"]
  BY DEF Repairs, RepairRemove, RepairMv, Goto, Finishes, End, Rename, env, AttrCalls, Name
<1> SUFFICES ASSUME recreated = 0 PROVE Kept' BY <1>1 DEF Kept
<1>2. Stripped' => Stripped
  <2>1. CASE RepairRemove(p)
    BY <1>1, <2>1 DEF RepairRemove, Stripped, Path, Exists, At, Name
  <2>2. CASE RepairMv(p)
    <3>1. /\ pc[p] = "mv" /\ Exists("corruptionBackup")
          /\ ent'["file"] = ent["corruptionBackup"]
          /\ ent'["lostBackup"] = ent["lostBackup"]
      BY <2>2 DEF RepairMv, CanRename, Writable, Finishes, Rename, Name
    <3>2. At("file")'.mode = "plain" /\ ~Exists("lostBackup")'
      BY <1>1, <3>1 DEF OnePath, Path, Descriptors, Exists, At
    <3> QED BY <3>2 DEF Stripped, Path
  <2> QED BY <2>1, <2>2 DEF Repairs
<1> QED BY <1>1, <1>2, KeptElsewhere DEF At

LEMMA AttrKeepsBits ==
  ASSUME IInv, Kept, NEW p \in Proc, \A q \in Proc \ {p} : Undisturbed(q), Flags(p)
  PROVE  Kept'
<1> USE Parts DEF Placed, Inodes, Locals
<1>1. pc'[p] = "idle" /\ ent' = ent /\ recreated' = recreated
  BY DEF Flags, SetAttr, UnsetAttr, Finishes, End, env
<1>2. \A i \in Ino : ino'[i].data = ino[i].data /\ ino'[i].mode = ino[i].mode
  BY DEF Flags, SetAttr, UnsetAttr, SetBit, UnsetBit
<1>3. \A n \in Name : /\ Exists(n)' = Exists(n)
                      /\ Exists(n) => At(n)'.data = At(n).data /\ At(n)'.mode = At(n).mode
  BY <1>1, <1>2 DEF Exists, At
<1>4. Stripped' => Stripped BY <1>3, SamePath DEF Path, Name
<1> QED BY <1>1, <1>3, <1>4, KeptElsewhere DEF AttrCalls, Name

\* Who is at another call after a step of p still knows what it knew.
LEMMA OthersKnow ==
  ASSUME Kept, recreated = 0, NEW p \in Proc, \A q \in Proc \ {p} : Undisturbed(q),
         ent'["attrBackup"] = ent["attrBackup"], Saved => Saved',
         \A q \in Proc \ {p} : pc[q] = "dropAttr" => ~Stripped'
  PROVE  \A q \in Proc \ {p} : Knows(q)'
<1> SUFFICES ASSUME NEW q \in Proc \ {p} PROVE Knows(q)' OBVIOUS
<1>1. Knows(q) /\ Undisturbed(q) BY DEF Kept
<1>2. Exists("attrBackup")' <=> Exists("attrBackup") BY DEF Exists
<1> QED BY <1>1, <1>2 DEF Knows, Undisturbed

\* file-unexecuted: the backup before the bits.
LEMMA StripKeepsBits ==
  ASSUME RemovedAlone("unexecuted"), IInv, Kept, NEW p \in Proc,
         \A q \in Proc \ {p} : Undisturbed(q), recreated' = recreated, Strips(p)
  PROVE  Kept'
<1> USE Parts DEF Placed, Inodes, Locals
<1> SUFFICES ASSUME recreated = 0 PROVE Kept' BY DEF Kept
<1>1. Knows(p) /\ (Stripped => Saved) BY DEF Kept
<1>2. ASSUME UNCHANGED disk
      PROVE  /\ Stripped' <=> Stripped
             /\ Saved' <=> Saved
             /\ (Exists("attrBackup") => At("attrBackup").data \in {"partial", "exec"})'
             /\ \A q \in Proc \ {p} : Knows(q)'
  <2>1. (Stripped' <=> Stripped) /\ (Saved' <=> Saved)
    BY <1>2 DEF disk, Stripped, Saved, Exists, At
  <2>2. (Exists("attrBackup") => At("attrBackup").data \in {"partial", "exec"})'
    BY <1>2 DEF disk, Kept, Exists, At
  <2>3. \A q \in Proc \ {p} : pc[q] = "dropAttr" => ~Stripped'
    BY <2>1 DEF Kept, Knows
  <2> QED BY <1>2, <2>1, <2>2, <2>3, OthersKnow DEF disk
<1>3. CASE Unexecutes(p)
  <2>1. UNCHANGED disk /\ pc'[p] = "openAttr" /\ mode'[p] \in {"exec", "special"}
    BY <1>3 DEF Unexecutes, Goto
  <2>2. Knows(p)' BY <2>1 DEF Knows
  <2> QED BY <1>1, <1>2, <2>1, <2>2 DEF Kept
<1>4. CASE OpenAttr(p)
  <2>1. pc'[p] = "writeAttr" /\ mode'[p] \in {"exec", "special"}
    BY <1>1, <1>4 DEF OpenAttr, Goto, Knows
  <2>2. CASE Exists("attrBackup")
    <3>1. UNCHANGED disk /\ out'[p] = ent["attrBackup"] BY <1>4, <2>2 DEF OpenAttr
    <3>2. Knows(p)' BY <2>1, <2>2, <3>1 DEF Knows, disk, Exists
    <3> QED BY <1>1, <1>2, <3>1, <3>2 DEF Kept
  <2>3. CASE ~Exists("attrBackup")
    <3>1. Make("attrBackup", "partial") /\ out'[p] = NewIno BY <1>4, <2>3 DEF OpenAttr
    <3>2. /\ ent'["attrBackup"] = NewIno /\ Exists("attrBackup")'
          /\ At("attrBackup")' = Fresh("partial")
          /\ \A n \in Path : /\ Exists(n)' = Exists(n)
                             /\ Exists(n) => At(n)' = At(n)
      BY <3>1, NewFile DEF Name, Path
    <3>3. ~Stripped' BY <1>1, <2>3, <3>2 DEF Stripped, Saved
    <3>4. Knows(p)' BY <2>1, <3>1, <3>2 DEF Knows
    <3>5. ASSUME NEW q \in Proc \ {p} PROVE Knows(q)'
      <4>1. Knows(q) /\ Undisturbed(q) BY DEF Kept
      <4>2. pc[q] \notin {"writeAttr", "chmodOff"} BY <2>3, <4>1 DEF Knows, Saved
      <4> QED BY <3>3, <4>1, <4>2 DEF Knows, Undisturbed
    <3>6. At("attrBackup")'.data = "partial" BY <3>2 DEF Fresh
    <3> QED BY <3>3, <3>4, <3>5, <3>6 DEF Kept
  <2> QED BY <2>2, <2>3
<1>5. CASE WriteAttr(p)
  <2>1. pc[p] = "writeAttr" /\ pc'[p] = "chmodOff" /\ ent' = ent
    BY <1>5 DEF WriteAttr, Goto
  <2>2. /\ mode[p] \in {"exec", "special"}
        /\ Exists("attrBackup") /\ out[p] = ent["attrBackup"]
    BY <1>1, <2>1 DEF Knows
  <2>3. Perm(mode[p]) = "exec" BY <2>2 DEF Perm
  <2>4. ino' = [ino EXCEPT ![out[p]].data = "exec"] BY <1>5, <2>3 DEF WriteAttr
  <2>5. ent["attrBackup"] \in Ino BY <2>2 DEF Exists, Name
  <2>6. Saved' BY <2>1, <2>2, <2>4, <2>5 DEF Saved, Exists, At
  <2>7. \A n \in Path : /\ Exists(n)' = Exists(n)
                        /\ Exists(n) => At(n)'.mode = At(n).mode
    BY <2>1, <2>4 DEF Exists, At, Path, Name
  <2>8. Stripped' => Stripped BY <2>7, SamePath
  <2>9. \A q \in Proc \ {p} : Knows(q)'
    <3>1. \A q \in Proc \ {p} : pc[q] = "dropAttr" => ~Stripped' BY <2>8 DEF Kept, Knows
    <3> QED BY <2>1, <2>6, <3>1, OthersKnow
  <2>10. Knows(p)' BY <2>1, <2>6 DEF Knows
  <2> QED BY <2>6, <2>9, <2>10 DEF Kept, Saved
<1>6. CASE ChmodOff(p)
  <2>1. /\ pc[p] = "chmodOff" /\ pc'[p] = "idle" /\ ent' = ent /\ Exists("file")
        /\ ino' = [ino EXCEPT ![ent["file"]].mode = "stripped"]
    BY <1>6 DEF ChmodOff, Finishes, End, Writable
  <2>2. Saved BY <1>1, <2>1 DEF Knows
  <2>3. ent["attrBackup"] # ent["file"] BY <2>1, <2>2 DEF Apart, Exists, Saved, Name
  <2>4. Saved' BY <2>1, <2>2, <2>3 DEF Saved, Exists, At, Name
  <2>5. \A q \in Proc \ {p} : pc[q] # "dropAttr"
    BY <2>1, NobodyElse DEF AttrCalls
  <2>6. \A q \in Proc \ {p} : Knows(q)' BY <2>1, <2>4, <2>5, OthersKnow
  <2>7. Knows(p)' BY <2>1 DEF Knows
  <2> QED BY <2>4, <2>6, <2>7 DEF Kept, Saved
<1> QED BY <1>3, <1>4, <1>5, <1>6 DEF Strips

\* Its removal: the bits before the backup goes.
LEMMA RestoreKeepsBits ==
  ASSUME RemovedAlone("unexecuted"), IInv, OnePath, Kept, NEW p \in Proc,
         \A q \in Proc \ {p} : Undisturbed(q), recreated' = recreated, Restores(p)
  PROVE  Kept'
<1> USE Parts DEF Placed, Inodes, Locals
<1> SUFFICES ASSUME recreated = 0 PROVE Kept' BY DEF Kept
<1>1. Knows(p) BY DEF Kept
<1>2. CASE ReadAttr(p)
  <2>1. pc'[p] = "chmodBack" /\ mode'[p] = At("attrBackup").data /\ UNCHANGED disk
    BY <1>2 DEF ReadAttr, Goto
  <2>2. At("attrBackup").data = "exec" BY <1>2 DEF ReadAttr, Parses, Kept, Mode
  <2>3. /\ Stripped' <=> Stripped
        /\ Saved' <=> Saved
        /\ Exists("attrBackup")' => At("attrBackup")'.data \in {"partial", "exec"}
    BY <2>1, <2>2 DEF Stripped, Saved, Exists, At, disk
  <2>4. Knows(p)' BY <2>1, <2>2 DEF Knows
  <2>5. \A q \in Proc \ {p} : Knows(q)'
    <3>1. \A q \in Proc \ {p} : pc[q] = "dropAttr" => ~Stripped' BY <2>3 DEF Kept, Knows
    <3> QED BY <2>1, <2>3, <3>1, OthersKnow DEF disk
  <2> QED BY <2>3, <2>4, <2>5 DEF Kept
<1>3. CASE ChmodBack(p)
  <2>1. /\ pc[p] = "chmodBack" /\ pc'[p] = "dropAttr" /\ ent' = ent /\ Exists("file")
        /\ ino' = [ino EXCEPT ![ent["file"]].mode = mode[p]]
    BY <1>3 DEF ChmodBack, Goto, Writable
  <2>2. mode[p] = "exec" BY <1>1, <2>1 DEF Knows
  <2>3. ~Exists("lostBackup")' BY <2>1 DEF OnePath, Exists
  <2>4. At("file")'.mode = "exec" BY <2>1, <2>2 DEF Exists, At, Name
  <2>5. ~Stripped' BY <2>3, <2>4 DEF Stripped, Path
  <2>6. Exists("attrBackup") => ent["attrBackup"] # ent["file"]
    BY <2>1 DEF Apart, Exists, Name
  <2>7. Exists("attrBackup") => At("attrBackup")' = At("attrBackup")
    BY <2>1, <2>6 DEF Exists, At, Name
  <2>8. Exists("attrBackup")' <=> Exists("attrBackup") BY <2>1 DEF Exists
  <2>9. Saved => Saved' BY <2>7, <2>8 DEF Saved
  <2>10. \A q \in Proc \ {p} : Knows(q)' BY <2>1, <2>5, <2>9, OthersKnow
  <2>11. Knows(p)' BY <2>1, <2>5 DEF Knows
  <2> QED BY <2>5, <2>7, <2>8, <2>10, <2>11 DEF Kept
<1>4. CASE DropAttr(p)
  <2>1. /\ pc[p] = "dropAttr" /\ pc'[p] = "idle" /\ ino' = ino
        /\ ent' = [ent EXCEPT !["attrBackup"] = None]
    BY <1>4 DEF DropAttr, Finishes, End
  <2>2. ~Stripped BY <1>1, <2>1 DEF Knows
  <2>3. ~Stripped' BY <2>1, <2>2 DEF Stripped, Path, Exists, At, Name
  <2>4. ~Exists("attrBackup")' BY <2>1 DEF Exists, Name
  <2>5. \A q \in Proc \ {p} : pc[q] \notin AttrCalls BY <2>1, NobodyElse
  <2>6. \A q \in Proc : Knows(q)'
    BY <2>1, <2>5 DEF Knows, AttrCalls, Undisturbed
  <2> QED BY <2>3, <2>4, <2>6 DEF Kept
<1> QED BY <1>2, <1>3, <1>4 DEF Restores

LEMMA KeptKeeps ==
  ASSUME RemovedAlone("unexecuted"), IInv, Descriptors, OnePath, Kept, [Next]_vars
  PROVE  Kept'
<1>1. CASE UNCHANGED vars
  BY <1>1 DEF vars, disk, locals, env, Kept, Knows, Stripped, Saved, Exists, At
<1>2. CASE Recreate
  BY <1>2, Parts DEF Recreate, Counted, Kept
<1>3. ASSUME NEW p \in Proc, Steps(p) PROVE Kept'
  <2>1. \A q \in Proc \ {p} : Undisturbed(q) BY <1>3, Others, Parts
  <2>2. recreated' = recreated BY <1>3, SameRecreated
  <2>3. CASE Quiet(p) \/ Opens(p)
    <3>1. UNCHANGED disk /\ pc'[p] \notin AttrCalls
      BY <2>3, Parts
         DEF Quiet, Critical, AttrCalls, Opens, CopyOpen, CopyStat, CorruptOpen, FindBackup,
             LooksIf, Goto, Locals
    <3>2. /\ ent'["attrBackup"] = ent["attrBackup"]
          /\ Exists("attrBackup") => At("attrBackup")'.data = At("attrBackup").data
          /\ Stripped' => Stripped
      BY <3>1 DEF disk, Stripped, Exists, At
    <3> QED BY <2>1, <2>2, <3>1, <3>2, KeptElsewhere
  <2> QED BY <1>3, <2>1, <2>2, <2>3, StepKinds, LostKeepsBits, CopyKeepsBits,
             RepairKeepsBits, AttrKeepsBits, StripKeepsBits, RestoreKeepsBits
<1> QED BY <1>1, <1>2, <1>3 DEF Next, Steps

LEMMA InitKept == Init => Kept /\ Descriptors /\ OnePath
<1> SUFFICES ASSUME Init PROVE Kept /\ Descriptors /\ OnePath OBVIOUS
<1>1. PICK i \in {CHOOSE j \in Ino : TRUE}, k \in Kinds, m \in Modes :
        /\ ent = [n \in Name |-> IF n = "file" THEN i ELSE None]
        /\ ino = [j \in Ino |->
                    IF j = i THEN [Fresh("original") EXCEPT !.kind = k, !.mode = m]
                    ELSE Fresh("other")]
  BY DEF Init
<1>2. i \in Ino /\ m # "stripped" BY FileAssumption
<1>3. ino[i].mode # "stripped" BY <1>1, <1>2 DEF Fresh
<1>4. \A p \in Proc : pc[p] = "idle" BY DEF Init
<1> QED BY <1>1, <1>3, <1>4
        DEF Kept, Knows, Descriptors, OnePath, Path, Stripped, Exists, At, Name

\* Any number of invocations at once, as long as no removal of file-unexecuted meets
\* another invocation of file-unexecuted: while nobody makes the path anew, execute
\* bits that are off are in the backup, wherever injections and removals of any
\* fault fail or are killed.
THEOREM BitsRecoverable ==
  Spec /\ []RemovedAlone("unexecuted") => []ExecRecoverable
<1>1. Init => Kept /\ Descriptors /\ OnePath BY InitKept
<1>2. IInv /\ Descriptors /\ [Next]_vars => Descriptors' BY DescriptorsKeep
<1>3. IInv /\ OnePath /\ [Next]_vars => OnePath' BY OnePathKeeps
<1>4. RemovedAlone("unexecuted") /\ IInv /\ Descriptors /\ OnePath /\ Kept /\ [Next]_vars
        => Kept'
  BY KeptKeeps
<1>5. Kept => ExecRecoverable BY DEF Kept, ExecRecoverable, Stripped, Saved, Path
<1> QED BY InitHolds, NextKeeps, <1>1, <1>2, <1>3, <1>4, <1>5, PTL DEF Spec

\* An invocation does one thing from its start to its end.
LEMMA WorksOn ==
  ASSUME IInv, [Next]_vars, NEW p \in Proc
  PROVE  \/ Doing(pc[p])' \in {Doing(pc[p]), Ledger!NoWork}
         \/ \E op \in Ops : Doing(pc[p])' = Doing(op)
<1> DEFINE busy == [q \in Proc |-> Doing(pc[q])]
<1>1. busy[p] = Doing(pc[p]) /\ busy'[p] = Doing(pc[p])' OBVIOUS
<1>2. LedgerStep BY StepSimulation
<1>3. CASE UNCHANGED Ledger!vars BY <1>1, <1>3 DEF Ledger!vars
<1>4. ASSUME NEW q \in Proc,
             \/ \E i \in {Doing(op) : op \in Ops} : busy' = [busy EXCEPT ![q] = i]
             \/ busy' = busy
             \/ busy' = [busy EXCEPT ![q] = Ledger!NoWork]
      PROVE  \/ busy'[p] \in {busy[p], Ledger!NoWork}
             \/ \E op \in Ops : busy'[p] = Doing(op)
  BY <1>4
<1>5. CASE Ledger!Next
  BY <1>1, <1>4, <1>5
     DEF Ledger!Next, Ledger!Begins, Ledger!Injects, Ledger!Removes, Ledger!Ends,
         Ledger!MayEnd
<1> QED BY <1>2, <1>3, <1>5 DEF LedgerStep

\* Where nobody removes file-unexecuted, injections of it may overlap as they like.
THEOREM InjectionsRecoverable ==
  ASSUME "unexecuted-remove" \notin Ops
  PROVE  Spec => []ExecRecoverable
<1> DEFINE Removal == [fault |-> "unexecuted", op |-> "remove"]
           NoneYet == \A p \in Proc : Doing(pc[p]) # Removal
<1>1. Init => NoneYet BY DEF Init, Doing
<1>2. IInv /\ NoneYet /\ [Next]_vars => NoneYet'
  <2>1. \A op \in Ops : Doing(op) # Removal BY FileAssumption DEF Doing, AllOps
  <2>2. Ledger!NoWork # Removal BY DEF Ledger!NoWork
  <2> QED BY <2>1, <2>2, WorksOn
<1>3. NoneYet => RemovedAlone("unexecuted")
  <2>1. \A p \in Proc : Doing(pc[p]).fault = "unexecuted" /\ Doing(pc[p]).op = "remove"
          => Doing(pc[p]) = Removal
    BY DEF Doing
  <2> QED BY <2>1 DEF RemovedAlone, Works
<1> QED BY InitHolds, NextKeeps, <1>1, <1>2, <1>3, BitsRecoverable, PTL DEF Spec
--------------------------------------------------------------------------------
\* Where the content is, when nobody made the path anew, and what each call of
\* file-corruption knows of it.
Held(i) == \E n \in Path : Exists(n) /\ ent[n] = i
Copying(p) ==
  /\ pc[p] \in {"copyStat", "copyCreate", "copyWrite", "write"} => Held(src[p])
  /\ pc[p] = "copyCreate" => ~Exists("corruptionBackup")
  /\ pc[p] = "copyWrite" => /\ Exists("corruptionBackup") /\ out[p] = ent["corruptionBackup"]
                            /\ ino[src[p]].data # "corrupt"
  /\ pc[p] \in {"open", "write"} =>
       /\ Exists("corruptionBackup")
       /\ \A n \in Path : Exists(n) => At("corruptionBackup").data = At(n).data
  /\ pc[p] \in {"remove", "mv"} => Exists("corruptionBackup")
Whole(n) ==
  Exists(n) => /\ At(n).data \in {"original", "corrupt", "partial"}
               /\ At(n).data = "corrupt" => Exists("corruptionBackup")
               /\ mishaps = 0 => At(n).data # "partial"
WholeBackup ==
  Exists("corruptionBackup") =>
    /\ At("corruptionBackup").data \in {"original", "partial"}
    /\ mishaps = 0 /\ At("corruptionBackup").data = "partial"
         => \E p \in Proc : pc[p] = "copyWrite"
Contents ==
  recreated = 0 =>
    /\ \E n \in Content : Exists(n)
    /\ \A n \in Path : Whole(n)
    /\ WholeBackup
    /\ \A p \in Proc : Copying(p)
CopyCalls == {"copyStat", "copyCreate", "copyWrite", "open", "write", "remove", "mv"}

\* A file-corruption that is alone finds nobody at a call of it.
LEMMA NobodyCopies ==
  ASSUME Alone("corruption"), NEW p \in Proc, pc[p] \in CopyCalls, NEW q \in Proc \ {p}
  PROVE  pc[q] \notin CopyCalls
<1>1. ASSUME NEW r \in Proc, pc[r] \in CopyCalls PROVE Works(r, "corruption")
  BY <1>1 DEF Works, Doing, CopyCalls
<1> QED BY <1>1 DEF Alone

\* Steps that at most move the file of the path between its names, and leave the
\* contents as they are.
LEMMA ContentsElsewhere ==
  ASSUME Contents, recreated = 0, NEW p \in Proc, \A q \in Proc \ {p} : Undisturbed(q),
         mishaps' = 0 => mishaps = 0 /\ pc[p] # "copyWrite",
         Copying(p)',
         ent'["corruptionBackup"] = ent["corruptionBackup"],
         \A n \in Path : ent'[n] = None \/ \E m \in Path : ent'[n] = ent[m],
         \A n \in Path : Exists(n) => \E m \in Path : ent'[m] = ent[n],
         \A n \in Content : Exists(n) => ino'[ent[n]].data = ino[ent[n]].data
  PROVE  Contents'
<1>1. /\ Exists("corruptionBackup")' <=> Exists("corruptionBackup")
      /\ Exists("corruptionBackup")
           => At("corruptionBackup")'.data = At("corruptionBackup").data
  BY DEF Exists, At, Content
<1>2. ASSUME NEW n \in Path, Exists(n)'
      PROVE  \E m \in Path : Exists(m) /\ ent'[n] = ent[m] /\ At(n)'.data = At(m).data
  <2>1. PICK m \in Path : ent'[n] = ent[m] BY <1>2 DEF Exists
  <2>2. Exists(m) BY <1>2, <2>1 DEF Exists
  <2>3. m \in Content BY DEF Path, Content
  <2> QED BY <2>1, <2>2, <2>3 DEF At
<1>3. \E n \in Content : Exists(n)'
  <2>1. PICK n \in Content : Exists(n) BY DEF Contents
  <2>2. CASE n = "corruptionBackup" BY <1>1, <2>1, <2>2
  <2>3. CASE n \in Path
    <3>1. PICK m \in Path : ent'[m] = ent[n] BY <2>1, <2>3
    <3> QED BY <2>1, <3>1 DEF Exists, Path, Content
  <2> QED BY <2>2, <2>3 DEF Content, Path
<1>4. \A n \in Path : Whole(n)'
  BY <1>1, <1>2 DEF Contents, Whole
<1>5. WholeBackup'
  <2>1. WholeBackup BY DEF Contents
  <2>2. ASSUME mishaps' = 0, NEW q \in Proc, pc[q] = "copyWrite" PROVE pc'[q] = "copyWrite"
    BY <2>2 DEF Undisturbed
  <2> QED BY <1>1, <2>1, <2>2 DEF WholeBackup
<1>6. ASSUME NEW q \in Proc \ {p} PROVE Copying(q)'
  <2>1. Copying(q) /\ Undisturbed(q) BY DEF Contents
  <2>2. Held(src[q]) => Held(src[q])' /\ ino'[src[q]].data = ino[src[q]].data
    <3> SUFFICES ASSUME NEW n \in Path, Exists(n), ent[n] = src[q]
                 PROVE  Held(src[q])' /\ ino'[src[q]].data = ino[src[q]].data
      BY DEF Held
    <3>1. PICK m \in Path : ent'[m] = ent[n] OBVIOUS
    <3>2. src'[q] = src[q] BY <2>1 DEF Undisturbed
    <3> QED BY <3>1, <3>2 DEF Held, Exists, Path, Content
  <2>3. pc[q] \in {"open", "write"}
          => \A n \in Path : Exists(n)' => At("corruptionBackup")'.data = At(n)'.data
    BY <1>1, <1>2, <2>1 DEF Copying
  <2> QED BY <1>1, <2>1, <2>2, <2>3 DEF Copying, Undisturbed
<1> QED BY <1>3, <1>4, <1>5, <1>6 DEF Contents

LEMMA OpenKeepsContents ==
  ASSUME IInv, Contents, recreated = 0, NEW p \in Proc,
         \A q \in Proc \ {p} : Undisturbed(q), Opens(p)
  PROVE  Contents'
<1> USE Parts DEF Locals
<1>1. UNCHANGED disk /\ mishaps' = mishaps /\ pc[p] # "copyWrite"
  BY DEF Opens, CopyOpen, CopyStat, CorruptOpen, FindBackup, LooksIf, Goto, env
<1>2. Copying(p) BY DEF Contents
<1>3. Copying(p)'
  <2>1. CASE CopyOpen(p)
    <3>1. pc'[p] = "copyStat" /\ src'[p] = ent["file"] /\ Exists("file")
      BY <2>1 DEF CopyOpen, Good, Goto
    <3> QED BY <1>1, <3>1 DEF Copying, Held, Path, Exists, disk
  <2>2. CASE CopyStat(p)
    <3>1. /\ pc[p] = "copyStat" /\ pc'[p] = "copyCreate" /\ src' = src
          /\ ~Exists("corruptionBackup")
      BY <2>2 DEF CopyStat, LooksIf, Goto, locals
    <3> QED BY <1>1, <1>2, <3>1 DEF Copying, Held, Exists, disk
  <2>3. CASE CorruptOpen(p)
    <3>1. pc[p] = "open" /\ pc'[p] = "write" /\ src'[p] = ent["file"] /\ Exists("file")
      BY <2>3 DEF CorruptOpen, Goto, Writable
    <3> QED BY <1>1, <1>2, <3>1 DEF Copying, Held, Path, Exists, At, disk
  <2>4. CASE FindBackup(p)
    <3>1. pc'[p] = "remove" /\ Exists("corruptionBackup")
      BY <2>4 DEF FindBackup, LooksIf, Goto
    <3> QED BY <1>1, <3>1 DEF Copying, Exists, disk
  <2> QED BY <2>1, <2>2, <2>3, <2>4 DEF Opens
<1> QED BY <1>1, <1>3, ContentsElsewhere DEF disk

\* The calls of a copy, and the write that it is for.
LEMMA CopyKeepsContents ==
  ASSUME Alone("corruption"), IInv, OnePath, Contents, recreated = 0, NEW p \in Proc,
         \A q \in Proc \ {p} : Undisturbed(q), Copies(p)
  PROVE  Contents'
<1> USE Parts DEF Placed, Inodes, Locals
<1>1. Copying(p) /\ WholeBackup /\ \A n \in Path : Whole(n) BY DEF Contents
<1>2. pc[p] \in {"copyCreate", "copyWrite", "write"} /\ mishaps' = mishaps
  BY DEF Copies, CopyCreate, CopyWrite, CorruptWrite, Goto, Finishes, env
<1>3. \A q \in Proc \ {p} : Copying(q)'
  <2>1. \A q \in Proc \ {p} : pc[q] \notin CopyCalls BY <1>2, NobodyCopies DEF CopyCalls
  <2> QED BY <2>1 DEF Copying, CopyCalls, Undisturbed
<1>4. PICK n \in Path : Exists(n) /\ ent[n] = src[p]
  BY <1>1, <1>2 DEF Copying, Held
<1>5. /\ n \in Name \ {"corruptionBackup"}
      /\ \A m \in Path : Exists(m) => m = n
  BY <1>4 DEF OnePath, Path, Name
<1>6. ent[n] \in Ino BY <1>4, <1>5 DEF Exists
<1>7. CASE CopyCreate(p)
  <2>1. pc[p] = "copyCreate" /\ pc'[p] = "copyWrite" /\ src' = src
    BY <1>7 DEF CopyCreate, Goto
  <2>2. ~Exists("corruptionBackup") BY <1>1, <2>1 DEF Copying
  <2>3. Make("corruptionBackup", "partial") /\ out'[p] = NewIno BY <1>7, <2>2 DEF CopyCreate
  <2>4. /\ Exists("corruptionBackup")' /\ At("corruptionBackup")' = Fresh("partial")
        /\ ent'["corruptionBackup"] = NewIno
        /\ \A m \in Path : /\ ent'[m] = ent[m] /\ Exists(m)' = Exists(m)
                           /\ Exists(m) => At(m)' = At(m)
    BY <2>3, NewFile DEF Name, Path
  <2>5. At(n).data # "corrupt" BY <1>1, <1>4, <2>2 DEF Whole
  <2>6. Copying(p)'
    <3>1. Held(src[p])' BY <1>4, <2>1, <2>4 DEF Held
    <3>2. ino'[src[p]].data # "corrupt" BY <1>4, <2>4, <2>5 DEF At
    <3> QED BY <2>1, <2>3, <2>4, <3>1, <3>2 DEF Copying
  <2>7. At("corruptionBackup")'.data = "partial" BY <2>4 DEF Fresh
  <2>8. WholeBackup' BY <2>1, <2>7 DEF WholeBackup
  <2>9. \A m \in Path : Whole(m)' BY <1>1, <1>2, <2>4 DEF Whole
  <2>10. \E m \in Content : Exists(m)' BY <2>4 DEF Content
  <2> QED BY <1>3, <2>6, <2>8, <2>9, <2>10 DEF Contents
<1>8. CASE CopyWrite(p)
  <2>1. /\ pc[p] = "copyWrite" /\ pc'[p] = "open" /\ ent' = ent
        /\ ino' = [ino EXCEPT ![out[p]].data = ino[src[p]].data]
    BY <1>8 DEF CopyWrite, Goto
  <2>2. /\ Exists("corruptionBackup") /\ out[p] = ent["corruptionBackup"]
        /\ At(n).data # "corrupt"
    BY <1>1, <1>4, <2>1 DEF Copying, At
  <2>3. ent["corruptionBackup"] \in Ino /\ ent[n] # ent["corruptionBackup"]
    BY <1>4, <1>5, <2>2 DEF Apart, Exists, Name
  <2>4. /\ At(n)' = At(n)
        /\ At("corruptionBackup")'.data = At(n).data
        /\ \A m \in Name : Exists(m)' = Exists(m)
    BY <1>4, <1>6, <2>1, <2>2, <2>3 DEF At, Exists
  <2>5. At(n).data \in {"original", "partial"} /\ (mishaps = 0 => At(n).data # "partial")
    BY <1>1, <1>4, <2>2 DEF Whole
  <2>6. \A m \in Path : Exists(m)' => m = n BY <1>5, <2>4 DEF Path, Name
  <2>7. Copying(p)' BY <2>1, <2>2, <2>4, <2>6 DEF Copying, Name
  <2>8. WholeBackup' BY <1>2, <2>4, <2>5 DEF WholeBackup
  <2>9. \A m \in Path : Whole(m)'
    BY <1>2, <2>4, <2>5, <2>6 DEF Whole
  <2>10. \E m \in Content : Exists(m)' BY <2>2, <2>4 DEF Content, Name
  <2> QED BY <1>3, <2>7, <2>8, <2>9, <2>10 DEF Contents
<1>9. CASE CorruptWrite(p)
  <2>1. /\ pc[p] = "write" /\ pc'[p] = "idle" /\ ent' = ent
        /\ ino' = [ino EXCEPT ![src[p]].data = "corrupt"]
    BY <1>9 DEF CorruptWrite, Finishes, End
  <2>2. Exists("corruptionBackup") /\ At("corruptionBackup").data = At(n).data
    BY <1>1, <1>4, <2>1 DEF Copying
  <2>3. ent["corruptionBackup"] \in Ino /\ ent[n] # ent["corruptionBackup"]
    BY <1>4, <1>5, <2>2 DEF Apart, Exists, Name
  <2>4. /\ At(n)'.data = "corrupt"
        /\ At("corruptionBackup")'.data = At("corruptionBackup").data
        /\ \A m \in Name : Exists(m)' = Exists(m)
    BY <1>4, <1>6, <2>1, <2>3 DEF At, Exists
  <2>5. mishaps = 0 => At("corruptionBackup").data # "partial"
    BY <1>1, <1>4, <2>2 DEF Whole
  <2>6. Copying(p)' BY <2>1 DEF Copying
  <2>7. WholeBackup' BY <1>1, <1>2, <2>2, <2>4, <2>5 DEF WholeBackup
  <2>8. \A m \in Path : Whole(m)'
    <3>1. \A m \in Path : Exists(m)' => m = n BY <1>5, <2>4 DEF Path, Name
    <3> QED BY <2>2, <2>4, <3>1 DEF Whole, Name
  <2>9. \E m \in Content : Exists(m)' BY <2>2, <2>4 DEF Content, Name
  <2> QED BY <1>3, <2>6, <2>7, <2>8, <2>9 DEF Contents
<1> QED BY <1>7, <1>8, <1>9 DEF Copies

LEMMA RepairKeepsContents ==
  ASSUME Alone("corruption"), IInv, OnePath, Contents, recreated = 0, NEW p \in Proc,
         \A q \in Proc \ {p} : Undisturbed(q), Repairs(p)
  PROVE  Contents'
<1> USE Parts DEF Placed, Locals
<1>1. Copying(p) /\ WholeBackup /\ \A n \in Path : Whole(n) BY DEF Contents
<1>2. pc[p] \in {"remove", "mv"} /\ mishaps' = mishaps /\ ino' = ino
  BY DEF Repairs, RepairRemove, RepairMv, Rename, Goto, Finishes, env
<1>3. \A q \in Proc \ {p} : pc[q] \notin CopyCalls BY <1>2, NobodyCopies DEF CopyCalls
<1>4. \A q \in Proc \ {p} : Copying(q)' BY <1>3 DEF Copying, CopyCalls, Undisturbed
<1>5. mishaps = 0 /\ Exists("corruptionBackup") => At("corruptionBackup").data # "partial"
  <2>1. \A q \in Proc : pc[q] # "copyWrite" BY <1>2, <1>3 DEF CopyCalls
  <2> QED BY <1>1, <2>1 DEF WholeBackup
<1>6. Exists("corruptionBackup") BY <1>1, <1>2 DEF Copying
<1>7. CASE RepairRemove(p)
  <2>1. /\ pc'[p] = "mv" /\ ent'["file"] = None
        /\ \A n \in Name \ {"file"} : ent'[n] = ent[n]
    BY <1>7 DEF RepairRemove, Goto, Name
  <2>2. Exists("corruptionBackup")' /\ At("corruptionBackup")' = At("corruptionBackup")
    BY <1>2, <1>6, <2>1 DEF Exists, At, Name
  <2>3. \A n \in Path : Exists(n)' => Exists(n) /\ At(n)' = At(n)
    BY <1>2, <2>1 DEF Exists, At, Path, Name
  <2>4. \A n \in Path : Whole(n)' BY <1>1, <1>2, <2>2, <2>3 DEF Whole
  <2>5. WholeBackup' BY <1>1, <1>2, <1>5, <1>6, <2>2 DEF WholeBackup
  <2>6. Copying(p)' BY <2>1, <2>2 DEF Copying
  <2> QED BY <1>4, <2>2, <2>4, <2>5, <2>6 DEF Contents, Content
<1>8. CASE RepairMv(p)
  <2>1. /\ pc[p] = "mv" /\ pc'[p] = "idle"
        /\ ent'["file"] = ent["corruptionBackup"] /\ ent'["corruptionBackup"] = None
        /\ ent'["lostBackup"] = ent["lostBackup"]
    BY <1>8 DEF RepairMv, Finishes, End, Rename, Name
  <2>2. /\ Exists("file")' /\ At("file")' = At("corruptionBackup")
        /\ ~Exists("corruptionBackup")' /\ ~Exists("lostBackup")'
    BY <1>2, <1>6, <2>1 DEF OnePath, Path, Exists, At
  <2>3. Whole("file")' BY <1>1, <1>2, <1>5, <1>6, <2>2 DEF Whole, WholeBackup
  <2>4. Whole("lostBackup")' BY <2>2 DEF Whole
  <2>5. WholeBackup' BY <2>2 DEF WholeBackup
  <2>6. Copying(p)' BY <2>1 DEF Copying
  <2> QED BY <1>4, <2>2, <2>3, <2>4, <2>5, <2>6 DEF Contents, Content, Path
<1> QED BY <1>7, <1>8 DEF Repairs

\* The other faults do not touch the contents, whatever overlaps with them.
LEMMA OthersKeepContents ==
  ASSUME IInv, Descriptors, OnePath, Contents, recreated = 0, NEW p \in Proc,
         \A q \in Proc \ {p} : Undisturbed(q),
         Quiet(p) \/ Loses(p) \/ Flags(p) \/ Strips(p) \/ Restores(p)
  PROVE  Contents'
<1> USE Parts DEF Placed, Inodes, Locals
<1>1. pc'[p] \notin CopyCalls
  BY DEF Quiet, Critical, Loses, Flags, Strips, Restores, LostRename, UnlostRename, SetAttr,
         UnsetAttr, Unexecutes, OpenAttr, WriteAttr, ChmodOff, ReadAttr, ChmodBack, DropAttr,
         Goto, Finishes, End, CopyCalls
<1>2. mishaps' = 0 => mishaps = 0 /\ pc[p] # "copyWrite"
  BY DEF Quiet, Loses, Flags, Strips, Restores, LostRename, UnlostRename, SetAttr,
         UnsetAttr, Unexecutes, OpenAttr, WriteAttr, ChmodOff, ReadAttr, ChmodBack, DropAttr,
         Goto, Finishes, env
<1>3. Copying(p)' BY <1>1 DEF Copying, CopyCalls
<1>4. ASSUME \A n \in Content : ent'[n] = ent[n],
             \A n \in Content : Exists(n) => ino'[ent[n]].data = ino[ent[n]].data
      PROVE  Contents'
  <2>1. /\ ent'["corruptionBackup"] = ent["corruptionBackup"]
        /\ \A n \in Path : ent'[n] = None \/ \E m \in Path : ent'[n] = ent[m]
        /\ \A n \in Path : Exists(n) => \E m \in Path : ent'[m] = ent[n]
    BY <1>4 DEF Content, Path
  <2> QED BY <1>2, <1>3, <1>4, <2>1, ContentsElsewhere
<1>5. CASE UNCHANGED disk BY <1>4, <1>5 DEF disk
<1>6. CASE Quiet(p) \/ Unexecutes(p) \/ ReadAttr(p)
  BY <1>5, <1>6 DEF Quiet, Unexecutes, ReadAttr
<1>7. CASE Loses(p)
  <2>1. /\ ino' = ino /\ ent'["corruptionBackup"] = ent["corruptionBackup"]
        /\ \/ /\ Exists("file")
              /\ ent'["lostBackup"] = ent["file"] /\ ent'["file"] = None
           \/ /\ Exists("lostBackup")
              /\ ent'["file"] = ent["lostBackup"] /\ ent'["lostBackup"] = None
    BY <1>7 DEF Loses, LostRename, UnlostRename, CanRename, Writable, Rename, Name
  <2>2. ~(Exists("file") /\ Exists("lostBackup")) BY DEF OnePath
  <2>3. /\ \A n \in Path : ent'[n] = None \/ \E m \in Path : ent'[n] = ent[m]
        /\ \A n \in Path : Exists(n) => \E m \in Path : ent'[m] = ent[n]
    BY <2>1, <2>2 DEF Path
  <2> QED BY <1>2, <1>3, <2>1, <2>3, ContentsElsewhere
<1>8. CASE Flags(p) \/ ChmodOff(p) \/ ChmodBack(p)
  <2>1. ent' = ent BY <1>8 DEF Flags, SetAttr, UnsetAttr, ChmodOff, ChmodBack
  <2>2. \A i \in Ino : ino'[i].data = ino[i].data
    BY <1>8 DEF Flags, SetAttr, UnsetAttr, SetBit, UnsetBit, ChmodOff, ChmodBack
  <2> QED BY <1>4, <2>1, <2>2 DEF Exists, Content, Name
<1>9. CASE DropAttr(p)
  BY <1>4, <1>9 DEF DropAttr, Content, Name
<1>10. CASE WriteAttr(p)
  <2>1. /\ pc[p] = "writeAttr" /\ ent' = ent
        /\ ino' = [ino EXCEPT ![out[p]].data = Perm(mode[p])]
    BY <1>10 DEF WriteAttr, Goto
  <2>2. \A n \in Content : ent[n] # out[p] BY <2>1 DEF Descriptors
  <2>3. \A n \in Content : Exists(n) => ino'[ent[n]].data = ino[ent[n]].data
    BY <2>1, <2>2 DEF Exists, Content, Name
  <2> QED BY <1>4, <2>1, <2>3
<1>11. CASE OpenAttr(p)
  <2>1. CASE Exists("attrBackup")
    BY <1>5, <1>11, <2>1 DEF OpenAttr
  <2>2. CASE ~Exists("attrBackup")
    <3>1. Make("attrBackup", "partial") BY <1>11, <2>2 DEF OpenAttr
    <3>2. \A m \in Content : ent'[m] = ent[m] /\ (Exists(m) => At(m)' = At(m))
      BY <3>1, NewFile DEF Content, Name
    <3> QED BY <1>4, <3>2 DEF At
  <2> QED BY <2>1, <2>2
<1> QED BY <1>6, <1>7, <1>8, <1>9, <1>10, <1>11 DEF Strips, Restores

LEMMA ContentsKeeps ==
  ASSUME Alone("corruption"), IInv, Descriptors, OnePath, Contents, [Next]_vars
  PROVE  Contents'
<1>1. CASE UNCHANGED vars
  BY <1>1 DEF vars, disk, locals, env, Contents, Whole, WholeBackup, Copying, Held, Exists, At
<1>2. CASE Recreate
  BY <1>2, Parts DEF Recreate, Counted, Contents
<1>3. ASSUME NEW p \in Proc, Steps(p) PROVE Contents'
  <2>1. \A q \in Proc \ {p} : Undisturbed(q) BY <1>3, Others, Parts
  <2>2. CASE recreated # 0 BY <1>3, <2>2, SameRecreated DEF Contents
  <2>3. CASE recreated = 0
    BY <1>3, <2>1, <2>3, StepKinds, OpenKeepsContents, CopyKeepsContents,
       RepairKeepsContents, OthersKeepContents
  <2> QED BY <2>2, <2>3
<1> QED BY <1>1, <1>2, <1>3 DEF Next, Steps

LEMMA InitContents == Init => Contents
<1> SUFFICES ASSUME Init PROVE Contents OBVIOUS
<1>1. PICK i \in {CHOOSE j \in Ino : TRUE}, k \in Kinds, m \in Modes :
        /\ ent = [n \in Name |-> IF n = "file" THEN i ELSE None]
        /\ ino = [j \in Ino |->
                    IF j = i THEN [Fresh("original") EXCEPT !.kind = k, !.mode = m]
                    ELSE Fresh("other")]
  BY DEF Init
<1>2. i \in Ino /\ i # None BY FileAssumption
<1>3. ino[i].data = "original" BY <1>1, <1>2 DEF Fresh
<1>4. \A p \in Proc : pc[p] = "idle" BY DEF Init
<1>5. /\ Exists("file") /\ At("file").data = "original"
      /\ ~Exists("lostBackup") /\ ~Exists("corruptionBackup")
  BY <1>1, <1>2, <1>3 DEF Exists, At, Name
<1>6. \A p \in Proc : Copying(p) BY <1>4 DEF Copying
<1> QED BY <1>5, <1>6 DEF Contents, Content, Path, Whole, WholeBackup

\* Wherever Contents holds, the content of an intact path is at one of the names.
LEMMA ContentsSurvive ==
  ASSUME OnePath, Contents
  PROVE  OriginalSurvives /\ CleanMeansOriginal
<1> SUFFICES ASSUME Intact PROVE OriginalSurvives /\ CleanMeansOriginal
  BY DEF OriginalSurvives, CleanMeansOriginal
<1>1. /\ \E n \in Content : Exists(n)
      /\ \A n \in Path : Whole(n)
      /\ WholeBackup /\ \A p \in Proc : Copying(p)
  BY DEF Intact, Contents
<1>2. \E n \in Content : Exists(n) /\ At(n).data = "original"
  <2>1. CASE Exists("corruptionBackup") /\ At("corruptionBackup").data = "original"
    BY <2>1 DEF Content
  <2>2. CASE ~Exists("corruptionBackup")
    <3>1. PICK n \in Path : Exists(n) BY <1>1, <2>2 DEF Content, Path
    <3>2. At(n).data # "corrupt" BY <1>1, <2>2, <3>1 DEF Whole
    <3>3. At(n).data # "partial" BY <1>1, <3>1 DEF Whole, Intact, Path, Content
    <3> QED BY <1>1, <3>1, <3>2, <3>3 DEF Whole, Path, Content
  <2>3. CASE Exists("corruptionBackup") /\ At("corruptionBackup").data = "partial"
    <3>1. mishaps = 0 BY <2>3 DEF Intact, Content
    <3>2. PICK p \in Proc : pc[p] = "copyWrite" BY <1>1, <2>3, <3>1 DEF WholeBackup
    <3>3. PICK n \in Path : Exists(n) /\ ent[n] = src[p] /\ At(n).data # "corrupt"
      BY <1>1, <3>2 DEF Copying, Held, At
    <3> QED BY <1>1, <3>1, <3>3 DEF Whole, Path, Content
  <2> QED BY <1>1, <2>1, <2>2, <2>3 DEF WholeBackup
<1>3. NoBackups => Exists("file") /\ At("file").data = "original"
  BY <1>2 DEF NoBackups, Content, Name
<1> QED BY <1>2, <1>3 DEF OriginalSurvives, CleanMeansOriginal

\* While no two invocations of file-corruption overlap, whatever else does: no order
\* of injections and removals, killed anywhere but inside a copy, loses the content
\* the path had.
THEOREM ContentSurvives ==
  Spec /\ []Alone("corruption") => []OriginalSurvives
<1>1. IInv /\ Descriptors /\ [Next]_vars => Descriptors' BY DescriptorsKeep
<1>2. IInv /\ OnePath /\ [Next]_vars => OnePath' BY OnePathKeeps
<1>3. Alone("corruption") /\ IInv /\ Descriptors /\ OnePath /\ Contents /\ [Next]_vars
        => Contents'
  BY ContentsKeeps
<1>4. OnePath /\ Contents => OriginalSurvives BY ContentsSurvive
<1> QED BY InitHolds, InitKept, InitContents, NextKeeps, <1>1, <1>2, <1>3, <1>4, PTL DEF Spec

\* Under the same condition: once no fault has a backup left and nobody is at work,
\* the path is there with its own content.
THEOREM CleanIsOriginal ==
  Spec /\ []Alone("corruption") => []CleanMeansOriginal
<1>1. IInv /\ Descriptors /\ [Next]_vars => Descriptors' BY DescriptorsKeep
<1>2. IInv /\ OnePath /\ [Next]_vars => OnePath' BY OnePathKeeps
<1>3. Alone("corruption") /\ IInv /\ Descriptors /\ OnePath /\ Contents /\ [Next]_vars
        => Contents'
  BY ContentsKeeps
<1>4. OnePath /\ Contents => CleanMeansOriginal BY ContentsSurvive
<1> QED BY InitHolds, InitKept, InitContents, NextKeeps, <1>1, <1>2, <1>3, <1>4, PTL DEF Spec

\* And while nobody makes the path anew either, no byte of it is corrupted before its
\* backup is whole, though other faults may move it between the copy and the write.
THEOREM WriteAheadAmongOthers ==
  Spec /\ [](Alone("corruption") /\ recreated = 0) => BackedUpFirst
<1> DEFINE First == \A i \in Ino :
              ent["file"] = i /\ ino[i].data # "corrupt" /\ ino'[i].data = "corrupt"
                => Exists("corruptionBackup") /\ At("corruptionBackup").data = ino[i].data
           Calm  == Alone("corruption") /\ recreated = 0
<1>1. IInv /\ Descriptors /\ [Next]_vars => Descriptors' BY DescriptorsKeep
<1>2. IInv /\ OnePath /\ [Next]_vars => OnePath' BY OnePathKeeps
<1>3. Calm /\ IInv /\ Descriptors /\ OnePath /\ Contents /\ [Next]_vars => Contents'
  BY ContentsKeeps
<1>4. ASSUME Calm, IInv, Contents, [Next]_vars PROVE First
  <2> SUFFICES ASSUME NEW i \in Ino, ent["file"] = i, ino[i].data # "corrupt",
                      ino'[i].data = "corrupt"
               PROVE  Exists("corruptionBackup") /\ At("corruptionBackup").data = ino[i].data
    OBVIOUS
  <2>1. Exists("file") BY FileAssumption DEF Exists
  <2>2. \A p \in Proc : Copying(p) BY <1>4 DEF Contents
  <2>3. \A p \in Proc : pc[p] = "copyWrite" => out[p] # ent["file"]
    BY <1>4, <2>1, <2>2, Parts DEF Copying, Placed, Apart, Exists, Name
  <2>4. PICK p \in Proc : CorruptWrite(p)
    BY <1>4, <2>1, <2>3, OnlyWriteCorrupts DEF At
  <2>5. pc[p] = "write" BY <2>4 DEF CorruptWrite, Finishes
  <2> QED BY <2>1, <2>2, <2>5 DEF Copying, Path, At
<1>5. Calm /\ IInv /\ Contents /\ [Next]_vars => [First]_vars BY <1>4
<1> QED BY InitHolds, InitKept, InitContents, NextKeeps, <1>1, <1>2, <1>3, <1>5, PTL
        DEF Spec, BackedUpFirst
--------------------------------------------------------------------------------
\* CorruptionRange: the places FaultInject can be at.
Place == {"space", "offset", "end", "backup", "open", "seek", "random", "write",
          "refused", "outside", "failed", "written"}

\* What has been checked by the time FaultInject is where it is.
Checked ==
  /\ stage \in Place
  /\ size \in 0..MaxSize /\ grown = size
  /\ avail \in Int /\ offset \in Int64 /\ length \in Int64
  /\ stage \in {"end", "backup", "open", "seek", "random", "write", "written"} => offset < size
  /\ stage \in {"backup", "open", "seek", "random", "write", "written"}
       => Wrap(length + offset) < size
  /\ stage \in {"random", "write", "written"} => 0 <= offset
  /\ stage \in {"write", "written"} => length \in 0..MaxAlloc
  /\ stage \in {"refused", "outside"} => backedUp = FALSE
  /\ stage \in {"space", "offset", "end", "backup"} => backedUp = FALSE
  /\ stage = "failed" => ~InRange \/ broken

\* The sum of an offset inside the file and a length that can be allocated does
\* not wrap around.
LEMMA SumFits ==
  ASSUME NEW s \in 0..MaxSize, NEW o \in Int, 0 <= o, o < s, NEW l \in 0..MaxAlloc
  PROVE  Wrap(l + o) = o + l
BY RangeAssumption DEF Wrap

\* Every step keeps what has been checked.
THEOREM CheckedHolds == RangeSpec => []Checked
<1>1. RangeInit => Checked
  BY RangeAssumption DEF RangeInit, Checked, Place, Int64
<1>2. Checked /\ [RangeNext]_rangeVars => Checked'
  <2> SUFFICES ASSUME Checked, [RangeNext]_rangeVars PROVE Checked'
    OBVIOUS
  <2> USE RangeAssumption DEF Checked, Place, Proceed, input, InRange, Int64
  <2>1. CASE CheckSpace
    BY <2>1 DEF CheckSpace
  <2>2. CASE CheckOffset
    BY <2>2 DEF CheckOffset
  <2>3. CASE CheckEnd
    <3>1. Wrap(length + offset) \in Int
      BY DEF Wrap
    <3> QED
      BY <2>3, <3>1 DEF CheckEnd
  <2>4. CASE Backup
    BY <2>4 DEF Backup
  <2>5. CASE Seek
    BY <2>5 DEF Seek
  <2>6. CASE Random
    BY <2>6 DEF Random
  <2>7. CASE Write \/ WriteFails
    <3>1. PICK n \in 0..length : Written(n)
      BY <2>7 DEF Write, WriteFails, CallFails
    <3>2. stage = "write"
      BY <2>7 DEF Write, WriteFails, CallFails
    <3>3. offset + length < size
      <4>1. Wrap(length + offset) = offset + length
        BY <3>2, SumFits
      <4> QED
        BY <3>2, <4>1
    <3>4. grown' = grown /\ backedUp' = backedUp
      BY <3>1, <3>2, <3>3 DEF Written
    <3>5. CASE Write
      BY <3>4, <3>5 DEF Write
    <3>6. CASE WriteFails
      BY <3>4, <3>6 DEF WriteFails, CallFails
    <3> QED
      BY <2>7, <3>5, <3>6
  <2>8. CASE UNCHANGED rangeVars
    BY <2>8 DEF rangeVars
  <2>9. CASE Open
    BY <2>9 DEF Open
  <2>10. CASE BackupFails \/ OpenFails
    BY <2>10 DEF BackupFails, OpenFails, CallFails
  <2> QED
    BY <2>1, <2>2, <2>3, <2>4, <2>5, <2>6, <2>7, <2>8, <2>9, <2>10 DEF RangeNext, Ended
<1> QED
  BY <1>1, <1>2, PTL DEF RangeSpec

\* A corruption never writes outside the file, for any two integers of any width.
THEOREM RangeSafe == RangeSpec => []WritesInside
<1>1. Checked => WritesInside
  <2> SUFFICES ASSUME Checked PROVE WritesInside
    OBVIOUS
  <2>1. ASSUME stage \in {"write", "written"}
        PROVE  0 <= offset /\ 0 <= length /\ offset + length < size
    <3>1. Wrap(length + offset) = offset + length
      BY <2>1, SumFits, RangeAssumption DEF Checked, Int64
    <3> QED
      BY <2>1, <3>1, RangeAssumption DEF Checked
  <2> QED
    BY <2>1 DEF Checked, WritesInside
<1> QED
  BY <1>1, CheckedHolds, PTL

\* A request inside the file that ends without its corruption leaves a backup
\* behind only where a system call has failed.
THEOREM NoBackupLeft == RangeSpec => []NoStrayBackup
<1>1. Checked => NoStrayBackup
  BY DEF Checked, NoStrayBackup
<1> QED
  BY <1>1, CheckedHolds, PTL
================================================================================

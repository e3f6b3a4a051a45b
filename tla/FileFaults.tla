------------------------------- MODULE FileFaults -------------------------------
(***************************************************************************)
(* The file faults on one path: file-lost, file-corruption, file-readonly  *)
(* and file-unexecuted, inject and remove.  An invocation is a sequence of *)
(* system calls; it may fail or be killed at each of them, and leaves in   *)
(* the directory whatever it had done by then.  The only memory between an *)
(* injection and its removal is the backup file each fault keeps beside    *)
(* the path.                                                               *)
(*                                                                         *)
(* Abstracted: contents to what the properties tell apart, permissions to  *)
(* three classes, attribute words to the immutable bit.  The backup of a   *)
(* corruption is on the file system of the path, as without --backup-path. *)
(***************************************************************************)
EXTENDS Integers, FiniteSets, Functions

CONSTANTS
  Proc,         \* slots for invocations at work at the same time
  Ino,          \* inodes; their number is a bound
  None,         \* no inode, no permissions
  Ops,          \* operations that are invoked
  Kinds,        \* what the path may be at the start: "file", "dir"
  Modes,        \* permissions it may have at the start
  MaxMishaps,   \* bound: invocations killed, and copies that fail half way
  MaxRecreated  \* bound: times another program makes the missing file anew

AllOps == {"lost-inject", "lost-remove", "corruption-inject", "corruption-remove",
           "readonly-inject", "readonly-remove",
           "unexecuted-inject", "unexecuted-remove"}
Name   == {"file", "lostBackup", "corruptionBackup", "attrBackup"}
Data   == {"original", "corrupt", "partial", "other"}
\* Made without any execute bit; with one; with one and setuid, setgid or sticky;
\* and with its execute bits taken off since.
Mode   == {"plain", "exec", "special", "stripped"}

ASSUME FileAssumption ==
  /\ IsFiniteSet(Proc) /\ IsFiniteSet(Ino)
  /\ Ino # {} /\ None \notin Ino \cup Mode
  /\ Ops \subseteq AllOps
  /\ Kinds \subseteq {"file", "dir"} /\ Modes \subseteq Mode \ {"stripped"}
  /\ MaxMishaps \in Nat /\ MaxRecreated \in Nat

VARIABLES
  ent,       \* directory: name -> inode or None
  ino,       \* inode -> what it is and holds
  pc,        \* where each invocation is
  src,       \* inode each invocation holds open: to read, corrupt, or flag
  out,       \* inode each invocation holds open to write a backup
  mode,      \* permissions each invocation has read
  mishaps, recreated

disk   == <<ent, ino>>
locals == <<src, out, mode>>
env    == <<mishaps, recreated>>
vars   == <<disk, pc, locals, env>>

Label == {"idle", "lostStat", "lostRename", "unlostStat", "unlostRename",
          "check", "copyOpen", "copyStat", "copyCreate", "copyWrite", "open",
          "write", "findBackup", "remove", "mv", "openSet", "setAttr", "openUnset",
          "unsetAttr", "openAttr", "writeAttr", "chmodOff", "readAttr", "chmodBack",
          "dropAttr", "corruption-inject", "corruption-remove", "readonly-inject",
          "readonly-remove", "unexecuted-inject", "unexecuted-remove"}

Exists(n)   == ent[n] # None
At(n)       == ino[ent[n]]
Writable(n) == Exists(n) /\ ~At(n).imm
InUse       == Range(ent) \cup Range(src) \cup Range(out)
NewIno      == CHOOSE i \in Ino : i \notin InUse

Fresh(d) == [kind |-> "file", data |-> d, mode |-> "plain", imm |-> FALSE]
Make(n, d) == /\ ~(Ino \subseteq InUse)
              /\ ent' = [ent EXCEPT ![n] = NewIno]
              /\ ino' = [ino EXCEPT ![NewIno] = Fresh(d)]

Goto(p, from, to) ==
  pc[p] = from /\ pc' = [pc EXCEPT ![p] = to] /\ UNCHANGED env

\* An invocation ends, whichever way: its descriptors are closed.
End(p) ==
  /\ pc' = [pc EXCEPT ![p] = "idle"]
  /\ src' = [src EXCEPT ![p] = None]
  /\ out' = [out EXCEPT ![p] = None]
  /\ mode' = [mode EXCEPT ![p] = None]

\* A system call that ends the invocation with an error.
FailsIf(p, at, cond) ==
  /\ pc[p] \in at /\ cond
  /\ End(p)
  /\ UNCHANGED <<disk, env>>
\* One that fails half way.
Breaks(p, at) ==
  /\ pc[p] = at /\ mishaps < MaxMishaps
  /\ mishaps' = mishaps + 1
  /\ End(p)
  /\ UNCHANGED <<disk, recreated>>
\* One that only looks, and goes on.
LooksIf(p, from, to, cond) ==
  Goto(p, from, to) /\ cond /\ UNCHANGED <<disk, locals>>
\* The last one.
Finishes(p, from) == pc[p] = from /\ End(p) /\ UNCHANGED env

Rename(from, to) ==
  ent' = [ent EXCEPT ![to] = ent[from], ![from] = None] /\ UNCHANGED ino
CanRename(from, to) ==
  /\ Writable(from)
  /\ Exists(to) => Writable(to) /\ At(to).kind = At(from).kind
--------------------------------------------------------------------------------
Init ==
  /\ \E i \in {CHOOSE j \in Ino : TRUE}, k \in Kinds, m \in Modes :
       /\ ent = [n \in Name |-> IF n = "file" THEN i ELSE None]
       /\ ino = [j \in Ino |->
                   IF j = i THEN [Fresh("original") EXCEPT !.kind = k, !.mode = m]
                   ELSE Fresh("other")]
  /\ pc = [p \in Proc |-> "idle"]
  /\ src = [p \in Proc |-> None] /\ out = [p \in Proc |-> None]
  /\ mode = [p \in Proc |-> None]
  /\ mishaps = 0 /\ recreated = 0

Start(p, op) ==
  /\ Goto(p, "idle", CASE op = "lost-inject" -> "lostStat"
                       [] op = "lost-remove" -> "unlostStat"
                       [] OTHER              -> op)
  /\ UNCHANGED <<disk, locals>>

\* getFilePathAndCheck, in the Prepare of all faults but lost.
Prepared == {"corruption-inject", "corruption-remove", "readonly-inject",
             "readonly-remove", "unexecuted-inject", "unexecuted-remove"}
Good == Exists("file") /\ At("file").kind = "file"
PrepareFails(p) == FailsIf(p, Prepared, ~Good)
--------------------------------------------------------------------------------
\* file-lost: the path is renamed to its backup and back.
LostStat(p)   == LooksIf(p, "lostStat", "lostRename", Exists("file"))
LostRename(p) ==
  /\ CanRename("file", "lostBackup")
  /\ Finishes(p, "lostRename")
  /\ Rename("file", "lostBackup")
LostFails(p) ==
  \/ FailsIf(p, {"lostStat"}, ~Exists("file"))
  \/ FailsIf(p, {"lostRename"}, ~CanRename("file", "lostBackup"))

UnlostStat(p)   == LooksIf(p, "unlostStat", "unlostRename", Exists("lostBackup"))
\* Mutant: the removal deletes the backup instead of moving it back.
UnlostRenameDeletes(p) ==
  /\ CanRename("lostBackup", "file")
  /\ Finishes(p, "unlostRename")
  /\ ent' = [ent EXCEPT !["lostBackup"] = None] /\ UNCHANGED ino
UnlostRename(p) ==
  /\ CanRename("lostBackup", "file")
  /\ Finishes(p, "unlostRename")
  /\ Rename("lostBackup", "file")
UnlostFails(p) ==
  \/ FailsIf(p, {"unlostStat"}, ~Exists("lostBackup"))
  \/ FailsIf(p, {"unlostRename"}, ~CanRename("lostBackup", "file"))
--------------------------------------------------------------------------------
\* corruption.FaultInject: the checks of size, space, offset and length, of
\* which any may refuse; the copy of fileCopy; the random bytes.
CorruptPrepare(p) == LooksIf(p, "corruption-inject", "check", Good)
CorruptCheck(p)   == LooksIf(p, "check", "copyOpen", Exists("file"))
\* Mutant: the errors of os.Stat and os.Open on the path are not looked at.
CopyOpenUnchecked(p) ==
  /\ Goto(p, "copyOpen", "copyStat")
  /\ src' = [src EXCEPT ![p] = ent["file"]]
  /\ UNCHANGED <<disk, out, mode>>
CopyOpen(p) ==
  /\ Good
  /\ Goto(p, "copyOpen", "copyStat")
  /\ src' = [src EXCEPT ![p] = ent["file"]]
  /\ UNCHANGED <<disk, out, mode>>
CopyStat(p) == LooksIf(p, "copyStat", "copyCreate", ~Exists("corruptionBackup"))

\* os.Create: made, or truncated when it has appeared since.
CopyCreate(p) ==
  /\ Goto(p, "copyCreate", "copyWrite")
  /\ \/ /\ ~Exists("corruptionBackup")
        /\ Make("corruptionBackup", "partial")
        /\ out' = [out EXCEPT ![p] = NewIno]
     \/ /\ Exists("corruptionBackup")
        /\ ino' = [ino EXCEPT ![ent["corruptionBackup"]].data = "partial"]
        /\ out' = [out EXCEPT ![p] = ent["corruptionBackup"]]
        /\ UNCHANGED ent
  /\ UNCHANGED <<src, mode>>

\* io.Copy runs to its end.
CopyWrite(p) ==
  /\ Goto(p, "copyWrite", "open")
  /\ ino' = [ino EXCEPT ![out[p]].data = ino[src[p]].data]
  /\ src' = [src EXCEPT ![p] = None] /\ out' = [out EXCEPT ![p] = None]
  /\ UNCHANGED <<ent, mode>>

CorruptOpen(p) ==
  /\ Good /\ Writable("file")
  /\ Goto(p, "open", "write")
  /\ src' = [src EXCEPT ![p] = ent["file"]]
  /\ UNCHANGED <<disk, out, mode>>
CorruptWrite(p) ==
  /\ Finishes(p, "write")
  /\ ~ino[src[p]].imm
  /\ ino' = [ino EXCEPT ![src[p]].data = "corrupt"]
  /\ UNCHANGED ent

\* Mutant: a copy that fails because the backup is there is not an error.
CorruptFailsOn(p) ==
  \/ FailsIf(p, {"check"}, TRUE)
  \/ FailsIf(p, {"copyOpen", "open"}, ~Good)
  \/ LooksIf(p, "copyStat", "open", Exists("corruptionBackup"))
  \/ Breaks(p, "copyWrite")
  \/ FailsIf(p, {"open"}, ~Writable("file"))
  \/ FailsIf(p, {"write"}, TRUE)

\* The checks may refuse; the path may be gone, or have become a directory, which
\* is not copied nor opened to write; a copy may fail half way; so may a negative
\* offset (Seek) or an error of write.
CorruptFails(p) ==
  \/ FailsIf(p, {"check"}, TRUE)
  \/ FailsIf(p, {"copyOpen", "open"}, ~Good)
  \/ FailsIf(p, {"copyStat"}, Exists("corruptionBackup"))
  \/ Breaks(p, "copyWrite")
  \/ FailsIf(p, {"open"}, ~Writable("file"))
  \/ FailsIf(p, {"write"}, TRUE)

\* corruption.FaultRemove: delete the corrupted file, then mv its backup there.
\* A directory that has come to the path is not empty, and os.Remove refuses it.
RepairPrepare(p) == LooksIf(p, "corruption-remove", "findBackup", Good)
\* Mutant: the corrupted file is deleted whether or not there is a backup.
FindBackupSkipped(p) == LooksIf(p, "findBackup", "remove", TRUE)
FindBackup(p)    == LooksIf(p, "findBackup", "remove", Exists("corruptionBackup"))
RepairRemove(p) ==
  /\ Good /\ Writable("file")
  /\ Goto(p, "remove", "mv")
  /\ ent' = [ent EXCEPT !["file"] = None]
  /\ UNCHANGED <<ino, locals>>
RepairMv(p) ==
  /\ CanRename("corruptionBackup", "file")
  /\ Finishes(p, "mv")
  /\ Rename("corruptionBackup", "file")
RepairFails(p) ==
  \/ FailsIf(p, {"findBackup"}, ~Exists("corruptionBackup"))
  \/ FailsIf(p, {"remove"}, ~(Good /\ Writable("file")))
  \/ FailsIf(p, {"mv"}, ~CanRename("corruptionBackup", "file"))
--------------------------------------------------------------------------------
\* file-readonly: the immutable bit, set unless Prepare saw it set already, and
\* cleared without looking.  The bit goes to the inode that was opened, whatever
\* name it has by then.  FS_IOC_GETFLAGS and FS_IOC_SETFLAGS are one step: of the
\* word that goes from one to the other only the bit written is modelled.
BitIsSet(i) == ino[i].imm
SetBit(i)   == ino' = [ino EXCEPT ![i].imm = TRUE]
\* Mutant: attrs ^= attr, without the mask.
UnsetBitFlips(i) == ino' = [ino EXCEPT ![i].imm = ~@]
UnsetBit(i) == ino' = [ino EXCEPT ![i].imm = FALSE]

ReadonlyPrepare(p) ==
  \/ LooksIf(p, "readonly-inject", "openSet", Good /\ ~BitIsSet(ent["file"]))
  \/ FailsIf(p, {"readonly-inject"}, Good /\ BitIsSet(ent["file"]))
  \/ LooksIf(p, "readonly-remove", "openUnset", Good)
OpenToFlag(p, from, to) ==
  /\ Exists("file")
  /\ Goto(p, from, to)
  /\ src' = [src EXCEPT ![p] = ent["file"]]
  /\ UNCHANGED <<disk, out, mode>>
OpenSet(p)   == OpenToFlag(p, "openSet", "setAttr")
OpenUnset(p) == OpenToFlag(p, "openUnset", "unsetAttr")
SetAttr(p) ==
  /\ Finishes(p, "setAttr")
  /\ SetBit(src[p])
  /\ UNCHANGED ent
UnsetAttr(p) ==
  /\ Finishes(p, "unsetAttr")
  /\ UnsetBit(src[p])
  /\ UNCHANGED ent
\* The path is gone; or the ioctl is refused, as on a file system without flags.
AttrFails(p) ==
  \/ FailsIf(p, {"openSet", "openUnset"}, ~Exists("file"))
  \/ FailsIf(p, {"setAttr", "unsetAttr"}, TRUE)
--------------------------------------------------------------------------------
\* file-unexecuted.  The backup holds FileMode.Perm(): no setuid, no sticky.
Perm(m) == IF m = "special" THEN "exec" ELSE m

UnexecPrepare(p) ==
  \/ /\ Good /\ At("file").mode \in {"exec", "special"}
     /\ Goto(p, "unexecuted-inject", "openAttr")
     /\ mode' = [mode EXCEPT ![p] = At("file").mode]
     /\ UNCHANGED <<disk, src, out>>
  \/ FailsIf(p, {"unexecuted-inject"}, Good /\ At("file").mode \in {"plain", "stripped"})
\* Mutant: the backup is opened with O_TRUNC too.
OpenAttrTruncates(p) ==
  /\ Goto(p, "openAttr", "writeAttr")
  /\ \/ /\ ~Exists("attrBackup")
        /\ Make("attrBackup", "partial")
        /\ out' = [out EXCEPT ![p] = NewIno]
     \/ /\ Exists("attrBackup")
        /\ out' = [out EXCEPT ![p] = ent["attrBackup"]]
        /\ ino' = [ino EXCEPT ![ent["attrBackup"]].data = "partial"]
        /\ UNCHANGED ent
  /\ UNCHANGED <<src, mode>>
\* O_CREATE without O_TRUNC.
OpenAttr(p) ==
  /\ Goto(p, "openAttr", "writeAttr")
  /\ \/ /\ ~Exists("attrBackup")
        /\ Make("attrBackup", "partial")
        /\ out' = [out EXCEPT ![p] = NewIno]
     \/ /\ Exists("attrBackup")
        /\ out' = [out EXCEPT ![p] = ent["attrBackup"]]
        /\ UNCHANGED disk
  /\ UNCHANGED <<src, mode>>
WriteAttr(p) ==
  /\ Goto(p, "writeAttr", "chmodOff")
  /\ ino' = [ino EXCEPT ![out[p]].data = Perm(mode[p])]
  /\ out' = [out EXCEPT ![p] = None]
  /\ UNCHANGED <<ent, src, mode>>
ChmodOff(p) ==
  /\ Writable("file")
  /\ Finishes(p, "chmodOff")
  /\ ino' = [ino EXCEPT ![ent["file"]].mode = "stripped"]
  /\ UNCHANGED ent
UnexecFails(p) ==
  \/ Breaks(p, "writeAttr")
  \/ FailsIf(p, {"chmodOff"}, ~Writable("file"))

ReexecPrepare(p) == LooksIf(p, "unexecuted-remove", "readAttr", Good)
\* The text of the backup is parsed as an octal number.
Parses == Exists("attrBackup") /\ At("attrBackup").data \in Mode
ReadAttr(p) ==
  /\ Parses
  /\ Goto(p, "readAttr", "chmodBack")
  /\ mode' = [mode EXCEPT ![p] = At("attrBackup").data]
  /\ UNCHANGED <<disk, src, out>>
\* Mutant: the backup is removed before the permissions are back.
ChmodBackLate(p) ==
  /\ Writable("file")
  /\ Goto(p, "chmodBack", "dropAttr")
  /\ ent' = [ent EXCEPT !["attrBackup"] = None]
  /\ UNCHANGED <<ino, locals>>
ChmodBack(p) ==
  /\ Writable("file")
  /\ Goto(p, "chmodBack", "dropAttr")
  /\ ino' = [ino EXCEPT ![ent["file"]].mode = mode[p]]
  /\ UNCHANGED <<ent, locals>>
DropAttr(p) ==
  /\ Finishes(p, "dropAttr")
  /\ ent' = [ent EXCEPT !["attrBackup"] = None]
  /\ UNCHANGED ino
ReexecFails(p) ==
  \/ FailsIf(p, {"readAttr"}, ~Parses)
  \/ FailsIf(p, {"chmodBack"}, ~Writable("file"))
--------------------------------------------------------------------------------
\* kill -9, or the machine's OOM killer; open descriptors close.
Crash(p) ==
  /\ pc[p] # "idle" /\ mishaps < MaxMishaps
  /\ End(p)
  /\ mishaps' = mishaps + 1
  /\ UNCHANGED <<disk, recreated>>

\* A program that misses its file writes a new one.
Recreate ==
  /\ ~Exists("file") /\ recreated < MaxRecreated
  /\ Make("file", "other")
  /\ recreated' = recreated + 1
  /\ UNCHANGED <<pc, locals, mishaps>>

Step(p) ==
  \/ PrepareFails(p)
  \/ LostStat(p) \/ LostRename(p) \/ LostFails(p)
  \/ UnlostStat(p) \/ UnlostRename(p) \/ UnlostFails(p)
  \/ CorruptPrepare(p) \/ CorruptCheck(p) \/ CopyOpen(p) \/ CopyStat(p)
  \/ CopyCreate(p) \/ CopyWrite(p) \/ CorruptOpen(p) \/ CorruptWrite(p)
  \/ CorruptFails(p)
  \/ RepairPrepare(p) \/ FindBackup(p) \/ RepairRemove(p) \/ RepairMv(p)
  \/ RepairFails(p)
  \/ ReadonlyPrepare(p) \/ OpenSet(p) \/ SetAttr(p) \/ OpenUnset(p) \/ UnsetAttr(p)
  \/ AttrFails(p)
  \/ UnexecPrepare(p) \/ OpenAttr(p) \/ WriteAttr(p) \/ ChmodOff(p) \/ UnexecFails(p)
  \/ ReexecPrepare(p) \/ ReadAttr(p) \/ ChmodBack(p) \/ DropAttr(p) \/ ReexecFails(p)

Next ==
  \/ \E p \in Proc : Step(p) \/ Crash(p) \/ \E op \in Ops : Start(p, op)
  \/ Recreate

Spec == Init /\ [][Next]_vars
--------------------------------------------------------------------------------
TypeOK ==
  /\ ent \in [Name -> Ino \cup {None}]
  /\ ino \in [Ino -> [kind : {"file", "dir"}, data : Data \cup Mode, mode : Mode,
                      imm : BOOLEAN]]
  /\ pc \in [Proc -> Label]
  /\ src \in [Proc -> Ino \cup {None}]
  /\ out \in [Proc -> Ino \cup {None}]
  /\ mode \in [Proc -> Mode \cup {None}]
  /\ \A p \in Proc : pc[p] = "copyWrite" => src[p] # None /\ out[p] # None
  /\ \A p \in Proc : pc[p] \in {"setAttr", "unsetAttr"} => src[p] # None
  /\ mishaps \in 0..MaxMishaps /\ recreated \in 0..MaxRecreated

AllIdle == \A p \in Proc : pc[p] = "idle"
NoBackups == \A n \in Name \ {"file"} : ~Exists(n)
Content   == {"file", "lostBackup", "corruptionBackup"}
\* Nobody has made the path anew, and no copy of it broke off or was killed.
Intact ==
  /\ recreated = 0
  /\ mishaps = 0 \/ \A n \in Content : Exists(n) => At(n).data # "partial"

\* No order of injections and removals of the four faults, repeated on the path
\* and killed anywhere but inside a copy, loses the content the path had: also a
\* removal of file-corruption that ends between its os.Remove and its mv leaves it
\* in the backup.
OriginalSurvives == Intact => \E n \in Content : Exists(n) /\ At(n).data = "original"

\* Under the same conditions, once no fault has a backup left the path is there
\* with its own content, whatever order the faults were removed in.
CleanMeansOriginal ==
  Intact /\ AllIdle /\ NoBackups => Exists("file") /\ At("file").data = "original"

\* corruption.FaultInject is write-ahead: the byte that corrupts the path is
\* written only when the backup holds all that the path held, also after
\* earlier injections failed or were killed at any point.
BackedUpFirst ==
  [][\A i \in Ino :
       ent["file"] = i /\ ino[i].data # "corrupt" /\ ino'[i].data = "corrupt"
         => Exists("corruptionBackup") /\ At("corruptionBackup").data = ino[i].data]_vars

\* So is file-unexecuted: the execute bits of a path that lost them are in the
\* backup, wherever injections and removals were killed, as long as no other
\* program writes the path anew.
ExecRecoverable ==
  recreated = 0 =>
    \A n \in {"file", "lostBackup"} :
      Exists(n) /\ At(n).mode = "stripped"
        => Exists("attrBackup") /\ At("attrBackup").data = "exec"

\* FaultOperations, comment on FaultRemove: it clears the fault.  A path without
\* a backup of any fault has the content it had, also when an injection failed.
RemovalRestores ==
  AllIdle /\ NoBackups => Exists("file") /\ At("file").data = "original"
\* What each invocation is at, and the faults whose trace is there.
Doing(l) ==
  LET Is(f, o) == [fault |-> f, op |-> o]
  IN CASE l \in {"lost-inject", "lostStat", "lostRename"}      -> Is("lost", "inject")
       [] l \in {"lost-remove", "unlostStat", "unlostRename"}  -> Is("lost", "remove")
       [] l \in {"corruption-inject", "check", "copyOpen", "copyStat", "copyCreate",
                 "copyWrite", "open", "write"}            -> Is("corruption", "inject")
       [] l \in {"corruption-remove", "findBackup", "remove", "mv"}
                                                          -> Is("corruption", "remove")
       [] l \in {"readonly-inject", "openSet", "setAttr"} -> Is("readonly", "inject")
       [] l \in {"readonly-remove", "openUnset", "unsetAttr"}
                                                          -> Is("readonly", "remove")
       [] l \in {"unexecuted-inject", "openAttr", "writeAttr", "chmodOff"}
                                                          -> Is("unexecuted", "inject")
       [] l \in {"unexecuted-remove", "readAttr", "chmodBack", "dropAttr"}
                                                          -> Is("unexecuted", "remove")
       [] OTHER                                           -> Is("none", "none")
LockedUp == \E n \in Name : Exists(n) /\ At(n).imm
Traces ==
     {f \in {"lost"} : Exists("lostBackup")}
  \cup {f \in {"corruption"} : Exists("corruptionBackup")}
  \cup {f \in {"readonly"} : LockedUp}
  \cup {f \in {"unexecuted"} : Exists("attrBackup")}

Ledger == INSTANCE FaultLedger WITH
  Fault  <- {"lost", "corruption", "readonly", "unexecuted"},
  Ops    <- {Doing(op) : op \in Ops},
  active <- Traces,
  busy   <- [p \in Proc |-> Doing(pc[p])]

\* The contract of FaultOperations for the four faults on one path: the backup of a
\* fault, or an immutable bit on the path or on any backup of it, appears only in an
\* injection of that fault and goes only in its removal, wherever invocations of all
\* of them fail, die or meet: also when the file is renamed away, or deleted and
\* made anew, between the open and the ioctl of a file-readonly.
KeepsLedger == Ledger!Spec
================================================================================

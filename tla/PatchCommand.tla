----------------------------- MODULE PatchCommand -----------------------------
(***************************************************************************)
(* The elb patch command (cli/src/patch.rs): the file is copied to a       *)
(* temporary file beside it, the copy is patched in place (ElfPatcher) and *)
(* renamed over the file.                                                  *)
(*                                                                         *)
(* Any step may be the last one of a run: an error is returned to the      *)
(* shell, or the process is killed.  Either way the temporary file stays   *)
(* behind for the next run.  One run is in progress at a time: the command *)
(* takes no lock, and promises nothing of two runs on one file.            *)
(***************************************************************************)
EXTENDS Naturals, Sequences

CONSTANTS
  MaxRuns,   \* bounds of the model: runs of the command,
  MaxFaults  \* and faults

ASSUME BoundsAssumption == MaxRuns \in Nat /\ MaxFaults \in Nat

VARIABLES
  dir,      \* the directory: an inode for each name, 0 when there is none
  inodes,   \* the inodes, which hold a file after some number of patches
  pc,       \* the next step of the run
  changes,  \* the arguments of the run ask for a change
  mode,     \* old_permissions
  runs,
  faults

vars == <<dir, inodes, pc, changes, mode, runs, faults>>

Inode == [version : Nat, whole : BOOLEAN, writable : BOOLEAN]

File == inodes[dir.file]
Temp == inodes[dir.tmp]

Init ==
  /\ dir = [file |-> 1, tmp |-> 0]
  /\ \E writable \in BOOLEAN :
       /\ inodes = <<[version |-> 0, whole |-> TRUE, writable |-> writable]>>
       /\ mode = writable
  /\ pc = "idle"
  /\ changes = FALSE
  /\ runs = 0
  /\ faults = 0

\* Step from is done and step to is next.
Goto(from, to) ==
  /\ pc = from
  /\ pc' = to
  /\ UNCHANGED <<changes, runs, faults>>

\* Elf::read of the file.
Start ==
  /\ pc = "idle"
  /\ runs < MaxRuns
  /\ runs' = runs + 1
  /\ changes' \in BOOLEAN
  /\ pc' = IF File.whole THEN "remove_temp" ELSE "idle"
  /\ UNCHANGED <<dir, inodes, mode, faults>>

\* RemoveTemp is left out: copy overwrites what is there.
KeepTemp ==
  /\ Goto("remove_temp", "copy_open")
  /\ UNCHANGED <<dir, inodes, mode>>

\* RemoveTemp is left out where it is there: an earlier copy is used again.
ReuseTemp ==
  /\ Goto("remove_temp", IF dir.tmp = 0 THEN "copy_open" ELSE "make_writable")
  /\ UNCHANGED <<dir, inodes, mode>>

\* remove_file, of what an earlier run left behind.
RemoveTemp ==
  /\ Goto("remove_temp", "copy_open")
  /\ dir' = [dir EXCEPT !.tmp = 0]
  /\ UNCHANGED <<inodes, mode>>

\* An error of remove_file is ignored.
RemoveTempFails ==
  /\ pc = "remove_temp"
  /\ pc' = "copy_open"
  /\ faults < MaxFaults
  /\ faults' = faults + 1
  /\ UNCHANGED <<dir, inodes, changes, mode, runs>>

\* fs::copy gives the copy the permissions of the file, and truncates it.  A
\* copy that is there and cannot be written cannot be opened.
Truncated == [version |-> 0, whole |-> FALSE, writable |-> File.writable]

CopyOpen ==
  \/ /\ dir.tmp = 0
     /\ Goto("copy_open", "copy_data")
     /\ inodes' = Append(inodes, Truncated)
     /\ dir' = [dir EXCEPT !.tmp = Len(inodes')]
     /\ UNCHANGED mode
  \/ /\ dir.tmp # 0
     /\ IF Temp.writable
        THEN /\ Goto("copy_open", "copy_data")
             /\ inodes' = [inodes EXCEPT ![dir.tmp] = Truncated]
        ELSE Goto("copy_open", "idle") /\ UNCHANGED inodes
     /\ UNCHANGED <<dir, mode>>

CopyData ==
  /\ Goto("copy_data", "make_writable")
  /\ inodes' = [inodes EXCEPT ![dir.tmp].version = File.version,
                              ![dir.tmp].whole = TRUE]
  /\ UNCHANGED <<dir, mode>>

MakeWritable ==
  /\ Goto("make_writable", "edit")
  /\ mode' = Temp.writable
  /\ inodes' = [inodes EXCEPT ![dir.tmp].writable = TRUE]
  /\ UNCHANGED dir

\* The calls of the patcher write in place.  Without any, the run is refused.
Edit ==
  \/ /\ changes
     /\ Goto("edit", "finish")
     /\ inodes' = [inodes EXCEPT ![dir.tmp].whole = FALSE]
     /\ UNCHANGED <<dir, mode>>
  \/ /\ ~changes
     /\ Goto("edit", "idle")
     /\ UNCHANGED <<dir, inodes, mode>>

\* The patcher is dropped instead: what it keeps in memory is not written.
DropPatcher ==
  /\ Goto("finish", "restore_mode")
  /\ UNCHANGED <<dir, inodes, mode>>

Finish ==
  /\ Goto("finish", "restore_mode")
  /\ inodes' = [inodes EXCEPT ![dir.tmp].version = @ + 1,
                              ![dir.tmp].whole = TRUE]
  /\ UNCHANGED <<dir, mode>>

\* RestoreMode with the permissions that were just set.
KeepMode ==
  /\ Goto("restore_mode", "rename")
  /\ UNCHANGED <<dir, inodes, mode>>

RestoreMode ==
  /\ Goto("restore_mode", "rename")
  /\ inodes' = [inodes EXCEPT ![dir.tmp].writable = mode]
  /\ UNCHANGED <<dir, mode>>

Rename ==
  /\ Goto("rename", "idle")
  /\ dir' = [file |-> dir.tmp, tmp |-> 0]
  /\ UNCHANGED <<inodes, mode>>

\* A step returns an error, or the process is killed.
Fault ==
  /\ pc # "idle"
  /\ faults < MaxFaults
  /\ faults' = faults + 1
  /\ pc' = "idle"
  /\ UNCHANGED <<dir, inodes, changes, mode, runs>>

Step == \/ RemoveTemp \/ CopyOpen \/ CopyData \/ MakeWritable \/ Edit \/ Finish
        \/ RestoreMode \/ Rename

Next == Start \/ Step \/ RemoveTempFails \/ Fault

\* A run in progress goes on until it ends or a fault ends it.
Spec == Init /\ [][Next]_vars /\ WF_vars(Step)

(***************************************************************************)
(* Properties.                                                             *)
(***************************************************************************)

Steps == {"idle", "remove_temp", "copy_open", "copy_data", "make_writable",
          "edit", "finish", "restore_mode", "rename"}

\* Every name is for an inode, and every inode is well-typed.
TypeOK ==
  /\ dir \in [file : 0 .. Len(inodes), tmp : 0 .. Len(inodes)]
  /\ dir.file # 0
  /\ inodes \in Seq(Inode)
  /\ pc \in Steps
  /\ changes \in BOOLEAN /\ mode \in BOOLEAN
  /\ runs \in 0 .. MaxRuns
  /\ faults \in 0 .. MaxFaults

\* Whoever opens the file finds a whole one, wherever a run was cut off: it is
\* never truncated, half copied or half patched.
FileWhole == File.whole

\* The file never gets other permissions than it had (the copy is made writable
\* for the patch, and old permissions are restored before the rename).
SameMode == [][File'.writable = File.writable]_vars

\* The file changes only to what one run made of what the file was: no patch is
\* lost, and none is applied twice, however many runs were cut off before.
OnePatchAtATime ==
  [][File' # File => File'.version = File.version + 1]_vars

\* What a cut-off run left behind does not stop the next one: a run that asks
\* for a change and meets no fault of its own changes the file.
RunsSucceed ==
  \A n \in 0 .. MaxRuns, k \in 0 .. MaxFaults :
    (pc = "remove_temp" /\ changes /\ File.version = n /\ faults = k)
      ~> (File.version = n + 1 \/ faults > k)
===============================================================================

-------------------------- MODULE PatchCommandProofs --------------------------
(***************************************************************************)
(* Proofs about PatchCommand: for any number of runs and faults the file   *)
(* is whole, keeps its permissions, and changes one patch at a time.       *)
(***************************************************************************)
EXTENDS PatchCommand, TLAPS

(***************************************************************************)
(* The inductive invariant.  The three properties speak of the file, but a *)
(* rename makes the copy the file: what has to be known is what a run has  *)
(* established of the copy before each of its steps.                       *)
(***************************************************************************)

Patching == {"make_writable", "edit", "finish", "restore_mode", "rename"}

\* The copy is another inode than the file, and is there once it was opened.
CopyApart ==
  /\ dir.tmp # dir.file
  /\ pc \in Patching \cup {"copy_data"} => dir.tmp # 0

\* What the copy holds, relative to the file it was made from.
CopyInStep ==
  /\ pc \in {"make_writable", "edit", "restore_mode", "rename"} => Temp.whole
  /\ pc \in {"make_writable", "edit", "finish"} =>
       Temp.version = File.version
  /\ pc \in {"restore_mode", "rename"} => Temp.version = File.version + 1

\* The old permissions are in the copy, then in a variable, then in the copy.
ModeKept ==
  /\ pc \in {"copy_data", "make_writable", "rename"} =>
       Temp.writable = File.writable
  /\ pc \in {"edit", "finish", "restore_mode"} => mode = File.writable

IInv == TypeOK /\ FileWhole /\ CopyApart /\ CopyInStep /\ ModeKept

\* Writing into the copy leaves the file alone.
LEMMA WriteTempProperties ==
  ASSUME TypeOK, CopyApart, dir.tmp # 0, NEW i \in Inode,
         dir' = dir, inodes' = [inodes EXCEPT ![dir.tmp] = i]
  PROVE  /\ inodes' \in Seq(Inode) /\ Len(inodes') = Len(inodes)
         /\ File' = File /\ Temp' = i
<1>1. /\ dir.tmp \in 1 .. Len(inodes) /\ dir.file \in 1 .. Len(inodes)
      /\ dir.tmp # dir.file
      /\ inodes \in Seq(Inode)
  BY DEF TypeOK, CopyApart
<1> QED
  BY <1>1 DEF File, Temp

\* The first state is good.
LEMMA InitIsGood == Init => IInv
<1> SUFFICES ASSUME Init PROVE IInv
  OBVIOUS
<1>1. PICK w \in BOOLEAN :
        inodes = <<[version |-> 0, whole |-> TRUE, writable |-> w]>>
        /\ mode = w
  BY DEF Init
<1>2. inodes \in Seq(Inode) /\ Len(inodes) = 1 /\ inodes[1].whole = TRUE
  BY <1>1 DEF Inode
<1>3. dir = [file |-> 1, tmp |-> 0] /\ pc = "idle" /\ changes = FALSE
      /\ runs = 0 /\ faults = 0
  BY DEF Init
<1>4. dir \in [file : 0 .. Len(inodes), tmp : 0 .. Len(inodes)] /\ dir.file = 1
  BY <1>2, <1>3
<1>m. mode \in BOOLEAN
  BY <1>1
<1>5. TypeOK
  <2>1. runs \in 0 .. MaxRuns /\ faults \in 0 .. MaxFaults
    BY <1>3, BoundsAssumption
  <2>2. pc \in Steps /\ changes \in BOOLEAN
    BY <1>3 DEF Steps
  <2>3. dir.file # 0
    BY <1>4
  <2> QED
    BY <1>2, <1>4, <1>m, <2>1, <2>2, <2>3 DEF TypeOK
<1> QED
  BY <1>2, <1>3, <1>5
     DEF IInv, FileWhole, File, CopyApart, CopyInStep, ModeKept, Patching

\* Every step of the command keeps the copy apart from the file and in step with
\* it.
LEMMA NextIsGood == IInv /\ [Next]_vars => IInv'
<1> SUFFICES ASSUME IInv, [Next]_vars PROVE IInv'
  OBVIOUS
<1> USE BoundsAssumption
<1>type. TypeOK /\ FileWhole /\ CopyApart /\ CopyInStep /\ ModeKept
  BY DEF IInv
<1>dom. /\ dir.file \in 1 .. Len(inodes) /\ dir.tmp \in 0 .. Len(inodes)
        /\ Len(inodes) \in Nat /\ inodes \in Seq(Inode)
        /\ File \in Inode
        /\ dir.tmp # 0 => Temp \in Inode
  BY <1>type DEF TypeOK, File, Temp
<1>1. CASE Start
  <2>1. dir' = dir /\ inodes' = inodes /\ mode' = mode
        /\ pc' \in {"remove_temp", "idle"} /\ faults' = faults
        /\ changes' \in BOOLEAN /\ runs' \in 0 .. MaxRuns
    BY <1>1, <1>type DEF Start, TypeOK
  <2> QED
    BY <1>type, <2>1
       DEF IInv, TypeOK, Steps, FileWhole, File, Temp, CopyApart, CopyInStep,
           ModeKept, Patching
<1>2. CASE RemoveTemp
  <2>1. /\ dir' = [dir EXCEPT !.tmp = 0] /\ inodes' = inodes /\ mode' = mode
        /\ pc' = "copy_open"
        /\ changes' = changes /\ runs' = runs /\ faults' = faults
    BY <1>2 DEF RemoveTemp, Goto
  <2>2. dir' \in [file : 0 .. Len(inodes'), tmp : 0 .. Len(inodes')]
        /\ dir'.file = dir.file /\ dir'.tmp = 0
    BY <1>type, <1>dom, <2>1 DEF TypeOK
  <2> QED
    BY <1>type, <1>dom, <2>1, <2>2
       DEF IInv, TypeOK, Steps, FileWhole, File, Temp, CopyApart, CopyInStep,
           ModeKept, Patching
<1>3. CASE RemoveTempFails
  <2>1. /\ dir' = dir /\ inodes' = inodes /\ mode' = mode /\ pc' = "copy_open"
        /\ changes' = changes /\ runs' = runs /\ faults' \in 0 .. MaxFaults
    BY <1>3, <1>type DEF RemoveTempFails, TypeOK
  <2> QED
    BY <1>type, <2>1
       DEF IInv, TypeOK, Steps, FileWhole, File, Temp, CopyApart, CopyInStep,
           ModeKept, Patching
<1>4. CASE CopyOpen
  <2>0. Truncated \in Inode /\ Truncated.writable = File.writable
    BY <1>dom DEF Truncated, Inode
  <2>1. CASE dir.tmp = 0
    <3>1. /\ inodes' = Append(inodes, Truncated)
          /\ dir' = [dir EXCEPT !.tmp = Len(inodes')]
          /\ mode' = mode /\ pc' = "copy_data"
          /\ changes' = changes /\ runs' = runs /\ faults' = faults
      BY <1>4, <2>1 DEF CopyOpen, Goto
    <3>2. /\ inodes' \in Seq(Inode) /\ Len(inodes') = Len(inodes) + 1
          /\ inodes'[Len(inodes) + 1] = Truncated
          /\ inodes'[dir.file] = inodes[dir.file]
      BY <1>dom, <2>0, <3>1
    <3>3. /\ dir' \in [file : 0 .. Len(inodes'), tmp : 0 .. Len(inodes')]
          /\ dir'.file = dir.file /\ dir'.tmp = Len(inodes) + 1
      BY <1>type, <1>dom, <3>1, <3>2 DEF TypeOK
    <3>4. File' = File /\ Temp' = Truncated
      BY <3>2, <3>3 DEF File, Temp
    <3>5. TypeOK'
      BY <1>type, <3>1, <3>2, <3>3 DEF TypeOK, Steps
    <3>6. CopyApart'
      BY <1>dom, <3>3 DEF CopyApart
    <3> QED
      BY <1>type, <2>0, <3>1, <3>4, <3>5, <3>6
         DEF IInv, FileWhole, CopyInStep, ModeKept
  <2>2. CASE dir.tmp # 0 /\ Temp.writable
    <3>1. /\ inodes' = [inodes EXCEPT ![dir.tmp] = Truncated]
          /\ dir' = dir /\ mode' = mode /\ pc' = "copy_data"
          /\ changes' = changes /\ runs' = runs /\ faults' = faults
      BY <1>4, <2>2 DEF CopyOpen, Goto
    <3>2. /\ inodes' \in Seq(Inode) /\ Len(inodes') = Len(inodes)
          /\ File' = File /\ Temp' = Truncated
      BY <1>type, <2>0, <2>2, <3>1, WriteTempProperties
    <3>3. TypeOK'
      BY <1>type, <3>1, <3>2 DEF TypeOK, Steps
    <3> QED
      BY <1>type, <2>0, <2>2, <3>1, <3>2, <3>3
         DEF IInv, FileWhole, CopyApart, CopyInStep, ModeKept
  <2>3. CASE dir.tmp # 0 /\ ~Temp.writable
    <3>1. /\ dir' = dir /\ inodes' = inodes /\ mode' = mode /\ pc' = "idle"
          /\ changes' = changes /\ runs' = runs /\ faults' = faults
      BY <1>4, <2>3 DEF CopyOpen, Goto
    <3> QED
      BY <1>type, <3>1
         DEF IInv, TypeOK, Steps, FileWhole, File, Temp, CopyApart, CopyInStep,
             ModeKept, Patching
  <2> QED
    BY <2>1, <2>2, <2>3
<1>5. CASE CopyData
  <2> DEFINE i == [Temp EXCEPT !.version = File.version, !.whole = TRUE]
  <2>1. /\ pc = "copy_data" /\ pc' = "make_writable"
        /\ dir' = dir /\ mode' = mode
        /\ changes' = changes /\ runs' = runs /\ faults' = faults
    BY <1>5 DEF CopyData, Goto
  <2>2. inodes' = [inodes EXCEPT ![dir.tmp] = i]
    BY <1>5 DEF CopyData, Temp
  <2>3. dir.tmp # 0
    BY <1>type, <2>1 DEF CopyApart
  <2>4. /\ i \in Inode /\ i.version = File.version /\ i.whole = TRUE
        /\ i.writable = Temp.writable
    BY <1>dom, <2>3 DEF Inode
  <2> HIDE DEF i
  <2>5. /\ inodes' \in Seq(Inode) /\ Len(inodes') = Len(inodes)
        /\ File' = File /\ Temp' = i
    BY <1>type, <2>1, <2>2, <2>3, <2>4, WriteTempProperties
  <2>6. TypeOK'
    BY <1>type, <2>1, <2>5 DEF TypeOK, Steps
  <2> QED
    BY <1>type, <2>1, <2>3, <2>4, <2>5, <2>6
       DEF IInv, FileWhole, CopyApart, CopyInStep, ModeKept
<1>6. CASE MakeWritable
  <2> DEFINE i == [Temp EXCEPT !.writable = TRUE]
  <2>1. /\ pc = "make_writable" /\ pc' = "edit"
        /\ dir' = dir /\ mode' = Temp.writable
        /\ changes' = changes /\ runs' = runs /\ faults' = faults
    BY <1>6 DEF MakeWritable, Goto
  <2>2. inodes' = [inodes EXCEPT ![dir.tmp] = i]
    BY <1>6 DEF MakeWritable, Temp
  <2>3. dir.tmp # 0
    BY <1>type, <2>1 DEF CopyApart, Patching
  <2>4. /\ i \in Inode /\ i.version = Temp.version /\ i.whole = Temp.whole
        /\ Temp.writable \in BOOLEAN
    BY <1>dom, <2>3 DEF Inode
  <2> HIDE DEF i
  <2>5. /\ inodes' \in Seq(Inode) /\ Len(inodes') = Len(inodes)
        /\ File' = File /\ Temp' = i
    BY <1>type, <2>1, <2>2, <2>3, <2>4, WriteTempProperties
  <2>6. TypeOK'
    BY <1>type, <2>1, <2>4, <2>5 DEF TypeOK, Steps
  <2> QED
    BY <1>type, <2>1, <2>3, <2>4, <2>5, <2>6
       DEF IInv, FileWhole, CopyApart, CopyInStep, ModeKept
<1>7. CASE Edit
  <2>1. /\ pc = "edit" /\ dir' = dir /\ mode' = mode
        /\ changes' = changes /\ runs' = runs /\ faults' = faults
    BY <1>7 DEF Edit, Goto
  <2>2. CASE changes
    <3> DEFINE i == [Temp EXCEPT !.whole = FALSE]
    <3>1. pc' = "finish"
      BY <1>7, <2>2 DEF Edit, Goto
    <3>2. inodes' = [inodes EXCEPT ![dir.tmp] = i]
      BY <1>7, <2>2 DEF Edit, Temp
    <3>3. dir.tmp # 0
      BY <1>type, <2>1 DEF CopyApart, Patching
    <3>4. i \in Inode /\ i.version = Temp.version
      BY <1>dom, <3>3 DEF Inode
    <3> HIDE DEF i
    <3>5. /\ inodes' \in Seq(Inode) /\ Len(inodes') = Len(inodes)
          /\ File' = File /\ Temp' = i
      BY <1>type, <2>1, <3>2, <3>3, <3>4, WriteTempProperties
    <3>6. TypeOK'
      BY <1>type, <2>1, <3>1, <3>5 DEF TypeOK, Steps
    <3> QED
      BY <1>type, <2>1, <3>1, <3>3, <3>4, <3>5, <3>6
         DEF IInv, FileWhole, CopyApart, CopyInStep, ModeKept
  <2>3. CASE ~changes
    <3>1. pc' = "idle" /\ inodes' = inodes
      BY <1>7, <2>3 DEF Edit, Goto
    <3> QED
      BY <1>type, <2>1, <3>1
         DEF IInv, TypeOK, Steps, FileWhole, File, Temp, CopyApart, CopyInStep,
             ModeKept, Patching
  <2> QED
    BY <2>2, <2>3
<1>8. CASE Finish
  <2> DEFINE v == Temp.version + 1
             i == [Temp EXCEPT !.version = v, !.whole = TRUE]
  <2>1. /\ pc = "finish" /\ pc' = "restore_mode" /\ dir' = dir /\ mode' = mode
        /\ changes' = changes /\ runs' = runs /\ faults' = faults
    BY <1>8 DEF Finish, Goto
  <2>2. inodes' = [inodes EXCEPT ![dir.tmp] = i]
    BY <1>8 DEF Finish, Temp
  <2>3. dir.tmp # 0
    BY <1>type, <2>1 DEF CopyApart, Patching
  <2>v. v \in Nat
    BY <1>dom, <2>3 DEF Inode
  <2> HIDE DEF v
  <2>4. i \in Inode /\ i.version = v /\ i.whole = TRUE
    BY <1>dom, <2>3, <2>v DEF Inode
  <2> HIDE DEF i
  <2>5. /\ inodes' \in Seq(Inode) /\ Len(inodes') = Len(inodes)
        /\ File' = File /\ Temp' = i
    BY <1>type, <2>1, <2>2, <2>3, <2>4, WriteTempProperties
  <2>6. TypeOK'
    BY <1>type, <2>1, <2>5 DEF TypeOK, Steps
  <2> QED
    BY <1>type, <2>1, <2>3, <2>4, <2>5, <2>6
       DEF IInv, FileWhole, CopyApart, CopyInStep, ModeKept, v
<1>9. CASE RestoreMode
  <2> DEFINE i == [Temp EXCEPT !.writable = mode]
  <2>1. /\ pc = "restore_mode" /\ pc' = "rename" /\ dir' = dir /\ mode' = mode
        /\ changes' = changes /\ runs' = runs /\ faults' = faults
    BY <1>9 DEF RestoreMode, Goto
  <2>2. inodes' = [inodes EXCEPT ![dir.tmp] = i]
    BY <1>9 DEF RestoreMode, Temp
  <2>3. dir.tmp # 0 /\ mode \in BOOLEAN
    BY <1>type, <2>1 DEF CopyApart, Patching, TypeOK
  <2>4. /\ i \in Inode /\ i.version = Temp.version /\ i.whole = Temp.whole
        /\ i.writable = mode
    BY <1>dom, <2>3 DEF Inode
  <2> HIDE DEF i
  <2>5. /\ inodes' \in Seq(Inode) /\ Len(inodes') = Len(inodes)
        /\ File' = File /\ Temp' = i
    BY <1>type, <2>1, <2>2, <2>3, <2>4, WriteTempProperties
  <2>6. TypeOK'
    BY <1>type, <2>1, <2>5 DEF TypeOK, Steps
  <2> QED
    BY <1>type, <2>1, <2>3, <2>4, <2>5, <2>6
       DEF IInv, FileWhole, CopyApart, CopyInStep, ModeKept
<1>10. CASE Rename
  <2>1. /\ pc = "rename" /\ pc' = "idle"
        /\ dir' = [file |-> dir.tmp, tmp |-> 0]
        /\ inodes' = inodes /\ mode' = mode
        /\ changes' = changes /\ runs' = runs /\ faults' = faults
    BY <1>10 DEF Rename, Goto
  <2>2. dir.tmp # 0
    BY <1>type, <2>1 DEF CopyApart, Patching
  <2>3. dir'.file = dir.tmp /\ dir'.tmp = 0
        /\ dir' \in [file : 0 .. Len(inodes'), tmp : 0 .. Len(inodes')]
    BY <1>dom, <2>1
  <2>4. File'.whole
    BY <1>type, <2>1, <2>3 DEF CopyInStep, File, Temp
  <2> QED
    BY <1>type, <2>1, <2>2, <2>3, <2>4
       DEF IInv, TypeOK, Steps, FileWhole, CopyApart, CopyInStep, ModeKept,
           Patching
<1>11. CASE Fault
  <2>1. /\ dir' = dir /\ inodes' = inodes /\ mode' = mode /\ pc' = "idle"
        /\ changes' = changes /\ runs' = runs /\ faults' \in 0 .. MaxFaults
    BY <1>11, <1>type DEF Fault, TypeOK
  <2> QED
    BY <1>type, <2>1
       DEF IInv, TypeOK, Steps, FileWhole, File, Temp, CopyApart, CopyInStep,
           ModeKept, Patching
<1>12. CASE UNCHANGED vars
  BY <1>type, <1>12
     DEF IInv, TypeOK, Steps, FileWhole, File, Temp, CopyApart, CopyInStep,
         ModeKept, Patching, vars, Inode
<1> QED
  BY <1>1, <1>2, <1>3, <1>4, <1>5, <1>6, <1>7, <1>8, <1>9, <1>10, <1>11, <1>12
     DEF Next, Step

\* What the invariant says of a rename: the copy becomes the file, with the
\* permissions of the file and one patch more.  No other step touches the file.
LEMMA FileChangesByRename ==
  ASSUME IInv, [Next]_vars
  PROVE  /\ File'.writable = File.writable
         /\ File' # File => File'.version = File.version + 1
<1>type. TypeOK /\ CopyApart /\ CopyInStep /\ ModeKept
  BY DEF IInv
<1>dom. dir.file \in 1 .. Len(inodes) /\ inodes \in Seq(Inode)
  BY <1>type DEF TypeOK
<1>1. CASE Rename
  <2>1. pc = "rename" /\ dir' = [file |-> dir.tmp, tmp |-> 0]
        /\ inodes' = inodes
    BY <1>1 DEF Rename, Goto
  <2>2. File' = Temp
    BY <2>1 DEF File, Temp
  <2> QED
    BY <1>type, <2>1, <2>2 DEF CopyInStep, ModeKept
<1>2. CASE ~Rename
  <2> SUFFICES File' = File
    OBVIOUS
  <2>1. CASE inodes' = inodes /\ dir'.file = dir.file
    BY <2>1 DEF File
  <2>2. CASE CopyOpen /\ dir.tmp = 0
    <3>1. /\ inodes' = Append(inodes, Truncated)
          /\ dir' = [dir EXCEPT !.tmp = Len(inodes')]
      BY <2>2 DEF CopyOpen
    <3>2. dir'.file = dir.file
      BY <1>type, <3>1 DEF TypeOK
    <3> QED
      BY <1>dom, <3>1, <3>2 DEF File
  <2>3. CASE /\ dir.tmp # 0 /\ dir' = dir
             /\ \E i : inodes' = [inodes EXCEPT ![dir.tmp] = i]
    BY <1>type, <1>dom, <2>3 DEF File, CopyApart
  <2>4. CASE CopyOpen /\ dir.tmp # 0
    BY <2>1, <2>3, <2>4 DEF CopyOpen
  <2>5. CASE CopyData \/ MakeWritable \/ Edit \/ Finish \/ RestoreMode
    <3>1. dir.tmp # 0 /\ dir' = dir
      BY <1>type, <2>5
         DEF CopyApart, Patching, CopyData, MakeWritable, Edit, Finish,
             RestoreMode, Goto
    <3>2. \/ inodes' = inodes
          \/ \E i : inodes' = [inodes EXCEPT ![dir.tmp] = i]
      BY <2>5 DEF CopyData, MakeWritable, Edit, Finish, RestoreMode
    <3> QED
      BY <2>1, <2>3, <3>1, <3>2
  <2>6. CASE RemoveTemp
    <3>1. dir' = [dir EXCEPT !.tmp = 0] /\ inodes' = inodes
      BY <2>6 DEF RemoveTemp
    <3>2. dir'.file = dir.file
      BY <1>type, <3>1 DEF TypeOK
    <3> QED
      BY <2>1, <3>1, <3>2
  <2>7. CASE Start \/ RemoveTempFails \/ Fault \/ UNCHANGED vars
    BY <2>1, <2>7 DEF Start, RemoveTempFails, Fault, vars
  <2> QED
    BY <1>2, <2>2, <2>4, <2>5, <2>6, <2>7 DEF Next, Step
<1> QED
  BY <1>1, <1>2

(***************************************************************************)
(* Theorems.                                                               *)
(***************************************************************************)

\* The inductive invariant: before each step of a run the copy holds what the
\* steps before it have established.
THEOREM Soundness == Spec => []IInv
<1>1. Init => IInv
  BY InitIsGood
<1>2. IInv /\ [Next]_vars => IInv'
  BY NextIsGood
<1> QED
  BY <1>1, <1>2, PTL DEF Spec

\* Names are for inodes, and inodes are well-typed.
THEOREM TypeCorrectness == Spec => []TypeOK
<1>1. IInv => TypeOK
  BY DEF IInv
<1> QED
  BY <1>1, Soundness, PTL

\* Wherever a run of elb patch is cut off, the file is a whole one.
THEOREM FileStaysWhole == Spec => []FileWhole
<1>1. IInv => FileWhole
  BY DEF IInv
<1> QED
  BY <1>1, Soundness, PTL

\* elb patch never changes the permissions of the file.
THEOREM ModeStaysTheSame == Spec => SameMode
<1>1. IInv /\ [Next]_vars => [File'.writable = File.writable]_vars
  BY FileChangesByRename
<1> QED
  BY <1>1, Soundness, PTL DEF Spec, SameMode

\* The file changes only to what one run made of what the file was.
THEOREM NoPatchIsLost == Spec => OnePatchAtATime
<1>1. IInv /\ [Next]_vars
        => [File' # File => File'.version = File.version + 1]_vars
  BY FileChangesByRename
<1> QED
  BY <1>1, Soundness, PTL DEF Spec, OnePatchAtATime
===============================================================================

---------------------------- MODULE LdSoConfProofs ----------------------------
(***************************************************************************)
(* Proofs about LdSoConf: whatever configuration files there are and       *)
(* however they include each other, parse_ld_so_conf ends with the         *)
(* directories of those that are reached, each once.                       *)
(***************************************************************************)
EXTENDS LdSoConf, TLAPS

-----------------------------------------------------------------------------
(* Sequences and their elements *)

\* The first element is taken.
LEMMA TailFacts ==
  ASSUME NEW T, NEW s \in Seq(T), s # <<>>
  PROVE  /\ Head(s) \in T
         /\ Tail(s) \in Seq(T)
         /\ ToSet(s) = {Head(s)} \cup ToSet(Tail(s))
<1>1. /\ Head(s) \in T /\ Tail(s) \in Seq(T) /\ Len(s) \in Nat \ {0}
      /\ DOMAIN s = 1 .. Len(s) /\ DOMAIN Tail(s) = 1 .. (Len(s) - 1)
      /\ Head(s) = s[1]
      /\ \A n \in 1 .. (Len(s) - 1) : Tail(s)[n] = s[n + 1]
  OBVIOUS
<1>2. ASSUME NEW n \in DOMAIN s, n # 1 PROVE s[n] \in ToSet(Tail(s))
  <2>1. n - 1 \in DOMAIN Tail(s) /\ Tail(s)[n - 1] = s[n]
    BY <1>1, <1>2
  <2> QED
    BY <2>1 DEF ToSet
<1>3. ASSUME NEW n \in DOMAIN Tail(s) PROVE Tail(s)[n] \in ToSet(s)
  <2>1. n + 1 \in DOMAIN s /\ Tail(s)[n] = s[n + 1]
    BY <1>1
  <2> QED
    BY <2>1 DEF ToSet
<1>4. Head(s) \in ToSet(s)
  BY <1>1 DEF ToSet
<1> QED
  BY <1>1, <1>2, <1>3, <1>4 DEF ToSet

\* An element is added at the end.
LEMMA AppendFacts ==
  ASSUME NEW T, NEW s \in Seq(T), NEW x \in T
  PROVE  /\ Append(s, x) \in Seq(T)
         /\ ToSet(Append(s, x)) = ToSet(s) \cup {x}
         /\ Len(Append(s, x)) = Len(s) + 1
         /\ \A n \in 1 .. Len(s) : Append(s, x)[n] = s[n]
         /\ Append(s, x)[Len(s) + 1] = x
<1>1. /\ Append(s, x) \in Seq(T)
      /\ Len(s) \in Nat /\ Len(Append(s, x)) = Len(s) + 1
      /\ DOMAIN s = 1 .. Len(s) /\ DOMAIN Append(s, x) = 1 .. (Len(s) + 1)
      /\ \A n \in 1 .. Len(s) : Append(s, x)[n] = s[n]
      /\ Append(s, x)[Len(s) + 1] = x
  OBVIOUS
<1>2. ASSUME NEW n \in DOMAIN Append(s, x)
      PROVE  Append(s, x)[n] \in ToSet(s) \cup {x}
  <2>1. CASE n \in 1 .. Len(s)
    BY <1>1, <2>1 DEF ToSet
  <2>2. CASE n = Len(s) + 1
    BY <1>1, <2>2
  <2> QED
    BY <1>1, <2>1, <2>2
<1>3. ASSUME NEW n \in DOMAIN s PROVE s[n] \in ToSet(Append(s, x))
  <2>1. n \in DOMAIN Append(s, x) /\ Append(s, x)[n] = s[n]
    BY <1>1
  <2> QED
    BY <2>1 DEF ToSet
<1>4. x \in ToSet(Append(s, x))
  BY <1>1 DEF ToSet
<1> QED
  BY <1>1, <1>2, <1>3, <1>4 DEF ToSet

\* The elements of a sequence are of its type.
LEMMA ElementsType ==
  ASSUME NEW T, NEW s \in Seq(T)
  PROVE  ToSet(s) \subseteq T
BY DEF ToSet

\* The directories stay apart, and those that are there stay where they are.
LEMMA AddPathFacts ==
  ASSUME NEW dir \in LibDir, paths \in Seq(LibDir), IsInjective(paths)
  PROVE  /\ AddPath(dir) \in Seq(LibDir)
         /\ IsInjective(AddPath(dir))
         /\ ToSet(AddPath(dir)) = ToSet(paths) \cup {dir}
         /\ Len(paths) <= Len(AddPath(dir))
         /\ \A n \in 1 .. Len(paths) : AddPath(dir)[n] = paths[n]
<1>0. Len(paths) \in Nat /\ DOMAIN paths = 1 .. Len(paths)
  OBVIOUS
<1>1. CASE dir \in ToSet(paths)
  BY <1>0, <1>1 DEF AddPath
<1>2. CASE dir \notin ToSet(paths)
  <2>1. AddPath(dir) = Append(paths, dir)
    BY <1>2 DEF AddPath
  <2>2. /\ Append(paths, dir) \in Seq(LibDir)
        /\ ToSet(Append(paths, dir)) = ToSet(paths) \cup {dir}
        /\ Len(Append(paths, dir)) = Len(paths) + 1
        /\ \A n \in 1 .. Len(paths) : Append(paths, dir)[n] = paths[n]
        /\ Append(paths, dir)[Len(paths) + 1] = dir
    BY AppendFacts
  <2>3. \A n \in 1 .. Len(paths) : paths[n] # dir
    BY <1>0, <1>2 DEF ToSet
  <2>4. IsInjective(Append(paths, dir))
    <3> SUFFICES ASSUME NEW m \in DOMAIN Append(paths, dir),
                        NEW n \in DOMAIN Append(paths, dir),
                        Append(paths, dir)[m] = Append(paths, dir)[n]
                 PROVE  m = n
      BY DEF IsInjective
    <3>1. m \in 1 .. (Len(paths) + 1) /\ n \in 1 .. (Len(paths) + 1)
      BY <2>2
    <3>2. \A k, l \in 1 .. Len(paths) : paths[k] = paths[l] => k = l
      BY <1>0 DEF IsInjective
    <3> QED
      BY <1>0, <2>2, <2>3, <3>1, <3>2
  <2> QED
    BY <1>0, <2>1, <2>2, <2>4
<1> QED
  BY <1>1, <1>2

-----------------------------------------------------------------------------
(* The inductive invariant *)

\* What a line asks for has been done, or will be with the queue.
Done(line) ==
  \/ line \in ToSet(paths)
  \/ line \in conf_files
  \/ line \in ToSet(queue)
  \/ line \in Conf \ DOMAIN system

\* Every line of the files that were opened is done or still to come.
LinesHandled ==
  \A conf \in conf_files : \A line \in ToSet(system[conf]) :
    line \in ToSet(lines) \/ Done(line)

\* The parser makes nothing up: the lines to come and the directories are of
\* the files that were opened.
OnlyLines ==
  /\ \A line \in ToSet(lines) : \E conf \in conf_files : line \in ToSet(system[conf])
  /\ \A dir \in ToSet(paths) :
       \/ dir \in ToSet(Defaults)
       \/ \E conf \in conf_files : dir \in ToSet(system[conf])

\* Any set that has ld.so.conf and what its files include has everything that
\* was opened or will be.
Bounded ==
  \A S \in SUBSET Conf : LdSoConf \in S /\ Closed(S) =>
    conf_files \cup ToSet(queue) \subseteq S

DefaultsFirst ==
  /\ Len(Defaults) <= Len(paths)
  /\ \A n \in 1 .. Len(Defaults) : paths[n] = Defaults[n]

IInv ==
  /\ TypeOK
  /\ system \in Systems
  /\ Done(LdSoConf)
  /\ LinesHandled
  /\ OnlyLines
  /\ Bounded
  /\ DefaultsFirst
  /\ IsInjective(paths)
  /\ pc = "done" => lines = <<>> /\ queue = <<>>

\* What opens is a file made of lines.
LEMMA SystemType ==
  ASSUME system \in Systems, NEW conf \in DOMAIN system
  PROVE  system[conf] \in Seq(Line) /\ conf \in Conf
BY SystemsAssumption

LEMMA InitIInv == Init => IInv
<1> SUFFICES ASSUME Init PROVE IInv
  OBVIOUS
<1>1. /\ system \in Systems /\ queue = <<LdSoConf>> /\ conf_files = {}
      /\ lines = <<>> /\ paths = Defaults /\ pc = "reading"
  BY DEF Init
<1>2. LdSoConf \in Conf /\ Defaults \in Seq(LibDir) /\ IsInjective(Defaults)
  BY SystemsAssumption
<1>3. ToSet(queue) = {LdSoConf} /\ ToSet(lines) = {}
  BY <1>1 DEF ToSet
<1>4. TypeOK
  BY <1>1, <1>2 DEF TypeOK
<1>5. DefaultsFirst
  BY <1>1, <1>2 DEF DefaultsFirst
<1>6. Done(LdSoConf) /\ LinesHandled /\ OnlyLines /\ Bounded
  BY <1>1, <1>3 DEF Done, LinesHandled, OnlyLines, Bounded
<1> QED
  BY <1>1, <1>2, <1>4, <1>5, <1>6 DEF IInv

LEMMA NextIInv == IInv /\ [Next]_vars => IInv'
<1> SUFFICES ASSUME IInv, [Next]_vars PROVE IInv'
  OBVIOUS
<1>type. /\ queue \in Seq(Conf) /\ conf_files \subseteq DOMAIN system
         /\ lines \in Seq(Line) /\ paths \in Seq(LibDir)
         /\ pc \in {"reading", "done", "failed"}
         /\ system \in Systems
  BY DEF IInv, TypeOK
<1>1. CASE Skip
  <2>1. /\ queue # <<>> /\ pc = "reading" /\ Head(queue) \notin DOMAIN system
        /\ queue' = Tail(queue)
        /\ UNCHANGED <<system, conf_files, lines, paths, pc>>
    BY <1>1 DEF Skip, AtNextFile
  <2>2. /\ Head(queue) \in Conf /\ Tail(queue) \in Seq(Conf)
        /\ ToSet(queue) = {Head(queue)} \cup ToSet(queue')
    BY <1>type, <2>1, TailFacts
  <2>3. \A line : Done(line) => Done(line)'
    BY <2>1, <2>2 DEF Done
  <2>4. TypeOK'
    BY <2>1, <2>2 DEF IInv, TypeOK
  <2>5. LinesHandled' /\ Done(LdSoConf)'
    BY <2>1, <2>3 DEF IInv, LinesHandled
  <2>6. OnlyLines' /\ DefaultsFirst'
    BY <2>1 DEF IInv, OnlyLines, DefaultsFirst
  <2>7. Bounded'
    BY <2>1, <2>2 DEF IInv, Bounded, Closed
  <2> QED
    BY <2>1, <2>4, <2>5, <2>6, <2>7 DEF IInv
<1>2. CASE Open
  <2> DEFINE conf == Head(queue)
  <2>1. /\ queue # <<>> /\ lines = <<>> /\ pc = "reading" /\ conf \in DOMAIN system
        /\ queue' = Tail(queue) /\ conf_files' = conf_files \cup {conf}
        /\ lines' = system[conf]
        /\ UNCHANGED <<system, paths, pc>>
    BY <1>2 DEF Open, AtNextFile
  <2>2. /\ conf \in Conf /\ Tail(queue) \in Seq(Conf)
        /\ ToSet(queue) = {conf} \cup ToSet(queue')
    BY <1>type, <2>1, TailFacts
  <2>3. system[conf] \in Seq(Line) /\ ToSet(lines) = {}
    BY <1>type, <2>1, SystemType DEF ToSet
  <2> HIDE DEF conf
  <2>4. \A line : Done(line) => Done(line)'
    BY <2>1, <2>2 DEF Done
  <2>5. TypeOK'
    BY <2>1, <2>2, <2>3 DEF IInv, TypeOK
  <2>6. LinesHandled' /\ Done(LdSoConf)'
    BY <2>1, <2>3, <2>4 DEF IInv, LinesHandled
  <2>7. OnlyLines' /\ DefaultsFirst'
    BY <2>1 DEF IInv, OnlyLines, DefaultsFirst
  <2>8. Bounded'
    BY <2>1, <2>2 DEF IInv, Bounded, Closed
  <2> QED
    BY <2>1, <2>5, <2>6, <2>7, <2>8 DEF IInv
<1>3. CASE Include
  <2>0. PICK conf : conf = Head(lines)
    OBVIOUS
  <2>1. /\ lines # <<>> /\ pc = "reading" /\ conf \in Conf
        /\ queue' = IF NotRead(conf) THEN Append(queue, conf) ELSE queue
        /\ lines' = Tail(lines)
        /\ UNCHANGED <<system, conf_files, paths, pc>>
    BY <1>3, <2>0 DEF Include, AtLine
  <2>2. /\ Tail(lines) \in Seq(Line)
        /\ ToSet(lines) = {conf} \cup ToSet(lines')
    BY <1>type, <2>0, <2>1, TailFacts
  <2>3. /\ queue' \in Seq(Conf)
        /\ ToSet(queue) \subseteq ToSet(queue')
        /\ ToSet(queue') \subseteq ToSet(queue) \cup {conf}
        /\ conf \in conf_files \cup ToSet(queue')
    <3>1. /\ Append(queue, conf) \in Seq(Conf)
          /\ ToSet(Append(queue, conf)) = ToSet(queue) \cup {conf}
      BY <1>type, <2>1, AppendFacts
    <3> QED
      BY <1>type, <2>1, <3>1 DEF NotRead
  <2>4. \A line : Done(line) => Done(line)'
    BY <2>1, <2>3 DEF Done
  <2>5. Done(conf)'
    BY <2>1, <2>3 DEF Done
  <2>6. TypeOK'
    BY <2>1, <2>2, <2>3 DEF IInv, TypeOK
  <2>7. LinesHandled' /\ Done(LdSoConf)'
    BY <2>1, <2>2, <2>4, <2>5 DEF IInv, LinesHandled
  <2>8. OnlyLines' /\ DefaultsFirst'
    BY <2>1, <2>2 DEF IInv, OnlyLines, DefaultsFirst
  <2>9. Bounded'
    <3> SUFFICES ASSUME NEW S \in SUBSET Conf, LdSoConf \in S, Closed(S)
                 PROVE  conf_files \cup ToSet(queue') \subseteq S
      BY <2>1 DEF Bounded, Closed
    <3>1. conf_files \cup ToSet(queue) \subseteq S
      BY DEF IInv, Bounded
    <3>2. PICK from \in conf_files : conf \in ToSet(system[from])
      BY <2>2 DEF IInv, OnlyLines
    <3>3. conf \in S
      BY <1>type, <2>1, <3>1, <3>2 DEF Closed
    <3> QED
      BY <2>3, <3>1, <3>3
  <2> QED
    BY <2>1, <2>6, <2>7, <2>8, <2>9 DEF IInv
<1>4. CASE Directory
  <2>0. PICK dir : dir = Head(lines)
    OBVIOUS
  <2>1. /\ lines # <<>> /\ pc = "reading" /\ dir \in LibDir
        /\ paths' = AddPath(dir) /\ lines' = Tail(lines)
        /\ UNCHANGED <<system, queue, conf_files, pc>>
    BY <1>4, <2>0 DEF Directory, AtLine
  <2>2. /\ Tail(lines) \in Seq(Line)
        /\ ToSet(lines) = {dir} \cup ToSet(lines')
    BY <1>type, <2>0, <2>1, TailFacts
  <2>3. /\ paths' \in Seq(LibDir) /\ IsInjective(paths')
        /\ ToSet(paths') = ToSet(paths) \cup {dir}
        /\ Len(paths) <= Len(paths')
        /\ \A n \in 1 .. Len(paths) : paths'[n] = paths[n]
    BY <1>type, <2>1, AddPathFacts DEF IInv
  <2>4. (\A line : Done(line) => Done(line)') /\ Done(dir)'
    BY <2>1, <2>3 DEF Done
  <2>5. TypeOK'
    BY <2>1, <2>2, <2>3 DEF IInv, TypeOK
  <2>6. LinesHandled' /\ Done(LdSoConf)'
    BY <2>1, <2>2, <2>4 DEF IInv, LinesHandled
  <2>7. OnlyLines'
    BY <2>1, <2>2, <2>3 DEF IInv, OnlyLines
  <2>8. DefaultsFirst'
    <3>1. Len(Defaults) \in Nat /\ Len(paths) \in Nat /\ Len(paths') \in Nat
      BY <1>type, <2>3, SystemsAssumption
    <3> QED
      BY <2>3, <3>1 DEF IInv, DefaultsFirst
  <2>9. Bounded'
    BY <2>1 DEF IInv, Bounded, Closed
  <2> QED
    BY <2>1, <2>3, <2>5, <2>6, <2>7, <2>8, <2>9 DEF IInv
<1>5. CASE Fail
  BY <1>5 DEF Fail, IInv, TypeOK, Done, LinesHandled, OnlyLines, Bounded, Closed,
              DefaultsFirst
<1>6. CASE Finish
  BY <1>6 DEF Finish, IInv, TypeOK, Done, LinesHandled, OnlyLines, Bounded, Closed,
              DefaultsFirst
<1>7. CASE UNCHANGED vars
  BY <1>7 DEF vars, IInv, TypeOK, Done, LinesHandled, OnlyLines, Bounded, Closed,
              DefaultsFirst
<1> QED
  BY <1>1, <1>2, <1>3, <1>4, <1>5, <1>6, <1>7 DEF Next

\* With nothing to come, the files that were opened are those that are reached.
LEMMA OpenedIsReached ==
  ASSUME IInv, pc = "done"
  PROVE  conf_files = Reached
<1>1. ToSet(queue) = {} /\ ToSet(lines) = {}
  BY DEF IInv, ToSet
<1>2. conf_files \subseteq DOMAIN system /\ DOMAIN system \subseteq Conf
  BY SystemsAssumption DEF IInv, TypeOK
<1>3. conf_files \subseteq Reached
  BY <1>1, <1>2 DEF IInv, Bounded, Reached
<1> DEFINE S == conf_files \cup (Conf \ DOMAIN system)
<1>4. S \in SUBSET Conf /\ S \cap DOMAIN system = conf_files
  BY <1>2
<1>5. \A line \in Conf : Done(line) => line \in S
  <2>1. ToSet(paths) \cap Conf = {}
    BY SystemsAssumption, ElementsType DEF IInv, TypeOK
  <2> QED
    BY <1>1, <2>1 DEF Done
<1>6. LdSoConf \in S
  BY <1>5, SystemsAssumption DEF IInv
<1>7. Closed(S)
  BY <1>1, <1>4, <1>5 DEF IInv, LinesHandled, Closed
<1> QED
  BY <1>3, <1>4, <1>6, <1>7 DEF Reached

\* With nothing to come, the directories are those of the files that are reached.
LEMMA IInvAllDirectories == IInv => AllDirectories
<1> SUFFICES ASSUME IInv, pc = "done" PROVE AllDirectories
  BY DEF AllDirectories
<1>1. ToSet(queue) = {} /\ ToSet(lines) = {}
  BY DEF IInv, ToSet
<1>2. conf_files = Reached
  BY OpenedIsReached
<1>3. Defaults \in Seq(LibDir) /\ paths \in Seq(LibDir)
  BY SystemsAssumption DEF IInv, TypeOK
<1>4. IsPrefix(Defaults, paths)
  BY <1>3 DEF IInv, DefaultsFirst, IsPrefix
<1>5. ASSUME NEW dir \in ToSet(Defaults) PROVE dir \in ToSet(paths)
  <2>1. PICK n \in DOMAIN Defaults : dir = Defaults[n]
    BY DEF ToSet
  <2>2. n \in 1 .. Len(Defaults) /\ Len(Defaults) \in Nat /\ Len(paths) \in Nat
        /\ DOMAIN paths = 1 .. Len(paths)
    BY <1>3
  <2>3. n \in DOMAIN paths /\ paths[n] = dir
    BY <2>1, <2>2 DEF IInv, DefaultsFirst
  <2> QED
    BY <2>3 DEF ToSet
<1>6. ASSUME NEW dir \in LibDir, NEW conf \in Reached, dir \in ToSet(system[conf])
      PROVE  dir \in ToSet(paths)
  <2>1. Done(dir)
    BY <1>1, <1>2, <1>6 DEF IInv, LinesHandled
  <2>2. dir \notin conf_files
    BY SystemsAssumption DEF IInv, TypeOK
  <2> QED
    BY <1>1, <2>1, <2>2, SystemsAssumption DEF Done
<1>7. ASSUME NEW dir \in ToSet(paths)
      PROVE  /\ dir \in LibDir
             /\ \/ dir \in ToSet(Defaults)
                \/ \E conf \in Reached : dir \in ToSet(system[conf])
  BY <1>2, <1>3, ElementsType DEF IInv, OnlyLines
<1>8. IsInjective(paths)
  BY DEF IInv
<1> DEFINE named == {dir \in LibDir : \E conf \in Reached : dir \in ToSet(system[conf])}
<1>9. ToSet(paths) = ToSet(Defaults) \cup named
  BY <1>5, <1>6, <1>7
<1> QED
  BY <1>4, <1>8, <1>9 DEF AllDirectories

-----------------------------------------------------------------------------
(* Theorems *)

\* The invariant holds in every state of parse_ld_so_conf.
THEOREM ParserInvariant == Spec => []IInv
<1> QED
  BY InitIInv, NextIInv, PTL DEF Spec

\* The queue, the lines and the result are well-formed, whatever is included.
THEOREM ParserTypeCorrect == Spec => []TypeOK
<1>1. IInv => TypeOK
  BY DEF IInv
<1> QED
  BY <1>1, ParserInvariant, PTL

\* For any files and includes, with cycles and files that cannot be opened, the
\* parser finds exactly the directories of the files that are reached, behind the
\* default ones and each once.
THEOREM AllDirectoriesFound == Spec => []AllDirectories
<1> QED
  BY IInvAllDirectories, ParserInvariant, PTL
===============================================================================

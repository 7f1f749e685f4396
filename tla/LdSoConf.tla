------------------------------- MODULE LdSoConf -------------------------------
(***************************************************************************)
(* The library directories of glibc: get_search_dirs and parse_ld_so_conf  *)
(* (dl/src/glibc.rs).  etc/ld.so.conf lists directories and includes other *)
(* files, which may include each other.                                    *)
(***************************************************************************)
EXTENDS Naturals, Sequences, SequencesExt

CONSTANTS
  Conf,      \* paths of configuration files,
  LdSoConf,  \* etc/ld.so.conf among them
  LibDir,    \* directories
  NotText,   \* a line that cannot be read
  Defaults,  \* lib, usr/local/lib, usr/lib
  Systems    \* the files to start from

\* A line stands for the directory it names or for a file that it includes, once
\* for each file that its pattern matches.  Other lines are left out.
Line == LibDir \cup Conf \cup {NotText}

ASSUME SystemsAssumption ==
  /\ LdSoConf \in Conf
  /\ LibDir \cap Conf = {} /\ NotText \notin LibDir \cup Conf
  /\ Defaults \in Seq(LibDir) /\ IsInjective(Defaults)
  /\ \A system \in Systems : /\ DOMAIN system \subseteq Conf
                             /\ system \in [DOMAIN system -> Seq(Line)]

VARIABLES
  system,      \* the files that can be opened
  queue,
  conf_files,  \* those that were opened
  lines,       \* what is left of the last one
  paths,
  pc

vars == <<system, queue, conf_files, lines, paths, pc>>

Init ==
  /\ system \in Systems
  /\ queue = <<LdSoConf>>
  /\ conf_files = {}
  /\ lines = <<>>
  /\ paths = Defaults
  /\ pc = "reading"

AtNextFile == pc = "reading" /\ lines = <<>> /\ queue # <<>>
AtLine == pc = "reading" /\ lines # <<>>

\* NotFound, and any other error of open.
Skip ==
  /\ AtNextFile
  /\ Head(queue) \notin DOMAIN system
  /\ queue' = Tail(queue)
  /\ UNCHANGED <<system, conf_files, lines, paths, pc>>

Open ==
  /\ AtNextFile
  /\ Head(queue) \in DOMAIN system
  /\ queue' = Tail(queue)
  /\ conf_files' = conf_files \cup {Head(queue)}
  /\ lines' = system[Head(queue)]
  /\ UNCHANGED <<system, paths, pc>>

\* The files in the queue are looked at, and not those that were read.
NotQueued(conf) == conf \notin ToSet(queue)

\* The files in the queue are not looked at.
NotRead(conf) == conf \notin conf_files

\* Included files are read after those that are in the queue.
Include ==
  /\ AtLine
  /\ Head(lines) \in Conf
  /\ queue' = IF NotRead(Head(lines)) THEN Append(queue, Head(lines)) ELSE queue
  /\ lines' = Tail(lines)
  /\ UNCHANGED <<system, conf_files, paths, pc>>

\* AddPath without the search for it.
PushPath(dir) == Append(paths, dir)

AddPath(dir) == IF dir \in ToSet(paths) THEN paths ELSE Append(paths, dir)

Directory ==
  /\ AtLine
  /\ Head(lines) \in LibDir
  /\ paths' = AddPath(Head(lines))
  /\ lines' = Tail(lines)
  /\ UNCHANGED <<system, queue, conf_files, pc>>

\* A line that cannot be read is returned as an error.
Fail ==
  /\ AtLine
  /\ Head(lines) = NotText
  /\ pc' = "failed"
  /\ UNCHANGED <<system, queue, conf_files, lines, paths>>

Finish ==
  /\ pc = "reading" /\ lines = <<>> /\ queue = <<>>
  /\ pc' = "done"
  /\ UNCHANGED <<system, queue, conf_files, lines, paths>>

Next == Skip \/ Open \/ Include \/ Directory \/ Fail \/ Finish

Spec == Init /\ [][Next]_vars /\ WF_vars(Next)

-----------------------------------------------------------------------------
(* Properties *)

\* The queue of parse_ld_so_conf holds configuration files and its result
\* directories.
TypeOK ==
  /\ queue \in Seq(Conf)
  /\ conf_files \subseteq DOMAIN system
  /\ lines \in Seq(Line)
  /\ paths \in Seq(LibDir)
  /\ pc \in {"reading", "done", "failed"}

\* A set of files that has what its files include.
Closed(S) ==
  \A conf \in S \cap DOMAIN system : ToSet(system[conf]) \cap Conf \subseteq S

\* The files that ld.so.conf includes, directly or through others.
Reached ==
  {conf \in DOMAIN system :
     \A S \in SUBSET Conf : LdSoConf \in S /\ Closed(S) => conf \in S}

\* "Get default library search directories plus the paths from
\* <rootfs_dir>/etc/ld.so.conf."  At the end the directories are the default
\* ones first and then those of the files that ld.so.conf includes, directly or
\* through others, whatever cycles there are; each of them once.
AllDirectories ==
  pc = "done" =>
    /\ IsPrefix(Defaults, paths)
    /\ IsInjective(paths)
    /\ ToSet(paths) =
         ToSet(Defaults)
         \cup {dir \in LibDir : \E conf \in Reached : dir \in ToSet(system[conf])}

\* Files that include each other do not keep the parser busy for ever.
Terminates == <>(pc # "reading")
===============================================================================

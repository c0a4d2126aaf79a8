---------------------------- MODULE DoxyOutputDir ----------------------------
(***************************************************************************)
(* How doxygen.runnable_status (src/.waf-tools/doxygen.py) turns           *)
(* OUTPUT_DIRECTORY into the node post_run harvests, against where the     *)
(* doxygen process, started by run() with cwd = bld.path.get_bld(), writes *)
(* its output.                                                             *)
(*                                                                         *)
(* A path is a sequence of directory names from the filesystem root; an    *)
(* OUTPUT_DIRECTORY value is its names and whether it is absolute.  waf's  *)
(* Node.find_dir drops the empty names of a split path, so the root node  *)
(* looks a relative path up from the root as if it were absolute.         *)
(***************************************************************************)
EXTENDS Sequences

CONSTANTS
  Candidates,   \* directories that may exist below the filesystem root
  BldDir,       \* bld.path.get_bld(): the build directory
  OutChoices    \* OUTPUT_DIRECTORY values: [abs : BOOLEAN, names : Seq]

None == <<"none">>

VARIABLES
  dirs,   \* the directories that exist when the task is first polled
  out     \* self.pars['OUTPUT_DIRECTORY']

\* bld.root.find_dir(path): the existing directory with these names from
\* the root, for a relative path as for an absolute one; no names at all
\* (the value '') is the root itself.
FindDir(o) == IF o.names = <<>> \/ o.names \in dirs THEN o.names ELSE None

\* bld.path.find_or_declare(path): an absolute path from the root, a
\* relative one below the build directory.
FindOrDeclare(o) == IF o.abs THEN o.names ELSE BldDir \o o.names

\* self.output_dir: find_dir first, find_or_declare when it found nothing.
OutputDirOf(o) == IF FindDir(o) # None THEN FindDir(o) ELSE FindOrDeclare(o)

\* The directory the doxygen process writes to: a relative OUTPUT_DIRECTORY
\* is resolved against its working directory, the build directory, and an
\* empty one is that directory.
ProcessOutputDir(o) == IF o.abs THEN o.names ELSE BldDir \o o.names

Init ==
  /\ dirs \in SUBSET Candidates
  /\ out \in OutChoices

Next == UNCHANGED <<dirs, out>>

Spec == Init /\ [][Next]_<<dirs, out>>

(***************************************************************************)
(* post_run harvests the directory the doxygen process wrote to, as the   *)
(* comment "First try to find an absolute path, then find or declare a    *)
(* relative path" intends: a relative OUTPUT_DIRECTORY names a directory  *)
(* below the build directory whatever exists at the filesystem root, and  *)
(* an empty one (left by a generator.pars override, applied after the     *)
(* default) is never the root.                                             *)
(***************************************************************************)
HarvestsWhereDoxygenWrites == OutputDirOf(out) = ProcessOutputDir(out)

=============================================================================

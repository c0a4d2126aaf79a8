----------------------------- MODULE DoxyRebuild -----------------------------
(***************************************************************************)
(* Successive builds of one doxygen task and its tar task (process_doxy    *)
(* with doxy_tar, src/.waf-tools/doxygen.py) over waf's signature store.  *)
(*                                                                         *)
(* waf keeps bld.task_sigs in memory during a build and writes it to disk *)
(* at the end of Build.compile, also when the build failed or was         *)
(* interrupted with Ctrl-C; a killed process writes nothing.  A task's    *)
(* signature is deleted when it starts to run and set again by a          *)
(* successful post_run.  Task.Task.runnable_status answers SKIP_ME when   *)
(* the stored signature equals the new one and every node of self.outputs *)
(* still exists with its signature.                                        *)
(*                                                                         *)
(* Contents are abstracted to a few values, compared as waf compares      *)
(* content hashes.  What the doxygen process's output depends on is cfg,  *)
(* a content per source: the scanned input files, the Doxyfile, the env   *)
(* values DOXYGEN and DOXYFLAGS, and the generator.pars the wscript       *)
(* passes; an edit between builds gives one of them another content,      *)
(* possibly one it had before (a revert).  Docs                           *)
(* and archive on disk hold the cfg they were made from, Absent when      *)
(* missing, Partial when a process died while writing it.  The tar       *)
(* signature is the docs it archives.                                      *)
(***************************************************************************)
EXTENDS Integers

CONSTANTS
  MaxBuilds,  \* builds run one after the other
  MaxEdits,   \* edits of the doxygen inputs between builds; contents 0..MaxEdits
  Faults,     \* subset of {"kill", "interrupt", "tar_crash", "delete"}
  EditKinds   \* what may be edited between builds: subset of Sources

\* The sources of the docs, as the version of each.
Sources == {"input", "doxyfile", "env", "pars"}
Absent == [absent |-> TRUE]
\* Output a process that died while writing it left half-written.
Partial == [partial |-> TRUE]
Tasks == {"doxygen", "tar"}
\* The contents a source may have.
Contents == 0..MaxEdits

VARIABLES
  cfg,        \* [Sources -> Contents]: the current content of each source
  edits,      \* edits made so far
  build,      \* number of the current build
  phase,      \* "run" while the build runs, "over" after it
  hasrun,     \* task.hasrun, per task
  pc,         \* "idle", or "run" while a worker runs the task
  outputs,    \* doxygen self.outputs is not empty
  tarDone,    \* tar self.tar_done_adding
  tarInputs,  \* tar self.inputs is not empty
  sigs,       \* bld.task_sigs in memory
  stored,     \* bld.task_sigs on disk
  docs,       \* version of the doxygen output directory on disk
  archive,    \* the cfg the archive on disk was made from
  lost        \* history: a kill has discarded signatures set since the last store

vars == <<cfg, edits, build, phase, hasrun, pc, outputs, tarDone, tarInputs, sigs,
          stored, docs, archive, lost>>

-----------------------------------------------------------------------------
\* Task.Task.runnable_status after the run_after checks: SKIP_ME when the
\* stored signature is the new one and every output node exists.
UpToDate(t, sig, outputsExist) == sigs[t] = sig /\ outputsExist

\* A worker takes a RUN_ME task: Task.process deletes its signature first.
StartRun(t) ==
  /\ pc' = [pc EXCEPT ![t] = "run"]
  /\ sigs' = [sigs EXCEPT ![t] = Absent]

\* Mutant of DoxySig: the signature misses the class's vars.
DoxySigNoVars(c) == [k \in {"input", "doxyfile"} |-> c[k]]

\* self.signature(): the explicit input self.inputs (the Doxyfile), the env
\* values named by vars = ['DOXYGEN', 'DOXYFLAGS'], and the files scan()
\* returns; generator.pars is none of these.
DoxySig(c) == [k \in {"input", "doxyfile", "env"} |-> c[k]]

\* doxygen.runnable_status: self.signature(), then the base.  self.outputs
\* is still empty here, so no output node is checked.
DoxyPoll ==
  /\ phase = "run" /\ hasrun["doxygen"] = "NOT_RUN" /\ pc["doxygen"] = "idle"
  /\ IF UpToDate("doxygen", DoxySig(cfg), TRUE)
     THEN hasrun' = [hasrun EXCEPT !["doxygen"] = "SKIPPED"] /\ UNCHANGED <<pc, sigs>>
     ELSE StartRun("doxygen") /\ UNCHANGED hasrun
  /\ UNCHANGED <<lost, cfg, edits, build, phase, outputs, tarDone, tarInputs, stored, docs, archive>>

\* What a process leaves in its output when it dies: the old output, or,
\* when it was running, a half-written one.
Torn(t, old) == IF pc[t] = "run" THEN {old, Partial} ELSE {old}

\* post_run: ant_glob('**/*') of the output directory, added to self.outputs.
Harvest(dir) == dir # Absent

\* Mutant of DoxyFinish: run drops `return proc.returncode`, so a doxygen
\* that failed half-way is taken for a success and post_run records it.
DoxyFinishIgnoreExit ==
  /\ pc["doxygen"] = "run"
  /\ pc' = [pc EXCEPT !["doxygen"] = "idle"]
  /\ docs' \in {cfg, Partial}
  /\ outputs' = Harvest(docs')
  /\ sigs' = [sigs EXCEPT !["doxygen"] = DoxySig(cfg)]
  /\ hasrun' = [hasrun EXCEPT !["doxygen"] = "SUCCESS"]
  /\ UNCHANGED <<lost, cfg, edits, build, phase, tarDone, tarInputs, stored, archive>>

\* doxygen.run() hands the process the Doxyfile's keys with the
\* generator.pars overrides, it writes the docs and returns 0, then
\* post_run; or doxygen exits non-zero (CRASHED, no post_run), leaving the
\* old docs or docs it had begun to overwrite.
DoxyFinish ==
  /\ pc["doxygen"] = "run"
  /\ pc' = [pc EXCEPT !["doxygen"] = "idle"]
  /\ \/ /\ docs' = cfg
        /\ outputs' = Harvest(cfg)
        /\ sigs' = [sigs EXCEPT !["doxygen"] = DoxySig(cfg)]
        /\ hasrun' = [hasrun EXCEPT !["doxygen"] = "SUCCESS"]
     \/ /\ hasrun' = [hasrun EXCEPT !["doxygen"] = "CRASHED"]
        /\ docs' \in Torn("doxygen", docs)
        /\ UNCHANGED <<outputs, sigs>>
  /\ UNCHANGED <<lost, cfg, edits, build, phase, tarDone, tarInputs, stored, archive>>

\* tar.runnable_status: wait for the doxygen task, pull its outputs once,
\* SKIP_ME when there are none; else the base, whose signature covers the
\* pulled docs and whose output node is the archive.
TarPoll ==
  /\ phase = "run" /\ hasrun["tar"] = "NOT_RUN" /\ pc["tar"] = "idle"
  /\ hasrun["doxygen"] # "NOT_RUN"
  /\ tarDone' = TRUE
  /\ tarInputs' = IF tarDone THEN tarInputs ELSE outputs
  /\ IF ~tarInputs'
     THEN hasrun' = [hasrun EXCEPT !["tar"] = "SKIPPED"] /\ UNCHANGED <<pc, sigs>>
     ELSE IF UpToDate("tar", docs, archive # Absent)
     THEN hasrun' = [hasrun EXCEPT !["tar"] = "SKIPPED"] /\ UNCHANGED <<pc, sigs>>
     ELSE StartRun("tar") /\ UNCHANGED hasrun
  /\ UNCHANGED <<lost, cfg, edits, build, phase, outputs, stored, docs, archive>>

\* The tar process archives the docs; with "tar_crash" it may fail,
\* leaving the old archive or a truncated one.
TarFinish ==
  /\ pc["tar"] = "run"
  /\ pc' = [pc EXCEPT !["tar"] = "idle"]
  /\ \/ /\ archive' = docs
        /\ sigs' = [sigs EXCEPT !["tar"] = docs]
        /\ hasrun' = [hasrun EXCEPT !["tar"] = "SUCCESS"]
     \/ /\ "tar_crash" \in Faults
        /\ hasrun' = [hasrun EXCEPT !["tar"] = "CRASHED"]
        /\ archive' \in Torn("tar", archive)
        /\ UNCHANGED sigs
  /\ UNCHANGED <<lost, cfg, edits, build, phase, outputs, tarDone, tarInputs, stored, docs>>

-----------------------------------------------------------------------------
(* Build.compile (waflib) and the user between builds. *)

\* Every task has finished: the signatures are stored.
EndBuild ==
  /\ phase = "run"
  /\ \A t \in Tasks : hasrun[t] # "NOT_RUN" /\ pc[t] = "idle"
  /\ phase' = "over" /\ stored' = sigs
  /\ UNCHANGED <<lost, cfg, edits, build, hasrun, pc, outputs, tarDone, tarInputs, sigs, docs, archive>>

\* Ctrl-C: KeyboardInterrupt in compile stores the signatures and stops;
\* the running doxygen or tar process, in the same process group, gets
\* the SIGINT too.
Interrupt ==
  /\ "interrupt" \in Faults
  /\ phase = "run"
  /\ phase' = "over" /\ stored' = sigs
  /\ docs' \in Torn("doxygen", docs) /\ archive' \in Torn("tar", archive)
  /\ UNCHANGED <<lost, cfg, edits, build, hasrun, pc, outputs, tarDone, tarInputs, sigs>>

\* waf is killed with its running processes: nothing is stored, so the
\* signatures this build deleted or set are lost.
Kill ==
  /\ "kill" \in Faults
  /\ phase = "run"
  /\ phase' = "over"
  /\ lost' = (lost \/ sigs # stored)
  /\ docs' \in Torn("doxygen", docs) /\ archive' \in Torn("tar", archive)
  /\ UNCHANGED <<cfg, edits, build, hasrun, pc, outputs, tarDone, tarInputs, sigs, stored>>

\* Between builds the user may edit a doxygen input and, with "delete",
\* remove the docs or the archive; then a new `waf build` starts with fresh
\* task objects and bld.task_sigs loaded from disk.
NewBuild ==
  /\ phase = "over" /\ build < MaxBuilds
  /\ \/ UNCHANGED <<cfg, edits>>
     \/ \E k \in EditKinds :
          /\ edits < MaxEdits
          /\ \E v \in Contents \ {cfg[k]} : cfg' = [cfg EXCEPT ![k] = v]
          /\ edits' = edits + 1
  /\ \E gone \in {{}} \cup (IF "delete" \in Faults THEN {{"docs"}, {"archive"}} ELSE {}) :
       /\ docs' = IF "docs" \in gone THEN Absent ELSE docs
       /\ archive' = IF "archive" \in gone THEN Absent ELSE archive
  /\ build' = build + 1
  /\ phase' = "run"
  /\ hasrun' = [t \in Tasks |-> "NOT_RUN"]
  /\ pc' = [t \in Tasks |-> "idle"]
  /\ outputs' = FALSE /\ tarDone' = FALSE /\ tarInputs' = FALSE
  /\ sigs' = stored
  /\ UNCHANGED <<stored, lost>>

Init ==
  /\ cfg = [k \in Sources |-> 0] /\ edits = 0 /\ build = 1 /\ phase = "run"
  /\ hasrun = [t \in Tasks |-> "NOT_RUN"]
  /\ pc = [t \in Tasks |-> "idle"]
  /\ outputs = FALSE /\ tarDone = FALSE /\ tarInputs = FALSE
  /\ sigs = [t \in Tasks |-> Absent]
  /\ stored = [t \in Tasks |-> Absent]
  /\ docs = Absent /\ archive = Absent
  /\ lost = FALSE

\* The last build is over: nothing is left to run.
Done ==
  /\ phase = "over" /\ build = MaxBuilds
  /\ UNCHANGED vars

Next ==
  \/ DoxyPoll \/ DoxyFinish \/ TarPoll \/ TarFinish
  \/ EndBuild \/ Interrupt \/ Kill
  \/ NewBuild \/ Done

Spec == Init /\ [][Next]_vars

-----------------------------------------------------------------------------
\* Every task of the build ended SUCCESS or SKIPPED.
Clean == \A t \in Tasks : hasrun[t] \in {"SUCCESS", "SKIPPED"}

(***************************************************************************)
(* A build in which no task failed leaves documentation made from the     *)
(* current content of the scanned inputs, the Doxyfile and the doxygen   *)
(* command and flags, also after they were changed and changed back: the  *)
(* signature of a doxygen task that failed, was interrupted or died half-  *)
(* way never lets a later build skip it.  This holds until a kill loses   *)
(* signatures of a build (lost); what follows such a kill is the kill     *)
(* route of CleanBuildLeavesFreshOutputs.                                  *)
(***************************************************************************)
CleanBuildLeavesFreshDocs ==
  ~lost /\ phase = "over" /\ Clean => docs = cfg

(***************************************************************************)
(* A signature in bld.task_sigs that would make a task SKIP_ME vouches for *)
(* its output on disk: a doxygen signature equal to that of the current   *)
(* sources means the docs were made from them, and a tar signature equal  *)
(* to the current docs means the archive holds them.  A process that died *)
(* half-way through its output must never leave behind a signature that   *)
(* lets the next build keep the half-written output, even once the        *)
(* sources are reverted to what the signature was computed from.  As      *)
(* above, until a kill loses signatures.                                  *)
(***************************************************************************)
SignaturesVouchForOutputs ==
  ~lost =>
    /\ sigs["doxygen"] = DoxySig(cfg) => docs = cfg
    /\ sigs["tar"] = docs /\ archive # Absent => archive = docs

(***************************************************************************)
(* A build in which no task failed leaves the documentation and its        *)
(* archive on disk, both made from the current doxygen inputs: neither a  *)
(* build stopped between the two tasks or killed, nor an output removed   *)
(* by hand, may leave a later clean build with a missing or older archive *)
(* or docs.                                                               *)
(***************************************************************************)
CleanBuildLeavesFreshOutputs ==
  phase = "over" /\ Clean => docs = cfg /\ archive = cfg

=============================================================================

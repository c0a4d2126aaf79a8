------------------------------ MODULE DoxyBuild ------------------------------
(***************************************************************************)
(* The doxygen and tar build tasks of src/.waf-tools/doxygen.py, run by    *)
(* waf's polling scheduler.                                                *)
(*                                                                         *)
(* The scheduler's main thread polls every unfinished task with            *)
(* runnable_status(); a task answering RUN_ME is handed to a worker thread *)
(* which calls run() and, when run() returns 0, post_run(), and only then  *)
(* sets hasrun.  Main-thread polls and worker steps interleave freely.     *)
(*                                                                         *)
(*   Ups    upstream tasks in a doxygen task's run_after; one of them may  *)
(*          generate the Doxyfile (for example a subst task).              *)
(*   Doxys  doxygen tasks, one per bld(features="doxygen").                *)
(*   Tars   tar tasks, one per doxygen task generator given doxy_tar;      *)
(*          TarFor[t] is its input_tasks[0].  The class attribute          *)
(*          after = ['doxygen'] puts every doxygen task in its run_after.  *)
(*                                                                         *)
(* A Doxyfile is abstracted to the two keys the task interprets:           *)
(* OUTPUT_DIRECTORY ("" when unset or empty, "dir" when a path) and INPUT  *)
(* (NoKey when absent, "" when empty, "src" when it names an existing      *)
(* directory, "missing" when it names none).  The generator's pars         *)
(* override has the same two keys, NoKey meaning the key is not given.    *)
(* A file is named by the task that produced it.                           *)
(***************************************************************************)
EXTENDS Naturals, Sequences, FiniteSets, SequencesExt

CONSTANTS
  Ups,          \* upstream task ids
  Doxys,        \* doxygen task ids
  Tars,         \* tar task ids
  TarFor,       \* [Tars -> Doxys]: tsk.input_tasks = [dsk]
  RunAfter,     \* [Doxys -> SUBSET Ups]: the doxygen task's run_after
  Producer,     \* [Doxys -> Ups \cup {NoProducer}]: who writes the Doxyfile
  NoProducer,
  NoKey,
  DocChoices,   \* Doxyfile contents the model starts from
  GenChoices    \* generator.pars overrides the model starts from

ASSUME TarFor \in [Tars -> Doxys]
ASSUME RunAfter \in [Doxys -> SUBSET Ups]
ASSUME \A d \in Doxys : Producer[d] \in RunAfter[d] \cup {NoProducer}

Tasks == Ups \cup Doxys \cup Tars
Files == Ups \cup Doxys

Status == {"NOT_RUN", "SUCCESS", "CRASHED", "CANCELED", "SKIPPED"}
\* hasrun values below SKIPPED make Task.runnable_status answer CANCEL_ME
Failed == {"CRASHED", "CANCELED"}

OutVals == {"", "dir"}
InVals == {NoKey, "", "src", "missing"}
DocRec == [out : OutVals, input : InVals]
GenRec == [out : OutVals \cup {NoKey}, input : InVals]
ParsRec == [out : OutVals \cup {"derived"}, input : InVals, fresh : BOOLEAN]
NoPars == [none |-> TRUE]
NotRun == <<>>

VARIABLES
  hasrun,      \* task.hasrun
  pc,          \* "ready": in the scheduler's queues; "run": handed to a
               \* worker; "post_run": run() returned 0, post_run() pending
  fs,          \* files present on disk
  doc,         \* each doxygen task's Doxyfile as its producer writes it
  gen,         \* each doxygen task generator's pars override
  pars,        \* doxygen self.pars, and whether read after the Doxyfile was written
  doxyInputs,  \* doxygen self.doxy_inputs
  outputDir,   \* doxygen self.output_dir: "none", "own" or "root"
  genInput,    \* the INPUT the doxygen process was given (NotRun before)
  outputs,     \* doxygen self.outputs
  tarDone,     \* tar self.tar_done_adding
  tarInputs,   \* tar self.inputs
  archive,     \* files the tar process archived
  buildError   \* "none", or "fatal" after bld.fatal()

vars == <<hasrun, pc, fs, doc, gen, pars, doxyInputs, outputDir, genInput,
          outputs, tarDone, tarInputs, archive, buildError>>

-----------------------------------------------------------------------------
(***************************************************************************)
(* Task.Task.runnable_status (waflib), the base each override ends with:   *)
(* wait while a run_after task has not run, cancel when one failed, else  *)
(* run (a fresh build has no stored signature to compare against).        *)
(***************************************************************************)
TaskStatus(deps) ==
  IF \E x \in deps : hasrun[x] = "NOT_RUN" THEN "ASK_LATER"
  ELSE IF \E x \in deps : hasrun[x] \in Failed THEN "CANCEL_ME"
  ELSE "RUN_ME"

\* The scheduler's reaction to a status returned by runnable_status.
Dispatch(t, st) ==
  /\ pc' = [pc EXCEPT ![t] = IF st = "RUN_ME" THEN "run" ELSE @]
  /\ hasrun' = [hasrun EXCEPT ![t] = CASE st = "CANCEL_ME" -> "CANCELED"
                                       [] st = "SKIP_ME"   -> "SKIPPED"
                                       [] OTHER            -> @]

Pollable(t) == pc[t] = "ready" /\ hasrun[t] = "NOT_RUN" /\ buildError = "none"

-----------------------------------------------------------------------------
(* Upstream tasks: generic producers with no run_after of their own.      *)

UpRunnableStatus(u) ==
  /\ Pollable(u)
  /\ Dispatch(u, "RUN_ME")
  /\ UNCHANGED <<fs, doc, gen, pars, doxyInputs, outputDir, genInput, outputs,
                 tarDone, tarInputs, archive, buildError>>

\* Task.process: run() may fail after or before writing its output file.
UpProcess(u) ==
  /\ pc[u] = "run"
  /\ \E ok, wrote \in BOOLEAN :
       /\ fs' = IF ok \/ wrote THEN fs \cup {u} ELSE fs
       /\ hasrun' = [hasrun EXCEPT ![u] = IF ok THEN "SUCCESS" ELSE "CRASHED"]
  /\ pc' = [pc EXCEPT ![u] = "ready"]
  /\ UNCHANGED <<doc, gen, pars, doxyInputs, outputDir, genInput, outputs,
                 tarDone, tarInputs, archive, buildError>>

-----------------------------------------------------------------------------
(* doxygen task *)

\* Reading the Doxyfile sees what its producer wrote only once it has.
DoxyfileWritten(d) == Producer[d] = NoProducer \/ Producer[d] \in fs

\* Mutants of DoxyWaits: the run_after loop dropped; waiting for SUCCESS.
DoxyWaitsDropped(d) == FALSE
DoxyWaitsForSuccess(d) == \E x \in RunAfter[d] : hasrun[x] # "SUCCESS"

\* for x in self.run_after: if not x.hasrun: return Task.ASK_LATER
DoxyWaits(d) == \E x \in RunAfter[d] : hasrun[x] = "NOT_RUN"

\* parse_doxy, then the OUTPUT_DIRECTORY default, then generator.pars.
ParsOf(d) ==
  LET out0 == IF doc[d].out = "" THEN "derived" ELSE doc[d].out
  IN [out   |-> IF gen[d].out = NoKey THEN out0 ELSE gen[d].out,
      input |-> IF gen[d].input = NoKey THEN doc[d].input ELSE gen[d].input,
      fresh |-> DoxyfileWritten(d)]

\* doxy_inputs: the Doxyfile's directory without INPUT, else each INPUT path.
DoxyInputsOf(p) == IF p.input \in {NoKey, ""} THEN <<"docdir">> ELSE <<p.input>>

\* root.find_dir(OUTPUT_DIRECTORY): an empty path finds the root itself.
OutputDirOf(p) == IF p.out = "" THEN "root" ELSE "own"

DoxyRunnableStatus(d) ==
  /\ Pollable(d)
  /\ ~DoxyWaits(d)
  /\ LET p == IF pars[d] = NoPars THEN ParsOf(d) ELSE pars[d]
     IN /\ pars' = [pars EXCEPT ![d] = p]
        /\ IF p.input = "missing"
             THEN \* bld.fatal('Could not find the doxygen input %r')
                  /\ buildError' = "fatal"
                  /\ UNCHANGED <<hasrun, pc, doxyInputs, outputDir>>
             ELSE /\ doxyInputs' = [doxyInputs EXCEPT ![d] =
                                     IF pars[d] = NoPars THEN DoxyInputsOf(p) ELSE @]
                  /\ outputDir' = [outputDir EXCEPT ![d] =
                                     IF @ = "none" THEN OutputDirOf(p) ELSE @]
                  /\ Dispatch(d, TaskStatus(RunAfter[d]))
                  /\ UNCHANGED buildError
  /\ UNCHANGED <<fs, doc, gen, genInput, outputs, tarDone, tarInputs, archive>>

\* Mutant of GeneratorInput: the Doxyfile's INPUT passed through unresolved.
GeneratorInputRaw(d) == <<pars[d].input>>

\* run(): INPUT is replaced by doxy_inputs, but only keys of self.pars are
\* written to the process, so without an INPUT key it gets none and
\* searches its working directory.
GeneratorInput(d) == IF pars[d].input = NoKey THEN <<"cwd">> ELSE doxyInputs[d]

DoxyRun(d) ==
  /\ pc[d] = "run"
  /\ genInput' = [genInput EXCEPT ![d] = GeneratorInput(d)]
  /\ \E code \in {0, 1}, wrote \in BOOLEAN :
       /\ fs' = IF wrote THEN fs \cup {d} ELSE fs
       /\ pc' = [pc EXCEPT ![d] = IF code = 0 THEN "post_run" ELSE "ready"]
       /\ hasrun' = [hasrun EXCEPT ![d] = IF code = 0 THEN @ ELSE "CRASHED"]
  /\ UNCHANGED <<doc, gen, pars, doxyInputs, outputDir, outputs, tarDone,
                 tarInputs, archive, buildError>>

\* output_dir.ant_glob('**/*'): every file below the output directory.
Harvest(d) == IF outputDir[d] = "root" THEN fs ELSE fs \cap {d}

\* post_run(), then hasrun = SUCCESS set by Task.process.
DoxyPostRun(d) ==
  /\ pc[d] = "post_run"
  /\ outputs' = [outputs EXCEPT ![d] = @ \o SetToSeq(Harvest(d))]
  /\ hasrun' = [hasrun EXCEPT ![d] = "SUCCESS"]
  /\ pc' = [pc EXCEPT ![d] = "ready"]
  /\ UNCHANGED <<fs, doc, gen, pars, doxyInputs, outputDir, genInput, tarDone,
                 tarInputs, archive, buildError>>

-----------------------------------------------------------------------------
(* tar task *)

\* Mutant of TarWaits: the input_tasks loop dropped.
TarWaitsDropped(t) == FALSE

\* for x in self.input_tasks: if not x.hasrun: return Task.ASK_LATER
TarWaits(t) == hasrun[TarFor[t]] = "NOT_RUN"

\* Mutant of TarRunnableStatus: no SKIP_ME when nothing was pulled.
TarRunnableStatusNoSkip(t) ==
  /\ Pollable(t)
  /\ ~TarWaits(t)
  /\ LET pulled == IF tarDone[t] THEN tarInputs[t]
                   ELSE tarInputs[t] \o outputs[TarFor[t]]
     IN /\ tarDone' = [tarDone EXCEPT ![t] = TRUE]
        /\ tarInputs' = [tarInputs EXCEPT ![t] = pulled]
        /\ Dispatch(t, TaskStatus(Doxys))
  /\ UNCHANGED <<fs, doc, gen, pars, doxyInputs, outputDir, genInput, outputs,
                 archive, buildError>>

TarRunnableStatus(t) ==
  /\ Pollable(t)
  /\ ~TarWaits(t)
  /\ LET pulled == IF tarDone[t] THEN tarInputs[t]
                   ELSE tarInputs[t] \o outputs[TarFor[t]]
     IN /\ tarDone' = [tarDone EXCEPT ![t] = TRUE]
        /\ tarInputs' = [tarInputs EXCEPT ![t] = pulled]
        /\ Dispatch(t, IF ~tarDone[t] /\ pulled = <<>> THEN "SKIP_ME"
                       ELSE TaskStatus(Doxys))
  /\ UNCHANGED <<fs, doc, gen, pars, doxyInputs, outputDir, genInput, outputs,
                 archive, buildError>>

\* run_str '${TAR} ${TAROPTS} ${TGT} ${SRC}'
TarRun(t) ==
  /\ pc[t] = "run"
  /\ \E ok \in BOOLEAN :
       /\ archive' = [archive EXCEPT ![t] = IF ok THEN ToSet(tarInputs[t]) ELSE @]
       /\ hasrun' = [hasrun EXCEPT ![t] = IF ok THEN "SUCCESS" ELSE "CRASHED"]
  /\ pc' = [pc EXCEPT ![t] = "ready"]
  /\ UNCHANGED <<fs, doc, gen, pars, doxyInputs, outputDir, genInput, outputs,
                 tarDone, tarInputs, buildError>>

-----------------------------------------------------------------------------
Init ==
  /\ hasrun = [t \in Tasks |-> "NOT_RUN"]
  /\ pc = [t \in Tasks |-> "ready"]
  /\ fs = {}
  /\ doc \in [Doxys -> DocChoices]
  /\ gen \in [Doxys -> GenChoices]
  /\ pars = [d \in Doxys |-> NoPars]
  /\ doxyInputs = [d \in Doxys |-> <<>>]
  /\ outputDir = [d \in Doxys |-> "none"]
  /\ genInput = [d \in Doxys |-> NotRun]
  /\ outputs = [d \in Doxys |-> <<>>]
  /\ tarDone = [t \in Tars |-> FALSE]
  /\ tarInputs = [t \in Tars |-> <<>>]
  /\ archive = [t \in Tars |-> {}]
  /\ buildError = "none"

\* The build is over: every task has run, or bld.fatal() aborted it.
BuildOver == buildError # "none" \/ \A t \in Tasks : hasrun[t] # "NOT_RUN"

Done == BuildOver /\ UNCHANGED vars

Next ==
  \/ \E u \in Ups : UpRunnableStatus(u) \/ UpProcess(u)
  \/ \E d \in Doxys : DoxyRunnableStatus(d) \/ DoxyRun(d) \/ DoxyPostRun(d)
  \/ \E t \in Tars : TarRunnableStatus(t) \/ TarRun(t)
  \/ Done

(***************************************************************************)
(* The main loop keeps polling while tasks remain and a worker runs a task *)
(* to completion (there is no cancellation), so every step of the build   *)
(* that stays enabled is eventually taken.                                *)
(***************************************************************************)
Fairness ==
  /\ \A u \in Ups : WF_vars(UpRunnableStatus(u)) /\ WF_vars(UpProcess(u))
  /\ \A d \in Doxys : /\ WF_vars(DoxyRunnableStatus(d))
                      /\ WF_vars(DoxyRun(d)) /\ WF_vars(DoxyPostRun(d))
  /\ \A t \in Tars : WF_vars(TarRunnableStatus(t)) /\ WF_vars(TarRun(t))

Spec == Init /\ [][Next]_vars

FairSpec == Spec /\ Fairness

-----------------------------------------------------------------------------
TypeOK ==
  /\ hasrun \in [Tasks -> Status]
  /\ pc \in [Tasks -> {"ready", "run", "post_run"}]
  /\ fs \subseteq Files
  /\ doc \in [Doxys -> DocRec]
  /\ gen \in [Doxys -> GenRec]
  /\ pars \in [Doxys -> ParsRec \cup {NoPars}]
  /\ doxyInputs \in [Doxys -> Seq({"docdir", "src"})]
  /\ outputDir \in [Doxys -> {"none", "own", "root"}]
  /\ genInput \in [Doxys -> Seq({"docdir", "src", "cwd"})]
  /\ outputs \in [Doxys -> Seq(Files)]
  /\ tarDone \in [Tars -> BOOLEAN]
  /\ tarInputs \in [Tars -> Seq(Files)]
  /\ archive \in [Tars -> SUBSET Files]
  /\ buildError \in {"none", "fatal"}

(***************************************************************************)
(* Once tar has pulled its inputs (tar_done_adding), they are exactly the  *)
(* outputs its doxygen task harvested in post_run, now and in every later  *)
(* state: tar neither pulls before the harvest is complete nor pulls       *)
(* twice when Task.runnable_status sends it back with ASK_LATER.          *)
(***************************************************************************)
TarArchivesHarvestedOutputs ==
  \A t \in Tars : tarDone[t] => tarInputs[t] = outputs[TarFor[t]]

(***************************************************************************)
(* The doxygen process only ever runs with a configuration parsed from the *)
(* Doxyfile after its producing task wrote it: the run_after wait in       *)
(* runnable_status and the cancel of Task.runnable_status together keep a  *)
(* stale or missing Doxyfile from driving a run.                           *)
(***************************************************************************)
GeneratorRunsOnWrittenDoxyfile ==
  \A d \in Doxys : genInput[d] # NotRun => pars[d].fresh

(***************************************************************************)
(* Every task of the build eventually finishes (runs, fails, is skipped or *)
(* cancelled) unless bld.fatal() aborts the build: no task is left waiting *)
(* on a task that will never report hasrun.                                *)
(***************************************************************************)
EveryTaskFinishes == <>BuildOver

(***************************************************************************)
HarvestsOnlyOwnOutputs ==
  \A d \in Doxys : \A i \in DOMAIN outputs[d] : outputs[d][i] = d

(***************************************************************************)
(* The doxygen process is given as INPUT the same doxy_inputs that scan()  *)
(* reports as the task's dependencies.                                     *)
(***************************************************************************)
GeneratorSeesScannedInputs ==
  \A d \in Doxys : genInput[d] # NotRun => genInput[d] = doxyInputs[d]

-----------------------------------------------------------------------------
(***************************************************************************)
(* Refinement mapping onto DocsPipeline: a doxygen task is generated once  *)
(* hasrun is SUCCESS and failed once it crashed or was cancelled; what it  *)
(* produced is its outputs list; a tar task's hasrun gives the archive's   *)
(* state and the tar process's files what it archived; bld.fatal() is the  *)
(* abort.                                                                  *)
(***************************************************************************)
GenState(d) ==
  CASE hasrun[d] = "SUCCESS" -> "generated"
    [] hasrun[d] \in Failed -> "failed"
    [] OTHER -> "pending"

ArchiveState(t) ==
  CASE hasrun[t] = "SUCCESS" -> "archived"
    [] hasrun[t] = "SKIPPED" -> "skipped"
    [] hasrun[t] \in Failed -> "failed"
    [] OTHER -> "pending"

Pipeline == INSTANCE DocsPipeline
              WITH state <- [d \in Doxys |-> GenState(d)],
                   produced <- [d \in Doxys |-> ToSet(outputs[d])],
                   tarState <- [t \in Tars |-> ArchiveState(t)],
                   archived <- archive,
                   aborted <- (buildError = "fatal")

(***************************************************************************)
(* The build implements DocsPipeline: a doxygen task's outputs appear at   *)
(* once with its success and never change, its tar task archives exactly   *)
(* them, skips only when there are none, and is cancelled only after a    *)
(* doxygen task failed.                                                    *)
(***************************************************************************)
ImplementsDocsPipeline == Pipeline!PSpec

=============================================================================

# TLA+ models of the ndns build tools

This directory holds TLA+ models of the code under `src/`. That code is the
waf tooling of the ndns repository (`src/.waf-tools/*.py`) and its Sphinx
configuration (`src/docs/conf.py`). It is not the DNS daemon. The part with
real concurrency and ordering is `doxygen.py`. It defines two waf tasks: one
runs doxygen, the other archives doxygen's output with tar. Both run under
waf's polling scheduler, next to other tasks of the build.

## 1. Inventory

### Components

| Component | Source | State it keeps | Operations |
|---|---|---|---|
| doxygen task | `doxygen.py` 60-144 | `pars` (parsed Doxyfile), `doxy_inputs`, `output_dir`, `outputs`, and `hasrun` from waf | `runnable_status` (wait for `run_after`, one-time configuration, signature), `scan`, `run` (serialise `pars`, pipe it to the doxygen process), `post_run` (glob the output directory, hash the files, add them to `outputs`) |
| tar task | `doxygen.py` 146-167 | `input_tasks`, `tar_done_adding`, `inputs`, `hasrun` | `runnable_status` (wait for `input_tasks`, pull their outputs once, `SKIP_ME` when there are none), the `run_str` tar command |
| Doxyfile parser | `doxygen.py` 38-58 | none (pure) | `parse_doxy`: join continuation lines, split the lines, then handle `+=` and `=` |
| task generator | `doxygen.py` 169-192, 194-210 | none | `process_doxy` creates the doxygen task. With `doxy_tar` it also creates a tar task, with `input_tasks=[dsk]` and TAROPTS chosen by the suffix. `configure` looks up the programs |
| waf scheduler | waflib (not in this repository) | the task queues and `hasrun` of every task | the main thread polls `runnable_status`. Worker threads run `process()`: `run()`, then `post_run()`, then they set `hasrun` |
| compiler flags | `default-compiler-flags.py` | `conf.flags`, `areCustomCxxflagsPresent`, `env.CXXFLAGS/LINKFLAGS/DEFINES` | `configure` (version gate, general flags), `check_compiler_flags` (debug or optimized flags), `add_supported_cxxflags` and `add_supported_linkflags` (compile-test each flag, prepend the ones that work) |
| sqlite3 detection | `sqlite3.py` | `env` (uselib SQLITE3, defines) | `check_sqlite3`: the locking define, then `check_cxx` with an explicit root, or `check_cfg` with `check_cxx` as the fallback |
| coverage option | `coverage.py` | `env` GCOV, each task generator's `use` | `configure` requires `--debug`. `add_coverage` appends GCOV to `use` |
| Sphinx config | `docs/conf.py` | module-level settings | `addExtensionIfExists` |

### How the components interact

- waf calls `runnable_status` on every unfinished task from its main thread.
  Each call returns ASK_LATER, RUN_ME, SKIP_ME or CANCEL_ME. A RUN_ME task
  goes to a worker thread, so polls of one task interleave with the run of
  another.
- A doxygen task reads the `hasrun` of its `run_after` tasks. Those can be
  upstream producers, for example a task that generates the Doxyfile.
- A tar task reads the `hasrun` and `outputs` of its doxygen task. The
  class attribute `after = ['doxygen']` also puts every doxygen task into
  the tar task's `run_after`, so waf's own `Task.runnable_status` can send
  tar back with ASK_LATER after it has already pulled its inputs.
- `run()` pipes the serialised `pars` to the doxygen process. `post_run()`
  then finds the files that process wrote by globbing the output directory.
- The configure-time tools (compiler flags, sqlite3, coverage) update the
  configuration environment one after another. They run in a single thread.

### What is hard

- **Interleaving.** The scheduler can poll tar while the doxygen worker is
  between `run()` and `post_run()`. Tar can also be polled again after it
  has pulled its inputs.
- **Ordering.** The Doxyfile is parsed once, at the first poll after
  `run_after` finished. A Doxyfile read before its producer wrote it stays
  stale, because the guard never re-reads it.
- **Partial failure.** `not x.hasrun` also counts a crashed upstream as
  finished. The configuration is parsed anyway, and only waf's cancel then
  stops the run.
- **Deadlock and liveness.** A wait condition that never becomes true leaves
  only ASK_LATER answers, and waf reports a deadlock.
- **Configuration layering.** The OUTPUT_DIRECTORY default is applied before
  the generator overrides. An empty override therefore makes the filesystem
  root the output directory.
- **Serialisation.** Only the keys of `pars` are written, so an INPUT that
  was rewritten but not parsed from the Doxyfile is lost.
- **Crash and rebuild.** The signature cache persists between builds. In the
  next build, an up-to-date doxygen task is skipped without `post_run`, and
  tar then skips as well. Whether a task is up to date depends on what its
  signature covers, and the `generator.pars` overrides are not part of it.
- **Configure order.** `areCustomCxxflagsPresent` must be read before the
  general flags are added. Version gates sit on tuple boundaries.

### What makes each component correct

- **doxygen task.** It runs only on a configuration parsed from the written
  Doxyfile. The process gets the inputs the task scans. It registers only
  its own outputs.
- **tar task.** It archives exactly the harvested outputs of its doxygen
  task, pulled once. It skips only when there are none.
- **Scheduler with these tasks.** Every task eventually finishes. There is
  no deadlock.
- **Scanner.** Every file the spec counts as an input is a dependency, and
  only those (spec section 4.4).
- **Successive builds.** A build in which no task failed leaves the docs
  and the archive made from the current inputs, whatever the earlier
  builds did.
- **Parser.** It follows the documented `=` / `+=` semantics.
- **Compiler flags.** Default flags are applied exactly when the user gave
  no CXXFLAGS. User flags stay last. DEFINES are always added. A compiler
  below the minimum version is rejected.

## 2. Plan

Modules in order of importance:

1. **DoxyBuild** (done). The doxygen and tar tasks under the polling
   scheduler, with upstream producers. `MCDoxyBuild` instantiates it.
2. **DoxyParse** (done). `parse_doxy` as operators over character
   sequences, checked against the spec's reference semantics for `=` and
   `+=`.
3. **CompilerFlags** (done). The configure sequence of
   `default-compiler-flags.py`: `configure()` then `check_compiler_flags()`.
4. **DoxyRebuild** (done). Successive builds sharing waf's stored
   signatures, with kills, Ctrl-C, failing tar runs, removed outputs and
   edits and reverts of each source the docs are made from.
   This is the tar-skipped-on-rebuild hazard.
5. **DocsPipeline** (done), an abstract specification. Generate, then archive, with
   the archive equal to the generated set. DoxyBuild is shown to implement it
   with `INSTANCE ... WITH` as a PROPERTY.
6. **ConfigureDeps** (done). `check_sqlite3` and `coverage.py`.
7. **DoxyScan** (done). `scan()` with its FILE_PATTERNS, EXCLUDE_PATTERNS
   and RECURSIVE handling over waf's `ant_glob`, checked against the
   spec's glob rules on the tree of its end-to-end scenario.
8. **DoxyOutputDir** (done). The `find_dir` / `find_or_declare` lookup of
   OUTPUT_DIRECTORY, against where the doxygen process writes.

Left for later: the TAROPTS suffix choice of `process_doxy`, and
`Utils.h_file` failing on a file removed during `post_run` (it needs two
tasks sharing an output directory within one harvest).

Run bounds: two upstream tasks, two doxygen tasks (so tar is sent back by
the other doxygen task) and one tar task. Every Doxyfile shape for the two
keys the task reads is an initial state.

## 3. Modules and runs

### DoxyBuild (`DoxyBuild.tla`, `MCDoxyBuild.tla`)

Correspondence with the code:

- **Variables.**
  - `hasrun` and `pc`: waf's task state. `pc` says whether a task is queued,
    handed to a worker, or between `run()` and `post_run()`.
  - `pars`, `doxyInputs`, `outputDir`, `outputs`: the doxygen task's
    attributes.
  - `tarDone`, `tarInputs`: `tar_done_adding` and `self.inputs`.
  - `fs`: the files on disk. A file is named by the task that wrote it.
  - `genInput`: the INPUT the doxygen process was given.
  - `buildError`: set by `bld.fatal`.
- **Actions.**
  - `DoxyRunnableStatus` is `doxygen.runnable_status` with its helpers
    `DoxyWaits`, `ParsOf`, `DoxyInputsOf` and `OutputDirOf`.
  - `DoxyRun` is `run()`, with `GeneratorInput` for the serialised INPUT.
  - `DoxyPostRun` is `post_run()` (via `Harvest`), followed by waf setting
    `hasrun`.
  - `TarRunnableStatus` and `TarRun` are the tar task.
  - `TaskStatus`, `Dispatch`, `UpRunnableStatus` and `UpProcess` are the
    waf environment. They are modelled from the spec, because waflib is not
    part of this repository.
- **Data abstraction.** A Doxyfile is reduced to its OUTPUT_DIRECTORY
  (empty or a path) and its INPUT (absent, empty, an existing path, a
  missing path). `generator.pars` is reduced to the same two keys.
- **Scheduler.** The model lets the scheduler poll any unfinished task at
  any time. This allows more than waf 2.0 does, since waf 2.0 holds back
  tasks whose dependencies are unfinished. A property that holds here also
  holds under waf.

Runs:

- **`doxy_build`** (pass, `MCDoxyBuild.cfg`). About 211k distinct states.
  - `TarArchivesHarvestedOutputs`: tar's inputs always equal its doxygen
    task's final outputs.
  - `GeneratorRunsOnWrittenDoxyfile`: no doxygen process runs on a
    configuration read before the producer wrote the Doxyfile.
  - `EveryTaskFinishes`: the build always ends.
  - Deadlock checking is on. It is the model's version of waf's "Deadlock
    detected". The only terminal states are the end of the build and
    `bld.fatal`.
- **`doxy_input_not_passed`** (violation, `MCDoxyBuildInput.cfg`).
  - `GeneratorSeesScannedInputs` is violated when the Doxyfile has no INPUT
    key. The process searches its working directory instead of the
    Doxyfile's directory that `scan()` declares.

Why the bounds are enough:

- Two doxygen tasks give the tar task a second `run_after` entry, so it can
  be polled again after pulling.
- Two upstream tasks let a doxygen task wait on more than one producer, with
  a crash of either.
- Every outcome of every process (success or crash, output written or not)
  is enumerated.

Fairness: weak fairness on every poll and every worker step. waf's main loop
keeps polling while unfinished tasks remain. A worker runs its task to
completion, because waf has no cancellation.

### DoxyParse (`DoxyParse.tla`, `MCDoxyParse.tla`)

Correspondence with the code:

- A text is a sequence of characters. `MCDoxyParse` uses the characters the
  parser tests for (`=`, `+`, space, `#`, backslash, newline) and one
  ordinary character `a`.
- `ReRl` and `ReNl` are the two regular expressions. `Strip` and `Find` are
  `str.strip` and `str.find`. A table is a sequence of key/value pairs in
  insertion order, as a Python dict iterates, and `Put` and `KeyIndex` are
  `tbl[key] = ...` and `key in tbl`.
- `AddLine` is one iteration of the loop of `parse_doxy`. `ParseDoxy` folds
  it over the lines with `FoldLeft`.
- `Reference` is spec section 4.1 stated per key rather than as a loop. A
  key's value is its last plain `=` value, or its first value when all its
  lines are `+=`. Then comes one space and the value of each later `+=`
  line.
- The text never changes (`Next` stutters). Each initial state is one
  Doxyfile, so an invariant is checked for every text up to the bound.

Runs:

- **`parse_spec`** (pass, `MCDoxyParse.cfg`, every text of up to 6
  characters, 137k texts). `ParseMatchesSpec`: `parse_doxy` agrees with the
  reference on every key.

Six characters are enough: the shortest texts that mix continuation,
comments, `+=` after `=` and repeated keys fit within them.

### CompilerFlags (`CompilerFlags.tla`, `MCCompilerFlags.tla`)

Correspondence with the code:

- **Variables.** `host` holds the fixed inputs: CXX_NAME, CC_VERSION, the
  platform and machine, `--debug`, the user's CXXFLAGS and LINKFLAGS, and
  the flags the compiler rejects. `flags` is `conf.flags`. `custom` is
  `conf.areCustomCxxflagsPresent`. `env` holds `env.CXXFLAGS`,
  `env.LINKFLAGS` and `env.DEFINES`.
- **Actions.** `Configure` is `configure()`. It covers the flag class
  (`FlagsClassOf`), the version gate (`TooOld`, with Python's tuple order as
  `TupleLess`) ending in `conf.fatal`, `CustomPresent`, and the general
  flags through `AddSupported`. `CheckCompilerFlags` is
  `check_compiler_flags()`. `Done` is the end of configuration.
- **Flag classes.** `BaseGeneral`, `BaseMode`, `GccBasicGeneral`,
  `GccBasicMode`, `GccExtra`, `ClangIncludes` and `ClangExtra` are the
  tables of the classes. Each warning list is cut to a few of its members.
- **Compile tests.** `add_supported_*` keep a flag group when `check_cxx`
  accepts it (`Accepted`) and prepend the kept flags (`AddSupported`).
  Which flags the compiler rejects is an input: none, or lld and
  `-Wredundant-tags` together, as with gcc before 10 and no lld installed.
- **Not modelled.** The warning and log messages.

Runs:

- **`compiler_flags`** (pass, `MCCompilerFlags.cfg`). It covers every
  combination of compiler, version at each side of the gates, platform,
  machine, mode, user environment and rejected flags. `FlagLayering`: the
  default flags come first, and only without user CXXFLAGS. The general
  flags follow, the user's flags stay last, and the mode define is always
  added.
- **`compiler_link_defaults`** (violation, `MCCompilerFlagsLink.cfg`).
  `LinkDefaultsFollowLinkflags` is the comment at line 58: default
  LINKFLAGS are applied only when the LINKFLAGS variable is unset. The code
  gates them on CXXFLAGS instead. TLC's trace: gcc 7.4 in optimized mode,
  no user CXXFLAGS and user `LINKFLAGS=-static`; configure ends with
  LINKFLAGS `-Wl,-O1 -static`, the default added although the variable was
  set. The opposite case (`CXXFLAGS` set, `LINKFLAGS` unset, `-Wl,-O1`
  dropped) comes from the same gate.

There is no concurrency here. Configuration runs in one thread, so there is
no fairness to assume.

### DocsPipeline (`DocsPipeline.tla`)

This module is the abstract promise of the two tasks. A generator produces
its set of files in one step, or fails. An archive waits for its generator,
then archives exactly those files, or is skipped when there are none, or
fails. It is cancelled once some generator failed. A fatal configuration
error may abort the build. It models no code and so has no map entries.

`DoxyBuild` instantiates it with a refinement mapping:

- a doxygen task is generated when `hasrun` is SUCCESS, and failed when
  it crashed or was cancelled;
- what it produced is its `outputs`;
- a tar task's `hasrun` gives the archive state;
- the files the tar process archived are the archive;
- `bld.fatal` is the abort.

`ImplementsDocsPipeline` (`Pipeline!PSpec`) is a PROPERTY of
`doxy_build`. It fails if tar runs with no inputs instead of skipping,
because then an archive of nothing is produced where the abstract
specification allows only a skip.

### ConfigureDeps (`ConfigureDeps.tla`, `MCConfigureDeps.tla`)

Correspondence with the code:

- **Order.** `CoverageConfigure` is `coverage.configure`. `CheckSqlite3`
  is `check_sqlite3`. `AddCoverage` is the `add_coverage` method, run for
  each cxx or cc task generator during the build. This is the order of a
  configure run followed by a build.
- **Test outcomes.** The outcome of each configuration test is an input:
  gcov works, pkg-config finds sqlite3, check_cxx finds it. The caller's
  `mandatory` and `uselib_store`, the root and `--without-sqlite-locking`
  are inputs too.
- **`use` values.** A task generator's `use` is unset, a string (its
  words), or a list. `AddGcov` is the `+=` or `=` of `add_coverage`. On a
  list, `+= ' GCOV'` extends it with the string's characters (`GcovChars`),
  which is what Python does.
- **Failures.** `conf.fatal` ends in "fatal". An uncaught exception ends
  in "crashed".

Runs:

- **`deps_configure`** (pass, `MCConfigureDeps.cfg`). The `use` values are
  unset, empty or one-word strings, and empty or one-name lists.
  - `MandatoryHonoured`: with `mandatory`, configure goes on only with
    SQLite3 found, through either path.
  - No property says that GCOV is added to `use`. For a list-valued `use`
    that claim is false (the characters are appended), and it is left as a
    hazard of `coverage.py:18` rather than stated over the string cases
    only.
- **`sqlite_without_locking`** (violation). `--without-sqlite-locking`
  reaches `conf.define`, an attribute of the imported decorator function,
  and configure dies with AttributeError.

### DoxyScan (`DoxyScan.tla`, `MCDoxyScan.tla`)

This module models `doxygen.scan()` (lines 110-125) as pure operators. It
also models the part of waf's `Node.ant_glob` that `scan()` relies on.

Strings are sequences of characters, so the code's string handling is
modelled by what it does:
- `SplitOn` and `Words` are `str.split`.
- `Elements` iterates over a list or over a string. Over a string it yields
  the characters.
- `GlobMatch` matches one pattern component against one name.
  `*` becomes `.*` and `?` becomes `.`, as in waf's `ant_matcher`.

A path is a sequence of names. The glob follows waf's matcher:
- `AntMatcher` splits each pattern on `/`.
- `SubFilter` is `ant_sub_filter`. `**` stays alive across directories.
- `AntIter` walks the tree. A full exclude match drops a name and everything
  below it. Files fully matched by an include pattern are yielded.
  Directories are entered while include patterns remain.

The code's own steps:
- `FilePatterns` is lines 112-114. When FILE_PATTERNS is empty, the value is
  the *string* `DOXY_FILE_PATTERNS`.
- `IncludePatterns` is lines 115-116. With RECURSIVE = YES it adds the
  `**/` prefix. Otherwise `ant_glob`'s `to_list` splits the value.
- `Scan` is the loop: directories are globbed, plain files are kept.
- `SpecScan` is the reference from spec section 4.4 and its end-to-end
  scenario. The built-in list is used when FILE_PATTERNS is unset. Exclude
  patterns match file names at any depth.

The instance (`MCDoxyScan`) uses the tree of the end-to-end scenario with
one header added: `src/a.md`, `src/c.h`, `src/sub/b.md` and
`src/sub/b_test.md`. The built-in list is cut down to `*.c *.h`: two of its
extensions, still one string. The inputs are:
- FILE_PATTERNS: unset, `*.md`, or `*.md *.h`;
- EXCLUDE_PATTERNS: unset or `*_test.*`;
- RECURSIVE: unset, `YES` or `NO`;
- one or two inputs, from two directories and two files.

That gives 360 scans. Each initial state is one scan.

- **`doxy_scan`** (pass, `ScanCoversSpec`). Every file the spec counts as an
  input is returned by `scan()`, so editing it makes the task stale. The
  mutant drops the `**/` prefix and is caught.
- **`doxy_scan_spec`** (violation, `ScanMatchesSpec`). `scan()` returns
  exactly the spec's inputs, is violated. TLC's trace needs no
  FILE_PATTERNS and RECURSIVE = YES. The comprehension iterates the
  characters of the string `DOXY_FILE_PATTERNS`, so `**/*` is one of the
  patterns and every file (here `src/a.md`) becomes a dependency. A second
  divergence is reached with FILE_PATTERNS given (the end-to-end scenario):
  the exclude patterns get no `**/` prefix, so they only match in the input
  directory itself and `src/sub/b_test.md` is scanned.

Both divergences make `scan()` return a superset of the spec's inputs.
The cost is extra rebuilds, not stale documentation. `doxy_scan` shows that
nothing is missing.

### DoxyOutputDir (`DoxyOutputDir.tla`, `MCDoxyOutputDir.tla`)

This module models how `runnable_status` turns OUTPUT_DIRECTORY into
`output_dir` (lines 100-105):
- `FindDir` is `bld.root.find_dir`. waf drops the empty names of a split
  path, so a relative path is looked up from the filesystem root.
- `FindOrDeclare` declares a relative path below the build directory.

`ProcessOutputDir` is where the doxygen process writes. `run()` starts it
with `cwd = bld.path.get_bld()` (line 135), so a relative OUTPUT_DIRECTORY
lands in the build directory. The instance has the build directory
`/p/build`, OUTPUT_DIRECTORY `''` (which a `generator.pars` override leaves
in place, because the default of line 79 is applied before it), `docs` or
`/p/build/docs`, and any subset of
`/docs`, `/p`, `/p/build` and `/p/build/docs` existing.

- **`doxy_output_dir`** (violation, `HarvestsWhereDoxygenWrites`). TLC's
  trace is the empty override: `find_dir('')` is the filesystem root, while
  doxygen writes into its working directory, the build directory.
  `post_run` then registers every file under the root as an output. With
  `/docs` present, a relative `docs` gives `/docs` in the same way.

### DoxyRebuild (`DoxyRebuild.tla`)

This module models successive `waf build` runs of one doxygen task and its
tar task, over waf's stored task signatures (`bld.task_sigs`).

The waf behaviour it relies on is in waflib, not in this repository:
- `StartRun`: a task's signature is deleted when it starts to run.
- A successful `post_run` sets the signature again.
- `EndBuild` and `Interrupt`: `Build.compile` stores the signatures at the
  end of the build, also after a failure and on Ctrl-C.
- `Kill`: a killed process stores nothing. The history variable `lost`
  records that a kill discarded signatures the build had deleted or set.
- `UpToDate`: `Task.runnable_status` skips a task whose stored signature
  matches and whose output nodes exist.

Contents are small numbers (`Contents == 0..MaxEdits`) compared as waf
compares content hashes, so a source edited back to an earlier content has
that content's signature again. `cfg` holds one content per source of the
docs:
- `input`: the scanned input files;
- `doxyfile`: the Doxyfile;
- `env`: the env values DOXYGEN and DOXYFLAGS;
- `pars`: the `generator.pars` the wscript passes.

The docs and the archive carry the `cfg` they were made from. `DoxySig` is
what `self.signature()` (line 107) covers:
- the explicit input (the Doxyfile);
- the env values named by `vars` (line 61);
- the files `scan()` returns.

`generator.pars` is none of these, although `runnable_status` copies it
into `self.pars` (lines 83-85) and `run()` hands it to the process.

The code's steps:
- `DoxyPoll` is lines 107-108. `self.outputs` is still empty, so no output
  node is checked.
- `DoxyFinish` is `run()` and `post_run()`, or a non-zero exit.
- `TarPoll` is `tar.runnable_status`: wait, pull once, skip on no inputs,
  then the base.
- `TarFinish` is the tar command, which may fail under the fault
  `tar_crash`.

A process that dies while writing may leave its output half-written
(`Partial`); `Torn` is the choice between the old output and a half-written
one. This happens when doxygen exits non-zero, when tar fails, and on
Ctrl-C and kills, for the process running at that moment: it is in waf's
process group and gets the signal too.

Between builds (`NewBuild`), the user may give one source of a kind in
`EditKinds` another content, including one it had before (a revert). Under the fault `delete`, the user may also remove the docs or
the archive. `Faults` selects which faults are possible.

The bounds are four builds and two edits for the passing run (67,105
states), and three builds and two edits for the violation. Two edits are
what a revert needs. The shortest violations need two builds; the kill
route needs three.

- **`doxy_rebuild`** (pass, `CleanBuildLeavesFreshDocs`,
  `SignaturesVouchForOutputs`). This run allows
  kills, Ctrl-C and failing tar runs, and edits and reverts of the inputs,
  the Doxyfile and the env. Every build in which no task failed leaves docs
  made from the current contents. Both properties are stated up to the
  first kill that discarded signatures (`~lost`). After such a kill, a
  revert makes the signature on disk match stale docs. That is not a model
  artefact but the kill route of `doxy_rebuild_stopped`. Kills before any
  signature changed are covered. The mutant drops `vars` from the doxygen signature
  and is caught after a reconfigure. The input part of the signature is
  only as complete as `scan()`, which `DoxyScan` checks.
  `SignaturesVouchForOutputs` says that a signature that would let a task
  be skipped (the doxygen signature of the current sources, or a tar
  signature equal to the current docs) always belongs to the output on disk,
  across half-written outputs of failed, interrupted and killed processes.
  It holds because `run()` returns the exit status (line 137) and waf drops
  the signature when a task starts. Its mutant lets `run()` ignore the exit
  status, so a doxygen process that failed half-way is recorded as a
  success.
- **`doxy_rebuild_stopped`** (violation, `CleanBuildLeavesFreshOutputs`,
  faults `kill`, `interrupt`, `tar_crash` and `delete`, edits and reverts
  of the inputs and of `generator.pars`). TLC's trace: Ctrl-C after
  doxygen succeeded stores the doxygen signature. The next build skips
  doxygen, whose outputs are then empty, so tar returns SKIP_ME. The build
  succeeds without an archive, and so does every later build until an
  input changes. A failed tar reaches the same state. So does a removed
  docs directory, which is not noticed because the doxygen task's outputs
  are only known after `post_run`. So does an edit of `generator.pars`,
  with no fault at all, because the overrides are not in the signature.
  So does a kill followed by a revert: build 1 stores the signature of
  content 0, build 2 reruns doxygen for content 1 and is killed while the
  docs are half-written, and after the revert to content 0 build 3 skips
  doxygen and tar and ends clean with those docs. Each of these five routes violates the property on its own, with the
  other faults and edits removed from the configuration.

## 4. Not modelled

- **Sphinx `conf.py`.** It sets documentation metadata. Its one piece of
  logic, `addExtensionIfExists` (lines 38-45), appends `sphinxcontrib.doxylink`
  to `extensions` when it can be imported, and warns otherwise. No other
  code reads that list, and it runs once in a single thread. A model would
  restate that one `if`, so there is no property to check.
- **The TAROPTS suffix table.** It is three literals.
- **File contents and hashing (`Utils.h_file`).** They are not modelled.
- **Path resolution in DoxyBuild.** It is reduced to empty versus non-empty
  paths. The `find_dir` lookup order is checked on its own in DoxyOutputDir.
- **waf's signatures beyond contents.** DoxyRebuild stands for each
  signature by the contents of what it covers. The `vars` of the doxygen
  class (DOXYGEN, DOXYFLAGS) and node signatures are not modelled
  separately.
- **The compiler warning messages.** They are log output. The version gate
  itself is modelled (`TooOld`), but no property is stated about it beyond
  the runs that reach `conf.fatal`.
- **Questions without a run of their own.** Each run asks one question,
  and three divergences met while modelling are listed as hazards without
  a run: the re-parse of `run()`'s `key = value` serialisation (spec section
  8; `parse_doxy` tests for `+=` before `=`, so a line such as `=+=` does not
  survive it), `add_coverage` on a list-valued `use` (it appends the
  characters of `' GCOV'`), and the pkg-config path of `check_sqlite3`
  ignoring the caller's `uselib_store`.
- **waflib's own ordering of task-generator methods.** `add_coverage` is
  declared after `process_source`. Whether it runs before `process_use` is
  decided by waflib, which is not part of this repository. The model
  assumes the GCOV it adds is seen.

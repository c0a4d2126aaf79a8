---------------------------- MODULE ConfigureDeps ----------------------------
(***************************************************************************)
(* The library and coverage configuration of src/.waf-tools: coverage.py   *)
(* (configure, and the add_coverage task-generator method) and sqlite3.py  *)
(* (check_sqlite3), in the order a configure run and then a build reach    *)
(* them.                                                                   *)
(*                                                                         *)
(* The outcome of each configuration test (check_cxx, check_cfg) is an     *)
(* input.  A failed mandatory test is conf.fatal; a Python exception that  *)
(* nothing catches ends configure as "crashed".  A task generator's `use`  *)
(* is unset, a string (kept as its words) or a list of names.              *)
(***************************************************************************)
EXTENDS Naturals, Sequences

CONSTANTS
  TaskGens,      \* task generators with feature cxx or cc
  UseChoices,    \* values a task generator's `use` may start with
  StoreChoices,  \* uselib_store names a caller may pass to check_sqlite3
  RootChoices    \* sqlite3 roots: "" when neither given nor --with-sqlite3

VARIABLES
  host,      \* options, caller arguments and test outcomes, fixed
  pc,        \* "coverage", "sqlite", "build", "done", "fatal", "crashed"
  stores,    \* uselib stores that configure filled
  defines,   \* names conf.define set
  use,       \* each task generator's `use`
  applied    \* task generators add_coverage has run on

vars == <<host, pc, stores, defines, use, applied>>

\* A `use` value: kind "str" holds the words of the string.
UseVal == [kind : {"unset", "str", "list"}, items : Seq(STRING)]

-----------------------------------------------------------------------------
(* coverage.py *)

\* configure(conf): --with-coverage needs --debug and a working gcov.
CoverageConfigure ==
  /\ pc = "coverage"
  /\ IF ~host.withCoverage THEN pc' = "sqlite" /\ UNCHANGED stores
     ELSE IF ~host.debug THEN pc' = "fatal" /\ UNCHANGED stores
     ELSE IF ~host.gcovOk THEN pc' = "fatal" /\ UNCHANGED stores
     ELSE pc' = "sqlite" /\ stores' = stores \cup {"GCOV"}
  /\ UNCHANGED <<host, defines, use, applied>>

\* Utils.to_list: a string is split into words, a list is kept.
ToList(u) == IF u.kind = "unset" THEN <<>> ELSE u.items

\* The characters of the string ' GCOV', which list += str adds one by one.
GcovChars == <<" ", "G", "C", "O", "V">>

\* if getattr(self, 'use', ''): self.use += ' GCOV' else: self.use = 'GCOV'
AddGcov(u) ==
  CASE ToList(u) = <<>> -> [kind |-> "str", items |-> <<"GCOV">>]
    [] u.kind = "str" -> [u EXCEPT !.items = Append(@, "GCOV")]
    [] u.kind = "list" -> [u EXCEPT !.items = @ \o GcovChars]

\* add_coverage, run by the build on every cxx or cc task generator.
AddCoverage(g) ==
  /\ pc = "build"
  /\ g \notin applied
  /\ use' = [use EXCEPT ![g] = AddGcov(@)]
  /\ applied' = applied \cup {g}
  /\ UNCHANGED <<host, pc, stores, defines>>

-----------------------------------------------------------------------------
(* sqlite3.py *)

\* Mutant of FallbackMandatory: the check_cxx fallback is not mandatory.
FallbackOptional(h) == FALSE

\* The check_cxx fallback after a failed check_cfg passes the caller's
\* mandatory.
FallbackMandatory(h) == h.mandatory

\* Mutant of CheckCxx: the store named like the define.
CheckCxxStoreAsDefine(h, mandatory) ==
  IF h.cxxOk
  THEN /\ stores' = stores \cup {"HAVE_" \o h.store}
       /\ defines' = defines \cup {<<"HAVE", h.store>>}
       /\ pc' = "build"
  ELSE /\ pc' = IF mandatory THEN "fatal" ELSE "build"
       /\ UNCHANGED <<stores, defines>>

\* check_cxx(lib='sqlite3', define_name='HAVE_%s' % var, uselib_store=var)
CheckCxx(h, mandatory) ==
  IF h.cxxOk
  THEN /\ stores' = stores \cup {h.store}
       /\ defines' = defines \cup {<<"HAVE", h.store>>}
       /\ pc' = "build"
  ELSE /\ pc' = IF mandatory THEN "fatal" ELSE "build"
       /\ UNCHANGED <<stores, defines>>

\* check_sqlite3(): with --without-sqlite-locking the define is reached
\* through `conf`, the imported decorator function, which has no `define`:
\* an AttributeError nothing catches.  With a root, check_cxx; without one,
\* check_cfg(mandatory=True) into the hard-coded store SQLITE3, and on any
\* exception the check_cxx fallback.
CheckSqlite3 ==
  /\ pc = "sqlite"
  /\ IF ~host.locking
     THEN pc' = "crashed" /\ UNCHANGED <<stores, defines>>
     ELSE IF host.root # ""
     THEN CheckCxx(host, host.mandatory)
     ELSE IF host.pkgOk
     THEN /\ stores' = stores \cup {"SQLITE3"}
          /\ pc' = "build"
          /\ UNCHANGED defines
     ELSE CheckCxx(host, FallbackMandatory(host))
  /\ UNCHANGED <<host, use, applied>>

-----------------------------------------------------------------------------
\* The build has run add_coverage on every task generator.
BuildDone ==
  /\ pc = "build"
  /\ applied = TaskGens
  /\ pc' = "done"
  /\ UNCHANGED <<host, stores, defines, use, applied>>

\* Configure stopped (conf.fatal or an exception), or the build ended.
Stopped ==
  /\ pc \in {"done", "fatal", "crashed"}
  /\ UNCHANGED vars

Init ==
  /\ host \in [withCoverage : BOOLEAN, debug : BOOLEAN, gcovOk : BOOLEAN,
               locking : BOOLEAN, root : RootChoices, pkgOk : BOOLEAN,
               cxxOk : BOOLEAN, mandatory : BOOLEAN, store : StoreChoices,
               use0 : [TaskGens -> UseChoices]]
  /\ pc = "coverage"
  /\ stores = {}
  /\ defines = {}
  /\ use = host.use0
  /\ applied = {}

Next ==
  \/ CoverageConfigure
  \/ CheckSqlite3
  \/ \E g \in TaskGens : AddCoverage(g)
  \/ BuildDone
  \/ Stopped

Spec == Init /\ [][Next]_vars

-----------------------------------------------------------------------------
TypeOK ==
  /\ pc \in {"coverage", "sqlite", "build", "done", "fatal", "crashed"}
  /\ stores \subseteq StoreChoices \cup {"GCOV", "SQLITE3"}
  /\ use \in [TaskGens -> UseVal]
  /\ applied \subseteq TaskGens

(***************************************************************************)
(* check_sqlite3 with mandatory=True (its default) lets configure go on    *)
(* only with SQLite3 found: by check_cxx under the root, by pkg-config, or *)
(* by the check_cxx fallback after pkg-config failed.                      *)
(***************************************************************************)
MandatoryHonoured ==
  pc \in {"build", "done"} /\ host.mandatory =>
    stores \cap {host.store, "SQLITE3"} # {}

(***************************************************************************)
(* --without-sqlite-locking (option help: disable filesystem locking)      *)
(* leads to a configuration with DISABLE_SQLITE3_FS_LOCKING defined, or to *)
(* conf.fatal for a missing library, never to an uncaught exception.       *)
(***************************************************************************)
LockingOptionHonoured == pc # "crashed"

=============================================================================

----------------------------- MODULE DocsPipeline -----------------------------
(***************************************************************************)
(* What the doxygen and tar tasks of src/.waf-tools/doxygen.py promise,    *)
(* with the scheduler, the configuration phase and the worker threads left *)
(* out (spec sections 3, 4.3 and 7):                                       *)
(*   - a generator either produces its set of output files in one step or  *)
(*     fails, producing nothing;                                           *)
(*   - an archive waits for its generator, then archives exactly the files *)
(*     the generator produced, or is skipped when there are none, or fails;*)
(*   - a fatal configuration error may abort the build.                    *)
(***************************************************************************)
EXTENDS FiniteSets

CONSTANTS
  Doxys,    \* generators
  Tars,     \* archives
  TarFor,   \* [Tars -> Doxys]: the generator an archive collects from
  Files     \* files a generator may produce

VARIABLES
  state,      \* [Doxys -> {"pending", "generated", "failed"}]
  produced,   \* [Doxys -> SUBSET Files]: the outputs a generator registered
  tarState,   \* [Tars -> {"pending", "archived", "skipped", "failed"}]
  archived,   \* [Tars -> SUBSET Files]: what the archive holds
  aborted     \* a fatal configuration error stopped the build

pvars == <<state, produced, tarState, archived, aborted>>

\* A generator finishes and registers its outputs in the same step.
Generate(d) ==
  /\ state[d] = "pending"
  /\ \E S \in SUBSET Files :
       /\ state' = [state EXCEPT ![d] = "generated"]
       /\ produced' = [produced EXCEPT ![d] = S]
  /\ UNCHANGED <<tarState, archived, aborted>>

\* A generator fails (or is cancelled), having registered nothing.
FailGenerate(d) ==
  /\ state[d] = "pending"
  /\ state' = [state EXCEPT ![d] = "failed"]
  /\ UNCHANGED <<produced, tarState, archived, aborted>>

\* An archive of a generator with outputs archives exactly them, or fails.
Archive(t) ==
  /\ tarState[t] = "pending"
  /\ state[TarFor[t]] = "generated"
  /\ produced[TarFor[t]] # {}
  /\ \/ /\ tarState' = [tarState EXCEPT ![t] = "archived"]
        /\ archived' = [archived EXCEPT ![t] = produced[TarFor[t]]]
     \/ /\ tarState' = [tarState EXCEPT ![t] = "failed"]
        /\ UNCHANGED archived
  /\ UNCHANGED <<state, produced, aborted>>

\* An archive whose generator finished with no outputs is skipped.
SkipArchive(t) ==
  /\ tarState[t] = "pending"
  /\ state[TarFor[t]] # "pending"
  /\ produced[TarFor[t]] = {}
  /\ tarState' = [tarState EXCEPT ![t] = "skipped"]
  /\ UNCHANGED <<state, produced, archived, aborted>>

\* An archive is cancelled once some generator failed.
CancelArchive(t) ==
  /\ tarState[t] = "pending"
  /\ \E d \in Doxys : state[d] = "failed"
  /\ tarState' = [tarState EXCEPT ![t] = "failed"]
  /\ UNCHANGED <<state, produced, archived, aborted>>

\* A fatal configuration error, raised while a generator is pending.
Abort ==
  /\ ~aborted
  /\ \E d \in Doxys : state[d] = "pending"
  /\ aborted' = TRUE
  /\ UNCHANGED <<state, produced, tarState, archived>>

PInit ==
  /\ state = [d \in Doxys |-> "pending"]
  /\ produced = [d \in Doxys |-> {}]
  /\ tarState = [t \in Tars |-> "pending"]
  /\ archived = [t \in Tars |-> {}]
  /\ aborted = FALSE

\* Nothing is left to do, or the build was aborted.
Settled ==
  \/ aborted
  \/ /\ \A d \in Doxys : state[d] # "pending"
     /\ \A t \in Tars : tarState[t] # "pending"

PNext ==
  \/ \E d \in Doxys : Generate(d) \/ FailGenerate(d)
  \/ \E t \in Tars : Archive(t) \/ SkipArchive(t) \/ CancelArchive(t)
  \/ Abort
  \/ (Settled /\ UNCHANGED pvars)

PSpec == PInit /\ [][PNext]_pvars

PTypeOK ==
  /\ state \in [Doxys -> {"pending", "generated", "failed"}]
  /\ produced \in [Doxys -> SUBSET Files]
  /\ tarState \in [Tars -> {"pending", "archived", "skipped", "failed"}]
  /\ archived \in [Tars -> SUBSET Files]
  /\ aborted \in BOOLEAN

=============================================================================

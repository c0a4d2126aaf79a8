--------------------------- MODULE MCDoxyOutputDir ---------------------------
(* The build directory /p/build; OUTPUT_DIRECTORY "docs" or "/p/build/docs"; *)
(* or "", which a generator.pars override leaves in place of the default; *)
(* /docs, /p and /p/build may exist.                                        *)
EXTENDS DoxyOutputDir

MCBldDir == <<"p", "build">>
MCCandidates == {<<"docs">>, <<"p">>, <<"p", "build">>, <<"p", "build", "docs">>}
MCOutChoices == {[abs |-> FALSE, names |-> <<>>],
                 [abs |-> FALSE, names |-> <<"docs">>],
                 [abs |-> TRUE, names |-> <<"p", "build", "docs">>]}
=============================================================================

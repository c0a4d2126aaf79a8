----------------------------- MODULE MCDoxyScan -----------------------------
(* The tree of the end-to-end scenario of spec section 4.4 with one header *)
(* added: src/a.md, src/c.h, src/sub/b.md, src/sub/b_test.md.  Strings are *)
(* written as sequences of their characters.                               *)
EXTENDS DoxyScan

Src == <<"s", "r", "c">>
Sub == <<"s", "u", "b">>
AMd == <<"a", ".", "m", "d">>
CH == <<"c", ".", "h">>
BMd == <<"b", ".", "m", "d">>
BTestMd == <<"b", "_", "t", "e", "s", "t", ".", "m", "d">>

MCDirs == {<<Src>>, <<Src, Sub>>}
MCTree == MCDirs \cup {<<Src, AMd>>, <<Src, CH>>, <<Src, Sub, BMd>>, <<Src, Sub, BTestMd>>}

\* DOXY_FILE_PATTERNS cut down to two of its extensions: "*.c *.h".
MCDefault == <<"*", ".", "c", " ", "*", ".", "h">>

\* FILE_PATTERNS: absent, "*.md", "*.md *.h"; EXCLUDE_PATTERNS: absent,
\* "*_test.*"; RECURSIVE: absent, "YES", "NO".
MCFilePatterns == {<<>>, <<"*", ".", "m", "d">>, <<"*", ".", "m", "d", " ", "*", ".", "h">>}
MCExcludes == {<<>>, <<"*", "_", "t", "e", "s", "t", ".", "*">>}
MCRecursive == {<<>>, <<"Y", "E", "S">>, <<"N", "O">>}
MCPars == {("FILE_PATTERNS" :> f) @@ ("EXCLUDE_PATTERNS" :> e) @@ ("RECURSIVE" :> r) :
            f \in MCFilePatterns, e \in MCExcludes, r \in MCRecursive}

\* doxy_inputs: one or two of the directories and files.
MCInputs == BoundedSeq({<<Src>>, <<Src, Sub>>, <<Src, AMd>>, <<Src, Sub, BTestMd>>}, 2) \ {<<>>}
=============================================================================

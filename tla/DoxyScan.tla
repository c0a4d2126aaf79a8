------------------------------ MODULE DoxyScan ------------------------------
(***************************************************************************)
(* doxygen.scan() of src/.waf-tools/doxygen.py: the files a doxygen task   *)
(* depends on, found by globbing its input directories with the Doxyfile's *)
(* FILE_PATTERNS, EXCLUDE_PATTERNS and RECURSIVE.                          *)
(*                                                                         *)
(* Strings (names, patterns, Doxyfile values) are sequences of characters, *)
(* so that the code's string operations (split, iteration over a str,     *)
(* the glob of a name) are modelled by what they do.  A path is a         *)
(* sequence of names below the build root.  Node.ant_glob, which is waf's  *)
(* and not this repository's, is modelled after its matcher: a pattern is  *)
(* split on '/', '**' matches any number of directories, every other      *)
(* component is matched against one name with '*' and '?' as wildcards.   *)
(***************************************************************************)
EXTENDS Naturals, Sequences, SequencesExt, FiniteSets

CONSTANTS
  Tree,                \* the paths that exist in the source tree
  Dirs,                \* the members of Tree that are directories
  DOXY_FILE_PATTERNS,  \* the built-in default: one string, as in the code
  ParsChoices,         \* dicts of the keys FILE_PATTERNS, EXCLUDE_PATTERNS, RECURSIVE
  InputChoices         \* doxy_inputs values: sequences of members of Tree

ASSUME Dirs \subseteq Tree

STAR == "*"
QMARK == "?"
SP == " "
SLASH == "/"
GLOBSTAR == <<STAR, STAR>>
YES == <<"Y", "E", "S">>

VARIABLES
  pars,    \* the parsed Doxyfile keys scan() reads; an absent key is ""
  inputs   \* doxy_inputs

-----------------------------------------------------------------------------
(* Python string operations. *)

\* str.split(c): the pieces between occurrences of c, empty pieces kept.
RECURSIVE SplitOn(_, _)
SplitOn(s, c) ==
  IF \A i \in DOMAIN s : s[i] # c THEN <<s>>
  ELSE LET i == CHOOSE i \in DOMAIN s : s[i] = c /\ \A j \in 1..(i - 1) : s[j] # c
       IN <<SubSeq(s, 1, i - 1)>> \o SplitOn(SubSeq(s, i + 1, Len(s)), c)

\* str.split() and Utils.to_list of a string: the words, empty ones dropped.
Words(s) == SelectSeq(SplitOn(s, SP), LAMBDA w : w # <<>>)

-----------------------------------------------------------------------------
(* Node.ant_glob (waflib). *)

\* One pattern component against one name: the regex ant_matcher builds,
\* '*' as '.*' and '?' as '.', anchored at both ends.
RECURSIVE GlobMatch(_, _)
GlobMatch(p, n) ==
  IF p = <<>> THEN n = <<>>
  ELSE IF Head(p) = STAR
       THEN GlobMatch(Tail(p), n) \/ (n # <<>> /\ GlobMatch(p, Tail(n)))
  ELSE n # <<>> /\ (Head(p) = QMARK \/ Head(p) = Head(n))
                /\ GlobMatch(Tail(p), Tail(n))

\* ant_matcher: each pattern of a list as its sequence of components.
AntMatcher(lst) == {SplitOn(lst[i], SLASH) : i \in DOMAIN lst}

\* ant_sub_filter: what is left of each pattern once `name` is matched; <<>>
\* left means the pattern matched the whole path.
SubFilter(name, nn) ==
  UNION {CASE lst = <<>> -> {}
           [] lst[1] = GLOBSTAR /\ Len(lst) = 1 -> {lst, <<>>}
           [] lst[1] = GLOBSTAR ->
                {lst} \cup (IF GlobMatch(lst[2], name) THEN {SubSeq(lst, 3, Len(lst))}
                            ELSE {})
           [] GlobMatch(lst[1], name) -> {Tail(lst)}
           [] OTHER -> {}
         : lst \in nn}

Children(node) == {c \in Tree : Len(c) = Len(node) + 1 /\ SubSeq(c, 1, Len(node)) = node}

\* ant_iter with ant_sub_matcher: a name an exclude pattern matched in full
\* is dropped with everything below it; files accepted by an include
\* pattern are yielded; a directory is entered while include patterns are
\* left.
RECURSIVE AntIter(_, _, _)
AntIter(node, acc, rej) ==
  UNION {LET name == Last(c)
             nrej == SubFilter(name, rej)
             nacc == IF <<>> \in nrej THEN {} ELSE SubFilter(name, acc)
         IN IF nacc = {} THEN {}
            ELSE (IF <<>> \in nacc /\ c \notin Dirs THEN {c} ELSE {})
                 \cup (IF c \in Dirs THEN AntIter(c, nacc, nrej) ELSE {})
         : c \in Children(node)}

AntGlob(node, incl, excl) == AntIter(node, AntMatcher(incl), AntMatcher(excl))

-----------------------------------------------------------------------------
(* doxygen.scan() *)

\* file_patterns as the code holds it: the list split from FILE_PATTERNS,
\* or, when that is empty, the string DOXY_FILE_PATTERNS itself.
FilePatterns(p) ==
  IF Words(p["FILE_PATTERNS"]) # <<>>
  THEN [isList |-> TRUE, val |-> Words(p["FILE_PATTERNS"])]
  ELSE [isList |-> FALSE, val |-> DOXY_FILE_PATTERNS]

\* `for pattern in file_patterns`: the words of a list, the characters of
\* a string.
Elements(fp) == IF fp.isList THEN fp.val ELSE [i \in DOMAIN fp.val |-> <<fp.val[i]>>]

\* Mutant of IncludePatterns: RECURSIVE = YES adds no '**/' prefix.
IncludePatternsFlat(p) ==
  IF FilePatterns(p).isList THEN FilePatterns(p).val ELSE Words(FilePatterns(p).val)

\* The incl argument of ant_glob: with RECURSIVE = YES every element
\* prefixed with '**/'; otherwise file_patterns, which ant_glob passes
\* through Utils.to_list.
IncludePatterns(p) ==
  LET fp == FilePatterns(p)
  IN IF p["RECURSIVE"] = YES
     THEN [i \in DOMAIN Elements(fp) |-> GLOBSTAR \o <<SLASH>> \o Elements(fp)[i]]
     ELSE IF fp.isList THEN fp.val ELSE Words(fp.val)

\* The files scan() returns: directories globbed, files taken as they are.
Scan(p, ins) ==
  UNION {IF ins[i] \in Dirs
         THEN AntGlob(ins[i], IncludePatterns(p), Words(p["EXCLUDE_PATTERNS"]))
         ELSE {ins[i]}
         : i \in DOMAIN ins}

-----------------------------------------------------------------------------
(***************************************************************************)
(* Spec section 4.4 and its end-to-end scenario: a file under an input     *)
(* directory is an input when its name matches a file pattern (the given  *)
(* ones, or the built-in list of extensions), it lies directly in the     *)
(* directory or RECURSIVE is YES, and its name matches no exclude pattern: *)
(* src/sub/b_test.md is excluded by the pattern *_test.* ; plain files  *)
(* are kept.                                                               *)
(***************************************************************************)
SpecPatterns(p) ==
  IF Words(p["FILE_PATTERNS"]) # <<>> THEN Words(p["FILE_PATTERNS"]) ELSE Words(DOXY_FILE_PATTERNS)

MatchesAny(name, pats) == \E i \in DOMAIN pats : GlobMatch(pats[i], name)

SpecFromDir(p, d) ==
  {f \in Tree \ Dirs :
     /\ Len(f) > Len(d) /\ SubSeq(f, 1, Len(d)) = d
     /\ Len(f) = Len(d) + 1 \/ p["RECURSIVE"] = YES
     /\ MatchesAny(Last(f), SpecPatterns(p))}

SpecScan(p, ins) ==
  UNION {IF ins[i] \in Dirs
         THEN {f \in SpecFromDir(p, ins[i]) : ~MatchesAny(Last(f), Words(p["EXCLUDE_PATTERNS"]))}
         ELSE {ins[i]}
         : i \in DOMAIN ins}

-----------------------------------------------------------------------------
Init ==
  /\ pars \in ParsChoices
  /\ inputs \in InputChoices

\* The Doxyfile and the tree are fixed: each initial state is one scan.
Next == UNCHANGED <<pars, inputs>>

Spec == Init /\ [][Next]_<<pars, inputs>>

(***************************************************************************)
(* Every file the spec counts as an input of the doxygen task is among the *)
(* files scan() returns, so a change to any of them makes the task stale. *)
(* A missing one would leave the documentation out of date after an edit. *)
(***************************************************************************)
ScanCoversSpec == SpecScan(pars, inputs) \subseteq Scan(pars, inputs)

(***************************************************************************)
(* Spec section 4.4 and its end-to-end scenario: scan() returns exactly    *)
(* the inputs the spec describes; in particular an excluded name is not   *)
(* scanned at any depth, and without FILE_PATTERNS only files matching    *)
(* the built-in list are.                                                  *)
(***************************************************************************)
ScanMatchesSpec == Scan(pars, inputs) = SpecScan(pars, inputs)

=============================================================================

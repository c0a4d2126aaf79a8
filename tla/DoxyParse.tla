------------------------------ MODULE DoxyParse ------------------------------
(***************************************************************************)
(* parse_doxy of src/.waf-tools/doxygen.py and the serialisation of the    *)
(* parsed table in doxygen.run().                                          *)
(*                                                                         *)
(* Text is a sequence of characters drawn from Chars.  The characters the  *)
(* code looks at are named below; any other member of Chars stands for an  *)
(* ordinary key or value character.  A table is a sequence of <<key,       *)
(* value>> pairs in insertion order, as a Python dict iterates.            *)
(***************************************************************************)
EXTENDS Naturals, Sequences, SequencesExt

CONSTANTS
  Chars,    \* the characters a text may contain
  MaxLen    \* the longest text enumerated

NL == "\n"
BS == "\\"
SP == " "
EQ == "="
PLUS == "+"
HASH == "#"
PlusEq == <<PLUS, EQ>>

ASSUME {NL, BS, SP, EQ, PLUS, HASH} \subseteq Chars

VARIABLE text

-----------------------------------------------------------------------------
(* The Python string operations the parser uses. *)

\* str.find: the 1-based index of the first occurrence of pat, 0 if none.
Find(x, pat) ==
  LET at == {i \in 1..(Len(x) - Len(pat) + 1) : SubSeq(x, i, i + Len(pat) - 1) = pat}
  IN IF at = {} THEN 0 ELSE Min(at)

\* str.strip: drop leading and trailing whitespace.
Strip(x) ==
  LET kept == {i \in DOMAIN x : x[i] # SP}
  IN IF kept = {} THEN <<>> ELSE SubSeq(x, Min(kept), Max(kept))

\* re_rl.sub('', txt): delete each backslash-newline, left to right, with
\* no rescan of the text a deletion joins.
RECURSIVE ReRl(_)
ReRl(s) ==
  IF Len(s) < 2 THEN s
  ELSE IF s[1] = BS /\ s[2] = NL THEN ReRl(SubSeq(s, 3, Len(s)))
  ELSE <<s[1]>> \o ReRl(Tail(s))

\* re_nl.split(txt): the lines between newlines.
RECURSIVE ReNl(_)
ReNl(s) ==
  LET i == Find(s, <<NL>>)
  IN IF i = 0 THEN <<s>>
     ELSE <<SubSeq(s, 1, i - 1)>> \o ReNl(SubSeq(s, i + 1, Len(s)))

-----------------------------------------------------------------------------
(* The table: tbl[key] lookups and assignments keep a key's first position. *)

KeyIndex(tbl, k) ==
  IF \E i \in DOMAIN tbl : tbl[i][1] = k
  THEN CHOOSE i \in DOMAIN tbl : tbl[i][1] = k ELSE 0

Put(tbl, k, v) ==
  LET i == KeyIndex(tbl, k)
  IN IF i = 0 THEN Append(tbl, <<k, v>>) ELSE [tbl EXCEPT ![i] = <<k, v>>]

\* The table as a dict compares: keys to values, order ignored.
AsDict(tbl) == [k \in {tbl[i][1] : i \in DOMAIN tbl} |-> tbl[KeyIndex(tbl, k)][2]]

-----------------------------------------------------------------------------
\* Mutant of AddLine: a line with '=' is taken as a plain assignment before
\* the '+=' test is made.
AddLineEqFirst(tbl, raw) ==
  LET x == Strip(raw)
      i == Find(x, <<EQ>>)
  IN IF x = <<>> \/ x[1] = HASH \/ i = 0 THEN tbl
     ELSE Put(tbl, Strip(SubSeq(x, 1, i - 1)), Strip(SubSeq(x, i + 1, Len(x))))

\* One iteration of the loop of parse_doxy over the logical lines.
AddLine(tbl, raw) ==
  LET x == Strip(raw)
      a == Find(x, PlusEq)
      e == Find(x, <<EQ>>)
  IN IF x = <<>> \/ x[1] = HASH \/ e = 0 THEN tbl
     ELSE IF a > 0
       THEN LET key == Strip(SubSeq(x, 1, a - 1))
                val == Strip(SubSeq(x, a + 2, Len(x)))
                j == KeyIndex(tbl, key)
            IN IF j > 0 THEN [tbl EXCEPT ![j][2] = @ \o <<SP>> \o val]
               ELSE Put(tbl, key, val)
       ELSE Put(tbl, Strip(SubSeq(x, 1, e - 1)), Strip(SubSeq(x, e + 1, Len(x))))

ParseDoxy(txt) == FoldLeft(AddLine, <<>>, ReNl(ReRl(txt)))

-----------------------------------------------------------------------------
(***************************************************************************)
(* The reference semantics of spec section 4.1, stated per key instead of  *)
(* as a loop: among the assignment lines of a key, the value is that of   *)
(* its last plain '=' line (or of its first line when all are '+='),      *)
(* followed by a space and the value of each later '+=' line.              *)
(***************************************************************************)
IsAssignment(x) == x # <<>> /\ x[1] # HASH /\ \E i \in DOMAIN x : x[i] = EQ
IsAdditive(x) == \E i \in 1..(Len(x) - 1) : x[i] = PLUS /\ x[i + 1] = EQ
OperatorAt(x) ==
  IF IsAdditive(x) THEN Min({i \in 1..(Len(x) - 1) : x[i] = PLUS /\ x[i + 1] = EQ})
  ELSE Min({i \in DOMAIN x : x[i] = EQ})
KeyOf(x) == Strip(SubSeq(x, 1, OperatorAt(x) - 1))
ValueOf(x) == Strip(SubSeq(x, OperatorAt(x) + (IF IsAdditive(x) THEN 2 ELSE 1), Len(x)))

Reference(txt) ==
  LET lines == SelectSeq([i \in DOMAIN ReNl(ReRl(txt)) |-> Strip(ReNl(ReRl(txt))[i])],
                         IsAssignment)
      of(k) == {i \in DOMAIN lines : KeyOf(lines[i]) = k}
      start(k) == LET plain == {i \in of(k) : ~IsAdditive(lines[i])}
                  IN IF plain = {} THEN Min(of(k)) ELSE Max(plain)
      later(k) == SetToSortSeq({i \in of(k) : i > start(k)}, LAMBDA p, q : p < q)
  IN [k \in {KeyOf(lines[i]) : i \in DOMAIN lines} |->
        ValueOf(lines[start(k)])
          \o FlattenSeq([j \in DOMAIN later(k) |-> <<SP>> \o ValueOf(lines[later(k)[j]])])]

-----------------------------------------------------------------------------
Init == text \in BoundedSeq(Chars, MaxLen)

\* The text is fixed: each initial state is one Doxyfile to parse.
Next == UNCHANGED text

Spec == Init /\ [][Next]_text

(***************************************************************************)
(* parse_doxy gives every key the value the spec's per-key semantics       *)
(* gives it: '+=' is detected before '=', '=' is last-wins, '+=' appends   *)
(* with one space, and continuation, comment and blank lines are handled   *)
(* as section 4.1 says.                                                    *)
(***************************************************************************)
ParseMatchesSpec == AsDict(ParseDoxy(text)) = Reference(text)

=============================================================================

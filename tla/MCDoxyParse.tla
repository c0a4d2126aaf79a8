---------------------------- MODULE MCDoxyParse ----------------------------
(* Every text of up to MaxLen characters over the characters parse_doxy   *)
(* treats specially and one ordinary character.                            *)
EXTENDS DoxyParse

MCChars == {"a", "=", "+", " ", "#", "\\", "\n"}
=============================================================================

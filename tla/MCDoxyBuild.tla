---------------------------- MODULE MCDoxyBuild ----------------------------
(* Two upstream tasks, two doxygen tasks and the tar task of the first.    *)
(* u1 generates d1's Doxyfile; d2 waits on both upstreams and reads a      *)
(* Doxyfile that exists from the start.                                    *)
EXTENDS DoxyBuild, TLC

CONSTANTS u1, u2, d1, d2, t1

MCUps == {u1, u2}
MCDoxys == {d1, d2}
MCTars == {t1}
MCTarFor == t1 :> d1
MCRunAfter == d1 :> {u1} @@ d2 :> {u1, u2}
MCProducer == d1 :> u1 @@ d2 :> NoProducer

\* Pass runs: every Doxyfile shape, overrides that give a non-empty path.
MCDocChoices == [out : {"", "dir"}, input : {NoKey, "", "src", "missing"}]
MCGenChoices == [out : {NoKey, "dir"}, input : {NoKey, "src"}]
=============================================================================

---- MODULE MCWebServer ----
(***************************************************************************)
(* Instances of WebServer for TLC.                                         *)
(***************************************************************************)
EXTENDS WebServer, TLC

CONSTANTS r1, r2

BothRequests == {r1, r2}
OneRequest == {r1}
First == {1}
Second == {2}
Both == {1, 2}
Neither == {}

RequestSymmetry == Permutations(BothRequests)
====

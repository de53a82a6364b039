---- MODULE MCZipPipeline ----
(***************************************************************************)
(* Instances of ZipPipeline for TLC.                                       *)
(***************************************************************************)
EXTENDS ZipPipeline, TLC

CONSTANTS a, b, c, d

ThreeNames == {a, b, c}
FourNames == {a, b, c, d}
NameSymmetry == Permutations(ThreeNames)
====

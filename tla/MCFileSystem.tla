---------------------------- MODULE MCFileSystem ----------------------------
(***************************************************************************)
(* Files: four file names, two of which agree in the characters that the   *)
(* directory keeps, on a disk of ten sectors of three bytes; or two names  *)
(* and two OpenFile objects on the host.                                   *)
(***************************************************************************)
EXTENDS Files, TLC

CONSTANTS a, b, b2, c, host1, host2

MCNames == {a, b, b2, c}
MCStored(name) == IF name = b2 THEN b ELSE name
MCSizes == {0, 4}
MCHostNames == {host1, host2}
\* a and c are alike, and so are the names on the host.
Symmetry == Permutations({a, c}) \cup Permutations(MCHostNames)
=============================================================================

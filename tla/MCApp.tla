------------------------------- MODULE MCApp -------------------------------
(***************************************************************************)
(* Instances of App.                                                       *)
(***************************************************************************)
EXTENDS App

PathA  == <<"/", "a">>
PathB  == <<"/", "b">>
PathA_B == PathA \o PathB

OnePrefix      == {PathA}
EveryPrefix    == {Slash, PathA, PathA_B}
RegisterPaths  == {Slash, PathB}
MixedPaths     == {Slash, PathB, <<"b">>}
AskedPaths     == {PathA, PathA_B, PathA_B \o PathB, PathB}
Symmetry       == Permutations(Apps \ {Root})
============================================================================

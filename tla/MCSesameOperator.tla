-------------------------- MODULE MCSesameOperator --------------------------
(* Small instances of SesameOperator for TLC.                              *)
EXTENDS SesameOperator, TLC

CONSTANTS s1, s2

\* Both Sesames bear the same name, in different namespaces.
SameName == s1 :> "sesame" @@ s2 :> "sesame"
\* They are interchangeable, and so are the configurations.
Symmetry == Permutations({s1, s2})

=============================================================================

------------------------------ MODULE MCUpgrade ------------------------------
EXTENDS Upgrade, TLC

CONSTANTS p1, p2, r1, r2, s1, s2

ProjectSet == {p1, p2}
RowSet == {r1, r2}
SecretSet == {s1, s2}

(* Projects, rows and secrets are interchangeable.                         *)
Symmetry == Permutations(ProjectSet) \cup Permutations(RowSet) \cup Permutations(SecretSet)
=============================================================================

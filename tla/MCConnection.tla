---------------------------- MODULE MCConnection ----------------------------
(* Small instances of Connection for TLC. *)
EXTENDS Connection, TLC

CONSTANTS s1, s2, n1

OneNsp == [s \in Socket |-> n1]

Symmetry == Permutations(Worker)
=============================================================================

----------------------------- MODULE MCNamespaces -----------------------------
(* Namespaces for TLC: three clients and the application.                       *)
EXTENDS Namespaces, TLC

Symmetry == Permutations(Client)
===============================================================================

------------------------------ MODULE MCRegistry ----------------------------
(* TLC instance of NamespaceRegistry: namespaces are interchangeable, and so *)
(* are the requests.                                                         *)
EXTENDS NamespaceRegistry, TLC

RegSymmetry == Permutations(Namespaces) \cup Permutations(Requests)
=============================================================================

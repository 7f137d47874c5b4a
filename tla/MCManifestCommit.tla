-------------------------- MODULE MCManifestCommit --------------------------
(* TLC instance of ManifestCommit: the processes are interchangeable and so *)
(* are the batches.                                                        *)
EXTENDS ManifestCommit, TLC

Symmetry == Permutations(Writers) \cup Permutations(Batches)
=============================================================================

----------------------------- MODULE MCResolve -----------------------------
(***************************************************************************)
(* PointerResolve for TLC. The writers are interchangeable, and so are the *)
(* readers.                                                                *)
(***************************************************************************)
EXTENDS PointerResolve, TLC

CONSTANT MaxWork    \* bound: highest version, sweeps and faults together

Symmetry == Permutations(Writers) \cup Permutations(Readers)

\* Nothing is claimed of a namespace that has gone back.
Explored == ~rebooted /\ ~regressed /\ top + sweeps + faults <= MaxWork
=============================================================================

------------------------------- MODULE MCLsm -------------------------------
(* TLC instance of Lsm: the tasks that run passes are interchangeable, and   *)
(* so are the keys.                                                          *)
EXTENDS Lsm, TLC

LsmSymmetry == Permutations(Passes) \cup Permutations(Keys)
=============================================================================

----------------------------- MODULE MCProfileKeys -----------------------------
(* ProfileKeys' values for TLC.                                                  *)
EXTENDS ProfileKeys, TLC

CallerSymmetry == Permutations(Callers)

================================================================================

----------------------------- MODULE MC_Classes -----------------------------
(***************************************************************************)
(* Instances of ClassesProps for TLC.                                      *)
(***************************************************************************)
EXTENDS ClassesProps, TLC

\* The constructor and the destructor are named in the model, the others are alike.
Symmetry == Permutations(ClassNames) \cup Permutations(PropNames) \cup Permutations(Types)
=============================================================================

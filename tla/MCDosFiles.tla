---------------------------- MODULE MCDosFiles ----------------------------
(***************************************************************************)
(* DosFiles with two programs that are alike.                              *)
(***************************************************************************)
EXTENDS DosFiles, TLC

Programs == Permutations(Psps \ {Shell})

=============================================================================

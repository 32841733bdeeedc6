---------------------------- MODULE MCFatDrive ----------------------------
(***************************************************************************)
(* FatDrive on an image of a few sectors.                                  *)
(***************************************************************************)
EXTENDS FatDrive, TLC

mc_Blank == [n \in {} |-> <<>>]

Alike == Permutations(Handles) \cup Permutations(Names)

=============================================================================

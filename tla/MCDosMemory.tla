---------------------------- MODULE MCDosMemory ----------------------------
(***************************************************************************)
(* DosMemory and its loops on a small arena.                               *)
(***************************************************************************)
EXTENDS MemoryLoops, TLC

\* Segments are scaled down: the first MCB at 1, one paragraph where DOS has
\* more, conventional memory up to the constant the cfg gives.
Processes == Permutations(Psps)

Strategy(h, f) == [high |-> h, fit |-> f]

mc_AllStrategies ==
  [high : Highs, fit : Fits] \cup {Strategy("high", "invalid")}

=============================================================================

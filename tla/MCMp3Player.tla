----------------------------- MODULE MCMp3Player -----------------------------
(* Model-checking instances of Mp3Player.                                  *)
EXTENDS Mp3PlayerRefinement, TLC

MCVolumes == {50, 100, 101}
FewVolumes == {50}

Symmetry == Permutations(Clients) \cup Permutations(ThreadIds)
=============================================================================

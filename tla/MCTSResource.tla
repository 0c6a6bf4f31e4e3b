---------------------------- MODULE MCTSResource ----------------------------
(* Instances of TSResource for TLC. *)
EXTENDS TSResource, TLC

Symm == Permutations(Threads) \cup Permutations(Resources) \cup Permutations(Slots)
          \cup Permutations(Notifiers)
=============================================================================

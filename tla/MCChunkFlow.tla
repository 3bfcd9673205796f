----------------------------- MODULE MCChunkFlow -----------------------------
(* Instances of ChunkFlow for TLC. *)
EXTENDS ChunkFlow, TLC

CONSTANTS s1, s2, f1, f2

(* Files of two chunks of different length. *)
TwoCuts == [i \in 0 .. 2 |-> <<0, 2, 3>>[i + 1]]

Symmetry == Permutations(Snap) \cup Permutations(Frame)
=============================================================================

------------------------------ MODULE MCThreads ------------------------------
(* Instances of Threads for TLC: two clients, not symmetric because the     *)
(* runs check liveness.                                                     *)
EXTENDS Threads

CONSTANTS a, b
TwoClients == {a, b}
==============================================================================

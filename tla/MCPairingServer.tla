-------------------------- MODULE MCPairingServer --------------------------
(* TLC instance of PairingServer: connections and API threads are symmetric. *)
EXTENDS PairingServer, TLC

Symmetry == Permutations(Phones) \cup Permutations(Callers)
=============================================================================

---------------------------- MODULE MCFirewall ----------------------------
(* TLC instance of Firewall: rules and requests are interchangeable. *)
EXTENDS Firewall, TLC

Symmetry == Permutations(Blocks) \cup Permutations(Requests)
=============================================================================

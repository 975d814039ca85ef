---------------------------- MODULE MCSettingsPage ---------------------------
(* TLC instance of SettingsPage: sources and labels are symmetric. *)
EXTENDS SettingsPage

Symmetry == Permutations(Sources) \cup Permutations(Slugs)
=============================================================================

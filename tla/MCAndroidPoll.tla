---------------------------- MODULE MCAndroidPoll ----------------------------
(* TLC instance of AndroidPoll: identifiers and addresses are symmetric. *)
EXTENDS AndroidPoll, TLC

Symmetry == Permutations(Ids) \cup Permutations(Sources)
=============================================================================

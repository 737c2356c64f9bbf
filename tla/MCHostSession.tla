---------------------------- MODULE MCHostSession ----------------------------
(* The host and the servers that follow one another on it. *)
EXTENDS HostSession, TLC
ServerSymmetry == Permutations(Owners)
=============================================================================

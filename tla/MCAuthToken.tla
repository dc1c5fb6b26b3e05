---------------------------- MODULE MCAuthToken ----------------------------
(* TLC instance of AuthToken.                                              *)
EXTENDS AuthToken, TLC

Symmetry == Permutations(Senders)
=============================================================================

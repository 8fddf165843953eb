---------------------------- MODULE MCVerifierOP ----------------------------
(* Instances of VerifierOP for TLC; requests and codes are interchangeable. *)
EXTENDS VerifierOP, TLC

Interchangeable == Permutations(Requests) \cup Permutations(Codes)
=============================================================================

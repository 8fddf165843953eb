----------------------------- MODULE MCIssuerFlow -----------------------------
EXTENDS IssuerFlow, TLC

(* Requests, structs and tokens are told apart by nothing but identity.    *)
Interchangeable ==
  Permutations(Requests) \cup Permutations(Ptrs) \cup Permutations(Tokens)
=============================================================================

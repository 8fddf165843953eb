------------------------ MODULE MCCredentialEndpoint ------------------------
EXTENDS CredentialEndpoint, TLC

(* The last entry of section 0 and the first ones of section 1.            *)
MCEntries == {<<0, 0>>, <<1, 0>>, <<1, 1>>}

(* Requests are interchangeable, and so are nonces.                        *)
MCSymmetry == Permutations(Callers) \cup Permutations(Nonces)
=============================================================================

--------------------------- MODULE MCMemoryStore ---------------------------
(* Instances of MemoryStore for TLC.  Every handle belongs to one session; *)
(* its name says which field it is a value of.                             *)
EXTENDS MemoryStore, TLC

CONSTANT s1

MCField == [code |-> "code", uri |-> "request_uri", is1 |-> "issuer_state",
            as1 |-> "auth_session", as2 |-> "auth_session",
            kid1 |-> "ephemeral_key_id", kid2 |-> "ephemeral_key_id",
            at1 |-> "access_token", at2 |-> "access_token",
            rt1 |-> "refresh_token", rt2 |-> "refresh_token",
            code2 |-> "code"]
MCFieldOf == [k \in Handles |-> MCField[k]]
MCOwnerOf == [k \in Handles |-> s1]

PtrSymmetry == Permutations(Ptrs) \cup Permutations(Requests)
=============================================================================

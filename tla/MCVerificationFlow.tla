------------------------- MODULE MCVerificationFlow -------------------------
(* Bounded instances of VerificationFlow.                                  *)
EXTENDS VerificationFlow

CONSTANTS s1, c1, c2, h1, h2, t1, p1, p2, j1, j2

LOCAL Tools == INSTANCE TLC

(* No step chooses between jtis but for being equal.                       *)
JtiSymmetry == Tools!Permutations(Jtis)
=============================================================================

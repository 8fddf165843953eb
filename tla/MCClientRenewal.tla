-------------------------- MODULE MCClientRenewal --------------------------
EXTENDS ClientRenewal
=============================================================================

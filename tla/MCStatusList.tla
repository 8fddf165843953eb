---------------------------- MODULE MCStatusList ----------------------------
EXTENDS StatusList
=============================================================================

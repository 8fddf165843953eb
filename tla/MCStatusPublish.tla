--------------------------- MODULE MCStatusPublish ---------------------------
EXTENDS StatusPublish

MCEntries == Sections \X (0..(Size - 1))
=============================================================================

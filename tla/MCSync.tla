------------------------------- MODULE MCSync -------------------------------
\* Sync over the blocks of MCTree that a run names in Known.
EXTENDS SyncIndex, MCTree
=============================================================================

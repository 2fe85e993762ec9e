----------------------------- MODULE MCInsight -----------------------------
\* InsightSync over the blocks of MCTree that a run names in Known.
EXTENDS InsightSync, MCTree
=============================================================================

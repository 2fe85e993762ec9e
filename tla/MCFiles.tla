------------------------------ MODULE MCFiles ------------------------------
\* FileSync over the blocks of MCTree that a run names in Known.
EXTENDS FileSync, MCTree

MCFirstDisks ==
    { << <<"g", "a1">> >>,
      << <<"g">>, <<"a1", "a2">> >>,
      << <<"g", "a1", "b2">>, <<"a2", "b3">> >> }

\* Two files, on a branch that will be left.
MCTwoFiles == { << <<"g">>, <<"a1", "b2">> >> }
=============================================================================

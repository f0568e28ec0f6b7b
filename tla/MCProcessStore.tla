--------------------------- MODULE MCProcessStore ---------------------------
\* Small instances of ProcessStore; the bounds are in the .cfg files.
EXTENDS ProcessStore, TLC

\* Commands are interchangeable, and so are ids.
Symmetry == Permutations(Commands) \cup Permutations(Ids)
=============================================================================

----------------------- MODULE MCMemoryConsolidation -----------------------
\* Small instances of MemoryConsolidation; the bounds are in the .cfg files.
EXTENDS MemoryConsolidation
=============================================================================

-------------------------- MODULE MCRolloutWriter --------------------------
\* Small instance of RolloutWriter: two clients, a channel of two commands.
EXTENDS RolloutWriter

CONSTANTS i1, i2

MCBatches == {<<i1>>, <<i1, i2>>}
=============================================================================

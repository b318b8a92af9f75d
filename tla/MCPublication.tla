--------------------------- MODULE MCPublication ----------------------------
EXTENDS Publication, TLC
=============================================================================

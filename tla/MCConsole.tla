----------------------------- MODULE MCConsole ------------------------------
EXTENDS Console, TLC
=============================================================================

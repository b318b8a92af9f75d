----------------------------- MODULE MCPriceBot -----------------------------
EXTENDS PriceBot, TLC
=============================================================================

---------------------------- MODULE MCColdTier -----------------------------
EXTENDS ColdTier
=============================================================================

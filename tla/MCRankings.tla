----------------------------- MODULE MCRankings -----------------------------
EXTENDS Rankings
=============================================================================

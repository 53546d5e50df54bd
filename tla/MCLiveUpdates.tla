--------------------------- MODULE MCLiveUpdates ---------------------------
EXTENDS LiveUpdates, TLC

\* Clients are interchangeable.
Interchangeable == Permutations(Clients)
=============================================================================

-------------------------- MODULE MCStoreRefinement --------------------------
EXTENDS StoreRefinement
=============================================================================

-------------------------- MODULE MC_StorageGrid --------------------------
EXTENDS StorageGrid
===========================================================================

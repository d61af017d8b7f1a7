------------------------- MODULE MC_RecordRetention -------------------------
EXTENDS RecordRetention
=============================================================================

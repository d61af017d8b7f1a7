-------------------------- MODULE MC_DaemonControl --------------------------
EXTENDS DaemonControl
=============================================================================

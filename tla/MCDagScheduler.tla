--------------------------- MODULE MCDagScheduler ---------------------------
EXTENDS DagScheduler
=============================================================================

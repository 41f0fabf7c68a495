--------------------------- MODULE MCTaskLifecycle --------------------------
EXTENDS TaskLifecycle
=============================================================================

---------------------------- MODULE MCLifecycle ----------------------------
EXTENDS TaskLifecycle
=============================================================================

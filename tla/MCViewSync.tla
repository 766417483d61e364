----------------------------- MODULE MCViewSync -----------------------------
EXTENDS ViewSync
=============================================================================

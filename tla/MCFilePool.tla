----------------------------- MODULE MCFilePool -----------------------------
EXTENDS FilePool
=============================================================================

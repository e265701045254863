--------------------------- MODULE MCMetaBlkRing ---------------------------
EXTENDS MetaBlkRingChain
=============================================================================

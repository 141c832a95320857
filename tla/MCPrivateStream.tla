--------------------------- MODULE MCPrivateStream ---------------------------
EXTENDS PrivateStream

CONSTANTS m1, m2, m3, r1, r2
=============================================================================

--------------------------- MODULE MCTransaction ---------------------------
EXTENDS Transaction
============================================================================

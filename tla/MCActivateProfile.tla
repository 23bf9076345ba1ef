------------------------- MODULE MCActivateProfile -------------------------
EXTENDS ActivateProfile
============================================================================

------------------------ MODULE MCDeactivateProfile ------------------------
EXTENDS DeactivateProfile
============================================================================

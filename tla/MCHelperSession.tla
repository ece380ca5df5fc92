--------------------------- MODULE MCHelperSession ---------------------------
EXTENDS HelperSession
=============================================================================

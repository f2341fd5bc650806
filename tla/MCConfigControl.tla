--------------------------- MODULE MCConfigControl ---------------------------
EXTENDS ConfigControl
=============================================================================

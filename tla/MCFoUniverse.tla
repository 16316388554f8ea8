---------------------------- MODULE MCFoUniverse ----------------------------
EXTENDS FoUniverse
=============================================================================

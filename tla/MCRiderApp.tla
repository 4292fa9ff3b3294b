----------------------------- MODULE MCRiderApp -----------------------------
EXTENDS RiderApp
=============================================================================

----------------------------- MODULE MCAuthKdf -----------------------------
\* The password worker and the client that uses it, for TLC.
EXTENDS AuthKdf
=============================================================================

----------------------------- MODULE MCCliRoom -----------------------------
\* The command line client's room operation and adapter job for TLC.
EXTENDS CliRoom
=============================================================================

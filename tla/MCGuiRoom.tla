----------------------------- MODULE MCGuiRoom -----------------------------
\* The graphical client's room operation and adapter task for TLC.
EXTENDS GuiRoom
=============================================================================

--------------------------- MODULE MCProbeQuality ---------------------------
(* One path on one transport, followed across a wrap of the clock. *)
EXTENDS ProbeQuality

CONSTANTS kcp, noPath, never
=============================================================================

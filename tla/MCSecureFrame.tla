---------------------------- MODULE MCSecureFrame ----------------------------
(* Small instances of SecureFrame for TLC. *)
EXTENDS SecureFrame, TLC

KeySymmetry == Permutations(Keys)
=============================================================================

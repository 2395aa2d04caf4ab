---------------------------- MODULE FrameChannel ----------------------------
(***************************************************************************)
(* What an encrypted channel promises its users: every nonce is used to    *)
(* seal one frame only, and every sealed frame is opened at most once,     *)
(* whatever the network loses, duplicates or reorders.                     *)
(***************************************************************************)
EXTENDS Naturals

CONSTANT Frames   \* a frame is identified by its direction, key and nonce

VARIABLES
  sealed,   \* how often each frame has been sealed
  opened    \* how often each frame has been opened

Init ==
  /\ sealed = [f \in Frames |-> 0]
  /\ opened = [f \in Frames |-> 0]

Seal(f) ==
  /\ sealed[f] = 0
  /\ sealed' = [sealed EXCEPT ![f] = 1]
  /\ UNCHANGED opened

Open(f) ==
  /\ sealed[f] = 1
  /\ opened[f] = 0
  /\ opened' = [opened EXCEPT ![f] = 1]
  /\ UNCHANGED sealed

Next == \E f \in Frames : Seal(f) \/ Open(f)

Spec == Init /\ [][Next]_<<sealed, opened>>
=============================================================================

CONSTANTS
  k1 = k1
  k2 = k2
  Context = "udp"
  Keys = {k1, k2}
  NoKey = NoKey
  MaxCounter = 3
  Window = 2
  Senders = {"client", "server"}
SYMMETRY KeySymmetry
SPECIFICATION Spec
CHECK_DEADLOCK FALSE
INVARIANTS ChannelInv
PROPERTIES ChannelPromise

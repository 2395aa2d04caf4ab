SPECIFICATION KdfFairSpec
CONSTANTS
  Passwords = {p1, p2}
  NoPassword = NoPassword
  MaxSalt = 5
  MaxGen = 5
INVARIANTS AuthInv ResultCurrent
PROPERTIES AuthCompletes StopJoins

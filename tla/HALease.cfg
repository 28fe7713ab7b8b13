CONSTANTS
  Node = {n1, n2}
  NoNode = none
  JoinNodes = {n2}
  TTL = 3
  Margin = 1
  MaxLag = 1
  MaxRev = 4
SPECIFICATION Spec
INVARIANTS
  TypeOK
  AtMostOneWriter
  GrantAttended
  FenceInv
PROPERTY
  EpochsAdvance
  ImplementsFence

CONSTANTS
  Node = {n1, n2}
  NoNode = none
  JoinNodes = {n2}
  TTL = 3
  Margin = 1
  MaxLag = 2
  MaxRev = 3
SPECIFICATION Spec
INVARIANTS
  AtMostOneWriter

CONSTANTS
  Node = {n1, n2}
  NoNode = none
  First = n1
  JoinNodes = {}
  Flaky = {}
  MaxFail = 2
  MaxToken = 3
  MaxWrites = 1
  Faults = {}
SPECIFICATION FairSpec
PROPERTY
  LeadershipReturns
  ReplicaCatchesUp

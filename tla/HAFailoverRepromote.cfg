CONSTANTS
  Node = {n1, n2}
  NoNode = none
  First = n1
  JoinNodes = {}
  Flaky = {n1, n2}
  MaxFail = 2
  MaxToken = 3
  MaxWrites = 0
  Faults = {}
SPECIFICATION Spec
PROPERTY
  PromotionCompletes

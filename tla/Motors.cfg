SPECIFICATION Spec
CONSTANTS
  Demands <- MCDemands
  Answer <- MCAnswer
  ReplyMax = 4
  LineMax = 7
  MaxLost = 1
INVARIANTS CommandsWhole
PROPERTIES Follows

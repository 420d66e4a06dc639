SPECIFICATION ContainersSpec
CONSTANTS
  n1 = n1
  n2 = n2
  n3 = n3
  n4 = n4
  n5 = n5
  i1 = i1
  i2 = i2
  i3 = i3
  NULL = NULL
  Nodes <- FiveNodes
  Items <- ThreeItems
INVARIANT
  Linked
PROPERTIES
  KeepsOrder
  ClearsAll
  StackIsDeque
CHECK_DEADLOCK FALSE

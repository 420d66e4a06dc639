SPECIFICATION Spec
CONSTANTS
  k1 = k1
  k2 = k2
  k3 = k3
  k4 = k4
  v1 = v1
  v2 = v2
  NULL = NULL
  Keys <- FourKeys
  Values <- TwoValues
  Uses <- BothUses
  Thresholds = TRUE
PROPERTIES
  NoKeyLost
  ImplementsDictionary
CHECK_DEADLOCK FALSE

SPECIFICATION Spec
CONSTANTS
  k1 = k1
  k2 = k2
  t1 = t1
  t2 = t2
  Keys <- TwoKeys
  Tabs <- TwoTabs
  Texts = {0, 1, 2}
  Near = 1
  MaxConf = 1
  MaxPasses = 1
  MaxActs = 2
  MaxMishaps = 1
INVARIANTS
  ShieldHolds
  EditsKeepThePreImage
PROPERTY UserWordStands
SYMMETRY Symmetric
CHECK_DEADLOCK FALSE

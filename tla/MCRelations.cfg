SPECIFICATION Spec
CONSTANTS
  u1 = u1
  u2 = u2
  Units <- AllUnits
  Early <- StoredEarly
  Confidences = {1, 2}
  MaxStrength = 2
  DefaultBar = 1
  FormerBar = 0
  MinBar = 0
  MaxBar = 2
  Asserted = 2
  SampleSize = 1
  ToMove = 1
  Cooldown = 1
  MaxIds = 1
  MaxActs = 2
  Horizon = 1
  MaxMishaps = 1
INVARIANTS
  AnswersAreHonest
  NoVerdictMovesTwice
PROPERTY PinStands
CHECK_DEADLOCK FALSE

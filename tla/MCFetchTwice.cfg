SPECIFICATION Spec
CONSTANTS
  t1 = t1
  t2 = t2
  i0 = i0
  Tag = {t1, t2}
  Set = {i0}
  Words = 2
  ResetPc <- Start
  Predictions <- BothPredictions
  Targets <- AllTargets
  CalmRefill = FALSE
PROPERTY CriticalWordOnce

SPECIFICATION Spec
CONSTANTS
  Tasks = {t1, t2}
  Keys = {k1}
  MaxGen = 1
  MaxFaults = 1
  MaxCrashes = 0
  Features = {"complete", "edit"}
INVARIANTS IdleIsWritable
PROPERTIES WritesOnlyItsOwnRows

SYMMETRY AnyTask

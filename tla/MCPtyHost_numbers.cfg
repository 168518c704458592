SPECIFICATION Spec
CONSTANTS
  Tasks = {t1}
  Keys = {k1}
  MaxGen = 2
  MaxFaults = 1
  MaxCrashes = 1
  Features = {"launch_failure", "delete", "cancel"}
INVARIANTS TypeOK NumbersOnRecord RunNumbersNeverReused
PROPERTIES ImplementsNumbering
CHECK_DEADLOCK FALSE

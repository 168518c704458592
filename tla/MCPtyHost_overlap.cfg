SPECIFICATION Spec
CONSTANTS
  Tasks = {t1}
  Keys = {k1}
  MaxGen = 3
  MaxFaults = 0
  MaxCrashes = 1
  Features = {"complete", "cancel", "watchers", "reconcile"}
INVARIANTS LiveRunIsOnRecord FinishedTaskHasNoOpenAttempt

SPECIFICATION FairSpec
CONSTANTS
  Tasks = {t1}
  Keys = {k1}
  MaxGen = 3
  MaxFaults = 0
  MaxCrashes = 0
  Features = {"launch_failure", "edit", "watchers"}
PROPERTIES UnattendedRowSettles


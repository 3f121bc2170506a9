\* The instance of AppRun.cfg.
CONSTANTS
  Machines <- MCMachines
  UsualMachines <- MCUsualMachines
  PlainMachine <- MCPlainMachine
  Nothing = Nothing
  ImageCounts = {2, 3}
  Sizes = {1, 2}
  MaxResizes = 2
  MaxRuns = 2
  Columns = {0, 1, 3}
  MaxCursorEvents = 2
SPECIFICATION AppRunSpec
INVARIANT AllocatorOutlivesAllocations

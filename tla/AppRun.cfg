\* Swapchains of two or three images, a window of two sizes that is resized or
\* minimised twice, two launches, two cursor events a frame.
CONSTANTS
  Machines <- MCMachines
  UsualMachines <- MCUsualMachines
  PlainMachine <- MCPlainMachine
  Nothing = Nothing
  ImageCounts = {2, 3}
  Sizes = {1, 2}
  MaxResizes = 2
  MaxRuns = 2
  Columns = {0, 1, 3}
  MaxCursorEvents = 2
SPECIFICATION AppRunSpec
INVARIANTS
  BestDeviceIsTaken
  EnabledIsSupportedAndSufficient
  CacheSurvivesStaleData
  InputFollowsTheUser
  FramesReadLiveResources
  TeardownIsOrdered
PROPERTIES
  NothingIsPulledFromTheGpu
  CloseIsServed
  ExtentCatchesUp

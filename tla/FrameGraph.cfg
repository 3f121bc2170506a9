\* Every combination of stages in each frame, three frames in flight.
CONSTANTS
  FramesInFlight = 3
  RayTracing = TRUE
SPECIFICATION Spec
INVARIANTS
  SharedImagesDoNotRace
  FrameImagesDoNotRace
  ImagesAreInTheNamedLayout

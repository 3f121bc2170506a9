\* The raster result on its way to the post stage.
CONSTANTS
  FramesInFlight = 3
  RayTracing = TRUE
SPECIFICATION Spec
INVARIANT DeferredFramesAreFreeOfSyncHazards

\* Three swapchain images and two frames in flight: fewer frames than images,
\* so that an image can come back before the frame slot that last used it.
CONSTANTS
  MaxFrameDraws = 2
  MaxImages = 3
  None = None
SPECIFICATION FairSpec
INVARIANTS
  HostExclusive
  FenceReuse
  WaitsAreServed
  AcquireSemaphoreFresh
  RenderFinishedFresh
  InRange
  IInv
PROPERTIES
  OwnershipSpec
  DrawFrameReturns

\* Two images and two frames in flight, a swapchain that may grow or shrink when
\* it is recreated, and one pass the user can switch off.  The two instruments
\* share nothing but the frame loop, so each is checked on machines of its own.
CONSTANTS
  MaxFrameDraws = 2
  MaxImages = 2
  MaxExtent = 2
  None = None
  Dangling = Dangling
  OptionalPasses = {clouds}
  FixedPasses = {main}
  Window = 2
  OneInstrument = TRUE
SPECIFICATION TimingLoopSpec
INVARIANTS
  PixelsAreCaptured
  TakeIsServed
  NoGrowthInFlight
  ReadsMeasureOneFrame
PROPERTIES
  ShownPassIsMeasured

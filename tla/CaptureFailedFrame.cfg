\* The instance of TimingLoop.cfg, of the capture alone; what is documented of takeCapturedFrame().
CONSTANTS
  MaxFrameDraws = 2
  MaxImages = 2
  MaxExtent = 2
  None = None
  Dangling = Dangling
SPECIFICATION CaptureLoopSpec
INVARIANTS
  TakenIsCaptured

SPECIFICATION Spec
CONSTANTS
  Images = {i1, i2}
  SmallImages = {i2}
  Unreadable = {i2}
  Samplers = {s0, s1}
  DefaultSampler = s0
  MAX_TEXTURE_COUNT = 3
  MaxModels = 2
  MaxMeshes = 2
  MaxParts = 4
  Skipped = Skipped
  White = White
  Nothing = Nothing
INVARIANTS
  MaterialsSampleTheirTextures
  EverySlotIsBound

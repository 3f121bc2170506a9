SPECIFICATION Spec
CONSTANTS
  Corners = {c1, c2, c3}
  MaxParts = 2
  MaxFaces = 2
  MaxVertices = 4
  MaxIndices = 4
  MaxDetail = 8
  Bad = Bad
  None = None
INVARIANTS
  RangesTile
  MeshesDrawTheirParts
  AuthoredAttributesAreKept

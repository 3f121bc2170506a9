\* Two files of each format, so that a start() can follow one of either.
CONSTANTS
  Files = {obj1, obj2, gltf1, gltf2}
  GltfFiles = {gltf1, gltf2}
  Nothing = Nothing
SPECIFICATION FairParseSpec
INVARIANTS
  FinishedIsComplete
PROPERTIES
  TakenIsNewest
  ParseIsReported

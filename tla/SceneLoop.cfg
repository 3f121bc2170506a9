\* One file with two meshes; two models are ever loaded.  The formats of the files
\* are AsyncModelParse's question.
CONSTANTS
  Files = {gltf}
  GltfFiles = {gltf}
  TwoMeshFiles = {gltf}
  StartupFile = gltf
  Matrices = {config, moved}
  ConfigMatrix = config
  Views = {view1, view2}
  MaxLoads = 2
  Nothing = Nothing
SPECIFICATION SceneLoopSpec
INVARIANTS
  DrawnSceneIsBound
  TracedTlasIsBound
  TracedSceneIsDrawn
  MeanOfOneScene
PROPERTIES
  RewrittenWhileIdle
  StartupLoadIsCancelled
CHECK_DEADLOCK FALSE

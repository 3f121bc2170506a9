\* The instance of SceneLoop.cfg; what is documented of an empty scene.
CONSTANTS
  Files = {gltf}
  GltfFiles = {gltf}
  TwoMeshFiles = {gltf}
  StartupFile = gltf
  Matrices = {config, moved}
  ConfigMatrix = config
  Views = {view1, view2}
  MaxLoads = 2
  Nothing = Nothing
SPECIFICATION SceneLoopSpec
INVARIANTS
  RemovedModelsAreNotTraced
CHECK_DEADLOCK FALSE

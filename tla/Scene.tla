------------------------------- MODULE Scene -------------------------------
(***************************************************************************)
(* The models of the scene (scene/Scene.cpp, scene/Scene.ixx).  A model is *)
(* abstracted to its identity, the file it was loaded from and its matrix; *)
(* its GPU resources exist as long as it is in model_list.                 *)
(***************************************************************************)
EXTENDS AsyncModelParse, Integers, Sequences

CONSTANTS
  TwoMeshFiles,  \* files whose model has two meshes (the others have one)
  Matrices,      \* model matrices
  ConfigMatrix,  \* sceneConfig::getModelMatrix()
  MaxLoads       \* bound on the models ever loaded

ASSUME SceneAssumption ==
  /\ TwoMeshFiles \subseteq Files
  /\ ConfigMatrix \in Matrices
  /\ MaxLoads \in Nat \ {0}

VARIABLES
  modelLoadPending,
  modelList,           \* model_list
  objectDescriptions,  \* object_descriptions: the model of each, mesh by mesh
  nextModel            \* the identity of the next model to be loaded

sceneVars == << modelLoadPending, modelList, objectDescriptions, nextModel >>

Model == [id : 1 .. MaxLoads, file : Files, matrix : Matrices]

SceneTypeOK ==
  /\ ParseTypeOK
  /\ modelLoadPending \in BOOLEAN
  /\ modelList \in Seq(Model)
  /\ objectDescriptions \in Seq(1 .. MaxLoads)
  /\ nextModel \in 1 .. MaxLoads + 1

SceneInit ==
  /\ ParseInit
  /\ modelLoadPending = FALSE
  /\ modelList = << >> /\ objectDescriptions = << >>
  /\ nextModel = 1

-----------------------------------------------------------------------------

MeshCount(file) == IF file \in TwoMeshFiles THEN 2 ELSE 1

Ids(models) == [i \in DOMAIN models |-> models[i].id]

\* add_model() of a loaded model behind `models`, with its matrix set: one
\* object description per mesh.
AddModelTo(models, descriptions, file, matrix) ==
  /\ nextModel <= MaxLoads
  /\ modelList' = Append(models, [id |-> nextModel, file |-> file, matrix |-> matrix])
  /\ objectDescriptions' = descriptions \o [k \in 1 .. MeshCount(file) |-> nextModel]
  /\ nextModel' = nextModel + 1

BeginModelLoadAsync(file) ==
  /\ Start(file)
  /\ modelLoadPending' = TRUE
  /\ UNCHANGED << modelList, objectDescriptions, nextModel >>

\* pollModelLoad() returns early.
LoadNotReady == ~modelLoadPending \/ ~finished

\* The parse finished, but failed or left nothing to upload: the scene stays as it is.
PollFails ==
  /\ ~LoadNotReady
  /\ TakeParsed
  /\ modelLoadPending' = FALSE
  /\ UNCHANGED << modelList, objectDescriptions, nextModel >>

\* The parse handed over a loader.
TakenSomething == taken' # Nothing

\* The model is uploaded on the render thread and added to the scene.
PollInstalls ==
  /\ ~LoadNotReady
  /\ TakeParsed
  /\ TakenSomething
  /\ modelLoadPending' = FALSE
  /\ AddModelTo(modelList, objectDescriptions, taken', ConfigMatrix)

\* loadAdditionalModel(), when the file could be loaded.
LoadAdditionalModel(file, matrix) ==
  /\ AddModelTo(modelList, objectDescriptions, file, matrix)
  /\ UNCHANGED << parseVars, modelLoadPending >>

\* update_model_matrix(): a model the scene does not have is logged and ignored.
UpdateModelMatrix(matrix, i) ==
  modelList' = [k \in DOMAIN modelList |->
                  IF k = i THEN [modelList[k] EXCEPT !.matrix = matrix] ELSE modelList[k]]

\* Faulty variant: the pending parse is left running.
KeepPendingModelLoad == UNCHANGED << parseVars, modelLoadPending >>

\* cancelPendingModelLoad(): joins the worker and throws its result away.
CancelPendingModelLoad ==
  IF modelLoadPending
    THEN TakeParsed /\ modelLoadPending' = FALSE
    ELSE UNCHANGED << parseVars, modelLoadPending >>

\* reloadModel(), when the file could be loaded.
ReloadModel(file) ==
  /\ CancelPendingModelLoad
  /\ AddModelTo(<< >>, << >>, file, ConfigMatrix)

\* reloadModel() of a file that cannot be loaded: the scene is empty.
ReloadFails ==
  /\ CancelPendingModelLoad
  /\ modelList' = << >> /\ objectDescriptions' = << >>
  /\ UNCHANGED nextModel

=============================================================================

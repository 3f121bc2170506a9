----------------------------- MODULE SceneLoop -----------------------------
(***************************************************************************)
(* What the frame loop does about the scene: App::run() and                *)
(* VulkanRenderer::updateStateDueToUserInput(), its handlers, and the      *)
(* descriptor sets through which a frame reads the scene, interleaved with *)
(* the parsing worker and with the frames the GPU still executes.          *)
(*                                                                         *)
(* A handler runs between two frames and submits none: it is one step.     *)
(* The uploads of a model wait for their own submission, and with it for   *)
(* every frame submitted before.                                           *)
(***************************************************************************)
EXTENDS ASManager

CONSTANTS
  StartupFile,  \* sceneConfig::getModelFile()
  Views         \* camera, light and quality settings: a PathTracingHistoryKey

ASSUME LoopAssumption == StartupFile \in Files

VARIABLES
  pc,            \* where the loop of App::run() is
  rrt,           \* supportsHardwareAcceleratedRRT()
  inFlight,      \* the GPU still executes a frame
  mode,          \* rasterizationMode, as selected in the GUI
  pathTracing,   \* path tracing is selected (and ray tracing is not)
  view,          \* the current PathTracingHistoryKey
  transform,     \* the matrix of model_transform_changed, Nothing when unset
  reload,        \* the file of model_reload_requested, Nothing when unset
  lastMode,      \* lastBoundRasterizationMode
  descriptions,  \* object descriptions in the buffer, << 0 >> for the placeholder
  bound,         \* what the descriptor sets refer to
  accumulation,  \* the path-tracing accumulation image exists
  samples,       \* the views and instances accumulated in it since the last
                 \* reset, {} while pathTracingAccumulatedFrames is 0
  lastView,      \* pathTracingLastHistory
  degraded,      \* history: a Vulkan call failed since the last full rebuild
  replaced       \* history: a reload replaced the scene

guiVars == << mode, pathTracing, view, transform, reload >>
gpuVars == << descriptions, bound, accumulation, samples, lastView, lastMode, degraded >>
allVars == << parseVars, sceneVars, asVars, guiVars, gpuVars, pc, rrt, inFlight, replaced >>

Modes == {"forward", "deferred"}

GuiTypeOK ==
  /\ mode \in Modes /\ pathTracing \in BOOLEAN /\ view \in Views
  /\ transform \in Matrices \cup {Nothing}
  /\ reload \in Files \cup {Nothing}

GpuTypeOK ==
  /\ descriptions \in Seq(0 .. MaxLoads)
  /\ bound \in [objects : {"unwritten", "current"}, textures : Seq(1 .. MaxLoads),
                tlas : {"unwritten", "current", "destroyed"}, mode : Modes]
  /\ accumulation \in BOOLEAN /\ degraded \in BOOLEAN
  /\ samples \in SUBSET (Views \X Seq(Instance))
  /\ lastView \in Views /\ lastMode \in Modes

SceneLoopTypeOK ==
  /\ SceneTypeOK /\ ASTypeOK /\ GuiTypeOK /\ GpuTypeOK
  /\ pc \in {"start", "idle", "poll", "mode", "transform", "reload", "draw",
              "presented", "closed"}
  /\ rrt \in BOOLEAN /\ inFlight \in BOOLEAN /\ replaced \in BOOLEAN

\* The constructor, up to beginModelLoadAsync(): an empty scene is bound.
SceneLoopInit ==
  /\ SceneInit /\ ASInit
  /\ pc = "start"
  /\ rrt \in BOOLEAN
  /\ inFlight = FALSE
  /\ mode = "forward" /\ lastMode = "forward"
  /\ pathTracing = FALSE
  /\ view \in Views /\ lastView = view
  /\ transform = Nothing /\ reload = Nothing
  /\ descriptions = << 0 >>
  /\ bound = [objects |-> "current", textures |-> << >>, tlas |-> "unwritten", mode |-> "forward"]
  /\ accumulation = rrt
  /\ samples = {}
  /\ degraded = FALSE /\ replaced = FALSE

Goto(from, to) == pc = from /\ pc' = to

DeviceIdle == ~inFlight

-----------------------------------------------------------------------------
(***************************************************************************)
(* Descriptor sets and what they refer to.                                 *)
(***************************************************************************)

\* updateTexturesInSharedRenderDescriptorSet(): nothing is written without models.
TexturesWritten(textures) == IF modelList' = << >> THEN textures ELSE Ids(modelList')

\* Faulty variant: the history of the old scene stays in the mean.
KeepSamples == UNCHANGED samples

ResetSamples == samples' = {}

\* updateRaytracingDescriptorSets()
UpdateRaytracing == IF rrt /\ tlas' # Nothing THEN ResetSamples ELSE UNCHANGED samples

TlasBinding(binding) ==
  IF rrt /\ tlas' # Nothing THEN "current"
  ELSE IF binding = "unwritten" THEN "unwritten" ELSE "destroyed"

\* updateAllDescriptorSets(), for sets that held `sets` before.
UpdateAllDescriptorSets(sets) ==
  /\ bound' = [sets EXCEPT !.textures = TexturesWritten(sets.textures),
                           !.tlas = TlasBinding(sets.tlas), !.mode = mode]
  /\ UpdateRaytracing

\* rebuildObjectDescriptions(): a new buffer, bound at once; its contents stay
\* unwritten when the upload fails.
RebuildObjectDescriptions(failure) ==
  descriptions' = IF objectDescriptions' = << >> \/ failure = "upload"
                    THEN << 0 >> ELSE objectDescriptions'

RebuildAS(rebuildBottomLevel, failure) ==
  IF ~rrt THEN UNCHANGED asVars
  ELSE IF rebuildBottomLevel THEN CreateASForScene(modelList', failure)
  ELSE UNCHANGED << blas, asDevice >> /\ CreateTLAS(modelList', failure)

\* Faulty variant: the descriptor sets are written before the new top level exists.
RefreshInWrongOrder(rebuildBottomLevel) ==
  \E failure \in {"none", "upload", "blas", "tlasBegin", "tlasSubmit"} :
    /\ RebuildObjectDescriptions(failure)
    /\ UNCHANGED blas /\ UNCHANGED asDevice
    /\ CreateTLAS(modelList', failure)
    /\ bound' = [bound EXCEPT !.textures = TexturesWritten(bound.textures), !.mode = mode,
                   !.tlas = IF tlas = Nothing THEN "unwritten" ELSE "destroyed"]
    /\ UpdateRaytracing
    /\ degraded' = (failure # "none")
    /\ UNCHANGED << accumulation, lastView, lastMode >>

\* refreshAfterSceneChange()
RefreshAfterSceneChange(rebuildBottomLevel) ==
  \E failure \in {"none", "upload", "blas", "tlasBegin", "tlasSubmit"} :
    /\ RebuildObjectDescriptions(failure)
    /\ RebuildAS(rebuildBottomLevel, failure)
    /\ UpdateAllDescriptorSets([bound EXCEPT !.objects = "current"])
    /\ degraded' = (failure # "none" \/ (degraded /\ ~rebuildBottomLevel))
    /\ UNCHANGED << accumulation, lastView, lastMode >>

-----------------------------------------------------------------------------
(***************************************************************************)
(* The start, the GUI, and the loader worker.                              *)
(***************************************************************************)

ConstructRenderer ==
  /\ Goto("start", "idle")
  /\ BeginModelLoadAsync(StartupFile)
  /\ UNCHANGED << asVars, guiVars, gpuVars, rrt, inFlight, replaced >>

\* gui->render() and the camera.  Bound: the user changes one setting a frame.
UserInput ==
  /\ Goto("idle", "poll")
  /\ \/ UNCHANGED guiVars
     \/ mode' \in Modes /\ UNCHANGED << pathTracing, view, transform, reload >>
     \/ pathTracing' \in BOOLEAN /\ UNCHANGED << mode, view, transform, reload >>
     \/ view' \in Views /\ UNCHANGED << mode, pathTracing, transform, reload >>
     \/ transform' \in Matrices /\ UNCHANGED << mode, pathTracing, view, reload >>
     \/ reload' \in Files /\ UNCHANGED << mode, pathTracing, view, transform >>
  /\ UNCHANGED << parseVars, sceneVars, asVars, gpuVars, rrt, inFlight, replaced >>

ParseInBackground ==
  /\ Worker
  /\ UNCHANGED << sceneVars, asVars, guiVars, gpuVars, pc, rrt, inFlight, replaced >>

\* addModel(), which a caller may use between two frames.
AddModel ==
  /\ pc = "idle"
  /\ DeviceIdle
  /\ \E file \in Files, matrix \in Matrices : LoadAdditionalModel(file, matrix)
  /\ RefreshAfterSceneChange(TRUE)
  /\ UNCHANGED << guiVars, pc, rrt, inFlight, replaced >>

-----------------------------------------------------------------------------
(***************************************************************************)
(* updateStateDueToUserInput().                                            *)
(***************************************************************************)

PollNothing ==
  /\ Goto("poll", "mode")
  /\ LoadNotReady
  /\ UNCHANGED << parseVars, sceneVars, asVars, guiVars, gpuVars, rrt, inFlight, replaced >>

\* Faulty variant: uploads that nobody waits for.
UploadUnwaited == TRUE

\* The fence of an upload signaled.
UploadWaited == DeviceIdle

\* The model arrived: finishModelLoad().
FinishModelLoad ==
  /\ Goto("poll", "mode")
  /\ UploadWaited
  /\ PollInstalls
  /\ RefreshAfterSceneChange(TRUE)
  /\ UNCHANGED << guiVars, rrt, inFlight, replaced >>

ModelLoadFails ==
  /\ Goto("poll", "mode")
  /\ PollFails
  /\ UNCHANGED << asVars, guiVars, gpuVars, rrt, inFlight, replaced >>

HandleRasterizationModeChange ==
  /\ Goto("mode", "transform")
  /\ UNCHANGED << parseVars, sceneVars, asVars, guiVars, rrt, inFlight, replaced >>
  /\ UNCHANGED << descriptions, accumulation, lastView, degraded >>
  /\ IF mode = lastMode THEN UNCHANGED << bound, samples, lastMode >>
     ELSE /\ DeviceIdle
          /\ UpdateAllDescriptorSets(bound)
          /\ lastMode' = mode

\* Before the transform: a new shadow map, and the texture bindings rewritten.
HandleShadowResolutionChange ==
  /\ pc = "transform"
  /\ DeviceIdle
  /\ UNCHANGED << parseVars, sceneVars, asVars, guiVars, pc, rrt, inFlight, replaced >>
  /\ UNCHANGED << descriptions, accumulation, samples, lastView, lastMode, degraded >>
  /\ bound' = [bound EXCEPT !.textures = TexturesWritten(bound.textures)]

\* Sets the matrix of the model at scene index 0, if there is one.
HandleModelTransformChange ==
  /\ Goto("transform", "reload")
  /\ transform' = Nothing
  /\ UNCHANGED << parseVars, mode, pathTracing, view, reload, rrt, inFlight, replaced >>
  /\ UNCHANGED << modelLoadPending, objectDescriptions, nextModel >>
  /\ IF transform = Nothing THEN UNCHANGED << modelList, asVars, gpuVars >>
     ELSE /\ DeviceIdle
          /\ UpdateModelMatrix(transform, 1)
          /\ RefreshAfterSceneChange(FALSE)

\* The selected file replaces the scene, or leaves it empty when it fails to load.
HandleModelReloadRequest ==
  /\ Goto("reload", "draw")
  /\ reload' = Nothing
  /\ UNCHANGED << mode, pathTracing, view, transform, rrt, inFlight >>
  /\ IF reload = Nothing
       THEN UNCHANGED << parseVars, sceneVars, asVars, gpuVars, replaced >>
       ELSE /\ DeviceIdle
            /\ \/ ReloadModel(reload)
               \/ ReloadFails
            /\ RefreshAfterSceneChange(TRUE)
            /\ replaced' = TRUE

-----------------------------------------------------------------------------
(***************************************************************************)
(* drawFrame(), as far as it reads the scene, and the teardown.            *)
(***************************************************************************)

RaytracingOwnsFrame == rrt /\ tlas # Nothing /\ pathTracing

\* A change of the history key restarts the running mean.
PathTrace ==
  /\ samples' = (IF view # lastView THEN {} ELSE samples) \cup {<< view, tlas.instances >>}
  /\ lastView' = view

\* The present may find the swapchain out of date.
DrawFrame ==
  /\ pc = "draw" /\ pc' \in {"idle", "presented"}
  /\ inFlight' = TRUE
  /\ IF RaytracingOwnsFrame THEN PathTrace ELSE UNCHANGED << samples, lastView >>
  /\ UNCHANGED << parseVars, sceneVars, asVars, guiVars, rrt, replaced >>
  /\ UNCHANGED << descriptions, bound, accumulation, lastMode, degraded >>

\* Faulty variant: the object-description binding of the new sets is forgotten.
ReprovisionWithoutObjects ==
  [objects |-> "unwritten", textures |-> << >>, tlas |-> "unwritten", mode |-> mode]

\* reprovisionPerImageResources() and updateObjectDescriptionDescriptorSets():
\* new descriptor sets, before updateAllDescriptorSets() writes the rest.
ReprovisionedSets ==
  [objects |-> "current", textures |-> << >>, tlas |-> "unwritten", mode |-> mode]

\* recreateSwapChain(), for a resize before the frame is drawn, for a dropped
\* frame or after a present: a new accumulation image, unless its transition
\* fails, and new descriptor sets when the image count changed.
RecreateSwapChain ==
  /\ \/ pc = "draw" /\ pc' \in {"draw", "idle"}
     \/ Goto("presented", "idle")
  /\ DeviceIdle
  /\ UNCHANGED << parseVars, sceneVars, asVars, guiVars, rrt, inFlight, replaced >>
  /\ UNCHANGED << descriptions, lastView, lastMode, degraded >>
  /\ accumulation' \in (IF rrt THEN BOOLEAN ELSE {FALSE})
  /\ \E countChanged \in BOOLEAN :
       bound' = LET sets == IF countChanged THEN ReprovisionedSets ELSE bound
                IN  [sets EXCEPT !.textures = TexturesWritten(sets.textures),
                                 !.tlas = TlasBinding(sets.tlas), !.mode = mode]
  /\ IF accumulation' THEN ResetSamples ELSE UpdateRaytracing

\* The window closes: scene->cleanUp(), then VulkanRenderer::cleanUp().
CloseWindow ==
  /\ Goto("idle", "closed")
  /\ DeviceIdle
  /\ CleanUpAS
  /\ UNCHANGED << parseVars, sceneVars, guiVars, gpuVars, rrt, inFlight, replaced >>

\* The GPU (external) completes what was submitted.
GpuCompletes ==
  /\ inFlight
  /\ inFlight' = FALSE
  /\ UNCHANGED << parseVars, sceneVars, asVars, guiVars, gpuVars, pc, rrt, replaced >>

SceneLoopNext ==
  \/ ConstructRenderer \/ UserInput \/ ParseInBackground \/ AddModel
  \/ PollNothing \/ FinishModelLoad \/ ModelLoadFails
  \/ HandleRasterizationModeChange \/ HandleShadowResolutionChange
  \/ HandleModelTransformChange \/ HandleModelReloadRequest
  \/ DrawFrame \/ RecreateSwapChain \/ CloseWindow \/ GpuCompletes

SceneLoopSpec == SceneLoopInit /\ [][SceneLoopNext]_allVars

-----------------------------------------------------------------------------

\* A frame's raster passes read what the scene holds: the bound buffer describes
\* the meshes of the scene's models in order, the texture slots hold the models'
\* textures in the same order, and the offscreen image is the selected mode's.
\* No model of the scene comes from a parse that failed.
DrawnSceneIsBound ==
  pc = "draw" =>
    /\ bound.objects = "current"
    /\ bound.mode = mode
    /\ \A i \in DOMAIN modelList : modelList[i].file \in Files
    /\ modelList # << >> =>
         /\ bound.textures = Ids(modelList)
         /\ ~degraded => descriptions = objectDescriptions
         /\ Len(objectDescriptions) =
              MeshBaseOffset(modelList, Len(modelList)) + MeshCount(modelList[Len(modelList)].file)

\* Whatever failed before, a frame that is traced uses the top level that exists,
\* never one that was destroyed.
TracedTlasIsBound ==
  pc = "draw" /\ rrt /\ tlas # Nothing => bound.tlas = "current"

\* Ray and path tracing see the scene the raster passes draw: one instance per
\* model, built from its geometry, with its current matrix, and numbered so that
\* its meshes find their own object descriptions.
TracedSceneIsDrawn ==
  pc = "draw" /\ rrt /\ tlas # Nothing /\ modelList # << >> /\ ~degraded =>
    /\ tlas.built /\ tlas.blasExist
    /\ Len(tlas.instances) = Len(modelList)
    /\ \A i \in DOMAIN modelList :
         /\ tlas.instances[i].model = modelList[i].id
         /\ tlas.instances[i].matrix = modelList[i].matrix
         /\ \A k \in 1 .. MeshCount(modelList[i].file) :
              objectDescriptions[tlas.instances[i].first + k] = modelList[i].id

\* The running mean of the path tracer never mixes samples of two views or of
\* two scenes, although the frames before a load, a reload, a resize or a change
\* of the render path have accumulated into the same image.
MeanOfOneScene ==
  \A s, t \in samples : s = t

\* Buffers, textures and acceleration structures are destroyed, and descriptor
\* sets rewritten, only while no submitted frame may read them - also when a
\* model arrives, where no handler waits for the device.
RewrittenWhileIdle ==
  [][<< bound, descriptions, asVars, accumulation >>'
       # << bound, descriptions, asVars, accumulation >> => ~inFlight]_allVars

\* "A reload issued mid-parse cannot let the startup load land in the scene
\* alongside the reloaded model" (Scene.ixx).
StartupLoadIsCancelled ==
  [][replaced /\ pc = "poll" => modelList' = modelList]_allVars

\* "A failed reload leaves the scene empty by design" (Scene.ixx): ray and path
\* tracing do not show a model that the scene no longer has.
RemovedModelsAreNotTraced ==
  pc = "draw" /\ RaytracingOwnsFrame =>
    \A i \in DOMAIN tlas.instances :
      \E k \in DOMAIN modelList : modelList[k].id = tlas.instances[i].model

-----------------------------------------------------------------------------
(***************************************************************************)
(* The inductive invariant behind the safety properties.                   *)
(***************************************************************************)

\* Object descriptions list models in order, an entry for each mesh: the offsets
\* that createTLAS() computes lead to the model's own.
Describe(objects, models) ==
  /\ Len(objects) = MeshBaseOffset(models, Len(models) + 1)
  /\ \A i \in DOMAIN models :
       \A k \in 1 .. MeshCount(models[i].file) :
         objects[MeshBaseOffset(models, i) + k] = models[i].id

\* Between UserInput and HandleRasterizationModeChange the sets may already hold
\* the offscreen image of the new mode, because a model arrived.
ModeInv ==
  /\ bound.mode \in {mode, lastMode}
  /\ pc \notin {"poll", "mode"} => mode = lastMode

RasterInv ==
  /\ bound.objects = "current"
  /\ modelList # << >> =>
       /\ bound.textures = Ids(modelList)
       /\ ~degraded => descriptions = objectDescriptions

\* Without a failure since, the top level is the one of the scene's models.
TracedInv ==
  /\ rrt /\ tlas # Nothing => bound.tlas = "current"
  /\ rrt /\ modelList # << >> /\ ~degraded /\ pc # "closed" =>
       /\ blas = Ids(modelList)
       /\ tlas = [instances |-> Instances(modelList, blas), blasExist |-> TRUE, built |-> TRUE]

\* All samples are of the last view and of the instances that still exist.
SamplesInv ==
  /\ samples # {} => rrt
  /\ \A s, t \in samples : s = t
  /\ \A s \in samples : s[1] = lastView /\ (tlas # Nothing => s[2] = tlas.instances)

ReplacedInv ==
  /\ replaced => ~modelLoadPending
  /\ pc = "start" => ~replaced

SceneIInv ==
  /\ SceneLoopTypeOK
  /\ Describe(objectDescriptions, modelList)
  /\ ModeInv /\ RasterInv /\ TracedInv /\ SamplesInv /\ ReplacedInv

=============================================================================

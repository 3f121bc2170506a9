# A TLA+ model of BeschleunigerBallett

BeschleunigerBallett is a C++23 Vulkan renderer: forward and deferred
rasterization, cascaded shadow maps, volumetric clouds, ray tracing and path
tracing, an ImGui overlay, frame capture and GPU timings. Its own code is
`src/Src/GraphicsEngineVulkan/` (paths below are relative to it). One thread, the
render thread, owns every Vulkan object. Three parties run beside it: the worker
thread of the asynchronous model parse, the GPU, and the presentation engine.
What makes the program hard to get right is what these three do between two
statements of the render thread, and what is left behind when one of the many
Vulkan calls of a frame fails. That is what is modelled first; the run around the
frames, from the choice of a device to the teardown and the next launch, comes with it.

## 1. Inventory

| Component | State | Operations | Interacts with |
|---|---|---|---|
| Frame synchronization, `renderer/FrameSync.ixx` | acquire semaphores and fences per frame in flight, render-finished semaphores and fence references per swapchain image, `current_frame` | `create`, `cleanUp`, `resetAndSize`, `advanceFrame` | frame loop, capture |
| Frame loop, `renderer/VulkanRenderer.cpp`, `app/App.cpp` | the step of `drawFrame()`, image count, `lightMatricesNeedFullReseed`, the resize flag, `device_lost_detected` | `drawFrame`, `recreateSwapChain`, the abort helpers, the teardown | GPU, presentation engine, window, every per-image resource |
| Frame capture, `renderer/FrameCapture.ixx` | armed, pending, staging buffer, bound fence | `request`, `record`, `bindSubmitFence`, `invalidateFence`, `take` | frame loop, GPU |
| GPU timings, `renderer/GpuTimingSubsystem.ixx` | query pool, pass mask per image, averages | `create`, `readTimings`, `setPassRecordedMask` | frame loop, GPU, GUI |
| Asynchronous parse, `scene/AsyncModelParse.ixx` | worker, two loaders, two atomics | `start`, `isFinished`, `takeResult`, `takeGltfResult`, the worker | scene |
| Scene, `scene/Scene.cpp` | models, object descriptions, the pending load | `beginModelLoadAsync`, `pollModelLoad`, `add_model`, `loadAdditionalModel`, `reloadModel`, `update_model_matrix` | parse, renderer, acceleration structures |
| Acceleration structures, `renderer/accelerationStructures/ASManager.cpp` | a BLAS per model, a TLAS, the device pointer | `createASForScene`, `createBLAS`, `createTLAS`, `cleanUp` | scene, descriptor sets |
| Scene handlers, `renderer/VulkanRenderer.cpp` | descriptor sets, object-description buffer, accumulation image and its sample count, last bound mode | `updateStateDueToUserInput` and its five handlers, `finishModelLoad`, `addModel`, `updateAllDescriptorSets` | all of the above |
| Asset loading, `scene/{ObjLoader,GltfLoader,Mesh,Model,Vertex,Texture}.cpp`, `ModelAssembly.ixx`, `ObjectDescription.ixx` | vertices, indices, materials, texture slots | parse on the CPU, upload, flatten slots | scene |
| Cascades, culling, camera, `scene/light/...`, `Frustum.cpp`, `Camera.cpp` | cascade matrices, splits, caster counts | `updateCascades`, `recordShadowPass`, input | frame loop, window |
| Window and input, `window/Window.cpp`, `WindowInputCallbacks.ixx`, `gui/GUI.cpp` | framebuffer size, resize and close flags, look mode, keys, mouse deltas | GLFW callbacks, `consume_axis_delta`, `render` | frame loop, handlers |
| Device and swapchain choices, `vulkan_base/` | chosen device, queue families, enabled features, the pipeline cache on disk, extent | selection at start and at recreation, reading and writing the cache | every stage |
| Buffers, images, descriptor sets, `vulkan_base/`, `memory/`, `renderer/CommandBufferManager.cpp` | handles, layouts, staging buffer | create, upload, transition, write, clean up | everything |
| Render stages, `renderer/{Rasterizer,DeferredRasterizer,PostStage,Raytracing,PathTracing}.cpp`, `SkyBox.cpp`, `Clouds.cpp` | attachments, render passes, pipelines | `init`, `recordCommands`, `recreate`, `cleanUp` | frame loop |
| Configuration, file reading, ImGui glue, `Main.cpp` | none of interest | pure functions and I/O | |
| `src/third_party`, `src/Test`, `src/scripts`, `src/Resources` | vendored code, tests, tooling, GPU code | out of scope | |

The hard behaviours, and the property that would make each of them correct, are
listed with their lines as `hazards` in `PROJECT.json`. In short:

* *interleaving with the GPU*: per-image resources are rewritten by the host while
  fewer frames than images are in flight and images come back in any order;
* *ordering*: where a fence is reset, which semaphore a present waits for, in which
  order descriptors are written after a scene change;
* *partial failure*: every Vulkan call of a frame may fail, dropping the frame,
  ending the program or leaving a component half built;
* *staleness*: a capture's fence after a recreation, a mask of an earlier frame
  beside a query slice, a descriptor that names a destroyed TLAS, samples of an
  earlier scene in the running mean;
* *protocol sequences*: a reload or an additional model while the startup model is
  still being parsed;
* *liveness*: an unbounded wait for a fence nobody will signal; a window that is
  minimised, resized or closed while `recreateSwapChain()` waits for it;
* *crash and restart*: a cache file that was truncated and not written, or written by
  another driver;
* *teardown*: explicit calls and destructors that release one set of objects twice,
  in an order that differs on a lost device.

## 2. Modules

    FrameSync ---- DrawLoop ---- (refines) ImageOwnership
                      |
    FrameCapture -- CaptureLoop -- TimingLoop -- GpuTiming

    AsyncModelParse ---- Scene ---- ASManager ---- SceneLoop

    SyncScopes ---- FrameGraph

    TextureSlots      MeshRanges

    DeviceChoices  PipelineCache  WindowInput  FrameResources  Teardown
          \-------------\------------ | -----------/-------------/
                                   AppRun ---- MCAppRun

The theorems are in modules of their own, which extend the modules they are about and
follow the composition. `SceneLoop_proofs` begins with the parse it is built on.

    DrawLoop_proofs ---- CaptureLoop_proofs ---- TimingLoop_proofs
    SceneLoop_proofs (with AsyncModelParse)    FrameGraph_proofs
    AppRun_proofs    MeshRanges_proofs    TextureSlots_proofs

**FrameSync** holds the two sizings that live side by side in `FrameSync.ixx`: per
frame in flight and per swapchain image. A handle is `"null"`, `"unsignaled"` or
`"signaled"`; a C++ vector that is shorter than the TLA+ function is `"null"` (or
`None`) in the rest. `create()` is `CreateSync` or `CreateSyncFails`.

**DrawLoop** is `drawFrame()` and `recreateSwapChain()`. The render thread is cut
where another party may run: `pc` names the next step (`waitFence`, `acquire`,
`waitImage`, `record`, `resetFence`, `submit`, `present`, `recreate`). Each step
has its success and its failures: `AcquireOutOfDate`, `DropRecording`,
`FatalFrameError`, `PresentOutOfDate`, `AbortProcess`. `DropFrame` is the lambda
`abort_frame_after_acquire`, which recreates the swapchain and does not advance
the frame. The GPU and the presentation engine are external: a submission waits
for its acquire semaphore and signals the fence and the image's render-finished
semaphore; presents execute in order; an acquire may name an image whose present
has not executed, and then its semaphore signals afterwards.

**ImageOwnership** is the abstract promise about the resources of each image: they
belong to nobody, to the host or to the GPU; the host takes only free ones, and
the GPU gives up what it holds before the host can take it again.

**FrameCapture** and **CaptureLoop**: the component, and its composition with the
frame loop. A buffer's contents are `"latest"` (the copy of the last `record()`),
`"older"` or undefined. Copies execute with the submission that holds them, in
queue order. `TakeCapture` is what a caller does between two frames.

**GpuTiming** and **TimingLoop**: the component, and its composition with the frame
loop and the captures. `queries` is what the pool's slices hold; `commands` is what the
recorded command buffer will write. `ReadSlice` is `readTimings()` with the mask of the
image. A device may measure no timestamps, and a query pool may not be created. Both
instruments are torn down after the last frame.

**AsyncModelParse**: the owner and the worker, cut at every store of the worker
that the owner can see (`loader`, `succeeded`, `finished`). `Start` joins a worker
that still runs, as assigning to the `jthread` does.

**Scene**, **ASManager**, **SceneLoop**: a model is its identity, file and matrix.
`SceneLoop` runs the handlers of `updateStateDueToUserInput()` in their order
between two frames, interleaved with the parse worker and with the frames the GPU
still executes. `bound` is what the descriptor sets refer to; `degraded` and
`replaced` are history variables (a Vulkan call failed since the last full
rebuild; a reload replaced the scene), and `samples` is the set of (view,
instances) pairs that are in the path tracer's running mean.

**SyncScopes** is external: the rules of Vulkan the stages rely on. An image keeps
its last write and the reads since, and each of these the stages of later commands
that are known to come after it; a write also keeps whether it was made available
and to whom it is visible. A dependency covers an earlier access directly or through
a chain. Layout transitions write the image between the two scopes of their
dependency and follow each other in the order of the queue. Regions are not told
apart, and what one subpass does to one attachment is in raster order.

**FrameGraph** is `record_commands()`: one action per pass (clouds, shadows, raster or
trace, sky, post, capture), and for each pass a short sequence of steps, a dependency
with the layout transitions it guards and the uses that follow, translated from the
barriers and subpass dependencies of the stage. Every frame chooses its settings
freely. Images with one copy per swapchain image begin each frame idle, which is
`HostExclusive` of DrawLoop; the cloud output, the shadow map, the two depth buffers
and the path tracer's history are shared by the frames in flight and rely on the
recorded dependencies alone, until `FramesInFlight` later frames have been recorded.
Left out: a recording that is dropped and never reaches the queue, the staging
buffer, the stages that return early because a resource is missing.

**TextureSlots** follows a texture reference from the material of a document to the
descriptor a shader reads. A loader is parsing (`ParseMaterial`, with the kinds in
the order of the loader), parsed, or discarded; `resolveSlot` is the lambda of
`ObjLoader.cpp`, which appends an empty entry for every repetition, and
`assignTextureSlot` that of `GltfLoader.cpp`, which gives no slot to an image without
bytes. `uploadParsed` chooses for every texture whether it was created, replaced by the
default texture, or left empty because that failed too. Everything the renderer derives
from the models (offsets, the flattened plan, what a slot holds) is an operator of
their list, and `resolve_texture_slot` is the shader's clamp. An image is a model value;
an sRGB view and a linear one of the same image are different textures.

**MeshRanges** follows the faces. An OBJ shape is read face by face (`BeginShape`,
`ReadFace`, `EndShape`), a glTF primitive triangle by triangle (`BeginPrimitive`,
`EmitTriangle`, `EndPrimitive`); in between, the part is open and its range is not
recorded. A vertex is the corner it came from and where its normal and tangent came
from, which is all that deduplication, `fillMissingFlatNormals()` and
`computeTangents()` tell apart. `document` is a history variable: what was read,
including the faces that were dropped; the properties compare the meshes with it. An
entry of `indices` is a triangle, three entries of the code's array: both loaders
append three at a time. tinyobj triangulates (its reader's default), so a face has
three corners. Left out: the parsers, the walk over the nodes of a scene, the matrices
(a mirrored node is a trait of the primitive), and material factors.

**DeviceChoices** is the constructor of `VulkanDevice`. A machine is a sequence of
physical devices and the value of `KATAGLYPHIS_VK_GPU`; a device has its queue families,
its features and its extensions. `QueueFamilies` and `BestDevices` follow the two loops
of the code in the driver's order. `LogicalDevice` is `create_logical_device()`: a
feature is enabled when it was asked for *and* its structure is on the chain, which is
why the chain (`ChainRayTracing`, `ChainQuads`, `OnChain`) is modelled.

**PipelineCache** is the file on disk across runs. `TruncateCacheFile` and
`WriteCacheFile` are two actions because a process may die between them.

**WindowInput** has the GLFW callbacks in any order, one key for all, one axis for both.
`user` is what the user really does and `travel` how far the mouse was moved in look
mode since the last frame; the property compares the code's state with both. Entering
and leaving look mode changes GLFW's cursor mode, after which the next event may report
any position; ImGui decides once a frame what it captures.

**FrameResources** is the graph of what the frame's objects were made of. A resource
record `r` holds, for every framebuffer, descriptor set, pipeline or buffer, the objects
it was created from or written with, as pairs `<<user, used>>`; destroying an object
drops every pair it is in, so a pair that is present is never stale. `sized` is the
length of each per-image array. The operators are the renderer's functions, and
`Construct`, `RecreateSwapChain`, `ShaderHotReload`, `RefreshAfterSceneChange`,
`BindRasterizationMode` and `ReplaceShadowMap` call them in the order of the code.
`ReadsLiveResources` lists what `record_commands()` reads. `Failures` are the failed
calls that are only logged and leave an object missing. A failed upload of the object
descriptions is none of them: the buffer was created and is bound, but unwritten, which
is `SceneLoop`'s question; a failed creation of a buffer aborts the program
(`ASSERT_VULKAN`), and no frame follows.

**Teardown** is the sequence of calls at the end of `App::run()` with the destructors
that follow; `Parents` is what an object needs while it exists. Every `cleanUp()` skips
what is gone already, so a call is the set of objects it destroys, and `WaitIdle`, a wait
for the device, is the empty set.

**AppRun** composes these five: `main()`, the device, the constructor of the renderer,
the loop of `App::run()` with its polling, GUI, handlers and `drawFrame()`, the
recreation with the loop of a minimised window, the teardown, a crash at any step, and
the next launch with the file the last one left. A frame is recorded, submitted and
presented, or fails: how is DrawLoop's question. The handlers of
`updateStateDueToUserInput()` are actions of their own, in the order of the code, and in
each the wait for the device is a step of its own before the step that replaces
something; so it is in `recreateSwapChain()` (`WaitForFrames`, `RebuildSwapChain`) and in
the teardown. No handler relies on the wait of another. A model that arrives has no wait
for the device: its uploads wait for their fence on the one queue (`PollModelLoad`), which
`SceneLoop` looks at more closely. **MCAppRun** holds the machines of the
instance.

An operator called a *faulty variant* is a plausible mistake in the definition
that follows it; no specification uses it. Putting it in the place of that
definition must break the property named in `PROJECT.json` under `mutants`, which
shows that the property depends on the code.

## 3. Runs

| Run | Question | Instance |
|---|---|---|
| `draw_loop` | Is every fence, semaphore and per-image resource used by one party at a time, through resizes, dropped frames and failures? Does the loop implement `ImageOwnership`? Is `IInv` an invariant? Does every `drawFrame()` return? | 2 frames, up to 3 images, with fairness |
| `instruments_loop` | Is a capture taken between two frames the captured frame? Does `take()` wait for a fence that nobody signals, after a failed frame too? Does every timing readback read one completed frame, once, with its own mask? | 2 frames, 2 images, 2 extents, an optional and a fixed pass |
| `capture_failed_frame` | The same after a failed frame (*violated*) | the same, captures only |
| `async_parse` | Complete results, the newest wins, every parse is reported? | two files of each format |
| `scene_loop` | Does a frame draw and trace one scene through current descriptors? | one two-mesh file, two models, two views |
| `scene_removed_models` | Are removed models no longer traced? (*violated*) | the same |
| `frame_graph` | Is every image access of every stage ordered after the accesses it depends on, in this frame and in the frames before, and in the right layout? | 3 frames in flight, all 128 settings per frame |
| `texture_slots` | Does every material sample the image it was authored with, through the one capped descriptor array? | two models, two images, two samplers, 3 slots |
| `mesh_ranges` | Does each part of a document become one mesh that draws exactly its triangles? | two parts; two faces, or up to 4 vertices and 4 indices per primitive |
| `frame_graph_raster_output` | Are deferred frames free of synchronization hazards? (*violated*) | as `frame_graph` |
| `app_run` | Is the best working device taken, with the features the renderer relies on? Does a stale cache file cost the cache? Does the camera follow the user only? Does every frame read live resources, and does every handler, recreation and teardown wait before it replaces or destroys them? Is everything destroyed once and in order? If the window does not stay minimised, does a close end the program, and does the swapchain get the window's size? | two launches; below |
| `lost_device` | Does the allocator outlive its allocations on a lost device too? (*violated*) | the same |

*Bounds.* `MaxFrameDraws = 2 < MaxImages = 3` is the smallest instance in which an
image can come back before the frame slot that used it last; the program has 3
frames and typically 3 or 4 images, which is the case proved for every value. A
recreation may choose any image count up to the bound, so growing and shrinking
both happen, and image counts below the frame count as well. The capture and
timing runs need one image more than the one in use and two extents, so that the
staging buffer grows once. In the scene run `MaxLoads = 2` gives a scene of two
models, a reload over one, and an additional model in front of the pending one;
the file has two meshes, so that mesh and model numbers differ; the user changes
one setting per frame, but may change another in each frame. `Window = 2` is the
length of the rolling average. The frame graph takes the program's own
`MAX_FRAME_DRAWS = 3`, so that a frame which skips or traces lies between two that use
a shared image, and has no other bound: its state space is finite. The texture run has
fewer slots than two models can ask for, so that the cap and the padding both matter;
its bound on parts counts the materials and the texture references of all models
together. The mesh run bounds the parts, the faces, the vertices and the indices of a
primitive, and (`MaxDetail`) the vertices, indices and traits of a glTF document
together, each trait counted for two. The shortest strip whose second triangle is
turned has four vertices or indices, and eight admits that strip on a mirrored node,
or a primitive that brings its tangents or normals before one that does not.
The proofs remove all these bounds: `MeshRanges_proofs`, `TextureSlots_proofs` and
`FrameGraph_proofs` show the same properties for every document, every array and every
number of frames in flight.

The instruments run puts captures and timings on machines of their own
(`OneInstrument`): they share the frame loop and nothing else, and the product of both
has ten times the states. `AppRun` varies one *theme* per behaviour, the rest takes its
usual course: `machine` (up to two devices of all ranks and modes, up to three queue
families serving any uses, all but up to two features and one extension), `files`
(every outcome of reading, truncating and writing, a crash anywhere, a driver update
between the launches), `input` (two cursor events a frame, three columns of which no two
distances are equal), `window` (two sizes, minimised or resized twice by the user at any
step, any number of restores), and `settings` (both modes, any of the handlers in one
frame, every logged failure, two and three images per swapchain, with and without
ray tracing). Themes do not meet in the code: the device and the cache are settled
before the first frame, the input state is read by the camera alone, and the handlers do
not look at the window. Crashes, closes and fatal errors occur in every theme that can
tell them apart.

*Fairness.* `FairSpec` assumes weak fairness of the GPU's completions, of the
presentation engine's releases and presents, of the steps of a `drawFrame()` in
progress, and of the exit. The thread is scheduled by the operating system and the
waits have no timeout, so nothing else is needed; fatal errors are *not* fair, so
that no hanging wait is excused by one, and neither are resizes or the end of a
recreation, which lasts as long as the window is minimised. `FairParseSpec`
assumes weak fairness of the worker thread only. `AppRunSpec` assumes it of the
program's own steps only, which includes that `glfwWaitEvents()` returns: GLFW wakes it
for any event of any window, also for those this model has no name for. Nothing is assumed
of the user, whose window may stay minimised for good. `CloseIsServed` and `ExtentCatchesUp`
therefore have the premise `WindowIsRestored` (the window is not minimised for good), and
they need it: `recreateSwapChain()` waits without looking at the close flag, so a close
request that arrives there is served only after the window was restored, and while it
stays minimised there is no extent to catch up with.

*Deadlock* is checked in all runs (`AppRun` says with the action `Stopped` that the last
run has ended) but the scene runs, where the program really
stops: the window is closed, and the bound on loads is used up; and the texture run,
whose bound on parts can be used up while no model is left to be removed.

*Type invariants*: each module with variables has one. Those of the frame loop, the
capture, the timings, the parse, the scene loop, the run of the program, the mesh ranges
and the textures are proved for all values of the constants, as part of the inductive
invariants below. The one of `FrameGraph` documents the variables; that its images are
images (`ImageRecords`) is part of its inductive invariant, that the ages stay below
`FramesInFlight` is not needed there.

## 4. Proofs

Each inductive invariant below is the type invariant and a few named parts, written in
the component's module beside the properties, or in the proof module when its parts
need operators that only the proof uses; the proof module shows that Init
establishes it, that every action preserves it (a lemma per action, split by the parts
the action can disturb) and that it implies the property.

### The frame loop

`DrawLoop_proofs`, for every number of frames in flight and of images: `IInv` is
inductive (`Inductive`), and `TypeOK`, `HostExclusive`, `FenceReuse`, `WaitsAreServed`,
`AcquireSemaphoreFresh`, `InRange` and `RenderFinishedFresh` follow. The only assumption
is `ConstantsAssumption` (two positive bounds, and a null value that is no index).

None of these properties is inductive. `HostExclusive` speaks of the pending
submissions, and nothing in it says why they are others: that comes from a chain.

* `PendingInv`: a pending submission keeps its frame's fence unsignaled, is the
  only one of its frame, and is the one its image's entry in
  `images_in_flight_fences` names. So waiting for that one fence is enough.
* `FrameInv`: what `drawFrame()` has established at each step; in particular that
  the entry is set to the current frame *before* anything is submitted, and that
  the current frame's fence is signaled until its reset.
* `ReseedInv`: a full re-seed, which writes the matrices of every image, is only
  pending while nothing is submitted. It holds because a new shadow map comes with
  a device wait and the flag is cleared before the submit.
* `FenceInv`: an unsignaled fence belongs to a pending submission or to the one
  about to be made. This is why no wait hangs, and why the fence is reset so late.
* `SemaphoreInv`: an acquire semaphore whose frame is complete is unsignaled and
  owed no signal, except where an abort has just used it - and every abort leads to
  a recreation or to the end.
* `PresentInv`, for `RenderFinishedFresh`: a present waits for the semaphore of its own
  image; an image that no submission uses has its semaphore signaled exactly while its
  present is queued; and what a pending submission waits for are the presents of its
  image that are queued before it. The presents of an image are places in a queue whose
  head executes, so the lemmas about `Queued` say what the places become when the queue
  loses its head or gains an element.

`ImplementsOwnership` is the refinement of `ImageOwnership`: under the mapping `OwnerOf`
every step of the host, the GPU or the presentation engine is a step of the abstract
owner or a stutter. It rests on `HostExclusive` (the host takes only what nobody owns)
and on the fence waits (the GPU gives up what it holds first).

### Capture and timings

`CaptureLoop_proofs` and `TimingLoop_proofs` build on `LoopInv` of the loop underneath
(`CaptureStepsKeepLoopInv`): a step of the composition is a step of the loop, or leaves
it alone, or loses the device in `take()`.

* `CaptureIInv` adds that the queue is in the order of submission with one submission
  per frame (`QueueInv`), that the latest copy is the last of the pending ones and fits
  the buffer (`CopiesInv`), and where it is while pixels are pending (`PendingCopyInv`):
  executed, not yet submitted, or *no later in the queue than* the submission whose fence
  is bound. The last case says why a wait for that fence is enough even though the
  bound fence is not that of the copy's own submission. `BoundFenceInv` adds whose fence
  that is: of the last submission, and so, with more than one frame in flight, not the one
  the next frame resets. A frame that then fails for good leaves its own fence to nobody,
  and `take()` does not wait for it. From these: `PixelsAreCaptured`, `TakeIsServed` and
  `NoGrowthInFlight`.
* `TimingIInv` adds `SliceInv`: the slices are as many as the images, the mask of an image
  is that of the commands recorded for it, and once no submission uses the image its
  slice holds one unread frame with this mask. From it: `ReadsMeasureOneFrame` and
  `ShownPassIsMeasured`. `TimedLoopIsCaptureLoop` shows that the loop with timings
  implements the loop with captures, which gives it the promises of the capture.

### Parse and scene

The first part of `SceneLoop_proofs` is about the parse alone, as specified by
`ParseSpec`. `ParseIInv`: only the loader of the parsed format exists, and what the worker
has stored so far agrees with its loader. `FinishedIsComplete` and `TakenIsNewest` follow, for any
files. `ParseAssumption` says that `Nothing` and the partial result are no files.

`SceneLoop_proofs` then shows that the scene uses the parse as `AsyncModelParse` allows
(`SceneLoopParses`), and that `SceneIInv` is inductive, for any files, matrices,
views and number of loads:

* `Describe`: the object descriptions are those of the models, mesh by mesh;
* `ModeInv`, `RasterInv`: the descriptor sets name the mode, the buffer and the textures
  of the scene's models;
* `TracedInv`: an existing TLAS is the bound one, and without a failure since the last
  full rebuild it is built from the BLAS of every model, with the instance of each model
  numbered by its first mesh;
* `SamplesInv`: all samples of the mean are of the last view and the existing instances;
* `ReplacedInv`: after a reload no startup load is pending.

The instance numbers come from `meshBaseOffsets()`, a recursive function. That it is
what the recursion says, for lists of any length, is proved by an induction over Nat
stated with a set (`InductiveSets`, from the well-foundedness of `<`): a set
that has 0 and every successor has every number. `PassExists` of `AppRun_proofs` does the
same once for every loop over a list. The theorems of the library that take
an operator as a parameter are not needed for it. Theorems: `DrawnSceneIsBound`,
`TracedTlasIsBound`, `TracedSceneIsDrawn`, `MeanOfOneScene`, and the action properties
`RewrittenWhileIdle` and `StartupLoadIsCancelled`.

### The run of the program

`AppRun_proofs` proves `AppInductive`, the types and six parts that hardly meet, and the
theorems that follow from each, for any machines, window sizes, image counts, cursor positions,
resizes and launches:

* `DeviceInv` (`BestDeviceIsTaken`, `EnabledIsSupportedAndSufficient`): the device is the
  one picked on this machine and the logical device is made of it. The rest is about the
  functions: `getQueueFamilies()` finds what is there (`QueueFamiliesServe`), the one pass
  over the devices keeps a best one in both slots (`TopsKept`, `BestDevicesAreTops`), and
  the chain holds exactly the structures that were filled in (`ChainHolds`), for each of
  the four ways to link it;
* `InputInv` (`InputFollowsTheUser`): the change since the last frame is within the
  distance the mouse was moved in look mode, and a key is held only if the user holds it;
* `CacheSurvivesStaleData` is inductive as it stands;
* `BuiltInv` (`FramesReadLiveResources`): while the loop runs, the resources are
  `Complete` for the mode that is bound. Every function of the renderer has a lemma that
  says what it makes (`Effect`: which objects anew, which pairs written, which objects
  failed), effects compose (`EffectThen`), and for the constructor, the recreation, the
  hot reload and each handler a lemma concludes that a complete frame stays complete, for
  every set of failures that are only logged;
* `AliveInv` (`TeardownIsOrdered`): on a device that works, the remaining calls destroy
  no object before what was made of it (`InOrder`) and leave nothing (`ServesAll`). The
  teardown is a concatenation; `InOrderThen` and `DestroyedThen` split it into the parts
  of the renderer, the scene, the GUI and the device, and each part is checked object by
  object. Ray tracing objects exist only on a device that has ray tracing, which is
  where the teardown looks for them;
* `IdleInv` (`NothingIsPulledFromTheGpu`): what was replaced since the last submission
  found the GPU idle, it is idle from each wait to the work behind it (`Idled`), and the
  teardown begins with a wait. The theorem `WaitsPrecedeChanges` goes through every handler
  with its own wait: a step that changes something starts where the GPU is idle, and the
  handlers that were not asked wait for nothing.

The assumptions, `AppRunAssumption`, `DeviceChoicesAssumption`, `FrameResourcesAssumption`
and `WindowInputAssumption`, say that the parameters have their types and are not empty:
there is a machine, a size, a column, a possible image count.

### Mesh ranges

`MeshRanges_proofs` proves `RangesTile` for every document: any number of parts, faces,
vertices and indices. `docs/source/model-loading.md` lists it under "Invariants worth
preserving": the ranges tile the arrays contiguously, and the indices of a range stay
in its own block of vertices. It is also why `sliceMeshRange()`, which answers a range
that does not fit with an empty mesh, never does so. The property speaks of recorded
ranges only; the strengthening `IInv` adds what holds of the part that is open:

* `OpenPart`: it starts where the last range ends, in each of the arrays, and its
  triangles use its own vertices (for OBJ because the map of known vertices is the
  shape's own, for glTF because an index out of range drops its triangle);
* `OpenShape`: a shape has a material id per triangle, and no triangle without a
  vertex, so that a shape left without a range leaves nothing in the arrays;
* `OpenPrimitive`: a primitive has all its vertices and none of its material ids.

Appending keeps the recorded ranges (`RangesKept`), closing a part adds one
(`RangePushed`); every action is one of the two, or leaves the arrays alone. The only
assumption, `MeshRangesAssumption`, says that the bounds are natural numbers.

The other two properties compare the meshes with `document`, what was read. They need
two more invariants on top of `IInv`:

* `DInv`, for `MeshesDrawTheirParts`. `Drawing`: the parts read to their end that draw
  anything are, in their order, the recorded ranges, and each range lists the triangles
  and materials of its part. `OpenDraws`: the open part lists those read so far, and its
  vertices are the corners of this part, so that what the next face finds in the map of
  known vertices is a corner of the same shape. `Uploaded`: the meshes are the slices of
  the ranges.
* `AInv`, for `AuthoredAttributesAreKept`, which differs by loader. The OBJ loader
  completes normals and tangents once, at the end (`ShapesShaded`: until then a vertex
  has the normal it brought or none); the glTF loader at the end of each primitive
  (`PrimitivesShaded`: the ranges done with are shaded and keep what they brought, for
  no later pass reaches below the base of the open part).

`AuthoredTriangles` and the others are folds and filters over the document. What such an
operator says of a longer list is proved once for each: a fold is the last value of the
one function that follows its recursion (`KeptIsRun`, `KeptRunsAgree`).

### Texture slots

`TextureSlots_proofs`, for any number of models, materials, textures and slots and for
every failure: `EverySlotIsBound` and `MaterialsSampleTheirTextures`, from `IInv`, which
is the type invariant and

* `DocumentInv`: the loader gives every key it knows one place among its entries, no two
  keys the same, and every id of every material of the document is the place of the
  texture the material was authored with, or says that it has none (`Resolved`);
* `ModelsInv`: every loaded model was uploaded from *some* list of entries
  (`Uploaded`): one texture per entry, in order, with the image and sampler of the entry or
  with a stand-in. The list itself is gone once a model is loaded, hence the existential.

From the two: for a model whose textures fit under the cap, the slot a shader computes
(offset of the model, plus id, clamped) is the place of its own texture in the flattened
plan. The offsets are sums over the models before; that the plan places model after model
there is an induction over their number (`InductiveSets`). Entries are counted by place,
so what a failed texture leaves is a stand-in in its place and nothing moves.
`Known`, `Sums`, `Joined` and `Entries` of the model are functions that follow the
recursion of the code's loops, rather than folds of the library, because the proof has
to speak of their partial results.

### Frame graph

`FrameGraph_proofs` proves the three properties `frame_graph` checks, for any number of
frames in flight, with or without ray tracing, for every choice of stages in every frame
and with recreations in between. The state of an image after a frame depends on dozens
of accesses, but what the next pass needs of it is little, and always of one kind: the
accesses it must follow are by a certain stage, or are known to come before a certain
stage, or are visible to a certain access.

* Such a bound is monotone. A dependency recorded later only adds to what follows an
  access and to what sees it, and an older frame's accesses are forgotten (`Grew`:
  `DependencyGrows`, `AgedGrows`). So a bound on an image holds through every
  pass that leaves the image alone, and after any number of frames.
* `SharedOrdered` has one bound for each image the frames share: the clouds are visible
  to the post stage and read by it alone; the shadow map was last moved by a transition
  and read by fragment shaders since; forward depth was last written by the late tests,
  deferred depth moved, the path tracer's history written by its compute shader.
* `FrameOrdered` has the bounds for the images of the frame, pass by pass: untouched until
  the raster or trace pass, then in the layout the post stage samples (and visible to it,
  if ray tracing owns the frame), the swapchain image acquired, blendable, presentable.
* `OnlyRasterSampling`: the one hazard is the sampling of a raster result by the post
  stage, which `frame_graph_raster_output` exhibits.

A lemma per pass (`CloudsRecorded` to `CaptureRecorded`) walks through its steps: from the
bounds it needs every transition and use is safe, and the bounds it promises hold at its
end. `IInv` is the types of the images with these three parts. The ages of the accesses,
and with them the fences, play no part: the recorded dependencies alone order the shared
images, so a larger `MAX_FRAME_DRAWS` would not make them race. The proof uses no
assumption on the constants.

### What is only model-checked

* Liveness under fairness, and ENABLED: out of the prover's reach. `DrawFrameReturns`,
  `ParseIsReported`, `CloseIsServed` and `ExtentCatchesUp` stay with the runs
  `draw_loop`, `async_parse` and `app_run`.
* The runs that exhibit a finding show a violation, which no theorem could.

Every invariant and every action property of a passing run is proved, and so is the
refinement. No module here uses RECURSIVE.

## 5. Findings

1. `capture_failed_frame`: `FrameCapture::record()` sets `pending` and clears the
   fence before the frame is submitted. If the frame then fails for good while the
   device is alive, `take()` finds no fence, skips the wait and returns the staging
   buffer, which no copy was executed into. The renderer's interface documents that
   it waits, or returns an empty vector when nothing was captured.
2. `scene_removed_models`: `createASForScene()` returns at once for an empty scene
   and keeps the previous TLAS. After a reload that failed, which "leaves the scene
   empty by design", ray and path tracing go on showing the removed models.
3. `lost_device`: when the device was lost, `App::run()` skips the scene's and the GUI's
   teardown but not the renderer's, which destroys the allocator and the device.
   `~Scene()` then frees the buffers and textures of its models through them. Two
   comments say that the allocator outlives every allocation. The repository's docs call
   this path untested, for want of a way to lose a device.
4. `frame_graph_raster_output`: nothing orders the colour write of the raster passes,
   nor the transition to `eShaderReadOnlyOptimal` after it, before the fragment shader
   of the post stage samples the image. The deferred pass ends with a dependency to
   `eBottomOfPipe`, the forward pass with none, and the post pass only declares
   `eColorAttachmentOutput` to `eColorAttachmentOutput`. A test expects deferred frames
   to be free of synchronization hazards. The traced paths have the barrier.
   `FrameImagesDoNotRace` exempts exactly this access and nothing else.

Observations that contradict no documented promise, and so have no run: an addModel()
between a mode change and its handler binds the new mode without recording it; shader
hot reload does not restart the running mean; after a failed layout transition the
accumulation image stays bound as null; `isRunning()` (`AsyncModelParse.ixx:74`) says
something else than its comment after `takeResult()`; closing a minimised window does
not end the loop inside `recreateSwapChain()` as long as the window stays minimised; a window
that is minimised between that loop and the creation of the swapchain makes the program
assert (`RebuildSwapChain`); the ImGui backend keeps the first image count; the render
passes keep the first surface format; a transform that is set while the startup model
still parses builds a TLAS of no instances that `ASManager::cleanUp()` does not release,
because `vulkanDevice` was never set (`ASManager.cpp:450`); a failed upload of the
object descriptions leaves an unwritten buffer bound; with a swapchain of a
single image, and so one frame in flight, a frame that fails for good after its fence was
reset lets a `take()` of an older capture wait for ever, which `TakeIsServed` exempts; only
the cloud noise asks `graphicsFamilySupportsCompute()`, the dispatches of each frame do not; an upload
whose every submit fails is not waited for, although its model is installed; two
captures that are requested without a `take()` in between copy into the same staging
buffer in no order; a staging buffer whose allocation failed is not tried again at the
same extent; an OBJ triangle without area and without normals gets a tangent that is no
number, where a comment says that any axis "beats a NaN" (`Vertex.cpp:131`) - but it
draws nothing, and `AuthoredAttributesAreKept` shows that no triangle with an area gets
one.

## 6. Not modelled, and the plan

Done, in the order of importance: frame synchronization and the frame loop with proofs,
capture and timings composed with it; the asynchronous parse and everything that must be
refreshed when the scene changes; the order of the passes on the queue; texture slots
and mesh ranges; the run of the program: choice of the device
and its features, pipeline cache, window and input, the objects a frame is recorded
from, teardown.

Left out:

* **Cascades, culling, camera** (`CascadedShadowMapMath.cpp`, `Frustum.cpp`,
  `Camera.cpp`): floating-point geometry. What surrounds it is modelled: the shadow map's
  life, pass, layout and re-seed. The integers that remain (a clamp of the cascade
  count, the counters of drawn casters) are single expressions.
* **Surface format and present mode** (`SwapchainChoices.hpp`): one lookup each. What
  later depends on the entry, whether frames can be captured, is free in `CaptureLoop`.
* **Configuration, `FileReader`, ImGui's widgets**: pure functions and I/O.

What the proofs do not reach: the temporal properties (section 4), and whatever the
models leave out.

Not planned: shader code, floating-point geometry, pipeline descriptions, GUI
layout, vendored code. What a modelled component leaves out is said in the notes of
`PROJECT.json` under `components`.

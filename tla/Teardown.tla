------------------------------ MODULE Teardown ------------------------------
(***************************************************************************)
(* The end of App::run(): which objects are destroyed, in which order, by   *)
(* the explicit cleanUp() calls and by the destructors behind them.  An     *)
(* object stands for everything one call destroys.                         *)
(***************************************************************************)
EXTENDS Integers, Sequences, SequencesExt

VARIABLES
  alive,  \* the objects that exist
  calls   \* the calls that are still to come, each the objects it destroys

teardownVars == << alive, calls >>

-----------------------------------------------------------------------------
\* Allocations of the renderer's stages and of the scene.
Allocations ==
  {"accumulation", "accelerationStructures", "forward", "deferred", "sky", "clouds",
   "shadowMap", "objectDescriptions", "capture", "staging", "uniforms", "models"}

DeviceObjects ==
  {"pathTracing", "raytracing", "post", "timings", "sync", "commandPool",
   "descriptorSets", "raytracingSets", "pipelineCache", "guiPool", "swapchain"}

RaytracingObjects ==
  {"accumulation", "accelerationStructures", "pathTracing", "raytracing", "raytracingSets"}

\* What an object needs for as long as it exists, its own destruction included.
Parents(object) ==
  CASE object \in Allocations -> {"allocator", "device"}
    [] object = "swapchain" -> {"device", "surface"}
    [] object \in DeviceObjects \cup {"allocator"} -> {"device"}
    [] object \in {"device", "surface"} -> {"instance"}
    [] object = "imgui" -> {"window"}
    [] OTHER -> {}

\* What App::run() holds when the renderer's constructor returns; models and
\* acceleration structures come with the first model.
ConstructedObjects(rrt, cache) ==
  {"window", "instance", "surface", "device", "allocator", "imgui"}
    \cup (Allocations \ (RaytracingObjects \cup {"models"}))
    \cup (DeviceObjects \ (RaytracingObjects \cup {"pipelineCache"}))
    \cup (IF rrt THEN RaytracingObjects \ {"accelerationStructures"} ELSE {})
    \cup (IF cache THEN {"pipelineCache"} ELSE {})

-----------------------------------------------------------------------------
\* waitIdle() is a call that destroys nothing.
WaitIdle == {}

\* VulkanDevice::cleanUp(): the cache, the allocator, the device.
DeviceCleanUp == << {"pipelineCache"}, {"allocator"}, {"device"} >>

\* Faulty variant: the staging buffers go when nothing needs them any more, at the end.
RendererCleanUpStagingLast(rrt) ==
  << WaitIdle >>
  \o (IF rrt THEN << {"accumulation"}, {"pathTracing"}, {"raytracing"}, {"accelerationStructures"} >>
      ELSE << >>)
  \o << {"forward"}, {"deferred"}, {"sky"}, {"clouds"}, {"shadowMap"}, {"post"},
        {"objectDescriptions"}, {"capture"}, {"timings"}, {"sync"}, {"uniforms"},
        {"commandPool"}, {"descriptorSets"}, {"raytracingSets"}, {"swapchain"} >>
  \o DeviceCleanUp
  \o << {"surface"}, {"instance"}, {"staging"} >>

\* VulkanRenderer::cleanUp()
RendererCleanUp(rrt) ==
  << WaitIdle >>
  \o (IF rrt THEN << {"accumulation"}, {"pathTracing"}, {"raytracing"}, {"accelerationStructures"} >>
      ELSE << >>)
  \o << {"forward"}, {"deferred"}, {"sky"}, {"clouds"}, {"shadowMap"}, {"post"},
        {"objectDescriptions"}, {"capture"}, {"staging"}, {"timings"}, {"sync"},
        {"uniforms"}, {"commandPool"}, {"descriptorSets"}, {"raytracingSets"}, {"swapchain"} >>
  \o DeviceCleanUp
  \o << {"surface"}, {"instance"} >>

SceneCleanUp == << {"models"} >>

\* The backend and its pool, then the context, which restores GLFW's callbacks.
GuiCleanUp == << {"guiPool"}, {"imgui"} >>

\* Faulty variant: the destructors are left to do what the run did not.
AppTeardownByDestructors(lost, rrt) ==
  RendererCleanUp(rrt) \o << {"window"} >> \o GuiCleanUp \o SceneCleanUp

\* After the loop: finishAllRenderCommands(), scene and GUI unless the device is
\* lost, the renderer, the window.  The destructors of ~VulkanRenderer(), ~GUI()
\* and ~Scene() then find what was skipped.
AppTeardown(lost, rrt) ==
  (IF lost THEN << >> ELSE << WaitIdle >> \o SceneCleanUp \o GuiCleanUp)
  \o RendererCleanUp(rrt) \o << {"window"} >>
  \o GuiCleanUp \o SceneCleanUp

\* Every cleanUp() is idempotent: what is gone already is skipped.
DestroyNext ==
  /\ calls # << >>
  /\ alive' = alive \ Head(calls)
  /\ calls' = Tail(calls)

-----------------------------------------------------------------------------
(* Properties *)

\* Nothing goes before what was made of it: the stages before the allocator and
\* the device, the swapchain before the surface, ImGui before its window.
ParentsOutlive == \A object \in alive : Parents(object) \subseteq alive

-----------------------------------------------------------------------------
(* The inductive invariant. *)

Objects ==
  Allocations \cup DeviceObjects
    \cup {"allocator", "device", "instance", "surface", "window", "imgui"}

\* No call of an order destroys what one of the objects needs, unless that object
\* has gone by then, or goes with it.
InOrder(objects, order) ==
  \A object \in objects, i \in DOMAIN order :
     Parents(object) \cap order[i] # {} => \E j \in 1 .. i : object \in order[j]

\* Every object has its turn.
ServesAll(objects, order) ==
  \A object \in objects : \E i \in DOMAIN order : object \in order[i]
=============================================================================

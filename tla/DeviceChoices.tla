--------------------------- MODULE DeviceChoices ---------------------------
(***************************************************************************)
(* Start-up against a graphics driver (vulkan_base/VulkanDevice.cpp): which *)
(* physical device is taken, which queues, features and extensions the      *)
(* logical device is created with, and what the renderer believes of it.    *)
(***************************************************************************)
EXTENDS Integers, Sequences

CONSTANTS
  Machines,  \* the machines a run may meet: physical devices and KATAGLYPHIS_VK_GPU
  Nothing

VARIABLES
  machine,          \* what the loader and the environment answer
  physical_device,  \* the chosen physical device
  device            \* the logical device and what VulkanDevice says of it

deviceVars == << machine, physical_device, device >>

-----------------------------------------------------------------------------
\* getQueueFamilies().  A later family replaces an earlier one until all three
\* are found; family 0 is "none", the families of a device count from 1.
NoFamilies == [graphics |-> 0, compute |-> 0, present |-> 0]

Uses == DOMAIN NoFamilies

IsValid(indices) == \A use \in Uses : indices[use] > 0

\* Faulty variant: the families of a device that offers no single one for everything are
\* taken for complete as soon as they draw and present.
QueueFamiliesEarly(gpu) ==
  LET after[n \in 0 .. Len(gpu.families)] ==
        IF n = 0 THEN NoFamilies
        ELSE IF after[n - 1].graphics > 0 /\ after[n - 1].present > 0 THEN after[n - 1]
        ELSE [use \in Uses |-> IF use \in gpu.families[n] THEN n ELSE after[n - 1][use]]
  IN after[Len(gpu.families)]

QueueFamilies(gpu) ==
  LET after[n \in 0 .. Len(gpu.families)] ==
        IF n = 0 THEN NoFamilies
        ELSE IF IsValid(after[n - 1]) THEN after[n - 1]
        ELSE [use \in Uses |-> IF use \in gpu.families[n] THEN n ELSE after[n - 1][use]]
  IN after[Len(gpu.families)]

\* check_device_suitable(): queues, the swapchain extension, and a surface with
\* a format and a present mode.
Suitable(gpu) == IsValid(QueueFamilies(gpu)) /\ gpu.presentable

-----------------------------------------------------------------------------
\* scorePhysicalDevice() and matchesSelectionMode().
TypeRank == [discrete |-> 4, integrated |-> 3, virtual |-> 2, cpu |-> 1, other |-> 0]

ScoresAbove(gpu, best) ==
  \/ best = Nothing
  \/ TypeRank[gpu.type] > TypeRank[best.type]
  \/ TypeRank[gpu.type] = TypeRank[best.type] /\ gpu.capability > best.capability

MatchesSelectionMode(gpu, mode) ==
  CASE mode = "dedicated" -> gpu.type = "discrete"
    [] mode = "integrated" -> gpu.type = "integrated"
    [] OTHER -> TRUE

\* get_physical_device(): one pass keeps the best device and the best one of
\* the wanted type.
BestDevices(gpus, mode) ==
  LET Consider(best, gpu) ==
        IF ~Suitable(gpu) THEN best
        ELSE [fallback |-> IF ScoresAbove(gpu, best.fallback) THEN gpu ELSE best.fallback,
              matching |-> IF MatchesSelectionMode(gpu, mode) /\ ScoresAbove(gpu, best.matching)
                             THEN gpu ELSE best.matching]
      after[n \in 0 .. Len(gpus)] ==
        IF n = 0 THEN [fallback |-> Nothing, matching |-> Nothing]
        ELSE Consider(after[n - 1], gpus[n])
  IN after[Len(gpus)]

\* Faulty variant: no fallback, a machine without a device of the wanted type is refused.
PickWithoutFallback(gpus, mode) == BestDevices(gpus, mode).matching

PickPhysicalDevice(gpus, mode) ==
  LET best == BestDevices(gpus, mode)
  IN IF best.matching = Nothing THEN best.fallback ELSE best.matching

\* Nothing is left when no device is suitable; the caller then aborts.
GetPhysicalDevice ==
  /\ physical_device' = PickPhysicalDevice(machine.gpus, machine.mode)
  /\ UNCHANGED << machine, device >>

-----------------------------------------------------------------------------
(***************************************************************************)
(* create_logical_device().  Of the features that are only copied from the  *)
(* available ones, multiview stands for all.                                *)
(***************************************************************************)
IndexingFeatures == {"descriptorIndexing", "runtimeDescriptorArray", "nonUniformIndexing"}

StageFeatures == {"accelerationStructure", "rayTracingPipeline", "rayQuery"}

RayTracingFeatures ==
  IndexingFeatures \cup StageFeatures \cup {"bufferDeviceAddress", "maintenance4"}

CopiedFeatures == IndexingFeatures \cup {"multiview", "bufferDeviceAddress"}

\* device_extensions_for_raytracing: the three with a structure of features,
\* and one for the six without.
RayTracingExtensions ==
  {"acceleration_structure", "ray_tracing_pipeline", "ray_query", "others"}

\* The structure that carries a feature to vkCreateDevice, and the extension a
\* structure belongs to.
FeatureStruct(feature) ==
  CASE feature = "multiview" -> "features11"
    [] feature \in IndexingFeatures \cup {"bufferDeviceAddress"} -> "features12"
    [] feature = "maintenance4" -> "features13"
    [] OTHER -> feature

StructExtension ==
  [accelerationStructure |-> "acceleration_structure",
   rayTracingPipeline |-> "ray_tracing_pipeline",
   rayQuery |-> "ray_query",
   computeDerivativeGroupQuads |-> "compute_shader_derivatives"]

\* The pNext pointers as they are declared, and the two places that move them.
DeclaredChain ==
  [features2 |-> "features11", features11 |-> "features12", features12 |-> "features13",
   features13 |-> "end", rayQuery |-> "features13",
   accelerationStructure |-> "rayTracingPipeline", rayTracingPipeline |-> "end",
   computeDerivativeGroupQuads |-> "end"]

\* Faulty variant: the ray query structure is chained in, the others are not.
ChainRayQueryOnly(chain) == [chain EXCEPT !.features12 = "rayQuery"]

ChainRayTracing(chain) ==
  [chain EXCEPT !.features12 = "rayQuery", !.features13 = "accelerationStructure"]

ChainQuads(chain) ==
  [chain EXCEPT !.computeDerivativeGroupQuads = chain.features2,
                !.features2 = "computeDerivativeGroupQuads"]

\* What vkCreateDevice finds behind device_create_info.pNext.
OnChain(chain) ==
  LET from[s \in DOMAIN chain] == {s} \cup (IF chain[s] = "end" THEN {} ELSE from[chain[s]])
  IN from["features2"]

SupportsHardwareRRT(gpu) ==
  /\ RayTracingExtensions \subseteq gpu.extensions
  /\ RayTracingFeatures \subseteq gpu.features

\* shouldEnableComputeDerivativeGroupQuads()
EnablesQuads(gpu) ==
  /\ "compute_shader_derivatives" \in gpu.extensions
  /\ "computeDerivativeGroupQuads" \in gpu.features

\* The request, and the flags later code goes by.  lost is what was asked for
\* in a structure vkCreateDevice never sees.
LogicalDevice(gpu) ==
  LET rrt == SupportsHardwareRRT(gpu)
      quads == EnablesQuads(gpu)
      families == QueueFamilies(gpu)
      rayTraced == IF rrt THEN ChainRayTracing(DeclaredChain) ELSE DeclaredChain
      chain == OnChain(IF quads THEN ChainQuads(rayTraced) ELSE rayTraced)
      asked == (CopiedFeatures \cap gpu.features)
                 \cup (IF rrt THEN RayTracingFeatures ELSE {})
                 \cup (IF quads THEN {"computeDerivativeGroupQuads"} ELSE {})
  IN [structs |-> chain,
      enabled |-> {f \in asked : FeatureStruct(f) \in chain},
      lost |-> {f \in asked : FeatureStruct(f) \notin chain},
      extensions |-> (IF rrt THEN RayTracingExtensions ELSE {})
                       \cup (IF quads THEN {"compute_shader_derivatives"} ELSE {}),
      queues |-> families,
      queueFamilies |-> {families[use] : use \in Uses},
      supportsHardwareRRT |-> rrt,
      bufferDeviceAddress |-> "bufferDeviceAddress" \in gpu.features,
      graphicsFamilySupportsCompute |-> "compute" \in gpu.families[families.graphics]]

CreateLogicalDevice ==
  /\ device' = LogicalDevice(physical_device)
  /\ UNCHANGED << machine, physical_device >>

-----------------------------------------------------------------------------
\* What a driver may say of a device, and what a run may meet.
PhysicalDevices ==
  [type : DOMAIN TypeRank, capability : Nat, families : Seq(SUBSET Uses),
   presentable : BOOLEAN, features : SUBSET STRING, extensions : SUBSET STRING]

ASSUME DeviceChoicesAssumption ==
  /\ Machines \subseteq [gpus : Seq(PhysicalDevices), mode : STRING, caches : BOOLEAN]
  /\ Nothing \notin PhysicalDevices

(* Properties *)

\* A device the program could work with: some family for every use, in whatever
\* order the driver lists them, and a surface to present to.
Workable(gpu) ==
  /\ \A use \in Uses : \E i \in DOMAIN gpu.families : use \in gpu.families[i]
  /\ gpu.presentable

\* get_physical_device() refuses a machine only when no device would work.  What
\* it takes works, is of the wanted type if a working one is, and no other
\* working device it could have taken instead ranks above it; the queues come
\* from families that serve them.
BestDeviceIsChosen(refused) ==
  LET workable == {i \in DOMAIN machine.gpus : Workable(machine.gpus[i])}
      matching == {i \in workable : MatchesSelectionMode(machine.gpus[i], machine.mode)}
      eligible == IF matching = {} THEN workable ELSE matching
  IN /\ refused => workable = {}
     /\ physical_device # Nothing =>
          \E i \in eligible :
             /\ physical_device = machine.gpus[i]
             /\ \A j \in eligible : ~ScoresAbove(machine.gpus[j], physical_device)
     /\ device # Nothing =>
          \A use \in Uses : use \in physical_device.families[device.queues[use]]

\* vkCreateDevice gets what the device has and everything the renderer goes on
\* to rely on: no feature or extension the device lacks, no structure of an
\* extension that is not enabled, no feature asked for in a structure off the
\* chain; the ray tracing paths and the allocator's device addresses are on only
\* with their features enabled.
EnabledIsSupportedAndSufficient ==
  device # Nothing =>
    /\ device.enabled \subseteq physical_device.features
    /\ device.extensions \subseteq physical_device.extensions
    /\ \A s \in device.structs \cap DOMAIN StructExtension :
          StructExtension[s] \in device.extensions
    /\ device.lost = {}
    /\ device.supportsHardwareRRT => RayTracingFeatures \subseteq device.enabled
    /\ device.bufferDeviceAddress => "bufferDeviceAddress" \in device.enabled
=============================================================================

--------------------------- MODULE FrameResources ---------------------------
(***************************************************************************)
(* The Vulkan objects a frame is recorded with and what they were made of:  *)
(* images of the swapchain's size, framebuffers over views, descriptor sets *)
(* over buffers and images, arrays with one element per swapchain image.    *)
(*                                                                         *)
(* A resource record r says what the calls so far left.  r.refs holds a     *)
(* pair << user, used >> while `user` was made of, or written with, the     *)
(* `used` that exists now: replacing an object drops every pair it is in.   *)
(* r.touched: something was replaced or rewritten since the last submission.*)
(* The operators are the renderer's functions, composed in the code's order.*)
(***************************************************************************)
EXTENDS Integers

CONSTANT ImageCounts  \* how many images a swapchain may come with

ASSUME FrameResourcesAssumption ==
  ImageCounts \subseteq Nat \ {0} /\ ImageCounts # {}

Modes == {"forward", "deferred"}

\* Arrays with one element per swapchain image.
PerImage ==
  {"forward", "forwardFramebuffers", "deferred", "deferredFramebuffers",
   "postFramebuffers", "skyFramebuffers", "uniforms", "sharedSets", "postSets",
   "gbufferSets", "raytracingSets", "shadowMap", "commandBuffers"}

\* The stages whose pipelines shaderHotReload() rebuilds.
Stages(rrt) ==
  {"forward", "deferred", "post", "sky", "shadow", "clouds"}
    \cup (IF rrt THEN {"raytracing", "pathTracing"} ELSE {})

\* Calls that may fail and are only logged.
Failures == {"accumulation", "faces", "cubeUpload", "fallbackUpload"}

\* What a failure leaves a frame without.
FailedObjects == {"accumulation", "cubeMap"}

\* The users and the used.
Names ==
  PerImage \cup {"swapchain", "cloudNoise", "cloudOutput", "cloudSets", "accumulation",
                 "skySets", "cubeMap", "objectDescriptions", "textures", "tlas"}

Resources ==
  [images : ImageCounts \cup {0}, refs : SUBSET (Names \X Names),
   sized : [PerImage -> ImageCounts \cup {0}], pipelines : SUBSET Stages(TRUE),
   failed : SUBSET FailedObjects, touched : BOOLEAN, loaded : BOOLEAN, tlas : BOOLEAN,
   boundMode : Modes]

NoResources ==
  [images |-> 0, refs |-> {}, sized |-> [array \in PerImage |-> 0], pipelines |-> {},
   failed |-> {}, touched |-> FALSE, loaded |-> FALSE, tlas |-> FALSE, boundMode |-> "forward"]

-----------------------------------------------------------------------------
\* Body(r), with r evaluated once: calls nest deep here.
Using(r, Body(_)) == CHOOSE result \in {Body(x) : x \in {r}} : TRUE

\* Destroyed and created anew.
Replace(r, object) ==
  [r EXCEPT !.refs = {pair \in @ : object \notin {pair[1], pair[2]}},
            !.failed = @ \ {object},
            !.touched = TRUE]

Refer(r, user, used) ==
  [r EXCEPT !.refs = @ \cup {user} \X used, !.touched = TRUE]

\* Every binding of a group of sets written.
Rewrite(r, user, used) ==
  Refer([r EXCEPT !.refs = {pair \in @ : pair[1] # user}], user, used)

Make(r, object, used) == Refer(Replace(r, object), object, used)

MakePerImage(r, array, used) ==
  Using(Make(r, array, used), LAMBDA made : [made EXCEPT !.sized[array] = made.images])

\* The failure is logged and the object left out.
Fail(r, object) == [Replace(r, object) EXCEPT !.failed = @ \cup {object}]

-----------------------------------------------------------------------------
(***************************************************************************)
(* The stages' images and framebuffers.                                    *)
(***************************************************************************)

CreateSwapchain(r, images) == [Replace(r, "swapchain") EXCEPT !.images = images]

CreatePostFramebuffers(r) == MakePerImage(r, "postFramebuffers", {"swapchain"})

CreateSkyFramebuffers(r) == MakePerImage(r, "skyFramebuffers", {"swapchain"})

\* Rasterizer: offscreen images and depth, then the framebuffers.
CreateRasterizerFrame(r) ==
  MakePerImage(MakePerImage(r, "forward", {"swapchain"}), "forwardFramebuffers", {"forward"})

CreateDeferredFrame(r) ==
  MakePerImage(MakePerImage(r, "deferred", {"swapchain"}), "deferredFramebuffers", {"deferred"})

InitClouds(r) ==
  LET textures == Make(Make(r, "cloudNoise", {}), "cloudOutput", {"swapchain"})
  IN Make(textures, "cloudSets", {"cloudOutput", "cloudNoise"})

\* The noise volume stays; binding 0 is written again.
RecreateClouds(r) ==
  Refer(Make(r, "cloudOutput", {"swapchain"}), "cloudSets", {"cloudOutput"})

CreateAccumulation(r, failures) ==
  IF "accumulation" \in failures THEN Fail(r, "accumulation")
  ELSE Make(r, "accumulation", {"swapchain"})

\* loadCubeMap(): six usable faces, or one black texel for each.
LoadCubeMap(r, failures) ==
  IF failures \cap {"faces", "cubeUpload"} = {} \/ "fallbackUpload" \notin failures
    THEN Refer(r, "skySets", {"cubeMap"})
    ELSE Fail(r, "cubeMap")

\* The shadow map is per image and keeps the layout it was given.
ReinitShadowMap(r) ==
  LET map == MakePerImage(r, "shadowMap", {"sharedSets"})
  IN [map EXCEPT !.pipelines = @ \cup {"shadow"}]

-----------------------------------------------------------------------------
(***************************************************************************)
(* Uniform buffers and descriptor sets.                                    *)
(***************************************************************************)

CreateUniformBuffers(r) == MakePerImage(r, "uniforms", {})

UpdateUBODescriptorSets(r) == Refer(r, "sharedSets", {"uniforms"})

InitDescriptorResources(r) ==
  LET shared == UpdateUBODescriptorSets(MakePerImage(r, "sharedSets", {}))
  IN MakePerImage(MakePerImage(shared, "postSets", {}), "gbufferSets", {})

CreateRaytracingSets(r) == MakePerImage(r, "raytracingSets", {})

\* The offscreen image of the selected mode; nothing is written to too few sets.
UpdatePostDescriptorSets(r, mode) ==
  Using(r, LAMBDA sets :
    IF sets.sized["postSets"] < sets.images THEN sets
    ELSE Rewrite(sets, "postSets", {mode, "cloudOutput"}))

UpdateGBufferDescriptorSets(r) == Rewrite(r, "gbufferSets", {"deferred"})

\* The shadow map is written without a model, the textures are not.
UpdateTextures(r) ==
  Using(r, LAMBDA sets :
    Refer(sets, "sharedSets", {"shadowMap"} \cup (IF sets.loaded THEN {"textures"} ELSE {})))

UpdateRaytracingDescriptorSets(r, mode) ==
  Using(r, LAMBDA sets :
    IF sets.tlas THEN Rewrite(sets, "raytracingSets", {"tlas", mode, "accumulation"}) ELSE sets)

UpdateAllDescriptorSets(r, mode, rrt) ==
  LET post == UpdatePostDescriptorSets(UpdateUBODescriptorSets(r), mode)
      textures == UpdateTextures(UpdateGBufferDescriptorSets(post))
  IN IF rrt THEN UpdateRaytracingDescriptorSets(textures, mode) ELSE textures

\* Not a part of updateAllDescriptorSets().
UpdateObjectDescriptionSets(r) == Refer(r, "sharedSets", {"objectDescriptions"})

\* The buffer exists and is bound even when its upload fails, which leaves it
\* unwritten: what it holds is SceneLoop's question.
RebuildObjectDescriptions(r) ==
  UpdateObjectDescriptionSets(Replace(r, "objectDescriptions"))

CreateCommandBuffers(r) == MakePerImage(r, "commandBuffers", {})

-----------------------------------------------------------------------------
(***************************************************************************)
(* The constructor of VulkanRenderer, from the swapchain on.               *)
(***************************************************************************)
Construct(images, mode, rrt, failures) ==
  LET swapchain == CreateSwapchain(NoResources, images)
      sets == InitDescriptorResources(CreateCommandBuffers(CreateUniformBuffers(swapchain)))
      raster == InitClouds(CreateDeferredFrame(CreateRasterizerFrame(sets)))
      post == CreatePostFramebuffers(ReinitShadowMap(raster))
      traced == IF rrt THEN CreateAccumulation(CreateRaytracingSets(post), failures) ELSE post
      sky == CreateSkyFramebuffers(
               LoadCubeMap(UpdateAllDescriptorSets(traced, mode, rrt), failures))
      described == RebuildObjectDescriptions(sky)
  IN [UpdateAllDescriptorSets(described, mode, rrt) EXCEPT !.pipelines = Stages(rrt)]

-----------------------------------------------------------------------------
(***************************************************************************)
(* What the handlers of updateStateDueToUserInput() do after their wait.   *)
(***************************************************************************)

\* The textures of the scene are others now, or gone with its models.
ChangeModels(r, loaded) == [Replace(r, "textures") EXCEPT !.loaded = loaded]

\* refreshAfterSceneChange(); `traced`: it makes a top level, which a full rebuild
\* of an empty scene does not.  SceneLoop has the scene's side of it.
RefreshAfterSceneChange(r, mode, rrt, traced) ==
  LET described == RebuildObjectDescriptions(r)
      scene == IF rrt /\ traced THEN [Replace(described, "tlas") EXCEPT !.tlas = TRUE]
               ELSE described
  IN UpdateAllDescriptorSets(scene, mode, rrt)

\* shaderHotReload(): each stage is handed the layouts of today, the shadow map
\* goes by the one it kept.
ShaderHotReload(r, rrt) ==
  Using(r, LAMBDA now :
    [now EXCEPT !.pipelines = {stage \in Stages(rrt) :
                                 stage = "shadow" => << "shadowMap", "sharedSets" >> \in now.refs},
                !.touched = TRUE])

\* The sets of another rasterization mode than they were written for.
BindRasterizationMode(r, mode, rrt) ==
  [UpdateAllDescriptorSets(r, mode, rrt) EXCEPT !.boundMode = mode]

ReplaceShadowMap(r) == UpdateTextures(ReinitShadowMap(r))

-----------------------------------------------------------------------------
(***************************************************************************)
(* recreateSwapChain(), from vulkanSwapChain.recreate() on.                *)
(***************************************************************************)

\* Faulty variant: the shadow map keeps its buffers, its sets and the layout it was given.
ReprovisionKeepingShadowMap(r, rrt) ==
  LET sets == InitDescriptorResources(CreateUniformBuffers(r))
  IN IF rrt THEN CreateRaytracingSets(sets) ELSE sets

ReprovisionPerImageResources(r, rrt) ==
  LET sets == ReinitShadowMap(InitDescriptorResources(CreateUniformBuffers(r)))
  IN IF rrt THEN CreateRaytracingSets(sets) ELSE sets

RecreateSwapChain(r, images, mode, rrt, failures) ==
  LET swapchain == CreateSwapchain(r, images)
      raster == CreateRasterizerFrame(CreatePostFramebuffers(swapchain))
      clouds == RecreateClouds(CreateDeferredFrame(raster))
      traced == IF rrt THEN CreateAccumulation(clouds, failures) ELSE clouds
      sky == CreateSkyFramebuffers(traced)
      sized == IF images = r.images THEN sky
               ELSE UpdateObjectDescriptionSets(ReprovisionPerImageResources(sky, rrt))
  IN CreateCommandBuffers(UpdateAllDescriptorSets(sized, mode, rrt))

-----------------------------------------------------------------------------
(***************************************************************************)
(* What record_commands() reads.                                           *)
(***************************************************************************)
FrameNeeds(r, mode, rrt) ==
  {<< "forward", "swapchain" >>, << "forwardFramebuffers", "forward" >>,
   << "deferred", "swapchain" >>, << "deferredFramebuffers", "deferred" >>,
   << "postFramebuffers", "swapchain" >>, << "skyFramebuffers", "swapchain" >>,
   << "cloudOutput", "swapchain" >>, << "cloudSets", "cloudOutput" >>,
   << "cloudSets", "cloudNoise" >>, << "skySets", "cubeMap" >>,
   << "sharedSets", "uniforms" >>, << "sharedSets", "shadowMap" >>,
   << "sharedSets", "objectDescriptions" >>, << "gbufferSets", "deferred" >>,
   << "postSets", mode >>, << "postSets", "cloudOutput" >>}
    \cup (IF r.loaded THEN {<< "sharedSets", "textures" >>} ELSE {})
    \cup (IF rrt /\ r.tlas
            THEN {<< "raytracingSets", "tlas" >>, << "raytracingSets", mode >>,
                  << "raytracingSets", "accumulation" >>, << "accumulation", "swapchain" >>}
            ELSE {})

\* Everything a frame reads is the object that exists now and, where it is per
\* image, has an element for every image the swapchain may hand out, and every
\* stage has a pipeline; an object whose creation failed, and was logged, excepted.
ReadsLiveResources(r, mode, rrt) ==
  /\ r.pipelines = Stages(rrt)
  /\ \A array \in PerImage \ (IF rrt THEN {} ELSE {"raytracingSets"}) :
        r.sized[array] = r.images
  /\ \A pair \in FrameNeeds(r, mode, rrt) :
        pair \in r.refs \/ pair[1] \in r.failed \/ pair[2] \in r.failed

-----------------------------------------------------------------------------
(* The inductive invariant. *)

\* What every handler relies on, whichever ran before: the frame could be
\* recorded, in the mode the sets are written for, the accumulation images are
\* there before the first acceleration structure is, and the layout the shadow
\* map kept for its next reload is that of the sets of today.
Complete(r, mode, rrt) ==
  /\ ReadsLiveResources(r, mode, rrt)
  /\ rrt => << "accumulation", "swapchain" >> \in r.refs \/ "accumulation" \in r.failed
  /\ << "shadowMap", "sharedSets" >> \in r.refs
=============================================================================

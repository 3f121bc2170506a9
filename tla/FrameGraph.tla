----------------------------- MODULE FrameGraph -----------------------------
(***************************************************************************)
(* The passes VulkanRenderer::record_commands puts into one frame's        *)
(* command buffer, with the barriers and subpass dependencies each stage   *)
(* declares, over frames that overlap on the graphics queue.  Images with  *)
(* one copy per swapchain image start each frame idle: drawFrame waited    *)
(* for the fence in images_in_flight (DrawLoop).  The other images have a  *)
(* single copy that the frames in flight share, so only the dependencies   *)
(* recorded here keep their accesses apart.  A frame dropped after its     *)
(* recording never reaches the queue and is left out.                      *)
(***************************************************************************)
EXTENDS SyncScopes

CONSTANTS
  FramesInFlight,  \* MAX_FRAME_DRAWS
  RayTracing       \* device->supportsHardwareAcceleratedRRT()

ASSUME FrameGraphAssumption == FramesInFlight \in Nat \ {0} /\ RayTracing \in BOOLEAN

VARIABLES
  pass,      \* the next pass to record, "idle" between frames
  settings,  \* what the GUI and the renderer ask of this frame, while it is recorded
  images,    \* the state of every image: layout, last write, reads since
  hazards,   \* << pass, image, kind >> of this frame's accesses that nothing orders
  mislaid    \* << pass, image >> of its uses in a layout the image was not in

vars == << pass, settings, images, hazards, mislaid >>

SharedImages == {"cloudOutput", "shadowMap", "forwardDepth", "deferredDepth", "accumulation"}
PerImage == {"offscreen", "gBuffer", "swapchain"}
Images == SharedImages \cup PerImage

Passes == {"idle", "clouds", "shadows", "raster", "trace", "sky", "post", "capture", "submit"}
Settings == [clouds : BOOLEAN, shadows : BOOLEAN, forward : BOOLEAN,
             raytracing : BOOLEAN, pathTracing : BOOLEAN, tlas : BOOLEAN, armed : BOOLEAN]
NothingEnabled == CHOOSE s \in Settings : \A f \in DOMAIN s : ~s[f]

Idle(layout) == [layout |-> layout, writes |-> {}, reads |-> {}]

\* The submits that put these images into their layouts were waited for.
Created == [i \in Images |->
  Idle(CASE i \in {"cloudOutput", "accumulation"} -> "General"
         [] i = "forwardDepth" -> "DepthAttachment"
         [] OTHER -> "Undefined")]

\* The submission waits for the acquire semaphore at eColorAttachmentOutput: the
\* presentation engine's reading ends before that stage.
Acquired ==
  [layout |-> "Undefined", writes |-> {},
   reads |-> {[stage |-> "Presentation", after |-> SecondScope({"ColorAttachmentOutput"}), age |-> 0]}]

-----------------------------------------------------------------------------
(* Dependencies *)

\* Faulty variant: only the colour stage is ordered, not the fragment tests.
ExternalColorDepthWithoutTests ==
  Dependency({"ColorAttachmentOutput"}, {"ColorWrite", "DepthWrite"},
             {"ColorAttachmentOutput"}, {"ColorWrite", "DepthWrite"})

buildExternalColorDepthDependency ==
  Dependency({"ColorAttachmentOutput", "EarlyFragmentTests", "LateFragmentTests"},
             {"ColorWrite", "DepthWrite"},
             {"ColorAttachmentOutput", "EarlyFragmentTests"},
             {"ColorWrite", "DepthWrite"})

buildExternalColorDependency ==
  Dependency({"ColorAttachmentOutput"}, {"ColorWrite"}, {"ColorAttachmentOutput"}, {"ColorWrite"})

\* What a render pass gets for an attachment it declares no dependency for.
ImplicitFirst == Dependency({}, {}, AllCommands, AttachmentAccesses)
ImplicitLast == Dependency(AllCommands, AttachmentAccesses, {"BottomOfPipe"}, {})

Begin(d, moves, uses) == Step(d, Images, moves, uses)
End(d, moves) == Step(d, Images, moves, {})
ImageBarrier(d, move, uses) == Step(d, {move.image}, {move}, uses)
\* A barrier that keeps the layout is no transition.
GeneralBarrier(d, image, uses) == Step(d, {image}, {}, uses)

-----------------------------------------------------------------------------
(* What each stage records *)

CloudsBefore ==
  Dependency({"FragmentShader"}, {}, {"ComputeShader"}, {"ShaderWrite"})
CloudsAfter ==
  Dependency({"ComputeShader"}, {"ShaderWrite"}, {"FragmentShader"}, {"ShaderRead"})

CloudPass ==
  << GeneralBarrier(CloudsBefore, "cloudOutput",
       {Writes("cloudOutput", "General", "ComputeShader", "ShaderWrite")}),
     GeneralBarrier(CloudsAfter, "cloudOutput", {}) >>

ShadowBegin ==
  Dependency({"FragmentShader"}, {"ShaderRead"}, {"EarlyFragmentTests"}, {"DepthWrite"})
ShadowEnd ==
  Dependency({"LateFragmentTests"}, {"DepthWrite"}, {"FragmentShader"}, {"ShaderRead"})

ShadowPass ==
  << Begin(ShadowBegin, {Move("shadowMap", "Undefined", "DepthAttachment")},
       {Use("shadowMap", "DepthAttachment", "EarlyFragmentTests", "LateFragmentTests", "DepthWrite")}),
     End(ShadowEnd, {Move("shadowMap", "DepthAttachment", "ShaderReadOnly")}) >>

SkippedShadowPass ==
  << ImageBarrier(Dependency({"FragmentShader"}, {}, {"FragmentShader"}, {"ShaderRead"}),
       Move("shadowMap", "Undefined", "ShaderReadOnly"), {}) >>

SamplesShadows == Reads("shadowMap", "ShaderReadOnly", "FragmentShader", "ShaderRead")

ForwardSubpass ==
  Begin(buildExternalColorDepthDependency,
    {Move("offscreen", "Undefined", "ColorAttachment"),
     Move("forwardDepth", "Undefined", "DepthAttachment")},
    {Writes("offscreen", "ColorAttachment", "ColorAttachmentOutput", "ColorWrite"),
     Use("forwardDepth", "DepthAttachment", "EarlyFragmentTests", "LateFragmentTests", "DepthWrite"),
     SamplesShadows})

ForwardPass ==
  << ForwardSubpass, End(ImplicitLast, {Move("offscreen", "ColorAttachment", "ShaderReadOnly")}) >>

\* Faulty variant: the geometry subpass is ordered before the fragment shader of
\* the lighting subpass only, as before the stores of the G-buffer were covered.
GeometryToLightingReadsOnly ==
  Dependency({"ColorAttachmentOutput", "EarlyFragmentTests", "LateFragmentTests"},
             {"ColorWrite", "DepthWrite"}, {"FragmentShader"}, {"InputRead"})

GeometryToLighting ==
  Dependency({"ColorAttachmentOutput", "EarlyFragmentTests", "LateFragmentTests"},
             {"ColorWrite", "DepthWrite"},
             {"FragmentShader", "ColorAttachmentOutput", "EarlyFragmentTests", "LateFragmentTests"},
             {"InputRead", "ColorWrite", "DepthWrite"})

LightingToExternal ==
  Dependency({"ColorAttachmentOutput", "LateFragmentTests"},
             {"ColorRead", "ColorWrite", "DepthWrite"}, {"BottomOfPipe"}, {"MemoryRead"})

GeometrySubpass ==
  Begin(buildExternalColorDepthDependency,
    {Move("gBuffer", "Undefined", "ColorAttachment"),
     Move("deferredDepth", "Undefined", "DepthAttachment")},
    {Writes("gBuffer", "ColorAttachment", "ColorAttachmentOutput", "ColorWrite"),
     Use("deferredDepth", "DepthAttachment", "EarlyFragmentTests", "LateFragmentTests", "DepthWrite")})

\* Attachments 1 to 4 are read as input and stored at the end of this subpass.
LightingSubpass ==
  Begin(GeometryToLighting,
    {Move("gBuffer", "ColorAttachment", "ShaderReadOnly"),
     Move("deferredDepth", "DepthAttachment", "ShaderReadOnly")},
    {Writes("offscreen", "ColorAttachment", "ColorAttachmentOutput", "ColorWrite"),
     Reads("gBuffer", "ShaderReadOnly", "FragmentShader", "InputRead"),
     Writes("gBuffer", "ShaderReadOnly", "ColorAttachmentOutput", "ColorWrite"),
     Reads("deferredDepth", "ShaderReadOnly", "FragmentShader", "InputRead"),
     Writes("deferredDepth", "ShaderReadOnly", "LateFragmentTests", "DepthWrite"),
     SamplesShadows})

\* Attachment 0 is first used by the lighting subpass, which no dependency leads
\* to from outside.
DeferredPass ==
  << GeometrySubpass,
     Begin(ImplicitFirst, {Move("offscreen", "Undefined", "ColorAttachment")}, {}),
     LightingSubpass,
     End(LightingToExternal,
       {Move("offscreen", "ColorAttachment", "ShaderReadOnly"),
        Move("deferredDepth", "ShaderReadOnly", "DepthAttachment")}) >>

RaytracingPass ==
  << ImageBarrier(Dependency({"ColorAttachmentOutput"}, {}, {"RayTracingShader"}, {"ShaderWrite"}),
       Move("offscreen", "Undefined", "General"),
       {Writes("offscreen", "General", "RayTracingShader", "ShaderWrite")}),
     ImageBarrier(Dependency({"RayTracingShader"}, {"ShaderWrite"}, {"FragmentShader"}, {"ShaderRead"}),
       Move("offscreen", "General", "ShaderReadOnly"), {}) >>

PathTracingPass ==
  << ImageBarrier(Dependency({"ColorAttachmentOutput", "FragmentShader"}, {},
                             {"ComputeShader"}, {"ShaderWrite"}),
       Move("offscreen", "Undefined", "General"), {}),
     GeneralBarrier(Dependency({"ComputeShader"}, {"ShaderWrite"},
                               {"ComputeShader"}, {"ShaderRead", "ShaderWrite"}),
       "accumulation",
       {Writes("offscreen", "General", "ComputeShader", "ShaderWrite"),
        Reads("accumulation", "General", "ComputeShader", "ShaderRead"),
        Writes("accumulation", "General", "ComputeShader", "ShaderWrite")}),
     ImageBarrier(Dependency({"ComputeShader"}, {"ShaderWrite"}, {"FragmentShader"}, {"ShaderRead"}),
       Move("offscreen", "General", "ShaderReadOnly"), {}) >>

SkyBegin ==
  Dependency({"ColorAttachmentOutput"}, {"ColorWrite"},
             {"ColorAttachmentOutput"}, {"ColorWrite", "ColorRead"})
SkyEnd ==
  Dependency({"ColorAttachmentOutput"}, {"ColorWrite"}, {"ColorAttachmentOutput"}, {"ColorRead"})

SkyPass ==
  << Begin(SkyBegin, {Move("swapchain", "Undefined", "ColorAttachment")},
       {Writes("swapchain", "ColorAttachment", "ColorAttachmentOutput", "ColorWrite")}),
     End(SkyEnd, {}) >>

PostEnd == End(ImplicitLast, {Move("swapchain", "ColorAttachment", "PresentSrc")})

\* The offscreen result is always sampled, the clouds when they are enabled; the
\* swapchain image is loaded and blended over.
PostPass(clouds) ==
  << Begin(buildExternalColorDependency, {},
       {Reads("offscreen", "ShaderReadOnly", "FragmentShader", "ShaderRead"),
        Reads("swapchain", "ColorAttachment", "ColorAttachmentOutput", "ColorRead"),
        Writes("swapchain", "ColorAttachment", "ColorAttachmentOutput", "ColorWrite")}
       \cup IF clouds THEN {Reads("cloudOutput", "General", "FragmentShader", "ShaderRead")} ELSE {}),
     PostEnd >>

\* Faulty variant: the copy leaves the image in the layout it copied from.
CapturePassLeavingSource ==
  << ImageBarrier(Dependency({"ColorAttachmentOutput"}, {"ColorWrite"}, {"Transfer"}, {"TransferRead"}),
       Move("swapchain", "PresentSrc", "TransferSrc"),
       {Reads("swapchain", "TransferSrc", "Transfer", "TransferRead")}) >>

CapturePass ==
  << ImageBarrier(Dependency({"ColorAttachmentOutput"}, {"ColorWrite"}, {"Transfer"}, {"TransferRead"}),
       Move("swapchain", "PresentSrc", "TransferSrc"),
       {Reads("swapchain", "TransferSrc", "Transfer", "TransferRead")}),
     ImageBarrier(Dependency({"Transfer"}, {"TransferRead"}, {"BottomOfPipe", "Host"}, {}),
       Move("swapchain", "TransferSrc", "PresentSrc"), {}) >>

-----------------------------------------------------------------------------
(* record_commands *)

Record(steps, next) ==
  LET run == Perform(pass, [images |-> images, hazards |-> hazards, mislaid |-> mislaid], steps)
  IN /\ pass' = next
     /\ images' = run.images
     /\ hazards' = run.hazards
     /\ mislaid' = run.mislaid
     /\ UNCHANGED settings

raytracingOwnsFrame ==
  RayTracing /\ settings.tlas /\ (settings.raytracing \/ settings.pathTracing)

\* One more frame was submitted since: what is FramesInFlight frames old has
\* completed, because the fence of its slot was waited for.
Aged(image) ==
  LET Older(xs) == {[x EXCEPT !.age = @ + 1] : x \in {y \in xs : y.age + 1 < FramesInFlight}}
  IN [image EXCEPT !.writes = Older(@), !.reads = Older(@)]

BeginFrame(s) ==
  /\ pass = "idle"
  /\ pass' = "clouds"
  /\ settings' = s
  /\ images' = [i \in Images |-> IF i \in SharedImages THEN Aged(images[i])
                                 ELSE IF i = "swapchain" THEN Acquired ELSE Idle("Undefined")]
  /\ hazards' = {} /\ mislaid' = {}

RecordClouds ==
  /\ pass = "clouds"
  /\ Record(IF settings.clouds THEN CloudPass ELSE << >>, "shadows")

RecordShadows ==
  /\ pass = "shadows"
  /\ Record(IF settings.shadows THEN ShadowPass ELSE SkippedShadowPass, "raster")

\* recordRasterPass
RecordRaster ==
  /\ pass = "raster"
  /\ ~raytracingOwnsFrame
  /\ Record(IF settings.forward THEN ForwardPass ELSE DeferredPass, "sky")

\* recordRaytracingOrPathTracing: with both requested, ray tracing wins.
RecordTrace ==
  /\ pass = "raster"
  /\ raytracingOwnsFrame
  /\ Record(IF settings.raytracing THEN RaytracingPass ELSE PathTracingPass, "sky")

RecordSky ==
  /\ pass = "sky"
  /\ Record(SkyPass, "post")

RecordPost ==
  /\ pass = "post"
  /\ Record(PostPass(settings.clouds), "capture")

RecordCapture ==
  /\ pass = "capture"
  /\ Record(IF settings.armed THEN CapturePass ELSE << >>, "submit")

\* vkQueueSubmit and the present, which wants the image in ePresentSrcKHR.
Submit ==
  /\ pass = "submit"
  /\ pass' = "idle"
  /\ mislaid' = mislaid \cup
       IF images["swapchain"].layout = "PresentSrc" THEN {} ELSE {<< "present", "swapchain" >>}
  /\ settings' = NothingEnabled
  /\ UNCHANGED << images, hazards >>

\* recreateSwapChain: after waitIdle, every image whose size follows the window is
\* made anew; the shadow map keeps its contents and layout.
RecreateSwapChain ==
  /\ pass = "idle"
  /\ images' = [Created EXCEPT !["shadowMap"].layout = images["shadowMap"].layout]
  /\ UNCHANGED << pass, settings, hazards, mislaid >>

Init ==
  /\ pass = "idle"
  /\ settings = NothingEnabled
  /\ images = Created
  /\ hazards = {} /\ mislaid = {}

Next ==
  \/ \E s \in Settings : BeginFrame(s)
  \/ RecordClouds \/ RecordShadows \/ RecordRaster \/ RecordTrace
  \/ RecordSky \/ RecordPost \/ RecordCapture \/ Submit
  \/ RecreateSwapChain

Spec == Init /\ [][Next]_vars

-----------------------------------------------------------------------------
(* Properties *)

\* Every image has a layout, one last write and the reads since, none of them as
\* old as the frames whose fence was waited for.
TypeOK ==
  /\ pass \in Passes
  /\ settings \in Settings
  /\ DOMAIN images = Images
  /\ \A i \in Images :
       /\ images[i].layout \in {"Undefined", "General", "ColorAttachment", "DepthAttachment",
                               "ShaderReadOnly", "TransferSrc", "PresentSrc"}
       /\ \A v, w \in images[i].writes : v = w
       /\ \A x \in images[i].writes \cup images[i].reads :
            x.age \in 0 .. FramesInFlight - 1 /\ x.after \subseteq Stages
  /\ hazards \subseteq Passes \X Images \X {"write after write", "read after write", "write after read"}
  /\ mislaid \subseteq (Passes \cup {"present"}) \X Images

\* The frames in flight never race on an image they share: the cloud output, the
\* shadow map, the two depth buffers and the path tracer's history, whichever
\* stages the frames before skipped or switched (the cross-frame barriers of
\* record_commands, CascadedShadowMap, PathTracing and RenderPassHelper.hpp).
SharedImagesDoNotRace == \A h \in hazards : h[2] \notin SharedImages

\* Within a frame the stages hand the images of that frame on in order: the
\* G-buffer to the lighting subpass, the ray-traced and path-traced result to the
\* post stage, the swapchain image from the presentation engine to the sky, the
\* post stage and the capture.  The one exception is the raster result the post
\* stage samples (see DeferredFramesAreFreeOfSyncHazards).
FrameImagesDoNotRace ==
  \A h \in hazards : h[2] \in PerImage =>
     ~raytracingOwnsFrame /\ h = << "post", "offscreen", "read after write" >>

\* Every stage finds each image in the layout its descriptor, attachment or
\* barrier names, and the present finds ePresentSrcKHR, captured or not.
ImagesAreInTheNamedLayout == mislaid = {}

\* What goldenRenderSuite.cpp's DeferredFramesAndBlasRebuildsAreFreeOfSyncHazards
\* says: a frame of the deferred path has no synchronization hazard.
DeferredFramesAreFreeOfSyncHazards ==
  pass # "idle" /\ ~settings.forward /\ ~raytracingOwnsFrame => hazards = {}
=============================================================================

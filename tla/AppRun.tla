------------------------------- MODULE AppRun -------------------------------
(***************************************************************************)
(* A run of the program from main() to its exit, and the next one: the      *)
(* window and its events, the device, the renderer's resources through      *)
(* resizes and settings, the end of the run.  What a frame does on the GPU, *)
(* in the scene and in the capture is DrawLoop's, SceneLoop's and           *)
(* TimingLoop's question; here it is a frame that is recorded, submitted    *)
(* and presented, or fails.                                                *)
(***************************************************************************)
EXTENDS DeviceChoices, PipelineCache, WindowInput, FrameResources, Teardown

CONSTANTS
  UsualMachines,  \* the machines of the runs about files and settings
  PlainMachine,   \* the machine of the runs about the window and the input
  Sizes,          \* the window's sizes, next to 0 of a minimised one
  MaxResizes,     \* bound on the user's resizes
  MaxRuns         \* bound on the launches

ASSUME AppRunAssumption ==
  /\ UsualMachines \subseteq Machines /\ PlainMachine \in Machines
  /\ Sizes \subseteq Nat \ {0} /\ Sizes # {}
  /\ MaxResizes \in Nat /\ MaxRuns \in Nat \ {0}

VARIABLES
  theme,     \* what varies in this behaviour: see Themes
  pc,        \* where App::run() is
  resume,    \* where recreateSwapChain() returns to
  window,    \* the window: its size, the events GLFW holds, and the two flags
  measured,  \* the size recreateSwapChain() goes by
  extent,    \* the extent of the swapchain
  rrt,       \* supportsHardwareAcceleratedRRT()
  mode,      \* the rasterization mode selected in the GUI
  built,     \* the frame's resources
  busy,      \* the GPU may still execute a frame
  lost,      \* device_lost_detected
  resizes,   \* history: the user's resizes
  runs       \* history: the launches

machineVars == << deviceVars, cacheVars, teardownVars, rrt, runs >>
frameVars == << resume, measured, extent, mode, built, busy, lost >>
windowVars == << window, resizes >>
appVars == << theme, pc, machineVars, frameVars, windowVars, inputVars >>

\* Bound: a behaviour varies one thing, the rest takes its usual course.
Themes == {"machine", "files", "input", "window", "settings"}

InTheme(name) == theme = name

MachinesMet ==
  CASE theme = "machine" -> Machines
    [] theme \in {"files", "settings"} -> UsualMachines
    [] OTHER -> {PlainMachine}

SizesMet == IF theme = "window" THEN Sizes ELSE {CHOOSE size \in Sizes : TRUE}

ImageCountsMet ==
  IF theme \in {"window", "settings"} THEN ImageCounts
  ELSE {CHOOSE images \in ImageCounts : TRUE}

Goto(from, to) == pc = from /\ pc' = to

Ended == {"exited", "refused", "aborted", "crashed"}

\* Where the device was just waited for, and the work is still to be done.
Idled ==
  {"finishLoad", "reloadShaders", "bindMode", "replaceMap", "moveModel", "reloadModel", "recreate"}

NewWindow(size) ==
  [size |-> size, sizeEvent |-> FALSE, closeEvent |-> FALSE,
   resized |-> FALSE, shouldClose |-> FALSE]

AppRunTypeOK ==
  /\ theme \in Themes
  /\ pc \in Ended \cup Idled
             \cup {"window", "choose", "logical", "cache", "construct", "top", "poll", "gui",
                   "handlers", "hotReload", "modeChange", "shadow", "transform", "reload", "draw",
                   "measure", "remeasure", "wait", "rebuild", "acquire", "record", "present",
                   "teardown"}
  /\ resume \in {"top", "acquire"}
  /\ window \in [size : Sizes \cup {0}, sizeEvent : BOOLEAN, closeEvent : BOOLEAN,
                  resized : BOOLEAN, shouldClose : BOOLEAN]
  /\ measured \in Sizes \cup {0} /\ extent \in Sizes \cup {0}
  /\ rrt \in BOOLEAN /\ mode \in Modes /\ busy \in BOOLEAN /\ lost \in BOOLEAN
  /\ resizes \in 0 .. MaxResizes /\ runs \in 1 .. MaxRuns
  /\ built \in Resources
  /\ alive \subseteq Objects /\ calls \in Seq(SUBSET Objects)
  /\ PipelineCacheTypeOK /\ WindowInputTypeOK

\* The memory of a process that has just started.
FreshProcess ==
  /\ pc' = "window" /\ resume' = "top" /\ measured' = 0 /\ extent' = 0
  /\ \E size \in SizesMet : window' = NewWindow(size)
  /\ rrt' = FALSE /\ mode' = "forward" /\ built' = NoResources
  /\ busy' = FALSE /\ lost' = FALSE
  /\ alive' = {} /\ calls' = << >>
  /\ physical_device' = Nothing /\ device' = Nothing
  /\ pipeline_cache' = "none"

AppRunInit ==
  /\ theme \in Themes
  /\ pc = "window" /\ resume = "top" /\ measured = 0 /\ extent = 0
  /\ \E size \in SizesMet : window = NewWindow(size)
  /\ rrt = FALSE /\ mode = "forward" /\ built = NoResources
  /\ busy = FALSE /\ lost = FALSE /\ resizes = 0 /\ runs = 1
  /\ alive = {} /\ calls = << >>
  /\ machine \in MachinesMet
  /\ physical_device = Nothing /\ device = Nothing
  /\ cacheFile = "absent" /\ pipeline_cache = "none"
  /\ WindowInputInit

-----------------------------------------------------------------------------
(***************************************************************************)
(* The start.                                                              *)
(***************************************************************************)

\* Window::initialize(), which may fail, and the renderer's instance and surface.
OpenWindow ==
  /\ pc = "window" /\ pc' \in {"choose", "exited"}
  /\ UNCHANGED << theme, machineVars, frameVars, windowVars, inputVars >>

ChooseDevice ==
  /\ pc = "choose" /\ GetPhysicalDevice
  /\ pc' = IF physical_device' = Nothing THEN "refused" ELSE "logical"
  /\ UNCHANGED << theme, cacheVars, teardownVars, rrt, runs, frameVars, windowVars, inputVars >>

CreateDevice ==
  /\ Goto("logical", "cache") /\ CreateLogicalDevice
  /\ rrt' = device'.supportsHardwareRRT
  /\ UNCHANGED << theme, cacheVars, teardownVars, runs, frameVars, windowVars, inputVars >>

ReadCache ==
  /\ Goto("cache", "construct") /\ CreatePipelineCache(machine.caches)
  /\ UNCHANGED << theme, deviceVars, teardownVars, rrt, runs, frameVars, windowVars, inputVars >>

\* What may fail on the way and is only logged.
Failing(failures) == InTheme("settings") \/ failures = {}

\* A surface without an extent makes no swapchain.  Bound: what was chosen is
\* forgotten here, nothing reads it later.
ConstructRenderer ==
  /\ pc = "construct"
  /\ IF window.size = 0
       THEN pc' = "aborted" /\ UNCHANGED << alive, built, extent, deviceVars >>
       ELSE /\ pc' = "top"
            /\ \E images \in ImageCountsMet, failures \in SUBSET Failures :
                  Failing(failures) /\ built' = Construct(images, mode, rrt, failures)
            /\ extent' = window.size
            /\ alive' = ConstructedObjects(rrt, pipeline_cache # "none")
            /\ machine' = Nothing /\ physical_device' = Nothing /\ device' = Nothing
  /\ UNCHANGED << theme, cacheVars, calls, rrt, runs, resume, measured, mode, busy, lost,
                  windowVars, inputVars >>

-----------------------------------------------------------------------------
(***************************************************************************)
(* The window's side: the user at any time, GLFW's callbacks while the      *)
(* loop polls or waits.                                                    *)
(***************************************************************************)
Running == pc \notin Ended \cup {"window", "teardown"}

UserOnly == UNCHANGED << theme, pc, machineVars, frameVars, inputVars >>

ResizeWindow ==
  /\ InTheme("window") /\ Running /\ resizes < MaxResizes /\ window.size # 0
  /\ \E size \in (Sizes \cup {0}) \ {window.size} :
        window' = [window EXCEPT !.size = size, !.sizeEvent = TRUE]
  /\ resizes' = resizes + 1
  /\ UserOnly

RestoreWindow ==
  /\ InTheme("window") /\ Running /\ window.size = 0
  /\ \E size \in Sizes : window' = [window EXCEPT !.size = size, !.sizeEvent = TRUE]
  /\ UNCHANGED resizes
  /\ UserOnly

\* The close button or ESC.
RequestClose ==
  /\ ~InTheme("input") /\ Running /\ ~window.closeEvent /\ ~window.shouldClose
  /\ window' = [window EXCEPT !.closeEvent = TRUE]
  /\ UNCHANGED resizes
  /\ UserOnly

\* framebuffer_size_callback() only flags; a close request flags as well.
Dispatched(w) ==
  [w EXCEPT !.resized = @ \/ w.sizeEvent, !.sizeEvent = FALSE,
            !.shouldClose = @ \/ w.closeEvent, !.closeEvent = FALSE]

DispatchInput ==
  /\ InTheme("input") /\ pc = "poll" /\ UserActs
  /\ UNCHANGED << theme, pc, machineVars, frameVars, windowVars >>

-----------------------------------------------------------------------------
(***************************************************************************)
(* The loop of App::run().                                                 *)
(***************************************************************************)
CheckShouldClose ==
  /\ pc = "top" /\ ~window.shouldClose /\ pc' = "poll"
  /\ UNCHANGED << theme, machineVars, frameVars, windowVars, inputVars >>

\* The end of glfwPollEvents(), and the camera's input.
PollEvents ==
  /\ Goto("poll", "gui")
  /\ window' = Dispatched(window)
  /\ ConsumeAxisDelta
  /\ UNCHANGED << theme, machineVars, frameVars, resizes >>

RenderGui ==
  /\ Goto("gui", "handlers")
  /\ mode' \in (IF InTheme("settings") THEN Modes ELSE {mode})
  /\ \E mouse, keyboard \in BOOLEAN :
        /\ InTheme("input") \/ ~(mouse \/ keyboard)
        /\ DecideCapture(mouse, keyboard)
  /\ UNCHANGED << theme, machineVars, resume, measured, extent, built, busy, lost, windowVars,
                  user, input, cursorEvents, travel >>

-----------------------------------------------------------------------------
(***************************************************************************)
(* updateStateDueToUserInput(): its handlers one after the other.  A handler *)
(* that was asked waits for the device, a step, and does its work, another.  *)
(***************************************************************************)
HandlersOnly ==
  UNCHANGED << theme, deviceVars, cacheVars, calls, rrt, runs, resume, measured, extent, mode,
               lost, windowVars, inputVars >>

NotAsked(handler, next) == Goto(handler, next) /\ UNCHANGED << built, alive, busy >>

WaitFirst(handler, work) == Goto(handler, work) /\ busy' = FALSE /\ UNCHANGED << built, alive >>

\* What the scene holds when its models, or none of them, are in place.
SceneObjects(loaded) ==
  (alive \ {"models"}) \cup (IF loaded THEN {"models"} ELSE {})
    \cup (IF rrt /\ built'.tlas THEN {"accelerationStructures"} ELSE {})

\* The uploads of a model that arrived wait for their own submission and for all
\* before it, and destroy nothing.
PollModelLoad ==
  /\ \/ NotAsked("handlers", "hotReload")
     \/ InTheme("settings") /\ WaitFirst("handlers", "finishLoad")
  /\ HandlersOnly

FinishModelLoad ==
  /\ Goto("finishLoad", "hotReload")
  /\ built' = RefreshAfterSceneChange(ChangeModels(built, TRUE), mode, rrt, TRUE)
  /\ alive' = SceneObjects(TRUE)
  /\ UNCHANGED busy /\ HandlersOnly

HandleShaderHotReloadRequest ==
  /\ \/ NotAsked("hotReload", "modeChange")
     \/ InTheme("settings") /\ WaitFirst("hotReload", "reloadShaders")
     \/ /\ Goto("reloadShaders", "modeChange")
        /\ built' = ShaderHotReload(built, rrt) /\ UNCHANGED << alive, busy >>
  /\ HandlersOnly

HandleRasterizationModeChange ==
  /\ \/ mode = built.boundMode /\ NotAsked("modeChange", "shadow")
     \/ mode # built.boundMode /\ WaitFirst("modeChange", "bindMode")
     \/ /\ Goto("bindMode", "shadow")
        /\ built' = BindRasterizationMode(built, mode, rrt) /\ UNCHANGED << alive, busy >>
  /\ HandlersOnly

\* Faulty variant: the shadow map is replaced without a wait.
HandleShadowResolutionAtOnce ==
  /\ \/ NotAsked("shadow", "transform")
     \/ InTheme("settings") /\ Goto("shadow", "replaceMap") /\ UNCHANGED << built, alive, busy >>
     \/ /\ Goto("replaceMap", "transform")
        /\ built' = ReplaceShadowMap(built) /\ UNCHANGED << alive, busy >>
  /\ HandlersOnly

HandleShadowResolutionChange ==
  /\ \/ NotAsked("shadow", "transform")
     \/ InTheme("settings") /\ WaitFirst("shadow", "replaceMap")
     \/ /\ Goto("replaceMap", "transform")
        /\ built' = ReplaceShadowMap(built) /\ UNCHANGED << alive, busy >>
  /\ HandlersOnly

\* createTLAS() makes a top level of no instances when there is no model.
HandleModelTransformChange ==
  /\ \/ NotAsked("transform", "reload")
     \/ InTheme("settings") /\ WaitFirst("transform", "moveModel")
     \/ /\ Goto("moveModel", "reload")
        /\ built' = RefreshAfterSceneChange(built, mode, rrt, TRUE)
        /\ alive' = SceneObjects("models" \in alive)
        /\ UNCHANGED busy
  /\ HandlersOnly

\* The models of the scene go; the new one may fail to load.
HandleModelReloadRequest ==
  /\ \/ NotAsked("reload", "draw")
     \/ InTheme("settings") /\ WaitFirst("reload", "reloadModel")
     \/ /\ Goto("reloadModel", "draw")
        /\ \E loaded \in BOOLEAN :
             /\ built' = RefreshAfterSceneChange(ChangeModels(built, loaded), mode, rrt, loaded)
             /\ alive' = SceneObjects(loaded)
        /\ UNCHANGED busy
  /\ HandlersOnly

UpdateStateDueToUserInput ==
  \/ PollModelLoad \/ FinishModelLoad
  \/ HandleShaderHotReloadRequest \/ HandleRasterizationModeChange
  \/ HandleShadowResolutionChange \/ HandleModelTransformChange \/ HandleModelReloadRequest

-----------------------------------------------------------------------------
(***************************************************************************)
(* drawFrame().                                                            *)
(***************************************************************************)
Recreate(return) == pc' = "measure" /\ resume' = return

\* checkChangedFramebufferSize() takes the flag before the recreation.
CheckFramebufferSize ==
  /\ pc = "draw"
  /\ window' = [window EXCEPT !.resized = FALSE]
  /\ IF window.resized THEN Recreate("acquire") ELSE pc' = "acquire" /\ UNCHANGED resume
  /\ UNCHANGED << theme, machineVars, measured, extent, mode, built, busy, lost, resizes,
                  inputVars >>

\* abort_frame_with_fatal_error(), of a device that is gone or another error.
AbortFrame ==
  /\ theme \in {"window", "settings"}
  /\ pc \in {"draw", "acquire", "record", "present"} /\ pc' = "top"
  /\ lost' \in {lost, TRUE}
  /\ window' = [window EXCEPT !.shouldClose = TRUE]
  /\ UNCHANGED << theme, machineVars, resume, measured, extent, mode, built, busy, resizes,
                  inputVars >>

\* An image, or a swapchain that is out of date and a frame that is dropped.
AcquireImage ==
  /\ pc = "acquire"
  /\ \/ pc' = "record" /\ UNCHANGED resume
     \/ theme \in {"window", "settings"} /\ Recreate("top")
  /\ UNCHANGED << theme, machineVars, measured, extent, mode, built, busy, lost, windowVars,
                  inputVars >>

RecordAndSubmit ==
  /\ Goto("record", "present")
  /\ busy' = TRUE /\ built' = [built EXCEPT !.touched = FALSE]
  /\ UNCHANGED << theme, machineVars, resume, measured, extent, mode, lost, windowVars, inputVars >>

PresentImage ==
  /\ pc = "present"
  /\ \/ pc' = "top" /\ UNCHANGED resume
     \/ theme \in {"window", "settings"} /\ Recreate("top")
  /\ UNCHANGED << theme, machineVars, measured, extent, mode, built, busy, lost, windowVars,
                  inputVars >>

-----------------------------------------------------------------------------
(***************************************************************************)
(* recreateSwapChain().                                                    *)
(***************************************************************************)
MeasureFramebuffer ==
  /\ pc = "measure"
  /\ measured' = window.size
  /\ pc' = IF window.size = 0 THEN "remeasure" ELSE "rebuild"
  /\ UNCHANGED << theme, machineVars, resume, extent, mode, built, busy, lost, windowVars,
                  inputVars >>

\* Faulty variant: the loop waits for events and never looks again.
SizeSeenOnce == measured

SizeSeen == window.size

\* The body of the loop reads the size, and then waits.
Remeasure ==
  /\ Goto("remeasure", "wait")
  /\ measured' = SizeSeen
  /\ UNCHANGED << theme, machineVars, resume, extent, mode, built, busy, lost, windowVars,
                  inputVars >>

\* glfwWaitEvents() returns on any event, those of this module or another.
WaitEvents ==
  /\ pc = "wait"
  /\ window' = Dispatched(window)
  /\ pc' = IF measured = 0 THEN "remeasure" ELSE "rebuild"
  /\ UNCHANGED << theme, machineVars, frameVars, resizes, inputVars >>

WaitForFrames ==
  /\ Goto("rebuild", "recreate") /\ busy' = FALSE
  /\ UNCHANGED << theme, machineVars, resume, measured, extent, mode, built, lost, windowVars,
                  inputVars >>

\* The swapchain takes the surface's extent as it is now, whatever was measured;
\* a window minimised in between has none, and the program asserts.
RebuildSwapChain ==
  /\ pc = "recreate"
  /\ IF window.size = 0
       THEN pc' = "aborted" /\ UNCHANGED << built, extent, measured >>
       ELSE /\ pc' = resume
            /\ \E images \in ImageCountsMet, failures \in SUBSET {"accumulation"} :
                 /\ Failing(failures)
                 /\ built' = RecreateSwapChain(built, images, mode, rrt, failures)
            /\ extent' = window.size /\ measured' = 0
  /\ UNCHANGED << theme, machineVars, resume, mode, busy, lost, windowVars, inputVars >>

-----------------------------------------------------------------------------
(***************************************************************************)
(* The end, and the next run.                                              *)
(***************************************************************************)

LeaveLoop ==
  /\ pc = "top" /\ window.shouldClose /\ pc' = "teardown"
  /\ calls' = AppTeardown(lost, rrt)
  /\ UNCHANGED << theme, deviceVars, cacheVars, alive, rrt, runs, frameVars, windowVars,
                  inputVars >>

SavesCache == Head(calls) = {"pipelineCache"} /\ pipeline_cache # "none"

TearDown ==
  /\ pc = "teardown" /\ calls # << >>
  /\ IF SavesCache THEN WriteCacheFile \/ KeepCacheFile ELSE UNCHANGED cacheVars
  /\ DestroyNext
  /\ busy' = (busy /\ Head(calls) # WaitIdle)
  /\ UNCHANGED << theme, pc, deviceVars, rrt, runs, resume, measured, extent, mode, built, lost,
                  windowVars, inputVars >>

OpenCacheFile ==
  /\ pc = "teardown" /\ calls # << >> /\ SavesCache /\ cacheFile # "truncated"
  /\ TruncateCacheFile
  /\ UNCHANGED << theme, pc, deviceVars, teardownVars, rrt, runs, frameVars, windowVars,
                  inputVars >>

Exit ==
  /\ Goto("teardown", "exited") /\ calls = << >>
  /\ UNCHANGED << theme, machineVars, frameVars, windowVars, inputVars >>

\* The process is gone, between any two steps.
Crash ==
  /\ InTheme("files") /\ pc \notin Ended /\ pc' = "crashed"
  /\ UNCHANGED << theme, machineVars, frameVars, windowVars, inputVars >>

BetweenRuns == InTheme("files") /\ pc \in Ended /\ runs < MaxRuns

UpdateDriver ==
  /\ BetweenRuns /\ DriverUpdate
  /\ UNCHANGED << theme, pc, deviceVars, teardownVars, rrt, runs, frameVars, windowVars,
                  inputVars >>

Relaunch ==
  /\ BetweenRuns
  /\ FreshProcess
  /\ machine' \in MachinesMet
  /\ runs' = runs + 1
  /\ UNCHANGED << theme, cacheFile, resizes, inputVars >>

Stopped == pc \in Ended /\ UNCHANGED appVars

-----------------------------------------------------------------------------
Program ==
  \/ OpenWindow \/ ChooseDevice \/ CreateDevice \/ ReadCache \/ ConstructRenderer
  \/ CheckShouldClose \/ PollEvents \/ RenderGui \/ UpdateStateDueToUserInput
  \/ CheckFramebufferSize \/ AcquireImage \/ RecordAndSubmit \/ PresentImage
  \/ MeasureFramebuffer \/ Remeasure \/ WaitEvents \/ WaitForFrames \/ RebuildSwapChain
  \/ LeaveLoop \/ TearDown \/ OpenCacheFile \/ Exit

AppRunNext ==
  \/ Program \/ AbortFrame \/ Crash \/ UpdateDriver \/ Relaunch \/ Stopped
  \/ ResizeWindow \/ RestoreWindow \/ RequestClose \/ DispatchInput

\* The thread runs, and events go on reaching a window that waits for one.  The
\* user owes nothing: a window may stay minimised for good.
AppRunSpec == AppRunInit /\ [][AppRunNext]_appVars /\ WF_appVars(Program)

-----------------------------------------------------------------------------
(* Properties *)

\* The choice among the machine's devices, and a refusal only when none would do.
BestDeviceIsTaken == BestDeviceIsChosen(pc = "refused")

\* Whatever the last run left on disk (nothing, half a file, another driver's
\* bytes), the pipelines are built with a cache unless the driver makes none.
CacheSurvivesStaleData ==
  pc = "construct" => (pipeline_cache = "none" => ~machine.caches)

\* A frame is recorded only from resources that exist now, of the swapchain that
\* exists now and for every image of it, and with pipelines built from layouts
\* that were alive, whatever resizes, settings, reloads, models and failures came
\* before.
FramesReadLiveResources == pc = "record" => ReadsLiveResources(built, mode, rrt)

\* With a device that works to the end: nothing is destroyed before what was made
\* of it, by the explicit calls and the destructors together, and nothing is left
\* when the program exits.
TeardownIsOrdered ==
  ~lost => ParentsOutlive /\ (pc = "exited" => alive = {})

\* What a comment promises of every run: the allocator outlives every allocation
\* and goes before the logical device.
AllocatorOutlivesAllocations ==
  /\ alive \cap Allocations # {} => "allocator" \in alive
  /\ "allocator" \in alive => "device" \in alive

\* No step of a handler, of a recreation or of the teardown replaces, rewrites or
\* destroys anything while the GPU may still execute a submitted frame: each has
\* its own wait for the device (or, for a model that arrives, its uploads' wait)
\* behind it, whichever of them run in one frame.
NothingIsPulledFromTheGpu ==
  [][pc \notin Ended /\ (built'.touched \/ ~(alive \subseteq alive')) => ~busy]_appVars

\* The window does not stay minimised for good.
WindowIsRestored == []<>(window.size # 0)

\* Unless the window stays minimised, a request to close is served: the loop ends,
\* whatever the request met, a recreation that waits for the window included.  That
\* recreation does not look at the request; it must see the window restored.
CloseIsServed == WindowIsRestored => (window.closeEvent ~> pc \in Ended)

\* When the user is done resizing and the window is not left minimised, the frames
\* get the window's size for good.
ExtentCatchesUp == WindowIsRestored => <>[](pc \in Ended \/ extent = window.size)

-----------------------------------------------------------------------------
(* The inductive invariant. *)

\* Before the renderer is constructed, and while the loop runs.
Starting == {"window", "choose", "logical", "cache", "construct"}

\* Until the mode that render() may have changed is bound.
Unbound == {"handlers", "finishLoad", "hotReload", "reloadShaders", "modeChange", "bindMode"}

Looping ==
  Unbound \cup Idled
    \cup {"top", "poll", "gui", "shadow", "transform", "reload", "draw", "measure", "remeasure",
          "wait", "rebuild", "acquire", "record", "present"}

\* Until it is forgotten, the device is the one picked on this machine, and the
\* logical device is made of it.
DeviceInv ==
  /\ pc \in Starting => machine \in Machines
  /\ pc \in {"window", "choose"} => physical_device = Nothing
  /\ pc \in {"window", "choose", "logical", "refused"} => device = Nothing
  /\ pc = "logical" => physical_device # Nothing
  /\ pc = "refused" =>
       machine \in Machines /\ PickPhysicalDevice(machine.gpus, machine.mode) = Nothing
  /\ physical_device # Nothing =>
       /\ machine \in Machines
       /\ physical_device = PickPhysicalDevice(machine.gpus, machine.mode)
  /\ device # Nothing =>
       physical_device # Nothing /\ device = LogicalDevice(physical_device)

\* The GUI's mode runs ahead of the sets' until the handlers bind it; a model that
\* arrives has the sets written for it before.
BuiltInv ==
  /\ pc \in Starting => mode = "forward"
  /\ pc \in Looping => Complete(built, built.boundMode, rrt) \/ Complete(built, mode, rrt)
  /\ pc \in Looping \ Unbound => mode = built.boundMode

\* While the loop runs, what everything was made of is there; the ray tracing
\* objects exist only where the teardown looks for them.
AliveInv ==
  /\ pc \in Starting => alive = {}
  /\ pc \in Looping =>
       /\ {"instance", "surface", "device", "allocator", "window"} \subseteq alive
       /\ ~rrt => alive \cap (RaytracingObjects \ {"raytracingSets"}) = {}
  /\ pc = "teardown" /\ ~lost => InOrder(alive, calls) /\ ServesAll(alive, calls)
  /\ TeardownIsOrdered

\* What was replaced since the last submission found the GPU idle; it is idle from a
\* wait to the work after it, and in the teardown a wait is the first call.
IdleInv ==
  /\ built.touched => ~busy
  /\ pc \in Starting \cup Idled => ~busy
  /\ pc = "teardown" /\ busy => calls # << >> /\ Head(calls) = WaitIdle

AppIInv ==
  /\ DeviceInv
  /\ InputInv
  /\ CacheSurvivesStaleData
  /\ BuiltInv
  /\ AliveInv
  /\ IdleInv
=============================================================================

------------------------------ MODULE DrawLoop ------------------------------
(***************************************************************************)
(* VulkanRenderer::drawFrame and recreateSwapChain on the render thread,   *)
(* interleaved with the GPU and the presentation engine.                   *)
(*                                                                         *)
(* The render thread is cut where another party may run: at every fence    *)
(* wait, at the acquire, around the stretch in which the host touches the  *)
(* image's resources (query slice, command buffer, uniform buffers,        *)
(* light matrices, descriptor set), and at the fence reset, the submit and *)
(* the present.  Every Vulkan call that can fail has its failing outcome.  *)
(*                                                                         *)
(* The GPU and the presentation engine are external: submissions may       *)
(* complete in any order (weaker than Vulkan's own ordering), and an       *)
(* acquire may name an image whose previous present has not run yet.       *)
(***************************************************************************)
EXTENDS FrameSync, Sequences

VARIABLES
  pc,          \* where drawFrame() is
  resume,      \* what follows the recreateSwapChain() call in progress
  imageCount,  \* vulkanSwapChain.getNumberSwapChainImages()
  acquired,    \* image_index, the local of drawFrame()
  reseed,      \* lightMatricesNeedFullReseed
  resized,     \* Window::framebuffer_size_has_changed()
  deviceLost,  \* device_lost_detected
  submitted,   \* GPU: <<image, frame>> of every submission not complete
  presentQ,    \* presentation queue: presents that have not executed, in order
  release      \* presentation engine: the positions in presentQ of the presents
               \* after which it signals image_available[frame], None when it
               \* owes the semaphore no signal

deviceVars == << submitted, presentQ, release >>
hostVars == << pc, resume, imageCount, acquired, reseed, resized, deviceLost >>
vars == << syncVars, hostVars, deviceVars >>

\* A queued present of an image waits for one of the render-finished semaphores.
Present == [image : Images, semaphore : Images]

HostTypeOK ==
  /\ pc \in {"idle", "waitFence", "acquire", "waitImage", "record", "resetFence",
             "submit", "present", "recreate", "stopped", "exited"}
  /\ resume \in {"draw", "return", "advance"}
  /\ imageCount \in 1 .. MaxImages
  /\ acquired \in Images \cup {None}
  /\ reseed \in BOOLEAN
  /\ resized \in BOOLEAN
  /\ deviceLost \in BOOLEAN

DeviceTypeOK ==
  /\ submitted \in SUBSET (Images \X Frames)
  /\ presentQ \in Seq(Present)
  /\ release \in [Frames -> (SUBSET (Nat \ {0})) \cup {None}]

TypeOK == SyncTypeOK /\ HostTypeOK /\ DeviceTypeOK

(***************************************************************************)
(* The constructor: a fresh swapchain, synchronization objects (their      *)
(* creation may fail), and a shadow map whose light matrices still have to *)
(* be seeded (reinitShadowMapForCurrentSettings).                          *)
(***************************************************************************)
Init ==
  /\ imageCount \in 1 .. MaxImages
  /\ \E ok \in BOOLEAN :
       /\ frameSyncCount = IF ok THEN FramesFor(imageCount) ELSE 0
       /\ syncImages = IF ok THEN imageCount ELSE 0
  /\ currentFrame = 0
  /\ imageAvailable = [f \in Frames |-> IF f < frameSyncCount THEN "unsignaled" ELSE "null"]
  /\ inFlightFences = [f \in Frames |-> IF f < frameSyncCount THEN "signaled" ELSE "null"]
  /\ renderFinished = [i \in Images |-> IF i < syncImages THEN "unsignaled" ELSE "null"]
  /\ imagesInFlight = [i \in Images |-> None]
  /\ pc = "idle"
  /\ resume = "draw"
  /\ acquired = None
  /\ reseed = TRUE
  /\ resized = FALSE
  /\ deviceLost = FALSE
  /\ submitted = {}
  /\ presentQ = << >>
  /\ release = [f \in Frames |-> None]

Goto(from, to) == pc = from /\ pc' = to

\* Faulty variant: no wait at all.
NoWait == TRUE

\* vk::Device::waitIdle() returned: nothing submitted is still executing and
\* every queued present has consumed its semaphore.
DeviceIdle == submitted = {} /\ presentQ = << >>

(***************************************************************************)
(* Before drawFrame(): window events and the handlers that wait idle.      *)
(***************************************************************************)

\* The framebuffer-size callback; events are delivered by glfwPollEvents in
\* App::run and by glfwWaitEvents in recreateSwapChain().
ResizeWindow ==
  /\ pc \in {"idle", "recreate"}
  /\ resized' = TRUE
  /\ UNCHANGED << syncVars, deviceVars, pc, resume, imageCount, acquired, reseed, deviceLost >>

\* Faulty variant: the shadow map is replaced under the frames in flight.
ChangeShadowResolutionInFlight ==
  /\ pc = "idle"
  /\ reseed' = TRUE
  /\ UNCHANGED << syncVars, deviceVars, pc, resume, imageCount, acquired, resized, deviceLost >>

\* handleShadowResolutionChange(): waitIdle, then a new shadow map whose light
\* matrices no image has received yet.
ChangeShadowResolution ==
  /\ pc = "idle"
  /\ DeviceIdle
  /\ reseed' = TRUE
  /\ UNCHANGED << syncVars, deviceVars, pc, resume, imageCount, acquired, resized, deviceLost >>

\* get_should_close() ends the loop of App::run.
CloseWindow ==
  /\ Goto("idle", "stopped")
  /\ UNCHANGED << syncVars, deviceVars, resume, imageCount, acquired, reseed, resized, deviceLost >>

(***************************************************************************)
(* drawFrame().                                                            *)
(***************************************************************************)

\* The frame is skipped (no action) while frameSyncCount() == 0.
BeginFrame ==
  /\ pc = "idle"
  /\ frameSyncCount > 0
  /\ pc' = IF resized THEN "recreate" ELSE "waitFence"
  /\ resume' = "draw"
  /\ resized' = FALSE
  /\ UNCHANGED << syncVars, deviceVars, imageCount, acquired, reseed, deviceLost >>

\* After a resize whose createSynchronization() failed there is no frame to use.
AbandonFrame ==
  /\ Goto("waitFence", "idle")
  /\ currentFrame >= frameSyncCount
  /\ UNCHANGED << syncVars, deviceVars, resume, imageCount, acquired, reseed, resized, deviceLost >>

\* waitForFences on the frame's own fence.
FrameFenceSignaled == inFlightFences[currentFrame] = "signaled"

\* Faulty variant: the fence is reset as soon as the wait returns, as many
\* frame loops do, instead of right before the submit.
WaitFrameFenceAndReset ==
  /\ Goto("waitFence", "acquire")
  /\ currentFrame < frameSyncCount
  /\ FrameFenceSignaled
  /\ inFlightFences' = [inFlightFences EXCEPT ![currentFrame] = "unsignaled"]
  /\ UNCHANGED << frameSyncCount, syncImages, currentFrame, imageAvailable,
                  renderFinished, imagesInFlight >>
  /\ UNCHANGED << deviceVars, resume, imageCount, acquired, reseed, resized, deviceLost >>

WaitFrameFence ==
  /\ Goto("waitFence", "acquire")
  /\ currentFrame < frameSyncCount
  /\ FrameFenceSignaled
  /\ UNCHANGED << syncVars, deviceVars, resume, imageCount, acquired, reseed, resized, deviceLost >>

\* The positions in the presentation queue of the presents of an image.
Queued(i) == {k \in 1 .. Len(presentQ) : presentQ[k].image = i}

\* acquireNextImageKHR succeeded (or is suboptimal, which continues the same
\* way): the engine names an image and signals the semaphore once the presents
\* of that image still queued have executed.
AcquireImage(i) ==
  /\ Goto("acquire", "waitImage")
  /\ i < imageCount
  /\ acquired' = i
  /\ release' = [release EXCEPT ![currentFrame] = Queued(i)]
  /\ UNCHANGED << syncVars, submitted, presentQ, resume, imageCount, reseed, resized, deviceLost >>

\* Faulty variant: the dropped frame keeps its signaled acquire semaphore.
DropFrameOnly(from) ==
  /\ Goto(from, "idle")
  /\ resume' = "return"
  /\ acquired' = None
  /\ UNCHANGED << syncVars, deviceVars, imageCount, resized, deviceLost >>

\* abort_frame_after_acquire: the frame is dropped and the swapchain recreated.
\* current_frame is not advanced.
DropFrame(from) ==
  /\ Goto(from, "recreate")
  /\ resume' = "return"
  /\ acquired' = None
  /\ UNCHANGED << syncVars, deviceVars, imageCount, resized, deviceLost >>

AcquireOutOfDate == DropFrame("acquire") /\ UNCHANGED reseed

\* waitForFences on the fence recorded for the image, when there is one.
ImageFenceSignaled ==
  imagesInFlight[acquired] # None => inFlightFences[imagesInFlight[acquired]] = "signaled"

\* Waits for the submission that last used the image, reads its timestamps and
\* puts this frame's fence in its place - before anything is submitted.
WaitImageFence ==
  /\ Goto("waitImage", "record")
  /\ ImageFenceSignaled
  /\ imagesInFlight' = [imagesInFlight EXCEPT ![acquired] = currentFrame]
  /\ UNCHANGED << frameSyncCount, syncImages, currentFrame, imageAvailable,
                  inFlightFences, renderFinished >>
  /\ UNCHANGED << deviceVars, resume, imageCount, acquired, reseed, resized, deviceLost >>

\* Command buffer reset and begun, update_uniform_buffers(), record_commands(),
\* end(): the uniform upload of a full reseed writes every image's buffers.
RecordFrame ==
  /\ Goto("record", "resetFence")
  /\ reseed' = FALSE
  /\ UNCHANGED << syncVars, deviceVars, resume, imageCount, acquired, resized, deviceLost >>

\* update_uniform_buffers() failed (nothing uploaded) or record_commands()
\* failed (the light matrices are uploaded already).
DropRecording ==
  /\ DropFrame("record")
  /\ UNCHANGED reseed \/ reseed' = FALSE

ResetFrameFence ==
  /\ Goto("resetFence", "submit")
  /\ inFlightFences' = [inFlightFences EXCEPT ![currentFrame] = "unsignaled"]
  /\ UNCHANGED << frameSyncCount, syncImages, currentFrame, imageAvailable,
                  renderFinished, imagesInFlight >>
  /\ UNCHANGED << deviceVars, resume, imageCount, acquired, reseed, resized, deviceLost >>

SubmitFrame ==
  /\ Goto("submit", "present")
  /\ submitted' = submitted \cup {<< acquired, currentFrame >>}
  /\ UNCHANGED << syncVars, presentQ, release, resume, imageCount, acquired,
                  reseed, resized, deviceLost >>

\* presentKHR queued the present behind the image's render-finished semaphore.
QueuePresent ==
  presentQ' = Append(presentQ,
    [image |-> acquired, semaphore |-> RenderFinishedKey(acquired, currentFrame)])

PresentFrame ==
  /\ Goto("present", "idle")
  /\ QueuePresent
  /\ acquired' = None
  /\ currentFrame' = NextFrame(currentFrame, frameSyncCount)
  /\ UNCHANGED << frameSyncCount, syncImages, imageAvailable, inFlightFences,
                  renderFinished, imagesInFlight >>
  /\ UNCHANGED << submitted, release, resume, imageCount, reseed, resized, deviceLost >>

\* Out of date or suboptimal at the present: recreate, then advance the frame.
PresentOutOfDate ==
  /\ Goto("present", "recreate")
  /\ QueuePresent
  /\ resume' = "advance"
  /\ acquired' = None
  /\ UNCHANGED << syncVars, submitted, release, imageCount, reseed, resized, deviceLost >>

\* abort_frame_with_fatal_error: any Vulkan call of the frame failed for good;
\* the window is told to close, which ends App::run's loop.
FatalFrameError ==
  /\ pc \in {"waitFence", "acquire", "waitImage", "record", "resetFence", "submit", "present"}
  /\ pc' = "stopped"
  /\ deviceLost' \in BOOLEAN
  /\ UNCHANGED << syncVars, deviceVars, resume, imageCount, acquired, reseed, resized >>

(***************************************************************************)
(* recreateSwapChain(), up to and including what its caller does next.     *)
(***************************************************************************)

\* A new image count re-provisions every per-image resource, the shadow map
\* (and with it the light matrices) included.
RecreateSwapChain ==
  /\ pc = "recreate"
  /\ DeviceIdle
  /\ imageCount' \in 1 .. MaxImages
  /\ CreateSync(imageCount') \/ CreateSyncFails
  /\ reseed' = (reseed \/ imageCount' # imageCount)
  /\ currentFrame' = IF resume = "advance" THEN NextFrame(0, frameSyncCount') ELSE 0
  /\ pc' = IF resume = "draw" THEN "waitFence" ELSE "idle"
  /\ release' = [f \in Frames |-> None]
  /\ UNCHANGED << submitted, presentQ, resume, acquired, resized, deviceLost >>

\* ASSERT_VULKAN: a failed swapchain creation or command buffer allocation
\* aborts the process.
AbortProcess ==
  /\ Goto("recreate", "exited")
  /\ UNCHANGED << syncVars, deviceVars, resume, imageCount, acquired, reseed, resized, deviceLost >>

(***************************************************************************)
(* After the loop: finishAllRenderCommands() and the teardown.             *)
(***************************************************************************)
Exit ==
  /\ Goto("stopped", "exited")
  /\ deviceLost \/ DeviceIdle
  /\ UNCHANGED << syncVars, deviceVars, resume, imageCount, acquired, reseed, resized, deviceLost >>

Exited == pc = "exited" /\ UNCHANGED vars

(***************************************************************************)
(* The GPU and the presentation engine (external).                         *)
(***************************************************************************)

\* A submission waits for its acquire semaphore, then executes; completing it
\* signals the image's render-finished semaphore and the frame's fence.
GpuCompletes(s) ==
  /\ s \in submitted
  /\ imageAvailable[s[2]] = "signaled"
  /\ submitted' = submitted \ {s}
  /\ imageAvailable' = [imageAvailable EXCEPT ![s[2]] = "unsignaled"]
  /\ renderFinished' = [renderFinished EXCEPT ![RenderFinishedKey(s[1], s[2])] = "signaled"]
  /\ inFlightFences' = [inFlightFences EXCEPT ![s[2]] = "signaled"]
  /\ UNCHANGED << frameSyncCount, syncImages, currentFrame, imagesInFlight >>
  /\ UNCHANGED << hostVars, presentQ, release >>

\* The engine no longer reads the acquired image: the acquire's semaphore signals.
EngineReleases(f) ==
  /\ release[f] = {}
  /\ imageAvailable' = [imageAvailable EXCEPT ![f] = "signaled"]
  /\ release' = [release EXCEPT ![f] = None]
  /\ UNCHANGED << frameSyncCount, syncImages, currentFrame, inFlightFences,
                  renderFinished, imagesInFlight >>
  /\ UNCHANGED << hostVars, submitted, presentQ >>

\* The first queued present waits for its semaphore and consumes the signal.
EnginePresents ==
  /\ presentQ # << >>
  /\ renderFinished[Head(presentQ).semaphore] = "signaled"
  /\ renderFinished' = [renderFinished EXCEPT ![Head(presentQ).semaphore] = "unsignaled"]
  /\ presentQ' = Tail(presentQ)
  /\ release' = [f \in Frames |->
       IF release[f] = None THEN None ELSE {k - 1 : k \in release[f] \ {1}}]
  /\ UNCHANGED << frameSyncCount, syncImages, currentFrame, imageAvailable,
                  inFlightFences, imagesInFlight >>
  /\ UNCHANGED << hostVars, submitted >>

-----------------------------------------------------------------------------

\* The steps of a drawFrame() in progress that need nobody but the device.  A
\* recreation is not among them: it lasts as long as the window is minimized.
\* Neither is a fatal error, so that no hanging wait is excused by one.
Draw ==
  \/ AbandonFrame \/ WaitFrameFence
  \/ \E i \in Images : AcquireImage(i)
  \/ AcquireOutOfDate \/ WaitImageFence \/ RecordFrame \/ DropRecording
  \/ ResetFrameFence \/ SubmitFrame \/ PresentFrame \/ PresentOutOfDate

Application ==
  \/ ResizeWindow \/ ChangeShadowResolution \/ CloseWindow
  \/ BeginFrame \/ Draw \/ FatalFrameError
  \/ RecreateSwapChain \/ AbortProcess \/ Exit

Device ==
  \/ \E s \in submitted : GpuCompletes(s)
  \/ \E f \in Frames : EngineReleases(f)
  \/ EnginePresents

Next == Application \/ Device \/ Exited

Spec == Init /\ [][Next]_vars

-----------------------------------------------------------------------------
(***************************************************************************)
(* Safety.                                                                 *)
(***************************************************************************)

\* The images whose resources the host writes while it records a frame: its
\* own, or all of them when the light matrices are fully re-seeded.
HostTouches == IF reseed THEN 0 .. imageCount - 1 ELSE {acquired}

\* While drawFrame() reads the image's query slice, resets and records its
\* command buffer and writes its uniform buffers and light matrices, no
\* submission that uses them is still executing.  This is what waiting on the
\* image's fence, and not only on the frame's, is for.
HostExclusive ==
  pc = "record" => \A s \in submitted : s[1] \notin HostTouches

\* A fence is reset, and attached to a submission, only when no submission
\* that is still executing will signal it.
FenceReuse ==
  pc \in {"resetFence", "submit"} => \A s \in submitted : s[2] # currentFrame

\* A fence drawFrame() waits for is signaled or will be: whoever reset it also
\* submitted it.  Otherwise the unbounded wait would hang the render thread.
WaitsAreServed ==
  LET Served(f) == inFlightFences[f] = "signaled" \/ \E s \in submitted : s[2] = f
  IN  /\ pc = "waitFence" /\ currentFrame < frameSyncCount => Served(currentFrame)
      /\ pc = "waitImage" /\ imagesInFlight[acquired] # None
           => Served(imagesInFlight[acquired])

\* acquireNextImageKHR gets a semaphore that is unsignaled and has no signal
\* outstanding: the frame that waited for it is complete, or the swapchain
\* (and the semaphore with it) was recreated.
AcquireSemaphoreFresh ==
  pc = "acquire" => /\ imageAvailable[currentFrame] = "unsignaled"
                    /\ release[currentFrame] = None

\* A submission that may execute signals a render-finished semaphore whose last
\* signal the present has consumed (the reason it is kept per image).
RenderFinishedFresh ==
  \A s \in submitted : imageAvailable[s[2]] = "signaled" => 
         renderFinished[RenderFinishedKey(s[1], s[2])] = "unsignaled"

\* Index and handle checks of drawFrame() never fail: what is acquired has its
\* per-image vectors, and the current frame its primitives.
InRange ==
  /\ pc \in {"acquire", "waitImage", "record", "resetFence", "submit", "present"}
       => inFlightFences[currentFrame] # "null" /\ imageAvailable[currentFrame] # "null"
  /\ pc \in {"waitImage", "record", "resetFence", "submit", "present"}
       => acquired < syncImages /\ renderFinished[acquired] # "null"

(***************************************************************************)
(* The inductive invariant behind the safety properties.                   *)
(***************************************************************************)

\* drawFrame() between a successful frame-fence wait and its return.
InFrame == {"acquire", "waitImage", "record", "resetFence", "submit", "present"}

\* A submission still executing keeps its frame's fence unsignaled, is the only
\* one of its frame, and is the one its image's fence entry names.
PendingInv ==
  /\ \A s \in submitted : inFlightFences[s[2]] = "unsignaled"
  /\ \A s \in submitted : imagesInFlight[s[1]] = s[2]
  /\ \A s, t \in submitted : s[2] = t[2] => s = t

\* What drawFrame() has established at each of its steps.
FrameInv ==
  /\ pc \in InFrame => currentFrame < frameSyncCount
  /\ pc \in InFrame \ {"acquire"} => acquired \in Images /\ acquired < imageCount
  /\ pc \in {"acquire", "waitImage", "record", "resetFence"}
       => inFlightFences[currentFrame] = "signaled"
  /\ pc = "submit" => /\ inFlightFences[currentFrame] = "unsignaled"
                     /\ \A s \in submitted : s[2] # currentFrame
  /\ pc \in {"record", "resetFence", "submit", "present"}
       => imagesInFlight[acquired] = currentFrame

\* Light matrices of every image are re-seeded only while the device is idle.
ReseedInv ==
  /\ reseed => submitted = {}
  /\ pc \in {"resetFence", "submit", "present"} => ~reseed

\* An unsignaled fence belongs to a pending submission, or to the one about to
\* be made; the fences named per image exist.
FenceInv ==
  /\ \A f \in Frames : f < frameSyncCount <=> inFlightFences[f] # "null"
  /\ \A i \in Images : imagesInFlight[i] # None => imagesInFlight[i] < frameSyncCount
  /\ \A f \in Frames : inFlightFences[f] = "unsignaled" =>
       \/ \E s \in submitted : s[2] = f
       \/ f = currentFrame /\ pc \in {"submit", "stopped", "exited"}

\* drawFrame() used, or is about to use, the acquire semaphore of the frame.
SemaphoreInUse(f) ==
  /\ f = currentFrame
  /\ \/ pc \in {"waitImage", "record", "resetFence", "submit", "stopped", "exited"}
     \/ pc = "recreate" /\ resume = "return"

\* Acquire semaphores whose frame is complete are unsignaled and owed no
\* signal; the semaphores and vectors in use exist.
SemaphoreInv ==
  /\ \A f \in Frames : imageAvailable[f] = "signaled" => release[f] = None
  /\ \A f \in Frames : inFlightFences[f] = "signaled" /\ ~SemaphoreInUse(f) =>
       imageAvailable[f] = "unsignaled" /\ release[f] = None
  /\ \A f \in Frames : f < frameSyncCount <=> imageAvailable[f] # "null"
  /\ \A i \in Images : i < syncImages <=> renderFinished[i] # "null"
  /\ \A f \in Frames : release[f] # None => f < frameSyncCount
  /\ \A s \in submitted : s[1] < syncImages
  /\ frameSyncCount > 0 => syncImages = imageCount

LoopInv == TypeOK /\ PendingInv /\ FrameInv /\ ReseedInv /\ FenceInv /\ SemaphoreInv

\* The presents the acquire semaphore of the frame still waits for.
Owed(f) == IF release[f] = None THEN {} ELSE release[f]

\* The acquire semaphore of the frame has its signal, or is owed it.
Awaited(f) == imageAvailable[f] = "signaled" \/ release[f] # None

\* drawFrame() is about to queue the image's present; or it never will.
ToPresent(i) == pc = "present" /\ acquired = i
Presenting(i) == ToPresent(i) \/ pc \in {"stopped", "exited"}

\* An image's presents in the queue: those its last acquire waits for, at most
\* one and in front, and at most one after it.
InTurn(queued, owed) ==
  /\ owed \subseteq queued
  /\ \A j, k \in owed : j = k
  /\ \A j, k \in queued \ owed : j = k
  /\ \A j \in owed, k \in queued \ owed : j < k

\* No submission of the image is executing: its semaphore is signaled only in
\* front of the one present that consumes it.
IdlePresents(i) ==
  /\ InTurn(Queued(i), {})
  /\ ToPresent(i) => Queued(i) = {}
  /\ renderFinished[i] = "signaled" => Queued(i) # {} \/ Presenting(i)

\* The image's submission may execute once the presents its acquire waits for
\* have; the present of the submission itself is behind those, or to come.
PendingPresents(i, f) ==
  /\ InTurn(Queued(i), Owed(f))
  /\ ToPresent(i) => Queued(i) = Owed(f)
  /\ renderFinished[i] = "signaled" => Owed(f) # {}
  /\ Queued(i) # Owed(f) \/ Presenting(i)

PresentInv ==
  /\ \A k \in 1 .. Len(presentQ) : presentQ[k].semaphore = presentQ[k].image
  /\ \A i \in Images : (\A s \in submitted : s[1] # i) => IdlePresents(i)
  /\ \A s \in submitted : Awaited(s[2]) => PendingPresents(s[1], s[2])
  /\ pc \in {"waitImage", "record", "resetFence", "submit"} /\ Awaited(currentFrame) =>
       Owed(currentFrame) = Queued(acquired)

IInv == LoopInv /\ PresentInv

(***************************************************************************)
(* Liveness.                                                               *)
(***************************************************************************)

\* The GPU and the presentation engine make progress, and so does the thread
\* inside drawFrame(); nobody is obliged to resize, restore or close the window.
Fairness ==
  /\ \A s \in Images \X Frames : WF_vars(GpuCompletes(s))
  /\ \A f \in Frames : WF_vars(EngineReleases(f))
  /\ WF_vars(EnginePresents)
  /\ WF_vars(Draw)
  /\ WF_vars(Exit)

FairSpec == Spec /\ Fairness

(***************************************************************************)
(* The abstract view: who may access the resources of each image.          *)
(***************************************************************************)
OwnerOf(i) ==
  IF \E s \in submitted : s[1] = i THEN "gpu"
  ELSE IF pc = "record" /\ i \in HostTouches THEN "host"
  ELSE IF pc \in {"resetFence", "submit"} /\ i = acquired THEN "host"
  ELSE "free"

Ownership == INSTANCE ImageOwnership
  WITH Resources <- Images, owner <- [i \in Images |-> OwnerOf(i)]

\* The loop implements ImageOwnership: recording takes resources only from the
\* host's free ones, and every step of it is a step of the abstract owner.
OwnershipSpec == Ownership!Spec

\* Every drawFrame() that started returns, ends the program or reaches a
\* recreation whose waitIdle() returns: no fence wait or acquire hangs.
DrawFrameReturns ==
  pc # "idle" ~> \/ pc \in {"idle", "exited"}
                 \/ pc = "recreate" /\ DeviceIdle

=============================================================================

----------------------------- MODULE CaptureLoop -----------------------------
(***************************************************************************)
(* Frame capture inside the frame loop: where VulkanRenderer calls into    *)
(* FrameCapture, and what the callers of requestFrameCapture() and         *)
(* takeCapturedFrame() get between two frames or after the last one.       *)
(*                                                                         *)
(* A fence signals after everything submitted to the queue before it is    *)
(* complete, so here submissions complete in order.                        *)
(***************************************************************************)
EXTENDS DrawLoop, FrameCapture

VARIABLES
  transferSrc,   \* supportsFrameCapture(), as far as the surface and format go
  extent,        \* vulkanSwapChain.getSwapChainExtent()
  copyRecorded,  \* the command buffer being recorded holds a copy
  queue,         \* the submissions in `submitted`, oldest first
  copies         \* frames whose pending submission holds a copy: which one

loopVars == << transferSrc, extent, copyRecorded, queue, copies >>
allVars == << vars, captureVars, loopVars >>

CaptureLoopTypeOK ==
  /\ TypeOK
  /\ CaptureTypeOK
  /\ transferSrc \in BOOLEAN
  /\ extent \in 1 .. MaxExtent
  /\ copyRecorded \in BOOLEAN
  /\ queue \in Seq(Images \X Frames)
  /\ copies \in [Frames -> {"nothing", "older", "latest"}]

CaptureLoopInit ==
  /\ Init
  /\ CaptureInit
  /\ transferSrc \in BOOLEAN
  /\ extent \in 1 .. MaxExtent
  /\ copyRecorded = FALSE
  /\ queue = << >>
  /\ copies = [f \in Frames |-> "nothing"]

\* Between two calls of drawFrame(), or after the loop has ended.
BetweenFrames == pc \in {"idle", "stopped"}

\* The wait of take() is over, or there is no fence to wait for.
TakeReturns ==
  /\ pending
  /\ ~deviceLost
  /\ captureFence # None => inFlightFences[captureFence] = "signaled"

\* requestFrameCapture()
RequestCapture ==
  /\ pc = "idle"
  /\ transferSrc /\ ~deviceLost
  /\ Request
  /\ UNCHANGED << vars, loopVars >>

TakeCapture ==
  /\ BetweenFrames
  /\ TakeReturns
  /\ Take
  /\ UNCHANGED << vars, loopVars >>

\* The fence wait of take() failed; a lost device is remembered.
TakeCaptureFails ==
  /\ BetweenFrames
  /\ pending /\ ~deviceLost /\ captureFence # None
  /\ deviceLost' \in BOOLEAN
  /\ Take
  /\ UNCHANGED << syncVars, deviceVars, pc, resume, imageCount, acquired, reseed, resized >>
  /\ UNCHANGED loopVars

\* record_commands() records the copy of an armed capture.
RecordFrameWithCopy ==
  /\ RecordFrame
  /\ armed /\ ~deviceLost
  /\ RecordCopy(extent)
  /\ copyRecorded' = TRUE
  /\ copies' = [f \in Frames |-> IF copies[f] = "latest" THEN "older" ELSE copies[f]]
  /\ UNCHANGED << transferSrc, extent, queue >>

RecordFrameWithoutCopy ==
  /\ RecordFrame
  /\ IF armed THEN RecordUnsupported \/ (~deviceLost /\ RecordUnmapped(extent))
              ELSE UNCHANGED captureVars
  /\ copyRecorded' = FALSE
  /\ UNCHANGED << transferSrc, extent, queue, copies >>

SubmitCapturedFrame ==
  /\ SubmitFrame
  /\ BindSubmitFence(currentFrame)
  /\ queue' = Append(queue, << acquired, currentFrame >>)
  /\ copies' = [copies EXCEPT ![currentFrame] = IF copyRecorded THEN "latest" ELSE "nothing"]
  /\ UNCHANGED << transferSrc, extent, copyRecorded >>

RecreateCaptured ==
  /\ RecreateSwapChain
  /\ InvalidateFence
  /\ extent' \in 1 .. MaxExtent
  /\ UNCHANGED << transferSrc, copyRecorded, queue, copies >>

\* The oldest submission completes, and with it the copy it holds.
GpuCompletesInOrder ==
  /\ queue # << >>
  /\ GpuCompletes(Head(queue))
  /\ queue' = Tail(queue)
  /\ LET frame == Head(queue)[2]
     IN  /\ IF copies[frame] = "nothing" THEN UNCHANGED captureVars ELSE Staged(copies[frame])
         /\ copies' = [copies EXCEPT ![frame] = "nothing"]
  /\ UNCHANGED << transferSrc, extent, copyRecorded >>

\* After the loop VulkanRenderer::cleanUp() releases the capture.
ExitCaptured ==
  /\ Exit
  /\ CleanUpCapture
  /\ UNCHANGED loopVars

\* Steps of the frame loop that touch neither capture nor timings.
OtherFrameSteps ==
  \/ ResizeWindow \/ ChangeShadowResolution \/ CloseWindow
  \/ BeginFrame \/ AbandonFrame \/ WaitFrameFence
  \/ \E i \in Images : AcquireImage(i)
  \/ AcquireOutOfDate \/ DropRecording \/ ResetFrameFence
  \/ PresentFrame \/ PresentOutOfDate \/ FatalFrameError
  \/ AbortProcess \/ Exited
  \/ \E f \in Frames : EngineReleases(f)
  \/ EnginePresents

\* The capture inside the loop, apart from RecordFrame, WaitImageFence and the
\* steps at which the swapchain, the pool or the process end.
CaptureSteps ==
  \/ RequestCapture \/ TakeCapture \/ TakeCaptureFails
  \/ SubmitCapturedFrame
  \/ OtherFrameSteps /\ UNCHANGED << captureVars, loopVars >>

CaptureLoopNext ==
  \/ CaptureSteps
  \/ RecordFrameWithCopy \/ RecordFrameWithoutCopy
  \/ RecreateCaptured \/ GpuCompletesInOrder \/ ExitCaptured
  \/ WaitImageFence /\ UNCHANGED << captureVars, loopVars >>

CaptureLoopSpec == CaptureLoopInit /\ [][CaptureLoopNext]_allVars

-----------------------------------------------------------------------------

\* Between two frames take() never returns before the copy it hands out has
\* executed, whichever frames were submitted, dropped or recreated since.
PixelsAreCaptured ==
  pc = "idle" /\ TakeReturns => staging = "latest"

\* The bound fence is signaled, or will be by a submission still pending.
BoundFenceIsServed ==
  /\ captureFence \in Frames
  /\ \/ inFlightFences[captureFence] = "signaled"
     \/ \E s \in submitted : s[2] = captureFence

\* take() waits, without a timeout, for a fence that exists and is signaled or will
\* be: between two frames, and after a frame that reset its own fence and then
\* failed for good, unless that frame was the only one in flight.
TakeIsServed ==
  /\ BetweenFrames /\ (pc = "stopped" => frameSyncCount > 1)
  /\ pending /\ captureFence # None
  => BoundFenceIsServed

\* The staging buffer is destroyed to be replaced by a larger one only while no
\* pending submission copies into it.
NoGrowthInFlight ==
  pc = "record" /\ armed /\ bufferSize < extent => \A f \in Frames : copies[f] = "nothing"

\* "takeCapturedFrame() waits on the fence of the frame that recorded the copy
\* [...] or an empty vector when nothing was captured" (VulkanRenderer.ixx):
\* what take() returns is the captured frame, after a failed frame too.
TakenIsCaptured ==
  BetweenFrames /\ TakeReturns => staging = "latest"

(***************************************************************************)
(* The inductive invariant behind the safety properties.                   *)
(***************************************************************************)

\* A copy is recorded and its command buffer is not submitted yet.
CopyToSubmit == pc \in {"resetFence", "submit"} /\ copyRecorded

\* The queue lists the pending submissions, each frame once.
QueueInv ==
  /\ submitted = {queue[k] : k \in 1 .. Len(queue)}
  /\ \A j, k \in 1 .. Len(queue) : queue[j][2] = queue[k][2] => j = k

\* Pending copies are in the queue and the latest is the last of them; once it
\* has executed, or while a newer one is on its way, it is not the latest.  All
\* of them fit the buffer they were recorded for.
CopiesInv ==
  /\ \A f \in Frames : copies[f] # "nothing" => \E s \in submitted : s[2] = f
  /\ \A j, k \in 1 .. Len(queue) :
       copies[queue[j][2]] = "latest" /\ j < k => copies[queue[k][2]] = "nothing"
  /\ staging = "latest" => \A f \in Frames : copies[f] = "nothing"
  /\ CopyToSubmit => staging # "latest" /\ \A f \in Frames : copies[f] # "latest"
  /\ pc # "exited" /\ (CopyToSubmit \/ \E f \in Frames : copies[f] # "nothing") =>
       extent <= bufferSize

\* While pixels are pending the latest copy is in the buffer, on its way to the
\* queue, or in the queue no later than the submission whose fence is bound.
PendingCopyInv ==
  /\ armed => ~pending
  /\ captureFence # None => captureFence \in Frames /\ captureFence < frameSyncCount
  /\ pending /\ pc \notin {"stopped", "exited"} =>
       \/ staging = "latest"
       \/ CopyToSubmit
       \/ \E j, k \in 1 .. Len(queue) : /\ j <= k
                                        /\ copies[queue[j][2]] = "latest"
                                        /\ captureFence = queue[k][2]

\* The fence of a pending capture is that of the last submission, which is not the
\* one the next frame resets when there is more than one.
BoundFenceInv ==
  pending /\ captureFence # None /\ frameSyncCount > 1 =>
    /\ pc \notin {"present", "recreate", "stopped", "exited"} => captureFence # currentFrame
    /\ pc = "present" => captureFence = currentFrame
    /\ pc = "stopped" => BoundFenceIsServed

CaptureIInv ==
  LoopInv /\ CaptureLoopTypeOK /\ QueueInv /\ CopiesInv /\ PendingCopyInv /\ BoundFenceInv

=============================================================================

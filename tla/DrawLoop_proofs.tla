--------------------------- MODULE DrawLoop_proofs ---------------------------
(***************************************************************************)
(* Safety of the frame loop, for every number of frames in flight and of   *)
(* swapchain images.                                                       *)
(***************************************************************************)
EXTENDS DrawLoop, TLAPS

-----------------------------------------------------------------------------

\* The frame loop's arithmetic stays inside the frames in flight.
LEMMA NextFrameInRange ==
  ASSUME NEW frame \in Nat, NEW frames \in 0 .. MaxFrameDraws
  PROVE  NextFrame(frame, frames) \in Frames
<1>1. MaxFrameDraws \in Nat \ {0}
  BY ConstantsAssumption
<1>2. CASE frames = 0
  BY <1>1, <1>2 DEF NextFrame, Frames
<1>3. CASE frames # 0
  <2>1. (frame + 1) % frames \in 0 .. frames - 1
    BY <1>1, <1>3
  <2>. QED
    BY <1>1, <1>3, <2>1 DEF NextFrame, Frames
<1>. QED
  BY <1>2, <1>3

\* A swapchain never has fewer images than the loop has frames in flight.
LEMMA FramesForInRange ==
  ASSUME NEW n \in 1 .. MaxImages
  PROVE  FramesFor(n) \in 0 .. MaxFrameDraws
BY ConstantsAssumption DEF FramesFor

LEMMA InitLoopInv == Init => LoopInv
<1>. SUFFICES ASSUME Init PROVE LoopInv
  OBVIOUS
<1>. USE ConstantsAssumption DEF Init
<1>1. frameSyncCount \in 0 .. MaxFrameDraws /\ syncImages \in 0 .. MaxImages
  <2>1. FramesFor(imageCount) \in 0 .. MaxFrameDraws
    BY FramesForInRange
  <2>. QED
    BY <2>1
<1>2. SyncTypeOK
  BY <1>1 DEF SyncTypeOK, Handle, Frames, Images
<1>3. HostTypeOK
  BY DEF HostTypeOK
<1>4. DeviceTypeOK
  <2>1. presentQ \in Seq(Present)
    OBVIOUS
  <2>. QED
    BY <2>1 DEF DeviceTypeOK
<1>5. PendingInv /\ FrameInv /\ ReseedInv
  BY DEF PendingInv, FrameInv, ReseedInv, InFrame
<1>6. FenceInv
  BY <1>1 DEF FenceInv, Frames, Images
<1>7. SemaphoreInv
  BY <1>1 DEF SemaphoreInv, SemaphoreInUse, Frames, Images
<1>. QED
  BY <1>2, <1>3, <1>4, <1>5, <1>6, <1>7 DEF LoopInv, TypeOK

\* A present is queued with an image and a semaphore of the swapchain.
LEMMA QueuePresentTypeOK ==
  ASSUME presentQ \in Seq(Present), acquired \in Images, QueuePresent
  PROVE  presentQ' \in Seq(Present)
<1>1. [image |-> acquired, semaphore |-> acquired] \in Present
  BY DEF Present
<1>. QED
  BY <1>1 DEF QueuePresent, RenderFinishedKey

\* Every step of the loop, of the GPU and of the presentation engine preserves
\* the inductive invariant.
LEMMA NextLoopInv == LoopInv /\ [Next]_vars => LoopInv'
<1>. SUFFICES ASSUME LoopInv, [Next]_vars PROVE LoopInv'
  OBVIOUS
<1>. USE ConstantsAssumption
     DEF LoopInv, TypeOK, SyncTypeOK, HostTypeOK, DeviceTypeOK, PendingInv, FrameInv,
         ReseedInv, FenceInv, SemaphoreInv, SemaphoreInUse, InFrame,
         syncVars, deviceVars, hostVars
<1>0. Frames \subseteq Nat /\ Images \subseteq Nat
  BY DEF Frames, Images
<1>1. CASE ResizeWindow
  BY <1>0, <1>1 DEF ResizeWindow
<1>2. CASE ChangeShadowResolution
  BY <1>0, <1>2 DEF ChangeShadowResolution, DeviceIdle
<1>3. CASE CloseWindow
  BY <1>0, <1>3 DEF CloseWindow, Goto
<1>4. CASE BeginFrame
  BY <1>0, <1>4 DEF BeginFrame
<1>5. CASE AbandonFrame
  BY <1>0, <1>5 DEF AbandonFrame, Goto
<1>6. CASE WaitFrameFence
  BY <1>0, <1>6 DEF WaitFrameFence, FrameFenceSignaled, Goto
<1>7. ASSUME NEW i \in Images, AcquireImage(i)
      PROVE  LoopInv'
  <2>1. Queued(i) \in SUBSET (Nat \ {0})
    BY DEF Queued
  <2>2. DeviceTypeOK'
    BY <1>7, <2>1 DEF AcquireImage
  <2>. QED
    BY <1>0, <1>7, <2>2 DEF AcquireImage, Goto
<1>8. CASE AcquireOutOfDate
  BY <1>0, <1>8 DEF AcquireOutOfDate, DropFrame, Goto
<1>9. CASE WaitImageFence
  <2>1. /\ pc = "waitImage" /\ pc' = "record"
        /\ imagesInFlight' = [imagesInFlight EXCEPT ![acquired] = currentFrame]
        /\ imagesInFlight[acquired] # None =>
             inFlightFences[imagesInFlight[acquired]] = "signaled"
        /\ UNCHANGED << frameSyncCount, syncImages, currentFrame, imageAvailable,
                        inFlightFences, renderFinished, deviceVars, resume, imageCount,
                        acquired, reseed, resized, deviceLost >>
    BY <1>9 DEF WaitImageFence, ImageFenceSignaled, Goto
  <2>2. acquired \in Images /\ currentFrame < frameSyncCount
    BY <2>1
  <2>3. TypeOK' /\ FrameInv' /\ ReseedInv'
    BY <2>1, <2>2
  <2>4. \A s \in submitted : s[1] # acquired
    \* otherwise the fence waited for would still be unsignaled
    BY <1>0, <2>1
  <2>5. PendingInv'
    BY <2>1, <2>4
  <2>6. FenceInv'
    BY <2>1, <2>2
  <2>7. SemaphoreInv'
    BY <2>1
  <2>. QED
    BY <2>3, <2>5, <2>6, <2>7
<1>10. CASE RecordFrame
  BY <1>0, <1>10 DEF RecordFrame, Goto
<1>11. CASE DropRecording
  <2>1. reseed' \in BOOLEAN /\ (reseed' => reseed)
    <3>1. reseed \in BOOLEAN
      OBVIOUS
    <3>2. CASE UNCHANGED reseed
      BY <3>1, <3>2
    <3>3. CASE reseed' = FALSE
      BY <3>3
    <3>. QED
      BY <1>11, <3>2, <3>3 DEF DropRecording
  <2>2. pc = "record" /\ pc' = "recreate" /\ resume' = "return" /\ acquired' = None
    BY <1>11 DEF DropRecording, DropFrame, Goto
  <2>3. UNCHANGED << syncVars, deviceVars, imageCount, resized, deviceLost >>
    BY <1>11 DEF DropRecording, DropFrame
  <2>4. TypeOK' /\ PendingInv' /\ FrameInv'
    BY <2>1, <2>2, <2>3
  <2>5. ReseedInv'
    BY <2>1, <2>2, <2>3
  <2>6. FenceInv' /\ SemaphoreInv'
    BY <1>0, <2>2, <2>3
  <2>. QED
    BY <2>4, <2>5, <2>6
<1>12. CASE ResetFrameFence
  BY <1>0, <1>12 DEF ResetFrameFence, Goto, Handle
<1>13. CASE SubmitFrame
  <2>1. /\ pc = "submit" /\ pc' = "present"
        /\ submitted' = submitted \cup {<< acquired, currentFrame >>}
        /\ UNCHANGED << syncVars, presentQ, release, resume, imageCount, acquired,
                        reseed, resized, deviceLost >>
    BY <1>13 DEF SubmitFrame, Goto
  <2>2. acquired \in Images /\ acquired < imageCount /\ currentFrame < frameSyncCount
    BY <2>1
  <2>3. TypeOK'
    BY <2>1, <2>2
  <2>4. PendingInv'
    <3>1. inFlightFences[currentFrame] = "unsignaled"
      BY <2>1, <2>2
    <3>2. imagesInFlight[acquired] = currentFrame
      BY <2>1
    <3>3. \A s \in submitted : s[2] # currentFrame
      BY <2>1
    <3>. QED
      BY <2>1, <3>1, <3>2, <3>3
  <2>5. FrameInv' /\ ReseedInv'
    BY <2>1, <2>2
  <2>6. FenceInv'
    <3>1. ASSUME NEW f \in Frames, inFlightFences[f] = "unsignaled"
          PROVE  \E s \in submitted' : s[2] = f
      <4>1. CASE f = currentFrame
        <5>1. << acquired, currentFrame >> \in submitted'
          BY <2>1
        <5>. QED
          BY <4>1, <5>1
      <4>2. CASE f # currentFrame
        BY <2>1, <3>1, <4>2
      <4>. QED
        BY <4>1, <4>2
    <3>. QED
      BY <2>1, <3>1
  <2>7. SemaphoreInv'
    <3>1. acquired < syncImages
      BY <1>0, <2>2
    <3>2. \A s \in submitted' : s[1] < syncImages
      BY <2>1, <3>1
    <3>3. \A f \in Frames : inFlightFences[f] = "signaled" => f # currentFrame
      BY <2>1
    <3>. QED
      BY <2>1, <3>2, <3>3
  <2>. QED
    BY <2>3, <2>4, <2>5, <2>6, <2>7
<1>14. CASE PresentFrame
  <2>1. /\ pc = "present" /\ pc' = "idle"
        /\ acquired' = None
        /\ UNCHANGED << frameSyncCount, syncImages, imageAvailable, inFlightFences,
                        renderFinished, imagesInFlight, submitted, release, resume,
                        imageCount, reseed, resized, deviceLost >>
    BY <1>14 DEF PresentFrame, Goto
  <2>2. presentQ' \in Seq(Present)
    BY <1>14, <2>1, QueuePresentTypeOK DEF PresentFrame
  <2>3. currentFrame' \in Frames
    BY <1>0, <1>14, NextFrameInRange DEF PresentFrame
  <2>4. TypeOK' /\ PendingInv' /\ FrameInv' /\ ReseedInv'
    BY <2>1, <2>2, <2>3
  <2>5. FenceInv'
    BY <2>1
  <2>6. SemaphoreInv'
    BY <2>1
  <2>. QED
    BY <2>4, <2>5, <2>6
<1>15. CASE PresentOutOfDate
  <2>1. /\ pc = "present" /\ pc' = "recreate" /\ resume' = "advance"
        /\ acquired' = None
        /\ UNCHANGED << syncVars, submitted, release, imageCount, reseed, resized,
                        deviceLost >>
    BY <1>15 DEF PresentOutOfDate, Goto
  <2>2. presentQ' \in Seq(Present)
    BY <1>15, <2>1, QueuePresentTypeOK DEF PresentOutOfDate
  <2>3. TypeOK' /\ PendingInv' /\ FrameInv' /\ ReseedInv'
    BY <2>1, <2>2
  <2>4. FenceInv' /\ SemaphoreInv'
    BY <2>1
  <2>. QED
    BY <2>3, <2>4
<1>16. CASE FatalFrameError
  BY <1>0, <1>16 DEF FatalFrameError
<1>17. CASE RecreateSwapChain
  <2>1. /\ pc = "recreate" /\ submitted = {} /\ submitted' = {}
        /\ imageCount' \in 1 .. MaxImages
        /\ reseed' \in BOOLEAN
        /\ pc' \in {"waitFence", "idle"}
        /\ release' = [f \in Frames |-> None]
        /\ UNCHANGED << presentQ, resume, acquired, resized, deviceLost >>
    BY <1>17 DEF RecreateSwapChain, DeviceIdle
  <2>2. PICK n \in 0 .. MaxFrameDraws, m \in 0 .. MaxImages :
          Sized(n, m) /\ (n > 0 => m = imageCount')
    <3>1. CASE CreateSync(imageCount')
      <4>1. FramesFor(imageCount') \in 0 .. MaxFrameDraws
        BY <2>1, FramesForInRange
      <4>. QED
        BY <2>1, <3>1, <4>1 DEF CreateSync
    <3>2. CASE CreateSyncFails
      BY <3>2 DEF CreateSyncFails
    <3>. QED
      BY <1>17, <3>1, <3>2 DEF RecreateSwapChain
  <2>3. /\ frameSyncCount' = n
        /\ syncImages' = m
        /\ imageAvailable' = [f \in Frames |-> IF f < n THEN "unsignaled" ELSE "null"]
        /\ inFlightFences' = [f \in Frames |-> IF f < n THEN "signaled" ELSE "null"]
        /\ renderFinished' = [i \in Images |-> IF i < m THEN "unsignaled" ELSE "null"]
        /\ imagesInFlight' = [i \in Images |-> None]
    BY <2>2 DEF Sized
  <2>4. currentFrame' \in Frames
    <3>1. 0 \in Frames
      BY DEF Frames
    <3>2. NextFrame(0, frameSyncCount') \in Frames
      BY <2>3, NextFrameInRange
    <3>. QED
      BY <1>17, <3>1, <3>2 DEF RecreateSwapChain
  <2>5. SyncTypeOK'
    BY <2>3, <2>4 DEF Handle
  <2>6. HostTypeOK' /\ DeviceTypeOK'
    BY <2>1
  <2>7. PendingInv' /\ FrameInv' /\ ReseedInv'
    BY <2>1
  <2>8. FenceInv' /\ SemaphoreInv'
    BY <1>0, <2>1, <2>2, <2>3
  <2>. QED
    BY <2>5, <2>6, <2>7, <2>8
<1>18. CASE AbortProcess
  BY <1>0, <1>18 DEF AbortProcess, Goto
<1>19. CASE Exit
  BY <1>0, <1>19 DEF Exit, Goto
<1>20. ASSUME NEW s \in submitted, GpuCompletes(s)
       PROVE  LoopInv'
  BY <1>0, <1>20 DEF GpuCompletes, RenderFinishedKey, Handle
<1>21. ASSUME NEW f \in Frames, EngineReleases(f)
       PROVE  LoopInv'
  <2>1. /\ release[f] # None
        /\ imageAvailable' = [imageAvailable EXCEPT ![f] = "signaled"]
        /\ release' = [release EXCEPT ![f] = None]
        /\ UNCHANGED << frameSyncCount, syncImages, currentFrame, inFlightFences,
                        renderFinished, imagesInFlight, hostVars, submitted, presentQ >>
    BY <1>21 DEF EngineReleases
  <2>2. TypeOK' /\ PendingInv' /\ FrameInv' /\ ReseedInv' /\ FenceInv'
    BY <2>1 DEF Handle
  <2>3. SemaphoreInv'
    BY <1>0, <2>1
  <2>. QED
    BY <2>2, <2>3
<1>22. CASE EnginePresents
  <2>1. /\ presentQ # << >>
        /\ Head(presentQ) \in Present
        /\ renderFinished[Head(presentQ).semaphore] = "signaled"
        /\ renderFinished' =
             [renderFinished EXCEPT ![Head(presentQ).semaphore] = "unsignaled"]
        /\ presentQ' \in Seq(Present)
        /\ UNCHANGED << frameSyncCount, syncImages, currentFrame, imageAvailable,
                        inFlightFences, imagesInFlight, hostVars, submitted >>
    BY <1>22 DEF EnginePresents
  <2>2. release' \in [Frames -> (SUBSET (Nat \ {0})) \cup {None}]
    <3>1. ASSUME NEW f \in Frames, release[f] # None
          PROVE  {k - 1 : k \in release[f] \ {1}} \in SUBSET (Nat \ {0})
      BY <3>1
    <3>. QED
      BY <1>22, <3>1 DEF EnginePresents
  <2>3. \A f \in Frames : release[f] = None => release'[f] = None
    BY <1>22 DEF EnginePresents
  <2>4. \A f \in Frames : release'[f] # None => release[f] # None
    BY <2>3
  <2>5. TypeOK' /\ PendingInv' /\ FrameInv' /\ ReseedInv' /\ FenceInv'
    BY <2>1, <2>2 DEF Present, Handle
  <2>6. SemaphoreInv'
    BY <1>0, <2>1, <2>3, <2>4 DEF Present
  <2>. QED
    BY <2>5, <2>6
<1>23. CASE UNCHANGED vars
  BY <1>0, <1>23 DEF vars
<1>. QED
  BY <1>1, <1>2, <1>3, <1>4, <1>5, <1>6, <1>7, <1>8, <1>9, <1>10, <1>11, <1>12,
     <1>13, <1>14, <1>15, <1>16, <1>17, <1>18, <1>19, <1>20, <1>21, <1>22, <1>23
     DEF Next, Application, Draw, Device, Exited

-----------------------------------------------------------------------------
(***************************************************************************)
(* The presentation queue.                                                 *)
(***************************************************************************)

LEMMA InitPresentInv == Init => PresentInv
<1>. SUFFICES ASSUME Init PROVE PresentInv
  OBVIOUS
<1>1. presentQ = << >> /\ submitted = {} /\ pc = "idle"
  BY DEF Init
<1>2. \A i : Queued(i) = {}
  BY <1>1 DEF Queued
<1>3. ASSUME NEW i \in Images
      PROVE  renderFinished[i] # "signaled"
  BY DEF Init
<1>4. \A i \in Images : IdlePresents(i)
  BY <1>1, <1>2, <1>3 DEF IdlePresents, InTurn, ToPresent
<1>. QED
  BY <1>1, <1>4 DEF PresentInv

\* What is known of an image with and without a submission only depends on its
\* presents, its semaphore and whether drawFrame() is about to present it.
LEMMA IdlePresentsKept ==
  ASSUME NEW i, IdlePresents(i),
         Queued(i)' = Queued(i), renderFinished'[i] = renderFinished[i],
         ToPresent(i)' => ToPresent(i), Presenting(i) => Presenting(i)'
  PROVE  IdlePresents(i)'
BY DEF IdlePresents, InTurn

LEMMA PendingPresentsKept ==
  ASSUME NEW i, NEW f, PendingPresents(i, f),
         Queued(i)' = Queued(i), Owed(f)' = Owed(f), renderFinished'[i] = renderFinished[i],
         ToPresent(i)' => ToPresent(i), Presenting(i) => Presenting(i)'
  PROVE  PendingPresents(i, f)'
BY DEF PendingPresents, InTurn

\* A step that leaves the queue and the semaphores alone preserves PresentInv
\* unless it moves drawFrame() to or from its present.
LEMMA HostPresentInv ==
  ASSUME PresentInv,
         UNCHANGED << submitted, presentQ, release, imageAvailable, renderFinished,
                      currentFrame >>,
         \A i : ToPresent(i)' => ToPresent(i),
         \A i : Presenting(i) => Presenting(i)',
         pc' \in {"waitImage", "record", "resetFence", "submit"} =>
           pc \in {"waitImage", "record", "resetFence", "submit"} /\ acquired' = acquired
  PROVE  PresentInv'
<1>1. /\ \A i : Queued(i)' = Queued(i)
      /\ \A f : Owed(f)' = Owed(f)
      /\ \A f : Awaited(f)' <=> Awaited(f)
      /\ \A i : renderFinished'[i] = renderFinished[i]
  BY DEF Queued, Owed, Awaited
<1>2. \A i \in Images : IdlePresents(i) => IdlePresents(i)'
  BY <1>1, IdlePresentsKept
<1>3. \A i, f : PendingPresents(i, f) => PendingPresents(i, f)'
  BY <1>1, PendingPresentsKept
<1>4. Awaited(currentFrame)' <=> Awaited(currentFrame)
  BY DEF Awaited
<1>5. Owed(currentFrame)' = Owed(currentFrame)
  BY DEF Owed
<1>6. acquired' = acquired => Queued(acquired)' = Queued(acquired)
  BY DEF Queued
<1>7. \A k \in 1 .. Len(presentQ') : presentQ'[k].semaphore = presentQ'[k].image
  BY DEF PresentInv
<1>8. ASSUME NEW i \in Images, \A s \in submitted' : s[1] # i
      PROVE  IdlePresents(i)'
  BY <1>2, <1>8 DEF PresentInv
<1>9. ASSUME NEW s \in submitted', Awaited(s[2])'
      PROVE  PendingPresents(s[1], s[2])'
  <2>1. s \in submitted /\ Awaited(s[2])
    BY <1>1, <1>9
  <2>. QED
    BY <1>3, <2>1 DEF PresentInv
<1>10. pc' \in {"waitImage", "record", "resetFence", "submit"} /\ Awaited(currentFrame)'
         => Owed(currentFrame)' = Queued(acquired)'
  BY <1>4, <1>5, <1>6 DEF PresentInv
<1>. QED
  BY <1>7, <1>8, <1>9, <1>10 DEF PresentInv

\* An acquire: the semaphore of the frame is owed its signal after the presents
\* of the image queued so far.
LEMMA AcquirePresentInv ==
  ASSUME LoopInv, PresentInv, NEW i \in Images, AcquireImage(i)
  PROVE  PresentInv'
<1>1. /\ pc = "acquire" /\ pc' = "waitImage" /\ acquired' = i
      /\ release' = [release EXCEPT ![currentFrame] = Queued(i)]
      /\ UNCHANGED << imageAvailable, renderFinished, currentFrame, submitted, presentQ >>
  BY DEF AcquireImage, Goto, syncVars
<1>2. /\ currentFrame \in Frames
      /\ inFlightFences[currentFrame] = "signaled"
      /\ release \in [Frames -> (SUBSET (Nat \ {0})) \cup {None}]
  BY <1>1 DEF LoopInv, TypeOK, SyncTypeOK, DeviceTypeOK, FrameInv
<1>3. \A s \in submitted : s[2] \in Frames /\ s[2] # currentFrame
  BY <1>2 DEF LoopInv, TypeOK, DeviceTypeOK, PendingInv
<1>4. imageAvailable[currentFrame] = "unsignaled"
  BY <1>1, <1>2 DEF LoopInv, SemaphoreInv, SemaphoreInUse
<1>5. /\ \A j : Queued(j)' = Queued(j)
      /\ \A j : renderFinished'[j] = renderFinished[j]
      /\ \A j : ~ ToPresent(j)' /\ ~ Presenting(j)
      /\ \A f \in Frames \ {currentFrame} :
           Owed(f)' = Owed(f) /\ (Awaited(f)' <=> Awaited(f))
  BY <1>1, <1>2 DEF Queued, ToPresent, Presenting, Owed, Awaited
<1>6. ASSUME NEW j \in Images, \A s \in submitted' : s[1] # j
      PROVE  IdlePresents(j)'
  BY <1>1, <1>5, <1>6, IdlePresentsKept DEF PresentInv
<1>7. ASSUME NEW s \in submitted', Awaited(s[2])'
      PROVE  PendingPresents(s[1], s[2])'
  <2>1. s \in submitted /\ Awaited(s[2])
    BY <1>1, <1>3, <1>5, <1>7
  <2>. QED
    BY <1>1, <1>3, <1>5, <2>1, PendingPresentsKept DEF PresentInv
<1>8. Awaited(currentFrame)' => Owed(currentFrame)' = Queued(acquired)'
  BY <1>1, <1>2, <1>4 DEF Awaited, Owed, Queued
<1>9. \A k \in 1 .. Len(presentQ') : presentQ'[k].semaphore = presentQ'[k].image
  BY <1>1 DEF PresentInv
<1>. QED
  BY <1>6, <1>7, <1>8, <1>9 DEF PresentInv

\* A submission: the presents its acquire waits for are all that are queued.
LEMMA SubmitPresentInv ==
  ASSUME LoopInv, PresentInv, SubmitFrame
  PROVE  PresentInv'
<1>1. /\ pc = "submit" /\ pc' = "present"
      /\ submitted' = submitted \cup {<< acquired, currentFrame >>}
      /\ UNCHANGED << imageAvailable, renderFinished, currentFrame, presentQ, release,
                      acquired >>
  BY DEF SubmitFrame, Goto, syncVars
<1>2. /\ acquired \in Images /\ acquired' = acquired /\ currentFrame' = currentFrame
      /\ \A s \in submitted : s[1] # acquired
  BY <1>1 DEF LoopInv, FrameInv, InFrame, PendingInv
<1>. PICK a, c : a \in Images /\ a = acquired /\ c = currentFrame
  BY <1>2
<1>3. /\ \A i : Queued(i)' = Queued(i)
      /\ \A i : renderFinished'[i] = renderFinished[i]
      /\ \A i : (ToPresent(i)' <=> i = a) /\ ~ Presenting(i)
      /\ \A f : Owed(f)' = Owed(f) /\ (Awaited(f)' <=> Awaited(f))
      /\ Presenting(a)'
  BY <1>1, <1>2 DEF Queued, ToPresent, Presenting, Owed, Awaited
<1>4. ASSUME NEW i \in Images, \A s \in submitted' : s[1] # i
      PROVE  IdlePresents(i)'
  <2>1. << a, c >> \in submitted' /\ submitted \subseteq submitted'
    BY <1>1
  <2>2. i # a /\ \A s \in submitted : s[1] # i
    BY <1>4, <2>1
  <2>. QED
    BY <1>3, <2>2, IdlePresentsKept DEF PresentInv
<1>5. ASSUME NEW s \in submitted, Awaited(s[2])'
      PROVE  PendingPresents(s[1], s[2])'
  <2>1. PendingPresents(s[1], s[2]) /\ s[1] # a
    BY <1>2, <1>3, <1>5 DEF PresentInv
  <2>. QED
    BY <1>3, <2>1, PendingPresentsKept
<1>6. Awaited(c)' => PendingPresents(a, c)'
  <2>. SUFFICES ASSUME Awaited(c)' PROVE PendingPresents(a, c)'
    OBVIOUS
  <2>1. Awaited(c) /\ Owed(c) = Queued(a)
    BY <1>1, <1>3 DEF PresentInv, Owed, Queued, Awaited
  <2>2. IdlePresents(a)
    BY <1>2 DEF PresentInv
  <2>3. InTurn(Queued(a), Queued(a))
    BY <2>2 DEF IdlePresents, InTurn
  <2>4. renderFinished[a] = "signaled" => Queued(a) # {}
    BY <1>3, <2>2 DEF IdlePresents
  <2>. QED
    BY <1>3, <2>1, <2>3, <2>4 DEF PendingPresents, InTurn
<1>7. ASSUME NEW s \in submitted', Awaited(s[2])'
      PROVE  PendingPresents(s[1], s[2])'
  <2>1. CASE s \in submitted
    BY <1>5, <1>7, <2>1
  <2>2. CASE s \notin submitted
    <3>1. s[1] = a /\ s[2] = c
      BY <1>1, <2>2
    <3>2. Awaited(c)'
      BY <1>7, <3>1
    <3>. QED
      BY <1>6, <3>1, <3>2
  <2>. QED
    BY <2>1, <2>2
<1>8. \A k \in 1 .. Len(presentQ') : presentQ'[k].semaphore = presentQ'[k].image
  BY <1>1 DEF PresentInv
<1>. QED
  BY <1>1, <1>4, <1>7, <1>8 DEF PresentInv

\* The present of the frame just submitted goes behind those of its image.
LEMMA QueuedPresentInv ==
  ASSUME LoopInv, PresentInv, pc = "present", QueuePresent,
         pc' \in {"idle", "recreate"},
         UNCHANGED << submitted, release, imageAvailable, renderFinished >>
  PROVE  PresentInv'
<1>1. acquired \in Images /\ presentQ \in Seq(Present)
  BY DEF LoopInv, TypeOK, DeviceTypeOK, FrameInv, InFrame
<1>. PICK a \in Images : a = acquired
  BY <1>1
<1>. PICK n \in Nat : n = Len(presentQ)
  BY <1>1
<1>2. /\ Len(presentQ') = n + 1
      /\ \A k \in 1 .. n : presentQ'[k] = presentQ[k]
      /\ presentQ'[n + 1] = [image |-> a, semaphore |-> a]
  <2>1. presentQ' = Append(presentQ, [image |-> a, semaphore |-> a])
    BY DEF QueuePresent, RenderFinishedKey
  <2>2. [image |-> a, semaphore |-> a] \in Present
    BY DEF Present
  <2>. QED
    BY <1>1, <2>1, <2>2
<1>3. /\ \A i : i # a => Queued(i)' = Queued(i)
      /\ Queued(a)' = Queued(a) \cup {n + 1}
      /\ Queued(a) \subseteq 1 .. n
  BY <1>2 DEF Queued
<1>4. /\ \A f : Owed(f)' = Owed(f) /\ (Awaited(f)' <=> Awaited(f))
      /\ \A i : renderFinished'[i] = renderFinished[i]
      /\ \A i : ~ ToPresent(i)' /\ (Presenting(i) <=> i = a) /\ (ToPresent(i) <=> i = a)
  BY DEF Awaited, Owed, ToPresent, Presenting
<1>5. \A k \in 1 .. Len(presentQ') : presentQ'[k].semaphore = presentQ'[k].image
  BY <1>2 DEF PresentInv
<1>6. ASSUME NEW i \in Images, IdlePresents(i)
      PROVE  IdlePresents(i)'
  <2>1. CASE i # a
    BY <1>3, <1>4, <1>6, <2>1, IdlePresentsKept
  <2>2. CASE i = a
    <3>1. Queued(i)' = {n + 1}
      BY <1>3, <1>4, <1>6, <2>2 DEF IdlePresents
    <3>. QED
      BY <1>4, <3>1 DEF IdlePresents, InTurn
  <2>. QED
    BY <2>1, <2>2
<1>7. ASSUME NEW i, NEW f, PendingPresents(i, f)
      PROVE  PendingPresents(i, f)'
  <2>1. CASE i # a
    BY <1>3, <1>4, <1>7, <2>1, PendingPresentsKept
  <2>2. CASE i = a
    <3>1. /\ Owed(f)' = Queued(i) /\ Queued(i)' = Queued(i) \cup {n + 1}
          /\ Queued(i) \subseteq 1 .. n
          /\ \A j, k \in Queued(i) : j = k
          /\ renderFinished[i] = "signaled" => Queued(i) # {}
      BY <1>3, <1>4, <1>7, <2>2 DEF PendingPresents, InTurn
    <3>2. InTurn(Queued(i)', Owed(f)')
      BY <3>1 DEF InTurn
    <3>3. Queued(i)' # Owed(f)'
      <4>1. n + 1 \notin Queued(i)
        BY <3>1
      <4>. QED
        BY <3>1, <4>1
    <3>. QED
      BY <1>4, <3>1, <3>2, <3>3 DEF PendingPresents, InTurn
  <2>. QED
    BY <2>1, <2>2
<1>8. ASSUME NEW i \in Images, \A s \in submitted' : s[1] # i
      PROVE  IdlePresents(i)'
  BY <1>6, <1>8 DEF PresentInv
<1>9. ASSUME NEW s \in submitted', Awaited(s[2])'
      PROVE  PendingPresents(s[1], s[2])'
  <2>1. s \in submitted /\ Awaited(s[2])
    BY <1>4, <1>9
  <2>. QED
    BY <1>7, <2>1 DEF PresentInv
<1>. QED
  BY <1>5, <1>8, <1>9 DEF PresentInv

\* A submission completes: its acquire semaphore was signaled, so that nothing is
\* owed, and its own present is all that is queued, or to come.
LEMMA CompletionPresentInv ==
  ASSUME LoopInv, PresentInv, NEW s \in submitted, GpuCompletes(s)
  PROVE  PresentInv'
<1>1. /\ imageAvailable[s[2]] = "signaled"
      /\ submitted' = submitted \ {s}
      /\ imageAvailable' = [imageAvailable EXCEPT ![s[2]] = "unsignaled"]
      /\ renderFinished' = [renderFinished EXCEPT ![s[1]] = "signaled"]
      /\ UNCHANGED << currentFrame, pc, acquired, presentQ, release >>
  BY DEF GpuCompletes, RenderFinishedKey, hostVars
<1>2. /\ imageAvailable \in [Frames -> Handle]
      /\ renderFinished \in [Images -> Handle]
      /\ currentFrame \in Frames
      /\ \A t \in submitted : t[1] \in Images /\ t[2] \in Frames
  BY DEF LoopInv, TypeOK, SyncTypeOK, DeviceTypeOK
<1>. PICK d \in Images, f \in Frames : d = s[1] /\ f = s[2]
  BY <1>2
<1>3. /\ release[f] = None
      /\ \A t \in submitted : t # s => t[1] # d /\ t[2] # f
  BY <1>1, <1>2 DEF LoopInv, PendingInv, SemaphoreInv
<1>4. /\ \A i : Queued(i)' = Queued(i)
      /\ \A g : Owed(g)' = Owed(g)
      /\ \A i : (ToPresent(i)' <=> ToPresent(i)) /\ (Presenting(i)' <=> Presenting(i))
  BY <1>1 DEF Queued, Owed, ToPresent, Presenting
<1>5. /\ \A g \in Frames \ {f} : Awaited(g)' <=> Awaited(g)
      /\ \A i \in Images \ {d} : renderFinished'[i] = renderFinished[i]
      /\ ~ Awaited(f)'
  BY <1>1, <1>2, <1>3 DEF Awaited
<1>6. PendingPresents(d, f) /\ Owed(f) = {}
  BY <1>1, <1>3 DEF PresentInv, Awaited, Owed
<1>7. ASSUME NEW i \in Images, \A t \in submitted' : t[1] # i
      PROVE  IdlePresents(i)'
  <2>1. CASE i = d
    BY <1>4, <1>6, <2>1 DEF IdlePresents, PendingPresents
  <2>2. CASE i # d
    <3>1. \A t \in submitted : t[1] # i
      BY <1>1, <1>7, <2>2
    <3>. QED
      BY <1>4, <1>5, <2>2, <3>1, IdlePresentsKept DEF PresentInv
  <2>. QED
    BY <2>1, <2>2
<1>8. ASSUME NEW t \in submitted', Awaited(t[2])'
      PROVE  PendingPresents(t[1], t[2])'
  <2>1. t \in submitted /\ t[1] \in Images \ {d} /\ t[2] \in Frames \ {f}
    BY <1>1, <1>2, <1>3
  <2>2. Awaited(t[2])
    BY <1>5, <1>8, <2>1
  <2>. QED
    BY <1>4, <1>5, <2>1, <2>2, PendingPresentsKept DEF PresentInv
<1>9. ASSUME pc' \in {"waitImage", "record", "resetFence", "submit"}, Awaited(currentFrame)'
      PROVE  Owed(currentFrame)' = Queued(acquired)'
  <2>1. Awaited(currentFrame)
    BY <1>1, <1>2, <1>9 DEF Awaited
  <2>. QED
    BY <1>1, <1>9, <2>1 DEF PresentInv, Owed, Queued
<1>10. \A k \in 1 .. Len(presentQ') : presentQ'[k].semaphore = presentQ'[k].image
  BY <1>1 DEF PresentInv
<1>. QED
  BY <1>7, <1>8, <1>9, <1>10 DEF PresentInv

\* The engine releases an image: the signal replaces an empty debt.
LEMMA ReleasePresentInv ==
  ASSUME LoopInv, PresentInv, NEW f \in Frames, EngineReleases(f)
  PROVE  PresentInv'
<1>1. /\ release[f] = {}
      /\ imageAvailable' = [imageAvailable EXCEPT ![f] = "signaled"]
      /\ release' = [release EXCEPT ![f] = None]
      /\ UNCHANGED << submitted, currentFrame, pc, acquired, presentQ, renderFinished >>
  BY DEF EngineReleases, hostVars
<1>2. /\ imageAvailable \in [Frames -> Handle]
      /\ release \in [Frames -> (SUBSET (Nat \ {0})) \cup {None}]
      /\ currentFrame \in Frames
      /\ \A s \in submitted : s[2] \in Frames
  BY DEF LoopInv, TypeOK, SyncTypeOK, DeviceTypeOK
<1>3. \A g \in Frames : Owed(g)' = Owed(g) /\ (Awaited(g)' <=> Awaited(g))
  BY <1>1, <1>2, ConstantsAssumption DEF Owed, Awaited
<1>4. /\ \A i : Queued(i)' = Queued(i)
      /\ \A i : renderFinished'[i] = renderFinished[i]
      /\ \A i : (ToPresent(i)' <=> ToPresent(i)) /\ (Presenting(i)' <=> Presenting(i))
  BY <1>1 DEF Queued, ToPresent, Presenting
<1>5. ASSUME NEW i \in Images, \A s \in submitted' : s[1] # i
      PROVE  IdlePresents(i)'
  BY <1>1, <1>4, <1>5, IdlePresentsKept DEF PresentInv
<1>6. ASSUME NEW s \in submitted', Awaited(s[2])'
      PROVE  PendingPresents(s[1], s[2])'
  <2>1. s \in submitted /\ Awaited(s[2])
    BY <1>1, <1>2, <1>3, <1>6
  <2>. QED
    BY <1>2, <1>3, <1>4, <2>1, PendingPresentsKept DEF PresentInv
<1>7. ASSUME pc' \in {"waitImage", "record", "resetFence", "submit"}, Awaited(currentFrame)'
      PROVE  Owed(currentFrame)' = Queued(acquired)'
  <2>. PICK g \in Frames : g = currentFrame
    BY <1>2
  <2>1. Awaited(g)' /\ (Awaited(g) <=> Awaited(currentFrame))
    BY <1>1, <1>7 DEF Awaited
  <2>2. Owed(currentFrame)' = Owed(g)' /\ Owed(currentFrame) = Owed(g)
    BY <1>1 DEF Owed
  <2>3. Queued(acquired)' = Queued(acquired)
    BY <1>1 DEF Queued
  <2>. QED
    BY <1>1, <1>3, <1>7, <2>1, <2>2, <2>3 DEF PresentInv
<1>8. \A k \in 1 .. Len(presentQ') : presentQ'[k].semaphore = presentQ'[k].image
  BY <1>1 DEF PresentInv
<1>. QED
  BY <1>5, <1>6, <1>7, <1>8 DEF PresentInv

\* The positions in a queue that has lost its first element.
Shift(S) == {k - 1 : k \in S \ {1}}

LEMMA ShiftedInTurn ==
  ASSUME NEW Q \in SUBSET (Nat \ {0}), NEW O \in SUBSET (Nat \ {0}), InTurn(Q, O)
  PROVE  InTurn(Shift(Q), Shift(O))
<1>1. Shift(O) \subseteq Shift(Q)
  BY DEF InTurn, Shift
<1>2. \A j, k \in Shift(O) : j = k
  BY DEF InTurn, Shift
<1>3. \A k \in Shift(Q) \ Shift(O) : k + 1 \in Q \ O
  BY DEF Shift
<1>4. \A j, k \in Shift(Q) \ Shift(O) : j = k
  BY <1>3 DEF InTurn, Shift
<1>5. ASSUME NEW j \in Shift(O), NEW k \in Shift(Q) \ Shift(O)
      PROVE  j < k
  <2>1. j + 1 \in O /\ k + 1 \in Q \ O /\ j \in Nat /\ k \in Nat
    BY <1>3 DEF Shift
  <2>2. j + 1 < k + 1
    BY <2>1 DEF InTurn
  <2>. QED
    BY <2>1, <2>2
<1>. QED
  BY <1>1, <1>2, <1>4, <1>5 DEF InTurn

\* The engine presents: the image in front has consumed its semaphore.
LEMMA EnginePresentInv ==
  ASSUME LoopInv, PresentInv, EnginePresents
  PROVE  PresentInv'
<1>1. /\ renderFinished \in [Images -> Handle]
      /\ presentQ \in Seq(Present) /\ presentQ # << >>
      /\ release \in [Frames -> (SUBSET (Nat \ {0})) \cup {None}]
      /\ currentFrame \in Frames
      /\ \A s \in submitted : s[1] \in Images /\ s[2] \in Frames
  BY DEF LoopInv, TypeOK, SyncTypeOK, DeviceTypeOK, EnginePresents
<1>. PICK n \in Nat : n + 1 = Len(presentQ)
  <2>1. Len(presentQ) \in Nat /\ Len(presentQ) # 0
    BY <1>1
  <2>2. \A m \in Nat : m # 0 => \E n \in Nat : n + 1 = m
    <3>1. \A m \in Nat : m # 0 => m - 1 \in Nat /\ (m - 1) + 1 = m
      OBVIOUS
    <3>. QED
      BY <3>1
  <2>. QED
    BY <2>1, <2>2
<1>. PICK d \in Images : d = presentQ[1].image
  <2>1. 1 \in 1 .. Len(presentQ)
    OBVIOUS
  <2>2. presentQ[1] \in Present
    BY <1>1, <2>1
  <2>. QED
    BY <2>2 DEF Present
<1>2. presentQ[1].semaphore = d /\ Head(presentQ) = presentQ[1]
  BY <1>1 DEF PresentInv
<1>3. /\ renderFinished[d] = "signaled"
      /\ renderFinished' = [renderFinished EXCEPT ![d] = "unsignaled"]
      /\ presentQ' = Tail(presentQ)
      /\ release' = [f \in Frames |-> IF release[f] = None THEN None ELSE Shift(release[f])]
      /\ UNCHANGED << submitted, imageAvailable, currentFrame, pc, acquired >>
  BY <1>1, <1>2 DEF EnginePresents, hostVars, Shift
<1>4. Len(presentQ') = n /\ \A k \in 1 .. n : presentQ'[k] = presentQ[k + 1]
  <2>1. Len(Tail(presentQ)) = n
    BY <1>1
  <2>2. \A k \in 1 .. n : Tail(presentQ)[k] = presentQ[k + 1]
    BY <1>1
  <2>. QED
    BY <1>3, <2>1, <2>2
<1>5. \A i : Queued(i)' = Shift(Queued(i)) /\ Queued(i) \in SUBSET (Nat \ {0})
  <2>. SUFFICES ASSUME NEW i
                PROVE  Queued(i)' = Shift(Queued(i)) /\ Queued(i) \in SUBSET (Nat \ {0})
    OBVIOUS
  <2>1. ASSUME NEW k
        PROVE  k \in Queued(i)' <=> k \in Nat \ {0} /\ k + 1 \in Queued(i)
    BY <1>4 DEF Queued
  <2>2. Queued(i) \subseteq Nat \ {0}
    BY DEF Queued
  <2>. PICK q : q = Queued(i)
    OBVIOUS
  <2>3. \A k : k \in Shift(q) <=> k \in Nat \ {0} /\ k + 1 \in q
    BY <2>2 DEF Shift
  <2>. QED
    BY <2>1, <2>2, <2>3
<1>6. ASSUME NEW f \in Frames
      PROVE  /\ Owed(f) \in SUBSET (Nat \ {0})
             /\ Awaited(f)' => Awaited(f) /\ Owed(f)' = Shift(Owed(f))
  <2>1. CASE release[f] = None
    <3>1. release'[f] = None
      BY <1>3, <2>1
    <3>. QED
      BY <1>3, <2>1, <3>1 DEF Owed, Awaited, Shift
  <2>2. CASE release[f] # None
    <3>1. release[f] \in SUBSET (Nat \ {0}) /\ release'[f] = Shift(release[f])
      BY <1>1, <1>3, <2>2
    <3>2. imageAvailable'[f] # "signaled"
      BY <1>3, <2>2 DEF LoopInv, SemaphoreInv
    <3>. QED
      BY <2>2, <3>1, <3>2 DEF Owed, Awaited
  <2>. QED
    BY <2>1, <2>2
<1>7. \A i : (ToPresent(i)' <=> ToPresent(i)) /\ (Presenting(i)' <=> Presenting(i))
  BY <1>3 DEF ToPresent, Presenting
<1>8. \A i \in Images : /\ i # d => 1 \notin Queued(i)
                        /\ renderFinished'[i] = "signaled" =>
                             i # d /\ renderFinished[i] = "signaled"
  BY <1>1, <1>3 DEF Queued
<1>9. \A S \in SUBSET (Nat \ {0}) : S # {} /\ 1 \notin S => Shift(S) # {}
  BY DEF Shift
<1>10. ASSUME NEW i \in Images, \A s \in submitted' : s[1] # i
       PROVE  IdlePresents(i)'
  <2>1. IdlePresents(i)
    BY <1>3, <1>10 DEF PresentInv
  <2>2. InTurn(Queued(i)', {})
    <3>1. Shift({}) = {}
      BY DEF Shift
    <3>. QED
      BY <1>5, <2>1, <3>1, ShiftedInTurn DEF IdlePresents
  <2>3. ToPresent(i)' => Queued(i)' = {}
    BY <1>5, <1>7, <2>1 DEF IdlePresents, Shift
  <2>4. renderFinished'[i] = "signaled" => Queued(i)' # {} \/ Presenting(i)'
    BY <1>5, <1>7, <1>8, <1>9, <2>1 DEF IdlePresents
  <2>. QED
    BY <2>2, <2>3, <2>4 DEF IdlePresents
<1>11. ASSUME NEW i \in Images, NEW f \in Frames, PendingPresents(i, f), Awaited(f)'
       PROVE  PendingPresents(i, f)'
  <2>1. InTurn(Queued(i)', Owed(f)')
    BY <1>5, <1>6, <1>11, ShiftedInTurn DEF PendingPresents
  <2>2. ToPresent(i)' => Queued(i)' = Owed(f)'
    BY <1>5, <1>6, <1>7, <1>11 DEF PendingPresents
  <2>3. renderFinished'[i] = "signaled" => Owed(f)' # {}
    <3>. SUFFICES ASSUME renderFinished'[i] = "signaled" PROVE Owed(f)' # {}
      OBVIOUS
    <3>1. Owed(f) # {} /\ 1 \notin Owed(f)
      BY <1>8, <1>11 DEF PendingPresents, InTurn
    <3>. QED
      BY <1>6, <1>9, <1>11, <3>1
  <2>4. Queued(i)' # Owed(f)' \/ Presenting(i)'
    <3>. SUFFICES ASSUME ~ Presenting(i) PROVE Shift(Queued(i)) # Shift(Owed(f))
      BY <1>5, <1>6, <1>7, <1>11
    <3>1. PICK k \in Queued(i) : k \notin Owed(f)
      BY <1>11 DEF PendingPresents, InTurn
    <3>2. k \in Nat \ {0} /\ Owed(f) \in SUBSET (Nat \ {0})
      BY <1>5, <1>6
    <3>3. k # 1
      \* a signaled semaphore is owed a present in front
      <4>. SUFFICES ASSUME k = 1 PROVE FALSE
        OBVIOUS
      <4>1. i = d
        BY <1>8, <3>1
      <4>2. PICK j \in Owed(f) : j < k
        BY <1>3, <1>11, <3>1, <4>1 DEF PendingPresents, InTurn
      <4>. QED
        BY <3>2, <4>2
    <3>4. k - 1 \in Shift(Queued(i))
      BY <3>1, <3>3 DEF Shift
    <3>5. k - 1 \notin Shift(Owed(f))
      BY <3>1, <3>2 DEF Shift
    <3>. QED
      BY <3>4, <3>5
  <2>. QED
    BY <2>1, <2>2, <2>3, <2>4 DEF PendingPresents
<1>12. ASSUME NEW s \in submitted', Awaited(s[2])'
       PROVE  PendingPresents(s[1], s[2])'
  <2>1. s \in submitted /\ Awaited(s[2])
    BY <1>1, <1>3, <1>6, <1>12
  <2>. QED
    BY <1>1, <1>11, <1>12, <2>1 DEF PresentInv
<1>13. ASSUME pc' \in {"waitImage", "record", "resetFence", "submit"}, Awaited(currentFrame)'
       PROVE  Owed(currentFrame)' = Queued(acquired)'
  <2>. PICK f, i : f \in Frames /\ f = currentFrame /\ i = acquired
    BY <1>1
  <2>1. /\ Awaited(f)' /\ (Awaited(f) <=> Awaited(currentFrame))
        /\ Owed(currentFrame)' = Owed(f)' /\ Owed(currentFrame) = Owed(f)
        /\ Queued(acquired)' = Queued(i)' /\ Queued(acquired) = Queued(i)
    BY <1>3, <1>13 DEF Awaited, Owed, Queued
  <2>. QED
    BY <1>3, <1>5, <1>6, <1>13, <2>1 DEF PresentInv
<1>14. \A k \in 1 .. Len(presentQ') : presentQ'[k].semaphore = presentQ'[k].image
  BY <1>4 DEF PresentInv
<1>. QED
  BY <1>10, <1>12, <1>13, <1>14 DEF PresentInv

\* A recreated swapchain starts with an empty queue and unsignaled semaphores.
LEMMA RecreatePresentInv ==
  ASSUME LoopInv, PresentInv, RecreateSwapChain
  PROVE  PresentInv'
<1>1. /\ submitted' = {} /\ presentQ' = << >>
      /\ pc' \in {"waitFence", "idle"}
  BY DEF RecreateSwapChain, DeviceIdle
<1>2. \A i \in Images : renderFinished'[i] # "signaled"
  BY DEF RecreateSwapChain, CreateSync, CreateSyncFails, Sized
<1>3. \A i : Queued(i)' = {} /\ ~ ToPresent(i)'
  BY <1>1 DEF Queued, ToPresent
<1>4. ASSUME NEW i \in Images
      PROVE  IdlePresents(i)'
  BY <1>2, <1>3 DEF IdlePresents, InTurn
<1>. QED
  BY <1>1, <1>4 DEF PresentInv

\* Every step preserves what is known of the presentation queue.
LEMMA NextPresentInv == LoopInv /\ PresentInv /\ [Next]_vars => PresentInv'
<1>. SUFFICES ASSUME LoopInv, PresentInv, [Next]_vars PROVE PresentInv'
  OBVIOUS
<1>. USE DEF syncVars, deviceVars, hostVars
<1>1. CASE ResizeWindow
  BY <1>1, HostPresentInv DEF ResizeWindow, ToPresent, Presenting
<1>2. CASE ChangeShadowResolution
  BY <1>2, HostPresentInv DEF ChangeShadowResolution, ToPresent, Presenting
<1>3. CASE CloseWindow
  BY <1>3, HostPresentInv DEF CloseWindow, Goto, ToPresent, Presenting
<1>4. CASE BeginFrame
  BY <1>4, HostPresentInv DEF BeginFrame, ToPresent, Presenting
<1>5. CASE AbandonFrame
  BY <1>5, HostPresentInv DEF AbandonFrame, Goto, ToPresent, Presenting
<1>6. CASE WaitFrameFence
  BY <1>6, HostPresentInv DEF WaitFrameFence, Goto, ToPresent, Presenting
<1>7. ASSUME NEW i \in Images, AcquireImage(i)
      PROVE  PresentInv'
  BY <1>7, AcquirePresentInv
<1>8. CASE AcquireOutOfDate
  BY <1>8, HostPresentInv DEF AcquireOutOfDate, DropFrame, Goto, ToPresent, Presenting
<1>9. CASE WaitImageFence
  BY <1>9, HostPresentInv DEF WaitImageFence, Goto, ToPresent, Presenting
<1>10. CASE RecordFrame
  BY <1>10, HostPresentInv DEF RecordFrame, Goto, ToPresent, Presenting
<1>11. CASE DropRecording
  BY <1>11, HostPresentInv DEF DropRecording, DropFrame, Goto, ToPresent, Presenting
<1>12. CASE ResetFrameFence
  BY <1>12, HostPresentInv DEF ResetFrameFence, Goto, ToPresent, Presenting
<1>13. CASE SubmitFrame
  BY <1>13, SubmitPresentInv
<1>14. CASE PresentFrame
  BY <1>14, QueuedPresentInv DEF PresentFrame, Goto
<1>15. CASE PresentOutOfDate
  BY <1>15, QueuedPresentInv DEF PresentOutOfDate, Goto
<1>16. CASE FatalFrameError
  BY <1>16, HostPresentInv DEF FatalFrameError, ToPresent, Presenting
<1>17. CASE RecreateSwapChain
  BY <1>17, RecreatePresentInv
<1>18. CASE AbortProcess
  BY <1>18, HostPresentInv DEF AbortProcess, Goto, ToPresent, Presenting
<1>19. CASE Exit
  BY <1>19, HostPresentInv DEF Exit, Goto, ToPresent, Presenting
<1>20. ASSUME NEW s \in submitted, GpuCompletes(s)
       PROVE  PresentInv'
  BY <1>20, CompletionPresentInv
<1>21. ASSUME NEW f \in Frames, EngineReleases(f)
       PROVE  PresentInv'
  BY <1>21, ReleasePresentInv
<1>22. CASE EnginePresents
  BY <1>22, EnginePresentInv
<1>23. CASE UNCHANGED vars
  BY <1>23, HostPresentInv DEF vars, ToPresent, Presenting
<1>. QED
  BY <1>1, <1>2, <1>3, <1>4, <1>5, <1>6, <1>7, <1>8, <1>9, <1>10, <1>11, <1>12,
     <1>13, <1>14, <1>15, <1>16, <1>17, <1>18, <1>19, <1>20, <1>21, <1>22, <1>23
     DEF Next, Application, Draw, Device, Exited

\* The invariant holds in every reachable state: what drawFrame() has established
\* at each of its steps, and the order of the presentation queue.
THEOREM Inductive == Spec => []IInv
<1>1. Init => IInv
  BY InitLoopInv, InitPresentInv DEF IInv
<1>2. IInv /\ [Next]_vars => IInv'
  BY NextLoopInv, NextPresentInv DEF IInv
<1>. QED
  BY <1>1, <1>2, PTL DEF Spec

-----------------------------------------------------------------------------

\* Every variable of the loop, of the GPU and of the presentation engine keeps
\* its type; in particular current_frame stays below MAX_FRAME_DRAWS.
THEOREM TypeCorrect == Spec => []TypeOK
<1>1. IInv => TypeOK
  BY DEF IInv, LoopInv
<1>. QED
  BY <1>1, Inductive, PTL

\* drawFrame() never records into the resources of an image that a submission
\* still executing uses, a full re-seed of the light matrices included.
THEOREM RecordingIsExclusive == Spec => []HostExclusive
<1>1. IInv => HostExclusive
  <2>. SUFFICES ASSUME IInv, pc = "record", NEW s \in submitted
                PROVE  s[1] \notin HostTouches
    BY DEF HostExclusive
  <2>1. ~ reseed
    BY DEF IInv, LoopInv, ReseedInv
  <2>2. s[1] # acquired
    \* otherwise its fence is the frame's, which the wait has found signaled
    BY DEF IInv, LoopInv, PendingInv, FrameInv
  <2>. QED
    BY <2>1, <2>2 DEF HostTouches
<1>. QED
  BY <1>1, Inductive, PTL

\* A fence is reset and submitted only when no pending submission signals it.
THEOREM FencesAreReusable == Spec => []FenceReuse
<1>1. IInv => FenceReuse
  <2>. SUFFICES ASSUME IInv, pc \in {"resetFence", "submit"}
                PROVE  \A s \in submitted : s[2] # currentFrame
    BY DEF FenceReuse
  <2>1. CASE pc = "resetFence"
    BY <2>1 DEF IInv, LoopInv, PendingInv, FrameInv
  <2>2. CASE pc = "submit"
    BY <2>2 DEF IInv, LoopInv, FrameInv
  <2>. QED
    BY <2>1, <2>2
<1>. QED
  BY <1>1, Inductive, PTL

\* No fence wait of drawFrame() is for a signal nobody will give.
THEOREM FenceWaitsAreServed == Spec => []WaitsAreServed
<1>1. IInv => WaitsAreServed
  <2>. SUFFICES ASSUME IInv PROVE WaitsAreServed
    OBVIOUS
  <2>. DEFINE Served(f) == inFlightFences[f] = "signaled" \/ \E s \in submitted : s[2] = f
  <2>1. ASSUME NEW f \in Frames, f < frameSyncCount, pc \in {"waitFence", "waitImage"}
        PROVE  Served(f)
    <3>1. inFlightFences[f] \in {"unsignaled", "signaled"}
      BY <2>1 DEF IInv, LoopInv, TypeOK, SyncTypeOK, Handle, FenceInv
    <3>2. CASE inFlightFences[f] = "unsignaled"
      BY <2>1, <3>2 DEF IInv, LoopInv, FenceInv
    <3>. QED
      BY <3>1, <3>2
  <2>2. pc = "waitFence" /\ currentFrame < frameSyncCount => Served(currentFrame)
    BY <2>1 DEF IInv, LoopInv, TypeOK, SyncTypeOK
  <2>3. pc = "waitImage" /\ imagesInFlight[acquired] # None
          => Served(imagesInFlight[acquired])
    <3>. SUFFICES ASSUME pc = "waitImage", imagesInFlight[acquired] # None
                  PROVE  Served(imagesInFlight[acquired])
      OBVIOUS
    <3>1. acquired \in Images
      BY DEF IInv, LoopInv, FrameInv, InFrame
    <3>2. imagesInFlight[acquired] \in Frames
      BY <3>1 DEF IInv, LoopInv, TypeOK, SyncTypeOK
    <3>3. imagesInFlight[acquired] < frameSyncCount
      BY <3>1 DEF IInv, LoopInv, FenceInv
    <3>. QED
      BY <2>1, <3>2, <3>3
  <2>. QED
    BY <2>2, <2>3 DEF WaitsAreServed
<1>. QED
  BY <1>1, Inductive, PTL

\* The acquire is given a semaphore without a signal, present or outstanding.
THEOREM AcquireSemaphoreIsFresh == Spec => []AcquireSemaphoreFresh
<1>1. IInv => AcquireSemaphoreFresh
  BY DEF IInv, LoopInv, TypeOK, SyncTypeOK, FrameInv, SemaphoreInv, SemaphoreInUse,
         AcquireSemaphoreFresh
<1>. QED
  BY <1>1, Inductive, PTL

\* The range and handle checks of drawFrame() are never what drops a frame.
THEOREM IndicesInRange == Spec => []InRange
<1>1. IInv => InRange
  <2>. SUFFICES ASSUME IInv PROVE InRange
    OBVIOUS
  <2>1. pc \in InFrame => inFlightFences[currentFrame] # "null"
                         /\ imageAvailable[currentFrame] # "null"
    BY DEF IInv, LoopInv, TypeOK, SyncTypeOK, FrameInv, FenceInv, SemaphoreInv
  <2>2. pc \in InFrame => frameSyncCount > 0
    BY DEF IInv, LoopInv, TypeOK, SyncTypeOK, FrameInv, Frames
  <2>3. pc \in InFrame \ {"acquire"} => acquired < syncImages /\ renderFinished[acquired] # "null"
    BY <2>2 DEF IInv, LoopInv, FrameInv, SemaphoreInv
  <2>. QED
    BY <2>1, <2>3 DEF InRange, InFrame
<1>. QED
  BY <1>1, Inductive, PTL

\* A submission that may execute signals a render-finished semaphore whose last
\* signal a present has consumed: the reason to keep it per image.
THEOREM RenderFinishedIsFresh == Spec => []RenderFinishedFresh
<1>1. IInv => RenderFinishedFresh
  <2>. SUFFICES ASSUME IInv, NEW s \in submitted, imageAvailable[s[2]] = "signaled"
                PROVE  renderFinished[s[1]] = "unsignaled"
    BY DEF RenderFinishedFresh, RenderFinishedKey
  <2>1. s[1] \in Images /\ s[2] \in Frames
    BY DEF IInv, LoopInv, TypeOK, DeviceTypeOK
  <2>2. release[s[2]] = None
    BY <2>1 DEF IInv, LoopInv, SemaphoreInv
  <2>3. PendingPresents(s[1], s[2]) /\ Owed(s[2]) = {}
    BY <2>2 DEF IInv, PresentInv, Awaited, Owed
  <2>4. renderFinished[s[1]] # "signaled"
    BY <2>3 DEF PendingPresents
  <2>5. renderFinished[s[1]] # "null"
    BY <2>1 DEF IInv, LoopInv, SemaphoreInv
  <2>. QED
    BY <2>1, <2>4, <2>5 DEF IInv, LoopInv, TypeOK, SyncTypeOK, Handle
<1>. QED
  BY <1>1, Inductive, PTL

-----------------------------------------------------------------------------
(***************************************************************************)
(* The loop implements ImageOwnership.                                     *)
(***************************************************************************)

\* What makes a resource set the GPU's, and what makes it the host's.
GpuOwns(i) == \E s \in submitted : s[1] = i

HostOwns(i) ==
  \/ pc = "record" /\ i \in HostTouches
  \/ pc \in {"resetFence", "submit"} /\ i = acquired

\* The two exclude each other, so that OwnerOf() tells which one it is.
OwnersExclude ==
  \A i \in Images :
    /\ OwnerOf(i) \in {"free", "host", "gpu"}
    /\ OwnerOf(i) = "gpu" <=> GpuOwns(i)
    /\ OwnerOf(i) = "host" <=> HostOwns(i)

LEMMA LoopOwnersExclude == LoopInv => OwnersExclude
<1>. SUFFICES ASSUME LoopInv, NEW i \in Images
              PROVE  /\ OwnerOf(i) \in {"free", "host", "gpu"}
                     /\ OwnerOf(i) = "gpu" <=> GpuOwns(i)
                     /\ OwnerOf(i) = "host" <=> HostOwns(i)
  BY DEF OwnersExclude
<1>1. ASSUME NEW s \in submitted, s[1] = i, HostOwns(i)
      PROVE  FALSE
  <2>1. CASE pc = "record" /\ i \in HostTouches
    BY <1>1, <2>1 DEF LoopInv, PendingInv, FrameInv, ReseedInv, HostTouches
  <2>2. CASE pc \in {"resetFence", "submit"} /\ i = acquired
    BY <1>1, <2>2 DEF LoopInv, PendingInv, FrameInv
  <2>. QED
    BY <1>1, <2>1, <2>2 DEF HostOwns
<1>2. GpuOwns(i) => ~ HostOwns(i)
  BY <1>1 DEF GpuOwns
<1>. QED
  BY <1>2 DEF OwnerOf, GpuOwns, HostOwns

\* The owner of every resource set, as the abstract specification sees it.
Owner == [i \in Images |-> OwnerOf(i)]

\* How a step of the loop moves the resource sets, and the abstract step it is.
LEMMA OwnerKept ==
  ASSUME OwnersExclude, OwnersExclude',
         \A i \in Images : GpuOwns(i)' <=> GpuOwns(i),
         \A i \in Images : HostOwns(i)' <=> HostOwns(i)
  PROVE  Owner' = Owner
<1>1. ASSUME NEW i \in Images
      PROVE  OwnerOf(i)' = OwnerOf(i)
  BY DEF OwnersExclude
<1>. QED
  BY <1>1 DEF Owner

LEMMA OwnerHostTakes ==
  ASSUME OwnersExclude, OwnersExclude', NEW S \in SUBSET Images, S # {},
         \A i \in Images : GpuOwns(i)' <=> GpuOwns(i),
         \A i \in Images : HostOwns(i)' <=> i \in S,
         \A i \in Images : ~ HostOwns(i)
  PROVE  Ownership!Next
<1>1. ASSUME NEW i \in Images
      PROVE  /\ OwnerOf(i)' = IF i \in S THEN "host" ELSE OwnerOf(i)
             /\ i \in S => OwnerOf(i) = "free"
  BY DEF OwnersExclude
<1>2. Ownership!HostTakes(S)
  BY <1>1 DEF Ownership!HostTakes
<1>. QED
  BY <1>2 DEF Ownership!Next

LEMMA OwnerHostReturns ==
  ASSUME OwnersExclude, OwnersExclude', NEW S \in SUBSET Images, S # {},
         \A i \in Images : GpuOwns(i)' <=> GpuOwns(i),
         \A i \in Images : HostOwns(i)' <=> HostOwns(i) /\ i \notin S,
         \A i \in S : HostOwns(i)
  PROVE  Ownership!Next
<1>1. ASSUME NEW i \in Images
      PROVE  /\ OwnerOf(i)' = IF i \in S THEN "free" ELSE OwnerOf(i)
             /\ i \in S => OwnerOf(i) = "host"
  BY DEF OwnersExclude
<1>2. Ownership!HostReturns(S)
  BY <1>1 DEF Ownership!HostReturns
<1>. QED
  BY <1>2 DEF Ownership!Next

LEMMA OwnerSubmits ==
  ASSUME OwnersExclude, OwnersExclude', NEW d \in Images, HostOwns(d),
         \A i \in Images : GpuOwns(i)' <=> GpuOwns(i) \/ i = d,
         \A i \in Images : HostOwns(i)' <=> HostOwns(i) /\ i # d
  PROVE  Ownership!Next
<1>1. ASSUME NEW i \in Images
      PROVE  OwnerOf(i)' = IF i = d THEN "gpu" ELSE OwnerOf(i)
  BY DEF OwnersExclude
<1>2. OwnerOf(d) = "host"
  BY DEF OwnersExclude
<1>3. Ownership!Submits(d)
  BY <1>1, <1>2 DEF Ownership!Submits
<1>. QED
  BY <1>3 DEF Ownership!Next

LEMMA OwnerCompletes ==
  ASSUME OwnersExclude, OwnersExclude', NEW d \in Images, GpuOwns(d),
         \A i \in Images : GpuOwns(i)' <=> GpuOwns(i) /\ i # d,
         \A i \in Images : HostOwns(i)' <=> HostOwns(i)
  PROVE  Ownership!Next
<1>1. ASSUME NEW i \in Images
      PROVE  OwnerOf(i)' = IF i = d THEN "free" ELSE OwnerOf(i)
  BY DEF OwnersExclude
<1>2. OwnerOf(d) = "gpu"
  BY DEF OwnersExclude
<1>3. Ownership!Completes(d)
  BY <1>1, <1>2 DEF Ownership!Completes
<1>. QED
  BY <1>3 DEF Ownership!Next

\* Every step of the loop is a step of the abstract owners, or none of theirs.
LEMMA NextImplementsOwnership ==
  LoopInv /\ LoopInv' /\ [Next]_vars => [Ownership!Next]_Owner
<1>. SUFFICES ASSUME LoopInv, LoopInv', [Next]_vars
              PROVE  Ownership!Next \/ Owner' = Owner
  OBVIOUS
<1>1. OwnersExclude /\ OwnersExclude'
  BY LoopOwnersExclude, PTL
<1>2. /\ pc \in InFrame \ {"acquire"} => acquired \in Images /\ acquired \in 0 .. imageCount - 1
      /\ imageCount \in 1 .. MaxImages
  BY DEF LoopInv, TypeOK, HostTypeOK, FrameInv, InFrame, Images
<1>3. ASSUME pc \in {"waitImage", "record"}
      PROVE  HostTouches \in SUBSET Images /\ acquired \in HostTouches
  BY <1>2, <1>3, ConstantsAssumption DEF HostTouches, InFrame, Images
\* Steps that move no resource set.
<1>4. ASSUME submitted' = submitted,
             pc \notin {"record", "resetFence", "submit"},
             pc' \notin {"record", "resetFence", "submit"}
      PROVE  Owner' = Owner
  BY <1>1, <1>4, OwnerKept DEF GpuOwns, HostOwns
<1>5. ASSUME UNCHANGED << submitted, pc, reseed, imageCount, acquired >>
      PROVE  Owner' = Owner
  BY <1>1, <1>5, OwnerKept DEF GpuOwns, HostOwns, HostTouches
<1>. USE DEF syncVars, deviceVars, hostVars
<1>6. CASE ResizeWindow
  BY <1>4, <1>6 DEF ResizeWindow
<1>7. CASE ChangeShadowResolution
  BY <1>4, <1>7 DEF ChangeShadowResolution
<1>8. CASE CloseWindow
  BY <1>4, <1>8 DEF CloseWindow, Goto
<1>9. CASE BeginFrame
  BY <1>4, <1>9 DEF BeginFrame
<1>10. CASE AbandonFrame
  BY <1>4, <1>10 DEF AbandonFrame, Goto
<1>11. CASE WaitFrameFence
  BY <1>4, <1>11 DEF WaitFrameFence, Goto
<1>12. ASSUME NEW i \in Images, AcquireImage(i)
       PROVE  Owner' = Owner
  BY <1>4, <1>12 DEF AcquireImage, Goto
<1>13. CASE AcquireOutOfDate
  BY <1>4, <1>13 DEF AcquireOutOfDate, DropFrame, Goto
<1>14. CASE WaitImageFence
  <2>1. /\ pc = "waitImage" /\ pc' = "record"
        /\ UNCHANGED << submitted, reseed, imageCount, acquired >>
    BY <1>14 DEF WaitImageFence, Goto
  <2>. PICK S \in SUBSET Images : S = HostTouches /\ S # {}
    BY <1>3, <2>1
  <2>2. /\ \A i \in Images : GpuOwns(i)' <=> GpuOwns(i)
        /\ \A i \in Images : HostOwns(i)' <=> i \in S
        /\ \A i \in Images : ~ HostOwns(i)
    BY <2>1 DEF GpuOwns, HostOwns, HostTouches
  <2>. QED
    BY <1>1, <2>2, OwnerHostTakes
<1>15. CASE RecordFrame
  <2>1. /\ pc = "record" /\ pc' = "resetFence"
        /\ UNCHANGED << submitted, acquired >>
    BY <1>15 DEF RecordFrame, Goto
  <2>. PICK S \in SUBSET Images : S = HostTouches \ {acquired}
    BY <1>3, <2>1
  <2>2. /\ \A i \in Images : GpuOwns(i)' <=> GpuOwns(i)
        /\ \A i \in Images : HostOwns(i)' <=> HostOwns(i) /\ i \notin S
        /\ \A i \in S : HostOwns(i)
    BY <1>3, <2>1 DEF GpuOwns, HostOwns
  <2>3. CASE S = {}
    BY <1>1, <2>2, <2>3, OwnerKept
  <2>4. CASE S # {}
    BY <1>1, <2>2, <2>4, OwnerHostReturns
  <2>. QED
    BY <2>3, <2>4
\* A frame dropped or given up: the host returns all it holds.
<1>16. ASSUME submitted' = submitted, pc' \notin {"record", "resetFence", "submit"}
       PROVE  Ownership!Next \/ Owner' = Owner
  <2>1. CASE pc = "record"
    <3>. PICK S \in SUBSET Images : S = HostTouches /\ S # {}
      BY <1>3, <2>1
    <3>1. /\ \A i \in Images : GpuOwns(i)' <=> GpuOwns(i)
          /\ \A i \in Images : HostOwns(i)' <=> HostOwns(i) /\ i \notin S
          /\ \A i \in S : HostOwns(i)
      BY <1>16, <2>1 DEF GpuOwns, HostOwns
    <3>. QED
      BY <1>1, <3>1, OwnerHostReturns
  <2>2. CASE pc \in {"resetFence", "submit"}
    <3>. PICK S \in SUBSET Images : S = {acquired} /\ S # {}
      BY <1>2, <2>2 DEF InFrame
    <3>1. /\ \A i \in Images : GpuOwns(i)' <=> GpuOwns(i)
          /\ \A i \in Images : HostOwns(i)' <=> HostOwns(i) /\ i \notin S
          /\ \A i \in S : HostOwns(i)
      BY <1>16, <2>2 DEF GpuOwns, HostOwns
    <3>. QED
      BY <1>1, <3>1, OwnerHostReturns
  <2>. QED
    BY <1>4, <1>16, <2>1, <2>2
<1>17. CASE DropRecording
  BY <1>16, <1>17 DEF DropRecording, DropFrame, Goto
<1>18. CASE ResetFrameFence
  <2>1. /\ pc = "resetFence" /\ pc' = "submit"
        /\ UNCHANGED << submitted, acquired >>
    BY <1>18 DEF ResetFrameFence, Goto
  <2>. QED
    BY <1>1, <2>1, OwnerKept DEF GpuOwns, HostOwns
<1>19. CASE SubmitFrame
  <2>1. /\ pc = "submit" /\ pc' = "present" /\ acquired' = acquired
        /\ submitted' = submitted \cup {<< acquired, currentFrame >>}
    BY <1>19 DEF SubmitFrame, Goto
  <2>. PICK d \in Images : d = acquired
    BY <1>2, <2>1 DEF InFrame
  <2>2. ASSUME NEW i \in Images
        PROVE  GpuOwns(i)' <=> GpuOwns(i) \/ i = d
    <3>1. \A t \in submitted' : t \in submitted \/ t[1] = d
      BY <2>1
    <3>2. << d, currentFrame >> \in submitted' /\ << d, currentFrame >>[1] = d
      BY <2>1
    <3>3. GpuOwns(d)'
      BY <3>2 DEF GpuOwns
    <3>4. submitted \subseteq submitted'
      BY <2>1
    <3>. QED
      BY <3>1, <3>3, <3>4 DEF GpuOwns
  <2>3. HostOwns(d) /\ \A i \in Images : HostOwns(i)' <=> HostOwns(i) /\ i # d
    BY <2>1 DEF HostOwns
  <2>. QED
    BY <1>1, <2>2, <2>3, OwnerSubmits
<1>20. CASE PresentFrame
  BY <1>4, <1>20 DEF PresentFrame, Goto
<1>21. CASE PresentOutOfDate
  BY <1>4, <1>21 DEF PresentOutOfDate, Goto
<1>22. CASE FatalFrameError
  BY <1>16, <1>22 DEF FatalFrameError
<1>23. CASE RecreateSwapChain
  BY <1>4, <1>23 DEF RecreateSwapChain
<1>24. CASE AbortProcess
  BY <1>4, <1>24 DEF AbortProcess, Goto
<1>25. CASE Exit
  BY <1>4, <1>25 DEF Exit, Goto
<1>26. ASSUME NEW s \in submitted, GpuCompletes(s)
       PROVE  Ownership!Next
  <2>1. submitted' = submitted \ {s} /\ UNCHANGED << pc, reseed, imageCount, acquired >>
    BY <1>26 DEF GpuCompletes
  <2>. PICK d \in Images : d = s[1]
    BY DEF LoopInv, TypeOK, DeviceTypeOK
  <2>2. \A t \in submitted : t[1] = d => t = s
    BY DEF LoopInv, PendingInv
  <2>3. ASSUME NEW i \in Images
        PROVE  GpuOwns(i)' <=> GpuOwns(i) /\ i # d
    BY <2>1, <2>2 DEF GpuOwns
  <2>4. GpuOwns(d) /\ \A i \in Images : HostOwns(i)' <=> HostOwns(i)
    BY <2>1 DEF GpuOwns, HostOwns, HostTouches
  <2>. QED
    BY <1>1, <2>3, <2>4, OwnerCompletes
<1>27. ASSUME NEW f \in Frames, EngineReleases(f)
       PROVE  Owner' = Owner
  BY <1>5, <1>27 DEF EngineReleases
<1>28. CASE EnginePresents
  BY <1>5, <1>28 DEF EnginePresents
<1>29. CASE UNCHANGED vars
  BY <1>5, <1>29 DEF vars
<1>. QED
  BY <1>6, <1>7, <1>8, <1>9, <1>10, <1>11, <1>12, <1>13, <1>14, <1>15, <1>17, <1>18,
     <1>19, <1>20, <1>21, <1>22, <1>23, <1>24, <1>25, <1>26, <1>27, <1>28, <1>29
     DEF Next, Application, Draw, Device, Exited

\* The frame loop implements the ownership protocol of the resources kept per
\* image: they never pass from the GPU to the host in one step.
THEOREM ImplementsOwnership == Spec => OwnershipSpec
<1>1. Init => Ownership!Init
  BY DEF Init, Ownership!Init, OwnerOf
<1>2. LoopInv /\ LoopInv' /\ [Next]_vars => [Ownership!Next]_Owner
  BY NextImplementsOwnership
<1>3. IInv => LoopInv
  BY DEF IInv
<1>. QED
  BY <1>1, <1>2, <1>3, Inductive, PTL DEF Spec, OwnershipSpec, Ownership!Spec, Owner

=============================================================================

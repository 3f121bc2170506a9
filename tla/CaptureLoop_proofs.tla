------------------------- MODULE CaptureLoop_proofs -------------------------
(***************************************************************************)
(* What a capture taken between two frames is, for every number of frames  *)
(* in flight, of swapchain images and of requests, and every extent.       *)
(***************************************************************************)
EXTENDS CaptureLoop, DrawLoop_proofs

-----------------------------------------------------------------------------
(***************************************************************************)
(* The frame loop underneath.                                              *)
(***************************************************************************)

\* Every step of the loop with captures is a step of the loop or none of it; a
\* failed take() may find the device lost, which the loop's invariant allows.
LEMMA CaptureStepsKeepLoopInv == LoopInv /\ [CaptureLoopNext]_allVars => LoopInv'
<1>. SUFFICES ASSUME LoopInv, [CaptureLoopNext]_allVars PROVE LoopInv'
  OBVIOUS
<1>1. CASE TakeCaptureFails
  <2>1. /\ deviceLost' \in BOOLEAN
        /\ UNCHANGED << syncVars, deviceVars, pc, resume, imageCount, acquired, reseed, resized >>
    BY <1>1 DEF TakeCaptureFails
  <2>. QED
    BY <2>1 DEF LoopInv, TypeOK, SyncTypeOK, HostTypeOK, DeviceTypeOK, PendingInv, FrameInv,
                ReseedInv, FenceInv, SemaphoreInv, SemaphoreInUse, syncVars, deviceVars
<1>2. CASE RequestCapture \/ TakeCapture \/ UNCHANGED allVars
  BY <1>2, NextLoopInv DEF RequestCapture, TakeCapture, allVars
<1>3. CASE OtherFrameSteps
  BY <1>3, NextLoopInv DEF OtherFrameSteps, Next, Application, Draw, Device
<1>4. CASE RecordFrameWithCopy \/ RecordFrameWithoutCopy \/ WaitImageFence
  BY <1>4, NextLoopInv
     DEF RecordFrameWithCopy, RecordFrameWithoutCopy, Next, Application, Draw
<1>5. CASE SubmitCapturedFrame
  BY <1>5, NextLoopInv DEF SubmitCapturedFrame, Next, Application, Draw
<1>6. CASE RecreateCaptured \/ ExitCaptured
  BY <1>6, NextLoopInv DEF RecreateCaptured, ExitCaptured, Next, Application
<1>7. CASE GpuCompletesInOrder
  <2>1. Head(queue) \in submitted /\ GpuCompletes(Head(queue))
    BY <1>7 DEF GpuCompletesInOrder, GpuCompletes
  <2>. QED
    BY <2>1, NextLoopInv DEF Next, Device
<1>. QED
  BY <1>1, <1>2, <1>3, <1>4, <1>5, <1>6, <1>7 DEF CaptureLoopNext, CaptureSteps

-----------------------------------------------------------------------------
(***************************************************************************)
(* The capture.                                                            *)
(***************************************************************************)

LEMMA InitCaptureIInv == CaptureLoopInit => CaptureIInv
<1>. SUFFICES ASSUME CaptureLoopInit PROVE CaptureIInv
  OBVIOUS
<1>1. LoopInv
  BY InitLoopInv DEF CaptureLoopInit
<1>2. CaptureLoopTypeOK
  <2>1. CaptureTypeOK
    <3>1. 0 \in 0 .. MaxExtent
      BY CaptureAssumption
    <3>. QED
      BY <3>1 DEF CaptureLoopInit, CaptureInit, CaptureTypeOK
  <2>2. queue \in Seq(Images \X Frames)
    BY DEF CaptureLoopInit
  <2>. QED
    BY <1>1, <2>1, <2>2 DEF CaptureLoopInit, CaptureLoopTypeOK, LoopInv
<1>3. QueueInv /\ CopiesInv /\ PendingCopyInv /\ BoundFenceInv
  BY DEF CaptureLoopInit, CaptureInit, Init, QueueInv, CopiesInv, PendingCopyInv, CopyToSubmit,
         BoundFenceInv
<1>. QED
  BY <1>1, <1>2, <1>3 DEF CaptureIInv

\* A step that leaves the capture, its submissions and its fence alone preserves
\* all that is known of it, unless it submits what was recorded.
LEMMA CaptureKept ==
  ASSUME QueueInv, CopiesInv, PendingCopyInv,
         UNCHANGED << captureVars, loopVars, submitted, frameSyncCount >>,
         CopyToSubmit' => CopyToSubmit,
         pc = "exited" => pc' = "exited",
         pc' \notin {"stopped", "exited"} =>
           pc \notin {"stopped", "exited"} /\ (CopyToSubmit => CopyToSubmit')
  PROVE  QueueInv' /\ CopiesInv' /\ PendingCopyInv'
<1>. USE DEF captureVars, loopVars
<1>1. QueueInv'
  BY DEF QueueInv
<1>2. CopiesInv'
  BY DEF CopiesInv
<1>3. PendingCopyInv'
  BY DEF PendingCopyInv
<1>. QED
  BY <1>1, <1>2, <1>3

\* The steps of the frame loop that touch no capture.
LEMMA OtherStepsKeepCapture ==
  ASSUME CaptureIInv, OtherFrameSteps \/ WaitImageFence, UNCHANGED << captureVars, loopVars >>
  PROVE  QueueInv' /\ CopiesInv' /\ PendingCopyInv'
<1>1. /\ UNCHANGED << submitted, frameSyncCount >>
      /\ \/ UNCHANGED pc
         \/ pc = "resetFence" /\ pc' = "submit"
         \/ pc \notin {"resetFence", "submit", "stopped", "exited"}
              /\ pc' \notin {"resetFence", "submit"}
         \/ pc # "exited" /\ pc' = "stopped"
  BY DEF OtherFrameSteps, ResizeWindow, ChangeShadowResolution, CloseWindow, BeginFrame,
         AbandonFrame, WaitFrameFence, AcquireImage, AcquireOutOfDate, DropRecording,
         DropFrame, WaitImageFence, ResetFrameFence, PresentFrame, PresentOutOfDate,
         FatalFrameError, AbortProcess, Exited, EngineReleases, EnginePresents, Goto,
         vars, syncVars, hostVars, deviceVars
<1>. QED
  BY <1>1, CaptureKept DEF CaptureIInv, CopyToSubmit, loopVars

\* A request forgets the capture before it.
LEMMA RequestKeepsCapture ==
  ASSUME CaptureIInv, RequestCapture
  PROVE  QueueInv' /\ CopiesInv' /\ PendingCopyInv'
<1>. USE DEF RequestCapture, Request, vars, syncVars, hostVars, deviceVars, loopVars
<1>1. QueueInv'
  BY DEF CaptureIInv, QueueInv
<1>2. CopiesInv'
  BY DEF CaptureIInv, CopiesInv, CopyToSubmit
<1>3. PendingCopyInv'
  BY DEF CaptureIInv, PendingCopyInv
<1>. QED
  BY <1>1, <1>2, <1>3

\* take(), whether its wait succeeds or not.
LEMMA TakeKeepsCapture ==
  ASSUME CaptureIInv, Take, UNCHANGED << submitted, frameSyncCount, pc, loopVars >>
  PROVE  QueueInv' /\ CopiesInv' /\ PendingCopyInv'
<1>. USE DEF Take, loopVars
<1>1. QueueInv'
  BY DEF CaptureIInv, QueueInv
<1>2. CopiesInv'
  BY DEF CaptureIInv, CopiesInv, CopyToSubmit
<1>3. PendingCopyInv'
  BY DEF CaptureIInv, PendingCopyInv
<1>. QED
  BY <1>1, <1>2, <1>3

\* A copy is recorded: the pending ones are no longer the latest.
LEMMA RecordWithCopyKeepsCapture ==
  ASSUME CaptureIInv, RecordFrameWithCopy
  PROVE  QueueInv' /\ CopiesInv' /\ PendingCopyInv'
<1>1. /\ pc = "record" /\ pc' = "resetFence"
      /\ armed /\ ~ armed' /\ pending' /\ captureFence' = None
      /\ copyRecorded'
      /\ copies' = [f \in Frames |-> IF copies[f] = "latest" THEN "older" ELSE copies[f]]
      /\ UNCHANGED << submitted, frameSyncCount, extent, queue >>
  BY DEF RecordFrameWithCopy, RecordFrame, RecordCopy, Goto, syncVars, deviceVars
<1>2. /\ bufferSize \in Nat /\ extent \in Nat
      /\ copies \in [Frames -> {"nothing", "older", "latest"}]
      /\ \A k \in 1 .. Len(queue) : queue[k][2] \in Frames
  BY CaptureAssumption DEF CaptureIInv, CaptureLoopTypeOK, CaptureTypeOK
<1>3. staging' # "latest" /\ extent <= bufferSize'
  BY <1>2 DEF RecordFrameWithCopy, RecordCopy, CaptureIInv, CaptureLoopTypeOK, CaptureTypeOK
<1>4. \A f \in Frames : copies'[f] # "latest" /\ (copies'[f] = "nothing" <=> copies[f] = "nothing")
  BY <1>1, <1>2
<1>5. QueueInv'
  BY <1>1 DEF CaptureIInv, QueueInv
<1>6. CopiesInv'
  BY <1>1, <1>2, <1>3, <1>4 DEF CaptureIInv, CopiesInv
<1>7. PendingCopyInv'
  BY <1>1 DEF PendingCopyInv, CopyToSubmit
<1>. QED
  BY <1>5, <1>6, <1>7

\* A frame without a copy; a copy that was armed and could not be recorded is
\* forgotten, and was not pending.
LEMMA RecordWithoutCopyKeepsCapture ==
  ASSUME CaptureIInv, RecordFrameWithoutCopy
  PROVE  QueueInv' /\ CopiesInv' /\ PendingCopyInv'
<1>1. /\ pc = "record" /\ pc' = "resetFence" /\ ~ copyRecorded'
      /\ UNCHANGED << submitted, frameSyncCount, extent, queue, copies >>
  BY DEF RecordFrameWithoutCopy, RecordFrame, Goto, syncVars, deviceVars
<1>2. /\ bufferSize \in Nat /\ extent \in Nat
  BY CaptureAssumption DEF CaptureIInv, CaptureLoopTypeOK, CaptureTypeOK
<1>3. /\ UNCHANGED << pending, captureFence >>
      /\ staging' = "latest" => staging = "latest"
      /\ pending => staging' = staging
      /\ extent <= bufferSize => extent <= bufferSize'
      /\ armed' => ~ pending
  BY <1>2 DEF RecordFrameWithoutCopy, RecordUnsupported, RecordUnmapped, captureVars,
              CaptureIInv, PendingCopyInv
<1>4. QueueInv'
  BY <1>1 DEF CaptureIInv, QueueInv
<1>5. CopiesInv'
  BY <1>1, <1>3 DEF CaptureIInv, CopiesInv, CopyToSubmit
<1>6. PendingCopyInv'
  BY <1>1, <1>3 DEF CaptureIInv, PendingCopyInv, CopyToSubmit
<1>. QED
  BY <1>4, <1>5, <1>6

\* A submission goes to the end of the queue, with the copy recorded for it; the
\* fence of a pending capture is now the one of this last submission.
LEMMA SubmitKeepsCapture ==
  ASSUME CaptureIInv, SubmitCapturedFrame
  PROVE  QueueInv' /\ CopiesInv' /\ PendingCopyInv'
<1>1. /\ pc = "submit" /\ pc' = "present"
      /\ submitted' = submitted \cup {<< acquired, currentFrame >>}
      /\ queue' = Append(queue, << acquired, currentFrame >>)
      /\ copies' = [copies EXCEPT ![currentFrame] = IF copyRecorded THEN "latest" ELSE "nothing"]
      /\ captureFence' = IF pending THEN currentFrame ELSE captureFence
      /\ UNCHANGED << frameSyncCount, extent, armed, pending, bufferSize, staging >>
  BY DEF SubmitCapturedFrame, SubmitFrame, BindSubmitFence, Goto, syncVars
<1>2. /\ currentFrame \in Frames /\ currentFrame < frameSyncCount /\ acquired \in Images
      /\ \A s \in submitted : s[2] # currentFrame
      /\ queue \in Seq(Images \X Frames)
      /\ copies \in [Frames -> {"nothing", "older", "latest"}]
  BY <1>1 DEF CaptureIInv, LoopInv, TypeOK, SyncTypeOK, FrameInv, InFrame, CaptureLoopTypeOK
<1>. PICK c \in Frames, e \in Images \X Frames : c = currentFrame /\ e = << acquired, c >>
  BY <1>2
<1>. PICK n \in Nat : n = Len(queue)
  BY <1>2
<1>3. /\ Len(queue') = n + 1
      /\ \A k \in 1 .. n : queue'[k] = queue[k] /\ queue[k] \in Images \X Frames
      /\ queue'[n + 1] = e /\ e[2] = c
  BY <1>1, <1>2
<1>4. \A k \in 1 .. n : queue[k] \in submitted /\ queue[k][2] \in Frames /\ queue[k][2] # c
  BY <1>2, <1>3 DEF CaptureIInv, QueueInv
<1>5. /\ copies[c] = "nothing"
      /\ \A f \in Frames \ {c} : copies'[f] = copies[f]
      /\ copies'[c] = IF copyRecorded THEN "latest" ELSE "nothing"
  BY <1>1, <1>2 DEF CaptureIInv, CopiesInv
<1>6. QueueInv'
  <2>1. \A k \in 1 .. n + 1 : k \in 1 .. n \/ k = n + 1
    OBVIOUS
  <2>2. ASSUME NEW j \in 1 .. n + 1, NEW k \in 1 .. n + 1, queue'[j][2] = queue'[k][2]
        PROVE  j = k
    <3>1. CASE j \in 1 .. n /\ k \in 1 .. n
      BY <1>3, <2>2, <3>1 DEF CaptureIInv, QueueInv
    <3>. QED
      BY <1>3, <1>4, <2>1, <2>2, <3>1
  <2>3. ASSUME NEW s \in submitted'
        PROVE  \E k \in 1 .. n + 1 : s = queue'[k]
    <3>1. CASE s \in submitted
      <4>1. PICK k \in 1 .. n : s = queue[k]
        BY <3>1 DEF CaptureIInv, QueueInv
      <4>. QED
        BY <1>3, <4>1
    <3>2. CASE s = e
      BY <1>3, <3>2
    <3>. QED
      BY <1>1, <3>1, <3>2
  <2>4. \A k \in 1 .. n + 1 : queue'[k] \in submitted'
    BY <1>1, <1>3, <1>4, <2>1
  <2>. QED
    BY <1>3, <2>2, <2>3, <2>4 DEF QueueInv
\* Without a copy of its own the frame follows a latest copy; with one, no pending
\* copy is the latest.
<1>7. copyRecorded => staging # "latest" /\ \A f \in Frames : copies[f] # "latest"
  BY <1>1 DEF CaptureIInv, CopiesInv, CopyToSubmit
<1>8. CopiesInv'
  <2>1. \A f \in Frames : copies'[f] # "nothing" => \E s \in submitted' : s[2] = f
    <3>1. e \in submitted' /\ submitted \subseteq submitted'
      BY <1>1
    <3>. QED
      BY <1>3, <1>5, <3>1 DEF CaptureIInv, CopiesInv
  <2>2. ASSUME NEW j \in 1 .. n + 1, NEW k \in 1 .. n + 1,
               copies'[queue'[j][2]] = "latest", j < k
        PROVE  copies'[queue'[k][2]] = "nothing"
    <3>1. j \in 1 .. n /\ copies[queue[j][2]] = "latest"
      BY <1>3, <1>4, <1>5, <2>2
    <3>2. ~ copyRecorded
      BY <1>4, <1>7, <3>1
    <3>3. CASE k = n + 1
      BY <1>3, <1>5, <3>2, <3>3
    <3>4. CASE k \in 1 .. n
      BY <1>3, <1>4, <1>5, <2>2, <3>1, <3>4 DEF CaptureIInv, CopiesInv
    <3>. QED
      BY <3>3, <3>4
  <2>3. staging' = "latest" => \A f \in Frames : copies'[f] = "nothing"
    BY <1>1, <1>5, <1>7 DEF CaptureIInv, CopiesInv
  <2>4. (\E f \in Frames : copies'[f] # "nothing") =>
          CopyToSubmit \/ \E f \in Frames : copies[f] # "nothing"
    BY <1>1, <1>5 DEF CopyToSubmit
  <2>5. ~ CopyToSubmit'
    BY <1>1 DEF CopyToSubmit
  <2>6. (\E f \in Frames : copies'[f] # "nothing") => extent' <= bufferSize'
    BY <1>1, <2>4 DEF CaptureIInv, CopiesInv
  <2>. QED
    BY <1>3, <2>1, <2>2, <2>3, <2>5, <2>6 DEF CopiesInv
<1>9. PendingCopyInv'
  <2>1. captureFence' # None => captureFence' \in Frames /\ captureFence' < frameSyncCount'
    BY <1>1, <1>2 DEF CaptureIInv, PendingCopyInv
  <2>2. ASSUME pending, staging # "latest"
        PROVE  \E j, k \in 1 .. Len(queue') : /\ j <= k
                                             /\ copies'[queue'[j][2]] = "latest"
                                             /\ captureFence' = queue'[k][2]
    <3>1. n + 1 \in 1 .. Len(queue') /\ captureFence' = queue'[n + 1][2]
      BY <1>1, <1>3, <2>2
    <3>2. CASE copyRecorded
      BY <1>3, <1>5, <3>1, <3>2
    <3>3. CASE ~ copyRecorded
      <4>1. PICK j \in 1 .. n : copies[queue[j][2]] = "latest"
        BY <1>1, <2>2, <3>3 DEF CaptureIInv, PendingCopyInv, CopyToSubmit
      <4>2. j \in 1 .. Len(queue') /\ j <= n + 1 /\ copies'[queue'[j][2]] = "latest"
        BY <1>3, <1>4, <1>5, <4>1
      <4>. QED
        BY <3>1, <4>2
    <3>. QED
      BY <3>2, <3>3
  <2>. QED
    BY <1>1, <2>1, <2>2 DEF CaptureIInv, PendingCopyInv
<1>. QED
  BY <1>6, <1>8, <1>9

\* A swapchain is recreated with nothing in the queue: pixels that are pending are
\* in the buffer, and need no fence.
LEMMA RecreateKeepsCapture ==
  ASSUME CaptureIInv, RecreateCaptured
  PROVE  QueueInv' /\ CopiesInv' /\ PendingCopyInv'
<1>1. /\ pc = "recreate" /\ pc' \in {"waitFence", "idle"}
      /\ submitted = {} /\ submitted' = {}
      /\ captureFence' = None
      /\ UNCHANGED << queue, copies, armed, pending, bufferSize, staging >>
  BY DEF RecreateCaptured, RecreateSwapChain, DeviceIdle, InvalidateFence
<1>2. /\ ~ CopyToSubmit /\ ~ CopyToSubmit'
      /\ \A k \in 1 .. Len(queue) : FALSE
      /\ \A f \in Frames : copies[f] = "nothing"
  BY <1>1 DEF CaptureIInv, QueueInv, CopiesInv, CopyToSubmit
<1>3. QueueInv'
  BY <1>1, <1>2 DEF QueueInv
<1>4. CopiesInv'
  BY <1>1, <1>2 DEF CopiesInv
<1>5. PendingCopyInv'
  BY <1>1, <1>2 DEF CaptureIInv, PendingCopyInv
<1>. QED
  BY <1>3, <1>4, <1>5

\* The oldest submission completes; when its copy is the latest, no other is left.
LEMMA CompletionKeepsCapture ==
  ASSUME CaptureIInv, GpuCompletesInOrder
  PROVE  QueueInv' /\ CopiesInv' /\ PendingCopyInv'
<1>1. /\ queue \in Seq(Images \X Frames) /\ queue # << >>
      /\ copies \in [Frames -> {"nothing", "older", "latest"}]
  BY DEF GpuCompletesInOrder, CaptureIInv, CaptureLoopTypeOK
<1>. PICK n \in Nat : n + 1 = Len(queue)
  <2>1. Len(queue) \in Nat /\ Len(queue) # 0
    BY <1>1
  <2>2. \A m \in Nat : m # 0 => \E n \in Nat : n + 1 = m
    <3>1. \A m \in Nat : m # 0 => m - 1 \in Nat /\ (m - 1) + 1 = m
      OBVIOUS
    <3>. QED
      BY <3>1
  <2>. QED
    BY <2>1, <2>2
<1>2. /\ Len(Tail(queue)) = n
      /\ \A k \in 1 .. n : Tail(queue)[k] = queue[k + 1]
      /\ Head(queue) = queue[1]
      /\ \A k \in 1 .. n + 1 : queue[k] \in Images \X Frames
  <2>1. Len(Tail(queue)) = n
    BY <1>1
  <2>2. \A k \in 1 .. n : Tail(queue)[k] = queue[k + 1]
    BY <1>1
  <2>3. \A k \in 1 .. n + 1 : queue[k] \in Images \X Frames
    BY <1>1
  <2>. QED
    BY <1>1, <2>1, <2>2, <2>3
<1>. PICK s \in Images \X Frames, h \in Frames : s = queue[1] /\ h = s[2]
  BY <1>2
<1>3. /\ submitted' = submitted \ {s}
      /\ queue' = Tail(queue)
      /\ copies' = [copies EXCEPT ![h] = "nothing"]
      /\ UNCHANGED << pc, extent, copyRecorded, frameSyncCount, armed, pending, captureFence,
                      bufferSize >>
      /\ staging' = IF copies[h] = "nothing" THEN staging ELSE copies[h]
  <2>1. submitted' = submitted \ {s} /\ UNCHANGED << pc, frameSyncCount >>
    BY <1>2 DEF GpuCompletesInOrder, GpuCompletes, hostVars
  <2>. QED
    BY <1>2, <2>1 DEF GpuCompletesInOrder, Staged, captureVars
<1>4. /\ Len(queue') = n
      /\ \A k \in 1 .. n : k + 1 \in 1 .. n + 1 /\ queue'[k] = queue[k + 1]
      /\ \A k \in 1 .. n + 1 : queue[k] \in submitted /\ queue[k][2] \in Frames
      /\ \A j, k \in 1 .. n + 1 : queue[j][2] = queue[k][2] => j = k
      /\ \A t \in submitted : \E k \in 1 .. n + 1 : t = queue[k]
  BY <1>2, <1>3 DEF CaptureIInv, QueueInv
<1>5. \A k \in 1 .. n + 1 : k # 1 => \E m \in 1 .. n : k = m + 1
  <2>1. \A k \in 1 .. n + 1 : k # 1 => k - 1 \in 1 .. n /\ k = (k - 1) + 1
    OBVIOUS
  <2>. QED
    BY <2>1
<1>6. \A k \in 1 .. n : queue[k + 1] # s /\ queue[k + 1][2] # h
  <2>. TAKE k \in 1 .. n
  <2>1. k + 1 \in 1 .. n + 1 /\ 1 \in 1 .. n + 1 /\ k + 1 # 1
    OBVIOUS
  <2>2. queue[k + 1][2] # queue[1][2]
    BY <1>4, <2>1
  <2>. QED
    BY <2>2
<1>7. /\ \A f \in Frames \ {h} : copies'[f] = copies[f]
      /\ copies'[h] = "nothing"
  BY <1>1, <1>3
<1>8. QueueInv'
  <2>1. \A k \in 1 .. n : queue'[k] \in submitted'
    BY <1>3, <1>4, <1>6
  <2>2. ASSUME NEW t \in submitted'
        PROVE  \E k \in 1 .. n : t = queue'[k]
    <3>1. PICK k \in 1 .. n + 1 : t = queue[k] /\ k # 1
      BY <1>3, <1>4
    <3>2. PICK m \in 1 .. n : k = m + 1
      BY <1>5, <3>1
    <3>. QED
      BY <1>4, <3>1, <3>2
  <2>3. \A j, k \in 1 .. n : queue'[j][2] = queue'[k][2] => j = k
    BY <1>4
  <2>. QED
    BY <1>4, <2>1, <2>2, <2>3 DEF QueueInv
<1>9. copies[h] = "latest" => \A f \in Frames : copies'[f] = "nothing"
  <2>. SUFFICES ASSUME copies[h] = "latest", NEW f \in Frames, f # h, copies[f] # "nothing"
                PROVE  FALSE
    BY <1>7
  <2>1. PICK t \in submitted : t[2] = f
    BY DEF CaptureIInv, CopiesInv
  <2>2. PICK k \in 1 .. n + 1 : t = queue[k]
    BY <1>4
  <2>3. k # 1 /\ 1 < k /\ 1 \in 1 .. n + 1
    BY <2>1, <2>2
  <2>. QED
    BY <2>1, <2>2, <2>3 DEF CaptureIInv, CopiesInv
<1>10. CopiesInv'
  <2>1. \A f \in Frames : copies'[f] # "nothing" => \E t \in submitted' : t[2] = f
    BY <1>3, <1>7 DEF CaptureIInv, CopiesInv
  <2>2. \A j, k \in 1 .. n : copies'[queue'[j][2]] = "latest" /\ j < k =>
                               copies'[queue'[k][2]] = "nothing"
    <3>. SUFFICES ASSUME NEW j \in 1 .. n, NEW k \in 1 .. n,
                         copies'[queue'[j][2]] = "latest", j < k
                  PROVE  copies'[queue'[k][2]] = "nothing"
      OBVIOUS
    <3>1. copies[queue[j + 1][2]] = "latest" /\ j + 1 < k + 1
      BY <1>4, <1>6, <1>7
    <3>2. copies[queue[k + 1][2]] = "nothing"
      BY <1>4, <3>1 DEF CaptureIInv, CopiesInv
    <3>. QED
      BY <1>4, <1>6, <1>7, <3>2
  <2>3. staging' = "latest" => \A f \in Frames : copies'[f] = "nothing"
    BY <1>1, <1>3, <1>7, <1>9 DEF CaptureIInv, CopiesInv
  <2>4. CopyToSubmit' <=> CopyToSubmit
    BY <1>3 DEF CopyToSubmit
  <2>5. CopyToSubmit => staging' # "latest" /\ \A f \in Frames : copies'[f] # "latest"
    BY <1>3, <1>7 DEF CaptureIInv, CopiesInv
  <2>6. (\E f \in Frames : copies'[f] # "nothing") => \E f \in Frames : copies[f] # "nothing"
    BY <1>7
  <2>7. pc' # "exited" /\ (CopyToSubmit' \/ \E f \in Frames : copies'[f] # "nothing") =>
          extent' <= bufferSize'
    BY <1>3, <2>4, <2>6 DEF CaptureIInv, CopiesInv
  <2>. QED
    BY <1>4, <2>1, <2>2, <2>3, <2>4, <2>5, <2>7 DEF CopiesInv
<1>11. PendingCopyInv'
  <2>1. ASSUME NEW j \in 1 .. n + 1, NEW k \in 1 .. n + 1, j <= k,
               copies[queue[j][2]] = "latest", captureFence = queue[k][2],
               staging' # "latest"
        PROVE  \E i, m \in 1 .. n : i <= m /\ copies'[queue'[i][2]] = "latest"
                                           /\ captureFence' = queue'[m][2]
    <3>1. j # 1 /\ k # 1
      BY <1>3, <2>1
    <3>2. PICK i \in 1 .. n, m \in 1 .. n : j = i + 1 /\ k = m + 1
      BY <1>5, <3>1
    <3>3. i <= m /\ copies'[queue'[i][2]] = "latest" /\ captureFence' = queue'[m][2]
      BY <1>3, <1>4, <1>6, <1>7, <2>1, <3>2
    <3>. QED
      BY <3>3
  <2>2. staging = "latest" => staging' = "latest"
    BY <1>3 DEF CaptureIInv, CopiesInv
  <2>3. pending' /\ pc' \notin {"stopped", "exited"} =>
          \/ staging' = "latest"
          \/ CopyToSubmit'
          \/ \E i, m \in 1 .. n : i <= m /\ copies'[queue'[i][2]] = "latest"
                                         /\ captureFence' = queue'[m][2]
    BY <1>3, <2>1, <2>2 DEF CaptureIInv, PendingCopyInv, CopyToSubmit
  <2>. QED
    BY <1>3, <1>4, <2>3 DEF CaptureIInv, PendingCopyInv
<1>. QED
  BY <1>8, <1>10, <1>11

\* The teardown leaves neither a request nor pixels.
LEMMA ExitKeepsCapture ==
  ASSUME CaptureIInv, ExitCaptured
  PROVE  QueueInv' /\ CopiesInv' /\ PendingCopyInv'
<1>1. /\ pc' = "exited" /\ staging' = "nothing" /\ ~ pending' /\ captureFence' = None
      /\ UNCHANGED << submitted, queue, copies >>
  BY DEF ExitCaptured, Exit, CleanUpCapture, Goto, deviceVars, loopVars
<1>2. QueueInv'
  BY <1>1 DEF CaptureIInv, QueueInv
<1>3. CopiesInv'
  BY <1>1 DEF CaptureIInv, CopiesInv, CopyToSubmit
<1>4. PendingCopyInv'
  BY <1>1 DEF PendingCopyInv
<1>. QED
  BY <1>2, <1>3, <1>4

\* With more than one frame in flight the next frame is another one.
LEMMA NextFrameIsAnother ==
  ASSUME NEW frame \in Nat, NEW frames \in Nat, frame < frames, frames > 1
  PROVE  NextFrame(frame, frames) # frame
<1>1. CASE frame + 1 < frames
  <2>1. (frame + 1) % frames = frame + 1
    BY <1>1
  <2>. QED
    BY <2>1 DEF NextFrame
<1>2. CASE frame + 1 = frames
  <2>1. (frame + 1) % frames = 0
    BY <1>2
  <2>. QED
    BY <1>2, <2>1 DEF NextFrame
<1>. QED
  BY <1>1, <1>2

\* The fence of a pending capture: bound at a submission, forgotten with the fences
\* that are recreated, and never the one that a later frame resets.
LEMMA StepsKeepBoundFence ==
  CaptureIInv /\ LoopInv' /\ PendingCopyInv' /\ [CaptureLoopNext]_allVars => BoundFenceInv'
<1>. SUFFICES ASSUME CaptureIInv, LoopInv', PendingCopyInv', [CaptureLoopNext]_allVars,
                     pending', captureFence' # None, frameSyncCount' > 1
              PROVE  BoundFenceInv'
  BY DEF BoundFenceInv
<1>1. /\ frameSyncCount \in Nat /\ currentFrame \in Frames /\ currentFrame \in Nat
      /\ inFlightFences \in [Frames -> {"null", "unsignaled", "signaled"}]
  BY ConstantsAssumption
     DEF CaptureIInv, LoopInv, TypeOK, SyncTypeOK, Handle, Frames
<1>2. /\ captureFence' \in Frames
      /\ \/ inFlightFences'[captureFence'] = "signaled"
         \/ \E s \in submitted' : s[2] = captureFence'
         \/ captureFence' = currentFrame' /\ pc' \in {"submit", "stopped", "exited"}
  <2>1. captureFence' \in Frames /\ captureFence' < frameSyncCount'
    BY DEF PendingCopyInv
  <2>2. inFlightFences'[captureFence'] \in {"null", "unsignaled", "signaled"}
    BY <2>1 DEF LoopInv, TypeOK, SyncTypeOK, Handle
  <2>. QED
    BY <2>1, <2>2 DEF LoopInv, FenceInv
<1>3. CASE RequestCapture \/ TakeCapture \/ TakeCaptureFails
  BY <1>3 DEF RequestCapture, Request, TakeCapture, TakeCaptureFails, Take
<1>4. CASE SubmitCapturedFrame
  BY <1>4 DEF SubmitCapturedFrame, SubmitFrame, BindSubmitFence, Goto, syncVars, BoundFenceInv
<1>5. CASE RecordFrameWithCopy
  BY <1>5 DEF RecordFrameWithCopy, RecordCopy
<1>6. CASE RecordFrameWithoutCopy
  <2>1. /\ pc = "record" /\ pc' = "resetFence"
        /\ UNCHANGED << pending, captureFence, frameSyncCount, currentFrame >>
    BY <1>6 DEF RecordFrameWithoutCopy, RecordFrame, RecordUnsupported, RecordUnmapped, Goto,
                syncVars, captureVars
  <2>. QED
    BY <2>1 DEF CaptureIInv, BoundFenceInv
<1>7. CASE RecreateCaptured
  BY <1>7 DEF RecreateCaptured, InvalidateFence
<1>8. CASE ExitCaptured
  BY <1>8 DEF ExitCaptured, CleanUpCapture
<1>9. CASE GpuCompletesInOrder
  <2>. PICK s : s = Head(queue)
    OBVIOUS
  <2>1. /\ UNCHANGED << pending, captureFence, frameSyncCount, currentFrame, pc >>
        /\ s \in submitted /\ submitted' = submitted \ {s}
        /\ inFlightFences' = [inFlightFences EXCEPT ![s[2]] = "signaled"]
    BY <1>9 DEF GpuCompletesInOrder, GpuCompletes, Staged, captureVars, hostVars
  <2>2. BoundFenceIsServed => BoundFenceIsServed'
    BY <1>1, <2>1 DEF BoundFenceIsServed
  <2>. QED
    BY <2>1, <2>2 DEF CaptureIInv, BoundFenceInv
<1>10. CASE (OtherFrameSteps \/ WaitImageFence) /\ UNCHANGED << captureVars, loopVars >>
  <2>1. UNCHANGED << pending, captureFence >>
    BY <1>10 DEF captureVars
  <2>2. CASE \/ ResizeWindow \/ ChangeShadowResolution \/ Exited
             \/ (\E f \in Frames : EngineReleases(f)) \/ EnginePresents
    <3>1. UNCHANGED << frameSyncCount, currentFrame, pc, inFlightFences, submitted >>
      BY <2>2 DEF ResizeWindow, ChangeShadowResolution, Exited, EngineReleases, EnginePresents,
                  vars, syncVars, hostVars, deviceVars
    <3>. QED
      BY <2>1, <3>1 DEF CaptureIInv, BoundFenceInv, BoundFenceIsServed
  <2>3. CASE PresentFrame
    <3>1. /\ pc = "present" /\ pc' = "idle" /\ UNCHANGED frameSyncCount
          /\ currentFrame' = NextFrame(currentFrame, frameSyncCount)
      BY <2>3 DEF PresentFrame, Goto
    <3>2. currentFrame < frameSyncCount
      BY <3>1 DEF CaptureIInv, LoopInv, FrameInv, InFrame
    <3>3. captureFence = currentFrame
      BY <2>1, <3>1 DEF CaptureIInv, BoundFenceInv
    <3>4. currentFrame' # currentFrame
      BY <1>1, <3>1, <3>2, NextFrameIsAnother
    <3>. QED
      BY <2>1, <3>1, <3>3, <3>4 DEF BoundFenceInv
  <2>4. CASE FatalFrameError \/ CloseWindow
    <3>1. /\ pc \notin {"stopped", "exited", "recreate"} /\ pc' = "stopped"
          /\ UNCHANGED << frameSyncCount, currentFrame, inFlightFences, submitted >>
      BY <2>4 DEF FatalFrameError, CloseWindow, Goto, syncVars, deviceVars
    <3>2. CASE pc = "present"
      <4>1. captureFence \in Frames /\ captureFence < frameSyncCount
        BY <2>1 DEF CaptureIInv, PendingCopyInv
      <4>2. inFlightFences[captureFence] \in {"unsignaled", "signaled"}
        BY <4>1 DEF CaptureIInv, LoopInv, TypeOK, SyncTypeOK, Handle, FenceInv
      <4>3. inFlightFences[captureFence] = "unsignaled" => \E f \in submitted : f[2] = captureFence
        BY <3>2, <4>1 DEF CaptureIInv, LoopInv, FenceInv
      <4>4. BoundFenceIsServed'
        BY <2>1, <3>1, <4>1, <4>2, <4>3 DEF BoundFenceIsServed
      <4>. QED
        BY <3>1, <4>4 DEF BoundFenceInv
    <3>3. CASE pc # "present"
      BY <1>2, <2>1, <3>1, <3>3 DEF CaptureIInv, BoundFenceInv, BoundFenceIsServed
    <3>. QED
      BY <3>2, <3>3
  <2>5. CASE \/ BeginFrame \/ AbandonFrame \/ WaitFrameFence
             \/ (\E i \in Images : AcquireImage(i))
             \/ AcquireOutOfDate \/ DropRecording \/ ResetFrameFence
             \/ PresentOutOfDate \/ AbortProcess \/ WaitImageFence
    <3>1. /\ pc \notin {"stopped", "exited"}
          /\ pc' \notin {"stopped", "present"}
          /\ pc \in {"present", "recreate"} => pc' \in {"recreate", "exited"}
          /\ UNCHANGED << frameSyncCount, currentFrame >>
      BY <2>5 DEF BeginFrame, AbandonFrame, WaitFrameFence, AcquireImage, AcquireOutOfDate,
                  DropRecording, DropFrame, ResetFrameFence, PresentOutOfDate, AbortProcess,
                  WaitImageFence, Goto, syncVars
    <3>. QED
      BY <2>1, <3>1 DEF CaptureIInv, BoundFenceInv
  <2>. QED
    BY <1>10, <2>2, <2>3, <2>4, <2>5 DEF OtherFrameSteps
<1>11. CASE UNCHANGED allVars
  <2>1. UNCHANGED << pending, captureFence, frameSyncCount, currentFrame, pc, inFlightFences,
                     submitted >>
    BY <1>11 DEF allVars, vars, syncVars, hostVars, deviceVars, captureVars
  <2>. QED
    BY <2>1 DEF CaptureIInv, BoundFenceInv, BoundFenceIsServed
<1>. QED
  BY <1>3, <1>4, <1>5, <1>6, <1>7, <1>8, <1>9, <1>10, <1>11
     DEF CaptureLoopNext, CaptureSteps, loopVars

LEMMA CaptureStepsKeepTypes ==
  CaptureIInv /\ LoopInv' /\ [CaptureLoopNext]_allVars => CaptureLoopTypeOK'
<1>. SUFFICES ASSUME CaptureIInv, LoopInv', [CaptureLoopNext]_allVars
              PROVE  CaptureLoopTypeOK'
  OBVIOUS
<1>1. /\ TypeOK' /\ CaptureTypeOK
      /\ transferSrc \in BOOLEAN /\ extent \in 1 .. MaxExtent /\ copyRecorded \in BOOLEAN
      /\ queue \in Seq(Images \X Frames)
      /\ copies \in [Frames -> {"nothing", "older", "latest"}]
      /\ currentFrame \in Frames
  BY DEF CaptureIInv, CaptureLoopTypeOK, LoopInv, TypeOK, SyncTypeOK
<1>2. MaxExtent \in Nat /\ 0 \in 0 .. MaxExtent /\ 1 .. MaxExtent \subseteq 0 .. MaxExtent
  BY CaptureAssumption
<1>. USE DEF captureVars, loopVars
<1>3. ASSUME UNCHANGED << captureVars, loopVars >>
      PROVE  CaptureLoopTypeOK'
  BY <1>1, <1>3 DEF CaptureLoopTypeOK, CaptureTypeOK
<1>4. CASE RequestCapture
  BY <1>1, <1>4 DEF RequestCapture, Request, CaptureLoopTypeOK, CaptureTypeOK
<1>5. CASE TakeCapture \/ TakeCaptureFails
  BY <1>1, <1>5 DEF TakeCapture, TakeCaptureFails, Take, CaptureLoopTypeOK, CaptureTypeOK
<1>6. CASE SubmitCapturedFrame
  <2>1. acquired \in Images
    BY <1>6 DEF SubmitCapturedFrame, SubmitFrame, Goto, CaptureIInv, LoopInv, FrameInv, InFrame
  <2>2. queue' \in Seq(Images \X Frames)
    BY <1>1, <1>6, <2>1 DEF SubmitCapturedFrame
  <2>3. copies' \in [Frames -> {"nothing", "older", "latest"}]
    BY <1>1, <1>6 DEF SubmitCapturedFrame
  <2>4. CaptureTypeOK'
    BY <1>1, <1>6 DEF SubmitCapturedFrame, BindSubmitFence, CaptureTypeOK
  <2>. QED
    BY <1>1, <1>6, <2>2, <2>3, <2>4 DEF SubmitCapturedFrame, CaptureLoopTypeOK
<1>7. CASE RecordFrameWithCopy
  <2>1. CaptureTypeOK'
    BY <1>1, <1>2, <1>7 DEF RecordFrameWithCopy, RecordCopy, CaptureTypeOK
  <2>2. copies' \in [Frames -> {"nothing", "older", "latest"}]
    BY <1>1, <1>7 DEF RecordFrameWithCopy
  <2>. QED
    BY <1>1, <1>7, <2>1, <2>2 DEF RecordFrameWithCopy, CaptureLoopTypeOK
<1>8. CASE RecordFrameWithoutCopy
  <2>1. CaptureTypeOK'
    BY <1>1, <1>2, <1>8
       DEF RecordFrameWithoutCopy, RecordUnsupported, RecordUnmapped, CaptureTypeOK
  <2>. QED
    BY <1>1, <1>8, <2>1 DEF RecordFrameWithoutCopy, CaptureLoopTypeOK
<1>9. CASE RecreateCaptured
  BY <1>1, <1>9 DEF RecreateCaptured, InvalidateFence, CaptureLoopTypeOK, CaptureTypeOK
<1>10. CASE GpuCompletesInOrder
  <2>. PICK h : h = Head(queue)[2]
    OBVIOUS
  <2>1. h \in Frames
    <3>1. Head(queue) \in Images \X Frames
      BY <1>1, <1>10 DEF GpuCompletesInOrder
    <3>. QED
      BY <3>1
  <2>2. CaptureTypeOK'
    BY <1>1, <1>10, <2>1 DEF GpuCompletesInOrder, Staged, CaptureTypeOK
  <2>3. queue' \in Seq(Images \X Frames)
    BY <1>1, <1>10 DEF GpuCompletesInOrder
  <2>4. copies' \in [Frames -> {"nothing", "older", "latest"}]
    BY <1>1, <1>10, <2>1 DEF GpuCompletesInOrder
  <2>. QED
    BY <1>1, <1>10, <2>2, <2>3, <2>4 DEF GpuCompletesInOrder, CaptureLoopTypeOK
<1>11. CASE ExitCaptured
  BY <1>1, <1>2, <1>11 DEF ExitCaptured, CleanUpCapture, CaptureLoopTypeOK, CaptureTypeOK
<1>. QED
  BY <1>3, <1>4, <1>5, <1>6, <1>7, <1>8, <1>9, <1>10, <1>11
     DEF CaptureLoopNext, CaptureSteps, allVars

LEMMA NextCaptureIInv == CaptureIInv /\ [CaptureLoopNext]_allVars => CaptureIInv'
<1>. SUFFICES ASSUME CaptureIInv, [CaptureLoopNext]_allVars PROVE CaptureIInv'
  OBVIOUS
<1>1. LoopInv'
  BY CaptureStepsKeepLoopInv DEF CaptureIInv
<1>2. CaptureLoopTypeOK'
  BY <1>1, CaptureStepsKeepTypes
<1>. SUFFICES QueueInv' /\ CopiesInv' /\ PendingCopyInv'
  BY <1>1, <1>2, StepsKeepBoundFence DEF CaptureIInv
<1>. USE DEF loopVars
<1>3. CASE RequestCapture
  BY <1>3, RequestKeepsCapture
<1>4. CASE TakeCapture \/ TakeCaptureFails
  BY <1>4, TakeKeepsCapture
     DEF TakeCapture, TakeCaptureFails, vars, syncVars, hostVars, deviceVars
<1>5. CASE SubmitCapturedFrame
  BY <1>5, SubmitKeepsCapture
<1>6. CASE (OtherFrameSteps \/ WaitImageFence) /\ UNCHANGED << captureVars, loopVars >>
  BY <1>6, OtherStepsKeepCapture
<1>7. CASE RecordFrameWithCopy
  BY <1>7, RecordWithCopyKeepsCapture
<1>8. CASE RecordFrameWithoutCopy
  BY <1>8, RecordWithoutCopyKeepsCapture
<1>9. CASE RecreateCaptured
  BY <1>9, RecreateKeepsCapture
<1>10. CASE GpuCompletesInOrder
  BY <1>10, CompletionKeepsCapture
<1>11. CASE ExitCaptured
  BY <1>11, ExitKeepsCapture
<1>12. CASE UNCHANGED allVars
  <2>1. UNCHANGED << captureVars, loopVars, submitted, frameSyncCount, pc >>
    BY <1>12 DEF allVars, vars, syncVars, hostVars, deviceVars
  <2>2. CopyToSubmit' <=> CopyToSubmit
    BY <2>1 DEF CopyToSubmit
  <2>. QED
    BY <2>1, <2>2, CaptureKept DEF CaptureIInv
<1>. QED
  BY <1>3, <1>4, <1>5, <1>6, <1>7, <1>8, <1>9, <1>10, <1>11, <1>12
     DEF CaptureLoopNext, CaptureSteps

\* The inductive invariant holds in every reachable state.
THEOREM CaptureInductive == CaptureLoopSpec => []CaptureIInv
<1>. QED
  BY InitCaptureIInv, NextCaptureIInv, PTL DEF CaptureLoopSpec

-----------------------------------------------------------------------------

\* What the invariant says between two frames.
LEMMA CaptureSafety ==
  CaptureIInv => PixelsAreCaptured /\ TakeIsServed /\ NoGrowthInFlight
<1>. SUFFICES ASSUME CaptureIInv
              PROVE  PixelsAreCaptured /\ TakeIsServed /\ NoGrowthInFlight
  OBVIOUS
<1>1. PixelsAreCaptured
  <2>. SUFFICES ASSUME pc = "idle", TakeReturns, staging # "latest"
                PROVE  FALSE
    BY DEF PixelsAreCaptured
  <2>1. PICK j \in 1 .. Len(queue), k \in 1 .. Len(queue) : captureFence = queue[k][2]
    BY DEF TakeReturns, CaptureIInv, PendingCopyInv, CopyToSubmit
  <2>2. queue[k] \in submitted
    BY DEF CaptureIInv, QueueInv
  <2>3. captureFence # None
    BY <2>1, <2>2, ConstantsAssumption
       DEF CaptureIInv, LoopInv, TypeOK, DeviceTypeOK, Frames
  \* the submission is pending, and so its fence unsignaled
  <2>. QED
    BY <2>1, <2>2, <2>3 DEF TakeReturns, CaptureIInv, LoopInv, PendingInv
<1>2. TakeIsServed
  <2>1. CASE pc = "stopped"
    BY <2>1 DEF TakeIsServed, CaptureIInv, BoundFenceInv
  <2>2. CASE pc = "idle"
    <3>. SUFFICES ASSUME captureFence # None PROVE BoundFenceIsServed
      BY <2>2 DEF TakeIsServed
    <3>1. captureFence \in Frames /\ captureFence < frameSyncCount
      BY DEF CaptureIInv, PendingCopyInv
    <3>2. inFlightFences[captureFence] \in {"unsignaled", "signaled"}
      BY <3>1 DEF CaptureIInv, LoopInv, TypeOK, SyncTypeOK, Handle, FenceInv
    <3>3. CASE inFlightFences[captureFence] = "unsignaled"
      BY <2>2, <3>1, <3>3 DEF CaptureIInv, LoopInv, FenceInv, BoundFenceIsServed
    <3>. QED
      BY <3>1, <3>2, <3>3 DEF BoundFenceIsServed
  <2>. QED
    BY <2>1, <2>2 DEF TakeIsServed, BetweenFrames
<1>3. NoGrowthInFlight
  <2>1. bufferSize \in Nat /\ extent \in Nat
    BY CaptureAssumption DEF CaptureIInv, CaptureLoopTypeOK, CaptureTypeOK
  <2>. QED
    BY <2>1 DEF NoGrowthInFlight, CaptureIInv, CopiesInv
<1>. QED
  BY <1>1, <1>2, <1>3

\* Between two frames take() hands out the copy that was asked for, executed,
\* whatever was submitted, dropped or recreated in between.
THEOREM TakenPixelsAreCaptured == CaptureLoopSpec => []PixelsAreCaptured
<1>. QED
  BY CaptureInductive, CaptureSafety, PTL

\* Between two frames, and after a failed one unless it was the only one in flight,
\* take() never waits for a fence that is gone, or for one that nobody will signal.
THEOREM TakeWaitsAreServed == CaptureLoopSpec => []TakeIsServed
<1>. QED
  BY CaptureInductive, CaptureSafety, PTL

\* The staging buffer is never replaced under a copy that is still executing.
THEOREM BufferGrowsWhileUnused == CaptureLoopSpec => []NoGrowthInFlight
<1>. QED
  BY CaptureInductive, CaptureSafety, PTL

=============================================================================

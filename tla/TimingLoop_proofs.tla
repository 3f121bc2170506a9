-------------------------- MODULE TimingLoop_proofs --------------------------
(***************************************************************************)
(* What a readback of timestamps measures, for every number of frames in   *)
(* flight, of swapchain images and of passes.                              *)
(***************************************************************************)
EXTENDS TimingLoop, CaptureLoop_proofs

-----------------------------------------------------------------------------
(***************************************************************************)
(* The timings add nothing to the loop with captures.                      *)
(***************************************************************************)

LEMMA TimingStepIsCaptureStep ==
  [TimingLoopNext]_instrumentedVars => [CaptureLoopNext]_allVars
BY DEF TimingLoopNext, WaitImageAndReadTimings, RecordTimedFrame, RecreateTimed,
       GpuCompletesTimed, ExitTimed, CaptureLoopNext, instrumentedVars, allVars

\* Timing a frame changes nothing about what a capture taken meanwhile holds.
THEOREM TimedLoopIsCaptureLoop == TimingLoopSpec => CaptureLoopSpec
<1>1. TimingLoopInit => CaptureLoopInit
  BY DEF TimingLoopInit
<1>. QED
  BY <1>1, TimingStepIsCaptureStep, PTL DEF TimingLoopSpec, CaptureLoopSpec

\* So a capture taken while frames are timed keeps its three promises.
THEOREM TimedCaptureIsCorrect ==
  TimingLoopSpec => [](PixelsAreCaptured /\ TakeIsServed /\ NoGrowthInFlight)
<1>. QED
  BY TimedLoopIsCaptureLoop, CaptureInductive, CaptureSafety, PTL

-----------------------------------------------------------------------------

LEMMA InitTimingIInv == TimingLoopInit => TimingIInv
<1>. SUFFICES ASSUME TimingLoopInit PROVE TimingIInv
  OBVIOUS
<1>1. CaptureIInv
  BY InitCaptureIInv DEF TimingLoopInit
<1>2. imageCount \in 1 .. MaxImages /\ CaptureLoopTypeOK
  BY <1>1 DEF CaptureIInv, LoopInv, TypeOK, HostTypeOK
<1>3. TimingLoopTypeOK
  <2>1. TimingTypeOK
    <3>1. supported \in BOOLEAN /\ slices \in 0 .. MaxImages
      BY <1>2, ConstantsAssumption DEF TimingLoopInit
    <3>2. 0 \in 0 .. Window
      BY TimingAssumption
    <3>. QED
      BY <3>1, <3>2 DEF TimingLoopInit, TimingTypeOK
  <2>2. /\ timestamps \in BOOLEAN
        /\ commands \in [Images -> SUBSET Passes]
        /\ queries \in [Images -> Slice]
    BY DEF TimingLoopInit, NewPool, Slice
  <2>. QED
    BY <1>2, <2>1, <2>2 DEF TimingLoopTypeOK
<1>4. SliceInv
  BY DEF TimingLoopInit, SliceInv
<1>. QED
  BY <1>1, <1>3, <1>4 DEF TimingIInv

\* A step that leaves the instrument alone keeps what is known of the slices, if
\* no slice comes back into use without a submission.
LEMMA SlicesKept ==
  ASSUME SliceInv,
         UNCHANGED << timingVars, queryVars, imageCount >>,
         \A i \in Images : (\A s \in submitted' : s[1] # i) /\ ~ SliceInUse(i)'
            => (\A s \in submitted : s[1] # i) /\ ~ SliceInUse(i)
  PROVE  SliceInv'
BY DEF SliceInv, timingVars, queryVars

\* The steps between two frames, the submission and the other steps of the loop.
LEMMA CaptureStepsKeepSlices ==
  ASSUME TimingIInv, CaptureSteps, UNCHANGED << timingVars, queryVars >>
  PROVE  SliceInv'
<1>. USE DEF vars, syncVars, hostVars, deviceVars
<1>1. CASE SubmitCapturedFrame
  <2>1. /\ pc = "submit" /\ pc' = "present"
        /\ submitted' = submitted \cup {<< acquired, currentFrame >>}
        /\ UNCHANGED << imageCount, acquired, resume >>
    BY <1>1 DEF SubmitCapturedFrame, SubmitFrame, Goto
  <2>2. << acquired, currentFrame >> \in submitted' /\ submitted \subseteq submitted'
    BY <2>1
  <2>3. ASSUME NEW i \in Images, \A s \in submitted' : s[1] # i
        PROVE  (\A s \in submitted : s[1] # i) /\ ~ SliceInUse(i)
    BY <2>1, <2>2, <2>3 DEF SliceInUse
  <2>. QED
    BY <2>1, <2>3, SlicesKept DEF TimingIInv
<1>2. CASE RequestCapture \/ TakeCapture \/ TakeCaptureFails
  <2>1. UNCHANGED << submitted, imageCount, acquired, pc, resume >>
    BY <1>2 DEF RequestCapture, TakeCapture, TakeCaptureFails
  <2>2. \A i : SliceInUse(i)' <=> SliceInUse(i)
    BY <2>1 DEF SliceInUse
  <2>. QED
    BY <2>1, <2>2, SlicesKept DEF TimingIInv
<1>3. CASE OtherFrameSteps
  <2>1. /\ UNCHANGED << submitted, imageCount >>
        /\ \/ UNCHANGED << pc, acquired, resume >>
           \/ pc = "resetFence" /\ pc' = "submit" /\ UNCHANGED acquired
           \/ pc' = "recreate" /\ resume' = "return"
           \/ pc' \in {"stopped", "exited"}
           \/ /\ pc \notin {"record", "resetFence", "submit", "recreate", "stopped", "exited"}
              /\ pc' \notin {"record", "resetFence", "submit", "stopped", "exited"}
    BY <1>3 DEF OtherFrameSteps, ResizeWindow, ChangeShadowResolution, CloseWindow,
                BeginFrame, AbandonFrame, WaitFrameFence, AcquireImage, AcquireOutOfDate,
                DropRecording, DropFrame, ResetFrameFence, PresentFrame, PresentOutOfDate,
                FatalFrameError, AbortProcess, Exited, EngineReleases, EnginePresents, Goto
  <2>2. ASSUME NEW i \in Images, ~ SliceInUse(i)'
        PROVE  ~ SliceInUse(i)
    BY <2>1, <2>2 DEF SliceInUse
  <2>. QED
    BY <2>1, <2>2, SlicesKept DEF TimingIInv
<1>. QED
  BY <1>1, <1>2, <1>3 DEF CaptureSteps

\* The slice that is read belongs to the frame recorded next.
LEMMA ReadKeepsSlices ==
  ASSUME TimingIInv, WaitImageAndReadTimings
  PROVE  TimingTypeOK' /\ queries' \in [Images -> Slice] /\ SliceInv'
<1>1. /\ pc = "waitImage" /\ pc' = "record"
      /\ UNCHANGED << submitted, imageCount, acquired, commands >>
      /\ acquired \in Images
  BY DEF WaitImageAndReadTimings, WaitImageFence, Goto, deviceVars, TimingIInv, CaptureIInv,
         LoopInv, FrameInv, InFrame
<1>. PICK a \in Images : a = acquired
  BY <1>1
<1>2. /\ TimingTypeOK /\ queries \in [Images -> Slice] /\ Window \in Nat \ {0}
      /\ averageCount \in [Passes -> 0 .. Window]
      /\ passShown \in [Passes -> BOOLEAN]
  BY TimingAssumption DEF TimingIInv, TimingLoopTypeOK, TimingTypeOK
<1>3. \A i \in Images \ {a} : SliceInUse(i)' <=> SliceInUse(i)
  BY <1>1 DEF SliceInUse
<1>4. SliceInUse(a)'
  BY <1>1 DEF SliceInUse
<1>5. CASE UNCHANGED << timingVars, queries >>
  <2>1. TimingTypeOK' /\ queries' \in [Images -> Slice]
    BY <1>2, <1>5 DEF timingVars, TimingTypeOK
  <2>2. SliceInv'
    BY <1>1, <1>3, <1>4, <1>5 DEF TimingIInv, SliceInv, timingVars
  <2>. QED
    BY <2>1, <2>2
<1>6. CASE /\ ReadSlice(a, Available(a))
           /\ queries' = [queries EXCEPT ![a].state = "read"]
  <2>1. /\ UNCHANGED << supported, slices, passMask, sliceRecorded >>
        /\ \A i \in Images \ {a} : queries'[i] = queries[i]
        /\ queries' \in [Images -> Slice]
    BY <1>2, <1>6 DEF ReadSlice, Slice
  <2>2. ASSUME NEW p \in Passes
        PROVE  /\ averageCount'[p] \in 0 .. Window
               /\ passShown'[p] => averageCount'[p] > 0
    <3>1. /\ averageCount'[p] = IF p \notin passMask[a] THEN 0
                                ELSE IF p \in Available(a) /\ averageCount[p] < Window
                                  THEN averageCount[p] + 1
                                ELSE averageCount[p]
          /\ passShown'[p] = (p \in passMask[a] /\ (p \in Available(a) \/ passShown[p]))
      BY <1>6 DEF ReadSlice
    <3>2. averageCount[p] \in 0 .. Window /\ (passShown[p] => averageCount[p] > 0)
      BY <1>2 DEF TimingIInv, SliceInv
    <3>3. averageCount'[p] \in 0 .. Window
      BY <1>2, <3>1, <3>2
    <3>4. passShown'[p] => averageCount'[p] > 0
      <4>. SUFFICES ASSUME passShown'[p] PROVE averageCount'[p] > 0
        OBVIOUS
      <4>1. p \in passMask[a] /\ (p \in Available(a) \/ passShown[p])
        BY <3>1
      <4>2. averageCount[p] \in Nat /\ averageCount[p] <= Window
        BY <1>2, <3>2
      <4>. QED
        BY <1>2, <3>1, <3>2, <4>1, <4>2
    <3>. QED
      BY <3>3, <3>4
  <2>3. averageCount' \in [Passes -> 0 .. Window] /\ passShown' \in [Passes -> BOOLEAN]
    <3>1. averageCount' = [p \in Passes |-> averageCount'[p]]
      BY <1>6 DEF ReadSlice
    <3>2. averageCount' \in [Passes -> 0 .. Window]
      BY <2>2, <3>1
    <3>3. passShown' \in [Passes -> BOOLEAN]
      BY <1>6 DEF ReadSlice
    <3>. QED
      BY <3>2, <3>3
  <2>4. TimingTypeOK'
    BY <1>2, <2>1, <2>3 DEF TimingTypeOK
  <2>5. SliceInv'
    BY <1>1, <1>3, <1>4, <2>1, <2>2 DEF TimingIInv, SliceInv
  <2>. QED
    BY <2>1, <2>4, <2>5
<1>. QED
  BY <1>5, <1>6 DEF WaitImageAndReadTimings

\* The mask of the recorded slice is what its command buffer times; its slice is
\* in use until the command buffer is submitted.
LEMMA RecordKeepsSlices ==
  ASSUME TimingIInv, RecordTimedFrame
  PROVE  TimingTypeOK' /\ commands' \in [Images -> SUBSET Passes] /\ SliceInv'
<1>1. /\ pc = "record" /\ pc' = "resetFence"
      /\ UNCHANGED << submitted, imageCount, acquired, queries >>
      /\ acquired \in Images /\ acquired < imageCount
  BY DEF RecordTimedFrame, RecordFrameWithCopy, RecordFrameWithoutCopy, RecordFrame, Goto,
         deviceVars, TimingIInv, CaptureIInv, LoopInv, FrameInv, InFrame
<1>. PICK a \in Images : a = acquired
  BY <1>1
<1>. PICK timed \in SUBSET Passes :
       /\ commands' = [commands EXCEPT ![a] = timed]
       /\ SetPassRecordedMask(a, timed)
  BY DEF RecordTimedFrame, Passes
<1>2. /\ TimingTypeOK
      /\ commands \in [Images -> SUBSET Passes]
      /\ passMask \in [Images -> SUBSET Passes]
      /\ sliceRecorded \in [Images -> BOOLEAN]
      /\ supported => a < slices
  BY <1>1 DEF TimingIInv, TimingLoopTypeOK, TimingTypeOK, SliceInv
<1>3. \A i \in Images \ {a} : SliceInUse(i)' <=> SliceInUse(i)
  BY <1>1 DEF SliceInUse
<1>4. SliceInUse(a)'
  BY <1>1 DEF SliceInUse
<1>5. /\ UNCHANGED << supported, slices, averageCount, passShown >>
      /\ \A i \in Images \ {a} : /\ commands'[i] = commands[i] /\ passMask'[i] = passMask[i]
                                 /\ sliceRecorded'[i] = sliceRecorded[i]
      /\ supported => commands'[a] = passMask'[a]
  BY <1>2 DEF SetPassRecordedMask
<1>6. TimingTypeOK' /\ commands' \in [Images -> SUBSET Passes]
  BY <1>2 DEF TimingTypeOK, SetPassRecordedMask
<1>7. SliceInv'
  BY <1>1, <1>3, <1>4, <1>5 DEF TimingIInv, SliceInv
<1>. QED
  BY <1>6, <1>7

\* A new query pool, created with the swapchain or gone with it, has no slice
\* that was recorded.
LEMMA NewPoolKeepsSlices ==
  ASSUME TimingIInv, RecreateTimed \/ ExitTimed
  PROVE  TimingTypeOK' /\ queries' \in [Images -> Slice] /\ SliceInv'
<1>1. /\ queries' \in [Images -> Slice]
      /\ passMask' = [i \in Images |-> {}]
      /\ sliceRecorded' = [i \in Images |-> FALSE]
  BY DEF RecreateTimed, CreateTiming, CreatedTiming, ExitTimed, DestroyTiming, NewPool, Slice
<1>2. \A i \in Images : ~ sliceRecorded'[i]
  BY <1>1
<1>3. CASE RecreateTimed
  <2>1. PICK ok \in BOOLEAN : CreatedTiming(ok, imageCount')
    BY <1>3 DEF RecreateTimed, CreateTiming
  <2>2. imageCount' \in 0 .. MaxImages /\ 0 \in 0 .. MaxImages
    BY <1>3, ConstantsAssumption DEF RecreateTimed, RecreateCaptured, RecreateSwapChain
  <2>3. TimingTypeOK'
    <3>1. 0 \in 0 .. Window
      BY TimingAssumption
    <3>. QED
      BY <1>1, <2>1, <2>2, <3>1 DEF CreatedTiming, TimingTypeOK
  <2>4. SliceInv'
    BY <1>2, <2>1 DEF CreatedTiming, SliceInv
  <2>. QED
    BY <1>1, <2>3, <2>4
<1>4. CASE ExitTimed
  <2>1. /\ supported' = FALSE /\ slices' = 0
        /\ UNCHANGED << averageCount, passShown >>
    BY <1>4 DEF ExitTimed, DestroyTiming
  <2>2. 0 \in 0 .. MaxImages
    BY ConstantsAssumption
  <2>3. TimingTypeOK'
    BY <1>1, <2>1, <2>2 DEF TimingTypeOK, TimingIInv, TimingLoopTypeOK
  <2>4. SliceInv'
    BY <1>2, <2>1 DEF SliceInv, TimingIInv
  <2>. QED
    BY <1>1, <2>3, <2>4
<1>. QED
  BY <1>3, <1>4

\* A submission of a recorded slice completes: the slice is unread, with the
\* passes of the image's command buffer.
LEMMA CompletionKeepsSlices ==
  ASSUME TimingIInv, GpuCompletesTimed
  PROVE  queries' \in [Images -> Slice] /\ SliceInv'
<1>. PICK s : s = Head(queue)
  OBVIOUS
<1>1. /\ s \in submitted /\ submitted' = submitted \ {s}
      /\ UNCHANGED << pc, resume, imageCount, acquired, timingVars, commands >>
      /\ queries' = IF supported
           THEN [queries EXCEPT ![s[1]] = [state |-> "unread", passes |-> commands[s[1]]]]
           ELSE queries
  BY DEF GpuCompletesTimed, GpuCompletesInOrder, GpuCompletes, hostVars
<1>2. /\ \A t \in submitted : t[1] \in Images
      /\ commands \in [Images -> SUBSET Passes]
      /\ queries \in [Images -> Slice]
  BY DEF TimingIInv, TimingLoopTypeOK, CaptureLoopTypeOK, TypeOK, DeviceTypeOK
<1>. PICK d \in Images : d = s[1]
  BY <1>1, <1>2
<1>3. \A i : SliceInUse(i)' <=> SliceInUse(i)
  BY <1>1 DEF SliceInUse
<1>4. queries' \in [Images -> Slice]
  BY <1>1, <1>2 DEF Slice
<1>5. ASSUME NEW i \in Images, supported', sliceRecorded'[i]
      PROVE  /\ commands'[i] = passMask'[i]
             /\ (\A t \in submitted' : t[1] # i) /\ ~SliceInUse(i)' =>
                  queries'[i] = [state |-> "unread", passes |-> passMask'[i]]
  <2>1. commands[i] = passMask[i]
    BY <1>1, <1>5 DEF TimingIInv, SliceInv, timingVars
  <2>2. CASE i = d
    BY <1>1, <1>2, <1>5, <2>1, <2>2 DEF timingVars
  <2>3. CASE i # d
    <3>1. queries'[i] = queries[i]
      BY <1>1, <1>2, <2>3
    <3>2. (\A t \in submitted' : t[1] # i) => \A t \in submitted : t[1] # i
      BY <1>1, <2>3
    <3>. QED
      BY <1>1, <1>3, <1>5, <3>1, <3>2 DEF TimingIInv, SliceInv, timingVars
  <2>. QED
    BY <2>2, <2>3
<1>6. SliceInv'
  BY <1>1, <1>5 DEF TimingIInv, SliceInv, timingVars
<1>. QED
  BY <1>4, <1>6

LEMMA NextTimingIInv == TimingIInv /\ [TimingLoopNext]_instrumentedVars => TimingIInv'
<1>. SUFFICES ASSUME TimingIInv, [TimingLoopNext]_instrumentedVars PROVE TimingIInv'
  OBVIOUS
<1>1. CaptureIInv'
  BY TimingStepIsCaptureStep, NextCaptureIInv DEF TimingIInv
<1>. SUFFICES TimingTypeOK' /\ timestamps' \in BOOLEAN /\ commands' \in [Images -> SUBSET Passes]
                /\ queries' \in [Images -> Slice] /\ SliceInv'
  BY <1>1 DEF TimingIInv, CaptureIInv, TimingLoopTypeOK
<1>2. /\ TimingTypeOK /\ timestamps \in BOOLEAN /\ commands \in [Images -> SUBSET Passes]
      /\ queries \in [Images -> Slice]
  BY DEF TimingIInv, TimingLoopTypeOK
<1>3. CASE CaptureSteps /\ UNCHANGED << timingVars, queryVars >>
  BY <1>2, <1>3, CaptureStepsKeepSlices DEF timingVars, queryVars, TimingTypeOK
<1>4. CASE WaitImageAndReadTimings
  BY <1>2, <1>4, ReadKeepsSlices DEF WaitImageAndReadTimings
<1>5. CASE RecordTimedFrame
  BY <1>2, <1>5, RecordKeepsSlices DEF RecordTimedFrame
<1>6. CASE RecreateTimed
  BY <1>2, <1>6, NewPoolKeepsSlices DEF RecreateTimed
<1>7. CASE GpuCompletesTimed
  BY <1>2, <1>7, CompletionKeepsSlices DEF GpuCompletesTimed, timingVars, TimingTypeOK
<1>8. CASE ExitTimed
  <2>1. commands' \in [Images -> SUBSET Passes] /\ timestamps' = timestamps
    BY <1>8 DEF ExitTimed
  <2>. QED
    BY <1>2, <1>8, <2>1, NewPoolKeepsSlices
<1>9. CASE UNCHANGED instrumentedVars
  <2>1. UNCHANGED << timingVars, queryVars, submitted, imageCount, acquired, pc, resume >>
    BY <1>9 DEF instrumentedVars, allVars, vars, syncVars, hostVars, deviceVars
  <2>2. \A i : SliceInUse(i)' <=> SliceInUse(i)
    BY <2>1 DEF SliceInUse
  <2>3. SliceInv'
    BY <2>1, <2>2, SlicesKept DEF TimingIInv
  <2>. QED
    BY <1>2, <2>1, <2>3 DEF timingVars, queryVars, TimingTypeOK
<1>. QED
  BY <1>3, <1>4, <1>5, <1>6, <1>7, <1>8, <1>9 DEF TimingLoopNext

\* The inductive invariant holds in every reachable state.
THEOREM TimingInductive == TimingLoopSpec => []TimingIInv
<1>. QED
  BY InitTimingIInv, NextTimingIInv, PTL DEF TimingLoopSpec

-----------------------------------------------------------------------------

\* Every readback exports the timestamps of one completed frame, once, under the
\* mask of the passes that frame timed.
THEOREM ReadbacksMeasureOneFrame == TimingLoopSpec => []ReadsMeasureOneFrame
<1>1. TimingIInv => ReadsMeasureOneFrame
  <2>. SUFFICES ASSUME TimingIInv, pc = "waitImage", ImageFenceSignaled, ReadsSlice(acquired)
                PROVE  /\ queries[acquired].state = "unread"
                       /\ queries[acquired].passes = passMask[acquired]
    BY DEF ReadsMeasureOneFrame
  <2>1. acquired \in Images
    BY DEF TimingIInv, CaptureIInv, LoopInv, FrameInv, InFrame
  \* a pending submission of the image would keep the fence it names unsignaled
  <2>2. \A s \in submitted : s[1] # acquired
    BY ConstantsAssumption
       DEF ImageFenceSignaled, TimingIInv, CaptureIInv, LoopInv, PendingInv, TypeOK,
           DeviceTypeOK, Frames
  <2>3. ~ SliceInUse(acquired)
    BY DEF SliceInUse
  <2>4. supported /\ sliceRecorded[acquired]
    BY DEF ReadsSlice
  <2>5. queries[acquired] = [state |-> "unread", passes |-> passMask[acquired]]
    BY <2>1, <2>2, <2>3, <2>4 DEF TimingIInv, SliceInv
  <2>. QED
    BY <2>5
<1>. QED
  BY <1>1, TimingInductive, PTL

\* What a readback shows of a pass was measured in the frame it read, or before
\* and by every frame read since.
THEOREM ShownPassesAreMeasured == TimingLoopSpec => ShownPassIsMeasured
<1>1. ASSUME TimingIInv, TimingIInv', [TimingLoopNext]_instrumentedVars,
             pc = "waitImage", pc' = "record", queries' # queries
      PROVE  \A p \in Passes : passShown'[p] => p \in passMask[acquired] /\ averageCount'[p] > 0
  <2>1. WaitImageAndReadTimings
    BY <1>1 DEF TimingLoopNext, queryVars, instrumentedVars, RecordTimedFrame,
                RecordFrameWithCopy, RecordFrameWithoutCopy, RecordFrame, RecreateTimed,
                RecreateCaptured, RecreateSwapChain, GpuCompletesTimed, GpuCompletesInOrder,
                GpuCompletes, ExitTimed, ExitCaptured, Exit, Goto, hostVars
  <2>2. ReadSlice(acquired, Available(acquired))
    BY <1>1, <2>1 DEF WaitImageAndReadTimings
  <2>. QED
    BY <1>1, <2>2 DEF ReadSlice, TimingIInv, SliceInv
<1>2. TimingIInv /\ TimingIInv' /\ [TimingLoopNext]_instrumentedVars =>
        [pc = "waitImage" /\ pc' = "record" /\ queries' # queries =>
           \A p \in Passes : passShown'[p] => p \in passMask[acquired] /\ averageCount'[p] > 0
        ]_instrumentedVars
  BY <1>1
<1>. QED
  BY <1>2, TimingInductive, PTL DEF TimingLoopSpec, ShownPassIsMeasured

=============================================================================

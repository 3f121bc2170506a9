----------------------------- MODULE TimingLoop -----------------------------
(***************************************************************************)
(* GPU timings inside the frame loop with its captures: the slice of the   *)
(* acquired image is read after the wait for the image's fence and reset   *)
(* by the command buffer recorded next; recreateSwapChain() recreates the  *)
(* query pool and drops the fence of a capture.  Both instruments work on  *)
(* the same submissions, and the frame they are torn down after.           *)
(***************************************************************************)
EXTENDS CaptureLoop, GpuTiming

CONSTANT OneInstrument  \* bound: no machine has both timestamps and captures

ASSUME OneInstrumentAssumption == OneInstrument \in BOOLEAN

VARIABLES
  timestamps,  \* the queue family and the device measure timestamps
  commands,    \* the timed passes in each image's command buffer
  queries      \* GPU: the slice of each image - its state, and the passes whose
               \* timestamps the last submission to execute wrote to it

queryVars == << timestamps, commands, queries >>
instrumentedVars == << allVars, timingVars, queryVars >>

\* A slice is "undefined" in a new pool and "unread" once a submission wrote it;
\* it is "read" when readTimings() has exported its samples.
Slice == [state : {"undefined", "unread", "read"}, passes : SUBSET Passes]

TimingLoopTypeOK ==
  /\ CaptureLoopTypeOK
  /\ TimingTypeOK
  /\ timestamps \in BOOLEAN
  /\ commands \in [Images -> SUBSET Passes]
  /\ queries \in [Images -> Slice]

NewPool == [i \in Images |-> [state |-> "undefined", passes |-> {}]]

TimingLoopInit ==
  /\ CaptureLoopInit
  /\ timestamps \in BOOLEAN
  /\ OneInstrument => ~(timestamps /\ transferSrc)
  /\ supported \in BOOLEAN /\ (supported => timestamps)
  /\ slices = IF supported THEN imageCount ELSE 0
  /\ passMask = [i \in Images |-> {}]
  /\ sliceRecorded = [i \in Images |-> FALSE]
  /\ averageCount = [p \in Passes |-> 0]
  /\ passShown = [p \in Passes |-> FALSE]
  /\ commands = [i \in Images |-> {}]
  /\ queries = NewPool

\* The queries whose result getQueryPoolResults() reports as available.
Available(image) ==
  IF queries[image].state = "undefined" THEN {} ELSE queries[image].passes

\* readTimings() of the acquired image; a failed readback publishes nothing.
WaitImageAndReadTimings ==
  /\ WaitImageFence
  /\ IF ReadsSlice(acquired)
       THEN \/ /\ ReadSlice(acquired, Available(acquired))
               /\ queries' = [queries EXCEPT ![acquired].state = "read"]
            \/ UNCHANGED << timingVars, queries >>
       ELSE UNCHANGED << timingVars, queries >>
  /\ UNCHANGED << captureVars, loopVars, timestamps, commands >>

\* record_commands() resets the slice, times the enabled passes and records the
\* copy of an armed capture.
RecordTimedFrame ==
  /\ RecordFrameWithCopy \/ RecordFrameWithoutCopy
  /\ \E enabled \in SUBSET OptionalPasses :
       LET timed == IF supported THEN FixedPasses \cup enabled ELSE {}
       IN  /\ commands' = [commands EXCEPT ![acquired] = timed]
           /\ SetPassRecordedMask(acquired, timed)
  /\ UNCHANGED << timestamps, queries >>

RecreateTimed ==
  /\ RecreateCaptured
  /\ CreateTiming(imageCount, imageCount')
  /\ supported' => timestamps
  /\ queries' = NewPool
  /\ UNCHANGED << timestamps, commands >>

GpuCompletesTimed ==
  /\ GpuCompletesInOrder
  /\ LET image == Head(queue)[1]
     IN  queries' = IF supported
           THEN [queries EXCEPT ![image] = [state |-> "unread", passes |-> commands[image]]]
           ELSE queries
  /\ UNCHANGED << timingVars, timestamps, commands >>

\* VulkanRenderer::cleanUp() destroys the pool and the command buffers.
ExitTimed ==
  /\ ExitCaptured
  /\ DestroyTiming
  /\ queries' = NewPool
  /\ commands' = [i \in Images |-> {}]
  /\ UNCHANGED timestamps

TimingLoopNext ==
  \/ CaptureSteps /\ UNCHANGED << timingVars, queryVars >>
  \/ WaitImageAndReadTimings \/ RecordTimedFrame \/ RecreateTimed
  \/ GpuCompletesTimed \/ ExitTimed

TimingLoopSpec == TimingLoopInit /\ [][TimingLoopNext]_instrumentedVars

-----------------------------------------------------------------------------

\* What readTimings() reads was written by a completed submission, is read for
\* the first time, and the host's mask names exactly the passes it timed: no
\* frame is exported twice, and no stale or undefined query is.
ReadsMeasureOneFrame ==
  pc = "waitImage" /\ ImageFenceSignaled /\ ReadsSlice(acquired) =>
    /\ queries[acquired].state = "unread"
    /\ queries[acquired].passes = passMask[acquired]

\* After a readback a pass is shown with a time only if the frame read recorded
\* it and its average has samples: a pass that was switched off does not keep
\* showing its last time.
ShownPassIsMeasured ==
  [][pc = "waitImage" /\ pc' = "record" /\ queries' # queries =>
       \A p \in Passes : passShown'[p] => p \in passMask[acquired] /\ averageCount'[p] > 0
    ]_instrumentedVars

(***************************************************************************)
(* The inductive invariant behind them.                                    *)
(***************************************************************************)

\* The image's slice has been read for a frame that is not submitted yet, or a
\* recreation will replace the pool before any slice is read again.
SliceInUse(i) ==
  \/ acquired = i /\ pc \in {"record", "resetFence", "submit"}
  \/ pc = "recreate" /\ resume = "return"
  \/ pc \in {"stopped", "exited"}

\* The command buffer of a recorded slice times what the host's mask says, and
\* once its submission has completed the slice holds just that, unread.
SliceInv ==
  /\ slices = IF supported THEN imageCount ELSE 0
  /\ \A i \in Images : supported /\ sliceRecorded[i] =>
       /\ commands[i] = passMask[i]
       /\ (\A s \in submitted : s[1] # i) /\ ~SliceInUse(i) =>
            queries[i] = [state |-> "unread", passes |-> passMask[i]]
  /\ \A p \in Passes : passShown[p] => averageCount[p] > 0

TimingIInv == CaptureIInv /\ TimingLoopTypeOK /\ SliceInv

=============================================================================

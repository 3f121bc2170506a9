------------------------------ MODULE GpuTiming ------------------------------
(***************************************************************************)
(* Per-pass GPU timings (renderer/GpuTimingSubsystem.ixx): one slice of    *)
(* timestamp queries per swapchain image, written by the image's command   *)
(* buffer and read back at the image's next use.  A measured time is       *)
(* abstracted to the fact that there is one.                               *)
(***************************************************************************)
EXTENDS FrameSync

CONSTANTS
  OptionalPasses,  \* passes the user can switch off: clouds, shadow cascades
  FixedPasses,     \* passes every frame records: main, sky, post
  Window           \* GpuPassAverage::WINDOW, 30 in the program

ASSUME TimingAssumption ==
  OptionalPasses \cap FixedPasses = {} /\ Window \in Nat \ {0}

Passes == OptionalPasses \cup FixedPasses

VARIABLES
  supported,      \* gpu_timings_supported, and the query pool exists
  slices,         \* size of the query pool and of the per-image vectors
  passMask,       \* gpu_timing_pass_mask[image]
  sliceRecorded,  \* gpu_timing_slice_recorded[image]
  averageCount,   \* gpu_pass_averages[pass].count
  passShown       \* gpuTimings.pass_ms[pass] is a time and not -1

timingVars == << supported, slices, passMask, sliceRecorded, averageCount, passShown >>

TimingTypeOK ==
  /\ supported \in BOOLEAN
  /\ slices \in 0 .. MaxImages
  /\ passMask \in [Images -> SUBSET Passes]
  /\ sliceRecorded \in [Images -> BOOLEAN]
  /\ averageCount \in [Passes -> 0 .. Window]
  /\ passShown \in [Passes -> BOOLEAN]

\* What create() leaves.  Without timestamps, or when the pool could not be
\* created, the vectors stay empty.
CreatedTiming(isSupported, imageCount) ==
  /\ supported' = isSupported
  /\ slices' = IF isSupported THEN imageCount ELSE 0
  /\ passMask' = [i \in Images |-> {}]
  /\ sliceRecorded' = [i \in Images |-> FALSE]
  /\ averageCount' = [p \in Passes |-> 0]
  /\ passShown' = [p \in Passes |-> FALSE]

CreateTiming(oldCount, newCount) == \E ok \in BOOLEAN : CreatedTiming(ok, newCount)

\* destroy(), called by cleanUp(): the pool goes, what was shown stays.
DestroyTiming ==
  /\ supported' = FALSE
  /\ slices' = 0
  /\ passMask' = [i \in Images |-> {}]
  /\ sliceRecorded' = [i \in Images |-> FALSE]
  /\ UNCHANGED << averageCount, passShown >>

\* readTimings() reads only a slice that was recorded since the pool exists.
ReadsSlice(image) == supported /\ image < slices /\ sliceRecorded[image]

\* Faulty variant: a pass that was not recorded keeps its average.
ReadSliceKeepingDisabled(image, available) ==
  /\ averageCount' = [p \in Passes |->
       IF p \in passMask[image] \cap available /\ averageCount[p] < Window
         THEN averageCount[p] + 1 ELSE averageCount[p]]
  /\ passShown' = [p \in Passes |-> passShown[p] \/ p \in passMask[image] \cap available]
  /\ UNCHANGED << supported, slices, passMask, sliceRecorded >>

\* A pass the frame did not record is shown as inactive and loses its history;
\* one whose queries are not available keeps what was shown.
ReadSlice(image, available) ==
  /\ averageCount' = [p \in Passes |->
       IF p \notin passMask[image] THEN 0
       ELSE IF p \in available /\ averageCount[p] < Window THEN averageCount[p] + 1
       ELSE averageCount[p]]
  /\ passShown' = [p \in Passes |->
       p \in passMask[image] /\ (p \in available \/ passShown[p])]
  /\ UNCHANGED << supported, slices, passMask, sliceRecorded >>

\* setPassRecordedMask()
SetPassRecordedMask(image, passes) ==
  /\ IF supported /\ image < slices
       THEN /\ passMask' = [passMask EXCEPT ![image] = passes]
            /\ sliceRecorded' = [sliceRecorded EXCEPT ![image] = TRUE]
       ELSE UNCHANGED << passMask, sliceRecorded >>
  /\ UNCHANGED << supported, slices, averageCount, passShown >>

=============================================================================

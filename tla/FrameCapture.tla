---------------------------- MODULE FrameCapture ----------------------------
(***************************************************************************)
(* Headless frame capture (renderer/FrameCapture.ixx): request() arms a    *)
(* copy, record() puts it into the next recorded frame, bindSubmitFence()  *)
(* ties it to that frame's fence, take() waits for the fence and reads the *)
(* host-visible staging buffer.  An image's extent is abstracted to the    *)
(* number of bytes a copy of it needs.                                     *)
(***************************************************************************)
EXTENDS FrameSync

CONSTANTS
  MaxExtent,  \* bound on the extent of the swapchain images
  Dangling    \* a handle of a fence that was destroyed

ASSUME CaptureAssumption ==
  MaxExtent \in Nat \ {0} /\ Dangling \notin Nat /\ Dangling # None

VARIABLES
  armed,         \* a capture was requested and not recorded yet
  pending,       \* a copy was recorded and its pixels not taken yet
  captureFence,  \* fence: the frame whose fence take() waits for, or None
  bufferSize,    \* buffer_size
  mapped,        \* buffer.getMappedData() # nullptr
  capturedSize,  \* width and height of the recorded copy
  staging        \* which copy the buffer holds: "nothing", or the "latest"
                 \* recorded or an "older" one

captureVars == << armed, pending, captureFence, bufferSize, mapped, capturedSize, staging >>

CaptureTypeOK ==
  /\ armed \in BOOLEAN
  /\ pending \in BOOLEAN
  /\ captureFence \in Frames \cup {None, Dangling}
  /\ bufferSize \in 0 .. MaxExtent
  /\ mapped \in BOOLEAN
  /\ capturedSize \in 0 .. MaxExtent
  /\ staging \in {"nothing", "older", "latest"}

CaptureInit ==
  /\ armed = FALSE /\ pending = FALSE
  /\ captureFence = None
  /\ bufferSize = 0 /\ mapped = FALSE /\ capturedSize = 0
  /\ staging = "nothing"

Request ==
  /\ armed' = TRUE
  /\ pending' = FALSE
  /\ captureFence' = None
  /\ UNCHANGED << bufferSize, mapped, capturedSize, staging >>

\* The swapchain stopped supporting captures, or has no extent.
RecordUnsupported ==
  /\ armed' = FALSE
  /\ UNCHANGED << pending, captureFence, bufferSize, mapped, capturedSize, staging >>

\* The staging buffer is replaced by a larger one when the extent outgrew it,
\* and then the copy is recorded into it.
RecordCopy(extent) ==
  /\ armed' = FALSE
  /\ IF bufferSize < extent
       THEN /\ bufferSize' = extent
            /\ mapped' = TRUE
            /\ staging' = "nothing"
       ELSE /\ mapped
            /\ staging' = IF staging = "latest" THEN "older" ELSE staging
            /\ UNCHANGED << bufferSize, mapped >>
  /\ pending' = TRUE
  /\ captureFence' = None
  /\ capturedSize' = extent

\* The replacement could not be allocated or mapped: the copy is skipped.  The
\* recorded size says otherwise, so the allocation is not tried again.
RecordUnmapped(extent) ==
  /\ armed' = FALSE
  /\ IF bufferSize < extent
       THEN bufferSize' = extent /\ mapped' = FALSE /\ staging' = "nothing"
       ELSE ~mapped /\ UNCHANGED << bufferSize, mapped, staging >>
  /\ UNCHANGED << pending, captureFence, capturedSize >>

\* Faulty variant: the frame is submitted and its fence not remembered.
SubmitUnbound(frame) == UNCHANGED captureVars

\* While a capture waits to be taken, every submitted frame rebinds it.
BindSubmitFence(frame) ==
  /\ captureFence' = IF pending THEN frame ELSE captureFence
  /\ UNCHANGED << armed, pending, bufferSize, mapped, capturedSize, staging >>

\* Faulty variant: the handle is kept although its fence is destroyed.
KeepFence ==
  /\ captureFence' = IF captureFence = None THEN None ELSE Dangling
  /\ UNCHANGED << armed, pending, bufferSize, mapped, capturedSize, staging >>

InvalidateFence ==
  /\ captureFence' = None
  /\ UNCHANGED << armed, pending, bufferSize, mapped, capturedSize, staging >>

\* cleanUp(): the staging buffer is gone, and nothing is armed or pending.
CleanUpCapture ==
  /\ armed' = FALSE /\ pending' = FALSE
  /\ captureFence' = None
  /\ bufferSize' = 0 /\ mapped' = FALSE /\ capturedSize' = 0
  /\ staging' = "nothing"

\* take(), once the wait for the fence (if any) is over.
Take ==
  /\ pending
  /\ pending' = FALSE
  /\ UNCHANGED << armed, captureFence, bufferSize, mapped, capturedSize, staging >>

\* A copy executed on the GPU: `copy` says which.
Staged(copy) ==
  /\ staging' = copy
  /\ UNCHANGED << armed, pending, captureFence, bufferSize, mapped, capturedSize >>

=============================================================================

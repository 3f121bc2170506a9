----------------------------- MODULE FrameSync -----------------------------
(***************************************************************************)
(* The synchronization primitives of the renderer                          *)
(* (renderer/FrameSync.ixx).  Two sizings live side by side: acquire       *)
(* semaphores and in-flight fences are kept per frame in flight, render-   *)
(* finished semaphores and "which fence guards this image" are kept per    *)
(* swapchain image.  A C++ vector that is shorter than its TLA+ function   *)
(* holds "null" (handles) or None (copied fence handles) in the rest.      *)
(***************************************************************************)
EXTENDS Integers

CONSTANTS
  MaxFrameDraws, \* MAX_FRAME_DRAWS (common/Globals.hpp), 3 in the program
  MaxImages,     \* bound on the image count a swapchain is created with
  None           \* the null fence handle, and "no image"

ASSUME ConstantsAssumption ==
  /\ MaxFrameDraws \in Nat \ {0}
  /\ MaxImages \in Nat \ {0}
  /\ None \notin Nat
  /\ None # {}

VARIABLES
  frameSyncCount,  \* frame_sync_count: frames in flight, 0 after a failed create
  syncImages,      \* size of the two per-image vectors
  currentFrame,    \* current_frame
  imageAvailable,  \* image_available[frame]: payload of the acquire semaphore
  inFlightFences,  \* in_flight_fences[frame]: state of the fence
  renderFinished,  \* render_finished_by_image[image]: payload of the semaphore
  imagesInFlight   \* images_in_flight_fences[image]: the frame whose fence it is

syncVars == << frameSyncCount, syncImages, currentFrame, imageAvailable,
               inFlightFences, renderFinished, imagesInFlight >>

Frames == 0 .. MaxFrameDraws - 1
Images == 0 .. MaxImages - 1

\* The binary payload of a semaphore or fence, or no object at all.
Handle == {"null", "unsignaled", "signaled"}

SyncTypeOK ==
  /\ frameSyncCount \in 0 .. MaxFrameDraws
  /\ syncImages \in 0 .. MaxImages
  /\ currentFrame \in Frames
  /\ imageAvailable \in [Frames -> Handle]
  /\ inFlightFences \in [Frames -> Handle]
  /\ renderFinished \in [Images -> Handle]
  /\ imagesInFlight \in [Images -> Frames \cup {None}]

(***************************************************************************)
(* Operations.                                                             *)
(***************************************************************************)

\* resetAndSize(): as many frames in flight as the swapchain has images, but
\* never more than MAX_FRAME_DRAWS.
FramesFor(imageCount) ==
  IF imageCount < MaxFrameDraws THEN imageCount ELSE MaxFrameDraws

\* The vectors create() leaves for a given sizing; sized 0 by cleanUp().
Sized(frames, images) ==
  /\ frameSyncCount' = frames
  /\ syncImages' = images
  /\ imageAvailable' = [f \in Frames |-> IF f < frames THEN "unsignaled" ELSE "null"]
  /\ inFlightFences' = [f \in Frames |-> IF f < frames THEN "signaled" ELSE "null"]
  /\ renderFinished' = [i \in Images |-> IF i < images THEN "unsignaled" ELSE "null"]
  /\ imagesInFlight' = [i \in Images |-> None]

\* Faulty variant: the per-image vectors sized by the frames in flight.
CreateSyncPerFrame(imageCount) == Sized(FramesFor(imageCount), FramesFor(imageCount))

\* create(): every primitive recreated, fences born signaled.
CreateSync(imageCount) == Sized(FramesFor(imageCount), imageCount)

\* create() when a createSemaphore/createFence fails: whatever was created is
\* destroyed again and frame_sync_count stays 0.
CreateSyncFails == Sized(0, 0)

\* Faulty variant: the usual per-frame render-finished semaphore.
RenderFinishedPerFrame(image, frame) == frame

\* renderFinishedSemaphore(image_index): keyed by image, not by frame in flight.
RenderFinishedKey(image, frame) == image

\* advanceFrame(), from the current_frame the caller sees.
NextFrame(frame, frames) == IF frames = 0 THEN 0 ELSE (frame + 1) % frames

=============================================================================

------------------------------- MODULE Swapchain -------------------------------
(***************************************************************************)
(* The presenting half of the Vulkan device                                *)
(* (src/runtime/rhi/vulkan/rhi_vulkan_device.cpp): kFrames sets of         *)
(* command pool, descriptor pool and acquire semaphore used in turn, one   *)
(* queue the device completes in order, a timeline semaphore that says how *)
(* far it is, and a swapchain rebuilt when it no longer matches the        *)
(* surface. One thread calls the device; the operators below are the       *)
(* pieces of its functions between two waits, and NativePresent puts them  *)
(* in the order the code does.                                             *)
(*                                                                         *)
(* A timeline value is kept relative to the queue: the submits still to    *)
(* complete up to and including the one it names, 0 once that is done.     *)
(* The driver, the device and the window system are external.              *)
(*                                                                         *)
(* The operators named Bug... are plausible mistakes the properties are    *)
(* tested against; nothing in a specification uses them.                   *)
(***************************************************************************)
EXTENDS Integers, Sequences

CONSTANTS
  kFrames,  \* frames in flight
  Images,   \* the images of a swapchain
  Sizes,    \* sizes a window may have
  Start,    \* the one it has first
  None      \* no size, no image, no semaphore, nothing

ASSUME FramesAssumption == kFrames \in Nat \ {0} /\ None \notin Nat
ASSUME ImagesAssumption == Images # {} /\ None \notin Images
ASSUME SizesAssumption  == None \notin Sizes /\ Start \in Sizes

VARIABLES
  queue,         \* the submits not completed yet
  frames,        \* Frame::timeline of each frame
  frame_index,
  chain,         \* the size of m_swapchain, None without one
  asked,         \* m_surface_width and m_surface_height
  dirty,         \* m_swapchain_dirty
  acquired,      \* m_acquired, as the frame the semaphore belongs to
  backbuffer,    \* m_backbuffer_index
  present_image, \* m_present_image
  ours,          \* the images acquired and not handed back
  surface,       \* "sized" when the surface has an extent of its own,
                 \*   "free" when the swapchain decides it
  window         \* the real window: its size, and whether it is up

deviceVars == <<queue, frames, frame_index>>
chainVars  == <<chain, asked, dirty>>
imageVars  == <<acquired, backbuffer, present_image, ours>>
swapVars   == <<deviceVars, chainVars, imageVars>>

Frames == 0..(kFrames - 1)

\* What a submit waits for, draws into and reads until it completes: the
\* latched picture, and the backbuffer it copies for a screenshot.
Batch == [frame : Frames \cup {None}, acquire : Frames \cup {None},
          image : Images \cup {None}, picture : BOOLEAN, shot : BOOLEAN]

Done(value) == value = 0
Idle        == queue = <<>>                    \* vkDeviceWaitIdle returns
Queued      == {queue[i] : i \in 1..Len(queue)}

\* A timeline value once one more submit has completed.
Closer(value) == IF value = 0 THEN 0 ELSE value - 1

-----------------------------------------------------------------------------
(* Submission *)

BugFrameDone == TRUE

\* begin_command_list's wait(f.timeline): the last submit made with this
\* frame has completed, its pools can be reset.
FrameDone == Done(frames[frame_index])

\* submit: an acquired image is drawn into, and its semaphore waited for, by
\* the list that touches the swapchain, whichever frame acquired it. The
\* submit is the last of the queue, its timeline value the new length.
SubmitValue == Len(queue) + 1
Submit(touches, picture, shot) ==
  LET presents == touches /\ backbuffer # None /\ acquired # None
  IN  /\ queue' = Append(queue, [frame |-> frame_index,
                                 acquire |-> IF presents THEN acquired ELSE None,
                                 image |-> IF presents THEN backbuffer ELSE None,
                                 picture |-> picture, shot |-> shot])
      /\ frames' = [frames EXCEPT ![frame_index] = SubmitValue]
      /\ frame_index' = (frame_index + 1) % kFrames
      /\ acquired' = IF presents THEN None ELSE acquired
      /\ present_image' = IF presents THEN backbuffer ELSE present_image
      /\ UNCHANGED <<backbuffer, ours>>

-----------------------------------------------------------------------------
(* The swapchain *)

\* vkGetPhysicalDeviceSurfaceCapabilitiesKHR: the extent of the surface, or
\* what the caller asks for on a surface without one.
Extent ==
  IF surface = "free" THEN asked ELSE IF window.up THEN window.size ELSE None

NotifyResize(size) == asked' = size /\ dirty' = TRUE /\ UNCHANGED chain
SetPresentMode     == dirty' = TRUE /\ UNCHANGED <<chain, asked>>

MustRebuild == dirty \/ chain = None

\* acquire_backbuffer's rebuild: wait for the device, destroy_swapchain, then
\* create_swapchain, which leaves none behind on a surface without an extent.
\* The retired handle and its release semaphores are left out.
Rebuild ==
  /\ Idle
  /\ chain' = Extent
  /\ asked' = Extent
  /\ dirty' = (Extent = None)
  /\ ours' = {}
  /\ acquired' = None /\ backbuffer' = None /\ present_image' = None
  /\ UNCHANGED deviceVars

\* What the driver may answer: a swapchain of the surface's own size works,
\* another one may do, be suboptimal or be out of date.
Matches == surface = "free" \/ (window.up /\ chain = window.size)
Answers == IF Matches THEN {"success"} ELSE {"success", "suboptimal", "out_of_date"}

\* vkAcquireNextImageKHR with this frame's semaphore, past the wait for its
\* last submit. It blocks until the presentation engine has given an image
\* back, which it may once the submit that draws it is complete.
AcquireNextImage(answer) ==
  /\ FrameDone
  /\ answer \in Answers
  /\ \/ answer = "out_of_date"
        /\ dirty' = TRUE
        /\ UNCHANGED imageVars
     \/ answer # "out_of_date"
        /\ \E i \in Images :
             /\ i \notin ours
             /\ \A b \in Queued : b.image # i
             /\ ours' = ours \cup {i}
             /\ backbuffer' = i
        /\ acquired' = frame_index
        /\ UNCHANGED <<dirty, present_image>>
  /\ UNCHANGED <<deviceVars, chain, asked>>

\* drain_acquire's empty submit, which takes the signal off the semaphore of
\* an image nothing was drawn into.
DrainAcquire ==
  /\ queue' = Append(queue, [frame |-> None, acquire |-> acquired, image |-> None,
                             picture |-> FALSE, shot |-> FALSE])
  /\ acquired' = None
  /\ UNCHANGED <<frames, frame_index, chain, asked, dirty,
                 backbuffer, present_image, ours>>

BugAbandon ==
  /\ Idle
  /\ backbuffer' = None
  /\ UNCHANGED <<deviceVars, chainVars, acquired, present_image, ours>>

\* acquire_backbuffer gives the suboptimal image up; the rebuild takes it back.
Abandon ==
  /\ Idle
  /\ backbuffer' = None
  /\ dirty' = TRUE
  /\ UNCHANGED <<deviceVars, chain, asked, acquired, present_image, ours>>

\* present: vkQueuePresentKHR and what its answer asks for.
Present(answer) ==
  /\ answer \in Answers
  /\ dirty' = (dirty \/ answer # "success")
  /\ ours' = ours \ {present_image}
  /\ backbuffer' = None /\ present_image' = None
  /\ UNCHANGED <<deviceVars, chain, asked, acquired>>

-----------------------------------------------------------------------------
\* The device completes the oldest submit.
Completes ==
  /\ queue # <<>>
  /\ queue' = Tail(queue)
  /\ frames' = [f \in Frames |-> Closer(frames[f])]
  /\ UNCHANGED frame_index

SwapInit ==
  /\ queue = <<>> /\ frames = [f \in Frames |-> 0] /\ frame_index = 0
  /\ dirty = FALSE
  /\ acquired = None /\ backbuffer = None /\ present_image = None
  /\ ours = {}
  /\ surface \in {"sized", "free"}
  /\ window = [size |-> Start, up |-> TRUE]
  /\ chain = Start /\ asked = Start

SwapTypeOK ==
  /\ queue \in Seq(Batch)
  /\ frames \in [Frames -> Nat] /\ frame_index \in Frames
  /\ chain \in Sizes \cup {None} /\ asked \in Sizes \cup {None} /\ dirty \in BOOLEAN
  /\ acquired \in Frames \cup {None}
  /\ backbuffer \in Images \cup {None} /\ present_image \in Images \cup {None}
  /\ ours \subseteq Images
  /\ surface \in {"sized", "free"} /\ window \in [size : Sizes, up : BOOLEAN]
=============================================================================

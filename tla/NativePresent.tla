----------------------------- MODULE NativePresent -----------------------------
(***************************************************************************)
(* How a field reaches the window with the native renderer on Vulkan:      *)
(* the EE thread, which is also the one that may call the window system,   *)
(* runs the field hook (rt_gs_vsync_hook), records calls for the GS worker *)
(* and takes screenshots back (host/screenshot.cpp); the worker replays    *)
(* them into NativeBackend (gs/render/gs_native.cpp), which scans a field  *)
(* out, latches it, presents it and repeats it.                            *)
(*                                                                         *)
(* The ring between the two threads is the queue GsRing implements. The    *)
(* launcher's present_ui, the D3D12 and Metal devices, and the pixels are  *)
(* left out; of a captured image only how old it is is kept.               *)
(*                                                                         *)
(* The operators named Bug... are the plausible mistakes the properties    *)
(* are tested against; nothing in the specification uses them.             *)
(***************************************************************************)
EXTENDS Swapchain

CONSTANTS
  Repeats,    \* display.present_rate is set: the worker presents between fields
  MaxEvents   \* bound: what the player and the window system do, all together

ASSUME RepeatsAssumption == Repeats \in BOOLEAN
ASSUME MaxEventsAssumption == MaxEvents \in Nat

Shots == {"pre", "post"}   \* RT_PGS_SHOT_PRE and RT_PGS_SHOT_POST

VARIABLES
  epc,           \* the EE thread: where it is
  event,         \* SDL has a resize event queued
  cached,        \* g_surface_w and g_surface_h
  resize,        \* g_resize_pending
  requested,     \* g_requested
  armed, pair,   \* g_armed, and whether g_armed_slots is two
  checked,       \* g_overlay_checked
  ring,          \* the records the worker has not replayed
  unfinished,    \* m_vsync_seq - m_vsync_done
  wpc,           \* the worker: where it is
  have_frame,    \* m_have_frame
  newer,         \* m_frame_serial # m_presented_serial
  shot_slots,    \* m_shot_slots
  shot,          \* m_shot: the age and the timeline value of each, or None
  ready,         \* m_shot_ready: the age of each published image, or None
  left           \* events the environment may still cause

windowVars  == <<event, cached, resize>>
shotVars    == <<requested, armed, pair, checked>>
captureVars == <<shot_slots, shot, ready>>
fieldVars   == <<have_frame, newer>>
eeVars      == <<epc, windowVars, shotVars>>
workerVars  == <<wpc, fieldVars, captureVars>>
vars == <<swapVars, surface, window, eeVars, ring, unfinished, workerVars, left>>

(***************************************************************************)
(* The age of a captured image: "last" while no other present has been     *)
(* submitted since the one it is a copy of, then "older", and "stale" once *)
(* a new capture is asked for while it is "older".                         *)
(***************************************************************************)
Age  == {"last", "older", "stale"}
Shot == [age : Age, timeline : Nat]
ASSUME NoShotAssumption == None \notin Age \cup Shot

Older(age) == IF age = "last" THEN "older" ELSE age
Stale(age) == IF age = "older" THEN "stale" ELSE age
OlderShots == [s \in Shots |-> IF shot[s] = None THEN None
                               ELSE [shot[s] EXCEPT !.age = Older(@)]]
OlderReady == [s \in Shots |-> IF ready[s] = None THEN None ELSE Older(ready[s])]
StaleReady == [s \in Shots |-> IF ready[s] = None THEN None ELSE Stale(ready[s])]
StaleShots == [s \in Shots |-> IF shot[s] = None THEN None
                               ELSE [shot[s] EXCEPT !.age = Stale(@)]]

-----------------------------------------------------------------------------
(* The window and the player: external *)

Event == left > 0 /\ left' = left - 1

\* Only a restore to the size the window had may go without an event.
WindowChanges ==
  /\ Event
  /\ \/ \E s \in Sizes \ {window.size} :
          window' = [size |-> s, up |-> TRUE] /\ event' = TRUE
     \/ /\ window' = [window EXCEPT !.up = ~@]
        /\ event' \in {event, TRUE}
  /\ UNCHANGED <<swapVars, surface, epc, cached, resize, shotVars, ring, unfinished,
                 workerVars>>

\* rt_screenshot_request, from the hotkey the pump delivers or from the menu.
Press ==
  /\ Event /\ epc = "pump"
  /\ requested' = TRUE
  /\ UNCHANGED <<swapVars, surface, window, epc, windowVars, armed, pair, checked, ring,
                 unfinished, workerVars>>

-----------------------------------------------------------------------------
(* The EE thread: the window pump *)

AtEE(from, to) == epc = from /\ epc' = to
Record(op)     == ring' = Append(ring, op)
Surface        == IF window.up THEN window.size ELSE None

BugSeeResize ==
  /\ AtEE("pump", "notify") /\ event
  /\ event' = FALSE
  /\ UNCHANGED <<swapVars, surface, window, cached, resize, shotVars, ring, unfinished,
                 workerVars, left>>

\* rt_window_notify_resize: refresh the cache first, then raise the flag. The
\* pump also runs while field_sync waits; there the event stays queued and is
\* seen once more, to the same effect.
SeeResize ==
  /\ AtEE("pump", "notify") /\ event
  /\ event' = FALSE
  /\ cached' = Surface
  /\ UNCHANGED <<swapVars, surface, window, resize, shotVars, ring, unfinished,
                 workerVars, left>>

NotifyWorker ==
  /\ AtEE("notify", "pump")
  /\ resize' = TRUE
  /\ UNCHANGED <<swapVars, surface, window, event, cached, shotVars, ring, unfinished,
                 workerVars, left>>

BugSampleState ==
  /\ AtEE("pump", "tick") /\ ~event
  /\ cached' = Surface
  /\ UNCHANGED <<swapVars, surface, window, event, resize, shotVars, ring, unfinished,
                 workerVars, left>>

\* rt_window_sample_state ends every pump. The field hook goes on from the
\* pump once field_sync lets it: at most one field is in flight.
SampleState ==
  /\ AtEE("pump", "tick") /\ ~event /\ unfinished < 2
  /\ cached' = Surface
  /\ UNCHANGED <<swapVars, surface, window, event, resize, shotVars, ring, unfinished,
                 workerVars, left>>

\* rt_settings_apply_pending follows, where a setting changes the present mode.
Settings ==
  /\ Event /\ epc = "tick" /\ UNCHANGED epc
  /\ Record("present_mode")
  /\ UNCHANGED <<swapVars, surface, window, windowVars, shotVars, unfinished, workerVars>>

-----------------------------------------------------------------------------
(* The EE thread: rt_screenshot_tick *)

BugDiscardFirst == StaleReady

\* take_screenshot into a buffer empties the slot. A new capture starts with
\* that for both slots (discard_slots), one lock after the other; what is
\* older than the last present by then is stale for this capture.
Taken(slot)  == [ready EXCEPT ![slot] = None]
DiscardFirst == [StaleReady EXCEPT !["pre"] = None]

TickArm ==
  /\ AtEE("tick", "discard_post") /\ requested /\ ~armed
  /\ requested' = FALSE
  /\ ready' = DiscardFirst
  /\ shot' = StaleShots
  /\ UNCHANGED <<swapVars, surface, window, windowVars, armed, pair, checked, ring,
                 unfinished, wpc, fieldVars, shot_slots, left>>

DiscardPost ==
  /\ AtEE("discard_post", "request") \/ AtEE("give_up_post", "ui")
  /\ ready' = Taken("post")
  /\ UNCHANGED <<swapVars, surface, window, windowVars, shotVars, ring, unfinished, wpc,
                 fieldVars, shot_slots, shot, left>>

\* The first capture of the run asks for both copies.
RequestScreenshot ==
  /\ AtEE("request", "query")
  /\ Record(IF checked THEN "shot_1" ELSE "shot_2")
  /\ armed' = TRUE /\ pair' = ~checked /\ checked' = TRUE
  /\ UNCHANGED <<swapVars, surface, window, windowVars, requested, unfinished, workerVars,
                 left>>

TickIdle ==
  /\ epc = "tick" /\ (armed \/ ~requested)
  /\ epc' = IF armed THEN "query" ELSE "ui"
  /\ UNCHANGED <<swapVars, surface, window, windowVars, shotVars, ring, unfinished,
                 workerVars, left>>

\* pull_slot asks for the size first, under its own lock.
Query ==
  /\ epc = "query"
  /\ epc' = IF ready["pre"] = None THEN "missed" ELSE "copy"
  /\ UNCHANGED <<swapVars, surface, window, windowVars, shotVars, ring, unfinished,
                 workerVars, left>>

\* The image may be gone by the copy; what came since is then dropped too.
Copy ==
  /\ epc = "copy"
  /\ armed' = (ready["pre"] = None)
  /\ epc' = IF armed' THEN "drop" ELSE IF pair THEN "copy_post" ELSE "ui"
  /\ ready' = Taken("pre")
  /\ UNCHANGED <<swapVars, surface, window, windowVars, requested, pair, checked, ring,
                 unfinished, wpc, fieldVars, shot_slots, shot, left>>

Drop ==
  /\ AtEE("drop", "missed")
  /\ ready' = Taken("pre")
  /\ UNCHANGED <<swapVars, surface, window, windowVars, shotVars, ring, unfinished, wpc,
                 fieldVars, shot_slots, shot, left>>

\* Without an image the next field polls again, until two seconds are over.
Missed ==
  /\ \/ AtEE("missed", "ui") /\ UNCHANGED armed
     \/ AtEE("missed", "give_up") /\ armed' = FALSE
  /\ UNCHANGED <<swapVars, surface, window, windowVars, requested, pair, checked, ring,
                 unfinished, workerVars, left>>

\* The second copy of the pair, if it is there already.
CopyPost ==
  /\ AtEE("copy_post", "ui")
  /\ ready' = Taken("post")
  /\ UNCHANGED <<swapVars, surface, window, windowVars, shotVars, ring, unfinished, wpc,
                 fieldVars, shot_slots, shot, left>>

GiveUp ==
  /\ AtEE("give_up", "give_up_post")
  /\ ready' = Taken("pre")
  /\ UNCHANGED <<swapVars, surface, window, windowVars, shotVars, ring, unfinished, wpc,
                 fieldVars, shot_slots, shot, left>>

Tick == TickArm \/ DiscardPost \/ RequestScreenshot \/ TickIdle \/ Query \/ Copy
        \/ Drop \/ Missed \/ CopyPost \/ GiveUp

-----------------------------------------------------------------------------
(* The EE thread: the rest of the field hook *)

EndOfField ==
  /\ AtEE("ui", "pump")
  /\ Record("vsync")
  /\ unfinished' = unfinished + 1
  /\ UNCHANGED <<swapVars, surface, window, windowVars, shotVars, workerVars, left>>

EE == SeeResize \/ NotifyWorker \/ SampleState \/ Tick \/ EndOfField

-----------------------------------------------------------------------------
(* The worker: records *)

AtWorker(from, to) == wpc = from /\ wpc' = to
Replay(op) == wpc = "idle" /\ ring # <<>> /\ Head(ring) = op /\ ring' = Tail(ring)

ReplayPresentMode ==
  /\ Replay("present_mode")
  /\ SetPresentMode
  /\ UNCHANGED <<deviceVars, imageVars, surface, window, eeVars, unfinished, workerVars, left>>

\* request_screenshot: what is published belongs to an arm that was given up;
\* a copy not published yet stays.
ReplayRequest ==
  /\ \/ Replay("shot_1") /\ shot_slots' = 1
     \/ Replay("shot_2") /\ shot_slots' = 2
  /\ ready' = [s \in Shots |-> None]
  /\ UNCHANGED <<swapVars, surface, window, eeVars, unfinished, wpc, fieldVars,
                 shot, left>>

\* vsync draws what is still assembled first (gsr_flush_draws). Every submit
\* that is no present is waited for by the call that makes it; as it is the
\* last of the queue, the device is idle then.
ReplayVsync ==
  /\ Replay("vsync")
  /\ wpc' \in {"draw", "plan"}
  /\ UNCHANGED <<swapVars, surface, window, eeVars, unfinished, fieldVars, captureVars, left>>

\* crtc_plan: the field has no picture, one of the frame image's size, or one
\* that needs another frame image.
PlanField ==
  /\ \/ AtWorker("plan", "scan") /\ have_frame' \in BOOLEAN /\ UNCHANGED left
     \/ AtWorker("plan", "refit") /\ have_frame' = TRUE /\ Event
  /\ UNCHANGED <<swapVars, surface, window, eeVars, ring, unfinished, newer, captureVars>>

\* ensure_frame waits for the device, then destroys the old image.
Refit ==
  /\ AtWorker("refit", "destroy") /\ Idle
  /\ UNCHANGED <<swapVars, surface, window, eeVars, ring, unfinished, fieldVars,
                 captureVars, left>>

\* The draws, the new frame image's barrier and the scanout.
SubmitField ==
  /\ \/ AtWorker("draw", "draw_wait")
     \/ AtWorker("destroy", "barrier_wait")
     \/ AtWorker("scan", "scanout_wait")
  /\ FrameDone
  /\ Submit(FALSE, FALSE, FALSE)
  /\ UNCHANGED <<chainVars, surface, window, eeVars, ring, unfinished, fieldVars, captureVars,
                 left>>

FieldWait ==
  /\ AtWorker("draw_wait", "plan") \/ AtWorker("barrier_wait", "scan")
  /\ Idle
  /\ UNCHANGED <<swapVars, surface, window, eeVars, ring, unfinished, fieldVars,
                 captureVars, left>>

\* The field is latched, counted as done for field_sync, then presented.
Latch ==
  /\ AtWorker("scanout_wait", "window") /\ Idle
  /\ newer' = (newer \/ have_frame)
  /\ unfinished' = unfinished - 1
  /\ UNCHANGED <<swapVars, surface, window, eeVars, ring, have_frame,
                 captureVars, left>>

Field == ReplayPresentMode \/ ReplayRequest \/ ReplayVsync \/ PlanField \/ Refit
         \/ SubmitField \/ FieldWait \/ Latch

-----------------------------------------------------------------------------
(* The worker: present_pump *)

\* sync_window takes the flag first and reads the size after it.
TakeResize ==
  /\ wpc = "window"
  /\ wpc' = IF resize THEN "size" ELSE "drain"
  /\ resize' = FALSE
  /\ UNCHANGED <<swapVars, surface, window, epc, event, cached, shotVars, ring, unfinished,
                 fieldVars, captureVars, left>>

\* A window without a size keeps the resize for later.
SyncWindow ==
  /\ AtWorker("size", "drain")
  /\ IF cached = None
     THEN resize' = TRUE /\ UNCHANGED chainVars
     ELSE NotifyResize(cached) /\ UNCHANGED resize
  /\ UNCHANGED <<deviceVars, imageVars, surface, window, epc, event, cached, shotVars, ring,
                 unfinished, fieldVars, captureVars, left>>

\* drain_screenshots: wait for the submit that copies, then publish.
DrainShot(slot) ==
  /\ wpc = "drain" /\ shot[slot] # None /\ UNCHANGED wpc
  /\ slot = "post" => shot["pre"] = None
  /\ Done(shot[slot].timeline)
  /\ ready' = [ready EXCEPT ![slot] = shot[slot].age]
  /\ shot' = [shot EXCEPT ![slot] = None]
  /\ UNCHANGED <<swapVars, surface, window, eeVars, ring, unfinished, fieldVars,
                 shot_slots, left>>

\* No picture yet, or an old one that is not due again: nothing to present.
DrainEnds ==
  /\ wpc = "drain" /\ \A s \in Shots : shot[s] = None
  /\ \/ wpc' = "idle" /\ (~have_frame \/ ~newer)
     \/ wpc' = "acquire" /\ have_frame /\ (newer \/ Repeats)
  /\ UNCHANGED <<swapVars, surface, window, eeVars, ring, unfinished, fieldVars,
                 captureVars, left>>

\* acquire_backbuffer: rebuild first when the swapchain is to go; without an
\* extent there is none and the field is skipped.
AcquireRebuild ==
  /\ wpc = "acquire" /\ MustRebuild
  /\ Rebuild
  /\ wpc' = IF chain' = None THEN "idle" ELSE "image"
  /\ UNCHANGED <<surface, window, eeVars, ring, unfinished, fieldVars,
                 captureVars, left>>

AcquireImage ==
  /\ wpc = "image" \/ (wpc = "acquire" /\ ~MustRebuild)
  /\ \E answer \in Answers :
       /\ AcquireNextImage(answer)
       /\ wpc' = CASE answer = "success"     -> "record"
                   [] answer = "suboptimal"  -> "unused"
                   [] answer = "out_of_date" -> "idle"
  /\ UNCHANGED <<surface, window, eeVars, ring, unfinished, fieldVars,
                 captureVars, left>>

\* The image of a suboptimal swapchain is given up: its signal is drained.
DrainUnused ==
  /\ AtWorker("unused", "unused_wait")
  /\ DrainAcquire
  /\ UNCHANGED <<surface, window, eeVars, ring, unfinished, fieldVars,
                 captureVars, left>>

AbandonImage ==
  /\ AtWorker("unused_wait", "idle")
  /\ Abandon
  /\ UNCHANGED <<surface, window, eeVars, ring, unfinished, fieldVars,
                 captureVars, left>>

BeginPresent ==
  /\ AtWorker("record", "submit") /\ FrameDone
  /\ UNCHANGED <<swapVars, surface, window, eeVars, ring, unfinished, fieldVars, captureVars,
                 left>>

\* Which slots the list copies the backbuffer into.
Captured == CASE shot_slots = 0 -> {}
              [] shot_slots = 1 -> {"pre"}
              [] shot_slots = 2 -> Shots

\* record_present's captures, submit, and note_shot_submit. Growing the readback
\* buffer waits for the device; leaving that out only adds behaviours.
SubmitPresent ==
  /\ AtWorker("submit", "present")
  /\ Submit(TRUE, TRUE, Captured # {})
  /\ shot' = [s \in Shots |-> IF s \in Captured
                              THEN [age |-> "last", timeline |-> SubmitValue]
                              ELSE OlderShots[s]]
  /\ ready' = OlderReady
  /\ shot_slots' = 0
  /\ UNCHANGED <<chainVars, surface, window, eeVars, ring, unfinished, fieldVars, left>>

PresentFrame ==
  /\ AtWorker("present", "idle")
  /\ \E answer \in Answers : Present(answer)
  /\ newer' = FALSE
  /\ UNCHANGED <<surface, window, eeVars, ring, unfinished, have_frame,
                 captureVars, left>>

\* The park loop presents again when the interval is over (worker_main).
Repeat ==
  /\ AtWorker("idle", "window") /\ Repeats /\ ring = <<>>
  /\ UNCHANGED <<swapVars, surface, window, eeVars, ring, unfinished, fieldVars,
                 captureVars, left>>

Pump == TakeResize \/ SyncWindow \/ (\E s \in Shots : DrainShot(s)) \/ DrainEnds
        \/ AcquireRebuild \/ AcquireImage \/ DrainUnused \/ AbandonImage
        \/ BeginPresent \/ SubmitPresent \/ PresentFrame

GpuCompletes ==
  /\ Completes
  /\ shot' = [s \in Shots |-> IF shot[s] = None THEN None
                              ELSE [shot[s] EXCEPT !.timeline = Closer(@)]]
  /\ UNCHANGED <<chainVars, imageVars, surface, window, eeVars, ring, unfinished, wpc,
                 fieldVars, shot_slots, ready, left>>

-----------------------------------------------------------------------------
Init ==
  /\ SwapInit
  /\ epc = "pump" /\ event = FALSE /\ cached = window.size /\ resize = FALSE
  /\ requested = FALSE /\ armed = FALSE /\ pair = FALSE /\ checked = FALSE
  /\ ring = <<>> /\ unfinished = 0
  /\ wpc = "idle" /\ have_frame = FALSE /\ newer = FALSE
  /\ shot_slots = 0 /\ shot = [s \in Shots |-> None] /\ ready = [s \in Shots |-> None]
  /\ left = MaxEvents

Worker == Field \/ Pump

Next == WindowChanges \/ Press \/ Settings \/ EE \/ Worker \/ Repeat \/ GpuCompletes

Spec == Init /\ [][Next]_vars

\* The main thread runs the game, the worker replays what it is sent, and the
\* device completes what it was given.
FairSpec == Spec /\ WF_vars(EE) /\ WF_vars(Worker) /\ WF_vars(GpuCompletes)

-----------------------------------------------------------------------------
(* Properties *)

\* The states the variables may have.
TypeOK ==
  /\ SwapTypeOK
  /\ epc \in {"pump", "notify", "tick", "discard_post", "request", "query",
              "copy", "drop", "missed", "copy_post", "give_up", "give_up_post", "ui"}
  /\ event \in BOOLEAN /\ resize \in BOOLEAN /\ cached \in Sizes \cup {None}
  /\ requested \in BOOLEAN /\ armed \in BOOLEAN /\ pair \in BOOLEAN /\ checked \in BOOLEAN
  /\ ring \in Seq({"present_mode", "shot_1", "shot_2", "vsync"})
  /\ unfinished \in 0..2
  /\ wpc \in {"idle", "draw", "draw_wait", "plan", "refit", "destroy",
              "barrier_wait", "scan", "scanout_wait", "window", "size", "drain",
              "acquire", "image", "unused", "unused_wait", "record", "submit",
              "present"}
  /\ have_frame \in BOOLEAN /\ newer \in BOOLEAN
  /\ shot_slots \in 0..2
  /\ shot \in [Shots -> Shot \cup {None}] /\ ready \in [Shots -> Age \cup {None}]
  /\ left \in 0..MaxEvents

\* Nothing the device may still use is reset, overwritten, read back, handed
\* out again or destroyed: a frame's pools and its acquire semaphore have one
\* user (begin_command_list, VUID-vkAcquireNextImageKHR-semaphore-01779), a
\* capture is read once its copy is complete and not overwritten before, and
\* the frame image and the swapchain go when no submit holds them.
FramesAreOwn ==
  /\ \A i, j \in 1..Len(queue) : i # j =>
       /\ queue[i].frame # None => queue[i].frame # queue[j].frame
       /\ queue[i].acquire # None => queue[i].acquire # queue[j].acquire
       /\ queue[i].image # None => queue[i].image # queue[j].image
  /\ \A b \in Queued : /\ wpc = "submit" => b.frame # frame_index
                       /\ acquired # None => b.acquire # acquired
                       /\ backbuffer # None /\ wpc # "present" => b.image # backbuffer
NothingInUseIsTouched ==
  /\ FramesAreOwn
  /\ wpc = "acquire" => acquired = None /\ present_image = None
  /\ \A b \in Queued :
       /\ wpc = "destroy" => ~b.picture
       /\ b.image # None => chain # None
       /\ b.shot => shot["pre"] # None
  /\ wpc = "submit" => \A s \in Captured : shot[s] = None

\* What a capture is answered with, the file's picture and the second copy of a
\* pair, is of the last present before the capture was asked for or of a later
\* one, whatever the captures given up before it left in the slots
\* (rt_screenshot_tick, request_screenshot, drain_screenshots).
ShotIsRecent == armed \/ epc = "copy_post" => \A s \in Shots : ready[s] # "stale"

\* Once the window stays up at one size and fields have pictures, the swapchain
\* gets that size and keeps it, and every picture goes to the screen or gives
\* way to a newer one that does: no resize is lost between the main thread and
\* the worker, and no acquire waits for ever for an image.
SizeFollowsWindow ==
  \A s \in Sizes :
    <>[](window = [size |-> s, up |-> TRUE]) /\ []<>have_frame
      => <>[](chain = s /\ ~dirty) /\ []<>~newer
=============================================================================

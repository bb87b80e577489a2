----------------------------- MODULE PresentProofs -----------------------------
(***************************************************************************)
(* Theorems about NativePresent for every number of frames in flight, of   *)
(* images and of window sizes.                                             *)
(***************************************************************************)
EXTENDS NativePresent, TLAPS

\* Where the worker has an image of the swapchain it has not drawn into.
Holding == {"record", "submit", "unused"}

\* A submit that completes belongs to the frame whose timeline names it.
FrameInv ==
  /\ \A i \in 1..Len(queue) : queue[i].frame # None => i = frames[queue[i].frame]
  /\ wpc \in Holding \cup {"unused_wait"} => FrameDone

\* An acquire semaphore is waited for by a submit of its own frame, or by the
\* empty submit that takes an unused image's signal.
AcquireInv ==
  /\ acquired = IF wpc \in Holding THEN frame_index ELSE None
  /\ \A i \in 1..Len(queue) : queue[i].acquire # None =>
       \/ queue[i].acquire = queue[i].frame
       \/ wpc = "unused_wait" /\ i = Len(queue) /\ queue[i].acquire = frame_index

ImageInv ==
  /\ wpc \in Holding => backbuffer # None
  /\ backbuffer # None => wpc \in Holding \cup {"unused_wait", "present"}
  /\ present_image # None => wpc = "present"
  /\ wpc \in Holding \cup {"image"} => chain # None
  /\ \A i \in 1..Len(queue) : queue[i].image # None =>
       /\ chain # None
       /\ wpc # "present" => queue[i].image # backbuffer
       /\ \A j \in 1..Len(queue) : i # j => queue[i].image # queue[j].image

\* The slots are empty from the drain to the next capture, and a submit that
\* copies for a slot is not past the value the slot waits for.
EmptySlots ==
  wpc \in Holding \cup {"acquire", "image"} => \A s \in Shots : shot[s] = None
SlotInv ==
  /\ EmptySlots
  /\ \A i \in 1..Len(queue) : queue[i].shot => shot["pre"] # None /\ i <= shot["pre"].timeline

PresentInv ==
  /\ FrameInv /\ AcquireInv /\ ImageInv /\ SlotInv
  /\ wpc = "destroy" => Idle

\* A copy is published before the next present is submitted, so that only what
\* the slots hold can go stale, and that is emptied before a capture is armed.
RecentInv ==
  /\ \A s \in Shots : shot[s] # None => shot[s].age = "last"
  /\ \A s \in Shots : ready[s] = "stale" => s = "post" /\ epc = "discard_post" /\ ~ armed

\* The fields the ring and the worker have not finished are those EndOfField counted.
Vsyncs == {i \in 1..Len(ring) : ring[i] = "vsync"}
InField == wpc \in {"draw", "draw_wait", "plan", "refit", "destroy", "barrier_wait", "scan", "scanout_wait"}
FieldInv ==
  /\ epc \notin {"pump", "notify"} => unfinished < 2
  /\ LET queued == IF InField THEN unfinished - 1 ELSE unfinished
     IN  /\ queued \in 0..2
         /\ queued = 0 => Vsyncs = {}
         /\ queued = 1 => \E i \in 1..Len(ring) : Vsyncs = {i}
         /\ queued = 2 => \E i, j \in 1..Len(ring) : i # j /\ Vsyncs = {i, j}
-----------------------------------------------------------------------------
(* Types *)

\* The first member of a queue goes, and the others move up.
LEMMA TailAt ==
  ASSUME NEW S, NEW q \in Seq(S), q # <<>>
  PROVE  /\ Tail(q) \in Seq(S) /\ Head(q) = q[1] /\ Len(q) \in Nat \ {0}
         /\ Len(Tail(q)) = Len(q) - 1
         /\ \A i \in 1..(Len(q) - 1) : Tail(q)[i] = q[i + 1]
  OBVIOUS

LEMMA NextFrame ==
  ASSUME NEW f \in Frames
  PROVE  (f + 1) % kFrames \in Frames
  BY FramesAssumption DEF Frames

LEMMA AgedTypes ==
  ASSUME TypeOK
  PROVE  /\ OlderShots \in [Shots -> Shot \cup {None}]
         /\ StaleShots \in [Shots -> Shot \cup {None}]
         /\ OlderReady \in [Shots -> Age \cup {None}]
         /\ StaleReady \in [Shots -> Age \cup {None}]
  <1>1. \A age \in Age : Older(age) \in Age /\ Stale(age) \in Age
    BY DEF Age, Older, Stale
  <1>2. ASSUME NEW s \in Shots, shot[s] # None
        PROVE  /\ [shot[s] EXCEPT !.age = Older(@)] \in Shot
               /\ [shot[s] EXCEPT !.age = Stale(@)] \in Shot
    <2>1. shot[s] \in Shot
      BY <1>2 DEF TypeOK
    <2>2. QED
      BY <1>1, <2>1 DEF Shot
  <1>3. QED
    BY <1>1, <1>2 DEF TypeOK, OlderShots, StaleShots, OlderReady, StaleReady

LEMMA SubmitType ==
  ASSUME SwapTypeOK, NEW touches \in BOOLEAN, NEW picture \in BOOLEAN, NEW copies \in BOOLEAN,
         Submit(touches, picture, copies)
  PROVE  /\ queue' \in Seq(Batch) /\ frames' \in [Frames -> Nat] /\ frame_index' \in Frames
         /\ acquired' \in Frames \cup {None} /\ present_image' \in Images \cup {None}
         /\ UNCHANGED <<backbuffer, ours>>
  <1> DEFINE presents == touches /\ backbuffer # None /\ acquired # None
             b == [frame |-> frame_index, acquire |-> IF presents THEN acquired ELSE None,
                   image |-> IF presents THEN backbuffer ELSE None,
                   picture |-> picture, shot |-> copies]
  <1>1. b \in Batch
    BY DEF SwapTypeOK, Batch
  <1>2. queue' = Append(queue, b)
    BY DEF Submit
  <1> HIDE DEF b
  <1>3. queue' \in Seq(Batch) /\ SubmitValue \in Nat
    BY <1>1, <1>2 DEF SwapTypeOK, SubmitValue
  <1>4. QED
    BY <1>3, NextFrame DEF Submit, SwapTypeOK

Ops == {"present_mode", "shot_1", "shot_2", "vsync"}
WPcs == {"idle", "draw", "draw_wait", "plan", "refit", "destroy", "barrier_wait", "scan",
         "scanout_wait", "window", "size", "drain", "acquire", "image", "unused", "unused_wait",
         "record", "submit", "present"}
EEPcs == {"pump", "notify", "tick", "discard_post", "request", "query", "copy", "drop", "missed",
          "copy_post", "give_up", "give_up_post", "ui"}

\* What a step changes of the device, of the captures and of the rest has its type.
CaptureTypes ==
  /\ shot_slots \in 0..2 /\ shot \in [Shots -> Shot \cup {None}]
  /\ ready \in [Shots -> Age \cup {None}]
EETypes ==
  /\ epc \in EEPcs /\ event \in BOOLEAN /\ resize \in BOOLEAN /\ cached \in Sizes \cup {None}
  /\ requested \in BOOLEAN /\ armed \in BOOLEAN /\ pair \in BOOLEAN /\ checked \in BOOLEAN
RestTypes ==
  /\ ring \in Seq(Ops) /\ unfinished \in 0..2 /\ wpc \in WPcs
  /\ have_frame \in BOOLEAN /\ newer \in BOOLEAN /\ left \in 0..MaxEvents

LEMMA TypeParts ==
  /\ TypeOK <=> SwapTypeOK /\ EETypes /\ CaptureTypes /\ RestTypes
  /\ TypeOK' <=> SwapTypeOK' /\ EETypes' /\ CaptureTypes' /\ RestTypes'
  BY DEF TypeOK, EETypes, CaptureTypes, RestTypes, Ops, WPcs, EEPcs

LEMMA LessEvents ==
  ASSUME Event, left \in 0..MaxEvents
  PROVE  left' \in 0..MaxEvents
  BY MaxEventsAssumption DEF Event

LEMMA RecordType ==
  ASSUME NEW op \in Ops, ring \in Seq(Ops), Record(op)
  PROVE  ring' \in Seq(Ops)
  BY DEF Record

LEMMA EnvironmentType ==
  ASSUME TypeOK, WindowChanges \/ Press \/ Settings
  PROVE  TypeOK'
  <1> USE TypeParts
  <1>1. CASE WindowChanges
    <2>1. left' \in 0..MaxEvents /\ event' \in BOOLEAN
      BY <1>1, LessEvents DEF WindowChanges, RestTypes, EETypes
    <2>2. window' \in [size : Sizes, up : BOOLEAN]
      <3>1. window \in [size : Sizes, up : BOOLEAN]
        BY DEF SwapTypeOK
      <3>2. CASE \E s \in Sizes \ {window.size} : window' = [size |-> s, up |-> TRUE]
        BY <3>2
      <3>3. CASE window' = [window EXCEPT !.up = ~@]
        BY <3>1, <3>3
      <3>4. QED
        BY <1>1, <3>2, <3>3 DEF WindowChanges
    <2>3. QED
      BY <1>1, <2>1, <2>2
         DEF WindowChanges, SwapTypeOK, EETypes, CaptureTypes, RestTypes, swapVars, deviceVars,
             chainVars, imageVars, shotVars, workerVars, fieldVars, captureVars
  <1>2. CASE Press
    BY <1>2, LessEvents
       DEF Press, SwapTypeOK, EETypes, CaptureTypes, RestTypes, swapVars, deviceVars,
           chainVars, imageVars, windowVars, workerVars, fieldVars, captureVars
  <1>3. CASE Settings
    <2>1. ring' \in Seq(Ops)
      BY <1>3, RecordType DEF Settings, RestTypes, Ops
    <2>2. QED
      BY <1>3, <2>1, LessEvents
         DEF Settings, SwapTypeOK, EETypes, CaptureTypes, RestTypes, swapVars, deviceVars,
             chainVars, imageVars, windowVars, shotVars, workerVars, fieldVars, captureVars
  <1>4. QED
    BY <1>1, <1>2, <1>3

LEMMA TickType ==
  ASSUME TypeOK, Tick
  PROVE  TypeOK'
  <1> USE TypeParts
  <1> UNCHANGED <<swapVars, surface, window, windowVars, unfinished, wpc, fieldVars, left>>
    BY DEF Tick, TickArm, DiscardPost, RequestScreenshot, TickIdle, Query, Copy, Drop, Missed,
           CopyPost, GiveUp, workerVars
  <1>1. SwapTypeOK'
    BY DEF SwapTypeOK, swapVars, deviceVars, chainVars, imageVars
  <1>2. EETypes'
    <2>1. /\ epc' \in EEPcs /\ requested' \in BOOLEAN
          /\ UNCHANGED <<event, resize, cached>>
      BY DEF Tick, TickArm, DiscardPost, RequestScreenshot, TickIdle, Query, Copy, Drop, Missed,
             CopyPost, GiveUp, AtEE, EETypes, EEPcs, windowVars, shotVars
    <2>2. CASE RequestScreenshot
      BY <2>1, <2>2 DEF RequestScreenshot, EETypes
    <2>3. CASE Copy \/ Missed
      <3>1. UNCHANGED <<pair, checked>> /\ armed' \in BOOLEAN
        BY <2>3 DEF Copy, Missed, EETypes
      <3>2. QED
        BY <2>1, <3>1 DEF EETypes
    <2>4. CASE UNCHANGED <<armed, pair, checked>>
      BY <2>1, <2>4 DEF EETypes
    <2>5. RequestScreenshot \/ Copy \/ Missed \/ UNCHANGED <<armed, pair, checked>>
      BY DEF Tick, TickArm, DiscardPost, TickIdle, Query, Drop, CopyPost, GiveUp, shotVars
    <2>6. QED
      BY <2>2, <2>3, <2>4, <2>5
  <1>3. ring' \in Seq(Ops)
    <2>1. CASE RequestScreenshot
      BY <2>1, RecordType DEF RequestScreenshot, RestTypes, Ops
    <2>2. CASE UNCHANGED ring
      BY <2>2 DEF RestTypes
    <2>3. QED
      BY <2>1, <2>2
         DEF Tick, TickArm, DiscardPost, TickIdle, Query, Copy, Drop, Missed, CopyPost, GiveUp
  <1>4. ASSUME NEW slot \in Shots
        PROVE  Taken(slot) \in [Shots -> Age \cup {None}]
    BY DEF Taken, CaptureTypes
  <1>5. DiscardFirst \in [Shots -> Age \cup {None}]
    BY AgedTypes DEF DiscardFirst
  <1>6. CaptureTypes'
    BY <1>4, <1>5, AgedTypes
       DEF Tick, TickArm, DiscardPost, RequestScreenshot, TickIdle, Query, Copy, Drop, Missed,
           CopyPost, GiveUp, CaptureTypes, Shots, workerVars, captureVars
  <1>7. QED
    BY <1>1, <1>2, <1>3, <1>6 DEF RestTypes, fieldVars

LEMMA EEType ==
  ASSUME TypeOK, FieldInv, EE
  PROVE  TypeOK'
  <1> USE TypeParts
  <1>1. CASE SeeResize \/ NotifyWorker \/ SampleState
    <2>1. cached' \in Sizes \cup {None}
      BY <1>1 DEF SeeResize, NotifyWorker, SampleState, Surface, SwapTypeOK, EETypes
    <2>2. EETypes'
      BY <1>1, <2>1 DEF SeeResize, NotifyWorker, SampleState, AtEE, EETypes, EEPcs, shotVars
    <2>3. UNCHANGED <<swapVars, surface, window, ring, unfinished, workerVars, left>>
      BY <1>1 DEF SeeResize, NotifyWorker, SampleState
    <2>4. QED
      BY <2>2, <2>3
         DEF SwapTypeOK, CaptureTypes, RestTypes, swapVars, deviceVars, chainVars, imageVars,
             workerVars, fieldVars, captureVars
  <1>2. CASE EndOfField
    <2>1. ring' \in Seq(Ops)
      BY <1>2, RecordType DEF EndOfField, RestTypes, Ops
    <2>2. unfinished' \in 0..2
      BY <1>2 DEF EndOfField, AtEE, FieldInv, RestTypes
    <2>3. QED
      BY <1>2, <2>1, <2>2
         DEF EndOfField, AtEE, EEPcs, SwapTypeOK, EETypes, CaptureTypes, RestTypes, swapVars,
             deviceVars, chainVars, imageVars, windowVars, shotVars, workerVars, fieldVars,
             captureVars
  <1>3. QED
    BY <1>1, <1>2, TickType DEF EE

LEMMA FieldType ==
  ASSUME TypeOK, FieldInv, Field
  PROVE  TypeOK'
  <1> USE TypeParts
  <1>1. UNCHANGED <<surface, window, eeVars>>
    BY DEF Field, ReplayPresentMode, ReplayRequest, ReplayVsync, PlanField, Refit, SubmitField,
           FieldWait, Latch
  <1>2. EETypes'
    BY <1>1 DEF EETypes, eeVars, windowVars, shotVars
  <1>3. SwapTypeOK'
    <2>1. CASE ReplayPresentMode
      BY <1>1, <2>1 DEF ReplayPresentMode, SetPresentMode, SwapTypeOK, deviceVars, imageVars
    <2>2. CASE SubmitField
      <3>1. Submit(FALSE, FALSE, FALSE) /\ UNCHANGED chainVars
        BY <2>2 DEF SubmitField
      <3>2. QED
        BY <1>1, <3>1, SubmitType DEF SwapTypeOK, chainVars
    <2>3. CASE UNCHANGED swapVars
      BY <1>1, <2>3 DEF SwapTypeOK, swapVars, deviceVars, chainVars, imageVars
    <2>4. QED
      BY <2>1, <2>2, <2>3
         DEF Field, ReplayRequest, ReplayVsync, PlanField, Refit, FieldWait, Latch
  <1>4. CaptureTypes'
    <2>1. CASE ReplayRequest
      BY <2>1 DEF ReplayRequest, CaptureTypes
    <2>2. CASE UNCHANGED captureVars
      BY <2>2 DEF CaptureTypes, captureVars
    <2>3. QED
      BY <2>1, <2>2 DEF Field, ReplayPresentMode, ReplayVsync, PlanField, Refit, SubmitField,
                        FieldWait, Latch, workerVars
  <1>5. ring' \in Seq(Ops)
    <2>1. CASE UNCHANGED ring
      BY <2>1 DEF RestTypes
    <2>2. CASE ring # <<>> /\ ring' = Tail(ring)
      BY <2>2, TailAt DEF RestTypes
    <2>3. QED
      BY <2>1, <2>2 DEF Field, ReplayPresentMode, ReplayRequest, ReplayVsync, Replay, PlanField,
                        Refit, SubmitField, FieldWait, Latch
  <1>6. unfinished' \in 0..2
    <2>1. CASE Latch
      BY <2>1 DEF Latch, AtWorker, FieldInv, InField, RestTypes
    <2>2. CASE UNCHANGED unfinished
      BY <2>2 DEF RestTypes
    <2>3. QED
      BY <2>1, <2>2 DEF Field, ReplayPresentMode, ReplayRequest, ReplayVsync, PlanField, Refit,
                        SubmitField, FieldWait
  <1>7. wpc' \in WPcs
    BY DEF Field, ReplayPresentMode, ReplayRequest, ReplayVsync, PlanField, Refit, SubmitField,
           FieldWait, Latch, AtWorker, WPcs, RestTypes, workerVars
  <1>8. have_frame' \in BOOLEAN /\ newer' \in BOOLEAN /\ left' \in 0..MaxEvents
    BY LessEvents
       DEF Field, ReplayPresentMode, ReplayRequest, ReplayVsync, PlanField, Refit, SubmitField,
           FieldWait, Latch, RestTypes, fieldVars, workerVars
  <1>9. QED
    BY <1>2, <1>3, <1>4, <1>5, <1>6, <1>7, <1>8 DEF RestTypes

LEMMA PumpType ==
  ASSUME TypeOK, Pump
  PROVE  TypeOK'
  <1> USE TypeParts
  <1>1. UNCHANGED <<surface, window, epc, event, cached, shotVars, ring, unfinished, left>>
    BY DEF Pump, TakeResize, SyncWindow, DrainShot, DrainEnds, AcquireRebuild, AcquireImage,
           DrainUnused, AbandonImage, BeginPresent, SubmitPresent, PresentFrame, eeVars,
           windowVars
  <1>2. resize' \in BOOLEAN
    BY DEF Pump, TakeResize, SyncWindow, DrainShot, DrainEnds, AcquireRebuild, AcquireImage,
           DrainUnused, AbandonImage, BeginPresent, SubmitPresent, PresentFrame, eeVars,
           windowVars, EETypes
  <1>3. EETypes'
    BY <1>1, <1>2 DEF EETypes, shotVars
  <1>4. wpc' \in WPcs /\ have_frame' \in BOOLEAN /\ newer' \in BOOLEAN
    BY DEF Pump, TakeResize, SyncWindow, DrainShot, DrainEnds, AcquireRebuild, AcquireImage,
           Answers, DrainUnused, AbandonImage, BeginPresent, SubmitPresent, PresentFrame,
           AtWorker, WPcs, RestTypes, fieldVars
  <1>5. RestTypes'
    BY <1>1, <1>4 DEF RestTypes
  <1>6. CaptureTypes'
    <2>1. CASE \E s \in Shots : DrainShot(s)
      <3>1. PICK s \in Shots : DrainShot(s)
        BY <2>1
      <3>2. shot[s] \in Shot
        BY <3>1 DEF DrainShot, CaptureTypes
      <3>3. shot[s].age \in Age
        BY <3>2 DEF Shot
      <3>4. QED
        BY <3>1, <3>3 DEF DrainShot, CaptureTypes
    <2>2. CASE SubmitPresent
      <3>1. [age |-> "last", timeline |-> SubmitValue] \in Shot
        BY DEF SubmitValue, SwapTypeOK, Shot, Age
      <3>2. QED
        BY <2>2, <3>1, AgedTypes DEF SubmitPresent, CaptureTypes
    <2>3. CASE UNCHANGED captureVars
      BY <2>3 DEF CaptureTypes, captureVars
    <2>4. QED
      BY <2>1, <2>2, <2>3
         DEF Pump, TakeResize, SyncWindow, DrainEnds, AcquireRebuild, AcquireImage, DrainUnused,
             AbandonImage, BeginPresent, PresentFrame
  <1>7. SwapTypeOK'
    <2>1. CASE SyncWindow
      BY <1>1, <2>1 DEF SyncWindow, NotifyResize, SwapTypeOK, EETypes, deviceVars, chainVars,
                        imageVars
    <2>2. CASE AcquireRebuild
      <3>1. Extent \in Sizes \cup {None}
        BY DEF Extent, SwapTypeOK
      <3>2. QED
        BY <1>1, <2>2, <3>1 DEF AcquireRebuild, Rebuild, SwapTypeOK, deviceVars
    <2>3. CASE AcquireImage
      <3>1. PICK answer \in Answers : AcquireNextImage(answer)
        BY <2>3 DEF AcquireImage
      <3>2. QED
        BY <1>1, <3>1 DEF AcquireNextImage, SwapTypeOK, deviceVars, imageVars
    <2>4. CASE DrainUnused
      <3> DEFINE b == [frame |-> None, acquire |-> acquired, image |-> None,
                       picture |-> FALSE, shot |-> FALSE]
      <3>1. b \in Batch
        BY DEF SwapTypeOK, Batch
      <3> HIDE DEF b
      <3>2. queue' = Append(queue, b)
        BY <2>4 DEF DrainUnused, DrainAcquire, b
      <3>3. queue' \in Seq(Batch)
        BY <3>1, <3>2 DEF SwapTypeOK
      <3>4. QED
        BY <1>1, <2>4, <3>3 DEF DrainUnused, DrainAcquire, SwapTypeOK
    <2>5. CASE AbandonImage
      BY <1>1, <2>5 DEF AbandonImage, Abandon, SwapTypeOK, deviceVars
    <2>6. CASE SubmitPresent
      <3>1. Submit(TRUE, TRUE, Captured # {}) /\ UNCHANGED chainVars
        BY <2>6 DEF SubmitPresent
      <3>2. QED
        BY <1>1, <3>1, SubmitType DEF SwapTypeOK, chainVars
    <2>7. CASE PresentFrame
      BY <1>1, <2>7 DEF PresentFrame, Present, SwapTypeOK, deviceVars
    <2>8. CASE UNCHANGED swapVars
      BY <1>1, <2>8 DEF SwapTypeOK, swapVars, deviceVars, chainVars, imageVars
    <2>9. QED
      BY <2>1, <2>2, <2>3, <2>4, <2>5, <2>6, <2>7, <2>8
         DEF Pump, TakeResize, DrainShot, DrainEnds, BeginPresent
  <1>8. QED
    BY <1>3, <1>5, <1>6, <1>7

LEMMA CompletesType ==
  ASSUME TypeOK, GpuCompletes
  PROVE  TypeOK'
  <1> USE TypeParts
  <1>1. \A n \in Nat : Closer(n) \in Nat
    BY DEF Closer
  <1>2. queue' \in Seq(Batch) /\ frames' \in [Frames -> Nat] /\ frame_index' = frame_index
    BY <1>1, TailAt DEF GpuCompletes, Completes, SwapTypeOK
  <1>3. SwapTypeOK'
    BY <1>2 DEF GpuCompletes, SwapTypeOK, chainVars, imageVars
  <1>4. ASSUME NEW s \in Shots, shot[s] # None
        PROVE  [shot[s] EXCEPT !.timeline = Closer(@)] \in Shot
    <2>1. shot[s] \in Shot
      BY <1>4 DEF CaptureTypes
    <2>2. QED
      BY <1>1, <2>1 DEF Shot
  <1>5. CaptureTypes'
    BY <1>4 DEF GpuCompletes, CaptureTypes
  <1>6. QED
    BY <1>3, <1>5
       DEF GpuCompletes, EETypes, RestTypes, eeVars, windowVars, shotVars, fieldVars

LEMMA StepType ==
  ASSUME TypeOK, FieldInv, Next
  PROVE  TypeOK'
  <1> USE TypeParts
  <1>1. CASE Repeat
    BY <1>1 DEF Repeat, AtWorker, WPcs, SwapTypeOK, EETypes, CaptureTypes, RestTypes, swapVars,
                deviceVars, chainVars, imageVars, eeVars, windowVars, shotVars, fieldVars,
                captureVars
  <1>2. QED
    BY <1>1, EnvironmentType, EEType, FieldType, PumpType, CompletesType DEF Next, Worker
-----------------------------------------------------------------------------
(* The fields in flight *)

\* n members of a queue are "vsync", and they are at these places.
Places(V, n) ==
  /\ n \in 0..2
  /\ n = 0 => V = {}
  /\ n = 1 => \E i \in V : V = {i}
  /\ n = 2 => \E i, j \in V : i # j /\ V = {i, j}
FieldsQueued == IF InField THEN unfinished - 1 ELSE unfinished

LEMMA FieldPlaces ==
  /\ FieldInv <=> /\ epc \notin {"pump", "notify"} => unfinished < 2
                  /\ Places(Vsyncs, FieldsQueued)
  /\ FieldInv' <=> /\ epc' \notin {"pump", "notify"} => unfinished' < 2
                   /\ Places(Vsyncs', FieldsQueued')
  BY DEF FieldInv, Places, FieldsQueued, Vsyncs

LEMMA VsyncsAppend ==
  ASSUME ring \in Seq(Ops), NEW op \in Ops, Record(op)
  PROVE  Vsyncs' = IF op = "vsync" THEN Vsyncs \cup {Len(ring) + 1} ELSE Vsyncs
  BY DEF Record, Vsyncs

LEMMA VsyncsTail ==
  ASSUME ring \in Seq(Ops), ring # <<>>, ring' = Tail(ring)
  PROVE  /\ Vsyncs \subseteq Nat \ {0} /\ Vsyncs' \subseteq Nat \ {0}
         /\ \A i \in Nat \ {0} : i \in Vsyncs' <=> i + 1 \in Vsyncs
         /\ 1 \in Vsyncs <=> Head(ring) = "vsync"
  BY TailAt DEF Vsyncs

LEMMA PlacesShift ==
  ASSUME NEW V \in SUBSET (Nat \ {0}), NEW W \in SUBSET (Nat \ {0}), NEW n, Places(V, n),
         \A i \in Nat \ {0} : i \in W <=> i + 1 \in V
  PROVE  Places(W, IF 1 \in V THEN n - 1 ELSE n)
  <1>1. ASSUME NEW i \in V, i # 1 PROVE i - 1 \in W
    BY <1>1
  <1> DEFINE Back(i) == i - 1
  <1>a. ASSUME NEW k \in W PROVE k + 1 \in V /\ k = Back(k + 1)
    OBVIOUS
  <1>2. CASE n = 0
    BY <1>2 DEF Places
  <1>3. CASE n = 1
    <2>1. PICK i \in V : V = {i}
      BY <1>3 DEF Places
    <2>2. CASE i = 1
      <3>1. W = {}
        BY <2>1, <2>2
      <3>2. QED
        BY <1>3, <2>2, <3>1 DEF Places
    <2>3. CASE i # 1
      <3>1. W = {Back(i)}
        BY <1>1, <1>a, <2>1, <2>3
      <3>2. QED
        BY <1>3, <2>1, <2>3, <3>1 DEF Places
    <2>4. QED
      BY <2>2, <2>3
  <1>4. CASE n = 2
    <2>1. PICK i \in V, j \in V : i # j /\ V = {i, j}
      BY <1>4 DEF Places
    <2>2. CASE i = 1
      <3>1. W = {Back(j)}
        <4>1. \A k \in W : k = Back(j)
          BY <1>a, <2>1, <2>2
        <4>2. Back(j) \in W
          BY <1>1, <2>1, <2>2
        <4>3. QED
          BY <4>1, <4>2
      <3>2. QED
        BY <1>4, <2>2, <3>1 DEF Places
    <2>3. CASE j = 1
      <3>1. W = {Back(i)}
        <4>1. \A k \in W : k = Back(i)
          BY <1>a, <2>1, <2>3
        <4>2. Back(i) \in W
          BY <1>1, <2>1, <2>3
        <4>3. QED
          BY <4>1, <4>2
      <3>2. QED
        BY <1>4, <2>3, <3>1 DEF Places
    <2>4. CASE i # 1 /\ j # 1
      <3>1. Back(i) # Back(j) /\ 1 \notin V /\ Back(i) \in W /\ Back(j) \in W
        BY <1>1, <2>1, <2>4
      <3>3. \A k \in W : k \in {Back(i), Back(j)}
        BY <1>a, <2>1
      <3>4. W = {Back(i), Back(j)}
        BY <3>1, <3>3
      <3>2. QED
        BY <1>4, <3>1, <3>4 DEF Places
    <2>5. QED
      BY <2>2, <2>3, <2>4
  <1>5. QED
    BY <1>2, <1>3, <1>4 DEF Places

LEMMA StepFields ==
  ASSUME TypeOK, FieldInv, Next
  PROVE  FieldInv'
  <1> USE TypeParts, FieldPlaces DEF RestTypes
  <1>1. ASSUME UNCHANGED <<ring, unfinished>>, (InField' <=> InField),
               epc' \in {"pump", "notify"} \/ unfinished < 2
        PROVE  FieldInv'
    BY <1>1 DEF Vsyncs, FieldsQueued
  <1>2. CASE EndOfField
    <2>1. Vsyncs' = Vsyncs \cup {Len(ring) + 1} /\ Len(ring) + 1 \notin Vsyncs
      BY <1>2, VsyncsAppend DEF EndOfField, Ops, Vsyncs
    <2>2. epc' = "pump" /\ unfinished < 2 /\ unfinished' = unfinished + 1 /\ InField' = InField
      BY <1>2 DEF EndOfField, AtEE, workerVars, InField
    <2>3. FieldsQueued' = FieldsQueued + 1 /\ FieldsQueued < 2
      BY <2>2 DEF FieldsQueued
    <2>4. Places(Vsyncs', FieldsQueued')
      BY <2>1, <2>3 DEF Places
    <2>5. QED
      BY <2>2, <2>4
  <1>3. CASE Settings \/ RequestScreenshot
    <2>1. PICK op \in Ops \ {"vsync"} : Record(op)
      BY <1>3 DEF Settings, RequestScreenshot, Ops
    <2>2. Vsyncs' = Vsyncs
      BY <2>1, VsyncsAppend
    <2>3. /\ epc' \notin {"pump", "notify"} => unfinished < 2
          /\ UNCHANGED <<unfinished, wpc>>
      BY <1>3 DEF Settings, RequestScreenshot, AtEE, workerVars
    <2>4. QED
      BY <2>2, <2>3 DEF FieldsQueued, InField
  <1>4. CASE WindowChanges \/ Press \/ SeeResize \/ NotifyWorker \/ SampleState
             \/ (Tick /\ UNCHANGED ring)
    <2>1. UNCHANGED <<ring, unfinished, wpc>>
      BY <1>4 DEF WindowChanges, Press, SeeResize, NotifyWorker, SampleState, Tick, TickArm,
                  DiscardPost, RequestScreenshot, TickIdle, Query, Copy, Drop, Missed, CopyPost,
                  GiveUp, workerVars
    <2>2. epc' \in {"pump", "notify"} \/ unfinished < 2
      BY <1>4 DEF WindowChanges, Press, SeeResize, NotifyWorker, SampleState, Tick, TickArm,
                  DiscardPost, RequestScreenshot, TickIdle, Query, Copy, Drop, Missed, CopyPost,
                  GiveUp, AtEE
    <2>3. QED
      BY <1>1, <2>1, <2>2 DEF InField
  <1>5. CASE ReplayPresentMode \/ ReplayRequest \/ ReplayVsync
    <2>1. ring # <<>> /\ ring' = Tail(ring) /\ UNCHANGED <<epc, unfinished>>
      BY <1>5 DEF ReplayPresentMode, ReplayRequest, ReplayVsync, Replay, eeVars
    <2>2. ~ InField /\ (InField' <=> Head(ring) = "vsync")
      BY <1>5 DEF ReplayPresentMode, ReplayRequest, ReplayVsync, Replay, InField, workerVars
    <2>3. FieldsQueued' = IF 1 \in Vsyncs THEN FieldsQueued - 1 ELSE FieldsQueued
      BY <2>1, <2>2, VsyncsTail DEF FieldsQueued
    <2>4. Places(Vsyncs', FieldsQueued')
      BY <2>1, <2>3, VsyncsTail, PlacesShift
    <2>5. QED
      BY <2>1, <2>4
  <1>6. CASE Latch
    <2>1. InField /\ ~ InField' /\ UNCHANGED <<ring, epc>> /\ unfinished' = unfinished - 1
      BY <1>6 DEF Latch, AtWorker, InField, eeVars
    <2>2. FieldsQueued' = FieldsQueued /\ Vsyncs' = Vsyncs
      BY <2>1 DEF FieldsQueued, Vsyncs
    <2>3. QED
      BY <2>1, <2>2
  <1>7. CASE PlanField \/ Refit \/ SubmitField \/ FieldWait
    <2>1. UNCHANGED <<ring, unfinished, epc>> /\ InField /\ InField'
      BY <1>7 DEF PlanField, Refit, SubmitField, FieldWait, AtWorker, InField, eeVars
    <2>2. QED
      BY <1>1, <2>1
  <1>8. CASE Pump \/ Repeat \/ GpuCompletes
    <2>1. UNCHANGED <<ring, unfinished, epc>>
      BY <1>8 DEF Pump, TakeResize, SyncWindow, DrainShot, DrainEnds, AcquireRebuild,
             AcquireImage, DrainUnused, AbandonImage, BeginPresent, SubmitPresent, PresentFrame,
             Repeat, GpuCompletes, eeVars
    <2>2. wpc' = wpc \/ (~ InField /\ ~ InField')
      BY <1>8 DEF Pump, TakeResize, SyncWindow, DrainShot, DrainEnds, AcquireRebuild,
             AcquireImage, Answers, DrainUnused, AbandonImage, BeginPresent, SubmitPresent,
             PresentFrame, Repeat, GpuCompletes, AtWorker, InField
    <2>3. QED
      BY <1>1, <2>1, <2>2 DEF InField
  <1>9. Tick => RequestScreenshot \/ UNCHANGED ring
    BY DEF Tick, TickArm, DiscardPost, TickIdle, Query, Copy, Drop, Missed, CopyPost, GiveUp
  <1>10. QED
    BY <1>2, <1>3, <1>4, <1>5, <1>6, <1>7, <1>8, <1>9 DEF Next, EE, Worker, Field

\* Every variable has its type; in particular no more than the fields EndOfField
\* has waited for are in flight (gs_threaded.cpp, field_sync).
THEOREM PresentTypeCorrect == Spec => []TypeOK
  <1>1. Init => TypeOK /\ FieldInv
    <2> SUFFICES ASSUME Init PROVE TypeOK /\ FieldInv
      OBVIOUS
    <2>1. SwapTypeOK
      BY FramesAssumption, SizesAssumption DEF Init, SwapInit, SwapTypeOK, Frames
    <2>2. EETypes
      <3>1. cached = Start
        BY DEF Init, SwapInit
      <3>2. QED
        BY <3>1, SizesAssumption DEF Init, EETypes, EEPcs
    <2>3. CaptureTypes
      BY DEF Init, CaptureTypes
    <2>4. RestTypes
      <3>1. left \in 0..MaxEvents
        BY MaxEventsAssumption DEF Init
      <3>2. ring \in Seq(Ops) /\ unfinished \in 0..2
        BY DEF Init
      <3>3. QED
        BY <3>1, <3>2 DEF Init, RestTypes, WPcs
    <2>5. Vsyncs = {} /\ ~ InField /\ unfinished = 0 /\ epc = "pump"
      BY DEF Init, Vsyncs, InField
    <2>6. FieldInv
      <3>0. unfinished = 0 /\ wpc = "idle"
        BY DEF Init
      <3>1. FieldsQueued = 0
        BY <3>0 DEF InField, FieldsQueued
      <3>2. Places(Vsyncs, FieldsQueued)
        BY <2>5, <3>1 DEF Places
      <3>3. QED
        BY <2>5, <3>2, FieldPlaces
    <2>7. QED
      BY <2>1, <2>2, <2>3, <2>4, <2>6, TypeParts
  <1>2. TypeOK /\ FieldInv /\ [Next]_vars => (TypeOK /\ FieldInv)'
    <2>1. ASSUME TypeOK, FieldInv, UNCHANGED vars PROVE TypeOK' /\ FieldInv'
      <3>1. SwapTypeOK' /\ EETypes' /\ CaptureTypes' /\ RestTypes'
        BY <2>1, TypeParts
           DEF SwapTypeOK, EETypes, CaptureTypes, RestTypes, vars, swapVars, deviceVars,
               chainVars, imageVars, eeVars, windowVars, shotVars, workerVars, fieldVars,
               captureVars
      <3>2. UNCHANGED <<ring, unfinished, epc, wpc>>
        BY <2>1 DEF vars, eeVars, workerVars
      <3>3. QED
        BY <2>1, <3>1, <3>2, TypeParts DEF FieldInv, Vsyncs, InField
    <2>2. QED
      BY <2>1, StepType, StepFields
  <1>3. QED
    BY <1>1, <1>2, PTL DEF Spec
-----------------------------------------------------------------------------
(* ShotIsRecent *)

LEMMA SlotsStay ==
  ASSUME EmptySlots, UNCHANGED shot,
         wpc' \in Holding \cup {"acquire", "image"} =>
           wpc \in Holding \cup {"acquire", "image"} \/ \A s \in Shots : shot[s] = None
  PROVE  EmptySlots'
  BY DEF EmptySlots

LEMMA StepSlots ==
  ASSUME TypeOK, EmptySlots, Next
  PROVE  EmptySlots'
  <1>1. CASE TickArm
    BY <1>1 DEF TickArm, StaleShots, EmptySlots
  <1>2. CASE GpuCompletes
    BY <1>2 DEF GpuCompletes, EmptySlots
  <1>3. ASSUME NEW s \in Shots, DrainShot(s) PROVE EmptySlots'
    BY <1>3 DEF DrainShot, EmptySlots, Holding
  <1>4. CASE SubmitPresent
    BY <1>4 DEF SubmitPresent, AtWorker, EmptySlots, Holding
  <1>5. CASE WindowChanges \/ Press \/ Settings \/ SeeResize \/ NotifyWorker \/ SampleState
             \/ EndOfField \/ DiscardPost \/ RequestScreenshot \/ TickIdle \/ Query \/ Copy
             \/ Drop \/ Missed \/ CopyPost \/ GiveUp
    <2>1. UNCHANGED <<wpc, shot>>
      BY <1>5 DEF WindowChanges, Press, Settings, SeeResize, NotifyWorker, SampleState,
             EndOfField, DiscardPost, RequestScreenshot, TickIdle, Query, Copy, Drop, Missed,
             CopyPost, GiveUp, workerVars, captureVars
    <2>2. QED
      BY <2>1, SlotsStay
  <1>6. CASE Field \/ Repeat
    BY <1>6, SlotsStay
       DEF Field, ReplayPresentMode, ReplayRequest, ReplayVsync, Replay, PlanField, Refit,
           SubmitField, FieldWait, Latch, Repeat, AtWorker, workerVars, captureVars, Holding
  <1>7. CASE TakeResize \/ SyncWindow \/ DrainEnds \/ AcquireRebuild \/ AcquireImage
             \/ DrainUnused \/ AbandonImage \/ BeginPresent \/ PresentFrame
    <2>1. UNCHANGED shot
      BY <1>7 DEF TakeResize, SyncWindow, DrainEnds, AcquireRebuild, AcquireImage, DrainUnused,
             AbandonImage, BeginPresent, PresentFrame, captureVars
    <2>2. wpc' \in Holding \cup {"acquire", "image"} =>
            wpc \in Holding \cup {"acquire", "image"} \/ \A s \in Shots : shot[s] = None
      BY <1>7 DEF TakeResize, SyncWindow, DrainEnds, AcquireRebuild, AcquireImage, DrainUnused,
             AbandonImage, BeginPresent, PresentFrame, AtWorker, Holding
    <2>3. QED
      BY <2>1, <2>2, SlotsStay
  <1>8. QED
    BY <1>1, <1>2, <1>3, <1>4, <1>5, <1>6, <1>7 DEF Next, EE, Tick, Worker, Pump

\* Only TickArm makes an image stale, and only a published one.
LEMMA StepRecent ==
  ASSUME TypeOK, EmptySlots, RecentInv, Next
  PROVE  RecentInv'
  <1> USE NoShotAssumption
  <1>0. /\ shot \in [Shots -> Shot \cup {None}] /\ ready \in [Shots -> Age \cup {None}]
        /\ None \notin {"last", "older", "stale"} /\ \A x \in Shot : x # None
    BY DEF TypeOK, Age
  <1>1. CASE TickArm
    <2>1. epc' = "discard_post" /\ ~ armed' /\ ready' = DiscardFirst /\ shot' = StaleShots
      BY <1>1 DEF TickArm, AtEE
    <2>2. ASSUME NEW s \in Shots, shot'[s] # None PROVE shot'[s].age = "last"
      <3>1. shot[s] \in Shot /\ shot[s].age = "last" /\ shot'[s] = [shot[s] EXCEPT !.age = Stale(@)]
        BY <1>0, <2>1, <2>2 DEF StaleShots, RecentInv
      <3>2. shot'[s].age = Stale("last")
        BY <3>1 DEF Shot
      <3>3. QED
        BY <3>2 DEF Stale
    <2>3. ready'["pre"] = None
      BY <2>1, AgedTypes DEF DiscardFirst, Shots
    <2>4. QED
      BY <1>0, <2>1, <2>2, <2>3 DEF RecentInv, Shots
  <1>2. ASSUME UNCHANGED shot,
               \A s \in Shots : ready'[s] \in {ready[s], None},
               epc = "discard_post" =>
                 ready'["post"] = None \/ (epc' = "discard_post" /\ armed' = armed)
        PROVE  RecentInv'
    BY <1>0, <1>2 DEF RecentInv, Shots
  <1>3. CASE DiscardPost \/ RequestScreenshot \/ TickIdle \/ Query \/ Copy \/ Drop \/ Missed
             \/ CopyPost \/ GiveUp
    <2>1. UNCHANGED shot
      BY <1>3 DEF DiscardPost, RequestScreenshot, TickIdle, Query, Copy, Drop, Missed, CopyPost,
                  GiveUp, workerVars, captureVars
    <2>2. UNCHANGED ready \/ ready' = Taken("pre") \/ ready' = Taken("post")
      BY <1>3 DEF DiscardPost, RequestScreenshot, TickIdle, Query, Copy, Drop, Missed, CopyPost,
                  GiveUp, workerVars, captureVars
    <2>3. \A s \in Shots : ready'[s] \in {ready[s], None}
      BY <1>0, <2>2 DEF Taken
    <2>4. epc = "discard_post" => ready' = Taken("post")
      BY <1>3 DEF DiscardPost, RequestScreenshot, TickIdle, Query, Copy, Drop, Missed, CopyPost,
                  GiveUp, AtEE
    <2>5. QED
      BY <1>0, <1>2, <2>1, <2>3, <2>4 DEF Taken, Shots
  <1>4. CASE WindowChanges \/ Press \/ Settings \/ SeeResize \/ NotifyWorker \/ SampleState
             \/ EndOfField
    <2>1. UNCHANGED <<shot, ready, armed>> /\ (epc' = epc \/ epc # "discard_post")
      BY <1>4 DEF WindowChanges, Press, Settings, SeeResize, NotifyWorker, SampleState,
                  EndOfField, AtEE, shotVars, workerVars, captureVars
    <2>2. QED
      BY <1>2, <2>1
  <1>5. CASE Field \/ Repeat
    <2>1. UNCHANGED <<shot, armed, epc>>
      BY <1>5 DEF Field, ReplayPresentMode, ReplayRequest, ReplayVsync, PlanField, Refit,
                  SubmitField, FieldWait, Latch, Repeat, eeVars, shotVars, workerVars, captureVars
    <2>2. \A s \in Shots : ready'[s] \in {ready[s], None}
      BY <1>5 DEF Field, ReplayPresentMode, ReplayRequest, ReplayVsync, PlanField, Refit,
                  SubmitField, FieldWait, Latch, Repeat, workerVars, captureVars
    <2>3. QED
      BY <1>2, <2>1, <2>2
  <1>6. ASSUME NEW s \in Shots, DrainShot(s) PROVE RecentInv'
    <2>1. shot[s].age = "last" /\ ready' = [ready EXCEPT ![s] = shot[s].age]
      BY <1>6 DEF DrainShot, RecentInv
    <2>2. \A r \in Shots : ready'[r] \in {ready[r], "last"}
      BY <1>0, <2>1
    <2>3. shot' = [shot EXCEPT ![s] = None] /\ UNCHANGED <<epc, armed>>
      BY <1>6 DEF DrainShot, eeVars, shotVars
    <2>4. QED
      BY <1>0, <2>2, <2>3 DEF RecentInv
  <1>7. CASE SubmitPresent
    <2>1. \A s \in Shots : shot[s] = None
      BY <1>7 DEF SubmitPresent, AtWorker, EmptySlots, Holding
    <2>2. ready' = OlderReady /\ UNCHANGED <<epc, armed>>
      BY <1>7 DEF SubmitPresent, eeVars, shotVars
    <2>3. \A s \in Shots : ready'[s] = "stale" => ready[s] = "stale"
      BY <1>0, <2>2 DEF OlderReady, Older
    <2>4. \A s \in Shots : shot'[s] \in {None, [age |-> "last", timeline |-> SubmitValue]}
      BY <1>7, <2>1 DEF SubmitPresent, OlderShots
    <2>5. QED
      BY <2>2, <2>3, <2>4 DEF RecentInv
  <1>8. CASE TakeResize \/ SyncWindow \/ DrainEnds \/ AcquireRebuild \/ AcquireImage
             \/ DrainUnused \/ AbandonImage \/ BeginPresent \/ PresentFrame
    <2>1. UNCHANGED <<shot, ready, armed, epc>>
      BY <1>8 DEF TakeResize, SyncWindow, DrainEnds, AcquireRebuild, AcquireImage, DrainUnused,
             AbandonImage, BeginPresent, PresentFrame, eeVars, shotVars, captureVars
    <2>2. QED
      BY <1>2, <2>1
  <1>9. CASE GpuCompletes
    <2>1. UNCHANGED <<ready, armed, epc>>
      BY <1>9 DEF GpuCompletes, eeVars, shotVars
    <2>2. ASSUME NEW s \in Shots, shot'[s] # None PROVE shot'[s].age = "last"
      <3>1. shot[s] \in Shot /\ shot[s].age = "last"
            /\ shot'[s] = [shot[s] EXCEPT !.timeline = Closer(@)]
        BY <1>0, <1>9, <2>2 DEF GpuCompletes, RecentInv
      <3>2. QED
        BY <3>1 DEF Shot
    <2>3. QED
      BY <2>1, <2>2 DEF RecentInv
  <1>10. QED
    BY <1>1, <1>3, <1>4, <1>5, <1>6, <1>7, <1>8, <1>9 DEF Next, EE, Tick, Worker, Pump

\* No image of a present before the last one, when a capture was asked for, is
\* there for it to be answered with, however captures are given up and asked for
\* again (screenshot.cpp, rt_screenshot_tick; gs_native.cpp, drain_screenshots).
\* An image of that last present, or of a later one, may be a given-up capture's.
THEOREM ShotIsRecentCorrect == Spec => []ShotIsRecent
  <1>1. Init => EmptySlots /\ RecentInv
    BY NoShotAssumption DEF Init, EmptySlots, RecentInv, Age
  <1>2. TypeOK /\ EmptySlots /\ RecentInv /\ [Next]_vars => (EmptySlots /\ RecentInv)'
    <2>1. ASSUME EmptySlots, RecentInv, UNCHANGED vars PROVE EmptySlots' /\ RecentInv'
      BY <2>1 DEF EmptySlots, RecentInv, vars, eeVars, shotVars, workerVars, captureVars
    <2>2. QED
      BY <2>1, StepSlots, StepRecent
  <1>3. RecentInv => ShotIsRecent
    BY DEF RecentInv, ShotIsRecent
  <1>4. QED
    BY <1>1, <1>2, <1>3, PresentTypeCorrect, PTL DEF Spec

-----------------------------------------------------------------------------
(* NothingInUseIsTouched *)

UseInv == PresentInv /\ TypeOK

LEMMA QueueTypes ==
  TypeOK => /\ queue \in Seq(Batch) /\ frames \in [Frames -> Nat] /\ frame_index \in Frames
            /\ Frames \subseteq Nat /\ None \notin Nat /\ None \notin Images
            /\ acquired \in Frames \cup {None} /\ backbuffer \in Images \cup {None}
            /\ Len(queue) \in Nat /\ frame_index # None
            /\ shot \in [Shots -> Shot \cup {None}] /\ None \notin Shot
            /\ \A i \in 1..Len(queue) : queue[i] \in Batch
  BY FramesAssumption, ImagesAssumption, NoShotAssumption DEF TypeOK, SwapTypeOK, Frames

deviceState == <<queue, frames, frame_index, acquired, backbuffer, present_image, chain>>

\* Steps away from the swapchain, and steps of the others.
LEMMA Elsewhere ==
  ASSUME UseInv, UNCHANGED deviceState, UNCHANGED shot,
         wpc \notin Holding \cup {"unused_wait", "present", "image"},
         wpc' \notin Holding \cup {"unused_wait", "present", "image"},
         wpc' = "destroy" => Idle,
         wpc' = "acquire" => \A s \in Shots : shot[s] = None
  PROVE  PresentInv'
  <1>1. FrameInv' /\ AcquireInv' /\ ImageInv'
    BY QueueTypes DEF UseInv, PresentInv, FrameInv, AcquireInv, ImageInv, deviceState
  <1>2. SlotInv'
    BY DEF UseInv, PresentInv, SlotInv, EmptySlots, deviceState, Holding
  <1>3. QED
    BY <1>1, <1>2 DEF PresentInv, Idle, deviceState

LEMMA Waiting ==
  ASSUME UseInv, UNCHANGED deviceState, UNCHANGED wpc,
         \A s \in Shots : shot[s] = None => shot'[s] = None,
         shot["pre"] # None => \/ Idle \/ shot["pre"].timeline = 0
                               \/ /\ shot'["pre"] # None
                                  /\ shot'["pre"].timeline = shot["pre"].timeline
  PROVE  PresentInv'
  <1>1. FrameInv' /\ AcquireInv' /\ ImageInv'
    BY DEF UseInv, PresentInv, FrameInv, FrameDone, AcquireInv, ImageInv, deviceState
  <1>2. EmptySlots'
    BY DEF UseInv, PresentInv, SlotInv, EmptySlots
  <1>3. ASSUME NEW i \in 1..Len(queue), queue[i].shot
        PROVE  shot'["pre"] # None /\ i <= shot'["pre"].timeline
    <2>1. shot["pre"] # None /\ i <= shot["pre"].timeline /\ i >= 1 /\ ~ Idle
      BY <1>3, QueueTypes DEF UseInv, PresentInv, SlotInv, Idle
    <2>2. QED
      BY <2>1
  <1>4. QED
    BY <1>1, <1>2, <1>3 DEF UseInv, PresentInv, SlotInv, Idle, deviceState

LEMMA Appended ==
  ASSUME NEW b \in Batch, queue \in Seq(Batch), queue' = Append(queue, b)
  PROVE  /\ Len(queue) \in Nat /\ Len(queue') = Len(queue) + 1
         /\ \A i \in 1..Len(queue) : queue'[i] = queue[i]
         /\ queue'[Len(queue) + 1] = b
  OBVIOUS

\* What a submit adds to the queue.
Added(touches, picture, copies) ==
  LET presents == touches /\ backbuffer # None /\ acquired # None
  IN  [frame |-> frame_index, acquire |-> IF presents THEN acquired ELSE None,
       image |-> IF presents THEN backbuffer ELSE None, picture |-> picture, shot |-> copies]

LEMMA SubmitAdds ==
  ASSUME TypeOK, NEW touches \in BOOLEAN, NEW picture \in BOOLEAN, NEW copies \in BOOLEAN,
         Submit(touches, picture, copies)
  PROVE  LET b == Added(touches, picture, copies)
         IN  /\ b \in Batch /\ queue' = Append(queue, b) /\ UNCHANGED backbuffer
             /\ b.frame = frame_index /\ b.shot = copies
             /\ touches /\ backbuffer # None /\ acquired # None =>
                  b.acquire = acquired /\ b.image = backbuffer /\ acquired' = None
             /\ ~ touches => /\ b.acquire = None /\ b.image = None
                            /\ UNCHANGED <<acquired, present_image>>
  <1>1. Added(touches, picture, copies) \in Batch
    BY QueueTypes DEF Added, Batch
  <1>2. QED
    BY <1>1 DEF Added, Submit

\* A submit of the frame whose last one has completed.
LEMMA SubmitFrames ==
  ASSUME UseInv, FrameDone, NEW touches \in BOOLEAN, NEW picture \in BOOLEAN,
         NEW copies \in BOOLEAN, Submit(touches, picture, copies), wpc' \notin Holding,
         wpc' # "unused_wait"
  PROVE  FrameInv'
  <1> DEFINE b == Added(touches, picture, copies)
  <1> USE QueueTypes
  <1>1. b \in Batch /\ b.frame = frame_index
    BY SubmitAdds DEF UseInv
  <1>2. queue' = Append(queue, b)
    BY SubmitAdds DEF UseInv
  <1> HIDE DEF b
  <1>3. frames' = [frames EXCEPT ![frame_index] = Len(queue) + 1]
    BY DEF Submit, SubmitValue
  <1>4. ASSUME NEW i \in 1..Len(queue'), queue'[i].frame # None
        PROVE  i = frames'[queue'[i].frame]
    <2>1. CASE i = Len(queue) + 1
      BY <1>1, <1>2, <1>3, <2>1, Appended DEF UseInv
    <2>2. CASE i # Len(queue) + 1
      <3>1. i \in 1..Len(queue) /\ queue'[i] = queue[i]
        BY <1>1, <1>2, <2>2, Appended DEF UseInv
      <3>2. i = frames[queue[i].frame] /\ queue[i].frame \in Frames
        BY <1>4, <3>1 DEF UseInv, PresentInv, FrameInv, Batch
      <3>3. queue[i].frame # frame_index
        BY <3>1, <3>2 DEF FrameDone, Done
      <3>4. QED
        BY <1>3, <3>1, <3>2, <3>3 DEF UseInv
    <2>3. QED
      BY <2>1, <2>2
  <1>5. QED
    BY <1>4 DEF FrameInv

LEMMA SubmitFieldKeeps ==
  ASSUME UseInv, SubmitField
  PROVE  PresentInv'
  <1> DEFINE b == Added(FALSE, FALSE, FALSE)
  <1> USE QueueTypes
  <1>1. /\ wpc \notin Holding \cup {"unused_wait", "present", "image", "acquire"}
        /\ wpc' \in {"draw_wait", "barrier_wait", "scanout_wait"}
        /\ FrameDone /\ Submit(FALSE, FALSE, FALSE) /\ UNCHANGED <<chain, shot>>
    BY DEF SubmitField, AtWorker, Holding, chainVars, captureVars
  <1>2. b \in Batch
    BY <1>1, SubmitAdds DEF UseInv
  <1>3. queue' = Append(queue, b) /\ UNCHANGED <<acquired, backbuffer, present_image>>
    BY <1>1, SubmitAdds DEF UseInv
  <1>4. b.acquire = None /\ b.image = None /\ ~ b.shot
    BY <1>1, SubmitAdds DEF UseInv
  <1> HIDE DEF b
  <1>5. /\ Len(queue') = Len(queue) + 1 /\ queue'[Len(queue) + 1] = b
        /\ \A i \in 1..Len(queue) : queue'[i] = queue[i]
    BY <1>2, <1>3, Appended DEF UseInv
  <1>6. \A i \in 1..Len(queue') : i = Len(queue) + 1 \/ i \in 1..Len(queue)
    BY <1>5 DEF UseInv
  <1>7. FrameInv'
    BY <1>1, SubmitFrames DEF Holding
  <1>8. AcquireInv'
    BY <1>1, <1>3, <1>4, <1>5, <1>6 DEF UseInv, PresentInv, AcquireInv, Holding
  <1>9. ImageInv'
    <2>1. backbuffer = None /\ present_image = None
      BY <1>1 DEF UseInv, PresentInv, ImageInv
    <2>2. \A i \in 1..Len(queue') : queue'[i].image # None =>
            i \in 1..Len(queue) /\ queue'[i] = queue[i]
      BY <1>4, <1>5, <1>6
    <2>3. QED
      BY <1>1, <1>3, <2>1, <2>2 DEF UseInv, PresentInv, ImageInv, Holding
  <1>10. SlotInv'
    BY <1>1, <1>4, <1>5, <1>6 DEF UseInv, PresentInv, SlotInv, EmptySlots, Holding
  <1>11. QED
    BY <1>1, <1>7, <1>8, <1>9, <1>10 DEF PresentInv

LEMMA SubmitPresentKeeps ==
  ASSUME UseInv, SubmitPresent
  PROVE  PresentInv'
  <1> DEFINE copies == Captured # {}
             b == Added(TRUE, TRUE, copies)
  <1> USE QueueTypes
  <1>1. /\ wpc = "submit" /\ wpc' = "present" /\ wpc \in Holding
        /\ FrameDone /\ Submit(TRUE, TRUE, copies) /\ UNCHANGED chain
    BY DEF SubmitPresent, AtWorker, Holding, chainVars, UseInv, PresentInv, FrameInv
  <1>2. acquired = frame_index /\ backbuffer # None /\ backbuffer \in Images /\ chain # None
    BY <1>1 DEF UseInv, PresentInv, AcquireInv, ImageInv
  <1>3. b \in Batch
    BY <1>1, SubmitAdds DEF UseInv
  <1>4. queue' = Append(queue, b) /\ acquired' = None /\ UNCHANGED backbuffer
    BY <1>1, <1>2, SubmitAdds DEF UseInv
  <1>5. b.acquire = frame_index /\ b.frame = frame_index /\ b.image = backbuffer /\ b.shot = copies
    BY <1>1, <1>2, SubmitAdds DEF UseInv
  <1> HIDE DEF b
  <1>6. /\ Len(queue') = Len(queue) + 1 /\ queue'[Len(queue) + 1] = b
        /\ \A i \in 1..Len(queue) : queue'[i] = queue[i]
    BY <1>3, <1>4, Appended DEF UseInv
  <1>7. \A i \in 1..Len(queue') : i = Len(queue) + 1 \/ i \in 1..Len(queue)
    BY <1>6 DEF UseInv
  <1>8. FrameInv'
    BY <1>1, SubmitFrames DEF Holding
  <1>9. AcquireInv'
    <2>1. \A i \in 1..Len(queue) : queue[i].acquire # None => queue[i].acquire = queue[i].frame
      BY <1>1 DEF UseInv, PresentInv, AcquireInv
    <2>2. \A i \in 1..Len(queue') : queue'[i].acquire # None => queue'[i].acquire = queue'[i].frame
      BY <1>5, <1>6, <1>7, <2>1
    <2>3. QED
      BY <1>1, <1>4, <2>2 DEF AcquireInv, Holding
  <1>10. ImageInv'
    <2>1. \A i \in 1..Len(queue) : queue[i].image # None =>
            /\ queue[i].image # backbuffer
            /\ \A j \in 1..Len(queue) : i # j => queue[i].image # queue[j].image
      BY <1>1 DEF UseInv, PresentInv, ImageInv
    <2>2. \A i, j \in 1..Len(queue') : queue'[i].image # None /\ i # j =>
            queue'[i].image # queue'[j].image
      BY <1>2, <1>5, <1>6, <1>7, <2>1
    <2>3. QED
      BY <1>1, <1>2, <1>4, <2>2 DEF ImageInv, Holding
  <1>11. SlotInv'
    <2>1. \A i \in 1..Len(queue) : ~ queue[i].shot
      BY <1>1 DEF UseInv, PresentInv, SlotInv, EmptySlots, Shots
    <2>2. copies => "pre" \in Captured
      BY DEF Captured, Shots, UseInv, TypeOK
    <2> HIDE DEF copies
    <2>3. copies => shot'["pre"] = [age |-> "last", timeline |-> Len(queue) + 1]
      BY <2>2 DEF SubmitPresent, SubmitValue, Shots
    <2>4. [age |-> "last", timeline |-> Len(queue) + 1] \in Shot
      BY DEF Shot, Age, UseInv
    <2>5. \A i \in 1..Len(queue') : queue'[i].shot =>
            copies /\ i <= Len(queue) + 1
      BY <1>5, <1>6, <1>7, <2>1
    <2>6. ASSUME NEW i \in 1..Len(queue'), queue'[i].shot
          PROVE  shot'["pre"] # None /\ i <= shot'["pre"].timeline
      BY <2>3, <2>4, <2>5, <2>6 DEF UseInv
    <2>7. EmptySlots'
      BY <1>1 DEF EmptySlots, Holding
    <2>8. QED
      BY <2>6, <2>7 DEF SlotInv
  <1>12. QED
    BY <1>1, <1>8, <1>9, <1>10, <1>11 DEF PresentInv

LEMMA DrainUnusedKeeps ==
  ASSUME UseInv, DrainUnused
  PROVE  PresentInv'
  <1> DEFINE b == [frame |-> None, acquire |-> acquired, image |-> None,
                   picture |-> FALSE, shot |-> FALSE]
  <1> USE QueueTypes
  <1>1. /\ wpc = "unused" /\ wpc' = "unused_wait" /\ wpc \in Holding /\ acquired' = None
        /\ UNCHANGED <<frames, frame_index, backbuffer, present_image, chain, shot>>
    BY DEF DrainUnused, AtWorker, DrainAcquire, Holding, captureVars
  <1>2. acquired = frame_index /\ FrameDone
    BY <1>1 DEF UseInv, PresentInv, AcquireInv, FrameInv
  <1>3. b \in Batch
    BY <1>2 DEF UseInv, Batch
  <1>4. queue' = Append(queue, b)
    BY DEF DrainUnused, DrainAcquire
  <1>5. b.acquire = frame_index /\ b.frame = None /\ b.image = None /\ ~ b.shot
    BY <1>2
  <1> HIDE DEF b
  <1>6. /\ Len(queue') = Len(queue) + 1 /\ queue'[Len(queue) + 1] = b
        /\ \A i \in 1..Len(queue) : queue'[i] = queue[i]
    BY <1>3, <1>4, Appended DEF UseInv
  <1>7. \A i \in 1..Len(queue') : i = Len(queue) + 1 \/ i \in 1..Len(queue)
    BY <1>6 DEF UseInv
  <1>8. FrameInv'
    BY <1>1, <1>2, <1>5, <1>6, <1>7 DEF UseInv, PresentInv, FrameInv, FrameDone
  <1>9. AcquireInv'
    <2>1. \A i \in 1..Len(queue) : queue[i].acquire # None => queue[i].acquire = queue[i].frame
      BY <1>1 DEF UseInv, PresentInv, AcquireInv
    <2>2. QED
      BY <1>1, <1>5, <1>6, <1>7, <2>1 DEF AcquireInv, Holding
  <1>10. ImageInv'
    <2>1. \A i \in 1..Len(queue') : queue'[i].image # None =>
            i \in 1..Len(queue) /\ queue'[i] = queue[i]
      BY <1>5, <1>6, <1>7
    <2>2. \A i \in 1..Len(queue') : (i \in 1..Len(queue) /\ queue'[i] = queue[i]) \/ queue'[i].image = None
      BY <1>5, <1>6, <1>7
    <2>3. QED
      BY <1>1, <2>1, <2>2 DEF UseInv, PresentInv, ImageInv, Holding
  <1>11. SlotInv'
    BY <1>1, <1>5, <1>6, <1>7 DEF UseInv, PresentInv, SlotInv, EmptySlots, Holding
  <1>12. QED
    BY <1>1, <1>8, <1>9, <1>10, <1>11 DEF PresentInv

LEMMA CompletesKeeps ==
  ASSUME UseInv, GpuCompletes
  PROVE  PresentInv'
  <1> USE QueueTypes
  <1>1. /\ queue # <<>> /\ queue' = Tail(queue) /\ Len(queue') = Len(queue) - 1
        /\ Len(queue) \in Nat \ {0}
        /\ \A i \in 1..(Len(queue) - 1) : queue'[i] = queue[i + 1]
    BY TailAt DEF GpuCompletes, Completes, UseInv
  <1>2. /\ frames' = [f \in Frames |-> Closer(frames[f])]
        /\ UNCHANGED <<wpc, frame_index, acquired, backbuffer, present_image, chain>>
    BY DEF GpuCompletes, Completes, chainVars, imageVars
  <1>3. ASSUME NEW i \in 1..Len(queue')
        PROVE  /\ i \in Nat \ {0} /\ i + 1 \in 1..Len(queue) /\ queue'[i] = queue[i + 1]
               /\ i = Len(queue') <=> i + 1 = Len(queue)
    BY <1>1
  <1>4. FrameInv'
    <2>1. ASSUME NEW i \in 1..Len(queue'), queue'[i].frame # None
          PROVE  i = frames'[queue'[i].frame]
      <3>1. i + 1 = frames[queue[i + 1].frame] /\ queue[i + 1].frame \in Frames
        BY <1>3, <2>1 DEF UseInv, PresentInv, FrameInv, Batch
      <3>2. frames'[queue'[i].frame] = Closer(i + 1)
        BY <1>2, <1>3, <3>1
      <3>3. QED
        BY <1>3, <3>2 DEF Closer
    <2>2. FrameDone => FrameDone'
      BY <1>2 DEF FrameDone, Done, Closer, UseInv
    <2>3. QED
      BY <1>2, <2>1, <2>2 DEF UseInv, PresentInv, FrameInv
  <1>5. AcquireInv'
    BY <1>2, <1>3, SMTT(30) DEF UseInv, PresentInv, AcquireInv
  <1>6. ImageInv'
    <2>0. \A i \in 1..Len(queue) : queue[i].image # None =>
            /\ chain # None
            /\ wpc # "present" => queue[i].image # backbuffer
            /\ \A j \in 1..Len(queue) : i # j => queue[i].image # queue[j].image
      BY DEF UseInv, PresentInv, ImageInv
    <2>1. ASSUME NEW i \in 1..Len(queue'), NEW j \in 1..Len(queue'),
                 queue'[i].image # None, i # j
          PROVE  queue'[i].image # queue'[j].image
      <3>1. i + 1 \in 1..Len(queue) /\ j + 1 \in 1..Len(queue) /\ i + 1 # j + 1
        <4>1. /\ i \in Nat /\ i + 1 \in 1..Len(queue)
              /\ j \in Nat /\ j + 1 \in 1..Len(queue)
          BY <1>3
        <4>2. QED
          BY <2>1, <4>1
      <3>2. queue'[i] = queue[i + 1] /\ queue'[j] = queue[j + 1]
        BY <1>3
      <3>3. QED
        BY <2>0, <2>1, <3>1, <3>2
    <2>2. ASSUME NEW i \in 1..Len(queue'), queue'[i].image # None
          PROVE  chain # None /\ (wpc # "present" => queue'[i].image # backbuffer)
      <3>1. i + 1 \in 1..Len(queue) /\ queue'[i] = queue[i + 1]
        BY <1>3
      <3>2. QED
        BY <2>0, <2>2, <3>1
    <2>3. QED
      BY <1>2, <2>1, <2>2 DEF UseInv, PresentInv, ImageInv
  <1>7. SlotInv'
    <2>1. \A s \in Shots : shot[s] = None => shot'[s] = None
      BY DEF GpuCompletes
    <2>2. ASSUME NEW i \in 1..Len(queue'), queue'[i].shot
          PROVE  shot'["pre"] # None /\ i <= shot'["pre"].timeline
      <3>1. shot["pre"] \in Shot /\ i + 1 <= shot["pre"].timeline
        BY <1>3, <2>2 DEF UseInv, PresentInv, SlotInv, Shots
      <3>2. shot'["pre"] = [shot["pre"] EXCEPT !.timeline = Closer(@)]
        BY <3>1 DEF GpuCompletes, Shots, UseInv
      <3>3. /\ shot["pre"].timeline \in Nat /\ shot'["pre"] \in Shot
            /\ shot'["pre"].timeline = Closer(shot["pre"].timeline)
        BY <3>1, <3>2 DEF Shot, Closer
      <3>4. QED
        BY <1>3, <3>1, <3>3 DEF Closer, UseInv
    <2>3. QED
      BY <1>2, <2>1, <2>2 DEF UseInv, PresentInv, SlotInv, EmptySlots
  <1>8. wpc' = "destroy" => Idle'
    BY <1>1, <1>2 DEF UseInv, PresentInv, Idle
  <1>9. QED
    BY <1>4, <1>5, <1>6, <1>7, <1>8 DEF PresentInv

LEMMA AcquireKeeps ==
  ASSUME UseInv, AcquireRebuild \/ AcquireImage
  PROVE  PresentInv'
  <1> USE QueueTypes
  <1>1. wpc \in {"acquire", "image"} /\ wpc' \in {"idle", "image", "record", "unused"}
    BY DEF AcquireRebuild, AcquireImage, Answers
  <1>2. acquired = None /\ backbuffer = None /\ present_image = None
    BY <1>1 DEF UseInv, PresentInv, AcquireInv, ImageInv, Holding
  <1>3. \A i \in 1..Len(queue) : queue[i].acquire # None => queue[i].acquire = queue[i].frame
    BY <1>1 DEF UseInv, PresentInv, AcquireInv
  <1>4. EmptySlots' /\ UNCHANGED shot /\ \A s \in Shots : shot[s] = None
    BY <1>1 DEF AcquireRebuild, AcquireImage, UseInv, PresentInv, SlotInv, EmptySlots, captureVars
  <1>5. CASE AcquireRebuild
    <2>1. /\ queue = <<>> /\ UNCHANGED <<queue, frames, frame_index>>
          /\ acquired' = None /\ backbuffer' = None /\ present_image' = None
          /\ wpc' = "idle" \/ (wpc' = "image" /\ chain' # None)
      BY <1>5 DEF AcquireRebuild, Rebuild, Idle, deviceVars
    <2>2. 1..Len(queue') = {}
      BY <2>1
    <2>3. QED
      BY <1>4, <2>1, <2>2
         DEF PresentInv, FrameInv, AcquireInv, ImageInv, SlotInv, Holding
  <1>6. CASE AcquireImage
    <2>1. PICK answer \in Answers : AcquireNextImage(answer)
                /\ wpc' = CASE answer = "success"     -> "record"
                            [] answer = "suboptimal"  -> "unused"
                            [] answer = "out_of_date" -> "idle"
      BY <1>6 DEF AcquireImage
    <2>2. FrameDone /\ UNCHANGED <<queue, frames, frame_index, chain>> /\ chain # None
      BY <1>6, <2>1 DEF AcquireNextImage, AcquireImage, MustRebuild, UseInv, PresentInv, ImageInv,
                        deviceVars
    <2>3. FrameInv'
      BY <2>2 DEF UseInv, PresentInv, FrameInv, FrameDone
    <2>4. SlotInv'
      BY <1>4, <2>2 DEF UseInv, PresentInv, SlotInv
    <2>5. CASE answer = "out_of_date"
      <3>1. wpc' = "idle" /\ UNCHANGED <<acquired, backbuffer, present_image>>
        BY <2>1, <2>5 DEF AcquireNextImage, imageVars
      <3>2. QED
        BY <1>2, <1>3, <2>2, <2>3, <2>4, <3>1
           DEF UseInv, PresentInv, AcquireInv, ImageInv, Holding
    <2>6. CASE answer # "out_of_date"
      <3>1. PICK i \in Images : /\ \A b \in Queued : b.image # i
                                /\ backbuffer' = i
        BY <2>1, <2>6 DEF AcquireNextImage
      <3>2. acquired' = frame_index /\ present_image' = None /\ wpc' \in Holding
            /\ wpc' \in {"record", "unused"}
        BY <1>2, <2>1, <2>6 DEF AcquireNextImage, Answers, Holding
      <3>3. \A j \in 1..Len(queue) : queue[j].image # i
        BY <3>1 DEF Queued
      <3>4. AcquireInv'
        BY <1>3, <2>2, <3>2 DEF AcquireInv
      <3>5. ImageInv'
        BY <2>2, <3>1, <3>2, <3>3 DEF UseInv, PresentInv, ImageInv
      <3>6. QED
        BY <2>3, <2>4, <3>2, <3>4, <3>5 DEF PresentInv
    <2>7. QED
      BY <2>5, <2>6
  <1>7. QED
    BY <1>5, <1>6

LEMMA ReleaseKeeps ==
  ASSUME UseInv, AbandonImage \/ PresentFrame \/ BeginPresent
  PROVE  PresentInv'
  <1> USE QueueTypes
  <1>1. UNCHANGED <<queue, frames, frame_index, chain, acquired, shot>>
    BY DEF AbandonImage, PresentFrame, BeginPresent, Abandon, Present, swapVars, deviceVars,
           chainVars, imageVars, captureVars
  <1>2. CASE BeginPresent
    <2>1. /\ wpc = "record" /\ wpc' = "submit" /\ wpc \in Holding /\ wpc' \in Holding
          /\ FrameDone /\ UNCHANGED <<backbuffer, present_image>>
      BY <1>2 DEF BeginPresent, AtWorker, Holding, swapVars, imageVars
    <2>2. QED
      BY <1>1, <2>1 DEF UseInv, PresentInv, FrameInv, FrameDone, AcquireInv, ImageInv, SlotInv,
                        EmptySlots
  <1>3. CASE AbandonImage \/ PresentFrame
    <2>1. /\ wpc' = "idle" /\ wpc \in {"unused_wait", "present"} /\ backbuffer' = None
          /\ present_image' = None
      BY <1>3 DEF AbandonImage, PresentFrame, AtWorker, Abandon, Present, UseInv, PresentInv,
                  ImageInv
    <2>2. wpc = "unused_wait" => Len(queue) = 0
      BY <1>3, <2>1 DEF AbandonImage, PresentFrame, AtWorker, Abandon, Idle
    <2>3. \A i \in 1..Len(queue) : queue[i].acquire # None => queue[i].acquire = queue[i].frame
      BY <2>1, <2>2 DEF UseInv, PresentInv, AcquireInv
    <2>4. FrameInv' /\ AcquireInv'
      BY <1>1, <2>1, <2>3 DEF UseInv, PresentInv, FrameInv, AcquireInv, Holding
    <2>5. ImageInv' /\ SlotInv'
      BY <1>1, <2>1 DEF UseInv, PresentInv, ImageInv, SlotInv, EmptySlots, Holding
    <2>6. QED
      BY <2>1, <2>4, <2>5 DEF PresentInv
  <1>4. QED
    BY <1>2, <1>3

LEMMA StepPresent ==
  ASSUME UseInv, Next
  PROVE  PresentInv'
  <1> USE QueueTypes
  <1>1. CASE TickArm
    <2>1. UNCHANGED deviceState /\ UNCHANGED wpc /\ shot' = StaleShots
      BY <1>1 DEF TickArm, deviceState, swapVars, deviceVars, chainVars, imageVars
    <2>2. \A s \in Shots : shot[s] = None => shot'[s] = None
      BY <2>1 DEF StaleShots
    <2>3. ASSUME shot["pre"] # None
          PROVE  shot'["pre"] # None /\ shot'["pre"].timeline = shot["pre"].timeline
      <3>1. shot["pre"] \in Shot /\ shot'["pre"] = [shot["pre"] EXCEPT !.age = Stale(@)]
        BY <2>1, <2>3 DEF StaleShots, Shots, UseInv
      <3>2. shot["pre"].age \in Age
        BY <3>1 DEF Shot
      <3>3. shot'["pre"] \in Shot /\ shot'["pre"].timeline = shot["pre"].timeline
        BY <3>1, <3>2 DEF Shot, Stale, Age
      <3>4. QED
        BY <3>3 DEF UseInv
    <2>4. QED
      BY <2>1, <2>2, <2>3, Waiting
  <1>2. ASSUME UNCHANGED deviceState, UNCHANGED <<wpc, shot>>
        PROVE  PresentInv'
    BY <1>2, Waiting
  <1>3. CASE WindowChanges \/ Press \/ Settings \/ SeeResize \/ NotifyWorker \/ SampleState
             \/ EndOfField \/ DiscardPost \/ RequestScreenshot \/ TickIdle \/ Query \/ Copy
             \/ Drop \/ Missed \/ CopyPost \/ GiveUp
    <2>1. UNCHANGED <<swapVars, wpc, shot>>
      BY <1>3 DEF WindowChanges, Press, Settings, SeeResize, NotifyWorker, SampleState,
             EndOfField, DiscardPost, RequestScreenshot, TickIdle, Query, Copy, Drop, Missed,
             CopyPost, GiveUp, workerVars, captureVars
    <2>2. QED
      BY <1>2, <2>1 DEF deviceState, swapVars, deviceVars, chainVars, imageVars
  <1>4. CASE ReplayPresentMode \/ ReplayRequest \/ ReplayVsync \/ PlanField \/ Refit
             \/ FieldWait \/ Latch \/ TakeResize \/ SyncWindow \/ DrainEnds \/ Repeat
    <2>1. UNCHANGED <<deviceState, shot>>
      BY <1>4 DEF ReplayPresentMode, ReplayRequest, ReplayVsync, PlanField, Refit, FieldWait,
                  Latch, TakeResize, SyncWindow, DrainEnds, Repeat, SetPresentMode,
                  NotifyResize, deviceState, swapVars, deviceVars, chainVars, imageVars,
                  workerVars, captureVars
    <2>2. /\ wpc \notin Holding \cup {"unused_wait", "present", "image"}
          /\ wpc' \notin Holding \cup {"unused_wait", "present", "image"}
      BY <1>4 DEF ReplayPresentMode, ReplayRequest, ReplayVsync, Replay, PlanField, Refit,
                  FieldWait, Latch, TakeResize, SyncWindow, DrainEnds, Repeat, AtWorker, Holding,
                  workerVars
    <2>3. /\ wpc' = "destroy" => Idle
          /\ wpc' = "acquire" => \A s \in Shots : shot[s] = None
      BY <1>4 DEF ReplayPresentMode, ReplayRequest, ReplayVsync, Replay, PlanField, Refit,
                  FieldWait, Latch, TakeResize, SyncWindow, DrainEnds, Repeat, AtWorker,
                  workerVars
    <2>4. QED
      BY <2>1, <2>2, <2>3, Elsewhere
  <1>5. ASSUME NEW s \in Shots, DrainShot(s) PROVE PresentInv'
    <2>1. /\ UNCHANGED deviceState /\ UNCHANGED wpc /\ shot[s] \in Shot
          /\ shot[s].timeline = 0 /\ shot' = [shot EXCEPT ![s] = None]
      BY <1>5 DEF DrainShot, Done, deviceState, swapVars, deviceVars, chainVars, imageVars, UseInv
    <2>2. \A r \in Shots : shot[r] = None => shot'[r] = None
      BY <2>1 DEF UseInv
    <2>3. shot["pre"].timeline = 0 \/ shot'["pre"] = shot["pre"]
      BY <2>1 DEF UseInv
    <2>4. QED
      BY <2>1, <2>2, <2>3, Waiting
  <1>6. QED
    BY <1>1, <1>3, <1>4, <1>5, SubmitFieldKeeps, SubmitPresentKeeps, DrainUnusedKeeps,
       CompletesKeeps, AcquireKeeps, ReleaseKeeps
       DEF Next, EE, Tick, Worker, Field, Pump

LEMMA UseIsExclusive == UseInv => NothingInUseIsTouched
  <1> SUFFICES ASSUME UseInv PROVE NothingInUseIsTouched
    OBVIOUS
  <1> USE QueueTypes
  <1>1. ASSUME NEW i \in 1..Len(queue), NEW j \in 1..Len(queue), i # j
        PROVE  /\ queue[i].frame # None => queue[i].frame # queue[j].frame
               /\ queue[i].acquire # None => queue[i].acquire # queue[j].acquire
               /\ queue[i].image # None => queue[i].image # queue[j].image
    <2>1. queue[i].frame # None => queue[i].frame # queue[j].frame
      BY <1>1 DEF UseInv, PresentInv, FrameInv
    <2>2. wpc = "unused_wait" => queue[i].frame # frame_index /\ queue[j].frame # frame_index
      BY DEF UseInv, PresentInv, FrameInv, FrameDone, Done
    <2>3. queue[i].acquire # None => queue[i].acquire # queue[j].acquire
      BY <1>1, <2>1, <2>2 DEF UseInv, PresentInv, AcquireInv
    <2>4. QED
      BY <1>1, <2>1, <2>3 DEF UseInv, PresentInv, ImageInv
  <1>2. ASSUME NEW b \in Queued
        PROVE  /\ wpc = "submit" => b.frame # frame_index
               /\ acquired # None => b.acquire # acquired
               /\ backbuffer # None /\ wpc # "present" => b.image # backbuffer
               /\ wpc = "destroy" => ~ b.picture
               /\ b.image # None => chain # None
               /\ b.shot => shot["pre"] # None
    <2>1. PICK i \in 1..Len(queue) : b = queue[i]
      BY DEF Queued
    <2>2. wpc \in Holding => b.frame # frame_index
      BY <2>1 DEF UseInv, PresentInv, FrameInv, FrameDone, Done
    <2>3. acquired # None => b.acquire # acquired
      BY <2>1, <2>2 DEF UseInv, PresentInv, AcquireInv, Holding
    <2>4. QED
      BY <2>1, <2>2, <2>3 DEF UseInv, PresentInv, ImageInv, SlotInv, Holding, Idle
  <1>3. wpc = "acquire" => acquired = None /\ present_image = None
    BY DEF UseInv, PresentInv, AcquireInv, ImageInv, Holding
  <1>4. wpc = "submit" => \A s \in Captured : shot[s] = None
    BY DEF UseInv, PresentInv, SlotInv, EmptySlots, Holding, Captured, Shots, TypeOK
  <1>5. FramesAreOwn
    BY <1>1, <1>2 DEF FramesAreOwn
  <1>6. QED
    BY <1>2, <1>3, <1>4, <1>5 DEF NothingInUseIsTouched

\* Whatever the device completes and when: a frame's pools, its semaphore, an
\* image, the frame image, the swapchain and a readback have one user at a
\* time (rhi_vulkan_device.cpp, begin_command_list, acquire_backbuffer, submit).
THEOREM NothingInUseIsTouchedCorrect == Spec => []NothingInUseIsTouched
  <1>1. Init => PresentInv
    <2> SUFFICES ASSUME Init PROVE PresentInv
      OBVIOUS
    <2>1. 1..Len(queue) = {} /\ wpc = "idle"
      BY DEF Init, SwapInit
    <2>2. acquired = None /\ backbuffer = None /\ present_image = None
      BY DEF Init, SwapInit
    <2>3. QED
      BY <2>1, <2>2 DEF PresentInv, FrameInv, AcquireInv, ImageInv, SlotInv, EmptySlots, Holding
  <1>2. TypeOK /\ PresentInv /\ [Next]_vars => PresentInv'
    <2>1. ASSUME UseInv, UNCHANGED vars PROVE PresentInv'
      <3>1. UNCHANGED deviceState /\ UNCHANGED <<wpc, shot>>
        BY <2>1 DEF vars, deviceState, swapVars, deviceVars, chainVars, imageVars, workerVars,
                    captureVars
      <3>2. QED
        BY <2>1, <3>1, Waiting
    <2>2. QED
      BY <2>1, StepPresent DEF UseInv
  <1>3. TypeOK /\ PresentInv => NothingInUseIsTouched
    BY UseIsExclusive DEF UseInv
  <1>4. QED
    BY <1>1, <1>2, <1>3, PresentTypeCorrect, PTL DEF Spec
=============================================================================

-------------------------------- MODULE GsRing --------------------------------
(***************************************************************************)
(* The GS command ring (src/runtime/gs/gs_threaded.{h,cpp}) in Worker      *)
(* mode: the EE thread encodes backend calls as records of a byte ring,    *)
(* the worker thread replays them into the inner backend, and each sleeps  *)
(* on a condition variable the other one wakes.                            *)
(*                                                                         *)
(* The handshake rests on fences, so memory is not sequentially            *)
(* consistent here: a thread's atomic stores reach the other thread later  *)
(* and in order, at the latest at its next fence or when it releases the   *)
(* mutex, while its own loads run ahead of them.  The unit of the ring is  *)
(* kRecordAlign, a record is 1..Cap units, and a record's payload is the   *)
(* record itself repeated over the units it fills.                         *)
(*                                                                         *)
(* The operators named Bug... are the plausible mistakes the properties    *)
(* are tested against; nothing in the specification uses them.             *)
(***************************************************************************)
EXTENDS Integers, SequencesExt

CONSTANTS
  Cap,       \* m_capacity, in units
  Sizes,     \* sizes of the records the EE writes, header included
  MaxOps,    \* bound: records the EE commits
  Timeouts,  \* the bounded waits (kWaitStep, 2 ms) may run out
  Worries    \* what the world around the ring does beyond the usual

ASSUME CapAssumption      == Cap \in Nat \ {0}
ASSUME SizesAssumption    == Sizes \subseteq 1..Cap
ASSUME MaxOpsAssumption   == MaxOps \in Nat
ASSUME TimeoutsAssumption == Timeouts \in BOOLEAN

(***************************************************************************)
(* "window": the window may be minimized, restored and closed.             *)
(* "repeat": display.present_rate is set, the park loop presents too.      *)
(* "inner":  the inner backend may raise a fatal on the worker.            *)
(* "late":   the worker may miss the 1 s deadline of quiesce.              *)
(***************************************************************************)
ASSUME WorriesAssumption == Worries \subseteq {"window", "repeat", "inner", "late"}

Offset == 0..(Cap - 1)
Kind   == {"data", "vsync", "call", "wrap"}

\* The atomics one thread writes and the other reads, flags as 0 and 1.
EELoc == {"head", "space_waiting", "progress_waiting", "shutdown"}
GSLoc == {"tail", "consumer_waiting", "vsync_done", "reply_seq", "reply_value", "exited"}

VARIABLES
  mem, sb,     \* the atomics, and each thread's stores still on their way there
  mu,          \* who holds m_mu
  buf,         \* m_buf: for each unit, the record written there
  epc, rec,    \* the EE thread: where it is, the record it writes, its
  why, vseq,   \*   reason to wait ("space", "field", "reply"), m_vsync_seq,
  cseq, got,   \*   m_call_seq, and the last value await_reply returned
  gpc, back,   \* the worker: where it is, where wake_producer returns to,
  upto, vseen, \*   drain's local head, m_vsync_seen
  ran,         \* m_records_replayed
  fault,       \* the rt_fatal or exit that ends the run
  window,      \* the real window, and its state as the last pump sampled it
  sampled

memVars == <<mem, sb>>
eeVars  == <<rec, why, vseq, cseq, got>>
gsVars  == <<back, upto, vseen, ran>>
winVars == <<window, sampled>>
vars    == <<memVars, mu, buf, epc, eeVars, gpc, gsVars, fault, winVars>>

-----------------------------------------------------------------------------
(* Atomics, fences, the mutex and the condition variables *)

\* The newest of the stores to loc, or what reached memory m.
Newest(stores, m, loc) ==
  LET own == {i \in DOMAIN stores : stores[i].loc = loc}
  IN  IF own = {} THEN m[loc] ELSE stores[Max(own)].val

\* A load by thread t sees its own stores first.
Load(t, loc) == Newest(sb[t], mem, loc)

Delay(t, stores) == sb' = [sb EXCEPT ![t] = @ \o stores] /\ UNCHANGED mem
Store(t, loc, v) == Delay(t, <<[loc |-> loc, val |-> v]>>)
Reload           == UNCHANGED memVars

\* atomic_thread_fence(seq_cst); releasing m_mu publishes as much.
Drained(t) == sb[t] = <<>>
Fence(t)   == Drained(t)

\* Memory takes the oldest store of t.
Flush(t) ==
  /\ sb[t] # <<>>
  /\ mem' = [mem EXCEPT ![Head(sb[t]).loc] = Head(sb[t]).val]
  /\ sb'  = [sb EXCEPT ![t] = Tail(@)]
  /\ UNCHANGED <<mu, buf, epc, eeVars, gpc, gsVars, fault, winVars>>

Lock(t)   == mu = "free" /\ mu' = t
Unlock(t) == Drained(t) /\ mu' = "free"

\* { lock_guard lk(m_mu); } and then notify: a sleeping thread wakes up.
Pass       == mu = "free" /\ UNCHANGED mu
NotifyGS   == gpc' = IF gpc = "asleep" THEN "awake" ELSE gpc
NotifyEE   == epc' = IF epc \in {"asleep", "qAsleep"}
                     THEN IF epc = "asleep" THEN "awake" ELSE "qAwake" ELSE epc

-----------------------------------------------------------------------------
(* The EE thread: begin_record, ensure_space, commit, wake_consumer *)

head  == Load("ee", "head")
BugToEndOffByOne == Cap - 1 - (head % Cap)
ToEnd == Cap - (head % Cap)

\* The bytes begin_record asks ensure_space for: the record, or the Wrap
\* record that fills the end of the buffer before it.
Need == IF rec.size > ToEnd THEN ToEnd ELSE rec.size

BugRoomOffByOne == Cap - (head - Load("ee", "tail")) + 1 >= Need
HasRoom == Cap - (head - Load("ee", "tail")) >= Need

Wrap(n) == [kind |-> "wrap", id |-> 0, size |-> n, arg |-> 0]

Running == fault # "ended"

EEOnly(to) == epc' = to /\ UNCHANGED <<gpc, gsVars>>

\* A call of the GsBackend interface; a vsync is one field of
\* rt_gs_vsync_hook, which pumps the window before it and syncs after it.
Call(kind, size) ==
  /\ epc = "idle" /\ rec.id < MaxOps
  /\ kind = "vsync" => size = 1
  /\ vseq' = IF kind = "vsync" THEN vseq + 1 ELSE vseq
  /\ cseq' = IF kind = "call" THEN cseq + 1 ELSE cseq
  /\ rec' = [kind |-> kind, id |-> rec.id + 1, size |-> size,
             arg |-> IF kind = "vsync" THEN vseq' ELSE IF kind = "call" THEN cseq' ELSE 0]
  /\ sampled' = IF kind = "vsync" THEN window ELSE sampled
  /\ got' = 0
  /\ Reload /\ EEOnly("room")
  /\ UNCHANGED <<mu, buf, why, fault, window>>

WriteWrap ==
  /\ epc = "room" /\ HasRoom /\ rec.size > ToEnd
  /\ buf' = [buf EXCEPT ![head % Cap] = Wrap(ToEnd)]
  /\ Store("ee", "head", head + ToEnd) /\ EEOnly("room")
  /\ UNCHANGED <<mu, eeVars, fault, winVars>>

WriteRecord ==
  /\ epc = "room" /\ HasRoom /\ rec.size <= ToEnd
  /\ buf' = [o \in Offset |->
               IF o \in (head % Cap)..((head % Cap) + rec.size - 1) THEN rec ELSE buf[o]]
  /\ Reload /\ EEOnly("commit")
  /\ UNCHANGED <<mu, eeVars, fault, winVars>>

\* commit stores the head; then wake_consumer fences, reads the flag and
\* notifies.
Commit ==
  /\ epc = "commit" /\ Store("ee", "head", head + rec.size) /\ EEOnly("wake")
  /\ UNCHANGED <<mu, buf, eeVars, fault, winVars>>

BugNoWakeFence ==
  /\ epc = "wake" /\ Reload /\ EEOnly("wakeRead")
  /\ UNCHANGED <<mu, buf, eeVars, fault, winVars>>
WakeFence ==
  /\ epc = "wake" /\ Fence("ee") /\ Reload /\ EEOnly("wakeRead")
  /\ UNCHANGED <<mu, buf, eeVars, fault, winVars>>

\* What a call does once its record is committed.
After(kind) ==
  IF kind = "call" THEN "lock"
  ELSE IF kind = "data" THEN "idle"
  ELSE IF Load("ee", "vsync_done") >= vseq - 1 THEN "boundary" ELSE "lock"

WakeRead ==
  /\ epc = "wakeRead"
  /\ EEOnly(IF Load("ee", "consumer_waiting") = 1 THEN "wakeNotify" ELSE "after")
  /\ Reload /\ UNCHANGED <<mu, buf, eeVars, fault, winVars>>

WakeNotify ==
  /\ epc = "wakeNotify" /\ Pass /\ NotifyGS /\ epc' = "after"
  /\ Reload /\ UNCHANGED <<buf, eeVars, gsVars, fault, winVars>>

\* await_reply and field_sync up to their m_mu; field_sync has two early
\* returns, the second field not yet committed and the field already done.
Committed ==
  /\ epc = "after" /\ EEOnly(After(rec.kind))
  /\ why' = IF rec.kind = "vsync" THEN "field" ELSE IF rec.kind = "call" THEN "reply" ELSE why
  /\ Reload /\ UNCHANGED <<mu, buf, rec, vseq, cseq, got, fault, winVars>>

-----------------------------------------------------------------------------
(* The EE thread waits: back_pressure, await_reply, field_sync *)

Ends(cause) == fault' = IF fault = "none" THEN cause ELSE fault

\* ensure_space found no room; back_pressure first rules out an empty ring.
Stall ==
  /\ epc = "room" /\ ~ HasRoom /\ why' = "space"
  /\ Reload /\ EEOnly("stall")
  /\ UNCHANGED <<mu, buf, rec, vseq, cseq, got, fault, winVars>>

RuleOutEmpty ==
  /\ epc = "stall"
  /\ IF head = Load("ee", "tail")
       THEN Ends("noFit") /\ EEOnly("quiesce") ELSE EEOnly("lock") /\ UNCHANGED fault
  /\ Reload /\ UNCHANGED <<mu, buf, eeVars, winVars>>

WaitFlag == IF why = "space" THEN "space_waiting" ELSE "progress_waiting"

LockAndFlag ==
  /\ epc = "lock" /\ Lock("ee") /\ Store("ee", WaitFlag, 1) /\ EEOnly("waitFence")
  /\ UNCHANGED <<buf, eeVars, fault, winVars>>

BugNoWaitFence ==
  /\ epc = "waitFence" /\ Reload /\ EEOnly("test")
  /\ UNCHANGED <<mu, buf, eeVars, fault, winVars>>
WaitFence ==
  /\ epc = "waitFence" /\ Fence("ee") /\ Reload /\ EEOnly("test")
  /\ UNCHANGED <<mu, buf, eeVars, fault, winVars>>

BugReplyTooEarly ==
  CASE why = "space" -> HasRoom
    [] why = "field" -> Load("ee", "vsync_done") >= vseq - 1
    [] why = "reply" -> Load("ee", "reply_seq") >= cseq - 1
BugTwoFieldsInFlight ==
  CASE why = "space" -> HasRoom
    [] why = "field" -> Load("ee", "vsync_done") >= vseq - 2
    [] why = "reply" -> Load("ee", "reply_seq") >= cseq
Satisfied ==
  CASE why = "space" -> HasRoom
    [] why = "field" -> Load("ee", "vsync_done") >= vseq - 1
    [] why = "reply" -> Load("ee", "reply_seq") >= cseq

Stopped == Load("ee", "exited") = 1
Closed  == sampled = "closed"

\* Where the wait goes on to once it is over and m_mu is released.
Resume == CASE why = "space" -> "room" [] why = "field" -> "boundary" [] why = "reply" -> "reply"

\* The loop ends: the condition holds, the worker has stopped, or field_sync
\* leaves a closed window to its caller.
EndWait ==
  /\ epc = "test" /\ Store("ee", WaitFlag, 0)
  /\ \/ Satisfied /\ EEOnly("unlock") /\ UNCHANGED fault
     \/ ~ Satisfied /\ Stopped /\ EEOnly("unlockExit") /\ Ends("stopped")
     \/ ~ Satisfied /\ ~ Stopped /\ Closed /\ why = "field" /\ EEOnly("unlock") /\ UNCHANGED fault
  /\ UNCHANGED <<mu, buf, eeVars, winVars>>

\* closed_window_timeout: a second of a closed window in one of the two waits
\* whose caller has nothing to return.
GiveUp ==
  /\ epc = "test" /\ why # "field" /\ ~ Satisfied /\ ~ Stopped /\ Closed
  /\ Store("ee", WaitFlag, 0) /\ EEOnly("unlockExit") /\ Ends("closed")
  /\ UNCHANGED <<mu, buf, eeVars, winVars>>

LeaveWait ==
  /\ epc \in {"unlock", "unlockExit"} /\ EEOnly(IF epc = "unlock" THEN Resume ELSE "quiesce")
  /\ Unlock("ee") /\ why' = "space"
  /\ Reload /\ UNCHANGED <<buf, rec, vseq, cseq, got, fault, winVars>>

\* The wait goes on, on what the loads above have returned.
StillWaiting ==
  /\ epc = "test" /\ ~ Satisfied /\ ~ Stopped
  /\ Closed => why # "field"
  /\ Reload /\ EEOnly("waitStep")
  /\ UNCHANGED <<mu, buf, eeVars, fault, winVars>>

\* wait_step: sleep, then pump the window with m_mu released.
SleepEE ==
  /\ epc = "waitStep" /\ Unlock("ee") /\ EEOnly("asleep")
  /\ Reload /\ UNCHANGED <<buf, eeVars, fault, winVars>>

TimeoutEE ==
  /\ epc = "asleep" /\ Timeouts /\ EEOnly("awake")
  /\ Reload /\ UNCHANGED <<mu, buf, eeVars, fault, winVars>>

BugNoPump ==
  /\ epc = "awake" /\ Pass /\ EEOnly("relock")
  /\ Reload /\ UNCHANGED <<buf, eeVars, fault, winVars>>
Pump ==
  /\ epc = "awake" /\ Pass /\ sampled' = window /\ EEOnly("relock")
  /\ Reload /\ UNCHANGED <<buf, eeVars, fault, window>>

Relock ==
  /\ epc = "relock" /\ Lock("ee") /\ EEOnly("test")
  /\ Reload /\ UNCHANGED <<buf, eeVars, fault, winVars>>

\* await_reply returns the one reply slot, or fatals when it moved on.
TakeReply ==
  /\ epc = "reply" /\ got' = Load("ee", "reply_value")
  /\ IF Load("ee", "reply_seq") = cseq
       THEN EEOnly("idle") /\ UNCHANGED fault ELSE EEOnly("quiesce") /\ Ends("overtaken")
  /\ Reload /\ UNCHANGED <<mu, buf, rec, why, vseq, cseq, winVars>>

\* rt_gs_vsync_hook after field_sync: the one place that ends a run whose
\* window closed.
Boundary ==
  /\ epc = "boundary"
  /\ IF Closed THEN EEOnly("quiesce") /\ Ends("closed") ELSE EEOnly("idle") /\ UNCHANGED fault
  /\ Reload /\ UNCHANGED <<mu, buf, eeVars, winVars>>

-----------------------------------------------------------------------------
(* The EE thread leaves: backend_atexit and quiesce *)

\* The run ends for a reason outside the ring.
Exit ==
  /\ epc = "idle" /\ EEOnly("quiesce")
  /\ Reload /\ UNCHANGED <<mu, buf, eeVars, fault, winVars>>

RaiseShutdown ==
  /\ epc = "quiesce" /\ Store("ee", "shutdown", 1) /\ EEOnly("qNotify")
  /\ UNCHANGED <<mu, buf, eeVars, fault, winVars>>

NotifyShutdown ==
  /\ epc = "qNotify" /\ Pass /\ Drained("ee") /\ NotifyGS /\ epc' = "qTest"
  /\ Reload /\ UNCHANGED <<buf, eeVars, gsVars, fault, winVars>>

QuiesceTest ==
  /\ epc = "qTest"
  /\ \/ Stopped /\ EEOnly("join") /\ UNCHANGED sampled
     \/ ~ Stopped /\ EEOnly("qLock") /\ sampled' = window
  /\ Reload /\ UNCHANGED <<mu, buf, eeVars, fault, window>>

\* kJoinDeadline is over: abandon_worker ends the process.
Abandon ==
  /\ epc = "qTest" /\ ~ Stopped /\ "late" \in Worries
  /\ fault' = "ended" /\ EEOnly("abandoned")
  /\ Reload /\ UNCHANGED <<mu, buf, eeVars, winVars>>

QuiesceFlag ==
  /\ epc = "qLock" /\ Lock("ee") /\ Store("ee", "progress_waiting", 1) /\ EEOnly("qFence")
  /\ UNCHANGED <<buf, eeVars, fault, winVars>>

QuiesceSleep ==
  /\ epc = "qFence" /\ Fence("ee") /\ Reload
  /\ \/ Stopped /\ EEOnly("qUnflag") /\ UNCHANGED mu
     \/ ~ Stopped /\ Unlock("ee") /\ EEOnly("qAsleep")
  /\ UNCHANGED <<buf, eeVars, fault, winVars>>

QuiesceTimeout ==
  /\ epc = "qAsleep" /\ Timeouts /\ EEOnly("qAwake")
  /\ Reload /\ UNCHANGED <<mu, buf, eeVars, fault, winVars>>

QuiesceWake ==
  /\ epc = "qAwake" /\ Lock("ee") /\ EEOnly("qUnflag")
  /\ Reload /\ UNCHANGED <<buf, eeVars, fault, winVars>>

QuiesceUnflag ==
  /\ epc = "qUnflag" /\ Store("ee", "progress_waiting", 0) /\ EEOnly("qUnlock")
  /\ UNCHANGED <<mu, buf, eeVars, fault, winVars>>

QuiesceUnlock ==
  /\ epc = "qUnlock" /\ Unlock("ee") /\ EEOnly("qTest")
  /\ Reload /\ UNCHANGED <<buf, eeVars, fault, winVars>>

Join ==
  /\ epc = "join" /\ gpc = "gone" /\ EEOnly("joined")
  /\ Reload /\ UNCHANGED <<mu, buf, eeVars, fault, winVars>>

EENext ==
  /\ Running
  /\ \/ \E kind \in Kind \ {"wrap"}, size \in Sizes \cup {1} :
           (kind = "vsync" \/ size \in Sizes) /\ Call(kind, size)
     \/ WriteWrap \/ WriteRecord \/ Commit \/ WakeFence \/ WakeRead \/ WakeNotify
     \/ Committed \/ Stall \/ RuleOutEmpty \/ LockAndFlag \/ WaitFence \/ EndWait \/ GiveUp
     \/ LeaveWait \/ StillWaiting \/ SleepEE \/ TimeoutEE \/ Pump \/ Relock \/ TakeReply \/ Boundary
     \/ Exit \/ RaiseShutdown \/ NotifyShutdown \/ QuiesceTest \/ Abandon \/ QuiesceFlag
     \/ QuiesceSleep \/ QuiesceTimeout \/ QuiesceWake \/ QuiesceUnflag
     \/ QuiesceUnlock \/ Join

-----------------------------------------------------------------------------
(* The worker: drain, replay, wake_producer *)

tail == Load("gs", "tail")
cur  == buf[tail % Cap]

GSOnly(to) == gpc' = to /\ UNCHANGED <<epc, eeVars>>

\* drain reads the head once for the batch of records before it.
DrainStart ==
  /\ gpc = "drain" /\ upto' = Load("gs", "head") /\ GSOnly("record")
  /\ Reload /\ UNCHANGED <<mu, buf, back, vseen, ran, fault, winVars>>

DrainEnd ==
  /\ gpc = "record" /\ tail = upto /\ Fence("gs") /\ GSOnly("batchEnd")
  /\ Reload /\ UNCHANGED <<mu, buf, gsVars, fault, winVars>>

\* A record's header is checked, counted and its call handed to the backend;
\* a Wrap record is only stepped over.
NextRecord ==
  /\ gpc = "record" /\ tail # upto
  /\ IF cur.size = 0 \/ tail + cur.size > upto
       THEN GSOnly("failed") /\ Ends("corrupt") /\ UNCHANGED ran
       ELSE /\ GSOnly(IF cur.kind = "wrap" THEN "advance" ELSE "replay")
            /\ ran' = IF cur.kind = "wrap" THEN ran ELSE ran + 1
            /\ UNCHANGED fault
  /\ Reload /\ UNCHANGED <<mu, buf, back, upto, vseen, winVars>>

\* replay: nothing comes back from most calls, a vsync publishes that its
\* field is done and then presents it, a reply goes to the one slot.
ReplayData ==
  /\ gpc = "replay" /\ cur.kind = "data" /\ GSOnly("advance")
  /\ Reload /\ UNCHANGED <<mu, buf, gsVars, fault, winVars>>

ReplayVsync ==
  /\ gpc = "replay" /\ cur.kind = "vsync"
  /\ vseen' = vseen + 1
  /\ IF cur.arg # vseen'
       THEN GSOnly("failed") /\ Ends("order") /\ Reload /\ UNCHANGED back
       ELSE /\ Store("gs", "vsync_done", vseen') /\ GSOnly("notify")
            /\ back' = "present" /\ UNCHANGED fault
  /\ UNCHANGED <<mu, buf, upto, ran, winVars>>

BugReplySeqFirst ==
  /\ gpc = "replay" /\ cur.kind = "call"
  /\ Delay("gs", <<[loc |-> "reply_seq", val |-> cur.arg], [loc |-> "reply_value", val |-> cur.id]>>)
  /\ back' = "advance" /\ GSOnly("notify")
  /\ UNCHANGED <<mu, buf, upto, vseen, ran, fault, winVars>>
ReplayCall ==
  /\ gpc = "replay" /\ cur.kind = "call"
  /\ Delay("gs", <<[loc |-> "reply_value", val |-> cur.id], [loc |-> "reply_seq", val |-> cur.arg]>>)
  /\ back' = "advance" /\ GSOnly("notify")
  /\ UNCHANGED <<mu, buf, upto, vseen, ran, fault, winVars>>

\* The inner backend raises rt_fatal: quiesce, on the worker's own stack.
InnerFatal ==
  /\ gpc = "replay" /\ "inner" \in Worries /\ GSOnly("failed") /\ Ends("inner")
  /\ Reload /\ UNCHANGED <<mu, buf, gsVars, winVars>>

\* pump_present: while the window cannot present the library parks in here,
\* and for good once it is closed.
Present ==
  /\ gpc = "present" /\ sampled # "minimized" /\ GSOnly("advance")
  /\ Reload /\ UNCHANGED <<mu, buf, gsVars, fault, winVars>>

Advance ==
  /\ gpc = "advance" /\ Store("gs", "tail", tail + cur.size) /\ GSOnly("roomMade")
  /\ UNCHANGED <<mu, buf, gsVars, fault, winVars>>

\* Between records unfenced, after the batch behind drain's fence.
CheckSpaceWaiting ==
  /\ gpc \in {"roomMade", "batchEnd"}
  /\ LET to == IF gpc = "roomMade" THEN "record" ELSE "parkOrStop"
     IN  IF Load("gs", "space_waiting") # 0 THEN GSOnly("notify") /\ back' = to
                                            ELSE GSOnly(to) /\ UNCHANGED back
  /\ Reload /\ UNCHANGED <<mu, buf, upto, vseen, ran, fault, winVars>>

\* wake_producer
BugNoNotifyFence ==
  /\ gpc = "notify" /\ GSOnly("notifyRead")
  /\ Reload /\ UNCHANGED <<mu, buf, gsVars, fault, winVars>>
NotifyFence ==
  /\ gpc = "notify" /\ Fence("gs") /\ GSOnly("notifyRead")
  /\ Reload /\ UNCHANGED <<mu, buf, gsVars, fault, winVars>>

NotifyRead ==
  /\ gpc = "notifyRead"
  /\ IF Load("gs", "progress_waiting") = 0 /\ Load("gs", "space_waiting") = 0
       THEN GSOnly(back) /\ back' = "drain" ELSE GSOnly("notifyOne") /\ UNCHANGED back
  /\ Reload /\ UNCHANGED <<mu, buf, upto, vseen, ran, fault, winVars>>

NotifyProducer ==
  /\ gpc = "notifyOne" /\ Pass /\ NotifyEE /\ gpc' = back /\ back' = "drain"
  /\ Reload /\ UNCHANGED <<buf, eeVars, upto, vseen, ran, fault, winVars>>

-----------------------------------------------------------------------------
(* The worker parks and stops: worker_main, abandon_worker *)

BugStopsWithWork ==
  /\ gpc = "parkOrStop" /\ GSOnly(IF Load("gs", "shutdown") = 1 THEN "stop" ELSE "park")
  /\ Reload /\ UNCHANGED <<mu, buf, gsVars, fault, winVars>>
ParkOrStop ==
  /\ gpc = "parkOrStop"
  /\ GSOnly(IF Load("gs", "shutdown") = 1 /\ Load("gs", "head") = tail THEN "stop" ELSE "park")
  /\ Reload /\ UNCHANGED <<mu, buf, gsVars, fault, winVars>>

Park ==
  /\ gpc = "park" /\ Lock("gs") /\ Store("gs", "consumer_waiting", 1) /\ GSOnly("parkFence")
  /\ UNCHANGED <<buf, gsVars, fault, winVars>>

BugNoParkFence ==
  /\ gpc = "parkFence" /\ GSOnly("parkTest")
  /\ Reload /\ UNCHANGED <<mu, buf, gsVars, fault, winVars>>
ParkFence ==
  /\ gpc = "parkFence" /\ Fence("gs") /\ GSOnly("parkTest")
  /\ Reload /\ UNCHANGED <<mu, buf, gsVars, fault, winVars>>

BugTestsOldHead == upto = tail /\ Load("gs", "shutdown") = 0
NothingToDo == Load("gs", "head") = tail /\ Load("gs", "shutdown") = 0

StayParked ==
  /\ gpc = "parkTest" /\ NothingToDo /\ GSOnly("parkWait")
  /\ Reload /\ UNCHANGED <<mu, buf, gsVars, fault, winVars>>
SleepGS ==
  /\ gpc = "parkWait" /\ Unlock("gs") /\ GSOnly("asleep")
  /\ Reload /\ UNCHANGED <<buf, gsVars, fault, winVars>>

TimeoutGS ==
  /\ gpc = "asleep" /\ Timeouts /\ GSOnly("awake")
  /\ Reload /\ UNCHANGED <<mu, buf, gsVars, fault, winVars>>

\* Awake and locked: back to the test, or the repeat interval expired and the
\* worker presents with m_mu released and its flag down.
WakeUp ==
  /\ gpc = "awake" /\ Lock("gs") /\ GSOnly("parkTest")
  /\ Reload /\ UNCHANGED <<buf, gsVars, fault, winVars>>
RepeatDue ==
  /\ gpc = "awake" /\ "repeat" \in Worries /\ Lock("gs")
  /\ Store("gs", "consumer_waiting", 0) /\ GSOnly("repeatUnlock")
  /\ UNCHANGED <<buf, gsVars, fault, winVars>>
RepeatUnlock ==
  /\ gpc = "repeatUnlock" /\ Unlock("gs") /\ GSOnly("repeat")
  /\ Reload /\ UNCHANGED <<buf, gsVars, fault, winVars>>
RepeatPresent ==
  /\ gpc = "repeat" /\ sampled # "minimized" /\ GSOnly("park")
  /\ Reload /\ UNCHANGED <<mu, buf, gsVars, fault, winVars>>

Unpark ==
  /\ gpc = "parkTest" /\ ~ NothingToDo /\ Store("gs", "consumer_waiting", 0) /\ GSOnly("unpark")
  /\ UNCHANGED <<mu, buf, gsVars, fault, winVars>>
UnparkUnlock ==
  /\ gpc = "unpark" /\ Unlock("gs") /\ GSOnly("drain")
  /\ Reload /\ UNCHANGED <<buf, gsVars, fault, winVars>>

\* The end of worker_main, and abandon_worker after a fatal on the worker.
Stop ==
  /\ gpc \in {"stop", "failed"} /\ Store("gs", "exited", 1)
  /\ GSOnly(IF gpc = "stop" THEN "lastNotify" ELSE "failNotify")
  /\ UNCHANGED <<mu, buf, gsVars, fault, winVars>>
LastNotify ==
  /\ gpc \in {"lastNotify", "failNotify"} /\ Pass /\ Drained("gs") /\ NotifyEE
  /\ gpc' = IF gpc = "lastNotify" THEN "gone" ELSE "leaving"
  /\ Reload /\ UNCHANGED <<buf, eeVars, gsVars, fault, winVars>>
ProcessEnds ==
  /\ gpc = "leaving" /\ fault' = "ended" /\ GSOnly("leaving")
  /\ Reload /\ UNCHANGED <<mu, buf, gsVars, winVars>>

GSNext ==
  /\ Running
  /\ \/ DrainStart \/ DrainEnd \/ NextRecord \/ ReplayData \/ ReplayVsync \/ ReplayCall
     \/ InnerFatal \/ Present \/ Advance \/ CheckSpaceWaiting \/ NotifyFence \/ NotifyRead
     \/ NotifyProducer \/ ParkOrStop \/ Park \/ ParkFence \/ StayParked \/ SleepGS
     \/ TimeoutGS \/ WakeUp \/ RepeatDue \/ RepeatUnlock \/ RepeatPresent \/ Unpark
     \/ UnparkUnlock \/ Stop \/ LastNotify \/ ProcessEnds

-----------------------------------------------------------------------------
(* The window, and the specification *)

\* Bound: a state of the window lasts until some pump has sampled it.
Minimize ==
  /\ "window" \in Worries /\ window = "open" /\ sampled = "open" /\ window' = "minimized"
  /\ UNCHANGED <<memVars, mu, buf, epc, eeVars, gpc, gsVars, fault, sampled>>
RestoreOrClose ==
  /\ "window" \in Worries /\ window # "closed"
  /\ \/ window = "minimized" /\ window' = "open"
     \/ window' = "closed"
  /\ UNCHANGED <<memVars, mu, buf, epc, eeVars, gpc, gsVars, fault, sampled>>

Ended == fault = "ended" \/ epc = "joined"
Done  == Ended /\ UNCHANGED vars

Init ==
  /\ mem = [loc \in EELoc \cup GSLoc |-> 0] /\ sb = [t \in {"ee", "gs"} |-> <<>>]
  /\ mu = "free" /\ buf = [o \in Offset |-> Wrap(1)]
  /\ epc = "idle" /\ rec = [kind |-> "data", id |-> 0, size |-> 1, arg |-> 0]
  /\ why = "space" /\ vseq = 0 /\ cseq = 0 /\ got = 0
  /\ gpc = "drain" /\ back = "drain" /\ upto = 0 /\ vseen = 0 /\ ran = 0
  /\ fault = "none" /\ window = "open" /\ sampled = "open"

Next ==
  EENext \/ GSNext \/ (\E t \in {"ee", "gs"} : Flush(t)) \/ Minimize \/ RestoreOrClose \/ Done

Spec == Init /\ [][Next]_vars

-----------------------------------------------------------------------------
(* Properties *)

EEPc == {"idle", "room", "commit", "wake", "wakeRead", "wakeNotify", "after", "stall", "lock",
         "waitFence", "test", "waitStep", "unlock", "unlockExit", "asleep", "awake", "relock",
         "reply", "boundary", "quiesce", "qNotify", "qTest", "qLock", "qFence", "qAsleep", "qAwake",
         "qUnflag", "qUnlock", "join", "joined", "abandoned"}
GSPc == {"drain", "record", "replay", "present", "advance", "roomMade", "batchEnd", "notify",
         "notifyRead", "notifyOne", "parkOrStop", "park", "parkFence", "parkTest", "parkWait",
         "asleep", "awake", "repeatUnlock", "repeat", "unpark", "stop", "failed",
         "lastNotify", "failNotify", "leaving", "gone"}
Record == [kind : Kind, id : Nat, size : 1..Cap, arg : Nat]

\* Every variable has its type, and each thread delays only its own stores.
TypeOK ==
  /\ mem \in [EELoc \cup GSLoc -> Nat]
  /\ sb["ee"] \in Seq([loc : EELoc, val : Nat]) /\ sb["gs"] \in Seq([loc : GSLoc, val : Nat])
  /\ DOMAIN sb = {"ee", "gs"} /\ mu \in {"free", "ee", "gs"} /\ buf \in [Offset -> Record]
  /\ epc \in EEPc /\ rec \in Record /\ why \in {"space", "field", "reply"}
  /\ vseq \in Nat /\ cseq \in Nat /\ got \in Nat
  /\ gpc \in GSPc /\ back \in GSPc /\ upto \in Nat /\ vseen \in Nat /\ ran \in Nat
  /\ fault \in {"none", "noFit", "stopped", "closed", "overtaken", "corrupt", "order", "inner",
                "ended"}
  /\ window \in {"open", "minimized", "closed"} /\ sampled \in {"open", "minimized", "closed"}

\* The records between the worker's tail and the EE's head, Wraps left out, each
\* with what its units hold now.
InRing ==
  LET from[at \in 0..head] ==
        LET r == buf[at % Cap]
        IN  IF r.size = 0 \/ at + r.size > head THEN <<>>
            ELSE (IF r.kind = "wrap" THEN <<>>
                  ELSE <<[unit \in 1..r.size |-> buf[(at + unit - 1) % Cap]]>>)
                 \o from[at + r.size]
  IN  from[tail]

\* The ring is a queue of calls: each call runs once, in order, and none of its
\* units is overwritten before it has returned (the payload pointers replay
\* hands to the backend point into the ring); the join of quiesce comes after
\* the last one, and the worker's check of a record's size never fails.
Queue == INSTANCE CallQueue WITH
  Calls <- [kind : Kind \ {"wrap"}, id : 1..MaxOps, size : Sizes \cup {1}, arg : 0..MaxOps],
  queue <- InRing,
  begun <- ran,
  over  <- epc = "joined" \/ fault = "corrupt"
IsCallQueue == Queue!Spec

\* The EE goes on with its own answer, and no more than a field ahead: a call
\* that needs a value gets what the backend answered to it, not an earlier
\* call's answer (the single reply slot); field_sync starts the next field's
\* work only once every field but the last is scanned out, unless the window is
\* closed. Neither await_reply nor the worker finds the other out of turn.
InItsTurn ==
  /\ epc = "idle" /\ rec.kind = "call" => got = rec.id
  /\ epc = "idle" /\ ~ Closed => Load("gs", "vsync_done") >= vseq - 1
  /\ fault \notin {"order", "overtaken"}

\* The EE thread has a record to commit or a shutdown to raise, and runs.
Writing ==
  \/ epc \in {"room", "stall", "commit", "wake", "wakeRead", "wakeNotify", "quiesce", "qNotify"}
  \/ why = "space" /\ epc \in {"lock", "waitFence", "test", "waitStep", "unlock", "unlockExit"}

\* What the sleeping EE thread waits for has reached memory.
EECanGoOn ==
  \/ epc = "qAsleep" /\ mem["exited"] = 1
  \/ epc = "asleep" /\ \/ why = "space" /\ Cap - (head - mem["tail"]) >= Need
                       \/ why = "field" /\ mem["vsync_done"] >= vseq - 1
                       \/ why = "reply" /\ mem["reply_seq"] >= cseq

\* One wakeup the code does lose: a Wrap record is published without notifying
\* the worker (gs_threaded.cpp:427), and a record that needs more than the rest
\* of the ring makes the EE sleep behind it.  Only the worker's bounded wait
\* ends this.
BehindWrap ==
  /\ why = "space" /\ epc \in {"asleep", "awake", "relock"}
  /\ cur.kind = "wrap" /\ head = tail + cur.size

\* "no wakeup is lost" (gs_threaded.cpp:89): a thread that sleeps although
\* what it waits for has happened is about to be notified; the bounded wait
\* is not what saves it, but for BehindWrap.  The EE may be between a Wrap
\* record and the commit that notifies (Writing), a worker inside a batch of
\* records makes up for a missed look at m_space_waiting when the batch ends,
\* and one that met a fatal ("failed") ends the process.
NoLostWakeup ==
  Running =>
    /\ gpc = "asleep" /\ (mem["head"] # mem["tail"] \/ mem["shutdown"] = 1) =>
         Writing \/ BehindWrap
    /\ EECanGoOn => gpc \in {"notify", "notifyRead", "notifyOne", "lastNotify",
                             "failed", "failNotify"}
         \cup IF why = "space" THEN {"record", "replay", "present", "advance", "roomMade", "batchEnd"}
                               ELSE {}

\* "Unreachable while begin_record rejects oversized records up front"
\* (gs_threaded.cpp:339): a record that fits is never refused by an empty ring.
FitsEmptyRing == fault # "noFit"

-----------------------------------------------------------------------------
(* Fairness: both threads run, and get m_mu some day however often the      *)
(* other one takes it (each sleeps up to 2 ms between two turns, which is   *)
(* why strong fairness is asked of them); their stores arrive; the 1 s of   *)
(* quiesce and of a closed window run out; a minimized window is some day   *)
(* restored or closed.                                                      *)
(* Nothing makes a present return once the window is closed, so nothing is  *)
(* assumed of the worker then.                                              *)

Fairness ==
  /\ SF_vars(EENext /\ epc # "idle")
  /\ SF_vars(GSNext /\ (sampled = "closed" => gpc \notin {"present", "repeat"}))
  /\ SF_vars(Abandon) /\ SF_vars(GiveUp)
  /\ \A t \in {"ee", "gs"} : WF_vars(Flush(t))
  /\ WF_vars(RestoreOrClose /\ window = "minimized")
FairSpec == Spec /\ Fairness

\* Every wait of the EE thread ends, the call returns or the process does; and
\* every record the EE commits is replayed without any further call, unless the
\* run ends or the window stops presenting first.
WaitsEnd ==
  /\ (epc = "asleep") ~> (epc = "idle" \/ Ended)
  /\ \A n \in 1..MaxOps :
       (epc = "after" /\ rec.id = n) ~> (ran >= n \/ Ended \/ sampled # "open")

=============================================================================

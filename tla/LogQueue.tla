------------------------------ MODULE LogQueue ------------------------------
(***************************************************************************)
(* The log (log.cpp) and the ways a run ends: any thread queues lines, the *)
(* writer thread writes them, and a thread that leaves (exit, rt_fatal, a  *)
(* fault, an interrupt from the terminal) turns the log synchronous, joins *)
(* the watchdog (host/run_state.cpp), writes the summary and ends the      *)
(* process.                                                                *)
(*                                                                         *)
(* The model begins when the writer thread is up: rt_log_init has opened   *)
(* the sinks and the first line after it has called start_writer. One file *)
(* stands for the two sinks. A line is <<thread, number>>.                 *)
(*                                                                         *)
(* The operators named Bug... are the plausible mistakes the properties    *)
(* must catch; nothing here uses them.                                     *)
(***************************************************************************)
EXTENDS Integers, FiniteSets, SequencesExt

CONSTANTS
  Thread,      \* the threads that log
  Dog,         \* the one of them that is the field watchdog
  Slots,       \* kSlots: the ring holds one line less
  Endings,     \* how a thread may leave
  Leavers,     \* the threads that may leave
  MaxLines     \* bound: lines a thread logs, besides those of its leaving

ASSUME ThreadAssumption ==
  /\ IsFiniteSet(Thread) /\ Dog \in Thread /\ Leavers \subseteq Thread
  /\ {"nobody", "dropped"} \cap Thread = {}
ASSUME SlotsAssumption == Slots \in Nat /\ Slots > Cardinality(Thread)
ASSUME EndingsAssumption == Endings \subseteq {"exit", "fatal", "fault", "interrupt"}
ASSUME MaxLinesAssumption == MaxLines \in Nat

VARIABLES
  ring, dropped, stop, busy,   \* g_ring from g_tail to g_head, g_dropped, g_stop, g_busy
  async, mu, io,               \* g_async; who holds g_mu and g_io_mu
  wpc, batch, note, last,      \* the writer: where it is, and what it took
  pc, count, todo,             \* a thread: where it is, lines it has logged,
  enqueuing,                   \*   what it still has to do to leave, t_enqueuing
  watched, summary, ended,     \* g_watchdog_running, g_summary_done, how it ended
  file,                        \* what is in the log file
  order, lost, swept           \* history: lines queued, in order; lines refused;
                               \*   how many were queued before the last sweep

ringVars   == <<ring, dropped, stop, busy>>
lockVars   == <<async, mu, io>>
writerVars == <<wpc, batch, note, last>>
threadVars == <<pc, count, todo, enqueuing>>
endVars    == <<watched, summary, ended>>
fileVars   == <<file, order, lost, swept>>
vars == <<ringVars, lockVars, writerVars, threadVars, endVars, fileVars>>

Nobody == "nobody"

Alive      == ended = "no"
Leaving(t) == todo[t] # <<>>
Line(t)    == <<t, count[t]>>
Goto(t, where) == pc' = [pc EXCEPT ![t] = where]

\* g_cv has one waiter, the writer; g_idle the threads inside a drain.
NotifyWriter == wpc' = IF wpc = "asleep" THEN "test" ELSE wpc
NotifyIdle   == pc' = [t \in Thread |-> IF pc[t] = "idle" THEN "recheck" ELSE pc[t]]

-----------------------------------------------------------------------------
(* A line: emit and enqueue *)

\* The first look at g_async decides how the line goes.
EmitLine(t) ==
  /\ count' = [count EXCEPT ![t] = @ + 1]
  /\ IF async THEN Goto(t, "queue") /\ enqueuing' = enqueuing \cup {t}
     ELSE Goto(t, "direct") /\ UNCHANGED enqueuing
  /\ UNCHANGED <<ringVars, lockVars, writerVars, endVars, fileVars>>

Log(t) == pc[t] = "run" /\ ~Leaving(t) /\ count[t] < MaxLines /\ EmitLine(t) /\ UNCHANGED todo

LockRing(t) ==
  /\ pc[t] = "queue" /\ mu = Nobody
  /\ mu' = t /\ Goto(t, "inside")
  /\ UNCHANGED <<ringVars, async, io, writerVars, count, todo, enqueuing, endVars, fileVars>>

BugPutSilently(t) ==
  /\ Len(ring) < Slots - 1
  /\ ring' = Append(ring, Line(t)) /\ order' = Append(order, Line(t))
  /\ UNCHANGED <<dropped, lost, wpc>>

BugFillsTheRing(t) ==
  /\ Len(ring) < Slots
  /\ ring' = Append(ring, Line(t)) /\ order' = Append(order, Line(t))
  /\ NotifyWriter
  /\ UNCHANGED <<dropped, lost>>

\* The slot is filled under the lock, the writer is notified behind it.
Put(t) ==
  /\ Len(ring) < Slots - 1
  /\ ring' = Append(ring, Line(t)) /\ order' = Append(order, Line(t))
  /\ NotifyWriter
  /\ UNCHANGED <<dropped, lost>>

Drop(t) ==
  /\ Len(ring) = Slots - 1
  /\ dropped' = dropped + 1 /\ lost' = lost \cup {Line(t)}
  /\ UNCHANGED <<ring, order, wpc>>

Enqueue(t) ==
  /\ pc[t] = "inside"
  /\ Put(t) \/ Drop(t)
  /\ mu' = Nobody /\ enqueuing' = enqueuing \ {t} /\ Goto(t, "run")
  /\ UNCHANGED <<stop, busy, async, io, batch, note, last, count, todo, endVars, file, swept>>

LockSink(t) ==
  /\ pc[t] = "direct" /\ io = Nobody
  /\ io' = t /\ Goto(t, "writing")
  /\ UNCHANGED <<ringVars, async, mu, writerVars, count, todo, enqueuing, endVars, fileVars>>

WriteNow(t) ==
  /\ pc[t] = "writing"
  /\ file' = Append(file, Line(t))
  /\ io' = Nobody /\ Goto(t, "run")
  /\ UNCHANGED <<ringVars, async, mu, writerVars, count, todo, enqueuing, endVars, order, lost, swept>>

-----------------------------------------------------------------------------
(* writer_main *)

Sleep ==
  /\ wpc = "test" /\ mu = Nobody /\ ring = <<>> /\ ~stop
  /\ wpc' = "asleep"
  /\ UNCHANGED <<ringVars, lockVars, batch, note, last, threadVars, endVars, fileVars>>

BugTakeForgetsDrops ==
  /\ batch' = ring /\ note' = 0 /\ last' = stop
  /\ ring' = <<>> /\ dropped' = 0 /\ busy' = TRUE /\ UNCHANGED stop

\* Everything queued, the drops counted since the last time, and the flags.
TakeBatch ==
  /\ batch' = ring /\ note' = dropped /\ last' = stop
  /\ ring' = <<>> /\ dropped' = 0 /\ busy' = TRUE /\ UNCHANGED stop

Take ==
  /\ wpc = "test" /\ mu = Nobody /\ (ring # <<>> \/ stop)
  /\ TakeBatch
  /\ wpc' = "write"
  /\ UNCHANGED <<lockVars, threadVars, endVars, fileVars>>

Note(n) == IF n = 0 THEN <<>> ELSE <<<<"dropped", n>>>>

\* The note stands BEFORE the lines the ring was full of when lines were lost.
WriteBatch ==
  /\ wpc = "write" /\ io = Nobody
  /\ file' = file \o Note(note) \o batch
  /\ batch' = <<>> /\ note' = 0 /\ wpc' = "done"
  /\ UNCHANGED <<ringVars, lockVars, last, threadVars, endVars, order, lost, swept>>

BatchDone ==
  /\ wpc = "done" /\ mu = Nobody
  /\ busy' = FALSE /\ NotifyIdle
  /\ wpc' = IF last THEN "gone" ELSE "test"
  /\ UNCHANGED <<ring, dropped, stop, lockVars, batch, note, last, count, todo, enqueuing,
                 endVars, fileVars>>

WriterStep == Sleep \/ Take \/ WriteBatch \/ BatchDone

-----------------------------------------------------------------------------
(* Leaving *)

\* rt_run_summary's steps, and the atexit handler of start_writer: it is
\* registered after run_state.cpp's and runs before it.
ExitSteps == <<"drain", "stop", "join", "sweep", "summary", "end">>

\* Behind the crash block the handlers log one more line before the summary.
Steps(how) ==
  CASE how = "exit"      -> ExitSteps
    [] how = "fatal"     -> <<"sync", "drain", "summary", "drain">> \o ExitSteps
    [] how = "fault"     -> <<"sync", "drain", "line", "summary", "drain", "_Exit">>
    [] how = "interrupt" -> <<"line", "summary", "drain", "_Exit">>

\* Where a thread may be when it leaves: exit and rt_fatal are calls, a fault
\* may be taken inside the copy or the write, a signal comes anywhere.
Places(how) ==
  CASE how \in {"exit", "fatal"} -> {"run"}
    [] how = "fault"             -> {"run", "inside", "writing"}
    [] how = "interrupt"         -> {"run", "queue", "inside", "direct", "writing"}

Leave(t, how) ==
  /\ ~Leaving(t) /\ pc[t] \in Places(how)
  /\ t = Dog => how = "fault"
  /\ todo' = [todo EXCEPT ![t] = Steps(how)]
  /\ Goto(t, "run")
  /\ UNCHANGED <<ringVars, lockVars, writerVars, count, enqueuing, endVars, fileVars>>

\* The next thing thread t has to do to leave.
At(t, step) == Leaving(t) /\ pc[t] = "run" /\ Head(todo[t]) = step
StepDone(t) == todo' = [todo EXCEPT ![t] = Tail(@)]

LogLine(t) == At(t, "line") /\ EmitLine(t) /\ StepDone(t)

\* rt_log_write_sync: try_lock, and the write whether it got the lock or not;
\* line 0 is the FATAL line or the crash block.
WriteSync(t) ==
  /\ At(t, "sync") /\ StepDone(t)
  /\ file' = Append(file, <<t, 0>>)
  /\ UNCHANGED <<ringVars, lockVars, writerVars, pc, count, enqueuing, endVars, order, lost, swept>>

BugWaitAnyway(t) == async
\* wait_writer_idle gives up inside the enqueue section.
MustWait(t) == async /\ t \notin enqueuing

Drain(t) ==
  /\ At(t, "drain")
  /\ async' = FALSE
  /\ IF MustWait(t) THEN Goto(t, "drain") /\ UNCHANGED todo ELSE StepDone(t) /\ UNCHANGED pc
  /\ UNCHANGED <<ringVars, mu, io, writerVars, count, enqueuing, endVars, fileVars>>

Idle == ring = <<>> /\ ~busy

\* The bounded wait, from its first test (with the notification before it) on.
AwaitIdle(t) ==
  /\ pc[t] \in {"drain", "recheck"} /\ mu = Nobody
  /\ IF pc[t] = "drain" THEN NotifyWriter ELSE UNCHANGED wpc
  /\ IF Idle THEN StepDone(t) /\ Goto(t, "run") ELSE Goto(t, "idle") /\ UNCHANGED todo
  /\ UNCHANGED <<ringVars, lockVars, batch, note, last, count, enqueuing, endVars, fileVars>>

Timeout(t) ==
  /\ pc[t] = "idle" /\ mu = Nobody
  /\ StepDone(t) /\ Goto(t, "run")
  /\ UNCHANGED <<ringVars, lockVars, writerVars, count, enqueuing, endVars, fileVars>>

StopWriter(t) ==
  /\ At(t, "stop") /\ mu = Nobody /\ StepDone(t)
  /\ stop' = TRUE /\ NotifyWriter
  /\ UNCHANGED <<ring, dropped, busy, lockVars, batch, note, last, pc, count, enqueuing,
                 endVars, fileVars>>

JoinWriter(t) ==
  /\ At(t, "join") /\ wpc = "gone" /\ StepDone(t)
  /\ UNCHANGED <<ringVars, lockVars, writerVars, pc, count, enqueuing, endVars, fileVars>>

BugNoSweep(t) ==
  /\ At(t, "sweep") /\ io = Nobody /\ mu = Nobody /\ StepDone(t)
  /\ swept' = Len(order)
  /\ UNCHANGED <<ringVars, lockVars, writerVars, pc, count, enqueuing, endVars, file, order, lost>>

\* What was queued behind the writer's last batch.
Sweep(t) ==
  /\ At(t, "sweep") /\ io = Nobody /\ mu = Nobody /\ StepDone(t)
  /\ file' = file \o ring /\ ring' = <<>> /\ swept' = Len(order)
  /\ UNCHANGED <<dropped, stop, busy, lockVars, writerVars, pc, count, enqueuing, endVars,
                 order, lost>>

\* Once, whoever gets here first.
Summarize(t) ==
  /\ At(t, "summary")
  /\ summary' = TRUE
  /\ todo' = [todo EXCEPT ![t] =
                (IF summary THEN <<>> ELSE <<"dogStop", "dogJoin", "drain", "line">>) \o Tail(@)]
  /\ UNCHANGED <<ringVars, lockVars, writerVars, pc, count, enqueuing, watched, ended, fileVars>>

StopDog(t) ==
  /\ At(t, "dogStop") /\ StepDone(t)
  /\ watched' = FALSE
  /\ UNCHANGED <<ringVars, lockVars, writerVars, pc, count, enqueuing, summary, ended, fileVars>>

BugJoinSelf(t) == pc[Dog] = "gone"
\* The watchdog is joined, but not by itself.
DogJoined(t) == t = Dog \/ pc[Dog] = "gone"

JoinDog(t) ==
  /\ At(t, "dogJoin") /\ DogJoined(t) /\ StepDone(t)
  /\ UNCHANGED <<ringVars, lockVars, writerVars, pc, count, enqueuing, endVars, fileVars>>

DogQuits ==
  /\ pc[Dog] = "run" /\ ~Leaving(Dog) /\ ~watched
  /\ Goto(Dog, "gone")
  /\ UNCHANGED <<ringVars, lockVars, writerVars, count, todo, enqueuing, endVars, fileVars>>

End(t) ==
  /\ \/ At(t, "end") /\ ended' = "clean"
     \/ At(t, "_Exit") /\ ended' = "_Exit"
  /\ UNCHANGED <<ringVars, lockVars, writerVars, threadVars, watched, summary, fileVars>>

ThreadStep(t) ==
  \/ LockRing(t) \/ Enqueue(t) \/ LockSink(t) \/ WriteNow(t)
  \/ LogLine(t) \/ WriteSync(t) \/ Drain(t) \/ AwaitIdle(t) \/ Timeout(t)
  \/ StopWriter(t) \/ JoinWriter(t) \/ Sweep(t)
  \/ Summarize(t) \/ StopDog(t) \/ JoinDog(t) \/ End(t)

-----------------------------------------------------------------------------
Init ==
  /\ ring = <<>> /\ dropped = 0 /\ stop = FALSE /\ busy = FALSE
  /\ async = TRUE /\ mu = Nobody /\ io = Nobody
  /\ wpc = "test" /\ batch = <<>> /\ note = 0 /\ last = FALSE
  /\ pc = [t \in Thread |-> "run"] /\ count = [t \in Thread |-> 0]
  /\ todo = [t \in Thread |-> <<>>] /\ enqueuing = {}
  /\ watched = TRUE /\ summary = FALSE /\ ended = "no"
  /\ file = <<>> /\ order = <<>> /\ lost = {} /\ swept = 0

Next ==
  \/ Alive /\ WriterStep
  \/ Alive /\ DogQuits
  \/ \E t \in Thread : Alive /\ (Log(t) \/ ThreadStep(t))
  \/ \E t \in Leavers, how \in Endings : Alive /\ Leave(t, how)

Spec == Init /\ [][Next]_vars

\* Every thread runs: what it has begun goes on, and a bounded wait ends.
Fairness ==
  /\ WF_vars(Alive /\ WriterStep)
  /\ WF_vars(Alive /\ DogQuits)
  /\ \A t \in Thread : WF_vars(Alive /\ ThreadStep(t))
FairSpec == Spec /\ Fairness

-----------------------------------------------------------------------------
(* Properties *)

Lines == {<<t, n>> : t \in Thread, n \in 1..MaxLines + 2}
Pcs == {"run", "queue", "inside", "direct", "writing", "drain", "idle", "recheck", "gone"}

\* Every variable has its type, the ring is never overfull, and a thread only
\* holds the lock it is inside of, or was inside of when it left.
TypeOK ==
  /\ ring \in Seq(Lines) /\ Len(ring) < Slots /\ dropped \in Nat
  /\ {stop, busy, async, last, watched, summary} \subseteq BOOLEAN
  /\ mu \in {Nobody} \cup Thread /\ io \in {Nobody} \cup Thread
  /\ wpc \in {"test", "asleep", "write", "done", "gone"}
  /\ batch \in Seq(Lines) /\ note \in Nat
  /\ pc \in [Thread -> Pcs] /\ count \in [Thread -> 0..MaxLines + 2]
  /\ enqueuing \subseteq Thread /\ ended \in {"no", "clean", "_Exit"}
  /\ \A t \in Thread : (mu = t /\ ~Leaving(t) => pc[t] = "inside")
                       /\ (io = t /\ ~Leaving(t) => pc[t] = "writing")

\* The elements of f that are in S, in the order of f, and the number of lines
\* its notes count. (Recursive functions, unlike SelectSeq and FoldSeq, can be
\* expanded in a proof.)
Kept(f, S) ==
  LET kept[n \in 0..Len(f)] ==
        IF n = 0 THEN <<>>
        ELSE IF f[n] \in S THEN Append(kept[n - 1], f[n]) ELSE kept[n - 1]
  IN kept[Len(f)]

Noted(f) ==
  LET noted[n \in 0..Len(f)] ==
        IF n = 0 THEN 0
        ELSE IF f[n][1] = "dropped" THEN noted[n - 1] + f[n][2] ELSE noted[n - 1]
  IN noted[Len(f)]

\* Queued lines reach the file in the order they were queued, each once, and
\* lines that found the ring full are counted, until the process ends: by
\* _Exit with what its bounded drain gave up, by exit with nothing left behind
\* but one line of a thread that had looked at g_async before the drain and
\* queued it after the last sweep (start_writer).
Accounted ==
  /\ Kept(file, ToSet(order)) \o batch \o ring = order
  /\ IsInjective(Kept(file, Lines))
  /\ Cardinality(lost) = dropped + note + Noted(file)
  /\ ended = "clean" =>
       /\ batch = <<>> /\ dropped + note = 0 /\ Len(order) >= swept + Len(ring)
       /\ IsInjective([i \in DOMAIN ring |-> ring[i][1]])

\* A thread that left while it held a lock goes on to wait for itself: its next
\* line takes g_io_mu (the handlers behind rt_log_write_sync) or g_mu (the
\* interrupt's first line). Or it joins the watchdog, which waits for the lock.
Stuck ==
  \E t \in Thread :
    /\ Leaving(t) /\ t \in {mu, io}
    /\ \/ mu = t /\ pc[t] = "queue"
       \/ io = t /\ pc[t] = "direct"
       \/ /\ At(t, "dogJoin")
          /\ \/ mu = t /\ pc[Dog] \in {"queue", "drain", "recheck", "idle"}
             \/ io = t /\ pc[Dog] = "direct"

\* A thread that leaves ends the process, whatever the writer and the other
\* threads are doing: no drain, join or lock waits for ever ("a crash handler
\* that hangs is the failure this whole path exists to remove"). Stuck names
\* where the code does hang. And a queued line is written without any further
\* call, unless a thread that left holds a lock the writer needs.
NothingHangs ==
  /\ \A t \in Thread : Leaving(t) ~> (~Alive \/ Stuck)
  /\ (ring # <<>>) ~> \/ ring = <<>> /\ batch = <<>>
                      \/ \E t \in Thread : Leaving(t)
=============================================================================

---------------------------- MODULE EESchedProofs ----------------------------
(***************************************************************************)
(* Invariants of EESched, for any number of threads, semaphores and        *)
(* priorities and, but for the last section, for every quirk.              *)
(*                                                                         *)
(* ReadyInv: the types, who is in which ready queue, the one thread that   *)
(* runs.  CoroInv adds which thread has a coroutine, AnswerInv that one    *)
(* signal wakes one thread.  WaitInv ties three things together: a         *)
(* thread's scheduling state to its wait (Blocked), its wait to the queue  *)
(* it stands in (Parked), and that queue to the count (NoLostWakeup).      *)
(* OrderInv is about who runs when, without the quirks.                    *)
(***************************************************************************)
EXTENDS EESched, SequenceTheorems, TLAPS

-----------------------------------------------------------------------------
(***************************************************************************)
(* What the queue operations of EESched do to who is in a queue.  The      *)
(* ready queues and the semaphores' waiter queues never hold a thread      *)
(* twice, so a queue is described by its members and by being injective.   *)
(***************************************************************************)

\* Appending (ready_push_back, and the waiters of WaitSema).
LEMMA AppendMembers ==
  ASSUME NEW S, NEW q \in Seq(S), NEW t \in S
  PROVE  /\ Append(q, t) \in Seq(S)
         /\ \A u : Contains(Append(q, t), u) <=> Contains(q, u) \/ u = t
         /\ IsInjective(q) /\ ~ Contains(q, t) => IsInjective(Append(q, t))
  <1>1. Append(q, t) \in Seq(S) /\ Len(Append(q, t)) = Len(q) + 1
    OBVIOUS
  <1>2. \A i \in 1..Len(q) : Append(q, t)[i] = q[i]
    OBVIOUS
  <1>3. Append(q, t)[Len(q) + 1] = t
    OBVIOUS
  <1>4. \A u : Contains(Append(q, t), u) <=> Contains(q, u) \/ u = t
    BY <1>1, <1>2, <1>3 DEF Contains
  <1>5. IsInjective(q) /\ ~ Contains(q, t) => IsInjective(Append(q, t))
    BY <1>1, <1>2, <1>3 DEF Contains, IsInjective
  <1>6. QED
    BY <1>1, <1>4, <1>5

\* Pushing in front (ready_push_front).
LEMMA PushFrontMembers ==
  ASSUME NEW S, NEW q \in Seq(S), NEW t \in S
  PROVE  /\ <<t>> \o q \in Seq(S)
         /\ \A u : Contains(<<t>> \o q, u) <=> Contains(q, u) \/ u = t
         /\ IsInjective(q) /\ ~ Contains(q, t) => IsInjective(<<t>> \o q)
  <1> DEFINE r == <<t>> \o q
  <1>1. r \in Seq(S) /\ Len(r) = Len(q) + 1
    OBVIOUS
  <1>2. \A i \in 1..Len(r) : r[i] = IF i = 1 THEN t ELSE q[i - 1]
    OBVIOUS
  <1>3. \A i \in 1..Len(q) : r[i + 1] = q[i]
    BY <1>1, <1>2
  <1> HIDE DEF r
  <1>4. ASSUME NEW u PROVE Contains(r, u) <=> Contains(q, u) \/ u = t
    <2>1. Contains(r, u) => Contains(q, u) \/ u = t
      BY <1>1, <1>2 DEF Contains
    <2>2. Contains(q, u) => Contains(r, u)
      <3>1. SUFFICES ASSUME NEW i \in 1..Len(q), q[i] = u PROVE Contains(r, u)
        BY DEF Contains
      <3>2. i + 1 \in 1..Len(r) /\ r[i + 1] = u
        BY <1>1, <1>3, <3>1
      <3>3. QED
        BY <3>2 DEF Contains
    <2>3. u = t => Contains(r, u)
      BY <1>1, <1>2 DEF Contains
    <2>4. QED
      BY <2>1, <2>2, <2>3
  <1>5. IsInjective(q) /\ ~ Contains(q, t) => IsInjective(r)
    <2>1. SUFFICES ASSUME IsInjective(q), ~ Contains(q, t),
                          NEW a \in 1..Len(r), NEW b \in 1..Len(r), r[a] = r[b]
                   PROVE  a = b
      BY <1>1 DEF IsInjective
    <2>2. \A i \in 1..Len(q) : q[i] # t
      BY <2>1 DEF Contains
    <2>3. CASE a = 1 \/ b = 1
      <3>1. ASSUME NEW i \in 1..Len(r), i # 1 PROVE r[i] # t
        <4>1. i - 1 \in 1..Len(q) /\ r[i] = q[i - 1]
          BY <1>1, <1>2, <3>1
        <4>2. QED
          BY <2>2, <4>1
      <3>2. 1 \in 1..Len(r) /\ r[1] = t
        BY <1>1, <1>2
      <3>3. QED
        BY <2>1, <2>3, <3>1, <3>2
    <2>4. CASE a # 1 /\ b # 1
      <3>1. a - 1 \in 1..Len(q) /\ b - 1 \in 1..Len(q) /\ q[a - 1] = q[b - 1]
        BY <1>1, <1>2, <2>1, <2>4
      <3>2. a - 1 = b - 1
        BY <2>1, <3>1 DEF IsInjective
      <3>3. QED
        BY <3>2
    <2>5. QED
      BY <2>3, <2>4
  <1>6. QED
    BY <1>1, <1>4, <1>5 DEF r

\* Popping the front (sched_loop, rt_sema_signal, rt_sema_delete).
LEMMA TailMembers ==
  ASSUME NEW S, NEW q \in Seq(S), q # <<>>
  PROVE  /\ Head(q) \in S /\ Tail(q) \in Seq(S)
         /\ Contains(q, Head(q))
         /\ IsInjective(q) =>
              /\ IsInjective(Tail(q))
              /\ \A u : Contains(Tail(q), u) <=> Contains(q, u) /\ u # Head(q)
  <1>1. Head(q) \in S /\ Tail(q) \in Seq(S) /\ Len(Tail(q)) = Len(q) - 1 /\ Len(q) > 0
    OBVIOUS
  <1>2. Head(q) = q[1] /\ \A i \in 1..Len(Tail(q)) : Tail(q)[i] = q[i + 1]
    OBVIOUS
  <1>3. \A i \in 2..Len(q) : q[i] = Tail(q)[i - 1]
    BY <1>1, <1>2
  <1>4. Contains(q, Head(q))
    BY <1>1, <1>2 DEF Contains
  <1>5. ASSUME IsInjective(q) PROVE IsInjective(Tail(q))
    BY <1>1, <1>2, <1>5 DEF IsInjective
  <1>6. ASSUME IsInjective(q), NEW u
        PROVE  Contains(Tail(q), u) <=> Contains(q, u) /\ u # Head(q)
    <2>1. Contains(Tail(q), u) => Contains(q, u) /\ u # Head(q)
      BY <1>1, <1>2, <1>6 DEF Contains, IsInjective
    <2>2. Contains(q, u) /\ u # Head(q) => Contains(Tail(q), u)
      BY <1>1, <1>2, <1>3 DEF Contains
    <2>3. QED
      BY <2>1, <2>2
  <1>7. QED
    BY <1>1, <1>4, <1>5, <1>6

\* Rotating (rt_thread_rotate_ready_queue).
LEMMA RotateMembers ==
  ASSUME NEW S, NEW q \in Seq(S), q # <<>>, IsInjective(q)
  PROVE  /\ Append(Tail(q), Head(q)) \in Seq(S)
         /\ \A u : Contains(Append(Tail(q), Head(q)), u) <=> Contains(q, u)
         /\ IsInjective(Append(Tail(q), Head(q)))
  <1>1. /\ Head(q) \in S /\ Tail(q) \in Seq(S) /\ Contains(q, Head(q))
        /\ IsInjective(Tail(q))
        /\ \A u : Contains(Tail(q), u) <=> Contains(q, u) /\ u # Head(q)
    BY TailMembers
  <1>2. ~ Contains(Tail(q), Head(q))
    BY <1>1
  <1>3. /\ Append(Tail(q), Head(q)) \in Seq(S)
        /\ \A u : Contains(Append(Tail(q), Head(q)), u) <=> Contains(Tail(q), u) \/ u = Head(q)
        /\ IsInjective(Append(Tail(q), Head(q)))
    BY <1>1, <1>2, AppendMembers
  <1>4. QED
    BY <1>1, <1>3

\* Dropping a thread from the middle (ready_remove, and leaving a semaphore):
\* who stood behind it moves up one place.
LEMMA EraseShift ==
  ASSUME NEW S, NEW q \in Seq(S), NEW t, Contains(q, t)
  PROVE  /\ Erase(q, t) \in Seq(S) /\ Len(Erase(q, t)) = Len(q) - 1
         /\ \E k \in 1..Len(q) :
              /\ q[k] = t
              /\ \A i \in 1..Len(Erase(q, t)) :
                   Erase(q, t)[i] = IF i < k THEN q[i] ELSE q[i + 1]
  <1> DEFINE k == CHOOSE i \in DOMAIN q : q[i] = t
             r == SubSeq(q, 1, k - 1) \o SubSeq(q, k + 1, Len(q))
  <1>1. k \in 1..Len(q) /\ q[k] = t
    BY DEF Contains
  <1>2. Erase(q, t) = r
    BY DEF Erase, RemoveAt
  <1> HIDE DEF k
  <1> DEFINE x == SubSeq(q, 1, k - 1)
             y == SubSeq(q, k + 1, Len(q))
  <1>x. x \in Seq(S) /\ Len(x) = k - 1 /\ \A i \in 1..(k - 1) : x[i] = q[i]
    BY <1>1, SubSeqProperties
  <1>y. y \in Seq(S) /\ Len(y) = Len(q) - k /\ \A i \in 1..(Len(q) - k) : y[i] = q[k + i]
    BY <1>1, SubSeqProperties
  <1>r. r = x \o y
    OBVIOUS
  <1> HIDE DEF x, y, r
  <1>3. r \in Seq(S) /\ Len(r) = Len(q) - 1
    <2> x \in Seq(S) /\ y \in Seq(S)
      BY <1>x, <1>y
    <2>1. r \in Seq(S) /\ Len(r) = Len(x) + Len(y)
      BY ONLY x \in Seq(S), y \in Seq(S), <1>r, ConcatProperties
    <2>2. QED
      BY <1>1, <1>x, <1>y, <2>1
  <1>4. ASSUME NEW i \in 1..Len(r) PROVE r[i] = IF i < k THEN q[i] ELSE q[i + 1]
    <2>1. r[i] = IF i <= Len(x) THEN x[i] ELSE y[i - Len(x)]
      BY <1>x, <1>y, <1>r, <1>1, <1>3
    <2>2. QED
      BY <1>1, <1>x, <1>y, <1>3, <2>1
  <1>5. QED
    BY <1>1, <1>2, <1>3, <1>4

LEMMA EraseMembers ==
  ASSUME NEW S, NEW q \in Seq(S), NEW t
  PROVE  /\ Erase(q, t) \in Seq(S)
         /\ IsInjective(q) =>
              /\ IsInjective(Erase(q, t))
              /\ \A u : Contains(Erase(q, t), u) <=> Contains(q, u) /\ u # t
  <1>1. CASE ~ Contains(q, t)
    BY <1>1 DEF Erase, Contains
  <1>2. CASE Contains(q, t)
    <2> DEFINE r == Erase(q, t)
    <2>1. r \in Seq(S) /\ Len(r) = Len(q) - 1
      BY <1>2, EraseShift
    <2>2. PICK k \in 1..Len(q) :
            /\ q[k] = t
            /\ \A i \in 1..Len(r) : r[i] = IF i < k THEN q[i] ELSE q[i + 1]
      BY <1>2, EraseShift
    <2> HIDE DEF r
    <2>3. IsInjective(q) => IsInjective(r)
      <3>1. SUFFICES ASSUME IsInjective(q),
                            NEW a \in 1..Len(r), NEW b \in 1..Len(r), r[a] = r[b]
                     PROVE  a = b
        BY <2>1 DEF IsInjective
      <3> DEFINE f(i) == IF i < k THEN i ELSE i + 1
      <3>2. /\ f(a) \in 1..Len(q) /\ r[a] = q[f(a)]
            /\ f(b) \in 1..Len(q) /\ r[b] = q[f(b)]
        BY <2>1, <2>2, <3>1
      <3> HIDE DEF f
      <3>3. f(a) = f(b)
        <4>1. q[f(a)] = q[f(b)]
          BY <3>1, <3>2
        <4>2. f(a) \in DOMAIN q /\ f(b) \in DOMAIN q
          BY <3>2
        <4>3. QED
          BY <3>1, <4>1, <4>2 DEF IsInjective
      <3>4. QED
        BY <2>2, <3>3 DEF f
    <2>4. ASSUME IsInjective(q), NEW u PROVE Contains(r, u) <=> Contains(q, u) /\ u # t
      <3>1. Contains(r, u) => Contains(q, u) /\ u # t
        BY <2>1, <2>2, <2>4, SMTT(30) DEF Contains, IsInjective
      <3>2. ASSUME NEW i \in 1..Len(q), q[i] = u, u # t PROVE Contains(r, u)
        <4>1. i # k
          BY <2>2, <3>2
        <4>2. CASE i < k
          <5>1. i \in 1..Len(r) /\ r[i] = u
            BY <2>1, <2>2, <3>2, <4>2
          <5>2. QED
            BY <5>1 DEF Contains
        <4>3. CASE i > k
          <5>1. i - 1 \in 1..Len(r) /\ r[i - 1] = u
            BY <2>1, <2>2, <3>2, <4>3
          <5>2. QED
            BY <5>1 DEF Contains
        <4>4. QED
          BY <2>2, <4>1, <4>2, <4>3
      <3>3. QED
        BY <3>1, <3>2 DEF Contains
    <2>5. QED
      BY <2>1, <2>3, <2>4 DEF r
  <1>3. QED
    BY <1>1, <1>2

-----------------------------------------------------------------------------
(* Types *)

Occupied == {"before", "resume", "guest", "after", "reap"}

\* TypeOK with what it needs to be inductive: sched_loop holds a thread
\* exactly while it is around a resume.
TypeInv == TypeOK /\ (resumed # 0 <=> cpu \in Occupied)

LEMMA InitType == Init => TypeInv
  <1> SUFFICES ASSUME Init PROVE TypeInv
    OBVIOUS
  <1>1. 1 \in Thread /\ <<1>> \in Seq(Thread) /\ <<>> \in Seq(Thread)
    BY NThreadsAssumption DEF Thread
  <1>2. 0 \in Prio /\ 0 \in 0..MaxWakeups /\ 0 \in 0..MaxCount
    BY MaxPrioAssumption, MaxWakeupsAssumption, MaxCountAssumption DEF Prio
  <1>3. /\ state \in [Thread -> TState]
        /\ ready \in [Prio -> Seq(Thread)]
        /\ waiters \in [Sema -> Seq(Thread)]
    BY <1>1 DEF Init, TState
  <1>4. /\ priority \in [Thread -> Prio]
        /\ wakeup_count \in [Thread -> 0..MaxWakeups]
        /\ count \in [Sema -> 0..MaxCount]
        /\ max_count \in [Sema -> 0..MaxCount]
    BY <1>2 DEF Init
  <1>5. /\ wait \in [Thread -> {None, Sleep} \cup Sema]
        /\ release_ret \in [Thread -> {-1, 0} \cup Sema]
        /\ pending_delete \in [Thread -> BOOLEAN]
        /\ t_eie \in [Thread -> BOOLEAN]
        /\ co \in [Thread -> BOOLEAN]
        /\ alive \in [Sema -> BOOLEAN]
    BY DEF Init
  <1>6. /\ cpu = "loop" /\ resumed = 0 /\ g_eie \in BOOLEAN /\ intr = Nobody
        /\ pend \in BOOLEAN /\ deleting = 0 /\ fatal = "no"
    BY DEF Init
  <1>7. QED
    BY <1>3, <1>4, <1>5, <1>6 DEF TypeInv, TypeOK, Occupied

LEMMA ThreadPositive == \A t \in Thread : t # 0
  BY DEF Thread

LEMMA ZeroInBounds == 0 \in 0..MaxWakeups /\ 0 \in 0..MaxCount /\ 0 \in Prio
  BY MaxPrioAssumption, MaxWakeupsAssumption, MaxCountAssumption DEF Prio

\* One less, of a number within a bound.
LEMMA Predecessor ==
  ASSUME NEW m \in Nat, NEW n \in 0..m, n > 0
  PROVE  n - 1 \in 0..m
  OBVIOUS

LEMMA Successor ==
  ASSUME NEW m \in Nat, NEW n \in 0..m, n < m
  PROVE  n + 1 \in 0..m
  OBVIOUS

LEMMA BelowBound ==
  ASSUME NEW m \in Nat, NEW k \in 0..m, NEW n \in 0..m, n < k
  PROVE  n + 1 \in 0..m
  OBVIOUS

LEMMA WithinBound ==
  ASSUME NEW m \in Nat, NEW n \in 1..m, NEW k \in 0..n
  PROVE  n \in 0..m /\ k \in 0..m
  OBVIOUS

LEMMA ResumedThread ==
  ASSUME TypeInv, cpu \in Occupied
  PROVE  resumed \in Thread /\ resumed # 0
  BY DEF TypeInv, TypeOK, Occupied

SchedType ==
  /\ cpu \in {"loop", "before", "resume", "guest", "after", "reap", "idle"}
  /\ resumed \in {0} \cup Thread
  /\ resumed # 0 <=> cpu \in Occupied
  /\ g_eie \in BOOLEAN /\ t_eie \in [Thread -> BOOLEAN]
RunType == state \in [Thread -> TState] /\ ready \in [Prio -> Seq(Thread)]

LEMMA YieldType ==
  ASSUME TypeInv, cpu = "guest", Yield
  PROVE  SchedType'
  BY DEF TypeInv, TypeOK, Yield, SchedType, Occupied

LEMMA PreemptType ==
  ASSUME TypeInv, NEW rq \in [Prio -> Seq(Thread)], NEW st \in [Thread -> TState],
         MaybePreempt(rq, st)
  PROVE  RunType' /\ SchedType'
  <1>1. CASE UNCHANGED schedVars /\ ready' = rq /\ state' = st
    BY <1>1 DEF TypeInv, TypeOK, SchedType, RunType, schedVars
  <1>2. CASE /\ cpu = "guest" /\ Yield
             /\ ready' = PushFront(rq, priority[resumed], resumed)
             /\ state' = [st EXCEPT ![resumed] = "Ready"]
    <2>1. SchedType'
      BY <1>2, YieldType
    <2>2. resumed \in Thread /\ priority[resumed] \in Prio
      BY <1>2, ResumedThread DEF Occupied, TypeInv, TypeOK
    <2>3. <<resumed>> \o rq[priority[resumed]] \in Seq(Thread)
      BY <2>2, PushFrontMembers
    <2>4. RunType'
      BY <1>2, <2>2, <2>3 DEF RunType, PushFront, TState
    <2>5. QED
      BY <2>1, <2>4
  <1>3. QED
    BY <1>1, <1>2 DEF MaybePreempt, Return

LEMMA EndCallType ==
  ASSUME TypeInv, NEW i, NEW rq \in [Prio -> Seq(Thread)], NEW st \in [Thread -> TState],
         EndCall(i, rq, st)
  PROVE  RunType' /\ SchedType'
  <1>1. CASE UNCHANGED schedVars /\ ready' = rq /\ state' = st
    BY <1>1 DEF TypeInv, TypeOK, SchedType, RunType, schedVars
  <1>2. CASE MaybePreempt(rq, st)
    BY <1>2, PreemptType
  <1>3. QED
    BY <1>1, <1>2 DEF EndCall, Return

LEMMA PushBackType ==
  ASSUME TypeInv, NEW rq \in [Prio -> Seq(Thread)], NEW p \in Prio, NEW t \in Thread
  PROVE  PushBack(rq, p, t) \in [Prio -> Seq(Thread)]
  <1>1. Append(rq[p], t) \in Seq(Thread)
    BY AppendMembers
  <1>2. QED
    BY <1>1 DEF PushBack

LEMMA EraseType ==
  ASSUME NEW rq \in [Prio -> Seq(Thread)], NEW p \in Prio, NEW t \in Thread
  PROVE  [rq EXCEPT ![p] = Erase(@, t)] \in [Prio -> Seq(Thread)]
  <1>1. Erase(rq[p], t) \in Seq(Thread)
    BY EraseMembers
  <1>2. QED
    BY <1>1

LEMMA TickType ==
  ASSUME TypeInv, Tick
  PROVE  pend' \in BOOLEAN
  BY DEF TypeInv, TypeOK, Tick

\* What unblock(t, r) leaves.
LEMMA UnblockType ==
  ASSUME TypeInv, NEW t \in Thread, NEW r \in {-1, 0} \cup Sema, UnblockWait(t, r)
  PROVE  /\ UnblockReady(t) \in [Prio -> Seq(Thread)]
         /\ UnblockState(t) \in [Thread -> TState]
         /\ wait' \in [Thread -> {None, Sleep} \cup Sema]
         /\ release_ret' \in [Thread -> {-1, 0} \cup Sema]
  <1>1. UnblockReady(t) \in [Prio -> Seq(Thread)]
    BY PushBackType DEF TypeInv, TypeOK, UnblockReady
  <1>2. UnblockState(t) \in [Thread -> TState]
    BY DEF TypeInv, TypeOK, UnblockState, TState
  <1>3. QED
    BY <1>1, <1>2 DEF TypeInv, TypeOK, UnblockWait

LEMMA LeaveWaitersType ==
  ASSUME TypeInv, NEW t \in Thread, LeaveWaiters(t)
  PROVE  waiters' \in [Sema -> Seq(Thread)]
  <1>1. CASE wait[t] \in Sema
    <2>1. Erase(waiters[wait[t]], t) \in Seq(Thread)
      BY <1>1, EraseMembers DEF TypeInv, TypeOK
    <2>2. QED
      BY <1>1, <2>1 DEF LeaveWaiters, TypeInv, TypeOK
  <1>2. CASE wait[t] \notin Sema
    BY <1>2 DEF LeaveWaiters, TypeInv, TypeOK
  <1>3. QED
    BY <1>1, <1>2

\* TypeInv by parts: what the primed state has to satisfy.
DataType ==
  /\ priority \in [Thread -> Prio]
  /\ wait \in [Thread -> {None, Sleep} \cup Sema]
  /\ release_ret \in [Thread -> {-1, 0} \cup Sema]
  /\ wakeup_count \in [Thread -> 0..MaxWakeups]
  /\ pending_delete \in [Thread -> BOOLEAN]
  /\ co \in [Thread -> BOOLEAN]
SemaType ==
  /\ alive \in [Sema -> BOOLEAN]
  /\ count \in [Sema -> 0..MaxCount]
  /\ max_count \in [Sema -> 0..MaxCount]
  /\ waiters \in [Sema -> Seq(Thread)]
HostType ==
  /\ intr \in {Nobody, SchedLoop, Lost} \cup Thread
  /\ pend \in BOOLEAN
  /\ deleting \in {0} \cup Sema
  /\ fatal \in {"no", "yielded without a scheduling state", "yield outside a coroutine",
                "blocking call from interrupt context"}

LEMMA TypeParts == TypeInv <=> RunType /\ SchedType /\ DataType /\ SemaType /\ HostType
  BY DEF TypeInv, TypeOK, RunType, SchedType, DataType, SemaType, HostType

LEMMA TypePartsNext ==
  TypeInv' <=> RunType' /\ SchedType' /\ DataType' /\ SemaType' /\ HostType'
  BY DEF TypeInv, TypeOK, RunType, SchedType, DataType, SemaType, HostType

LEMMA PartsKept ==
  ASSUME TypeInv
  PROVE  /\ UNCHANGED runVars => RunType'
         /\ UNCHANGED schedVars => SchedType'
         /\ UNCHANGED <<priority, waitVars, wakeup_count, lifeVars>> => DataType'
         /\ UNCHANGED semaVars => SemaType'
         /\ UNCHANGED <<intr, pend, endVars>> => HostType'
  BY TypeParts DEF RunType, SchedType, DataType, SemaType, HostType, runVars, schedVars,
     waitVars, lifeVars, semaVars, endVars

LEMMA SchedStepType ==
  ASSUME TypeInv, SchedStep
  PROVE  TypeInv'
  <1> USE DEF TypeInv, TypeOK, Occupied
  <1>1. ASSUME NEW p \in Prio, Dispatch(p) PROVE TypeInv'
    <2>1. Head(ready[p]) \in Thread /\ Tail(ready[p]) \in Seq(Thread)
      BY <1>1, TailMembers DEF Dispatch, IsBest
    <2>a. resumed' \in Thread
      BY <1>1, <2>1 DEF Dispatch
    <2>2. resumed' \in Thread /\ resumed' # 0
      BY ONLY <2>a, ThreadPositive
    <2>3. RunType'
      BY <1>1, <2>1, <2>2 DEF Dispatch, RunType, TState
    <2>4. SchedType'
      BY <1>1, <2>2 DEF Dispatch, SchedType
    <2>5. QED
      BY <1>1, <2>3, <2>4, PartsKept, TypePartsNext
      DEF Dispatch, HostType, endVars, DataType, waitVars, lifeVars
  <1>2. CASE Resume
    BY <1>2 DEF Resume, runVars, waitVars, lifeVars, semaVars, endVars
  <1>3. CASE Reap
    BY <1>3 DEF Reap, Fatal, runVars, waitVars, lifeVars, semaVars, schedVars, endVars, TState
  <1>4. CASE Idle
    BY <1>4 DEF Idle, runVars, waitVars, lifeVars, semaVars, endVars
  <1>5. CASE IdleOver
    BY <1>5 DEF IdleOver, runVars, waitVars, lifeVars, semaVars, endVars
  <1>6. CASE EnterInterrupt
    BY <1>6 DEF EnterInterrupt, runVars, waitVars, lifeVars, semaVars, schedVars, endVars
  <1>7. CASE LeaveInterrupt
    <2>1. DataType' /\ SemaType'
      BY <1>7, PartsKept DEF LeaveInterrupt, DataType, waitVars, lifeVars
    <2>2. HostType'
      BY <1>7 DEF LeaveInterrupt, HostType
    <2>3. CASE /\ cpu = "guest" /\ Yield
               /\ ready' = PushFront(ready, priority[resumed], resumed)
               /\ state' = [state EXCEPT ![resumed] = "Ready"]
      <3>1. resumed \in Thread
        BY <2>3
      <3>2. <<resumed>> \o ready[priority[resumed]] \in Seq(Thread)
        BY <3>1, PushFrontMembers, ZenonT(40)
      <3>3. RunType'
        BY <2>3, <3>1, <3>2 DEF RunType, PushFront, TState
      <3>4. QED
        BY <2>1, <2>2, <2>3, <3>3, YieldType, TypePartsNext
    <2>4. CASE UNCHANGED <<runVars, schedVars>>
      BY <2>1, <2>2, <2>4, PartsKept, TypePartsNext DEF runVars, schedVars
    <2>5. CASE cpu' = AfterDelivery /\ UNCHANGED <<runVars, resumed, g_eie, t_eie>>
      <3>1. SchedType'
        BY <2>5 DEF SchedType, AfterDelivery
      <3>2. QED
        BY <2>1, <2>2, <2>5, <3>1, PartsKept, TypePartsNext
    <2>6. QED
      BY <1>7, <2>3, <2>4, <2>5 DEF LeaveInterrupt
  <1>8. CASE DeleteSemaWaiter
    <2> DEFINE t == Head(waiters[deleting])
    <2>1. deleting \in Sema
      BY <1>8 DEF DeleteSemaWaiter
    <2>2. t \in Thread /\ Tail(waiters[deleting]) \in Seq(Thread)
      BY <1>8, <2>1, TailMembers DEF DeleteSemaWaiter
    <2>3. SemaType'
      BY <1>8, <2>1, <2>2 DEF DeleteSemaWaiter, SemaType
    <2>4. UnblockWait(t, -1) /\ ready' = UnblockReady(t) /\ state' = UnblockState(t)
      BY <1>8 DEF DeleteSemaWaiter
    <2> HIDE DEF t
    <2>5. RunType' /\ DataType'
      BY <1>8, <2>2, <2>4, UnblockType DEF RunType, DataType, DeleteSemaWaiter, lifeVars
    <2>6. SchedType' /\ HostType'
      BY <1>8, PartsKept DEF DeleteSemaWaiter
    <2>7. QED
      BY <2>3, <2>5, <2>6, TypePartsNext
  <1>9. CASE DeleteSemaEnd
    <2>1. RunType' /\ SchedType'
      BY <1>9, PreemptType DEF DeleteSemaEnd
    <2>2. DataType'
      BY <1>9, PartsKept DEF DeleteSemaEnd
    <2>3. SemaType' /\ HostType'
      BY <1>9 DEF DeleteSemaEnd, SemaType, HostType
    <2>4. QED
      BY <2>1, <2>2, <2>3, TypePartsNext
  <1>10. QED
    BY <1>1, <1>2, <1>3, <1>4, <1>5, <1>6, <1>7, <1>8, <1>9 DEF SchedStep

LEMMA ThreadCallType ==
  ASSUME TypeInv, ThreadCall
  PROVE  TypeInv'
  <1> USE DEF TypeInv, TypeOK, Occupied
  <1>1. ASSUME InThread PROVE cpu = "guest" /\ resumed \in Thread
    BY <1>1 DEF InThread
  <1>2. ASSUME Tick, UNCHANGED <<intr, endVars>> PROVE HostType'
    BY <1>2, TickType DEF HostType, endVars
  <1>3. ASSUME NEW p \in Prio, CreateThread(p) PROVE TypeInv'
    <2>1. PICK t \in Thread :
            /\ state' = [state EXCEPT ![t] = "Dormant"]
            /\ priority' = [priority EXCEPT ![t] = p]
            /\ wait' = [wait EXCEPT ![t] = None]
            /\ release_ret' = [release_ret EXCEPT ![t] = 0]
            /\ wakeup_count' = [wakeup_count EXCEPT ![t] = 0]
            /\ pending_delete' = [pending_delete EXCEPT ![t] = FALSE]
            /\ t_eie' = [t_eie EXCEPT ![t] = TRUE]
            /\ co' = [co EXCEPT ![t] = FALSE]
      BY <1>3 DEF CreateThread
    <2>2. DataType'
      BY <2>1, ZeroInBounds DEF DataType
    <2>3. RunType' /\ SchedType'
      BY <1>3, <2>1 DEF CreateThread, RunType, SchedType, TState
    <2>4. QED
      BY <1>2, <1>3, <2>2, <2>3, PartsKept, TypePartsNext DEF CreateThread
  <1>4. ASSUME NEW t \in Thread, DeleteThread(t) PROVE TypeInv'
    <2>1. RunType' /\ DataType'
      BY <1>4 DEF DeleteThread, RunType, DataType, TState, waitVars
    <2>2. QED
      BY <1>2, <1>4, <2>1, PartsKept, TypePartsNext DEF DeleteThread
  <1>5. ASSUME NEW t \in Thread, StartThread(t) PROVE TypeInv'
    <2>1. RunType' /\ SchedType'
      <3>1. PushBack(ready, priority[t], t) \in [Prio -> Seq(Thread)]
        BY PushBackType
      <3>2. [state EXCEPT ![t] = "Ready"] \in [Thread -> TState]
        BY DEF TState
      <3>3. QED
        BY <1>5, <3>1, <3>2, PreemptType DEF StartThread
    <2>2. DataType'
      BY <1>5 DEF StartThread, DataType, waitVars
    <2>3. QED
      BY <1>2, <1>5, <2>1, <2>2, PartsKept, TypePartsNext DEF StartThread
  <1>6. ASSUME NEW del \in BOOLEAN, ExitThread(del) PROVE TypeInv'
    <2>1. RunType' /\ DataType'
      BY <1>1, <1>6 DEF ExitThread, RunType, DataType, TState, waitVars
    <2>2. SchedType'
      BY <1>1, <1>6, YieldType DEF ExitThread
    <2>3. QED
      BY <1>2, <1>6, <2>1, <2>2, PartsKept, TypePartsNext DEF ExitThread
  <1>7. CASE RootReturn
    <2>1. RunType'
      BY <1>1, <1>7 DEF RootReturn, RunType, TState
    <2>2. SchedType'
      BY <1>1, <1>7, YieldType DEF RootReturn
    <2>3. QED
      BY <1>7, <2>1, <2>2, PartsKept, TypePartsNext DEF RootReturn
  <1>8. ASSUME NEW k \in {Sleep} \cup Sema, InThread, Block(k),
               UNCHANGED <<ready, priority, wakeup_count, lifeVars>>
        PROVE  RunType' /\ SchedType' /\ DataType'
    <2>1. RunType' /\ DataType'
      BY <1>1, <1>8 DEF Block, RunType, DataType, TState, lifeVars
    <2>2. SchedType'
      BY <1>1, <1>8, YieldType DEF Block
    <2>3. QED
      BY <2>1, <2>2
  <1>9. CASE SleepThread
    <2>1. CASE /\ wakeup_count[resumed] > 0 /\ Tick
               /\ wakeup_count' = [wakeup_count EXCEPT ![resumed] = @ - 1]
               /\ UNCHANGED <<runVars, priority, waitVars, lifeVars, semaVars, schedVars, intr,
                              endVars>>
      <3>a. wakeup_count[resumed] - 1 \in 0..MaxWakeups
        BY <1>1, <1>9, <2>1, Predecessor, MaxWakeupsAssumption DEF SleepThread
      <3>1. DataType'
        BY <2>1, <3>a DEF DataType, waitVars, lifeVars
      <3>2. QED
        BY <1>2, <2>1, <3>1, PartsKept, TypePartsNext
    <2>2. CASE /\ Block(Sleep)
               /\ UNCHANGED <<ready, priority, wakeup_count, lifeVars, semaVars, intr, endVars>>
      BY <1>2, <1>8, <1>9, <2>2, PartsKept, TypePartsNext DEF SleepThread, Block
    <2>3. CASE BlockInInterrupt
      BY <2>3 DEF BlockInInterrupt, Fatal, runVars, waitVars, lifeVars, semaVars, schedVars
    <2>4. QED
      BY <1>9, <2>1, <2>2, <2>3 DEF SleepThread
  <1>10. CASE Trap
    BY <1>10, ZenonT(40) DEF Trap, runVars, waitVars, lifeVars, semaVars, schedVars, endVars
  <1>11. ASSUME NEW on \in BOOLEAN, SetEie(on) PROVE TypeInv'
    BY <1>11, ZenonT(40) DEF SetEie, runVars, waitVars, lifeVars, semaVars, endVars
  <1>12. ASSUME NEW max \in 1..MaxCount, NEW init \in 0..max, CreateSema(init, max)
         PROVE  TypeInv'
    <2>1. max \in 0..MaxCount /\ init \in 0..MaxCount
      BY WithinBound, MaxCountAssumption
    <2>2. <<>> \in Seq(Thread)
      BY ONLY EmptySeq
    <2>a. PICK s \in Sema :
            /\ alive' = [alive EXCEPT ![s] = TRUE]
            /\ count' = [count EXCEPT ![s] = init]
            /\ max_count' = [max_count EXCEPT ![s] = max]
            /\ waiters' = [waiters EXCEPT ![s] = <<>>]
      BY <1>12 DEF CreateSema
    <2>b. SemaType'
      BY <2>1, <2>2, <2>a DEF SemaType
    <2>3. QED
      BY <1>2, <1>12, <2>b, PartsKept, TypePartsNext DEF CreateSema
  <1>13. ASSUME NEW s \in Sema, WaitSema(s) PROVE TypeInv'
    <2> InThread
      BY <1>13 DEF WaitSema
    <2>1. CASE /\ count[s] > 0 /\ Tick
               /\ count' = [count EXCEPT ![s] = @ - 1]
               /\ UNCHANGED <<runVars, priority, waitVars, wakeup_count, lifeVars, alive,
                              max_count, waiters, schedVars, intr, endVars>>
      <3>a. count[s] - 1 \in 0..MaxCount
        BY <2>1, Predecessor, MaxCountAssumption
      <3>1. SemaType'
        BY <2>1, <3>a DEF SemaType
      <3>2. QED
        BY <1>2, <2>1, <3>1, PartsKept, TypePartsNext
    <2>2. CASE /\ Block(s)
               /\ waiters' = [waiters EXCEPT ![s] = Append(@, resumed)]
               /\ UNCHANGED <<ready, priority, wakeup_count, lifeVars, alive, count, max_count,
                              intr, endVars>>
      <3>1. Append(waiters[s], resumed) \in Seq(Thread)
        BY <1>1, InThread, AppendMembers
      <3>2. SemaType'
        BY <2>2, <3>1 DEF SemaType
      <3>3. QED
        BY <1>2, <1>8, <1>13, <2>2, <3>2, TypePartsNext DEF WaitSema, Block
    <2>3. CASE BlockInInterrupt
      BY <2>3 DEF BlockInInterrupt, Fatal, runVars, waitVars, lifeVars, semaVars, schedVars
    <2>4. QED
      BY <1>13, <2>1, <2>2, <2>3 DEF WaitSema
  <1>14. QED
    BY <1>3, <1>4, <1>5, <1>6, <1>7, <1>9, <1>10, <1>11, <1>12, <1>13 DEF ThreadCall

LEMMA ICallType ==
  ASSUME TypeInv, NEW i \in BOOLEAN, ICall(i)
  PROVE  TypeInv'
  <1> USE DEF TypeInv, TypeOK, Occupied
  <1>1. ASSUME Tick, UNCHANGED <<intr, endVars>> PROVE HostType'
    BY <1>1, TickType DEF HostType, endVars
  <1>2. ASSUME NEW t \in Thread, TerminateThread(t, i) PROVE TypeInv'
    <2>1. [ready EXCEPT ![priority[t]] = Erase(@, t)] \in [Prio -> Seq(Thread)]
      BY EraseType
    <2>2. RunType'
      BY <1>2, <2>1 DEF TerminateThread, RunType, TState
    <2>3. DataType'
      BY <1>2 DEF TerminateThread, CoroDestroy, DataType
    <2>4. SemaType'
      BY <1>2, LeaveWaitersType DEF TerminateThread, SemaType
    <2>5. HostType'
      BY <1>2, TickType DEF TerminateThread, HostType, endVars
    <2>6. QED
      BY <1>2, <2>2, <2>3, <2>4, <2>5, PartsKept, TypePartsNext DEF TerminateThread
  <1>3. ASSUME NEW t \in Thread, WakeupThread(t, i) PROVE TypeInv'
    <2>1. SemaType' /\ HostType'
      BY <1>1, <1>3, PartsKept DEF WakeupThread
    <2>2. CASE /\ UnblockWait(t, 0)
               /\ EndCall(i, UnblockReady(t), UnblockState(t))
               /\ UNCHANGED wakeup_count
      <3>1. RunType' /\ SchedType'
        BY <2>2, UnblockType, EndCallType
      <3>2. DataType'
        BY <1>3, <2>2, UnblockType DEF DataType, WakeupThread, lifeVars
      <3>3. QED
        BY <2>1, <3>1, <3>2, TypePartsNext
    <2>3. CASE /\ wakeup_count[t] < MaxWakeups
               /\ wakeup_count' = [wakeup_count EXCEPT ![t] = @ + 1]
               /\ UNCHANGED <<runVars, waitVars, schedVars>>
      <3>1. wakeup_count[t] + 1 \in 0..MaxWakeups
        BY <2>3, Successor, MaxWakeupsAssumption
      <3>2. DataType'
        BY <1>3, <2>3, <3>1 DEF DataType, WakeupThread, lifeVars, waitVars
      <3>3. QED
        BY <2>1, <2>3, <3>2, PartsKept, TypePartsNext
    <2>4. QED
      BY <1>3, <2>2, <2>3 DEF WakeupThread
  <1>4. ASSUME NEW t \in Thread, CancelWakeupThread(t, i) PROVE TypeInv'
    <2>1. DataType'
      BY <1>4, ZeroInBounds DEF CancelWakeupThread, DataType, waitVars, lifeVars
    <2>2. QED
      BY <1>1, <1>4, <2>1, PartsKept, TypePartsNext DEF CancelWakeupThread
  <1>5. ASSUME NEW t \in Thread, SuspendThread(t, i) PROVE TypeInv'
    <2>1. CASE /\ cpu = "guest" /\ Tick /\ state[t] = "Run" /\ t = current
               /\ state' = [state EXCEPT ![t] = "Suspend"]
               /\ Yield
               /\ UNCHANGED <<ready, priority, waitVars, wakeup_count, lifeVars, semaVars, intr,
                              endVars>>
      <3>1. RunType'
        BY <2>1 DEF RunType, TState
      <3>2. QED
        BY <1>1, <2>1, <3>1, YieldType, PartsKept, TypePartsNext
    <2>2. CASE Fatal("yield outside a coroutine")
      BY <2>2 DEF Fatal, runVars, waitVars, lifeVars, semaVars, schedVars
    <2>3. CASE /\ Tick
               /\ ready' = IF state[t] = "Ready"
                           THEN [ready EXCEPT ![priority[t]] = Erase(@, t)] ELSE ready
               /\ state' = [state EXCEPT ![t] =
                              IF @ = "Ready" THEN "Suspend" ELSE "WaitSuspend"]
               /\ UNCHANGED <<priority, waitVars, wakeup_count, lifeVars, semaVars, schedVars,
                              intr, endVars>>
      <3>1. [ready EXCEPT ![priority[t]] = Erase(@, t)] \in [Prio -> Seq(Thread)]
        BY EraseType
      <3>2. RunType'
        BY <2>3, <3>1 DEF RunType, TState
      <3>3. QED
        BY <1>1, <2>3, <3>2, PartsKept, TypePartsNext
    <2>4. QED
      BY <1>5, <2>1, <2>2, <2>3 DEF SuspendThread, SuspendRunning
  <1>6. ASSUME NEW t \in Thread, ResumeThread(t, i) PROVE TypeInv'
    <2>1. CASE MaybePreempt(PushBack(ready, priority[t], t), [state EXCEPT ![t] = "Ready"])
      <3>1. PushBack(ready, priority[t], t) \in [Prio -> Seq(Thread)]
        BY PushBackType
      <3>2. [state EXCEPT ![t] = "Ready"] \in [Thread -> TState]
        BY DEF TState
      <3>3. RunType' /\ SchedType'
        BY <2>1, <3>1, <3>2, PreemptType
      <3>4. QED
        BY <1>1, <1>6, <3>3, PartsKept, TypePartsNext DEF ResumeThread
    <2>2. CASE state' = [state EXCEPT ![t] = "Wait"] /\ Return /\ UNCHANGED ready
      <3>1. RunType'
        BY <2>2 DEF RunType, TState
      <3>2. QED
        BY <1>1, <1>6, <2>2, <3>1, PartsKept, TypePartsNext DEF ResumeThread, Return
    <2>3. QED
      BY <1>6, <2>1, <2>2 DEF ResumeThread
  <1>7. ASSUME NEW t \in Thread, ReleaseWaitThread(t, i) PROVE TypeInv'
    <2>1. RunType' /\ SchedType'
      BY <1>7, UnblockType, EndCallType DEF ReleaseWaitThread
    <2>2. DataType'
      BY <1>7, UnblockType DEF ReleaseWaitThread, DataType, lifeVars
    <2>3. SemaType'
      BY <1>7, LeaveWaitersType DEF ReleaseWaitThread, SemaType
    <2>4. QED
      BY <1>1, <1>7, <2>1, <2>2, <2>3, TypePartsNext DEF ReleaseWaitThread
  <1>8. ASSUME NEW t \in Thread, NEW p \in Prio, ChangeThreadPriority(t, p, i) PROVE TypeInv'
    <2>1. DataType'
      BY <1>8 DEF ChangeThreadPriority, DataType, waitVars, lifeVars
    <2>2. SemaType' /\ HostType'
      BY <1>1, <1>8, PartsKept DEF ChangeThreadPriority
    <2>3. CASE /\ t = current
               /\ ready' = PushBack(ready, p, t)
               /\ state' = [state EXCEPT ![t] = "Ready"]
               /\ Yield
      <3>1. RunType'
        BY <2>3, PushBackType DEF RunType, TState
      <3>2. resumed # 0 /\ resumed \in Thread
        BY <2>3, ThreadPositive DEF current
      <3>3. SchedType'
        BY <2>3, <3>2 DEF Yield, SchedType
      <3>4. QED
        BY <2>1, <2>2, <3>1, <3>3, TypePartsNext
    <2>4. CASE EndCall(i, IF state[t] = "Ready"
                          THEN PushBack([ready EXCEPT ![priority[t]] = Erase(@, t)], p, t)
                          ELSE ready,
                       state)
      <3> DEFINE rq == [ready EXCEPT ![priority[t]] = Erase(@, t)]
      <3>1. rq \in [Prio -> Seq(Thread)]
        BY EraseType
      <3> HIDE DEF rq
      <3>2. PushBack(rq, p, t) \in [Prio -> Seq(Thread)]
        BY <3>1, PushBackType
      <3>3. (IF state[t] = "Ready" THEN PushBack(rq, p, t) ELSE ready) \in [Prio -> Seq(Thread)]
        BY <3>2
      <3>4. RunType' /\ SchedType'
        BY <2>4, <3>3, EndCallType DEF rq
      <3>5. QED
        BY <2>1, <2>2, <3>4, TypePartsNext
    <2>5. QED
      BY <1>8, <2>3, <2>4 DEF ChangeThreadPriority
  <1>9. ASSUME NEW p \in Prio, RotateThreadReadyQueue(p, i) PROVE TypeInv'
    <2>1. CASE /\ ~ i /\ priority[resumed] = p
               /\ ready' = PushBack(ready, p, resumed)
               /\ state' = [state EXCEPT ![resumed] = "Ready"]
               /\ Yield
      <3>1. cpu = "guest" /\ resumed \in Thread
        BY <1>9, <2>1 DEF RotateThreadReadyQueue, Caller, InThread
      <3>2. RunType'
        BY <2>1, <3>1, PushBackType DEF RunType, TState
      <3>3. QED
        BY <1>1, <1>9, <2>1, <3>1, <3>2, YieldType, PartsKept, TypePartsNext
        DEF RotateThreadReadyQueue
    <2>2. CASE /\ ready[p] # <<>>
               /\ ready' = [ready EXCEPT ![p] = Append(Tail(@), Head(@))]
               /\ UNCHANGED state /\ Return
      <3>1. Append(Tail(ready[p]), Head(ready[p])) \in Seq(Thread)
        BY <2>2, TailMembers, AppendMembers
      <3>2. RunType'
        BY <2>2, <3>1 DEF RunType
      <3>3. QED
        BY <1>1, <1>9, <2>2, <3>2, PartsKept, TypePartsNext DEF RotateThreadReadyQueue, Return
    <2>3. QED
      BY <1>9, <2>1, <2>2 DEF RotateThreadReadyQueue
  <1>10. ASSUME NEW s \in Sema, DeleteSema(s, i) PROVE TypeInv'
    <2>1. HostType'
      BY <1>10, TickType DEF DeleteSema, HostType
    <2>2. QED
      BY <1>10, <2>1, PartsKept, TypePartsNext DEF DeleteSema
  <1>11. ASSUME NEW s \in Sema, SignalSema(s, i) PROVE TypeInv'
    <2>1. CASE waiters[s] # <<>>
      <3>1. Head(waiters[s]) \in Thread /\ Tail(waiters[s]) \in Seq(Thread)
        BY <2>1, TailMembers
      <3> DEFINE t == Head(waiters[s])
      <3>2. UnblockWait(t, s) /\ EndCall(i, UnblockReady(t), UnblockState(t))
        BY <1>11, <2>1 DEF SignalSema
      <3>3. count' = count /\ waiters' = [waiters EXCEPT ![s] = Tail(@)]
        BY <1>11, <2>1 DEF SignalSema, CountAfterSignal
      <3> HIDE DEF t
      <3>4. t \in Thread
        BY <3>1 DEF t
      <3>5. RunType' /\ SchedType'
        BY <3>2, <3>4, UnblockType, EndCallType
      <3>6. DataType'
        BY <1>11, <3>2, <3>4, UnblockType DEF SignalSema, DataType, lifeVars
      <3>7. SemaType'
        BY <1>11, <3>1, <3>3 DEF SignalSema, SemaType
      <3>8. QED
        BY <1>1, <1>11, <3>5, <3>6, <3>7, TypePartsNext DEF SignalSema
    <2>2. CASE waiters[s] = <<>>
      <3>1. count[s] < max_count[s] /\ count' = [count EXCEPT ![s] = @ + 1]
        BY <1>11, <2>2 DEF SignalSema, CountAfterSignal
      <3>2. count[s] + 1 \in 0..MaxCount
        BY <3>1, BelowBound, MaxCountAssumption
      <3>a. UNCHANGED <<alive, max_count, waiters>>
        BY <1>11, <2>2 DEF SignalSema
      <3>3. SemaType'
        BY <3>1, <3>2, <3>a DEF SemaType
      <3>4. QED
        BY <1>1, <1>11, <2>2, <3>3, PartsKept, TypePartsNext DEF SignalSema, waitVars
    <2>3. QED
      BY <2>1, <2>2
  <1>12. ASSUME NEW s \in Sema, PollSema(s, i) PROVE TypeInv'
    <2>1. count[s] - 1 \in 0..MaxCount
      BY <1>12, Predecessor, MaxCountAssumption DEF PollSema, CanPoll
    <2>2. SemaType'
      BY <1>12, <2>1 DEF PollSema, SemaType
    <2>3. QED
      BY <1>1, <1>12, <2>2, PartsKept, TypePartsNext DEF PollSema
  <1>13. QED
    BY <1>2, <1>3, <1>4, <1>5, <1>6, <1>7, <1>8, <1>9, <1>10, <1>11, <1>12 DEF ICall

\* Every field keeps to its kind: no counter leaves its bounds, and every queue
\* holds threads only.
LEMMA TypeStep ==
  ASSUME TypeInv, [Next]_vars
  PROVE  TypeInv'
  <1>1. CASE UNCHANGED vars
    BY <1>1, ZenonT(40) DEF vars, runVars, waitVars, lifeVars, semaVars, schedVars, endVars,
       TypeInv, TypeOK, Occupied
  <1>2. CASE Next
    BY <1>2, SchedStepType, ThreadCallType, ICallType DEF Next
  <1>3. QED
    BY <1>1, <1>2

\* TypeOK holds always: wakeup_count and count stay within their bounds
\* (sched.cpp:979, :1128) and every queue entry is a thread id.
THEOREM TypeCorrect == Spec => []TypeOK
  <1>1. Init => TypeInv
    BY InitType
  <1>2. TypeInv /\ [Next]_vars => TypeInv'
    BY TypeStep
  <1>3. TypeInv => TypeOK
    BY DEF TypeInv
  <1>4. QED
    BY <1>1, <1>2, <1>3, PTL DEF Spec

-----------------------------------------------------------------------------
(***************************************************************************)
(* One thread runs, and exactly the Ready threads are queued: proved for   *)
(* any number of threads, semaphores and priorities and for every quirk.   *)
(*                                                                         *)
(* The invariant is Queued, which says of each queue which threads it      *)
(* holds, with OneRunning: a call that queues its own thread relies on     *)
(* that thread being in state Run and hence in no queue.                   *)
(***************************************************************************)

\* The queues rq hold exactly the threads Ready in st, at their priority in pr.
Queued(rq, st, pr) ==
  /\ \A p \in Prio : IsInjective(rq[p])
  /\ \A p \in Prio, t \in Thread : Contains(rq[p], t) <=> st[t] = "Ready" /\ pr[t] = p

\* OneRunning of the states st with c on the CPU.
Running(st, c) == \A t \in Thread : st[t] = "Run" <=> c = t

ReadyInv == TypeInv /\ OneRunning /\ Queued(ready, state, priority)

LEMMA QueuedIsExact == ReadyInv => ReadyExact
  <1> SUFFICES ASSUME ReadyInv PROVE ReadyExact
    OBVIOUS
  <1>1. \A p \in Prio : ready[p] \in Seq(Thread)
    BY DEF ReadyInv, TypeInv, TypeOK
  <1>2. ASSUME NEW p \in Prio, NEW i \in DOMAIN ready[p]
        PROVE  state[ready[p][i]] = "Ready" /\ priority[ready[p][i]] = p
    <2>1. ready[p][i] \in Thread
      BY <1>1, <1>2
    <2>2. Contains(ready[p], ready[p][i])
      BY <1>1, <1>2 DEF Contains
    <2>3. QED
      BY <2>1, <2>2 DEF ReadyInv, Queued
  <1>3. ASSUME NEW t \in Thread, state[t] = "Ready" PROVE Contains(ready[priority[t]], t)
    BY <1>3 DEF ReadyInv, Queued, TypeInv, TypeOK
  <1>4. QED
    BY <1>2, <1>3 DEF ReadyExact, ReadyInv, Queued

-----------------------------------------------------------------------------
(* What each queue operation does to Queued *)

LEMMA QueuedPushBack ==
  ASSUME NEW rq \in [Prio -> Seq(Thread)], NEW st \in [Thread -> TState],
         NEW pr \in [Thread -> Prio], Queued(rq, st, pr),
         NEW t \in Thread, st[t] # "Ready"
  PROVE  Queued(PushBack(rq, pr[t], t), [st EXCEPT ![t] = "Ready"], pr)
  <1>1. ~ Contains(rq[pr[t]], t)
    BY DEF Queued
  <1>2. /\ \A u : Contains(Append(rq[pr[t]], t), u) <=> Contains(rq[pr[t]], u) \/ u = t
        /\ IsInjective(Append(rq[pr[t]], t))
    BY <1>1, AppendMembers DEF Queued
  <1> DEFINE q == Append(rq[pr[t]], t)
  <1> HIDE DEF q
  <1>3. Queued([rq EXCEPT ![pr[t]] = q], [st EXCEPT ![t] = "Ready"], pr)
    <2>1. IsInjective(q) /\ \A u : Contains(q, u) <=> Contains(rq[pr[t]], u) \/ u = t
      BY <1>2 DEF q
    <2>2. QED
      BY <2>1 DEF Queued
  <1>4. QED
    BY <1>3 DEF q, PushBack

LEMMA QueuedPushFront ==
  ASSUME NEW rq \in [Prio -> Seq(Thread)], NEW st \in [Thread -> TState],
         NEW pr \in [Thread -> Prio], Queued(rq, st, pr),
         NEW t \in Thread, st[t] # "Ready"
  PROVE  Queued(PushFront(rq, pr[t], t), [st EXCEPT ![t] = "Ready"], pr)
  <1>1. ~ Contains(rq[pr[t]], t)
    BY DEF Queued
  <1> DEFINE q == <<t>> \o rq[pr[t]]
  <1>2. /\ \A u : Contains(q, u) <=> Contains(rq[pr[t]], u) \/ u = t
        /\ IsInjective(q)
    BY <1>1, PushFrontMembers DEF Queued
  <1> HIDE DEF q
  <1>3. Queued([rq EXCEPT ![pr[t]] = q], [st EXCEPT ![t] = "Ready"], pr)
    BY <1>2 DEF Queued
  <1>4. QED
    BY <1>3 DEF q, PushFront

LEMMA QueuedPop ==
  ASSUME NEW rq \in [Prio -> Seq(Thread)], NEW st \in [Thread -> TState],
         NEW pr \in [Thread -> Prio], Queued(rq, st, pr),
         NEW p \in Prio, rq[p] # <<>>, NEW v, v # "Ready"
  PROVE  /\ st[Head(rq[p])] = "Ready"
         /\ Queued([rq EXCEPT ![p] = Tail(@)], [st EXCEPT ![Head(rq[p])] = v], pr)
  <1> DEFINE h == Head(rq[p])
             q == Tail(rq[p])
  <1>1. IsInjective(rq[p])
    BY DEF Queued
  <1>2. /\ h \in Thread /\ Contains(rq[p], h) /\ IsInjective(q)
        /\ \A u : Contains(q, u) <=> Contains(rq[p], u) /\ u # h
    BY <1>1, TailMembers
  <1> HIDE DEF h, q
  <1>3. st[h] = "Ready" /\ pr[h] = p
    BY <1>2 DEF Queued
  <1>4. Queued([rq EXCEPT ![p] = q], [st EXCEPT ![h] = v], pr)
    BY <1>2, <1>3 DEF Queued
  <1>5. QED
    BY <1>3, <1>4 DEF h, q

LEMMA QueuedErase ==
  ASSUME NEW rq \in [Prio -> Seq(Thread)], NEW st \in [Thread -> TState],
         NEW pr \in [Thread -> Prio], Queued(rq, st, pr),
         NEW t \in Thread, NEW v, v # "Ready"
  PROVE  Queued([rq EXCEPT ![pr[t]] = Erase(@, t)], [st EXCEPT ![t] = v], pr)
  <1> DEFINE q == Erase(rq[pr[t]], t)
  <1>1. IsInjective(rq[pr[t]])
    BY DEF Queued
  <1>2. /\ IsInjective(q)
        /\ \A u : Contains(q, u) <=> Contains(rq[pr[t]], u) /\ u # t
    BY <1>1, EraseMembers
  <1> HIDE DEF q
  <1>3. Queued([rq EXCEPT ![pr[t]] = q], [st EXCEPT ![t] = v], pr)
    BY <1>2 DEF Queued
  <1>4. QED
    BY <1>3 DEF q

LEMMA QueuedRotate ==
  ASSUME NEW rq \in [Prio -> Seq(Thread)], NEW st, NEW pr, Queued(rq, st, pr),
         NEW p \in Prio, rq[p] # <<>>
  PROVE  Queued([rq EXCEPT ![p] = Append(Tail(@), Head(@))], st, pr)
  <1> DEFINE q == Append(Tail(rq[p]), Head(rq[p]))
  <1>1. IsInjective(rq[p])
    BY DEF Queued
  <1>2. IsInjective(q) /\ \A u : Contains(q, u) <=> Contains(rq[p], u)
    BY <1>1, RotateMembers
  <1> HIDE DEF q
  <1>3. Queued([rq EXCEPT ![p] = q], st, pr)
    BY <1>2 DEF Queued
  <1>4. QED
    BY <1>3 DEF q

\* A thread that is in no queue may change state or priority.
LEMMA QueuedOther ==
  ASSUME NEW rq \in [Prio -> Seq(Thread)], NEW st \in [Thread -> TState],
         NEW pr \in [Thread -> Prio], Queued(rq, st, pr),
         NEW t \in Thread, st[t] # "Ready", NEW v, v # "Ready", NEW p \in Prio
  PROVE  /\ Queued(rq, [st EXCEPT ![t] = v], pr)
         /\ Queued(rq, st, [pr EXCEPT ![t] = p])
         /\ Queued(rq, [st EXCEPT ![t] = v], [pr EXCEPT ![t] = p])
  BY DEF Queued

\* rt_thread_chg_prio on a Ready thread: to the tail of its new queue.
LEMMA QueuedMove ==
  ASSUME NEW rq \in [Prio -> Seq(Thread)], NEW st \in [Thread -> TState],
         NEW pr \in [Thread -> Prio], Queued(rq, st, pr),
         NEW t \in Thread, st[t] = "Ready", NEW p \in Prio
  PROVE  Queued(PushBack([rq EXCEPT ![pr[t]] = Erase(@, t)], p, t), st, [pr EXCEPT ![t] = p])
  <1> DEFINE rq1 == [rq EXCEPT ![pr[t]] = Erase(@, t)]
             st1 == [st EXCEPT ![t] = "Suspend"]
             pr1 == [pr EXCEPT ![t] = p]
  <1>1. rq1 \in [Prio -> Seq(Thread)]
    BY EraseType
  <1>2. st1 \in [Thread -> TState] /\ st1[t] # "Ready" /\ [st1 EXCEPT ![t] = "Ready"] = st
    BY DEF TState
  <1>3. pr1 \in [Thread -> Prio] /\ pr1[t] = p
    OBVIOUS
  <1>4. Queued(rq1, st1, pr)
    BY QueuedErase
  <1> HIDE DEF rq1, st1
  <1>5. Queued(rq1, st1, pr1)
    BY <1>1, <1>2, <1>4, QueuedOther
  <1> HIDE DEF pr1
  <1>6. Queued(PushBack(rq1, pr1[t], t), [st1 EXCEPT ![t] = "Ready"], pr1)
    BY <1>1, <1>2, <1>3, <1>5, QueuedPushBack
  <1>7. QED
    BY <1>2, <1>3, <1>6 DEF rq1, pr1

-----------------------------------------------------------------------------
(* What the parts of a call do to both invariants *)

QueuesOK == OneRunning /\ Queued(ready, state, priority)

LEMMA RunningTypes ==
  ASSUME ReadyInv
  PROVE  /\ state \in [Thread -> TState] /\ priority \in [Thread -> Prio]
         /\ ready \in [Prio -> Seq(Thread)]
         /\ Queued(ready, state, priority)
         /\ Running(state, current)
  BY DEF ReadyInv, TypeInv, TypeOK, OneRunning, Running

LEMMA Kept ==
  ASSUME ReadyInv, UNCHANGED <<runVars, priority, schedVars>>
  PROVE  QueuesOK'
  BY DEF ReadyInv, OneRunning, Queued, QueuesOK, current, runVars, schedVars

LEMMA InThreadRuns ==
  ASSUME ReadyInv, InThread
  PROVE  cpu = "guest" /\ resumed \in Thread /\ current = resumed /\ state[resumed] = "Run"
  <1>1. cpu = "guest"
    BY DEF InThread
  <1>2. resumed \in Thread
    BY <1>1, ResumedThread DEF ReadyInv, Occupied
  <1>3. QED
    BY <1>1, <1>2 DEF ReadyInv, OneRunning, current

\* A yield takes the running thread off the CPU and leaves it in a state v.
LEMMA YieldRuns ==
  ASSUME ReadyInv, cpu = "guest", NEW st \in [Thread -> TState], Running(st, current),
         NEW v, v # "Run", state' = [st EXCEPT ![resumed] = v], Yield
  PROVE  OneRunning'
  <1>1. resumed \in Thread /\ current = resumed
    BY ResumedThread DEF ReadyInv, Occupied, current
  <1>2. current' = 0
    BY DEF Yield, current
  <1>3. QED
    BY <1>1, <1>2, ThreadPositive DEF OneRunning, Running

LEMMA PreemptQueues ==
  ASSUME ReadyInv, NEW rq \in [Prio -> Seq(Thread)], NEW st \in [Thread -> TState],
         NEW pr \in [Thread -> Prio], Queued(rq, st, pr), Running(st, current),
         cpu = "guest" => pr[resumed] = priority[resumed],
         MaybePreempt(rq, st)
  PROVE  OneRunning' /\ Queued(ready', state', pr)
  <1>1. CASE ready' = rq /\ state' = st /\ Return
    BY <1>1 DEF Return, schedVars, OneRunning, Running, current
  <1>2. CASE /\ cpu = "guest" /\ st[resumed] = "Run"
             /\ ready' = PushFront(rq, priority[resumed], resumed)
             /\ state' = [st EXCEPT ![resumed] = "Ready"]
             /\ Yield
    <2>1. resumed \in Thread
      BY <1>2, ResumedThread DEF ReadyInv, Occupied
    <2>2. Queued(ready', state', pr)
      BY <1>2, <2>1, QueuedPushFront
    <2>3. OneRunning'
      BY <1>2, YieldRuns
    <2>4. QED
      BY <2>2, <2>3
  <1>3. QED
    BY <1>1, <1>2 DEF MaybePreempt

LEMMA EndCallQueues ==
  ASSUME ReadyInv, NEW i, NEW rq \in [Prio -> Seq(Thread)], NEW st \in [Thread -> TState],
         NEW pr \in [Thread -> Prio], Queued(rq, st, pr), Running(st, current),
         cpu = "guest" /\ ~ i => pr[resumed] = priority[resumed],
         EndCall(i, rq, st)
  PROVE  OneRunning' /\ Queued(ready', state', pr)
  <1>1. CASE i
    BY <1>1 DEF EndCall, Return, schedVars, OneRunning, Running, current
  <1>2. CASE ~ i
    BY <1>2, PreemptQueues DEF EndCall
  <1>3. QED
    BY <1>1, <1>2

LEMMA UnblockQueues ==
  ASSUME ReadyInv, NEW t \in Thread
  PROVE  /\ UnblockReady(t) \in [Prio -> Seq(Thread)]
         /\ UnblockState(t) \in [Thread -> TState]
         /\ Queued(UnblockReady(t), UnblockState(t), priority)
         /\ Running(UnblockState(t), current)
  <1> USE RunningTypes
  <1>1. UnblockReady(t) \in [Prio -> Seq(Thread)]
    BY PushBackType DEF UnblockReady, ReadyInv
  <1>2. UnblockState(t) \in [Thread -> TState]
    BY DEF UnblockState, TState
  <1>3. Running(UnblockState(t), current)
    BY DEF Running, UnblockState
  <1>4. CASE state[t] = "Wait"
    <2>1. UnblockState(t) = [state EXCEPT ![t] = "Ready"]
      BY <1>4 DEF UnblockState
    <2>2. UnblockReady(t) = PushBack(ready, priority[t], t)
      BY <1>4 DEF UnblockReady
    <2>3. Queued(PushBack(ready, priority[t], t), [state EXCEPT ![t] = "Ready"], priority)
      BY <1>4, QueuedPushBack
    <2>4. QED
      BY <1>1, <1>2, <1>3, <2>1, <2>2, <2>3
  <1>5. CASE state[t] # "Wait"
    <2>1. UnblockReady(t) = ready
      BY <1>5 DEF UnblockReady
    <2>2. Queued(ready, UnblockState(t), priority)
      BY <1>5 DEF UnblockState, Queued
    <2>3. QED
      BY <1>1, <1>2, <1>3, <2>1, <2>2
  <1>6. QED
    BY <1>4, <1>5

-----------------------------------------------------------------------------
(* One lemma for each group of actions *)

LEMMA SchedStepReady ==
  ASSUME ReadyInv, SchedStep
  PROVE  QueuesOK'
  <1> USE RunningTypes
  <1>1. ASSUME NEW p \in Prio, Dispatch(p) PROVE QueuesOK'
    <2>1. ready[p] # <<>> /\ cpu = "loop" /\ cpu' = "before"
      BY <1>1 DEF Dispatch, IsBest
    <2>2. resumed' = Head(ready[p]) /\ resumed' \in Thread
      BY <1>1, <2>1, TailMembers DEF Dispatch
    <2>3. Queued(ready, state, priority)'
      BY <1>1, <2>1, <2>2, QueuedPop DEF Dispatch
    <2>4. current = 0 /\ current' = resumed'
      BY <2>1 DEF current
    <2>5. OneRunning'
      BY <1>1, <2>2, <2>4, ThreadPositive DEF Dispatch, Running, OneRunning
    <2>6. QED
      BY <2>3, <2>5 DEF QueuesOK
  <1>2. CASE Resume
    BY <1>2 DEF Resume, runVars, current, OneRunning, ReadyInv, QueuesOK
  <1>3. CASE Reap
    <2>1. CASE Fatal("yielded without a scheduling state")
      BY <2>1, Kept DEF Fatal
    <2>2. CASE /\ state[resumed] = "Dormant"
               /\ state' = [state EXCEPT ![resumed] =
                              IF pending_delete[resumed] THEN "Free" ELSE "Dormant"]
               /\ cpu' = "loop" /\ UNCHANGED <<ready, priority>>
      <3>1. resumed \in Thread /\ current = 0 /\ current' = 0
        BY <1>3, <2>2, ResumedThread DEF Reap, ReadyInv, Occupied, current
      <3>2. Queued(ready, state, priority)'
        BY <2>2, <3>1, QueuedOther
      <3>3. OneRunning'
        BY <2>2, <3>1, ThreadPositive DEF OneRunning, Running
      <3>4. QED
        BY <3>2, <3>3 DEF QueuesOK
    <2>3. CASE cpu' = "loop" /\ UNCHANGED <<ready, priority, state>>
      <3>1. current = 0 /\ current' = 0
        BY <1>3, <2>3 DEF Reap, current
      <3>2. QED
        BY <2>3, <3>1 DEF QueuesOK, OneRunning, Running
    <2>4. QED
      BY <1>3, <2>1, <2>2, <2>3 DEF Reap
  <1>4. CASE Idle
    BY <1>4 DEF Idle, runVars, current, OneRunning, ReadyInv, QueuesOK
  <1>5. CASE IdleOver
    BY <1>5 DEF IdleOver, runVars, current, OneRunning, ReadyInv, QueuesOK
  <1>6. CASE EnterInterrupt
    BY <1>6, Kept DEF EnterInterrupt
  <1>7. CASE LeaveInterrupt
    <2>1. CASE /\ cpu = "guest" /\ state[resumed] = "Run" /\ Yield
               /\ ready' = PushFront(ready, priority[resumed], resumed)
               /\ state' = [state EXCEPT ![resumed] = "Ready"]
      <3>1. resumed \in Thread /\ priority' = priority
        BY <1>7, <2>1, ResumedThread DEF ReadyInv, Occupied, LeaveInterrupt
      <3>2. Queued(ready, state, priority)'
        BY <2>1, <3>1, QueuedPushFront
      <3>3. OneRunning'
        BY <2>1, YieldRuns
      <3>4. QED
        BY <3>2, <3>3 DEF QueuesOK
    <2>2. CASE UNCHANGED <<runVars, schedVars>>
      BY <1>7, <2>2, Kept DEF LeaveInterrupt
    <2>3. CASE cpu' = AfterDelivery /\ UNCHANGED <<runVars, resumed>>
      BY <1>7, <2>3
      DEF LeaveInterrupt, AfterDelivery, runVars, current, OneRunning, ReadyInv, QueuesOK
    <2>4. QED
      BY <1>7, <2>1, <2>2, <2>3 DEF LeaveInterrupt
  <1>8. CASE DeleteSemaWaiter
    <2> DEFINE t == Head(waiters[deleting])
    <2>1. t \in Thread
      BY <1>8, TailMembers DEF DeleteSemaWaiter, ReadyInv, TypeInv, TypeOK
    <2>2. /\ ready' = UnblockReady(t) /\ state' = UnblockState(t)
          /\ UNCHANGED <<priority, schedVars>>
      BY <1>8 DEF DeleteSemaWaiter
    <2> HIDE DEF t
    <2>3. Queued(ready, state, priority)'
      BY <2>1, <2>2, UnblockQueues
    <2>4. current' = current
      BY <2>2 DEF current, schedVars
    <2>5. OneRunning'
      BY <2>1, <2>2, <2>4, UnblockQueues DEF OneRunning, Running
    <2>6. QED
      BY <2>3, <2>5 DEF QueuesOK
  <1>9. CASE DeleteSemaEnd
    BY <1>9, PreemptQueues DEF DeleteSemaEnd, QueuesOK
  <1>10. QED
    BY <1>1, <1>2, <1>3, <1>4, <1>5, <1>6, <1>7, <1>8, <1>9 DEF SchedStep

LEMMA ThreadCallReady ==
  ASSUME ReadyInv, ThreadCall
  PROVE  QueuesOK'
  <1> USE RunningTypes
  <1>1. ASSUME InThread, NEW v, v # "Ready", v # "Run",
               state' = [state EXCEPT ![resumed] = v], Yield, UNCHANGED <<ready, priority>>
        PROVE  QueuesOK'
    <2>1. cpu = "guest" /\ resumed \in Thread /\ state[resumed] # "Ready"
      BY <1>1, InThreadRuns
    <2>2. Queued(ready, state, priority)'
      BY <1>1, <2>1, QueuedOther
    <2>3. OneRunning'
      BY <1>1, <2>1, YieldRuns
    <2>4. QED
      BY <2>2, <2>3 DEF QueuesOK
  <1>2. ASSUME NEW p \in Prio, CreateThread(p) PROVE QueuesOK'
    <2>1. PICK t \in Thread : /\ state[t] = "Free"
                              /\ state' = [state EXCEPT ![t] = "Dormant"]
                              /\ priority' = [priority EXCEPT ![t] = p]
      BY <1>2 DEF CreateThread
    <2>2. ready' = ready /\ current' = current
      BY <1>2 DEF CreateThread, current
    <2>3. Queued(ready, state, priority)'
      BY <2>1, <2>2, QueuedOther
    <2>4. OneRunning'
      BY <2>1, <2>2 DEF OneRunning, Running
    <2>5. QED
      BY <2>3, <2>4 DEF QueuesOK
  <1>3. ASSUME NEW t \in Thread, DeleteThread(t) PROVE QueuesOK'
    <2>1. /\ state[t] = "Dormant" /\ state' = [state EXCEPT ![t] = "Free"]
          /\ UNCHANGED <<ready, priority, schedVars>>
      BY <1>3 DEF DeleteThread
    <2>2. Queued(ready, state, priority)'
      BY <2>1, QueuedOther
    <2>3. OneRunning'
      BY <2>1 DEF OneRunning, Running, current, schedVars
    <2>4. QED
      BY <2>2, <2>3 DEF QueuesOK
  <1>4. ASSUME NEW t \in Thread, StartThread(t) PROVE QueuesOK'
    <2> DEFINE rq == PushBack(ready, priority[t], t)
               st == [state EXCEPT ![t] = "Ready"]
    <2>1. state[t] = "Dormant" /\ MaybePreempt(rq, st) /\ priority' = priority
      BY <1>4 DEF StartThread
    <2>2. rq \in [Prio -> Seq(Thread)]
      BY PushBackType DEF ReadyInv
    <2>3. st \in [Thread -> TState] /\ Running(st, current)
      BY <2>1 DEF TState, Running
    <2>4. Queued(rq, st, priority)
      BY <2>1, QueuedPushBack
    <2> HIDE DEF rq, st
    <2>5. QED
      BY <2>1, <2>2, <2>3, <2>4, PreemptQueues DEF QueuesOK
  <1>5. ASSUME NEW del \in BOOLEAN, ExitThread(del) PROVE QueuesOK'
    BY <1>1, <1>5 DEF ExitThread
  <1>6. CASE RootReturn
    BY <1>1, <1>6 DEF RootReturn
  <1>7. CASE SleepThread
    BY <1>1, <1>7, Kept DEF SleepThread, Block, BlockInInterrupt, Fatal
  <1>8. CASE Trap
    BY <1>8, Kept DEF Trap
  <1>9. ASSUME NEW on \in BOOLEAN, SetEie(on) PROVE QueuesOK'
    BY <1>9 DEF SetEie, runVars, current, OneRunning, ReadyInv, QueuesOK
  <1>10. ASSUME NEW max \in 1..MaxCount, NEW init \in 0..max, CreateSema(init, max)
         PROVE  QueuesOK'
    BY <1>10, Kept DEF CreateSema
  <1>11. ASSUME NEW s \in Sema, WaitSema(s) PROVE QueuesOK'
    BY <1>1, <1>11, Kept DEF WaitSema, Block, BlockInInterrupt, Fatal
  <1>12. QED
    BY <1>2, <1>3, <1>4, <1>5, <1>6, <1>7, <1>8, <1>9, <1>10, <1>11 DEF ThreadCall

LEMMA ICallReady ==
  ASSUME ReadyInv, NEW i \in BOOLEAN, ICall(i)
  PROVE  QueuesOK'
  <1> USE RunningTypes
  \* The calling thread to the tail of queue p, then a yield.
  <1>1. ASSUME InThread, NEW pr \in [Thread -> Prio], Queued(ready, state, pr),
               priority' = pr, ready' = PushBack(ready, pr[resumed], resumed),
               state' = [state EXCEPT ![resumed] = "Ready"], Yield
        PROVE  QueuesOK'
    <2>1. cpu = "guest" /\ resumed \in Thread /\ state[resumed] = "Run"
      BY <1>1, InThreadRuns
    <2>2. Queued(ready, state, priority)'
      BY <1>1, <2>1, QueuedPushBack
    <2>3. OneRunning'
      BY <1>1, <2>1, YieldRuns
    <2>4. QED
      BY <2>2, <2>3 DEF QueuesOK
  <1>2. ASSUME NEW t \in Thread, TerminateThread(t, i) PROVE QueuesOK'
    <2>1. /\ t # current /\ UNCHANGED <<priority, schedVars>>
          /\ state' = [state EXCEPT ![t] = "Dormant"]
          /\ ready' = IF state[t] = "Ready"
                      THEN [ready EXCEPT ![priority[t]] = Erase(@, t)] ELSE ready
      BY <1>2 DEF TerminateThread
    <2>2. Queued(ready, state, priority)'
      BY <2>1, QueuedErase, QueuedOther
    <2>3. OneRunning'
      BY <2>1 DEF OneRunning, Running, current, schedVars
    <2>4. QED
      BY <2>2, <2>3 DEF QueuesOK
  <1>3. ASSUME NEW t \in Thread, WakeupThread(t, i) PROVE QueuesOK'
    BY <1>3, Kept, UnblockQueues, EndCallQueues DEF WakeupThread, QueuesOK
  <1>4. ASSUME NEW t \in Thread, CancelWakeupThread(t, i) PROVE QueuesOK'
    BY <1>4, Kept DEF CancelWakeupThread
  <1>5. ASSUME NEW t \in Thread, SuspendThread(t, i) PROVE QueuesOK'
    <2>1. CASE /\ cpu = "guest" /\ state[t] = "Run" /\ t = current
               /\ state' = [state EXCEPT ![t] = "Suspend"]
               /\ Yield /\ UNCHANGED <<ready, priority>>
      <3>1. t = resumed
        BY <2>1 DEF current
      <3>2. Queued(ready, state, priority)'
        BY <2>1, QueuedOther
      <3>3. OneRunning'
        BY <2>1, <3>1, YieldRuns
      <3>4. QED
        BY <3>2, <3>3 DEF QueuesOK
    <2>2. CASE Fatal("yield outside a coroutine")
      BY <2>2, Kept DEF Fatal
    <2>3. CASE /\ state[t] \in {"Ready", "Wait"}
               /\ ready' = IF state[t] = "Ready"
                           THEN [ready EXCEPT ![priority[t]] = Erase(@, t)] ELSE ready
               /\ state' = [state EXCEPT ![t] =
                              IF @ = "Ready" THEN "Suspend" ELSE "WaitSuspend"]
               /\ UNCHANGED <<priority, schedVars>>
      <3>1. Queued(ready, state, priority)'
        BY <2>3, QueuedErase, QueuedOther
      <3>2. OneRunning'
        BY <2>3 DEF OneRunning, Running, current, schedVars
      <3>3. QED
        BY <3>1, <3>2 DEF QueuesOK
    <2>4. QED
      BY <1>5, <2>1, <2>2, <2>3 DEF SuspendThread, SuspendRunning
  <1>6. ASSUME NEW t \in Thread, ResumeThread(t, i) PROVE QueuesOK'
    <2>1. CASE /\ state[t] = "Suspend"
               /\ MaybePreempt(PushBack(ready, priority[t], t), [state EXCEPT ![t] = "Ready"])
      <3> DEFINE rq == PushBack(ready, priority[t], t)
                 st == [state EXCEPT ![t] = "Ready"]
      <3>1. rq \in [Prio -> Seq(Thread)]
        BY PushBackType DEF ReadyInv
      <3>2. st \in [Thread -> TState] /\ Running(st, current)
        BY <2>1 DEF TState, Running
      <3>3. Queued(rq, st, priority)
        BY <2>1, QueuedPushBack
      <3>4. MaybePreempt(rq, st) /\ priority' = priority
        BY <1>6, <2>1 DEF ResumeThread
      <3> HIDE DEF rq, st
      <3>5. QED
        BY <3>1, <3>2, <3>3, <3>4, PreemptQueues DEF QueuesOK
    <2>2. CASE /\ state[t] = "WaitSuspend" /\ state' = [state EXCEPT ![t] = "Wait"]
               /\ Return /\ UNCHANGED ready
      <3>1. Queued(ready, state, priority)'
        BY <1>6, <2>2, QueuedOther DEF ResumeThread
      <3>2. OneRunning'
        BY <2>2 DEF OneRunning, Running, current, Return, schedVars
      <3>3. QED
        BY <3>1, <3>2 DEF QueuesOK
    <2>3. QED
      BY <1>6, <2>1, <2>2 DEF ResumeThread
  <1>7. ASSUME NEW t \in Thread, ReleaseWaitThread(t, i) PROVE QueuesOK'
    BY <1>7, UnblockQueues, EndCallQueues DEF ReleaseWaitThread, QueuesOK
  <1>8. ASSUME NEW t \in Thread, NEW p \in Prio, ChangeThreadPriority(t, p, i) PROVE QueuesOK'
    <2> DEFINE pr == [priority EXCEPT ![t] = p]
    <2>1. priority' = pr /\ Caller(i) /\ pr \in [Thread -> Prio]
      BY <1>8 DEF ChangeThreadPriority
    <2>2. CASE /\ t = current /\ ~ i
               /\ ready' = PushBack(ready, p, t)
               /\ state' = [state EXCEPT ![t] = "Ready"]
               /\ Yield
      <3>1. InThread /\ t = resumed /\ state[t] = "Run"
        BY <2>1, <2>2, InThreadRuns DEF Caller
      <3>2. Queued(ready, state, pr) /\ pr[t] = p
        BY <3>1, QueuedOther
      <3>3. QED
        BY <1>1, <2>1, <2>2, <3>1, <3>2
    <2>3. CASE state[t] = "Ready" /\ EndCall(i, PushBack([ready EXCEPT ![priority[t]] =
                                                          Erase(@, t)], p, t), state)
      <3> DEFINE rq1 == [ready EXCEPT ![priority[t]] = Erase(@, t)]
                 rq  == PushBack(rq1, p, t)
      <3>1. rq1 \in [Prio -> Seq(Thread)]
        BY EraseType
      <3> HIDE DEF rq1
      <3>2. rq \in [Prio -> Seq(Thread)]
        BY <3>1, PushBackType DEF ReadyInv
      <3>3. Queued(rq, state, pr)
        BY <2>3, QueuedMove DEF rq1
      <3>4. cpu = "guest" => pr[resumed] = priority[resumed]
        BY <2>3 DEF current, Running
      <3>5. EndCall(i, rq, state)
        BY <2>3 DEF rq1
      <3> HIDE DEF rq, pr
      <3>6. QED
        BY <2>1, <3>2, <3>3, <3>4, <3>5, EndCallQueues DEF QueuesOK
    <2>4. CASE state[t] # "Ready" /\ ~ (t = current /\ ~ i) /\ EndCall(i, ready, state)
      <3>1. Queued(ready, state, pr)
        BY <2>4, QueuedOther
      <3>2. cpu = "guest" /\ ~ i => pr[resumed] = priority[resumed]
        BY <2>4 DEF current
      <3> HIDE DEF pr
      <3>3. QED
        BY <2>1, <2>4, <3>1, <3>2, EndCallQueues DEF QueuesOK
    <2>5. QED
      <3>1. CASE t = current /\ ~ i
        BY <1>8, <2>2, <3>1 DEF ChangeThreadPriority
      <3>2. CASE ~ (t = current /\ ~ i) /\ state[t] = "Ready"
        BY <1>8, <2>3, <3>2 DEF ChangeThreadPriority
      <3>3. CASE ~ (t = current /\ ~ i) /\ state[t] # "Ready"
        BY <1>8, <2>4, <3>3 DEF ChangeThreadPriority
      <3>4. QED
        BY <3>1, <3>2, <3>3
  <1>9. ASSUME NEW p \in Prio, RotateThreadReadyQueue(p, i) PROVE QueuesOK'
    <2>1. CASE /\ ~ i /\ priority[resumed] = p
               /\ ready' = PushBack(ready, p, resumed)
               /\ state' = [state EXCEPT ![resumed] = "Ready"]
               /\ Yield
      BY <1>1, <1>9, <2>1 DEF RotateThreadReadyQueue, Caller
    <2>2. CASE /\ ready[p] # <<>>
               /\ ready' = [ready EXCEPT ![p] = Append(Tail(@), Head(@))]
               /\ UNCHANGED state /\ Return
      <3>1. Queued(ready, state, priority)'
        BY <1>9, <2>2, QueuedRotate DEF RotateThreadReadyQueue
      <3>2. OneRunning'
        BY <2>2 DEF OneRunning, Running, current, Return, schedVars
      <3>3. QED
        BY <3>1, <3>2 DEF QueuesOK
    <2>3. QED
      BY <1>9, <2>1, <2>2 DEF RotateThreadReadyQueue
  <1>10. ASSUME NEW s \in Sema, DeleteSema(s, i) PROVE QueuesOK'
    BY <1>10, Kept DEF DeleteSema
  <1>11. ASSUME NEW s \in Sema, SignalSema(s, i) PROVE QueuesOK'
    <2>1. CASE waiters[s] # <<>>
      <3> DEFINE t == Head(waiters[s])
      <3>1. t \in Thread
        BY <2>1, TailMembers DEF ReadyInv, TypeInv, TypeOK
      <3>2. EndCall(i, UnblockReady(t), UnblockState(t)) /\ priority' = priority
        BY <1>11, <2>1 DEF SignalSema
      <3> HIDE DEF t
      <3>3. QED
        BY <3>1, <3>2, UnblockQueues, EndCallQueues DEF QueuesOK
    <2>2. CASE waiters[s] = <<>>
      BY <1>11, <2>2, Kept DEF SignalSema
    <2>3. QED
      BY <2>1, <2>2
  <1>12. ASSUME NEW s \in Sema, PollSema(s, i) PROVE QueuesOK'
    BY <1>12, Kept DEF PollSema
  <1>13. QED
    BY <1>2, <1>3, <1>4, <1>5, <1>6, <1>7, <1>8, <1>9, <1>10, <1>11, <1>12 DEF ICall

-----------------------------------------------------------------------------
LEMMA InitReady == Init => ReadyInv
  <1> SUFFICES ASSUME Init PROVE ReadyInv
    OBVIOUS
  <1>1. OneRunning
    BY ThreadPositive DEF Init, OneRunning, current
  <1>2. \A t : Contains(<<1>>, t) <=> t = 1
    BY DEF Contains
  <1>3. IsInjective(<<1>>) /\ IsInjective(<<>>) /\ \A t : ~ Contains(<<>>, t)
    BY DEF IsInjective, Contains
  <1>4. Queued(ready, state, priority)
    BY <1>2, <1>3 DEF Init, Queued
  <1>5. QED
    BY <1>1, <1>4, InitType DEF ReadyInv

LEMMA ReadyStep ==
  ASSUME ReadyInv, [Next]_vars
  PROVE  ReadyInv'
  <1>1. TypeInv'
    BY TypeStep DEF ReadyInv
  <1>2. QueuesOK'
    <2>1. CASE UNCHANGED vars
      BY <2>1, Kept DEF vars
    <2>2. CASE Next
      BY <2>2, SchedStepReady, ThreadCallReady, ICallReady DEF Next
    <2>3. QED
      BY <2>1, <2>2
  <1>3. QED
    BY <1>1, <1>2 DEF ReadyInv, QueuesOK

LEMMA ReadyInvariant == Spec => []ReadyInv
  <1>1. Init => ReadyInv
    BY InitReady
  <1>2. ReadyInv /\ [Next]_vars => ReadyInv'
    BY ReadyStep
  <1>3. QED
    BY <1>1, <1>2, PTL DEF Spec

\* g_current is always the one thread in state Run (sched.cpp:162, set and cleared around mco_resume).
THEOREM OneRunningCorrect == Spec => []OneRunning
  <1>1. ReadyInv => OneRunning
    BY DEF ReadyInv
  <1>2. QED
    BY <1>1, ReadyInvariant, PTL

\* The ready queues hold exactly the Ready threads, once each and at their own
\* priority (sched.cpp:192-215), after any sequence of calls and interrupts.
THEOREM ReadyExactCorrect == Spec => []ReadyExact
  <1>1. ReadyInv => ReadyExact
    BY QueuedIsExact
  <1>2. QED
    BY <1>1, ReadyInvariant, PTL

-----------------------------------------------------------------------------
(***************************************************************************)
(* A thread has a coroutine exactly while it is started.  CoroutineExact   *)
(* is inductive on top of ReadyInv: the exception, a Dormant thread that   *)
(* still has its coroutine, only ever is the one sched_loop holds between  *)
(* its yield and its reap.                                                 *)
(***************************************************************************)

CoroInv == ReadyInv /\ CoroutineExact

\* rt_thread_create and rt_thread_exit aside, no call makes a thread Free or
\* Dormant or ends that.
SameLife(st) ==
  \A t \in Thread : st[t] \in {"Free", "Dormant"} \/ state[t] \in {"Free", "Dormant"} =>
                      st[t] = state[t]

\* sched_loop does not let go of a thread it holds after a yield.
HoldsOn == cpu \in {"after", "reap"} => cpu' \in {"after", "reap"} /\ resumed' = resumed

LEMMA LifeKept ==
  ASSUME CoroInv, SameLife(state'), co' = co, HoldsOn
  PROVE  CoroutineExact'
  BY DEF CoroInv, CoroutineExact, SameLife, HoldsOn

LEMMA PreemptLife ==
  ASSUME CoroInv, NEW rq, NEW st \in [Thread -> TState], MaybePreempt(rq, st)
  PROVE  HoldsOn /\ (SameLife(st) => SameLife(state'))
  <1>1. CASE state' = st /\ Return
    BY <1>1 DEF Return, schedVars, HoldsOn
  <1>2. CASE /\ cpu = "guest" /\ st[resumed] = "Run"
             /\ state' = [st EXCEPT ![resumed] = "Ready"]
    <2>1. resumed \in Thread
      BY <1>2, ResumedThread DEF Occupied, CoroInv, ReadyInv
    <2>2. QED
      BY <1>2, <2>1 DEF SameLife, HoldsOn
  <1>3. QED
    BY <1>1, <1>2 DEF MaybePreempt

LEMMA EndCallLife ==
  ASSUME CoroInv, NEW i, NEW rq, NEW st \in [Thread -> TState], EndCall(i, rq, st)
  PROVE  HoldsOn /\ (SameLife(st) => SameLife(state'))
  BY PreemptLife DEF EndCall, Return, schedVars, HoldsOn

LEMMA UnblockLife ==
  ASSUME CoroInv, NEW t \in Thread
  PROVE  UnblockState(t) \in [Thread -> TState] /\ SameLife(UnblockState(t))
  <1>1. UnblockState(t) \in [Thread -> TState]
    BY UnblockQueues DEF CoroInv
  <1>2. QED
    BY <1>1, RunningTypes DEF UnblockState, SameLife, CoroInv

\* The thread that makes a call is started and outlives it unless it exits.
LEMMA CallerLife ==
  ASSUME CoroInv, InThread
  PROVE  /\ resumed \in Thread /\ state[resumed] = "Run" /\ HoldsOn
         /\ \A t \in Thread : co[t] <=> state[t] \notin {"Free", "Dormant"}
         /\ \A v \in TState \ {"Free", "Dormant"} : SameLife([state EXCEPT ![resumed] = v])
  <1>1. cpu = "guest" /\ resumed \in Thread /\ state[resumed] = "Run"
    BY InThreadRuns DEF CoroInv
  <1>2. \A t \in Thread : co[t] <=> state[t] \notin {"Free", "Dormant"}
    BY <1>1, RunningTypes DEF CoroInv, CoroutineExact, ReadyInv, TypeInv, TypeOK
  <1>3. \A v \in TState \ {"Free", "Dormant"} : SameLife([state EXCEPT ![resumed] = v])
    BY <1>1, RunningTypes DEF SameLife, CoroInv
  <1>4. QED
    BY <1>1, <1>2, <1>3 DEF HoldsOn

\* The running thread exits: its coroutine lives on until the reap.
LEMMA ExitLife ==
  ASSUME CoroInv, InThread, state' = [state EXCEPT ![resumed] = "Dormant"], Yield, co' = co
  PROVE  CoroutineExact'
  <1>1. cpu' = "after" /\ resumed' = resumed
    BY DEF Yield
  <1>2. QED
    BY <1>1, CallerLife, RunningTypes DEF CoroutineExact, CoroInv

LEMMA SchedStepLife ==
  ASSUME CoroInv, SchedStep
  PROVE  CoroutineExact'
  <1> USE RunningTypes DEF CoroInv
  <1>1. ASSUME NEW p \in Prio, Dispatch(p) PROVE CoroutineExact'
    <2>1. /\ cpu = "loop" /\ resumed' = Head(ready[p]) /\ ready[p] # <<>> /\ co' = co
          /\ state' = [state EXCEPT ![resumed'] = "Run"]
      BY <1>1 DEF Dispatch, IsBest, lifeVars
    <2>2. resumed' \in Thread /\ state[resumed'] = "Ready"
      BY <2>1, TailMembers, QueuedPop, ZenonT(40)
    <2>3. SameLife(state')
      BY <2>1, <2>2 DEF SameLife
    <2>4. QED
      BY <2>1, <2>3, LifeKept DEF HoldsOn
  <1>2. CASE Resume
    BY <1>2, LifeKept DEF Resume, runVars, lifeVars, SameLife, HoldsOn
  <1>3. CASE Reap
    <2>0. cpu \in {"after", "reap"} /\ resumed \in Thread
      BY <1>3, ResumedThread DEF Reap, ReadyInv, Occupied
    <2>1. CASE state[resumed] = "Run"
      BY <1>3, <2>1, LifeKept DEF Reap, Fatal, runVars, lifeVars, schedVars, SameLife, HoldsOn
    <2>2. CASE state[resumed] = "Dormant"
      <3>1. /\ co' = [co EXCEPT ![resumed] = FALSE]
            /\ state' = [state EXCEPT ![resumed] =
                           IF pending_delete[resumed] THEN "Free" ELSE "Dormant"]
        BY <1>3, <2>2 DEF Reap
      <3>2. co \in [Thread -> BOOLEAN]
        BY DEF ReadyInv, TypeInv, TypeOK
      <3>3. QED
        BY <2>0, <3>1, <3>2 DEF CoroutineExact
    <2>3. CASE state[resumed] \notin {"Run", "Dormant"}
      <3>1. UNCHANGED <<co, state>>
        BY <1>3, <2>3 DEF Reap
      <3>2. QED
        BY <2>0, <2>3, <3>1 DEF CoroutineExact
    <2>4. QED
      BY <2>1, <2>2, <2>3
  <1>4. CASE Idle
    BY <1>4, LifeKept DEF Idle, runVars, lifeVars, SameLife, HoldsOn
  <1>5. CASE IdleOver
    BY <1>5, LifeKept DEF IdleOver, runVars, lifeVars, SameLife, HoldsOn
  <1>6. CASE EnterInterrupt
    BY <1>6, LifeKept DEF EnterInterrupt, runVars, lifeVars, schedVars, SameLife, HoldsOn
  <1>7. CASE LeaveInterrupt
    <2>0. co' = co
      BY <1>7 DEF LeaveInterrupt, lifeVars
    <2>1. CASE /\ cpu = "guest" /\ state[resumed] = "Run"
               /\ state' = [state EXCEPT ![resumed] = "Ready"]
      BY <2>0, <2>1, LifeKept DEF SameLife, HoldsOn
    <2>2. CASE UNCHANGED <<runVars, schedVars>>
      BY <2>0, <2>2, LifeKept DEF runVars, schedVars, SameLife, HoldsOn
    <2>3. CASE UNCHANGED <<runVars, resumed>> /\ cpu' = AfterDelivery
      BY <2>0, <2>3, LifeKept DEF runVars, AfterDelivery, SameLife, HoldsOn
    <2>4. QED
      BY <1>7, <2>1, <2>2, <2>3 DEF LeaveInterrupt
  <1>8. CASE DeleteSemaWaiter
    <2>1. Head(waiters[deleting]) \in Thread
      <3>1. waiters[deleting] \in Seq(Thread) /\ waiters[deleting] # <<>>
        BY <1>8 DEF DeleteSemaWaiter, ReadyInv, TypeInv, TypeOK
      <3>2. QED
        BY <3>1, TailMembers
    <2>2. state' = UnblockState(Head(waiters[deleting])) /\ UNCHANGED <<schedVars, co>>
      BY <1>8 DEF DeleteSemaWaiter, lifeVars
    <2>3. QED
      BY <2>1, <2>2, UnblockLife, LifeKept DEF schedVars, HoldsOn
  <1>9. CASE DeleteSemaEnd
    <2>1. SameLife(state) /\ MaybePreempt(ready, state) /\ co' = co
      BY <1>9 DEF DeleteSemaEnd, SameLife, lifeVars
    <2>2. QED
      BY <2>1, PreemptLife, LifeKept
  <1>10. QED
    BY <1>1, <1>2, <1>3, <1>4, <1>5, <1>6, <1>7, <1>8, <1>9 DEF SchedStep

LEMMA ThreadCallLife ==
  ASSUME CoroInv, ThreadCall
  PROVE  CoroutineExact'
  <1> USE RunningTypes DEF CoroInv
  <1>0. co \in [Thread -> BOOLEAN]
    BY DEF ReadyInv, TypeInv, TypeOK
  <1>1. ASSUME NEW p \in Prio, CreateThread(p) PROVE CoroutineExact'
    <2>1. PICK t \in Thread \ {1} :
            /\ state[t] = "Free" /\ state' = [state EXCEPT ![t] = "Dormant"]
            /\ co' = [co EXCEPT ![t] = FALSE]
      BY <1>1 DEF CreateThread
    <2>2. QED
      BY <1>0, <1>1, <2>1, CallerLife DEF CreateThread, CoroutineExact
  <1>2. ASSUME NEW t \in Thread, DeleteThread(t) PROVE CoroutineExact'
    BY <1>0, <1>2, CallerLife DEF DeleteThread, CoroutineExact
  <1>3. ASSUME NEW t \in Thread, StartThread(t) PROVE CoroutineExact'
    <2> DEFINE st == [state EXCEPT ![t] = "Ready"]
    <2>1. InThread /\ state[t] = "Dormant" /\ co' = [co EXCEPT ![t] = TRUE]
          /\ MaybePreempt(PushBack(ready, priority[t], t), st)
      BY <1>3 DEF StartThread
    <2>2. state' = st \/ state' = [st EXCEPT ![resumed] = "Ready"]
      BY <2>1 DEF MaybePreempt
    <2>3. QED
      BY <1>0, <2>1, <2>2, CallerLife DEF CoroutineExact
  <1>4. ASSUME NEW del \in BOOLEAN, ExitThread(del) PROVE CoroutineExact'
    BY <1>4, ExitLife DEF ExitThread
  <1>5. CASE RootReturn
    BY <1>5, ExitLife DEF RootReturn, lifeVars
  <1>6. ASSUME InThread, co' = co,
               \/ state' = [state EXCEPT ![resumed] = "Wait"]
               \/ state' = state
        PROVE  CoroutineExact'
    <2>1. HoldsOn
      BY <1>6, CallerLife
    <2>2. SameLife(state')
      BY <1>6, CallerLife DEF SameLife
    <2>3. QED
      BY <1>6, <2>1, <2>2, LifeKept
  <1>7. CASE SleepThread
    BY <1>6, <1>7 DEF SleepThread, Block, BlockInInterrupt, Fatal, runVars, lifeVars
  <1>8. CASE Trap
    BY <1>6, <1>8 DEF Trap, runVars, lifeVars
  <1>9. ASSUME NEW on \in BOOLEAN, SetEie(on) PROVE CoroutineExact'
    BY <1>6, <1>9 DEF SetEie, runVars, lifeVars
  <1>10. ASSUME NEW max \in 1..MaxCount, NEW init \in 0..max, CreateSema(init, max)
         PROVE  CoroutineExact'
    BY <1>6, <1>10 DEF CreateSema, runVars, lifeVars
  <1>11. ASSUME NEW s \in Sema, WaitSema(s) PROVE CoroutineExact'
    BY <1>6, <1>11 DEF WaitSema, Block, BlockInInterrupt, Fatal, runVars, lifeVars
  <1>12. QED
    BY <1>1, <1>2, <1>3, <1>4, <1>5, <1>7, <1>8, <1>9, <1>10, <1>11 DEF ThreadCall

LEMMA ICallLife ==
  ASSUME CoroInv, NEW i \in BOOLEAN, ICall(i)
  PROVE  CoroutineExact'
  <1> USE RunningTypes DEF CoroInv
  <1>0. co \in [Thread -> BOOLEAN]
    BY DEF ReadyInv, TypeInv, TypeOK
  <1>1. ASSUME NEW t \in Thread, TerminateThread(t, i) PROVE CoroutineExact'
    <2>1. /\ state' = [state EXCEPT ![t] = "Dormant"] /\ co' = [co EXCEPT ![t] = FALSE]
          /\ UNCHANGED schedVars
      BY <1>1 DEF TerminateThread, CoroDestroy
    <2>2. QED
      BY <1>0, <2>1 DEF CoroutineExact, schedVars
  <1>2. ASSUME UNCHANGED <<runVars, lifeVars, schedVars>> PROVE CoroutineExact'
    BY <1>2, LifeKept DEF runVars, lifeVars, schedVars, SameLife, HoldsOn
  <1>3. ASSUME NEW t \in Thread, WakeupThread(t, i) PROVE CoroutineExact'
    <2>1. CASE EndCall(i, UnblockReady(t), UnblockState(t)) /\ co' = co
      BY <2>1, UnblockLife, EndCallLife, LifeKept
    <2>2. QED
      BY <1>2, <1>3, <2>1 DEF WakeupThread, lifeVars
  <1>4. ASSUME NEW t \in Thread, CancelWakeupThread(t, i) PROVE CoroutineExact'
    BY <1>2, <1>4 DEF CancelWakeupThread
  <1>5. ASSUME NEW t \in Thread, SuspendThread(t, i) PROVE CoroutineExact'
    <2>0. co' = co
      BY <1>5 DEF SuspendThread, SuspendRunning, Fatal, lifeVars
    <2>1. CASE cpu = "guest" /\ state[t] = "Run" /\ state' = [state EXCEPT ![t] = "Suspend"]
      BY <2>0, <2>1, LifeKept DEF SameLife, HoldsOn
    <2>2. CASE /\ state[t] \in {"Ready", "Wait"} /\ UNCHANGED schedVars
               /\ state' = [state EXCEPT ![t] =
                              IF @ = "Ready" THEN "Suspend" ELSE "WaitSuspend"]
      BY <2>0, <2>2, LifeKept DEF SameLife, schedVars, HoldsOn
    <2>3. QED
      BY <1>2, <1>5, <2>1, <2>2 DEF SuspendThread, SuspendRunning, Fatal
  <1>6. ASSUME NEW t \in Thread, ResumeThread(t, i) PROVE CoroutineExact'
    <2>0. co' = co
      BY <1>6 DEF ResumeThread, lifeVars
    <2>1. CASE /\ state[t] = "Suspend"
               /\ MaybePreempt(PushBack(ready, priority[t], t), [state EXCEPT ![t] = "Ready"])
      <3> DEFINE st == [state EXCEPT ![t] = "Ready"]
      <3>1. st \in [Thread -> TState] /\ SameLife(st)
        BY <2>1 DEF SameLife, TState
      <3>2. MaybePreempt(PushBack(ready, priority[t], t), st)
        BY <2>1
      <3> HIDE DEF st
      <3>3. QED
        BY <2>0, <3>1, <3>2, PreemptLife, LifeKept
    <2>2. CASE state[t] = "WaitSuspend" /\ state' = [state EXCEPT ![t] = "Wait"] /\ Return
      BY <2>0, <2>2, LifeKept DEF SameLife, Return, schedVars, HoldsOn
    <2>3. QED
      BY <1>6, <2>1, <2>2 DEF ResumeThread
  <1>7. ASSUME NEW t \in Thread, ReleaseWaitThread(t, i) PROVE CoroutineExact'
    <2>1. EndCall(i, UnblockReady(t), UnblockState(t)) /\ co' = co
      BY <1>7 DEF ReleaseWaitThread, lifeVars
    <2>2. QED
      BY <2>1, UnblockLife, EndCallLife, LifeKept
  <1>8. ASSUME NEW t \in Thread, NEW p \in Prio, ChangeThreadPriority(t, p, i)
        PROVE  CoroutineExact'
    <2>0. co' = co
      BY <1>8 DEF ChangeThreadPriority, lifeVars
    <2>1. CASE t = current /\ state' = [state EXCEPT ![t] = "Ready"] /\ Yield
      <3>1. cpu # "after" /\ cpu # "reap" /\ state[t] = "Run"
        BY <2>1, ThreadPositive DEF current, Running
      <3>2. QED
        BY <2>0, <2>1, <3>1, LifeKept DEF SameLife, HoldsOn
    <2>2. CASE \E rq : EndCall(i, rq, state)
      <3>1. SameLife(state)
        BY DEF SameLife
      <3>2. QED
        BY <2>0, <2>2, <3>1, EndCallLife, LifeKept
    <2>3. QED
      BY <1>8, <2>1, <2>2 DEF ChangeThreadPriority
  <1>9. ASSUME NEW p \in Prio, RotateThreadReadyQueue(p, i) PROVE CoroutineExact'
    <2>0. co' = co
      BY <1>9 DEF RotateThreadReadyQueue, lifeVars
    <2>1. CASE ~ i /\ state' = [state EXCEPT ![resumed] = "Ready"]
      <3>1. InThread
        BY <1>9, <2>1 DEF RotateThreadReadyQueue, Caller
      <3>2. "Ready" \in TState \ {"Free", "Dormant"}
        BY DEF TState
      <3>3. SameLife(state') /\ HoldsOn
        BY <2>1, <3>1, <3>2, CallerLife
      <3>4. QED
        BY <2>0, <3>3, LifeKept
    <2>2. CASE UNCHANGED state /\ Return
      BY <2>0, <2>2, LifeKept DEF SameLife, Return, schedVars, HoldsOn
    <2>3. QED
      BY <1>9, <2>1, <2>2 DEF RotateThreadReadyQueue
  <1>10. ASSUME NEW s \in Sema, DeleteSema(s, i) \/ PollSema(s, i) PROVE CoroutineExact'
    BY <1>2, <1>10 DEF DeleteSema, PollSema
  <1>11. ASSUME NEW s \in Sema, SignalSema(s, i) PROVE CoroutineExact'
    <2>1. CASE waiters[s] # <<>>
      <3>1. Head(waiters[s]) \in Thread
        BY <2>1, TailMembers DEF ReadyInv, TypeInv, TypeOK
      <3>2. /\ EndCall(i, UnblockReady(Head(waiters[s])), UnblockState(Head(waiters[s])))
            /\ co' = co
        BY <1>11, <2>1 DEF SignalSema, lifeVars
      <3>3. QED
        BY <3>1, <3>2, UnblockLife, EndCallLife, LifeKept
    <2>2. QED
      BY <1>2, <1>11, <2>1 DEF SignalSema
  <1>12. QED
    BY <1>1, <1>3, <1>4, <1>5, <1>6, <1>7, <1>8, <1>9, <1>10, <1>11 DEF ICall

LEMMA CoroInvariant == Spec => []CoroInv
  <1>1. Init => CoroInv
    <2>1. Init => \A t \in Thread : state[t] = (IF t = 1 THEN "Ready" ELSE "Free") /\ co[t] = (t = 1)
      BY DEF Init
    <2>2. Init => CoroutineExact
      BY <2>1, ZenonT(40) DEF CoroutineExact
    <2>3. QED
      BY <2>2, InitReady DEF CoroInv
  <1>2. CoroInv /\ [Next]_vars => CoroInv'
    <2> SUFFICES ASSUME CoroInv, [Next]_vars PROVE CoroInv'
      OBVIOUS
    <2>1. ReadyInv'
      BY ReadyStep DEF CoroInv
    <2>2. CASE UNCHANGED vars
      BY <2>1, <2>2, LifeKept DEF vars, runVars, lifeVars, schedVars, SameLife, HoldsOn, CoroInv
    <2>3. CASE Next
      BY <2>1, <2>3, SchedStepLife, ThreadCallLife, ICallLife DEF Next, CoroInv
    <2>4. QED
      BY <2>2, <2>3
  <1>3. QED
    BY <1>1, <1>2, PTL DEF Spec

\* sched_loop always has a coroutine to resume, and a thread that ended keeps
\* its own no longer than until the reap (sched.cpp:583-612, :842-879).
THEOREM CoroutineExactCorrect == Spec => []CoroutineExact
  <1>1. CoroInv => CoroutineExact
    BY DEF CoroInv
  <1>2. QED
    BY <1>1, CoroInvariant, PTL

-----------------------------------------------------------------------------
(***************************************************************************)
(* The semaphores' queues hold exactly the threads blocked on them, and no *)
(* signal or wakeup is lost: proved for any number of threads, semaphores  *)
(* and priorities and for every quirk.                                     *)
(***************************************************************************)

\* In the states st exactly the threads with a wait in wt are waiting.
Blocked(st, wt) == \A t \in Thread : st[t] \in {"Wait", "WaitSuspend"} <=> wt[t] # None

\* The queues wa hold exactly the threads that wait in wt, on alive semaphores.
Parked(wt, al, wa) ==
  /\ \A s \in Sema : IsInjective(wa[s])
  /\ \A s \in Sema, t \in Thread : Contains(wa[s], t) <=> wt[t] = s
  /\ \A t \in Thread : wt[t] \in Sema => al[wt[t]]

WaitsOK == Blocked(state, wait) /\ Parked(wait, alive, waiters) /\ NoLostWakeup

WaitInv == ReadyInv /\ WaitsOK

LEMMA WaitTypes ==
  ASSUME WaitInv
  PROVE  /\ state \in [Thread -> TState] /\ wait \in [Thread -> {None, Sleep} \cup Sema]
         /\ alive \in [Sema -> BOOLEAN] /\ waiters \in [Sema -> Seq(Thread)]
         /\ resumed \in {0} \cup Thread
         /\ ReadyInv /\ Blocked(state, wait) /\ Parked(wait, alive, waiters)
  BY DEF WaitInv, WaitsOK, ReadyInv, TypeInv, TypeOK

LEMMA NotASema == None \notin Sema /\ Sleep \notin Sema /\ None # Sleep
  BY DEF None, Sleep, Sema

LEMMA ParkedIsExact == WaitInv => WaitersExact
  <1> SUFFICES ASSUME WaitInv PROVE WaitersExact
    OBVIOUS
  <1> USE WaitTypes
  <1>1. ASSUME NEW s \in Sema, NEW i \in DOMAIN waiters[s] PROVE wait[waiters[s][i]] = s
    <2>1. waiters[s][i] \in Thread
      BY <1>1
    <2>2. Contains(waiters[s], waiters[s][i])
      BY <1>1 DEF Contains
    <2>3. QED
      BY <2>1, <2>2 DEF Parked
  <1>2. QED
    BY <1>1 DEF WaitersExact, Parked, Blocked, Waiting

-----------------------------------------------------------------------------
(* What the waiter queues' operations do to Parked *)

LEMMA ParkedAppend ==
  ASSUME NEW wt \in [Thread -> {None, Sleep} \cup Sema], NEW al,
         NEW wa \in [Sema -> Seq(Thread)], Parked(wt, al, wa),
         NEW t \in Thread, wt[t] = None, NEW s \in Sema, al[s]
  PROVE  Parked([wt EXCEPT ![t] = s], al, [wa EXCEPT ![s] = Append(@, t)])
  <1> DEFINE q == Append(wa[s], t)
  <1>1. ~ Contains(wa[s], t) /\ IsInjective(wa[s])
    BY NotASema DEF Parked
  <1>2. IsInjective(q) /\ \A u : Contains(q, u) <=> Contains(wa[s], u) \/ u = t
    BY <1>1, AppendMembers
  <1> HIDE DEF q
  <1>3. Parked([wt EXCEPT ![t] = s], al, [wa EXCEPT ![s] = q])
    BY <1>2, NotASema DEF Parked
  <1>4. QED
    BY <1>3 DEF q

LEMMA ParkedSleep ==
  ASSUME NEW wt \in [Thread -> {None, Sleep} \cup Sema], NEW al,
         NEW wa \in [Sema -> Seq(Thread)], Parked(wt, al, wa),
         NEW t \in Thread, wt[t] \notin Sema, NEW v, v \notin Sema
  PROVE  Parked([wt EXCEPT ![t] = v], al, wa)
  BY DEF Parked

LEMMA ParkedPop ==
  ASSUME NEW wt \in [Thread -> {None, Sleep} \cup Sema], NEW al,
         NEW wa \in [Sema -> Seq(Thread)], Parked(wt, al, wa),
         NEW s \in Sema, wa[s] # <<>>
  PROVE  /\ wt[Head(wa[s])] = s
         /\ Parked([wt EXCEPT ![Head(wa[s])] = None], al, [wa EXCEPT ![s] = Tail(@)])
  <1> DEFINE h == Head(wa[s])
             q == Tail(wa[s])
  <1>1. IsInjective(wa[s])
    BY DEF Parked
  <1>2. /\ h \in Thread /\ Contains(wa[s], h) /\ IsInjective(q)
        /\ \A u : Contains(q, u) <=> Contains(wa[s], u) /\ u # h
    BY <1>1, TailMembers
  <1> HIDE DEF h, q
  <1>3. wt[h] = s
    BY <1>2 DEF Parked
  <1>4. Parked([wt EXCEPT ![h] = None], al, [wa EXCEPT ![s] = q])
    BY <1>2, <1>3, NotASema DEF Parked
  <1>5. QED
    BY <1>3, <1>4 DEF h, q

LEMMA ParkedErase ==
  ASSUME NEW wt \in [Thread -> {None, Sleep} \cup Sema], NEW al,
         NEW wa \in [Sema -> Seq(Thread)], Parked(wt, al, wa),
         NEW t \in Thread, NEW s \in Sema, wt[t] = s
  PROVE  Parked([wt EXCEPT ![t] = None], al, [wa EXCEPT ![s] = Erase(@, t)])
  <1> DEFINE q == Erase(wa[s], t)
  <1>1. IsInjective(wa[s])
    BY DEF Parked
  <1>2. IsInjective(q) /\ \A u : Contains(q, u) <=> Contains(wa[s], u) /\ u # t
    BY <1>1, EraseMembers
  <1> HIDE DEF q
  <1>3. Parked([wt EXCEPT ![t] = None], al, [wa EXCEPT ![s] = q])
    BY <1>2, NotASema DEF Parked
  <1>4. QED
    BY <1>3 DEF q

LEMMA EmptyHasNone == \A t : ~ Contains(<<>>, t)
  BY DEF Contains

\* An erased or popped queue is not empty only if the queue was not.
LEMMA StaysEmpty ==
  /\ \A t : Erase(<<>>, t) = <<>>
  /\ IsInjective(<<>>)
  BY EmptyHasNone DEF Erase, IsInjective

LEMMA LeaveWaitersParked ==
  ASSUME WaitInv, NEW t \in Thread, LeaveWaiters(t)
  PROVE  /\ Parked([wait EXCEPT ![t] = None], alive, waiters')
         /\ \A s \in Sema : waiters'[s] # <<>> => waiters[s] # <<>>
  <1> USE WaitTypes
  <1>1. CASE wait[t] \in Sema
    <2>1. waiters' = [waiters EXCEPT ![wait[t]] = Erase(@, t)]
      BY <1>1 DEF LeaveWaiters, Parked
    <2>2. Parked([wait EXCEPT ![t] = None], alive, waiters')
      BY <1>1, <2>1, ParkedErase
    <2>3. QED
      BY <2>1, <2>2, StaysEmpty
  <1>2. CASE wait[t] \notin Sema
    <2>1. waiters' = waiters
      BY <1>2 DEF LeaveWaiters
    <2>2. QED
      BY <1>2, <2>1, ParkedSleep, NotASema
  <1>3. QED
    BY <1>1, <1>2

-----------------------------------------------------------------------------
(* What the parts of a call do *)

LEMMA WaitsKept ==
  ASSUME WaitInv, UNCHANGED <<state, wait, wakeup_count, semaVars>>
  PROVE  WaitsOK'
  BY DEF WaitInv, WaitsOK, Blocked, Parked, NoLostWakeup, semaVars

\* A change of scheduling state that neither starts nor ends a wait.
LEMMA StateChange ==
  ASSUME WaitInv, UNCHANGED <<wait, wakeup_count, semaVars>>, Blocked(state', wait)
  PROVE  WaitsOK'
  BY DEF WaitInv, WaitsOK, Parked, Blocked, NoLostWakeup, semaVars

LEMMA PreemptBlocked ==
  ASSUME WaitInv, NEW rq, NEW st \in [Thread -> TState], NEW wt, Blocked(st, wt),
         MaybePreempt(rq, st)
  PROVE  Blocked(state', wt)
  <1>1. CASE state' = st
    BY <1>1
  <1>2. CASE st[resumed] = "Run" /\ cpu = "guest" /\ state' = [st EXCEPT ![resumed] = "Ready"]
    <2>1. resumed \in Thread
      BY <1>2, ResumedThread DEF Occupied, WaitInv, ReadyInv
    <2>2. QED
      BY <1>2, <2>1 DEF Blocked
  <1>3. QED
    BY <1>1, <1>2 DEF MaybePreempt

LEMMA EndCallBlocked ==
  ASSUME WaitInv, NEW i, NEW rq, NEW st \in [Thread -> TState], NEW wt, Blocked(st, wt),
         EndCall(i, rq, st)
  PROVE  Blocked(state', wt)
  BY PreemptBlocked DEF EndCall

LEMMA UnblockBlocked ==
  ASSUME WaitInv, NEW t \in Thread, NEW r, UnblockWait(t, r)
  PROVE  Blocked(UnblockState(t), wait')
  <1> USE WaitTypes
  <1>1. CASE state[t] \in {"Wait", "WaitSuspend"}
    BY <1>1 DEF Blocked, UnblockState, UnblockWait
  <1>2. CASE state[t] \notin {"Wait", "WaitSuspend"}
    BY <1>2 DEF Blocked, UnblockState, UnblockWait
  <1>3. QED
    BY <1>1, <1>2

\* The running thread waits for nothing yet.
LEMMA RunnerWaitsForNothing ==
  ASSUME WaitInv, InThread
  PROVE  resumed \in Thread /\ state[resumed] = "Run" /\ wait[resumed] = None
  BY InThreadRuns, WaitTypes DEF Blocked

-----------------------------------------------------------------------------
(* One lemma for each group of actions *)

LEMMA SchedStepWaits ==
  ASSUME WaitInv, SchedStep
  PROVE  WaitsOK'
  <1> USE WaitTypes
  <1>1. ASSUME NEW p \in Prio, Dispatch(p) PROVE WaitsOK'
    <2>1. /\ resumed' = Head(ready[p]) /\ ready[p] # <<>>
          /\ state' = [state EXCEPT ![resumed'] = "Run"]
          /\ UNCHANGED <<wait, wakeup_count, semaVars>>
      BY <1>1 DEF Dispatch, IsBest, waitVars
    <2>2. resumed' \in Thread /\ state[resumed'] = "Ready"
      BY <2>1, TailMembers, QueuedPop, RunningTypes, ZenonT(40)
    <2>3. Blocked(state', wait)
      BY <2>1, <2>2 DEF Blocked
    <2>4. QED
      BY <2>1, <2>3, StateChange
  <1>2. CASE Resume
    <2>1. cpu \in {"before", "resume"}
      BY <1>2 DEF Resume
    <2>2. resumed \in Thread /\ state[resumed] = "Run"
      BY <2>1, ResumedThread, RunningTypes DEF Running, current, Occupied, ReadyInv
    <2>3. wait' = wait
      BY <1>2, <2>2 DEF Resume, Blocked
    <2>4. QED
      BY <1>2, <2>3, WaitsKept DEF Resume, runVars
  <1>3. CASE Reap
    <2>1. UNCHANGED <<wait, wakeup_count, semaVars>>
      BY <1>3 DEF Reap, Fatal, waitVars
    <2>2. Blocked(state', wait)
      <3>1. CASE state' = state
        BY <3>1
      <3>2. CASE /\ state[resumed] = "Dormant"
                 /\ state' = [state EXCEPT ![resumed] =
                                IF pending_delete[resumed] THEN "Free" ELSE "Dormant"]
        BY <3>2 DEF Blocked
      <3>3. QED
        BY <1>3, <3>1, <3>2 DEF Reap, Fatal, runVars
    <2>3. QED
      BY <2>1, <2>2, StateChange
  <1>4. CASE Idle
    BY <1>4, WaitsKept DEF Idle, runVars, waitVars
  <1>5. CASE IdleOver
    BY <1>5, WaitsKept DEF IdleOver, runVars, waitVars
  <1>6. CASE EnterInterrupt
    BY <1>6, WaitsKept DEF EnterInterrupt, runVars, waitVars
  <1>7. CASE LeaveInterrupt
    <2>1. UNCHANGED <<wait, wakeup_count, semaVars>>
      BY <1>7 DEF LeaveInterrupt, waitVars
    <2>2. Blocked(state', wait)
      <3>1. CASE state' = state
        BY <3>1
      <3>2. CASE state[resumed] = "Run" /\ state' = [state EXCEPT ![resumed] = "Ready"]
        BY <3>2 DEF Blocked
      <3>3. QED
        BY <1>7, <3>1, <3>2 DEF LeaveInterrupt, runVars
    <2>3. QED
      BY <2>1, <2>2, StateChange
  <1>8. CASE DeleteSemaWaiter
    <2> DEFINE t == Head(waiters[deleting])
    <2>1. deleting \in Sema /\ waiters[deleting] # <<>>
      BY <1>8 DEF DeleteSemaWaiter, ReadyInv, TypeInv, TypeOK
    <2>2. /\ t \in Thread /\ wait[t] = deleting
          /\ Parked([wait EXCEPT ![t] = None], alive, [waiters EXCEPT ![deleting] = Tail(@)])
      <3>1. t \in Thread
        BY <2>1, TailMembers
      <3>2. QED
        BY <2>1, <3>1, ParkedPop
    <2>3. /\ UnblockWait(t, -1) /\ state' = UnblockState(t)
          /\ waiters' = [waiters EXCEPT ![deleting] = Tail(@)]
          /\ UNCHANGED <<alive, count, wakeup_count>>
      BY <1>8 DEF DeleteSemaWaiter
    <2> HIDE DEF t
    <2>4. Blocked(state', wait')
      BY <2>2, <2>3, UnblockBlocked
    <2>5. wait' = [wait EXCEPT ![t] = None]
      BY <2>1, <2>2, <2>3, NotASema DEF UnblockWait, Blocked
    <2>6. Parked(wait', alive', waiters')
      BY <2>2, <2>3, <2>5
    <2>7. NoLostWakeup'
      <3>1. \A s \in Sema : waiters'[s] # <<>> => waiters[s] # <<>>
        BY <2>1, <2>3
      <3>2. QED
        BY <2>3, <2>5, <3>1, NotASema DEF WaitInv, WaitsOK, NoLostWakeup
    <2>8. QED
      BY <2>4, <2>6, <2>7 DEF WaitsOK
  <1>9. CASE DeleteSemaEnd
    <2>1. deleting \in Sema /\ waiters[deleting] = <<>>
      BY <1>9 DEF DeleteSemaEnd, ReadyInv, TypeInv, TypeOK
    <2>2. /\ alive' = [alive EXCEPT ![deleting] = FALSE]
          /\ UNCHANGED <<wait, wakeup_count, count, waiters>>
      BY <1>9 DEF DeleteSemaEnd, waitVars
    <2>3. Parked(wait', alive', waiters')
      BY <2>1, <2>2, EmptyHasNone DEF Parked
    <2>4. Blocked(state', wait')
      BY <1>9, <2>2, PreemptBlocked DEF DeleteSemaEnd
    <2>5. NoLostWakeup'
      BY <2>2 DEF WaitInv, WaitsOK, NoLostWakeup
    <2>6. QED
      BY <2>3, <2>4, <2>5 DEF WaitsOK
  <1>10. QED
    BY <1>1, <1>2, <1>3, <1>4, <1>5, <1>6, <1>7, <1>8, <1>9 DEF SchedStep

LEMMA ThreadCallWaits ==
  ASSUME WaitInv, ThreadCall
  PROVE  WaitsOK'
  <1> USE WaitTypes
  <1>1. ASSUME InThread, NEW v, v \notin {"Wait", "WaitSuspend"},
               state' = [state EXCEPT ![resumed] = v],
               UNCHANGED <<wait, wakeup_count, semaVars>>
        PROVE  WaitsOK'
    <2>1. Blocked(state', wait)
      BY <1>1, RunnerWaitsForNothing DEF Blocked
    <2>2. QED
      BY <1>1, <2>1, StateChange
  <1>2. ASSUME NEW p \in Prio, CreateThread(p) PROVE WaitsOK'
    <2>1. PICK t \in Thread :
            /\ state[t] = "Free" /\ state' = [state EXCEPT ![t] = "Dormant"]
            /\ wait' = [wait EXCEPT ![t] = None]
            /\ wakeup_count' = [wakeup_count EXCEPT ![t] = 0]
      BY <1>2 DEF CreateThread
    <2>2. wait[t] = None /\ wait' = wait
      BY <2>1 DEF Blocked
    <2>3. Blocked(state', wait')
      BY <2>1, <2>2 DEF Blocked
    <2>4. UNCHANGED semaVars
      BY <1>2 DEF CreateThread
    <2>5. NoLostWakeup'
      BY <2>1, <2>2, <2>4, NotASema DEF WaitInv, WaitsOK, NoLostWakeup, semaVars
    <2>6. QED
      BY <2>2, <2>3, <2>4, <2>5 DEF WaitsOK, semaVars
  <1>3. ASSUME NEW t \in Thread, DeleteThread(t) PROVE WaitsOK'
    <2>1. Blocked(state', wait)
      BY <1>3 DEF DeleteThread, Blocked
    <2>2. QED
      BY <1>3, <2>1, StateChange DEF DeleteThread, waitVars
  <1>4. ASSUME NEW t \in Thread, StartThread(t) PROVE WaitsOK'
    <2> DEFINE st == [state EXCEPT ![t] = "Ready"]
    <2>1. st \in [Thread -> TState] /\ Blocked(st, wait)
      BY <1>4 DEF StartThread, Blocked, TState
    <2>2. MaybePreempt(PushBack(ready, priority[t], t), st)
      BY <1>4 DEF StartThread
    <2> HIDE DEF st
    <2>3. Blocked(state', wait)
      BY <2>1, <2>2, PreemptBlocked
    <2>4. QED
      BY <1>4, <2>3, StateChange DEF StartThread, waitVars
  <1>5. ASSUME NEW del \in BOOLEAN, ExitThread(del) PROVE WaitsOK'
    BY <1>1, <1>5 DEF ExitThread, waitVars
  <1>6. CASE RootReturn
    BY <1>1, <1>6 DEF RootReturn, waitVars
  <1>7. ASSUME NEW k \in {Sleep} \cup Sema, InThread, Block(k)
        PROVE  Blocked(state', wait')
    BY <1>7, RunnerWaitsForNothing, NotASema DEF Block, Blocked
  <1>8. CASE SleepThread
    <2>1. CASE UNCHANGED <<state, wait, semaVars>> /\ wakeup_count[resumed] > 0
               /\ wakeup_count' = [wakeup_count EXCEPT ![resumed] = @ - 1]
      <3>1. wait[resumed] = None
        BY <1>8, RunnerWaitsForNothing DEF SleepThread
      <3>2. NoLostWakeup'
        BY <2>1, <3>1, NotASema DEF WaitInv, WaitsOK, NoLostWakeup, semaVars
      <3>3. QED
        BY <2>1, <3>2 DEF WaitInv, WaitsOK, Parked, Blocked, semaVars
    <2>2. CASE wakeup_count[resumed] = 0 /\ Block(Sleep) /\ UNCHANGED <<wakeup_count, semaVars>>
      <3>1. resumed \in Thread /\ wait[resumed] = None
        BY <1>8, RunnerWaitsForNothing DEF SleepThread
      <3>2. wait' = [wait EXCEPT ![resumed] = Sleep]
        BY <2>2 DEF Block
      <3>3. Parked(wait', alive, waiters)
        BY <3>1, <3>2, ParkedSleep, NotASema
      <3>4. NoLostWakeup'
        BY <2>2, <3>1, <3>2 DEF WaitInv, WaitsOK, NoLostWakeup, semaVars
      <3>5. QED
        BY <1>7, <1>8, <2>2, <3>3, <3>4 DEF SleepThread, WaitsOK, semaVars
    <2>3. CASE BlockInInterrupt
      BY <2>3, WaitsKept DEF BlockInInterrupt, Fatal, runVars, waitVars
    <2>4. QED
      BY <1>8, <2>1, <2>2, <2>3 DEF SleepThread, runVars, waitVars
  <1>9. CASE Trap
    BY <1>9, WaitsKept DEF Trap, runVars, waitVars
  <1>10. ASSUME NEW on \in BOOLEAN, SetEie(on) PROVE WaitsOK'
    BY <1>10, WaitsKept DEF SetEie, runVars, waitVars
  <1>11. ASSUME NEW max \in 1..MaxCount, NEW init \in 0..max, CreateSema(init, max)
         PROVE  WaitsOK'
    <2>1. PICK s \in Sema :
            /\ ~ alive[s]
            /\ alive' = [alive EXCEPT ![s] = TRUE]
            /\ count' = [count EXCEPT ![s] = init]
            /\ waiters' = [waiters EXCEPT ![s] = <<>>]
      BY <1>11 DEF CreateSema
    <2>2. UNCHANGED <<state, wait, wakeup_count>>
      BY <1>11 DEF CreateSema, runVars, waitVars
    <2>3. Parked(wait', alive', waiters')
      BY <2>1, <2>2, EmptyHasNone, StaysEmpty DEF Parked
    <2>4. NoLostWakeup'
      BY <2>1, <2>2 DEF WaitInv, WaitsOK, NoLostWakeup
    <2>5. QED
      BY <2>2, <2>3, <2>4 DEF WaitsOK, Blocked
  <1>12. ASSUME NEW s \in Sema, WaitSema(s) PROVE WaitsOK'
    <2>1. CASE /\ count[s] > 0 /\ count' = [count EXCEPT ![s] = @ - 1]
               /\ UNCHANGED <<state, wait, wakeup_count, alive, waiters>>
      <3>1. waiters[s] = <<>>
        BY <2>1 DEF WaitInv, WaitsOK, NoLostWakeup
      <3>2. NoLostWakeup'
        BY <2>1, <3>1 DEF WaitInv, WaitsOK, NoLostWakeup
      <3>3. QED
        BY <2>1, <3>2 DEF WaitInv, WaitsOK, Parked, Blocked
    <2>2. CASE /\ count[s] = 0 /\ Block(s)
               /\ waiters' = [waiters EXCEPT ![s] = Append(@, resumed)]
               /\ UNCHANGED <<wakeup_count, alive, count>>
      <3>1. resumed \in Thread /\ wait[resumed] = None /\ alive[s] /\ InThread
        BY <1>12, RunnerWaitsForNothing DEF WaitSema
      <3>2. wait' = [wait EXCEPT ![resumed] = s]
        BY <2>2 DEF Block
      <3>3. Parked(wait', alive', waiters')
        BY <2>2, <3>1, <3>2, ParkedAppend
      <3>4. NoLostWakeup'
        BY <2>2, <3>1, <3>2, NotASema DEF WaitInv, WaitsOK, NoLostWakeup
      <3>5. QED
        BY <1>7, <2>2, <3>1, <3>3, <3>4 DEF WaitsOK
    <2>3. CASE BlockInInterrupt
      BY <2>3, WaitsKept DEF BlockInInterrupt, Fatal, runVars, waitVars
    <2>4. QED
      BY <1>12, <2>1, <2>2, <2>3 DEF WaitSema, runVars, waitVars
  <1>13. QED
    BY <1>2, <1>3, <1>4, <1>5, <1>6, <1>8, <1>9, <1>10, <1>11, <1>12 DEF ThreadCall

LEMMA ICallWaits ==
  ASSUME WaitInv, NEW i \in BOOLEAN, ICall(i)
  PROVE  WaitsOK'
  <1> USE WaitTypes
  <1>1. ASSUME NEW t \in Thread, TerminateThread(t, i) PROVE WaitsOK'
    <2>1. /\ LeaveWaiters(t) /\ wait' = [wait EXCEPT ![t] = None]
          /\ state' = [state EXCEPT ![t] = "Dormant"]
          /\ UNCHANGED <<alive, count, wakeup_count>>
      BY <1>1 DEF TerminateThread
    <2>2. Parked(wait', alive', waiters')
      BY <2>1, LeaveWaitersParked
    <2>3. Blocked(state', wait')
      BY <2>1 DEF Blocked
    <2>4. NoLostWakeup'
      BY <2>1, LeaveWaitersParked, NotASema DEF WaitInv, WaitsOK, NoLostWakeup
    <2>5. QED
      BY <2>2, <2>3, <2>4 DEF WaitsOK
  <1>2. ASSUME NEW t \in Thread, WakeupThread(t, i) PROVE WaitsOK'
    <2>0. UNCHANGED <<alive, count, waiters>>
      BY <1>2 DEF WakeupThread, semaVars
    <2>1. CASE /\ Sleeping(t) /\ UnblockWait(t, 0)
               /\ EndCall(i, UnblockReady(t), UnblockState(t))
               /\ UNCHANGED wakeup_count
      <3>1. wait[t] = Sleep /\ wait' = [wait EXCEPT ![t] = None]
        BY <2>1 DEF Sleeping, UnblockWait
      <3>2. Parked(wait', alive', waiters')
        BY <2>0, <3>1, ParkedSleep, NotASema
      <3>3. UnblockState(t) \in [Thread -> TState]
        BY UnblockQueues
      <3>4. Blocked(state', wait')
        BY <2>1, <3>3, UnblockBlocked, EndCallBlocked
      <3>5. NoLostWakeup'
        BY <2>0, <2>1, <3>1, NotASema DEF WaitInv, WaitsOK, NoLostWakeup
      <3>6. QED
        BY <3>2, <3>4, <3>5 DEF WaitsOK
    <2>2. CASE /\ ~ Sleeping(t) /\ wakeup_count' = [wakeup_count EXCEPT ![t] = @ + 1]
               /\ UNCHANGED <<runVars, waitVars>>
      <3>1. wait[t] # Sleep
        BY <2>2, NotASema DEF Sleeping, Blocked
      <3>2. NoLostWakeup'
        BY <2>0, <2>2, <3>1 DEF WaitInv, WaitsOK, NoLostWakeup, waitVars
      <3>3. QED
        BY <2>0, <2>2, <3>2 DEF WaitsOK, Parked, Blocked, runVars, waitVars
    <2>3. QED
      BY <1>2, <2>1, <2>2 DEF WakeupThread
  <1>3. ASSUME NEW t \in Thread, CancelWakeupThread(t, i) PROVE WaitsOK'
    <2>1. /\ wakeup_count' = [wakeup_count EXCEPT ![t] = 0]
          /\ UNCHANGED <<state, wait, semaVars>>
      BY <1>3 DEF CancelWakeupThread, runVars, waitVars
    <2>2. NoLostWakeup'
      BY <2>1 DEF WaitInv, WaitsOK, NoLostWakeup, semaVars
    <2>3. QED
      BY <2>1, <2>2 DEF WaitsOK, Parked, Blocked, semaVars
  <1>4. ASSUME NEW t \in Thread, SuspendThread(t, i) PROVE WaitsOK'
    <2>1. UNCHANGED <<wait, wakeup_count, semaVars>>
      BY <1>4 DEF SuspendThread, SuspendRunning, Fatal, waitVars
    <2>2. Blocked(state', wait)
      <3>1. CASE state' = state
        BY <3>1
      <3>2. CASE state[t] = "Run" /\ state' = [state EXCEPT ![t] = "Suspend"]
        BY <3>2 DEF Blocked
      <3>3. CASE /\ state[t] \in {"Ready", "Wait"}
                 /\ state' = [state EXCEPT ![t] =
                                IF @ = "Ready" THEN "Suspend" ELSE "WaitSuspend"]
        BY <3>3 DEF Blocked
      <3>4. QED
        BY <1>4, <3>1, <3>2, <3>3 DEF SuspendThread, SuspendRunning, Fatal, runVars
    <2>3. QED
      BY <2>1, <2>2, StateChange
  <1>5. ASSUME NEW t \in Thread, ResumeThread(t, i) PROVE WaitsOK'
    <2>1. UNCHANGED <<wait, wakeup_count, semaVars>>
      BY <1>5 DEF ResumeThread, waitVars
    <2>2. Blocked(state', wait)
      <3>1. CASE /\ state[t] = "Suspend"
                 /\ MaybePreempt(PushBack(ready, priority[t], t), [state EXCEPT ![t] = "Ready"])
        <4> DEFINE st == [state EXCEPT ![t] = "Ready"]
        <4>1. st \in [Thread -> TState] /\ Blocked(st, wait)
          BY <3>1 DEF Blocked, TState
        <4>2. MaybePreempt(PushBack(ready, priority[t], t), st)
          BY <3>1
        <4> HIDE DEF st
        <4>3. QED
          BY <4>1, <4>2, PreemptBlocked
      <3>2. CASE state[t] = "WaitSuspend" /\ state' = [state EXCEPT ![t] = "Wait"]
        BY <3>2 DEF Blocked
      <3>3. QED
        BY <1>5, <3>1, <3>2 DEF ResumeThread
    <2>3. QED
      BY <2>1, <2>2, StateChange
  <1>6. ASSUME NEW t \in Thread, ReleaseWaitThread(t, i) PROVE WaitsOK'
    <2>1. /\ LeaveWaiters(t) /\ UnblockWait(t, -1) /\ wait' = [wait EXCEPT ![t] = None]
          /\ EndCall(i, UnblockReady(t), UnblockState(t))
          /\ UNCHANGED <<alive, count, wakeup_count>>
      BY <1>6 DEF ReleaseWaitThread, UnblockWait
    <2>2. Parked(wait', alive', waiters')
      BY <2>1, LeaveWaitersParked
    <2>3. Blocked(state', wait')
      BY <2>1, UnblockQueues, UnblockBlocked, EndCallBlocked
    <2>4. NoLostWakeup'
      BY <2>1, LeaveWaitersParked, NotASema DEF WaitInv, WaitsOK, NoLostWakeup
    <2>5. QED
      BY <2>2, <2>3, <2>4 DEF WaitsOK
  <1>7. ASSUME NEW t \in Thread, NEW p \in Prio, ChangeThreadPriority(t, p, i) PROVE WaitsOK'
    <2>1. UNCHANGED <<wait, wakeup_count, semaVars>>
      BY <1>7 DEF ChangeThreadPriority, waitVars
    <2>2. Blocked(state', wait)
      <3>1. CASE t = current /\ state' = [state EXCEPT ![t] = "Ready"]
        BY <3>1, RunningTypes DEF Running, Blocked
      <3>2. CASE \E rq : EndCall(i, rq, state)
        BY <3>2, EndCallBlocked
      <3>3. QED
        BY <1>7, <3>1, <3>2 DEF ChangeThreadPriority
    <2>3. QED
      BY <2>1, <2>2, StateChange
  <1>8. ASSUME NEW p \in Prio, RotateThreadReadyQueue(p, i) PROVE WaitsOK'
    <2>1. UNCHANGED <<wait, wakeup_count, semaVars>>
      BY <1>8 DEF RotateThreadReadyQueue, waitVars
    <2>2. Blocked(state', wait)
      <3>1. CASE ~ i /\ state' = [state EXCEPT ![resumed] = "Ready"]
        <4>1. InThread
          BY <1>8, <3>1 DEF RotateThreadReadyQueue, Caller
        <4>2. QED
          BY <3>1, <4>1, RunnerWaitsForNothing DEF Blocked
      <3>2. CASE state' = state
        BY <3>2
      <3>3. QED
        BY <1>8, <3>1, <3>2 DEF RotateThreadReadyQueue
    <2>3. QED
      BY <2>1, <2>2, StateChange
  <1>9. ASSUME NEW s \in Sema, DeleteSema(s, i) PROVE WaitsOK'
    BY <1>9, WaitsKept DEF DeleteSema, runVars, waitVars
  <1>10. ASSUME NEW s \in Sema, SignalSema(s, i) PROVE WaitsOK'
    <2>0. UNCHANGED <<alive, wakeup_count>>
      BY <1>10 DEF SignalSema
    <2>1. CASE waiters[s] # <<>>
      <3> DEFINE t == Head(waiters[s])
      <3>1. /\ t \in Thread /\ wait[t] = s
            /\ Parked([wait EXCEPT ![t] = None], alive, [waiters EXCEPT ![s] = Tail(@)])
        <4>1. t \in Thread
          BY <2>1, TailMembers
        <4>2. QED
          BY <2>1, <4>1, ParkedPop
      <3>2. /\ UnblockWait(t, s) /\ EndCall(i, UnblockReady(t), UnblockState(t))
            /\ waiters' = [waiters EXCEPT ![s] = Tail(@)]
            /\ count' = count
        BY <1>10, <2>1 DEF SignalSema, CountAfterSignal, ReadyInv, TypeInv, TypeOK
      <3> HIDE DEF t
      <3>3. wait' = [wait EXCEPT ![t] = None]
        BY <3>1, <3>2, NotASema DEF UnblockWait, Blocked
      <3>4. Parked(wait', alive', waiters')
        BY <2>0, <3>1, <3>2, <3>3
      <3>5. Blocked(state', wait')
        BY <3>1, <3>2, UnblockQueues, UnblockBlocked, EndCallBlocked
      <3>6. NoLostWakeup'
        <4>1. \A r \in Sema : waiters'[r] # <<>> => waiters[r] # <<>>
          BY <2>1, <3>2
        <4>2. QED
          BY <2>0, <3>2, <3>3, <4>1, NotASema DEF WaitInv, WaitsOK, NoLostWakeup
      <3>7. QED
        BY <3>4, <3>5, <3>6 DEF WaitsOK
    <2>2. CASE waiters[s] = <<>>
      <3>1. /\ UNCHANGED <<runVars, waitVars, waiters>>
            /\ count' = [count EXCEPT ![s] = @ + 1]
        BY <1>10, <2>2 DEF SignalSema, CountAfterSignal
      <3>2. NoLostWakeup'
        BY <2>0, <2>2, <3>1 DEF WaitInv, WaitsOK, NoLostWakeup, waitVars
      <3>3. QED
        BY <2>0, <3>1, <3>2 DEF WaitsOK, Parked, Blocked, runVars, waitVars
    <2>3. QED
      BY <2>1, <2>2
  <1>11. ASSUME NEW s \in Sema, PollSema(s, i) PROVE WaitsOK'
    <2>1. /\ count[s] > 0 /\ count' = [count EXCEPT ![s] = @ - 1]
          /\ UNCHANGED <<state, wait, wakeup_count, alive, waiters>>
      BY <1>11 DEF PollSema, CanPoll, runVars, waitVars
    <2>2. waiters[s] = <<>>
      BY <2>1 DEF WaitInv, WaitsOK, NoLostWakeup
    <2>3. NoLostWakeup'
      BY <2>1, <2>2 DEF WaitInv, WaitsOK, NoLostWakeup
    <2>4. QED
      BY <2>1, <2>3 DEF WaitInv, WaitsOK, Parked, Blocked
  <1>12. QED
    BY <1>1, <1>2, <1>3, <1>4, <1>5, <1>6, <1>7, <1>8, <1>9, <1>10, <1>11 DEF ICall

-----------------------------------------------------------------------------
LEMMA InitWaits == Init => WaitsOK
  BY EmptyHasNone, StaysEmpty, NotASema
  DEF Init, WaitsOK, Blocked, Parked, NoLostWakeup

LEMMA WaitStep == WaitInv /\ [Next]_vars => WaitInv'
  <1> SUFFICES ASSUME WaitInv, [Next]_vars PROVE WaitInv'
    OBVIOUS
  <1>1. ReadyInv'
    BY ReadyStep DEF WaitInv
  <1>2. CASE UNCHANGED vars
    BY <1>1, <1>2, WaitsKept DEF vars, runVars, waitVars, WaitInv
  <1>3. CASE Next
    BY <1>1, <1>3, SchedStepWaits, ThreadCallWaits, ICallWaits DEF Next, WaitInv
  <1>4. QED
    BY <1>2, <1>3

LEMMA WaitInvariant == Spec => []WaitInv
  <1>1. Init => WaitInv
    BY InitReady, InitWaits DEF WaitInv
  <1>2. QED
    BY <1>1, WaitStep, PTL DEF Spec

\* A semaphore's queue holds exactly the threads blocked on it, once each, and
\* no thread is left blocked on a deleted semaphore (sched.cpp:1101-1180).
THEOREM WaitersExactCorrect == Spec => []WaitersExact
  <1>1. WaitInv => WaitersExact
    BY ParkedIsExact
  <1>2. QED
    BY <1>1, WaitInvariant, PTL

\* Nobody waits on a semaphore with a count to take, and nobody sleeps with a
\* wakeup banked (sched.cpp:963-984, :1115-1180).
THEOREM NoLostWakeupCorrect == Spec => []NoLostWakeup
  <1>1. WaitInv => NoLostWakeup
    BY DEF WaitInv, WaitsOK
  <1>2. QED
    BY <1>1, WaitInvariant, PTL

-----------------------------------------------------------------------------
(***************************************************************************)
(* What a step does to the waits.  Whoever still waits has had no answer   *)
(* yet (Unanswered): block_current cleared release_ret, and only an        *)
(* unblock, which ends the wait, sets it again.                            *)
(***************************************************************************)

Unanswered == \A t \in Thread : wait[t] # None => release_ret[t] = 0

AnswerInv == WaitInv /\ Unanswered

\* The five things a step may do to the waits, to one thread at most.
EndWait(t) == t \in Thread /\ wait' = [wait EXCEPT ![t] = None]
Answer(t, r) == release_ret' = [release_ret EXCEPT ![t] = r]
NoMove == UNCHANGED waitVars
Refuse(t) == EndWait(t) /\ \E r \in {-1, 0} : Answer(t, r)
Forget(t) == EndWait(t) /\ UNCHANGED release_ret
Begin(t) ==
  /\ t \in Thread /\ wait[t] = None
  /\ \E k \in {Sleep} \cup Sema : wait' = [wait EXCEPT ![t] = k]
  /\ Answer(t, 0)
Grant(s) ==
  /\ waiters[s] # <<>> /\ wait[Head(waiters[s])] = s
  /\ EndWait(Head(waiters[s])) /\ Answer(Head(waiters[s]), s)
  /\ count' = count
WaitMove ==
  \/ NoMove
  \/ \E t : Refuse(t) \/ Forget(t) \/ Begin(t)
  \/ \E s \in Sema : Grant(s)

LEMMA UnblockMove ==
  ASSUME WaitInv, NEW t \in Thread, state[t] \in {"Wait", "WaitSuspend"},
         NEW r, UnblockWait(t, r)
  PROVE  EndWait(t) /\ Answer(t, r)
  BY DEF UnblockWait, EndWait, Answer

LEMMA SchedStepMoves ==
  ASSUME WaitInv, SchedStep
  PROVE  WaitMove
  <1> USE WaitTypes
  <1>1. CASE \E p \in Prio : Dispatch(p)
    BY <1>1 DEF Dispatch, WaitMove, NoMove
  <1>2. CASE Resume
    <2>1. resumed \in Thread
      BY <1>2, ResumedThread DEF Resume, Occupied, ReadyInv
    <2>2. Refuse(resumed)
      BY <1>2, <2>1 DEF Resume, Refuse, EndWait, Answer
    <2>3. QED
      BY <2>2 DEF WaitMove
  <1>3. CASE Reap
    BY <1>3 DEF Reap, Fatal, WaitMove, NoMove
  <1>4. CASE Idle \/ IdleOver \/ EnterInterrupt
    BY <1>4 DEF Idle, IdleOver, EnterInterrupt, WaitMove, NoMove
  <1>5. CASE LeaveInterrupt
    BY <1>5 DEF LeaveInterrupt, WaitMove, NoMove
  <1>6. CASE DeleteSemaWaiter
    <2> DEFINE t == Head(waiters[deleting])
    <2>1. deleting \in Sema /\ waiters[deleting] # <<>> /\ UnblockWait(t, -1)
      BY <1>6 DEF DeleteSemaWaiter, ReadyInv, TypeInv, TypeOK
    <2>2. t \in Thread
      BY <2>1, TailMembers
    <2>3. wait[t] = deleting
      BY <2>1, ParkedPop
    <2> HIDE DEF t
    <2>4. state[t] \in {"Wait", "WaitSuspend"}
      BY <2>1, <2>2, <2>3, NotASema DEF Blocked
    <2>5. Refuse(t)
      BY <2>1, <2>2, <2>4, UnblockMove DEF Refuse
    <2>6. QED
      BY <2>5 DEF WaitMove
  <1>7. CASE DeleteSemaEnd
    BY <1>7 DEF DeleteSemaEnd, WaitMove, NoMove
  <1>8. QED
    BY <1>1, <1>2, <1>3, <1>4, <1>5, <1>6, <1>7 DEF SchedStep

LEMMA ThreadCallMoves ==
  ASSUME WaitInv, ThreadCall
  PROVE  WaitMove
  <1> USE WaitTypes
  <1>1. ASSUME NEW p \in Prio, CreateThread(p) PROVE WaitMove
    <2>1. PICK t \in Thread \ {1} :
            /\ wait' = [wait EXCEPT ![t] = None] /\ release_ret' = [release_ret EXCEPT ![t] = 0]
      BY <1>1 DEF CreateThread
    <2>2. Refuse(t)
      BY <2>1 DEF Refuse, EndWait, Answer
    <2>3. QED
      BY <2>2 DEF WaitMove
  <1>2. ASSUME NEW t \in Thread, DeleteThread(t) \/ StartThread(t) PROVE WaitMove
    BY <1>2 DEF DeleteThread, StartThread, WaitMove, NoMove
  <1>3. ASSUME NEW del \in BOOLEAN, ExitThread(del) \/ RootReturn PROVE WaitMove
    BY <1>3 DEF ExitThread, RootReturn, WaitMove, NoMove
  <1>4. ASSUME InThread, NEW k \in {Sleep} \cup Sema, Block(k) PROVE WaitMove
    <2>1. Begin(resumed)
      BY <1>4, RunnerWaitsForNothing DEF Block, Begin, Answer
    <2>2. QED
      BY <2>1 DEF WaitMove
  <1>5. CASE SleepThread
    BY <1>4, <1>5 DEF SleepThread, BlockInInterrupt, Fatal, WaitMove, NoMove
  <1>6. ASSUME Trap \/ \E on \in BOOLEAN : SetEie(on) PROVE WaitMove
    BY <1>6 DEF Trap, SetEie, WaitMove, NoMove
  <1>7. ASSUME NEW max, NEW init, CreateSema(init, max) PROVE WaitMove
    BY <1>7 DEF CreateSema, WaitMove, NoMove
  <1>8. ASSUME NEW s \in Sema, WaitSema(s) PROVE WaitMove
    BY <1>4, <1>8 DEF WaitSema, BlockInInterrupt, Fatal, WaitMove, NoMove
  <1>9. QED
    BY <1>1, <1>2, <1>3, <1>5, <1>6, <1>7, <1>8 DEF ThreadCall

LEMMA ICallMoves ==
  ASSUME WaitInv, NEW i \in BOOLEAN, ICall(i)
  PROVE  WaitMove
  <1> USE WaitTypes
  <1>1. ASSUME NEW t \in Thread, TerminateThread(t, i) PROVE WaitMove
    BY <1>1 DEF TerminateThread, WaitMove, Forget, EndWait
  <1>2. ASSUME NEW t \in Thread, WakeupThread(t, i) PROVE WaitMove
    <2>1. CASE Sleeping(t) /\ UnblockWait(t, 0)
      <3>1. Refuse(t)
        BY <2>1, UnblockMove DEF Sleeping, Refuse
      <3>2. QED
        BY <3>1 DEF WaitMove
    <2>2. QED
      BY <1>2, <2>1 DEF WakeupThread, WaitMove, NoMove
  <1>3. ASSUME NEW t \in Thread, ReleaseWaitThread(t, i) PROVE WaitMove
    <2>1. Refuse(t)
      BY <1>3, UnblockMove DEF ReleaseWaitThread, Refuse
    <2>2. QED
      BY <2>1 DEF WaitMove
  <1>4. ASSUME NEW t \in Thread, CancelWakeupThread(t, i) \/ ResumeThread(t, i) PROVE WaitMove
    BY <1>4 DEF CancelWakeupThread, ResumeThread, WaitMove, NoMove
  <1>5. ASSUME NEW t \in Thread, SuspendThread(t, i) PROVE WaitMove
    BY <1>5 DEF SuspendThread, SuspendRunning, Fatal, WaitMove, NoMove
  <1>6. ASSUME NEW t \in Thread, NEW p \in Prio, ChangeThreadPriority(t, p, i) PROVE WaitMove
    BY <1>6 DEF ChangeThreadPriority, WaitMove, NoMove
  <1>7. ASSUME NEW p \in Prio, RotateThreadReadyQueue(p, i) PROVE WaitMove
    BY <1>7 DEF RotateThreadReadyQueue, WaitMove, NoMove
  <1>8. ASSUME NEW s \in Sema, DeleteSema(s, i) \/ PollSema(s, i) PROVE WaitMove
    BY <1>8 DEF DeleteSema, PollSema, WaitMove, NoMove
  <1>9. ASSUME NEW s \in Sema, SignalSema(s, i) PROVE WaitMove
    <2>1. CASE waiters[s] # <<>>
      <3> DEFINE t == Head(waiters[s])
      <3>1. UnblockWait(t, s) /\ count' = count
        BY <1>9, <2>1 DEF SignalSema, CountAfterSignal, ReadyInv, TypeInv, TypeOK
      <3>2. t \in Thread
        BY <2>1, TailMembers
      <3>3. wait[t] = s
        BY <2>1, ParkedPop
      <3>4. state[t] \in {"Wait", "WaitSuspend"}
        BY <3>2, <3>3, NotASema DEF Blocked
      <3>5. EndWait(t) /\ Answer(t, s)
        BY <3>1, <3>2, <3>4, UnblockMove
      <3>6. Grant(s)
        BY <2>1, <3>1, <3>3, <3>5 DEF Grant
      <3>7. QED
        BY <3>6 DEF WaitMove
    <2>2. CASE waiters[s] = <<>>
      BY <1>9, <2>2 DEF SignalSema, WaitMove, NoMove
    <2>3. QED
      BY <2>1, <2>2
  <1>10. QED
    BY <1>1, <1>2, <1>3, <1>4, <1>5, <1>6, <1>7, <1>8, <1>9 DEF ICall

LEMMA StepMoves == WaitInv /\ [Next]_vars => WaitMove
  BY SchedStepMoves, ThreadCallMoves, ICallMoves DEF Next, vars, WaitMove, NoMove

LEMMA MoveAnswers ==
  ASSUME AnswerInv, WaitMove
  PROVE  Unanswered'
  <1>0. /\ wait \in [Thread -> {None, Sleep} \cup Sema]
        /\ release_ret \in [Thread -> {-1, 0} \cup Sema]
    BY DEF AnswerInv, WaitInv, ReadyInv, TypeInv, TypeOK
  <1>1. CASE NoMove
    BY <1>1 DEF NoMove, waitVars, AnswerInv, Unanswered
  <1>2. ASSUME NEW t, EndWait(t), NEW r, Answer(t, r) PROVE Unanswered'
    BY <1>0, <1>2 DEF EndWait, Answer, AnswerInv, Unanswered
  <1>3. ASSUME NEW t, Forget(t) PROVE Unanswered'
    BY <1>0, <1>3 DEF Forget, EndWait, AnswerInv, Unanswered
  <1>4. ASSUME NEW t, Begin(t) PROVE Unanswered'
    BY <1>0, <1>4 DEF Begin, Answer, AnswerInv, Unanswered
  <1>5. QED
    BY <1>1, <1>2, <1>3, <1>4 DEF WaitMove, Refuse, Grant

LEMMA AnswerInvariant == Spec => []AnswerInv
  <1>1. Init => AnswerInv
    <2>1. Init => Unanswered
      BY DEF Init, Unanswered
    <2>2. QED
      BY <2>1, InitReady, InitWaits DEF AnswerInv, WaitInv
  <1>2. AnswerInv /\ [Next]_vars => AnswerInv'
    BY WaitStep, StepMoves, MoveAnswers DEF AnswerInv
  <1>3. QED
    BY <1>1, <1>2, PTL DEF Spec

\* The threads a step releases as signalled on s.
Granted(s) == {t \in Thread : wait[t] = s /\ wait'[t] = None /\ release_ret'[t] = s}

SignalledOne ==
  \A s \in Sema : Granted(s) # {} => Granted(s) = {Head(waiters[s])} /\ count'[s] = count[s]

LEMMA MoveSignals ==
  ASSUME AnswerInv, WaitMove
  PROVE  SignalledOne
  <1>0. /\ wait \in [Thread -> {None, Sleep} \cup Sema]
        /\ release_ret \in [Thread -> {-1, 0} \cup Sema]
        /\ \A s \in Sema : s # None /\ s # -1 /\ s # 0
    <2>1. \A s \in Sema : s # None /\ s # -1 /\ s # 0
      BY NSemasAssumption DEF Sema, None
    <2>2. QED
      BY <2>1 DEF AnswerInv, WaitInv, ReadyInv, TypeInv, TypeOK
  <1>1. CASE NoMove
    BY <1>0, <1>1 DEF NoMove, waitVars, SignalledOne, Granted
  <1>2. ASSUME NEW t, Refuse(t) PROVE SignalledOne
    <2>1. PICK r \in {-1, 0} : EndWait(t) /\ Answer(t, r)
      BY <1>2 DEF Refuse
    <2>2. release_ret'[t] \in {-1, 0} /\ \A u \in Thread \ {t} : wait'[u] = wait[u]
      BY <1>0, <2>1 DEF EndWait, Answer
    <2>3. \A s \in Sema : Granted(s) = {}
      BY <1>0, <2>2 DEF Granted
    <2>4. QED
      BY <2>3 DEF SignalledOne
  <1>3. ASSUME NEW t, Forget(t) PROVE SignalledOne
    BY <1>0, <1>3 DEF Forget, EndWait, AnswerInv, Unanswered, SignalledOne, Granted
  <1>4. ASSUME NEW t, Begin(t) PROVE SignalledOne
    BY <1>0, <1>4 DEF Begin, Answer, SignalledOne, Granted
  <1>5. ASSUME NEW s \in Sema, Grant(s) PROVE SignalledOne
    <2> DEFINE h == Head(waiters[s])
    <2>1. /\ h \in Thread /\ wait[h] = s /\ count' = count
          /\ wait' = [wait EXCEPT ![h] = None]
          /\ release_ret' = [release_ret EXCEPT ![h] = s]
      BY <1>5 DEF Grant, EndWait, Answer
    <2> HIDE DEF h
    <2>2. Granted(s) = {h}
      BY <1>0, <2>1 DEF Granted
    <2>3. \A r \in Sema : r # s => Granted(r) = {}
      BY <1>0, <2>1 DEF Granted
    <2>4. QED
      BY <2>1, <2>2, <2>3 DEF SignalledOne, h
  <1>6. QED
    BY <1>1, <1>2, <1>3, <1>4, <1>5 DEF WaitMove

\* Each unit of a semaphore is banked or handed to the waiter that has waited
\* longest, never both and never to two (sched.cpp:1149-1180, :1101-1147).
THEOREM OneSignalOneWakeupCorrect == Spec => OneSignalOneWakeup
  <1>1. AnswerInv /\ [Next]_vars => [SignalledOne]_vars
    BY StepMoves, MoveSignals DEF AnswerInv
  <1>2. OneSignalOneWakeup <=> [][SignalledOne]_vars
    BY DEF OneSignalOneWakeup, SignalledOne, Granted
  <1>3. QED
    BY <1>1, <1>2, AnswerInvariant, PTL DEF Spec

-----------------------------------------------------------------------------
(***************************************************************************)
(* Who gets the CPU, when the guest and the devices keep to the usual: no  *)
(* handler suspends the thread it interrupted, no thread makes an i-call   *)
(* outside a handler and no delivery runs out of its passes.  (With any of *)
(* the three NoPriorityInversion fails, with the first two the order       *)
(* within a priority does too; README.md says how.)                        *)
(***************************************************************************)

Usual == Quirks = {}

\* Handlers run while a coroutine does, or on the scheduler's stack when no
\* thread is loaded.
IntrOK ==
  \/ intr = Nobody
  \/ intr = SchedLoop /\ cpu \in {"idle", "after"}
  \/ intr = resumed /\ cpu = "guest"

\* Whatever became pending in a thread is delivered before the next one is
\* loaded, since interrupts are enabled in between: the delivery on the way into a
\* thread never has anything to dispatch.
PendOK ==
  /\ cpu # "resume"
  /\ cpu \in {"loop", "before", "reap"} => ~ pend
  /\ cpu \in {"loop", "idle", "after", "reap"} => g_eie

\* rt_sema_delete is called by a thread or by a handler.
DeletingOK == deleting # 0 => cpu \in {"guest", "idle", "after"}

HostOK == fatal = "no" /\ IntrOK /\ PendOK /\ DeletingOK

\* The thread on the CPU is outranked only while a handler, or the loop of
\* rt_sema_delete, has not come to its preemption check.
BestOK ==
  cpu = "before" \/ (cpu = "guest" /\ intr = Nobody /\ deleting = 0)
    => ~ Higher(ready, priority[resumed])

OrderInv == ReadyInv /\ HostOK /\ BestOK

-----------------------------------------------------------------------------
(* Who can call *)

LEMMA IntrIsNotNobody == SchedLoop # Nobody /\ \A t \in Thread : t # Nobody /\ t # SchedLoop
  BY DEF SchedLoop, Nobody, Thread

LEMMA UsualThread ==
  ASSUME Usual, OrderInv, InThread
  PROVE  /\ cpu = "guest" /\ intr = Nobody /\ deleting = 0 /\ ~ CanDeliver
         /\ resumed \in Thread /\ current = resumed /\ state[resumed] = "Run"
         /\ ~ Higher(ready, priority[resumed]) /\ ~ InHandler
  <1>1. cpu = "guest" /\ resumed \in Thread /\ current = resumed /\ state[resumed] = "Run"
    BY InThreadRuns DEF OrderInv
  <1>2. intr = Nobody /\ deleting = 0 /\ ~ CanDeliver
    BY <1>1 DEF OrderInv, HostOK, IntrOK, InThread, Alive, Usual
  <1>3. QED
    BY <1>1, <1>2, IntrIsNotNobody DEF OrderInv, BestOK, InHandler

LEMMA UsualHandler ==
  ASSUME OrderInv, InHandler
  PROVE  intr # Nobody /\ cpu \in {"guest", "idle", "after"} /\ ~ InThread
  <1>1. cpu = "guest" => resumed \in Thread
    BY ResumedThread DEF Occupied, OrderInv, ReadyInv
  <1>2. QED
    BY <1>1, IntrIsNotNobody DEF OrderInv, HostOK, IntrOK, InHandler, InThread

LEMMA UsualCaller ==
  ASSUME Usual, OrderInv, NEW i \in BOOLEAN, Caller(i)
  PROVE  (i => InHandler) /\ (~ i => InThread)
  BY DEF Caller, Usual

-----------------------------------------------------------------------------
(* What the parts of a call do *)

\* A yield.
LEMMA YieldOrder ==
  ASSUME OrderInv, Yield, intr' = Nobody, fatal' = "no"
  PROVE  HostOK' /\ BestOK'
  BY DEF Yield, HostOK, IntrOK, PendOK, DeletingOK, BestOK

\* A call of a handler that ends without a yield.
LEMMA HandlerOrder ==
  ASSUME OrderInv, InHandler, UNCHANGED <<schedVars, intr, pend, fatal>>
  PROVE  HostOK' /\ BestOK'
  <1>1. HostOK'
    BY UsualHandler DEF OrderInv, HostOK, IntrOK, PendOK, DeletingOK, schedVars
  <1>2. BestOK'
    BY UsualHandler DEF BestOK, schedVars
  <1>3. QED
    BY <1>1, <1>2

\* A call of a thread that ends without a yield.
LEMMA ThreadOrder ==
  ASSUME Usual, OrderInv, InThread, UNCHANGED <<cpu, resumed, intr, fatal>>,
         deleting' = 0 => ~ Higher(ready', priority'[resumed])
  PROVE  HostOK' /\ BestOK'
  BY UsualThread DEF OrderInv, HostOK, IntrOK, PendOK, DeletingOK, BestOK

\* Fewer threads are ready.
LEMMA ThreadOrderFewer ==
  ASSUME Usual, OrderInv, InThread, UNCHANGED <<cpu, resumed, intr, fatal, priority>>,
         \A p \in Prio : ready'[p] # <<>> => ready[p] # <<>>
  PROVE  HostOK' /\ BestOK'
  <1>1. ~ Higher(ready', priority'[resumed])
    BY UsualThread DEF Higher
  <1>2. QED
    BY <1>1, ThreadOrder

LEMMA PreemptOrder ==
  ASSUME Usual, OrderInv, NEW rq, NEW st, MaybePreempt(rq, st), InThread,
         st[resumed] = "Run", priority'[resumed] = priority[resumed],
         UNCHANGED <<intr, fatal>>
  PROVE  HostOK' /\ BestOK'
  <1>1. CASE Yield
    BY <1>1, UsualThread, YieldOrder DEF OrderInv, HostOK
  <1>2. CASE Return /\ ready' = rq /\ ~ Higher(rq, priority[resumed])
    <2>1. UNCHANGED <<cpu, resumed>> /\ ~ Higher(ready', priority'[resumed])
      BY <1>2 DEF Return, schedVars
    <2>2. QED
      BY <2>1, ThreadOrder
  <1>3. QED
    BY <1>1, <1>2, UsualThread DEF MaybePreempt

LEMMA EndCallOrder ==
  ASSUME Usual, OrderInv, NEW i \in BOOLEAN, NEW rq, NEW st, Caller(i), Tick,
         EndCall(i, rq, st), ~ i => st[resumed] = "Run" /\ priority'[resumed] = priority[resumed],
         UNCHANGED <<intr, fatal>>
  PROVE  HostOK' /\ BestOK'
  <1>1. CASE i
    <2>1. InHandler /\ ~ InThread
      BY <1>1, UsualCaller, UsualHandler
    <2>2. UNCHANGED <<schedVars, pend>>
      BY <1>1, <2>1 DEF EndCall, Return, Tick
    <2>3. QED
      BY <2>1, <2>2, HandlerOrder
  <1>2. CASE ~ i
    BY <1>2, UsualCaller, PreemptOrder DEF EndCall
  <1>3. QED
    BY <1>1, <1>2

\* A call that leaves the CPU with its caller and makes no thread ready.
LEMMA QuietOrder ==
  ASSUME Usual, OrderInv, NEW i \in BOOLEAN, Caller(i), Tick,
         UNCHANGED <<schedVars, intr, fatal, priority>>,
         \A p \in Prio : ready'[p] # <<>> => ready[p] # <<>>
  PROVE  HostOK' /\ BestOK'
  <1>1. CASE i
    <2>1. InHandler /\ ~ InThread
      BY <1>1, UsualCaller, UsualHandler
    <2>2. QED
      BY <2>1, HandlerOrder DEF Tick
  <1>2. CASE ~ i
    BY <1>2, UsualCaller, ThreadOrderFewer DEF schedVars
  <1>3. QED
    BY <1>1, <1>2

\* The caller is not the thread it unblocks or resumes.
LEMMA UnblockKeepsRun ==
  ASSUME OrderInv, NEW t \in Thread, state[resumed] = "Run"
  PROVE  UnblockState(t)[resumed] = "Run"
  BY RunningTypes DEF UnblockState, OrderInv

LEMMA EraseFewer ==
  ASSUME OrderInv, NEW p \in Prio, NEW t,
         ready' = [ready EXCEPT ![p] = Erase(@, t)] \/ ready' = ready
  PROVE  \A q \in Prio : ready'[q] # <<>> => ready[q] # <<>>
  BY StaysEmpty, RunningTypes DEF OrderInv

-----------------------------------------------------------------------------
(* One lemma for each group of actions *)

LEMMA SchedStepOrder ==
  ASSUME Usual, OrderInv, SchedStep
  PROVE  HostOK' /\ BestOK'
  <1> USE RunningTypes DEF OrderInv, DeletingOK, Alive
  <1>1. ASSUME NEW p \in Prio, Dispatch(p) PROVE HostOK' /\ BestOK'
    <2>1. /\ cpu = "loop" /\ cpu' = "before" /\ resumed' = Head(ready[p]) /\ ready[p] # <<>>
          /\ ~ Higher(ready, p) /\ ready' = [ready EXCEPT ![p] = Tail(@)]
          /\ deleting' = 0 /\ UNCHANGED <<intr, pend, priority, fatal>>
      BY <1>1 DEF Dispatch, IsBest, endVars
    <2>2. priority[resumed'] = p
      <3>1. Head(ready[p]) \in Thread /\ Contains(ready[p], Head(ready[p]))
        BY <2>1, TailMembers
      <3>2. QED
        BY <2>1, <3>1 DEF Queued
    <2>3. ~ Higher(ready', p)
      BY <2>1 DEF Higher, Prio
    <2>4. intr = Nobody
      BY <2>1, ThreadPositive DEF HostOK, IntrOK
    <2>5. HostOK'
      BY <2>1, <2>4 DEF HostOK, IntrOK, PendOK
    <2>6. BestOK'
      BY <2>1, <2>2, <2>3 DEF BestOK
    <2>7. QED
      BY <2>5, <2>6
  <1>2. CASE Resume
    <2>1. /\ cpu = "before" /\ cpu' = "guest" /\ deleting = 0 /\ deleting' = 0
          /\ UNCHANGED <<ready, priority, resumed, intr, pend, g_eie, fatal>>
      BY <1>2 DEF Resume, HostOK, PendOK, runVars, endVars
    <2>2. QED
      BY <2>1 DEF HostOK, IntrOK, PendOK, BestOK
  <1>3. CASE Reap
    <2>1. cpu \in {"after", "reap"} /\ state[resumed] # "Run"
      <3>1. cpu \in {"after", "reap"} /\ resumed \in Thread
        BY <1>3, ResumedThread DEF Reap, ReadyInv, Occupied
      <3>2. QED
        BY <3>1, ThreadPositive DEF Running, current
    <2>2. /\ cpu' = "loop" /\ deleting' = 0 /\ UNCHANGED <<intr, pend, g_eie, fatal>>
      BY <1>3, <2>1 DEF Reap, endVars
    <2>3. intr = Nobody /\ ~ pend /\ g_eie
      BY <1>3, <2>1 DEF Reap, CanDeliver, HostOK, IntrOK, PendOK
    <2>4. QED
      BY <2>2, <2>3 DEF HostOK, IntrOK, PendOK, BestOK
  <1>4. CASE Idle
    <2>1. cpu = "loop" /\ cpu' = "idle" /\ deleting' = 0 /\ UNCHANGED <<intr, g_eie, fatal>>
      BY <1>4 DEF Idle, endVars
    <2>2. QED
      BY <2>1 DEF HostOK, IntrOK, PendOK, BestOK
  <1>5. CASE IdleOver
    <2>1. cpu = "idle" /\ cpu' = "loop" /\ deleting' = 0 /\ UNCHANGED <<intr, pend, g_eie, fatal>>
      BY <1>5 DEF IdleOver, endVars
    <2>2. intr = Nobody /\ ~ pend
      BY <1>5, <2>1 DEF IdleOver, CanDeliver, HostOK, IntrOK, PendOK
    <2>3. QED
      BY <2>1, <2>2 DEF HostOK, IntrOK, PendOK, BestOK
  <1>6. CASE EnterInterrupt
    <2>1. /\ pend /\ cpu \in {"idle", "before", "guest", "after"}
          /\ intr' = (IF cpu = "guest" THEN resumed ELSE SchedLoop)
          /\ deleting' = 0 /\ UNCHANGED <<cpu, resumed, g_eie, pend, fatal>>
      BY <1>6 DEF EnterInterrupt, CanDeliver, schedVars, endVars
    <2>2. cpu # "before" /\ (cpu = "guest" => resumed \in Thread)
      BY <2>1, ResumedThread DEF ReadyInv, Occupied, HostOK, PendOK
    <2>3. QED
      BY <2>1, <2>2, IntrIsNotNobody DEF HostOK, IntrOK, PendOK, BestOK
  <1>7. CASE LeaveInterrupt
    <2>1. InHandler /\ intr' = Nobody /\ pend' = FALSE /\ deleting' = 0
      BY <1>7 DEF LeaveInterrupt, Usual, InHandler
    <2>2. CASE cpu = "guest" /\ Yield /\ UNCHANGED fatal
      BY <2>1, <2>2, YieldOrder DEF HostOK
    <2>3. CASE cpu # "guest" /\ fatal' = "yield outside a coroutine" /\ current # 0
      BY <2>1, <2>3, UsualHandler DEF current
    <2>4. CASE /\ ~ (current # 0 /\ state[resumed] = "Run" /\ Higher(ready, priority[resumed]))
               /\ cpu' = AfterDelivery /\ UNCHANGED <<runVars, resumed, g_eie, fatal>>
      <3>1. HostOK'
        BY <2>1, <2>4, UsualHandler DEF AfterDelivery, HostOK, IntrOK, PendOK
      <3>2. CASE cpu = "guest"
        <4>1. current # 0 /\ state[resumed] = "Run"
          BY <3>2, ResumedThread, ThreadPositive DEF Running, current, ReadyInv, Occupied
        <4>2. UNCHANGED <<cpu, ready, priority>>
          BY <1>7, <2>4, <3>2 DEF LeaveInterrupt, AfterDelivery, runVars
        <4>3. BestOK'
          BY <2>4, <4>1, <4>2 DEF BestOK
        <4>4. QED
          BY <3>1, <4>3
      <3>3. CASE cpu \in {"idle", "after"}
        BY <2>4, <3>1, <3>3 DEF AfterDelivery, BestOK
      <3>4. QED
        BY <2>1, <3>2, <3>3, UsualHandler
    <2>5. QED
      BY <1>7, <2>2, <2>3, <2>4 DEF LeaveInterrupt
  <1>8. CASE DeleteSemaWaiter
    <2>1. deleting # 0 /\ UNCHANGED <<schedVars, intr, pend, endVars>>
      BY <1>8 DEF DeleteSemaWaiter
    <2>2. HostOK'
      BY <2>1 DEF HostOK, IntrOK, PendOK, schedVars, endVars
    <2>3. cpu # "before"
      BY <2>1 DEF HostOK
    <2>4. QED
      BY <2>1, <2>2, <2>3 DEF BestOK, schedVars, endVars
  <1>9. CASE DeleteSemaEnd
    <2>1. /\ deleting # 0 /\ MaybePreempt(ready, state)
          /\ UNCHANGED <<intr, pend, fatal, priority>>
      BY <1>9 DEF DeleteSemaEnd
    <2>2. cpu # "before" /\ deleting' = 0
      BY <1>9, <2>1 DEF HostOK, DeleteSemaEnd
    <2>3. CASE Yield /\ intr = Nobody
      BY <2>1, <2>3, YieldOrder DEF HostOK
    <2>4. CASE /\ Return /\ ready' = ready
               /\ ~ (intr = Nobody /\ cpu = "guest" /\ state[resumed] = "Run"
                     /\ Higher(ready, priority[resumed]))
      <3>1. HostOK'
        BY <2>1, <2>4 DEF Return, schedVars, HostOK, IntrOK, PendOK
      <3>2. cpu = "guest" => state[resumed] = "Run"
        BY ResumedThread DEF Running, current, ReadyInv, Occupied
      <3>3. BestOK'
        BY <2>1, <2>2, <2>4, <3>2 DEF Return, schedVars, BestOK
      <3>4. QED
        BY <3>1, <3>3
    <2>5. QED
      BY <2>1, <2>3, <2>4 DEF MaybePreempt
  <1>10. QED
    BY <1>1, <1>2, <1>3, <1>4, <1>5, <1>6, <1>7, <1>8, <1>9 DEF SchedStep

LEMMA ThreadCallOrder ==
  ASSUME Usual, OrderInv, ThreadCall
  PROVE  HostOK' /\ BestOK'
  <1> USE RunningTypes DEF OrderInv
  <1>1. ASSUME NEW p \in Prio, CreateThread(p) PROVE HostOK' /\ BestOK'
    <2>1. InThread /\ UNCHANGED <<ready, cpu, resumed, intr, fatal>>
      BY <1>1 DEF CreateThread, endVars
    <2>2. PICK t \in Thread : state[t] = "Free" /\ priority' = [priority EXCEPT ![t] = p]
      BY <1>1 DEF CreateThread
    <2>3. priority'[resumed] = priority[resumed]
      BY <2>1, <2>2, UsualThread
    <2>4. QED
      BY <2>1, <2>3, UsualThread, ThreadOrder
  <1>2. ASSUME InThread, UNCHANGED <<ready, cpu, resumed, intr, fatal, priority>>
        PROVE  HostOK' /\ BestOK'
    BY <1>2, ThreadOrderFewer
  <1>3. ASSUME InThread, Yield, UNCHANGED <<intr, fatal>> PROVE HostOK' /\ BestOK'
    BY <1>3, UsualThread, YieldOrder DEF HostOK
  <1>4. ASSUME NEW t \in Thread, DeleteThread(t) PROVE HostOK' /\ BestOK'
    BY <1>2, <1>4 DEF DeleteThread, schedVars, endVars
  <1>5. ASSUME NEW t \in Thread, StartThread(t) PROVE HostOK' /\ BestOK'
    <2> DEFINE st == [state EXCEPT ![t] = "Ready"]
               rq == PushBack(ready, priority[t], t)
    <2>1. /\ InThread /\ state[t] = "Dormant" /\ MaybePreempt(rq, st)
          /\ UNCHANGED <<intr, fatal, priority>>
      BY <1>5 DEF StartThread, endVars
    <2>2. st[resumed] = "Run"
      BY <2>1, UsualThread
    <2> HIDE DEF st, rq
    <2>3. QED
      BY <2>1, <2>2, PreemptOrder
  <1>6. ASSUME NEW del \in BOOLEAN, ExitThread(del) PROVE HostOK' /\ BestOK'
    BY <1>3, <1>6 DEF ExitThread, endVars
  <1>7. CASE RootReturn
    BY <1>3, <1>7 DEF RootReturn, endVars
  <1>8. ASSUME InThread, BlockInInterrupt PROVE HostOK' /\ BestOK'
    BY <1>8, UsualThread DEF BlockInInterrupt
  <1>9. CASE SleepThread
    BY <1>2, <1>3, <1>8, <1>9 DEF SleepThread, Block, runVars, schedVars, endVars
  <1>10. CASE Trap
    BY <1>2, <1>10 DEF Trap, runVars, schedVars, endVars
  <1>11. ASSUME NEW on \in BOOLEAN, SetEie(on) PROVE HostOK' /\ BestOK'
    BY <1>2, <1>11 DEF SetEie, runVars, endVars
  <1>12. ASSUME NEW max, NEW init, CreateSema(init, max) PROVE HostOK' /\ BestOK'
    BY <1>2, <1>12 DEF CreateSema, runVars, schedVars, endVars
  <1>13. ASSUME NEW s \in Sema, WaitSema(s) PROVE HostOK' /\ BestOK'
    BY <1>2, <1>3, <1>8, <1>13 DEF WaitSema, Block, runVars, schedVars, endVars
  <1>14. QED
    BY <1>1, <1>4, <1>5, <1>6, <1>7, <1>9, <1>10, <1>11, <1>12, <1>13 DEF ThreadCall

LEMMA ICallOrder ==
  ASSUME Usual, OrderInv, NEW i \in BOOLEAN, ICall(i)
  PROVE  HostOK' /\ BestOK'
  <1> USE RunningTypes DEF OrderInv
  <1>0. ASSUME Caller(i), ~ i
        PROVE  InThread /\ state[resumed] = "Run" /\ resumed \in Thread /\ current = resumed
    BY <1>0, UsualCaller, UsualThread
  <1>1. ASSUME NEW t \in Thread, TerminateThread(t, i) PROVE HostOK' /\ BestOK'
    <2>1. /\ Caller(i) /\ Tick /\ t # current
          /\ ready' = (IF state[t] = "Ready"
                       THEN [ready EXCEPT ![priority[t]] = Erase(@, t)] ELSE ready)
          /\ intr' = (IF intr = t THEN Lost ELSE intr)
          /\ UNCHANGED <<priority, schedVars, fatal>>
      BY <1>1 DEF TerminateThread, endVars
    <2>2. intr # t
      <3>1. intr = resumed /\ cpu = "guest" => intr = current
        BY DEF current
      <3>2. QED
        BY <2>1, <3>1, IntrIsNotNobody DEF HostOK, IntrOK
    <2>3. \A q \in Prio : ready'[q] # <<>> => ready[q] # <<>>
      BY <2>1, EraseFewer
    <2>4. QED
      BY <2>1, <2>2, <2>3, QuietOrder
  <1>2. ASSUME NEW t \in Thread, Caller(i), Tick, EndCall(i, UnblockReady(t), UnblockState(t)),
               UNCHANGED <<priority, intr, fatal>>
        PROVE  HostOK' /\ BestOK'
    BY <1>0, <1>2, UnblockKeepsRun, EndCallOrder
  <1>3. ASSUME Caller(i), Tick, UNCHANGED <<runVars, schedVars, priority, intr, fatal>>
        PROVE  HostOK' /\ BestOK'
    BY <1>3, QuietOrder DEF runVars
  <1>4. ASSUME NEW t \in Thread, WakeupThread(t, i) PROVE HostOK' /\ BestOK'
    BY <1>2, <1>3, <1>4 DEF WakeupThread, endVars
  <1>5. ASSUME NEW t \in Thread, CancelWakeupThread(t, i) PROVE HostOK' /\ BestOK'
    BY <1>3, <1>5 DEF CancelWakeupThread, endVars
  <1>6. ASSUME NEW t \in Thread, SuspendThread(t, i) PROVE HostOK' /\ BestOK'
    <2>1. CASE SuspendRunning(t)
      <3>1. ~ InHandler
        BY <2>1 DEF SuspendRunning, Usual
      <3>2. InThread
        BY <1>6, <3>1, UsualCaller DEF SuspendThread
      <3>3. Yield /\ UNCHANGED <<intr, fatal>>
        BY <2>1, <3>2, UsualThread DEF SuspendRunning, endVars
      <3>4. QED
        BY <3>2, <3>3, UsualThread, YieldOrder DEF HostOK
    <2>2. CASE /\ Tick /\ UNCHANGED <<priority, schedVars, intr, fatal>>
               /\ ready' = (IF state[t] = "Ready"
                            THEN [ready EXCEPT ![priority[t]] = Erase(@, t)] ELSE ready)
      <3>1. \A q \in Prio : ready'[q] # <<>> => ready[q] # <<>>
        BY <2>2, EraseFewer
      <3>2. QED
        BY <1>6, <2>2, <3>1, QuietOrder DEF SuspendThread
    <2>3. QED
      BY <1>6, <2>1, <2>2 DEF SuspendThread, endVars
  <1>7. ASSUME NEW t \in Thread, ResumeThread(t, i) PROVE HostOK' /\ BestOK'
    <2>0. Caller(i) /\ Tick /\ UNCHANGED <<priority, intr, fatal>>
      BY <1>7 DEF ResumeThread, endVars
    <2>1. CASE /\ state[t] = "Suspend"
               /\ MaybePreempt(PushBack(ready, priority[t], t), [state EXCEPT ![t] = "Ready"])
      <3> DEFINE st == [state EXCEPT ![t] = "Ready"]
                 rq == PushBack(ready, priority[t], t)
      <3>1. MaybePreempt(rq, st) /\ (state[resumed] = "Run" => st[resumed] = "Run")
        BY <2>1
      <3> HIDE DEF st, rq
      <3>2. CASE i
        <4>1. InHandler /\ ~ InThread /\ intr # Nobody
          BY <2>0, <3>2, UsualCaller, UsualHandler
        <4>2. UNCHANGED <<schedVars, pend>>
          BY <2>0, <3>1, <4>1 DEF MaybePreempt, Return, Tick
        <4>3. QED
          BY <2>0, <4>1, <4>2, HandlerOrder
      <3>3. CASE ~ i
        BY <1>0, <2>0, <3>1, <3>3, PreemptOrder
      <3>4. QED
        BY <3>2, <3>3
    <2>2. CASE Return /\ UNCHANGED ready
      BY <2>0, <2>2, QuietOrder DEF Return
    <2>3. QED
      BY <1>7, <2>1, <2>2 DEF ResumeThread
  <1>8. ASSUME NEW t \in Thread, ReleaseWaitThread(t, i) PROVE HostOK' /\ BestOK'
    BY <1>2, <1>8 DEF ReleaseWaitThread, endVars
  <1>9. ASSUME NEW t \in Thread, NEW p \in Prio, ChangeThreadPriority(t, p, i)
        PROVE  HostOK' /\ BestOK'
    <2>0. /\ Caller(i) /\ Tick /\ priority' = [priority EXCEPT ![t] = p]
          /\ UNCHANGED <<intr, fatal>>
      BY <1>9 DEF ChangeThreadPriority, endVars
    <2>1. CASE ~ i /\ Yield
      BY <1>0, <2>0, <2>1, UsualThread, YieldOrder DEF HostOK
    <2>2. CASE (t # current \/ i) /\ \E rq : EndCall(i, rq, state)
      <3>1. PICK rq : EndCall(i, rq, state)
        BY <2>2
      <3>2. ~ i => state[resumed] = "Run" /\ priority'[resumed] = priority[resumed]
        BY <1>0, <2>0, <2>2
      <3>3. QED
        BY <2>0, <3>1, <3>2, EndCallOrder
    <2>3. QED
      BY <1>9, <2>1, <2>2 DEF ChangeThreadPriority
  <1>10. ASSUME NEW p \in Prio, RotateThreadReadyQueue(p, i) PROVE HostOK' /\ BestOK'
    <2>0. Caller(i) /\ Tick /\ UNCHANGED <<priority, intr, fatal>>
      BY <1>10 DEF RotateThreadReadyQueue, endVars
    <2>1. CASE ~ i /\ Yield
      BY <1>0, <2>0, <2>1, UsualThread, YieldOrder DEF HostOK
    <2>2. CASE /\ ready[p] # <<>> /\ Return
               /\ ready' = [ready EXCEPT ![p] = Append(Tail(@), Head(@))]
      <3>1. \A q \in Prio : ready'[q] # <<>> => ready[q] # <<>>
        BY <2>2
      <3>2. QED
        BY <2>0, <2>2, <3>1, QuietOrder DEF Return
    <2>3. QED
      BY <1>10, <2>1, <2>2 DEF RotateThreadReadyQueue
  <1>11. ASSUME NEW s \in Sema, DeleteSema(s, i) PROVE HostOK' /\ BestOK'
    BY <1>3, <1>11 DEF DeleteSema
  <1>12. ASSUME NEW s \in Sema, PollSema(s, i) PROVE HostOK' /\ BestOK'
    BY <1>3, <1>12 DEF PollSema, endVars
  <1>13. ASSUME NEW s \in Sema, SignalSema(s, i) PROVE HostOK' /\ BestOK'
    <2>1. CASE waiters[s] # <<>>
      <3>1. Head(waiters[s]) \in Thread
        BY <2>1, TailMembers DEF ReadyInv, TypeInv, TypeOK
      <3>2. /\ EndCall(i, UnblockReady(Head(waiters[s])), UnblockState(Head(waiters[s])))
            /\ Caller(i) /\ Tick /\ UNCHANGED <<priority, intr, fatal>>
        BY <1>13, <2>1 DEF SignalSema, endVars
      <3>3. QED
        BY <1>2, <3>1, <3>2
    <2>2. CASE waiters[s] = <<>>
      BY <1>3, <1>13, <2>2 DEF SignalSema, endVars
    <2>3. QED
      BY <2>1, <2>2
  <1>14. QED
    BY <1>1, <1>4, <1>5, <1>6, <1>7, <1>8, <1>9, <1>10, <1>11, <1>12, <1>13 DEF ICall

-----------------------------------------------------------------------------
LEMMA OrderStep == Usual /\ OrderInv /\ [Next]_vars => OrderInv'
  <1> SUFFICES ASSUME Usual, OrderInv, [Next]_vars PROVE OrderInv'
    OBVIOUS
  <1>1. ReadyInv'
    BY ReadyStep DEF OrderInv
  <1>2. CASE UNCHANGED vars
    BY <1>1, <1>2 DEF vars, runVars, schedVars, endVars, OrderInv, HostOK, IntrOK, PendOK,
                     DeletingOK, BestOK
  <1>3. CASE Next
    BY <1>1, <1>3, SchedStepOrder, ThreadCallOrder, ICallOrder DEF Next, OrderInv
  <1>4. QED
    BY <1>2, <1>3

LEMMA OrderInvariant == Usual => (Spec => []OrderInv)
  <1> SUFFICES ASSUME Usual PROVE Spec => []OrderInv
    OBVIOUS
  <1>1. Init => OrderInv
    BY InitReady DEF Init, OrderInv, HostOK, IntrOK, PendOK, DeletingOK, BestOK
  <1>2. OrderInv /\ [Next]_vars => OrderInv'
    BY OrderStep
  <1>3. QED
    BY <1>1, <1>2, PTL DEF Spec

\* With a usual guest the scheduler never gives up, and outside a handler the
\* CPU is always with a thread that no ready thread outranks: no call, wakeup
\* or delivery forgets its preemption check (sched.cpp:537-550, :852-1152).
THEOREM NoPriorityInversionCorrect == Usual => (Spec => []NoPriorityInversion)
  <1> SUFFICES ASSUME Usual PROVE Spec => []NoPriorityInversion
    OBVIOUS
  <1>1. OrderInv => NoPriorityInversion
    BY DEF OrderInv, HostOK, BestOK, NoPriorityInversion, Alive
  <1>2. QED
    BY <1>1, OrderInvariant, PTL

-----------------------------------------------------------------------------
(***************************************************************************)
(* The order within a queue.  Every step but a preemption takes each queue *)
(* to one that is Behind it: whoever is newly ahead of another thread was  *)
(* in the queue, and the other went to its end.  A preemption puts the     *)
(* thread it takes the CPU from in front of such a queue.                  *)
(***************************************************************************)

\* What is in order in r was in order in q.
SubOrder(q, r) ==
  /\ \A a, b : Precedes(r, a, b) => Precedes(q, a, b)
  /\ \A a : Contains(r, a) => Contains(q, a)

Behind(q, r) ==
  \A a, b : Precedes(r, b, a) => Precedes(q, b, a) \/ (Last(r) = a /\ Contains(q, b))

LEMMA PrecedesMembers ==
  ASSUME NEW q, NEW a, NEW b, Precedes(q, a, b)
  PROVE  Contains(q, a) /\ Contains(q, b)
  BY DEF Precedes, Contains

LEMMA OrderIsStrict ==
  ASSUME NEW S, NEW q \in Seq(S), IsInjective(q), NEW a, NEW b, Precedes(q, a, b)
  PROVE  ~ Precedes(q, b, a) /\ b # Head(q)
  <1>1. PICK i \in 1..Len(q), j \in 1..Len(q) : i < j /\ q[i] = a /\ q[j] = b
    BY DEF Precedes
  <1>2. \A m, n \in 1..Len(q) : q[m] = q[n] => m = n
    BY DEF IsInjective
  <1>3. ~ Precedes(q, b, a)
    BY <1>1, <1>2 DEF Precedes
  <1>4. Head(q) = q[1] /\ j # 1 /\ 1 \in 1..Len(q)
    BY <1>1
  <1>5. QED
    BY <1>1, <1>2, <1>3, <1>4

LEMMA SubOrderSame == \A q : SubOrder(q, q)
  BY DEF SubOrder

LEMMA SubOrderTail ==
  ASSUME NEW S, NEW q \in Seq(S), q # <<>>
  PROVE  SubOrder(q, Tail(q))
  <1> DEFINE r == Tail(q)
  <1>1. Len(r) = Len(q) - 1 /\ r \in Seq(S) /\ \A i \in 1..Len(r) : r[i] = q[i + 1]
    OBVIOUS
  <1> HIDE DEF r
  <1>2. ASSUME NEW a, NEW b, Precedes(r, a, b) PROVE Precedes(q, a, b)
    <2>1. PICK i \in 1..Len(r), j \in 1..Len(r) : i < j /\ r[i] = a /\ r[j] = b
      BY <1>1, <1>2 DEF Precedes
    <2>2. /\ i + 1 \in 1..Len(q) /\ j + 1 \in 1..Len(q) /\ i + 1 < j + 1
          /\ q[i + 1] = a /\ q[j + 1] = b
      BY <1>1, <2>1
    <2>3. QED
      BY <2>2 DEF Precedes
  <1>3. ASSUME NEW a, Contains(r, a) PROVE Contains(q, a)
    BY <1>1, <1>3 DEF Contains
  <1>4. QED
    BY <1>2, <1>3 DEF SubOrder, r

LEMMA SubOrderErase ==
  ASSUME NEW S, NEW q \in Seq(S), NEW t
  PROVE  SubOrder(q, Erase(q, t))
  <1> DEFINE r == Erase(q, t)
  <1>1. CASE ~ Contains(q, t)
    BY <1>1 DEF Erase, SubOrder
  <1>2. CASE Contains(q, t)
    <2>1. r \in Seq(S) /\ Len(r) = Len(q) - 1
      BY <1>2, EraseShift
    <2>2. PICK k \in 1..Len(q) :
            \A i \in 1..Len(r) : r[i] = IF i < k THEN q[i] ELSE q[i + 1]
      BY <1>2, EraseShift
    <2> HIDE DEF r
    <2> DEFINE f(i) == IF i < k THEN i ELSE i + 1
    <2>3. ASSUME NEW i \in 1..Len(r) PROVE f(i) \in 1..Len(q) /\ r[i] = q[f(i)]
      BY <2>1, <2>2
    <2>4. ASSUME NEW i \in 1..Len(r), NEW j \in 1..Len(r), i < j PROVE f(i) < f(j)
      BY <2>1, <2>2, <2>4
    <2> HIDE DEF f
    <2>5. ASSUME NEW a, NEW b, Precedes(r, a, b) PROVE Precedes(q, a, b)
      <3>1. PICK i \in 1..Len(r), j \in 1..Len(r) : i < j /\ r[i] = a /\ r[j] = b
        BY <2>1, <2>5 DEF Precedes
      <3>2. /\ f(i) \in DOMAIN q /\ f(j) \in DOMAIN q /\ f(i) < f(j)
            /\ q[f(i)] = a /\ q[f(j)] = b
        BY <2>3, <2>4, <3>1
      <3>3. QED
        BY <3>2 DEF Precedes
    <2>6. ASSUME NEW a, Contains(r, a) PROVE Contains(q, a)
      <3>1. PICK i \in 1..Len(r) : r[i] = a
        BY <2>1, <2>6 DEF Contains
      <3>2. f(i) \in DOMAIN q /\ q[f(i)] = a
        BY <2>3, <3>1
      <3>3. QED
        BY <3>2 DEF Contains
    <2>7. QED
      BY <2>5, <2>6 DEF SubOrder, r
  <1>3. QED
    BY <1>1, <1>2

LEMMA SubOrderIsBehind ==
  ASSUME NEW q, NEW r, SubOrder(q, r)
  PROVE  Behind(q, r)
  BY DEF SubOrder, Behind

\* Joining, or going to, the end of the queue.
LEMMA BehindAppend ==
  ASSUME NEW S, NEW q, NEW r \in Seq(S), SubOrder(q, r), NEW t \in S
  PROVE  Behind(q, Append(r, t))
  <1> DEFINE x == Append(r, t)
  <1>1. /\ x \in Seq(S) /\ Len(x) = Len(r) + 1 /\ x[Len(x)] = t
        /\ \A i \in 1..Len(r) : x[i] = r[i]
    OBVIOUS
  <1> HIDE DEF x
  <1>2. ASSUME NEW a, NEW b, Precedes(x, b, a)
        PROVE  Precedes(q, b, a) \/ (Last(x) = a /\ Contains(q, b))
    <2>1. PICK i \in 1..Len(x), j \in 1..Len(x) : i < j /\ x[i] = b /\ x[j] = a
      BY <1>1, <1>2 DEF Precedes
    <2>2. i \in 1..Len(r) /\ r[i] = b
      BY <1>1, <2>1
    <2>3. CASE j = Len(x)
      <3>1. Contains(r, b)
        BY <2>2 DEF Contains
      <3>2. QED
        BY <2>1, <2>3, <3>1 DEF Last, SubOrder
    <2>4. CASE j # Len(x)
      <3>1. j \in 1..Len(r) /\ r[j] = a
        BY <1>1, <2>1, <2>4
      <3>2. Precedes(r, b, a)
        BY <2>1, <2>2, <3>1 DEF Precedes
      <3>3. QED
        BY <3>2 DEF SubOrder
    <2>5. QED
      BY <2>3, <2>4
  <1>3. QED
    BY <1>2 DEF Behind, x

\* Being put in front.
LEMMA PrecedesInFront ==
  ASSUME NEW S, NEW r \in Seq(S), NEW t \in S, NEW a, NEW b, Precedes(<<t>> \o r, b, a)
  PROVE  /\ b = t \/ Precedes(r, b, a)
         /\ Last(<<t>> \o r) = Last(r)
         /\ Contains(r, a)
  <1> DEFINE x == <<t>> \o r
  <1>1. x \in Seq(S) /\ Len(x) = Len(r) + 1 /\ x[1] = t /\ \A i \in 2..Len(x) : x[i] = r[i - 1]
    OBVIOUS
  <1>2. Precedes(x, b, a)
    OBVIOUS
  <1> HIDE DEF x
  <1>3. PICK i \in 1..Len(x), j \in 1..Len(x) : i < j /\ x[i] = b /\ x[j] = a
    BY <1>1, <1>2 DEF Precedes
  <1>4. j - 1 \in 1..Len(r) /\ r[j - 1] = a /\ x[Len(x)] = r[Len(r)]
    BY <1>1, <1>3
  <1>5. CASE i = 1
    BY <1>1, <1>3, <1>4, <1>5 DEF Contains, Last, x
  <1>6. CASE i # 1
    <2>1. i - 1 \in 1..Len(r) /\ r[i - 1] = b /\ i - 1 < j - 1
      BY <1>1, <1>3, <1>6
    <2>2. Precedes(r, b, a)
      BY <1>4, <2>1 DEF Precedes
    <2>3. QED
      BY <1>4, <2>2 DEF Contains, Last, x
  <1>7. QED
    BY <1>5, <1>6

-----------------------------------------------------------------------------
(* What a step does to the ready queues *)

QueueType == [Prio -> Seq(Thread)]

\* The queues rq are those of before, each Behind itself.
AllBehind(rq) == rq \in QueueType /\ \A p \in Prio : Behind(ready[p], rq[p])

\* A running thread queued without a preemption is not outranked.
Requeues(rq) ==
  /\ ready' = rq
  /\ \A t \in Thread : state[t] = "Run" /\ state'[t] = "Ready" /\ priority' = priority
                         => ~ Higher(rq, priority[t])
Preempts(rq) ==
  /\ resumed \in Thread /\ state[resumed] = "Run" /\ Higher(rq, priority[resumed])
  /\ ready' = PushFront(rq, priority[resumed], resumed)

QueueMove == \E rq : AllBehind(rq) /\ (Requeues(rq) \/ Preempts(rq))

\* Only the first of a queue is put on the CPU.
RunsHead ==
  \A t \in Thread : state'[t] = "Run" =>
    state[t] = "Run" \/ \E p \in Prio : ready[p] # <<>> /\ t = Head(ready[p])

FifoMove == QueueMove /\ RunsHead

LEMMA ReadyBehind == ReadyInv => AllBehind(ready)
  BY SubOrderSame, SubOrderIsBehind, RunningTypes DEF AllBehind, QueueType

LEMMA EraseBehind ==
  ASSUME ReadyInv, NEW p \in Prio, NEW t \in Thread
  PROVE  /\ [ready EXCEPT ![p] = Erase(@, t)] \in QueueType
         /\ \A q \in Prio : SubOrder(ready[q], [ready EXCEPT ![p] = Erase(@, t)][q])
  <1>1. ready \in QueueType
    BY RunningTypes DEF QueueType
  <1>2. SubOrder(ready[p], Erase(ready[p], t))
    BY <1>1, SubOrderErase DEF QueueType
  <1>3. QED
    BY <1>1, <1>2, SubOrderSame, EraseType DEF QueueType

LEMMA PushBackBehind ==
  ASSUME ReadyInv, NEW rq \in QueueType, \A q \in Prio : SubOrder(ready[q], rq[q]),
         NEW p \in Prio, NEW t \in Thread
  PROVE  AllBehind(PushBack(rq, p, t))
  <1>1. Behind(ready[p], Append(rq[p], t))
    BY BehindAppend DEF QueueType
  <1>2. \A q \in Prio : q # p => Behind(ready[q], rq[q])
    BY SubOrderIsBehind
  <1>3. PushBack(rq, p, t) \in QueueType
    BY PushBackType DEF ReadyInv, QueueType
  <1> DEFINE x == Append(rq[p], t)
  <1>4. PushBack(rq, p, t) = [rq EXCEPT ![p] = x]
    BY DEF PushBack
  <1> HIDE DEF x
  <1>5. \A q \in Prio : Behind(ready[q], [rq EXCEPT ![p] = x][q])
    BY <1>1, <1>2 DEF x, QueueType
  <1>6. QED
    BY <1>3, <1>4, <1>5 DEF AllBehind

LEMMA UnblockBehind ==
  ASSUME ReadyInv, NEW t \in Thread
  PROVE  AllBehind(UnblockReady(t))
  <1>1. ready \in QueueType /\ priority[t] \in Prio
    BY RunningTypes DEF QueueType
  <1>2. AllBehind(PushBack(ready, priority[t], t))
    BY <1>1, SubOrderSame, PushBackBehind
  <1>3. QED
    BY <1>2, ReadyBehind DEF UnblockReady

\* The states st have the same thread running.
SameRun(st) == \A t \in Thread : st[t] = "Run" <=> state[t] = "Run"

LEMMA QuietFifo ==
  ASSUME ReadyInv, NEW rq, AllBehind(rq), ready' = rq,
         \A t \in Thread : state[t] = "Run" => state'[t] # "Ready",
         \A t \in Thread : state'[t] = "Run" => state[t] = "Run"
  PROVE  FifoMove
  BY DEF FifoMove, QueueMove, Requeues, RunsHead

LEMMA PreemptFifo ==
  ASSUME ReadyInv, NEW rq, AllBehind(rq), NEW st \in [Thread -> TState], SameRun(st),
         MaybePreempt(rq, st)
  PROVE  FifoMove
  <1>1. CASE ready' = rq /\ state' = st
    BY <1>1, QuietFifo DEF SameRun
  <1>2. CASE /\ cpu = "guest" /\ st[resumed] = "Run" /\ Higher(rq, priority[resumed])
             /\ ready' = PushFront(rq, priority[resumed], resumed)
             /\ state' = [st EXCEPT ![resumed] = "Ready"]
    <2>1. resumed \in Thread
      BY <1>2, ResumedThread DEF Occupied, ReadyInv
    <2>2. Preempts(rq)
      BY <1>2, <2>1 DEF Preempts, SameRun
    <2>3. RunsHead
      BY <1>2, <2>1 DEF RunsHead, SameRun
    <2>4. QED
      BY <2>2, <2>3 DEF FifoMove, QueueMove
  <1>3. QED
    BY <1>1, <1>2 DEF MaybePreempt

LEMMA EndCallFifo ==
  ASSUME ReadyInv, NEW i, NEW rq, AllBehind(rq), NEW st \in [Thread -> TState], SameRun(st),
         EndCall(i, rq, st)
  PROVE  FifoMove
  <1>1. CASE i
    BY <1>1, QuietFifo DEF EndCall, SameRun
  <1>2. CASE ~ i
    BY <1>2, PreemptFifo DEF EndCall
  <1>3. QED
    BY <1>1, <1>2

LEMMA UnblockRuns ==
  ASSUME ReadyInv, NEW t \in Thread
  PROVE  UnblockState(t) \in [Thread -> TState] /\ SameRun(UnblockState(t))
  <1>1. UnblockState(t) \in [Thread -> TState]
    BY UnblockQueues
  <1>2. QED
    BY <1>1, RunningTypes DEF UnblockState, SameRun

\* The running thread goes to the tail of its queue by itself.
LEMMA GiveUpFifo ==
  ASSUME Usual, OrderInv, InThread, NEW p \in Prio,
         ready' = PushBack(ready, p, resumed), state' = [state EXCEPT ![resumed] = "Ready"],
         priority' = priority => p = priority[resumed]
  PROVE  FifoMove
  <1>0. /\ ready \in QueueType /\ resumed \in Thread /\ state \in [Thread -> TState]
        /\ current = resumed /\ ReadyInv
    BY UsualThread, RunningTypes DEF QueueType, OrderInv
  <1>1. AllBehind(PushBack(ready, p, resumed))
    BY <1>0, SubOrderSame, PushBackBehind
  <1>2. ASSUME priority' = priority PROVE ~ Higher(ready', priority[resumed])
    BY <1>0, <1>2, UsualThread DEF Higher, PushBack, QueueType, Prio
  <1>3. \A t \in Thread : state[t] = "Run" => t = resumed
    BY <1>0, RunningTypes DEF Running
  <1>4. Requeues(PushBack(ready, p, resumed))
    BY <1>2, <1>3 DEF Requeues
  <1>5. RunsHead
    BY <1>0 DEF RunsHead
  <1>6. QED
    BY <1>1, <1>4, <1>5 DEF FifoMove, QueueMove

-----------------------------------------------------------------------------
LEMMA SchedStepFifo ==
  ASSUME OrderInv, SchedStep
  PROVE  FifoMove
  <1> USE RunningTypes DEF OrderInv
  <1>0. ready \in QueueType
    BY DEF QueueType
  <1>1. ASSUME NEW p \in Prio, Dispatch(p) PROVE FifoMove
    <2>1. /\ resumed' = Head(ready[p]) /\ ready[p] # <<>>
          /\ ready' = [ready EXCEPT ![p] = Tail(@)]
          /\ state' = [state EXCEPT ![resumed'] = "Run"]
      BY <1>1 DEF Dispatch, IsBest
    <2>2. resumed' \in Thread /\ Tail(ready[p]) \in Seq(Thread)
      BY <2>1, TailMembers
    <2>3. \A q \in Prio : SubOrder(ready[q], ready'[q])
      BY <2>1, <1>0, SubOrderTail, SubOrderSame DEF QueueType
    <2>4. AllBehind(ready')
      BY <1>0, <2>1, <2>2, <2>3, SubOrderIsBehind DEF AllBehind, QueueType
    <2>5. Requeues(ready')
      BY <2>1, <2>2 DEF Requeues
    <2>6. RunsHead
      BY <2>1, <2>2 DEF RunsHead
    <2>7. QED
      BY <2>4, <2>5, <2>6 DEF FifoMove, QueueMove
  <1>2. ASSUME UNCHANGED runVars PROVE FifoMove
    BY <1>2, ReadyBehind, QuietFifo DEF runVars
  <1>3. CASE Resume
    BY <1>2, <1>3 DEF Resume
  <1>4. CASE Reap
    <2>1. resumed \in Thread
      BY <1>4, ResumedThread DEF Reap, ReadyInv, Occupied
    <2>2. CASE UNCHANGED runVars
      BY <1>2, <2>2
    <2>3. CASE /\ state[resumed] = "Dormant" /\ UNCHANGED ready
               /\ state' = [state EXCEPT ![resumed] =
                              IF pending_delete[resumed] THEN "Free" ELSE "Dormant"]
      BY <2>1, <2>3, ReadyBehind, QuietFifo
    <2>4. QED
      BY <1>4, <2>2, <2>3 DEF Reap, Fatal, runVars
  <1>5. CASE Idle \/ IdleOver \/ EnterInterrupt
    BY <1>2, <1>5 DEF Idle, IdleOver, EnterInterrupt
  <1>6. CASE LeaveInterrupt
    <2>1. CASE /\ cpu = "guest" /\ state[resumed] = "Run" /\ Higher(ready, priority[resumed])
               /\ ready' = PushFront(ready, priority[resumed], resumed)
               /\ state' = [state EXCEPT ![resumed] = "Ready"]
      <3>1. resumed \in Thread
        BY <2>1, ResumedThread DEF Occupied, ReadyInv
      <3>2. Preempts(ready)
        BY <2>1, <3>1 DEF Preempts
      <3>3. RunsHead
        BY <2>1, <3>1 DEF RunsHead
      <3>4. QED
        BY <3>2, <3>3, ReadyBehind DEF FifoMove, QueueMove
    <2>2. QED
      BY <1>2, <1>6, <2>1 DEF LeaveInterrupt
  <1>7. CASE DeleteSemaWaiter
    <2>1. Head(waiters[deleting]) \in Thread
      <3>1. waiters[deleting] \in Seq(Thread) /\ waiters[deleting] # <<>>
        BY <1>7 DEF DeleteSemaWaiter, ReadyInv, TypeInv, TypeOK
      <3>2. QED
        BY <3>1, TailMembers
    <2>2. /\ state' = UnblockState(Head(waiters[deleting]))
          /\ ready' = UnblockReady(Head(waiters[deleting]))
      BY <1>7 DEF DeleteSemaWaiter
    <2>3. QED
      BY <2>1, <2>2, UnblockRuns, UnblockBehind, QuietFifo DEF SameRun
  <1>8. CASE DeleteSemaEnd
    BY <1>8, ReadyBehind, PreemptFifo DEF DeleteSemaEnd, SameRun
  <1>9. QED
    BY <1>1, <1>3, <1>4, <1>5, <1>6, <1>7, <1>8 DEF SchedStep

LEMMA ThreadCallFifo ==
  ASSUME Usual, OrderInv, ThreadCall
  PROVE  FifoMove
  <1> USE RunningTypes DEF OrderInv
  <1>0. ready \in QueueType
    BY DEF QueueType
  <1>1. ASSUME UNCHANGED runVars PROVE FifoMove
    BY <1>1, ReadyBehind, QuietFifo DEF runVars
  <1>2. ASSUME NEW t \in Thread, NEW v, v \notin {"Ready", "Run"}, UNCHANGED ready,
               state' = [state EXCEPT ![t] = v]
        PROVE  FifoMove
    BY <1>2, ReadyBehind, QuietFifo
  <1>3. ASSUME NEW p \in Prio, CreateThread(p) PROVE FifoMove
    <2>1. PICK t \in Thread : state' = [state EXCEPT ![t] = "Dormant"]
      BY <1>3 DEF CreateThread
    <2>2. QED
      BY <1>2, <1>3, <2>1 DEF CreateThread
  <1>4. ASSUME NEW t \in Thread, DeleteThread(t) PROVE FifoMove
    BY <1>2, <1>4 DEF DeleteThread
  <1>5. ASSUME NEW t \in Thread, StartThread(t) PROVE FifoMove
    <2> DEFINE st == [state EXCEPT ![t] = "Ready"]
               rq == PushBack(ready, priority[t], t)
    <2>1. MaybePreempt(rq, st) /\ state[t] = "Dormant"
      BY <1>5 DEF StartThread
    <2>2. st \in [Thread -> TState] /\ SameRun(st)
      BY <2>1 DEF TState, SameRun
    <2>3. AllBehind(rq)
      BY <1>0, SubOrderSame, PushBackBehind
    <2> HIDE DEF st, rq
    <2>4. QED
      BY <2>1, <2>2, <2>3, PreemptFifo
  <1>6. ASSUME NEW del \in BOOLEAN, ExitThread(del) \/ RootReturn PROVE FifoMove
    <2>1. /\ InThread /\ UNCHANGED ready /\ state' = [state EXCEPT ![resumed] = "Dormant"]
      BY <1>6 DEF ExitThread, RootReturn
    <2>2. QED
      BY <1>2, <2>1, UsualThread
  <1>7. ASSUME InThread, NEW k, Block(k), UNCHANGED ready PROVE FifoMove
    BY <1>2, <1>7, UsualThread DEF Block
  <1>8. ASSUME BlockInInterrupt PROVE FifoMove
    BY <1>1, <1>8 DEF BlockInInterrupt, Fatal
  <1>9. CASE SleepThread
    BY <1>1, <1>7, <1>8, <1>9 DEF SleepThread
  <1>10. ASSUME Trap \/ \E on \in BOOLEAN : SetEie(on) PROVE FifoMove
    BY <1>1, <1>10 DEF Trap, SetEie
  <1>11. ASSUME NEW max, NEW init, CreateSema(init, max) PROVE FifoMove
    BY <1>1, <1>11 DEF CreateSema
  <1>12. ASSUME NEW s \in Sema, WaitSema(s) PROVE FifoMove
    BY <1>1, <1>7, <1>8, <1>12 DEF WaitSema
  <1>13. QED
    BY <1>3, <1>4, <1>5, <1>6, <1>9, <1>10, <1>11, <1>12 DEF ThreadCall

LEMMA ICallFifo ==
  ASSUME Usual, OrderInv, NEW i \in BOOLEAN, ICall(i)
  PROVE  FifoMove
  <1> USE RunningTypes DEF OrderInv
  <1>0. ready \in QueueType
    BY DEF QueueType
  <1>1. ASSUME UNCHANGED runVars PROVE FifoMove
    BY <1>1, ReadyBehind, QuietFifo DEF runVars
  <1>2. ASSUME NEW t \in Thread, NEW v, v \notin {"Ready", "Run"},
               state' = [state EXCEPT ![t] = v],
               ready' = (IF state[t] = "Ready"
                         THEN [ready EXCEPT ![priority[t]] = Erase(@, t)] ELSE ready)
        PROVE  FifoMove
    <2> DEFINE rq == [ready EXCEPT ![priority[t]] = Erase(@, t)]
    <2>1. priority[t] \in Prio
      OBVIOUS
    <2>2. rq \in QueueType /\ \A q \in Prio : SubOrder(ready[q], rq[q])
      BY <2>1, EraseBehind
    <2> HIDE DEF rq
    <2>3. AllBehind(rq)
      BY <2>2, SubOrderIsBehind DEF AllBehind
    <2>4. ready' = rq \/ ready' = ready
      BY <1>2 DEF rq
    <2>5. QED
      BY <1>2, <2>3, <2>4, ReadyBehind, QuietFifo
  <1>3. ASSUME NEW t \in Thread, EndCall(i, UnblockReady(t), UnblockState(t)) PROVE FifoMove
    BY <1>3, UnblockRuns, UnblockBehind, EndCallFifo
  <1>4. ASSUME NEW t \in Thread, TerminateThread(t, i) PROVE FifoMove
    BY <1>2, <1>4 DEF TerminateThread
  <1>5. ASSUME NEW t \in Thread, WakeupThread(t, i) PROVE FifoMove
    BY <1>1, <1>3, <1>5 DEF WakeupThread
  <1>6. ASSUME NEW t \in Thread, CancelWakeupThread(t, i) PROVE FifoMove
    BY <1>1, <1>6 DEF CancelWakeupThread
  <1>7. ASSUME NEW t \in Thread, SuspendThread(t, i) PROVE FifoMove
    <2>1. CASE SuspendRunning(t)
      <3>1. CASE /\ state[t] = "Run" /\ UNCHANGED ready
                 /\ state' = [state EXCEPT ![t] = "Suspend"]
        BY <1>2, <3>1
      <3>2. QED
        BY <1>1, <2>1, <3>1 DEF SuspendRunning, Fatal
    <2>2. CASE /\ state' = [state EXCEPT ![t] = IF @ = "Ready" THEN "Suspend" ELSE "WaitSuspend"]
               /\ ready' = (IF state[t] = "Ready"
                            THEN [ready EXCEPT ![priority[t]] = Erase(@, t)] ELSE ready)
      <3> DEFINE v == IF state[t] = "Ready" THEN "Suspend" ELSE "WaitSuspend"
      <3>1. state' = [state EXCEPT ![t] = v] /\ v \notin {"Ready", "Run"}
        BY <2>2
      <3> HIDE DEF v
      <3>2. QED
        BY <1>2, <2>2, <3>1
    <2>3. QED
      BY <1>7, <2>1, <2>2 DEF SuspendThread
  <1>8. ASSUME NEW t \in Thread, ResumeThread(t, i) PROVE FifoMove
    <2>1. CASE /\ state[t] = "Suspend"
               /\ MaybePreempt(PushBack(ready, priority[t], t), [state EXCEPT ![t] = "Ready"])
      <3> DEFINE st == [state EXCEPT ![t] = "Ready"]
                 rq == PushBack(ready, priority[t], t)
      <3>1. st \in [Thread -> TState] /\ SameRun(st) /\ MaybePreempt(rq, st)
        BY <2>1 DEF TState, SameRun
      <3>2. AllBehind(rq)
        BY <1>0, SubOrderSame, PushBackBehind
      <3> HIDE DEF st, rq
      <3>3. QED
        BY <3>1, <3>2, PreemptFifo
    <2>2. CASE state' = [state EXCEPT ![t] = "Wait"] /\ state[t] = "WaitSuspend" /\ UNCHANGED ready
      BY <1>2, <2>2
    <2>3. QED
      BY <1>8, <2>1, <2>2 DEF ResumeThread
  <1>9. ASSUME NEW t \in Thread, ReleaseWaitThread(t, i) PROVE FifoMove
    BY <1>3, <1>9 DEF ReleaseWaitThread
  <1>10. ASSUME NEW t \in Thread, NEW p \in Prio, ChangeThreadPriority(t, p, i) PROVE FifoMove
    <2>0. Caller(i) /\ priority' = [priority EXCEPT ![t] = p]
      BY <1>10 DEF ChangeThreadPriority
    <2>1. CASE /\ t = current /\ ~ i /\ ready' = PushBack(ready, p, t)
               /\ state' = [state EXCEPT ![t] = "Ready"]
      <3>1. InThread /\ t = resumed
        BY <2>0, <2>1, UsualCaller, UsualThread
      <3>2. priority' = priority => p = priority[t]
        BY <2>0
      <3>3. QED
        BY <2>1, <3>1, <3>2, GiveUpFifo
    <2> DEFINE moved == PushBack([ready EXCEPT ![priority[t]] = Erase(@, t)], p, t)
               rq == IF state[t] = "Ready" THEN moved ELSE ready
    <2>2. AllBehind(moved)
      BY EraseBehind, PushBackBehind
    <2> HIDE DEF moved
    <2>3. AllBehind(rq) /\ SameRun(state)
      BY <2>2, ReadyBehind DEF SameRun
    <2>4. ~ (t = current /\ ~ i) => EndCall(i, rq, state)
      BY <1>10 DEF ChangeThreadPriority, moved
    <2> HIDE DEF rq
    <2>5. CASE ~ (t = current /\ ~ i)
      BY <2>3, <2>4, <2>5, EndCallFifo
    <2>6. QED
      BY <1>10, <2>1, <2>5 DEF ChangeThreadPriority
  <1>11. ASSUME NEW p \in Prio, RotateThreadReadyQueue(p, i) PROVE FifoMove
    <2>1. CASE /\ ~ i /\ priority[resumed] = p /\ ready' = PushBack(ready, p, resumed)
               /\ state' = [state EXCEPT ![resumed] = "Ready"]
      <3>1. InThread
        BY <1>11, <2>1, UsualCaller DEF RotateThreadReadyQueue
      <3>2. QED
        BY <2>1, <3>1, GiveUpFifo
    <2>2. CASE /\ ready[p] # <<>> /\ UNCHANGED state
               /\ ready' = [ready EXCEPT ![p] = Append(Tail(@), Head(@))]
      <3> DEFINE x == Append(Tail(ready[p]), Head(ready[p]))
      <3>1. Head(ready[p]) \in Thread /\ Tail(ready[p]) \in Seq(Thread)
        BY <2>2, TailMembers
      <3>2. Behind(ready[p], x) /\ x \in Seq(Thread)
        BY <1>0, <2>2, <3>1, SubOrderTail, BehindAppend, AppendMembers DEF QueueType
      <3>3. ready' = [ready EXCEPT ![p] = x]
        BY <2>2
      <3> HIDE DEF x
      <3>4. AllBehind(ready')
        BY <1>0, <3>2, <3>3, ReadyBehind DEF AllBehind, QueueType
      <3>5. QED
        BY <2>2, <3>4, QuietFifo
    <2>3. QED
      BY <1>11, <2>1, <2>2 DEF RotateThreadReadyQueue
  <1>12. ASSUME NEW s \in Sema, DeleteSema(s, i) \/ PollSema(s, i) PROVE FifoMove
    BY <1>1, <1>12 DEF DeleteSema, PollSema
  <1>13. ASSUME NEW s \in Sema, SignalSema(s, i) PROVE FifoMove
    <2>1. CASE waiters[s] # <<>>
      <3>1. Head(waiters[s]) \in Thread
        BY <2>1, TailMembers DEF ReadyInv, TypeInv, TypeOK
      <3>2. EndCall(i, UnblockReady(Head(waiters[s])), UnblockState(Head(waiters[s])))
        BY <1>13, <2>1 DEF SignalSema
      <3>3. QED
        BY <1>3, <3>1, <3>2
    <2>2. QED
      BY <1>1, <1>13, <2>1 DEF SignalSema
  <1>14. QED
    BY <1>4, <1>5, <1>6, <1>7, <1>8, <1>9, <1>10, <1>11, <1>12, <1>13 DEF ICall

-----------------------------------------------------------------------------
\* So every move keeps the order and the turn.
LEMMA MoveKeepsOrder ==
  ASSUME ReadyInv, FifoMove
  PROVE  KeepsOrder
  <1> USE RunningTypes
  <1> SUFFICES ASSUME NEW p \in Prio, NEW a \in Thread, NEW b \in Thread
               PROVE  /\ Precedes(ready[p], a, b) =>
                           /\ state'[b] # "Run"
                           /\ Precedes(ready'[p], b, a) => Last(ready'[p]) = a
                      /\ /\ Contains(ready[p], a) /\ ~ Contains(ready[p], b)
                         /\ Precedes(ready'[p], b, a)
                         => state[b] = "Run" /\ Higher(ready', p)
    BY DEF KeepsOrder
  <1>1. ready[p] \in Seq(Thread) /\ IsInjective(ready[p])
    BY DEF Queued
  <1>2. ASSUME Precedes(ready[p], a, b) PROVE state'[b] # "Run"
    <2>1. state[b] = "Ready" /\ priority[b] = p
      BY <1>2, PrecedesMembers DEF Queued
    <2>2. b # Head(ready[p])
      BY <1>1, <1>2, OrderIsStrict
    <2>3. ASSUME NEW q \in Prio, q # p, ready[q] # <<>> PROVE b # Head(ready[q])
      <3>1. Contains(ready[q], Head(ready[q]))
        BY <2>3, TailMembers
      <3>2. QED
        BY <2>1, <2>3, <3>1 DEF Queued
    <2>4. QED
      BY <2>1, <2>2, <2>3 DEF FifoMove, RunsHead
  <1>3. PICK rq : AllBehind(rq) /\ (Requeues(rq) \/ Preempts(rq))
    BY DEF FifoMove, QueueMove
  <1>4. rq[p] \in Seq(Thread) /\ Behind(ready[p], rq[p]) /\ rq \in QueueType
    BY <1>3 DEF AllBehind, QueueType
  <1>5. ASSUME Precedes(rq[p], b, a)
        PROVE  /\ Precedes(ready[p], a, b) => Last(rq[p]) = a
               /\ Contains(ready[p], b)
    BY <1>1, <1>4, <1>5, OrderIsStrict, PrecedesMembers DEF Behind
  <1>6. CASE ready'[p] = rq[p]
    BY <1>2, <1>5, <1>6
  <1>7. CASE /\ state[resumed] = "Run" /\ resumed \in Thread
             /\ p = priority[resumed] /\ ready'[p] = <<resumed>> \o rq[p]
             /\ Higher(ready', p)
    <2>1. ~ Contains(ready[p], resumed)
      BY <1>7 DEF Queued
    <2>2. ASSUME Precedes(ready'[p], b, a)
          PROVE  (b = resumed \/ Precedes(rq[p], b, a)) /\ Last(ready'[p]) = Last(rq[p])
      BY <1>4, <1>7, <2>2, PrecedesInFront
    <2>3. QED
      BY <1>2, <1>5, <1>7, <2>1, <2>2, PrecedesMembers
  <1>8. ASSUME Preempts(rq), p = priority[resumed]
        PROVE  ready'[p] = <<resumed>> \o rq[p] /\ Higher(ready', p)
    BY <1>4, <1>8 DEF Preempts, PushFront, Higher, QueueType, Prio
  <1>9. ASSUME Preempts(rq), p # priority[resumed] PROVE ready'[p] = rq[p]
    BY <1>4, <1>9 DEF Preempts, PushFront, QueueType
  <1>10. QED
    BY <1>3, <1>6, <1>7, <1>8, <1>9 DEF Requeues, Preempts

LEMMA MoveKeepsTurn ==
  ASSUME ReadyInv, FifoMove
  PROVE  KeepsTurn
  <1> USE RunningTypes
  <1> SUFFICES ASSUME NEW t \in Thread, state[t] = "Run", state'[t] = "Ready",
                      priority' = priority, Higher(ready', priority[t])
               PROVE  Head(ready'[priority[t]]) = t
    BY DEF KeepsTurn
  <1>1. PICK rq : AllBehind(rq) /\ (Requeues(rq) \/ Preempts(rq))
    BY DEF FifoMove, QueueMove
  <1>2. Preempts(rq)
    BY <1>1 DEF Requeues
  <1>3. t = resumed
    BY <1>2 DEF Preempts, Running
  <1>4. ready'[priority[t]] = <<t>> \o rq[priority[t]] /\ rq[priority[t]] \in Seq(Thread)
    BY <1>1, <1>2, <1>3 DEF Preempts, PushFront, AllBehind, QueueType
  <1>5. QED
    BY <1>4

\* With a usual guest the threads of a priority run first come first served: a
\* queued thread is overtaken only by going to the tail itself, a preempted
\* one keeps its turn (sched.cpp:11, :192-215, :537-550).
THEOREM FifoWithinPriorityCorrect == Usual => (Spec => FifoWithinPriority)
  <1> SUFFICES ASSUME Usual PROVE Spec => FifoWithinPriority
    OBVIOUS
  <1>1. OrderInv /\ Next => KeepsOrder /\ KeepsTurn
    <2>1. OrderInv /\ Next => FifoMove
      BY SchedStepFifo, ThreadCallFifo, ICallFifo DEF Next
    <2>2. QED
      BY <2>1, MoveKeepsOrder, MoveKeepsTurn DEF OrderInv
  <1>2. OrderInv /\ [Next]_vars => [KeepsOrder /\ KeepsTurn]_vars
    BY <1>1
  <1>3. QED
    BY <1>2, OrderInvariant, PTL DEF Spec, FifoWithinPriority

=============================================================================

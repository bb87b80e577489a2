----------------------------- MODULE CdvdProofs -----------------------------
(***************************************************************************)
(* Theorems about SifRpc and about Cdvd, whose calls are calls of SifRpc,  *)
(* for every number of clients, every ring and all times: every request    *)
(* that is waited for has exactly one completion on its way and sees it no *)
(* earlier than its service is done, with this service behind the layer or *)
(* with any; the ready poll agrees with the completions; and the ring that *)
(* is computed at each look is the ring a drive fills sector by sector     *)
(* (SectorRing).                                                           *)
(*                                                                         *)
(* The lemmas about SifRpc take the hold of a call as any number, so that  *)
(* the proofs about Cdvd can use them. Spec is SifRpc's, CdSpec is Cdvd's. *)
(***************************************************************************)
EXTENDS Cdvd, FiniteSetTheorems, SequenceTheorems, WellFoundedInduction, TLAPS

USE DEF Client, Sreg, Empty

-----------------------------------------------------------------------------
(* The delivery queue *)

\* What RemoveAt does: the deliveries behind the one that is gone move up.
LEMMA RemoveAtMembers ==
  ASSUME NEW S, NEW q \in Seq(S), NEW i \in 1..Len(q)
  PROVE  /\ RemoveAt(q, i) \in Seq(S)
         /\ Len(RemoveAt(q, i)) = Len(q) - 1
         /\ \A j \in 1..Len(q) - 1 : RemoveAt(q, i)[j] = IF j < i THEN q[j] ELSE q[j + 1]
<1> DEFINE before == SubSeq(q, 1, i - 1)
           behind == SubSeq(q, i + 1, Len(q))
<1>1. /\ before \in Seq(S) /\ Len(before) = i - 1
      /\ \A j \in 1..i - 1 : before[j] = q[j]
  OBVIOUS
<1>2. /\ behind \in Seq(S) /\ Len(behind) = Len(q) - i
      /\ \A j \in 1..Len(q) - i : behind[j] = q[i + j]
  OBVIOUS
<1>3. RemoveAt(q, i) = before \o behind
  BY DEF RemoveAt
<1> HIDE DEF before, behind
<1>4. Len(q) \in Nat
  OBVIOUS
<1>5. /\ before \o behind \in Seq(S)
      /\ Len(before \o behind) = Len(before) + Len(behind)
  BY <1>1, <1>2, ConcatProperties
<1>6. ASSUME NEW j \in 1..Len(q) - 1
      PROVE  (before \o behind)[j] = IF j < i THEN q[j] ELSE q[j + 1]
  <2>0. i \in Int /\ j \in Int
    BY <1>4
  <2>1. CASE j < i
    <3>1. j \in 1..Len(before)
      BY <1>1, <1>4, <2>1
    <3>2. (before \o behind)[j] = before[j]
      BY <1>1, <1>2, <3>1
    <3> QED
      BY <1>1, <2>1, <3>1, <3>2
  <2>2. CASE j >= i
    <3>1. j \in Len(before) + 1 .. Len(before) + Len(behind) /\ j - (i - 1) \in 1..Len(q) - i
      BY <1>1, <1>2, <1>4, <2>2
    <3>2. (before \o behind)[j] = behind[j - (i - 1)]
      <4>1. (before \o behind)[j] = behind[j - Len(before)]
        <5>1. j \in 1..Len(before) + Len(behind) /\ ~ (j <= Len(before))
          BY <1>1, <1>2, <1>4, <2>0, <3>1
        <5> QED
          BY <1>1, <1>2, <5>1, ConcatProperties
      <4> QED
        BY <1>1, <4>1
    <3> QED
      BY <1>2, <1>4, <2>2, <3>1, <3>2, SMTT(30)
  <2>3. j < i \/ j >= i
    BY <2>0
  <2> QED
    BY <2>1, <2>2, <2>3
<1> QED
  BY <1>1, <1>2, <1>3, <1>4, <1>5, <1>6

\* Time passes for every delivery alike.
LEMMA LaterMembers ==
  ASSUME NEW q \in Seq(Delivery), NEW n \in Nat, \A i \in 1..Len(q) : q[i].due >= n
  PROVE  /\ Later(q, n) \in Seq(Delivery) /\ Len(Later(q, n)) = Len(q)
         /\ \A i \in 1..Len(q) : Later(q, n)[i] = [q[i] EXCEPT !.due = @ - n]
<1>1. \A i \in 1..Len(q) : q[i] \in Delivery
  OBVIOUS
<1>2. \A i \in 1..Len(q) : [q[i] EXCEPT !.due = @ - n] \in Delivery
  <2> TAKE i \in 1..Len(q)
  <2>1. q[i] \in Delivery /\ q[i].due >= n
    BY <1>1
  <2>2. q[i].due - n \in Nat
    BY <2>1 DEF Delivery
  <2> QED
    BY <2>1, <2>2 DEF Delivery
<1>3. DOMAIN q = 1..Len(q) /\ Len(q) \in Nat
  BY LenProperties
<1>4. Later(q, n) = [i \in 1..Len(q) |-> [q[i] EXCEPT !.due = @ - n]]
  BY <1>3 DEF Later
<1>5. Later(q, n) \in [1..Len(q) -> Delivery]
  BY <1>2, <1>4
<1>6. Later(q, n) \in Seq(Delivery)
  BY <1>3, <1>5, SeqDef
<1>7. Len(Later(q, n)) = Len(q)
  BY <1>3, <1>5, <1>6, LenProperties
<1> QED
  BY <1>4, <1>6, <1>7

\* The next delivery i goes out; the others come nearer.
LEMMA ArriveMembers ==
  ASSUME TypeOK, NEW i \in DOMAIN queue, IsNext(i)
  PROVE  LET n == queue[i].due
             q == Later(queue, n)
         IN /\ i \in 1..Len(queue) /\ n \in Nat
            /\ q \in Seq(Delivery) /\ Len(q) = Len(queue)
            /\ \A j \in 1..Len(queue) : /\ queue[j].due >= n
                                        /\ q[j] = [queue[j] EXCEPT !.due = @ - n]
<1>1. DOMAIN queue = 1..Len(queue) /\ queue \in Seq(Delivery)
  BY LenProperties DEF TypeOK
<1>2. ASSUME NEW j \in 1..Len(queue) PROVE queue[j].due \in Nat
  <2>1. queue[j] \in Delivery
    BY <1>1
  <2> QED
    BY <2>1 DEF Delivery
<1>3. \A j \in 1..Len(queue) : queue[j].due >= queue[i].due
  BY <1>1, <1>2 DEF IsNext
<1> QED
  BY <1>1, <1>2, <1>3, LaterMembers

\* Delivery i leaves the queue: position j is what was at pos[j] before.
LEMMA DoneMembers ==
  ASSUME TypeOK, NEW i \in DOMAIN queue, IsNext(i), Done(i)
  PROVE  /\ queue' \in Seq(Delivery)
         /\ \E pos \in [DOMAIN queue' -> DOMAIN queue \ {i}] :
              /\ \A j \in DOMAIN queue' :
                   queue'[j] = [queue[pos[j]] EXCEPT !.due = @ - queue[i].due]
              /\ \A j, k \in DOMAIN queue' : pos[j] = pos[k] => j = k
              /\ \A k \in DOMAIN queue \ {i} : \E j \in DOMAIN queue' : pos[j] = k
<1> DEFINE n == queue[i].due
           q == Later(queue, n)
<1>1. /\ i \in 1..Len(queue) /\ n \in Nat
      /\ q \in Seq(Delivery) /\ Len(q) = Len(queue)
      /\ \A j \in 1..Len(queue) : q[j] = [queue[j] EXCEPT !.due = @ - n]
  BY ArriveMembers
<1>2. queue' = RemoveAt(q, i)
  BY DEF Done
<1> HIDE DEF q, n
<1>3. /\ queue' \in Seq(Delivery) /\ Len(queue') = Len(queue) - 1
      /\ \A j \in 1..Len(queue) - 1 : queue'[j] = IF j < i THEN q[j] ELSE q[j + 1]
  BY <1>1, <1>2, RemoveAtMembers
<1>4. Len(queue) \in Nat /\ DOMAIN queue = 1..Len(queue) /\ DOMAIN queue' = 1..Len(queue) - 1
  BY <1>3 DEF TypeOK
<1> DEFINE pos == [j \in 1..Len(queue) - 1 |-> IF j < i THEN j ELSE j + 1]
<1>5. pos \in [DOMAIN queue' -> DOMAIN queue \ {i}]
  BY <1>1, <1>4
<1>6. ASSUME NEW j \in DOMAIN queue'
      PROVE  queue'[j] = [queue[pos[j]] EXCEPT !.due = @ - n]
  <2>1. queue'[j] = q[pos[j]]
    BY <1>3, <1>4
  <2>2. pos[j] \in 1..Len(queue)
    BY <1>4, <1>5
  <2> QED
    BY <1>1, <2>1, <2>2
<1>7. ASSUME NEW j \in DOMAIN queue', NEW k \in DOMAIN queue', pos[j] = pos[k]
      PROVE  j = k
  BY <1>1, <1>4, <1>7
<1>8. ASSUME NEW k \in DOMAIN queue \ {i}
      PROVE  \E j \in DOMAIN queue' : pos[j] = k
  <2> DEFINE j == IF k < i THEN k ELSE k - 1
  <2>1. j \in DOMAIN queue' /\ pos[j] = k
    BY <1>1, <1>4
  <2> QED
    BY <2>1
<1> HIDE DEF pos
<1> QED
  BY <1>3, <1>5, <1>6, <1>7, <1>8 DEF n

-----------------------------------------------------------------------------
(* The invariant *)

\* A flag of the IOP is nobody's completion, the release of a call packet is.
Kinds ==
  \A i \in DOMAIN queue :
    /\ queue[i].kind = "boot" => queue[i].who = Sreg
    /\ queue[i].kind = "free" => queue[i].who \in Client

\* What OneCompletion counts, and why it lasts: a completion is never due
\* before the service is done, and has gone to the buffer only after.
Owed(c) ==
  /\ \A i, j \in DOMAIN queue : queue[i].who = c /\ queue[j].who = c => i = j
  /\ \A i \in DOMAIN queue : queue[i].who = c =>
       buf # c /\ client[c] # "idle" /\ left[c] <= queue[i].due
  /\ buf = c => client[c] # "idle" /\ left[c] = 0
  /\ client[c] # "idle" => buf = c \/ \E i \in DOMAIN queue : queue[i].who = c
  /\ client[c] = "idle" => left[c] = 0

DeliveryInv == TypeOK /\ Kinds /\ \A c \in Client : Owed(c)

\* In n ticks the deliveries move up, none comes sooner and none of client c's
\* comes or goes: position j is what was at pos[j].
MovesUp(pos, n, c) ==
  /\ queue' \in Seq(Delivery) /\ pos \in [DOMAIN queue' -> DOMAIN queue]
  /\ \A j, k \in DOMAIN queue' : pos[j] = pos[k] => j = k
  /\ \A j \in DOMAIN queue' : /\ queue'[j].who = queue[pos[j]].who
                              /\ queue'[j].due >= queue[pos[j]].due - n
  /\ \A k \in DOMAIN queue : queue[k].who = c => \E j \in DOMAIN queue' : pos[j] = k

\* What client c is owed outlasts such a time.
LEMMA OwedKept ==
  ASSUME DeliveryInv, NEW n \in Nat, NEW c \in Client, NEW pos, MovesUp(pos, n, c),
         left'[c] = IF left[c] > n THEN left[c] - n ELSE 0,
         client'[c] = client[c], buf' = c <=> buf = c
  PROVE  Owed(c)'
<1>0. /\ queue' \in Seq(Delivery) /\ pos \in [DOMAIN queue' -> DOMAIN queue]
      /\ \A j, k \in DOMAIN queue' : pos[j] = pos[k] => j = k
      /\ \A j \in DOMAIN queue' : /\ queue'[j].who = queue[pos[j]].who
                                  /\ queue'[j].due >= queue[pos[j]].due - n
      /\ \A k \in DOMAIN queue : queue[k].who = c => \E j \in DOMAIN queue' : pos[j] = k
  BY DEF MovesUp
<1>1. left[c] \in Nat /\ Owed(c)
  BY DEF DeliveryInv, TypeOK
<1>2. ASSUME NEW j \in DOMAIN queue'
      PROVE  queue'[j].due \in Nat /\ queue[pos[j]].due \in Nat
  <2>1. queue'[j] \in Delivery /\ queue[pos[j]] \in Delivery
    BY <1>0 DEF DeliveryInv, TypeOK
  <2> QED
    BY <2>1 DEF Delivery
<1>3. \A i, j \in DOMAIN queue' : queue'[i].who = c /\ queue'[j].who = c => i = j
  BY <1>0, <1>1 DEF Owed
<1>4. ASSUME NEW i \in DOMAIN queue', queue'[i].who = c
      PROVE  buf' # c /\ client'[c] # "idle" /\ left'[c] <= queue'[i].due
  <2>1. buf # c /\ client[c] # "idle" /\ left[c] <= queue[pos[i]].due
    BY <1>0, <1>1, <1>4 DEF Owed
  <2> QED
    BY <1>0, <1>1, <1>2, <2>1
<1>5. buf' = c => client'[c] # "idle" /\ left'[c] = 0
  BY <1>1 DEF Owed
<1>6. client'[c] # "idle" => buf' = c \/ \E i \in DOMAIN queue' : queue'[i].who = c
  BY <1>0, <1>1, SMTT(30) DEF Owed
<1>7. client'[c] = "idle" => left'[c] = 0
  BY <1>1 DEF Owed
<1> QED
  BY <1>3, <1>4, <1>5, <1>6, <1>7 DEF Owed

\* The clock reaches delivery i: the others come nearer, and the server has
\* worked on.
LEMMA ArriveStep ==
  ASSUME DeliveryInv, NEW i \in DOMAIN queue, Arrive(i)
  PROVE  /\ queue[i].due \in Nat /\ clock' \in Nat /\ left' \in [Client -> Nat]
         /\ \A c \in Client :
              left'[c] = IF left[c] > queue[i].due THEN left[c] - queue[i].due ELSE 0
<1>1. queue[i] \in Delivery
  BY DEF DeliveryInv, TypeOK
<1>2. queue[i].due \in Nat
  BY <1>1 DEF Delivery
<1>3. clock' \in Nat
  BY <1>2 DEF Arrive, DeliveryInv, TypeOK
<1>4. left' \in [Client -> Nat]
  BY <1>2 DEF Arrive, Works, DeliveryInv, TypeOK
<1>5. \A c \in Client :
        left'[c] = IF left[c] > queue[i].due THEN left[c] - queue[i].due ELSE 0
  BY DEF Arrive, Works
<1> QED
  BY <1>2, <1>3, <1>4, <1>5

\* Delivery i goes out; who it is not for still has what it had.
LEMMA DoneStep ==
  ASSUME DeliveryInv, NEW i \in DOMAIN queue, Arrive(i), Done(i)
  PROVE  /\ queue' \in Seq(Delivery) /\ Kinds'
         /\ \A c \in Client : queue[i].who # c /\ client'[c] = client[c] /\ (buf' = c <=> buf = c)
              => Owed(c)'
         /\ \A c \in Client : queue[i].who = c =>
              /\ \A j \in DOMAIN queue' : queue'[j].who # c
              /\ buf # c /\ client[c] # "idle" /\ left'[c] = 0
<1> DEFINE n == queue[i].due
<1>1. IsNext(i) /\ TypeOK
  BY DEF Arrive, DeliveryInv
<1>2. queue' \in Seq(Delivery)
  BY <1>1, DoneMembers
<1>3. PICK pos \in [DOMAIN queue' -> DOMAIN queue \ {i}] :
        /\ \A j \in DOMAIN queue' : queue'[j] = [queue[pos[j]] EXCEPT !.due = @ - n]
        /\ \A j, k \in DOMAIN queue' : pos[j] = pos[k] => j = k
        /\ \A k \in DOMAIN queue \ {i} : \E j \in DOMAIN queue' : pos[j] = k
  BY <1>1, DoneMembers
<1>4. ASSUME NEW j \in DOMAIN queue'
      PROVE  /\ pos[j] \in DOMAIN queue \ {i} /\ queue'[j].who = queue[pos[j]].who
             /\ queue'[j].kind = queue[pos[j]].kind
             /\ queue'[j].due >= queue[pos[j]].due - n
  <2>1. queue[pos[j]] \in Delivery /\ queue[i] \in Delivery
    BY <1>1 DEF TypeOK
  <2>2. queue'[j] = [queue[pos[j]] EXCEPT !.due = @ - n]
    BY <1>3
  <2> QED
    BY <2>1, <2>2 DEF Delivery
<1> HIDE DEF n
<1>5. Kinds'
  BY <1>4 DEF Kinds, DeliveryInv
<1>6. ASSUME NEW c \in Client, queue[i].who # c, client'[c] = client[c], buf' = c <=> buf = c
      PROVE  Owed(c)'
  <2>1. n \in Nat /\ left'[c] = IF left[c] > n THEN left[c] - n ELSE 0
    BY ArriveStep DEF n
  <2>2. pos \in [DOMAIN queue' -> DOMAIN queue]
    BY <1>3
  <2>3. \A k \in DOMAIN queue : queue[k].who = c => \E j \in DOMAIN queue' : pos[j] = k
    BY <1>3, <1>6
  <2>4. \A j \in DOMAIN queue' : /\ queue'[j].who = queue[pos[j]].who
                                 /\ queue'[j].due >= queue[pos[j]].due - n
    BY <1>4
  <2>5. MovesUp(pos, n, c)
    BY <1>2, <1>3, <2>2, <2>3, <2>4 DEF MovesUp
  <2> QED
    BY <1>6, <2>1, <2>5, OwedKept
<1>7. ASSUME NEW c \in Client, queue[i].who = c
      PROVE  /\ \A j \in DOMAIN queue' : queue'[j].who # c
             /\ buf # c /\ client[c] # "idle" /\ left'[c] = 0
  <2>1. Owed(c) /\ left[c] \in Nat
    BY DEF DeliveryInv, TypeOK
  <2>2. buf # c /\ client[c] # "idle" /\ left[c] <= queue[i].due
    BY <1>7, <2>1 DEF Owed
  <2>3. left'[c] = 0
    BY <2>1, <2>2, ArriveStep
  <2>4. \A j \in DOMAIN queue' : queue'[j].who # c
    BY <1>4, <1>7, <2>1 DEF Owed
  <2> QED
    BY <2>2, <2>3, <2>4
<1> QED
  BY <1>2, <1>5, <1>6, <1>7

LEMMA BootEndStep ==
  ASSUME DeliveryInv, NEW i \in DOMAIN queue, BootEnd(i)
  PROVE  DeliveryInv'
<1>1. Arrive(i) /\ Done(i) /\ UNCHANGED <<buf, client>> /\ queue[i].who = Sreg
  BY DEF BootEnd, guestVars, DeliveryInv, Kinds
<1>2. TypeOK'
  BY <1>1, ArriveStep, DoneStep DEF BootEnd, guestVars, DeliveryInv, TypeOK
<1>3. Kinds' /\ \A c \in Client : Owed(c)'
  BY <1>1, DoneStep
<1> QED
  BY <1>2, <1>3 DEF DeliveryInv

LEMMA FreeEePktStep ==
  ASSUME DeliveryInv, NEW i \in DOMAIN queue, FreeEePkt(i)
  PROVE  DeliveryInv'
<1> DEFINE o == queue[i].who
<1>1. /\ Arrive(i) /\ Done(i) /\ buf' = buf /\ o \in Client
      /\ client \in [Client -> {"idle", "end", "free"}]
      /\ client' = [client EXCEPT ![o] = "idle"]
  BY DEF FreeEePkt, DeliveryInv, Kinds, TypeOK
<1>2. client' \in [Client -> {"idle", "end", "free"}]
  BY <1>1
<1>3. TypeOK'
  BY <1>1, <1>2, ArriveStep, DoneStep DEF FreeEePkt, flagVars, DeliveryInv, TypeOK
<1>4. Kinds'
  BY <1>1, DoneStep
<1>5. ASSUME NEW c \in Client PROVE Owed(c)'
  <2>1. CASE c # o
    BY <1>1, <2>1, DoneStep
  <2>2. CASE c = o
    <3>1. client'[c] = "idle"
      BY <1>1, <2>2
    <3>2. /\ \A j \in DOMAIN queue' : queue'[j].who # c
          /\ buf # c /\ left'[c] = 0
      BY <1>1, <2>2, DoneStep
    <3> QED
      BY <1>1, <3>1, <3>2 DEF Owed
  <2> QED
    BY <2>1, <2>2
<1> QED
  BY <1>3, <1>4, <1>5 DEF DeliveryInv

\* A packet goes into an empty buffer: it is the completion its client has.
LEMMA CmdPacketStep ==
  ASSUME DeliveryInv, NEW i \in DOMAIN queue, CmdPacket(i)
  PROVE  DeliveryInv'
<1> DEFINE o == queue[i].who
<1>1. Arrive(i) /\ Done(i) /\ buf = Empty /\ buf' = o /\ UNCHANGED guestVars
  BY DEF CmdPacket, Busy
<1>2. queue[i] \in Delivery
  BY DEF DeliveryInv, TypeOK
<1>3. o \in Client \cup {Sreg}
  BY <1>2 DEF Delivery
<1>4. TypeOK'
  BY <1>1, <1>3, ArriveStep, DoneStep DEF CmdPacket, flagVars, guestVars, DeliveryInv, TypeOK
<1>5. Kinds'
  BY <1>1, DoneStep
<1>6. ASSUME NEW c \in Client PROVE Owed(c)'
  <2>1. CASE c # o
    BY <1>1, <2>1, DoneStep, ClientsAssumption DEF guestVars
  <2>2. CASE c = o
    BY <1>1, <2>2, DoneStep DEF Owed, guestVars
  <2> QED
    BY <2>1, <2>2
<1> QED
  BY <1>4, <1>5, <1>6 DEF DeliveryInv

\* A packet that is put off keeps its place; it comes later, never sooner.
LEMMA HoldPacketStep ==
  ASSUME DeliveryInv, NEW i \in DOMAIN queue, HoldPacket(i)
  PROVE  DeliveryInv'
<1> DEFINE n == queue[i].due
           q == Later(queue, n)
           d == [q[i] EXCEPT !.due = Retry, !.held = TRUE]
<1>1. Arrive(i) /\ IsNext(i) /\ TypeOK /\ UNCHANGED <<buf, sif0, flagVars, guestVars>>
  BY DEF HoldPacket, Arrive, DeliveryInv
<1>2. /\ i \in 1..Len(queue) /\ n \in Nat
      /\ q \in Seq(Delivery) /\ Len(q) = Len(queue)
      /\ \A j \in 1..Len(queue) : q[j] = [queue[j] EXCEPT !.due = @ - n]
  BY <1>1, ArriveMembers
<1>3. queue' = [q EXCEPT ![i].due = Retry, ![i].held = TRUE]
  BY DEF HoldPacket
<1>4. q[i] \in Delivery /\ queue[i] \in Delivery
  BY <1>1, <1>2 DEF TypeOK
<1> HIDE DEF q, n
<1>5. d \in Delivery /\ d.who = queue[i].who /\ d.kind = queue[i].kind /\ d.due = Retry
  BY <1>2, <1>4, TimesAssumption DEF Delivery
<1>6. queue' = [q EXCEPT ![i] = d]
  BY <1>2, <1>3, <1>4 DEF Delivery
<1> HIDE DEF d
<1>7. /\ queue' \in Seq(Delivery) /\ Len(queue') = Len(queue)
      /\ \A j \in 1..Len(queue) : queue'[j] = IF j = i THEN d ELSE q[j]
  BY <1>2, <1>5, <1>6, ExceptSeq
<1>8. DOMAIN queue = 1..Len(queue) /\ DOMAIN queue' = 1..Len(queue)
  BY <1>1, <1>7 DEF TypeOK
<1>9. ASSUME NEW j \in DOMAIN queue'
      PROVE  /\ queue'[j].who = queue[j].who /\ queue'[j].kind = queue[j].kind
             /\ queue'[j].due >= queue[j].due - n
  <2>1. queue[j] \in Delivery
    BY <1>1, <1>8 DEF TypeOK
  <2>2. CASE j = i
    <3>1. queue'[j] = d /\ queue[j].due - n = 0
      BY <1>2, <1>7, <1>8, <2>2 DEF n
    <3> QED
      BY <1>5, <2>2, <3>1, TimesAssumption
  <2>3. CASE j # i
    <3>1. queue'[j] = [queue[j] EXCEPT !.due = @ - n]
      BY <1>2, <1>7, <1>8, <2>3
    <3> QED
      BY <1>2, <2>1, <3>1 DEF Delivery
  <2> QED
    BY <2>2, <2>3
<1>10. TypeOK'
  BY <1>1, <1>7, ArriveStep DEF flagVars, guestVars, TypeOK
<1>11. Kinds'
  BY <1>8, <1>9 DEF Kinds, DeliveryInv
<1>12. ASSUME NEW c \in Client PROVE Owed(c)'
  <2> DEFINE pos == [j \in DOMAIN queue |-> j]
  <2>1. pos \in [DOMAIN queue' -> DOMAIN queue]
    BY <1>8
  <2>2. n \in Nat /\ left'[c] = IF left[c] > n THEN left[c] - n ELSE 0
    BY <1>1, ArriveStep DEF n
  <2>3. \A j \in DOMAIN queue' : /\ queue'[j].who = queue[pos[j]].who
                                 /\ queue'[j].due >= queue[pos[j]].due - n
    BY <1>8, <1>9
  <2>4. \A k \in DOMAIN queue : queue[k].who = c => \E j \in DOMAIN queue' : pos[j] = k
    BY <1>8
  <2>5. \A j, k \in DOMAIN queue' : pos[j] = pos[k] => j = k
    BY <1>8
  <2> HIDE DEF pos
  <2>6. client'[c] = client[c] /\ (buf' = c <=> buf = c)
    BY <1>1 DEF guestVars
  <2>7. queue' \in Seq(Delivery)
    BY <1>7
  <2>8. MovesUp(pos, n, c)
    BY <2>1, <2>3, <2>4, <2>5, <2>7 DEF MovesUp
  <2> QED
    BY <2>2, <2>6, <2>8, OwedKept
<1> QED
  BY <1>10, <1>11, <1>12 DEF DeliveryInv

LEMMA TickOverStep ==
  ASSUME DeliveryInv, TickOver
  PROVE  DeliveryInv'
<1>1. /\ TypeOK /\ clock \in Nat /\ queue \in Seq(Delivery)
      /\ UNCHANGED <<buf, sif0, flagVars, guestVars>>
  BY DEF TickOver, DeliveryInv, TypeOK
<1>2. DOMAIN queue = 1..Len(queue)
  BY <1>1
<1>3. ASSUME NEW j \in 1..Len(queue) PROVE queue[j].due \in Nat /\ queue[j].due >= clock
  <2>1. queue[j] \in Delivery
    BY <1>1
  <2>2. queue[j].due > clock
    BY <1>2 DEF TickOver
  <2> QED
    BY <1>1, <2>1, <2>2 DEF Delivery
<1>4. /\ queue' \in Seq(Delivery) /\ Len(queue') = Len(queue)
      /\ \A j \in 1..Len(queue) : queue'[j] = [queue[j] EXCEPT !.due = @ - clock]
  BY <1>1, <1>3, LaterMembers DEF TickOver
<1>5. DOMAIN queue' = 1..Len(queue)
  BY <1>4
<1>6. ASSUME NEW j \in DOMAIN queue'
      PROVE  /\ queue'[j].who = queue[j].who /\ queue'[j].kind = queue[j].kind
             /\ queue'[j].due >= queue[j].due - clock
  <2>1. queue[j] \in Delivery /\ queue'[j] = [queue[j] EXCEPT !.due = @ - clock]
    BY <1>1, <1>4, <1>5
  <2> QED
    BY <1>1, <2>1 DEF Delivery
<1>7. /\ left' \in [Client -> Nat]
      /\ \A c \in Client : left'[c] = IF left[c] > clock THEN left[c] - clock ELSE 0
  BY <1>1 DEF TickOver, Works, TypeOK
<1>8. TypeOK'
  BY <1>1, <1>4, <1>7 DEF TickOver, flagVars, guestVars, TypeOK
<1>9. Kinds'
  BY <1>2, <1>5, <1>6 DEF Kinds, DeliveryInv
<1>10. ASSUME NEW c \in Client PROVE Owed(c)'
  <2> DEFINE pos == [j \in DOMAIN queue |-> j]
  <2>1. pos \in [DOMAIN queue' -> DOMAIN queue]
    BY <1>2, <1>5
  <2>2. \A j \in DOMAIN queue' : /\ queue'[j].who = queue[pos[j]].who
                                 /\ queue'[j].due >= queue[pos[j]].due - clock
    BY <1>2, <1>5, <1>6
  <2>3. \A k \in DOMAIN queue : queue[k].who = c => \E j \in DOMAIN queue' : pos[j] = k
    BY <1>2, <1>5
  <2>4. \A j, k \in DOMAIN queue' : pos[j] = pos[k] => j = k
    BY <1>2, <1>5
  <2> HIDE DEF pos
  <2>5. MovesUp(pos, clock, c)
    BY <1>4, <2>1, <2>2, <2>3, <2>4 DEF MovesUp
  <2>6. client'[c] = client[c] /\ (buf' = c <=> buf = c)
    BY <1>1 DEF guestVars
  <2> QED
    BY <1>1, <1>7, <2>5, <2>6, OwedKept
<1> QED
  BY <1>8, <1>9, <1>10 DEF DeliveryInv

LEMMA TimelineStep ==
  ASSUME DeliveryInv, Timeline
  PROVE  DeliveryInv'
BY BootEndStep, FreeEePktStep, CmdPacketStep, HoldPacketStep, TickOverStep DEF Timeline

\* A span begins; nothing has been delivered yet.
LEMMA ElapseStep ==
  ASSUME DeliveryInv, NEW n \in Nat, Elapse(n)
  PROVE  DeliveryInv'
<1>1. UNCHANGED <<queue, buf, sif0, left, flagVars, guestVars>> /\ clock' = n
  BY DEF Elapse
<1> QED
  BY <1>1 DEF flagVars, guestVars, DeliveryInv, TypeOK, Kinds, Owed

-----------------------------------------------------------------------------
(* Requests *)

\* Answer appends one delivery, due when the service will be done.
LEMMA AnswerMembers ==
  ASSUME DeliveryInv, NEW kind \in {"packet", "free", "boot"}, NEW who \in Client \cup {Sreg},
         NEW hold \in Nat, Answer(kind, who, hold)
  PROVE  /\ queue' \in Seq(Delivery) /\ DOMAIN queue' = 1..Len(queue) + 1
         /\ DOMAIN queue = 1..Len(queue) /\ Len(queue) \in Nat
         /\ \A j \in 1..Len(queue) : queue'[j] = queue[j]
         /\ queue'[Len(queue) + 1].kind = kind /\ queue'[Len(queue) + 1].who = who
         /\ queue'[Len(queue) + 1].due = Latency + hold
<1> DEFINE d == [kind |-> kind, who |-> who, due |-> Latency + hold, held |-> FALSE]
<1>1. d \in Delivery
  BY TimesAssumption DEF Delivery
<1>2. queue' = Append(queue, d) /\ queue \in Seq(Delivery)
  BY DEF Answer, DeliveryInv, TypeOK
<1>3. d.kind = kind /\ d.who = who /\ d.due = Latency + hold
  OBVIOUS
<1> HIDE DEF d
<1>4. queue' \in Seq(Delivery) /\ Len(queue') = Len(queue) + 1 /\ Len(queue) \in Nat
  BY <1>1, <1>2
<1>5. DOMAIN queue' = 1..Len(queue) + 1 /\ DOMAIN queue = 1..Len(queue)
  BY <1>2, <1>4
<1>6. \A j \in 1..Len(queue) : queue'[j] = queue[j]
  BY <1>1, <1>2
<1>7. queue'[Len(queue) + 1] = d
  BY <1>1, <1>2
<1> QED
  BY <1>3, <1>4, <1>5, <1>6, <1>7

\* Nothing changes for a client the new delivery is not for.
LEMMA OwedByOthers ==
  ASSUME DeliveryInv, NEW kind \in {"packet", "free", "boot"}, NEW who \in Client \cup {Sreg},
         NEW hold \in Nat, Answer(kind, who, hold), buf' = buf,
         NEW c \in Client, c # who, client'[c] = client[c], left'[c] = left[c]
  PROVE  Owed(c)'
<1>1. Owed(c)
  BY DEF DeliveryInv
<1>0. /\ DOMAIN queue' = 1..Len(queue) + 1 /\ DOMAIN queue = 1..Len(queue) /\ Len(queue) \in Nat
      /\ \A j \in 1..Len(queue) : queue'[j] = queue[j]
      /\ queue'[Len(queue) + 1].who = who
  BY AnswerMembers
<1>2. \A j \in DOMAIN queue' : queue'[j].who = c => j \in DOMAIN queue /\ queue'[j] = queue[j]
  BY <1>0
<1>3. \A j \in DOMAIN queue : j \in DOMAIN queue' /\ queue'[j] = queue[j]
  BY <1>0
<1> QED
  BY <1>1, <1>2, <1>3 DEF Owed

LEMMA KindsAnswered ==
  ASSUME DeliveryInv, NEW kind \in {"packet", "free", "boot"}, NEW who \in Client \cup {Sreg},
         NEW hold \in Nat, Answer(kind, who, hold),
         kind = "boot" => who = Sreg, kind = "free" => who \in Client
  PROVE  Kinds'
<1>1. /\ DOMAIN queue' = 1..Len(queue) + 1 /\ DOMAIN queue = 1..Len(queue) /\ Len(queue) \in Nat
      /\ \A j \in 1..Len(queue) : queue'[j] = queue[j]
      /\ queue'[Len(queue) + 1].kind = kind /\ queue'[Len(queue) + 1].who = who
  BY AnswerMembers
<1> DEFINE n == Len(queue) + 1
<1>2. ASSUME NEW j \in DOMAIN queue' PROVE j \in DOMAIN queue \/ j = n
  BY <1>1
<1>3. /\ \A j \in DOMAIN queue : queue'[j] = queue[j]
      /\ queue'[n].kind = kind /\ queue'[n].who = who
  BY <1>1
<1>4. Kinds
  BY DEF DeliveryInv
<1> HIDE DEF n
<1> QED
  BY <1>2, <1>3, <1>4 DEF Kinds

LEMMA RequestStep ==
  ASSUME DeliveryInv, NEW c \in Client, NEW how \in {"end", "free"}, NEW hold \in Nat,
         NEW kind \in {"packet", "free"}, Request(c, how, hold), Answer(kind, c, hold)
  PROVE  DeliveryInv'
<1>1. /\ client[c] = "idle" /\ client \in [Client -> {"idle", "end", "free"}]
      /\ left \in [Client -> Nat] /\ client' = [client EXCEPT ![c] = how]
      /\ left' = [left EXCEPT ![c] = Latency + hold]
      /\ clock' = SyscallTicks
      /\ UNCHANGED <<buf, sif0, flagVars, boot, sreg, registered>>
  BY DEF Request, SetDma, DeliveryInv, TypeOK
<1>2. Latency + hold \in Nat
  BY TimesAssumption
<1>3. /\ client' \in [Client -> {"idle", "end", "free"}] /\ left' \in [Client -> Nat]
      /\ client'[c] = how /\ left'[c] = Latency + hold
  BY <1>1, <1>2
<1>4. TypeOK'
  BY <1>1, <1>3, AnswerMembers, TimesAssumption DEF flagVars, DeliveryInv, TypeOK
<1>5. Kinds'
  BY KindsAnswered
<1>6. ASSUME NEW o \in Client PROVE Owed(o)'
  <2>1. CASE o # c
    <3>1. client'[o] = client[o] /\ left'[o] = left[o]
      BY <1>1, <2>1
    <3> QED
      BY <1>1, <2>1, <3>1, OwedByOthers
  <2>2. CASE o = c
    <3>1. buf' # c /\ \A j \in DOMAIN queue : queue[j].who # c
      BY <1>1 DEF DeliveryInv, Owed
    <3>2. \A j \in DOMAIN queue' : queue'[j].who = c => j = Len(queue) + 1
      BY <3>1, AnswerMembers
    <3>3. /\ Len(queue) + 1 \in DOMAIN queue' /\ queue'[Len(queue) + 1].who = c
          /\ queue'[Len(queue) + 1].due = Latency + hold
      BY AnswerMembers
    <3>4. \A i, j \in DOMAIN queue' : queue'[i].who = c /\ queue'[j].who = c => i = j
      BY <3>2
    <3>5. \A i \in DOMAIN queue' : queue'[i].who = c =>
            buf' # c /\ client'[c] # "idle" /\ left'[c] <= queue'[i].due
      BY <1>2, <1>3, <3>1, <3>2, <3>3
    <3> QED
      BY <1>3, <2>2, <3>1, <3>3, <3>4, <3>5 DEF Owed
  <2> QED
    BY <2>1, <2>2
<1> QED
  BY <1>4, <1>5, <1>6 DEF DeliveryInv

LEMMA RequestsStep ==
  ASSUME DeliveryInv, NEW c \in Client, NEW hold \in Nat,
         Bind(c) \/ RData(c) \/ Call(c, hold) \/ CallNoWait(c, hold)
  PROVE  DeliveryInv'
BY RequestStep DEF Bind, RData, Call, CallNoWait

-----------------------------------------------------------------------------
(* The guest *)

\* The client the buffer holds a completion for goes on.
LEMMA SIF0HandlerStep ==
  ASSUME DeliveryInv, SIF0Handler
  PROVE  DeliveryInv'
<1>1. /\ client \in [Client -> {"idle", "end", "free"}] /\ buf' = Empty
      /\ client' = IF buf \in Client THEN [client EXCEPT ![buf] = "idle"] ELSE client
      /\ UNCHANGED <<queue, clock, left, flagVars, boot, registered>>
  BY DEF SIF0Handler, DeliveryInv, TypeOK
<1>2. /\ client' \in [Client -> {"idle", "end", "free"}]
      /\ \A c \in Client : client'[c] = IF buf = c THEN "idle" ELSE client[c]
  BY <1>1
<1>3. sif0' \in BOOLEAN /\ sreg' \in {0, 1}
  BY DEF SIF0Handler, DeliveryInv, TypeOK
<1>4. TypeOK'
  BY <1>1, <1>2, <1>3 DEF flagVars, DeliveryInv, TypeOK
<1>5. Kinds'
  BY <1>1 DEF DeliveryInv, Kinds
<1>6. ASSUME NEW c \in Client PROVE Owed(c)'
  <2>1. Owed(c)
    BY DEF DeliveryInv
  <2>2. buf' # c
    BY <1>1, ClientsAssumption
  <2>3. CASE buf = c
    <3>1. client'[c] = "idle" /\ left'[c] = 0 /\ \A j \in DOMAIN queue' : queue'[j].who # c
      BY <1>1, <1>2, <2>1, <2>3 DEF Owed
    <3> QED
      BY <2>2, <3>1 DEF Owed
  <2>4. CASE buf # c
    <3>1. client'[c] = client[c]
      BY <1>2, <2>4
    <3> QED
      BY <1>1, <2>1, <2>2, <2>4, <3>1 DEF Owed
  <2> QED
    BY <2>3, <2>4
<1> QED
  BY <1>4, <1>5, <1>6 DEF DeliveryInv

\* The boot path as far as it sends nothing.
LEMMA QuietStep ==
  ASSUME DeliveryInv, UNCHANGED <<queue, buf, sif0, left, client>>,
         registered' \in BOOLEAN, clock' \in Nat, smflag' \subseteq Flag,
         reboot_pending' \in BOOLEAN, answered' \in BOOLEAN, boot' \in BootPc, sreg' \in {0, 1}
  PROVE  DeliveryInv'
BY DEF DeliveryInv, TypeOK, Kinds, Owed

LEMMA SpinStep ==
  ASSUME DeliveryInv, NEW from, NEW flag, NEW to \in BootPc, Spin(from, flag, to)
  PROVE  DeliveryInv'
<1>1. /\ TypeOK /\ UNCHANGED <<queue, buf, sif0, left, client, clock, sreg, registered>>
      /\ boot' \in {from, to} /\ boot = from /\ ReadSMFlag
  BY DEF Spin, NoTransfer, rpcVars, DeliveryInv
<1>2. smflag' \subseteq Flag /\ reboot_pending' \in BOOLEAN
  BY <1>1 DEF ReadSMFlag, TypeOK
<1>3. answered' \in BOOLEAN
  BY <1>1 DEF ReadSMFlag, TypeOK
<1>4. boot' \in BootPc
  BY <1>1 DEF TypeOK
<1> QED
  BY <1>1, <1>2, <1>3, <1>4, QuietStep DEF TypeOK

LEMMA ClearStep ==
  ASSUME DeliveryInv, NEW from, NEW flag, NEW to \in BootPc, ClearFlag(from, flag, to)
  PROVE  DeliveryInv'
<1>1. /\ TypeOK /\ UNCHANGED <<queue, buf, sif0, left, client, clock, sreg, registered>>
      /\ UNCHANGED <<reboot_pending, answered>> /\ boot' = to /\ smflag' = smflag \ {flag}
  BY DEF ClearFlag, WriteSMFlag, BootStep, NoTransfer, rpcVars, DeliveryInv
<1> QED
  BY <1>1, QuietStep DEF TypeOK

LEMMA BootPathStep ==
  ASSUME DeliveryInv, Boot
  PROVE  DeliveryInv'
<1>1. CASE SpinCmdInit \/ SpinBootEnd
  BY <1>1, SpinStep DEF SpinCmdInit, SpinBootEnd, BootPc
<1>2. CASE InitCmd0
  <2>1. /\ TypeOK /\ UNCHANGED <<queue, buf, sif0, left, client, flagVars, sreg>>
        /\ registered' = TRUE /\ clock' = SyscallTicks /\ boot' = "init1"
    BY <1>2 DEF InitCmd0, SetDma, BootStep, DeliveryInv
  <2> QED
    BY <2>1, QuietStep, TimesAssumption DEF flagVars, BootPc, TypeOK
<1>3. CASE InitCmd1
  <2>1. /\ TypeOK /\ UNCHANGED <<buf, sif0, left, client, flagVars, sreg, registered>>
        /\ clock' = SyscallTicks /\ boot' = "sreg" /\ Answer("packet", Sreg, 0)
    BY <1>3 DEF InitCmd1, SetDma, BootStep, DeliveryInv
  <2>2. TypeOK'
    BY <2>1, AnswerMembers, TimesAssumption DEF flagVars, BootPc, TypeOK
  <2>3. Kinds' /\ \A c \in Client : Owed(c)'
    BY <2>1, KindsAnswered, OwedByOthers
  <2> QED
    BY <2>2, <2>3 DEF DeliveryInv
<1>4. CASE SpinSreg
  <2>1. /\ TypeOK /\ UNCHANGED <<rpcVars, flagVars, client, sreg, registered>> /\ boot' = "up"
    BY <1>4 DEF SpinSreg, BootStep, NoTransfer, DeliveryInv
  <2> QED
    BY <2>1, QuietStep DEF rpcVars, flagVars, BootPc, TypeOK
<1>5. CASE ClearSif \/ ClearCmd \/ ClearBootEnd
  BY <1>5, ClearStep DEF ClearSif, ClearCmd, ClearBootEnd, BootPc
<1> QED
  BY <1>1, <1>2, <1>3, <1>4, <1>5 DEF Boot

LEMMA ResetCmdStep ==
  ASSUME DeliveryInv, ResetCmd
  PROVE  DeliveryInv'
<1>1. /\ TypeOK /\ UNCHANGED <<buf, sif0, left, smflag, reboot_pending, client, registered>>
      /\ clock' = SyscallTicks /\ boot' = "clearSif" /\ Answer("boot", Sreg, 0)
      /\ sreg' = 0 /\ answered' = FALSE
  BY DEF ResetCmd, SetDma, BootStep, DeliveryInv
<1>2. TypeOK'
  BY <1>1, AnswerMembers, TimesAssumption DEF BootPc, TypeOK
<1>3. Kinds' /\ \A c \in Client : Owed(c)'
  BY <1>1, KindsAnswered, OwedByOthers
<1> QED
  BY <1>2, <1>3 DEF DeliveryInv

-----------------------------------------------------------------------------
(* The flags of a reboot *)

Resetting == {"clearSif", "clearCmd", "bootend"}

\* While the guest is on its way to the wait for BOOTEND, the IOP has answered,
\* or does at the next look, or before the guest runs on.
RebootInv ==
  /\ DeliveryInv
  /\ RightReason
  /\ boot \in Resetting =>
       \/ answered \/ reboot_pending
       \/ \E i \in DOMAIN queue : queue[i].kind = "boot" /\ queue[i].due <= clock

\* The guest gets to run only when the answer is there.
LEMMA GuestAnswered ==
  ASSUME RebootInv, GuestRuns, boot \in Resetting
  PROVE  answered \/ reboot_pending
<1>1. ASSUME NEW i \in DOMAIN queue PROVE ~(queue[i].due <= clock)
  <2>1. queue[i] \in Delivery
    BY DEF RebootInv, DeliveryInv, TypeOK
  <2> QED
    BY <2>1 DEF GuestRuns, Delivery
<1> QED
  BY <1>1 DEF RebootInv

\* Another delivery than the reboot's goes first.
LEMMA RebootWaits ==
  ASSUME RebootInv, NEW i \in DOMAIN queue, Arrive(i), queue[i].kind # "boot", Done(i),
         UNCHANGED <<boot, answered, reboot_pending>>
  PROVE  /\ RightReason'
         /\ boot' \in Resetting =>
              \/ answered' \/ reboot_pending'
              \/ \E j \in DOMAIN queue' : queue'[j].kind = "boot" /\ queue'[j].due <= clock'
<1>1. RightReason'
  BY DEF RebootInv, RightReason
<1>2. TypeOK /\ IsNext(i)
  BY DEF RebootInv, DeliveryInv, Arrive
<1>3. PICK pos \in [DOMAIN queue' -> DOMAIN queue \ {i}] :
        /\ \A j \in DOMAIN queue' :
             queue'[j] = [queue[pos[j]] EXCEPT !.due = @ - queue[i].due]
        /\ \A k \in DOMAIN queue \ {i} : \E j \in DOMAIN queue' : pos[j] = k
  BY <1>2, DoneMembers
<1>4. ASSUME NEW k \in DOMAIN queue, queue[k].kind = "boot", queue[k].due <= clock
      PROVE  \E j \in DOMAIN queue' : queue'[j].kind = "boot" /\ queue'[j].due <= clock'
  <2>1. k \in DOMAIN queue \ {i}
    BY <1>4
  <2>2. PICK j \in DOMAIN queue' : pos[j] = k
    BY <1>3, <2>1
  <2>3. queue'[j] = [queue[k] EXCEPT !.due = @ - queue[i].due]
    BY <1>3, <2>2
  <2>4. queue[k] \in Delivery /\ queue[i] \in Delivery /\ clock \in Nat
    BY <1>2 DEF TypeOK
  <2>5. queue'[j].kind = "boot" /\ queue'[j].due <= clock'
    BY <1>4, <2>3, <2>4 DEF Delivery, Arrive
  <2> QED
    BY <2>5
<1> QED
  BY <1>1, <1>4 DEF RebootInv

LEMMA RebootHeld ==
  ASSUME RebootInv, NEW i \in DOMAIN queue, HoldPacket(i)
  PROVE  RebootInv'
<1> DEFINE n == queue[i].due
           q == Later(queue, n)
<1>1. /\ Arrive(i) /\ IsNext(i) /\ TypeOK /\ queue[i].kind = "packet"
      /\ UNCHANGED <<boot, answered, reboot_pending>>
  BY DEF HoldPacket, Arrive, flagVars, guestVars, RebootInv, DeliveryInv
<1>2. /\ i \in 1..Len(queue) /\ n \in Nat
      /\ q \in Seq(Delivery) /\ Len(q) = Len(queue)
      /\ \A j \in 1..Len(queue) : q[j] = [queue[j] EXCEPT !.due = @ - n]
  BY <1>1, ArriveMembers
<1>3. queue' = [q EXCEPT ![i].due = Retry, ![i].held = TRUE]
  BY DEF HoldPacket
<1> HIDE DEF q
<1>4. DOMAIN queue = 1..Len(queue) /\ DOMAIN queue' = 1..Len(queue)
  BY <1>1, <1>2, <1>3 DEF TypeOK
<1>5. ASSUME NEW k \in DOMAIN queue, queue[k].kind = "boot", queue[k].due <= clock
      PROVE  \E j \in DOMAIN queue' : queue'[j].kind = "boot" /\ queue'[j].due <= clock'
  <2>1. k # i
    BY <1>1, <1>5
  <2>2. queue'[k] = [queue[k] EXCEPT !.due = @ - n]
    BY <1>2, <1>3, <1>4, <2>1
  <2>3. queue[k] \in Delivery /\ clock \in Nat
    BY <1>1 DEF TypeOK
  <2>4. queue'[k].kind = "boot" /\ queue'[k].due <= clock'
    BY <1>1, <1>2, <1>5, <2>2, <2>3 DEF Delivery, Arrive
  <2> QED
    BY <1>4, <2>4
<1>6. DeliveryInv'
  BY HoldPacketStep DEF RebootInv
<1>7. RightReason'
  BY <1>1 DEF RebootInv, RightReason
<1>8. boot' \in Resetting =>
        \/ answered' \/ reboot_pending'
        \/ \E j \in DOMAIN queue' : queue'[j].kind = "boot" /\ queue'[j].due <= clock'
  BY <1>1, <1>5 DEF RebootInv
<1> QED
  BY <1>6, <1>7, <1>8 DEF RebootInv

LEMMA RebootTimeline ==
  ASSUME RebootInv, Timeline
  PROVE  RebootInv'
<1>1. DeliveryInv'
  BY TimelineStep DEF RebootInv
<1>2. ASSUME NEW i \in DOMAIN queue, BootEnd(i) PROVE RebootInv'
  BY <1>1, <1>2 DEF BootEnd, guestVars, RebootInv, RightReason
<1>3. ASSUME NEW i \in DOMAIN queue, FreeEePkt(i) \/ CmdPacket(i) PROVE RebootInv'
  <2>1. /\ Arrive(i) /\ queue[i].kind # "boot" /\ Done(i)
        /\ UNCHANGED <<boot, answered, reboot_pending>>
    BY <1>3 DEF FreeEePkt, CmdPacket, flagVars, guestVars
  <2> QED
    BY <1>1, <2>1, RebootWaits DEF RebootInv
<1>4. CASE TickOver
  <2>1. ASSUME NEW i \in DOMAIN queue PROVE ~(queue[i].due <= clock)
    <3>1. queue[i] \in Delivery /\ clock \in Nat /\ queue[i].due > clock
      BY <1>4 DEF TickOver, RebootInv, DeliveryInv, TypeOK
    <3> QED
      BY <3>1 DEF Delivery
  <2>2. UNCHANGED <<boot, answered, reboot_pending>>
    BY <1>4 DEF TickOver, flagVars, guestVars
  <2> QED
    BY <1>1, <2>1, <2>2 DEF RebootInv, RightReason
<1> QED
  BY <1>2, <1>3, <1>4, RebootHeld DEF Timeline

\* A step of guest code that leaves the boot path where it is.
LEMMA RebootIdle ==
  ASSUME RebootInv, GuestRuns, DeliveryInv', UNCHANGED <<boot, answered, reboot_pending>>
  PROVE  RebootInv'
<1>1. boot \in Resetting => answered \/ reboot_pending
  BY GuestAnswered
<1> QED
  BY <1>1 DEF RebootInv, RightReason

LEMMA RebootBoot ==
  ASSUME RebootInv, Boot
  PROVE  RebootInv'
<1>1. DeliveryInv'
  BY BootPathStep DEF RebootInv
<1>2. GuestRuns /\ (boot \in Resetting => answered \/ reboot_pending)
  <2>1. GuestRuns
    BY DEF Boot, SpinCmdInit, SpinBootEnd, Spin, InitCmd0, InitCmd1, SpinSreg, ClearSif,
           ClearCmd, ClearBootEnd, ClearFlag, BootStep
  <2> QED
    BY <2>1, GuestAnswered
<1>3. CASE SpinCmdInit \/ SpinBootEnd
  <2>1. /\ answered' = (answered \/ reboot_pending)
        /\ boot = "cmdinit" \/ boot = "bootend"
    BY <1>3 DEF SpinCmdInit, SpinBootEnd, Spin, ReadSMFlag
  <2>2. answered'
    BY <1>2, <2>1 DEF Resetting, RebootInv, RightReason
  <2> QED
    BY <1>1, <2>2 DEF RebootInv, RightReason
<1>4. CASE InitCmd0 \/ InitCmd1 \/ SpinSreg \/ ClearBootEnd
  <2>1. boot \in {"init0", "init1", "sreg", "clearBoot"} /\ answered' = answered
    BY <1>4 DEF InitCmd0, InitCmd1, SpinSreg, ClearBootEnd, ClearFlag, BootStep, WriteSMFlag,
                flagVars
  <2>2. answered'
    BY <2>1 DEF RebootInv, RightReason
  <2> QED
    BY <1>1, <2>2 DEF RebootInv, RightReason
<1>5. CASE ClearSif \/ ClearCmd
  <2>1. /\ boot \in Resetting /\ boot' \in {"clearCmd", "bootend"}
        /\ answered' = answered /\ reboot_pending' = reboot_pending
    BY <1>5 DEF ClearSif, ClearCmd, ClearFlag, BootStep, WriteSMFlag, Resetting
  <2> QED
    BY <1>1, <1>2, <2>1 DEF RebootInv, RightReason
<1> QED
  BY <1>3, <1>4, <1>5 DEF Boot

\* RESET_CMD's own answer comes inside the span its SifSetDma bills.
LEMMA RebootReset ==
  ASSUME RebootInv, ResetCmd
  PROVE  RebootInv'
<1>1. DeliveryInv /\ DeliveryInv'
  BY ResetCmdStep DEF RebootInv
<1>2. boot' = "clearSif" /\ clock' = SyscallTicks /\ Answer("boot", Sreg, 0)
  BY DEF ResetCmd, BootStep, SetDma
<1>3. /\ Len(queue) + 1 \in DOMAIN queue' /\ queue'[Len(queue) + 1].kind = "boot"
      /\ queue'[Len(queue) + 1].due = Latency + 0
  BY <1>1, <1>2, AnswerMembers
<1>4. Latency + 0 <= clock'
  BY <1>2, TimesAssumption
<1> QED
  BY <1>1, <1>2, <1>3, <1>4 DEF RebootInv, RightReason

LEMMA RebootRequest ==
  ASSUME RebootInv, NEW c \in Client, NEW hold \in Nat,
         Bind(c) \/ RData(c) \/ Call(c, hold) \/ CallNoWait(c, hold)
  PROVE  RebootInv'
<1>1. DeliveryInv'
  BY RequestsStep DEF RebootInv
<1>2. GuestRuns /\ UNCHANGED <<boot, answered, reboot_pending>>
  BY DEF Bind, RData, Call, CallNoWait, Request, SetDma, flagVars
<1> QED
  BY <1>1, <1>2, RebootIdle

LEMMA RebootElapse ==
  ASSUME RebootInv, NEW n \in Nat, Elapse(n)
  PROVE  RebootInv'
<1>1. DeliveryInv'
  BY ElapseStep DEF RebootInv
<1>2. GuestRuns /\ UNCHANGED <<boot, answered, reboot_pending>>
  BY DEF Elapse, flagVars, guestVars
<1> QED
  BY <1>1, <1>2, RebootIdle

LEMMA RebootSIF0 ==
  ASSUME RebootInv, SIF0Handler
  PROVE  RebootInv'
<1>1. DeliveryInv'
  BY SIF0HandlerStep DEF RebootInv
<1>2. GuestRuns /\ UNCHANGED <<boot, answered, reboot_pending>>
  BY DEF SIF0Handler, flagVars
<1> QED
  BY <1>1, <1>2, RebootIdle

-----------------------------------------------------------------------------
(* Theorems *)

LEMMA InitDelivery ==
  ASSUME Init
  PROVE  DeliveryInv
<1>1. queue = <<>> /\ <<>> \in Seq(Delivery) /\ DOMAIN queue = {}
  BY DEF Init
<1>2. TypeOK
  BY <1>1 DEF Init, TypeOK, Flag, BootPc
<1>3. Kinds
  BY <1>1 DEF Kinds
<1>4. ASSUME NEW c \in Client PROVE Owed(c)
  <2>1. c # Empty /\ client[c] = "idle" /\ left[c] = 0
    BY ClientsAssumption DEF Init
  <2> QED
    BY <1>1, <2>1 DEF Init, Owed
<1> QED
  BY <1>2, <1>3, <1>4 DEF DeliveryInv

LEMMA InitReboot ==
  ASSUME Init
  PROVE  RebootInv
BY InitDelivery DEF Init, RebootInv, RightReason, Resetting

LEMMA NextReboot ==
  ASSUME RebootInv, [Next]_vars
  PROVE  RebootInv'
<1>1. CASE Timeline \/ SIF0Handler \/ Boot \/ ResetCmd
  BY <1>1, RebootTimeline, RebootSIF0, RebootBoot, RebootReset
<1>2. CASE Requests
  <2>1. PICK c \in Client :
          Bind(c) \/ RData(c) \/ \E hold \in 0..MaxHold : Call(c, hold) \/ CallNoWait(c, hold)
    BY <1>2 DEF Requests
  <2>2. 0..MaxHold \subseteq Nat /\ 0 \in Nat
    BY TimesAssumption
  <2> QED
    BY <2>1, <2>2, RebootRequest
<1>3. CASE \E n \in 1..MaxTick : Elapse(n)
  BY <1>3, RebootElapse, TimesAssumption
<1>4. CASE UNCHANGED vars
  BY <1>4 DEF vars, rpcVars, flagVars, guestVars, RebootInv, RightReason,
              DeliveryInv, TypeOK, Kinds, Owed
<1> QED
  BY <1>1, <1>2, <1>3, <1>4 DEF Next

\* Coming counts to one exactly for those who wait.
LEMMA OwedIsOne ==
  ASSUME DeliveryInv
  PROVE  OneCompletion
<1> SUFFICES ASSUME NEW c \in Client
             PROVE  /\ Coming(c) = (IF client[c] = "idle" THEN 0 ELSE 1)
                    /\ client[c] = "idle" => left[c] = 0
  BY DEF OneCompletion
<1> DEFINE mine == {i \in DOMAIN queue : queue[i].who = c}
<1>1. Owed(c)
  BY DEF DeliveryInv
<1>2. CASE client[c] = "idle"
  <2>1. mine = {} /\ buf # c
    BY <1>1, <1>2 DEF Owed
  <2>2. Cardinality(mine) = 0
    BY <2>1, FS_EmptySet
  <2> QED
    BY <1>1, <1>2, <2>1, <2>2 DEF Coming, Owed
<1>3. CASE client[c] # "idle" /\ buf = c
  <2>1. mine = {}
    BY <1>1, <1>3 DEF Owed
  <2>2. Cardinality(mine) = 0
    BY <2>1, FS_EmptySet
  <2> QED
    BY <1>3, <2>2 DEF Coming
<1>4. CASE client[c] # "idle" /\ buf # c
  <2>1. PICK i \in DOMAIN queue : queue[i].who = c
    BY <1>1, <1>4 DEF Owed
  <2>2. mine = {i}
    BY <1>1, <2>1 DEF Owed
  <2>3. Cardinality(mine) = 1
    BY <2>2, FS_Singleton
  <2> QED
    BY <1>4, <2>3 DEF Coming
<1> QED
  BY <1>2, <1>3, <1>4

LEMMA RebootInvariant == Spec => []RebootInv
BY InitReboot, NextReboot, PTL DEF Spec

\* The delivery queue, the buffer and the clients keep their types, and the
\* clock never passes a delivery that is due (rt_clock_tick), however many
\* clients there are.
THEOREM TypeCorrect == Spec => []TypeOK
BY RebootInvariant, PTL DEF RebootInv, DeliveryInv

\* Every request that is waited for has exactly one completion on its way,
\* and none is seen before its service is done (rpc.cpp:32-36, 718-724).
THEOREM OneCompletionCorrect == Spec => []OneCompletion
BY RebootInvariant, OwedIsOne, PTL DEF RebootInv

\* The boot path never passes a wait for the flags of a reboot on the flags of
\* the IOP before it (sif_selftest.cpp:25-28), because a SifSetDma bills at
\* least the latency of its answer (syscalls.cpp:428-440).
THEOREM RightReasonCorrect == Spec => []RightReason
BY RebootInvariant, PTL DEF RebootInv

HIDE DEF Client, Sreg, Empty

-----------------------------------------------------------------------------
(* The stream ring *)

LEMMA MinOfTwo ==
  ASSUME NEW a \in Int, NEW b \in Int
  PROVE  Min({a, b}) = IF a <= b THEN a ELSE b
<1> DEFINE m == IF a <= b THEN a ELSE b
<1>1. m \in {a, b} /\ \A y \in {a, b} : m <= y
  OBVIOUS
<1>2. Min({a, b}) \in {a, b} /\ \A y \in {a, b} : Min({a, b}) <= y
  BY <1>1 DEF Min
<1> QED
  BY <1>1, <1>2

LEMMA MaxOfTwo ==
  ASSUME NEW a \in Int, NEW b \in Int
  PROVE  Max({a, b}) = IF a >= b THEN a ELSE b
<1> DEFINE m == IF a >= b THEN a ELSE b
<1>1. m \in {a, b} /\ \A y \in {a, b} : m >= y
  OBVIOUS
<1>2. Max({a, b}) \in {a, b} /\ \A y \in {a, b} : Max({a, b}) >= y
  BY <1>1 DEF Max
<1> QED
  BY <1>1, <1>2

StreamStates ==
  [ring : Rings, running : BOOLEAN, paused : BOOLEAN, buffered : Nat, arrived : Nat, next : Int]

\* A ring that is not overfull, with the bank being filled still in it.
StreamOK(s) ==
  /\ s \in StreamStates
  /\ s.buffered <= s.ring.max /\ s.arrived < s.ring.bank /\ s.arrived <= s.buffered

LEMMA RingType ==
  ASSUME NEW s, StreamOK(s)
  PROVE  /\ s.ring \in Rings /\ s.ring.max \in Nat \ {0} /\ s.ring.bank \in Nat \ {0}
         /\ s.buffered \in Nat /\ s.arrived \in Nat /\ s.next \in Int
         /\ s.running \in BOOLEAN /\ s.paused \in BOOLEAN
<1>1. s \in StreamStates
  BY DEF StreamOK
<1>2. s.ring \in Rings
  BY <1>1 DEF StreamStates
<1>3. {s.ring.max, s.ring.bank} \subseteq Nat \ {0}
  BY <1>2, DriveAssumption
<1> QED
  BY <1>1, <1>2, <1>3 DEF StreamStates

LEMMA EmptyOK ==
  ASSUME NEW ring \in Rings
  PROVE  StreamOK(StreamState(ring))
<1>1. {ring.max, ring.bank} \subseteq Nat \ {0}
  BY DriveAssumption
<1>2. ring.max \in Nat /\ ring.bank \in Nat /\ ring.bank > 0
  BY <1>1
<1> DEFINE s == StreamState(ring)
<1>3. s \in StreamStates
  BY DEF StreamState, StreamStates
<1>4. s.ring = ring /\ s.buffered = 0 /\ s.arrived = 0
  BY DEF StreamState
<1> HIDE DEF s
<1>5. StreamOK(s)
  BY <1>2, <1>3, <1>4 DEF StreamOK
<1> QED
  BY <1>5 DEF s

LEMMA DueType ==
  ASSUME NEW s, StreamOK(s)
  PROVE  Due(s) \in Nat /\ Room(s) \in Nat
<1>1. PerSector \in Nat /\ PerSector > 0
  BY DriveAssumption
<1>2. s.next \in Int
  BY RingType
<1>3. ASSUME s.next > 0 PROVE Due(s) \in Nat
  BY <1>3 DEF Due
<1>4. ASSUME ~(s.next > 0) PROVE Due(s) \in Nat
  <2>1. -s.next \in Nat
    BY <1>2, <1>4
  <2>2. (-s.next) \div PerSector \in Nat
    BY <1>1, <2>1
  <2>3. Due(s) = 0 \/ Due(s) = (-s.next) \div PerSector + 1
    BY DEF Due
  <2> QED
    BY <2>2, <2>3
<1>5. Room(s) \in Nat
  BY RingType DEF Room, StreamOK
<1> QED
  BY <1>3, <1>4, <1>5

LEMMA ModBank ==
  ASSUME NEW a \in Nat, NEW b \in Nat \ {0}
  PROVE  a % b \in Nat /\ a % b < b /\ a % b <= a
OBVIOUS

LEMMA ReceiveOK ==
  ASSUME NEW s, StreamOK(s), NEW n \in Nat, n <= Room(s), NEW next \in Int
  PROVE  /\ StreamOK([Receive(s, n) EXCEPT !.next = next])
         /\ Receive(s, n).next = s.next
<1> DEFINE r == [Receive(s, n) EXCEPT !.next = next]
           a == (s.arrived + n) % s.ring.bank
<1>1. /\ s \in StreamStates /\ s.ring.max \in Nat /\ s.ring.bank \in Nat \ {0}
      /\ s.buffered \in Nat /\ s.arrived \in Nat
  BY RingType DEF StreamOK
<1>2. a \in Nat /\ a < s.ring.bank /\ a <= s.arrived + n
  <2>1. s.arrived + n \in Nat
    BY <1>1
  <2> QED
    BY <1>1, <2>1, ModBank
<1> HIDE DEF a
<1>3. r = [s EXCEPT !.buffered = s.buffered + n, !.arrived = a, !.next = next]
  BY <1>1 DEF Receive, StreamStates, a
<1> HIDE DEF r
<1>4. /\ r \in StreamStates /\ r.ring = s.ring /\ r.buffered = s.buffered + n /\ r.arrived = a
  <2>1. s.buffered + n \in Nat
    BY <1>1
  <2> QED
    BY <1>1, <1>2, <1>3, <2>1 DEF StreamStates
<1>5. Receive(s, n).next = s.next
  BY <1>1 DEF Receive, StreamStates
<1>6. s.buffered + n <= s.ring.max /\ a <= s.buffered + n
  BY <1>1, <1>2 DEF Room, StreamOK
<1>7. StreamOK(r)
  BY <1>2, <1>4, <1>6 DEF StreamOK
<1> QED
  BY <1>5, <1>7 DEF r

\* stream_advance leaves a ring in order, whenever it looks.
LEMMA AdvanceOK ==
  ASSUME NEW s, StreamOK(s)
  PROVE  StreamOK(StreamAdvance(s))
<1>1. Due(s) \in Nat /\ Room(s) \in Nat /\ PerSector \in Nat /\ s.next \in Int
  BY DueType, RingType, DriveAssumption
<1>2. CASE s.running /\ ~s.paused /\ Due(s) >= Room(s)
  BY <1>1, <1>2, ReceiveOK DEF StreamAdvance
<1>3. CASE ~(s.running /\ ~s.paused /\ Due(s) >= Room(s))
  <2>1. Due(s) <= Room(s)
    <3>1. CASE ~s.running \/ s.paused
      BY <1>1, <3>1 DEF Due
    <3>2. CASE ~(Due(s) >= Room(s))
      BY <1>1, <3>2
    <3> QED
      BY <1>3, <3>1, <3>2
  <2>2. s.next + Due(s) * PerSector \in Int
    BY <1>1
  <2>3. StreamAdvance(s) = [Receive(s, Due(s)) EXCEPT !.next = s.next + Due(s) * PerSector]
    BY <1>1, <1>3, <2>1, ReceiveOK DEF StreamAdvance
  <2> QED
    BY <1>1, <2>1, <2>2, <2>3, ReceiveOK
<1> QED
  BY <1>2, <1>3

LEMMA ElapsedOK ==
  ASSUME NEW s, StreamOK(s), NEW n \in Nat
  PROVE  StreamOK(Elapsed(s, n))
<1>1. CASE ~s.running \/ s.paused
  BY <1>1 DEF Elapsed
<1>2. CASE s.running /\ ~s.paused
  <2> DEFINE m == Max({s.next - n, -(s.ring.max * PerSector)})
  <2>1. s.next \in Int /\ s.ring.max * PerSector \in Int
    BY RingType, DriveAssumption
  <2>2. m \in Int
    BY <2>1, MaxOfTwo
  <2>3. Elapsed(s, n) = [s EXCEPT !.next = m]
    BY <1>2 DEF Elapsed, StreamOK, StreamStates
  <2> HIDE DEF m
  <2> QED
    BY <2>2, <2>3 DEF StreamOK, StreamStates
<1> QED
  BY <1>1, <1>2, RingType

-----------------------------------------------------------------------------
(* The invariant *)

\* What the server still has to do beyond the latency of its answer.
Work(l) == IF l > Latency THEN l - Latency ELSE 0

\* The drive is busy as long as the client of the last read has work under way.
BusyIsRead == busy = IF reader \in Client THEN Work(left[reader]) ELSE 0

CdInv ==
  /\ RebootInv
  /\ StreamOK(g_st)
  /\ reader \in Client \cup {0} /\ want \in Nat
  /\ BusyIsRead

\* A step of the RPC layer: the work goes down with the clock, or is none of a read's.
WorksOn(n) == \A c \in Client : Work(left'[c]) = Work(IF left[c] > n THEN left[c] - n ELSE 0)

LEMMA WorkType ==
  ASSUME CdInv, NEW c \in Client
  PROVE  left[c] \in Nat /\ Work(left[c]) \in Nat
<1>1. left[c] \in Nat /\ Latency \in Nat
  BY TimesAssumption DEF CdInv, RebootInv, DeliveryInv, TypeOK
<1> QED
  BY <1>1 DEF Work

LEMMA PassedStep ==
  ASSUME CdInv, RebootInv', TimePasses, Passed \in Nat, WorksOn(Passed)
  PROVE  CdInv'
<1>1. StreamOK(g_st)'
  BY ElapsedOK DEF TimePasses, CdInv
<1>2. reader' = reader /\ want' = want /\ busy' = Max({busy - Passed, 0})
  BY DEF TimePasses
<1>3. BusyIsRead'
  <2>1. CASE reader \in Client
    <3> DEFINE l == left[reader]
    <3>1. l \in Nat /\ Latency \in Nat /\ busy = Work(l) /\ Work(l) \in Nat
      BY <2>1, WorkType, TimesAssumption DEF CdInv, BusyIsRead
    <3>2. Work(left'[reader]) = Work(IF l > Passed THEN l - Passed ELSE 0)
      BY <2>1 DEF WorksOn
    <3> HIDE DEF l
    <3>3. busy' = IF busy - Passed >= 0 THEN busy - Passed ELSE 0
      BY <1>2, <3>1, MaxOfTwo
    <3>4. busy' = Work(left'[reader])
      BY <3>1, <3>2, <3>3 DEF Work
    <3> QED
      BY <1>2, <2>1, <3>4 DEF BusyIsRead
  <2>2. CASE reader \notin Client
    <3>1. busy = 0
      BY <2>2 DEF CdInv, BusyIsRead
    <3>2. busy' = 0
      BY <1>2, <3>1, MaxOfTwo
    <3> QED
      BY <1>2, <2>2, <3>2 DEF BusyIsRead
  <2> QED
    BY <2>1, <2>2
<1> QED
  BY <1>1, <1>2, <1>3 DEF CdInv

\* The work of the clients as a step of the timeline leaves it.
LEMMA TimelinePasses ==
  ASSUME CdInv, Timeline
  PROVE  Passed \in Nat /\ WorksOn(Passed)
<1>0. DeliveryInv /\ clock \in Nat
  BY DEF CdInv, RebootInv, DeliveryInv, TypeOK
<1>1. ASSUME NEW i \in DOMAIN queue, Arrive(i)
      PROVE  Passed \in Nat /\ WorksOn(Passed)
  <2>1. queue[i].due \in Nat
    BY <1>0, <1>1, ArriveStep
  <2>2. clock' = clock - queue[i].due
    BY <1>1 DEF Arrive
  <2>3. Passed = queue[i].due
    BY <1>0, <2>1, <2>2 DEF Passed
  <2> QED
    BY <1>0, <1>1, <2>1, <2>3, ArriveStep DEF WorksOn
<1>2. CASE TickOver
  <2>1. Passed = clock
    BY <1>0, <1>2 DEF TickOver, Passed
  <2> QED
    BY <1>0, <1>2, <2>1 DEF TickOver, Works, WorksOn
<1> QED
  BY <1>1, <1>2 DEF Timeline, BootEnd, FreeEePkt, CmdPacket, HoldPacket

\* Guest code bills the clock first, which passes the time later.
LEMMA GuestPasses ==
  ASSUME CdInv, GuestRuns, clock' \in Nat,
         \A c \in Client : left'[c] = left[c] \/ (left[c] = 0 /\ left'[c] = Latency)
  PROVE  Passed \in Nat /\ WorksOn(Passed)
<1>1. Passed = 0
  BY DEF Passed, GuestRuns
<1>2. ASSUME NEW c \in Client
      PROVE  Work(left'[c]) = Work(IF left[c] > 0 THEN left[c] - 0 ELSE 0)
  <2>1. left[c] \in Nat /\ Latency \in Nat
    BY WorkType, TimesAssumption
  <2>2. CASE left'[c] = left[c]
    BY <2>1, <2>2 DEF Work
  <2>3. CASE left[c] = 0 /\ left'[c] = Latency
    BY <2>1, <2>3 DEF Work
  <2> QED
    BY <2>2, <2>3
<1> QED
  BY <1>1, <1>2 DEF WorksOn

-----------------------------------------------------------------------------
(* The steps *)

LEMMA ClockStep ==
  ASSUME CdInv, Timeline \/ SIF0Handler \/ Boot \/ ResetCmd, TimePasses
  PROVE  CdInv'
<1>1. RebootInv /\ RebootInv'
  BY RebootTimeline, RebootSIF0, RebootBoot, RebootReset DEF CdInv
<1>2. CASE Timeline
  BY <1>1, <1>2, TimelinePasses, PassedStep
<1>3. CASE SIF0Handler \/ Boot \/ ResetCmd
  <2>1. GuestRuns /\ left' = left
    BY <1>3 DEF SIF0Handler, Boot, ResetCmd, SpinCmdInit, SpinBootEnd, Spin, InitCmd0, InitCmd1,
                SpinSreg, ClearSif, ClearCmd, ClearBootEnd, ClearFlag, BootStep, NoTransfer, rpcVars
  <2>2. clock' \in Nat
    BY <1>1 DEF RebootInv, DeliveryInv, TypeOK
  <2> QED
    BY <1>1, <2>1, <2>2, GuestPasses, PassedStep
<1> QED
  BY <1>2, <1>3

LEMMA SpanStep ==
  ASSUME CdInv, NEW n \in Nat, Elapse(n), TimePasses
  PROVE  CdInv'
<1>1. RebootInv /\ RebootInv'
  BY RebootElapse DEF CdInv
<1>2. GuestRuns /\ left' = left /\ clock' \in Nat
  BY DEF Elapse
<1> QED
  BY <1>1, <1>2, GuestPasses, PassedStep

\* A client that makes a request had no work under way.
LEMMA RequestWork ==
  ASSUME CdInv, NEW c \in Client, NEW how, NEW hold \in Nat, Request(c, how, hold)
  PROVE  /\ GuestRuns /\ clock' = SyscallTicks /\ left[c] = 0 /\ left'[c] = Latency + hold
         /\ \A o \in Client \ {c} : left'[o] = left[o]
<1>1. left \in [Client -> Nat] /\ Owed(c)
  BY DEF CdInv, RebootInv, DeliveryInv, TypeOK
<1> QED
  BY <1>1 DEF Request, SetDma, Owed

LEMMA OthersStep ==
  ASSUME CdInv, NEW c \in Client, Others(c)
  PROVE  CdInv'
<1>1. TimePasses /\ RebootInv /\ 0 \in Nat
  BY DEF Others, CdInv
<1>2. RebootInv'
  BY <1>1, RebootRequest DEF Others
<1>3. PICK how \in {"end", "free"} : Request(c, how, 0)
  BY DEF Others, Bind, RData, CallNoWait
<1>4. /\ GuestRuns /\ clock' = SyscallTicks /\ left[c] = 0 /\ left'[c] = Latency + 0
      /\ \A o \in Client \ {c} : left'[o] = left[o]
  BY <1>1, <1>3, RequestWork
<1>5. \A o \in Client : left'[o] = left[o] \/ (left[o] = 0 /\ left'[o] = Latency)
  BY <1>4, TimesAssumption
<1> QED
  BY <1>1, <1>2, <1>4, <1>5, TimesAssumption, GuestPasses, PassedStep

\* A command the drive answers at once.
LEMMA CommandStep ==
  ASSUME CdInv, NEW c \in Client, Command(c, 0), UNCHANGED <<busy, reader>>,
         StreamOK(g_st'), want' \in Nat
  PROVE  CdInv'
<1>1. RebootInv' /\ RebootInv
  BY RebootRequest DEF Command, CdInv
<1>2. /\ left[c] = 0 /\ left'[c] = Latency
      /\ \A o \in Client \ {c} : left'[o] = left[o]
  BY RequestWork, TimesAssumption DEF Command, Call
<1>3. \A o \in Client : Work(left'[o]) = Work(left[o])
  BY <1>2, TimesAssumption DEF Work
<1>4. BusyIsRead'
  BY <1>3 DEF BusyIsRead, CdInv
<1> QED
  BY <1>1, <1>4 DEF CdInv

\* The commands of the stream ring.
LEMMA StreamSteps ==
  ASSUME CdInv, NEW c \in Client,
         \/ \E ring \in Rings : StInit(c, ring)
         \/ StSeek(c) \/ StStop(c) \/ StStat(c) \/ StPause(c) \/ StResume(c) \/ StRead(c)
  PROVE  CdInv'
<1> DEFINE s == StreamAdvance(g_st)
<1>1. StreamOK(g_st) /\ StreamOK(s) /\ want \in Nat
  BY AdvanceOK DEF CdInv
<1>2. /\ g_st \in StreamStates /\ s \in StreamStates
      /\ g_st.ring.bank \in Nat \ {0} /\ g_st.ring.max \in Nat
      /\ s.ring \in Rings /\ s.buffered \in Nat /\ s.arrived \in Nat
  BY <1>1, RingType DEF StreamOK
<1> HIDE DEF s
<1>3. ASSUME NEW t, StreamOK(t), Stream(c, t), want' \in Nat
      PROVE  CdInv'
  BY <1>3, CommandStep DEF Stream
<1>4. ASSUME NEW ring \in Rings, StInit(c, ring) PROVE CdInv'
  BY <1>3, <1>4, EmptyOK DEF StInit
<1>5. CASE StSeek(c)
  <2> DEFINE t == [g_st EXCEPT !.running = TRUE, !.paused = FALSE, !.buffered = 0,
                               !.arrived = 0, !.next = SeekTime]
  <2>0. SeekTime \in Int
    BY DriveAssumption
  <2>1. t \in StreamStates /\ t.ring = g_st.ring /\ t.buffered = 0 /\ t.arrived = 0
    BY <1>2, <2>0 DEF StreamStates
  <2> HIDE DEF t
  <2>2. StreamOK(t)
    BY <1>2, <2>1 DEF StreamOK
  <2>3. Stream(c, t) /\ want' = 0
    BY <1>5 DEF StSeek, t
  <2> QED
    BY <1>3, <2>2, <2>3
<1>6. CASE StStop(c)
  <2> DEFINE t == [g_st EXCEPT !.running = FALSE, !.paused = FALSE, !.buffered = 0, !.arrived = 0]
  <2>1. t \in StreamStates /\ t.ring = g_st.ring /\ t.buffered = 0 /\ t.arrived = 0
    BY <1>2 DEF StreamStates
  <2> HIDE DEF t
  <2>2. StreamOK(t)
    BY <1>2, <2>1 DEF StreamOK
  <2>3. Stream(c, t) /\ want' = 0
    BY <1>6 DEF StStop, t
  <2> QED
    BY <1>3, <2>2, <2>3
<1>7. CASE StStat(c)
  BY <1>1, <1>3, <1>7 DEF StStat, s
<1>8. CASE StPause(c)
  <2> DEFINE t == [s EXCEPT !.paused = TRUE]
  <2>1. StreamOK(t)
    BY <1>1, <1>2 DEF StreamOK, StreamStates
  <2>2. Stream(c, t) /\ want' = want
    BY <1>8 DEF StPause, s
  <2> HIDE DEF t
  <2> QED
    BY <1>1, <1>3, <2>1, <2>2
<1>9. CASE StResume(c)
  <2> DEFINE t == [g_st EXCEPT !.paused = FALSE]
  <2>1. StreamOK(t)
    BY <1>1, <1>2 DEF StreamOK, StreamStates
  <2>2. Stream(c, t) /\ want' = want
    BY <1>9 DEF StResume
  <2> HIDE DEF t
  <2> QED
    BY <1>1, <1>3, <2>1, <2>2
<1>10. CASE StRead(c)
  <2> DEFINE give == Min({want, StreamReady(s)})
             t    == [s EXCEPT !.buffered = @ - give]
  <2>1. /\ StreamReady(s) \in Nat /\ StreamReady(s) <= s.buffered - s.arrived
    BY <1>1, <1>2 DEF StreamOK, StreamReady
  <2>2. give \in Nat /\ give <= want /\ give <= s.buffered - s.arrived
    BY <1>1, <1>2, <2>1, MinOfTwo
  <2>3. Stream(c, t) /\ want' = want - give
    BY <1>10 DEF StRead, s
  <2> HIDE DEF give
  <2>4. s.buffered - give \in Nat
    BY <1>2, <2>2
  <2>5. t \in StreamStates /\ t.ring = s.ring /\ t.buffered = s.buffered - give
        /\ t.arrived = s.arrived
    BY <1>2, <2>4 DEF StreamStates
  <2> HIDE DEF t
  <2>6. s.ring.max \in Nat /\ s.buffered <= s.ring.max /\ s.arrived < s.ring.bank
    BY <1>1, RingType DEF StreamOK
  <2>7. StreamOK(t)
    BY <1>2, <2>2, <2>4, <2>5, <2>6 DEF StreamOK
  <2>8. want' \in Nat
    BY <1>1, <2>2, <2>3
  <2> QED
    BY <1>3, <2>3, <2>7, <2>8
<1> QED
  BY <1>4, <1>5, <1>6, <1>7, <1>8, <1>9, <1>10

\* sceCdRead: busy for as long as the completion is held.
LEMMA ReadStep ==
  ASSUME CdInv, NEW c \in Client, NEW n \in 1..MaxSectors, CdRead(c, n)
  PROVE  CdInv'
<1> DEFINE hold == n * PerSector
<1>1. hold \in Nat /\ hold > 0
  BY DriveAssumption
<1>2. Command(c, hold) /\ busy' = hold /\ reader' = c /\ UNCHANGED <<g_st, want>>
  BY DEF CdRead
<1> HIDE DEF hold
<1>3. RebootInv'
  BY <1>1, <1>2, RebootRequest DEF Command, CdInv
<1>4. left'[c] = Latency + hold
  BY <1>1, <1>2, RequestWork DEF Command, Call
<1>5. Work(left'[c]) = hold
  BY <1>1, <1>4, TimesAssumption DEF Work
<1>6. BusyIsRead'
  BY <1>2, <1>5 DEF BusyIsRead
<1> QED
  BY <1>2, <1>3, <1>6 DEF CdInv

LEMMA CdNextInv ==
  ASSUME CdInv, [CdNext]_allVars
  PROVE  CdInv'
<1>1. CASE (Timeline \/ SIF0Handler \/ Boot \/ ResetCmd) /\ TimePasses
  BY <1>1, ClockStep
<1>2. CASE \E n \in 1..MaxTick : Elapse(n) /\ TimePasses
  BY <1>2, SpanStep, TimesAssumption
<1>3. ASSUME NEW c \in Client, Drive(c) PROVE CdInv'
  <2>1. CASE \/ \E ring \in Rings : StInit(c, ring)
             \/ StSeek(c) \/ StStop(c) \/ StStat(c) \/ StPause(c) \/ StResume(c) \/ StRead(c)
    BY <2>1, StreamSteps
  <2>2. CASE \E n \in 1..MaxSectors : CdRead(c, n)
    BY <2>2, ReadStep
  <2>3. CASE DiskReady(c)
    <3>1. StreamOK(g_st') /\ want' \in Nat /\ Command(c, 0) /\ UNCHANGED <<busy, reader>>
      BY <2>3 DEF DiskReady, cdVars, CdInv
    <3> QED
      BY <3>1, CommandStep
  <2> QED
    BY <1>3, <2>1, <2>2, <2>3 DEF Drive
<1>4. ASSUME NEW c \in Client, Others(c) PROVE CdInv'
  BY <1>4, OthersStep
<1>5. CASE \E n \in Asks : Ask(n)
  <2>1. PICK n \in Asks : Ask(n)
    BY <1>5
  <2>2. UNCHANGED <<vars, g_st, busy, reader>> /\ want' \in Nat
    BY <2>1, DriveAssumption DEF Ask
  <2>3. RebootInv'
    BY <2>2, NextReboot DEF CdInv
  <2> QED
    BY <2>2, <2>3 DEF CdInv, BusyIsRead, vars, rpcVars
<1>6. CASE UNCHANGED allVars
  <2>1. RebootInv'
    BY <1>6, NextReboot DEF CdInv, allVars
  <2> QED
    BY <1>6, <2>1 DEF CdInv, BusyIsRead, allVars, cdVars, vars, rpcVars
<1> QED
  BY <1>1, <1>2, <1>3, <1>4, <1>5, <1>6 DEF CdNext

LEMMA CdInitInv ==
  ASSUME CdInit
  PROVE  CdInv
<1>1. RebootInv
  BY InitReboot DEF CdInit
<1>2. StreamOK(g_st)
  BY EmptyOK DEF CdInit
<1>3. reader = 0 /\ want = 0 /\ busy = 0
  BY DEF CdInit
<1>4. BusyIsRead
  <2>1. reader \notin Client
    BY <1>3, ClientsAssumption DEF Client
  <2> QED
    BY <1>3, <2>1 DEF BusyIsRead
<1> QED
  BY <1>1, <1>2, <1>3, <1>4 DEF CdInv

LEMMA CdInvariant == CdSpec => []CdInv
BY CdInitInv, CdNextInv, PTL DEF CdSpec

-----------------------------------------------------------------------------
(* Theorems *)

\* The stream ring is never overfull, and no read takes a sector of the bank
\* being filled, whatever the ring and whenever the drive is looked at
\* (stream_advance and stream_ready).
THEOREM CdTypeCorrect == CdSpec => []CdTypeOK
<1>1. CdInv => CdTypeOK
  <2> SUFFICES ASSUME CdInv PROVE CdTypeOK
    OBVIOUS
  <2>1. TypeOK /\ StreamOK(g_st) /\ reader \in Client \cup {0} /\ want \in Nat
    BY DEF CdInv, RebootInv, DeliveryInv
  <2>2. busy \in Nat
    <3>1. CASE reader \in Client
      BY <3>1, WorkType DEF CdInv, BusyIsRead
    <3>2. CASE reader \notin Client
      BY <3>2 DEF CdInv, BusyIsRead
    <3> QED
      BY <3>1, <3>2
  <2>3. /\ g_st.ring \in Rings /\ g_st.ring.max \in Nat /\ g_st.ring.bank \in Nat
        /\ g_st.buffered \in Nat /\ g_st.arrived \in Nat /\ g_st.next \in Int
        /\ g_st.running \in BOOLEAN /\ g_st.paused \in BOOLEAN
    BY <2>1, RingType
  <2>4. /\ g_st.buffered \in 0..g_st.ring.max /\ g_st.arrived \in 0..g_st.ring.bank - 1
        /\ g_st.arrived <= g_st.buffered
    BY <2>1, <2>3 DEF StreamOK
  <2> QED
    BY <2>1, <2>2, <2>3, <2>4 DEF CdTypeOK
<1> QED
  BY <1>1, CdInvariant, PTL

\* Behind the drive as behind any service, every request has exactly one
\* completion and none before its hold is over (rt_rpc_hold_completion).
THEOREM CdOneCompletion == CdSpec => []OneCompletion
BY CdInvariant, OwedIsOne, PTL DEF CdInv, RebootInv

\* However long the drive holds a completion, the boot path does not take the
\* flags of the old IOP for those of the new one (sif.cpp:52-59).
THEOREM CdRightReason == CdSpec => []RightReason
BY CdInvariant, PTL DEF CdInv, RebootInv

\* The drive says "not ready" exactly while another client's sceCdRead has its
\* transfer to go, never to the client whose read has ended (cdvd.cpp:792-807).
THEOREM PollTruthfulCorrect == CdSpec => PollTruthful
<1>1. ASSUME CdInv, NEW c \in Client, DiskReady(c)
      PROVE  busy > 0 <=> \E o \in Client \ {c} : reader = o /\ left[o] > Latency
  <2>1. left[c] = 0
    BY <1>1, RequestWork, TimesAssumption DEF DiskReady, Command, Call
  <2>2. CASE reader \in Client
    <3>1. left[reader] \in Nat /\ Latency \in Nat /\ busy = Work(left[reader])
      BY <1>1, <2>2, WorkType, TimesAssumption DEF CdInv, BusyIsRead
    <3>2. (busy > 0) <=> left[reader] > Latency
      BY <3>1 DEF Work
    <3>3. left[reader] > Latency => reader # c
      BY <2>1, <3>1
    <3> QED
      BY <2>2, <3>2, <3>3
  <2>3. CASE reader \notin Client
    <3>1. ~(busy > 0)
      BY <1>1, <2>3 DEF CdInv, BusyIsRead
    <3> QED
      BY <2>3, <3>1
  <2> QED
    BY <2>2, <2>3
<1>2. CdInv => \A c \in Client : DiskReady(c) =>
        (busy > 0 <=> \E o \in Client \ {c} : reader = o /\ left[o] > Latency)
  BY <1>1
<1> QED
  BY <1>2, CdInvariant, PTL DEF PollTruthful

-----------------------------------------------------------------------------
(* Division, and naturals *)

LEMMA Division ==
  ASSUME NEW a \in Int, NEW b \in Nat \ {0}
  PROVE  /\ a \div b \in Int /\ a % b \in 0..(b - 1)
         /\ a = b * (a \div b) + (a % b)
  OBVIOUS

\* Quotient and remainder are what their equation says.
LEMMA DivisionUnique ==
  ASSUME NEW b \in Nat \ {0}, NEW q \in Int, NEW r \in 0..(b - 1)
  PROVE  (b * q + r) \div b = q /\ (b * q + r) % b = r
<1> DEFINE a == b * q + r
<1>1. a \in Int
  OBVIOUS
<1>2. /\ a \div b \in Int /\ a % b \in 0..(b - 1)
      /\ a = b * (a \div b) + (a % b)
  BY <1>1, Division
<1> QED
  BY <1>1, <1>2

LEMMA OneMore ==
  ASSUME NEW a \in Nat, NEW b \in Nat \ {0}
  PROVE  /\ (a + 1) \div b = IF (a % b) + 1 = b THEN (a \div b) + 1 ELSE a \div b
         /\ (a + 1) % b = IF (a % b) + 1 = b THEN 0 ELSE (a % b) + 1
<1>1. /\ a \div b \in Int /\ a % b \in 0..(b - 1)
      /\ a = b * (a \div b) + (a % b)
  BY Division
<1>2. CASE (a % b) + 1 = b
  <2>1. a + 1 = b * ((a \div b) + 1) + 0 /\ (a \div b) + 1 \in Int /\ 0 \in 0..(b - 1)
    BY <1>1, <1>2
  <2> QED
    BY <1>2, <2>1, DivisionUnique, ZenonT(40)
<1>3. CASE (a % b) + 1 # b
  <2> DEFINE q == a \div b
             r == (a % b) + 1
  <2>1. a + 1 = b * q + r /\ q \in Int /\ r \in 0..(b - 1)
    BY <1>1, <1>3
  <2> HIDE DEF q, r
  <2>2. (a + 1) \div b = q /\ (a + 1) % b = r
    BY <2>1, DivisionUnique
  <2> QED
    BY <1>3, <2>2 DEF q, r
<1> QED
  BY <1>2, <1>3

\* A nonempty set of naturals has a least element.
LEMMA LeastNat ==
  ASSUME NEW S \in SUBSET Nat, S # {}
  PROVE  \E x \in S : \A y \in S : x <= y
<1> DEFINE R == {ss \in Nat \X Nat : ss[1] < ss[2]}
<1>1. IsWellFoundedOn(R, Nat)
  BY NatLessThanWellFounded DEF OpToRel
<1>2. PICK x \in S : \A y \in S : ~ (<<y, x>> \in R)
  BY <1>1, WFMin
<1>3. ASSUME NEW y \in S PROVE x <= y
  <2>1. x \in Nat /\ y \in Nat /\ <<y, x>> \in Nat \X Nat /\ ~ (<<y, x>> \in R)
    BY <1>2
  <2>2. ~ (y < x)
    BY <2>1
  <2> QED
    BY <2>1, <2>2
<1> QED
  BY <1>3

-----------------------------------------------------------------------------
(* What a look shows *)

\* A look at a ring that moves: it is full, or the next sector is still to come.
LEMMA LookFull ==
  ASSUME NEW s, StreamOK(s), s.running, ~s.paused, Due(s) >= Room(s)
  PROVE  /\ StreamAdvance(s) = [s EXCEPT !.buffered = s.ring.max,
                                         !.arrived = (s.arrived + Room(s)) % s.ring.bank,
                                         !.next = PerSector]
<1>1. s \in StreamStates /\ s.buffered \in Nat /\ s.ring.max \in Nat
  BY RingType DEF StreamOK
<1>2. s.buffered + Room(s) = s.ring.max
  BY <1>1 DEF Room
<1>3. Receive(s, Room(s)) = [s EXCEPT !.buffered = s.ring.max,
                                      !.arrived = (s.arrived + Room(s)) % s.ring.bank]
  BY <1>1, <1>2 DEF Receive, StreamStates
<1> QED
  BY <1>1, <1>3 DEF StreamAdvance, StreamStates

LEMMA LookOn ==
  ASSUME NEW s, StreamOK(s), ~(s.running /\ ~s.paused /\ Due(s) >= Room(s))
  PROVE  /\ StreamAdvance(s) = [s EXCEPT !.buffered = s.buffered + Due(s),
                                         !.arrived = (s.arrived + Due(s)) % s.ring.bank,
                                         !.next = s.next + Due(s) * PerSector]
<1>1. s \in StreamStates /\ s.buffered \in Nat /\ s.next \in Int
  BY RingType DEF StreamOK
<1>2. Receive(s, Due(s)) = [s EXCEPT !.buffered = s.buffered + Due(s),
                                     !.arrived = (s.arrived + Due(s)) % s.ring.bank]
  BY <1>1 DEF Receive, StreamStates
<1> QED
  BY <1>1, <1>2 DEF StreamAdvance, StreamStates

LEMMA ModSmall ==
  ASSUME NEW a \in Nat, NEW b \in Nat \ {0}, a < b
  PROVE  a % b = a
<1>1. a = b * 0 + a /\ a \in 0..(b - 1) /\ 0 \in Int
  OBVIOUS
<1> QED
  BY <1>1, DivisionUnique, ZenonT(40)

\* A ring that has nothing due and room, or that does not move, looks as it is.
LEMMA LookStill ==
  ASSUME NEW s, StreamOK(s),
         \/ ~s.running \/ s.paused
         \/ s.next > 0 /\ (s.buffered = s.ring.max => s.next = PerSector)
  PROVE  StreamAdvance(s) = s
<1>1. /\ s \in StreamStates /\ s.buffered \in Nat /\ s.arrived \in Nat /\ s.next \in Int
      /\ s.ring.max \in Nat /\ s.ring.bank \in Nat \ {0} /\ PerSector \in Nat
      /\ s.arrived < s.ring.bank /\ s.buffered <= s.ring.max
  BY RingType, DriveAssumption DEF StreamOK
<1>2. Due(s) = 0
  BY <1>1 DEF Due
<1>3. (s.arrived + 0) % s.ring.bank = s.arrived
  <2>1. s.arrived + 0 = s.arrived
    BY <1>1
  <2> QED
    BY <1>1, <2>1, ModSmall
<1>4. CASE s.running /\ ~s.paused /\ Due(s) >= Room(s)
  <2>1. Room(s) = 0 /\ s.buffered = s.ring.max /\ s.next = PerSector
    BY <1>1, <1>2, <1>4 DEF Room
  <2>2. StreamAdvance(s) = [s EXCEPT !.buffered = s.buffered, !.arrived = s.arrived, !.next = s.next]
    BY <1>3, <1>4, <2>1, LookFull
  <2> QED
    BY <1>1, <2>2 DEF StreamStates
<1>5. CASE ~(s.running /\ ~s.paused /\ Due(s) >= Room(s))
  <2>1. s.buffered + 0 = s.buffered /\ s.next + 0 * PerSector = s.next
    BY <1>1
  <2>2. StreamAdvance(s) = [s EXCEPT !.buffered = s.buffered, !.arrived = s.arrived, !.next = s.next]
    BY <1>2, <1>3, <1>5, <2>1, LookOn
  <2> QED
    BY <1>1, <2>2 DEF StreamStates
<1> QED
  BY <1>4, <1>5

\* What is due, when the next sector is: one sector per PerSector cycles.
LEMMA DueIs ==
  ASSUME NEW s, StreamOK(s), s.running, ~s.paused, ~(s.next > 0)
  PROVE  /\ (-s.next) \div PerSector \in Nat /\ (-s.next) % PerSector \in 0..(PerSector - 1)
         /\ -s.next = PerSector * ((-s.next) \div PerSector) + ((-s.next) % PerSector)
         /\ Due(s) = (-s.next) \div PerSector + 1
<1>1. s.next \in Int /\ PerSector \in Nat \ {0}
  BY RingType, DriveAssumption
<1>2. -s.next \in Nat
  BY <1>1
<1> DEFINE a == -s.next
           b == PerSector
<1>3. a \in Nat /\ a \in Int /\ b \in Nat \ {0}
  BY <1>1, <1>2
<1> HIDE DEF a, b
<1>4. /\ a \div b \in Int /\ a % b \in 0..(b - 1)
      /\ a = b * (a \div b) + (a % b)
  BY <1>3, Division
<1>5. a \div b \in Nat
  BY <1>3
<1> QED
  BY <1>4, <1>5 DEF Due, a, b

\* A look leaves the next sector still to come, a whole one if the ring is full.
LEMMA LookWaits ==
  ASSUME NEW s, StreamOK(s), s.running, ~s.paused
  PROVE  LET t == StreamAdvance(s)
         IN t.next > 0 /\ (t.buffered = t.ring.max => t.next = PerSector)
<1> DEFINE t == StreamAdvance(s)
<1>1. /\ s \in StreamStates /\ s.buffered \in Nat /\ s.next \in Int /\ s.ring.max \in Nat
      /\ PerSector \in Nat /\ PerSector > 0 /\ Due(s) \in Nat
  BY RingType, DueType, DriveAssumption DEF StreamOK
<1>2. CASE Due(s) >= Room(s)
  <2>1. t.next = PerSector
    BY <1>1, <1>2, LookFull DEF StreamStates
  <2> QED
    BY <1>1, <2>1
<1>3. CASE ~(Due(s) >= Room(s))
  <2>1. /\ t.next = s.next + Due(s) * PerSector /\ t.buffered = s.buffered + Due(s)
        /\ t.ring = s.ring
    BY <1>1, <1>3, LookOn DEF StreamStates
  <2>2. t.buffered < t.ring.max
    BY <1>1, <1>3, <2>1 DEF Room
  <2>3. CASE s.next > 0
    <3>1. Due(s) = 0
      BY <2>3 DEF Due
    <3> QED
      BY <1>1, <2>1, <2>2, <2>3, <3>1
  <2>4. CASE ~(s.next > 0)
    <3> DEFINE q == (-s.next) \div PerSector
               r == (-s.next) % PerSector
    <3>1. /\ q \in Nat /\ r \in 0..(PerSector - 1) /\ -s.next = PerSector * q + r
          /\ Due(s) = q + 1
      BY <2>4, DueIs
    <3> HIDE DEF q, r, t
    <3>2. t.next = PerSector - r
      <4>1. PICK x : x = PerSector * q
        OBVIOUS
      <4>2. x \in Int /\ (q + 1) * PerSector = x + PerSector
        BY <1>1, <3>1, <4>1
      <4>3. t.next = s.next + (x + PerSector) /\ -s.next = x + r
        BY <2>1, <3>1, <4>1, <4>2
      <4> QED
        BY <1>1, <3>1, <4>2, <4>3
    <3>3. t.next > 0 /\ ~ (t.buffered = t.ring.max)
      BY <1>1, <2>1, <2>2, <3>1, <3>2
    <3> QED
      BY <3>3 DEF t
  <2> QED
    BY <2>3, <2>4
<1> QED
  BY <1>2, <1>3

\* A drive as far behind as the schedule is kept has filled any ring.
LEMMA OverdueFull ==
  ASSUME NEW s, StreamOK(s), s.running, ~s.paused, s.next <= -(s.ring.max * PerSector)
  PROVE  Due(s) >= Room(s)
<1>1. /\ s.buffered \in Nat /\ s.next \in Int /\ s.ring.max \in Nat /\ s.ring.max > 0
      /\ PerSector \in Nat /\ PerSector > 0
  BY RingType, DriveAssumption
<1> DEFINE m == s.ring.max
           q == (-s.next) \div PerSector
           r == (-s.next) % PerSector
<1>2. m * PerSector \in Nat
  BY <1>1
<1>3. /\ q \in Nat /\ r \in 0..(PerSector - 1) /\ -s.next = PerSector * q + r
      /\ Due(s) = q + 1
  BY <1>1, <1>2, DueIs
<1>4. m \in Nat /\ s.next <= -(m * PerSector) /\ Room(s) \in Int /\ Room(s) <= m
  BY <1>1 DEF Room
<1> HIDE DEF m, q, r
<1>5. PerSector * q + PerSector > m * PerSector
  BY <1>1, <1>3, <1>4
<1>6. ASSUME q + 1 <= m PROVE FALSE
  <2>1. (q + 1) * PerSector <= m * PerSector
    BY <1>1, <1>3, <1>4, <1>6
  <2> QED
    BY <1>1, <1>3, <1>4, <1>5, <2>1
<1> QED
  BY <1>1, <1>3, <1>4, <1>6

LEMMA LookTwice ==
  ASSUME NEW s, StreamOK(s)
  PROVE  StreamAdvance(StreamAdvance(s)) = StreamAdvance(s)
<1> DEFINE t == StreamAdvance(s)
<1>1. StreamOK(t)
  BY AdvanceOK
<1>2. CASE s.running /\ ~s.paused
  BY <1>1, <1>2, LookStill, LookWaits
<1>3. CASE ~s.running \/ s.paused
  BY <1>3, LookStill
<1> QED
  BY <1>2, <1>3

LEMMA LookKeeps ==
  ASSUME NEW s, StreamOK(s)
  PROVE  LET t == StreamAdvance(s)
         IN t.ring = s.ring /\ t.running = s.running /\ t.paused = s.paused
<1>1. s \in StreamStates
  BY DEF StreamOK
<1>2. CASE s.running /\ ~s.paused /\ Due(s) >= Room(s)
  <2>1. StreamAdvance(s) = [s EXCEPT !.buffered = s.ring.max,
                                     !.arrived = (s.arrived + Room(s)) % s.ring.bank,
                                     !.next = PerSector]
    BY <1>2, LookFull
  <2> QED
    BY <1>1, <2>1 DEF StreamStates
<1>3. CASE ~(s.running /\ ~s.paused /\ Due(s) >= Room(s))
  <2>1. StreamAdvance(s) = [s EXCEPT !.buffered = s.buffered + Due(s),
                                     !.arrived = (s.arrived + Due(s)) % s.ring.bank,
                                     !.next = s.next + Due(s) * PerSector]
    BY <1>3, LookOn
  <2> QED
    BY <1>1, <2>1 DEF StreamStates
<1> QED
  BY <1>2, <1>3

LEMMA SeenIs ==
  ASSUME NEW s, StreamOK(s), NEW t, t = StreamAdvance(s)
  PROVE  /\ Seen(s) = [ring |-> s.ring, running |-> s.running, paused |-> s.paused,
                       usable |-> t.buffered - t.arrived, part |-> t.arrived,
                       wait |-> IF s.running THEN t.next ELSE 0]
         /\ StreamOK(t)
<1>1. StreamOK(t) /\ t.buffered \in Nat /\ t.arrived \in Nat
  BY AdvanceOK, RingType
<1>2. t.ring = s.ring /\ t.running = s.running /\ t.paused = s.paused
  BY LookKeeps
<1>3. StreamReady(t) = t.buffered - t.arrived
  BY <1>1 DEF StreamReady, StreamOK
<1> QED
  BY <1>1, <1>2, <1>3 DEF Seen

\* Two schedules that are both as late as the ring is large show the same.
LEMMA SameFull ==
  ASSUME NEW s, StreamOK(s), s.running, ~s.paused, Due(s) >= Room(s),
         NEW n \in Int, NEW t, t = [s EXCEPT !.next = n], Due(t) >= Room(t)
  PROVE  StreamAdvance(t) = StreamAdvance(s)
<1>1. s \in StreamStates
  BY DEF StreamOK
<1>2. /\ t \in StreamStates /\ t.running /\ ~t.paused /\ t.ring = s.ring
      /\ t.buffered = s.buffered /\ t.arrived = s.arrived /\ StreamOK(t)
  BY <1>1 DEF StreamStates, StreamOK
<1>3. Room(t) = Room(s)
  BY <1>2 DEF Room
<1> DEFINE a == (s.arrived + Room(s)) % s.ring.bank
<1>4. StreamAdvance(s) = [s EXCEPT !.buffered = s.ring.max, !.arrived = a, !.next = PerSector]
  BY LookFull
<1>5. StreamAdvance(t) = [t EXCEPT !.buffered = s.ring.max, !.arrived = a, !.next = PerSector]
  BY <1>2, <1>3, LookFull
<1> HIDE DEF a
<1> QED
  BY <1>1, <1>4, <1>5 DEF StreamStates

-----------------------------------------------------------------------------
(* The cycles that pass *)

LEMMA ElapsedIs ==
  ASSUME NEW s, StreamOK(s), s.running, ~s.paused, NEW n \in Nat,
         NEW f, f = s.ring.max * PerSector
  PROVE  /\ f \in Nat
         /\ Elapsed(s, n) = [s EXCEPT !.next = IF s.next - n >= -f THEN s.next - n ELSE -f]
<1>1. f \in Nat /\ s.next - n \in Int /\ -f \in Int
  BY RingType, DriveAssumption
<1>2. Max({s.next - n, -f}) = IF s.next - n >= -f THEN s.next - n ELSE -f
  BY <1>1, MaxOfTwo
<1> QED
  BY <1>1, <1>2 DEF Elapsed

LEMMA ElapsedMore ==
  ASSUME NEW s, StreamOK(s), NEW n \in Nat
  PROVE  Elapsed(s, n + 1) = Elapsed(Elapsed(s, n), 1)
<1>1. CASE ~s.running \/ s.paused
  BY <1>1 DEF Elapsed
<1>2. CASE s.running /\ ~s.paused
  <2> DEFINE f == s.ring.max * PerSector
             t == Elapsed(s, n)
  <2>1. s \in StreamStates /\ s.next \in Int
    BY RingType DEF StreamOK
  <2>2. f \in Nat /\ t = [s EXCEPT !.next = IF s.next - n >= -f THEN s.next - n ELSE -f]
    BY <1>2, ElapsedIs
  <2>3. StreamOK(t)
    BY ElapsedOK
  <2>4. /\ t.running = s.running /\ t.paused = s.paused /\ t.ring = s.ring
        /\ t.next = IF s.next - n >= -f THEN s.next - n ELSE -f
    BY <2>1, <2>2 DEF StreamStates
  <2> HIDE DEF t
  <2>5. Elapsed(t, 1) = [t EXCEPT !.next = IF t.next - 1 >= -f THEN t.next - 1 ELSE -f]
    <3>1. t.running /\ ~t.paused /\ f = t.ring.max * PerSector /\ 1 \in Nat
      BY <1>2, <2>4
    <3> QED
      BY <2>3, <3>1, ElapsedIs
  <2>6. n + 1 \in Nat
    OBVIOUS
  <2>7. Elapsed(s, n + 1) = [s EXCEPT !.next = IF s.next - (n + 1) >= -f THEN s.next - (n + 1) ELSE -f]
    BY <1>2, <2>6, ElapsedIs
  <2> HIDE DEF f
  <2>8. (IF t.next - 1 >= -f THEN t.next - 1 ELSE -f)
        = (IF s.next - (n + 1) >= -f THEN s.next - (n + 1) ELSE -f)
    BY <2>1, <2>2, <2>4
  <2> DEFINE a == IF s.next - (n + 1) >= -f THEN s.next - (n + 1) ELSE -f
  <2>9. Elapsed(t, 1) = [t EXCEPT !.next = a] /\ Elapsed(s, n + 1) = [s EXCEPT !.next = a]
    BY <2>5, <2>7, <2>8
  <2> HIDE DEF a
  <2> QED
    BY <2>1, <2>2, <2>9 DEF t, StreamStates
<1> QED
  BY <1>1, <1>2

\* A look at once changes nothing.
LEMMA ElapsedNone ==
  ASSUME NEW s, StreamOK(s)
  PROVE  Seen(Elapsed(s, 0)) = Seen(s)
<1>1. CASE ~s.running \/ s.paused
  BY <1>1 DEF Elapsed
<1>2. CASE s.running /\ ~s.paused
  <2> DEFINE f == s.ring.max * PerSector
             t == Elapsed(s, 0)
  <2>1. s \in StreamStates /\ s.next \in Int
    BY RingType DEF StreamOK
  <2>2. f \in Nat /\ t = [s EXCEPT !.next = IF s.next - 0 >= -f THEN s.next - 0 ELSE -f]
    BY <1>2, ElapsedIs
  <2>3. CASE s.next >= -f
    BY <2>1, <2>2, <2>3 DEF StreamStates
  <2>4. CASE ~(s.next >= -f)
    <3>1. t = [s EXCEPT !.next = -f] /\ StreamOK(t) /\ -f \in Int /\ s.next <= -f
      BY <2>1, <2>2, <2>4, ElapsedOK
    <3> HIDE DEF t
    <3>2. t.running /\ ~t.paused /\ t.ring = s.ring /\ t.next = -f
      BY <1>2, <2>1, <3>1 DEF StreamStates
    <3>3. Due(s) >= Room(s)
      BY <1>2, <3>1, OverdueFull
    <3>4. Due(t) >= Room(t)
      <4>1. t.next <= -(t.ring.max * PerSector)
        BY <2>2, <3>2
      <4> QED
        BY <3>1, <3>2, <4>1, OverdueFull
    <3>5. StreamAdvance(t) = StreamAdvance(s)
      BY <1>2, <3>1, <3>3, <3>4, SameFull
    <3> QED
      BY <3>5 DEF Seen, t
  <2> QED
    BY <2>3, <2>4
<1> QED
  BY <1>1, <1>2

\* A cycle that completes no sector.
LEMMA QuietCycle ==
  ASSUME NEW s, StreamOK(s), s.running, ~s.paused, Due(s) < Room(s),
         NEW t, t = [s EXCEPT !.next = s.next - 1], StreamAdvance(s).next > 1
  PROVE  Due(t) = Due(s)
<1>1. /\ s \in StreamStates /\ s.next \in Int /\ s.buffered \in Nat /\ s.arrived \in Nat
      /\ PerSector \in Nat \ {0} /\ Due(s) \in Nat
  BY RingType, DriveAssumption, DueType DEF StreamOK
<1>2. /\ t.running /\ ~t.paused /\ t.next = s.next - 1
      /\ t \in StreamStates
  BY <1>1 DEF StreamStates
<1>3. StreamAdvance(s).next = s.next + Due(s) * PerSector
  <2>1. ~(Due(s) >= Room(s))
    BY <1>1, DueType
  <2> QED
    BY <1>1, <2>1, LookOn DEF StreamStates
<1>4. CASE s.next > 0
  <2>1. Due(s) = 0
    BY <1>4 DEF Due
  <2>2. s.next > 1
    BY <1>1, <1>3, <2>1
  <2>3. Due(t) = 0
    BY <1>1, <1>2, <2>2 DEF Due
  <2> QED
    BY <2>1, <2>3
<1>5. CASE ~(s.next > 0)
  <2> DEFINE q == (-s.next) \div PerSector
             r == (-s.next) % PerSector
  <2>1. q \in Nat /\ r \in 0..(PerSector - 1) /\ -s.next = PerSector * q + r /\ Due(s) = q + 1
    BY <1>5, DueIs
  <2>2. -s.next \in Nat /\ -(t.next) = (-s.next) + 1 /\ ~(t.next > 0)
    BY <1>1, <1>2, <1>5
  <2>3. (-s.next + 1) \div PerSector = IF r + 1 = PerSector THEN q + 1 ELSE q
    BY <1>1, <2>2, OneMore
  <2> HIDE DEF q, r
  <2>4. r + 1 # PerSector
    BY <1>1, <1>3, <2>1
  <2>5. Due(t) = (-s.next + 1) \div PerSector + 1
    BY <1>2, <2>2 DEF Due
  <2> QED
    BY <2>1, <2>3, <2>4, <2>5
<1> QED
  BY <1>4, <1>5

\* A cycle that completes one.
LEMMA SectorCycle ==
  ASSUME NEW s, StreamOK(s), s.running, ~s.paused, Due(s) < Room(s),
         NEW t, t = [s EXCEPT !.next = s.next - 1], StreamAdvance(s).next = 1
  PROVE  Due(t) = Due(s) + 1 /\ s.next + Due(s) * PerSector = 1
<1>1. /\ s \in StreamStates /\ s.next \in Int /\ s.buffered \in Nat /\ s.arrived \in Nat
      /\ PerSector \in Nat \ {0} /\ Due(s) \in Nat
  BY RingType, DriveAssumption, DueType DEF StreamOK
<1>2. /\ t.running /\ ~t.paused /\ t.next = s.next - 1
      /\ t \in StreamStates
  BY <1>1 DEF StreamStates
<1>3. StreamAdvance(s).next = s.next + Due(s) * PerSector
  <2>1. ~(Due(s) >= Room(s))
    BY <1>1, DueType
  <2> QED
    BY <1>1, <2>1, LookOn DEF StreamStates
<1>4. CASE s.next > 0
  <2>1. Due(s) = 0
    BY <1>4 DEF Due
  <2>2. s.next = 1 /\ t.next = 0
    BY <1>1, <1>2, <1>3, <2>1
  <2>3. -(t.next) = PerSector * 0 + 0 /\ 0 \in 0..(PerSector - 1) /\ 0 \in Int
    BY <1>1, <2>2
  <2>4. (-(t.next)) \div PerSector = 0
    BY <1>1, <2>3, DivisionUnique, ZenonT(40)
  <2>5. Due(t) = 0 + 1
    BY <1>2, <2>2, <2>4 DEF Due
  <2> QED
    BY <1>3, <2>1, <2>5
<1>5. CASE ~(s.next > 0)
  <2> DEFINE q == (-s.next) \div PerSector
             r == (-s.next) % PerSector
  <2>1. q \in Nat /\ r \in 0..(PerSector - 1) /\ -s.next = PerSector * q + r /\ Due(s) = q + 1
    BY <1>5, DueIs
  <2>2. -s.next \in Nat /\ -(t.next) = (-s.next) + 1 /\ ~(t.next > 0)
    BY <1>1, <1>2, <1>5
  <2>3. (-s.next + 1) \div PerSector = IF r + 1 = PerSector THEN q + 1 ELSE q
    BY <1>1, <2>2, OneMore
  <2> HIDE DEF q, r
  <2>4. r + 1 = PerSector
    BY <1>1, <1>3, <2>1
  <2>5. Due(t) = (-s.next + 1) \div PerSector + 1
    BY <1>2, <2>2 DEF Due
  <2> QED
    BY <1>3, <2>1, <2>3, <2>4, <2>5
<1> QED
  BY <1>4, <1>5

\* The next sector is in.
LEMMA SectorIn ==
  ASSUME NEW s, StreamOK(s), s.running, ~s.paused, Due(s) < Room(s),
         NEW t, t = [s EXCEPT !.next = s.next - 1], StreamAdvance(s).next = 1
  PROVE  StreamAdvance(t) = [s EXCEPT !.buffered = s.buffered + Due(s) + 1,
                                      !.arrived = (s.arrived + Due(s) + 1) % s.ring.bank,
                                      !.next = PerSector]
<1>1. /\ s \in StreamStates /\ s.next \in Int /\ s.buffered \in Nat /\ s.arrived \in Nat
      /\ PerSector \in Nat \ {0} /\ Due(s) \in Nat /\ Room(s) \in Nat
      /\ s.ring.max \in Nat
  BY RingType, DriveAssumption, DueType DEF StreamOK
<1>2. s.next - 1 \in Int
  BY <1>1
<1>3. /\ t \in StreamStates /\ t.running /\ ~t.paused /\ t.ring = s.ring /\ t.next = s.next - 1
      /\ t.buffered = s.buffered /\ t.arrived = s.arrived
  BY <1>1, <1>2 DEF StreamStates
<1>4. StreamOK(t)
  BY <1>1, <1>3 DEF StreamOK
<1>5. Due(t) = Due(s) + 1 /\ s.next + Due(s) * PerSector = 1 /\ Room(t) = Room(s)
  BY <1>1, <1>3, SectorCycle DEF Room
<1> DEFINE b == s.buffered + Due(s) + 1
           a == (s.arrived + Due(s) + 1) % s.ring.bank
<1>6. CASE Due(t) >= Room(t)
  <2>1. Room(t) = Due(s) + 1
    BY <1>1, <1>5, <1>6
  <2>2. s.ring.max = b
    BY <1>1, <1>5, <2>1 DEF Room
  <2>3. s.arrived + (Due(s) + 1) = s.arrived + Due(s) + 1
    BY <1>1
  <2>4. (t.arrived + Room(t)) % t.ring.bank = a
    BY <1>3, <2>1, <2>3
  <2>5. StreamAdvance(t) = [t EXCEPT !.buffered = t.ring.max,
                                     !.arrived = (t.arrived + Room(t)) % t.ring.bank,
                                     !.next = PerSector]
    BY <1>3, <1>4, <1>6, LookFull, ZenonT(30)
  <2>6. t.ring.max = b
    BY <1>3, <2>2
  <2> HIDE DEF a, b
  <2>7. StreamAdvance(t) = [t EXCEPT !.buffered = b, !.arrived = a, !.next = PerSector]
    BY <2>4, <2>5, <2>6
  <2> QED
    BY <1>1, <1>3, <2>7 DEF a, b, StreamStates
<1>7. CASE ~(Due(t) >= Room(t))
  <2>1. t.buffered + Due(t) = b
    BY <1>1, <1>3, <1>5
  <2>2. t.arrived + Due(t) = s.arrived + Due(s) + 1
    BY <1>1, <1>3, <1>5
  <2>3. t.next + Due(t) * PerSector = PerSector
    <3> DEFINE e == Due(s) * PerSector
    <3>1. (Due(s) + 1) * PerSector = e + PerSector /\ e \in Int
      BY <1>1
    <3>2. s.next + e = 1
      BY <1>5
    <3> HIDE DEF e
    <3> QED
      BY <1>1, <1>3, <1>5, <3>1, <3>2
  <2>4. StreamAdvance(t) = [t EXCEPT !.buffered = t.buffered + Due(t),
                                     !.arrived = (t.arrived + Due(t)) % t.ring.bank,
                                     !.next = t.next + Due(t) * PerSector]
    BY <1>4, <1>7, LookOn
  <2>5. (t.arrived + Due(t)) % t.ring.bank = a
    BY <1>3, <2>2
  <2> HIDE DEF a, b
  <2>6. StreamAdvance(t) = [t EXCEPT !.buffered = b, !.arrived = a, !.next = PerSector]
    BY <2>1, <2>3, <2>4, <2>5
  <2> QED
    BY <1>1, <1>3, <2>6 DEF a, b, StreamStates
<1> QED
  BY <1>6, <1>7

\* One more cycle shows what the drive does in a cycle.
LEMMA OneCycle ==
  ASSUME NEW s, StreamOK(s)
  PROVE  Seen(Elapsed(s, 1)) = Ring!Cycle(Seen(s))
<1> DEFINE u == StreamAdvance(s)
           t == Elapsed(s, 1)
           w == StreamAdvance(t)
<1>1. /\ s \in StreamStates /\ s.next \in Int /\ s.buffered \in Nat /\ s.arrived \in Nat
      /\ s.ring.max \in Nat /\ s.ring.bank \in Nat \ {0} /\ PerSector \in Nat \ {0}
      /\ Due(s) \in Nat /\ Room(s) \in Nat
  BY RingType, DriveAssumption, DueType DEF StreamOK
<1>2. StreamOK(t)
  BY ElapsedOK
<1>3. /\ Seen(s) = [ring |-> s.ring, running |-> s.running, paused |-> s.paused,
                    usable |-> u.buffered - u.arrived, part |-> u.arrived,
                    wait |-> IF s.running THEN u.next ELSE 0]
      /\ StreamOK(u)
  BY SeenIs
<1>4. /\ u.buffered \in Nat /\ u.arrived \in Nat /\ u.next \in Int /\ u.arrived <= u.buffered
      /\ u.arrived < u.ring.bank /\ u.ring = s.ring /\ u \in StreamStates
  BY <1>3, RingType, LookKeeps DEF StreamOK
<1>7. /\ Seen(s).running = s.running /\ Seen(s).paused = s.paused
      /\ Seen(s).wait = IF s.running THEN u.next ELSE 0
  BY <1>3
<1>5. CASE ~s.running \/ s.paused
  <2>1. t = s
    BY <1>5 DEF Elapsed
  <2>2. Ring!Cycle(Seen(s)) = Seen(s)
    BY <1>5, <1>7 DEF Ring!Cycle
  <2> QED
    BY <2>1, <2>2
<1>6. CASE s.running /\ ~s.paused
  <2> DEFINE f == s.ring.max * PerSector
  <2>1. f \in Nat /\ t = [s EXCEPT !.next = IF s.next - 1 >= -f THEN s.next - 1 ELSE -f]
    BY <1>6, ElapsedIs
  <2>2. t.running /\ ~t.paused /\ t.ring = s.ring
    BY <1>1, <1>6, <2>1 DEF StreamStates
  <2>3. Ring!Full(Seen(s)) <=> u.buffered = s.ring.max
    BY <1>3, <1>4 DEF Ring!Full
  <2>4. CASE Due(s) >= Room(s)
    <3>1. u.buffered = s.ring.max
      BY <1>1, <1>6, <2>4, LookFull DEF StreamStates
    <3>2. Ring!Cycle(Seen(s)) = Seen(s)
      BY <1>7, <2>3, <3>1 DEF Ring!Cycle
    <3>3. Due(t) >= Room(t)
      <4>1. CASE s.next - 1 >= -f
        <5>1. t = [s EXCEPT !.next = s.next - 1]
          BY <2>1, <4>1
        <5>2. Room(t) = Room(s) /\ t.next = s.next - 1
          BY <1>1, <5>1 DEF Room, StreamStates
        <5>3. CASE s.next > 0
          <6>1. Due(s) = 0
            BY <5>3 DEF Due
          <6>2. Room(t) = 0 /\ Due(t) \in Nat
            BY <1>1, <1>2, <2>4, <5>2, <6>1, DueType
          <6> QED
            BY <6>2
        <5>4. CASE ~(s.next > 0)
          <6> DEFINE q == (-s.next) \div PerSector
                     r == (-s.next) % PerSector
          <6>4. q \in Nat /\ Due(s) = q + 1
            BY <1>6, <5>4, DueIs
          <6>1. q \in Nat /\ Due(s) = q + 1 /\ -s.next \in Nat /\ -(t.next) = -s.next + 1
                /\ ~(t.next > 0)
            BY <1>1, <5>2, <5>4, <6>4
          <6>2. (-s.next + 1) \div PerSector = IF r + 1 = PerSector THEN q + 1 ELSE q
            BY <1>1, <6>1, OneMore
          <6>3. Due(t) = (-s.next + 1) \div PerSector + 1
            BY <2>2, <6>1 DEF Due
          <6> HIDE DEF q, r, t
          <6>5. Due(t) >= Due(s)
            BY <6>1, <6>2, <6>3
          <6> QED
            BY <1>1, <1>2, <2>4, <5>2, <6>1, <6>2, <6>3, <6>5
        <5> QED
          BY <5>3, <5>4
      <4>2. CASE ~(s.next - 1 >= -f)
        <5>1. t = [s EXCEPT !.next = -f] /\ -f \in Int
          BY <2>1, <4>2
        <5>2. t.next <= -(t.ring.max * PerSector)
          BY <1>1, <2>1, <2>2, <5>1 DEF StreamStates
        <5> QED
          BY <1>2, <2>2, <5>2, OverdueFull
      <4> QED
        BY <4>1, <4>2
    <3>4. w = u
      <4> DEFINE n == IF s.next - 1 >= -f THEN s.next - 1 ELSE -f
      <4>1. n \in Int /\ t = [s EXCEPT !.next = n]
        BY <1>1, <2>1
      <4> HIDE DEF n, t
      <4> QED
        BY <1>6, <2>4, <3>3, <4>1, SameFull
    <3> QED
      BY <3>2, <3>4 DEF Seen
  <2>5. CASE Due(s) < Room(s)
    <3>1. s.next > -f
      <4>1. CASE s.next <= -f
        <5>1. Due(s) >= Room(s)
          BY <1>6, <4>1, OverdueFull
        <5> QED
          BY <1>1, <2>5, <5>1
      <4> QED
        BY <1>1, <2>1, <4>1
    <3>2. t = [s EXCEPT !.next = s.next - 1]
      BY <1>1, <2>1, <3>1
    <3>3. u = [s EXCEPT !.buffered = s.buffered + Due(s),
                        !.arrived = (s.arrived + Due(s)) % s.ring.bank,
                        !.next = s.next + Due(s) * PerSector]
      <4>1. ~(Due(s) >= Room(s))
        BY <1>1, <2>5
      <4> QED
        BY <4>1, LookOn
    <3>4. /\ u.buffered = s.buffered + Due(s) /\ u.arrived = (s.arrived + Due(s)) % s.ring.bank
          /\ u.next = s.next + Due(s) * PerSector
      BY <1>1, <3>3 DEF StreamStates
    <3>5. ~Ring!Full(Seen(s))
      BY <1>1, <2>3, <2>5, <3>4 DEF Room
    <3>6. u.next > 0
      BY <1>6, LookWaits
    <3>7. /\ Seen(t) = [ring |-> s.ring, running |-> s.running, paused |-> s.paused,
                        usable |-> w.buffered - w.arrived, part |-> w.arrived, wait |-> w.next]
      <4>1. /\ Seen(t) = [ring |-> t.ring, running |-> t.running, paused |-> t.paused,
                          usable |-> w.buffered - w.arrived, part |-> w.arrived,
                          wait |-> IF t.running THEN w.next ELSE 0]
        BY <1>2, SeenIs
      <4>2. t.running = s.running /\ t.paused = s.paused /\ t.ring = s.ring
        BY <1>1, <3>2 DEF StreamStates
      <4> QED
        BY <1>6, <4>1, <4>2
    <3> HIDE DEF f
    <3>8. CASE u.next > 1
      <4>1. Due(t) = Due(s)
        BY <1>6, <2>5, <3>2, <3>8, QuietCycle
      <4>2. /\ t.buffered = s.buffered /\ t.arrived = s.arrived /\ t.next = s.next - 1
            /\ t \in StreamStates /\ Room(t) = Room(s)
        BY <1>1, <1>2, <3>2 DEF StreamStates, StreamOK, Room
      <4>3. /\ w.buffered = t.buffered + Due(t) /\ w.arrived = (t.arrived + Due(t)) % t.ring.bank
            /\ w.next = t.next + Due(t) * PerSector
        <5>1. ~(Due(t) >= Room(t))
          BY <1>1, <2>5, <4>1, <4>2
        <5> HIDE DEF t
        <5>2. w = [t EXCEPT !.buffered = t.buffered + Due(t),
                            !.arrived = (t.arrived + Due(t)) % t.ring.bank,
                            !.next = t.next + Due(t) * PerSector]
          BY <1>2, <5>1, LookOn
        <5> QED
          BY <4>2, <5>2 DEF StreamStates
      <4> DEFINE e == Due(s) * PerSector
      <4>4. e \in Int
        BY <1>1
      <4>5. w.next = t.next + e /\ u.next = s.next + e
        BY <3>4, <4>1, <4>3
      <4> HIDE DEF e
      <4>6. w.buffered = u.buffered /\ w.arrived = u.arrived /\ w.next = u.next - 1
        BY <1>1, <2>2, <3>4, <4>1, <4>2, <4>3, <4>4, <4>5
      <4> HIDE DEF u, w, t
      <4>7. Ring!Cycle(Seen(s)) = [Seen(s) EXCEPT !.wait = @ - 1]
        BY <1>3, <1>6, <3>5, <3>8 DEF Ring!Cycle
      <4>8. Seen(s) = [ring |-> s.ring, running |-> s.running, paused |-> s.paused,
                       usable |-> u.buffered - u.arrived, part |-> u.arrived, wait |-> u.next]
        BY <1>3, <1>6
      <4>9. Ring!Cycle(Seen(s)) =
              [ring |-> s.ring, running |-> s.running, paused |-> s.paused,
               usable |-> u.buffered - u.arrived, part |-> u.arrived, wait |-> u.next - 1]
        BY <4>7, <4>8
      <4>10. Seen(t) = Ring!Cycle(Seen(s))
        BY <3>7, <4>6, <4>9
      <4> QED
        BY <4>10 DEF t
    <3>9. CASE ~(u.next > 1)
      <4>1. u.next = 1
        BY <1>4, <3>6, <3>9
      <4>2. w = [s EXCEPT !.buffered = s.buffered + Due(s) + 1,
                          !.arrived = (s.arrived + Due(s) + 1) % s.ring.bank,
                          !.next = PerSector]
        BY <1>6, <2>5, <3>2, <4>1, SectorIn
      <4>3. /\ w.buffered = u.buffered + 1 /\ w.arrived = (s.arrived + Due(s) + 1) % s.ring.bank
            /\ w.next = PerSector
        BY <1>1, <3>4, <4>2 DEF StreamStates
      <4>4. w.arrived = IF u.arrived + 1 = s.ring.bank THEN 0 ELSE u.arrived + 1
        <5> DEFINE a == s.arrived + Due(s)
        <5>1. a \in Nat /\ w.arrived = (a + 1) % s.ring.bank /\ u.arrived = a % s.ring.bank
          BY <1>1, <3>4, <4>3
        <5> HIDE DEF a, u, w
        <5>2. (a + 1) % s.ring.bank = IF (a % s.ring.bank) + 1 = s.ring.bank THEN 0
                                      ELSE (a % s.ring.bank) + 1
          BY <1>1, <5>1, OneMore
        <5> QED
          BY <5>1, <5>2
      <4> HIDE DEF u, w, t
      <4>5. Seen(s) = [ring |-> s.ring, running |-> s.running, paused |-> s.paused,
                       usable |-> u.buffered - u.arrived, part |-> u.arrived, wait |-> u.next]
        BY <1>3, <1>6
      <4>6. Ring!Cycle(Seen(s)) = Ring!Sector(Seen(s))
        BY <1>3, <1>6, <3>5, <3>9 DEF Ring!Cycle
      <4>7. CASE u.arrived + 1 = s.ring.bank
        <5>1. Ring!Sector(Seen(s)) = [Seen(s) EXCEPT !.part = 0,
                !.usable = @ + s.ring.bank, !.wait = PerSector]
          BY <4>5, <4>7 DEF Ring!Sector
        <5>2. u.buffered - u.arrived + s.ring.bank = w.buffered - w.arrived
          BY <1>1, <1>4, <4>3, <4>4, <4>7
        <5>3. Ring!Sector(Seen(s)) =
                [ring |-> s.ring, running |-> s.running, paused |-> s.paused,
                 usable |-> u.buffered - u.arrived + s.ring.bank, part |-> 0, wait |-> PerSector]
          <6>1. PICK x, y, z : x = u.buffered - u.arrived /\ y = u.arrived /\ z = u.next
            OBVIOUS
          <6>2. Seen(s) = [ring |-> s.ring, running |-> s.running, paused |-> s.paused,
                           usable |-> x, part |-> y, wait |-> z]
            BY <4>5, <6>1
          <6>3. Seen(s).usable = x /\ Seen(s).part = y
            BY <6>2
          <6>4. PICK v : v = Seen(s)
            OBVIOUS
          <6>5. Ring!Sector(Seen(s)) = [v EXCEPT !.part = 0, !.usable = x + s.ring.bank, !.wait = PerSector]
            BY <5>1, <6>3, <6>4
          <6>6. v = [ring |-> s.ring, running |-> s.running, paused |-> s.paused,
                     usable |-> x, part |-> y, wait |-> z]
            BY <6>2, <6>4
          <6> QED
            BY <6>1, <6>5, <6>6
        <5>4. Seen(t) = Ring!Cycle(Seen(s))
          BY <3>7, <4>3, <4>4, <4>6, <4>7, <5>2, <5>3
        <5> QED
          BY <5>4 DEF t
      <4>8. CASE u.arrived + 1 # s.ring.bank
        <5>1. Ring!Sector(Seen(s)) = [Seen(s) EXCEPT !.part = @ + 1, !.wait = PerSector]
          BY <4>5, <4>8 DEF Ring!Sector
        <5>2. u.buffered - u.arrived = w.buffered - w.arrived
          BY <1>1, <1>4, <4>3, <4>4, <4>8
        <5>3. Ring!Sector(Seen(s)) =
                [ring |-> s.ring, running |-> s.running, paused |-> s.paused,
                 usable |-> u.buffered - u.arrived, part |-> u.arrived + 1, wait |-> PerSector]
          <6>1. PICK x, y, z : x = u.buffered - u.arrived /\ y = u.arrived /\ z = u.next
            OBVIOUS
          <6>2. Seen(s) = [ring |-> s.ring, running |-> s.running, paused |-> s.paused,
                           usable |-> x, part |-> y, wait |-> z]
            BY <4>5, <6>1
          <6>3. Seen(s).usable = x /\ Seen(s).part = y
            BY <6>2
          <6>4. PICK v : v = Seen(s)
            OBVIOUS
          <6>5. Ring!Sector(Seen(s)) = [v EXCEPT !.part = y + 1, !.wait = PerSector]
            BY <5>1, <6>3, <6>4
          <6>6. v = [ring |-> s.ring, running |-> s.running, paused |-> s.paused,
                     usable |-> x, part |-> y, wait |-> z]
            BY <6>2, <6>4
          <6> QED
            BY <6>1, <6>5, <6>6
        <5>4. Seen(t) = Ring!Cycle(Seen(s))
          BY <3>7, <4>3, <4>4, <4>6, <4>8, <5>2, <5>3
        <5> QED
          BY <5>4 DEF t
      <4> QED
        BY <4>7, <4>8
    <3> QED
      BY <3>8, <3>9
  <2> QED
    BY <1>1, <2>4, <2>5
<1> QED
  BY <1>5, <1>6

\* The clock goes n cycles on: the drive takes n cycles, one by one.
LEMMA CyclesPass ==
  ASSUME StreamOK(g_st), NEW n \in Nat, g_st' = Elapsed(g_st, n)
  PROVE  Ring!Cycles(n)
<1> DEFINE after[k \in 0..n] == IF k = 0 THEN Seen(g_st) ELSE Ring!Cycle(after[k - 1])
           e == [k \in 0..n |-> Seen(Elapsed(g_st, k))]
<1>1. \A k \in 0..n : e[k] = IF k = 0 THEN Seen(g_st) ELSE Ring!Cycle(e[k - 1])
  <2> SUFFICES ASSUME NEW k \in 0..n
               PROVE  e[k] = IF k = 0 THEN Seen(g_st) ELSE Ring!Cycle(e[k - 1])
    OBVIOUS
  <2>1. CASE k = 0
    BY <2>1, ElapsedNone
  <2>2. CASE k # 0
    <3>1. k - 1 \in Nat /\ k - 1 \in 0..n /\ (k - 1) + 1 = k
      BY <2>2
    <3>2. Elapsed(g_st, k) = Elapsed(Elapsed(g_st, k - 1), 1)
      BY <3>1, ElapsedMore
    <3>3. StreamOK(Elapsed(g_st, k - 1))
      BY <3>1, ElapsedOK
    <3>4. Seen(Elapsed(g_st, k)) = Ring!Cycle(Seen(Elapsed(g_st, k - 1)))
      BY <3>2, <3>3, OneCycle
    <3> QED
      BY <2>2, <3>1, <3>4
  <2> QED
    BY <2>1, <2>2
<1>2. e = [k \in 0..n |-> IF k = 0 THEN Seen(g_st) ELSE Ring!Cycle(e[k - 1])]
  BY <1>1
<1>3. after = [k \in 0..n |-> IF k = 0 THEN Seen(g_st) ELSE Ring!Cycle(after[k - 1])]
  <2> DEFINE P(f) == f = [k \in 0..n |-> IF k = 0 THEN Seen(g_st) ELSE Ring!Cycle(f[k - 1])]
  <2>1. \E f : P(f)
    BY <1>2
  <2>2. P(CHOOSE f : P(f))
    BY <2>1
  <2> QED
    BY <2>2
<1> HIDE DEF after
<1>4. \A k \in 0..n : after[k] = e[k]
  <2> DEFINE S == {k \in 0..n : after[k] # e[k]}
  <2>1. ASSUME S # {} PROVE FALSE
    <3>1. PICK k \in S : \A j \in S : k <= j
      <4>1. S \in SUBSET Nat
        OBVIOUS
      <4> HIDE DEF S
      <4> QED
        BY <2>1, <4>1, LeastNat
    <3>2. k \in 0..n /\ after[k] # e[k]
      BY <3>1
    <3> HIDE DEF e
    <3>3. k # 0
      BY <1>1, <1>3, <3>2
    <3>4. k - 1 \in 0..n /\ k - 1 \notin S
      BY <3>1, <3>2, <3>3
    <3>5. after[k - 1] = e[k - 1]
      BY <3>4
    <3>6. after[k] = Ring!Cycle(after[k - 1]) /\ e[k] = Ring!Cycle(e[k - 1])
      BY <1>1, <1>3, <3>2, <3>3
    <3> QED
      BY <3>2, <3>5, <3>6
  <2> QED
    BY <2>1
<1>5. after[n] = Seen(g_st')
  BY <1>4
<1>6. Seen(g_st)' = Seen(g_st')
  BY DEF Seen, StreamAdvance, Receive, Due, Room, StreamReady
<1> QED
  BY <1>5, <1>6 DEF Ring!Cycles, after

-----------------------------------------------------------------------------
(* The refinement *)

\* A pause has looked at the ring first.
PauseOK(s) ==
  s.paused => s.next > 0 /\ (s.buffered = s.ring.max => s.next = PerSector)

RingInv ==
  /\ CdInv
  /\ PauseOK(g_st)
  /\ clock \in 0..LongestSpan

LEMMA SpanType ==
  /\ LongestSpan \in Nat /\ SyscallTicks <= LongestSpan /\ MaxTick <= LongestSpan
BY TimesAssumption, MaxOfTwo DEF LongestSpan

LEMMA PausedLook ==
  ASSUME NEW s, StreamOK(s), PauseOK(s)
  PROVE  PauseOK(StreamAdvance(s))
<1>1. CASE s.paused
  BY <1>1, LookStill
<1>2. CASE ~s.paused
  BY <1>2, LookKeeps DEF PauseOK
<1> QED
  BY <1>1, <1>2

\* A command that puts s in the place of the stream's state.
LEMMA StreamImage ==
  ASSUME RingInv, NEW c \in Client, NEW s, Stream(c, s), PauseOK(s)
  PROVE  PauseOK(g_st') /\ clock' \in 0..LongestSpan
<1>1. clock' = SyscallTicks /\ g_st' = s
  BY DEF Stream, Command, Call, Request, SetDma
<1> QED
  BY <1>1, SpanType, TimesAssumption

\* The drive only sees the clock.
LEMMA PassedImage ==
  ASSUME RingInv, TimePasses, clock' \in 0..LongestSpan
  PROVE  /\ PauseOK(g_st')
         /\ \/ \E n \in 1..LongestSpan : Ring!Cycles(n)
            \/ Seen(g_st)' = Seen(g_st)
<1>1. /\ clock \in 0..LongestSpan /\ StreamOK(g_st) /\ PauseOK(g_st) /\ LongestSpan \in Nat
      /\ g_st' = Elapsed(g_st, Passed)
  BY SpanType DEF RingInv, CdInv, TimePasses
<1>2. Passed \in 0..LongestSpan
  <2> DEFINE old == clock
             new == clock'
             most == LongestSpan
  <2>1. /\ old \in Int /\ 0 <= old /\ old <= most /\ most \in Int
        /\ new \in Int /\ 0 <= new /\ new <= most
    BY <1>1
  <2>2. Passed = IF new < old THEN old - new ELSE 0
    BY DEF Passed
  <2> HIDE DEF old, new, most
  <2>3. Passed \in 0..most
    BY <2>1, <2>2
  <2> QED
    BY <2>3 DEF most
<1>3. PauseOK(g_st')
  <2>1. CASE ~g_st.running \/ g_st.paused
    BY <1>1, <2>1 DEF Elapsed
  <2>2. CASE g_st.running /\ ~g_st.paused
    <3>1. g_st \in StreamStates
      BY <1>1 DEF StreamOK
    <3>2. ~g_st'.paused
      BY <1>1, <2>2, <3>1 DEF Elapsed, StreamStates
    <3> QED
      BY <3>2 DEF PauseOK
  <2> QED
    BY <2>1, <2>2
<1>4. CASE Passed = 0
  <2>1. Seen(g_st') = Seen(g_st)
    BY <1>1, <1>4, ElapsedNone
  <2>2. Seen(g_st)' = Seen(g_st')
    BY DEF Seen, StreamAdvance, Receive, Due, Room, StreamReady
  <2> QED
    BY <1>3, <2>1, <2>2
<1>5. CASE Passed # 0
  <2>1. PICK n : n = Passed
    OBVIOUS
  <2>2. n \in 1..LongestSpan /\ n \in Nat /\ g_st' = Elapsed(g_st, n)
    BY <1>1, <1>2, <1>5, <2>1
  <2> QED
    BY <1>1, <1>3, <2>2, CyclesPass
<1> QED
  BY <1>4, <1>5

Shows == \/ Ring!Next \/ UNCHANGED Seen(g_st)

LEMMA SeenLater == Seen(g_st)' = Seen(g_st')
BY DEF Seen, StreamAdvance, Receive, Due, Room, StreamReady

Shown(r, x, y, u, p, w) ==
  [ring |-> r, running |-> x, paused |-> y, usable |-> u, part |-> p, wait |-> w]

\* A ring at rest, or just sought, as the drive has it.
LEMMA FreshSeen ==
  ASSUME NEW s, StreamOK(s), s.buffered = 0, s.arrived = 0, ~s.paused,
         s.running => s.next = SeekTime
  PROVE  Seen(s) = [ring |-> s.ring, running |-> s.running, paused |-> s.paused,
                    usable |-> 0, part |-> 0, wait |-> IF s.running THEN SeekTime ELSE 0]
<1>1. s.ring.max # 0 /\ SeekTime > 0
  BY RingType, DriveAssumption
<1>2. StreamAdvance(s) = s
  BY <1>1, LookStill
<1>3. /\ Seen(s) = [ring |-> s.ring, running |-> s.running, paused |-> s.paused,
                    usable |-> s.buffered - s.arrived, part |-> s.arrived,
                    wait |-> IF s.running THEN s.next ELSE 0]
  BY <1>2, SeenIs
<1> QED
  BY <1>3

LEMMA StreamCommands ==
  ASSUME RingInv, NEW c \in Client,
         \/ \E ring \in Rings : StInit(c, ring)
         \/ StSeek(c) \/ StStop(c) \/ StStat(c) \/ StPause(c) \/ StResume(c) \/ StRead(c)
  PROVE  PauseOK(g_st') /\ clock' \in 0..LongestSpan /\ Shows
<1> DEFINE s == StreamAdvance(g_st)
           v == Seen(g_st)
<1>1. StreamOK(g_st) /\ PauseOK(g_st) /\ StreamOK(s) /\ PauseOK(s) /\ want \in Nat
  BY AdvanceOK, PausedLook DEF RingInv, CdInv
<1>2. /\ g_st \in StreamStates /\ s \in StreamStates /\ g_st.ring \in Rings
      /\ g_st.ring.bank \in Nat \ {0} /\ g_st.ring.max \in Nat /\ s.ring = g_st.ring
      /\ s.running = g_st.running /\ s.paused = g_st.paused
      /\ s.buffered \in Nat /\ s.arrived \in Nat /\ s.arrived <= s.buffered
  BY <1>1, RingType, LookKeeps DEF StreamOK
<1>3. v = [ring |-> g_st.ring, running |-> g_st.running, paused |-> g_st.paused,
           usable |-> s.buffered - s.arrived, part |-> s.arrived,
           wait |-> IF g_st.running THEN s.next ELSE 0]
  BY <1>1, SeenIs
<1>4. v.ring = g_st.ring /\ v.running = g_st.running /\ v.usable = s.buffered - s.arrived
  BY <1>3
<1>5. ASSUME NEW t, Stream(c, t), PauseOK(t), Ring!Next \/ Seen(t) = v
      PROVE  PauseOK(g_st') /\ clock' \in 0..LongestSpan /\ Shows
  <2>1. g_st' = t
    BY <1>5 DEF Stream
  <2>2. Shows
    BY <1>5, <2>1, SeenLater DEF Shows
  <2> QED
    BY <1>5, <2>2, StreamImage
<1>6. ASSUME NEW t, Stream(c, t) PROVE Seen(g_st)' = Seen(t)
  BY <1>6, SeenLater DEF Stream
<1> HIDE DEF s, v
<1>7. ASSUME NEW ring \in Rings, StInit(c, ring)
      PROVE  PauseOK(g_st') /\ clock' \in 0..LongestSpan /\ Shows
  <2> DEFINE t == StreamState(ring)
  <2>1. /\ StreamOK(t) /\ ~t.paused /\ ~t.running /\ t.buffered = 0 /\ t.arrived = 0 /\ t.ring = ring
        /\ t.running = FALSE /\ t.paused = FALSE
    BY EmptyOK DEF StreamState
  <2>2. Stream(c, t)
    BY <1>7 DEF StInit
  <2> HIDE DEF t
  <2>3. Seen(t) = Ring!Stopped(ring)
    BY <2>1, FreshSeen DEF Ring!Stopped
  <2>4. Ring!Configure(ring)
    BY <1>6, <2>2, <2>3 DEF Ring!Configure
  <2>5. Ring!Next /\ PauseOK(t)
    BY <2>1, <2>4 DEF Ring!Next, PauseOK
  <2> QED
    BY <1>5, <2>2, <2>5
<1>8. CASE StSeek(c)
  <2> DEFINE t == [g_st EXCEPT !.running = TRUE, !.paused = FALSE, !.buffered = 0,
                               !.arrived = 0, !.next = SeekTime]
  <2>0. SeekTime \in Int
    BY DriveAssumption
  <2>1. /\ t \in StreamStates /\ t.ring = g_st.ring /\ t.buffered = 0 /\ t.arrived = 0
        /\ t.running = TRUE /\ t.paused = FALSE /\ t.next = SeekTime
    BY <1>2, <2>0 DEF StreamStates
  <2>2. Stream(c, t)
    BY <1>8 DEF StSeek
  <2> HIDE DEF t
  <2>3. StreamOK(t)
    BY <1>2, <2>1 DEF StreamOK
  <2>4. Seen(t) = [ring |-> g_st.ring, running |-> TRUE, paused |-> FALSE,
                   usable |-> 0, part |-> 0, wait |-> SeekTime]
    BY <2>1, <2>3, FreshSeen
  <2>5. Ring!Seek
    <3>1. [Ring!Stopped(v.ring) EXCEPT !.running = TRUE, !.wait = SeekTime] = Seen(t)
      <4>1. PICK r, x, y, z, w : r = g_st.ring /\ x = TRUE /\ y = FALSE /\ z = 0 /\ w = SeekTime
        OBVIOUS
      <4>2. Ring!Stopped(v.ring) = Shown(r, y, y, z, z, z)
        BY <1>4, <4>1 DEF Ring!Stopped, Shown
      <4>3. Seen(t) = Shown(r, x, y, z, z, w)
        BY <2>4, <4>1 DEF Shown
      <4>4. [Shown(r, y, y, z, z, z) EXCEPT !.running = x] = Shown(r, x, y, z, z, z)
        BY DEF Shown
      <4>5. [Shown(r, x, y, z, z, z) EXCEPT !.wait = w] = Shown(r, x, y, z, z, w)
        BY DEF Shown
      <4>6. PICK e : e = Shown(r, y, y, z, z, z)
        OBVIOUS
      <4>7. [e EXCEPT !.running = x, !.wait = w] = [[e EXCEPT !.running = x] EXCEPT !.wait = w]
        BY Zenon
      <4>8. [e EXCEPT !.running = x, !.wait = w] = Seen(t)
        BY <4>3, <4>4, <4>5, <4>6, <4>7
      <4> QED
        BY <4>1, <4>2, <4>6, <4>8
    <3> QED
      BY <1>6, <2>2, <3>1 DEF Ring!Seek, v
  <2>6. Ring!Next /\ PauseOK(t)
    BY <2>1, <2>5 DEF Ring!Next, PauseOK
  <2> QED
    BY <1>5, <2>2, <2>6
<1>9. CASE StStop(c)
  <2> DEFINE t == [g_st EXCEPT !.running = FALSE, !.paused = FALSE, !.buffered = 0, !.arrived = 0]
  <2>1. /\ t \in StreamStates /\ t.ring = g_st.ring /\ t.buffered = 0 /\ t.arrived = 0
        /\ t.running = FALSE /\ t.paused = FALSE
    BY <1>2 DEF StreamStates
  <2>2. Stream(c, t)
    BY <1>9 DEF StStop
  <2> HIDE DEF t
  <2>3. StreamOK(t)
    BY <1>2, <2>1 DEF StreamOK
  <2>4. Seen(t) = [ring |-> g_st.ring, running |-> FALSE, paused |-> FALSE,
                   usable |-> 0, part |-> 0, wait |-> 0]
    BY <2>1, <2>3, FreshSeen
  <2>5. Ring!Stop
    BY <1>4, <1>6, <2>2, <2>4 DEF Ring!Stop, Ring!Stopped, v
  <2>6. Ring!Next /\ PauseOK(t)
    BY <2>1, <2>5 DEF Ring!Next, PauseOK
  <2> QED
    BY <1>5, <2>2, <2>6
<1>10. CASE StStat(c)
  <2>1. Stream(c, s)
    BY <1>10 DEF StStat, s
  <2>2. Seen(s) = v
    BY <1>1, LookTwice DEF Seen, s, v
  <2> QED
    BY <1>1, <1>5, <2>1, <2>2
<1>11. CASE StPause(c)
  <2> DEFINE t == [s EXCEPT !.paused = TRUE]
  <2>1. Stream(c, t) /\ g_st.running /\ ~g_st.paused
    BY <1>11 DEF StPause, s
  <2>2. /\ StreamOK(t) /\ t.paused = TRUE /\ t.running = s.running /\ t.ring = s.ring
        /\ t.buffered = s.buffered /\ t.arrived = s.arrived /\ t.next = s.next
    BY <1>1, <1>2 DEF StreamOK, StreamStates
  <2> HIDE DEF t
  <2>3. PauseOK(t)
    BY <1>1, <2>1, <2>2, LookWaits DEF PauseOK, s
  <2>4. Seen(t) = [ring |-> g_st.ring, running |-> g_st.running, paused |-> TRUE,
                   usable |-> s.buffered - s.arrived, part |-> s.arrived,
                   wait |-> IF g_st.running THEN s.next ELSE 0]
    BY <1>2, <2>2, LookStill, SeenIs
  <2>5. Seen(t) = [v EXCEPT !.paused = TRUE]
    <3>1. PICK r, x, y, u, p, w, b :
            /\ r = g_st.ring /\ x = g_st.running /\ y = g_st.paused /\ u = s.buffered - s.arrived
            /\ p = s.arrived /\ w = (IF g_st.running THEN s.next ELSE 0) /\ b = TRUE
      OBVIOUS
    <3>2. v = Shown(r, x, y, u, p, w)
      BY <1>3, <3>1 DEF Shown
    <3>3. Seen(t) = Shown(r, x, b, u, p, w)
      BY <2>4, <3>1 DEF Shown
    <3>4. [Shown(r, x, y, u, p, w) EXCEPT !.paused = b] = Shown(r, x, b, u, p, w)
      BY DEF Shown
    <3>5. Seen(t) = [v EXCEPT !.paused = b]
      BY <3>2, <3>3, <3>4
    <3> QED
      BY <3>1, <3>5
  <2>6. Ring!Pause
    BY <1>4, <1>6, <2>1, <2>5 DEF Ring!Pause, v
  <2>7. Ring!Next
    BY <2>6 DEF Ring!Next
  <2> QED
    BY <1>5, <2>1, <2>3, <2>7
<1>12. CASE StResume(c)
  <2> DEFINE t == [g_st EXCEPT !.paused = FALSE]
  <2>1. Stream(c, t) /\ g_st.paused
    BY <1>12 DEF StResume
  <2>2. /\ StreamOK(t) /\ t.paused = FALSE /\ t.running = g_st.running /\ t.ring = g_st.ring
        /\ t.buffered = g_st.buffered /\ t.arrived = g_st.arrived /\ t.next = g_st.next
    BY <1>1, <1>2 DEF StreamOK, StreamStates
  <2> HIDE DEF t
  <2>3. StreamAdvance(g_st) = g_st
    BY <1>1, <2>1, LookStill
  <2>4. StreamAdvance(t) = t
    BY <1>1, <2>1, <2>2, LookStill DEF PauseOK
  <2>5. Seen(t) = [ring |-> g_st.ring, running |-> g_st.running, paused |-> FALSE,
                   usable |-> s.buffered - s.arrived, part |-> s.arrived,
                   wait |-> IF g_st.running THEN s.next ELSE 0]
    BY <2>2, <2>3, <2>4, SeenIs DEF s
  <2>6. Seen(t) = [v EXCEPT !.paused = FALSE]
    <3>1. PICK r, x, y, u, p, w, b :
            /\ r = g_st.ring /\ x = g_st.running /\ y = g_st.paused /\ u = s.buffered - s.arrived
            /\ p = s.arrived /\ w = (IF g_st.running THEN s.next ELSE 0) /\ b = FALSE
      OBVIOUS
    <3>2. v = Shown(r, x, y, u, p, w)
      BY <1>3, <3>1 DEF Shown
    <3>3. Seen(t) = Shown(r, x, b, u, p, w)
      BY <2>5, <3>1 DEF Shown
    <3>4. [Shown(r, x, y, u, p, w) EXCEPT !.paused = b] = Shown(r, x, b, u, p, w)
      BY DEF Shown
    <3>5. Seen(t) = [v EXCEPT !.paused = b]
      BY <3>2, <3>3, <3>4
    <3> QED
      BY <3>1, <3>5
  <2>7. Ring!Resume
    BY <1>6, <2>1, <2>6 DEF Ring!Resume, v
  <2>8. Ring!Next /\ PauseOK(t)
    BY <2>2, <2>7 DEF Ring!Next, PauseOK
  <2> QED
    BY <1>5, <2>1, <2>8
<1>13. CASE StRead(c)
  <2> DEFINE give == Min({want, StreamReady(s)})
             t    == [s EXCEPT !.buffered = @ - give]
  <2>1. StreamReady(s) = s.buffered - s.arrived
    BY <1>1, <1>2 DEF StreamReady
  <2>2. give \in Nat /\ give <= s.buffered - s.arrived
    BY <1>1, <1>2, <2>1, MinOfTwo
  <2>3. Stream(c, t)
    BY <1>13 DEF StRead, s
  <2> HIDE DEF give
  <2>4. s.buffered - give \in Nat
    BY <1>2, <2>2
  <2>5. /\ t \in StreamStates /\ t.ring = s.ring /\ t.buffered = s.buffered - give
        /\ t.arrived = s.arrived /\ t.running = s.running /\ t.paused = s.paused /\ t.next = s.next
    BY <1>2, <2>4 DEF StreamStates
  <2> HIDE DEF t
  <2>6. s.buffered <= g_st.ring.max /\ s.arrived < g_st.ring.bank
    BY <1>1, <1>2 DEF StreamOK
  <2>7. StreamOK(t)
    BY <1>2, <2>2, <2>4, <2>5, <2>6 DEF StreamOK
  <2>8. t.buffered = t.ring.max => s.buffered = s.ring.max
    BY <1>2, <2>2, <2>5, <2>6
  <2>9. PauseOK(t)
    BY <1>1, <2>5, <2>8 DEF PauseOK
  <2>10. StreamAdvance(t) = t
    <3>1. CASE g_st.running /\ ~g_st.paused
      <4>1. s.next > 0 /\ (s.buffered = s.ring.max => s.next = PerSector)
        BY <1>1, <3>1, LookWaits DEF s
      <4> QED
        BY <2>5, <2>7, <2>8, <4>1, LookStill
    <3>2. CASE ~g_st.running \/ g_st.paused
      BY <1>2, <2>5, <2>7, <3>2, LookStill
    <3> QED
      BY <3>1, <3>2
  <2>11. Seen(t) = [ring |-> g_st.ring, running |-> g_st.running, paused |-> g_st.paused,
                    usable |-> s.buffered - give - s.arrived, part |-> s.arrived,
                    wait |-> IF g_st.running THEN s.next ELSE 0]
    BY <1>2, <2>5, <2>7, <2>10, SeenIs
  <2>12. s.buffered - give - s.arrived = v.usable - give
    BY <1>2, <1>4, <2>2
  <2>13. Seen(t) = [v EXCEPT !.usable = v.usable - give]
    BY <1>3, <2>11, <2>12
  <2>14. CASE give = 0
    <3>1. v.usable - give = v.usable
      BY <1>2, <1>4, <2>14
    <3>2. Seen(t) = v
      BY <1>3, <2>13, <3>1
    <3> QED
      BY <1>5, <2>3, <2>9, <3>2
  <2>15. CASE give # 0
    <3>1. give \in 1..v.usable /\ give <= v.usable
      BY <1>2, <1>4, <2>2, <2>15
    <3>2. Ring!Take(give)
      BY <1>6, <2>3, <2>13, <3>1 DEF Ring!Take, v
    <3>3. Ring!Next
      BY <3>1, <3>2 DEF Ring!Next, v
    <3> QED
      BY <1>5, <2>3, <2>9, <3>3
  <2> QED
    BY <2>14, <2>15
<1> QED
  BY <1>7, <1>8, <1>9, <1>10, <1>11, <1>12, <1>13

\* The clock is never further than the longest span from the end of its own.
LEMMA ClockBound ==
  ASSUME RingInv, Timeline \/ SIF0Handler \/ Boot \/ ResetCmd
  PROVE  clock' \in 0..LongestSpan
<1>1. clock \in 0..LongestSpan /\ LongestSpan \in Nat /\ SyscallTicks \in 0..LongestSpan
      /\ DeliveryInv
  BY SpanType, TimesAssumption DEF RingInv, CdInv, RebootInv
<1>2. CASE Timeline
  <2>1. ASSUME NEW i \in DOMAIN queue, Arrive(i) PROVE clock' \in 0..LongestSpan
    <3>1. queue[i].due \in Nat
      BY <1>1, <2>1, ArriveStep
    <3>2. clock' = clock - queue[i].due /\ queue[i].due <= clock
      BY <2>1 DEF Arrive
    <3> QED
      BY <1>1, <3>1, <3>2
  <2>2. CASE TickOver
    BY <1>1, <2>2 DEF TickOver
  <2> QED
    BY <1>2, <2>1, <2>2 DEF Timeline, BootEnd, FreeEePkt, CmdPacket, HoldPacket
<1>3. CASE SIF0Handler \/ Boot \/ ResetCmd
  <2>1. clock' = clock \/ clock' = SyscallTicks
    BY <1>3 DEF SIF0Handler, Boot, ResetCmd, SpinCmdInit, SpinBootEnd, Spin, InitCmd0, InitCmd1,
                SpinSreg, ClearSif, ClearCmd, ClearBootEnd, ClearFlag, BootStep, NoTransfer,
                rpcVars, SetDma
  <2> QED
    BY <1>1, <2>1
<1> QED
  BY <1>2, <1>3

LEMMA SameSeen ==
  ASSUME UNCHANGED g_st
  PROVE  Shows
BY SeenLater DEF Shows

LEMMA PassedShows ==
  ASSUME RingInv, TimePasses, clock' \in 0..LongestSpan
  PROVE  PauseOK(g_st') /\ Shows
BY PassedImage DEF Shows, Ring!Next

LEMMA StepImage ==
  ASSUME RingInv, [CdNext]_allVars
  PROVE  RingInv' /\ Shows
<1>1. CdInv' /\ StreamOK(g_st) /\ PauseOK(g_st) /\ clock \in 0..LongestSpan
  BY CdNextInv DEF RingInv, CdInv
<1>2. SUFFICES PauseOK(g_st') /\ clock' \in 0..LongestSpan /\ Shows
  <2>1. LongestSpan' = LongestSpan /\ PauseOK(g_st)' = PauseOK(g_st')
    BY DEF LongestSpan, PauseOK, Max
  <2> QED
    BY <1>1, <2>1 DEF RingInv
<1>3. SyscallTicks \in 0..LongestSpan
  BY SpanType, TimesAssumption
<1>4. CASE (Timeline \/ SIF0Handler \/ Boot \/ ResetCmd) /\ TimePasses
  BY <1>4, ClockBound, PassedShows
<1>5. ASSUME NEW n \in 1..MaxTick, Elapse(n), TimePasses
      PROVE  PauseOK(g_st') /\ clock' \in 0..LongestSpan /\ Shows
  <2>1. clock' \in 0..LongestSpan
    BY <1>5, SpanType, TimesAssumption DEF Elapse
  <2> QED
    BY <1>5, <2>1, PassedShows
<1>6. ASSUME NEW c \in Client, Drive(c)
      PROVE  PauseOK(g_st') /\ clock' \in 0..LongestSpan /\ Shows
  <2>1. CASE \/ \E ring \in Rings : StInit(c, ring)
             \/ StSeek(c) \/ StStop(c) \/ StStat(c) \/ StPause(c) \/ StResume(c) \/ StRead(c)
    BY <2>1, StreamCommands
  <2>2. CASE (\E n \in 1..MaxSectors : CdRead(c, n)) \/ DiskReady(c)
    <3>1. clock' = SyscallTicks /\ g_st' = g_st
      BY <2>2 DEF CdRead, DiskReady, cdVars, Command, Call, Request, SetDma
    <3> QED
      BY <1>1, <1>3, <3>1, SameSeen
  <2> QED
    BY <1>6, <2>1, <2>2 DEF Drive
<1>7. ASSUME NEW c \in Client, Others(c)
      PROVE  PauseOK(g_st') /\ clock' \in 0..LongestSpan /\ Shows
  <2>1. TimePasses /\ clock' = SyscallTicks
    BY <1>7 DEF Others, Bind, RData, CallNoWait, Request, SetDma
  <2> QED
    BY <1>3, <2>1, PassedShows
<1>8. CASE (\E n \in Asks : Ask(n)) \/ UNCHANGED allVars
  <2>1. clock' = clock /\ g_st' = g_st
    BY <1>8 DEF Ask, allVars, vars, rpcVars, cdVars
  <2> QED
    BY <1>1, <2>1, SameSeen
<1> QED
  BY <1>4, <1>5, <1>6, <1>7, <1>8 DEF CdNext

LEMMA InitImage ==
  ASSUME CdInit
  PROVE  RingInv /\ Ring!Init
<1>1. PICK ring \in Rings : g_st = StreamState(ring)
  BY DEF CdInit
<1>2. /\ StreamOK(g_st) /\ g_st.ring = ring /\ g_st.running = FALSE /\ g_st.paused = FALSE
      /\ g_st.buffered = 0 /\ g_st.arrived = 0
  BY <1>1, EmptyOK DEF StreamState
<1>3. Seen(g_st) = Ring!Stopped(ring)
  BY <1>2, FreshSeen DEF Ring!Stopped
<1>4. clock \in 0..LongestSpan
  BY SpanType DEF CdInit, Init
<1> QED
  BY <1>2, <1>3, <1>4, CdInitInv DEF RingInv, PauseOK, Ring!Init

\* Whatever the ring, the times and the order of the requests, who asks finds
\* the sectors ready, at the cycle, that a drive would have them which puts one
\* after the other into its banks: though the code computes them by division,
\* from a schedule it moves only when somebody looks (cdvd.cpp:464-471, 518-567).
THEOREM ImplementsSectorRing == CdSpec => IsSectorRing
<1>1. CdSpec => []RingInv
  BY InitImage, StepImage, PTL DEF CdSpec
<1>2. IsSectorRing <=> Ring!Init /\ [][Ring!Next]_(Seen(g_st))
  BY DEF IsSectorRing, Ring!Spec
<1>3. RingInv /\ [CdNext]_allVars => [Ring!Next]_(Seen(g_st))
  BY StepImage DEF Shows
<1>4. CdInit => Ring!Init
  BY InitImage
<1> QED
  BY <1>1, <1>2, <1>3, <1>4, PTL DEF CdSpec

=============================================================================

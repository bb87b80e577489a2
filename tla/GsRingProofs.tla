---------------------------- MODULE GsRingProofs ----------------------------
(***************************************************************************)
(* Theorems about GsRing, for every capacity, every set of record sizes    *)
(* and any number of records: no thread sleeps on what has happened        *)
(* (NoLostWakeup), the EE and the worker keep in turn (InItsTurn), and the *)
(* ring is the queue of calls CallQueue asks for.                          *)
(*                                                                         *)
(* The first half, the handshake, never looks inside a store buffer.  It   *)
(* rests on three things about one: what its owner loads (Newest), which   *)
(* locations have a store on its way (Has), and that stores to a cursor    *)
(* only ever rise (Rising).                                                *)
(*                                                                         *)
(* On top of it the second half (RingInv) lays the ring out: at the        *)
(* positions of a set B, from the worker's tail to the EE's head, records  *)
(* start; each ends before the next, and its units hold it (Layout).  The  *)
(* calls among them that are not begun are numbered one after the other,   *)
(* up to the last one committed (Numbered), the vsyncs so are by their     *)
(* field (Scanned), and the one call that waits for its answer is the EE's *)
(* last (Unanswered).  A commit adds a position at the head, a step over a *)
(* record takes one off the tail, and nothing else changes what the others *)
(* hold.                                                                   *)
(*                                                                         *)
(* For the refinement the ring is read back from the head: from each       *)
(* position of the layout on, it reads as the record there and then what   *)
(* the next position reads as (ReadsOn), so that a commit appends one call *)
(* to the reading (FromEE) and a step over a record takes off one, or, for *)
(* a Wrap, none (OldestCall).                                              *)
(***************************************************************************)
EXTENDS GsRing, WellFoundedInduction, TLAPS

\* A store to loc is still on its way in the buffer q.
Has(q, loc) == \E i \in DOMAIN q : q[i].loc = loc

\* The stores to loc in q, and what is in memory m, never fall.
Rising(q, m, loc) ==
  \A i \in DOMAIN q : q[i].loc = loc =>
    /\ m[loc] <= q[i].val
    /\ \A j \in DOMAIN q : i < j /\ q[j].loc = loc => q[i].val <= q[j].val

-----------------------------------------------------------------------------
(* Naturals and store buffers *)

\* A nonempty set of naturals has a least element.
LEMMA LeastNat ==
  ASSUME NEW S \in SUBSET Nat, S # {}
  PROVE  \E x \in S : \A y \in S : x <= y
  <1> DEFINE R == {ss \in Nat \X Nat : ss[1] < ss[2]}
  <1>1. IsWellFoundedOn(R, Nat)
    BY NatLessThanWellFounded DEF OpToRel
  <1>2. PICK x \in S : \A y \in S : ~ (<<y, x>> \in R)
    BY <1>1, WFMin
  <1>3. ASSUME NEW y \in S PROVE x <= y
    <2>1. x \in Nat /\ y \in Nat /\ <<y, x>> \in Nat \X Nat /\ ~ (<<y, x>> \in R)
      BY <1>2
    <2>2. ~ (y < x)
      BY <2>1
    <2>3. QED
      BY <2>1, <2>2
  <1>4. QED
    BY <1>3

\* Max is what it says on a nonempty set of indices.
LEMMA MaxOf ==
  ASSUME NEW n \in Nat, NEW S \in SUBSET (1..n), S # {}
  PROVE  Max(S) \in S /\ \A y \in S : y <= Max(S)
  <1> DEFINE B == {k \in Nat : \A y \in S : y <= k}
  <1>1. n \in B
    OBVIOUS
  <1>2. PICK k \in B : \A y \in B : k <= y
    BY <1>1, LeastNat
  <1>3. k \in S
    <2>1. SUFFICES ASSUME k \notin S PROVE FALSE
      OBVIOUS
    <2> PICK z \in S : TRUE
      OBVIOUS
    <2>2. k - 1 \in Nat /\ \A y \in S : y <= k - 1
      BY <1>2, <2>1
    <2>3. QED
      BY <1>2, <2>2
  <1>4. \E x \in S : \A y \in S : x >= y
    BY <1>2, <1>3
  <1>5. Max(S) \in S /\ \A y \in S : Max(S) >= y
    BY <1>4 DEF Max
  <1>6. QED
    BY <1>5

Locs   == EELoc \cup GSLoc
StoreType == [loc : Locs, val : Nat]
Stores == Seq(StoreType)
Memory == [Locs -> Nat]

\* Without a store to loc on its way, the newest value is the one in memory.
LEMMA NewestInMemory ==
  ASSUME NEW q, NEW m, NEW loc, ~ Has(q, loc)
  PROVE  Newest(q, m, loc) = m[loc]
  BY DEF Newest, Has

\* With one, it is the value of the last such store.
LEMMA NewestInBuffer ==
  ASSUME NEW q \in Stores, NEW m, NEW loc, Has(q, loc)
  PROVE  \E i \in DOMAIN q :
           /\ q[i].loc = loc /\ Newest(q, m, loc) = q[i].val
           /\ \A j \in DOMAIN q : q[j].loc = loc => j <= i
  <1> DEFINE own == {i \in DOMAIN q : q[i].loc = loc}
  <1>1. own \in SUBSET (1..Len(q)) /\ own # {} /\ Len(q) \in Nat
    BY SMTT(30) DEF Has
  <1>2. Max(own) \in own /\ \A j \in own : j <= Max(own)
    BY <1>1, MaxOf
  <1>3. Newest(q, m, loc) = q[Max(own)].val
    BY <1>1 DEF Newest
  <1> HIDE DEF own
  <1>4. QED
    BY <1>2, <1>3 DEF own

\* The last store is the newest.
LEMMA NewestIsLast ==
  ASSUME NEW q \in Stores, NEW m, NEW loc,
         NEW i \in DOMAIN q, q[i].loc = loc, \A j \in DOMAIN q : q[j].loc = loc => j <= i
  PROVE  Newest(q, m, loc) = q[i].val
  <1>1. PICK k \in DOMAIN q : /\ q[k].loc = loc /\ Newest(q, m, loc) = q[k].val
                              /\ \A j \in DOMAIN q : q[j].loc = loc => j <= k
    BY NewestInBuffer DEF Has
  <1>2. k \in 1..Len(q) /\ i \in 1..Len(q)
    OBVIOUS
  <1>3. QED
    BY <1>1, <1>2

LEMMA NewestType ==
  ASSUME NEW q \in Stores, NEW m \in Memory, NEW loc \in Locs
  PROVE  Newest(q, m, loc) \in Nat
  <1>1. CASE Has(q, loc)
    <2>1. PICK i \in DOMAIN q : Newest(q, m, loc) = q[i].val
      BY <1>1, NewestInBuffer
    <2>2. q[i] \in StoreType
      BY DEF Stores
    <2>3. QED
      BY <2>1, <2>2 DEF StoreType
  <1>2. CASE ~ Has(q, loc)
    BY <1>2, NewestInMemory DEF Memory
  <1>3. QED
    BY <1>1, <1>2

-----------------------------------------------------------------------------
(* A thread stores *)

LEMMA AppendStore ==
  ASSUME NEW q \in Stores, NEW s \in StoreType
  PROVE  /\ q \o <<s>> \in Stores /\ DOMAIN (q \o <<s>>) = 1..(Len(q) + 1)
         /\ DOMAIN q = 1..Len(q)
         /\ \A i \in 1..Len(q) : (q \o <<s>>)[i] = q[i]
         /\ (q \o <<s>>)[Len(q) + 1] = s
  BY DEF Stores

LEMMA HasAfterStore ==
  ASSUME NEW q \in Stores, NEW s \in StoreType, NEW loc
  PROVE  Has(q \o <<s>>, loc) <=> Has(q, loc) \/ s.loc = loc
  <1> DEFINE r == q \o <<s>>
  <1>1. /\ DOMAIN r = 1..(Len(q) + 1) /\ DOMAIN q = 1..Len(q) /\ Len(q) \in Nat
        /\ \A i \in 1..Len(q) : r[i] = q[i]
        /\ r[Len(q) + 1] = s
    BY AppendStore DEF Stores
  <1> HIDE DEF r
  <1>2. Has(r, loc) <=> Has(q, loc) \/ s.loc = loc
    BY <1>1 DEF Has
  <1>3. QED
    BY <1>2 DEF r

LEMMA NewestAfterStore ==
  ASSUME NEW q \in Stores, NEW m, NEW s \in StoreType, NEW loc
  PROVE  Newest(q \o <<s>>, m, loc) = IF s.loc = loc THEN s.val ELSE Newest(q, m, loc)
  <1> DEFINE r == q \o <<s>>
  <1>0. /\ r \in Stores /\ DOMAIN r = 1..(Len(q) + 1) /\ DOMAIN q = 1..Len(q)
        /\ \A i \in 1..Len(q) : r[i] = q[i]
        /\ r[Len(q) + 1] = s /\ Len(q) \in Nat
    BY AppendStore DEF Stores
  <1> HIDE DEF r
  <1>1. CASE s.loc = loc
    <2>1. PICK n : n = Len(q) + 1
      OBVIOUS
    <2>2. /\ r \in Stores /\ n \in DOMAIN r /\ r[n].loc = loc
          /\ \A j \in DOMAIN r : r[j].loc = loc => j <= n
      BY <1>0, <1>1, <2>1
    <2>3. Newest(r, m, loc) = r[n].val
      BY <2>2, NewestIsLast, SMTT(30)
    <2>4. QED
      BY <1>0, <1>1, <2>1, <2>3 DEF r
  <1>2. CASE s.loc # loc /\ Has(q, loc)
    <2>1. PICK i \in DOMAIN q : /\ q[i].loc = loc /\ Newest(q, m, loc) = q[i].val
                                /\ \A j \in DOMAIN q : q[j].loc = loc => j <= i
      BY <1>2, NewestInBuffer
    <2>2. i \in DOMAIN r /\ r[i] = q[i]
      BY <1>0, <2>1
    <2>3. \A j \in DOMAIN r : r[j].loc = loc => j <= i
      BY <1>0, <1>2, <2>1
    <2>4. Newest(r, m, loc) = r[i].val
      <3>1. r \in Stores /\ i \in DOMAIN r /\ r[i].loc = loc
        BY <1>0, <2>1, <2>2
      <3>2. QED
        BY <2>3, <3>1, NewestIsLast
    <2>5. QED
      BY <1>2, <2>1, <2>2, <2>4 DEF r
  <1>3. CASE s.loc # loc /\ ~ Has(q, loc)
    <2>1. ~ Has(r, loc)
      BY <1>3, HasAfterStore DEF r
    <2>2. QED
      BY <1>3, <2>1, NewestInMemory DEF r
  <1>4. QED
    BY <1>1, <1>2, <1>3

\* A rising location stays so when what is stored is not below its newest value.
LEMMA RisingValues ==
  ASSUME NEW q \in Stores, NEW m \in Memory, NEW loc \in Locs,
         Rising(q, m, loc)
  PROVE  /\ m[loc] <= Newest(q, m, loc)
         /\ \A i \in DOMAIN q : q[i].loc = loc => q[i].val <= Newest(q, m, loc)
  <1>1. CASE Has(q, loc)
    <2>1. PICK i \in DOMAIN q : /\ q[i].loc = loc /\ Newest(q, m, loc) = q[i].val
                                /\ \A j \in DOMAIN q : q[j].loc = loc => j <= i
      BY <1>1, NewestInBuffer
    <2>2. \A j \in DOMAIN q : q[j].loc = loc => j = i \/ j < i
      <3>1. DOMAIN q \subseteq Int
        BY DEF Stores
      <3>2. QED
        BY <2>1, <3>1
    <2>3. m[loc] <= q[i].val /\ \A j \in DOMAIN q : q[j].loc = loc => q[j].val <= q[i].val
      <3>1. q[i].val \in Nat
        <4>1. q[i] \in StoreType
          BY DEF Stores
        <4>2. QED
          BY <4>1 DEF StoreType
      <3>2. QED
        BY <2>1, <2>2, <3>1 DEF Rising
    <2>4. QED
      BY <2>1, <2>3
  <1>2. CASE ~ Has(q, loc)
    <2>1. Newest(q, m, loc) = m[loc] /\ m[loc] \in Nat
      BY <1>2, NewestInMemory DEF Memory
    <2>2. QED
      BY <1>2, <2>1 DEF Has
  <1>3. QED
    BY <1>1, <1>2

LEMMA RisingAfterStore ==
  ASSUME NEW q \in Stores, NEW m \in Memory, NEW loc \in Locs,
         NEW s \in StoreType, Rising(q, m, loc), s.loc = loc => s.val >= Newest(q, m, loc)
  PROVE  Rising(q \o <<s>>, m, loc)
  <1> DEFINE r == q \o <<s>>
  <1>0. /\ DOMAIN r = 1..(Len(q) + 1) /\ DOMAIN q = 1..Len(q) /\ Len(q) \in Nat
        /\ \A i \in 1..Len(q) : r[i] = q[i]
        /\ r[Len(q) + 1] = s
    BY AppendStore DEF Stores
  <1>1. /\ m[loc] <= Newest(q, m, loc) /\ Newest(q, m, loc) \in Nat /\ m[loc] \in Nat
        /\ \A i \in DOMAIN q : q[i].loc = loc => q[i].val <= Newest(q, m, loc)
        /\ \A i \in DOMAIN q : q[i].val \in Nat
        /\ s.val \in Nat
    <2>1. \A i \in DOMAIN q : q[i] \in StoreType
      BY DEF Stores
    <2>2. QED
      BY <2>1, RisingValues, NewestType DEF StoreType, Memory
  <1> HIDE DEF r
  <1>2. ASSUME NEW i \in DOMAIN r, r[i].loc = loc
        PROVE  m[loc] <= r[i].val /\ \A j \in DOMAIN r : i < j /\ r[j].loc = loc => r[i].val <= r[j].val
    <2>1. CASE i = Len(q) + 1
      BY <1>0, <1>1, <1>2, <2>1
    <2>2. CASE i \in DOMAIN q
      <3>1. m[loc] <= q[i].val /\ \A j \in DOMAIN q : i < j /\ q[j].loc = loc => q[i].val <= q[j].val
        BY <1>0, <1>2, <2>2 DEF Rising
      <3>2. s.loc = loc => q[i].val <= s.val
        BY <1>0, <1>1, <1>2, <2>2
      <3>3. QED
        BY <1>0, <2>2, <3>1, <3>2
    <2>3. QED
      BY <1>0, <2>1, <2>2
  <1>3. QED
    BY <1>2 DEF Rising, r

-----------------------------------------------------------------------------
(* Memory takes a store *)

Flushed(q, m) == [m EXCEPT ![Head(q).loc] = Head(q).val]

LEMMA TailOfStores ==
  ASSUME NEW q \in Stores, q # <<>>
  PROVE  /\ Tail(q) \in Stores /\ Head(q) = q[1] /\ Head(q) \in StoreType
         /\ DOMAIN q = 1..Len(q) /\ Len(q) \in Nat \ {0} /\ DOMAIN Tail(q) = 1..(Len(q) - 1)
         /\ \A i \in 1..(Len(q) - 1) : Tail(q)[i] = q[i + 1]
  BY DEF Stores

LEMMA HasAfterFlush ==
  ASSUME NEW q \in Stores, q # <<>>, NEW loc
  PROVE  /\ Has(Tail(q), loc) => Has(q, loc)
         /\ Head(q).loc = loc => Has(q, loc)
  <1>1. ASSUME Has(Tail(q), loc) PROVE Has(q, loc)
    <2>1. PICK i \in 1..(Len(q) - 1) : q[i + 1].loc = loc
      BY <1>1, TailOfStores DEF Has
    <2>2. i + 1 \in DOMAIN q
      BY TailOfStores
    <2>3. QED
      BY <2>1, <2>2 DEF Has
  <1>2. Head(q).loc = loc => Has(q, loc)
    BY TailOfStores DEF Has
  <1>3. QED
    BY <1>1, <1>2

\* The owner sees no difference.
LEMMA NewestAfterFlush ==
  ASSUME NEW q \in Stores, q # <<>>, NEW m \in Memory, NEW loc \in Locs
  PROVE  Newest(Tail(q), Flushed(q, m), loc) = Newest(q, m, loc)
  <1>0. /\ Tail(q) \in Stores /\ Head(q) = q[1] /\ Head(q) \in StoreType
        /\ DOMAIN q = 1..Len(q) /\ Len(q) \in Nat \ {0} /\ DOMAIN Tail(q) = 1..(Len(q) - 1)
        /\ \A i \in 1..(Len(q) - 1) : Tail(q)[i] = q[i + 1]
    BY TailOfStores
  <1>1. CASE Has(Tail(q), loc)
    <2>1. PICK i \in DOMAIN Tail(q) :
             /\ Tail(q)[i].loc = loc /\ Newest(Tail(q), Flushed(q, m), loc) = Tail(q)[i].val
             /\ \A j \in DOMAIN Tail(q) : Tail(q)[j].loc = loc => j <= i
      <3> DEFINE r == Tail(q)
                 n == Flushed(q, m)
      <3>1. r \in Stores /\ Has(r, loc)
        BY <1>0, <1>1
      <3> HIDE DEF r, n
      <3>2. \E i \in DOMAIN r :
              /\ r[i].loc = loc /\ Newest(r, n, loc) = r[i].val
              /\ \A j \in DOMAIN r : r[j].loc = loc => j <= i
        BY <3>1, NewestInBuffer
      <3>3. QED
        BY <3>2 DEF r, n
    <2>2. i + 1 \in DOMAIN q /\ q[i + 1] = Tail(q)[i]
      BY <1>0
    <2>3. ASSUME NEW j \in DOMAIN q, q[j].loc = loc PROVE j <= i + 1
      <3>1. CASE j = 1
        BY <1>0, <3>1
      <3>2. CASE j # 1
        <4>1. j - 1 \in DOMAIN Tail(q) /\ Tail(q)[j - 1] = q[j]
          BY <1>0, <3>2
        <4>2. QED
          BY <1>0, <2>1, <2>3, <4>1
      <3>3. QED
        BY <3>1, <3>2
    <2>4. Newest(q, m, loc) = q[i + 1].val
      BY <2>1, <2>2, <2>3, NewestIsLast
    <2>5. QED
      BY <2>1, <2>2, <2>4
  <1>2. CASE ~ Has(Tail(q), loc)
    <2>1. Newest(Tail(q), Flushed(q, m), loc) = Flushed(q, m)[loc]
      BY <1>2, NewestInMemory
    <2>2. CASE Head(q).loc = loc
      <3>1. Flushed(q, m)[loc] = Head(q).val
        BY <1>0, <2>2 DEF Flushed, Memory
      <3>2. ASSUME NEW j \in DOMAIN q, q[j].loc = loc PROVE j <= 1
        <4>1. SUFFICES ASSUME j # 1 PROVE FALSE
          BY <1>0
        <4>2. j - 1 \in DOMAIN Tail(q) /\ Tail(q)[j - 1] = q[j]
          BY <1>0, <4>1
        <4>3. QED
          BY <1>2, <3>2, <4>2 DEF Has
      <3>3. Newest(q, m, loc) = q[1].val
        <4>1. 1 \in DOMAIN q /\ q[1].loc = loc
          BY <1>0, <2>2
        <4>2. QED
          BY <3>2, <4>1, NewestIsLast
      <3>4. QED
        BY <1>0, <2>1, <3>1, <3>3
    <2>3. CASE Head(q).loc # loc
      <3>1. ~ Has(q, loc)
        <4>1. SUFFICES ASSUME NEW j \in DOMAIN q, q[j].loc = loc PROVE FALSE
          BY DEF Has
        <4>2. j # 1
          BY <1>0, <2>3, <4>1
        <4>3. j - 1 \in DOMAIN Tail(q) /\ Tail(q)[j - 1] = q[j]
          BY <1>0, <4>2
        <4>4. QED
          BY <1>2, <4>1, <4>3 DEF Has
      <3>2. Flushed(q, m)[loc] = m[loc]
        BY <2>3 DEF Flushed
      <3>3. QED
        BY <2>1, <3>1, <3>2, NewestInMemory
    <2>4. QED
      BY <2>2, <2>3
  <1>3. QED
    BY <1>1, <1>2

LEMMA RisingAfterFlush ==
  ASSUME NEW q \in Stores, q # <<>>, NEW m \in Memory, NEW loc \in Locs, Rising(q, m, loc)
  PROVE  Rising(Tail(q), Flushed(q, m), loc) /\ m[loc] <= Flushed(q, m)[loc]
  <1>0. /\ Tail(q) \in Stores /\ Head(q) = q[1] /\ Head(q) \in StoreType
        /\ DOMAIN q = 1..Len(q) /\ Len(q) \in Nat \ {0} /\ DOMAIN Tail(q) = 1..(Len(q) - 1)
        /\ \A i \in 1..(Len(q) - 1) : Tail(q)[i] = q[i + 1]
    BY TailOfStores
  <1>1. m[loc] \in Nat /\ Flushed(q, m)[loc] = IF q[1].loc = loc THEN q[1].val ELSE m[loc]
    BY <1>0 DEF Flushed, Memory
  <1>2. m[loc] <= Flushed(q, m)[loc]
    BY <1>0, <1>1 DEF Rising
  <1>3. ASSUME NEW i \in DOMAIN Tail(q), Tail(q)[i].loc = loc
        PROVE  /\ Flushed(q, m)[loc] <= Tail(q)[i].val
               /\ \A j \in DOMAIN Tail(q) : i < j /\ Tail(q)[j].loc = loc => Tail(q)[i].val <= Tail(q)[j].val
    <2>1. i + 1 \in DOMAIN q /\ q[i + 1] = Tail(q)[i] /\ 1 < i + 1
      BY <1>0
    <2>2. Flushed(q, m)[loc] <= Tail(q)[i].val
      <3>1. m[loc] <= q[i + 1].val
        BY <1>3, <2>1 DEF Rising
      <3>2. q[1].loc = loc => q[1].val <= q[i + 1].val
        BY <1>0, <1>3, <2>1 DEF Rising
      <3>3. QED
        BY <1>1, <2>1, <3>1, <3>2
    <2>3. ASSUME NEW j \in DOMAIN Tail(q), i < j, Tail(q)[j].loc = loc
          PROVE  Tail(q)[i].val <= Tail(q)[j].val
      <3>1. j + 1 \in DOMAIN q /\ q[j + 1] = Tail(q)[j] /\ i + 1 < j + 1
        BY <1>0, <2>3
      <3>2. QED
        BY <1>3, <2>1, <2>3, <3>1 DEF Rising
    <2>4. QED
      BY <2>2, <2>3
  <1>4. QED
    BY <1>2, <1>3 DEF Rising

-----------------------------------------------------------------------------
(* The inductive invariant, one conjunct per concern *)

EEHolds == {"waitFence", "test", "waitStep", "unlock", "unlockExit", "qFence", "qUnflag", "qUnlock"}
GSHolds == {"parkFence", "parkTest", "parkWait", "unpark", "repeatUnlock"}

\* m_mu is held exactly at the places between its lock and its unlock.
MutexOK == (mu = "ee" <=> epc \in EEHolds) /\ (mu = "gs" <=> gpc \in GSHolds)

\* Where the worker goes on after it has notified.
BackOK == back \in {"drain", "record", "present", "advance", "parkOrStop"}

\* The places where a thread may have stores on their way.
EEDirty == {"room", "commit", "wake", "stall", "lock", "waitFence", "unlock", "unlockExit",
            "quiesce", "qNotify", "qFence", "qUnlock"}
GSDirty == {"record", "replay", "present", "advance", "roomMade", "notify", "parkFence",
            "repeatUnlock", "unpark", "failed", "lastNotify", "failNotify"}
Announced == {"vsync_done", "reply_seq"}
Batch == {"record", "replay", "present", "advance", "roomMade", "notify", "failed", "failNotify"}

OnTheirWay ==
  /\ epc \notin EEDirty => sb["ee"] = <<>>
  /\ gpc \notin GSDirty => sb["gs"] = <<>>
  /\ \A loc \in Announced : Has(sb["gs"], loc) => gpc = "notify"
  /\ Has(sb["gs"], "tail") => gpc \in Batch

\* A thread that sleeps, or is about to, has raised its flag.
WaitPc == {"waitFence", "test", "waitStep", "asleep", "awake", "relock"}
ParkPc == {"parkFence", "parkTest", "parkWait", "asleep", "awake"}

FlagsOK ==
  /\ epc \in WaitPc => Load("ee", WaitFlag) = 1
  /\ gpc \in ParkPc => Load("gs", "consumer_waiting") = 1

\* Each thread's last word is in memory from its notification on.
QuiescePc == {"qTest", "qLock", "qFence", "qAsleep", "qAwake", "qUnflag", "qUnlock", "join",
              "joined", "abandoned"}
LeavePc   == {"lastNotify", "failNotify", "leaving", "gone"}

LastWords ==
  /\ Has(sb["ee"], "shutdown") => epc = "qNotify"
  /\ mem["shutdown"] # 0 => epc \in {"qNotify"} \cup QuiescePc
  /\ epc = "qNotify" => Load("ee", "shutdown") = 1
  /\ epc \in QuiescePc => mem["shutdown"] = 1
  /\ Has(sb["gs"], "exited") \/ mem["exited"] # 0 => gpc \in LeavePc
  /\ gpc \in LeavePc => Load("gs", "exited") = 1

\* The cursors rise, and the worker's stays behind the head it has seen.
NotifyPc == {"notify", "notifyRead", "notifyOne"}
InRecord == \/ gpc \in {"replay", "present", "advance"}
            \/ gpc \in NotifyPc /\ back \in {"present", "advance"}

CursorsOK ==
  /\ Rising(sb["ee"], mem, "head") /\ Rising(sb["gs"], mem, "tail")
  /\ upto <= mem["head"] /\ tail <= mem["head"]
  /\ InRecord => tail + cur.size <= upto
  /\ epc = "stall" => why = "space"

\* Between two notifications at most a Wrap record is published, with the
\* record it makes room for still to come.
WaitsForRoom == why = "space" /\ epc \in {"lock", "waitFence"}
WrapFrom(at) == /\ buf[at % Cap].kind = "wrap" /\ head = at + buf[at % Cap].size
                /\ head % Cap = 0

WrapOnly ==
  epc # "wake" =>
    /\ Has(sb["ee"], "head") =>
         /\ head % Cap = 0
         /\ \A i \in DOMAIN sb["ee"] : sb["ee"][i].loc = "head" => sb["ee"][i].val = head
    /\ head # mem["head"] =>
         /\ WrapFrom(mem["head"])
         /\ epc \in {"room", "commit", "stall", "quiesce", "qNotify"} \/ WaitsForRoom

\* The worker sleeps only over an empty ring, but for such a Wrap.
ParkInv ==
  gpc \in {"parkWait", "asleep"} =>
    /\ epc \notin QuiescePc
    /\ head # tail =>
         \/ epc \in {"wake", "wakeRead", "wakeNotify"}
         \/ /\ WrapFrom(tail)
            /\ \/ epc \in {"room", "commit", "stall", "quiesce", "qNotify"}
               \/ why = "space" /\ epc \in WaitPc \cup {"lock", "unlock", "unlockExit"}

\* The EE sleeps only on what has not happened, or is about to be notified.
HasHappened ==
  CASE why = "space" -> Cap - (head - mem["tail"]) >= Need
    [] why = "field" -> mem["vsync_done"] >= vseq - 1
    [] why = "reply" -> mem["reply_seq"] >= cseq

SleepInv ==
  /\ epc \in {"waitStep", "asleep"} /\ HasHappened =>
       \/ gpc \in NotifyPc
       \/ why = "space" /\ gpc \in Batch \cup {"batchEnd", "lastNotify"}
  /\ epc = "qAsleep" => gpc \notin {"leaving", "gone"}

HandshakeInv ==
  /\ TypeOK /\ MutexOK /\ BackOK /\ OnTheirWay /\ FlagsOK /\ LastWords
  /\ CursorsOK /\ WrapOnly /\ ParkInv /\ SleepInv

-----------------------------------------------------------------------------
(* What a store, a flush and a fence do to what the threads see *)

Threads == {"ee", "gs"}
Own(t)  == IF t = "ee" THEN EELoc ELSE GSLoc
MemOK   == /\ mem \in Memory /\ DOMAIN sb = Threads
           /\ \A t \in Threads : sb[t] \in Seq([loc : Own(t), val : Nat])

LEMMA MemTypes ==
  ASSUME MemOK
  PROVE  /\ mem \in Memory
         /\ \A t \in Threads : sb[t] \in Stores
         /\ \A t \in Threads : \A loc : Has(sb[t], loc) => loc \in Own(t)
         /\ \A t \in Threads, loc \in Locs : Newest(sb[t], mem, loc) \in Nat /\ mem[loc] \in Nat
         /\ \A t \in Threads, loc \in Locs : ~ Has(sb[t], loc) => Newest(sb[t], mem, loc) = mem[loc]
         /\ \A t \in Threads : sb[t] = <<>> => \A loc : ~ Has(sb[t], loc)
  <1>1. mem \in Memory /\ \A t \in Threads : Own(t) \subseteq Locs
    BY DEF MemOK, Own, Locs
  <1>2. ASSUME NEW t \in Threads
        PROVE  /\ sb[t] \in Stores
               /\ \A i \in DOMAIN sb[t] : sb[t][i].loc \in Own(t)
    <2> DEFINE T == [loc : Own(t), val : Nat]
    <2>1. sb[t] \in Seq(T)
      BY DEF MemOK
    <2>2. T \subseteq StoreType /\ \A s \in T : s.loc \in Own(t)
      BY <1>1 DEF StoreType
    <2> HIDE DEF T
    <2>3. \A i \in DOMAIN sb[t] : sb[t][i] \in T
      BY <2>1
    <2>4. sb[t] \in Seq(StoreType)
      BY <2>1, <2>2
    <2>5. QED
      BY <2>2, <2>3, <2>4 DEF Stores
  <1>3. \A t \in Threads : \A loc : Has(sb[t], loc) => loc \in Own(t)
    BY <1>2 DEF Has
  <1>4. \A t \in Threads, loc \in Locs : Newest(sb[t], mem, loc) \in Nat
    BY <1>1, <1>2, NewestType
  <1>5. \A loc \in Locs : mem[loc] \in Nat
    BY <1>1 DEF Memory
  <1>6. \A t \in Threads, loc \in Locs : ~ Has(sb[t], loc) => Newest(sb[t], mem, loc) = mem[loc]
    BY NewestInMemory
  <1>7. \A t \in Threads : sb[t] = <<>> => \A loc : ~ Has(sb[t], loc)
    BY DEF Has
  <1>8. QED
    BY <1>1, <1>2, <1>3, <1>4, <1>5, <1>6, <1>7

\* The store of v to loc is the last one of t's.
Stored(t, loc, v) ==
  /\ mem' = mem /\ \A u \in Threads : u # t => sb'[u] = sb[u]
  /\ sb'[t] = Append(sb[t], [loc |-> loc, val |-> v])
  /\ \A x \in Locs : Newest(sb'[t], mem, x) = IF x = loc THEN v ELSE Newest(sb[t], mem, x)
  /\ \A x : Has(sb'[t], x) <=> Has(sb[t], x) \/ x = loc
  /\ \A x \in Locs : Rising(sb[t], mem, x) /\ (x = loc => v >= Newest(sb[t], mem, x))
                     => Rising(sb'[t], mem, x)

LEMMA StoreEffect ==
  ASSUME MemOK, NEW t \in Threads, NEW loc \in Own(t), NEW v \in Nat, Store(t, loc, v)
  PROVE  MemOK' /\ Stored(t, loc, v)
  <1> DEFINE s == [loc |-> loc, val |-> v]
  <1>1. sb[t] \in Stores /\ mem \in Memory /\ sb[t] \in Seq([loc : Own(t), val : Nat])
    BY MemTypes DEF MemOK
  <1>2. s \in StoreType /\ s.loc = loc /\ s.val = v /\ s \in [loc : Own(t), val : Nat]
    BY DEF StoreType, Own, Locs
  <1>3. mem' = mem /\ sb' = [sb EXCEPT ![t] = sb[t] \o <<s>>] /\ DOMAIN sb = Threads
    BY DEF Store, Delay, MemOK
  <1> HIDE DEF s
  <1>4. sb'[t] = sb[t] \o <<s>> /\ \A u \in Threads : u # t => sb'[u] = sb[u]
    BY <1>3
  <1>5. MemOK'
    <2>1. sb'[t] \in Seq([loc : Own(t), val : Nat])
      BY <1>1, <1>2, <1>4
    <2>2. DOMAIN sb' = Threads
      BY <1>3
    <2>3. QED
      BY <1>3, <1>4, <2>1, <2>2 DEF MemOK
  <1>6. sb[t] \o <<s>> = Append(sb[t], s)
    BY <1>1, <1>2
  <1>7. \A x : Has(sb'[t], x) <=> Has(sb[t], x) \/ x = loc
    BY <1>1, <1>2, <1>4, HasAfterStore
  <1>8. \A x \in Locs : Newest(sb'[t], mem, x) = IF x = loc THEN v ELSE Newest(sb[t], mem, x)
    BY <1>1, <1>2, <1>4, NewestAfterStore
  <1>9. \A x \in Locs : Rising(sb[t], mem, x) /\ (x = loc => v >= Newest(sb[t], mem, x))
                           => Rising(sb'[t], mem, x)
    BY <1>1, <1>2, <1>4, RisingAfterStore
  <1>10. QED
    BY <1>3, <1>4, <1>5, <1>6, <1>7, <1>8, <1>9 DEF Stored, s

LEMMA AppendTwo ==
  ASSUME NEW q \in Stores, NEW a \in StoreType, NEW b \in StoreType
  PROVE  q \o <<a, b>> = (q \o <<a>>) \o <<b>> /\ (q \o <<a>>) \o <<b>> = Append(Append(q, a), b)
  <1> USE DEF Stores
  <1>1. q \o <<a>> = Append(q, a) /\ Append(q, a) \in Stores
    OBVIOUS
  <1>2. Append(q, a) \o <<b>> = Append(Append(q, a), b)
    BY <1>1
  <1>3. q \o <<a, b>> = Append(Append(q, a), b)
    OBVIOUS
  <1>4. QED
    BY <1>1, <1>2, <1>3

\* The two stores of a reply, the value first.
Replied(value, seq) ==
  /\ mem' = mem /\ sb'["ee"] = sb["ee"]
  /\ sb'["gs"] = Append(Append(sb["gs"], [loc |-> "reply_value", val |-> value]),
                        [loc |-> "reply_seq", val |-> seq])
  /\ \A x \in Locs : Newest(sb'["gs"], mem, x) =
       IF x = "reply_seq" THEN seq ELSE IF x = "reply_value" THEN value ELSE Newest(sb["gs"], mem, x)
  /\ \A x : Has(sb'["gs"], x) <=> Has(sb["gs"], x) \/ x \in {"reply_value", "reply_seq"}
  /\ \A x \in Locs \ {"reply_value", "reply_seq"} :
       Rising(sb["gs"], mem, x) => Rising(sb'["gs"], mem, x)

LEMMA ReplyEffect ==
  ASSUME MemOK, NEW value \in Nat, NEW seq \in Nat,
         Delay("gs", <<[loc |-> "reply_value", val |-> value], [loc |-> "reply_seq", val |-> seq]>>)
  PROVE  MemOK' /\ Replied(value, seq)
  <1> DEFINE a == [loc |-> "reply_value", val |-> value]
             b == [loc |-> "reply_seq", val |-> seq]
             q == sb["gs"]
             T == [loc : GSLoc, val : Nat]
  <1>1. q \in Stores /\ mem \in Memory /\ q \in Seq(T)
    BY MemTypes DEF MemOK, Own, Threads
  <1>2. /\ a \in StoreType /\ a.loc = "reply_value" /\ a.val = value /\ a \in T
        /\ b \in StoreType /\ b.loc = "reply_seq" /\ b.val = seq /\ b \in T
    BY DEF StoreType, GSLoc, Locs
  <1>3. mem' = mem /\ sb' = [sb EXCEPT !["gs"] = q \o <<a, b>>] /\ DOMAIN sb = {"ee", "gs"}
    BY DEF Delay, MemOK, Threads
  <1>0. T = [loc : Own("gs"), val : Nat]
    BY DEF Own
  <1> HIDE DEF a, b, q, T
  <1>4. q \o <<a>> \in Stores /\ q \o <<a, b>> = (q \o <<a>>) \o <<b>>
    <2>1. q \o <<a>> \in Stores
      BY <1>1, <1>2, AppendStore
    <2>2. q \o <<a, b>> = (q \o <<a>>) \o <<b>>
      BY <1>1, <1>2, AppendTwo
    <2>3. QED
      BY <2>1, <2>2
  <1>5. sb'["gs"] = (q \o <<a>>) \o <<b>> /\ sb'["ee"] = sb["ee"]
    BY <1>3, <1>4
  <1>6. sb'["gs"] = Append(Append(q, a), b)
    BY <1>1, <1>2, <1>5, AppendTwo
  <1>7. MemOK'
    <2>1. sb'["gs"] \in Seq(T)
      BY <1>1, <1>2, <1>6
    <2>2. DOMAIN sb' = {"ee", "gs"}
      BY <1>3
    <2>3. QED
      BY <1>0, <1>3, <1>5, <2>1, <2>2 DEF MemOK, Threads
  <1>8. \A x : Has(sb'["gs"], x) <=> Has(q, x) \/ x \in {"reply_value", "reply_seq"}
    <2>1. \A x : Has(q \o <<a>>, x) <=> Has(q, x) \/ x = "reply_value"
      BY <1>1, <1>2, HasAfterStore
    <2>2. \A x : Has(sb'["gs"], x) <=> Has(q \o <<a>>, x) \/ x = "reply_seq"
      BY <1>2, <1>4, <1>5, HasAfterStore
    <2>3. QED
      BY <2>1, <2>2
  <1>9. \A x \in Locs : Newest(sb'["gs"], mem, x) =
          IF x = "reply_seq" THEN seq ELSE IF x = "reply_value" THEN value ELSE Newest(q, mem, x)
    <2>1. TAKE x \in Locs
    <2>2. Newest(q \o <<a>>, mem, x) = IF x = "reply_value" THEN value ELSE Newest(q, mem, x)
      BY <1>1, <1>2, NewestAfterStore
    <2>3. Newest(sb'["gs"], mem, x) = IF x = "reply_seq" THEN seq ELSE Newest(q \o <<a>>, mem, x)
      BY <1>1, <1>2, <1>4, <1>5, NewestAfterStore
    <2>4. QED
      BY <2>2, <2>3
  <1>10. \A x \in Locs \ {"reply_value", "reply_seq"} :
           Rising(q, mem, x) => Rising(sb'["gs"], mem, x)
    BY <1>1, <1>2, <1>4, <1>5, RisingAfterStore
  <1>11. QED
    BY <1>3, <1>5, <1>6, <1>7, <1>8, <1>9, <1>10 DEF Replied, a, b, q

\* A flush changes nothing for the thread that stored.
Took(t) ==
  /\ \A u \in Threads : u # t => sb'[u] = sb[u]
  /\ sb[t] # <<>> /\ sb'[t] = Tail(sb[t])
  /\ \A x \in Locs : Newest(sb'[t], mem', x) = Newest(sb[t], mem, x)
  /\ \A x : Has(sb'[t], x) => Has(sb[t], x)
  /\ \A x \in Locs : mem'[x] # mem[x] =>
        \E i \in DOMAIN sb[t] : sb[t][i].loc = x /\ mem'[x] = sb[t][i].val
  /\ \A x \in Locs : Rising(sb[t], mem, x) => Rising(sb'[t], mem', x) /\ mem[x] <= mem'[x]

LEMMA FlushEffect ==
  ASSUME MemOK, NEW t \in Threads, Flush(t)
  PROVE  MemOK' /\ Took(t)
  <1> DEFINE q == sb[t]
  <1>1. q \in Stores /\ mem \in Memory /\ q \in Seq([loc : Own(t), val : Nat])
    BY MemTypes DEF MemOK
  <1>2. /\ q # <<>> /\ mem' = Flushed(q, mem)
        /\ sb' = [sb EXCEPT ![t] = Tail(q)] /\ DOMAIN sb = Threads
    BY DEF Flush, Flushed, MemOK
  <1> HIDE DEF q
  <1>3. sb'[t] = Tail(q) /\ \A u \in Threads : u # t => sb'[u] = sb[u]
    BY <1>2
  <1>4. Head(q) \in StoreType /\ Head(q) = q[1] /\ 1 \in DOMAIN q
    BY <1>1, <1>2, TailOfStores
  <1>5. MemOK'
    <2>1. sb'[t] \in Seq([loc : Own(t), val : Nat])
      BY <1>1, <1>2, <1>3
    <2>2. DOMAIN sb' = Threads /\ mem' \in Memory
      BY <1>1, <1>2, <1>4 DEF Memory, Flushed, StoreType
    <2>3. QED
      BY <1>3, <2>1, <2>2 DEF MemOK
  <1>6. \A x : Has(sb'[t], x) => Has(q, x)
    BY <1>1, <1>2, <1>3, HasAfterFlush
  <1>7. \A x \in Locs : Newest(sb'[t], mem', x) = Newest(q, mem, x)
    BY <1>1, <1>2, <1>3, NewestAfterFlush
  <1>8. \A x \in Locs : mem'[x] # mem[x] => \E i \in DOMAIN q : q[i].loc = x /\ mem'[x] = q[i].val
    <2>1. \A x \in Locs : mem'[x] = IF q[1].loc = x THEN q[1].val ELSE mem[x]
      BY <1>1, <1>2, <1>4 DEF Flushed, Memory
    <2>2. QED
      BY <1>4, <2>1
  <1>9. \A x \in Locs : Rising(q, mem, x) => Rising(sb'[t], mem', x) /\ mem[x] <= mem'[x]
    BY <1>1, <1>2, <1>3, RisingAfterFlush
  <1>10. QED
    BY <1>2, <1>3, <1>5, <1>6, <1>7, <1>8, <1>9 DEF Took, q

-----------------------------------------------------------------------------
(* Type correctness *)

PcOK == /\ mu \in {"free", "ee", "gs"} /\ epc \in EEPc /\ gpc \in GSPc /\ back \in GSPc
        /\ why \in {"space", "field", "reply"}
        /\ fault \in {"none", "noFit", "stopped", "closed", "overtaken", "corrupt", "order",
                      "inner", "ended"}
        /\ window \in {"open", "minimized", "closed"} /\ sampled \in {"open", "minimized", "closed"}
DataOK == /\ buf \in [Offset -> Record] /\ rec \in Record
          /\ vseq \in Nat /\ cseq \in Nat /\ got \in Nat /\ upto \in Nat /\ vseen \in Nat /\ ran \in Nat

LEMMA TypeParts == /\ TypeOK <=> MemOK /\ PcOK /\ DataOK
                   /\ TypeOK' <=> MemOK' /\ PcOK' /\ DataOK'
  BY DEF TypeOK, MemOK, PcOK, DataOK, Memory, Locs, Threads, Own

LEMMA CapType == Cap \in Nat /\ Cap > 0 /\ Sizes \subseteq 1..Cap
  BY CapAssumption, SizesAssumption

LEMMA DataTypes ==
  ASSUME TypeOK
  PROVE  /\ head \in Nat /\ tail \in Nat /\ head % Cap \in Offset /\ tail % Cap \in Offset
         /\ ToEnd \in 1..Cap /\ head % Cap \in Nat /\ ToEnd = Cap - (head % Cap)
         /\ rec \in Record /\ rec.size \in 1..Cap /\ rec.id \in Nat /\ rec.arg \in Nat
         /\ cur \in Record /\ cur.size \in 1..Cap /\ cur.id \in Nat /\ cur.arg \in Nat
         /\ MemOK /\ PcOK /\ DataOK
  <1>1. MemOK /\ PcOK /\ DataOK
    BY TypeParts
  <1>2. head \in Nat /\ tail \in Nat
    BY <1>1, MemTypes DEF head, tail, Load, Threads, Locs, EELoc, GSLoc
  <1>3. head % Cap \in Offset /\ tail % Cap \in Offset /\ head % Cap \in Nat
    BY <1>2, CapType DEF Offset
  <1>4. ToEnd \in 1..Cap /\ ToEnd = Cap - (head % Cap)
    BY <1>3, CapType DEF ToEnd, Offset
  <1>5. rec \in Record /\ cur \in Record
    BY <1>1, <1>3 DEF DataOK, cur
  <1>6. QED
    BY <1>1, <1>2, <1>3, <1>4, <1>5 DEF Record

\* Every access to the atomics is one of the thread that makes it.
LEMMA EEMemory ==
  ASSUME TypeOK, EENext
  PROVE  MemOK'
  <1> USE DataTypes
  <1>1. ASSUME Reload PROVE MemOK'
    BY <1>1 DEF Reload, memVars, MemOK
  <1>2. ASSUME NEW loc \in EELoc, NEW v \in Nat, Store("ee", loc, v) PROVE MemOK'
    BY <1>2, StoreEffect DEF Own, Threads
  <1>3. head + ToEnd \in Nat /\ head + rec.size \in Nat /\ WaitFlag \in EELoc
    BY DEF WaitFlag, EELoc
  <1> HIDE DataTypes
  <1>4. Reload \/ (\E loc \in EELoc, v \in Nat : Store("ee", loc, v))
    BY <1>3 DEF EENext, EELoc, Call, WriteWrap, WriteRecord, Commit, WakeFence, WakeRead, WakeNotify,
         Committed, Stall, RuleOutEmpty, LockAndFlag, WaitFence, EndWait, GiveUp, LeaveWait,
         StillWaiting, SleepEE, TimeoutEE, Pump, Relock, TakeReply, Boundary, Exit, RaiseShutdown,
         NotifyShutdown, QuiesceTest, Abandon, QuiesceFlag, QuiesceSleep, QuiesceTimeout,
         QuiesceWake, QuiesceUnflag, QuiesceUnlock, Join
  <1>5. QED
    BY <1>1, <1>2, <1>4

LEMMA GSMemory ==
  ASSUME TypeOK, GSNext
  PROVE  MemOK'
  <1> USE DataTypes
  <1>1. ASSUME Reload PROVE MemOK'
    BY <1>1 DEF Reload, memVars, MemOK
  <1>2. ASSUME NEW loc \in GSLoc, NEW v \in Nat, Store("gs", loc, v) PROVE MemOK'
    BY <1>2, StoreEffect DEF Own, Threads
  <1>3. ASSUME ReplayCall PROVE MemOK'
    BY <1>3, ReplyEffect DEF ReplayCall
  <1>4. tail + cur.size \in Nat /\ (vseen' = vseen + 1 => vseen' \in Nat)
    BY DEF DataOK
  <1> HIDE DataTypes
  <1>5. Reload \/ (\E loc \in GSLoc, v \in Nat : Store("gs", loc, v)) \/ ReplayCall
    BY <1>4 DEF GSNext, GSLoc, DrainStart, DrainEnd, NextRecord, ReplayData, ReplayVsync,
         InnerFatal, Present, Advance, CheckSpaceWaiting, NotifyFence, NotifyRead, NotifyProducer,
         ParkOrStop, Park, ParkFence, StayParked, SleepGS, TimeoutGS, WakeUp, RepeatDue,
         RepeatUnlock, RepeatPresent, Unpark, UnparkUnlock, Stop, LastNotify, ProcessEnds
  <1>6. QED
    BY <1>1, <1>2, <1>3, <1>5

LEMMA EETypes ==
  ASSUME TypeOK, EENext
  PROVE  PcOK' /\ DataOK'
  <1> USE DataTypes DEF EEOnly, EEPc, GSPc, gsVars, eeVars, winVars, Ends, Lock, Unlock, Pass
  <1>1. ASSUME NEW kind \in Kind \ {"wrap"}, NEW size \in Sizes \cup {1}, Call(kind, size)
        PROVE  PcOK' /\ DataOK'
    <2>1. size \in 1..Cap
      BY CapType
    <2>2. /\ vseq' \in Nat /\ cseq' \in Nat /\ rec' \in Record
      BY <1>1, <2>1 DEF Call, DataOK, Record
    <2>3. QED
      BY <1>1, <2>2 DEF Call, PcOK, DataOK
  <1>2. CASE WriteWrap
    <2>1. Wrap(ToEnd) \in Record
      BY DEF Wrap, Record, Kind
    <2>2. buf' \in [Offset -> Record]
      BY <1>2, <2>1 DEF WriteWrap, DataOK
    <2>3. QED
      BY <1>2, <2>2 DEF WriteWrap, PcOK, DataOK
  <1>3. CASE WriteRecord
    <2>1. buf' \in [Offset -> Record]
      BY <1>3 DEF WriteRecord, DataOK
    <2>2. QED
      BY <1>3, <2>1 DEF WriteRecord, PcOK, DataOK
  <1>4. CASE \/ Commit \/ WakeFence \/ WakeRead \/ WakeNotify
             \/ Committed \/ Stall \/ RuleOutEmpty \/ LockAndFlag \/ WaitFence
    BY <1>4 DEF Commit, WakeFence, WakeRead, WakeNotify, NotifyGS, Committed, After, Stall,
                RuleOutEmpty, LockAndFlag, WaitFence, PcOK, DataOK
  <1>5. CASE \/ EndWait \/ GiveUp \/ LeaveWait \/ StillWaiting \/ SleepEE \/ TimeoutEE \/ Pump
             \/ Relock \/ Boundary
    BY <1>5 DEF EndWait, GiveUp, LeaveWait, Resume, StillWaiting, SleepEE, TimeoutEE, Pump,
                Relock, Boundary, PcOK, DataOK
  <1>6. CASE TakeReply
    <2>1. Load("ee", "reply_value") \in Nat
      BY MemTypes DEF Load, Threads, Locs, EELoc, GSLoc
    <2>2. QED
      BY <1>6, <2>1 DEF TakeReply, PcOK, DataOK
  <1>7. CASE \/ Exit \/ RaiseShutdown \/ NotifyShutdown \/ QuiesceTest \/ Abandon \/ QuiesceFlag
             \/ QuiesceSleep \/ QuiesceTimeout \/ QuiesceWake \/ QuiesceUnflag
             \/ QuiesceUnlock \/ Join
    BY <1>7 DEF Exit, RaiseShutdown, NotifyShutdown, NotifyGS, QuiesceTest, Abandon, QuiesceFlag,
                QuiesceSleep, QuiesceTimeout, QuiesceWake, QuiesceUnflag, QuiesceUnlock, Join,
                PcOK, DataOK
  <1>8. QED
    BY <1>1, <1>2, <1>3, <1>4, <1>5, <1>6, <1>7 DEF EENext

LEMMA GSTypes ==
  ASSUME TypeOK, GSNext
  PROVE  PcOK' /\ DataOK'
  <1> USE DataTypes DEF GSOnly, EEPc, GSPc, gsVars, eeVars, winVars, Ends, Lock, Unlock, Pass
  <1>1. CASE DrainStart
    <2>1. Load("gs", "head") \in Nat
      BY MemTypes DEF Load, Threads, Locs, EELoc, GSLoc
    <2>2. QED
      BY <1>1, <2>1 DEF DrainStart, PcOK, DataOK
  <1>2. CASE \/ DrainEnd \/ NextRecord \/ ReplayData \/ ReplayVsync \/ ReplayCall
             \/ InnerFatal \/ Present \/ Advance
    BY <1>2 DEF DrainEnd, NextRecord, ReplayData, ReplayVsync, ReplayCall, InnerFatal, Present,
                Advance, PcOK, DataOK
  <1>3. CASE \/ CheckSpaceWaiting \/ NotifyFence \/ NotifyRead \/ NotifyProducer \/ ParkOrStop
             \/ Park \/ ParkFence \/ StayParked \/ SleepGS
    BY <1>3 DEF CheckSpaceWaiting, NotifyFence, NotifyRead, NotifyProducer, NotifyEE, ParkOrStop,
                Park, ParkFence, StayParked, SleepGS, PcOK, DataOK
  <1>4. CASE \/ TimeoutGS \/ WakeUp \/ RepeatDue \/ RepeatUnlock \/ RepeatPresent \/ Unpark
             \/ UnparkUnlock \/ Stop \/ LastNotify \/ ProcessEnds
    BY <1>4 DEF TimeoutGS, WakeUp, RepeatDue, RepeatUnlock, RepeatPresent, Unpark, UnparkUnlock,
                Stop, LastNotify, NotifyEE, ProcessEnds, PcOK, DataOK
  <1>5. QED
    BY <1>1, <1>2, <1>3, <1>4 DEF GSNext

LEMMA TypeInit == Init => TypeOK
  <1> SUFFICES ASSUME Init PROVE TypeOK
    OBVIOUS
  <1>1. MemOK
    <2>1. \A t \in Threads : sb[t] = <<>>
      BY DEF Init, Threads
    <2>2. QED
      BY <2>1 DEF Init, MemOK, Memory, Locs, Threads
  <1>2. PcOK
    BY DEF Init, PcOK, EEPc, GSPc
  <1>3. DataOK
    BY CapType DEF Init, DataOK, Wrap, Record, Kind
  <1>4. QED
    BY <1>1, <1>2, <1>3, TypeParts

LEMMA TypeNext == TypeOK /\ [Next]_vars => TypeOK'
  <1> SUFFICES ASSUME TypeOK, [Next]_vars PROVE TypeOK'
    OBVIOUS
  <1>1. CASE EENext
    BY <1>1, EEMemory, EETypes, TypeParts
  <1>2. CASE GSNext
    BY <1>2, GSMemory, GSTypes, TypeParts
  <1>3. ASSUME NEW t \in {"ee", "gs"}, Flush(t) PROVE TypeOK'
    <2>1. MemOK'
      BY <1>3, FlushEffect, TypeParts DEF Threads
    <2>2. PcOK' /\ DataOK'
      BY <1>3, TypeParts DEF Flush, PcOK, DataOK, eeVars, gsVars, winVars
    <2>3. QED
      BY <2>1, <2>2, TypeParts
  <1>4. CASE Minimize \/ RestoreOrClose \/ UNCHANGED vars
    <2>1. MemOK' /\ PcOK' /\ DataOK'
      BY <1>4, TypeParts DEF Minimize, RestoreOrClose, vars, memVars, eeVars, gsVars, winVars,
                             MemOK, PcOK, DataOK
    <2>2. QED
      BY <2>1, TypeParts
  <1>5. QED
    BY <1>1, <1>2, <1>3, <1>4 DEF Next, Done

\* Every variable has its type, and each thread delays only its own stores
\* (gs_threaded.h: each atomic is written by one of the two threads).
THEOREM TypeCorrect == Spec => []TypeOK
  BY TypeInit, TypeNext, PTL DEF Spec

-----------------------------------------------------------------------------
(* Places of the ring *)

LEMMA Division ==
  ASSUME NEW n \in Nat \ {0}, NEW a \in Int
  PROVE  a \div n \in Int /\ a % n \in 0..(n - 1) /\ a = n * (a \div n) + (a % n)
  OBVIOUS

LEMMA DivisionUnique ==
  ASSUME NEW n \in Nat \ {0}, NEW q \in Int, NEW r \in 0..(n - 1)
  PROVE  (n * q + r) % n = r
  <1> DEFINE a == n * q + r
  <1>1. a \in Int
    OBVIOUS
  <1>2. a \div n \in Int /\ a % n \in 0..(n - 1) /\ a = n * (a \div n) + (a % n)
    BY <1>1, Division
  <1>3. QED
    BY <1>1, <1>2

\* Two positions less than a turn apart have different places.
LEMMA ModApart ==
  ASSUME NEW n \in Nat \ {0}, NEW a \in Nat, NEW b \in Nat, a < b, b - a < n
  PROVE  a % n # b % n
  <1>1. /\ a \div n \in Int /\ a % n \in 0..(n - 1) /\ a = n * (a \div n) + (a % n)
        /\ b \div n \in Int /\ b % n \in 0..(n - 1) /\ b = n * (b \div n) + (b % n)
    BY Division
  <1>2. SUFFICES ASSUME a % n = b % n PROVE FALSE
    OBVIOUS
  <1>3. b - a = n * ((b \div n) - (a \div n))
    BY <1>1, <1>2
  <1> DEFINE d == (b \div n) - (a \div n)
  <1>4. d \in Int /\ n * d > 0 /\ n * d < n
    BY <1>1, <1>3
  <1> HIDE DEF d
  <1>5. d >= 1
    BY <1>4
  <1>6. n * d >= n
    BY <1>4, <1>5
  <1>7. QED
    BY <1>4, <1>6

LEMMA ModNear ==
  ASSUME NEW n \in Nat \ {0}, NEW a \in Nat, NEW k \in Nat, (a % n) + k < n
  PROVE  (a + k) % n = (a % n) + k
  <1>1. a \div n \in Int /\ a % n \in 0..(n - 1) /\ a = n * (a \div n) + (a % n)
    BY Division
  <1>2. a + k = n * (a \div n) + ((a % n) + k) /\ (a % n) + k \in 0..(n - 1)
    BY <1>1
  <1>3. QED
    BY <1>1, <1>2, DivisionUnique

LEMMA ModTop ==
  ASSUME NEW n \in Nat \ {0}, NEW a \in Nat
  PROVE  (a + (n - (a % n))) % n = 0
  <1>1. a \div n \in Int /\ a % n \in 0..(n - 1) /\ a = n * (a \div n) + (a % n)
    BY Division
  <1>2. a + (n - (a % n)) = n * ((a \div n) + 1) + 0 /\ (a \div n) + 1 \in Int /\ 0 \in 0..(n - 1)
    BY <1>1
  <1>3. QED
    BY <1>2, DivisionUnique

\* What a thread reads of the other one's locations is what is in memory.
LEMMA OtherLoads ==
  ASSUME MemOK
  PROVE  /\ \A loc \in GSLoc : Newest(sb["ee"], mem, loc) = mem[loc]
         /\ \A loc \in EELoc : Newest(sb["gs"], mem, loc) = mem[loc]
  <1>1. EELoc \cap GSLoc = {} /\ Own("ee") = EELoc /\ Own("gs") = GSLoc
    BY DEF EELoc, GSLoc, Own
  <1>2. QED
    BY <1>1, MemTypes DEF Threads, Locs

\* What is written for a record, or for the Wrap before it, lies past
\* everything that is not consumed.
LEMMA WrittenApart ==
  ASSUME TypeOK, WriteWrap \/ WriteRecord,
         NEW at \in Nat, mem["tail"] <= at, at < head
  PROVE  buf'[at % Cap] = buf[at % Cap]
  <1>1. /\ head \in Nat /\ head % Cap \in Nat /\ ToEnd \in 1..Cap /\ ToEnd = Cap - (head % Cap)
        /\ rec.size \in 1..Cap /\ Cap \in Nat \ {0} /\ at % Cap \in Offset
        /\ buf \in [Offset -> Record]
    <2>1. at % Cap \in Offset
      BY CapAssumption, Division DEF Offset
    <2>2. QED
      BY <2>1, DataTypes, CapAssumption DEF DataOK
  <1>2. Load("ee", "tail") = mem["tail"] /\ mem["tail"] \in Nat
    BY DataTypes, MemTypes, OtherLoads DEF Load, GSLoc, Locs, Threads
  <1>3. CASE WriteWrap
    <2>1. head - at < Cap
      BY <1>1, <1>2, <1>3 DEF WriteWrap, HasRoom, Need
    <2>2. at % Cap # head % Cap
      BY <1>1, <2>1, ModApart
    <2>3. QED
      BY <1>1, <1>3, <2>2 DEF WriteWrap
  <1>4. CASE WriteRecord
    <2>1. at % Cap \notin (head % Cap)..((head % Cap) + rec.size - 1)
      <3>1. SUFFICES ASSUME NEW k \in 0..(rec.size - 1), at % Cap = (head % Cap) + k PROVE FALSE
        <4>1. SUFFICES ASSUME at % Cap \in (head % Cap)..((head % Cap) + rec.size - 1) PROVE FALSE
          OBVIOUS
        <4>2. /\ (at % Cap) - (head % Cap) \in 0..(rec.size - 1)
              /\ at % Cap = (head % Cap) + ((at % Cap) - (head % Cap))
          BY <1>1, <4>1 DEF Offset
        <4>3. QED
          BY <3>1, <4>2
      <3>2. k \in Nat /\ (head % Cap) + k < Cap
        BY <1>1, <1>4 DEF WriteRecord
      <3>3. (head + k) % Cap = at % Cap
        BY <1>1, <3>1, <3>2, ModNear
      <3> DEFINE b == head + k
      <3>4. b - at < Cap /\ at < b /\ b \in Nat /\ b % Cap = at % Cap
        BY <1>1, <1>2, <1>4, <3>3 DEF WriteRecord, HasRoom, Need
      <3> HIDE DEF b
      <3>5. QED
        BY <1>1, <3>4, ModApart
    <2>2. QED
      BY <1>1, <1>4, <2>1 DEF WriteRecord
  <1>5. QED
    BY <1>3, <1>4

-----------------------------------------------------------------------------
(* What one thread's steps leave alone *)

LEMMA EEFrame ==
  ASSUME TypeOK, EENext
  PROVE  /\ mem' = mem /\ sb'["gs"] = sb["gs"] /\ tail' = tail
         /\ back' = back /\ upto' = upto /\ vseen' = vseen /\ ran' = ran
         /\ gpc' = gpc \/ (gpc = "asleep" /\ gpc' = "awake")
  <1> USE DEF EEOnly, gsVars, Reload, memVars, Store, Delay
  <1>1. MemOK
    BY DataTypes
  <1>2. mem' = mem /\ sb'["gs"] = sb["gs"]
    BY <1>1 DEF EENext, MemOK, Threads, Call, WriteWrap, WriteRecord, Commit, WakeFence, WakeRead,
         WakeNotify, Committed, Stall, RuleOutEmpty, LockAndFlag, WaitFence, EndWait, GiveUp,
         LeaveWait, StillWaiting, SleepEE, TimeoutEE, Pump, Relock, TakeReply, Boundary, Exit,
         RaiseShutdown, NotifyShutdown, QuiesceTest, Abandon, QuiesceFlag, QuiesceSleep,
         QuiesceTimeout, QuiesceWake, QuiesceUnflag, QuiesceUnlock, Join
  <1>3. /\ back' = back /\ upto' = upto /\ vseen' = vseen /\ ran' = ran
        /\ gpc' = gpc \/ (gpc = "asleep" /\ gpc' = "awake")
    <2>1. CASE \E kind \in Kind \ {"wrap"}, size \in Sizes \cup {1} : Call(kind, size)
      BY <2>1 DEF Call
    <2>2. CASE WakeNotify \/ NotifyShutdown
      BY <2>2 DEF NotifyGS, WakeNotify, NotifyShutdown
    <2>3. QED
      BY <2>1, <2>2 DEF EENext, WriteWrap, WriteRecord, Commit, WakeFence, WakeRead,
           Committed, Stall, RuleOutEmpty, LockAndFlag, WaitFence, EndWait, GiveUp,
           LeaveWait, StillWaiting, SleepEE, TimeoutEE, Pump, Relock, TakeReply, Boundary, Exit,
           RaiseShutdown, QuiesceTest, Abandon, QuiesceFlag, QuiesceSleep,
           QuiesceTimeout, QuiesceWake, QuiesceUnflag, QuiesceUnlock, Join
  <1>4. tail' = tail
    BY <1>2 DEF tail, Load
  <1>5. QED
    BY <1>2, <1>3, <1>4

LEMMA GSFrame ==
  ASSUME TypeOK, GSNext
  PROVE  /\ mem' = mem /\ sb'["ee"] = sb["ee"] /\ head' = head
         /\ rec' = rec /\ why' = why /\ vseq' = vseq /\ cseq' = cseq /\ got' = got /\ buf' = buf
         /\ \/ epc' = epc
            \/ epc = "asleep" /\ epc' = "awake"
            \/ epc = "qAsleep" /\ epc' = "qAwake"
  <1> USE DEF GSOnly, eeVars, Reload, memVars, Store, Delay
  <1>1. MemOK
    BY DataTypes
  <1>2. mem' = mem /\ sb'["ee"] = sb["ee"]
    BY <1>1 DEF GSNext, MemOK, Threads, DrainStart, DrainEnd, NextRecord, ReplayData, ReplayVsync,
         ReplayCall, InnerFatal, Present, Advance, CheckSpaceWaiting, NotifyFence, NotifyRead,
         NotifyProducer, ParkOrStop, Park, ParkFence, StayParked, SleepGS, TimeoutGS, WakeUp,
         RepeatDue, RepeatUnlock, RepeatPresent, Unpark, UnparkUnlock, Stop, LastNotify, ProcessEnds
  <1>3. /\ rec' = rec /\ why' = why /\ vseq' = vseq /\ cseq' = cseq /\ got' = got /\ buf' = buf
        /\ \/ epc' = epc
           \/ epc = "asleep" /\ epc' = "awake"
           \/ epc = "qAsleep" /\ epc' = "qAwake"
    <2>1. CASE NotifyProducer \/ LastNotify
      BY <2>1 DEF NotifyEE, NotifyProducer, LastNotify
    <2>2. QED
      BY <2>1 DEF GSNext, DrainStart, DrainEnd, NextRecord, ReplayData, ReplayVsync,
           ReplayCall, InnerFatal, Present, Advance, CheckSpaceWaiting, NotifyFence, NotifyRead,
           ParkOrStop, Park, ParkFence, StayParked, SleepGS, TimeoutGS, WakeUp,
           RepeatDue, RepeatUnlock, RepeatPresent, Unpark, UnparkUnlock, Stop, ProcessEnds
  <1>4. head' = head
    BY <1>2 DEF head, Load
  <1>5. QED
    BY <1>2, <1>3, <1>4

\* Each thread's own locations look the same to it before and after a flush.
LEMMA FlushFrame ==
  ASSUME TypeOK, NEW t \in Threads, Flush(t)
  PROVE  /\ Took(t) /\ head' = head /\ tail' = tail
         /\ \A u \in Threads : \A x \in Own(u) :
              /\ Newest(sb'[u], mem', x) = Newest(sb[u], mem, x)
              /\ Has(sb'[u], x) => Has(sb[u], x)
              /\ Rising(sb[u], mem, x) => Rising(sb'[u], mem', x)
              /\ mem'[x] # mem[x] => u = t /\ Has(sb[t], x)
         /\ UNCHANGED <<mu, buf, epc, eeVars, gpc, gsVars, fault, winVars>>
  <1>1. MemOK /\ Took(t)
    BY DataTypes, FlushEffect
  <1>2. EELoc \cap GSLoc = {} /\ \A u \in Threads : Own(u) \subseteq Locs
    BY DEF EELoc, GSLoc, Own, Locs
  <1>3. ASSUME NEW x \in Locs, mem'[x] # mem[x] PROVE x \in Own(t) /\ Has(sb[t], x)
    BY <1>1, <1>3, MemTypes DEF Took, Has
  <1>4. ASSUME NEW u \in Threads, u # t, NEW x \in Own(u)
        PROVE  mem'[x] = mem[x] /\ sb'[u] = sb[u]
    BY <1>1, <1>2, <1>3, <1>4 DEF Took, Own, Threads
  <1>5. ASSUME NEW u \in Threads, NEW x \in Own(u)
        PROVE  /\ Newest(sb'[u], mem', x) = Newest(sb[u], mem, x)
               /\ Has(sb'[u], x) => Has(sb[u], x)
               /\ Rising(sb[u], mem, x) => Rising(sb'[u], mem', x)
               /\ mem'[x] # mem[x] => u = t /\ Has(sb[t], x)
    <2>1. CASE u = t
      BY <1>1, <1>2, <1>3, <2>1 DEF Took
    <2>2. CASE u # t
      <3>1. mem'[x] = mem[x] /\ sb'[u] = sb[u]
        BY <1>4, <2>2
      <3>2. QED
        BY <3>1 DEF Newest, Rising
    <2>3. QED
      BY <2>1, <2>2
  <1>6. head' = head /\ tail' = tail
    BY <1>5 DEF head, tail, Load, Own, EELoc, GSLoc, Threads
  <1>7. QED
    BY <1>1, <1>5, <1>6 DEF Flush

-----------------------------------------------------------------------------
(* The mutex *)

LEMMA MutexEE ==
  ASSUME TypeOK, MutexOK, EENext
  PROVE  MutexOK'
  <1> USE DEF MutexOK, EEHolds, GSHolds, EEOnly, Lock, Unlock, Pass
  <1>1. CASE \E kind \in Kind \ {"wrap"}, size \in Sizes \cup {1} : Call(kind, size)
    BY <1>1 DEF Call
  <1>2. CASE WriteWrap \/ WriteRecord \/ Commit \/ WakeFence \/ WakeRead \/ Stall \/ RuleOutEmpty
    BY <1>2 DEF WriteWrap, WriteRecord, Commit, WakeFence, WakeRead, Stall, RuleOutEmpty
  <1>3. CASE WakeNotify \/ NotifyShutdown
    BY <1>3 DEF WakeNotify, NotifyShutdown, NotifyGS
  <1>4. CASE Committed \/ LockAndFlag \/ WaitFence \/ EndWait \/ GiveUp \/ LeaveWait \/ StillWaiting
    BY <1>4, DataTypes DEF Committed, After, LockAndFlag, WaitFence, EndWait, GiveUp, LeaveWait,
                           Resume, StillWaiting, PcOK
  <1>5. CASE SleepEE \/ TimeoutEE \/ Pump \/ Relock \/ TakeReply \/ Boundary \/ Exit
    BY <1>5 DEF SleepEE, TimeoutEE, Pump, Relock, TakeReply, Boundary, Exit
  <1>6. CASE RaiseShutdown \/ QuiesceTest \/ Abandon \/ QuiesceFlag \/ QuiesceSleep
    BY <1>6 DEF RaiseShutdown, QuiesceTest, Abandon, QuiesceFlag, QuiesceSleep
  <1>7. CASE QuiesceTimeout \/ QuiesceWake \/ QuiesceUnflag \/ QuiesceUnlock \/ Join
    BY <1>7 DEF QuiesceTimeout, QuiesceWake, QuiesceUnflag, QuiesceUnlock, Join
  <1>8. QED
    BY <1>1, <1>2, <1>3, <1>4, <1>5, <1>6, <1>7 DEF EENext

LEMMA MutexGS ==
  ASSUME TypeOK, MutexOK, BackOK, GSNext
  PROVE  MutexOK' /\ BackOK'
  <1> USE DEF MutexOK, BackOK, EEHolds, GSHolds, GSOnly, gsVars, Lock, Unlock, Pass
  <1>1. CASE DrainStart \/ DrainEnd \/ NextRecord \/ ReplayData \/ ReplayVsync \/ ReplayCall
    BY <1>1 DEF DrainStart, DrainEnd, NextRecord, ReplayData, ReplayVsync, ReplayCall
  <1>2. CASE InnerFatal \/ Present \/ Advance \/ CheckSpaceWaiting \/ NotifyFence \/ NotifyRead
    BY <1>2 DEF InnerFatal, Present, Advance, CheckSpaceWaiting, NotifyFence, NotifyRead
  <1>3. CASE NotifyProducer \/ LastNotify
    BY <1>3 DEF NotifyProducer, LastNotify, NotifyEE
  <1>4. CASE ParkOrStop \/ Park \/ ParkFence \/ StayParked \/ SleepGS \/ TimeoutGS \/ WakeUp
    BY <1>4 DEF ParkOrStop, Park, ParkFence, StayParked, SleepGS, TimeoutGS, WakeUp
  <1>5. CASE RepeatDue \/ RepeatUnlock \/ RepeatPresent \/ Unpark \/ UnparkUnlock \/ Stop \/ ProcessEnds
    BY <1>5 DEF RepeatDue, RepeatUnlock, RepeatPresent, Unpark, UnparkUnlock, Stop, ProcessEnds
  <1>6. QED
    BY <1>1, <1>2, <1>3, <1>4, <1>5 DEF GSNext

-----------------------------------------------------------------------------
(* Which stores may be on their way *)

LEMMA OnTheirWayEE ==
  ASSUME TypeOK, OnTheirWay, EENext
  PROVE  OnTheirWay'
  <1>1. /\ sb'["gs"] = sb["gs"]
        /\ gpc' = gpc \/ (gpc = "asleep" /\ gpc' = "awake")
    BY EEFrame
  <1>2. /\ gpc' \notin GSDirty => sb'["gs"] = <<>>
        /\ \A loc \in Announced : Has(sb'["gs"], loc) => gpc' = "notify"
        /\ Has(sb'["gs"], "tail") => gpc' \in Batch
    BY <1>1 DEF OnTheirWay, GSDirty, Has
  <1>3. epc' \notin EEDirty => sb'["ee"] = <<>>
    <2> USE DEF OnTheirWay, EEDirty, EEOnly, Reload, memVars, Unlock, Drained, Fence
    <2>1. CASE \E kind \in Kind \ {"wrap"}, size \in Sizes \cup {1} : Call(kind, size)
      BY <2>1 DEF Call
    <2>2. CASE WriteWrap \/ WriteRecord \/ Commit \/ WakeFence \/ WakeRead \/ Stall \/ RuleOutEmpty
      BY <2>2 DEF WriteWrap, WriteRecord, Commit, WakeFence, WakeRead, Stall, RuleOutEmpty
    <2>3. CASE WakeNotify \/ NotifyShutdown
      BY <2>3 DEF WakeNotify, NotifyShutdown
    <2>4. CASE Committed \/ LockAndFlag \/ WaitFence \/ EndWait \/ GiveUp \/ LeaveWait \/ StillWaiting
      BY <2>4 DEF Committed, After, LockAndFlag, WaitFence, EndWait, GiveUp, LeaveWait, Resume,
                  StillWaiting
    <2>5. CASE SleepEE \/ TimeoutEE \/ Pump \/ Relock \/ TakeReply \/ Boundary \/ Exit
      BY <2>5 DEF SleepEE, TimeoutEE, Pump, Relock, TakeReply, Boundary, Exit
    <2>6. CASE RaiseShutdown \/ QuiesceTest \/ Abandon \/ QuiesceFlag \/ QuiesceSleep
      BY <2>6 DEF RaiseShutdown, QuiesceTest, Abandon, QuiesceFlag, QuiesceSleep
    <2>7. CASE QuiesceTimeout \/ QuiesceWake \/ QuiesceUnflag \/ QuiesceUnlock \/ Join
      BY <2>7 DEF QuiesceTimeout, QuiesceWake, QuiesceUnflag, QuiesceUnlock, Join
    <2>8. QED
      BY <2>1, <2>2, <2>3, <2>4, <2>5, <2>6, <2>7 DEF EENext
  <1>4. QED
    BY <1>2, <1>3 DEF OnTheirWay

\* What the worker's storing actions store.
LEMMA GSStores ==
  ASSUME TypeOK
  PROVE  /\ ReplayVsync /\ cur.arg = vseen + 1 => Stored("gs", "vsync_done", vseen')
         /\ ReplayCall => Replied(cur.id, cur.arg)
         /\ Advance => Stored("gs", "tail", tail + cur.size)
         /\ Park => Stored("gs", "consumer_waiting", 1)
         /\ RepeatDue \/ Unpark => Stored("gs", "consumer_waiting", 0)
         /\ Stop => Stored("gs", "exited", 1)
  <1> USE DataTypes
  <1>1. ASSUME NEW loc \in GSLoc, NEW v \in Nat, Store("gs", loc, v) PROVE Stored("gs", loc, v)
    BY <1>1, StoreEffect DEF Own, Threads
  <1>2. vseen + 1 \in Nat /\ tail + cur.size \in Nat
    BY DEF DataOK
  <1>3. ReplayCall => Replied(cur.id, cur.arg)
    BY ReplyEffect DEF ReplayCall
  <1> HIDE DataTypes
  <1>4. /\ ReplayVsync /\ cur.arg = vseen + 1 => Stored("gs", "vsync_done", vseen')
        /\ Advance => Stored("gs", "tail", tail + cur.size)
    BY <1>1, <1>2 DEF GSLoc, ReplayVsync, Advance
  <1>5. /\ Park => Stored("gs", "consumer_waiting", 1)
        /\ RepeatDue \/ Unpark => Stored("gs", "consumer_waiting", 0)
        /\ Stop => Stored("gs", "exited", 1)
    BY <1>1 DEF GSLoc, Park, RepeatDue, Unpark, Stop
  <1>6. QED
    BY <1>3, <1>4, <1>5

\* ... and the EE thread's.
LEMMA EEStores ==
  ASSUME TypeOK
  PROVE  /\ WriteWrap => Stored("ee", "head", head + ToEnd)
         /\ Commit => Stored("ee", "head", head + rec.size)
         /\ LockAndFlag => Stored("ee", WaitFlag, 1)
         /\ EndWait \/ GiveUp => Stored("ee", WaitFlag, 0)
         /\ RaiseShutdown => Stored("ee", "shutdown", 1)
         /\ QuiesceFlag => Stored("ee", "progress_waiting", 1)
         /\ QuiesceUnflag => Stored("ee", "progress_waiting", 0)
         /\ WaitFlag \in {"space_waiting", "progress_waiting"}
  <1> USE DataTypes
  <1>1. ASSUME NEW loc \in EELoc, NEW v \in Nat, Store("ee", loc, v) PROVE Stored("ee", loc, v)
    BY <1>1, StoreEffect DEF Own, Threads
  <1>2. head + ToEnd \in Nat /\ head + rec.size \in Nat /\ WaitFlag \in {"space_waiting", "progress_waiting"}
    BY DEF WaitFlag
  <1> HIDE DataTypes
  <1>3. /\ WriteWrap => Stored("ee", "head", head + ToEnd)
        /\ Commit => Stored("ee", "head", head + rec.size)
    BY <1>1, <1>2 DEF EELoc, WriteWrap, Commit
  <1>4. /\ LockAndFlag => Stored("ee", WaitFlag, 1)
        /\ EndWait \/ GiveUp => Stored("ee", WaitFlag, 0)
    BY <1>1, <1>2 DEF EELoc, LockAndFlag, EndWait, GiveUp
  <1>5. /\ RaiseShutdown => Stored("ee", "shutdown", 1)
        /\ QuiesceFlag => Stored("ee", "progress_waiting", 1)
        /\ QuiesceUnflag => Stored("ee", "progress_waiting", 0)
    BY <1>1 DEF EELoc, RaiseShutdown, QuiesceFlag, QuiesceUnflag
  <1>6. QED
    BY <1>2, <1>3, <1>4, <1>5

LEMMA OnTheirWayGS ==
  ASSUME TypeOK, OnTheirWay, BackOK, GSNext
  PROVE  OnTheirWay'
  <1>1. /\ sb'["ee"] = sb["ee"]
        /\ \/ epc' = epc
           \/ epc = "asleep" /\ epc' = "awake"
           \/ epc = "qAsleep" /\ epc' = "qAwake"
    BY GSFrame
  <1>2. epc' \notin EEDirty => sb'["ee"] = <<>>
    BY <1>1 DEF OnTheirWay, EEDirty
  <1>3. /\ gpc' \notin GSDirty => sb'["gs"] = <<>>
        /\ \A loc \in Announced : Has(sb'["gs"], loc) => gpc' = "notify"
        /\ Has(sb'["gs"], "tail") => gpc' \in Batch
    <2> USE DEF OnTheirWay, BackOK, GSDirty, Announced, Batch, GSOnly, Reload, memVars, Unlock,
                Drained, Fence, Has
    <2>1. CASE DrainStart \/ DrainEnd \/ NextRecord \/ ReplayData
      BY <2>1 DEF DrainStart, DrainEnd, NextRecord, ReplayData
    <2>2. CASE ReplayVsync
      BY <2>2, GSStores DEF ReplayVsync, Stored, gsVars
    <2>3. CASE ReplayCall
      BY <2>3, GSStores DEF ReplayCall, Replied
    <2>4. CASE Advance
      BY <2>4, GSStores DEF Advance, Stored
    <2>5. CASE InnerFatal \/ Present \/ CheckSpaceWaiting \/ NotifyFence \/ NotifyRead
      BY <2>5 DEF InnerFatal, Present, CheckSpaceWaiting, NotifyFence, NotifyRead
    <2>6. CASE NotifyProducer \/ LastNotify
      BY <2>6 DEF NotifyProducer, LastNotify
    <2>7. CASE ParkOrStop \/ ParkFence \/ StayParked \/ SleepGS \/ TimeoutGS \/ WakeUp
      BY <2>7 DEF ParkOrStop, ParkFence, StayParked, SleepGS, TimeoutGS, WakeUp
    <2>8. CASE Park \/ RepeatDue \/ Unpark
      BY <2>8, GSStores DEF Park, RepeatDue, Unpark, Stored
    <2>9. CASE Stop
      BY <2>9, GSStores DEF Stop, Stored
    <2>10. CASE RepeatUnlock \/ RepeatPresent \/ UnparkUnlock \/ ProcessEnds
      BY <2>10 DEF RepeatUnlock, RepeatPresent, UnparkUnlock, ProcessEnds
    <2>11. QED
      BY <2>1, <2>2, <2>3, <2>4, <2>5, <2>6, <2>7, <2>8, <2>9, <2>10 DEF GSNext
  <1>4. QED
    BY <1>2, <1>3 DEF OnTheirWay

LEMMA OnTheirWayFlush ==
  ASSUME TypeOK, OnTheirWay, NEW t \in Threads, Flush(t)
  PROVE  OnTheirWay'
  <1>1. Took(t) /\ epc' = epc /\ gpc' = gpc
    BY FlushFrame
  <1>2. \A u \in Threads : sb[u] = <<>> => sb'[u] = <<>>
    BY <1>1 DEF Took
  <1>3. \A x : Has(sb'["gs"], x) => Has(sb["gs"], x)
    BY <1>1 DEF Took, Threads
  <1>4. QED
    BY <1>1, <1>2, <1>3 DEF OnTheirWay, Threads

-----------------------------------------------------------------------------
(* The flags of the sleepers, and the last words *)

LEMMA FlagsEE ==
  ASSUME TypeOK, FlagsOK, EENext
  PROVE  FlagsOK'
  <1>1. /\ mem' = mem /\ sb'["gs"] = sb["gs"]
        /\ gpc' = gpc \/ (gpc = "asleep" /\ gpc' = "awake")
    BY EEFrame
  <1>2. gpc' \in ParkPc => Load("gs", "consumer_waiting")' = 1
    BY <1>1 DEF FlagsOK, ParkPc, Load
  <1>3. epc' \in WaitPc => Newest(sb'["ee"], mem', WaitFlag') = 1
    <2> USE DEF FlagsOK, WaitPc, WaitFlag, Load, EEOnly, Reload, memVars, eeVars
    <2>1. CASE \E kind \in Kind \ {"wrap"}, size \in Sizes \cup {1} : Call(kind, size)
      BY <2>1 DEF Call
    <2>2. CASE WriteWrap \/ WriteRecord \/ Commit \/ WakeFence \/ WakeRead \/ Stall \/ RuleOutEmpty
      BY <2>2 DEF WriteWrap, WriteRecord, Commit, WakeFence, WakeRead, Stall, RuleOutEmpty
    <2>3. CASE WakeNotify \/ NotifyShutdown
      BY <2>3 DEF WakeNotify, NotifyShutdown
    <2>4. CASE LockAndFlag
      <3>1. Stored("ee", WaitFlag, 1) /\ WaitFlag' = WaitFlag /\ WaitFlag \in Locs /\ mem' = mem
        BY <2>4, EEStores, EEFrame DEF LockAndFlag, Locs, EELoc, Stored
      <3>2. Newest(sb'["ee"], mem', WaitFlag) = 1
        BY <3>1 DEF Stored
      <3>3. QED
        BY <3>1, <3>2
    <2>5. CASE Committed \/ WaitFence \/ EndWait \/ GiveUp \/ LeaveWait \/ StillWaiting
      BY <2>5, DataTypes DEF Committed, After, WaitFence, EndWait, GiveUp, LeaveWait, Resume,
                             StillWaiting, PcOK
    <2>6. CASE SleepEE \/ TimeoutEE \/ Pump \/ Relock \/ TakeReply \/ Boundary \/ Exit
      BY <2>6 DEF SleepEE, TimeoutEE, Pump, Relock, TakeReply, Boundary, Exit
    <2>7. CASE RaiseShutdown \/ QuiesceTest \/ Abandon \/ QuiesceFlag \/ QuiesceSleep
      BY <2>7 DEF RaiseShutdown, QuiesceTest, Abandon, QuiesceFlag, QuiesceSleep
    <2>8. CASE QuiesceTimeout \/ QuiesceWake \/ QuiesceUnflag \/ QuiesceUnlock \/ Join
      BY <2>8 DEF QuiesceTimeout, QuiesceWake, QuiesceUnflag, QuiesceUnlock, Join
    <2>9. QED
      BY <2>1, <2>2, <2>3, <2>4, <2>5, <2>6, <2>7, <2>8 DEF EENext
  <1>4. QED
    BY <1>2, <1>3 DEF FlagsOK, Load

LEMMA FlagsGS ==
  ASSUME TypeOK, FlagsOK, BackOK, GSNext
  PROVE  FlagsOK'
  <1>1. /\ mem' = mem /\ sb'["ee"] = sb["ee"] /\ why' = why
        /\ \/ epc' = epc
           \/ epc = "asleep" /\ epc' = "awake"
           \/ epc = "qAsleep" /\ epc' = "qAwake"
    BY GSFrame
  <1>2. epc' \in WaitPc => Newest(sb'["ee"], mem', WaitFlag') = 1
    BY <1>1 DEF FlagsOK, WaitPc, WaitFlag, Load
  <1>3. gpc' \in ParkPc => Newest(sb'["gs"], mem', "consumer_waiting") = 1
    <2> USE DEF FlagsOK, BackOK, ParkPc, Load, GSOnly, Reload, memVars
    <2>1. CASE DrainStart \/ DrainEnd \/ NextRecord \/ ReplayData \/ ReplayVsync \/ ReplayCall
      BY <2>1 DEF DrainStart, DrainEnd, NextRecord, ReplayData, ReplayVsync, ReplayCall
    <2>2. CASE InnerFatal \/ Present \/ Advance \/ CheckSpaceWaiting \/ NotifyFence \/ NotifyRead
      BY <2>2 DEF InnerFatal, Present, Advance, CheckSpaceWaiting, NotifyFence, NotifyRead
    <2>3. CASE NotifyProducer \/ LastNotify
      BY <2>3 DEF NotifyProducer, LastNotify
    <2>4. CASE Park
      BY <2>4, GSStores DEF Stored, Locs, GSLoc
    <2>5. CASE ParkOrStop \/ ParkFence \/ StayParked \/ SleepGS \/ TimeoutGS \/ WakeUp
      BY <2>5 DEF ParkOrStop, ParkFence, StayParked, SleepGS, TimeoutGS, WakeUp
    <2>6. CASE RepeatDue \/ RepeatUnlock \/ RepeatPresent \/ Unpark \/ UnparkUnlock \/ Stop \/ ProcessEnds
      BY <2>6 DEF RepeatDue, RepeatUnlock, RepeatPresent, Unpark, UnparkUnlock, Stop, ProcessEnds
    <2>7. QED
      BY <2>1, <2>2, <2>3, <2>4, <2>5, <2>6 DEF GSNext
  <1>4. QED
    BY <1>2, <1>3 DEF FlagsOK, Load

LEMMA FlagsFlush ==
  ASSUME TypeOK, FlagsOK, NEW t \in Threads, Flush(t)
  PROVE  FlagsOK'
  <1>1. /\ epc' = epc /\ gpc' = gpc /\ why' = why
        /\ \A u \in Threads : \A x \in Own(u) : Newest(sb'[u], mem', x) = Newest(sb[u], mem, x)
    BY FlushFrame DEF eeVars
  <1>2. WaitFlag' = WaitFlag /\ WaitFlag \in Own("ee") /\ "consumer_waiting" \in Own("gs")
    BY <1>1 DEF WaitFlag, Own, EELoc, GSLoc
  <1>3. QED
    BY <1>1, <1>2 DEF FlagsOK, Load, Threads

LEMMA LastWordsEE ==
  ASSUME TypeOK, OnTheirWay, LastWords, EENext
  PROVE  LastWords'
  <1>1. /\ mem' = mem /\ sb'["gs"] = sb["gs"]
        /\ gpc' = gpc \/ (gpc = "asleep" /\ gpc' = "awake")
    BY EEFrame
  <1>2. /\ Has(sb'["gs"], "exited") \/ mem'["exited"] # 0 => gpc' \in LeavePc
        /\ gpc' \in LeavePc => Newest(sb'["gs"], mem', "exited") = 1
    BY <1>1 DEF LastWords, LeavePc, Load
  <1>3. /\ Has(sb'["ee"], "shutdown") => epc' = "qNotify"
        /\ mem'["shutdown"] # 0 => epc' \in {"qNotify"} \cup QuiescePc
        /\ epc' = "qNotify" => Newest(sb'["ee"], mem', "shutdown") = 1
        /\ epc' \in QuiescePc => mem'["shutdown"] = 1
    <2> USE <1>1 DEF LastWords, QuiescePc, Load, EEOnly, Reload, memVars, Locs, EELoc
    <2>1. CASE \E kind \in Kind \ {"wrap"}, size \in Sizes \cup {1} : Call(kind, size)
      BY <2>1 DEF Call
    <2>2. CASE WriteWrap \/ Commit
      BY <2>2, EEStores DEF WriteWrap, Commit, Stored
    <2>3. CASE WriteRecord \/ WakeFence \/ WakeRead \/ Stall \/ RuleOutEmpty \/ WakeNotify
      BY <2>3 DEF WriteRecord, WakeFence, WakeRead, Stall, RuleOutEmpty, WakeNotify
    <2>4. CASE LockAndFlag \/ EndWait \/ GiveUp
      BY <2>4, EEStores DEF LockAndFlag, EndWait, GiveUp, Stored
    <2>5. CASE Committed \/ WaitFence \/ LeaveWait \/ StillWaiting \/ SleepEE \/ TimeoutEE
      BY <2>5, DataTypes DEF Committed, After, WaitFence, LeaveWait, Resume, StillWaiting, SleepEE,
                             TimeoutEE, PcOK
    <2>6. CASE Pump \/ Relock \/ TakeReply \/ Boundary \/ Exit
      BY <2>6 DEF Pump, Relock, TakeReply, Boundary, Exit
    <2>7. CASE RaiseShutdown
      BY <2>7, EEStores DEF RaiseShutdown, Stored
    <2>8. CASE NotifyShutdown
      <3>1. ~ Has(sb["ee"], "shutdown") /\ mem["shutdown"] = Newest(sb["ee"], mem, "shutdown")
        BY <2>8, DataTypes, MemTypes DEF NotifyShutdown, Drained, Threads
      <3>2. QED
        BY <2>8, <3>1 DEF NotifyShutdown
    <2>9. CASE QuiesceFlag \/ QuiesceUnflag
      BY <2>9, EEStores DEF QuiesceFlag, QuiesceUnflag, Stored
    <2>10. CASE QuiesceTest \/ Abandon \/ QuiesceSleep \/ QuiesceTimeout \/ QuiesceWake
                \/ QuiesceUnlock \/ Join
      BY <2>10 DEF QuiesceTest, Abandon, QuiesceSleep, QuiesceTimeout, QuiesceWake,
                   QuiesceUnlock, Join
    <2>11. QED
      BY <2>1, <2>2, <2>3, <2>4, <2>5, <2>6, <2>7, <2>8, <2>9, <2>10 DEF EENext
  <1>4. QED
    BY <1>2, <1>3 DEF LastWords, Load

LEMMA LastWordsGS ==
  ASSUME TypeOK, LastWords, BackOK, GSNext
  PROVE  LastWords'
  <1>1. /\ mem' = mem /\ sb'["ee"] = sb["ee"]
        /\ \/ epc' = epc
           \/ epc = "asleep" /\ epc' = "awake"
           \/ epc = "qAsleep" /\ epc' = "qAwake"
    BY GSFrame
  <1>2. /\ Has(sb'["ee"], "shutdown") => epc' = "qNotify"
        /\ mem'["shutdown"] # 0 => epc' \in {"qNotify"} \cup QuiescePc
        /\ epc' = "qNotify" => Newest(sb'["ee"], mem', "shutdown") = 1
        /\ epc' \in QuiescePc => mem'["shutdown"] = 1
    BY <1>1 DEF LastWords, QuiescePc, Load
  <1>3. /\ Has(sb'["gs"], "exited") \/ mem'["exited"] # 0 => gpc' \in LeavePc
        /\ gpc' \in LeavePc => Newest(sb'["gs"], mem', "exited") = 1
    <2> USE <1>1 DEF LastWords, BackOK, LeavePc, Load, GSOnly, Reload, memVars, Locs, GSLoc
    <2>1. CASE DrainStart \/ DrainEnd \/ NextRecord \/ ReplayData
      BY <2>1 DEF DrainStart, DrainEnd, NextRecord, ReplayData
    <2>2. CASE ReplayVsync
      BY <2>2, GSStores DEF ReplayVsync, Stored, gsVars
    <2>3. CASE ReplayCall
      BY <2>3, GSStores DEF ReplayCall, Replied
    <2>4. CASE Advance
      BY <2>4, GSStores DEF Advance, Stored
    <2>5. CASE InnerFatal \/ Present \/ CheckSpaceWaiting \/ NotifyFence \/ NotifyRead
      BY <2>5 DEF InnerFatal, Present, CheckSpaceWaiting, NotifyFence, NotifyRead
    <2>6. CASE NotifyProducer \/ LastNotify
      BY <2>6 DEF NotifyProducer, LastNotify
    <2>7. CASE ParkOrStop \/ ParkFence \/ StayParked \/ SleepGS \/ TimeoutGS \/ WakeUp
      BY <2>7 DEF ParkOrStop, ParkFence, StayParked, SleepGS, TimeoutGS, WakeUp
    <2>8. CASE Park \/ RepeatDue \/ Unpark
      BY <2>8, GSStores DEF Park, RepeatDue, Unpark, Stored
    <2>9. CASE Stop
      BY <2>9, GSStores DEF Stop, Stored
    <2>10. CASE RepeatUnlock \/ RepeatPresent \/ UnparkUnlock \/ ProcessEnds
      BY <2>10 DEF RepeatUnlock, RepeatPresent, UnparkUnlock, ProcessEnds
    <2>11. QED
      BY <2>1, <2>2, <2>3, <2>4, <2>5, <2>6, <2>7, <2>8, <2>9, <2>10 DEF GSNext
  <1>4. QED
    BY <1>2, <1>3 DEF LastWords, Load

LEMMA LastWordsFlush ==
  ASSUME TypeOK, OnTheirWay, LastWords, NEW t \in Threads, Flush(t)
  PROVE  LastWords'
  <1>1. /\ Took(t) /\ epc' = epc /\ gpc' = gpc
        /\ \A u \in Threads : \A x \in Own(u) :
             /\ Newest(sb'[u], mem', x) = Newest(sb[u], mem, x)
             /\ Has(sb'[u], x) => Has(sb[u], x)
             /\ mem'[x] # mem[x] => u = t /\ Has(sb[t], x)
    BY FlushFrame
  <1>2. /\ "shutdown" \in Own("ee") /\ "exited" \in Own("gs") /\ "ee" \in Threads /\ "gs" \in Threads
    BY DEF Own, EELoc, GSLoc, Threads
  <1>3. epc \in QuiescePc => mem'["shutdown"] = 1
    BY <1>1, <1>2 DEF LastWords, QuiescePc
  <1>4. QED
    BY <1>1, <1>2, <1>3 DEF LastWords, Load

-----------------------------------------------------------------------------
(* The cursors *)

LEMMA CursorOrder ==
  ASSUME TypeOK, CursorsOK
  PROVE  /\ mem["tail"] \in Nat /\ tail \in Nat /\ mem["head"] \in Nat /\ head \in Nat
         /\ mem["tail"] <= tail /\ tail <= mem["head"] /\ mem["head"] <= head
         /\ Load("ee", "tail") = mem["tail"] /\ Load("gs", "head") = mem["head"]
  <1>1. /\ MemOK /\ mem \in Memory /\ sb["ee"] \in Stores /\ sb["gs"] \in Stores
        /\ "head" \in Locs /\ "tail" \in Locs /\ "tail" \in GSLoc /\ "head" \in EELoc
    BY DataTypes, MemTypes DEF Threads, Locs, EELoc, GSLoc
  <1>2. mem["tail"] <= tail /\ mem["head"] <= head
    BY <1>1, RisingValues DEF CursorsOK, head, tail, Load
  <1>3. Load("ee", "tail") = mem["tail"] /\ Load("gs", "head") = mem["head"]
    BY <1>1, OtherLoads DEF Load
  <1>4. mem["tail"] \in Nat /\ mem["head"] \in Nat
    BY <1>1 DEF Memory
  <1>5. QED
    BY <1>2, <1>3, <1>4, DataTypes DEF CursorsOK

\* What is not consumed is not overwritten.
LEMMA UnitsKept ==
  ASSUME TypeOK, CursorsOK, EENext, NEW at \in Nat, tail <= at, at < head
  PROVE  buf'[at % Cap] = buf[at % Cap]
  <1>1. CASE WriteWrap \/ WriteRecord
    BY <1>1, CursorOrder, WrittenApart
  <1>2. CASE ~ (WriteWrap \/ WriteRecord)
    <2>1. buf' = buf
      <3>1. CASE \E kind \in Kind \ {"wrap"}, size \in Sizes \cup {1} : Call(kind, size)
        BY <3>1 DEF Call
      <3>2. QED
        BY <1>2, <3>1 DEF EENext, Commit, WakeFence, WakeRead, WakeNotify,
           Committed, Stall, RuleOutEmpty, LockAndFlag, WaitFence, EndWait, GiveUp,
           LeaveWait, StillWaiting, SleepEE, TimeoutEE, Pump, Relock, TakeReply, Boundary, Exit,
           RaiseShutdown, NotifyShutdown, QuiesceTest, Abandon, QuiesceFlag, QuiesceSleep,
           QuiesceTimeout, QuiesceWake, QuiesceUnflag, QuiesceUnlock, Join
    <2>2. QED
      BY <2>1
  <1>3. QED
    BY <1>1, <1>2

\* Nor is the record the worker has begun.
LEMMA CurKept ==
  ASSUME TypeOK, CursorsOK, EENext, tail < head
  PROVE  cur' = cur
  <1>1. tail' = tail /\ tail \in Nat /\ tail <= tail
    BY EEFrame, CursorOrder
  <1>2. QED
    BY <1>1, UnitsKept DEF cur

\* The EE thread's steps that publish no head.
LEMMA HeadKept ==
  ASSUME TypeOK, EENext, ~ WriteWrap, ~ Commit
  PROVE  /\ head' = head /\ (Has(sb'["ee"], "head") <=> Has(sb["ee"], "head"))
         /\ Rising(sb["ee"], mem, "head") => Rising(sb'["ee"], mem, "head")
  <1> USE DEF head, Load, Reload, memVars
  <1>1. ASSUME NEW loc, NEW v, loc # "head", Stored("ee", loc, v)
        PROVE  /\ head' = head /\ (Has(sb'["ee"], "head") <=> Has(sb["ee"], "head"))
               /\ Rising(sb["ee"], mem, "head") => Rising(sb'["ee"], mem, "head")
    BY <1>1 DEF Stored, Locs, EELoc
  <1>2. CASE LockAndFlag \/ EndWait \/ GiveUp \/ RaiseShutdown \/ QuiesceFlag \/ QuiesceUnflag
    BY <1>1, <1>2, EEStores
  <1>3. CASE Reload
    BY <1>3
  <1>4. CASE \E kind \in Kind \ {"wrap"}, size \in Sizes \cup {1} : Call(kind, size)
    BY <1>3, <1>4 DEF Call
  <1>5. QED
    BY <1>2, <1>3, <1>4 DEF EENext, WriteRecord, WakeFence, WakeRead, WakeNotify,
       Committed, Stall, RuleOutEmpty, WaitFence,
       LeaveWait, StillWaiting, SleepEE, TimeoutEE, Pump, Relock, TakeReply, Boundary, Exit,
       NotifyShutdown, QuiesceTest, Abandon, QuiesceSleep,
       QuiesceTimeout, QuiesceWake, QuiesceUnlock, Join

LEMMA CursorsEE ==
  ASSUME TypeOK, CursorsOK, EENext
  PROVE  CursorsOK'
  <1>1. /\ mem' = mem /\ sb'["gs"] = sb["gs"] /\ tail' = tail /\ back' = back /\ upto' = upto
        /\ gpc' = gpc \/ (gpc = "asleep" /\ gpc' = "awake")
    BY EEFrame
  <1>2. /\ mem["tail"] \in Nat /\ tail \in Nat /\ mem["head"] \in Nat /\ head \in Nat
        /\ upto \in Nat /\ cur.size \in 1..Cap /\ rec.size \in 1..Cap /\ ToEnd \in 1..Cap
        /\ mem["head"] <= head /\ Cap \in Nat
    BY DataTypes, CursorOrder, CapType DEF DataOK
  <1>3. Rising(sb'["ee"], mem', "head")
    <2>1. CASE WriteWrap
      BY <1>1, <1>2, <2>1, EEStores, SMTT(30) DEF Stored, CursorsOK, head, Load, Locs, EELoc
    <2>2. CASE Commit
      BY <1>1, <1>2, <2>2, EEStores, SMTT(30) DEF Stored, CursorsOK, head, Load, Locs, EELoc
    <2>3. CASE ~ WriteWrap /\ ~ Commit
      BY <1>1, <2>3, HeadKept DEF CursorsOK
    <2>4. QED
      BY <2>1, <2>2, <2>3
  <1>4. Rising(sb'["gs"], mem', "tail") /\ upto' <= mem'["head"] /\ tail' <= mem'["head"]
    BY <1>1 DEF CursorsOK
  <1>5. InRecord' => tail' + cur'.size <= upto'
    <2>1. InRecord' => InRecord
      BY <1>1 DEF InRecord, NotifyPc
    <2>2. InRecord => tail + cur.size <= upto /\ tail < head
      BY <1>2 DEF CursorsOK
    <2>3. InRecord => cur' = cur
      BY <2>2, CurKept
    <2>4. QED
      BY <1>1, <2>1, <2>2, <2>3
  <1>6. epc' = "stall" => why' = "space"
    <2> USE DEF CursorsOK, EEOnly
    <2>1. CASE \E kind \in Kind \ {"wrap"}, size \in Sizes \cup {1} : Call(kind, size)
      BY <2>1 DEF Call
    <2>2. QED
      BY <2>1, DataTypes DEF EENext, WriteWrap, WriteRecord, Commit, WakeFence, WakeRead, WakeNotify,
         Committed, After, Stall, RuleOutEmpty, LockAndFlag, WaitFence, EndWait, GiveUp,
         LeaveWait, Resume, StillWaiting, SleepEE, TimeoutEE, Pump, Relock, TakeReply, Boundary, Exit,
         RaiseShutdown, NotifyShutdown, QuiesceTest, Abandon, QuiesceFlag, QuiesceSleep,
         QuiesceTimeout, QuiesceWake, QuiesceUnflag, QuiesceUnlock, Join, PcOK
  <1>7. QED
    BY <1>3, <1>4, <1>5, <1>6 DEF CursorsOK

\* The worker's steps that publish no tail.
LEMMA TailKept ==
  ASSUME TypeOK, GSNext, ~ Advance
  PROVE  /\ tail' = tail /\ cur' = cur
         /\ Has(sb'["gs"], "tail") <=> Has(sb["gs"], "tail")
         /\ Rising(sb["gs"], mem, "tail") => Rising(sb'["gs"], mem, "tail")
  <1> DEFINE Kept == /\ tail' = tail /\ (Has(sb'["gs"], "tail") <=> Has(sb["gs"], "tail"))
                     /\ Rising(sb["gs"], mem, "tail") => Rising(sb'["gs"], mem, "tail")
  <1>1. ASSUME NEW loc, NEW v, loc # "tail", Stored("gs", loc, v) PROVE Kept
    BY <1>1 DEF Stored, Locs, GSLoc, tail, Load
  <1>2. ASSUME Park \/ RepeatDue \/ Unpark \/ Stop PROVE Kept
    BY <1>1, <1>2, GSStores
  <1>3. ASSUME Reload PROVE Kept
    BY <1>3 DEF tail, Load, Reload, memVars
  <1>4. ASSUME ReplayVsync PROVE Kept
    BY <1>1, <1>3, <1>4, GSStores DEF ReplayVsync, gsVars
  <1>5. ASSUME ReplayCall PROVE Kept
    BY <1>5, GSStores DEF Replied, Locs, GSLoc, tail, Load
  <1> HIDE DEF Kept
  <1>6. Kept
    BY <1>2, <1>3, <1>4, <1>5 DEF GSNext, DrainStart, DrainEnd, NextRecord, ReplayData,
       InnerFatal, Present, CheckSpaceWaiting, NotifyFence, NotifyRead,
       NotifyProducer, ParkOrStop, ParkFence, StayParked, SleepGS, TimeoutGS, WakeUp,
       RepeatUnlock, RepeatPresent, UnparkUnlock, LastNotify, ProcessEnds
  <1>7. buf' = buf
    BY GSFrame
  <1>8. QED
    BY <1>6, <1>7 DEF Kept, cur

LEMMA CursorsGS ==
  ASSUME TypeOK, CursorsOK, BackOK, GSNext
  PROVE  CursorsOK'
  <1>1. /\ mem' = mem /\ sb'["ee"] = sb["ee"] /\ why' = why /\ buf' = buf
        /\ \/ epc' = epc
           \/ epc = "asleep" /\ epc' = "awake"
           \/ epc = "qAsleep" /\ epc' = "qAwake"
    BY GSFrame
  <1>2. /\ mem["tail"] \in Nat /\ tail \in Nat /\ mem["head"] \in Nat /\ upto \in Nat
        /\ cur.size \in 1..Cap /\ Cap \in Nat /\ Load("gs", "head") = mem["head"]
    BY DataTypes, CursorOrder, CapType DEF DataOK
  <1>3. Rising(sb'["ee"], mem', "head") /\ (epc' = "stall" => why' = "space")
    BY <1>1 DEF CursorsOK
  <1>4. CASE Advance
    <2>1. Stored("gs", "tail", tail + cur.size) /\ InRecord /\ gpc' = "roomMade" /\ upto' = upto
      BY <1>4, GSStores DEF Advance, InRecord, GSOnly, gsVars
    <2>2. tail' = tail + cur.size /\ tail + cur.size <= upto /\ ~ InRecord'
      BY <1>1, <2>1 DEF Stored, tail, Load, Locs, GSLoc, CursorsOK, InRecord, NotifyPc
    <2>3. Rising(sb'["gs"], mem', "tail")
      BY <1>1, <1>2, <2>1 DEF Stored, CursorsOK, tail, Load, Locs, GSLoc
    <2>4. QED
      BY <1>1, <1>2, <1>3, <2>1, <2>2, <2>3 DEF CursorsOK
  <1>5. CASE ~ Advance
    <2>1. tail' = tail /\ cur' = cur /\ Rising(sb'["gs"], mem', "tail")
      BY <1>1, <1>5, TailKept DEF CursorsOK
    <2>2. upto' <= mem'["head"] /\ (InRecord' => tail' + cur'.size <= upto')
      <3> USE <1>1, <1>2, <2>1 DEF CursorsOK, BackOK, InRecord, NotifyPc, GSOnly, gsVars
      <3>1. CASE DrainStart
        BY <3>1 DEF DrainStart
      <3>2. CASE NextRecord
        BY <3>2 DEF NextRecord
      <3>3. CASE DrainEnd \/ ReplayData \/ ReplayVsync \/ ReplayCall
        BY <3>3 DEF DrainEnd, ReplayData, ReplayVsync, ReplayCall
      <3>4. CASE InnerFatal \/ Present \/ CheckSpaceWaiting \/ NotifyFence \/ NotifyRead
        BY <3>4 DEF InnerFatal, Present, CheckSpaceWaiting, NotifyFence, NotifyRead
      <3>5. CASE NotifyProducer \/ LastNotify
        BY <3>5 DEF NotifyProducer, LastNotify
      <3>6. CASE ParkOrStop \/ Park \/ ParkFence \/ StayParked \/ SleepGS \/ TimeoutGS \/ WakeUp
        BY <3>6 DEF ParkOrStop, Park, ParkFence, StayParked, SleepGS, TimeoutGS, WakeUp
      <3>7. CASE RepeatDue \/ RepeatUnlock \/ RepeatPresent \/ Unpark \/ UnparkUnlock \/ Stop
                 \/ ProcessEnds
        BY <3>7 DEF RepeatDue, RepeatUnlock, RepeatPresent, Unpark, UnparkUnlock, Stop, ProcessEnds
      <3>8. QED
        BY <1>5, <3>1, <3>2, <3>3, <3>4, <3>5, <3>6, <3>7 DEF GSNext
    <2>3. QED
      BY <1>1, <1>3, <2>1, <2>2 DEF CursorsOK
  <1>6. QED
    BY <1>4, <1>5

LEMMA CursorsFlush ==
  ASSUME TypeOK, CursorsOK, NEW t \in Threads, Flush(t)
  PROVE  CursorsOK'
  <1>1. /\ Took(t) /\ head' = head /\ tail' = tail /\ buf' = buf /\ epc' = epc /\ gpc' = gpc
        /\ why' = why /\ back' = back /\ upto' = upto
        /\ \A u \in Threads : \A x \in Own(u) :
             /\ Rising(sb[u], mem, x) => Rising(sb'[u], mem', x)
             /\ mem'[x] # mem[x] => u = t /\ Has(sb[t], x)
    BY FlushFrame DEF eeVars, gsVars
  <1>2. "head" \in Own("ee") /\ "tail" \in Own("gs") /\ "ee" \in Threads /\ "gs" \in Threads
    BY DEF Own, EELoc, GSLoc, Threads
  <1>3. Rising(sb'["ee"], mem', "head") /\ Rising(sb'["gs"], mem', "tail")
    <2>1. /\ Rising(sb["ee"], mem, "head") => Rising(sb'["ee"], mem', "head")
          /\ Rising(sb["gs"], mem, "tail") => Rising(sb'["gs"], mem', "tail")
      BY <1>1, <1>2
    <2>2. QED
      BY <2>1 DEF CursorsOK
  <1>4. mem["head"] <= mem'["head"]
    <2>1. "head" \in Locs /\ mem["head"] \in Nat /\ (mem'["head"] # mem["head"] => t = "ee")
      BY <1>1, <1>2, CursorOrder DEF Locs, EELoc
    <2>2. Rising(sb[t], mem, "head") => mem["head"] <= mem'["head"]
      BY <1>1, <2>1 DEF Took
    <2>3. QED
      BY <2>1, <2>2 DEF CursorsOK
  <1>5. mem'["head"] \in Nat /\ mem["head"] \in Nat /\ upto \in Nat /\ tail \in Nat
    BY TypeNext, DataTypes, CursorOrder, FlushEffect DEF DataOK, MemOK, Memory, Locs, EELoc
  <1>6. upto' <= mem'["head"] /\ tail' <= mem'["head"]
    BY <1>1, <1>4, <1>5 DEF CursorsOK
  <1>7. InRecord' = InRecord /\ cur' = cur
    BY <1>1 DEF InRecord, cur
  <1>8. QED
    BY <1>1, <1>3, <1>6, <1>7 DEF CursorsOK

-----------------------------------------------------------------------------
(* The Wrap record published alone *)

LEMMA HeadPending ==
  ASSUME TypeOK
  PROVE  /\ head # mem["head"] => Has(sb["ee"], "head")
         /\ Has(sb["ee"], "head") => sb["ee"] # <<>>
  BY DataTypes, MemTypes DEF head, Load, Threads, Locs, EELoc, Has

\* The stores that are on their way stay there through a step that adds no head.
LEMMA HeadStoresKept ==
  ASSUME TypeOK, EENext, ~ WriteWrap, ~ Commit,
         NEW S, \A i \in DOMAIN sb["ee"] : sb["ee"][i].loc = "head" => sb["ee"][i].val \in S
  PROVE  \A i \in DOMAIN sb'["ee"] : sb'["ee"][i].loc = "head" => sb'["ee"][i].val \in S
  <1> DEFINE Goal == \A i \in DOMAIN sb'["ee"] : sb'["ee"][i].loc = "head" => sb'["ee"][i].val \in S
  <1>0. sb["ee"] \in Stores
    BY DataTypes, MemTypes DEF Threads
  <1>1. ASSUME NEW loc \in EELoc \ {"head"}, NEW x \in Nat, Stored("ee", loc, x) PROVE Goal
    <2> DEFINE s == [loc |-> loc, val |-> x]
               q == sb["ee"]
    <2>1. sb'["ee"] = Append(q, s) /\ s.loc # "head" /\ s \in StoreType /\ q \in Stores
      BY <1>0, <1>1 DEF Stored, StoreType, Locs
    <2> HIDE DEF s
    <2>2. /\ DOMAIN sb'["ee"] = 1..(Len(q) + 1) /\ DOMAIN q = 1..Len(q) /\ Len(q) \in Nat
          /\ sb'["ee"][Len(q) + 1] = s /\ \A i \in 1..Len(q) : sb'["ee"][i] = q[i]
      BY <2>1 DEF Stores
    <2>3. QED
      BY <2>1, <2>2
  <1>2. ASSUME Reload PROVE Goal
    BY <1>2 DEF Reload, memVars
  <1> HIDE DEF Goal
  <1>3. ASSUME LockAndFlag \/ EndWait \/ GiveUp \/ RaiseShutdown \/ QuiesceFlag \/ QuiesceUnflag
        PROVE  Goal
    BY <1>1, <1>3, EEStores DEF EELoc
  <1>4. ASSUME \E kind \in Kind \ {"wrap"}, size \in Sizes \cup {1} : Call(kind, size) PROVE Goal
    BY <1>2, <1>4 DEF Call
  <1>5. Goal
    BY <1>2, <1>3, <1>4 DEF EENext, WriteRecord, WakeFence, WakeRead, WakeNotify,
       Committed, Stall, RuleOutEmpty, WaitFence,
       LeaveWait, StillWaiting, SleepEE, TimeoutEE, Pump, Relock, TakeReply, Boundary, Exit,
       NotifyShutdown, QuiesceTest, Abandon, QuiesceSleep,
       QuiesceTimeout, QuiesceWake, QuiesceUnlock, Join
  <1>6. QED
    BY <1>5 DEF Goal

\* A record that needs the rest of the buffer needs no second Wrap.
LEMMA NoSecondWrap ==
  ASSUME TypeOK, WriteWrap
  PROVE  head % Cap # 0
  BY DataTypes, CapType DEF WriteWrap

LEMMA WrapWritten ==
  ASSUME TypeOK, WriteWrap
  PROVE  /\ buf'[head % Cap] = Wrap(ToEnd) /\ head' = head + ToEnd /\ head' % Cap = 0
         /\ Wrap(ToEnd).kind = "wrap" /\ Wrap(ToEnd).size = ToEnd /\ ToEnd \in 1..Cap /\ head \in Nat
  <1>1. head \in Nat /\ ToEnd = Cap - (head % Cap) /\ ToEnd \in 1..Cap /\ head % Cap \in Offset
    BY DataTypes
  <1>2. head' = head + ToEnd
    <2>1. Stored("ee", "head", head + ToEnd) /\ mem' = mem
      BY EEStores DEF Stored
    <2>2. QED
      BY <2>1 DEF Stored, Locs, EELoc, head, Load
  <1>3. (head + ToEnd) % Cap = 0
    BY <1>1, CapAssumption, ModTop
  <1>4. buf'[head % Cap] = Wrap(ToEnd)
    BY <1>1, TypeParts DEF WriteWrap, DataOK
  <1>5. QED
    BY <1>1, <1>2, <1>3, <1>4 DEF Wrap

LEMMA WrapOnlyEE ==
  ASSUME TypeOK, CursorsOK, WrapOnly, EENext
  PROVE  WrapOnly'
  <1>1. mem' = mem
    BY EEFrame
  <1>2. CASE Commit
    BY <1>2 DEF Commit, EEOnly, WrapOnly
  <1>3. CASE WriteWrap
    <2>1. epc = "room" /\ epc' = "room" /\ Stored("ee", "head", head + ToEnd) /\ head % Cap # 0
      BY <1>3, EEStores, NoSecondWrap DEF WriteWrap, EEOnly
    <2>2. ~ Has(sb["ee"], "head") /\ head = mem["head"]
      BY <2>1, HeadPending DEF WrapOnly
    <2>3. \A i \in DOMAIN sb'["ee"] : sb'["ee"][i].loc = "head" => sb'["ee"][i].val = head + ToEnd
      <3> DEFINE s == [loc |-> "head", val |-> head + ToEnd]
                 q == sb["ee"]
      <3>1. sb'["ee"] = Append(q, s) /\ s.val = head + ToEnd /\ s \in StoreType /\ q \in Stores
        <4>1. head + ToEnd \in Nat /\ q \in Stores
          BY DataTypes, MemTypes DEF Threads
        <4>2. QED
          BY <2>1, <4>1 DEF Stored, StoreType, Locs, EELoc
      <3> HIDE DEF s
      <3>2. /\ DOMAIN sb'["ee"] = 1..(Len(q) + 1) /\ DOMAIN q = 1..Len(q) /\ Len(q) \in Nat
            /\ sb'["ee"][Len(q) + 1] = s /\ \A i \in 1..Len(q) : sb'["ee"][i] = q[i]
        BY <3>1 DEF Stores
      <3>3. QED
        BY <2>2, <3>1, <3>2 DEF Has
    <2>4. WrapFrom(mem["head"])'
      BY <1>1, <1>3, <2>2, WrapWritten DEF WrapFrom
    <2>5. QED
      BY <1>1, <1>3, <2>1, <2>3, <2>4, WrapWritten DEF WrapOnly
  <1>4. CASE ~ WriteWrap /\ ~ Commit
    <2>1. head' = head /\ (Has(sb'["ee"], "head") <=> Has(sb["ee"], "head"))
      BY <1>4, HeadKept
    <2>2. CASE epc = "wake"
      <3>1. WakeFence
        <4>1. ~ \E kind \in Kind \ {"wrap"}, size \in Sizes \cup {1} : Call(kind, size)
          BY <2>2 DEF Call
        <4>2. QED
          BY <1>4, <2>2, <4>1 DEF EENext, WriteRecord, WakeRead, WakeNotify,
             Committed, Stall, RuleOutEmpty, LockAndFlag, WaitFence, EndWait, GiveUp,
             LeaveWait, StillWaiting, SleepEE, TimeoutEE, Pump, Relock, TakeReply, Boundary, Exit,
             RaiseShutdown, NotifyShutdown, QuiesceTest, Abandon, QuiesceFlag, QuiesceSleep,
             QuiesceTimeout, QuiesceWake, QuiesceUnflag, QuiesceUnlock, Join
      <3>2. ~ Has(sb["ee"], "head") /\ head = mem["head"]
        BY <3>1, HeadPending DEF WakeFence, Fence, Drained
      <3>3. QED
        BY <1>1, <2>1, <3>2 DEF WrapOnly
    <2>3. CASE epc # "wake"
      <3>1. Has(sb'["ee"], "head") =>
              /\ head' % Cap = 0
              /\ \A i \in DOMAIN sb'["ee"] : sb'["ee"][i].loc = "head" => sb'["ee"][i].val = head'
        <4>1. Has(sb["ee"], "head") =>
                /\ head % Cap = 0
                /\ \A i \in DOMAIN sb["ee"] : sb["ee"][i].loc = "head" => sb["ee"][i].val \in {head}
          BY <2>3 DEF WrapOnly
        <4>2. QED
          BY <1>4, <2>1, <4>1, HeadStoresKept
      <3>2. ASSUME head' # mem'["head"]
            PROVE  /\ WrapFrom(mem["head"])'
                   /\ \/ epc' \in {"room", "commit", "stall", "quiesce", "qNotify"}
                      \/ WaitsForRoom'
        <4>1. /\ WrapFrom(mem["head"]) /\ mem["head"] < head /\ sb["ee"] # <<>>
              /\ epc \in {"room", "commit", "stall", "quiesce", "qNotify"} \/ WaitsForRoom
          BY <1>1, <2>1, <2>3, <3>2, HeadPending, CursorOrder DEF WrapOnly
        <4>2. buf'[mem["head"] % Cap] = buf[mem["head"] % Cap]
          <5>1. CASE WriteRecord
            BY <4>1, <5>1, WrittenApart, CursorOrder
          <5>2. CASE ~ WriteRecord
            <6>1. CASE \E kind \in Kind \ {"wrap"}, size \in Sizes \cup {1} : Call(kind, size)
              BY <6>1 DEF Call
            <6>2. QED
              BY <1>4, <5>2, <6>1 DEF EENext, Commit, WakeFence, WakeRead, WakeNotify,
                 Committed, Stall, RuleOutEmpty, LockAndFlag, WaitFence, EndWait, GiveUp,
                 LeaveWait, StillWaiting, SleepEE, TimeoutEE, Pump, Relock, TakeReply, Boundary,
                 Exit, RaiseShutdown, NotifyShutdown, QuiesceTest, Abandon, QuiesceFlag,
                 QuiesceSleep, QuiesceTimeout, QuiesceWake, QuiesceUnflag, QuiesceUnlock, Join
          <5>3. QED
            BY <5>1, <5>2
        <4>3. WrapFrom(mem["head"])'
          BY <1>1, <2>1, <4>1, <4>2 DEF WrapFrom
        <4>4. \/ epc' \in {"room", "commit", "stall", "quiesce", "qNotify"}
              \/ WaitsForRoom'
          <5> USE <4>1 DEF WaitsForRoom, EEOnly, eeVars
          <5>1. CASE \E kind \in Kind \ {"wrap"}, size \in Sizes \cup {1} : Call(kind, size)
            BY <5>1 DEF Call
          <5>2. CASE WriteRecord \/ Stall \/ LockAndFlag \/ RaiseShutdown
            BY <5>2 DEF WriteRecord, Stall, LockAndFlag, RaiseShutdown
          <5>3. CASE RuleOutEmpty
            BY <5>3 DEF RuleOutEmpty, CursorsOK
          <5>4. CASE WaitFence \/ NotifyShutdown
            BY <5>4 DEF WaitFence, NotifyShutdown, Fence, Drained
          <5>5. QED
            BY <1>4, <5>1, <5>2, <5>3, <5>4 DEF EENext, WakeFence, WakeRead, WakeNotify, Committed,
               EndWait, GiveUp, LeaveWait, StillWaiting, SleepEE, TimeoutEE, Pump, Relock,
               TakeReply, Boundary, Exit, QuiesceTest, Abandon, QuiesceFlag, QuiesceSleep,
               QuiesceTimeout, QuiesceWake, QuiesceUnflag, QuiesceUnlock, Join
        <4>5. QED
          BY <4>3, <4>4
      <3>3. QED
        BY <3>1, <3>2 DEF WrapOnly
    <2>4. QED
      BY <2>2, <2>3
  <1>5. QED
    BY <1>2, <1>3, <1>4

LEMMA WrapOnlyGS ==
  ASSUME TypeOK, WrapOnly, GSNext
  PROVE  WrapOnly'
  <1>1. /\ mem' = mem /\ sb'["ee"] = sb["ee"] /\ head' = head /\ why' = why /\ buf' = buf
        /\ \/ epc' = epc
           \/ epc = "asleep" /\ epc' = "awake"
           \/ epc = "qAsleep" /\ epc' = "qAwake"
    BY GSFrame
  <1>2. QED
    BY <1>1 DEF WrapOnly, WrapFrom, WaitsForRoom

LEMMA WrapOnlyFlush ==
  ASSUME TypeOK, WrapOnly, NEW t \in Threads, Flush(t)
  PROVE  WrapOnly'
  <1>1. /\ Took(t) /\ head' = head /\ buf' = buf /\ epc' = epc /\ why' = why
        /\ \A u \in Threads : \A x \in Own(u) :
             /\ Has(sb'[u], x) => Has(sb[u], x)
             /\ mem'[x] # mem[x] => u = t /\ Has(sb[t], x)
    BY FlushFrame DEF eeVars
  <1>2. "head" \in Own("ee") /\ "ee" \in Threads /\ "head" \in Locs /\ sb[t] \in Stores
    BY DataTypes, MemTypes DEF Own, EELoc, Threads, Locs
  <1>3. SUFFICES ASSUME epc # "wake" PROVE WrapOnly'
    BY <1>1 DEF WrapOnly
  <1>4. CASE t = "ee"
    <2>1. Has(sb'["ee"], "head") =>
            /\ head % Cap = 0
            /\ \A i \in DOMAIN sb'["ee"] : sb'["ee"][i].loc = "head" => sb'["ee"][i].val = head
      <3>1. /\ sb'["ee"] = Tail(sb["ee"]) /\ sb["ee"] # <<>> /\ sb["ee"] \in Stores
            /\ Has(sb'["ee"], "head") => Has(sb["ee"], "head")
        BY <1>1, <1>2, <1>4 DEF Took
      <3>2. ASSUME NEW i \in DOMAIN sb'["ee"], sb'["ee"][i].loc = "head", Has(sb["ee"], "head")
            PROVE  sb'["ee"][i].val = head
        <4>1. i + 1 \in DOMAIN sb["ee"] /\ sb["ee"][i + 1] = sb'["ee"][i]
          BY <3>1, TailOfStores
        <4>2. QED
          BY <1>3, <3>2, <4>1 DEF WrapOnly
      <3>3. QED
        BY <1>3, <3>1, <3>2 DEF WrapOnly
    <2>2. mem'["head"] # mem["head"] => mem'["head"] = head
      <3>1. ASSUME mem'["head"] # mem["head"] PROVE mem'["head"] = head
        <4>1. PICK i \in DOMAIN sb["ee"] : sb["ee"][i].loc = "head" /\ mem'["head"] = sb["ee"][i].val
          BY <1>1, <1>2, <1>4, <3>1 DEF Took
        <4>2. QED
          BY <1>3, <4>1 DEF WrapOnly, Has
      <3>2. QED
        BY <3>1
    <2>3. QED
      BY <1>1, <1>3, <2>1, <2>2 DEF WrapOnly, WrapFrom, WaitsForRoom
  <1>5. CASE t # "ee"
    <2>1. mem'["head"] = mem["head"] /\ sb'["ee"] = sb["ee"]
      BY <1>1, <1>2, <1>5 DEF Took
    <2>2. QED
      BY <1>1, <2>1 DEF WrapOnly, WrapFrom, WaitsForRoom
  <1>6. QED
    BY <1>4, <1>5

-----------------------------------------------------------------------------
(* The worker sleeps over an empty ring only *)

\* Without the notification a sleeping worker needs, nothing is published.
LEMMA ParkEE ==
  ASSUME TypeOK, MutexOK, OnTheirWay, FlagsOK, CursorsOK, ParkInv, EENext
  PROVE  ParkInv'
  <1> SUFFICES ASSUME gpc' \in {"parkWait", "asleep"}
               PROVE  /\ epc' \notin QuiescePc
                      /\ head' # tail' =>
                           \/ epc' \in {"wake", "wakeRead", "wakeNotify"}
                           \/ /\ WrapFrom(tail)'
                              /\ \/ epc' \in {"room", "commit", "stall", "quiesce", "qNotify"}
                                 \/ why' = "space" /\ epc' \in WaitPc \cup {"lock", "unlock", "unlockExit"}
    BY DEF ParkInv
  <1>1. mem' = mem /\ gpc' = gpc /\ tail' = tail /\ gpc \in {"parkWait", "asleep"}
    BY EEFrame
  <1>2. /\ epc \notin QuiescePc
        /\ head # tail =>
             \/ epc \in {"wake", "wakeRead", "wakeNotify"}
             \/ /\ WrapFrom(tail)
                /\ \/ epc \in {"room", "commit", "stall", "quiesce", "qNotify"}
                   \/ why = "space" /\ epc \in WaitPc \cup {"lock", "unlock", "unlockExit"}
    BY <1>1 DEF ParkInv
  <1>3. mem["tail"] <= tail /\ tail <= head /\ tail \in Nat /\ head \in Nat
    BY CursorOrder
  <1>4. Load("ee", "consumer_waiting") = 1
    <2>1. sb["gs"] = <<>> /\ Load("gs", "consumer_waiting") = 1
      BY <1>1 DEF OnTheirWay, FlagsOK, GSDirty, ParkPc
    <2>2. QED
      BY <2>1, DataTypes, MemTypes, OtherLoads DEF Load, GSLoc, Threads, Locs
  <1>5. CASE WriteWrap
    <2>1. epc = "room" /\ epc' = "room" /\ head % Cap # 0
      BY <1>5, NoSecondWrap DEF WriteWrap, EEOnly
    <2>2. head = tail
      BY <1>2, <2>1 DEF WrapFrom
    <2>3. WrapFrom(tail)'
      BY <1>1, <1>5, <2>2, WrapWritten DEF WrapFrom
    <2>4. QED
      BY <2>1, <2>3 DEF QuiescePc
  <1>6. CASE Commit
    BY <1>6 DEF Commit, EEOnly, QuiescePc
  <1>7. CASE ~ WriteWrap /\ ~ Commit
    <2>1. head' = head
      BY <1>7, HeadKept
    <2>2. head # tail => buf'[tail % Cap] = buf[tail % Cap]
      BY <1>1, <1>3, CurKept DEF cur
    <2>3. head # tail /\ WrapFrom(tail) => WrapFrom(tail)'
      BY <1>1, <2>1, <2>2 DEF WrapFrom
    <2> DEFINE Place == \/ epc' \in {"room", "commit", "stall", "quiesce", "qNotify"}
                        \/ why' = "space" /\ epc' \in WaitPc \cup {"lock", "unlock", "unlockExit"}
    <2>4. /\ epc' \notin QuiescePc
          /\ head # tail => epc' \in {"wake", "wakeRead", "wakeNotify"} \/ (WrapFrom(tail) /\ Place)
      <3> USE <1>1, <1>2 DEF QuiescePc, WaitPc, EEOnly, eeVars
      <3>1. CASE \E kind \in Kind \ {"wrap"}, size \in Sizes \cup {1} : Call(kind, size)
        BY <3>1 DEF Call
      <3>2. CASE WriteRecord \/ WakeFence \/ Stall
        BY <3>2 DEF WriteRecord, WakeFence, Stall
      <3>3. CASE WakeRead
        BY <1>4, <3>3 DEF WakeRead
      <3>4. CASE WakeNotify \/ NotifyShutdown
        BY <3>4 DEF WakeNotify, NotifyShutdown, NotifyGS, Pass, MutexOK, GSHolds
      <3>5. CASE Committed \/ RuleOutEmpty
        BY <3>5 DEF Committed, After, RuleOutEmpty, CursorsOK
      <3>6. CASE LockAndFlag \/ WaitFence \/ EndWait \/ GiveUp \/ StillWaiting \/ SleepEE
        BY <3>6 DEF LockAndFlag, WaitFence, EndWait, GiveUp, StillWaiting, SleepEE
      <3>7. CASE LeaveWait
        BY <3>7, DataTypes DEF LeaveWait, Resume, PcOK
      <3>8. CASE TimeoutEE \/ Pump \/ Relock \/ TakeReply \/ Boundary \/ Exit \/ RaiseShutdown
        BY <3>8 DEF TimeoutEE, Pump, Relock, TakeReply, Boundary, Exit, RaiseShutdown
      <3>9. QED
        BY <1>7, <3>1, <3>2, <3>3, <3>4, <3>5, <3>6, <3>7, <3>8 DEF EENext,
           QuiesceTest, Abandon, QuiesceFlag, QuiesceSleep, QuiesceTimeout, QuiesceWake,
           QuiesceUnflag, QuiesceUnlock, Join
    <2>5. QED
      BY <1>1, <2>1, <2>3, <2>4
  <1>8. QED
    BY <1>5, <1>6, <1>7

LEMMA ParkGS ==
  ASSUME TypeOK, OnTheirWay, LastWords, BackOK, CursorsOK, WrapOnly, ParkInv, GSNext
  PROVE  ParkInv'
  <1> SUFFICES ASSUME gpc' \in {"parkWait", "asleep"} PROVE ParkInv'
    BY DEF ParkInv
  <1>1. /\ head' = head /\ why' = why /\ buf' = buf
    BY GSFrame
  <1>2. (StayParked \/ SleepGS) /\ epc' = epc /\ ~ Advance
    BY DEF GSNext, GSOnly, BackOK, DrainStart, DrainEnd, NextRecord, ReplayData, ReplayVsync,
       ReplayCall, InnerFatal, Present, Advance, CheckSpaceWaiting, NotifyFence, NotifyRead,
       NotifyProducer, ParkOrStop, Park, ParkFence, StayParked, SleepGS, TimeoutGS, WakeUp,
       RepeatDue, RepeatUnlock, RepeatPresent, Unpark, UnparkUnlock, Stop, LastNotify, ProcessEnds
  <1>3. tail' = tail
    BY <1>2, TailKept
  <1>4. CASE StayParked
    <2>1. mem["head"] = tail /\ mem["shutdown"] = 0
      BY <1>4, CursorOrder, DataTypes, OtherLoads DEF StayParked, NothingToDo, Load, EELoc
    <2>2. epc \notin QuiescePc
      BY <2>1 DEF LastWords
    <2>3. head # tail =>
            \/ epc = "wake"
            \/ /\ WrapFrom(tail)
               /\ epc \in {"room", "commit", "stall", "quiesce", "qNotify"} \/ WaitsForRoom
      BY <2>1 DEF WrapOnly
    <2>4. QED
      BY <1>1, <1>2, <1>3, <2>2, <2>3 DEF ParkInv, WrapFrom, WaitsForRoom, WaitPc
  <1>5. CASE SleepGS
    BY <1>1, <1>2, <1>3, <1>5 DEF SleepGS, ParkInv, WrapFrom
  <1>6. QED
    BY <1>2, <1>4, <1>5

LEMMA ParkFlush ==
  ASSUME TypeOK, ParkInv, NEW t \in Threads, Flush(t)
  PROVE  ParkInv'
  <1>1. head' = head /\ tail' = tail /\ buf' = buf /\ epc' = epc /\ gpc' = gpc /\ why' = why
    BY FlushFrame DEF eeVars
  <1>2. QED
    BY <1>1 DEF ParkInv, WrapFrom

-----------------------------------------------------------------------------
(* The EE thread sleeps on what has not happened only *)

\* What a waiting EE thread tests.
LEMMA WaitTest ==
  ASSUME TypeOK
  PROVE  /\ Satisfied <=> HasHappened
         /\ Stopped <=> mem["exited"] = 1
  <1>1. /\ Load("ee", "tail") = mem["tail"] /\ Load("ee", "vsync_done") = mem["vsync_done"]
        /\ Load("ee", "reply_seq") = mem["reply_seq"] /\ Load("ee", "exited") = mem["exited"]
    BY DataTypes, OtherLoads DEF Load, GSLoc
  <1>2. why \in {"space", "field", "reply"}
    BY DataTypes DEF PcOK
  <1>3. QED
    BY <1>1, <1>2 DEF Satisfied, HasHappened, Stopped, HasRoom

LEMMA SleepOfEE ==
  ASSUME TypeOK, OnTheirWay, LastWords, SleepInv, EENext
  PROVE  SleepInv'
  <1>1. /\ mem' = mem /\ sb'["gs"] = sb["gs"]
        /\ gpc' = gpc \/ (gpc = "asleep" /\ gpc' = "awake")
    BY EEFrame
  <1>2. CASE StillWaiting
    <2>1. ~ HasHappened /\ epc' = "waitStep" /\ ~ WriteWrap /\ ~ Commit
      BY <1>2, WaitTest DEF StillWaiting, EEOnly, WriteWrap, Commit
    <2>2. head' = head /\ rec' = rec /\ why' = why /\ vseq' = vseq /\ cseq' = cseq
      BY <1>2, <2>1, HeadKept DEF StillWaiting, eeVars
    <2>3. HasHappened' <=> HasHappened
      BY <1>1, <2>2 DEF HasHappened, Need, ToEnd
    <2>4. QED
      BY <2>1, <2>3 DEF SleepInv
  <1>3. CASE SleepEE
    <2>1. epc = "waitStep" /\ epc' = "asleep" /\ ~ WriteWrap /\ ~ Commit /\ gpc' = gpc
      BY <1>3 DEF SleepEE, EEOnly, WriteWrap, Commit
    <2>2. head' = head /\ rec' = rec /\ why' = why /\ vseq' = vseq /\ cseq' = cseq
      BY <1>3, <2>1, HeadKept DEF SleepEE, eeVars
    <2>3. HasHappened' <=> HasHappened
      BY <1>1, <2>2 DEF HasHappened, Need, ToEnd
    <2>4. QED
      BY <2>1, <2>2, <2>3 DEF SleepInv
  <1>4. CASE QuiesceSleep
    <2>1. epc' = "qUnflag" \/ (epc' = "qAsleep" /\ mem["exited"] # 1)
      BY <1>4, WaitTest DEF QuiesceSleep, EEOnly
    <2>2. mem["exited"] # 1 => gpc \notin {"leaving", "gone"}
      BY DataTypes, MemTypes DEF OnTheirWay, GSDirty, LastWords, LeavePc, Load, Threads, Locs, GSLoc
    <2>3. QED
      BY <1>1, <2>1, <2>2 DEF SleepInv
  <1>5. CASE ~ StillWaiting /\ ~ SleepEE /\ ~ QuiesceSleep
    <2>1. epc' \notin {"waitStep", "asleep", "qAsleep"}
      <3>1. CASE \E kind \in Kind \ {"wrap"}, size \in Sizes \cup {1} : Call(kind, size)
        BY <3>1 DEF Call, EEOnly
      <3>2. CASE WakeNotify \/ NotifyShutdown
        BY <3>2 DEF WakeNotify, NotifyShutdown
      <3>3. QED
        BY <1>5, <3>1, <3>2, DataTypes DEF EENext, EEOnly, WriteWrap, WriteRecord, Commit,
           WakeFence, WakeRead, Committed, After, Stall, RuleOutEmpty, LockAndFlag, WaitFence,
           EndWait, GiveUp, LeaveWait, Resume, TimeoutEE, Pump, Relock, TakeReply, Boundary, Exit,
           RaiseShutdown, QuiesceTest, Abandon, QuiesceFlag, QuiesceTimeout, QuiesceWake,
           QuiesceUnflag, QuiesceUnlock, Join, PcOK
    <2>2. QED
      BY <2>1 DEF SleepInv
  <1>6. QED
    BY <1>2, <1>3, <1>4, <1>5

\* A sleeper's flag is in memory, where the worker reads it.
LEMMA SleepersFlag ==
  ASSUME TypeOK, OnTheirWay, FlagsOK, epc \in {"waitStep", "asleep"}
  PROVE  IF why = "space" THEN Load("gs", "space_waiting") = 1
                          ELSE Load("gs", "progress_waiting") = 1
  <1>1. sb["ee"] = <<>> /\ Load("ee", WaitFlag) = 1
    BY DEF OnTheirWay, FlagsOK, EEDirty, WaitPc
  <1>2. mem[WaitFlag] = 1 /\ Load("gs", WaitFlag) = mem[WaitFlag]
    BY <1>1, DataTypes, MemTypes, OtherLoads DEF Load, Threads, Locs, EELoc, WaitFlag
  <1>3. QED
    BY <1>2 DEF WaitFlag

LEMMA SleepOfEEWorker ==
  ASSUME TypeOK, MutexOK, OnTheirWay, FlagsOK, BackOK, SleepInv, GSNext
  PROVE  SleepInv'
  <1>1. /\ mem' = mem /\ head' = head /\ rec' = rec /\ why' = why /\ vseq' = vseq /\ cseq' = cseq
        /\ \/ epc' = epc
           \/ epc = "asleep" /\ epc' = "awake"
           \/ epc = "qAsleep" /\ epc' = "qAwake"
    BY GSFrame
  <1>2. HasHappened' <=> HasHappened
    BY <1>1 DEF HasHappened, Need, ToEnd
  <1>3. epc' = "qAsleep" => gpc' \notin {"leaving", "gone"}
    <2>1. SUFFICES ASSUME epc' = "qAsleep" PROVE gpc' \notin {"leaving", "gone"}
      OBVIOUS
    <2>2. epc = "qAsleep" /\ gpc \notin {"leaving", "gone"} /\ ~ LastNotify
      BY <1>1, <2>1 DEF SleepInv, LastNotify, NotifyEE
    <2>3. QED
      BY <2>2 DEF GSNext, BackOK, GSOnly, DrainStart, DrainEnd, NextRecord, ReplayData, ReplayVsync,
         ReplayCall, InnerFatal, Present, Advance, CheckSpaceWaiting, NotifyFence, NotifyRead,
         NotifyProducer, ParkOrStop, Park, ParkFence, StayParked, SleepGS, TimeoutGS, WakeUp,
         RepeatDue, RepeatUnlock, RepeatPresent, Unpark, UnparkUnlock, Stop, ProcessEnds
  <1>4. ASSUME epc' \in {"waitStep", "asleep"}, HasHappened'
        PROVE  \/ gpc' \in NotifyPc
               \/ why' = "space" /\ gpc' \in Batch \cup {"batchEnd", "lastNotify"}
    <2>1. /\ epc' = epc /\ HasHappened
          /\ gpc \in NotifyPc \/ (why = "space" /\ gpc \in Batch \cup {"batchEnd", "lastNotify"})
      BY <1>1, <1>2, <1>4 DEF SleepInv
    <2>2. IF why = "space" THEN Load("gs", "space_waiting") = 1
                           ELSE Load("gs", "progress_waiting") = 1
      BY <1>4, <2>1, SleepersFlag
    <2>3. epc = "waitStep" => mu = "ee"
      BY DEF MutexOK, EEHolds
    <2> USE <1>1, <1>4, <2>1 DEF NotifyPc, Batch, GSOnly
    <2>4. CASE DrainEnd \/ NextRecord \/ ReplayData \/ ReplayVsync \/ ReplayCall \/ InnerFatal
      BY <2>4 DEF DrainEnd, NextRecord, ReplayData, ReplayVsync, ReplayCall, InnerFatal
    <2>5. CASE Present \/ Advance \/ NotifyFence \/ Stop
      BY <2>5 DEF Present, Advance, NotifyFence, Stop
    <2>6. CASE CheckSpaceWaiting
      BY <2>2, <2>6 DEF CheckSpaceWaiting
    <2>7. CASE NotifyRead
      BY <2>2, <2>7 DEF NotifyRead
    <2>8. CASE NotifyProducer \/ LastNotify
      BY <2>3, <2>8 DEF NotifyProducer, LastNotify, NotifyEE, Pass
    <2>9. QED
      BY <2>4, <2>5, <2>6, <2>7, <2>8 DEF GSNext, DrainStart, ParkOrStop, Park, ParkFence,
         StayParked, SleepGS, TimeoutGS, WakeUp, RepeatDue, RepeatUnlock, RepeatPresent, Unpark,
         UnparkUnlock, ProcessEnds
  <1>5. QED
    BY <1>3, <1>4 DEF SleepInv

LEMMA SleepOfEEFlush ==
  ASSUME TypeOK, OnTheirWay, SleepInv, NEW t \in Threads, Flush(t)
  PROVE  SleepInv'
  <1>1. /\ Took(t) /\ head' = head /\ epc' = epc /\ gpc' = gpc
        /\ rec' = rec /\ why' = why /\ vseq' = vseq /\ cseq' = cseq
        /\ \A u \in Threads : \A x \in Own(u) : mem'[x] # mem[x] => u = t /\ Has(sb[t], x)
    BY FlushFrame DEF eeVars
  <1>2. ASSUME epc \in {"waitStep", "asleep"}, HasHappened', ~ HasHappened
        PROVE  gpc = "notify" \/ (why = "space" /\ gpc \in Batch)
    <2>1. \/ why = "space" /\ mem'["tail"] # mem["tail"]
          \/ why = "field" /\ mem'["vsync_done"] # mem["vsync_done"]
          \/ why = "reply" /\ mem'["reply_seq"] # mem["reply_seq"]
      BY <1>1, <1>2, DataTypes DEF HasHappened, Need, ToEnd, PcOK
    <2>2. /\ "tail" \in Own("gs") /\ "vsync_done" \in Own("gs") /\ "reply_seq" \in Own("gs")
          /\ "gs" \in Threads
      BY DEF Own, GSLoc, Threads
    <2>3. \/ why = "space" /\ Has(sb["gs"], "tail")
          \/ Has(sb["gs"], "vsync_done") \/ Has(sb["gs"], "reply_seq")
      BY <1>1, <2>1, <2>2
    <2>4. QED
      BY <2>3 DEF OnTheirWay, Announced
  <1>3. QED
    BY <1>1, <1>2 DEF SleepInv, NotifyPc

-----------------------------------------------------------------------------
(* No wakeup is lost *)

LEMMA HandshakeInit == Init => HandshakeInv
  <1> SUFFICES ASSUME Init PROVE HandshakeInv
    OBVIOUS
  <1>1. TypeOK /\ MemOK
    BY TypeInit, TypeParts
  <1>2. /\ sb["ee"] = <<>> /\ sb["gs"] = <<>> /\ \A loc \in Locs : mem[loc] = 0
        /\ ~ Has(sb["ee"], "shutdown") /\ ~ Has(sb["gs"], "exited")
    BY <1>1, MemTypes DEF Init, Threads, Locs
  <1>3. head = 0 /\ tail = 0
    BY <1>1, <1>2, MemTypes DEF head, tail, Load, Threads, Locs, EELoc, GSLoc
  <1>4. MutexOK /\ BackOK /\ OnTheirWay /\ FlagsOK
    BY <1>2 DEF Init, MutexOK, EEHolds, GSHolds, BackOK, OnTheirWay, Has, FlagsOK, WaitPc, ParkPc
  <1>5. LastWords
    BY <1>2 DEF Init, LastWords, QuiescePc, LeavePc, Locs, EELoc, GSLoc
  <1>6. CursorsOK
    BY <1>2, <1>3 DEF Init, CursorsOK, Rising, InRecord, NotifyPc, Locs, EELoc
  <1>7. WrapOnly
    BY <1>2, <1>3 DEF Init, WrapOnly, Has, Locs, EELoc
  <1>8. ParkInv /\ SleepInv
    BY DEF Init, ParkInv, SleepInv
  <1>9. QED
    BY <1>1, <1>4, <1>5, <1>6, <1>7, <1>8 DEF HandshakeInv

LEMMA HandshakeNext == HandshakeInv /\ [Next]_vars => HandshakeInv'
  <1> SUFFICES ASSUME HandshakeInv, [Next]_vars PROVE HandshakeInv'
    OBVIOUS
  <1> USE DEF HandshakeInv
  <1>1. TypeOK'
    BY TypeNext
  <1>2. CASE EENext
    <2>1. BackOK'
      BY <1>2, EEFrame DEF BackOK
    <2>2. QED
      BY <1>1, <1>2, <2>1, MutexEE, OnTheirWayEE, FlagsEE, LastWordsEE, CursorsEE, WrapOnlyEE,
         ParkEE, SleepOfEE
  <1>3. CASE GSNext
    BY <1>1, <1>3, MutexGS, OnTheirWayGS, FlagsGS, LastWordsGS, CursorsGS, WrapOnlyGS, ParkGS,
       SleepOfEEWorker
  <1>4. ASSUME NEW t \in {"ee", "gs"}, Flush(t) PROVE HandshakeInv'
    <2>1. t \in Threads
      BY DEF Threads
    <2>2. MutexOK' /\ BackOK'
      BY <1>4 DEF Flush, MutexOK, BackOK, gsVars
    <2>3. QED
      BY <1>1, <1>4, <2>1, <2>2, OnTheirWayFlush, FlagsFlush, LastWordsFlush, CursorsFlush,
         WrapOnlyFlush, ParkFlush, SleepOfEEFlush
  <1>5. CASE Minimize \/ RestoreOrClose \/ UNCHANGED vars
    <2>1. UNCHANGED <<memVars, mu, buf, epc, eeVars, gpc, gsVars>>
      BY <1>5 DEF Minimize, RestoreOrClose, vars
    <2>2. /\ MutexOK' /\ BackOK' /\ OnTheirWay' /\ FlagsOK' /\ LastWords'
      BY <2>1 DEF memVars, eeVars, gsVars, MutexOK, BackOK, OnTheirWay, FlagsOK, LastWords, Load,
                  WaitFlag
    <2>3. CursorsOK' /\ WrapOnly' /\ ParkInv' /\ SleepInv'
      BY <2>1, ZenonT(30) DEF memVars, eeVars, gsVars, CursorsOK, WrapOnly, ParkInv, SleepInv, HasHappened,
                  Need, ToEnd, WrapFrom, WaitsForRoom, InRecord, cur, head, tail, Load
    <2>4. QED
      BY <1>1, <2>2, <2>3
  <1>6. QED
    BY <1>2, <1>3, <1>4, <1>5 DEF Next, Done

LEMMA HandshakeIsEnough == HandshakeInv => NoLostWakeup
  <1> SUFFICES ASSUME HandshakeInv PROVE NoLostWakeup
    OBVIOUS
  <1> USE DEF HandshakeInv
  <1>1. /\ mem["tail"] \in Nat /\ tail \in Nat /\ mem["head"] \in Nat /\ head \in Nat
        /\ mem["tail"] <= tail /\ tail <= mem["head"] /\ mem["head"] <= head
    BY CursorOrder
  <1>2. ASSUME gpc = "asleep", mem["head"] # mem["tail"]
        PROVE  Writing \/ BehindWrap
    <2>1. tail = mem["tail"]
      BY <1>2, DataTypes, MemTypes DEF OnTheirWay, GSDirty, tail, Load, Threads, Locs, GSLoc
    <2>2. head # tail
      BY <1>1, <1>2, <2>1
    <2>3. \/ epc \in {"wake", "wakeRead", "wakeNotify"}
          \/ /\ WrapFrom(tail)
             /\ \/ epc \in {"room", "commit", "stall", "quiesce", "qNotify"}
                \/ why = "space" /\ epc \in WaitPc \cup {"lock", "unlock", "unlockExit"}
      BY <1>2, <2>2 DEF ParkInv
    <2>4. QED
      BY <2>3 DEF Writing, BehindWrap, WrapFrom, WaitPc, cur
  <1>3. ASSUME gpc = "asleep", mem["shutdown"] = 1
        PROVE  Writing
    BY <1>3 DEF LastWords, ParkInv, Writing
  <1>4. ASSUME EECanGoOn
        PROVE  gpc \in {"notify", "notifyRead", "notifyOne", "lastNotify", "failed", "failNotify"}
                 \cup IF why = "space"
                      THEN {"record", "replay", "present", "advance", "roomMade", "batchEnd"} ELSE {}
    <2>1. CASE epc = "qAsleep"
      <3>1. gpc \in LeavePc /\ gpc \notin {"leaving", "gone"}
        BY <1>4, <2>1 DEF EECanGoOn, LastWords, SleepInv
      <3>2. QED
        BY <3>1 DEF LeavePc
    <2>2. CASE epc # "qAsleep"
      <3>1. epc = "asleep" /\ HasHappened
        BY <1>4, <2>2 DEF EECanGoOn, HasHappened
      <3>2. QED
        BY <3>1 DEF SleepInv, NotifyPc, Batch
    <2>3. QED
      BY <2>1, <2>2
  <1>5. QED
    BY <1>2, <1>3, <1>4 DEF NoLostWakeup

\* No wakeup is lost (gs_threaded.cpp:89): whichever way the stores of the two
\* threads are delayed, a thread that sleeps on what has already happened is
\* about to be notified, but for the one behind a Wrap record.
THEOREM NoLostWakeupCorrect == Spec => []NoLostWakeup
  BY HandshakeInit, HandshakeNext, HandshakeIsEnough, PTL DEF Spec

-----------------------------------------------------------------------------
(* What lies in the ring *)

\* The worker has counted the record at its tail, and has answered it.
Within  == InRecord \/ gpc \in {"failed", "failNotify", "leaving"}
Handled == \/ gpc \in {"present", "advance"}
           \/ gpc \in NotifyPc /\ back \in {"present", "advance"}

\* The record that starts at position b.
RecordAt(b) == buf[b % Cap]

\* B: where the records between the worker's tail and the EE's head start, and
\* the head. A record lies in one piece, and its units hold it.
Layout(B) ==
  /\ B \subseteq tail..head /\ {tail, upto, mem["head"], head} \subseteq B
  /\ \A i \in DOMAIN sb["ee"] : sb["ee"][i].loc = "head" => sb["ee"][i].val \in B
  /\ \A b \in B \ {head} :
       /\ b + RecordAt(b).size \in B
       /\ \A c \in B : b < c => b + RecordAt(b).size <= c
       /\ RecordAt(b).kind # "wrap" =>
            \A u \in 0..(RecordAt(b).size - 1) : buf[(b + u) % Cap] = RecordAt(b)
  /\ epc = "commit" => \A u \in 0..(rec.size - 1) : buf[(head + u) % Cap] = rec
  /\ rec.kind # "wrap" /\ (Within => tail < head)

\* The EE is on its way to write the record, or has committed it.
Fresh   == \/ epc \in {"room", "commit", "stall"}
           \/ why = "space" /\ epc \in WaitPc \cup {"lock", "unlock"}
Settled == \/ epc \in {"wake", "wakeRead", "wakeNotify", "after", "reply", "boundary", "idle"}
           \/ why # "space" /\ epc \in WaitPc \cup {"lock", "unlock"}

\* f numbers the positions of S from lo to hi, in their order.
Chain(S, f, lo, hi) ==
  /\ \A b \in S : f[b] \in lo..hi
  /\ \A b, c \in S : b < c => f[b] < f[c]
  /\ \A k \in lo..hi : \E b \in S : f[b] = k

\* The calls not yet begun, the fields not yet done and the calls not yet answered.
ToBegin(B)  == {b \in B \ {head} : RecordAt(b).kind # "wrap" /\ ~ (b = tail /\ Within)}
ToScan(B)   == {b \in B \ {head} : RecordAt(b).kind = "vsync" /\ ~ (b = tail /\ Handled)}
ToAnswer(B) == {b \in B \ {head} : RecordAt(b).kind = "call" /\ ~ (b = tail /\ Handled)}

\* The calls wait with consecutive numbers, up to the last one committed.
Numbered(B, n) ==
  /\ ran <= n /\ Chain(ToBegin(B), [b \in ToBegin(B) |-> RecordAt(b).id], ran + 1, n)
  /\ Within /\ cur.kind # "wrap" => cur.id = ran
  /\ Fresh => n = rec.id - 1
  /\ Settled => n = rec.id

\* So do the fields.
Scanned(B, n) ==
  /\ vseen <= n /\ Chain(ToScan(B), [b \in ToScan(B) |-> RecordAt(b).arg], vseen + 1, n)
  /\ rec.kind = "vsync" => rec.arg = vseq
  /\ Fresh /\ rec.kind = "vsync" => n = vseq - 1
  /\ Settled \/ rec.kind # "vsync" => n = vseq

\* No wait is another call's, and a field lags behind the EE by one at most.
KindOK ==
  /\ epc \in WaitPc \cup {"lock", "unlock"} =>
       (why = "field" => rec.kind = "vsync") /\ (why = "reply" => rec.kind = "call")
  /\ epc = "reply" => rec.kind = "call"
  /\ epc = "boundary" => rec.kind = "vsync"
FieldOK ==
  /\ Rising(sb["gs"], mem, "vsync_done") /\ Load("gs", "vsync_done") = vseen
  /\ \/ rec.kind # "vsync" \/ epc = "idle"
     \/ ~ Closed /\ (epc = "boundary" \/ (epc = "unlock" /\ why = "field"))
     => vseen >= vseq - 1

\* The reply on its way is to the last call, its number the last store.
ReplyOnWay ==
  Has(sb["gs"], "reply_seq") \/ Has(sb["gs"], "reply_value") =>
    /\ gpc = "notify" /\ back = "advance" /\ cur = rec /\ rec.kind = "call"
    /\ Has(sb["gs"], "reply_seq") /\ mem["reply_seq"] < cseq
    /\ Load("gs", "reply_seq") = cseq /\ Load("gs", "reply_value") = rec.id
    /\ \A i \in DOMAIN sb["gs"] : sb["gs"][i].loc = "reply_seq" => i = Len(sb["gs"]) /\ sb["gs"][i].val = cseq

\* One call at a time is unanswered, and its answer is in the slot when its
\* number is.
ReplyOK ==
  /\ rec.kind = "call" => rec.arg = cseq
  /\ mem["reply_seq"] <= cseq /\ Load("gs", "reply_seq") <= cseq
  /\ Fresh /\ rec.kind = "call" => Load("gs", "reply_seq") < cseq
  /\ rec.kind = "call" /\ mem["reply_seq"] = cseq => mem["reply_value"] = rec.id
  /\ \/ epc = "reply" \/ (epc = "unlock" /\ why = "reply")
     \/ (epc = "idle" /\ rec.kind = "call")
     => mem["reply_seq"] = cseq
  /\ epc = "idle" /\ rec.kind = "call" => got = rec.id

Unanswered(B) ==
  \A b \in ToAnswer(B) : RecordAt(b) = rec /\ Load("gs", "reply_seq") < cseq

NoFault == fault \notin {"order", "overtaken", "corrupt"}

RingInv ==
  /\ KindOK /\ FieldOK /\ ReplyOnWay /\ ReplyOK /\ NoFault
  /\ \E B \in SUBSET (tail..head) :
       /\ Layout(B) /\ Unanswered(B)
       /\ \E n \in {rec.id - 1, rec.id} : Numbered(B, n)
       /\ \E n \in {vseq - 1, vseq} : Scanned(B, n)

-----------------------------------------------------------------------------
(* Numbering *)

LEMMA ChainSame ==
  ASSUME NEW S, NEW f, NEW g, NEW lo, NEW hi, Chain(S, f, lo, hi), \A b \in S : g[b] = f[b]
  PROVE  Chain(S, g, lo, hi)
  BY DEF Chain

\* The next number goes to the next position.
LEMMA ChainGrows ==
  ASSUME NEW S \in SUBSET Nat, NEW x \in Nat, \A b \in S : b < x,
         NEW lo \in Int, NEW hi \in Int, lo <= hi + 1, NEW f, NEW g, Chain(S, f, lo, hi),
         \A b \in S : g[b] = f[b], g[x] = hi + 1
  PROVE  Chain(S \cup {x}, g, lo, hi + 1)
  <1>1. \A b \in S : g[b] \in lo..hi
    BY DEF Chain
  <1>2. \A b \in S \cup {x} : g[b] \in lo..(hi + 1)
    BY <1>1
  <1>3. ASSUME NEW b \in S \cup {x}, NEW c \in S \cup {x}, b < c PROVE g[b] < g[c]
    <2>1. b \in S
      BY <1>3
    <2>2. CASE c = x
      BY <1>1, <2>1, <2>2
    <2>3. CASE c \in S
      BY <1>3, <2>1, <2>3 DEF Chain
    <2>4. QED
      BY <2>2, <2>3
  <1>4. ASSUME NEW k \in lo..(hi + 1) PROVE \E b \in S \cup {x} : g[b] = k
    <2>1. CASE k = hi + 1
      BY <2>1
    <2>2. CASE k \in lo..hi
      BY <2>2 DEF Chain
    <2>3. QED
      BY <2>1, <2>2
  <1>5. QED
    BY <1>2, <1>3, <1>4 DEF Chain

\* The first position has the first number.
LEMMA ChainSheds ==
  ASSUME NEW S \in SUBSET Nat, NEW x \in S, \A b \in S : x <= b,
         NEW lo \in Int, NEW hi \in Int, NEW f, NEW g, Chain(S, f, lo, hi),
         \A b \in S \ {x} : g[b] = f[b]
  PROVE  f[x] = lo /\ Chain(S \ {x}, g, lo + 1, hi)
  <1>1. /\ \A b \in S : f[b] \in lo..hi
        /\ \A b \in S \ {x} : f[x] < f[b]
    <2>1. ASSUME NEW b \in S \ {x} PROVE x < b
      <3>1. b \in Nat /\ x \in Nat /\ x <= b /\ x # b
        OBVIOUS
      <3>2. QED
        BY <3>1
    <2>2. QED
      BY <2>1 DEF Chain
  <1>2. f[x] = lo
    <2>1. lo \in lo..hi
      BY <1>1
    <2>2. PICK b \in S : f[b] = lo
      BY <2>1 DEF Chain
    <2>3. QED
      BY <1>1, <2>2
  <1>3. \A b \in S \ {x} : g[b] \in (lo + 1)..hi
    BY <1>1, <1>2
  <1>4. \A b, c \in S \ {x} : b < c => g[b] < g[c]
    BY DEF Chain
  <1>5. ASSUME NEW k \in (lo + 1)..hi PROVE \E b \in S \ {x} : g[b] = k
    <2>1. k \in lo..hi /\ k # lo
      OBVIOUS
    <2>2. PICK b \in S : f[b] = k
      BY <2>1 DEF Chain
    <2>3. QED
      BY <1>2, <2>1, <2>2
  <1>6. QED
    BY <1>2, <1>3, <1>4, <1>5 DEF Chain

-----------------------------------------------------------------------------
(* What the worker's and the EE's places mean after a step *)

LEMMA PlacesEE ==
  ASSUME TypeOK, EENext
  PROVE  /\ Within' = Within /\ Handled' = Handled
         /\ \A loc \in GSLoc : Load("gs", loc)' = Load("gs", loc)
  <1>1. /\ mem' = mem /\ sb'["gs"] = sb["gs"] /\ back' = back
        /\ gpc' = gpc \/ (gpc = "asleep" /\ gpc' = "awake")
    BY EEFrame
  <1>2. Within' = Within /\ Handled' = Handled
    BY <1>1 DEF Within, Handled, InRecord, NotifyPc
  <1>3. QED
    BY <1>1, <1>2 DEF Load

LEMMA PlacesGS ==
  ASSUME TypeOK, BackOK, GSNext
  PROVE  /\ ~ NextRecord /\ ~ Advance => Within' = Within
         /\ NextRecord => ~ Within
         /\ Advance => Within /\ ~ Within' /\ ~ Handled'
         /\ ~ NextRecord => ran' = ran
         /\ ~ NextRecord /\ ~ ReplayData /\ ~ ReplayVsync /\ ~ ReplayCall /\ ~ Advance =>
              Handled' = Handled
         /\ NextRecord \/ ReplayData \/ ReplayVsync \/ ReplayCall => ~ Handled
         /\ Advance => Handled
         /\ ReplayData \/ ReplayVsync \/ ReplayCall => Within
         /\ ReplayCall => Handled' /\ vseen' = vseen
         /\ ~ ReplayVsync => vseen' = vseen
         /\ ~ DrainStart => upto' = upto
         /\ sampled' = sampled
  <1> USE DEF Within, Handled, InRecord, NotifyPc, BackOK, GSOnly, gsVars, winVars
  <1>1. CASE DrainStart \/ DrainEnd
    BY <1>1 DEF DrainStart, DrainEnd, NextRecord, ReplayData, ReplayVsync, ReplayCall, Advance
  <1>2. CASE NextRecord
    BY <1>2 DEF DrainStart, NextRecord, ReplayData, ReplayVsync, ReplayCall, Advance
  <1>3. CASE ReplayData \/ ReplayVsync \/ ReplayCall
    BY <1>3 DEF DrainStart, NextRecord, ReplayData, ReplayVsync, ReplayCall, Advance
  <1>4. CASE InnerFatal \/ Present \/ Advance
    BY <1>4 DEF DrainStart, NextRecord, ReplayData, ReplayVsync, ReplayCall, Advance, InnerFatal,
                Present
  <1>5. CASE CheckSpaceWaiting \/ NotifyFence \/ NotifyRead \/ NotifyProducer
    BY <1>5 DEF DrainStart, NextRecord, ReplayData, ReplayVsync, ReplayCall, Advance,
                CheckSpaceWaiting, NotifyFence, NotifyRead, NotifyProducer
  <1>6. CASE ParkOrStop \/ Park \/ ParkFence \/ StayParked \/ SleepGS \/ TimeoutGS \/ WakeUp
    BY <1>6 DEF DrainStart, NextRecord, ReplayData, ReplayVsync, ReplayCall, Advance,
                ParkOrStop, Park, ParkFence, StayParked, SleepGS, TimeoutGS, WakeUp
  <1>7. CASE RepeatDue \/ RepeatUnlock \/ RepeatPresent \/ Unpark \/ UnparkUnlock \/ Stop
             \/ LastNotify \/ ProcessEnds
    BY <1>7 DEF DrainStart, NextRecord, ReplayData, ReplayVsync, ReplayCall, Advance,
                RepeatDue, RepeatUnlock, RepeatPresent, Unpark, UnparkUnlock, Stop, LastNotify,
                ProcessEnds
  <1>8. QED
    BY <1>1, <1>2, <1>3, <1>4, <1>5, <1>6, <1>7 DEF GSNext

\* The EE's record stays fresh until it is committed, and settled until the next.
LEMMA FreshEE ==
  ASSUME TypeOK, CursorsOK, EENext, rec.kind # "wrap"
  PROVE  /\ Commit => /\ Fresh /\ ~ Fresh' /\ Settled' /\ epc' = "wake"
         /\ epc # "idle" => rec' = rec /\ vseq' = vseq /\ cseq' = cseq
         /\ epc # "idle" /\ ~ Commit => (Fresh' => Fresh) /\ (Settled' => Settled)
         /\ epc = "idle" => Settled /\ ~ Settled'
  <1>1. epc = "idle" => Settled /\ ~ Fresh
    BY DEF Settled, Fresh, WaitPc
  <1> DEFINE Kept == /\ rec' = rec /\ vseq' = vseq /\ cseq' = cseq
                     /\ Fresh' => Fresh
                     /\ Settled' => Settled
  <1> USE DEF Fresh, Settled, WaitPc, EEOnly, eeVars
  <1>2. CASE \E kind \in Kind \ {"wrap"}, size \in Sizes \cup {1} : Call(kind, size)
    BY <1>1, <1>2 DEF Call, Commit
  <1>3. CASE Commit
    BY <1>3 DEF Commit
  <1>4. ASSUME WriteWrap \/ WriteRecord \/ WakeFence \/ WakeRead \/ Stall
        PROVE  Kept /\ epc # "idle"
    BY <1>4 DEF WriteWrap, WriteRecord, WakeFence, WakeRead, Stall
  <1>5. ASSUME WakeNotify \/ NotifyShutdown PROVE Kept /\ epc # "idle"
    BY <1>5 DEF WakeNotify, NotifyShutdown
  <1>6. ASSUME Committed PROVE Kept /\ epc # "idle"
    <2>1. rec.kind \in {"data", "vsync", "call"}
      BY DataTypes DEF Record, Kind
    <2>2. epc = "after" /\ epc' = After(rec.kind) /\ UNCHANGED <<rec, vseq, cseq>>
      BY <1>6 DEF Committed
    <2>3. CASE rec.kind = "data"
      BY <2>2, <2>3 DEF After
    <2>4. CASE rec.kind = "vsync"
      <3>1. why' = "field" /\ epc' \in {"boundary", "lock"}
        BY <1>6, <2>2, <2>4 DEF Committed, After
      <3>2. QED
        BY <2>2, <3>1
    <2>5. CASE rec.kind = "call"
      <3>1. why' = "reply" /\ epc' = "lock"
        BY <1>6, <2>2, <2>5 DEF Committed, After
      <3>2. QED
        BY <2>2, <3>1
    <2>6. QED
      BY <2>1, <2>3, <2>4, <2>5
  <1>7. ASSUME RuleOutEmpty PROVE Kept /\ epc # "idle"
    BY <1>7 DEF RuleOutEmpty, CursorsOK
  <1>8. ASSUME LockAndFlag \/ WaitFence \/ EndWait \/ GiveUp \/ StillWaiting \/ SleepEE
               \/ TimeoutEE \/ Pump \/ Relock
        PROVE  Kept /\ epc # "idle"
    BY <1>8 DEF LockAndFlag, WaitFence, EndWait, GiveUp, StillWaiting, SleepEE, TimeoutEE, Pump,
                Relock
  <1>9. ASSUME LeaveWait PROVE Kept /\ epc # "idle"
    BY <1>9, DataTypes DEF LeaveWait, Resume, PcOK
  <1>10. ASSUME TakeReply \/ Boundary PROVE Kept /\ epc # "idle"
    BY <1>10 DEF TakeReply, Boundary
  <1>11. CASE Exit
    BY <1>1, <1>11 DEF Exit, Commit
  <1>12. ASSUME RaiseShutdown \/ QuiesceTest \/ Abandon \/ QuiesceFlag \/ QuiesceSleep
                \/ QuiesceTimeout \/ QuiesceWake \/ QuiesceUnflag \/ QuiesceUnlock \/ Join
         PROVE  Kept /\ epc # "idle"
    BY <1>12 DEF RaiseShutdown, QuiesceTest, Abandon, QuiesceFlag, QuiesceSleep, QuiesceTimeout,
                 QuiesceWake, QuiesceUnflag, QuiesceUnlock, Join
  <1> HIDE DEF Fresh, Settled, Kept
  <1>13. Kept /\ epc # "idle" =>
           /\ Commit => /\ Fresh /\ ~ Fresh' /\ Settled' /\ epc' = "wake"
           /\ epc # "idle" => rec' = rec /\ vseq' = vseq /\ cseq' = cseq
           /\ epc # "idle" /\ ~ Commit => (Fresh' => Fresh) /\ (Settled' => Settled)
           /\ epc = "idle" => Settled /\ ~ Settled'
    <2>1. CASE Commit
      BY <1>3, <2>1 DEF Kept
    <2>2. CASE ~ Commit
      BY <2>2 DEF Kept
    <2>3. QED
      BY <2>1, <2>2
  <1>14. QED
    BY <1>2, <1>3, <1>4, <1>5, <1>6, <1>7, <1>8, <1>9, <1>10, <1>11, <1>12, <1>13 DEF EENext

\* Between two calls the EE starts one or leaves.
LEMMA IdleEE ==
  ASSUME EENext, epc = "idle"
  PROVE  Exit \/ \E kind \in Kind \ {"wrap"}, size \in Sizes \cup {1} : Call(kind, size)
  BY DEF EENext, WriteWrap, WriteRecord, Commit, WakeFence, WakeRead, WakeNotify,
     Committed, Stall, RuleOutEmpty, LockAndFlag, WaitFence, EndWait, GiveUp,
     LeaveWait, StillWaiting, SleepEE, TimeoutEE, Pump, Relock, TakeReply, Boundary,
     RaiseShutdown, NotifyShutdown, QuiesceTest, Abandon, QuiesceFlag, QuiesceSleep,
     QuiesceTimeout, QuiesceWake, QuiesceUnflag, QuiesceUnlock, Join

\* A wait changes the EE's place but not what is committed.
LEMMA FreshGS ==
  ASSUME TypeOK, GSNext
  PROVE  /\ Fresh' => Fresh
         /\ Settled' => Settled
  BY GSFrame DEF Fresh, Settled, WaitPc

-----------------------------------------------------------------------------
(* The layout of the ring *)

\* What a list of stores holds after one more.
LEMMA StoresAfter ==
  ASSUME TypeOK, NEW t \in Threads, NEW loc \in Locs, NEW v \in Nat, Stored(t, loc, v)
  PROVE  /\ sb[t] \in Stores /\ DOMAIN sb[t] = 1..Len(sb[t]) /\ Len(sb[t]) \in Nat
         /\ DOMAIN sb'[t] = 1..(Len(sb[t]) + 1) /\ Len(sb'[t]) = Len(sb[t]) + 1
         /\ sb'[t][Len(sb[t]) + 1] = [loc |-> loc, val |-> v]
         /\ \A i \in 1..Len(sb[t]) : sb'[t][i] = sb[t][i]
  <1> DEFINE s == [loc |-> loc, val |-> v]
             q == sb[t]
  <1>1. q \in Stores /\ s \in StoreType /\ sb'[t] = Append(q, s)
    BY DataTypes, MemTypes DEF Stored, StoreType
  <1> HIDE DEF s
  <1>2. QED
    BY <1>1 DEF Stores, s

\* The positions of a layout are naturals, and a record ends before the next.
LEMMA LayoutTypes ==
  ASSUME TypeOK, CursorsOK, NEW B, Layout(B)
  PROVE  /\ B \in SUBSET Nat /\ tail \in B /\ head \in B /\ upto \in B /\ mem["head"] \in B
         /\ \A b \in B : tail <= b /\ b <= head
         /\ \A b \in B \ {head} :
              /\ tail <= b /\ b < head /\ RecordAt(b) \in Record
              /\ b + RecordAt(b).size <= head /\ RecordAt(b).size \in 1..Cap
  <1>1. tail \in Nat /\ head \in Nat /\ B \subseteq tail..head
    BY CursorOrder DEF Layout
  <1>2. B \in SUBSET Nat /\ \A b \in B : tail <= b /\ b <= head
    BY <1>1
  <1>3. {tail, upto, mem["head"], head} \subseteq B
    BY DEF Layout
  <1>4. ASSUME NEW b \in B \ {head}
        PROVE  /\ tail <= b /\ b < head /\ RecordAt(b) \in Record
               /\ b + RecordAt(b).size <= head /\ RecordAt(b).size \in 1..Cap
    <2>1. b \in Nat /\ b < head /\ tail <= b
      BY <1>1, <1>2
    <2>2. b % Cap \in Offset
      BY <2>1, CapAssumption, Division DEF Offset
    <2>3. RecordAt(b) \in Record
      BY <2>2, DataTypes DEF RecordAt, DataOK
    <2>4. b + RecordAt(b).size \in B
      BY DEF Layout
    <2>5. QED
      BY <1>2, <2>1, <2>3, <2>4 DEF Record
  <1>5. QED
    BY <1>2, <1>3, <1>4

\* The units of the records before the head are the worker's: the EE leaves them alone.
LEMMA RecordsKept ==
  ASSUME TypeOK, CursorsOK, EENext, NEW B, Layout(B)
  PROVE  \A b \in B \ {head} :
           /\ RecordAt(b)' = RecordAt(b)
           /\ \A u \in 0..(RecordAt(b).size - 1) : buf'[(b + u) % Cap] = buf[(b + u) % Cap]
  <1> TAKE b \in B \ {head}
  <1>1. /\ b \in Nat /\ tail <= b /\ b < head /\ b + RecordAt(b).size <= head
        /\ RecordAt(b).size \in 1..Cap /\ tail \in Nat /\ head \in Nat
    BY LayoutTypes, CursorOrder
  <1>2. ASSUME NEW u \in 0..(RecordAt(b).size - 1)
        PROVE  buf'[(b + u) % Cap] = buf[(b + u) % Cap]
    <2>1. b + u \in Nat /\ tail <= b + u /\ b + u < head
      BY <1>1
    <2>2. QED
      BY <2>1, UnitsKept
  <1>3. buf'[b % Cap] = buf[b % Cap]
    BY <1>1, UnitsKept
  <1>4. QED
    BY <1>2, <1>3 DEF RecordAt

\* No step of the EE writes a Wrap through its own record.
LEMMA RecordIsACall ==
  ASSUME TypeOK, EENext, rec.kind # "wrap"
  PROVE  rec'.kind # "wrap" /\ (epc' = "commit" => WriteRecord)
  <1>1. CASE \E kind \in Kind \ {"wrap"}, size \in Sizes \cup {1} : Call(kind, size)
    BY <1>1 DEF Call, EEOnly
  <1>2. CASE ~ \E kind \in Kind \ {"wrap"}, size \in Sizes \cup {1} : Call(kind, size)
    <2>1. rec' = rec
      BY <1>2 DEF EENext, WriteWrap, WriteRecord, Commit, WakeFence, WakeRead, WakeNotify,
         Committed, Stall, RuleOutEmpty, LockAndFlag, WaitFence, EndWait, GiveUp,
         LeaveWait, StillWaiting, SleepEE, TimeoutEE, Pump, Relock, TakeReply, Boundary, Exit,
         RaiseShutdown, NotifyShutdown, QuiesceTest, Abandon, QuiesceFlag, QuiesceSleep,
         QuiesceTimeout, QuiesceWake, QuiesceUnflag, QuiesceUnlock, Join, eeVars, EEOnly
    <2>2. ~ Committed /\ ~ LeaveWait /\ ~ WriteRecord => epc' # "commit"
      BY <1>2 DEF EENext, WriteWrap, Commit, WakeFence, WakeRead, WakeNotify,
         Stall, RuleOutEmpty, LockAndFlag, WaitFence, EndWait, GiveUp,
         StillWaiting, SleepEE, TimeoutEE, Pump, Relock, TakeReply, Boundary, Exit,
         RaiseShutdown, NotifyShutdown, QuiesceTest, Abandon, QuiesceFlag, QuiesceSleep,
         QuiesceTimeout, QuiesceWake, QuiesceUnflag, QuiesceUnlock, Join, EEOnly
    <2>3. Committed => epc' # "commit"
      BY DEF Committed, After, EEOnly
    <2>4. LeaveWait => epc' # "commit"
      BY DataTypes DEF LeaveWait, Resume, EEOnly, PcOK
    <2>5. QED
      BY <2>1, <2>2, <2>3, <2>4
  <1>3. QED
    BY <1>1, <1>2

\* A step that publishes no head keeps the layout.
LEMMA LayoutSame ==
  ASSUME TypeOK, CursorsOK, EENext, ~ WriteWrap, ~ Commit, NEW B, Layout(B)
  PROVE  Layout(B)'
  <1>1. /\ mem' = mem /\ tail' = tail /\ upto' = upto /\ head' = head /\ Within' = Within
        /\ rec'.kind # "wrap" /\ (epc' = "commit" => WriteRecord)
    BY EEFrame, HeadKept, PlacesEE, RecordIsACall DEF Layout
  <1>2. \A i \in DOMAIN sb'["ee"] : sb'["ee"][i].loc = "head" => sb'["ee"][i].val \in B
    BY HeadStoresKept DEF Layout
  <1>3. \A b \in B \ {head} :
          /\ b + RecordAt(b)'.size \in B
          /\ \A c \in B : b < c => b + RecordAt(b)'.size <= c
          /\ RecordAt(b)'.kind # "wrap" =>
               \A u \in 0..(RecordAt(b)'.size - 1) : buf'[(b + u) % Cap] = RecordAt(b)'
    BY RecordsKept DEF Layout
  <1>4. epc' = "commit" => \A u \in 0..(rec'.size - 1) : buf'[(head + u) % Cap] = rec'
    <2>1. SUFFICES ASSUME WriteRecord, NEW u \in 0..(rec.size - 1)
                   PROVE  buf'[(head + u) % Cap] = rec
      BY <1>1 DEF WriteRecord, eeVars
    <2>2. /\ head \in Nat /\ rec.size \in 1..Cap /\ rec.size <= Cap - (head % Cap)
          /\ head % Cap \in Nat /\ u \in Nat
      BY <2>1, DataTypes DEF WriteRecord
    <2>3. (head % Cap) + u < Cap
      BY <2>2, CapType
    <2>4. (head + u) % Cap = (head % Cap) + u
      BY <2>2, <2>3, ModNear, CapAssumption
    <2>5. (head % Cap) + u \in Offset /\ (head % Cap) + u \in (head % Cap)..((head % Cap) + rec.size - 1)
      BY <2>2, <2>3, CapType DEF Offset
    <2>6. QED
      BY <2>1, <2>4, <2>5 DEF WriteRecord
  <1>5. QED
    BY <1>1, <1>2, <1>3, <1>4 DEF Layout

\* One that publishes a head adds it, behind the record that starts at the old one.
LEMMA LayoutGrows ==
  ASSUME TypeOK, CursorsOK, EENext, NEW B, Layout(B),
         NEW h, h = head, NEW k \in Nat, k = head', h < k, Stored("ee", "head", k),
         rec' = rec, epc' # "commit", h + buf'[h % Cap].size = k,
         buf'[h % Cap].kind # "wrap" =>
           \A u \in 0..(buf'[h % Cap].size - 1) : buf'[(h + u) % Cap] = buf'[h % Cap]
  PROVE  Layout(B \cup {k})'
  <1> DEFINE C == B \cup {k}
  <1>1. /\ mem' = mem /\ tail' = tail /\ upto' = upto /\ Within' = Within /\ rec' = rec
        /\ tail \in Nat /\ h \in Nat /\ tail <= h
    BY EEFrame, PlacesEE, CursorOrder
  <1>2. B \in SUBSET Nat /\ h \in B /\ \A b \in B : tail <= b /\ b <= h
    BY LayoutTypes
  <1>3. C \subseteq tail..k /\ {tail, upto, mem["head"], k} \subseteq C
    <2>1. C \subseteq tail..k
      BY <1>1, <1>2
    <2>2. QED
      BY <2>1 DEF Layout
  <1>4. \A i \in DOMAIN sb'["ee"] : sb'["ee"][i].loc = "head" => sb'["ee"][i].val \in C
    <2>1. /\ DOMAIN sb["ee"] = 1..Len(sb["ee"]) /\ Len(sb["ee"]) \in Nat
          /\ DOMAIN sb'["ee"] = 1..(Len(sb["ee"]) + 1)
          /\ sb'["ee"][Len(sb["ee"]) + 1] = [loc |-> "head", val |-> k]
          /\ \A i \in 1..Len(sb["ee"]) : sb'["ee"][i] = sb["ee"][i]
      BY StoresAfter DEF Threads, Locs, EELoc
    <2>2. QED
      BY <2>1 DEF Layout
  <1>5. ASSUME NEW b \in C \ {k}
        PROVE  /\ b + RecordAt(b)'.size \in C
               /\ \A c \in C : b < c => b + RecordAt(b)'.size <= c
               /\ RecordAt(b)'.kind # "wrap" =>
                    \A u \in 0..(RecordAt(b)'.size - 1) : buf'[(b + u) % Cap] = RecordAt(b)'
    <2>1. CASE b = h
      <3>1. RecordAt(b)' = buf'[h % Cap]
        BY <2>1 DEF RecordAt
      <3>2. \A c \in C : h < c => c = k
        BY <1>1, <1>2
      <3>3. QED
        BY <2>1, <3>1, <3>2
    <2>2. CASE b \in B \ {h}
      <3>1. /\ RecordAt(b)' = RecordAt(b) /\ b + RecordAt(b).size <= h
            /\ RecordAt(b).size \in 1..Cap /\ b \in Nat
            /\ \A u \in 0..(RecordAt(b).size - 1) : buf'[(b + u) % Cap] = buf[(b + u) % Cap]
        BY <1>2, <2>2, RecordsKept, LayoutTypes
      <3>2. b + RecordAt(b).size <= k
        BY <1>1, <3>1
      <3>3. QED
        BY <2>2, <3>1, <3>2 DEF Layout
    <2>3. QED
      BY <2>1, <2>2
  <1>6. rec'.kind # "wrap" /\ (Within' => tail' < k)
    BY <1>1 DEF Layout
  <1> HIDE DEF C
  <1>7. Layout(C)'
    BY <1>1, <1>3, <1>4, <1>5, <1>6 DEF Layout
  <1>8. QED
    BY <1>7 DEF C

\* The step takes the head from h to k: a Wrap is one record to the end of the
\* buffer, and a commit publishes the record written.
Publishes(h, k) ==
  /\ h = head /\ k = head' /\ h <= k /\ (h < k <=> WriteWrap \/ Commit)
  /\ WriteWrap => RecordAt(h)'.kind = "wrap"
  /\ Commit => RecordAt(h)' = rec

LEMMA LayoutEE ==
  ASSUME TypeOK, CursorsOK, EENext, NEW B, Layout(B)
  PROVE  \E h, k \in Nat : Publishes(h, k) /\ Layout(B \cup {k})'
  <1>0. PICK h : h = head
    OBVIOUS
  <1>1. h \in Nat /\ tail \in Nat /\ h \in B
    BY <1>0, CursorOrder, LayoutTypes
  <1>2. CASE WriteWrap
    <2>1. PICK k : k = h + ToEnd
      OBVIOUS
    <2>2. /\ buf'[h % Cap] = Wrap(ToEnd) /\ k = head' /\ Wrap(ToEnd).kind = "wrap"
          /\ Wrap(ToEnd).size = ToEnd /\ ToEnd \in 1..Cap
      BY <1>0, <1>2, <2>1, WrapWritten
    <2>3. k \in Nat /\ h < k
      BY <1>1, <2>1, <2>2
    <2>4. Stored("ee", "head", k) /\ rec' = rec /\ epc' # "commit"
      BY <1>0, <1>2, <2>1, EEStores DEF WriteWrap, EEOnly, eeVars
    <2>5. h + buf'[h % Cap].size = k /\ buf'[h % Cap].kind = "wrap"
      BY <2>1, <2>2
    <2>6. Layout(B \cup {k})'
      BY <2>2, <2>3, <2>4, <2>5, <1>0, LayoutGrows
    <2>7. RecordAt(h)'.kind = "wrap" /\ ~ Commit
      BY <1>2, <2>5 DEF RecordAt, WriteWrap, Commit
    <2>8. Publishes(h, k)
      BY <1>0, <1>1, <1>2, <2>2, <2>3, <2>7 DEF Publishes
    <2>9. QED
      BY <1>1, <2>3, <2>6, <2>8
  <1>3. CASE Commit
    <2>1. PICK k : k = h + rec.size
      OBVIOUS
    <2>2. Stored("ee", "head", k) /\ rec' = rec /\ epc = "commit" /\ epc' # "commit" /\ buf' = buf
      BY <1>0, <1>3, <2>1, EEStores DEF Commit, EEOnly, eeVars
    <2>3. rec.size \in 1..Cap /\ k \in Nat /\ h < k
      BY <1>1, <2>1, DataTypes
    <2>4. k = head'
      BY <2>2, <2>3 DEF Stored, head, Load, Locs, EELoc
    <2>5. \A u \in 0..(rec.size - 1) : buf'[(h + u) % Cap] = rec
      BY <1>0, <2>2 DEF Layout
    <2>6. buf'[h % Cap] = rec
      <3>1. 0 \in 0..(rec.size - 1) /\ h + 0 = h
        BY <1>1, <2>3
      <3>2. QED
        BY <2>5, <3>1
    <2>7. Layout(B \cup {k})'
      <3>1. h + buf'[h % Cap].size = k
        BY <2>1, <2>6
      <3>2. \A u \in 0..(buf'[h % Cap].size - 1) : buf'[(h + u) % Cap] = buf'[h % Cap]
        BY <2>5, <2>6
      <3>3. QED
        BY <2>2, <2>3, <2>4, <3>1, <3>2, <1>0, LayoutGrows
    <2>8. RecordAt(h)' = rec /\ ~ WriteWrap
      BY <1>3, <2>6 DEF RecordAt, WriteWrap, Commit
    <2>9. Publishes(h, k)
      BY <1>0, <1>1, <1>3, <2>3, <2>4, <2>8 DEF Publishes
    <2>10. QED
      BY <1>1, <2>3, <2>7, <2>9
  <1>4. CASE ~ WriteWrap /\ ~ Commit
    <2>1. Layout(B)' /\ h = head' /\ B \cup {h} = B
      BY <1>0, <1>1, <1>4, LayoutSame, HeadKept
    <2>2. Publishes(h, h)
      BY <1>0, <1>1, <1>4, <2>1 DEF Publishes
    <2>3. QED
      BY <1>1, <2>1, <2>2
  <1>5. QED
    BY <1>2, <1>3, <1>4

\* The worker's steps keep the layout until it steps over the record at its tail.
LEMMA LayoutGS ==
  ASSUME TypeOK, CursorsOK, BackOK, GSNext, ~ Advance, NEW B, Layout(B)
  PROVE  Layout(B)'
  <1>1. /\ mem' = mem /\ sb'["ee"] = sb["ee"] /\ head' = head /\ rec' = rec /\ buf' = buf
        /\ tail' = tail /\ (epc' = "commit" => epc = "commit")
    BY GSFrame, TailKept
  <1>2. /\ {tail, upto, mem["head"], head} \subseteq B /\ B \subseteq tail..head
        /\ Load("gs", "head") = mem["head"] /\ head \in Nat /\ tail \in Nat
    BY CursorOrder DEF Layout
  <1>3. upto' \in B
    BY <1>2, PlacesGS DEF DrainStart
  <1>4. Within' => tail < head
    <2>1. CASE NextRecord
      <3>1. tail # upto /\ upto \in tail..head
        BY <1>2, <2>1 DEF NextRecord
      <3>2. QED
        BY <1>2, <3>1
    <2>2. CASE ~ NextRecord
      BY <2>2, PlacesGS DEF Layout
    <2>3. QED
      BY <2>1, <2>2
  <1>5. \A b : RecordAt(b)' = RecordAt(b)
    BY <1>1 DEF RecordAt
  <1>6. QED
    BY <1>1, <1>3, <1>4, <1>5 DEF Layout

LEMMA LayoutAdvance ==
  ASSUME TypeOK, CursorsOK, BackOK, GSNext, Advance, NEW B, Layout(B), NEW t, t = tail
  PROVE  /\ Layout(B \ {t})'
         /\ t \in Nat /\ t < tail' /\ tail' = t + RecordAt(t).size /\ t < head /\ t \in B
         /\ \A b \in B \ {t} : tail' <= b
  <1> DEFINE C == B \ {t}
  <1>1. /\ mem' = mem /\ sb'["ee"] = sb["ee"] /\ head' = head /\ rec' = rec /\ buf' = buf
        /\ (epc' = "commit" => epc = "commit") /\ upto' = upto /\ ~ Within'
    BY GSFrame, PlacesGS DEF Advance, DrainStart
  <1>2. /\ {t, upto, mem["head"], head} \subseteq B /\ B \in SUBSET Nat /\ t < head
        /\ head \in Nat /\ t \in Nat /\ mem["head"] \in Nat /\ upto <= mem["head"]
        /\ \A b \in B : t <= b /\ b <= head
    <2>1. Within
      BY PlacesGS
    <2>2. QED
      BY <2>1, LayoutTypes, CursorOrder DEF Layout, CursorsOK
  <1>3. cur = RecordAt(t) /\ cur.size \in 1..Cap /\ t + cur.size <= upto
    BY DataTypes DEF RecordAt, cur, CursorsOK, InRecord, Advance
  <1>4. tail' = t + cur.size
    <2>1. Stored("gs", "tail", tail + cur.size) /\ mem' = mem
      BY GSStores DEF Stored
    <2>2. QED
      BY <2>1 DEF Stored, Locs, GSLoc, tail, Load
  <1>5. tail' \in Nat /\ t < tail' /\ tail' <= upto /\ t < upto /\ t < mem["head"]
    <2>1. upto \in Nat
      BY <1>2
    <2>2. QED
      BY <1>2, <1>3, <1>4, <2>1
  <1>6. ASSUME NEW b \in C PROVE tail' <= b /\ b <= head
    <2>1. b \in B /\ b \in Nat /\ t < b /\ b <= head
      BY <1>2
    <2>2. t \in B \ {head}
      BY <1>2
    <2>3. QED
      BY <1>3, <1>4, <2>1, <2>2 DEF Layout
  <1>7. tail' \in B
    <2>1. t \in B \ {head}
      BY <1>2
    <2>2. QED
      BY <1>3, <1>4, <2>1 DEF Layout
  <1>8. {tail', upto', mem'["head"], head'} \subseteq C /\ C \subseteq tail'..head'
    <2>1. upto # t /\ mem["head"] # t /\ head # t /\ tail' # t
      <3>1. upto \in Nat
        BY <1>2
      <3>2. QED
        BY <1>2, <1>5, <3>1
    <2>2. C \subseteq tail'..head
      BY <1>2, <1>5, <1>6
    <2>3. QED
      BY <1>1, <1>2, <1>7, <2>1, <2>2
  <1>9. \A i \in DOMAIN sb'["ee"] : sb'["ee"][i].loc = "head" => sb'["ee"][i].val \in C
    <2>1. \A i \in DOMAIN sb["ee"] : sb["ee"][i].loc = "head" =>
            sb["ee"][i].val \in B /\ mem["head"] <= sb["ee"][i].val
      BY DEF Layout, CursorsOK, Rising
    <2>2. ASSUME NEW v \in B, mem["head"] <= v PROVE v # t
      <3>1. v \in Nat
        BY <1>2
      <3>2. QED
        BY <1>2, <1>5, <2>2, <3>1
    <2>3. QED
      BY <1>1, <2>1, <2>2
  <1>10. \A b : RecordAt(b)' = RecordAt(b)
    BY <1>1 DEF RecordAt
  <1>11. ASSUME NEW b \in C \ {head}
         PROVE  /\ b + RecordAt(b).size \in C
                /\ \A c \in C : b < c => b + RecordAt(b).size <= c
                /\ RecordAt(b).kind # "wrap" =>
                     \A u \in 0..(RecordAt(b).size - 1) : buf[(b + u) % Cap] = RecordAt(b)
    <2>1. b \in B \ {head} /\ b \in Nat /\ RecordAt(b).size \in 1..Cap /\ t <= b
      BY <1>2, LayoutTypes
    <2>2. b + RecordAt(b).size # t
      BY <1>2, <2>1
    <2>3. QED
      BY <2>1, <2>2 DEF Layout
  <1>12. rec'.kind # "wrap" /\ (epc' = "commit" => \A u \in 0..(rec'.size - 1) : buf'[(head' + u) % Cap] = rec')
    BY <1>1 DEF Layout
  <1> HIDE DEF C
  <1>13. Layout(C)'
    BY <1>1, <1>8, <1>9, <1>10, <1>11, <1>12 DEF Layout
  <1>14. QED
    BY <1>2, <1>3, <1>4, <1>5, <1>6, <1>13 DEF C

\* A flush moves the head the worker reads to another start of a record.
LEMMA LayoutFlush ==
  ASSUME TypeOK, CursorsOK, NEW t \in Threads, Flush(t), NEW B, Layout(B)
  PROVE  Layout(B)'
  <1>1. /\ head' = head /\ tail' = tail /\ Took(t)
        /\ UNCHANGED <<buf, epc, rec, why, gpc, back, upto>>
    BY FlushFrame DEF eeVars, gsVars
  <1>2. Within' = Within /\ \A b : RecordAt(b)' = RecordAt(b)
    <2>1. tail' = tail
      BY <1>1
    <2>2. QED
      BY <1>1 DEF Within, InRecord, RecordAt
  <1>3. mem'["head"] \in B
    <2>1. CASE mem'["head"] = mem["head"]
      BY <2>1 DEF Layout
    <2>2. CASE mem'["head"] # mem["head"]
      <3>1. t = "ee"
        BY <2>2, FlushFrame DEF Threads, Own, EELoc
      <3>2. PICK i \in DOMAIN sb["ee"] : sb["ee"][i].loc = "head" /\ mem'["head"] = sb["ee"][i].val
        BY <1>1, <2>2, <3>1 DEF Took, Locs, EELoc
      <3>3. QED
        BY <3>2 DEF Layout
    <2>3. QED
      BY <2>1, <2>2
  <1>4. \A i \in DOMAIN sb'["ee"] : sb'["ee"][i].loc = "head" => sb'["ee"][i].val \in B
    <2>1. CASE t = "gs"
      BY <1>1, <2>1 DEF Took, Threads, Layout
    <2>2. CASE t = "ee"
      <3>1. sb["ee"] \in Stores /\ sb["ee"] # <<>> /\ sb'["ee"] = Tail(sb["ee"])
        BY <1>1, <2>2, DataTypes, MemTypes DEF Took, Threads
      <3>2. /\ DOMAIN sb["ee"] = 1..Len(sb["ee"]) /\ Len(sb["ee"]) \in Nat
            /\ DOMAIN sb'["ee"] = 1..(Len(sb["ee"]) - 1)
            /\ \A i \in 1..(Len(sb["ee"]) - 1) : sb'["ee"][i] = sb["ee"][i + 1]
        BY <3>1, TailOfStores
      <3>3. ASSUME NEW i \in DOMAIN sb'["ee"], sb'["ee"][i].loc = "head"
            PROVE  sb'["ee"][i].val \in B
        <4>1. i + 1 \in DOMAIN sb["ee"] /\ sb'["ee"][i] = sb["ee"][i + 1]
          BY <3>2
        <4>2. QED
          BY <3>3, <4>1 DEF Layout
      <3>4. QED
        BY <3>3
    <2>3. QED
      BY <2>1, <2>2 DEF Threads
  <1>5. QED
    BY <1>1, <1>2, <1>3, <1>4 DEF Layout

-----------------------------------------------------------------------------
(* What is left to do *)

\* The positions whose record passes a test, the worker's own left out once it is done.
LEMMA LeftEE ==
  ASSUME TypeOK, CursorsOK, EENext, NEW B, Layout(B), NEW h \in Nat, NEW k \in Nat, Publishes(h, k)
  PROVE  /\ \A b \in B \ {h} : RecordAt(b)' = RecordAt(b)
         /\ ToBegin(B \cup {k})' = IF Commit THEN ToBegin(B) \cup {h} ELSE ToBegin(B)
         /\ ToScan(B \cup {k})' =
              IF Commit /\ rec.kind = "vsync" THEN ToScan(B) \cup {h} ELSE ToScan(B)
         /\ ToAnswer(B \cup {k})' =
              IF Commit /\ rec.kind = "call" THEN ToAnswer(B) \cup {h} ELSE ToAnswer(B)
         /\ h \in Nat /\ \A b \in ToBegin(B) \cup ToScan(B) \cup ToAnswer(B) : b \in Nat /\ b < h
  <1>0. h = head /\ k = head'
    BY DEF Publishes
  <1>1. /\ B \in SUBSET Nat /\ h \in B /\ \A b \in B : tail <= b /\ b <= h
        /\ \A b \in B \ {h} : b < h
    BY <1>0, LayoutTypes
  <1>2. /\ tail' = tail /\ Within' = Within /\ Handled' = Handled /\ (Handled => Within)
        /\ (Within => tail < h) /\ tail \in Nat
    BY <1>0, EEFrame, PlacesEE, CursorOrder DEF Layout, Within, Handled, InRecord
  <1>3. \A b \in B \ {h} : RecordAt(b)' = RecordAt(b)
    BY <1>0, RecordsKept
  <1> DEFINE C == B \cup {k}
  <1>4. C \ {k} = IF h < k THEN (B \ {h}) \cup {h} ELSE B \ {h}
    <2>1. CASE h < k
      BY <1>1, <2>1
    <2>2. CASE ~ h < k
      <3>1. h = k
        BY <2>2 DEF Publishes
      <3>2. QED
        BY <3>1, <2>2
    <2>3. QED
      BY <2>1, <2>2
  <1>5. rec.kind # "wrap" /\ ~ (WriteWrap /\ Commit)
    BY DEF Layout, WriteWrap, Commit
  <1>6. Within => h # tail
    BY <1>1, <1>2
  <1>7. /\ ToBegin(C)' = {b \in C \ {k} : RecordAt(b)'.kind # "wrap" /\ ~ (b = tail /\ Within)}
        /\ ToScan(C)' = {b \in C \ {k} : RecordAt(b)'.kind = "vsync" /\ ~ (b = tail /\ Handled)}
        /\ ToAnswer(C)' = {b \in C \ {k} : RecordAt(b)'.kind = "call" /\ ~ (b = tail /\ Handled)}
    BY <1>0, <1>2 DEF ToBegin, ToScan, ToAnswer
  <1> HIDE DEF C
  <1>8. ToBegin(C)' = IF Commit THEN ToBegin(B) \cup {h} ELSE ToBegin(B)
    BY <1>3, <1>4, <1>5, <1>6, <1>7, <1>0 DEF Publishes, ToBegin
  <1>9. ToScan(C)' = IF Commit /\ rec.kind = "vsync" THEN ToScan(B) \cup {h} ELSE ToScan(B)
    BY <1>2, <1>3, <1>4, <1>5, <1>6, <1>7, <1>0 DEF Publishes, ToScan
  <1>10. ToAnswer(C)' = IF Commit /\ rec.kind = "call" THEN ToAnswer(B) \cup {h} ELSE ToAnswer(B)
    BY <1>2, <1>3, <1>4, <1>5, <1>6, <1>7, <1>0 DEF Publishes, ToAnswer
  <1>11. \A b \in ToBegin(B) \cup ToScan(B) \cup ToAnswer(B) : b \in B \ {h}
    BY <1>0 DEF ToBegin, ToScan, ToAnswer
  <1>12. QED
    BY <1>1, <1>3, <1>8, <1>9, <1>10, <1>11 DEF C

\* Of the records, the worker is at the first one.
LEMMA LeftGS ==
  ASSUME TypeOK, CursorsOK, BackOK, GSNext, ~ Advance, NEW B, Layout(B), NEW t, t = tail
  PROVE  /\ \A b : RecordAt(b)' = RecordAt(b)
         /\ cur = RecordAt(t) /\ cur' = cur /\ t \in Nat /\ \A b \in B : t <= b /\ b \in Nat
         /\ ToBegin(B)' = IF NextRecord THEN ToBegin(B) \ {t} ELSE ToBegin(B)
         /\ NextRecord /\ cur.kind # "wrap" => t \in ToBegin(B)
         /\ ToScan(B)' = IF ReplayVsync /\ cur.arg = vseen + 1 THEN ToScan(B) \ {t} ELSE ToScan(B)
         /\ ReplayVsync => t \in ToScan(B)
         /\ ToAnswer(B)' = IF ReplayCall THEN ToAnswer(B) \ {t} ELSE ToAnswer(B)
         /\ ReplayCall => t \in ToAnswer(B)
         /\ NextRecord => t < upto /\ t < head /\ t + cur.size <= upto
  <1>1. /\ tail' = t /\ head' = head /\ buf' = buf /\ cur' = cur /\ cur = RecordAt(t)
        /\ cur.kind \in Kind /\ cur.size \in 1..Cap
    BY GSFrame, TailKept, DataTypes DEF RecordAt, cur, Record
  <1>2. /\ t \in Nat /\ t \in B /\ \A b \in B : t <= b /\ b <= head /\ b \in Nat
        /\ Within => t < head
    BY LayoutTypes DEF Layout
  <1>3. \A b : RecordAt(b)' = RecordAt(b)
    BY <1>1 DEF RecordAt
  <1>4. NextRecord => t < upto /\ t < head /\ t + cur.size <= upto
    <2>1. SUFFICES ASSUME NextRecord PROVE t < upto /\ t < head /\ t + cur.size <= upto
      OBVIOUS
    <2>2. upto \in B /\ t # upto
      BY <2>1, LayoutTypes DEF NextRecord
    <2>3. t < upto /\ upto <= head /\ upto \in Nat /\ head \in Nat
      BY <1>2, <2>2, LayoutTypes
    <2>4. t \in B \ {head}
      BY <1>2, <2>3
    <2>5. t + cur.size <= upto
      BY <1>1, <2>2, <2>3, <2>4 DEF Layout
    <2>6. QED
      BY <1>2, <2>3, <2>5
  <1>5. /\ ~ NextRecord => Within' = Within
        /\ NextRecord => ~ Within /\ Within'
    BY PlacesGS DEF NextRecord, Within, InRecord, GSOnly
  <1>6. /\ NextRecord \/ ReplayData \/ ReplayVsync \/ ReplayCall => ~ Handled
        /\ ReplayData \/ ReplayVsync \/ ReplayCall => Within
        /\ ReplayData \/ ReplayCall => Handled'
        /\ ReplayVsync => (Handled' <=> cur.arg = vseen + 1)
        /\ NextRecord => (Handled' => cur.kind = "wrap")
        /\ ~ NextRecord /\ ~ ReplayData /\ ~ ReplayVsync /\ ~ ReplayCall => Handled' = Handled
        /\ ReplayData => cur.kind = "data"
        /\ ReplayVsync => cur.kind = "vsync"
        /\ ReplayCall => cur.kind = "call"
    <2>1. NextRecord => (Handled' => cur.kind = "wrap")
      BY DEF NextRecord, Handled, GSOnly, NotifyPc
    <2>2. ReplayData => Handled'
      BY DEF ReplayData, Handled, GSOnly
    <2>3. ReplayVsync => (Handled' <=> cur.arg = vseen + 1)
      BY DEF ReplayVsync, Handled, GSOnly, NotifyPc
    <2>4. QED
      BY <2>1, <2>2, <2>3, PlacesGS DEF ReplayData, ReplayVsync, ReplayCall
  <1>7. /\ ToBegin(B)' = {b \in B \ {head} : RecordAt(b).kind # "wrap" /\ ~ (b = t /\ Within')}
        /\ ToScan(B)' = {b \in B \ {head} : RecordAt(b).kind = "vsync" /\ ~ (b = t /\ Handled')}
        /\ ToAnswer(B)' = {b \in B \ {head} : RecordAt(b).kind = "call" /\ ~ (b = t /\ Handled')}
    BY <1>1, <1>3 DEF ToBegin, ToScan, ToAnswer
  <1>8. /\ ToBegin(B)' = IF NextRecord THEN ToBegin(B) \ {t} ELSE ToBegin(B)
        /\ NextRecord /\ cur.kind # "wrap" => t \in ToBegin(B)
    BY <1>1, <1>2, <1>4, <1>5, <1>7 DEF ToBegin
  <1>9. t \in B \ {head} \/ ~ Within
    BY <1>2
  <1>10. /\ ToScan(B)' = IF ReplayVsync /\ cur.arg = vseen + 1 THEN ToScan(B) \ {t} ELSE ToScan(B)
         /\ ReplayVsync => t \in ToScan(B)
    <2>1. ReplayVsync => ~ ReplayData /\ ~ ReplayCall /\ ~ NextRecord
      BY DEF ReplayVsync, ReplayCall, ReplayData, NextRecord
    <2>2. QED
      BY <1>1, <1>6, <1>7, <1>9, <2>1 DEF ToScan
  <1>11. /\ ToAnswer(B)' = IF ReplayCall THEN ToAnswer(B) \ {t} ELSE ToAnswer(B)
         /\ ReplayCall => t \in ToAnswer(B)
    <2>1. ReplayCall => ~ ReplayData /\ ~ ReplayVsync /\ ~ NextRecord
      BY DEF ReplayVsync, ReplayCall, ReplayData, NextRecord
    <2>2. QED
      BY <1>1, <1>6, <1>7, <1>9, <2>1 DEF ToAnswer
  <1>12. QED
    BY <1>1, <1>2, <1>3, <1>4, <1>8, <1>10, <1>11

\* The record it steps over is neither to begin nor to answer.
LEMMA LeftAdvance ==
  ASSUME TypeOK, CursorsOK, BackOK, GSNext, Advance, NEW B, Layout(B), NEW t, t = tail
  PROVE  /\ \A b : RecordAt(b)' = RecordAt(b)
         /\ ToBegin(B \ {t})' = ToBegin(B) /\ ToScan(B \ {t})' = ToScan(B)
         /\ ToAnswer(B \ {t})' = ToAnswer(B)
  <1>1. /\ head' = head /\ buf' = buf /\ Within /\ Handled /\ ~ Within' /\ ~ Handled'
    BY GSFrame, PlacesGS
  <1>2. \A b : RecordAt(b)' = RecordAt(b)
    BY <1>1 DEF RecordAt
  <1>3. QED
    BY <1>1, <1>2 DEF ToBegin, ToScan, ToAnswer

\* A flush changes none of this.
LEMMA LeftFlush ==
  ASSUME TypeOK, CursorsOK, NEW t \in Threads, Flush(t), NEW B
  PROVE  /\ \A b : RecordAt(b)' = RecordAt(b)
         /\ ToBegin(B)' = ToBegin(B) /\ ToScan(B)' = ToScan(B) /\ ToAnswer(B)' = ToAnswer(B)
         /\ Within' = Within /\ Handled' = Handled /\ cur' = cur
         /\ Fresh' = Fresh /\ Settled' = Settled
  <1>1. head' = head /\ tail' = tail /\ UNCHANGED <<buf, epc, rec, why, gpc, back, upto>>
    BY FlushFrame DEF eeVars, gsVars
  <1>2. \A b : RecordAt(b)' = RecordAt(b)
    BY <1>1 DEF RecordAt
  <1>3. Within' = Within /\ Handled' = Handled /\ cur' = cur /\ Fresh' = Fresh /\ Settled' = Settled
    <2>1. tail' = tail /\ buf' = buf
      BY <1>1
    <2>2. QED
      BY <1>1, <2>1 DEF Within, Handled, InRecord, cur, Fresh, Settled
  <1>4. QED
    BY <1>1, <1>2, <1>3 DEF ToBegin, ToScan, ToAnswer

-----------------------------------------------------------------------------
(* The calls are numbered *)

LEMMA NumberedEE ==
  ASSUME TypeOK, CursorsOK, EENext, NEW B, Layout(B), NEW h \in Nat, NEW k \in Nat, Publishes(h, k),
         NEW n \in {rec.id - 1, rec.id}, Numbered(B, n)
  PROVE  \E m \in {rec'.id - 1, rec'.id} : Numbered(B \cup {k}, m)'
  <1> DEFINE C == B \cup {k}
             S == ToBegin(B)
             f == [b \in S |-> RecordAt(b).id]
             g == [b \in ToBegin(C)' |-> RecordAt(b)'.id]
  <1>1. /\ ran' = ran /\ Within' = Within /\ (Within => tail < head)
        /\ ran \in Nat /\ rec.id \in Nat /\ rec.kind # "wrap" /\ (tail < head => cur' = cur)
    BY EEFrame, PlacesEE, CurKept, DataTypes DEF Layout, DataOK
  <1>2. /\ n \in Nat /\ ran <= n /\ Chain(S, f, ran + 1, n)
        /\ Within /\ cur.kind # "wrap" => cur.id = ran
        /\ Fresh => n = rec.id - 1
        /\ Settled => n = rec.id
    BY <1>1 DEF Numbered
  <1>3. /\ \A b \in B \ {h} : RecordAt(b)' = RecordAt(b)
        /\ ToBegin(C)' = IF Commit THEN S \cup {h} ELSE S
        /\ \A b \in S : b \in Nat /\ b < h
        /\ S \subseteq B \ {h}
    BY LeftEE DEF ToBegin, Publishes
  <1>4. Within' /\ cur'.kind # "wrap" => cur'.id = ran'
    BY <1>1, <1>2
  <1>5. \A b \in S : g[b] = f[b]
    BY <1>3
  <1>6. CASE Commit
    <2>1. n = rec.id - 1 /\ rec' = rec /\ ~ Fresh'
      BY <1>1, <1>2, <1>6, FreshEE DEF Commit, EEOnly, eeVars
    <2>2. PICK m : m = n + 1
      OBVIOUS
    <2>3. h \in ToBegin(C)' /\ g[h] = rec.id
      BY <1>3, <1>6 DEF Publishes
    <2>4. g[h] = n + 1 /\ m = rec'.id
      BY <1>1, <2>1, <2>2, <2>3
    <2> HIDE DEF f, g, S, C
    <2>5. S \in SUBSET Nat /\ \A b \in S : b < h
      BY <1>3
    <2>6. ran + 1 \in Int /\ n \in Int /\ ran + 1 <= n + 1
      BY <1>1, <1>2
    <2>7. Chain(S \cup {h}, g, ran + 1, n + 1)
      BY <1>2, <1>5, <2>4, <2>5, <2>6, ChainGrows
    <2>8. ran' <= m /\ Chain(ToBegin(C)', g, ran' + 1, m)
      BY <1>1, <1>2, <1>3, <1>6, <2>2, <2>7
    <2>9. Numbered(C, m)'
      BY <1>4, <2>1, <2>4, <2>8 DEF Numbered, g
    <2>10. QED
      BY <2>4, <2>9 DEF C
  <1>7. CASE ~ Commit
    <2>1. n \in {rec'.id - 1, rec'.id} /\ (Fresh' => n = rec'.id - 1) /\ (Settled' => n = rec'.id)
      <3>1. CASE epc # "idle"
        BY <1>1, <1>2, <1>7, <3>1, FreshEE
      <3>2. CASE epc = "idle" /\ \E kind \in Kind \ {"wrap"}, size \in Sizes \cup {1} : Call(kind, size)
        <4>1. rec'.id = rec.id + 1
          BY <3>2 DEF Call
        <4>2. n = rec.id /\ ~ Settled'
          BY <1>1, <1>2, <3>2, FreshEE
        <4>3. QED
          BY <1>1, <4>1, <4>2
      <3>3. CASE epc = "idle" /\ Exit
        <4>1. ~ Fresh' /\ rec' = rec
          BY <3>3 DEF Exit, EEOnly, eeVars, Fresh, WaitPc
        <4>2. n = rec.id
          BY <1>1, <1>2, <3>3, FreshEE
        <4>3. QED
          BY <1>1, <1>2, <4>1, <4>2
      <3>4. QED
        BY <3>1, <3>2, <3>3, IdleEE
    <2> HIDE DEF f, g, S, C
    <2>2. Chain(S, g, ran + 1, n)
      BY <1>2, <1>5, ChainSame
    <2>3. ran' <= n /\ Chain(ToBegin(C)', g, ran' + 1, n)
      BY <1>1, <1>2, <1>3, <1>7, <2>2
    <2>4. Numbered(C, n)'
      BY <1>4, <2>1, <2>3 DEF Numbered, g
    <2>5. QED
      BY <2>1, <2>4 DEF C
  <1>8. QED
    BY <1>6, <1>7

LEMMA NumberedGS ==
  ASSUME TypeOK, CursorsOK, BackOK, GSNext, ~ Advance, NEW B, Layout(B),
         NEW n \in {rec.id - 1, rec.id}, Numbered(B, n)
  PROVE  Numbered(B, n)' /\ rec' = rec
  <1> DEFINE S == ToBegin(B)
             f == [b \in S |-> RecordAt(b).id]
             g == [b \in ToBegin(B)' |-> RecordAt(b)'.id]
  <1>0. PICK t : t = tail
    OBVIOUS
  <1>1. /\ \A b : RecordAt(b)' = RecordAt(b)
        /\ cur = RecordAt(t) /\ cur' = cur /\ t \in Nat /\ \A b \in B : t <= b /\ b \in Nat
        /\ ToBegin(B)' = IF NextRecord THEN S \ {t} ELSE S
        /\ NextRecord /\ cur.kind # "wrap" => t \in S
        /\ NextRecord => t < upto /\ t < head /\ t + cur.size <= upto
    BY <1>0, LeftGS
  <1>2. /\ ran \in Nat /\ n \in Int /\ ran <= n /\ Chain(S, f, ran + 1, n)
        /\ Within /\ cur.kind # "wrap" => cur.id = ran
        /\ Fresh => n = rec.id - 1
        /\ Settled => n = rec.id
    BY DataTypes DEF Numbered, DataOK
  <1>3. rec' = rec /\ (Fresh' => Fresh) /\ (Settled' => Settled)
    BY GSFrame, FreshGS
  <1>4. S \in SUBSET Nat
    BY <1>1 DEF ToBegin
  <1>5. CASE NextRecord /\ cur.kind # "wrap"
    <2>1. ran' = ran + 1
      <3>1. cur.size # 0 /\ ~ (tail + cur.size > upto)
        <4>1. cur.size \in 1..Cap /\ upto \in Nat
          BY DataTypes DEF DataOK
        <4>2. QED
          BY <1>0, <1>1, <1>5, <4>1
      <3>2. QED
        BY <1>5, <3>1 DEF NextRecord
    <2>2. \A b \in S \ {t} : g[b] = f[b]
      BY <1>1, <1>5
    <2>3. t \in S /\ f[t] = cur.id /\ \A b \in S : t <= b
      BY <1>1, <1>5 DEF ToBegin
    <2> HIDE DEF f, g, S
    <2>4. f[t] = ran + 1 /\ Chain(S \ {t}, g, (ran + 1) + 1, n)
      <3>1. ran + 1 \in Int
        BY <1>2
      <3>2. S \in SUBSET Nat /\ t \in S /\ ran + 1 \in Int /\ n \in Int
        BY <1>2, <1>4, <2>3, <3>1
      <3>3. PICK lo \in Int : lo = ran + 1
        BY <3>2
      <3>4. Chain(S, f, lo, n)
        BY <1>2, <3>3
      <3>5. f[t] = lo /\ Chain(S \ {t}, g, lo + 1, n)
        BY <2>2, <2>3, <3>2, <3>4, ChainSheds
      <3>6. QED
        BY <3>3, <3>5
    <2>5. ran + 1 <= n
      <3>1. f[t] \in (ran + 1)..n
        BY <1>2, <2>3 DEF Chain
      <3>2. QED
        BY <1>2, <2>4, <3>1
    <2>6. Chain(ToBegin(B)', g, ran' + 1, n) /\ ran' <= n /\ cur'.id = ran'
      BY <1>1, <1>5, <2>1, <2>3, <2>4, <2>5
    <2>7. QED
      BY <1>2, <1>3, <2>6 DEF Numbered, g
  <1>6. CASE ~ (NextRecord /\ cur.kind # "wrap")
    <2>1. ran' = ran /\ ToBegin(B)' = S /\ (Within' /\ cur'.kind # "wrap" => cur'.id = ran')
      <3>1. CASE NextRecord
        <4>1. t \notin S /\ cur.kind = "wrap"
          BY <1>1, <1>6, <3>1 DEF ToBegin
        <4>2. ran' = ran
          BY <3>1, <4>1 DEF NextRecord
        <4>3. QED
          BY <1>1, <3>1, <4>1, <4>2
      <3>2. CASE ~ NextRecord
        BY <1>1, <1>2, <3>2, PlacesGS
      <3>3. QED
        BY <3>1, <3>2
    <2>2. \A b \in S : g[b] = f[b]
      BY <1>1, <2>1
    <2> HIDE DEF f, g, S
    <2>3. Chain(S, g, ran + 1, n)
      BY <1>2, <2>2, ChainSame
    <2>4. QED
      BY <1>2, <1>3, <2>1, <2>3 DEF Numbered, g
  <1>7. QED
    BY <1>5, <1>6

LEMMA NumberedAdvance ==
  ASSUME TypeOK, CursorsOK, BackOK, GSNext, Advance, NEW B, Layout(B), NEW t, t = tail,
         NEW n \in {rec.id - 1, rec.id}, Numbered(B, n)
  PROVE  Numbered(B \ {t}, n)' /\ rec' = rec
  <1>1. /\ \A b : RecordAt(b)' = RecordAt(b)
        /\ ToBegin(B \ {t})' = ToBegin(B)
    BY LeftAdvance
  <1>2. rec' = rec /\ (Fresh' => Fresh) /\ (Settled' => Settled) /\ ~ Within' /\ ran' = ran
    BY GSFrame, FreshGS, PlacesGS DEF Advance, NextRecord
  <1>3. QED
    BY <1>1, <1>2 DEF Numbered

LEMMA NumberedFlush ==
  ASSUME TypeOK, CursorsOK, NEW t \in Threads, Flush(t), NEW B, NEW n, Numbered(B, n)
  PROVE  Numbered(B, n)' /\ rec' = rec
  <1>1. /\ \A b : RecordAt(b)' = RecordAt(b)
        /\ ToBegin(B)' = ToBegin(B) /\ Within' = Within /\ cur' = cur
        /\ Fresh' = Fresh /\ Settled' = Settled
    BY LeftFlush
  <1>2. rec' = rec /\ ran' = ran
    BY FlushFrame DEF eeVars, gsVars
  <1>3. QED
    BY <1>1, <1>2 DEF Numbered

-----------------------------------------------------------------------------
(* The fields are numbered *)

LEMMA ScannedEE ==
  ASSUME TypeOK, CursorsOK, EENext, NEW B, Layout(B), NEW h \in Nat, NEW k \in Nat, Publishes(h, k),
         NEW n \in {vseq - 1, vseq}, Scanned(B, n)
  PROVE  \E m \in {vseq' - 1, vseq'} : Scanned(B \cup {k}, m)'
  <1> DEFINE C == B \cup {k}
             S == ToScan(B)
             f == [b \in S |-> RecordAt(b).arg]
             g == [b \in ToScan(C)' |-> RecordAt(b)'.arg]
  <1>1. vseen' = vseen /\ vseen \in Nat /\ vseq \in Nat /\ rec.kind # "wrap"
    BY EEFrame, DataTypes DEF Layout, DataOK
  <1>2. /\ n \in Nat /\ vseen <= n /\ Chain(S, f, vseen + 1, n)
        /\ rec.kind = "vsync" => rec.arg = vseq
        /\ Fresh /\ rec.kind = "vsync" => n = vseq - 1
        /\ Settled \/ rec.kind # "vsync" => n = vseq
    BY <1>1 DEF Scanned
  <1>3. /\ \A b \in B \ {h} : RecordAt(b)' = RecordAt(b)
        /\ ToScan(C)' = IF Commit /\ rec.kind = "vsync" THEN S \cup {h} ELSE S
        /\ \A b \in S : b \in Nat /\ b < h
        /\ S \subseteq B \ {h}
    <2>1. /\ \A b \in B \ {h} : RecordAt(b)' = RecordAt(b)
          /\ ToScan(C)' = IF Commit /\ rec.kind = "vsync" THEN S \cup {h} ELSE S
          /\ \A b \in S : b \in Nat /\ b < h
      BY LeftEE
    <2>2. S \subseteq B \ {h}
      BY DEF ToScan, Publishes
    <2>3. QED
      BY <2>1, <2>2
  <1>4. \A b \in S : g[b] = f[b]
    BY <1>3
  <1>5. CASE Commit /\ rec.kind = "vsync"
    <2>1. n = vseq - 1 /\ rec' = rec /\ vseq' = vseq /\ ~ Fresh'
      BY <1>1, <1>2, <1>5, FreshEE DEF Commit, EEOnly, eeVars
    <2>2. PICK m : m = n + 1
      OBVIOUS
    <2>3. h \in ToScan(C)' /\ g[h] = rec.arg
      BY <1>3, <1>5 DEF Publishes
    <2>4. g[h] = n + 1 /\ m = vseq' /\ rec'.arg = vseq'
      BY <1>1, <1>2, <1>5, <2>1, <2>2, <2>3
    <2> HIDE DEF f, g, S, C
    <2>5. S \in SUBSET Nat /\ \A b \in S : b < h
      BY <1>3
    <2>6. vseen + 1 \in Int /\ n \in Int /\ vseen + 1 <= n + 1
      BY <1>1, <1>2
    <2>7. Chain(S \cup {h}, g, vseen + 1, n + 1)
      BY <1>2, <1>4, <2>4, <2>5, <2>6, ChainGrows
    <2>8. vseen' <= m /\ Chain(ToScan(C)', g, vseen' + 1, m)
      BY <1>1, <1>2, <1>3, <1>5, <2>2, <2>7
    <2>9. Scanned(C, m)'
      BY <2>1, <2>4, <2>8 DEF Scanned, g
    <2>10. QED
      BY <2>4, <2>9 DEF C
  <1>6. CASE ~ (Commit /\ rec.kind = "vsync")
    <2>1. /\ n \in {vseq' - 1, vseq'}
          /\ rec'.kind = "vsync" => rec'.arg = vseq'
          /\ Fresh' /\ rec'.kind = "vsync" => n = vseq' - 1
          /\ Settled' \/ rec'.kind # "vsync" => n = vseq'
      <3>1. CASE epc # "idle"
        BY <1>1, <1>2, <1>6, <3>1, FreshEE
      <3>2. CASE epc = "idle" /\ \E kind \in Kind \ {"wrap"}, size \in Sizes \cup {1} : Call(kind, size)
        <4>1. PICK kind \in Kind \ {"wrap"}, size \in Sizes \cup {1} : Call(kind, size)
          BY <3>2
        <4>2. /\ vseq' = IF kind = "vsync" THEN vseq + 1 ELSE vseq
              /\ rec'.kind = kind /\ (kind = "vsync" => rec'.arg = vseq')
          BY <4>1 DEF Call
        <4>3. n = vseq /\ ~ Settled'
          BY <1>1, <1>2, <3>2, FreshEE
        <4>4. QED
          BY <1>1, <4>2, <4>3
      <3>3. CASE epc = "idle" /\ Exit
        <4>1. ~ Fresh' /\ rec' = rec /\ vseq' = vseq
          BY <3>3 DEF Exit, EEOnly, eeVars, Fresh, WaitPc
        <4>2. Settled
          BY <1>1, <3>3, FreshEE
        <4>3. QED
          BY <1>2, <4>1, <4>2
      <3>4. QED
        BY <3>1, <3>2, <3>3, IdleEE
    <2> HIDE DEF f, g, S, C
    <2>2. Chain(S, g, vseen + 1, n)
      BY <1>2, <1>4, ChainSame
    <2>3. vseen' <= n /\ Chain(ToScan(C)', g, vseen' + 1, n)
      BY <1>1, <1>2, <1>3, <1>6, <2>2
    <2>4. Scanned(C, n)'
      BY <2>1, <2>3 DEF Scanned, g
    <2>5. QED
      BY <2>1, <2>4 DEF C
  <1>7. QED
    BY <1>5, <1>6

\* The field the worker scans out is the next one: it never finds them out of order.
LEMMA ScannedGS ==
  ASSUME TypeOK, CursorsOK, BackOK, GSNext, ~ Advance, NEW B, Layout(B),
         NEW n \in {vseq - 1, vseq}, Scanned(B, n)
  PROVE  Scanned(B, n)' /\ vseq' = vseq /\ (ReplayVsync => cur.arg = vseen + 1)
  <1> DEFINE S == ToScan(B)
             f == [b \in S |-> RecordAt(b).arg]
             g == [b \in ToScan(B)' |-> RecordAt(b)'.arg]
  <1>0. PICK t : t = tail
    OBVIOUS
  <1>1. /\ \A b : RecordAt(b)' = RecordAt(b)
        /\ cur = RecordAt(t) /\ t \in Nat /\ \A b \in B : t <= b /\ b \in Nat
        /\ ToScan(B)' = IF ReplayVsync /\ cur.arg = vseen + 1 THEN S \ {t} ELSE S
        /\ ReplayVsync => t \in S
    BY <1>0, LeftGS
  <1>2. /\ vseen \in Nat /\ n \in Int /\ vseen <= n /\ Chain(S, f, vseen + 1, n)
        /\ rec.kind = "vsync" => rec.arg = vseq
        /\ Fresh /\ rec.kind = "vsync" => n = vseq - 1
        /\ Settled \/ rec.kind # "vsync" => n = vseq
    BY DataTypes DEF Scanned, DataOK
  <1>3. rec' = rec /\ vseq' = vseq /\ (Fresh' => Fresh) /\ (Settled' => Settled)
    BY GSFrame, FreshGS
  <1>4. S \in SUBSET Nat
    BY <1>1 DEF ToScan
  <1>5. CASE ReplayVsync
    <2>1. vseen' = vseen + 1
      BY <1>5 DEF ReplayVsync
    <2>2. \A b \in S \ {t} : f[b] = RecordAt(b).arg
      OBVIOUS
    <2>3. t \in S /\ f[t] = cur.arg /\ \A b \in S : t <= b
      BY <1>1, <1>5 DEF ToScan
    <2>4. PICK lo \in Int : lo = vseen + 1
      BY <1>2
    <2> HIDE DEF f, g, S
    <2>5. Chain(S, f, lo, n)
      BY <1>2, <2>4
    <2>6. f[t] = lo /\ Chain(S \ {t}, f, lo + 1, n)
      BY <1>2, <1>4, <2>3, <2>5, ChainSheds
    <2>7. cur.arg = vseen + 1
      BY <2>3, <2>4, <2>6
    <2>8. vseen' <= n
      <3>1. f[t] \in lo..n
        BY <2>3, <2>5 DEF Chain
      <3>2. QED
        BY <1>2, <2>1, <2>4, <2>6, <3>1
    <2>9. \A b \in S \ {t} : g[b] = f[b]
      BY <1>1, <1>5, <2>7 DEF f, g, S
    <2>10. Chain(S \ {t}, g, lo + 1, n)
      BY <2>6, <2>9, ChainSame
    <2>11. Chain(ToScan(B)', g, vseen' + 1, n)
      BY <1>1, <1>5, <2>1, <2>4, <2>7, <2>10 DEF S
    <2>12. QED
      BY <1>2, <1>3, <2>7, <2>8, <2>11 DEF Scanned, g
  <1>6. CASE ~ ReplayVsync
    <2>1. vseen' = vseen /\ ToScan(B)' = S
      BY <1>1, <1>6, PlacesGS
    <2>2. \A b \in S : g[b] = f[b]
      BY <1>1, <2>1
    <2> HIDE DEF f, g, S
    <2>3. Chain(S, g, vseen + 1, n)
      BY <1>2, <2>2, ChainSame
    <2>4. QED
      BY <1>2, <1>3, <1>6, <2>1, <2>3 DEF Scanned, g
  <1>7. QED
    BY <1>5, <1>6

LEMMA ScannedAdvance ==
  ASSUME TypeOK, CursorsOK, BackOK, GSNext, Advance, NEW B, Layout(B), NEW t, t = tail,
         NEW n \in {vseq - 1, vseq}, Scanned(B, n)
  PROVE  Scanned(B \ {t}, n)' /\ vseq' = vseq
  <1>1. /\ \A b : RecordAt(b)' = RecordAt(b)
        /\ ToScan(B \ {t})' = ToScan(B)
    BY LeftAdvance
  <1>2. /\ rec' = rec /\ vseq' = vseq /\ (Fresh' => Fresh) /\ (Settled' => Settled)
        /\ vseen' = vseen
    BY GSFrame, FreshGS, PlacesGS DEF Advance, ReplayVsync
  <1>3. QED
    BY <1>1, <1>2 DEF Scanned

LEMMA ScannedFlush ==
  ASSUME TypeOK, CursorsOK, NEW t \in Threads, Flush(t), NEW B, NEW n, Scanned(B, n)
  PROVE  Scanned(B, n)' /\ vseq' = vseq
  <1>1. /\ \A b : RecordAt(b)' = RecordAt(b)
        /\ ToScan(B)' = ToScan(B) /\ Fresh' = Fresh /\ Settled' = Settled
    BY LeftFlush
  <1>2. rec' = rec /\ vseq' = vseq /\ vseen' = vseen
    BY FlushFrame DEF eeVars, gsVars
  <1>3. QED
    BY <1>1, <1>2 DEF Scanned

-----------------------------------------------------------------------------
(* What the worker announces *)

\* Only a field's end and a reply change what the worker has announced.
LEMMA AnnouncedKept ==
  ASSUME TypeOK, GSNext, NEW loc \in {"vsync_done", "reply_seq", "reply_value"},
         loc = "vsync_done" => ~ ReplayVsync, loc # "vsync_done" => ~ ReplayCall
  PROVE  /\ Load("gs", loc)' = Load("gs", loc)
         /\ Has(sb'["gs"], loc) <=> Has(sb["gs"], loc)
         /\ Rising(sb["gs"], mem, loc) => Rising(sb'["gs"], mem, loc)
  <1> DEFINE Kept == /\ Load("gs", loc)' = Load("gs", loc)
                     /\ (Has(sb'["gs"], loc) <=> Has(sb["gs"], loc))
                     /\ Rising(sb["gs"], mem, loc) => Rising(sb'["gs"], mem, loc)
  <1>1. ASSUME NEW x, NEW v, x # loc, Stored("gs", x, v) PROVE Kept
    BY <1>1 DEF Stored, Locs, GSLoc, Load
  <1>2. ASSUME Park \/ RepeatDue \/ Unpark \/ Stop \/ Advance PROVE Kept
    BY <1>1, <1>2, GSStores
  <1>3. ASSUME Reload PROVE Kept
    BY <1>3 DEF Load, Reload, memVars
  <1>4. ASSUME ReplayVsync PROVE Kept
    BY <1>1, <1>3, <1>4, GSStores DEF ReplayVsync, gsVars
  <1>5. ASSUME ReplayCall PROVE Kept
    <2>1. loc = "vsync_done" /\ Replied(cur.id, cur.arg)
      BY <1>5, GSStores
    <2>2. QED
      BY <2>1 DEF Replied, Locs, GSLoc, Load
  <1> HIDE DEF Kept
  <1>6. Kept
    BY <1>2, <1>3, <1>4, <1>5 DEF GSNext, DrainStart, DrainEnd, NextRecord, ReplayData,
       InnerFatal, Present, CheckSpaceWaiting, NotifyFence, NotifyRead,
       NotifyProducer, ParkOrStop, ParkFence, StayParked, SleepGS, TimeoutGS, WakeUp,
       RepeatUnlock, RepeatPresent, UnparkUnlock, LastNotify, ProcessEnds
  <1>7. QED
    BY <1>6 DEF Kept

\* A reply is on its way only for the call the EE waits in: the buffer is empty
\* of replies before, and the one replayed is the EE's record.
LEMMA ReplayedCall ==
  ASSUME TypeOK, CursorsOK, BackOK, OnTheirWay, GSNext, ReplayCall, ReplyOK,
         NEW B, Layout(B), Unanswered(B), NEW n \in {rec.id - 1, rec.id}, Numbered(B, n)
  PROVE  /\ cur = rec /\ rec.kind = "call" /\ cur.arg = cseq /\ ~ Fresh
         /\ Load("gs", "reply_seq") < cseq /\ mem["reply_seq"] < cseq
         /\ ~ Has(sb["gs"], "reply_seq")
         /\ ToAnswer(B)' = {}
  <1>0. PICK t : t = tail
    OBVIOUS
  <1>1. /\ cur = RecordAt(t) /\ t \in ToAnswer(B) /\ ToAnswer(B)' = ToAnswer(B) \ {t} /\ ~ Advance
    <2>1. ~ Advance
      BY DEF Advance, ReplayCall
    <2>2. QED
      BY <1>0, <2>1, LeftGS
  <1>2. cur = rec /\ rec.kind = "call" /\ cur.arg = cseq /\ Load("gs", "reply_seq") < cseq
    BY <1>1 DEF Unanswered, ReplyOK, ReplayCall
  <1>3. Within /\ cur.id = ran
    BY <1>2, PlacesGS DEF Numbered
  <1>4. ~ Fresh
    BY <1>2, <1>3, DataTypes DEF Numbered, DataOK
  <1>5. ~ Has(sb["gs"], "reply_seq") /\ mem["reply_seq"] < cseq
    <2>1. ~ Has(sb["gs"], "reply_seq")
      BY DEF OnTheirWay, Announced, ReplayCall
    <2>2. Load("gs", "reply_seq") = mem["reply_seq"]
      BY <2>1, DataTypes, MemTypes DEF Load, Threads, Locs, GSLoc
    <2>3. QED
      BY <1>2, <2>1, <2>2
  <1>6. ASSUME NEW b \in ToAnswer(B), b # t PROVE FALSE
    <2>1. RecordAt(b) = rec /\ b \in ToBegin(B)
      BY <1>0, <1>2, <1>6 DEF ToAnswer, ToBegin, Unanswered
    <2>2. RecordAt(b).id \in (ran + 1)..n
      BY <2>1 DEF Numbered, Chain
    <2>3. QED
      BY <1>2, <1>3, <2>1, <2>2, DataTypes DEF DataOK
  <1>7. QED
    BY <1>1, <1>2, <1>4, <1>5, <1>6

\* A call starts when nothing is left to answer.
LEMMA AllAnswered ==
  ASSUME TypeOK, ReplyOnWay, ReplyOK, epc = "idle", NEW B, Unanswered(B)
  PROVE  ToAnswer(B) = {} /\ (rec.kind = "call" => ~ Has(sb["gs"], "reply_seq"))
                          /\ (rec.kind = "call" => ~ Has(sb["gs"], "reply_value"))
  <1>1. rec.kind = "call" => mem["reply_seq"] = cseq /\ mem["reply_seq"] \in Nat
    BY DataTypes, MemTypes DEF ReplyOK, Threads, Locs, GSLoc
  <1>2. rec.kind = "call" => ~ Has(sb["gs"], "reply_seq") /\ ~ Has(sb["gs"], "reply_value")
    BY <1>1 DEF ReplyOnWay
  <1>3. ASSUME NEW b \in ToAnswer(B) PROVE FALSE
    <2>1. rec.kind = "call" /\ Load("gs", "reply_seq") < cseq
      BY <1>3 DEF ToAnswer, Unanswered
    <2>2. Load("gs", "reply_seq") = mem["reply_seq"]
      BY <1>2, <2>1, DataTypes, MemTypes DEF Load, Threads, Locs, GSLoc
    <2>3. QED
      BY <1>1, <2>1, <2>2
  <1>4. QED
    BY <1>2, <1>3

LEMMA UnansweredEE ==
  ASSUME TypeOK, CursorsOK, EENext, ReplyOnWay, ReplyOK, NEW B, Layout(B), Unanswered(B),
         NEW h \in Nat, NEW k \in Nat, Publishes(h, k)
  PROVE  Unanswered(B \cup {k})'
  <1> DEFINE C == B \cup {k}
  <1>1. /\ \A b \in B \ {h} : RecordAt(b)' = RecordAt(b)
        /\ ToAnswer(C)' = IF Commit /\ rec.kind = "call" THEN ToAnswer(B) \cup {h} ELSE ToAnswer(B)
        /\ ToAnswer(B) \subseteq B \ {h} /\ (Commit => RecordAt(h)' = rec)
    <2>1. /\ \A b \in B \ {h} : RecordAt(b)' = RecordAt(b)
          /\ ToAnswer(C)' =
               IF Commit /\ rec.kind = "call" THEN ToAnswer(B) \cup {h} ELSE ToAnswer(B)
      BY LeftEE
    <2>2. ToAnswer(B) \subseteq B \ {h} /\ (Commit => RecordAt(h)' = rec)
      BY DEF ToAnswer, Publishes
    <2>3. QED
      BY <2>1, <2>2
  <1>2. Load("gs", "reply_seq")' = Load("gs", "reply_seq") /\ rec.kind # "wrap"
    BY PlacesEE DEF GSLoc, Layout
  <1>3. CASE epc = "idle"
    <2>1. ~ Commit /\ ToAnswer(B) = {}
      BY <1>3, AllAnswered DEF Commit
    <2>2. QED
      BY <1>1, <2>1 DEF Unanswered
  <1>4. CASE epc # "idle"
    <2>1. rec' = rec /\ cseq' = cseq
      BY <1>2, <1>4, FreshEE
    <2>2. Commit /\ rec.kind = "call" => Load("gs", "reply_seq") < cseq
      BY <1>2, FreshEE DEF ReplyOK
    <2>3. QED
      BY <1>1, <1>2, <2>1, <2>2 DEF Unanswered
  <1>5. QED
    BY <1>3, <1>4

LEMMA UnansweredGS ==
  ASSUME TypeOK, CursorsOK, BackOK, OnTheirWay, GSNext, ~ Advance, ReplyOK,
         NEW B, Layout(B), Unanswered(B), NEW n \in {rec.id - 1, rec.id}, Numbered(B, n)
  PROVE  Unanswered(B)'
  <1>1. CASE ReplayCall
    <2>1. ToAnswer(B)' = {}
      BY <1>1, ReplayedCall
    <2>2. QED
      BY <2>1 DEF Unanswered
  <1>2. CASE ~ ReplayCall
    <2>0. PICK t : t = tail
      OBVIOUS
    <2>1. ToAnswer(B)' = ToAnswer(B) /\ \A b : RecordAt(b)' = RecordAt(b)
      BY <1>2, <2>0, LeftGS
    <2>2. Load("gs", "reply_seq")' = Load("gs", "reply_seq") /\ rec' = rec /\ cseq' = cseq
      BY <1>2, AnnouncedKept, GSFrame
    <2>3. QED
      BY <2>1, <2>2 DEF Unanswered
  <1>3. QED
    BY <1>1, <1>2

LEMMA UnansweredAdvance ==
  ASSUME TypeOK, CursorsOK, BackOK, GSNext, Advance, NEW B, Layout(B), Unanswered(B), NEW t, t = tail
  PROVE  Unanswered(B \ {t})'
  <1>1. ToAnswer(B \ {t})' = ToAnswer(B) /\ \A b : RecordAt(b)' = RecordAt(b)
    BY LeftAdvance
  <1>2. Load("gs", "reply_seq")' = Load("gs", "reply_seq") /\ rec' = rec /\ cseq' = cseq
    <2>1. ~ ReplayCall
      BY DEF Advance, ReplayCall
    <2>2. QED
      BY <2>1, AnnouncedKept, GSFrame
  <1>3. QED
    BY <1>1, <1>2 DEF Unanswered

LEMMA UnansweredFlush ==
  ASSUME TypeOK, CursorsOK, NEW t \in Threads, Flush(t), NEW B, Unanswered(B)
  PROVE  Unanswered(B)'
  <1>1. ToAnswer(B)' = ToAnswer(B) /\ \A b : RecordAt(b)' = RecordAt(b)
    BY LeftFlush
  <1>2. Load("gs", "reply_seq")' = Load("gs", "reply_seq") /\ rec' = rec /\ cseq' = cseq
    BY FlushFrame DEF Load, Threads, Own, GSLoc, eeVars
  <1>3. QED
    BY <1>1, <1>2 DEF Unanswered

-----------------------------------------------------------------------------
(* The waits of the EE *)

\* The steps of the EE that end a wait, decide on one, or return from a call.
Turns == \/ Committed \/ Stall \/ RuleOutEmpty \/ EndWait \/ LeaveWait \/ TakeReply \/ Boundary
         \/ Exit \/ Pump \/ QuiesceTest
         \/ \E kind \in Kind \ {"wrap"}, size \in Sizes \cup {1} : Call(kind, size)

\* The others stay in the wait, or outside of it, and raise no fault of this kind.
LEMMA OtherSteps ==
  ASSUME TypeOK, EENext, ~ Turns
  PROVE  /\ UNCHANGED <<rec, why, vseq, cseq, got, sampled>>
         /\ epc' \in WaitPc \cup {"lock", "unlock"} => epc \in WaitPc \cup {"lock"}
         /\ epc' \notin {"reply", "boundary", "idle", "unlock"} /\ epc # "idle"
         /\ fault' \in {fault, "closed", "ended"}
  <1>1. ASSUME WriteWrap \/ WriteRecord \/ Commit \/ WakeFence \/ WakeRead \/ WakeNotify
        PROVE  /\ UNCHANGED <<rec, why, vseq, cseq, got, sampled>>
               /\ epc' \in WaitPc \cup {"lock", "unlock"} => epc \in WaitPc \cup {"lock"}
               /\ epc' \notin {"reply", "boundary", "idle", "unlock"} /\ epc # "idle"
               /\ fault' \in {fault, "closed", "ended"}
    BY <1>1 DEF WriteWrap, WriteRecord, Commit, WakeFence, WakeRead, WakeNotify, EEOnly, eeVars,
                winVars, WaitPc
  <1>2. ASSUME LockAndFlag \/ WaitFence \/ GiveUp \/ StillWaiting \/ SleepEE \/ TimeoutEE \/ Relock
        PROVE  /\ UNCHANGED <<rec, why, vseq, cseq, got, sampled>>
               /\ epc' \in WaitPc \cup {"lock", "unlock"} => epc \in WaitPc \cup {"lock"}
               /\ epc' \notin {"reply", "boundary", "idle", "unlock"} /\ epc # "idle"
               /\ fault' \in {fault, "closed", "ended"}
    BY <1>2 DEF LockAndFlag, WaitFence, GiveUp, StillWaiting, SleepEE, TimeoutEE, Relock, EEOnly,
                eeVars, winVars, WaitPc, Ends
  <1>3. ASSUME RaiseShutdown \/ NotifyShutdown \/ Abandon \/ QuiesceFlag \/ QuiesceSleep
               \/ QuiesceTimeout \/ QuiesceWake \/ QuiesceUnflag \/ QuiesceUnlock \/ Join
        PROVE  /\ UNCHANGED <<rec, why, vseq, cseq, got, sampled>>
               /\ epc' \in WaitPc \cup {"lock", "unlock"} => epc \in WaitPc \cup {"lock"}
               /\ epc' \notin {"reply", "boundary", "idle", "unlock"} /\ epc # "idle"
               /\ fault' \in {fault, "closed", "ended"}
    BY <1>3 DEF RaiseShutdown, NotifyShutdown, Abandon, QuiesceFlag, QuiesceSleep, QuiesceTimeout,
                QuiesceWake, QuiesceUnflag, QuiesceUnlock, Join, EEOnly, eeVars, winVars, WaitPc
  <1>4. QED
    BY <1>1, <1>2, <1>3 DEF EENext, Turns

LEMMA KindEE ==
  ASSUME TypeOK, CursorsOK, KindOK, EENext, rec.kind # "wrap"
  PROVE  KindOK'
  <1>1. CASE ~ Turns
    BY <1>1, OtherSteps DEF KindOK
  <1> USE DEF EEOnly, eeVars, WaitPc
  <1>2. CASE \E kind \in Kind \ {"wrap"}, size \in Sizes \cup {1} : Call(kind, size)
    BY <1>2 DEF Call, KindOK
  <1>3. CASE Committed
    <2>1. rec.kind \in {"data", "vsync", "call"}
      BY DataTypes DEF Record, Kind
    <2>2. epc' = After(rec.kind) /\ rec' = rec
      BY <1>3 DEF Committed
    <2>3. CASE rec.kind = "data"
      BY <2>2, <2>3 DEF After, KindOK
    <2>4. CASE rec.kind = "vsync"
      <3>1. epc' \in {"boundary", "lock"} /\ why' = "field"
        BY <1>3, <2>2, <2>4 DEF Committed, After
      <3>2. QED
        BY <2>2, <2>4, <3>1 DEF KindOK
    <2>5. CASE rec.kind = "call"
      <3>1. epc' = "lock" /\ why' = "reply"
        BY <1>3, <2>2, <2>5 DEF Committed, After
      <3>2. QED
        BY <2>2, <2>5, <3>1 DEF KindOK
    <2>6. QED
      BY <2>1, <2>3, <2>4, <2>5
  <1>4. CASE Stall \/ RuleOutEmpty
    BY <1>4 DEF Stall, RuleOutEmpty, CursorsOK, KindOK
  <1>5. CASE EndWait \/ Pump
    BY <1>5 DEF EndWait, Pump, KindOK
  <1>6. CASE LeaveWait
    BY <1>6, DataTypes DEF LeaveWait, Resume, KindOK, PcOK
  <1>7. CASE TakeReply \/ Boundary \/ Exit \/ QuiesceTest
    BY <1>7 DEF TakeReply, Boundary, Exit, QuiesceTest, KindOK
  <1>8. QED
    BY <1>1, <1>2, <1>3, <1>4, <1>5, <1>6, <1>7 DEF Turns

\* The worker and a flush only wake the EE up.
LEMMA KindRest ==
  ASSUME TypeOK, KindOK, GSNext \/ \E t \in Threads : Flush(t)
  PROVE  KindOK'
  <1>1. CASE GSNext
    BY <1>1, GSFrame DEF KindOK, WaitPc
  <1>2. CASE \E t \in Threads : Flush(t)
    BY <1>2, FlushFrame DEF KindOK, eeVars
  <1>3. QED
    BY <1>1, <1>2

-----------------------------------------------------------------------------
(* The fields *)

\* What the EE reads of the fields done is behind what the worker has done.
LEMMA FieldRead ==
  ASSUME TypeOK, FieldOK
  PROVE  Load("ee", "vsync_done") \in Nat /\ Load("ee", "vsync_done") <= vseen
  <1>1. Load("ee", "vsync_done") = mem["vsync_done"]
    BY DataTypes, OtherLoads DEF Load, GSLoc
  <1>2. sb["gs"] \in Stores /\ mem \in Memory /\ "vsync_done" \in Locs
    BY DataTypes, MemTypes DEF Threads, Locs, GSLoc
  <1>3. mem["vsync_done"] <= Newest(sb["gs"], mem, "vsync_done") /\ mem["vsync_done"] \in Nat
    BY <1>2, RisingValues DEF FieldOK, Memory
  <1>4. QED
    BY <1>1, <1>3 DEF FieldOK, Load

LEMMA FieldEE ==
  ASSUME TypeOK, CursorsOK, KindOK, FieldOK, EENext, rec.kind # "wrap"
  PROVE  FieldOK'
  <1>1. /\ mem' = mem /\ sb'["gs"] = sb["gs"] /\ vseen' = vseen
        /\ Load("gs", "vsync_done")' = Load("gs", "vsync_done")
    BY EEFrame, PlacesEE DEF GSLoc
  <1>2. Rising(sb'["gs"], mem', "vsync_done") /\ Load("gs", "vsync_done")' = vseen'
    BY <1>1 DEF FieldOK
  <1>3. vseen \in Nat /\ vseq \in Nat /\ Load("ee", "vsync_done") \in Nat
        /\ Load("ee", "vsync_done") <= vseen
    BY FieldRead, DataTypes DEF DataOK
  <1> DEFINE Ahead == \/ rec.kind # "vsync" \/ epc = "idle"
                      \/ ~ Closed /\ (epc = "boundary" \/ (epc = "unlock" /\ why = "field"))
  <1>4. Ahead => vseen >= vseq - 1
    BY DEF FieldOK
  <1>5. SUFFICES Ahead' => vseen >= vseq' - 1
    BY <1>1, <1>2 DEF FieldOK
  <1>6. CASE ~ Turns
    BY <1>4, <1>6, OtherSteps
  <1> USE DEF EEOnly, eeVars, winVars, Closed
  <1>7. CASE \E kind \in Kind \ {"wrap"}, size \in Sizes \cup {1} : Call(kind, size)
    BY <1>4, <1>7 DEF Call
  <1>8. CASE Committed
    <2>1. epc' = "boundary" => Load("ee", "vsync_done") >= vseq - 1
      BY <1>8 DEF Committed, After
    <2>2. rec' = rec /\ vseq' = vseq /\ (rec.kind = "vsync" => epc' \in {"boundary", "lock"})
      BY <1>8 DEF Committed, After
    <2>3. QED
      BY <1>3, <1>4, <2>1, <2>2
  <1>9. CASE Stall \/ RuleOutEmpty \/ Exit \/ Pump \/ QuiesceTest
    BY <1>4, <1>9 DEF Stall, RuleOutEmpty, Exit, Pump, QuiesceTest
  <1>10. CASE EndWait
    <2>1. rec' = rec /\ vseq' = vseq /\ why' = why /\ sampled' = sampled /\ epc' \in {"unlock", "unlockExit"}
      BY <1>10 DEF EndWait
    <2>2. epc' = "unlock" /\ why = "field" /\ ~ Closed => Load("ee", "vsync_done") >= vseq - 1
      BY <1>10 DEF EndWait, Satisfied
    <2>3. QED
      BY <1>3, <1>4, <2>1, <2>2
  <1>11. CASE LeaveWait
    <2>1. epc' = "boundary" => epc = "unlock" /\ why = "field"
      BY <1>11, DataTypes DEF LeaveWait, Resume, PcOK
    <2>2. /\ rec' = rec /\ vseq' = vseq /\ sampled' = sampled /\ epc' \notin {"idle", "unlock"}
      BY <1>11, DataTypes DEF LeaveWait, Resume, PcOK
    <2>3. QED
      BY <1>4, <2>1, <2>2
  <1>12. CASE TakeReply \/ Boundary
    BY <1>4, <1>12 DEF TakeReply, Boundary, KindOK
  <1>13. QED
    BY <1>6, <1>7, <1>8, <1>9, <1>10, <1>11, <1>12 DEF Turns

LEMMA FieldGS ==
  ASSUME TypeOK, BackOK, FieldOK, GSNext, ReplayVsync => cur.arg = vseen + 1
  PROVE  FieldOK'
  <1>1. /\ rec' = rec /\ why' = why /\ vseq' = vseq /\ sampled' = sampled
        /\ epc' = epc \/ epc' \in {"awake", "qAwake"}
    BY GSFrame, PlacesGS
  <1>2. vseen \in Nat /\ vseq \in Nat /\ vseen' \in Nat /\ vseen <= vseen'
    <2>1. vseen' = vseen \/ vseen' = vseen + 1
      BY PlacesGS DEF ReplayVsync
    <2>2. QED
      BY <2>1, DataTypes DEF DataOK
  <1>3. Rising(sb'["gs"], mem', "vsync_done") /\ Load("gs", "vsync_done")' = vseen'
    <2>0. mem' = mem
      BY GSFrame
    <2>1. CASE ReplayVsync
      <3>1. Stored("gs", "vsync_done", vseen') /\ vseen' = vseen + 1
        BY <2>1, GSStores DEF ReplayVsync
      <3>2. Newest(sb["gs"], mem, "vsync_done") = vseen
        BY DEF FieldOK, Load
      <3>3. QED
        BY <1>2, <2>0, <3>1, <3>2 DEF Stored, FieldOK, Load, Locs, GSLoc
    <2>2. CASE ~ ReplayVsync
      BY <2>0, <2>2, AnnouncedKept, PlacesGS DEF FieldOK
    <2>3. QED
      BY <2>1, <2>2
  <1>4. QED
    BY <1>1, <1>2, <1>3 DEF FieldOK, Closed

LEMMA FieldFlush ==
  ASSUME TypeOK, FieldOK, NEW t \in Threads, Flush(t)
  PROVE  FieldOK'
  <1>1. /\ UNCHANGED <<epc, rec, why, vseq, vseen, sampled>>
        /\ Load("gs", "vsync_done")' = Load("gs", "vsync_done")
        /\ Rising(sb["gs"], mem, "vsync_done") => Rising(sb'["gs"], mem', "vsync_done")
    BY FlushFrame DEF Threads, Own, GSLoc, Load, eeVars, gsVars, winVars
  <1>2. QED
    BY <1>1 DEF FieldOK, Closed

-----------------------------------------------------------------------------
(* The reply *)

\* What the EE reads of the reply is what has reached memory.
LEMMA ReplyRead ==
  ASSUME TypeOK
  PROVE  /\ Load("ee", "reply_seq") = mem["reply_seq"] /\ mem["reply_seq"] \in Nat
         /\ Load("ee", "reply_value") = mem["reply_value"] /\ mem["reply_value"] \in Nat
         /\ Load("gs", "reply_seq") \in Nat /\ cseq \in Nat
         /\ ~ Has(sb["gs"], "reply_seq") => Load("gs", "reply_seq") = mem["reply_seq"]
         /\ ~ Has(sb["gs"], "reply_value") => Load("gs", "reply_value") = mem["reply_value"]
  BY DataTypes, MemTypes, OtherLoads DEF Load, Threads, Locs, GSLoc, DataOK

LEMMA ReplyOnWayEE ==
  ASSUME TypeOK, CursorsOK, ReplyOnWay, ReplyOK, EENext, NEW B, Layout(B), Unanswered(B)
  PROVE  ReplyOnWay'
  <1>1. /\ mem' = mem /\ sb'["gs"] = sb["gs"] /\ back' = back /\ (gpc = "notify" => gpc' = gpc)
        /\ Load("gs", "reply_seq")' = Load("gs", "reply_seq")
        /\ Load("gs", "reply_value")' = Load("gs", "reply_value")
    BY EEFrame, PlacesEE DEF GSLoc
  <1>2. SUFFICES ASSUME Has(sb["gs"], "reply_seq") \/ Has(sb["gs"], "reply_value")
                 PROVE  ReplyOnWay'
    BY <1>1 DEF ReplyOnWay
  <1>3. /\ gpc = "notify" /\ back = "advance" /\ cur = rec /\ rec.kind = "call"
        /\ Has(sb["gs"], "reply_seq") /\ mem["reply_seq"] < cseq
        /\ Load("gs", "reply_seq") = cseq /\ Load("gs", "reply_value") = rec.id
        /\ \A i \in DOMAIN sb["gs"] : sb["gs"][i].loc = "reply_seq" =>
             i = Len(sb["gs"]) /\ sb["gs"][i].val = cseq
    BY <1>2 DEF ReplyOnWay
  <1>4. epc # "idle" /\ rec.kind # "wrap"
    BY <1>2, <1>3, AllAnswered
  <1>5. rec' = rec /\ cseq' = cseq
    BY <1>4, FreshEE
  <1>6. cur' = cur
    <2>1. Within
      BY <1>3 DEF Within, InRecord, NotifyPc
    <2>2. QED
      BY <2>1, CurKept DEF Layout
  <1>7. QED
    BY <1>1, <1>3, <1>5, <1>6 DEF ReplyOnWay

LEMMA ReplyOnWayGS ==
  ASSUME TypeOK, CursorsOK, BackOK, OnTheirWay, ReplyOnWay, ReplyOK, GSNext,
         NEW B, Layout(B), Unanswered(B), NEW n \in {rec.id - 1, rec.id}, Numbered(B, n)
  PROVE  ReplyOnWay'
  <1>1. mem' = mem /\ rec' = rec /\ cseq' = cseq
    BY GSFrame
  <1>2. CASE ReplayCall
    <2>1. /\ cur = rec /\ rec.kind = "call" /\ cur.arg = cseq /\ mem["reply_seq"] < cseq
          /\ ~ Has(sb["gs"], "reply_seq")
      BY <1>2, ReplayedCall
    <2>2. gpc' = "notify" /\ back' = "advance" /\ cur' = cur
      <3>1. ~ Advance
        BY <1>2 DEF ReplayCall, Advance
      <3>2. QED
        BY <1>2, <3>1, TailKept DEF ReplayCall, GSOnly
    <2>3. Replied(cur.id, cur.arg)
      BY <1>2, GSStores
    <2>4. /\ Load("gs", "reply_seq")' = cseq /\ Load("gs", "reply_value")' = rec.id
          /\ Has(sb'["gs"], "reply_seq")
      BY <2>1, <2>3 DEF Replied, Load, Locs, GSLoc
    <2>5. \A i \in DOMAIN sb'["gs"] : sb'["gs"][i].loc = "reply_seq" =>
            i = Len(sb'["gs"]) /\ sb'["gs"][i].val = cseq
      <3> DEFINE q == sb["gs"]
                 a == [loc |-> "reply_value", val |-> cur.id]
                 b == [loc |-> "reply_seq", val |-> cur.arg]
      <3>1. /\ q \in Stores /\ a \in StoreType /\ b \in StoreType /\ a.loc # "reply_seq" /\ b.val = cseq
            /\ sb'["gs"] = Append(Append(q, a), b)
        BY <2>1, <2>3, DataTypes, MemTypes DEF Threads, StoreType, Locs, GSLoc, Replied
      <3>2. \A i \in DOMAIN q : q[i].loc # "reply_seq"
        BY <2>1 DEF Has
      <3> HIDE DEF q, a, b
      <3>3. /\ DOMAIN q = 1..Len(q) /\ Len(q) \in Nat
            /\ DOMAIN sb'["gs"] = 1..(Len(q) + 2) /\ Len(sb'["gs"]) = Len(q) + 2
            /\ \A i \in 1..Len(q) : sb'["gs"][i] = q[i]
            /\ sb'["gs"][Len(q) + 1] = a /\ sb'["gs"][Len(q) + 2] = b
        <4>1. /\ Append(q, a) \in Stores /\ Len(Append(q, a)) = Len(q) + 1 /\ Len(q) \in Nat
              /\ Append(q, a)[Len(q) + 1] = a /\ \A i \in 1..Len(q) : Append(q, a)[i] = q[i]
              /\ DOMAIN q = 1..Len(q)
          BY <3>1 DEF Stores
        <4> DEFINE r == Append(q, a)
        <4> HIDE DEF r
        <4>2. /\ r \in Stores /\ Len(r) = Len(q) + 1 /\ Len(q) \in Nat /\ sb'["gs"] = Append(r, b)
              /\ r[Len(q) + 1] = a /\ \A i \in 1..Len(q) : r[i] = q[i]
          BY <3>1, <4>1 DEF r
        <4>3. /\ DOMAIN sb'["gs"] = 1..(Len(r) + 1) /\ Len(sb'["gs"]) = Len(r) + 1
              /\ sb'["gs"][Len(r) + 1] = b /\ \A i \in 1..Len(r) : sb'["gs"][i] = r[i]
          BY <3>1, <4>2 DEF Stores
        <4>4. QED
          BY <4>1, <4>2, <4>3
      <3>4. ASSUME NEW i \in DOMAIN sb'["gs"], sb'["gs"][i].loc = "reply_seq"
            PROVE  i = Len(sb'["gs"]) /\ sb'["gs"][i].val = cseq
        <4>1. i \in 1..Len(q) \/ i = Len(q) + 1 \/ i = Len(q) + 2
          BY <3>3
        <4>2. QED
          BY <3>1, <3>2, <3>3, <3>4, <4>1
      <3>5. QED
        BY <3>4
    <2>6. QED
      BY <1>1, <2>1, <2>2, <2>4, <2>5 DEF ReplyOnWay
  <1>3. CASE ~ ReplayCall
    <2>1. \/ Has(sb'["gs"], "reply_seq") \/ Has(sb'["gs"], "reply_value")
          => Has(sb["gs"], "reply_seq") /\ gpc = "notify"
      BY <1>3, AnnouncedKept DEF ReplyOnWay
    <2>2. gpc = "notify" => sb["gs"] = <<>>
      BY DEF GSNext, DrainStart, DrainEnd, NextRecord, ReplayData, ReplayVsync, ReplayCall, Advance,
       InnerFatal, Present, CheckSpaceWaiting, NotifyFence, NotifyRead, Fence, Drained,
       NotifyProducer, ParkOrStop, Park, ParkFence, StayParked, SleepGS, TimeoutGS, WakeUp,
       RepeatDue, RepeatUnlock, RepeatPresent, Unpark, UnparkUnlock, Stop, LastNotify, ProcessEnds
    <2>3. sb["gs"] = <<>> => ~ Has(sb["gs"], "reply_seq")
      BY DataTypes, MemTypes DEF Threads
    <2>4. QED
      BY <2>1, <2>2, <2>3 DEF ReplyOnWay
  <1>4. QED
    BY <1>2, <1>3

\* The oldest store reaches memory: the number of the reply is the last one.
LEMMA ReplyFlush ==
  ASSUME TypeOK, ReplyOnWay, Flush("gs")
  PROVE  /\ mem'["reply_seq"] # mem["reply_seq"] =>
              /\ mem'["reply_seq"] = cseq /\ rec.kind = "call"
              /\ mem'["reply_value"] = rec.id
         /\ mem'["reply_value"] # mem["reply_value"] => mem["reply_seq"] < cseq
         /\ \/ Has(sb'["gs"], "reply_seq") \/ Has(sb'["gs"], "reply_value")
            => Has(sb'["gs"], "reply_seq") /\ mem'["reply_seq"] = mem["reply_seq"]
         /\ \A i \in DOMAIN sb'["gs"] : sb'["gs"][i].loc = "reply_seq" =>
              i = Len(sb'["gs"]) /\ sb'["gs"][i].val = cseq
  <1> DEFINE q == sb["gs"]
             p == sb'["gs"]
  <1>1. q \in Stores /\ q # <<>> /\ p = Tail(q) /\ mem \in Memory /\ Took("gs")
    BY FlushFrame, DataTypes, MemTypes DEF Took, Threads
  <1>2. mem' = Flushed(q, mem)
    BY DEF Flush, Flushed
  <1>3. /\ Tail(q) \in Stores /\ Head(q) = q[1] /\ Head(q) \in StoreType
        /\ DOMAIN q = 1..Len(q) /\ Len(q) \in Nat \ {0} /\ DOMAIN p = 1..(Len(q) - 1)
        /\ \A i \in 1..(Len(q) - 1) : p[i] = q[i + 1]
    BY <1>1, TailOfStores
  <1>4. Len(p) = Len(q) - 1
    BY <1>1 DEF Stores
  <1>5. /\ \A i \in DOMAIN q : q[i].loc = "reply_seq" => i = Len(q) /\ q[i].val = cseq
        /\ Has(q, "reply_seq") => rec.kind = "call" /\ mem["reply_seq"] < cseq
                                  /\ Load("gs", "reply_value") = rec.id
        /\ Has(q, "reply_value") => Has(q, "reply_seq")
    BY DEF ReplyOnWay, Has
  <1>6. \A x : x # q[1].loc => mem'[x] = mem[x]
    BY <1>1, <1>2, <1>3 DEF Flushed, Memory
  <1>7. "reply_seq" \in Locs /\ "reply_value" \in Locs
    BY DEF Locs, GSLoc
  <1>8. ASSUME q[1].loc = "reply_seq"
        PROVE  /\ mem'["reply_seq"] = cseq /\ rec.kind = "call" /\ mem'["reply_value"] = rec.id
               /\ ~ Has(p, "reply_seq") /\ ~ Has(p, "reply_value")
    <2>1. 1 \in DOMAIN q /\ Len(q) = 1 /\ q[1].val = cseq
      <3>1. 1 \in DOMAIN q
        BY <1>3
      <3>2. QED
        BY <1>5, <1>8, <3>1
    <2>2. mem'["reply_seq"] = cseq
      BY <1>1, <1>2, <1>3, <1>7, <1>8, <2>1 DEF Flushed, Memory
    <2>3. DOMAIN p = {}
      BY <1>3, <2>1
    <2>4. ~ Has(p, "reply_seq") /\ ~ Has(p, "reply_value")
      BY <2>3 DEF Has
    <2>5. rec.kind = "call" /\ Load("gs", "reply_value") = rec.id
      BY <1>5, <1>8, <2>1 DEF Has
    <2>6. mem'["reply_value"] = rec.id
      <3>1. Newest(p, mem', "reply_value") = Newest(q, mem, "reply_value")
        BY <1>1, <1>7 DEF Took
      <3>2. Newest(p, mem', "reply_value") = mem'["reply_value"]
        BY <2>4, NewestInMemory
      <3>3. QED
        BY <2>5, <3>1, <3>2 DEF Load
    <2>7. QED
      BY <2>2, <2>4, <2>5, <2>6
  <1>9. mem'["reply_seq"] # mem["reply_seq"] => q[1].loc = "reply_seq"
    BY <1>6
  <1>10. mem'["reply_value"] # mem["reply_value"] => mem["reply_seq"] < cseq
    <2>1. SUFFICES ASSUME mem'["reply_value"] # mem["reply_value"] PROVE mem["reply_seq"] < cseq
      OBVIOUS
    <2>2. q[1].loc = "reply_value" /\ 1 \in DOMAIN q
      BY <1>3, <1>6, <2>1
    <2>3. Has(q, "reply_value")
      BY <2>2 DEF Has
    <2>4. QED
      BY <1>5, <2>3
  <1>11. ASSUME Has(p, "reply_seq") \/ Has(p, "reply_value")
         PROVE  Has(p, "reply_seq") /\ mem'["reply_seq"] = mem["reply_seq"]
    <2>1. q[1].loc # "reply_seq"
      BY <1>8, <1>11
    <2>2. Has(q, "reply_seq")
      BY <1>1, <1>5, <1>11 DEF Took
    <2>3. PICK i \in 1..Len(q) : q[i].loc = "reply_seq"
      BY <1>3, <2>2 DEF Has
    <2>4. i - 1 \in 1..(Len(q) - 1) /\ (i - 1) + 1 = i
      BY <1>3, <2>1, <2>3
    <2>5. p[i - 1].loc = "reply_seq" /\ i - 1 \in DOMAIN p
      BY <1>3, <2>3, <2>4
    <2>6. QED
      BY <1>6, <2>1, <2>5 DEF Has
  <1>12. ASSUME NEW i \in DOMAIN p, p[i].loc = "reply_seq" PROVE i = Len(p) /\ p[i].val = cseq
    <2>1. i \in Int /\ i + 1 \in DOMAIN q /\ p[i] = q[i + 1]
      BY <1>3
    <2>2. i + 1 = Len(q) /\ q[i + 1].val = cseq
      BY <1>5, <1>12, <2>1
    <2>3. QED
      BY <1>3, <1>4, <2>1, <2>2
  <1>13. QED
    BY <1>8, <1>9, <1>10, <1>11, <1>12

LEMMA ReplyOnWayFlush ==
  ASSUME TypeOK, CursorsOK, ReplyOnWay, NEW t \in Threads, Flush(t)
  PROVE  ReplyOnWay'
  <1>1. /\ UNCHANGED <<gpc, back, rec, cseq>> /\ cur' = cur
        /\ Load("gs", "reply_seq")' = Load("gs", "reply_seq")
        /\ Load("gs", "reply_value")' = Load("gs", "reply_value")
        /\ t = "ee" => sb'["gs"] = sb["gs"] /\ mem'["reply_seq"] = mem["reply_seq"]
        /\ Has(sb'["gs"], "reply_seq") => Has(sb["gs"], "reply_seq")
    <2>1. cur' = cur
      BY LeftFlush
    <2>2. QED
      BY <2>1, FlushFrame DEF Threads, Own, GSLoc, Load, eeVars, gsVars, Took
  <1>2. CASE t = "ee"
    BY <1>1, <1>2 DEF ReplyOnWay
  <1>3. CASE t = "gs"
    <2>1. /\ \/ Has(sb'["gs"], "reply_seq") \/ Has(sb'["gs"], "reply_value")
             => Has(sb'["gs"], "reply_seq") /\ mem'["reply_seq"] = mem["reply_seq"]
          /\ \A i \in DOMAIN sb'["gs"] : sb'["gs"][i].loc = "reply_seq" =>
               i = Len(sb'["gs"]) /\ sb'["gs"][i].val = cseq
      BY <1>3, ReplyFlush
    <2>2. QED
      BY <1>1, <2>1 DEF ReplyOnWay
  <1>4. QED
    BY <1>2, <1>3 DEF Threads

\* A wait for a reply ends with the reply in the slot.
Replies == \/ epc = "reply" \/ (epc = "unlock" /\ why = "reply")
           \/ (epc = "idle" /\ rec.kind = "call")

LEMMA ReplyEE ==
  ASSUME TypeOK, CursorsOK, KindOK, ReplyOK, EENext, rec.kind # "wrap"
  PROVE  ReplyOK'
  <1>1. /\ mem' = mem /\ Load("gs", "reply_seq")' = Load("gs", "reply_seq")
    BY EEFrame, PlacesEE DEF GSLoc
  <1>2. /\ mem["reply_seq"] \in Nat /\ Load("gs", "reply_seq") \in Nat /\ cseq \in Nat
        /\ Load("ee", "reply_seq") = mem["reply_seq"]
        /\ Load("ee", "reply_value") = mem["reply_value"]
    BY ReplyRead
  <1>3. /\ rec.kind = "call" => rec.arg = cseq
        /\ mem["reply_seq"] <= cseq /\ Load("gs", "reply_seq") <= cseq
        /\ Fresh /\ rec.kind = "call" => Load("gs", "reply_seq") < cseq
        /\ rec.kind = "call" /\ mem["reply_seq"] = cseq => mem["reply_value"] = rec.id
        /\ Replies => mem["reply_seq"] = cseq
        /\ epc = "idle" /\ rec.kind = "call" => got = rec.id
    BY DEF ReplyOK, Replies
  <1>4. CASE \E kind \in Kind \ {"wrap"}, size \in Sizes \cup {1} : Call(kind, size)
    <2>1. PICK kind \in Kind \ {"wrap"}, size \in Sizes \cup {1} : Call(kind, size)
      BY <1>4
    <2>2. /\ cseq' = (IF kind = "call" THEN cseq + 1 ELSE cseq) /\ rec'.kind = kind
          /\ (kind = "call" => rec'.arg = cseq') /\ epc' = "room"
      BY <2>1 DEF Call, EEOnly
    <2>3. mem["reply_seq"] <= cseq' /\ Load("gs", "reply_seq") <= cseq'
          /\ (kind = "call" => mem["reply_seq"] < cseq' /\ Load("gs", "reply_seq") < cseq')
      BY <1>2, <1>3, <2>2
    <2>4. kind = "call" => mem["reply_seq"] # cseq'
      BY <1>2, <2>2, <2>3
    <2>5. QED
      BY <1>1, <2>2, <2>3, <2>4 DEF ReplyOK
  <1>5. CASE ~ \E kind \in Kind \ {"wrap"}, size \in Sizes \cup {1} : Call(kind, size)
    <2>1. rec' = rec /\ cseq' = cseq /\ (Fresh' => Fresh)
      <3>1. CASE epc = "idle"
        <4>1. Exit
          BY <1>5, <3>1, IdleEE
        <4>2. QED
          BY <4>1 DEF Exit, EEOnly, eeVars, Fresh, WaitPc
      <3>2. CASE epc # "idle"
        BY <3>2, FreshEE
      <3>3. QED
        BY <3>1, <3>2
    <2>2. /\ Replies' => mem["reply_seq"] = cseq
          /\ epc' = "idle" /\ rec.kind = "call" => got' = rec.id
      <3>1. CASE ~ Turns
        BY <2>1, <3>1, OtherSteps DEF Replies
      <3> USE DEF EEOnly, eeVars
      <3>2. CASE Committed
        <4>1. /\ epc' \notin {"reply", "unlock"} /\ (epc' = "idle" => rec.kind = "data")
          BY <3>2, DataTypes DEF Committed, After, Record, Kind
        <4>2. QED
          BY <2>1, <4>1 DEF Replies
      <3>3. CASE Stall \/ RuleOutEmpty \/ Exit \/ Pump \/ QuiesceTest
        BY <2>1, <3>3 DEF Replies, Stall, RuleOutEmpty, Exit, Pump, QuiesceTest
      <3>4. CASE EndWait
        <4>1. epc' \in {"unlock", "unlockExit"} /\ why' = why
          BY <3>4 DEF EndWait
        <4>2. epc' = "unlock" /\ why = "reply" => Load("ee", "reply_seq") >= cseq
          BY <3>4 DEF EndWait, Satisfied
        <4>3. QED
          BY <1>2, <1>3, <2>1, <4>1, <4>2 DEF Replies
      <3>5. CASE LeaveWait
        <4>1. epc' \notin {"unlock", "idle"} /\ (epc' = "reply" => epc = "unlock" /\ why = "reply")
          BY <3>5, DataTypes DEF LeaveWait, Resume, PcOK
        <4>2. QED
          BY <1>3, <2>1, <4>1 DEF Replies
      <3>6. CASE TakeReply
        <4>1. epc = "reply" /\ epc' \in {"idle", "quiesce"} /\ got' = mem["reply_value"]
          BY <1>2, <3>6 DEF TakeReply
        <4>2. rec.kind = "call" /\ mem["reply_seq"] = cseq /\ mem["reply_value"] = rec.id
          BY <1>3, <4>1 DEF KindOK, Replies
        <4>3. QED
          BY <4>1, <4>2 DEF Replies
      <3>7. CASE Boundary
        <4>1. rec.kind = "vsync" /\ epc' \in {"idle", "quiesce"}
          BY <3>7 DEF Boundary, KindOK
        <4>2. QED
          BY <2>1, <4>1 DEF Replies
      <3>8. QED
        BY <1>5, <3>1, <3>2, <3>3, <3>4, <3>5, <3>6, <3>7 DEF Turns
    <2>3. QED
      BY <1>1, <1>3, <2>1, <2>2 DEF ReplyOK, Replies
  <1>6. QED
    BY <1>4, <1>5

LEMMA ReplyGS ==
  ASSUME TypeOK, CursorsOK, BackOK, OnTheirWay, ReplyOK, GSNext,
         NEW B, Layout(B), Unanswered(B), NEW n \in {rec.id - 1, rec.id}, Numbered(B, n)
  PROVE  ReplyOK'
  <1>1. /\ mem' = mem /\ rec' = rec /\ cseq' = cseq /\ why' = why /\ got' = got
        /\ epc' = epc \/ epc' \in {"awake", "qAwake"}
        /\ Fresh' => Fresh
    BY GSFrame, FreshGS
  <1>2. CASE ReplayCall
    <2>1. cur.arg = cseq /\ ~ Fresh /\ Replied(cur.id, cur.arg) /\ cseq \in Nat
      BY <1>2, ReplayedCall, GSStores, ReplyRead
    <2>2. Load("gs", "reply_seq")' = cseq /\ cseq <= cseq
      BY <2>1 DEF Replied, Load, Locs, GSLoc
    <2>3. QED
      BY <1>1, <2>1, <2>2 DEF ReplyOK
  <1>3. CASE ~ ReplayCall
    <2>1. Load("gs", "reply_seq")' = Load("gs", "reply_seq")
      BY <1>3, AnnouncedKept
    <2>2. QED
      BY <1>1, <2>1 DEF ReplyOK
  <1>4. QED
    BY <1>2, <1>3

LEMMA ReplyOKFlush ==
  ASSUME TypeOK, CursorsOK, ReplyOnWay, ReplyOK, NEW t \in Threads, Flush(t)
  PROVE  ReplyOK'
  <1>1. /\ UNCHANGED <<epc, why, got, rec, cseq>>
        /\ Load("gs", "reply_seq")' = Load("gs", "reply_seq") /\ Fresh' = Fresh
        /\ t = "ee" => mem'["reply_seq"] = mem["reply_seq"] /\ mem'["reply_value"] = mem["reply_value"]
    BY FlushFrame, LeftFlush DEF Threads, Own, EELoc, GSLoc, Load, eeVars
  <1>2. cseq \in Nat /\ mem["reply_seq"] \in Nat
    BY ReplyRead
  <1>3. CASE t = "ee"
    BY <1>1, <1>3 DEF ReplyOK
  <1>4. CASE t = "gs"
    <2>1. /\ mem'["reply_seq"] # mem["reply_seq"] =>
               /\ mem'["reply_seq"] = cseq /\ rec.kind = "call"
               /\ mem'["reply_value"] = rec.id
          /\ mem'["reply_value"] # mem["reply_value"] => mem["reply_seq"] < cseq
      BY <1>4, ReplyFlush
    <2>2. mem'["reply_seq"] <= cseq /\ (mem["reply_seq"] = cseq => mem'["reply_seq"] = cseq)
      BY <1>2, <2>1 DEF ReplyOK
    <2>3. rec.kind = "call" /\ mem'["reply_seq"] = cseq => mem'["reply_value"] = rec.id
      BY <1>2, <2>1 DEF ReplyOK
    <2>4. QED
      BY <1>1, <2>2, <2>3 DEF ReplyOK
  <1>5. QED
    BY <1>3, <1>4 DEF Threads

-----------------------------------------------------------------------------
(* The inductive invariant *)

LEMMA NoFaultEE ==
  ASSUME TypeOK, KindOK, ReplyOK, NoFault, EENext
  PROVE  NoFault'
  <1>1. CASE ~ Turns
    BY <1>1, OtherSteps DEF NoFault
  <1>2. CASE TakeReply
    <2>1. Load("ee", "reply_seq") = cseq
      BY <1>2, ReplyRead DEF TakeReply, ReplyOK
    <2>2. QED
      BY <1>2, <2>1 DEF TakeReply, NoFault
  <1>3. CASE Turns /\ ~ TakeReply
    BY <1>3 DEF Turns, Committed, Stall, RuleOutEmpty, EndWait, LeaveWait, Boundary, Exit, Pump,
                QuiesceTest, Call, Ends, NoFault
  <1>4. QED
    BY <1>1, <1>2, <1>3

LEMMA NoFaultGS ==
  ASSUME TypeOK, CursorsOK, BackOK, NoFault, GSNext, NEW B, Layout(B),
         ReplayVsync => cur.arg = vseen + 1
  PROVE  NoFault'
  <1>1. CASE NextRecord
    <2>1. cur.size \in 1..Cap /\ tail + cur.size <= upto /\ tail \in Nat /\ upto \in Nat
      <3>0. PICK t : t = tail
        OBVIOUS
      <3>1. ~ Advance
        BY <1>1 DEF NextRecord, Advance
      <3>2. QED
        BY <1>1, <3>0, <3>1, LeftGS, DataTypes DEF DataOK
    <2>2. cur.size # 0 /\ ~ (tail + cur.size > upto)
      BY <2>1
    <2>3. QED
      BY <1>1, <2>2 DEF NextRecord, NoFault
  <1>2. CASE ReplayVsync
    BY <1>2 DEF ReplayVsync, NoFault
  <1>3. CASE ~ NextRecord /\ ~ ReplayVsync
    BY <1>3 DEF GSNext, DrainStart, DrainEnd, ReplayData, ReplayCall, Advance, InnerFatal, Present,
       CheckSpaceWaiting, NotifyFence, NotifyRead, NotifyProducer, ParkOrStop, Park, ParkFence,
       StayParked, SleepGS, TimeoutGS, WakeUp, RepeatDue, RepeatUnlock, RepeatPresent, Unpark,
       UnparkUnlock, Stop, LastNotify, ProcessEnds, Ends, NoFault
  <1>4. QED
    BY <1>1, <1>2, <1>3

TurnInv == HandshakeInv /\ RingInv

\* The parts of the invariant about one layout of the ring.
LaidOut(B, n, m) ==
  /\ Layout(B) /\ Unanswered(B) /\ n \in {rec.id - 1, rec.id} /\ Numbered(B, n)
  /\ m \in {vseq - 1, vseq} /\ Scanned(B, m)
Scalars == KindOK /\ FieldOK /\ ReplyOnWay /\ ReplyOK /\ NoFault

LEMMA RingParts ==
  /\ RingInv <=> Scalars /\ \E B, n, m : LaidOut(B, n, m)
  /\ RingInv' <=> Scalars' /\ \E B, n, m : LaidOut(B, n, m)'
  <1>1. \A B : Layout(B) => B \in SUBSET (tail..head)
    BY DEF Layout
  <1>2. \A B : Layout(B)' => B \in SUBSET (tail'..head')
    BY DEF Layout
  <1>3. RingInv <=> Scalars /\ \E B, n, m : LaidOut(B, n, m)
    BY <1>1 DEF RingInv, Scalars, LaidOut
  <1>4. RingInv' <=> Scalars' /\ \E B, n, m : LaidOut(B, n, m)'
    BY <1>2 DEF RingInv, Scalars, LaidOut
  <1>5. QED
    BY <1>3, <1>4

LEMMA TurnEE ==
  ASSUME HandshakeInv, Scalars, NEW B, NEW n, NEW m, LaidOut(B, n, m), EENext
  PROVE  RingInv'
  <1>1. /\ TypeOK /\ CursorsOK /\ KindOK /\ FieldOK /\ ReplyOnWay /\ ReplyOK /\ NoFault
        /\ Layout(B) /\ Unanswered(B) /\ n \in {rec.id - 1, rec.id} /\ Numbered(B, n)
        /\ m \in {vseq - 1, vseq} /\ Scanned(B, m) /\ rec.kind # "wrap"
    BY DEF HandshakeInv, Scalars, LaidOut, Layout
  <1>2. PICK h \in Nat, k \in Nat : Publishes(h, k) /\ Layout(B \cup {k})'
    BY <1>1, LayoutEE
  <1>3. PICK i \in {rec'.id - 1, rec'.id} : Numbered(B \cup {k}, i)'
    BY <1>1, <1>2, NumberedEE
  <1>4. PICK j \in {vseq' - 1, vseq'} : Scanned(B \cup {k}, j)'
    BY <1>1, <1>2, ScannedEE
  <1>5. Unanswered(B \cup {k})'
    BY <1>1, <1>2, UnansweredEE
  <1>6. LaidOut(B \cup {k}, i, j)'
    BY <1>2, <1>3, <1>4, <1>5 DEF LaidOut
  <1>7. Scalars'
    BY <1>1, KindEE, FieldEE, ReplyOnWayEE, ReplyEE, NoFaultEE DEF Scalars
  <1>8. QED
    BY <1>6, <1>7, RingParts

LEMMA TurnGS ==
  ASSUME HandshakeInv, Scalars, NEW B, NEW n, NEW m, LaidOut(B, n, m), GSNext
  PROVE  RingInv'
  <1>1. /\ TypeOK /\ CursorsOK /\ BackOK /\ OnTheirWay
        /\ KindOK /\ FieldOK /\ ReplyOnWay /\ ReplyOK /\ NoFault
        /\ Layout(B) /\ Unanswered(B) /\ n \in {rec.id - 1, rec.id} /\ Numbered(B, n)
        /\ m \in {vseq - 1, vseq} /\ Scanned(B, m)
    BY DEF HandshakeInv, Scalars, LaidOut
  <1>2. ReplayVsync => cur.arg = vseen + 1
    <2>1. ReplayVsync => ~ Advance
      BY DEF ReplayVsync, Advance
    <2>2. QED
      BY <1>1, <2>1, ScannedGS
  <1>3. \E C : LaidOut(C, n, m)'
    <2>1. CASE Advance
      <3>1. PICK t : t = tail
        OBVIOUS
      <3>2. Layout(B \ {t})' /\ Unanswered(B \ {t})'
        BY <1>1, <2>1, <3>1, LayoutAdvance, UnansweredAdvance
      <3>3. Numbered(B \ {t}, n)' /\ rec' = rec
        BY <1>1, <2>1, <3>1, NumberedAdvance
      <3>4. Scanned(B \ {t}, m)' /\ vseq' = vseq
        BY <1>1, <2>1, <3>1, ScannedAdvance
      <3>5. LaidOut(B \ {t}, n, m)'
        BY <1>1, <3>2, <3>3, <3>4 DEF LaidOut
      <3>6. QED
        BY <3>5
    <2>2. CASE ~ Advance
      <3>1. Layout(B)' /\ Unanswered(B)'
        BY <1>1, <2>2, LayoutGS, UnansweredGS
      <3>2. Numbered(B, n)' /\ rec' = rec
        BY <1>1, <2>2, NumberedGS
      <3>3. Scanned(B, m)' /\ vseq' = vseq
        BY <1>1, <2>2, ScannedGS
      <3>4. LaidOut(B, n, m)'
        BY <1>1, <3>1, <3>2, <3>3 DEF LaidOut
      <3>5. QED
        BY <3>4
    <2>3. QED
      BY <2>1, <2>2
  <1>4. Scalars'
    <2>1. KindOK' /\ FieldOK'
      BY <1>1, <1>2, KindRest, FieldGS
    <2>2. ReplyOnWay' /\ ReplyOK'
      BY <1>1, ReplyOnWayGS, ReplyGS
    <2>3. NoFault'
      BY <1>1, <1>2, NoFaultGS
    <2>4. QED
      BY <2>1, <2>2, <2>3 DEF Scalars
  <1>5. QED
    BY <1>3, <1>4, RingParts

LEMMA TurnFlush ==
  ASSUME HandshakeInv, Scalars, NEW B, NEW n, NEW m, LaidOut(B, n, m), NEW t \in Threads, Flush(t)
  PROVE  RingInv'
  <1>1. /\ TypeOK /\ CursorsOK /\ KindOK /\ FieldOK /\ ReplyOnWay /\ ReplyOK /\ NoFault
        /\ Layout(B) /\ Unanswered(B) /\ n \in {rec.id - 1, rec.id} /\ Numbered(B, n)
        /\ m \in {vseq - 1, vseq} /\ Scanned(B, m)
    BY DEF HandshakeInv, Scalars, LaidOut
  <1>2. Layout(B)' /\ Unanswered(B)'
    BY <1>1, LayoutFlush, UnansweredFlush
  <1>3. Numbered(B, n)' /\ rec' = rec /\ Scanned(B, m)' /\ vseq' = vseq
    BY <1>1, NumberedFlush, ScannedFlush
  <1>4. LaidOut(B, n, m)'
    BY <1>1, <1>2, <1>3 DEF LaidOut
  <1>5. NoFault'
    BY <1>1, FlushFrame DEF NoFault
  <1>6. Scalars'
    BY <1>1, <1>5, KindRest, FieldFlush, ReplyOnWayFlush, ReplyOKFlush DEF Scalars
  <1>7. QED
    BY <1>4, <1>6, RingParts

LEMMA TurnInit == Init => TurnInv
  <1> SUFFICES ASSUME Init PROVE TurnInv
    OBVIOUS
  <1>1. HandshakeInv /\ TypeOK
    BY HandshakeInit DEF HandshakeInv
  <1>2. /\ sb["ee"] = <<>> /\ sb["gs"] = <<>> /\ \A loc \in Locs : mem[loc] = 0
        /\ \A loc : ~ Has(sb["ee"], loc) /\ ~ Has(sb["gs"], loc)
    BY <1>1, DataTypes, MemTypes DEF Init, Threads, Locs
  <1>3. /\ head = 0 /\ tail = 0 /\ Load("gs", "vsync_done") = 0 /\ Load("gs", "reply_seq") = 0
        /\ mem["head"] = 0 /\ mem["reply_seq"] = 0
    BY <1>1, <1>2, DataTypes, MemTypes DEF head, tail, Load, Threads, Locs, EELoc, GSLoc
  <1>4. KindOK /\ NoFault
    BY DEF Init, KindOK, NoFault, WaitPc
  <1>5. FieldOK
    BY <1>2, <1>3 DEF Init, FieldOK, Rising
  <1>6. ReplyOnWay /\ ReplyOK
    BY <1>2, <1>3 DEF Init, ReplyOnWay, ReplyOK, Fresh, WaitPc
  <1>7. Layout({0}) /\ ~ Within /\ ~ Fresh
    <2>1. ~ Within /\ ~ Fresh
      BY DEF Init, Within, InRecord, NotifyPc, Fresh, WaitPc
    <2>2. {0} \subseteq 0..0
      OBVIOUS
    <2>3. QED
      BY <1>2, <1>3, <2>1, <2>2 DEF Init, Layout
  <1>8. ToBegin({0}) = {} /\ ToScan({0}) = {} /\ ToAnswer({0}) = {}
    BY <1>3 DEF ToBegin, ToScan, ToAnswer
  <1>9. /\ Chain(ToBegin({0}), [b \in ToBegin({0}) |-> RecordAt(b).id], ran + 1, 0)
        /\ Chain(ToScan({0}), [b \in ToScan({0}) |-> RecordAt(b).arg], vseen + 1, 0)
    <2>1. ran = 0 /\ vseen = 0 /\ 1..0 = {} /\ 0 + 1 = 1
      BY DEF Init
    <2>2. QED
      BY <1>8, <2>1 DEF Chain
  <1>10. Numbered({0}, 0) /\ Scanned({0}, 0) /\ Unanswered({0})
    <2>1. Numbered({0}, 0)
      BY <1>7, <1>9 DEF Init, Numbered
    <2>2. Scanned({0}, 0)
      BY <1>7, <1>9 DEF Init, Scanned
    <2>3. QED
      BY <1>8, <2>1, <2>2 DEF Unanswered
  <1>11. LaidOut({0}, 0, 0)
    BY <1>7, <1>10 DEF Init, LaidOut
  <1>12. RingInv
    BY <1>4, <1>5, <1>6, <1>11, RingParts DEF Scalars
  <1>13. QED
    BY <1>1, <1>12 DEF TurnInv

LEMMA TurnNext == TurnInv /\ [Next]_vars => TurnInv'
  <1> SUFFICES ASSUME TurnInv, [Next]_vars PROVE TurnInv'
    OBVIOUS
  <1>1. HandshakeInv /\ HandshakeInv' /\ Scalars
    BY HandshakeNext, RingParts DEF TurnInv
  <1>2. PICK B, n, m : LaidOut(B, n, m)
    BY RingParts DEF TurnInv
  <1>3. CASE EENext
    BY <1>1, <1>2, <1>3, TurnEE DEF TurnInv
  <1>4. CASE GSNext
    BY <1>1, <1>2, <1>4, TurnGS DEF TurnInv
  <1>5. CASE \E t \in {"ee", "gs"} : Flush(t)
    <2>1. PICK t \in Threads : Flush(t)
      BY <1>5 DEF Threads
    <2>2. QED
      BY <1>1, <1>2, <2>1, TurnFlush DEF TurnInv
  <1>6. CASE Minimize \/ RestoreOrClose \/ UNCHANGED vars
    <2>1. UNCHANGED <<memVars, mu, buf, epc, eeVars, gpc, gsVars, fault, sampled>>
      BY <1>6 DEF Minimize, RestoreOrClose, vars, winVars
    <2>2. UNCHANGED <<mem, sb, buf, epc, rec, why, vseq, cseq, got, gpc, back, upto, vseen, ran,
                      fault, sampled>>
      BY <2>1 DEF memVars, eeVars, gsVars
    <2>3. /\ \A t, loc : Load(t, loc)' = Load(t, loc)
          /\ head' = head /\ tail' = tail /\ cur' = cur /\ \A b : RecordAt(b)' = RecordAt(b)
          /\ Within' = Within /\ Handled' = Handled /\ Fresh' = Fresh /\ Settled' = Settled
      <3>1. head' = head /\ tail' = tail /\ cur' = cur
        BY <2>2 DEF head, tail, cur, Load
      <3>2. QED
        BY <2>2, <3>1 DEF Load, RecordAt, Within, Handled, InRecord, Fresh, Settled
    <2>4. Scalars'
      BY <1>1, <2>2, <2>3 DEF Scalars, KindOK, FieldOK, ReplyOnWay, ReplyOK, NoFault, Closed
    <2>5. LaidOut(B, n, m)'
      <3>1. ToBegin(B)' = ToBegin(B) /\ ToScan(B)' = ToScan(B) /\ ToAnswer(B)' = ToAnswer(B)
        BY <2>3 DEF ToBegin, ToScan, ToAnswer
      <3>2. Layout(B)' /\ Unanswered(B)'
        BY <1>2, <2>2, <2>3, <3>1 DEF LaidOut, Layout, Unanswered
      <3>3. Numbered(B, n)' /\ Scanned(B, m)'
        BY <1>2, <2>2, <2>3, <3>1 DEF LaidOut, Numbered, Scanned
      <3>4. QED
        BY <1>2, <2>2, <3>2, <3>3 DEF LaidOut
    <2>6. QED
      BY <1>1, <2>4, <2>5, RingParts DEF TurnInv
  <1>7. QED
    BY <1>3, <1>4, <1>5, <1>6 DEF Next, Done

LEMMA TurnIsEnough == TurnInv => InItsTurn
  <1> SUFFICES ASSUME TurnInv PROVE InItsTurn
    OBVIOUS
  <1>1. ReplyOK /\ FieldOK /\ NoFault
    BY RingParts DEF TurnInv, Scalars
  <1>2. QED
    BY <1>1 DEF InItsTurn, ReplyOK, FieldOK, NoFault

\* The EE goes on with its own answer and no more than a field ahead of the
\* worker, and neither thread finds the other out of turn (await_reply and
\* field_sync of gs_threaded.cpp): whatever the capacity and the sizes of the
\* records, and however long the stores of the two threads are delayed.
THEOREM InItsTurnCorrect == Spec => []InItsTurn
  BY TurnInit, TurnNext, TurnIsEnough, PTL DEF Spec

-----------------------------------------------------------------------------
(* Reading the ring *)

\* What the record at position at holds, one copy per unit, and nothing for a Wrap.
Held(at) == IF RecordAt(at).kind = "wrap" THEN <<>>
            ELSE <<[unit \in 1..RecordAt(at).size |-> buf[(at + unit - 1) % Cap]]>>

\* One step of the reading f of the ring.
Reading(f, at) ==
  IF RecordAt(at).size = 0 \/ at + RecordAt(at).size > head THEN <<>>
  ELSE Held(at) \o f[at + RecordAt(at).size]

From == CHOOSE f : f = [at \in 0..head |-> Reading(f, at)]

LEMMA InRingIsFrom == InRing = From[tail]
  BY DEF InRing, From, Reading, Held, RecordAt

\* There is such a reading: it is made from the head down.
LEMMA ReadingExists ==
  ASSUME TypeOK
  PROVE  \E f : f = [at \in 0..head |-> Reading(f, at)]
  <1>1. head \in Nat
    BY DataTypes
  <1>2. \A at \in 0..head : RecordAt(at).size \in Nat \ {0}
    <2>1. SUFFICES ASSUME NEW at \in 0..head PROVE RecordAt(at).size \in Nat \ {0}
      OBVIOUS
    <2>2. at % Cap \in Offset
      BY <1>1, CapAssumption, Division DEF Offset
    <2>3. QED
      BY <2>2, DataTypes, CapType DEF RecordAt, DataOK, Record
  <1> DEFINE Good(d) == \E f : f = [at \in (head - d)..head |-> Reading(f, at)]
             Bad == {d \in 0..head : ~ Good(d)}
  <1>3. Good(0)
    <2> DEFINE f == [at \in (head - 0)..head |-> <<>>]
    <2>1. \A at \in (head - 0)..head : Reading(f, at) = <<>>
      <3>1. SUFFICES ASSUME NEW at \in (head - 0)..head PROVE Reading(f, at) = <<>>
        OBVIOUS
      <3>2. at = head /\ RecordAt(at).size \in Nat \ {0}
        BY <1>1, <1>2
      <3>3. at + RecordAt(at).size > head
        BY <1>1, <3>2
      <3>4. QED
        BY <3>3 DEF Reading
    <2>2. f = [at \in (head - 0)..head |-> Reading(f, at)]
      BY <2>1
    <2>3. QED
      BY <2>2
  <1>4. ASSUME NEW d \in 1..head, Good(d - 1) PROVE Good(d)
    <2>1. PICK f : f = [at \in (head - (d - 1))..head |-> Reading(f, at)]
      BY <1>4
    <2>2. PICK k \in Nat : k = head - d
      BY <1>1
    <2>3. head - (d - 1) = k + 1 /\ k \in 0..head
      BY <1>1, <2>2
    <2> DEFINE g == [at \in k..head |-> IF at = k THEN Reading(f, k) ELSE f[at]]
    <2>4. \A at \in (k + 1)..head : f[at] = Reading(f, at)
      BY <2>1, <2>3
    <2>5. ASSUME NEW at \in k..head PROVE Reading(g, at) = Reading(f, at)
      <3>1. at \in 0..head /\ RecordAt(at).size \in Nat \ {0}
        BY <1>1, <1>2, <2>2
      <3>2. CASE at + RecordAt(at).size > head
        BY <3>2 DEF Reading
      <3>3. CASE ~ (at + RecordAt(at).size > head)
        <4>1. at + RecordAt(at).size \in k..head /\ at + RecordAt(at).size # k
          BY <1>1, <2>2, <3>1, <3>3
        <4>2. g[at + RecordAt(at).size] = f[at + RecordAt(at).size]
          BY <4>1
        <4> HIDE DEF g
        <4>3. QED
          BY <4>2 DEF Reading
      <3>4. QED
        BY <3>2, <3>3
    <2>6. \A at \in k..head : g[at] = Reading(f, at)
      <3>1. SUFFICES ASSUME NEW at \in k..head PROVE g[at] = Reading(f, at)
        OBVIOUS
      <3>2. CASE at = k
        BY <3>2
      <3>3. CASE at # k
        <4>1. at \in (k + 1)..head
          BY <1>1, <2>2, <3>3
        <4>2. QED
          BY <2>4, <3>3, <4>1
      <3>4. QED
        BY <3>2, <3>3
    <2>7. g = [at \in k..head |-> Reading(g, at)]
      BY <2>5, <2>6
    <2>8. QED
      BY <2>2, <2>7
  <1>5. Bad = {}
    <2>1. SUFFICES ASSUME Bad # {} PROVE FALSE
      OBVIOUS
    <2>2. PICK d \in Bad : \A e \in Bad : d <= e
      <3>1. Bad \in SUBSET Nat
        OBVIOUS
      <3> HIDE DEF Bad
      <3>2. QED
        BY <2>1, <3>1, LeastNat
    <2>3. d \in 0..head /\ ~ Good(d) /\ d # 0
      BY <1>3, <2>2
    <2>4. d \in 1..head /\ d - 1 \in 0..head /\ ~ (d <= d - 1)
      BY <1>1, <2>3
    <2>5. d - 1 \notin Bad
      BY <2>2, <2>4
    <2>6. QED
      BY <1>4, <2>3, <2>4, <2>5
  <1>6. Good(head)
    BY <1>1, <1>5
  <1>7. QED
    BY <1>1, <1>6

LEMMA FromReads ==
  ASSUME TypeOK
  PROVE  /\ \A at \in 0..head : From[at] = Reading(From, at)
         /\ head \in Nat /\ From[head] = <<>>
  <1>1. From = [at \in 0..head |-> Reading(From, at)]
    BY ReadingExists DEF From
  <1>2. \A at \in 0..head : From[at] = Reading(From, at)
    <2> DEFINE F == From
    <2>1. F = [at \in 0..head |-> Reading(F, at)]
      BY <1>1
    <2> HIDE DEF F
    <2>2. \A at \in 0..head : F[at] = Reading(F, at)
      BY <2>1
    <2>3. QED
      BY <2>2 DEF F
  <1>3. head \in Nat /\ head \in 0..head /\ RecordAt(head).size \in 1..Cap
    BY DataTypes DEF RecordAt, DataOK, Record
  <1>4. head + RecordAt(head).size > head
    BY <1>3, CapType
  <1>5. QED
    BY <1>2, <1>3, <1>4 DEF Reading

\* The contents of the calls in the ring.
Contents == UNION {[1..n -> Record] : n \in 1..Cap}

\* From a position of the layout on, the ring reads as the record there and then the rest.
LEMMA ReadsOn ==
  ASSUME TypeOK, CursorsOK, NEW B, Layout(B), NEW b \in B \ {head}
  PROVE  /\ From[b] = Held(b) \o From[b + RecordAt(b).size]
         /\ b + RecordAt(b).size \in B /\ b < b + RecordAt(b).size
         /\ RecordAt(b).kind = "wrap" => Held(b) = <<>>
         /\ RecordAt(b).kind # "wrap" =>
              /\ Held(b) = <<[unit \in 1..RecordAt(b).size |-> RecordAt(b)]>>
              /\ [unit \in 1..RecordAt(b).size |-> RecordAt(b)] \in Contents
  <1>1. /\ b \in Nat /\ b < head /\ head \in Nat /\ RecordAt(b).size \in 1..Cap
        /\ b + RecordAt(b).size <= head /\ RecordAt(b) \in Record
    BY LayoutTypes, CursorOrder
  <1>2. b + RecordAt(b).size \in B /\ b < b + RecordAt(b).size
    BY <1>1 DEF Layout
  <1>3. From[b] = Held(b) \o From[b + RecordAt(b).size]
    <2>1. b \in 0..head /\ ~ (RecordAt(b).size = 0) /\ ~ (b + RecordAt(b).size > head)
      BY <1>1
    <2>2. QED
      BY <2>1, FromReads DEF Reading
  <1>4. ASSUME RecordAt(b).kind # "wrap"
        PROVE  /\ Held(b) = <<[unit \in 1..RecordAt(b).size |-> RecordAt(b)]>>
               /\ [unit \in 1..RecordAt(b).size |-> RecordAt(b)] \in Contents
    <2>1. ASSUME NEW unit \in 1..RecordAt(b).size
          PROVE  buf[(b + unit - 1) % Cap] = RecordAt(b)
      <3>1. unit - 1 \in 0..(RecordAt(b).size - 1) /\ b + unit - 1 = b + (unit - 1)
        BY <1>1
      <3>2. QED
        BY <1>4, <3>1 DEF Layout
    <2>2. [unit \in 1..RecordAt(b).size |-> RecordAt(b)] \in [1..RecordAt(b).size -> Record]
      BY <1>1
    <2>3. QED
      BY <1>1, <1>4, <2>1, <2>2 DEF Held, Contents
  <1>5. QED
    BY <1>1, <1>2, <1>3, <1>4 DEF Held

\* What holds at the head, and at a position when it holds at the next, holds in the layout.
LEMMA BackFromHead ==
  ASSUME TypeOK, CursorsOK, NEW B, Layout(B), NEW G, head \in G,
         \A b \in B \ {head} : b + RecordAt(b).size \in G => b \in G
  PROVE  B \subseteq G
  <1>1. /\ B \in SUBSET Nat /\ head \in Nat /\ \A b \in B : b <= head
        /\ \A b \in B \ {head} : RecordAt(b).size \in 1..Cap /\ b + RecordAt(b).size \in B
    BY LayoutTypes, CursorOrder DEF Layout
  <1> DEFINE Bad == {d \in 0..head : head - d \in B \ G}
  <1>2. Bad = {}
    <2>1. SUFFICES ASSUME Bad # {} PROVE FALSE
      OBVIOUS
    <2>2. PICK d \in Bad : \A e \in Bad : d <= e
      <3>1. Bad \in SUBSET Nat
        BY <1>1
      <3> HIDE DEF Bad
      <3>2. QED
        BY <2>1, <3>1, LeastNat
    <2>3. PICK b \in B : b = head - d
      BY <2>2
    <2>4. b \notin G /\ b # head /\ d \in 0..head
      BY <2>2, <2>3
    <2>5. PICK e : e = d - RecordAt(b).size
      OBVIOUS
    <2>6. b + RecordAt(b).size \in B \ G
      BY <1>1, <2>4
    <2>7. head - e = b + RecordAt(b).size /\ e \in 0..head /\ e < d
      BY <1>1, <2>3, <2>4, <2>5, <2>6
    <2>8. e \in Bad
      BY <2>6, <2>7
    <2>9. QED
      BY <2>2, <2>4, <2>7, <2>8
  <1>3. ASSUME NEW b \in B PROVE b \in G
    <2>1. head - b \in 0..head /\ head - (head - b) = b
      BY <1>1
    <2>2. QED
      BY <1>2, <2>1
  <1>4. QED
    BY <1>3

LEMMA FromType ==
  ASSUME TypeOK, CursorsOK, NEW B, Layout(B)
  PROVE  \A b \in B : From[b] \in Seq(Contents)
  <1> DEFINE G == {b \in B : From[b] \in Seq(Contents)}
  <1>1. head \in B /\ From[head] = <<>>
    BY LayoutTypes, FromReads
  <1>2. ASSUME NEW b \in B \ {head}, b + RecordAt(b).size \in G PROVE b \in G
    <2>1. /\ From[b] = Held(b) \o From[b + RecordAt(b).size]
          /\ RecordAt(b).kind = "wrap" => Held(b) = <<>>
          /\ RecordAt(b).kind # "wrap" =>
               /\ Held(b) = <<[unit \in 1..RecordAt(b).size |-> RecordAt(b)]>>
               /\ [unit \in 1..RecordAt(b).size |-> RecordAt(b)] \in Contents
      BY ReadsOn
    <2>2. Held(b) \in Seq(Contents)
      <3>1. CASE RecordAt(b).kind = "wrap"
        BY <2>1, <3>1
      <3>2. CASE RecordAt(b).kind # "wrap"
        <4> DEFINE c == [unit \in 1..RecordAt(b).size |-> RecordAt(b)]
        <4>1. Held(b) = <<c>> /\ c \in Contents
          BY <2>1, <3>2
        <4> HIDE DEF c
        <4>2. QED
          BY <4>1
      <3>3. QED
        BY <3>1, <3>2
    <2>3. From[b + RecordAt(b).size] \in Seq(Contents)
      BY <1>2
    <2>4. From[b] \in Seq(Contents)
      BY <2>1, <2>2, <2>3
    <2>5. QED
      BY <2>4
  <1> HIDE DEF G
  <1>3. B \subseteq G
    <2>1. head \in G
      <3>1. <<>> \in Seq(Contents)
        OBVIOUS
      <3>2. QED
        BY <1>1, <3>1 DEF G
    <2>2. QED
      BY <1>2, <2>1, BackFromHead
  <1>4. QED
    BY <1>3 DEF G

\* Both facts hold after a step too.
ReadsWell ==
  /\ TypeOK => From[head] = <<>>
  /\ InRing = From[tail]
  /\ TypeOK /\ CursorsOK =>
       \A B : Layout(B) => \A b \in B \ {head} :
         /\ From[b] = Held(b) \o From[b + RecordAt(b).size]
         /\ b + RecordAt(b).size \in B /\ b < b + RecordAt(b).size
         /\ RecordAt(b).kind = "wrap" => Held(b) = <<>>
         /\ RecordAt(b).kind # "wrap" =>
              Held(b) = <<[unit \in 1..RecordAt(b).size |-> RecordAt(b)]>>

LEMMA ReadsWellNow == ReadsWell
  BY FromReads, InRingIsFrom, ReadsOn DEF ReadsWell

LEMMA ReadsWellNext == ReadsWell'
  BY ReadsWellNow, PTL

LEMMA ConcatInTurn ==
  ASSUME NEW S, NEW x \in Seq(S), NEW y \in Seq(S), NEW z \in Seq(S)
  PROVE  x \o (y \o z) = (x \o y) \o z /\ x \o <<>> = x /\ <<>> \o x = x
  OBVIOUS

-----------------------------------------------------------------------------
(* The steps of the EE append to the queue *)

\* A commit appends its record, every other step leaves the calls as they are.
LEMMA FromEE ==
  ASSUME TypeOK, CursorsOK, EENext, TypeOK', CursorsOK', NEW B, Layout(B),
         NEW h \in Nat, NEW k \in Nat, Publishes(h, k), Layout(B \cup {k})'
  PROVE  InRing' = IF Commit THEN Append(InRing, [unit \in 1..rec.size |-> rec]) ELSE InRing
  <1> DEFINE C == B \cup {k}
             New == IF Commit THEN <<[unit \in 1..rec.size |-> rec]>> ELSE <<>>
             G == {b \in B : From'[b] = From[b] \o New}
  <1>1. h = head /\ k = head' /\ h \in B /\ From[h] = <<>> /\ From'[k] = <<>>
        /\ \A b \in B : b <= h
    BY LayoutTypes, FromReads, ReadsWellNext DEF Publishes, ReadsWell
  <1>2. rec \in Record /\ rec.size \in 1..Cap /\ rec.kind # "wrap"
    BY DataTypes DEF Layout
  <1>3. New \in Seq(Contents)
    <2>1. [unit \in 1..rec.size |-> rec] \in Contents
      BY <1>2 DEF Contents
    <2> DEFINE c == [unit \in 1..rec.size |-> rec]
    <2> HIDE DEF c
    <2>2. <<c>> \in Seq(Contents) /\ <<>> \in Seq(Contents)
      BY <2>1 DEF c
    <2>3. QED
      BY <2>2 DEF c
  <1>4. From'[h] = New
    <2>1. CASE h = k
      <3>1. ~ Commit
        BY <2>1, <1>1 DEF Publishes
      <3>2. QED
        BY <1>1, <2>1, <3>1
    <2>2. CASE h # k
      <3>1. h < k /\ (WriteWrap \/ Commit) /\ h \in C \ {k}
        BY <1>1, <2>2 DEF Publishes
      <3>2. Layout(C)'
        OBVIOUS
      <3>3. /\ From'[h] = Held(h)' \o From'[h + RecordAt(h)'.size]
            /\ h + RecordAt(h)'.size \in C /\ h < h + RecordAt(h)'.size
            /\ RecordAt(h)'.kind = "wrap" => Held(h)' = <<>>
            /\ RecordAt(h)'.kind # "wrap" =>
                 Held(h)' = <<[unit \in 1..RecordAt(h)'.size |-> RecordAt(h)']>>
        BY <1>1, <3>1, <3>2, ReadsWellNext DEF ReadsWell
      <3>4. h + RecordAt(h)'.size = k
        <4>1. PICK x : x = h + RecordAt(h)'.size
          OBVIOUS
        <4>2. x \in C /\ h < x
          BY <3>3, <4>1
        <4>3. x \notin B
          <5>1. x \in B => x \in Nat /\ x <= h
            BY <1>1, LayoutTypes
          <5>2. QED
            BY <4>2, <5>1
        <4>4. QED
          BY <4>1, <4>2, <4>3
      <3>5. Held(h)' = New
        <4>1. CASE WriteWrap
          BY <3>3, <4>1 DEF Publishes, WriteWrap, Commit
        <4>2. CASE Commit
          BY <1>2, <3>3, <4>2 DEF Publishes
        <4>3. QED
          BY <3>1, <4>1, <4>2
      <3> HIDE DEF New
      <3>6. From'[h] = New \o <<>>
        BY <1>1, <3>3, <3>4, <3>5
      <3>7. QED
        BY <1>3, <3>6, ConcatInTurn
    <2>3. QED
      BY <2>1, <2>2
  <1>5. ASSUME NEW b \in B \ {head}, b + RecordAt(b).size \in G PROVE b \in G
    <2>1. /\ From[b] = Held(b) \o From[b + RecordAt(b).size]
          /\ RecordAt(b).kind = "wrap" => Held(b) = <<>>
          /\ RecordAt(b).kind # "wrap" =>
               /\ Held(b) = <<[unit \in 1..RecordAt(b).size |-> RecordAt(b)]>>
               /\ [unit \in 1..RecordAt(b).size |-> RecordAt(b)] \in Contents
      BY ReadsOn
    <2>2. b \in C \ {head'} /\ RecordAt(b)' = RecordAt(b)
      <3>1. b < head
        BY LayoutTypes
      <3>2. b # k
        BY <1>1, <3>1 DEF Publishes
      <3>3. QED
        BY <1>1, <3>2, LeftEE
    <2>3. /\ From'[b] = Held(b)' \o From'[b + RecordAt(b)'.size]
          /\ RecordAt(b)'.kind = "wrap" => Held(b)' = <<>>
          /\ RecordAt(b)'.kind # "wrap" =>
               Held(b)' = <<[unit \in 1..RecordAt(b)'.size |-> RecordAt(b)']>>
      <3>1. Layout(C)'
        OBVIOUS
      <3>2. QED
        BY <2>2, <3>1, ReadsWellNext DEF ReadsWell
    <2>4. Held(b)' = Held(b)
      BY <2>1, <2>2, <2>3
    <2>5. From'[b] = Held(b) \o (From[b + RecordAt(b).size] \o New)
      BY <1>5, <2>2, <2>3, <2>4
    <2>6. Held(b) \in Seq(Contents) /\ From[b + RecordAt(b).size] \in Seq(Contents)
      <3>1. From[b + RecordAt(b).size] \in Seq(Contents)
        BY <1>5, FromType
      <3>2. CASE RecordAt(b).kind = "wrap"
        BY <2>1, <3>1, <3>2
      <3>3. CASE RecordAt(b).kind # "wrap"
        <4> DEFINE c == [unit \in 1..RecordAt(b).size |-> RecordAt(b)]
        <4>1. Held(b) = <<c>> /\ c \in Contents
          BY <2>1, <3>3
        <4> HIDE DEF c
        <4>2. QED
          BY <3>1, <4>1
      <3>4. QED
        BY <3>2, <3>3
    <2>7. From'[b] = (Held(b) \o From[b + RecordAt(b).size]) \o New
      <3> DEFINE x == Held(b)
                 y == From[b + RecordAt(b).size]
      <3>1. x \in Seq(Contents) /\ y \in Seq(Contents) /\ New \in Seq(Contents)
        BY <1>3, <2>6
      <3>2. From'[b] = x \o (y \o New)
        BY <2>5
      <3> HIDE DEF x, y, New
      <3>3. From'[b] = (x \o y) \o New
        BY <3>1, <3>2, ConcatInTurn, SMTT(30)
      <3>4. QED
        BY <3>3 DEF x, y
    <2>8. QED
      BY <2>1, <2>7
  <1>6. head \in G
    <2> HIDE DEF New
    <2>1. <<>> \o New = New
      BY <1>3
    <2>2. QED
      BY <1>1, <1>4, <2>1
  <1> HIDE DEF G
  <1>7. tail \in G
    <2>1. B \subseteq G
      BY <1>5, <1>6, BackFromHead
    <2>2. QED
      BY <2>1, LayoutTypes
  <1>8. tail' = tail /\ From[tail] \in Seq(Contents)
    BY EEFrame, LayoutTypes, FromType
  <1>9. InRing' = InRing \o New
    <2>1. InRing' = From'[tail'] /\ InRing = From[tail]
      BY InRingIsFrom, ReadsWellNext DEF ReadsWell
    <2>2. QED
      BY <1>7, <1>8, <2>1 DEF G
  <1> DEFINE c == [unit \in 1..rec.size |-> rec]
             q == InRing
  <1>10. q \in Seq(Contents) /\ InRing' = IF Commit THEN q \o <<c>> ELSE q \o <<>>
    BY <1>8, <1>9, InRingIsFrom
  <1> HIDE DEF c, q
  <1>11. q \o <<>> = q /\ q \o <<c>> = Append(q, c)
    BY <1>10
  <1>12. QED
    BY <1>10, <1>11 DEF c, q
-----------------------------------------------------------------------------
(* Two more invariants: what the EE writes is a call, and the worker stops  *)
(* over an empty ring                                                       *)

CallsOK == /\ rec.id <= MaxOps /\ rec.size \in Sizes \cup {1}
           /\ vseq <= rec.id /\ cseq <= rec.id /\ rec.arg <= rec.id

\* Nothing is written once the EE has raised the shutdown, so that a worker that
\* saw it with nothing left stops for good; a Wrap may lie there, but no call.
StopPc == {"stop", "lastNotify", "gone"}
StopOK == gpc \in StopPc =>
            /\ epc \in {"qNotify"} \cup QuiescePc
            /\ tail = head \/ WrapFrom(tail)

QueueInv == TurnInv /\ CallsOK /\ StopOK

LEMMA CallsInit == Init => CallsOK
  BY MaxOpsAssumption DEF Init, CallsOK

LEMMA CallsNext ==
  ASSUME TypeOK, CallsOK, [Next]_vars
  PROVE  CallsOK'
  <1>1. rec.id \in Nat /\ vseq \in Nat /\ cseq \in Nat /\ rec.arg \in Nat /\ MaxOps \in Nat
    BY DataTypes, MaxOpsAssumption DEF DataOK
  <1>2. CASE EENext
    <2>1. CASE \E kind \in Kind \ {"wrap"}, size \in Sizes \cup {1} : Call(kind, size)
      <3>1. PICK kind \in Kind \ {"wrap"}, size \in Sizes \cup {1} : Call(kind, size)
        BY <2>1
      <3>2. /\ rec.id < MaxOps /\ rec'.id = rec.id + 1 /\ rec'.size = size
            /\ vseq' \in {vseq, vseq + 1} /\ cseq' \in {cseq, cseq + 1}
            /\ rec'.arg \in {vseq', cseq', 0}
        BY <3>1 DEF Call
      <3>3. QED
        BY <1>1, <3>2 DEF CallsOK
    <2>2. CASE ~ \E kind \in Kind \ {"wrap"}, size \in Sizes \cup {1} : Call(kind, size)
      <3>1. rec' = rec /\ vseq' = vseq /\ cseq' = cseq
        BY <1>2, <2>2 DEF EENext, WriteWrap, WriteRecord, Commit, WakeFence, WakeRead, WakeNotify,
           Committed, Stall, RuleOutEmpty, LockAndFlag, WaitFence, EndWait, GiveUp,
           LeaveWait, StillWaiting, SleepEE, TimeoutEE, Pump, Relock, TakeReply, Boundary, Exit,
           RaiseShutdown, NotifyShutdown, QuiesceTest, Abandon, QuiesceFlag, QuiesceSleep,
           QuiesceTimeout, QuiesceWake, QuiesceUnflag, QuiesceUnlock, Join, eeVars, EEOnly
      <3>2. QED
        BY <3>1 DEF CallsOK
    <2>3. QED
      BY <2>1, <2>2
  <1>3. CASE GSNext
    BY <1>3, GSFrame DEF CallsOK
  <1>4. CASE \E t \in {"ee", "gs"} : Flush(t)
    BY <1>4 DEF Flush, CallsOK, eeVars
  <1>5. CASE Minimize \/ RestoreOrClose \/ Done \/ UNCHANGED vars
    BY <1>5 DEF Minimize, RestoreOrClose, Done, vars, CallsOK, eeVars
  <1>6. QED
    BY <1>2, <1>3, <1>4, <1>5 DEF Next

\* Once the shutdown is raised the EE writes and publishes nothing more.
LEMMA QuiescedEE ==
  ASSUME TypeOK, EENext, epc \in {"qNotify"} \cup QuiescePc
  PROVE  /\ epc' \in {"qNotify"} \cup QuiescePc
         /\ buf' = buf /\ head' = head /\ ~ WriteWrap /\ ~ Commit
  <1>1. ~ WriteWrap /\ ~ Commit
    BY DEF WriteWrap, Commit, QuiescePc
  <1>2. epc' \in {"qNotify"} \cup QuiescePc /\ buf' = buf
    BY DEF EENext, Call, WriteWrap, WriteRecord, Commit, WakeFence, WakeRead, WakeNotify,
       Committed, Stall, RuleOutEmpty, LockAndFlag, WaitFence, EndWait, GiveUp,
       LeaveWait, StillWaiting, SleepEE, TimeoutEE, Pump, Relock, TakeReply, Boundary, Exit,
       RaiseShutdown, NotifyShutdown, QuiesceTest, Abandon, QuiesceFlag, QuiesceSleep,
       QuiesceTimeout, QuiesceWake, QuiesceUnflag, QuiesceUnlock, Join, QuiescePc, EEOnly
  <1>3. QED
    BY <1>1, <1>2, HeadKept

LEMMA StopInit == Init => StopOK
  BY DEF Init, StopOK, StopPc

LEMMA StopNext ==
  ASSUME TypeOK, BackOK, OnTheirWay, LastWords, CursorsOK, WrapOnly, StopOK, [Next]_vars
  PROVE  StopOK'
  <1>1. CASE EENext
    <2>1. gpc' \in StopPc => gpc \in StopPc
      BY <1>1, EEFrame DEF StopPc
    <2>2. SUFFICES ASSUME gpc' \in StopPc
                   PROVE  /\ epc' \in {"qNotify"} \cup QuiescePc
                          /\ tail' = head' \/ WrapFrom(tail)'
      BY DEF StopOK
    <2>3. epc \in {"qNotify"} \cup QuiescePc /\ (tail = head \/ WrapFrom(tail))
      BY <2>1, <2>2 DEF StopOK
    <2>4. epc' \in {"qNotify"} \cup QuiescePc /\ buf' = buf /\ head' = head /\ tail' = tail
      BY <1>1, <2>3, QuiescedEE, EEFrame
    <2>5. QED
      BY <2>3, <2>4 DEF WrapFrom
  <1>2. CASE GSNext
    <2>1. SUFFICES ASSUME gpc' \in StopPc
                   PROVE  /\ epc' \in {"qNotify"} \cup QuiescePc
                          /\ tail' = head' \/ WrapFrom(tail)'
      BY DEF StopOK
    <2>2. gpc \in StopPc \/ (ParkOrStop /\ gpc' = "stop")
      BY <1>2, <2>1 DEF GSNext, DrainStart, DrainEnd, NextRecord, ReplayData, ReplayVsync,
         ReplayCall, InnerFatal, Present, Advance, CheckSpaceWaiting, NotifyFence, NotifyRead,
         NotifyProducer, ParkOrStop, Park, ParkFence, StayParked, SleepGS, TimeoutGS, WakeUp,
         RepeatDue, RepeatUnlock, RepeatPresent, Unpark, UnparkUnlock, Stop, LastNotify, ProcessEnds,
         StopPc, BackOK, GSOnly
    <2>3. ~ Advance
      BY <2>2 DEF Advance, ParkOrStop, StopPc
    <2>4. /\ tail' = tail /\ head' = head /\ buf' = buf
          /\ \/ epc' = epc
             \/ epc = "asleep" /\ epc' = "awake"
             \/ epc = "qAsleep" /\ epc' = "qAwake"
      BY <1>2, <2>3, GSFrame, TailKept
    <2>5. epc \in {"qNotify"} \cup QuiescePc /\ (tail = head \/ WrapFrom(tail))
      <3>1. CASE gpc \in StopPc
        BY <3>1 DEF StopOK
      <3>2. CASE ParkOrStop /\ gpc' = "stop"
        <4>1. Load("gs", "shutdown") = 1 /\ Load("gs", "head") = tail
          BY <3>2 DEF ParkOrStop, GSOnly
        <4>2. Load("gs", "shutdown") = mem["shutdown"] /\ Load("gs", "head") = mem["head"]
          BY DataTypes, OtherLoads DEF Load, EELoc
        <4>3. epc \in {"qNotify"} \cup QuiescePc
          BY <4>1, <4>2 DEF LastWords
        <4>4. epc # "wake"
          BY <4>3 DEF QuiescePc
        <4>5. QED
          BY <4>1, <4>2, <4>3, <4>4 DEF WrapOnly
      <3>3. QED
        BY <2>2, <3>1, <3>2
    <2>6. epc' \in {"qNotify"} \cup QuiescePc
      BY <2>4, <2>5 DEF QuiescePc
    <2>7. QED
      BY <2>4, <2>5, <2>6 DEF WrapFrom
  <1>3. CASE \E t \in {"ee", "gs"} : Flush(t)
    <2>1. PICK t \in Threads : Flush(t)
      BY <1>3 DEF Threads
    <2>2. tail' = tail /\ head' = head /\ buf' = buf /\ epc' = epc /\ gpc' = gpc
      BY <2>1, FlushFrame
    <2>3. QED
      BY <2>2 DEF StopOK, WrapFrom
  <1>4. CASE Minimize \/ RestoreOrClose \/ Done \/ UNCHANGED vars
    <2>1. UNCHANGED <<mem, sb, buf, epc, gpc>>
      BY <1>4 DEF Minimize, RestoreOrClose, Done, vars, memVars
    <2>2. head' = head /\ tail' = tail
      BY <2>1 DEF head, tail, Load
    <2>3. QED
      BY <2>1, <2>2 DEF StopOK, WrapFrom
  <1>5. QED
    BY <1>1, <1>2, <1>3, <1>4 DEF Next

-----------------------------------------------------------------------------
(* The steps of the worker take calls off the queue *)

\* What the ring reads as depends on its units and the head only.
LEMMA FromSame ==
  ASSUME buf' = buf, head' = head
  PROVE  From' = From
  <1>1. \A at : RecordAt(at)' = RecordAt(at)
    BY DEF RecordAt
  <1>2. \A at : Held(at)' = Held(at)
    BY <1>1 DEF Held
  <1>3. \A f, at : Reading(f, at)' = Reading(f, at)
    BY <1>1, <1>2 DEF Reading
  <1>4. QED
    BY <1>3 DEF From

\* The oldest call in the ring is the one at the worker's tail, unless a Wrap is there.
LEMMA OldestCall ==
  ASSUME TypeOK, CursorsOK, NEW B, Layout(B), tail < head
  PROVE  /\ cur.kind = "wrap" => InRing = From[tail + cur.size]
         /\ cur.kind # "wrap" => /\ InRing # <<>> /\ Head(InRing)[1].id = cur.id
                                 /\ Tail(InRing) = From[tail + cur.size]
  <1>1. /\ tail \in B \ {head} /\ cur = RecordAt(tail) /\ cur.size \in 1..Cap
        /\ InRing = From[tail]
    BY LayoutTypes, DataTypes, InRingIsFrom DEF cur, RecordAt
  <1>2. /\ From[tail] = Held(tail) \o From[tail + cur.size]
        /\ tail + cur.size \in B
        /\ cur.kind = "wrap" => Held(tail) = <<>>
        /\ cur.kind # "wrap" => /\ Held(tail) = <<[unit \in 1..cur.size |-> cur]>>
                                /\ [unit \in 1..cur.size |-> cur] \in Contents
    <2>1. PICK b \in B \ {head} : b = tail
      BY <1>1
    <2>2. /\ From[b] = Held(b) \o From[b + RecordAt(b).size]
          /\ b + RecordAt(b).size \in B
          /\ RecordAt(b).kind = "wrap" => Held(b) = <<>>
          /\ RecordAt(b).kind # "wrap" =>
               /\ Held(b) = <<[unit \in 1..RecordAt(b).size |-> RecordAt(b)]>>
               /\ [unit \in 1..RecordAt(b).size |-> RecordAt(b)] \in Contents
      BY ReadsOn
    <2>3. QED
      BY <1>1, <2>1, <2>2
  <1>3. PICK y : y = From[tail + cur.size]
    OBVIOUS
  <1>4. y \in Seq(Contents)
    BY <1>2, <1>3, FromType
  <1>5. CASE cur.kind = "wrap"
    BY <1>1, <1>2, <1>3, <1>4, <1>5
  <1>6. CASE cur.kind # "wrap"
    <2> DEFINE c == [unit \in 1..cur.size |-> cur]
    <2>1. c[1] = cur /\ c \in Contents /\ InRing = <<c>> \o y
      <3>1. 1 \in 1..cur.size
        BY <1>1, CapType
      <3>2. c[1] = cur
        BY <3>1
      <3> HIDE DEF c
      <3>3. c \in Contents /\ Held(tail) = <<c>>
        BY <1>2, <1>6 DEF c
      <3>4. QED
        BY <1>1, <1>2, <1>3, <3>2, <3>3
    <2> HIDE DEF c
    <2>2. InRing # <<>> /\ Head(InRing) = c /\ Tail(InRing) = y
      BY <1>4, <2>1
    <2>3. QED
      BY <1>3, <1>6, <2>1, <2>2
  <1>7. QED
    BY <1>5, <1>6

LEMMA LastOfConcat ==
  ASSUME NEW S, NEW x \in Seq(S), NEW y \in Seq(S), y # <<>>
  PROVE  x \o y # <<>> /\ (x \o y)[Len(x \o y)] = y[Len(y)]
  <1>1. Len(x) \in Nat /\ Len(y) \in Nat /\ Len(y) # 0
    OBVIOUS
  <1>2. Len(x \o y) = Len(x) + Len(y)
    OBVIOUS
  <1>3. Len(x \o y) # 0 /\ x \o y \in Seq(S)
    BY <1>1, <1>2
  <1>4. (x \o y)[Len(x) + Len(y)] = y[Len(y)]
    BY <1>1
  <1>5. QED
    BY <1>2, <1>3, <1>4

\* The last call in the ring has the number of the last one committed.
LEMMA LastCall ==
  ASSUME TypeOK, CursorsOK, NEW B, Layout(B), NEW n \in Int, Numbered(B, n)
  PROVE  n = IF InRing = <<>> THEN ran ELSE InRing[Len(InRing)][1].id
  <1> DEFINE W == {b \in B \ {head} : RecordAt(b).kind # "wrap"}
             f == [b \in ToBegin(B) |-> RecordAt(b).id]
  <1>1. /\ B \in SUBSET Nat /\ tail \in B /\ head \in B /\ InRing = From[tail] /\ From[head] = <<>>
        /\ head \in Nat /\ tail \in Nat
        /\ \A b \in B : tail <= b /\ b <= head
        /\ \A b \in B \ {head} : b < head
    BY LayoutTypes, FromReads, InRingIsFrom, DataTypes
  <1>2. /\ ran <= n /\ ran \in Nat /\ Chain(ToBegin(B), f, ran + 1, n)
        /\ Within /\ cur.kind # "wrap" => cur.id = ran
    BY DataTypes DEF Numbered, DataOK
  <1>3. ToBegin(B) = {b \in W : ~ (b = tail /\ Within)} /\ ToBegin(B) \subseteq W
    BY DEF ToBegin
  <1>4. ToBegin(B) = {} => n = ran
    <2>1. SUFFICES ASSUME ToBegin(B) = {}, n # ran PROVE FALSE
      OBVIOUS
    <2>2. n \in (ran + 1)..n
      BY <1>2, <2>1
    <2>3. QED
      BY <1>2, <2>1, <2>2 DEF Chain
  <1>5. CASE W = {}
    <2> DEFINE G == {b \in B : From[b] = <<>>}
    <2>1. ASSUME NEW b \in B \ {head}, b + RecordAt(b).size \in G PROVE b \in G
      <3>1. From[b] = Held(b) \o From[b + RecordAt(b).size] /\ Held(b) = <<>>
        BY <1>5, ReadsOn
      <3>2. From[b] = <<>>
        BY <2>1, <3>1
      <3>3. QED
        BY <3>2
    <2>2. head \in G
      BY <1>1
    <2> HIDE DEF G
    <2>3. tail \in G
      BY <1>1, <2>1, <2>2, BackFromHead
    <2>4. QED
      BY <1>1, <1>3, <1>4, <1>5, <2>3 DEF G
  <1>6. CASE W # {}
    <2>1. PICK w \in W : \A b \in W : b <= w
      <3> DEFINE D == {d \in 0..head : head - d \in W}
      <3>1. \A b \in W : b \in Nat /\ b < head
        BY <1>1
      <3> HIDE DEF W
      <3>2. \A b \in W : head - b \in D /\ head - (head - b) = b
        BY <1>1, <3>1
      <3>3. D \in SUBSET Nat /\ D # {}
        BY <1>6, <3>2
      <3> HIDE DEF D
      <3>4. PICK d \in D : \A e \in D : d <= e
        BY <3>3, LeastNat
      <3>5. PICK w : w = head - d
        OBVIOUS
      <3>6. w \in W /\ d = head - w
        BY <1>1, <3>4, <3>5 DEF D
      <3>7. ASSUME NEW b \in W PROVE b <= w
        <4>1. d <= head - b
          BY <3>2, <3>4
        <4>2. QED
          BY <1>1, <3>1, <3>6, <4>1
      <3>8. QED
        BY <3>6, <3>7
    <2>2. w \in B \ {head} /\ RecordAt(w).kind # "wrap" /\ w \in Nat /\ w < head /\ tail <= w
      BY <1>1, <2>1
    <2>3. RecordAt(w).id = n
      <3>1. CASE w = tail /\ Within
        <4>1. cur = RecordAt(w)
          BY <3>1 DEF cur, RecordAt
        <4>2. ToBegin(B) = {}
          <5>1. SUFFICES ASSUME NEW b \in ToBegin(B) PROVE FALSE
            OBVIOUS
          <5>2. b \in W /\ b \in Nat /\ b <= w /\ tail <= b /\ ~ (b = tail)
            BY <1>1, <1>3, <2>1, <3>1
          <5>3. QED
            BY <2>2, <3>1, <5>2
        <4>3. QED
          BY <1>2, <1>4, <2>2, <3>1, <4>1, <4>2
      <3>2. CASE ~ (w = tail /\ Within)
        <4>1. w \in ToBegin(B) /\ f[w] = RecordAt(w).id
          BY <1>3, <2>1, <3>2
        <4> HIDE DEF f
        <4>2. f[w] \in (ran + 1)..n /\ n \in (ran + 1)..n
          BY <1>2, <4>1 DEF Chain
        <4>3. PICK b \in ToBegin(B) : f[b] = n
          BY <1>2, <4>2 DEF Chain
        <4>4. b <= w /\ b \in Nat /\ (b < w => f[b] < f[w])
          BY <1>1, <1>2, <1>3, <2>1, <4>1 DEF Chain
        <4>5. b = w
          BY <1>2, <2>2, <4>2, <4>3, <4>4
        <4>6. QED
          BY <4>1, <4>3, <4>5
      <3>3. QED
        BY <3>1, <3>2
    <2> DEFINE Closes(s) == s # <<>> /\ s[Len(s)][1].id = n
               G == {b \in B : (b <= w => Closes(From[b])) /\ (w < b => From[b] = <<>>)}
    <2>4. ASSUME NEW b \in B \ {head}, b + RecordAt(b).size \in G PROVE b \in G
      <3>1. PICK x : x = b + RecordAt(b).size
        OBVIOUS
      <3>2. /\ From[b] = Held(b) \o From[x] /\ x \in B /\ b < x
            /\ RecordAt(b).kind = "wrap" => Held(b) = <<>>
            /\ RecordAt(b).kind # "wrap" =>
                 /\ Held(b) = <<[unit \in 1..RecordAt(b).size |-> RecordAt(b)]>>
                 /\ [unit \in 1..RecordAt(b).size |-> RecordAt(b)] \in Contents
        BY <3>1, ReadsOn
      <3>3. b \in Nat /\ x \in Nat /\ From[x] \in Seq(Contents)
            /\ (x <= w => Closes(From[x])) /\ (w < x => From[x] = <<>>)
        BY <1>1, <2>4, <3>1, <3>2, FromType
      <3>4. RecordAt(b).size \in 1..Cap
        BY LayoutTypes
      <3> DEFINE c == [unit \in 1..RecordAt(b).size |-> RecordAt(b)]
      <3>5. c[1] = RecordAt(b)
        BY <3>4, CapType
      <3>6. ASSUME RecordAt(b).kind # "wrap" PROVE Held(b) = <<c>> /\ c \in Contents
        BY <3>2, <3>6
      <3> HIDE DEF c, Closes
      <3>7. Held(b) \in Seq(Contents)
        <4>1. CASE RecordAt(b).kind = "wrap"
          BY <3>2, <3>3, <4>1
        <4>2. CASE RecordAt(b).kind # "wrap"
          <5>1. Held(b) = <<c>> /\ c \in Contents
            BY <3>6, <4>2
          <5>2. <<c>> \in Seq(Contents)
            BY <5>1
          <5>3. QED
            BY <5>1, <5>2
        <4>3. QED
          BY <4>1, <4>2
      <3>8. CASE w < b
        <4>1. b \notin W /\ w < x
          BY <2>1, <2>2, <3>2, <3>3, <3>8
        <4>2. Held(b) = <<>> /\ From[x] = <<>>
          BY <3>2, <3>3, <4>1
        <4>3. From[b] = <<>>
          BY <3>2, <4>2
        <4>4. QED
          BY <2>2, <3>3, <3>8, <4>3
      <3>9. CASE b = w
        <4>1. From[x] = <<>> /\ Held(b) = <<c>> /\ c \in Contents
          BY <2>2, <3>2, <3>3, <3>6, <3>9
        <4>2. From[b] = <<c>>
          BY <3>2, <4>1
        <4>3. Closes(From[b])
          BY <2>3, <3>5, <3>9, <4>2 DEF Closes
        <4>4. QED
          BY <2>2, <3>9, <4>3
      <3>10. CASE b < w
        <4>1. x <= w
          BY <2>2, <3>1, <3>10 DEF Layout
        <4>2. From[x] # <<>> /\ Closes(From[x])
          BY <3>3, <4>1 DEF Closes
        <4>3. PICK p \in Seq(Contents), q \in Seq(Contents) : p = Held(b) /\ q = From[x]
          BY <3>3, <3>7
        <4>4. p \o q # <<>> /\ (p \o q)[Len(p \o q)] = q[Len(q)]
          BY <4>2, <4>3, LastOfConcat
        <4>5. Closes(From[b])
          BY <3>2, <4>2, <4>3, <4>4 DEF Closes
        <4>6. QED
          BY <2>2, <3>3, <3>10, <4>5
      <3>11. QED
        BY <2>2, <3>3, <3>8, <3>9, <3>10
    <2>5. head \in G
      BY <1>1, <2>2
    <2> HIDE DEF G
    <2>6. tail \in G
      BY <1>1, <2>4, <2>5, BackFromHead
    <2> HIDE DEF Closes
    <2>7. Closes(From[tail])
      BY <2>2, <2>6 DEF G
    <2>8. QED
      BY <1>1, <2>7 DEF Closes
  <1>7. QED
    BY <1>5, <1>6

-----------------------------------------------------------------------------
(* The refinement *)

Over == epc = "joined" \/ fault = "corrupt"

\* Taking the queue down is the EE's join, and nothing else.
LEMMA OverEE ==
  ASSUME TypeOK, EENext, fault # "corrupt", fault' # "corrupt"
  PROVE  ~ Over /\ (Over' <=> Join)
  <1>1. epc # "joined" /\ (epc' = "joined" <=> Join)
    <2>1. CASE Committed \/ LeaveWait
      BY <2>1, DataTypes DEF Committed, After, LeaveWait, Resume, PcOK, Join, EEOnly
    <2>2. CASE ~ (Committed \/ LeaveWait)
      BY <2>2 DEF EENext, Call, WriteWrap, WriteRecord, Commit, WakeFence, WakeRead, WakeNotify,
       Stall, RuleOutEmpty, LockAndFlag, WaitFence, EndWait, GiveUp,
       StillWaiting, SleepEE, TimeoutEE, Pump, Relock, TakeReply, Boundary, Exit,
       RaiseShutdown, NotifyShutdown, QuiesceTest, Abandon, QuiesceFlag, QuiesceSleep,
       QuiesceTimeout, QuiesceWake, QuiesceUnflag, QuiesceUnlock, Join, EEOnly
    <2>3. QED
      BY <2>1, <2>2
  <1>2. QED
    BY <1>1 DEF Over

\* A stopped worker leaves no call behind.
LEMMA StoppedEmpty ==
  ASSUME TypeOK, CursorsOK, StopOK, gpc \in StopPc, NEW B, Layout(B)
  PROVE  InRing = <<>>
  <1>1. tail = head \/ WrapFrom(tail)
    BY DEF StopOK
  <1>2. head \in Nat /\ tail \in Nat /\ From[head] = <<>> /\ InRing = From[tail] /\ cur.size \in 1..Cap
    BY FromReads, InRingIsFrom, DataTypes
  <1>3. CASE tail = head
    BY <1>2, <1>3
  <1>4. CASE WrapFrom(tail)
    <2>1. cur.kind = "wrap" /\ head = tail + cur.size
      BY <1>4 DEF WrapFrom, cur
    <2>2. tail < head
      BY <1>2, <2>1
    <2>3. InRing = From[head]
      BY <2>1, <2>2, OldestCall
    <2>4. QED
      BY <1>2, <2>3
  <1>5. QED
    BY <1>1, <1>3, <1>4

QueueStep == [Queue!Next]_(Queue!vars)

LEMMA QueueEE ==
  ASSUME HandshakeInv, HandshakeInv', CallsOK, StopOK, NoFault, NoFault', EENext,
         NEW B, NEW n, NEW m, LaidOut(B, n, m)
  PROVE  QueueStep
  <1>1. /\ TypeOK /\ CursorsOK /\ TypeOK' /\ CursorsOK'
        /\ Layout(B) /\ n \in {rec.id - 1, rec.id} /\ Numbered(B, n)
        /\ fault # "corrupt" /\ fault' # "corrupt"
    BY DEF HandshakeInv, LaidOut, NoFault
  <1>2. PICK h \in Nat, k \in Nat : Publishes(h, k) /\ Layout(B \cup {k})'
    BY <1>1, LayoutEE
  <1>3. InRing' = IF Commit THEN Append(InRing, [unit \in 1..rec.size |-> rec]) ELSE InRing
    BY <1>1, <1>2, FromEE
  <1>4. ran' = ran /\ ~ Over /\ (Over' <=> Join)
    BY <1>1, EEFrame, OverEE
  <1>5. CASE Commit
    <2>1. ~ Over'
      BY <1>4, <1>5 DEF Commit, Join
    <2>2. rec.id \in Nat /\ ran \in Nat /\ n \in Int /\ rec \in Record /\ MaxOps \in Nat
          /\ cseq \in Nat /\ vseq \in Nat /\ rec.kind # "wrap"
      BY <1>1, DataTypes, MaxOpsAssumption DEF DataOK, Layout
    <2>3. n = rec.id - 1 /\ ran <= n
      BY <1>1, <1>5 DEF Numbered, Fresh, Commit
    <2>4. n = IF InRing = <<>> THEN ran ELSE InRing[Len(InRing)][1].id
      BY <1>1, <2>2, LastCall
    <2>5. rec.id = Queue!NextId
      BY <2>2, <2>3, <2>4 DEF Queue!NextId
    <2>6. rec \in [kind : Kind \ {"wrap"}, id : 1..MaxOps, size : Sizes \cup {1}, arg : 0..MaxOps]
      <3>1. rec.id \in 1..MaxOps /\ rec.arg \in 0..MaxOps /\ rec.size \in Sizes \cup {1}
        BY <1>1, <2>2, <2>3, DataTypes DEF CallsOK
      <3>2. QED
        BY <2>2, <3>1 DEF Record
    <2>7. Queue!Accept(rec)
      BY <1>3, <1>4, <1>5, <2>1, <2>5 DEF Queue!Accept, Queue!Contents, Over
    <2>8. QED
      BY <2>6, <2>7 DEF QueueStep, Queue!Next
  <1>6. CASE Join
    <2>1. ~ Commit /\ gpc \in StopPc
      BY <1>6 DEF Join, Commit, StopPc
    <2>2. InRing' = InRing /\ InRing = <<>>
      BY <1>1, <1>3, <2>1, StoppedEmpty
    <2>3. Queue!Close
      BY <1>4, <1>6, <2>2 DEF Queue!Close, Over
    <2>4. QED
      BY <2>3 DEF QueueStep, Queue!Next
  <1>7. CASE ~ Commit /\ ~ Join
    BY <1>3, <1>4, <1>7 DEF QueueStep, Queue!vars, Over
  <1>8. QED
    BY <1>5, <1>6, <1>7

LEMMA QueueGS ==
  ASSUME HandshakeInv, NoFault, NoFault', GSNext, NEW B, NEW n, NEW m, LaidOut(B, n, m)
  PROVE  QueueStep
  <1>1. /\ TypeOK /\ CursorsOK /\ BackOK
        /\ Layout(B) /\ n \in {rec.id - 1, rec.id} /\ Numbered(B, n)
        /\ fault # "corrupt" /\ fault' # "corrupt"
    BY DEF HandshakeInv, LaidOut, NoFault
  <1>2. From' = From /\ InRing = From[tail] /\ InRing' = From'[tail'] /\ (Over' <=> Over)
    BY <1>1, GSFrame, FromSame, InRingIsFrom, ReadsWellNext DEF ReadsWell, Over
  <1>3. PICK t : t = tail
    OBVIOUS
  <1>4. ran \in Nat /\ t \in Nat /\ cur = RecordAt(t) /\ cur.size \in 1..Cap
    BY <1>1, <1>3, DataTypes DEF DataOK, cur, RecordAt
  <1>5. CASE Advance
    <2>1. t < head /\ tail' = t + cur.size /\ ran' = ran /\ Within
      BY <1>1, <1>3, <1>4, <1>5, LayoutAdvance, PlacesGS DEF Advance, NextRecord
    <2>2. InRing' = From[t + cur.size]
      BY <1>2, <2>1
    <2>3. CASE cur.kind = "wrap"
      BY <1>1, <1>2, <1>3, <2>1, <2>2, <2>3, OldestCall DEF QueueStep, Queue!vars, Over
    <2>4. CASE cur.kind # "wrap"
      <3>1. InRing # <<>> /\ Head(InRing)[1].id = cur.id /\ Tail(InRing) = InRing'
        BY <1>1, <1>3, <2>1, <2>2, <2>4, OldestCall
      <3>2. cur.id = ran
        BY <1>1, <2>1, <2>4 DEF Numbered
      <3>3. Queue!Finish
        BY <1>2, <2>1, <3>1, <3>2 DEF Queue!Finish, Over
      <3>4. QED
        BY <3>3 DEF QueueStep, Queue!Next
    <2>5. QED
      BY <2>3, <2>4
  <1>6. CASE NextRecord /\ cur.kind # "wrap"
    <2>1. ~ Advance /\ t < head /\ t + cur.size <= upto /\ tail' = tail
      BY <1>1, <1>3, <1>6, LeftGS, TailKept DEF NextRecord, Advance
    <2>2. Within' /\ cur' = cur
      <3>1. ~ (cur.size = 0 \/ tail + cur.size > upto)
        BY <1>3, <1>4, <2>1, <1>1, DataTypes DEF DataOK
      <3>2. gpc' = "replay"
        BY <1>6, <3>1 DEF NextRecord, GSOnly
      <3>3. QED
        BY <1>1, <2>1, <3>2, TailKept DEF Within, InRecord
    <2>3. ran' = ran + 1 /\ cur.id = ran + 1
      <3>1. ran' = ran + 1
        BY <1>1, <1>3, <1>4, <1>6, <2>1, DataTypes DEF NextRecord, DataOK
      <3>2. Numbered(B, n)'
        BY <1>1, <2>1, NumberedGS
      <3>3. QED
        BY <1>6, <2>2, <3>1, <3>2 DEF Numbered
    <2>4. InRing' = InRing /\ InRing # <<>> /\ Head(InRing)[1].id = cur.id
      BY <1>1, <1>2, <1>3, <1>6, <2>1, OldestCall
    <2>5. Queue!Begin
      BY <1>2, <2>3, <2>4 DEF Queue!Begin, Over
    <2>6. QED
      BY <2>5 DEF QueueStep, Queue!Next
  <1>7. CASE ~ Advance /\ ~ (NextRecord /\ cur.kind # "wrap")
    <2>1. tail' = tail /\ ran' = ran
      BY <1>1, <1>7, TailKept, PlacesGS DEF NextRecord
    <2>2. QED
      BY <1>2, <2>1 DEF QueueStep, Queue!vars, Over
  <1>8. QED
    BY <1>5, <1>6, <1>7

LEMMA QueueRest ==
  ASSUME TypeOK, \/ \E t \in {"ee", "gs"} : Flush(t)
                 \/ Minimize \/ RestoreOrClose \/ Done \/ UNCHANGED vars
  PROVE  QueueStep
  <1>1. head' = head /\ tail' = tail /\ buf' = buf /\ epc' = epc /\ fault' = fault /\ ran' = ran
    <2>1. CASE \E t \in {"ee", "gs"} : Flush(t)
      <3>1. PICK t \in Threads : Flush(t)
        BY <2>1 DEF Threads
      <3>2. QED
        BY <3>1, FlushFrame DEF gsVars
    <2>2. CASE Minimize \/ RestoreOrClose \/ Done \/ UNCHANGED vars
      <3>1. UNCHANGED <<mem, sb, buf, epc, fault, ran>>
        BY <2>2 DEF Minimize, RestoreOrClose, Done, vars, memVars, gsVars
      <3>2. QED
        BY <3>1 DEF head, tail, Load
    <2>3. QED
      BY <2>1, <2>2
  <1>2. InRing' = InRing
    BY <1>1, FromSame, InRingIsFrom, ReadsWellNext DEF ReadsWell
  <1>3. QED
    BY <1>1, <1>2 DEF QueueStep, Queue!vars

LEMMA QueueInit == Init => QueueInv /\ Queue!Init
  <1> SUFFICES ASSUME Init PROVE QueueInv /\ Queue!Init
    OBVIOUS
  <1>1. QueueInv
    BY TurnInit, CallsInit, StopInit DEF QueueInv
  <1>2. TypeOK /\ From[head] = <<>>
    BY <1>1, FromReads DEF QueueInv, TurnInv, HandshakeInv
  <1>3. sb["ee"] = <<>> /\ sb["gs"] = <<>> /\ \A loc \in Locs : mem[loc] = 0
    BY <1>2, DataTypes, MemTypes DEF Init, Threads, Locs
  <1>4. head = 0 /\ tail = 0
    BY <1>2, <1>3, MemTypes, DataTypes DEF head, tail, Load, Threads, Locs, EELoc, GSLoc
  <1>5. InRing = <<>>
    BY <1>2, <1>4, InRingIsFrom
  <1>6. QED
    BY <1>1, <1>5 DEF Init, Queue!Init

LEMMA QueueNext == QueueInv /\ [Next]_vars => QueueInv' /\ QueueStep
  <1> SUFFICES ASSUME QueueInv, [Next]_vars PROVE QueueInv' /\ QueueStep
    OBVIOUS
  <1>1. /\ TurnInv /\ CallsOK /\ StopOK /\ HandshakeInv /\ TypeOK /\ BackOK /\ OnTheirWay
        /\ LastWords /\ CursorsOK /\ WrapOnly
    BY DEF QueueInv, TurnInv, HandshakeInv
  <1>2. TurnInv' /\ HandshakeInv'
    BY <1>1, TurnNext DEF TurnInv
  <1>3. QueueInv'
    BY <1>1, <1>2, CallsNext, StopNext DEF QueueInv
  <1>4. NoFault /\ NoFault'
    BY <1>1, <1>2, RingParts DEF TurnInv, Scalars
  <1>5. PICK B, n, m : LaidOut(B, n, m)
    BY <1>1, RingParts DEF TurnInv
  <1>6. CASE EENext
    BY <1>1, <1>2, <1>3, <1>4, <1>5, <1>6, QueueEE
  <1>7. CASE GSNext
    BY <1>1, <1>3, <1>4, <1>5, <1>7, QueueGS
  <1>8. QueueStep
    BY <1>1, <1>6, <1>7, QueueRest DEF Next
  <1>9. QED
    BY <1>3, <1>8

\* The ring of bytes is the queue of calls CallQueue specifies (the header
\* comment of gs_threaded.h), whatever its capacity and the sizes of the
\* records, and however long the stores of the two threads are delayed: every
\* step of GsRing accepts, begins or finishes the call that is next, closes an
\* empty queue, or leaves it as it is.
THEOREM IsCallQueueCorrect == Spec => IsCallQueue
  <1>1. Init => QueueInv /\ Queue!Init
    BY QueueInit
  <1>2. QueueInv /\ [Next]_vars => QueueInv' /\ [Queue!Next]_(Queue!vars)
    BY QueueNext DEF QueueStep
  <1>3. QED
    BY <1>1, <1>2, PTL DEF Spec, IsCallQueue, Queue!Spec

=============================================================================

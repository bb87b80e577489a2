--------------------------------- MODULE Cdvd ---------------------------------
(***************************************************************************)
(* The disc drive of the virtual IOP (the N-commands of                    *)
(* src/runtime/sif/cdvd.cpp) behind the RPC layer of SifRpc. A service     *)
(* runs inside the SifSetDma that carries its request; the drive has no    *)
(* step of its own: what has arrived from the disc is computed from the    *)
(* virtual clock whenever a request looks.                                 *)
(*                                                                         *)
(* Times are kept relative to now, and while the stream is paused relative *)
(* to the pause, as RESUME shifts the schedule by the time between. Where  *)
(* on the disc a sector lies is left out, and so are the end of the disc,  *)
(* a stream without sceCdStInit and the drive without timing model.        *)
(*                                                                         *)
(* The operators named Bug... are the plausible mistakes the properties    *)
(* are tested against; nothing in the specification uses them.             *)
(***************************************************************************)
EXTENDS SifRpc

CONSTANTS
  Rings,      \* what sceCdStInit asks for: the sectors of a ring (max), its bank
  PerSector,  \* sector_cycles()
  SeekTime,   \* seek_cycles()
  Asks,       \* the sectors a blocking sceCdStRead asks for
  MaxSectors  \* bound: the longest sceCdRead, in sectors

ASSUME DriveAssumption ==
  /\ {PerSector, SeekTime, MaxSectors} \subseteq Nat \ {0}
  /\ Asks \subseteq Nat \ {0}
  /\ \A r \in Rings : {r.max, r.bank} \subseteq Nat \ {0} /\ r.max % r.bank = 0

VARIABLES
  g_st,        \* StreamState
  busy,        \* g_drive_busy_until, from now
  reader,      \* g_read_thread: the client of the last sceCdRead
  want         \* sectors the EE library's blocking sceCdStRead still needs

cdVars  == <<g_st, busy, reader, want>>
allVars == <<vars, cdVars>>

StreamState(ring) ==
  [ring |-> ring, running |-> FALSE, paused |-> FALSE, buffered |-> 0, arrived |-> 0, next |-> 0]

CdInit ==
  /\ Init
  /\ \E ring \in Rings : g_st = StreamState(ring)
  /\ busy = 0 /\ reader = 0 /\ want = 0

-----------------------------------------------------------------------------
(* The stream ring *)

BugReadySectors(s) == s.buffered

\* stream_ready: the bank being filled is not handed over. Only the remainder
\* of `arrived' is kept.
StreamReady(s) == IF s.buffered > s.arrived THEN s.buffered - s.arrived ELSE 0

Receive(s, n) ==
  [s EXCEPT !.buffered = @ + n, !.arrived = (@ + n) % s.ring.bank]

\* The sectors that have come since the last look, if the ring had room.
Due(s) ==
  IF ~s.running \/ s.paused \/ s.next > 0 THEN 0 ELSE (-s.next) \div PerSector + 1
Room(s) == s.ring.max - s.buffered

BugNoStall(s) ==
  LET n == Min({Due(s), Room(s)})
  IN [Receive(s, n) EXCEPT !.next = @ + n * PerSector]

\* stream_advance: a full ring holds the drive off until a read frees room.
StreamAdvance(s) ==
  IF s.running /\ ~s.paused /\ Due(s) >= Room(s)
  THEN [Receive(s, Room(s)) EXCEPT !.next = PerSector]
  ELSE [Receive(s, Due(s)) EXCEPT !.next = @ + Due(s) * PerSector]

\* The schedule n cycles on. A ring that has long been due is full, however
\* long, so the lag is kept no further than that.
BugRunsInPause(s, n) ==
  IF ~s.running THEN s
  ELSE [s EXCEPT !.next = Max({@ - n, -(s.ring.max * PerSector)})]
Elapsed(s, n) ==
  IF ~s.running \/ s.paused THEN s
  ELSE [s EXCEPT !.next = Max({@ - n, -(s.ring.max * PerSector)})]

\* Whatever else happens, the drive only sees the clock.
Passed == IF clock' < clock THEN clock - clock' ELSE 0
TimePasses ==
  /\ g_st' = Elapsed(g_st, Passed)
  /\ busy' = Max({busy - Passed, 0})
  /\ UNCHANGED <<reader, want>>

-----------------------------------------------------------------------------
(* The N-commands: each is a call, answered in its handler *)

Command(c, hold) == Call(c, hold)
Stream(c, s) == Command(c, 0) /\ g_st' = s /\ UNCHANGED <<busy, reader>>

StInit(c, ring) == Stream(c, StreamState(ring)) /\ want' = 0

\* START, SEEK and SEEKF.
StSeek(c) ==
  /\ Stream(c, [g_st EXCEPT !.running = TRUE, !.paused = FALSE, !.buffered = 0,
                            !.arrived = 0, !.next = SeekTime])
  /\ want' = 0

StStop(c) ==
  /\ Stream(c, [g_st EXCEPT !.running = FALSE, !.paused = FALSE, !.buffered = 0,
                            !.arrived = 0])
  /\ want' = 0

StStat(c) == Stream(c, StreamAdvance(g_st)) /\ UNCHANGED want

StPause(c) ==
  /\ g_st.running /\ ~g_st.paused
  /\ Stream(c, [StreamAdvance(g_st) EXCEPT !.paused = TRUE]) /\ UNCHANGED want

StResume(c) ==
  g_st.paused /\ Stream(c, [g_st EXCEPT !.paused = FALSE]) /\ UNCHANGED want

BugReadBanks(c) ==
  LET s == StreamAdvance(g_st)
      give == s.ring.bank * (Min({want, StreamReady(s)}) \div s.ring.bank)
  IN /\ want > 0
     /\ Stream(c, [s EXCEPT !.buffered = @ - give])
     /\ want' = want - give

\* One turn of the library's loop: READ what is still wanted.
StRead(c) ==
  LET s == StreamAdvance(g_st)
      give == Min({want, StreamReady(s)})
  IN /\ want > 0
     /\ Stream(c, [s EXCEPT !.buffered = @ - give])
     /\ want' = want - give

\* The movie or the loader asks its library for n sectors.
Ask(n) ==
  /\ GuestRuns /\ want = 0 /\ g_st.running /\ want' = n
  /\ UNCHANGED <<vars, g_st, busy, reader>>

\* sceCdRead holds its END for the transfer. The library issues the next one
\* when the END of the last has cleared its semaphore.
CdRead(c, n) ==
  /\ reader \in Client => client[reader] = "idle"
  /\ Command(c, n * PerSector)
  /\ busy' = n * PerSector /\ reader' = c
  /\ UNCHANGED <<g_st, want>>

\* sceCdNcmdDiskReady answers SCECdNotReady while busy.
DiskReady(c) == Command(c, 0) /\ UNCHANGED cdVars

Drive(c) ==
  \/ \E ring \in Rings : StInit(c, ring)
  \/ StSeek(c) \/ StStop(c) \/ StStat(c) \/ StPause(c) \/ StResume(c) \/ StRead(c)
  \/ \E n \in 1..MaxSectors : CdRead(c, n)
  \/ DiskReady(c)

\* Requests to other services.
Others(c) == (Bind(c) \/ RData(c) \/ CallNoWait(c, 0)) /\ TimePasses

CdNext ==
  \/ (Timeline \/ SIF0Handler \/ Boot \/ ResetCmd) /\ TimePasses
  \/ \E n \in 1..MaxTick : Elapse(n) /\ TimePasses
  \/ \E c \in Client : Drive(c) \/ Others(c)
  \/ \E n \in Asks : Ask(n)

CdSpec == CdInit /\ [][CdNext]_allVars

(***************************************************************************)
(* As in SifRpc; and the library's blocking read goes on until it has its  *)
(* sectors, on the thread that called it.                                  *)
(***************************************************************************)
CdFairSpec ==
  /\ CdSpec
  /\ WF_allVars(Timeline /\ TimePasses)
  /\ SF_allVars(\E n \in 1..MaxTick : Elapse(n) /\ TimePasses)
  /\ SF_allVars(SIF0Handler /\ TimePasses) /\ SF_allVars(Boot /\ TimePasses)
  /\ SF_allVars(\E c \in Client : StRead(c))

-----------------------------------------------------------------------------
(* Properties *)

\* Every variable has its type; the ring holds no more than it has room for,
\* and no read has taken a sector of the bank being filled.
CdTypeOK ==
  /\ TypeOK
  /\ g_st.ring \in Rings /\ g_st.running \in BOOLEAN /\ g_st.paused \in BOOLEAN
  /\ g_st.buffered \in 0..g_st.ring.max /\ g_st.arrived \in 0..g_st.ring.bank - 1
  /\ g_st.arrived <= g_st.buffered
  /\ g_st.next \in Int /\ busy \in Nat /\ reader \in Client \cup {0} /\ want \in Nat

\* The most cycles the clock passes without a look, and what a look shows.
LongestSpan == Max({SyscallTicks, MaxTick})
Seen(s) ==
  LET t == StreamAdvance(s)
  IN [ring |-> t.ring, running |-> t.running, paused |-> t.paused,
      usable |-> StreamReady(t), part |-> t.arrived,
      wait |-> IF t.running THEN t.next ELSE 0]

\* Whoever asks finds the ring as a drive would have filled it that put one
\* sector after another into its banks: the same sectors ready, at the same
\* cycle, through stalls, pauses and late looks (cdvd.cpp:464-471, 518-535).
Ring == INSTANCE SectorRing WITH MaxCycles <- LongestSpan, d <- Seen(g_st)
IsSectorRing == Ring!Spec

\* DiskReady says "not ready" exactly while the transfer of another thread's
\* sceCdRead runs; the thread whose read has ended never gets that answer,
\* which its library takes for a failed read (cdvd.cpp:792-807).
PollTruthful ==
  [][\A c \in Client : DiskReady(c) =>
       (busy > 0 <=> \E o \in Client \ {c} : reader = o /\ left[o] > Latency)]_allVars

\* A blocking read of the stream gets its sectors: no bank stays half filled
\* in a full ring with the reader waiting for it (cdvd.cpp:436-442, 518-535).
StreamFlows == (want > 0) ~> (want = 0 \/ g_st.paused)
=============================================================================

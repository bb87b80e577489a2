---------------------------- MODULE IpuDmaProofs ----------------------------
(***************************************************************************)
(* Theorems about IpuDma for every FIFO, ring and stream, every set of     *)
(* commands and any number of them.                                        *)
(*                                                                         *)
(* The store of a DMA register runs through both files and back, so the    *)
(* proof follows the calls: what a function may do to a channel is one     *)
(* relation between the state it is entered with and the one it leaves     *)
(* (Moves), and each function's lemma rests on those of what it calls.     *)
(* Where the stream stands is said of the units of the stream (Place, Mark,*)
(* Reach), which no shift of the FIFO moves: between two stores by Tells,  *)
(* at each turn of a command by At.                                        *)
(***************************************************************************)
EXTENDS IpuDma, SequenceTheorems, WellFoundedInduction, TLAPS

-----------------------------------------------------------------------------
(* What a channel's bit, its transfer and its place in the queue may do *)

Fields == {"suspend", "dmae", "pending", "str", "raised", "active", "active3"}

Ok(s) == Fields \subseteq DOMAIN s /\ s.active \in BOOLEAN /\ s.active3 \in BOOLEAN

\* A transfer of ch is under way.
Live(s, ch) == (ch = "toIpu" /\ s.active) \/ (ch = "fromIpu" /\ s.active3)

\* STR is set while the transfer runs or is queued, and it is never both.
Agree(s, ch) ==
  /\ ch \in s.str <=> Live(s, ch) \/ ch \in s.pending
  /\ ~ (Live(s, ch) /\ ch \in s.pending)

\* No bit is set, and the one of channel 4 only falls with the interrupt.
Lowers(s, t) ==
  /\ t.str \subseteq s.str
  /\ "toIpu" \in s.raised => "toIpu" \in t.raised
  /\ "toIpu" \in s.str /\ "toIpu" \notin t.str => "toIpu" \in t.raised

Keeps(s, t) ==
  /\ Ok(t)
  /\ t.pending = s.pending /\ t.suspend = s.suspend /\ t.dmae = s.dmae
  /\ Lowers(s, t)

Moves(s, t) == Keeps(s, t) /\ \A ch \in DmaChannels : Agree(s, ch) => Agree(t, ch)

\* Nothing of this is touched.
Same(s, t) ==
  /\ Ok(t)
  /\ t.pending = s.pending /\ t.suspend = s.suspend /\ t.dmae = s.dmae
  /\ t.str = s.str /\ t.raised = s.raised
  /\ t.active = s.active /\ t.active3 = s.active3

LEMMA SameMoves ==
  ASSUME NEW s, NEW t, Ok(s), Same(s, t)
  PROVE  Moves(s, t)
BY DEF Moves, Keeps, Lowers, Agree, Live, Same

LEMMA Onward ==
  ASSUME NEW s, NEW t, NEW u, Moves(s, t), Moves(t, u)
  PROVE  Moves(s, u)
BY DEF Moves, Keeps, Lowers

-----------------------------------------------------------------------------
(* The walk of channel 4 *)

LEMMA CompleteMoves ==
  ASSUME NEW s, Ok(s), s.active = TRUE, "toIpu" \in s.str
  PROVE  Moves(s, Complete(s, "toIpu"))
<1> DEFINE t == Complete(s, "toIpu")
<1>1. /\ Ok(t) /\ t.pending = s.pending /\ t.suspend = s.suspend /\ t.dmae = s.dmae
      /\ t.str = s.str \ {"toIpu"} /\ t.raised = s.raised \cup {"toIpu"}
      /\ t.active = FALSE /\ t.active3 = s.active3
  BY DEF Complete, Ok, Fields
<1> HIDE DEF t
<1>2. Keeps(s, t)
  BY <1>1 DEF Keeps, Lowers
<1>3. \A ch \in DmaChannels : Agree(s, ch) => Agree(t, ch)
  BY <1>1 DEF Agree, Live, DmaChannels
<1> QED
  BY <1>2, <1>3 DEF Moves, t

LEMMA WalkTurnMoves ==
  ASSUME NEW s, Ok(s)
  PROVE  Moves(s, WalkTurn(s))
<1> DEFINE last == ~s.chain \/ s.tagEnd
           copied == [s EXCEPT !.in = Append(@, s.madr), !.madr = @ + 1, !.qwc = @ - 1]
           tag == [s EXCEPT !.madr = s.tadr * SlotQw, !.qwc = SlotQw, !.tadr = @ + 1,
                            !.tagEnd = (s.tadr = s.published - 1)]
<1>1. Same(s, s) /\ Same(s, copied) /\ Same(s, tag)
  BY DEF Same, Ok, Fields
<1>2. CASE ~MayWalk(s)
  <2>1. WalkTurn(s) = s
    BY <1>2 DEF WalkTurn
  <2> QED
    BY <1>1, <2>1, SameMoves
<1>3. CASE MayWalk(s) /\ "toIpu" \notin s.str
  <2> DEFINE t == [s EXCEPT !.active = FALSE]
  <2>1. WalkTurn(s) = t
    BY <1>3 DEF WalkTurn
  <2>2. /\ Ok(t) /\ t.pending = s.pending /\ t.suspend = s.suspend /\ t.dmae = s.dmae
        /\ t.str = s.str /\ t.raised = s.raised /\ t.active = FALSE /\ t.active3 = s.active3
    BY DEF Ok, Fields
  <2>3. s.active = TRUE
    BY <1>3 DEF MayWalk, Ok
  <2> HIDE DEF t
  <2> QED
    BY <1>3, <2>1, <2>2, <2>3 DEF Moves, Keeps, Lowers, Agree, Live
<1>4. CASE MayWalk(s) /\ "toIpu" \in s.str
  <2>1. s.active = TRUE
    BY <1>4 DEF MayWalk, Ok
  <2>2. WalkTurn(s) = IF s.qwc > 0
                      THEN IF ~Room(s) THEN s
                           ELSE IF copied.qwc = 0 /\ last THEN Complete(copied, "toIpu")
                           ELSE copied
                      ELSE IF last \/ s.tadr >= s.published THEN Complete(s, "toIpu") ELSE tag
    BY <1>4 DEF WalkTurn
  <2>3. Ok(copied) /\ copied.active = TRUE /\ "toIpu" \in copied.str
    BY <1>1, <1>4, <2>1 DEF Same
  <2> HIDE DEF copied, tag, last
  <2>4. Moves(s, s) /\ Moves(s, copied) /\ Moves(s, tag)
    BY <1>1, SameMoves
  <2>5. Moves(s, Complete(s, "toIpu")) /\ Moves(copied, Complete(copied, "toIpu"))
    BY <1>4, <2>1, <2>3, CompleteMoves
  <2>6. Moves(s, Complete(copied, "toIpu"))
    BY <2>4, <2>5, Onward
  <2> QED
    BY <2>2, <2>4, <2>5, <2>6
<1> QED
  BY <1>2, <1>3, <1>4
\* The loops of the two files, as recursive functions of the number of turns
\* taken, are followed by induction over that number.
LEMMA NatInduct ==
  ASSUME NEW T, 0 \in T, \A n \in Nat : n \in T => n + 1 \in T
  PROVE  Nat \subseteq T
<1> DEFINE S == Nat \ T
           R == {ss \in Nat \X Nat : ss[1] < ss[2]}
<1>1. ASSUME S # {} PROVE FALSE
  <2>1. IsWellFoundedOn(R, Nat)
    BY NatLessThanWellFounded DEF OpToRel
  <2>2. PICK x \in S : \A y \in S : ~ (<<y, x>> \in R)
    BY <1>1, <2>1, WFMin
  <2>3. x \in Nat /\ x # 0 /\ x - 1 \in Nat /\ (x - 1) + 1 = x
    BY <2>2
  <2>4. x - 1 \notin S
    <3>1. <<x - 1, x>> \in R
      BY <2>3
    <3> HIDE DEF R, S
    <3> QED
      BY <2>2, <3>1
  <2> QED
    BY <2>2, <2>3, <2>4
<1> QED
  BY <1>1

LEMMA Sizes == WalkTurns \in Nat /\ ExecTurns \in Nat /\ Units \in Nat
<1>1. /\ Fifo \in Nat /\ Slots \in Nat /\ SlotQw \in Nat /\ QwU \in Nat
  BY UnitsAssumption
<1>2. \A a, b \in Nat : a * b \in Nat
  OBVIOUS
<1>3. Slots * SlotQw \in Nat /\ QwU * SlotQw \in Nat
  BY <1>1, <1>2
<1>4. Units \in Nat
  BY <1>1, <1>2, <1>3 DEF Units
<1> QED
  BY <1>1, <1>3, <1>4 DEF WalkTurns, ExecTurns

IsWalk(w, s, n) == w = [k \in 0..n |-> IF k = 0 THEN s ELSE WalkTurn(w[k - 1])]

LEMMA WalkExists ==
  ASSUME NEW s, NEW n \in Nat
  PROVE  \E w : IsWalk(w, s, n)
<1> DEFINE T == {i \in Nat : \E w : IsWalk(w, s, i)}
<1>1. 0 \in T
  <2>1. IsWalk([k \in 0..0 |-> s], s, 0)
    BY DEF IsWalk
  <2> QED
    BY <2>1
<1>2. ASSUME NEW i \in Nat, i \in T PROVE i + 1 \in T
  <2>1. PICK w : IsWalk(w, s, i)
    BY <1>2
  <2> DEFINE v == [k \in 0..i + 1 |-> IF k = i + 1 THEN WalkTurn(w[i]) ELSE w[k]]
  <2>2. \A k \in 0..i + 1 : v[k] = IF k = 0 THEN s ELSE WalkTurn(v[k - 1])
    <3> SUFFICES ASSUME NEW k \in 0..i + 1
                 PROVE  v[k] = IF k = 0 THEN s ELSE WalkTurn(v[k - 1])
      OBVIOUS
    <3>1. CASE k = 0
      BY <2>1, <3>1 DEF IsWalk
    <3>2. CASE k # 0
      <4>1. k - 1 \in 0..i /\ k - 1 # i + 1 /\ k - 1 \in 0..i + 1
        BY <3>2
      <4>2. v[k - 1] = w[k - 1]
        BY <4>1
      <4>3. v[k] = WalkTurn(w[k - 1])
        <5>1. CASE k = i + 1
          BY <5>1
        <5>2. CASE k # i + 1
          <6>1. k \in 0..i /\ v[k] = w[k]
            BY <5>2
          <6> QED
            BY <2>1, <3>2, <6>1 DEF IsWalk
        <5> QED
          BY <5>1, <5>2
      <4> HIDE DEF v
      <4> QED
        BY <3>2, <4>2, <4>3
    <3> QED
      BY <3>1, <3>2
  <2>3. v = [k \in 0..i + 1 |-> v[k]]
    OBVIOUS
  <2> HIDE DEF v
  <2>4. IsWalk(v, s, i + 1)
    BY <2>2, <2>3 DEF IsWalk
  <2> QED
    BY <2>4
<1>3. Nat \subseteq T
  BY <1>1, <1>2, NatInduct
<1> QED
  BY <1>3

LEMMA WalkIsTurns ==
  ASSUME NEW s
  PROVE  \E w : /\ w[0] = s /\ AdvanceWalk(s) = w[WalkTurns]
                /\ \A i \in 0..WalkTurns - 1 : w[i + 1] = WalkTurn(w[i])
<1> DEFINE N == WalkTurns
           P(w) == w = [k \in 0..N |-> IF k = 0 THEN s ELSE WalkTurn(w[k - 1])]
<1>1. \E w : P(w)
  <2>1. N \in Nat
    BY Sizes
  <2> HIDE DEF N
  <2>2. \E w : IsWalk(w, s, N)
    BY <2>1, WalkExists
  <2> QED
    BY <2>2 DEF IsWalk
<1>2. P(CHOOSE w : P(w))
  BY <1>1
<1>3. AdvanceWalk(s) = (CHOOSE w : P(w))[N]
  BY DEF AdvanceWalk
<1>4. PICK w : P(w) /\ AdvanceWalk(s) = w[N]
  BY <1>2, <1>3
<1>5. N \in Nat
  BY Sizes
<1> HIDE DEF N
<1>6. w[0] = s
  BY <1>4, <1>5
<1>7. ASSUME NEW i \in 0..N - 1 PROVE w[i + 1] = WalkTurn(w[i])
  <2>1. i + 1 \in 0..N /\ i + 1 # 0 /\ (i + 1) - 1 = i
    BY <1>5
  <2> QED
    BY <1>4, <2>1
<1> QED
  BY <1>4, <1>6, <1>7 DEF N

LEMMA AdvanceWalkMoves ==
  ASSUME NEW s, Ok(s)
  PROVE  Moves(s, AdvanceWalk(s))
<1>1. PICK w : /\ w[0] = s /\ AdvanceWalk(s) = w[WalkTurns]
               /\ \A i \in 0..WalkTurns - 1 : w[i + 1] = WalkTurn(w[i])
  BY WalkIsTurns
<1> DEFINE T == {i \in Nat : i <= WalkTurns => Moves(s, w[i])}
<1>2. WalkTurns \in Nat
  BY Sizes
<1>3. 0 \in T
  BY <1>1, SameMoves DEF Same
<1>4. ASSUME NEW i \in Nat, i \in T PROVE i + 1 \in T
  <2> SUFFICES ASSUME i + 1 <= WalkTurns PROVE Moves(s, w[i + 1])
    OBVIOUS
  <2>1. i \in 0..WalkTurns - 1 /\ Moves(s, w[i])
    BY <1>2, <1>4
  <2>2. Moves(w[i], WalkTurn(w[i]))
    BY <2>1, WalkTurnMoves DEF Moves, Keeps
  <2> QED
    BY <1>1, <2>1, <2>2, Onward
<1>5. WalkTurns \in T
  BY <1>2, <1>3, <1>4, NatInduct
<1> QED
  BY <1>1, <1>2, <1>5

-----------------------------------------------------------------------------
(* A command *)

LEMMA EnsureUnitsMoves ==
  ASSUME NEW s, NEW n, Ok(s)
  PROVE  Moves(s, EnsureUnits(s, n))
<1>1. Moves(s, s)
  BY SameMoves DEF Same
<1> QED
  BY <1>1, AdvanceWalkMoves DEF EnsureUnits

\* The bit stream, the output queue and the snapshot are no concern of a channel.
LEMMA StreamSame ==
  ASSUME NEW s, NEW n, Ok(s)
  PROVE  /\ Same(s, Advance(s, n)) /\ Same(s, CompactIn(s)) /\ Same(s, TakeSnapshot(s))
         /\ Same(s, RestoreSnapshot(s)) /\ Same(s, Stalled(s))
<1>1. Same(s, Advance(s, n))
  BY DEF Same, Ok, Fields, Advance
<1>2. Same(s, CompactIn(s))
  BY DEF Same, Ok, Fields, CompactIn
<1>3. Same(s, TakeSnapshot(s)) /\ Same(s, RestoreSnapshot(s)) /\ Same(s, Stalled(s))
  BY DEF Same, Ok, Fields, TakeSnapshot, RestoreSnapshot, Stalled
<1> QED
  BY <1>1, <1>2, <1>3

LEMMA CommitScanSame ==
  ASSUME NEW s, Ok(s)
  PROVE  Same(s, CommitScan(s))
<1>1. Same(s, CompactIn(s))
  BY StreamSame
<1>2. Same(CompactIn(s), TakeSnapshot(CompactIn(s)))
  BY <1>1, StreamSame DEF Same
<1> QED
  BY <1>1, <1>2 DEF Same, CommitScan

LEMMA AlignedSame ==
  ASSUME NEW s, Ok(s)
  PROVE  Same(s, Aligned(s))
<1>1. Same(s, s)
  BY DEF Same
<1> DEFINE t == Advance(s, ByteU - (s.pos % ByteU))
<1>2. Same(s, t)
  BY StreamSame
<1>3. Aligned(s) = IF s.pos % ByteU = 0 THEN s ELSE CommitScan(t)
  BY DEF Aligned
<1> HIDE DEF t
<1>4. Same(t, CommitScan(t))
  BY <1>2, CommitScanSame DEF Same
<1> QED
  BY <1>1, <1>2, <1>3, <1>4 DEF Same

LEMMA DrainCh3Moves ==
  ASSUME NEW s, Ok(s)
  PROVE  Moves(s, DrainCh3(s))
<1> DEFINE n == IF s.drainAll THEN s.out ELSE Least(s.out, s.qwc3)
           t == [s EXCEPT !.out = @ - n, !.taken = @ + n, !.qwc3 = @ - Least(n, @)]
           stopped == [s EXCEPT !.active3 = FALSE, !.drainAll = FALSE]
           ended == [Complete(t, "fromIpu") EXCEPT !.active3 = FALSE, !.drainAll = FALSE]
<1>1. DrainCh3(s) = IF ~s.active3 THEN s
                    ELSE IF "fromIpu" \notin s.str THEN stopped
                    ELSE IF (s.drainAll /\ t.out = 0) \/ (~s.drainAll /\ t.qwc3 = 0)
                    THEN ended ELSE t
  BY DEF DrainCh3
<1> HIDE DEF n
<1>2. Same(s, s) /\ Same(s, t)
  BY DEF Same, Ok, Fields
<1>3. /\ Ok(stopped) /\ stopped.pending = s.pending /\ stopped.suspend = s.suspend
      /\ stopped.dmae = s.dmae /\ stopped.str = s.str /\ stopped.raised = s.raised
      /\ stopped.active = s.active /\ stopped.active3 = FALSE
  BY DEF Ok, Fields
<1> DEFINE c == Complete(t, "fromIpu")
<1>4. /\ Ok(c) /\ c.pending = s.pending /\ c.suspend = s.suspend /\ c.dmae = s.dmae
      /\ c.str = s.str \ {"fromIpu"} /\ c.raised = s.raised \cup {"fromIpu"}
      /\ c.active = s.active
  <2> HIDE DEF t
  <2> QED
    BY <1>2 DEF Complete, Same, Ok, Fields
<1>5. /\ Ok(ended) /\ ended.pending = s.pending /\ ended.suspend = s.suspend
      /\ ended.dmae = s.dmae /\ ended.str = s.str \ {"fromIpu"}
      /\ ended.raised = s.raised \cup {"fromIpu"}
      /\ ended.active = s.active /\ ended.active3 = FALSE
  <2>1. ended = [c EXCEPT !.active3 = FALSE, !.drainAll = FALSE]
    OBVIOUS
  <2> HIDE DEF c, ended
  <2> QED
    BY <1>4, <2>1 DEF Ok, Fields
<1> HIDE DEF t, stopped, c, ended
<1>6. CASE ~s.active3
  BY <1>1, <1>2, <1>6, SameMoves
<1>7. CASE s.active3 /\ "fromIpu" \notin s.str
  <2>1. s.active3 = TRUE /\ DrainCh3(s) = stopped
    BY <1>1, <1>7 DEF Ok
  <2> QED
    BY <1>3, <1>7, <2>1 DEF Moves, Keeps, Lowers, Agree, Live, DmaChannels
<1>8. CASE s.active3 /\ "fromIpu" \in s.str
  <2>1. s.active3 = TRUE /\ (DrainCh3(s) = ended \/ DrainCh3(s) = t)
    BY <1>1, <1>8 DEF Ok
  <2>2. Moves(s, t)
    BY <1>2, SameMoves
  <2>3. Keeps(s, ended)
    BY <1>5 DEF Keeps, Lowers
  <2>4. \A ch \in DmaChannels : Agree(s, ch) => Agree(ended, ch)
    BY <1>5, <1>8, <2>1 DEF Agree, Live, DmaChannels
  <2> QED
    BY <2>1, <2>2, <2>3, <2>4 DEF Moves
<1> QED
  BY <1>6, <1>7, <1>8

LEMMA EmitMoves ==
  ASSUME NEW s, Ok(s)
  PROVE  Moves(s, Emit(s))
<1> DEFINE pushed == [s EXCEPT !.out = @ + 1, !.fresh = @ + 1]
           marked == IF s.cmd.op = "bdec" THEN [pushed EXCEPT !.tail = TRUE] ELSE pushed
           kept == TakeSnapshot(marked)
           shot == DrainCh3(kept)
           counted == [shot EXCEPT !.csc = @ + 1]
<1>1. Emit(s) = IF s.cmd.op = "csc" THEN counted ELSE shot
  BY DEF Emit
<1>2. Same(s, pushed)
  BY DEF Same, Ok, Fields
<1>3. Same(s, marked)
  <2> HIDE DEF pushed
  <2> QED
    BY <1>2 DEF Same, Ok, Fields
<1> HIDE DEF marked
<1>4. Same(marked, kept)
  BY <1>3, StreamSame DEF Same
<1>5. Moves(s, kept)
  BY <1>3, <1>4, SameMoves, Onward DEF Same
<1> HIDE DEF kept
<1>6. Moves(kept, shot)
  BY <1>5, DrainCh3Moves DEF Moves, Keeps
<1>7. Moves(s, shot)
  BY <1>5, <1>6, Onward
<1> HIDE DEF shot
<1>8. Same(shot, counted)
  BY <1>7 DEF Moves, Keeps, Same, Ok, Fields
<1>9. Moves(s, counted)
  BY <1>7, <1>8, SameMoves, Onward DEF Moves, Keeps
<1> QED
  BY <1>1, <1>7, <1>9
\* A turn of a run moves the state the run carries.
Carries(e) == "s" \in DOMAIN e /\ Ok(e.s)

LEMMA ReadTurnMoves ==
  ASSUME NEW e, Carries(e)
  PROVE  Carries(ReadTurn(e)) /\ Moves(e.s, ReadTurn(e).s)
<1> DEFINE b == IF e.s.cmd.op = "bdec" /\ e.left = e.s.cmd.len
                THEN [e.s EXCEPT !.pred = @ + 1] ELSE e.s
           a == Advance(b, 1)
<1>1. ReadTurn(e).s = a /\ "s" \in DOMAIN ReadTurn(e)
  BY DEF ReadTurn
<1>2. Same(e.s, b)
  BY DEF Carries, Same, Ok, Fields
<1> HIDE DEF b
<1>3. Same(b, a)
  BY <1>2, StreamSame DEF Same
<1>4. Same(e.s, a)
  BY <1>2, <1>3 DEF Same
<1>5. Moves(e.s, a)
  BY <1>4, SameMoves DEF Carries
<1> QED
  BY <1>1, <1>5 DEF Carries, Moves, Keeps

LEMMA EmitTurnMoves ==
  ASSUME NEW e, Carries(e)
  PROVE  Carries(EmitTurn(e)) /\ Moves(e.s, EmitTurn(e).s)
<1>1. EmitTurn(e).s = Emit(e.s) /\ "s" \in DOMAIN EmitTurn(e)
  BY DEF EmitTurn
<1>2. Moves(e.s, Emit(e.s))
  BY EmitMoves DEF Carries
<1> QED
  BY <1>1, <1>2 DEF Carries, Moves, Keeps

LEMMA GateTurnMoves ==
  ASSUME NEW e, Carries(e)
  PROVE  Carries(GateTurn(e)) /\ Moves(e.s, GateTurn(e).s)
<1> DEFINE b == [e.s EXCEPT !.run = TRUE]
<1>1. Same(e.s, b)
  BY DEF Carries, Same, Ok, Fields
<1>2. /\ "s" \in DOMAIN GateTurn(e)
      /\ GateTurn(e).s = IF ~ZeroAhead(e.s, ByteU) THEN e.s ELSE Aligned(b)
  BY DEF GateTurn, Carries
<1> HIDE DEF b
<1>3. Same(b, Aligned(b))
  BY <1>1, AlignedSame DEF Same
<1>4. Same(e.s, Aligned(b)) /\ Same(e.s, e.s)
  BY <1>1, <1>3 DEF Same, Carries
<1>5. Moves(e.s, GateTurn(e).s)
  BY <1>2, <1>4, SameMoves DEF Carries
<1> QED
  BY <1>2, <1>5 DEF Carries, Moves, Keeps

LEMMA RunTurnMoves ==
  ASSUME NEW e, Carries(e)
  PROVE  Carries(RunTurn(e)) /\ Moves(e.s, RunTurn(e).s)
<1> DEFINE a == Advance(e.s, ByteU)
           flag == IF ZeroAhead(e.s, Peek - ByteU) THEN "scd" ELSE "ecd"
           b == [e.s EXCEPT !.flag = flag]
<1>1. Same(e.s, a)
  BY StreamSame DEF Carries
<1>2. Same(e.s, b)
  <2> HIDE DEF flag
  <2> QED
    BY DEF Carries, Same, Ok, Fields
<1>3. /\ "s" \in DOMAIN RunTurn(e)
      /\ RunTurn(e).s = IF ZeroAhead(e.s, Peek) THEN CommitScan(a) ELSE b
  <2> HIDE DEF flag
  <2>1. RunTurn(e) = IF ZeroAhead(e.s, Peek)
                     THEN [e EXCEPT !.s = CommitScan(Advance(@, ByteU))]
                     ELSE [e EXCEPT !.s.flag = flag, !.at = "top"]
    BY DEF RunTurn, flag
  <2>2. CASE ZeroAhead(e.s, Peek)
    BY <2>1, <2>2 DEF Carries
  <2>3. CASE ~ZeroAhead(e.s, Peek)
    BY <2>1, <2>3 DEF Carries
  <2> QED
    BY <2>2, <2>3
<1> HIDE DEF a, b
<1>4. Same(a, CommitScan(a))
  BY <1>1, CommitScanSame DEF Same
<1>5. Same(e.s, CommitScan(a))
  BY <1>1, <1>4 DEF Same
<1>6. Moves(e.s, RunTurn(e).s)
  BY <1>2, <1>3, <1>5, SameMoves DEF Carries
<1> QED
  BY <1>3, <1>6 DEF Carries, Moves, Keeps

LEMMA TurnMoves ==
  ASSUME NEW e, Carries(e)
  PROVE  Carries(Turn(e)) /\ Moves(e.s, Turn(e).s)
<1> DEFINE starved == [e EXCEPT !.at = "starved"]
           done == [e EXCEPT !.at = "done"]
<1>1. Moves(e.s, e.s)
  BY SameMoves DEF Same, Carries
<1>2. /\ Carries(starved) /\ starved.s = e.s
      /\ Carries(done) /\ done.s = e.s
  BY DEF Carries
<1>3. Turn(e) \in {starved, ReadTurn(e), EmitTurn(e), GateTurn(e), RunTurn(e), done, e}
  <2> HIDE DEF starved, done
  <2>1. CASE Avail(e.s) < Needed(e)
    BY <2>1 DEF Turn, starved
  <2>2. CASE ~(Avail(e.s) < Needed(e))
    <3> USE <2>2
    <3>1. CASE e.at = "read"
      BY <3>1 DEF Turn
    <3>2. CASE e.at = "emit"
      BY <3>2 DEF Turn
    <3>3. CASE e.at = "gate"
      BY <3>3 DEF Turn
    <3>4. CASE e.at = "run"
      BY <3>4 DEF Turn
    <3>5. CASE e.at = "top"
      BY <3>5 DEF Turn, done
    <3>6. CASE e.at \notin {"read", "emit", "gate", "run", "top"}
      BY <3>6 DEF Turn
    <3> QED
      BY <3>1, <3>2, <3>3, <3>4, <3>5, <3>6
  <2> QED
    BY <2>1, <2>2
<1> HIDE DEF starved, done
<1> QED
  BY <1>1, <1>2, <1>3, ReadTurnMoves, EmitTurnMoves, GateTurnMoves, RunTurnMoves

LEMMA ExecTurnMoves ==
  ASSUME NEW e, Carries(e)
  PROVE  Carries(ExecTurn(e)) /\ Moves(e.s, ExecTurn(e).s)
<1> DEFINE t == EnsureUnits(e.s, Needed(e))
           f == [e EXCEPT !.s = t]
<1>1. Moves(e.s, t)
  BY EnsureUnitsMoves DEF Carries
<1>2. ExecTurn(e) = Turn(f)
  BY DEF ExecTurn
<1> HIDE DEF t
<1>3. Carries(f) /\ f.s = t
  BY <1>1 DEF Carries, Moves, Keeps
<1> HIDE DEF f
<1>4. Carries(Turn(f)) /\ Moves(t, Turn(f).s)
  BY <1>3, TurnMoves
<1> QED
  BY <1>1, <1>2, <1>4, Onward

IsRunOf(w, e, n) == w = [k \in 0..n |-> IF k = 0 THEN e ELSE ExecTurn(w[k - 1])]

LEMMA RunExists ==
  ASSUME NEW e, NEW n \in Nat
  PROVE  \E w : IsRunOf(w, e, n)
<1> DEFINE T == {i \in Nat : \E w : IsRunOf(w, e, i)}
<1>1. 0 \in T
  <2>1. IsRunOf([k \in 0..0 |-> e], e, 0)
    BY DEF IsRunOf
  <2> QED
    BY <2>1
<1>2. ASSUME NEW i \in Nat, i \in T PROVE i + 1 \in T
  <2>1. PICK w : IsRunOf(w, e, i)
    BY <1>2
  <2> DEFINE v == [k \in 0..i + 1 |-> IF k = i + 1 THEN ExecTurn(w[i]) ELSE w[k]]
  <2>2. \A k \in 0..i + 1 : v[k] = IF k = 0 THEN e ELSE ExecTurn(v[k - 1])
    <3> SUFFICES ASSUME NEW k \in 0..i + 1
                 PROVE  v[k] = IF k = 0 THEN e ELSE ExecTurn(v[k - 1])
      OBVIOUS
    <3>1. CASE k = 0
      BY <2>1, <3>1 DEF IsRunOf
    <3>2. CASE k # 0
      <4>1. k - 1 \in 0..i /\ k - 1 # i + 1 /\ k - 1 \in 0..i + 1
        BY <3>2
      <4>2. v[k - 1] = w[k - 1]
        BY <4>1
      <4>3. v[k] = ExecTurn(w[k - 1])
        <5>1. CASE k = i + 1
          BY <5>1
        <5>2. CASE k # i + 1
          <6>1. k \in 0..i /\ v[k] = w[k]
            BY <5>2
          <6> QED
            BY <2>1, <3>2, <6>1 DEF IsRunOf
        <5> QED
          BY <5>1, <5>2
      <4> HIDE DEF v
      <4> QED
        BY <3>2, <4>2, <4>3
    <3> QED
      BY <3>1, <3>2
  <2>3. v = [k \in 0..i + 1 |-> v[k]]
    OBVIOUS
  <2> HIDE DEF v
  <2>4. IsRunOf(v, e, i + 1)
    BY <2>2, <2>3 DEF IsRunOf
  <2> QED
    BY <2>4
<1>3. Nat \subseteq T
  BY <1>1, <1>2, NatInduct
<1> QED
  BY <1>3

Entry(s) ==
  [s |-> s, left |-> s.cmd.len, at |-> IF s.tail THEN (IF s.run THEN "run" ELSE "gate") ELSE "read"]

LEMMA ExecIsTurns ==
  ASSUME NEW s
  PROVE  \E w : /\ w[0] = Entry(s) /\ Exec(s) = w[ExecTurns]
                /\ \A i \in 0..ExecTurns - 1 : w[i + 1] = ExecTurn(w[i])
<1> DEFINE N == ExecTurns
           entry == IF s.tail THEN (IF s.run THEN "run" ELSE "gate") ELSE "read"
           e == [s |-> s, left |-> s.cmd.len, at |-> entry]
           P(w) == w = [k \in 0..N |-> IF k = 0 THEN e ELSE ExecTurn(w[k - 1])]
<1>1. \E w : P(w)
  <2>1. N \in Nat
    BY Sizes
  <2> HIDE DEF e, N
  <2>2. \E w : IsRunOf(w, e, N)
    BY <2>1, RunExists
  <2> QED
    BY <2>2 DEF IsRunOf
<1>2. P(CHOOSE w : P(w))
  <2> HIDE DEF e
  <2> QED
    BY <1>1
<1>3. Exec(s) = (CHOOSE w : P(w))[N]
  BY DEF Exec
<1>4. e = Entry(s)
  BY DEF Entry
<1> HIDE DEF e
<1>5. PICK w : P(w) /\ Exec(s) = w[N]
  BY <1>2, <1>3
<1>6. N \in Nat
  BY Sizes
<1> HIDE DEF N
<1>7. w[0] = e
  BY <1>5, <1>6
<1>8. ASSUME NEW i \in 0..N - 1 PROVE w[i + 1] = ExecTurn(w[i])
  <2>1. i + 1 \in 0..N /\ i + 1 # 0 /\ (i + 1) - 1 = i
    BY <1>6
  <2> QED
    BY <1>5, <2>1
<1> QED
  BY <1>4, <1>5, <1>7, <1>8 DEF N

LEMMA ExecMoves ==
  ASSUME NEW s, Ok(s)
  PROVE  Carries(Exec(s)) /\ Moves(s, Exec(s).s)
<1>1. PICK w : /\ w[0] = Entry(s) /\ Exec(s) = w[ExecTurns]
               /\ \A i \in 0..ExecTurns - 1 : w[i + 1] = ExecTurn(w[i])
  BY ExecIsTurns
<1> DEFINE T == {i \in Nat : i <= ExecTurns => Carries(w[i]) /\ Moves(s, w[i].s)}
<1>2. ExecTurns \in Nat
  BY Sizes
<1>3. 0 \in T
  <2>1. Moves(s, s)
    BY SameMoves DEF Same
  <2>2. Carries(Entry(s)) /\ Entry(s).s = s
    BY DEF Carries, Entry
  <2> QED
    BY <1>1, <2>1, <2>2
<1>4. ASSUME NEW i \in Nat, i \in T PROVE i + 1 \in T
  <2> SUFFICES ASSUME i + 1 <= ExecTurns PROVE Carries(w[i + 1]) /\ Moves(s, w[i + 1].s)
    OBVIOUS
  <2>1. i \in 0..ExecTurns - 1 /\ Carries(w[i]) /\ Moves(s, w[i].s)
    BY <1>2, <1>4
  <2>2. Carries(ExecTurn(w[i])) /\ Moves(w[i].s, ExecTurn(w[i]).s)
    BY <2>1, ExecTurnMoves
  <2> QED
    BY <1>1, <2>1, <2>2, Onward
<1>5. ExecTurns \in T
  BY <1>2, <1>3, <1>4, NatInduct
<1> QED
  BY <1>1, <1>2, <1>5

LEMMA SettleMoves ==
  ASSUME NEW e, Carries(e)
  PROVE  Moves(e.s, Settle(e))
<1>1. CASE e.at = "done"
  <2> DEFINE a == [e.s EXCEPT !.busy = FALSE]
             b == CompactIn(a)
             c == AdvanceWalk(b)
             d == [c EXCEPT !.raised = @ \cup {"ipu"}]
  <2>1. Settle(e) = DrainCh3(d)
    BY <1>1 DEF Settle
  <2>2. Same(e.s, a)
    BY DEF Carries, Same, Ok, Fields
  <2> HIDE DEF a
  <2>3. Same(a, b)
    BY <2>2, StreamSame DEF Same
  <2>4. Moves(e.s, b)
    BY <2>2, <2>3, SameMoves, Onward DEF Carries, Same
  <2> HIDE DEF b
  <2>5. Moves(b, c)
    BY <2>4, AdvanceWalkMoves DEF Moves, Keeps
  <2> HIDE DEF c
  <2>6. /\ Ok(d) /\ d.pending = c.pending /\ d.suspend = c.suspend /\ d.dmae = c.dmae
        /\ d.str = c.str /\ d.raised = c.raised \cup {"ipu"}
        /\ d.active = c.active /\ d.active3 = c.active3
    BY <2>5 DEF Moves, Keeps, Ok, Fields
  <2> HIDE DEF d
  <2>7. Moves(c, d)
    BY <2>6 DEF Moves, Keeps, Lowers, Agree, Live
  <2>8. Moves(d, DrainCh3(d))
    BY <2>6, DrainCh3Moves
  <2> QED
    BY <2>1, <2>4, <2>5, <2>7, <2>8, Onward
<1>2. CASE e.at # "done"
  <2> DEFINE a == RestoreSnapshot(e.s)
             b == AdvanceWalk(a)
  <2>1. Settle(e) = Stalled(b)
    BY <1>2 DEF Settle
  <2>2. Moves(e.s, a)
    BY StreamSame, SameMoves DEF Carries
  <2> HIDE DEF a
  <2>3. Moves(a, b)
    BY <2>2, AdvanceWalkMoves DEF Moves, Keeps
  <2> HIDE DEF b
  <2>4. Moves(b, Stalled(b))
    BY <2>3, StreamSame, SameMoves DEF Moves, Keeps
  <2> QED
    BY <2>1, <2>2, <2>3, <2>4, Onward
<1> QED
  BY <1>1, <1>2

LEMMA RunPendingMoves ==
  ASSUME NEW s, Ok(s)
  PROVE  Moves(s, RunPending(s))
<1> DEFINE r == RestoreSnapshot(s)
           a == [r EXCEPT !.flag = "none"]
           e == Exec(a)
<1>1. RunPending(s) = IF ~s.busy THEN s ELSE Settle(e)
  BY DEF RunPending
<1>2. Same(s, s) /\ Same(s, r)
  BY StreamSame DEF Same
<1> HIDE DEF r
<1>3. Same(s, a)
  BY <1>2 DEF Same, Ok, Fields
<1>4. Moves(s, s) /\ Moves(s, a) /\ Ok(a)
  BY <1>2, <1>3, SameMoves DEF Same
<1> HIDE DEF a
<1>5. Carries(e) /\ Moves(a, e.s)
  BY <1>4, ExecMoves
<1> HIDE DEF e
<1>6. Moves(e.s, Settle(e))
  BY <1>5, SettleMoves
<1> QED
  BY <1>1, <1>4, <1>5, <1>6, Onward

LEMMA ServiceInputMoves ==
  ASSUME NEW s, Ok(s)
  PROVE  Moves(s, ServiceInput(s))
<1> DEFINE t == AdvanceWalk(s)
<1>1. ServiceInput(s) \in {t, RunPending(t)}
  BY DEF ServiceInput
<1>2. Moves(s, t)
  BY AdvanceWalkMoves
<1> HIDE DEF t
<1>3. Moves(t, RunPending(t))
  BY <1>2, RunPendingMoves DEF Moves, Keeps
<1> QED
  BY <1>1, <1>2, <1>3, Onward

LEMMA CmdWriteMoves ==
  ASSUME NEW s, NEW c, Ok(s)
  PROVE  Moves(s, CmdWrite(s, c))
<1> DEFINE a == [s EXCEPT !.cmd = c, !.busy = TRUE, !.csc = 0, !.tail = FALSE, !.run = FALSE,
                          !.flag = "none", !.raised = @ \ {"ipu"}]
           b == TakeSnapshot(a)
<1>1. CmdWrite(s, c) = RunPending(b)
  BY DEF CmdWrite
<1>2. /\ Ok(a) /\ a.pending = s.pending /\ a.suspend = s.suspend /\ a.dmae = s.dmae
      /\ a.str = s.str /\ a.raised = s.raised \ {"ipu"}
      /\ a.active = s.active /\ a.active3 = s.active3
  BY DEF Ok, Fields
<1> HIDE DEF a
<1>3. Moves(s, a)
  BY <1>2 DEF Moves, Keeps, Lowers, Agree, Live
<1>4. Moves(a, b)
  BY <1>2, StreamSame, SameMoves
<1> HIDE DEF b
<1>5. Moves(b, RunPending(b))
  BY <1>4, RunPendingMoves DEF Moves, Keeps
<1> QED
  BY <1>1, <1>3, <1>4, <1>5, Onward

LEMMA BclrMoves ==
  ASSUME NEW s, NEW bp, Ok(s)
  PROVE  Moves(s, Bclr(s, bp))
<1> DEFINE t == Bclr(s, bp)
<1>1. /\ Ok(t) /\ t.pending = s.pending /\ t.suspend = s.suspend /\ t.dmae = s.dmae
      /\ t.str = s.str /\ t.raised = s.raised \cup {"ipu"}
      /\ t.active = s.active /\ t.active3 = s.active3
  BY DEF Bclr, Ok, Fields
<1> HIDE DEF t
<1>2. Moves(s, t)
  BY <1>1 DEF Moves, Keeps, Lowers, Agree, Live
<1> QED
  BY <1>2 DEF t

-----------------------------------------------------------------------------
(* The controller *)

\* A kick puts its channel in order, whatever it was, and leaves the others so.
LEMMA KickMoves ==
  ASSUME NEW s, NEW ch \in DmaChannels, Ok(s), ch \in s.str, ch \notin s.pending
  PROVE  /\ Keeps(s, Kick(s, ch))
         /\ Agree(Kick(s, ch), ch)
         /\ \A c \in DmaChannels \ {ch} : Agree(s, c) => Agree(Kick(s, ch), c)
<1>1. CASE ch = "copy"
  <2> DEFINE t == Complete(s, "copy")
  <2>1. Kick(s, ch) = t
    BY <1>1 DEF Kick
  <2>2. /\ Ok(t) /\ t.pending = s.pending /\ t.suspend = s.suspend /\ t.dmae = s.dmae
        /\ t.str = s.str \ {"copy"} /\ t.raised = s.raised \cup {"copy"}
        /\ t.active = s.active /\ t.active3 = s.active3
    BY DEF Complete, Ok, Fields
  <2> HIDE DEF t
  <2>3. Keeps(s, t)
    BY <2>2 DEF Keeps, Lowers
  <2>4. Agree(t, "copy") /\ \A c \in DmaChannels \ {"copy"} : Agree(s, c) => Agree(t, c)
    BY <1>1, <2>2 DEF Agree, Live, DmaChannels
  <2> QED
    BY <1>1, <2>1, <2>3, <2>4
<1>2. CASE ch = "fromIpu"
  <2> DEFINE a == [s EXCEPT !.active3 = TRUE, !.drainAll = (s.qwc3 = 0)]
  <2>1. Kick(s, ch) = DrainCh3(a)
    BY <1>2 DEF Kick, IpuDmaKick
  <2>2. /\ Ok(a) /\ a.pending = s.pending /\ a.suspend = s.suspend /\ a.dmae = s.dmae
        /\ a.str = s.str /\ a.raised = s.raised
        /\ a.active = s.active /\ a.active3 = TRUE
    BY DEF Ok, Fields
  <2> HIDE DEF a
  <2>3. Keeps(s, a)
    BY <2>2 DEF Keeps, Lowers
  <2>4. Agree(a, "fromIpu") /\ \A c \in DmaChannels \ {"fromIpu"} : Agree(s, c) => Agree(a, c)
    BY <1>2, <2>2 DEF Agree, Live, DmaChannels
  <2>5. Moves(a, DrainCh3(a))
    BY <2>2, DrainCh3Moves
  <2> QED
    BY <1>2, <2>1, <2>3, <2>4, <2>5 DEF Moves, Keeps, Lowers
<1>3. CASE ch = "toIpu"
  <2> DEFINE a == [s EXCEPT !.active = TRUE, !.tagEnd = FALSE]
             b == AdvanceWalk(a)
             c == RunPending(b)
  <2>1. Kick(s, ch) \in {Complete(a, "toIpu"), DrainCh3(c)}
    BY <1>3 DEF Kick, IpuDmaKick
  <2>2. /\ Ok(a) /\ a.pending = s.pending /\ a.suspend = s.suspend /\ a.dmae = s.dmae
        /\ a.str = s.str /\ a.raised = s.raised
        /\ a.active = TRUE /\ a.active3 = s.active3
    BY DEF Ok, Fields
  <2> HIDE DEF a
  <2>3. Keeps(s, a)
    BY <2>2 DEF Keeps, Lowers
  <2>4. Agree(a, "toIpu") /\ \A d \in DmaChannels \ {"toIpu"} : Agree(s, d) => Agree(a, d)
    BY <1>3, <2>2 DEF Agree, Live, DmaChannels
  <2>5. Moves(a, Complete(a, "toIpu"))
    BY <1>3, <2>2, CompleteMoves
  <2>6. Moves(a, b)
    BY <2>2, AdvanceWalkMoves
  <2> HIDE DEF b
  <2>7. Moves(b, c)
    BY <2>6, RunPendingMoves DEF Moves, Keeps
  <2> HIDE DEF c
  <2>8. Moves(c, DrainCh3(c))
    BY <2>7, DrainCh3Moves DEF Moves, Keeps
  <2>9. Moves(a, Kick(s, ch))
    BY <2>1, <2>5, <2>6, <2>7, <2>8, Onward
  <2> QED
    BY <1>3, <2>3, <2>4, <2>9 DEF Moves, Keeps, Lowers
<1> QED
  BY <1>1, <1>2, <1>3 DEF DmaChannels

LEMMA IpuDmaResumeMoves ==
  ASSUME NEW s, Ok(s)
  PROVE  Moves(s, IpuDmaResume(s))
<1> DEFINE b == AdvanceWalk(s)
           c == RunPending(b)
<1>1. IpuDmaResume(s) \in {s, DrainCh3(c)}
  BY DEF IpuDmaResume
<1>2. Moves(s, s) /\ Moves(s, b)
  BY SameMoves, AdvanceWalkMoves DEF Same
<1> HIDE DEF b
<1>3. Moves(b, c)
  BY <1>2, RunPendingMoves DEF Moves, Keeps
<1> HIDE DEF c
<1>4. Moves(c, DrainCh3(c))
  BY <1>3, DrainCh3Moves DEF Moves, Keeps
<1> QED
  BY <1>1, <1>2, <1>3, <1>4, Onward

\* The channels are in order, and a kick is queued only while they are held.
Ordered(s) ==
  /\ Ok(s) /\ s.pending \subseteq DmaChannels
  /\ \A ch \in DmaChannels : Agree(s, ch)

Sound(s) == Ordered(s) /\ (s.pending # {} => DmaHeld(s))

LEMMA MovesSound ==
  ASSUME NEW s, NEW t, Sound(s), Moves(s, t)
  PROVE  Sound(t)
BY DEF Sound, Ordered, Moves, Keeps, DmaHeld

\* One queued kick taken out of the queue.
KickQueued(p, t, ch) ==
  IF ch \in p THEN Kick([t EXCEPT !.pending = @ \ {ch}], ch) ELSE t

LEMMA KickQueuedKeeps ==
  ASSUME NEW t, NEW p, NEW ch \in DmaChannels, Ordered(t), ch \in t.pending <=> ch \in p
  PROVE  LET u == KickQueued(p, t, ch)
         IN /\ Ordered(u) /\ u.pending = t.pending \ {ch}
            /\ u.suspend = t.suspend /\ u.dmae = t.dmae /\ Lowers(t, u)
<1>1. CASE ch \notin p
  <2>1. KickQueued(p, t, ch) = t /\ t.pending = t.pending \ {ch}
    BY <1>1 DEF KickQueued
  <2> QED
    BY <2>1 DEF Lowers
<1>2. CASE ch \in p
  <2> DEFINE a == [t EXCEPT !.pending = @ \ {ch}]
             u == Kick(a, ch)
  <2>1. KickQueued(p, t, ch) = u
    BY <1>2 DEF KickQueued
  <2>2. /\ Ok(a) /\ a.pending = t.pending \ {ch} /\ a.suspend = t.suspend /\ a.dmae = t.dmae
        /\ a.str = t.str /\ a.raised = t.raised
        /\ a.active = t.active /\ a.active3 = t.active3
    BY DEF Ordered, Ok, Fields
  <2> HIDE DEF a
  <2>3. \A c \in DmaChannels \ {ch} : Agree(a, c)
    BY <2>2 DEF Ordered, Agree, Live
  <2>4. ch \in a.str /\ ch \notin a.pending
    BY <1>2, <2>2 DEF Ordered, Agree
  <2>5. /\ Keeps(a, u) /\ Agree(u, ch)
        /\ \A c \in DmaChannels \ {ch} : Agree(a, c) => Agree(u, c)
    BY <2>2, <2>4, KickMoves
  <2> HIDE DEF u
  <2>6. \A c \in DmaChannels : Agree(u, c)
    BY <2>3, <2>5
  <2> QED
    BY <2>1, <2>2, <2>5, <2>6 DEF Ordered, Keeps, Lowers
<1> QED
  BY <1>1, <1>2

LEMMA LowersOn ==
  ASSUME NEW s, NEW t, NEW u, Lowers(s, t), Lowers(t, u)
  PROVE  Lowers(s, u)
BY DEF Lowers

LEMMA ReleasePendingKeeps ==
  ASSUME NEW s, Ordered(s)
  PROVE  LET t == ReleasePending(s)
         IN /\ Ordered(t) /\ t.pending = {}
            /\ t.suspend = s.suspend /\ t.dmae = s.dmae /\ Lowers(s, t)
<1> DEFINE p == s.pending
           a == KickQueued(p, s, "fromIpu")
           b == KickQueued(p, a, "toIpu")
           c == KickQueued(p, b, "copy")
<1>1. ReleasePending(s) \in {c, IpuDmaResume(c)}
  BY DEF ReleasePending, KickQueued
<1>2. /\ Ordered(a) /\ a.pending = p \ {"fromIpu"}
      /\ a.suspend = s.suspend /\ a.dmae = s.dmae /\ Lowers(s, a)
  BY KickQueuedKeeps DEF DmaChannels
<1> HIDE DEF a
<1>3. /\ Ordered(b) /\ b.pending = a.pending \ {"toIpu"}
      /\ b.suspend = a.suspend /\ b.dmae = a.dmae /\ Lowers(a, b)
  <2>1. "toIpu" \in DmaChannels /\ ("toIpu" \in a.pending <=> "toIpu" \in p)
    BY <1>2 DEF DmaChannels
  <2> HIDE DEF p
  <2> QED
    BY <1>2, <2>1, KickQueuedKeeps
<1> HIDE DEF b
<1>4. /\ Ordered(c) /\ c.pending = b.pending \ {"copy"}
      /\ c.suspend = b.suspend /\ c.dmae = b.dmae /\ Lowers(b, c)
  <2>1. "copy" \in DmaChannels /\ ("copy" \in b.pending <=> "copy" \in p)
    BY <1>2, <1>3 DEF DmaChannels
  <2> HIDE DEF p
  <2> QED
    BY <1>3, <2>1, KickQueuedKeeps
<1> HIDE DEF c
<1>5. Lowers(s, c)
  BY <1>2, <1>3, <1>4, LowersOn
<1>6. c.pending = {}
  BY <1>2, <1>3, <1>4 DEF Ordered, DmaChannels
<1>7. Moves(c, IpuDmaResume(c))
  BY <1>4, IpuDmaResumeMoves DEF Ordered
<1>8. CASE ReleasePending(s) = c
  BY <1>2, <1>3, <1>4, <1>5, <1>6, <1>8
<1>9. CASE ReleasePending(s) = IpuDmaResume(c)
  <2> DEFINE d == IpuDmaResume(c)
  <2> HIDE DEF d
  <2>1. Ordered(d) /\ d.pending = {} /\ d.suspend = s.suspend /\ d.dmae = s.dmae
    BY <1>2, <1>3, <1>4, <1>6, <1>7 DEF Ordered, Moves, Keeps, d
  <2>2. Lowers(s, d)
    BY <1>5, <1>7, LowersOn DEF Moves, Keeps, d
  <2> QED
    BY <1>9, <2>1, <2>2 DEF d
<1> QED
  BY <1>1, <1>8, <1>9
LEMMA HoldWriteKeeps ==
  ASSUME NEW s, NEW suspend, NEW dmae, Sound(s)
  PROVE  LET t == HoldWrite(s, suspend, dmae)
         IN Sound(t) /\ Lowers(s, t) /\ (suspend = TRUE => DmaHeld(t))
<1> DEFINE a == [s EXCEPT !.suspend = suspend, !.dmae = dmae]
           r == ReleasePending(a)
<1>1. HoldWrite(s, suspend, dmae) = IF DmaHeld(s) /\ ~DmaHeld(a) THEN r ELSE a
  BY DEF HoldWrite
<1>2. /\ Ok(a) /\ a.pending = s.pending /\ a.suspend = suspend /\ a.dmae = dmae
      /\ a.str = s.str /\ a.raised = s.raised
      /\ a.active = s.active /\ a.active3 = s.active3
  BY DEF Sound, Ordered, Ok, Fields
<1> HIDE DEF a
<1>3. Ordered(a) /\ Lowers(s, a)
  BY <1>2 DEF Sound, Ordered, Agree, Live, Lowers
<1>4. /\ Ordered(r) /\ r.pending = {}
      /\ r.suspend = suspend /\ r.dmae = dmae /\ Lowers(a, r)
  BY <1>2, <1>3, ReleasePendingKeeps
<1> HIDE DEF r
<1>5. Lowers(s, r)
  BY <1>3, <1>4, LowersOn
<1>6. suspend = TRUE => DmaHeld(a)
  BY <1>2 DEF DmaHeld
<1>7. CASE DmaHeld(s) /\ ~DmaHeld(a)
  BY <1>1, <1>4, <1>5, <1>6, <1>7 DEF Sound
<1>8. CASE ~(DmaHeld(s) /\ ~DmaHeld(a))
  BY <1>1, <1>2, <1>3, <1>6, <1>8 DEF Sound
<1> QED
  BY <1>7, <1>8

\* While the controller is held a start is queued, and a stop forgets it.
LEMMA ChcrStartKeeps ==
  ASSUME NEW s, NEW ch \in DmaChannels, Sound(s), DmaHeld(s), ch \notin s.str
  PROVE  LET t == ChcrWrite(s, ch, TRUE)
         IN /\ Sound(t) /\ t.suspend = s.suspend /\ t.dmae = s.dmae
            /\ t.str = s.str \cup {ch} /\ t.raised = s.raised
<1> DEFINE a == [s EXCEPT !.str = @ \cup {ch}]
           t == [a EXCEPT !.pending = @ \cup {ch}]
<1>1. ChcrWrite(s, ch, TRUE) = t
  BY DEF ChcrWrite
<1>2. Ok(a) /\ a.str = s.str \cup {ch} /\ a.raised = s.raised
      /\ a.pending = s.pending /\ a.suspend = s.suspend /\ a.dmae = s.dmae
      /\ a.active = s.active /\ a.active3 = s.active3
  BY DEF Sound, Ordered, Ok, Fields
<1> HIDE DEF a
<1>3. Ok(t) /\ t.str = s.str \cup {ch} /\ t.raised = s.raised
      /\ t.pending = s.pending \cup {ch} /\ t.suspend = s.suspend /\ t.dmae = s.dmae
      /\ t.active = s.active /\ t.active3 = s.active3
  BY <1>2 DEF Ok, Fields
<1> HIDE DEF t
<1>4. \A c \in DmaChannels : Agree(t, c)
  <2> SUFFICES ASSUME NEW c \in DmaChannels PROVE Agree(t, c)
    OBVIOUS
  <2>1. Agree(s, c) /\ Agree(s, ch)
    BY DEF Sound, Ordered
  <2> QED
    BY <1>3, <2>1 DEF Agree, Live
<1>5. Sound(t)
  BY <1>3, <1>4 DEF Sound, Ordered, DmaHeld
<1> QED
  BY <1>1, <1>3, <1>5

LEMMA ChcrStopKeeps ==
  ASSUME NEW s, NEW ch \in DmaChannels, Sound(s)
  PROVE  LET t == ChcrWrite(s, ch, FALSE)
         IN /\ Sound(t) /\ t.suspend = s.suspend /\ t.dmae = s.dmae
            /\ t.str = s.str \ {ch} /\ t.raised = s.raised
<1> DEFINE a == [s EXCEPT !.str = @ \ {ch}, !.pending = @ \ {ch}]
           t == IpuDmaStop(a, ch)
<1>1. ChcrWrite(s, ch, FALSE) = t
  BY DEF ChcrWrite
<1>2. Ok(a) /\ a.str = s.str \ {ch} /\ a.raised = s.raised
      /\ a.pending = s.pending \ {ch} /\ a.suspend = s.suspend /\ a.dmae = s.dmae
      /\ a.active = s.active /\ a.active3 = s.active3
  BY DEF Sound, Ordered, Ok, Fields
<1> HIDE DEF a
<1>3. Ok(t) /\ t.str = s.str \ {ch} /\ t.raised = s.raised
      /\ t.pending = s.pending \ {ch} /\ t.suspend = s.suspend /\ t.dmae = s.dmae
      /\ t.active = (IF ch = "toIpu" THEN FALSE ELSE s.active)
      /\ t.active3 = (IF ch = "fromIpu" THEN FALSE ELSE s.active3)
  <2>1. CASE ch = "toIpu"
    BY <1>2, <2>1 DEF IpuDmaStop, Ok, Fields
  <2>2. CASE ch = "fromIpu"
    BY <1>2, <2>2 DEF IpuDmaStop, Ok, Fields
  <2>3. CASE ch = "copy"
    BY <1>2, <2>3 DEF IpuDmaStop
  <2> QED
    BY <2>1, <2>2, <2>3 DEF DmaChannels
<1> HIDE DEF t
<1>4. \A c \in DmaChannels : Agree(t, c)
  <2> SUFFICES ASSUME NEW c \in DmaChannels PROVE Agree(t, c)
    OBVIOUS
  <2>1. Agree(s, c)
    BY DEF Sound, Ordered
  <2> QED
    BY <1>3, <2>1 DEF Agree, Live
<1>5. Sound(t)
  BY <1>3, <1>4 DEF Sound, Ordered, DmaHeld
<1> QED
  BY <1>1, <1>3, <1>5

LEMMA WindowStartKeeps ==
  ASSUME NEW s, NEW ch \in DmaChannels, Sound(s), ch \notin s.str
  PROVE  LET t == Window(s, ch, TRUE)
         IN /\ Sound(t) /\ t.str \subseteq s.str \cup {ch}
            /\ "toIpu" \in s.str \cup s.raised \cup {ch} => "toIpu" \in t.str \cup t.raised
<1> DEFINE a == HoldWrite(s, TRUE, s.dmae)
           b == ChcrWrite(a, ch, TRUE)
           t == HoldWrite(b, FALSE, s.dmae)
<1>1. Window(s, ch, TRUE) = t
  BY DEF Window
<1>2. Sound(a) /\ DmaHeld(a) /\ Lowers(s, a)
  BY HoldWriteKeeps
<1> HIDE DEF a
<1>3. DmaHeld(a) /\ ch \notin a.str
  BY <1>2 DEF Lowers
<1>4. Sound(b) /\ b.str = a.str \cup {ch} /\ b.raised = a.raised
  BY <1>2, <1>3, ChcrStartKeeps
<1> HIDE DEF b
<1>5. Sound(t) /\ Lowers(b, t)
  BY <1>4, HoldWriteKeeps
<1> HIDE DEF t
<1> QED
  BY <1>1, <1>2, <1>4, <1>5 DEF Lowers

LEMMA WindowStopKeeps ==
  ASSUME NEW s, NEW ch \in DmaChannels, Sound(s)
  PROVE  LET t == Window(s, ch, FALSE)
         IN Sound(t) /\ t.str \subseteq s.str \ {ch}
<1> DEFINE a == HoldWrite(s, TRUE, s.dmae)
           b == ChcrWrite(a, ch, FALSE)
           t == HoldWrite(b, FALSE, s.dmae)
<1>1. Window(s, ch, FALSE) = t
  BY DEF Window
<1>2. Sound(a) /\ Lowers(s, a)
  BY HoldWriteKeeps
<1> HIDE DEF a
<1>3. Sound(b) /\ b.str = a.str \ {ch}
  BY <1>2, ChcrStopKeeps
<1> HIDE DEF b
<1>4. Sound(t) /\ Lowers(b, t)
  BY <1>3, HoldWriteKeeps
<1> HIDE DEF t
<1> QED
  BY <1>1, <1>2, <1>3, <1>4 DEF Lowers

LEMMA TeardownKeeps ==
  ASSUME NEW s, Sound(s)
  PROVE  LET t == TeardownWindow(s)
         IN Sound(t) /\ t.str \subseteq s.str \ DmaChannels
<1> DEFINE a == HoldWrite(s, TRUE, s.dmae)
           b == ChcrWrite(a, "fromIpu", FALSE)
           c == ChcrWrite(b, "toIpu", FALSE)
           d == ChcrWrite(c, "copy", FALSE)
           t == HoldWrite(d, FALSE, s.dmae)
<1>1. TeardownWindow(s) = t
  BY DEF TeardownWindow
<1>2. Sound(a) /\ Lowers(s, a)
  BY HoldWriteKeeps
<1> HIDE DEF a
<1>3. Sound(b) /\ b.str = a.str \ {"fromIpu"}
  BY <1>2, ChcrStopKeeps DEF DmaChannels
<1> HIDE DEF b
<1>4. Sound(c) /\ c.str = b.str \ {"toIpu"}
  BY <1>3, ChcrStopKeeps DEF DmaChannels
<1> HIDE DEF c
<1>5. Sound(d) /\ d.str = c.str \ {"copy"}
  BY <1>4, ChcrStopKeeps DEF DmaChannels
<1> HIDE DEF d
<1>6. Sound(t) /\ Lowers(d, t)
  BY <1>5, HoldWriteKeeps
<1> HIDE DEF t
<1> QED
  BY <1>1, <1>2, <1>3, <1>4, <1>5, <1>6 DEF Lowers, DmaChannels

-----------------------------------------------------------------------------
(* STR tells the truth *)

\* Between its brackets the library has the channel running, or ended with its
\* interrupt; inside one it is stopped, and in a teardown so is the output.
Bracket(s, l) ==
  /\ l.pc # "run" => "toIpu" \notin s.str
  /\ l.pc = "run" => "toIpu" \in s.str \cup s.raised
  /\ l.pc = "stopped" /\ l.job = "reset" => "fromIpu" \notin s.str

LibOk(l) == {"pc", "job"} \subseteq DOMAIN l

ChannelInv == Sound(m) /\ LibOk(lib) /\ Bracket(m, lib)

LEMMA InitChannel == Init => ChannelInv
<1> SUFFICES ASSUME Init PROVE ChannelInv
  OBVIOUS
<1>1. PICK chain \in BOOLEAN : m = Machine(chain)
  BY DEF Init
<1>2. Ok(m) /\ m.pending = {} /\ m.str = {}
      /\ m.active = FALSE /\ m.active3 = FALSE
  BY <1>1 DEF Machine, Ok, Fields
<1>3. Sound(m)
  BY <1>2 DEF Sound, Ordered, Agree, Live
<1>4. LibOk(lib) /\ lib.pc = "set"
  BY DEF Init, LibOk
<1> QED
  BY <1>2, <1>3, <1>4 DEF ChannelInv, Bracket

\* A step that only moves the machine, whatever the library then goes on to.
LEMMA MovesKeepChannel ==
  ASSUME NEW s, NEW t, NEW l, Sound(s), Bracket(s, l), Moves(s, t)
  PROVE  Sound(t) /\ Bracket(t, l)
<1>1. Sound(t)
  BY MovesSound
<1>2. Lowers(s, t)
  BY DEF Moves, Keeps
<1> QED
  BY <1>1, <1>2 DEF Bracket, Lowers
LEMMA NextChannel == ChannelInv /\ [Next]_vars => ChannelInv'
<1> SUFFICES ASSUME ChannelInv, [Next]_vars PROVE ChannelInv'
  OBVIOUS
<1>0. /\ Sound(m) /\ Bracket(m, lib) /\ LibOk(lib)
      /\ Ok(m) /\ \A ch \in DmaChannels : Agree(m, ch)
  BY DEF ChannelInv, Sound, Ordered
<1>1. ASSUME NEW c, Command(c) PROVE ChannelInv'
  <2>1. Moves(m, m') /\ lib' = lib
    BY <1>0, <1>1, CmdWriteMoves DEF Command
  <2> QED
    BY <1>0, <2>1, MovesKeepChannel DEF ChannelInv
<1>2. CASE Poll
  <2>1. Moves(m, m') /\ lib' = lib
    BY <1>0, <1>2, ServiceInputMoves DEF Poll
  <2> QED
    BY <1>0, <2>1, MovesKeepChannel DEF ChannelInv
<1>3. ASSUME NEW n, ArmOutput(n) PROVE ChannelInv'
  <2> DEFINE a == [m EXCEPT !.qwc3 = n, !.raised = @ \ {"fromIpu"}]
  <2>1. /\ m' = Window(a, "fromIpu", TRUE) /\ lib' = lib /\ "fromIpu" \notin m.str
        /\ lib.pc = "run" \/ lib.job # "reset"
    BY <1>3 DEF ArmOutput
  <2>2. /\ Ok(a) /\ a.pending = m.pending /\ a.suspend = m.suspend /\ a.dmae = m.dmae
        /\ a.str = m.str /\ a.raised = m.raised \ {"fromIpu"}
        /\ a.active = m.active /\ a.active3 = m.active3
    BY <1>0 DEF Ok, Fields
  <2> HIDE DEF a
  <2>3. Sound(a)
    BY <1>0, <2>2 DEF Sound, Ordered, Agree, Live, DmaHeld
  <2>4. /\ Sound(m') /\ m'.str \subseteq a.str \cup {"fromIpu"}
        /\ "toIpu" \in a.str \cup a.raised \cup {"fromIpu"} => "toIpu" \in m'.str \cup m'.raised
    BY <2>1, <2>2, <2>3, WindowStartKeeps DEF DmaChannels
  <2>5. Bracket(m', lib)
    BY <1>0, <2>1, <2>2, <2>4 DEF Bracket
  <2> QED
    BY <1>0, <2>1, <2>4, <2>5 DEF ChannelInv
<1>4. CASE StartCopy
  <2> DEFINE a == [m EXCEPT !.raised = @ \ {"copy"}]
  <2>1. m' = Window(a, "copy", TRUE) /\ lib' = lib /\ "copy" \notin m.str
    BY <1>4 DEF StartCopy
  <2>2. /\ Ok(a) /\ a.pending = m.pending /\ a.suspend = m.suspend /\ a.dmae = m.dmae
        /\ a.str = m.str /\ a.raised = m.raised \ {"copy"}
        /\ a.active = m.active /\ a.active3 = m.active3
    BY <1>0 DEF Ok, Fields
  <2> HIDE DEF a
  <2>3. Sound(a)
    BY <1>0, <2>2 DEF Sound, Ordered, Agree, Live, DmaHeld
  <2>4. /\ Sound(m') /\ m'.str \subseteq a.str \cup {"copy"}
        /\ "toIpu" \in a.str \cup a.raised \cup {"copy"} => "toIpu" \in m'.str \cup m'.raised
    BY <2>1, <2>2, <2>3, WindowStartKeeps DEF DmaChannels
  <2>5. Bracket(m', lib)
    BY <1>0, <2>2, <2>4 DEF Bracket
  <2> QED
    BY <1>0, <2>1, <2>4, <2>5 DEF ChannelInv
<1>5. CASE HoldOff \/ HoldOn
  <2>1. PICK on \in BOOLEAN : m' = HoldWrite(m, m.suspend, on) /\ lib' = lib
    BY <1>5 DEF HoldOff, HoldOn
  <2>2. Sound(m') /\ Lowers(m, m')
    BY <1>0, <2>1, HoldWriteKeeps
  <2>3. Bracket(m', lib)
    BY <1>0, <2>2 DEF Bracket, Lowers
  <2> QED
    BY <1>0, <2>1, <2>2, <2>3 DEF ChannelInv
<1>6. ASSUME NEW job, StopDma(job) PROVE ChannelInv'
  <2>1. /\ m' = IF job = "reset" THEN TeardownWindow(m) ELSE Window(m, "toIpu", FALSE)
        /\ lib' = [lib EXCEPT !.pc = "stopped", !.job = job]
    BY <1>6 DEF StopDma
  <2>2. LibOk(lib') /\ lib'.pc = "stopped" /\ lib'.job = job
    BY <1>0, <2>1 DEF LibOk
  <2>3. CASE job = "reset"
    <3>1. Sound(m') /\ m'.str \subseteq m.str \ DmaChannels
      BY <1>0, <2>1, <2>3, TeardownKeeps
    <3>2. Bracket(m', lib')
      BY <2>2, <3>1 DEF Bracket, DmaChannels
    <3> QED
      BY <2>2, <3>1, <3>2 DEF ChannelInv
  <2>4. CASE job # "reset"
    <3>1. Sound(m') /\ m'.str \subseteq m.str \ {"toIpu"}
      BY <1>0, <2>1, <2>4, WindowStopKeeps DEF DmaChannels
    <3>2. Bracket(m', lib')
      BY <2>2, <2>4, <3>1 DEF Bracket
    <3> QED
      BY <2>2, <3>1, <3>2 DEF ChannelInv
  <2> QED
    BY <2>3, <2>4
<1>7. CASE Publish \/ WriteRegisters
  <2>1. /\ Same(m, m') /\ lib' = [lib EXCEPT !.pc = "set"]
        /\ lib.pc \in {"stopped", "cleared"}
    BY <1>0, <1>7 DEF Publish, WriteRegisters, Goto, Same, Ok, Fields
  <2>2. Moves(m, m')
    BY <1>0, <2>1, SameMoves
  <2>3. LibOk(lib') /\ lib'.pc = "set"
    BY <1>0, <2>1 DEF LibOk
  <2>4. Bracket(m, lib')
    BY <1>0, <2>1, <2>3 DEF Bracket
  <2> QED
    BY <1>0, <2>2, <2>3, <2>4, MovesKeepChannel DEF ChannelInv
<1>8. CASE ReadRegisters \/ ReadBp
  <2>1. Moves(m, m')
    <3>1. m' = m \/ m' = ServiceInput(m)
      BY <1>8 DEF ReadRegisters, ReadBp
    <3>2. Moves(m, m)
      BY <1>0, SameMoves DEF Same
    <3> QED
      BY <1>0, <3>1, <3>2, ServiceInputMoves
  <2>2. LibOk(lib') /\ lib'.pc \in {"regs", "bp"} /\ lib.pc # "run"
    BY <1>0, <1>8 DEF LibOk, ReadRegisters, ReadBp
  <2>3. Bracket(m, lib')
    BY <1>0, <2>2 DEF Bracket
  <2> QED
    BY <1>0, <2>1, <2>2, <2>3, MovesKeepChannel DEF ChannelInv
<1>9. CASE IssueBclr
  <2>1. Moves(m, m')
    BY <1>0, <1>9, BclrMoves DEF IssueBclr
  <2>2. LibOk(lib') /\ lib'.pc = "cleared" /\ lib.pc # "run"
    BY <1>0, <1>9 DEF LibOk, IssueBclr, Goto
  <2>3. Bracket(m, lib')
    BY <1>0, <2>2 DEF Bracket
  <2> QED
    BY <1>0, <2>1, <2>2, <2>3, MovesKeepChannel DEF ChannelInv
<1>10. CASE StartDma
  <2> DEFINE a == [m EXCEPT !.raised = @ \ {"toIpu"}]
  <2>1. m' = Window(a, "toIpu", TRUE) /\ lib.pc = "set"
    BY <1>10 DEF StartDma
  <2>2. LibOk(lib') /\ lib'.pc = "run"
    BY <1>0, <1>10 DEF LibOk, StartDma, Goto
  <2>3. /\ Ok(a) /\ a.pending = m.pending /\ a.suspend = m.suspend /\ a.dmae = m.dmae
        /\ a.str = m.str /\ a.active = m.active /\ a.active3 = m.active3
    BY <1>0 DEF Ok, Fields
  <2> HIDE DEF a
  <2>4. Sound(a) /\ "toIpu" \notin a.str
    BY <1>0, <2>1, <2>3 DEF Sound, Ordered, Agree, Live, DmaHeld, Bracket
  <2>5. Sound(m') /\ "toIpu" \in m'.str \cup m'.raised
    BY <2>1, <2>4, WindowStartKeeps DEF DmaChannels
  <2>6. Bracket(m', lib')
    BY <2>2, <2>5 DEF Bracket
  <2> QED
    BY <2>2, <2>5, <2>6 DEF ChannelInv
<1>11. CASE Reset
  <2>1. m' = SoftReset(m) /\ lib.pc = "stopped" /\ lib.job = "reset"
    BY <1>11 DEF Reset
  <2>2. LibOk(lib') /\ lib'.pc = "cleared"
    BY <1>0, <1>11 DEF LibOk, Reset
  <2>3. /\ Ok(m') /\ m'.pending = m.pending /\ m'.suspend = m.suspend /\ m'.dmae = m.dmae
        /\ m'.str = m.str /\ m'.active = FALSE /\ m'.active3 = FALSE
    BY <1>0, <2>1 DEF SoftReset, Ok, Fields
  <2>4. "toIpu" \notin m.str /\ "fromIpu" \notin m.str
    BY <1>0, <2>1 DEF Bracket
  <2>5. \A ch \in DmaChannels : Agree(m', ch)
    BY <1>0, <2>3, <2>4 DEF Agree, Live, DmaChannels
  <2>6. Sound(m')
    BY <1>0, <2>3, <2>5 DEF Sound, Ordered, DmaHeld
  <2>7. Bracket(m', lib')
    BY <2>2, <2>3, <2>4 DEF Bracket
  <2> QED
    BY <2>2, <2>6, <2>7 DEF ChannelInv
<1>12. CASE UNCHANGED vars
  BY <1>12 DEF vars, ChannelInv
<1> QED
  BY <1>1, <1>2, <1>3, <1>4, <1>5, <1>6, <1>7, <1>8, <1>9, <1>10, <1>11, <1>12 DEF Next

\* Whatever commands the guest issues, and wherever the library stops, rewinds
\* or resets the stream and another thread holds the controller: a STR bit is
\* set exactly while its transfer runs or is queued, nothing stays queued behind
\* a hold, and channel 4 ends with its interrupt (hw/dmac.cpp, hw/ipu.cpp).
THEOREM StrTruthfulCorrect == Spec => []StrTruthful
<1>1. ChannelInv => StrTruthful
  <2> SUFFICES ASSUME ChannelInv PROVE StrTruthful
    OBVIOUS
  <2>1. /\ Ok(m) /\ \A ch \in DmaChannels : Agree(m, ch)
        /\ m.pending # {} => DmaHeld(m)
    BY DEF ChannelInv, Sound, Ordered
  <2>2. /\ "toIpu" \in m.str <=> m.active \/ "toIpu" \in m.pending
        /\ "fromIpu" \in m.str <=> m.active3 \/ "fromIpu" \in m.pending
        /\ "copy" \in m.str <=> "copy" \in m.pending
    BY <2>1 DEF Agree, Live, DmaChannels
  <2>3. lib.pc = "run" /\ "toIpu" \notin m.str => "toIpu" \in m.raised
    BY DEF ChannelInv, Bracket
  <2> QED
    BY <2>1, <2>2, <2>3 DEF StrTruthful
<1> QED
  BY <1>1, InitChannel, NextChannel, PTL DEF Spec
-----------------------------------------------------------------------------
(* The stream in the FIFO: what every function leaves well formed *)

AllFields ==
  {"suspend", "dmae", "pending", "str", "raised", "madr", "qwc", "tadr", "published", "chain",
   "active", "tagEnd", "in", "pos", "hw", "busy", "cmd", "snap", "snapPred", "fresh", "pred",
   "tail", "run", "csc", "stall", "flag", "active3", "drainAll", "qwc3", "out", "taken"}

Full(s) == AllFields \subseteq DOMAIN s

Quads == SlotQw * Slots

\* The channel's registers: the quadwords fetched, those left of the slot or of
\* the transfer, and the next tag.
RegsOk(chain, madr, qwc, tadr) ==
  /\ madr \in 0..Quads /\ qwc \in 0..Quads /\ tadr \in 0..Slots
  /\ madr + qwc = IF chain THEN tadr * SlotQw ELSE Quads

\* The FIFO holds the quadwords before MADR, in order and none missing, and no
\* more than its depth and the open one behind the furthest the decoder has read.
FifoOk(in, madr, pos, hw) ==
  /\ in \in Seq(0..Quads - 1) /\ Len(in) <= madr
  /\ \A i \in 1..Len(in) : in[i] = madr - Len(in) + i - 1
  /\ pos \in Nat /\ hw \in Nat /\ pos <= hw
  /\ hw <= Len(in) * QwU \/ (Len(in) = 0 /\ hw < QwU)
  /\ Len(in) - (hw \div QwU) <= Fifo + 1

CtlOk(s) ==
  /\ s.suspend \in BOOLEAN /\ s.dmae \in BOOLEAN /\ s.chain \in BOOLEAN
  /\ s.active \in BOOLEAN /\ s.tagEnd \in BOOLEAN
  /\ s.pending \subseteq DmaChannels /\ s.str \subseteq DmaChannels
  /\ s.raised \subseteq DmaChannels \cup {"ipu"}
  /\ s.published \in 1..Slots

OutOk(s) ==
  /\ s.active3 \in BOOLEAN /\ s.drainAll \in BOOLEAN
  /\ s.qwc3 \in Nat /\ s.out \in Nat /\ s.taken \in Nat

DecOk(s) ==
  /\ s.busy \in BOOLEAN /\ s.tail \in BOOLEAN /\ s.run \in BOOLEAN
  /\ s.cmd \in AllCommands /\ s.flag \in {"none", "ecd", "scd"}
  /\ s.snap \in 0..Units /\ s.stall \in 0..Units
  /\ s.pred \in Nat /\ s.snapPred \in Nat /\ s.csc \in Nat /\ s.fresh = 0

Formed(s) ==
  /\ Full(s) /\ CtlOk(s) /\ OutOk(s) /\ DecOk(s)
  /\ RegsOk(s.chain, s.madr, s.qwc, s.tadr) /\ FifoOk(s.in, s.madr, s.pos, s.hw)

\* The retry point of a pending command is not ahead of what was read.
Snapped(s) == s.busy => s.snap <= s.hw

SameCtl(s, t) ==
  /\ t.suspend = s.suspend /\ t.dmae = s.dmae /\ t.pending = s.pending
  /\ t.chain = s.chain /\ t.published = s.published
SameOut(s, t) ==
  /\ t.active3 = s.active3 /\ t.drainAll = s.drainAll
  /\ t.qwc3 = s.qwc3 /\ t.out = s.out /\ t.taken = s.taken
SameIn(s, t) ==
  /\ t.madr = s.madr /\ t.qwc = s.qwc /\ t.tadr = s.tadr
  /\ t.active = s.active /\ t.tagEnd = s.tagEnd /\ t.in = s.in
SameDec(s, t) ==
  /\ t.pos = s.pos /\ t.hw = s.hw /\ t.busy = s.busy /\ t.cmd = s.cmd /\ t.snap = s.snap
  /\ t.snapPred = s.snapPred /\ t.fresh = s.fresh /\ t.pred = s.pred /\ t.tail = s.tail
  /\ t.run = s.run /\ t.csc = s.csc /\ t.stall = s.stall /\ t.flag = s.flag

LEMMA SizesPositive ==
  /\ QwU \in Nat \ {0} /\ ByteU \in Nat \ {0} /\ Fifo \in Nat \ {0}
  /\ SlotQw \in Nat \ {0} /\ Slots \in Nat \ {0} /\ Peek \in Nat \ {0}
BY UnitsAssumption

LEMMA Product ==
  ASSUME NEW a \in Nat, NEW b \in Nat
  PROVE  /\ a * b \in Nat /\ (a + 1) * b = a * b + b /\ a * b = b * a
         /\ \A c \in Nat : /\ a <= c => a * b <= c * b
                           /\ (a + c) * b = a * b + c * b
                           /\ a <= c => (c - a) * b = c * b - a * b
<1>1. a * b \in Nat /\ (a + 1) * b = a * b + b /\ a * b = b * a
  OBVIOUS
<1>2. ASSUME NEW c \in Nat
      PROVE  (a + c) * b = a * b + c * b /\ (c - a) * b = c * b - a * b
  OBVIOUS
<1>3. ASSUME NEW c \in Nat, a <= c PROVE a * b <= c * b
  <2>1. (c - a) * b \in Nat
    <3>1. c - a \in Nat
      BY <1>3
    <3> QED
      BY <3>1
  <2> QED
    BY <1>2, <2>1
<1> QED
  BY <1>1, <1>2, <1>3

LEMMA Quotient ==
  ASSUME NEW x \in Nat, NEW d \in Nat \ {0}
  PROVE  /\ x \div d \in Nat /\ x % d \in 0..d - 1
         /\ x = (x \div d) * d + (x % d)
         /\ \A q \in Nat : q * d <= x /\ x < q * d + d => x \div d = q
<1>1. x \div d \in Nat /\ x % d \in 0..d - 1 /\ x = d * (x \div d) + (x % d)
  OBVIOUS
<1>2. d * (x \div d) = (x \div d) * d
  BY <1>1
<1>3. ASSUME NEW q \in Nat, q * d <= x, x < q * d + d PROVE x \div d = q
  <2> DEFINE p == x \div d
  <2>1. p \in Nat /\ p * d <= x /\ x < p * d + d
    BY <1>1, <1>2
  <2> HIDE DEF p
  <2>2. (p + 1) * d = p * d + d /\ (q + 1) * d = q * d + d /\ p * d \in Nat /\ q * d \in Nat
    BY <1>3, <2>1, Product
  <2>3. ~ (p + 1 <= q)
    <3>1. p + 1 <= q => (p + 1) * d <= q * d
      BY <1>3, <2>1, Product
    <3> QED
      BY <1>3, <2>1, <2>2, <3>1
  <2>4. ~ (q + 1 <= p)
    <3>1. q + 1 <= p => (q + 1) * d <= p * d
      BY <1>3, <2>1, Product
    <3> QED
      BY <1>3, <2>1, <2>2, <3>1
  <2>5. p = q
    BY <1>3, <2>1, <2>3, <2>4
  <2> QED
    BY <2>5 DEF p
<1> QED
  BY <1>1, <1>2, <1>3

LEMMA QuotientMonotone ==
  ASSUME NEW x \in Nat, NEW y \in Nat, NEW d \in Nat \ {0}, x <= y
  PROVE  x \div d <= y \div d
<1> DEFINE p == x \div d
           q == y \div d
<1>1. p \in Nat /\ p * d <= x /\ q \in Nat /\ y < q * d + d /\ q * d \in Nat /\ p * d \in Nat
  <2>1. /\ p \in Nat /\ x % d \in 0..d - 1 /\ x = p * d + (x % d)
        /\ q \in Nat /\ y % d \in 0..d - 1 /\ y = q * d + (y % d)
    BY Quotient
  <2>2. p * d \in Nat /\ q * d \in Nat
    BY <2>1, Product
  <2> HIDE DEF p, q
  <2> QED
    BY <2>1, <2>2
<1> HIDE DEF p, q
<1>2. (q + 1) * d = q * d + d
  BY <1>1, Product
<1>3. ~ (q + 1 <= p)
  <2>1. q + 1 <= p => (q + 1) * d <= p * d
    BY <1>1, Product
  <2> QED
    BY <1>1, <1>2, <2>1
<1>4. p <= q
  BY <1>1, <1>3
<1> QED
  BY <1>4 DEF p, q

LEMMA MinusProduct ==
  ASSUME NEW a \in Nat, NEW b \in Nat, NEW d \in Nat, a <= b
  PROVE  /\ (b - a) * d = b * d - a * d /\ a * d <= b * d
         /\ a * d \in Nat /\ b * d \in Nat /\ b - a \in Nat
BY Product

\* What lies below the end of a block is in it or before it.
LEMMA BlockBelow ==
  ASSUME NEW a \in Nat, NEW b \in Nat, NEW d \in Nat \ {0}, a * d < b * d + d
  PROVE  a <= b
<1>1. a * d \in Nat /\ b * d \in Nat /\ (b + 1) * d = b * d + d
  BY Product
<1>2. b + 1 <= a => (b + 1) * d <= a * d
  BY Product
<1>3. ~ (b + 1 <= a)
  <2> DEFINE p == a * d
             q == b * d
             r == (b + 1) * d
  <2>1. p \in Nat /\ q \in Nat /\ r = q + d /\ p < q + d /\ (b + 1 <= a => r <= p)
    BY <1>1, <1>2
  <2> HIDE DEF p, q, r
  <2> QED
    BY <2>1
<1> QED
  BY <1>3

\* Whole blocks taken off the front.
LEMMA QuotientShift ==
  ASSUME NEW x \in Nat, NEW q \in Nat, NEW d \in Nat \ {0}, q * d <= x
  PROVE  q <= x \div d /\ (x - q * d) \div d = (x \div d) - q
<1> DEFINE h == x \div d
           r == x % d
           p == h * d
           y == q * d
<1>1. h \in Nat /\ r \in 0..d - 1 /\ x = p + r
  BY Quotient
<1>2. p \in Nat /\ y \in Nat
  BY <1>1, Product
<1>3. y < p + d
  <2> HIDE DEF h, r, p, y
  <2>1. y <= x
    BY DEF y
  <2> QED
    BY <1>1, <1>2, <2>1
<1>4. q <= h
  <2> HIDE DEF h, r
  <2> QED
    BY <1>1, <1>3, BlockBelow
<1>5. (h - q) * d = p - y /\ h - q \in Nat
  <2> HIDE DEF h, r
  <2> QED
    BY <1>1, <1>4, MinusProduct
<1> DEFINE z == (h - q) * d
<1>6. x - y \in Nat /\ z <= x - y /\ x - y < z + d
  <2>1. z = p - y /\ y <= x
    BY <1>5
  <2> HIDE DEF h, r, p, y, z
  <2> QED
    BY <1>1, <1>2, <2>1
<1>7. (x - y) \div d = h - q
  <2> HIDE DEF h, r, p, y
  <2> QED
    BY <1>5, <1>6, Quotient
<1> QED
  BY <1>4, <1>7

LEMMA QuadUnits ==
  /\ Quads \in Nat \ {0} /\ Units = Quads * QwU /\ QwU <= Units /\ SlotQw <= Quads
  /\ Units \in Nat
<1>1. Quads \in Nat /\ Quads # 0 /\ SlotQw <= Quads
  BY SizesPositive DEF Quads
<1>2. Units = Quads * QwU
  BY SizesPositive DEF Quads, Units
<1>3. QwU <= Quads * QwU
  <2>1. 1 * QwU <= Quads * QwU
    BY <1>1, SizesPositive, Product
  <2> QED
    BY <2>1, SizesPositive
<1> QED
  BY <1>1, <1>2, <1>3, Sizes
\* What a walk may do: what was in the FIFO stays, what it appends comes after.
Fed(s, t) ==
  /\ t.madr - Len(t.in) = s.madr - Len(s.in)
  /\ Len(s.in) <= Len(t.in) /\ (Len(t.in) = Len(s.in) => t.in = s.in)

Walked(s, t) ==
  Formed(t) /\ SameCtl(s, t) /\ SameOut(s, t) /\ SameDec(s, t) /\ Fed(s, t)

LEMMA FormedNumbers ==
  ASSUME NEW s, Formed(s)
  PROVE  /\ Ok(s) /\ s.madr \in Nat /\ s.qwc \in Nat /\ s.tadr \in Nat
         /\ s.in \in Seq(0..Quads - 1) /\ Len(s.in) \in Nat /\ Len(s.in) <= s.madr
         /\ s.pos \in Nat /\ s.hw \in Nat /\ s.pos <= s.hw /\ s.hw \div QwU \in Nat
         /\ s.madr <= Quads /\ s.snap \in Nat
<1>1. Ok(s)
  BY DEF Formed, Full, CtlOk, OutOk, AllFields, Ok, Fields
<1>2. /\ s.madr \in 0..Quads /\ s.qwc \in 0..Quads /\ s.tadr \in 0..Slots
      /\ s.in \in Seq(0..Quads - 1) /\ Len(s.in) <= s.madr
      /\ s.pos \in Nat /\ s.hw \in Nat /\ s.pos <= s.hw /\ s.snap \in 0..Units
  BY DEF Formed, RegsOk, FifoOk, DecOk
<1>3. s.hw \div QwU \in Nat
  BY <1>2, SizesPositive, Quotient
<1> QED
  BY <1>1, <1>2, <1>3, QuadUnits, SizesPositive, SMTT(30)

LEMMA WalkedOn ==
  ASSUME NEW s, NEW t, NEW u, Formed(s), Walked(s, t), Walked(t, u)
  PROVE  Walked(s, u)
<1>1. /\ Len(s.in) \in Nat /\ Len(t.in) \in Nat /\ Len(u.in) \in Nat
      /\ s.madr \in Nat /\ t.madr \in Nat /\ u.madr \in Nat
  BY FormedNumbers DEF Walked
<1>2. Fed(s, u)
  BY <1>1, SMTT(30) DEF Walked, Fed
<1>3. SameCtl(s, u)
  BY DEF Walked, SameCtl
<1>4. SameOut(s, u)
  BY DEF Walked, SameOut
<1>5. SameDec(s, u)
  BY DEF Walked, SameDec
<1> QED
  BY <1>2, <1>3, <1>4, <1>5 DEF Walked

\* The end of channel 4's transfer, the FIFO's contents kept.
LEMMA CompleteWalked ==
  ASSUME NEW s, Formed(s)
  PROVE  Walked(s, Complete(s, "toIpu"))
<1> DEFINE t == Complete(s, "toIpu")
<1>1. /\ Full(t) /\ SameCtl(s, t) /\ SameOut(s, t) /\ SameDec(s, t)
      /\ t.madr = s.madr /\ t.qwc = s.qwc /\ t.tadr = s.tadr /\ t.in = s.in
      /\ t.tagEnd = s.tagEnd /\ t.active = FALSE
      /\ t.str = s.str \ {"toIpu"} /\ t.raised = s.raised \cup {"toIpu"}
  BY DEF Formed, Complete, Full, AllFields, SameCtl, SameOut, SameDec
<1> HIDE DEF t
<1>2. CtlOk(t)
  BY <1>1 DEF Formed, CtlOk, SameCtl, DmaChannels
<1>3. OutOk(t) /\ DecOk(t)
  BY <1>1 DEF Formed, OutOk, DecOk, SameOut, SameDec
<1>4. RegsOk(t.chain, t.madr, t.qwc, t.tadr) /\ FifoOk(t.in, t.madr, t.pos, t.hw)
  BY <1>1 DEF Formed, SameCtl, SameDec
<1>5. Fed(s, t)
  BY <1>1, FormedNumbers DEF Fed
<1> QED
  BY <1>1, <1>2, <1>3, <1>4, <1>5 DEF Formed, Walked, t

\* One more quadword in the FIFO.
LEMMA FifoGrows ==
  ASSUME NEW in, NEW madr \in Nat, NEW pos, NEW hw, FifoOk(in, madr, pos, hw),
         madr < Quads, Len(in) - (hw \div QwU) <= Fifo
  PROVE  FifoOk(Append(in, madr), madr + 1, pos, hw)
<1> DEFINE q == Append(in, madr)
<1>1. /\ in \in Seq(0..Quads - 1) /\ Len(in) \in Nat /\ Len(in) <= madr
      /\ hw \in Nat /\ Quads \in Nat
  BY QuadUnits DEF FifoOk
<1>2. madr \in 0..Quads - 1
  BY <1>1
<1>3. /\ q \in Seq(0..Quads - 1) /\ Len(q) = Len(in) + 1
      /\ \A i \in 1..Len(in) : q[i] = in[i]
      /\ q[Len(in) + 1] = madr
  BY <1>1, <1>2
<1> HIDE DEF q
<1>4. \A i \in 1..Len(q) : q[i] = madr + 1 - Len(q) + i - 1
  <2> SUFFICES ASSUME NEW i \in 1..Len(q) PROVE q[i] = madr + 1 - Len(q) + i - 1
    OBVIOUS
  <2>1. CASE i = Len(in) + 1
    BY <1>1, <1>3, <2>1
  <2>2. CASE i # Len(in) + 1
    <3>1. i \in 1..Len(in)
      BY <1>1, <1>3, <2>2
    <3>2. in[i] = madr - Len(in) + i - 1
      BY <3>1 DEF FifoOk
    <3> QED
      BY <1>1, <1>3, <3>1, <3>2
  <2> QED
    BY <2>1, <2>2
<1>5. Len(q) * QwU = Len(in) * QwU + QwU /\ Len(in) * QwU \in Nat
  BY <1>1, <1>3, SizesPositive, Product
<1>6. hw <= Len(q) * QwU
  <2>1. hw <= Len(in) * QwU \/ (Len(in) = 0 /\ hw < QwU)
    BY DEF FifoOk
  <2> QED
    BY <1>1, <1>5, <2>1, SizesPositive
<1>7. hw \div QwU \in Nat
  BY <1>1, SizesPositive, Quotient
<1>8. Len(q) <= madr + 1 /\ Len(q) - (hw \div QwU) <= Fifo + 1
  BY <1>1, <1>3, <1>7, SizesPositive
<1>9. pos \in Nat /\ pos <= hw
  BY DEF FifoOk
<1> QED
  BY <1>1, <1>3, <1>4, <1>6, <1>8, <1>9 DEF FifoOk, q

LEMMA WalkTurnWalked ==
  ASSUME NEW s, Formed(s)
  PROVE  Walked(s, WalkTurn(s))
<1> DEFINE last == ~s.chain \/ s.tagEnd
           copied == [s EXCEPT !.in = Append(@, s.madr), !.madr = @ + 1, !.qwc = @ - 1]
           tag == [s EXCEPT !.madr = s.tadr * SlotQw, !.qwc = SlotQw, !.tadr = @ + 1,
                            !.tagEnd = (s.tadr = s.published - 1)]
           halted == [s EXCEPT !.active = FALSE]
<1>1. Walked(s, s)
  BY FormedNumbers DEF Walked, SameCtl, SameOut, SameDec, Fed
<1>2. /\ s.madr \in Nat /\ s.qwc \in Nat /\ s.tadr \in Nat /\ Len(s.in) \in Nat
      /\ s.madr <= Quads /\ s.qwc <= Quads /\ s.in \in Seq(0..Quads - 1)
      /\ s.madr + s.qwc = (IF s.chain THEN s.tadr * SlotQw ELSE Quads)
      /\ s.published \in 1..Slots /\ s.chain \in BOOLEAN /\ s.tagEnd \in BOOLEAN
      /\ s.hw \div QwU \in Nat
  BY FormedNumbers DEF Formed, RegsOk, CtlOk
<1>3. CASE WalkTurn(s) = halted
  <2>1. /\ Full(halted) /\ SameCtl(s, halted) /\ SameOut(s, halted) /\ SameDec(s, halted)
        /\ halted.madr = s.madr /\ halted.qwc = s.qwc /\ halted.tadr = s.tadr
        /\ halted.in = s.in /\ halted.tagEnd = s.tagEnd /\ halted.active = FALSE
        /\ halted.str = s.str /\ halted.raised = s.raised
    BY DEF Formed, Full, AllFields, SameCtl, SameOut, SameDec
  <2> HIDE DEF halted
  <2>2. CtlOk(halted) /\ OutOk(halted) /\ DecOk(halted)
    BY <2>1 DEF Formed, CtlOk, OutOk, DecOk, SameCtl, SameOut, SameDec
  <2>3. /\ RegsOk(halted.chain, halted.madr, halted.qwc, halted.tadr)
        /\ FifoOk(halted.in, halted.madr, halted.pos, halted.hw)
    BY <2>1 DEF Formed, SameCtl, SameDec
  <2>4. Fed(s, halted)
    BY <1>2, <2>1 DEF Fed
  <2> QED
    BY <1>3, <2>1, <2>2, <2>3, <2>4 DEF Walked, Formed
<1>4. ASSUME s.qwc > 0, Room(s) PROVE Walked(s, copied)
  <2>1. /\ Full(copied) /\ SameCtl(s, copied) /\ SameOut(s, copied) /\ SameDec(s, copied)
        /\ copied.madr = s.madr + 1 /\ copied.qwc = s.qwc - 1 /\ copied.tadr = s.tadr
        /\ copied.in = Append(s.in, s.madr)
        /\ copied.tagEnd = s.tagEnd /\ copied.active = s.active
        /\ copied.str = s.str /\ copied.raised = s.raised
    BY DEF Formed, Full, AllFields, SameCtl, SameOut, SameDec
  <2> HIDE DEF copied
  <2>2. CtlOk(copied) /\ OutOk(copied) /\ DecOk(copied)
    BY <2>1 DEF Formed, CtlOk, OutOk, DecOk, SameCtl, SameOut, SameDec
  <2>3. s.madr < Quads
    <3>1. CASE s.chain
      <4>1. s.tadr * SlotQw <= Quads
        <5>1. s.tadr \in Nat /\ s.tadr <= Slots
          BY DEF Formed, RegsOk
        <5>2. s.tadr * SlotQw <= Slots * SlotQw
          BY <5>1, SizesPositive, Product
        <5>3. Slots * SlotQw = Quads
          BY SizesPositive, Product DEF Quads
        <5> QED
          BY <5>2, <5>3
      <4>2. s.tadr * SlotQw \in Nat
        BY <1>2, SizesPositive, Product
      <4> QED
        BY <1>2, <1>4, <3>1, <4>1, <4>2, QuadUnits
    <3>2. CASE ~s.chain
      BY <1>2, <1>4, <3>2, QuadUnits
    <3> QED
      BY <3>1, <3>2
  <2>4. RegsOk(copied.chain, copied.madr, copied.qwc, copied.tadr)
    <3>1. Quads \in Nat
      BY QuadUnits
    <3>2. s.madr + 1 \in 0..Quads /\ s.qwc - 1 \in 0..Quads
      BY <1>2, <1>4, <2>3, <3>1, SMTT(30)
    <3>3. (s.madr + 1) + (s.qwc - 1) = s.madr + s.qwc
      BY <1>2
    <3> QED
      BY <1>2, <2>1, <3>2, <3>3 DEF Formed, RegsOk, SameCtl
  <2>5. Len(s.in) - (s.hw \div QwU) <= Fifo
    BY <1>2, <1>4, SizesPositive DEF Room, QwFrom
  <2>6. FifoOk(copied.in, copied.madr, copied.pos, copied.hw)
    <3>1. FifoOk(Append(s.in, s.madr), s.madr + 1, s.pos, s.hw)
      BY <1>2, <2>3, <2>5, FifoGrows DEF Formed
    <3> QED
      BY <2>1, <3>1 DEF SameDec
  <2>7. Fed(s, copied)
    <3>1. Len(copied.in) = Len(s.in) + 1
      <4>1. s.madr \in 0..Quads - 1
        BY <1>2, <2>3, QuadUnits
      <4> QED
        BY <1>2, <2>1, <4>1
    <3>2. copied.madr - Len(copied.in) = s.madr - Len(s.in)
      <4>1. copied.madr = s.madr + 1 /\ s.madr \in Nat /\ Len(s.in) \in Nat
        BY <1>2, <2>1
      <4> QED
        BY <3>1, <4>1
    <3> QED
      BY <1>2, <3>1, <3>2 DEF Fed
  <2> QED
    BY <2>1, <2>2, <2>4, <2>6, <2>7 DEF Walked, Formed
<1>5. ASSUME ~(s.qwc > 0), ~last, ~(s.tadr >= s.published) PROVE Walked(s, tag)
  <2>1. /\ Full(tag) /\ SameCtl(s, tag) /\ SameOut(s, tag) /\ SameDec(s, tag)
        /\ tag.madr = s.tadr * SlotQw /\ tag.qwc = SlotQw /\ tag.tadr = s.tadr + 1
        /\ tag.in = s.in /\ tag.tagEnd \in BOOLEAN /\ tag.active = s.active
        /\ tag.str = s.str /\ tag.raised = s.raised
    BY DEF Formed, Full, AllFields, SameCtl, SameOut, SameDec
  <2> HIDE DEF tag
  <2>2. CtlOk(tag) /\ OutOk(tag) /\ DecOk(tag)
    BY <2>1 DEF Formed, CtlOk, OutOk, DecOk, SameCtl, SameOut, SameDec
  <2>3. s.chain /\ s.qwc = 0
    BY <1>2, <1>5
  <2>4. /\ s.tadr * SlotQw = s.madr
        /\ (s.tadr + 1) * SlotQw = s.tadr * SlotQw + SlotQw
        /\ s.tadr + 1 \in 0..Slots
    <3>1. /\ s.tadr \in Nat /\ s.published \in 1..Slots /\ ~(s.tadr >= s.published)
          /\ Slots \in Nat /\ SlotQw \in Nat
      BY <1>2, <1>5, SizesPositive
    <3>2. s.tadr * SlotQw \in Nat /\ (s.tadr + 1) * SlotQw = s.tadr * SlotQw + SlotQw
      BY <3>1, Product
    <3>3. s.tadr + 1 \in 0..Slots
      BY <3>1
    <3>4. s.madr + s.qwc = s.tadr * SlotQw
      BY <1>2, <2>3
    <3> HIDE DEF tag
    <3>5. s.madr + s.qwc = s.madr
      BY <1>2, <2>3
    <3> QED
      BY <3>2, <3>3, <3>4, <3>5
  <2>5. RegsOk(tag.chain, tag.madr, tag.qwc, tag.tadr)
    BY <1>2, <2>1, <2>3, <2>4, QuadUnits, SizesPositive DEF RegsOk, SameCtl
  <2>6. FifoOk(tag.in, tag.madr, tag.pos, tag.hw)
    BY <2>1, <2>4 DEF Formed, SameDec
  <2>7. Fed(s, tag)
    BY <1>2, <2>1, <2>4 DEF Fed
  <2> QED
    BY <2>1, <2>2, <2>5, <2>6, <2>7 DEF Walked, Formed
<1>6. WalkTurn(s) = CASE ~MayWalk(s) -> s
                      [] MayWalk(s) /\ "toIpu" \notin s.str -> halted
                      [] OTHER ->
                         IF s.qwc > 0
                         THEN IF ~Room(s) THEN s
                              ELSE IF copied.qwc = 0 /\ last THEN Complete(copied, "toIpu")
                              ELSE copied
                         ELSE IF last \/ s.tadr >= s.published THEN Complete(s, "toIpu") ELSE tag
  BY DEF WalkTurn
<1>7. Walked(s, Complete(s, "toIpu"))
  BY CompleteWalked
<1>8. ASSUME s.qwc > 0, Room(s) PROVE Walked(s, Complete(copied, "toIpu"))
  <2>1. Walked(s, copied)
    BY <1>4, <1>8
  <2> HIDE DEF copied
  <2>2. Walked(copied, Complete(copied, "toIpu"))
    BY <2>1, CompleteWalked DEF Walked
  <2> QED
    BY <2>1, <2>2, WalkedOn
<1> HIDE DEF copied, tag, halted, last
<1> QED
  BY <1>1, <1>3, <1>4, <1>5, <1>6, <1>7, <1>8
\* A walk that can do nothing, and what a walk has done when it is over.
Exhausted(s) == WalkTurn(s) = s

LEMMA WalkExhausted ==
  ASSUME NEW s, Exhausted(s)
  PROVE  AdvanceWalk(s) = s
<1>1. PICK w : /\ w[0] = s /\ AdvanceWalk(s) = w[WalkTurns]
               /\ \A i \in 0..WalkTurns - 1 : w[i + 1] = WalkTurn(w[i])
  BY WalkIsTurns
<1> DEFINE T == {i \in Nat : i <= WalkTurns => w[i] = s}
<1>2. WalkTurns \in Nat
  BY Sizes
<1>3. 0 \in T
  BY <1>1
<1>4. ASSUME NEW i \in Nat, i \in T PROVE i + 1 \in T
  <2> SUFFICES ASSUME i + 1 <= WalkTurns PROVE w[i + 1] = s
    OBVIOUS
  <2>1. i \in 0..WalkTurns - 1 /\ w[i] = s
    BY <1>2, <1>4
  <2> QED
    BY <1>1, <2>1 DEF Exhausted
<1>5. WalkTurns \in T
  BY <1>2, <1>3, <1>4, NatInduct
<1> QED
  BY <1>1, <1>2, <1>5

LEMMA HaltedWalk ==
  ASSUME NEW s, ~MayWalk(s)
  PROVE  AdvanceWalk(s) = s
BY WalkExhausted DEF Exhausted, WalkTurn

LEMMA AdvanceWalkWalked ==
  ASSUME NEW s, Formed(s)
  PROVE  Walked(s, AdvanceWalk(s))
<1>1. PICK w : /\ w[0] = s /\ AdvanceWalk(s) = w[WalkTurns]
               /\ \A i \in 0..WalkTurns - 1 : w[i + 1] = WalkTurn(w[i])
  BY WalkIsTurns
<1> DEFINE T == {i \in Nat : i <= WalkTurns => Walked(s, w[i])}
<1>2. WalkTurns \in Nat
  BY Sizes
<1>3. 0 \in T
  BY <1>1, FormedNumbers DEF Walked, SameCtl, SameOut, SameDec, Fed
<1>4. ASSUME NEW i \in Nat, i \in T PROVE i + 1 \in T
  <2> SUFFICES ASSUME i + 1 <= WalkTurns PROVE Walked(s, w[i + 1])
    OBVIOUS
  <2>1. i \in 0..WalkTurns - 1 /\ Walked(s, w[i])
    BY <1>2, <1>4
  <2>2. Walked(w[i], WalkTurn(w[i]))
    BY <2>1, WalkTurnWalked DEF Walked
  <2> QED
    BY <1>1, <2>1, <2>2, WalkedOn
<1>5. WalkTurns \in T
  BY <1>2, <1>3, <1>4, NatInduct
<1> QED
  BY <1>1, <1>2, <1>5

\* The position and the furthest point read are positions of the stream.
LEMMA FormedUnits ==
  ASSUME NEW s, Formed(s)
  PROVE  /\ s.pos \in 0..Units /\ s.hw \in 0..Units /\ Len(s.in) \in 0..Units
         /\ Len(s.in) * QwU \in Nat /\ Len(s.in) * QwU <= Units
<1>1. /\ Len(s.in) \in Nat /\ Len(s.in) <= Quads /\ s.pos \in Nat /\ s.hw \in Nat
      /\ s.pos <= s.hw
  BY FormedNumbers, QuadUnits, SMTT(30)
<1>2. Len(s.in) * QwU <= Quads * QwU /\ Len(s.in) * QwU \in Nat
  BY <1>1, Product, QuadUnits, SizesPositive
<1>3. s.hw <= Len(s.in) * QwU \/ s.hw < QwU
  BY DEF Formed, FifoOk
<1>4. Quads <= Units
  <2>1. 1 * Quads <= QwU * Quads /\ Quads * QwU = QwU * Quads
    BY Product, QuadUnits, SizesPositive
  <2> QED
    BY <2>1, QuadUnits
<1>5. Len(s.in) * QwU <= Units
  BY <1>2, QuadUnits
<1>6. s.hw <= Units
  <2>1. QwU <= Units /\ QwU \in Nat /\ Units \in Nat
    BY QuadUnits, SizesPositive
  <2> QED
    BY <1>1, <1>2, <1>3, <1>5, <2>1
<1>7. Units \in Nat /\ Quads \in Nat
  BY QuadUnits
<1> QED
  BY <1>1, <1>2, <1>4, <1>5, <1>6, <1>7
SameCmd(s, t) ==
  /\ t.busy = s.busy /\ t.cmd = s.cmd /\ t.tail = s.tail /\ t.run = s.run
  /\ t.csc = s.csc /\ t.stall = s.stall /\ t.flag = s.flag
SameBits(s, t) == t.str = s.str /\ t.raised = s.raised

\* Only the decoder moved.
Apart(s, t) ==
  Full(t) /\ SameCtl(s, t) /\ SameOut(s, t) /\ SameIn(s, t) /\ SameBits(s, t)

LEMMA ApartFormed ==
  ASSUME NEW s, NEW t, Formed(s), Apart(s, t), DecOk(t), FifoOk(s.in, s.madr, t.pos, t.hw)
  PROVE  Formed(t)
<1>1. CtlOk(t)
  BY DEF Formed, Apart, CtlOk, SameCtl, SameIn, SameBits
<1>2. OutOk(t)
  BY DEF Formed, Apart, OutOk, SameOut
<1>3. RegsOk(t.chain, t.madr, t.qwc, t.tadr) /\ FifoOk(t.in, t.madr, t.pos, t.hw)
  BY DEF Formed, Apart, SameCtl, SameIn
<1> QED
  BY <1>1, <1>2, <1>3 DEF Formed, Apart

\* Channel 3 takes what is out, and nothing of it is lost.
Drained(s, t) ==
  /\ Formed(t) /\ SameCtl(s, t) /\ SameIn(s, t) /\ SameDec(s, t)
  /\ t.out + t.taken = s.out + s.taken
  /\ "toIpu" \in s.str => "toIpu" \in t.str

LEMMA DrainCh3Drained ==
  ASSUME NEW s, Formed(s)
  PROVE  Drained(s, DrainCh3(s))
<1> DEFINE n == IF s.drainAll THEN s.out ELSE Least(s.out, s.qwc3)
           t == [s EXCEPT !.out = @ - n, !.taken = @ + n, !.qwc3 = @ - Least(n, @)]
           stopped == [s EXCEPT !.active3 = FALSE, !.drainAll = FALSE]
           c == Complete(t, "fromIpu")
           ended == [c EXCEPT !.active3 = FALSE, !.drainAll = FALSE]
<1>1. DrainCh3(s) \in {s, stopped, ended, t}
  BY DEF DrainCh3
<1>2. s.out \in Nat /\ s.taken \in Nat /\ s.qwc3 \in Nat
  BY DEF Formed, OutOk
<1>3. n \in Nat /\ n <= s.out
  BY <1>2 DEF Least
<1>4. s.qwc3 - Least(n, s.qwc3) \in Nat
  <2> HIDE DEF n
  <2> QED
    BY <1>2, <1>3 DEF Least
<1> HIDE DEF n
<1>5. /\ Full(t) /\ SameCtl(s, t) /\ SameIn(s, t) /\ SameDec(s, t) /\ SameBits(s, t)
      /\ t.out = s.out - n /\ t.taken = s.taken + n /\ t.qwc3 = s.qwc3 - Least(n, s.qwc3)
      /\ t.active3 = s.active3 /\ t.drainAll = s.drainAll
  BY DEF Formed, Full, AllFields, SameCtl, SameIn, SameDec, SameBits
<1>6. /\ Full(stopped) /\ SameCtl(s, stopped) /\ SameIn(s, stopped) /\ SameDec(s, stopped)
      /\ SameBits(s, stopped) /\ stopped.out = s.out /\ stopped.taken = s.taken
      /\ stopped.qwc3 = s.qwc3 /\ stopped.active3 = FALSE /\ stopped.drainAll = FALSE
  BY DEF Formed, Full, AllFields, SameCtl, SameIn, SameDec, SameBits
<1> HIDE DEF t, stopped
<1>7. /\ Full(c) /\ SameCtl(s, c) /\ SameIn(s, c) /\ SameDec(s, c)
      /\ c.str = s.str \ {"fromIpu"} /\ c.raised = s.raised \cup {"fromIpu"}
      /\ c.out = t.out /\ c.taken = t.taken /\ c.qwc3 = t.qwc3
  <2>1. s.active \in BOOLEAN
    BY DEF Formed, CtlOk
  <2> QED
    BY <1>5, <2>1 DEF Complete, Full, AllFields, SameCtl, SameIn, SameDec, SameBits
<1> HIDE DEF c
<1>8. /\ Full(ended) /\ SameCtl(s, ended) /\ SameIn(s, ended) /\ SameDec(s, ended)
      /\ ended.str = s.str \ {"fromIpu"} /\ ended.raised = s.raised \cup {"fromIpu"}
      /\ ended.out = t.out /\ ended.taken = t.taken /\ ended.qwc3 = t.qwc3
      /\ ended.active3 = FALSE /\ ended.drainAll = FALSE
  BY <1>7 DEF Full, AllFields, SameCtl, SameIn, SameDec
<1> HIDE DEF ended
<1>9. ASSUME NEW u \in {s, stopped, ended, t} PROVE Drained(s, u)
  <2>1. /\ Full(u) /\ SameCtl(s, u) /\ SameIn(s, u) /\ SameDec(s, u)
        /\ u.str \in {s.str, s.str \ {"fromIpu"}}
        /\ u.raised \in {s.raised, s.raised \cup {"fromIpu"}}
    BY <1>5, <1>6, <1>8, <1>9 DEF SameBits, SameCtl, SameIn, SameDec, Formed
  <2>2. OutOk(u) /\ u.out + u.taken = s.out + s.taken
    <3>1. s.active3 \in BOOLEAN /\ s.drainAll \in BOOLEAN
      BY DEF Formed, OutOk
    <3>2. CASE u = s
      BY <3>2 DEF Formed
    <3>3. CASE u = stopped
      BY <1>2, <1>6, <3>3 DEF OutOk
    <3>4. t.out \in Nat /\ t.taken \in Nat /\ t.qwc3 \in Nat /\ t.out + t.taken = s.out + s.taken
      BY <1>2, <1>3, <1>4, <1>5
    <3>5. CASE u = ended
      BY <1>8, <3>4, <3>5 DEF OutOk
    <3>6. CASE u = t
      BY <1>5, <3>1, <3>4, <3>6 DEF OutOk
    <3> QED
      BY <1>9, <3>2, <3>3, <3>5, <3>6
  <2>3. CtlOk(u)
    <3>1. u.str \subseteq DmaChannels /\ u.raised \subseteq DmaChannels \cup {"ipu"}
      BY <2>1 DEF Formed, CtlOk, DmaChannels
    <3> QED
      BY <2>1, <3>1 DEF Formed, CtlOk, SameCtl, SameIn
  <2>4. DecOk(u)
    BY <2>1 DEF Formed, DecOk, SameDec
  <2>5. RegsOk(u.chain, u.madr, u.qwc, u.tadr) /\ FifoOk(u.in, u.madr, u.pos, u.hw)
    BY <2>1 DEF Formed, SameCtl, SameIn, SameDec
  <2> QED
    BY <2>1, <2>2, <2>3, <2>4, <2>5 DEF Drained, Formed
<1> QED
  BY <1>1, <1>9

LEMMA AdvanceIs ==
  ASSUME NEW s, NEW n \in Nat \ {0}, Formed(s), n <= Avail(s)
  PROVE  LET t == Advance(s, n)
         IN /\ Formed(t) /\ Apart(s, t) /\ SameCmd(s, t) /\ t.snap = s.snap
            /\ t.pos = s.pos + n /\ t.hw = (IF s.pos + n > s.hw THEN s.pos + n ELSE s.hw)
            /\ t.pos <= Len(s.in) * QwU
<1> DEFINE t == Advance(s, n)
<1>1. /\ Apart(s, t) /\ SameCmd(s, t) /\ t.snap = s.snap /\ t.snapPred = s.snapPred
      /\ t.fresh = s.fresh /\ t.pred = s.pred
      /\ t.pos = s.pos + n /\ t.hw = (IF s.pos + n > s.hw THEN s.pos + n ELSE s.hw)
  BY DEF Formed, Advance, Apart, Full, AllFields, SameCtl, SameOut, SameIn, SameBits, SameCmd
<1> HIDE DEF t
<1>2. DecOk(t)
  BY <1>1 DEF Formed, DecOk, SameCmd
<1>3. /\ Len(s.in) * QwU \in Nat /\ s.pos \in Nat /\ s.hw \in Nat /\ s.pos <= s.hw
      /\ s.hw \div QwU \in Nat /\ Len(s.in) \in Nat
  BY FormedNumbers, FormedUnits
<1>4. s.pos + n <= Len(s.in) * QwU
  BY <1>3 DEF Avail
<1>5. t.pos \in Nat /\ t.hw \in Nat /\ t.pos <= t.hw
  BY <1>1, <1>3
<1>6. t.hw <= Len(s.in) * QwU \/ (Len(s.in) = 0 /\ t.hw < QwU)
  <2>1. s.hw <= Len(s.in) * QwU \/ (Len(s.in) = 0 /\ s.hw < QwU)
    BY DEF Formed, FifoOk
  <2> QED
    BY <1>1, <1>4, <2>1
<1>7. Len(s.in) - (t.hw \div QwU) <= Fifo + 1
  <2>1. Len(s.in) - (s.hw \div QwU) <= Fifo + 1
    BY DEF Formed, FifoOk
  <2>2. s.hw \div QwU <= t.hw \div QwU
    <3>1. s.hw <= t.hw
      BY <1>1, <1>3
    <3> QED
      BY <1>3, <1>5, <3>1, SizesPositive, QuotientMonotone
  <2>3. t.hw \div QwU \in Nat
    BY <1>5, SizesPositive, Quotient
  <2> QED
    BY <1>3, <2>1, <2>2, <2>3, SizesPositive
<1>8. FifoOk(s.in, s.madr, t.pos, t.hw)
  BY <1>5, <1>6, <1>7 DEF Formed, FifoOk
<1>9. Formed(t)
  BY <1>1, <1>2, <1>8, ApartFormed
<1> QED
  BY <1>1, <1>4, <1>9 DEF t
\* The quadwords behind the cursor are dropped, and every position with them.
Shifted(s, t) ==
  \E d \in Nat :
    /\ d <= Len(s.in) /\ d * QwU \in Nat /\ d * QwU <= s.pos
    /\ t.madr = s.madr /\ Len(t.in) = Len(s.in) - d
    /\ t.pos = s.pos - d * QwU /\ t.hw = s.hw - d * QwU
    /\ (Len(s.in) - d) * QwU = Len(s.in) * QwU - d * QwU

SameInput(s, t) ==
  t.madr = s.madr /\ t.qwc = s.qwc /\ t.tadr = s.tadr /\ t.active = s.active /\ t.tagEnd = s.tagEnd

LEMMA CompactInIs ==
  ASSUME NEW s, Formed(s)
  PROVE  LET t == CompactIn(s)
         IN /\ Formed(t) /\ Shifted(s, t) /\ SameCtl(s, t) /\ SameOut(s, t) /\ SameInput(s, t)
            /\ SameBits(s, t) /\ SameCmd(s, t)
<1> DEFINE d == s.pos \div QwU
           drop == Least(s.pos \div QwU, Len(s.in))
           t == CompactIn(s)
           L == Len(s.in)
<1>1. /\ s.in \in Seq(0..Quads - 1) /\ L \in Nat /\ L <= s.madr /\ s.madr \in Nat
      /\ s.pos \in Nat /\ s.hw \in Nat /\ s.pos <= s.hw
      /\ s.hw <= L * QwU \/ (L = 0 /\ s.hw < QwU)
      /\ L - (s.hw \div QwU) <= Fifo + 1
      /\ \A i \in 1..L : s.in[i] = s.madr - L + i - 1
  BY FormedNumbers DEF Formed, FifoOk
<1>2. /\ d \in Nat /\ d * QwU \in Nat /\ d * QwU <= s.pos /\ s.pos < d * QwU + QwU
  <2>1. d \in Nat /\ s.pos % QwU \in 0..QwU - 1 /\ s.pos = d * QwU + (s.pos % QwU)
    BY <1>1, SizesPositive, Quotient
  <2>2. d * QwU \in Nat
    BY <2>1, SizesPositive, Product
  <2> HIDE DEF d
  <2> QED
    BY <2>1, <2>2, SizesPositive
<1>3. d <= L
  <2>1. CASE s.hw <= L * QwU
    <3> DEFINE x == d * QwU
               y == L * QwU
    <3>1. y \in Nat
      BY <1>1, SizesPositive, Product
    <3>2. x \in Nat /\ x <= s.pos /\ s.hw <= y
      BY <1>2, <2>1
    <3>3. x < y + QwU
      <4> HIDE DEF x, y
      <4> QED
        BY <1>1, <3>1, <3>2, SizesPositive
    <3> HIDE DEF d, L
    <3> QED
      BY <1>1, <1>2, <3>3, SizesPositive, BlockBelow
  <2>2. CASE L = 0 /\ s.hw < QwU
    <3>1. 0 * QwU <= s.pos /\ s.pos < 0 * QwU + QwU
      BY <1>1, <2>2, SizesPositive
    <3>2. d = 0
      BY <1>1, <3>1, SizesPositive, Quotient
    <3> QED
      BY <2>2, <3>2
  <2> QED
    BY <1>1, <2>1, <2>2
<1>4. drop = d
  BY <1>1, <1>2, <1>3 DEF Least
<1>5. /\ Full(t) /\ SameCtl(s, t) /\ SameOut(s, t) /\ SameInput(s, t) /\ SameBits(s, t)
      /\ SameCmd(s, t) /\ t.snap = s.snap /\ t.snapPred = s.snapPred /\ t.fresh = s.fresh
      /\ t.pred = s.pred
      /\ t.in = SubSeq(s.in, drop + 1, Len(s.in))
      /\ t.pos = s.pos - drop * QwU
      /\ t.hw = IF s.hw > drop * QwU THEN s.hw - drop * QwU ELSE 0
  <2> DEFINE e == drop
  <2>1. t = [s EXCEPT !.in = SubSeq(@, e + 1, Len(@)), !.pos = @ - e * QwU,
                      !.hw = IF @ > e * QwU THEN @ - e * QwU ELSE 0]
    BY DEF CompactIn
  <2> HIDE DEF t, e
  <2> QED
    BY <2>1 DEF e, Formed, Full, AllFields, SameCtl, SameOut, SameInput, SameBits, SameCmd
<1> HIDE DEF t, drop, d
<1>6. t.pos = s.pos - d * QwU /\ t.hw = s.hw - d * QwU
  BY <1>1, <1>2, <1>4, <1>5
<1>7. /\ t.in \in Seq(0..Quads - 1) /\ Len(t.in) = L - d
      /\ \A i \in 1..L - d : t.in[i] = s.in[d + i]
  <2>1. t.in = SubSeq(s.in, d + 1, L)
    BY <1>4, <1>5
  <2>2. d + 1 \in 1..L + 1 /\ L \in 0..L /\ s.in \in Seq(0..Quads - 1)
    BY <1>1, <1>2, <1>3
  <2>3. CASE d = L
    <3>1. t.in = <<>>
      BY <1>1, <2>1, <2>3
    <3> QED
      BY <1>1, <2>3, <3>1
  <2>4. CASE d < L
    <3>0. /\ d + 1 \in Int /\ L \in Int /\ d + 1 <= L
          /\ \A i \in d + 1..L : s.in[i] \in 0..Quads - 1
      <4>1. \A i \in 1..L : s.in[i] \in 0..Quads - 1
        BY <1>1, ElementOfSeq
      <4>2. d + 1..L \subseteq 1..L
        BY <1>1, <1>2
      <4> QED
        BY <1>1, <1>2, <2>4, <4>1, <4>2
    <3> HIDE DEF L
    <3>1. SubSeq(s.in, d + 1, L) \in Seq(0..Quads - 1)
      BY <3>0, SubSeqProperties
    <3>2. Len(SubSeq(s.in, d + 1, L)) = L - d
      <4>1. Len(SubSeq(s.in, d + 1, L)) = L - (d + 1) + 1
        BY <3>0, SubSeqProperties
      <4> QED
        BY <1>1, <1>2, <4>1
    <3>3. ASSUME NEW i \in 1..L - d PROVE SubSeq(s.in, d + 1, L)[i] = s.in[d + i]
      <4>1. i \in 1..L - (d + 1) + 1 /\ (d + 1) + i - 1 = d + i
        BY <1>1, <1>2
      <4>2. SubSeq(s.in, d + 1, L)[i] = s.in[(d + 1) + i - 1]
        BY <3>0, <4>1, SubSeqProperties
      <4> QED
        BY <4>1, <4>2
    <3> QED
      BY <2>1, <3>1, <3>2, <3>3
  <2> QED
    BY <1>1, <1>2, <1>3, <2>3, <2>4
<1>8. (L - d) * QwU = L * QwU - d * QwU /\ L * QwU \in Nat
  <2> HIDE DEF L
  <2> QED
    BY <1>1, <1>2, <1>3, SizesPositive, MinusProduct
<1>9. Shifted(s, t)
  BY <1>2, <1>3, <1>5, <1>6, <1>7, <1>8 DEF Shifted, SameInput
<1>10. t.hw \div QwU = (s.hw \div QwU) - d
  <2>1. d * QwU <= s.hw
    <3> DEFINE x == d * QwU
    <3>1. x \in Nat /\ x <= s.pos
      BY <1>2
    <3> HIDE DEF x
    <3>2. x <= s.hw
      BY <1>1, <3>1
    <3> QED
      BY <3>2 DEF x
  <2>2. (s.hw - d * QwU) \div QwU = (s.hw \div QwU) - d
    BY <1>1, <1>2, <2>1, SizesPositive, QuotientShift
  <2> QED
    BY <1>6, <2>2
<1>11. FifoOk(t.in, t.madr, t.pos, t.hw)
  <2>1. t.madr = s.madr /\ Len(t.in) <= t.madr
    BY <1>1, <1>2, <1>5, <1>7, SMTT(30) DEF SameInput
  <2>2. \A i \in 1..Len(t.in) : t.in[i] = t.madr - Len(t.in) + i - 1
    <3> SUFFICES ASSUME NEW i \in 1..Len(t.in) PROVE t.in[i] = t.madr - Len(t.in) + i - 1
      OBVIOUS
    <3>1. d + i \in 1..L /\ t.in[i] = s.in[d + i] /\ i \in Nat
      BY <1>1, <1>2, <1>3, <1>7, SMTT(30)
    <3>2. s.in[d + i] = s.madr - L + (d + i) - 1
      BY <1>1, <3>1
    <3>3. /\ t.in[i] = s.in[d + i] /\ i \in Nat /\ d \in Nat /\ L \in Nat /\ s.madr \in Nat
          /\ Len(t.in) = L - d /\ t.madr = s.madr
      BY <1>1, <1>2, <1>7, <2>1, <3>1
    <3> HIDE DEF L
    <3> QED
      BY <3>2, <3>3
  <2>3. t.pos \in Nat /\ t.hw \in Nat /\ t.pos <= t.hw
    BY <1>1, <1>2, <1>6
  <2>4. t.hw <= Len(t.in) * QwU \/ (Len(t.in) = 0 /\ t.hw < QwU)
    <3>1. CASE s.hw <= L * QwU
      BY <1>1, <1>2, <1>6, <1>7, <1>8, <3>1
    <3>2. CASE L = 0 /\ s.hw < QwU
      BY <1>1, <1>2, <1>3, <1>6, <1>7, <3>2, SizesPositive
    <3> QED
      BY <1>1, <3>1, <3>2
  <2>5. Len(t.in) - (t.hw \div QwU) <= Fifo + 1
    <3> DEFINE q == s.hw \div QwU
               r == t.hw \div QwU
    <3>1. q \in Nat
      BY FormedNumbers
    <3>2. r = q - d /\ d \in Nat /\ L \in Nat /\ L - q <= Fifo + 1 /\ Len(t.in) = L - d
      BY <1>1, <1>2, <1>7, <1>10
    <3>3. Fifo \in Nat
      BY SizesPositive
    <3> HIDE DEF L, q, r
    <3>4. Len(t.in) - r <= Fifo + 1
      BY <3>1, <3>2, <3>3
    <3> QED
      BY <3>4 DEF r
  <2> QED
    BY <1>7, <2>1, <2>2, <2>3, <2>4, <2>5 DEF FifoOk
<1>12. CtlOk(t) /\ OutOk(t) /\ DecOk(t) /\ RegsOk(t.chain, t.madr, t.qwc, t.tadr)
  <2>1. CtlOk(t)
    BY <1>5 DEF Formed, CtlOk, SameCtl, SameInput, SameBits
  <2>2. OutOk(t)
    BY <1>5 DEF Formed, OutOk, SameOut
  <2>3. DecOk(t)
    BY <1>5 DEF Formed, DecOk, SameCmd
  <2>4. RegsOk(t.chain, t.madr, t.qwc, t.tadr)
    BY <1>5 DEF Formed, SameCtl, SameInput
  <2> QED
    BY <2>1, <2>2, <2>3, <2>4
<1> QED
  BY <1>5, <1>9, <1>11, <1>12 DEF Formed, t

LEMMA TakeSnapshotIs ==
  ASSUME NEW s, Formed(s)
  PROVE  LET t == TakeSnapshot(s)
         IN /\ Formed(t) /\ Apart(s, t) /\ SameCmd(s, t)
            /\ t.pos = s.pos /\ t.hw = s.hw /\ t.snap = s.pos
<1> DEFINE t == TakeSnapshot(s)
<1>1. /\ Apart(s, t) /\ SameCmd(s, t) /\ t.pos = s.pos /\ t.hw = s.hw /\ t.snap = s.pos
      /\ t.snapPred = s.pred /\ t.pred = s.pred /\ t.fresh = 0
  BY DEF Formed, TakeSnapshot, Apart, Full, AllFields, SameCtl, SameOut, SameIn, SameBits, SameCmd
<1> HIDE DEF t
<1>2. DecOk(t)
  BY <1>1, FormedUnits DEF Formed, DecOk, SameCmd
<1>3. Formed(t)
  BY <1>1, <1>2, ApartFormed DEF Formed
<1> QED
  BY <1>1, <1>3 DEF t

LEMMA RestoreSnapshotIs ==
  ASSUME NEW s, Formed(s), s.snap <= s.hw
  PROVE  LET t == RestoreSnapshot(s)
         IN /\ Formed(t) /\ Apart(s, t) /\ SameCmd(s, t)
            /\ t.pos = s.snap /\ t.hw = s.hw /\ t.snap = s.snap
<1> DEFINE t == RestoreSnapshot(s)
<1>1. s.fresh = 0 /\ s.out \in Nat /\ s.out - s.fresh = s.out /\ s.snap \in Nat
  BY FormedNumbers DEF Formed, DecOk, OutOk
<1>2. /\ Full(t) /\ SameCtl(s, t) /\ SameIn(s, t) /\ SameBits(s, t)
      /\ t.active3 = s.active3 /\ t.drainAll = s.drainAll /\ t.qwc3 = s.qwc3
      /\ t.out = s.out - s.fresh /\ t.taken = s.taken
      /\ SameCmd(s, t) /\ t.pos = s.snap /\ t.hw = s.hw /\ t.snap = s.snap
      /\ t.snapPred = s.snapPred /\ t.pred = s.snapPred /\ t.fresh = 0
  BY DEF Formed, RestoreSnapshot, Full, AllFields, SameCtl, SameIn, SameBits, SameCmd
<1> HIDE DEF t
<1>3. Apart(s, t)
  BY <1>1, <1>2 DEF Apart, SameOut
<1>4. DecOk(t)
  BY <1>2 DEF Formed, DecOk, SameCmd
<1>5. FifoOk(s.in, s.madr, t.pos, t.hw)
  BY <1>1, <1>2 DEF Formed, FifoOk
<1>6. Formed(t)
  BY <1>3, <1>4, <1>5, ApartFormed
<1> QED
  BY <1>2, <1>3, <1>6 DEF t

LEMMA StalledIs ==
  ASSUME NEW s, Formed(s)
  PROVE  LET t == Stalled(s)
         IN /\ Formed(t) /\ Apart(s, t)
            /\ t.busy = s.busy /\ t.cmd = s.cmd /\ t.tail = s.tail /\ t.run = s.run
            /\ t.csc = s.csc /\ t.flag = s.flag /\ t.stall = Len(s.in)
            /\ t.pos = s.pos /\ t.hw = s.hw /\ t.snap = s.snap
<1> DEFINE t == Stalled(s)
<1>1. /\ Apart(s, t)
      /\ t.busy = s.busy /\ t.cmd = s.cmd /\ t.tail = s.tail /\ t.run = s.run
      /\ t.csc = s.csc /\ t.flag = s.flag /\ t.stall = Len(s.in)
      /\ t.pos = s.pos /\ t.hw = s.hw /\ t.snap = s.snap
      /\ t.snapPred = s.snapPred /\ t.pred = s.pred /\ t.fresh = s.fresh
  BY DEF Formed, Stalled, Apart, Full, AllFields, SameCtl, SameOut, SameIn, SameBits
<1> HIDE DEF t
<1>2. DecOk(t)
  BY <1>1, FormedUnits DEF Formed, DecOk
<1>3. Formed(t)
  BY <1>1, <1>2, ApartFormed DEF Formed
<1> QED
  BY <1>1, <1>3 DEF t

LEMMA CommitScanIs ==
  ASSUME NEW s, Formed(s)
  PROVE  LET t == CommitScan(s)
         IN /\ Formed(t) /\ Shifted(s, t) /\ SameCtl(s, t) /\ SameOut(s, t) /\ SameInput(s, t)
            /\ SameBits(s, t) /\ SameCmd(s, t) /\ t.snap = t.pos
<1> DEFINE c == CompactIn(s)
           t == TakeSnapshot(c)
<1>1. CommitScan(s) = t
  BY DEF CommitScan
<1>2. /\ Formed(c) /\ Shifted(s, c) /\ SameCtl(s, c) /\ SameOut(s, c) /\ SameInput(s, c)
      /\ SameBits(s, c) /\ SameCmd(s, c)
  BY CompactInIs
<1> HIDE DEF c
<1>3. /\ Formed(t) /\ Apart(c, t) /\ SameCmd(c, t)
      /\ t.pos = c.pos /\ t.hw = c.hw /\ t.snap = c.pos
  BY <1>2, TakeSnapshotIs
<1> HIDE DEF t
<1>4. Shifted(s, t)
  BY <1>2, <1>3 DEF Shifted, Apart, SameIn
<1>5. SameCtl(s, t) /\ SameOut(s, t) /\ SameInput(s, t) /\ SameBits(s, t) /\ SameCmd(s, t)
  BY <1>2, <1>3 DEF Apart, SameCtl, SameOut, SameInput, SameIn, SameBits, SameCmd
<1> QED
  BY <1>1, <1>3, <1>4, <1>5
\* The stream positions of the cursor, of the furthest unit read, and of the
\* point a command is retried from.
Place(s) == (s.madr - Len(s.in)) * QwU + s.pos
Reach(s) == (s.madr - Len(s.in)) * QwU + s.hw
Mark(s)  == (s.madr - Len(s.in)) * QwU + s.snap

LEMMA PlaceNumbers ==
  ASSUME NEW s, Formed(s)
  PROVE  /\ (s.madr - Len(s.in)) * QwU \in Nat /\ Place(s) \in Nat /\ Reach(s) \in Nat
         /\ Mark(s) \in Nat /\ Place(s) <= Reach(s) /\ Avail(s) \in Nat
         /\ s.madr * QwU \in Nat /\ s.madr * QwU <= Units
         /\ s.madr * QwU = (s.madr - Len(s.in)) * QwU + Len(s.in) * QwU
         /\ Avail(s) > 0 => Place(s) + Avail(s) = s.madr * QwU
         /\ Reach(s) <= s.madr * QwU \/ (Len(s.in) = 0 /\ Avail(s) = 0)
<1> DEFINE b == (s.madr - Len(s.in)) * QwU
           l == Len(s.in) * QwU
           g == s.madr * QwU
<1>1. /\ s.madr \in Nat /\ Len(s.in) \in Nat /\ Len(s.in) <= s.madr /\ s.madr <= Quads
      /\ s.pos \in Nat /\ s.hw \in Nat /\ s.snap \in Nat /\ s.pos <= s.hw
  BY FormedNumbers
<1>2. b = g - l /\ l <= g /\ l \in Nat /\ g \in Nat
  BY <1>1, SizesPositive, MinusProduct, SMTT(30)
<1>3. g <= Units
  <2>1. s.madr * QwU <= Quads * QwU
    BY <1>1, QuadUnits, SizesPositive, Product
  <2> QED
    BY <2>1, QuadUnits
<1>4. s.hw <= l \/ (Len(s.in) = 0 /\ s.hw < QwU)
  BY DEF Formed, FifoOk
<1>5. Len(s.in) = 0 => l = 0
  BY SizesPositive
<1>6. Avail(s) = (IF l > s.pos THEN l - s.pos ELSE 0)
  BY DEF Avail
<1>7. Place(s) = b + s.pos /\ Reach(s) = b + s.hw /\ Mark(s) = b + s.snap
  BY DEF Place, Reach, Mark
<1>8. /\ b \in Nat /\ Place(s) \in Nat /\ Reach(s) \in Nat
      /\ Mark(s) \in Nat /\ Place(s) <= Reach(s) /\ Avail(s) \in Nat
      /\ g \in Nat /\ g <= Units /\ g = b + l
      /\ Avail(s) > 0 => Place(s) + Avail(s) = g
      /\ Reach(s) <= g \/ (Len(s.in) = 0 /\ Avail(s) = 0)
  <2> HIDE DEF b, l, g
  <2>1. b \in Nat /\ g \in Nat /\ g <= Units /\ g = b + l
    BY <1>2, <1>3
  <2>2. Place(s) \in Nat /\ Reach(s) \in Nat /\ Mark(s) \in Nat /\ Place(s) <= Reach(s)
    BY <1>1, <1>7, <2>1, SMTT(30)
  <2>3. Avail(s) \in Nat /\ (Avail(s) > 0 => Place(s) + Avail(s) = g)
    BY <1>1, <1>2, <1>6, <1>7, <2>1
  <2>4. Reach(s) <= g \/ (Len(s.in) = 0 /\ Avail(s) = 0)
    BY <1>1, <1>2, <1>4, <1>5, <1>6, <1>7, <2>1
  <2> QED
    BY <2>1, <2>2, <2>3, <2>4
<1> QED
  BY <1>8

LEMMA ShiftedPlace ==
  ASSUME NEW s, NEW t, Formed(s), Formed(t), Shifted(s, t)
  PROVE  /\ Place(t) = Place(s) /\ Reach(t) = Reach(s) /\ Avail(t) = Avail(s)
         /\ Len(t.in) <= Len(s.in)
<1>1. PICK d \in Nat :
        /\ d <= Len(s.in) /\ d * QwU \in Nat /\ d * QwU <= s.pos
        /\ t.madr = s.madr /\ Len(t.in) = Len(s.in) - d
        /\ t.pos = s.pos - d * QwU /\ t.hw = s.hw - d * QwU
        /\ (Len(s.in) - d) * QwU = Len(s.in) * QwU - d * QwU
  BY DEF Shifted
<1>2. /\ s.madr \in Nat /\ Len(s.in) \in Nat /\ Len(s.in) <= s.madr
      /\ s.pos \in Nat /\ s.hw \in Nat
  BY FormedNumbers
<1> DEFINE b == (s.madr - Len(s.in)) * QwU
           k == d * QwU
           l == Len(s.in) * QwU
<1>3. (t.madr - Len(t.in)) * QwU = b + k /\ b \in Nat
  <2>1. s.madr - Len(s.in) \in Nat /\ t.madr - Len(t.in) = (s.madr - Len(s.in)) + d
    BY <1>1, <1>2, SMTT(30)
  <2>2. ASSUME NEW x \in Nat, x = s.madr - Len(s.in)
        PROVE  (x + d) * QwU = x * QwU + d * QwU /\ x * QwU \in Nat
    BY SizesPositive, Product
  <2> QED
    BY <2>1, <2>2
<1>4. /\ Place(t) = (b + k) + (s.pos - k) /\ Place(s) = b + s.pos
      /\ Reach(t) = (b + k) + (s.hw - k) /\ Reach(s) = b + s.hw
  BY <1>1, <1>3 DEF Place, Reach
<1>5. /\ Avail(t) = (IF l - k > s.pos - k THEN (l - k) - (s.pos - k) ELSE 0)
      /\ Avail(s) = (IF l > s.pos THEN l - s.pos ELSE 0)
  BY <1>1 DEF Avail
<1>6. l \in Nat /\ k \in Nat
  BY <1>1, FormedUnits
<1>7. Len(t.in) <= Len(s.in)
  BY <1>1, <1>2
<1> HIDE DEF b, k, l
<1> QED
  BY <1>2, <1>3, <1>4, <1>5, <1>6, <1>7, SMTT(30)

\* The decoder went on k units of what is in the FIFO.
Steps(s, t, k) ==
  /\ Formed(t) /\ SameCtl(s, t) /\ SameInput(s, t) /\ Len(t.in) <= Len(s.in)
  /\ Place(t) = Place(s) + k /\ Avail(t) = Avail(s) - k
  /\ Reach(t) = (IF Place(s) + k > Reach(s) THEN Place(s) + k ELSE Reach(s))

LEMMA AdvanceSteps ==
  ASSUME NEW s, NEW n \in Nat \ {0}, Formed(s), n <= Avail(s)
  PROVE  LET t == Advance(s, n)
         IN Steps(s, t, n) /\ SameOut(s, t) /\ SameCmd(s, t) /\ Mark(t) = Mark(s)
<1> DEFINE t == Advance(s, n)
<1>1. /\ Formed(t) /\ Apart(s, t) /\ SameCmd(s, t) /\ t.snap = s.snap
      /\ t.pos = s.pos + n /\ t.hw = (IF s.pos + n > s.hw THEN s.pos + n ELSE s.hw)
  BY AdvanceIs
<1> HIDE DEF t
<1>2. SameCtl(s, t) /\ SameOut(s, t) /\ SameInput(s, t) /\ t.in = s.in /\ t.madr = s.madr
  BY <1>1 DEF Apart, SameIn, SameInput
<1> DEFINE b == (s.madr - Len(s.in)) * QwU
           l == Len(s.in) * QwU
<1>3. b \in Nat /\ l \in Nat /\ s.pos \in Nat /\ s.hw \in Nat /\ Len(s.in) \in Nat
  BY PlaceNumbers, FormedUnits, FormedNumbers
<1>4. /\ Place(t) = b + t.pos /\ Place(s) = b + s.pos /\ Reach(t) = b + t.hw
      /\ Reach(s) = b + s.hw /\ Mark(t) = b + t.snap /\ Mark(s) = b + s.snap
      /\ Avail(t) = (IF l > t.pos THEN l - t.pos ELSE 0)
      /\ Avail(s) = (IF l > s.pos THEN l - s.pos ELSE 0)
  BY <1>2 DEF Place, Reach, Mark, Avail
<1> HIDE DEF b, l
<1>5. Place(t) = Place(s) + n /\ Avail(t) = Avail(s) - n /\ Mark(t) = Mark(s)
  BY <1>1, <1>3, <1>4
<1>6. Reach(t) = (IF Place(s) + n > Reach(s) THEN Place(s) + n ELSE Reach(s))
  BY <1>1, <1>3, <1>4
<1>7. Len(t.in) <= Len(s.in)
  BY <1>2, <1>3
<1> QED
  BY <1>1, <1>2, <1>5, <1>6, <1>7 DEF Steps, t

LEMMA LeqOn ==
  ASSUME NEW a \in Nat, NEW b \in Nat, NEW c \in Nat, b <= a, c <= b
  PROVE  c <= a
OBVIOUS

LEMMA StepsThen ==
  ASSUME NEW s, NEW t, NEW u, NEW k \in Nat, NEW n \in Nat, Formed(s),
         Steps(s, t, k), Steps(t, u, n)
  PROVE  Steps(s, u, k + n)
<1>1. /\ Place(s) \in Nat /\ Reach(s) \in Nat /\ Place(t) \in Nat /\ Reach(t) \in Nat
      /\ Avail(s) \in Nat /\ Avail(t) \in Nat
      /\ Len(s.in) \in Nat /\ Len(t.in) \in Nat /\ Len(u.in) \in Nat
  BY PlaceNumbers, FormedNumbers DEF Steps
<1>a. /\ Place(t) = Place(s) + k /\ Avail(t) = Avail(s) - k /\ Len(t.in) <= Len(s.in)
      /\ Reach(t) = (IF Place(s) + k > Reach(s) THEN Place(s) + k ELSE Reach(s))
  BY DEF Steps
<1>b. /\ Place(u) = Place(t) + n /\ Avail(u) = Avail(t) - n /\ Len(u.in) <= Len(t.in)
      /\ Reach(u) = (IF Place(t) + n > Reach(t) THEN Place(t) + n ELSE Reach(t))
  BY DEF Steps
<1>2. /\ Place(u) = Place(s) + (k + n) /\ Avail(u) = Avail(s) - (k + n)
      /\ Len(u.in) <= Len(s.in)
  <2>1. Place(u) = Place(s) + (k + n)
    BY <1>1, <1>a, <1>b
  <2>2. Avail(u) = Avail(s) - (k + n)
    BY <1>1, <1>a, <1>b
  <2>3. Len(u.in) <= Len(s.in)
    BY <1>1, <1>a, <1>b, LeqOn, Zenon
  <2> QED
    BY <2>1, <2>2, <2>3
<1>3. Reach(u) = (IF Place(s) + (k + n) > Reach(s) THEN Place(s) + (k + n) ELSE Reach(s))
  BY <1>1, <1>a, <1>b, SMTT(30)
<1>4. SameCtl(s, u) /\ SameInput(s, u)
  BY DEF Steps, SameCtl, SameInput
<1> QED
  BY <1>2, <1>3, <1>4 DEF Steps

LEMMA CommitScanSteps ==
  ASSUME NEW s, Formed(s)
  PROVE  LET t == CommitScan(s)
         IN Steps(s, t, 0) /\ SameOut(s, t) /\ SameCmd(s, t) /\ t.snap = t.pos
<1> DEFINE t == CommitScan(s)
<1>1. /\ Formed(t) /\ Shifted(s, t) /\ SameCtl(s, t) /\ SameOut(s, t) /\ SameInput(s, t)
      /\ SameCmd(s, t) /\ t.snap = t.pos
  BY CommitScanIs
<1> HIDE DEF t
<1>2. /\ Place(t) = Place(s) /\ Reach(t) = Reach(s) /\ Avail(t) = Avail(s)
      /\ Len(t.in) <= Len(s.in)
  BY <1>1, ShiftedPlace
<1>3. Place(s) \in Nat /\ Reach(s) \in Nat /\ Avail(s) \in Nat /\ Place(s) <= Reach(s)
  BY PlaceNumbers
<1>4. Steps(s, t, 0)
  BY <1>1, <1>2, <1>3 DEF Steps
<1> QED
  BY <1>1, <1>4 DEF t

\* Without a transfer under way the registers stand still, and so does an empty FIFO.
Quiet(s, t) ==
  s.active = FALSE => /\ t.active = FALSE /\ t.madr = s.madr /\ t.qwc = s.qwc
                      /\ t.tadr = s.tadr /\ (Len(s.in) = 0 => Len(t.in) = 0)

\* What every part of a command keeps to.
Within(s, t) == Formed(t) /\ t.snap <= t.hw /\ SameCtl(s, t) /\ Quiet(s, t)

LEMMA QuietOn ==
  ASSUME NEW s, NEW t, NEW u, Quiet(s, t), Quiet(t, u)
  PROVE  Quiet(s, u)
BY DEF Quiet

LEMMA WithinOn ==
  ASSUME NEW s, NEW t, NEW u, Within(s, t), Within(t, u)
  PROVE  Within(s, u)
<1>1. Quiet(s, u)
  BY QuietOn DEF Within
<1>2. SameCtl(s, u)
  BY DEF Within, SameCtl
<1> QED
  BY <1>1, <1>2 DEF Within

LEMMA SameQuiet ==
  ASSUME NEW s, NEW t, SameInput(s, t), Len(s.in) = 0 => Len(t.in) = 0
  PROVE  Quiet(s, t)
BY DEF Quiet, SameInput

LEMMA ShiftedQuiet ==
  ASSUME NEW s, NEW t, Formed(s), Formed(t), Shifted(s, t), SameInput(s, t)
  PROVE  Quiet(s, t)
<1>1. Len(t.in) <= Len(s.in) /\ Len(t.in) \in Nat /\ Len(s.in) \in Nat
  BY FormedNumbers DEF Shifted
<1>2. Len(s.in) = 0 => Len(t.in) = 0
  BY <1>1
<1> QED
  BY <1>2, SameQuiet

LEMMA AdvanceWalkQuiet ==
  ASSUME NEW s
  PROVE  Quiet(s, AdvanceWalk(s))
<1>1. CASE s.active = FALSE
  <2>1. AdvanceWalk(s) = s
    BY <1>1, HaltedWalk DEF MayWalk
  <2> QED
    BY <2>1 DEF Quiet
<1>2. CASE s.active # FALSE
  BY <1>2 DEF Quiet
<1> QED
  BY <1>1, <1>2

LEMMA EnsureUnitsWithin ==
  ASSUME NEW s, NEW n, Formed(s), s.snap <= s.hw
  PROVE  Within(s, EnsureUnits(s, n)) /\ SameOut(s, EnsureUnits(s, n))
<1>1. Within(s, s) /\ SameOut(s, s)
  BY DEF Within, SameCtl, Quiet, SameOut
<1> DEFINE t == AdvanceWalk(s)
<1>2. Walked(s, t) /\ Quiet(s, t)
  BY AdvanceWalkWalked, AdvanceWalkQuiet
<1>3. EnsureUnits(s, n) \in {s, t}
  BY DEF EnsureUnits
<1> HIDE DEF t
<1>4. Within(s, t) /\ SameOut(s, t)
  BY <1>2 DEF Walked, Within, SameDec
<1> QED
  BY <1>1, <1>3, <1>4

LEMMA AdvanceWithin ==
  ASSUME NEW s, NEW n \in Nat \ {0}, Formed(s), s.snap <= s.hw, n <= Avail(s)
  PROVE  Within(s, Advance(s, n))
<1> DEFINE t == Advance(s, n)
<1>1. /\ Formed(t) /\ Apart(s, t) /\ t.snap = s.snap
      /\ t.hw = (IF s.pos + n > s.hw THEN s.pos + n ELSE s.hw)
  BY AdvanceIs
<1>2. s.hw \in Nat /\ s.snap \in Nat /\ s.pos \in Nat
  BY FormedNumbers
<1> HIDE DEF t
<1>3. t.snap <= t.hw
  BY <1>1, <1>2
<1>4. Quiet(s, t)
  BY <1>1, SameQuiet DEF Apart, SameIn, SameInput
<1> QED
  BY <1>1, <1>3, <1>4 DEF Within, Apart, t

LEMMA CommitScanWithin ==
  ASSUME NEW s, Formed(s)
  PROVE  Within(s, CommitScan(s))
<1> DEFINE t == CommitScan(s)
<1>1. /\ Formed(t) /\ Shifted(s, t) /\ SameCtl(s, t) /\ SameInput(s, t) /\ t.snap = t.pos
  BY CommitScanIs
<1> HIDE DEF t
<1>2. t.snap <= t.hw
  BY <1>1, FormedNumbers
<1>3. Quiet(s, t)
  BY <1>1, ShiftedQuiet
<1> QED
  BY <1>1, <1>2, <1>3 DEF Within, t

LEMMA AlignedWithin ==
  ASSUME NEW s, Formed(s), s.snap <= s.hw, ByteU <= Avail(s)
  PROVE  Within(s, Aligned(s))
<1> DEFINE odd == s.pos % ByteU
           t == Advance(s, ByteU - odd)
<1>1. Aligned(s) = IF odd = 0 THEN s ELSE CommitScan(t)
  BY DEF Aligned
<1>2. CASE odd = 0
  BY <1>1, <1>2 DEF Within, SameCtl, Quiet
<1>3. CASE odd # 0
  <2>1. odd \in 0..ByteU - 1 /\ ByteU \in Nat /\ Avail(s) \in Nat
    BY FormedNumbers, PlaceNumbers, SizesPositive, Quotient
  <2> HIDE DEF odd
  <2>2. ByteU - odd \in Nat \ {0} /\ ByteU - odd <= Avail(s)
    BY <1>3, <2>1
  <2>3. Within(s, t)
    BY <2>2, AdvanceWithin
  <2> HIDE DEF t
  <2>4. Within(t, CommitScan(t))
    BY <2>3, CommitScanWithin DEF Within
  <2> QED
    BY <1>1, <1>3, <2>3, <2>4, WithinOn
<1> QED
  BY <1>2, <1>3

\* A macroblock out: one more for channel 3, and the retry point behind it.
LEMMA EmitIs ==
  ASSUME NEW s, Formed(s)
  PROVE  LET t == Emit(s)
         IN /\ Formed(t) /\ SameCtl(s, t) /\ SameIn(s, t)
            /\ t.pos = s.pos /\ t.hw = s.hw /\ t.snap = s.pos
            /\ t.busy = s.busy /\ t.cmd = s.cmd /\ t.run = s.run /\ t.stall = s.stall
            /\ t.flag = s.flag
            /\ t.tail = (IF s.cmd.op = "bdec" THEN TRUE ELSE s.tail)
            /\ t.csc = (IF s.cmd.op = "csc" THEN s.csc + 1 ELSE s.csc)
            /\ t.out + t.taken = s.out + s.taken + 1
            /\ "toIpu" \in s.str => "toIpu" \in t.str
<1> DEFINE pushed == [s EXCEPT !.out = @ + 1, !.fresh = @ + 1]
           marked == IF s.cmd.op = "bdec" THEN [pushed EXCEPT !.tail = TRUE] ELSE pushed
           u == TakeSnapshot(marked)
           d == DrainCh3(u)
           f == [d EXCEPT !.csc = @ + 1]
<1>1. Emit(s) = IF s.cmd.op = "csc" THEN f ELSE d
  BY DEF Emit
<1>2. /\ Full(pushed) /\ SameCtl(s, pushed) /\ SameIn(s, pushed) /\ SameBits(s, pushed)
      /\ SameCmd(s, pushed)
      /\ pushed.active3 = s.active3 /\ pushed.drainAll = s.drainAll
      /\ pushed.qwc3 = s.qwc3 /\ pushed.taken = s.taken /\ pushed.out = s.out + 1
      /\ pushed.pos = s.pos /\ pushed.hw = s.hw /\ pushed.pred = s.pred
  BY DEF Formed, Full, AllFields, SameCtl, SameIn, SameBits, SameCmd
<1> HIDE DEF pushed
<1>3. /\ Full(marked) /\ SameCtl(s, marked) /\ SameIn(s, marked) /\ SameBits(s, marked)
      /\ marked.active3 = s.active3 /\ marked.drainAll = s.drainAll
      /\ marked.qwc3 = s.qwc3 /\ marked.taken = s.taken /\ marked.out = s.out + 1
      /\ marked.pos = s.pos /\ marked.hw = s.hw /\ marked.pred = s.pred
      /\ marked.busy = s.busy /\ marked.cmd = s.cmd /\ marked.run = s.run
      /\ marked.csc = s.csc /\ marked.stall = s.stall /\ marked.flag = s.flag
      /\ marked.tail = (IF s.cmd.op = "bdec" THEN TRUE ELSE s.tail)
  <2>1. CASE s.cmd.op = "bdec"
    <3> DEFINE v == [pushed EXCEPT !.tail = TRUE]
    <3>1. marked = v
      BY <2>1
    <3>2. /\ Full(v) /\ SameCtl(s, v) /\ SameIn(s, v) /\ SameBits(s, v)
          /\ v.active3 = s.active3 /\ v.drainAll = s.drainAll
          /\ v.qwc3 = s.qwc3 /\ v.taken = s.taken /\ v.out = s.out + 1
          /\ v.pos = s.pos /\ v.hw = s.hw /\ v.pred = s.pred
          /\ v.busy = s.busy /\ v.cmd = s.cmd /\ v.run = s.run
          /\ v.csc = s.csc /\ v.stall = s.stall /\ v.flag = s.flag
          /\ v.tail = TRUE
      BY <1>2 DEF Full, AllFields, SameCtl, SameIn, SameBits, SameCmd
    <3> HIDE DEF v
    <3> QED
      BY <2>1, <3>1, <3>2
  <2>2. CASE s.cmd.op # "bdec"
    BY <1>2, <2>2 DEF SameCmd
  <2> QED
    BY <2>1, <2>2
<1> HIDE DEF marked
<1>4. /\ Full(u) /\ SameCtl(s, u) /\ SameIn(s, u) /\ SameBits(s, u)
      /\ u.active3 = s.active3 /\ u.drainAll = s.drainAll
      /\ u.qwc3 = s.qwc3 /\ u.taken = s.taken /\ u.out = s.out + 1
      /\ u.pos = s.pos /\ u.hw = s.hw /\ u.pred = s.pred
      /\ u.busy = s.busy /\ u.cmd = s.cmd /\ u.run = s.run
      /\ u.csc = s.csc /\ u.stall = s.stall /\ u.flag = s.flag
      /\ u.tail = (IF s.cmd.op = "bdec" THEN TRUE ELSE s.tail)
      /\ u.snap = s.pos /\ u.snapPred = s.pred /\ u.fresh = 0
  BY <1>3, ZenonT(30) DEF TakeSnapshot, Full, AllFields, SameCtl, SameIn, SameBits
<1> HIDE DEF u
<1>5. Formed(u)
  <2>1. CtlOk(u)
    BY <1>4 DEF Formed, CtlOk, SameCtl, SameIn, SameBits
  <2>2. OutOk(u)
    BY <1>4 DEF Formed, OutOk
  <2>3. DecOk(u)
    BY <1>4, FormedUnits DEF Formed, DecOk
  <2>4. RegsOk(u.chain, u.madr, u.qwc, u.tadr) /\ FifoOk(u.in, u.madr, u.pos, u.hw)
    BY <1>4 DEF Formed, SameCtl, SameIn
  <2> QED
    BY <1>4, <2>1, <2>2, <2>3, <2>4 DEF Formed
<1>6. Drained(u, d)
  BY <1>5, DrainCh3Drained
<1> HIDE DEF d
<1>7. /\ Formed(d) /\ SameCtl(s, d) /\ SameIn(s, d)
      /\ d.pos = s.pos /\ d.hw = s.hw /\ d.snap = s.pos
      /\ d.busy = s.busy /\ d.cmd = s.cmd /\ d.run = s.run /\ d.stall = s.stall
      /\ d.flag = s.flag /\ d.csc = s.csc
      /\ d.tail = (IF s.cmd.op = "bdec" THEN TRUE ELSE s.tail)
      /\ "toIpu" \in s.str => "toIpu" \in d.str
  BY <1>4, <1>6 DEF Drained, SameCtl, SameIn, SameDec, SameBits
<1>8. d.out + d.taken = s.out + s.taken + 1
  <2>1. s.out \in Nat /\ s.taken \in Nat
    BY DEF Formed, OutOk
  <2>2. d.out + d.taken = u.out + u.taken
    BY <1>6 DEF Drained
  <2> QED
    BY <1>4, <2>1, <2>2
<1>9. /\ Apart(d, f) /\ f.pos = d.pos /\ f.hw = d.hw /\ f.snap = d.snap
      /\ f.busy = d.busy /\ f.cmd = d.cmd /\ f.run = d.run /\ f.stall = d.stall
      /\ f.flag = d.flag /\ f.csc = d.csc + 1 /\ f.tail = d.tail
      /\ f.snapPred = d.snapPred /\ f.fresh = d.fresh /\ f.pred = d.pred
  BY <1>7 DEF Formed, Apart, Full, AllFields, SameCtl, SameOut, SameIn, SameBits
<1> HIDE DEF f
<1>10. Formed(f)
  <2>1. d.csc + 1 \in Nat
    BY <1>7 DEF Formed, DecOk
  <2>2. DecOk(f)
    BY <1>7, <1>9, <2>1 DEF Formed, DecOk
  <2> QED
    BY <1>7, <1>9, <2>2, ApartFormed DEF Formed
<1>11. CASE s.cmd.op = "csc"
  <2>1. /\ SameCtl(s, f) /\ SameIn(s, f) /\ f.out + f.taken = s.out + s.taken + 1
        /\ "toIpu" \in s.str => "toIpu" \in f.str
    BY <1>7, <1>8, <1>9 DEF Apart, SameCtl, SameIn, SameOut, SameBits
  <2> QED
    BY <1>1, <1>7, <1>9, <1>10, <1>11, <2>1
<1>12. CASE s.cmd.op # "csc"
  BY <1>1, <1>7, <1>8, <1>12
<1> QED
  BY <1>11, <1>12

LEMMA ByteBelowPeek == ByteU <= Peek
<1>1. /\ ByteU \in Nat \ {0} /\ Peek \in Nat \ {0} /\ Peek % ByteU = 0
  BY UnitsAssumption
<1> DEFINE q == Peek \div ByteU
<1>2. q \in Nat /\ Peek = q * ByteU + (Peek % ByteU)
  BY <1>1, Quotient
<1> HIDE DEF q
<1>3. q # 0
  BY <1>1, <1>2
<1>4. 1 * ByteU <= q * ByteU
  BY <1>1, <1>2, <1>3, Product
<1> QED
  BY <1>1, <1>2, <1>4

\* A command under way.
Underway(e) == {"s", "left", "at"} \subseteq DOMAIN e /\ Formed(e.s) /\ e.s.snap <= e.s.hw

\* What a turn of it may do.
Turned(e, f) == Underway(f) /\ Within(e.s, f.s)

LEMMA WithinSelf ==
  ASSUME NEW s, Formed(s), s.snap <= s.hw
  PROVE  Within(s, s)
BY DEF Within, SameCtl, Quiet

\* The coefficients read so far are the only thing a BDEC adds to a macroblock.
LEMMA PredIs ==
  ASSUME NEW s, Formed(s)
  PROVE  LET t == [s EXCEPT !.pred = @ + 1]
         IN Formed(t) /\ Apart(s, t) /\ SameCmd(s, t) /\ t.pos = s.pos /\ t.hw = s.hw
            /\ t.snap = s.snap
<1> DEFINE t == [s EXCEPT !.pred = @ + 1]
<1>1. /\ Apart(s, t) /\ SameCmd(s, t) /\ t.pos = s.pos /\ t.hw = s.hw /\ t.snap = s.snap
      /\ t.snapPred = s.snapPred /\ t.fresh = s.fresh /\ t.pred = s.pred + 1
  BY DEF Formed, Apart, Full, AllFields, SameCtl, SameOut, SameIn, SameBits, SameCmd
<1> HIDE DEF t
<1>2. s.pred + 1 \in Nat
  BY DEF Formed, DecOk
<1>3. DecOk(t)
  BY <1>1, <1>2 DEF Formed, DecOk, SameCmd
<1>4. Formed(t)
  BY <1>1, <1>3, ApartFormed DEF Formed
<1> QED
  BY <1>1, <1>4 DEF t

LEMMA ApartAvail ==
  ASSUME NEW s, NEW t, Apart(s, t), t.pos = s.pos
  PROVE  Avail(t) = Avail(s)
BY DEF Avail, Apart, SameIn

LEMMA ReadTurnTurned ==
  ASSUME NEW e, Underway(e), Avail(e.s) >= 1
  PROVE  Turned(e, ReadTurn(e))
<1> DEFINE p == [e.s EXCEPT !.pred = @ + 1]
           b == IF e.s.cmd.op = "bdec" /\ e.left = e.s.cmd.len THEN p ELSE e.s
           a == Advance(b, 1)
           f == ReadTurn(e)
<1>1. {"s", "left", "at"} \subseteq DOMAIN f /\ f.s = a
  BY DEF ReadTurn
<1>2. /\ Formed(b) /\ b.snap <= b.hw /\ Within(e.s, b) /\ Avail(b) = Avail(e.s)
  <2>1. /\ Formed(p) /\ Apart(e.s, p) /\ p.pos = e.s.pos /\ p.hw = e.s.hw /\ p.snap = e.s.snap
    BY PredIs DEF Underway
  <2> HIDE DEF p
  <2>2. Quiet(e.s, p)
    BY <2>1, SameQuiet DEF Apart, SameIn, SameInput
  <2>3. Within(e.s, p) /\ Avail(p) = Avail(e.s) /\ p.snap <= p.hw
    BY <2>1, <2>2, ApartAvail DEF Within, Apart, Underway
  <2>4. Within(e.s, e.s)
    BY WithinSelf DEF Underway
  <2> QED
    BY <2>1, <2>3, <2>4 DEF Underway
<1> HIDE DEF b, f
<1>3. Avail(b) \in Nat
  BY <1>2, PlaceNumbers
<1>4. Within(b, a)
  BY <1>2, <1>3, AdvanceWithin
<1> HIDE DEF a
<1>5. Within(e.s, a)
  BY <1>2, <1>4, WithinOn
<1> QED
  BY <1>1, <1>5 DEF Turned, Underway, Within, f

LEMMA EmitTurnTurned ==
  ASSUME NEW e, Underway(e)
  PROVE  Turned(e, EmitTurn(e))
<1> DEFINE t == Emit(e.s)
           f == EmitTurn(e)
<1>1. {"s", "left", "at"} \subseteq DOMAIN f /\ f.s = t
  BY DEF EmitTurn
<1>2. /\ Formed(t) /\ SameCtl(e.s, t) /\ SameIn(e.s, t)
      /\ t.pos = e.s.pos /\ t.hw = e.s.hw /\ t.snap = e.s.pos
  BY EmitIs DEF Underway
<1> HIDE DEF t, f
<1>3. t.snap <= t.hw
  BY <1>2, FormedNumbers
<1>4. Quiet(e.s, t)
  BY <1>2, SameQuiet DEF SameIn, SameInput
<1> QED
  BY <1>1, <1>2, <1>3, <1>4 DEF Turned, Underway, Within, f

LEMMA RunningIs ==
  ASSUME NEW s, Formed(s)
  PROVE  LET t == [s EXCEPT !.run = TRUE]
         IN /\ Formed(t) /\ Apart(s, t) /\ t.pos = s.pos /\ t.hw = s.hw /\ t.snap = s.snap
            /\ t.busy = s.busy /\ t.cmd = s.cmd /\ t.tail = s.tail /\ t.run = TRUE
            /\ t.csc = s.csc /\ t.stall = s.stall /\ t.flag = s.flag
<1> DEFINE t == [s EXCEPT !.run = TRUE]
<1>1. /\ Apart(s, t) /\ t.pos = s.pos /\ t.hw = s.hw /\ t.snap = s.snap
      /\ t.busy = s.busy /\ t.cmd = s.cmd /\ t.tail = s.tail /\ t.run = TRUE
      /\ t.csc = s.csc /\ t.stall = s.stall /\ t.flag = s.flag
      /\ t.snapPred = s.snapPred /\ t.fresh = s.fresh /\ t.pred = s.pred
  BY DEF Formed, Apart, Full, AllFields, SameCtl, SameOut, SameIn, SameBits
<1> HIDE DEF t
<1>2. DecOk(t)
  BY <1>1 DEF Formed, DecOk
<1>3. Formed(t)
  BY <1>1, <1>2, ApartFormed DEF Formed
<1> QED
  BY <1>1, <1>3 DEF t

LEMMA FlaggedIs ==
  ASSUME NEW s, NEW flag \in {"none", "ecd", "scd"}, Formed(s)
  PROVE  LET t == [s EXCEPT !.flag = flag]
         IN /\ Formed(t) /\ Apart(s, t) /\ t.pos = s.pos /\ t.hw = s.hw /\ t.snap = s.snap
            /\ t.busy = s.busy /\ t.cmd = s.cmd /\ t.tail = s.tail /\ t.run = s.run
            /\ t.csc = s.csc /\ t.stall = s.stall /\ t.flag = flag
<1> DEFINE t == [s EXCEPT !.flag = flag]
<1>1. /\ Apart(s, t) /\ t.pos = s.pos /\ t.hw = s.hw /\ t.snap = s.snap
      /\ t.busy = s.busy /\ t.cmd = s.cmd /\ t.tail = s.tail /\ t.run = s.run
      /\ t.csc = s.csc /\ t.stall = s.stall /\ t.flag = flag
      /\ t.snapPred = s.snapPred /\ t.fresh = s.fresh /\ t.pred = s.pred
  BY DEF Formed, Apart, Full, AllFields, SameCtl, SameOut, SameIn, SameBits
<1> HIDE DEF t
<1>2. DecOk(t)
  BY <1>1 DEF Formed, DecOk
<1>3. Formed(t)
  BY <1>1, <1>2, ApartFormed DEF Formed
<1> QED
  BY <1>1, <1>3 DEF t

LEMMA GateTurnTurned ==
  ASSUME NEW e, Underway(e), Avail(e.s) >= ByteU
  PROVE  Turned(e, GateTurn(e))
<1> DEFINE b == [e.s EXCEPT !.run = TRUE]
           f == GateTurn(e)
<1>1. /\ {"s", "left", "at"} \subseteq DOMAIN f
      /\ f.s = IF ~ZeroAhead(e.s, ByteU) THEN e.s ELSE Aligned(b)
  BY DEF GateTurn, Underway
<1>2. Formed(b) /\ Apart(e.s, b) /\ b.pos = e.s.pos /\ b.hw = e.s.hw /\ b.snap = e.s.snap
  BY RunningIs DEF Underway
<1> HIDE DEF b, f
<1>3. Quiet(e.s, b)
  BY <1>2, SameQuiet DEF Apart, SameIn, SameInput
<1>4. Within(e.s, b) /\ Avail(b) = Avail(e.s) /\ b.snap <= b.hw
  BY <1>2, <1>3, ApartAvail DEF Within, Apart, Underway
<1>5. Avail(b) \in Nat /\ ByteU <= Avail(b)
  BY <1>2, <1>4, PlaceNumbers, SizesPositive
<1>6. Within(b, Aligned(b))
  BY <1>2, <1>4, <1>5, AlignedWithin
<1>7. Within(e.s, Aligned(b)) /\ Within(e.s, e.s)
  BY <1>4, <1>6, WithinOn, WithinSelf DEF Underway
<1> QED
  BY <1>1, <1>7 DEF Turned, Underway, Within, f

LEMMA RunTurnIs ==
  ASSUME NEW e, {"s", "left", "at"} \subseteq DOMAIN e,
         {"flag"} \subseteq DOMAIN e.s
  PROVE  LET f == RunTurn(e)
         IN /\ {"s", "left", "at"} \subseteq DOMAIN f
            /\ ZeroAhead(e.s, Peek) => /\ f.s = CommitScan(Advance(e.s, ByteU))
                                       /\ f.at = e.at /\ f.left = e.left
            /\ ~ZeroAhead(e.s, Peek) =>
                 /\ f.s = [e.s EXCEPT !.flag = IF ZeroAhead(e.s, Peek - ByteU) THEN "scd" ELSE "ecd"]
                 /\ f.at = "top" /\ f.left = e.left
<1> DEFINE flag == IF ZeroAhead(e.s, Peek - ByteU) THEN "scd" ELSE "ecd"
<1>1. RunTurn(e) = IF ZeroAhead(e.s, Peek)
                   THEN [e EXCEPT !.s = CommitScan(Advance(@, ByteU))]
                   ELSE [e EXCEPT !.s.flag = flag, !.at = "top"]
  BY DEF RunTurn
<1> HIDE DEF flag
<1>2. CASE ZeroAhead(e.s, Peek)
  BY <1>1, <1>2
<1>3. CASE ~ZeroAhead(e.s, Peek)
  <2> DEFINE f == [e EXCEPT !.s.flag = flag, !.at = "top"]
  <2>1. /\ {"s", "left", "at"} \subseteq DOMAIN f /\ f.s = [e.s EXCEPT !.flag = flag]
        /\ f.at = "top" /\ f.left = e.left
    OBVIOUS
  <2> QED
    BY <1>1, <1>3, <2>1 DEF flag
<1> QED
  BY <1>2, <1>3

LEMMA RunTurnTurned ==
  ASSUME NEW e, Underway(e), Avail(e.s) >= Peek
  PROVE  Turned(e, RunTurn(e))
<1> DEFINE a == Advance(e.s, ByteU)
           flag == IF ZeroAhead(e.s, Peek - ByteU) THEN "scd" ELSE "ecd"
           b == [e.s EXCEPT !.flag = flag]
           f == RunTurn(e)
<1>1. /\ {"s", "left", "at"} \subseteq DOMAIN f
      /\ ZeroAhead(e.s, Peek) => f.s = CommitScan(a)
      /\ ~ZeroAhead(e.s, Peek) => f.s = b
  BY RunTurnIs DEF Underway, Formed, Full, AllFields
<1> HIDE DEF f
<1>2. Within(e.s, b)
  <2>1. flag \in {"none", "ecd", "scd"}
    OBVIOUS
  <2> HIDE DEF flag
  <2>2. Formed(b) /\ Apart(e.s, b) /\ b.hw = e.s.hw /\ b.snap = e.s.snap
    BY <2>1, FlaggedIs, ZenonT(30) DEF Underway
  <2> HIDE DEF b
  <2>3. Quiet(e.s, b)
    BY <2>2, SameQuiet DEF Apart, SameIn, SameInput
  <2> QED
    BY <2>2, <2>3 DEF Within, Apart, Underway
<1> HIDE DEF b
<1>3. Within(e.s, CommitScan(a))
  <2>1. ByteU <= Peek
    BY ByteBelowPeek
  <2>2. Avail(e.s) \in Nat /\ ByteU <= Avail(e.s)
    BY <2>1, PlaceNumbers, SizesPositive DEF Underway
  <2>3. Within(e.s, a)
    BY <2>2, AdvanceWithin, SizesPositive DEF Underway
  <2> HIDE DEF a
  <2>4. Within(a, CommitScan(a))
    BY <2>3, CommitScanWithin DEF Within
  <2> QED
    BY <2>3, <2>4, WithinOn
<1> QED
  BY <1>1, <1>2, <1>3 DEF Turned, Underway, Within, f

LEMMA TurnTurned ==
  ASSUME NEW e, Underway(e)
  PROVE  Turned(e, Turn(e))
<1> DEFINE starved == [e EXCEPT !.at = "starved"]
           done == [e EXCEPT !.at = "done"]
<1>1. Within(e.s, e.s)
  BY WithinSelf DEF Underway
<1>2. Turned(e, starved) /\ Turned(e, done) /\ Turned(e, e)
  <2>1. {"s", "left", "at"} \subseteq DOMAIN starved /\ starved.s = e.s
    BY DEF Underway
  <2>2. {"s", "left", "at"} \subseteq DOMAIN done /\ done.s = e.s
    BY DEF Underway
  <2> HIDE DEF starved, done
  <2> QED
    BY <1>1, <2>1, <2>2 DEF Turned, Underway
<1>3. CASE Avail(e.s) < Needed(e)
  <2>1. Turn(e) = starved
    BY <1>3 DEF Turn
  <2> QED
    BY <1>2, <2>1
<1>4. CASE ~(Avail(e.s) < Needed(e))
  <2> HIDE DEF starved, done
  <2> USE <1>4
  <2>a. Avail(e.s) \in Nat
    BY PlaceNumbers DEF Underway
  <2>1. CASE e.at = "read"
    <3>1. Turn(e) = ReadTurn(e) /\ Needed(e) = 1
      BY <2>1 DEF Turn, Needed
    <3> QED
      BY <2>a, <3>1, ReadTurnTurned
  <2>2. CASE e.at = "emit"
    <3>1. Turn(e) = EmitTurn(e)
      BY <2>2 DEF Turn
    <3> QED
      BY <3>1, EmitTurnTurned
  <2>3. CASE e.at = "gate"
    <3>1. Turn(e) = GateTurn(e) /\ Needed(e) = ByteU
      BY <2>3 DEF Turn, Needed
    <3>2. Avail(e.s) >= ByteU
      BY <2>a, <3>1, SizesPositive
    <3> QED
      BY <3>1, <3>2, GateTurnTurned
  <2>4. CASE e.at = "run"
    <3>1. Turn(e) = RunTurn(e) /\ Needed(e) = Peek
      BY <2>4 DEF Turn, Needed
    <3>2. Avail(e.s) >= Peek
      BY <2>a, <3>1, SizesPositive
    <3> QED
      BY <3>1, <3>2, RunTurnTurned
  <2>5. CASE e.at = "top"
    <3>1. Turn(e) = done
      BY <2>5 DEF Turn, done
    <3> QED
      BY <1>2, <3>1
  <2>6. CASE e.at \notin {"read", "emit", "gate", "run", "top"}
    <3>1. Turn(e) = e
      BY <2>6 DEF Turn
    <3> QED
      BY <1>2, <3>1
  <2> QED
    BY <2>1, <2>2, <2>3, <2>4, <2>5, <2>6
<1> QED
  BY <1>3, <1>4

\* The input a turn looks at is ensured before it.
Ensured(e) == [e EXCEPT !.s = EnsureUnits(@, Needed(e))]

LEMMA EnsuredTurned ==
  ASSUME NEW e, Underway(e)
  PROVE  Turned(e, Ensured(e)) /\ Ensured(e).s = EnsureUnits(e.s, Needed(e))
         /\ Ensured(e).at = e.at /\ Ensured(e).left = e.left
<1> DEFINE t == EnsureUnits(e.s, Needed(e))
           f == [e EXCEPT !.s = t]
<1>1. Ensured(e) = f
  BY DEF Ensured
<1>2. Within(e.s, t)
  BY EnsureUnitsWithin DEF Underway
<1> HIDE DEF t
<1>3. {"s", "left", "at"} \subseteq DOMAIN f /\ f.s = t /\ f.at = e.at /\ f.left = e.left
  BY DEF Underway
<1> HIDE DEF f
<1> QED
  BY <1>1, <1>2, <1>3 DEF Turned, Underway, Within, t

LEMMA ExecTurnTurned ==
  ASSUME NEW e, Underway(e)
  PROVE  Turned(e, ExecTurn(e))
<1> DEFINE f == Ensured(e)
<1>1. Turned(e, f)
  BY EnsuredTurned
<1>2. ExecTurn(e) = Turn(f)
  BY DEF ExecTurn, Ensured
<1> HIDE DEF f
<1>3. Turned(f, Turn(f))
  BY <1>1, TurnTurned DEF Turned
<1> QED
  BY <1>1, <1>2, <1>3, WithinOn DEF Turned

LEMMA ExecUnderway ==
  ASSUME NEW s, Formed(s), s.snap <= s.hw
  PROVE  Underway(Exec(s)) /\ Within(s, Exec(s).s)
<1>1. PICK w : /\ w[0] = Entry(s) /\ Exec(s) = w[ExecTurns]
               /\ \A i \in 0..ExecTurns - 1 : w[i + 1] = ExecTurn(w[i])
  BY ExecIsTurns
<1> DEFINE T == {i \in Nat : i <= ExecTurns => Underway(w[i]) /\ Within(s, w[i].s)}
<1>2. ExecTurns \in Nat
  BY Sizes
<1>3. 0 \in T
  <2>1. Underway(Entry(s)) /\ Entry(s).s = s
    BY DEF Underway, Entry
  <2>2. Within(s, s)
    BY WithinSelf
  <2> QED
    BY <1>1, <2>1, <2>2
<1>4. ASSUME NEW i \in Nat, i \in T PROVE i + 1 \in T
  <2> SUFFICES ASSUME i + 1 <= ExecTurns PROVE Underway(w[i + 1]) /\ Within(s, w[i + 1].s)
    OBVIOUS
  <2>1. i \in 0..ExecTurns - 1 /\ Underway(w[i]) /\ Within(s, w[i].s)
    BY <1>2, <1>4
  <2>2. Turned(w[i], ExecTurn(w[i]))
    BY <2>1, ExecTurnTurned
  <2> QED
    BY <1>1, <2>1, <2>2, WithinOn DEF Turned
<1>5. ExecTurns \in T
  BY <1>2, <1>3, <1>4, NatInduct
<1> QED
  BY <1>1, <1>2, <1>5


-----------------------------------------------------------------------------
(* What a pending command still owes the output *)

\* The macroblocks a pending command has not put out yet, and all that are out or due.
Owed(s) == IF s.busy THEN Macroblocks(s.cmd) - (s.csc + (IF s.tail THEN 1 ELSE 0)) ELSE 0
Total(s) == s.out + s.taken + Owed(s)

\* Which parts of a command can be behind one that is still pending.
Apt(s) ==
  s.busy => /\ s.cmd.op \in {"vdec", "setiq", "bdec", "csc"}
            /\ s.cmd.op = "csc" => s.tail = FALSE /\ s.csc < s.cmd.mbs
            /\ s.cmd.op # "csc" => s.csc = 0
            /\ s.cmd.op \in {"vdec", "setiq"} => s.tail = FALSE

SameAcc(s, t) ==
  /\ t.busy = s.busy /\ t.cmd = s.cmd /\ t.csc = s.csc /\ t.tail = s.tail
  /\ t.out + t.taken = s.out + s.taken

Pays(s, t) == Apt(s) => Apt(t) /\ Total(t) = Total(s)

LEMMA SameAccPays ==
  ASSUME NEW s, NEW t, SameAcc(s, t)
  PROVE  Pays(s, t) /\ Total(t) = Total(s) /\ Owed(t) = Owed(s) /\ (Apt(s) <=> Apt(t))
<1>1. Owed(t) = Owed(s)
  BY DEF SameAcc, Owed
<1>2. Total(t) = Total(s)
  BY <1>1 DEF SameAcc, Total
<1>3. Apt(s) <=> Apt(t)
  BY DEF SameAcc, Apt
<1> QED
  BY <1>1, <1>2, <1>3 DEF Pays

LEMMA SameAccOn ==
  ASSUME NEW s, NEW t, NEW u, SameAcc(s, t), SameAcc(t, u)
  PROVE  SameAcc(s, u)
BY DEF SameAcc

LEMMA OutAcc ==
  ASSUME NEW s, NEW t, SameOut(s, t), SameCmd(s, t) \/ SameDec(s, t)
  PROVE  SameAcc(s, t)
BY DEF SameAcc, SameOut, SameCmd, SameDec

LEMMA PaysOn ==
  ASSUME NEW s, NEW t, NEW u, Pays(s, t), Pays(t, u)
  PROVE  Pays(s, u)
BY DEF Pays

LEMMA MacroblocksAre ==
  ASSUME NEW c \in AllCommands
  PROVE  /\ Macroblocks(c) \in Nat
         /\ c.op = "csc" => Macroblocks(c) = c.mbs
         /\ c.op = "bdec" => Macroblocks(c) = 1
         /\ c.op \notin {"csc", "bdec"} => Macroblocks(c) = 0
<1>1. c.op = "csc" => c.mbs \in Nat
  BY CommandsAssumption DEF AllCommands, NoCmd
<1>2. CASE c.op = "csc"
  BY <1>1, <1>2 DEF Macroblocks
<1>3. CASE c.op = "bdec"
  BY <1>3 DEF Macroblocks
<1>4. CASE c.op \notin {"csc", "bdec"}
  BY <1>4 DEF Macroblocks
<1> QED
  BY <1>2, <1>3, <1>4

\* Where a command under way stands with its output.
Stage(e) ==
  /\ e.s.busy = TRUE /\ e.s.cmd.op \in {"vdec", "setiq", "bdec", "csc"}
  /\ e.at \in {"read", "emit", "gate", "run", "top", "done", "starved"}
  /\ e.at # "done" => Apt(e.s)
  /\ e.at \in {"top", "done"} => Owed(e.s) = 0
  /\ e.at \in {"read", "emit"} => e.s.tail = FALSE
  /\ e.at = "emit" => e.s.cmd.op \in {"bdec", "csc"}
  /\ e.at \in {"gate", "run"} => e.s.cmd.op = "bdec" /\ e.s.tail = TRUE

Staged(e, f) == Stage(f) /\ Total(f.s) = Total(e.s)

LEMMA SameStaged ==
  ASSUME NEW e, NEW f, Stage(e), SameAcc(e.s, f.s), f.at = e.at
  PROVE  Staged(e, f)
<1>1. Total(f.s) = Total(e.s) /\ Owed(f.s) = Owed(e.s) /\ (Apt(e.s) <=> Apt(f.s))
  BY SameAccPays
<1>2. Stage(f)
  BY <1>1 DEF Stage, SameAcc
<1> QED
  BY <1>1, <1>2 DEF Staged


LEMMA ReadTurnStaged ==
  ASSUME NEW e, Underway(e), Stage(e), e.at = "read", Avail(e.s) >= 1
  PROVE  Staged(e, ReadTurn(e))
<1> DEFINE p == [e.s EXCEPT !.pred = @ + 1]
           b == IF e.s.cmd.op = "bdec" /\ e.left = e.s.cmd.len THEN p ELSE e.s
           a == Advance(b, 1)
           f == ReadTurn(e)
<1>1. /\ f.s = a
      /\ f.at = IF e.left > 1 THEN "read"
                ELSE CASE e.s.cmd.op = "vdec" -> "top"
                       [] e.s.cmd.op = "setiq" -> "done"
                       [] OTHER -> "emit"
  BY DEF ReadTurn
<1>2. Formed(b) /\ Avail(b) = Avail(e.s) /\ SameAcc(e.s, b)
  <2>1. Formed(p) /\ Apart(e.s, p) /\ SameCmd(e.s, p) /\ p.pos = e.s.pos
    BY PredIs DEF Underway
  <2> HIDE DEF p
  <2>2. Avail(p) = Avail(e.s) /\ SameAcc(e.s, p) /\ SameAcc(e.s, e.s)
    BY <2>1, ApartAvail, OutAcc DEF Apart, SameAcc
  <2> QED
    BY <2>1, <2>2 DEF Underway
<1> HIDE DEF b, f
<1>3. Avail(b) \in Nat
  BY <1>2, PlaceNumbers
<1>4. SameOut(b, a) /\ SameCmd(b, a)
  BY <1>2, <1>3, AdvanceIs DEF Apart
<1> HIDE DEF a
<1>5. SameAcc(e.s, a)
  BY <1>2, <1>4, OutAcc, SameAccOn
<1>6. Total(a) = Total(e.s) /\ Owed(a) = Owed(e.s) /\ (Apt(e.s) <=> Apt(a))
  BY <1>5, SameAccPays
<1>7. e.s.cmd.op \in {"vdec", "setiq"} => Owed(e.s) = 0
  <2>1. e.s.cmd \in AllCommands
    BY DEF Underway, Formed, DecOk
  <2>2. e.s.cmd.op \in {"vdec", "setiq"} => Macroblocks(e.s.cmd) = 0
    BY <2>1, MacroblocksAre
  <2> QED
    BY <2>2 DEF Stage, Apt, Owed
<1>8. f.s = a /\ f.at \in {"read", "top", "done", "emit"}
      /\ (f.at \in {"top", "done"} => e.s.cmd.op \in {"vdec", "setiq"})
      /\ (f.at = "emit" => e.s.cmd.op \in {"bdec", "csc"})
  BY <1>1 DEF Stage
<1>9. Stage(f)
  BY <1>5, <1>6, <1>7, <1>8 DEF Stage, SameAcc
<1> QED
  BY <1>6, <1>8, <1>9 DEF Staged, f

LEMMA EmitTurnStaged ==
  ASSUME NEW e, Underway(e), Stage(e), e.at = "emit"
  PROVE  Staged(e, EmitTurn(e))
<1> DEFINE t == Emit(e.s)
           c == e.s.cmd
           f == EmitTurn(e)
<1>1. /\ f.s = t
      /\ f.at = IF c.op = "bdec" THEN "gate" ELSE IF e.s.csc + 1 = c.mbs THEN "done" ELSE "read"
  BY DEF EmitTurn
<1>2. /\ t.busy = e.s.busy /\ t.cmd = c
      /\ t.tail = (IF c.op = "bdec" THEN TRUE ELSE e.s.tail)
      /\ t.csc = (IF c.op = "csc" THEN e.s.csc + 1 ELSE e.s.csc)
      /\ t.out + t.taken = e.s.out + e.s.taken + 1
  BY EmitIs DEF Underway
<1>3. /\ c \in AllCommands /\ e.s.csc \in Nat /\ e.s.out + e.s.taken \in Nat
  BY DEF Underway, Formed, DecOk, OutOk
<1>4. /\ Macroblocks(c) \in Nat /\ (c.op = "csc" => Macroblocks(c) = c.mbs)
      /\ (c.op = "bdec" => Macroblocks(c) = 1)
  BY <1>3, MacroblocksAre
<1>5. /\ c.op \in {"bdec", "csc"} /\ e.s.busy = TRUE /\ e.s.tail = FALSE
      /\ (c.op = "csc" => e.s.csc < c.mbs) /\ (c.op = "bdec" => e.s.csc = 0)
  BY DEF Stage, Apt
<1> HIDE DEF t, c, f
<1>6. Owed(t) = Owed(e.s) - 1 /\ (c.op = "bdec" => Owed(t) = 0)
      /\ (c.op = "csc" => Owed(t) = c.mbs - (e.s.csc + 1)) /\ Owed(e.s) \in Int
  <2>1. CASE c.op = "bdec"
    <3>1. Owed(t) = 1 - (0 + 1) /\ Owed(e.s) = 1 - (0 + 0)
      BY <1>2, <1>4, <1>5, <2>1 DEF Owed, c
    <3> QED
      BY <2>1, <3>1
  <2>2. CASE c.op = "csc"
    <3>1. Owed(t) = c.mbs - (e.s.csc + 1 + 0) /\ Owed(e.s) = c.mbs - (e.s.csc + 0)
      BY <1>2, <1>4, <1>5, <2>2 DEF Owed, c
    <3> QED
      BY <1>3, <1>4, <2>2, <3>1
  <2> QED
    BY <1>5, <2>1, <2>2
<1>7. Total(t) = Total(e.s)
  BY <1>2, <1>3, <1>6 DEF Total
<1>8. CASE c.op = "bdec"
  <2>1. f.at = "gate" /\ Apt(t)
    BY <1>1, <1>2, <1>5, <1>8 DEF Apt
  <2>2. Stage(f)
    BY <1>1, <1>2, <1>5, <1>8, <2>1 DEF Stage
  <2> QED
    BY <1>1, <1>7, <2>2 DEF Staged, f
<1>9. CASE c.op = "csc"
  <2>1. CASE e.s.csc + 1 = c.mbs
    <3>1. Owed(t) = 0
      BY <1>3, <1>6, <1>9, <2>1
    <3>2. Stage(f)
      BY <1>1, <1>2, <1>5, <1>9, <2>1, <3>1 DEF Stage
    <3> QED
      BY <1>1, <1>7, <3>2 DEF Staged, f
  <2>2. CASE e.s.csc + 1 # c.mbs
    <3>1. e.s.csc + 1 < c.mbs
      BY <1>3, <1>4, <1>5, <1>9, <2>2
    <3>2. Apt(t)
      BY <1>2, <1>5, <1>9, <3>1 DEF Apt
    <3>3. Stage(f)
      BY <1>1, <1>2, <1>5, <1>9, <2>2, <3>2 DEF Stage
    <3> QED
      BY <1>1, <1>7, <3>3 DEF Staged, f
  <2> QED
    BY <2>1, <2>2
<1> QED
  BY <1>5, <1>8, <1>9

LEMMA AlignedAcc ==
  ASSUME NEW s, Formed(s), ByteU <= Avail(s)
  PROVE  SameAcc(s, Aligned(s))
<1> DEFINE odd == s.pos % ByteU
           t == Advance(s, ByteU - odd)
<1>1. Aligned(s) = IF odd = 0 THEN s ELSE CommitScan(t)
  BY DEF Aligned
<1>2. CASE odd = 0
  BY <1>1, <1>2 DEF SameAcc
<1>3. CASE odd # 0
  <2>1. odd \in 0..ByteU - 1 /\ ByteU \in Nat /\ Avail(s) \in Nat
    BY FormedNumbers, PlaceNumbers, SizesPositive, Quotient
  <2> HIDE DEF odd
  <2>2. ByteU - odd \in Nat \ {0} /\ ByteU - odd <= Avail(s)
    BY <1>3, <2>1
  <2>3. Formed(t) /\ SameOut(s, t) /\ SameCmd(s, t)
    BY <2>2, AdvanceIs DEF Apart
  <2> HIDE DEF t
  <2>4. SameOut(t, CommitScan(t)) /\ SameCmd(t, CommitScan(t))
    BY <2>3, CommitScanIs
  <2> QED
    BY <1>1, <1>3, <2>3, <2>4, OutAcc, SameAccOn
<1> QED
  BY <1>2, <1>3

LEMMA GateTurnStaged ==
  ASSUME NEW e, Underway(e), Stage(e), e.at = "gate", Avail(e.s) >= ByteU
  PROVE  Staged(e, GateTurn(e))
<1> DEFINE b == [e.s EXCEPT !.run = TRUE]
           f == GateTurn(e)
<1>1. /\ f.s = IF ~ZeroAhead(e.s, ByteU) THEN e.s ELSE Aligned(b)
      /\ f.at = IF ~ZeroAhead(e.s, ByteU) THEN "top" ELSE "run"
  BY DEF GateTurn, Underway
<1>2. /\ Formed(b) /\ Apart(e.s, b) /\ b.pos = e.s.pos /\ b.busy = e.s.busy
      /\ b.cmd = e.s.cmd /\ b.tail = e.s.tail /\ b.csc = e.s.csc
  BY RunningIs DEF Underway
<1> HIDE DEF b, f
<1>3. SameAcc(e.s, b) /\ SameAcc(e.s, e.s) /\ Avail(b) = Avail(e.s)
  BY <1>2, ApartAvail DEF Apart, SameOut, SameAcc
<1>4. ByteU <= Avail(b)
  BY <1>2, <1>3, PlaceNumbers, SizesPositive
<1>5. SameAcc(e.s, Aligned(b))
  BY <1>2, <1>3, <1>4, AlignedAcc, SameAccOn
<1>6. SameAcc(e.s, f.s) /\ f.at \in {"top", "run"}
  BY <1>1, <1>3, <1>5
<1>7. Total(f.s) = Total(e.s) /\ Owed(f.s) = Owed(e.s) /\ (Apt(e.s) <=> Apt(f.s))
  BY <1>6, SameAccPays
<1>8. Owed(e.s) = 0
  <2>1. e.s.cmd \in AllCommands
    BY DEF Underway, Formed, DecOk
  <2>2. Owed(e.s) = 1 - (0 + 1)
    BY <2>1, MacroblocksAre DEF Stage, Apt, Owed
  <2> QED
    BY <2>2
<1>9. Stage(f)
  BY <1>6, <1>7, <1>8 DEF Stage, SameAcc
<1> QED
  BY <1>7, <1>9 DEF Staged, f

LEMMA RunTurnStaged ==
  ASSUME NEW e, Underway(e), Stage(e), e.at = "run", Avail(e.s) >= Peek
  PROVE  Staged(e, RunTurn(e))
<1> DEFINE a == Advance(e.s, ByteU)
           flag == IF ZeroAhead(e.s, Peek - ByteU) THEN "scd" ELSE "ecd"
           b == [e.s EXCEPT !.flag = flag]
           f == RunTurn(e)
<1>1. /\ ZeroAhead(e.s, Peek) => f.s = CommitScan(a) /\ f.at = "run"
      /\ ~ZeroAhead(e.s, Peek) => f.s = b /\ f.at = "top"
  BY RunTurnIs DEF Underway, Formed, Full, AllFields
<1> HIDE DEF f
<1>2. SameAcc(e.s, b)
  <2>1. flag \in {"none", "ecd", "scd"}
    OBVIOUS
  <2> DEFINE s == e.s
  <2>2. Formed(s)
    BY DEF Underway
  <2> HIDE DEF flag, s
  <2>3. LET t == [s EXCEPT !.flag = flag]
        IN Apart(s, t) /\ t.busy = s.busy /\ t.cmd = s.cmd /\ t.tail = s.tail /\ t.csc = s.csc
    BY <2>1, <2>2, FlaggedIs, ZenonT(30)
  <2>4. /\ Apart(e.s, b) /\ b.busy = e.s.busy /\ b.cmd = e.s.cmd /\ b.tail = e.s.tail
        /\ b.csc = e.s.csc
    BY <2>3 DEF s
  <2> HIDE DEF b
  <2> QED
    BY <2>4 DEF Apart, SameOut, SameAcc
<1> HIDE DEF b
<1>3. SameAcc(e.s, CommitScan(a))
  <2>1. Avail(e.s) \in Nat /\ ByteU <= Avail(e.s)
    BY ByteBelowPeek, PlaceNumbers, SizesPositive DEF Underway
  <2>2. Formed(a) /\ SameOut(e.s, a) /\ SameCmd(e.s, a)
    BY <2>1, AdvanceIs, SizesPositive DEF Underway, Apart
  <2> HIDE DEF a
  <2>3. SameOut(a, CommitScan(a)) /\ SameCmd(a, CommitScan(a))
    BY <2>2, CommitScanIs
  <2> QED
    BY <2>2, <2>3, OutAcc, SameAccOn
<1>4. SameAcc(e.s, f.s) /\ f.at \in {"top", "run"}
  BY <1>1, <1>2, <1>3
<1>5. Total(f.s) = Total(e.s) /\ Owed(f.s) = Owed(e.s) /\ (Apt(e.s) <=> Apt(f.s))
  BY <1>4, SameAccPays
<1>6. Owed(e.s) = 0
  <2>1. e.s.cmd \in AllCommands
    BY DEF Underway, Formed, DecOk
  <2>2. Owed(e.s) = 1 - (0 + 1)
    BY <2>1, MacroblocksAre DEF Stage, Apt, Owed
  <2> QED
    BY <2>2
<1>7. Stage(f)
  BY <1>4, <1>5, <1>6 DEF Stage, SameAcc
<1> QED
  BY <1>5, <1>7 DEF Staged, f


LEMMA TurnStaged ==
  ASSUME NEW e, Underway(e), Stage(e)
  PROVE  Staged(e, Turn(e))
<1> DEFINE starved == [e EXCEPT !.at = "starved"]
           done == [e EXCEPT !.at = "done"]
<1>1. Staged(e, e)
  BY DEF Staged
<1>2. starved.s = e.s /\ starved.at = "starved" /\ done.s = e.s /\ done.at = "done"
  BY DEF Underway
<1> HIDE DEF starved, done
<1>3. CASE Avail(e.s) < Needed(e)
  <2>1. Turn(e) = starved
    BY <1>3 DEF Turn, starved
  <2>2. e.at # "done"
    <3>1. Avail(e.s) \in Nat
      BY PlaceNumbers DEF Underway
    <3>2. e.at = "done" => Needed(e) = 0
      BY DEF Needed
    <3> QED
      BY <1>3, <3>1, <3>2
  <2>3. Stage(starved)
    BY <1>2, <2>2 DEF Stage
  <2> QED
    BY <1>2, <2>1, <2>3 DEF Staged
<1>4. CASE ~(Avail(e.s) < Needed(e))
  <2> USE <1>4
  <2>a. Avail(e.s) \in Nat
    BY PlaceNumbers DEF Underway
  <2>1. CASE e.at = "read"
    <3>1. Turn(e) = ReadTurn(e) /\ Needed(e) = 1
      BY <2>1 DEF Turn, Needed
    <3> QED
      BY <2>a, <2>1, <3>1, ReadTurnStaged
  <2>2. CASE e.at = "emit"
    <3>1. Turn(e) = EmitTurn(e)
      BY <2>2 DEF Turn
    <3> QED
      BY <2>2, <3>1, EmitTurnStaged
  <2>3. CASE e.at = "gate"
    <3>1. Turn(e) = GateTurn(e) /\ Needed(e) = ByteU
      BY <2>3 DEF Turn, Needed
    <3>2. Avail(e.s) >= ByteU
      BY <2>a, <3>1, SizesPositive
    <3> QED
      BY <2>3, <3>1, <3>2, GateTurnStaged
  <2>4. CASE e.at = "run"
    <3>1. Turn(e) = RunTurn(e) /\ Needed(e) = Peek
      BY <2>4 DEF Turn, Needed
    <3>2. Avail(e.s) >= Peek
      BY <2>a, <3>1, SizesPositive
    <3> QED
      BY <2>4, <3>1, <3>2, RunTurnStaged
  <2>5. CASE e.at = "top"
    <3>1. Turn(e) = done
      BY <2>5 DEF Turn, done
    <3>2. Stage(done)
      BY <1>2, <2>5 DEF Stage
    <3> QED
      BY <1>2, <3>1, <3>2 DEF Staged
  <2>6. CASE e.at \notin {"read", "emit", "gate", "run", "top"}
    <3>1. Turn(e) = e
      BY <2>6 DEF Turn
    <3> QED
      BY <1>1, <3>1
  <2> QED
    BY <2>1, <2>2, <2>3, <2>4, <2>5, <2>6
<1> QED
  BY <1>3, <1>4

LEMMA ExecTurnStaged ==
  ASSUME NEW e, Underway(e), Stage(e)
  PROVE  Staged(e, ExecTurn(e))
<1> DEFINE f == Ensured(e)
<1>1. ExecTurn(e) = Turn(f)
  BY DEF ExecTurn, Ensured
<1>2. Underway(f) /\ f.s = EnsureUnits(e.s, Needed(e)) /\ f.at = e.at
  BY EnsuredTurned DEF Turned
<1>3. SameAcc(e.s, f.s)
  <2>1. SameAcc(e.s, AdvanceWalk(e.s)) /\ SameAcc(e.s, e.s)
    BY AdvanceWalkWalked, OutAcc DEF Underway, Walked, SameAcc
  <2> QED
    BY <1>2, <2>1 DEF EnsureUnits
<1> HIDE DEF f
<1>4. Staged(e, f)
  BY <1>2, <1>3, SameStaged
<1>5. Staged(f, Turn(f))
  BY <1>2, <1>4, TurnStaged DEF Staged
<1> QED
  BY <1>1, <1>4, <1>5 DEF Staged

LEMMA ExecStaged ==
  ASSUME NEW s, Formed(s), s.snap <= s.hw, Apt(s), s.busy = TRUE
  PROVE  Stage(Exec(s)) /\ Total(Exec(s).s) = Total(s)
<1>1. PICK w : /\ w[0] = Entry(s) /\ Exec(s) = w[ExecTurns]
               /\ \A i \in 0..ExecTurns - 1 : w[i + 1] = ExecTurn(w[i])
  BY ExecIsTurns
<1> DEFINE T == {i \in Nat : i <= ExecTurns =>
                               Underway(w[i]) /\ Stage(w[i]) /\ Total(w[i].s) = Total(s)}
<1>2. ExecTurns \in Nat
  BY Sizes
<1>3. 0 \in T
  <2>1. Underway(Entry(s)) /\ Entry(s).s = s
        /\ Entry(s).at = IF s.tail THEN (IF s.run THEN "run" ELSE "gate") ELSE "read"
    BY DEF Underway, Entry
  <2>2. s.tail \in BOOLEAN
    BY DEF Formed, DecOk
  <2>3. Stage(Entry(s))
    BY <2>1, <2>2 DEF Stage, Apt
  <2> QED
    BY <1>1, <2>1, <2>3
<1>4. ASSUME NEW i \in Nat, i \in T PROVE i + 1 \in T
  <2> SUFFICES ASSUME i + 1 <= ExecTurns
               PROVE  Underway(w[i + 1]) /\ Stage(w[i + 1]) /\ Total(w[i + 1].s) = Total(s)
    OBVIOUS
  <2>1. i \in 0..ExecTurns - 1 /\ Underway(w[i]) /\ Stage(w[i]) /\ Total(w[i].s) = Total(s)
    BY <1>2, <1>4
  <2>2. Turned(w[i], ExecTurn(w[i])) /\ Staged(w[i], ExecTurn(w[i]))
    BY <2>1, ExecTurnTurned, ExecTurnStaged
  <2> QED
    BY <1>1, <2>1, <2>2 DEF Turned, Staged
<1>5. ExecTurns \in T
  BY <1>2, <1>3, <1>4, NatInduct
<1> QED
  BY <1>1, <1>2, <1>5

\* What a call of the decoder may do to the input, whatever it was given.
Runs(s, t) == Formed(t) /\ Snapped(t) /\ SameCtl(s, t) /\ Quiet(s, t)

LEMMA RunsOn ==
  ASSUME NEW s, NEW t, NEW u, Runs(s, t), Runs(t, u)
  PROVE  Runs(s, u)
<1>1. Quiet(s, u)
  BY QuietOn DEF Runs
<1>2. SameCtl(s, u)
  BY DEF Runs, SameCtl
<1> QED
  BY <1>1, <1>2 DEF Runs

LEMMA RunsSelf ==
  ASSUME NEW s, Formed(s), Snapped(s)
  PROVE  Runs(s, s)
BY DEF Runs, SameCtl, Quiet

LEMMA AdvanceWalkRuns ==
  ASSUME NEW s, Formed(s), Snapped(s)
  PROVE  Runs(s, AdvanceWalk(s))
<1> DEFINE t == AdvanceWalk(s)
<1>1. Walked(s, t) /\ Quiet(s, t)
  BY AdvanceWalkWalked, AdvanceWalkQuiet
<1> HIDE DEF t
<1>2. Snapped(t)
  BY <1>1 DEF Walked, SameDec, Snapped
<1> QED
  BY <1>1, <1>2 DEF Runs, Walked, t

LEMMA DrainCh3Runs ==
  ASSUME NEW s, Formed(s), Snapped(s)
  PROVE  Runs(s, DrainCh3(s))
<1> DEFINE t == DrainCh3(s)
<1>1. Drained(s, t)
  BY DrainCh3Drained
<1> HIDE DEF t
<1>2. Snapped(t)
  BY <1>1 DEF Drained, SameDec, Snapped
<1>3. Quiet(s, t)
  BY <1>1, SameQuiet DEF Drained, SameIn, SameInput
<1> QED
  BY <1>1, <1>2, <1>3 DEF Runs, Drained, t

\* The IPU's own interrupt.
LEMMA InterruptIs ==
  ASSUME NEW s, Formed(s)
  PROVE  LET t == [s EXCEPT !.raised = @ \cup {"ipu"}]
         IN /\ Formed(t) /\ SameCtl(s, t) /\ SameOut(s, t) /\ SameIn(s, t) /\ SameDec(s, t)
            /\ t.str = s.str
<1> DEFINE t == [s EXCEPT !.raised = @ \cup {"ipu"}]
<1>1. /\ Full(t) /\ SameCtl(s, t) /\ SameOut(s, t) /\ SameIn(s, t) /\ SameDec(s, t)
      /\ t.str = s.str /\ t.raised = s.raised \cup {"ipu"}
  BY DEF Formed, Full, AllFields, SameCtl, SameOut, SameIn, SameDec
<1> HIDE DEF t
<1>2. CtlOk(t)
  BY <1>1 DEF Formed, CtlOk, SameCtl, SameIn
<1>3. OutOk(t) /\ DecOk(t)
  BY <1>1 DEF Formed, OutOk, DecOk, SameOut, SameDec
<1>4. RegsOk(t.chain, t.madr, t.qwc, t.tadr) /\ FifoOk(t.in, t.madr, t.pos, t.hw)
  BY <1>1 DEF Formed, SameCtl, SameIn, SameDec
<1> QED
  BY <1>1, <1>2, <1>3, <1>4 DEF Formed, t

\* A command that is over leaves everything but BUSY as it was.
LEMMA IdleIs ==
  ASSUME NEW s, Formed(s)
  PROVE  LET t == [s EXCEPT !.busy = FALSE]
         IN /\ Formed(t) /\ Apart(s, t) /\ t.pos = s.pos /\ t.hw = s.hw /\ t.snap = s.snap
            /\ t.busy = FALSE /\ t.cmd = s.cmd /\ t.tail = s.tail /\ t.run = s.run
            /\ t.csc = s.csc /\ t.stall = s.stall /\ t.flag = s.flag
<1> DEFINE t == [s EXCEPT !.busy = FALSE]
<1>1. /\ Apart(s, t) /\ t.pos = s.pos /\ t.hw = s.hw /\ t.snap = s.snap
      /\ t.busy = FALSE /\ t.cmd = s.cmd /\ t.tail = s.tail /\ t.run = s.run
      /\ t.csc = s.csc /\ t.stall = s.stall /\ t.flag = s.flag
      /\ t.snapPred = s.snapPred /\ t.fresh = s.fresh /\ t.pred = s.pred
  BY DEF Formed, Apart, Full, AllFields, SameCtl, SameOut, SameIn, SameBits
<1> HIDE DEF t
<1>2. DecOk(t)
  BY <1>1 DEF Formed, DecOk
<1>3. Formed(t)
  BY <1>1, <1>2, ApartFormed DEF Formed
<1> QED
  BY <1>1, <1>3 DEF t

LEMMA SettleRuns ==
  ASSUME NEW e, Underway(e)
  PROVE  Runs(e.s, Settle(e))
<1>1. CASE e.at = "done"
  <2> DEFINE a == [e.s EXCEPT !.busy = FALSE]
             b == CompactIn(a)
             c == AdvanceWalk(b)
             d == [c EXCEPT !.raised = @ \cup {"ipu"}]
  <2>1. Settle(e) = DrainCh3(d)
    BY <1>1 DEF Settle
  <2>2. Formed(a) /\ Apart(e.s, a) /\ a.busy = FALSE
    BY IdleIs DEF Underway
  <2> HIDE DEF a
  <2>3. Runs(e.s, a)
    BY <2>2, SameQuiet DEF Runs, Snapped, Apart, SameIn, SameInput
  <2>4. /\ Formed(b) /\ Shifted(a, b) /\ SameCtl(a, b) /\ SameInput(a, b) /\ b.busy = FALSE
    BY <2>2, CompactInIs DEF SameCmd
  <2> HIDE DEF b
  <2>5. Runs(a, b)
    BY <2>2, <2>4, ShiftedQuiet DEF Runs, Snapped
  <2>6. Runs(b, c)
    BY <2>5, AdvanceWalkRuns DEF Runs
  <2> HIDE DEF c
  <2>7. /\ Formed(d) /\ SameCtl(c, d) /\ SameIn(c, d) /\ SameDec(c, d)
    BY <2>6, InterruptIs DEF Runs
  <2> HIDE DEF d
  <2>8. Runs(c, d)
    BY <2>6, <2>7, SameQuiet DEF Runs, Snapped, SameIn, SameInput, SameDec
  <2>9. Runs(d, DrainCh3(d))
    BY <2>8, DrainCh3Runs DEF Runs
  <2> QED
    BY <2>1, <2>3, <2>5, <2>6, <2>8, <2>9, RunsOn
<1>2. CASE e.at # "done"
  <2> DEFINE a == RestoreSnapshot(e.s)
             b == AdvanceWalk(a)
             c == Stalled(b)
  <2>1. Settle(e) = c
    BY <1>2 DEF Settle
  <2>2. /\ Formed(a) /\ Apart(e.s, a) /\ a.hw = e.s.hw /\ a.snap = e.s.snap
    BY RestoreSnapshotIs DEF Underway
  <2> HIDE DEF a
  <2>3. Runs(e.s, a)
    BY <2>2, SameQuiet DEF Runs, Snapped, Underway, Apart, SameIn, SameInput
  <2>4. Runs(a, b)
    BY <2>3, AdvanceWalkRuns DEF Runs
  <2> HIDE DEF b
  <2>5. /\ Formed(c) /\ Apart(b, c) /\ c.busy = b.busy /\ c.hw = b.hw /\ c.snap = b.snap
    BY <2>4, StalledIs DEF Runs
  <2> HIDE DEF c
  <2>6. Runs(b, c)
    BY <2>4, <2>5, SameQuiet DEF Runs, Snapped, Apart, SameIn, SameInput
  <2> QED
    BY <2>1, <2>3, <2>4, <2>6, RunsOn
<1> QED
  BY <1>1, <1>2

LEMMA RunPendingRuns ==
  ASSUME NEW s, Formed(s), Snapped(s)
  PROVE  Runs(s, RunPending(s))
<1>1. CASE s.busy = FALSE
  <2>1. RunPending(s) = s
    BY <1>1 DEF RunPending
  <2> QED
    BY <2>1, RunsSelf
<1>2. CASE s.busy = TRUE
  <2> DEFINE r == RestoreSnapshot(s)
             a == [r EXCEPT !.flag = "none"]
             e == Exec(a)
  <2>1. RunPending(s) = Settle(e)
    BY <1>2 DEF RunPending
  <2>2. /\ Formed(r) /\ Apart(s, r) /\ SameCmd(s, r) /\ r.hw = s.hw /\ r.snap = s.snap
    BY <1>2, RestoreSnapshotIs DEF Snapped
  <2> HIDE DEF r
  <2>3. /\ Formed(a) /\ Apart(r, a) /\ a.hw = r.hw /\ a.snap = r.snap
    BY <2>2, FlaggedIs
  <2> HIDE DEF a
  <2>4. a.snap <= a.hw
    BY <1>2, <2>2, <2>3 DEF Snapped
  <2>5. Quiet(s, a) /\ SameCtl(s, a)
    <3>1. SameInput(s, a) /\ a.in = s.in /\ SameCtl(s, a)
      BY <2>2, <2>3 DEF Apart, SameIn, SameInput, SameCtl
    <3> QED
      BY <3>1, SameQuiet
  <2>6. Runs(s, a)
    BY <2>3, <2>4, <2>5 DEF Runs, Snapped
  <2>7. Underway(e) /\ Within(a, e.s)
    BY <2>3, <2>4, ExecUnderway
  <2> HIDE DEF e
  <2>8. Runs(a, e.s)
    BY <2>7 DEF Within, Runs, Snapped
  <2>9. Runs(e.s, Settle(e))
    BY <2>7, SettleRuns
  <2> QED
    BY <2>1, <2>6, <2>8, <2>9, RunsOn
<1>3. s.busy \in BOOLEAN
  BY DEF Formed, DecOk
<1> QED
  BY <1>1, <1>2, <1>3

LEMMA ServiceInputRuns ==
  ASSUME NEW s, Formed(s), Snapped(s)
  PROVE  Runs(s, ServiceInput(s))
<1> DEFINE t == AdvanceWalk(s)
<1>1. ServiceInput(s) \in {t, RunPending(t)}
  BY DEF ServiceInput
<1>2. Runs(s, t)
  BY AdvanceWalkRuns
<1> HIDE DEF t
<1>3. Runs(t, RunPending(t))
  BY <1>2, RunPendingRuns DEF Runs
<1> QED
  BY <1>1, <1>2, <1>3, RunsOn

LEMMA WrittenIs ==
  ASSUME NEW s, NEW c \in AllCommands, Formed(s)
  PROVE  LET a == [s EXCEPT !.cmd = c, !.busy = TRUE, !.csc = 0, !.tail = FALSE,
                            !.run = FALSE, !.flag = "none", !.raised = @ \ {"ipu"}]
             b == TakeSnapshot(a)
         IN Formed(b) /\ Snapped(b) /\ Apart(a, b) /\ SameCmd(a, b) /\ Runs(s, b)
<1> DEFINE a == [s EXCEPT !.cmd = c, !.busy = TRUE, !.csc = 0, !.tail = FALSE, !.run = FALSE,
                          !.flag = "none", !.raised = @ \ {"ipu"}]
           b == TakeSnapshot(a)
<1>2. /\ Full(a) /\ SameCtl(s, a) /\ SameOut(s, a) /\ SameIn(s, a)
      /\ a.str = s.str /\ a.raised = s.raised \ {"ipu"} /\ a.pos = s.pos /\ a.hw = s.hw
      /\ a.busy = TRUE /\ a.cmd = c /\ a.tail = FALSE /\ a.run = FALSE /\ a.flag = "none"
      /\ a.csc = 0 /\ a.stall = s.stall /\ a.snap = s.snap /\ a.pred = s.pred
      /\ a.snapPred = s.snapPred /\ a.fresh = s.fresh
  BY DEF Formed, Full, AllFields, SameCtl, SameOut, SameIn
<1> HIDE DEF a
<1>3. Formed(a)
  <2>1. CtlOk(a)
    BY <1>2 DEF Formed, CtlOk, SameCtl, SameIn
  <2>2. OutOk(a)
    BY <1>2 DEF Formed, OutOk, SameOut
  <2>4. DecOk(a)
    <3>1. s.snap \in 0..Units /\ s.stall \in 0..Units /\ s.pred \in Nat /\ s.snapPred \in Nat
          /\ s.fresh = 0
      BY DEF Formed, DecOk
    <3>2. a.cmd \in AllCommands /\ a.flag \in {"none", "ecd", "scd"} /\ a.csc \in Nat
      BY <1>2
    <3>3. a.busy \in BOOLEAN /\ a.tail \in BOOLEAN /\ a.run \in BOOLEAN
      BY <1>2
    <3>4. a.snap \in 0..Units /\ a.stall \in 0..Units /\ a.pred \in Nat /\ a.snapPred \in Nat
          /\ a.fresh = 0
      BY <1>2, <3>1
    <3> QED
      BY <3>2, <3>3, <3>4 DEF DecOk
  <2>3. RegsOk(a.chain, a.madr, a.qwc, a.tadr) /\ FifoOk(a.in, a.madr, a.pos, a.hw)
    BY <1>2 DEF Formed, SameCtl, SameIn
  <2> QED
    BY <1>2, <2>1, <2>2, <2>3, <2>4 DEF Formed
<1>4. /\ Formed(b) /\ Apart(a, b) /\ SameCmd(a, b) /\ b.snap = a.pos /\ b.hw = a.hw
  BY <1>3, TakeSnapshotIs
<1> HIDE DEF b
<1>5. Snapped(b)
  BY <1>3, <1>4, FormedNumbers DEF Snapped
<1>6. Runs(s, b)
  <2>1. SameInput(s, b) /\ b.in = s.in /\ SameCtl(s, b)
    BY <1>2, <1>4 DEF Apart, SameIn, SameInput, SameCtl
  <2> QED
    BY <1>4, <1>5, <2>1, SameQuiet DEF Runs
<1> QED
  BY <1>4, <1>5, <1>6 DEF a, b

LEMMA CmdWriteRuns ==
  ASSUME NEW s, NEW c \in AllCommands, Formed(s)
  PROVE  Runs(s, CmdWrite(s, c))
<1> DEFINE a == [s EXCEPT !.cmd = c, !.busy = TRUE, !.csc = 0, !.tail = FALSE, !.run = FALSE,
                          !.flag = "none", !.raised = @ \ {"ipu"}]
           b == TakeSnapshot(a)
<1>1. CmdWrite(s, c) = RunPending(b)
  BY DEF CmdWrite
<1>2. Formed(b) /\ Snapped(b) /\ Runs(s, b)
  BY WrittenIs
<1> HIDE DEF b
<1>3. Runs(b, RunPending(b))
  BY <1>2, RunPendingRuns
<1> QED
  BY <1>1, <1>2, <1>3, RunsOn

LEMMA DrainCh3Acc ==
  ASSUME NEW s, Formed(s)
  PROVE  SameAcc(s, DrainCh3(s))
BY DrainCh3Drained DEF Drained, SameDec, SameAcc

\* A command that is over owes nothing; one that is not owes what it did.
LEMMA SettlePays ==
  ASSUME NEW e, Underway(e), Stage(e)
  PROVE  Apt(Settle(e)) /\ Total(Settle(e)) = Total(e.s)
<1>1. CASE e.at = "done"
  <2> DEFINE a == [e.s EXCEPT !.busy = FALSE]
             b == CompactIn(a)
             c == AdvanceWalk(b)
             d == [c EXCEPT !.raised = @ \cup {"ipu"}]
  <2>1. Settle(e) = DrainCh3(d)
    BY <1>1 DEF Settle
  <2>2. Formed(a) /\ Apart(e.s, a) /\ a.busy = FALSE
    BY IdleIs DEF Underway
  <2> HIDE DEF a
  <2>3. Formed(b) /\ SameOut(a, b) /\ SameCmd(a, b)
    BY <2>2, CompactInIs
  <2> HIDE DEF b
  <2>4. Formed(c) /\ SameOut(b, c) /\ SameDec(b, c)
    BY <2>3, AdvanceWalkWalked DEF Walked
  <2> HIDE DEF c
  <2>5. Formed(d) /\ SameOut(c, d) /\ SameDec(c, d)
    BY <2>4, InterruptIs
  <2> HIDE DEF d
  <2>6. SameAcc(a, b) /\ SameAcc(b, c) /\ SameAcc(c, d) /\ SameAcc(d, DrainCh3(d))
    BY <2>3, <2>4, <2>5, OutAcc, DrainCh3Acc
  <2>7. SameAcc(a, DrainCh3(d))
    BY <2>6, SameAccOn
  <2>8. Apt(a) /\ Total(a) = a.out + a.taken + 0
    BY <2>2 DEF Apt, Total, Owed
  <2>9. Total(a) = Total(e.s)
    <3>1. Owed(e.s) = 0
      BY <1>1 DEF Stage
    <3> QED
      BY <2>2, <2>8, <3>1 DEF Total, Apart, SameOut
  <2> QED
    BY <2>1, <2>7, <2>8, <2>9, SameAccPays
<1>2. CASE e.at # "done"
  <2> DEFINE a == RestoreSnapshot(e.s)
             b == AdvanceWalk(a)
             c == Stalled(b)
  <2>1. Settle(e) = c
    BY <1>2 DEF Settle
  <2>2. Formed(a) /\ SameOut(e.s, a) /\ SameCmd(e.s, a)
    BY RestoreSnapshotIs DEF Underway, Apart
  <2> HIDE DEF a
  <2>3. Formed(b) /\ SameOut(a, b) /\ SameDec(a, b)
    BY <2>2, AdvanceWalkWalked DEF Walked
  <2> HIDE DEF b
  <2>4. SameAcc(b, c)
    BY <2>3, StalledIs DEF Apart, SameOut, SameAcc
  <2> HIDE DEF c
  <2>5. SameAcc(e.s, c)
    BY <2>2, <2>3, <2>4, OutAcc, SameAccOn
  <2>6. Apt(e.s)
    BY <1>2 DEF Stage
  <2> QED
    BY <2>1, <2>5, <2>6, SameAccPays
<1> QED
  BY <1>1, <1>2

LEMMA RunPendingPays ==
  ASSUME NEW s, Formed(s), Snapped(s)
  PROVE  Pays(s, RunPending(s))
<1>1. CASE s.busy = FALSE
  <2>1. RunPending(s) = s
    BY <1>1 DEF RunPending
  <2> QED
    BY <2>1 DEF Pays
<1>2. CASE s.busy = TRUE
  <2> SUFFICES ASSUME Apt(s)
               PROVE  Apt(RunPending(s)) /\ Total(RunPending(s)) = Total(s)
    BY DEF Pays
  <2> DEFINE r == RestoreSnapshot(s)
             a == [r EXCEPT !.flag = "none"]
             e == Exec(a)
  <2>1. RunPending(s) = Settle(e)
    BY <1>2 DEF RunPending
  <2>2. /\ Formed(r) /\ Apart(s, r) /\ SameCmd(s, r) /\ r.hw = s.hw /\ r.snap = s.snap
    BY <1>2, RestoreSnapshotIs DEF Snapped
  <2> HIDE DEF r
  <2>3. /\ Formed(a) /\ Apart(r, a) /\ a.hw = r.hw /\ a.snap = r.snap
        /\ a.busy = r.busy /\ a.cmd = r.cmd /\ a.csc = r.csc /\ a.tail = r.tail
    BY <2>2, FlaggedIs
  <2> HIDE DEF a
  <2>4. SameAcc(s, a)
    <3>1. SameAcc(s, r)
      BY <2>2, OutAcc DEF Apart
    <3>2. SameAcc(r, a)
      BY <2>3 DEF SameAcc, Apart, SameOut
    <3> QED
      BY <3>1, <3>2, SameAccOn
  <2>5. Apt(a) /\ Total(a) = Total(s) /\ a.busy = TRUE /\ a.snap <= a.hw
    BY <1>2, <2>2, <2>3, <2>4, SameAccPays DEF Snapped, SameAcc
  <2>6. Underway(e) /\ Stage(e) /\ Total(e.s) = Total(a)
    BY <2>3, <2>5, ExecUnderway, ExecStaged
  <2> HIDE DEF e
  <2> QED
    BY <2>1, <2>5, <2>6, SettlePays
<1>3. s.busy \in BOOLEAN
  BY DEF Formed, DecOk
<1> QED
  BY <1>1, <1>2, <1>3

-----------------------------------------------------------------------------
(* The scan that ends a BDEC, as the stream has it *)

\* The operators of the specification on a given set of zero units.
ZRun(z, u, n) == \A i \in u..u + n - 1 : i \in z

\* The scan behind the macroblock that ends at v may stand at x.
Scanned(z, v, x) ==
  /\ ZRun(z, v, ByteU) /\ x \in Nat /\ x % ByteU = 0 /\ AlignUp(v) <= x
  /\ \A j \in AlignUp(v)..x - 1 : j % ByteU = 0 => ZRun(z, j, Peek)

TailIs(z, v, x) ==
  IF ZRun(z, v, ByteU) THEN Scanned(z, v, x) /\ ~ZRun(z, x, Peek) ELSE x = v

EndIs(z, c, u, x) ==
  CASE c.op = "csc"  -> x = u + c.len * c.mbs
    [] c.op = "bdec" -> TailIs(z, u + c.len, x)
    [] OTHER         -> x = u + c.len

FlagIs(z, c, u, x, f) ==
  f = IF c.op # "bdec" \/ ~ZRun(z, u + c.len, ByteU) THEN "none"
      ELSE IF ZRun(z, x, Peek - ByteU) THEN "scd" ELSE "ecd"

LEMMA WholeTimes ==
  ASSUME NEW q \in Nat, NEW d \in Nat \ {0}
  PROVE  q * d \in Nat /\ (q * d) \div d = q /\ (q * d) % d = 0
<1> DEFINE x == q * d
<1>1. x \in Nat
  BY Product
<1>2. x = q * d
  OBVIOUS
<1> HIDE DEF x
<1>3. x \div d = q
  BY <1>1, <1>2, Quotient
<1>4. x = (x \div d) * d + (x % d) /\ x % d \in 0..d - 1
  BY <1>1, Quotient
<1>5. x = x + (x % d)
  BY <1>2, <1>3, <1>4
<1>6. x % d = 0
  BY <1>1, <1>4, <1>5
<1> QED
  BY <1>1, <1>2, <1>3, <1>6

LEMMA ModShift ==
  ASSUME NEW q \in Nat, NEW x \in Nat, NEW d \in Nat \ {0}
  PROVE  (q * d + x) % d = x % d
<1> DEFINE k == x \div d
           r == x % d
           y == q * d + x
<1>1. k \in Nat /\ r \in 0..d - 1 /\ x = k * d + r
  BY Quotient
<1>2. q * d \in Nat /\ y \in Nat
  BY Product
<1> HIDE DEF k, r
<1>3. (q + k) * d = q * d + k * d /\ k * d \in Nat
  BY <1>1, Product
<1>4. y = (q + k) * d + r
  BY <1>1, <1>2, <1>3
<1> DEFINE n == q + k
<1>5. n \in Nat /\ n * d \in Nat
  BY <1>1, <1>2, <1>3
<1>6. y = n * d + r
  BY <1>4
<1> HIDE DEF n, y
<1>7. y \div d = n
  <2>1. n * d <= y /\ y < n * d + d
    BY <1>1, <1>5, <1>6
  <2> QED
    BY <1>2, <1>5, <2>1, Quotient
<1>8. y = (y \div d) * d + (y % d) /\ y % d \in 0..d - 1
  BY <1>2, Quotient
<1>9. n * d + r = n * d + (y % d)
  BY <1>6, <1>7, <1>8
<1>10. y % d = r
  BY <1>1, <1>5, <1>8, <1>9
<1> QED
  BY <1>10 DEF y, r

LEMMA WholeGap ==
  ASSUME NEW x \in Nat, NEW y \in Nat, NEW d \in Nat \ {0}, x % d = 0, y % d = 0, x < y
  PROVE  x + d <= y
<1> DEFINE k == x \div d
           n == y \div d
<1>1. k \in Nat /\ n \in Nat /\ x = k * d + (x % d) /\ y = n * d + (y % d)
  BY Quotient
<1> HIDE DEF k, n
<1>2. k * d \in Nat /\ n * d \in Nat /\ (k + 1) * d = k * d + d
      /\ (n <= k => n * d <= k * d) /\ (k + 1 <= n => (k + 1) * d <= n * d)
  BY <1>1, Product
<1>3. x = k * d /\ y = n * d
  BY <1>1, <1>2
<1>4. k + 1 <= n
  BY <1>1, <1>2, <1>3
<1> QED
  BY <1>2, <1>3, <1>4

LEMMA WholeNext ==
  ASSUME NEW x \in Nat, NEW d \in Nat \ {0}, x % d = 0
  PROVE  (x + d) % d = 0
<1>0. 1 \in Nat
  OBVIOUS
<1>1. (1 * d + x) % d = x % d
  BY <1>0, ModShift
<1>2. 1 * d + x = x + d
  OBVIOUS
<1> QED
  BY <1>1, <1>2

LEMMA Ceiling ==
  ASSUME NEW v \in Nat
  PROVE  /\ AlignUp(v) \in Nat /\ v <= AlignUp(v) /\ AlignUp(v) <= v + ByteU
         /\ AlignUp(v) % ByteU = 0
         /\ \A x \in Nat : v <= x /\ (x % ByteU) = 0 => AlignUp(v) <= x
<1> DEFINE b == ByteU
           y == v + b - 1
           q == y \div b
           r == y % b
           a == q * b
<1>1. b \in Nat \ {0} /\ y \in Nat /\ y = v + b - 1
  BY SizesPositive
<1> HIDE DEF b, y
<1>2. q \in Nat /\ r \in 0..b - 1 /\ y = a + r
  BY <1>1, Quotient
<1> HIDE DEF q, r
<1>3. a \in Nat /\ (a % b) = 0 /\ b * q = a
  <2>1. a \in Nat /\ (a % b) = 0
    BY <1>1, <1>2, WholeTimes
  <2>2. q * b = b * q
    BY <1>1, <1>2
  <2> QED
    BY <2>1, <2>2
<1>4. AlignUp(v) = a
  BY <1>3 DEF AlignUp, a, q, y, b
<1> HIDE DEF a
<1>5. v <= a /\ a <= v + b
  BY <1>1, <1>2, <1>3
<1>6. ASSUME NEW x \in Nat, v <= x, (x % b) = 0 PROVE a <= x
  <2>1. SUFFICES ASSUME x < a PROVE FALSE
    BY <1>3
  <2>2. x + b <= a
    BY <1>1, <1>3, <1>6, <2>1, WholeGap
  <2> QED
    BY <1>1, <1>2, <1>3, <1>6, <2>2
<1> QED
  BY <1>3, <1>4, <1>5, <1>6 DEF b

LEMMA WholeSizes ==
  /\ (Peek % ByteU) = 0 /\ (Units % ByteU) = 0
  /\ \A n \in Nat, p \in Nat : ((n * QwU + p) % ByteU) = (p % ByteU)
<1> DEFINE k == QwU \div ByteU
<1>1. k \in Nat /\ QwU = k * ByteU + (QwU % ByteU) /\ QwU \in Nat /\ ByteU \in Nat \ {0}
  BY SizesPositive, Quotient
<1>2. QwU = k * ByteU + 0 /\ (Peek % ByteU) = 0
  BY <1>1, UnitsAssumption
<1> HIDE DEF k
<1>3. k * ByteU \in Nat
  BY <1>1, Product
<1>4. QwU = k * ByteU
  BY <1>2, <1>3
<1>5. ASSUME NEW n \in Nat PROVE n * QwU = (n * k) * ByteU /\ n * k \in Nat
  <2>1. n * (k * ByteU) = (n * k) * ByteU
    BY <1>1
  <2> QED
    BY <1>1, <1>4, <2>1, Product
<1>6. ASSUME NEW n \in Nat, NEW p \in Nat PROVE ((n * QwU + p) % ByteU) = (p % ByteU)
  <2> DEFINE j == n * k
  <2>1. n * QwU = j * ByteU /\ j \in Nat
    BY <1>5
  <2> HIDE DEF j
  <2>2. ((j * ByteU + p) % ByteU) = (p % ByteU)
    BY <1>1, <2>1, ModShift
  <2> QED
    BY <2>1, <2>2
<1>7. (Units % ByteU) = 0
  <2>1. Quads \in Nat /\ Units = Quads * QwU
    BY QuadUnits
  <2> DEFINE j == Quads * k
  <2>2. Quads * QwU = j * ByteU /\ j \in Nat
    BY <1>5, <2>1
  <2> HIDE DEF j
  <2>3. ((j * ByteU) % ByteU) = 0
    BY <1>1, <2>2, WholeTimes
  <2> QED
    BY <2>1, <2>2, <2>3
<1> QED
  BY <1>2, <1>6, <1>7

LEMMA ScannedStep ==
  ASSUME NEW z, NEW v \in Nat, NEW p, Scanned(z, v, p), ZRun(z, p, Peek)
  PROVE  Scanned(z, v, p + ByteU)
<1>1. /\ p \in Nat /\ (p % ByteU) = 0 /\ AlignUp(v) <= p /\ AlignUp(v) \in Nat /\ ByteU \in Nat \ {0}
      /\ ZRun(z, v, ByteU)
  BY Ceiling, SizesPositive DEF Scanned
<1>2. p + ByteU \in Nat /\ ((p + ByteU) % ByteU) = 0 /\ AlignUp(v) <= p + ByteU
  BY <1>1, WholeNext
<1>3. ASSUME NEW j \in AlignUp(v)..p + ByteU - 1, (j % ByteU) = 0 PROVE ZRun(z, j, Peek)
  <2>0. j \in Nat /\ AlignUp(v) <= j /\ j < p + ByteU
    BY <1>1
  <2>1. CASE j < p
    <3>1. j \in AlignUp(v)..p - 1
      BY <1>1, <2>0, <2>1
    <3> QED
      BY <1>3, <3>1 DEF Scanned
  <2>2. ~ (p < j)
    BY <1>1, <1>3, <2>0, WholeGap
  <2> QED
    BY <1>1, <2>0, <2>1, <2>2
<1> QED
  BY <1>1, <1>2, <1>3 DEF Scanned

\* Where the scan is against where it stops.
LEMMA ScannedBelow ==
  ASSUME NEW z, NEW v \in Nat, NEW p, NEW x, Scanned(z, v, p), TailIs(z, v, x)
  PROVE  /\ p \in Nat /\ x \in Nat /\ p <= x
         /\ ZRun(z, p, Peek) => p + ByteU <= x
         /\ ~ZRun(z, p, Peek) => x = p
<1>1. Scanned(z, v, x) /\ ~ZRun(z, x, Peek)
  BY DEF Scanned, TailIs
<1>2. /\ p \in Nat /\ x \in Nat /\ (p % ByteU) = 0 /\ (x % ByteU) = 0
      /\ AlignUp(v) <= p /\ AlignUp(v) <= x
      /\ AlignUp(v) \in Nat /\ ByteU \in Nat \ {0}
  BY <1>1, Ceiling, SizesPositive DEF Scanned
<1>3. p <= x
  <2>1. SUFFICES ASSUME x < p PROVE FALSE
    BY <1>2
  <2>2. x \in AlignUp(v)..p - 1
    BY <1>2, <2>1
  <2> QED
    BY <1>1, <1>2, <2>2 DEF Scanned
<1>4. ASSUME ~ZRun(z, p, Peek) PROVE x = p
  <2>1. SUFFICES ASSUME p < x PROVE FALSE
    BY <1>2, <1>3
  <2>2. p \in AlignUp(v)..x - 1
    BY <1>2, <2>1
  <2> QED
    BY <1>1, <1>2, <1>4, <2>2 DEF Scanned
<1>5. ASSUME ZRun(z, p, Peek) PROVE p + ByteU <= x
  <2>1. p < x
    BY <1>1, <1>2, <1>3, <1>5
  <2> QED
    BY <1>2, <2>1, WholeGap
<1> QED
  BY <1>2, <1>3, <1>4, <1>5

LEMMA ScannedFirst ==
  ASSUME NEW z, NEW v \in Nat, ZRun(z, v, ByteU)
  PROVE  Scanned(z, v, AlignUp(v))
<1>1. AlignUp(v) \in Nat /\ (AlignUp(v) % ByteU) = 0 /\ AlignUp(v) <= AlignUp(v)
  BY Ceiling
<1>2. \A j : j \notin AlignUp(v)..AlignUp(v) - 1
  BY <1>1
<1> QED
  BY <1>1, <1>2 DEF Scanned

LEMMA TailAfter ==
  ASSUME NEW z, NEW v \in Nat, NEW x, TailIs(z, v, x)
  PROVE  x \in Nat /\ v <= x
<1>1. CASE ZRun(z, v, ByteU)
  <2>1. x \in Nat /\ AlignUp(v) <= x /\ AlignUp(v) \in Nat /\ v <= AlignUp(v)
    BY <1>1, Ceiling DEF TailIs, Scanned
  <2> QED
    BY <2>1
<1> QED
  BY <1>1 DEF TailIs

\* The end a command has is the one DecodeEnd computes, and its flag follows.
LEMMA EndUnique ==
  ASSUME NEW z, NEW c, NEW u \in Nat, NEW x, NEW y, c.len \in Nat,
         EndIs(z, c, u, x), EndIs(z, c, u, y)
  PROVE  x = y
<1>1. CASE c.op = "bdec"
  <2> DEFINE v == u + c.len
  <2>1. TailIs(z, v, x) /\ TailIs(z, v, y) /\ v \in Nat
    BY <1>1 DEF EndIs
  <2> HIDE DEF v
  <2>2. CASE ZRun(z, v, ByteU)
    <3>1. Scanned(z, v, x) /\ ~ZRun(z, x, Peek)
      BY <2>1, <2>2 DEF TailIs
    <3> QED
      BY <2>1, <3>1, ScannedBelow
  <2> QED
    BY <2>1, <2>2 DEF TailIs
<1>2. CASE c.op # "bdec"
  BY <1>2 DEF EndIs
<1> QED
  BY <1>1, <1>2

\* No start code lies beyond the end of the stream, so every scan stops.
LEMMA ScanEndIs ==
  ASSUME NEW v \in Nat, ZRun(zeros, v, ByteU), zeros \subseteq 0..Units - 1
  PROVE  TailIs(zeros, v, ScanEnd(AlignUp(v)))
<1> DEFINE a == AlignUp(v)
           S == {k \in Nat : a <= k /\ (k % ByteU) = 0 /\ ~ZRun(zeros, k, Peek)}
           R == {ss \in Nat \X Nat : ss[1] < ss[2]}
<1>1. /\ a \in Nat /\ v <= a /\ (a % ByteU) = 0 /\ Units \in Nat /\ (Units % ByteU) = 0
      /\ Peek \in Nat \ {0} /\ ByteU \in Nat \ {0}
  BY Ceiling, SizesPositive, WholeSizes, QuadUnits
<1>2. v \in zeros
  BY <1>1 DEF ZRun
<1>3. a <= Units
  <2>1. v \in 0..Units - 1
    BY <1>2
  <2>2. v <= Units
    BY <1>1, <2>1
  <2> QED
    BY <1>1, <2>2, Ceiling
<1>4. Units \in S
  <2>1. Units \notin zeros
    BY <1>1
  <2>2. Units \in Units..Units + Peek - 1
    BY <1>1
  <2>3. ~ZRun(zeros, Units, Peek)
    BY <2>1, <2>2 DEF ZRun
  <2> QED
    BY <1>1, <1>3, <2>3
<1> HIDE DEF a
<1>5. PICK x \in S : \A y \in S : ~ (<<y, x>> \in R)
  <2>1. IsWellFoundedOn(R, Nat)
    BY NatLessThanWellFounded DEF OpToRel
  <2> QED
    BY <1>4, <2>1, WFMin
<1>6. \A y \in S : x <= y
  <2> SUFFICES ASSUME NEW y \in S PROVE x <= y
    OBVIOUS
  <2>1. x \in Nat /\ y \in Nat /\ ~ (<<y, x>> \in R)
    BY <1>5
  <2>2. ~ (y < x)
    <3>1. SUFFICES ASSUME y < x PROVE FALSE
      OBVIOUS
    <3>2. <<y, x>> \in Nat \X Nat /\ <<y, x>>[1] = y /\ <<y, x>>[2] = x
      BY <2>1
    <3>3. <<y, x>> \in R
      BY <3>1, <3>2
    <3> QED
      BY <2>1, <3>3
  <2> QED
    BY <2>1, <2>2
<1>7. /\ x \in a..Units /\ (x % ByteU) = 0 /\ ~ZRun(zeros, x, Peek)
      /\ \A j \in a..x - 1 : (j % ByteU) = 0 => ZRun(zeros, j, Peek)
  <2>1. x \in Nat /\ a <= x /\ (x % ByteU) = 0 /\ ~ZRun(zeros, x, Peek) /\ x <= Units
    BY <1>4, <1>5, <1>6
  <2>2. ASSUME NEW j \in a..x - 1, (j % ByteU) = 0 PROVE ZRun(zeros, j, Peek)
    <3>1. j \in Nat /\ a <= j /\ ~ (x <= j)
      BY <1>1, <2>1
    <3> QED
      BY <1>6, <2>2, <3>1
  <2> QED
    BY <1>1, <2>1, <2>2
<1> DEFINE P(k) == /\ k % ByteU = 0 /\ ~ZeroRun(k, Peek)
                   /\ \A j \in a..k - 1 : j % ByteU = 0 => ZeroRun(j, Peek)
           y == CHOOSE k \in a..Units : P(k)
<1>8. \A k : ZeroRun(k, Peek) <=> ZRun(zeros, k, Peek)
  BY DEF ZeroRun, ZRun
<1>9. ScanEnd(a) = y
  BY DEF ScanEnd
<1>10. y \in a..Units /\ P(y)
  <2>1. P(x)
    BY <1>7, <1>8
  <2> HIDE DEF P
  <2> QED
    BY <1>7, <2>1
<1> HIDE DEF y
<1>11. Scanned(zeros, v, y) /\ ~ZRun(zeros, y, Peek)
  BY <1>1, <1>8, <1>10 DEF Scanned, a
<1> QED
  BY <1>9, <1>11 DEF TailIs, Scanned, a

LEMMA DecodeEndIs ==
  ASSUME NEW c, NEW u \in Nat, c.len \in Nat, zeros \subseteq 0..Units - 1
  PROVE  EndIs(zeros, c, u, DecodeEnd(c, u))
<1> DEFINE v == u + c.len
<1>1. v \in Nat
  OBVIOUS
<1>2. DecodeEnd(c, u) = CASE c.op = "csc" -> u + c.len * c.mbs
                          [] c.op = "bdec" -> TailEnd(v)
                          [] OTHER -> v
  BY DEF DecodeEnd
<1>3. TailIs(zeros, v, TailEnd(v))
  <2> HIDE DEF v
  <2>1. ZeroRun(v, ByteU) <=> ZRun(zeros, v, ByteU)
    BY DEF ZeroRun, ZRun
  <2>2. CASE ZRun(zeros, v, ByteU)
    BY <1>1, <2>1, <2>2, ScanEndIs DEF TailEnd
  <2>3. CASE ~ZRun(zeros, v, ByteU)
    BY <2>1, <2>3 DEF TailEnd, TailIs
  <2> QED
    BY <2>2, <2>3
<1> QED
  BY <1>2, <1>3 DEF EndIs

LEMMA FlagFollows ==
  ASSUME NEW c, NEW u \in Nat, NEW x, NEW f, c.len \in Nat, zeros \subseteq 0..Units - 1,
         EndIs(zeros, c, u, x), FlagIs(zeros, c, u, x, f)
  PROVE  f = DecodeFlag(c, u)
<1> DEFINE v == u + c.len
<1>1. x = DecodeEnd(c, u)
  BY DecodeEndIs, EndUnique
<1>2. c.op = "bdec" => x = TailEnd(v)
  BY <1>1 DEF DecodeEnd
<1> HIDE DEF v
<1>3. \A k, n : ZeroRun(k, n) <=> ZRun(zeros, k, n)
  BY DEF ZeroRun, ZRun
<1>4. DecodeFlag(c, u) = IF c.op # "bdec" \/ ~ZeroRun(v, ByteU) THEN "none"
                         ELSE IF ZeroRun(TailEnd(v), Peek - ByteU) THEN "scd" ELSE "ecd"
  BY DEF DecodeFlag, v
<1>5. f = IF c.op # "bdec" \/ ~ZRun(zeros, v, ByteU) THEN "none"
          ELSE IF ZRun(zeros, x, Peek - ByteU) THEN "scd" ELSE "ecd"
  BY DEF FlagIs, v
<1> QED
  BY <1>2, <1>3, <1>4, <1>5

-----------------------------------------------------------------------------
(* A walk delivers all it can *)

\* The channel is stopped or held, or the FIFO is full.
Spent(s) == ~MayWalk(s) \/ ("toIpu" \in s.str /\ s.qwc > 0 /\ ~Room(s))

Feeding(s) == MayWalk(s) /\ "toIpu" \in s.str

LEMMA SpentWalk ==
  ASSUME NEW s, Spent(s)
  PROVE  WalkTurn(s) = s /\ AdvanceWalk(s) = s
<1>1. WalkTurn(s) = s
  BY DEF Spent, WalkTurn
<1> QED
  BY <1>1, WalkExhausted DEF Exhausted

LEMMA FromHighWater ==
  ASSUME NEW s, Formed(s)
  PROVE  /\ QwFrom(s, s.hw) \in 0..Fifo + 1
         /\ QwFrom(s, s.hw) = Len(s.in) - (s.hw \div QwU)
<1> DEFINE n == Len(s.in)
           h == s.hw
           k == h \div QwU
<1>1. /\ n \in Nat /\ h \in Nat /\ k \in Nat /\ n - k <= Fifo + 1 /\ Fifo \in Nat
      /\ QwU \in Nat \ {0} /\ (h <= n * QwU \/ (n = 0 /\ h < QwU))
  BY FormedNumbers, SizesPositive DEF Formed, FifoOk
<1>2. QwFrom(s, s.hw) = IF n > k THEN n - k ELSE 0
  BY DEF QwFrom
<1> HIDE DEF n
<1>3. k <= n
  <2>1. CASE h <= n * QwU
    <3>1. n * QwU \in Nat /\ (n * QwU) \div QwU = n
      BY <1>1, WholeTimes
    <3> QED
      BY <1>1, <2>1, <3>1, QuotientMonotone
  <2>2. CASE n = 0 /\ h < QwU
    <3>1. 0 \in Nat /\ 0 * QwU <= h /\ h < 0 * QwU + QwU
      BY <1>1, <2>2
    <3> HIDE DEF h
    <3>2. k = 0
      BY <1>1, <3>1, Quotient
    <3> QED
      BY <2>2, <3>2
  <2> QED
    BY <1>1, <2>1, <2>2
<1> HIDE DEF k, h
<1>4. QwFrom(s, s.hw) = n - k /\ n - k \in 0..Fifo + 1
  BY <1>1, <1>2, <1>3
<1> QED
  BY <1>4 DEF n, k, h

\* What a walk has before it.
WalkLeft(s) == (Fifo + 1 - QwFrom(s, s.hw)) + (Slots - s.tadr) + (IF s.active THEN 1 ELSE 0)

LEMMA WalkLeftBound ==
  ASSUME NEW s, Formed(s)
  PROVE  WalkLeft(s) \in Nat /\ WalkLeft(s) < WalkTurns
<1>1. /\ QwFrom(s, s.hw) \in 0..Fifo + 1 /\ s.tadr \in 0..Slots
      /\ Fifo \in Nat /\ Slots \in Nat
  BY FromHighWater, SizesPositive DEF Formed, RegsOk
<1> QED
  BY <1>1 DEF WalkLeft, WalkTurns

\* What a turn of the walk does besides feeding.
Walks(s, t) ==
  /\ ~Spent(s) => WalkLeft(t) + 1 <= WalkLeft(s)
  /\ Spent(s) => t = s
  /\ ~s.chain =>
       /\ Feeding(s) => (t.str = s.str /\ t.active = s.active) \/ t.madr = Quads
       /\ ~Feeding(s) => t.madr = s.madr /\ Len(t.in) = Len(s.in)
       /\ s.madr = Quads => t.madr = Quads

LEMMA WalkTurnWalks ==
  ASSUME NEW s, Formed(s)
  PROVE  Walks(s, WalkTurn(s))
<1> DEFINE last == ~s.chain \/ s.tagEnd
           copied == [s EXCEPT !.in = Append(@, s.madr), !.madr = @ + 1, !.qwc = @ - 1]
           tag == [s EXCEPT !.madr = s.tadr * SlotQw, !.qwc = SlotQw, !.tadr = @ + 1,
                            !.tagEnd = (s.tadr = s.published - 1)]
           t == WalkTurn(s)
<1>1. CASE Spent(s)
  <2>1. t = s
    BY <1>1, SpentWalk
  <2> HIDE DEF t
  <2>2. Walks(s, t)
    BY <1>1, <2>1 DEF Walks
  <2> QED
    BY <2>2 DEF t
<1>2. CASE ~Spent(s)
  <2>1. /\ MayWalk(s) /\ s.active = TRUE
        /\ s.madr \in Nat /\ s.qwc \in Nat /\ s.tadr \in Nat /\ Len(s.in) \in Nat
        /\ s.in \in Seq(0..Quads - 1) /\ s.tadr <= Slots /\ Quads \in Nat
        /\ (s.chain = FALSE => s.madr + s.qwc = Quads) /\ s.chain \in BOOLEAN
        /\ s.published \in 1..Slots
    BY <1>2, FormedNumbers, QuadUnits DEF Spent, MayWalk, Formed, CtlOk, RegsOk
  <2>2. /\ QwFrom(s, s.hw) \in 0..Fifo + 1 /\ QwFrom(s, s.hw) = Len(s.in) - (s.hw \div QwU)
        /\ Fifo \in Nat /\ Slots \in Nat /\ s.hw \div QwU \in Nat
    BY FromHighWater, SizesPositive, FormedNumbers
  <2> DEFINE q == QwFrom(s, s.hw)
  <2>3. WalkLeft(s) = (Fifo + 1 - q) + (Slots - s.tadr) + 1
    BY <2>1 DEF WalkLeft
  <2>4. CASE "toIpu" \notin s.str
    <3>1. t = [s EXCEPT !.active = FALSE]
      BY <2>1, <2>4 DEF WalkTurn
    <3>2. /\ t.active = FALSE /\ t.madr = s.madr /\ t.in = s.in /\ t.hw = s.hw
          /\ t.tadr = s.tadr
      BY <3>1 DEF Formed, Full, AllFields
    <3> HIDE DEF t
    <3>3. WalkLeft(t) = (Fifo + 1 - q) + (Slots - s.tadr) + 0
      BY <3>2 DEF WalkLeft, QwFrom
    <3>4. Walks(s, t)
      <4>1. WalkLeft(t) + 1 <= WalkLeft(s)
        BY <2>1, <2>2, <2>3, <3>3
      <4> QED
        BY <1>2, <2>4, <3>2, <4>1 DEF Walks, Feeding
    <3> QED
      BY <3>4 DEF t
  <2>5. CASE "toIpu" \in s.str /\ s.qwc > 0
    <3>1. Room(s)
      BY <1>2, <2>5 DEF Spent
    <3>2. t = IF copied.qwc = 0 /\ last THEN Complete(copied, "toIpu") ELSE copied
      BY <2>1, <2>5, <3>1 DEF WalkTurn
    <3>3. /\ copied.madr = s.madr + 1 /\ copied.qwc = s.qwc - 1 /\ copied.tadr = s.tadr
          /\ copied.in = Append(s.in, s.madr) /\ copied.hw = s.hw
          /\ copied.str = s.str /\ copied.active = s.active /\ Full(copied)
      BY DEF Formed, Full, AllFields
    <3> HIDE DEF copied, t, last
    <3>4. /\ t.madr = s.madr + 1 /\ t.qwc = s.qwc - 1 /\ t.tadr = s.tadr
          /\ t.in = Append(s.in, s.madr) /\ t.hw = s.hw /\ t.active \in BOOLEAN
          /\ (t.str = s.str /\ t.active = s.active) \/ s.qwc - 1 = 0
      <4>1. /\ Complete(copied, "toIpu").madr = copied.madr
            /\ Complete(copied, "toIpu").qwc = copied.qwc
            /\ Complete(copied, "toIpu").tadr = copied.tadr
            /\ Complete(copied, "toIpu").in = copied.in
            /\ Complete(copied, "toIpu").hw = copied.hw
            /\ Complete(copied, "toIpu").active = FALSE
        BY <3>3 DEF Complete, Full, AllFields
      <4> QED
        BY <2>1, <3>2, <3>3, <4>1
    <3>5. Len(t.in) = Len(s.in) + 1
      <4>1. Len(Append(s.in, s.madr)) = Len(s.in) + 1
        BY <2>1
      <4> QED
        BY <3>4, <4>1
    <3>6. QwFrom(t, t.hw) = q + 1
      <4> DEFINE k == s.hw \div QwU
                 n == Len(s.in)
                 a == Len(t.in)
                 b == QwFrom(t, t.hw)
      <4>1. b = IF a > k THEN a - k ELSE 0
        BY <3>4 DEF QwFrom
      <4>2. k \in Nat /\ n \in Nat /\ q = n - k /\ q \in 0..Fifo + 1
        BY <2>1, <2>2
      <4>3. a = n + 1
        BY <3>5
      <4> HIDE DEF k, n, q, a, b
      <4>4. q >= 0
        BY <2>2, <4>2
      <4>5. b = q + 1
        BY <4>1, <4>2, <4>3, <4>4
      <4> QED
        BY <4>5 DEF b
    <3>7. WalkLeft(t) = (Fifo + 1 - (q + 1)) + (Slots - s.tadr) + (IF t.active THEN 1 ELSE 0)
      BY <3>4, <3>6 DEF WalkLeft
    <3>8. WalkLeft(t) + 1 <= WalkLeft(s)
      <4> HIDE DEF q
      <4>1. (IF t.active THEN 1 ELSE 0) <= 1 /\ (IF t.active THEN 1 ELSE 0) \in Nat
        OBVIOUS
      <4>2. q \in 0..Fifo + 1
        BY <2>2 DEF q
      <4> QED
        BY <2>1, <2>2, <2>3, <3>7, <4>1, <4>2
    <3>9. s.chain = FALSE => (t.str = s.str /\ t.active = s.active) \/ t.madr = Quads
      BY <2>1, <3>4
    <3>10. s.chain = FALSE => s.madr # Quads
      BY <2>1, <2>5
    <3>11. Walks(s, t)
      BY <1>2, <2>1, <2>5, <3>8, <3>9, <3>10 DEF Walks, Feeding
    <3> QED
      BY <3>11 DEF t
  <2>6. CASE "toIpu" \in s.str /\ ~ (s.qwc > 0)
    <3>1. t = IF last \/ s.tadr >= s.published THEN Complete(s, "toIpu") ELSE tag
      BY <2>1, <2>6 DEF WalkTurn
    <3>2. /\ tag.tadr = s.tadr + 1 /\ tag.in = s.in /\ tag.hw = s.hw /\ tag.active = s.active
          /\ Complete(s, "toIpu").madr = s.madr /\ Complete(s, "toIpu").tadr = s.tadr
          /\ Complete(s, "toIpu").in = s.in /\ Complete(s, "toIpu").hw = s.hw
          /\ Complete(s, "toIpu").active = FALSE
      BY DEF Formed, Full, AllFields, Complete
    <3>3. s.chain = FALSE => last /\ s.madr = Quads
      BY <2>1, <2>6
    <3> HIDE DEF tag, t, last
    <3>4. t.in = s.in /\ t.hw = s.hw
      BY <3>1, <3>2
    <3>5. QwFrom(t, t.hw) = q
      BY <3>4 DEF QwFrom
    <3>6. \/ t.tadr = s.tadr /\ t.active = FALSE
          \/ t.tadr = s.tadr + 1 /\ t.active = TRUE
      BY <2>1, <3>1, <3>2
    <3>7. WalkLeft(t) + 1 <= WalkLeft(s)
      <4>1. WalkLeft(t) = (Fifo + 1 - q) + (Slots - t.tadr) + (IF t.active THEN 1 ELSE 0)
        BY <3>5 DEF WalkLeft
      <4> HIDE DEF q
      <4>2. q \in 0..Fifo + 1
        BY <2>2 DEF q
      <4> DEFINE f == Fifo + 1 - q
                 j == Slots - s.tadr
      <4>3. f \in Int /\ j \in Int /\ WalkLeft(s) = f + j + 1
        BY <2>1, <2>2, <2>3, <4>2
      <4>4. CASE t.tadr = s.tadr /\ t.active = FALSE
        <5>1. WalkLeft(t) = f + j + 0
          BY <4>1, <4>4
        <5> HIDE DEF f, j
        <5> QED
          BY <4>3, <5>1
      <4>5. CASE t.tadr = s.tadr + 1 /\ t.active = TRUE
        <5>1. Slots - (s.tadr + 1) = j - 1
          BY <2>1, SizesPositive
        <5>2. WalkLeft(t) = f + (j - 1) + 1
          BY <4>1, <4>5, <5>1
        <5> HIDE DEF f, j
        <5> QED
          BY <4>3, <5>2
      <4> QED
        BY <3>6, <4>4, <4>5
    <3>8. s.chain = FALSE => t.madr = Quads
      BY <3>1, <3>2, <3>3
    <3>9. Walks(s, t)
      BY <1>2, <2>1, <2>6, <3>7, <3>8 DEF Walks, Feeding
    <3> QED
      BY <3>9 DEF t
  <2> QED
    BY <2>4, <2>5, <2>6
<1> QED
  BY <1>1, <1>2

\* Where the input delivered ends, and that IPU_BP can name the retry point
\* from there.
Edge(s) == s.madr * QwU
Nameable(s) == Edge(s) <= Mark(s) + (Fifo + 1) * QwU

\* It can, or the chain will bound it, or nothing more is to come, or all
\* there is to come may come.
Supplied(s) == Nameable(s) \/ s.chain \/ s.madr = Quads \/ Feeding(s)

LEMMA DepthNumbers == (Fifo + 1) * QwU \in Nat /\ Fifo * QwU \in Nat
                      /\ (Fifo + 1) * QwU = Fifo * QwU + QwU
BY SizesPositive, Product

LEMMA SuppliedOn ==
  ASSUME NEW s, NEW t, Formed(s), Formed(t), Supplied(s), SameCtl(s, t),
         t.madr = s.madr, t.active = s.active, "toIpu" \in s.str => "toIpu" \in t.str,
         Mark(s) <= Mark(t)
  PROVE  Supplied(t)
<1>1. Mark(s) \in Nat /\ Mark(t) \in Nat /\ s.madr * QwU \in Nat
  BY PlaceNumbers
<1>2. Nameable(s) => Nameable(t)
  <2> SUFFICES ASSUME Nameable(s) PROVE Nameable(t)
    OBVIOUS
  <2> DEFINE d == (Fifo + 1) * QwU
             a == s.madr * QwU
             x == Mark(s)
             y == Mark(t)
  <2>1. a <= x + d /\ d \in Nat /\ x \in Nat /\ y \in Nat /\ a \in Nat /\ x <= y
    BY <1>1, DepthNumbers DEF Nameable, Edge
  <2>2. Nameable(t) <=> a <= y + d
    BY DEF Nameable, Edge
  <2> HIDE DEF d, a, x, y
  <2> QED
    BY <2>1, <2>2
<1>3. Feeding(s) => Feeding(t)
  BY DEF Feeding, MayWalk, DmaHeld, SameCtl
<1> QED
  BY <1>2, <1>3 DEF Supplied, SameCtl

LEMMA SpentOn ==
  ASSUME NEW s, NEW t, Apart(s, t), t.hw = s.hw, Spent(s)
  PROVE  Spent(t)
BY DEF Apart, SameCtl, SameIn, SameBits, Spent, MayWalk, DmaHeld, Room, QwFrom

LEMMA WalkTurnSupplies ==
  ASSUME NEW s, NEW t, Formed(s), Walked(s, t), Walks(s, t), Supplied(s)
  PROVE  Supplied(t)
<1>1. SameCtl(s, t) /\ t.snap = s.snap /\ s.chain \in BOOLEAN
  BY DEF Walked, SameDec, Formed, CtlOk
<1>2. CASE s.chain = TRUE
  BY <1>1, <1>2 DEF Supplied, SameCtl
<1>3. CASE s.chain = FALSE
  <2>1. CASE Feeding(s)
    <3>1. (t.str = s.str /\ t.active = s.active) \/ t.madr = Quads
      BY <1>3, <2>1 DEF Walks
    <3>2. t.str = s.str /\ t.active = s.active => Feeding(t)
      BY <1>1, <2>1 DEF Feeding, MayWalk, DmaHeld, SameCtl
    <3> QED
      BY <3>1, <3>2 DEF Supplied
  <2>2. CASE ~Feeding(s)
    <3>1. t.madr = s.madr /\ Len(t.in) = Len(s.in) /\ (s.madr = Quads => t.madr = Quads)
      BY <1>3, <2>2 DEF Walks
    <3>2. Nameable(s) => Nameable(t)
      BY <1>1, <3>1 DEF Nameable, Edge, Mark
    <3> QED
      BY <1>3, <2>2, <3>1, <3>2 DEF Supplied
  <2> QED
    BY <2>1, <2>2
<1> QED
  BY <1>1, <1>2, <1>3

LEMMA AdvanceWalkSpends ==
  ASSUME NEW s, Formed(s)
  PROVE  /\ Spent(AdvanceWalk(s))
         /\ Supplied(s) => Supplied(AdvanceWalk(s))
<1>1. PICK w : /\ w[0] = s /\ AdvanceWalk(s) = w[WalkTurns]
               /\ \A i \in 0..WalkTurns - 1 : w[i + 1] = WalkTurn(w[i])
  BY WalkIsTurns
<1> DEFINE T == {i \in Nat : i <= WalkTurns =>
                   /\ Formed(w[i])
                   /\ Supplied(s) => Supplied(w[i])
                   /\ ~Spent(w[i]) => WalkLeft(w[i]) + i <= WalkLeft(s)}
<1>2. WalkTurns \in Nat /\ WalkLeft(s) \in Nat /\ WalkLeft(s) < WalkTurns
  BY Sizes, WalkLeftBound
<1>3. 0 \in T
  BY <1>1, <1>2
<1>4. ASSUME NEW i \in Nat, i \in T PROVE i + 1 \in T
  <2> SUFFICES ASSUME i + 1 <= WalkTurns
               PROVE  /\ Formed(w[i + 1])
                      /\ Supplied(s) => Supplied(w[i + 1])
                      /\ ~Spent(w[i + 1]) => WalkLeft(w[i + 1]) + (i + 1) <= WalkLeft(s)
    OBVIOUS
  <2> DEFINE a == w[i]
             b == w[i + 1]
  <2>1. /\ Formed(a) /\ (Supplied(s) => Supplied(a)) /\ b = WalkTurn(a)
        /\ (~Spent(a) => WalkLeft(a) + i <= WalkLeft(s))
    <3>1. i \in 0..WalkTurns - 1 /\ i <= WalkTurns
      BY <1>2
    <3> QED
      BY <1>1, <1>4, <3>1
  <2> HIDE DEF a, b
  <2>2. Walked(a, b) /\ Walks(a, b) /\ Formed(b)
    BY <2>1, WalkTurnWalked, WalkTurnWalks DEF Walked
  <2>3. Supplied(a) => Supplied(b)
    BY <2>1, <2>2, WalkTurnSupplies
  <2>4. ASSUME ~Spent(b) PROVE WalkLeft(b) + (i + 1) <= WalkLeft(s)
    <3>1. ~Spent(a)
      BY <2>2, <2>4 DEF Walks
    <3>2. WalkLeft(b) + 1 <= WalkLeft(a)
      BY <2>2, <3>1 DEF Walks
    <3>3. WalkLeft(a) \in Nat /\ WalkLeft(b) \in Nat
      BY <2>1, <2>2, WalkLeftBound
    <3> QED
      BY <1>2, <2>1, <3>1, <3>2, <3>3
  <2> QED
    BY <2>1, <2>2, <2>3, <2>4 DEF a, b
<1>5. WalkTurns \in T
  BY <1>2, <1>3, <1>4, NatInduct
<1> DEFINE b == AdvanceWalk(s)
<1>6. /\ Formed(b) /\ (Supplied(s) => Supplied(b))
      /\ (~Spent(b) => WalkLeft(b) + WalkTurns <= WalkLeft(s))
  BY <1>1, <1>2, <1>5
<1> HIDE DEF b
<1>7. WalkLeft(b) \in Nat
  BY <1>6, WalkLeftBound
<1>8. Spent(b)
  BY <1>2, <1>6, <1>7
<1> QED
  BY <1>6, <1>8 DEF b

-----------------------------------------------------------------------------
(* What the decoder reads is the stream where it stands *)

LEMMA UnitIs ==
  ASSUME NEW s, NEW i \in Nat, Formed(s), i < Avail(s)
  PROVE  UnitAt(s, i) = Place(s) + i
<1> DEFINE n == Len(s.in)
           p == s.pos
           at == s.pos + i
           k == at \div QwU
           r == at % QwU
           a == s.madr
<1>1. /\ n \in Nat /\ p \in Nat /\ a \in Nat /\ n <= a /\ QwU \in Nat \ {0} /\ at \in Nat
      /\ n * QwU \in Nat
  BY FormedNumbers, SizesPositive, Product
<1>2. at < n * QwU
  <2>1. Avail(s) = IF n * QwU > p THEN n * QwU - p ELSE 0
    BY DEF Avail
  <2> DEFINE y == n * QwU
  <2>2. y \in Nat /\ at = p + i
    BY <1>1
  <2> HIDE DEF y, n, p, at
  <2> QED
    BY <1>1, <2>1, <2>2 DEF y
<1>3. k \in Nat /\ r \in 0..QwU - 1 /\ at = k * QwU + r
  BY <1>1, Quotient
<1>4. \A j \in 1..n : s.in[j] = a - n + j - 1
  BY DEF Formed, FifoOk
<1>5. UnitAt(s, i) = s.in[k + 1] * QwU + r
  BY DEF UnitAt
<1>6. Place(s) = (a - n) * QwU + p
  BY DEF Place
<1>7. at = p + i
  OBVIOUS
<1> HIDE DEF n, p, at, k, r, a
<1>8. k < n
  <2>1. SUFFICES ASSUME n <= k PROVE FALSE
    BY <1>1, <1>3
  <2>2. n * QwU <= k * QwU /\ k * QwU \in Nat
    BY <1>1, <1>3, <2>1, Product
  <2> QED
    BY <1>1, <1>2, <1>3, <2>2
<1>9. s.in[k + 1] = (a - n) + k
  <2>1. k + 1 \in 1..n
    BY <1>1, <1>3, <1>8
  <2>2. s.in[k + 1] = a - n + (k + 1) - 1
    BY <1>4, <2>1
  <2> QED
    BY <1>1, <1>3, <2>2
<1> DEFINE b == a - n
<1>10. b \in Nat
  BY <1>1
<1>11. s.in[k + 1] = b + k /\ Place(s) = b * QwU + p
  BY <1>6, <1>9
<1> HIDE DEF b
<1>12. (b + k) * QwU = b * QwU + k * QwU /\ b * QwU \in Nat /\ k * QwU \in Nat
  BY <1>1, <1>3, <1>10, Product
<1>13. UnitAt(s, i) = b * QwU + k * QwU + r
  BY <1>5, <1>11, <1>12
<1> QED
  BY <1>1, <1>3, <1>7, <1>11, <1>12, <1>13

LEMMA ZeroAheadIs ==
  ASSUME NEW s, NEW n \in Nat, Formed(s), n <= Avail(s)
  PROVE  ZeroAhead(s, n) <=> ZRun(zeros, Place(s), n)
<1> DEFINE p == Place(s)
<1>1. p \in Nat /\ Avail(s) \in Nat
  BY PlaceNumbers
<1>2. \A i \in 0..n - 1 : UnitAt(s, i) = p + i
  BY <1>1, UnitIs
<1> HIDE DEF p
<1>3. ASSUME ZeroAhead(s, n), NEW j \in p..p + n - 1 PROVE j \in zeros
  <2>1. j - p \in 0..n - 1 /\ p + (j - p) = j
    BY <1>1
  <2> QED
    BY <1>2, <1>3, <2>1 DEF ZeroAhead
<1>4. ASSUME ZRun(zeros, p, n), NEW i \in 0..n - 1 PROVE UnitAt(s, i) \in zeros
  <2>1. p + i \in p..p + n - 1
    BY <1>1
  <2> QED
    BY <1>2, <1>4, <2>1 DEF ZRun
<1> QED
  BY <1>3, <1>4 DEF ZeroAhead, ZRun, p

\* What reading on leaves alone.
Reads(s, t) ==
  Formed(t) /\ SameCtl(s, t) /\ SameInput(s, t) /\ SameBits(s, t) /\ SameCmd(s, t)

LEMMA ReadsOn ==
  ASSUME NEW s, NEW t, NEW u, Reads(s, t), Reads(t, u)
  PROVE  Reads(s, u)
BY DEF Reads, SameCtl, SameInput, SameBits, SameCmd

Furthest(a, b) == IF a > b THEN a ELSE b

LEMMA AdvanceReads ==
  ASSUME NEW s, NEW n \in Nat \ {0}, Formed(s), n <= Avail(s)
  PROVE  LET t == Advance(s, n)
         IN /\ Reads(s, t) /\ Place(t) = Place(s) + n /\ Mark(t) = Mark(s)
            /\ Reach(t) = Furthest(Place(s) + n, Reach(s)) /\ Avail(t) = Avail(s) - n
<1> DEFINE t == Advance(s, n)
<1>1. Steps(s, t, n) /\ SameCmd(s, t) /\ Mark(t) = Mark(s)
  BY AdvanceSteps
<1>2. Formed(t) /\ Apart(s, t)
  BY AdvanceIs
<1> HIDE DEF t
<1>3. Reads(s, t)
  BY <1>1, <1>2 DEF Reads, Apart, Steps
<1> QED
  BY <1>1, <1>3 DEF Steps, Furthest, t

LEMMA CommitReads ==
  ASSUME NEW s, Formed(s)
  PROVE  LET t == CommitScan(s)
         IN /\ Reads(s, t) /\ Place(t) = Place(s) /\ Mark(t) = Place(s)
            /\ Reach(t) = Reach(s) /\ Avail(t) = Avail(s)
<1> DEFINE t == CommitScan(s)
<1>1. Steps(s, t, 0) /\ SameCmd(s, t) /\ t.snap = t.pos
  BY CommitScanSteps
<1>2. SameBits(s, t)
  BY CommitScanIs
<1> HIDE DEF t
<1>3. Place(s) \in Nat /\ Reach(s) \in Nat /\ Place(s) <= Reach(s) /\ Avail(s) \in Nat
  BY PlaceNumbers
<1>4. Place(t) = Place(s) /\ Reach(t) = Reach(s) /\ Avail(t) = Avail(s)
  BY <1>1, <1>3 DEF Steps
<1>5. Mark(t) = Place(t)
  BY <1>1 DEF Mark, Place
<1>6. Reads(s, t)
  BY <1>1, <1>2 DEF Reads, Steps
<1> QED
  BY <1>4, <1>5, <1>6 DEF t

LEMMA AlignedReads ==
  ASSUME NEW s, Formed(s), ByteU <= Avail(s), Place(s) = Mark(s)
  PROVE  LET t == Aligned(s)
         IN /\ Reads(s, t) /\ Place(t) = AlignUp(Place(s)) /\ Mark(t) = Place(t)
            /\ Reach(t) = Furthest(Place(t), Reach(s))
<1> DEFINE odd == s.pos % ByteU
           p == Place(s)
           a == AlignUp(p)
           t == Aligned(s)
<1>1. /\ p \in Nat /\ s.pos \in Nat /\ Avail(s) \in Nat /\ ByteU \in Nat \ {0}
      /\ Reach(s) \in Nat /\ p <= Reach(s)
  BY PlaceNumbers, FormedNumbers, SizesPositive
<1>2. odd \in 0..ByteU - 1
  BY <1>1, Quotient
<1>3. (p % ByteU) = odd
  <2> DEFINE n == s.madr - Len(s.in)
  <2>1. n \in Nat /\ p = n * QwU + s.pos
    BY FormedNumbers DEF Place
  <2> HIDE DEF n, p
  <2> QED
    BY <1>1, <2>1, WholeSizes
<1>4. t = IF odd = 0 THEN s ELSE CommitScan(Advance(s, ByteU - odd))
  BY DEF Aligned
<1> HIDE DEF t, odd
<1>5. a \in Nat /\ p <= a /\ (a % ByteU) = 0 /\ \A x \in Nat : p <= x /\ (x % ByteU) = 0 => a <= x
  BY <1>1, Ceiling
<1>6. CASE odd = 0
  <2>1. a = p
    <3>1. a <= p
      BY <1>1, <1>3, <1>5, <1>6
    <3> HIDE DEF a, p
    <3> QED
      BY <1>1, <1>5, <3>1
  <2>2. t = s
    BY <1>4, <1>6
  <2>3. Reads(s, t)
    BY <2>2 DEF Reads, SameCtl, SameInput, SameBits, SameCmd
  <2>4. Reach(s) = Furthest(p, Reach(s))
    BY <1>1 DEF Furthest
  <2> QED
    BY <2>1, <2>2, <2>3, <2>4 DEF t
<1>7. CASE odd # 0
  <2> DEFINE n == ByteU - odd
             u == Advance(s, n)
  <2>1. n \in Nat \ {0} /\ n <= Avail(s)
    BY <1>1, <1>2, <1>7
  <2>2. t = CommitScan(u)
    BY <1>4, <1>7
  <2>3. a = p + n
    <3> DEFINE k == p \div ByteU
    <3>2. k \in Nat /\ p = k * ByteU + odd /\ k * ByteU \in Nat
      <4>1. k \in Nat /\ p = k * ByteU + (p % ByteU)
        BY <1>1, Quotient
      <4> HIDE DEF k
      <4>2. k * ByteU \in Nat
        BY <1>1, <4>1, Product
      <4> QED
        BY <1>3, <4>1, <4>2
    <3>3. (k + 1) * ByteU = k * ByteU + ByteU /\ (((k + 1) * ByteU) % ByteU) = 0
      <4>1. k + 1 \in Nat
        BY <3>2
      <4> HIDE DEF k
      <4>2. (k + 1) * ByteU = k * ByteU + ByteU
        BY <1>1, <3>2, Product
      <4>3. (((k + 1) * ByteU) % ByteU) = 0
        BY <1>1, <4>1, WholeTimes
      <4> QED
        BY <4>2, <4>3
    <3> DEFINE b == k * ByteU
    <3>4. b \in Nat /\ p = b + odd /\ ((b + ByteU) % ByteU) = 0 /\ (b % ByteU) = 0
      <4> HIDE DEF k
      <4> QED
        BY <1>1, <3>2, <3>3, WholeTimes
    <3> HIDE DEF b, k, p, a
    <3>5. a <= b + ByteU
      <4>1. b + ByteU \in Nat /\ p <= b + ByteU
        BY <1>1, <1>2, <3>4
      <4> QED
        BY <1>5, <3>4, <4>1
    <3>6. b < a
      BY <1>1, <1>2, <1>5, <1>7, <3>4
    <3>7. b + ByteU <= a
      BY <1>1, <1>5, <3>4, <3>6, WholeGap
    <3> QED
      BY <1>1, <1>2, <1>5, <3>4, <3>5, <3>7
  <2> HIDE DEF n
  <2>4. /\ Reads(s, u) /\ Place(u) = p + n /\ Mark(u) = Mark(s)
        /\ Reach(u) = Furthest(p + n, Reach(s))
    BY <2>1, AdvanceReads
  <2> HIDE DEF u
  <2>5. /\ Reads(u, t) /\ Place(t) = Place(u) /\ Mark(t) = Place(u) /\ Reach(t) = Reach(u)
    BY <2>2, <2>4, CommitReads DEF Reads
  <2>6. Reads(s, t)
    BY <2>4, <2>5, ReadsOn
  <2> QED
    BY <2>3, <2>4, <2>5, <2>6 DEF t
<1> QED
  BY <1>6, <1>7

-----------------------------------------------------------------------------
(* What the registers tell of the stream, and how a run keeps it *)

\* What a command may have to see before it is past its last retry point.
Span(c) == c.len + (IF c.op = "vdec" THEN Peek ELSE 0)

\* No command but a CSC, which is issued on a channel in normal mode, asks for
\* more than the FIFO and the quadword the decoder is working inside: past
\* that the registers cannot name the retry point (bp_ifc).
Fits == \A c \in Commands : Span(c) <= (Fifo + 1) * QwU

\* A run from the retry point runs out of input.
Lacks(z, s) ==
  /\ s.tail = FALSE => Avail(s) < Span(s.cmd)
  /\ s.tail = TRUE => Avail(s) < Peek
  /\ s.tail = TRUE /\ s.run = FALSE => Avail(s) < ByteU \/ ~ZRun(z, Place(s), ByteU)

\* A command under way: where it began and will end, and what its retry point
\* has behind it.
Behind(z, h, s) ==
  /\ s.cmd \in IF s.chain THEN Commands ELSE Frames
  /\ h.start \in Nat /\ h.expect \in Nat /\ h.expect + Peek <= Units
  /\ EndIs(z, s.cmd, h.start, h.expect)
  /\ s.tail = FALSE => s.run = FALSE /\ Mark(s) = h.start + s.csc * s.cmd.len
  /\ s.tail = TRUE =>
       /\ s.cmd.op = "bdec"
       /\ s.run = FALSE => Mark(s) = h.start + s.cmd.len
       /\ s.run = TRUE => Scanned(z, h.start + s.cmd.len, Mark(s))
  /\ Reach(s) <= h.expect

\* Between two stores: the cursor stands where the last command ended, or at
\* the retry point of a pending one, and the registers name it.
Tells(z, h, s) ==
  /\ Apt(s)
  /\ s.busy = TRUE => /\ Behind(z, h, s) /\ Place(s) = Mark(s)
                      /\ Nameable(s) /\ Lacks(z, s) /\ s.stall = Len(s.in)
  /\ s.busy = FALSE => h.expect \in Nat /\ Place(s) = h.expect /\ Reach(s) = h.expect

\* Inside a run, at each part of the command.
SpotRead(e) ==
  /\ e.s.tail = FALSE /\ e.s.flag = "none" /\ e.left \in 1..e.s.cmd.len
  /\ Place(e.s) = Mark(e.s) + (e.s.cmd.len - e.left)
SpotEmit(e) == e.s.flag = "none" /\ Place(e.s) = Mark(e.s) + e.s.cmd.len
SpotScan(e, run) == e.s.flag = "none" /\ e.s.run = run /\ Place(e.s) = Mark(e.s)
Ended(h, s) == Place(s) = h.expect /\ FlagIs(zeros, s.cmd, h.start, h.expect, s.flag)
SpotTop(h, e) ==
  /\ Ended(h, e.s)
  /\ e.s.tail = FALSE => e.s.cmd.op = "vdec" /\ Place(e.s) = Mark(e.s) + e.s.cmd.len
  /\ e.s.tail = TRUE => Place(e.s) = Mark(e.s)
                        /\ (e.s.run = FALSE => ~ZRun(zeros, Place(e.s), ByteU))
SpotStarved(e) == Spent(e.s) /\ Nameable(e.s) /\ Lacks(zeros, RestoreSnapshot(e.s))

Spot(h, e) ==
  /\ e.at = "read" => SpotRead(e)
  /\ e.at = "emit" => SpotEmit(e)
  /\ e.at = "gate" => SpotScan(e, FALSE)
  /\ e.at = "run" => SpotScan(e, TRUE)
  /\ e.at = "top" => SpotTop(h, e)
  /\ e.at = "done" => Ended(h, e.s)
  /\ e.at = "starved" => SpotStarved(e)

Kept(h, s) == Behind(zeros, h, s) /\ Supplied(s)
At(h, e) == Underway(e) /\ Stage(e) /\ Kept(h, e.s) /\ Spot(h, e)

LEMMA CmdNumbers ==
  ASSUME NEW s, s.cmd \in IF s.chain THEN Commands ELSE Frames
  PROVE  /\ s.cmd.len \in Nat \ {0} /\ s.cmd \in AllCommands
         /\ s.cmd.op = "csc" => /\ s.cmd.mbs \in Nat \ {0} /\ s.cmd.len >= QwU
                                /\ s.cmd \in Frames /\ ~s.chain
         /\ s.cmd.op # "csc" => s.cmd \in Commands /\ s.chain
BY CommandsAssumption DEF AllCommands

LEMMA BehindOn ==
  ASSUME NEW z, NEW h, NEW s, NEW t, Behind(z, h, s), t.chain = s.chain, t.cmd = s.cmd,
         t.tail = s.tail, t.run = s.run, t.csc = s.csc, Mark(t) = Mark(s), Reach(t) <= h.expect
  PROVE  Behind(z, h, t)
BY DEF Behind

LEMMA ReadsKept ==
  ASSUME NEW h, NEW s, NEW t, Formed(s), Kept(h, s), Reads(s, t), Mark(t) = Mark(s),
         Reach(t) <= h.expect
  PROVE  Kept(h, t)
<1>1. Behind(zeros, h, t)
  BY BehindOn DEF Kept, Reads, SameCmd, SameCtl
<1>2. Mark(s) <= Mark(t)
  BY PlaceNumbers
<1>3. Supplied(t)
  BY <1>2, SuppliedOn DEF Kept, Reads, SameInput, SameBits
<1> QED
  BY <1>1, <1>3 DEF Kept

\* The part of a command before its next retry point ends within it.
LEMMA PartEnds ==
  ASSUME NEW z, NEW h, NEW s, Formed(s), Behind(z, h, s), Apt(s), s.busy = TRUE, s.tail = FALSE
  PROVE  /\ s.cmd.len \in Nat \ {0} /\ h.start \in Nat /\ h.expect \in Nat
         /\ Mark(s) + s.cmd.len <= h.expect
         /\ s.cmd.op # "csc" => Mark(s) = h.start
         /\ s.cmd.op \in {"vdec", "setiq"} => Mark(s) + s.cmd.len = h.expect
<1> DEFINE c == s.cmd
           n == c.len
           u == h.start
           x == h.expect
           k == s.csc
<1>1. /\ n \in Nat \ {0} /\ u \in Nat /\ x \in Nat /\ k \in Nat
      /\ Mark(s) = u + k * n /\ EndIs(z, c, u, x)
      /\ (c.op = "csc" => c.mbs \in Nat \ {0} /\ k < c.mbs) /\ (c.op # "csc" => k = 0)
  BY CmdNumbers DEF Behind, Apt, Formed, DecOk
<1>2. CASE c.op = "csc"
  <2>1. x = u + n * c.mbs /\ k < c.mbs /\ c.mbs \in Nat
    BY <1>1, <1>2 DEF EndIs
  <2> DEFINE j == c.mbs
  <2>2. x = u + n * j /\ k < j /\ j \in Nat
    BY <2>1
  <2> HIDE DEF j, n, u, x, k, c
  <2>3. /\ k * n \in Nat /\ (k + 1) * n = k * n + n /\ j * n \in Nat /\ n * j = j * n
        /\ (k + 1) * n <= j * n
    <3>1. k + 1 \in Nat /\ k + 1 <= j
      BY <1>1, <2>2
    <3> QED
      BY <1>1, <2>2, <3>1, Product
  <2> QED
    BY <1>1, <1>2, <2>2, <2>3 DEF c, n, u, x
<1>3. CASE c.op # "csc"
  <2> HIDE DEF n, u, x, k, c
  <2>1. k * n = 0
    BY <1>1, <1>3
  <2>2. Mark(s) = u
    BY <1>1, <2>1
  <2>3. CASE c.op = "bdec"
    <3>1. TailIs(z, u + n, x)
      BY <1>1, <2>3 DEF EndIs, n
    <3>2. u + n \in Nat
      BY <1>1
    <3>3. u + n <= x
      BY <3>1, <3>2, TailAfter
    <3> QED
      BY <1>1, <2>2, <2>3, <3>3 DEF c, n, u, x
  <2>4. CASE c.op # "bdec"
    <3>1. x = u + n
      BY <1>1, <1>3, <2>4 DEF EndIs, n
    <3> QED
      BY <1>1, <2>2, <2>4, <3>1 DEF c, n, u, x
  <2> QED
    BY <2>3, <2>4
<1> QED
  BY <1>2, <1>3

LEMMA ReadTurnAt ==
  ASSUME NEW h, NEW e, At(h, e), e.at = "read", Avail(e.s) >= 1
  PROVE  Kept(h, ReadTurn(e).s) /\ Spot(h, ReadTurn(e)) /\ Place(ReadTurn(e).s) = Place(e.s) + 1
         /\ ReadTurn(e).s.csc = e.s.csc /\ ReadTurn(e).s.tail = e.s.tail
<1> DEFINE s == e.s
           p == [s EXCEPT !.pred = @ + 1]
           b == IF s.cmd.op = "bdec" /\ e.left = s.cmd.len THEN p ELSE s
           a == Advance(b, 1)
           f == ReadTurn(e)
<1>1. /\ f.s = a /\ f.left = e.left - 1
      /\ f.at = IF e.left > 1 THEN "read"
                ELSE CASE s.cmd.op = "vdec" -> "top"
                       [] s.cmd.op = "setiq" -> "done"
                       [] OTHER -> "emit"
  BY DEF ReadTurn
<1>2. /\ Formed(s) /\ Kept(h, s) /\ SpotRead(e) /\ Apt(s) /\ s.busy = TRUE
      /\ s.cmd.op \in {"vdec", "setiq", "bdec", "csc"}
  BY DEF At, Underway, Stage, Spot
<1>3. /\ Reads(s, b) /\ b.snap = s.snap /\ b.pos = s.pos /\ b.hw = s.hw
      /\ b.in = s.in /\ b.madr = s.madr /\ Avail(b) = Avail(s)
  <2> HIDE DEF s
  <2>1. /\ Formed(p) /\ Apart(s, p) /\ SameCmd(s, p) /\ p.pos = s.pos /\ p.hw = s.hw
        /\ p.snap = s.snap
    BY <1>2, PredIs
  <2> HIDE DEF p
  <2>2. Avail(p) = Avail(s)
    BY <2>1, ApartAvail
  <2>3. Reads(s, p) /\ p.in = s.in /\ p.madr = s.madr
    BY <2>1 DEF Reads, Apart, SameIn, SameInput
  <2>4. Reads(s, s)
    BY <1>2 DEF Reads, SameCtl, SameInput, SameBits, SameCmd
  <2> QED
    BY <2>1, <2>2, <2>3, <2>4
<1> HIDE DEF b, f
<1>4. Place(b) = Place(s) /\ Mark(b) = Mark(s) /\ Reach(b) = Reach(s) /\ Formed(b)
  BY <1>3 DEF Place, Mark, Reach, Reads
<1>5. /\ Reads(b, a) /\ Place(a) = Place(b) + 1 /\ Mark(a) = Mark(b)
      /\ Reach(a) = Furthest(Place(b) + 1, Reach(b))
  <2>1. Avail(b) \in Nat /\ 1 \in Nat \ {0}
    BY <1>4, PlaceNumbers
  <2>2. 1 <= Avail(b)
    BY <1>3, <2>1
  <2> QED
    BY <1>4, <2>1, <2>2, AdvanceReads
<1> HIDE DEF a
<1>6. Reads(s, a)
  BY <1>3, <1>5, ReadsOn
<1> DEFINE n == s.cmd.len
           x == h.expect
           q == Mark(s)
           l == e.left
<1>7. /\ n \in Nat \ {0} /\ x \in Nat /\ q \in Nat /\ q + n <= x /\ l \in 1..n
      /\ Place(s) = q + (n - l) /\ h.start \in Nat
      /\ s.tail = FALSE /\ s.flag = "none"
      /\ (s.cmd.op \in {"vdec", "setiq"} => q + n = x /\ q = h.start)
      /\ Reach(s) <= x /\ Reach(s) \in Nat
  <2>1. /\ s.tail = FALSE /\ s.flag = "none" /\ l \in 1..n /\ Place(s) = q + (n - l)
        /\ Behind(zeros, h, s)
    BY <1>2 DEF SpotRead, Kept
  <2>2. q \in Nat /\ Reach(s) \in Nat
    BY <1>2, PlaceNumbers
  <2>3. Reach(s) <= x
    BY <2>1 DEF Behind
  <2> HIDE DEF n, x, q, l, s
  <2>4. /\ s.cmd.len \in Nat \ {0} /\ h.start \in Nat /\ h.expect \in Nat
        /\ Mark(s) + s.cmd.len <= h.expect
        /\ s.cmd.op # "csc" => Mark(s) = h.start
        /\ s.cmd.op \in {"vdec", "setiq"} => Mark(s) + s.cmd.len = h.expect
    BY <1>2, <2>1, PartEnds
  <2> QED
    BY <2>1, <2>2, <2>3, <2>4 DEF n, x, q
<1>8. Place(a) = q + (n - (l - 1)) /\ Mark(a) = q /\ Place(a) = Place(s) + 1
  <2> HIDE DEF n, q, l
  <2>1. Place(a) = Place(s) + 1 /\ Mark(a) = q
    BY <1>4, <1>5 DEF q
  <2> QED
    BY <1>7, <2>1
<1>9. Reach(a) <= x
  <2> HIDE DEF n, q, l, x
  <2>1. Place(s) + 1 <= x
    BY <1>7
  <2> QED
    BY <1>4, <1>5, <1>7, <2>1 DEF Furthest
<1>10. /\ a.cmd = s.cmd /\ a.tail = FALSE /\ a.flag = "none" /\ a.csc = s.csc /\ a.busy = s.busy
  BY <1>6, <1>7 DEF Reads, SameCmd
<1>11. Kept(h, a)
  BY <1>2, <1>6, <1>8, <1>9, ReadsKept
<1>12. CASE l > 1
  <2>1. f.at = "read" /\ f.left \in 1..n /\ Place(a) = q + (n - f.left)
    BY <1>1, <1>7, <1>8, <1>12
  <2>2. Spot(h, f)
    BY <1>1, <1>8, <1>10, <2>1 DEF Spot, SpotRead
  <2> QED
    BY <1>1, <1>7, <1>8, <1>10, <1>11, <2>2 DEF f
<1>13. CASE ~(l > 1)
  <2>1. Place(a) = q + n
    <3> HIDE DEF n, q, l
    <3>1. l = 1
      BY <1>7, <1>13
    <3> QED
      BY <1>7, <1>8, <3>1
  <2>2. s.cmd.op \in {"vdec", "setiq"} => Ended(h, a)
    <3>1. s.cmd.op # "bdec" => FlagIs(zeros, a.cmd, h.start, h.expect, a.flag)
      BY <1>10 DEF FlagIs
    <3> QED
      BY <1>7, <2>1, <3>1 DEF Ended
  <2>3. /\ f.at = "top" => s.cmd.op = "vdec"
        /\ f.at = "done" => s.cmd.op = "setiq"
        /\ f.at \in {"top", "done", "emit"}
    BY <1>1, <1>13
  <2>4. Spot(h, f)
    BY <1>1, <1>8, <1>10, <2>1, <2>2, <2>3 DEF Spot, SpotTop, SpotEmit
  <2> QED
    BY <1>1, <1>7, <1>8, <1>10, <1>11, <2>4 DEF f
<1> QED
  BY <1>12, <1>13

LEMMA EmitTurnAt ==
  ASSUME NEW h, NEW e, At(h, e), e.at = "emit"
  PROVE  Kept(h, EmitTurn(e).s) /\ Spot(h, EmitTurn(e)) /\ Place(EmitTurn(e).s) = Place(e.s)
         /\ EmitTurn(e).s.csc = (IF e.s.cmd.op = "csc" THEN e.s.csc + 1 ELSE e.s.csc)
         /\ e.s.tail = FALSE /\ e.s.cmd.op \in {"bdec", "csc"}
         /\ EmitTurn(e).s.tail = (e.s.cmd.op = "bdec")
<1> DEFINE s == e.s
           c == s.cmd
           t == Emit(s)
           f == EmitTurn(e)
           n == c.len
           q == Mark(s)
           x == h.expect
<1>1. /\ f.s = t /\ f.left = n
      /\ f.at = IF c.op = "bdec" THEN "gate" ELSE IF s.csc + 1 = c.mbs THEN "done" ELSE "read"
  BY DEF EmitTurn
<1>2. /\ Formed(s) /\ Behind(zeros, h, s) /\ Supplied(s) /\ Apt(s) /\ s.busy = TRUE
      /\ s.tail = FALSE /\ c.op \in {"bdec", "csc"} /\ s.flag = "none" /\ Place(s) = q + n
  BY DEF At, Underway, Stage, Spot, SpotEmit, Kept
<1>3. /\ Formed(t) /\ SameCtl(s, t) /\ SameIn(s, t)
      /\ t.pos = s.pos /\ t.hw = s.hw /\ t.snap = s.pos
      /\ t.cmd = c /\ t.run = s.run /\ t.flag = s.flag
      /\ t.tail = (IF c.op = "bdec" THEN TRUE ELSE s.tail)
      /\ t.csc = (IF c.op = "csc" THEN s.csc + 1 ELSE s.csc)
      /\ "toIpu" \in s.str => "toIpu" \in t.str
  BY <1>2, EmitIs
<1> HIDE DEF t, f
<1>4. Place(t) = Place(s) /\ Mark(t) = Place(s) /\ Reach(t) = Reach(s) /\ t.madr = s.madr
      /\ t.active = s.active
  BY <1>3 DEF Place, Mark, Reach, SameIn
<1>5. /\ n \in Nat \ {0} /\ h.start \in Nat /\ x \in Nat /\ q \in Nat /\ s.csc \in Nat
      /\ (c.op # "csc" => q = h.start)
      /\ s.run = FALSE /\ q = h.start + s.csc * n
      /\ (c.op = "csc" => c.mbs \in Nat \ {0} /\ x = h.start + n * c.mbs)
  <2>1. n \in Nat \ {0} /\ h.start \in Nat /\ x \in Nat /\ (c.op # "csc" => q = h.start)
    <3> HIDE DEF s
    <3> QED
      BY <1>2, PartEnds
  <2>2. q \in Nat /\ s.csc \in Nat
    BY <1>2, PlaceNumbers DEF Formed, DecOk
  <2>3. s.run = FALSE /\ q = h.start + s.csc * n /\ EndIs(zeros, c, h.start, x)
    BY <1>2 DEF Behind
  <2>4. c.op = "csc" => c.mbs \in Nat \ {0} /\ x = h.start + n * c.mbs
    BY <1>2, <2>3, CmdNumbers DEF EndIs, Behind
  <2> QED
    BY <2>1, <2>2, <2>3, <2>4
<1>6. Supplied(t)
  <2>1. Mark(s) <= Mark(t)
    <3> HIDE DEF s, c
    <3>1. Mark(s) = q /\ Mark(t) = q + n
      BY <1>2, <1>4
    <3> HIDE DEF q, n
    <3> QED
      BY <1>5, <3>1
  <2> QED
    BY <1>2, <1>3, <1>4, <2>1, SuppliedOn
<1>7. CASE c.op = "bdec"
  <2>1. t.tail = TRUE /\ t.run = FALSE /\ Mark(t) = h.start + n /\ f.at = "gate"
    BY <1>1, <1>2, <1>3, <1>4, <1>5, <1>7
  <2>2. Behind(zeros, h, t)
    BY <1>2, <1>3, <1>4, <1>7, <2>1 DEF Behind, SameCtl
  <2>3. Spot(h, f)
    BY <1>1, <1>2, <1>3, <1>4, <2>1 DEF Spot, SpotScan
  <2> QED
    BY <1>1, <1>2, <1>3, <1>4, <1>6, <1>7, <2>1, <2>2, <2>3 DEF Kept, f
<1>8. CASE c.op = "csc"
  <2>1. t.tail = FALSE /\ t.csc = s.csc + 1
    BY <1>2, <1>3, <1>8
  <2>2. Mark(t) = h.start + t.csc * n
    <3> DEFINE k == s.csc
               u == h.start
    <3>1. Mark(t) = (u + k * n) + n /\ k \in Nat /\ t.csc = k + 1
      BY <1>2, <1>4, <1>5, <2>1
    <3> HIDE DEF k, u, n
    <3>2. k * n \in Nat /\ (k + 1) * n = k * n + n
      BY <1>5, <3>1, Product
    <3>3. Mark(t) = u + (k * n + n)
      BY <1>5, <3>1, <3>2 DEF u
    <3> QED
      BY <3>1, <3>2, <3>3 DEF u
  <2>3. Behind(zeros, h, t)
    <3>1. t.run = FALSE
      BY <1>3, <1>5
    <3> QED
      BY <1>2, <1>3, <1>4, <2>1, <2>2, <3>1 DEF Behind, SameCtl
  <2>4. Spot(h, f)
    <3>1. CASE s.csc + 1 = c.mbs
      <4>1. f.at = "done"
        BY <1>1, <1>8, <3>1
      <4>2. Place(t) = h.expect
        <5>1. t.csc = c.mbs
          BY <2>1, <3>1
        <5>2. c.mbs * n = n * c.mbs
          BY <1>5, <1>8
        <5> QED
          BY <1>4, <1>5, <1>8, <2>2, <5>1, <5>2
      <4>3. FlagIs(zeros, t.cmd, h.start, h.expect, t.flag)
        BY <1>2, <1>3, <1>8 DEF FlagIs
      <4> QED
        BY <1>1, <4>1, <4>2, <4>3 DEF Spot, Ended
    <3>2. CASE s.csc + 1 # c.mbs
      <4>1. f.at = "read" /\ f.left = n
        BY <1>1, <1>8, <3>2
      <4>2. n \in 1..n /\ Place(t) = Mark(t) + (n - n)
        <5>1. Mark(t) \in Nat
          BY <1>3, PlaceNumbers
        <5> HIDE DEF n
        <5> QED
          BY <1>4, <1>5, <5>1
      <4>3. SpotRead(f)
        BY <1>1, <1>2, <1>3, <2>1, <4>1, <4>2 DEF SpotRead
      <4> QED
        BY <4>1, <4>3 DEF Spot
    <3> QED
      BY <3>1, <3>2
  <2> QED
    BY <1>1, <1>2, <1>4, <1>6, <1>8, <2>1, <2>3, <2>4 DEF Kept, f
<1> QED
  BY <1>2, <1>7, <1>8

LEMMA GateTurnAt ==
  ASSUME NEW h, NEW e, At(h, e), e.at = "gate", Avail(e.s) >= ByteU
  PROVE  Kept(h, GateTurn(e).s) /\ Spot(h, GateTurn(e)) /\ Place(e.s) <= Place(GateTurn(e).s)
         /\ GateTurn(e).s.csc = e.s.csc /\ GateTurn(e).s.tail = e.s.tail
<1> DEFINE s == e.s
           b == [s EXCEPT !.run = TRUE]
           t == Aligned(b)
           f == GateTurn(e)
           v == h.start + s.cmd.len
           x == h.expect
<1>1. /\ f.s = IF ~ZeroAhead(s, ByteU) THEN s ELSE t
      /\ f.at = IF ~ZeroAhead(s, ByteU) THEN "top" ELSE "run"
  BY DEF GateTurn, At, Underway
<1>2. /\ Formed(s) /\ Behind(zeros, h, s) /\ Supplied(s) /\ s.busy = TRUE
      /\ s.tail = TRUE /\ s.cmd.op = "bdec" /\ s.flag = "none" /\ s.run = FALSE
      /\ Place(s) = Mark(s)
  BY DEF At, Underway, Stage, Spot, SpotScan, Kept
<1>3. /\ v \in Nat /\ x \in Nat /\ Place(s) = v /\ TailIs(zeros, v, x) /\ Reach(s) <= x
      /\ Reach(s) \in Nat
  <2>1. /\ h.start \in Nat /\ x \in Nat /\ EndIs(zeros, s.cmd, h.start, x) /\ Mark(s) = v
        /\ Reach(s) <= x /\ s.cmd.len \in Nat
    BY <1>2, CmdNumbers DEF Behind
  <2>2. TailIs(zeros, v, x)
    BY <1>2, <2>1 DEF EndIs
  <2> QED
    BY <1>2, <2>1, <2>2, PlaceNumbers
<1>4. ZeroAhead(s, ByteU) <=> ZRun(zeros, v, ByteU)
  <2>1. Avail(s) \in Nat /\ ByteU \in Nat
    BY <1>2, PlaceNumbers, SizesPositive
  <2> QED
    BY <1>2, <1>3, <2>1, ZeroAheadIs
<1>5. CASE ~ZeroAhead(s, ByteU)
  <2>1. f.s = s /\ f.at = "top"
    BY <1>1, <1>5
  <2> HIDE DEF f
  <2>2. x = v /\ ~ZRun(zeros, v, ByteU)
    BY <1>3, <1>4, <1>5 DEF TailIs
  <2>3. FlagIs(zeros, s.cmd, h.start, h.expect, s.flag)
    BY <1>2, <2>2 DEF FlagIs
  <2>4. SpotTop(h, f)
    BY <1>2, <1>3, <2>1, <2>2, <2>3 DEF SpotTop, Ended
  <2>5. Spot(h, f)
    BY <2>1, <2>4 DEF Spot
  <2> QED
    BY <1>2, <1>3, <2>1, <2>5 DEF Kept, f
<1>6. CASE ZeroAhead(s, ByteU)
  <2>1. f.s = t /\ f.at = "run"
    BY <1>1, <1>6
  <2>2. /\ Formed(b) /\ Apart(s, b) /\ b.pos = s.pos /\ b.hw = s.hw /\ b.snap = s.snap
        /\ b.busy = s.busy /\ b.cmd = s.cmd /\ b.tail = s.tail /\ b.run = TRUE
        /\ b.csc = s.csc /\ b.stall = s.stall /\ b.flag = s.flag
    BY <1>2, RunningIs
  <2> HIDE DEF b, f
  <2>3. /\ Place(b) = v /\ Mark(b) = v /\ Reach(b) = Reach(s) /\ ByteU <= Avail(b)
    <3>1. Avail(b) = Avail(s)
      BY <2>2, ApartAvail
    <3>2. ByteU <= Avail(b)
      BY <1>2, <3>1, PlaceNumbers, SizesPositive
    <3> QED
      BY <1>2, <1>3, <2>2, <3>2 DEF Place, Mark, Reach, Apart, SameIn
  <2>4. /\ Reads(b, t) /\ Place(t) = AlignUp(v) /\ Mark(t) = AlignUp(v)
        /\ Reach(t) = Furthest(AlignUp(v), Reach(s))
    BY <2>2, <2>3, AlignedReads
  <2> HIDE DEF t
  <2>5. Scanned(zeros, v, AlignUp(v)) /\ AlignUp(v) \in Nat /\ v <= AlignUp(v)
    BY <1>3, <1>4, <1>6, ScannedFirst, Ceiling
  <2>6. AlignUp(v) <= x
    BY <1>3, <2>5, ScannedBelow
  <2>7. Reach(t) <= x
    BY <1>3, <2>4, <2>6 DEF Furthest
  <2>8. t.cmd = s.cmd /\ t.tail = TRUE /\ t.run = TRUE /\ t.csc = s.csc /\ t.flag = "none"
        /\ t.chain = s.chain
    BY <1>2, <2>2, <2>4 DEF Reads, SameCmd, SameCtl, Apart
  <2>9. Behind(zeros, h, t)
    <3>1. Scanned(zeros, h.start + s.cmd.len, Mark(t))
      BY <2>4, <2>5
    <3> QED
      BY <1>2, <2>7, <2>8, <3>1 DEF Behind
  <2>10. Supplied(t)
    <3>1. SameCtl(s, t) /\ t.madr = s.madr /\ t.active = s.active /\ t.str = s.str
      BY <2>2, <2>4 DEF Reads, Apart, SameCtl, SameIn, SameInput, SameBits
    <3>2. Mark(s) <= Mark(t) /\ Formed(t)
      BY <1>2, <1>3, <2>4, <2>5 DEF Reads
    <3> QED
      BY <1>2, <3>1, <3>2, SuppliedOn
  <2>11. Spot(h, f)
    BY <2>1, <2>4, <2>8 DEF Spot, SpotScan
  <2>12. Place(s) <= Place(t)
    BY <1>3, <2>4, <2>5
  <2> QED
    BY <1>2, <2>1, <2>8, <2>9, <2>10, <2>11, <2>12 DEF Kept, f
<1> QED
  BY <1>5, <1>6

LEMMA RunTurnAt ==
  ASSUME NEW h, NEW e, At(h, e), e.at = "run", Avail(e.s) >= Peek
  PROVE  LET f == RunTurn(e)
         IN /\ Kept(h, f.s) /\ Spot(h, f) /\ f.s.csc = e.s.csc /\ f.s.tail = e.s.tail
            /\ \/ f.at = "run" /\ Place(f.s) = Place(e.s) + ByteU
               \/ f.at = "top" /\ Place(f.s) = Place(e.s)
<1> DEFINE s == e.s
           a == Advance(s, ByteU)
           t == CommitScan(a)
           flag == IF ZeroAhead(s, Peek - ByteU) THEN "scd" ELSE "ecd"
           b == [s EXCEPT !.flag = flag]
           f == RunTurn(e)
           v == h.start + s.cmd.len
           x == h.expect
           p == Place(s)
<1>1. /\ ZeroAhead(s, Peek) => f.s = t /\ f.at = "run"
      /\ ~ZeroAhead(s, Peek) => f.s = b /\ f.at = "top"
  BY RunTurnIs DEF At, Underway, Formed, Full, AllFields
<1>2. /\ Formed(s) /\ Kept(h, s) /\ Behind(zeros, h, s) /\ Supplied(s) /\ s.busy = TRUE
      /\ s.tail = TRUE /\ s.cmd.op = "bdec" /\ s.flag = "none" /\ s.run = TRUE
      /\ p = Mark(s)
  BY DEF At, Underway, Stage, Spot, SpotScan, Kept
<1>3. /\ v \in Nat /\ x \in Nat /\ TailIs(zeros, v, x) /\ Reach(s) <= x /\ Reach(s) \in Nat
      /\ Scanned(zeros, v, p) /\ p \in Nat
  <2>1. /\ h.start \in Nat /\ x \in Nat /\ EndIs(zeros, s.cmd, h.start, x)
        /\ Scanned(zeros, v, p) /\ Reach(s) <= x /\ s.cmd.len \in Nat
    BY <1>2, CmdNumbers DEF Behind
  <2>2. TailIs(zeros, v, x)
    BY <1>2, <2>1 DEF EndIs
  <2> QED
    BY <1>2, <2>1, <2>2, PlaceNumbers
<1>4. /\ ZeroAhead(s, Peek) <=> ZRun(zeros, p, Peek)
      /\ ZeroAhead(s, Peek - ByteU) <=> ZRun(zeros, p, Peek - ByteU)
  <2>1. Avail(s) \in Nat /\ ByteU \in Nat /\ Peek \in Nat /\ ByteU <= Peek
    BY <1>2, PlaceNumbers, SizesPositive, ByteBelowPeek
  <2>2. Peek - ByteU \in Nat /\ Peek - ByteU <= Avail(s) /\ Peek <= Avail(s)
    BY <2>1
  <2> QED
    BY <1>2, <2>1, <2>2, ZeroAheadIs
<1>5. CASE ZeroAhead(s, Peek)
  <2>1. f.s = t /\ f.at = "run"
    BY <1>1, <1>5
  <2> HIDE DEF f
  <2>2. p + ByteU <= x /\ Scanned(zeros, v, p + ByteU) /\ ByteU \in Nat \ {0}
    BY <1>3, <1>4, <1>5, ScannedBelow, ScannedStep, SizesPositive
  <2>3. ByteU <= Avail(s)
    BY <1>2, PlaceNumbers, SizesPositive, ByteBelowPeek
  <2>4. /\ Reads(s, a) /\ Place(a) = p + ByteU /\ Reach(a) = Furthest(p + ByteU, Reach(s))
    BY <1>2, <2>2, <2>3, AdvanceReads
  <2> HIDE DEF a, p
  <2>5. /\ Reads(a, t) /\ Place(t) = p + ByteU /\ Mark(t) = p + ByteU /\ Reach(t) = Reach(a)
    BY <2>4, CommitReads DEF Reads
  <2> HIDE DEF t
  <2>6. Reads(s, t)
    BY <2>4, <2>5, ReadsOn
  <2>7. Reach(t) <= x
    BY <1>3, <2>2, <2>4, <2>5 DEF Furthest
  <2>8. t.cmd = s.cmd /\ t.tail = TRUE /\ t.run = TRUE /\ t.csc = s.csc /\ t.flag = "none"
        /\ t.chain = s.chain
    BY <1>2, <2>6 DEF Reads, SameCmd, SameCtl
  <2>9. Behind(zeros, h, t)
    <3>1. Scanned(zeros, h.start + s.cmd.len, Mark(t))
      BY <2>2, <2>5
    <3> QED
      BY <1>2, <2>7, <2>8, <3>1 DEF Behind
  <2>10. Supplied(t)
    <3>1. SameCtl(s, t) /\ t.madr = s.madr /\ t.active = s.active /\ t.str = s.str /\ Formed(t)
      BY <2>6 DEF Reads, SameInput, SameBits
    <3>2. Mark(s) <= Mark(t)
      BY <1>2, <1>3, <2>2, <2>5
    <3> QED
      BY <1>2, <3>1, <3>2, SuppliedOn
  <2>11. Spot(h, f)
    BY <2>1, <2>5, <2>8 DEF Spot, SpotScan
  <2> QED
    BY <1>2, <2>1, <2>5, <2>8, <2>9, <2>10, <2>11 DEF Kept, f, p
<1>6. CASE ~ZeroAhead(s, Peek)
  <2>1. f.s = b /\ f.at = "top"
    BY <1>1, <1>6
  <2>2. flag \in {"none", "ecd", "scd"}
    OBVIOUS
  <2>3. flag = IF ZRun(zeros, p, Peek - ByteU) THEN "scd" ELSE "ecd"
    BY <1>4
  <2> HIDE DEF flag, f, s
  <2>4. /\ Formed(b) /\ Apart(s, b) /\ b.pos = s.pos /\ b.hw = s.hw /\ b.snap = s.snap
        /\ b.busy = s.busy /\ b.cmd = s.cmd /\ b.tail = s.tail /\ b.run = s.run
        /\ b.csc = s.csc /\ b.stall = s.stall /\ b.flag = flag
    BY <1>2, <2>2, FlaggedIs
  <2> HIDE DEF b
  <2>5. Place(b) = p /\ Mark(b) = p /\ Reach(b) = Reach(s)
    BY <1>2, <2>4 DEF Place, Mark, Reach, Apart, SameIn, p
  <2>6. x = p
    BY <1>3, <1>4, <1>6, ScannedBelow
  <2>7. FlagIs(zeros, b.cmd, h.start, h.expect, b.flag)
    BY <1>2, <1>3, <2>3, <2>4, <2>6 DEF FlagIs, Scanned
  <2>8. SpotTop(h, f)
    BY <1>2, <2>1, <2>4, <2>5, <2>6, <2>7 DEF SpotTop, Ended
  <2>9. Spot(h, f)
    BY <2>1, <2>8 DEF Spot
  <2>10. Kept(h, b)
    <3>1. /\ b.chain = s.chain /\ SameCtl(s, b) /\ b.madr = s.madr /\ b.active = s.active
          /\ b.str = s.str
      BY <2>4 DEF Apart, SameCtl, SameIn, SameBits
    <3>2. Behind(zeros, h, b)
      BY <1>2, <1>3, <2>4, <2>5, <3>1, BehindOn
    <3>3. Mark(s) <= Mark(b)
      BY <1>2, <1>3, <2>5
    <3>4. Supplied(b)
      BY <1>2, <2>4, <3>1, <3>3, SuppliedOn
    <3> QED
      BY <3>2, <3>4 DEF Kept
  <2> QED
    BY <1>2, <2>1, <2>4, <2>5, <2>9, <2>10 DEF f, s, p
<1> QED
  BY <1>5, <1>6

\* The cursor is short of n units when the input delivered ends before them.
LEMMA AvailEdge ==
  ASSUME NEW s, NEW n \in Nat \ {0}, Formed(s)
  PROVE  Avail(s) < n <=> Edge(s) < Place(s) + n
<1> DEFINE y == Len(s.in) * QwU
           b == (s.madr - Len(s.in)) * QwU
           p == s.pos
           a == Avail(s)
           g == Edge(s)
           q == Place(s)
<1>1. y \in Nat /\ b \in Nat /\ p \in Nat /\ g = b + y /\ q = b + p
  BY FormedUnits, FormedNumbers, PlaceNumbers DEF Edge, Place
<1>2. a = IF y > p THEN y - p ELSE 0
  BY DEF Avail
<1> HIDE DEF y, b, p, a, g, q
<1>3. a < n <=> g < q + n
  BY <1>1, <1>2
<1> QED
  BY <1>3 DEF a, g, q

LEMMA PeekBelowDepth == Peek <= (Fifo + 1) * QwU
<1>1. Peek <= Fifo * QwU /\ Peek \in Nat /\ QwU \in Nat
  BY UnitsAssumption, SizesPositive
<1> DEFINE d == Fifo * QwU
<1>2. Peek <= d /\ d \in Nat /\ (Fifo + 1) * QwU = d + QwU
  BY <1>1, DepthNumbers
<1> HIDE DEF d
<1> QED
  BY <1>1, <1>2

\* A run that is short of input was given all there is, and leaves behind no
\* more than the registers can name.
LEMMA StarvedSpot ==
  ASSUME NEW h, NEW e, At(h, e), Avail(e.s) < Needed(e), Spent(e.s), Fits
  PROVE  SpotStarved(e)
<1> DEFINE s == e.s
           r == RestoreSnapshot(s)
           q == Mark(s)
           g == Edge(s)
           p == Place(s)
           n == Span(s.cmd)
<1>1. /\ Formed(s) /\ s.snap <= s.hw /\ Behind(zeros, h, s) /\ Supplied(s) /\ Apt(s)
      /\ s.busy = TRUE /\ s.tail \in BOOLEAN /\ s.run \in BOOLEAN
      /\ e.at \in {"read", "gate", "run", "top"} /\ Spot(h, e) /\ Stage(e) /\ Avail(s) \in Nat
  <2>1. Avail(s) \in Nat
    BY PlaceNumbers DEF At, Underway
  <2>2. e.at \notin {"emit", "done", "starved"}
    BY <2>1 DEF Needed
  <2>3. e.at \in {"read", "gate", "run", "top"} /\ Stage(e)
    BY <2>2 DEF At, Stage
  <2>4. Apt(s) /\ s.busy = TRUE
    BY <2>2, <2>3 DEF Stage
  <2> QED
    BY <2>1, <2>3, <2>4 DEF At, Underway, Kept, Formed, DecOk
<1>2. /\ Formed(r) /\ Apart(s, r) /\ SameCmd(s, r) /\ r.pos = s.snap
  BY <1>1, RestoreSnapshotIs
<1>3. /\ q \in Nat /\ p \in Nat /\ g \in Nat /\ ByteU \in Nat \ {0} /\ Peek \in Nat \ {0}
      /\ ByteU <= Peek
  BY <1>1, PlaceNumbers, SizesPositive, ByteBelowPeek DEF Edge
<1> HIDE DEF s, r
<1>4. Edge(r) = g /\ Place(r) = q
  BY <1>2 DEF Edge, Place, Mark, Apart, SameIn
<1>5. s.cmd.len \in Nat \ {0} /\ n \in Nat \ {0} /\ s.cmd.len <= n
      /\ (s.cmd.op = "vdec" => n = s.cmd.len + Peek)
  <2>1. s.cmd.len \in Nat \ {0}
    BY <1>1, CmdNumbers DEF Behind
  <2> QED
    BY <1>3, <2>1 DEF Span
<1>6. \A k \in Nat \ {0} : /\ Avail(s) < k <=> g < p + k
                           /\ Avail(r) < k <=> g < q + k
  <2> SUFFICES ASSUME NEW k \in Nat \ {0}
               PROVE (Avail(s) < k <=> g < p + k) /\ (Avail(r) < k <=> g < q + k)
    OBVIOUS
  <2>1. Avail(s) < k <=> g < p + k
    BY <1>1, AvailEdge
  <2>2. Avail(r) < k <=> g < q + k
    BY <1>2, <1>4, AvailEdge
  <2> QED
    BY <2>1, <2>2
<1> HIDE DEF q, p, g
<1>7. CASE s.tail = FALSE
  <2>1. e.at \in {"read", "top"}
    BY <1>1, <1>7 DEF Stage, s
  <2>2. g < q + n
    <3>1. CASE e.at = "read"
      <4>1. e.left \in 1..s.cmd.len /\ p = q + (s.cmd.len - e.left)
        BY <1>1, <3>1 DEF Spot, SpotRead, s, p, q
      <4>2. Avail(s) < 1
        BY <3>1 DEF Needed, s
      <4>3. g < p + 1
        BY <1>6, <4>2
      <4> DEFINE c == s.cmd.len
                 l == e.left
      <4>4. l \in 1..c /\ p = q + (c - l) /\ c \in Nat \ {0} /\ c <= n
        BY <1>5, <4>1
      <4> HIDE DEF c, l, n
      <4> QED
        BY <1>3, <1>5, <4>3, <4>4
    <3>2. CASE e.at = "top"
      <4>1. s.cmd.op = "vdec" /\ p = q + s.cmd.len
        BY <1>1, <1>7, <3>2 DEF Spot, SpotTop, s, p, q
      <4>2. Avail(s) < Peek
        BY <3>2 DEF Needed, s
      <4>3. g < p + Peek
        BY <1>3, <1>6, <4>2
      <4> DEFINE c == s.cmd.len
      <4>4. p = q + c /\ c \in Nat \ {0} /\ n = c + Peek
        BY <1>5, <4>1
      <4> HIDE DEF c, n
      <4> QED
        BY <1>3, <4>3, <4>4
    <3> QED
      BY <2>1, <3>1, <3>2
  <2>3. Lacks(zeros, r)
    <3>1. r.cmd = s.cmd /\ r.tail = FALSE
      BY <1>2, <1>7 DEF SameCmd
    <3>2. Avail(r) < Span(r.cmd)
      BY <1>5, <1>6, <2>2, <3>1
    <3> QED
      BY <3>1, <3>2 DEF Lacks
  <2>4. Nameable(s)
    <3>1. CASE s.chain = TRUE
      <4>1. n <= (Fifo + 1) * QwU
        BY <1>1, <3>1 DEF Behind, Fits
      <4> DEFINE d == (Fifo + 1) * QwU
      <4>2. d \in Nat /\ n <= d
        BY <4>1, DepthNumbers
      <4>3. Nameable(s) <=> g <= q + d
        BY DEF Nameable, g, q
      <4> HIDE DEF d, n
      <4> QED
        BY <1>3, <1>5, <2>2, <4>2, <4>3
    <3>2. CASE s.chain = FALSE
      <4>1. s.cmd.op = "csc"
        BY <1>1, <3>2, CmdNumbers DEF Behind
      <4>2. e.at = "read"
        BY <1>1, <1>7, <2>1, <4>1 DEF Spot, SpotTop, s
      <4>3. e.left \in 1..s.cmd.len /\ p = q + (s.cmd.len - e.left)
        BY <1>1, <4>2 DEF Spot, SpotRead, s, p, q
      <4>4. Avail(s) < 1
        BY <4>2 DEF Needed, s
      <4>5. g < p + 1
        BY <1>6, <4>4
      <4>6. q + s.cmd.len <= h.expect /\ h.expect + Peek <= Units /\ h.expect \in Nat
        BY <1>1, <1>7, PartEnds DEF Behind, q
      <4>7. s.madr # Quads
        <5>1. g < Units
          <6> DEFINE c == s.cmd.len
                     l == e.left
                     x == h.expect
          <6>1. l \in 1..c /\ p = q + (c - l) /\ q + c <= x /\ x + Peek <= Units /\ x \in Nat
                /\ c \in Nat \ {0} /\ Units \in Nat
            BY <1>5, <4>3, <4>6, QuadUnits
          <6> HIDE DEF c, l, x
          <6> QED
            BY <1>3, <4>5, <6>1
        <5>2. s.madr = Quads => g = Units
          BY QuadUnits DEF g, Edge
        <5> QED
          BY <1>3, <5>1, <5>2, QuadUnits
      <4>8. ~Feeding(s)
        <5> SUFFICES ASSUME Feeding(s) PROVE FALSE
          OBVIOUS
        <5>1. ~Room(s)
          BY DEF Spent, Feeding, s
        <5>2. /\ QwFrom(s, s.hw) = Len(s.in) - (s.hw \div QwU) /\ Len(s.in) \in Nat
              /\ s.hw \in Nat /\ s.pos \in Nat /\ s.pos <= s.hw /\ Fifo \in Nat
              /\ QwU \in Nat \ {0} /\ s.hw \div QwU \in Nat
          BY <1>1, FromHighWater, FormedNumbers, SizesPositive
        <5>3. Len(s.in) * QwU <= s.hw /\ Len(s.in) * QwU \in Nat
          <6> DEFINE y == Len(s.in) * QwU
          <6>1. y \in Nat
            BY <1>1, FormedUnits
          <6>2. Avail(s) = IF y > s.pos THEN y - s.pos ELSE 0
            BY DEF Avail
          <6> HIDE DEF y
          <6>3. y <= s.pos
            BY <4>4, <5>2, <6>1, <6>2
          <6>4. y <= s.hw
            BY <5>2, <6>1, <6>3
          <6> QED
            BY <6>1, <6>4 DEF y
        <5>4. Len(s.in) <= s.hw \div QwU
          <6> DEFINE y == Len(s.in) * QwU
          <6>1. y \div QwU = Len(s.in) /\ y \in Nat /\ y <= s.hw
            BY <5>2, <5>3, WholeTimes
          <6> HIDE DEF y
          <6> QED
            BY <5>2, <6>1, QuotientMonotone
        <5>5. QwFrom(s, s.hw) <= 0
          <6> DEFINE k == s.hw \div QwU
                     j == Len(s.in)
          <6>1. QwFrom(s, s.hw) = j - k /\ j <= k /\ j \in Nat /\ k \in Nat
            BY <5>2, <5>4
          <6> HIDE DEF j, k
          <6> QED
            BY <6>1
        <5>6. QwFrom(s, s.hw) \in Nat
          BY <1>1, FromHighWater
        <5> QED
          BY <5>1, <5>2, <5>5, <5>6 DEF Room
      <4> QED
        BY <1>1, <3>2, <4>7, <4>8 DEF Supplied
    <3> QED
      BY <1>1, <3>1, <3>2 DEF Formed, CtlOk
  <2> QED
    BY <2>3, <2>4 DEF SpotStarved, s, r
<1>8. CASE s.tail = TRUE
  <2>1. e.at \in {"gate", "run", "top"}
    BY <1>1, <1>8 DEF Stage, s
  <2>2. p = q /\ Avail(s) < Peek
    <3>1. p = q
      BY <1>1, <1>8, <2>1 DEF Spot, SpotScan, SpotTop, s, p, q
    <3>2. Needed(e) <= Peek
      BY <1>3, <2>1 DEF Needed
    <3>3. Needed(e) \in Nat /\ Avail(s) < Needed(e)
      BY <1>3, <2>1 DEF Needed, s
    <3> QED
      BY <1>1, <1>3, <3>1, <3>2, <3>3
  <2>3. g < q + Peek
    BY <1>3, <1>6, <2>2
  <2>4. Avail(r) < Peek
    BY <1>3, <1>6, <2>3
  <2>5. s.run = FALSE => Avail(r) < ByteU \/ ~ZRun(zeros, Place(r), ByteU)
    <3> SUFFICES ASSUME s.run = FALSE
                 PROVE  Avail(r) < ByteU \/ ~ZRun(zeros, Place(r), ByteU)
      OBVIOUS
    <3>1. e.at # "run"
      BY <1>1 DEF Spot, SpotScan, s
    <3>2. CASE e.at = "gate"
      <4>1. Avail(s) < ByteU
        BY <3>2 DEF Needed, s
      <4>2. g < q + ByteU
        BY <1>3, <1>6, <2>2, <4>1
      <4> QED
        BY <1>3, <1>6, <4>2
    <3>3. CASE e.at = "top"
      <4>1. ~ZRun(zeros, p, ByteU)
        BY <1>1, <1>8, <3>3 DEF Spot, SpotTop, s, p
      <4> QED
        BY <1>4, <2>2, <4>1
    <3> QED
      BY <2>1, <3>1, <3>2, <3>3
  <2>6. Lacks(zeros, r)
    <3>1. r.tail = TRUE /\ r.run = s.run
      BY <1>2, <1>8 DEF SameCmd
    <3> QED
      BY <2>4, <2>5, <3>1 DEF Lacks
  <2>7. Nameable(s)
    <3> DEFINE d == (Fifo + 1) * QwU
    <3>1. d \in Nat /\ Peek <= d
      BY DepthNumbers, PeekBelowDepth
    <3>2. Nameable(s) <=> g <= q + d
      BY DEF Nameable, g, q
    <3> HIDE DEF d
    <3> QED
      BY <1>3, <2>3, <3>1, <3>2
  <2> QED
    BY <2>6, <2>7 DEF SpotStarved, s, r
<1> QED
  BY <1>1, <1>7, <1>8

LEMMA WalkedPlace ==
  ASSUME NEW s, NEW t, Walked(s, t)
  PROVE  Place(t) = Place(s) /\ Reach(t) = Reach(s) /\ Mark(t) = Mark(s)
BY DEF Walked, Fed, SameDec, Place, Reach, Mark

\* What a turn looks at is ensured, or is short when all there is was fed.
LEMMA EnsuredAt ==
  ASSUME NEW h, NEW e, At(h, e)
  PROVE  LET f == Ensured(e)
         IN /\ At(h, f) /\ (Avail(f.s) < Needed(f) => Spent(f.s))
            /\ f.at = e.at /\ Place(f.s) = Place(e.s)
            /\ f.s.csc = e.s.csc /\ f.s.tail = e.s.tail
<1> DEFINE f == Ensured(e)
           s == e.s
           t == f.s
           w == AdvanceWalk(s)
<1>1. /\ Underway(f) /\ f.at = e.at /\ f.left = e.left /\ t = EnsureUnits(s, Needed(e))
      /\ Formed(s) /\ Stage(e) /\ Kept(h, s) /\ Spot(h, e)
  BY EnsuredTurned DEF Turned, At, Underway
<1>2. Needed(f) = Needed(e) /\ Needed(e) \in Nat /\ Avail(s) \in Nat
  BY <1>1, SizesPositive, PlaceNumbers DEF Needed
<1>3. CASE Avail(s) >= Needed(e)
  <2>1. t = s
    BY <1>1, <1>3 DEF EnsureUnits
  <2> HIDE DEF f
  <2>2. Stage(f)
    BY <1>1, <2>1 DEF Stage
  <2>3. Spot(h, f)
    BY <1>1, <2>1 DEF Spot, SpotRead, SpotEmit, SpotScan, SpotTop, SpotStarved
  <2>4. Kept(h, t)
    BY <1>1, <2>1
  <2>5. ~(Avail(t) < Needed(f))
    BY <1>2, <1>3, <2>1
  <2> QED
    BY <1>1, <2>1, <2>2, <2>3, <2>4, <2>5 DEF At, f
<1>4. CASE ~(Avail(s) >= Needed(e))
  <2>1. t = w
    BY <1>1, <1>4 DEF EnsureUnits
  <2>2. Walked(s, w) /\ Spent(w) /\ (Supplied(s) => Supplied(w))
    BY <1>1, AdvanceWalkWalked, AdvanceWalkSpends
  <2>3. e.at \notin {"done", "starved"}
    BY <1>2, <1>4 DEF Needed
  <2> HIDE DEF f, w
  <2>4. Place(w) = Place(s) /\ Reach(w) = Reach(s) /\ Mark(w) = Mark(s)
    BY <2>2, WalkedPlace
  <2>5. /\ w.chain = s.chain /\ w.cmd = s.cmd /\ w.tail = s.tail /\ w.run = s.run
        /\ w.csc = s.csc /\ w.flag = s.flag
    BY <2>2 DEF Walked, SameCtl, SameDec
  <2>6. Kept(h, w)
    <3>1. Reach(w) <= h.expect
      BY <1>1, <2>4 DEF Kept, Behind
    <3>2. Behind(zeros, h, w)
      BY <1>1, <2>4, <2>5, <3>1, BehindOn DEF Kept
    <3> QED
      BY <1>1, <2>2, <3>2 DEF Kept
  <2>7. Stage(f)
    <3>1. SameAcc(s, t)
      BY <2>1, <2>2, OutAcc DEF Walked
    <3> QED
      BY <1>1, <3>1, SameStaged DEF Staged
  <2>8. Spot(h, f)
    <3>1. f.at = e.at /\ f.left = e.left /\ f.s = w
      BY <1>1, <2>1
    <3>2. e.at = "read" => SpotRead(f)
      BY <1>1, <2>4, <2>5, <3>1 DEF Spot, SpotRead
    <3>3. e.at = "emit" => SpotEmit(f)
      BY <1>1, <2>4, <2>5, <3>1 DEF Spot, SpotEmit
    <3>4. (e.at = "gate" => SpotScan(f, FALSE)) /\ (e.at = "run" => SpotScan(f, TRUE))
      BY <1>1, <2>4, <2>5, <3>1 DEF Spot, SpotScan
    <3>5. e.at = "top" => SpotTop(h, f)
      BY <1>1, <2>4, <2>5, <3>1 DEF Spot, SpotTop, Ended
    <3> QED
      BY <2>3, <3>1, <3>2, <3>3, <3>4, <3>5 DEF Spot
  <2> QED
    BY <1>1, <2>1, <2>2, <2>4, <2>5, <2>6, <2>7, <2>8 DEF At, f
<1> QED
  BY <1>3, <1>4

\* What every turn but the last adds to: where the cursor is, the macroblocks
\* of a CSC, and how far the end of the command has come.
Weight(e) ==
  Place(e.s) + e.s.csc + (IF e.s.tail = TRUE THEN 1 ELSE 0)
  + (IF e.at = "run" THEN 1 ELSE IF e.at = "top" THEN 2 ELSE 0)

LEMMA TurnAt ==
  ASSUME NEW h, NEW e, At(h, e), Fits, Avail(e.s) < Needed(e) => Spent(e.s)
  PROVE  LET f == Turn(e)
         IN At(h, f) /\ (f.at \in {"done", "starved"} \/ Weight(f) >= Weight(e) + 1)
<1> DEFINE f == Turn(e)
           starved == [e EXCEPT !.at = "starved"]
           done == [e EXCEPT !.at = "done"]
<1>1. Underway(f) /\ Stage(f) /\ Kept(h, e.s) /\ Spot(h, e)
  BY TurnTurned, TurnStaged DEF At, Turned, Staged
<1>2. /\ starved.s = e.s /\ starved.at = "starved" /\ done.s = e.s /\ done.at = "done"
  BY DEF At, Underway
<1>3. Avail(e.s) \in Nat /\ Place(e.s) \in Nat /\ e.s.csc \in Nat /\ Formed(f.s)
      /\ Place(f.s) \in Nat /\ f.s.csc \in Nat
  BY <1>1, PlaceNumbers DEF At, Underway, Formed, DecOk
<1> HIDE DEF starved, done
<1>4. CASE Avail(e.s) < Needed(e)
  <2>1. f = starved
    BY <1>4 DEF Turn, starved
  <2> HIDE DEF f
  <2>2. SpotStarved(e)
    BY <1>4, StarvedSpot
  <2>3. Kept(h, f.s) /\ f.at = "starved" /\ SpotStarved(f)
    BY <1>1, <1>2, <2>1, <2>2 DEF SpotStarved
  <2>4. Spot(h, f)
    BY <2>3 DEF Spot
  <2> QED
    BY <1>1, <2>3, <2>4 DEF At, f
<1>5. CASE ~(Avail(e.s) < Needed(e))
  <2>1. CASE e.at = "read"
    <3>1. f = ReadTurn(e) /\ Needed(e) = 1
      BY <1>5, <2>1 DEF Turn, Needed
    <3>2. Avail(e.s) >= 1
      BY <1>3, <1>5, <3>1
    <3> HIDE DEF f
    <3>3. Kept(h, f.s) /\ Spot(h, f) /\ Place(f.s) = Place(e.s) + 1
          /\ f.s.csc = e.s.csc /\ f.s.tail = e.s.tail
      BY <2>1, <3>1, <3>2, ReadTurnAt
    <3>4. Weight(f) >= Weight(e) + 1
      BY <1>3, <2>1, <3>3 DEF Weight
    <3> QED
      BY <1>1, <3>3, <3>4 DEF At, f
  <2>2. CASE e.at = "emit"
    <3>1. f = EmitTurn(e)
      BY <1>5, <2>2 DEF Turn
    <3> HIDE DEF f
    <3>2. /\ Kept(h, f.s) /\ Spot(h, f) /\ Place(f.s) = Place(e.s)
          /\ f.s.csc = (IF e.s.cmd.op = "csc" THEN e.s.csc + 1 ELSE e.s.csc)
          /\ e.s.tail = FALSE /\ e.s.cmd.op \in {"bdec", "csc"}
          /\ f.s.tail = (e.s.cmd.op = "bdec")
      BY <2>2, <3>1, EmitTurnAt
    <3>3. Weight(f) >= Weight(e) + 1
      <4>1. CASE e.s.cmd.op = "csc"
        BY <1>3, <2>2, <3>2, <4>1 DEF Weight
      <4>2. CASE e.s.cmd.op = "bdec"
        <5>1. f.s.tail = TRUE /\ f.s.csc = e.s.csc
          BY <3>2, <4>2
        <5> QED
          BY <1>3, <2>2, <3>2, <5>1 DEF Weight
      <4> QED
        BY <3>2, <4>1, <4>2
    <3> QED
      BY <1>1, <3>2, <3>3 DEF At, f
  <2>3. CASE e.at = "gate"
    <3>1. f = GateTurn(e) /\ Needed(e) = ByteU
      BY <1>5, <2>3 DEF Turn, Needed
    <3>2. Avail(e.s) >= ByteU
      BY <1>3, <1>5, <3>1, SizesPositive
    <3>3. f.at \in {"run", "top"}
      <4>1. "at" \in DOMAIN e
        BY DEF At, Underway
      <4> QED
        BY <3>1, <4>1 DEF GateTurn
    <3> HIDE DEF f
    <3>4. Kept(h, f.s) /\ Spot(h, f) /\ Place(e.s) <= Place(f.s)
          /\ f.s.csc = e.s.csc /\ f.s.tail = e.s.tail
      BY <2>3, <3>1, <3>2, GateTurnAt
    <3>5. Weight(f) >= Weight(e) + 1
      BY <1>3, <2>3, <3>3, <3>4 DEF Weight
    <3> QED
      BY <1>1, <3>4, <3>5 DEF At, f
  <2>4. CASE e.at = "run"
    <3>1. f = RunTurn(e) /\ Needed(e) = Peek
      BY <1>5, <2>4 DEF Turn, Needed
    <3>2. Avail(e.s) >= Peek /\ ByteU \in Nat \ {0}
      BY <1>3, <1>5, <3>1, SizesPositive
    <3> HIDE DEF f
    <3>3. /\ Kept(h, f.s) /\ Spot(h, f) /\ f.s.csc = e.s.csc /\ f.s.tail = e.s.tail
          /\ \/ f.at = "run" /\ Place(f.s) = Place(e.s) + ByteU
             \/ f.at = "top" /\ Place(f.s) = Place(e.s)
      BY <2>4, <3>1, <3>2, RunTurnAt
    <3>4. Weight(f) >= Weight(e) + 1
      BY <1>3, <2>4, <3>2, <3>3 DEF Weight
    <3> QED
      BY <1>1, <3>3, <3>4 DEF At, f
  <2>5. CASE e.at = "top"
    <3>1. f = done
      BY <1>5, <2>5 DEF Turn, done
    <3> HIDE DEF f
    <3>2. Spot(h, f) /\ f.at = "done" /\ Kept(h, f.s)
      BY <1>1, <1>2, <2>5, <3>1 DEF Spot, SpotTop
    <3> QED
      BY <1>1, <3>2 DEF At, f
  <2>6. CASE e.at \in {"done", "starved"}
    <3>1. f = e
      BY <1>5, <2>6 DEF Turn
    <3> QED
      BY <2>6, <3>1
  <2> QED
    BY <1>1, <2>1, <2>2, <2>3, <2>4, <2>5, <2>6 DEF At, Stage
<1> QED
  BY <1>4, <1>5

LEMMA WeightBound ==
  ASSUME NEW h, NEW e, At(h, e), e.at \notin {"done", "starved"}
  PROVE  Weight(e) \in Nat /\ Weight(e) < ExecTurns
<1> DEFINE s == e.s
           k == s.csc
           n == s.cmd.len
<1>1. /\ Formed(s) /\ s.snap <= s.hw /\ Behind(zeros, h, s) /\ Apt(s) /\ s.busy = TRUE
      /\ k \in Nat
  BY DEF At, Underway, Kept, Stage, Formed, DecOk
<1>2. /\ Place(s) \in Nat /\ Reach(s) \in Nat /\ Mark(s) \in Nat /\ Place(s) <= Reach(s)
      /\ Reach(s) <= h.expect /\ h.expect \in Nat /\ h.expect + Peek <= Units /\ Peek \in Nat
      /\ Units \in Nat /\ Quads \in Nat /\ Units = Quads * QwU /\ QwU \in Nat \ {0}
  BY <1>1, PlaceNumbers, SizesPositive, QuadUnits DEF Behind
<1>3. Mark(s) <= Reach(s)
  <2> DEFINE b == (s.madr - Len(s.in)) * QwU
  <2>1. b \in Nat /\ s.snap \in Nat /\ s.hw \in Nat /\ Mark(s) = b + s.snap /\ Reach(s) = b + s.hw
    BY <1>1, PlaceNumbers, FormedNumbers DEF Mark, Reach
  <2> HIDE DEF b
  <2> QED
    BY <1>1, <2>1
<1>4. k <= Quads
  <2>1. CASE s.cmd.op = "csc"
    <3>1. s.tail = FALSE /\ Mark(s) = h.start + k * n /\ h.start \in Nat
          /\ n \in Nat \ {0} /\ n >= QwU
      BY <1>1, <2>1, CmdNumbers DEF Apt, Behind
    <3> HIDE DEF k, n
    <3>2. k * n \in Nat /\ k * QwU \in Nat /\ k * QwU <= k * n
      <4>1. QwU * k <= n * k /\ QwU * k = k * QwU /\ n * k = k * n
        BY <1>1, <1>2, <3>1, Product
      <4> QED
        BY <1>1, <1>2, <3>1, <4>1, Product DEF k
    <3> DEFINE a == k * n
               b == k * QwU
               g == Quads * QwU
    <3>3. b <= g
      <4>1. a \in Nat /\ b \in Nat /\ b <= a /\ Mark(s) = h.start + a /\ Units = g
        BY <1>2, <3>1, <3>2
      <4> HIDE DEF a, b, g
      <4> QED
        BY <1>2, <1>3, <3>1, <4>1
    <3>4. b \div QwU = k /\ g \div QwU = Quads
      BY <1>1, <1>2, WholeTimes DEF k
    <3>5. b \in Nat /\ g \in Nat
      BY <1>2, <3>2
    <3> HIDE DEF b, g
    <3>6. b \div QwU <= g \div QwU
      BY <1>2, <3>3, <3>5, QuotientMonotone
    <3> QED
      BY <3>4, <3>6
  <2>2. CASE s.cmd.op # "csc"
    BY <1>1, <1>2, <2>2 DEF Apt
  <2> QED
    BY <2>1, <2>2
<1>5. ExecTurns = Units + Quads + 4
  BY <1>2, SizesPositive, Product DEF ExecTurns, Quads
<1>6. Place(s) <= Units
  BY <1>2
<1> QED
  BY <1>1, <1>2, <1>4, <1>5, <1>6 DEF Weight

LEMMA ExecAt ==
  ASSUME NEW h, NEW s, Fits, At(h, Entry(s))
  PROVE  At(h, Exec(s)) /\ Exec(s).at \in {"done", "starved"}
<1>1. PICK w : /\ w[0] = Entry(s) /\ Exec(s) = w[ExecTurns]
               /\ \A i \in 0..ExecTurns - 1 : w[i + 1] = ExecTurn(w[i])
  BY ExecIsTurns
<1> DEFINE Over(e) == e.at \in {"done", "starved"}
           T == {i \in Nat : i <= ExecTurns =>
                               At(h, w[i]) /\ (Over(w[i]) \/ Weight(w[i]) >= i)}
<1>2. ExecTurns \in Nat
  BY Sizes
<1>3. 0 \in T
  <2>1. ~Over(w[0]) => Weight(w[0]) \in Nat
    BY <1>1, WeightBound
  <2>2. Over(w[0]) \/ Weight(w[0]) >= 0
    BY <2>1
  <2> QED
    BY <1>1, <2>2
<1>4. ASSUME NEW i \in Nat, i \in T PROVE i + 1 \in T
  <2> SUFFICES ASSUME i + 1 <= ExecTurns
               PROVE  At(h, w[i + 1]) /\ (Over(w[i + 1]) \/ Weight(w[i + 1]) >= i + 1)
    OBVIOUS
  <2> DEFINE e == w[i]
             f == Ensured(e)
             g == Turn(f)
  <2>1. i \in 0..ExecTurns - 1 /\ At(h, e) /\ (Over(e) \/ Weight(e) >= i)
    BY <1>2, <1>4
  <2>2. w[i + 1] = g
    BY <1>1, <2>1 DEF ExecTurn, Ensured
  <2> HIDE DEF e
  <2>3. /\ At(h, f) /\ (Avail(f.s) < Needed(f) => Spent(f.s))
        /\ f.at = e.at /\ Place(f.s) = Place(e.s)
        /\ f.s.csc = e.s.csc /\ f.s.tail = e.s.tail
    BY <2>1, EnsuredAt
  <2>4. Weight(f) = Weight(e)
    BY <2>3 DEF Weight
  <2> HIDE DEF f
  <2>5. At(h, g) /\ (Over(g) \/ Weight(g) >= Weight(f) + 1)
    BY <2>3, TurnAt
  <2>6. Over(e) => Over(g)
    <3>1. Over(e) => g = f
      <4> SUFFICES ASSUME Over(e) PROVE g = f
        OBVIOUS
      <4>1. Needed(f) = 0
        BY <2>3 DEF Needed
      <4>2. Avail(f.s) \in Nat
        BY <2>3, PlaceNumbers DEF At, Underway
      <4> QED
        BY <2>3, <4>1, <4>2 DEF Turn
    <3> QED
      BY <2>3, <3>1
  <2>7. ~Over(g) => Weight(g) >= i + 1
    <3> SUFFICES ASSUME ~Over(g) PROVE Weight(g) >= i + 1
      OBVIOUS
    <3>1. Weight(e) >= i /\ Weight(g) >= Weight(e) + 1 /\ ~Over(e)
      BY <2>1, <2>4, <2>5, <2>6
    <3>2. Weight(e) \in Nat /\ Weight(g) \in Nat
      BY <2>1, <2>5, <3>1, WeightBound
    <3> QED
      BY <3>1, <3>2
  <2> QED
    BY <2>2, <2>5, <2>7
<1>5. ExecTurns \in T
  <2> HIDE DEF T
  <2> QED
    BY <1>2, <1>3, <1>4, NatInduct
<1>6. At(h, w[ExecTurns]) /\ (Over(w[ExecTurns]) \/ Weight(w[ExecTurns]) >= ExecTurns)
  BY <1>2, <1>5
<1>7. Over(w[ExecTurns])
  <2> SUFFICES ASSUME ~Over(w[ExecTurns]) PROVE FALSE
    OBVIOUS
  <2>1. Weight(w[ExecTurns]) \in Nat /\ Weight(w[ExecTurns]) < ExecTurns
    BY <1>6, WeightBound
  <2> QED
    BY <1>2, <1>6, <2>1
<1> QED
  BY <1>1, <1>6, <1>7

-----------------------------------------------------------------------------
(* What a call of the decoder leaves for the library to read *)

\* A decoder about to run: a pending command may have had input since.
Pends(h, s) ==
  /\ Apt(s)
  /\ s.busy = TRUE => Kept(h, s)
  /\ s.busy = FALSE => h.expect \in Nat /\ Place(s) = h.expect /\ Reach(s) = h.expect

\* A command that is over has said what ended it.
Answers(h, s) ==
  /\ h.start \in Nat /\ EndIs(zeros, s.cmd, h.start, h.expect)
  /\ FlagIs(zeros, s.cmd, h.start, h.expect, s.flag)

\* The telling looks at nothing but these.
LEMMA TellsOn ==
  ASSUME NEW h, NEW s, NEW t, Tells(zeros, h, s), SameDec(s, t),
         t.madr = s.madr, t.in = s.in, t.chain = s.chain
  PROVE  Tells(zeros, h, t)
<1>1. /\ Place(t) = Place(s) /\ Reach(t) = Reach(s) /\ Mark(t) = Mark(s) /\ Avail(t) = Avail(s)
      /\ Edge(t) = Edge(s)
  BY DEF SameDec, Place, Reach, Mark, Avail, Edge
<1>2. Apt(t)
  BY DEF Tells, Apt, SameDec
<1>3. Nameable(s) => Nameable(t)
  BY <1>1 DEF Nameable
<1>4. Lacks(zeros, s) => Lacks(zeros, t)
  BY <1>1 DEF Lacks, SameDec
<1>5. Behind(zeros, h, s) => Behind(zeros, h, t)
  <2> SUFFICES ASSUME Behind(zeros, h, s) PROVE Behind(zeros, h, t)
    OBVIOUS
  <2>1. Reach(t) <= h.expect
    BY <1>1 DEF Behind
  <2> QED
    BY <1>1, <2>1, BehindOn DEF SameDec
<1> QED
  BY <1>1, <1>2, <1>3, <1>4, <1>5 DEF Tells, SameDec

LEMMA TellsPends ==
  ASSUME NEW h, NEW s, Formed(s), Tells(zeros, h, s)
  PROVE  Pends(h, AdvanceWalk(s))
<1> DEFINE t == AdvanceWalk(s)
<1>1. Walked(s, t) /\ (Supplied(s) => Supplied(t))
  BY AdvanceWalkWalked, AdvanceWalkSpends
<1> HIDE DEF t
<1>2. Place(t) = Place(s) /\ Reach(t) = Reach(s) /\ Mark(t) = Mark(s)
  BY <1>1, WalkedPlace
<1>3. SameDec(s, t) /\ t.chain = s.chain
  BY <1>1 DEF Walked, SameCtl
<1>4. Apt(t)
  BY <1>3 DEF Tells, Apt, SameDec
<1>5. s.busy = TRUE => Kept(h, t)
  <2> SUFFICES ASSUME s.busy = TRUE PROVE Kept(h, t)
    OBVIOUS
  <2>1. Behind(zeros, h, s) /\ Supplied(s) /\ Reach(t) <= h.expect
    BY <1>2 DEF Tells, Supplied, Behind
  <2>2. Behind(zeros, h, t)
    BY <1>2, <1>3, <2>1, BehindOn DEF SameDec
  <2> QED
    BY <1>1, <2>1, <2>2 DEF Kept
<1> QED
  BY <1>2, <1>3, <1>4, <1>5 DEF Tells, Pends, SameDec, t

LEMMA SettleTells ==
  ASSUME NEW h, NEW e, At(h, e), e.at \in {"done", "starved"}
  PROVE  Tells(zeros, h, Settle(e)) /\ (Settle(e).busy = FALSE => Answers(h, Settle(e)))
<1> DEFINE s == e.s
<1>1. /\ Formed(s) /\ s.snap <= s.hw /\ Behind(zeros, h, s) /\ Spot(h, e) /\ Stage(e)
      /\ s.busy = TRUE
  BY DEF At, Underway, Kept, Stage
<1>2. /\ h.start \in Nat /\ h.expect \in Nat /\ EndIs(zeros, s.cmd, h.start, h.expect)
      /\ Reach(s) <= h.expect
  BY <1>1 DEF Behind
<1>3. CASE e.at = "done"
  <2> DEFINE a == [s EXCEPT !.busy = FALSE]
             b == CompactIn(a)
             c == AdvanceWalk(b)
             d == [c EXCEPT !.raised = @ \cup {"ipu"}]
             t == DrainCh3(d)
  <2>1. Settle(e) = t
    BY <1>3 DEF Settle
  <2>2. /\ Formed(a) /\ Apart(s, a) /\ a.pos = s.pos /\ a.hw = s.hw /\ a.busy = FALSE
        /\ a.cmd = s.cmd /\ a.flag = s.flag
    BY <1>1, IdleIs
  <2> HIDE DEF a, s
  <2>3. Formed(b) /\ Shifted(a, b) /\ SameCmd(a, b)
    BY <2>2, CompactInIs
  <2> HIDE DEF b
  <2>4. Walked(b, c)
    BY <2>3, AdvanceWalkWalked
  <2> HIDE DEF c
  <2>5. Formed(d) /\ SameIn(c, d) /\ SameDec(c, d)
    BY <2>4, InterruptIs DEF Walked
  <2> HIDE DEF d
  <2>6. Formed(t) /\ SameIn(d, t) /\ SameDec(d, t)
    BY <2>5, DrainCh3Drained DEF Drained
  <2> HIDE DEF t
  <2>7. Place(t) = Place(s) /\ Reach(t) = Reach(s)
    <3>1. Place(a) = Place(s) /\ Reach(a) = Reach(s)
      BY <2>2 DEF Place, Reach, Apart, SameIn
    <3>2. Place(b) = Place(a) /\ Reach(b) = Reach(a)
      BY <2>2, <2>3, ShiftedPlace
    <3>3. Place(c) = Place(b) /\ Reach(c) = Reach(b)
      BY <2>4, WalkedPlace
    <3>4. Place(t) = Place(c) /\ Reach(t) = Reach(c)
      BY <2>5, <2>6 DEF Place, Reach, SameIn, SameDec
    <3> QED
      BY <3>1, <3>2, <3>3, <3>4
  <2>8. t.busy = FALSE /\ t.cmd = s.cmd /\ t.flag = s.flag
    BY <2>2, <2>3, <2>4, <2>5, <2>6 DEF SameCmd, Walked, SameDec
  <2>9. Place(s) = h.expect /\ FlagIs(zeros, s.cmd, h.start, h.expect, s.flag)
    BY <1>1, <1>3 DEF Spot, Ended, s
  <2>10. Reach(s) = h.expect
    <3>1. Place(s) <= Reach(s) /\ Reach(s) \in Nat
      BY <1>1, PlaceNumbers
    <3> QED
      BY <1>2, <2>9, <3>1
  <2>11. Answers(h, t)
    BY <1>2, <2>8, <2>9 DEF Answers
  <2>12. Tells(zeros, h, t)
    BY <1>2, <2>7, <2>8, <2>9, <2>10 DEF Tells, Apt
  <2> QED
    BY <2>1, <2>11, <2>12
<1>4. CASE e.at = "starved"
  <2> DEFINE a == RestoreSnapshot(s)
             t == Stalled(a)
  <2>1. /\ Formed(a) /\ Apart(s, a) /\ SameCmd(s, a)
        /\ a.pos = s.snap /\ a.hw = s.hw /\ a.snap = s.snap
    BY <1>1, RestoreSnapshotIs
  <2>2. Spent(s) /\ Nameable(s) /\ Lacks(zeros, a)
    BY <1>1, <1>4 DEF Spot, SpotStarved
  <2>3. AdvanceWalk(a) = a
    BY <2>1, <2>2, SpentOn, SpentWalk
  <2>4. Settle(e) = t
    BY <1>4, <2>3 DEF Settle
  <2> HIDE DEF a, s
  <2>5. /\ Formed(t) /\ Apart(a, t)
        /\ t.busy = a.busy /\ t.cmd = a.cmd /\ t.tail = a.tail /\ t.run = a.run
        /\ t.csc = a.csc /\ t.flag = a.flag /\ t.stall = Len(a.in)
        /\ t.pos = a.pos /\ t.hw = a.hw /\ t.snap = a.snap
    BY <2>1, StalledIs
  <2> HIDE DEF t
  <2>6. /\ t.busy = TRUE /\ t.cmd = s.cmd /\ t.tail = s.tail /\ t.run = s.run /\ t.csc = s.csc
        /\ t.chain = s.chain /\ t.madr = s.madr /\ t.in = s.in
        /\ t.pos = s.snap /\ t.hw = s.hw /\ t.snap = s.snap /\ t.stall = Len(t.in)
    BY <1>1, <2>1, <2>5 DEF Apart, SameCtl, SameIn, SameCmd
  <2>7. Mark(t) = Mark(s) /\ Place(t) = Mark(t) /\ Reach(t) = Reach(s) /\ Edge(t) = Edge(s)
    BY <2>6 DEF Mark, Place, Reach, Edge
  <2>8. Behind(zeros, h, t)
    BY <1>1, <1>2, <2>6, <2>7, BehindOn
  <2>9. Lacks(zeros, t)
    <3>1. Avail(t) = Avail(a) /\ Place(t) = Place(a)
      BY <2>5 DEF Avail, Place, Apart, SameIn
    <3> QED
      BY <2>2, <2>5, <3>1 DEF Lacks
  <2>10. Nameable(t)
    BY <2>2, <2>7 DEF Nameable
  <2>11. Apt(t)
    <3>1. Apt(s)
      BY <1>1, <1>4 DEF Stage, s
    <3> QED
      BY <1>1, <2>6, <3>1 DEF Apt
  <2> QED
    BY <2>4, <2>6, <2>7, <2>8, <2>9, <2>10, <2>11 DEF Tells
<1> QED
  BY <1>3, <1>4

\* A run of what is pending leaves the telling true, and an answer when it ends.
LEMMA RunPendingTells ==
  ASSUME NEW h, NEW s, Fits, Formed(s), Snapped(s), Pends(h, s)
  PROVE  LET t == RunPending(s)
         IN /\ Tells(zeros, h, t)
            /\ s.busy = TRUE /\ t.busy = FALSE => Answers(h, t)
            /\ s.busy = FALSE => t = s
<1>1. CASE s.busy = FALSE
  <2>1. RunPending(s) = s
    BY <1>1 DEF RunPending
  <2> QED
    BY <1>1, <2>1 DEF Pends, Tells
<1>2. CASE s.busy = TRUE
  <2> DEFINE r == RestoreSnapshot(s)
             a == [r EXCEPT !.flag = "none"]
             e == Exec(a)
  <2>1. RunPending(s) = Settle(e)
    BY <1>2 DEF RunPending
  <2>2. /\ Formed(r) /\ Apart(s, r) /\ SameCmd(s, r)
        /\ r.pos = s.snap /\ r.hw = s.hw /\ r.snap = s.snap
    BY <1>2, RestoreSnapshotIs DEF Snapped
  <2> HIDE DEF r
  <2>3. /\ Formed(a) /\ Apart(r, a) /\ a.pos = r.pos /\ a.hw = r.hw /\ a.snap = r.snap
        /\ a.busy = r.busy /\ a.cmd = r.cmd /\ a.csc = r.csc /\ a.tail = r.tail
        /\ a.run = r.run /\ a.flag = "none"
    BY <2>2, FlaggedIs
  <2> HIDE DEF a
  <2>4. /\ a.busy = TRUE /\ a.cmd = s.cmd /\ a.csc = s.csc /\ a.tail = s.tail /\ a.run = s.run
        /\ a.pos = s.snap /\ a.hw = s.hw /\ a.snap = s.snap
        /\ a.madr = s.madr /\ a.in = s.in /\ a.chain = s.chain /\ a.active = s.active
        /\ SameCtl(s, a) /\ a.str = s.str
    BY <1>2, <2>2, <2>3 DEF Apart, SameCtl, SameIn, SameBits, SameCmd
  <2>5. Mark(a) = Mark(s) /\ Place(a) = Mark(a) /\ Reach(a) = Reach(s)
    BY <2>4 DEF Mark, Place, Reach
  <2>6. Kept(h, a)
    <3>1. Kept(h, s)
      BY <1>2 DEF Pends
    <3>2. Behind(zeros, h, a)
      <4>1. Reach(a) <= h.expect
        BY <2>5, <3>1 DEF Kept, Behind
      <4> QED
        BY <2>4, <2>5, <3>1, <4>1, BehindOn DEF Kept
    <3>3. Supplied(a)
      <4>1. Mark(s) <= Mark(a)
        BY <2>5, PlaceNumbers
      <4> QED
        BY <2>3, <2>4, <3>1, <4>1, SuppliedOn DEF Kept
    <3> QED
      BY <3>2, <3>3 DEF Kept
  <2>7. At(h, Entry(a))
    <3> DEFINE f == Entry(a)
    <3>1. /\ {"s", "left", "at"} \subseteq DOMAIN f /\ f.s = a /\ f.left = a.cmd.len
          /\ f.at = IF a.tail THEN (IF a.run THEN "run" ELSE "gate") ELSE "read"
      BY DEF Entry
    <3> HIDE DEF f
    <3>2. a.snap <= a.hw /\ Apt(a) /\ a.tail \in BOOLEAN /\ a.run \in BOOLEAN
      <4>1. Apt(a)
        BY <1>2, <2>4 DEF Pends, Apt
      <4> QED
        BY <1>2, <2>3, <2>4, <4>1 DEF Snapped, Formed, DecOk
    <3>3. Underway(f)
      BY <2>3, <3>1, <3>2 DEF Underway
    <3>4. Stage(f)
      BY <2>4, <3>1, <3>2 DEF Stage, Apt
    <3>5. Spot(h, f)
      <4>1. CASE a.tail = FALSE
        <5>1. f.at = "read"
          BY <3>1, <4>1
        <5>2. a.cmd.len \in Nat \ {0}
          BY <2>6, CmdNumbers DEF Kept, Behind
        <5>3. f.left \in 1..a.cmd.len /\ a.cmd.len - f.left = 0
          BY <3>1, <5>2
        <5>4. Place(a) = Mark(a) + (a.cmd.len - f.left)
          <6>1. Mark(a) \in Nat
            BY <2>3, PlaceNumbers
          <6> QED
            BY <2>5, <5>3, <6>1
        <5> QED
          BY <2>3, <3>1, <4>1, <5>1, <5>3, <5>4 DEF Spot, SpotRead
      <4>2. CASE a.tail = TRUE /\ a.run = FALSE
        BY <2>3, <2>5, <3>1, <4>2 DEF Spot, SpotScan
      <4>3. CASE a.tail = TRUE /\ a.run = TRUE
        BY <2>3, <2>5, <3>1, <4>3 DEF Spot, SpotScan
      <4> QED
        BY <3>2, <4>1, <4>2, <4>3
    <3> QED
      BY <2>6, <3>1, <3>3, <3>4, <3>5 DEF At, f
  <2>8. At(h, e) /\ e.at \in {"done", "starved"}
    BY <2>7, ExecAt
  <2> HIDE DEF e
  <2>9. Tells(zeros, h, Settle(e)) /\ (Settle(e).busy = FALSE => Answers(h, Settle(e)))
    BY <2>8, SettleTells
  <2> QED
    BY <1>2, <2>1, <2>9
<1>3. s.busy \in BOOLEAN
  BY DEF Formed, DecOk
<1> QED
  BY <1>1, <1>2, <1>3

-----------------------------------------------------------------------------
(* A channel that stands still, and a pending command that lacks input *)

Still(s) == s.active = FALSE /\ (s.busy = TRUE => s.pos = s.snap /\ Lacks(zeros, s))

\* Nothing the library reads moves, and nothing it will write over.
Frozen(s, t) ==
  Still(s) =>
    /\ Still(t) /\ t.madr = s.madr /\ Len(t.in) = Len(s.in) /\ t.chain = s.chain
    /\ t.pos = s.pos /\ t.snap = s.snap /\ (Len(s.in) = 0 => t.hw = s.hw)
    /\ t.busy = s.busy /\ t.cmd = s.cmd /\ t.tail = s.tail /\ t.run = s.run /\ t.csc = s.csc
    /\ s.stall = Len(s.in) => t.stall = Len(t.in)

LEMMA FrozenOn ==
  ASSUME NEW s, NEW t, NEW u, Frozen(s, t), Frozen(t, u)
  PROVE  Frozen(s, u)
BY DEF Frozen

LEMMA SameFrozen ==
  ASSUME NEW s, NEW t, SameDec(s, t), t.madr = s.madr, t.in = s.in, t.chain = s.chain,
         s.active = FALSE => t.active = FALSE
  PROVE  Frozen(s, t)
<1>1. Avail(t) = Avail(s) /\ Place(t) = Place(s)
  BY DEF SameDec, Avail, Place
<1>2. Lacks(zeros, s) => Lacks(zeros, t)
  BY <1>1 DEF Lacks, SameDec
<1> QED
  BY <1>2 DEF Frozen, Still, SameDec

\* A run of it from a, the retry point: it comes to no end and keeps nothing.
Stuck(a, e) ==
  /\ Underway(e) /\ e.at \in {"read", "gate", "run", "top", "starved"}
  /\ SameIn(a, e.s) /\ e.s.chain = a.chain /\ e.s.snap = a.snap
  /\ e.s.busy = a.busy /\ e.s.cmd = a.cmd /\ e.s.tail = a.tail /\ e.s.run = a.run
  /\ e.s.csc = a.csc /\ (Len(a.in) = 0 => e.s.hw = a.hw)
  /\ e.at = "read" => /\ a.tail = FALSE /\ e.left \in 1..a.cmd.len
                      /\ e.s.pos = a.snap + (a.cmd.len - e.left)
  /\ e.at = "gate" => a.tail = TRUE /\ a.run = FALSE /\ e.s.pos = a.snap
  /\ e.at = "run" => a.tail = TRUE /\ a.run = TRUE /\ e.s.pos = a.snap
  /\ e.at = "top" => /\ a.tail = TRUE => e.s.pos = a.snap
                     /\ a.tail = FALSE => a.cmd.op = "vdec" /\ e.s.pos = a.snap + a.cmd.len

LEMMA StuckNumbers ==
  ASSUME NEW a, NEW k \in Nat \ {0}, NEW d \in Nat, NEW s, Formed(a), Formed(s),
         SameIn(a, s), a.pos = a.snap, s.pos = a.snap + d, Avail(s) >= k
  PROVE  Avail(a) >= d + k
<1> DEFINE y == Len(a.in) * QwU
<1>1. y \in Nat /\ a.snap \in Nat
  BY FormedUnits, FormedNumbers
<1>2. /\ Avail(a) = (IF y > a.snap THEN y - a.snap ELSE 0)
      /\ Avail(s) = (IF y > s.pos THEN y - s.pos ELSE 0)
  BY DEF Avail, SameIn
<1> HIDE DEF y
<1> QED
  BY <1>1, <1>2

LEMMA StuckTurn ==
  ASSUME NEW a, NEW e, Formed(a), a.active = FALSE, a.pos = a.snap, Lacks(zeros, a),
         Stuck(a, e)
  PROVE  Stuck(a, Turn(e))
<1> DEFINE s == e.s
           f == Turn(e)
           starved == [e EXCEPT !.at = "starved"]
           c == a.cmd
<1>1. /\ Formed(s) /\ s.snap <= s.hw /\ SameIn(a, s) /\ s.cmd = a.cmd /\ Avail(s) \in Nat
      /\ Avail(a) \in Nat /\ a.tail \in BOOLEAN /\ a.snap \in Nat
  BY PlaceNumbers, FormedNumbers DEF Stuck, Underway, Formed, DecOk
<1>2. c.len \in Nat \ {0} /\ Peek \in Nat \ {0} /\ ByteU \in Nat \ {0}
  <2>1. a.cmd \in AllCommands
    BY DEF Formed, DecOk
  <2> QED
    BY <2>1, CommandsAssumption, SizesPositive DEF AllCommands, NoCmd
<1>3. Underway(f)
  BY TurnTurned DEF Turned, Stuck
<1>4. CASE Avail(s) < Needed(e)
  <2>1. f = starved
    BY <1>4 DEF Turn
  <2>2. starved.s = s /\ starved.at = "starved"
    BY DEF Stuck, Underway
  <2> HIDE DEF f, starved
  <2>3. Stuck(a, f)
    BY <1>3, <2>1, <2>2 DEF Stuck
  <2> QED
    BY <2>3 DEF f
<1>5. CASE ~(Avail(s) < Needed(e))
  <2>1. CASE e.at = "read"
    <3> DEFINE p == [s EXCEPT !.pred = @ + 1]
               b == IF s.cmd.op = "bdec" /\ e.left = s.cmd.len THEN p ELSE s
               t == Advance(b, 1)
    <3>1. f = ReadTurn(e) /\ Needed(e) = 1
      BY <1>5, <2>1 DEF Turn, Needed
    <3>2. Avail(s) >= 1
      BY <1>1, <1>5, <3>1
    <3>3. /\ f.s = t /\ f.left = e.left - 1
          /\ f.at = IF e.left > 1 THEN "read"
                    ELSE CASE s.cmd.op = "vdec" -> "top"
                           [] s.cmd.op = "setiq" -> "done"
                           [] OTHER -> "emit"
      BY <3>1 DEF ReadTurn
    <3> HIDE DEF f
    <3>4. /\ Formed(b) /\ SameIn(s, b) /\ SameCmd(s, b) /\ b.pos = s.pos /\ b.hw = s.hw
          /\ b.snap = s.snap /\ b.chain = s.chain
      <4>1. /\ Formed(p) /\ Apart(s, p) /\ SameCmd(s, p) /\ p.pos = s.pos /\ p.hw = s.hw
            /\ p.snap = s.snap
        BY <1>1, PredIs
      <4> HIDE DEF p
      <4> QED
        BY <1>1, <4>1 DEF Apart, SameCtl, SameIn, SameCmd
    <3> HIDE DEF b
    <3>5. Avail(b) = Avail(s)
      BY <3>4 DEF Avail, SameIn
    <3>6. 1 \in Nat \ {0} /\ 1 <= Avail(b)
      BY <1>1, <3>2, <3>5
    <3>7. /\ Formed(t) /\ Apart(b, t) /\ SameCmd(b, t) /\ t.snap = b.snap /\ t.pos = b.pos + 1
      BY <3>4, <3>6, AdvanceIs
    <3> HIDE DEF t
    <3>8. /\ SameIn(a, t) /\ t.chain = a.chain /\ t.snap = a.snap /\ t.busy = a.busy
          /\ t.cmd = a.cmd /\ t.tail = a.tail /\ t.run = a.run /\ t.csc = a.csc
          /\ t.pos = s.pos + 1
      BY <3>4, <3>7 DEF Stuck, Apart, SameCtl, SameIn, SameCmd
    <3>9. /\ a.tail = FALSE /\ e.left \in 1..c.len /\ s.pos = a.snap + (c.len - e.left)
      BY <2>1 DEF Stuck
    <3>10. Len(a.in) # 0
      <4>1. c.len - e.left \in Nat
        BY <1>2, <3>9
      <4>2. 1 \in Nat \ {0}
        OBVIOUS
      <4>3. Avail(a) >= (c.len - e.left) + 1
        BY <1>1, <3>2, <3>9, <4>1, <4>2, StuckNumbers
      <4>4. Len(a.in) = 0 => Avail(a) = 0
        <5>1. Len(a.in) = 0 => Len(a.in) * QwU = 0
          BY SizesPositive
        <5>2. a.pos \in Nat
          BY FormedNumbers
        <5> QED
          BY <5>1, <5>2 DEF Avail
      <4> QED
        BY <1>1, <4>1, <4>3, <4>4
    <3>11. CASE e.left > 1
      <4>1. f.at = "read" /\ f.left \in 1..c.len /\ t.pos = a.snap + (c.len - f.left)
        <5> DEFINE l == e.left
                   n == c.len
        <5>1. /\ l \in 1..n /\ n \in Nat /\ s.pos = a.snap + (n - l) /\ l > 1 /\ f.left = l - 1
              /\ f.at = "read" /\ t.pos = s.pos + 1
          BY <1>2, <3>3, <3>8, <3>9, <3>11
        <5> HIDE DEF l, n
        <5>2. f.left \in 1..n /\ t.pos = a.snap + (n - f.left)
          BY <1>1, <5>1
        <5> QED
          BY <5>1, <5>2 DEF n
      <4>2. Stuck(a, f)
        BY <1>3, <3>3, <3>8, <3>9, <3>10, <4>1 DEF Stuck, f
      <4> QED
        BY <4>2 DEF f
    <3>12. CASE ~(e.left > 1)
      <4>1. e.left = 1 /\ t.pos = a.snap + c.len
        BY <1>1, <1>2, <3>8, <3>9, <3>12
      <4>2. Avail(a) >= c.len
        <5>1. c.len - e.left \in Nat /\ (c.len - e.left) + 1 = c.len
          BY <1>2, <4>1
        <5>2. 1 \in Nat \ {0}
          OBVIOUS
        <5>3. Avail(a) >= (c.len - e.left) + 1
          BY <1>1, <3>2, <3>9, <5>1, <5>2, StuckNumbers
        <5> QED
          BY <5>1, <5>3
      <4>3. c.op = "vdec"
        <5>1. Avail(a) < Span(c)
          BY <3>9 DEF Lacks
        <5>2. c.op # "vdec" => Span(c) = c.len
          BY <1>2 DEF Span
        <5> QED
          BY <1>1, <1>2, <4>2, <5>1, <5>2
      <4>4. f.at = "top"
        BY <1>1, <3>3, <3>12, <4>3
      <4>5. Stuck(a, f)
        BY <1>3, <3>3, <3>8, <3>9, <3>10, <4>1, <4>3, <4>4 DEF Stuck, f
      <4> QED
        BY <4>5 DEF f
    <3> QED
      BY <3>11, <3>12
  <2>2. CASE e.at = "gate"
    <3> DEFINE g == [e EXCEPT !.at = "top"]
    <3>1. a.tail = TRUE /\ a.run = FALSE /\ s.pos = a.snap /\ Needed(e) = ByteU
      BY <2>2 DEF Stuck, Needed
    <3>2. Avail(s) = Avail(a) /\ Place(s) = Place(a)
      BY <1>1, <3>1 DEF Avail, Place, SameIn
    <3>3. ByteU <= Avail(s)
      BY <1>1, <1>2, <1>5, <3>1
    <3>4. ~ZRun(zeros, Place(s), ByteU)
      BY <1>1, <1>2, <3>1, <3>2, <3>3 DEF Lacks
    <3>5. ~ZeroAhead(s, ByteU)
      BY <1>1, <1>2, <3>3, <3>4, ZeroAheadIs
    <3>6. f = g
      BY <1>5, <2>2, <3>5 DEF Turn, GateTurn
    <3>7. g.s = s /\ g.at = "top"
      BY DEF Stuck, Underway
    <3> HIDE DEF f, g
    <3>8. Stuck(a, f)
      BY <1>3, <3>1, <3>6, <3>7 DEF Stuck, f
    <3> QED
      BY <3>8 DEF f
  <2>3. CASE e.at \in {"run", "top"}
    <3>1. Avail(s) >= Peek
      BY <1>1, <1>2, <1>5, <2>3 DEF Needed
    <3>2. CASE a.tail = TRUE
      <4>1. s.pos = a.snap
        BY <2>3, <3>2 DEF Stuck
      <4>2. Avail(s) = Avail(a)
        BY <1>1, <4>1 DEF Avail, SameIn
      <4>3. Avail(a) < Peek
        BY <3>2 DEF Lacks
      <4> QED
        BY <1>1, <1>2, <3>1, <4>2, <4>3
    <3>3. CASE a.tail = FALSE
      <4>1. c.op = "vdec" /\ s.pos = a.snap + c.len
        BY <2>3, <3>3 DEF Stuck
      <4>2. Avail(a) < c.len + Peek
        BY <3>3, <4>1 DEF Lacks, Span
      <4>3. c.len \in Nat
        BY <1>2
      <4>4. Avail(a) >= c.len + Peek
        BY <1>1, <1>2, <3>1, <4>1, <4>3, StuckNumbers
      <4> QED
        BY <1>1, <1>2, <4>2, <4>4
    <3> QED
      BY <1>1, <3>2, <3>3
  <2>4. CASE e.at = "starved"
    <3>1. f = e
      BY <1>5, <2>4 DEF Turn
    <3> QED
      BY <3>1
  <2> QED
    BY <2>1, <2>2, <2>3, <2>4 DEF Stuck
<1> QED
  BY <1>4, <1>5

LEMMA StuckExec ==
  ASSUME NEW a, Formed(a), a.active = FALSE, a.pos = a.snap, Lacks(zeros, a), a.snap <= a.hw
  PROVE  Stuck(a, Exec(a))
<1>1. PICK w : /\ w[0] = Entry(a) /\ Exec(a) = w[ExecTurns]
               /\ \A i \in 0..ExecTurns - 1 : w[i + 1] = ExecTurn(w[i])
  BY ExecIsTurns
<1> DEFINE T == {i \in Nat : i <= ExecTurns => Stuck(a, w[i])}
<1>2. ExecTurns \in Nat
  BY Sizes
<1>3. 0 \in T
  <2> DEFINE f == Entry(a)
  <2>1. /\ {"s", "left", "at"} \subseteq DOMAIN f /\ f.s = a /\ f.left = a.cmd.len
        /\ f.at = IF a.tail THEN (IF a.run THEN "run" ELSE "gate") ELSE "read"
    BY DEF Entry
  <2> HIDE DEF f
  <2>2. a.tail \in BOOLEAN /\ a.run \in BOOLEAN /\ a.cmd.len \in Nat \ {0} /\ a.snap \in Nat
    <3>1. a.cmd \in AllCommands
      BY DEF Formed, DecOk
    <3>2. a.cmd.len \in Nat \ {0}
      BY <3>1, CommandsAssumption DEF AllCommands, NoCmd
    <3> QED
      BY <3>2, FormedNumbers DEF Formed, DecOk
  <2>3. Underway(f) /\ SameIn(a, f.s)
    BY <2>1 DEF Underway, SameIn
  <2>4. CASE a.tail = FALSE
    <3>1. f.at = "read" /\ f.left \in 1..a.cmd.len /\ f.s.pos = a.snap + (a.cmd.len - f.left)
      BY <2>1, <2>2, <2>4
    <3> QED
      BY <1>1, <2>1, <2>3, <2>4, <3>1 DEF Stuck, f
  <2>5. CASE a.tail = TRUE
    <3>1. f.at = IF a.run THEN "run" ELSE "gate"
      BY <2>1, <2>5
    <3>2. Stuck(a, f)
      <4>1. CASE a.run = TRUE
        BY <2>1, <2>3, <2>5, <3>1, <4>1 DEF Stuck
      <4>2. CASE a.run = FALSE
        BY <2>1, <2>3, <2>5, <3>1, <4>2 DEF Stuck
      <4> QED
        BY <2>2, <4>1, <4>2
    <3> QED
      BY <1>1, <3>2 DEF f
  <2> QED
    BY <2>2, <2>4, <2>5
<1>4. ASSUME NEW i \in Nat, i \in T PROVE i + 1 \in T
  <2> SUFFICES ASSUME i + 1 <= ExecTurns PROVE Stuck(a, w[i + 1])
    OBVIOUS
  <2> DEFINE e == w[i]
             f == Ensured(e)
  <2>1. i \in 0..ExecTurns - 1 /\ Stuck(a, e)
    BY <1>2, <1>4
  <2>2. w[i + 1] = Turn(f)
    BY <1>1, <2>1 DEF ExecTurn, Ensured
  <2> HIDE DEF e
  <2>3. /\ Underway(f) /\ f.at = e.at /\ f.left = e.left /\ f.s = EnsureUnits(e.s, Needed(e))
    BY <2>1, EnsuredTurned DEF Stuck, Turned
  <2>4. f.s = e.s
    <3>1. ~MayWalk(e.s)
      BY <2>1 DEF Stuck, SameIn, MayWalk
    <3>2. AdvanceWalk(e.s) = e.s
      BY <3>1, HaltedWalk
    <3> QED
      BY <2>3, <3>2 DEF EnsureUnits
  <2> HIDE DEF f
  <2>5. Stuck(a, f)
    BY <2>1, <2>3, <2>4 DEF Stuck
  <2> QED
    BY <2>2, <2>5, StuckTurn
<1>5. ExecTurns \in T
  <2> HIDE DEF T
  <2> QED
    BY <1>2, <1>3, <1>4, NatInduct
<1> QED
  BY <1>1, <1>2, <1>5

LEMMA RunPendingFrozen ==
  ASSUME NEW s, Formed(s), Snapped(s)
  PROVE  Frozen(s, RunPending(s))
<1>1. CASE s.busy = FALSE
  <2>1. RunPending(s) = s
    BY <1>1 DEF RunPending
  <2> QED
    BY <2>1 DEF Frozen
<1>2. CASE s.busy = TRUE /\ Still(s)
  <2> DEFINE r == RestoreSnapshot(s)
             a == [r EXCEPT !.flag = "none"]
             e == Exec(a)
             b == RestoreSnapshot(e.s)
             t == Stalled(b)
  <2>1. /\ Formed(r) /\ Apart(s, r) /\ SameCmd(s, r)
        /\ r.pos = s.snap /\ r.hw = s.hw /\ r.snap = s.snap
    BY <1>2, RestoreSnapshotIs DEF Snapped
  <2>2. RunPending(s) = Settle(e)
    BY <1>2 DEF RunPending
  <2> HIDE DEF r
  <2>3. /\ Formed(a) /\ Apart(r, a) /\ a.pos = r.pos /\ a.hw = r.hw /\ a.snap = r.snap
        /\ a.busy = r.busy /\ a.cmd = r.cmd /\ a.csc = r.csc /\ a.tail = r.tail
        /\ a.run = r.run
    BY <2>1, FlaggedIs
  <2> HIDE DEF a
  <2>4. /\ a.busy = TRUE /\ a.cmd = s.cmd /\ a.csc = s.csc /\ a.tail = s.tail /\ a.run = s.run
        /\ a.pos = s.snap /\ a.hw = s.hw /\ a.snap = s.snap /\ SameIn(s, a)
        /\ a.chain = s.chain
    BY <1>2, <2>1, <2>3 DEF Apart, SameCtl, SameIn, SameCmd
  <2>5. s.active = FALSE /\ s.pos = s.snap /\ Lacks(zeros, s) /\ s.snap <= s.hw
    BY <1>2 DEF Still, Snapped
  <2>6. Lacks(zeros, a)
    <3>1. Avail(a) = Avail(s) /\ Place(a) = Place(s)
      BY <2>4, <2>5 DEF Avail, Place, SameIn
    <3> QED
      BY <2>4, <2>5, <3>1 DEF Lacks
  <2>7. Stuck(a, e)
    <3>1. a.active = FALSE /\ a.pos = a.snap /\ a.snap <= a.hw
      BY <2>4, <2>5 DEF SameIn
    <3> QED
      BY <2>3, <2>6, <3>1, StuckExec
  <2> HIDE DEF e
  <2>8. e.at # "done" /\ Formed(e.s) /\ e.s.snap <= e.s.hw
    BY <2>7 DEF Stuck, Underway
  <2>9. /\ Formed(b) /\ Apart(e.s, b) /\ SameCmd(e.s, b)
        /\ b.pos = e.s.snap /\ b.hw = e.s.hw /\ b.snap = e.s.snap
    BY <2>8, RestoreSnapshotIs
  <2> HIDE DEF b
  <2>10. b.active = FALSE
    BY <2>4, <2>5, <2>7, <2>9 DEF Stuck, Apart, SameIn
  <2>11. AdvanceWalk(b) = b
    BY <2>10, HaltedWalk DEF MayWalk
  <2>12. Settle(e) = t
    BY <2>8, <2>11 DEF Settle, b
  <2>13. /\ Apart(b, t)
         /\ t.busy = b.busy /\ t.cmd = b.cmd /\ t.tail = b.tail /\ t.run = b.run
         /\ t.csc = b.csc /\ t.stall = Len(b.in)
         /\ t.pos = b.pos /\ t.hw = b.hw /\ t.snap = b.snap
    BY <2>9, StalledIs
  <2> HIDE DEF t
  <2>14. /\ t.busy = s.busy /\ t.cmd = s.cmd /\ t.tail = s.tail /\ t.run = s.run /\ t.csc = s.csc
         /\ t.snap = s.snap /\ t.pos = s.pos /\ t.chain = s.chain
    <3>1. /\ e.s.busy = a.busy /\ e.s.cmd = a.cmd /\ e.s.tail = a.tail /\ e.s.run = a.run
          /\ e.s.csc = a.csc /\ e.s.snap = a.snap /\ e.s.chain = a.chain
      BY <2>7 DEF Stuck
    <3>2. /\ b.busy = e.s.busy /\ b.cmd = e.s.cmd /\ b.tail = e.s.tail /\ b.run = e.s.run
          /\ b.csc = e.s.csc /\ b.snap = e.s.snap /\ b.pos = e.s.snap /\ b.chain = e.s.chain
      BY <2>9 DEF Apart, SameCtl, SameCmd
    <3>3. t.chain = b.chain
      BY <2>13 DEF Apart, SameCtl
    <3> QED
      BY <1>2, <2>4, <2>5, <2>13, <3>1, <3>2, <3>3
  <2>15. /\ t.madr = s.madr /\ t.in = s.in /\ t.active = FALSE /\ t.stall = Len(t.in)
         /\ (Len(s.in) = 0 => t.hw = s.hw)
    BY <2>4, <2>5, <2>7, <2>9, <2>13 DEF Stuck, Apart, SameIn
  <2>16. Lacks(zeros, t)
    <3>1. Avail(t) = Avail(s) /\ Place(t) = Place(s)
      BY <2>14, <2>15 DEF Avail, Place
    <3> QED
      BY <2>5, <2>14, <3>1 DEF Lacks
  <2> QED
    BY <1>2, <2>2, <2>5, <2>12, <2>14, <2>15, <2>16 DEF Frozen, Still
<1>3. CASE ~Still(s)
  BY <1>3 DEF Frozen
<1>4. s.busy \in BOOLEAN
  BY DEF Formed, DecOk
<1> QED
  BY <1>1, <1>2, <1>3, <1>4

\* And no walk either.
LEMMA WalkFrozen ==
  ASSUME NEW s
  PROVE  Frozen(s, AdvanceWalk(s))
<1>1. Still(s) => AdvanceWalk(s) = s
  BY HaltedWalk DEF Still, MayWalk
<1> QED
  BY <1>1 DEF Frozen

-----------------------------------------------------------------------------
(* What any call may do to the telling *)

Serves(s, t) ==
  Fits => \A h : Tells(zeros, h, s) =>
    /\ Tells(zeros, h, t)
    /\ s.busy = TRUE /\ t.busy = FALSE => Answers(h, t)
    /\ s.busy = FALSE => t.busy = FALSE /\ t.cmd = s.cmd /\ t.flag = s.flag

LEMMA ServesOn ==
  ASSUME NEW s, NEW t, NEW u, t.busy \in BOOLEAN, Serves(s, t), Serves(t, u)
  PROVE  Serves(s, u)
<1> SUFFICES ASSUME Fits, NEW h, Tells(zeros, h, s)
             PROVE  /\ Tells(zeros, h, u)
                    /\ s.busy = TRUE /\ u.busy = FALSE => Answers(h, u)
                    /\ s.busy = FALSE => u.busy = FALSE /\ u.cmd = s.cmd /\ u.flag = s.flag
  BY DEF Serves
<1>1. /\ Tells(zeros, h, t)
      /\ s.busy = TRUE /\ t.busy = FALSE => Answers(h, t)
      /\ s.busy = FALSE => t.busy = FALSE /\ t.cmd = s.cmd /\ t.flag = s.flag
  BY DEF Serves
<1>2. /\ Tells(zeros, h, u)
      /\ t.busy = TRUE /\ u.busy = FALSE => Answers(h, u)
      /\ t.busy = FALSE => u.busy = FALSE /\ u.cmd = t.cmd /\ u.flag = t.flag
  BY <1>1 DEF Serves
<1>3. s.busy = TRUE /\ u.busy = FALSE => Answers(h, u)
  BY <1>1, <1>2 DEF Answers
<1> QED
  BY <1>1, <1>2, <1>3

LEMMA SameServes ==
  ASSUME NEW s, NEW t, SameDec(s, t), t.madr = s.madr, t.in = s.in, t.chain = s.chain
  PROVE  Serves(s, t)
BY TellsOn DEF Serves, SameDec

LEMMA WalkRunServes ==
  ASSUME NEW s, Formed(s), Snapped(s)
  PROVE  Serves(s, RunPending(AdvanceWalk(s)))
<1> DEFINE t == AdvanceWalk(s)
           u == RunPending(t)
<1> SUFFICES ASSUME Fits, NEW h, Tells(zeros, h, s)
             PROVE  /\ Tells(zeros, h, u)
                    /\ s.busy = TRUE /\ u.busy = FALSE => Answers(h, u)
                    /\ s.busy = FALSE => u.busy = FALSE /\ u.cmd = s.cmd /\ u.flag = s.flag
  BY DEF Serves
<1>1. Pends(h, t) /\ Formed(t) /\ SameDec(s, t)
  BY TellsPends, AdvanceWalkWalked DEF Walked
<1> HIDE DEF t
<1>2. Snapped(t)
  BY <1>1 DEF SameDec, Snapped
<1>3. /\ Tells(zeros, h, u)
      /\ t.busy = TRUE /\ u.busy = FALSE => Answers(h, u)
      /\ t.busy = FALSE => u = t
  BY <1>1, <1>2, RunPendingTells
<1> QED
  BY <1>1, <1>3 DEF SameDec

LEMMA ServiceInputServes ==
  ASSUME NEW s, Formed(s), Snapped(s)
  PROVE  Serves(s, ServiceInput(s))
<1> DEFINE t == AdvanceWalk(s)
<1>1. CASE t.busy /\ Len(t.in) = t.stall
  <2>1. ServiceInput(s) = t
    BY <1>1 DEF ServiceInput
  <2>2. Walked(s, t)
    BY AdvanceWalkWalked
  <2> HIDE DEF t
  <2> SUFFICES ASSUME NEW h, Tells(zeros, h, s)
               PROVE  Tells(zeros, h, t) /\ t.busy = s.busy /\ s.busy = TRUE
    BY <2>1 DEF Serves
  <2>3. SameDec(s, t) /\ Fed(s, t) /\ t.chain = s.chain /\ Formed(t)
    BY <2>2 DEF Walked, SameCtl
  <2>4. t.busy = s.busy /\ t.stall = s.stall
    BY <2>3 DEF SameDec
  <2>5. s.busy = TRUE
    BY <1>1, <2>4 DEF Formed, DecOk
  <2>6. s.stall = Len(s.in)
    BY <2>5 DEF Tells
  <2>7. Len(t.in) = Len(s.in)
    BY <1>1, <2>4, <2>6
  <2>8. t.in = s.in /\ t.madr - Len(t.in) = s.madr - Len(s.in)
    BY <2>3, <2>7 DEF Fed
  <2>9. t.madr = s.madr
    <3>1. t.madr \in Nat /\ s.madr \in Nat /\ Len(s.in) \in Nat
      BY <2>3, FormedNumbers
    <3> QED
      BY <2>7, <2>8, <3>1
  <2> QED
    BY <2>3, <2>4, <2>5, <2>8, <2>9, TellsOn
<1>2. CASE ~(t.busy /\ Len(t.in) = t.stall)
  <2>1. ServiceInput(s) = RunPending(t)
    BY <1>2 DEF ServiceInput
  <2> QED
    BY <2>1, WalkRunServes
<1> QED
  BY <1>1, <1>2

\* A command ends no sooner than it began.
LEMMA EndAfter ==
  ASSUME NEW c \in Commands \cup Frames, NEW u \in Nat, NEW x, EndIs(zeros, c, u, x)
  PROVE  x \in Nat /\ u <= x
<1>1. /\ c.len \in Nat \ {0} /\ (c.op = "csc" => c.mbs \in Nat \ {0})
      /\ c.op \in {"vdec", "setiq", "bdec", "csc"}
  BY CommandsAssumption
<1>2. CASE c.op = "csc"
  <2>1. x = u + c.len * c.mbs /\ c.mbs \in Nat
    BY <1>1, <1>2 DEF EndIs
  <2>2. c.len * c.mbs \in Nat
    BY <1>1, <2>1, Product
  <2> QED
    BY <2>1, <2>2
<1>3. CASE c.op = "bdec"
  <2>1. TailIs(zeros, u + c.len, x) /\ u + c.len \in Nat
    BY <1>1, <1>3 DEF EndIs
  <2>2. x \in Nat /\ u + c.len <= x
    BY <2>1, TailAfter
  <2> QED
    BY <1>1, <2>2
<1>4. CASE c.op \notin {"csc", "bdec"}
  BY <1>1, <1>4 DEF EndIs
<1> QED
  BY <1>2, <1>3, <1>4

\* A command given to a decoder that is idle and tells where it is.
LEMMA CmdWriteTells ==
  ASSUME NEW s, NEW c \in Commands \cup Frames, Formed(s), s.busy = FALSE, Fits,
         NEW h, Tells(zeros, h, s), NEW g, g.start = h.expect,
         EndIs(zeros, c, g.start, g.expect), g.expect + Peek <= Units,
         c \in IF s.chain THEN Commands ELSE Frames
  PROVE  LET t == CmdWrite(s, c)
         IN Tells(zeros, g, t) /\ (t.busy = FALSE => Answers(g, t))
<1> DEFINE a == [s EXCEPT !.cmd = c, !.busy = TRUE, !.csc = 0, !.tail = FALSE, !.run = FALSE,
                          !.flag = "none", !.raised = @ \ {"ipu"}]
           b == TakeSnapshot(a)
           t == RunPending(b)
<1>1. CmdWrite(s, c) = t
  BY DEF CmdWrite
<1>2. /\ SameIn(s, a) /\ a.busy = TRUE /\ a.cmd = c /\ a.tail = FALSE /\ a.csc = 0
      /\ a.run = FALSE /\ a.chain = s.chain /\ a.pos = s.pos /\ a.hw = s.hw
  BY DEF Formed, Full, AllFields, SameIn
<1>3. Formed(b) /\ Snapped(b) /\ Apart(a, b) /\ SameCmd(a, b)
  BY WrittenIs DEF AllCommands
<1>4. b.snap = a.pos /\ b.pos = a.pos /\ b.hw = a.hw
  <2> HIDE DEF a
  <2> QED
    BY <1>3 DEF TakeSnapshot, Formed, Full, AllFields, Apart
<1> HIDE DEF a, b
<1>5. /\ b.busy = TRUE /\ b.cmd = c /\ b.tail = FALSE /\ b.csc = 0 /\ b.run = FALSE
      /\ b.chain = s.chain /\ b.madr = s.madr /\ b.in = s.in
      /\ b.pos = s.pos /\ b.snap = s.pos /\ b.hw = s.hw
  BY <1>2, <1>3, <1>4 DEF Apart, SameCtl, SameIn, SameCmd
<1>6. /\ Place(b) = Place(s) /\ Reach(b) = Reach(s) /\ Mark(b) = Place(s) /\ Edge(b) = Edge(s)
  BY <1>5 DEF Place, Reach, Mark, Edge
<1>7. h.expect \in Nat /\ Place(s) = h.expect /\ Reach(s) = h.expect
  BY DEF Tells
<1>8. c.op \in {"vdec", "setiq", "bdec", "csc"} /\ c.len \in Nat \ {0}
      /\ (c.op = "csc" => c.mbs \in Nat \ {0})
  BY CommandsAssumption
<1>9. Apt(b)
  BY <1>5, <1>8 DEF Apt
<1>10. g.start <= g.expect /\ g.expect \in Nat
  BY <1>7, <1>8, EndAfter
<1>11. Behind(zeros, g, b)
  <2>1. Mark(b) = g.start + b.csc * b.cmd.len
    <3>1. b.csc * b.cmd.len = 0
      BY <1>5, <1>8
    <3>2. Mark(b) = g.start /\ g.start \in Nat
      BY <1>6, <1>7
    <3>3. g.start + 0 = g.start
      BY <3>2
    <3> QED
      BY <3>1, <3>2, <3>3
  <2>2. Reach(b) <= g.expect
    BY <1>6, <1>7, <1>10
  <2> QED
    BY <1>5, <1>7, <1>10, <2>1, <2>2 DEF Behind
<1>12. Nameable(b)
  <2> DEFINE o == (s.madr - Len(s.in)) * QwU
             y == Len(s.in) * QwU
             d == (Fifo + 1) * QwU
             k == s.hw \div QwU
             kq == k * QwU
             n == Len(s.in)
  <2>1. /\ Edge(s) = o + y /\ Reach(s) = o + s.hw /\ o \in Nat /\ y \in Nat
        /\ s.hw \in Nat /\ k \in Nat /\ n \in Nat /\ d \in Nat /\ QwU \in Nat \ {0}
    BY PlaceNumbers, FormedUnits, FormedNumbers, DepthNumbers, SizesPositive DEF Edge, Reach
  <2>2. kq \in Nat /\ kq <= s.hw
    <3>1. s.hw = k * QwU + (s.hw % QwU) /\ s.hw % QwU \in 0..QwU - 1
      BY <2>1, Quotient
    <3>2. k * QwU \in Nat
      BY <2>1, Product
    <3> QED
      BY <2>1, <3>1, <3>2
  <2>3. n <= k + (Fifo + 1) /\ k + (Fifo + 1) \in Nat
    <3>1. n - k <= Fifo + 1 /\ Fifo \in Nat
      BY SizesPositive DEF Formed, FifoOk
    <3> HIDE DEF n, k
    <3> QED
      BY <2>1, <3>1
  <2>4. y <= kq + d
    <3>1. (k + (Fifo + 1)) * QwU = kq + d
      <4>1. Fifo + 1 \in Nat /\ QwU \in Nat /\ k \in Nat
        BY <2>1, SizesPositive
      <4> HIDE DEF k
      <4> QED
        BY <4>1
    <3>2. n * QwU <= (k + (Fifo + 1)) * QwU
      <4>1. n \in Nat /\ k + (Fifo + 1) \in Nat /\ QwU \in Nat
        BY <2>1, <2>3
      <4> HIDE DEF n, k
      <4> QED
        BY <2>3, <4>1, Product
    <3> QED
      BY <3>1, <3>2
  <2>5. Edge(b) <= Mark(b) + d
    <3>1. Edge(b) = o + y /\ Mark(b) = o + s.hw
      BY <1>6, <1>7, <2>1
    <3> HIDE DEF o, y, d, kq
    <3> QED
      BY <2>1, <2>2, <2>4, <3>1
  <2> QED
    BY <2>5 DEF Nameable
<1>13. Pends(g, b)
  BY <1>5, <1>9, <1>11, <1>12 DEF Pends, Kept, Supplied
<1>14. Tells(zeros, g, t) /\ (b.busy = TRUE /\ t.busy = FALSE => Answers(g, t))
  BY <1>3, <1>13, RunPendingTells
<1> QED
  BY <1>1, <1>5, <1>14

\* The position the library computes is the cursor's.
LEMMA StreamPositionIs ==
  ASSUME NEW s, Formed(s), Len(s.in) - (s.pos \div QwU) <= Fifo + 1
  PROVE  StreamPosition(s) = Place(s)
<1> DEFINE n == Len(s.in)
           k == s.pos \div QwU
           r == s.pos % QwU
           a == s.madr
<1>1. /\ n \in Nat /\ a \in Nat /\ n <= a /\ k \in Nat /\ r \in 0..QwU - 1
      /\ s.pos = k * QwU + r /\ QwU \in Nat \ {0} /\ n - k <= Fifo + 1 /\ Fifo \in Nat
  BY FormedNumbers, SizesPositive, Quotient
<1>2. k <= n
  <2>1. /\ s.hw <= n * QwU \/ (n = 0 /\ s.hw < QwU)
        /\ s.pos \in Nat /\ s.hw \in Nat /\ s.pos <= s.hw /\ n * QwU \in Nat
    BY FormedNumbers, FormedUnits DEF Formed, FifoOk
  <2>2. CASE s.pos <= n * QwU
    <3> DEFINE y == n * QwU
    <3>1. y \div QwU = n /\ y \in Nat /\ s.pos <= y
      BY <1>1, <2>1, <2>2, WholeTimes
    <3> HIDE DEF y
    <3> QED
      BY <1>1, <2>1, <3>1, QuotientMonotone
  <2>3. CASE n = 0 /\ s.pos < QwU
    <3>2. k = 0
      <4>1. s.pos \in Nat /\ s.pos < QwU /\ QwU \in Nat \ {0}
        BY <1>1, <2>1, <2>3
      <4> DEFINE p == s.pos
                 q == QwU
      <4>2. p \in Nat /\ q \in Nat \ {0} /\ p < q
        BY <4>1
      <4> HIDE DEF p, q
      <4>3. p \div q = 0
        BY <4>2
      <4> QED
        BY <4>3 DEF p, q
    <3> QED
      BY <2>3, <3>2
  <2> DEFINE y == n * QwU
  <2>4. /\ y \in Nat /\ s.pos \in Nat /\ s.hw \in Nat /\ s.pos <= s.hw
        /\ s.hw <= y \/ (n = 0 /\ s.hw < QwU)
    BY <2>1
  <2> HIDE DEF y, n
  <2>5. s.pos <= y \/ (n = 0 /\ s.pos < QwU)
    <3>1. CASE s.hw <= y
      BY <2>4, <3>1
    <3>2. CASE n = 0 /\ s.hw < QwU
      <4>1. s.pos < QwU
        BY <2>4, <3>2, SizesPositive
      <4> QED
        BY <3>2, <4>1
    <3> QED
      BY <2>4, <3>1, <3>2
  <2> QED
    BY <2>2, <2>3, <2>5 DEF y
<1>3. Resident(s) = n - k
  <2>1. QwFrom(s, s.pos) = IF n > k THEN n - k ELSE 0
    BY DEF QwFrom
  <2> HIDE DEF n, k
  <2>2. QwFrom(s, s.pos) = n - k
    BY <1>1, <1>2, <2>1
  <2> QED
    BY <1>1, <2>2 DEF Resident, Least
<1>4. StreamPosition(s) = (a - (n - k)) * QwU + r
  BY <1>3 DEF StreamPosition
<1>5. Place(s) = (a - n) * QwU + s.pos
  BY DEF Place
<1> HIDE DEF n, k, r, a
<1>6. (a - (n - k)) * QwU = (a - n) * QwU + k * QwU
  <2>1. a - (n - k) = (a - n) + k /\ a - n \in Nat
    BY <1>1, <1>2
  <2>2. ASSUME NEW x \in Nat PROVE (x + k) * QwU = x * QwU + k * QwU
    BY <1>1
  <2> QED
    BY <2>1, <2>2
<1>7. (a - n) * QwU \in Nat /\ k * QwU \in Nat
  <2>1. a - n \in Nat
    BY <1>1
  <2> QED
    BY <1>1, <2>1, Product
<1> QED
  BY <1>1, <1>4, <1>5, <1>6, <1>7

\* As long as the telling is true.
LEMMA TellsPosition ==
  ASSUME NEW s, NEW h, Formed(s), Snapped(s), Tells(zeros, h, s)
  PROVE  StreamPosition(s) = Place(s)
<1> DEFINE n == Len(s.in)
           k == s.pos \div QwU
<1>1. /\ n \in Nat /\ s.pos \in Nat /\ s.hw \in Nat /\ k \in Nat /\ QwU \in Nat \ {0}
      /\ Fifo \in Nat /\ s.snap \in Nat /\ (s.madr - n) * QwU \in Nat /\ s.busy \in BOOLEAN
  BY FormedNumbers, SizesPositive, Quotient, PlaceNumbers DEF Formed, DecOk
<1>2. CASE s.busy = FALSE
  <2>1. Place(s) = Reach(s)
    BY <1>2 DEF Tells
  <2>2. s.pos = s.hw
    <3> DEFINE o == (s.madr - n) * QwU
    <3>1. o + s.pos = o + s.hw /\ o \in Nat /\ s.pos \in Nat /\ s.hw \in Nat
      BY <1>1, <2>1 DEF Place, Reach
    <3> HIDE DEF o
    <3> QED
      BY <3>1
  <2>3. n - k <= Fifo + 1
    BY <2>2 DEF Formed, FifoOk
  <2> QED
    BY <2>3, StreamPositionIs
<1>3. CASE s.busy = TRUE
  <2>1. Place(s) = Mark(s) /\ Nameable(s)
    BY <1>3 DEF Tells
  <2> DEFINE o == (s.madr - n) * QwU
             y == n * QwU
             d == (Fifo + 1) * QwU
  <2>2. y <= s.pos + d /\ y \in Nat /\ d \in Nat
    <3>1. Edge(s) = o + y /\ Place(s) = o + s.pos /\ o \in Nat /\ y \in Nat /\ d \in Nat
          /\ Edge(s) <= Place(s) + d
      BY <1>1, <2>1, PlaceNumbers, FormedUnits, DepthNumbers DEF Edge, Place, Nameable
    <3> HIDE DEF o, y, d
    <3> QED
      BY <1>1, <3>1
  <2>3. n - k <= Fifo + 1
    <3> SUFFICES ASSUME ~(n - k <= Fifo + 1) PROVE FALSE
      OBVIOUS
    <3>1. n >= k + 1 + (Fifo + 1)
      <4> HIDE DEF n, k
      <4> QED
        BY <1>1
    <3>2. s.pos < k * QwU + QwU /\ k * QwU \in Nat
      <4>1. s.pos = k * QwU + (s.pos % QwU) /\ s.pos % QwU \in 0..QwU - 1
        BY <1>1, Quotient
      <4>2. k * QwU \in Nat
        BY <1>1, Product
      <4> QED
        BY <1>1, <4>1, <4>2
    <3>3. (k + 1 + (Fifo + 1)) * QwU = k * QwU + QwU + d
      <4>1. Fifo + 1 \in Nat /\ QwU \in Nat /\ k \in Nat
        BY <1>1
      <4> HIDE DEF k
      <4> QED
        BY <4>1
    <3>4. (k + 1 + (Fifo + 1)) * QwU <= y
      <4>1. n \in Nat /\ k + 1 + (Fifo + 1) \in Nat /\ QwU \in Nat
        BY <1>1
      <4> HIDE DEF n, k
      <4> QED
        BY <3>1, <4>1, Product
    <3> DEFINE kq == k * QwU
    <3>5. kq + QwU + d <= y /\ s.pos < kq + QwU /\ kq \in Nat
      BY <3>2, <3>3, <3>4
    <3> HIDE DEF kq, y, d
    <3> QED
      BY <1>1, <2>2, <3>5
  <2> QED
    BY <2>3, StreamPositionIs
<1> QED
  BY <1>1, <1>2, <1>3

-----------------------------------------------------------------------------
(* What a call of the decoder may do *)

\* To the state's form, to what it owes, to what it tells and to a channel that
\* stands still.
Goes(s, t) == Runs(s, t) /\ Pays(s, t) /\ Serves(s, t) /\ Frozen(s, t)

LEMMA GoesOn ==
  ASSUME NEW s, NEW t, NEW u, Goes(s, t), Goes(t, u)
  PROVE  Goes(s, u)
<1>1. Runs(s, u)
  BY RunsOn DEF Goes
<1>2. Pays(s, u)
  BY PaysOn DEF Goes
<1>3. Serves(s, u)
  <2>1. t.busy \in BOOLEAN
    BY DEF Goes, Runs, Formed, DecOk
  <2> QED
    BY <2>1, ServesOn DEF Goes
<1>4. Frozen(s, u)
  BY FrozenOn DEF Goes
<1> QED
  BY <1>1, <1>2, <1>3, <1>4 DEF Goes

LEMMA GoesFormed ==
  ASSUME NEW s, NEW t, Goes(s, t)
  PROVE  Formed(t) /\ Snapped(t) /\ SameCtl(s, t) /\ Quiet(s, t) /\ Pays(s, t)
BY DEF Goes, Runs

LEMMA GoesSelf ==
  ASSUME NEW s, Formed(s), Snapped(s)
  PROVE  Goes(s, s)
<1>1. Serves(s, s) /\ Frozen(s, s)
  BY SameServes, SameFrozen DEF SameDec
<1> QED
  BY <1>1, RunsSelf DEF Goes, Pays

LEMMA DrainCh3Goes ==
  ASSUME NEW s, Formed(s), Snapped(s)
  PROVE  Goes(s, DrainCh3(s))
<1> DEFINE t == DrainCh3(s)
<1>1. Runs(s, t) /\ Pays(s, t)
  BY DrainCh3Runs, DrainCh3Acc, SameAccPays
<1>2. SameDec(s, t) /\ SameIn(s, t) /\ SameCtl(s, t)
  BY DrainCh3Drained DEF Drained
<1> HIDE DEF t
<1>3. t.madr = s.madr /\ t.in = s.in /\ t.chain = s.chain /\ t.active = s.active
  BY <1>2 DEF SameIn, SameCtl
<1>4. Serves(s, t)
  BY <1>2, <1>3, SameServes
<1>5. Frozen(s, t)
  BY <1>2, <1>3, SameFrozen
<1> QED
  BY <1>1, <1>4, <1>5 DEF Goes, t

LEMMA AdvanceWalkKept ==
  ASSUME NEW s, Formed(s), Snapped(s)
  PROVE  LET t == AdvanceWalk(s) IN Runs(s, t) /\ Pays(s, t) /\ Frozen(s, t)
<1> DEFINE t == AdvanceWalk(s)
<1>1. Runs(s, t) /\ Frozen(s, t)
  BY AdvanceWalkRuns, WalkFrozen
<1>2. SameOut(s, t) /\ SameDec(s, t)
  BY AdvanceWalkWalked DEF Walked
<1> HIDE DEF t
<1>3. SameAcc(s, t)
  BY <1>2 DEF SameAcc, SameOut, SameDec
<1>4. Pays(s, t)
  BY <1>3, SameAccPays
<1> QED
  BY <1>1, <1>4 DEF t

\* The walk alone may leave a pending command input it has not looked at.
LEMMA WalkRunGoes ==
  ASSUME NEW s, Formed(s), Snapped(s)
  PROVE  Goes(s, RunPending(AdvanceWalk(s)))
<1> DEFINE t == AdvanceWalk(s)
           u == RunPending(t)
<1>1. Runs(s, t) /\ Pays(s, t) /\ Frozen(s, t)
  BY AdvanceWalkKept
<1>2. Serves(s, u)
  BY WalkRunServes
<1> HIDE DEF t
<1>3. Runs(t, u) /\ Pays(t, u) /\ Frozen(t, u)
  BY <1>1, RunPendingRuns, RunPendingPays, RunPendingFrozen DEF Runs
<1> HIDE DEF u
<1>4. Runs(s, u)
  BY <1>1, <1>3, RunsOn
<1>5. Pays(s, u)
  BY <1>1, <1>3, PaysOn
<1>6. Frozen(s, u)
  BY <1>1, <1>3, FrozenOn
<1> QED
  BY <1>2, <1>4, <1>5, <1>6 DEF Goes, u, t

LEMMA ServiceInputGoes ==
  ASSUME NEW s, Formed(s), Snapped(s)
  PROVE  Goes(s, ServiceInput(s))
<1> DEFINE t == AdvanceWalk(s)
<1>1. CASE t.busy /\ Len(t.in) = t.stall
  <2>1. ServiceInput(s) = t
    BY <1>1 DEF ServiceInput
  <2>2. Runs(s, t) /\ Pays(s, t) /\ Frozen(s, t)
    BY AdvanceWalkKept
  <2>3. Serves(s, ServiceInput(s))
    BY ServiceInputServes
  <2> HIDE DEF t
  <2> QED
    BY <2>1, <2>2, <2>3 DEF Goes
<1>2. CASE ~(t.busy /\ Len(t.in) = t.stall)
  <2>1. ServiceInput(s) = RunPending(t)
    BY <1>2 DEF ServiceInput
  <2> QED
    BY <2>1, WalkRunGoes
<1> QED
  BY <1>1, <1>2

\* A command written to an idle decoder owes all its macroblocks.
LEMMA CmdWriteOwes ==
  ASSUME NEW s, NEW c \in Commands \cup Frames, Formed(s), s.busy = FALSE
  PROVE  LET t == CmdWrite(s, c)
         IN Apt(t) /\ Total(t) = Total(s) + Macroblocks(c)
<1> DEFINE a == [s EXCEPT !.cmd = c, !.busy = TRUE, !.csc = 0, !.tail = FALSE, !.run = FALSE,
                          !.flag = "none", !.raised = @ \ {"ipu"}]
           b == TakeSnapshot(a)
<1>1. CmdWrite(s, c) = RunPending(b)
  BY DEF CmdWrite
<1>2. /\ SameOut(s, a) /\ a.busy = TRUE /\ a.cmd = c /\ a.tail = FALSE /\ a.csc = 0
  BY DEF Formed, Full, AllFields, SameOut
<1>3. Formed(b) /\ Snapped(b) /\ Apart(a, b) /\ SameCmd(a, b)
  BY WrittenIs DEF AllCommands
<1> HIDE DEF a, b
<1>4. SameAcc(a, b)
  BY <1>3, OutAcc DEF Apart
<1>5. /\ c.op \in {"vdec", "setiq", "bdec", "csc"} /\ Macroblocks(c) \in Nat
      /\ (c.op = "csc" => 0 < c.mbs)
  BY CommandsAssumption, MacroblocksAre DEF AllCommands
<1>6. Apt(a)
  BY <1>2, <1>5 DEF Apt
<1>7. Total(a) = Total(s) + Macroblocks(c)
  <2>1. s.out + s.taken \in Nat
    BY DEF Formed, OutOk
  <2>2. Owed(a) = Macroblocks(c) - (0 + 0) /\ Owed(s) = 0
    BY <1>2 DEF Owed
  <2>3. Total(a) = s.out + s.taken + Owed(a) /\ Total(s) = s.out + s.taken + Owed(s)
    BY <1>2 DEF Total, SameOut
  <2> QED
    BY <1>5, <2>1, <2>2, <2>3
<1>8. Pays(b, RunPending(b))
  BY <1>3, RunPendingPays
<1>9. Apt(b) /\ Total(b) = Total(a)
  BY <1>4, <1>6, SameAccPays
<1> QED
  BY <1>1, <1>7, <1>8, <1>9 DEF Pays

\* The FIFO is emptied and the cursor stands bp units into the quadword to come.
LEMMA BclrIs ==
  ASSUME NEW s, NEW bp \in 0..QwU - 1, Formed(s)
  PROVE  LET t == Bclr(s, bp)
         IN /\ Formed(t) /\ SameCtl(s, t) /\ SameOut(s, t) /\ SameInput(s, t) /\ t.str = s.str
            /\ t.in = <<>> /\ t.pos = bp /\ t.hw = bp /\ t.flag = "none"
            /\ t.snap = (IF s.busy THEN bp ELSE s.snap)
            /\ t.stall = (IF s.busy THEN 0 ELSE s.stall)
            /\ t.busy = s.busy /\ t.cmd = s.cmd /\ t.tail = s.tail /\ t.run = s.run
            /\ t.csc = s.csc
<1> DEFINE t == Bclr(s, bp)
<1>1. /\ Full(t) /\ SameCtl(s, t) /\ SameOut(s, t) /\ SameInput(s, t) /\ t.str = s.str
      /\ t.raised = s.raised \cup {"ipu"}
      /\ t.in = <<>> /\ t.pos = bp /\ t.hw = bp /\ t.flag = "none"
      /\ t.snap = (IF s.busy THEN bp ELSE s.snap)
      /\ t.stall = (IF s.busy THEN 0 ELSE s.stall)
      /\ t.busy = s.busy /\ t.cmd = s.cmd /\ t.tail = s.tail /\ t.run = s.run
      /\ t.csc = s.csc /\ t.pred = s.pred /\ t.snapPred = s.snapPred /\ t.fresh = s.fresh
  BY DEF Formed, Bclr, Full, AllFields, SameCtl, SameOut, SameInput
<1> HIDE DEF t
<1>2. CtlOk(t)
  BY <1>1 DEF Formed, CtlOk, SameCtl, SameInput
<1>3. OutOk(t)
  BY <1>1 DEF Formed, OutOk, SameOut
<1>4. bp \in 0..Units /\ bp \in Nat /\ bp < QwU /\ 0 \in 0..Units
  <2>1. QwU <= Units /\ Units \in Nat /\ QwU \in Nat
    BY QuadUnits, SizesPositive
  <2> QED
    BY <2>1
<1>5. DecOk(t)
  BY <1>1, <1>4 DEF Formed, DecOk
<1>6. RegsOk(t.chain, t.madr, t.qwc, t.tadr)
  BY <1>1 DEF Formed, SameCtl, SameInput
<1>7. FifoOk(t.in, t.madr, t.pos, t.hw)
  <2>1. t.in \in Seq(0..Quads - 1) /\ Len(t.in) = 0 /\ t.madr \in Nat
    BY <1>1, FormedNumbers DEF SameInput
  <2>2. bp \div QwU = 0
    <3>1. 0 * QwU <= bp /\ bp < 0 * QwU + QwU
      BY <1>4, SizesPositive
    <3> QED
      BY <1>4, <3>1, SizesPositive, Quotient
  <2> QED
    BY <1>1, <1>4, <2>1, <2>2, SizesPositive DEF FifoOk
<1> QED
  BY <1>1, <1>2, <1>3, <1>5, <1>6, <1>7 DEF Formed, t

-----------------------------------------------------------------------------
(* The controller's part in it *)

\* A store that touches no register of channel 4 but its STR and no position.
Poked(s, t) ==
  /\ Full(t) /\ CtlOk(t) /\ OutOk(t) /\ SameDec(s, t)
  /\ t.chain = s.chain /\ t.published = s.published
  /\ t.madr = s.madr /\ t.qwc = s.qwc /\ t.tadr = s.tadr /\ t.in = s.in
  /\ t.out + t.taken = s.out + s.taken

\* What a store to the controller may do, and what it may not do to a channel 4
\* that is neither running nor queued.
Sits(s, t) ==
  /\ Formed(t) /\ Snapped(t) /\ Pays(s, t) /\ Serves(s, t)
  /\ t.chain = s.chain /\ t.published = s.published

Stays(s, t) ==
  /\ Sits(s, t)
  /\ "toIpu" \notin s.pending => "toIpu" \notin t.pending /\ Quiet(s, t) /\ Frozen(s, t)

LEMMA PokedSits ==
  ASSUME NEW s, NEW t, Formed(s), Snapped(s), Poked(s, t)
  PROVE  Sits(s, t)
<1>1. DecOk(t) /\ Snapped(t)
  BY DEF Formed, Snapped, DecOk, Poked, SameDec
<1>2. RegsOk(t.chain, t.madr, t.qwc, t.tadr) /\ FifoOk(t.in, t.madr, t.pos, t.hw)
  BY DEF Formed, Poked, SameDec
<1>3. Pays(s, t)
  BY SameAccPays DEF Poked, SameDec, SameAcc
<1>4. Serves(s, t)
  BY SameServes DEF Poked
<1> QED
  BY <1>1, <1>2, <1>3, <1>4 DEF Formed, Poked, Sits

LEMMA PokedStays ==
  ASSUME NEW s, NEW t, Formed(s), Snapped(s), Poked(s, t),
         "toIpu" \notin s.pending => "toIpu" \notin t.pending,
         s.active = FALSE => t.active = FALSE
  PROVE  Stays(s, t)
<1>1. Quiet(s, t)
  BY DEF Quiet, Poked
<1>2. Frozen(s, t)
  BY SameFrozen DEF Poked
<1> QED
  BY <1>1, <1>2, PokedSits DEF Stays

LEMMA GoesStays ==
  ASSUME NEW s, NEW t, Goes(s, t)
  PROVE  Stays(s, t)
BY DEF Goes, Runs, Stays, Sits, SameCtl

LEMMA SitsOn ==
  ASSUME NEW s, NEW t, NEW u, Sits(s, t), Sits(t, u)
  PROVE  Sits(s, u)
<1>1. t.busy \in BOOLEAN
  BY DEF Sits, Formed, DecOk
<1>2. Serves(s, u)
  BY <1>1, ServesOn DEF Sits
<1> QED
  BY <1>2, PaysOn DEF Sits

LEMMA StaysOn ==
  ASSUME NEW s, NEW t, NEW u, Stays(s, t), Stays(t, u)
  PROVE  Stays(s, u)
<1>1. Sits(s, u)
  BY SitsOn DEF Stays
<1>2. Quiet(s, t) /\ Quiet(t, u) => Quiet(s, u)
  BY QuietOn
<1>3. Frozen(s, t) /\ Frozen(t, u) => Frozen(s, u)
  BY FrozenOn
<1> QED
  BY <1>1, <1>2, <1>3 DEF Stays

LEMMA KickGoes ==
  ASSUME NEW s, NEW ch \in DmaChannels, Formed(s), Snapped(s)
  PROVE  /\ Sits(s, Kick(s, ch)) /\ Kick(s, ch).pending = s.pending
         /\ ch # "toIpu" => Quiet(s, Kick(s, ch)) /\ Frozen(s, Kick(s, ch))
<1>1. CASE ch = "copy"
  <2> DEFINE t == Complete(s, "copy")
  <2>1. Kick(s, ch) = t
    BY <1>1 DEF Kick
  <2>2. /\ Full(t) /\ SameCtl(s, t) /\ SameOut(s, t) /\ SameIn(s, t) /\ SameDec(s, t)
        /\ t.str = s.str \ {"copy"} /\ t.raised = s.raised \cup {"copy"}
    <3>1. s.active \in BOOLEAN
      BY DEF Formed, CtlOk
    <3> QED
      BY <3>1 DEF Formed, Complete, Full, AllFields, SameCtl, SameOut, SameIn, SameDec
  <2> HIDE DEF t
  <2>3. CtlOk(t)
    BY <2>2 DEF Formed, CtlOk, SameCtl, SameIn, DmaChannels
  <2>4. OutOk(t)
    BY <2>2 DEF Formed, OutOk, SameOut
  <2>5. Poked(s, t)
    BY <2>2, <2>3, <2>4 DEF Poked, SameOut, SameCtl, SameIn
  <2>6. Quiet(s, t)
    BY <2>2, SameQuiet DEF SameIn, SameInput
  <2>7. Frozen(s, t)
    BY <2>2, <2>5, SameFrozen DEF Poked, SameIn
  <2> QED
    BY <2>1, <2>2, <2>5, <2>6, <2>7, PokedSits DEF SameCtl
<1>2. CASE ch = "fromIpu"
  <2> DEFINE drain == s.qwc3 = 0
             a == [s EXCEPT !.active3 = TRUE, !.drainAll = drain]
  <2>1. Kick(s, ch) = DrainCh3(a)
    BY <1>2 DEF Kick, IpuDmaKick
  <2>2. drain \in BOOLEAN
    OBVIOUS
  <2> HIDE DEF drain
  <2>3. /\ Full(a) /\ SameCtl(s, a) /\ SameIn(s, a) /\ SameDec(s, a) /\ SameBits(s, a)
        /\ a.active3 = TRUE /\ a.drainAll = drain
        /\ a.qwc3 = s.qwc3 /\ a.out = s.out /\ a.taken = s.taken
    BY DEF Formed, Full, AllFields, SameCtl, SameIn, SameDec, SameBits
  <2> HIDE DEF a
  <2>4. CtlOk(a)
    BY <2>3 DEF Formed, CtlOk, SameCtl, SameIn, SameBits
  <2>5. OutOk(a)
    BY <2>2, <2>3 DEF Formed, OutOk
  <2>6. Poked(s, a)
    BY <2>3, <2>4, <2>5 DEF Poked, SameOut, SameCtl, SameIn
  <2>7. Goes(s, a)
    <3>1. Frozen(s, a)
      BY <2>3, <2>6, SameFrozen DEF Poked, SameIn
    <3> QED
      BY <2>3, <2>6, <3>1, PokedSits, SameQuiet DEF Sits, Goes, Runs, SameIn, SameInput
  <2>8. Goes(a, DrainCh3(a))
    BY <2>7, DrainCh3Goes DEF Goes, Runs
  <2>9. Goes(s, DrainCh3(a))
    BY <2>7, <2>8, GoesOn
  <2> QED
    BY <2>1, <2>9 DEF Goes, Runs, Sits, SameCtl
<1>3. CASE ch = "toIpu"
  <2> DEFINE a == [s EXCEPT !.active = TRUE, !.tagEnd = FALSE]
             c == RunPending(AdvanceWalk(a))
             z == Complete(a, "toIpu")
  <2>1. Kick(s, ch) \in {z, DrainCh3(c)}
    BY <1>3 DEF Kick, IpuDmaKick
  <2>2. /\ Full(a) /\ SameCtl(s, a) /\ SameOut(s, a) /\ SameDec(s, a) /\ SameBits(s, a)
        /\ a.madr = s.madr /\ a.qwc = s.qwc /\ a.tadr = s.tadr /\ a.in = s.in
        /\ a.active = TRUE /\ a.tagEnd = FALSE
    BY DEF Formed, Full, AllFields, SameCtl, SameOut, SameDec, SameBits
  <2> HIDE DEF a
  <2>3. CtlOk(a) /\ OutOk(a)
    BY <2>2 DEF Formed, CtlOk, OutOk, SameCtl, SameOut, SameBits
  <2>4. Sits(s, a) /\ a.pending = s.pending
    BY <2>2, <2>3, PokedSits DEF Poked, SameOut, SameCtl
  <2>5. Walked(a, z)
    BY <2>4, CompleteWalked DEF Sits
  <2>6. /\ z.madr = a.madr /\ z.in = a.in /\ z.chain = a.chain
    BY <2>2 DEF Complete, Full, AllFields
  <2> HIDE DEF z
  <2>7. Sits(a, z) /\ z.pending = a.pending
    <3>1. Pays(a, z)
      BY <2>5, OutAcc, SameAccPays DEF Walked
    <3>2. Serves(a, z)
      BY <2>5, <2>6, SameServes DEF Walked
    <3> QED
      BY <2>4, <2>5, <3>1, <3>2 DEF Walked, Sits, Snapped, SameDec, SameCtl
  <2>8. Goes(a, c)
    BY <2>4, WalkRunGoes DEF Sits
  <2> HIDE DEF c
  <2>9. Goes(c, DrainCh3(c))
    BY <2>8, DrainCh3Goes DEF Goes, Runs
  <2>10. Goes(a, DrainCh3(c))
    BY <2>8, <2>9, GoesOn
  <2>11. Sits(a, DrainCh3(c)) /\ DrainCh3(c).pending = a.pending
    BY <2>10 DEF Goes, Runs, Sits, SameCtl
  <2> QED
    BY <1>3, <2>1, <2>4, <2>7, <2>11, SitsOn
<1> QED
  BY <1>1, <1>2, <1>3 DEF DmaChannels

LEMMA IpuDmaResumeGoes ==
  ASSUME NEW s, Formed(s), Snapped(s)
  PROVE  Goes(s, IpuDmaResume(s))
<1> DEFINE c == RunPending(AdvanceWalk(s))
<1>1. IpuDmaResume(s) \in {s, DrainCh3(c)}
  BY DEF IpuDmaResume
<1>2. Goes(s, s) /\ Goes(s, c)
  BY GoesSelf, WalkRunGoes
<1> HIDE DEF c
<1>3. Goes(c, DrainCh3(c))
  BY <1>2, DrainCh3Goes DEF Goes, Runs
<1> QED
  BY <1>1, <1>2, <1>3, GoesOn

LEMMA KickQueuedStays ==
  ASSUME NEW t, NEW p, NEW ch \in DmaChannels, Formed(t), Snapped(t),
         \A c \in DmaChannels : c \in p => c \in t.pending \/ c # ch
  PROVE  LET u == KickQueued(p, t, ch)
         IN Stays(t, u) /\ \A c \in DmaChannels \ {ch} : c \in t.pending => c \in u.pending
<1>1. CASE ch \notin p
  <2>1. KickQueued(p, t, ch) = t
    BY <1>1 DEF KickQueued
  <2> QED
    BY <2>1, GoesSelf, GoesStays
<1>2. CASE ch \in p
  <2> DEFINE a == [t EXCEPT !.pending = @ \ {ch}]
             u == Kick(a, ch)
  <2>1. KickQueued(p, t, ch) = u
    BY <1>2 DEF KickQueued
  <2>2. /\ Full(a) /\ SameOut(t, a) /\ SameIn(t, a) /\ SameDec(t, a) /\ SameBits(t, a)
        /\ a.suspend = t.suspend /\ a.dmae = t.dmae /\ a.pending = t.pending \ {ch}
        /\ a.chain = t.chain /\ a.published = t.published
    BY DEF Formed, Full, AllFields, SameOut, SameIn, SameDec, SameBits
  <2> HIDE DEF a
  <2>3. CtlOk(a)
    BY <2>2 DEF Formed, CtlOk, SameIn, SameBits
  <2>4. OutOk(a)
    BY <2>2 DEF Formed, OutOk, SameOut
  <2>5. Poked(t, a)
    BY <2>2, <2>3, <2>4 DEF Poked, SameOut, SameIn
  <2>6. Stays(t, a)
    BY <2>2, <2>5, PokedStays DEF SameIn
  <2>7. Sits(a, u) /\ u.pending = a.pending /\ (ch # "toIpu" => Quiet(a, u) /\ Frozen(a, u))
    BY <2>6, KickGoes DEF Stays, Sits
  <2> HIDE DEF u
  <2>8. ch = "toIpu" => "toIpu" \in t.pending
    BY <1>2
  <2>9. /\ Quiet(t, a) /\ Quiet(a, u) => Quiet(t, u)
        /\ Frozen(t, a) /\ Frozen(a, u) => Frozen(t, u)
    BY QuietOn, FrozenOn
  <2>10. Sits(t, u)
    BY <2>6, <2>7, SitsOn DEF Stays
  <2>11. "toIpu" \notin t.pending =>
           "toIpu" \notin u.pending /\ Quiet(t, u) /\ Frozen(t, u)
    BY <2>2, <2>6, <2>7, <2>8, <2>9 DEF Stays
  <2> QED
    BY <2>1, <2>2, <2>7, <2>10, <2>11 DEF Stays
<1> QED
  BY <1>1, <1>2

LEMMA ReleasePendingStays ==
  ASSUME NEW s, Formed(s), Snapped(s)
  PROVE  Stays(s, ReleasePending(s))
<1> DEFINE p == s.pending
           a == KickQueued(p, s, "fromIpu")
           b == KickQueued(p, a, "toIpu")
           c == KickQueued(p, b, "copy")
<1>1. ReleasePending(s) \in {c, IpuDmaResume(c)}
  BY DEF ReleasePending, KickQueued
<1>2. Stays(s, a) /\ \A x \in DmaChannels \ {"fromIpu"} : x \in p => x \in a.pending
  <2>1. "fromIpu" \in DmaChannels
    BY DEF DmaChannels
  <2> QED
    BY <2>1, KickQueuedStays
<1> HIDE DEF a
<1>3. Stays(a, b) /\ \A x \in DmaChannels \ {"toIpu"} : x \in a.pending => x \in b.pending
  <2>1. /\ "toIpu" \in DmaChannels
        /\ \A x \in DmaChannels : x \in p => x \in a.pending \/ x # "toIpu"
    BY <1>2 DEF DmaChannels
  <2> HIDE DEF p
  <2> QED
    BY <1>2, <2>1, KickQueuedStays DEF Stays, Sits
<1> HIDE DEF b
<1>4. Stays(b, c)
  <2>1. /\ "copy" \in DmaChannels
        /\ \A x \in DmaChannels : x \in p => x \in b.pending \/ x # "copy"
    BY <1>2, <1>3 DEF DmaChannels
  <2> HIDE DEF p
  <2> QED
    BY <1>3, <2>1, KickQueuedStays DEF Stays, Sits
<1> HIDE DEF c
<1>5. Stays(s, c)
  BY <1>2, <1>3, <1>4, StaysOn
<1>6. Stays(c, IpuDmaResume(c))
  BY <1>5, IpuDmaResumeGoes, GoesStays DEF Stays, Sits
<1> QED
  BY <1>1, <1>5, <1>6, StaysOn

LEMMA HoldWriteStays ==
  ASSUME NEW s, NEW suspend \in BOOLEAN, NEW dmae \in BOOLEAN, Formed(s), Snapped(s)
  PROVE  Stays(s, HoldWrite(s, suspend, dmae))
<1> DEFINE a == [s EXCEPT !.suspend = suspend, !.dmae = dmae]
           r == ReleasePending(a)
<1>1. HoldWrite(s, suspend, dmae) \in {r, a}
  BY DEF HoldWrite
<1>2. /\ Full(a) /\ SameOut(s, a) /\ SameIn(s, a) /\ SameDec(s, a) /\ SameBits(s, a)
      /\ a.suspend = suspend /\ a.dmae = dmae /\ a.pending = s.pending
      /\ a.chain = s.chain /\ a.published = s.published
  BY DEF Formed, Full, AllFields, SameOut, SameIn, SameDec, SameBits
<1> HIDE DEF a
<1>3. CtlOk(a)
  BY <1>2 DEF Formed, CtlOk, SameIn, SameBits
<1>4. OutOk(a)
  BY <1>2 DEF Formed, OutOk, SameOut
<1>5. Poked(s, a)
  BY <1>2, <1>3, <1>4 DEF Poked, SameOut, SameIn
<1>6. Stays(s, a)
  BY <1>2, <1>5, PokedStays DEF SameIn
<1>7. Stays(a, r)
  BY <1>6, ReleasePendingStays DEF Stays, Sits
<1> HIDE DEF r
<1> QED
  BY <1>1, <1>6, <1>7, StaysOn

LEMMA ChcrStartStays ==
  ASSUME NEW s, NEW ch \in DmaChannels, Formed(s), Snapped(s)
  PROVE  LET t == ChcrWrite(s, ch, TRUE)
         IN Sits(s, t) /\ (ch # "toIpu" => Stays(s, t))
<1> DEFINE a == [s EXCEPT !.str = @ \cup {ch}]
           q == [a EXCEPT !.pending = @ \cup {ch}]
           k == Kick(a, ch)
<1>1. ChcrWrite(s, ch, TRUE) \in {q, k}
  BY DEF ChcrWrite
<1>2. /\ Full(a) /\ SameCtl(s, a) /\ SameOut(s, a) /\ SameIn(s, a) /\ SameDec(s, a)
      /\ a.str = s.str \cup {ch} /\ a.raised = s.raised
  BY DEF Formed, Full, AllFields, SameCtl, SameOut, SameIn, SameDec
<1>3. /\ Full(q) /\ SameOut(s, q) /\ SameIn(s, q) /\ SameDec(s, q)
      /\ q.suspend = s.suspend /\ q.dmae = s.dmae /\ q.pending = s.pending \cup {ch}
      /\ q.chain = s.chain /\ q.published = s.published
      /\ q.str = s.str \cup {ch} /\ q.raised = s.raised
  BY DEF Formed, Full, AllFields, SameOut, SameIn, SameDec
<1> HIDE DEF a, q
<1>4. CtlOk(a) /\ OutOk(a)
  <2>1. CtlOk(a)
    BY <1>2 DEF Formed, CtlOk, SameCtl, SameIn
  <2>2. OutOk(a)
    BY <1>2 DEF Formed, OutOk, SameOut
  <2> QED
    BY <2>1, <2>2
<1>5. CtlOk(q) /\ OutOk(q)
  <2>1. CtlOk(q)
    BY <1>3 DEF Formed, CtlOk, SameIn
  <2>2. OutOk(q)
    BY <1>3 DEF Formed, OutOk, SameOut
  <2> QED
    BY <2>1, <2>2
<1>6. Stays(s, a)
  BY <1>2, <1>4, PokedStays DEF Poked, SameOut, SameCtl, SameIn
<1>7. Sits(s, q)
  BY <1>3, <1>5, PokedSits DEF Poked, SameOut, SameIn
<1>8. ch # "toIpu" => Stays(s, q)
  BY <1>3, <1>5, PokedStays DEF Poked, SameOut, SameIn
<1>9. Sits(a, k) /\ k.pending = a.pending /\ (ch # "toIpu" => Quiet(a, k) /\ Frozen(a, k))
  BY <1>6, KickGoes DEF Stays, Sits
<1> HIDE DEF k
<1>10. Sits(s, k)
  BY <1>6, <1>9, SitsOn DEF Stays
<1>11. ch # "toIpu" => Stays(a, k)
  BY <1>9 DEF Stays
<1>12. ch # "toIpu" => Stays(s, k)
  BY <1>6, <1>11, StaysOn
<1> QED
  BY <1>1, <1>7, <1>8, <1>10, <1>12

LEMMA ChcrStopStays ==
  ASSUME NEW s, NEW ch \in DmaChannels, Formed(s), Snapped(s)
  PROVE  Stays(s, ChcrWrite(s, ch, FALSE))
<1> DEFINE u == [s EXCEPT !.str = @ \ {ch}, !.pending = @ \ {ch}]
           x == [u EXCEPT !.active = FALSE]
           y == [u EXCEPT !.active3 = FALSE, !.drainAll = FALSE]
<1>1. ChcrWrite(s, ch, FALSE) \in {u, x, y}
  BY DEF ChcrWrite, IpuDmaStop, DmaChannels
<1>2. /\ Full(u) /\ SameOut(s, u) /\ SameIn(s, u) /\ SameDec(s, u)
      /\ u.suspend = s.suspend /\ u.dmae = s.dmae /\ u.pending = s.pending \ {ch}
      /\ u.chain = s.chain /\ u.published = s.published
      /\ u.str = s.str \ {ch} /\ u.raised = s.raised
  BY DEF Formed, Full, AllFields, SameOut, SameIn, SameDec
<1> HIDE DEF u
<1>3. /\ Full(x) /\ SameCtl(u, x) /\ SameOut(u, x) /\ SameDec(u, x) /\ SameBits(u, x)
      /\ x.active = FALSE /\ x.tagEnd = u.tagEnd
      /\ x.madr = u.madr /\ x.qwc = u.qwc /\ x.tadr = u.tadr /\ x.in = u.in
  BY <1>2 DEF Full, AllFields, SameCtl, SameOut, SameDec, SameBits
<1>4. /\ Full(y) /\ SameCtl(u, y) /\ SameIn(u, y) /\ SameDec(u, y) /\ SameBits(u, y)
      /\ y.active3 = FALSE /\ y.drainAll = FALSE
      /\ y.qwc3 = u.qwc3 /\ y.out = u.out /\ y.taken = u.taken
  BY <1>2 DEF Full, AllFields, SameCtl, SameIn, SameDec, SameBits
<1> HIDE DEF x, y
<1>5. CtlOk(u) /\ OutOk(u)
  <2>1. CtlOk(u)
    BY <1>2 DEF Formed, CtlOk, SameIn
  <2>2. OutOk(u)
    BY <1>2 DEF Formed, OutOk, SameOut
  <2> QED
    BY <2>1, <2>2
<1>6. Stays(s, u)
  BY <1>2, <1>5, PokedStays DEF Poked, SameOut, SameIn
<1>7. Stays(u, x)
  <2>1. CtlOk(x)
    BY <1>3, <1>5 DEF CtlOk, SameCtl, SameBits
  <2>2. OutOk(x)
    BY <1>3, <1>5 DEF OutOk, SameOut
  <2>3. Poked(u, x)
    BY <1>3, <2>1, <2>2 DEF Poked, SameOut, SameCtl
  <2> QED
    BY <1>3, <1>6, <2>3, PokedStays DEF SameCtl, Stays, Sits
<1>8. Stays(u, y)
  <2>1. CtlOk(y)
    BY <1>4, <1>5 DEF CtlOk, SameCtl, SameIn, SameBits
  <2>2. OutOk(y)
    BY <1>4, <1>5 DEF OutOk
  <2>3. Poked(u, y)
    BY <1>4, <2>1, <2>2 DEF Poked, SameOut, SameCtl, SameIn
  <2> QED
    BY <1>4, <1>6, <2>3, PokedStays DEF SameCtl, SameIn, Stays, Sits
<1>9. Stays(s, x) /\ Stays(s, y)
  BY <1>6, <1>7, <1>8, StaysOn
<1> QED
  BY <1>1, <1>6, <1>9

LEMMA WindowStays ==
  ASSUME NEW s, NEW ch \in DmaChannels, NEW start \in BOOLEAN, Formed(s), Snapped(s)
  PROVE  LET t == Window(s, ch, start)
         IN Sits(s, t) /\ (ch # "toIpu" => Stays(s, t))
<1> DEFINE a == HoldWrite(s, TRUE, s.dmae)
           b == ChcrWrite(a, ch, start)
           c == HoldWrite(b, FALSE, s.dmae)
<1>1. Window(s, ch, start) = c
  BY DEF Window
<1>2. s.dmae \in BOOLEAN
  BY DEF Formed, CtlOk
<1>3. Stays(s, a)
  BY <1>2, HoldWriteStays
<1> HIDE DEF a
<1>4. Formed(a) /\ Snapped(a)
  BY <1>3 DEF Stays, Sits
<1>5. Sits(a, b) /\ (ch # "toIpu" => Stays(a, b))
  <2>1. CASE start = TRUE
    BY <1>4, <2>1, ChcrStartStays
  <2>2. CASE start = FALSE
    BY <1>4, <2>2, ChcrStopStays DEF Stays
  <2> QED
    BY <2>1, <2>2
<1> HIDE DEF b
<1>6. Stays(b, c)
  BY <1>2, <1>5, HoldWriteStays DEF Sits
<1> HIDE DEF c
<1>7. Sits(s, c)
  BY <1>3, <1>5, <1>6, SitsOn DEF Stays
<1>8. ch # "toIpu" => Stays(s, c)
  BY <1>3, <1>5, <1>6, StaysOn
<1> QED
  BY <1>1, <1>7, <1>8

LEMMA TeardownStays ==
  ASSUME NEW s, Formed(s), Snapped(s)
  PROVE  Sits(s, TeardownWindow(s))
<1> DEFINE a == HoldWrite(s, TRUE, s.dmae)
           b == ChcrWrite(a, "fromIpu", FALSE)
           c == ChcrWrite(b, "toIpu", FALSE)
           d == ChcrWrite(c, "copy", FALSE)
           e == HoldWrite(d, FALSE, s.dmae)
<1>1. TeardownWindow(s) = e
  BY DEF TeardownWindow
<1>2. s.dmae \in BOOLEAN /\ {"fromIpu", "toIpu", "copy"} \subseteq DmaChannels
  BY DEF Formed, CtlOk, DmaChannels
<1>3. Stays(s, a)
  BY <1>2, HoldWriteStays
<1> HIDE DEF a
<1>4. Stays(a, b)
  BY <1>2, <1>3, ChcrStopStays DEF Stays, Sits
<1> HIDE DEF b
<1>5. Stays(b, c)
  BY <1>2, <1>4, ChcrStopStays DEF Stays, Sits
<1> HIDE DEF c
<1>6. Stays(c, d)
  BY <1>2, <1>5, ChcrStopStays DEF Stays, Sits
<1> HIDE DEF d
<1>7. Stays(d, e)
  BY <1>2, <1>6, HoldWriteStays DEF Stays, Sits
<1> HIDE DEF e
<1>8. Stays(s, e)
  BY <1>3, <1>4, <1>5, <1>6, <1>7, StaysOn
<1> QED
  BY <1>1, <1>8 DEF Stays

LEMMA SoftResetIs ==
  ASSUME NEW s, Formed(s)
  PROVE  LET t == SoftReset(s)
         IN /\ Formed(t) /\ Snapped(t) /\ t.chain = s.chain /\ t.published = s.published
            /\ t.in = <<>> /\ t.busy = FALSE /\ t.pos = 0 /\ t.hw = 0
            /\ t.out = 0 /\ t.taken = s.taken /\ t.active = FALSE
            /\ t.str = s.str /\ t.pending = s.pending
<1> DEFINE t == SoftReset(s)
<1>1. /\ Full(t) /\ SameCtl(s, t) /\ t.madr = s.madr /\ t.qwc = s.qwc /\ t.tadr = s.tadr
      /\ t.active = FALSE /\ t.tagEnd = s.tagEnd /\ t.in = <<>> /\ t.pos = 0 /\ t.hw = 0
      /\ t.active3 = FALSE /\ t.drainAll = FALSE /\ t.qwc3 = s.qwc3 /\ t.out = 0
      /\ t.taken = s.taken /\ t.str = s.str /\ t.raised = s.raised \cup {"ipu"}
      /\ t.flag = "none" /\ t.busy = FALSE /\ t.tail = FALSE /\ t.run = FALSE /\ t.cmd = s.cmd
      /\ t.snap = s.snap /\ t.snapPred = s.snapPred /\ t.fresh = s.fresh /\ t.pred = 0
      /\ t.csc = s.csc /\ t.stall = s.stall
  BY ZenonT(30) DEF Formed, SoftReset, Full, AllFields, SameCtl
<1> HIDE DEF t
<1>2. CtlOk(t)
  BY <1>1 DEF Formed, CtlOk, SameCtl
<1>3. OutOk(t)
  <2>1. s.qwc3 \in Nat /\ s.taken \in Nat
    BY DEF Formed, OutOk
  <2>2. t.active3 \in BOOLEAN /\ t.drainAll \in BOOLEAN
    BY <1>1
  <2>3. t.qwc3 \in Nat /\ t.out \in Nat /\ t.taken \in Nat
    BY <1>1, <2>1
  <2> QED
    BY <2>2, <2>3 DEF OutOk
<1>4. DecOk(t)
  <2>1. /\ s.snap \in 0..Units /\ s.stall \in 0..Units /\ s.snapPred \in Nat /\ s.csc \in Nat
        /\ s.fresh = 0 /\ s.cmd \in AllCommands
    BY DEF Formed, DecOk
  <2>2. t.pred \in Nat /\ t.flag \in {"none", "ecd", "scd"}
    BY <1>1
  <2>3. t.busy \in BOOLEAN /\ t.tail \in BOOLEAN /\ t.run \in BOOLEAN
    BY <1>1
  <2> QED
    BY <1>1, <2>1, <2>2, <2>3 DEF DecOk
<1>5. RegsOk(t.chain, t.madr, t.qwc, t.tadr)
  BY <1>1 DEF Formed, SameCtl
<1>6. FifoOk(t.in, t.madr, t.pos, t.hw)
  <2>1. t.in \in Seq(0..Quads - 1) /\ Len(t.in) = 0 /\ t.madr \in Nat
    BY <1>1, FormedNumbers
  <2>2. 0 \div QwU = 0
    <3>1. 0 * QwU <= 0 /\ 0 < 0 * QwU + QwU
      BY SizesPositive
    <3> QED
      BY <3>1, SizesPositive, Quotient
  <2> QED
    BY <1>1, <2>1, <2>2, SizesPositive DEF FifoOk
<1>7. Formed(t) /\ Snapped(t)
  BY <1>1, <1>2, <1>3, <1>4, <1>5, <1>6 DEF Formed, Snapped
<1> QED
  BY <1>1, <1>7 DEF SameCtl, t

-----------------------------------------------------------------------------
(* Every variable keeps its type *)

\* The registers the library has read are those of a channel that stands still,
\* and what it will rewind by is resident.
LibInv(s, l) ==
  /\ {"pc", "job", "regs", "bp", "resident"} \subseteq DOMAIN l
  /\ l.pc \in {"run", "stopped", "regs", "bp", "cleared", "set"}
  /\ l.job \in {"play", "add", "restart", "reset"}
  /\ l.pc = "stopped" /\ l.job = "add" => s.published < Slots
  /\ l.pc \in {"regs", "bp"} => l.regs = Saved(s)
  /\ l.pc = "bp" => l.bp \in 0..QwU - 1 /\ l.resident \in 0..s.madr
  /\ l.pc = "cleared" =>
       /\ Len(s.in) = 0 /\ {"madr", "qwc", "tadr"} \subseteq DOMAIN l.regs
       /\ l.resident \in 0..l.regs.madr
       /\ RegsOk(s.chain, l.regs.madr, l.regs.qwc, l.regs.tadr)

FormedInv == Formed(m) /\ Snapped(m) /\ LibInv(m, lib)

StreamInv == ChannelInv /\ FormedInv

LEMMA ResidentBound ==
  ASSUME NEW s, Formed(s)
  PROVE  Resident(s) \in 0..s.madr /\ s.pos % QwU \in 0..QwU - 1
<1>1. /\ Len(s.in) \in Nat /\ Len(s.in) <= s.madr /\ s.madr \in Nat /\ s.pos \in Nat
  BY FormedNumbers
<1>2. s.pos \div QwU \in Nat /\ s.pos % QwU \in 0..QwU - 1
  BY <1>1, SizesPositive, Quotient
<1>3. QwFrom(s, s.pos) \in 0..s.madr
  BY <1>1, <1>2 DEF QwFrom
<1>4. Fifo + 1 \in Nat
  BY SizesPositive
<1> QED
  BY <1>1, <1>2, <1>3, <1>4 DEF Resident, Least

\* What a step may do that leaves the library where it is: nothing to a channel 4
\* that stands still.
LEMMA StaysKeepLib ==
  ASSUME NEW s, NEW t, NEW l, Formed(s), LibInv(s, l), Stays(s, t),
         l.pc \in {"regs", "bp", "cleared"} => "toIpu" \notin s.pending /\ s.active = FALSE
  PROVE  LibInv(t, l)
<1>1. t.published = s.published /\ t.chain = s.chain
  BY DEF Stays, Sits
<1>2. l.pc \in {"regs", "bp", "cleared"} =>
        /\ t.madr = s.madr /\ t.qwc = s.qwc /\ t.tadr = s.tadr
        /\ Len(s.in) = 0 => Len(t.in) = 0
  BY DEF Stays, Quiet
<1> QED
  BY <1>1, <1>2 DEF LibInv, Saved

LEMMA InitFormed == Init => FormedInv
<1> SUFFICES ASSUME Init PROVE FormedInv
  OBVIOUS
<1>1. PICK chain \in BOOLEAN : m = Machine(chain)
  BY DEF Init
<1>2. /\ Full(m) /\ m.suspend = FALSE /\ m.dmae = TRUE /\ m.pending = {} /\ m.str = {}
      /\ m.raised = {} /\ m.madr = 0 /\ m.qwc = (IF chain THEN 0 ELSE SlotQw * Slots)
      /\ m.tadr = 0 /\ m.published = 1 /\ m.chain = chain /\ m.active = FALSE
      /\ m.tagEnd = FALSE /\ m.in = <<>> /\ m.pos = 0 /\ m.hw = 0 /\ m.busy = FALSE
      /\ m.cmd = NoCmd /\ m.snap = 0 /\ m.snapPred = 0 /\ m.fresh = 0 /\ m.pred = 0
      /\ m.tail = FALSE /\ m.run = FALSE /\ m.csc = 0 /\ m.stall = 0 /\ m.flag = "none"
      /\ m.active3 = FALSE /\ m.drainAll = FALSE /\ m.qwc3 = 0 /\ m.out = 0 /\ m.taken = 0
  BY <1>1 DEF Machine, Full, AllFields
<1>3. CtlOk(m) /\ OutOk(m)
  <2>1. m.published \in 1..Slots
    BY <1>2, SizesPositive
  <2>2. /\ m.suspend \in BOOLEAN /\ m.dmae \in BOOLEAN /\ m.chain \in BOOLEAN
        /\ m.active \in BOOLEAN /\ m.tagEnd \in BOOLEAN
        /\ m.active3 \in BOOLEAN /\ m.drainAll \in BOOLEAN
    BY <1>2
  <2>3. /\ m.pending \subseteq DmaChannels /\ m.str \subseteq DmaChannels
        /\ m.raised \subseteq DmaChannels \cup {"ipu"}
    BY <1>2
  <2>4. m.qwc3 \in Nat /\ m.out \in Nat /\ m.taken \in Nat
    BY <1>2
  <2> QED
    BY <2>1, <2>2, <2>3, <2>4 DEF CtlOk, OutOk
<1>4. DecOk(m)
  <2>1. 0 \in 0..Units /\ NoCmd \in AllCommands
    BY QuadUnits DEF AllCommands
  <2>2. m.cmd \in AllCommands /\ m.flag \in {"none", "ecd", "scd"}
    BY <1>2, <2>1
  <2>3. m.busy \in BOOLEAN /\ m.tail \in BOOLEAN /\ m.run \in BOOLEAN
    BY <1>2
  <2>4. m.snap \in 0..Units /\ m.stall \in 0..Units
    BY <1>2, <2>1
  <2>5. m.pred \in Nat /\ m.snapPred \in Nat /\ m.csc \in Nat /\ m.fresh = 0
    BY <1>2
  <2> QED
    BY <2>2, <2>3, <2>4, <2>5 DEF DecOk
<1>5. RegsOk(m.chain, m.madr, m.qwc, m.tadr)
  <2>1. Quads \in Nat /\ 0 * SlotQw = 0 /\ 0 \in 0..Slots
    BY QuadUnits, SizesPositive
  <2> QED
    BY <1>2, <2>1 DEF RegsOk, Quads
<1>6. FifoOk(m.in, m.madr, m.pos, m.hw)
  <2>1. m.in \in Seq(0..Quads - 1) /\ Len(m.in) = 0
    BY <1>2
  <2>2. 0 \div QwU = 0
    <3>1. 0 * QwU <= 0 /\ 0 < 0 * QwU + QwU
      BY SizesPositive
    <3> QED
      BY <3>1, SizesPositive, Quotient
  <2> QED
    BY <1>2, <2>1, <2>2, SizesPositive DEF FifoOk
<1>7. LibInv(m, lib)
  BY DEF Init, LibInv
<1> QED
  BY <1>2, <1>3, <1>4, <1>5, <1>6, <1>7 DEF FormedInv, Formed, Snapped

\* The store that arms a channel first sets its registers and clears its interrupt.
LEMMA ArmedStays ==
  ASSUME NEW s, NEW ch \in DmaChannels, NEW n \in Nat, Formed(s), Snapped(s)
  PROVE  /\ Stays(s, [s EXCEPT !.qwc3 = n, !.raised = @ \ {ch}])
         /\ Stays(s, [s EXCEPT !.raised = @ \ {ch}])
<1> DEFINE a == [s EXCEPT !.qwc3 = n, !.raised = @ \ {ch}]
           b == [s EXCEPT !.raised = @ \ {ch}]
<1>1. /\ Full(a) /\ SameCtl(s, a) /\ SameIn(s, a) /\ SameDec(s, a)
      /\ a.str = s.str /\ a.raised = s.raised \ {ch}
      /\ a.active3 = s.active3 /\ a.drainAll = s.drainAll
      /\ a.qwc3 = n /\ a.out = s.out /\ a.taken = s.taken
  BY DEF Formed, Full, AllFields, SameCtl, SameIn, SameDec
<1>2. /\ Full(b) /\ SameCtl(s, b) /\ SameOut(s, b) /\ SameIn(s, b) /\ SameDec(s, b)
      /\ b.str = s.str /\ b.raised = s.raised \ {ch}
  BY DEF Formed, Full, AllFields, SameCtl, SameOut, SameIn, SameDec
<1> HIDE DEF a, b
<1>3. CtlOk(a) /\ CtlOk(b)
  BY <1>1, <1>2 DEF Formed, CtlOk, SameCtl, SameIn
<1>4. OutOk(a) /\ OutOk(b)
  BY <1>1, <1>2 DEF Formed, OutOk, SameOut
<1>5. Poked(s, a) /\ Poked(s, b)
  BY <1>1, <1>2, <1>3, <1>4 DEF Poked, SameOut, SameCtl, SameIn
<1>6. Stays(s, a)
  BY <1>1, <1>5, PokedStays DEF SameCtl, SameIn
<1>7. Stays(s, b)
  BY <1>2, <1>5, PokedStays DEF SameCtl, SameIn
<1> QED
  BY <1>6, <1>7 DEF a, b

LEMMA NextFormed == StreamInv /\ [Next]_vars => FormedInv'
<1> SUFFICES ASSUME StreamInv, [Next]_vars PROVE FormedInv'
  OBVIOUS
<1>0. /\ Formed(m) /\ Snapped(m) /\ LibInv(m, lib) /\ Bracket(m, lib)
      /\ lib.pc # "run" => "toIpu" \notin m.pending /\ m.active = FALSE
  <2>1. Agree(m, "toIpu") /\ m.active \in BOOLEAN /\ Bracket(m, lib)
    BY DEF StreamInv, ChannelInv, Sound, Ordered, Ok, DmaChannels
  <2>2. lib.pc # "run" => "toIpu" \notin m.str
    BY <2>1 DEF Bracket
  <2>3. lib.pc # "run" => "toIpu" \notin m.pending /\ m.active = FALSE
    BY <2>1, <2>2 DEF Agree, Live
  <2> QED
    BY <2>1, <2>3 DEF StreamInv, FormedInv
<1>1. ASSUME Stays(m, m'), lib' = lib PROVE FormedInv'
  <2>1. LibInv(m', lib)
    BY <1>0, <1>1, StaysKeepLib
  <2> QED
    BY <1>1, <2>1 DEF FormedInv, Stays, Sits
<1>2. ASSUME NEW c \in AllCommands, Command(c) PROVE FormedInv'
  <2>1. m' = CmdWrite(m, c) /\ lib' = lib /\ lib.pc = "run"
    BY <1>2 DEF Command
  <2>2. Runs(m, m')
    BY <1>0, <2>1, CmdWriteRuns
  <2>3. LibInv(m', lib)
    BY <1>0, <2>1 DEF LibInv
  <2> QED
    BY <2>1, <2>2, <2>3 DEF FormedInv, Runs
<1>3. CASE Poll
  BY <1>0, <1>1, <1>3, ServiceInputGoes, GoesStays DEF Poll
<1>4. ASSUME NEW n \in 0..2, ArmOutput(n) PROVE FormedInv'
  <2> DEFINE a == [m EXCEPT !.qwc3 = n, !.raised = @ \ {"fromIpu"}]
  <2>1. /\ m' = Window(a, "fromIpu", TRUE) /\ lib' = lib /\ "fromIpu" \in DmaChannels
        /\ n \in Nat
    BY <1>4 DEF ArmOutput, DmaChannels
  <2>2. Stays(m, a)
    BY <1>0, <2>1, ArmedStays
  <2> HIDE DEF a
  <2>3. Stays(a, m')
    BY <2>1, <2>2, WindowStays DEF Stays, Sits
  <2> QED
    BY <1>1, <2>1, <2>2, <2>3, StaysOn
<1>5. CASE StartCopy
  <2> DEFINE a == [m EXCEPT !.raised = @ \ {"copy"}]
  <2>1. m' = Window(a, "copy", TRUE) /\ lib' = lib /\ "copy" \in DmaChannels
    BY <1>5 DEF StartCopy, DmaChannels
  <2>2. Stays(m, a)
    BY <1>0, <2>1, ArmedStays
  <2> HIDE DEF a
  <2>3. Stays(a, m')
    BY <2>1, <2>2, WindowStays DEF Stays, Sits
  <2> QED
    BY <1>1, <2>1, <2>2, <2>3, StaysOn
<1>6. CASE HoldOff \/ HoldOn
  <2>1. PICK on \in BOOLEAN : m' = HoldWrite(m, m.suspend, on) /\ lib' = lib
    BY <1>6 DEF HoldOff, HoldOn
  <2>2. m.suspend \in BOOLEAN
    BY <1>0 DEF Formed, CtlOk
  <2> QED
    BY <1>0, <1>1, <2>1, <2>2, HoldWriteStays
<1>7. ASSUME NEW job \in {"add", "restart", "reset"}, StopDma(job) PROVE FormedInv'
  <2>1. /\ m' = IF job = "reset" THEN TeardownWindow(m) ELSE Window(m, "toIpu", FALSE)
        /\ lib' = [lib EXCEPT !.pc = "stopped", !.job = job]
        /\ job = "add" => m.published < Slots
    BY <1>7 DEF StopDma
  <2>2. /\ lib'.pc = "stopped" /\ lib'.job = job
        /\ {"pc", "job", "regs", "bp", "resident"} \subseteq DOMAIN lib'
    BY <1>0, <2>1 DEF LibInv
  <2>3. Sits(m, m')
    BY <1>0, <2>1, TeardownStays, WindowStays DEF DmaChannels
  <2>4. LibInv(m', lib')
    BY <2>1, <2>2, <2>3 DEF LibInv, Sits
  <2> QED
    BY <2>3, <2>4 DEF FormedInv, Sits
<1>8. CASE Publish
  <2>1. /\ m' = [m EXCEPT !.published = @ + 1] /\ lib' = [lib EXCEPT !.pc = "set"]
        /\ m.published < Slots
    BY <1>0, <1>8 DEF Publish, Goto, LibInv
  <2>2. /\ Full(m') /\ SameOut(m, m') /\ SameIn(m, m') /\ SameDec(m, m') /\ SameBits(m, m')
        /\ m'.suspend = m.suspend /\ m'.dmae = m.dmae /\ m'.pending = m.pending
        /\ m'.chain = m.chain /\ m'.published = m.published + 1
    BY <1>0, <2>1 DEF Formed, Full, AllFields, SameOut, SameIn, SameDec, SameBits
  <2>3. CtlOk(m')
    <3>1. m'.published \in 1..Slots
      BY <1>0, <2>1, <2>2, SizesPositive DEF Formed, CtlOk
    <3> QED
      BY <1>0, <2>2, <3>1 DEF Formed, CtlOk, SameIn, SameBits
  <2>4. OutOk(m')
    BY <1>0, <2>2 DEF Formed, OutOk, SameOut
  <2>5. DecOk(m') /\ Snapped(m')
    BY <1>0, <2>2 DEF Formed, DecOk, SameDec, Snapped
  <2>6. RegsOk(m'.chain, m'.madr, m'.qwc, m'.tadr) /\ FifoOk(m'.in, m'.madr, m'.pos, m'.hw)
    BY <1>0, <2>2 DEF Formed, SameIn, SameDec
  <2>7. LibInv(m', lib')
    BY <1>0, <2>1 DEF LibInv
  <2> QED
    BY <2>2, <2>3, <2>4, <2>5, <2>6, <2>7 DEF FormedInv, Formed
<1>9. CASE ReadRegisters
  <2>1. m' = m /\ lib' = [lib EXCEPT !.pc = "regs", !.regs = Saved(m)]
    BY <1>9 DEF ReadRegisters
  <2>2. LibInv(m, lib')
    BY <1>0, <2>1 DEF LibInv
  <2> QED
    BY <1>0, <2>1, <2>2 DEF FormedInv
<1>10. CASE ReadBp
  <2>1. /\ m' = ServiceInput(m) /\ lib.pc = "regs"
        /\ lib' = [lib EXCEPT !.pc = "bp", !.bp = m'.pos % QwU, !.resident = Resident(m')]
    BY <1>10 DEF ReadBp
  <2>2. Goes(m, m')
    BY <1>0, <2>1, ServiceInputGoes
  <2>3. Resident(m') \in 0..m'.madr /\ m'.pos % QwU \in 0..QwU - 1
    BY <2>2, ResidentBound DEF Goes, Runs
  <2>4. Saved(m') = Saved(m)
    BY <1>0, <2>1, <2>2 DEF Goes, Runs, Quiet, Saved
  <2>5. LibInv(m', lib')
    BY <1>0, <2>1, <2>3, <2>4 DEF LibInv
  <2> QED
    BY <2>2, <2>5 DEF FormedInv, Goes, Runs
<1>11. CASE IssueBclr
  <2>1. m' = Bclr(m, lib.bp) /\ lib.pc = "bp" /\ lib' = [lib EXCEPT !.pc = "cleared"]
    BY <1>11 DEF IssueBclr, Goto
  <2>2. lib.bp \in 0..QwU - 1 /\ lib.regs = Saved(m) /\ lib.resident \in 0..m.madr
    BY <1>0, <2>1 DEF LibInv
  <2>3. /\ Formed(m') /\ SameCtl(m, m') /\ m'.in = <<>> /\ m'.hw = lib.bp
        /\ m'.snap = (IF m.busy THEN lib.bp ELSE m.snap) /\ m'.busy = m.busy
    BY <1>0, <2>1, <2>2, BclrIs
  <2>4. Snapped(m')
    BY <2>2, <2>3 DEF Snapped
  <2>5. LibInv(m', lib')
    <3>1. RegsOk(m'.chain, m.madr, m.qwc, m.tadr)
      BY <1>0, <2>3 DEF Formed, SameCtl
    <3> QED
      BY <1>0, <2>1, <2>2, <2>3, <3>1 DEF LibInv, Saved
  <2> QED
    BY <2>3, <2>4, <2>5 DEF FormedInv
<1>12. CASE WriteRegisters
  <2> DEFINE x == lib.regs.madr - lib.resident
             y == lib.regs.qwc + lib.resident
             z == lib.regs.tadr
  <2>1. /\ m' = [m EXCEPT !.madr = x, !.qwc = y, !.tadr = z]
        /\ lib.pc = "cleared" /\ lib' = [lib EXCEPT !.pc = "set"]
    BY <1>12 DEF WriteRegisters, Goto
  <2>2. /\ Len(m.in) = 0 /\ lib.resident \in 0..lib.regs.madr
        /\ RegsOk(m.chain, lib.regs.madr, lib.regs.qwc, lib.regs.tadr)
    BY <1>0, <2>1 DEF LibInv
  <2>3. RegsOk(m.chain, x, y, z)
    <3>1. /\ lib.regs.madr \in 0..Quads /\ lib.regs.qwc \in 0..Quads /\ Quads \in Nat
          /\ lib.regs.tadr \in 0..Slots
          /\ lib.regs.madr + lib.regs.qwc = IF m.chain THEN lib.regs.tadr * SlotQw ELSE Quads
      BY <2>2, QuadUnits DEF RegsOk
    <3>2. lib.regs.tadr * SlotQw <= Quads
      <4>1. lib.regs.tadr \in Nat /\ lib.regs.tadr <= Slots
        BY <3>1, SizesPositive
      <4>2. lib.regs.tadr * SlotQw <= Slots * SlotQw
        BY <4>1, SizesPositive, Product
      <4>3. Slots * SlotQw = Quads
        BY SizesPositive, Product DEF Quads
      <4> QED
        BY <4>2, <4>3
    <3>3. x \in Nat /\ y \in Nat /\ x + y = lib.regs.madr + lib.regs.qwc
      BY <2>2, <3>1
    <3>4. lib.regs.madr + lib.regs.qwc <= Quads
      BY <3>1, <3>2
    <3> HIDE DEF x, y
    <3>5. x \in 0..Quads /\ y \in 0..Quads
      BY <3>1, <3>3, <3>4
    <3> QED
      BY <3>1, <3>3, <3>5 DEF RegsOk
  <2> HIDE DEF x, y, z
  <2>4. /\ Full(m') /\ SameCtl(m, m') /\ SameOut(m, m') /\ SameDec(m, m') /\ SameBits(m, m')
        /\ m'.active = m.active /\ m'.tagEnd = m.tagEnd /\ m'.in = m.in
        /\ m'.madr = x /\ m'.qwc = y /\ m'.tadr = z
    BY <1>0, <2>1 DEF Formed, Full, AllFields, SameCtl, SameOut, SameDec, SameBits
  <2>5. CtlOk(m')
    BY <1>0, <2>4 DEF Formed, CtlOk, SameCtl, SameBits
  <2>6. OutOk(m')
    BY <1>0, <2>4 DEF Formed, OutOk, SameOut
  <2>7. DecOk(m') /\ Snapped(m')
    BY <1>0, <2>4 DEF Formed, DecOk, SameDec, Snapped
  <2>8. RegsOk(m'.chain, m'.madr, m'.qwc, m'.tadr)
    BY <2>3, <2>4 DEF SameCtl
  <2>9. FifoOk(m'.in, m'.madr, m'.pos, m'.hw)
    <3>1. /\ m.in \in Seq(0..Quads - 1) /\ m.pos \in Nat /\ m.hw \in Nat /\ m.pos <= m.hw
          /\ m.hw <= Len(m.in) * QwU \/ (Len(m.in) = 0 /\ m.hw < QwU)
          /\ Len(m.in) - (m.hw \div QwU) <= Fifo + 1
      BY <1>0 DEF Formed, FifoOk
    <3>2. x \in Nat
      BY <2>3, QuadUnits DEF RegsOk
    <3>3. 1..Len(m.in) = {} /\ Len(m.in) <= x
      BY <2>2, <3>2
    <3> QED
      BY <2>4, <3>1, <3>3 DEF FifoOk, SameDec
  <2>10. LibInv(m', lib')
    BY <1>0, <2>1, <2>4 DEF LibInv, SameCtl
  <2> QED
    BY <2>4, <2>5, <2>6, <2>7, <2>8, <2>9, <2>10 DEF FormedInv, Formed
<1>13. CASE StartDma
  <2> DEFINE a == [m EXCEPT !.raised = @ \ {"toIpu"}]
  <2>1. /\ m' = Window(a, "toIpu", TRUE) /\ lib' = [lib EXCEPT !.pc = "run"]
        /\ "toIpu" \in DmaChannels
    BY <1>13 DEF StartDma, Goto, DmaChannels
  <2>2. Stays(m, a)
    BY <1>0, <2>1, ArmedStays
  <2> HIDE DEF a
  <2>3. Sits(a, m')
    BY <2>1, <2>2, WindowStays DEF Stays, Sits
  <2>4. LibInv(m', lib')
    BY <1>0, <2>1 DEF LibInv
  <2> QED
    BY <2>3, <2>4 DEF FormedInv, Sits
<1>14. CASE Reset
  <2> DEFINE r == Saved([Machine(m.chain) EXCEPT !.tadr = 0])
  <2>1. /\ m' = SoftReset(m)
        /\ lib' = [lib EXCEPT !.pc = "cleared", !.resident = 0, !.regs = r]
    BY <1>14 DEF Reset
  <2>2. /\ {"madr", "qwc", "tadr"} \subseteq DOMAIN r /\ r.madr = 0 /\ r.tadr = 0
        /\ r.qwc = (IF m.chain THEN 0 ELSE SlotQw * Slots)
    BY DEF Saved, Machine
  <2> HIDE DEF r
  <2>3. /\ Formed(m') /\ Snapped(m') /\ m'.chain = m.chain /\ m'.in = <<>>
    BY <1>0, <2>1, SoftResetIs
  <2>4. RegsOk(m'.chain, r.madr, r.qwc, r.tadr)
    <3>1. Quads \in Nat /\ 0 * SlotQw = 0 /\ 0 \in 0..Slots
      BY QuadUnits, SizesPositive
    <3> QED
      BY <2>2, <2>3, <3>1 DEF RegsOk, Quads
  <2>5. LibInv(m', lib')
    <3>1. /\ lib'.pc = "cleared" /\ lib'.resident = 0 /\ lib'.regs = r /\ lib'.job = lib.job
          /\ {"pc", "job", "regs", "bp", "resident"} \subseteq DOMAIN lib'
      BY <1>0, <2>1 DEF LibInv
    <3>2. lib.job \in {"play", "add", "restart", "reset"}
      BY <1>0 DEF LibInv
    <3>3. Len(m'.in) = 0 /\ 0 \in 0..r.madr
      BY <2>2, <2>3
    <3> QED
      BY <2>2, <2>4, <3>1, <3>2, <3>3 DEF LibInv
  <2> QED
    BY <2>3, <2>5 DEF FormedInv
<1>15. CASE UNCHANGED vars
  BY <1>15 DEF vars, StreamInv, FormedInv
<1> QED
  BY <1>2, <1>3, <1>4, <1>5, <1>6, <1>7, <1>8, <1>9, <1>10, <1>11, <1>12, <1>13, <1>14, <1>15
  DEF Next, AllCommands

LEMMA FormedTypes == FormedInv => TypeOK
<1> SUFFICES ASSUME FormedInv PROVE TypeOK
  OBVIOUS
<1>0. Formed(m) /\ LibInv(m, lib)
  BY DEF FormedInv
<1>1. /\ {m.suspend, m.dmae, m.chain, m.active, m.tagEnd, m.busy, m.tail, m.run,
          m.active3, m.drainAll} \subseteq BOOLEAN
      /\ m.pending \subseteq DmaChannels /\ m.str \subseteq DmaChannels
      /\ m.raised \subseteq DmaChannels \cup {"ipu"} /\ m.published \in 1..Slots
  BY <1>0 DEF Formed, CtlOk, OutOk, DecOk
<1>2. /\ m.madr \in 0..SlotQw * Slots /\ m.qwc \in 0..SlotQw * Slots
      /\ m.tadr \in 0..Slots /\ m.in \in Seq(0..SlotQw * Slots - 1)
  BY <1>0 DEF Formed, RegsOk, FifoOk, Quads
<1>3. {m.pos, m.hw, m.snap, m.stall} \subseteq 0..Units
  BY <1>0, FormedUnits DEF Formed, DecOk
<1>4. /\ m.cmd \in AllCommands /\ m.flag \in {"none", "ecd", "scd"}
      /\ {m.pred, m.snapPred, m.fresh, m.csc, m.qwc3, m.out, m.taken} \subseteq Nat
  BY <1>0 DEF Formed, DecOk, OutOk
<1>5. /\ lib.pc \in {"run", "stopped", "regs", "bp", "cleared", "set"}
      /\ lib.job \in {"play", "add", "restart", "reset"}
  BY <1>0 DEF LibInv
<1> QED
  BY <1>1, <1>2, <1>3, <1>4, <1>5 DEF TypeOK

\* Whatever the guest issues and whoever holds the controller, the FIFO holds
\* quadwords of the stream, the cursor, the retry point and the furthest unit
\* read lie in it, and the registers stay within the ring, BCLR under a pending
\* command and the library's rewind by what is resident included (hw/ipu.cpp).
THEOREM IpuTypeCorrect == Spec => []TypeOK
<1>1. Init => StreamInv
  BY InitChannel, InitFormed DEF StreamInv
<1>2. StreamInv /\ [Next]_vars => StreamInv'
  BY NextChannel, NextFormed DEF StreamInv
<1>3. StreamInv => TypeOK
  BY FormedTypes DEF StreamInv
<1> QED
  BY <1>1, <1>2, <1>3, PTL DEF Spec

-----------------------------------------------------------------------------
(* Each macroblock leaves once *)

\* What is out, what was taken and what a pending command still owes make up
\* what is due.
PaidInv == Apt(m) /\ Total(m) = hist.due

LEMMA InitPaid == Init => PaidInv
<1> SUFFICES ASSUME Init PROVE PaidInv
  OBVIOUS
<1>1. m.busy = FALSE /\ m.out = 0 /\ m.taken = 0 /\ hist.due = 0
  BY DEF Init, Machine
<1>2. Apt(m) /\ Owed(m) = 0
  BY <1>1 DEF Apt, Owed
<1> QED
  BY <1>1, <1>2 DEF PaidInv, Total

LEMMA NextPaid == StreamInv /\ PaidInv /\ [Next]_vars => PaidInv'
<1> SUFFICES ASSUME StreamInv, PaidInv, [Next]_vars PROVE PaidInv'
  OBVIOUS
<1>0. Formed(m) /\ Snapped(m) /\ LibInv(m, lib) /\ Apt(m) /\ Total(m) = hist.due
  BY DEF StreamInv, FormedInv, PaidInv
<1>1. ASSUME Pays(m, m'), hist' = hist PROVE PaidInv'
  BY <1>0, <1>1 DEF Pays, PaidInv, Apt, Total, Owed
<1>2. ASSUME NEW c \in Commands \cup Frames, Command(c) PROVE PaidInv'
  <2>1. m' = CmdWrite(m, c) /\ m.busy = FALSE /\ hist'.due = hist.due + Macroblocks(c)
    <3>1. m.busy \in BOOLEAN
      BY <1>0 DEF Formed, DecOk
    <3> QED
      BY <1>2, <3>1 DEF Command
  <2>2. Apt(m') /\ Total(m') = Total(m) + Macroblocks(c)
    BY <1>0, <2>1, CmdWriteOwes
  <2> QED
    BY <1>0, <2>1, <2>2 DEF PaidInv, Apt, Total, Owed
<1>3. CASE Poll \/ ReadBp
  <2>1. Goes(m, m') /\ hist' = hist
    BY <1>0, <1>3, ServiceInputGoes DEF Poll, ReadBp
  <2> QED
    BY <1>1, <2>1 DEF Goes
<1>4. ASSUME NEW n \in 0..2, ArmOutput(n) PROVE PaidInv'
  <2> DEFINE a == [m EXCEPT !.qwc3 = n, !.raised = @ \ {"fromIpu"}]
  <2>1. /\ m' = Window(a, "fromIpu", TRUE) /\ hist' = hist /\ "fromIpu" \in DmaChannels
        /\ n \in Nat
    BY <1>4 DEF ArmOutput, DmaChannels
  <2>2. Stays(m, a)
    BY <1>0, <2>1, ArmedStays
  <2> HIDE DEF a
  <2>3. Sits(a, m')
    BY <2>1, <2>2, WindowStays DEF Stays, Sits
  <2> QED
    BY <1>1, <2>1, <2>2, <2>3, PaysOn DEF Stays, Sits
<1>5. CASE StartCopy \/ StartDma
  <2>1. PICK ch \in DmaChannels :
          m' = Window([m EXCEPT !.raised = @ \ {ch}], ch, TRUE) /\ hist' = hist
    BY <1>5 DEF StartCopy, StartDma, DmaChannels
  <2> DEFINE a == [m EXCEPT !.raised = @ \ {ch}]
  <2>2. Stays(m, a)
    <3>1. 0 \in Nat
      OBVIOUS
    <3> QED
      BY <1>0, <3>1, ArmedStays
  <2>3. m' = Window(a, ch, TRUE)
    BY <2>1
  <2> HIDE DEF a
  <2>4. Sits(a, m')
    BY <2>2, <2>3, WindowStays DEF Stays, Sits
  <2> QED
    BY <1>1, <2>1, <2>2, <2>4, PaysOn DEF Stays, Sits
<1>6. CASE HoldOff \/ HoldOn
  <2>1. PICK on \in BOOLEAN : m' = HoldWrite(m, m.suspend, on) /\ hist' = hist
    BY <1>6 DEF HoldOff, HoldOn
  <2>2. m.suspend \in BOOLEAN
    BY <1>0 DEF Formed, CtlOk
  <2>3. Stays(m, m')
    BY <1>0, <2>1, <2>2, HoldWriteStays
  <2> QED
    BY <1>1, <2>1, <2>3 DEF Stays, Sits
<1>7. ASSUME NEW job \in {"add", "restart", "reset"}, StopDma(job) PROVE PaidInv'
  <2>1. /\ m' = IF job = "reset" THEN TeardownWindow(m) ELSE Window(m, "toIpu", FALSE)
        /\ hist' = hist
    BY <1>7 DEF StopDma
  <2>2. Sits(m, m')
    BY <1>0, <2>1, TeardownStays, WindowStays DEF DmaChannels
  <2> QED
    BY <1>1, <2>1, <2>2 DEF Sits
<1>8. CASE Publish
  <2>1. m' = [m EXCEPT !.published = @ + 1] /\ hist' = hist
    BY <1>8 DEF Publish
  <2>2. SameAcc(m, m')
    BY <1>0, <2>1 DEF Formed, Full, AllFields, SameAcc
  <2> QED
    BY <1>1, <2>1, <2>2, SameAccPays
<1>9. CASE ReadRegisters
  <2>1. Pays(m, m') /\ hist' = hist
    BY <1>9 DEF ReadRegisters, Pays
  <2> QED
    BY <1>1, <2>1
<1>10. CASE IssueBclr
  <2>1. m' = Bclr(m, lib.bp) /\ lib.bp \in 0..QwU - 1 /\ hist' = hist
    BY <1>0, <1>10 DEF IssueBclr, LibInv
  <2>2. SameAcc(m, m')
    BY <1>0, <2>1, BclrIs DEF SameOut, SameAcc
  <2> QED
    BY <1>1, <2>1, <2>2, SameAccPays
<1>11. CASE WriteRegisters
  <2> DEFINE x == lib.regs.madr - lib.resident
             y == lib.regs.qwc + lib.resident
             z == lib.regs.tadr
  <2>1. m' = [m EXCEPT !.madr = x, !.qwc = y, !.tadr = z] /\ hist' = hist
    BY <1>11 DEF WriteRegisters
  <2> HIDE DEF x, y, z
  <2>2. SameAcc(m, m')
    BY <1>0, <2>1 DEF Formed, Full, AllFields, SameAcc
  <2> QED
    BY <1>1, <2>1, <2>2, SameAccPays
<1>12. CASE Reset
  <2>1. m' = SoftReset(m) /\ hist'.due = m.taken
    BY <1>12 DEF Reset
  <2>2. m'.busy = FALSE /\ m'.out = 0 /\ m'.taken = m.taken /\ m.taken \in Nat
    BY <1>0, <2>1, SoftResetIs DEF Formed, OutOk
  <2>3. m'.out + m'.taken + 0 = hist'.due
    BY <2>1, <2>2
  <2> QED
    BY <2>2, <2>3 DEF PaidInv, Apt, Total, Owed
<1>13. CASE UNCHANGED vars
  BY <1>0, <1>13 DEF vars, PaidInv, Apt, Total, Owed
<1> QED
  BY <1>2, <1>3, <1>4, <1>5, <1>6, <1>7, <1>8, <1>9, <1>10, <1>11, <1>12, <1>13 DEF Next

LEMMA PaidOnce == StreamInv /\ PaidInv => OutputOnce
<1> SUFFICES ASSUME StreamInv, PaidInv PROVE OutputOnce
  OBVIOUS
<1>1. Formed(m) /\ Total(m) = hist.due
  BY DEF StreamInv, FormedInv, PaidInv
<1>2. /\ m.busy \in BOOLEAN /\ m.out \in Nat /\ m.taken \in Nat /\ m.csc \in Nat /\ m.fresh = 0
      /\ m.cmd \in AllCommands
  BY <1>1 DEF Formed, OutOk, DecOk
<1>3. Macroblocks(m.cmd) \in Nat
  BY <1>2, MacroblocksAre
<1> DEFINE k == IF m.tail THEN 1 ELSE 0
           n == Macroblocks(m.cmd)
<1>4. k \in Nat /\ n \in Nat
  BY <1>3
<1>5. m.out + m.taken + (IF m.busy THEN n - (m.csc + k) ELSE 0) = hist.due
  BY <1>1 DEF Total, Owed
<1>6. OutputOnce <=> /\ m.taken + m.out = (IF ~m.busy THEN hist.due ELSE hist.due - n + m.csc + k)
                     /\ m.fresh = 0
  BY DEF OutputOnce
<1> HIDE DEF k, n
<1>7. CASE m.busy = TRUE
  <2>1. hist.due = m.out + m.taken + (n - (m.csc + k))
    BY <1>5, <1>7
  <2>2. m.taken + m.out = hist.due - n + m.csc + k
    BY <1>2, <1>4, <2>1
  <2> QED
    BY <1>2, <1>6, <1>7, <2>2
<1>8. CASE m.busy = FALSE
  <2>1. hist.due = m.out + m.taken + 0
    BY <1>5, <1>8
  <2>2. m.taken + m.out = hist.due
    BY <1>2, <2>1
  <2> QED
    BY <1>2, <1>6, <1>8, <2>2
<1> QED
  BY <1>2, <1>7, <1>8

\* Each macroblock leaves once, however often its command ran out of input and
\* was run again from its retry point, and whoever starts, holds or stops
\* channel 3 meanwhile (restore_snapshot, drain_ch3).
THEOREM OutputOnceCorrect == Spec => []OutputOnce
<1>1. Init => StreamInv /\ PaidInv
  BY InitChannel, InitFormed, InitPaid DEF StreamInv
<1>2. StreamInv /\ PaidInv /\ [Next]_vars => (StreamInv /\ PaidInv)'
  BY NextChannel, NextFormed, NextPaid DEF StreamInv
<1>3. StreamInv /\ PaidInv => OutputOnce
  BY PaidOnce
<1> QED
  BY <1>1, <1>2, <1>3, PTL DEF Spec

-----------------------------------------------------------------------------
(* What went in is what the library is told *)

\* The registers the library is about to write after a BCLR.
Rewound(s, l) == [s EXCEPT !.madr = l.regs.madr - l.resident]

\* The registers tell where the decoder stands; between a BCLR and the rewind
\* they will, and what the library has read of IPU_BP it reads still.
TellsLib(h, s, l) ==
  /\ l.pc # "cleared" => Tells(zeros, h, s)
  /\ l.pc = "cleared" => Tells(zeros, h, Rewound(s, l))
  /\ l.pc = "bp" => l.bp = s.pos % QwU /\ l.resident = Resident(s)

TellsInv ==
  /\ zeros \in Streams
  /\ {"cmds", "stops", "holds"} \subseteq DOMAIN used /\ used.cmds \in Nat
  /\ TellsLib(hist, m, lib)

LEMMA InitTells == Init => TellsInv
<1> SUFFICES ASSUME Init PROVE TellsInv
  OBVIOUS
<1>1. /\ m.busy = FALSE /\ m.madr = 0 /\ m.in = <<>> /\ m.pos = 0 /\ m.hw = 0
      /\ lib.pc = "set" /\ zeros \in Streams /\ hist.expect = 0
      /\ {"cmds", "stops", "holds"} \subseteq DOMAIN used /\ used.cmds = 0
  BY DEF Init, Machine
<1>2. (0 - 0) * QwU + 0 = 0 /\ Len(<<>>) = 0 /\ 0 \in Nat
  BY SizesPositive
<1>3. Place(m) = 0 /\ Reach(m) = 0
  <2>1. Place(m) = (0 - 0) * QwU + 0 /\ Reach(m) = (0 - 0) * QwU + 0
    BY <1>1, <1>2 DEF Place, Reach
  <2> QED
    BY <1>2, <2>1
<1>4. Tells(zeros, hist, m)
  BY <1>1, <1>2, <1>3 DEF Tells, Apt
<1> QED
  BY <1>1, <1>2, <1>4 DEF TellsInv, TellsLib

\* With an empty FIFO the telling looks at nothing but these.
LEMMA EmptyTells ==
  ASSUME NEW h, NEW s, NEW t, Tells(zeros, h, s), Len(s.in) = 0, Len(t.in) = 0,
         t.madr = s.madr, t.chain = s.chain, t.pos = s.pos, t.hw = s.hw, t.snap = s.snap,
         t.busy = s.busy, t.cmd = s.cmd, t.tail = s.tail, t.run = s.run, t.csc = s.csc,
         s.stall = Len(s.in) => t.stall = Len(t.in)
  PROVE  Tells(zeros, h, t)
<1>1. /\ Place(t) = Place(s) /\ Reach(t) = Reach(s) /\ Mark(t) = Mark(s)
      /\ Edge(t) = Edge(s) /\ Avail(t) = Avail(s)
  BY DEF Place, Reach, Mark, Edge, Avail
<1>2. Apt(t)
  BY DEF Tells, Apt
<1>3. Behind(zeros, h, s) => Behind(zeros, h, t)
  BY <1>1 DEF Behind
<1>4. (Nameable(s) => Nameable(t)) /\ (Lacks(zeros, s) => Lacks(zeros, t))
  BY <1>1 DEF Nameable, Lacks
<1> QED
  BY <1>1, <1>2, <1>3, <1>4 DEF Tells

\* A channel that stands still under a true telling.
LEMMA TellsStill ==
  ASSUME NEW h, NEW s, Formed(s), s.active = FALSE, Tells(zeros, h, s)
  PROVE  Still(s)
<1> SUFFICES ASSUME s.busy = TRUE PROVE s.pos = s.snap /\ Lacks(zeros, s)
  BY DEF Still
<1>1. Place(s) = Mark(s) /\ Lacks(zeros, s)
  BY DEF Tells
<1> DEFINE o == (s.madr - Len(s.in)) * QwU
<1>2. o + s.pos = o + s.snap
  BY <1>1 DEF Place, Mark
<1>3. o \in Nat /\ s.pos \in Nat /\ s.snap \in Nat
  BY PlaceNumbers, FormedNumbers
<1> HIDE DEF o
<1>4. s.pos = s.snap
  BY <1>2, <1>3
<1> QED
  BY <1>1, <1>4

\* It stands still after a BCLR too, when only the rewound registers tell.
LEMMA RewoundStill ==
  ASSUME NEW h, NEW s, NEW l, Formed(s), s.active = FALSE, LibInv(s, l), l.pc = "cleared",
         Tells(zeros, h, Rewound(s, l))
  PROVE  Still(s)
<1> DEFINE t == Rewound(s, l)
           x == l.regs.madr - l.resident
           o == x * QwU
<1>1. /\ t.madr = x /\ t.in = s.in /\ t.pos = s.pos /\ t.snap = s.snap /\ t.busy = s.busy
      /\ t.cmd = s.cmd /\ t.tail = s.tail /\ t.run = s.run
  BY DEF Rewound, Formed, Full, AllFields
<1>2. /\ Len(s.in) = 0 /\ x \in Nat
  BY QuadUnits DEF LibInv, RegsOk
<1> HIDE DEF t, x
<1> SUFFICES ASSUME s.busy = TRUE PROVE s.pos = s.snap /\ Lacks(zeros, s)
  BY DEF Still
<1>3. Place(t) = Mark(t) /\ Lacks(zeros, t)
  BY <1>1 DEF Tells, t
<1>4. s.pos = s.snap
  <2>1. x - 0 = x /\ o \in Nat /\ s.pos \in Nat /\ s.snap \in Nat
    BY <1>2, FormedNumbers, SizesPositive, Product
  <2>2. o + s.pos = o + s.snap
    BY <1>1, <1>2, <1>3, <2>1 DEF Place, Mark
  <2> HIDE DEF o
  <2> QED
    BY <2>1, <2>2
<1>5. Avail(s) = 0 /\ Avail(t) = Avail(s)
  <2>1. s.pos \in Nat /\ 0 * QwU = 0
    BY FormedNumbers, SizesPositive
  <2>2. ~(Len(s.in) * QwU > s.pos)
    BY <1>2, <2>1
  <2> QED
    BY <1>1, <2>2 DEF Avail
<1>6. Lacks(zeros, s)
  <2>1. 0 < ByteU
    BY SizesPositive
  <2> QED
    BY <1>1, <1>3, <1>5, <2>1 DEF Lacks
<1> QED
  BY <1>4, <1>6

\* A call that leaves the library where it is leaves it a true telling, and a
\* command that such a call completes has said what ended it.
LEMMA StaysTells ==
  ASSUME Fits, NEW h, NEW s, NEW t, NEW l, Formed(s), LibInv(s, l), Stays(s, t),
         TellsLib(h, s, l),
         l.pc # "run" => "toIpu" \notin s.pending /\ s.active = FALSE
  PROVE  TellsLib(h, t, l) /\ (s.busy = TRUE /\ t.busy = FALSE => Answers(h, t))
<1>1. Serves(s, t) /\ Formed(t) /\ ("toIpu" \notin s.pending => Frozen(s, t))
  BY DEF Stays, Sits
<1>2. CASE l.pc \notin {"bp", "cleared"}
  BY <1>1, <1>2 DEF TellsLib, Serves
<1>3. CASE l.pc = "bp"
  <2>1. Tells(zeros, h, s) /\ l.bp = s.pos % QwU /\ l.resident = Resident(s)
    BY <1>3 DEF TellsLib
  <2>2. Tells(zeros, h, t) /\ (s.busy = TRUE /\ t.busy = FALSE => Answers(h, t))
    BY <1>1, <2>1 DEF Serves
  <2>3. Still(s)
    BY <1>3, <2>1, TellsStill
  <2>4. Len(t.in) = Len(s.in) /\ t.pos = s.pos
    BY <1>1, <1>3, <2>3 DEF Frozen
  <2>5. Resident(t) = Resident(s)
    BY <2>4 DEF Resident, QwFrom
  <2> QED
    BY <1>3, <2>1, <2>2, <2>4, <2>5 DEF TellsLib
<1>4. CASE l.pc = "cleared"
  <2> DEFINE a == Rewound(s, l)
             b == Rewound(t, l)
             x == l.regs.madr - l.resident
  <2>1. Tells(zeros, h, a)
    BY <1>4 DEF TellsLib
  <2>2. Still(s)
    BY <1>4, <2>1, RewoundStill
  <2>3. /\ Len(t.in) = Len(s.in) /\ t.chain = s.chain /\ t.pos = s.pos /\ t.snap = s.snap
        /\ t.busy = s.busy /\ t.cmd = s.cmd /\ t.tail = s.tail /\ t.run = s.run
        /\ t.csc = s.csc /\ (s.stall = Len(s.in) => t.stall = Len(t.in))
        /\ (Len(s.in) = 0 => t.hw = s.hw)
    BY <1>1, <1>4, <2>2 DEF Frozen
  <2>4. Len(s.in) = 0
    BY <1>4 DEF LibInv
  <2>5. /\ a.madr = x /\ a.in = s.in /\ a.chain = s.chain /\ a.pos = s.pos /\ a.hw = s.hw
        /\ a.snap = s.snap /\ a.busy = s.busy /\ a.cmd = s.cmd /\ a.tail = s.tail
        /\ a.run = s.run /\ a.csc = s.csc /\ a.stall = s.stall
    BY DEF Rewound, Formed, Full, AllFields
  <2>6. /\ b.madr = x /\ b.in = t.in /\ b.chain = t.chain /\ b.pos = t.pos /\ b.hw = t.hw
        /\ b.snap = t.snap /\ b.busy = t.busy /\ b.cmd = t.cmd /\ b.tail = t.tail
        /\ b.run = t.run /\ b.csc = t.csc /\ b.stall = t.stall
    BY <1>1 DEF Rewound, Formed, Full, AllFields
  <2> HIDE DEF a, b, x
  <2>7. Tells(zeros, h, b)
    BY <2>1, <2>3, <2>4, <2>5, <2>6, EmptyTells
  <2> QED
    BY <1>4, <2>3, <2>7 DEF TellsLib, b
<1> QED
  BY <1>2, <1>3, <1>4

\* BCLR and the rewind to come put back the position the library has read.
LEMMA BclrTells ==
  ASSUME NEW h, NEW s, NEW t, Formed(s), Snapped(s), Tells(zeros, h, s),
         t.madr = s.madr - Resident(s), t.in = <<>>, t.pos = s.pos % QwU, t.hw = s.pos % QwU,
         s.busy = TRUE => t.snap = s.pos % QwU /\ t.stall = 0,
         t.chain = s.chain, t.busy = s.busy, t.cmd = s.cmd, t.tail = s.tail, t.run = s.run,
         t.csc = s.csc
  PROVE  Tells(zeros, h, t)
<1> DEFINE o == (s.madr - Resident(s)) * QwU
           r == s.pos % QwU
<1>1. StreamPosition(s) = Place(s)
  BY TellsPosition
<1>2. /\ s.madr - Resident(s) \in Nat /\ r \in Nat /\ o \in Nat /\ s.madr \in Nat
      /\ Resident(s) \in Nat
  <2>1. Resident(s) \in 0..s.madr /\ r \in 0..QwU - 1 /\ s.madr \in Nat
    BY ResidentBound, FormedNumbers
  <2>2. s.madr - Resident(s) \in Nat /\ Resident(s) \in Nat
    BY <2>1
  <2>3. o \in Nat
    BY <2>2, SizesPositive, Product
  <2> QED
    BY <2>1, <2>2, <2>3
<1>3. Len(t.in) = 0 /\ (s.madr - Resident(s)) - 0 = s.madr - Resident(s)
  BY <1>2
<1>4. Place(t) = o + r /\ Reach(t) = o + r /\ Edge(t) = o /\ (s.busy = TRUE => Mark(t) = o + r)
  BY <1>3 DEF Place, Reach, Mark, Edge
<1>5. Place(s) = o + r
  BY <1>1 DEF StreamPosition
<1>6. Avail(t) = 0
  <2>1. 0 * QwU = 0 /\ ~(0 > r)
    BY <1>2, SizesPositive
  <2> QED
    BY <1>3, <2>1 DEF Avail
<1>7. Apt(t) /\ s.busy \in BOOLEAN
  BY DEF Tells, Apt, Formed, DecOk
<1> HIDE DEF o, r
<1>8. CASE s.busy = FALSE
  BY <1>4, <1>5, <1>7, <1>8 DEF Tells
<1>9. CASE s.busy = TRUE
  <2>1. Behind(zeros, h, s) /\ Place(s) = Mark(s)
    BY <1>9 DEF Tells
  <2>2. Place(s) <= Reach(s) /\ Place(s) \in Nat /\ Reach(s) \in Nat
    BY PlaceNumbers
  <2>3. Reach(t) <= h.expect
    <3>1. Reach(s) <= h.expect /\ h.expect \in Nat
      BY <2>1 DEF Behind
    <3> QED
      BY <1>4, <1>5, <2>2, <3>1
  <2>4. Mark(t) = Mark(s) /\ Place(t) = Mark(t)
    BY <1>4, <1>5, <1>9, <2>1
  <2>5. Behind(zeros, h, t)
    BY <2>1, <2>3, <2>4 DEF Behind
  <2>6. Nameable(t)
    <3>1. Edge(t) = o /\ Mark(t) = o + r
      BY <1>4, <1>9
    <3> DEFINE d == (Fifo + 1) * QwU
    <3>2. d \in Nat
      BY DepthNumbers
    <3>3. Edge(t) <= Mark(t) + d
      <4> HIDE DEF d
      <4> QED
        BY <1>2, <3>1, <3>2
    <3> QED
      BY <3>3 DEF Nameable
  <2>7. Lacks(zeros, t)
    <3>1. 0 < ByteU /\ 0 < Peek
      BY SizesPositive
    <3>2. 0 < Span(t.cmd)
      <4>1. t.cmd \in Commands \cup Frames
        BY <2>1 DEF Behind
      <4>2. t.cmd.len \in Nat \ {0}
        BY <4>1, CommandsAssumption
      <4> QED
        BY <4>2, SizesPositive DEF Span
    <3> QED
      BY <1>6, <3>1, <3>2 DEF Lacks
  <2> QED
    BY <1>3, <1>7, <1>9, <2>4, <2>5, <2>6, <2>7 DEF Tells
<1> QED
  BY <1>7, <1>8, <1>9

\* A command that is over, from its beginning on, has the flag of its scan.
LEMMA AnswersFlag ==
  ASSUME NEW h, NEW s, Formed(s), zeros \in Streams, Answers(h, s)
  PROVE  s.flag = DecodeFlag(s.cmd, h.start)
<1>1. s.cmd.len \in Nat
  <2>1. s.cmd \in Commands \cup Frames \/ s.cmd = NoCmd
    BY DEF Formed, DecOk, AllCommands
  <2>2. NoCmd.len \in Nat
    BY DEF NoCmd
  <2> QED
    BY <2>1, <2>2, CommandsAssumption
<1>2. zeros \subseteq 0..Units - 1
  BY StreamsAssumption
<1> QED
  BY <1>1, <1>2, FlagFollows DEF Answers

\* A command that completes reports the end of its scan as the stream has it.
Reports ==
  m'.cmd # NoCmd /\ ~m'.busy /\ (m.busy \/ used'.cmds > used.cmds) /\ lib'.job # "reset"
    => m'.flag = DecodeFlag(m'.cmd, hist'.start)

LEMMA NextTells == Fits /\ StreamInv /\ TellsInv /\ [Next]_vars => TellsInv' /\ [Reports]_vars
<1> SUFFICES ASSUME Fits, StreamInv, TellsInv, [Next]_vars PROVE TellsInv' /\ [Reports]_vars
  OBVIOUS
<1>0. /\ Formed(m) /\ Snapped(m) /\ LibInv(m, lib)
      /\ lib.pc # "run" => "toIpu" \notin m.pending /\ m.active = FALSE
      /\ Formed(m') /\ m.busy \in BOOLEAN /\ m'.busy \in BOOLEAN
  <2>1. Agree(m, "toIpu") /\ m.active \in BOOLEAN /\ Bracket(m, lib)
    BY DEF StreamInv, ChannelInv, Sound, Ordered, Ok, DmaChannels
  <2>2. lib.pc # "run" => "toIpu" \notin m.str
    BY <2>1 DEF Bracket
  <2>3. lib.pc # "run" => "toIpu" \notin m.pending /\ m.active = FALSE
    BY <2>1, <2>2 DEF Agree, Live
  <2>4. Formed(m) /\ Formed(m')
    BY NextFormed DEF StreamInv, FormedInv
  <2> QED
    BY <2>3, <2>4 DEF StreamInv, FormedInv, Formed, DecOk
<1>z. /\ zeros \in Streams /\ {"cmds", "stops", "holds"} \subseteq DOMAIN used
      /\ used.cmds \in Nat /\ TellsLib(hist, m, lib)
  BY DEF TellsInv
\* A step that leaves the stream, what is due and the number of commands.
<1>1. ASSUME zeros' = zeros, hist' = hist,
             \/ used' = used
             \/ \E what \in {"stops", "holds"} : used' = [used EXCEPT ![what] = @ + 1],
             TellsLib(hist, m', lib'),
             m.busy = TRUE /\ m'.busy = FALSE => Answers(hist, m')
      PROVE  TellsInv' /\ [Reports]_vars
  <2>1. {"cmds", "stops", "holds"} \subseteq DOMAIN used' /\ used'.cmds = used.cmds
    BY <1>z, <1>1
  <2>2. TellsInv'
    <3>1. /\ lib'.pc # "cleared" => Tells(zeros', hist', m')
          /\ lib'.pc = "cleared" => Tells(zeros', hist', Rewound(m', lib'))
          /\ lib'.pc = "bp" => lib'.bp = m'.pos % QwU /\ lib'.resident = Resident(m')
      BY <1>1 DEF TellsLib
    <3>2. zeros' \in Streams /\ used'.cmds \in Nat
      BY <1>z, <1>1, <2>1
    <3> QED
      BY <2>1, <3>1, <3>2 DEF TellsInv, TellsLib
  <2>3. Reports
    <3> SUFFICES ASSUME m'.busy = FALSE, m.busy \/ used'.cmds > used.cmds
                 PROVE  m'.flag = DecodeFlag(m'.cmd, hist'.start)
      BY <1>0 DEF Reports
    <3>1. m.busy = TRUE
      BY <1>0, <1>z, <2>1
    <3>2. m'.flag = DecodeFlag(m'.cmd, hist.start)
      BY <1>0, <1>z, <1>1, <3>1, AnswersFlag
    <3> QED
      BY <1>1, <3>2
  <2> QED
    BY <2>2, <2>3
\* A call that leaves the library where it is.
<1>2. ASSUME Stays(m, m'), zeros' = zeros, hist' = hist, lib' = lib,
             \/ used' = used
             \/ \E what \in {"stops", "holds"} : used' = [used EXCEPT ![what] = @ + 1]
      PROVE  TellsInv' /\ [Reports]_vars
  <2>1. TellsLib(hist, m', lib) /\ (m.busy = TRUE /\ m'.busy = FALSE => Answers(hist, m'))
    BY <1>0, <1>z, <1>2, StaysTells
  <2> QED
    BY <1>1, <1>2, <2>1
\* One that moves the library, outside a BCLR and the rewind.
<1>3. ASSUME Sits(m, m'), zeros' = zeros, hist' = hist, lib.pc # "cleared",
             lib'.pc \notin {"bp", "cleared"},
             \/ used' = used
             \/ \E what \in {"stops", "holds"} : used' = [used EXCEPT ![what] = @ + 1]
      PROVE  TellsInv' /\ [Reports]_vars
  <2>1. Tells(zeros, hist, m)
    BY <1>z, <1>3 DEF TellsLib
  <2>2. Tells(zeros, hist, m') /\ (m.busy = TRUE /\ m'.busy = FALSE => Answers(hist, m'))
    BY <1>3, <2>1 DEF Sits, Serves
  <2>3. TellsLib(hist, m', lib')
    BY <1>3, <2>2 DEF TellsLib
  <2> QED
    BY <1>1, <1>3, <2>2, <2>3
<1>4. ASSUME NEW c \in IF m.chain THEN Commands ELSE Frames, Command(c)
      PROVE  TellsInv' /\ [Reports]_vars
  <2>1. /\ m' = CmdWrite(m, c) /\ m.busy = FALSE /\ lib.pc = "run" /\ lib' = lib
        /\ DecodeEnd(c, hist.expect) + Peek <= Units /\ zeros' = zeros
        /\ used' = [used EXCEPT !["cmds"] = @ + 1]
        /\ hist'.start = hist.expect /\ hist'.expect = DecodeEnd(c, hist.expect)
    BY <1>0, <1>4 DEF Command, Spend
  <2>2. c \in Commands \cup Frames
    BY <1>4
  <2>3. Tells(zeros, hist, m) /\ hist.expect \in Nat
    BY <1>z, <2>1 DEF TellsLib, Tells
  <2>4. EndIs(zeros, c, hist.expect, DecodeEnd(c, hist.expect))
    <3>1. c.len \in Nat /\ zeros \subseteq 0..Units - 1
      BY <1>z, <2>2, CommandsAssumption, StreamsAssumption
    <3> QED
      BY <2>3, <3>1, DecodeEndIs
  <2> DEFINE g == hist'
  <2>5. g.start = hist.expect /\ EndIs(zeros, c, g.start, g.expect) /\ g.expect + Peek <= Units
    BY <2>1, <2>4
  <2> HIDE DEF g
  <2>6. Tells(zeros, g, m') /\ (m'.busy = FALSE => Answers(g, m'))
    BY <1>0, <1>4, <2>1, <2>2, <2>3, <2>5, CmdWriteTells
  <2>7. TellsInv'
    <3>1. {"cmds", "stops", "holds"} \subseteq DOMAIN used' /\ used'.cmds \in Nat
      BY <1>z, <2>1
    <3> QED
      BY <1>z, <2>1, <2>6, <3>1 DEF TellsInv, TellsLib, g
  <2>8. Reports
    <3>1. m'.busy = FALSE => m'.flag = DecodeFlag(m'.cmd, g.start)
      BY <1>0, <1>z, <2>6, AnswersFlag
    <3> QED
      BY <1>0, <3>1 DEF Reports, g
  <2> QED
    BY <2>7, <2>8
<1>5. CASE Poll
  <2>1. Goes(m, m')
    BY <1>0, <1>5, ServiceInputGoes DEF Poll
  <2> QED
    BY <1>2, <1>5, <2>1, GoesStays DEF Poll
<1>6. ASSUME NEW n \in 0..2, ArmOutput(n) PROVE TellsInv' /\ [Reports]_vars
  <2> DEFINE a == [m EXCEPT !.qwc3 = n, !.raised = @ \ {"fromIpu"}]
  <2>1. /\ m' = Window(a, "fromIpu", TRUE) /\ "fromIpu" \in DmaChannels /\ n \in Nat
        /\ lib' = lib /\ zeros' = zeros /\ hist' = hist /\ used' = used
    BY <1>6 DEF ArmOutput, DmaChannels
  <2>2. Stays(m, a)
    BY <1>0, <2>1, ArmedStays
  <2> HIDE DEF a
  <2>3. Stays(a, m')
    BY <2>1, <2>2, WindowStays DEF Stays, Sits
  <2>4. Stays(m, m')
    BY <2>2, <2>3, StaysOn
  <2> QED
    BY <1>2, <2>1, <2>4
<1>7. CASE StartCopy
  <2> DEFINE a == [m EXCEPT !.raised = @ \ {"copy"}]
  <2>1. /\ m' = Window(a, "copy", TRUE) /\ "copy" \in DmaChannels /\ 0 \in Nat
        /\ lib' = lib /\ zeros' = zeros /\ hist' = hist /\ used' = used
    BY <1>7 DEF StartCopy, DmaChannels
  <2>2. Stays(m, a)
    BY <1>0, <2>1, ArmedStays
  <2> HIDE DEF a
  <2>3. Stays(a, m')
    BY <2>1, <2>2, WindowStays DEF Stays, Sits
  <2>4. Stays(m, m')
    BY <2>2, <2>3, StaysOn
  <2> QED
    BY <1>2, <2>1, <2>4
<1>8. CASE HoldOff \/ HoldOn
  <2>1. PICK on \in BOOLEAN : m' = HoldWrite(m, m.suspend, on)
    BY <1>8 DEF HoldOff, HoldOn
  <2>2. /\ lib' = lib /\ zeros' = zeros /\ hist' = hist
        /\ used' = used \/ used' = [used EXCEPT !["holds"] = @ + 1]
    BY <1>8 DEF HoldOff, HoldOn, Spend
  <2>3. Stays(m, m')
    BY <1>0, <2>1, HoldWriteStays DEF Formed, CtlOk
  <2> QED
    BY <1>2, <2>2, <2>3
<1>9. ASSUME NEW job \in {"add", "restart", "reset"}, StopDma(job)
      PROVE  TellsInv' /\ [Reports]_vars
  <2>1. /\ m' = IF job = "reset" THEN TeardownWindow(m) ELSE Window(m, "toIpu", FALSE)
        /\ lib' = [lib EXCEPT !.pc = "stopped", !.job = job] /\ lib.pc = "run"
        /\ zeros' = zeros /\ hist' = hist
        /\ used' = used \/ used' = [used EXCEPT !["stops"] = @ + 1]
    BY <1>9 DEF StopDma, Spend
  <2>2. Sits(m, m')
    BY <1>0, <2>1, TeardownStays, WindowStays DEF DmaChannels
  <2>3. lib'.pc = "stopped"
    BY <1>0, <2>1 DEF LibInv
  <2> QED
    BY <1>3, <2>1, <2>2, <2>3
<1>10. CASE Publish
  <2>1. /\ m' = [m EXCEPT !.published = @ + 1] /\ lib' = [lib EXCEPT !.pc = "set"]
        /\ lib.pc = "stopped" /\ zeros' = zeros /\ hist' = hist /\ used' = used
    BY <1>10 DEF Publish, Goto
  <2>2. /\ SameDec(m, m') /\ m'.madr = m.madr /\ m'.in = m.in /\ m'.chain = m.chain
    BY <1>0, <2>1 DEF Formed, Full, AllFields, SameDec
  <2>3. lib'.pc = "set"
    BY <1>0, <2>1 DEF LibInv
  <2>4. Tells(zeros, hist, m')
    BY <1>z, <2>1, <2>2, TellsOn DEF TellsLib
  <2>5. TellsLib(hist, m', lib')
    BY <2>3, <2>4 DEF TellsLib
  <2> QED
    BY <1>1, <2>1, <2>2, <2>5 DEF SameDec
<1>11. CASE ReadRegisters
  <2>1. /\ m' = m /\ lib' = [lib EXCEPT !.pc = "regs", !.regs = Saved(m)]
        /\ lib.pc = "stopped" /\ zeros' = zeros /\ hist' = hist /\ used' = used
    BY <1>11 DEF ReadRegisters
  <2>2. lib'.pc = "regs"
    BY <1>0, <2>1 DEF LibInv
  <2>3. TellsLib(hist, m', lib')
    BY <1>z, <2>1, <2>2 DEF TellsLib
  <2> QED
    BY <1>1, <2>1, <2>3
<1>12. CASE ReadBp
  <2>1. /\ m' = ServiceInput(m) /\ lib.pc = "regs"
        /\ lib' = [lib EXCEPT !.pc = "bp", !.bp = m'.pos % QwU, !.resident = Resident(m')]
        /\ zeros' = zeros /\ hist' = hist /\ used' = used
    BY <1>12 DEF ReadBp
  <2>2. Goes(m, m')
    BY <1>0, <2>1, ServiceInputGoes
  <2>3. Tells(zeros, hist, m') /\ (m.busy = TRUE /\ m'.busy = FALSE => Answers(hist, m'))
    BY <1>z, <2>1, <2>2 DEF TellsLib, Goes, Serves
  <2>4. lib'.pc = "bp" /\ lib'.bp = m'.pos % QwU /\ lib'.resident = Resident(m')
    BY <1>0, <2>1 DEF LibInv
  <2>5. TellsLib(hist, m', lib')
    BY <2>3, <2>4 DEF TellsLib
  <2> QED
    BY <1>1, <2>1, <2>3, <2>5
<1>13. CASE IssueBclr
  <2>1. /\ m' = Bclr(m, lib.bp) /\ lib.pc = "bp" /\ lib' = [lib EXCEPT !.pc = "cleared"]
        /\ zeros' = zeros /\ hist' = hist /\ used' = used
    BY <1>13 DEF IssueBclr, Goto
  <2>2. /\ lib.bp \in 0..QwU - 1 /\ lib.regs.madr = m.madr /\ lib.bp = m.pos % QwU
        /\ lib.resident = Resident(m) /\ Tells(zeros, hist, m)
    BY <1>0, <1>z, <2>1 DEF LibInv, TellsLib, Saved
  <2>3. /\ Full(m') /\ m'.in = <<>> /\ m'.pos = lib.bp /\ m'.hw = lib.bp
        /\ m'.chain = m.chain /\ m'.busy = m.busy
        /\ m'.cmd = m.cmd /\ m'.tail = m.tail /\ m'.run = m.run /\ m'.csc = m.csc
        /\ (m.busy = TRUE => m'.snap = lib.bp /\ m'.stall = 0)
    BY <1>0, <2>1, <2>2, BclrIs DEF SameCtl, Formed
  <2>4. lib'.pc = "cleared" /\ lib'.regs = lib.regs /\ lib'.resident = lib.resident
    BY <1>0, <2>1 DEF LibInv
  <2> DEFINE t == Rewound(m', lib')
             x == lib'.regs.madr - lib'.resident
  <2>5. x = m.madr - Resident(m)
    BY <2>2, <2>4
  <2> HIDE DEF x
  <2>6. /\ t.madr = x /\ t.in = m'.in /\ t.pos = m'.pos /\ t.hw = m'.hw /\ t.snap = m'.snap
        /\ t.stall = m'.stall /\ t.chain = m'.chain /\ t.busy = m'.busy /\ t.cmd = m'.cmd
        /\ t.tail = m'.tail /\ t.run = m'.run /\ t.csc = m'.csc
    BY <2>3 DEF Rewound, Full, AllFields, x
  <2> HIDE DEF t
  <2>7. Tells(zeros, hist, t)
    BY <1>0, <2>2, <2>3, <2>5, <2>6, BclrTells
  <2>8. TellsLib(hist, m', lib')
    BY <2>4, <2>7 DEF TellsLib, t
  <2> QED
    BY <1>1, <2>1, <2>3, <2>8
<1>14. CASE WriteRegisters
  <2> DEFINE x == lib.regs.madr - lib.resident
             y == lib.regs.qwc + lib.resident
             z == lib.regs.tadr
             t == Rewound(m, lib)
  <2>1. /\ m' = [m EXCEPT !.madr = x, !.qwc = y, !.tadr = z]
        /\ lib.pc = "cleared" /\ lib' = [lib EXCEPT !.pc = "set"]
        /\ zeros' = zeros /\ hist' = hist /\ used' = used
    BY <1>14 DEF WriteRegisters, Goto
  <2>2. t = [m EXCEPT !.madr = x] /\ Tells(zeros, hist, t)
    BY <1>z, <2>1 DEF TellsLib, Rewound
  <2> HIDE DEF x, y, z, t
  <2>3. SameDec(t, m') /\ m'.madr = t.madr /\ m'.in = t.in /\ m'.chain = t.chain
    BY <1>0, <2>1, <2>2 DEF Formed, Full, AllFields, SameDec
  <2>4. Tells(zeros, hist, m')
    BY <2>2, <2>3, TellsOn
  <2>5. lib'.pc = "set"
    BY <1>0, <2>1 DEF LibInv
  <2>6. TellsLib(hist, m', lib')
    BY <2>4, <2>5 DEF TellsLib
  <2>7. m'.busy = m.busy
    BY <1>0, <2>1 DEF Formed, Full, AllFields
  <2> QED
    BY <1>0, <1>1, <2>1, <2>6, <2>7
<1>15. CASE StartDma
  <2> DEFINE a == [m EXCEPT !.raised = @ \ {"toIpu"}]
  <2>1. /\ m' = Window(a, "toIpu", TRUE) /\ lib' = [lib EXCEPT !.pc = "run"]
        /\ lib.pc = "set" /\ "toIpu" \in DmaChannels /\ 0 \in Nat
        /\ zeros' = zeros /\ hist' = hist /\ used' = used
    BY <1>15 DEF StartDma, Goto, DmaChannels
  <2>2. Stays(m, a)
    BY <1>0, <2>1, ArmedStays
  <2> HIDE DEF a
  <2>3. Sits(a, m')
    BY <2>1, <2>2, WindowStays DEF Stays, Sits
  <2>4. Sits(m, m')
    BY <2>2, <2>3, SitsOn DEF Stays
  <2>5. lib'.pc = "run"
    BY <1>0, <2>1 DEF LibInv
  <2> QED
    BY <1>3, <2>1, <2>4, <2>5
<1>16. CASE Reset
  <2> DEFINE r == Saved([Machine(m.chain) EXCEPT !.tadr = 0])
  <2>1. /\ m' = SoftReset(m) /\ lib.job = "reset" /\ zeros' = zeros /\ used' = used
        /\ lib' = [lib EXCEPT !.pc = "cleared", !.resident = 0, !.regs = r]
        /\ hist'.expect = 0
    BY <1>16 DEF Reset
  <2>2. r.madr = 0
    BY DEF Saved, Machine
  <2> HIDE DEF r
  <2>3. lib'.pc = "cleared" /\ lib'.resident = 0 /\ lib'.regs = r /\ lib'.job = "reset"
    BY <1>0, <2>1 DEF LibInv
  <2>4. /\ Full(m') /\ m'.in = <<>> /\ m'.busy = FALSE /\ m'.pos = 0 /\ m'.hw = 0
    BY <1>0, <2>1, SoftResetIs DEF Formed
  <2> DEFINE t == Rewound(m', lib')
             g == hist'
  <2>5. t.madr = 0 /\ t.in = <<>> /\ t.busy = FALSE /\ t.pos = 0 /\ t.hw = 0
    BY <2>2, <2>3, <2>4 DEF Rewound, Full, AllFields
  <2>6. g.expect = 0
    BY <2>1
  <2> HIDE DEF t, g
  <2>7. Place(t) = 0 /\ Reach(t) = 0
    <3>1. (0 - 0) * QwU + 0 = 0 /\ Len(<<>>) = 0
      BY SizesPositive
    <3>2. Place(t) = (0 - 0) * QwU + 0 /\ Reach(t) = (0 - 0) * QwU + 0
      BY <2>5, <3>1 DEF Place, Reach
    <3> QED
      BY <3>1, <3>2
  <2>8. Tells(zeros, g, t)
    BY <2>5, <2>6, <2>7 DEF Tells, Apt
  <2>9. TellsInv'
    BY <1>z, <2>1, <2>3, <2>8 DEF TellsInv, TellsLib, t, g
  <2>10. Reports
    BY <2>3 DEF Reports
  <2> QED
    BY <2>9, <2>10
<1>17. CASE UNCHANGED vars
  <2>1. m' = m /\ lib' = lib /\ zeros' = zeros /\ hist' = hist /\ used' = used
    BY <1>17 DEF vars
  <2> QED
    BY <1>z, <1>17, <2>1 DEF TellsInv, TellsLib
<1> QED
  BY <1>4, <1>5, <1>6, <1>7, <1>8, <1>9, <1>10, <1>11, <1>12, <1>13, <1>14, <1>15, <1>16, <1>17
  DEF Next

\* What the registers tell is what the properties ask.
LEMMA TellsExact == StreamInv /\ TellsInv => PositionTold
<1> SUFFICES ASSUME StreamInv, TellsInv, lib.pc # "cleared"
             PROVE  /\ \A i \in DOMAIN m.in : m.in[i] = m.madr - Len(m.in) + i - 1
                    /\ IF ~m.busy THEN StreamPosition(m) = hist.expect
                       ELSE IF m.tail
                            THEN StreamPosition(m) \in hist.start + m.cmd.len..hist.expect
                            ELSE StreamPosition(m) = hist.start + m.csc * m.cmd.len
  BY DEF PositionTold
<1>1. Formed(m) /\ Snapped(m) /\ Tells(zeros, hist, m)
  BY DEF StreamInv, FormedInv, TellsInv, TellsLib
<1>2. m.busy \in BOOLEAN /\ m.tail \in BOOLEAN /\ m.run \in BOOLEAN
  BY <1>1 DEF Formed, DecOk
<1>3. \A i \in DOMAIN m.in : m.in[i] = m.madr - Len(m.in) + i - 1
  <2>1. DOMAIN m.in = 1..Len(m.in)
    BY <1>1, FormedNumbers
  <2>2. \A i \in 1..Len(m.in) : m.in[i] = m.madr - Len(m.in) + i - 1
    BY <1>1 DEF Formed, FifoOk
  <2> QED
    BY <2>1, <2>2
<1>4. StreamPosition(m) = Place(m)
  BY <1>1, TellsPosition
<1>5. CASE m.busy = FALSE
  <2>1. Place(m) = hist.expect
    BY <1>1, <1>5 DEF Tells
  <2> QED
    BY <1>3, <1>4, <1>5, <2>1
<1>6. CASE m.busy = TRUE
  <2>1. Behind(zeros, hist, m) /\ Place(m) = Mark(m)
    BY <1>1, <1>6 DEF Tells
  <2>2. CASE m.tail = FALSE
    <3>1. Mark(m) = hist.start + m.csc * m.cmd.len
      BY <2>1, <2>2 DEF Behind
    <3> QED
      BY <1>3, <1>4, <1>6, <2>1, <2>2, <3>1
  <2>3. CASE m.tail = TRUE
    <3> DEFINE v == hist.start + m.cmd.len
               x == Mark(m)
    <3>1. hist.start \in Nat /\ hist.expect \in Nat /\ m.cmd \in Commands \cup Frames
      BY <2>1 DEF Behind
    <3>2. v \in Nat
      BY <3>1, CommandsAssumption
    <3>3. x \in Nat /\ x <= hist.expect
      <4>1. x \in Nat /\ Place(m) <= Reach(m) /\ Reach(m) \in Nat
        BY <1>1, PlaceNumbers
      <4>2. Reach(m) <= hist.expect
        BY <2>1 DEF Behind
      <4> HIDE DEF x
      <4> QED
        BY <2>1, <3>1, <4>1, <4>2 DEF x
    <3>4. v <= x
      <4>1. CASE m.run = FALSE
        <5>1. x = v
          BY <2>1, <2>3, <4>1 DEF Behind
        <5> HIDE DEF x, v
        <5> QED
          BY <3>2, <5>1
      <4>2. CASE m.run = TRUE
        <5>1. AlignUp(v) <= x
          BY <2>1, <2>3, <4>2 DEF Behind, Scanned
        <5>2. AlignUp(v) \in Nat /\ v <= AlignUp(v)
          BY <3>2, Ceiling
        <5> HIDE DEF x, v
        <5> QED
          BY <3>2, <3>3, <5>1, <5>2
      <4> QED
        BY <1>2, <4>1, <4>2
    <3>5. x \in v..hist.expect
      <4> HIDE DEF x, v
      <4> QED
        BY <3>1, <3>2, <3>3, <3>4
    <3> QED
      BY <1>3, <1>4, <1>6, <2>1, <2>3, <3>5
  <2> QED
    BY <1>2, <2>2, <2>3
<1> QED
  BY <1>2, <1>5, <1>6

LEMMA TellsInvariant == Fits => (Spec => [](StreamInv /\ PaidInv /\ TellsInv))
<1> SUFFICES ASSUME Fits PROVE Spec => [](StreamInv /\ PaidInv /\ TellsInv)
  OBVIOUS
<1>1. Init => StreamInv /\ PaidInv /\ TellsInv
  BY InitChannel, InitFormed, InitPaid, InitTells DEF StreamInv
<1>2. StreamInv /\ PaidInv /\ TellsInv /\ [Next]_vars => (StreamInv /\ PaidInv /\ TellsInv)'
  BY NextChannel, NextFormed, NextPaid, NextTells DEF StreamInv
<1> QED
  BY <1>1, <1>2, PTL DEF Spec

\* While each command but a CSC fits the FIFO and the quadword being read (a CSC
\* commits macroblock by macroblock), the position the library computes from MADR,
\* QWC and IPU_BP names the unit the decoder will read next, and each macroblock
\* leaves once: through every stall, hold, stop, BCLR, rewind and restart
\* (hw/ipu.cpp's header, bp_ifc, advance_walk, restore_snapshot).
THEOREM StreamExactCorrect == Fits => (Spec => []StreamExact)
<1>1. StreamInv /\ PaidInv /\ TellsInv => StreamExact
  BY PaidOnce, TellsExact DEF StreamExact
<1> SUFFICES ASSUME Fits PROVE Spec => []StreamExact
  OBVIOUS
<1>2. Spec => [](StreamInv /\ PaidInv /\ TellsInv)
  BY TellsInvariant
<1> QED
  BY <1>1, <1>2, PTL

\* And a command that completes, at whichever retry, reports the end of its scan
\* as the stream has it (bdec_tail_scan).
THEOREM ResultExactCorrect == Fits => (Spec => ResultExact)
<1>1. Fits => (StreamInv /\ TellsInv /\ [Next]_vars => [Reports]_vars)
  BY NextTells
<1>2. ResultExact <=> [][Reports]_vars
  BY DEF ResultExact, Reports
<1> SUFFICES ASSUME Fits PROVE Spec => ResultExact
  OBVIOUS
<1>3. StreamInv /\ TellsInv /\ [Next]_vars => [Reports]_vars
  BY <1>1
<1>4. Spec => [](StreamInv /\ PaidInv /\ TellsInv)
  BY TellsInvariant
<1> QED
  BY <1>2, <1>3, <1>4, PTL DEF Spec
=============================================================================

---------------------------- MODULE EETimersProofs ----------------------------
(***************************************************************************)
(* The counter that is computed when somebody looks steps on every cycle   *)
(* as UpCounter does, for every width, prescale, H-blank and mode and in   *)
(* every order of accesses, and the remembered event is never stale.       *)
(***************************************************************************)
EXTENDS EETimers, TLAPS

-----------------------------------------------------------------------------
(* Division *)

LEMMA Division ==
  ASSUME NEW a \in Int, NEW b \in Nat \ {0}
  PROVE  /\ a \div b \in Int /\ a % b \in 0..(b - 1)
         /\ a = b * (a \div b) + (a % b)
  OBVIOUS

\* Quotient and remainder are what their equation says.
LEMMA DivisionUnique ==
  ASSUME NEW b \in Nat \ {0}, NEW q \in Int, NEW r \in 0..(b - 1)
  PROVE  (b * q + r) \div b = q /\ (b * q + r) % b = r
<1> DEFINE a == b * q + r
<1>1. a \in Int
  OBVIOUS
<1>2. /\ a \div b \in Int /\ a % b \in 0..(b - 1)
      /\ a = b * (a \div b) + (a % b)
  BY <1>1, Division
<1> QED
  BY <1>1, <1>2

LEMMA ModShift ==
  ASSUME NEW b \in Nat \ {0}, NEW a \in Int, NEW k \in Int
  PROVE  (a + b * k) % b = a % b
<1>1. /\ a \div b \in Int /\ a % b \in 0..(b - 1)
      /\ a = b * (a \div b) + (a % b)
  BY Division
<1>2. a + b * k = b * ((a \div b) + k) + (a % b)
  BY <1>1
<1>3. (a \div b) + k \in Int
  BY <1>1
<1> QED
  BY <1>1, <1>2, <1>3, DivisionUnique

LEMMA ModOfSum ==
  ASSUME NEW b \in Nat \ {0}, NEW a \in Int, NEW k \in Int
  PROVE  ((a % b) + k) % b = (a + k) % b
<1>1. /\ a \div b \in Int /\ a % b \in 0..(b - 1)
      /\ a = b * (a \div b) + (a % b)
  BY Division
<1>2. a + k = ((a % b) + k) + b * (a \div b)
  BY <1>1
<1>3. (a % b) + k \in Int
  BY <1>1
<1> QED
  BY <1>1, <1>2, <1>3, ModShift

LEMMA ModTurn ==
  ASSUME NEW b \in Nat \ {0}, NEW a \in Int
  PROVE  (a + b) % b = a % b /\ ((a % b) + 1) % b = (a + 1) % b
<1> DEFINE k == 1
<1>1. k \in Int /\ b * k = b
  OBVIOUS
<1> HIDE DEF k
<1>2. (a + b * k) % b = a % b /\ ((a % b) + k) % b = (a + k) % b
  BY <1>1, ModShift, ModOfSum
<1> QED
  BY <1>1, <1>2 DEF k

LEMMA ModSmall ==
  ASSUME NEW b \in Nat \ {0}, NEW a \in Int, 0 <= a, a < 2 * b
  PROVE  a % b = IF a < b THEN a ELSE a - b
<1>1. CASE a < b
  <2>1. a = b * 0 + a /\ a \in 0..(b - 1)
    BY <1>1
  <2> QED
    BY <1>1, <2>1, DivisionUnique
<1>2. CASE a >= b
  <2>1. a = b * 1 + (a - b) /\ a - b \in 0..(b - 1)
    BY <1>2
  <2> QED
    BY <1>2, <2>1, DivisionUnique
<1> QED
  BY <1>1, <1>2

LEMMA OneMoreCycle ==
  ASSUME NEW a \in Nat, NEW b \in Nat \ {0}
  PROVE  /\ (a + 1) \div b = IF (a % b) + 1 = b THEN (a \div b) + 1 ELSE a \div b
         /\ (a + 1) % b = IF (a % b) + 1 = b THEN 0 ELSE (a % b) + 1
<1>1. /\ a \div b \in Int /\ a % b \in 0..(b - 1)
      /\ a = b * (a \div b) + (a % b)
  BY Division
<1>2. CASE (a % b) + 1 = b
  <2>1. a + 1 = b * ((a \div b) + 1) + 0 /\ (a \div b) + 1 \in Int /\ 0 \in 0..(b - 1)
    BY <1>1, <1>2
  <2> QED
    BY <1>2, <2>1, DivisionUnique, ZenonT(40)
<1>3. CASE (a % b) + 1 # b
  <2> DEFINE q == a \div b
             r == (a % b) + 1
  <2>1. a + 1 = b * q + r /\ q \in Int /\ r \in 0..(b - 1)
    BY <1>1, <1>3
  <2> HIDE DEF q, r
  <2>2. (a + 1) \div b = q /\ (a + 1) % b = r
    BY <2>1, DivisionUnique
  <2> QED
    BY <1>3, <2>2 DEF q, r
<1> QED
  BY <1>2, <1>3

LEMMA ZeroDivided ==
  ASSUME NEW b \in Nat \ {0}
  PROVE  0 \div b = 0 /\ 0 % b = 0
<1>1. b * 0 + 0 = 0 /\ 0 \in 0..(b - 1) /\ 0 \in Int
  OBVIOUS
<1>2. (b * 0 + 0) \div b = 0 /\ (b * 0 + 0) % b = 0
  BY <1>1, DivisionUnique
<1> QED
  BY <1>1, <1>2

LEMMA QuotientGrows ==
  ASSUME NEW b \in Nat \ {0}, NEW x \in Nat, NEW y \in Nat, x <= y
  PROVE  x \div b \in Nat /\ x \div b <= y \div b
<1>1. /\ x \div b \in Int /\ x % b \in 0..(b - 1) /\ x = b * (x \div b) + (x % b)
      /\ y \div b \in Int /\ y % b \in 0..(b - 1) /\ y = b * (y \div b) + (y % b)
  BY Division
<1> QED
  BY <1>1

-----------------------------------------------------------------------------
(* A counter that has gone s ticks from c0, and the value c it meets *)

MeetsIn(c0, c) == ((c - c0 - 1) % Width) + 1

LEMMA MeetsIs ==
  ASSUME NEW c0 \in Value, NEW c \in Value
  PROVE  MeetsIn(c0, c) = IF c > c0 THEN c - c0 ELSE (c - c0) + Width
<1>1. Width \in Nat \ {0} /\ c0 \in Int /\ c \in Int /\ 0 <= c0 /\ c0 < Width /\ 0 <= c /\ c < Width
  BY WidthAssumption DEF Value
<1> DEFINE d == c - c0 - 1
<1>2. d \in Int /\ 0 <= d + Width /\ d + Width < 2 * Width
  BY <1>1
<1> DEFINE e == d + Width
<1> HIDE DEF d
<1>3. d % Width = e % Width
  <2>1. (d + Width) % Width = d % Width
    BY <1>1, <1>2, ModTurn
  <2> QED
    BY <2>1 DEF e
<1>4. e % Width = IF e < Width THEN e ELSE e - Width
  <2>1. e \in Int /\ 0 <= e /\ e < 2 * Width
    BY <1>1, <1>2
  <2> HIDE DEF e
  <2> QED
    BY <1>1, <2>1, ModSmall
<1>5. d % Width = IF d < 0 THEN d + Width ELSE d
  BY <1>1, <1>2, <1>3, <1>4
<1>6. MeetsIn(c0, c) = (d % Width) + 1
  BY DEF MeetsIn, d
<1> QED
  BY <1>1, <1>5, <1>6 DEF d

LEMMA CountItself ==
  ASSUME NEW n \in Value
  PROVE  n % Width = n
<1>1. Width \in Nat \ {0} /\ n \in Int /\ 0 <= n /\ n < Width /\ n < 2 * Width
  BY WidthAssumption DEF Value
<1> QED
  BY <1>1, ModSmall

\* The next tick reaches c exactly if it was not met before and is the next
\* value; likewise zero.
LEMMA NextTick ==
  ASSUME NEW c0 \in Value, NEW c \in Value, NEW s \in Nat
  PROVE  LET n == (((c0 + s) % Width) + 1) % Width
         IN  /\ n \in Value
             /\ MeetsIn(c0, c) \in 1..Width
             /\ MeetsIn(c0, c) <= s + 1 <=> MeetsIn(c0, c) <= s \/ n = c
             /\ Width - c0 <= s + 1 <=> Width - c0 <= s \/ n = 0
<1> DEFINE n == (((c0 + s) % Width) + 1) % Width
<1>1. Width \in Nat \ {0} /\ c0 \in Int /\ c \in Int /\ 0 <= c0 /\ c0 < Width /\ 0 <= c /\ c < Width
  BY WidthAssumption DEF Value
<1>2. n = (c0 + s + 1) % Width
  <2> DEFINE a == c0 + s
  <2>1. a \in Int
    BY <1>1
  <2> HIDE DEF a
  <2>2. ((a % Width) + 1) % Width = (a + 1) % Width
    BY <1>1, <2>1, ModTurn
  <2> QED
    BY <2>2 DEF a
<1>3. c0 + s + 1 \in Int
  BY <1>1
<1>4. n \in 0..(Width - 1)
  BY <1>1, <1>2, <1>3, Division
<1>5. MeetsIn(c0, c) = IF c > c0 THEN c - c0 ELSE (c - c0) + Width
  BY MeetsIs
<1>6. CASE s >= Width
  BY <1>1, <1>4, <1>5, <1>6 DEF Value
<1>7. CASE s < Width
  <2>1. 0 <= c0 + s + 1 /\ c0 + s + 1 < 2 * Width
    BY <1>1, <1>7
  <2>2. n = IF c0 + s + 1 < Width THEN c0 + s + 1 ELSE (c0 + s + 1) - Width
    BY <1>1, <1>2, <1>3, <2>1, ModSmall
  <2> HIDE DEF n
  <2>3. /\ n \in Value
        /\ MeetsIn(c0, c) \in 1..Width
        /\ MeetsIn(c0, c) <= s + 1 <=> MeetsIn(c0, c) <= s \/ n = c
        /\ Width - c0 <= s + 1 <=> Width - c0 <= s \/ n = 0
    BY <1>1, <1>4, <1>5, <2>2 DEF Value
  <2> QED
    BY <2>3 DEF n
<1> QED
  BY <1>1, <1>6, <1>7

-----------------------------------------------------------------------------
(* The counter of a state *)

LEMMA PeriodType ==
  ASSUME TypeOK
  PROVE  Period(mode, hblank) \in Nat \ {0} /\ Width \in Nat \ {0} /\ mode.cue \in BOOLEAN
<1>1. mode.clks \in DOMAIN Prescale \cup {"hblank"} /\ hblank \in Hblanks /\ mode.cue \in BOOLEAN
  BY DEF TypeOK
<1>2. CASE mode.clks = "hblank"
  BY <1>1, <1>2, ClocksAssumption, WidthAssumption DEF Period
<1>3. CASE mode.clks # "hblank"
  BY <1>1, <1>3, ClocksAssumption, WidthAssumption DEF Period
<1> QED
  BY <1>2, <1>3

LEMMA PeriodRule == TypeOK => Period(mode, hblank) \in Nat \ {0}
  BY PeriodType

LEMMA TicksType ==
  ASSUME TypeOK, NEW a \in Nat, NEW b \in Nat, b <= a
  PROVE  /\ Ticks(mode, hblank, a) \in Nat /\ Ticks(mode, hblank, b) \in Nat
         /\ Ticks(mode, hblank, b) <= Ticks(mode, hblank, a)
         /\ ~ mode.cue => Ticks(mode, hblank, a) = 0
         /\ (base + Ticks(mode, hblank, a)) % Width \in Value
<1> DEFINE p == Period(mode, hblank)
<1>1. p \in Nat \ {0} /\ Width \in Nat \ {0}
  BY PeriodType
<1>2. base \in 0..(Width - 1)
  BY DEF TypeOK, Value
<1> HIDE DEF p
<1>3. a \div p \in Nat /\ b \div p \in Nat /\ b \div p <= a \div p
  BY <1>1, QuotientGrows
<1>4. /\ Ticks(mode, hblank, a) = IF mode.cue THEN a \div p ELSE 0
      /\ Ticks(mode, hblank, b) = IF mode.cue THEN b \div p ELSE 0
  BY DEF Ticks, p
<1>5. Ticks(mode, hblank, a) \in Nat
  BY <1>3, <1>4
<1> DEFINE n == base + Ticks(mode, hblank, a)
<1>6. n \in Int
  BY <1>1, <1>2, <1>5
<1> HIDE DEF n
<1>7. n % Width \in Value
  BY <1>1, <1>6, Division DEF Value
<1> QED
  BY <1>3, <1>4, <1>7 DEF n

\* Evaluated u cycles before a, the counter of a has gone Span ticks since.
LEMMA SpanType ==
  ASSUME TypeOK, NEW a \in Nat, NEW u \in 0..a
  PROVE  /\ TicksBefore(a, u) \in Nat /\ Span(a, u) \in Nat /\ CountBefore(a, u) \in Value
         /\ (base + Ticks(mode, hblank, a)) % Width = (CountBefore(a, u) + Span(a, u)) % Width
         /\ \A c \in Value : /\ Meets(a, u, c) = MeetsIn(CountBefore(a, u), c)
                             /\ Meets(a, u, c) \in 1..Width
         /\ ~ mode.cue \/ u = 0 => Span(a, u) = 0
<1> DEFINE t == Ticks(mode, hblank, a)
           s == Ticks(mode, hblank, a - u)
<1>1. a - u \in Nat /\ a - u <= a
  OBVIOUS
<1>2. /\ t \in Nat /\ s \in Nat /\ s <= t
      /\ ~ mode.cue => t = 0 /\ s = 0
      /\ (base + s) % Width \in Value
  <2>1. t \in Nat /\ s \in Nat /\ s <= t /\ (~ mode.cue => t = 0)
    BY <1>1, TicksType
  <2>2. (base + s) % Width \in Value /\ (~ mode.cue => s = 0)
    BY <1>1, TicksType
  <2> QED
    BY <2>1, <2>2
<1>3. TicksBefore(a, u) = s /\ Span(a, u) = t - s /\ CountBefore(a, u) = (base + s) % Width
  BY DEF TicksBefore, Span, CountBefore
<1>4. ~ mode.cue \/ u = 0 => t = s
  <2>1. CASE u = 0
    BY <2>1
  <2>2. CASE ~ mode.cue
    BY <1>2, <2>2
  <2> QED
    BY <2>1, <2>2
<1> HIDE DEF t, s
<1>5. (base + t) % Width = (((base + s) % Width) + (t - s)) % Width
  <2> DEFINE n == base + s
             k == t - s
  <2>1. n \in Int /\ k \in Int /\ base + t = n + k /\ Width \in Nat \ {0}
    BY <1>2, PeriodType DEF TypeOK, Value
  <2> HIDE DEF n, k
  <2>2. ((n % Width) + k) % Width = (n + k) % Width
    BY <2>1, ModOfSum
  <2> QED
    BY <2>1, <2>2 DEF n, k
<1>6. ASSUME NEW c \in Value
      PROVE  Meets(a, u, c) = MeetsIn(CountBefore(a, u), c) /\ Meets(a, u, c) \in 1..Width
  <2>1. Meets(a, u, c) = MeetsIn(CountBefore(a, u), c)
    BY DEF Meets, MeetsIn
  <2> QED
    BY <1>2, <1>3, <2>1, NextTick
<1>7. t - s \in Nat /\ (~ mode.cue \/ u = 0 => t - s = 0)
  BY <1>2, <1>4
<1> QED
  BY <1>2, <1>3, <1>5, <1>6, <1>7 DEF t

\* The cycle to come is a tick, to this count.
TickDue   == (age % Period(mode, hblank)) + 1 = Period(mode, hblank)
NextCount == (Count + 1) % Width

LEMMA CountType ==
  ASSUME TypeOK
  PROVE  /\ Count = (base + Ticks(mode, hblank, age)) % Width
         /\ Count \in Value /\ NextCount \in Value
<1>1. Count = (base + Ticks(mode, hblank, age)) % Width
  BY DEF Count, CountNow
<1>2. age \in Nat /\ Width \in Nat \ {0}
  BY PeriodType DEF TypeOK
<1>3. Count \in Value
  BY <1>1, <1>2, TicksType
<1>4. Count + 1 \in Int
  BY <1>2, <1>3 DEF Value
<1>5. NextCount \in Value
  BY <1>2, <1>4, Division DEF NextCount, Value
<1> QED
  BY <1>1, <1>3, <1>5

\* The values the counter has been to in the u cycles before a.
PassedAt(a, u) == {c \in Value : Meets(a, u, c) <= Span(a, u)}

LEMMA PassedIs ==
  ASSUME TypeOK, NEW a \in Nat, NEW u \in 0..a
  PROVE  /\ Crossed(a, u) <=> comp \in PassedAt(a, u)
         /\ Wrapped(a, u) <=> 0 \in PassedAt(a, u)
<1>1. comp \in Value /\ 0 \in Value /\ Width \in Nat \ {0}
  BY WidthAssumption DEF TypeOK, Value
<1>2. /\ CountBefore(a, u) \in Value
      /\ Meets(a, u, 0) = MeetsIn(CountBefore(a, u), 0)
  BY <1>1, SpanType
<1>3. MeetsIn(CountBefore(a, u), 0) = Width - CountBefore(a, u)
  <2>1. MeetsIn(CountBefore(a, u), 0) =
          IF 0 > CountBefore(a, u) THEN 0 - CountBefore(a, u)
                                   ELSE (0 - CountBefore(a, u)) + Width
    BY <1>1, <1>2, MeetsIs
  <2> QED
    BY <1>1, <1>2, <2>1 DEF Value
<1>4. Wrapped(a, u) <=> Meets(a, u, 0) <= Span(a, u)
  BY <1>2, <1>3 DEF Wrapped
<1> QED
  BY <1>1, <1>4 DEF PassedAt, Crossed

\* What a cycle does to the counter, the evaluation u cycles ago staying where it was.
LEMMA CycleSeen ==
  ASSUME TypeOK, mode.cue
  PROVE  /\ (age + 1) % Period(mode, hblank) =
              IF TickDue THEN 0 ELSE (age % Period(mode, hblank)) + 1
         /\ Ticks(mode, hblank, age + 1) =
              IF TickDue THEN Ticks(mode, hblank, age) + 1 ELSE Ticks(mode, hblank, age)
         /\ (base + Ticks(mode, hblank, age + 1)) % Width = IF TickDue THEN NextCount ELSE Count
         /\ PassedAt(age + 1, unchecked + 1) =
              IF TickDue THEN PassedAt(age, unchecked) \cup {NextCount}
                         ELSE PassedAt(age, unchecked)
<1> DEFINE p == Period(mode, hblank)
           t == Ticks(mode, hblank, age)
           c0 == CountBefore(age, unchecked)
           s == Span(age, unchecked)
<1>1. /\ p \in Nat \ {0} /\ Width \in Nat \ {0}
      /\ age \in Nat /\ unchecked \in 0..age /\ comp \in Value /\ base \in Int
  BY PeriodType DEF TypeOK, Value
<1>2. t = age \div p /\ Ticks(mode, hblank, age + 1) = (age + 1) \div p
  BY DEF Ticks, p
<1> HIDE DEF p
<1>3. /\ (age + 1) \div p = IF (age % p) + 1 = p THEN (age \div p) + 1 ELSE age \div p
      /\ (age + 1) % p = IF (age % p) + 1 = p THEN 0 ELSE (age % p) + 1
  BY <1>1, OneMoreCycle
<1>4. TickDue <=> (age % p) + 1 = p
  BY DEF TickDue, p
<1>5. /\ Ticks(mode, hblank, age + 1) = IF TickDue THEN t + 1 ELSE t
      /\ (age + 1) % p = IF TickDue THEN 0 ELSE (age % p) + 1
  BY <1>2, <1>3, <1>4
<1>6. t \in Nat /\ Count = (base + t) % Width /\ Count \in Value
  BY <1>1, TicksType, CountType
<1>7. (base + (t + 1)) % Width = NextCount
  <2> DEFINE a == base + t
  <2>1. a \in Int /\ a + 1 = base + (t + 1)
    BY <1>1, <1>6
  <2> HIDE DEF a
  <2>2. ((a % Width) + 1) % Width = (a + 1) % Width
    BY <1>1, <2>1, ModTurn
  <2> QED
    BY <1>6, <2>1, <2>2 DEF NextCount, a
<1>8. (base + Ticks(mode, hblank, age + 1)) % Width = IF TickDue THEN NextCount ELSE Count
  <2>1. CASE TickDue
    BY <1>5, <1>7, <2>1
  <2>2. CASE ~ TickDue
    BY <1>5, <1>6, <2>2
  <2> QED
    BY <2>1, <2>2
<1>9. (age + 1) - (unchecked + 1) = age - unchecked
  BY <1>1
<1>10. TicksBefore(age + 1, unchecked + 1) = TicksBefore(age, unchecked)
  BY <1>9 DEF TicksBefore
<1>11. CountBefore(age + 1, unchecked + 1) = c0
  BY <1>10 DEF CountBefore
<1>12. TicksBefore(age, unchecked) \in Nat /\ s = t - TicksBefore(age, unchecked)
  BY <1>1, SpanType DEF Span
<1>13. Span(age + 1, unchecked + 1) = Ticks(mode, hblank, age + 1) - TicksBefore(age, unchecked)
  BY <1>10 DEF Span
<1>14. s \in Nat /\ c0 \in Value /\ Count = (c0 + s) % Width
  BY <1>1, <1>6, SpanType
<1>15. ASSUME NEW c \in Value
       PROVE  /\ Meets(age, unchecked, c) = MeetsIn(c0, c)
              /\ Meets(age + 1, unchecked + 1, c) = MeetsIn(c0, c)
  BY <1>11 DEF Meets, MeetsIn
<1> HIDE DEF t, c0, s
<1>16. Span(age + 1, unchecked + 1) = IF TickDue THEN s + 1 ELSE s
  BY <1>5, <1>6, <1>12, <1>13
<1>17. ASSUME NEW c \in Value
       PROVE  MeetsIn(c0, c) <= s + 1 <=> MeetsIn(c0, c) <= s \/ NextCount = c
  BY <1>1, <1>14, <1>17, NextTick DEF NextCount
<1>18. NextCount \in Value
  BY CountType
<1>19. PassedAt(age, unchecked) = {c \in Value : MeetsIn(c0, c) <= s}
  BY <1>15 DEF PassedAt, s
<1>20. PassedAt(age + 1, unchecked + 1) =
         {c \in Value : MeetsIn(c0, c) <= Span(age + 1, unchecked + 1)}
  BY <1>15 DEF PassedAt
<1>21. PassedAt(age + 1, unchecked + 1) =
         IF TickDue THEN PassedAt(age, unchecked) \cup {NextCount} ELSE PassedAt(age, unchecked)
  <2>1. CASE TickDue
    BY <1>16, <1>17, <1>18, <1>19, <1>20, <2>1
  <2>2. CASE ~ TickDue
    BY <1>16, <1>19, <1>20, <2>2
  <2> QED
    BY <2>1, <2>2
<1> QED
  BY <1>5, <1>8, <1>21 DEF p, t

-----------------------------------------------------------------------------
(* The next event *)

CompareEvent ==
  ((Ticks(mode, hblank, age) + ToCompare) * Period(mode, hblank)) - age
OverflowEvent ==
  ((Ticks(mode, hblank, age) + ToOverflow) * Period(mode, hblank)) - age

\* An event is as far off as its ticks say, and comes with the last of them.
LEMMA EventDistance ==
  ASSUME TypeOK, mode.cue, NEW dt \in Nat \ {0}
  PROVE  LET e == ((Ticks(mode, hblank, age) + dt) * Period(mode, hblank)) - age
         IN  /\ e \in Nat \ {0}
             /\ e = dt * Period(mode, hblank) - (age % Period(mode, hblank))
             /\ TickDue /\ dt = 1 => e = 1
<1> DEFINE p == Period(mode, hblank)
           q == age \div p
           r == age % p
<1>1. p \in Nat \ {0} /\ age \in Nat
  BY PeriodType DEF TypeOK
<1>2. Ticks(mode, hblank, age) = q /\ (TickDue <=> r + 1 = p)
  BY DEF Ticks, TickDue
<1> HIDE DEF p
<1>3. q \in Int /\ r \in 0..(p - 1) /\ age = p * q + r
  BY <1>1, Division
<1> HIDE DEF q, r
<1>4. (q + dt) * p = p * q + dt * p /\ dt * p >= p /\ dt * p \in Int
  BY <1>1, <1>3
<1> DEFINE e == ((q + dt) * p) - age
<1>5. e = dt * p - r /\ p * q \in Int
  BY <1>1, <1>3, <1>4
<1>6. e \in Nat \ {0}
  BY <1>1, <1>3, <1>4, <1>5
<1>7. TickDue /\ dt = 1 => e = 1
  BY <1>1, <1>2, <1>3, <1>5
<1> QED
  BY <1>2, <1>5, <1>6, <1>7 DEF p, q, r

LEMMA AheadType ==
  ASSUME TypeOK
  PROVE  /\ ToCompare = MeetsIn(Count, comp)
         /\ ToCompare \in Nat \ {0} /\ ToOverflow \in Nat \ {0}
         /\ ToCompare = 1 <=> NextCount = comp
         /\ ToOverflow = 1 <=> NextCount = 0
         /\ ToCompare # 1 => MeetsIn(NextCount, comp) = ToCompare - 1
         /\ ToOverflow # 1 => Width - NextCount = ToOverflow - 1
<1>1. Width \in Nat \ {0} /\ comp \in Value /\ Count \in Value /\ NextCount \in Value
  BY PeriodType, CountType DEF TypeOK
<1>2. ToCompare = MeetsIn(Count, comp) /\ ToOverflow = Width - Count
  BY DEF ToCompare, MeetsIn, ToOverflow
<1>3. /\ MeetsIn(Count, comp) = IF comp > Count THEN comp - Count ELSE (comp - Count) + Width
      /\ MeetsIn(NextCount, comp) =
           IF comp > NextCount THEN comp - NextCount ELSE (comp - NextCount) + Width
  BY <1>1, MeetsIs
<1>4. NextCount = IF Count + 1 < Width THEN Count + 1 ELSE 0
  <2> DEFINE a == Count + 1
  <2>1. a \in Int /\ 0 <= a /\ a < 2 * Width /\ a <= Width
    BY <1>1 DEF Value
  <2> HIDE DEF a
  <2>2. a % Width = IF a < Width THEN a ELSE a - Width
    BY <1>1, <2>1, ModSmall
  <2> QED
    BY <1>1, <2>1, <2>2 DEF NextCount, a
<1> QED
  BY <1>1, <1>2, <1>3, <1>4 DEF Value

\* The memo is the earlier of the armed events.
LEMMA NextEventIs ==
  ASSUME TypeOK
  PROVE  /\ mode.cue => CompareEvent \in Nat \ {0} /\ OverflowEvent \in Nat \ {0}
         /\ ~ mode.cue \/ (~ mode.cmpe /\ ~ mode.ovfe) => NextEventSlow = Never
         /\ mode.cue /\ mode.cmpe /\ ~ mode.ovfe => NextEventSlow = CompareEvent
         /\ mode.cue /\ ~ mode.cmpe /\ mode.ovfe => NextEventSlow = OverflowEvent
         /\ mode.cue /\ mode.cmpe /\ mode.ovfe =>
              NextEventSlow =
                IF CompareEvent <= OverflowEvent THEN CompareEvent ELSE OverflowEvent
<1> DEFINE c == CompareEvent
           o == OverflowEvent
<1>1. ToCompare \in Nat \ {0} /\ ToOverflow \in Nat \ {0}
  BY AheadType
<1>2. mode.cue => c \in Nat \ {0}
  BY <1>1, EventDistance DEF CompareEvent
<1>3. mode.cue => o \in Nat \ {0}
  BY <1>1, EventDistance DEF OverflowEvent
<1>4. Events = (IF mode.cmpe THEN {c} ELSE {}) \cup (IF mode.ovfe THEN {o} ELSE {})
  BY DEF Events, CompareEvent, OverflowEvent
<1>5. NextEventSlow =
        IF mode.cue /\ Events # {} THEN CHOOSE e \in Events : \A f \in Events : e <= f ELSE Never
  BY DEF NextEventSlow
<1> HIDE DEF c, o
<1>6. ~ mode.cue \/ (~ mode.cmpe /\ ~ mode.ovfe) => NextEventSlow = Never
  BY <1>4, <1>5
<1>7. ASSUME mode.cue, NEW S, Events = S, S # {}, NEW x \in S, \A f \in S : x <= f, S \subseteq Int
      PROVE  NextEventSlow = x
  <2>1. NextEventSlow \in S /\ \A f \in S : NextEventSlow <= f
    BY <1>5, <1>7
  <2> QED
    BY <1>7, <2>1
<1>8. ASSUME mode.cue, mode.cmpe, ~ mode.ovfe
      PROVE  NextEventSlow = c
  <2>1. Events = {c} /\ c \in Int
    BY <1>2, <1>4, <1>8
  <2>2. \A f \in {c} : c <= f
    BY <2>1
  <2> QED
    BY <1>7, <1>8, <2>1, <2>2
<1>9. ASSUME mode.cue, ~ mode.cmpe, mode.ovfe
      PROVE  NextEventSlow = o
  <2>1. Events = {o} /\ o \in Int
    BY <1>3, <1>4, <1>9
  <2>2. \A f \in {o} : o <= f
    BY <2>1
  <2> QED
    BY <1>7, <1>9, <2>1, <2>2
<1>10. ASSUME mode.cue, mode.cmpe, mode.ovfe
       PROVE  NextEventSlow = IF c <= o THEN c ELSE o
  <2>1. Events = {c, o} /\ c \in Int /\ o \in Int
    BY <1>2, <1>3, <1>4, <1>10
  <2> DEFINE x == IF c <= o THEN c ELSE o
  <2>2. x \in {c, o} /\ \A f \in {c, o} : x <= f
    BY <2>1
  <2> HIDE DEF x
  <2>3. NextEventSlow = x
    BY <1>7, <1>10, <2>1, <2>2
  <2> QED
    BY <2>3 DEF x
<1> QED
  BY <1>2, <1>3, <1>6, <1>8, <1>9, <1>10 DEF c, o

\* No event one cycle ahead: the counter meets nothing it must interrupt for.
LEMMA NothingMet ==
  ASSUME TypeOK, mode.cue, TickDue, NextEventSlow # 1
  PROVE  (mode.cmpe => NextCount # comp) /\ (mode.ovfe => NextCount # 0)
<1>1. ToCompare \in Nat \ {0} /\ ToOverflow \in Nat \ {0}
  BY AheadType
<1>2. ToCompare = 1 => CompareEvent = 1
  BY <1>1, EventDistance DEF CompareEvent
<1>3. ToOverflow = 1 => OverflowEvent = 1
  BY <1>1, EventDistance DEF OverflowEvent
<1>4. CompareEvent \in Nat \ {0} /\ OverflowEvent \in Nat \ {0}
  BY NextEventIs
<1>5. mode.cmpe /\ CompareEvent = 1 => NextEventSlow = 1
  BY <1>4, NextEventIs
<1>6. mode.ovfe /\ OverflowEvent = 1 => NextEventSlow = 1
  BY <1>4, NextEventIs
<1> QED
  BY <1>2, <1>3, <1>5, <1>6, AheadType

\* Otherwise every event comes a cycle nearer.
EventRule ==
  /\ mode.cue => CompareEvent \in Nat \ {0} /\ OverflowEvent \in Nat \ {0}
  /\ ~ mode.cue \/ (~ mode.cmpe /\ ~ mode.ovfe) => NextEventSlow = Never
  /\ mode.cue /\ mode.cmpe /\ ~ mode.ovfe => NextEventSlow = CompareEvent
  /\ mode.cue /\ ~ mode.cmpe /\ mode.ovfe => NextEventSlow = OverflowEvent
  /\ mode.cue /\ mode.cmpe /\ mode.ovfe =>
       NextEventSlow = IF CompareEvent <= OverflowEvent THEN CompareEvent ELSE OverflowEvent

LEMMA EventRuleHolds == TypeOK => EventRule
  BY NextEventIs DEF EventRule

LEMMA EventsMove ==
  ASSUME TypeOK, TypeOK', mode.cue, NextEventSlow # 1,
         age' = age + 1, UNCHANGED <<mode, comp, base, hblank>>
  PROVE  /\ mode.cmpe => CompareEvent' = CompareEvent - 1
         /\ mode.ovfe => OverflowEvent' = OverflowEvent - 1
<1> DEFINE p == Period(mode, hblank)
           t == Ticks(mode, hblank, age)
           u == Ticks(mode, hblank, age + 1)
<1>1. /\ Period(mode', hblank') = p /\ Ticks(mode', hblank', age') = u
      /\ Count' = (base + u) % Width
      /\ ToCompare' = MeetsIn(Count', comp) /\ ToOverflow' = Width - Count'
      /\ CompareEvent' = ((u + ToCompare') * p) - (age + 1)
      /\ OverflowEvent' = ((u + ToOverflow') * p) - (age + 1)
  BY DEF Period, Ticks, Count, CountNow, ToCompare, ToOverflow, MeetsIn, CompareEvent,
         OverflowEvent
<1>2. u = IF TickDue THEN t + 1 ELSE t
  BY CycleSeen
<1>3. Count' = IF TickDue THEN NextCount ELSE Count
  BY <1>1, CycleSeen
<1>4. /\ CompareEvent = ((t + ToCompare) * p) - age
      /\ OverflowEvent = ((t + ToOverflow) * p) - age
      /\ ToCompare = MeetsIn(Count, comp) /\ ToOverflow = Width - Count
  BY AheadType DEF CompareEvent, OverflowEvent, ToOverflow
<1>5. p \in Nat \ {0} /\ t \in Nat /\ age \in Nat /\ ToCompare \in Nat \ {0} /\ ToOverflow \in Nat \ {0}
  <2>1. age \in Nat
    BY DEF TypeOK
  <2> QED
    BY <2>1, PeriodType, TicksType, AheadType
<1> HIDE DEF p, t, u
<1>6. mode.cmpe => u + ToCompare' = t + ToCompare
  <2>1. CASE TickDue
    <3>1. mode.cmpe => ToCompare # 1
      BY <2>1, NothingMet, AheadType
    <3>2. ToCompare # 1 => ToCompare' = ToCompare - 1
      BY <1>1, <1>3, <2>1, AheadType
    <3> QED
      BY <1>2, <1>5, <2>1, <3>1, <3>2
  <2>2. CASE ~ TickDue
    BY <1>1, <1>2, <1>3, <1>4, <2>2
  <2> QED
    BY <2>1, <2>2
<1>7. mode.ovfe => u + ToOverflow' = t + ToOverflow
  <2>1. CASE TickDue
    <3>1. mode.ovfe => ToOverflow # 1
      BY <2>1, NothingMet, AheadType
    <3>2. ToOverflow # 1 => ToOverflow' = ToOverflow - 1
      BY <1>1, <1>3, <2>1, AheadType
    <3> QED
      BY <1>2, <1>5, <2>1, <3>1, <3>2
  <2>2. CASE ~ TickDue
    BY <1>1, <1>2, <1>3, <1>4, <2>2
  <2> QED
    BY <2>1, <2>2
<1>8. ASSUME NEW x \in Nat PROVE (x * p) - (age + 1) = ((x * p) - age) - 1
  BY <1>5
<1>9. t + ToCompare \in Nat /\ t + ToOverflow \in Nat
  BY <1>5
<1> QED
  BY <1>1, <1>4, <1>6, <1>7, <1>8, <1>9

LEMMA MemoMoves ==
  ASSUME TypeOK, TypeOK', NextEventSlow # 1,
         age' = age + 1, UNCHANGED <<mode, comp, base, hblank>>
  PROVE  NextEventSlow' = IF NextEventSlow = Never THEN Never ELSE NextEventSlow - 1
<1>1. EventRule
  BY EventRuleHolds
<1>2. EventRule'
  BY EventRuleHolds, PTL
<1>3. CASE ~ mode.cue \/ (~ mode.cmpe /\ ~ mode.ovfe)
  BY <1>1, <1>2, <1>3 DEF EventRule
<1>4. CASE mode.cue /\ (mode.cmpe \/ mode.ovfe)
  <2>1. /\ mode.cmpe => CompareEvent' = CompareEvent - 1
        /\ mode.ovfe => OverflowEvent' = OverflowEvent - 1
    BY <1>4, EventsMove
  <2>2. CompareEvent \in Nat \ {0} /\ OverflowEvent \in Nat \ {0}
    BY <1>1, <1>4 DEF EventRule
  <2>3. NextEventSlow # Never
    BY <1>1, <1>4, <2>2 DEF EventRule, Never
  <2> QED
    BY <1>1, <1>2, <1>4, <2>1, <2>2, <2>3 DEF EventRule
<1>5. mode.cue \in BOOLEAN /\ mode.cmpe \in BOOLEAN /\ mode.ovfe \in BOOLEAN
  BY DEF TypeOK
<1> QED
  BY <1>3, <1>4, <1>5

-----------------------------------------------------------------------------
(* The inductive invariant *)

TimersInv == TypeOK /\ MemoFresh

LEMMA SlowType == TypeOK => NextEventSlow = Never \/ NextEventSlow \in Nat \ {0}
<1> SUFFICES ASSUME TypeOK PROVE NextEventSlow = Never \/ NextEventSlow \in Nat \ {0}
  OBVIOUS
<1>1. EventRule
  BY EventRuleHolds
<1>2. mode.cue \in BOOLEAN /\ mode.cmpe \in BOOLEAN /\ mode.ovfe \in BOOLEAN
  BY DEF TypeOK
<1> QED
  BY <1>1, <1>2 DEF EventRule

LEMMA MemoDropped == TypeOK /\ ~ valid => MemoFresh
<1> SUFFICES ASSUME TypeOK, ~ valid PROVE MemoFresh
  OBVIOUS
<1>1. NextEventSlow = Never \/ NextEventSlow > 0
  BY SlowType
<1>2. NextEvent = NextEventSlow
  BY DEF NextEvent
<1> QED
  BY <1>1, <1>2 DEF MemoFresh

LEMMA MemoDroppedNow ==
  ASSUME TypeOK', valid' = FALSE
  PROVE  MemoFresh'
<1>1. ~ valid'
  OBVIOUS
<1> QED
  BY <1>1, MemoDropped, PTL

LEMMA MemoIs ==
  ASSUME TimersInv
  PROVE  NextEvent = NextEventSlow
BY DEF TimersInv, MemoFresh, NextEvent

CheckedRule == unchecked = 0 => PassedAt(age, unchecked) = {}

LEMMA JustChecked == TypeOK => CheckedRule
<1> SUFFICES ASSUME TypeOK, unchecked = 0 PROVE PassedAt(age, unchecked) = {}
  BY DEF CheckedRule
<1>1. age \in Nat /\ unchecked \in 0..age
  BY DEF TypeOK
<1>2. Span(age, unchecked) = 0 /\ \A c \in Value : Meets(age, unchecked, c) \in 1..Width
  BY <1>1, SpanType
<1>3. Width \in Nat
  BY WidthAssumption
<1> QED
  BY <1>2, <1>3 DEF PassedAt

LEMMA Stopped ==
  ASSUME TypeOK, ~ mode.cue, NEW a \in Nat, NEW u \in 0..a
  PROVE  PassedAt(a, u) = {} /\ ~ Crossed(a, u) /\ ~ Wrapped(a, u)
<1>1. Span(a, u) = 0 /\ \A c \in Value : Meets(a, u, c) \in 1..Width
  BY SpanType
<1>2. Width \in Nat
  BY WidthAssumption
<1>3. PassedAt(a, u) = {}
  BY <1>1, <1>2 DEF PassedAt
<1> QED
  BY <1>3, PassedIs

LEMMA InitInv == Init => TimersInv
<1> SUFFICES ASSUME Init PROVE TimersInv
  OBVIOUS
<1>1. Width \in Nat \ {0} /\ MaxAge \in Nat /\ BootHblank \in Hblanks
      /\ "bus" \in DOMAIN Prescale
  BY WidthAssumption, MaxAgeAssumption, ClocksAssumption
<1>2. TypeOK
  <2>1. mode \in [clks : DOMAIN Prescale \cup {"hblank"}, zret : BOOLEAN, cue : BOOLEAN,
                 cmpe : BOOLEAN, ovfe : BOOLEAN]
    BY <1>1 DEF Init
  <2>2. comp \in Value /\ base \in Value /\ age \in 0..MaxAge /\ unchecked \in 0..age
    BY <1>1 DEF Init, Value
  <2>3. /\ equf \in BOOLEAN /\ ovff \in BOOLEAN /\ stat \in BOOLEAN
        /\ valid \in BOOLEAN /\ next \in Nat \cup {Never} /\ hblank \in Hblanks
    BY <1>1 DEF Init
  <2> QED
    BY <2>1, <2>2, <2>3 DEF TypeOK
<1>3. MemoFresh
  BY <1>2, MemoDropped DEF Init
<1> QED
  BY <1>2, <1>3 DEF TimersInv

ModeType ==
  [clks : DOMAIN Prescale \cup {"hblank"}, zret : BOOLEAN, cue : BOOLEAN, cmpe : BOOLEAN,
   ovfe : BOOLEAN]

LEMMA ModesType ==
  ASSUME NEW m \in Modes
  PROVE  m \in ModeType
BY ModesAssumption DEF ModeType

LEMMA SameSeen ==
  ASSUME UNCHANGED <<mode, comp, base, hblank>>, NEW a, NEW u, age' = a, unchecked' = u
  PROVE  /\ Crossed(age, unchecked)' <=> Crossed(a, u)
         /\ Wrapped(age, unchecked)' <=> Wrapped(a, u)
         /\ PassedAt(age, unchecked)' = PassedAt(a, u)
BY DEF Crossed, Wrapped, PassedAt, Meets, Span, CountBefore, TicksBefore, Ticks, Period

LEMMA SameEvents ==
  ASSUME UNCHANGED <<mode, comp, base, hblank, age>>
  PROVE  NextEventSlow' = NextEventSlow
BY DEF NextEventSlow, Events, ToCompare, ToOverflow, Count, CountNow, Ticks, Period

LEMMA PassInv ==
  ASSUME TimersInv, Pass
  PROVE  TimersInv'
<1>1. TypeOK /\ NextEvent = NextEventSlow
  BY MemoIs DEF TimersInv
<1>2. /\ age < MaxAge /\ NextEventSlow # 1 /\ age' = age + 1 /\ unchecked' = unchecked + 1
      /\ valid' = TRUE
      /\ next' = IF NextEventSlow = Never THEN Never ELSE NextEventSlow - 1
      /\ UNCHANGED <<mode, comp, base, equf, ovff, stat, hblank>>
  BY <1>1 DEF Pass
<1>3. NextEventSlow = Never \/ NextEventSlow \in Nat \ {0}
  BY <1>1, SlowType
<1>4. TypeOK'
  <2>1. age' \in 0..MaxAge /\ unchecked' \in 0..age'
    BY <1>1, <1>2, MaxAgeAssumption DEF TypeOK
  <2>2. next' \in Nat \cup {Never}
    BY <1>2, <1>3
  <2> QED
    BY <1>1, <1>2, <2>1, <2>2 DEF TypeOK
<1>5. MemoFresh'
  <2>1. NextEventSlow' = next'
    BY <1>1, <1>2, <1>4, MemoMoves
  <2>2. NextEvent' = next'
    BY <1>2 DEF NextEvent
  <2>3. (NextEventSlow = Never \/ NextEventSlow \in Nat \ {0})'
    BY <1>4, SlowType, PTL
  <2> QED
    BY <2>1, <2>2, <2>3 DEF MemoFresh
<1> QED
  BY <1>4, <1>5 DEF TimersInv

\* How long ago, in whole ticks, an evaluation a cycles after the base finds the
\* compare to have been.
Late(a, u) == Span(a, u) - Meets(a, u, comp)

LEMMA LateType ==
  ASSUME TypeOK, NEW a \in Nat, NEW u \in 0..a, Crossed(a, u)
  PROVE  /\ mode.cue /\ Late(a, u) \in Nat
         /\ Late(a, u) * Period(mode, hblank) \in 0..a
         /\ (Late(a, u) * Period(mode, hblank)) \div Period(mode, hblank) = Late(a, u)
         /\ (Late(a, u) * Period(mode, hblank)) % Period(mode, hblank) = 0
<1> DEFINE p == Period(mode, hblank)
           k == Late(a, u)
           q == a \div p
<1>1. p \in Nat \ {0} /\ Width \in Nat \ {0} /\ mode.cue \in BOOLEAN
  BY PeriodType
<1>2. mode.cue
  BY <1>1, Stopped
<1>3. comp \in Value
  BY DEF TypeOK
<1>4. /\ TicksBefore(a, u) \in Nat /\ Span(a, u) \in Nat
      /\ Meets(a, u, comp) \in 1..Width
  BY <1>3, SpanType
<1>5. Meets(a, u, comp) <= Span(a, u)
  BY DEF Crossed
<1>6. Span(a, u) = q - TicksBefore(a, u)
  BY <1>2 DEF Span, Ticks
<1> HIDE DEF p
<1>7. q \in Int /\ a % p \in 0..(p - 1) /\ a = p * q + (a % p)
  BY <1>1, Division
<1> HIDE DEF q
<1>8. k \in Nat /\ k <= q
  BY <1>1, <1>4, <1>5, <1>6, <1>7 DEF Late
<1> HIDE DEF k
<1>9. k * p = p * k + 0 /\ 0 \in 0..(p - 1) /\ k \in Int
  BY <1>1, <1>8
<1>10. (k * p) \div p = k /\ (k * p) % p = 0
  BY <1>1, <1>9, DivisionUnique
<1>11. k * p \in 0..a
  <2>1. k * p \in Nat
    BY <1>1, <1>8
  <2>2. p * (q - k) \in Nat /\ p * (q - k) = p * q - p * k
    BY <1>1, <1>7, <1>8
  <2>3. p * q \in Int /\ p * k \in Int /\ a % p \in Nat
    BY <1>1, <1>7, <1>8
  <2> QED
    BY <1>7, <1>9, <2>1, <2>2, <2>3
<1> QED
  BY <1>2, <1>8, <1>10, <1>11 DEF p, k

\* Where an evaluation leaves the base.
LEMMA AdvanceStep ==
  ASSUME TypeOK, NEW a \in Nat, NEW u \in 0..a, Advance(a, u)
  PROVE  /\ unchecked' = 0 /\ age' \in 0..a /\ base' \in Value
         /\ Crossed(a, u) /\ mode.zret => age' = Late(a, u) * Period(mode, hblank) /\ base' = 0
         /\ ~ (Crossed(a, u) /\ mode.zret) => age' = a /\ base' = base
<1>1. Width \in Nat \ {0} /\ base \in Value
  BY WidthAssumption DEF TypeOK
<1>2. CASE Crossed(a, u) /\ mode.zret
  <2>1. unchecked' = 0 /\ age' = Late(a, u) * Period(mode, hblank) /\ base' = 0
    BY <1>2 DEF Advance, Late
  <2>2. age' \in 0..a
    BY <1>2, <2>1, LateType
  <2> QED
    BY <1>1, <1>2, <2>1, <2>2 DEF Value
<1>3. CASE ~ (Crossed(a, u) /\ mode.zret)
  BY <1>1, <1>3 DEF Advance
<1> QED
  BY <1>2, <1>3

LEMMA FlagsType ==
  ASSUME TypeOK, NEW a, NEW u, Advance(a, u)
  PROVE  equf' \in BOOLEAN /\ ovff' \in BOOLEAN /\ stat' \in BOOLEAN
<1>1. equf' = (equf \/ Crossed(a, u)) /\ ovff' = (ovff \/ Wrapped(a, u))
  BY DEF Advance
<1>2. stat' = (stat \/ (Crossed(a, u) /\ mode.cmpe) \/ (Wrapped(a, u) /\ mode.ovfe))
  BY DEF Advance
<1> QED
  BY <1>1, <1>2

\* An evaluation, with the memo dropped or not, keeps the types.
LEMMA AdvanceType ==
  ASSUME TypeOK, NEW a \in 0..MaxAge, NEW u \in 0..a, Advance(a, u),
         UNCHANGED <<mode, comp, hblank>>,
         (valid' = FALSE /\ next' = Never) \/ UNCHANGED <<valid, next>>
  PROVE  TypeOK'
<1>1. a \in Nat /\ MaxAge \in Nat
  BY MaxAgeAssumption
<1>2. equf' \in BOOLEAN /\ ovff' \in BOOLEAN /\ stat' \in BOOLEAN
  BY FlagsType
<1>3. unchecked' = 0 /\ age' \in 0..a /\ base' \in Value
  BY <1>1, AdvanceStep
<1>4. age' \in 0..MaxAge /\ unchecked' \in 0..age'
  BY <1>1, <1>3
<1>5. valid' \in BOOLEAN /\ next' \in Nat \cup {Never}
  BY DEF TypeOK
<1> QED
  BY <1>2, <1>3, <1>4, <1>5 DEF TypeOK

LEMMA RunDueInv ==
  ASSUME TimersInv, RunDue
  PROVE  TimersInv'
<1>1. /\ TypeOK /\ age < MaxAge /\ Advance(age + 1, unchecked + 1)
      /\ valid' = FALSE /\ next' = Never /\ UNCHANGED <<mode, comp, hblank>>
  BY DEF TimersInv, RunDue
<1>2. age + 1 \in 0..MaxAge /\ unchecked + 1 \in 0..(age + 1)
  BY <1>1, MaxAgeAssumption DEF TypeOK
<1>3. TypeOK'
  BY <1>1, <1>2, AdvanceType
<1> QED
  BY <1>1, <1>3, MemoDroppedNow DEF TimersInv

LEMMA ReadInv ==
  ASSUME TimersInv, Read
  PROVE  TimersInv'
<1>1. /\ TypeOK /\ MemoFresh /\ Advance(age, unchecked)
      /\ UNCHANGED <<mode, comp, hblank>>
  BY DEF TimersInv, Read
<1>2. age \in 0..MaxAge /\ age \in Nat /\ unchecked \in 0..age
  BY <1>1, MaxAgeAssumption DEF TypeOK
<1>3. CASE Crossed(age, unchecked) /\ mode.zret
  <2>1. valid' = FALSE /\ next' = Never
    BY <1>3 DEF Read, Drop
  <2>2. TypeOK'
    BY <1>1, <1>2, <2>1, AdvanceType
  <2> QED
    BY <2>1, <2>2, MemoDroppedNow DEF TimersInv
<1>4. CASE ~ (Crossed(age, unchecked) /\ mode.zret)
  <2>1. UNCHANGED <<valid, next>>
    BY <1>4 DEF Read
  <2>2. TypeOK'
    BY <1>1, <1>2, <2>1, AdvanceType
  <2>3. age' = age /\ base' = base
    BY <1>1, <1>2, <1>4, AdvanceStep
  <2>4. NextEventSlow' = NextEventSlow
    BY <1>1, <2>3, SameEvents
  <2>5. MemoFresh'
    BY <1>1, <2>1, <2>4 DEF MemoFresh, NextEvent
  <2> QED
    BY <2>2, <2>5 DEF TimersInv
<1> QED
  BY <1>3, <1>4

\* The count under any mode and H-blank is a count.
LEMMA CountIn ==
  ASSUME TypeOK, NEW m \in ModeType, NEW h \in Hblanks
  PROVE  CountNow(m, h) \in Value
<1>1. h \in Nat \ {0} /\ m.clks \in DOMAIN Prescale \cup {"hblank"} /\ m.cue \in BOOLEAN
      /\ age \in Nat /\ base \in Int /\ Width \in Nat \ {0}
  BY ClocksAssumption, WidthAssumption DEF TypeOK, Value, ModeType
<1>2. Period(m, h) \in Nat \ {0}
  <2>1. CASE m.clks = "hblank"
    BY <1>1, <2>1 DEF Period
  <2>2. CASE m.clks # "hblank"
    BY <1>1, <2>2, ClocksAssumption DEF Period
  <2> QED
    BY <2>1, <2>2
<1>3. Ticks(m, h, age) \in Nat
  <2>1. age <= age
    BY <1>1
  <2>2. age \div Period(m, h) \in Nat
    BY <1>1, <1>2, <2>1, QuotientGrows
  <2> QED
    BY <1>1, <2>2 DEF Ticks
<1> DEFINE a == base + Ticks(m, h, age)
<1>4. a \in Int
  BY <1>1, <1>3
<1> HIDE DEF a
<1>5. a % Width \in Value
  BY <1>1, <1>4, Division DEF Value
<1> QED
  BY <1>5 DEF CountNow, a

LEMMA WriteCountInv ==
  ASSUME TimersInv, NEW n \in Value, WriteCount(n)
  PROVE  TimersInv'
<1>1. TypeOK
  BY DEF TimersInv
<1>2. /\ base' = n /\ age' = 0 /\ unchecked' = 0 /\ valid' = FALSE /\ next' = Never
      /\ UNCHANGED <<mode, comp, equf, ovff, stat, hblank>>
  BY DEF WriteCount, Drop
<1>3. age' \in 0..MaxAge /\ unchecked' \in 0..age'
  BY <1>2, MaxAgeAssumption
<1>4. TypeOK'
  BY <1>1, <1>2, <1>3 DEF TypeOK
<1> QED
  BY <1>2, <1>4, MemoDroppedNow DEF TimersInv

LEMMA WriteModeInv ==
  ASSUME TimersInv, NEW m \in Modes, NEW clear, WriteMode(m, clear)
  PROVE  TimersInv'
<1>1. TypeOK /\ hblank \in Hblanks
  BY DEF TimersInv, TypeOK
<1>2. m \in ModeType
  BY ModesType
<1>3. /\ mode' = m /\ base' = CountNow(m, hblank) /\ age' = 0 /\ unchecked' = 0
      /\ valid' = FALSE /\ next' = Never
      /\ UNCHANGED <<comp, stat, hblank>>
  BY DEF WriteMode, Drop
<1>4. equf' \in BOOLEAN /\ ovff' \in BOOLEAN
  BY DEF WriteMode
<1>5. base' \in Value
  BY <1>1, <1>2, <1>3, CountIn
<1>6. age' \in 0..MaxAge /\ unchecked' \in 0..age'
  BY <1>3, MaxAgeAssumption
<1>7. TypeOK'
  BY <1>1, <1>2, <1>3, <1>4, <1>5, <1>6 DEF TypeOK, ModeType
<1> QED
  BY <1>3, <1>7, MemoDroppedNow DEF TimersInv

LEMMA WriteCompInv ==
  ASSUME TimersInv, NEW n \in Value, WriteComp(n)
  PROVE  TimersInv'
<1>1. /\ comp' = n /\ valid' = FALSE /\ next' = Never
      /\ UNCHANGED <<mode, base, equf, ovff, age, unchecked, stat, hblank>>
  BY DEF WriteComp, Drop
<1>2. TypeOK'
  BY <1>1 DEF TimersInv, TypeOK
<1> QED
  BY <1>1, <1>2, MemoDroppedNow DEF TimersInv

LEMMA AccessInv ==
  ASSUME TimersInv, AccessOther \/ Acknowledge
  PROVE  TimersInv'
<1>1. TypeOK /\ MemoFresh
  BY DEF TimersInv
<1>2. UNCHANGED <<mode, comp, base, equf, ovff, age, unchecked, hblank>> /\ stat' \in BOOLEAN
  BY <1>1 DEF AccessOther, Acknowledge, timerVars, TypeOK
<1>3. (valid' = FALSE /\ next' = Never) \/ UNCHANGED <<valid, next>>
  BY DEF AccessOther, Acknowledge, Drop
<1>4. TypeOK'
  BY <1>1, <1>2, <1>3 DEF TypeOK
<1>5. MemoFresh'
  <2>1. CASE valid' = FALSE
    BY <1>4, <2>1, MemoDroppedNow
  <2>2. CASE UNCHANGED <<valid, next>>
    BY <1>1, <1>2, <2>2, SameEvents DEF MemoFresh, NextEvent
  <2> QED
    BY <1>3, <2>1, <2>2
<1> QED
  BY <1>4, <1>5 DEF TimersInv

LEMMA VideoInv ==
  ASSUME TimersInv, NEW h \in Hblanks, SetVideoMode(h)
  PROVE  TimersInv'
<1>1. TypeOK
  BY DEF TimersInv
<1>2. /\ hblank' = h /\ valid' = FALSE /\ next' = Never
      /\ UNCHANGED <<mode, comp, equf, ovff, stat>>
  BY DEF SetVideoMode, Drop
<1>3. CASE mode.clks = "hblank"
  <2>1. base' = CountNow(mode, h) /\ age' = 0 /\ unchecked' = 0
    BY <1>3 DEF SetVideoMode
  <2>2. mode \in ModeType
    BY <1>1 DEF TypeOK, ModeType
  <2>3. base' \in Value
    BY <1>1, <2>1, <2>2, CountIn
  <2>4. TypeOK'
    <3>1. age' \in 0..MaxAge /\ unchecked' \in 0..age'
      BY <2>1, MaxAgeAssumption
    <3> QED
      BY <1>1, <1>2, <2>3, <3>1 DEF TypeOK
  <2> QED
    BY <1>2, <2>4, MemoDroppedNow DEF TimersInv
<1>4. CASE mode.clks # "hblank"
  <2>1. UNCHANGED <<base, age, unchecked>>
    BY <1>4 DEF SetVideoMode
  <2>2. TypeOK'
    BY <1>1, <1>2, <2>1 DEF TypeOK
  <2>3. MemoFresh'
    BY <1>2, <2>2, MemoDroppedNow
  <2> QED
    BY <2>2, <2>3 DEF TimersInv
<1> QED
  BY <1>3, <1>4

LEMMA StepInv == TimersInv /\ [Next]_vars => TimersInv'
<1> SUFFICES ASSUME TimersInv, [Next]_vars
             PROVE  TimersInv'
  OBVIOUS
<1>1. CASE Pass
  BY <1>1, PassInv
<1>2. CASE RunDue
  BY <1>2, RunDueInv
<1>3. CASE Read
  BY <1>3, ReadInv
<1>4. CASE AccessOther \/ Acknowledge
  BY <1>4, AccessInv
<1>5. CASE \E n \in Value : WriteCount(n) \/ WriteComp(n)
  BY <1>5, WriteCountInv, WriteCompInv
<1>6. CASE \E m \in Modes, clear \in SUBSET {"equf", "ovff"} : WriteMode(m, clear)
  BY <1>6, WriteModeInv
<1>7. CASE \E h \in Hblanks : SetVideoMode(h)
  BY <1>7, VideoInv
<1>8. CASE UNCHANGED vars
  <2>1. /\ UNCHANGED <<mode, comp, base, equf, ovff, age, unchecked>>
        /\ UNCHANGED <<valid, next, stat, hblank>>
    BY <1>8 DEF vars, timerVars
  <2>2. TypeOK'
    BY <2>1 DEF TimersInv, TypeOK
  <2>3. MemoFresh'
    BY <2>1, SameEvents DEF TimersInv, MemoFresh, NextEvent
  <2> QED
    BY <2>2, <2>3 DEF TimersInv
<1> QED
  BY <1>1, <1>2, <1>3, <1>4, <1>5, <1>6, <1>7, <1>8 DEF Next

\* Every variable keeps its type.  Of timers.cpp: COUNT, COMP and the flags
\* stay in their ranges whatever is read and written when.
THEOREM TypeCorrect == Spec => []TypeOK
<1>1. TimersInv => TypeOK
  BY DEF TimersInv
<1> QED
  BY InitInv, StepInv, <1>1, PTL DEF Spec

\* The memo of the next event is never stale and no event is left behind
\* (timers.cpp:104-115, 236-238).
THEOREM MemoFreshCorrect == Spec => []MemoFresh
<1>1. TimersInv => MemoFresh
  BY DEF TimersInv
<1> QED
  BY InitInv, StepInv, <1>1, PTL DEF Spec

-----------------------------------------------------------------------------
(* The refinement *)

\* What Hardware's variables stand for.
PhaseSeen == IF mode.cue THEN age % Period(mode, hblank) ELSE 0
EqufSeen  == equf \/ Crossed(age, unchecked)
OvffSeen  == ovff \/ Wrapped(age, unchecked)

\* And a cycles after the base, were the counter not rebased.
CountAt(a) == (base + Ticks(mode, hblank, a)) % Width
PhaseAt(a) == IF mode.cue THEN a % Period(mode, hblank) ELSE 0

LEMMA PassedSeen == Passed = PassedAt(age, unchecked)
  BY DEF Passed, PassedAt

LEMMA FlagsSeen ==
  ASSUME TypeOK
  PROVE  /\ EqufSeen = (equf \/ comp \in Passed) /\ OvffSeen = (ovff \/ 0 \in Passed)
         /\ EqufSeen \in BOOLEAN /\ OvffSeen \in BOOLEAN
<1>1. age \in Nat /\ unchecked \in 0..age /\ equf \in BOOLEAN /\ ovff \in BOOLEAN
  BY DEF TypeOK
<1>2. /\ Crossed(age, unchecked) <=> comp \in Passed
      /\ Wrapped(age, unchecked) <=> 0 \in Passed
  BY <1>1, PassedIs, PassedSeen
<1>3. EqufSeen = (equf \/ comp \in Passed) /\ EqufSeen \in BOOLEAN
  BY <1>1, <1>2 DEF EqufSeen
<1>4. OvffSeen = (ovff \/ 0 \in Passed) /\ OvffSeen \in BOOLEAN
  BY <1>1, <1>2 DEF OvffSeen
<1> QED
  BY <1>3, <1>4

\* Nothing is left to settle when the counter has just been evaluated.
SettledRule == unchecked = 0 => Passed = {} /\ EqufSeen = equf /\ OvffSeen = ovff

LEMMA Settled == TypeOK => SettledRule
<1> SUFFICES ASSUME TypeOK, unchecked = 0
             PROVE  Passed = {} /\ EqufSeen = equf /\ OvffSeen = ovff
  BY DEF SettledRule
<1>1. Passed = {}
  BY JustChecked, PassedSeen DEF CheckedRule
<1>2. equf \in BOOLEAN /\ ovff \in BOOLEAN
  BY DEF TypeOK
<1> QED
  BY <1>1, <1>2, FlagsSeen

\* The image when mode and H-blank stay.
LEMMA SeenAt ==
  ASSUME UNCHANGED <<mode, hblank>>, NEW a, NEW b, age' = a, base' = b
  PROVE  /\ Count' = (b + Ticks(mode, hblank, a)) % Width
         /\ PhaseSeen' = IF mode.cue THEN a % Period(mode, hblank) ELSE 0
BY DEF Count, CountNow, Ticks, Period, PhaseSeen

\* The ticks since a compare are what the count is above it.
LEMMA LateCount ==
  ASSUME TypeOK, NEW a \in Nat, NEW u \in 0..a
  PROVE  Late(a, u) % Width = (CountAt(a) - comp) % Width
<1> DEFINE c0 == CountBefore(a, u)
           s == Span(a, u)
           l == Late(a, u)
           m == c0 + s
           k == -comp
<1>1. Width \in Nat \ {0} /\ comp \in Value /\ comp \in Int
  BY WidthAssumption DEF TypeOK, Value
<1>2. /\ s \in Nat /\ c0 \in Value /\ CountAt(a) = (c0 + s) % Width
      /\ Meets(a, u, comp) = MeetsIn(c0, comp)
  BY <1>1, SpanType DEF CountAt
<1>3. MeetsIn(c0, comp) = IF comp > c0 THEN comp - c0 ELSE (comp - c0) + Width
  BY <1>1, <1>2, MeetsIs
<1>4. l = s - Meets(a, u, comp)
  BY DEF Late
<1> HIDE DEF c0, s, l
<1>5. l \in Int /\ m \in Int /\ k \in Int /\ (l = m + k \/ l + Width = m + k)
  BY <1>1, <1>2, <1>3, <1>4 DEF Value
<1> HIDE DEF m, k
<1>6. (l + Width) % Width = l % Width
  BY <1>1, <1>5, ModTurn
<1>7. l % Width = (m + k) % Width
  BY <1>5, <1>6
<1>8. ((m % Width) + k) % Width = (m + k) % Width
  BY <1>1, <1>5, ModOfSum
<1>9. CountAt(a) = m % Width
  BY <1>2 DEF m
<1>10. CountAt(a) \in Int
  BY <1>1, <1>5, <1>9, Division
<1>11. (m % Width) + k = CountAt(a) - comp
  BY <1>1, <1>9, <1>10 DEF k
<1> QED
  BY <1>7, <1>8, <1>11 DEF l

\* Where an evaluation leaves count and phase.
LEMMA AdvanceSeen ==
  ASSUME TypeOK, NEW a \in Nat, NEW u \in 0..a, Advance(a, u), UNCHANGED <<mode, comp, hblank>>
  PROVE  IF Crossed(a, u) /\ mode.zret
           THEN Count' = (CountAt(a) - comp) % Width /\ PhaseSeen' = 0
           ELSE Count' = CountAt(a) /\ PhaseSeen' = PhaseAt(a)
<1>1. CASE Crossed(a, u) /\ mode.zret
  <2> DEFINE b == Late(a, u) * Period(mode, hblank)
  <2>1. age' = b /\ base' = 0
    BY <1>1, AdvanceStep
  <2>2. /\ mode.cue /\ Late(a, u) \in Nat
        /\ b \div Period(mode, hblank) = Late(a, u) /\ b % Period(mode, hblank) = 0
    BY <1>1, LateType
  <2> HIDE DEF b
  <2>3. /\ Count' = (0 + Ticks(mode, hblank, b)) % Width
        /\ PhaseSeen' = IF mode.cue THEN b % Period(mode, hblank) ELSE 0
    BY <2>1, SeenAt
  <2>4. 0 + Ticks(mode, hblank, b) = Late(a, u)
    BY <2>2 DEF Ticks
  <2> QED
    BY <1>1, <2>2, <2>3, <2>4, LateCount
<1>2. CASE ~ (Crossed(a, u) /\ mode.zret)
  <2>1. age' = a /\ base' = base
    BY <1>2, AdvanceStep
  <2> QED
    BY <1>2, <2>1, SeenAt DEF CountAt, PhaseAt
<1> QED
  BY <1>1, <1>2

\* An evaluation is a look, a cycles after the base and u after the last one.
LEMMA LookImage ==
  ASSUME TypeOK, TypeOK', NEW a \in Nat, NEW u \in 0..a, Advance(a, u),
         UNCHANGED <<mode, comp, hblank>>, Passed \subseteq PassedAt(a, u)
  PROVE  Hardware!Stands(CountAt(a), PhaseAt(a), PassedAt(a, u), TRUE)
<1> DEFINE q == PassedAt(a, u)
<1>1. /\ unchecked' = 0
      /\ equf' = (equf \/ Crossed(a, u)) /\ ovff' = (ovff \/ Wrapped(a, u))
      /\ stat' = (stat \/ (Crossed(a, u) /\ mode.cmpe) \/ (Wrapped(a, u) /\ mode.ovfe))
  BY DEF Advance
<1>2. (Crossed(a, u) <=> comp \in q) /\ (Wrapped(a, u) <=> 0 \in q)
  BY PassedIs
<1>3. SettledRule'
  BY Settled, PTL
<1>4. Passed' = {} /\ EqufSeen' = equf' /\ OvffSeen' = ovff'
  BY <1>1, <1>3 DEF SettledRule
<1>5. EqufSeen = (equf \/ comp \in Passed) /\ OvffSeen = (ovff \/ 0 \in Passed)
  BY FlagsSeen
<1>6. IF comp \in q /\ mode.zret
        THEN Count' = (CountAt(a) - comp) % Width /\ PhaseSeen' = 0
        ELSE Count' = CountAt(a) /\ PhaseSeen' = PhaseAt(a)
  BY <1>2, AdvanceSeen
<1> HIDE DEF q
<1>7. EqufSeen' = (EqufSeen \/ comp \in q)
  BY <1>1, <1>2, <1>4, <1>5 DEF q
<1>8. OvffSeen' = (OvffSeen \/ 0 \in q)
  BY <1>1, <1>2, <1>4, <1>5 DEF q
<1>9. stat' = (stat \/ (comp \in q /\ mode.cmpe) \/ (0 \in q /\ mode.ovfe))
  BY <1>1, <1>2
<1>10. Hardware!Stands(CountAt(a), PhaseAt(a), q, TRUE)
  BY <1>4, <1>6, <1>7, <1>8, <1>9 DEF Hardware!Stands, PhaseSeen, EqufSeen, OvffSeen
<1> QED
  BY <1>10 DEF q

\* A cycle that is jumped over is not a look.
LEMMA JumpImage ==
  ASSUME TypeOK, age' = age + 1, unchecked' = unchecked + 1,
         UNCHANGED <<mode, comp, base, equf, ovff, stat, hblank>>,
         Passed \subseteq PassedAt(age + 1, unchecked + 1)
  PROVE  Hardware!Stands(CountAt(age + 1), PhaseAt(age + 1),
                         PassedAt(age + 1, unchecked + 1), FALSE)
<1> DEFINE a == age + 1
           u == unchecked + 1
           q == PassedAt(a, u)
<1>1. a \in Nat /\ u \in 0..a /\ stat \in BOOLEAN
  BY DEF TypeOK
<1>2. /\ Crossed(age, unchecked)' <=> Crossed(a, u)
      /\ Wrapped(age, unchecked)' <=> Wrapped(a, u)
      /\ PassedAt(age, unchecked)' = q
  BY SameSeen
<1>3. Passed' = PassedAt(age, unchecked)'
  BY DEF Passed, PassedAt
<1>4. Count' = CountAt(a) /\ PhaseSeen' = PhaseAt(a)
  BY SeenAt DEF CountAt, PhaseAt
<1>5. EqufSeen = (equf \/ comp \in Passed) /\ OvffSeen = (ovff \/ 0 \in Passed)
  BY FlagsSeen
<1> HIDE DEF a, u
<1>6. (Crossed(a, u) <=> comp \in q) /\ (Wrapped(a, u) <=> 0 \in q)
  BY <1>1, PassedIs
<1>7. Passed \subseteq q
  BY DEF a, u
<1> HIDE DEF q
<1>8. EqufSeen' = (EqufSeen \/ comp \in q)
  BY <1>2, <1>5, <1>6, <1>7 DEF EqufSeen
<1>9. OvffSeen' = (OvffSeen \/ 0 \in q)
  BY <1>2, <1>5, <1>6, <1>7 DEF OvffSeen
<1>10. Hardware!Stands(CountAt(a), PhaseAt(a), q, FALSE)
  BY <1>1, <1>2, <1>3, <1>4, <1>8, <1>9 DEF Hardware!Stands, PhaseSeen, EqufSeen, OvffSeen
<1> QED
  BY <1>10 DEF q, a, u

\* The cycle to come takes the counter on by what it is due.
LEMMA CycleImage ==
  ASSUME TypeOK, NEW look \in BOOLEAN,
         Hardware!Stands(CountAt(age + 1), PhaseAt(age + 1),
                         PassedAt(age + 1, unchecked + 1), look),
         mode.cue /\ TickDue
           => ((NextCount = comp /\ mode.cmpe) \/ (NextCount = 0 /\ mode.ovfe) => look)
  PROVE  Hardware!Cycle(look)
<1> DEFINE p == Period(mode, hblank)
<1>1. /\ age \in Nat /\ age + 1 \in Nat /\ unchecked \in 0..age
      /\ unchecked + 1 \in 0..(age + 1)
      /\ stat \in BOOLEAN /\ mode.cue \in BOOLEAN
  BY DEF TypeOK
<1>2. p \in Nat \ {0} /\ p = Hardware!Period
  BY PeriodType DEF Period, Hardware!Period
<1>3. CASE ~ mode.cue
  <2>1. PassedAt(age + 1, unchecked + 1) = {} /\ Passed = {}
    BY <1>1, <1>3, Stopped, PassedSeen
  <2>2. CountAt(age + 1) = Count /\ PhaseAt(age + 1) = PhaseSeen
    BY <1>3, CountType DEF CountAt, PhaseAt, PhaseSeen, Ticks
  <2>3. EqufSeen \in BOOLEAN /\ OvffSeen \in BOOLEAN
    BY FlagsSeen
  <2>4. Hardware!Stands(Count, PhaseSeen, {}, look)
    BY <2>1, <2>2
  <2>5. /\ EqufSeen' = EqufSeen /\ OvffSeen' = OvffSeen /\ Passed' = {} /\ stat' = stat
        /\ Count' = Count /\ PhaseSeen' = PhaseSeen /\ UNCHANGED <<mode, comp, hblank>>
    BY <1>1, <2>3, <2>4 DEF Hardware!Stands, PhaseSeen, EqufSeen, OvffSeen
  <2> QED
    BY <1>3, <2>1, <2>5 DEF Hardware!Cycle, Hardware!vars, PhaseSeen, EqufSeen, OvffSeen
<1>4. ASSUME mode.cue
      PROVE  /\ PhaseAt(age + 1) = IF TickDue THEN 0 ELSE PhaseSeen + 1
             /\ CountAt(age + 1) = IF TickDue THEN NextCount ELSE Count
             /\ PassedAt(age + 1, unchecked + 1) =
                  IF TickDue THEN Passed \cup {NextCount} ELSE Passed
             /\ PhaseSeen \in 0..(p - 1) /\ (TickDue <=> PhaseSeen + 1 = p)
  <2>1. PhaseSeen = age % p /\ PhaseAt(age + 1) = (age + 1) % p
    BY <1>4 DEF PhaseSeen, PhaseAt
  <2>2. age % p \in 0..(p - 1)
    <3> HIDE DEF p
    <3>1. age \in Int
      BY <1>1
    <3> QED
      BY <1>2, <3>1, Division
  <2> QED
    BY <1>4, <2>1, <2>2, CycleSeen, PassedSeen DEF TickDue, CountAt
<1>5. CASE mode.cue /\ ~ TickDue
  <2>1. PhaseSeen + 1 < p
    BY <1>2, <1>4, <1>5
  <2>2. Hardware!Stands(Count, PhaseSeen + 1, Passed, look)
    BY <1>4, <1>5
  <2> QED
    BY <1>2, <1>5, <2>1, <2>2 DEF Hardware!Cycle, PhaseSeen, EqufSeen, OvffSeen
<1>6. CASE mode.cue /\ TickDue
  <2>1. PhaseSeen + 1 = p
    BY <1>4, <1>6
  <2>2. Hardware!Stands(NextCount, 0, Passed \cup {NextCount}, look)
    BY <1>4, <1>6
  <2>3. Hardware!Tick(NextCount, look)
    BY <1>6, <2>2 DEF Hardware!Tick
  <2> QED
    BY <1>2, <1>6, <2>1, <2>3 DEF Hardware!Cycle, NextCount, PhaseSeen, EqufSeen, OvffSeen
<1> QED
  BY <1>1, <1>3, <1>5, <1>6

\* What the counter has been to it still has been to a cycle later.
LEMMA PassedGrows ==
  ASSUME TypeOK
  PROVE  Passed \subseteq PassedAt(age + 1, unchecked + 1)
<1>1. CASE mode.cue
  BY <1>1, CycleSeen, PassedSeen
<1>2. CASE ~ mode.cue
  <2>1. age \in Nat /\ unchecked \in 0..age
    BY DEF TypeOK
  <2> QED
    BY <1>2, <2>1, Stopped, PassedSeen
<1>3. mode.cue \in BOOLEAN
  BY DEF TypeOK
<1> QED
  BY <1>1, <1>2, <1>3

LEMMA PassImage ==
  ASSUME TimersInv, Pass
  PROVE  Hardware!Cycle(FALSE)
<1>1. TypeOK /\ NextEvent = NextEventSlow
  BY MemoIs DEF TimersInv
<1>2. /\ NextEventSlow # 1 /\ age' = age + 1 /\ unchecked' = unchecked + 1
      /\ UNCHANGED <<mode, comp, base, equf, ovff, stat, hblank>>
  BY <1>1 DEF Pass
<1>3. Hardware!Stands(CountAt(age + 1), PhaseAt(age + 1),
                      PassedAt(age + 1, unchecked + 1), FALSE)
  BY <1>1, <1>2, JumpImage, PassedGrows
<1>4. mode.cue /\ TickDue => ~ ((NextCount = comp /\ mode.cmpe) \/ (NextCount = 0 /\ mode.ovfe))
  BY <1>1, <1>2, NothingMet
<1> QED
  BY <1>1, <1>3, <1>4, CycleImage

LEMMA RunDueImage ==
  ASSUME TimersInv, RunDue
  PROVE  Hardware!Cycle(TRUE)
<1>1. TypeOK /\ TypeOK'
  BY RunDueInv DEF TimersInv
<1>2. Advance(age + 1, unchecked + 1) /\ UNCHANGED <<mode, comp, hblank>>
  BY DEF RunDue
<1>3. age + 1 \in Nat /\ unchecked + 1 \in 0..(age + 1)
  BY <1>1 DEF TypeOK
<1>4. Hardware!Stands(CountAt(age + 1), PhaseAt(age + 1),
                      PassedAt(age + 1, unchecked + 1), TRUE)
  BY <1>1, <1>2, <1>3, LookImage, PassedGrows
<1> QED
  BY <1>1, <1>4, CycleImage

LEMMA ReadImage ==
  ASSUME TimersInv, Read
  PROVE  Hardware!Look
<1>1. TypeOK /\ TypeOK'
  BY ReadInv DEF TimersInv
<1>2. Advance(age, unchecked) /\ UNCHANGED <<mode, comp, hblank>>
  BY DEF Read
<1>3. age \in Nat /\ unchecked \in 0..age
  BY <1>1 DEF TypeOK
<1>4. Hardware!Stands(CountAt(age), PhaseAt(age), PassedAt(age, unchecked), TRUE)
  BY <1>1, <1>2, <1>3, LookImage, PassedSeen
<1>5. CountAt(age) = Count /\ PhaseAt(age) = PhaseSeen
  BY <1>1, CountType DEF CountAt, PhaseAt, PhaseSeen
<1>6. Hardware!Stands(Count, PhaseSeen, Passed, TRUE)
  BY <1>4, <1>5, PassedSeen
<1> QED
  BY <1>6 DEF Hardware!Look, PhaseSeen, EqufSeen, OvffSeen

\* The image of a state that has just been rebased.
LEMMA SeenFresh ==
  ASSUME TypeOK', age' = 0, unchecked' = 0
  PROVE  /\ Count' = base' /\ PhaseSeen' = 0 /\ EqufSeen' = equf' /\ OvffSeen' = ovff'
         /\ Passed' = {}
<1>1. (Period(mode, hblank) \in Nat \ {0})'
  BY PeriodRule, PTL
<1>2. (0 \div Period(mode, hblank)') = 0 /\ 0 % (Period(mode, hblank)') = 0
  BY <1>1, ZeroDivided
<1>3. Ticks(mode', hblank', age') = 0 /\ Period(mode', hblank') = Period(mode, hblank)'
  BY <1>2 DEF Ticks, Period
<1>4. base' \in Value /\ Width \in Nat \ {0}
  BY WidthAssumption DEF TypeOK
<1>5. base' % Width = base'
  BY <1>4, CountItself
<1>6. Count' = (base' + Ticks(mode', hblank', age')) % Width
  BY DEF Count, CountNow
<1>7. Count' = base'
  <2>1. base' + Ticks(mode', hblank', age') = base'
    BY <1>3, <1>4 DEF Value
  <2> QED
    BY <1>5, <1>6, <2>1
<1>8. PhaseSeen' = 0
  BY <1>2 DEF PhaseSeen
<1>9. SettledRule'
  BY Settled, PTL
<1> QED
  BY <1>7, <1>8, <1>9 DEF SettledRule

\* An access that touches none of the counter's state shows nothing.
LEMMA SameImage ==
  ASSUME UNCHANGED <<mode, comp, base, age, unchecked, equf, ovff, hblank>>
  PROVE  UNCHANGED <<Count, PhaseSeen, EqufSeen, OvffSeen, Passed>>
<1>1. Crossed(age, unchecked)' <=> Crossed(age, unchecked)
  BY SameSeen
<1>2. Wrapped(age, unchecked)' <=> Wrapped(age, unchecked)
  BY SameSeen
<1>3. Passed' = Passed
  BY DEF Passed, Meets, Span, CountBefore, TicksBefore, Ticks, Period
<1> QED
  BY <1>1, <1>2, <1>3 DEF Count, CountNow, Ticks, Period, PhaseSeen, EqufSeen, OvffSeen

LEMMA StutterImage ==
  ASSUME UNCHANGED <<Count, PhaseSeen, EqufSeen, OvffSeen, Passed>>,
         UNCHANGED <<mode, comp, stat, hblank>>
  PROVE  UNCHANGED Hardware!vars
BY DEF Hardware!vars, PhaseSeen, EqufSeen, OvffSeen

\* A flag a write forgets: none that was shown.
LEMMA ForgottenFlags ==
  ASSUME TypeOK
  PROVE  equf \in {EqufSeen, FALSE} /\ ovff \in {OvffSeen, FALSE}
         /\ (equf => EqufSeen) /\ (ovff => OvffSeen)
<1>1. equf \in BOOLEAN /\ ovff \in BOOLEAN
  BY DEF TypeOK
<1>2. EqufSeen \in BOOLEAN /\ (equf => EqufSeen)
  BY <1>1 DEF EqufSeen
<1>3. OvffSeen \in BOOLEAN /\ (ovff => OvffSeen)
  BY <1>1 DEF OvffSeen
<1> QED
  BY <1>1, <1>2, <1>3

LEMMA WriteCountImage ==
  ASSUME TimersInv, NEW n \in Value, WriteCount(n)
  PROVE  Hardware!WriteCount(n)
<1>1. TypeOK /\ TypeOK'
  BY WriteCountInv DEF TimersInv
<1>2. /\ base' = n /\ age' = 0 /\ unchecked' = 0
      /\ UNCHANGED <<mode, comp, equf, ovff, stat, hblank>>
  BY DEF WriteCount
<1>3. /\ Count' = n /\ PhaseSeen' = 0 /\ EqufSeen' = equf /\ OvffSeen' = ovff
      /\ Passed' = {}
  BY <1>1, <1>2, SeenFresh
<1>4. EqufSeen' \in {EqufSeen, FALSE} /\ OvffSeen' \in {OvffSeen, FALSE}
  BY <1>1, <1>3, ForgottenFlags
<1> QED
  BY <1>2, <1>3, <1>4 DEF Hardware!WriteCount, PhaseSeen, EqufSeen, OvffSeen

\* A COMP that has been passed is seen as met.
LEMMA WriteCompImage ==
  ASSUME TimersInv, NEW n \in Value, WriteComp(n)
  PROVE  Hardware!WriteComp(n)
<1>1. TypeOK /\ TypeOK'
  BY WriteCompInv DEF TimersInv
<1>2. comp' = n /\ UNCHANGED <<mode, base, equf, ovff, age, unchecked, stat, hblank>>
  BY DEF WriteComp
<1>3. UNCHANGED <<Count, PhaseSeen, OvffSeen, Passed>>
  BY <1>2 DEF Count, CountNow, Ticks, Period, PhaseSeen, OvffSeen, Wrapped, Passed, Meets, Span,
              CountBefore, TicksBefore
<1>4. (EqufSeen = (equf \/ comp \in Passed))'
  BY <1>1, FlagsSeen, PTL
<1>5. EqufSeen' = (equf \/ n \in Passed) /\ equf \in BOOLEAN
  BY <1>1, <1>2, <1>3, <1>4 DEF TypeOK
<1>6. IF n \in Passed THEN EqufSeen' = TRUE ELSE EqufSeen' \in {EqufSeen, FALSE}
  <2>1. equf \in {EqufSeen, FALSE}
    BY <1>1, ForgottenFlags
  <2>2. CASE n \in Passed
    BY <1>5, <2>2
  <2>3. CASE n \notin Passed
    <3>1. EqufSeen' = equf
      BY <1>5, <2>3
    <3> QED
      BY <2>1, <2>3, <3>1
  <2> QED
    BY <2>2, <2>3
<1> QED
  BY <1>2, <1>3, <1>6 DEF Hardware!WriteComp, PhaseSeen, EqufSeen, OvffSeen

LEMMA WriteModeImage ==
  ASSUME TimersInv, NEW m \in Modes, NEW clear \in SUBSET {"equf", "ovff"}, WriteMode(m, clear)
  PROVE  Hardware!WriteMode(m, clear)
<1>1. TypeOK /\ TypeOK'
  BY WriteModeInv DEF TimersInv
<1>2. /\ mode' = m /\ base' = CountNow(m, hblank) /\ age' = 0 /\ unchecked' = 0
      /\ equf' = (equf /\ "equf" \notin clear) /\ ovff' = (ovff /\ "ovff" \notin clear)
      /\ UNCHANGED <<comp, stat, hblank>>
  BY DEF WriteMode
<1>3. /\ Count' = CountNow(m, hblank) /\ PhaseSeen' = 0 /\ Passed' = {}
      /\ EqufSeen' = equf' /\ OvffSeen' = ovff'
  BY <1>1, <1>2, SeenFresh
<1>4. IF m.cue = mode.cue /\ m.clks = mode.clks THEN Count' = Count ELSE Count' \in Value
  <2>1. CASE m.cue = mode.cue /\ m.clks = mode.clks
    BY <1>3, <2>1 DEF Count, CountNow, Ticks, Period
  <2>2. Count' \in Value
    BY <1>1, <1>2, <1>3 DEF TypeOK
  <2> QED
    BY <2>1, <2>2
<1>5. /\ EqufSeen' => EqufSeen /\ "equf" \notin clear
      /\ OvffSeen' => OvffSeen /\ "ovff" \notin clear
  BY <1>1, <1>2, <1>3, ForgottenFlags
<1> QED
  BY <1>2, <1>3, <1>4, <1>5
     DEF Hardware!WriteMode, Hardware!Value, Value, PhaseSeen, EqufSeen, OvffSeen

LEMMA VideoImage ==
  ASSUME TimersInv, NEW h \in Hblanks, SetVideoMode(h)
  PROVE  Hardware!SetVideoMode(h)
<1>1. TypeOK /\ TypeOK'
  BY VideoInv DEF TimersInv
<1>2. hblank' = h /\ UNCHANGED <<mode, comp, equf, ovff, stat>>
  BY DEF SetVideoMode
<1>3. CASE mode.clks = "hblank"
  <2>1. age' = 0 /\ unchecked' = 0
    BY <1>3 DEF SetVideoMode
  <2>2. /\ Count' = base' /\ PhaseSeen' = 0 /\ EqufSeen' = equf /\ OvffSeen' = ovff
        /\ Passed' = {}
    BY <1>1, <1>2, <2>1, SeenFresh
  <2>3. Count' \in Value /\ (EqufSeen' => EqufSeen) /\ (OvffSeen' => OvffSeen)
    BY <1>1, <2>2, ForgottenFlags DEF TypeOK
  <2> QED
    BY <1>2, <1>3, <2>2, <2>3
       DEF Hardware!SetVideoMode, Hardware!Value, Value, PhaseSeen, EqufSeen, OvffSeen
<1>4. CASE mode.clks # "hblank"
  <2>1. UNCHANGED <<base, age, unchecked>>
    BY <1>4 DEF SetVideoMode
  <2>2. /\ Crossed(age, unchecked)' <=> Crossed(age, unchecked)
        /\ Wrapped(age, unchecked)' <=> Wrapped(age, unchecked)
        /\ Passed' = Passed
    BY <1>2, <1>4, <2>1 DEF Crossed, Wrapped, Passed, Meets, Span, CountBefore, TicksBefore,
                            Ticks, Period
  <2>3. UNCHANGED <<Count, PhaseSeen>>
    BY <1>2, <1>4, <2>1 DEF Count, CountNow, Ticks, Period, PhaseSeen
  <2>4. UNCHANGED <<EqufSeen, OvffSeen>>
    BY <1>2, <2>2 DEF EqufSeen, OvffSeen
  <2> QED
    BY <1>2, <1>4, <2>2, <2>3, <2>4
       DEF Hardware!SetVideoMode, PhaseSeen, EqufSeen, OvffSeen
<1> QED
  BY <1>3, <1>4

LEMMA InitImage == Init => Hardware!Init
<1> SUFFICES ASSUME Init PROVE Hardware!Init
  OBVIOUS
<1>1. TypeOK /\ SettledRule
  BY InitInv, Settled DEF TimersInv
<1>2. EqufSeen = FALSE /\ OvffSeen = FALSE /\ Passed = {}
  BY <1>1 DEF Init, SettledRule
<1>3. PhaseSeen = 0
  BY DEF Init, PhaseSeen
<1>4. Count = 0
  <2>1. Ticks(mode, hblank, age) = 0
    BY DEF Init, Ticks
  <2>2. 0 % Width = 0
    BY WidthAssumption, ZeroDivided
  <2> QED
    BY <1>1, <2>1, <2>2, CountType DEF Init
<1>5. hblank \in Hblanks
  BY <1>1 DEF TypeOK
<1> QED
  BY <1>2, <1>3, <1>4, <1>5 DEF Init, Hardware!Init, PhaseSeen, EqufSeen, OvffSeen

LEMMA StepImage == TimersInv /\ [Next]_vars => [Hardware!Next]_(Hardware!vars)
<1> SUFFICES ASSUME TimersInv, [Next]_vars
             PROVE  Hardware!Next \/ UNCHANGED Hardware!vars
  OBVIOUS
<1>1. CASE Pass
  BY <1>1, PassImage DEF Hardware!Next
<1>2. CASE RunDue
  BY <1>2, RunDueImage DEF Hardware!Next
<1>3. CASE Read
  BY <1>3, ReadImage DEF Hardware!Next
<1>4. CASE AccessOther
  <2>1. UNCHANGED <<mode, comp, base, age, unchecked, equf, ovff, hblank>> /\ UNCHANGED stat
    BY <1>4 DEF AccessOther, timerVars
  <2> QED
    BY <2>1, SameImage, StutterImage
<1>5. CASE Acknowledge
  <2>1. UNCHANGED <<mode, comp, base, age, unchecked, equf, ovff, hblank>> /\ stat' = FALSE
    BY <1>5 DEF Acknowledge, timerVars
  <2>2. Hardware!Acknowledge
    BY <2>1, SameImage DEF Hardware!Acknowledge, PhaseSeen, EqufSeen, OvffSeen
  <2> QED
    BY <2>2 DEF Hardware!Next
<1>6. CASE \E n \in Value : WriteCount(n)
  BY <1>6, WriteCountImage DEF Hardware!Next, Hardware!Value, Value
<1>7. CASE \E n \in Value : WriteComp(n)
  BY <1>7, WriteCompImage DEF Hardware!Next, Hardware!Value, Value
<1>8. CASE \E m \in Modes, clear \in SUBSET {"equf", "ovff"} : WriteMode(m, clear)
  BY <1>8, WriteModeImage DEF Hardware!Next
<1>9. CASE \E h \in Hblanks : SetVideoMode(h)
  BY <1>9, VideoImage DEF Hardware!Next
<1>10. CASE UNCHANGED vars
  <2>1. UNCHANGED <<mode, comp, base, age, unchecked, equf, ovff, hblank>> /\ UNCHANGED stat
    BY <1>10 DEF vars, timerVars
  <2> QED
    BY <2>1, SameImage, StutterImage
<1> QED
  BY <1>1, <1>2, <1>3, <1>4, <1>5, <1>6, <1>7, <1>8, <1>9, <1>10 DEF Next

\* For every width, prescale, H-blank and mode, armed or not, and for every order
\* of accesses, the timer that computes its count, flags and next event only when
\* somebody looks is UpCounter (timers.cpp:186-205): stepped on every cycle, an
\* armed interrupt on the tick that meets it, and a compare it was not woken for
\* settled once, at the next look.
THEOREM ImplementsUpCounter == Spec => IsUpCounter
<1>1. Spec => []TimersInv
  BY InitInv, StepInv, PTL DEF Spec
<1>2. IsUpCounter <=> Hardware!Init /\ [][Hardware!Next]_(Hardware!vars)
  BY DEF IsUpCounter, Hardware!Spec
<1> QED
  BY <1>1, <1>2, InitImage, StepImage, PTL DEF Spec
=============================================================================
